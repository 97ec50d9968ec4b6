SPECIFICATION Spec
CONSTANTS
  Chans = {c1}
  NoChan = NoChan
  Disciplined = FALSE
  MaxTasks = 2
  MaxSends = 1
  MaxRuns = 2
  MaxNest = 0
INVARIANT
  SpawnedRuns
