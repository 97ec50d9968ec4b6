SPECIFICATION Spec
CONSTANTS
  Chans = {c1}
  NoChan = NoChan
  Disciplined = TRUE
  MaxTasks = 3
  MaxSends = 1
  MaxRuns = 2
  MaxNest = 1
INVARIANTS
  BodyOnce
PROPERTIES
  ImplementsFutures
  EveryTaskSettles
