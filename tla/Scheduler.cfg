SPECIFICATION Spec
CONSTANTS
  Chans = {c1}
  NoChan = NoChan
  Disciplined = FALSE
  MaxTasks = 2
  MaxSends = 2
  MaxRuns = 2
  MaxNest = 1
INVARIANTS
  TypeOK
  NoTaskLost
  ReadyInSpawnOrder
  ExitComplete
  ChannelInOrder
  NilIsFinal
PROPERTY
  RestartsUnsettled
