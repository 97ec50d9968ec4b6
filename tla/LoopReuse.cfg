SPECIFICATION Spec
CONSTANTS
  Functions <- LoopFunctions
  MaxValues = 9
INVARIANT ReadsOwned
