SPECIFICATION Spec
CONSTANTS
  Functions <- ArmFunctions
  MaxValues = 9
INVARIANT DropsOwned
