SPECIFICATION Spec
CONSTANTS
  Functions <- PlainFunctions
  MaxValues = 9
INVARIANTS
  TypeOK
  ReadsOwned
  DropsOwned
  DropsInReverse
  LetsFindNothing
  LeaksOnlyMoved
  StraightLeaksNothing
  NeverUnreachable
  Certified
