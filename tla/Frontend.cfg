SPECIFICATION Spec
CHECK_DEADLOCK FALSE
CONSTANTS
  Sources <- MCSources
  Bits = 4
  Fuel = 20
INVARIANTS
  TypeOK
  ParsesBack
  NeverStuck
  ScalarsApart
  InferredTypeHolds
  BorrowsExclusive
  SameIds
  CapturesAreOuter
  DesugaringAgrees
  CompiledAgrees
