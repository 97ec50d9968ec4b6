SPECIFICATION Spec
CONSTANTS
  p1 = p1
  Docs = {d1}
  Prefixes = {p1}
  Prefix <- SamePrefix
  Nothing = Nothing
  MaxEdits = 2
  MaxProcs = 2
INVARIANTS
  TypeOK
  NoTempLeft
  Agreement
PROPERTIES
  NeverOlder
  EditAnswered
