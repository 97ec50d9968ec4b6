SPECIFICATION Spec
CONSTANTS
  p1 = p1
  Docs = {d1, d2}
  Prefixes = {p1}
  Prefix <- SamePrefix
  Nothing = Nothing
  MaxEdits = 2
  MaxProcs = 2
INVARIANT AgreementAmongDocuments
