SPECIFICATION Spec
CONSTANTS
  Callers = {c1, c2}
  Names = {n1, n2}
  Texts = {1, 2}
  Failing <- MCFailing
  MaxObjects = 4
  MaxCalls = 3
SYMMETRY Symmetry
INVARIANTS TypeOK OwnMetadata
PROPERTIES UpdateDelivers ListingComplete
