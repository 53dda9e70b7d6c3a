SPECIFICATION Spec
CONSTANTS
  Callers = {c1, c2}
  Names <- MCNames
  Lower <- MCLower
  Paths <- MCPaths
  MaxObjects = 4
  MaxCalls = 2
INVARIANT TypeOK
PROPERTIES InsertDelivers ExistFound DeleteExact
