CONSTANTS
  Names <- MCNames
  Versions <- MCVersions
  Catalogs <- NewerOnly
  Priority <- MCPriority
SPECIFICATION Spec
INVARIANTS
  UpdateInstalls
