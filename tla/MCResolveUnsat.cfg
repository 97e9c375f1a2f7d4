CONSTANTS
  Names <- MCNames
  Versions <- MCVersions
  NameOrder <- MCNameOrder
  Requests <- UnsatRequests
SPECIFICATION Spec
INVARIANT ConflictReal
