CONSTANTS
  Names <- MCNames
  Versions <- MCVersions
  Catalogs <- MCCatalogs
  Priority <- MCPriority
SPECIFICATION Spec
INVARIANTS
  DependenciesRegistered
  ChosenPresent
PROPERTIES
  TornStays
