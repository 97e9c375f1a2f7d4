CONSTANTS
  Names <- MCNames
  Versions <- MCVersions
  NameOrder <- MCNameOrder
  Requests <- MCRequests
SPECIFICATION FairSpec
INVARIANTS
  TypeOK
  ModelSatisfies
  PropagationComplete
  ChoiceConsistent
  EarlyConflictReal
  OrderIsPermutation
  DependenciesFirst
  CyclesGrouped
PROPERTIES
  Termination
