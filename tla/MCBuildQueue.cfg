CONSTANTS
  Names <- MCNames
  Versions <- MCVersions
  NumTasks = 3
  Workers = {w1, w2, w3}
  PackageLists <- MCPackageLists
SPECIFICATION FairSpec
INVARIANTS
  TypeOK
  DepsCommittedFirst
  TaskInOnePlace
  NoIdleWait
  NoFalseDeadlock
  SuccessIsComplete
  DependencyAvailable
PROPERTIES
  Termination
  RefinesOrderedInstall
