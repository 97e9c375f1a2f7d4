CONSTANTS
  NumTasks = 3
  MaxConcurrent = 2
  Sources <- MCSources
  MaxErrors = 1
SPECIFICATION FairSpec
INVARIANTS
  TypeOK
  OkMeansVerified
  NoUnverifiedFile
  OthersTriedAll
  TransfersLimited
  GivenUpForOthers
PROPERTIES
  Termination
