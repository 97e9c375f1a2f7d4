CONSTANTS
  NumRepos = 2
  Configs <- MCConfigs
  NumVersions = 3
  Stamp <- MCStamp
  Absent = Absent
  Garbage = Garbage
SPECIFICATION Spec
INVARIANT UpdateSeesSynced
