CONSTANTS
  prog_file = prog_file
  conf_file = conf_file
  p = p
  q = q
  Targets <- MCTargets
  Configs <- MCConfigs
  Pkgs <- MCPkgs
  Files <- MCFiles
  Admin = Admin
  Absent = Absent
  Torn = Torn
  NoPkg = NoPkg
  MaxTxns = 2
  MaxCrashes = 0
  MaxErrors = 0
  MaxEdits = 0
SPECIFICATION Spec
INVARIANT OwnedFilesIntact
