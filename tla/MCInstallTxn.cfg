CONSTANTS
  prog_file = prog_file
  conf_file = conf_file
  p = p
  q = q
  Targets <- MCTargets
  Configs <- MCConfigs
  Pkgs <- MCPkgs
  Files <- MCFiles
  Admin = Admin
  Absent = Absent
  Torn = Torn
  NoPkg = NoPkg
  MaxTxns = 3
  MaxCrashes = 2
  MaxErrors = 2
  MaxEdits = 1
SPECIFICATION Spec
INVARIANTS
  TypeOK
  WriteAhead
  OldContentKept
  InstalledBeforeRegistered
PROPERTIES
  AdminConfigKept
