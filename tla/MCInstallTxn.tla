---------------------------- MODULE MCInstallTxn ----------------------------
(* Two packages that share a program and bring a configuration file.       *)
EXTENDS InstallTxn, TLC

CONSTANTS prog_file, conf_file, p, q

MCTargets == {prog_file, conf_file}
MCConfigs == {conf_file}
MCPkgs == {p, q}
MCFiles == (p :> {prog_file, conf_file}) @@ (q :> {prog_file})
=============================================================================
