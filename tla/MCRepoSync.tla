----------------------------- MODULE MCRepoSync -----------------------------
(* Two repositories, one of which may be out of order; the first version of *)
(* each has no time stamp.                                                 *)
EXTENDS RepoSync

MCStamp == <<0, 1, 2>>

MCConfigs == {<<"usable", "usable">>, <<"bad_key", "usable">>, <<"bad_name", "usable">>, <<"usable", "bad_key">>}
=============================================================================
