---------------------------- MODULE MCDownloads ----------------------------
(* Three sources and two transfers at a time, so that a mirror's failure   *)
(* meets transfers under way and transfers that begin after it.            *)
EXTENDS Downloads

Hashed(mirrors) == [mirrors |-> mirrors, hash |-> "sha256"]

MCSources ==
  {Hashed(<<"good">>), Hashed(<<"corrupt", "good">>), Hashed(<<"redirects", "good">>),
   Hashed(<<"down", "redirects">>), Hashed(<<"down", "insecure">>), Hashed(<<"insecure", "good">>),
   [mirrors |-> <<"good">>, hash |-> "empty"], [mirrors |-> <<"good">>, hash |-> "missing"],
   [mirrors |-> <<"corrupt">>, hash |-> "repo_db"]}
=============================================================================
