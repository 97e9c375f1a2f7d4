--------------------------- MODULE RepoSyncProofs ---------------------------
(***************************************************************************)
(* What RepoSync promises, proved for any number of repositories, versions *)
(* and time stamps.                                                        *)
(*                                                                         *)
(* The argument: once the download is over, only the loop touches the      *)
(* files, and only those of the repository it looks at.  So the files of a *)
(* repository whose turn is still to come are what this sync fetched, and  *)
(* the verdict on them is about `matched'.                                 *)
(***************************************************************************)
EXTENDS RepoSync, TLAPS

USE DEF NewDb, NewSig

\* What this sync fetched for r, if the signature is of the database.
MatchOf(r) ==
  IF NewDb(r) = NewSig(r) /\ NewDb(r) \in Versions THEN NewDb(r) ELSE Absent

\* Repositories whose turn in the loop is still to come, and those done with.
Ahead(r) == IF pc = "check" THEN r >= repo ELSE r > repo
Behind(r) == IF pc \in {"check", "synced"} THEN r < repo ELSE r <= repo

Looping == pc \in {"check", "remove_sig", "remove_db"}

AheadAsFetched ==
  Looping => \A r \in Repos : Ahead(r) => matched[r] = MatchOf(r)

Synced(r) ==
  config[r] = "usable" =>
    \/ matched[r] \in {Absent, local_db[r]}
    \/ StampOf(local_db[r]) > StampOf(matched[r])

BehindSynced ==
  Looping \/ pc = "synced" => \A r \in Repos : Behind(r) => Synced(r)

AtARepo ==
  /\ pc \in {"off", "fetch"} => repo = 1
  /\ pc \in {"remove_sig", "remove_db"} => repo \in Repos
  /\ pc = "synced" => repo = NumRepos + 1

\* What is recorded of the stamps bounds those in use.
UsedInOrder ==
  \A r \in Repos : StampOf(local_db[r]) <= newest[r] /\ (StampOf(local_db[r]) < newest[r] => lapsed[r])

\* The inductive invariant.
IInv == TypeOK /\ AheadAsFetched /\ BehindSynced /\ AtARepo /\ UsedInOrder

-----------------------------------------------------------------------------
LEMMA StampType ==
  ASSUME NEW content
  PROVE  StampOf(content) \in Nat
BY SyncAssumption DEF StampOf

\* The destinations of a repository.
LEMMA DestinationsOf ==
  ASSUME NEW r \in Repos
  PROVE  <<r, "db">> \in Destination /\ <<r, "sig">> \in Destination
BY DEF Destination

LEMMA InitIInv == Init => IInv
<1> SUFFICES ASSUME Init PROVE IInv
  OBVIOUS
<1>1. TypeOK
  BY SyncAssumption DEF Init, TypeOK, NoDbs, Content, Repos
<1> QED
  BY <1>1, SyncAssumption DEF Init, IInv, AheadAsFetched, BehindSynced, AtARepo, Looping, UsedInOrder, NoDbs, StampOf

-----------------------------------------------------------------------------
(* Every step preserves the invariant. *)

LEMMA UsedSame ==
  ASSUME IInv, UNCHANGED <<local_db, used>>
  PROVE  UsedInOrder'
BY DEF IInv, UsedInOrder, StampOf, used

LEMMA OutsideLoop ==
  ASSUME IInv,
         Start \/ (\E d \in Destination : Spoil(d) \/ Fetch(d)) \/ DownloadFails \/ Exit \/ Crash
  PROVE  IInv'
<1>1. TypeOK'
  <2>1. CASE Start
    BY <2>1, SyncAssumption DEF IInv, TypeOK, Start, Content, used
  <2>2. CASE \E d \in Destination : Spoil(d) \/ Fetch(d)
    BY <2>2 DEF IInv, TypeOK, Spoil, Fetch, Content, used
  <2>3. CASE DownloadFails \/ Exit \/ Crash
    BY <2>3, SyncAssumption
    DEF IInv, TypeOK, DownloadFails, Exit, Crash, Leave, NoDbs, Content, Repos, used
  <2> QED
    BY <2>1, <2>2, <2>3
<1>2. pc' \in {"off", "fetch"}
  BY DEF Start, Spoil, Fetch, DownloadFails, Exit, Crash, Leave
<1>3. repo' = 1
  BY DEF IInv, AtARepo, Start, Spoil, Fetch, DownloadFails, Exit, Crash, Leave
<1> QED
  <2>1. UNCHANGED <<local_db, used>>
    BY DEF Start, Spoil, Fetch, DownloadFails, Exit, Crash, Leave
  <2> QED
    BY <1>1, <1>2, <1>3, <2>1, UsedSame DEF IInv, AheadAsFetched, BehindSynced, AtARepo, Looping

\* The loop begins, at repository 1.
LEMMA DownloadedStep ==
  ASSUME IInv, Downloaded
  PROVE  IInv'
<1> USE DEF Downloaded, used
<1>0. repo = 1
  BY DEF IInv, AtARepo
<1>1. TypeOK'
  BY DEF IInv, TypeOK, Content
<1>2. AheadAsFetched'
  BY DEF AheadAsFetched, Looping, Ahead, MatchOf
<1>3. BehindSynced'
  <2>1. \A r \in Repos : ~(r < 1)
    BY SyncAssumption DEF Repos
  <2> QED
    BY <1>0, <2>1 DEF BehindSynced, Behind
<1> QED
  BY <1>1, <1>2, <1>3, UsedSame DEF IInv, AtARepo

\* A repository is skipped: it need not be at what was fetched for it.
LEMMA SkipStep ==
  ASSUME IInv, SkipBadName
  PROVE  IInv'
<1> USE DEF SkipBadName, Checking, used
<1>1. TypeOK'
  BY SyncAssumption DEF IInv, TypeOK, Repos
<1>2. \A r \in Repos : r < repo \/ r = repo \/ r >= repo + 1
  BY DEF Repos
<1>3. AheadAsFetched'
  <2> SUFFICES ASSUME NEW r \in Repos, r >= repo + 1 PROVE (matched[r] = MatchOf(r))'
    BY DEF AheadAsFetched, Ahead
  <2>1. r >= repo
    BY DEF Repos
  <2>2. matched[r] = MatchOf(r)
    BY <2>1 DEF IInv, AheadAsFetched, Looping, Ahead
  <2> QED
    BY <2>2 DEF MatchOf
<1>4. BehindSynced'
  <2> SUFFICES ASSUME NEW r \in Repos, r < repo + 1 PROVE Synced(r)'
    BY DEF BehindSynced, Behind
  <2>1. CASE r = repo
    BY <2>1 DEF Synced
  <2>2. CASE r < repo
    BY <2>2 DEF IInv, BehindSynced, Behind, Looping, Synced
  <2> QED
    BY <2>1, <2>2, <1>2 DEF Repos
<1> QED
  BY <1>1, <1>3, <1>4, UsedSame DEF IInv, AtARepo

\* The files of the one repository the loop is at change, so what is known of
\* those ahead stays.
LEMMA OthersAhead ==
  ASSUME IInv, Looping, repo \in Repos, UNCHANGED <<repo, matched>>,
         pc' \in {"remove_sig", "remove_db"},
         \A r \in Repos \ {repo} : NewDb(r)' = NewDb(r) /\ NewSig(r)' = NewSig(r)
  PROVE  AheadAsFetched'
<1> SUFFICES ASSUME NEW r \in Repos, r > repo PROVE (matched[r] = MatchOf(r))'
  BY DEF AheadAsFetched, Ahead
<1>1. r >= repo /\ r # repo
  BY DEF Repos
<1>2. matched[r] = MatchOf(r)
  BY <1>1 DEF IInv, AheadAsFetched, Looping, Ahead
<1> QED
  BY <1>1, <1>2 DEF MatchOf

LEMMA ReplaceStep ==
  ASSUME IInv, Replace
  PROVE  IInv'
<1> USE DEF Replace, Checking, Recorded
<1>1. matched[repo] = NewDb(repo)
  BY DEF IInv, AheadAsFetched, Looping, Ahead, MatchOf, Verified, Repos
<1>2. TypeOK'
  BY SyncAssumption, DestinationsOf, StampType DEF IInv, TypeOK, Content, Verified
<1>3. AheadAsFetched'
  <2>1. \A r \in Repos \ {repo} : NewDb(r)' = NewDb(r) /\ NewSig(r)' = NewSig(r)
    BY DestinationsOf DEF IInv, TypeOK
  <2> QED
    BY <2>1, OthersAhead DEF Looping
<1>4. BehindSynced'
  <2> SUFFICES ASSUME NEW r \in Repos, r <= repo PROVE Synced(r)'
    BY DEF BehindSynced, Behind
  <2>1. CASE r = repo
    BY <2>1, <1>1 DEF Synced, IInv, TypeOK
  <2>2. CASE r < repo
    BY <2>2 DEF IInv, TypeOK, BehindSynced, Behind, Looping, Synced
  <2> QED
    BY <2>1, <2>2 DEF Repos
<1>5. UsedInOrder'
  <2> DEFINE stamp == StampOf(NewDb(repo))
  <2>1. /\ stamp \in Nat /\ StampOf(local_db[repo]) \in Nat /\ newest[repo] \in Nat /\ lapsed[repo] \in BOOLEAN
        /\ stamp > 0 => stamp >= StampOf(local_db[repo])
    BY SyncAssumption, StampType DEF IInv, TypeOK, Replayed, StampOf
  <2>2. ASSUME NEW r \in Repos, r # repo
        PROVE  /\ StampOf(local_db'[r]) = StampOf(local_db[r]) /\ newest'[r] = newest[r] /\ lapsed'[r] = lapsed[r]
    BY <2>2 DEF IInv, TypeOK
  <2>3. /\ local_db'[repo] = NewDb(repo)
        /\ newest'[repo] = IF stamp > newest[repo] THEN stamp ELSE newest[repo]
        /\ lapsed'[repo] = (stamp < newest[repo] /\ (lapsed[repo] \/ stamp = 0))
    BY DEF IInv, TypeOK
  <2>4. \A v : StampOf(v)' = StampOf(v)
    BY DEF StampOf
  <2> HIDE DEF stamp
  <2>5. ASSUME NEW r \in Repos
        PROVE  StampOf(local_db'[r]) <= newest'[r] /\ (StampOf(local_db'[r]) < newest'[r] => lapsed'[r])
    <3>1. CASE r = repo
      <4>1. StampOf(local_db'[r]) = stamp
        BY <2>3, <3>1 DEF stamp
      <4>2. StampOf(local_db[repo]) < newest[repo] => lapsed[repo]
        BY DEF IInv, UsedInOrder
      <4>3. stamp <= newest'[r]
        BY <2>1, <2>3, <3>1
      <4>4. stamp < newest'[r] => stamp < newest[repo] /\ (lapsed[repo] \/ stamp = 0)
        BY <2>1, <2>3, <3>1, <4>2
      <4> QED BY <2>3, <3>1, <4>1, <4>3, <4>4
    <3>2. CASE r # repo
      BY <2>2, <3>2 DEF IInv, UsedInOrder
    <3> QED BY <3>1, <3>2
  <2> QED BY <2>5 DEF UsedInOrder, StampOf
<1> QED
  BY <1>2, <1>3, <1>4, <1>5 DEF IInv, AtARepo

\* A usable repository is turned down because nothing matched, or because what
\* matched is older.
LEMMA RejectStep ==
  ASSUME IInv, Reject
  PROVE  IInv'
<1> USE DEF Reject, Checking, used
<1>1. matched[repo] = MatchOf(repo)
  BY DEF IInv, AheadAsFetched, Looping, Ahead, Repos
<1>2. TypeOK'
  BY DEF IInv, TypeOK
<1>3. AheadAsFetched'
  BY OthersAhead DEF Looping
<1>4. Synced(repo)
  <2>1. CASE ~Verified(repo)
    BY <2>1, <1>1 DEF Synced, Verified, MatchOf
  <2>2. CASE Verified(repo)
    <3>1. matched[repo] = NewDb(repo)
      BY <2>2, <1>1 DEF Verified, MatchOf
    <3>2. StampOf(NewDb(repo)) < StampOf(local_db[repo])
      BY <2>2 DEF Replayed
    <3> QED
      BY <3>1, <3>2, StampType DEF Synced
  <2> QED
    BY <2>1, <2>2
<1>5. BehindSynced'
  <2> SUFFICES ASSUME NEW r \in Repos, r <= repo PROVE Synced(r)'
    BY DEF BehindSynced, Behind
  <2>1. CASE r = repo
    BY <2>1, <1>4 DEF Synced
  <2>2. CASE r < repo
    BY <2>2 DEF IInv, BehindSynced, Behind, Looping, Synced
  <2> QED
    BY <2>1, <2>2 DEF Repos
<1> QED
  BY <1>2, <1>3, <1>5, UsedSame DEF IInv, AtARepo

LEMMA RemoveSigStep ==
  ASSUME IInv, RemoveSig
  PROVE  IInv'
<1> USE DEF RemoveSig, used
<1>1. repo \in Repos
  BY DEF IInv, AtARepo
<1>2. TypeOK'
  BY <1>1, DestinationsOf DEF IInv, TypeOK, Content
<1>3. AheadAsFetched'
  <2>1. \A r \in Repos \ {repo} : NewDb(r)' = NewDb(r) /\ NewSig(r)' = NewSig(r)
    BY <1>1, DestinationsOf DEF IInv, TypeOK
  <2> QED
    BY <1>1, <2>1, OthersAhead DEF Looping
<1>4. BehindSynced'
  BY DEF IInv, BehindSynced, Behind, Looping, Synced
<1> QED
  BY <1>1, <1>2, <1>3, <1>4, UsedSame DEF IInv, AtARepo

LEMMA RemoveDbStep ==
  ASSUME IInv, RemoveDb
  PROVE  IInv'
<1> USE DEF RemoveDb, used
<1>1. repo \in Repos
  BY DEF IInv, AtARepo
<1>2. TypeOK'
  <2>1. repo' \in 1 .. NumRepos + 1
    BY <1>1, SyncAssumption DEF Repos
  <2>2. src' \in [Destination -> Content]
    BY <1>1, DestinationsOf DEF IInv, TypeOK, Content
  <2> QED
    BY <2>1, <2>2 DEF IInv, TypeOK
<1>3. AheadAsFetched'
  <2> SUFFICES ASSUME NEW r \in Repos, r >= repo + 1 PROVE (matched[r] = MatchOf(r))'
    BY DEF AheadAsFetched, Ahead
  <2>1. r > repo /\ r # repo
    BY <1>1 DEF Repos
  <2>2. matched[r] = MatchOf(r)
    BY <2>1 DEF IInv, AheadAsFetched, Looping, Ahead
  <2> QED
    BY <1>1, <2>1, <2>2, DestinationsOf DEF IInv, TypeOK, MatchOf
<1>4. BehindSynced'
  <2> SUFFICES ASSUME NEW r \in Repos, r < repo + 1 PROVE Synced(r)'
    BY DEF BehindSynced, Behind
  <2>1. r <= repo
    BY <1>1 DEF Repos
  <2> QED
    BY <2>1 DEF IInv, BehindSynced, Behind, Looping, Synced
<1> QED
  BY <1>2, <1>3, <1>4, UsedSame DEF IInv, AtARepo

LEMMA EndSyncStep ==
  ASSUME IInv, EndSync
  PROVE  IInv'
<1> USE DEF EndSync, used
<1>1. TypeOK'
  BY DEF IInv, TypeOK
<1>2. BehindSynced'
  BY DEF IInv, BehindSynced, Behind, Looping, Synced
<1>3. repo = NumRepos + 1
  BY SyncAssumption DEF IInv, TypeOK, Repos
<1> QED
  BY <1>1, <1>2, <1>3, UsedSame DEF IInv, AheadAsFetched, AtARepo, Looping

\* No step of any kind disturbs it.
LEMMA NextIInv == IInv /\ [Next]_vars => IInv'
<1> SUFFICES ASSUME IInv, [Next]_vars PROVE IInv'
  OBVIOUS
<1>1. CASE UNCHANGED vars
  BY <1>1 DEF vars, used, IInv, TypeOK, AheadAsFetched, BehindSynced, AtARepo, Ahead, Behind, Looping,
     MatchOf, Synced, UsedInOrder, StampOf
<1>2. CASE Next
  BY <1>2, OutsideLoop, DownloadedStep, SkipStep, ReplaceStep, RejectStep, RemoveSigStep,
     RemoveDbStep, EndSyncStep DEF Next
<1> QED
  BY <1>1, <1>2

-----------------------------------------------------------------------------
(* The theorems. *)

\* The inductive invariant holds in every reachable state.
THEOREM SyncInvariant == Spec => []IInv
BY InitIInv, NextIInv, PTL DEF Spec

\* Every variable keeps its type.
THEOREM SyncTypeCorrect == Spec => []TypeOK
<1>1. IInv => TypeOK
  BY DEF IInv
<1> QED
  BY <1>1, SyncInvariant, PTL

\* After a sync that ran to its end every usable repository whose database came
\* with its own signature is at that version, or at a later stamp (db.rs: one that
\* is turned down is skipped and the loop goes on).  Of syncs that end in the
\* download, which replace nothing, it says nothing.
THEOREM AllSynced == Spec => []EachSynced
<1>1. IInv => EachSynced
  <2> SUFFICES ASSUME IInv, pc = "synced", NEW r \in Repos PROVE Synced(r)
    BY DEF EachSynced, Synced
  <2>1. r < repo
    BY SyncAssumption DEF IInv, AtARepo, Repos
  <2> QED
    BY <2>1 DEF IInv, BehindSynced, Behind
<1> QED
  BY <1>1, SyncInvariant, PTL

\* Only the renaming of a fetched database changes one in use.
LEMMA OnlyReplaceChanges ==
  ASSUME [Next]_vars, ~Replace
  PROVE  local_db' = local_db
BY DEF vars, Next, Start, Spoil, Fetch, DownloadFails, Downloaded, SkipBadName, Reject, RemoveSig,
   RemoveDb, EndSync, Exit, Crash, Leave

\* Nothing takes the place of a database in use but what this sync fetched with a
\* signature of it (sync_repos renames only after verify_signature).
THEOREM MatchedOnly == Spec => OnlyMatchedUsed
<1>1. IInv /\ [Next]_vars =>
        \A r \in Repos : local_db'[r] # local_db[r] => local_db'[r] = matched[r]
  <2> SUFFICES ASSUME IInv, Replace, NEW r \in Repos, local_db'[r] # local_db[r]
               PROVE  local_db'[r] = matched[r]
    BY OnlyReplaceChanges
  <2>1. r = repo /\ local_db'[r] = NewDb(r)
    BY DEF IInv, TypeOK, Replace
  <2>2. matched[r] = MatchOf(r)
    BY <2>1 DEF IInv, TypeOK, AheadAsFetched, Looping, Ahead, Replace, Checking
  <2> QED
    BY <2>1, <2>2 DEF MatchOf, Replace, Verified
<1>2. IInv /\ [Next]_vars =>
        [\A r \in Repos : local_db'[r] # local_db[r] => local_db'[r] = matched[r]]_vars
  BY <1>1
<1> QED
  BY <1>2, SyncInvariant, PTL DEF Spec, OnlyMatchedUsed

\* No repository falls behind the newest time stamp that was ever in use, over any
\* number of syncs, unless a database without a stamp was taken since.
THEOREM DowngradesRejected == Spec => []NoDowngrade
<1>1. IInv => NoDowngrade
  BY DEF IInv, UsedInOrder, NoDowngrade
<1> QED
  BY <1>1, SyncInvariant, PTL
=============================================================================
