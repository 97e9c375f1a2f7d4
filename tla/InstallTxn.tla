----------------------------- MODULE InstallTxn -----------------------------
(***************************************************************************)
(* Putting the files of one package after another on the root file system: *)
(* `stage_artifact', `commit_artifact' and `rollback_journal' of           *)
(* core_ops.rs, `rename_or_copy' of utils.rs and `register_package' of     *)
(* db.rs, under the loop of main.rs that installs its targets in turn.     *)
(*                                                                         *)
(* A system call that changes a file, a line of the journal and an SQLite  *)
(* commit are one step each.  The process may be killed between any two;   *)
(* what it did to the file system stays.  A journal line or a copy may     *)
(* fail (the disk is full); a rename fails only if its source is missing,  *)
(* or, with the staging directory on another file system, always.          *)
(***************************************************************************)
EXTENDS Integers, Sequences

CONSTANTS Targets,   \* paths on the root file system
          Configs,   \* those that are configuration files (under /etc)
          Pkgs,      \* packages that may be installed
          Files,     \* the files each package brings
          Admin,     \* content that came from no package
          Absent,    \* no such file
          Torn,      \* a file copied in part
          NoPkg,
          MaxTxns,   \* bounds on packages tried, kills of the process, failing
          MaxCrashes,\* system calls and changes made by the administrator
          MaxErrors,
          MaxEdits

ASSUME TxnAssumption ==
  /\ Configs \subseteq Targets
  /\ Files \in [Pkgs -> SUBSET Targets]
  /\ Pkgs \cap {Admin, Absent, Torn, NoPkg} = {}
  /\ Admin \notin {Absent, Torn, NoPkg} /\ Absent \notin {Torn, NoPkg} /\ Torn # NoPkg
  /\ {MaxTxns, MaxCrashes, MaxErrors, MaxEdits} \subseteq Nat

\* A package's content is the package: its files differ from everyone else's.
Content == Pkgs \cup {Admin, Absent, Torn}

\* A line "B file backup" or "I staged destination"; new when the destination
\* is file.bhpkg-new.
Line == [op : {"B", "I"}, file : Targets, new : BOOLEAN]

\* An entry of actual_moves.
Move == [file : Targets, new : BOOLEAN, existed : BOOLEAN]

VARIABLES
  live, backup, dotnew, \* content of each target, target.bhpkg-backup and .bhpkg-new
  staged,               \* content of each file of the staging directory
  journal,              \* txn.journal: its lines
  journal_exists,
  pc,                   \* where the process is; "off" when none runs
  pkg,                  \* the package being installed
  planned,              \* the file being planned whose I line is still to come
  moves,                \* actual_moves; then those not yet made
  undo,                 \* lines a rollback has still to undo, the last one next
  files,                \* the files table: the package each path is recorded for
  local_packages,       \* the local_packages table
  in_txn,               \* an SQLite transaction was left open by this process
  pre,                  \* (history) the targets when the journal was opened
  txns, crashes, errors, edits \* how often each bounded event happened

fs == <<live, backup, dotnew, staged>>
db == <<files, local_packages, in_txn>>
jnl == <<journal, journal_exists>>
prog == <<pkg, planned, moves, undo>>
counts == <<txns, crashes, errors, edits>>
vars == <<fs, db, jnl, prog, pc, pre, counts>>

Init ==
  /\ live \in [Targets -> {Admin, Absent}]
  /\ backup = [t \in Targets |-> Absent]
  /\ dotnew = [t \in Targets |-> Absent]
  /\ staged = [t \in Targets |-> Absent]
  /\ journal = <<>> /\ journal_exists = FALSE
  /\ pc = "idle"
  /\ pkg = NoPkg /\ planned = <<>> /\ moves = <<>> /\ undo = <<>>
  /\ files = [t \in Targets |-> NoPkg]
  /\ local_packages = {}
  /\ in_txn = FALSE
  /\ pre = live
  /\ txns = 0 /\ crashes = 0 /\ errors = 0 /\ edits = 0

-----------------------------------------------------------------------------
(* One package, from its staging to its registration. *)

\* The next package built, of this target's queue or of the next target's; the
\* solver leaves out what is installed.  A staging that fails changes nothing that
\* is modelled.
Stage(p) ==
  /\ pc = "idle"
  /\ txns < MaxTxns
  /\ p \notin local_packages
  /\ pkg' = p
  /\ staged' = [t \in Targets |-> IF t \in Files[p] THEN p ELSE Absent]
  /\ pc' = "pre_install"
  /\ txns' = txns + 1
  /\ UNCHANGED <<live, backup, dotnew, db, jnl, planned, moves, undo, pre, crashes, errors, edits>>

\* An error is returned: the loop goes on with the next target, and whatever
\* the journal holds is left where it is.
GiveUp ==
  /\ pc' = "idle"
  /\ pkg' = NoPkg
  /\ moves' = <<>>
  /\ planned' = <<>>

CanFail == errors < MaxErrors /\ errors' = errors + 1

HookFails ==
  /\ pc \in {"pre_install", "post_install"}
  /\ CanFail
  /\ GiveUp
  /\ UNCHANGED <<fs, db, jnl, undo, pre, txns, crashes, edits>>

\* The pre_install hook ran; the journal is created or, if there is one, cut.
OpenJournal ==
  /\ pc = "pre_install"
  /\ journal' = <<>> /\ journal_exists' = TRUE
  /\ pre' = live
  /\ pc' = "plan"
  /\ UNCHANGED <<fs, db, prog, counts>>

Conflict(t) == files[t] \notin {NoPkg, pkg}

\* The mutant's: only what was recorded and then changed is left alone.
KeepsRecordedConfig(t) ==
  /\ t \in Configs /\ live[t] # Absent
  /\ files[t] # NoPkg /\ live[t] # files[t] /\ live[t] # staged[t]

\* A configuration file that is there is left alone unless its recorded
\* content is what is on disk, or what is staged is on disk already.
KeepsConfig(t) ==
  /\ t \in Configs /\ live[t] # Absent
  /\ files[t] # NoPkg => live[t] # files[t] /\ live[t] # staged[t]

InPlan(t) == \E k \in DOMAIN moves : moves[k].file = t

Plan(t) ==
  /\ planned' = <<[file |-> t, new |-> KeepsConfig(t), existed |-> live[t] # Absent]>>
  /\ pc' = "plan_line"
  /\ UNCHANGED <<pkg, moves>>

\* The mutant's: only what belongs to a package is to be backed up.
BackupLineIfOwned(t) ==
  IF live[t] # Absent /\ ~KeepsConfig(t) /\ files[t] # NoPkg
  THEN <<[op |-> "B", file |-> t, new |-> FALSE]>> ELSE <<>>

BackupLine(t) ==
  IF live[t] # Absent /\ ~KeepsConfig(t)
  THEN <<[op |-> "B", file |-> t, new |-> FALSE]>> ELSE <<>>

\* The next file of the walk.  One that is to be replaced gets its B line here.
PlanFile(t) ==
  /\ pc = "plan"
  /\ t \in Files[pkg] /\ ~InPlan(t)
  /\ IF Conflict(t)
     THEN GiveUp /\ UNCHANGED journal
     ELSE Plan(t) /\ journal' = journal \o BackupLine(t)
  /\ UNCHANGED <<fs, db, journal_exists, undo, pre, counts>>

\* Its I line.
PlanLine ==
  /\ pc = "plan_line"
  /\ LET m == Head(planned)
     IN  /\ journal' = Append(journal, [op |-> "I", file |-> m.file, new |-> m.new])
         /\ moves' = Append(moves, m)
  /\ planned' = <<>>
  /\ pc' = "plan"
  /\ UNCHANGED <<fs, db, journal_exists, pkg, undo, pre, counts>>

\* A line cannot be written, or the journal cannot be synced.
JournalFails ==
  /\ pc \in {"plan", "plan_line"}
  /\ CanFail
  /\ GiveUp
  /\ UNCHANGED <<fs, db, jnl, undo, pre, txns, crashes, edits>>

\* The journal is complete and synced, the directories are made.
SyncJournal ==
  /\ pc = "plan"
  /\ \A t \in Files[pkg] : InPlan(t)
  /\ pc' = "move"
  /\ UNCHANGED <<fs, db, jnl, prog, pre, counts>>

SetDestination(m, content) ==
  IF m.new THEN dotnew' = [dotnew EXCEPT ![m.file] = content] /\ UNCHANGED live
           ELSE live' = [live EXCEPT ![m.file] = content] /\ UNCHANGED dotnew

\* The mutant's: what is replaced is removed like any other destination.
ClearAway(m) == SetDestination(m, Absent) /\ UNCHANGED backup

\* What is replaced is renamed to its backup, over an older one; any other
\* destination is removed.
ClearDestination(m) ==
  IF m.existed /\ ~m.new
  THEN /\ backup' = [backup EXCEPT ![m.file] = live[m.file]]
       /\ live' = [live EXCEPT ![m.file] = Absent]
       /\ UNCHANGED dotnew
  ELSE SetDestination(m, Absent) /\ UNCHANGED backup

\* The next file.
MakeRoom ==
  /\ pc = "move"
  /\ moves # <<>>
  /\ ClearDestination(Head(moves))
  /\ pc' = "place"
  /\ UNCHANGED <<staged, db, jnl, prog, pre, counts>>

Placed(m) ==
  /\ SetDestination(m, staged[m.file])
  /\ staged' = [staged EXCEPT ![m.file] = Absent]
  /\ moves' = Tail(moves)
  /\ pc' = "move"

\* rename_or_copy: the staged file is renamed ...
Place ==
  /\ pc = "place"
  /\ Placed(Head(moves))
  /\ UNCHANGED <<backup, db, jnl, pkg, planned, undo, pre, counts>>

\* ... or, on another file system, copied: the destination is removed, written
\* and only then complete.
StartCopy ==
  /\ pc = "place"
  /\ SetDestination(Head(moves), Torn)
  /\ pc' = "copy"
  /\ UNCHANGED <<backup, staged, db, jnl, prog, pre, counts>>

EndCopy ==
  /\ pc = "copy"
  /\ Placed(Head(moves))
  /\ UNCHANGED <<backup, db, jnl, pkg, planned, undo, pre, counts>>

\* The mutant's: the error is dropped and the next file's turn comes.
CopyFailsUnnoticed ==
  /\ pc = "copy"
  /\ CanFail
  /\ moves' = Tail(moves)
  /\ pc' = "move"
  /\ UNCHANGED <<fs, db, jnl, pkg, planned, undo, pre, txns, crashes, edits>>

CopyFails ==
  /\ pc = "copy"
  /\ CanFail
  /\ GiveUp
  /\ UNCHANGED <<fs, db, jnl, undo, pre, txns, crashes, edits>>

\* The destination cannot be written, or only the permissions of what was renamed
\* there cannot be set: the error leaves the file in its place.
PlaceFails ==
  /\ pc = "place"
  /\ CanFail
  /\ \/ UNCHANGED <<live, dotnew, staged>>
     \/ /\ SetDestination(Head(moves), staged[Head(moves).file])
        /\ staged' = [staged EXCEPT ![Head(moves).file] = Absent]
  /\ GiveUp
  /\ UNCHANGED <<backup, db, jnl, undo, pre, txns, crashes, edits>>

\* Everything is in place: the transaction ends with its journal.
RemoveJournal ==
  /\ pc = "move"
  /\ moves = <<>>
  /\ journal' = <<>> /\ journal_exists' = FALSE
  /\ pc' = "post_install"
  /\ UNCHANGED <<fs, db, prog, pre, counts>>

PostInstall ==
  /\ pc = "post_install"
  /\ pc' = "register"
  /\ UNCHANGED <<fs, db, jnl, prog, pre, counts>>

\* The mutant's: what is on disk is recorded in place of the package.
RecordedContent(t) == IF staged[t] # Absent THEN pkg ELSE live[t]

\* register_package walks the staging directory, where only what was not moved
\* away is left.
Recorded(t) ==
  IF staged[t] # Absent THEN pkg ELSE IF files[t] = pkg THEN NoPkg ELSE files[t]

Register ==
  /\ pc = "register"
  /\ ~in_txn
  /\ local_packages' = local_packages \cup {pkg}
  /\ files' = [t \in Targets |-> Recorded(t)]
  /\ staged' = [t \in Targets |-> Absent]
  /\ pc' = "idle"
  /\ pkg' = NoPkg
  /\ UNCHANGED <<live, backup, dotnew, in_txn, jnl, planned, moves, undo, pre, counts>>

\* A statement fails: after BEGIN, nobody rolls back and the transaction stays
\* open; every later BEGIN of this process fails for that.
RegisterFails ==
  /\ pc = "register"
  /\ IF in_txn THEN UNCHANGED <<errors, in_txn>> ELSE CanFail /\ in_txn' \in BOOLEAN
  /\ GiveUp
  /\ UNCHANGED <<fs, files, local_packages, jnl, undo, pre, txns, crashes, edits>>

-----------------------------------------------------------------------------
(* The end of a process and the start of the next. *)

Stop ==
  /\ pc' = "off"
  /\ pkg' = NoPkg /\ planned' = <<>> /\ moves' = <<>> /\ undo' = <<>>
  /\ in_txn' = FALSE
  /\ UNCHANGED <<fs, files, local_packages, jnl, pre, txns, errors, edits>>

Exit == pc = "idle" /\ Stop /\ UNCHANGED crashes

Crash ==
  /\ pc \notin {"off", "idle"}
  /\ crashes < MaxCrashes
  /\ crashes' = crashes + 1
  /\ Stop

\* run_app: a journal that is there is undone before anything else.
Start ==
  /\ pc = "off"
  /\ IF journal_exists THEN pc' = "undo" /\ undo' = journal ELSE pc' = "idle" /\ UNCHANGED undo
  /\ UNCHANGED <<fs, db, jnl, pkg, planned, moves, pre, counts>>

UndoInstall(line) ==
  /\ line.op = "I"
  /\ SetDestination(line, Absent)
  /\ UNCHANGED backup

UndoBackup(line) ==
  /\ line.op = "B"
  /\ IF backup[line.file] # Absent
     THEN /\ live' = [live EXCEPT ![line.file] = backup[line.file]]
          /\ backup' = [backup EXCEPT ![line.file] = Absent]
     ELSE UNCHANGED <<live, backup>>
  /\ UNCHANGED dotnew

Undo ==
  /\ pc = "undo"
  /\ undo # <<>>
  /\ LET line == undo[Len(undo)] IN UndoInstall(line) \/ UndoBackup(line)
  /\ undo' = SubSeq(undo, 1, Len(undo) - 1)
  /\ UNCHANGED <<staged, db, jnl, pkg, planned, moves, pc, pre, counts>>

\* "Filesystem rollback complete."
EndRollback ==
  /\ pc = "undo"
  /\ undo = <<>>
  /\ journal' = <<>> /\ journal_exists' = FALSE
  /\ pc' = "idle"
  /\ UNCHANGED <<fs, db, prog, pre, counts>>

\* The administrator changes a file while no package is being installed.
AdminEdit(t) ==
  /\ pc \in {"idle", "off"}
  /\ edits < MaxEdits
  /\ live[t] # Admin
  /\ live' = [live EXCEPT ![t] = Admin]
  /\ edits' = edits + 1
  /\ UNCHANGED <<backup, dotnew, staged, db, jnl, prog, pc, pre, txns, crashes, errors>>

Next ==
  \/ \E p \in Pkgs : Stage(p)
  \/ HookFails
  \/ OpenJournal
  \/ \E t \in Targets : PlanFile(t)
  \/ PlanLine
  \/ JournalFails
  \/ SyncJournal
  \/ MakeRoom
  \/ Place
  \/ StartCopy
  \/ EndCopy
  \/ CopyFails
  \/ PlaceFails
  \/ RemoveJournal
  \/ PostInstall
  \/ Register
  \/ RegisterFails
  \/ Exit
  \/ Crash
  \/ Start
  \/ Undo
  \/ EndRollback
  \/ \E t \in Targets : AdminEdit(t)

Spec == Init /\ [][Next]_vars

-----------------------------------------------------------------------------
(* Correctness. *)

TypeOK ==
  /\ live \in [Targets -> Content] /\ backup \in [Targets -> Content]
  /\ dotnew \in [Targets -> Content] /\ staged \in [Targets -> Content]
  /\ pre \in [Targets -> Content]
  /\ journal \in Seq(Line) /\ journal_exists \in BOOLEAN
  /\ pc \in {"idle", "pre_install", "plan", "plan_line", "move", "place", "copy",
             "post_install", "register", "off", "undo"}
  /\ pkg \in Pkgs \cup {NoPkg}
  /\ planned \in Seq(Move) /\ moves \in Seq(Move)
  /\ undo \in Seq(Line)
  /\ files \in [Targets -> Pkgs \cup {NoPkg}]
  /\ local_packages \subseteq Pkgs
  /\ in_txn \in BOOLEAN
  /\ txns \in Nat /\ crashes \in Nat /\ errors \in Nat /\ edits \in Nat

HasLine(op, t) == \E k \in DOMAIN journal : journal[k].op = op /\ journal[k].file = t

\* The process runs and has, perhaps after an error, an unfinished transaction.
Unfinished == journal_exists /\ pc \notin {"off", "undo"}

\* The journal is ahead of the file system: of an unfinished transaction every
\* file that is neither as it was found nor the administrator's has its I line,
\* and its B line when there was something to back up.  So a rollback, whenever
\* the process is killed, knows of every file that was touched.
WriteAhead ==
  Unfinished =>
    \A t \in Targets : live[t] \notin {pre[t], Admin} =>
      HasLine("I", t) /\ (pre[t] # Absent => HasLine("B", t))

\* An unfinished transaction has lost nothing: what it found is in its place or
\* in the backup, unless the administrator wrote over it.
OldContentKept ==
  Unfinished =>
    \A t \in Targets : pre[t] \in {Absent, live[t], backup[t]} \/ live[t] = Admin

\* Once the journal is removed, and so before the package is registered, all its
\* files are in place, complete, or beside the configuration file they may not
\* replace.
InstalledBeforeRegistered ==
  pc \in {"post_install", "register"} =>
    \A t \in Files[pkg] : pkg \in {live[t], dotnew[t]}

\* What a transaction found in a configuration file as the administrator wrote it
\* stays there through the installation, its failure or the kill of the process,
\* and the rollback.
AdminConfigKept ==
  [][\A t \in Configs : live[t] = Admin /\ pre[t] = Admin => live'[t] = Admin]_vars

\* "Filesystem rollback complete": every file is what it was when the
\* transaction began.
RollbackRestores == pc = "undo" /\ undo = <<>> => live = pre

\* "Conflict! '{}' is owned by '{}'": a file of a registered package is not
\* replaced by a file of another one.
OwnedFilesIntact ==
  pc = "idle" /\ ~journal_exists =>
    \A p \in local_packages : \A t \in Files[p] : live[t] \notin Pkgs \ {p}
=============================================================================
