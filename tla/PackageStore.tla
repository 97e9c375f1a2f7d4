---------------------------- MODULE PackageStore ----------------------------
(***************************************************************************)
(* What a sequence of commands makes of the packages on a system: the table *)
(* local_packages (db.rs) and the archives in the cache (core_ops.rs,      *)
(* archive.rs), under installations, updates, removals and pruning, each a *)
(* process that may be killed.                                             *)
(*                                                                         *)
(* The resolver is taken at its word (ChoiceConsistent and DependenciesFirst *)
(* of Resolve), of the queue the order of its tasks is kept, and of an     *)
(* installation the moment it is registered (InstallTxn).  A command has   *)
(* one target; several targets are as many commands.                       *)
(***************************************************************************)
EXTENDS Packages, Sequences, FiniteSets

CONSTANTS Catalogs, \* what sync_packages can hold, a row for each version
          Priority  \* of the repository that a row comes from, the smallest first

ASSUME StoreAssumption ==
  \A c \in Catalogs :
    /\ c \subseteq Package /\ IsFiniteSet(c)
    /\ \A p \in c : p.version > 0 /\ Priority[p] \in Nat
    /\ \A p, q \in c : p.name = q.name /\ p.version = q.version => p = q

VARIABLES
  catalog, \* never changed
  local,   \* local_packages: the version of each name, 0 without one
  reason,  \* local_packages: why it was installed, 1 for a dependency
  cache,   \* the archive of each package: "none", "torn" or "whole"
  pc,      \* of the process, "idle" between two commands
  command, \* what it does: "install" or "update"
  root,    \* what it was asked for, a set of one package
  chosen,  \* what the resolver chose
  flagged, \* names that were installed when it looked (is_installed)
  expired, \* names made obsolete, still to be removed
  order,   \* packages to install, in order
  task,    \* how far each of them is
  removed, \* history: a package was removed from the system
  passed   \* history: chosen packages that were not installed for another version was

history == <<removed, passed>>
stored == <<catalog, local, reason, cache, history>>
process == <<command, root, chosen, flagged, expired, order, task>>
vars == <<stored, process, pc>>

Installed == {n \in Names : local[n] # 0}

Init ==
  /\ catalog \in Catalogs
  /\ local = [n \in Names |-> 0]
  /\ reason = [n \in Names |-> 0]
  /\ cache = [p \in catalog |-> "none"]
  /\ pc = "idle" /\ command = "none"
  /\ root = {} /\ chosen = {} /\ flagged = {} /\ expired = {} /\ order = <<>> /\ task = <<>>
  /\ removed = FALSE /\ passed = {}

\* The process ends, well or not, and forgets.
End ==
  /\ pc' = "idle" /\ command' = "none"
  /\ root' = {} /\ chosen' = {} /\ flagged' = {} /\ expired' = {} /\ order' = <<>> /\ task' = <<>>

-----------------------------------------------------------------------------
(* Commands that end at once. *)

\* remove_package.  Who requires a package is asked of rows that are never
\* stepped through (is_required_by_others), so nothing is ever refused; no files
\* are known (InstallTxn) and none are deleted.
Delete(n) ==
  /\ local' = [local EXCEPT ![n] = 0]
  /\ removed' = (removed \/ local[n] # 0)

Remove(n) ==
  /\ pc = "idle"
  /\ Delete(n)
  /\ UNCHANGED <<catalog, reason, cache, passed, process, pc>>

\* Dependencies that nothing installed names; of a name's rows in sync_packages the
\* last one read is asked.  There are none, as no package is registered with a
\* reason of 1.
Orphans(row) ==
  {n \in Installed : reason[n] = 1 /\ \A m \in Installed : \A d \in row[m].deps \cup row[m].makedeps : d.name # n}

\* remove_orphans goes round until there are no more.
RemoveOrphans ==
  /\ pc = "idle"
  /\ \E row \in [Installed -> catalog] :
       /\ \A n \in Installed : row[n].name = n
       /\ local' = [n \in Names |-> IF n \in Orphans(row) THEN 0 ELSE local[n]]
       /\ removed' = (removed \/ Orphans(row) # {})
  /\ UNCHANGED <<catalog, reason, cache, passed, process, pc>>

\* cache_prune
Prune ==
  /\ pc = "idle"
  /\ cache' = [p \in catalog |-> "none"]
  /\ UNCHANGED <<catalog, local, reason, history, process, pc>>

-----------------------------------------------------------------------------
(* An installation or an update: fetch_manifest, resolve_dependencies.      *)

\* fetch_manifest without a version: the repository counts before the version.
Preferred(p) ==
  \A q \in catalog : q.name = p.name =>
    Priority[p] < Priority[q] \/ (Priority[p] = Priority[q] /\ q.version <= p.version)

Begin(what, p) ==
  /\ pc = "idle"
  /\ Preferred(p)
  /\ command' = what
  /\ root' = {p}
  /\ pc' = "resolve"
  /\ UNCHANGED <<stored, chosen, flagged, expired, order, task>>

\* An update that names its target is no different.
Request(p) == Begin("install", p)

\* get_updates: a name is installed and some repository has it newer.
Update(p) ==
  /\ local[p.name] # 0
  /\ \E q \in catalog : q.name = p.name /\ q.version > local[p.name]
  /\ Begin("update", p)

\* What the resolver comes upon from p: its versions, those of its dependencies
\* and who provides them.
Reaches(p, q) ==
  \/ q.name = p.name
  \/ \E d \in (IF local[p.name] # 0 THEN p.deps ELSE Requirements(p)) : d.name = q.name \/ d.name \in q.provides

Universe ==
  {q \in catalog :
     \A T \in SUBSET catalog :
       root \subseteq T /\ (\A p \in T, r \in catalog : Reaches(p, r) => r \in T) => q \in T}

\* Mutant: what an installed package provides counts as installed.
NamesCountedProvided(S) ==
  {n \in Names : \E p \in S : p.name = n /\ (local[n] # 0 \/ \E q \in catalog : local[q.name] = q.version /\ n \in q.provides)}

\* The names of S that fetch_manifest found installed, in whatever version.
NamesCounted(S) == {n \in Names : local[n] # 0 /\ \E p \in S : p.name = n}

Resolve ==
  /\ pc = "resolve"
  /\ \E S \in SUBSET Universe :
       /\ root \subseteq S
       /\ Consistent(S, Installed)
       /\ chosen' = S
       /\ flagged' = NamesCounted(S)
       /\ expired' = UNION {p.obsoletes : p \in S}
       /\ passed' = passed \cup {p \in S : local[p.name] \notin {0, p.version}}
  /\ pc' = "expire"
  /\ UNCHANGED <<catalog, local, reason, cache, removed, command, root, order, task>>

\* What is made obsolete goes before anything is built.
Expire(n) ==
  /\ pc = "expire"
  /\ n \in expired
  /\ expired' = expired \ {n}
  /\ Delete(n)
  /\ UNCHANGED <<catalog, reason, cache, passed, command, root, chosen, flagged, order, task, pc>>

\* tarjan_topological_sort's view of a dependency, for what is not installed.
DependsDirectly(p, q) ==
  \/ \E d \in Requirements(p) : d.name = q.name /\ MeetsConstraint(q.version, d)
  \/ \E d \in p.deps : d.name \in q.provides /\ MeetsConstraint(q.version, d)

\* What p depends on in S, directly or through others: what is in every set that
\* holds the dependencies of p and of its own members.
DependsOn(p, S) ==
  {q \in S :
     \A T \in SUBSET S :
       (\A r \in S : (\E t \in T \cup {p} : DependsDirectly(t, r)) => r \in T) => q \in T}

\* The orders the sort can return.
Orders(S) ==
  {s \in [1 .. Cardinality(S) -> S] :
     /\ \A j, k \in DOMAIN s : j # k => s[j] # s[k]
     /\ \A j, k \in DOMAIN s : s[k] \in DependsOn(s[j], S) /\ s[j] \notin DependsOn(s[k], S) => k < j}

Sort ==
  /\ pc = "expire"
  /\ expired = {}
  /\ order' \in Orders({p \in chosen : p.name \notin flagged})
  /\ task' = [i \in DOMAIN order' |-> "pending"]
  /\ pc' = "queue"
  /\ UNCHANGED <<stored, command, root, chosen, flagged, expired>>

-----------------------------------------------------------------------------
(* process_build_queue.  When something failed, at "drain", what is being  *)
(* built is built to its end and nothing is installed any more.            *)

Claims(i, n) == order[i].name = n \/ n \in order[i].provides

\* The task that the edge for a name comes from (name_to_idx).
Provider(n) == {i \in DOMAIN order : Claims(i, n) /\ \A j \in DOMAIN order : Claims(j, n) => j <= i}

Preds(i) == {j \in UNION {Provider(d.name) : d \in Requirements(order[i])} : j < i}

\* Mutant: a task is taken whatever it waits for.
MayTakeAny(i) == task[i] = "pending"

MayTake(i) == task[i] = "pending" /\ \A j \in Preds(i) : task[j] = "installed"

Running == pc \in {"queue", "drain"}

To(i, where) == task' = [task EXCEPT ![i] = where]

\* Mutant: an archive that is not whole is written anew.
TakeUnlessWhole(i) ==
  /\ Running
  /\ MayTake(i)
  /\ To(i, IF cache[order[i]] = "whole" THEN "built" ELSE "building")
  /\ UNCHANGED <<stored, command, root, chosen, flagged, expired, order, pc>>

\* A worker takes the task; an archive of that name is all it looks for.
Take(i) ==
  /\ Running
  /\ MayTake(i)
  /\ To(i, IF cache[order[i]] = "none" THEN "building" ELSE "built")
  /\ UNCHANGED <<stored, command, root, chosen, flagged, expired, order, pc>>

\* compress opens the archive under its name in the cache and fills it.
BeginArchive(i) ==
  /\ Running
  /\ task[i] = "building"
  /\ To(i, "writing")
  /\ cache' = [cache EXCEPT ![order[i]] = "torn"]
  /\ UNCHANGED <<catalog, local, reason, history, command, root, chosen, flagged, expired, order, pc>>

EndArchive(i) ==
  /\ Running
  /\ task[i] = "writing"
  /\ To(i, "built")
  /\ cache' = [cache EXCEPT ![order[i]] = "whole"]
  /\ UNCHANGED <<catalog, local, reason, history, command, root, chosen, flagged, expired, order, pc>>

\* The script, an extraction, a disk that is full.
BuildFails(i) ==
  /\ Running
  /\ task[i] \in {"building", "writing"}
  /\ To(i, "failed")
  /\ pc' = "drain"
  /\ UNCHANGED <<stored, command, root, chosen, flagged, expired, order>>

\* Every path leaves install_reason as it was made, 0.
InstallReason(p) == 0

\* stage_artifact, commit_artifact, register_package; a torn archive cannot be
\* extracted.
Install(i) ==
  /\ pc = "queue"
  /\ task[i] = "built"
  /\ cache[order[i]] = "whole"
  /\ To(i, "installed")
  /\ local' = [local EXCEPT ![order[i].name] = order[i].version]
  /\ reason' = [reason EXCEPT ![order[i].name] = InstallReason(order[i])]
  /\ UNCHANGED <<catalog, cache, history, command, root, chosen, flagged, expired, order, pc>>

InstallFails(i) ==
  /\ pc = "queue"
  /\ task[i] = "built"
  /\ To(i, "failed")
  /\ pc' = "drain"
  /\ UNCHANGED <<stored, command, root, chosen, flagged, expired, order>>

AllDone == pc = "queue" /\ \A i \in DOMAIN order : task[i] = "installed"

\* Every task is installed, or every worker joined.
EndRun ==
  /\ \/ AllDone
     \/ pc = "drain" /\ \A i \in DOMAIN order : task[i] \notin {"building", "writing"}
  /\ End
  /\ UNCHANGED stored

\* A resolution or a download that fails, a hook of a removal, a kill.
Stop ==
  /\ pc # "idle"
  /\ End
  /\ UNCHANGED stored

QueueStep(i) ==
  Take(i) \/ BeginArchive(i) \/ EndArchive(i) \/ BuildFails(i) \/ Install(i) \/ InstallFails(i)

Next ==
  \/ \E n \in Names : Remove(n) \/ Expire(n)
  \/ RemoveOrphans
  \/ Prune
  \/ \E p \in catalog : Request(p) \/ Update(p)
  \/ Resolve
  \/ Sort
  \/ \E i \in DOMAIN order : QueueStep(i)
  \/ EndRun
  \/ Stop

Spec == Init /\ [][Next]_vars

-----------------------------------------------------------------------------
(* Correctness. *)

TypeOK ==
  /\ catalog \in Catalogs
  /\ local \in [Names -> Versions \cup {0}]
  /\ reason \in [Names -> {0, 1}]
  /\ cache \in [catalog -> {"none", "torn", "whole"}]
  /\ pc \in {"idle", "resolve", "expire", "queue", "drain"}
  /\ command \in {"none", "install", "update"}
  /\ root \subseteq catalog
  /\ chosen \subseteq catalog
  /\ flagged \subseteq Names
  /\ expired \subseteq Names
  /\ order \in Seq(catalog)
  /\ task \in [DOMAIN order -> {"pending", "building", "writing", "built", "installed", "failed"}]
  /\ removed \in BOOLEAN
  /\ passed \subseteq catalog

\* p is on the system, or is missing because a resolution chose it and let another
\* version of its name, which still is there, pass for it.
Present(p) == local[p.name] = p.version \/ (p \in passed /\ local[p.name] # 0)

\* A dependency the solver and the sort understand alike: where a version is asked
\* for, the solver takes a provider of the name whatever its version (Satisfies),
\* and the sort and the queue do not see that it is needed (DependsDirectly).
UnderstoodAlike(d) == d.min = 0 \/ \A q \in catalog : d.name \notin q.provides

\* What is installed has each dependency answered by a package that is present,
\* unless the two wait for each other.  Whatever fails, and wherever a process is
\* killed, a package is registered after what it needs: as long as nothing was
\* removed, and for the dependencies that are UnderstoodAlike.
DependenciesRegistered ==
  ~removed =>
    \A p \in catalog : local[p.name] = p.version =>
      \A d \in {e \in p.deps : UnderstoodAlike(e)} : \E q \in catalog :
        Satisfies(q, d) /\ (Present(q) \/ p \in DependsOn(q, catalog))

\* A command that ends well leaves each dependency of what it chose answered by a
\* package that it chose and that is present, also in a circle and also where the
\* solver and the sort disagree: nothing is dropped between the solver and the
\* database but what another version of it passes for.
ChosenPresent ==
  AllDone /\ ~removed => \A p \in chosen : \A d \in p.deps : \E q \in chosen : Satisfies(q, d) /\ Present(q)

\* An update that ends well has installed what it was to update to (main.rs:36,
\* "Update system").  Violated: what has the name of an installed package is taken
\* for installed, and nothing is left to do.
UpdateInstalls == command = "update" /\ AllDone => \A p \in root : local[p.name] = p.version

\* The cause: an installed version is never replaced by another one, by no
\* installation and no update.
VersionsStay ==
  [][\A n \in Names : local[n] # 0 => local'[n] \in {local[n], 0}]_vars

Writing(p) == \E i \in DOMAIN order : order[i] = p /\ task[i] = "writing"

\* An archive that was left torn stays so, however often its package is asked for
\* again, until the cache is pruned: what has an archive is not built, and nobody
\* looks whether it is whole.
TornStays ==
  [][\A p \in catalog :
       cache[p] = "torn" /\ ~Writing(p) => cache'[p] # "whole" /\ ~Writing(p)']_vars
=============================================================================
