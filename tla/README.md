# A verification of bhpkg in TLA+

bhpkg is a source and binary package manager: it resolves dependencies with a
SAT solver, downloads sources, builds packages in parallel in a sandbox, moves
their files to the root file system under a journal and keeps track of them in
SQLite. This directory models the parts of it whose correctness depends on
interleavings, failures, kills and orders of events, checks them with TLC and
proves the main results with TLAPS. All source references are to `src/src/`.

## 1. The system

| Component | Source | State | Operations |
|---|---|---|---|
| Build queue | `core_ops.rs` 674-932 | `BuildGraph` under a mutex, a condition variable, a channel, the threads, the main loop's verdict | take a task, build, report, install, release the dependents, give up, join |
| Install order | `solver.rs` 612-745 | the locals of Tarjan's search | `tarjan_topological_sort` |
| Install transaction | `core_ops.rs` 449-672, `utils.rs` 27-105, `db.rs` 491-508, 623-664 | the root file system, `txn.journal`, the tables `local_packages` and `files` | stage, plan and journal, move, register, roll back at the next start |
| Downloads | `net.rs` | the multi handle, mirror indices, destinations, one interrupt flag for all callbacks | begin a transfer, finish it, next mirror, give up, end |
| Version comparison | `solver.rs` 8-135 | none | `bhpkg_vercmp`, `eval_constraint` |
| Repository databases | `db.rs` 43-180, `crypto.rs` | the database of each repository on disk, the attached ones, files being fetched | `attach_repos`, `sync_repos`, `verify_signature` |
| Dependency resolution | `solver.rs` 762-946 | the universe, the clauses | `resolve_dependencies`; it also removes what is made obsolete |
| SAT solver | `solver.rs` 136-610 | trail, watches, learned clauses | decide, propagate, analyse, backtrack, restart |
| Removal, orphans, updates | `db.rs` 251-390, 541-621, `main.rs` | `local_packages`, `sync_packages` | `remove_package`, `remove_orphans`, `get_updates` |
| Building and the archive cache | `core_ops.rs` 111-445, `archive.rs` | build directories, archives in the cache | `build_package`, `split_subpackages_dynamic`, `compress`, `extract` |
| Sandbox and hooks | `sandbox.rs` | the kernel's | namespaces, mounts, seccomp; hooks |
| Binary deltas | `delta.rs` | - | unused: no path sets `is_delta` |
| Command line, configuration, helpers | `main.rs`, `config.rs`, `types.rs`, `error.rs`, `utils.rs`, `crypto.rs` | the interrupt flag `SIGNAL_INTERRUPTED` | `run_app` |

**How they interact.** `run_app` first rolls back a journal it finds, opens the
database, attaches the repository databases and then does what the command line
asks, in a fixed order (sync, remove, update, install). For each target it calls
`resolve_dependencies`, which ends in the sort, and hands the order to
`process_build_queue`. That downloads every source (`download_all`), starts the
worker threads, and installs in the main thread what the workers report: stage,
commit (journal, moves), register. SIGINT sets a flag that the queue and the
downloads look at; it wakes nobody.

**What is hard.** The workers and the main thread share a graph of counters
whose every update must keep them consistent; a worker may sleep while the main
thread waits for it. Transfers end in any order and share one flag. The solver walks lists of watches while
it changes them, and what it concludes rests on an invariant that no test looks at. The process
may be killed between any two system calls, and system calls fail; what the
journal and the tables then say must fit the file system. A sync leaves files
under fixed names for the next. The sort and the comparison of versions are
small algorithms with many corner cases. PROJECT.json lists each hazard at its line.

**What makes each component correct.**

- *Build queue*: no package is built before what it depends on is installed; none
  is built or installed twice; nobody sleeps for ever; success means everything
  is installed; the run ends whatever fails.
- *Install order*: a permutation, dependencies first, cycles kept together.
- *Install transaction*: the journal is ahead of the file system; nothing an
  unfinished transaction found is lost; a registered package is complete;
  configuration files of the administrator are kept; a rollback restores what was
  there; a file has one owner.
- *Downloads*: success means every hash is right; nothing unverified is left
  behind; a failure of one source does not stop the others; the limit holds.
- *Version comparison*: the total order of the Debian policy; constraints agree
  with it and exclude each other.
- *Repository databases*: only what was verified is used; never one older than was ever used;
  in a sync that ends, one repository's trouble is not another's; an update sees what was synced.
- *Resolution and SAT*: a model satisfies every clause, those dropped or shortened
  when they were added included; nothing is missing from the universe or the
  clauses; "unsatisfiable" is right; an answer is found.
- *Removal, updates*: as long as nothing is removed, what an installed package depends on
  is installed, in a version that will do, whatever fails; what a command ends with is what was
  resolved; an update installs what it found newer.
- *Archive cache*: what becomes of an archive that was not completed.

## 2. The modules

```
Packages <-- BuildQueue --refines--> OrderedInstall        BuildQueueProofs      MCBuildQueue
         <-- InstallOrder <-- DependencySort <--+
                              SatSolver      <--+-- Resolve     SatSolverProofs, ResolveProofs   MCResolve
         <-- PackageStore                                  PackageStoreProofs    MCPackageStore
InstallTxn                                                 InstallTxnProofs      MCInstallTxn
Downloads                                                  DownloadsProofs       MCDownloads
VersionCompare <-- VersionOrder                            VersionOrderProofs    MCVersionOrder
RepoSync                                                   RepoSyncProofs        MCRepoSync
```

`<--` is EXTENDS; ResolveProofs extends the proofs of the solver and holds those of the sort. MCBuildQueue puts
InstallOrder beside BuildQueue, so that the queue is run on every order that keeps the sort's promise.

**Packages** is a manifest reduced to what the resolver, the sort and the queue look
at, `Satisfies`, the solver's meaning of a dependency, and `Consistent`, what may be on a
system together as the manifests have it. Versions are numbers and a
constraint is a lower bound: the rest of versions is in VersionCompare.

**SatSolver.** The fields of the code's `SatSolver`: clauses whose first two literals are
watched, the watch lists with their blockers, values with level and reason, the
trail, `qhead`. `add_clause` is four actions, one for each thing that can become of a clause
(`AddSatisfied`, `AddFalse`, `AddUnit`, `AddWatched`); `propagate` looks at one watch entry in a step
(`BlockerTrue`, `FirstTrue`, `MoveWatch`, `Imply`, `FindConflict`), so that the entry which
takes the place of one removed is looked at next, or is not; `Decide` takes the variable the heap
yields, the last one. `Learned` is the clause `analyze_conflict` returns, with its odd walk down the trail
(it looks at the reason of every literal it passes, seen or not). `Refuse` is what
then happens: `add_clause` is called before `backtrack` and finds every literal false. A
learned clause with a literal that is not false would leave the model without a next
step, so the runs, which check for deadlock, show that there is none.

**Resolve.** `resolve_dependencies`, in the order of the code: `Explore` and `SkipKnown` for the queue of
candidates, with the versions of each name and the providers; `Explored`, which makes a variable of each
package; `Exclude`, once for each name with several versions (at most one of them, pairwise or by the
sequential counter), in any order, as the names are the keys of a hash map; `Encode`, which adds
requirements and conflicts and starts the solver; `Deliver`, which calls `remove_package` for
what is made obsolete, and may fail at it (`RemovalFails`); `Sort` and `Return`.
`is_installed` asks for the name only, as in the code.

**InstallOrder.** What depends on what among the packages chosen, with the tests the code makes (which
differ from the solver's for provided names), and the promise of an install order: everything once
(`ListsAll`), dependencies first (`DependenciesLead`), circles together (`CyclesTogether`). `Reaches` is
the closure of the dependencies, stated without recursion: what every closed set with the one has the other.

**DependencySort.** `tarjan_topological_sort` with a step for each neighbour looked at: the recursion of
`strongconnect` is the stack `calls`, `left` is what each call has still to look at, and the numbers, the low
links, the stack and the list of components are the code's. `Enter` is the beginning of a call, `Descend`
and `LookAt` are the two branches of its loop, `Leave` is its end together with the caller's look at the low link
returned, `NextRoot` the loop around the calls.

**BuildQueue.** The variables are the fields of `BuildGraph` (`in_degree`, `state`,
`ready_queue`, `failed`, `completed_count`, `building_count`, `adj`), the
channel, a program counter and a job per worker, and the main thread's program
counter, package and verdict. A region under the mutex is one step: `TakeTask`,
`WaitOrReportDeadlock`, `WorkerExit` (the loop head of a worker), `Release` (after an
installation, with its `notify_all`), `FinishFailed`. Between them come `BuildSucceeds`
/ `BuildFails`, `ReceiveComplete` / `ReceiveFailed` / `ChannelClosed` and
`InstallOk` / `InstallFails`. Leaving the loop over the messages drops the receiver with
all it holds; a later send is an error that the workers ignore. `SpuriousWake` is
what a condition variable may do; `Interrupt` is the SIGINT handler.
`Init` builds the graph as the code does: `name_to_idx` keeps the last claimant
of a name and edges that do not point back are dropped.
`OrderedInstall` is what it promises the rest of the program, with no threads,
channel or counters; `RefinesOrderedInstall` is the refinement, under the mapping
that turns the code's adjacency (`adj`) round into "what each task must come after".

**InstallTxn.** For each path the content in place, in `.bhpkg-backup`, in
`.bhpkg-new` and in the staging directory; the journal's lines; the two tables; an
SQLite transaction left open. Each line of the journal, each rename, remove and copy, and
each SQLite commit is one step: `Stage`, `OpenJournal`, `PlanFile` and `PlanLine` (the B and
the I line), `SyncJournal`, `MakeRoom`, `Place` or `StartCopy`/`EndCopy` (`rename_or_copy`),
`RemoveJournal`, `PostInstall`, `Register`; `Crash` between any two, failures of lines,
copies, hooks and SQL statements, and of what follows a rename (`PlaceFails`: the file is in place and its
permissions cannot be set); `Start`, `Undo` and `EndRollback` are the rollback of the next
process, which may be killed too. `Register` records what it finds in the staging directory,
where the code looks. `pre` is a history variable: the files when the journal was opened.

**Downloads.** `download_all`'s loop (`FillNext`, `LoopOn`, `Collect`, `Accept`,
`FallBack`, `GiveUp`, `EndProcess`, `FinishOk`, `FinishFailed`, `MultiFails`), and what
libcurl does in a call of `perform` to any transfer (`Receive`, `MirrorFails`,
`RefuseRedirect`, `Abort`), with the callbacks of `create_easy`. The flag `interrupted`
is one for all transfers, as in the code; `FallBack` clears it.

**PackageStore.** What commands leave behind: the table `local_packages`, the archives in the
cache (`none`, `torn`, `whole`) and one process after the other. `Request` is `fetch_manifest` of
the version that comes first, by the priority of its repository and then the newest (`Preferred`), for an installation and for an update
that names its target; `Update` is `get_updates`. `Resolve` takes the resolver
at its word (any consistent set of what exploring comes upon, `Universe`, with the target in it, the property `ChoiceConsistent` of Resolve), `Orders`
the sort at its (`DependenciesFirst`); `Expire` removes what is made obsolete; the queue is reduced to the
state of its tasks, with the edges of BuildQueue (`Preds`). `Take` asks whether an archive
exists, `BeginArchive` and `EndArchive` are the two ends of `compress`. `Stop` is a kill, or
a resolution that failed, at any point. `Delete` is `remove_package`, which asks rows it
never steps through who requires the package, and so refuses nothing. History variables: `removed`, and `passed`,
the chosen packages that another installed version of their name passed for.

**VersionCompare / VersionOrder.** `order`, `cmp_string`, `bhpkg_vercmp` and
`eval_constraint` on sequences of characters, with the saturation of numbers,
the epochs that do not parse and operators that are not known. The loop of `cmp_string` is a series of rounds (`Verdict`, what a round
finds; `Left`, what it leaves of the two strings), its result the verdict of the first round that decides. VersionOrder
compares triples of versions and holds the result against a reference written from the policy: the version is cut into
runs of non-digits and numbers, which are compared run by run.

**RepoSync.** Files of two repositories, what is fetched for each and what is
attached; mirrors may serve any version of a database and of its signature.
`Fetch`/`Spoil`/`DownloadFails` reduce the download to what Downloads shows of it; then the
loop: `SkipBadName`, `Replace`, `Reject`, `RemoveSig`, `RemoveDb`. History
variables: `matched`, the version this sync fetched with its own signature; `newest`, the greatest stamp
that was ever in use of a repository; `lapsed`, that a database without one was in use since.

An operator that a comment calls a mutant's is a plausible mistake in the code
beside it; the specifications do not use it. PROJECT.json names, for every
property, the mutant that breaks it.

## 3. The runs

| Run | Question | Result |
|---|---|---|
| `build_queue` | three workers, three packages, every dependency pattern (loops and a name claimed twice included) in every order the sort may return, with failing builds and installations, spurious wakeups and a SIGINT | passes: `DepsCommittedFirst`, `TaskInOnePlace`, `NoIdleWait`, `NoFalseDeadlock`, `SuccessIsComplete`, `DependencyAvailable`, `Termination`, `RefinesOrderedInstall` |
| `resolve` | resolutions, the sort included, over every graph of four packages; versions, provided names, conflicts, makedepends, obsoletes, installed packages; five and six versions of a name | passes: `ModelSatisfies`, `PropagationComplete`, `ChoiceConsistent`, `EarlyConflictReal`, `OrderIsPermutation`, `DependenciesFirst`, `CyclesGrouped`, `Termination` |
| `resolve_unsat` | three providers, two of which satisfy the request | `ConflictReal` is violated (finding 3) |
| `install_txn` | three installations, two kills, two failing calls, an edit of the administrator | passes: `WriteAhead`, `OldContentKept`, `InstalledBeforeRegistered`, `AdminConfigKept` |
| `install_txn_rollback` | one kill | `RollbackRestores` is violated (finding 1) |
| `install_txn_owner` | no failure at all, two packages with a common file | `OwnedFilesIntact` is violated (finding 2) |
| `downloads` | three sources of nine kinds, two transfers at a time, a SIGINT, a failing `perform` | passes: `OkMeansVerified`, `NoUnverifiedFile`, `OthersTriedAll`, `TransfersLimited`, `GivenUpForOthers`, `Termination` |
| `version_order` | all versions of up to three characters, longer ones with epochs, revisions and saturating numbers | passes: `AgreesWithPolicy`, `IsOrder`, `ConstraintsPartition` |
| `repo_sync` | any number of syncs of two repositories, one perhaps unusable, kills anywhere | passes: `OnlyMatchedUsed`, `EachSynced`, `NoDowngrade` |
| `repo_sync_stale` | a sync followed by an update in one command | `UpdateSeesSynced` is violated (finding 4) |
| `package_store` | any number of installations, updates, removals and prunings, with failures and kills anywhere | passes: `DependenciesRegistered`, `ChosenPresent`, `TornStays` |
| `package_store_update` | a package is installed, and an update finds a newer version of it | `UpdateInstalls` is violated (finding 5) |

`build_queue`, `resolve`, `install_txn`, `downloads` and `repo_sync` also check a `TypeOK`; that of
PackageStore is proved (`StoreTypeCorrect`). VersionOrder has no state beyond one call.

Some of these properties have exceptions, each a place where the code does otherwise:

- `DependenciesRegistered`: until something is removed, no kill and no failure leaves a package registered
  without what it needs, the version included. Left out, one by one, are two packages that wait for each other;
  a dependency whose answer the resolver chose and another version of its name passed for (`passed`); and a
  dependency that asks for a version of a name somebody provides, which the solver and the sort understand
  differently (`UnderstoodAlike`). Without any one of the three it fails. `ChosenPresent` says, without the last
  and without the circles, what is there when a command ends well.
- `DependencyAvailable`: a dependency whose name a package later in the order claims too. `name_to_idx` keeps
  the last package that has or provides a name (`core_ops.rs` 725-727), so the edge of a dependent leads
  there; and an edge to a later task is dropped as a "circular loop edge" (760), though nothing need depend in
  a circle: `SharedName` of MCBuildQueue is such an order. Nothing then makes the dependent wait for its real dependency. The sort may put the
  later one there because it holds a constraint against a provider's version (`solver.rs` 646-651).
- `NoDowngrade` compares what is in use with the newest stamp ever used, over any number of syncs. The exception
  is a database without a stamp (`db.rs` 158, `remote_ts > 0`): it is never a downgrade, and after it any stamp is taken,
  as only the database in use is asked for its own.
- `EachSynced` is about syncs that run to their end. A download that fails for one repository ends
  the sync before any database is replaced (`db.rs` 105).
- `TornStays` states what the code does, not what its user may hope for: a torn archive is not built
  again, for the look-up asks whether a file exists (`core_ops.rs` 836).

### Findings

1. **A rollback can delete the original** (`core_ops.rs` 655-672). The I line says that a
   destination was installed, and is written before the original is moved away. After a
   kill in between, before or after the journal is synced, the rollback deletes the original and finds no backup. The same
   happens when a rollback is killed and repeated.
2. **Files have no owners** (`db.rs` 637-661). Registration walks the staging
   directory after its files were moved out of it: the table `files` stays empty and
   "Conflict!" is never reported.
3. **Requests that can be satisfied are called unsatisfiable** (`solver.rs` 549-551, 276-280). A
   learned clause is added while every literal of it is still false; `add_clause` takes that for a
   conflict at the base level. The first conflict after a decision ends the resolution, so
   backtracking, restarts and the deletion of clauses are dead code. A conflict before
   any decision is real (`EarlyConflictReal`).
4. **An update after a sync uses the old databases** (`main.rs` 123, 134): they were attached
   before, and the sync renames new files over theirs.
5. **An update installs nothing** (`db.rs` 274, `solver.rs` 940): `-u` ("Update system") finds that a repository has a newer
   version and resolves for it; as its name is installed, in whatever version, it is then dropped from what is to be
   installed, and the command ends well. The cause is proved: no step replaces an installed version by
   another one (`NeverUpgraded`).

Noted on the way, each a behaviour of a module:

- One refused redirect aborts the transfers of all sources (`net.rs` 59, 78, 93): a source with a good
  mirror may be reported exhausted. `GivenUpForOthers` shows that this takes another source's redirect,
  and that a source's own one never spoils its next mirror.
- A dependency whose name two packages of an order claim may be built too early (`DependencyAvailable`, above).
- The solver makes the last variable true first, so that it prefers what was explored last: older
  versions and further providers, needed or not.
- What is made obsolete is removed when the solution is found, before its replacement is built
  (`solver.rs` 938); a build that fails leaves neither.
- `remove_package` never refuses (`db.rs` 312: the iterator is dropped); orphans are never found, as every path
  leaves `install_reason` 0.
- A makedepends that is met by a provided name gives the sort no edge (`solver.rs` 655 looks at names only), and
  a provider is held against the version asked for (646-651) where the clauses are not (890).
- An archive cut off by a kill or a full disk blocks its package until the cache is pruned (`TornStays`).
- `process_build_queue` returns `Ok` whatever happened (`core_ops.rs` 931), so a failed installation ends with status 0.
- A commit that fails is forgotten when the next one cuts the journal (`core_ops.rs` 490), and a transaction of
  SQLite is left open by a failing statement (`db.rs` 629).

### Bounds, and why they are enough

- *Queue*: the interplay is between a worker that takes, one that sleeps and the
  main thread; three workers and three tasks have each of them and a third in any other
  place. The proofs hold for any number.
- *Resolution*: a component of the sort can be entered from, and lead to, another one with four
  nodes; every graph on what the root reaches is tried. The catalogs of `Alternatives` combine
  every subset of a few features on five packages, so that clauses of three and more literals are watched and
  moved; five and six versions are the first two sizes of the counter. The soundness of the
  solver, of the encoding and of the sort is proved for any catalog.
- *Package store*: a catalog for each way a package can need another (a chain with a version and a repository that
  comes second, makedepends and an obsolete one, a circle, three that answer for a name, a provider of another version than is
  asked for); commands are not bounded. Its properties are
  proved for any catalogs.
- *Transaction*: a third installation meets what two earlier ones left (a backup, an open
  SQLite transaction); two kills reach a killed rollback; the counters `MaxTxns`, `MaxCrashes`,
  `MaxErrors` and `MaxEdits` bound events, never what the program does with them. The proofs hold for any bounds.
- *Downloads*: with three sources and two transfers one begins after another ended or
  failed; the kinds cover a first mirror of each behaviour, with a good, a bad and a
  refused second, and each kind of hash.
- *Versions*: three characters reach every rule of comparison; what needs more (epoch and
  revision together, saturation) is in the list `Long`. `MaxNumber` and `MaxEpoch` stand for
  2^63 - 1 and 2^31 - 1. The proofs hold for versions of any length.
- *Sync*: versions without a stamp, old and new; two repositories, so that one can stand in
  the other's way. The number of syncs is not bounded.

### Fairness

Safety runs use none. `build_queue`: weak fairness of the main thread and of each worker
(the system schedules its threads, and builds and installations end), none of spurious
wakeups or of the interrupt. `downloads`: weak fairness of the loop, strong fairness of
each transfer, which `perform` is called for again and again and which `create_easy` bounds by a
time to connect and a lowest speed; weak fairness would not do, as a transfer can get on
only during calls of `perform`. A signal and a failing `perform` are never required.
`resolve`: weak fairness of `Solving`, the process that runs, from exploring to the last step of the sort; an
interrupt is never required. `version_order` stops after one call, so deadlock is not checked there; everywhere
else it is.

### Faults

Kills are in InstallTxn (between any two system calls), RepoSync and PackageStore (`Stop`). A kill leaves files as they are between two system calls and loses what a process
holds in memory; the order in which a file system writes to disk is not modelled. Renames
within a file system succeed; writing a line, a copy, a hook or an SQL statement may fail.

## 4. The proofs

**BuildQueueProofs** (assumption: `QueueAssumption`, any number of tasks, any nonempty finite set of
workers). The properties are not inductive: `DepsCommittedFirst` needs to know that
the counters are right. `IInv` says so in named parts: `Graph` (edges point
forward, `in_degree` is the number of uncommitted predecessors, what has started has
none), `Counts`, `QueueExact` (the queue holds exactly the free tasks, once each), `InFlight`
(what is with a worker, in a message or with the main thread is Building and in
one such place), `RegisteredExact` and `Phases` (why a worker may have left, what the
main thread may conclude). That the graph is never declared dead rests on the
first uncommitted task: its predecessors are earlier and so committed, hence it is free. `Refinement` shows
that every step maps to a step of OrderedInstall or to a stutter. `AvailableUnlessDiverted`
follows, for every order, from where `name_to_idx` leads when no later task claims the name.

**InstallTxnProofs** (`TxnAssumption`: any packages, files and bounds). While
the journal is written nothing is touched, so what a move records of its file is true of
`pre`; moves are of different files, so a file stays as it was until its turn, and then its
lines are in the journal. `IInv` = `TypeOK`, `Records` (what lines and moves know), `Phases` (what
has been touched at each program counter) and `Safe` (the properties).
`AdminConfigKept` follows from `LinesSpare`: no line of a journal undoes a configuration file that
was the administrator's.

**RepoSyncProofs** (`SyncAssumption`: any repositories, versions and stamps). The loop touches
only the files of the repository it is at, so those ahead are what this sync fetched
(`AheadAsFetched`) and those behind are synced (`BehindSynced`). `UsedInOrder` ties the stamp in use to the newest ever used, and
`DowngradesRejected` follows; `AllSynced` is about syncs that reach their end.

**SatSolverProofs** (no assumption: any number of variables, any clauses). No value is ever taken back, so
a clause with a true literal keeps it. `IInv` says of the others: what was added is kept, shortened by false
literals only, or has a true literal (`Covered`); a kept clause has no literal twice (`NoRepeats`) and
is watched by entries of its first two literals and no others, each once (`EntriesRight`, `EntriesOnce`,
`EntriesThere`); and every entry for the negation of a literal that was propagated, or already passed
for the one that is being, belongs to a clause with a true literal (`Propagated`). The step that matters is `MoveWatch`:
the entry goes to a literal that is not false, hence is not the negation of a propagated one, and the
entry that moves into its place has not been looked at yet. At a fixpoint a clause without a
true literal then watches two open ones (`SolverPropagates`), and in a full assignment there is none
(`SolverSound`). `Early` is for the other answer: as long as nothing was decided, every valuation that makes the
clauses and the root true (`Fitting`) makes true what is assigned, whether a unit clause or a propagation
assigned it; so a conflict then leaves no such valuation (`EarlyRefusal`).

**ResolveProofs, the sort** (no assumption: any graph, the sort called any number of times). `SortInv` is Tarjan's
argument in parts. `Numbered`: numbers rise along the stack and the calls, what has a number is on the stack or in the order
(`Placed`), who returned has looked at all neighbours (`LeftKnown`). `Linked`: a call leads to all that is above it on
the stack (`CallsLead`), a place on the stack to the last call below it (`LeadsToCall`); a call's low link is the number
of a place it leads to (`LowFound`), and no dependency looked at leads below the low link of the call it was found in
(`LowLeast`). When a low link equals the number, what is popped then leads to itself all around, and to nothing else but
what was popped before (`OrderClosed`): the promise is kept by the order so far (`OrderRight`), and `SortIsRight` is that at the
end. Paths have no length here: `Reaches` quantifies over closed sets, so that an argument about a
path is the choice of one set.

**ResolveProofs, the resolver** (`ResolveAssumption`: any nonempty catalogs, with finitely many dependencies in a manifest, where of two rows for a version the same
one is read each time; `VersionsAssumption`: versions are numbers). Every step of Resolve is a step of the solver, of the sort or of neither, so that
their invariants are its own. What is new is that the clauses say what the manifests say. `ExploredRight`: nothing is explored
twice, and the candidates of what was explored are explored or queued; when the queue is empty, whatever answers a requirement is in the
universe. `Excluding`: the clauses so far exclude all but one version of each name done with, and nothing else,
where the sequential counter is shown to do so with variables of its own (`CounterExcludes`: two versions
cannot both be true; `CounterExtends`: every choice with at most one has values for the counter's
variables). `FormulaRight`, once the solver runs: every valuation that fits chooses an answer to the request (`Answer`),
and every answer in the catalog, explored or not, gives a valuation that fits; the versions nothing leads to are simply not chosen.
The first half with `SolverSound` is `ChoiceIsConsistent`; the second with `Early` is
`EarlyConflictIsReal`. The sort is called for what was chosen, and `SortIsRight` yields `OrderListsAll`, `OrderLeads` and
`OrderGroups`.

**DownloadsProofs** (`DownloadsAssumption`: any number of sources, mirrors, transfers at a time and errors). A source is
still to come, has a transfer, or is done with (`DealtWith`: there and verified, or given up and its file removed); a
transfer is libcurl's or waits once in `done_tokens` (`TransfersKnown`). `AllTried` and `OkVerified` are what this says
at the end. `SpoiltOnlyByOthers` needs an invariant of its own: the flag, and a transfer stopped by it,
point at a source that met a redirect, and `FallBack` clears the flag before the source's next mirror.

**PackageStoreProofs** (`StoreAssumption`: any finite catalogs whose rows are distinct by name and version). What the resolver found not to be
installed is still not installed when its turn comes, because the process installs each name once and
otherwise only removes (`ChosenKnown`, `OrderKnown`); what is being built had no archive when it was
taken, and nobody else writes it (`BuildsAnew`). `RegisteredInOrder` and `EndsAnswered`
need `RInv`: what is chosen is answered by what is chosen (`ChosenAnswered`) and still to be installed or present
(`ChosenOrdered`), what is in the order by what is present or in the order (`OrderAnswered`), before the dependent or in a circle
with it (`OrderSorted`), and a task that was taken has its predecessors installed (`TaskWaits`). That the predecessor of a
task answers its dependency, version included, is `ProviderAnswers`; it is here that a dependency has to be `UnderstoodAlike`.

**VersionOrderProofs** (`CompareAssumption`: any set of characters with their codes, letters and digits, as far as the code
relies on them, no NUL in a version, any limits of numbers; `OrderAssumption`: any versions). The loop of `cmp_string` and the reference
of the policy are both the first verdict of a series of rounds that make the strings shorter. `RoundsUnfold`, about any such series, says
that it is its first verdict, or, if that does not decide, what comes of the rest; `CompareUnfolds` and `PolicyUnfolds` say
it of the two. A claim about all strings is then proved for the shortest ones it could be false of (`Least`,
the only induction, over numbers). So `StringOrder`: a round's verdicts are those of an order, and if it does not decide, what is left of a string
does not depend on what it was compared with. So `SameAsPolicy`: the code takes a character at a time where the policy compares whole texts;
on two characters a round decides as the policy's classes and codes do (`FirstCharacter`), and if it finds them the same the policy says of
the rests what it says of the strings (`FirstCharacterOff`). Numbers are compared as the code computes them, saturated, in the reference too.

Only model-checked: liveness (`Termination` of the queue, of the downloads and of the resolution), which is beyond the
prover; and the violated properties.

## 5. Not modelled

- *Solver*: `backtrack`, `reduce_db`, restarts, activities and phases, which no run of the program reaches.
- *Building*: what happens in the build directories and in the sandbox (a build succeeds or fails);
  `split_subpackages_dynamic`, which moves files between build directories; how `tar` walks a tree.
- *Transaction*: directories, symbolic links and D lines, a backup rename that fails
  (`core_ops.rs` 606 ignores it for configuration files), changes to the root file system by others while a package is installed.
- *Removal*: the deletion of files and directories: the table `files` is always empty (finding 2).
- *Downloads*: libcurl refusing options, destinations or transfers.
- *Databases*: SQLite refusing to attach a database (its limit is ignored, `db.rs` 63-70).
- *A second bhpkg process*, which nothing prevents: every module is about one process at a time.
- *The sandbox*, whose meaning is the kernel's; *hooks*, which no state depends on (that they fail is in InstallTxn);
  *deltas*, which nothing uses; parsing, configuration and output.

## 6. State of the plan

Modelled, checked and where possible proved: the build queue and its refinement, resolution with the solver and the
sort, the transaction, downloads, versions, databases, the package store with the cache. Modelled modules meet
through the properties they take from one another, each checked or proved where it is established: PackageStore uses what Resolve
shows, BuildQueue what the sort shows, RepoSync what Downloads shows.

Every invariant and action property a passing run checks is proved. `NeverUpgraded` is proved of a formula that no run
checks (`VersionsStay`), the cause of finding 5.

Worth doing next, in this order:

1. **A second process**: two InstallTxn processes on one root, and two syncs with the same temporary names.
2. **A composition** of BuildQueue with InstallTxn: `InstallOk` refined into the steps of a transaction.
3. **Directories and D lines** in InstallTxn.
