----------------------------- MODULE BuildQueue -----------------------------
(***************************************************************************)
(* `process_build_queue' of core_ops.rs from the moment every download is  *)
(* done: worker threads take packages whose dependencies are committed,    *)
(* build them and report on a channel; the main thread installs what is    *)
(* reported, one package at a time, and releases the dependents.           *)
(*                                                                         *)
(* A region of code run under the mutex is one step, and so is a build and *)
(* an installation.  Tasks are counted from 1: index 0 of the program is   *)
(* task 1, and the 0 the deadlock report carries is NoTask.                *)
(***************************************************************************)
EXTENDS Packages, Sequences, FiniteSets

CONSTANTS NumTasks,    \* packages in the install order (total_tasks)
          Workers,     \* the worker threads (available_parallelism)
          PackageLists \* the install orders the solver can hand over

Tasks == 1 .. NumTasks
NoTask == 0

ASSUME QueueAssumption ==
  /\ NumTasks \in Nat
  /\ IsFiniteSet(Workers) /\ Workers # {}
  /\ PackageLists \subseteq [Tasks -> Package]

VARIABLES
  pkgs,            \* the install order, never changed
  adj,             \* BuildGraph: the tasks waiting for each task, never changed
  in_degree,       \* BuildGraph: predecessors not yet committed
  state,           \* BuildGraph: TaskState of each task
  ready_queue,     \* BuildGraph: tasks free to build, in order
  failed,          \* BuildGraph: the workers are to stop
  completed_count, \* BuildGraph
  building_count,  \* BuildGraph
  chan,            \* the mpsc channel from the workers to the main thread
  worker,          \* where each worker is
  job,             \* the task each worker builds
  main,            \* where the main thread is
  current,         \* the task the main thread installs
  overall_success, \* the main thread's verdict so far
  interrupted,     \* SIGNAL_INTERRUPTED
  registered,      \* tasks whose package is in the database
  outcome          \* what the run tells its user

input == <<pkgs, adj>>
graph == <<in_degree, state, ready_queue, completed_count, building_count>>
mainVars == <<main, current, overall_success, registered, outcome>>
vars == <<input, graph, failed, chan, worker, job, mainVars, interrupted>>

-----------------------------------------------------------------------------
(* The dependency graph. *)

DepNames(i) == {d.name : d \in Requirements(pkgs[i])}

\* Tasks that put a name into the name_to_idx map, as their name or provided.
Claimants(name) == {i \in Tasks : name = pkgs[i].name \/ name \in pkgs[i].provides}

\* The map after the loop: the last task to claim a name keeps it.
NameToIdx(name) == CHOOSE i \in Claimants(name) : \A j \in Claimants(name) : j <= i

DepIdx(i) == {NameToIdx(n) : n \in {m \in DepNames(i) : Claimants(m) # {}}} \ {i}

\* Mutants: edges that close a loop are kept; an edge to the task just before
\* is dropped with them.
PredsKeepingLoops(i) == DepIdx(i)
PredsSkippingNearest(i) == {j \in DepIdx(i) : j + 1 < i}

\* The edges kept for task i: those that point back in the install order.
\* An edge to a later task is taken for a loop and dropped.
Preds(i) == {j \in DepIdx(i) : j < i}

\* S from its least element to its greatest.
Ascending(S) ==
  {s \in [1 .. Cardinality(S) -> S] :
     /\ \A x \in S : \E k \in DOMAIN s : s[k] = x
     /\ \A j, k \in DOMAIN s : j < k => s[j] < s[k]}

-----------------------------------------------------------------------------
Message == [type : {"BuildComplete", "BuildFailed"}, idx : Tasks \cup {NoTask}]

BuildComplete(t) == [type |-> "BuildComplete", idx |-> t]
BuildFailed(t) == [type |-> "BuildFailed", idx |-> t]

\* The receiver lives while the main thread is in its loop over messages.
RxOpen == main \in {"recv", "install", "release"}

\* A send to a dropped receiver is an error the workers ignore.
Send(m) == chan' = IF RxOpen THEN Append(chan, m) ELSE chan

\* Mutant: the waiting workers are not told.
NotifyNobody == UNCHANGED worker

NotifyAll == worker' = [w \in Workers |-> IF worker[w] = "waiting" THEN "lock" ELSE worker[w]]

Init ==
  /\ pkgs \in PackageLists
  /\ adj = [j \in Tasks |-> {i \in Tasks : j \in Preds(i)}]
  /\ in_degree = [i \in Tasks |-> Cardinality(Preds(i))]
  /\ state = [i \in Tasks |-> "Pending"]
  /\ ready_queue \in Ascending({i \in Tasks : in_degree[i] = 0})
  /\ failed = FALSE
  /\ completed_count = 0
  /\ building_count = 0
  /\ chan = <<>>
  /\ worker = [w \in Workers |-> "lock"]
  /\ job = [w \in Workers |-> NoTask]
  /\ main = "recv"
  /\ current = NoTask
  /\ overall_success = TRUE
  /\ interrupted = FALSE
  /\ registered = {}
  /\ outcome = "running"

-----------------------------------------------------------------------------
(* A worker.  At "lock" it is about to take the mutex. *)

MustExit == failed \/ interrupted \/ completed_count = NumTasks

WorkerExit(w) ==
  /\ worker[w] = "lock"
  /\ MustExit
  /\ worker' = [worker EXCEPT ![w] = "exited"]
  /\ UNCHANGED <<input, graph, failed, chan, job, mainVars, interrupted>>

TakeTask(w) ==
  /\ worker[w] = "lock"
  /\ ~MustExit
  /\ ready_queue # <<>>
  /\ job' = [job EXCEPT ![w] = Head(ready_queue)]
  /\ ready_queue' = Tail(ready_queue)
  /\ state' = [state EXCEPT ![Head(ready_queue)] = "Building"]
  /\ building_count' = building_count + 1
  /\ worker' = [worker EXCEPT ![w] = "building"]
  /\ UNCHANGED <<input, in_degree, completed_count, failed, chan, mainVars, interrupted>>

\* Nothing is ready: wait on the condition variable, or, when nothing is being
\* built either, declare the graph dead and leave without notifying anyone.
WaitOrReportDeadlock(w) ==
  /\ worker[w] = "lock"
  /\ ~MustExit
  /\ ready_queue = <<>>
  /\ IF building_count = 0
     THEN /\ failed' = TRUE
          /\ Send(BuildFailed(NoTask))
          /\ worker' = [worker EXCEPT ![w] = "exited"]
     ELSE /\ worker' = [worker EXCEPT ![w] = "waiting"]
          /\ UNCHANGED <<failed, chan>>
  /\ UNCHANGED <<input, graph, job, mainVars, interrupted>>

SpuriousWake(w) ==
  /\ worker[w] = "waiting"
  /\ worker' = [worker EXCEPT ![w] = "lock"]
  /\ UNCHANGED <<input, graph, failed, chan, job, mainVars, interrupted>>

\* Either way the worker goes back for more: after a failed build its task
\* stays Building and building_count is not taken down.
ReportBuild(w, m) ==
  /\ worker[w] = "building"
  /\ Send(m)
  /\ worker' = [worker EXCEPT ![w] = "lock"]
  /\ job' = [job EXCEPT ![w] = NoTask]
  /\ UNCHANGED <<input, graph, failed, mainVars, interrupted>>

BuildSucceeds(w) == ReportBuild(w, BuildComplete(job[w]))
BuildFails(w) == ReportBuild(w, BuildFailed(job[w]))

-----------------------------------------------------------------------------
(* The main thread. *)

\* Mutant: the message is left in the channel.
ReceiveCompleteTwice ==
  /\ main = "recv"
  /\ chan # <<>> /\ Head(chan).type = "BuildComplete"
  /\ current' = Head(chan).idx
  /\ main' = "install"
  /\ UNCHANGED <<input, graph, failed, chan, worker, job, overall_success, registered, outcome, interrupted>>

ReceiveComplete ==
  /\ main = "recv"
  /\ chan # <<>> /\ Head(chan).type = "BuildComplete"
  /\ current' = Head(chan).idx
  /\ chan' = Tail(chan)
  /\ main' = "install"
  /\ UNCHANGED <<input, graph, failed, worker, job, overall_success, registered, outcome, interrupted>>

\* The loop is left, and with it the receiver and all it still holds.
ReceiveFailed ==
  /\ main = "recv"
  /\ chan # <<>> /\ Head(chan).type = "BuildFailed"
  /\ overall_success' = FALSE
  /\ chan' = <<>>
  /\ main' = "finish"
  /\ UNCHANGED <<input, graph, failed, worker, job, current, registered, outcome, interrupted>>

\* Every sender is gone and every message was received.
ChannelClosed ==
  /\ main = "recv"
  /\ chan = <<>>
  /\ \A w \in Workers : worker[w] = "exited"
  /\ main' = "finish"
  /\ UNCHANGED <<input, graph, failed, chan, worker, job, current, overall_success, registered, outcome, interrupted>>

\* stage_artifact, commit_artifact and register_package all succeed.
InstallOk ==
  /\ main = "install"
  /\ registered' = registered \cup {current}
  /\ main' = "release"
  /\ UNCHANGED <<input, graph, failed, chan, worker, job, current, overall_success, outcome, interrupted>>

\* One of the three fails.
InstallFails ==
  /\ main = "install"
  /\ overall_success' = FALSE
  /\ current' = NoTask
  /\ chan' = <<>>
  /\ main' = "finish"
  /\ UNCHANGED <<input, graph, failed, worker, job, registered, outcome, interrupted>>

\* Mutants: a task is freed one predecessor too early; a task that is already
\* in the queue is put there again.
FreedEarly(t) == {i \in adj[t] : in_degree[i] <= 2}
FreedAgain(t) == {i \in Tasks : state[i] = "Pending" /\ in_degree[i] <= IF i \in adj[t] THEN 1 ELSE 0}

\* The tasks whose last uncommitted predecessor is t.
FreedBy(t) == {i \in adj[t] : in_degree[i] = 1}

\* The locked region after an installation.
Release ==
  /\ main = "release"
  /\ state' = [state EXCEPT ![current] = "Committed"]
  /\ completed_count' = completed_count + 1
  /\ building_count' = building_count - 1
  /\ in_degree' = [i \in Tasks |-> IF i \in adj[current] THEN in_degree[i] - 1 ELSE in_degree[i]]
  /\ \E freed \in Ascending(FreedBy(current)) :
        ready_queue' = ready_queue \o freed
  /\ NotifyAll
  /\ current' = NoTask
  /\ main' = "recv"
  /\ UNCHANGED <<input, failed, chan, job, overall_success, registered, outcome, interrupted>>

\* Mutant: nobody is woken to see that it is over.
FinishFailedQuietly ==
  /\ main = "finish"
  /\ ~overall_success \/ interrupted
  /\ failed' = TRUE
  /\ outcome' = "failed"
  /\ main' = "join"
  /\ UNCHANGED <<input, graph, chan, worker, job, current, overall_success, registered, interrupted>>

FinishFailed ==
  /\ main = "finish"
  /\ ~overall_success \/ interrupted
  /\ failed' = TRUE
  /\ NotifyAll
  /\ outcome' = "failed"
  /\ main' = "join"
  /\ UNCHANGED <<input, graph, chan, job, current, overall_success, registered, interrupted>>

\* Mutant: only failures are looked at, not the interrupt.
FinishUnlessFailed ==
  /\ main = "finish"
  /\ overall_success
  /\ outcome' = "succeeded"
  /\ main' = "join"
  /\ UNCHANGED <<input, graph, failed, chan, worker, job, current, overall_success, registered, interrupted>>

FinishSucceeded ==
  /\ main = "finish"
  /\ overall_success /\ ~interrupted
  /\ outcome' = "succeeded"
  /\ main' = "join"
  /\ UNCHANGED <<input, graph, failed, chan, worker, job, current, overall_success, registered, interrupted>>

Join ==
  /\ main = "join"
  /\ \A w \in Workers : worker[w] = "exited"
  /\ main' = "done"
  /\ UNCHANGED <<input, graph, failed, chan, worker, job, current, overall_success, registered, outcome, interrupted>>

-----------------------------------------------------------------------------
\* The SIGINT handler: it sets the flag and notifies nobody.
Interrupt ==
  /\ ~interrupted
  /\ interrupted' = TRUE
  /\ UNCHANGED <<input, graph, failed, chan, worker, job, mainVars>>

Terminated == main = "done" /\ UNCHANGED vars

WorkerNext(w) ==
  \/ WorkerExit(w)
  \/ TakeTask(w)
  \/ WaitOrReportDeadlock(w)
  \/ BuildSucceeds(w)
  \/ BuildFails(w)

MainNext ==
  \/ ReceiveComplete
  \/ ReceiveFailed
  \/ ChannelClosed
  \/ InstallOk
  \/ InstallFails
  \/ Release
  \/ FinishFailed
  \/ FinishSucceeded
  \/ Join

Next ==
  \/ \E w \in Workers : WorkerNext(w)
  \/ \E w \in Workers : SpuriousWake(w)
  \/ MainNext
  \/ Interrupt
  \/ Terminated

Spec == Init /\ [][Next]_vars

\* Threads are scheduled, builds and installations end.
Fairness == WF_vars(MainNext) /\ \A w \in Workers : WF_vars(WorkerNext(w))

FairSpec == Spec /\ Fairness

-----------------------------------------------------------------------------
(* Correctness. *)

\* The tasks that task i has an edge to.
Before(i) == {j \in Tasks : i \in adj[j]}

TypeOK ==
  /\ pkgs \in [Tasks -> Package]
  /\ adj \in [Tasks -> SUBSET Tasks]
  /\ in_degree \in [Tasks -> Nat]
  /\ state \in [Tasks -> {"Pending", "Building", "Committed"}]
  /\ ready_queue \in Seq(Tasks)
  /\ failed \in BOOLEAN
  /\ completed_count \in Nat
  /\ building_count \in Nat
  /\ chan \in Seq(Message)
  /\ worker \in [Workers -> {"lock", "waiting", "building", "exited"}]
  /\ job \in [Workers -> Tasks \cup {NoTask}]
  /\ main \in {"recv", "install", "release", "finish", "join", "done"}
  /\ current \in Tasks \cup {NoTask}
  /\ overall_success \in BOOLEAN
  /\ interrupted \in BOOLEAN
  /\ registered \subseteq Tasks
  /\ outcome \in {"running", "succeeded", "failed"}

\* A task is not taken up before every task it has an edge to is committed,
\* however the workers and the main thread interleave (the in_degree counters
\* are what the code has to know it by).
DepsCommittedFirst ==
  \A i \in Tasks : state[i] # "Pending" => \A j \in Before(i) : state[j] = "Committed"

\* Where a task can be on its way through the run.
Places(t) ==
  {<<"queued", k>> : k \in {n \in DOMAIN ready_queue : ready_queue[n] = t}}
  \cup {<<"built", w>> : w \in {v \in Workers : worker[v] = "building" /\ job[v] = t}}
  \cup {<<"reported", k>> : k \in {n \in DOMAIN chan : chan[n] = BuildComplete(t)}}
  \cup (IF main = "install" /\ current = t THEN {<<"installed", 1>>} ELSE {})
  \cup (IF t \in registered THEN {<<"registered", 1>>} ELSE {})

\* A task is in one place at a time: in the queue once, or with one worker, or in
\* one message, or with the main thread, or registered.  So no package is built
\* or installed twice, and no two threads build in one directory.
TaskInOnePlace == \A t \in Tasks : \A p, q \in Places(t) : p = q

\* No lost wakeup: a worker sleeps only while there is nothing to take and
\* nobody told the workers to stop (an interrupt does not wake them).
NoIdleWait ==
  (\E w \in Workers : worker[w] = "waiting") => ready_queue = <<>> /\ ~failed

\* The graph is never declared dead ("Deadlock detected in execution graph"):
\* `failed' is set by the main thread only, once it left its loop.
NoFalseDeadlock == failed => main \in {"join", "done"}

\* "Transaction completed successfully" is said only when every package of the
\* order is registered and committed and no worker is still building.
SuccessIsComplete ==
  outcome = "succeeded" =>
    /\ registered = Tasks
    /\ \A i \in Tasks : state[i] = "Committed"
    /\ \A w \in Workers : worker[w] # "building"

\* What the edges are for: a package whose dependency is met by a package
\* earlier in the order is not built before one that meets it is registered,
\* unless a later package claims the name.  The exception is a defect of the code:
\* name_to_idx then leads to the later package, and the edge is drawn to one that
\* may not meet the dependency, or dropped as a loop.
DependencyAvailable ==
  \A i \in Tasks : \A d \in Requirements(pkgs[i]) :
    /\ state[i] # "Pending"
    /\ \E j \in 1 .. (i - 1) : Satisfies(pkgs[j], d) /\ \A k \in Claimants(d.name) : k <= j
    => \E j \in registered : Satisfies(pkgs[j], d)

\* The run ends and joins its workers, whatever fails and whenever it is
\* interrupted, as long as the builds and installations end.
Termination == <>(main = "done")

\* Threads, channel and counters do what OrderedInstall promises.
Ordered == INSTANCE OrderedInstall WITH before <- [t \in Tasks |-> Before(t)]

RefinesOrderedInstall == Ordered!ASpec
=============================================================================
