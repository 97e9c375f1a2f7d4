-------------------------- MODULE BuildQueueProofs --------------------------
(***************************************************************************)
(* What the build queue guarantees for every number of packages and of     *)
(* workers and for every install order.                                    *)
(***************************************************************************)
EXTENDS BuildQueue, FiniteSetTheorems, WellFoundedInduction, TLAPS

-----------------------------------------------------------------------------
(* The inductive invariant. *)

Uncommitted(i) == {j \in Before(i) : state[j] # "Committed"}

EdgesPointForward == \A j \in Tasks : \A i \in adj[j] : j < i

\* The counters the workers decide by mean what they are named for.
InDegreeExact == \A i \in Tasks : in_degree[i] = Cardinality(Uncommitted(i))
BuildingExact == building_count = Cardinality({t \in Tasks : state[t] = "Building"})
CompletedExact == completed_count = Cardinality({t \in Tasks : state[t] = "Committed"})

\* The queue holds the free tasks, each once.
QueueExact ==
  /\ \A k \in 1 .. Len(ready_queue) :
       state[ready_queue[k]] = "Pending" /\ in_degree[ready_queue[k]] = 0
  /\ \A j, k \in 1 .. Len(ready_queue) : ready_queue[j] = ready_queue[k] => j = k
  /\ \A t \in Tasks :
       state[t] = "Pending" /\ in_degree[t] = 0 => \E k \in 1 .. Len(ready_queue) : ready_queue[k] = t

StartedWhenFree == \A t \in Tasks : state[t] # "Pending" => in_degree[t] = 0

IsReport(k) == chan[k].type = "BuildComplete"

\* What is with a worker, in a message or with the main thread is Building, and
\* nothing is in two of these places.
BuiltIsBuilding ==
  \A w \in Workers : worker[w] = "building" =>
    /\ job[w] \in Tasks /\ state[job[w]] = "Building"
    /\ \A v \in Workers : worker[v] = "building" /\ job[v] = job[w] => v = w
ReportedIsBuilding ==
  \A k \in 1 .. Len(chan) : IsReport(k) =>
    /\ chan[k].idx \in Tasks /\ state[chan[k].idx] = "Building"
    /\ \A j \in 1 .. Len(chan) : IsReport(j) /\ chan[j].idx = chan[k].idx => j = k
    /\ \A w \in Workers : worker[w] = "building" => job[w] # chan[k].idx
InstalledIsBuilding ==
  main \in {"install", "release"} =>
    /\ current \in Tasks /\ state[current] = "Building"
    /\ \A k \in 1 .. Len(chan) : IsReport(k) => chan[k].idx # current
    /\ \A w \in Workers : worker[w] = "building" => job[w] # current

RegisteredExact ==
  registered = {t \in Tasks : state[t] = "Committed"} \cup (IF main = "release" THEN {current} ELSE {})

\* Why a worker may have left, and what the main thread may conclude from it.
ExitReason ==
  (\E w \in Workers : worker[w] = "exited")
    => failed \/ interrupted \/ \A t \in Tasks : state[t] = "Committed"
SuccessMeansAllLeft ==
  main = "finish" /\ overall_success => \A w \in Workers : worker[w] = "exited"
Verdict ==
  /\ outcome = "running" <=> main \notin {"join", "done"}
  /\ outcome = "succeeded" =>
       /\ \A t \in Tasks : state[t] = "Committed"
       /\ \A w \in Workers : worker[w] = "exited"

Graph == EdgesPointForward /\ InDegreeExact /\ StartedWhenFree
Counts == BuildingExact /\ CompletedExact
InFlight == BuiltIsBuilding /\ ReportedIsBuilding /\ InstalledIsBuilding
Phases == NoFalseDeadlock /\ NoIdleWait /\ ExitReason /\ SuccessMeansAllLeft /\ Verdict

IInv == TypeOK /\ Graph /\ Counts /\ QueueExact /\ InFlight /\ RegisteredExact /\ Phases

-----------------------------------------------------------------------------
(* Lemmas about sets of tasks. *)

\* Sets of tasks are finite, so that their cardinalities are numbers.
LEMMA TaskSets ==
  ASSUME NEW S \in SUBSET Tasks
  PROVE  IsFiniteSet(S) /\ Cardinality(S) \in Nat
<1>1. IsFiniteSet(Tasks)
  BY QueueAssumption, FS_Interval DEF Tasks
<1> QED
  BY <1>1, FS_Subset, FS_CardinalityType

LEMMA EmptyTaskSet == ASSUME NEW S \in SUBSET Tasks PROVE Cardinality(S) = 0 <=> S = {}
BY TaskSets, FS_EmptySet

LEMMA TaskCount == IsFiniteSet(Tasks) /\ Cardinality(Tasks) = NumTasks
BY QueueAssumption, FS_Interval DEF Tasks

\* A counter that reached NumTasks counted every task.
LEMMA AllTasks ==
  ASSUME NEW S \in SUBSET Tasks, Cardinality(S) = NumTasks
  PROVE  S = Tasks
BY TaskCount, FS_Subset

\* Some task of a nonempty set comes first in the install order.
LEMMA FirstTask ==
  ASSUME NEW S \in SUBSET Tasks, S # {}
  PROVE  \E m \in S : \A t \in S : ~(t < m)
<1>1. S \subseteq Nat
  BY QueueAssumption DEF Tasks
<1>2. PICK m \in S : \A t \in S : ~(<<t, m>> \in OpToRel(<, Nat))
  BY <1>1, WFMin, NatLessThanWellFounded
<1>3. \A t \in S : t < m => <<t, m>> \in OpToRel(<, Nat)
  BY <1>1 DEF OpToRel
<1> QED
  BY <1>2, <1>3

\* And some task comes last.
LEMMA LastTask ==
  ASSUME NEW S \in SUBSET Tasks, S # {}
  PROVE  \E m \in S : \A t \in S : t <= m
<1> DEFINE Mirror == {NumTasks + 1 - t : t \in S}
<1> NumTasks \in Nat
  BY QueueAssumption
<1>1. Mirror \in SUBSET Tasks /\ Mirror # {}
  <2>1. \A t \in S : NumTasks + 1 - t \in Tasks
    BY DEF Tasks
  <2> QED
    BY <2>1
<1>2. PICK m \in Mirror : \A t \in Mirror : ~(t < m)
  BY <1>1, FirstTask
<1>3. PICK k \in S : m = NumTasks + 1 - k
  BY <1>2
<1>4. \A t \in S : NumTasks + 1 - t \in Mirror
  OBVIOUS
<1>5. \A t \in S : t <= k
  BY <1>2, <1>3, <1>4 DEF Tasks
<1> QED
  BY <1>5

-----------------------------------------------------------------------------
(* The invariant holds initially. *)

LEMMA PredsAreTasks == \A i \in Tasks : Preds(i) \in SUBSET Tasks /\ \A j \in Preds(i) : j < i
<1> SUFFICES ASSUME NEW i \in Tasks PROVE Preds(i) \in SUBSET Tasks /\ \A j \in Preds(i) : j < i
  OBVIOUS
<1> USE QueueAssumption
<1>1. ASSUME NEW n, Claimants(n) # {} PROVE NameToIdx(n) \in Tasks
  <2>1. Claimants(n) \in SUBSET Tasks
    BY DEF Claimants
  <2>2. \E m \in Claimants(n) : \A t \in Claimants(n) : t <= m
    BY <1>1, <2>1, LastTask
  <2> QED
    BY <2>1, <2>2 DEF NameToIdx
<1>2. DepIdx(i) \subseteq Tasks
  BY <1>1 DEF DepIdx
<1> QED
  BY <1>2 DEF Preds

LEMMA InitIInv == Init => IInv
<1> SUFFICES ASSUME Init PROVE IInv
  OBVIOUS
<1> USE DEF Init
<1>1. adj \in [Tasks -> SUBSET Tasks] /\ \A i \in Tasks : Before(i) = Preds(i)
  BY PredsAreTasks DEF Before
<1>2. \A i \in Tasks : Cardinality(Preds(i)) \in Nat
  BY PredsAreTasks, TaskSets
<1>3. PICK free : free = {i \in Tasks : in_degree[i] = 0}
  OBVIOUS
<1>4. Cardinality(free) \in Nat
  BY <1>3, TaskSets
<1>5. ready_queue \in [1 .. Cardinality(free) -> Tasks]
  BY <1>3 DEF Ascending
<1>6. ready_queue \in Seq(Tasks) /\ Len(ready_queue) = Cardinality(free)
  BY <1>4, <1>5
<1>7. TypeOK
  <2>1. in_degree \in [Tasks -> Nat] /\ pkgs \in [Tasks -> Package]
    BY <1>2, QueueAssumption
  <2>2. chan \in Seq(Message)
    OBVIOUS
  <2> QED
    BY <1>1, <1>6, <2>1, <2>2 DEF TypeOK
<1>8. Graph
  <2>1. EdgesPointForward
    BY <1>1, PredsAreTasks DEF EdgesPointForward
  <2>2. InDegreeExact
    <3>1. \A i \in Tasks : Uncommitted(i) = Preds(i)
      BY <1>1 DEF Uncommitted, Before
    <3> QED
      BY <3>1 DEF InDegreeExact
  <2> QED
    BY <2>1, <2>2 DEF Graph, StartedWhenFree
<1>9. Counts
  BY FS_EmptySet DEF Counts, BuildingExact, CompletedExact
<1>10. QueueExact
  <2>1. DOMAIN ready_queue = 1 .. Len(ready_queue)
    BY <1>6
  <2>2. \A k \in 1 .. Len(ready_queue) : ready_queue[k] \in free
    BY <1>3, <1>5, <1>6 DEF Ascending
  <2>3. \A j, k \in 1 .. Len(ready_queue) : j < k => ready_queue[j] < ready_queue[k]
    BY <1>3, <2>1 DEF Ascending
  <2>4. \A t \in free : \E k \in 1 .. Len(ready_queue) : ready_queue[k] = t
    BY <1>3, <2>1 DEF Ascending
  <2>5. free \subseteq Nat
    BY <1>3, QueueAssumption DEF Tasks
  <2>6. \A j, k \in 1 .. Len(ready_queue) : ready_queue[j] = ready_queue[k] => j = k
    <3> SUFFICES ASSUME NEW j \in 1 .. Len(ready_queue), NEW k \in 1 .. Len(ready_queue), j < k
                 PROVE  ready_queue[j] # ready_queue[k]
      BY <1>4, <1>6
    <3>1. ready_queue[j] < ready_queue[k] /\ ready_queue[j] \in Nat /\ ready_queue[k] \in Nat
      BY <2>2, <2>3, <2>5
    <3> QED
      BY <3>1
  <2> QED
    BY <1>3, <2>2, <2>4, <2>6 DEF QueueExact
<1>11. InFlight
  BY DEF InFlight, BuiltIsBuilding, ReportedIsBuilding, InstalledIsBuilding
<1>12. RegisteredExact
  BY DEF RegisteredExact
<1>13. Phases
  BY DEF Phases, NoFalseDeadlock, NoIdleWait, ExitReason, SuccessMeansAllLeft, Verdict
<1> QED
  BY <1>7, <1>8, <1>9, <1>10, <1>11, <1>12, <1>13 DEF IInv

-----------------------------------------------------------------------------
(* Steps that leave the graph alone. *)

GraphInv == Graph /\ Counts /\ QueueExact

LEMMA GraphUnchanged == GraphInv /\ UNCHANGED <<input, graph>> => GraphInv'
<1> SUFFICES ASSUME GraphInv, UNCHANGED <<input, graph>> PROVE GraphInv'
  OBVIOUS
<1> USE DEF input, graph
<1>1. \A i : Before(i)' = Before(i) /\ Uncommitted(i)' = Uncommitted(i)
  BY DEF Before, Uncommitted
<1>2. Graph'
  BY <1>1 DEF GraphInv, Graph, EdgesPointForward, InDegreeExact, StartedWhenFree
<1>3. Counts'
  BY DEF GraphInv, Counts, BuildingExact, CompletedExact
<1>4. QueueExact'
  BY DEF GraphInv, QueueExact
<1> QED
  BY <1>2, <1>3, <1>4 DEF GraphInv

\* No worker finds an empty queue while nothing is being built: the first
\* pending task in the order waits for nothing.
LEMMA NotStuck ==
  ASSUME IInv, ready_queue = <<>>, completed_count # NumTasks
  PROVE  building_count # 0
<1> USE DEF IInv, Graph, Counts
<1>1. SUFFICES ASSUME \A t \in Tasks : state[t] # "Building" PROVE FALSE
  BY EmptyTaskSet DEF BuildingExact
<1> DEFINE Pending == {t \in Tasks : state[t] # "Committed"}
<1>2. Pending # {}
  <2>1. SUFFICES ASSUME \A t \in Tasks : state[t] = "Committed" PROVE FALSE
    OBVIOUS
  <2>2. {t \in Tasks : state[t] = "Committed"} = Tasks
    BY <2>1
  <2> QED
    BY <2>2, TaskCount DEF CompletedExact
<1>3. PICK m \in Pending : \A t \in Pending : ~(t < m)
  BY <1>2, FirstTask
<1>4. Uncommitted(m) = {}
  BY <1>3 DEF Uncommitted, Before, EdgesPointForward
<1>5. in_degree[m] = 0
  BY <1>4, FS_EmptySet DEF InDegreeExact
<1>6. state[m] = "Pending"
  BY <1>1, <1>3 DEF TypeOK
<1> QED
  BY <1>5, <1>6 DEF QueueExact

LEMMA WorkerExitStep == ASSUME IInv, NEW w \in Workers, WorkerExit(w) PROVE IInv'
<1> USE DEF WorkerExit, mainVars
<1>1. TypeOK'
  BY DEF IInv, TypeOK, input, graph, Message
<1>2. GraphInv'
  BY GraphUnchanged DEF IInv, GraphInv
<1>3. InFlight'
  BY DEF IInv, TypeOK, InFlight, BuiltIsBuilding, ReportedIsBuilding, InstalledIsBuilding, IsReport, graph, NoTask
<1>4. RegisteredExact'
  BY DEF IInv, TypeOK, RegisteredExact, graph
<1>5. Phases'
  <2>1. completed_count = NumTasks => \A t \in Tasks : state[t] = "Committed"
    <3> SUFFICES ASSUME completed_count = NumTasks PROVE \A t \in Tasks : state[t] = "Committed"
      OBVIOUS
    <3>1. {t \in Tasks : state[t] = "Committed"} = Tasks
      BY AllTasks DEF IInv, Counts, CompletedExact
    <3> QED
      BY <3>1
  <2> QED
    BY <2>1 DEF IInv, TypeOK, Phases, NoFalseDeadlock, NoIdleWait, ExitReason, SuccessMeansAllLeft, Verdict, graph, MustExit
<1> QED
  BY <1>1, <1>2, <1>3, <1>4, <1>5 DEF GraphInv, IInv

LEMMA WaitOrReportDeadlockStep == ASSUME IInv, NEW w \in Workers, WaitOrReportDeadlock(w) PROVE IInv'
<1>1. building_count # 0
  BY NotStuck DEF WaitOrReportDeadlock, MustExit
<1>2. /\ worker[w] = "lock" /\ ~MustExit /\ ready_queue = <<>>
      /\ worker' = [worker EXCEPT ![w] = "waiting"]
      /\ UNCHANGED <<input, graph, failed, chan, job, mainVars, interrupted>>
  BY <1>1 DEF WaitOrReportDeadlock
<1> USE <1>2 DEF MustExit, mainVars
<1>3. TypeOK'
  BY DEF IInv, TypeOK, input, graph, Message
<1>4. GraphInv'
  BY GraphUnchanged DEF IInv, GraphInv
<1>5. InFlight'
  BY DEF IInv, TypeOK, InFlight, BuiltIsBuilding, ReportedIsBuilding, InstalledIsBuilding, IsReport, graph, NoTask
<1>6. RegisteredExact'
  BY DEF IInv, TypeOK, RegisteredExact, graph
<1>7. Phases'
  BY QueueAssumption DEF IInv, TypeOK, Phases, NoFalseDeadlock, NoIdleWait, ExitReason, SuccessMeansAllLeft, Verdict, graph
<1> QED
  BY <1>3, <1>4, <1>5, <1>6, <1>7 DEF GraphInv, IInv

LEMMA SpuriousWakeStep == ASSUME IInv, NEW w \in Workers, SpuriousWake(w) PROVE IInv'
<1> USE DEF SpuriousWake, mainVars
<1>1. TypeOK'
  BY DEF IInv, TypeOK, input, graph, Message
<1>2. GraphInv'
  BY GraphUnchanged DEF IInv, GraphInv
<1>3. InFlight'
  BY DEF IInv, TypeOK, InFlight, BuiltIsBuilding, ReportedIsBuilding, InstalledIsBuilding, IsReport, graph, NoTask
<1>4. RegisteredExact'
  BY DEF IInv, TypeOK, RegisteredExact, graph
<1>5. Phases'
  BY QueueAssumption DEF IInv, TypeOK, Phases, NoFalseDeadlock, NoIdleWait, ExitReason, SuccessMeansAllLeft, Verdict, graph
<1> QED
  BY <1>1, <1>2, <1>3, <1>4, <1>5 DEF GraphInv, IInv

LEMMA ReportBuildStep == ASSUME IInv, NEW w \in Workers, NEW m \in {BuildComplete(job[w]), BuildFailed(job[w])}, ReportBuild(w, m) PROVE IInv'
<1> USE DEF ReportBuild, mainVars, Send, BuildComplete, BuildFailed, RxOpen
<1>1. TypeOK'
  <2>1. chan' \in Seq(Message)
    <3>1. m \in Message
      BY DEF IInv, TypeOK, Message
    <3> QED
      BY <3>1 DEF IInv, TypeOK
  <2> QED
    BY <2>1 DEF IInv, TypeOK, input, graph
<1>2. GraphInv'
  BY GraphUnchanged DEF IInv, GraphInv
<1>3. InFlight'
  BY DEF IInv, TypeOK, InFlight, BuiltIsBuilding, ReportedIsBuilding, InstalledIsBuilding, IsReport, graph, NoTask
<1>4. RegisteredExact'
  BY DEF IInv, TypeOK, RegisteredExact, graph
<1>5. Phases'
  BY QueueAssumption DEF IInv, TypeOK, Phases, NoFalseDeadlock, NoIdleWait, ExitReason, SuccessMeansAllLeft, Verdict, graph
<1> QED
  BY <1>1, <1>2, <1>3, <1>4, <1>5 DEF GraphInv, IInv

LEMMA ReceiveCompleteStep == ASSUME IInv, ReceiveComplete PROVE IInv'
<1> USE DEF ReceiveComplete, mainVars
<1>1. TypeOK'
  <2>1. chan' \in Seq(Message) /\ Head(chan) \in Message
    BY DEF IInv, TypeOK
  <2> QED
    BY <2>1 DEF IInv, TypeOK, input, graph, Message
<1>2. GraphInv'
  BY GraphUnchanged DEF IInv, GraphInv
<1>3. InFlight'
  <2>1. /\ chan[1] = Head(chan) /\ Len(chan) \in Nat /\ 1 \in 1 .. Len(chan) /\ IsReport(1)
        /\ Len(chan') = Len(chan) - 1
        /\ \A k \in 1 .. Len(chan') : chan'[k] = chan[k + 1] /\ k + 1 \in 1 .. Len(chan)
    BY DEF IInv, TypeOK, IsReport
  <2>2. \A k \in 1 .. Len(chan') : chan'[k] = chan[k + 1] /\ k + 1 \in 1 .. Len(chan) /\ k + 1 # 1 /\ IsReport(k)' = IsReport(k + 1)
    BY <2>1 DEF IsReport
  <2>3. BuiltIsBuilding'
    BY DEF IInv, InFlight, BuiltIsBuilding, graph
  <2>4. ReportedIsBuilding'
    BY <2>1, <2>2 DEF IInv, InFlight, ReportedIsBuilding, graph
  <2>5. InstalledIsBuilding'
    BY <2>1, <2>2 DEF IInv, InFlight, ReportedIsBuilding, InstalledIsBuilding, graph
  <2> QED
    BY <2>3, <2>4, <2>5 DEF InFlight
<1>4. RegisteredExact'
  BY DEF IInv, TypeOK, RegisteredExact, graph
<1>5. Phases'
  BY QueueAssumption DEF IInv, TypeOK, Phases, NoFalseDeadlock, NoIdleWait, ExitReason, SuccessMeansAllLeft, Verdict, graph
<1> QED
  BY <1>1, <1>2, <1>3, <1>4, <1>5 DEF GraphInv, IInv

LEMMA ReceiveFailedStep == ASSUME IInv, ReceiveFailed PROVE IInv'
<1> USE DEF ReceiveFailed, mainVars
<1>1. TypeOK'
  <2>1. chan' \in Seq(Message)
    OBVIOUS
  <2> QED
    BY <2>1 DEF IInv, TypeOK, input, graph, NoTask
<1>2. GraphInv'
  BY GraphUnchanged DEF IInv, GraphInv
<1>3. InFlight'
  BY DEF IInv, TypeOK, InFlight, BuiltIsBuilding, ReportedIsBuilding, InstalledIsBuilding, IsReport, graph, NoTask
<1>4. RegisteredExact'
  BY DEF IInv, TypeOK, RegisteredExact, graph
<1>5. Phases'
  BY QueueAssumption DEF IInv, TypeOK, Phases, NoFalseDeadlock, NoIdleWait, ExitReason, SuccessMeansAllLeft, Verdict, graph
<1> QED
  BY <1>1, <1>2, <1>3, <1>4, <1>5 DEF GraphInv, IInv

LEMMA ChannelClosedStep == ASSUME IInv, ChannelClosed PROVE IInv'
<1> USE DEF ChannelClosed, mainVars
<1>1. TypeOK'
  BY DEF IInv, TypeOK, input, graph, Message
<1>2. GraphInv'
  BY GraphUnchanged DEF IInv, GraphInv
<1>3. InFlight'
  BY DEF IInv, TypeOK, InFlight, BuiltIsBuilding, ReportedIsBuilding, InstalledIsBuilding, IsReport, graph, NoTask
<1>4. RegisteredExact'
  BY DEF IInv, TypeOK, RegisteredExact, graph
<1>5. Phases'
  BY QueueAssumption DEF IInv, TypeOK, Phases, NoFalseDeadlock, NoIdleWait, ExitReason, SuccessMeansAllLeft, Verdict, graph
<1> QED
  BY <1>1, <1>2, <1>3, <1>4, <1>5 DEF GraphInv, IInv

LEMMA InstallOkStep == ASSUME IInv, InstallOk PROVE IInv'
<1> USE DEF InstallOk, mainVars
<1>1. TypeOK'
  BY DEF IInv, TypeOK, input, graph, InFlight, InstalledIsBuilding
<1>2. GraphInv'
  BY GraphUnchanged DEF IInv, GraphInv
<1>3. InFlight'
  BY DEF IInv, TypeOK, InFlight, BuiltIsBuilding, ReportedIsBuilding, InstalledIsBuilding, IsReport, graph, NoTask
<1>4. RegisteredExact'
  BY DEF IInv, TypeOK, RegisteredExact, graph
<1>5. Phases'
  BY QueueAssumption DEF IInv, TypeOK, Phases, NoFalseDeadlock, NoIdleWait, ExitReason, SuccessMeansAllLeft, Verdict, graph
<1> QED
  BY <1>1, <1>2, <1>3, <1>4, <1>5 DEF GraphInv, IInv

LEMMA InstallFailsStep == ASSUME IInv, InstallFails PROVE IInv'
<1> USE DEF InstallFails, mainVars
<1>1. TypeOK'
  <2>1. chan' \in Seq(Message)
    OBVIOUS
  <2> QED
    BY <2>1 DEF IInv, TypeOK, input, graph, NoTask
<1>2. GraphInv'
  BY GraphUnchanged DEF IInv, GraphInv
<1>3. InFlight'
  BY DEF IInv, TypeOK, InFlight, BuiltIsBuilding, ReportedIsBuilding, InstalledIsBuilding, IsReport, graph, NoTask
<1>4. RegisteredExact'
  BY DEF IInv, TypeOK, RegisteredExact, graph
<1>5. Phases'
  BY QueueAssumption DEF IInv, TypeOK, Phases, NoFalseDeadlock, NoIdleWait, ExitReason, SuccessMeansAllLeft, Verdict, graph
<1> QED
  BY <1>1, <1>2, <1>3, <1>4, <1>5 DEF GraphInv, IInv

LEMMA FinishFailedStep == ASSUME IInv, FinishFailed PROVE IInv'
<1> USE DEF FinishFailed, mainVars, NotifyAll
<1>1. TypeOK'
  BY DEF IInv, TypeOK, input, graph, Message
<1>2. GraphInv'
  BY GraphUnchanged DEF IInv, GraphInv
<1>3. InFlight'
  BY DEF IInv, TypeOK, InFlight, BuiltIsBuilding, ReportedIsBuilding, InstalledIsBuilding, IsReport, graph, NoTask
<1>4. RegisteredExact'
  BY DEF IInv, TypeOK, RegisteredExact, graph
<1>5. Phases'
  BY QueueAssumption DEF IInv, TypeOK, Phases, NoFalseDeadlock, NoIdleWait, ExitReason, SuccessMeansAllLeft, Verdict, graph
<1> QED
  BY <1>1, <1>2, <1>3, <1>4, <1>5 DEF GraphInv, IInv

LEMMA FinishSucceededStep == ASSUME IInv, FinishSucceeded PROVE IInv'
<1> USE DEF FinishSucceeded, mainVars
<1>1. TypeOK'
  BY DEF IInv, TypeOK, input, graph, Message
<1>2. GraphInv'
  BY GraphUnchanged DEF IInv, GraphInv
<1>3. InFlight'
  BY DEF IInv, TypeOK, InFlight, BuiltIsBuilding, ReportedIsBuilding, InstalledIsBuilding, IsReport, graph, NoTask
<1>4. RegisteredExact'
  BY DEF IInv, TypeOK, RegisteredExact, graph
<1>5. Phases'
  BY QueueAssumption DEF IInv, TypeOK, Phases, NoFalseDeadlock, NoIdleWait, ExitReason, SuccessMeansAllLeft, Verdict, graph
<1> QED
  BY <1>1, <1>2, <1>3, <1>4, <1>5 DEF GraphInv, IInv

LEMMA JoinStep == ASSUME IInv, Join PROVE IInv'
<1> USE DEF Join, mainVars
<1>1. TypeOK'
  BY DEF IInv, TypeOK, input, graph, Message
<1>2. GraphInv'
  BY GraphUnchanged DEF IInv, GraphInv
<1>3. InFlight'
  BY DEF IInv, TypeOK, InFlight, BuiltIsBuilding, ReportedIsBuilding, InstalledIsBuilding, IsReport, graph, NoTask
<1>4. RegisteredExact'
  BY DEF IInv, TypeOK, RegisteredExact, graph
<1>5. Phases'
  BY QueueAssumption DEF IInv, TypeOK, Phases, NoFalseDeadlock, NoIdleWait, ExitReason, SuccessMeansAllLeft, Verdict, graph
<1> QED
  BY <1>1, <1>2, <1>3, <1>4, <1>5 DEF GraphInv, IInv

LEMMA InterruptStep == ASSUME IInv, Interrupt PROVE IInv'
<1> USE DEF Interrupt, mainVars
<1>1. TypeOK'
  BY DEF IInv, TypeOK, input, graph, Message
<1>2. GraphInv'
  BY GraphUnchanged DEF IInv, GraphInv
<1>3. InFlight'
  BY DEF IInv, TypeOK, InFlight, BuiltIsBuilding, ReportedIsBuilding, InstalledIsBuilding, IsReport, graph, NoTask
<1>4. RegisteredExact'
  BY DEF IInv, TypeOK, RegisteredExact, graph
<1>5. Phases'
  BY QueueAssumption DEF IInv, TypeOK, Phases, NoFalseDeadlock, NoIdleWait, ExitReason, SuccessMeansAllLeft, Verdict, graph
<1> QED
  BY <1>1, <1>2, <1>3, <1>4, <1>5 DEF GraphInv, IInv

-----------------------------------------------------------------------------
(* The two steps that change the graph. *)

\* How a count of tasks changes when one task changes its state.
LEMMA CountMoves ==
  ASSUME IInv, NEW t \in Tasks, NEW to \in {"Building", "Committed"}, state[t] # to,
         state' = [state EXCEPT ![t] = to], NEW s \in {"Building", "Committed"}
  PROVE  LET Now == {i \in Tasks : state[i] = s}
             Next_ == {i \in Tasks : state'[i] = s}
         IN  Cardinality(Next_) = IF s = to THEN Cardinality(Now) + 1
                                  ELSE IF s = state[t] THEN Cardinality(Now) - 1 ELSE Cardinality(Now)
<1> DEFINE Now == {i \in Tasks : state[i] = s}
           Next_ == {i \in Tasks : state'[i] = s}
<1>1. IsFiniteSet(Now)
  BY TaskSets
<1>2. Next_ = IF s = to THEN Now \cup {t} ELSE Now \ {t}
  BY DEF IInv, TypeOK
<1>3. t \in Now <=> s = state[t]
  OBVIOUS
<1> QED
  BY ZenonT(60), <1>1, <1>2, <1>3, FS_AddElement, FS_RemoveElement

LEMMA TakeTaskStep == ASSUME IInv, NEW w \in Workers, TakeTask(w) PROVE IInv'
<1> USE DEF TakeTask, mainVars, input
<1> DEFINE t == Head(ready_queue)
<1>1. /\ t = ready_queue[1] /\ t \in Tasks /\ state[t] = "Pending" /\ in_degree[t] = 0
      /\ Len(ready_queue) \in Nat /\ Len(ready_queue) >= 1
  BY DEF IInv, TypeOK, QueueExact
<1>2. state' = [state EXCEPT ![t] = "Building"] /\ state \in [Tasks -> {"Pending", "Building", "Committed"}]
  BY DEF IInv, TypeOK
<1>3. TypeOK'
  BY <1>1 DEF IInv, TypeOK
<1>4. Graph'
  <2>1. \A i \in Tasks : Uncommitted(i)' = Uncommitted(i)
    BY <1>1, <1>2 DEF Uncommitted, Before
  <2>2. InDegreeExact'
    BY <2>1 DEF IInv, Graph, InDegreeExact
  <2>3. EdgesPointForward' /\ StartedWhenFree'
    BY <1>1, <1>2 DEF IInv, Graph, EdgesPointForward, StartedWhenFree
  <2> QED
    BY <2>2, <2>3 DEF Graph
<1>5. Counts'
  BY <1>1, <1>2, CountMoves DEF IInv, Counts, BuildingExact, CompletedExact
<1>6. QueueExact'
  <2>1. /\ Len(ready_queue') = Len(ready_queue) - 1
        /\ \A k \in 1 .. Len(ready_queue') : ready_queue'[k] = ready_queue[k + 1] /\ k + 1 \in 1 .. Len(ready_queue)
    BY <1>1 DEF IInv, TypeOK
  <2>2. \A k \in 1 .. Len(ready_queue') : ready_queue'[k] # t
    BY <1>1, <2>1 DEF IInv, QueueExact
  <2>3. \A k \in 1 .. Len(ready_queue') : state'[ready_queue'[k]] = "Pending" /\ in_degree'[ready_queue'[k]] = 0
    BY <1>2, <2>1, <2>2 DEF IInv, TypeOK, QueueExact
  <2>4. \A j, k \in 1 .. Len(ready_queue') : ready_queue'[j] = ready_queue'[k] => j = k
    BY <1>1, <2>1 DEF IInv, QueueExact
  <2>5. ASSUME NEW i \in Tasks, state'[i] = "Pending", in_degree'[i] = 0
        PROVE  \E k \in 1 .. Len(ready_queue') : ready_queue'[k] = i
    <3>1. i # t /\ state[i] = "Pending" /\ in_degree[i] = 0
      BY <1>1, <1>2, <2>5
    <3>2. PICK k \in 1 .. Len(ready_queue) : ready_queue[k] = i
      BY <3>1 DEF IInv, QueueExact
    <3>3. k # 1 /\ k - 1 \in 1 .. Len(ready_queue') /\ k - 1 + 1 = k
      BY <1>1, <2>1, <3>1, <3>2
    <3> QED
      BY <2>1, <3>2, <3>3
  <2> QED
    BY <2>3, <2>4, <2>5 DEF QueueExact
<1>7. InFlight'
  BY <1>1, <1>2 DEF IInv, TypeOK, InFlight, BuiltIsBuilding, ReportedIsBuilding, InstalledIsBuilding, IsReport
<1>8. RegisteredExact'
  BY <1>1, <1>2 DEF IInv, RegisteredExact
<1>9. Phases'
  BY <1>1, <1>2 DEF IInv, TypeOK, Phases, NoFalseDeadlock, NoIdleWait, ExitReason, SuccessMeansAllLeft, Verdict, MustExit
<1> QED
  BY <1>3, <1>4, <1>5, <1>6, <1>7, <1>8, <1>9 DEF IInv

LEMMA ReleaseStep == ASSUME IInv, Release PROVE IInv'
<1> USE DEF Release, NotifyAll, input
<1> DEFINE t == current
<1>1. t \in Tasks /\ state[t] = "Building" /\ main = "release"
  BY DEF IInv, InFlight, InstalledIsBuilding
<1>2. state' = [state EXCEPT ![t] = "Committed"] /\ state \in [Tasks -> {"Pending", "Building", "Committed"}]
  BY DEF IInv, TypeOK
<1>3. Counts'
  BY <1>1, <1>2, CountMoves DEF IInv, Counts, BuildingExact, CompletedExact
<1>4. completed_count' \in Nat /\ building_count' \in Nat
  BY <1>3, TaskSets DEF Counts, BuildingExact, CompletedExact
<1>5. \A i \in Tasks : in_degree'[i] = Cardinality(Uncommitted(i)')
  <2> TAKE i \in Tasks
  <2>1. Uncommitted(i) \in SUBSET Tasks /\ in_degree[i] = Cardinality(Uncommitted(i))
    BY DEF IInv, Graph, InDegreeExact, Uncommitted, Before
  <2>2. Uncommitted(i)' = Uncommitted(i) \ {t}
    BY <1>1, <1>2 DEF Uncommitted, Before
  <2>3. t \in Uncommitted(i) <=> i \in adj[t]
    BY <1>1 DEF Uncommitted, Before
  <2>4. in_degree'[i] = IF i \in adj[t] THEN in_degree[i] - 1 ELSE in_degree[i]
    OBVIOUS
  <2> QED
    BY <2>1, <2>2, <2>3, <2>4, TaskSets, FS_RemoveElement
<1>6. in_degree' \in [Tasks -> Nat]
  BY <1>5, TaskSets DEF Uncommitted, Before
<1>7. \A i \in adj[t] : i \in Tasks /\ in_degree[i] >= 1 /\ state[i] = "Pending"
  <2>1. \A i \in adj[t] : i \in Tasks
    BY <1>1 DEF IInv, TypeOK
  <2>2. \A i \in adj[t] : in_degree'[i] = in_degree[i] - 1 /\ in_degree'[i] \in Nat /\ in_degree[i] \in Nat
    BY <2>1, <1>6 DEF IInv, TypeOK
  <2>3. \A i \in adj[t] : in_degree[i] >= 1
    BY SMTT(60), <2>2
  <2> QED
    BY <2>1, <2>3, <1>2 DEF IInv, Graph, StartedWhenFree
<1>8. Graph'
  <2>1. InDegreeExact'
    BY <1>5 DEF InDegreeExact
  <2>2. EdgesPointForward'
    BY DEF IInv, Graph, EdgesPointForward
  <2>3. StartedWhenFree'
    BY <1>1, <1>2, <1>7 DEF IInv, Graph, StartedWhenFree
  <2> QED
    BY <2>1, <2>2, <2>3 DEF Graph
<1>9. PICK freed \in Ascending(FreedBy(t)) : ready_queue' = ready_queue \o freed
  OBVIOUS
<1>10. /\ Cardinality(FreedBy(t)) \in Nat /\ FreedBy(t) \in SUBSET Tasks
       /\ freed \in [1 .. Cardinality(FreedBy(t)) -> FreedBy(t)]
  BY <1>7, TaskSets DEF FreedBy, Ascending
<1>11. freed \in Seq(Tasks) /\ DOMAIN freed = 1 .. Len(freed) /\ Len(freed) \in Nat
  <2> DEFINE c == Cardinality(FreedBy(t))
  <2>1. c \in Nat /\ freed \in [1 .. c -> Tasks]
    BY <1>10
  <2> HIDE DEF c
  <2> QED
    BY <2>1
<1>12. /\ \A k \in 1 .. Len(freed) : freed[k] \in adj[t] /\ in_degree[freed[k]] = 1
       /\ \A i \in FreedBy(t) : \E k \in 1 .. Len(freed) : freed[k] = i
       /\ \A j, k \in 1 .. Len(freed) : j < k => freed[j] < freed[k]
  BY <1>10, <1>11 DEF FreedBy, Ascending
<1>13. \A j, k \in 1 .. Len(freed) : freed[j] = freed[k] => j = k
  <2> SUFFICES ASSUME NEW j \in 1 .. Len(freed), NEW k \in 1 .. Len(freed), j < k
               PROVE  freed[j] # freed[k]
    BY <1>11
  <2>1. freed[j] < freed[k] /\ freed[j] \in Nat /\ freed[k] \in Nat
    BY <1>11, <1>12, QueueAssumption DEF Tasks
  <2> QED
    BY <2>1
<1>14. TypeOK'
  <2>1. ready_queue' \in Seq(Tasks)
    BY <1>9, <1>11 DEF IInv, TypeOK
  <2> QED
    BY <1>2, <1>4, <1>6, <2>1 DEF IInv, TypeOK, NoTask
<1>15. QueueExact'
  <2> DEFINE n == Len(ready_queue)
  <2>1. /\ n \in Nat /\ Len(ready_queue') = n + Len(freed)
        /\ \A k \in 1 .. n : ready_queue'[k] = ready_queue[k]
        /\ \A k \in 1 .. Len(freed) : ready_queue'[n + k] = freed[k]
    BY <1>9, <1>11 DEF IInv, TypeOK
  <2>2. \A k \in 1 .. Len(ready_queue') : k \in 1 .. n \/ (k - n \in 1 .. Len(freed) /\ k = n + (k - n))
    BY <1>11, <2>1
  <2>3. \A k \in 1 .. n : /\ ready_queue[k] \in Tasks /\ state[ready_queue[k]] = "Pending"
                          /\ in_degree[ready_queue[k]] = 0 /\ ready_queue[k] \notin adj[t]
    BY <1>7 DEF IInv, TypeOK, QueueExact
  <2>4. \A k \in 1 .. Len(ready_queue') : state'[ready_queue'[k]] = "Pending" /\ in_degree'[ready_queue'[k]] = 0
    <3> TAKE k \in 1 .. Len(ready_queue')
    <3>1. CASE k \in 1 .. n
      BY <1>1, <1>2, <2>1, <2>3, <3>1
    <3>2. CASE k - n \in 1 .. Len(freed) /\ k = n + (k - n)
      <4> DEFINE i == freed[k - n]
      <4>1. ready_queue'[k] = i /\ i \in adj[t] /\ in_degree[i] = 1 /\ i \in Tasks /\ state[i] = "Pending"
        BY <1>7, <1>12, <2>1, <3>2
      <4>2. state'[i] = "Pending" /\ in_degree'[i] = 0
        BY <1>1, <1>2, <4>1
      <4> QED
        BY <4>1, <4>2
    <3> QED
      BY <2>2, <3>1, <3>2
  <2>5. \A j, k \in 1 .. Len(ready_queue') : ready_queue'[j] = ready_queue'[k] => j = k
    <3> SUFFICES ASSUME NEW j \in 1 .. Len(ready_queue'), NEW k \in 1 .. Len(ready_queue'),
                        ready_queue'[j] = ready_queue'[k]
                 PROVE  j = k
      OBVIOUS
    <3>1. CASE j \in 1 .. n /\ k \in 1 .. n
      BY <2>1, <3>1 DEF IInv, QueueExact
    <3>2. CASE j \in 1 .. n /\ k - n \in 1 .. Len(freed) /\ k = n + (k - n)
      BY <1>12, <2>1, <2>3, <3>2
    <3>3. CASE k \in 1 .. n /\ j - n \in 1 .. Len(freed) /\ j = n + (j - n)
      <4>1. freed[j - n] \in adj[t] /\ ready_queue'[j] = freed[j - n]
        BY <1>12, <2>1, <3>3
      <4>2. ready_queue'[k] \notin adj[t]
        BY <2>1, <2>3, <3>3
      <4> QED
        BY <4>1, <4>2
    <3>4. CASE j - n \in 1 .. Len(freed) /\ j = n + (j - n) /\ k - n \in 1 .. Len(freed) /\ k = n + (k - n)
      <4>1. freed[j - n] = freed[k - n]
        BY <2>1, <3>4
      <4>2. j - n = k - n
        BY <1>13, <3>4, <4>1
      <4> QED
        BY <3>4, <4>2
    <3> QED
      BY <2>2, <3>1, <3>2, <3>3, <3>4
  <2>6. ASSUME NEW i \in Tasks, state'[i] = "Pending", in_degree'[i] = 0
        PROVE  \E k \in 1 .. Len(ready_queue') : ready_queue'[k] = i
    <3>1. state[i] = "Pending"
      BY <1>2, <2>6
    <3>2. CASE i \in adj[t]
      <4>1. in_degree[i] = 1
        BY <1>7, <2>6, <3>2 DEF IInv, TypeOK
      <4>2. PICK k \in 1 .. Len(freed) : freed[k] = i
        BY <1>12, <3>2, <4>1 DEF FreedBy
      <4>3. n + k \in 1 .. Len(ready_queue') /\ ready_queue'[n + k] = i
        BY <1>11, <2>1, <4>2
      <4> QED
        BY <4>3
    <3>3. CASE i \notin adj[t]
      <4>1. in_degree[i] = 0
        BY <2>6, <3>3
      <4>2. PICK k \in 1 .. n : ready_queue[k] = i
        BY <3>1, <4>1 DEF IInv, QueueExact
      <4>3. k \in 1 .. Len(ready_queue') /\ ready_queue'[k] = ready_queue[k]
        BY <1>11, <2>1
      <4> QED
        BY <4>2, <4>3
    <3> QED
      BY <3>2, <3>3
  <2> QED
    BY <2>4, <2>5, <2>6 DEF QueueExact
<1>16. InFlight'
  BY <1>1, <1>2 DEF IInv, TypeOK, InFlight, BuiltIsBuilding, ReportedIsBuilding, InstalledIsBuilding, IsReport
<1>17. RegisteredExact'
  BY <1>1, <1>2 DEF IInv, RegisteredExact
<1>18. Phases'
  BY <1>1, <1>2 DEF IInv, TypeOK, Phases, NoFalseDeadlock, NoIdleWait, ExitReason, SuccessMeansAllLeft, Verdict
<1> QED
  BY <1>3, <1>8, <1>14, <1>15, <1>16, <1>17, <1>18 DEF IInv

-----------------------------------------------------------------------------
LEMMA StutterStep == ASSUME IInv, UNCHANGED vars PROVE IInv'
<1> USE DEF vars, mainVars
<1>1. TypeOK'
  BY DEF IInv, TypeOK, input, graph
<1>2. GraphInv'
  BY GraphUnchanged DEF IInv, GraphInv
<1>3. InFlight'
  BY DEF IInv, InFlight, BuiltIsBuilding, ReportedIsBuilding, InstalledIsBuilding, IsReport, graph
<1>4. RegisteredExact' /\ Phases'
  BY DEF IInv, RegisteredExact, Phases, NoFalseDeadlock, NoIdleWait, ExitReason, SuccessMeansAllLeft, Verdict, graph
<1> QED
  BY <1>1, <1>2, <1>3, <1>4 DEF GraphInv, IInv

LEMMA NextIInv == IInv /\ [Next]_vars => IInv'
<1> SUFFICES ASSUME IInv, [Next]_vars PROVE IInv'
  OBVIOUS
<1>1. CASE \E w \in Workers : WorkerNext(w)
  BY <1>1, WorkerExitStep, TakeTaskStep, WaitOrReportDeadlockStep, ReportBuildStep
     DEF WorkerNext, BuildSucceeds, BuildFails
<1>2. CASE \E w \in Workers : SpuriousWake(w)
  BY <1>2, SpuriousWakeStep
<1>3. CASE MainNext
  BY <1>3, ReceiveCompleteStep, ReceiveFailedStep, ChannelClosedStep, InstallOkStep, InstallFailsStep,
     ReleaseStep, FinishFailedStep, FinishSucceededStep, JoinStep DEF MainNext
<1>4. CASE Interrupt
  BY <1>4, InterruptStep
<1>5. CASE Terminated \/ UNCHANGED vars
  BY <1>5, StutterStep DEF Terminated
<1> QED
  BY <1>1, <1>2, <1>3, <1>4, <1>5 DEF Next

\* The inductive invariant of the build queue.
THEOREM QueueInvariant == Spec => []IInv
BY InitIInv, NextIInv, PTL DEF Spec

-----------------------------------------------------------------------------
(* The properties that the runs check, for every value of the constants. *)

\* Every variable keeps its type; in particular the unsigned counters are never
\* taken below zero.
THEOREM TypeCorrect == Spec => []TypeOK
BY QueueInvariant, PTL DEF IInv

LEMMA StartedAfterDependencies ==
  ASSUME IInv, NEW i \in Tasks, state[i] # "Pending", NEW j \in Before(i)
  PROVE  state[j] = "Committed"
<1>1. Uncommitted(i) \in SUBSET Tasks /\ Cardinality(Uncommitted(i)) = 0
  BY DEF IInv, Graph, StartedWhenFree, InDegreeExact, Uncommitted, Before
<1>2. Uncommitted(i) = {}
  BY <1>1, EmptyTaskSet
<1> QED
  BY <1>2 DEF Uncommitted

\* No task is taken up before everything it has an edge to is committed.
THEOREM DependenciesCommitted == Spec => []DepsCommittedFirst
<1>1. IInv => DepsCommittedFirst
  BY StartedAfterDependencies DEF DepsCommittedFirst
<1> QED
  BY <1>1, QueueInvariant, PTL

\* No task is ever in two places, so nothing is built or installed twice.
THEOREM OnePlace == Spec => []TaskInOnePlace
<1>1. ASSUME IInv, NEW t \in Tasks, NEW p \in Places(t), NEW q \in Places(t) PROVE p = q
  <2>1. ASSUME NEW r \in Places(t)
        PROVE  \/ \E k \in 1 .. Len(ready_queue) : r = <<"queued", k>> /\ ready_queue[k] = t
               \/ \E w \in Workers : r = <<"built", w>> /\ worker[w] = "building" /\ job[w] = t
               \/ \E k \in 1 .. Len(chan) : r = <<"reported", k>> /\ IsReport(k) /\ chan[k].idx = t
               \/ r = <<"installed", 1>> /\ main = "install" /\ current = t
               \/ r = <<"registered", 1>> /\ t \in registered
    <3>1. DOMAIN ready_queue = 1 .. Len(ready_queue) /\ DOMAIN chan = 1 .. Len(chan)
      BY <1>1 DEF IInv, TypeOK
    <3>2. \A k \in 1 .. Len(chan) : chan[k] = BuildComplete(t) => IsReport(k) /\ chan[k].idx = t
      BY DEF IsReport, BuildComplete
    <3> QED
      BY <2>1, <3>1, <3>2 DEF Places
  <2>2. \A k \in 1 .. Len(ready_queue) : ready_queue[k] = t => state[t] = "Pending"
    BY <1>1 DEF IInv, QueueExact
  <2>3. \A w \in Workers : worker[w] = "building" /\ job[w] = t => state[t] = "Building"
    BY <1>1 DEF IInv, InFlight, BuiltIsBuilding
  <2>4. \A k \in 1 .. Len(chan) : IsReport(k) /\ chan[k].idx = t => state[t] = "Building"
    BY <1>1 DEF IInv, InFlight, ReportedIsBuilding
  <2>5. main \in {"install", "release"} /\ current = t => state[t] = "Building"
    BY <1>1 DEF IInv, InFlight, InstalledIsBuilding
  <2>6. t \in registered => state[t] = "Committed" \/ (main = "release" /\ current = t)
    BY <1>1 DEF IInv, RegisteredExact
  <2>7. CASE state[t] = "Pending"
    <3>1. \A r \in Places(t) : \E k \in 1 .. Len(ready_queue) : r = <<"queued", k>> /\ ready_queue[k] = t
      BY <2>1, <2>3, <2>4, <2>5, <2>6, <2>7
    <3>2. \A j, k \in 1 .. Len(ready_queue) : ready_queue[j] = t /\ ready_queue[k] = t => j = k
      BY <1>1 DEF IInv, QueueExact
    <3> QED
      BY <3>1, <3>2
  <2>8. CASE state[t] = "Building"
    <3>1. \A r \in Places(t) :
            \/ \E w \in Workers : r = <<"built", w>> /\ worker[w] = "building" /\ job[w] = t
            \/ \E k \in 1 .. Len(chan) : r = <<"reported", k>> /\ IsReport(k) /\ chan[k].idx = t
            \/ r = <<"installed", 1>> /\ main = "install" /\ current = t
            \/ r = <<"registered", 1>> /\ main = "release" /\ current = t
      BY <2>1, <2>2, <2>6, <2>8
    <3>2. \A v, w \in Workers :
            worker[v] = "building" /\ job[v] = t /\ worker[w] = "building" /\ job[w] = t => v = w
      BY <1>1 DEF IInv, InFlight, BuiltIsBuilding
    <3>3. \A j, k \in 1 .. Len(chan) :
            IsReport(j) /\ chan[j].idx = t /\ IsReport(k) /\ chan[k].idx = t => j = k
      BY <1>1 DEF IInv, InFlight, ReportedIsBuilding
    <3>4. \A k \in 1 .. Len(chan) : \A w \in Workers :
            IsReport(k) /\ chan[k].idx = t => ~(worker[w] = "building" /\ job[w] = t)
      BY <1>1 DEF IInv, InFlight, ReportedIsBuilding
    <3>5. main \in {"install", "release"} /\ current = t =>
            /\ \A k \in 1 .. Len(chan) : ~(IsReport(k) /\ chan[k].idx = t)
            /\ \A w \in Workers : ~(worker[w] = "building" /\ job[w] = t)
      BY <1>1 DEF IInv, InFlight, InstalledIsBuilding
    <3> HIDE DEF IsReport
    <3> QED
      BY <3>1, <3>2, <3>3, <3>4, <3>5
  <2>9. CASE state[t] = "Committed"
    BY <2>1, <2>2, <2>3, <2>4, <2>5, <2>9
  <2> QED
    BY <1>1, <2>7, <2>8, <2>9 DEF IInv, TypeOK
<1>2. IInv => TaskInOnePlace
  BY <1>1 DEF TaskInOnePlace
<1> QED
  BY <1>2, QueueInvariant, PTL

\* No worker sleeps while there is work or after the run was called off.
THEOREM NoLostWakeup == Spec => []NoIdleWait
BY QueueInvariant, PTL DEF IInv, Phases

\* The workers never declare the graph dead: the edges cannot form a loop.
THEOREM NeverDead == Spec => []NoFalseDeadlock
BY QueueInvariant, PTL DEF IInv, Phases

\* A run is called successful only when everything was installed.
THEOREM SuccessComplete == Spec => []SuccessIsComplete
<1>1. IInv => SuccessIsComplete
  <2> SUFFICES ASSUME IInv, outcome = "succeeded" PROVE SuccessIsComplete
    BY DEF SuccessIsComplete
  <2>1. main \in {"join", "done"} /\ (\A t \in Tasks : state[t] = "Committed") /\ \A w \in Workers : worker[w] = "exited"
    BY DEF IInv, Phases, Verdict
  <2> QED
    BY <2>1 DEF IInv, RegisteredExact, SuccessIsComplete
<1> QED
  BY <1>1, QueueInvariant, PTL

\* The input is never changed, and the edges are the ones computed from it.
InputInv == pkgs \in PackageLists /\ \A i \in Tasks : Before(i) = Preds(i)

LEMMA InputKept == Spec => []InputInv
<1>1. Init => InputInv
  BY PredsAreTasks DEF Init, InputInv, Before
<1>2. InputInv /\ [Next]_vars => InputInv'
  <2> SUFFICES ASSUME InputInv, UNCHANGED input PROVE InputInv'
    BY DEF Next, WorkerNext, MainNext, WorkerExit, TakeTask, WaitOrReportDeadlock, SpuriousWake,
           BuildSucceeds, BuildFails, ReportBuild, ReceiveComplete, ReceiveFailed, ChannelClosed,
           InstallOk, InstallFails, Release, FinishFailed, FinishSucceeded, Join, Interrupt,
           Terminated, vars
  <2>1. \A i : Before(i)' = Before(i) /\ Preds(i)' = Preds(i)
    BY DEF input, Before, Preds, DepIdx, DepNames, NameToIdx, Claimants
  <2> QED
    BY <2>1 DEF InputInv, input
<1> QED
  BY <1>1, <1>2, PTL DEF Spec

\* No package is built before what meets its dependency is registered, where the
\* last package of the order that claims the name comes earlier and meets it.
\* (Where it does not, it can be: the edge is drawn to the last claimant only.)
THEOREM AvailableUnlessDiverted == Spec => []DependencyAvailable
<1>1. ASSUME IInv, InputInv,
             NEW i \in Tasks, NEW d \in Requirements(pkgs[i]), state[i] # "Pending",
             NEW j \in 1 .. (i - 1), Satisfies(pkgs[j], d), \A k \in Claimants(d.name) : k <= j
      PROVE  j \in registered
  <2>1. j \in Tasks /\ j < i
    BY QueueAssumption DEF Tasks
  <2>2. j \in Claimants(d.name)
    BY <1>1, <2>1 DEF Satisfies, Claimants
  <2>3. \A m \in Claimants(d.name) : j <= m => m = j
    BY <1>1, <2>1, QueueAssumption DEF Claimants, Tasks
  <2>4. NameToIdx(d.name) = j
    BY <1>1, <2>2, <2>3 DEF NameToIdx
  <2>5. j \in Preds(i)
    BY <1>1, <2>1, <2>2, <2>4, QueueAssumption DEF Preds, DepIdx, DepNames, Tasks
  <2>6. state[j] = "Committed"
    BY <1>1, <2>5, StartedAfterDependencies DEF InputInv
  <2> QED
    BY <1>1, <2>1, <2>6 DEF IInv, RegisteredExact
<1>2. IInv /\ InputInv => DependencyAvailable
  BY <1>1 DEF DependencyAvailable
<1> QED
  BY <1>2, QueueInvariant, InputKept, PTL

\* The queue implements OrderedInstall.
THEOREM Refinement == Spec => RefinesOrderedInstall
<1>1. Init => Ordered!AInit
  BY DEF Init, Ordered!AInit, Before
<1>2. IInv /\ [Next]_vars => [Ordered!ANext]_Ordered!avars
  <2> SUFFICES ASSUME IInv, [Next]_vars PROVE [Ordered!ANext]_Ordered!avars
    OBVIOUS
  <2>1. UNCHANGED adj => \A i : Before(i)' = Before(i)
    BY DEF Before
  <2>2. ASSUME UNCHANGED <<adj, registered, outcome>> PROVE UNCHANGED Ordered!avars
    BY <2>1, <2>2 DEF Ordered!avars
  <2>3. CASE \E w \in Workers : WorkerNext(w) \/ SpuriousWake(w)
    BY <2>2, <2>3 DEF WorkerNext, WorkerExit, TakeTask, WaitOrReportDeadlock, SpuriousWake,
                      BuildSucceeds, BuildFails, ReportBuild, input, mainVars
  <2>4. CASE ReceiveComplete \/ ReceiveFailed \/ ChannelClosed \/ InstallFails \/ Release \/ Join \/ Interrupt
    BY <2>2, <2>4 DEF ReceiveComplete, ReceiveFailed, ChannelClosed, InstallFails, Release, Join,
                      Interrupt, input, mainVars
  <2>5. CASE InstallOk
    <3>1. current \in Tasks /\ state[current] = "Building" /\ main = "install" /\ outcome = "running"
      BY <2>5 DEF InstallOk, IInv, InFlight, InstalledIsBuilding, Phases, Verdict
    <3>2. registered = {t \in Tasks : state[t] = "Committed"}
      BY <3>1 DEF IInv, RegisteredExact
    <3>3. current \notin registered /\ Before(current) \subseteq registered
      BY <3>1, <3>2, StartedAfterDependencies DEF Before
    <3>4. Ordered!Register(current)
      BY <2>1, <2>5, <3>1, <3>3 DEF InstallOk, Ordered!Register, input
    <3> QED
      BY <3>1, <3>4 DEF Ordered!ANext
  <2>6. CASE FinishFailed
    BY <2>1, <2>6 DEF FinishFailed, IInv, Phases, Verdict, Ordered!ANext, Ordered!Fail, input
  <2>7. CASE FinishSucceeded
    <3>1. outcome = "running" /\ \A t \in Tasks : state[t] = "Committed"
      BY <2>7, QueueAssumption DEF FinishSucceeded, IInv, Phases, NoFalseDeadlock, ExitReason, SuccessMeansAllLeft, Verdict
    <3>2. registered = Tasks
      BY <2>7, <3>1 DEF FinishSucceeded, IInv, RegisteredExact
    <3> QED
      BY <2>1, <2>7, <3>1, <3>2 DEF FinishSucceeded, Ordered!ANext, Ordered!Succeed, input
  <2>8. CASE Terminated \/ UNCHANGED vars
    BY <2>2, <2>8 DEF Terminated, vars, input, mainVars
  <2> QED
    BY <2>3, <2>4, <2>5, <2>6, <2>7, <2>8 DEF Next, MainNext
<1> QED
  BY <1>1, <1>2, QueueInvariant, PTL DEF Spec, Ordered!ASpec, RefinesOrderedInstall
=============================================================================
