-------------------------- MODULE DownloadsProofs --------------------------
(***************************************************************************)
(* What Downloads promises, proved for any number of sources, mirrors and  *)
(* transfers at a time.                                                    *)
(*                                                                         *)
(* The argument: a source is still to come, has a transfer, or is done     *)
(* with; a transfer is libcurl's or waits, once, in done_tokens; and what  *)
(* is done with is there and verified, or was given up and its file        *)
(* removed.  So a download is only over when every source was dealt with.  *)
(* A transfer that is stopped although its mirror is good was stopped by   *)
(* the flag, and the flag was raised by another source, as a source clears *)
(* it when it goes to its own next mirror.                                 *)
(***************************************************************************)
EXTENDS Downloads, FiniteSetTheorems, TLAPS

\* The type invariant in three parts.
SourceTypes ==
  /\ source \in [Tasks -> Sources]
  /\ current_mirror \in [Tasks -> Nat \ {0}]
  /\ \A t \in Tasks : current_mirror[t] <= Len(source[t].mirrors) + 1

TaskTypes ==
  /\ pending \in 1 .. NumTasks + 1
  /\ active \subseteq Tasks
  /\ transfer \in [Tasks -> {"idle", "running", "ok", "error"}]
  /\ file \in [Tasks -> {"absent", "partial", "good", "corrupt"}]
  /\ done_tokens \in Seq(Tasks)

LoopTypes ==
  /\ interrupted \in BOOLEAN /\ overall_success \in BOOLEAN /\ signal \in BOOLEAN
  /\ monitor \in {"running", "joined"}
  /\ pc \in {"fill", "perform", "process", "finish", "returned"}
  /\ result \in {"none", "ok", "error", "multi_error"}
  /\ errors \in 0 .. MaxErrors

Types == SourceTypes /\ TaskTypes /\ LoopTypes

\* A transfer is libcurl's or waits to be looked at, once.
Waits(t) == \E k \in DOMAIN done_tokens : done_tokens[k] = t
Once(s) == \A j, k \in DOMAIN s : s[j] = s[k] => j = k

TransfersKnown ==
  /\ \A t \in Tasks : t \in active <=> transfer[t] # "idle"
  /\ \A t \in Tasks : Waits(t) <=> transfer[t] \in {"ok", "error"}
  /\ Once(done_tokens)
  /\ pc \in {"fill", "finish"} => done_tokens = <<>>

\* What was received is what the mirror has.
Received ==
  \A t \in Tasks : transfer[t] = "ok" => file[t] = Mirror(t) /\ Mirror(t) \in {"good", "corrupt"}

Limited == IsFiniteSet(active) /\ Cardinality(active) <= MaxConcurrent

StillToCome ==
  \A t \in Tasks : t >= pending => t \notin active /\ file[t] = "absent" /\ current_mirror[t] = 1

\* t was refused by its last mirror, or by one with a protocol that is not allowed.
GaveUp(t) == current_mirror[t] > Len(source[t].mirrors) \/ ~Secure(t, current_mirror[t])

DealtWith ==
  pc # "returned" =>
    \A t \in Tasks : t < pending /\ t \notin active =>
      \/ Trusted(t)
      \/ file[t] = "absent" /\ GaveUp(t) /\ ~overall_success

Ending ==
  /\ pc = "finish" => signal \/ (active = {} /\ pending = NumTasks + 1)
  /\ result = "none" <=> pc # "returned"
  /\ OkMeansVerified
  /\ OthersTriedAll

IInv ==
  Types /\ TransfersKnown /\ Received /\ Limited /\ StillToCome /\ DealtWith
    /\ NoUnverifiedFile /\ Ending

-----------------------------------------------------------------------------
(* Constants and sequences. *)

LEMMA Bounds == NumTasks \in Nat /\ MaxConcurrent \in Nat \ {0} /\ MaxErrors \in Nat
BY DownloadsAssumption

LEMMA TaskRange == \A t : t \in Tasks <=> t \in Int /\ 1 <= t /\ t <= NumTasks
BY Bounds DEF Tasks

LEMMA TypeParts == TypeOK <=> Types
BY DEF TypeOK, Types, SourceTypes, TaskTypes, LoopTypes

LEMMA SourceType ==
  ASSUME SourceTypes, NEW t \in Tasks
  PROVE  /\ source[t] \in Source
         /\ Len(source[t].mirrors) \in Nat \ {0}
         /\ \A k \in 1 .. Len(source[t].mirrors) : source[t].mirrors[k] \in MirrorKind
BY DownloadsAssumption DEF SourceTypes, Source

\* What waits after one more transfer has ended, and after one was looked at.
LEMMA AppendOnce ==
  ASSUME NEW S, NEW s \in Seq(S), NEW x \in S, Once(s), \A k \in DOMAIN s : s[k] # x
  PROVE  /\ Once(Append(s, x))
         /\ \A u : (\E k \in DOMAIN Append(s, x) : Append(s, x)[k] = u)
                     <=> (\E k \in DOMAIN s : s[k] = u) \/ u = x
<1>1. /\ DOMAIN s = 1 .. Len(s) /\ Len(s) \in Nat
      /\ DOMAIN Append(s, x) = 1 .. Len(s) + 1
      /\ \A k \in 1 .. Len(s) : Append(s, x)[k] = s[k]
      /\ Append(s, x)[Len(s) + 1] = x
  OBVIOUS
<1>2. Once(Append(s, x))
  BY <1>1 DEF Once
<1>3. \A u : (\E k \in DOMAIN Append(s, x) : Append(s, x)[k] = u)
               <=> (\E k \in DOMAIN s : s[k] = u) \/ u = x
  BY <1>1
<1> QED BY <1>2, <1>3

LEMMA TailOnce ==
  ASSUME NEW S, NEW s \in Seq(S), s # <<>>, Once(s)
  PROVE  /\ Once(Tail(s))
         /\ \A u : (\E k \in DOMAIN Tail(s) : Tail(s)[k] = u)
                     <=> (\E k \in DOMAIN s : s[k] = u) /\ u # Head(s)
<1>1. /\ DOMAIN s = 1 .. Len(s) /\ Len(s) \in Nat \ {0}
      /\ DOMAIN Tail(s) = 1 .. Len(s) - 1
      /\ \A k \in 1 .. Len(s) - 1 : Tail(s)[k] = s[k + 1]
      /\ Head(s) = s[1]
  OBVIOUS
<1>2. Once(Tail(s))
  BY <1>1 DEF Once
<1>3. ASSUME NEW u
      PROVE  (\E k \in DOMAIN Tail(s) : Tail(s)[k] = u)
               <=> (\E k \in DOMAIN s : s[k] = u) /\ u # Head(s)
  <2>1. ASSUME NEW k \in 1 .. Len(s), s[k] = u, u # s[1]
        PROVE  \E j \in 1 .. Len(s) - 1 : Tail(s)[j] = u
    <3>1. k - 1 \in 1 .. Len(s) - 1 /\ Tail(s)[k - 1] = s[k]
      BY <1>1, <2>1
    <3> QED BY <3>1, <2>1
  <2>2. ASSUME NEW j \in 1 .. Len(s) - 1, Tail(s)[j] = u
        PROVE  (\E k \in 1 .. Len(s) : s[k] = u) /\ u # s[1]
    <3>1. j + 1 \in 1 .. Len(s) /\ s[j + 1] = u /\ 1 \in 1 .. Len(s) /\ j + 1 # 1
      BY <1>1, <2>2
    <3> QED BY <3>1, <1>1 DEF Once
  <2> QED BY <1>1, <2>1, <2>2
<1> QED BY <1>2, <1>3

-----------------------------------------------------------------------------
(* Types. *)

LEMMA MirrorPassed ==
  ASSUME SourceTypes, NEW t \in Tasks, FallBack(t) \/ GiveUp(t)
  PROVE  /\ SourceTypes'
         /\ UNCHANGED source
         /\ current_mirror[t] \in 1 .. Len(source[t].mirrors)
         /\ current_mirror' = [current_mirror EXCEPT ![t] = @ + 1]
<1>1. current_mirror[t] \in Nat \ {0} /\ Len(source[t].mirrors) \in Nat
  BY SourceType DEF SourceTypes
<1>2. current_mirror' = [current_mirror EXCEPT ![t] = @ + 1] /\ UNCHANGED source
  BY DEF FallBack, GiveUp, NextMirror
<1>3. current_mirror[t] <= Len(source[t].mirrors)
  BY <1>1 DEF FallBack, GiveUp
<1>4. current_mirror' \in [Tasks -> Nat \ {0}]
  BY <1>2 DEF SourceTypes
<1>5. ASSUME NEW u \in Tasks PROVE current_mirror'[u] <= Len(source[u].mirrors) + 1
  <2> DEFINE m == Len(source[u].mirrors)
  <2>1. m \in Nat /\ current_mirror[u] \in Nat /\ current_mirror[u] <= m + 1
        /\ (u = t => current_mirror[u] <= m)
    BY <1>3, SourceType DEF SourceTypes
  <2> HIDE DEF m
  <2>2. current_mirror'[u] = IF u = t THEN current_mirror[u] + 1 ELSE current_mirror[u]
    BY <1>2 DEF SourceTypes
  <2>3. current_mirror'[u] <= m + 1
    BY <2>1, <2>2
  <2> QED BY <2>3 DEF m
<1>6. SourceTypes'
  BY <1>2, <1>4, <1>5 DEF SourceTypes
<1> QED BY <1>1, <1>2, <1>3, <1>6

LEMMA FillTypes ==
  ASSUME TaskTypes, FillNext
  PROVE  TaskTypes'
<1>1. pending \in Tasks /\ pending' \in 1 .. NumTasks + 1
  BY Bounds, TaskRange DEF FillNext, CanFill, TaskTypes
<1>2. CASE Secure(pending, 1)
  BY <1>1, <1>2 DEF FillNext, Begin, TaskTypes
<1>3. CASE ~Secure(pending, 1)
  BY <1>1, <1>3 DEF FillNext, TaskTypes
<1> QED BY <1>2, <1>3

LEMMA TransferTypes ==
  ASSUME NEW t \in Tasks, TaskTypes, Transfer(t)
  PROVE  TaskTypes'
BY SMTT(60) DEF Transfer, Receive, MirrorFails, RefuseRedirect, Abort, Ends, Running, TaskTypes

LEMMA TypesStep == Types /\ [Next]_vars => Types'
<1> SUFFICES ASSUME SourceTypes, TaskTypes, LoopTypes, [Next]_vars
             PROVE  SourceTypes' /\ TaskTypes' /\ LoopTypes'
  BY DEF Types
<1>1. CASE FillNext
  <2>1. SourceTypes'
    BY <1>1 DEF FillNext, SourceTypes
  <2>2. TaskTypes'
    BY <1>1, FillTypes
  <2>3. LoopTypes'
    BY <1>1 DEF FillNext, LoopTypes
  <2> QED BY <2>1, <2>2, <2>3
<1>2. CASE LoopOn \/ Collect \/ EndProcess \/ MultiFails \/ Signal
  <2>1. SourceTypes' /\ TaskTypes'
    BY <1>2 DEF LoopOn, Collect, EndProcess, MultiFails, Signal, SourceTypes, TaskTypes
  <2>2. CASE LoopOn \/ Collect \/ EndProcess \/ Signal
    BY <2>1, <2>2 DEF LoopOn, Collect, EndProcess, Signal, LoopTypes
  <2>3. CASE MultiFails
    BY <2>1, <2>3, Bounds DEF MultiFails, LoopTypes
  <2> QED BY <1>2, <2>2, <2>3
<1>3. CASE FinishFailed \/ FinishOk
  <2>1. SourceTypes' /\ LoopTypes'
    BY <1>3 DEF FinishFailed, FinishOk, SourceTypes, LoopTypes
  <2>2. TaskTypes'
    BY <1>3 DEF FinishFailed, FinishOk, FilesAfterCleanup, TaskTypes
  <2> QED BY <2>1, <2>2
<1>4. ASSUME NEW t \in Tasks, Transfer(t) PROVE SourceTypes' /\ TaskTypes' /\ LoopTypes'
  <2> USE DEF Transfer, Receive, MirrorFails, RefuseRedirect, Abort, Ends, Running
  <2>1. SourceTypes' /\ LoopTypes'
    BY <1>4 DEF SourceTypes, LoopTypes
  <2>2. TaskTypes'
    BY <1>4, TransferTypes
  <2> QED BY <2>1, <2>2
<1>5. ASSUME NEW t \in Tasks, Accept(t) PROVE SourceTypes' /\ TaskTypes' /\ LoopTypes'
  BY <1>5 DEF Accept, Finished, SourceTypes, TaskTypes, LoopTypes
<1>6. ASSUME NEW t \in Tasks, FallBack(t) PROVE SourceTypes' /\ TaskTypes' /\ LoopTypes'
  <2>1. TaskTypes'
    BY <1>6 DEF FallBack, Finished, Begin, TaskTypes
  <2>2. LoopTypes'
    BY <1>6 DEF FallBack, LoopTypes
  <2> QED BY <1>6, <2>1, <2>2, MirrorPassed
<1>7. ASSUME NEW t \in Tasks, GiveUp(t) PROVE SourceTypes' /\ TaskTypes' /\ LoopTypes'
  <2>1. TaskTypes'
    BY <1>7 DEF GiveUp, Finished, TaskTypes
  <2>2. LoopTypes'
    BY <1>7 DEF GiveUp, LoopTypes
  <2> QED BY <1>7, <2>1, <2>2, MirrorPassed
<1>8. CASE UNCHANGED vars
  BY <1>8 DEF vars, SourceTypes, TaskTypes, LoopTypes
<1> QED
  BY <1>1, <1>2, <1>3, <1>4, <1>5, <1>6, <1>7, <1>8 DEF Next, Loop, Returned

-----------------------------------------------------------------------------
(* Transfers. *)

LEMMA FillTransfers ==
  ASSUME Types, TransfersKnown, Received, StillToCome, FillNext
  PROVE  TransfersKnown' /\ Received'
<1>1. pending \in Tasks /\ pending \notin active
  BY Bounds, TaskRange DEF FillNext, CanFill, Types, TaskTypes, StillToCome
<1>2. CASE Secure(pending, 1)
  <2>1. /\ transfer' = [transfer EXCEPT ![pending] = "running"]
        /\ active' = active \cup {pending}
        /\ file' = [file EXCEPT ![pending] = "partial"]
        /\ UNCHANGED <<done_tokens, pc, source, current_mirror>>
        /\ transfer[pending] = "idle"
    BY <1>1, <1>2 DEF FillNext, Begin, TransfersKnown
  <2>2. Received'
    BY <1>1, <2>1 DEF Received, Mirror, Types, TaskTypes
  <2>3. TransfersKnown'
    BY <1>1, <2>1 DEF TransfersKnown, Waits, Types, TaskTypes
  <2> QED BY <2>2, <2>3
<1>3. CASE ~Secure(pending, 1)
  BY <1>3 DEF FillNext, TransfersKnown, Received, Waits, Mirror
<1> QED BY <1>2, <1>3

\* A transfer ends.
LEMMA EndTransfers ==
  ASSUME Types, TransfersKnown, Received, NEW t \in Tasks, Transfer(t)
  PROVE  TransfersKnown' /\ Received'
<1>1. /\ pc = "perform" /\ transfer[t] = "running"
      /\ \E how \in {"ok", "error"} :
           /\ transfer' = [transfer EXCEPT ![t] = how]
           /\ how = "ok" => Mirror(t) \in {"good", "corrupt"} /\ file' = [file EXCEPT ![t] = Mirror(t)]
           /\ how = "error" => file' = file
      /\ done_tokens' = Append(done_tokens, t)
      /\ UNCHANGED <<active, pc, source, current_mirror>>
  BY DEF Transfer, Receive, MirrorFails, RefuseRedirect, Abort, Ends, Running
<1>2. \A k \in DOMAIN done_tokens : done_tokens[k] # t
  BY <1>1 DEF TransfersKnown, Waits
<1>3. done_tokens \in Seq(Tasks) /\ Once(done_tokens)
  BY DEF Types, TaskTypes, TransfersKnown
<1>4. Once(done_tokens') /\ \A u : Waits(u)' <=> Waits(u) \/ u = t
  BY <1>1, <1>2, <1>3, AppendOnce DEF Waits
<1>5. TransfersKnown'
  BY <1>1, <1>4 DEF TransfersKnown, Types, TaskTypes
<1>6. Received'
  BY <1>1 DEF Received, Mirror, Types, TaskTypes
<1> QED BY <1>5, <1>6

\* An ended transfer is looked at, and forgotten or begun again.
LEMMA LookTransfers ==
  ASSUME Types, TransfersKnown, Received, NEW t \in Tasks, Accept(t) \/ FallBack(t) \/ GiveUp(t)
  PROVE  /\ TransfersKnown' /\ Received'
         /\ t \in active /\ transfer[t] \in {"ok", "error"}
<1>1. /\ pc = "process" /\ done_tokens # <<>> /\ t = Head(done_tokens)
      /\ done_tokens' = Tail(done_tokens) /\ UNCHANGED <<pc, source>>
  BY DEF Accept, FallBack, GiveUp, Finished
<1>2. done_tokens \in Seq(Tasks) /\ Once(done_tokens)
  BY DEF Types, TaskTypes, TransfersKnown
<1>3. Once(done_tokens') /\ \A u : Waits(u)' <=> Waits(u) /\ u # t
  BY <1>1, <1>2, TailOnce DEF Waits
<1>4. Waits(t)
  BY <1>1, <1>2 DEF Waits
<1>5. t \in active /\ transfer[t] \in {"ok", "error"}
  BY <1>4 DEF TransfersKnown
<1>6. \/ transfer' = [transfer EXCEPT ![t] = "idle"] /\ active' = active \ {t}
      \/ transfer' = [transfer EXCEPT ![t] = "running"] /\ active' = active \cup {t}
  BY DEF Accept, FallBack, GiveUp, Begin
<1>7. TransfersKnown'
  BY <1>1, <1>3, <1>6 DEF TransfersKnown, Types, TaskTypes
<1>8. ASSUME NEW u \in Tasks, u # t
      PROVE  file'[u] = file[u] /\ current_mirror'[u] = current_mirror[u] /\ transfer'[u] = transfer[u]
  BY <1>6, <1>8 DEF Accept, FallBack, GiveUp, Begin, Types, TaskTypes, SourceTypes
<1>9. transfer'[t] # "ok"
  BY <1>6 DEF Types, TaskTypes
<1>10. Received'
  BY <1>1, <1>8, <1>9 DEF Received, Mirror
<1> QED BY <1>5, <1>7, <1>10

LEMMA TransfersStep ==
  ASSUME IInv, [Next]_vars
  PROVE  TransfersKnown' /\ Received'
<1> USE DEF IInv
<1>1. CASE FillNext
  BY <1>1, FillTransfers
<1>2. CASE LoopOn \/ Collect \/ EndProcess \/ MultiFails \/ Signal \/ FinishOk \/ UNCHANGED vars
  BY <1>2
  DEF LoopOn, Collect, EndProcess, MultiFails, Signal, FinishOk, vars, TransfersKnown, Received,
      Waits, Mirror
<1>3. CASE FinishFailed
  BY <1>3 DEF FinishFailed, TransfersKnown, Received, Waits
<1>4. ASSUME NEW t \in Tasks, Transfer(t) PROVE TransfersKnown' /\ Received'
  BY <1>4, EndTransfers
<1>5. ASSUME NEW t \in Tasks, Accept(t) \/ FallBack(t) \/ GiveUp(t)
      PROVE  TransfersKnown' /\ Received'
  BY <1>5, LookTransfers
<1> QED BY <1>1, <1>2, <1>3, <1>4, <1>5 DEF Next, Loop, Returned

-----------------------------------------------------------------------------
(* The limit, and what is dealt with. *)

LEMMA LimitedStep ==
  ASSUME IInv, [Next]_vars
  PROVE  Limited'
<1> USE DEF IInv
<1>1. CASE FillNext
  <2>1. Cardinality(active) < MaxConcurrent /\ active' \in {active, active \cup {pending}}
    BY <1>1 DEF FillNext, CanFill, Begin
  <2>2. /\ IsFiniteSet(active \cup {pending})
        /\ Cardinality(active \cup {pending}) \in {Cardinality(active), Cardinality(active) + 1}
        /\ Cardinality(active) \in Nat
    <3>1. IsFiniteSet(active) /\ Cardinality(active) \in Nat
      BY FS_CardinalityType DEF Limited
    <3>2. CASE pending \in active
      BY <3>1, <3>2, active \cup {pending} = active
    <3>3. CASE pending \notin active
      BY <3>1, <3>3, FS_AddElement
    <3> QED BY <3>1, <3>2, <3>3
  <2> DEFINE c == Cardinality(active')
  <2>3. IsFiniteSet(active') /\ c \in {Cardinality(active), Cardinality(active) + 1}
    <3>1. CASE active' = active
      BY <2>2, <3>1 DEF Limited
    <3>2. CASE active' = active \cup {pending}
      BY <2>2, <3>2
    <3> QED BY <2>1, <3>1, <3>2
  <2> HIDE DEF c
  <2>4. c <= MaxConcurrent
    BY <2>1, <2>2, <2>3, Bounds
  <2> QED BY <2>3, <2>4 DEF Limited, c
<1>2. ASSUME active' \subseteq active PROVE Limited'
  <2>1. IsFiniteSet(active') /\ Cardinality(active') <= Cardinality(active)
    BY <1>2, FS_Subset DEF Limited
  <2>2. Cardinality(active) \in Nat /\ Cardinality(active') \in Nat
    BY <2>1, FS_CardinalityType DEF Limited
  <2> QED BY <2>1, <2>2, Bounds DEF Limited
<1>3. ASSUME NEW t \in Tasks, Accept(t) \/ FallBack(t) \/ GiveUp(t) PROVE active' \subseteq active
  <2>1. t \in active
    BY <1>3, LookTransfers
  <2> QED BY <1>3, <2>1 DEF Accept, FallBack, GiveUp, Begin
<1>4. CASE LoopOn \/ Collect \/ EndProcess \/ MultiFails \/ Signal \/ FinishOk \/ FinishFailed
             \/ UNCHANGED vars
  BY <1>2, <1>4 DEF LoopOn, Collect, EndProcess, MultiFails, Signal, FinishOk, FinishFailed, vars
<1>5. ASSUME NEW t \in Tasks, Transfer(t) PROVE active' \subseteq active
  BY <1>5 DEF Transfer, Receive, MirrorFails, RefuseRedirect, Abort, Ends
<1> QED BY <1>1, <1>2, <1>3, <1>4, <1>5 DEF Next, Loop, Returned

\* The steps that deal with one source leave all others alone.
Touches(t) ==
  /\ \A u \in Tasks \ {t} : /\ file'[u] = file[u]
                            /\ current_mirror'[u] = current_mirror[u]
                            /\ u \in active' <=> u \in active
  /\ UNCHANGED source

LEMMA OneSource ==
  ASSUME Types, NEW t \in Tasks, Transfer(t) \/ Accept(t) \/ FallBack(t) \/ GiveUp(t)
  PROVE  Touches(t) /\ UNCHANGED <<pending, pc, signal, result>>
<1> USE DEF Types, TaskTypes, SourceTypes
<1>1. CASE Transfer(t)
  BY <1>1 DEF Transfer, Receive, MirrorFails, RefuseRedirect, Abort, Ends, Touches
<1>2. CASE Accept(t)
  BY <1>2 DEF Accept, Finished, Touches
<1>3. CASE FallBack(t) \/ GiveUp(t)
  <2>1. current_mirror' = [current_mirror EXCEPT ![t] = @ + 1]
    BY <1>3, MirrorPassed
  <2> QED BY <1>3, <2>1 DEF FallBack, GiveUp, Begin, Touches
<1> QED BY <1>1, <1>2, <1>3

LEMMA FillOne ==
  ASSUME Types, FillNext
  PROVE  /\ pending \in Tasks /\ pending' = pending + 1
         /\ Touches(pending) /\ UNCHANGED <<pc, signal, result, current_mirror>>
         /\ Secure(pending, 1) => pending \in active'
         /\ ~Secure(pending, 1) => ~overall_success' /\ UNCHANGED <<file, active>>
         /\ overall_success' => overall_success
<1>1. pending \in Tasks
  BY Bounds, TaskRange DEF FillNext, CanFill, Types, TaskTypes
<1>2. CASE Secure(pending, 1)
  BY <1>1, <1>2 DEF FillNext, Begin, Touches, Types, TaskTypes
<1>3. CASE ~Secure(pending, 1)
  BY <1>1, <1>3 DEF FillNext, Touches
<1> QED BY <1>1, <1>2, <1>3 DEF FillNext

LEMMA ToComeStep ==
  ASSUME IInv, [Next]_vars
  PROVE  StillToCome'
<1> USE DEF IInv
<1>1. CASE FillNext
  <2> SUFFICES ASSUME NEW t \in Tasks, t >= pending'
               PROVE  (t \notin active /\ file[t] = "absent" /\ current_mirror[t] = 1)'
    BY DEF StillToCome
  <2>1. t # pending /\ t >= pending
    BY <1>1, FillOne, TaskRange
  <2> QED BY <1>1, <2>1, FillOne DEF StillToCome, Touches
<1>2. ASSUME NEW t \in Tasks, Transfer(t) \/ Accept(t) \/ FallBack(t) \/ GiveUp(t)
      PROVE  StillToCome'
  <2>1. t \in active
    <3>1. CASE Transfer(t)
      BY <3>1 DEF Transfer, Receive, MirrorFails, RefuseRedirect, Abort, Running, TransfersKnown
    <3> QED BY <1>2, <3>1, LookTransfers
  <2>2. ~(t >= pending)
    BY <2>1 DEF StillToCome
  <2>3. Touches(t) /\ UNCHANGED pending
    BY <1>2, OneSource
  <2> QED BY <2>2, <2>3 DEF StillToCome, Touches
<1>3. CASE LoopOn \/ Collect \/ EndProcess \/ MultiFails \/ Signal \/ FinishOk \/ UNCHANGED vars
  BY <1>3 DEF LoopOn, Collect, EndProcess, MultiFails, Signal, FinishOk, vars, StillToCome
<1>4. CASE FinishFailed
  BY <1>4 DEF FinishFailed, FilesAfterCleanup, StillToCome
<1> QED BY <1>1, <1>2, <1>3, <1>4 DEF Next, Loop, Returned

\* What becomes of a source whose transfer was looked at.
LEMMA OutcomeStep ==
  ASSUME IInv, NEW t \in Tasks, Transfer(t) \/ Accept(t) \/ FallBack(t) \/ GiveUp(t), t \notin active'
  PROVE  \/ Trusted(t)'
         \/ (file[t] = "absent" /\ GaveUp(t) /\ ~overall_success)'
<1> USE DEF IInv
<1>1. CASE Transfer(t)
  <2>1. t \in active
    BY <1>1 DEF Transfer, Receive, MirrorFails, RefuseRedirect, Abort, Running, TransfersKnown
  <2> QED BY <1>1, <2>1 DEF Transfer, Receive, MirrorFails, RefuseRedirect, Abort, Ends
<1>2. CASE Accept(t)
  <2>1. Trusted(t)
    BY <1>2 DEF Accept, Accepted, Received, Trusted
  <2> QED BY <1>2, <2>1 DEF Accept, Trusted
<1>3. CASE FallBack(t)
  <2>1. ~Secure(t, NextMirror(t)) /\ ~overall_success' /\ file' = [file EXCEPT ![t] = "absent"]
    BY <1>3 DEF FallBack, Begin
  <2>2. current_mirror'[t] = NextMirror(t) /\ UNCHANGED source
    BY <1>3, MirrorPassed DEF NextMirror, Types, SourceTypes
  <2> QED BY <2>1, <2>2 DEF GaveUp, Secure, Types, TaskTypes
<1>4. CASE GiveUp(t)
  <2>1. ~overall_success' /\ file' = [file EXCEPT ![t] = "absent"]
    BY <1>4 DEF GiveUp
  <2>2. current_mirror'[t] = Len(source[t].mirrors) + 1 /\ UNCHANGED source
    BY <1>4, MirrorPassed DEF GiveUp, Types, SourceTypes
  <2>3. Len(source[t].mirrors) \in Nat
    BY SourceType DEF Types
  <2>4. GaveUp(t)'
    BY <2>2, <2>3 DEF GaveUp
  <2> QED BY <2>1, <2>4 DEF Types, TaskTypes
<1> QED BY <1>1, <1>2, <1>3, <1>4

LEMMA DealtStep ==
  ASSUME IInv, [Next]_vars
  PROVE  DealtWith'
<1> USE DEF IInv
<1>1. CASE FillNext
  <2> SUFFICES ASSUME pc' # "returned", NEW t \in Tasks, t < pending', t \notin active'
               PROVE  \/ Trusted(t)'
                      \/ (file[t] = "absent" /\ GaveUp(t) /\ ~overall_success)'
    BY DEF DealtWith
  <2>1. CASE t = pending
    <3>1. ~Secure(t, 1) /\ current_mirror[t] = 1 /\ file[t] = "absent"
      BY <1>1, <2>1, FillOne, TaskRange DEF StillToCome
    <3>2. UNCHANGED <<file, current_mirror, source>> /\ ~overall_success'
      BY <1>1, <2>1, <3>1, FillOne DEF Touches
    <3> QED BY <3>1, <3>2 DEF GaveUp, Secure
  <2>2. CASE t # pending
    <3>1. t < pending
      BY <1>1, <2>2, FillOne, TaskRange
    <3>2. file'[t] = file[t] /\ t \notin active /\ UNCHANGED <<source, current_mirror, pc>>
          /\ (overall_success' => overall_success)
      BY <1>1, <2>2, FillOne DEF Touches
    <3>3. Trusted(t) \/ (file[t] = "absent" /\ GaveUp(t) /\ ~overall_success)
      BY <3>1, <3>2 DEF DealtWith
    <3> QED BY <3>2, <3>3 DEF Trusted, GaveUp, Secure
  <2> QED BY <2>1, <2>2
<1>2. ASSUME NEW t \in Tasks, Transfer(t) \/ Accept(t) \/ FallBack(t) \/ GiveUp(t)
      PROVE  DealtWith'
  <2> SUFFICES ASSUME pc' # "returned", NEW u \in Tasks, u < pending', u \notin active'
               PROVE  \/ Trusted(u)'
                      \/ (file[u] = "absent" /\ GaveUp(u) /\ ~overall_success)'
    BY DEF DealtWith
  <2>1. CASE u = t
    BY <1>2, <2>1, OutcomeStep
  <2>2. CASE u # t
    <3>1. /\ file'[u] = file[u] /\ current_mirror'[u] = current_mirror[u] /\ u \notin active
          /\ UNCHANGED <<source, pending, pc>>
      BY <1>2, <2>2, OneSource DEF Touches
    <3>2. overall_success' => overall_success
      BY <1>2
      DEF Transfer, Receive, MirrorFails, RefuseRedirect, Abort, Ends, Accept, FallBack, GiveUp, Begin
    <3>3. Trusted(u) \/ (file[u] = "absent" /\ GaveUp(u) /\ ~overall_success)
      BY <3>1 DEF DealtWith
    <3> QED BY <3>1, <3>2, <3>3 DEF Trusted, GaveUp, Secure
  <2> QED BY <2>1, <2>2
<1>3. CASE LoopOn \/ Collect \/ EndProcess \/ Signal \/ UNCHANGED vars
  BY <1>3
  DEF LoopOn, Collect, EndProcess, Signal, vars, DealtWith, Trusted, GaveUp, Secure
<1>4. CASE MultiFails \/ FinishOk \/ FinishFailed
  BY <1>4 DEF MultiFails, FinishOk, FinishFailed, DealtWith
<1> QED BY <1>1, <1>2, <1>3, <1>4 DEF Next, Loop, Returned

LEMMA FilesStep ==
  ASSUME IInv, [Next]_vars, StillToCome', DealtWith', Types'
  PROVE  NoUnverifiedFile'
<1>1. CASE pc' # "returned"
  <2> SUFFICES ASSUME NEW t \in Tasks, t \notin active' PROVE file'[t] = "absent" \/ Trusted(t)'
    BY DEF NoUnverifiedFile
  <2>1. t < pending' \/ t >= pending'
    BY TaskRange DEF Types, TaskTypes
  <2> QED BY <1>1, <2>1 DEF StillToCome, DealtWith
<1>2. CASE FinishFailed
  BY <1>2 DEF FinishFailed, FilesAfterCleanup, NoUnverifiedFile, Trusted, IInv
<1>3. CASE MultiFails \/ FinishOk \/ UNCHANGED vars
  BY <1>3 DEF MultiFails, FinishOk, vars, NoUnverifiedFile, Trusted, IInv
<1>4. CASE FillNext \/ LoopOn \/ Collect \/ EndProcess \/ Signal
  BY <1>1, <1>4 DEF FillNext, LoopOn, Collect, EndProcess, Signal
<1>5. ASSUME NEW t \in Tasks, Transfer(t) \/ Accept(t) \/ FallBack(t) \/ GiveUp(t)
      PROVE  pc' # "returned"
  BY <1>5
  DEF Transfer, Receive, MirrorFails, RefuseRedirect, Abort, Ends, Running, Accept, FallBack, GiveUp,
      Finished
<1> QED BY <1>1, <1>2, <1>3, <1>4, <1>5 DEF Next, Loop, Returned

LEMMA EndingStep ==
  ASSUME IInv, [Next]_vars
  PROVE  Ending'
<1> USE DEF IInv
<1>1. CASE LoopOn
  <2>1. active = {} => pending = NumTasks + 1
    <3>1. Cardinality({}) = 0
      BY FS_EmptySet
    <3>2. active = {} => ~(pending <= NumTasks)
      BY <1>1, <3>1, Bounds DEF LoopOn, CanFill
    <3> QED BY <3>2, Bounds DEF Types, TaskTypes
  <2> QED BY <1>1, <2>1 DEF LoopOn, Ending, OkMeansVerified, OthersTriedAll
<1>2. ASSUME pc = "finish", ~signal
      PROVE  /\ active = {}
             /\ \A t \in Tasks : t < pending
  <2>1. active = {} /\ pending = NumTasks + 1
    BY <1>2 DEF Ending
  <2> QED BY <2>1, TaskRange, Bounds
<1>3. CASE FinishOk
  <2>1. \A t \in Tasks : Trusted(t)
    BY <1>2, <1>3 DEF FinishOk, DealtWith
  <2> QED BY <1>3, <2>1 DEF FinishOk, Ending, OkMeansVerified, OthersTriedAll, Trusted
<1>4. CASE FinishFailed
  <2>1. ASSUME ~signal, NEW t \in Tasks PROVE Trusted(t) \/ GaveUp(t)
    BY <1>2, <1>4, <2>1 DEF FinishFailed, DealtWith
  <2>2. ASSUME ~signal PROVE UNCHANGED <<file, source, current_mirror>>
    BY <1>2, <1>4, <2>2 DEF FinishFailed, FilesAfterCleanup, Types, TaskTypes
  <2>3. OthersTriedAll'
    BY <1>4, <2>1, <2>2 DEF FinishFailed, OthersTriedAll, Trusted, GaveUp, Secure
  <2> QED BY <1>4, <2>3 DEF FinishFailed, Ending, OkMeansVerified
<1>5. CASE MultiFails \/ UNCHANGED vars
  BY <1>5 DEF MultiFails, vars, Ending, OkMeansVerified, OthersTriedAll, Trusted, Secure
<1>6. CASE FillNext \/ Collect \/ EndProcess \/ Signal
  BY <1>6
  DEF FillNext, Collect, EndProcess, Signal, Ending, OkMeansVerified, OthersTriedAll
<1>7. ASSUME NEW t \in Tasks, Transfer(t) \/ Accept(t) \/ FallBack(t) \/ GiveUp(t)
      PROVE  Ending'
  <2>1. pc \in {"perform", "process"} /\ UNCHANGED <<pc, result>>
    BY <1>7
    DEF Transfer, Receive, MirrorFails, RefuseRedirect, Abort, Ends, Running, Accept, FallBack,
        GiveUp, Finished
  <2> QED BY <2>1 DEF Ending, OkMeansVerified, OthersTriedAll
<1> QED BY <1>1, <1>3, <1>4, <1>5, <1>6, <1>7 DEF Next, Loop, Returned

-----------------------------------------------------------------------------
(* The theorems. *)

LEMMA InitIInv == Init => IInv
<1> SUFFICES ASSUME Init PROVE IInv
  OBVIOUS
<1> USE DEF Init
<1>1. Types
  <2>1. \A t \in Tasks : current_mirror[t] <= Len(source[t].mirrors) + 1
    BY DownloadsAssumption DEF Source
  <2>2. SourceTypes
    BY <2>1 DEF SourceTypes
  <2>3. TaskTypes
    BY Bounds DEF TaskTypes
  <2>4. LoopTypes
    <3>1. 0 \in 0 .. MaxErrors
      BY Bounds
    <3> QED BY <3>1 DEF LoopTypes
  <2> QED BY <2>2, <2>3, <2>4 DEF Types
<1>2. TransfersKnown /\ Received
  BY DEF TransfersKnown, Received, Waits, Once
<1>3. Limited
  BY FS_EmptySet, Bounds DEF Limited
<1>4. StillToCome /\ DealtWith /\ NoUnverifiedFile
  BY TaskRange DEF StillToCome, DealtWith, NoUnverifiedFile
<1>5. Ending
  BY DEF Ending, OkMeansVerified, OthersTriedAll
<1> QED BY <1>1, <1>2, <1>3, <1>4, <1>5 DEF IInv

\* Every source is still to come, has its one transfer, or is done with, and what
\* is done with is verified or was given up.
THEOREM DownloadInvariant == Spec => []IInv
<1>1. Init => IInv
  BY InitIInv
<1>2. IInv /\ [Next]_vars => IInv'
  <2> SUFFICES ASSUME IInv, [Next]_vars PROVE IInv'
    OBVIOUS
  <2>1. Types'
    BY TypesStep DEF IInv
  <2>2. TransfersKnown' /\ Received' /\ Limited' /\ StillToCome' /\ DealtWith' /\ Ending'
    BY TransfersStep, LimitedStep, ToComeStep, DealtStep, EndingStep
  <2>3. NoUnverifiedFile'
    BY <2>1, <2>2, FilesStep
  <2> QED BY <2>1, <2>2, <2>3 DEF IInv
<1> QED BY <1>1, <1>2, PTL DEF Spec

\* Every variable of download_all keeps its type.
THEOREM DownloadsTypeCorrect == Spec => []TypeOK
<1>1. IInv => TypeOK
  BY TypeParts DEF IInv
<1> QED BY <1>1, DownloadInvariant, PTL

\* When download_all returns Ok every source is there with its hash.
THEOREM OkVerified == Spec => []OkMeansVerified
<1>1. IInv => OkMeansVerified
  BY DEF IInv, Ending
<1> QED BY <1>1, DownloadInvariant, PTL

\* What no transfer writes to is verified or gone.
THEOREM FilesVerified == Spec => []NoUnverifiedFile
<1>1. IInv => NoUnverifiedFile
  BY DEF IInv
<1> QED BY <1>1, DownloadInvariant, PTL

\* One source's failure does not keep the others from being fetched.
THEOREM AllTried == Spec => []OthersTriedAll
<1>1. IInv => OthersTriedAll
  BY DEF IInv, Ending
<1> QED BY <1>1, DownloadInvariant, PTL

\* There are never more transfers than the limit, and none is forgotten.
THEOREM LimitKept == Spec => []TransfersLimited
<1>1. IInv => TransfersLimited
  <2> SUFFICES ASSUME IInv PROVE TransfersLimited
    OBVIOUS
  <2>1. ASSUME NEW t \in active PROVE transfer[t] = "running" \/ Waits(t)
    <3>1. t \in Tasks /\ transfer[t] \in {"idle", "running", "ok", "error"}
      BY DEF IInv, Types, TaskTypes
    <3> QED BY <3>1 DEF IInv, TransfersKnown
  <2> QED BY <2>1 DEF TransfersLimited, Waits, IInv, Limited
<1> QED BY <1>1, DownloadInvariant, PTL

-----------------------------------------------------------------------------
(* The flag. *)

\* t has met a redirect, or its next mirror is one that redirects.
Redirected(t) ==
  \E k \in DOMAIN source[t].mirrors : k <= current_mirror[t] /\ source[t].mirrors[k] = "redirects"

ByAnother(t) == \E u \in Tasks \ {t} : Redirected(u)

\* Who raised the flag is not a source that still runs.
FlagRaised ==
  pc # "returned" /\ interrupted =>
    /\ \E u \in Tasks : u < pending /\ Redirected(u)
    /\ \A t \in Tasks : transfer[t] = "running" => ByAnother(t)

\* A transfer that failed although its mirror is good was stopped by another's flag.
SpoiltByAnother ==
  \A t \in Tasks : transfer[t] = "error" /\ Mirror(t) = "good" => ByAnother(t)

PassedGood(t) ==
  /\ source[t].hash = "sha256"
  /\ \E k \in DOMAIN source[t].mirrors : k < current_mirror[t] /\ source[t].mirrors[k] = "good"

MirrorLeft == \A t \in active : current_mirror[t] <= Len(source[t].mirrors)

FlagInv ==
  MirrorLeft /\ FlagRaised /\ SpoiltByAnother /\ \A t \in Tasks : PassedGood(t) => ByAnother(t)

LEMMA FlagInit == Init => FlagInv
<1> SUFFICES ASSUME Init PROVE FlagInv
  OBVIOUS
<1>1. ASSUME NEW t \in Tasks PROVE ~PassedGood(t)
  <2>1. DOMAIN source[t].mirrors = 1 .. Len(source[t].mirrors) /\ current_mirror[t] = 1
    BY DownloadsAssumption DEF Init, Source
  <2> QED BY <2>1 DEF PassedGood
<1>2. MirrorLeft /\ FlagRaised /\ SpoiltByAnother
  BY DEF Init, FlagRaised, SpoiltByAnother, MirrorLeft
<1> QED BY <1>1, <1>2 DEF FlagInv

LEMMA MirrorDomain ==
  ASSUME IInv, NEW t \in Tasks
  PROVE  DOMAIN source[t].mirrors = 1 .. Len(source[t].mirrors) /\ Len(source[t].mirrors) \in Nat
BY SourceType DEF IInv, Types, Source

\* No source goes back to an earlier mirror.
Onward ==
  /\ UNCHANGED source
  /\ current_mirror' \in [Tasks -> Nat]
  /\ \A u \in Tasks : current_mirror'[u] >= current_mirror[u]

LEMMA GoesOnward ==
  ASSUME IInv, [Next]_vars
  PROVE  Onward
<1> USE DEF IInv, Types
<1>1. ASSUME NEW t \in Tasks, FallBack(t) \/ GiveUp(t) PROVE Onward
  <2>1. UNCHANGED source /\ current_mirror' = [current_mirror EXCEPT ![t] = @ + 1]
    BY <1>1, MirrorPassed
  <2> QED BY <2>1 DEF Onward, SourceTypes
<1>2. CASE UNCHANGED <<source, current_mirror>>
  BY <1>2 DEF Onward, SourceTypes
<1> QED
  BY <1>1, <1>2
  DEF Next, Loop, Returned, vars, FillNext, LoopOn, Collect, EndProcess, MultiFails, Signal,
      FinishOk, FinishFailed, Transfer, Receive, MirrorFails, RefuseRedirect, Abort, Ends, Accept

LEMMA RedirectedStays ==
  ASSUME IInv, Onward, NEW t \in Tasks
  PROVE  /\ Redirected(t) => Redirected(t)'
         /\ ByAnother(t) => ByAnother(t)'
<1>1. ASSUME NEW u \in Tasks, Redirected(u) PROVE Redirected(u)'
  <2>1. PICK k \in DOMAIN source[u].mirrors :
          k <= current_mirror[u] /\ source[u].mirrors[k] = "redirects"
    BY <1>1 DEF Redirected
  <2>2. k \in Int
    BY MirrorDomain
  <2>3. current_mirror[u] \in Int /\ current_mirror'[u] \in Int /\ current_mirror'[u] >= current_mirror[u]
    BY DEF Onward, IInv, Types, SourceTypes
  <2>4. k <= current_mirror'[u]
    BY <2>1, <2>2, <2>3
  <2> QED BY <2>1, <2>4 DEF Redirected, Onward
<1> QED BY <1>1 DEF ByAnother

LEMMA MirrorLeftStep ==
  ASSUME IInv, MirrorLeft, [Next]_vars
  PROVE  MirrorLeft'
<1> USE DEF IInv, Types
<1>1. CASE FillNext
  <2>1. /\ pending \in Tasks /\ active' \subseteq active \cup {pending}
        /\ UNCHANGED <<source, current_mirror>>
    BY <1>1, FillOne DEF FillNext, Begin
  <2>2. current_mirror[pending] <= Len(source[pending].mirrors)
    <3>1. current_mirror[pending] = 1
      BY <2>1, TaskRange DEF StillToCome
    <3>2. Len(source[pending].mirrors) \in Nat \ {0}
      BY <2>1, SourceType
    <3> QED BY <3>1, <3>2
  <2> QED BY <2>1, <2>2 DEF MirrorLeft
<1>2. ASSUME NEW t \in Tasks, FallBack(t) \/ GiveUp(t) PROVE MirrorLeft'
  <2> SUFFICES ASSUME NEW u \in active' PROVE (current_mirror[u] <= Len(source[u].mirrors))'
    BY DEF MirrorLeft
  <2>1. /\ UNCHANGED source /\ current_mirror' = [current_mirror EXCEPT ![t] = @ + 1]
        /\ current_mirror[t] \in 1 .. Len(source[t].mirrors) /\ Len(source[t].mirrors) \in Nat
    BY <1>2, MirrorPassed, SourceType
  <2>2. t \in active /\ active' \subseteq active /\ active \subseteq Tasks
    BY <1>2, LookTransfers DEF FallBack, GiveUp, Begin, TaskTypes
  <2>3. CASE u = t
    <3>1. FallBack(t)
      BY <1>2, <2>3 DEF GiveUp
    <3>2. current_mirror[t] < Len(source[t].mirrors) /\ current_mirror'[t] = current_mirror[t] + 1
      BY <2>1, <3>1 DEF FallBack, SourceTypes
    <3> QED BY <2>1, <2>3, <3>2
  <2>4. CASE u # t
    BY <2>1, <2>2, <2>4 DEF MirrorLeft, SourceTypes
  <2> QED BY <2>3, <2>4
<1>3. CASE UNCHANGED <<source, current_mirror>> /\ active' \subseteq active
  BY <1>3 DEF MirrorLeft
<1> QED
  BY <1>1, <1>2, <1>3
  DEF Next, Loop, Returned, vars, LoopOn, Collect, EndProcess, MultiFails, Signal, FinishOk,
      FinishFailed, Transfer, Receive, MirrorFails, RefuseRedirect, Abort, Ends, Accept

LEMMA FlagStep ==
  ASSUME IInv, FlagInv, [Next]_vars
  PROVE  FlagInv'
<1> USE DEF IInv, Types
<1>1. Onward /\ MirrorLeft'
  BY GoesOnward, MirrorLeftStep DEF FlagInv
<1>2. \A t \in Tasks : (Redirected(t) => Redirected(t)') /\ (ByAnother(t) => ByAnother(t)')
  BY <1>1, RedirectedStays
<1> USE DEF FlagInv
<1>3. CASE FillNext
  <2>1. /\ pending \in Tasks /\ pending' = pending + 1
        /\ transfer' \in {transfer, [transfer EXCEPT ![pending] = "running"]}
        /\ UNCHANGED <<source, current_mirror, interrupted, pc>>
    BY <1>3, FillOne DEF FillNext, Begin
  <2>2. FlagRaised'
    <3> SUFFICES ASSUME pc' # "returned", interrupted'
                 PROVE  /\ \E u \in Tasks : u < pending' /\ Redirected(u)'
                        /\ \A t \in Tasks : transfer'[t] = "running" => ByAnother(t)'
      BY DEF FlagRaised
    <3>1. PICK u \in Tasks : u < pending /\ Redirected(u)
      BY <2>1 DEF FlagRaised
    <3>2. Redirected(u)' /\ u < pending' /\ u # pending
      BY <1>2, <2>1, <3>1, TaskRange
    <3>3. \A t \in Tasks : t = pending => ByAnother(t)'
      BY <3>2 DEF ByAnother
    <3>4. \A t \in Tasks : t # pending /\ transfer'[t] = "running" => ByAnother(t)'
      BY <1>2, <2>1 DEF FlagRaised, TaskTypes
    <3> QED BY <3>2, <3>3, <3>4
  <2>3. SpoiltByAnother'
    BY <1>2, <2>1 DEF SpoiltByAnother, Mirror, TaskTypes
  <2> QED BY <1>1, <1>2, <2>1, <2>2, <2>3 DEF PassedGood
<1>4. ASSUME NEW t \in Tasks, Transfer(t) PROVE FlagInv'
  <2>1. /\ transfer[t] = "running" /\ t \in active /\ t < pending
    BY <1>4, TaskRange
    DEF Transfer, Receive, MirrorFails, RefuseRedirect, Abort, Running, TransfersKnown, StillToCome,
        TaskTypes
  <2>2. /\ transfer' \in {[transfer EXCEPT ![t] = "ok"], [transfer EXCEPT ![t] = "error"]}
        /\ UNCHANGED <<source, current_mirror, pc, pending>>
    BY <1>4 DEF Transfer, Receive, MirrorFails, RefuseRedirect, Abort, Ends
  <2>3. \A u \in Tasks : u # t => transfer'[u] = transfer[u]
    BY <2>2 DEF TaskTypes
  <2>4. transfer'[t] # "running"
    BY <2>2 DEF TaskTypes
  <2>5. CASE RefuseRedirect(t)
    <3>1. Redirected(t)
      <4>1. current_mirror[t] \in 1 .. Len(source[t].mirrors)
        BY <2>1, SourceType DEF MirrorLeft, SourceTypes
      <4>2. current_mirror[t] \in DOMAIN source[t].mirrors /\ current_mirror[t] <= current_mirror[t]
        BY <4>1, MirrorDomain
      <4> QED BY <2>5, <4>2 DEF RefuseRedirect, Mirror, Redirected
    <3>2. \A u \in Tasks : u # t => ByAnother(u)'
      BY <1>2, <3>1 DEF ByAnother
    <3>3. FlagRaised'
      BY <1>2, <2>1, <2>2, <2>4, <3>1, <3>2 DEF FlagRaised
    <3>4. SpoiltByAnother'
      BY <2>2, <2>5, <3>2 DEF SpoiltByAnother, Mirror, RefuseRedirect
    <3> QED BY <1>1, <1>2, <2>2, <3>3, <3>4 DEF PassedGood
  <2>6. CASE Receive(t) \/ MirrorFails(t) \/ Abort(t)
    <3>1. UNCHANGED interrupted
      BY <2>6 DEF Receive, MirrorFails, Abort
    <3>2. FlagRaised'
      BY <1>2, <2>2, <2>3, <2>4, <3>1 DEF FlagRaised
    <3>3. transfer'[t] = "error" /\ Mirror(t) = "good" => ByAnother(t)
      BY <2>1, <2>6
      DEF Receive, MirrorFails, Abort, Ends, Running, FlagRaised, TaskTypes
    <3>4. SpoiltByAnother'
      BY <1>2, <2>2, <2>3, <3>3 DEF SpoiltByAnother, Mirror
    <3> QED BY <1>1, <1>2, <2>2, <3>2, <3>4 DEF PassedGood
  <2> QED BY <1>4, <2>5, <2>6 DEF Transfer
<1>5. ASSUME NEW t \in Tasks, Accept(t) PROVE FlagInv'
  <2>1. /\ transfer' = [transfer EXCEPT ![t] = "idle"]
        /\ UNCHANGED <<source, current_mirror, interrupted, pc, pending>>
    BY <1>5 DEF Accept
  <2>2. FlagRaised' /\ SpoiltByAnother'
    BY <1>2, <2>1 DEF FlagRaised, SpoiltByAnother, Mirror, TaskTypes
  <2> QED BY <1>1, <1>2, <2>1, <2>2 DEF PassedGood
<1>6. ASSUME NEW t \in Tasks, FallBack(t) \/ GiveUp(t) PROVE FlagInv'
  <2>1. transfer[t] \in {"ok", "error"} /\ ~Accepted(t)
    BY <1>6, LookTransfers DEF FallBack, GiveUp
  <2>2. /\ UNCHANGED source /\ current_mirror' = [current_mirror EXCEPT ![t] = @ + 1]
        /\ current_mirror[t] \in 1 .. Len(source[t].mirrors)
    BY <1>6, MirrorPassed
  <2>3. /\ transfer' \in {[transfer EXCEPT ![t] = "idle"], [transfer EXCEPT ![t] = "running"]}
        /\ interrupted' => interrupted
        /\ FallBack(t) => ~interrupted'
        /\ GiveUp(t) => transfer' = [transfer EXCEPT ![t] = "idle"]
        /\ UNCHANGED <<pc, pending>>
    BY <1>6 DEF FallBack, GiveUp, Begin
  <2>4. FlagRaised'
    BY <1>2, <1>6, <2>3 DEF FlagRaised, TaskTypes
  <2>5. SpoiltByAnother'
    <3>1. \A u \in Tasks : u # t => transfer'[u] = transfer[u] /\ Mirror(u)' = Mirror(u)
      BY <2>2, <2>3 DEF Mirror, TaskTypes, SourceTypes
    <3>2. transfer'[t] # "error"
      BY <2>3 DEF TaskTypes
    <3> QED BY <1>2, <3>1, <3>2 DEF SpoiltByAnother
  <2>6. source[t].hash = "sha256" /\ Mirror(t) = "good" => ByAnother(t)
    <3>1. CASE transfer[t] = "ok"
      BY <2>1, <3>1 DEF Accepted, Received
    <3>2. CASE transfer[t] = "error"
      BY <3>2 DEF SpoiltByAnother
    <3> QED BY <2>1, <3>1, <3>2
  <2>7. ASSUME NEW u \in Tasks, PassedGood(u)' PROVE ByAnother(u)
    <3>1. CASE u # t
      <4>1. PassedGood(u)
        BY <2>2, <2>7, <3>1 DEF PassedGood, SourceTypes
      <4> QED BY <4>1
    <3>2. CASE u = t
      <4>1. PICK k \in DOMAIN source[t].mirrors :
              k < current_mirror[t] + 1 /\ source[t].mirrors[k] = "good"
        BY <2>2, <2>7, <3>2 DEF PassedGood, SourceTypes
      <4>2. k \in Int /\ current_mirror[t] \in Int
        BY <2>2, MirrorDomain
      <4>3. CASE k < current_mirror[t]
        <5>1. PassedGood(t)
          BY <2>2, <2>7, <3>2, <4>1, <4>3 DEF PassedGood
        <5> QED BY <3>2, <5>1
      <4>4. CASE k = current_mirror[t]
        BY <2>2, <2>6, <2>7, <3>2, <4>1, <4>4 DEF PassedGood, Mirror
      <4> QED BY <4>1, <4>2, <4>3, <4>4
    <3> QED BY <3>1, <3>2
  <2> QED BY <1>1, <1>2, <2>4, <2>5, <2>7
<1>7. CASE LoopOn \/ Collect \/ EndProcess \/ Signal \/ UNCHANGED vars
  <2>1. UNCHANGED <<source, current_mirror, interrupted, transfer, pending>> /\ (pc = "returned" => pc' = "returned")
    BY <1>7 DEF LoopOn, Collect, EndProcess, Signal, vars
  <2>2. FlagRaised' /\ SpoiltByAnother'
    BY <1>2, <2>1 DEF FlagRaised, SpoiltByAnother, Mirror
  <2> QED BY <1>1, <1>2, <2>1, <2>2 DEF PassedGood
<1>8. CASE MultiFails \/ FinishOk \/ FinishFailed
  <2>1. UNCHANGED <<source, current_mirror>> /\ pc' = "returned"
        /\ transfer' \in {transfer, [t \in Tasks |-> "idle"]}
    BY <1>8 DEF MultiFails, FinishOk, FinishFailed
  <2>2. FlagRaised' /\ SpoiltByAnother'
    BY <1>2, <2>1 DEF FlagRaised, SpoiltByAnother, Mirror
  <2> QED BY <1>1, <1>2, <2>1, <2>2 DEF PassedGood
<1> QED
  BY <1>3, <1>4, <1>5, <1>6, <1>7, <1>8 DEF Next, Loop, Returned

\* A source that one of its mirrors has is only given up when another source met
\* a redirect.
THEOREM SpoiltOnlyByOthers == Spec => []GivenUpForOthers
<1>1. Init => FlagInv
  BY FlagInit
<1>2. IInv /\ FlagInv /\ [Next]_vars => FlagInv'
  BY FlagStep
<1>3. IInv /\ FlagInv => GivenUpForOthers
  <2> SUFFICES ASSUME IInv, FlagInv, NEW t \in Tasks,
                      current_mirror[t] > Len(source[t].mirrors), source[t].hash = "sha256",
                      NEW k \in DOMAIN source[t].mirrors, source[t].mirrors[k] = "good"
               PROVE  ByAnother(t)
    BY DEF GivenUpForOthers, ByAnother, Redirected
  <2>1. k \in 1 .. Len(source[t].mirrors) /\ Len(source[t].mirrors) \in Nat
    BY MirrorDomain
  <2>2. current_mirror[t] \in Nat
    BY DEF IInv, Types, SourceTypes
  <2>3. PassedGood(t)
    BY <2>1, <2>2 DEF PassedGood
  <2> QED BY <2>3 DEF FlagInv
<1> QED BY <1>1, <1>2, <1>3, DownloadInvariant, PTL DEF Spec
=============================================================================
