-------------------------- MODULE InstallTxnProofs --------------------------
(***************************************************************************)
(* What InstallTxn promises, proved for any files, packages and bounds.    *)
(*                                                                         *)
(* The argument: while the journal is being written nothing has been       *)
(* touched, so what a move records of its file (whether it existed, whether *)
(* it must be kept) is true of `pre'.  Moves are of different files, so    *)
(* until its turn comes a file stays as it was found; and when its turn    *)
(* comes its lines are in the journal.                                     *)
(***************************************************************************)
EXTENDS InstallTxn, TLAPS

\* A line may undo what is in a configuration file only if it was not there, or
\* not the administrator's, when the journal was opened.
Spares(line) ==
  line.file \in Configs /\ pre[line.file] = Admin => line.op = "I" /\ line.new

LinesSpare ==
  /\ \A k \in DOMAIN journal : Spares(journal[k])
  /\ \A k \in DOMAIN undo : Spares(undo[k])
  /\ pc # "undo" => undo = <<>>

\* What is true of a move from its planning to its turn.
Known(m) ==
  /\ m.file \in Files[pkg]
  /\ staged[m.file] = pkg
  /\ m.existed <=> pre[m.file] # Absent
  /\ m.existed /\ ~m.new => HasLine("B", m.file)
  /\ m.file \in Configs /\ pre[m.file] = Admin => m.new

Planning == pc \in {"plan", "plan_line"}
Moving == pc \in {"move", "place", "copy"}

MovesKnown ==
  /\ \A k \in DOMAIN moves : Known(moves[k]) /\ HasLine("I", moves[k].file)
  /\ \A i, j \in DOMAIN moves : moves[i].file = moves[j].file => i = j
  /\ Planning \/ Moving \/ moves = <<>>

PlannedKnown ==
  /\ pc = "plan_line" => Len(planned) = 1 /\ Known(planned[1]) /\ ~InPlan(planned[1].file)
  /\ pc # "plan_line" => planned = <<>>

NothingTouched == Planning => live = pre

Staged ==
  /\ pc = "pre_install" \/ Planning => \A t \in Files[pkg] : staged[t] = pkg
  /\ pc \notin {"idle", "off", "undo"} => pkg \in Pkgs

\* A file whose turn has not come is as it was found; the one whose turn it is
\* has its old content, if any, in the backup.
Untouched(m) == ~m.new => live[m.file] = pre[m.file]

Cleared(m) ==
  ~m.new => live[m.file] \in {Absent, Torn} /\ pre[m.file] \in {Absent, backup[m.file]}

Progress ==
  /\ pc = "move" => \A k \in DOMAIN moves : Untouched(moves[k])
  /\ pc \in {"place", "copy"} =>
       /\ moves # <<>>
       /\ Cleared(moves[1])
       /\ \A k \in DOMAIN moves : k # 1 => Untouched(moves[k])
  /\ Moving => \A t \in Files[pkg] : InPlan(t) \/ pkg \in {live[t], dotnew[t]}

JournalThere == Planning \/ Moving \/ pc = "undo" => journal_exists

\* What is written down, where the process is, and what the runs check.
Records == LinesSpare /\ MovesKnown /\ PlannedKnown
Phases == NothingTouched /\ Staged /\ Progress /\ JournalThere
Safe == WriteAhead /\ OldContentKept /\ InstalledBeforeRegistered

IInv == TypeOK /\ Records /\ Phases /\ Safe

-----------------------------------------------------------------------------
(* Sequences. *)

LEMMA ElementOf ==
  ASSUME NEW S, NEW s \in Seq(S), NEW k \in DOMAIN s
  PROVE  s[k] \in S
  OBVIOUS

\* What is left of a sequence without its first element.
LEMMA TailOf ==
  ASSUME NEW S, NEW s \in Seq(S), s # <<>>
  PROVE  /\ 1 \in DOMAIN s /\ Head(s) = s[1] /\ s[1] \in S
         /\ Tail(s) \in Seq(S)
         /\ \A k \in DOMAIN Tail(s) : k + 1 \in DOMAIN s /\ k + 1 # 1 /\ Tail(s)[k] = s[k + 1]
         /\ \A k \in DOMAIN s : k # 1 => k - 1 \in DOMAIN Tail(s) /\ Tail(s)[k - 1] = s[k]
  OBVIOUS

\* What is in a sequence with one more element.
LEMMA Appended ==
  ASSUME NEW S, NEW s \in Seq(S), NEW e \in S
  PROVE  /\ Append(s, e) \in Seq(S)
         /\ DOMAIN Append(s, e) = DOMAIN s \cup {Len(s) + 1}
         /\ Len(s) + 1 \notin DOMAIN s
         /\ Append(s, e)[Len(s) + 1] = e
         /\ \A k \in DOMAIN s : Append(s, e)[k] = s[k]
  OBVIOUS

-----------------------------------------------------------------------------
(* Every step preserves the invariant. *)

USE DEF IInv, Records, Phases, Safe, fs, db, jnl, prog, counts

LEMMA EmptySeq ==
  ASSUME NEW S
  PROVE  <<>> \in Seq(S)
  OBVIOUS

LEMMA StageStep ==
  ASSUME NEW p \in Pkgs, IInv, Stage(p)
  PROVE  IInv'
<1>1. TypeOK'
  BY DEF Stage, TypeOK, Content, Line, Move
<1>2. Records'
  BY DEF Stage, LinesSpare, Spares, MovesKnown, Known, HasLine, PlannedKnown, InPlan, Planning, Moving
<1>3. Phases'
  BY TxnAssumption DEF Stage, NothingTouched, Staged, Progress, InPlan, JournalThere, Planning, Moving
<1>4. Safe'
  BY DEF Stage, WriteAhead, OldContentKept, Unfinished, HasLine, InstalledBeforeRegistered
<1> QED
  BY <1>1, <1>2, <1>3, <1>4

LEMMA HookFailsStep ==
  ASSUME IInv, HookFails
  PROVE  IInv'
<1>1. TypeOK'
  BY DEF HookFails, GiveUp, CanFail, TypeOK, Content, Line, Move
<1>2. Records'
  BY DEF HookFails, GiveUp, CanFail, LinesSpare, Spares, MovesKnown, Known, HasLine, PlannedKnown, InPlan, Planning, Moving
<1>3. Phases'
  BY DEF HookFails, GiveUp, CanFail, NothingTouched, Staged, Progress, Untouched, Cleared, InPlan, JournalThere, Planning, Moving
<1>4. Safe'
  BY DEF HookFails, GiveUp, CanFail, WriteAhead, OldContentKept, Unfinished, HasLine, InstalledBeforeRegistered
<1> QED
  BY <1>1, <1>2, <1>3, <1>4

LEMMA OpenJournalStep ==
  ASSUME IInv, OpenJournal
  PROVE  IInv'
<1>1. TypeOK'
  BY DEF OpenJournal, TypeOK, Content, Line, Move
<1>2. Records'
  BY DEF OpenJournal, LinesSpare, Spares, MovesKnown, Known, HasLine, PlannedKnown, InPlan, Planning, Moving
<1>3. Phases'
  BY DEF OpenJournal, NothingTouched, Staged, Progress, Untouched, Cleared, InPlan, JournalThere, Planning, Moving
<1>4. Safe'
  BY DEF OpenJournal, WriteAhead, OldContentKept, Unfinished, HasLine, InstalledBeforeRegistered
<1> QED
  BY <1>1, <1>2, <1>3, <1>4

\* A file is planned: what is recorded of it is true, for nothing was touched yet.
LEMMA PlanFileStep ==
  ASSUME NEW t \in Targets, IInv, PlanFile(t)
  PROVE  IInv'
<1>1. CASE Conflict(t)
  <2> USE <1>1
  <2>1. TypeOK'
    <3>1. planned' \in Seq(Move) /\ moves' \in Seq(Move)
      BY DEF PlanFile, GiveUp
    <3> QED
      BY <3>1 DEF PlanFile, GiveUp, TypeOK
  <2>2. Records'
    BY DEF PlanFile, GiveUp, LinesSpare, Spares, MovesKnown, PlannedKnown
  <2>3. Phases'
    BY DEF PlanFile, GiveUp, NothingTouched, Staged, Progress, JournalThere, Planning, Moving
  <2>4. Safe'
    BY DEF PlanFile, GiveUp, WriteAhead, OldContentKept, Unfinished, HasLine, InstalledBeforeRegistered
  <2> QED
    BY <2>1, <2>2, <2>3, <2>4
<1>2. CASE ~Conflict(t)
  <2>0. KeepsConfig(t) \in BOOLEAN
    BY DEF KeepsConfig
  <2> PICK m : m = [file |-> t, new |-> KeepsConfig(t), existed |-> live[t] # Absent]
    OBVIOUS
  <2> PICK line : line = [op |-> "B", file |-> t, new |-> FALSE]
    OBVIOUS
  <2>1. /\ planned' = <<m>>
        /\ pc' = "plan_line" /\ pc = "plan"
        /\ t \in Files[pkg] /\ ~InPlan(t)
        /\ live[t] = pre[t] /\ staged[t] = pkg /\ pkg \in Pkgs
        /\ UNCHANGED <<fs, db, journal_exists, undo, pre, counts, pkg, moves>>
    BY <1>2 DEF PlanFile, Plan, NothingTouched, Staged, Planning
  <2>3. m \in Move /\ line \in Line
    BY <2>0 DEF Move, Line
  <2>4. t \in Configs /\ pre[t] = Admin => KeepsConfig(t)
    BY <2>1, TxnAssumption DEF KeepsConfig, TypeOK
  <2>5. \/ /\ journal' = Append(journal, line)
           /\ live[t] # Absent /\ ~KeepsConfig(t)
        \/ /\ journal' = journal
           /\ live[t] = Absent \/ KeepsConfig(t)
    <3>1. journal \o <<>> = journal /\ journal \o <<line>> = Append(journal, line)
      BY <2>3 DEF TypeOK
    <3> QED
      BY <1>2, <3>1 DEF PlanFile, BackupLine
  <2>6. m.file = t /\ m.new = KeepsConfig(t) /\ m.existed = (live[t] # Absent) /\ line.op = "B" /\ line.file = t
    OBVIOUS
  <2>7. TypeOK'
    <3>1. journal' \in Seq(Line) /\ planned' \in Seq(Move)
      <4>1. journal \in Seq(Line)
        BY DEF TypeOK
      <4>2. journal' \in Seq(Line)
        BY <4>1, <2>3, <2>5, Appended
      <4> QED
        BY <4>2, <2>1, <2>3
    <3> QED
      BY <2>1, <3>1 DEF TypeOK
  <2>8. \A op, x : HasLine(op, x) => HasLine(op, x)'
    BY SMTT(60), <2>3, <2>5, Appended DEF HasLine, TypeOK
  <2>9. Known(m)'
    <3>1. live[t] # Absent /\ ~KeepsConfig(t) => HasLine("B", t)'
      <4> SUFFICES ASSUME live[t] # Absent, ~KeepsConfig(t)
                   PROVE  HasLine("B", t)'
        OBVIOUS
      <4>1. Len(journal) + 1 \in DOMAIN journal' /\ journal'[Len(journal) + 1] = line
        BY <2>3, <2>5, Appended DEF TypeOK
      <4> QED
        BY <4>1, <2>6 DEF HasLine
    <3> QED
      BY <2>1, <2>4, <2>6, <3>1 DEF Known
  <2>10. Records'
    <3>1. LinesSpare'
      <4>1. Spares(line) \/ KeepsConfig(t)
        BY <2>4, <2>6 DEF Spares
      <4>2. \A k \in DOMAIN journal : Spares(journal[k])
        BY DEF LinesSpare
      <4>3. pre' = pre /\ undo' = undo /\ (undo # <<>> => pc = "undo")
        BY <2>1 DEF LinesSpare
      <4>4. \A k \in DOMAIN journal' : Spares(journal'[k])
        <5>1. CASE journal' = journal
          BY <5>1, <4>2
        <5>2. CASE journal' = Append(journal, line) /\ ~KeepsConfig(t)
          <6> SUFFICES ASSUME NEW k \in DOMAIN journal'
                       PROVE  Spares(journal'[k])
            OBVIOUS
          <6>1. journal \in Seq(Line) /\ journal' = Append(journal, line)
            BY <5>2 DEF TypeOK
          <6>2. CASE k \in DOMAIN journal
            <7>1. journal'[k] = journal[k]
              BY <6>1, <6>2, <2>3, Appended
            <7> QED
              BY <7>1, <6>2, <4>2
          <6>3. CASE k = Len(journal) + 1
            <7>1. journal'[k] = line
              BY <6>1, <6>3, <2>3, Appended
            <7> QED
              BY <7>1, <5>2, <4>1
          <6> QED
            BY <6>1, <6>2, <6>3, <2>3, Appended
        <5> QED
          BY <5>1, <5>2, <2>5
      <4> QED
        BY <4>3, <4>4, <2>1 DEF LinesSpare, Spares
    <3>2. MovesKnown'
      BY <2>1, <2>8 DEF MovesKnown, Known, Planning
    <3>3. PlannedKnown'
      <4>1. Len(planned') = 1 /\ planned'[1] = m
        BY <2>1
      <4> QED
        BY <4>1, <2>1, <2>6, <2>9 DEF PlannedKnown, InPlan
    <3> QED
      BY <3>1, <3>2, <3>3
  <2>11. Phases'
    BY <2>1 DEF NothingTouched, Staged, Progress, JournalThere, Planning, Moving
  <2>12. Safe'
    BY <2>1, <2>8 DEF WriteAhead, OldContentKept, Unfinished, InstalledBeforeRegistered
  <2> QED
    BY <2>7, <2>10, <2>11, <2>12
<1> QED
  BY <1>1, <1>2

\* The line of a file that was planned is written.
LEMMA PlanLineStep ==
  ASSUME IInv, PlanLine
  PROVE  IInv'
<1>0. planned # <<>> /\ Head(planned) = planned[1] /\ planned[1] \in Move
  <2>1. planned \in Seq(Move) /\ Len(planned) = 1
    BY DEF PlanLine, PlannedKnown, TypeOK
  <2>2. planned # <<>>
    BY <2>1
  <2> QED
    BY <2>1, <2>2, TailOf
<1> PICK m \in Move : m = planned[1]
  BY <1>0
<1> DEFINE line == [op |-> "I", file |-> m.file, new |-> m.new]
<1>1. /\ Known(m) /\ ~InPlan(m.file)
      /\ line \in Line /\ Spares(line)
  BY DEF PlanLine, PlannedKnown, Known, Spares, Line, Move
<1>2. journal' = Append(journal, line) /\ moves' = Append(moves, m) /\ planned' = <<>>
  BY <1>0 DEF PlanLine
<1>3a. line.op = "I" /\ line.file = m.file
  OBVIOUS
<1> HIDE DEF line
<1>3. TypeOK'
  <2>1. journal' \in Seq(Line) /\ moves' \in Seq(Move) /\ planned' \in Seq(Move)
    BY <1>1, <1>2, Appended DEF TypeOK
  <2> QED
    BY <2>1 DEF PlanLine, TypeOK
<1>4. \A op, t : HasLine(op, t) => HasLine(op, t)'
  BY <1>1, <1>2, Appended DEF HasLine, TypeOK
<1>5. HasLine("I", m.file)'
  <2>2. Len(journal) + 1 \in DOMAIN journal' /\ journal'[Len(journal) + 1] = line
    BY <1>1, <1>2, Appended DEF TypeOK
  <2> QED
    BY <2>2, <1>3a DEF HasLine
<1>6. \A x : Known(x) => Known(x)'
  BY <1>4 DEF Known, PlanLine
<1>7. Records'
  <2>1. LinesSpare'
    BY <1>1, <1>2, Appended DEF LinesSpare, Spares, TypeOK, PlanLine
  <2>2. (\A k \in DOMAIN moves : Known(moves[k]) /\ HasLine("I", moves[k].file))'
    <3> SUFFICES ASSUME NEW k \in DOMAIN moves'
                 PROVE  Known(moves[k])' /\ HasLine("I", moves[k].file)'
      OBVIOUS
    <3>1. CASE k \in DOMAIN moves
      <4>1. moves'[k] = moves[k]
        BY <3>1, <1>2, Appended DEF TypeOK
      <4> QED
        BY <3>1, <4>1, <1>4, <1>6 DEF MovesKnown
    <3>2. CASE k = Len(moves) + 1
      <4>1. moves'[k] = m
        BY <3>2, <1>2, Appended DEF TypeOK
      <4> QED
        BY <4>1, <1>1, <1>5, <1>6
    <3> QED
      BY <3>1, <3>2, <1>2, Appended DEF TypeOK
  <2>3. (\A i, j \in DOMAIN moves : moves[i].file = moves[j].file => i = j)'
    BY SMTT(60), <1>1, <1>2, Appended DEF MovesKnown, InPlan, TypeOK
  <2>4. PlannedKnown'
    BY <1>2 DEF PlannedKnown, PlanLine
  <2> QED
    BY <2>1, <2>2, <2>3, <2>4 DEF MovesKnown, Planning, PlanLine
<1>8. Phases'
  BY DEF PlanLine, NothingTouched, Staged, Progress, JournalThere, Planning, Moving
<1>9. Safe'
  BY DEF PlanLine, WriteAhead, OldContentKept, Unfinished, InstalledBeforeRegistered, NothingTouched, Planning
<1> QED
  BY <1>3, <1>7, <1>8, <1>9

LEMMA JournalFailsStep ==
  ASSUME IInv, JournalFails
  PROVE  IInv'
<1>1. TypeOK'
  BY DEF JournalFails, GiveUp, CanFail, TypeOK, Content, Line, Move
<1>2. Records'
  BY DEF JournalFails, GiveUp, CanFail, LinesSpare, Spares, MovesKnown, Known, HasLine, PlannedKnown, InPlan, Planning, Moving
<1>3. Phases'
  BY DEF JournalFails, GiveUp, CanFail, NothingTouched, Staged, Progress, Untouched, Cleared, InPlan, JournalThere, Planning, Moving
<1>4. Safe'
  BY DEF JournalFails, GiveUp, CanFail, WriteAhead, OldContentKept, Unfinished, HasLine, InstalledBeforeRegistered
<1> QED
  BY <1>1, <1>2, <1>3, <1>4

LEMMA SyncJournalStep ==
  ASSUME IInv, SyncJournal
  PROVE  IInv'
<1>1. TypeOK'
  BY DEF SyncJournal, TypeOK, Content, Line, Move
<1>2. Records'
  BY DEF SyncJournal, LinesSpare, Spares, MovesKnown, Known, HasLine, PlannedKnown, InPlan, Planning, Moving
<1>3. Phases'
  BY DEF SyncJournal, NothingTouched, Staged, Progress, Untouched, Cleared, InPlan, JournalThere, Planning, Moving
<1>4. Safe'
  BY DEF SyncJournal, WriteAhead, OldContentKept, Unfinished, HasLine, InstalledBeforeRegistered
<1> QED
  BY <1>1, <1>2, <1>3, <1>4

LEMMA DestinationSet ==
  ASSUME TypeOK, NEW m \in Move, NEW content \in Content, SetDestination(m, content)
  PROVE  /\ live' \in [Targets -> Content] /\ dotnew' \in [Targets -> Content]
         /\ \A t \in Targets : t # m.file => live'[t] = live[t] /\ dotnew'[t] = dotnew[t]
         /\ m.new => live' = live /\ dotnew'[m.file] = content
         /\ ~m.new => live'[m.file] = content /\ dotnew' = dotnew
  BY DEF TypeOK, SetDestination, Move

\* What the invariant says of the move whose turn it is.
LEMMA NextMove ==
  ASSUME IInv, moves # <<>>
  PROVE  /\ Head(moves) = moves[1] /\ moves[1] \in Move /\ 1 \in DOMAIN moves
         /\ Known(moves[1]) /\ HasLine("I", moves[1].file)
         /\ \A k \in DOMAIN moves : moves[k].file \in Targets
         /\ \A k \in DOMAIN moves : k # 1 => moves[k].file # moves[1].file
<1>1. moves \in Seq(Move)
  BY DEF TypeOK
<1>2. \A k \in DOMAIN moves : moves[k] \in Move
  BY <1>1, ElementOf
<1>4. \A k \in DOMAIN moves : moves[k].file \in Targets
  BY <1>2 DEF Move
<1>3. Head(moves) = moves[1] /\ 1 \in DOMAIN moves
  BY <1>1, TailOf
<1> QED
  BY <1>2, <1>3, <1>4 DEF MovesKnown

LEMMA MakeRoomStep ==
  ASSUME IInv, MakeRoom
  PROVE  IInv'
<1> PICK m \in Move : m = moves[1]
  BY NextMove DEF MakeRoom
<1>1. /\ Head(moves) = m /\ Known(m) /\ HasLine("I", m.file) /\ Untouched(m) /\ m.file \in Targets
      /\ \A k \in DOMAIN moves : k # 1 => moves[k].file # m.file
  BY NextMove DEF MakeRoom, Progress, Move
<1>2. /\ live' \in [Targets -> Content] /\ dotnew' \in [Targets -> Content]
      /\ backup' \in [Targets -> Content]
      /\ \A t \in Targets : t # m.file => live'[t] = live[t] /\ dotnew'[t] = dotnew[t] /\ backup'[t] = backup[t]
      /\ m.new => live' = live /\ backup' = backup
      /\ ~m.new => live'[m.file] = Absent /\ pre[m.file] \in {Absent, backup'[m.file]}
  <2>1. CASE m.existed /\ ~m.new
    <3>1. /\ backup' = [backup EXCEPT ![m.file] = live[m.file]]
          /\ live' = [live EXCEPT ![m.file] = Absent]
          /\ dotnew' = dotnew
      BY <1>1, <2>1 DEF MakeRoom, ClearDestination
    <3>2. live[m.file] = pre[m.file]
      BY <1>1, <2>1 DEF Untouched
    <3> QED
      BY <1>1, <2>1, <3>1, <3>2 DEF TypeOK, Content
  <2>2. CASE ~(m.existed /\ ~m.new)
    <3>1. Absent \in Content /\ SetDestination(m, Absent) /\ backup' = backup
      BY <1>1, <2>2 DEF MakeRoom, ClearDestination, Content
    <3>2. ~m.new => pre[m.file] = Absent
      BY <1>1, <2>2 DEF Known
    <3> QED
      BY <3>1, <3>2, DestinationSet DEF TypeOK
  <2> QED
    BY <2>1, <2>2
<1>3. UNCHANGED <<staged, db, jnl, prog, pre, counts>> /\ pc = "move" /\ pc' = "place" /\ moves # <<>>
  BY DEF MakeRoom
<1>4. TypeOK'
  BY <1>2, <1>3 DEF TypeOK
<1>5. Records'
  BY <1>3 DEF LinesSpare, Spares, MovesKnown, Known, HasLine, PlannedKnown, Planning, Moving
<1>6. Phases'
  <2>1. Cleared(moves[1])'
    BY <1>2, <1>3 DEF Cleared
  <2>2. (\A k \in DOMAIN moves : k # 1 => Untouched(moves[k]))'
    BY <1>1, <1>2, <1>3, NextMove DEF Progress, Untouched
  <2>3. (\A t \in Files[pkg] : InPlan(t) \/ pkg \in {live[t], dotnew[t]})'
    BY <1>1, <1>2, <1>3, NextMove, TxnAssumption DEF Progress, InPlan, Moving, Staged
  <2> QED
    BY <1>3, <2>1, <2>2, <2>3 DEF NothingTouched, Staged, Progress, JournalThere, Planning, Moving
<1>7. Safe'
  <2>1. WriteAhead'
    BY <1>1, <1>2, <1>3 DEF WriteAhead, Unfinished, HasLine, Known
  <2>2. OldContentKept'
    BY <1>1, <1>2, <1>3 DEF OldContentKept, Unfinished
  <2> QED
    BY <1>3, <2>1, <2>2 DEF InstalledBeforeRegistered
<1> QED
  BY <1>4, <1>5, <1>6, <1>7

\* The staged file is in its place, by a rename or at the end of a copy.
LEMMA PlacedStep ==
  ASSUME IInv, pc \in {"place", "copy"}, Placed(Head(moves)),
         UNCHANGED <<backup, db, jnl, pkg, planned, undo, pre, counts>>
  PROVE  IInv'
<1>1. moves # <<>> /\ moves \in Seq(Move)
  BY DEF Progress, TypeOK
<1> PICK m \in Move : m = moves[1]
  BY <1>1, NextMove
<1>2. /\ Head(moves) = m /\ Known(m) /\ HasLine("I", m.file) /\ Cleared(m) /\ m.file \in Targets
      /\ \A k \in DOMAIN moves : k # 1 => moves[k].file # m.file
      /\ staged[m.file] = pkg /\ pkg \in Pkgs
  BY <1>1, NextMove DEF Progress, Move, Known, Staged
<1>3. pc' = "move" /\ moves' = Tail(moves) /\ staged' = [staged EXCEPT ![m.file] = Absent]
  BY <1>2 DEF Placed
<1>4. /\ live' \in [Targets -> Content] /\ dotnew' \in [Targets -> Content]
      /\ \A t \in Targets : t # m.file => live'[t] = live[t] /\ dotnew'[t] = dotnew[t]
      /\ m.new => live' = live /\ dotnew'[m.file] = pkg
      /\ ~m.new => live'[m.file] = pkg
  <2>1. pkg \in Content /\ SetDestination(m, pkg)
    BY <1>2 DEF Placed, Content
  <2> QED
    BY <2>1, DestinationSet
<1>5. /\ moves' \in Seq(Move)
      /\ \A k \in DOMAIN moves' : k + 1 \in DOMAIN moves /\ k + 1 # 1 /\ moves'[k] = moves[k + 1]
      /\ \A k \in DOMAIN moves : k # 1 => k - 1 \in DOMAIN moves' /\ moves'[k - 1] = moves[k]
  BY <1>1, <1>3, TailOf
<1>6. TypeOK'
  <2>1. staged' \in [Targets -> Content]
    BY <1>3 DEF TypeOK, Content
  <2> QED
    BY <1>3, <1>4, <1>5, <2>1 DEF TypeOK
<1>7. Records'
  <2>1. LinesSpare' /\ PlannedKnown'
    BY <1>3 DEF LinesSpare, Spares, PlannedKnown
  <2>2. (\A k \in DOMAIN moves : Known(moves[k]) /\ HasLine("I", moves[k].file))'
    <3> SUFFICES ASSUME NEW k \in DOMAIN moves'
                 PROVE  Known(moves[k])' /\ HasLine("I", moves[k].file)'
      OBVIOUS
    <3>1. /\ moves'[k] = moves[k + 1]
          /\ Known(moves[k + 1]) /\ HasLine("I", moves[k + 1].file)
          /\ moves[k + 1].file # m.file /\ moves[k + 1].file \in Targets
      BY <1>1, <1>2, <1>5, NextMove DEF MovesKnown
    <3> QED
      BY <3>1, <1>3 DEF Known, HasLine, TypeOK
  <2>3. (\A i, j \in DOMAIN moves : moves[i].file = moves[j].file => i = j)'
    <3> SUFFICES ASSUME NEW i \in DOMAIN moves', NEW j \in DOMAIN moves', moves'[i].file = moves'[j].file
                 PROVE  i = j
      OBVIOUS
    <3>1. i + 1 = j + 1
      BY <1>5 DEF MovesKnown
    <3> QED
      BY <3>1, <1>5
  <2> QED
    BY <1>3, <2>1, <2>2, <2>3 DEF MovesKnown, Planning, Moving
<1>8. Phases'
  <2>1. (\A k \in DOMAIN moves : Untouched(moves[k]))'
    <3> SUFFICES ASSUME NEW k \in DOMAIN moves'
                 PROVE  Untouched(moves[k])'
      OBVIOUS
    <3>1. /\ moves'[k] = moves[k + 1] /\ Untouched(moves[k + 1])
          /\ moves[k + 1].file # m.file /\ moves[k + 1].file \in Targets
      BY <1>1, <1>2, <1>5, NextMove DEF Progress
    <3> QED
      BY <3>1, <1>4 DEF Untouched
  <2>2. (\A t \in Files[pkg] : InPlan(t) \/ pkg \in {live[t], dotnew[t]})'
    <3> SUFFICES ASSUME NEW t \in Files[pkg], ~InPlan(t)', t # m.file
                 PROVE  pkg \in {live'[t], dotnew'[t]}
      BY <1>4
    <3>1. t \in Targets /\ ~InPlan(t)
      BY <1>2, <1>5, TxnAssumption DEF InPlan
    <3> QED
      BY <3>1, <1>4 DEF Progress, Moving
  <2> QED
    BY <1>3, <2>1, <2>2 DEF NothingTouched, Staged, Progress, JournalThere, Planning, Moving
<1>9. Safe'
  <2>1. WriteAhead'
    BY <1>2, <1>3, <1>4 DEF WriteAhead, Unfinished, HasLine, Known
  <2>2. OldContentKept'
    BY <1>2, <1>3, <1>4 DEF OldContentKept, Unfinished, Cleared
  <2> QED
    BY <1>3, <2>1, <2>2 DEF InstalledBeforeRegistered
<1> QED
  BY <1>6, <1>7, <1>8, <1>9

LEMMA PlaceStep ==
  ASSUME IInv, Place
  PROVE  IInv'
BY PlacedStep DEF Place

LEMMA StartCopyStep ==
  ASSUME IInv, StartCopy
  PROVE  IInv'
<1>1. pc = "place" /\ pc' = "copy" /\ moves # <<>> /\ UNCHANGED <<backup, staged, db, jnl, prog, pre, counts>>
  BY DEF StartCopy, Progress
<1> PICK m \in Move : m = moves[1]
  BY <1>1, NextMove
<1>2. /\ Head(moves) = m /\ Known(m) /\ HasLine("I", m.file) /\ Cleared(m) /\ m.file \in Targets
      /\ \A k \in DOMAIN moves : k # 1 => moves[k].file # m.file
  BY <1>1, NextMove DEF Progress, Move
<1>3. /\ live' \in [Targets -> Content] /\ dotnew' \in [Targets -> Content]
      /\ \A t \in Targets : t # m.file => live'[t] = live[t] /\ dotnew'[t] = dotnew[t]
      /\ m.new => live' = live
      /\ ~m.new => live'[m.file] = Torn
  <2>1. Torn \in Content /\ SetDestination(m, Torn)
    BY <1>2 DEF StartCopy, Content
  <2> QED
    BY <2>1, DestinationSet
<1>4. TypeOK'
  BY <1>1, <1>3 DEF TypeOK
<1>5. Records'
  BY <1>1 DEF LinesSpare, Spares, MovesKnown, Known, HasLine, PlannedKnown, Planning, Moving
<1>6. Phases'
  <2>1. Cleared(moves[1])'
    BY <1>1, <1>2, <1>3 DEF Cleared
  <2>2. (\A k \in DOMAIN moves : k # 1 => Untouched(moves[k]))'
    BY <1>1, <1>2, <1>3, NextMove DEF Progress, Untouched
  <2>3. (\A t \in Files[pkg] : InPlan(t) \/ pkg \in {live[t], dotnew[t]})'
    BY <1>1, <1>2, <1>3, NextMove, TxnAssumption DEF Progress, InPlan, Moving, Staged
  <2> QED
    BY <1>1, <2>1, <2>2, <2>3 DEF NothingTouched, Staged, Progress, JournalThere, Planning, Moving
<1>7. Safe'
  <2>1. WriteAhead'
    BY <1>1, <1>2, <1>3 DEF WriteAhead, Unfinished, HasLine, Known
  <2>2. OldContentKept'
    BY <1>1, <1>2, <1>3 DEF OldContentKept, Unfinished, Cleared
  <2> QED
    BY <1>1, <2>1, <2>2 DEF InstalledBeforeRegistered
<1> QED
  BY <1>4, <1>5, <1>6, <1>7

LEMMA EndCopyStep ==
  ASSUME IInv, EndCopy
  PROVE  IInv'
BY PlacedStep DEF EndCopy

LEMMA CopyFailsStep ==
  ASSUME IInv, CopyFails
  PROVE  IInv'
<1>1. TypeOK'
  BY DEF CopyFails, GiveUp, CanFail, TypeOK, Content, Line, Move
<1>2. Records'
  BY DEF CopyFails, GiveUp, CanFail, LinesSpare, Spares, MovesKnown, Known, HasLine, PlannedKnown, InPlan, Planning, Moving
<1>3. Phases'
  BY DEF CopyFails, GiveUp, CanFail, NothingTouched, Staged, Progress, Untouched, Cleared, InPlan, JournalThere, Planning, Moving
<1>4. Safe'
  BY DEF CopyFails, GiveUp, CanFail, WriteAhead, OldContentKept, Unfinished, HasLine, InstalledBeforeRegistered
<1> QED
  BY <1>1, <1>2, <1>3, <1>4

\* The transaction is given up with the next file in its place or not there at all.
LEMMA PlaceFailsStep ==
  ASSUME IInv, PlaceFails
  PROVE  IInv'
<1>1. /\ pc = "place" /\ moves # <<>>
      /\ pc' = "idle" /\ pkg' = NoPkg /\ moves' = <<>> /\ planned' = <<>>
      /\ UNCHANGED <<backup, db, jnl, undo, pre, txns, crashes, edits>> /\ errors' \in Nat
  BY DEF PlaceFails, GiveUp, CanFail, Progress, TypeOK
<1> PICK m \in Move : m = moves[1]
  BY <1>1, NextMove
<1>2. Head(moves) = m /\ Known(m) /\ HasLine("I", m.file) /\ Cleared(m) /\ m.file \in Targets
  BY <1>1, NextMove DEF Progress, Move
<1>3. /\ live' \in [Targets -> Content] /\ dotnew' \in [Targets -> Content]
      /\ staged' \in [Targets -> Content]
      /\ \A t \in Targets : t # m.file => live'[t] = live[t]
      /\ m.new => live' = live
  <2>1. CASE UNCHANGED <<live, dotnew, staged>>
    BY <2>1 DEF TypeOK
  <2>2. CASE /\ SetDestination(m, staged[m.file])
             /\ staged' = [staged EXCEPT ![m.file] = Absent]
    <3>1. staged[m.file] \in Content /\ staged' \in [Targets -> Content]
      BY <1>2, <2>2 DEF TypeOK, Content
    <3> QED
      BY <2>2, <3>1, DestinationSet
  <2> QED
    BY <1>2, <2>1, <2>2 DEF PlaceFails
<1>4. TypeOK'
  BY <1>1, <1>3 DEF TypeOK
<1>5. Records'
  BY <1>1 DEF LinesSpare, Spares, MovesKnown, Known, HasLine, PlannedKnown, InPlan, Planning, Moving
<1>6. Phases'
  BY <1>1 DEF NothingTouched, Staged, Progress, Untouched, Cleared, InPlan, JournalThere, Planning, Moving
<1>7. Safe'
  <2>1. WriteAhead'
    BY <1>1, <1>2, <1>3 DEF WriteAhead, Unfinished, HasLine, Known
  <2>2. OldContentKept'
    BY <1>1, <1>2, <1>3 DEF OldContentKept, Unfinished, Cleared
  <2> QED
    BY <1>1, <2>1, <2>2 DEF InstalledBeforeRegistered
<1> QED
  BY <1>4, <1>5, <1>6, <1>7

LEMMA RemoveJournalStep ==
  ASSUME IInv, RemoveJournal
  PROVE  IInv'
<1>1. TypeOK'
  <2>1. journal' \in Seq(Line)
    BY EmptySeq DEF RemoveJournal
  <2> QED
    BY <2>1 DEF RemoveJournal, TypeOK
<1>2. Records'
  BY DEF RemoveJournal, LinesSpare, Spares, MovesKnown, Known, HasLine, PlannedKnown, InPlan, Planning, Moving
<1>3. Phases'
  BY DEF RemoveJournal, NothingTouched, Staged, Progress, Untouched, Cleared, InPlan, JournalThere, Planning, Moving
<1>4. Safe'
  BY TxnAssumption DEF RemoveJournal, TypeOK, Progress, InPlan, Moving, WriteAhead, OldContentKept, Unfinished, InstalledBeforeRegistered
<1> QED
  BY <1>1, <1>2, <1>3, <1>4

LEMMA PostInstallStep ==
  ASSUME IInv, PostInstall
  PROVE  IInv'
<1>1. TypeOK'
  BY DEF PostInstall, TypeOK, Content, Line, Move
<1>2. Records'
  BY DEF PostInstall, LinesSpare, Spares, MovesKnown, Known, HasLine, PlannedKnown, InPlan, Planning, Moving
<1>3. Phases'
  BY DEF PostInstall, NothingTouched, Staged, Progress, Untouched, Cleared, InPlan, JournalThere, Planning, Moving
<1>4. Safe'
  BY DEF PostInstall, WriteAhead, OldContentKept, Unfinished, HasLine, InstalledBeforeRegistered
<1> QED
  BY <1>1, <1>2, <1>3, <1>4

LEMMA RegisterStep ==
  ASSUME IInv, Register
  PROVE  IInv'
<1>1. TypeOK'
  <2>1. pkg \in Pkgs /\ local_packages' \subseteq Pkgs
    BY DEF Register, Staged, TypeOK
  <2>2. files' \in [Targets -> Pkgs \cup {NoPkg}]
    BY <2>1 DEF Register, Recorded, TypeOK
  <2>3. staged' \in [Targets -> Content]
    BY DEF Register, Content
  <2> QED
    BY <2>1, <2>2, <2>3 DEF Register, TypeOK
<1>2. Records'
  BY DEF Register, Recorded, LinesSpare, Spares, MovesKnown, Known, HasLine, PlannedKnown, InPlan, Planning, Moving
<1>3. Phases'
  BY DEF Register, Recorded, NothingTouched, Staged, Progress, Untouched, Cleared, InPlan, JournalThere, Planning, Moving
<1>4. Safe'
  BY DEF Register, Recorded, WriteAhead, OldContentKept, Unfinished, HasLine, InstalledBeforeRegistered
<1> QED
  BY <1>1, <1>2, <1>3, <1>4

LEMMA RegisterFailsStep ==
  ASSUME IInv, RegisterFails
  PROVE  IInv'
<1>1. TypeOK'
  BY DEF RegisterFails, GiveUp, CanFail, TypeOK, Content, Line, Move
<1>2. Records'
  BY DEF RegisterFails, GiveUp, CanFail, LinesSpare, Spares, MovesKnown, Known, HasLine, PlannedKnown, InPlan, Planning, Moving
<1>3. Phases'
  BY DEF RegisterFails, GiveUp, CanFail, NothingTouched, Staged, Progress, Untouched, Cleared, InPlan, JournalThere, Planning, Moving
<1>4. Safe'
  BY DEF RegisterFails, GiveUp, CanFail, WriteAhead, OldContentKept, Unfinished, HasLine, InstalledBeforeRegistered
<1> QED
  BY <1>1, <1>2, <1>3, <1>4

LEMMA ExitStep ==
  ASSUME IInv, Exit
  PROVE  IInv'
<1>1. TypeOK'
  <2>1. planned' \in Seq(Move) /\ moves' \in Seq(Move) /\ undo' \in Seq(Line)
    BY DEF Exit, Stop
  <2> QED
    BY <2>1 DEF Exit, Stop, TypeOK
<1>2. Records'
  BY DEF Exit, Stop, LinesSpare, Spares, MovesKnown, Known, HasLine, PlannedKnown, InPlan, Planning, Moving
<1>3. Phases'
  BY DEF Exit, Stop, NothingTouched, Staged, Progress, Untouched, Cleared, InPlan, JournalThere, Planning, Moving
<1>4. Safe'
  BY DEF Exit, Stop, WriteAhead, OldContentKept, Unfinished, HasLine, InstalledBeforeRegistered
<1> QED
  BY <1>1, <1>2, <1>3, <1>4

LEMMA CrashStep ==
  ASSUME IInv, Crash
  PROVE  IInv'
<1>1. TypeOK'
  <2>1. planned' \in Seq(Move) /\ moves' \in Seq(Move) /\ undo' \in Seq(Line)
    BY DEF Crash, Stop
  <2>2. crashes' \in Nat
    BY DEF Crash, TypeOK
  <2> QED
    BY <2>1, <2>2 DEF Crash, Stop, TypeOK
<1>2. Records'
  BY DEF Crash, Stop, LinesSpare, Spares, MovesKnown, Known, HasLine, PlannedKnown, InPlan, Planning, Moving
<1>3. Phases'
  BY DEF Crash, Stop, NothingTouched, Staged, Progress, Untouched, Cleared, InPlan, JournalThere, Planning, Moving
<1>4. Safe'
  BY DEF Crash, Stop, WriteAhead, OldContentKept, Unfinished, HasLine, InstalledBeforeRegistered
<1> QED
  BY <1>1, <1>2, <1>3, <1>4

LEMMA StartStep ==
  ASSUME IInv, Start
  PROVE  IInv'
<1>1. TypeOK'
  BY DEF Start, TypeOK, Content, Line, Move
<1>2. Records'
  BY DEF Start, LinesSpare, Spares, MovesKnown, Known, HasLine, PlannedKnown, InPlan, Planning, Moving
<1>3. Phases'
  BY DEF Start, NothingTouched, Staged, Progress, Untouched, Cleared, InPlan, JournalThere, Planning, Moving
<1>4. Safe'
  BY DEF Start, WriteAhead, OldContentKept, Unfinished, HasLine, InstalledBeforeRegistered
<1> QED
  BY <1>1, <1>2, <1>3, <1>4

LEMMA UndoStep ==
  ASSUME IInv, Undo
  PROVE  IInv'
<1>1. TypeOK'
  <2>1. undo' \in Seq(Line)
    BY DEF Undo, TypeOK
  <2>2. live' \in [Targets -> Content] /\ backup' \in [Targets -> Content] /\ dotnew' \in [Targets -> Content]
    BY DEF Undo, UndoInstall, UndoBackup, SetDestination, TypeOK, Content, Line
  <2> QED
    BY <2>1, <2>2 DEF Undo, TypeOK
<1>2. Records'
  BY DEF Undo, UndoInstall, UndoBackup, SetDestination, LinesSpare, Spares, MovesKnown, Known, HasLine, PlannedKnown, InPlan, Planning, Moving
<1>3. Phases'
  BY DEF Undo, UndoInstall, UndoBackup, SetDestination, NothingTouched, Staged, Progress, Untouched, Cleared, InPlan, JournalThere, Planning, Moving
<1>4. Safe'
  BY DEF Undo, UndoInstall, UndoBackup, SetDestination, WriteAhead, OldContentKept, Unfinished, HasLine, InstalledBeforeRegistered
<1> QED
  BY <1>1, <1>2, <1>3, <1>4

LEMMA EndRollbackStep ==
  ASSUME IInv, EndRollback
  PROVE  IInv'
<1>1. TypeOK'
  BY DEF EndRollback, TypeOK, Content, Line, Move
<1>2. Records'
  BY DEF EndRollback, LinesSpare, Spares, MovesKnown, Known, HasLine, PlannedKnown, InPlan, Planning, Moving
<1>3. Phases'
  BY DEF EndRollback, NothingTouched, Staged, Progress, Untouched, Cleared, InPlan, JournalThere, Planning, Moving
<1>4. Safe'
  BY DEF EndRollback, WriteAhead, OldContentKept, Unfinished, HasLine, InstalledBeforeRegistered
<1> QED
  BY <1>1, <1>2, <1>3, <1>4

LEMMA AdminEditStep ==
  ASSUME NEW t \in Targets, IInv, AdminEdit(t)
  PROVE  IInv'
<1>1. TypeOK'
  BY DEF AdminEdit, TypeOK, Content, Line, Move
<1>2. Records'
  BY DEF AdminEdit, LinesSpare, Spares, MovesKnown, Known, HasLine, PlannedKnown, InPlan, Planning, Moving
<1>3. Phases'
  BY DEF AdminEdit, NothingTouched, Staged, Progress, Untouched, Cleared, InPlan, JournalThere, Planning, Moving
<1>4. Safe'
  BY DEF AdminEdit, WriteAhead, OldContentKept, Unfinished, HasLine, InstalledBeforeRegistered
<1> QED
  BY <1>1, <1>2, <1>3, <1>4

LEMMA InitIInv == Init => IInv
<1> SUFFICES ASSUME Init PROVE IInv
  OBVIOUS
<1>1. TypeOK
  BY EmptySeq, TxnAssumption DEF Init, TypeOK, Content
<1>2. Records
  BY DEF Init, LinesSpare, MovesKnown, PlannedKnown
<1>3. Phases
  BY DEF Init, NothingTouched, Staged, Progress, JournalThere, Planning, Moving
<1>4. Safe
  BY DEF Init, WriteAhead, OldContentKept, Unfinished, InstalledBeforeRegistered
<1> QED
  BY <1>1, <1>2, <1>3, <1>4

LEMMA StutterIInv == IInv /\ UNCHANGED vars => IInv'
<1> SUFFICES ASSUME IInv, UNCHANGED vars PROVE IInv'
  OBVIOUS
<1> USE DEF vars
<1>1. TypeOK'
  BY DEF TypeOK
<1>2. Records'
  BY DEF LinesSpare, Spares, MovesKnown, Known, HasLine, PlannedKnown, InPlan, Planning, Moving
<1>3. Phases'
  BY DEF NothingTouched, Staged, Progress, Untouched, Cleared, InPlan, JournalThere, Planning, Moving
<1>4. Safe'
  BY DEF WriteAhead, OldContentKept, Unfinished, HasLine, InstalledBeforeRegistered
<1> QED
  BY <1>1, <1>2, <1>3, <1>4

LEMMA NextIInv == IInv /\ [Next]_vars => IInv'
<1> HIDE DEF IInv
<1> SUFFICES ASSUME IInv, Next PROVE IInv'
  BY StutterIInv
<1> QED
  BY StageStep, HookFailsStep, OpenJournalStep, PlanFileStep, PlanLineStep, JournalFailsStep,
     SyncJournalStep, MakeRoomStep, PlaceStep, StartCopyStep, EndCopyStep, CopyFailsStep,
     PlaceFailsStep, RemoveJournalStep, PostInstallStep, RegisterStep, RegisterFailsStep, ExitStep, CrashStep,
     StartStep, UndoStep, EndRollbackStep, AdminEditStep DEF Next

-----------------------------------------------------------------------------
(* What follows. *)

\* The inductive invariant holds in every reachable state.
THEOREM TxnInvariant == Spec => []IInv
<1> HIDE DEF IInv
<1> QED
  BY InitIInv, NextIInv, PTL DEF Spec

\* Every variable keeps its type.
THEOREM TxnTypeCorrect == Spec => []TypeOK
<1>1. IInv => TypeOK
  OBVIOUS
<1> HIDE DEF IInv
<1> QED
  BY <1>1, TxnInvariant, PTL

\* Whatever an unfinished transaction changed on the root file system is in its
\* journal (core_ops.rs writes and syncs it before the first rename).
THEOREM JournalAhead == Spec => []WriteAhead
<1>1. IInv => WriteAhead
  OBVIOUS
<1> HIDE DEF IInv
<1> QED
  BY <1>1, TxnInvariant, PTL

\* Whatever an unfinished transaction found is still there, in place or as the
\* backup.
THEOREM NothingLost == Spec => []OldContentKept
<1>1. IInv => OldContentKept
  OBVIOUS
<1> HIDE DEF IInv
<1> QED
  BY <1>1, TxnInvariant, PTL

\* A package is registered, and its journal removed, only when all its files are
\* complete on the root file system.
THEOREM CompleteBeforeRegistered == Spec => []InstalledBeforeRegistered
<1>1. IInv => InstalledBeforeRegistered
  OBVIOUS
<1> HIDE DEF IInv
<1> QED
  BY <1>1, TxnInvariant, PTL

\* A step that writes to a configuration file that the transaction found as the
\* administrator wrote it keeps it.
LEMMA ConfigKeptStep ==
  ASSUME IInv, Next, NEW t \in Targets, t \in Configs, live[t] = Admin, pre[t] = Admin
  PROVE  live'[t] = Admin
<1>1. CASE MakeRoom
  <2>1. moves # <<>> /\ ClearDestination(moves[1]) /\ moves[1].file \in Targets
    BY <1>1, NextMove DEF MakeRoom
  <2>2. t = moves[1].file => moves[1].new
    BY <1>1, NextMove DEF MakeRoom, Known
  <2> QED
    BY <2>1, <2>2 DEF ClearDestination, SetDestination, TypeOK
<1>2. CASE Place \/ EndCopy \/ StartCopy
  <2>1. pc \in {"place", "copy"} /\ moves # <<>> /\ Cleared(moves[1])
    BY <1>2 DEF Place, EndCopy, StartCopy, Progress
  <2>2. \E c : SetDestination(moves[1], c)
    BY <1>2, <2>1, NextMove DEF Place, EndCopy, StartCopy, Placed
  <2>3. t = moves[1].file => moves[1].new
    BY <2>1, NextMove, TxnAssumption DEF Cleared
  <2> QED
    BY <2>2, <2>3 DEF SetDestination, TypeOK
<1>3. CASE PlaceFails
  <2>1. pc = "place" /\ moves # <<>> /\ Cleared(moves[1])
    BY <1>3 DEF PlaceFails, Progress
  <2>2. live' = live \/ \E c : SetDestination(moves[1], c)
    BY <1>3, <2>1, NextMove DEF PlaceFails
  <2>3. t = moves[1].file => moves[1].new
    BY <2>1, NextMove, TxnAssumption DEF Cleared
  <2> QED
    BY <2>2, <2>3 DEF SetDestination, TypeOK
<1>4. CASE Undo
  <2>1. /\ undo \in Seq(Line) /\ undo # <<>>
        /\ UndoInstall(undo[Len(undo)]) \/ UndoBackup(undo[Len(undo)])
    BY <1>4 DEF Undo, TypeOK
  <2>2. Spares(undo[Len(undo)])
    BY <2>1 DEF LinesSpare
  <2> QED
    BY <2>1, <2>2 DEF Spares, UndoInstall, UndoBackup, SetDestination, TypeOK
<1>5. CASE \E x \in Targets : AdminEdit(x)
  BY <1>5 DEF AdminEdit, TypeOK
<1>6. CASE UNCHANGED live
  BY <1>6
<1> QED
  BY <1>1, <1>2, <1>3, <1>4, <1>5, <1>6 DEF Next, Stage, HookFails, OpenJournal, PlanFile, PlanLine,
     JournalFails, SyncJournal, CopyFails, RemoveJournal, PostInstall, Register, RegisterFails,
     Exit, Crash, Stop, Start, EndRollback

\* No installation, failure, kill or rollback takes from the administrator a
\* configuration file it found as he wrote it.
THEOREM ConfigsKept == Spec => AdminConfigKept
<1>1. IInv /\ [Next]_vars =>
        [\A t \in Configs : live[t] = Admin /\ pre[t] = Admin => live'[t] = Admin]_vars
  BY ConfigKeptStep, TxnAssumption
<1> HIDE DEF IInv
<1> QED
  BY <1>1, TxnInvariant, PTL DEF Spec, AdminConfigKept

=============================================================================
