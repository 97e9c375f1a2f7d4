----------------------------- MODULE SatSolver -----------------------------
(***************************************************************************)
(* `SatSolver' of solver.rs, as `resolve_dependencies' uses it: a root     *)
(* variable is set, clauses are added, and `solve' propagates over watched *)
(* literals and decides until every variable has a value or a clause is    *)
(* false.  One watch entry is looked at in a step.                         *)
(*                                                                         *)
(* Positions are counted from 1.  A clause that is false is analysed, and  *)
(* the clause learned from it handed to add_clause while the false values  *)
(* still stand: add_clause refuses it (Refuse), so going back, restarts,   *)
(* activities, phases and the deletion of clauses are never reached.  A    *)
(* state in which it were accepted would be a deadlock here.               *)
(***************************************************************************)
EXTENDS Integers, Sequences, FiniteSets

VARIABLES
  num_vars,
  formula,    \* the clauses the caller adds, as sets of literals
  added,      \* how many of them were added
  clauses,    \* those kept, as sequences: the first two literals are watched
  watches,    \* for each literal the entries that watch it
  assignment, \* of each variable: True, False or Unassigned
  level,      \* of each variable (decision_level)
  reason,     \* of each variable, 0 without one (reason_clause_idx)
  trail,      \* the literals made true, in that order (assignment_trail)
  qhead,      \* how many of them were propagated or are just being
  levels,     \* the decision levels there are
  at,         \* the watch entry looked at
  conflict,   \* the clause found false, 0 without one
  pc,
  verdict     \* "none", then "model", "conflict" or "interrupted"

valueVars == <<assignment, level, reason, trail>>
clauseVars == <<formula, added, clauses, watches>>
solverVars == <<num_vars, clauseVars, valueVars, qhead, levels, at, conflict, pc, verdict>>

True == 1
False == -1
Unassigned == 0

Literals(n) == (-n .. n) \ {0}
Lits == Literals(num_vars)

VarOf(l) == IF l < 0 THEN -l ELSE l

\* get_lit_value
Value(l) == IF l > 0 THEN assignment[l] ELSE -assignment[-l]

\* assign_literal
Assign(l, clause) ==
  /\ assignment' = [assignment EXCEPT ![VarOf(l)] = IF l > 0 THEN True ELSE False]
  /\ level' = [level EXCEPT ![VarOf(l)] = levels]
  /\ reason' = [reason EXCEPT ![VarOf(l)] = clause]
  /\ trail' = Append(trail, l)

SolverInit ==
  /\ num_vars = 0 /\ formula = <<>> /\ added = 0 /\ clauses = <<>> /\ watches = <<>>
  /\ assignment = <<>> /\ level = <<>> /\ reason = <<>> /\ trail = <<>>
  /\ qhead = 0 /\ levels = 0 /\ at = 1 /\ conflict = 0
  /\ pc = "idle" /\ verdict = "none"

\* A solver with n variables; the root is made true and a level opened, at which
\* the clauses cs will be added.
Start(n, root, cs) ==
  /\ pc = "idle"
  /\ num_vars' = n
  /\ formula' = cs
  /\ watches' = [l \in Literals(n) |-> <<>>]
  /\ assignment' = [v \in 1 .. n |-> IF v = root THEN True ELSE Unassigned]
  /\ level' = [v \in 1 .. n |-> 0]
  /\ reason' = [v \in 1 .. n |-> 0]
  /\ trail' = <<root>>
  /\ levels' = 1
  /\ pc' = "add"
  /\ UNCHANGED <<added, clauses, qhead, at, conflict, verdict>>

-----------------------------------------------------------------------------
(* add_clause *)

\* By variable, of one variable the negative literal first (as the caller has it).
Precedes(l, m) == VarOf(l) < VarOf(m) \/ (VarOf(l) = VarOf(m) /\ l < m)

Sorted(S) ==
  [k \in 1 .. Cardinality(S) |->
     CHOOSE l \in S : Cardinality({m \in S : Precedes(m, l)}) = k - 1]

NextClause == formula[added + 1]

\* What is left of the next clause without the literals that are false.
Open == {l \in NextClause : Value(l) # False}

Adding == pc = "add" /\ added < Len(formula) /\ added' = added + 1

\* A literal is true already: the clause is not kept.
AddSatisfied ==
  /\ Adding
  /\ \E l \in NextClause : Value(l) = True
  /\ UNCHANGED <<num_vars, formula, clauses, watches, valueVars, qhead, levels, at, conflict,
                 pc, verdict>>

\* "Conflict at base level (Unsatisfiable Graph)"
AddFalse ==
  /\ Adding
  /\ Open = {}
  /\ verdict' = "conflict"
  /\ pc' = "done"
  /\ UNCHANGED <<num_vars, formula, clauses, watches, valueVars, qhead, levels, at, conflict>>

AddUnit ==
  /\ Adding
  /\ \A l \in NextClause : Value(l) # True
  /\ Cardinality(Open) = 1
  /\ clauses' = Append(clauses, Sorted(Open))
  /\ Assign(Sorted(Open)[1], Len(clauses) + 1)
  /\ UNCHANGED <<num_vars, formula, watches, qhead, levels, at, conflict, pc, verdict>>

Watch(ws, l, clause, blocker) ==
  [ws EXCEPT ![l] = Append(@, [clause |-> clause, blocker |-> blocker])]

AddWatched ==
  /\ Adding
  /\ \A l \in NextClause : Value(l) # True
  /\ Cardinality(Open) > 1
  /\ LET c == Sorted(Open)
         k == Len(clauses) + 1
     IN  /\ clauses' = Append(clauses, c)
         /\ watches' = Watch(Watch(watches, c[1], k, c[2]), c[2], k, c[1])
  /\ UNCHANGED <<num_vars, formula, valueVars, qhead, levels, at, conflict, pc, verdict>>

AllAdded ==
  /\ pc = "add"
  /\ added = Len(formula)
  /\ pc' = "loop"
  /\ UNCHANGED <<num_vars, clauseVars, valueVars, qhead, levels, at, conflict, verdict>>

-----------------------------------------------------------------------------
(* solve, and propagate in it *)

\* is_interrupted is asked before every propagation.
Interrupted ==
  /\ pc = "loop"
  /\ verdict' = "interrupted"
  /\ pc' = "done"
  /\ UNCHANGED <<num_vars, clauseVars, valueVars, qhead, levels, at, conflict>>

Propagate ==
  /\ pc = "loop"
  /\ pc' = "propagate"
  /\ UNCHANGED <<num_vars, clauseVars, valueVars, qhead, levels, at, conflict, verdict>>

NextLiteral ==
  /\ pc = "propagate"
  /\ qhead < Len(trail)
  /\ qhead' = qhead + 1
  /\ at' = 1
  /\ pc' = "watch"
  /\ UNCHANGED <<num_vars, clauseVars, valueVars, levels, conflict, verdict>>

FalseLit == -trail[qhead]
Entries == watches[FalseLit]
Entry == Entries[at]
Clause == clauses[Entry.clause]

\* The watched literal that is false is put second.
Turned == IF Clause[1] = FalseLit THEN [Clause EXCEPT ![1] = Clause[2], ![2] = Clause[1]] ELSE Clause

Watching == pc = "watch" /\ at <= Len(Entries)

BlockerTrue ==
  /\ Watching
  /\ Value(Entry.blocker) = True
  /\ at' = at + 1
  /\ UNCHANGED <<num_vars, clauseVars, valueVars, qhead, levels, conflict, pc, verdict>>

Looking == Watching /\ Value(Entry.blocker) # True

FirstTrue ==
  /\ Looking
  /\ Value(Turned[1]) = True
  /\ clauses' = [clauses EXCEPT ![Entry.clause] = Turned]
  /\ watches' = [watches EXCEPT ![FalseLit][at].blocker = Turned[1]]
  /\ at' = at + 1
  /\ UNCHANGED <<num_vars, formula, added, valueVars, qhead, levels, conflict, pc, verdict>>

\* Where another literal can be watched: the first from the third that is not false.
Spare == {k \in 3 .. Len(Turned) : Value(Turned[k]) # False}

\* The last entry takes the place of the one removed.
SwapRemove(s, i) == [k \in 1 .. Len(s) - 1 |-> IF k = i THEN s[Len(s)] ELSE s[k]]

\* Mutant: the entry that takes the place of the removed one is passed over.
MoveWatchAndPass ==
  /\ Looking
  /\ Value(Turned[1]) # True
  /\ \E k \in Spare :
       /\ \A j \in Spare : k <= j
       /\ clauses' = [clauses EXCEPT ![Entry.clause] =
                        [Turned EXCEPT ![2] = Turned[k], ![k] = FalseLit]]
       /\ watches' = [Watch(watches, Turned[k], Entry.clause, Turned[1])
                        EXCEPT ![FalseLit] = SwapRemove(@, at)]
  /\ at' = at + 1
  /\ UNCHANGED <<num_vars, formula, added, valueVars, qhead, levels, conflict, pc, verdict>>

MoveWatch ==
  /\ Looking
  /\ Value(Turned[1]) # True
  /\ \E k \in Spare :
       /\ \A j \in Spare : k <= j
       /\ clauses' = [clauses EXCEPT ![Entry.clause] =
                        [Turned EXCEPT ![2] = Turned[k], ![k] = FalseLit]]
       /\ watches' = [Watch(watches, Turned[k], Entry.clause, Turned[1])
                        EXCEPT ![FalseLit] = SwapRemove(@, at)]
  /\ UNCHANGED <<num_vars, formula, added, valueVars, qhead, levels, at, conflict, pc, verdict>>

Stuck == Looking /\ Value(Turned[1]) # True /\ Spare = {}

\* The first literal is the only one left that can be true.
Imply ==
  /\ Stuck
  /\ Value(Turned[1]) = Unassigned
  /\ clauses' = [clauses EXCEPT ![Entry.clause] = Turned]
  /\ Assign(Turned[1], Entry.clause)
  /\ at' = at + 1
  /\ UNCHANGED <<num_vars, formula, added, watches, qhead, levels, conflict, pc, verdict>>

\* Mutant: that the first literal is false too is not noticed.
PassConflict ==
  /\ Stuck
  /\ Value(Turned[1]) = False
  /\ clauses' = [clauses EXCEPT ![Entry.clause] = Turned]
  /\ at' = at + 1
  /\ UNCHANGED <<num_vars, formula, added, watches, valueVars, qhead, levels, conflict, pc, verdict>>

FindConflict ==
  /\ Stuck
  /\ Value(Turned[1]) = False
  /\ clauses' = [clauses EXCEPT ![Entry.clause] = Turned]
  /\ conflict' = Entry.clause
  /\ pc' = "conflict"
  /\ UNCHANGED <<num_vars, formula, added, watches, valueVars, qhead, levels, at, verdict>>

EntriesDone ==
  /\ pc = "watch"
  /\ at > Len(Entries)
  /\ pc' = "propagate"
  /\ UNCHANGED <<num_vars, clauseVars, valueVars, qhead, levels, at, conflict, verdict>>

AtFixpoint == pc = "propagate" /\ qhead = Len(trail)

FoundModel ==
  /\ AtFixpoint
  /\ Len(trail) = num_vars
  /\ verdict' = "model"
  /\ pc' = "done"
  /\ UNCHANGED <<num_vars, clauseVars, valueVars, qhead, levels, at, conflict>>

\* Without conflicts every activity is 0 and the heap yields the last variable;
\* no phase was saved, so it is made true.
Decide ==
  /\ AtFixpoint
  /\ \E v \in 1 .. num_vars :
       /\ assignment[v] = Unassigned
       /\ \A w \in v + 1 .. num_vars : assignment[w] # Unassigned
       /\ assignment' = [assignment EXCEPT ![v] = True]
       /\ level' = [level EXCEPT ![v] = levels + 1]
       /\ trail' = Append(trail, v)
  /\ levels' = levels + 1
  /\ pc' = "loop"
  /\ UNCHANGED <<num_vars, clauseVars, reason, qhead, at, conflict, verdict>>

-----------------------------------------------------------------------------
(* analyze_conflict: it looks at the clause that is false, and then, going *)
(* down the trail, at the reason of every literal it passes, seen or not.  *)

\* The clause looked at when n - 1 literals were passed: the last reason met.
LookedAt(n) ==
  LET why == {k \in Len(trail) - n + 2 .. Len(trail) : reason[VarOf(trail[k])] # 0}
  IN  IF why = {} THEN conflict
      ELSE reason[VarOf(trail[CHOOSE k \in why : \A m \in why : k <= m])]

SeenBy(n) == UNION {{clauses[LookedAt(m)][k] : k \in DOMAIN clauses[LookedAt(m)]} : m \in 1 .. n}

Here(S) == {l \in S : level[VarOf(l)] = levels}

\* It stops when it passed as many literals as it saw of the present level.
LastLook ==
  CHOOSE n \in 1 .. Len(trail) :
    /\ Cardinality({VarOf(l) : l \in Here(SeenBy(n))}) <= n \/ n = Len(trail)
    /\ \A m \in 1 .. n - 1 : Cardinality({VarOf(l) : l \in Here(SeenBy(m))}) > m

Learned ==
  (SeenBy(LastLook) \ Here(SeenBy(LastLook))) \cup {-trail[Len(trail) + 1 - LastLook]}

\* add_clause filters the learned clause by the values of now and finds nothing.
Refuse ==
  /\ pc = "conflict"
  /\ \A l \in Learned : Value(l) = False
  /\ verdict' = "conflict"
  /\ pc' = "done"
  /\ UNCHANGED <<num_vars, clauseVars, valueVars, qhead, levels, at, conflict>>

-----------------------------------------------------------------------------
SolverStep ==
  \/ AddSatisfied \/ AddFalse \/ AddUnit \/ AddWatched \/ AllAdded
  \/ Interrupted \/ Propagate \/ NextLiteral
  \/ BlockerTrue \/ FirstTrue \/ MoveWatch \/ Imply \/ FindConflict \/ EntriesDone
  \/ FoundModel \/ Decide \/ Refuse

SolverNext ==
  \/ \E n \in Nat : \E root \in 1 .. n, cs \in Seq(SUBSET Literals(n)) : Start(n, root, cs)
  \/ SolverStep

SolverSpec == SolverInit /\ [][SolverNext]_solverVars

-----------------------------------------------------------------------------
(* Correctness. *)

WatchEntry == [clause : 1 .. Len(clauses), blocker : Lits]

SolverTypeOK ==
  /\ num_vars \in Nat
  /\ formula \in Seq(SUBSET Lits)
  /\ added \in 0 .. Len(formula)
  /\ clauses \in Seq(Seq(Lits))
  /\ watches \in [Lits -> Seq(WatchEntry)]
  /\ assignment \in [1 .. num_vars -> {True, False, Unassigned}]
  /\ level \in [1 .. num_vars -> 0 .. levels]
  /\ reason \in [1 .. num_vars -> 0 .. Len(clauses)]
  /\ trail \in Seq(Lits)
  /\ qhead \in 0 .. Len(trail)
  /\ levels \in Nat
  /\ at \in Nat \ {0}
  /\ conflict \in 0 .. Len(clauses)
  /\ pc \in {"idle", "add", "loop", "propagate", "watch", "conflict", "done"}
  /\ verdict \in {"none", "model", "conflict", "interrupted"}

\* Every clause that was added has a true literal in the model returned: those
\* that were dropped or shortened when they were added as well.
ModelSatisfies ==
  verdict = "model" => \A k \in DOMAIN formula : \E l \in formula[k] : Value(l) = True

\* Two watched literals are enough: when nothing is left to propagate, no clause
\* is false, and none that has no true literal has a single one left.
PropagationComplete ==
  AtFixpoint =>
    \A k \in DOMAIN formula :
      \/ \E l \in formula[k] : Value(l) = True
      \/ \E l, m \in formula[k] : l # m /\ Value(l) = Unassigned /\ Value(m) = Unassigned
=============================================================================
