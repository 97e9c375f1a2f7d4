-------------------------- MODULE SatSolverProofs --------------------------
(***************************************************************************)
(* What SatSolver promises, proved for any number of variables and any     *)
(* clauses.                                                                *)
(*                                                                         *)
(* The argument: no value is ever taken back, so a clause that has a true  *)
(* literal keeps it.  A clause that was kept is watched by the entries of  *)
(* its first two literals and of no other, and once a literal was          *)
(* propagated every clause with an entry for its negation has a true       *)
(* literal.  So at a fixpoint a clause without one has two watched         *)
(* literals that nothing was decided about; when every variable has a      *)
(* value there is no such clause.                                          *)
(***************************************************************************)
EXTENDS SatSolver, FiniteSetTheorems, TLAPS

\* The type invariant in three parts.
ClauseTypes ==
  /\ num_vars \in Nat
  /\ formula \in Seq(SUBSET Lits)
  /\ added \in 0 .. Len(formula)
  /\ clauses \in Seq(Seq(Lits))
  /\ watches \in [Lits -> Seq(WatchEntry)]

ValueTypes ==
  /\ assignment \in [1 .. num_vars -> {True, False, Unassigned}]
  /\ level \in [1 .. num_vars -> 0 .. levels]
  /\ reason \in [1 .. num_vars -> 0 .. Len(clauses)]
  /\ trail \in Seq(Lits)
  /\ levels \in Nat

LoopTypes ==
  /\ qhead \in 0 .. Len(trail)
  /\ at \in Nat \ {0}
  /\ conflict \in 0 .. Len(clauses)
  /\ pc \in {"idle", "add", "loop", "propagate", "watch", "conflict", "done"}
  /\ verdict \in {"none", "model", "conflict", "interrupted"}

Types == ClauseTypes /\ ValueTypes /\ LoopTypes

LEMMA TypeParts == SolverTypeOK <=> Types
BY DEF SolverTypeOK, Types, ClauseTypes, ValueTypes, LoopTypes

-----------------------------------------------------------------------------
(* Literals and values. *)

LEMMA LitFacts ==
  ASSUME num_vars \in Nat, NEW l \in Lits
  PROVE  /\ l \in Int /\ l # 0 /\ -l \in Lits /\ -(-l) = l
         /\ VarOf(l) \in 1 .. num_vars
         /\ VarOf(-l) = VarOf(l)
         /\ l \in {VarOf(l), -VarOf(l)}
BY DEF Lits, Literals, VarOf

LEMMA ValueType ==
  ASSUME ClauseTypes, ValueTypes, NEW l \in Lits
  PROVE  /\ Value(l) \in {True, False, Unassigned}
         /\ Value(-l) = -Value(l)
         /\ Value(l) = IF l > 0 THEN assignment[VarOf(l)] ELSE -assignment[VarOf(l)]
<1>1. l \in Int /\ l # 0 /\ VarOf(l) \in 1 .. num_vars
  BY LitFacts DEF ClauseTypes
<1>2. assignment[VarOf(l)] \in {1, -1, 0}
  BY <1>1 DEF ValueTypes, True, False, Unassigned
<1> QED BY <1>1, <1>2 DEF Value, VarOf, True, False, Unassigned

\* A literal is made true: the values of the others stay.
LEMMA AssignValues ==
  ASSUME ClauseTypes, ValueTypes, NEW l \in Lits, UNCHANGED num_vars,
         assignment' = [assignment EXCEPT ![VarOf(l)] = IF l > 0 THEN True ELSE False]
  PROVE  \A m \in Lits : Value(m)' = IF m = l THEN True ELSE IF m = -l THEN False ELSE Value(m)
<1> SUFFICES ASSUME NEW m \in Lits
             PROVE  Value(m)' = IF m = l THEN True ELSE IF m = -l THEN False ELSE Value(m)
  OBVIOUS
<1>1. /\ l \in Int /\ l # 0 /\ VarOf(l) \in 1 .. num_vars
      /\ m \in Int /\ m # 0 /\ VarOf(m) \in 1 .. num_vars
  BY LitFacts DEF ClauseTypes
<1>2. assignment'[VarOf(m)] = IF VarOf(m) = VarOf(l) THEN IF l > 0 THEN 1 ELSE -1 ELSE assignment[VarOf(m)]
  BY <1>1 DEF ValueTypes, True, False
<1>3. Value(m) = IF m > 0 THEN assignment[VarOf(m)] ELSE -assignment[VarOf(m)]
  BY <1>1 DEF Value, VarOf
<1>4. Value(m)' = IF m > 0 THEN assignment'[VarOf(m)] ELSE -assignment'[VarOf(m)]
  BY <1>1 DEF Value, VarOf
<1>5. VarOf(m) = VarOf(l) <=> m = l \/ m = -l
  BY <1>1 DEF VarOf
<1>6. ASSUME m = l PROVE Value(m)' = 1
  <2>1. assignment'[VarOf(m)] = IF m > 0 THEN 1 ELSE -1
    BY <1>2, <1>6
  <2>2. CASE m > 0
    BY <1>4, <2>1, <2>2
  <2>3. CASE ~(m > 0)
    <3>1. assignment'[VarOf(m)] = -1 /\ Value(m)' = -assignment'[VarOf(m)]
      BY <1>4, <2>1, <2>3
    <3>2. assignment'[VarOf(m)] \in Int /\ assignment'[VarOf(m)] + 1 = 0
      BY <3>1
    <3>3. Value(m)' = -assignment'[VarOf(m)]
      BY <3>1
    <3> QED BY <3>2, <3>3
  <2> QED BY <2>2, <2>3
<1>7. ASSUME m = -l PROVE Value(m)' = -1
  <2>1. (l > 0 <=> ~(m > 0)) /\ assignment'[VarOf(m)] = IF l > 0 THEN 1 ELSE -1
    BY <1>1, <1>2, <1>5, <1>7
  <2> QED BY <1>4, <2>1
<1>8. CASE m # l /\ m # -l
  BY <1>2, <1>3, <1>4, <1>5, <1>8
<1> QED BY <1>1, <1>6, <1>7, <1>8 DEF True, False

-----------------------------------------------------------------------------
(* Sorted lists the elements of a finite set, each once. *)

LEMMA SortedFacts ==
  ASSUME NEW S, S \subseteq Int, IsFiniteSet(S)
  PROVE  /\ Sorted(S) \in Seq(S) /\ Len(Sorted(S)) = Cardinality(S)
         /\ \A j, k \in DOMAIN Sorted(S) : Sorted(S)[j] = Sorted(S)[k] => j = k
         /\ \A l \in S : \E k \in DOMAIN Sorted(S) : Sorted(S)[k] = l
<1> DEFINE Below(l) == {m \in S : Precedes(m, l)}
           n == Cardinality(S)
           rank == [l \in S |-> Cardinality(Below(l))]
<1>1. n \in Nat
  BY FS_CardinalityType
<1>2. ASSUME NEW l \in S
      PROVE  Below(l) \in SUBSET S /\ l \notin Below(l) /\ IsFiniteSet(Below(l))
             /\ Cardinality(Below(l)) \in 0 .. n - 1
  <2>1. Below(l) \in SUBSET S
    OBVIOUS
  <2>2. ~Precedes(l, l)
    <3>1. l \in Int
      OBVIOUS
    <3> QED BY <3>1 DEF Precedes, VarOf
  <2>3. Below(l) # S
    BY <2>2
  <2>4. IsFiniteSet(Below(l)) /\ Cardinality(Below(l)) <= n /\ Cardinality(Below(l)) # n
    BY <2>1, <2>3, FS_Subset
  <2>5. Cardinality(Below(l)) \in Nat
    BY <2>4, FS_CardinalityType
  <2> HIDE DEF n, Below
  <2>6. Cardinality(Below(l)) \in 0 .. n - 1
    BY <1>1, <2>4, <2>5
  <2> USE DEF Below
  <2> QED BY <2>2, <2>4, <2>6
<1>3. ASSUME NEW l \in S, NEW m \in S, Precedes(m, l)
      PROVE  Cardinality(Below(m)) < Cardinality(Below(l))
  <2>1. Below(m) \subseteq Below(l)
    <3> SUFFICES ASSUME NEW k \in S, Precedes(k, m) PROVE Precedes(k, l)
      OBVIOUS
    <3>1. k \in Int /\ l \in Int /\ m \in Int
      OBVIOUS
    <3> QED BY <1>3, <3>1 DEF Precedes, VarOf
  <2>2. m \in Below(l) /\ m \notin Below(m)
    BY <1>2, <1>3
  <2>3. IsFiniteSet(Below(l)) /\ Below(m) \in SUBSET Below(l) /\ Below(l) # Below(m)
    BY <1>2, <2>1, <2>2
  <2>4. Cardinality(Below(m)) <= Cardinality(Below(l)) /\ Cardinality(Below(m)) # Cardinality(Below(l))
    BY <2>3, FS_Subset
  <2>5. Cardinality(Below(m)) \in Int /\ Cardinality(Below(l)) \in Int
    BY <1>2
  <2> HIDE DEF Below
  <2> QED BY <2>4, <2>5
<1>4. ASSUME NEW l \in S, NEW m \in S, rank[l] = rank[m] PROVE l = m
  <2>1. l \in Int /\ m \in Int
    OBVIOUS
  <2>2. l = m \/ Precedes(l, m) \/ Precedes(m, l)
    BY <2>1 DEF Precedes, VarOf
  <2>3. Cardinality(Below(l)) \in Int /\ Cardinality(Below(m)) \in Int
    BY <1>2
  <2>4. Cardinality(Below(l)) = Cardinality(Below(m))
    BY <1>4
  <2>5. ~Precedes(l, m) /\ ~Precedes(m, l)
    <3>1. Precedes(l, m) => Cardinality(Below(l)) < Cardinality(Below(m))
      BY <1>3
    <3>2. Precedes(m, l) => Cardinality(Below(m)) < Cardinality(Below(l))
      BY <1>3
    <3> HIDE DEF Below
    <3> QED BY <2>3, <2>4, <3>1, <3>2
  <2> QED BY <2>2, <2>5
<1>5. rank \in Injection(S, 0 .. n - 1)
  <2>1. rank \in [S -> 0 .. n - 1]
    BY <1>2
  <2> QED BY <1>4, <2>1 DEF Injection, IsInjective
<1>6. IsFiniteSet(0 .. n - 1) /\ Cardinality(0 .. n - 1) = n
  <2> HIDE DEF n
  <2> QED BY <1>1, FS_Interval
<1>7. rank \in Surjection(S, 0 .. n - 1)
  BY <1>5, <1>6, FS_Injection
<1>8. ASSUME NEW k \in 1 .. n
      PROVE  \E l \in S : Cardinality(Below(l)) = k - 1
  <2>1. k - 1 \in 0 .. n - 1
    <3> HIDE DEF n
    <3> QED BY <1>1
  <2>2. PICK l \in S : rank[l] = k - 1
    BY <1>7, <2>1 DEF Surjection
  <2> QED BY <2>2
<1>9. Sorted(S) = [k \in 1 .. n |-> CHOOSE l \in S : Cardinality(Below(l)) = k - 1]
  BY DEF Sorted
<1>10. ASSUME NEW k \in 1 .. n
       PROVE  Sorted(S)[k] \in S /\ Cardinality(Below(Sorted(S)[k])) = k - 1
  BY <1>8, <1>9
<1>11. Sorted(S) \in [1 .. n -> S]
  BY <1>9, <1>10
<1>12. Sorted(S) \in Seq(S) /\ Len(Sorted(S)) = n /\ DOMAIN Sorted(S) = 1 .. n
  <2> HIDE DEF n
  <2> QED BY <1>1, <1>11
<1>13. ASSUME NEW j \in 1 .. n, NEW k \in 1 .. n, Sorted(S)[j] = Sorted(S)[k] PROVE j = k
  <2>1. j - 1 = k - 1
    BY <1>10, <1>13
  <2>2. j \in Int /\ k \in Int
    OBVIOUS
  <2> HIDE DEF n, Below
  <2> QED BY <2>1, <2>2
<1>14. ASSUME NEW l \in S PROVE \E k \in 1 .. n : Sorted(S)[k] = l
  <2>1. Cardinality(Below(l)) + 1 \in 1 .. n
    <3>1. Cardinality(Below(l)) \in 0 .. n - 1
      BY <1>2
    <3> HIDE DEF n, Below
    <3> QED BY <1>1, <3>1
  <2>2. PICK k \in 1 .. n : k = Cardinality(Below(l)) + 1
    BY <2>1
  <2>3. Sorted(S)[k] \in S /\ Cardinality(Below(Sorted(S)[k])) = k - 1
    BY <1>10
  <2>4. k - 1 = Cardinality(Below(l))
    <3>1. Cardinality(Below(l)) \in Int
      BY <1>2
    <3> HIDE DEF n, Below
    <3> QED BY <2>2, <3>1
  <2>5. rank[Sorted(S)[k]] = rank[l]
    BY <2>3, <2>4
  <2>6. Sorted(S)[k] = l
    BY <1>4, <2>3, <2>5
  <2> QED BY <2>6
<1> QED BY <1>12, <1>13, <1>14

-----------------------------------------------------------------------------
(* Two places of a sequence exchanged, which is all that happens to a      *)
(* clause.                                                                 *)

Swap(s, i, j) == [s EXCEPT ![i] = s[j], ![j] = s[i]]

AllDifferent(s) == \A i, j \in DOMAIN s : s[i] = s[j] => i = j

SameLits(s, t) == \A x : (\E i \in DOMAIN s : s[i] = x) <=> (\E i \in DOMAIN t : t[i] = x)

LEMMA SwapFacts ==
  ASSUME NEW S, NEW s \in Seq(S), NEW i \in DOMAIN s, NEW j \in DOMAIN s
  PROVE  /\ Swap(s, i, j) \in Seq(S) /\ DOMAIN Swap(s, i, j) = DOMAIN s
         /\ Len(Swap(s, i, j)) = Len(s)
         /\ Swap(s, i, j)[i] = s[j] /\ Swap(s, i, j)[j] = s[i]
         /\ \A k \in DOMAIN s : k # i /\ k # j => Swap(s, i, j)[k] = s[k]
         /\ SameLits(s, Swap(s, i, j))
         /\ AllDifferent(s) => AllDifferent(Swap(s, i, j))
<1> DEFINE t == Swap(s, i, j)
<1>1. DOMAIN s = 1 .. Len(s) /\ Len(s) \in Nat
  OBVIOUS
<1>2. t \in [1 .. Len(s) -> S]
  BY <1>1 DEF Swap
<1>3. t \in Seq(S) /\ DOMAIN t = 1 .. Len(s) /\ Len(t) = Len(s)
  <2> HIDE DEF t
  <2> QED BY <1>1, <1>2
<1>4. t[i] = s[j] /\ t[j] = s[i] /\ \A k \in DOMAIN s : k # i /\ k # j => t[k] = s[k]
  BY <1>1 DEF Swap
<1> HIDE DEF t
<1>5. SameLits(s, t)
  BY <1>1, <1>3, <1>4 DEF SameLits
<1>6. AllDifferent(s) => AllDifferent(t)
  BY <1>1, <1>3, <1>4 DEF AllDifferent
<1> QED BY <1>1, <1>3, <1>4, <1>5, <1>6 DEF t

-----------------------------------------------------------------------------
(* The invariant. *)

HasLit(c, l) == \E i \in DOMAIN clauses[c] : clauses[c][i] = l

Watched(c) == c \in DOMAIN clauses /\ Len(clauses[c]) > 1

Sat(c) == \E i \in DOMAIN clauses[c] : Value(clauses[c][i]) = True

\* Of every clause added there is a true literal, or what was kept of it.
Covered ==
  pc # "done" => \A k \in 1 .. added :
    \/ \E l \in formula[k] : Value(l) = True
    \/ \E c \in DOMAIN clauses : Watched(c) /\ \A l : HasLit(c, l) => l \in formula[k]

NoRepeats == \A c \in DOMAIN clauses : AllDifferent(clauses[c])

\* An entry is of a clause that has its literal among the first two.
EntriesRight ==
  \A l \in Lits : \A j \in DOMAIN watches[l] :
    /\ Watched(watches[l][j].clause)
    /\ l \in {clauses[watches[l][j].clause][1], clauses[watches[l][j].clause][2]}
    /\ HasLit(watches[l][j].clause, watches[l][j].blocker)

EntriesOnce ==
  \A l \in Lits : \A i, j \in DOMAIN watches[l] :
    watches[l][i].clause = watches[l][j].clause => i = j

\* Both watched literals of a clause have its entry.
EntriesThere ==
  \A c \in DOMAIN clauses : Watched(c) =>
    \A p \in {1, 2} : \E j \in DOMAIN watches[clauses[c][p]] : watches[clauses[c][p]][j].clause = c

\* Propagated to the end: those before the one that is just being propagated.
Done == IF pc = "watch" THEN qhead - 1 ELSE qhead

Propagated ==
  pc \in {"add", "loop", "propagate", "watch"} =>
    /\ \A i \in 1 .. Done : \A j \in DOMAIN watches[-trail[i]] : Sat(watches[-trail[i]][j].clause)
    /\ pc = "watch" =>
         qhead > 0 /\ \A j \in DOMAIN Entries : j < at => Sat(Entries[j].clause)

\* The trail is what is true.
TrailKnown ==
  /\ \A l \in Lits : Value(l) = True <=> \E i \in DOMAIN trail : trail[i] = l
  /\ AllDifferent(trail)

Phases ==
  /\ pc = "idle" => clauses = <<>> /\ added = 0 /\ trail = <<>>
  /\ verdict # "none" => pc = "done"
  /\ pc \in {"idle", "add"} => qhead = 0
  /\ pc \in {"loop", "propagate", "watch"} => added = Len(formula)

IInv ==
  /\ Types
  /\ Covered /\ NoRepeats
  /\ EntriesRight /\ EntriesOnce /\ EntriesThere
  /\ Propagated /\ TrailKnown /\ Phases
  /\ ModelSatisfies

-----------------------------------------------------------------------------
(* A fixpoint. *)

LEMMA AtTheEnd ==
  ASSUME IInv, AtFixpoint, NEW c \in DOMAIN clauses, Watched(c), ~Sat(c)
  PROVE  /\ clauses[c][1] \in Lits /\ clauses[c][2] \in Lits
         /\ HasLit(c, clauses[c][1]) /\ HasLit(c, clauses[c][2])
         /\ clauses[c][1] # clauses[c][2]
         /\ Value(clauses[c][1]) = Unassigned /\ Value(clauses[c][2]) = Unassigned
<1> USE DEF IInv, Types
<1>1. clauses[c] \in Seq(Lits) /\ Len(clauses[c]) > 1
  BY DEF ClauseTypes, Watched
<1>2. 1 \in DOMAIN clauses[c] /\ 2 \in DOMAIN clauses[c]
  BY <1>1
<1>3. ASSUME NEW p \in {1, 2} PROVE Value(clauses[c][p]) = Unassigned
  <2> DEFINE l == clauses[c][p]
  <2>1. l \in Lits /\ Value(l) # True /\ -l \in Lits /\ -(-l) = l
    BY <1>1, <1>2, LitFacts DEF Sat, ClauseTypes
  <2>2. ASSUME Value(l) = False PROVE FALSE
    <3>1. Value(-l) = True
      <4>1. Value(-l) = -Value(l)
        BY <2>1, ValueType
      <4> QED BY <2>2, <4>1 DEF True, False
    <3>2. PICK i \in DOMAIN trail : trail[i] = -l
      BY <2>1, <3>1 DEF TrailKnown
    <3>3. i \in 1 .. Done /\ -trail[i] = l
      BY <2>1, <3>2 DEF AtFixpoint, Done, ValueTypes, LoopTypes
    <3>4. PICK j \in DOMAIN watches[l] : watches[l][j].clause = c
      BY DEF EntriesThere
    <3> QED BY <3>3, <3>4 DEF Propagated, AtFixpoint
  <2> QED BY <2>1, <2>2, ValueType
<1>4. clauses[c][1] # clauses[c][2]
  BY <1>2 DEF NoRepeats, AllDifferent
<1> QED BY <1>1, <1>2, <1>3, <1>4 DEF HasLit

LEMMA FixpointComplete == IInv => PropagationComplete
<1> SUFFICES ASSUME IInv, AtFixpoint, NEW k \in DOMAIN formula,
                    ~\E l \in formula[k] : Value(l) = True
             PROVE  \E l, m \in formula[k] : l # m /\ Value(l) = Unassigned /\ Value(m) = Unassigned
  BY DEF PropagationComplete
<1>1. k \in 1 .. added
  BY DEF IInv, Phases, AtFixpoint, Types, ClauseTypes
<1>2. PICK c \in DOMAIN clauses : Watched(c) /\ \A l : HasLit(c, l) => l \in formula[k]
  BY <1>1 DEF IInv, Covered, AtFixpoint
<1>3. ~Sat(c)
  BY <1>2 DEF Sat, HasLit
<1> QED BY <1>2, <1>3, AtTheEnd

\* A trail as long as there are variables leaves none without a value.
LEMMA TrailFull ==
  ASSUME IInv, Len(trail) = num_vars, NEW v \in 1 .. num_vars
  PROVE  assignment[v] # Unassigned
<1> USE DEF IInv, Types
<1>1. num_vars \in Nat /\ trail \in Seq(Lits) /\ DOMAIN trail = 1 .. num_vars
  BY DEF ClauseTypes, ValueTypes
<1> DEFINE f == [i \in 1 .. num_vars |-> VarOf(trail[i])]
<1>2. f \in [1 .. num_vars -> 1 .. num_vars]
  <2>1. ASSUME NEW i \in 1 .. num_vars PROVE VarOf(trail[i]) \in 1 .. num_vars
    BY <1>1, LitFacts
  <2> QED BY <2>1
<1>3. ASSUME NEW i \in 1 .. num_vars, NEW j \in 1 .. num_vars, f[i] = f[j] PROVE i = j
  <2>1. trail[i] \in Lits /\ trail[j] \in Lits /\ Value(trail[i]) = True /\ Value(trail[j]) = True
    BY <1>1 DEF TrailKnown
  <2>2. trail[j] \in {trail[i], -trail[i]}
    <3>1. VarOf(trail[i]) = VarOf(trail[j])
      BY <1>3
    <3>2. trail[i] \in Int /\ trail[j] \in Int
      BY <1>1, <2>1, LitFacts
    <3> QED BY <3>1, <3>2 DEF VarOf
  <2>3. Value(-trail[i]) # True
    <3>1. Value(-trail[i]) = -Value(trail[i])
      BY <2>1, ValueType
    <3> QED BY <2>1, <3>1 DEF True
  <2>4. trail[i] = trail[j]
    BY <2>1, <2>2, <2>3
  <2> QED BY <1>1, <2>4 DEF TrailKnown, AllDifferent
<1>4. f \in Injection(1 .. num_vars, 1 .. num_vars)
  BY <1>2, <1>3 DEF Injection, IsInjective
<1>5. IsFiniteSet(1 .. num_vars)
  BY <1>1, FS_Interval
<1>6. f \in Surjection(1 .. num_vars, 1 .. num_vars)
  BY <1>4, <1>5, FS_Injection
<1>7. PICK i \in 1 .. num_vars : f[i] = v
  BY <1>6 DEF Surjection
<1>8. trail[i] \in Lits /\ Value(trail[i]) = True /\ VarOf(trail[i]) = v
  BY <1>1, <1>7 DEF TrailKnown
<1>9. Value(trail[i]) = IF trail[i] > 0 THEN assignment[v] ELSE -assignment[v]
  BY <1>8, ValueType
<1> QED BY <1>8, <1>9 DEF True, Unassigned

LEMMA FoundModelStep ==
  ASSUME IInv, FoundModel
  PROVE  ModelSatisfies'
<1> USE DEF IInv, Types
<1>1. AtFixpoint /\ Len(trail) = num_vars /\ UNCHANGED <<formula, assignment>>
  BY DEF FoundModel, clauseVars, valueVars
<1>2. ASSUME NEW k \in DOMAIN formula PROVE \E l \in formula[k] : Value(l) = True
  <2> SUFFICES ASSUME ~\E l \in formula[k] : Value(l) = True PROVE FALSE
    OBVIOUS
  <2>1. k \in 1 .. added
    BY <1>1 DEF Phases, AtFixpoint, ClauseTypes
  <2>2. PICK c \in DOMAIN clauses : Watched(c) /\ \A l : HasLit(c, l) => l \in formula[k]
    BY <1>1, <2>1 DEF Covered, AtFixpoint
  <2>3. ~Sat(c)
    BY <2>2 DEF Sat, HasLit
  <2>4. clauses[c][1] \in Lits /\ Value(clauses[c][1]) = Unassigned
    BY <1>1, <2>2, <2>3, AtTheEnd
  <2>5. VarOf(clauses[c][1]) \in 1 .. num_vars
    BY <2>4, LitFacts DEF ClauseTypes
  <2>6. assignment[VarOf(clauses[c][1])] \in {1, -1}
    BY <1>1, <2>5, TrailFull DEF ValueTypes, True, False, Unassigned
  <2>7. Value(clauses[c][1]) # 0
    BY <2>4, <2>6, ValueType
  <2> QED BY <2>4, <2>7 DEF Unassigned
<1> QED BY <1>1, <1>2 DEF ModelSatisfies, Value

-----------------------------------------------------------------------------
(* What the steps have in common. *)

\* Clauses and their watch entries stay.
LEMMA ClausesStay ==
  ASSUME IInv, UNCHANGED <<num_vars, clauses, watches>>
  PROVE  NoRepeats' /\ EntriesRight' /\ EntriesOnce' /\ EntriesThere'
<1> USE DEF IInv
<1>1. NoRepeats'
  BY DEF NoRepeats, AllDifferent
<1>2. EntriesRight'
  BY DEF EntriesRight, Watched, HasLit, Lits
<1>3. EntriesOnce'
  BY DEF EntriesOnce, Lits
<1>4. EntriesThere'
  BY DEF EntriesThere, Watched
<1> QED BY <1>1, <1>2, <1>3, <1>4

\* The values stay as well.
LEMMA NothingMoved ==
  ASSUME IInv, UNCHANGED <<num_vars, formula, clauses, watches, valueVars>>
  PROVE  /\ NoRepeats' /\ EntriesRight' /\ EntriesOnce' /\ EntriesThere' /\ TrailKnown'
         /\ \A c \in DOMAIN clauses : Sat(c)' <=> Sat(c)
<1> USE DEF IInv, valueVars
<1>1. TrailKnown'
  BY DEF TrailKnown, AllDifferent, Lits, Value
<1>2. \A c \in DOMAIN clauses : Sat(c)' <=> Sat(c)
  BY DEF Sat, Value
<1> QED BY <1>1, <1>2, ClausesStay

\* A step that moves nothing keeps what is said of the clauses added so far.
LEMMA CoveredStays ==
  ASSUME IInv, UNCHANGED <<num_vars, formula, added, clauses, watches, valueVars>>, pc # "done"
  PROVE  Covered'
<1>1. Covered
  BY DEF IInv
<1>2. \A l : Value(l)' = Value(l)
  BY DEF Value, valueVars
<1>3. \A c : /\ Watched(c)' <=> Watched(c)
             /\ \A l : HasLit(c, l)' <=> HasLit(c, l)
  BY DEF Watched, HasLit
<1>4. added' = added /\ formula' = formula /\ DOMAIN clauses' = DOMAIN clauses
  OBVIOUS
<1> QED BY ZenonT(60), <1>1, <1>2, <1>3, <1>4 DEF Covered

\* A literal that has no value is made true and put on the trail.
LEMMA TrailGrows ==
  ASSUME ClauseTypes, ValueTypes, TrailKnown,
         NEW l \in Lits, Value(l) = Unassigned, UNCHANGED num_vars,
         assignment' = [assignment EXCEPT ![VarOf(l)] = IF l > 0 THEN True ELSE False],
         trail' = Append(trail, l)
  PROVE  /\ TrailKnown'
         /\ Value(l)' = True
         /\ \A m \in Lits : Value(m) = True => Value(m)' = True
         /\ assignment' \in [1 .. num_vars -> {True, False, Unassigned}]
         /\ trail' \in Seq(Lits) /\ Len(trail') = Len(trail) + 1
         /\ \A i \in DOMAIN trail : trail'[i] = trail[i]
<1>1. /\ l \in Int /\ l # 0 /\ -l \in Lits /\ -(-l) = l /\ VarOf(l) \in 1 .. num_vars
      /\ Lits' = Lits
  BY LitFacts DEF ClauseTypes, Lits
<1>2. Value(-l) # True
  BY <1>1, ValueType DEF True, Unassigned
<1>3. \A m \in Lits : Value(m)' = IF m = l THEN True ELSE IF m = -l THEN False ELSE Value(m)
  BY AssignValues
<1>4. trail \in Seq(Lits)
  BY DEF ValueTypes
<1>5. /\ trail' \in Seq(Lits) /\ Len(trail') = Len(trail) + 1
      /\ DOMAIN trail' = 1 .. Len(trail) + 1 /\ DOMAIN trail = 1 .. Len(trail) /\ Len(trail) \in Nat
      /\ trail'[Len(trail) + 1] = l
      /\ \A i \in DOMAIN trail : trail'[i] = trail[i]
  BY <1>4
<1>6. l # -l
  BY <1>1
<1>7. True # False
  BY DEF True, False
<1>8. ASSUME NEW m \in Lits
      PROVE  Value(m)' = True <=> \E i \in DOMAIN trail' : trail'[i] = m
  <2>1. Value(m)' = True <=> m = l \/ Value(m) = True
    BY <1>2, <1>3, <1>7
  <2>2. (\E i \in DOMAIN trail' : trail'[i] = m) <=> m = l \/ \E i \in DOMAIN trail : trail[i] = m
    BY <1>5
  <2> QED BY <2>1, <2>2 DEF TrailKnown
<1>9. \A i \in DOMAIN trail : trail[i] # l
  BY DEF TrailKnown, True, Unassigned
<1>10. AllDifferent(trail)'
  <2> SUFFICES ASSUME NEW i \in DOMAIN trail', NEW j \in DOMAIN trail', trail'[i] = trail'[j]
               PROVE  i = j
    BY DEF AllDifferent
  <2> QED BY <1>5, <1>9 DEF TrailKnown, AllDifferent
<1>11. TrailKnown'
  BY <1>1, <1>8, <1>10 DEF TrailKnown
<1>12. assignment' \in [1 .. num_vars -> {True, False, Unassigned}]
  BY <1>1 DEF ValueTypes
<1>13. \A m \in Lits : Value(m) = True => Value(m)' = True
  BY <1>2, <1>3
<1>14. Value(l)' = True
  BY <1>3
<1> QED BY <1>5, <1>11, <1>12, <1>13, <1>14

\* A clause with a true literal keeps it while no value is taken back.
LEMMA SatStays ==
  ASSUME ClauseTypes, NEW c \in DOMAIN clauses, Sat(c),
         c \in DOMAIN clauses', SameLits(clauses[c], clauses'[c]),
         \A m \in Lits : Value(m) = True => Value(m)' = True
  PROVE  Sat(c)'
<1>1. PICK i \in DOMAIN clauses[c] : Value(clauses[c][i]) = True
  BY DEF Sat
<1>2. PICK m \in Lits : m = clauses[c][i]
  BY DEF ClauseTypes
<1>3. PICK j \in DOMAIN clauses'[c] : clauses'[c][j] = m
  BY <1>2 DEF SameLits
<1>4. Value(m)' = True
  BY <1>1, <1>2
<1> QED BY <1>3, <1>4 DEF Sat, Value

\* What was kept of a clause stays, whatever is appended to the clauses and in
\* whatever order the literals of a clause are put.
LEMMA CoveredGrows ==
  ASSUME IInv, pc # "done", UNCHANGED <<num_vars, formula>>, added' = added,
         \A c \in DOMAIN clauses :
           c \in DOMAIN clauses' /\ SameLits(clauses[c], clauses'[c]) /\ Len(clauses'[c]) = Len(clauses[c]),
         \A m \in Lits : Value(m) = True => Value(m)' = True
  PROVE  Covered'
<1> SUFFICES ASSUME NEW k \in 1 .. added
             PROVE  \/ \E l \in formula[k] : Value(l)' = True
                    \/ \E c \in DOMAIN clauses' : Watched(c)' /\ \A l : HasLit(c, l)' => l \in formula[k]
  BY DEF Covered
<1>1. \A l \in formula[k] : l \in Lits
  BY DEF IInv, Types, ClauseTypes
<1>2. CASE \E l \in formula[k] : Value(l) = True
  BY <1>1, <1>2
<1>3. CASE \E c \in DOMAIN clauses : Watched(c) /\ \A l : HasLit(c, l) => l \in formula[k]
  <2>1. PICK c \in DOMAIN clauses : Watched(c) /\ \A l : HasLit(c, l) => l \in formula[k]
    BY <1>3
  <2>2. Watched(c)'
    BY <2>1 DEF Watched
  <2>3. \A l : HasLit(c, l)' => HasLit(c, l)
    BY DEF HasLit, SameLits
  <2> QED BY <2>1, <2>2, <2>3
<1> QED BY <1>2, <1>3 DEF IInv, Covered

-----------------------------------------------------------------------------
(* The steps that move nothing. *)

StillStep ==
  \/ AddSatisfied \/ AddFalse \/ AllAdded \/ Interrupted \/ Propagate \/ NextLiteral
  \/ BlockerTrue \/ EntriesDone \/ FoundModel \/ Refuse

LEMMA StillTypes ==
  ASSUME IInv, StillStep
  PROVE  /\ UNCHANGED <<num_vars, formula, clauses, watches, valueVars, levels>>
         /\ Types'
<1> USE DEF IInv, Types
<1>1. UNCHANGED <<num_vars, formula, clauses, watches, valueVars, levels>>
  BY DEF StillStep, AddSatisfied, AddFalse, AllAdded, Interrupted, Propagate, NextLiteral,
         BlockerTrue, EntriesDone, FoundModel, Refuse, clauseVars, Adding
<1>2. added' \in 0 .. Len(formula)
  BY DEF StillStep, AddSatisfied, AddFalse, AllAdded, Interrupted, Propagate, NextLiteral,
         BlockerTrue, EntriesDone, FoundModel, Refuse, clauseVars, Adding, ClauseTypes
<1>3. ClauseTypes'
  BY <1>1, <1>2 DEF ClauseTypes, WatchEntry, Lits
<1>4. ValueTypes'
  BY <1>1 DEF ValueTypes, Lits, valueVars
<1>5. /\ qhead' \in 0 .. Len(trail) /\ at' \in Nat \ {0} /\ conflict' = conflict
  BY DEF StillStep, AddSatisfied, AddFalse, AllAdded, Interrupted, Propagate, NextLiteral,
         BlockerTrue, EntriesDone, FoundModel, Refuse, LoopTypes, ValueTypes
<1>6. /\ pc' \in {"idle", "add", "loop", "propagate", "watch", "conflict", "done"}
      /\ verdict' \in {"none", "model", "conflict", "interrupted"}
  BY DEF StillStep, AddSatisfied, AddFalse, AllAdded, Interrupted, Propagate, NextLiteral,
         BlockerTrue, EntriesDone, FoundModel, Refuse, LoopTypes, Adding, Watching
<1>7. LoopTypes'
  BY <1>1, <1>5, <1>6 DEF LoopTypes, valueVars
<1> QED BY <1>1, <1>3, <1>4, <1>7

LEMMA StillPhases ==
  ASSUME IInv, StillStep
  PROVE  Phases' /\ ModelSatisfies'
<1> USE DEF IInv
<1>1. pc # "idle" /\ pc # "done" /\ verdict = "none"
  BY DEF StillStep, AddSatisfied, AddFalse, AllAdded, Interrupted, Propagate, NextLiteral,
         BlockerTrue, EntriesDone, FoundModel, Refuse, Adding, Watching, AtFixpoint, Phases
<1>2. Phases'
  BY <1>1 DEF StillStep, AddSatisfied, AddFalse, AllAdded, Interrupted, Propagate, NextLiteral,
         BlockerTrue, EntriesDone, FoundModel, Refuse, Adding, Watching, AtFixpoint, Phases,
         clauseVars
<1>3. ModelSatisfies'
  <2>1. CASE FoundModel
    BY <2>1, FoundModelStep
  <2>2. CASE ~FoundModel
    <3>1. verdict' # "model"
      BY <1>1, <2>2 DEF StillStep, AddSatisfied, AddFalse, AllAdded, Interrupted, Propagate,
         NextLiteral, BlockerTrue, EntriesDone, Refuse
    <3> QED BY <3>1 DEF ModelSatisfies
  <2> QED BY <2>1, <2>2
<1> QED BY <1>2, <1>3

LEMMA StillCovered ==
  ASSUME IInv, StillStep
  PROVE  Covered'
<1> USE DEF IInv
<1>1. UNCHANGED <<num_vars, formula, clauses, watches, valueVars>>
  BY StillTypes
<1>2. CASE AddSatisfied
  <2>1. pc # "done" /\ added' = added + 1 /\ added \in Nat
        /\ \E l \in formula[added + 1] : Value(l) = True
    BY <1>2 DEF AddSatisfied, Adding, NextClause, Types, ClauseTypes
  <2>2. \A k \in 1 .. added' : k \in 1 .. added \/ k = added + 1
    BY <2>1
  <2>3. ASSUME NEW k \in 1 .. added', k \in 1 .. added
        PROVE  \/ \E l \in formula[k] : Value(l) = True
               \/ \E c \in DOMAIN clauses : Watched(c) /\ \A l : HasLit(c, l) => l \in formula[k]
    BY <2>1, <2>3 DEF Covered
  <2> QED BY ZenonT(60), <1>1, <2>1, <2>2, <2>3 DEF Covered, Watched, HasLit, Value, valueVars
<1>3. CASE AddFalse \/ Interrupted \/ FoundModel \/ Refuse
  BY <1>3 DEF AddFalse, Interrupted, FoundModel, Refuse, Covered
<1>4. CASE AllAdded \/ Propagate \/ NextLiteral \/ BlockerTrue \/ EntriesDone
  <2>1. pc # "done" /\ added' = added
    BY <1>4 DEF AllAdded, Propagate, NextLiteral, BlockerTrue, EntriesDone, Watching, clauseVars
  <2> QED BY <1>1, <2>1, CoveredStays
<1> QED BY <1>2, <1>3, <1>4 DEF StillStep

LEMMA StillPropagated ==
  ASSUME IInv, StillStep
  PROVE  Propagated'
<1> USE DEF IInv, Types
<1>1. UNCHANGED <<num_vars, clauses, watches, valueVars>>
  BY StillTypes
<1>2. ASSUME NEW l \in Lits, NEW j \in DOMAIN watches[l]
      PROVE  watches[l][j].clause \in DOMAIN clauses
  BY DEF EntriesRight, Watched
<1>3. \A c \in DOMAIN clauses : Sat(c)' <=> Sat(c)
  BY StillTypes, NothingMoved
<1>4. /\ trail \in Seq(Lits) /\ trail' = trail /\ watches' = watches
      /\ qhead \in 0 .. Len(trail) /\ at \in Nat \ {0} /\ Len(trail) \in Nat
  BY <1>1 DEF ValueTypes, LoopTypes, valueVars
<1>5. \A i \in 1 .. Len(trail) : -trail[i] \in Lits
  BY <1>4, LitFacts DEF ClauseTypes
<1>6. ASSUME pc \in {"add", "loop", "propagate"}, pc' \in {"add", "loop", "propagate"},
             qhead' = qhead
      PROVE  Propagated'
  <2>1. Done = qhead /\ Done' = qhead
    BY <1>6 DEF Done
  <2>2. \A i \in 1 .. qhead : i \in 1 .. Len(trail)
    BY <1>4
  <2>3. \A i \in 1 .. qhead : \A j \in DOMAIN watches[-trail[i]] : Sat(watches[-trail[i]][j].clause)
    BY <1>6, <2>1 DEF Propagated
  <2>4. \A i \in 1 .. qhead : \A j \in DOMAIN watches[-trail[i]] : Sat(watches[-trail[i]][j].clause)'
    BY <1>2, <1>3, <1>4, <1>5, <2>2, <2>3
  <2> QED BY <1>4, <1>6, <2>1, <2>4 DEF Propagated
<1>7. CASE AddSatisfied \/ AllAdded \/ Propagate
  BY <1>6, <1>7 DEF AddSatisfied, AllAdded, Propagate, Adding
<1>8. CASE AddFalse \/ Interrupted \/ FoundModel \/ Refuse
  BY <1>8 DEF AddFalse, Interrupted, FoundModel, Refuse, Propagated
<1>9. CASE NextLiteral
  <2>1. /\ pc = "propagate" /\ pc' = "watch" /\ qhead' = qhead + 1 /\ at' = 1
        /\ Done = qhead /\ Done' = qhead
    BY <1>4, <1>9 DEF NextLiteral, Done
  <2>2. \A i \in 1 .. qhead : i \in 1 .. Len(trail)
    BY <1>4
  <2>3. \A i \in 1 .. qhead : \A j \in DOMAIN watches[-trail[i]] : Sat(watches[-trail[i]][j].clause)
    BY <2>1 DEF Propagated
  <2>4. \A i \in 1 .. qhead : \A j \in DOMAIN watches[-trail[i]] : Sat(watches[-trail[i]][j].clause)'
    BY <1>2, <1>3, <1>4, <1>5, <2>2, <2>3
  <2>5. Entries' = watches[-trail[qhead + 1]] /\ qhead + 1 \in 1 .. Len(trail)
    BY <1>4, <1>9, <2>1 DEF Entries, FalseLit, NextLiteral
  <2>6. watches[-trail[qhead + 1]] \in Seq(WatchEntry)
    BY <1>5, <2>5 DEF ClauseTypes
  <2>7. \A j \in DOMAIN Entries' : ~(j < at')
    <3>1. \A j \in DOMAIN watches[-trail[qhead + 1]] : j \in Nat \ {0}
      BY <2>6
    <3> QED BY <2>1, <2>5, <3>1
  <2>8. qhead' > 0 /\ \A j \in DOMAIN Entries' : j < at' => Sat(Entries[j].clause)'
    BY <1>4, <2>1, <2>7
  <2>9. \A i \in 1 .. Done' : \A j \in DOMAIN watches'[-trail'[i]] : Sat(watches[-trail[i]][j].clause)'
    BY <1>4, <2>1, <2>4
  <2> HIDE DEF IInv, Types
  <2> QED BY <2>8, <2>9 DEF Propagated
<1>10. CASE BlockerTrue \/ EntriesDone
  <2>1. pc = "watch" /\ qhead' = qhead /\ qhead \in 1 .. Len(trail) /\ Done = qhead - 1
    <3>1. pc = "watch" /\ qhead' = qhead
      BY <1>10 DEF BlockerTrue, EntriesDone, Watching
    <3> QED BY <1>4, <3>1 DEF Propagated, Done
  <2>2. \A i \in 1 .. qhead - 1 : i \in 1 .. Len(trail)
    BY <1>4
  <2>3. \A i \in 1 .. qhead - 1 :
          \A j \in DOMAIN watches[-trail[i]] : Sat(watches[-trail[i]][j].clause)
    BY <2>1 DEF Propagated
  <2>4. \A i \in 1 .. qhead - 1 :
          \A j \in DOMAIN watches[-trail[i]] : Sat(watches[-trail[i]][j].clause)'
    BY <1>2, <1>3, <1>4, <1>5, <2>2, <2>3
  <2>5. Entries = watches[-trail[qhead]] /\ Entries' = Entries /\ -trail[qhead] \in Lits
        /\ Entries \in Seq(WatchEntry)
    BY <1>4, <1>5, <2>1 DEF Entries, FalseLit, ClauseTypes
  <2>6. \A j \in DOMAIN Entries : j < at => Sat(Entries[j].clause)
    BY <2>1 DEF Propagated
  <2>7. \A j \in DOMAIN Entries : j < at => Sat(Entries[j].clause)'
    <3>1. \A j \in DOMAIN Entries : Entries[j].clause \in DOMAIN clauses
      BY <1>2, <2>5
    <3> QED BY <1>3, <2>5, <2>6, <3>1
  <2>8. CASE BlockerTrue
    <3>1. at' = at + 1 /\ pc' = pc /\ at \in 1 .. Len(Entries) /\ Value(Entry.blocker) = True
      BY <1>4, <2>5, <2>8 DEF BlockerTrue, Watching
    <3>2. HasLit(Entry.clause, Entry.blocker) /\ Entry.clause \in DOMAIN clauses
      BY <2>5, <3>1 DEF EntriesRight, Entry, Watched
    <3>3. PICK c \in DOMAIN clauses : c = Entries[at].clause /\ Sat(c)'
      BY <1>3, <3>1, <3>2 DEF Sat, HasLit, Entry
    <3>4. \A j \in DOMAIN Entries : j < at' => j < at \/ j = at
      BY <1>4, <2>5, <3>1
    <3>5. Done' = qhead - 1
      BY <2>1, <3>1 DEF Done
    <3>6. \A j \in DOMAIN Entries : j < at' => Sat(Entries[j].clause)'
      BY <2>5, <2>7, <3>3, <3>4
    <3> QED BY <1>4, <2>1, <2>4, <2>5, <3>1, <3>5, <3>6 DEF Propagated
  <2>9. CASE EntriesDone
    <3>1. pc' = "propagate" /\ at > Len(Entries)
      BY <2>9 DEF EntriesDone
    <3>2. Done' = qhead
      BY <2>1, <3>1 DEF Done
    <3>3. \A j \in DOMAIN Entries : j < at
      BY <1>4, <2>5, <3>1
    <3>4. \A j \in DOMAIN watches[-trail[qhead]] : Sat(watches[-trail[qhead]][j].clause)'
      BY <1>4, <2>1, <2>5, <2>7, <3>3 DEF Entries, FalseLit
    <3>5. \A i \in 1 .. qhead : i \in 1 .. qhead - 1 \/ i = qhead
      BY <2>1
    <3> QED BY <1>4, <2>1, <2>4, <3>1, <3>2, <3>4, <3>5 DEF Propagated
  <2> QED BY <1>10, <2>8, <2>9
<1> QED BY <1>7, <1>8, <1>9, <1>10 DEF StillStep

LEMMA StillKeeps ==
  ASSUME IInv, StillStep
  PROVE  IInv'
<1>1. UNCHANGED <<num_vars, formula, clauses, watches, valueVars>> /\ Types'
  BY StillTypes
<1>2. NoRepeats' /\ EntriesRight' /\ EntriesOnce' /\ EntriesThere' /\ TrailKnown'
  BY <1>1, NothingMoved
<1> QED BY <1>1, <1>2, StillPhases, StillCovered, StillPropagated DEF IInv

-----------------------------------------------------------------------------
(* The start, and a decision. *)

LEMMA StartKeeps ==
  ASSUME IInv, NEW n \in Nat, NEW root \in 1 .. n, NEW cs \in Seq(SUBSET Literals(n)),
         Start(n, root, cs)
  PROVE  IInv'
<1> USE DEF IInv, Types
<1>1. /\ clauses' = <<>> /\ added' = 0 /\ qhead' = 0 /\ verdict' = "none"
      /\ num_vars' = n /\ formula' = cs /\ trail' = <<root>> /\ levels' = 1 /\ pc' = "add"
      /\ at' \in Nat \ {0} /\ conflict' = conflict /\ clauses = <<>>
  BY DEF Start, Phases, LoopTypes
<1>2. Lits' = Literals(n) /\ root \in Lits' /\ root \in Int /\ root > 0
  BY <1>1 DEF Lits, Literals
<1>3. ClauseTypes'
  <2>1. watches' \in [Literals(n) -> Seq(WatchEntry')]
    BY DEF Start
  <2>2. clauses' \in Seq(Seq(Lits'))
    BY <1>1
  <2>3. formula' \in Seq(SUBSET Lits')
    BY <1>1, <1>2
  <2>4. added' \in 0 .. Len(formula')
    BY <1>1, <2>3
  <2> QED BY <1>1, <1>2, <2>1, <2>2, <2>3, <2>4 DEF ClauseTypes
<1>4. ValueTypes'
  <2>1. trail' \in Seq(Lits')
    BY <1>1, <1>2
  <2>2. /\ assignment' \in [1 .. n -> {True, False, Unassigned}]
        /\ level' \in [1 .. n -> 0 .. levels']
        /\ reason' \in [1 .. n -> 0 .. Len(clauses')]
    BY <1>1 DEF Start
  <2> QED BY <1>1, <2>1, <2>2 DEF ValueTypes
<1>5. LoopTypes'
  BY <1>1 DEF LoopTypes
<1>6. TrailKnown'
  <2>1. DOMAIN trail' = {1} /\ trail'[1] = root
    BY <1>1
  <2>2. ASSUME NEW l \in Lits' PROVE Value(l)' = True <=> l = root
    <3>1. l \in Int /\ l # 0 /\ VarOf(l) \in 1 .. n
      BY <1>2 DEF Literals, VarOf
    <3>2. assignment'[VarOf(l)] = IF VarOf(l) = root THEN 1 ELSE 0
      BY <3>1 DEF Start, True, Unassigned
    <3>3. Value(l)' = IF l > 0 THEN assignment'[VarOf(l)] ELSE -assignment'[VarOf(l)]
      BY <3>1 DEF Value, VarOf
    <3>4. CASE l > 0
      BY <1>2, <3>1, <3>2, <3>3, <3>4 DEF VarOf, True
    <3>5. CASE ~(l > 0)
      <4>1. Value(l)' # 1
        BY <3>2, <3>3, <3>5
      <4> QED BY <1>2, <3>5, <4>1 DEF True
    <3> QED BY <3>4, <3>5
  <2> QED BY <2>1, <2>2 DEF TrailKnown, AllDifferent
<1>7. EntriesRight' /\ EntriesOnce'
  <2>1. \A l \in Lits' : DOMAIN watches'[l] = {}
    BY <1>2 DEF Start
  <2> QED BY <2>1 DEF EntriesRight, EntriesOnce
<1>8. NoRepeats' /\ EntriesThere' /\ Covered'
  BY <1>1 DEF NoRepeats, EntriesThere, Covered
<1>9. Propagated' /\ Phases' /\ ModelSatisfies'
  BY <1>1 DEF Propagated, Phases, ModelSatisfies, Done
<1> QED BY <1>3, <1>4, <1>5, <1>6, <1>7, <1>8, <1>9

LEMMA DecideKeeps ==
  ASSUME IInv, Decide
  PROVE  IInv'
<1> USE DEF IInv, Types
<1>1. /\ UNCHANGED <<num_vars, formula, added, clauses, watches, reason, qhead, at, conflict, verdict>>
      /\ pc = "propagate" /\ pc' = "loop" /\ levels' = levels + 1
  BY DEF Decide, clauseVars, AtFixpoint
<1>2. PICK v \in 1 .. num_vars :
        /\ assignment[v] = Unassigned
        /\ assignment' = [assignment EXCEPT ![v] = True]
        /\ level' = [level EXCEPT ![v] = levels + 1]
        /\ trail' = Append(trail, v)
  BY DEF Decide
<1>3. v \in Lits /\ VarOf(v) = v /\ Value(v) = Unassigned /\ v > 0
  BY <1>2 DEF ClauseTypes, Lits, Literals, VarOf, Value
<1>4. assignment' = [assignment EXCEPT ![VarOf(v)] = IF v > 0 THEN True ELSE False]
  BY <1>2, <1>3
<1>5. /\ TrailKnown'
      /\ \A m \in Lits : Value(m) = True => Value(m)' = True
      /\ assignment' \in [1 .. num_vars -> {True, False, Unassigned}]
      /\ trail' \in Seq(Lits) /\ Len(trail') = Len(trail) + 1
      /\ \A i \in DOMAIN trail : trail'[i] = trail[i]
  BY <1>1, <1>2, <1>3, <1>4, TrailGrows
<1>6. ClauseTypes'
  BY <1>1 DEF ClauseTypes, WatchEntry, Lits
<1>7. ValueTypes'
  <2>1. level' \in [1 .. num_vars -> 0 .. levels'] /\ levels' \in Nat
    BY <1>1, <1>2 DEF ValueTypes
  <2>2. reason' \in [1 .. num_vars -> 0 .. Len(clauses')]
    BY <1>1 DEF ValueTypes
  <2> QED BY <1>1, <1>5, <2>1, <2>2 DEF ValueTypes, Lits
<1>8. LoopTypes'
  BY <1>1, <1>5 DEF LoopTypes, ValueTypes
<1>9. ASSUME NEW c \in DOMAIN clauses, Sat(c) PROVE Sat(c)'
  BY <1>1, <1>5, <1>9, SatStays DEF SameLits
<1>10. NoRepeats' /\ EntriesRight' /\ EntriesOnce' /\ EntriesThere'
  BY <1>1, ClausesStay
<1>11. Covered'
  BY <1>1, <1>5, CoveredGrows DEF SameLits
<1>12. Propagated'
  <2>1. Done = qhead /\ Done' = qhead /\ Len(trail) \in Nat /\ qhead \in 0 .. Len(trail)
    BY <1>1 DEF Done, LoopTypes, ValueTypes
  <2>2. ASSUME NEW i \in 1 .. qhead, NEW j \in DOMAIN watches[-trail[i]]
        PROVE  Sat(watches[-trail[i]][j].clause)'
    <3>1. i \in DOMAIN trail /\ trail'[i] = trail[i] /\ trail[i] \in Lits /\ -trail[i] \in Lits
      <4>1. i \in DOMAIN trail /\ trail[i] \in Lits
        BY <2>1 DEF ValueTypes
      <4> QED BY <1>5, <4>1, LitFacts DEF ClauseTypes
    <3>2. Sat(watches[-trail[i]][j].clause) /\ watches[-trail[i]][j].clause \in DOMAIN clauses
      BY <1>1, <2>1, <3>1 DEF Propagated, EntriesRight, Watched
    <3> QED BY <1>1, <1>9, <3>1, <3>2
  <2>3. ASSUME NEW i \in 1 .. qhead
        PROVE  trail'[i] = trail[i]
    <3>1. i \in DOMAIN trail
      BY <2>1 DEF ValueTypes
    <3> QED BY <1>5, <3>1
  <2> HIDE DEF IInv, Types
  <2> QED BY <1>1, <2>1, <2>2, <2>3 DEF Propagated
<1>13. Phases' /\ ModelSatisfies'
  BY <1>1 DEF Phases, ModelSatisfies
<1> QED BY <1>5, <1>6, <1>7, <1>8, <1>10, <1>11, <1>12, <1>13

-----------------------------------------------------------------------------
(* A clause is added. *)

\* A sequence over a set is one over a larger set.
LEMMA SeqLarger ==
  ASSUME NEW S, NEW T, S \subseteq T, NEW s \in Seq(S)
  PROVE  s \in Seq(T)
OBVIOUS

LEMMA OpenFacts ==
  ASSUME IInv, Adding
  PROVE  /\ NextClause = formula[added + 1] /\ added + 1 \in DOMAIN formula /\ added \in Nat
         /\ Open \subseteq NextClause /\ NextClause \subseteq Lits /\ Lits \subseteq Int \ {0}
         /\ Sorted(Open) \in Seq(Lits) /\ Len(Sorted(Open)) = Cardinality(Open)
         /\ AllDifferent(Sorted(Open))
         /\ \A i \in DOMAIN Sorted(Open) : Sorted(Open)[i] \in Open
<1> USE DEF IInv, Types
<1>1. /\ formula \in Seq(SUBSET Lits) /\ added \in 0 .. Len(formula) /\ added < Len(formula)
      /\ num_vars \in Nat
  BY DEF ClauseTypes, Adding
<1>2. NextClause = formula[added + 1] /\ added + 1 \in DOMAIN formula /\ added \in Nat
      /\ NextClause \subseteq Lits
  BY <1>1 DEF NextClause
<1>3. Lits \subseteq Int \ {0} /\ Lits \in SUBSET (-num_vars .. num_vars)
  BY DEF Lits, Literals
<1>4. IsFiniteSet(-num_vars .. num_vars)
  <2>1. -num_vars \in Int /\ num_vars \in Int
    BY <1>1
  <2> QED BY <2>1, FS_Interval
<1>5. Open \subseteq NextClause /\ Open \in SUBSET (-num_vars .. num_vars) /\ Open \subseteq Int \ {0}
  BY <1>2, <1>3 DEF Open
<1>6. IsFiniteSet(Open)
  BY <1>4, <1>5, FS_Subset
<1>7. /\ Sorted(Open) \in Seq(Open) /\ Len(Sorted(Open)) = Cardinality(Open)
      /\ AllDifferent(Sorted(Open))
  BY <1>5, <1>6, SortedFacts DEF AllDifferent
<1>8. \A i \in DOMAIN Sorted(Open) : Sorted(Open)[i] \in Open
  BY <1>7
<1>9. Sorted(Open) \in Seq(Lits)
  <2>1. Open \subseteq Lits
    BY <1>2, <1>5
  <2> QED BY <1>7, <2>1, SeqLarger
<1> QED BY <1>2, <1>3, <1>5, <1>7, <1>8, <1>9

LEMMA ClauseAppended ==
  ASSUME IInv, NEW x \in Seq(Lits), AllDifferent(x), clauses' = Append(clauses, x), UNCHANGED num_vars
  PROVE  /\ clauses' \in Seq(Seq(Lits)) /\ Len(clauses) \in Nat /\ Len(clauses') = Len(clauses) + 1
         /\ DOMAIN clauses = 1 .. Len(clauses) /\ DOMAIN clauses' = 1 .. Len(clauses) + 1
         /\ clauses'[Len(clauses) + 1] = x
         /\ \A c \in DOMAIN clauses : c \in DOMAIN clauses' /\ clauses'[c] = clauses[c]
         /\ \A c \in DOMAIN clauses : Watched(c)' <=> Watched(c)
         /\ \A c \in DOMAIN clauses : \A l : HasLit(c, l)' <=> HasLit(c, l)
         /\ Lits' = Lits /\ WatchEntry \subseteq WatchEntry'
         /\ NoRepeats'
<1> USE DEF IInv, Types
<1>1. clauses \in Seq(Seq(Lits))
  BY DEF ClauseTypes
<1>2. /\ clauses' \in Seq(Seq(Lits)) /\ Len(clauses) \in Nat /\ Len(clauses') = Len(clauses) + 1
      /\ DOMAIN clauses = 1 .. Len(clauses) /\ DOMAIN clauses' = 1 .. Len(clauses) + 1
      /\ clauses'[Len(clauses) + 1] = x
      /\ \A c \in DOMAIN clauses : c \in DOMAIN clauses' /\ clauses'[c] = clauses[c]
  BY <1>1
<1>3. Lits' = Lits /\ WatchEntry \subseteq WatchEntry'
  BY <1>2 DEF Lits, WatchEntry
<1>4. NoRepeats'
  <2> SUFFICES ASSUME NEW c \in DOMAIN clauses' PROVE AllDifferent(clauses'[c])
    BY DEF NoRepeats, AllDifferent
  <2>1. c \in DOMAIN clauses \/ c = Len(clauses) + 1
    BY <1>2
  <2> QED BY <1>2, <2>1 DEF NoRepeats
<1>5. /\ \A c \in DOMAIN clauses : Watched(c)' <=> Watched(c)
      /\ \A c \in DOMAIN clauses : \A l : HasLit(c, l)' <=> HasLit(c, l)
  BY <1>2 DEF Watched, HasLit
<1> QED BY <1>2, <1>3, <1>4, <1>5

\* Of the clause added now there is a true literal or something kept, and what
\* was said of those before is true still.
LEMMA CoveredOneMore ==
  ASSUME IInv, Adding, UNCHANGED <<num_vars, formula>>, pc' = "add",
         NEW x \in Seq(Lits), AllDifferent(x), clauses' = Append(clauses, x),
         \A m \in Lits : Value(m) = True => Value(m)' = True,
         \/ \E l \in NextClause : Value(l)' = True
         \/ Len(x) > 1 /\ \A i \in DOMAIN x : x[i] \in NextClause
  PROVE  Covered'
<1>1. /\ added' = added + 1 /\ pc = "add" /\ added \in Nat /\ NextClause = formula[added + 1]
      /\ formula \in Seq(SUBSET Lits) /\ added \in 0 .. Len(formula)
  BY OpenFacts DEF Adding, IInv, Types, ClauseTypes
<1>2. /\ \A c \in DOMAIN clauses : c \in DOMAIN clauses'
      /\ \A c \in DOMAIN clauses : Watched(c)' <=> Watched(c)
      /\ \A c \in DOMAIN clauses : \A l : HasLit(c, l)' <=> HasLit(c, l)
      /\ Len(clauses) + 1 \in DOMAIN clauses' /\ clauses'[Len(clauses) + 1] = x
  BY ClauseAppended
<1> SUFFICES ASSUME NEW k \in 1 .. added + 1
             PROVE  \/ \E l \in formula[k] : Value(l)' = True
                    \/ \E c \in DOMAIN clauses' : Watched(c)' /\ \A l : HasLit(c, l)' => l \in formula[k]
  BY <1>1 DEF Covered
<1>3. CASE k \in 1 .. added
  <2>1. \A l \in formula[k] : l \in Lits
    BY <1>1, <1>3
  <2>2. \/ \E l \in formula[k] : Value(l) = True
        \/ \E c \in DOMAIN clauses : Watched(c) /\ \A l : HasLit(c, l) => l \in formula[k]
    BY <1>1, <1>3 DEF IInv, Covered
  <2> QED BY <1>2, <2>1, <2>2
<1>4. CASE k = added + 1
  <2>1. CASE \E l \in NextClause : Value(l)' = True
    BY <1>1, <1>4, <2>1
  <2>2. CASE Len(x) > 1 /\ \A i \in DOMAIN x : x[i] \in NextClause
    <3> DEFINE n == Len(clauses) + 1
    <3>1. PICK c : c = n
      OBVIOUS
    <3>2. Watched(c)' /\ \A l : HasLit(c, l)' => l \in formula[k]
      BY <1>1, <1>2, <1>4, <2>2, <3>1 DEF Watched, HasLit
    <3> QED BY <1>2, <3>1, <3>2
  <2> QED BY <2>1, <2>2
<1> QED BY <1>1, <1>3, <1>4

LEMMA AddUnitKeeps ==
  ASSUME IInv, AddUnit
  PROVE  IInv'
<1> USE DEF IInv, Types
<1>1. PICK x \in Seq(Lits) : x = Sorted(Open)
  BY OpenFacts DEF AddUnit
<1>2. x \in Seq(Lits) /\ Len(x) = 1 /\ AllDifferent(x) /\ x[1] \in Open /\ added \in Nat
      /\ Open \subseteq NextClause /\ NextClause \subseteq Lits
  BY <1>1, OpenFacts DEF AddUnit
<1>3. PICK l \in Lits : l = x[1]
  BY <1>2
<1>4. /\ Adding /\ UNCHANGED <<num_vars, formula, watches, qhead, levels, at, conflict, pc, verdict>>
      /\ clauses' = Append(clauses, x)
      /\ assignment' = [assignment EXCEPT ![VarOf(l)] = IF l > 0 THEN True ELSE False]
      /\ trail' = Append(trail, l)
      /\ level' = [level EXCEPT ![VarOf(l)] = levels]
      /\ reason' = [reason EXCEPT ![VarOf(l)] = Len(clauses) + 1]
      /\ pc = "add" /\ added' = added + 1 /\ added < Len(formula)
  BY <1>1, <1>3 DEF AddUnit, Adding, Assign
<1>5. Value(l) = Unassigned /\ l \in NextClause
  BY <1>2, <1>3, ValueType DEF AddUnit, Open
<1>6. /\ TrailKnown' /\ Value(l)' = True
      /\ \A m \in Lits : Value(m) = True => Value(m)' = True
      /\ assignment' \in [1 .. num_vars -> {True, False, Unassigned}]
      /\ trail' \in Seq(Lits) /\ Len(trail') = Len(trail) + 1
  BY <1>4, <1>5, TrailGrows
<1>7. /\ clauses' \in Seq(Seq(Lits)) /\ Len(clauses) \in Nat /\ Len(clauses') = Len(clauses) + 1
      /\ Lits' = Lits /\ WatchEntry \subseteq WatchEntry'
      /\ DOMAIN clauses = 1 .. Len(clauses) /\ DOMAIN clauses' = 1 .. Len(clauses) + 1
      /\ clauses'[Len(clauses) + 1] = x
      /\ \A c \in DOMAIN clauses : clauses'[c] = clauses[c]
      /\ \A c \in DOMAIN clauses : Watched(c)' <=> Watched(c)
      /\ \A c \in DOMAIN clauses : \A m : HasLit(c, m)' <=> HasLit(c, m)
      /\ NoRepeats'
  BY <1>2, <1>4, ClauseAppended
<1>8. ClauseTypes'
  <2>1. watches \in [Lits -> Seq(WatchEntry')]
    <3>1. \A m \in Lits : watches[m] \in Seq(WatchEntry')
      BY <1>7, SeqLarger DEF ClauseTypes
    <3> QED BY <3>1 DEF ClauseTypes
  <2>2. added' \in 0 .. Len(formula)
    BY <1>2, <1>4 DEF ClauseTypes
  <2> QED BY <1>4, <1>7, <2>1, <2>2 DEF ClauseTypes
<1>9. ValueTypes'
  <2>1. VarOf(l) \in 1 .. num_vars
    BY LitFacts DEF ClauseTypes
  <2>2. level' \in [1 .. num_vars -> 0 .. levels] /\ levels \in Nat
    BY <1>4, <2>1 DEF ValueTypes
  <2>3. reason' \in [1 .. num_vars -> 0 .. Len(clauses')]
    BY <1>4, <1>7, <2>1 DEF ValueTypes
  <2> QED BY <1>4, <1>6, <1>7, <2>2, <2>3 DEF ValueTypes
<1>10. LoopTypes'
  BY <1>4, <1>6, <1>7 DEF LoopTypes, ValueTypes
<1>11. EntriesRight' /\ EntriesOnce'
  BY <1>4, <1>7 DEF EntriesRight, EntriesOnce, Watched
<1>12. EntriesThere'
  <2> SUFFICES ASSUME NEW c \in DOMAIN clauses', Watched(c)', NEW p \in {1, 2}
               PROVE  \E j \in DOMAIN watches'[clauses'[c][p]] : watches'[clauses'[c][p]][j].clause = c
    BY DEF EntriesThere
  <2>1. c \in DOMAIN clauses
    <3>1. c \in DOMAIN clauses \/ c = Len(clauses) + 1
      BY <1>7
    <3>2. Len(clauses'[c]) > 1
      BY DEF Watched
    <3>3. Len(clauses'[Len(clauses) + 1]) = 1
      <4>1. clauses'[Len(clauses) + 1] = x /\ Len(x) = 1
        BY <1>2, <1>7
      <4> QED BY <4>1
    <3>4. ~(1 > 1)
      OBVIOUS
    <3> HIDE DEF IInv, Types
    <3> QED BY <3>1, <3>2, <3>3, <3>4
  <2>2. clauses'[c] = clauses[c] /\ Watched(c)
    BY <1>7, <2>1
  <2>3. \E j \in DOMAIN watches[clauses[c][p]] : watches[clauses[c][p]][j].clause = c
    BY <2>1, <2>2 DEF EntriesThere
  <2> QED BY <1>4, <2>2, <2>3
<1>13. Covered'
  BY <1>2, <1>4, <1>5, <1>6, CoveredOneMore
<1>14. Propagated' /\ Phases' /\ ModelSatisfies'
  BY <1>4 DEF Propagated, Phases, ModelSatisfies, Done
<1> QED BY <1>6, <1>7, <1>8, <1>9, <1>10, <1>11, <1>12, <1>13, <1>14

LEMMA WatchFacts ==
  ASSUME NEW E, NEW ws \in [Lits -> Seq(E)], NEW l \in Lits, NEW e \in E,
         NEW new, new = [ws EXCEPT ![l] = Append(@, e)]
  PROVE  /\ new \in [Lits -> Seq(E)]
         /\ \A m \in Lits : m # l => new[m] = ws[m]
         /\ Len(new[l]) = Len(ws[l]) + 1
         /\ \A j \in 1 .. Len(ws[l]) : new[l][j] = ws[l][j]
         /\ new[l][Len(ws[l]) + 1] = e
<1>1. ws[l] \in Seq(E)
  OBVIOUS
<1>2. new[l] = Append(ws[l], e)
  OBVIOUS
<1>3. \A m \in Lits : m # l => new[m] = ws[m]
  OBVIOUS
<1>4. new \in [Lits -> Seq(E)]
  <2>1. Append(ws[l], e) \in Seq(E)
    BY <1>1
  <2> QED BY <2>1
<1> QED BY <1>1, <1>2, <1>3, <1>4

LEMMA AddWatchedKeeps ==
  ASSUME IInv, AddWatched
  PROVE  IInv'
<1> USE DEF IInv, Types
<1>1. PICK x \in Seq(Lits) : x = Sorted(Open)
  BY OpenFacts DEF AddWatched
<1>2. Len(x) > 1 /\ AllDifferent(x) /\ added \in Nat /\ \A i \in DOMAIN x : x[i] \in NextClause
  BY <1>1, OpenFacts DEF AddWatched
<1>3. PICK a \in Lits, b \in Lits : a = x[1] /\ b = x[2] /\ a # b
  BY <1>2 DEF AllDifferent
<1>4. PICK k \in Nat : k = Len(clauses) + 1
  BY DEF ClauseTypes
<1>5. /\ Adding
      /\ UNCHANGED <<num_vars, formula, assignment, level, reason, trail, qhead, levels, at, conflict, pc, verdict>>
      /\ clauses' = Append(clauses, x)
      /\ watches' = Watch(Watch(watches, a, k, b), b, k, a)
      /\ pc = "add" /\ added' = added + 1 /\ added < Len(formula)
  BY <1>1, <1>3, <1>4 DEF AddWatched, Adding, valueVars
<1>6. /\ clauses' \in Seq(Seq(Lits)) /\ Len(clauses) \in Nat /\ Len(clauses') = k
      /\ Lits' = Lits /\ WatchEntry \subseteq WatchEntry'
      /\ DOMAIN clauses = 1 .. Len(clauses) /\ DOMAIN clauses' = 1 .. k
      /\ clauses'[k] = x /\ k \notin DOMAIN clauses
      /\ \A c \in DOMAIN clauses : clauses'[c] = clauses[c]
      /\ \A c \in DOMAIN clauses : Watched(c)' <=> Watched(c)
      /\ \A c \in DOMAIN clauses : \A m : HasLit(c, m)' <=> HasLit(c, m)
      /\ NoRepeats'
  BY <1>2, <1>4, <1>5, ClauseAppended
<1>7. watches \in [Lits -> Seq(WatchEntry')]
  <2>1. \A m \in Lits : watches[m] \in Seq(WatchEntry')
    BY <1>6, SeqLarger DEF ClauseTypes
  <2> QED BY <2>1 DEF ClauseTypes
<1>8. [clause |-> k, blocker |-> a] \in WatchEntry' /\ [clause |-> k, blocker |-> b] \in WatchEntry'
  BY <1>4, <1>6 DEF WatchEntry
<1>9. /\ watches' \in [Lits -> Seq(WatchEntry')]
      /\ \A m \in Lits : m # a /\ m # b => watches'[m] = watches[m]
      /\ \A m \in {a, b} :
           /\ Len(watches'[m]) = Len(watches[m]) + 1
           /\ \A j \in 1 .. Len(watches[m]) : watches'[m][j] = watches[m][j]
           /\ watches'[m][Len(watches[m]) + 1].clause = k
           /\ watches'[m][Len(watches[m]) + 1].blocker \in {a, b}
  <2> HIDE DEF IInv, Types
  <2>1. PICK E, e, f : E = WatchEntry' /\ e = [clause |-> k, blocker |-> b]
                       /\ f = [clause |-> k, blocker |-> a]
    OBVIOUS
  <2>2. PICK ws, new : ws = [watches EXCEPT ![a] = Append(@, e)] /\ new = [ws EXCEPT ![b] = Append(@, f)]
    OBVIOUS
  <2>3. /\ ws \in [Lits -> Seq(E)]
        /\ \A m \in Lits : m # a => ws[m] = watches[m]
        /\ Len(ws[a]) = Len(watches[a]) + 1
        /\ \A j \in 1 .. Len(watches[a]) : ws[a][j] = watches[a][j]
        /\ ws[a][Len(watches[a]) + 1] = e
    <3>1. watches \in [Lits -> Seq(E)] /\ e \in E
      BY <1>7, <1>8, <2>1
    <3> QED BY <2>2, <3>1, WatchFacts
  <2>4. /\ new \in [Lits -> Seq(E)]
        /\ \A m \in Lits : m # b => new[m] = ws[m]
        /\ Len(new[b]) = Len(ws[b]) + 1
        /\ \A j \in 1 .. Len(ws[b]) : new[b][j] = ws[b][j]
        /\ new[b][Len(ws[b]) + 1] = f
    <3>1. f \in E
      BY <1>8, <2>1
    <3>2. ws \in [Lits -> Seq(E)]
      BY <2>3
    <3>3. new = [ws EXCEPT ![b] = Append(@, f)]
      BY <2>2
    <3> QED BY <3>1, <3>2, <3>3, WatchFacts
  <2>5. watches' = new
    BY <1>5, <2>1, <2>2 DEF Watch
  <2>6. ws[b] = watches[b] /\ new[a] = ws[a]
    BY <1>3, <2>3, <2>4
  <2>7. \A m \in Lits : m # a /\ m # b => new[m] = watches[m]
    BY <2>3, <2>4
  <2>8. /\ Len(new[a]) = Len(watches[a]) + 1
        /\ \A j \in 1 .. Len(watches[a]) : new[a][j] = watches[a][j]
        /\ new[a][Len(watches[a]) + 1].clause = k
        /\ new[a][Len(watches[a]) + 1].blocker \in {a, b}
    BY <2>1, <2>3, <2>6
  <2>9. /\ Len(new[b]) = Len(watches[b]) + 1
        /\ \A j \in 1 .. Len(watches[b]) : new[b][j] = watches[b][j]
        /\ new[b][Len(watches[b]) + 1].clause = k
        /\ new[b][Len(watches[b]) + 1].blocker \in {a, b}
    BY <2>1, <2>4, <2>6
  <2> QED BY <2>1, <2>4, <2>5, <2>7, <2>8, <2>9
<1>10. \A m \in Lits : /\ Len(watches[m]) \in Nat /\ DOMAIN watches[m] = 1 .. Len(watches[m])
                       /\ DOMAIN watches'[m] = 1 .. Len(watches'[m])
  BY <1>9 DEF ClauseTypes
<1>11. ASSUME NEW m \in Lits, NEW j \in DOMAIN watches'[m]
       PROVE  \/ j \in DOMAIN watches[m] /\ watches'[m][j] = watches[m][j]
              \/ /\ m \in {a, b} /\ j = Len(watches[m]) + 1
                 /\ watches'[m][j].clause = k /\ watches'[m][j].blocker \in {a, b}
  <2>1. CASE m \notin {a, b}
    BY <1>9, <2>1
  <2>2. CASE m \in {a, b}
    <3>1. Len(watches'[m]) = Len(watches[m]) + 1
      BY <1>9, <2>2
    <3>2. j \in 1 .. Len(watches[m]) \/ j = Len(watches[m]) + 1
      BY <1>10, <3>1
    <3>3. CASE j \in 1 .. Len(watches[m])
      BY <1>9, <1>10, <2>2, <3>3
    <3>4. CASE j = Len(watches[m]) + 1
      BY <1>9, <2>2, <3>4
    <3> QED BY <3>2, <3>3, <3>4
  <2> QED BY <2>1, <2>2
<1>12. \A m \in Lits : \A j \in DOMAIN watches[m] :
         j \in DOMAIN watches'[m] /\ watches'[m][j] = watches[m][j]
  <2> SUFFICES ASSUME NEW m \in Lits, NEW j \in DOMAIN watches[m]
               PROVE  j \in DOMAIN watches'[m] /\ watches'[m][j] = watches[m][j]
    OBVIOUS
  <2>1. CASE m \notin {a, b}
    BY <1>9, <2>1
  <2>2. CASE m \in {a, b}
    <3>1. Len(watches'[m]) = Len(watches[m]) + 1 /\ watches'[m][j] = watches[m][j]
      BY <1>9, <1>10, <2>2
    <3> QED BY <1>10, <3>1
  <2> QED BY <2>1, <2>2
<1>13. ClauseTypes'
  <2>1. added' \in 0 .. Len(formula)
    BY <1>2, <1>5 DEF ClauseTypes
  <2> QED BY <1>5, <1>6, <1>9, <2>1 DEF ClauseTypes
<1>14. ValueTypes' /\ LoopTypes'
  <2>1. reason \in [1 .. num_vars -> 0 .. Len(clauses')]
    BY <1>4, <1>6 DEF ValueTypes
  <2>2. conflict \in 0 .. Len(clauses')
    BY <1>4, <1>6 DEF LoopTypes
  <2> QED BY <1>5, <1>6, <2>1, <2>2 DEF ValueTypes, LoopTypes
<1>15. \A m \in Lits : \A j \in DOMAIN watches[m] : watches[m][j].clause \in DOMAIN clauses
  BY DEF EntriesRight, Watched
<1>16. EntriesRight'
  <2> SUFFICES ASSUME NEW m \in Lits, NEW j \in DOMAIN watches'[m], NEW c, c = watches'[m][j].clause,
                      NEW e, e = watches'[m][j].blocker
               PROVE  Watched(c)' /\ m \in {clauses'[c][1], clauses'[c][2]} /\ HasLit(c, e)'
    BY <1>6 DEF EntriesRight
  <2>1. CASE j \in DOMAIN watches[m] /\ watches'[m][j] = watches[m][j]
    <3>1. c = watches[m][j].clause /\ e = watches[m][j].blocker /\ c \in DOMAIN clauses
      BY <1>15, <2>1
    <3>2. Watched(c) /\ m \in {clauses[c][1], clauses[c][2]} /\ HasLit(c, e)
      BY <2>1, <3>1 DEF EntriesRight
    <3> QED BY <1>6, <3>1, <3>2
  <2>2. CASE m \in {a, b} /\ c = k /\ e \in {a, b}
    BY <1>2, <1>3, <1>4, <1>6, <2>2 DEF Watched, HasLit
  <2> QED BY <1>11, <2>1, <2>2
<1>17. EntriesOnce'
  <2> SUFFICES ASSUME NEW m \in Lits, NEW i \in DOMAIN watches'[m], NEW j \in DOMAIN watches'[m],
                      watches'[m][i].clause = watches'[m][j].clause
               PROVE  i = j
    BY <1>6 DEF EntriesOnce
  <2>1. CASE i \in DOMAIN watches[m] /\ j \in DOMAIN watches[m]
    BY <1>12, <2>1 DEF EntriesOnce
  <2>2. CASE ~(i \in DOMAIN watches[m] /\ j \in DOMAIN watches[m])
    BY <1>6, <1>11, <1>12, <1>15, <2>2
  <2> QED BY <2>1, <2>2
<1>18. EntriesThere'
  <2> SUFFICES ASSUME NEW c \in DOMAIN clauses', Watched(c)', NEW p \in {1, 2}
               PROVE  \E j \in DOMAIN watches'[clauses'[c][p]] : watches'[clauses'[c][p]][j].clause = c
    BY DEF EntriesThere
  <2>1. CASE c \in DOMAIN clauses
    <3>1. Watched(c) /\ clauses[c][p] \in Lits /\ clauses'[c] = clauses[c]
      <4>1. Watched(c)
        BY <1>6, <2>1
      <4> QED BY SMTT(60), <1>6, <2>1, <4>1 DEF Watched, ClauseTypes
    <3>2. PICK j \in DOMAIN watches[clauses[c][p]] : watches[clauses[c][p]][j].clause = c
      BY <2>1, <3>1 DEF EntriesThere
    <3> QED BY <1>12, <3>1, <3>2
  <2>2. CASE c = k
    <3>1. clauses'[c][p] \in {a, b}
      BY <1>3, <1>6, <2>2
    <3> QED BY SMTT(60), <1>9, <1>10, <2>2, <3>1
  <2> QED BY <1>4, <1>6, <2>1, <2>2
<1>19. TrailKnown'
  BY <1>5 DEF TrailKnown, AllDifferent, Lits, Value
<1>20. Covered'
  BY <1>2, <1>5, CoveredOneMore DEF Value
<1>21. Propagated' /\ Phases' /\ ModelSatisfies'
  BY <1>5 DEF Propagated, Phases, ModelSatisfies, Done
<1> QED BY <1>6, <1>13, <1>14, <1>16, <1>17, <1>18, <1>19, <1>20, <1>21

-----------------------------------------------------------------------------
(* A watch entry is looked at. *)

LEMMA LookFacts ==
  ASSUME IInv, Looking
  PROVE  /\ qhead \in 1 .. Len(trail) /\ FalseLit = -trail[qhead] /\ FalseLit \in Lits
         /\ Entries = watches[FalseLit] /\ Entries \in Seq(WatchEntry) /\ at \in 1 .. Len(Entries)
         /\ Entry = Entries[at] /\ Entry.clause \in DOMAIN clauses
         /\ Clause = clauses[Entry.clause] /\ Watched(Entry.clause)
         /\ Turned \in Seq(Lits) /\ Len(Turned) = Len(Clause) /\ Len(Turned) > 1
         /\ SameLits(Clause, Turned) /\ AllDifferent(Turned)
         /\ Turned[2] = FalseLit /\ {Turned[1], Turned[2]} = {Clause[1], Clause[2]}
         /\ Turned[1] \in Lits /\ HasLit(Entry.clause, Turned[1])
         /\ watches[FalseLit] \in Seq(WatchEntry) /\ DOMAIN watches[FalseLit] \subseteq Nat \ {0}
         /\ at \in DOMAIN watches[FalseLit] /\ watches[FalseLit][at].clause = Entry.clause
<1> USE DEF IInv, Types
<1>1. pc = "watch" /\ at <= Len(Entries)
  BY DEF Looking, Watching
<1>2. qhead \in 1 .. Len(trail) /\ trail \in Seq(Lits)
  <2>1. qhead > 0
    BY <1>1 DEF Propagated
  <2> QED BY <2>1 DEF LoopTypes, ValueTypes
<1>3. FalseLit = -trail[qhead] /\ FalseLit \in Lits
  BY <1>2, LitFacts DEF FalseLit, ClauseTypes
<1>4. Entries = watches[FalseLit] /\ Entries \in Seq(WatchEntry)
  BY <1>3 DEF Entries, ClauseTypes
<1>5. at \in 1 .. Len(Entries)
  BY <1>1, <1>4 DEF LoopTypes
<1>6. Entry = Entries[at] /\ Entry.clause \in DOMAIN clauses /\ Watched(Entry.clause)
      /\ FalseLit \in {Clause[1], Clause[2]} /\ Clause = clauses[Entry.clause]
  BY <1>3, <1>4, <1>5 DEF Entry, Clause, EntriesRight, Watched
<1>7. Clause \in Seq(Lits) /\ Len(Clause) > 1 /\ AllDifferent(Clause)
  BY <1>6 DEF ClauseTypes, NoRepeats, Watched
<1>8. 1 \in DOMAIN Clause /\ 2 \in DOMAIN Clause
  BY <1>7
<1>11. /\ watches[FalseLit] \in Seq(WatchEntry) /\ DOMAIN watches[FalseLit] \subseteq Nat \ {0}
       /\ at \in DOMAIN watches[FalseLit] /\ watches[FalseLit][at].clause = Entry.clause
  BY <1>4, <1>5, <1>6
<1>9. CASE Clause[1] = FalseLit
  <2> HIDE DEF IInv, Types
  <2>1. Turned = [Clause EXCEPT ![1] = Clause[2], ![2] = Clause[1]]
    BY <1>9 DEF Turned
  <2>2. PICK s \in Seq(Lits) : s = Clause
    BY <1>7
  <2>3. Turned = Swap(s, 1, 2)
    BY <2>1, <2>2 DEF Swap
  <2>4. /\ Swap(s, 1, 2) \in Seq(Lits) /\ Len(Swap(s, 1, 2)) = Len(s)
        /\ Swap(s, 1, 2)[1] = s[2] /\ Swap(s, 1, 2)[2] = s[1]
        /\ SameLits(s, Swap(s, 1, 2)) /\ (AllDifferent(s) => AllDifferent(Swap(s, 1, 2)))
    BY <1>8, <2>2, SwapFacts
  <2>5. Turned[1] \in Lits /\ HasLit(Entry.clause, Turned[1])
    BY <1>6, <1>7, <1>8, <2>2, <2>3, <2>4 DEF HasLit
  <2>6. Turned \in Seq(Lits) /\ Len(Turned) = Len(Clause) /\ Turned[1] = Clause[2] /\ Turned[2] = Clause[1]
        /\ SameLits(Clause, Turned) /\ AllDifferent(Turned)
    BY <1>7, <2>2, <2>3, <2>4
  <2> QED BY <1>2, <1>3, <1>4, <1>5, <1>6, <1>7, <1>9, <1>11, <2>5, <2>6
<1>10. CASE Clause[1] # FalseLit
  <2>1. Turned = Clause
    BY <1>10 DEF Turned
  <2>2. SameLits(Clause, Clause)
    BY DEF SameLits
  <2>3. Turned[1] \in Lits /\ HasLit(Entry.clause, Turned[1])
    BY <1>6, <1>7, <1>8, <2>1 DEF HasLit
  <2>4. Clause[2] = FalseLit
    BY <1>6, <1>10
  <2>5. Len(Turned) = Len(Clause) /\ SameLits(Clause, Turned) /\ Turned[2] = FalseLit
        /\ Turned[1] = Clause[1]
    BY <2>1, <2>2, <2>4
  <2>6. Turned \in Seq(Lits) /\ Len(Turned) > 1 /\ AllDifferent(Turned)
    BY <1>7, <2>1
  <2>7. {Turned[1], Turned[2]} = {Clause[1], Clause[2]}
    BY <2>1
  <2> HIDE DEF IInv, Types
  <2>8. /\ qhead \in 1 .. Len(trail) /\ FalseLit = -trail[qhead] /\ FalseLit \in Lits
        /\ Entries = watches[FalseLit] /\ Entries \in Seq(WatchEntry) /\ at \in 1 .. Len(Entries)
    BY <1>2, <1>3, <1>4, <1>5
  <2>9. /\ Entry = Entries[at] /\ Entry.clause \in DOMAIN clauses
        /\ Clause = clauses[Entry.clause] /\ Watched(Entry.clause)
    BY <1>6
  <2> QED BY <1>11, <2>3, <2>5, <2>6, <2>7, <2>8, <2>9
<1> QED BY <1>9, <1>10, <1>11

LEMMA ClauseReordered ==
  ASSUME IInv, NEW c \in DOMAIN clauses, NEW t \in Seq(Lits), Len(t) = Len(clauses[c]),
         SameLits(clauses[c], t), AllDifferent(t), clauses' = [clauses EXCEPT ![c] = t],
         UNCHANGED num_vars
  PROVE  /\ clauses' \in Seq(Seq(Lits)) /\ Len(clauses') = Len(clauses)
         /\ DOMAIN clauses' = DOMAIN clauses
         /\ clauses'[c] = t /\ \A d \in DOMAIN clauses : d # c => clauses'[d] = clauses[d]
         /\ \A d \in DOMAIN clauses :
              SameLits(clauses[d], clauses'[d]) /\ Len(clauses'[d]) = Len(clauses[d])
         /\ \A d \in DOMAIN clauses : Watched(d)' <=> Watched(d)
         /\ \A d \in DOMAIN clauses : \A l : HasLit(d, l)' <=> HasLit(d, l)
         /\ Lits' = Lits /\ WatchEntry' = WatchEntry
         /\ NoRepeats'
<1>1. clauses \in Seq(Seq(Lits))
  BY DEF IInv, Types, ClauseTypes
<1>2. /\ clauses' \in Seq(Seq(Lits)) /\ Len(clauses') = Len(clauses) /\ DOMAIN clauses' = DOMAIN clauses
      /\ clauses'[c] = t /\ \A d \in DOMAIN clauses : d # c => clauses'[d] = clauses[d]
  BY <1>1
<1>3. ASSUME NEW d \in DOMAIN clauses
      PROVE  SameLits(clauses[d], clauses'[d]) /\ Len(clauses'[d]) = Len(clauses[d])
  <2>1. SameLits(clauses[d], clauses[d])
    BY DEF SameLits
  <2> QED BY <1>2, <2>1
<1>4. /\ \A d \in DOMAIN clauses : Watched(d)' <=> Watched(d)
      /\ \A d \in DOMAIN clauses : \A l : HasLit(d, l)' <=> HasLit(d, l)
  BY <1>2, <1>3 DEF Watched, HasLit, SameLits
<1>5. Lits' = Lits /\ WatchEntry' = WatchEntry
  BY <1>2 DEF Lits, WatchEntry
<1>6. NoRepeats'
  <2> SUFFICES ASSUME NEW d \in DOMAIN clauses PROVE AllDifferent(clauses'[d])
    BY <1>2 DEF NoRepeats, AllDifferent
  <2> QED BY <1>2 DEF IInv, NoRepeats
<1> QED BY <1>2, <1>3, <1>4, <1>5, <1>6

\* The same two literals of the clause are watched and no entry goes to another
\* list.
LEMMA EntriesKept ==
  ASSUME IInv, NEW c \in DOMAIN clauses, NEW t \in Seq(Lits), Len(t) = Len(clauses[c]),
         SameLits(clauses[c], t), AllDifferent(t), clauses' = [clauses EXCEPT ![c] = t],
         UNCHANGED num_vars, {t[1], t[2]} = {clauses[c][1], clauses[c][2]},
         \A m \in Lits : DOMAIN watches'[m] = DOMAIN watches[m],
         \A m \in Lits : \A j \in DOMAIN watches[m] :
           /\ watches'[m][j].clause = watches[m][j].clause
           /\ HasLit(watches[m][j].clause, watches'[m][j].blocker)
  PROVE  EntriesRight' /\ EntriesOnce' /\ EntriesThere'
<1>1. /\ DOMAIN clauses' = DOMAIN clauses /\ Lits' = Lits
      /\ clauses'[c] = t /\ \A d \in DOMAIN clauses : d # c => clauses'[d] = clauses[d]
      /\ \A d \in DOMAIN clauses : Watched(d)' <=> Watched(d)
      /\ \A d \in DOMAIN clauses : \A l : HasLit(d, l)' <=> HasLit(d, l)
  BY ClauseReordered
<1>2. \A d \in DOMAIN clauses : {clauses'[d][1], clauses'[d][2]} = {clauses[d][1], clauses[d][2]}
  BY <1>1
<1>3. EntriesRight'
  <2> SUFFICES ASSUME NEW m \in Lits, NEW j \in DOMAIN watches'[m], NEW d, d = watches'[m][j].clause,
                      NEW e, e = watches'[m][j].blocker
               PROVE  Watched(d)' /\ m \in {clauses'[d][1], clauses'[d][2]} /\ HasLit(d, e)'
    BY <1>1 DEF EntriesRight
  <2>1. j \in DOMAIN watches[m] /\ d = watches[m][j].clause /\ HasLit(d, e)
    OBVIOUS
  <2>2. Watched(d) /\ m \in {clauses[d][1], clauses[d][2]}
    BY <2>1 DEF IInv, EntriesRight
  <2>3. d \in DOMAIN clauses
    BY <2>2 DEF Watched
  <2> QED BY <1>1, <1>2, <2>1, <2>2, <2>3
<1>4. EntriesOnce'
  BY <1>1 DEF IInv, EntriesOnce
<1>5. EntriesThere'
  <2> SUFFICES ASSUME NEW d \in DOMAIN clauses, Watched(d), NEW p \in {1, 2}
               PROVE  \E j \in DOMAIN watches'[clauses'[d][p]] : watches'[clauses'[d][p]][j].clause = d
    BY <1>1 DEF EntriesThere
  <2>1. PICK q \in {1, 2} : clauses'[d][p] = clauses[d][q]
    BY <1>2
  <2>2. PICK j \in DOMAIN watches[clauses[d][q]] : watches[clauses[d][q]][j].clause = d
    BY DEF IInv, EntriesThere
  <2>3. clauses[d][q] \in Lits
    BY DEF IInv, Types, ClauseTypes, Watched
  <2> QED BY <2>1, <2>2, <2>3
<1> QED BY <1>3, <1>4, <1>5

\* One more entry of the literal just propagated was dealt with, or one went.
LEMMA LookPropagated ==
  ASSUME IInv, Looking, UNCHANGED <<pc, qhead>>,
         \A i \in DOMAIN trail : trail'[i] = trail[i],
         \A d \in DOMAIN clauses : Sat(d) => Sat(d)',
         \A i \in 1 .. qhead - 1 : \A j \in DOMAIN watches'[-trail[i]] :
           j \in DOMAIN watches[-trail[i]] /\ watches'[-trail[i]][j].clause = watches[-trail[i]][j].clause,
         \A j \in DOMAIN watches'[FalseLit] : j < at' =>
           \/ /\ j \in DOMAIN watches[FalseLit] /\ j < at
              /\ watches'[FalseLit][j].clause = watches[FalseLit][j].clause
           \/ \E d \in DOMAIN clauses : d = watches'[FalseLit][j].clause /\ Sat(d)'
  PROVE  Propagated'
<1>1. /\ qhead \in 1 .. Len(trail) /\ FalseLit = -trail[qhead] /\ FalseLit \in Lits
      /\ Entries = watches[FalseLit] /\ trail \in Seq(Lits)
  BY LookFacts DEF IInv, Types, ValueTypes
<1>2. pc = "watch" /\ pc' = "watch" /\ Done = qhead - 1 /\ Done' = qhead - 1 /\ qhead' = qhead
  BY DEF Looking, Watching, Done
<1>3. ASSUME NEW m \in Lits, NEW j \in DOMAIN watches[m]
      PROVE  watches[m][j].clause \in DOMAIN clauses
  BY DEF IInv, EntriesRight, Watched
<1>4. ASSUME NEW i \in 1 .. qhead - 1
      PROVE  i \in DOMAIN trail /\ trail'[i] = trail[i] /\ -trail[i] \in Lits
  <2>1. i \in DOMAIN trail /\ trail[i] \in Lits
    BY <1>1
  <2> QED BY <2>1, LitFacts DEF IInv, Types, ClauseTypes
<1>5. ASSUME NEW i \in 1 .. qhead - 1, NEW j \in DOMAIN watches'[-trail'[i]]
      PROVE  Sat(watches[-trail[i]][j].clause)'
  <2>1. j \in DOMAIN watches[-trail[i]] /\ watches'[-trail'[i]][j].clause = watches[-trail[i]][j].clause
    BY <1>4
  <2>2. PICK d \in DOMAIN clauses : d = watches[-trail[i]][j].clause
    BY <1>3, <1>4, <2>1
  <2>3. Sat(d)
    BY <1>2, <1>5, <2>1, <2>2 DEF IInv, Propagated
  <2> QED BY <2>1, <2>2, <2>3
<1>6. trail'[qhead] = trail[qhead] /\ Entries' = watches'[FalseLit]
  BY <1>1, <1>2 DEF Entries, FalseLit
<1>7. ASSUME NEW j \in DOMAIN Entries', j < at'
      PROVE  \E d \in DOMAIN clauses : d = Entries'[j].clause /\ Sat(d)'
  <2>1. CASE /\ j \in DOMAIN watches[FalseLit] /\ j < at
             /\ watches'[FalseLit][j].clause = watches[FalseLit][j].clause
    <3>1. Sat(Entries[j].clause)
      BY <1>1, <1>2, <2>1 DEF IInv, Propagated
    <3>2. PICK d \in DOMAIN clauses : d = Entries[j].clause
      BY <1>1, <1>3, <2>1
    <3> QED BY <1>1, <1>6, <2>1, <3>1, <3>2
  <2> QED BY <1>6, <1>7, <2>1
<1>8. qhead' > 0 /\ \A j \in DOMAIN Entries' : j < at' => Sat(Entries[j].clause)'
  BY <1>1, <1>2, <1>7
<1>9. \A i \in 1 .. Done' : \A j \in DOMAIN watches'[-trail'[i]] : Sat(watches[-trail[i]][j].clause)'
  BY <1>2, <1>5
<1> QED BY <1>8, <1>9 DEF Propagated

LEMMA FirstTrueKeeps ==
  ASSUME IInv, FirstTrue
  PROVE  IInv'
<1> USE DEF IInv, Types
<1>1. Looking
  BY DEF FirstTrue
<1>2. PICK c \in DOMAIN clauses, t \in Seq(Lits), f \in Lits :
        /\ c = Entry.clause /\ t = Turned /\ f = FalseLit
        /\ Len(t) = Len(clauses[c]) /\ SameLits(clauses[c], t) /\ AllDifferent(t) /\ Len(t) > 1
        /\ {t[1], t[2]} = {clauses[c][1], clauses[c][2]} /\ HasLit(c, t[1]) /\ t[1] \in Lits
        /\ watches[f] \in Seq(WatchEntry) /\ at \in DOMAIN watches[f]
        /\ DOMAIN watches[f] \subseteq Nat \ {0} /\ watches[f][at].clause = c
  BY <1>1, LookFacts
<1>3. PICK b \in Lits : b = t[1]
  BY <1>2
<1>4. PICK e : e = [watches[f][at] EXCEPT !.blocker = b]
  OBVIOUS
<1>5. /\ clauses' = [clauses EXCEPT ![c] = t]
      /\ watches' = [watches EXCEPT ![f] = [@ EXCEPT ![at] = e]]
      /\ at' = at + 1 /\ Value(b) = True
      /\ UNCHANGED <<num_vars, formula, added, assignment, level, reason, trail, qhead, levels,
                     conflict, pc, verdict>>
      /\ pc = "watch"
  BY <1>1, <1>2, <1>3, <1>4 DEF FirstTrue, valueVars, Looking, Watching
<1>6. /\ clauses' \in Seq(Seq(Lits)) /\ Len(clauses') = Len(clauses) /\ DOMAIN clauses' = DOMAIN clauses
      /\ \A d \in DOMAIN clauses :
           SameLits(clauses[d], clauses'[d]) /\ Len(clauses'[d]) = Len(clauses[d])
      /\ Lits' = Lits /\ WatchEntry' = WatchEntry
      /\ NoRepeats'
  BY <1>2, <1>5, ClauseReordered
<1>7. \A m \in Lits : Value(m)' = Value(m)
  BY <1>5 DEF Value
<1>8. \A d \in DOMAIN clauses : Sat(d) => Sat(d)'
  BY <1>6, <1>7, SatStays
<1>9. e \in WatchEntry /\ e.clause = c /\ e.blocker = b
  <2>1. watches[f][at] \in WatchEntry
    BY <1>2
  <2> QED BY <1>2, <1>4, <2>1 DEF WatchEntry
<1>10. /\ watches' \in [Lits -> Seq(WatchEntry)]
       /\ \A m \in Lits : DOMAIN watches'[m] = DOMAIN watches[m]
       /\ \A m \in Lits : \A j \in DOMAIN watches[m] :
            watches'[m][j] = IF m = f /\ j = at THEN e ELSE watches[m][j]
  <2>1. watches \in [Lits -> Seq(WatchEntry)]
    BY DEF ClauseTypes
  <2>2. [watches[f] EXCEPT ![at] = e] \in Seq(WatchEntry)
    BY <1>2, <1>9
  <2>3. watches'[f] = [watches[f] EXCEPT ![at] = e]
    BY <1>5, <2>1
  <2>4. \A m \in Lits : m # f => watches'[m] = watches[m]
    BY <1>5, <2>1
  <2>5. watches' \in [Lits -> Seq(WatchEntry)]
    BY <1>5, <2>1, <2>2
  <2>6. DOMAIN watches'[f] = DOMAIN watches[f]
        /\ \A j \in DOMAIN watches[f] : watches'[f][j] = IF j = at THEN e ELSE watches[f][j]
    BY <1>2, <2>3
  <2> QED BY <2>4, <2>5, <2>6
<1>17. ASSUME NEW m \in Lits, NEW j \in DOMAIN watches[m]
       PROVE  /\ watches'[m][j].clause = watches[m][j].clause
              /\ HasLit(watches[m][j].clause, watches'[m][j].blocker)
  <2>1. CASE m = f /\ j = at
    BY <1>2, <1>3, <1>9, <1>10, <2>1
  <2>2. CASE ~(m = f /\ j = at)
    BY <1>10, <2>2 DEF EntriesRight
  <2> QED BY <2>1, <2>2
<1>11. EntriesRight' /\ EntriesOnce' /\ EntriesThere'
  <2> QED BY <1>2, <1>5, <1>10, <1>17, EntriesKept
<1>12. Propagated'
  <2>1. \A i \in 1 .. qhead - 1 : -trail[i] \in Lits
    <3>1. trail \in Seq(Lits) /\ qhead \in 1 .. Len(trail)
      BY <1>1, LookFacts DEF ValueTypes
    <3> QED BY SMTT(60), <3>1, LitFacts DEF ClauseTypes
  <2>2. \A i \in 1 .. qhead - 1 : \A j \in DOMAIN watches'[-trail[i]] :
           j \in DOMAIN watches[-trail[i]] /\ watches'[-trail[i]][j].clause = watches[-trail[i]][j].clause
    BY <1>10, <1>17, <2>1
  <2>3. Sat(c)'
    BY <1>2, <1>3, <1>5, <1>8 DEF Sat, HasLit
  <2>4. ASSUME NEW j \in DOMAIN watches'[FalseLit], j < at'
        PROVE  \/ /\ j \in DOMAIN watches[FalseLit] /\ j < at
                  /\ watches'[FalseLit][j].clause = watches[FalseLit][j].clause
               \/ \E d \in DOMAIN clauses : d = watches'[FalseLit][j].clause /\ Sat(d)'
    <3>1. j \in DOMAIN watches[f] /\ j \in Nat
      BY <1>2, <1>10, <2>4
    <3>2. j < at \/ j = at
      BY <1>2, <1>5, <2>4, <3>1
    <3>3. CASE j < at
      BY <1>2, <1>17, <3>1, <3>3
    <3>4. CASE j = at
      BY <1>2, <1>17, <2>3, <3>1, <3>4
    <3> QED BY <3>2, <3>3, <3>4
  <2> QED BY <1>1, <1>5, <1>8, <2>2, <2>4, LookPropagated
<1>13. ClauseTypes' /\ ValueTypes' /\ LoopTypes'
  <2>1. ClauseTypes'
    BY <1>5, <1>6, <1>10 DEF ClauseTypes
  <2>2. ValueTypes'
    BY <1>5, <1>6 DEF ValueTypes
  <2>3. LoopTypes'
    BY <1>2, <1>5, <1>6 DEF LoopTypes
  <2> QED BY <2>1, <2>2, <2>3
<1>14. TrailKnown'
  BY <1>5, <1>6, <1>7 DEF TrailKnown, AllDifferent
<1>15. Covered'
  BY <1>5, <1>6, <1>7, CoveredGrows
<1>16. Phases' /\ ModelSatisfies'
  BY <1>5 DEF Phases, ModelSatisfies
<1> QED BY <1>6, <1>11, <1>12, <1>13, <1>14, <1>15, <1>16

LEMMA FindConflictKeeps ==
  ASSUME IInv, FindConflict
  PROVE  IInv'
<1> USE DEF IInv, Types
<1>1. Looking
  BY DEF FindConflict, Stuck
<1>2. PICK c \in DOMAIN clauses, t \in Seq(Lits) :
        /\ c = Entry.clause /\ t = Turned
        /\ Len(t) = Len(clauses[c]) /\ SameLits(clauses[c], t) /\ AllDifferent(t)
        /\ {t[1], t[2]} = {clauses[c][1], clauses[c][2]}
  BY <1>1, LookFacts
<1>3. /\ clauses' = [clauses EXCEPT ![c] = t] /\ conflict' = c /\ pc' = "conflict" /\ pc = "watch"
      /\ UNCHANGED <<num_vars, formula, added, watches, assignment, level, reason, trail, qhead,
                     levels, at, verdict>>
  BY <1>1, <1>2 DEF FindConflict, valueVars, Looking, Watching
<1>4. /\ clauses' \in Seq(Seq(Lits)) /\ Len(clauses') = Len(clauses) /\ DOMAIN clauses' = DOMAIN clauses
      /\ \A d \in DOMAIN clauses :
           SameLits(clauses[d], clauses'[d]) /\ Len(clauses'[d]) = Len(clauses[d])
      /\ Lits' = Lits /\ WatchEntry' = WatchEntry
      /\ NoRepeats'
  BY <1>2, <1>3, ClauseReordered
<1>5. \A m \in Lits : Value(m)' = Value(m)
  BY <1>3 DEF Value
<1>6. EntriesRight' /\ EntriesOnce' /\ EntriesThere'
  BY <1>2, <1>3, EntriesKept DEF EntriesRight
<1>7. ClauseTypes' /\ ValueTypes'
  BY <1>3, <1>4 DEF ClauseTypes, ValueTypes
<1>8. LoopTypes'
  <2>1. c \in 0 .. Len(clauses')
    BY <1>4
  <2> QED BY <1>3, <2>1 DEF LoopTypes
<1>9. TrailKnown'
  BY <1>3, <1>4, <1>5 DEF TrailKnown, AllDifferent
<1>10. Covered'
  BY <1>3, <1>4, <1>5, CoveredGrows
<1>11. Propagated' /\ Phases' /\ ModelSatisfies'
  BY <1>3 DEF Propagated, Phases, ModelSatisfies
<1> QED BY <1>4, <1>6, <1>7, <1>8, <1>9, <1>10, <1>11

LEMMA ImplyKeeps ==
  ASSUME IInv, Imply
  PROVE  IInv'
<1> USE DEF IInv, Types
<1>1. Looking
  BY DEF Imply, Stuck
<1>2. PICK c \in DOMAIN clauses, t \in Seq(Lits), l \in Lits :
        /\ c = Entry.clause /\ t = Turned /\ l = t[1]
        /\ Len(t) = Len(clauses[c]) /\ SameLits(clauses[c], t) /\ AllDifferent(t) /\ HasLit(c, l)
        /\ {t[1], t[2]} = {clauses[c][1], clauses[c][2]} /\ Len(t) > 1
        /\ at \in DOMAIN watches[FalseLit] /\ watches[FalseLit][at].clause = c
        /\ DOMAIN watches[FalseLit] \subseteq Nat \ {0} /\ FalseLit \in Lits /\ qhead \in 1 .. Len(trail)
  BY <1>1, LookFacts
<1>3. /\ clauses' = [clauses EXCEPT ![c] = t] /\ at' = at + 1 /\ pc = "watch" /\ Value(l) = Unassigned
      /\ assignment' = [assignment EXCEPT ![VarOf(l)] = IF l > 0 THEN True ELSE False]
      /\ trail' = Append(trail, l)
      /\ level' = [level EXCEPT ![VarOf(l)] = levels]
      /\ reason' = [reason EXCEPT ![VarOf(l)] = c]
      /\ UNCHANGED <<num_vars, formula, added, watches, qhead, levels, conflict, pc, verdict>>
  BY <1>1, <1>2 DEF Imply, Assign, Looking, Watching
<1>4. /\ clauses' \in Seq(Seq(Lits)) /\ Len(clauses') = Len(clauses) /\ DOMAIN clauses' = DOMAIN clauses
      /\ clauses'[c] = t
      /\ \A d \in DOMAIN clauses :
           SameLits(clauses[d], clauses'[d]) /\ Len(clauses'[d]) = Len(clauses[d])
      /\ Lits' = Lits /\ WatchEntry' = WatchEntry
      /\ NoRepeats'
  BY <1>2, <1>3, ClauseReordered
<1>5. /\ TrailKnown' /\ Value(l)' = True
      /\ \A m \in Lits : Value(m) = True => Value(m)' = True
      /\ assignment' \in [1 .. num_vars -> {True, False, Unassigned}]
      /\ trail' \in Seq(Lits) /\ Len(trail') = Len(trail) + 1
      /\ \A i \in DOMAIN trail : trail'[i] = trail[i]
  BY <1>3, TrailGrows
<1>6. \A d \in DOMAIN clauses : Sat(d) => Sat(d)'
  BY <1>4, <1>5, SatStays
<1>7. EntriesRight' /\ EntriesOnce' /\ EntriesThere'
  BY <1>2, <1>3, EntriesKept DEF EntriesRight
<1>8. ClauseTypes'
  BY <1>3, <1>4 DEF ClauseTypes
<1>9. ValueTypes'
  <2>1. VarOf(l) \in 1 .. num_vars
    BY LitFacts DEF ClauseTypes
  <2>2. level' \in [1 .. num_vars -> 0 .. levels] /\ levels \in Nat
    BY <1>3, <2>1 DEF ValueTypes
  <2>3. reason' \in [1 .. num_vars -> 0 .. Len(clauses')]
    <3>1. c \in 0 .. Len(clauses)
      BY DEF ClauseTypes
    <3> QED BY <1>3, <1>4, <2>1, <3>1 DEF ValueTypes
  <2> QED BY <1>3, <1>4, <1>5, <2>2, <2>3 DEF ValueTypes
<1>10. LoopTypes'
  BY SMTT(60), <1>2, <1>3, <1>4, <1>5 DEF LoopTypes, ValueTypes
<1>11. Covered'
  BY <1>3, <1>4, <1>5, CoveredGrows
<1>12. Propagated'
  <2>1. Sat(c)'
    <3>1. 1 \in DOMAIN clauses'[c] /\ clauses'[c][1] = l
      BY <1>2, <1>4
    <3> QED BY <1>5, <3>1 DEF Sat, Value
  <2>2. ASSUME NEW j \in DOMAIN watches'[FalseLit], j < at'
        PROVE  \/ /\ j \in DOMAIN watches[FalseLit] /\ j < at
                  /\ watches'[FalseLit][j].clause = watches[FalseLit][j].clause
               \/ \E d \in DOMAIN clauses : d = watches'[FalseLit][j].clause /\ Sat(d)'
    <3>1. j \in Nat
      BY <1>2, <1>3
    <3>2. j < at \/ j = at
      BY <1>2, <1>3, <2>2, <3>1
    <3> QED BY <1>2, <1>3, <2>1, <3>2
  <2>3. \A i \in 1 .. qhead - 1 : \A j \in DOMAIN watches'[-trail[i]] :
           j \in DOMAIN watches[-trail[i]] /\ watches'[-trail[i]][j].clause = watches[-trail[i]][j].clause
    BY <1>3
  <2> QED BY <1>1, <1>3, <1>5, <1>6, <2>2, <2>3, LookPropagated
<1>13. Phases' /\ ModelSatisfies'
  BY <1>3 DEF Phases, ModelSatisfies
<1> QED BY <1>4, <1>5, <1>7, <1>8, <1>9, <1>10, <1>11, <1>12, <1>13

LEMMA SwapRemoveFacts ==
  ASSUME NEW E, NEW s \in Seq(E), NEW i \in DOMAIN s, NEW r, r = SwapRemove(s, i)
  PROVE  /\ r \in Seq(E)
         /\ DOMAIN s = 1 .. Len(s) /\ Len(s) \in Nat /\ DOMAIN r = 1 .. Len(s) - 1
         /\ \A j \in DOMAIN r : r[j] = IF j = i THEN s[Len(s)] ELSE s[j]
<1>1. DOMAIN s = 1 .. Len(s) /\ Len(s) \in Nat /\ Len(s) \in DOMAIN s
  OBVIOUS
<1>2. r = [k \in 1 .. Len(s) - 1 |-> IF k = i THEN s[Len(s)] ELSE s[k]]
  BY DEF SwapRemove
<1>3. Len(s) - 1 \in Nat /\ \A k \in 1 .. Len(s) - 1 : s[Len(s)] \in E /\ s[k] \in E
  BY <1>1
<1> HIDE DEF SwapRemove
<1>4. r \in [1 .. Len(s) - 1 -> E]
  BY <1>2, <1>3
<1>5. r \in Seq(E)
  BY <1>3, <1>4
<1>6. DOMAIN r = 1 .. Len(s) - 1 /\ \A j \in DOMAIN r : r[j] = IF j = i THEN s[Len(s)] ELSE s[j]
  BY <1>2
<1> QED BY <1>1, <1>5, <1>6

\* What a move does, with names for what it looks at: clause c, put in the order t
\* and then with its second and its k-th literal exchanged, leaves the list of f for
\* the list of u.
Moved(c, t, t2, f, u, b, k) ==
  /\ c = Entry.clause /\ t = Turned /\ f = FalseLit
  /\ Len(t) = Len(clauses[c]) /\ SameLits(clauses[c], t) /\ AllDifferent(t) /\ HasLit(c, b)
  /\ {t[1], t[2]} = {clauses[c][1], clauses[c][2]} /\ Len(t) > 1 /\ Watched(c)
  /\ watches[f] \in Seq(WatchEntry) /\ at \in DOMAIN watches[f]
  /\ DOMAIN watches[f] \subseteq Nat \ {0} /\ watches[f][at].clause = c
  /\ qhead \in 1 .. Len(trail) /\ f = -trail[qhead]
  /\ t[1] = b /\ t[2] = f /\ t[k] = u /\ k \in 3 .. Len(t) /\ Value(u) # False
  /\ b # f /\ u # f /\ u # b /\ t2 = Swap(t, 2, k)
  /\ Len(t2) = Len(clauses[c]) /\ SameLits(clauses[c], t2) /\ AllDifferent(t2)
  /\ t2[1] = b /\ t2[2] = u

MovesEntry(c, f, u, b) == watches' = [Watch(watches, u, c, b) EXCEPT ![f] = SwapRemove(@, at)]

LEMMA MoveFacts ==
  ASSUME IInv, MoveWatch
  PROVE  \E c \in DOMAIN clauses, t, t2 \in Seq(Lits), f, u, b \in Lits, k \in Nat :
           /\ Moved(c, t, t2, f, u, b, k)
           /\ clauses' = [clauses EXCEPT ![c] = t2]
           /\ MovesEntry(c, f, u, b)
<1>1. Looking
  BY DEF MoveWatch
<1>2. PICK c \in DOMAIN clauses, t \in Seq(Lits), f \in Lits, b \in Lits :
        /\ c = Entry.clause /\ t = Turned /\ f = FalseLit
        /\ Len(t) = Len(clauses[c]) /\ SameLits(clauses[c], t) /\ AllDifferent(t) /\ HasLit(c, b)
        /\ {t[1], t[2]} = {clauses[c][1], clauses[c][2]} /\ Len(t) > 1 /\ Watched(c)
        /\ watches[f] \in Seq(WatchEntry) /\ at \in DOMAIN watches[f]
        /\ DOMAIN watches[f] \subseteq Nat \ {0} /\ watches[f][at].clause = c
        /\ qhead \in 1 .. Len(trail) /\ f = -trail[qhead] /\ t[1] = b /\ t[2] = f
  BY <1>1, LookFacts
<1>3. PICK k \in Spare :
        /\ clauses' = [clauses EXCEPT ![Entry.clause] = [Turned EXCEPT ![2] = Turned[k], ![k] = FalseLit]]
        /\ watches' = [Watch(watches, Turned[k], Entry.clause, Turned[1])
                         EXCEPT ![FalseLit] = SwapRemove(@, at)]
  BY DEF MoveWatch
<1>4. k \in 3 .. Len(t) /\ k \in Nat /\ k \in DOMAIN t /\ 1 \in DOMAIN t /\ 2 \in DOMAIN t
      /\ k # 1 /\ k # 2
  BY <1>2, <1>3 DEF Spare
<1>5. PICK u \in Lits : u = t[k]
  BY <1>4
<1>6. Value(u) # False /\ b # f /\ u # f /\ u # b
  BY <1>2, <1>3, <1>4, <1>5 DEF Spare, AllDifferent
<1>7. PICK t2 \in Seq(Lits) :
        /\ t2 = Swap(t, 2, k) /\ Len(t2) = Len(t) /\ SameLits(t, t2) /\ AllDifferent(t2)
        /\ t2[1] = b /\ t2[2] = u
  <2>1. /\ Swap(t, 2, k) \in Seq(Lits) /\ Len(Swap(t, 2, k)) = Len(t) /\ SameLits(t, Swap(t, 2, k))
        /\ (AllDifferent(t) => AllDifferent(Swap(t, 2, k))) /\ Swap(t, 2, k)[2] = t[k]
        /\ \A j \in DOMAIN t : j # 2 /\ j # k => Swap(t, 2, k)[j] = t[j]
    <3>1. 2 \in DOMAIN t /\ k \in DOMAIN t
      BY <1>4
    <3> QED BY <3>1, SwapFacts
  <2> QED BY <1>2, <1>4, <1>5, <2>1
<1>8. SameLits(clauses[c], t2)
  BY <1>2, <1>7 DEF SameLits
<1>9. Moved(c, t, t2, f, u, b, k)
  BY <1>2, <1>4, <1>5, <1>6, <1>7, <1>8 DEF Moved
<1>10. clauses' = [clauses EXCEPT ![c] = t2]
  BY <1>2, <1>3, <1>5, <1>7 DEF Swap
<1>11. MovesEntry(c, f, u, b)
  BY <1>2, <1>3, <1>5 DEF MovesEntry
<1> QED BY <1>4, <1>9, <1>10, <1>11

\* The lists after a move.
LEMMA MovedLists ==
  ASSUME IInv, NEW c \in DOMAIN clauses, NEW t \in Seq(Lits), NEW t2 \in Seq(Lits),
         NEW f \in Lits, NEW u \in Lits, NEW b \in Lits, NEW k \in Nat, Moved(c, t, t2, f, u, b, k),
         MovesEntry(c, f, u, b)
  PROVE  /\ watches' \in [Lits -> Seq(WatchEntry)]
         /\ \A m \in Lits : DOMAIN watches[m] = 1 .. Len(watches[m]) /\ Len(watches[m]) \in Nat
         /\ \A m \in Lits : m # f /\ m # u => watches'[m] = watches[m]
         /\ DOMAIN watches'[u] = 1 .. Len(watches[u]) + 1
         /\ \A j \in DOMAIN watches[u] : watches'[u][j] = watches[u][j]
         /\ watches'[u][Len(watches[u]) + 1].clause = c
         /\ watches'[u][Len(watches[u]) + 1].blocker = b
         /\ DOMAIN watches'[f] = 1 .. Len(watches[f]) - 1
         /\ \A j \in DOMAIN watches'[f] :
              watches'[f][j] = IF j = at THEN watches[f][Len(watches[f])] ELSE watches[f][j]
<1>1. watches \in [Lits -> Seq(WatchEntry)]
  BY DEF IInv, Types, ClauseTypes
<1>2. \A m \in Lits : DOMAIN watches[m] = 1 .. Len(watches[m]) /\ Len(watches[m]) \in Nat
  BY <1>1
<1>3. PICK e \in WatchEntry : e = [clause |-> c, blocker |-> b]
  <2>1. c \in 1 .. Len(clauses)
    BY DEF IInv, Types, ClauseTypes
  <2>2. [clause |-> c, blocker |-> b] \in WatchEntry
    BY <2>1 DEF WatchEntry
  <2> QED BY <2>2
<1>4. PICK ws : ws = [watches EXCEPT ![u] = Append(@, e)]
  OBVIOUS
<1>5. /\ ws \in [Lits -> Seq(WatchEntry)]
      /\ \A m \in Lits : m # u => ws[m] = watches[m]
      /\ Len(ws[u]) = Len(watches[u]) + 1
      /\ \A j \in 1 .. Len(watches[u]) : ws[u][j] = watches[u][j]
      /\ ws[u][Len(watches[u]) + 1] = e
  BY <1>1, <1>4, WatchFacts
<1>6. u # f /\ at \in DOMAIN watches[f] /\ watches[f] \in Seq(WatchEntry)
  BY DEF Moved
<1>7. ws[f] = watches[f]
  BY <1>5, <1>6
<1>8. watches' = [ws EXCEPT ![f] = SwapRemove(watches[f], at)]
  BY <1>3, <1>4, <1>7 DEF Watch, MovesEntry
<1>9. PICK r : r = SwapRemove(watches[f], at)
  OBVIOUS
<1>10. /\ r \in Seq(WatchEntry) /\ DOMAIN r = 1 .. Len(watches[f]) - 1
       /\ \A j \in DOMAIN r : r[j] = IF j = at THEN watches[f][Len(watches[f])] ELSE watches[f][j]
  BY SMTT(60), <1>6, <1>9, SwapRemoveFacts
<1>11. /\ watches' \in [Lits -> Seq(WatchEntry)] /\ watches'[f] = r
       /\ \A m \in Lits : m # f => watches'[m] = ws[m]
  BY <1>5, <1>8, <1>9, <1>10
<1>12. watches'[u] = ws[u] /\ DOMAIN ws[u] = 1 .. Len(watches[u]) + 1
  BY <1>5, <1>6, <1>11
<1>13. /\ DOMAIN watches'[u] = 1 .. Len(watches[u]) + 1
       /\ \A j \in DOMAIN watches[u] : watches'[u][j] = watches[u][j]
       /\ watches'[u][Len(watches[u]) + 1].clause = c
       /\ watches'[u][Len(watches[u]) + 1].blocker = b
  <2>1. e.clause = c /\ e.blocker = b
    BY <1>3
  <2>2. watches'[u][Len(watches[u]) + 1] = e
    BY <1>5, <1>12
  <2>3. \A j \in DOMAIN watches[u] : watches'[u][j] = watches[u][j]
    BY <1>2, <1>5, <1>12
  <2> QED BY <1>12, <2>1, <2>2, <2>3
<1>14. \A m \in Lits : m # f /\ m # u => watches'[m] = watches[m]
  BY <1>5, <1>11
<1> QED BY <1>2, <1>10, <1>11, <1>13, <1>14

\* Where the entries of a list come from, and where they go.
EntriesMoved(c, f, u, b) ==
  /\ \A m \in Lits : \A j \in DOMAIN watches[m] :
       watches[m][j].clause = c => m = b \/ (m = f /\ j = at)
  /\ \A m \in Lits : \A j \in DOMAIN watches'[m] :
       \/ /\ m = u /\ j = Len(watches[u]) + 1
          /\ watches'[m][j].clause = c /\ watches'[m][j].blocker = b
       \/ /\ m # f /\ j \in DOMAIN watches[m] /\ watches'[m][j] = watches[m][j]
       \/ /\ m = f /\ j # Len(watches[f]) /\ j \in DOMAIN watches[f]
          /\ IF j = at THEN watches'[m][j] = watches[f][Len(watches[f])] /\ at # Len(watches[f])
                       ELSE watches'[m][j] = watches[f][j]
  /\ \A m \in Lits : \A j \in DOMAIN watches[m] :
       ~(m = f /\ j = at) => \E i \in DOMAIN watches'[m] : watches'[m][i] = watches[m][j]

LEMMA MovedEntries ==
  ASSUME IInv, NEW c \in DOMAIN clauses, NEW t \in Seq(Lits), NEW t2 \in Seq(Lits),
         NEW f \in Lits, NEW u \in Lits, NEW b \in Lits, NEW k \in Nat, Moved(c, t, t2, f, u, b, k),
         MovesEntry(c, f, u, b)
  PROVE  EntriesMoved(c, f, u, b)
<1>1. /\ \A m \in Lits : DOMAIN watches[m] = 1 .. Len(watches[m]) /\ Len(watches[m]) \in Nat
      /\ \A m \in Lits : m # f /\ m # u => watches'[m] = watches[m]
      /\ DOMAIN watches'[u] = 1 .. Len(watches[u]) + 1
      /\ \A j \in DOMAIN watches[u] : watches'[u][j] = watches[u][j]
      /\ watches'[u][Len(watches[u]) + 1].clause = c
      /\ watches'[u][Len(watches[u]) + 1].blocker = b
      /\ DOMAIN watches'[f] = 1 .. Len(watches[f]) - 1
      /\ \A j \in DOMAIN watches'[f] :
           watches'[f][j] = IF j = at THEN watches[f][Len(watches[f])] ELSE watches[f][j]
  BY SMTT(60), MovedLists
<1>2. /\ {b, f} = {clauses[c][1], clauses[c][2]} /\ at \in DOMAIN watches[f] /\ u # f
      /\ watches[f][at].clause = c
  BY DEF Moved
<1>3. ASSUME NEW m \in Lits, NEW j \in DOMAIN watches[m], watches[m][j].clause = c
      PROVE  m = b \/ (m = f /\ j = at)
  <2>1. m \in {clauses[c][1], clauses[c][2]}
    BY <1>3 DEF IInv, EntriesRight
  <2>2. m = f => j = at
    BY <1>2, <1>3 DEF IInv, EntriesOnce
  <2> QED BY <1>2, <2>1, <2>2
<1>4. ASSUME NEW m \in Lits, NEW j \in DOMAIN watches'[m]
      PROVE  \/ /\ m = u /\ j = Len(watches[u]) + 1
                /\ watches'[m][j].clause = c /\ watches'[m][j].blocker = b
             \/ /\ m # f /\ j \in DOMAIN watches[m] /\ watches'[m][j] = watches[m][j]
             \/ /\ m = f /\ j # Len(watches[f]) /\ j \in DOMAIN watches[f]
                /\ IF j = at THEN watches'[m][j] = watches[f][Len(watches[f])] /\ at # Len(watches[f])
                             ELSE watches'[m][j] = watches[f][j]
  <2>1. CASE m # f /\ m # u
    BY <1>1, <2>1
  <2>2. CASE m = u
    <3>1. j \in DOMAIN watches[u] \/ j = Len(watches[u]) + 1
      BY <1>1, <2>2
    <3> QED BY <1>1, <1>2, <2>2, <3>1
  <2>3. CASE m = f
    <3>1. j \in DOMAIN watches[f] /\ j # Len(watches[f])
      BY <1>1, <2>3
    <3> QED BY <1>1, <2>3, <3>1
  <2> QED BY <2>1, <2>2, <2>3
<1>5. ASSUME NEW m \in Lits, NEW j \in DOMAIN watches[m], ~(m = f /\ j = at)
      PROVE  \E i \in DOMAIN watches'[m] : watches'[m][i] = watches[m][j]
  <2>1. CASE m # f /\ m # u
    BY <1>1, <2>1
  <2>2. CASE m = u
    <3>1. j \in DOMAIN watches'[u]
      BY <1>1, <2>2
    <3> QED BY <1>1, <2>2, <3>1
  <2>3. CASE m = f /\ j # Len(watches[f])
    <3>1. j \in DOMAIN watches'[f] /\ j # at
      BY <1>1, <1>5, <2>3
    <3> QED BY <1>1, <2>3, <3>1
  <2>4. CASE m = f /\ j = Len(watches[f])
    <3>1. at \in DOMAIN watches'[f]
      BY <1>1, <1>2, <1>5, <2>4
    <3> QED BY <1>1, <2>4, <3>1
  <2> QED BY <2>1, <2>2, <2>3, <2>4
<1> QED BY <1>3, <1>4, <1>5 DEF EntriesMoved

LEMMA MoveKeepsEntries ==
  ASSUME IInv, NEW c \in DOMAIN clauses, NEW t \in Seq(Lits), NEW t2 \in Seq(Lits),
         NEW f \in Lits, NEW u \in Lits, NEW b \in Lits, NEW k \in Nat, Moved(c, t, t2, f, u, b, k),
         clauses' = [clauses EXCEPT ![c] = t2], UNCHANGED num_vars,
         MovesEntry(c, f, u, b)
  PROVE  EntriesRight' /\ EntriesOnce' /\ EntriesThere'
<1>1. /\ \A m \in Lits : \A j \in DOMAIN watches[m] :
           watches[m][j].clause = c => m = b \/ (m = f /\ j = at)
      /\ \A m \in Lits : \A j \in DOMAIN watches'[m] :
           \/ /\ m = u /\ j = Len(watches[u]) + 1
              /\ watches'[m][j].clause = c /\ watches'[m][j].blocker = b
           \/ /\ m # f /\ j \in DOMAIN watches[m] /\ watches'[m][j] = watches[m][j]
           \/ /\ m = f /\ j # Len(watches[f]) /\ j \in DOMAIN watches[f]
              /\ IF j = at THEN watches'[m][j] = watches[f][Len(watches[f])] /\ at # Len(watches[f])
                           ELSE watches'[m][j] = watches[f][j]
      /\ \A m \in Lits : \A j \in DOMAIN watches[m] :
           ~(m = f /\ j = at) => \E i \in DOMAIN watches'[m] : watches'[m][i] = watches[m][j]
  <2>1. EntriesMoved(c, f, u, b)
    BY MovedEntries
  <2> QED BY <2>1 DEF EntriesMoved
<1>2. /\ b # f /\ u # f /\ u # b /\ Watched(c) /\ HasLit(c, b)
      /\ {b, f} = {clauses[c][1], clauses[c][2]} /\ t2[1] = b /\ t2[2] = u
      /\ Len(t2) = Len(clauses[c]) /\ SameLits(clauses[c], t2) /\ AllDifferent(t2)
  BY DEF Moved
<1>3. /\ DOMAIN clauses' = DOMAIN clauses /\ Lits' = Lits
      /\ clauses'[c] = t2 /\ \A d \in DOMAIN clauses : d # c => clauses'[d] = clauses[d]
      /\ \A d \in DOMAIN clauses : Watched(d)' <=> Watched(d)
      /\ \A d \in DOMAIN clauses : \A l : HasLit(d, l)' <=> HasLit(d, l)
  BY <1>2, ClauseReordered
<1>4. /\ \A m \in Lits : DOMAIN watches[m] = 1 .. Len(watches[m]) /\ Len(watches[m]) \in Nat
      /\ at \in DOMAIN watches[f]
      /\ DOMAIN watches'[u] = 1 .. Len(watches[u]) + 1
      /\ watches'[u][Len(watches[u]) + 1].clause = c
  <2>1. at \in DOMAIN watches[f]
    BY DEF Moved
  <2> QED BY <2>1, MovedLists
\* An entry of now is an entry of before, of another clause or in the list of b, or
\* the one added.
<1>5. ASSUME NEW m \in Lits, NEW j \in DOMAIN watches'[m]
      PROVE  \/ /\ m = u /\ watches'[m][j].clause = c /\ watches'[m][j].blocker = b
             \/ \E i \in DOMAIN watches[m] :
                  watches'[m][j] = watches[m][i] /\ (watches[m][i].clause = c => m = b)
  <2>1. CASE m = u /\ watches'[m][j].clause = c /\ watches'[m][j].blocker = b
    BY <2>1
  <2>2. CASE m # f /\ j \in DOMAIN watches[m] /\ watches'[m][j] = watches[m][j]
    BY <1>1, <2>2
  <2>3. CASE /\ m = f /\ j # Len(watches[f]) /\ j \in DOMAIN watches[f]
             /\ IF j = at THEN watches'[m][j] = watches[f][Len(watches[f])] /\ at # Len(watches[f])
                          ELSE watches'[m][j] = watches[f][j]
    <3>1. PICK i \in DOMAIN watches[f] : i = IF j = at THEN Len(watches[f]) ELSE j
      BY <1>4, <2>3
    <3>2. watches'[m][j] = watches[m][i] /\ i # at
      BY <2>3, <3>1
    <3>3. watches[m][i].clause = c => m = b
      BY <1>1, <2>3, <3>2
    <3> QED BY <2>3, <3>2, <3>3
  <2> QED BY <1>1, <2>1, <2>2, <2>3
<1>6. EntriesRight'
  <2> SUFFICES ASSUME NEW m \in Lits, NEW j \in DOMAIN watches'[m], NEW d, d = watches'[m][j].clause,
                      NEW e, e = watches'[m][j].blocker
               PROVE  Watched(d)' /\ m \in {clauses'[d][1], clauses'[d][2]} /\ HasLit(d, e)'
    BY <1>3 DEF EntriesRight
  <2>1. CASE m = u /\ d = c /\ e = b
    BY <1>2, <1>3, <2>1
  <2>2. CASE \E i \in DOMAIN watches[m] :
               watches'[m][j] = watches[m][i] /\ (watches[m][i].clause = c => m = b)
    <3>1. PICK i \in DOMAIN watches[m] :
            watches'[m][j] = watches[m][i] /\ (watches[m][i].clause = c => m = b)
      BY <2>2
    <3>2. d = watches[m][i].clause /\ e = watches[m][i].blocker /\ (d = c => m = b)
      BY <3>1
    <3>3. Watched(d) /\ m \in {clauses[d][1], clauses[d][2]} /\ HasLit(d, e)
      BY <3>2 DEF IInv, EntriesRight
    <3>4. d \in DOMAIN clauses
      BY <3>3 DEF Watched
    <3>5. m \in {clauses'[d][1], clauses'[d][2]}
      BY <1>2, <1>3, <3>2, <3>3, <3>4
    <3> QED BY <1>3, <3>3, <3>4, <3>5
  <2> QED BY <1>5, <2>1, <2>2
<1>7. EntriesOnce'
  <2> SUFFICES ASSUME NEW m \in Lits, NEW i \in DOMAIN watches'[m], NEW j \in DOMAIN watches'[m],
                      watches'[m][i].clause = watches'[m][j].clause
               PROVE  i = j
    BY <1>3 DEF EntriesOnce
  <2>1. CASE m # u /\ m # f
    BY <1>1, <2>1 DEF IInv, EntriesOnce
  <2>2. CASE m = u
    <3>1. \A h \in DOMAIN watches[u] : watches[u][h].clause # c
      BY <1>1, <1>2
    <3> QED BY SMTT(60), <1>1, <1>2, <2>2, <3>1 DEF IInv, EntriesOnce
  <2>3. CASE m = f
    <3> DEFINE from(h) == IF h = at THEN Len(watches[f]) ELSE h
    <3>1. /\ i # Len(watches[f]) /\ j # Len(watches[f])
          /\ i \in DOMAIN watches[f] /\ j \in DOMAIN watches[f]
          /\ watches'[f][i] = watches[f][from(i)] /\ watches'[f][j] = watches[f][from(j)]
      BY <1>1, <1>2, <2>3
    <3>2. from(i) \in DOMAIN watches[f] /\ from(j) \in DOMAIN watches[f]
      BY <1>4, <3>1
    <3>3. from(i) = from(j)
      BY <2>3, <3>1, <3>2 DEF IInv, EntriesOnce
    <3> QED BY <3>1, <3>3
  <2> QED BY <2>1, <2>2, <2>3
<1>8. EntriesThere'
  <2> SUFFICES ASSUME NEW d \in DOMAIN clauses, Watched(d), NEW p \in {1, 2}
               PROVE  \E j \in DOMAIN watches'[clauses'[d][p]] : watches'[clauses'[d][p]][j].clause = d
    BY <1>3 DEF EntriesThere
  <2>1. clauses[d][p] \in Lits
    <3>1. clauses[d] \in Seq(Lits) /\ Len(clauses[d]) > 1
      BY DEF IInv, Types, ClauseTypes, Watched
    <3> QED BY <3>1
  <2>2. \A q \in {1, 2} : \E j \in DOMAIN watches[clauses[d][q]] : watches[clauses[d][q]][j].clause = d
    BY DEF IInv, EntriesThere
  <2>3. CASE d # c
    <3>1. PICK j \in DOMAIN watches[clauses[d][p]] : watches[clauses[d][p]][j].clause = d
      BY <2>2
    <3>2. ~(clauses[d][p] = f /\ j = at)
      BY <2>3, <3>1 DEF Moved
    <3>3. PICK i \in DOMAIN watches'[clauses[d][p]] : watches'[clauses[d][p]][i] = watches[clauses[d][p]][j]
      BY <1>1, <2>1, <3>2
    <3> QED BY <1>3, <2>3, <3>1, <3>3
  <2>4. CASE d = c /\ p = 1
    <3>1. PICK q \in {1, 2} : clauses[c][q] = b
      BY <1>2
    <3>2. PICK j \in DOMAIN watches[b] : watches[b][j].clause = c
      BY <2>2, <2>4, <3>1
    <3>3. PICK i \in DOMAIN watches'[b] : watches'[b][i] = watches[b][j]
      BY <1>1, <1>2
    <3> QED BY <1>2, <1>3, <2>4, <3>2, <3>3
  <2>5. CASE d = c /\ p = 2
    <3>1. Len(watches[u]) + 1 \in DOMAIN watches'[u]
      BY <1>4
    <3> QED BY <1>2, <1>3, <1>4, <2>5, <3>1
  <2> QED BY <2>3, <2>4, <2>5
<1> QED BY <1>6, <1>7, <1>8

LEMMA MoveWatchKeeps ==
  ASSUME IInv, MoveWatch
  PROVE  IInv'
<1> USE DEF IInv, Types
<1>1. Looking
  BY DEF MoveWatch
<1>2. PICK c \in DOMAIN clauses, t \in Seq(Lits), t2 \in Seq(Lits), f \in Lits, u \in Lits,
           b \in Lits, k \in Nat :
        /\ Moved(c, t, t2, f, u, b, k)
        /\ clauses' = [clauses EXCEPT ![c] = t2]
        /\ MovesEntry(c, f, u, b)
  BY MoveFacts
<1>3. /\ UNCHANGED <<num_vars, formula, added, assignment, level, reason, trail, qhead, levels, at,
                     conflict, pc, verdict>>
      /\ pc = "watch"
  BY <1>1 DEF MoveWatch, valueVars, Looking, Watching
<1>4. /\ Len(t2) = Len(clauses[c]) /\ SameLits(clauses[c], t2) /\ AllDifferent(t2)
      /\ qhead \in 1 .. Len(trail) /\ f = FalseLit /\ f = -trail[qhead] /\ Value(u) # False /\ u # f
      /\ DOMAIN watches[f] \subseteq Nat \ {0} /\ at \in DOMAIN watches[f]
  BY <1>2 DEF Moved
<1>5. /\ clauses' \in Seq(Seq(Lits)) /\ Len(clauses') = Len(clauses) /\ DOMAIN clauses' = DOMAIN clauses
      /\ \A d \in DOMAIN clauses :
           SameLits(clauses[d], clauses'[d]) /\ Len(clauses'[d]) = Len(clauses[d])
      /\ Lits' = Lits /\ WatchEntry' = WatchEntry
      /\ NoRepeats'
  BY <1>2, <1>3, <1>4, ClauseReordered
<1>6. \A m \in Lits : Value(m)' = Value(m)
  BY <1>3 DEF Value
<1>7. \A d \in DOMAIN clauses : Sat(d) => Sat(d)'
  BY <1>5, <1>6, SatStays
<1>8. EntriesRight' /\ EntriesOnce' /\ EntriesThere'
  BY <1>2, <1>3, MoveKeepsEntries
<1>9. watches' \in [Lits -> Seq(WatchEntry)]
  BY <1>2, MovedLists
<1>10. /\ \A m \in Lits : m # f /\ m # u => watches'[m] = watches[m]
       /\ DOMAIN watches'[f] = 1 .. Len(watches[f]) - 1
       /\ DOMAIN watches[f] = 1 .. Len(watches[f]) /\ Len(watches[f]) \in Nat
       /\ \A j \in DOMAIN watches'[f] :
            watches'[f][j] = IF j = at THEN watches[f][Len(watches[f])] ELSE watches[f][j]
  BY <1>2, MovedLists
<1>11. ClauseTypes' /\ ValueTypes' /\ LoopTypes'
  <2>1. ClauseTypes'
    BY <1>3, <1>5, <1>9 DEF ClauseTypes
  <2>2. ValueTypes'
    BY <1>3, <1>5 DEF ValueTypes
  <2>3. LoopTypes'
    BY <1>3, <1>5 DEF LoopTypes
  <2> QED BY <2>1, <2>2, <2>3
\* The list that grew is not that of a literal propagated before: those are false.
<1>12. Propagated'
  <2>1. ASSUME NEW i \in 1 .. qhead - 1
        PROVE  -trail[i] \in Lits /\ -trail[i] # f /\ -trail[i] # u
    <3>1. trail \in Seq(Lits) /\ i \in DOMAIN trail /\ qhead \in DOMAIN trail /\ i # qhead
      BY <1>4 DEF ValueTypes
    <3>2. /\ trail[i] \in Lits /\ trail[qhead] \in Lits /\ trail[i] # trail[qhead]
          /\ Value(trail[i]) = True
      BY <3>1 DEF TrailKnown, AllDifferent
    <3>3. /\ -trail[i] \in Lits /\ -(-trail[i]) = trail[i] /\ -(-trail[qhead]) = trail[qhead]
          /\ Value(-trail[i]) = -Value(trail[i])
      BY <3>2, LitFacts, ValueType DEF ClauseTypes
    <3>4. Value(-trail[i]) = False
      BY <3>2, <3>3 DEF True, False
    <3> QED BY <1>4, <3>2, <3>3, <3>4
  <2>2. \A i \in 1 .. qhead - 1 : \A j \in DOMAIN watches'[-trail[i]] :
           j \in DOMAIN watches[-trail[i]] /\ watches'[-trail[i]][j].clause = watches[-trail[i]][j].clause
    BY <1>10, <2>1
  <2>3. ASSUME NEW j \in DOMAIN watches'[FalseLit], j < at'
        PROVE  /\ j \in DOMAIN watches[FalseLit] /\ j < at
               /\ watches'[FalseLit][j].clause = watches[FalseLit][j].clause
    <3>1. j \in DOMAIN watches[f] /\ j < at /\ j # at
      BY SMTT(60), <1>3, <1>4, <1>10, <2>3
    <3> QED BY <1>4, <1>10, <3>1
  <2> QED BY <1>1, <1>3, <1>7, <2>2, <2>3, LookPropagated
<1>13. TrailKnown'
  BY <1>3, <1>5, <1>6 DEF TrailKnown, AllDifferent
<1>14. Covered'
  BY <1>3, <1>5, <1>6, CoveredGrows
<1>15. Phases' /\ ModelSatisfies'
  BY <1>3 DEF Phases, ModelSatisfies
<1> QED BY <1>5, <1>8, <1>11, <1>12, <1>13, <1>14, <1>15

-----------------------------------------------------------------------------
(* A conflict before anything was decided: what the caller asked for cannot *)
(* be had.  What is on the trail then follows from the root and the clauses *)
(* added, so every valuation that fits these makes it true.                 *)

Holds(v, l) == IF l > 0 THEN v[l] ELSE ~v[-l]

Satisfying(v, cs) == \A k \in DOMAIN cs : \E l \in cs[k] : Holds(v, l)

\* The valuations that satisfy the clauses and the root.
Fitting == {v \in [1 .. num_vars -> BOOLEAN] : Holds(v, trail[1]) /\ Satisfying(v, formula)}

\* v makes true what is on the trail, and a literal of each clause kept.
Obeys(v) ==
  /\ \A k \in DOMAIN trail : Holds(v, trail[k])
  /\ \A c \in DOMAIN clauses : \E l : HasLit(c, l) /\ Holds(v, l)

Early ==
  pc # "idle" =>
    /\ levels > 0 /\ Len(trail) > 0
    /\ levels = 1 => \A v \in Fitting : Obeys(v) /\ pc # "conflict" /\ verdict # "conflict"

LEMMA HoldsOpposite ==
  ASSUME num_vars \in Nat, NEW l \in Lits, NEW v \in [1 .. num_vars -> BOOLEAN]
  PROVE  Holds(v, -l) <=> ~Holds(v, l)
<1>1. l \in Int /\ l # 0 /\ -(-l) = l
  BY LitFacts
<1>2. CASE l > 0
  BY <1>1, <1>2 DEF Holds
<1>3. CASE ~(l > 0)
  BY <1>1, <1>3 DEF Holds
<1> QED BY <1>2, <1>3

\* What is false is false in every valuation that makes the trail true.
LEMMA FalseNotHeld ==
  ASSUME IInv, NEW v \in [1 .. num_vars -> BOOLEAN], Obeys(v), NEW l \in Lits, Value(l) = False
  PROVE  ~Holds(v, l)
<1> USE DEF IInv, Types
<1>1. -l \in Lits /\ Value(-l) = True
  <2>1. -l \in Lits /\ Value(-l) = -Value(l)
    BY LitFacts, ValueType DEF ClauseTypes
  <2> QED BY <2>1 DEF True, False
<1>2. PICK i \in DOMAIN trail : trail[i] = -l
  BY <1>1 DEF TrailKnown
<1>3. Holds(v, -l)
  BY <1>2 DEF Obeys
<1> QED BY <1>3, HoldsOpposite DEF ClauseTypes

\* Of the clause that is added the open literals hold one.
LEMMA OpenHolds ==
  ASSUME IInv, Adding, NEW v \in Fitting, Obeys(v)
  PROVE  \E i \in DOMAIN Sorted(Open) : Holds(v, Sorted(Open)[i])
<1>1. /\ NextClause = formula[added + 1] /\ added + 1 \in DOMAIN formula
      /\ Open \subseteq NextClause /\ NextClause \subseteq Lits
  BY OpenFacts
<1>2. PICK l \in NextClause : Holds(v, l)
  BY <1>1 DEF Fitting, Satisfying
<1>3. l \in Open
  BY <1>1, <1>2, FalseNotHeld DEF Fitting, Open
<1>4. IsFiniteSet(Open) /\ Open \subseteq Int
  <2>1. num_vars \in Nat
    BY DEF IInv, Types, ClauseTypes
  <2>2. Open \in SUBSET (-num_vars .. num_vars) /\ Open \subseteq Int
    BY <1>1, <2>1 DEF Lits, Literals
  <2>3. IsFiniteSet(-num_vars .. num_vars)
    <3>1. -num_vars \in Int /\ num_vars \in Int
      BY <2>1
    <3> QED BY <3>1, FS_Interval
  <2> QED BY <2>2, <2>3, FS_Subset
<1>5. PICK i \in DOMAIN Sorted(Open) : Sorted(Open)[i] = l
  BY <1>3, <1>4, SortedFacts
<1> QED BY <1>2, <1>5

\* A step of the solver leaves what has to be fitted.
LEMMA SameFitting ==
  ASSUME IInv, Early, SolverStep
  PROVE  /\ pc # "idle" /\ pc' # "idle" /\ Fitting' = Fitting /\ num_vars' = num_vars
         /\ levels > 0 /\ levels' >= levels /\ levels \in Nat
         /\ Len(trail) > 0 /\ trail \in Seq(Lits)
         /\ trail' = trail \/ \E l : trail' = Append(trail, l)
<1>1. pc # "idle" /\ pc' # "idle"
  BY DEF SolverStep, AddSatisfied, AddFalse, AddUnit, AddWatched, AllAdded, Interrupted, Propagate,
         NextLiteral, BlockerTrue, FirstTrue, MoveWatch, Imply, FindConflict, EntriesDone, FoundModel,
         Decide, Refuse, Adding, Watching, Looking, Stuck, AtFixpoint
<1>2. levels \in Nat /\ levels > 0 /\ Len(trail) > 0 /\ trail \in Seq(Lits)
  BY <1>1 DEF Early, IInv, Types, ValueTypes
<1>3. UNCHANGED <<num_vars, formula>> /\ levels' \in {levels, levels + 1}
  BY DEF SolverStep, AddSatisfied, AddFalse, AddUnit, AddWatched, AllAdded, Interrupted, Propagate,
         NextLiteral, BlockerTrue, FirstTrue, MoveWatch, Imply, FindConflict, EntriesDone, FoundModel,
         Decide, Refuse, clauseVars
<1>4. trail' = trail \/ \E l : trail' = Append(trail, l)
  BY DEF SolverStep, AddSatisfied, AddFalse, AddUnit, AddWatched, AllAdded, Interrupted, Propagate,
         NextLiteral, BlockerTrue, FirstTrue, MoveWatch, Imply, FindConflict, EntriesDone, FoundModel,
         Decide, Refuse, valueVars, Assign
<1>5. trail'[1] = trail[1]
  BY <1>2, <1>4
<1>6. Fitting' = Fitting
  BY <1>3, <1>5 DEF Fitting
<1> QED BY <1>1, <1>2, <1>3, <1>4, <1>6

\* A clause whose literals change places is as true as before.
LEMMA ObeysReordered ==
  ASSUME IInv, NEW c \in DOMAIN clauses, NEW t \in Seq(Lits), Len(t) = Len(clauses[c]),
         SameLits(clauses[c], t), AllDifferent(t), clauses' = [clauses EXCEPT ![c] = t],
         UNCHANGED <<num_vars, trail>>, NEW v, Obeys(v)
  PROVE  Obeys(v)'
<1>1. DOMAIN clauses' = DOMAIN clauses /\ \A d \in DOMAIN clauses : \A l : HasLit(d, l)' <=> HasLit(d, l)
  BY ClauseReordered
<1> QED BY <1>1 DEF Obeys

\* When there is no other literal to watch, all but the first are false.
LEMMA StuckFirst ==
  ASSUME IInv, Stuck, NEW v \in Fitting, Obeys(v)
  PROVE  Holds(v, Turned[1])
<1>1. /\ Looking /\ Spare = {} /\ v \in [1 .. num_vars -> BOOLEAN]
  BY DEF Stuck, Fitting
<1>2. PICK c \in DOMAIN clauses, t \in Seq(Lits), f \in Lits :
        /\ c = Entry.clause /\ t = Turned /\ f = FalseLit /\ SameLits(clauses[c], t)
        /\ t[2] = f /\ qhead \in 1 .. Len(trail) /\ f = -trail[qhead]
  BY <1>1, LookFacts
<1>3. PICK l : HasLit(c, l) /\ Holds(v, l)
  BY <1>2 DEF Obeys
<1>4. PICK i \in DOMAIN t : t[i] = l
  BY <1>2, <1>3 DEF HasLit, SameLits
<1>5. trail \in Seq(Lits) /\ num_vars \in Nat
  BY DEF IInv, Types, ClauseTypes, ValueTypes
<1>6. ~Holds(v, f)
  <2>1. trail[qhead] \in Lits /\ Holds(v, trail[qhead])
    BY <1>2, <1>5 DEF Obeys
  <2> QED BY ZenonT(60), <1>1, <1>2, <1>5, <2>1, HoldsOpposite
<1>7. ASSUME i >= 3 PROVE FALSE
  <2>1. i \in 3 .. Len(Turned) /\ Turned[i] = l /\ l \in Lits
    BY <1>2, <1>4, <1>7
  <2>2. Value(l) = False
    BY <1>1, <2>1 DEF Spare
  <2> QED BY <1>1, <1>3, <2>1, <2>2, FalseNotHeld
<1>8. i = 1 \/ i = 2 \/ i >= 3
  BY <1>2, <1>4
<1> QED BY <1>2, <1>3, <1>4, <1>6, <1>7, <1>8

LEMMA EarlyStep == IInv /\ Early /\ SolverStep => Early'
<1> SUFFICES ASSUME IInv, Early, SolverStep PROVE Early'
  OBVIOUS
<1>1. /\ pc # "idle" /\ pc' # "idle" /\ Fitting' = Fitting /\ num_vars' = num_vars
      /\ levels > 0 /\ levels' >= levels /\ levels \in Nat
      /\ Len(trail) > 0 /\ trail \in Seq(Lits)
      /\ trail' = trail \/ \E l : trail' = Append(trail, l)
  BY SameFitting
<1>2. levels' > 0 /\ Len(trail') > 0
  <2>1. levels' > 0
    <3>1. levels' \in Int
      BY DEF SolverStep, AddSatisfied, AddFalse, AddUnit, AddWatched, AllAdded, Interrupted, Propagate,
         NextLiteral, BlockerTrue, FirstTrue, MoveWatch, Imply, FindConflict, EntriesDone, FoundModel,
         Decide, Refuse, IInv, Types, ValueTypes
    <3> QED BY <1>1, <3>1
  <2>2. Len(trail') > 0
    <3>1. CASE trail' = trail
      BY <1>1, <3>1
    <3>2. ASSUME NEW l, trail' = Append(trail, l) PROVE Len(trail') > 0
      BY <1>1, <3>2
    <3> QED BY <1>1, <3>1, <3>2
  <2> QED BY <2>1, <2>2
<1> SUFFICES ASSUME levels' = 1, NEW v \in Fitting
             PROVE  Obeys(v)' /\ pc' # "conflict" /\ verdict' # "conflict"
  BY <1>1, <1>2 DEF Early
<1>3. CASE Decide
  BY <1>1, <1>3 DEF Decide
<1>4. CASE ~Decide
  <2>1. levels = 1 /\ Obeys(v) /\ pc # "conflict" /\ verdict # "conflict"
    <3>1. levels' = levels
      BY <1>4 DEF SolverStep, AddSatisfied, AddFalse, AddUnit, AddWatched, AllAdded, Interrupted, Propagate,
           NextLiteral, BlockerTrue, FirstTrue, MoveWatch, Imply, FindConflict, EntriesDone, FoundModel, Refuse
    <3> QED BY <1>1, <3>1 DEF Early
  <2>2. v \in [1 .. num_vars -> BOOLEAN]
    BY DEF Fitting
  <2>3. CASE StillStep
    <3>1. UNCHANGED <<num_vars, clauses, trail>>
      BY <2>3, StillTypes DEF valueVars
    <3>2. Obeys(v)'
      BY <2>1, <3>1 DEF Obeys, HasLit
    <3>3. ~AddFalse
      <4> SUFFICES ASSUME AddFalse PROVE FALSE
        OBVIOUS
      <4>1. Adding /\ Open = {}
        BY DEF AddFalse
      <4>2. PICK i \in DOMAIN Sorted(Open) : Holds(v, Sorted(Open)[i])
        BY <2>1, <4>1, OpenHolds
      <4> QED BY <4>1, <4>2, OpenFacts
    <3>4. pc' # "conflict" /\ verdict' # "conflict"
      BY <2>1, <2>3, <3>3 DEF StillStep, AddSatisfied, AllAdded, Interrupted, Propagate, NextLiteral,
         BlockerTrue, EntriesDone, FoundModel, Refuse, Adding
    <3> QED BY <3>2, <3>4
  <2>4. CASE AddUnit \/ AddWatched
    <3>1. Adding /\ pc' = "add" /\ verdict' = verdict
      BY <2>4 DEF AddUnit, AddWatched, Adding
    <3>2. PICK i \in DOMAIN Sorted(Open) : Holds(v, Sorted(Open)[i])
      BY <2>1, <3>1, OpenHolds
    <3>3. PICK x \in Seq(Lits) : x = Sorted(Open) /\ Len(x) = Cardinality(Open) /\ AllDifferent(x)
      BY <3>1, OpenFacts
    <3>4. clauses' = Append(clauses, x) /\ (trail' = trail \/ (Len(x) = 1 /\ trail' = Append(trail, x[1])))
      <4>1. CASE AddUnit
        BY <3>3, <4>1 DEF AddUnit, Assign
      <4>2. CASE AddWatched
        <5>1. trail' = trail /\ clauses' = Append(clauses, Sorted(Open))
          BY <4>2 DEF AddWatched, valueVars
        <5> QED BY <3>3, <5>1
      <4> QED BY <2>4, <4>1, <4>2
    <3>5. /\ DOMAIN clauses' = 1 .. Len(clauses) + 1 /\ DOMAIN clauses = 1 .. Len(clauses) /\ Len(clauses) \in Nat
          /\ clauses'[Len(clauses) + 1] = x
          /\ \A c \in DOMAIN clauses : \A l : HasLit(c, l)' <=> HasLit(c, l)
      BY <1>1, <3>3, <3>4, ClauseAppended
    <3>6. ASSUME NEW c \in DOMAIN clauses' PROVE \E l : HasLit(c, l)' /\ Holds(v, l)
      <4>1. CASE c \in DOMAIN clauses
        BY <2>1, <3>5, <4>1 DEF Obeys
      <4>2. CASE c = Len(clauses) + 1
        BY <3>2, <3>3, <3>5, <4>2 DEF HasLit
      <4> QED BY <3>5, <4>1, <4>2
    <3>7. ASSUME NEW k \in DOMAIN trail' PROVE Holds(v, trail'[k])
      <4>1. CASE trail' = trail
        BY <2>1, <4>1 DEF Obeys
      <4>2. CASE Len(x) = 1 /\ trail' = Append(trail, x[1])
        <5>1. Holds(v, x[1])
          BY <3>2, <3>3, <4>2
        <5>2. (k \in DOMAIN trail /\ trail'[k] = trail[k]) \/ trail'[k] = x[1]
          BY <1>1, <4>2
        <5> QED BY <2>1, <5>1, <5>2 DEF Obeys
      <4> QED BY <3>4, <4>1, <4>2
    <3> QED BY <2>1, <3>1, <3>6, <3>7 DEF Obeys
  <2>5. CASE FirstTrue
    <3>1. PICK c \in DOMAIN clauses, t \in Seq(Lits) :
            /\ c = Entry.clause /\ t = Turned
            /\ Len(t) = Len(clauses[c]) /\ SameLits(clauses[c], t) /\ AllDifferent(t)
      BY <2>5, LookFacts DEF FirstTrue
    <3>2. clauses' = [clauses EXCEPT ![c] = t] /\ UNCHANGED <<num_vars, trail, pc, verdict>>
      BY <2>5, <3>1 DEF FirstTrue, valueVars
    <3> QED BY <2>1, <3>1, <3>2, ObeysReordered
  <2>6. CASE MoveWatch
    <3>1. PICK c \in DOMAIN clauses, t \in Seq(Lits) :
            /\ Len(t) = Len(clauses[c]) /\ SameLits(clauses[c], t) /\ AllDifferent(t)
            /\ clauses' = [clauses EXCEPT ![c] = t]
      BY <2>6, MoveFacts DEF Moved
    <3>2. UNCHANGED <<num_vars, trail, pc, verdict>>
      BY <2>6 DEF MoveWatch, valueVars
    <3> QED BY <2>1, <3>1, <3>2, ObeysReordered
  <2>7. CASE Imply
    <3>1. PICK c \in DOMAIN clauses, t \in Seq(Lits) :
            /\ c = Entry.clause /\ t = Turned
            /\ Len(t) = Len(clauses[c]) /\ SameLits(clauses[c], t) /\ AllDifferent(t)
      BY <2>7, LookFacts DEF Imply, Stuck
    <3>2. clauses' = [clauses EXCEPT ![c] = t] /\ UNCHANGED <<num_vars, pc, verdict>>
          /\ trail' = Append(trail, t[1])
      BY <2>7, <3>1 DEF Imply, Assign
    <3>3. DOMAIN clauses' = DOMAIN clauses /\ \A d \in DOMAIN clauses : \A l : HasLit(d, l)' <=> HasLit(d, l)
      BY <3>1, <3>2, ClauseReordered
    <3>4. Holds(v, t[1])
      BY <2>1, <2>7, <3>1, StuckFirst DEF Imply
    <3>5. ASSUME NEW k \in DOMAIN trail' PROVE Holds(v, trail'[k])
      <4>1. (k \in DOMAIN trail /\ trail'[k] = trail[k]) \/ trail'[k] = t[1]
        BY <1>1, <3>2
      <4> QED BY <2>1, <3>4, <4>1 DEF Obeys
    <3> QED BY <2>1, <3>2, <3>3, <3>5 DEF Obeys
  <2>8. CASE FindConflict
    <3>1. Turned[1] \in Lits /\ Value(Turned[1]) = False /\ Stuck
      BY <2>8, LookFacts DEF FindConflict, Stuck
    <3> QED BY <2>1, <2>2, <3>1, StuckFirst, FalseNotHeld
  <2> QED BY <1>4, <2>3, <2>4, <2>5, <2>6, <2>7, <2>8 DEF SolverStep, StillStep
<1> QED BY <1>3, <1>4

-----------------------------------------------------------------------------
(* The theorems. *)

LEMMA InitHolds == SolverInit => IInv
<1> SUFFICES ASSUME SolverInit PROVE IInv
  OBVIOUS
<1> USE DEF SolverInit
<1>1. Lits = {}
  BY DEF Lits, Literals
<1>2. ClauseTypes
  <2>1. <<>> \in [{} -> Seq(WatchEntry)]
    OBVIOUS
  <2>2. <<>> \in Seq(SUBSET Lits) /\ <<>> \in Seq(Seq(Lits)) /\ Len(<<>>) = 0
    OBVIOUS
  <2> QED BY <1>1, <2>1, <2>2 DEF ClauseTypes
<1>3. ValueTypes
  <2>1. 1 .. num_vars = {}
    OBVIOUS
  <2>2. \A S : <<>> \in [{} -> S]
    OBVIOUS
  <2> QED BY <2>1, <2>2 DEF ValueTypes
<1>4. LoopTypes
  BY DEF LoopTypes
<1>5. TrailKnown
  BY <1>1 DEF TrailKnown, AllDifferent
<1>6. EntriesRight /\ EntriesOnce
  BY <1>1 DEF EntriesRight, EntriesOnce
<1>7. Covered /\ NoRepeats /\ EntriesThere
  BY DEF Covered, NoRepeats, EntriesThere
<1>8. Propagated /\ Phases /\ ModelSatisfies
  BY DEF Propagated, Phases, ModelSatisfies
<1> QED BY <1>2, <1>3, <1>4, <1>5, <1>6, <1>7, <1>8 DEF IInv, Types

\* Whatever the solver does.
LEMMA SolverStepKeeps == IInv /\ SolverStep => IInv'
<1> SUFFICES ASSUME IInv, SolverStep PROVE IInv'
  OBVIOUS
<1>1. CASE StillStep
  BY <1>1, StillKeeps
<1>2. CASE AddUnit
  BY <1>2, AddUnitKeeps
<1>3. CASE AddWatched
  BY <1>3, AddWatchedKeeps
<1>4. CASE FirstTrue
  BY <1>4, FirstTrueKeeps
<1>5. CASE MoveWatch
  BY <1>5, MoveWatchKeeps
<1>6. CASE Imply
  BY <1>6, ImplyKeeps
<1>7. CASE FindConflict
  BY <1>7, FindConflictKeeps
<1>8. CASE Decide
  BY <1>8, DecideKeeps
<1> QED BY <1>1, <1>2, <1>3, <1>4, <1>5, <1>6, <1>7, <1>8 DEF SolverStep, StillStep

LEMMA SolverStill == IInv /\ UNCHANGED solverVars => IInv'
<1> SUFFICES ASSUME IInv, UNCHANGED solverVars PROVE IInv'
  OBVIOUS
<1>1. UNCHANGED <<num_vars, formula, added, clauses, watches, assignment, level, reason, trail,
                  qhead, levels, at, conflict, pc, verdict>>
  BY DEF solverVars, clauseVars, valueVars
<1>2. ClauseTypes' /\ ValueTypes' /\ LoopTypes'
  BY <1>1 DEF IInv, Types, ClauseTypes, ValueTypes, LoopTypes, WatchEntry, Lits
<1>3. NoRepeats' /\ EntriesRight' /\ EntriesOnce' /\ EntriesThere' /\ TrailKnown'
  BY <1>1, NothingMoved DEF valueVars
<1>4. Covered' /\ ModelSatisfies' /\ Phases'
  BY <1>1 DEF IInv, Covered, ModelSatisfies, Phases, Watched, HasLit, Value
<1>5. Propagated'
  <2>1. Done' = Done /\ Entries' = Entries
    BY <1>1 DEF Done, Entries, FalseLit
  <2>2. \A c : Sat(c)' <=> Sat(c)
    BY <1>1 DEF Sat, Value
  <2>3. Propagated
    BY DEF IInv
  <2> QED BY <1>1, <2>1, <2>2, <2>3 DEF Propagated
<1> QED BY <1>2, <1>3, <1>4, <1>5 DEF IInv, Types

LEMMA EarlyStart ==
  ASSUME IInv, NEW n \in Nat, NEW root \in 1 .. n, NEW cs \in Seq(SUBSET Literals(n)),
         Start(n, root, cs)
  PROVE  Early'
<1>1. /\ clauses' = <<>> /\ trail' = <<root>> /\ levels' = 1 /\ pc' = "add" /\ verdict' = "none"
  BY DEF Start, IInv, Phases
<1>2. \A v \in Fitting' : Obeys(v)'
  BY <1>1 DEF Fitting, Obeys
<1> QED BY <1>1, <1>2 DEF Early

LEMMA EarlyStill == Early /\ UNCHANGED solverVars => Early'
<1> SUFFICES ASSUME Early, UNCHANGED solverVars PROVE Early'
  OBVIOUS
<1>1. UNCHANGED <<num_vars, formula, clauses, trail, levels, pc, verdict>>
  BY DEF solverVars, clauseVars, valueVars
<1>2. Fitting' = Fitting /\ \A v : Obeys(v)' <=> Obeys(v)
  BY <1>1 DEF Fitting, Obeys, HasLit
<1> QED BY <1>1, <1>2 DEF Early

\* The clauses stay covered and watched and what was propagated stays propagated,
\* whatever the solver does: the heart of propagate (solver.rs:312-382).
THEOREM SolverInvariant == SolverSpec => [](IInv /\ Early)
<1>1. ASSUME IInv, Early, SolverNext PROVE IInv' /\ Early'
  BY <1>1, StartKeeps, EarlyStart, SolverStepKeeps, EarlyStep DEF SolverNext
<1>2. IInv /\ Early /\ [SolverNext]_solverVars => IInv' /\ Early'
  BY <1>1, SolverStill, EarlyStill
<1>3. SolverInit => Early
  BY DEF SolverInit, Early
<1> QED BY InitHolds, <1>2, <1>3, PTL DEF SolverSpec

\* The solver's state is well formed: no watch entry, reason or conflict points past
\* the clauses, and no literal past the variables (solver.rs:136-207).
THEOREM SolverTypesCorrect == SolverSpec => []SolverTypeOK
<1>1. IInv => SolverTypeOK
  BY TypeParts DEF IInv
<1> QED BY <1>1, SolverInvariant, PTL

\* The model returned satisfies every clause the caller added, also those that
\* add_clause dropped or shortened (solver.rs:255-310, solver.rs:534-609).
THEOREM SolverSound == SolverSpec => []ModelSatisfies
<1>1. IInv => ModelSatisfies
  BY DEF IInv
<1> QED BY <1>1, SolverInvariant, PTL

\* When propagate returns without a conflict it has overlooked nothing
\* (solver.rs:312-382).
THEOREM SolverPropagates == SolverSpec => []PropagationComplete
<1> QED BY FixpointComplete, SolverInvariant, PTL

\* A clause refused before anything was decided is a real conflict: no valuation
\* makes the root and all the clauses true (solver.rs:297-299, solver.rs:558-563).
THEOREM EarlyRefusal == SolverSpec => [](verdict = "conflict" /\ levels = 1 => Fitting = {})
<1>1. IInv /\ Early => (verdict = "conflict" /\ levels = 1 => Fitting = {})
  BY DEF Early, IInv, Phases
<1> QED BY <1>1, SolverInvariant, PTL
=============================================================================
