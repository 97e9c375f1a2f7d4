------------------------- MODULE VersionOrderProofs -------------------------
(***************************************************************************)
(* What the comparison of versions is, proved for versions of any length   *)
(* and any characters.                                                     *)
(*                                                                         *)
(* Both the loop of the code and the policy's reference are the first      *)
(* verdict of a series of rounds, each of which makes the strings shorter. *)
(* So either is its first round, and what comes of it if that does not     *)
(* decide (RoundsUnfold, CompareUnfolds, PolicyUnfolds), and a claim about *)
(* all strings follows by taking the shortest ones it is false of (Least). *)
(* The verdicts of a round are those of an order, and strings it does not  *)
(* tell apart go on with rests that do not depend on the string they were  *)
(* compared with (VerdictFacts, LeftFacts): hence StringOrder.  A round on *)
(* two characters decides as the policy's first character does             *)
(* (FirstCharacter), and one that finds them equal leaves the policy's     *)
(* verdict as it was (FirstCharacterOff): hence SameAsPolicy.              *)
(***************************************************************************)
EXTENDS VersionOrder, WellFoundedInduction, SequenceTheorems, TLAPS

-----------------------------------------------------------------------------
(* Rounds: f holds what comes of a, n - 1 steps later, at n. *)

LEMMA Least ==
  ASSUME NEW T \in SUBSET Nat, T # {}
  PROVE  \E m \in T : \A k \in T : m <= k
<1>1. PICK m \in T : \A k \in T : ~(<<k, m>> \in OpToRel(<, Nat))
  BY WFMin, NatLessThanWellFounded
<1>2. \A k \in T : ~(k < m)
  BY <1>1 DEF OpToRel
<1> QED BY <1>2

\* As far as it stays in D.
Follows(step, D, a, N, f) ==
  /\ DOMAIN f = 1 .. N
  /\ N >= 1 => f[1] = a
  /\ \A n \in 1 .. N - 1 : f[n] \in D => f[n + 1] = step[f[n]]

Steps(step, D, a, N, f) ==
  f \in [1 .. N -> D] /\ \A n \in 1 .. N : f[n] = IF n = 1 THEN a ELSE step[f[n - 1]]

LEMMA RoundsExist ==
  ASSUME NEW D, NEW step \in [D -> D], NEW a \in D, NEW N \in Nat
  PROVE  \E f : Steps(step, D, a, N, f)
<1> DEFINE There(m) == \E f \in [1 .. m -> D] : f = [n \in 1 .. m |-> IF n = 1 THEN a ELSE step[f[n - 1]]]
           Missing == {m \in Nat : ~There(m)}
<1> SUFFICES ASSUME Missing # {} PROVE FALSE
  <2> SUFFICES ASSUME There(N) PROVE \E f : Steps(step, D, a, N, f)
    OBVIOUS
  <2>1. PICK f \in [1 .. N -> D] : f = [n \in 1 .. N |-> IF n = 1 THEN a ELSE step[f[n - 1]]]
    OBVIOUS
  <2>2. \A n \in 1 .. N : f[n] = IF n = 1 THEN a ELSE step[f[n - 1]]
    BY <2>1
  <2> QED BY <2>2 DEF Steps
<1>1. PICK m \in Missing : \A k \in Missing : m <= k
  <2> HIDE DEF There
  <2>1. Missing \in SUBSET Nat
    OBVIOUS
  <2> HIDE DEF Missing
  <2> QED BY <2>1, Least
<1>2. m \in Nat /\ ~There(m)
  OBVIOUS
<1>3. CASE m = 0
  <2> DEFINE f == [n \in 1 .. m |-> a]
  <2>1. 1 .. m = {}
    BY <1>3
  <2>2. f \in [1 .. m -> D]
    OBVIOUS
  <2>3. f = [n \in 1 .. m |-> IF n = 1 THEN a ELSE step[f[n - 1]]]
    BY <2>1
  <2> QED BY <1>2, <2>2, <2>3
<1>4. CASE m # 0
  <2>1. m - 1 \in Nat /\ ~(m <= m - 1)
    BY <1>2, <1>4
  <2>2. There(m - 1)
    BY <1>1, <2>1
  <2>3. PICK f \in [1 .. m - 1 -> D] : f = [n \in 1 .. m - 1 |-> IF n = 1 THEN a ELSE step[f[n - 1]]]
    BY <2>2
  <2> DEFINE g == [n \in 1 .. m |-> IF n = m THEN IF m = 1 THEN a ELSE step[f[m - 1]] ELSE f[n]]
  <2>4. ASSUME NEW n \in 1 .. m
        PROVE  g[n] \in D /\ g[n] = IF n = 1 THEN a ELSE step[g[n - 1]]
    <3>1. CASE n = m
      <4>1. CASE m = 1
        BY <3>1, <4>1
      <4>2. CASE m # 1
        <5>1. m - 1 \in 1 .. m /\ m - 1 # m /\ m - 1 \in 1 .. m - 1
          BY <1>2, <1>4, <4>2
        <5>2. g[m - 1] = f[m - 1] /\ g[n] = step[f[m - 1]]
          BY <3>1, <4>2, <5>1
        <5>3. f[m - 1] \in D
          BY <5>1
        <5> QED BY <3>1, <4>2, <5>2, <5>3
      <4> QED BY <4>1, <4>2
    <3>2. CASE n # m
      <4>1. n \in 1 .. m - 1 /\ (n # 1 => n - 1 \in 1 .. m - 1 /\ n - 1 \in 1 .. m /\ n - 1 # m)
        BY <1>2, <3>2
      <4>2. f[n] = IF n = 1 THEN a ELSE step[f[n - 1]]
        BY <2>3, <4>1
      <4>3. g[n] = f[n] /\ (n # 1 => g[n - 1] = f[n - 1])
        BY <3>2, <4>1
      <4> QED BY <4>1, <4>2, <4>3
    <3> QED BY <3>1, <3>2
  <2>5. g \in [1 .. m -> D]
    BY <2>4
  <2>6. g = [n \in 1 .. m |-> IF n = 1 THEN a ELSE step[g[n - 1]]]
    BY <2>4
  <2> HIDE DEF g
  <2> QED BY <1>2, <2>5, <2>6
<1> QED BY <1>3, <1>4

\* Rounds stay in D.
LEMMA RoundsIn ==
  ASSUME NEW D, NEW step \in [D -> D], NEW a \in D, NEW N \in Nat, NEW f, Follows(step, D, a, N, f)
  PROVE  \A n \in 1 .. N : f[n] \in D
<1> DEFINE Out == {n \in 1 .. N : f[n] \notin D}
<1> SUFFICES ASSUME Out # {} PROVE FALSE
  OBVIOUS
<1>1. Out \in SUBSET Nat
  OBVIOUS
<1>2. PICK n \in Out : \A k \in Out : n <= k
  <2> HIDE DEF Out
  <2> QED BY <1>1, Least
<1>3. n \in 1 .. N /\ f[n] \notin D /\ n # 1
  BY DEF Follows
<1>4. n - 1 \in 1 .. N - 1 /\ n - 1 \in 1 .. N /\ n - 1 + 1 = n /\ ~(n <= n - 1)
  BY <1>3
<1>5. f[n - 1] \in D
  BY <1>2, <1>4
<1>6. f[n] = step[f[n - 1]]
  BY <1>4, <1>5 DEF Follows
<1> QED BY <1>3, <1>5, <1>6

Ahead(f, g, M) == \A n \in 1 .. M : f[n + 1] = g[n]

\* The rounds from the first step on.
LEMMA RoundsShift ==
  ASSUME NEW D, NEW step \in [D -> D], NEW a \in D, NEW N \in Nat, NEW f, Follows(step, D, a, N, f),
         NEW b \in D, N > 1 => f[2] = b, NEW M \in Nat, M < N, NEW g, Follows(step, D, b, M, g)
  PROVE  Ahead(f, g, M)
<1> DEFINE Off == {n \in 1 .. M : f[n + 1] # g[n]}
<1> SUFFICES ASSUME Off # {} PROVE FALSE
  BY DEF Ahead
<1>1. Off \in SUBSET Nat
  OBVIOUS
<1>2. PICK n \in Off : \A k \in Off : n <= k
  <2> HIDE DEF Off
  <2> QED BY <1>1, Least
<1>3. n \in 1 .. M /\ f[n + 1] # g[n]
  OBVIOUS
<1>4. /\ \A k \in 1 .. N - 1 : f[k + 1] = step[f[k]]
      /\ \A k \in 1 .. M - 1 : g[k + 1] = step[g[k]]
  <2>1. (\A k \in 1 .. N : f[k] \in D) /\ \A k \in 1 .. M : g[k] \in D
    BY RoundsIn
  <2> QED BY <2>1 DEF Follows
<1>5. CASE n = 1
  <2>1. f[2] = b /\ g[1] = b
    BY <1>3, <1>5 DEF Follows
  <2> QED BY <1>3, <1>5, <2>1
<1>6. CASE n # 1
  <2>1. n - 1 \in 1 .. M /\ n - 1 \in 1 .. M - 1 /\ n \in 1 .. N - 1 /\ n - 1 + 1 = n /\ ~(n <= n - 1)
    BY <1>3, <1>6
  <2>2. f[n] = g[n - 1]
    BY <1>2, <2>1
  <2>3. f[n + 1] = step[f[n]] /\ g[n] = step[g[n - 1]]
    BY <1>4, <2>1
  <2> QED BY <1>3, <2>2, <2>3
<1> QED BY <1>5, <1>6

\* Each round makes it smaller.
LEMMA RoundsEnd ==
  ASSUME NEW D, NEW step \in [D -> D], NEW a \in D, NEW N \in Nat, NEW f, Follows(step, D, a, N, f),
         NEW size \in [D -> Nat],
         \A p \in D : (size[p] = 0 => size[step[p]] = 0) /\ (size[p] # 0 => size[step[p]] < size[p])
  PROVE  \A n \in 2 .. N : size[f[n]] = 0 \/ size[f[n]] + n <= size[step[a]] + 2
<1> DEFINE Large == {n \in 2 .. N : ~(size[f[n]] = 0 \/ size[f[n]] + n <= size[step[a]] + 2)}
<1> SUFFICES ASSUME Large # {} PROVE FALSE
  OBVIOUS
<1>1. Large \in SUBSET Nat
  OBVIOUS
<1>2. PICK n \in Large : \A k \in Large : n <= k
  <2> HIDE DEF Large
  <2> QED BY <1>1, Least
<1>3. n \in 2 .. N /\ size[f[n]] # 0 /\ ~(size[f[n]] + n <= size[step[a]] + 2)
  OBVIOUS
<1>4. \A k \in 1 .. N : f[k] \in D
  BY RoundsIn
<1>5. n - 1 \in 1 .. N - 1 /\ n - 1 \in 1 .. N /\ n - 1 + 1 = n /\ 1 \in 1 .. N
  BY <1>3
<1>6. f[n] = step[f[n - 1]] /\ f[1] = a
  BY <1>4, <1>5 DEF Follows
<1>7. n # 2
  BY <1>3, <1>6
<1>8. n - 1 \in 2 .. N /\ ~(n <= n - 1)
  BY <1>3, <1>7
<1>9. size[f[n - 1]] = 0 \/ size[f[n - 1]] + (n - 1) <= size[step[a]] + 2
  BY <1>2, <1>8
<1>10. f[n - 1] \in D /\ f[n] \in D /\ size[f[n - 1]] \in Nat /\ size[f[n]] \in Nat
  <2>1. f[n - 1] \in D /\ f[n] \in D
    BY <1>4, <1>5, <1>3
  <2> QED BY <2>1
<1>11. size[f[n - 1]] # 0 /\ size[f[n]] < size[f[n - 1]]
  BY <1>3, <1>6, <1>10
<1>12. step[a] \in D /\ size[step[a]] \in Nat
  OBVIOUS
<1>13. n \in Nat
  BY <1>3
<1> QED BY <1>3, <1>9, <1>10, <1>11, <1>12, <1>13

-----------------------------------------------------------------------------
(* The first verdict that decides. *)

Verdicts == {-1, 0, 1}

LEMMA FirstFacts ==
  ASSUME NEW N \in Nat, NEW F \in [1 .. N -> Verdicts]
  PROVE  /\ (\A k \in 1 .. N : F[k] = 0) => FirstVerdict(F) = 0
         /\ \A k \in 1 .. N : F[k] # 0 /\ (\A j \in 1 .. N : j < k => F[j] = 0) => FirstVerdict(F) = F[k]
         /\ FirstVerdict(F) # 0 => \E k \in 1 .. N : F[k] # 0 /\ \A j \in 1 .. N : j < k => F[j] = 0
         /\ FirstVerdict(F) \in Verdicts
<1> DEFINE S == {k \in DOMAIN F : F[k] # 0}
           c == CHOOSE n \in S : \A j \in S : n <= j
<1>1. FirstVerdict(F) = IF S = {} THEN 0 ELSE F[c]
  BY DEF FirstVerdict
<1>2. S \in SUBSET Nat /\ \A k : k \in S <=> k \in 1 .. N /\ F[k] # 0
  OBVIOUS
<1>3. S # {} => c \in S /\ \A j \in S : c <= j
  <2> HIDE DEF S
  <2> SUFFICES ASSUME S # {} PROVE \E n \in S : \A j \in S : n <= j
    OBVIOUS
  <2> QED BY <1>2, Least
<1> HIDE DEF S, c
<1>4. ASSUME NEW k \in 1 .. N, F[k] # 0, \A j \in 1 .. N : j < k => F[j] = 0
      PROVE  FirstVerdict(F) = F[k]
  <2>1. k \in S
    BY <1>2, <1>4
  <2>2. c \in S /\ c <= k /\ c \in 1 .. N /\ F[c] # 0
    BY <1>2, <1>3, <2>1
  <2>3. ~(c < k)
    BY <1>4, <2>2
  <2>4. c = k
    BY <2>2, <2>3
  <2> QED BY <1>1, <2>1, <2>4
<1>5. ASSUME FirstVerdict(F) # 0
      PROVE  \E k \in 1 .. N : F[k] # 0 /\ \A j \in 1 .. N : j < k => F[j] = 0
  <2>1. S # {}
    BY <1>1, <1>5
  <2>2. c \in 1 .. N /\ F[c] # 0 /\ \A j \in S : c <= j
    BY <1>2, <1>3, <2>1
  <2>3. ASSUME NEW j \in 1 .. N, j < c PROVE F[j] = 0
    BY <1>2, <2>2, <2>3
  <2> QED BY <2>2, <2>3
<1>6. (\A k \in 1 .. N : F[k] = 0) => FirstVerdict(F) = 0
  BY <1>5
<1>7. FirstVerdict(F) \in Verdicts
  <2>1. CASE S = {}
    BY <1>1, <2>1 DEF Verdicts
  <2>2. CASE S # {}
    <3>1. c \in 1 .. N
      BY <1>2, <1>3, <2>2
    <3> QED BY <1>1, <2>2, <3>1
  <2> QED BY <2>1, <2>2
<1> QED BY <1>4, <1>5, <1>6, <1>7

Leads(F, N, k) == F \in [1 .. N -> Verdicts] /\ k \in 1 .. N /\ F[k] # 0 /\ \A j \in 1 .. N : j < k => F[j] = 0

LEMMA FirstIs ==
  ASSUME NEW N \in Nat, NEW F, NEW k, Leads(F, N, k)
  PROVE  FirstVerdict(F) = F[k]
BY FirstFacts DEF Leads

Decreases(D, step, size) ==
  \A p \in D : (size[p] = 0 => size[step[p]] = 0) /\ (size[p] # 0 => size[step[p]] < size[p])

Settled(D, size, verdict) == \A p \in D : size[p] = 0 => verdict[p] = 0

First(verdict, f, N) == FirstVerdict([n \in 1 .. N |-> verdict[f[n]]])

\* Rounds by step, each with a verdict, that make smaller what is not finished.
Rounds(D, step, size, verdict) ==
  /\ step \in [D -> D] /\ size \in [D -> Nat] /\ verdict \in [D -> Verdicts]
  /\ Decreases(D, step, size) /\ Settled(D, size, verdict)

Round(D, step, size, verdict, a, b, x, N, M) ==
  /\ a \in D /\ b \in D /\ b = step[a] /\ x = verdict[a]
  /\ N \in Nat /\ M \in Nat /\ N # 0 /\ N = size[a] /\ M = size[b]

\* The first round decides, or what comes of it does.
LEMMA RoundsUnfold ==
  ASSUME NEW D, NEW step, NEW size, NEW verdict, Rounds(D, step, size, verdict),
         NEW a, NEW b, NEW x, NEW N, NEW M, Round(D, step, size, verdict, a, b, x, N, M),
         NEW f, Follows(step, D, a, N, f), NEW g, Follows(step, D, b, M, g)
  PROVE  First(verdict, f, N) = IF x # 0 THEN x ELSE First(verdict, g, M)
<1> USE DEF First
<1>1. step \in [D -> D] /\ size \in [D -> Nat] /\ verdict \in [D -> Verdicts] /\ a \in D /\ b \in D
  BY DEF Rounds, Round
<1>2. N = size[a] /\ M = size[b] /\ M < N /\ N \in Nat /\ M \in Nat /\ b = step[a] /\ x = verdict[a]
  BY DEF Rounds, Round, Decreases
<1>3. Follows(step, D, a, N, f) /\ Follows(step, D, b, M, g)
  OBVIOUS
<1>4. (\A n \in 1 .. N : f[n] \in D) /\ (\A n \in 1 .. M : g[n] \in D)
  BY <1>1, <1>2, <1>3, RoundsIn
<1>5. PICK F \in [1 .. N -> Verdicts] : F = [n \in 1 .. N |-> verdict[f[n]]]
  <2>1. \A n \in 1 .. N : verdict[f[n]] \in Verdicts
    BY <1>1, <1>4
  <2>2. [n \in 1 .. N |-> verdict[f[n]]] \in [1 .. N -> Verdicts]
    BY <2>1
  <2> QED BY <2>2
<1>6. PICK G \in [1 .. M -> Verdicts] : G = [n \in 1 .. M |-> verdict[g[n]]]
  <2>1. \A n \in 1 .. M : verdict[g[n]] \in Verdicts
    BY <1>1, <1>4
  <2>2. [n \in 1 .. M |-> verdict[g[n]]] \in [1 .. M -> Verdicts]
    BY <2>1
  <2> QED BY <2>2
<1>7. (\A n \in 1 .. N : F[n] = verdict[f[n]]) /\ (\A n \in 1 .. M : G[n] = verdict[g[n]])
  BY <1>5, <1>6
<1>8. \A n \in 1 .. M : n + 1 \in 1 .. N /\ F[n + 1] = G[n]
  <2>1. \A n \in 1 .. M : f[n + 1] = g[n]
    <3>1. N > 1 => f[2] = b
      <4>1. N > 1 => 1 \in 1 .. N - 1 /\ 1 \in 1 .. N /\ 1 + 1 = 2
        BY <1>2
      <4> QED BY <1>1, <1>2, <1>3, <1>4, <4>1 DEF Follows
    <3>2. Ahead(f, g, M)
      BY <1>1, <1>2, <1>3, <3>1, RoundsShift
    <3> QED BY <3>2 DEF Ahead
  <2> TAKE n \in 1 .. M
  <2>3. n + 1 \in 1 .. N
    BY <1>2
  <2>4. F[n + 1] = verdict[f[n + 1]] /\ G[n] = verdict[g[n]]
    BY <1>7, <2>3
  <2> QED BY <2>1, <2>3, <2>4
<1>9. \A n \in 1 .. N : n > M + 1 => F[n] = 0
  <2>1. \A n \in 2 .. N : size[f[n]] = 0 \/ size[f[n]] + n <= M + 2
    <3>1. \A n \in 2 .. N : size[f[n]] = 0 \/ size[f[n]] + n <= size[step[a]] + 2
      <4>1. \A p \in D : (size[p] = 0 => size[step[p]] = 0) /\ (size[p] # 0 => size[step[p]] < size[p])
        BY DEF Rounds, Decreases
      <4> QED BY <1>1, <1>2, <1>3, <4>1, RoundsEnd
    <3> QED BY <1>2, <3>1
  <2> TAKE n \in 1 .. N
  <2> HAVE n > M + 1
  <2>2. n \in 2 .. N /\ size[f[n]] \in Nat /\ ~(n <= M + 1)
    BY <1>1, <1>2, <1>4
  <2>3. size[f[n]] = 0
    <3>1. PICK s \in Nat : s = size[f[n]]
      BY <2>2
    <3>2. s = 0 \/ s + n <= M + 2
      BY <2>1, <2>2, <3>1
    <3>3. n \in Nat
      BY <2>2
    <3> QED BY <1>2, <2>2, <3>1, <3>2, <3>3
  <2>4. verdict[f[n]] = 0
    BY <1>4, <2>3 DEF Rounds, Settled
  <2> QED BY <1>7, <2>4
<1>10. 1 \in 1 .. N /\ F[1] = verdict[a]
  <2>1. 1 \in 1 .. N
    BY <1>2
  <2>2. f[1] = a
    BY <1>3, <2>1 DEF Follows
  <2> QED BY <1>7, <2>1, <2>2
<1> HIDE DEF Verdicts
<1>11. CASE verdict[a] # 0
  <2>1. \A j \in 1 .. N : ~(j < 1)
    OBVIOUS
  <2>2. FirstVerdict(F) = F[1]
    <3>1. Leads(F, N, 1)
      BY <1>2, <1>10, <1>11, <2>1 DEF Leads
    <3> QED BY <1>2, <3>1, FirstIs
  <2> QED BY <1>2, <1>5, <1>10, <1>11, <2>2
<1>12. CASE verdict[a] = 0
  <2>1. \A n \in 1 .. N : n = 1 \/ n > M + 1 \/ \E k \in 1 .. M : n = k + 1
    <3> TAKE n \in 1 .. N
    <3>1. n # 1 /\ ~(n > M + 1) => n - 1 \in 1 .. M /\ n = (n - 1) + 1
      BY <1>2
    <3> QED BY <3>1
  <2>2. CASE FirstVerdict(G) = 0
    <3>1. \A k \in 1 .. M : G[k] = 0
      <4> SUFFICES ASSUME NEW k0 \in 1 .. M, G[k0] # 0 PROVE FALSE
        OBVIOUS
      <4>1. PICK T : T = {k \in 1 .. M : G[k] # 0}
        OBVIOUS
      <4>2. PICK k \in T : \A j \in T : k <= j
        <5>1. k0 \in T /\ \A k \in T : k \in Nat
          BY <4>1
        <5> QED BY <5>1, Least
      <4>3. k \in 1 .. M /\ G[k] # 0 /\ \A j \in 1 .. M : j < k => G[j] = 0
        BY <4>1, <4>2
      <4>4. FirstVerdict(G) = G[k]
        BY <4>3, <1>2, FirstFacts
      <4> QED BY <2>2, <4>3, <4>4
    <3>2. \A n \in 1 .. N : F[n] = 0
      BY <1>8, <1>9, <1>10, <1>12, <2>1, <3>1
    <3>3. FirstVerdict(F) = 0
      BY <3>2, <1>2, FirstFacts
    <3> QED BY <1>2, <1>5, <1>6, <1>12, <2>2, <3>3
  <2>3. CASE FirstVerdict(G) # 0
    <3>1. PICK k \in 1 .. M : G[k] # 0 /\ \A j \in 1 .. M : j < k => G[j] = 0
      BY <2>3, <1>2, FirstFacts
    <3>2. k + 1 \in 1 .. N /\ F[k + 1] = G[k]
      BY <1>8
    <3>3. ASSUME NEW n \in 1 .. N, n < k + 1 PROVE F[n] = 0
      <4>1. CASE n = 1
        BY <1>10, <1>12, <4>1
      <4>2. CASE n # 1
        <5>1. ~(n > M + 1)
          BY <3>3, <1>2
        <5>2. PICK j \in 1 .. M : n = j + 1
          BY <2>1, <4>2, <5>1
        <5>3. j < k
          BY <3>3, <5>2
        <5> QED BY <1>8, <3>1, <5>2, <5>3
      <4> QED BY <4>1, <4>2
    <3>4. FirstVerdict(F) = F[k + 1]
      <4>1. Leads(F, N, k + 1)
        BY <3>1, <3>2, <3>3 DEF Leads
      <4> QED BY <1>2, <4>1, FirstIs
    <3>5. FirstVerdict(G) = G[k]
      <4>1. Leads(G, M, k)
        BY <3>1 DEF Leads
      <4> QED BY <1>2, <4>1, FirstIs
    <3>6. FirstVerdict(F) = FirstVerdict(G)
      BY <3>2, <3>4, <3>5
    <3> QED BY <1>2, <1>5, <1>6, <1>12, <3>6
  <2> QED BY <2>2, <2>3
<1> QED BY <1>11, <1>12

-----------------------------------------------------------------------------
(* Characters and strings. *)

Strings == Seq(Char)

LEMMA LenFacts ==
  ASSUME NEW s \in Strings
  PROVE  Len(s) \in Nat
BY DEF Strings

LEMMA MinusZero == \A x : x = 0 => -x = 0
<1>1. \A y \in Int : -y = 0 - y
  OBVIOUS
<1> TAKE x
<1> HAVE x = 0
<1>2. x \in Int /\ 0 - x = 0
  OBVIOUS
<1> QED BY <1>1, <1>2, Zenon

LEMMA SignFacts ==
  /\ \A x \in Int : Sign(x) \in Verdicts /\ (Sign(x) = 0 <=> x = 0) /\ (Sign(x) = 1 <=> x > 0)
  /\ \A x, y \in Int : Sign(x - y) = -Sign(y - x)
  /\ Sign(0) = 0
BY DEF Sign, Verdicts

LEMMA OrderFacts ==
  ASSUME NEW c \in Char
  PROVE  order(c) \in Int /\ (order(c) = 0 <=> c \in Digit)
<1>1. Code[c] \in Nat \ {0}
  BY CompareAssumption
<1>2. CASE c \in Digit
  BY <1>2, CompareAssumption DEF order
<1>3. CASE c \notin Digit /\ c \in Letter
  BY <1>1, <1>3 DEF order
<1>4. CASE c \notin Digit /\ c \notin Letter /\ c = "~"
  BY <1>4 DEF order
<1>5. CASE c \notin Digit /\ c \notin Letter /\ c # "~"
  BY <1>1, <1>5 DEF order
<1> QED BY <1>2, <1>3, <1>4, <1>5

LEMMA WeightFacts ==
  ASSUME NEW s \in Strings
  PROVE  Weight(s) \in Int /\ (InText(s) <=> Weight(s) # 0) /\ (InText(s) => s # <<>>)
<1>1. CASE s = <<>>
  BY <1>1 DEF Weight, InText
<1>2. CASE s # <<>>
  <2>1. Head(s) \in Char
    BY <1>2 DEF Strings
  <2> QED BY <1>2, <2>1, OrderFacts DEF Weight, InText
<1> QED BY <1>1, <1>2

LEMMA RestFacts ==
  ASSUME NEW s \in Strings
  PROVE  Rest(s) \in Strings /\ Len(Rest(s)) = IF s = <<>> THEN 0 ELSE Len(s) - 1
BY DEF Rest, Strings

LEMMA AfterDigitsFacts ==
  ASSUME NEW s \in Strings
  PROVE  /\ AfterDigits(s) \in 1 .. Len(s) + 1
         /\ \A j \in 1 .. AfterDigits(s) - 1 : s[j] \in Digit
         /\ AfterDigits(s) <= Len(s) => s[AfterDigits(s)] \notin Digit
         /\ ~InText(s) /\ s # <<>> => AfterDigits(s) > 1
<1>1. PICK n \in Nat : n = Len(s)
  BY DEF Strings
<1> DEFINE Ends == {k \in 1 .. n + 1 : k <= n => s[k] \notin Digit}
<1>2. n + 1 \in Ends /\ Ends \in SUBSET Nat
  OBVIOUS
<1>3. PICK m \in Ends : \A k \in Ends : m <= k
  <2> HIDE DEF Ends
  <2> QED BY <1>2, Least
<1>4. m \in 1 .. n + 1 /\ (m <= n => s[m] \notin Digit)
  OBVIOUS
<1>5. \A j \in 1 .. m - 1 : s[j] \in Digit
  <2> TAKE j \in 1 .. m - 1
  <2>1. j \in 1 .. n + 1 /\ ~(m <= j) /\ j <= n
    BY <1>4
  <2> QED BY <1>3, <2>1
<1>6. /\ AfterDigits(s) \in 1 .. n + 1
      /\ \A j \in 1 .. AfterDigits(s) - 1 : s[j] \in Digit
      /\ AfterDigits(s) <= n => s[AfterDigits(s)] \notin Digit
  BY <1>1, <1>4, <1>5 DEF AfterDigits
<1>7. ASSUME ~InText(s), s # <<>> PROVE AfterDigits(s) > 1
  <2>1. n >= 1 /\ s[1] \in Digit
    BY <1>1, <1>7 DEF InText, Strings
  <2>2. AfterDigits(s) # 1
    BY <1>6, <2>1
  <2> QED BY <1>6, <2>2
<1> QED BY <1>1, <1>6, <1>7

LEMMA PartFacts ==
  ASSUME NEW s \in Strings, NEW m \in 1 .. Len(s) + 1, NEW n \in 0 .. Len(s)
  PROVE  /\ SubSeq(s, m, n) \in Strings
         /\ Len(SubSeq(s, m, n)) = IF m <= n THEN n - m + 1 ELSE 0
         /\ \A k \in 1 .. Len(SubSeq(s, m, n)) : SubSeq(s, m, n)[k] = s[k + m - 1]
<1>1. PICK l \in Nat : l = Len(s) /\ DOMAIN s = 1 .. l /\ \A k \in 1 .. l : s[k] \in Char
  BY DEF Strings
<1>2. m \in Int /\ n \in Int /\ (\A k \in m .. n : s[k] \in Char)
  BY <1>1
<1>3. /\ SubSeq(s, m, n) \in Seq(Char)
      /\ Len(SubSeq(s, m, n)) = IF m <= n THEN n - m + 1 ELSE 0
      /\ \A k \in 1 .. n - m + 1 : SubSeq(s, m, n)[k] = s[m + k - 1]
  BY <1>2, SubSeqProperties
<1>4. \A k \in 1 .. Len(SubSeq(s, m, n)) : k \in 1 .. n - m + 1 /\ m + k - 1 = k + m - 1
  BY <1>1, <1>3
<1> QED BY <1>3, <1>4 DEF Strings

LEMMA AfterNumberFacts ==
  ASSUME NEW s \in Strings
  PROVE  /\ AfterNumber(s) \in Strings
         /\ Len(AfterNumber(s)) = Len(s) - AfterDigits(s) + 1
<1>1. Len(s) \in Nat /\ AfterDigits(s) \in 1 .. Len(s) + 1 /\ Len(s) \in 0 .. Len(s)
  BY AfterDigitsFacts DEF Strings
<1>2. /\ AfterNumber(s) \in Strings
      /\ Len(AfterNumber(s)) = IF AfterDigits(s) <= Len(s) THEN Len(s) - AfterDigits(s) + 1 ELSE 0
  BY <1>1, PartFacts DEF AfterNumber
<1> QED BY <1>1, <1>2

LEMMA DecimalFacts ==
  ASSUME NEW s \in Strings, NEW limit \in Nat
  PROVE  Decimal(s, limit) \in Int
<1>1. PICK N \in Nat : N = Len(s) /\ DOMAIN s = 1 .. N /\ \A k \in 1 .. N : s[k] \in Char
  BY DEF Strings
<1> DEFINE Sums(f, m) == f = [k \in 0 .. m |->
             IF k = 0 THEN 0 ELSE Lesser(limit, Lesser(limit, f[k - 1] * 10) + Code[s[k]] - Code["0"])]
           There(m) == \E f \in [0 .. m -> Int] : Sums(f, m)
           Missing == {m \in 0 .. N : ~There(m)}
<1>2. \A k \in 1 .. N : \A x \in Int : Lesser(limit, Lesser(limit, x * 10) + Code[s[k]] - Code["0"]) \in Int
  <2> TAKE k \in 1 .. N, x \in Int
  <2>1. Code[s[k]] \in Int /\ Code["0"] \in Int
    <3>1. s[k] \in Char /\ "0" \in Char
      BY <1>1, CompareAssumption
    <3> QED BY <3>1, CompareAssumption
  <2>2. Lesser(limit, x * 10) \in Int
    BY DEF Lesser
  <2> QED BY <2>1, <2>2 DEF Lesser
<1>3. There(N)
  <2> SUFFICES ASSUME Missing # {} PROVE FALSE
    BY <1>1
  <2>1. PICK m \in Missing : \A k \in Missing : m <= k
    <3> HIDE DEF There
    <3>1. Missing \in SUBSET Nat
      OBVIOUS
    <3> HIDE DEF Missing
    <3> QED BY <3>1, Least
  <2>2. m \in 0 .. N /\ ~There(m)
    OBVIOUS
  <2>3. CASE m = 0
    <3> DEFINE f == [k \in 0 .. m |-> 0]
    <3>1. \A k \in 0 .. m : k = 0
      BY <2>3
    <3>2. f \in [0 .. m -> Int] /\ Sums(f, m)
      BY <3>1
    <3> QED BY <2>2, <3>2
  <2>4. CASE m # 0
    <3>1. m - 1 \in 0 .. N /\ ~(m <= m - 1) /\ m \in 1 .. N
      BY <2>2, <2>4
    <3>2. There(m - 1)
      BY <2>1, <3>1
    <3>3. PICK f \in [0 .. m - 1 -> Int] : Sums(f, m - 1)
      BY <3>2
    <3> DEFINE next == Lesser(limit, Lesser(limit, f[m - 1] * 10) + Code[s[m]] - Code["0"])
               g == [k \in 0 .. m |-> IF k = m THEN next ELSE f[k]]
    <3>4. f[m - 1] \in Int /\ next \in Int
      <4>1. f[m - 1] \in Int
        BY <3>1
      <4> QED BY <1>2, <3>1, <4>1
    <3> HIDE DEF next
    <3>5. g \in [0 .. m -> Int]
      BY <3>1, <3>4
    <3>6. g[m - 1] = f[m - 1] /\ g[m] = next
      BY <3>1
    <3>7. ASSUME NEW k \in 0 .. m
          PROVE  g[k] = IF k = 0 THEN 0 ELSE Lesser(limit, Lesser(limit, g[k - 1] * 10) + Code[s[k]] - Code["0"])
      <4>1. CASE k = m
        BY <2>4, <3>6, <4>1 DEF next
      <4>2. CASE k # m
        <5>1. k \in 0 .. m - 1 /\ (k # 0 => k - 1 \in 0 .. m /\ k - 1 # m)
          BY <3>1, <4>2
        <5>2. g[k] = f[k] /\ (k # 0 => g[k - 1] = f[k - 1])
          BY <4>2, <5>1
        <5>3. f[k] = IF k = 0 THEN 0 ELSE Lesser(limit, Lesser(limit, f[k - 1] * 10) + Code[s[k]] - Code["0"])
          BY <3>3, <5>1
        <5> QED BY <5>2, <5>3
      <4> QED BY <4>1, <4>2
    <3>8. Sums(g, m)
      BY <3>5, <3>7
    <3> QED BY <2>2, <3>5, <3>8
  <2> QED BY <2>3, <2>4
<1> DEFINE value == CHOOSE f : Sums(f, N)
<1>4. Sums(value, N)
  BY <1>3
<1>5. Decimal(s, limit) = value[N]
  BY <1>1 DEF Decimal
<1> HIDE DEF value
<1> DEFINE Odd == {k \in 0 .. N : value[k] \notin Int}
<1>6. Odd = {}
  <2> SUFFICES ASSUME Odd # {} PROVE FALSE
    OBVIOUS
  <2>1. Odd \in SUBSET Nat
    OBVIOUS
  <2>2. PICK k \in Odd : \A j \in Odd : k <= j
    <3> HIDE DEF Odd
    <3> QED BY <2>1, Least
  <2>3. k \in 0 .. N /\ value[k] \notin Int
    OBVIOUS
  <2>4. value[k] = IF k = 0 THEN 0 ELSE Lesser(limit, Lesser(limit, value[k - 1] * 10) + Code[s[k]] - Code["0"])
    BY <1>4, <2>3
  <2>5. CASE k = 0
    BY <2>3, <2>4, <2>5
  <2>6. CASE k # 0
    <3>1. k - 1 \in 0 .. N /\ ~(k <= k - 1) /\ k \in 1 .. N
      BY <2>3, <2>6
    <3>2. value[k - 1] \in Int
      BY <2>2, <3>1
    <3> QED BY <1>2, <2>3, <2>4, <2>6, <3>1, <3>2
  <2> QED BY <2>5, <2>6
<1> QED BY <1>1, <1>5, <1>6

LEMMA NumberFacts ==
  ASSUME NEW s \in Strings
  PROVE  Number(s) \in Int
<1>1. Len(s) \in Nat /\ AfterDigits(s) \in 1 .. Len(s) + 1
  BY AfterDigitsFacts DEF Strings
<1>2. 1 \in 1 .. Len(s) + 1 /\ AfterDigits(s) - 1 \in 0 .. Len(s)
  BY <1>1
<1>3. SubSeq(s, 1, AfterDigits(s) - 1) \in Strings
  BY <1>2, PartFacts
<1> QED BY <1>3, DecimalFacts, CompareAssumption DEF Number

-----------------------------------------------------------------------------
(* A round of the comparison. *)

\* What a round that does not decide leaves of a string.
After(s) == IF InText(s) THEN Rest(s) ELSE AfterNumber(s)

LEMMA AfterFacts ==
  ASSUME NEW s \in Strings
  PROVE  After(s) \in Strings /\ (s = <<>> => After(s) = <<>>) /\ (s # <<>> => Len(After(s)) < Len(s))
<1>1. Len(s) \in Nat /\ (s # <<>> => Len(s) > 0)
  BY DEF Strings
<1>2. CASE InText(s)
  BY <1>1, <1>2, RestFacts, WeightFacts DEF After
<1>3. CASE ~InText(s)
  <2>1. /\ AfterNumber(s) \in Strings /\ Len(AfterNumber(s)) = Len(s) - AfterDigits(s) + 1
        /\ AfterDigits(s) \in 1 .. Len(s) + 1 /\ (s # <<>> => AfterDigits(s) > 1)
    BY <1>3, AfterNumberFacts, AfterDigitsFacts
  <2>2. s # <<>> => Len(AfterNumber(s)) < Len(s)
    BY <1>1, <2>1
  <2>3. s = <<>> => AfterNumber(s) = <<>>
    <3> SUFFICES ASSUME s = <<>> PROVE AfterNumber(s) = <<>>
      OBVIOUS
    <3>1. Len(s) = 0
      OBVIOUS
    <3>2. Len(AfterNumber(s)) = 0
      BY <2>1, <3>1
    <3> QED BY <2>1, <3>2 DEF Strings
  <2> QED BY <1>3, <2>1, <2>2, <2>3 DEF After
<1> QED BY <1>2, <1>3

\* Verdicts of a round are those of an order.
LEMMA VerdictFacts ==
  ASSUME NEW v \in Strings, NEW m \in Strings, NEW r \in Strings
  PROVE  /\ Verdict(v, r) \in Verdicts
         /\ Verdict(r, v) = -Verdict(v, r)
         /\ Verdict(v, m) # -1 /\ Verdict(m, r) # -1 =>
              Verdict(v, r) = IF Verdict(v, m) = 0 THEN Verdict(m, r) ELSE 1
         /\ Verdict(v, r) = 0 => (InText(v) <=> InText(r))
<1> DEFINE wv == Weight(v)
           wm == Weight(m)
           wr == Weight(r)
           nv == Number(v)
           nm == Number(m)
           nr == Number(r)
<1>1. /\ wv \in Int /\ wm \in Int /\ wr \in Int /\ nv \in Int /\ nm \in Int /\ nr \in Int
      /\ (InText(v) <=> wv # 0) /\ (InText(m) <=> wm # 0) /\ (InText(r) <=> wr # 0)
  BY WeightFacts, NumberFacts
<1>2. /\ Verdict(v, r) = IF wv # 0 \/ wr # 0 THEN Sign(wv - wr) ELSE Sign(nv - nr)
      /\ Verdict(r, v) = IF wr # 0 \/ wv # 0 THEN Sign(wr - wv) ELSE Sign(nr - nv)
      /\ Verdict(v, m) = IF wv # 0 \/ wm # 0 THEN Sign(wv - wm) ELSE Sign(nv - nm)
      /\ Verdict(m, r) = IF wm # 0 \/ wr # 0 THEN Sign(wm - wr) ELSE Sign(nm - nr)
  BY <1>1 DEF Verdict
<1> HIDE DEF wv, wm, wr, nv, nm, nr
<1>3. Verdict(v, r) \in Verdicts /\ Verdict(r, v) = -Verdict(v, r)
  BY <1>1, <1>2 DEF Sign, Verdicts
<1>4. Verdict(v, m) # -1 /\ Verdict(m, r) # -1 =>
        Verdict(v, r) = IF Verdict(v, m) = 0 THEN Verdict(m, r) ELSE 1
  BY <1>1, <1>2 DEF Sign
<1>5. Verdict(v, r) = 0 => (InText(v) <=> InText(r))
  BY <1>1, <1>2 DEF Sign
<1> QED BY <1>3, <1>4, <1>5

LEMMA LeftFacts ==
  ASSUME NEW v \in Strings, NEW r \in Strings
  PROVE  /\ Left(v, r) \in Strings \X Strings
         /\ Verdict(v, r) = 0 => Left(v, r) = <<After(v), After(r)>>
         /\ v = <<>> /\ r = <<>> => Left(v, r) = <<<<>>, <<>>>> /\ Verdict(v, r) = 0
         /\ ~(v = <<>> /\ r = <<>>) => Len(Left(v, r)[1]) + Len(Left(v, r)[2]) < Len(v) + Len(r)
<1>1. /\ Rest(v) \in Strings /\ Rest(r) \in Strings /\ AfterNumber(v) \in Strings /\ AfterNumber(r) \in Strings
      /\ Len(v) \in Nat /\ Len(r) \in Nat
  <2>1. Len(v) \in Nat /\ Len(r) \in Nat
    BY DEF Strings
  <2> QED BY <2>1, RestFacts, AfterNumberFacts
<1>2. Left(v, r) \in Strings \X Strings
  BY <1>1 DEF Left
<1>3. Verdict(v, r) = 0 => Left(v, r) = <<After(v), After(r)>>
  BY VerdictFacts DEF Left, After
<1>4. ASSUME v = <<>>, r = <<>> PROVE Left(v, r) = <<<<>>, <<>>>> /\ Verdict(v, r) = 0
  <2>1. Weight(v) = 0 /\ Weight(r) = 0 /\ v = r /\ Number(v) \in Int
    BY <1>4, NumberFacts DEF Weight
  <2>2. Verdict(v, r) = 0
    BY <2>1, WeightFacts, SignFacts DEF Verdict
  <2> QED BY <1>3, <1>4, <2>2, AfterFacts
<1>5. ASSUME ~(v = <<>> /\ r = <<>>) PROVE Len(Left(v, r)[1]) + Len(Left(v, r)[2]) < Len(v) + Len(r)
  <2>1. CASE InText(v) \/ InText(r)
    <3>1. Left(v, r) = <<Rest(v), Rest(r)>>
      BY <2>1 DEF Left
    <3>2. /\ Len(Rest(v)) = IF v = <<>> THEN 0 ELSE Len(v) - 1
          /\ Len(Rest(r)) = IF r = <<>> THEN 0 ELSE Len(r) - 1
          /\ v = <<>> => Len(v) = 0
          /\ r = <<>> => Len(r) = 0
      BY RestFacts
    <3> QED BY <1>1, <1>5, <3>1, <3>2
  <2>2. CASE ~(InText(v) \/ InText(r))
    <3>1. Left(v, r) = <<After(v), After(r)>>
      BY <2>2 DEF Left, After
    <3>2. /\ After(v) \in Strings /\ After(r) \in Strings
          /\ v # <<>> => Len(After(v)) < Len(v)
          /\ r # <<>> => Len(After(r)) < Len(r)
          /\ v = <<>> => Len(After(v)) = 0 /\ Len(v) = 0
          /\ r = <<>> => Len(After(r)) = 0 /\ Len(r) = 0
      BY AfterFacts
    <3>3. Len(After(v)) \in Nat /\ Len(After(r)) \in Nat
      BY <3>2 DEF Strings
    <3> QED BY <1>1, <1>5, <3>1, <3>2, <3>3
  <2> QED BY <2>1, <2>2
<1> QED BY <1>2, <1>3, <1>4, <1>5

-----------------------------------------------------------------------------
(* The comparison of two strings. *)

Pairs == Strings \X Strings
Size(p) == Len(p[1]) + Len(p[2])

Rounding(step, verdict) ==
  /\ step \in [Pairs -> Pairs]
  /\ \A p \in Pairs : step[p] = Left(p[1], p[2]) /\ verdict[p] = Verdict(p[1], p[2])

Split(a, v, r, N) == a = <<v, r>> /\ v \in Strings /\ r \in Strings /\ N = Len(v) + Len(r)

\* cmp_string is the first verdict of the rounds.
LEMMA CompareRounds ==
  ASSUME NEW step, NEW verdict, Rounding(step, verdict),
         NEW a, NEW v, NEW r, NEW N, Split(a, v, r, N)
  PROVE  \E f : Follows(step, Pairs, a, N, f) /\ cmp_string(v, r) = First(verdict, f, N)
<1> USE DEF Rounding, Split
<1>1. a \in Pairs /\ N \in Nat
  BY DEF Pairs, Strings
<1> DEFINE Computed(g) == g = [n \in 1 .. N |-> IF n = 1 THEN <<v, r>> ELSE Left(g[n - 1][1], g[n - 1][2])]
           f == CHOOSE g : Computed(g)
<1>3. Computed(f)
  <2>1. PICK g : Steps(step, Pairs, a, N, g)
    BY <1>1, RoundsExist
  <2>2. \A n \in 1 .. N : g[n] = IF n = 1 THEN <<v, r>> ELSE Left(g[n - 1][1], g[n - 1][2])
    <3> TAKE n \in 1 .. N
    <3>1. g[n] = IF n = 1 THEN a ELSE step[g[n - 1]]
      BY <2>1 DEF Steps
    <3>2. n # 1 => n - 1 \in 1 .. N
      OBVIOUS
    <3>3. n # 1 => g[n - 1] \in Pairs
      BY <2>1, <3>2 DEF Steps
    <3> QED BY <3>1, <3>3
  <2>3. Computed(g)
    <3>1. g = [n \in 1 .. N |-> g[n]]
      BY <2>1 DEF Steps
    <3> QED BY <2>2, <3>1
  <2> QED BY <2>3
<1>4. PICK F : F = [n \in 1 .. N |-> Verdict(f[n][1], f[n][2])] /\ cmp_string(v, r) = FirstVerdict(F)
  <2>1. cmp_string(v, r) = FirstVerdict([n \in 1 .. N |-> Verdict(f[n][1], f[n][2])])
    BY DEF cmp_string
  <2> QED BY <2>1
<1> HIDE DEF f
<1>5. Follows(step, Pairs, a, N, f)
  <2>1. DOMAIN f = 1 .. N
    BY <1>3
  <2>2. N >= 1 => f[1] = a
    BY <1>3
  <2>3. ASSUME NEW n \in 1 .. N - 1, f[n] \in Pairs PROVE f[n + 1] = step[f[n]]
    <3>1. n + 1 \in 1 .. N /\ n + 1 # 1 /\ n + 1 - 1 = n
      OBVIOUS
    <3>2. f[n + 1] = Left(f[n][1], f[n][2])
      BY <1>3, <3>1
    <3> QED BY <2>3, <3>2
  <2> QED BY <2>1, <2>2, <2>3 DEF Follows
<1>6. PICK G : G = [n \in 1 .. N |-> verdict[f[n]]] /\ First(verdict, f, N) = FirstVerdict(G)
  BY DEF First
<1>7. F = G
  <2>1. \A n \in 1 .. N : f[n] \in Pairs
    BY <1>1, <1>5, RoundsIn
  <2>2. \A n \in 1 .. N : F[n] = G[n]
    BY <1>4, <1>6, <2>1
  <2> QED BY <1>4, <1>6, <2>2
<1>8. cmp_string(v, r) = First(verdict, f, N)
  BY <1>4, <1>6, <1>7
<1> QED BY <1>5, <1>8

LEMMA PairFacts ==
  ASSUME NEW p \in Pairs
  PROVE  /\ p[1] \in Strings /\ p[2] \in Strings /\ p = <<p[1], p[2]>>
         /\ Size(p) \in Nat
         /\ Size(p) = 0 <=> p[1] = <<>> /\ p[2] = <<>>
<1>1. p[1] \in Strings /\ p[2] \in Strings /\ p = <<p[1], p[2]>>
  BY DEF Pairs
<1>2. Len(p[1]) \in Nat /\ Len(p[2]) \in Nat /\ (Len(p[1]) = 0 <=> p[1] = <<>>) /\ (Len(p[2]) = 0 <=> p[2] = <<>>)
  BY <1>1 DEF Strings
<1> QED BY <1>1, <1>2 DEF Size

LEMMA CompareUnfolds ==
  ASSUME NEW v \in Strings, NEW r \in Strings
  PROVE  /\ v = <<>> /\ r = <<>> => cmp_string(v, r) = 0
         /\ cmp_string(v, r) = IF Verdict(v, r) # 0 THEN Verdict(v, r) ELSE cmp_string(After(v), After(r))
<1> DEFINE step == [p \in Pairs |-> Left(p[1], p[2])]
           verdict == [p \in Pairs |-> Verdict(p[1], p[2])]
           size == [p \in Pairs |-> Size(p)]
<1>1. \A p \in Pairs : Left(p[1], p[2]) \in Pairs /\ Verdict(p[1], p[2]) \in Verdicts
  BY PairFacts, LeftFacts, VerdictFacts DEF Pairs
<1>2. /\ step \in [Pairs -> Pairs] /\ \A p \in Pairs : step[p] = Left(p[1], p[2])
      /\ verdict \in [Pairs -> Verdicts] /\ \A p \in Pairs : verdict[p] = Verdict(p[1], p[2])
      /\ size \in [Pairs -> Nat] /\ \A p \in Pairs : size[p] = Size(p)
  BY <1>1, PairFacts
<1> HIDE DEF step, verdict, size
<1>3. \A p \in Pairs : /\ size[p] = 0 => size[step[p]] = 0
                       /\ size[p] # 0 => size[step[p]] < size[p]
                       /\ size[p] = 0 => verdict[p] = 0
  <2> TAKE p \in Pairs
  <2>1. p[1] \in Strings /\ p[2] \in Strings /\ Left(p[1], p[2]) \in Pairs
    BY <1>1, PairFacts
  <2>2. size[p] = Size(p) /\ size[step[p]] = Size(Left(p[1], p[2])) /\ verdict[p] = Verdict(p[1], p[2])
    BY <1>2, <2>1
  <2>3. Size(<<<<>>, <<>>>>) = 0
    BY DEF Size
  <2>4. Size(p) # 0 => Size(Left(p[1], p[2])) < Size(p)
    BY <2>1, PairFacts, LeftFacts DEF Size
  <2>5. Size(p) = 0 => Left(p[1], p[2]) = <<<<>>, <<>>>> /\ Verdict(p[1], p[2]) = 0
    BY <2>1, PairFacts, LeftFacts
  <2> QED BY <2>2, <2>3, <2>4, <2>5
<1>4. Rounding(step, verdict) /\ Rounds(Pairs, step, size, verdict)
  BY <1>2, <1>3 DEF Rounding, Rounds, Decreases, Settled
<1>5. PICK a \in Pairs : a = <<v, r>>
  BY DEF Pairs
<1>6. PICK f : Follows(step, Pairs, a, size[a], f) /\ cmp_string(v, r) = First(verdict, f, size[a])
  <2>1. size[a] \in Nat /\ size[a] = Len(v) + Len(r)
    BY <1>2, <1>5 DEF Size
  <2> QED BY <1>5, <1>4, <2>1, CompareRounds DEF Split
<1>7. ASSUME v = <<>>, r = <<>> PROVE cmp_string(v, r) = 0
  <2>1. size[a] = 0
    BY PairFacts, <1>2, <1>5, <1>7
  <2>2. PICK F : F = [n \in 1 .. 0 |-> verdict[f[n]]]
    OBVIOUS
  <2>3. F \in [1 .. 0 -> Verdicts] /\ \A k \in 1 .. 0 : F[k] = 0
    BY <2>2
  <2>4. FirstVerdict(F) = 0
    BY <2>3, FirstFacts
  <2> QED BY <1>6, <2>1, <2>2, <2>4 DEF First
<1>8. CASE v = <<>> /\ r = <<>>
  <2>1. Verdict(v, r) = 0 /\ After(v) = v /\ After(r) = r
    BY <1>8, LeftFacts, AfterFacts
  <2> QED BY <1>7, <1>8, <2>1
<1>9. CASE ~(v = <<>> /\ r = <<>>)
  <2>1. PICK N \in Nat : N = size[a] /\ N # 0
    BY PairFacts, <1>2, <1>5, <1>9
  <2>2. PICK b \in Pairs : b = Left(v, r)
    BY LeftFacts DEF Pairs
  <2>3. PICK w \in Strings, s \in Strings : b = <<w, s>>
    BY PairFacts
  <2>4. PICK x : b = step[a] /\ x = verdict[a] /\ x = Verdict(v, r)
    BY <1>2, <1>5, <2>2
  <2>5. PICK M \in Nat : M = size[b] /\ M = Len(w) + Len(s)
    BY <1>2, <2>3 DEF Size
  <2>6. PICK g : Follows(step, Pairs, b, M, g) /\ cmp_string(w, s) = First(verdict, g, M)
    <3>1. Split(b, w, s, M)
      BY <2>3, <2>5 DEF Split
    <3> QED BY <1>4, <3>1, CompareRounds
  <2>7. Follows(step, Pairs, a, N, f) /\ cmp_string(v, r) = First(verdict, f, N)
    BY <1>6, <2>1
  <2>8. First(verdict, f, N) = IF x # 0 THEN x ELSE First(verdict, g, M)
    <3>1. Round(Pairs, step, size, verdict, a, b, x, N, M)
      BY <2>1, <2>4, <2>5 DEF Round
    <3> QED BY <1>4, <2>6, <2>7, <3>1, RoundsUnfold
  <2>9. Verdict(v, r) = 0 => w = After(v) /\ s = After(r)
    <3>1. Verdict(v, r) = 0 => <<w, s>> = <<After(v), After(r)>>
      BY <2>2, <2>3, LeftFacts
    <3> QED BY <3>1
  <2> QED BY <1>9, <2>4, <2>6, <2>7, <2>8, <2>9
<1> QED BY <1>7, <1>8, <1>9

\* cmp_string is an order.
InOrder(v, m, r) ==
  /\ cmp_string(v, r) \in Verdicts
  /\ cmp_string(r, v) = -cmp_string(v, r)
  /\ cmp_string(v, m) # -1 /\ cmp_string(m, r) # -1 =>
       cmp_string(v, r) = IF cmp_string(v, m) = 0 THEN cmp_string(m, r) ELSE 1

LEMMA StringOrder ==
  ASSUME NEW v0 \in Strings, NEW m0 \in Strings, NEW r0 \in Strings
  PROVE  InOrder(v0, m0, r0)
<1> DEFINE Bad == {n \in Nat : \E v, m, r \in Strings : n = Len(v) + Len(m) + Len(r) /\ ~InOrder(v, m, r)}
<1> SUFFICES ASSUME Bad # {} PROVE FALSE
  <2>1. Len(v0) + Len(m0) + Len(r0) \in Nat
    BY DEF Strings
  <2> QED BY <2>1
<1>1. PICK n \in Bad : \A k \in Bad : n <= k
  <2>1. Bad \in SUBSET Nat
    OBVIOUS
  <2> HIDE DEF Bad
  <2> QED BY <2>1, Least
<1>2. PICK v \in Strings, m \in Strings, r \in Strings : n = Len(v) + Len(m) + Len(r) /\ ~InOrder(v, m, r)
  OBVIOUS
<1>3. PICK va \in Strings, ma \in Strings, ra \in Strings : va = After(v) /\ ma = After(m) /\ ra = After(r)
  BY AfterFacts
<1>4. /\ Len(v) \in Nat /\ Len(m) \in Nat /\ Len(r) \in Nat /\ Len(va) \in Nat /\ Len(ma) \in Nat /\ Len(ra) \in Nat
      /\ (v = <<>> /\ va = <<>>) \/ Len(va) < Len(v)
      /\ (m = <<>> /\ ma = <<>>) \/ Len(ma) < Len(m)
      /\ (r = <<>> /\ ra = <<>>) \/ Len(ra) < Len(r)
  <2>1. \A s \in Strings : /\ Len(s) \in Nat /\ Len(After(s)) \in Nat
                            /\ \/ s = <<>> /\ After(s) = <<>>
                               \/ Len(After(s)) < Len(s)
    <3> TAKE s \in Strings
    <3>1. After(s) \in Strings /\ (s = <<>> => After(s) = <<>>) /\ (s # <<>> => Len(After(s)) < Len(s))
      BY AfterFacts
    <3>2. Len(s) \in Nat /\ Len(After(s)) \in Nat
      BY <3>1, LenFacts
    <3> QED BY <3>1, <3>2
  <2> QED BY <1>3, <2>1
<1>5. CASE v = <<>> /\ m = <<>> /\ r = <<>>
  <2>1. cmp_string(v, r) = 0 /\ cmp_string(r, v) = 0 /\ cmp_string(v, m) = 0 /\ cmp_string(m, r) = 0
    BY <1>5, CompareUnfolds
  <2>2. InOrder(v, m, r)
    <3>1. cmp_string(v, r) \in Verdicts
      BY <2>1 DEF Verdicts
    <3>2. cmp_string(r, v) = -cmp_string(v, r)
      BY <2>1, MinusZero, Zenon
    <3> QED BY <2>1, <3>1, <3>2 DEF InOrder
  <2> QED BY <1>2, <2>2
<1>6. CASE ~(v = <<>> /\ m = <<>> /\ r = <<>>)
  <2>1. Len(va) + Len(ma) + Len(ra) \in Nat /\ ~(n <= Len(va) + Len(ma) + Len(ra))
    BY <1>2, <1>4, <1>6
  <2>2. InOrder(va, ma, ra)
    BY <1>1, <2>1
  <2>3. /\ cmp_string(v, r) = IF Verdict(v, r) # 0 THEN Verdict(v, r) ELSE cmp_string(va, ra)
        /\ cmp_string(r, v) = IF Verdict(r, v) # 0 THEN Verdict(r, v) ELSE cmp_string(ra, va)
        /\ cmp_string(v, m) = IF Verdict(v, m) # 0 THEN Verdict(v, m) ELSE cmp_string(va, ma)
        /\ cmp_string(m, r) = IF Verdict(m, r) # 0 THEN Verdict(m, r) ELSE cmp_string(ma, ra)
    BY <1>3, CompareUnfolds
  <2>4. /\ Verdict(v, r) \in Verdicts /\ Verdict(v, m) \in Verdicts /\ Verdict(m, r) \in Verdicts
        /\ Verdict(r, v) = -Verdict(v, r)
        /\ Verdict(v, m) # -1 /\ Verdict(m, r) # -1 =>
             Verdict(v, r) = IF Verdict(v, m) = 0 THEN Verdict(m, r) ELSE 1
    BY VerdictFacts
  <2>5. PICK vr, vm, mr, cvr, crv, cvm, cmr :
          /\ vr = Verdict(v, r) /\ vm = Verdict(v, m) /\ mr = Verdict(m, r)
          /\ cvr = cmp_string(va, ra) /\ crv = cmp_string(ra, va)
          /\ cvm = cmp_string(va, ma) /\ cmr = cmp_string(ma, ra)
    OBVIOUS
  <2>6. /\ vr \in Verdicts /\ vm \in Verdicts /\ mr \in Verdicts /\ cvr \in Verdicts /\ crv = -cvr
        /\ vm # -1 /\ mr # -1 => vr = IF vm = 0 THEN mr ELSE 1
        /\ cvm # -1 /\ cmr # -1 => cvr = IF cvm = 0 THEN cmr ELSE 1
    BY <2>2, <2>4, <2>5 DEF InOrder
  <2>7. /\ cmp_string(v, r) = IF vr # 0 THEN vr ELSE cvr
        /\ cmp_string(r, v) = IF vr # 0 THEN -vr ELSE crv
        /\ cmp_string(v, m) = IF vm # 0 THEN vm ELSE cvm
        /\ cmp_string(m, r) = IF mr # 0 THEN mr ELSE cmr
    BY <2>3, <2>4, <2>5 DEF Verdicts
  <2>8. cmp_string(v, r) \in Verdicts /\ cmp_string(r, v) = -cmp_string(v, r)
    BY <2>6, <2>7 DEF Verdicts
  <2>9. cmp_string(v, m) # -1 /\ cmp_string(m, r) # -1 =>
          cmp_string(v, r) = IF cmp_string(v, m) = 0 THEN cmp_string(m, r) ELSE 1
    <3>1. CASE vm = 0 /\ mr = 0
      BY <2>6, <2>7, <3>1
    <3>2. CASE vm = 0 /\ mr = 1
      BY <2>6, <2>7, <3>2 DEF Verdicts
    <3>3. CASE vm = 1
      BY <2>6, <2>7, <3>3 DEF Verdicts
    <3>4. CASE vm = -1 \/ mr = -1
      BY <2>7, <3>4
    <3> QED BY <2>6, <3>1, <3>2, <3>3, <3>4 DEF Verdicts
  <2> QED BY <1>2, <2>8, <2>9 DEF InOrder
<1> QED BY <1>5, <1>6

-----------------------------------------------------------------------------
(* The comparison of two versions. *)

LEMMA EpochFacts ==
  ASSUME NEW s \in Strings
  PROVE  Epoch(s) \in Int /\ Version(s) \in Strings
<1>1. PICK l \in Nat : l = Len(s) /\ DOMAIN s = 1 .. l
  BY DEF Strings
<1>2. EpochAt(s) \in 0 .. l
  <2> DEFINE Colons == {k \in DOMAIN s : s[k] = ":"}
  <2>1. CASE Colons = {}
    BY <1>1, <2>1 DEF EpochAt
  <2>2. CASE Colons # {}
    <3>1. PICK m \in Colons : \A k \in Colons : m <= k
      <4>1. Colons \in SUBSET Nat
        BY <1>1
      <4> HIDE DEF Colons
      <4> QED BY <2>2, <4>1, Least
    <3>2. m \in DOMAIN s /\ s[m] = ":" /\ \A j \in DOMAIN s : s[j] = ":" => m <= j
      BY <3>1
    <3>3. EpochAt(s) \in DOMAIN s
      BY <3>2 DEF EpochAt
    <3> QED BY <1>1, <3>3
  <2> QED BY <2>1, <2>2
<1>3. Version(s) \in Strings
  <2>1. EpochAt(s) + 1 \in 1 .. Len(s) + 1 /\ Len(s) \in 0 .. Len(s)
    BY <1>1, <1>2
  <2> QED BY <2>1, PartFacts DEF Version
<1>4. ASSUME NEW t \in Strings PROVE ParseEpoch(t) \in Int
  <2> DEFINE signed == t # <<>> /\ Head(t) \in {"-", "+"}
             digits == IF signed THEN Tail(t) ELSE t
             value == Decimal(digits, MaxEpoch + 2)
  <2>1. digits \in Strings
    BY DEF Strings
  <2>2. MaxEpoch + 2 \in Nat
    BY CompareAssumption
  <2>3. value \in Int
    <3> HIDE DEF digits
    <3> QED BY <2>1, <2>2, DecimalFacts
  <2>4. ParseEpoch(t) \in {0, -value, value}
    BY DEF ParseEpoch
  <2> HIDE DEF value
  <2> QED BY <2>3, <2>4
<1>5. Epoch(s) \in Int
  <2>1. CASE EpochAt(s) = 0
    BY <2>1 DEF Epoch
  <2>2. CASE EpochAt(s) # 0
    <3>1. 1 \in 1 .. Len(s) + 1 /\ EpochAt(s) - 1 \in 0 .. Len(s)
      BY <1>1, <1>2, <2>2
    <3>2. SubSeq(s, 1, EpochAt(s) - 1) \in Strings
      BY <3>1, PartFacts
    <3> QED BY <1>4, <2>2, <3>2 DEF Epoch
  <2> QED BY <2>1, <2>2
<1> QED BY <1>3, <1>5

LEMMA RevisionFacts ==
  ASSUME NEW s \in Strings
  PROVE  Base(s) \in Strings /\ Revision(s) \in Strings
<1>1. PICK l \in Nat : l = Len(s) /\ DOMAIN s = 1 .. l
  BY DEF Strings
<1>2. RevisionAt(s) \in 0 .. l
  <2> DEFINE Dashes == {k \in DOMAIN s : s[k] = "-"}
             Places == {l - k : k \in Dashes}
  <2>1. CASE Dashes = {}
    BY <1>1, <2>1 DEF RevisionAt
  <2>2. CASE Dashes # {}
    <3>1. PICK p \in Places : \A k \in Places : p <= k
      <4>1. Places \in SUBSET Nat /\ Places # {}
        BY <1>1, <2>2
      <4> HIDE DEF Places
      <4> QED BY <4>1, Least
    <3>2. PICK m \in Dashes : p = l - m
      BY <3>1
    <3>3. m \in DOMAIN s /\ s[m] = "-" /\ \A j \in DOMAIN s : s[j] = "-" => j <= m
      <4>1. ASSUME NEW j \in DOMAIN s, s[j] = "-" PROVE j <= m
        <5>1. l - j \in Places
          BY <4>1
        <5>2. l - m <= l - j /\ j \in Int /\ m \in Int
          BY <1>1, <3>1, <3>2, <5>1
        <5> QED BY <5>2
      <4> QED BY <3>2, <4>1
    <3>4. RevisionAt(s) \in DOMAIN s
      BY <3>3 DEF RevisionAt
    <3> QED BY <1>1, <3>4
  <2> QED BY <2>1, <2>2
<1>3. Base(s) \in Strings
  <2>1. CASE RevisionAt(s) = 0
    BY <2>1 DEF Base
  <2>2. CASE RevisionAt(s) # 0
    <3>1. 1 \in 1 .. Len(s) + 1 /\ RevisionAt(s) - 1 \in 0 .. Len(s)
      BY <1>1, <1>2, <2>2
    <3> QED BY <2>2, <3>1, PartFacts DEF Base
  <2> QED BY <2>1, <2>2
<1>4. Revision(s) \in Strings
  <2>1. CASE RevisionAt(s) = 0
    BY <2>1 DEF Revision, Strings
  <2>2. CASE RevisionAt(s) # 0
    <3>1. RevisionAt(s) + 1 \in 1 .. Len(s) + 1 /\ Len(s) \in 0 .. Len(s)
      BY <1>1, <1>2
    <3> QED BY <2>2, <3>1, PartFacts DEF Revision
  <2> QED BY <2>1, <2>2
<1> QED BY <1>3, <1>4

\* Lexicographic: the epochs decide, then the bases, then the revisions.
Lexically(x, base, revision) == IF x # 0 THEN Sign(x) ELSE IF base # 0 THEN base ELSE revision

\* bhpkg_vercmp is an order.
LEMMA VersionsOrder ==
  ASSUME NEW v \in Strings, NEW m \in Strings, NEW r \in Strings
  PROVE  /\ bhpkg_vercmp(v, r) \in Verdicts
         /\ bhpkg_vercmp(r, v) = -bhpkg_vercmp(v, r)
         /\ bhpkg_vercmp(v, m) # -1 /\ bhpkg_vercmp(m, r) # -1 =>
              bhpkg_vercmp(v, r) = IF bhpkg_vercmp(v, m) = 0 THEN bhpkg_vercmp(m, r) ELSE 1
<1>1. PICK ev \in Int, em \in Int, er \in Int : ev = Epoch(v) /\ em = Epoch(m) /\ er = Epoch(r)
  BY EpochFacts
<1>2. PICK bv \in Strings, bm \in Strings, br \in Strings :
        bv = Base(Version(v)) /\ bm = Base(Version(m)) /\ br = Base(Version(r))
  BY EpochFacts, RevisionFacts
<1>3. PICK rv \in Strings, rm \in Strings, rr \in Strings :
        rv = Revision(Version(v)) /\ rm = Revision(Version(m)) /\ rr = Revision(Version(r))
  BY EpochFacts, RevisionFacts
<1>4. /\ bhpkg_vercmp(v, r) = Lexically(ev - er, cmp_string(bv, br), cmp_string(rv, rr))
      /\ bhpkg_vercmp(r, v) = Lexically(er - ev, cmp_string(br, bv), cmp_string(rr, rv))
      /\ bhpkg_vercmp(v, m) = Lexically(ev - em, cmp_string(bv, bm), cmp_string(rv, rm))
      /\ bhpkg_vercmp(m, r) = Lexically(em - er, cmp_string(bm, br), cmp_string(rm, rr))
  BY <1>1, <1>2, <1>3 DEF bhpkg_vercmp, Lexically
<1>5. InOrder(bv, bm, br) /\ InOrder(rv, rm, rr)
  BY StringOrder
<1>6. InOrder(bv, br, bm) /\ InOrder(rv, rr, rm) /\ InOrder(bm, bv, br) /\ InOrder(rm, rv, rr)
  BY StringOrder
<1>7. PICK x, bx, y, z : /\ x = cmp_string(bv, br) /\ bx = cmp_string(br, bv)
                         /\ y = cmp_string(bv, bm) /\ z = cmp_string(bm, br)
  OBVIOUS
<1>8. PICK p, q, s, t : /\ p = cmp_string(rv, rr) /\ q = cmp_string(rr, rv)
                        /\ s = cmp_string(rv, rm) /\ t = cmp_string(rm, rr)
  OBVIOUS
<1>9. /\ x \in Verdicts /\ y \in Verdicts /\ z \in Verdicts /\ bx = -x
      /\ p \in Verdicts /\ s \in Verdicts /\ t \in Verdicts /\ q = -p
      /\ y # -1 /\ z # -1 => x = IF y = 0 THEN z ELSE 1
      /\ s # -1 /\ t # -1 => p = IF s = 0 THEN t ELSE 1
  BY <1>5, <1>6, <1>7, <1>8 DEF InOrder
<1>10. /\ bhpkg_vercmp(v, r) = Lexically(ev - er, x, p)
       /\ bhpkg_vercmp(r, v) = Lexically(er - ev, bx, q)
       /\ bhpkg_vercmp(v, m) = Lexically(ev - em, y, s)
       /\ bhpkg_vercmp(m, r) = Lexically(em - er, z, t)
  BY <1>4, <1>7, <1>8
<1>11. Lexically(ev - er, x, p) \in Verdicts
  BY <1>9, SignFacts DEF Lexically
<1>12. Lexically(er - ev, bx, q) = -Lexically(ev - er, x, p)
  <2>1. CASE ev = er
    BY <1>9, <2>1 DEF Lexically, Verdicts
  <2>2. CASE ev # er
    <3>1. er - ev # 0 /\ ev - er # 0 /\ Sign(er - ev) = -Sign(ev - er)
      BY <2>2, SignFacts
    <3> QED BY <3>1 DEF Lexically
  <2> QED BY <2>1, <2>2
<1>13. Lexically(ev - em, y, s) # -1 /\ Lexically(em - er, z, t) # -1 =>
         Lexically(ev - er, x, p) = IF Lexically(ev - em, y, s) = 0 THEN Lexically(em - er, z, t) ELSE 1
  <2>1. CASE ev = em /\ em = er
    BY <1>9, <2>1 DEF Lexically, Verdicts
  <2>2. CASE ev # em \/ em # er
    BY <1>9, <2>2 DEF Lexically, Sign, Verdicts
  <2> QED BY <2>1, <2>2
<1> QED BY <1>10, <1>11, <1>12, <1>13

\* Of <, = and > one holds of a verdict.
LEMMA AdmitsOne ==
  ASSUME NEW c \in Verdicts
  PROVE  /\ \E op \in {"<", "=", ">"} : \A o \in {"<", "=", ">"} : Admits(o, c) = (o = op)
         /\ Admits(">=", c) = (Admits(">", c) \/ Admits("=", c))
         /\ Admits("<=", c) = (Admits("<", c) \/ Admits("=", c))
         /\ Admits("==", c) = Admits("=", c)
<1>1. /\ Admits("<", c) = (c < 0)
      /\ Admits("=", c) = (c = 0)
      /\ Admits(">", c) = (c > 0)
      /\ Admits("<=", c) = (c <= 0)
      /\ Admits(">=", c) = (c >= 0)
      /\ Admits("==", c) = (c = 0)
  BY Zenon DEF Admits
<1>2. CASE c < 0
  <2>1. /\ (c < 0) = TRUE
        /\ (c = 0) = FALSE
        /\ (c > 0) = FALSE
        /\ (c <= 0) = TRUE
        /\ (c >= 0) = FALSE
    BY <1>2 DEF Verdicts
  <2>2. /\ Admits("<", c) = TRUE
        /\ Admits("=", c) = FALSE
        /\ Admits("==", c) = FALSE
        /\ Admits(">", c) = FALSE
        /\ Admits("<=", c) = TRUE
        /\ Admits(">=", c) = FALSE
    BY <1>1, <2>1, Zenon
  <2>3. \A o \in {"<", "=", ">"} : Admits(o, c) = (o = "<")
    BY <2>2, Zenon
  <2>4. "<" \in {"<", "=", ">"}
    OBVIOUS
  <2> QED BY <2>2, <2>3, <2>4, Zenon
<1>3. CASE c = 0
  <2>1. /\ (c < 0) = FALSE
        /\ (c = 0) = TRUE
        /\ (c > 0) = FALSE
        /\ (c <= 0) = TRUE
        /\ (c >= 0) = TRUE
    BY <1>3 DEF Verdicts
  <2>2. /\ Admits("<", c) = FALSE
        /\ Admits("=", c) = TRUE
        /\ Admits("==", c) = TRUE
        /\ Admits(">", c) = FALSE
        /\ Admits("<=", c) = TRUE
        /\ Admits(">=", c) = TRUE
    BY <1>1, <2>1, Zenon
  <2>3. \A o \in {"<", "=", ">"} : Admits(o, c) = (o = "=")
    BY <2>2, Zenon
  <2>4. "=" \in {"<", "=", ">"}
    OBVIOUS
  <2> QED BY <2>2, <2>3, <2>4, Zenon
<1>4. CASE c > 0
  <2>1. /\ (c < 0) = FALSE
        /\ (c = 0) = FALSE
        /\ (c > 0) = TRUE
        /\ (c <= 0) = FALSE
        /\ (c >= 0) = TRUE
    BY <1>4 DEF Verdicts
  <2>2. /\ Admits("<", c) = FALSE
        /\ Admits("=", c) = FALSE
        /\ Admits("==", c) = FALSE
        /\ Admits(">", c) = TRUE
        /\ Admits("<=", c) = FALSE
        /\ Admits(">=", c) = TRUE
    BY <1>1, <2>1, Zenon
  <2>3. \A o \in {"<", "=", ">"} : Admits(o, c) = (o = ">")
    BY <2>2, Zenon
  <2>4. ">" \in {"<", "=", ">"}
    OBVIOUS
  <2> QED BY <2>2, <2>3, <2>4, Zenon
<1>5. c < 0 \/ c = 0 \/ c > 0
  BY DEF Verdicts
<1> QED BY <1>2, <1>3, <1>4, <1>5

-----------------------------------------------------------------------------
(* The comparison the policy states, run by run. *)

LEMMA TextRunFacts ==
  ASSUME NEW s \in Strings
  PROVE  /\ TextRun(s) \in Strings /\ Len(TextRun(s)) \in 0 .. Len(s)
         /\ \A k \in 1 .. Len(TextRun(s)) : TextRun(s)[k] = s[k] /\ s[k] \notin Digit
         /\ Len(TextRun(s)) < Len(s) => s[Len(TextRun(s)) + 1] \in Digit
<1>1. PICK l \in Nat : l = Len(s) /\ DOMAIN s = 1 .. l
  BY DEF Strings
<1> DEFINE Stops == {k \in DOMAIN s : s[k] \in Digit}
<1>2. PICK n \in 0 .. l : /\ TextRun(s) = SubSeq(s, 1, n)
                          /\ \A k \in 1 .. n : s[k] \notin Digit
                          /\ n < l => s[n + 1] \in Digit
  <2>1. CASE Stops = {}
    <3>1. TextRun(s) = s
      BY <2>1 DEF TextRun
    <3>2. s = SubSeq(s, 1, l)
      <4>1. 1 \in 1 .. Len(s) + 1 /\ l \in 0 .. Len(s) /\ Len(s) = l
        BY <1>1
      <4>2. /\ SubSeq(s, 1, l) \in Strings /\ Len(SubSeq(s, 1, l)) = l
            /\ \A k \in 1 .. l : SubSeq(s, 1, l)[k] = s[k]
        BY <4>1, PartFacts
      <4> QED BY <1>1, <4>2, SeqEqual DEF Strings
    <3>3. l \in 0 .. l /\ (\A k \in 1 .. l : s[k] \notin Digit) /\ ~(l < l)
      BY <1>1, <2>1
    <3> QED BY <3>1, <3>2, <3>3
  <2>2. CASE Stops # {}
    <3> DEFINE c == CHOOSE k \in Stops : \A j \in Stops : k <= j
    <3>1. c \in Stops /\ \A j \in Stops : c <= j
      <4>1. Stops \in SUBSET Nat
        BY <1>1
      <4> HIDE DEF Stops
      <4>2. \E k \in Stops : \A j \in Stops : k <= j
        BY <2>2, <4>1, Least
      <4> QED BY <4>2
    <3>2. TextRun(s) = SubSeq(s, 1, c - 1)
      BY <2>2 DEF TextRun
    <3> HIDE DEF c
    <3>3. c \in 1 .. l /\ s[c] \in Digit
      BY <1>1, <3>1
    <3>4. \A k \in 1 .. c - 1 : s[k] \notin Digit
      <4> SUFFICES ASSUME NEW k \in 1 .. c - 1, s[k] \in Digit PROVE FALSE
        OBVIOUS
      <4>1. k \in DOMAIN s /\ ~(c <= k)
        BY <1>1, <3>3
      <4> QED BY <3>1, <4>1
    <3>5. c - 1 \in 0 .. l /\ c - 1 + 1 = c
      BY <3>3
    <3> QED BY <3>2, <3>3, <3>4, <3>5
  <2> QED BY <2>1, <2>2
<1>3. 1 \in 1 .. Len(s) + 1 /\ n \in 0 .. Len(s)
  BY <1>1
<1>4. /\ TextRun(s) \in Strings /\ Len(TextRun(s)) = n
      /\ \A k \in 1 .. n : TextRun(s)[k] = s[k]
  BY <1>2, <1>3, PartFacts
<1> QED BY <1>1, <1>2, <1>4

LEMMA AfterTextFacts ==
  ASSUME NEW s \in Strings
  PROVE  /\ AfterText(s) \in Strings /\ Len(AfterText(s)) = Len(s) - Len(TextRun(s))
         /\ \A k \in 1 .. Len(AfterText(s)) : AfterText(s)[k] = s[k + Len(TextRun(s))]
<1>1. Len(s) \in Nat /\ Len(TextRun(s)) \in 0 .. Len(s)
  BY LenFacts, TextRunFacts
<1>2. PICK n \in Nat : n = Len(TextRun(s))
  BY <1>1
<1>3. n + 1 \in 1 .. Len(s) + 1 /\ Len(s) \in 0 .. Len(s)
  BY <1>1, <1>2
<1>4. /\ AfterText(s) \in Strings
      /\ Len(AfterText(s)) = IF n + 1 <= Len(s) THEN Len(s) - (n + 1) + 1 ELSE 0
      /\ \A k \in 1 .. Len(AfterText(s)) : AfterText(s)[k] = s[k + (n + 1) - 1]
  BY <1>2, <1>3, PartFacts DEF AfterText
<1>5. Len(AfterText(s)) = Len(s) - n
  BY <1>1, <1>2, <1>4
<1>6. \A k \in 1 .. Len(AfterText(s)) : k + (n + 1) - 1 = k + n
  BY <1>1, <1>2, <1>5
<1> QED BY <1>2, <1>4, <1>5, <1>6

\* A string that does not begin with text.
LEMMA NoText ==
  ASSUME NEW s \in Strings, ~InText(s)
  PROVE  TextRun(s) = <<>> /\ AfterText(s) = s /\ AfterRun(s) = After(s)
<1>1. Len(s) \in Nat /\ Len(TextRun(s)) \in 0 .. Len(s) /\ TextRun(s) \in Strings
  BY LenFacts, TextRunFacts
<1>2. Len(TextRun(s)) = 0
  <2>1. CASE s = <<>>
    BY <1>1, <2>1
  <2>2. CASE s # <<>>
    <3>1. s[1] \in Digit
      BY <2>2 DEF InText, Strings
    <3>2. ~(1 \in 1 .. Len(TextRun(s)))
      BY <3>1, TextRunFacts
    <3> QED BY <1>1, <3>2
  <2> QED BY <2>1, <2>2
<1>3. TextRun(s) = <<>>
  BY <1>1, <1>2 DEF Strings
<1>4. AfterText(s) = s
  <2>1. /\ AfterText(s) \in Strings /\ Len(AfterText(s)) = Len(s)
        /\ \A k \in 1 .. Len(s) : AfterText(s)[k] = s[k + 0]
    BY <1>1, <1>2, AfterTextFacts
  <2>2. \A k \in 1 .. Len(s) : AfterText(s)[k] = s[k]
    BY <2>1
  <2> QED BY <2>1, <2>2, SeqEqual DEF Strings
<1> QED BY <1>3, <1>4 DEF AfterRun, After

\* A string that begins with text.
LEMMA SomeText ==
  ASSUME NEW s \in Strings, InText(s)
  PROVE  /\ Rest(s) \in Strings
         /\ Len(TextRun(s)) = Len(TextRun(Rest(s))) + 1
         /\ TextRun(s)[1] = Head(s)
         /\ \A k \in 1 .. Len(TextRun(Rest(s))) : TextRun(s)[k + 1] = TextRun(Rest(s))[k]
         /\ AfterText(s) = AfterText(Rest(s))
         /\ AfterRun(s) = AfterRun(Rest(s))
<1>1. PICK t \in Strings : t = Rest(s)
  BY RestFacts
<1>2. /\ Len(t) \in Nat /\ Len(s) = Len(t) + 1 /\ s[1] = Head(s) /\ Head(s) \notin Digit
      /\ \A k \in 1 .. Len(t) : t[k] = s[k + 1]
  BY <1>1, HeadTailProperties DEF InText, Rest, Strings
<1>3. PICK n \in 0 .. Len(s) :
        /\ n = Len(TextRun(s))
        /\ \A k \in 1 .. n : TextRun(s)[k] = s[k] /\ s[k] \notin Digit
        /\ n < Len(s) => s[n + 1] \in Digit
  BY TextRunFacts
<1>4. PICK m \in 0 .. Len(t) :
        /\ m = Len(TextRun(t))
        /\ \A k \in 1 .. m : TextRun(t)[k] = t[k] /\ t[k] \notin Digit
        /\ m < Len(t) => t[m + 1] \in Digit
  BY TextRunFacts
<1>5. n = m + 1
  <2>1. n # 0
    BY <1>2, <1>3
  <2>2. ~(n < m + 1)
    <3> SUFFICES ASSUME n < m + 1 PROVE FALSE
      OBVIOUS
    <3>1. n \in 1 .. m /\ n \in 1 .. Len(t) /\ n < Len(s)
      BY <1>2, <1>4, <2>1
    <3> QED BY <1>2, <1>3, <1>4, <3>1
  <2>3. ~(n > m + 1)
    <3> SUFFICES ASSUME n > m + 1 PROVE FALSE
      OBVIOUS
    <3>1. m < Len(t) /\ m + 1 \in 1 .. Len(t) /\ m + 1 + 1 \in 1 .. n
      BY <1>2, <1>3, <1>4
    <3> QED BY <1>2, <1>3, <1>4, <3>1
  <2> QED BY <1>2, <1>3, <1>4, <2>2, <2>3
<1>6. TextRun(s)[1] = Head(s)
  <2>1. 1 \in 1 .. n
    BY <1>2, <1>4, <1>5
  <2> QED BY <1>2, <1>3, <2>1
<1>7. \A k \in 1 .. m : TextRun(s)[k + 1] = TextRun(t)[k]
  <2> TAKE k \in 1 .. m
  <2>1. k + 1 \in 1 .. n /\ k \in 1 .. Len(t)
    BY <1>2, <1>4, <1>5
  <2> QED BY <1>2, <1>3, <1>4, <2>1
<1>8. AfterText(s) = AfterText(t)
  <2>1. /\ AfterText(s) \in Strings /\ Len(AfterText(s)) = Len(s) - n
        /\ \A k \in 1 .. Len(s) - n : AfterText(s)[k] = s[k + n]
    BY <1>3, AfterTextFacts
  <2>2. /\ AfterText(t) \in Strings /\ Len(AfterText(t)) = Len(t) - m
        /\ \A k \in 1 .. Len(t) - m : AfterText(t)[k] = t[k + m]
    BY <1>4, AfterTextFacts
  <2>3. Len(s) - n = Len(t) - m
    BY <1>2, <1>4, <1>5
  <2>4. ASSUME NEW k \in 1 .. Len(t) - m PROVE AfterText(s)[k] = AfterText(t)[k]
    <3>1. k + m \in 1 .. Len(t) /\ k + n = (k + m) + 1
      BY <1>2, <1>4, <1>5
    <3>2. t[k + m] = s[k + n]
      BY <1>2, <3>1
    <3> QED BY <2>1, <2>2, <2>3, <3>2
  <2> QED BY <2>1, <2>2, <2>3, <2>4, SeqEqual DEF Strings
<1>9. AfterRun(s) = AfterRun(t)
  BY <1>8 DEF AfterRun
<1> QED BY <1>1, <1>3, <1>4, <1>5, <1>6, <1>7, <1>8, <1>9


Positive == Nat \ {0}

LEMMA ClassOfFacts ==
  ASSUME NEW c \in Char
  PROVE  /\ c = "~" => ClassOf(c) = 0
         /\ c \in Letter => ClassOf(c) = 2
         /\ c # "~" /\ c \notin Letter => ClassOf(c) = 3
<1>1. "~" \notin Letter
  BY CompareAssumption
<1>2. CASE c = "~"
  BY <1>1, <1>2 DEF ClassOf
<1>3. CASE c # "~" /\ c \in Letter
  BY <1>1, <1>3 DEF ClassOf
<1>4. CASE c # "~" /\ c \notin Letter
  BY <1>4 DEF ClassOf
<1> QED BY <1>1, <1>2, <1>3, <1>4

\* A character of a text and its end, by class.
LEMMA ClassFacts ==
  ASSUME NEW s \in Strings, NEW k \in Positive
  PROVE  /\ k \notin 1 .. Len(s) => Class(s, k) = 1
         /\ k \in 1 .. Len(s) => /\ s[k] \in Char /\ Code[s[k]] \in Nat \ {0}
                                 /\ s[k] = "~" => Class(s, k) = 0
                                 /\ s[k] \in Letter => Class(s, k) = 2
                                 /\ s[k] # "~" /\ s[k] \notin Letter => Class(s, k) = 3
<1>1. DOMAIN s = 1 .. Len(s)
  BY DEF Strings
<1>2. CASE k \notin 1 .. Len(s)
  BY <1>1, <1>2 DEF Class
<1>3. CASE k \in 1 .. Len(s)
  <2>1. s[k] \in Char /\ Code[s[k]] \in Nat \ {0}
    <3>1. s[k] \in Char
      BY <1>3, ElementOfSeq DEF Strings
    <3> QED BY <3>1, CompareAssumption
  <2>2. Class(s, k) = ClassOf(s[k])
    BY <1>1, <1>3 DEF Class
  <2> QED BY <1>3, <2>1, <2>2, ClassOfFacts
<1> QED BY <1>2, <1>3

LEMMA ClassRange ==
  ASSUME NEW s \in Strings, NEW k \in Positive
  PROVE  Class(s, k) \in 0 .. 3 /\ (Class(s, k) = 1 <=> k \notin 1 .. Len(s))
<1>1. CASE k \notin 1 .. Len(s)
  BY <1>1, ClassFacts
<1>2. CASE k \in 1 .. Len(s)
  <2>1. Class(s, k) \in {0, 2, 3}
    BY <1>2, ClassFacts
  <2> QED BY <1>2, <2>1
<1> QED BY <1>1, <1>2

LEMMA CompareAtFacts ==
  ASSUME NEW s \in Strings, NEW t \in Strings, NEW k \in Positive
  PROVE  /\ CompareAt(s, t, k) \in Verdicts
         /\ k \notin DOMAIN s \cup DOMAIN t => CompareAt(s, t, k) = 0
<1>1. Class(s, k) \in 0 .. 3 /\ Class(t, k) \in 0 .. 3
  BY ClassRange
<1>2. DOMAIN s = 1 .. Len(s) /\ DOMAIN t = 1 .. Len(t)
  BY DEF Strings
<1>3. CASE Class(s, k) # Class(t, k)
  <2>1. Sign(Class(s, k) - Class(t, k)) \in Verdicts
    BY <1>1, SignFacts
  <2>2. k \in DOMAIN s \cup DOMAIN t
    BY <1>2, <1>3, ClassRange
  <2> QED BY <1>3, <2>1, <2>2 DEF CompareAt
<1>4. CASE Class(s, k) = Class(t, k) /\ Class(s, k) = 1
  BY <1>4 DEF CompareAt, Verdicts
<1>5. CASE Class(s, k) = Class(t, k) /\ Class(s, k) # 1
  <2>1. k \in 1 .. Len(s) /\ k \in 1 .. Len(t)
    BY <1>5, ClassRange
  <2>2. Code[s[k]] \in Int /\ Code[t[k]] \in Int
    BY <2>1, ClassFacts
  <2>3. Sign(Code[s[k]] - Code[t[k]]) \in Verdicts
    BY <2>2, SignFacts
  <2> QED BY <1>2, <1>5, <2>1, <2>3 DEF CompareAt
<1> QED BY <1>3, <1>4, <1>5

Alike(s, t) == \A k \in Positive : CompareAt(s, t, k) = 0
Differ(s, t, k) ==
  k \in Positive /\ CompareAt(s, t, k) # 0 /\ \A j \in Positive : j < k => CompareAt(s, t, j) = 0

LEMMA TextFacts ==
  ASSUME NEW s \in Strings, NEW t \in Strings
  PROVE  /\ Alike(s, t) => CompareText(s, t) = 0
         /\ \A k : Differ(s, t, k) => CompareText(s, t) = CompareAt(s, t, k)
         /\ Alike(s, t) \/ \E k : Differ(s, t, k)
         /\ CompareText(s, t) \in Verdicts
<1> DEFINE D == {k \in DOMAIN s \cup DOMAIN t : CompareAt(s, t, k) # 0}
           c == CHOOSE j \in D : \A i \in D : j <= i
<1>1. CompareText(s, t) = IF D = {} THEN 0 ELSE CompareAt(s, t, c)
  BY DEF CompareText
<1>2. D \in SUBSET Positive /\ \A k \in Positive : k \in D <=> CompareAt(s, t, k) # 0
  <2>1. DOMAIN s \subseteq Positive /\ DOMAIN t \subseteq Positive
    BY DEF Strings, Positive
  <2> QED BY <2>1, CompareAtFacts
<1> HIDE DEF D
<1>3. D # {} => c \in D /\ \A j \in D : c <= j
  <2> SUFFICES ASSUME D # {} PROVE \E j \in D : \A i \in D : j <= i
    OBVIOUS
  <2>1. D \in SUBSET Nat
    BY <1>2 DEF Positive
  <2> QED BY <2>1, Least
<1> HIDE DEF c
<1>4. Alike(s, t) => CompareText(s, t) = 0
  BY <1>1, <1>2, <1>3 DEF Alike
<1>5. ASSUME NEW k, Differ(s, t, k) PROVE CompareText(s, t) = CompareAt(s, t, k)
  <2>1. k \in D /\ k \in Positive
    BY <1>2, <1>5 DEF Differ
  <2>2. c \in D /\ c <= k /\ c \in Positive /\ CompareAt(s, t, c) # 0
    BY <1>2, <1>3, <2>1
  <2>3. ~(c < k)
    BY <1>5, <2>2 DEF Differ
  <2>4. c = k
    BY <2>1, <2>2, <2>3 DEF Positive
  <2> QED BY <1>1, <2>1, <2>4
<1>6. Alike(s, t) \/ \E k : Differ(s, t, k)
  <2>1. CASE D = {}
    BY <1>2, <2>1 DEF Alike
  <2>2. CASE D # {}
    <3>1. c \in Positive /\ CompareAt(s, t, c) # 0 /\ \A j \in D : c <= j
      BY <1>2, <1>3, <2>2
    <3>2. ASSUME NEW j \in Positive, j < c PROVE CompareAt(s, t, j) = 0
      <4>1. ~(c <= j)
        BY <3>1, <3>2 DEF Positive
      <4> QED BY <1>2, <3>1, <4>1
    <3> QED BY <3>1, <3>2 DEF Differ
  <2> QED BY <2>1, <2>2
<1>7. CompareText(s, t) \in Verdicts
  <2>1. 0 \in Verdicts
    BY DEF Verdicts
  <2>2. D # {} => CompareAt(s, t, c) \in Verdicts
    BY <1>2, <1>3, CompareAtFacts
  <2> QED BY <1>1, <2>1, <2>2
<1> QED BY <1>4, <1>5, <1>6, <1>7

Shifted(s, t, p, q) ==
  CompareAt(s, t, 1) = 0 /\ \A k \in Positive : CompareAt(s, t, k + 1) = CompareAt(p, q, k)

\* What texts that agree in the first character say is said by their rests.
LEMMA TextShift ==
  ASSUME NEW s \in Strings, NEW t \in Strings, NEW p \in Strings, NEW q \in Strings, Shifted(s, t, p, q)
  PROVE  CompareText(s, t) = CompareText(p, q)
<1>1. \A k \in Positive : k = 1 \/ \E j \in Positive : k = j + 1
  <2> TAKE k \in Positive
  <2>1. k # 1 => k - 1 \in Positive /\ k = (k - 1) + 1
    BY DEF Positive
  <2> QED BY <2>1
<1>2. CASE Alike(p, q)
  <2>1. Alike(s, t)
    BY <1>1, <1>2 DEF Alike, Shifted
  <2> QED BY <1>2, <2>1, TextFacts
<1>3. CASE \E k : Differ(p, q, k)
  <2>1. PICK k : Differ(p, q, k)
    BY <1>3
  <2>2. Differ(s, t, k + 1)
    <3>1. k + 1 \in Positive /\ CompareAt(s, t, k + 1) # 0
      BY <2>1 DEF Differ, Shifted, Positive
    <3>2. ASSUME NEW j \in Positive, j < k + 1 PROVE CompareAt(s, t, j) = 0
      <4>1. CASE j = 1
        BY <4>1 DEF Shifted
      <4>2. CASE j # 1
        <5>1. PICK i \in Positive : j = i + 1
          BY <1>1, <4>2
        <5>2. i < k
          BY <2>1, <3>2, <5>1 DEF Differ, Positive
        <5> QED BY <2>1, <5>1, <5>2 DEF Differ, Shifted
      <4> QED BY <4>1, <4>2
    <3> QED BY <3>1, <3>2 DEF Differ
  <2>3. CompareText(s, t) = CompareAt(s, t, k + 1)
    BY <2>2, TextFacts
  <2>4. CompareText(p, q) = CompareAt(p, q, k)
    BY <2>1, TextFacts
  <2> QED BY <2>1, <2>3, <2>4 DEF Differ, Shifted
<1> QED BY <1>2, <1>3, TextFacts


\* The first character of a string, or what it has instead: its class among the
\* policy's, its weight in the code and its own code.
Ranked(x, w, c) ==
  \/ x = 1 /\ w = 0
  \/ x = 0 /\ w = -1 /\ c = Code["~"] /\ c \in Int
  \/ x = 2 /\ w = c /\ c \in 1 .. 256
  \/ x = 3 /\ w = c + 256 /\ c \in Positive

LEMMA Ranks ==
  ASSUME NEW s \in Strings
  PROVE  Ranked(Class(TextRun(s), 1), Weight(s), Code[TextRun(s)[1]])
<1>0. 1 \in Positive
  BY DEF Positive
<1>1. CASE ~InText(s)
  <2>1. TextRun(s) = <<>> /\ TextRun(s) \in Strings /\ ~(1 \in 1 .. Len(TextRun(s)))
    BY <1>1, NoText, TextRunFacts
  <2>2. Class(TextRun(s), 1) = 1
    BY <1>0, <2>1, ClassFacts
  <2>3. Weight(s) = 0
    BY <1>1, WeightFacts
  <2> QED BY <2>2, <2>3 DEF Ranked
<1>2. CASE InText(s)
  <2>1. PICK c \in Char : c = Head(s) /\ c \notin Digit /\ Weight(s) = order(c)
    BY <1>2, HeadTailProperties DEF InText, Weight, Strings
  <2>2. TextRun(s) \in Strings /\ TextRun(s)[1] = c /\ 1 \in 1 .. Len(TextRun(s))
    <3>1. TextRun(s)[1] = c /\ Rest(s) \in Strings /\ Len(TextRun(s)) = Len(TextRun(Rest(s))) + 1
      BY <1>2, <2>1, SomeText
    <3>2. TextRun(s) \in Strings /\ TextRun(Rest(s)) \in Strings
      BY <3>1, TextRunFacts
    <3>3. Len(TextRun(Rest(s))) \in Nat
      BY <3>2, LenFacts
    <3> QED BY <3>1, <3>2, <3>3
  <2>3. Class(TextRun(s), 1) = ClassOf(c)
    BY <2>2 DEF Class, Strings
  <2>4. Code[c] \in Positive
    BY CompareAssumption DEF Positive
  <2>5. CASE c = "~"
    <3>1. c \notin Letter
      BY <2>5, CompareAssumption
    <3>2. order(c) = -1
      BY <2>1, <2>5, <3>1 DEF order
    <3>3. ClassOf(c) = 0 /\ Code[c] = Code["~"] /\ Code[c] \in Int
      BY <2>4, <2>5, ClassOfFacts DEF Positive
    <3> QED BY <2>1, <2>2, <2>3, <3>2, <3>3 DEF Ranked
  <2>6. CASE c \in Letter
    <3>1. order(c) = Code[c]
      <4>1. c # "~"
        BY <2>6, CompareAssumption
      <4> QED BY <2>1, <2>6, <4>1 DEF order
    <3>2. ClassOf(c) = 2 /\ Code[c] \in 1 .. 256
      BY <2>4, <2>6, ClassOfFacts, CompareAssumption DEF Positive
    <3> QED BY <2>1, <2>2, <2>3, <3>1, <3>2 DEF Ranked
  <2>7. CASE c # "~" /\ c \notin Letter
    <3>1. order(c) = Code[c] + 256
      BY <2>1, <2>7 DEF order
    <3>2. ClassOf(c) = 3
      BY <2>7, ClassOfFacts
    <3> QED BY <2>1, <2>2, <2>3, <2>4, <3>1, <3>2 DEF Ranked
  <2> QED BY <2>5, <2>6, <2>7
<1> QED BY <1>1, <1>2

LEMMA RankSign ==
  ASSUME NEW x, NEW w, NEW c, Ranked(x, w, c), NEW y, NEW u, NEW d, Ranked(y, u, d)
  PROVE  (IF x # y THEN Sign(x - y) ELSE IF x = 1 THEN 0 ELSE Sign(c - d)) = Sign(w - u)
<1>1. x \in 0 .. 3 /\ y \in 0 .. 3 /\ w \in Int /\ u \in Int
  BY DEF Ranked, Positive
<1>2. x = 0 => w = -1 /\ c = Code["~"] /\ c \in Int
  BY DEF Ranked
<1>3. y = 0 => u = -1 /\ d = Code["~"] /\ d \in Int
  BY DEF Ranked
<1>4. x = 1 => w = 0
  BY DEF Ranked
<1>5. y = 1 => u = 0
  BY DEF Ranked
<1>6. x = 2 => w = c /\ c \in 1 .. 256
  BY DEF Ranked
<1>7. y = 2 => u = d /\ d \in 1 .. 256
  BY DEF Ranked
<1>8. x = 3 => w = c + 256 /\ c \in Positive
  BY DEF Ranked
<1>9. y = 3 => u = d + 256 /\ d \in Positive
  BY DEF Ranked
<1>10. CASE x # y
  BY <1>1, <1>2, <1>3, <1>4, <1>5, <1>6, <1>7, <1>8, <1>9, <1>10 DEF Sign, Positive
<1>11. CASE x = y
  <2>1. CASE x = 0
    BY <1>2, <1>3, <1>11, <2>1
  <2>2. CASE x = 1
    BY <1>4, <1>5, <1>11, <2>2, SignFacts
  <2>3. CASE x = 2
    BY <1>6, <1>7, <1>11, <2>3
  <2>4. CASE x = 3
    <3>1. w - u = c - d
      BY <1>8, <1>9, <1>11, <2>4 DEF Positive
    <3> QED BY <1>11, <2>4, <3>1
  <2> QED BY <1>1, <2>1, <2>2, <2>3, <2>4
<1> QED BY <1>10, <1>11

LEMMA FirstCharacter ==
  ASSUME NEW s \in Strings, NEW t \in Strings
  PROVE  CompareAt(TextRun(s), TextRun(t), 1) = Sign(Weight(s) - Weight(t))
<1>1. PICK x, w, c, y, u, d :
        /\ x = Class(TextRun(s), 1) /\ w = Weight(s) /\ c = Code[TextRun(s)[1]]
        /\ y = Class(TextRun(t), 1) /\ u = Weight(t) /\ d = Code[TextRun(t)[1]]
  OBVIOUS
<1>2. Ranked(x, w, c) /\ Ranked(y, u, d)
  BY <1>1, Ranks
<1>3. (IF x # y THEN Sign(x - y) ELSE IF x = 1 THEN 0 ELSE Sign(c - d)) = Sign(w - u)
  BY <1>2, RankSign
<1> QED BY <1>1, <1>3 DEF CompareAt

\* A round that finds nothing in two texts takes a character off both.
LEMMA FirstCharacterOff ==
  ASSUME NEW s \in Strings, NEW t \in Strings, InText(s), InText(t), Weight(s) = Weight(t)
  PROVE  /\ CompareRun(s, t) = CompareRun(Rest(s), Rest(t))
         /\ AfterRun(s) = AfterRun(Rest(s)) /\ AfterRun(t) = AfterRun(Rest(t))
<1>1. PICK sr \in Strings, tr \in Strings : sr = Rest(s) /\ tr = Rest(t)
  BY SomeText
<1>2. PICK a \in Strings, b \in Strings, p \in Strings, q \in Strings :
        a = TextRun(s) /\ b = TextRun(t) /\ p = TextRun(sr) /\ q = TextRun(tr)
  BY <1>1, TextRunFacts
<1>3. /\ Len(a) = Len(p) + 1 /\ (\A k \in 1 .. Len(p) : a[k + 1] = p[k])
      /\ Len(b) = Len(q) + 1 /\ (\A k \in 1 .. Len(q) : b[k + 1] = q[k])
      /\ AfterText(s) = AfterText(sr) /\ AfterText(t) = AfterText(tr)
      /\ AfterRun(s) = AfterRun(sr) /\ AfterRun(t) = AfterRun(tr)
  BY <1>1, <1>2, SomeText
<1>4. /\ DOMAIN a = 1 .. Len(a) /\ DOMAIN b = 1 .. Len(b) /\ DOMAIN p = 1 .. Len(p) /\ DOMAIN q = 1 .. Len(q)
      /\ Len(p) \in Nat /\ Len(q) \in Nat
  BY LenFacts DEF Strings
<1>5. CompareAt(a, b, 1) = 0
  <2>1. Weight(s) \in Int /\ Weight(s) - Weight(t) = 0
    BY WeightFacts
  <2> QED BY <1>2, <2>1, FirstCharacter, SignFacts
<1>6. ASSUME NEW k \in Positive PROVE CompareAt(a, b, k + 1) = CompareAt(p, q, k)
  <2>1. k + 1 \in DOMAIN a <=> k \in DOMAIN p
    BY <1>3, <1>4 DEF Positive
  <2>2. k + 1 \in DOMAIN b <=> k \in DOMAIN q
    BY <1>3, <1>4 DEF Positive
  <2>3. k \in DOMAIN p => a[k + 1] = p[k]
    BY <1>3, <1>4
  <2>4. k \in DOMAIN q => b[k + 1] = q[k]
    BY <1>3, <1>4
  <2>5. Class(a, k + 1) = Class(p, k)
    BY <2>1, <2>3 DEF Class
  <2>6. Class(b, k + 1) = Class(q, k)
    BY <2>2, <2>4 DEF Class
  <2>7. Class(p, k) = Class(q, k) /\ Class(p, k) # 1 => k \in DOMAIN p /\ k \in DOMAIN q
    BY DEF Class
  <2> QED BY <2>3, <2>4, <2>5, <2>6, <2>7 DEF CompareAt
<1>7. CompareText(a, b) = CompareText(p, q)
  <2>1. Shifted(a, b, p, q)
    BY <1>5, <1>6 DEF Shifted
  <2> QED BY <2>1, TextShift
<1> QED BY <1>1, <1>2, <1>3, <1>7 DEF CompareRun


\* Runs make a string shorter.
LEMMA AfterRunFacts ==
  ASSUME NEW s \in Strings
  PROVE  AfterRun(s) \in Strings /\ (s = <<>> => AfterRun(s) = <<>>) /\ (s # <<>> => Len(AfterRun(s)) < Len(s))
<1>1. CASE ~InText(s)
  BY <1>1, NoText, AfterFacts
<1>2. CASE InText(s)
  <2>1. PICK t \in Strings : t = AfterText(s)
    BY AfterTextFacts
  <2>2. Len(t) < Len(s) /\ Len(t) \in Nat /\ Len(s) \in Nat /\ s # <<>>
    <3>1. Rest(s) \in Strings /\ Len(TextRun(s)) = Len(TextRun(Rest(s))) + 1
      BY <1>2, SomeText
    <3>2. Len(TextRun(Rest(s))) \in Nat /\ Len(TextRun(s)) \in Nat
      BY <3>1, TextRunFacts, LenFacts
    <3>3. Len(t) = Len(s) - Len(TextRun(s)) /\ Len(t) \in Nat /\ Len(s) \in Nat
      BY <2>1, AfterTextFacts, LenFacts
    <3> QED BY <1>2, <3>1, <3>2, <3>3, WeightFacts
  <2>3. /\ AfterNumber(t) \in Strings /\ Len(AfterNumber(t)) = Len(t) - AfterDigits(t) + 1
        /\ AfterDigits(t) \in 1 .. Len(t) + 1
    BY AfterNumberFacts, AfterDigitsFacts
  <2>4. Len(AfterNumber(t)) < Len(s)
    BY <2>2, <2>3
  <2> QED BY <2>1, <2>2, <2>3, <2>4 DEF AfterRun
<1> QED BY <1>1, <1>2

LEMMA RunFacts ==
  ASSUME NEW s \in Strings, NEW t \in Strings
  PROVE  CompareRun(s, t) \in Verdicts /\ (s = <<>> /\ t = <<>> => CompareRun(s, t) = 0)
<1>1. CompareText(TextRun(s), TextRun(t)) \in Verdicts
  BY TextRunFacts, TextFacts
<1>2. Number(AfterText(s)) \in Int /\ Number(AfterText(t)) \in Int
  BY AfterTextFacts, NumberFacts
<1>3. CompareRun(s, t) \in Verdicts
  BY <1>1, <1>2, SignFacts DEF CompareRun
<1>4. ASSUME s = <<>>, t = <<>> PROVE CompareRun(s, t) = 0
  <2>1. s = t /\ TextRun(s) \in Strings
    BY <1>4, TextRunFacts
  <2>2. Weight(s) = 0 /\ ~InText(s)
    BY <1>4 DEF Weight, InText
  <2>3. TextRun(s) = <<>>
    BY <2>2, NoText
  <2>4. CompareText(<<>>, <<>>) = 0
    BY DEF CompareText
  <2> QED BY <1>2, <2>1, <2>3, <2>4, SignFacts DEF CompareRun
<1> QED BY <1>3, <1>4

\* The runs of the policy, as rounds.
Running(step, verdict) ==
  /\ step \in [Pairs -> Pairs]
  /\ \A p \in Pairs : step[p] = <<AfterRun(p[1]), AfterRun(p[2])>> /\ verdict[p] = CompareRun(p[1], p[2])

LEMMA PolicyRounds ==
  ASSUME NEW step, NEW verdict, Running(step, verdict),
         NEW a, NEW v, NEW r, NEW N, Split(a, v, r, N)
  PROVE  \E f : Follows(step, Pairs, a, N, f) /\ ComparePolicy(v, r) = First(verdict, f, N)
<1> USE DEF Running, Split
<1>1. a \in Pairs /\ N \in Nat
  BY DEF Pairs, Strings
<1> DEFINE Computed(g) == g = [n \in 1 .. N |-> IF n = 1 THEN <<v, r>>
                                               ELSE <<AfterRun(g[n - 1][1]), AfterRun(g[n - 1][2])>>]
           f == CHOOSE g : Computed(g)
<1>3. Computed(f)
  <2>1. PICK g : Steps(step, Pairs, a, N, g)
    BY <1>1, RoundsExist
  <2>2. \A n \in 1 .. N : g[n] = IF n = 1 THEN <<v, r>> ELSE <<AfterRun(g[n - 1][1]), AfterRun(g[n - 1][2])>>
    <3> TAKE n \in 1 .. N
    <3>1. g[n] = IF n = 1 THEN a ELSE step[g[n - 1]]
      BY <2>1 DEF Steps
    <3>2. n # 1 => n - 1 \in 1 .. N
      OBVIOUS
    <3>3. n # 1 => g[n - 1] \in Pairs
      BY <2>1, <3>2 DEF Steps
    <3> QED BY <3>1, <3>3
  <2>3. Computed(g)
    <3>1. g = [n \in 1 .. N |-> g[n]]
      BY <2>1 DEF Steps
    <3> QED BY <2>2, <3>1
  <2> QED BY <2>3
<1>4. PICK F : F = [n \in 1 .. N |-> CompareRun(f[n][1], f[n][2])] /\ ComparePolicy(v, r) = FirstVerdict(F)
  <2>1. ComparePolicy(v, r) = FirstVerdict([n \in 1 .. N |-> CompareRun(f[n][1], f[n][2])])
    BY DEF ComparePolicy
  <2> QED BY <2>1
<1> HIDE DEF f
<1>5. Follows(step, Pairs, a, N, f)
  <2>1. DOMAIN f = 1 .. N
    BY <1>3
  <2>2. N >= 1 => f[1] = a
    BY <1>3
  <2>3. ASSUME NEW n \in 1 .. N - 1, f[n] \in Pairs PROVE f[n + 1] = step[f[n]]
    <3>1. n + 1 \in 1 .. N /\ n + 1 # 1 /\ n + 1 - 1 = n
      OBVIOUS
    <3>2. f[n + 1] = <<AfterRun(f[n][1]), AfterRun(f[n][2])>>
      BY <1>3, <3>1
    <3> QED BY <2>3, <3>2
  <2> QED BY <2>1, <2>2, <2>3 DEF Follows
<1>6. PICK G : G = [n \in 1 .. N |-> verdict[f[n]]] /\ First(verdict, f, N) = FirstVerdict(G)
  BY DEF First
<1>7. F = G
  <2>1. \A n \in 1 .. N : f[n] \in Pairs
    BY <1>1, <1>5, RoundsIn
  <2>2. \A n \in 1 .. N : F[n] = G[n]
    BY <1>4, <1>6, <2>1
  <2> QED BY <1>4, <1>6, <2>2
<1>8. ComparePolicy(v, r) = First(verdict, f, N)
  BY <1>4, <1>6, <1>7
<1> QED BY <1>5, <1>8

LEMMA RunsLeft ==
  ASSUME NEW v \in Strings, NEW r \in Strings
  PROVE  /\ <<AfterRun(v), AfterRun(r)>> \in Strings \X Strings
         /\ v = <<>> /\ r = <<>> => <<AfterRun(v), AfterRun(r)>> = <<<<>>, <<>>>> /\ CompareRun(v, r) = 0
         /\ ~(v = <<>> /\ r = <<>>) =>
              Len(<<AfterRun(v), AfterRun(r)>>[1]) + Len(<<AfterRun(v), AfterRun(r)>>[2]) < Len(v) + Len(r)
<1>1. AfterRun(v) \in Strings /\ AfterRun(r) \in Strings
  BY AfterRunFacts
<1>2. v = <<>> /\ r = <<>> => <<AfterRun(v), AfterRun(r)>> = <<<<>>, <<>>>> /\ CompareRun(v, r) = 0
  BY AfterRunFacts, RunFacts
<1>3. ASSUME ~(v = <<>> /\ r = <<>>) PROVE Len(AfterRun(v)) + Len(AfterRun(r)) < Len(v) + Len(r)
  <2>1. /\ v # <<>> => Len(AfterRun(v)) < Len(v)
        /\ r # <<>> => Len(AfterRun(r)) < Len(r)
        /\ v = <<>> => Len(AfterRun(v)) = 0 /\ Len(v) = 0
        /\ r = <<>> => Len(AfterRun(r)) = 0 /\ Len(r) = 0
    BY AfterRunFacts
  <2>2. Len(v) \in Nat /\ Len(r) \in Nat /\ Len(AfterRun(v)) \in Nat /\ Len(AfterRun(r)) \in Nat
    BY <1>1, LenFacts
  <2> QED BY <1>3, <2>1, <2>2
<1> QED BY <1>1, <1>2, <1>3

LEMMA PolicyUnfolds ==
  ASSUME NEW v \in Strings, NEW r \in Strings
  PROVE  /\ v = <<>> /\ r = <<>> => ComparePolicy(v, r) = 0
         /\ ComparePolicy(v, r) = IF CompareRun(v, r) # 0 THEN CompareRun(v, r)
                                  ELSE ComparePolicy(AfterRun(v), AfterRun(r))
<1> DEFINE step == [p \in Pairs |-> <<AfterRun(p[1]), AfterRun(p[2])>>]
           verdict == [p \in Pairs |-> CompareRun(p[1], p[2])]
           size == [p \in Pairs |-> Size(p)]
<1>1. \A p \in Pairs : <<AfterRun(p[1]), AfterRun(p[2])>> \in Pairs /\ CompareRun(p[1], p[2]) \in Verdicts
  BY PairFacts, RunsLeft, RunFacts DEF Pairs
<1>2. /\ step \in [Pairs -> Pairs] /\ \A p \in Pairs : step[p] = <<AfterRun(p[1]), AfterRun(p[2])>>
      /\ verdict \in [Pairs -> Verdicts] /\ \A p \in Pairs : verdict[p] = CompareRun(p[1], p[2])
      /\ size \in [Pairs -> Nat] /\ \A p \in Pairs : size[p] = Size(p)
  BY <1>1, PairFacts
<1> HIDE DEF step, verdict, size
<1>3. \A p \in Pairs : /\ size[p] = 0 => size[step[p]] = 0
                       /\ size[p] # 0 => size[step[p]] < size[p]
                       /\ size[p] = 0 => verdict[p] = 0
  <2> TAKE p \in Pairs
  <2>1. p[1] \in Strings /\ p[2] \in Strings /\ <<AfterRun(p[1]), AfterRun(p[2])>> \in Pairs
    BY <1>1, PairFacts
  <2>2. size[p] = Size(p) /\ size[step[p]] = Size(<<AfterRun(p[1]), AfterRun(p[2])>>) /\ verdict[p] = CompareRun(p[1], p[2])
    BY <1>2, <2>1
  <2>3. Size(<<<<>>, <<>>>>) = 0
    BY DEF Size
  <2>4. Size(p) # 0 => Size(<<AfterRun(p[1]), AfterRun(p[2])>>) < Size(p)
    BY <2>1, PairFacts, RunsLeft DEF Size
  <2>5. Size(p) = 0 => <<AfterRun(p[1]), AfterRun(p[2])>> = <<<<>>, <<>>>> /\ CompareRun(p[1], p[2]) = 0
    BY <2>1, PairFacts, RunsLeft
  <2> QED BY <2>2, <2>3, <2>4, <2>5
<1>4. Running(step, verdict) /\ Rounds(Pairs, step, size, verdict)
  BY <1>2, <1>3 DEF Running, Rounds, Decreases, Settled
<1>5. PICK a \in Pairs : a = <<v, r>>
  BY DEF Pairs
<1>6. PICK f : Follows(step, Pairs, a, size[a], f) /\ ComparePolicy(v, r) = First(verdict, f, size[a])
  <2>1. size[a] \in Nat /\ size[a] = Len(v) + Len(r)
    BY <1>2, <1>5 DEF Size
  <2> QED BY <1>5, <1>4, <2>1, PolicyRounds DEF Split
<1>7. ASSUME v = <<>>, r = <<>> PROVE ComparePolicy(v, r) = 0
  <2>1. size[a] = 0
    BY PairFacts, <1>2, <1>5, <1>7
  <2>2. PICK F : F = [n \in 1 .. 0 |-> verdict[f[n]]]
    OBVIOUS
  <2>3. F \in [1 .. 0 -> Verdicts] /\ \A k \in 1 .. 0 : F[k] = 0
    BY <2>2
  <2>4. FirstVerdict(F) = 0
    BY <2>3, FirstFacts
  <2> QED BY <1>6, <2>1, <2>2, <2>4 DEF First
<1>8. CASE v = <<>> /\ r = <<>>
  <2>1. CompareRun(v, r) = 0 /\ AfterRun(v) = v /\ AfterRun(r) = r
    BY <1>8, RunFacts, AfterRunFacts
  <2> QED BY <1>7, <1>8, <2>1
<1>9. CASE ~(v = <<>> /\ r = <<>>)
  <2>1. PICK N \in Nat : N = size[a] /\ N # 0
    BY PairFacts, <1>2, <1>5, <1>9
  <2>2. PICK b \in Pairs : b = <<AfterRun(v), AfterRun(r)>>
    BY RunsLeft DEF Pairs
  <2>3. PICK w \in Strings, s \in Strings : b = <<w, s>>
    BY PairFacts
  <2>4. PICK x : b = step[a] /\ x = verdict[a] /\ x = CompareRun(v, r)
    BY <1>2, <1>5, <2>2
  <2>5. PICK M \in Nat : M = size[b] /\ M = Len(w) + Len(s)
    BY <1>2, <2>3 DEF Size
  <2>6. PICK g : Follows(step, Pairs, b, M, g) /\ ComparePolicy(w, s) = First(verdict, g, M)
    <3>1. Split(b, w, s, M)
      BY <2>3, <2>5 DEF Split
    <3> QED BY <1>4, <3>1, PolicyRounds
  <2>7. Follows(step, Pairs, a, N, f) /\ ComparePolicy(v, r) = First(verdict, f, N)
    BY <1>6, <2>1
  <2>8. First(verdict, f, N) = IF x # 0 THEN x ELSE First(verdict, g, M)
    <3>1. Round(Pairs, step, size, verdict, a, b, x, N, M)
      BY <2>1, <2>4, <2>5 DEF Round
    <3> QED BY <1>4, <2>6, <2>7, <3>1, RoundsUnfold
  <2>9. CompareRun(v, r) = 0 => w = AfterRun(v) /\ s = AfterRun(r)
    <3>1. CompareRun(v, r) = 0 => <<w, s>> = <<AfterRun(v), AfterRun(r)>>
      BY <2>2, <2>3
    <3> QED BY <3>1
  <2> QED BY <1>9, <2>4, <2>6, <2>7, <2>8, <2>9
<1> QED BY <1>7, <1>8, <1>9

\* cmp_string is the comparison the policy states.
LEMMA SameAsPolicy ==
  ASSUME NEW v0 \in Strings, NEW r0 \in Strings
  PROVE  cmp_string(v0, r0) = ComparePolicy(v0, r0)
<1> DEFINE Bad == {n \in Nat : \E v, r \in Strings : n = Len(v) + Len(r) /\ cmp_string(v, r) # ComparePolicy(v, r)}
<1> SUFFICES ASSUME Bad # {} PROVE FALSE
  <2>1. Len(v0) + Len(r0) \in Nat
    BY DEF Strings
  <2> QED BY <2>1
<1>1. PICK n \in Bad : \A k \in Bad : n <= k
  <2>1. Bad \in SUBSET Nat
    OBVIOUS
  <2> HIDE DEF Bad
  <2> QED BY <2>1, Least
<1>2. PICK v \in Strings, r \in Strings : n = Len(v) + Len(r) /\ cmp_string(v, r) # ComparePolicy(v, r)
  OBVIOUS
<1>3. PICK va \in Strings, ra \in Strings : va = After(v) /\ ra = After(r)
  BY AfterFacts
<1>4. ~(v = <<>> /\ r = <<>>)
  BY <1>2, CompareUnfolds, PolicyUnfolds
<1>5. cmp_string(va, ra) = ComparePolicy(va, ra)
  <2>1. /\ v # <<>> => Len(va) < Len(v)
        /\ r # <<>> => Len(ra) < Len(r)
        /\ v = <<>> => Len(va) = 0 /\ Len(v) = 0
        /\ r = <<>> => Len(ra) = 0 /\ Len(r) = 0
    BY <1>3, AfterFacts
  <2>2. Len(v) \in Nat /\ Len(r) \in Nat /\ Len(va) \in Nat /\ Len(ra) \in Nat
    BY LenFacts
  <2>3. Len(va) + Len(ra) \in Nat /\ ~(n <= Len(va) + Len(ra))
    BY <1>2, <1>4, <2>1, <2>2
  <2> QED BY <1>1, <2>3
<1>6. /\ cmp_string(v, r) = IF Verdict(v, r) # 0 THEN Verdict(v, r) ELSE cmp_string(va, ra)
      /\ ComparePolicy(v, r) = IF CompareRun(v, r) # 0 THEN CompareRun(v, r) ELSE ComparePolicy(AfterRun(v), AfterRun(r))
      /\ ComparePolicy(va, ra) = IF CompareRun(va, ra) # 0 THEN CompareRun(va, ra)
                                 ELSE ComparePolicy(AfterRun(va), AfterRun(ra))
  BY <1>3, CompareUnfolds, PolicyUnfolds
<1>7. CASE ~InText(v) /\ ~InText(r)
  <2>1. /\ TextRun(v) = <<>> /\ AfterText(v) = v /\ AfterRun(v) = va
        /\ TextRun(r) = <<>> /\ AfterText(r) = r /\ AfterRun(r) = ra
    BY <1>3, <1>7, NoText
  <2>2. CompareText(<<>>, <<>>) = 0
    BY DEF CompareText
  <2>3. CompareRun(v, r) = Verdict(v, r)
    BY <1>7, <2>1, <2>2 DEF CompareRun, Verdict
  <2> QED BY <1>2, <1>5, <1>6, <2>1, <2>3
<1>8. CASE (InText(v) \/ InText(r)) /\ Verdict(v, r) # 0
  <2>1. Verdict(v, r) = CompareAt(TextRun(v), TextRun(r), 1)
    BY <1>8, FirstCharacter DEF Verdict
  <2>2. TextRun(v) \in Strings /\ TextRun(r) \in Strings
    BY TextRunFacts
  <2>3. Differ(TextRun(v), TextRun(r), 1)
    BY <1>8, <2>1 DEF Differ, Positive
  <2>4. CompareText(TextRun(v), TextRun(r)) = Verdict(v, r)
    BY <2>1, <2>2, <2>3, TextFacts
  <2>5. CompareRun(v, r) = Verdict(v, r)
    BY <1>8, <2>4 DEF CompareRun
  <2> QED BY <1>2, <1>6, <1>8, <2>5
<1>9. CASE (InText(v) \/ InText(r)) /\ Verdict(v, r) = 0
  <2>1. InText(v) /\ InText(r)
    BY <1>9, VerdictFacts
  <2>2. Weight(v) = Weight(r)
    <3>1. Weight(v) \in Int /\ Weight(r) \in Int /\ Sign(Weight(v) - Weight(r)) = 0
      BY <1>9, WeightFacts DEF Verdict
    <3> QED BY <3>1, SignFacts
  <2>3. va = Rest(v) /\ ra = Rest(r)
    BY <1>3, <2>1 DEF After
  <2>4. CompareRun(v, r) = CompareRun(va, ra) /\ AfterRun(v) = AfterRun(va) /\ AfterRun(r) = AfterRun(ra)
    BY <2>1, <2>2, <2>3, FirstCharacterOff
  <2> QED BY <1>2, <1>5, <1>6, <1>9, <2>4
<1> QED BY <1>7, <1>8, <1>9

-----------------------------------------------------------------------------
(* The theorems. *)

\* What the comparison returned is what it returns for its arguments.
Answered ==
  /\ val \in Strings /\ ref_ver \in Strings
  /\ result # NotCalled => result = bhpkg_vercmp(val, ref_ver)

THEOREM CompareAnswers == Spec => []Answered
<1>1. Init => Answered
  BY OrderAssumption DEF Init, Answered, Strings
<1>2. Answered /\ [Compare]_vars => Answered'
  BY DEF Answered, Compare, vars
<1> QED BY <1>1, <1>2, PTL DEF Spec

\* Which argument comes first does not matter, and nothing between two versions
\* turns them round, for versions of any length and any characters.
THEOREM ComparisonIsOrder == Spec => []IsOrder
<1>1. Answered => IsOrder
  <2> SUFFICES ASSUME Answered, result # NotCalled PROVE IsOrder
    BY DEF IsOrder
  <2>1. PICK v \in Strings, r \in Strings : v = val /\ r = ref_ver /\ result = bhpkg_vercmp(v, r)
    BY DEF Answered
  <2>2. result = -bhpkg_vercmp(r, v)
    BY <2>1, VersionsOrder
  <2>3. ASSUME result >= 0, NEW mid \in Third, bhpkg_vercmp(r, mid) >= 0
        PROVE  bhpkg_vercmp(v, mid) >= result
    <3>1. mid \in Strings
      BY OrderAssumption DEF Strings
    <3>2. bhpkg_vercmp(v, r) \in Verdicts /\ bhpkg_vercmp(r, mid) \in Verdicts /\ bhpkg_vercmp(v, mid) \in Verdicts
      BY <3>1, VersionsOrder
    <3>3. bhpkg_vercmp(v, r) # -1 /\ bhpkg_vercmp(r, mid) # -1
      BY <2>1, <2>3
    <3>4. bhpkg_vercmp(v, mid) = IF bhpkg_vercmp(v, r) = 0 THEN bhpkg_vercmp(r, mid) ELSE 1
      BY <3>1, <3>3, VersionsOrder
    <3> QED BY <2>1, <2>3, <3>2, <3>4 DEF Verdicts
  <2> QED BY <2>1, <2>2, <2>3 DEF IsOrder
<1> QED BY <1>1, CompareAnswers, PTL

\* A version meets exactly one of <, = and > another, and >=, <= and == accordingly.
THEOREM ConstraintsDecide == Spec => []ConstraintsPartition
<1>1. Answered => ConstraintsPartition
  <2> SUFFICES ASSUME Answered, result # NotCalled, ref_ver # <<>>, Head(ref_ver) \in Digit
               PROVE  ConstraintsPartition
    BY DEF ConstraintsPartition
  <2>1. PICK c \in Verdicts : c = bhpkg_vercmp(val, ref_ver)
    BY VersionsOrder DEF Answered
  <2>2. \A op : eval_constraint(val, op, ref_ver) = Admits(op, c)
    BY <2>1 DEF eval_constraint
  <2>3. /\ \E op \in {"<", "=", ">"} : \A o \in {"<", "=", ">"} : Admits(o, c) = (o = op)
        /\ Admits(">=", c) = (Admits(">", c) \/ Admits("=", c))
        /\ Admits("<=", c) = (Admits("<", c) \/ Admits("=", c))
        /\ Admits("==", c) = Admits("=", c)
    BY <2>1, AdmitsOne
  <2>4. /\ \E op \in {"<", "=", ">"} : \A o \in {"<", "=", ">"} : eval_constraint(val, o, ref_ver) = (o = op)
        /\ eval_constraint(val, ">=", ref_ver) = (eval_constraint(val, ">", ref_ver) \/ eval_constraint(val, "=", ref_ver))
        /\ eval_constraint(val, "<=", ref_ver) = (eval_constraint(val, "<", ref_ver) \/ eval_constraint(val, "=", ref_ver))
        /\ eval_constraint(val, "==", ref_ver) = eval_constraint(val, "=", ref_ver)
    <3>1. PICK op \in {"<", "=", ">"} : \A o \in {"<", "=", ">"} : Admits(o, c) = (o = op)
      BY <2>3, Zenon
    <3>2. \A o \in {"<", "=", ">"} : eval_constraint(val, o, ref_ver) = (o = op)
      <4> TAKE o \in {"<", "=", ">"}
      <4>1. Admits(o, c) = (o = op)
        BY <3>1
      <4>2. eval_constraint(val, o, ref_ver) = Admits(o, c)
        BY <2>2
      <4> QED BY <4>1, <4>2, Zenon
    <3>3. \E q \in {"<", "=", ">"} : \A o \in {"<", "=", ">"} : eval_constraint(val, o, ref_ver) = (o = q)
      BY <3>2, Zenon
    <3>4. /\ eval_constraint(val, ">=", ref_ver) = Admits(">=", c)
          /\ eval_constraint(val, ">", ref_ver) = Admits(">", c)
          /\ eval_constraint(val, "=", ref_ver) = Admits("=", c)
          /\ eval_constraint(val, "<=", ref_ver) = Admits("<=", c)
          /\ eval_constraint(val, "<", ref_ver) = Admits("<", c)
          /\ eval_constraint(val, "==", ref_ver) = Admits("==", c)
      BY <2>2
    <3> QED BY <2>3, <3>3, <3>4, Zenon
  <2> QED BY <2>4, Zenon DEF ConstraintsPartition
<1> QED BY <1>1, CompareAnswers, PTL

\* The newer version is the one the policy says, whatever their characters and
\* however long they are.
THEOREM ComparisonIsPolicy == Spec => []AgreesWithPolicy
<1>1. Answered => AgreesWithPolicy
  <2> SUFFICES ASSUME Answered, result # NotCalled PROVE AgreesWithPolicy
    BY DEF AgreesWithPolicy
  <2>1. PICK v \in Strings, r \in Strings : v = val /\ r = ref_ver /\ result = bhpkg_vercmp(v, r)
    BY DEF Answered
  <2>2. PICK e, b, q :
          /\ e = Sign(Epoch(v) - Epoch(r))
          /\ b = ComparePolicy(Base(Version(v)), Base(Version(r)))
          /\ q = ComparePolicy(Revision(Version(v)), Revision(Version(r)))
    OBVIOUS
  <2>3. /\ Epoch(v) \in Int /\ Epoch(r) \in Int
        /\ Base(Version(v)) \in Strings /\ Base(Version(r)) \in Strings
        /\ Revision(Version(v)) \in Strings /\ Revision(Version(r)) \in Strings
    BY EpochFacts, RevisionFacts
  <2>4. b = cmp_string(Base(Version(v)), Base(Version(r))) /\ q = cmp_string(Revision(Version(v)), Revision(Version(r)))
    BY <2>2, <2>3, SameAsPolicy
  <2>5. e \in Verdicts /\ b \in Verdicts /\ q \in Verdicts /\ (e = 0 <=> Epoch(v) = Epoch(r))
    <3>1. b \in Verdicts /\ q \in Verdicts
      BY <2>3, <2>4, StringOrder DEF InOrder
    <3>2. e \in Verdicts /\ (e = 0 <=> Epoch(v) - Epoch(r) = 0)
      BY <2>2, <2>3, SignFacts
    <3> QED BY <2>3, <3>1, <3>2
  <2>6. result = IF e # 0 THEN e ELSE IF b # 0 THEN b ELSE q
    BY <2>1, <2>2, <2>4, <2>5 DEF bhpkg_vercmp
  <2>7. PICK F \in [1 .. 3 -> Verdicts] : F = <<e, b, q>> /\ F[1] = e /\ F[2] = b /\ F[3] = q
    <3>1. PICK F : F = <<e, b, q>>
      OBVIOUS
    <3>2. F \in Seq(Verdicts) /\ Len(F) = 3 /\ F[1] = e /\ F[2] = b /\ F[3] = q
      BY <2>5, <3>1
    <3>3. F \in [1 .. 3 -> Verdicts]
      BY <3>2, LenProperties
    <3> QED BY <3>1, <3>2, <3>3
  <2>8. FirstVerdict(F) = result
    <3>1. \A k \in 1 .. 3 : k = 1 \/ k = 2 \/ k = 3
      OBVIOUS
    <3>2. CASE e # 0
      <4>1. Leads(F, 3, 1)
        BY <2>7, <3>2 DEF Leads
      <4> QED BY <2>6, <2>7, <3>2, <4>1, FirstIs
    <3>3. CASE e = 0 /\ b # 0
      <4>1. Leads(F, 3, 2)
        BY <2>7, <3>1, <3>3 DEF Leads
      <4> QED BY <2>6, <2>7, <3>3, <4>1, FirstIs
    <3>4. CASE e = 0 /\ b = 0 /\ q # 0
      <4>1. Leads(F, 3, 3)
        BY <2>7, <3>1, <3>4 DEF Leads
      <4> QED BY <2>6, <2>7, <3>4, <4>1, FirstIs
    <3>5. CASE e = 0 /\ b = 0 /\ q = 0
      <4>1. \A k \in 1 .. 3 : F[k] = 0
        BY <2>7, <3>1, <3>5
      <4> QED BY <2>6, <3>5, <4>1, FirstFacts
    <3> QED BY <3>2, <3>3, <3>4, <3>5
  <2> QED BY <2>1, <2>2, <2>7, <2>8 DEF AgreesWithPolicy
<1> QED BY <1>1, CompareAnswers, PTL
=============================================================================
