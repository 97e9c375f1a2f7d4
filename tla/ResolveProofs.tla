--------------------------- MODULE ResolveProofs ---------------------------
(***************************************************************************)
(* What the resolver promises, proved for any catalog and any request, and *)
(* what the sort it ends in promises, proved for any packages.             *)
(*                                                                         *)
(* The argument for the sort is Tarjan's.  A call leads to what is above   *)
(* it on the stack (CallsLead), and a place on the stack to the last call  *)
(* below it (LeadsToCall): as that call's lowlink is the number of a place *)
(* it leads to (LowFound), it can hand the place over to its caller when   *)
(* it returns without a component.  No dependency that was looked at leads *)
(* below the lowlink of the call it was found in (LowLeast), so what is    *)
(* popped is closed but for what was popped before (OrderClosed), and      *)
(* leads to itself all around.                                             *)
(*                                                                         *)
(* The argument for the resolver is that the clauses say what the          *)
(* manifests say: a valuation that makes them true chooses an answer to    *)
(* the request, and every answer in the catalog gives one (FormulaRight).  *)
(***************************************************************************)
EXTENDS Resolve, SatSolverProofs, FiniteSetTheorems, SequenceTheorems, WellFoundedInduction, TLAPS

-----------------------------------------------------------------------------
(* The sort. *)

Leads(i, j) == Reaches(adj, i, j)
Emitted(v) == \E k \in DOMAIN order : order[k] = v
Called(v) == \E k \in DOMAIN calls : calls[k] = v

\* The last call that is not above x on the stack.
LastCall(k, x) ==
  /\ indices[calls[k]] <= indices[x]
  /\ k < Len(calls) => indices[x] < indices[calls[k + 1]]

NumbersDiffer == \A u, v \in Idx : u # v /\ indices[u] # 0 => indices[u] # indices[v]

StackRises == \A j, k \in DOMAIN stack : j < k => indices[stack[j]] < indices[stack[k]]

CallsRise ==
  /\ \A j, k \in DOMAIN calls : j < k => indices[calls[j]] < indices[calls[k]]
  /\ \A k \in DOMAIN calls : OnStack(calls[k])

\* What has a number is on the stack or in the order, in one place.
Placed ==
  /\ \A v \in Idx : indices[v] # 0 <=> OnStack(v) \/ Emitted(v)
  /\ \A v \in Idx : ~(OnStack(v) /\ Emitted(v))
  /\ \A k, m \in DOMAIN order : k # m => order[k] # order[m]

\* Who returned has looked at all its neighbours, and what was looked at has a number.
LeftKnown ==
  /\ \A v \in Idx : left[v] \subseteq adj[v]
  /\ \A v \in Idx : indices[v] # 0 /\ ~Called(v) => left[v] = {}
  /\ \A v \in Idx : indices[v] = 0 => left[v] = adj[v]
  /\ \A v \in Idx : \A w \in adj[v] \ left[v] : indices[w] # 0

OrderClosed == \A v \in Idx : Emitted(v) => \A w \in adj[v] : Emitted(w)

CallsLead ==
  \A k \in DOMAIN calls : \A x \in Idx :
    OnStack(x) /\ indices[calls[k]] <= indices[x] => Leads(calls[k], x)

LeadsToCall == \A x \in Idx : OnStack(x) => \E k \in DOMAIN calls : LastCall(k, x) /\ Leads(x, calls[k])

LowFound ==
  \A k \in DOMAIN calls :
    /\ lowlinks[calls[k]] <= indices[calls[k]]
    /\ \E y \in Idx : OnStack(y) /\ indices[y] = lowlinks[calls[k]] /\ Leads(calls[k], y)

LowLeast ==
  \A k \in DOMAIN calls : \A x \in Idx : OnStack(x) /\ LastCall(k, x) =>
    \A y \in adj[x] \ left[x] : OnStack(y) => lowlinks[calls[k]] <= indices[y]

OrderRight == DependenciesLead(adj, order) /\ CyclesTogether(adj, order)

Numbered == NumbersDiffer /\ StackRises /\ CallsRise /\ Placed /\ LeftKnown
Linked == OrderClosed /\ CallsLead /\ LeadsToCall /\ LowFound /\ LowLeast /\ OrderRight

SortInv == SortTypeOK /\ Numbered /\ Linked

-----------------------------------------------------------------------------
(* What leads where. *)

LEMMA LeadsFacts ==
  ASSUME NEW g
  PROVE  /\ \A i \in DOMAIN g : Reaches(g, i, i)
         /\ \A i \in DOMAIN g : \A j \in g[i] : Reaches(g, i, j)
         /\ \A i, j, k : Reaches(g, i, j) /\ Reaches(g, j, k) => Reaches(g, i, k)
         /\ \A T \in SUBSET DOMAIN g : \A i \in T : \A j : Closed(g, T) /\ Reaches(g, i, j) => j \in T
<1>1. \A i \in DOMAIN g : Reaches(g, i, i)
  BY DEF Reaches
<1>2. \A i \in DOMAIN g : \A j \in g[i] : Reaches(g, i, j)
  BY DEF Reaches, Closed
<1>3. \A i, j, k : Reaches(g, i, j) /\ Reaches(g, j, k) => Reaches(g, i, k)
  BY DEF Reaches
<1>4. \A T \in SUBSET DOMAIN g : \A i \in T : \A j : Closed(g, T) /\ Reaches(g, i, j) => j \in T
  BY DEF Reaches
<1> QED BY <1>1, <1>2, <1>3, <1>4

LEMMA SeqFacts ==
  ASSUME SortTypeOK
  PROVE  /\ Len(stack) \in Nat /\ DOMAIN stack = 1 .. Len(stack)
         /\ Len(calls) \in Nat /\ DOMAIN calls = 1 .. Len(calls)
         /\ Len(order) \in Nat /\ DOMAIN order = 1 .. Len(order)
         /\ \A k \in DOMAIN stack : stack[k] \in Idx
         /\ \A k \in DOMAIN calls : calls[k] \in Idx
         /\ \A k \in DOMAIN order : order[k] \in Idx
         /\ \A v \in Idx : indices[v] \in Nat /\ lowlinks[v] \in Nat /\ indices[v] < index /\ lowlinks[v] < index
         /\ Searching => Len(calls) \in DOMAIN calls /\ Current \in Idx
<1>1. Len(stack) \in Nat /\ DOMAIN stack = 1 .. Len(stack)
  BY DEF SortTypeOK
<1>2. Len(calls) \in Nat /\ DOMAIN calls = 1 .. Len(calls) /\ \A k \in DOMAIN calls : calls[k] \in Idx
  BY DEF SortTypeOK
<1>3. Len(order) \in Nat /\ DOMAIN order = 1 .. Len(order)
  BY DEF SortTypeOK
<1>4. \A k \in DOMAIN stack : stack[k] \in Idx
  BY DEF SortTypeOK
<1>5. \A k \in DOMAIN order : order[k] \in Idx
  BY DEF SortTypeOK
<1>6. \A v \in Idx : indices[v] \in Nat /\ lowlinks[v] \in Nat /\ indices[v] < index /\ lowlinks[v] < index
  BY DEF SortTypeOK
<1>7. Searching => Len(calls) # 0
  BY <1>2 DEF Searching, SortTypeOK
<1> QED BY <1>1, <1>2, <1>3, <1>4, <1>5, <1>6, <1>7 DEF Current

\* A call is on the stack and has a number; the last one has the greatest.
LEMMA CallFacts ==
  ASSUME SortInv
  PROVE  /\ \A k \in DOMAIN calls : OnStack(calls[k]) /\ indices[calls[k]] # 0 /\ Called(calls[k])
         /\ \A j, k \in DOMAIN calls : calls[j] = calls[k] => j = k
         /\ Searching => \A k \in DOMAIN calls : indices[calls[k]] <= indices[Current]
<1>1. \A k \in DOMAIN calls : OnStack(calls[k]) /\ indices[calls[k]] # 0 /\ Called(calls[k])
  BY SeqFacts DEF SortInv, Numbered, CallsRise, Placed, Called
<1>2. ASSUME NEW j \in DOMAIN calls, NEW k \in DOMAIN calls, calls[j] = calls[k] PROVE j = k
  <2>1. ~(j < k) /\ ~(k < j)
    BY <1>2, SeqFacts DEF SortInv, Numbered, CallsRise
  <2> QED BY <2>1, SeqFacts DEF SortInv
<1>3. ASSUME Searching, NEW k \in DOMAIN calls PROVE indices[calls[k]] <= indices[Current]
  <2>1. k = Len(calls) \/ k < Len(calls)
    BY SeqFacts DEF SortInv
  <2> QED BY <1>3, <2>1, SeqFacts DEF SortInv, Numbered, CallsRise, Current
<1> QED BY <1>1, <1>2, <1>3

-----------------------------------------------------------------------------
(* A place is entered. *)

LEMMA EnterFacts ==
  ASSUME SortTypeOK, NEW v \in Idx, Enter(v)
  PROVE  /\ adj' = adj /\ order' = order /\ index' = index + 1
         /\ \A x \in Idx : indices'[x] = (IF x = v THEN index ELSE indices[x])
         /\ \A x \in Idx : lowlinks'[x] = (IF x = v THEN index ELSE lowlinks[x])
         /\ Len(stack') = Len(stack) + 1 /\ DOMAIN stack' = 1 .. Len(stack) + 1
         /\ stack'[Len(stack) + 1] = v /\ \A k \in DOMAIN stack : stack'[k] = stack[k]
         /\ Len(calls') = Len(calls) + 1 /\ DOMAIN calls' = 1 .. Len(calls) + 1
         /\ calls'[Len(calls) + 1] = v /\ \A k \in DOMAIN calls : calls'[k] = calls[k]
         /\ \A x \in Idx : OnStack(x)' <=> OnStack(x) \/ x = v
         /\ \A x \in Idx : Called(x)' <=> Called(x) \/ x = v
         /\ left' \in [Idx -> SUBSET Idx] => SortTypeOK'
<1>1. /\ adj' = adj /\ order' = order /\ index' = index + 1
      /\ \A x \in Idx : indices'[x] = (IF x = v THEN index ELSE indices[x])
      /\ \A x \in Idx : lowlinks'[x] = (IF x = v THEN index ELSE lowlinks[x])
  BY DEF Enter, SortTypeOK
<1>2. /\ Len(stack') = Len(stack) + 1 /\ DOMAIN stack' = 1 .. Len(stack) + 1
      /\ stack'[Len(stack) + 1] = v /\ \A k \in DOMAIN stack : stack'[k] = stack[k]
      /\ stack' \in Seq(Idx)
  BY SMTT(60) DEF Enter, SortTypeOK
<1>3. /\ Len(calls') = Len(calls) + 1 /\ DOMAIN calls' = 1 .. Len(calls) + 1
      /\ calls'[Len(calls) + 1] = v /\ \A k \in DOMAIN calls : calls'[k] = calls[k]
      /\ calls' \in Seq(Idx)
  BY SMTT(60) DEF Enter, SortTypeOK
<1>4. \A x \in Idx : OnStack(x)' <=> OnStack(x) \/ x = v
  <2>1. DOMAIN stack' = DOMAIN stack \cup {Len(stack) + 1}
    BY <1>2, SeqFacts
  <2> QED BY <1>2, <2>1 DEF OnStack
<1>5. \A x \in Idx : Called(x)' <=> Called(x) \/ x = v
  <2>1. DOMAIN calls' = DOMAIN calls \cup {Len(calls) + 1}
    BY <1>3, SeqFacts
  <2> QED BY <1>3, <2>1 DEF Called
<1>6. ASSUME left' \in [Idx -> SUBSET Idx] PROVE SortTypeOK'
  <2>1. index' \in Nat \ {0} /\ index' - 1 = index
    BY <1>1 DEF SortTypeOK
  <2>2. indices' \in [Idx -> 0 .. index] /\ lowlinks' \in [Idx -> 0 .. index]
    BY <2>1 DEF SortTypeOK, Enter
  <2>3. Idx' = Idx
    BY <1>1 DEF Idx
  <2> QED BY <1>1, <1>2, <1>3, <1>6, <2>1, <2>2, <2>3 DEF SortTypeOK
<1> QED BY <1>1, <1>2, <1>3, <1>4, <1>5, <1>6

\* From the end of a call, or for a root.
Entering(v) ==
  /\ indices[v] = 0
  /\ Enter(v)
  /\ \/ calls = <<>> /\ left' = left
     \/ NextNeighbour(v)

LEMMA EnteringFacts ==
  ASSUME SortInv, NEW v \in Idx, Entering(v)
  PROVE  /\ SortTypeOK'
         /\ ~OnStack(v) /\ ~Emitted(v) /\ ~Called(v)
         /\ \A x \in Idx : left'[x] \subseteq left[x] /\ left[x] \ left'[x] \subseteq {v}
         /\ \A x \in Idx : left'[x] # left[x] => Searching /\ x = Current
         /\ left'[v] = adj[v]
         /\ \A k \in DOMAIN calls : Leads(calls[k], v)
<1>1. ~OnStack(v) /\ ~Emitted(v)
  BY DEF SortInv, Numbered, Placed, Entering
<1>2. ~Called(v)
  BY <1>1, CallFacts DEF Called
<1>3. CASE calls = <<>> /\ left' = left
  <2>1. left' \in [Idx -> SUBSET Idx] /\ left'[v] = adj[v]
    BY <1>3 DEF SortInv, SortTypeOK, Numbered, LeftKnown, Entering
  <2> QED BY <1>1, <1>2, <1>3, <2>1, EnterFacts DEF SortInv, Entering
<1>4. CASE NextNeighbour(v)
  <2>1. /\ Searching /\ Current \in Idx /\ v \in left[Current]
        /\ left' = [left EXCEPT ![Current] = @ \ {v}]
        /\ left \in [Idx -> SUBSET Idx]
    BY <1>4, SeqFacts DEF NextNeighbour, SortInv, SortTypeOK
  <2>2. Current # v
    BY <1>1, <2>1, CallFacts, SeqFacts DEF SortInv, Current
  <2>3. left' \in [Idx -> SUBSET Idx] /\ left'[v] = adj[v]
    BY <2>1, <2>2 DEF SortInv, Numbered, LeftKnown, Entering
  <2>4. \A k \in DOMAIN calls : Leads(calls[k], v)
    <3> TAKE k \in DOMAIN calls
    <3>1. OnStack(Current) /\ indices[calls[k]] <= indices[Current]
      BY <2>1, CallFacts, SeqFacts DEF SortInv, Current
    <3>2. Leads(calls[k], Current)
      BY <2>1, <3>1 DEF SortInv, Linked, CallsLead
    <3>3. v \in adj[Current]
      BY <2>1 DEF SortInv, Numbered, LeftKnown
    <3> QED BY <2>1, <3>2, <3>3, LeadsFacts DEF Leads, Idx
  <2> QED BY <1>1, <1>2, <2>1, <2>3, <2>4, EnterFacts DEF SortInv, Entering
<1> QED BY <1>3, <1>4 DEF Entering

LEMMA EnteringNumbered ==
  ASSUME SortInv, NEW v \in Idx, Entering(v)
  PROVE  Numbered'
<1> USE DEF SortInv
<1>1. /\ adj' = adj /\ order' = order /\ Idx' = Idx
      /\ \A x \in Idx : indices'[x] = (IF x = v THEN index ELSE indices[x])
      /\ DOMAIN stack' = 1 .. Len(stack) + 1
      /\ stack'[Len(stack) + 1] = v /\ \A k \in DOMAIN stack : stack'[k] = stack[k]
      /\ DOMAIN calls' = 1 .. Len(calls) + 1
      /\ calls'[Len(calls) + 1] = v /\ \A k \in DOMAIN calls : calls'[k] = calls[k]
      /\ \A x \in Idx : OnStack(x)' <=> OnStack(x) \/ x = v
      /\ \A x \in Idx : Called(x)' <=> Called(x) \/ x = v
  BY EnterFacts DEF Entering, Idx
<1>2. \A x \in Idx : indices[x] < index /\ indices[x] \in Nat /\ index \in Nat \ {0}
  BY SeqFacts DEF SortTypeOK
<1>3. indices[v] = 0 /\ ~OnStack(v) /\ ~Emitted(v) /\ ~Called(v)
  BY EnteringFacts DEF Entering
<1>4. NumbersDiffer'
  BY <1>1, <1>2 DEF Numbered, NumbersDiffer
<1>5. StackRises'
  <2> SUFFICES ASSUME NEW j \in DOMAIN stack', NEW k \in DOMAIN stack', j < k
               PROVE  indices'[stack'[j]] < indices'[stack'[k]]
    BY DEF StackRises
  <2>1. j \in DOMAIN stack /\ stack[j] \in Idx /\ stack[j] # v /\ stack'[j] = stack[j]
    BY <1>1, <1>3, SeqFacts DEF OnStack
  <2>2. CASE k \in DOMAIN stack
    <3>1. stack[k] \in Idx /\ stack[k] # v /\ stack'[k] = stack[k]
      BY <1>1, <1>3, <2>2, SeqFacts DEF OnStack
    <3> QED BY <1>1, <2>1, <2>2, <3>1 DEF Numbered, StackRises
  <2>3. CASE k = Len(stack) + 1
    BY <1>1, <1>2, <2>1, <2>3
  <2> QED BY <1>1, <2>2, <2>3, SeqFacts
<1>6. CallsRise'
  <2>1. ASSUME NEW j \in DOMAIN calls', NEW k \in DOMAIN calls', j < k
        PROVE  indices'[calls'[j]] < indices'[calls'[k]]
    <3>1. j \in DOMAIN calls /\ calls[j] \in Idx /\ calls[j] # v /\ calls'[j] = calls[j]
      BY <1>1, <1>3, <2>1, SeqFacts DEF Called
    <3>2. CASE k \in DOMAIN calls
      <4>1. calls[k] \in Idx /\ calls[k] # v /\ calls'[k] = calls[k]
        BY <1>1, <1>3, <3>2, SeqFacts DEF Called
      <4> QED BY <1>1, <2>1, <3>1, <3>2, <4>1 DEF Numbered, CallsRise
    <3>3. CASE k = Len(calls) + 1
      BY <1>1, <1>2, <3>1, <3>3
    <3> QED BY <1>1, <3>2, <3>3, SeqFacts
  <2>2. ASSUME NEW k \in DOMAIN calls' PROVE OnStack(calls[k])' 
    <3>1. k \in DOMAIN calls \/ calls'[k] = v
      BY <1>1, SeqFacts
    <3> QED BY <1>1, <3>1, SeqFacts DEF Numbered, CallsRise
  <2> QED BY <2>1, <2>2 DEF CallsRise
<1>7. Placed'
  <2>1. \A x : Emitted(x)' <=> Emitted(x)
    BY <1>1 DEF Emitted
  <2>2. \A x \in Idx : indices'[x] # 0 <=> OnStack(x)' \/ Emitted(x)'
    BY <1>1, <1>2, <2>1 DEF Numbered, Placed
  <2>3. \A x \in Idx : ~(OnStack(x)' /\ Emitted(x)')
    BY <1>1, <1>3, <2>1 DEF Numbered, Placed
  <2>4. \A k, m \in DOMAIN order' : k # m => order'[k] # order'[m]
    BY <1>1 DEF Numbered, Placed
  <2> QED BY <1>1, <2>2, <2>3, <2>4 DEF Placed
<1>8. LeftKnown'
  <2>1. /\ \A x \in Idx : left'[x] \subseteq left[x] /\ left[x] \ left'[x] \subseteq {v}
        /\ \A x \in Idx : left'[x] # left[x] => Called(x)
        /\ left'[v] = adj[v]
    <3>1. Searching => Called(Current)
      BY SeqFacts DEF Called, Current
    <3> QED BY <3>1, EnteringFacts
  <2>2. \A x \in Idx : left'[x] \subseteq adj[x]
    BY <2>1 DEF Numbered, LeftKnown
  <2>3. \A x \in Idx : indices'[x] # 0 /\ ~Called(x)' => left'[x] = {}
    BY <1>1, <2>1 DEF Numbered, LeftKnown
  <2>4. \A x \in Idx : Called(x) => indices[x] # 0
    BY CallFacts DEF Called
  <2>5. \A x \in Idx : indices'[x] = 0 => left'[x] = adj[x]
    BY <1>1, <1>2, <2>1, <2>4 DEF Numbered, LeftKnown
  <2>6. \A x \in Idx : \A w \in adj[x] \ left'[x] : indices'[w] # 0
    <3> TAKE x \in Idx
    <3> TAKE w \in adj[x] \ left'[x]
    <3>1. w \in Idx
      BY DEF SortTypeOK
    <3>2. w = v \/ w \in adj[x] \ left[x]
      BY <2>1
    <3> QED BY <1>1, <1>2, <3>1, <3>2 DEF Numbered, LeftKnown
  <2> QED BY <1>1, <2>2, <2>3, <2>5, <2>6 DEF LeftKnown
<1> QED BY <1>4, <1>5, <1>6, <1>7, <1>8 DEF Numbered

LEMMA EnteringLinked ==
  ASSUME SortInv, NEW v \in Idx, Entering(v)
  PROVE  Linked'
<1> USE DEF SortInv
<1>0. PICK m \in Nat : m = Len(calls)
  BY SeqFacts
<1>1. /\ adj' = adj /\ order' = order /\ Idx' = Idx
      /\ \A x \in Idx : indices'[x] = (IF x = v THEN index ELSE indices[x])
      /\ \A x \in Idx : lowlinks'[x] = (IF x = v THEN index ELSE lowlinks[x])
      /\ Len(calls') = m + 1 /\ DOMAIN calls' = 1 .. m + 1
      /\ calls'[m + 1] = v /\ \A k \in DOMAIN calls : calls'[k] = calls[k]
      /\ \A x \in Idx : OnStack(x)' <=> OnStack(x) \/ x = v
  BY <1>0, EnterFacts DEF Entering, Idx
<1>2. \A x \in Idx : /\ indices[x] < index /\ indices[x] \in Nat /\ index \in Nat \ {0}
                     /\ lowlinks[x] < index /\ lowlinks[x] \in Nat
  BY SeqFacts DEF SortTypeOK
<1>3. ~OnStack(v) /\ ~Called(v)
  BY EnteringFacts
<1>4. /\ m \in Nat /\ DOMAIN calls = 1 .. m
      /\ \A k \in 1 .. m : calls[k] \in Idx /\ calls[k] # v
  BY <1>0, <1>3, SeqFacts DEF Called
<1>5. \A i, j : Leads(i, j)' <=> Leads(i, j)
  BY <1>1 DEF Leads
<1>6. OrderClosed'
  BY <1>1 DEF Linked, OrderClosed, Emitted
<1>7. CallsLead'
  <2> SUFFICES ASSUME NEW k \in 1 .. m + 1, NEW x \in Idx, OnStack(x)', indices'[calls'[k]] <= indices'[x]
               PROVE  Leads(calls'[k], x)
    BY <1>1, <1>5 DEF CallsLead
  <2>1. CASE x = v /\ k \in 1 .. m
    BY <1>1, <1>4, <2>1, EnteringFacts
  <2>2. CASE x # v /\ k \in 1 .. m
    BY <1>1, <1>4, <2>2 DEF Linked, CallsLead
  <2>3. CASE k = m + 1
    <3>1. x = v
      BY <1>1, <1>2, <2>3
    <3> QED BY <1>1, <2>3, <3>1, LeadsFacts DEF Leads, Idx
  <2> QED BY <1>4, <2>1, <2>2, <2>3
<1>8. LeadsToCall'
  <2> SUFFICES ASSUME NEW x \in Idx, OnStack(x)'
               PROVE  \E k \in 1 .. m + 1 : LastCall(k, x)' /\ Leads(x, calls'[k])
    BY <1>1, <1>5 DEF LeadsToCall
  <2>1. CASE x = v
    <3>1. LastCall(m + 1, x)'
      BY <1>1, <1>2, <1>4, <2>1 DEF LastCall
    <3>2. Leads(x, calls'[m + 1])
      BY <1>1, <2>1, LeadsFacts DEF Leads, Idx
    <3> QED BY <1>4, <3>1, <3>2
  <2>2. CASE x # v
    <3>1. PICK k \in 1 .. m : LastCall(k, x) /\ Leads(x, calls[k])
      BY <1>1, <1>4, <2>2 DEF Linked, LeadsToCall
    <3>2. LastCall(k, x)'
      <4>1. indices'[calls'[k]] <= indices'[x]
        BY <1>1, <1>4, <2>2, <3>1 DEF LastCall
      <4>2. CASE k = m
        BY <1>0, <1>1, <1>2, <1>4, <2>2, <4>1, <4>2 DEF LastCall
      <4>3. CASE k < m
        BY <1>0, <1>1, <1>4, <2>2, <3>1, <4>1, <4>3 DEF LastCall
      <4> QED BY <1>4, <4>2, <4>3
    <3> QED BY <1>1, <1>4, <3>1, <3>2
  <2> QED BY <2>1, <2>2
<1>9. LowFound'
  <2> SUFFICES ASSUME NEW k \in 1 .. m + 1
               PROVE  /\ lowlinks'[calls'[k]] <= indices'[calls'[k]]
                      /\ \E y \in Idx : /\ OnStack(y)' /\ indices'[y] = lowlinks'[calls'[k]]
                                        /\ Leads(calls'[k], y)
    BY <1>1, <1>5 DEF LowFound
  <2>1. CASE k = m + 1
    BY <1>1, <1>2, <2>1, LeadsFacts DEF Leads, Idx
  <2>2. CASE k \in 1 .. m
    <3>1. PICK y \in Idx : OnStack(y) /\ indices[y] = lowlinks[calls[k]] /\ Leads(calls[k], y)
      BY <1>4, <2>2 DEF Linked, LowFound
    <3>2. lowlinks[calls[k]] <= indices[calls[k]]
      BY <1>4, <2>2 DEF Linked, LowFound
    <3> QED BY <1>1, <1>3, <1>4, <2>2, <3>1, <3>2
  <2> QED BY <1>4, <2>1, <2>2
<1>10. LowLeast'
  <2> SUFFICES ASSUME NEW k \in 1 .. m + 1, NEW x \in Idx, OnStack(x)', LastCall(k, x)',
                      NEW y \in adj[x] \ left'[x], OnStack(y)'
               PROVE  lowlinks'[calls'[k]] <= indices'[y]
    BY <1>1 DEF LowLeast
  <2>1. y \in Idx
    BY DEF SortTypeOK
  <2>2. CASE k = m + 1
    <3>1. x = v
      BY <1>1, <1>2, <2>2 DEF LastCall
    <3> QED BY <3>1, EnteringFacts
  <2>3. CASE k \in 1 .. m
    <3>1. x # v
      <4>1. indices'[x] < indices'[calls'[k + 1]]
        BY <1>1, <1>4, <2>3 DEF LastCall
      <4>2. calls'[k + 1] \in Idx
        BY <1>1, <1>4, <2>3
      <4> QED BY <1>1, <1>2, <4>1, <4>2
    <3>2. LastCall(k, x)
      BY <1>0, <1>1, <1>4, <2>3, <3>1 DEF LastCall
    <3>3. lowlinks'[calls'[k]] = lowlinks[calls[k]]
      BY <1>1, <1>4, <2>3
    <3>4. CASE y = v
      BY <1>1, <1>2, <1>4, <2>3, <3>3, <3>4
    <3>5. CASE y # v
      <4>1. y \in adj[x] \ left[x] /\ OnStack(y) /\ OnStack(x)
        BY <1>1, <2>1, <3>1, <3>5, EnteringFacts
      <4> QED BY <1>1, <1>4, <2>1, <2>3, <3>2, <3>3, <3>5, <4>1 DEF Linked, LowLeast
    <3> QED BY <3>4, <3>5
  <2> QED BY <1>4, <2>2, <2>3
<1>11. OrderRight'
  BY <1>1 DEF Linked, OrderRight
<1> QED BY <1>6, <1>7, <1>8, <1>9, <1>10, <1>11 DEF Linked

-----------------------------------------------------------------------------
(* A neighbour that has a number is looked at. *)

LEMMA LookAtKeeps ==
  ASSUME SortInv, LookAt
  PROVE  SortInv'
<1> USE DEF SortInv
<1>0. PICK m \in Nat : m = Len(calls) /\ m \in DOMAIN calls /\ Current = calls[m]
  BY SeqFacts DEF LookAt, NextNeighbour, Current
<1>1. PICK w \in Idx :
        /\ NextNeighbour(w) /\ indices[w] # 0
        /\ lowlinks' = IF OnStack(w) THEN Lower(Current, indices[w]) ELSE lowlinks
  BY DEF LookAt
<1>2. UNCHANGED <<adj, index, indices, stack, calls, order>> /\ Idx' = Idx
  BY DEF LookAt, Idx
<1> DEFINE u == Current
<1>3. u \in Idx /\ OnStack(u) /\ Called(u) /\ w \in left[u] /\ w \in adj[u]
  BY <1>0, <1>1, SeqFacts, CallFacts DEF NextNeighbour, Numbered, LeftKnown
<1>4. /\ left' \in [Idx -> SUBSET Idx]
      /\ \A x \in Idx : left'[x] = (IF x = u THEN left[x] \ {w} ELSE left[x])
  BY <1>1, <1>3 DEF NextNeighbour, SortTypeOK
<1>5. \A x \in Idx : lowlinks'[x] = (IF x = u /\ OnStack(w) /\ indices[w] < lowlinks[x] THEN indices[w] ELSE lowlinks[x])
  BY <1>1, <1>3 DEF Lower, SortTypeOK
<1>6. SortTypeOK'
  <2>1. lowlinks' \in [Idx -> 0 .. index - 1]
    BY <1>1, <1>3 DEF Lower, SortTypeOK
  <2> QED BY <1>2, <1>4, <2>1 DEF SortTypeOK
<1>7. Numbered'
  <2>1. NumbersDiffer' /\ StackRises' /\ CallsRise' /\ Placed'
    BY <1>2 DEF Numbered, NumbersDiffer, StackRises, CallsRise, Placed, OnStack, Emitted
  <2>2. LeftKnown'
    <3>1. \A x \in Idx : Called(x)' <=> Called(x)
      BY <1>2 DEF Called
    <3>2. \A x \in Idx : left'[x] \subseteq adj[x]
      BY <1>4 DEF Numbered, LeftKnown
    <3>3. \A x \in Idx : indices[x] # 0 /\ ~Called(x) => left'[x] = {}
      BY <1>4 DEF Numbered, LeftKnown
    <3>4. indices[u] # 0
      BY <1>0, CallFacts
    <3>5. \A x \in Idx : indices[x] = 0 => left'[x] = adj[x]
      BY <1>4, <3>4 DEF Numbered, LeftKnown
    <3>6. \A x \in Idx : \A y \in adj[x] \ left'[x] : indices[y] # 0
      BY <1>1, <1>4 DEF Numbered, LeftKnown
    <3> QED BY <1>2, <3>1, <3>2, <3>3, <3>5, <3>6 DEF LeftKnown
  <2> QED BY <2>1, <2>2 DEF Numbered
<1>8. \A i, j : Leads(i, j)' <=> Leads(i, j)
  BY <1>2 DEF Leads
<1>9. \A x : OnStack(x)' <=> OnStack(x)
  BY <1>2 DEF OnStack
<1>10. \A k, x : LastCall(k, x)' <=> LastCall(k, x)
  BY <1>2 DEF LastCall
<1>11. OrderClosed' /\ CallsLead' /\ LeadsToCall' /\ OrderRight'
  <2>1. OrderClosed'
    BY <1>2 DEF Linked, OrderClosed, Emitted
  <2>2. CallsLead'
    BY <1>2, <1>8, <1>9 DEF Linked, CallsLead
  <2>3. LeadsToCall'
    BY <1>2, <1>8, <1>9, <1>10 DEF Linked, LeadsToCall
  <2>4. OrderRight'
    BY <1>2 DEF Linked, OrderRight
  <2> QED BY <2>1, <2>2, <2>3, <2>4
<1>12. \A k \in DOMAIN calls : calls[k] \in Idx /\ lowlinks[calls[k]] \in Nat /\ indices[calls[k]] \in Nat
  BY SeqFacts
<1>13. LowFound'
  <2> SUFFICES ASSUME NEW k \in DOMAIN calls
               PROVE  /\ lowlinks'[calls[k]] <= indices[calls[k]]
                      /\ \E y \in Idx : OnStack(y) /\ indices[y] = lowlinks'[calls[k]] /\ Leads(calls[k], y)
    BY <1>2, <1>8, <1>9 DEF LowFound
  <2>1. CASE lowlinks'[calls[k]] = lowlinks[calls[k]]
    BY <2>1 DEF Linked, LowFound
  <2>2. CASE calls[k] = u /\ OnStack(w) /\ indices[w] < lowlinks[u] /\ lowlinks'[u] = indices[w]
    <3>1. Leads(u, w)
      BY <1>3, LeadsFacts DEF Leads, Idx
    <3>2. lowlinks[u] <= indices[u] /\ indices[w] \in Nat /\ indices[u] \in Nat /\ lowlinks[u] \in Nat
      BY <1>3, <2>2, SeqFacts DEF Linked, LowFound
    <3>3. lowlinks'[calls[k]] <= indices[calls[k]]
      BY <2>2, <3>2
    <3> QED BY <2>2, <3>1, <3>3
  <2> QED BY <1>5, <1>12, <2>1, <2>2
<1>14. LowLeast'
  <2> SUFFICES ASSUME NEW k \in DOMAIN calls, NEW x \in Idx, OnStack(x), LastCall(k, x),
                      NEW y \in adj[x] \ left'[x], OnStack(y)
               PROVE  lowlinks'[calls[k]] <= indices[y]
    BY <1>2, <1>9, <1>10 DEF LowLeast
  <2>1. y \in Idx /\ indices[y] \in Nat /\ indices[w] \in Nat
    BY SeqFacts DEF SortTypeOK
  <2>2. lowlinks'[calls[k]] <= lowlinks[calls[k]] /\ lowlinks'[calls[k]] \in Nat
    BY <1>5, <1>12, <2>1
  <2>3. CASE y \in adj[x] \ left[x]
    <3>1. lowlinks[calls[k]] <= indices[y]
      BY <2>3 DEF Linked, LowLeast
    <3> QED BY <1>12, <2>1, <2>2, <3>1
  <2>4. CASE x = u /\ y = w
    <3>1. k = m
      <4>1. ~(k < m)
        <5> SUFFICES ASSUME k < m PROVE FALSE
          OBVIOUS
        <5>1. indices[u] < indices[calls[k + 1]] /\ k + 1 \in DOMAIN calls
          BY <1>0, <2>4, SeqFacts DEF LastCall
        <5>2. indices[calls[k + 1]] <= indices[u]
          BY <1>0, <5>1, CallFacts DEF Searching, LookAt, NextNeighbour
        <5> QED BY <1>3, <1>12, <5>1, <5>2, SeqFacts
      <4> QED BY <1>0, <4>1, SeqFacts
    <3> QED BY <1>0, <1>5, <1>12, <2>1, <2>4, <3>1
  <2> QED BY <1>4, <2>3, <2>4
<1> QED BY <1>6, <1>7, <1>11, <1>13, <1>14 DEF Linked

-----------------------------------------------------------------------------
(* A call returns. *)

LEMMA PrefixFacts ==
  ASSUME NEW S, NEW s \in Seq(S), NEW n \in 0 .. Len(s)
  PROVE  /\ SubSeq(s, 1, n) \in Seq(S)
         /\ Len(SubSeq(s, 1, n)) = n /\ DOMAIN SubSeq(s, 1, n) = 1 .. n
         /\ \A k \in 1 .. n : SubSeq(s, 1, n)[k] = s[k]
<1>1. n \in Nat /\ 1 .. n \subseteq DOMAIN s
  OBVIOUS
<1>2. \A k \in 1 .. n : s[k] \in S
  BY <1>1
<1>3. SubSeq(s, 1, n) = [k \in 1 .. n |-> s[k]]
  OBVIOUS
<1> QED BY <1>1, <1>2, <1>3

LEMMA CallDropped ==
  ASSUME SortInv, Searching, calls' = SubSeq(calls, 1, Len(calls) - 1)
  PROVE  /\ Len(calls') = Len(calls) - 1 /\ DOMAIN calls' = 1 .. Len(calls) - 1
         /\ calls' \in Seq(Idx)
         /\ \A k \in 1 .. Len(calls) - 1 : k \in DOMAIN calls /\ calls'[k] = calls[k]
         /\ \A k \in 1 .. Len(calls) - 1 : indices[calls[k]] < indices[Current]
         /\ \A x \in Idx : Called(x) => Called(x)' \/ x = Current
<1>1. calls \in Seq(Idx) /\ Len(calls) \in Nat \ {0}
  BY SeqFacts DEF SortInv, SortTypeOK
<1>2. /\ Len(calls') = Len(calls) - 1 /\ DOMAIN calls' = 1 .. Len(calls) - 1
      /\ calls' \in Seq(Idx)
      /\ \A k \in 1 .. Len(calls) - 1 : k \in DOMAIN calls /\ calls'[k] = calls[k]
  <2>1. Len(calls) - 1 \in 0 .. Len(calls)
    BY <1>1
  <2>2. DOMAIN calls = 1 .. Len(calls)
    BY <1>1
  <2> QED BY <1>1, <2>1, <2>2, PrefixFacts
<1>3. \A k \in 1 .. Len(calls) - 1 : indices[calls[k]] < indices[Current]
  BY <1>1 DEF SortInv, Numbered, CallsRise, Current
<1>4. \A x \in Idx : Called(x) => Called(x)' \/ x = Current
  <2> TAKE x \in Idx
  <2> SUFFICES ASSUME x # Current, NEW k \in DOMAIN calls, calls[k] = x PROVE Called(x)'
    BY DEF Called
  <2>1. k \in DOMAIN calls'
    BY <1>1, <1>2 DEF Current
  <2>2. calls'[k] = calls[k]
    BY <1>2, <2>1
  <2> QED BY <2>1, <2>2 DEF Called
<1> QED BY <1>2, <1>3, <1>4

\* What lowering one entry of a function does to each entry.
LEMMA LoweredAt ==
  ASSUME NEW D, NEW R, NEW f \in [D -> R], NEW p \in D, NEW v \in R, NEW g,
         g = [f EXCEPT ![p] = IF v < @ THEN v ELSE @]
  PROVE  /\ \A x \in D : g[x] = (IF x = p /\ v < f[x] THEN v ELSE f[x])
         /\ g \in [D -> R]
  OBVIOUS

\* Without a component: its places are the caller's now.
LEMMA LeaveOpenKeeps ==
  ASSUME SortInv, Leave, lowlinks[Current] # indices[Current]
  PROVE  SortInv'
<1> USE DEF SortInv
<1>0. PICK m \in Nat : m = Len(calls) /\ m \in DOMAIN calls /\ Current = calls[m]
  BY SeqFacts DEF Leave, Current
<1> DEFINE u == Current
<1>1. /\ Searching /\ left[u] = {} /\ u \in Idx
      /\ UNCHANGED <<adj, index, indices, left, stack, order>> /\ Idx' = Idx
      /\ calls' = SubSeq(calls, 1, Len(calls) - 1)
      /\ lowlinks' = IF Len(calls) > 1 THEN Lower(calls[Len(calls) - 1], lowlinks[u]) ELSE lowlinks
  BY SeqFacts DEF Leave, Idx
<1>2. /\ Len(calls') = m - 1 /\ DOMAIN calls' = 1 .. m - 1 /\ DOMAIN calls = 1 .. m
      /\ calls' \in Seq(Idx)
      /\ \A k \in 1 .. m - 1 : calls'[k] = calls[k] /\ indices[calls[k]] < indices[u]
      /\ \A x \in Idx : Called(x) => Called(x)' \/ x = u
  BY <1>0, <1>1, CallDropped, SeqFacts
<1>3. /\ \A k \in 1 .. m : calls[k] \in Idx
      /\ \A x \in Idx : indices[x] \in Nat /\ lowlinks[x] \in Nat
  BY <1>2, SeqFacts
<1>4. PICK q \in Idx : OnStack(q) /\ indices[q] = lowlinks[u] /\ Leads(u, q)
  BY <1>0 DEF Linked, LowFound
<1>5. lowlinks[u] < indices[u]
  <2>1. lowlinks[u] <= indices[u] /\ lowlinks[u] # indices[u]
    BY <1>0 DEF Linked, LowFound
  <2> QED BY <1>1, <1>3, <2>1
<1>6. PICK c \in 1 .. m - 1 : LastCall(c, q) /\ Leads(q, calls[c])
  <2>1. PICK c \in 1 .. m : LastCall(c, q) /\ Leads(q, calls[c])
    BY <1>2, <1>4 DEF Linked, LeadsToCall
  <2>2. c # m
    BY <1>0, <1>1, <1>3, <1>4, <1>5, <2>1 DEF LastCall
  <2> QED BY <2>1, <2>2
<1> DEFINE p == calls[m - 1]
<1>7. m - 1 \in 1 .. m - 1 /\ m - 1 \in 1 .. m /\ p \in Idx /\ p # u /\ indices[p] < indices[u]
  BY <1>2, <1>3, <1>6
<1>8. /\ \A x \in Idx : lowlinks'[x] = (IF x = p /\ lowlinks[u] < lowlinks[x] THEN lowlinks[u] ELSE lowlinks[x])
      /\ lowlinks' \in [Idx -> 0 .. index - 1]
  <2>1. m > 1
    BY <1>7
  <2>2. lowlinks' = [lowlinks EXCEPT ![p] = IF lowlinks[u] < @ THEN lowlinks[u] ELSE @]
    BY <1>0, <1>1, <2>1 DEF Lower
  <2>3. lowlinks \in [Idx -> 0 .. index - 1]
    BY DEF SortTypeOK
  <2>4. lowlinks[u] \in 0 .. index - 1 /\ p \in Idx
    BY <1>1, <1>7, <2>3
  <2> HIDE DEF u, p
  <2> QED BY <2>2, <2>3, <2>4, LoweredAt
<1>9. SortTypeOK'
  BY <1>1, <1>2, <1>8 DEF SortTypeOK
<1>10. Numbered'
  <2>1. NumbersDiffer' /\ StackRises' /\ Placed'
    BY <1>1 DEF Numbered, NumbersDiffer, StackRises, Placed, OnStack, Emitted
  <2>2. CallsRise'
    <3>1. \A k \in 1 .. m - 1 : k \in 1 .. m
      OBVIOUS
    <3>2. \A x : OnStack(x)' <=> OnStack(x)
      BY <1>1 DEF OnStack
    <3>3. \A j, k \in 1 .. m - 1 : j < k => indices[calls[j]] < indices[calls[k]]
      BY <1>2, <3>1 DEF Numbered, CallsRise
    <3>4. \A k \in 1 .. m - 1 : OnStack(calls[k])
      BY <1>2, <3>1 DEF Numbered, CallsRise
    <3> QED BY <1>1, <1>2, <3>2, <3>3, <3>4 DEF CallsRise
  <2>3. LeftKnown'
    BY <1>1, <1>2 DEF Numbered, LeftKnown
  <2> QED BY <2>1, <2>2, <2>3 DEF Numbered
<1>11. \A i, j : Leads(i, j)' <=> Leads(i, j)
  BY <1>1 DEF Leads
<1>12. \A x : OnStack(x)' <=> OnStack(x)
  BY <1>1 DEF OnStack
\* The caller of u is led to from u.
<1>13. Leads(u, p)
  <2>1. Leads(calls[c], p)
    <3>1. indices[calls[c]] <= indices[p]
      <4>1. c = m - 1 \/ c < m - 1
        OBVIOUS
      <4>2. c \in 1 .. m
        OBVIOUS
      <4>3. c < m - 1 => indices[calls[c]] < indices[calls[m - 1]]
        BY <1>2, <1>7, <4>2 DEF Numbered, CallsRise
      <4> QED BY <1>3, <4>1, <4>2, <4>3, <1>7
    <3>2. OnStack(p)
      BY <1>2, <1>7, CallFacts
    <3> QED BY <1>2, <1>6, <1>7, <3>1, <3>2 DEF Linked, CallsLead
  <2> QED BY <1>4, <1>6, <2>1, LeadsFacts DEF Leads
\* The last call below x, after the return.
<1>14. \A k \in 1 .. m - 1 : \A x \in Idx :
         LastCall(k, x)' <=> \/ LastCall(k, x)
                             \/ k = m - 1 /\ LastCall(m, x)
  <2> TAKE k \in 1 .. m - 1
  <2> TAKE x \in Idx
  <2>1. LastCall(k, x)' <=> indices[calls[k]] <= indices[x] /\ (k < m - 1 => indices[x] < indices[calls[k + 1]])
    BY <1>1, <1>2, <1>0 DEF LastCall
  <2>2. LastCall(k, x) <=> indices[calls[k]] <= indices[x] /\ indices[x] < indices[calls[k + 1]]
    BY <1>0 DEF LastCall
  <2>3. LastCall(m, x) <=> indices[u] <= indices[x]
    BY <1>0 DEF LastCall
  <2>4. k = m - 1 \/ k < m - 1
    OBVIOUS
  <2> QED BY <1>0, <1>2, <1>3, <1>7, <2>1, <2>2, <2>3, <2>4
<1>15. OrderClosed' /\ OrderRight'
  BY <1>1 DEF Linked, OrderClosed, Emitted, OrderRight
<1>16. CallsLead'
  BY <1>1, <1>2, <1>11, <1>12 DEF Linked, CallsLead
<1>17. LeadsToCall'
  <2> SUFFICES ASSUME NEW x \in Idx, OnStack(x)
               PROVE  \E k \in 1 .. m - 1 : LastCall(k, x)' /\ Leads(x, calls[k])
    BY <1>1, <1>2, <1>11, <1>12 DEF LeadsToCall
  <2>1. PICK k \in 1 .. m : LastCall(k, x) /\ Leads(x, calls[k])
    BY <1>2 DEF Linked, LeadsToCall
  <2>2. CASE k = m
    <3>1. Leads(x, p)
      BY <1>0, <1>13, <2>1, <2>2, LeadsFacts DEF Leads
    <3> QED BY <1>7, <1>14, <2>1, <2>2, <3>1
  <2>3. CASE k # m
    BY <1>14, <2>1, <2>3
  <2> QED BY <2>2, <2>3
<1>18. LowFound'
  <2> SUFFICES ASSUME NEW k \in 1 .. m - 1
               PROVE  /\ lowlinks'[calls[k]] <= indices[calls[k]]
                      /\ \E y \in Idx : OnStack(y) /\ indices[y] = lowlinks'[calls[k]] /\ Leads(calls[k], y)
    BY <1>1, <1>2, <1>11, <1>12 DEF LowFound
  <2>0. k \in DOMAIN calls
    BY <1>2
  <2>1. CASE lowlinks'[calls[k]] = lowlinks[calls[k]]
    BY <2>0, <2>1 DEF Linked, LowFound
  <2>2. CASE calls[k] = p /\ lowlinks[u] < lowlinks[p] /\ lowlinks'[p] = lowlinks[u]
    <3>1. Leads(p, u)
      <4>1. OnStack(u) /\ indices[p] <= indices[u]
        BY <1>0, <1>3, <1>7, CallFacts
      <4> QED BY <1>1, <1>2, <1>7, <4>1 DEF Linked, CallsLead
    <3>2. Leads(p, q)
      BY <1>4, <3>1, LeadsFacts DEF Leads
    <3>3. lowlinks[p] <= indices[p]
      BY <2>0, <2>2 DEF Linked, LowFound
    <3>4. lowlinks'[calls[k]] <= indices[calls[k]]
      BY <1>1, <1>3, <1>7, <2>2, <3>3
    <3> QED BY <1>4, <2>2, <3>2, <3>4
  <2> QED BY <1>3, <1>8, <2>1, <2>2
<1>19. LowLeast'
  <2> SUFFICES ASSUME NEW k \in 1 .. m - 1, NEW x \in Idx, OnStack(x), LastCall(k, x)',
                      NEW y \in adj[x] \ left[x], OnStack(y)
               PROVE  lowlinks'[calls[k]] <= indices[y]
    BY <1>1, <1>2, <1>12 DEF LowLeast
  <2>1. y \in Idx /\ indices[y] \in Nat /\ calls[k] \in Idx /\ k \in DOMAIN calls
    BY <1>2, <1>3 DEF SortTypeOK
  <2>2. lowlinks'[calls[k]] <= lowlinks[calls[k]]
    <3>1. PICK z \in Idx : z = calls[k]
      BY <2>1
    <3>2. lowlinks[z] \in Nat /\ lowlinks[u] \in Nat
      BY <1>1, <1>3
    <3>3. \/ lowlinks'[z] = lowlinks[z]
          \/ /\ lowlinks[u] < lowlinks[z]
             /\ lowlinks'[z] = lowlinks[u]
      <4>1. lowlinks'[z] = (IF z = p /\ lowlinks[u] < lowlinks[z] THEN lowlinks[u] ELSE lowlinks[z])
        BY <1>8
      <4>2. CASE z = p /\ lowlinks[u] < lowlinks[z]
        BY <4>1, <4>2
      <4>3. CASE ~(z = p /\ lowlinks[u] < lowlinks[z])
        BY <4>1, <4>3
      <4> QED BY <4>2, <4>3
    <3> QED BY <3>1, <3>2, <3>3
  <2>3. CASE LastCall(k, x)
    <3>1. lowlinks[calls[k]] <= indices[y]
      BY <2>1, <2>3 DEF Linked, LowLeast
    <3> QED BY <1>1, <1>3, <1>8, <2>1, <2>2, <3>1
  <2>4. CASE k = m - 1 /\ LastCall(m, x)
    <3>1. lowlinks[u] <= indices[y]
      BY <1>0, <2>4 DEF Linked, LowLeast
    <3>2. lowlinks'[p] <= lowlinks[u]
      <4>1. lowlinks[p] \in Nat /\ lowlinks[u] \in Nat
        BY <1>1, <1>3, <1>7
      <4>2. lowlinks'[p] = IF lowlinks[u] < lowlinks[p] THEN lowlinks[u] ELSE lowlinks[p]
        BY <1>7, <1>8
      <4> QED BY <4>1, <4>2
    <3> QED BY <1>1, <1>3, <1>7, <1>8, <2>1, <2>4, <3>1, <3>2
  <2> QED BY <1>14, <2>3, <2>4
<1> QED BY <1>9, <1>10, <1>15, <1>16, <1>17, <1>18, <1>19 DEF Linked

\* With a component: what is above the place, and the place, leaves the stack.
LEMMA PopFacts ==
  ASSUME SortInv, Searching, PopComponent(Current)
  PROVE  /\ stack' \in Seq(Idx) /\ order' \in Seq(Idx)
         /\ \A x \in Idx : OnStack(x)' <=> OnStack(x) /\ indices[x] < indices[Current]
         /\ \A x \in Idx : Emitted(x)' <=> Emitted(x) \/ (OnStack(x) /\ indices[Current] <= indices[x])
         /\ \A j, k \in DOMAIN stack' : j < k => j \in DOMAIN stack /\ k \in DOMAIN stack
         /\ \A k \in DOMAIN stack' : stack'[k] = stack[k]
         /\ \A k \in DOMAIN order : k \in DOMAIN order' /\ order'[k] = order[k]
         /\ \A k \in DOMAIN order' \ DOMAIN order :
              /\ OnStack(order'[k]) /\ indices[Current] <= indices[order'[k]]
              /\ order'[k] \in Idx
         /\ \A k, l \in DOMAIN order' \ DOMAIN order : k # l => order'[k] # order'[l]
         /\ \A k \in DOMAIN order : \A l \in DOMAIN order' \ DOMAIN order : k < l
         /\ \A k \in DOMAIN order' : k \in Nat
<1> USE DEF SortInv
<1> DEFINE u == Current
<1>1. PICK n \in Nat : n = Len(stack) /\ DOMAIN stack = 1 .. n /\ stack \in Seq(Idx)
  BY SeqFacts DEF SortTypeOK
<1>2. PICK h \in Nat : h = Len(order) /\ DOMAIN order = 1 .. h /\ order \in Seq(Idx)
  BY SeqFacts DEF SortTypeOK
<1>3. PICK a \in 1 .. n : stack[a] = u /\ Kept(u) = a - 1
  <2>1. \E k \in DOMAIN stack : stack[k] = u
    BY SeqFacts, CallFacts DEF OnStack, Current
  <2> DEFINE a == CHOOSE k \in DOMAIN stack : stack[k] = u
  <2>2. a \in DOMAIN stack /\ stack[a] = u
    BY <2>1
  <2> QED BY <1>1, <2>2 DEF Kept
<1>4. /\ stack' \in Seq(Idx) /\ DOMAIN stack' = 1 .. a - 1
      /\ \A k \in 1 .. a - 1 : stack'[k] = stack[k]
  <2>1. a - 1 \in 0 .. Len(stack)
    BY <1>1
  <2> QED BY <1>1, <1>3, <2>1, PrefixFacts DEF PopComponent
<1>a. PICK c \in Nat : c = n - (a - 1) /\ a + c = n + 1
  OBVIOUS
<1> DEFINE popped == [k \in 1 .. c |-> stack[n + 1 - k]]
<1>5. popped \in Seq(Idx) /\ Len(popped) = c /\ DOMAIN popped = 1 .. c
  <2>1. \A k \in 1 .. c : stack[n + 1 - k] \in Idx
    <3> TAKE k \in 1 .. c
    <3>1. n + 1 - k \in 1 .. n
      BY <1>a
    <3> QED BY <1>1, <3>1
  <2> QED BY <2>1
<1>6. order' = order \o popped
  BY <1>1, <1>3, <1>a DEF PopComponent
<1>7. /\ order' \in Seq(Idx) /\ DOMAIN order' = 1 .. h + c
      /\ \A k \in 1 .. h : order'[k] = order[k]
      /\ \A j \in 1 .. c : h + j \in 1 .. h + c /\ order'[h + j] = stack[n + 1 - j]
  <2>1. order' \in Seq(Idx) /\ Len(order') = h + c
    BY <1>2, <1>5, <1>6
  <2>2. \A k \in 1 .. h : order'[k] = order[k]
    BY <1>2, <1>5, <1>6
  <2>3. \A j \in 1 .. c : order'[h + j] = popped[j]
    BY <1>2, <1>5, <1>6
  <2>4. \A j \in 1 .. c : popped[j] = stack[n + 1 - j]
    OBVIOUS
  <2> HIDE DEF popped
  <2> QED BY <2>1, <2>2, <2>3, <2>4
<1>8. \A k \in 1 .. n : stack[k] \in Idx /\ indices[stack[k]] \in Nat
  BY <1>1, SeqFacts
<1>9. \A j, k \in 1 .. n : j < k <=> indices[stack[j]] < indices[stack[k]]
  <2> TAKE j, k \in 1 .. n
  <2>1. j < k => indices[stack[j]] < indices[stack[k]]
    BY <1>1 DEF Numbered, StackRises
  <2>2. k < j => indices[stack[k]] < indices[stack[j]]
    BY <1>1 DEF Numbered, StackRises
  <2>3. j = k \/ j < k \/ k < j
    OBVIOUS
  <2> QED BY <1>8, <2>1, <2>2, <2>3
<1>10. \A k \in 1 .. n : k < a <=> indices[stack[k]] < indices[u]
  BY <1>3, <1>9
<1>11. \A x \in Idx : OnStack(x)' <=> OnStack(x) /\ indices[x] < indices[u]
  <2> TAKE x \in Idx
  <2>1. OnStack(x)' <=> \E k \in 1 .. a - 1 : stack[k] = x
    BY <1>4 DEF OnStack
  <2>2. OnStack(x) <=> \E k \in 1 .. n : stack[k] = x
    BY <1>1 DEF OnStack
  <2>3. \A k \in 1 .. n : k \in 1 .. a - 1 <=> k < a
    OBVIOUS
  <2>4. \A k \in 1 .. a - 1 : k \in 1 .. n
    OBVIOUS
  <2> QED BY <1>10, <2>1, <2>2, <2>3, <2>4
\* The places that are new in the order.
<1>12. \A k \in DOMAIN order' \ DOMAIN order :
         \E j \in 1 .. c : k = h + j /\ n + 1 - j \in a .. n /\ order'[k] = stack[n + 1 - j]
  <2> TAKE k \in DOMAIN order' \ DOMAIN order
  <2>1. k - h \in 1 .. c /\ k = h + (k - h)
    BY <1>2, <1>7
  <2>2. n + 1 - (k - h) \in a .. n
    BY <1>a, <2>1
  <2>3. order'[h + (k - h)] = stack[n + 1 - (k - h)]
    BY <1>7, <2>1
  <2> QED BY <2>1, <2>2, <2>3
<1>13. \A k \in a .. n : k \in 1 .. n /\ indices[u] <= indices[stack[k]]
  <2> TAKE k \in a .. n
  <2>1. k \in 1 .. n /\ ~(k < a)
    OBVIOUS
  <2> QED BY <1>3, <1>8, <1>10, <2>1
<1>14. \A k \in DOMAIN order' \ DOMAIN order :
         OnStack(order'[k]) /\ indices[u] <= indices[order'[k]] /\ order'[k] \in Idx
  BY <1>1, <1>8, <1>12, <1>13 DEF OnStack
<1>15. \A x \in Idx : Emitted(x)' <=> Emitted(x) \/ (OnStack(x) /\ indices[u] <= indices[x])
  <2> TAKE x \in Idx
  <2>1. Emitted(x)' => Emitted(x) \/ (OnStack(x) /\ indices[u] <= indices[x])
    BY <1>2, <1>7, <1>14 DEF Emitted
  <2>2. Emitted(x) => Emitted(x)'
    BY <1>2, <1>7 DEF Emitted
  <2>3. ASSUME OnStack(x), indices[u] <= indices[x] PROVE Emitted(x)'
    <3>1. PICK k \in 1 .. n : stack[k] = x
      BY <1>1, <2>3 DEF OnStack
    <3>2. ~(k < a)
      BY <1>3, <1>8, <1>10, <2>3, <3>1
    <3>3. n + 1 - k \in 1 .. c /\ n + 1 - (n + 1 - k) = k
      BY <1>a, <3>2
    <3>4. h + (n + 1 - k) \in DOMAIN order' /\ order'[h + (n + 1 - k)] = stack[k]
      BY <1>7, <3>3
    <3> QED BY <3>1, <3>4 DEF Emitted
  <2> QED BY <2>1, <2>2, <2>3
<1>16. \A k, l \in DOMAIN order' \ DOMAIN order : k # l => order'[k] # order'[l]
  <2> SUFFICES ASSUME NEW k \in DOMAIN order' \ DOMAIN order, NEW l \in DOMAIN order' \ DOMAIN order, k # l
               PROVE  order'[k] # order'[l]
    OBVIOUS
  <2>1. PICK i \in 1 .. c : k = h + i /\ n + 1 - i \in a .. n /\ order'[k] = stack[n + 1 - i]
    BY <1>12
  <2>2. PICK j \in 1 .. c : l = h + j /\ n + 1 - j \in a .. n /\ order'[l] = stack[n + 1 - j]
    BY <1>12
  <2>3. n + 1 - i # n + 1 - j
    BY <2>1, <2>2
  <2>4. \A x, y \in 1 .. n : x # y => stack[x] # stack[y]
    BY <1>8, <1>9
  <2> QED BY <1>13, <2>1, <2>2, <2>3, <2>4
<1>17. \A k \in DOMAIN order : \A l \in DOMAIN order' \ DOMAIN order : k < l
  BY <1>2, <1>7
<1>18. \A j, k \in DOMAIN stack' : j < k => j \in DOMAIN stack /\ k \in DOMAIN stack
  BY <1>1, <1>4
<1> QED BY <1>2, <1>4, <1>7, <1>11, <1>14, <1>15, <1>16, <1>17, <1>18

\* What is popped is closed but for what was popped before, and leads to itself
\* all around.
LEMMA ComponentFacts ==
  ASSUME SortInv, Searching, left[Current] = {}, lowlinks[Current] = indices[Current]
  PROVE  LET InIt(x) == OnStack(x) /\ indices[Current] <= indices[x]
         IN  /\ \A x \in Idx : InIt(x) => \A y \in adj[x] : Emitted(y) \/ InIt(y)
             /\ \A x, y \in Idx : InIt(x) /\ InIt(y) => Leads(x, y)
<1> USE DEF SortInv
<1> DEFINE u == Current
           InIt(x) == OnStack(x) /\ indices[u] <= indices[x]
<1>0. PICK m \in Nat : m = Len(calls) /\ m \in DOMAIN calls /\ u = calls[m] /\ DOMAIN calls = 1 .. m
  BY SeqFacts DEF Current
<1>1. \A x \in Idx : indices[x] \in Nat
  BY SeqFacts
<1>2. \A k \in 1 .. m : \A x \in Idx : indices[u] <= indices[x] /\ LastCall(k, x) => k = m
  <2> SUFFICES ASSUME NEW k \in 1 .. m, NEW x \in Idx, indices[u] <= indices[x], LastCall(k, x), k < m
               PROVE  FALSE
    OBVIOUS
  <2>1. k + 1 \in 1 .. m /\ indices[x] < indices[calls[k + 1]]
    BY <1>0 DEF LastCall
  <2>2. indices[calls[k + 1]] <= indices[u]
    BY <1>0, <2>1, CallFacts
  <2>3. calls[k + 1] \in Idx /\ u \in Idx
    BY <1>0, <2>1, SeqFacts
  <2> QED BY <1>1, <2>1, <2>2, <2>3
<1>3. \A x \in Idx : InIt(x) => LastCall(m, x)
  BY <1>0 DEF LastCall
<1>4. ASSUME NEW x \in Idx, InIt(x), NEW y \in adj[x] PROVE Emitted(y) \/ InIt(y)
  <2>1. y \in Idx
    BY DEF SortTypeOK
  <2>2. left[x] = {}
    <3>1. CASE x = u
      BY <3>1
    <3>2. CASE x # u
      <4>1. ~Called(x)
        <5> SUFFICES ASSUME NEW k \in 1 .. m, calls[k] = x PROVE FALSE
          BY <1>0 DEF Called
        <5>1. k < m
          BY <1>0, <3>2
        <5>2. indices[x] < indices[u]
          BY <1>0, <5>1 DEF Numbered, CallsRise
        <5>3. u \in Idx
          BY SeqFacts
        <5> QED BY <1>1, <1>4, <5>2, <5>3
      <4> QED BY <1>4, <4>1 DEF Numbered, Placed, LeftKnown
    <3> QED BY <3>1, <3>2
  <2>3. indices[y] # 0
    BY <2>2 DEF Numbered, LeftKnown
  <2>4. CASE OnStack(y)
    <3>1. lowlinks[u] <= indices[y]
      BY <1>0, <1>3, <1>4, <2>2, <2>4 DEF Linked, LowLeast
    <3> QED BY <2>4, <3>1
  <2> QED BY <2>1, <2>3, <2>4 DEF Numbered, Placed
<1>5. ASSUME NEW x \in Idx, NEW y \in Idx, InIt(x), InIt(y) PROVE Leads(x, y)
  <2>1. Leads(u, y)
    BY <1>0, <1>5 DEF Linked, CallsLead
  <2>2. PICK k \in 1 .. m : LastCall(k, x) /\ Leads(x, calls[k])
    BY <1>0, <1>5 DEF Linked, LeadsToCall
  <2>3. Leads(x, u)
    BY <1>0, <1>2, <1>5, <2>2
  <2> QED BY <2>1, <2>3, LeadsFacts DEF Leads
<1> QED BY <1>4, <1>5

LEMMA LeaveComponentKeeps ==
  ASSUME SortInv, Leave, lowlinks[Current] = indices[Current]
  PROVE  SortInv'
<1> USE DEF SortInv
<1>0. PICK m \in Nat : m = Len(calls) /\ m \in DOMAIN calls /\ Current = calls[m]
  BY SeqFacts DEF Leave, Current
<1> DEFINE u == Current
           InIt(x) == OnStack(x) /\ indices[u] <= indices[x]
<1>1. /\ Searching /\ left[u] = {} /\ u \in Idx /\ PopComponent(u)
      /\ UNCHANGED <<adj, index, indices, left>> /\ Idx' = Idx
      /\ calls' = SubSeq(calls, 1, Len(calls) - 1)
      /\ lowlinks' = IF Len(calls) > 1 THEN Lower(calls[Len(calls) - 1], lowlinks[u]) ELSE lowlinks
  BY SeqFacts DEF Leave, Idx
<1>2. /\ Len(calls') = m - 1 /\ DOMAIN calls' = 1 .. m - 1 /\ DOMAIN calls = 1 .. m
      /\ calls' \in Seq(Idx)
      /\ \A k \in 1 .. m - 1 : k \in DOMAIN calls /\ calls'[k] = calls[k] /\ indices[calls[k]] < indices[u]
      /\ \A x \in Idx : Called(x) => Called(x)' \/ x = u
  BY <1>0, <1>1, CallDropped, SeqFacts
<1>3. /\ \A k \in 1 .. m : calls[k] \in Idx
      /\ \A x \in Idx : indices[x] \in Nat /\ lowlinks[x] \in Nat
  BY <1>2, SeqFacts
\* The caller's lowlink is lower already.
<1>4. lowlinks' = lowlinks
  <2>1. CASE ~(m > 1)
    BY <1>0, <1>1, <2>1
  <2>2. CASE m > 1
    <3> DEFINE p == calls[m - 1]
    <3>1. m - 1 \in 1 .. m - 1 /\ m - 1 \in DOMAIN calls
      BY <1>2, <2>2
    <3>2. p \in Idx /\ indices[p] < indices[u] /\ lowlinks[p] <= indices[p]
      BY <1>2, <1>3, <3>1 DEF Linked, LowFound
    <3>3. ~(lowlinks[u] < lowlinks[p])
      <4>1. lowlinks[u] = indices[u]
        OBVIOUS
      <4>2. lowlinks[p] \in Nat /\ indices[p] \in Nat /\ indices[u] \in Nat
        BY <1>1, <1>3, <3>2
      <4> QED BY <3>2, <4>1, <4>2
    <3>4. lowlinks' = [lowlinks EXCEPT ![p] = lowlinks[p]]
      BY <1>0, <1>1, <2>2, <3>3 DEF Lower
    <3>5. lowlinks = [x \in Idx |-> lowlinks[x]]
      BY DEF SortTypeOK
    <3> HIDE DEF p
    <3> QED BY <3>4, <3>5
  <2> QED BY <2>1, <2>2
<1>5. /\ stack' \in Seq(Idx) /\ order' \in Seq(Idx)
      /\ \A x \in Idx : OnStack(x)' <=> OnStack(x) /\ indices[x] < indices[u]
      /\ \A x \in Idx : Emitted(x)' <=> Emitted(x) \/ InIt(x)
      /\ \A j, k \in DOMAIN stack' : j < k => j \in DOMAIN stack /\ k \in DOMAIN stack
      /\ \A k \in DOMAIN stack' : stack'[k] = stack[k]
      /\ \A k \in DOMAIN order : k \in DOMAIN order' /\ order'[k] = order[k]
      /\ \A k \in DOMAIN order' \ DOMAIN order : InIt(order'[k]) /\ order'[k] \in Idx
      /\ \A k, l \in DOMAIN order' \ DOMAIN order : k # l => order'[k] # order'[l]
      /\ \A k \in DOMAIN order : \A l \in DOMAIN order' \ DOMAIN order : k < l
      /\ \A k \in DOMAIN order' : k \in Nat
  BY <1>1, PopFacts
<1>6. /\ \A x \in Idx : InIt(x) => \A y \in adj[x] : Emitted(y) \/ InIt(y)
      /\ \A x, y \in Idx : InIt(x) /\ InIt(y) => Leads(x, y)
  BY <1>1, ComponentFacts
<1>7. SortTypeOK'
  BY <1>1, <1>2, <1>4, <1>5 DEF SortTypeOK
<1>8. \A x \in Idx : InIt(x) => ~Emitted(x)
  BY DEF Numbered, Placed
<1>9. \A k \in DOMAIN order : order[k] \in Idx /\ Emitted(order[k])
  BY SeqFacts DEF Emitted
<1>10. Numbered'
  <2>1. NumbersDiffer'
    BY <1>1 DEF Numbered, NumbersDiffer
  <2>2. StackRises'
    BY <1>1, <1>5 DEF Numbered, StackRises
  <2>3. CallsRise'
    <3>1. \A j, k \in 1 .. m - 1 : j < k => indices[calls[j]] < indices[calls[k]]
      BY <1>2 DEF Numbered, CallsRise
    <3>2. ASSUME NEW k \in 1 .. m - 1 PROVE OnStack(calls[k])'
      <4>1. PICK x \in Idx : x = calls[k] /\ OnStack(x) /\ indices[x] < indices[u]
        BY <1>2, <1>3, CallFacts
      <4>2. OnStack(x)' /\ calls'[k] = x
        BY <1>2, <1>5, <4>1
      <4> QED BY <4>2 DEF OnStack
    <3>3. indices' = indices /\ DOMAIN calls' = 1 .. m - 1
          /\ \A k \in 1 .. m - 1 : calls'[k] = calls[k]
      BY <1>1, <1>2
    <3>4. \A j, k \in 1 .. m - 1 : j < k => indices'[calls'[j]] < indices'[calls'[k]]
      BY <3>1, <3>3
    <3> HIDE DEF SortInv
    <3> QED BY <3>2, <3>3, <3>4 DEF CallsRise
  <2>4. Placed'
    <3>1. \A x \in Idx : indices[x] # 0 <=> OnStack(x)' \/ Emitted(x)'
      <4> TAKE x \in Idx
      <4>1. indices[x] < indices[u] \/ indices[u] <= indices[x]
        BY <1>1, <1>3
      <4> QED BY <1>5, <4>1 DEF Numbered, Placed
    <3>2. \A x \in Idx : ~(OnStack(x)' /\ Emitted(x)')
      BY <1>1, <1>3, <1>5 DEF Numbered, Placed
    <3>3. \A k, l \in DOMAIN order' : k # l => order'[k] # order'[l]
      BY <1>5, <1>8, <1>9 DEF Numbered, Placed
    <3> QED BY <1>1, <3>1, <3>2, <3>3 DEF Placed
  <2>5. LeftKnown'
    BY <1>1, <1>2 DEF Numbered, LeftKnown
  <2> QED BY <2>1, <2>2, <2>3, <2>4, <2>5 DEF Numbered
<1>11. \A i, j : Leads(i, j)' <=> Leads(i, j)
  BY <1>1 DEF Leads
<1>12. \A k \in 1 .. m - 1 : \A x \in Idx :
         OnStack(x)' => (LastCall(k, x)' <=> LastCall(k, x))
  <2> TAKE k \in 1 .. m - 1
  <2> TAKE x \in Idx
  <2> SUFFICES ASSUME indices[x] < indices[u] PROVE LastCall(k, x)' <=> LastCall(k, x)
    BY <1>5
  <2>1. CASE k = m - 1
    BY <1>0, <1>1, <1>2, <2>1 DEF LastCall
  <2>2. CASE k < m - 1
    BY <1>0, <1>1, <1>2, <2>2 DEF LastCall
  <2> QED BY <2>1, <2>2
<1>13. OrderClosed'
  <2> SUFFICES ASSUME NEW x \in Idx, Emitted(x) \/ InIt(x), NEW y \in adj[x] PROVE Emitted(y) \/ InIt(y)
    BY <1>1, <1>5 DEF OrderClosed, SortTypeOK
  <2> QED BY <1>6 DEF Linked, OrderClosed
<1>14. CallsLead'
  BY <1>1, <1>2, <1>5, <1>11 DEF Linked, CallsLead
<1>15. LeadsToCall'
  <2> SUFFICES ASSUME NEW x \in Idx, OnStack(x)'
               PROVE  \E k \in 1 .. m - 1 : LastCall(k, x)' /\ Leads(x, calls[k])
    BY <1>1, <1>2, <1>11 DEF LeadsToCall
  <2>1. OnStack(x) /\ indices[x] < indices[u]
    BY <1>5
  <2>2. PICK k \in 1 .. m : LastCall(k, x) /\ Leads(x, calls[k])
    BY <1>2, <2>1 DEF Linked, LeadsToCall
  <2>3. k # m
    <3>1. indices[calls[k]] <= indices[x]
      BY <2>2 DEF LastCall
    <3> QED BY <1>0, <1>1, <1>3, <2>1, <3>1
  <2> QED BY <1>12, <2>2, <2>3
<1>16. LowFound'
  <2> SUFFICES ASSUME NEW k \in 1 .. m - 1
               PROVE  /\ lowlinks[calls[k]] <= indices[calls[k]]
                      /\ \E y \in Idx : OnStack(y)' /\ indices[y] = lowlinks[calls[k]] /\ Leads(calls[k], y)
    BY <1>1, <1>2, <1>4, <1>11 DEF LowFound
  <2>1. PICK y \in Idx : OnStack(y) /\ indices[y] = lowlinks[calls[k]] /\ Leads(calls[k], y)
    BY <1>2 DEF Linked, LowFound
  <2>2. lowlinks[calls[k]] <= indices[calls[k]] /\ indices[calls[k]] < indices[u]
    BY <1>2 DEF Linked, LowFound
  <2>3. indices[y] < indices[u]
    <3>1. calls[k] \in Idx
      BY <1>2, <1>3
    <3> QED BY <1>1, <1>3, <2>1, <2>2, <3>1
  <2> QED BY <1>5, <2>1, <2>2, <2>3
<1>17. LowLeast'
  <2> SUFFICES ASSUME NEW k \in 1 .. m - 1, NEW x \in Idx, OnStack(x)', LastCall(k, x)',
                      NEW y \in adj[x] \ left[x], OnStack(y)'
               PROVE  lowlinks[calls[k]] <= indices[y]
    BY <1>1, <1>2, <1>4 DEF LowLeast
  <2>1. y \in Idx
    BY DEF SortTypeOK
  <2> QED BY <1>2, <1>5, <1>12, <2>1 DEF Linked, LowLeast
\* What was in the order leads to nothing that is new in it.
<1>18. \A k \in DOMAIN order : \A l \in DOMAIN order' \ DOMAIN order : ~Leads(order[k], order'[l])
  <2> SUFFICES ASSUME NEW k \in DOMAIN order, NEW l \in DOMAIN order' \ DOMAIN order,
                      Leads(order[k], order'[l])
               PROVE  FALSE
    OBVIOUS
  <2> DEFINE E == {x \in Idx : Emitted(x)}
  <2>1. Closed(adj, E)
    BY DEF Linked, OrderClosed, Closed, SortTypeOK
  <2>2. E \in SUBSET DOMAIN adj /\ order[k] \in E
    BY <1>9 DEF Idx
  <2>3. order'[l] \in E
    BY <2>1, <2>2, LeadsFacts DEF Leads
  <2> QED BY <1>5, <1>8, <2>3
<1>19. \A k, l \in DOMAIN order' \ DOMAIN order : Leads(order'[k], order'[l])
  BY <1>5, <1>6
<1>20. OrderRight'
  <2>1. DependenciesLead(adj, order)'
    <3> SUFFICES ASSUME NEW k \in DOMAIN order', NEW l \in DOMAIN order', k < l, Leads(order'[k], order'[l])
                 PROVE  Leads(order'[l], order'[k])
      BY <1>1 DEF DependenciesLead, Leads
    <3>1. CASE l \in DOMAIN order
      <4>1. k \in DOMAIN order
        BY <1>5, <3>1
      <4> QED BY <1>5, <3>1, <4>1 DEF Linked, OrderRight, DependenciesLead, Leads
    <3>2. CASE l \notin DOMAIN order
      <4>1. k \notin DOMAIN order
        BY <1>5, <1>18, <3>2
      <4> QED BY <1>19, <3>2, <4>1
    <3> QED BY <3>1, <3>2
  <2>2. CyclesTogether(adj, order)'
    <3> SUFFICES ASSUME NEW i \in DOMAIN order', NEW k \in DOMAIN order', NEW l \in DOMAIN order',
                        i < k, k < l, Leads(order'[i], order'[l]), Leads(order'[l], order'[i])
                 PROVE  Leads(order'[i], order'[k]) /\ Leads(order'[k], order'[i])
      BY <1>1 DEF CyclesTogether, Together, Leads
    <3>1. CASE l \in DOMAIN order
      <4>1. k \in DOMAIN order /\ i \in DOMAIN order
        BY <1>5, <3>1
      <4> QED BY <1>5, <3>1, <4>1 DEF Linked, OrderRight, CyclesTogether, Together, Leads
    <3>2. CASE l \notin DOMAIN order
      <4>1. i \notin DOMAIN order
        BY <1>5, <1>18, <3>2
      <4>2. k \notin DOMAIN order
        BY <1>5, <4>1
      <4> QED BY <1>19, <4>1, <4>2
    <3> QED BY <3>1, <3>2
  <2> QED BY <2>1, <2>2 DEF OrderRight
<1> QED BY <1>7, <1>10, <1>13, <1>14, <1>15, <1>16, <1>17, <1>20 DEF Linked

-----------------------------------------------------------------------------
(* The invariant. *)

\* A sort that begins, and one that never did.
Begun ==
  /\ adj \in [Idx -> SUBSET Idx]
  /\ index = 1 /\ indices = [i \in Idx |-> 0] /\ lowlinks = [i \in Idx |-> 0]
  /\ stack = <<>> /\ calls = <<>> /\ left = adj /\ order = <<>>

LEMMA BegunSorts == Begun => SortInv
<1> SUFFICES ASSUME Begun PROVE SortInv
  OBVIOUS
<1> USE DEF Begun
<1>1. SortTypeOK
  BY DEF SortTypeOK
<1>2. \A v \in Idx : indices[v] = 0 /\ ~OnStack(v) /\ ~Emitted(v) /\ ~Called(v)
  BY DEF OnStack, Emitted, Called
<1>3. Numbered
  BY <1>2 DEF Numbered, NumbersDiffer, StackRises, CallsRise, Placed, LeftKnown
<1>4. Linked
  <2>1. OrderRight
    BY DEF OrderRight, DependenciesLead, CyclesTogether
  <2> QED BY <1>2, <2>1 DEF Linked, OrderClosed, CallsLead, LeadsToCall, LowFound, LowLeast
<1> QED BY <1>1, <1>3, <1>4 DEF SortInv

LEMMA InitSorts == SortInit => SortInv
<1> SUFFICES ASSUME SortInit PROVE Begun
  BY BegunSorts
<1>1. Idx = {}
  BY DEF SortInit, Idx
<1>2. <<>> = [i \in Idx |-> 0] /\ <<>> \in [Idx -> SUBSET Idx]
  BY <1>1
<1> QED BY <1>2 DEF SortInit, Begun

LEMMA BeginSorts ==
  ASSUME NEW g, g \in [DOMAIN g -> SUBSET DOMAIN g], BeginSort(g)
  PROVE  SortInv'
<1>1. Begun'
  BY DEF BeginSort, Begun, Idx
<1> QED BY <1>1, BegunSorts, PTL

LEMMA SortStepKeeps == SortInv /\ SortStep => SortInv'
<1> SUFFICES ASSUME SortInv, SortStep PROVE SortInv'
  OBVIOUS
<1>1. ASSUME NEW v \in Idx, Entering(v) PROVE SortInv'
  BY <1>1, EnteringFacts, EnteringNumbered, EnteringLinked DEF SortInv
<1>2. CASE NextRoot
  BY <1>1, <1>2 DEF NextRoot, Entering
<1>3. CASE Descend
  BY <1>1, <1>3 DEF Descend, Entering
<1>4. CASE LookAt
  BY <1>4, LookAtKeeps
<1>5. CASE Leave
  BY <1>5, LeaveOpenKeeps, LeaveComponentKeeps
<1> QED BY <1>2, <1>3, <1>4, <1>5 DEF SortStep

LEMMA StillSorted == SortInv /\ UNCHANGED sortVars => SortInv'
<1> SUFFICES ASSUME SortInv, UNCHANGED sortVars PROVE SortInv'
  OBVIOUS
<1> USE DEF sortVars, searchVars, SortInv
<1>1. \A x : (OnStack(x)' <=> OnStack(x)) /\ (Emitted(x)' <=> Emitted(x)) /\ (Called(x)' <=> Called(x))
  BY DEF OnStack, Emitted, Called
<1>2. Idx' = Idx /\ \A i, j : Leads(i, j)' <=> Leads(i, j)
  BY DEF Idx, Leads
<1>3. \A k, x : LastCall(k, x)' <=> LastCall(k, x)
  BY DEF LastCall
<1>4. SortTypeOK'
  BY <1>2 DEF SortTypeOK
<1>5. Numbered'
  BY <1>1, <1>2 DEF Numbered, NumbersDiffer, StackRises, CallsRise, Placed, LeftKnown
<1>6. Linked'
  <2>1. OrderClosed' /\ OrderRight'
    BY <1>1, <1>2 DEF Linked, OrderClosed, OrderRight
  <2>2. CallsLead' /\ LeadsToCall'
    BY <1>1, <1>2, <1>3 DEF Linked, CallsLead, LeadsToCall
  <2>3. LowFound' /\ LowLeast'
    BY <1>1, <1>2, <1>3 DEF Linked, LowFound, LowLeast
  <2> QED BY <2>1, <2>2, <2>3 DEF Linked
<1> QED BY <1>4, <1>5, <1>6

\* The search's invariant.
THEOREM SortInvariant == SortSpec => []SortInv
<1>1. SortInv /\ [SortNext]_sortVars => SortInv'
  <2>1. ASSUME NEW n \in Nat, NEW g \in [1 .. n -> SUBSET (1 .. n)], BeginSort(g) PROVE SortInv'
    <3>1. g \in [DOMAIN g -> SUBSET DOMAIN g]
      OBVIOUS
    <3> QED BY <2>1, <3>1, BeginSorts
  <2> QED BY <2>1, SortStepKeeps, StillSorted DEF SortNext
<1> QED BY <1>1, InitSorts, PTL DEF SortSpec

\* What the search keeps has its type.
THEOREM SortTypeCorrect == SortSpec => []SortTypeOK
<1>1. SortInv => SortTypeOK
  BY DEF SortInv
<1> QED BY <1>1, SortInvariant, PTL

\* At the end everything is in the order.
LEMMA EndedIsRight == SortInv /\ SortEnded => SortRight
<1> SUFFICES ASSUME SortInv, SortEnded PROVE SortRight
  OBVIOUS
<1>1. \A x \in Idx : ~OnStack(x)
  BY DEF SortInv, Linked, LeadsToCall, SortEnded
<1>2. \A x \in Idx : Emitted(x)
  BY <1>1 DEF SortInv, Numbered, Placed, SortEnded
<1>3. ListsAll(adj, order)
  BY <1>2 DEF ListsAll, SortInv, Numbered, Placed, Emitted, Idx
<1> QED BY <1>3 DEF SortRight, SortInv, Linked, OrderRight

\* When the search ends, every place is in the order once, no place before one it
\* depends on that does not depend on it in turn, and the places of a circle side
\* by side.
THEOREM SortIsRight == SortSpec => [](SortEnded => SortRight)
BY SortInvariant, EndedIsRight, PTL

-----------------------------------------------------------------------------
(* Lists. *)

LEMMA Least ==
  ASSUME NEW T \in SUBSET Nat, T # {}
  PROVE  \E m \in T : \A k \in T : m <= k
<1>1. PICK m \in T : \A k \in T : ~(<<k, m>> \in OpToRel(<, Nat))
  BY WFMin, NatLessThanWellFounded
<1>2. \A k \in T : ~(k < m)
  BY <1>1 DEF OpToRel
<1> QED BY <1>2

\* The sequence of the sequences' concatenations is there.
LEMMA Flattening ==
  ASSUME NEW T, NEW ss \in Seq(Seq(T)), NEW n \in 1 .. Len(ss)
  PROVE  \E f : f = [i \in 1 .. n |-> IF i = 1 THEN ss[i] ELSE f[i - 1] \o ss[i]]
<1> DEFINE There(m) == \E f : f = [i \in 1 .. m |-> IF i = 1 THEN ss[i] ELSE f[i - 1] \o ss[i]]
           Missing == {m \in 1 .. Len(ss) : ~There(m)}
<1> SUFFICES ASSUME Missing # {} PROVE FALSE
  OBVIOUS
<1>1. PICK m \in Missing : \A k \in Missing : m <= k
  <2> HIDE DEF There
  <2>1. Missing \in SUBSET Nat
    OBVIOUS
  <2> HIDE DEF Missing
  <2> QED BY <2>1, Least
<1>2. m \in 1 .. Len(ss) /\ ~There(m)
  OBVIOUS
<1>3. CASE m = 1
  <2> DEFINE f == [i \in 1 .. 1 |-> ss[1]]
  <2>1. f = [i \in 1 .. m |-> IF i = 1 THEN ss[i] ELSE f[i - 1] \o ss[i]]
    BY <1>3
  <2> QED BY <1>2, <2>1
<1>4. CASE m # 1
  <2>1. m - 1 \in 1 .. Len(ss) /\ ~(m <= m - 1)
    BY <1>2, <1>4
  <2>2. There(m - 1)
    BY <1>1, <2>1
  <2>3. PICK f : f = [i \in 1 .. m - 1 |-> IF i = 1 THEN ss[i] ELSE f[i - 1] \o ss[i]]
    BY <2>2
  <2> DEFINE g == [i \in 1 .. m |-> IF i = m THEN f[m - 1] \o ss[m] ELSE f[i]]
  <2>4. ASSUME NEW i \in 1 .. m
        PROVE  g[i] = IF i = 1 THEN ss[i] ELSE g[i - 1] \o ss[i]
    <3>1. CASE i = m
      <4>1. m - 1 \in 1 .. m /\ m - 1 # m /\ i # 1
        BY <1>2, <1>4, <3>1
      <4>2. g[m - 1] = f[m - 1] /\ g[i] = f[m - 1] \o ss[m]
        BY <3>1, <4>1
      <4> QED BY <3>1, <4>1, <4>2
    <3>2. CASE i # m
      <4>1. i \in 1 .. m - 1 /\ (i # 1 => i - 1 \in 1 .. m - 1 /\ i - 1 \in 1 .. m /\ i - 1 # m)
        BY <1>2, <3>2
      <4>2. f[i] = IF i = 1 THEN ss[i] ELSE f[i - 1] \o ss[i]
        BY <2>3, <4>1
      <4>3. g[i] = f[i] /\ (i # 1 => g[i - 1] = f[i - 1])
        BY <3>2, <4>1
      <4> QED BY <4>2, <4>3
    <3> QED BY <3>1, <3>2
  <2>5. g = [i \in 1 .. m |-> IF i = 1 THEN ss[i] ELSE g[i - 1] \o ss[i]]
    <3>1. g = [i \in 1 .. m |-> g[i]]
      OBVIOUS
    <3> HIDE DEF g
    <3> QED BY <2>4, <3>1
  <2> HIDE DEF g
  <2> QED BY <1>2, <2>5
<1> QED BY <1>3, <1>4

LEMMA FlattenFacts ==
  ASSUME NEW T, NEW ss \in Seq(Seq(T))
  PROVE  /\ FlattenSeq(ss) \in Seq(T)
         /\ \A x : x \in Range(FlattenSeq(ss)) <=> \E k \in DOMAIN ss : x \in Range(ss[k])
<1>1. CASE Len(ss) = 0
  <2>1. ss = <<>>
    BY <1>1
  <2> QED BY <1>1, <2>1 DEF FlattenSeq, Range
<1>2. CASE Len(ss) # 0
  <2> DEFINE n == Len(ss)
             f == CHOOSE f : f = [i \in 1 .. n |-> IF i = 1 THEN ss[i] ELSE f[i - 1] \o ss[i]]
  <2>1. n \in 1 .. n
    BY <1>2
  <2>2. f = [i \in 1 .. n |-> IF i = 1 THEN ss[i] ELSE f[i - 1] \o ss[i]]
    BY <2>1, Flattening
  <2>3. FlattenSeq(ss) = f[n]
    BY <1>2 DEF FlattenSeq
  <2> HIDE DEF f
  <2> DEFINE Reached(m) == f[m] \in Seq(T) /\ \A x : x \in Range(f[m]) <=> \E k \in 1 .. m : x \in Range(ss[k])
             Others == {m \in 1 .. n : ~Reached(m)}
  <2> SUFFICES ASSUME Others # {} PROVE FALSE
    <3>1. Reached(n)
      <4> HIDE DEF Reached
      <4> QED BY <2>1
    <3>2. DOMAIN ss = 1 .. n
      OBVIOUS
    <3> QED BY <2>3, <3>1, <3>2
  <2>4. PICK m \in Others : \A k \in Others : m <= k
    <3> HIDE DEF Reached
    <3>1. Others \in SUBSET Nat
      OBVIOUS
    <3> HIDE DEF Others
    <3> QED BY <3>1, Least
  <2>5. m \in 1 .. n /\ ~Reached(m)
    OBVIOUS
  <2>6. ss[m] \in Seq(T) /\ f[m] = IF m = 1 THEN ss[m] ELSE f[m - 1] \o ss[m]
    <3>1. ss[m] \in Seq(T)
      BY <2>5
    <3> HIDE DEF n
    <3>2. f[m] = IF m = 1 THEN ss[m] ELSE f[m - 1] \o ss[m]
      BY <2>2, <2>5
    <3> QED BY <3>1, <3>2
  <2>7. m # 1
    <3> SUFFICES ASSUME m = 1 PROVE FALSE
      OBVIOUS
    <3>1. 1 .. m = {1}
      BY <2>5
    <3> QED BY <2>5, <2>6, <3>1
  <2>8. m - 1 \in 1 .. n /\ ~(m <= m - 1)
    BY <2>5, <2>7
  <2>9. Reached(m - 1)
    BY <2>4, <2>8
  <2>10. PICK u \in Seq(T), v \in Seq(T) : u = f[m - 1] /\ v = ss[m] /\ f[m] = u \o v
    BY <2>6, <2>7, <2>9
  <2>11. Range(u \o v) = Range(u) \cup Range(v)
    BY RangeConcatenation
  <2>12. 1 .. m = (1 .. m - 1) \cup {m}
    BY <2>5
  <2>13. \A x : x \in Range(f[m]) <=> \E k \in 1 .. m : x \in Range(ss[k])
    <3> HIDE DEF n
    <3>1. \A x : x \in Range(f[m]) <=> x \in Range(f[m - 1]) \/ x \in Range(ss[m])
      BY <2>10, <2>11
    <3> QED BY <2>9, <2>12, <3>1
  <2>14. Reached(m)
    BY <2>10, <2>13
  <2> QED BY <2>5, <2>14
<1> QED BY <1>1, <1>2

LEMMA Listed ==
  ASSUME NEW n \in Nat, NEW S, NEW f, f = [k \in 1 .. n |-> f[k]], \A k \in 1 .. n : f[k] \in S
  PROVE  f \in Seq(S) /\ Len(f) = n /\ DOMAIN f = 1 .. n
OBVIOUS

\* A sequence is one over what is in it.
LEMMA SeqOver ==
  ASSUME NEW T, NEW s \in Seq(T), NEW S, Range(s) \subseteq S
  PROVE  s \in Seq(S)
BY SeqOfRange, SeqMonotonic

LEMMA OnlyFacts ==
  ASSUME NEW T, NEW s \in Seq(T), NEW S
  PROVE  /\ Only(s, S) \in Seq(T) /\ Only(s, S) \in Seq(S)
         /\ \A x : x \in Range(Only(s, S)) <=> x \in Range(s) /\ x \in S
<1> DEFINE ss == [k \in DOMAIN s |-> IF s[k] \in S THEN <<s[k]>> ELSE <<>>]
<1>1. ss \in Seq(Seq(T)) /\ DOMAIN ss = DOMAIN s
  <2>1. DOMAIN s = 1 .. Len(s) /\ \A k \in 1 .. Len(s) : s[k] \in T
    OBVIOUS
  <2>2. \A k \in 1 .. Len(s) : ss[k] \in Seq(T)
    BY <2>1
  <2>3. ss = [k \in 1 .. Len(s) |-> ss[k]]
    BY <2>1
  <2> HIDE DEF ss
  <2> QED BY <2>1, <2>2, <2>3
<1>2. Only(s, S) = FlattenSeq(ss)
  BY DEF Only
<1>3. \A k \in DOMAIN s : Range(ss[k]) = IF s[k] \in S THEN {s[k]} ELSE {}
  BY DEF Range
<1> HIDE DEF ss
<1>4. /\ Only(s, S) \in Seq(T)
      /\ \A x : x \in Range(Only(s, S)) <=> \E k \in DOMAIN s : x \in Range(ss[k])
  BY <1>1, <1>2, FlattenFacts
<1>5. \A x : x \in Range(Only(s, S)) <=> x \in Range(s) /\ x \in S
  <2> TAKE x
  <2>1. x \in Range(s) <=> \E k \in DOMAIN s : s[k] = x
    BY DEF Range
  <2> QED BY <1>3, <1>4, <2>1
<1>6. Range(Only(s, S)) \subseteq S
  BY <1>5
<1> QED BY <1>4, <1>5, <1>6, SeqOver

\* The numbers of a finite set in a row.
LEMMA SortedRange ==
  ASSUME NEW S, S \subseteq Int, IsFiniteSet(S)
  PROVE  /\ Sorted(S) \in Seq(S) /\ Len(Sorted(S)) = Cardinality(S) /\ Range(Sorted(S)) = S
         /\ \A j, k \in 1 .. Len(Sorted(S)) : j # k => Sorted(S)[j] # Sorted(S)[k]
<1>1. /\ Sorted(S) \in Seq(S) /\ Len(Sorted(S)) = Cardinality(S)
      /\ \A j, k \in DOMAIN Sorted(S) : Sorted(S)[j] = Sorted(S)[k] => j = k
      /\ \A l \in S : \E k \in DOMAIN Sorted(S) : Sorted(S)[k] = l
  BY SortedFacts
<1>2. Range(Sorted(S)) = S
  BY <1>1 DEF Range
<1>3. DOMAIN Sorted(S) = 1 .. Len(Sorted(S))
  BY <1>1
<1> QED BY <1>1, <1>2, <1>3

LEMMA Reversed ==
  ASSUME NEW T, NEW s \in Seq(T)
  PROVE  Reverse(s) \in Seq(T) /\ Range(Reverse(s)) = Range(s)
<1>1. Reverse(s) \in Seq(T) /\ DOMAIN Reverse(s) = 1 .. Len(s) /\ DOMAIN s = 1 .. Len(s) /\ Len(s) \in Nat
      /\ \A k \in 1 .. Len(s) : Reverse(s)[k] = s[Len(s) - k + 1] /\ Len(s) - k + 1 \in 1 .. Len(s)
  BY DEF Reverse
<1>2. ASSUME NEW k \in 1 .. Len(s) PROVE s[k] = Reverse(s)[Len(s) - k + 1] /\ Len(s) - k + 1 \in 1 .. Len(s)
  <2>1. Len(s) - k + 1 \in 1 .. Len(s) /\ Len(s) - (Len(s) - k + 1) + 1 = k
    BY <1>1
  <2> QED BY <1>1, <2>1
<1> QED BY SMTT(60), <1>1, <1>2 DEF Range

LEMMA RangeFinite ==
  ASSUME NEW T, NEW s \in Seq(T)
  PROVE  IsFiniteSet(Range(s))
<1>1. s \in [1 .. Len(s) -> T] /\ DOMAIN s = 1 .. Len(s) /\ Len(s) \in Nat
  OBVIOUS
<1>2. s \in Surjection(1 .. Len(s), Range(s))
  BY <1>1 DEF Surjection, Range
<1>3. IsFiniteSet(1 .. Len(s))
  BY <1>1, FS_Interval
<1> QED BY <1>2, <1>3, FS_Surjection

LEMMA FiniteImage ==
  ASSUME NEW S, IsFiniteSet(S), NEW T, NEW f \in [S -> T], T = {f[x] : x \in S}
  PROVE  IsFiniteSet(T)
<1>1. f \in Surjection(S, T)
  BY DEF Surjection
<1> QED BY <1>1, FS_Surjection

-----------------------------------------------------------------------------
(* Exploring. *)

Asking == request \in Requests

\* What p needs on this system.
Needs(p) == IF p.name \in request.installed THEN p.deps ELSE Requirements(p)

LEMMA CatalogFacts ==
  ASSUME Asking
  PROVE  /\ request.catalog \in Seq(Catalog) /\ request.catalog[1] \in Catalog
         /\ Catalog \subseteq Package /\ IsFiniteSet(Catalog)
         /\ \A p, q \in Catalog : p.name = q.name /\ p.version = q.version => p = q
         /\ \A p \in Catalog : IsFiniteSet(p.deps) /\ IsFiniteSet(p.makedeps)
         /\ request.installed \subseteq Names
         /\ NameOrder \in Seq(Names) /\ Range(NameOrder) = Names
<1> USE ResolveAssumption DEF Asking, Catalog
<1>1. PICK s \in Seq(Package) : s = request.catalog /\ Len(s) > 0
  OBVIOUS
<1>2. s \in Seq(Range(s)) /\ IsFiniteSet(Range(s))
  BY SeqOfRange, RangeFinite
<1>3. 1 \in DOMAIN s /\ \A k \in DOMAIN s : s[k] \in Package
  BY <1>1
<1>4. s[1] \in Range(s) /\ Range(s) \subseteq Package
  BY <1>3 DEF Range
<1>5. \A p \in Catalog : IsFiniteSet(p.deps) /\ IsFiniteSet(p.makedeps)
  <2> TAKE p \in Catalog
  <2>1. IsFiniteSet(p.deps \cup p.makedeps)
    OBVIOUS
  <2>2. p.deps \in SUBSET (p.deps \cup p.makedeps) /\ p.makedeps \in SUBSET (p.deps \cup p.makedeps)
    OBVIOUS
  <2> QED BY <2>1, <2>2, FS_Subset
<1> QED BY <1>1, <1>2, <1>4, <1>5

LEMMA PackageFacts ==
  ASSUME NEW p \in Package
  PROVE  /\ p.name \in Names /\ p.version \in Int
         /\ p.provides \subseteq Names /\ p.conflicts \subseteq Names /\ p.obsoletes \subseteq Names
         /\ p.deps \subseteq Dependency /\ p.makedeps \subseteq Dependency
         /\ \A d \in Dependency : d.name \in Names /\ d.min \in Int
<1>1. /\ p.name \in Names /\ p.version \in Versions
      /\ p.provides \subseteq Names /\ p.conflicts \subseteq Names /\ p.obsoletes \subseteq Names
      /\ p.deps \subseteq Dependency /\ p.makedeps \subseteq Dependency
  BY DEF Package
<1>2. \A d \in Dependency : d.name \in Names /\ d.min \in Versions \cup {0}
  BY DEF Dependency
<1>3. \A v \in Versions \cup {0} : v \in Int
  BY VersionsAssumption
<1> QED BY <1>1, <1>2, <1>3

LEMMA AllVersionsFacts ==
  ASSUME Asking, NEW name \in Names
  PROVE  /\ AllVersions[name] \in Seq(Catalog)
         /\ \A p \in Catalog : p.name = name => p \in Range(AllVersions[name])
<1> DEFINE rows == {p \in Catalog : p.name = name}
           vs == {p.version : p \in rows}
           newestFirst == Reverse(Sorted(vs))
           all == [k \in DOMAIN newestFirst |-> CHOOSE p \in rows : p.version = newestFirst[k]]
<1>1. vs \subseteq Int
  BY CatalogFacts, PackageFacts
<1>2. IsFiniteSet(vs)
  <2>1. IsFiniteSet(rows)
    <3>1. rows \in SUBSET Catalog
      OBVIOUS
    <3> QED BY <3>1, CatalogFacts, FS_Subset
  <2> DEFINE f == [p \in rows |-> p.version]
  <2>2. f \in [rows -> vs] /\ vs = {f[p] : p \in rows}
    OBVIOUS
  <2> HIDE DEF f, vs, rows
  <2> QED BY <2>1, <2>2, FiniteImage
<1>3. /\ Sorted(vs) \in Seq(vs) /\ Range(Sorted(vs)) = vs
  <2> HIDE DEF vs
  <2> QED BY <1>1, <1>2, SortedRange
<1>4. newestFirst \in Seq(vs) /\ Range(newestFirst) = vs
  <2> HIDE DEF vs
  <2> QED BY <1>3, Reversed
<1>5. AllVersions[name] = all
  BY DEF AllVersions
<1>6. DOMAIN newestFirst = 1 .. Len(newestFirst) /\ Len(newestFirst) \in Nat
  <2> HIDE DEF vs, newestFirst
  <2> QED BY <1>4
<1>7. ASSUME NEW k \in DOMAIN newestFirst
      PROVE  all[k] \in rows /\ all[k].version = newestFirst[k]
  <2>1. newestFirst[k] \in vs
    <3> HIDE DEF vs, newestFirst
    <3> QED BY <1>4
  <2> QED BY <2>1
<1>8. all \in Seq(Catalog)
  <2>1. \A k \in 1 .. Len(newestFirst) : all[k] \in Catalog
    BY <1>6, <1>7
  <2>2. DOMAIN all = DOMAIN newestFirst /\ all = [k \in DOMAIN all |-> all[k]]
    OBVIOUS
  <2> HIDE DEF all, newestFirst
  <2>3. all = [k \in 1 .. Len(newestFirst) |-> all[k]]
    BY <1>6, <2>2
  <2> QED BY <1>6, <2>1, <2>3
<1>9. ASSUME NEW p \in Catalog, p.name = name PROVE p \in Range(all)
  <2>1. p.version \in vs
    BY <1>9
  <2>2. PICK k \in DOMAIN newestFirst : newestFirst[k] = p.version
    BY <1>4, <2>1 DEF Range
  <2>3. all[k] = p
    BY <1>7, <1>9, <2>2, CatalogFacts
  <2>4. k \in DOMAIN all
    OBVIOUS
  <2> HIDE DEF all
  <2> QED BY <2>3, <2>4 DEF Range
<1> QED BY <1>5, <1>8, <1>9

LEMMA ProvidersFacts ==
  ASSUME Asking, NEW name \in Names
  PROVE  /\ Providers[name] \in Seq(Catalog)
         /\ \A p \in Catalog : name \in p.provides => p \in Range(Providers[name])
<1> DEFINE giving == {p \in Catalog : name \in p.provides}
<1>1. Providers[name] = Only(request.catalog, giving)
  BY DEF Providers
<1>2. PICK s \in Seq(Catalog) : s = request.catalog /\ Range(s) = Catalog
  BY CatalogFacts DEF Catalog
<1> HIDE DEF giving
<1>3. /\ Only(s, giving) \in Seq(Catalog)
      /\ \A x : x \in Range(Only(s, giving)) <=> x \in Range(s) /\ x \in giving
  BY OnlyFacts
<1> QED BY <1>1, <1>2, <1>3 DEF giving

LEMMA NamesInFacts ==
  ASSUME Asking, NEW deps \in SUBSET Dependency
  PROVE  NamesIn(deps) \in Seq(Names) /\ \A d \in deps : d.name \in Range(NamesIn(deps))
<1> DEFINE called == {d.name : d \in deps}
<1>1. NamesIn(deps) = Only(NameOrder, called)
  BY DEF NamesIn
<1>2. PICK s \in Seq(Names) : s = NameOrder /\ Range(s) = Names
  BY CatalogFacts
<1>3. \A d \in deps : d.name \in called /\ d.name \in Names
  BY DEF Dependency
<1> HIDE DEF called
<1>4. /\ Only(s, called) \in Seq(Names)
      /\ \A x : x \in Range(Only(s, called)) <=> x \in Range(s) /\ x \in called
  BY OnlyFacts
<1> QED BY <1>1, <1>2, <1>3, <1>4

LEMMA WantedFacts ==
  ASSUME Asking, NEW p \in Catalog
  PROVE  Wanted(p) \in Seq(Names) /\ \A d \in Needs(p) : d \in Dependency /\ d.name \in Range(Wanted(p))
<1>1. p.deps \in SUBSET Dependency /\ p.makedeps \in SUBSET Dependency
  BY CatalogFacts, PackageFacts
<1>2. PICK u \in Seq(Names) : u = NamesIn(p.deps) /\ \A d \in p.deps : d.name \in Range(u)
  BY <1>1, NamesInFacts
<1>3. PICK v \in Seq(Names) : v = NamesIn(p.makedeps) /\ \A d \in p.makedeps : d.name \in Range(v)
  BY <1>1, NamesInFacts
<1>4. PICK w \in Seq(Names) : w = IF BuildsHere(p) THEN v ELSE <<>>
  <2>1. <<>> \in Seq(Names)
    OBVIOUS
  <2> QED BY <2>1, Zenon
<1>5. Wanted(p) = u \o w
  BY <1>2, <1>3, <1>4 DEF Wanted
<1>6. Range(u \o w) = Range(u) \cup Range(w)
  BY RangeConcatenation
<1>7. \A d \in Needs(p) : d \in p.deps \/ (d \in p.makedeps /\ w = v)
  BY <1>4 DEF Needs, BuildsHere, IsInstalled, Requirements
<1> QED BY <1>1, <1>2, <1>3, <1>5, <1>6, <1>7

\* All that can answer for p's name, or for what p needs, is looked at.
LEMMA CandidatesFacts ==
  ASSUME Asking, NEW p \in Catalog
  PROVE  /\ Candidates(p) \in Seq(Catalog)
         /\ \A q \in Catalog : q.name = p.name => q \in Range(Candidates(p))
         /\ \A q \in Catalog, d \in Needs(p) : Satisfies(q, d) => q \in Range(Candidates(p))
<1> DEFINE of(k) == AllVersions[Wanted(p)[k]] \o Providers[Wanted(p)[k]]
           ss == [k \in DOMAIN Wanted(p) |-> of(k)]
<1>1. p.name \in Names
  BY CatalogFacts, PackageFacts
<1>2. PICK u \in Seq(Catalog) : u = AllVersions[p.name] /\ \A q \in Catalog : q.name = p.name => q \in Range(u)
  BY <1>1, AllVersionsFacts
<1>3. PICK wanted \in Seq(Names) : wanted = Wanted(p) /\ \A d \in Needs(p) : d \in Dependency /\ d.name \in Range(wanted)
  BY WantedFacts
<1>4. ASSUME NEW k \in DOMAIN wanted
      PROVE  of(k) \in Seq(Catalog) /\ \A q \in Catalog : q.name = wanted[k] \/ wanted[k] \in q.provides => q \in Range(of(k))
  <2>1. wanted[k] \in Names
    BY <1>3
  <2>2. PICK a \in Seq(Catalog) : a = AllVersions[wanted[k]] /\ \A q \in Catalog : q.name = wanted[k] => q \in Range(a)
    BY <2>1, AllVersionsFacts
  <2>3. PICK b \in Seq(Catalog) : b = Providers[wanted[k]] /\ \A q \in Catalog : wanted[k] \in q.provides => q \in Range(b)
    BY <2>1, ProvidersFacts
  <2>4. of(k) = a \o b
    BY <1>3, <2>2, <2>3
  <2>5. Range(a \o b) = Range(a) \cup Range(b)
    BY RangeConcatenation
  <2> HIDE DEF of
  <2> QED BY <2>2, <2>3, <2>4, <2>5
<1>5. ss \in Seq(Seq(Catalog)) /\ DOMAIN ss = DOMAIN wanted /\ \A k \in DOMAIN wanted : ss[k] = of(k)
  <2>1. DOMAIN wanted = 1 .. Len(wanted) /\ Len(wanted) \in Nat
    BY <1>3
  <2>2. ss = [k \in 1 .. Len(wanted) |-> of(k)]
    BY <1>3, <2>1
  <2> HIDE DEF ss, of
  <2> QED BY <1>4, <2>1, <2>2
<1>6. Candidates(p) = u \o FlattenSeq(ss)
  BY <1>2 DEF Candidates
<1> HIDE DEF ss, of
<1>7. PICK v \in Seq(Catalog) : v = FlattenSeq(ss) /\ \A x : x \in Range(v) <=> \E k \in DOMAIN ss : x \in Range(ss[k])
  BY <1>5, FlattenFacts
<1>8. Range(u \o v) = Range(u) \cup Range(v)
  BY RangeConcatenation
<1>9. ASSUME NEW q \in Catalog, NEW d \in Needs(p), Satisfies(q, d) PROVE q \in Range(u \o v)
  <2>1. q.name = d.name \/ d.name \in q.provides
    BY <1>9 DEF Satisfies
  <2>2. PICK k \in DOMAIN wanted : wanted[k] = d.name
    BY <1>3 DEF Range
  <2>3. q \in Range(ss[k])
    BY <1>4, <1>5, <2>1, <2>2
  <2> QED BY <1>5, <1>7, <1>8, <2>3
<1> QED BY <1>2, <1>6, <1>7, <1>8, <1>9

-----------------------------------------------------------------------------
(* Clauses. *)

Clausal(cs, n) == cs \in Seq(SUBSET Literals(n))

Valuations(n) == [1 .. n -> BOOLEAN]

LitHolds(v, c) == \E l \in c : Holds(v, l)

LEMMA SatisfyingRange ==
  ASSUME NEW v, NEW cs
  PROVE  Satisfying(v, cs) <=> \A c \in Range(cs) : LitHolds(v, c)
BY DEF Satisfying, Range, LitHolds

LEMMA SatisfyingBoth ==
  ASSUME NEW n \in Nat, NEW s, Clausal(s, n), NEW t, Clausal(t, n), NEW v
  PROVE  Clausal(s \o t, n) /\ (Satisfying(v, s \o t) <=> Satisfying(v, s) /\ Satisfying(v, t))
<1>1. s \in Seq(SUBSET Literals(n)) /\ t \in Seq(SUBSET Literals(n))
  BY DEF Clausal
<1>2. s \o t \in Seq(SUBSET Literals(n))
  BY <1>1
<1>3. Range(s \o t) = Range(s) \cup Range(t)
  BY <1>1, RangeConcatenation
<1> QED BY <1>2, <1>3, SatisfyingRange DEF Clausal

LEMMA SatisfyingOne ==
  ASSUME NEW n \in Nat, NEW c \in SUBSET Literals(n), NEW v
  PROVE  Clausal(<<c>>, n) /\ (Satisfying(v, <<c>>) <=> LitHolds(v, c))
BY DEF Clausal, Satisfying, LitHolds

LEMMA SatisfyingAll ==
  ASSUME NEW n \in Nat, NEW ss, \A k \in DOMAIN ss : Clausal(ss[k], n), NEW m \in Nat,
         ss = [k \in 1 .. m |-> ss[k]], NEW v
  PROVE  /\ Clausal(FlattenSeq(ss), n)
         /\ Satisfying(v, FlattenSeq(ss)) <=> \A k \in 1 .. m : Satisfying(v, ss[k])
<1>1. DOMAIN ss = 1 .. m
  OBVIOUS
<1>2. ss \in Seq(Seq(SUBSET Literals(n)))
  BY <1>1, Listed DEF Clausal
<1>3. /\ FlattenSeq(ss) \in Seq(SUBSET Literals(n))
      /\ \A x : x \in Range(FlattenSeq(ss)) <=> \E k \in DOMAIN ss : x \in Range(ss[k])
  BY <1>2, FlattenFacts
<1>4. Satisfying(v, FlattenSeq(ss)) <=> \A c \in Range(FlattenSeq(ss)) : LitHolds(v, c)
  BY SatisfyingRange
<1>5. \A k \in 1 .. m : Satisfying(v, ss[k]) <=> \A c \in Range(ss[k]) : LitHolds(v, c)
  BY SatisfyingRange
<1> QED BY <1>1, <1>3, <1>4, <1>5 DEF Clausal

\* Clauses that are listed one by one.
LEMMA SatisfyingEach ==
  ASSUME NEW n \in Nat, NEW m \in Nat, NEW cs, cs = [k \in 1 .. m |-> cs[k]],
         \A k \in 1 .. m : cs[k] \in SUBSET Literals(n), NEW v
  PROVE  Clausal(cs, n) /\ (Satisfying(v, cs) <=> \A k \in 1 .. m : LitHolds(v, cs[k]))
<1>1. cs \in Seq(SUBSET Literals(n)) /\ DOMAIN cs = 1 .. m
  BY Listed
<1> QED BY <1>1 DEF Clausal, Satisfying, LitHolds

\* More variables do not disturb it.
LEMMA MoreVariables ==
  ASSUME NEW n \in Nat, NEW m \in Nat, n <= m, NEW cs, Clausal(cs, n),
         NEW v \in Valuations(n), NEW w, \A i \in 1 .. n : w[i] = v[i]
  PROVE  Clausal(cs, m) /\ (Satisfying(w, cs) <=> Satisfying(v, cs))
<1>1. cs \in Seq(SUBSET Literals(n))
  BY DEF Clausal
<1>2. Literals(n) \subseteq Literals(m)
  BY DEF Literals
<1>3. Clausal(cs, m)
  <2>1. SUBSET Literals(n) \subseteq SUBSET Literals(m)
    BY <1>2
  <2> QED BY <1>1, <2>1, SeqMonotonic DEF Clausal
<1>4. ASSUME NEW l \in Literals(n) PROVE Holds(w, l) <=> Holds(v, l)
  <2>1. l \in Int /\ l # 0 /\ (l > 0 => l \in 1 .. n) /\ (~(l > 0) => -l \in 1 .. n)
    BY DEF Literals
  <2> QED BY <2>1 DEF Holds
<1>5. \A k \in DOMAIN cs : \A l \in cs[k] : l \in Literals(n)
  BY <1>1
<1>6. Satisfying(w, cs) <=> Satisfying(v, cs)
  BY <1>4, <1>5 DEF Satisfying
<1> QED BY <1>3, <1>6

\* A clause of two literals.
LEMMA TwoHold ==
  ASSUME NEW v, NEW i \in Nat \ {0}, NEW j \in Nat \ {0}
  PROVE  /\ LitHolds(v, {-i, -j}) <=> ~v[i] \/ ~v[j]
         /\ LitHolds(v, {-i, j}) <=> ~v[i] \/ v[j]
<1>1. -i \in Int /\ -j \in Int /\ ~(-i > 0) /\ ~(-j > 0) /\ i > 0 /\ j > 0 /\ -(-i) = i /\ -(-j) = j
  OBVIOUS
<1>2. (Holds(v, -i) <=> ~v[i]) /\ (Holds(v, -j) <=> ~v[j]) /\ (Holds(v, j) <=> v[j])
  BY <1>1 DEF Holds
<1> QED BY <1>2 DEF LitHolds

LEMMA PairTyped ==
  ASSUME NEW n \in Nat, NEW i \in 1 .. n, NEW j \in 1 .. n
  PROVE  {-i, -j} \in SUBSET Literals(n) /\ {-i, j} \in SUBSET Literals(n)
<1>1. -i \in Literals(n) /\ -j \in Literals(n) /\ j \in Literals(n)
  BY DEF Literals
<1> QED BY <1>1

AtMostOne(v, x) == \A j, k \in DOMAIN x : v[x[j]] /\ v[x[k]] => j = k

LEMMA PairwiseFacts ==
  ASSUME NEW n \in Nat, NEW x \in Seq(1 .. n), NEW v
  PROVE  Clausal(Pairwise(x), n) /\ (Satisfying(v, Pairwise(x)) <=> AtMostOne(v, x))
<1> DEFINE of(i) == [j \in 1 .. Len(x) - i |-> {-x[i], -x[i + j]}]
           ss == [i \in DOMAIN x |-> of(i)]
<1>1. DOMAIN x = 1 .. Len(x) /\ Len(x) \in Nat /\ \A i \in 1 .. Len(x) : x[i] \in 1 .. n /\ x[i] \in Nat \ {0}
  OBVIOUS
<1>2. ASSUME NEW i \in 1 .. Len(x)
      PROVE  /\ Clausal(of(i), n)
             /\ Satisfying(v, of(i)) <=> \A j \in 1 .. Len(x) - i : ~v[x[i]] \/ ~v[x[i + j]]
  <2>1. Len(x) - i \in Nat
    BY <1>1
  <2>2. ASSUME NEW j \in 1 .. Len(x) - i PROVE i + j \in 1 .. Len(x)
    BY <1>1, <2>1
  <2>3. of(i) = [j \in 1 .. Len(x) - i |-> of(i)[j]] /\ \A j \in 1 .. Len(x) - i : of(i)[j] = {-x[i], -x[i + j]}
    OBVIOUS
  <2> HIDE DEF of
  <2>4. ASSUME NEW j \in 1 .. Len(x) - i
        PROVE  of(i)[j] \in SUBSET Literals(n) /\ (LitHolds(v, of(i)[j]) <=> ~v[x[i]] \/ ~v[x[i + j]])
    <3>1. PICK a \in 1 .. n, b \in 1 .. n : a = x[i] /\ b = x[i + j] /\ a \in Nat \ {0} /\ b \in Nat \ {0}
      BY <1>1, <2>2
    <3>2. of(i)[j] = {-a, -b}
      BY <2>3, <3>1
    <3>3. {-a, -b} \in SUBSET Literals(n)
      BY <3>1, PairTyped
    <3>4. LitHolds(v, {-a, -b}) <=> ~v[a] \/ ~v[b]
      BY <3>1, TwoHold
    <3> QED BY <3>1, <3>2, <3>3, <3>4
  <2>5. Clausal(of(i), n) /\ (Satisfying(v, of(i)) <=> \A j \in 1 .. Len(x) - i : LitHolds(v, of(i)[j]))
    BY <2>1, <2>3, <2>4, SatisfyingEach
  <2> QED BY <2>4, <2>5
<1>3. ss = [i \in 1 .. Len(x) |-> ss[i]] /\ DOMAIN ss = 1 .. Len(x) /\ \A i \in 1 .. Len(x) : ss[i] = of(i)
  BY <1>1
<1>4. Pairwise(x) = FlattenSeq(ss)
  BY DEF Pairwise
<1> HIDE DEF ss, of
<1>5. Clausal(Pairwise(x), n) /\ (Satisfying(v, Pairwise(x)) <=> \A i \in 1 .. Len(x) : Satisfying(v, ss[i]))
  BY <1>1, <1>2, <1>3, <1>4, SatisfyingAll
<1>6. ASSUME Satisfying(v, Pairwise(x)) PROVE AtMostOne(v, x)
  <2>1. ASSUME NEW i \in 1 .. Len(x), NEW k \in 1 .. Len(x), i < k PROVE ~v[x[i]] \/ ~v[x[k]]
    <3>1. k - i \in 1 .. Len(x) - i /\ i + (k - i) = k
      BY <1>1, <2>1
    <3> QED BY <1>2, <1>3, <1>5, <1>6, <3>1
  <2>2. \A i, k \in 1 .. Len(x) : i < k \/ k < i \/ i = k
    OBVIOUS
  <2> QED BY <1>1, <2>1, <2>2 DEF AtMostOne
<1>7. ASSUME AtMostOne(v, x), NEW i \in 1 .. Len(x), NEW j \in 1 .. Len(x) - i PROVE ~v[x[i]] \/ ~v[x[i + j]]
  <2>1. i + j \in 1 .. Len(x) /\ i + j # i
    BY <1>1
  <2> QED BY <1>1, <1>7, <2>1 DEF AtMostOne
<1> QED BY <1>2, <1>3, <1>5, <1>6, <1>7

\* What the clauses of the counter say.
Counting(v, x, last) ==
  /\ v[x[1]] => v[last + 1]
  /\ \A k \in 1 .. Len(x) - 2 :
       /\ v[x[k + 1]] => v[last + k + 1]
       /\ v[last + k] => v[last + k + 1]
       /\ ~v[x[k + 1]] \/ ~v[last + k]
  /\ ~v[x[Len(x)]] \/ ~v[last + Len(x) - 1]

LEMMA CounterMeaning ==
  ASSUME NEW last \in Nat, NEW x \in Seq(1 .. last), Len(x) > 1, NEW v
  PROVE  /\ Clausal(SequentialCounter(x, last), last + Len(x) - 1)
         /\ Satisfying(v, SequentialCounter(x, last)) <=> Counting(v, x, last)
<1> DEFINE n == Len(x)
           m == last + n - 1
           three(k) == <<{-x[k + 1], last + (k + 1)}, {-(last + k), last + (k + 1)}, {-x[k + 1], -(last + k)}>>
           ss == [k \in 1 .. n - 2 |-> three(k)]
           first == {-x[1], last + 1}
           final == {-x[n], -(last + (n - 1))}
<1>1. SequentialCounter(x, last) = <<first>> \o FlattenSeq(ss) \o <<final>>
  BY DEF SequentialCounter
<1>2. /\ DOMAIN x = 1 .. n /\ n \in Nat /\ n - 2 \in Nat /\ n - 1 \in Nat /\ m \in Nat
      /\ \A i \in 1 .. n : x[i] \in 1 .. m /\ x[i] \in Nat \ {0}
      /\ \A i \in 1 .. n - 1 : last + i \in 1 .. m /\ last + i \in Nat \ {0}
  <2>1. DOMAIN x = 1 .. n /\ n \in Nat /\ n > 1 /\ \A i \in 1 .. n : x[i] \in 1 .. last
    OBVIOUS
  <2> HIDE DEF n
  <2>2. n - 2 \in Nat /\ n - 1 \in Nat /\ m \in Nat /\ last <= m
    BY <2>1
  <2>3. \A i \in 1 .. n - 1 : last + i \in 1 .. m /\ last + i \in Nat \ {0}
    BY <2>1
  <2>4. \A i \in 1 .. n : x[i] \in 1 .. m /\ x[i] \in Nat \ {0}
    <3> TAKE i \in 1 .. n
    <3>1. x[i] \in 1 .. last
      BY <2>1
    <3> HIDE DEF m
    <3> QED BY <2>2, <3>1
  <2> QED BY <2>1, <2>2, <2>3, <2>4
<1>3. 1 \in 1 .. n /\ n \in 1 .. n /\ 1 \in 1 .. n - 1 /\ n - 1 \in 1 .. n - 1
  BY <1>2
<1>4. ASSUME NEW k \in 1 .. n - 2
      PROVE  k + 1 \in 1 .. n /\ k \in 1 .. n - 1 /\ k + 1 \in 1 .. n - 1
  BY <1>2
<1> HIDE DEF m, n
<1>5. Clausal(<<first>>, m) /\ (Satisfying(v, <<first>>) <=> (v[x[1]] => v[last + 1]))
  <2>1. first \in SUBSET Literals(m) /\ (LitHolds(v, first) <=> ~v[x[1]] \/ v[last + 1])
    BY <1>2, <1>3, PairTyped, TwoHold
  <2> HIDE DEF first
  <2> QED BY <1>2, <2>1, SatisfyingOne
<1>6. Clausal(<<final>>, m) /\ (Satisfying(v, <<final>>) <=> ~v[x[n]] \/ ~v[last + (n - 1)])
  <2>1. final \in SUBSET Literals(m) /\ (LitHolds(v, final) <=> ~v[x[n]] \/ ~v[last + (n - 1)])
    <3>1. PICK a \in 1 .. m, b \in 1 .. m :
            a = x[n] /\ b = last + (n - 1) /\ a \in Nat \ {0} /\ b \in Nat \ {0}
      BY <1>2, <1>3
    <3>2. final = {-a, -b}
      BY <3>1
    <3> HIDE DEF final
    <3>3. {-a, -b} \in SUBSET Literals(m)
      BY <1>2, <3>1, PairTyped
    <3>4. LitHolds(v, {-a, -b}) <=> ~v[a] \/ ~v[b]
      <4>1. a \in Nat \ {0} /\ b \in Nat \ {0}
        BY <3>1
      <4> QED BY <4>1, TwoHold
    <3> QED BY <3>1, <3>2, <3>3, <3>4
  <2> HIDE DEF final
  <2> QED BY <1>2, <2>1, SatisfyingOne
<1>7. ASSUME NEW k \in 1 .. n - 2
      PROVE  /\ Clausal(three(k), m)
             /\ Satisfying(v, three(k)) <=> /\ v[x[k + 1]] => v[last + (k + 1)]
                                            /\ v[last + k] => v[last + (k + 1)]
                                            /\ ~v[x[k + 1]] \/ ~v[last + k]
  <2> DEFINE a == {-x[k + 1], last + (k + 1)}
             b == {-(last + k), last + (k + 1)}
             c == {-x[k + 1], -(last + k)}
  <2>1. a \in SUBSET Literals(m) /\ (LitHolds(v, a) <=> ~v[x[k + 1]] \/ v[last + (k + 1)])
    BY <1>2, <1>4, PairTyped, TwoHold
  <2>2. b \in SUBSET Literals(m) /\ (LitHolds(v, b) <=> ~v[last + k] \/ v[last + (k + 1)])
    BY <1>2, <1>4, PairTyped, TwoHold
  <2>3. c \in SUBSET Literals(m) /\ (LitHolds(v, c) <=> ~v[x[k + 1]] \/ ~v[last + k])
    BY <1>2, <1>4, PairTyped, TwoHold
  <2>4. three(k) = <<a, b, c>>
    OBVIOUS
  <2> HIDE DEF a, b, c, three
  <2>5. Clausal(<<a, b, c>>, m)
    BY <2>1, <2>2, <2>3 DEF Clausal
  <2>6. Satisfying(v, <<a, b, c>>) <=> LitHolds(v, a) /\ LitHolds(v, b) /\ LitHolds(v, c)
    BY DEF Satisfying, LitHolds
  <2> QED BY <2>1, <2>2, <2>3, <2>4, <2>5, <2>6
<1>8. ss = [k \in 1 .. n - 2 |-> ss[k]] /\ DOMAIN ss = 1 .. n - 2 /\ \A k \in 1 .. n - 2 : ss[k] = three(k)
  OBVIOUS
<1>9. ASSUME NEW k \in 1 .. n - 2 PROVE last + k + 1 = last + (k + 1)
  BY <1>2
<1>10. last + n - 1 = last + (n - 1)
  BY <1>2
<1> HIDE DEF ss, three, first, final
<1>11. /\ Clausal(FlattenSeq(ss), m)
       /\ Satisfying(v, FlattenSeq(ss)) <=> \A k \in 1 .. n - 2 : Satisfying(v, ss[k])
  <2>1. PICK r \in Nat : r = n - 2
    BY <1>2
  <2>2. \A k \in DOMAIN ss : Clausal(ss[k], m)
    BY <1>7, <1>8
  <2>3. ss = [k \in 1 .. r |-> ss[k]]
    BY <1>8, <2>1
  <2>4. /\ Clausal(FlattenSeq(ss), m)
        /\ Satisfying(v, FlattenSeq(ss)) <=> \A k \in 1 .. r : Satisfying(v, ss[k])
    BY <1>2, <2>2, <2>3, SatisfyingAll
  <2> QED BY <2>1, <2>4
<1>12. /\ Clausal(<<first>> \o FlattenSeq(ss), m)
       /\ Satisfying(v, <<first>> \o FlattenSeq(ss)) <=> Satisfying(v, <<first>>) /\ Satisfying(v, FlattenSeq(ss))
  BY <1>2, <1>5, <1>11, SatisfyingBoth
<1>13. /\ Clausal(SequentialCounter(x, last), m)
       /\ Satisfying(v, SequentialCounter(x, last)) <=>
            Satisfying(v, <<first>> \o FlattenSeq(ss)) /\ Satisfying(v, <<final>>)
  <2>1. PICK s : s = <<first>> \o FlattenSeq(ss)
    OBVIOUS
  <2>2. PICK t : t = <<final>>
    OBVIOUS
  <2>3. Clausal(s \o t, m) /\ (Satisfying(v, s \o t) <=> Satisfying(v, s) /\ Satisfying(v, t))
    BY <1>2, <1>6, <1>12, <2>1, <2>2, SatisfyingBoth
  <2> QED BY <1>1, <2>1, <2>2, <2>3
<1>14. Counting(v, x, last) <=>
         /\ v[x[1]] => v[last + 1]
         /\ \A k \in 1 .. n - 2 : /\ v[x[k + 1]] => v[last + (k + 1)]
                                  /\ v[last + k] => v[last + (k + 1)]
                                  /\ ~v[x[k + 1]] \/ ~v[last + k]
         /\ ~v[x[n]] \/ ~v[last + (n - 1)]
  BY <1>9, <1>10 DEF Counting, n
<1>15. Satisfying(v, SequentialCounter(x, last)) <=> Counting(v, x, last)
  BY <1>5, <1>6, <1>7, <1>8, <1>11, <1>12, <1>13, <1>14
<1> QED BY <1>13, <1>15 DEF m, n

\* Once it is set the counter stays so, and lets no other version in.
LEMMA CounterExcludes ==
  ASSUME NEW last \in Nat, NEW x \in Seq(1 .. last), Len(x) > 1, NEW v, Counting(v, x, last)
  PROVE  AtMostOne(v, x)
<1>1. DOMAIN x = 1 .. Len(x) /\ Len(x) \in Nat
  OBVIOUS
<1>2. PICK n \in Nat : n = Len(x) /\ n > 1
  BY <1>1
<1>3. /\ v[x[1]] => v[last + 1]
      /\ \A k \in 1 .. n - 2 : /\ v[x[k + 1]] => v[last + k + 1]
                               /\ v[last + k] => v[last + k + 1]
                               /\ ~v[x[k + 1]] \/ ~v[last + k]
      /\ ~v[x[n]] \/ ~v[last + n - 1]
  BY <1>2 DEF Counting
<1>4. ASSUME NEW j \in 1 .. n, NEW k \in 1 .. n, j < k, v[x[j]], v[x[k]] PROVE FALSE
  <2> DEFINE Unset == {m \in j .. n - 1 : ~v[last + m]}
  <2>1. v[last + j]
    <3>1. CASE j = 1
      BY <1>3, <1>4, <3>1
    <3>2. CASE j # 1
      <4>1. j - 1 \in 1 .. n - 2 /\ j - 1 + 1 = j /\ last + (j - 1) + 1 = last + j
        BY <1>2, <1>4, <3>2
      <4>2. v[x[j - 1 + 1]] => v[last + (j - 1) + 1]
        BY <1>3, <4>1
      <4> QED BY <1>4, <4>1, <4>2
    <3> QED BY <3>1, <3>2
  <2>2. Unset = {}
    <3> SUFFICES ASSUME Unset # {} PROVE FALSE
      OBVIOUS
    <3>1. Unset \in SUBSET Nat
      BY <1>2
    <3>2. PICK m \in Unset : \A i \in Unset : m <= i
      <4> HIDE DEF Unset
      <4> QED BY <3>1, Least
    <3>3. m \in j .. n - 1 /\ ~v[last + m] /\ m # j
      BY <2>1
    <3>4. m - 1 \in j .. n - 1 /\ ~(m <= m - 1) /\ m - 1 \in 1 .. n - 2 /\ last + (m - 1) + 1 = last + m
      BY <1>2, <3>3
    <3>5. v[last + (m - 1)]
      BY <3>2, <3>4
    <3>6. v[last + (m - 1)] => v[last + (m - 1) + 1]
      BY <1>3, <3>4
    <3> QED BY <3>3, <3>4, <3>5, <3>6
  <2>3. CASE k = n
    <3>1. n - 1 \in j .. n - 1 /\ last + (n - 1) = last + n - 1
      BY <1>2, <1>4, <2>3
    <3>2. v[last + (n - 1)]
      BY <2>2, <3>1
    <3> QED BY <1>3, <1>4, <2>3, <3>1, <3>2
  <2>4. CASE k # n
    <3>1. k - 1 \in j .. n - 1 /\ k - 1 \in 1 .. n - 2 /\ k - 1 + 1 = k
      BY <1>2, <1>4, <2>4
    <3>2. v[last + (k - 1)]
      BY <2>2, <3>1
    <3>3. ~v[x[k - 1 + 1]] \/ ~v[last + (k - 1)]
      BY <1>3, <3>1
    <3> QED BY <1>4, <3>1, <3>2, <3>3
  <2> QED BY <2>3, <2>4
<1>5. \A i, k \in 1 .. n : i < k \/ k < i \/ i = k
  OBVIOUS
<1> QED BY <1>1, <1>2, <1>4, <1>5 DEF AtMostOne

\* The counter can always say how many versions were chosen so far.
LEMMA CounterExtends ==
  ASSUME NEW last \in Nat, NEW x \in Seq(1 .. last), Len(x) > 1, NEW v \in Valuations(last), AtMostOne(v, x)
  PROVE  \E w \in Valuations(last + Len(x) - 1) : (\A i \in 1 .. last : w[i] = v[i]) /\ Counting(w, x, last)
<1>1. PICK n \in Nat : n = Len(x) /\ n > 1 /\ DOMAIN x = 1 .. n /\ \A k \in 1 .. n : x[k] \in 1 .. last
  OBVIOUS
<1> DEFINE upTo(k) == \E m \in 1 .. k : v[x[m]]
           w == [i \in 1 .. last + n - 1 |-> IF i <= last THEN v[i] ELSE upTo(i - last)]
<1>2. \A i \in 1 .. last + n - 1 : v[i] \in BOOLEAN \/ ~(i <= last)
  BY <1>1 DEF Valuations
<1>3. w \in Valuations(last + n - 1)
  <2>1. \A k : upTo(k) \in BOOLEAN
    OBVIOUS
  <2> HIDE DEF upTo
  <2>2. \A i \in 1 .. last + n - 1 : (IF i <= last THEN v[i] ELSE upTo(i - last)) \in BOOLEAN
    BY <1>2, <2>1
  <2> QED BY <2>2, Zenon DEF Valuations
<1>4. ASSUME NEW i \in 1 .. last PROVE w[i] = v[i]
  <2>1. i \in 1 .. last + n - 1 /\ i <= last
    BY <1>1
  <2> HIDE DEF upTo
  <2> QED BY <2>1
<1>5. ASSUME NEW k \in 1 .. n - 1 PROVE w[last + k] = upTo(k)
  <2>1. last + k \in 1 .. last + n - 1 /\ ~(last + k <= last) /\ last + k - last = k
    BY <1>1
  <2> HIDE DEF upTo
  <2>2. w[last + k] = upTo(last + k - last)
    BY <2>1
  <2> QED BY <2>1, <2>2
<1> HIDE DEF w
<1>6. ASSUME NEW k \in 1 .. n PROVE w[x[k]] = v[x[k]]
  BY <1>1, <1>4
<1>7. w[x[1]] => w[last + 1]
  <2>1. 1 \in 1 .. n - 1 /\ 1 \in 1 .. n /\ 1 \in 1 .. 1
    BY <1>1
  <2>2. v[x[1]] => upTo(1)
    BY <2>1
  <2> HIDE DEF upTo
  <2> QED BY <1>5, <1>6, <2>1, <2>2
<1>8. ASSUME NEW k \in 1 .. n - 2
      PROVE  /\ w[x[k + 1]] => w[last + k + 1]
             /\ w[last + k] => w[last + k + 1]
             /\ ~w[x[k + 1]] \/ ~w[last + k]
  <2>1. k \in 1 .. n - 1 /\ k + 1 \in 1 .. n - 1 /\ k + 1 \in 1 .. n /\ last + k + 1 = last + (k + 1)
    BY <1>1
  <2>2. w[x[k + 1]] = v[x[k + 1]] /\ w[last + k] = upTo(k) /\ w[last + (k + 1)] = upTo(k + 1)
    BY <1>5, <1>6, <2>1
  <2>3. v[x[k + 1]] => upTo(k + 1)
    <3>1. k + 1 \in 1 .. k + 1
      BY <2>1
    <3> QED BY <3>1
  <2>4. upTo(k) => upTo(k + 1)
    <3>1. \A m \in 1 .. k : m \in 1 .. k + 1
      BY <2>1
    <3> QED BY <3>1
  <2>5. ~v[x[k + 1]] \/ ~upTo(k)
    <3> SUFFICES ASSUME v[x[k + 1]], NEW m \in 1 .. k, v[x[m]] PROVE FALSE
      OBVIOUS
    <3>1. m \in DOMAIN x /\ k + 1 \in DOMAIN x /\ m # k + 1
      BY <1>1, <2>1
    <3> QED BY <3>1 DEF AtMostOne
  <2> HIDE DEF upTo
  <2> QED BY <2>1, <2>2, <2>3, <2>4, <2>5
<1>9. ~w[x[n]] \/ ~w[last + n - 1]
  <2>1. n - 1 \in 1 .. n - 1 /\ n \in 1 .. n /\ last + n - 1 = last + (n - 1)
    BY <1>1
  <2>2. w[x[n]] = v[x[n]] /\ w[last + (n - 1)] = upTo(n - 1)
    BY <1>5, <1>6, <2>1
  <2>3. ~v[x[n]] \/ ~upTo(n - 1)
    <3> SUFFICES ASSUME v[x[n]], NEW m \in 1 .. n - 1, v[x[m]] PROVE FALSE
      OBVIOUS
    <3>1. m \in DOMAIN x /\ n \in DOMAIN x /\ m # n
      BY <1>1, <2>1
    <3> QED BY <3>1 DEF AtMostOne
  <2> HIDE DEF upTo
  <2> QED BY <2>1, <2>2, <2>3
<1>10. Counting(w, x, last)
  BY <1>1, <1>7, <1>8, <1>9 DEF Counting
<1> QED BY <1>1, <1>3, <1>4, <1>10

-----------------------------------------------------------------------------
(* The clauses of the packages. *)

LEMMA ListedDepsFacts ==
  ASSUME Asking, NEW deps \in SUBSET Dependency, IsFiniteSet(deps)
  PROVE  /\ ListedDeps(deps) \in Seq(Dependency)
         /\ \A d : d \in Range(ListedDeps(deps)) <=> d \in deps
<1> DEFINE entries(name) == {e \in deps : e.name = name}
           mins(name) == {d.min : d \in entries(name)}
           of(name) == [m \in DOMAIN Sorted(mins(name)) |-> [name |-> name, min |-> Sorted(mins(name))[m]]]
           ss == [k \in DOMAIN NameOrder |-> of(NameOrder[k])]
<1>1. ListedDeps(deps) = FlattenSeq(ss)
  BY DEF ListedDeps
<1>2. PICK s \in Seq(Names) : s = NameOrder /\ Range(s) = Names
  BY CatalogFacts
<1>3. ASSUME NEW name \in Names
      PROVE  /\ of(name) \in Seq(Dependency)
             /\ \A d : d \in Range(of(name)) <=> d \in entries(name)
  <2>1. \A d \in deps : d = [name |-> d.name, min |-> d.min] /\ d.name \in Names /\ d.min \in Int
    <3>1. \A d \in Dependency : d = [name |-> d.name, min |-> d.min]
      BY DEF Dependency
    <3>2. \A d \in Dependency : d.name \in Names /\ d.min \in Versions \cup {0}
      BY DEF Dependency
    <3>3. \A m \in Versions \cup {0} : m \in Int
      BY VersionsAssumption
    <3> QED BY <3>1, <3>2, <3>3
  <2>2. mins(name) \subseteq Int
    BY <2>1
  <2>3. IsFiniteSet(mins(name))
    <3>1. IsFiniteSet(entries(name))
      <4>1. entries(name) \in SUBSET deps
        OBVIOUS
      <4> HIDE DEF entries
      <4> QED BY <4>1, FS_Subset
    <3> DEFINE f == [d \in entries(name) |-> d.min]
    <3>2. f \in [entries(name) -> mins(name)] /\ mins(name) = {f[d] : d \in entries(name)}
      OBVIOUS
    <3> HIDE DEF f, mins, entries
    <3> QED BY <3>1, <3>2, FiniteImage
  <2>4. PICK t \in Seq(mins(name)) : t = Sorted(mins(name)) /\ Range(t) = mins(name)
    <3> HIDE DEF mins
    <3> QED BY <2>2, <2>3, SortedRange
  <2>5. DOMAIN t = 1 .. Len(t) /\ Len(t) \in Nat
    <3> HIDE DEF mins
    <3> QED BY <2>4
  <2>6. of(name) = [m \in 1 .. Len(t) |-> [name |-> name, min |-> t[m]]]
    <3> HIDE DEF mins
    <3> QED BY <2>4, <2>5
  <2>7. \A m : m \in mins(name) <=> [name |-> name, min |-> m] \in deps
    BY <2>1
  <2>8. ASSUME NEW m \in 1 .. Len(t) PROVE [name |-> name, min |-> t[m]] \in deps
    <3>1. t[m] \in mins(name)
      <4> HIDE DEF mins
      <4> QED BY <2>4, <2>5
    <3> HIDE DEF mins
    <3> QED BY <2>7, <3>1
  <2>9. ASSUME NEW d, d \in entries(name) PROVE \E m \in 1 .. Len(t) : d = [name |-> name, min |-> t[m]]
    <3>1. d.min \in mins(name) /\ d = [name |-> name, min |-> d.min]
      BY <2>1, <2>9
    <3> HIDE DEF mins
    <3>2. PICK m \in 1 .. Len(t) : t[m] = d.min
      BY <2>4, <2>5, <3>1 DEF Range
    <3> QED BY <3>1, <3>2
  <2> HIDE DEF mins, of
  <2>10. of(name) \in Seq(Dependency) /\ DOMAIN of(name) = 1 .. Len(t)
         /\ \A m \in 1 .. Len(t) : of(name)[m] = [name |-> name, min |-> t[m]]
    BY <2>5, <2>6, <2>8
  <2>11. \A d : d \in Range(of(name)) <=> \E m \in 1 .. Len(t) : d = [name |-> name, min |-> t[m]]
    BY <2>10 DEF Range
  <2>12. ASSUME NEW m \in 1 .. Len(t) PROVE [name |-> name, min |-> t[m]] \in entries(name)
    BY <2>8
  <2> HIDE DEF entries
  <2> QED BY <2>9, <2>10, <2>11, <2>12
<1> HIDE DEF of
<1>4. ss \in Seq(Seq(Dependency)) /\ DOMAIN ss = 1 .. Len(s) /\ \A k \in 1 .. Len(s) : ss[k] = of(s[k])
  <2>1. DOMAIN s = 1 .. Len(s) /\ Len(s) \in Nat /\ \A k \in 1 .. Len(s) : s[k] \in Names
    BY <1>2
  <2>2. ss = [k \in 1 .. Len(s) |-> of(s[k])]
    BY <1>2, <2>1
  <2> HIDE DEF ss
  <2> QED BY <1>3, <2>1, <2>2
<1> HIDE DEF ss
<1>5. /\ ListedDeps(deps) \in Seq(Dependency)
      /\ \A d : d \in Range(ListedDeps(deps)) <=> \E k \in DOMAIN ss : d \in Range(ss[k])
  BY <1>1, <1>4, FlattenFacts
<1>6. DOMAIN s = 1 .. Len(s) /\ \A k \in 1 .. Len(s) : s[k] \in Names
  BY <1>2
<1>7. \A name \in Names : \E k \in 1 .. Len(s) : s[k] = name
  BY <1>2, <1>6 DEF Range
<1>8. ASSUME NEW d \in Range(ListedDeps(deps)) PROVE d \in deps
  <2>1. PICK k \in 1 .. Len(s) : d \in Range(ss[k])
    BY <1>4, <1>5
  <2>2. d \in entries(s[k])
    <3> HIDE DEF entries
    <3> QED BY <1>3, <1>4, <1>6, <2>1
  <2> QED BY <2>2
<1>9. ASSUME NEW d \in deps PROVE d \in Range(ListedDeps(deps))
  <2>1. d.name \in Names /\ d \in entries(d.name)
    BY DEF Dependency
  <2> HIDE DEF entries
  <2>2. PICK k \in 1 .. Len(s) : s[k] = d.name
    BY <1>7, <2>1
  <2>3. d \in Range(ss[k])
    BY <1>3, <1>4, <2>1, <2>2
  <2> QED BY <1>4, <1>5, <2>3
<1> QED BY <1>5, <1>8, <1>9

LEMMA DependencyClausesFacts ==
  ASSUME Asking, universe \in Seq(Catalog), NEW i \in DOMAIN universe, NEW v
  PROVE  /\ Clausal(DependencyClauses(i), Len(universe))
         /\ Satisfying(v, DependencyClauses(i)) <=>
              (v[i] => \A d \in Needs(universe[i]) :
                         \E j \in DOMAIN universe : v[j] /\ Satisfies(universe[j], d))
<1> DEFINE answered(d) == \E j \in DOMAIN universe : v[j] /\ Satisfies(universe[j], d)
<1>1. PICK n \in Nat : n = Len(universe) /\ DOMAIN universe = 1 .. n
  OBVIOUS
<1>2. PICK p \in Catalog : p = universe[i]
  OBVIOUS
<1>3. /\ p.deps \in SUBSET Dependency /\ IsFiniteSet(p.deps)
      /\ p.makedeps \in SUBSET Dependency /\ IsFiniteSet(p.makedeps)
  BY CatalogFacts, PackageFacts
<1>4. PICK a \in Seq(Dependency) : a = ListedDeps(p.deps) /\ \A d : d \in Range(a) <=> d \in p.deps
  BY <1>3, ListedDepsFacts
<1>5. PICK b \in Seq(Dependency) : b = ListedDeps(p.makedeps) /\ \A d : d \in Range(b) <=> d \in p.makedeps
  BY <1>3, ListedDepsFacts
<1>6. PICK c \in Seq(Dependency) : c = IF BuildsHere(p) THEN b ELSE <<>>
  <2>1. <<>> \in Seq(Dependency)
    OBVIOUS
  <2> QED BY <2>1, Zenon
<1>7. PICK deps \in Seq(Dependency) : deps = a \o c /\ Range(deps) = Range(a) \cup Range(c)
  <2>1. a \o c \in Seq(Dependency)
    OBVIOUS
  <2>2. Range(a \o c) = Range(a) \cup Range(c)
    BY RangeConcatenation
  <2> QED BY <2>1, <2>2
<1>8. \A d : d \in Range(deps) <=> d \in Needs(p)
  <2>1. CASE BuildsHere(p)
    <3>1. c = b
      BY <1>6, <2>1
    <3> QED BY <1>4, <1>5, <1>7, <2>1, <3>1 DEF BuildsHere, IsInstalled, Needs, Requirements
  <2>2. CASE ~BuildsHere(p)
    <3>1. Range(c) = {}
      BY <1>6, <2>2 DEF Range
    <3> QED BY <1>4, <1>7, <2>2, <3>1 DEF BuildsHere, IsInstalled, Needs, Requirements
  <2> QED BY <2>1, <2>2
<1>9. DependencyClauses(i) = [k \in DOMAIN deps |-> {-i} \cup Answers(deps[k])]
  <2>1. ListedDeps(universe[i].deps) \o (IF BuildsHere(universe[i]) THEN ListedDeps(universe[i].makedeps) ELSE <<>>) = deps
    BY <1>2, <1>4, <1>5, <1>6, <1>7, Zenon
  <2> QED BY <2>1, Zenon DEF DependencyClauses
<1>10. PICK m \in Nat : m = Len(deps) /\ DOMAIN deps = 1 .. m
  BY <1>7
<1>11. PICK cs : cs = DependencyClauses(i)
  OBVIOUS
<1>12. cs = [k \in 1 .. m |-> cs[k]] /\ \A k \in 1 .. m : cs[k] = {-i} \cup Answers(deps[k])
  BY <1>9, <1>10, <1>11
<1>13. -i \in Literals(n) /\ \A j \in 1 .. n : j \in Literals(n)
  BY <1>1 DEF Literals
<1>14. ASSUME NEW d
       PROVE  /\ {-i} \cup Answers(d) \in SUBSET Literals(n)
              /\ LitHolds(v, {-i} \cup Answers(d)) <=> ~v[i] \/ answered(d)
  <2>1. \A j \in Answers(d) : j \in 1 .. n
    BY <1>1 DEF Answers
  <2>2. {-i} \cup Answers(d) \in SUBSET Literals(n)
    BY <1>13, <2>1
  <2>3. Holds(v, -i) <=> ~v[i]
    <3>1. ~(-i > 0) /\ -(-i) = i
      BY <1>1
    <3> QED BY <3>1 DEF Holds
  <2>4. \A j \in 1 .. n : Holds(v, j) <=> v[j]
    BY DEF Holds
  <2>5. LitHolds(v, {-i} \cup Answers(d)) <=> Holds(v, -i) \/ \E j \in Answers(d) : Holds(v, j)
    BY DEF LitHolds
  <2>6. (\E j \in Answers(d) : Holds(v, j)) <=> answered(d)
    BY <1>1, <2>1, <2>4 DEF Answers
  <2> HIDE DEF answered
  <2> QED BY <2>2, <2>3, <2>5, <2>6
<1> HIDE DEF answered
<1>15. \A k \in 1 .. m : cs[k] \in SUBSET Literals(n) /\ (LitHolds(v, cs[k]) <=> ~v[i] \/ answered(deps[k]))
  BY <1>12, <1>14
<1>16. Clausal(cs, n) /\ (Satisfying(v, cs) <=> \A k \in 1 .. m : LitHolds(v, cs[k]))
  BY <1>12, <1>15, SatisfyingEach
<1>17. (\A k \in 1 .. m : answered(deps[k])) <=> \A d \in Needs(p) : answered(d)
  <2>1. \A d : d \in Range(deps) <=> \E k \in 1 .. m : deps[k] = d
    BY <1>10 DEF Range
  <2> QED BY <1>8, <2>1
<1>18. Satisfying(v, cs) <=> (v[i] => \A d \in Needs(p) : answered(d))
  BY <1>15, <1>16, <1>17
<1> QED BY <1>1, <1>2, <1>11, <1>16, <1>18 DEF answered

\* What i's manifest says it cannot be with.
Excluded(i, j) ==
  \E name \in universe[i].conflicts : name \in {universe[j].name} \cup universe[j].provides

LEMMA ConflictClausesFacts ==
  ASSUME Asking, universe \in Seq(Catalog), NEW i \in DOMAIN universe, NEW v
  PROVE  /\ Clausal(ConflictClauses(i), Len(universe))
         /\ Satisfying(v, ConflictClauses(i)) <=>
              (v[i] => \A j \in DOMAIN universe \ {i} : Excluded(i, j) => ~v[j])
<1>1. PICK n \in Nat : n = Len(universe) /\ DOMAIN universe = 1 .. n
  OBVIOUS
<1>2. PICK p \in Catalog : p = universe[i]
  OBVIOUS
<1>3. p.conflicts \subseteq Names
  BY CatalogFacts, PackageFacts
<1>4. PICK listing \in Seq(Names) : listing = NameOrder /\ Range(listing) = Names
  BY CatalogFacts
<1>5. PICK s \in Seq(Names) : s = Only(NameOrder, p.conflicts) /\ \A x : x \in Range(s) <=> x \in p.conflicts
  <2>1. /\ Only(listing, p.conflicts) \in Seq(Names)
        /\ \A x : x \in Range(Only(listing, p.conflicts)) <=> x \in Range(listing) /\ x \in p.conflicts
    BY OnlyFacts
  <2> QED BY <1>3, <1>4, <2>1
<1>6. PICK m \in Nat : m = Len(s) /\ DOMAIN s = 1 .. m
  BY <1>5
<1> DEFINE against(name) == {j \in DOMAIN universe \ {i} : name \in {universe[j].name} \cup universe[j].provides}
           of(name) == [k \in DOMAIN Against(i, name) |-> {-i, -Against(i, name)[k]}]
           ss == [k \in DOMAIN s |-> of(s[k])]
<1>7. ConflictClauses(i) = FlattenSeq(ss)
  BY <1>2, <1>5, Zenon DEF ConflictClauses
<1>8. ASSUME NEW name
      PROVE  /\ Clausal(of(name), n)
             /\ Satisfying(v, of(name)) <=> \A j \in against(name) : ~v[i] \/ ~v[j]
  <2>1. against(name) \subseteq Int /\ IsFiniteSet(against(name)) /\ \A j \in against(name) : j \in 1 .. n
    <3>1. against(name) \in SUBSET (1 .. n)
      BY <1>1
    <3>2. IsFiniteSet(1 .. n)
      BY FS_Interval
    <3> HIDE DEF against
    <3> QED BY <3>1, <3>2, FS_Subset
  <2>2. Against(i, name) = Sorted(against(name))
    BY DEF Against
  <2> HIDE DEF against
  <2>3. PICK t \in Seq(against(name)) : t = Against(i, name) /\ Range(t) = against(name)
    BY <2>1, <2>2, SortedRange
  <2>4. PICK l \in Nat : l = Len(t) /\ DOMAIN t = 1 .. l
    BY <2>3
  <2>5. PICK cs : cs = of(name)
    OBVIOUS
  <2>6. cs = [k \in 1 .. l |-> cs[k]] /\ \A k \in 1 .. l : cs[k] = {-i, -t[k]}
    BY <2>3, <2>4, <2>5
  <2>7. ASSUME NEW k \in 1 .. l
        PROVE  cs[k] \in SUBSET Literals(n) /\ (LitHolds(v, cs[k]) <=> ~v[i] \/ ~v[t[k]])
    <3>1. PICK j \in 1 .. n : j = t[k]
      BY <2>1, <2>3, <2>4
    <3>2. i \in 1 .. n /\ i \in Nat \ {0} /\ j \in Nat \ {0}
      BY <1>1
    <3>3. {-i, -j} \in SUBSET Literals(n)
      BY <3>2, PairTyped
    <3>4. LitHolds(v, {-i, -j}) <=> ~v[i] \/ ~v[j]
      BY <3>2, TwoHold
    <3> QED BY <2>6, <3>1, <3>3, <3>4
  <2>8. Clausal(cs, n) /\ (Satisfying(v, cs) <=> \A k \in 1 .. l : LitHolds(v, cs[k]))
    BY <2>6, <2>7, SatisfyingEach
  <2>9. \A j : j \in against(name) <=> \E k \in 1 .. l : t[k] = j
    BY <2>3, <2>4 DEF Range
  <2> HIDE DEF of
  <2> QED BY <2>5, <2>7, <2>8, <2>9
<1>9. ss = [k \in 1 .. m |-> ss[k]] /\ DOMAIN ss = 1 .. m /\ \A k \in 1 .. m : ss[k] = of(s[k])
  BY <1>6
<1> HIDE DEF of, ss
<1>10. /\ Clausal(ConflictClauses(i), n)
       /\ Satisfying(v, ConflictClauses(i)) <=> \A k \in 1 .. m : Satisfying(v, ss[k])
  <2>1. \A k \in DOMAIN ss : Clausal(ss[k], n)
    BY <1>8, <1>9
  <2>2. Clausal(FlattenSeq(ss), n) /\ (Satisfying(v, FlattenSeq(ss)) <=> \A k \in 1 .. m : Satisfying(v, ss[k]))
    BY <1>9, <2>1, SatisfyingAll
  <2> QED BY <1>7, <2>2
<1>11. Satisfying(v, ConflictClauses(i)) <=> \A name \in p.conflicts : \A j \in against(name) : ~v[i] \/ ~v[j]
  <2>1. \A x : x \in p.conflicts <=> \E k \in 1 .. m : s[k] = x
    BY <1>5, <1>6 DEF Range
  <2> HIDE DEF against
  <2>2. \A k \in 1 .. m : Satisfying(v, ss[k]) <=> \A j \in against(s[k]) : ~v[i] \/ ~v[j]
    BY <1>8, <1>9
  <2>3. ASSUME Satisfying(v, ConflictClauses(i)), NEW name \in p.conflicts, NEW j \in against(name)
        PROVE  ~v[i] \/ ~v[j]
    <3>1. PICK k \in 1 .. m : s[k] = name
      BY <2>1
    <3> QED BY <1>10, <2>2, <2>3, <3>1
  <2>4. ASSUME \A name \in p.conflicts : \A j \in against(name) : ~v[i] \/ ~v[j]
        PROVE  Satisfying(v, ConflictClauses(i))
    BY <1>10, <2>1, <2>2, <2>4
  <2> QED BY <2>3, <2>4
<1>12. \A j : (j \in DOMAIN universe \ {i} /\ Excluded(i, j)) <=> \E name \in p.conflicts : j \in against(name)
  BY <1>2 DEF Excluded
<1> HIDE DEF against
<1> QED BY <1>1, <1>10, <1>11, <1>12

\* What the packages chosen by v need is chosen, and nothing they exclude.
Supported(v) ==
  \A i \in DOMAIN universe : v[i] =>
    \A d \in Needs(universe[i]) : \E j \in DOMAIN universe : v[j] /\ Satisfies(universe[j], d)

Peaceful(v) == \A i \in DOMAIN universe : v[i] => \A j \in DOMAIN universe \ {i} : Excluded(i, j) => ~v[j]

LEMMA PackageClausesFacts ==
  ASSUME Asking, universe \in Seq(Catalog), NEW v
  PROVE  /\ Clausal(PackageClauses, Len(universe))
         /\ Satisfying(v, PackageClauses) <=> Supported(v) /\ Peaceful(v)
<1> DEFINE ss == [i \in DOMAIN universe |-> DependencyClauses(i) \o ConflictClauses(i)]
           needs(i) == v[i] => \A d \in Needs(universe[i]) :
                                 \E j \in DOMAIN universe : v[j] /\ Satisfies(universe[j], d)
           peace(i) == v[i] => \A j \in DOMAIN universe \ {i} : Excluded(i, j) => ~v[j]
<1>1. PICK n \in Nat : n = Len(universe) /\ DOMAIN universe = 1 .. n
  OBVIOUS
<1>2. PackageClauses = FlattenSeq(ss)
  BY DEF PackageClauses
<1>3. ss = [i \in 1 .. n |-> ss[i]] /\ DOMAIN ss = 1 .. n
      /\ \A i \in 1 .. n : ss[i] = DependencyClauses(i) \o ConflictClauses(i)
  BY <1>1
<1>4. ASSUME NEW i \in 1 .. n
      PROVE  Clausal(ss[i], n) /\ (Satisfying(v, ss[i]) <=> needs(i) /\ peace(i))
  <2>1. Clausal(DependencyClauses(i), n) /\ (Satisfying(v, DependencyClauses(i)) <=> needs(i))
    BY <1>1, DependencyClausesFacts
  <2>2. Clausal(ConflictClauses(i), n) /\ (Satisfying(v, ConflictClauses(i)) <=> peace(i))
    BY <1>1, ConflictClausesFacts
  <2> HIDE DEF needs, peace
  <2>3. /\ Clausal(DependencyClauses(i) \o ConflictClauses(i), n)
        /\ Satisfying(v, DependencyClauses(i) \o ConflictClauses(i)) <=>
             Satisfying(v, DependencyClauses(i)) /\ Satisfying(v, ConflictClauses(i))
    BY <2>1, <2>2, SatisfyingBoth
  <2> QED BY <1>3, <2>1, <2>2, <2>3
<1>5. Supported(v) /\ Peaceful(v) <=> \A i \in 1 .. n : needs(i) /\ peace(i)
  BY <1>1 DEF Supported, Peaceful
<1> HIDE DEF ss, needs, peace
<1>6. Clausal(FlattenSeq(ss), n) /\ (Satisfying(v, FlattenSeq(ss)) <=> \A i \in 1 .. n : Satisfying(v, ss[i]))
  BY <1>3, <1>4, SatisfyingAll
<1> QED BY <1>1, <1>2, <1>4, <1>5, <1>6

-----------------------------------------------------------------------------
(* One version of a name. *)

OneOf(v, name) ==
  \A i, j \in DOMAIN universe :
    universe[i].name = name /\ universe[j].name = name /\ v[i] /\ v[j] => i = j

LEMMA VariablesFacts ==
  ASSUME universe \in Seq(Catalog), NEW name
  PROVE  /\ VariablesOf(name) \in Seq(1 .. Len(universe))
         /\ Len(VariablesOf(name)) < 2 => \A v : OneOf(v, name)
         /\ \A v : AtMostOne(v, VariablesOf(name)) <=> OneOf(v, name)
<1> DEFINE S == {i \in DOMAIN universe : universe[i].name = name}
<1>1. PICK n \in Nat : n = Len(universe) /\ DOMAIN universe = 1 .. n
  OBVIOUS
<1>2. S \subseteq Int /\ IsFiniteSet(S) /\ S \subseteq 1 .. n
  <2>1. S \in SUBSET (1 .. n)
    BY <1>1
  <2>2. IsFiniteSet(1 .. n)
    BY FS_Interval
  <2>3. \A i \in 1 .. n : i \in Int
    OBVIOUS
  <2> HIDE DEF S
  <2>4. IsFiniteSet(S)
    BY <2>1, <2>2, FS_Subset
  <2> QED BY <2>1, <2>3, <2>4
<1>3. VariablesOf(name) = Sorted(S)
  BY DEF VariablesOf
<1>4. \A i : i \in S <=> i \in DOMAIN universe /\ universe[i].name = name
  OBVIOUS
<1> HIDE DEF S
<1>5. PICK x \in Seq(S) : /\ x = VariablesOf(name) /\ Range(x) = S
                          /\ \A j, k \in 1 .. Len(x) : j # k => x[j] # x[k]
  BY <1>2, <1>3, SortedRange
<1>6. DOMAIN x = 1 .. Len(x) /\ Len(x) \in Nat /\ \A k \in DOMAIN x : x[k] \in S
  BY <1>5
<1>7. \A i \in S : \E k \in DOMAIN x : x[k] = i
  BY <1>5 DEF Range
<1>8. x \in Seq(1 .. n)
  BY <1>2, <1>5, SeqMonotonic
<1>9. ASSUME NEW v PROVE AtMostOne(v, x) <=> OneOf(v, name)
  <2>1. ASSUME AtMostOne(v, x), NEW i \in S, NEW j \in S, v[i], v[j] PROVE i = j
    <3>1. PICK k \in DOMAIN x, m \in DOMAIN x : x[k] = i /\ x[m] = j
      BY <1>7
    <3> QED BY <2>1, <3>1 DEF AtMostOne
  <2>2. ASSUME OneOf(v, name), NEW k \in DOMAIN x, NEW m \in DOMAIN x, v[x[k]], v[x[m]] PROVE k = m
    <3>1. x[k] = x[m]
      BY <1>4, <1>6, <2>2 DEF OneOf
    <3> QED BY <1>5, <1>6, <3>1
  <2> QED BY <1>4, <2>1, <2>2 DEF AtMostOne, OneOf
<1>10. ASSUME Len(x) < 2, NEW v PROVE OneOf(v, name)
  <2>1. \A j, k \in DOMAIN x : j = k
    BY <1>6, <1>10
  <2>2. AtMostOne(v, x)
    BY <2>1 DEF AtMostOne
  <2> QED BY <1>9, <2>2
<1> QED BY <1>1, <1>5, <1>8, <1>9, <1>10

\* The clauses cs over n variables exclude all but one version of each name that is
\* not in S, and nothing else.
Excludes(cs, n, S) ==
  /\ n \in Nat /\ Len(universe) <= n /\ Clausal(cs, n)
  /\ \A v \in Valuations(n) : Satisfying(v, cs) => \A name \in Names \ S : OneOf(v, name)
  /\ \A w \in Valuations(Len(universe)) : (\A name \in Names : OneOf(w, name)) =>
       \E v \in Valuations(n) : Satisfying(v, cs) /\ \A i \in DOMAIN universe : v[i] = w[i]

LEMMA NothingExcludes ==
  ASSUME universe \in Seq(Catalog)
  PROVE  Excludes(<<>>, Len(universe), {name \in Names : Len(VariablesOf(name)) > 1})
<1> DEFINE S == {name \in Names : Len(VariablesOf(name)) > 1}
<1>1. PICK n \in Nat : n = Len(universe) /\ DOMAIN universe = 1 .. n
  OBVIOUS
<1>2. \A v : Satisfying(v, <<>>)
  BY DEF Satisfying
<1>3. Clausal(<<>>, n)
  BY DEF Clausal
<1>4. ASSUME NEW name \in Names \ S, NEW v PROVE OneOf(v, name)
  <2>1. VariablesOf(name) \in Seq(1 .. Len(universe))
    BY VariablesFacts
  <2>2. Len(VariablesOf(name)) \in Nat /\ ~(Len(VariablesOf(name)) > 1)
    BY <2>1
  <2>3. Len(VariablesOf(name)) < 2
    BY <2>2
  <2> QED BY <2>3, VariablesFacts
<1> HIDE DEF S
<1>5. \A w \in Valuations(n) : \E v \in Valuations(n) : Satisfying(v, <<>>) /\ \A i \in DOMAIN universe : v[i] = w[i]
  BY <1>2
<1>6. Excludes(<<>>, n, S)
  BY <1>1, <1>3, <1>4, <1>5 DEF Excludes
<1> QED BY <1>1, <1>6 DEF S

\* What does not change on the packages' variables excludes the same.
LEMMA SameOneOf ==
  ASSUME universe \in Seq(Catalog), NEW v, NEW w, \A i \in DOMAIN universe : v[i] = w[i], NEW name
  PROVE  OneOf(v, name) <=> OneOf(w, name)
BY DEF OneOf

LEMMA PairsExclude ==
  ASSUME universe \in Seq(Catalog), NEW cs, NEW n, NEW S, Excludes(cs, n, S), NEW name \in Names
  PROVE  Excludes(cs \o Pairwise(VariablesOf(name)), n, S \ {name})
<1>1. n \in Nat /\ Len(universe) <= n /\ Clausal(cs, n) /\ Len(universe) \in Nat
  BY DEF Excludes
<1>2. PICK x \in Seq(1 .. Len(universe)) : x = VariablesOf(name) /\ \A v : AtMostOne(v, x) <=> OneOf(v, name)
  BY VariablesFacts
<1>3. x \in Seq(1 .. n)
  <2>1. 1 .. Len(universe) \subseteq 1 .. n
    BY <1>1
  <2> QED BY <1>2, <2>1, SeqMonotonic
<1>4. Clausal(Pairwise(x), n) /\ \A v : Satisfying(v, Pairwise(x)) <=> OneOf(v, name)
  BY <1>1, <1>2, <1>3, PairwiseFacts
<1>5. /\ Clausal(cs \o Pairwise(x), n)
      /\ \A v : Satisfying(v, cs \o Pairwise(x)) <=> Satisfying(v, cs) /\ OneOf(v, name)
  BY <1>1, <1>4, SatisfyingBoth
<1>6. \A v \in Valuations(n) : Satisfying(v, cs \o Pairwise(x)) =>
        \A other \in Names \ (S \ {name}) : OneOf(v, other)
  BY <1>5 DEF Excludes
<1>7. ASSUME NEW w \in Valuations(Len(universe)), \A other \in Names : OneOf(w, other)
      PROVE  \E v \in Valuations(n) : Satisfying(v, cs \o Pairwise(x)) /\ \A i \in DOMAIN universe : v[i] = w[i]
  <2>1. PICK v \in Valuations(n) : Satisfying(v, cs) /\ \A i \in DOMAIN universe : v[i] = w[i]
    BY <1>7 DEF Excludes
  <2>2. OneOf(v, name)
    BY <1>7, <2>1, SameOneOf
  <2> QED BY <1>5, <2>1, <2>2
<1> QED BY <1>1, <1>2, <1>5, <1>6, <1>7 DEF Excludes

LEMMA CounterExcludesToo ==
  ASSUME universe \in Seq(Catalog), NEW cs, NEW n, NEW S, Excludes(cs, n, S), NEW name \in Names,
         Len(VariablesOf(name)) > 1
  PROVE  Excludes(cs \o SequentialCounter(VariablesOf(name), n), n + Len(VariablesOf(name)) - 1, S \ {name})
<1>1. n \in Nat /\ Len(universe) <= n /\ Clausal(cs, n) /\ Len(universe) \in Nat /\ DOMAIN universe = 1 .. Len(universe)
  BY DEF Excludes
<1>2. PICK x \in Seq(1 .. Len(universe)) : x = VariablesOf(name) /\ \A v : AtMostOne(v, x) <=> OneOf(v, name)
  BY VariablesFacts
<1>3. x \in Seq(1 .. n) /\ Len(x) > 1 /\ Len(x) \in Nat
  <2>1. 1 .. Len(universe) \subseteq 1 .. n
    BY <1>1
  <2>2. x \in Seq(1 .. n)
    BY <1>2, <2>1, SeqMonotonic
  <2>3. Len(x) > 1
    BY <1>2
  <2>4. Len(x) \in Nat
    BY <1>2
  <2> QED BY <2>2, <2>3, <2>4
<1>4. PICK m \in Nat : m = n + Len(x) - 1 /\ n <= m /\ Len(universe) <= m
  <2>1. PICK l \in Nat, u \in Nat : l = Len(x) /\ u = Len(universe) /\ l > 1 /\ u <= n
    BY <1>1, <1>3
  <2>2. n + l - 1 \in Nat /\ n <= n + l - 1 /\ u <= n + l - 1
    BY <1>1, <2>1
  <2> QED BY <2>1, <2>2
<1>5. /\ Clausal(SequentialCounter(x, n), m)
      /\ \A v : Satisfying(v, SequentialCounter(x, n)) <=> Counting(v, x, n)
  BY <1>1, <1>3, <1>4, CounterMeaning
<1>6. Clausal(cs, m) /\ \A v \in Valuations(n) : \A w : (\A i \in 1 .. n : w[i] = v[i]) => (Satisfying(w, cs) <=> Satisfying(v, cs))
  <2>1. Clausal(cs, m)
    <3> DEFINE v == [i \in 1 .. n |-> TRUE]
    <3>1. v \in Valuations(n)
      BY DEF Valuations
    <3> HIDE DEF v
    <3> QED BY <1>1, <1>4, <3>1, MoreVariables
  <2>2. ASSUME NEW v \in Valuations(n), NEW w, \A i \in 1 .. n : w[i] = v[i]
        PROVE  Satisfying(w, cs) <=> Satisfying(v, cs)
    BY <1>1, <1>4, <2>2, MoreVariables
  <2> QED BY <2>1, <2>2
<1>7. PICK all : all = cs \o SequentialCounter(x, n)
  OBVIOUS
<1>8. Clausal(all, m) /\ \A v : Satisfying(v, all) <=> Satisfying(v, cs) /\ Counting(v, x, n)
  BY <1>5, <1>6, <1>7, SatisfyingBoth
<1>9. ASSUME NEW v \in Valuations(m), Satisfying(v, all), NEW other \in Names \ (S \ {name})
      PROVE  OneOf(v, other)
  <2> DEFINE r == [i \in 1 .. n |-> v[i]]
  <2>1. r \in Valuations(n)
    <3>1. \A i \in 1 .. n : v[i] \in BOOLEAN
      BY SMTT(60), <1>1, <1>4 DEF Valuations
    <3> QED BY <3>1 DEF Valuations
  <2>2. \A i \in 1 .. n : v[i] = r[i]
    OBVIOUS
  <2> HIDE DEF r
  <2>3. Satisfying(r, cs)
    BY <1>6, <1>8, <1>9, <2>1, <2>2
  <2>4. CASE other = name
    <3>1. AtMostOne(v, x)
      BY <1>1, <1>3, <1>8, <1>9, CounterExcludes
    <3> QED BY <1>2, <2>4, <3>1
  <2>5. CASE other # name
    <3>1. OneOf(r, other)
      BY <2>1, <2>3, <2>5 DEF Excludes
    <3>2. \A i \in DOMAIN universe : v[i] = r[i]
      BY <1>1, <2>2
    <3> QED BY <3>1, <3>2, SameOneOf
  <2> QED BY <2>4, <2>5
<1>10. ASSUME NEW w \in Valuations(Len(universe)), \A other \in Names : OneOf(w, other)
       PROVE  \E v \in Valuations(m) : Satisfying(v, all) /\ \A i \in DOMAIN universe : v[i] = w[i]
  <2>1. PICK r \in Valuations(n) : Satisfying(r, cs) /\ \A i \in DOMAIN universe : r[i] = w[i]
    BY <1>10 DEF Excludes
  <2>2. AtMostOne(r, x)
    BY <1>2, <1>10, <2>1, SameOneOf
  <2>3. PICK v \in Valuations(m) : (\A i \in 1 .. n : v[i] = r[i]) /\ Counting(v, x, n)
    BY <1>1, <1>3, <1>4, <2>2, CounterExtends
  <2>4. Satisfying(v, all)
    BY <1>6, <1>8, <2>1, <2>3
  <2>5. \A i \in DOMAIN universe : v[i] = w[i]
    BY <1>1, <2>1, <2>3
  <2> QED BY <2>4, <2>5
<1>11. Excludes(all, m, S \ {name})
  BY <1>4, <1>8, <1>9, <1>10 DEF Excludes
<1> QED BY <1>2, <1>4, <1>7, <1>11

-----------------------------------------------------------------------------
(* The invariant. *)

\* Nothing that was explored comes twice, and what it may need was explored or will be.
ExploredRight ==
  /\ queue \in Seq(Catalog) /\ universe \in Seq(Catalog)
  /\ \A i, j \in DOMAIN universe : universe[i] = universe[j] => i = j
  /\ \A p \in Range(universe) : \A q \in Range(Candidates(p)) : q \in Range(universe) \/ q \in Range(queue)
  /\ universe = <<>> => queue = <<request.catalog[1]>>
  /\ universe # <<>> => universe[1] = request.catalog[1]

Excluding == phase = "exclude" => Excludes(encoded.clauses, encoded.vars, names)

\* The packages a valuation chooses.
Chosen(v) == {universe[i] : i \in {j \in DOMAIN universe : v[j]}}

\* The clauses are satisfied by answers, and by every answer there is.
FormulaRight ==
  pc # "idle" =>
    /\ Len(universe) \in 1 .. num_vars /\ trail[1] = 1
    /\ \A v \in Fitting : Answer(Chosen(v))
    /\ \A S \in SUBSET Catalog : Answer(S) => Fitting # {}

Phased ==
  /\ phase \in {"explore", "exclude", "solve", "sort", "delivered", "failed"}
  /\ phase \in {"explore", "exclude"} => pc = "idle"
  /\ phase = "exclude" => queue = <<>> /\ universe # <<>>
  /\ phase \in {"sort", "delivered"} => verdict = "model"
  /\ phase = "delivered" => SortEnded

Kinds ==
  /\ names \subseteq Names
  /\ encoded = [vars |-> encoded.vars, clauses |-> encoded.clauses]
  /\ encoded.vars \in Nat /\ Clausal(encoded.clauses, encoded.vars)
  /\ installing \in Seq(Catalog) /\ removed \subseteq Names
  /\ adj = Adjacency(installing)

ResolveInv ==
  /\ Asking /\ ExploredRight /\ Excluding /\ FormulaRight /\ Phased /\ Kinds
  /\ IInv /\ Early /\ SortInv

-----------------------------------------------------------------------------
(* The clauses are right. *)

LEMMA EncodedRight ==
  ASSUME Asking, ExploredRight, queue = <<>>, universe # <<>>, NEW cs, NEW n, Excludes(cs, n, {})
  PROVE  /\ Len(universe) \in 1 .. n
         /\ Clausal(cs \o PackageClauses, n)
         /\ \A v \in Valuations(n) : v[1] /\ Satisfying(v, cs \o PackageClauses) => Answer(Chosen(v))
         /\ \A S \in SUBSET Catalog : Answer(S) =>
              \E v \in Valuations(n) : v[1] /\ Satisfying(v, cs \o PackageClauses)
<1> USE DEF ExploredRight
<1>1. n \in Nat /\ Len(universe) <= n /\ Clausal(cs, n) /\ Len(universe) \in Nat
      /\ DOMAIN universe = 1 .. Len(universe) /\ Len(universe) \in 1 .. n /\ 1 \in DOMAIN universe
  BY DEF Excludes
<1>2. Clausal(PackageClauses, n)
      /\ \A v : Satisfying(v, PackageClauses) <=> Supported(v) /\ Peaceful(v)
  <2>1. Clausal(PackageClauses, Len(universe))
        /\ \A v : Satisfying(v, PackageClauses) <=> Supported(v) /\ Peaceful(v)
    BY PackageClausesFacts
  <2> DEFINE v == [i \in 1 .. Len(universe) |-> TRUE]
  <2>2. v \in Valuations(Len(universe))
    BY DEF Valuations
  <2> HIDE DEF v
  <2>3. Clausal(PackageClauses, n)
    BY <1>1, <2>1, <2>2, MoreVariables
  <2> QED BY <2>1, <2>3
<1>3. PICK all : all = cs \o PackageClauses
  OBVIOUS
<1>4. Clausal(all, n) /\ \A v : Satisfying(v, all) <=> Satisfying(v, cs) /\ Supported(v) /\ Peaceful(v)
  BY <1>1, <1>2, <1>3, SatisfyingBoth
<1>5. \A i \in DOMAIN universe : universe[i] \in Catalog /\ universe[i].name \in Names
  <2>1. \A i \in DOMAIN universe : universe[i] \in Catalog
    OBVIOUS
  <2> QED BY <2>1, CatalogFacts, PackageFacts
<1>6. ASSUME NEW v \in Valuations(n), v[1], Satisfying(v, all) PROVE Answer(Chosen(v))
  <2>1. \A name \in Names : OneOf(v, name)
    BY <1>4, <1>6 DEF Excludes
  <2>2. Supported(v) /\ Peaceful(v)
    BY <1>4, <1>6
  <2>3. \A p : p \in Chosen(v) <=> \E i \in DOMAIN universe : v[i] /\ universe[i] = p
    BY DEF Chosen
  <2>4. request.catalog[1] \in Chosen(v)
    BY <1>1, <1>6, <2>3
  <2>5. ASSUME NEW p \in Chosen(v), NEW q \in Chosen(v), p # q
        PROVE  p.name # q.name /\ q.name \notin p.conflicts /\ q.provides \cap p.conflicts = {}
    <3>1. PICK i \in DOMAIN universe, j \in DOMAIN universe :
            v[i] /\ universe[i] = p /\ v[j] /\ universe[j] = q /\ i # j
      BY <2>3, <2>5
    <3>2. p.name # q.name
      BY <1>5, <2>1, <3>1 DEF OneOf
    <3>3. ~Excluded(i, j)
      BY <2>2, <3>1 DEF Peaceful
    <3> QED BY <3>1, <3>2, <3>3 DEF Excluded
  <2>6. ASSUME NEW p \in Chosen(v), NEW d \in Needs(p) PROVE \E q \in Chosen(v) : Satisfies(q, d)
    <3>1. PICK i \in DOMAIN universe : v[i] /\ universe[i] = p
      BY <2>3
    <3>2. PICK j \in DOMAIN universe : v[j] /\ Satisfies(universe[j], d)
      BY <2>2, <2>6, <3>1 DEF Supported
    <3> QED BY <2>3, <3>2
  <2>7. Consistent(Chosen(v), request.installed)
    BY <2>5, <2>6 DEF Consistent, Needs
  <2> QED BY <2>4, <2>7 DEF Answer
<1>7. ASSUME NEW S \in SUBSET Catalog, Answer(S)
      PROVE  \E v \in Valuations(n) : v[1] /\ Satisfying(v, all)
  <2>1. /\ request.catalog[1] \in S
        /\ \A p, q \in S : p # q => p.name # q.name /\ q.name \notin p.conflicts /\ q.provides \cap p.conflicts = {}
        /\ \A p \in S : \A d \in Needs(p) : \E q \in S : Satisfies(q, d)
    BY <1>7 DEF Answer, Consistent, Needs
  <2> DEFINE w == [i \in 1 .. Len(universe) |-> universe[i] \in S]
  <2>2. w \in Valuations(Len(universe)) /\ \A i \in DOMAIN universe : w[i] <=> universe[i] \in S
    <3>1. \A i \in 1 .. Len(universe) : (universe[i] \in S) \in BOOLEAN
      OBVIOUS
    <3>2. w \in Valuations(Len(universe))
      BY <3>1, Zenon DEF Valuations
    <3>3. \A i \in 1 .. Len(universe) : w[i] = (universe[i] \in S)
      BY Zenon
    <3> QED BY <1>1, <3>2, <3>3
  <2> HIDE DEF w
  <2>3. ASSUME NEW name \in Names PROVE OneOf(w, name)
    BY <2>1, <2>2 DEF OneOf
  <2>4. PICK v \in Valuations(n) : Satisfying(v, cs) /\ \A i \in DOMAIN universe : v[i] = w[i]
    BY <2>2, <2>3 DEF Excludes
  <2>5. \A i \in DOMAIN universe : v[i] <=> universe[i] \in S
    BY <2>2, <2>4
  <2>6. Supported(v)
    <3> SUFFICES ASSUME NEW i \in DOMAIN universe, v[i], NEW d \in Needs(universe[i])
                 PROVE  \E j \in DOMAIN universe : v[j] /\ Satisfies(universe[j], d)
      BY DEF Supported
    <3>1. PICK q \in S : Satisfies(q, d)
      BY <2>1, <2>5
    <3>2. universe[i] \in Range(universe)
      BY DEF Range
    <3>3. q \in Range(Candidates(universe[i]))
      BY <1>5, <3>1, CandidatesFacts
    <3>4. Range(queue) = {}
      BY DEF Range
    <3>5. q \in Range(universe)
      BY <3>2, <3>3, <3>4
    <3>6. PICK j \in DOMAIN universe : universe[j] = q
      BY <3>5 DEF Range
    <3> QED BY <2>5, <3>1, <3>6
  <2>7. Peaceful(v)
    <3> SUFFICES ASSUME NEW i \in DOMAIN universe, v[i], NEW j \in DOMAIN universe \ {i}, Excluded(i, j), v[j]
                 PROVE  FALSE
      BY DEF Peaceful
    <3>1. universe[i] \in S /\ universe[j] \in S /\ universe[i] # universe[j]
      BY <2>5
    <3> QED BY <2>1, <3>1 DEF Excluded
  <2>8. v[1]
    BY <1>1, <2>1, <2>5
  <2> QED BY <1>4, <2>4, <2>6, <2>7, <2>8
<1> QED BY <1>1, <1>3, <1>4, <1>6, <1>7

-----------------------------------------------------------------------------
(* The steps. *)

LEMMA SameRequest ==
  ASSUME request' = request
  PROVE  /\ Catalog' = Catalog /\ (Asking' <=> Asking)
         /\ \A p : Candidates(p)' = Candidates(p)
         /\ \A S : Answer(S)' <=> Answer(S)
<1>1. Catalog' = Catalog
  BY DEF Catalog
<1>2. \A p : IsInstalled(p)' <=> IsInstalled(p)
  BY DEF IsInstalled
<1>3. \A p : Wanted(p)' = Wanted(p)
  BY <1>2 DEF Wanted, BuildsHere
<1>4. AllVersions' = AllVersions /\ Providers' = Providers
  BY <1>1 DEF AllVersions, Providers
<1>5. \A p : Candidates(p)' = Candidates(p)
  BY <1>3, <1>4 DEF Candidates
<1> QED BY <1>1, <1>5 DEF Asking, Answer

LEMMA StillFormula ==
  FormulaRight /\ UNCHANGED <<solverVars, universe, request>> => FormulaRight'
<1> SUFFICES ASSUME FormulaRight, UNCHANGED <<solverVars, universe, request>> PROVE FormulaRight'
  OBVIOUS
<1>1. UNCHANGED <<num_vars, formula, trail, pc, universe, request>>
  BY DEF solverVars, clauseVars, valueVars
<1>2. Fitting' = Fitting /\ Catalog' = Catalog /\ \A S : Answer(S)' <=> Answer(S)
  BY <1>1, SameRequest DEF Fitting
<1>3. \A v : Chosen(v)' = Chosen(v)
  BY <1>1 DEF Chosen
<1> QED BY <1>1, <1>2, <1>3 DEF FormulaRight

LEMMA StillExplored ==
  ExploredRight /\ UNCHANGED <<request, queue, universe>> => ExploredRight'
BY SameRequest DEF ExploredRight

LEMMA StillExcluding ==
  ASSUME UNCHANGED universe
  PROVE  \A cs, n, S : Excludes(cs, n, S)' <=> Excludes(cs, n, S)
<1>1. \A v, name : OneOf(v, name)' <=> OneOf(v, name)
  BY DEF OneOf
<1> QED BY <1>1 DEF Excludes

\* Steps that only end something.
LEMMA EndingKeeps ==
  ASSUME ResolveInv,
         UNCHANGED <<solverVars, sortVars, request, queue, universe, encodeVars, installing>>,
         removed' \subseteq Names,
         phase' \in {phase, "failed"} \/ (phase = "sort" /\ SortEnded /\ phase' = "delivered")
  PROVE  ResolveInv'
<1> USE DEF ResolveInv
<1>1. UNCHANGED <<pc, verdict>> /\ UNCHANGED <<adj, calls, indices>>
  BY DEF solverVars, sortVars, searchVars
<1>2. IInv' /\ Early' /\ SortInv' /\ FormulaRight' /\ ExploredRight'
  BY SolverStill, EarlyStill, StillSorted, StillFormula, StillExplored
<1>3. Asking' /\ Catalog' = Catalog
  BY SameRequest
<1>4. SortEnded' <=> SortEnded
  BY <1>1 DEF SortEnded, Idx
<1>5. Phased'
  BY <1>1, <1>4 DEF Phased
<1>6. Kinds'
  BY <1>1, <1>3 DEF Kinds, encodeVars
<1>7. Excluding'
  BY StillExcluding DEF Excluding, encodeVars
<1> QED BY <1>2, <1>3, <1>5, <1>6, <1>7

LEMMA QueueFacts ==
  ASSUME NEW T, NEW s \in Seq(T), s # <<>>
  PROVE  /\ Head(s) \in T /\ Tail(s) \in Seq(T)
         /\ \A x : x \in Range(s) <=> x = Head(s) \/ x \in Range(Tail(s))
<1>1. Len(s) \in Nat /\ Len(s) > 0 /\ DOMAIN s = 1 .. Len(s) /\ Head(s) = s[1]
  OBVIOUS
<1>2. /\ Tail(s) \in Seq(T) /\ Len(Tail(s)) = Len(s) - 1 /\ DOMAIN Tail(s) = 1 .. Len(s) - 1
      /\ \A k \in 1 .. Len(s) - 1 : Tail(s)[k] = s[k + 1]
  BY <1>1
<1>3. ASSUME NEW x \in Range(s) PROVE x = Head(s) \/ x \in Range(Tail(s))
  <2>1. PICK k \in 1 .. Len(s) : s[k] = x
    BY <1>1, <1>3 DEF Range
  <2>2. CASE k = 1
    BY <1>1, <2>1, <2>2
  <2>3. CASE k # 1
    <3>1. k - 1 \in 1 .. Len(s) - 1 /\ k - 1 + 1 = k
      BY <1>1, <2>3
    <3>2. Tail(s)[k - 1] = x
      BY <1>2, <2>1, <3>1
    <3> QED BY <1>2, <3>1, <3>2 DEF Range
  <2> QED BY <2>2, <2>3
<1>4. ASSUME NEW x \in Range(Tail(s)) PROVE x \in Range(s)
  <2>1. PICK k \in 1 .. Len(s) - 1 : Tail(s)[k] = x
    BY <1>2, <1>4 DEF Range
  <2>2. k + 1 \in 1 .. Len(s) /\ s[k + 1] = x
    BY <1>1, <1>2, <2>1
  <2> QED BY <1>1, <2>2 DEF Range
<1>5. Head(s) \in Range(s) /\ Head(s) \in T
  BY <1>1 DEF Range
<1> QED BY <1>2, <1>3, <1>4, <1>5

\* What exploring leaves alone.
LEMMA ExploringKeeps ==
  ASSUME ResolveInv, phase = "explore", phase' = "explore", ExploredRight',
         UNCHANGED <<solverVars, sortVars, request, encodeVars, installing, removed>>
  PROVE  ResolveInv'
<1> USE DEF ResolveInv
<1>1. UNCHANGED <<pc, adj>> /\ pc = "idle"
  BY DEF solverVars, sortVars, Phased
<1>2. IInv' /\ Early' /\ SortInv'
  BY SolverStill, EarlyStill, StillSorted
<1>3. Asking' /\ Catalog' = Catalog
  BY SameRequest
<1>4. Phased' /\ FormulaRight' /\ Excluding'
  BY <1>1 DEF Phased, FormulaRight, Excluding
<1>5. Kinds'
  BY <1>1, <1>3 DEF Kinds, encodeVars
<1> QED BY <1>2, <1>3, <1>4, <1>5

LEMMA ExploreKeeps ==
  ASSUME ResolveInv, Explore
  PROVE  ResolveInv'
<1> USE DEF ResolveInv
<1>1. /\ phase = "explore" /\ queue # <<>> /\ phase' = phase
      /\ UNCHANGED <<solverVars, sortVars, request, encodeVars, installing, removed>>
      /\ Head(queue) \notin Range(universe)
      /\ universe' = Append(universe, Head(queue))
      /\ queue' = Tail(queue) \o Only(Candidates(Head(queue)), Catalog \ Range(universe'))
  BY DEF Explore, Exploring
<1>2. PICK h \in Catalog, rest \in Seq(Catalog) :
        h = Head(queue) /\ rest = Tail(queue) /\ \A x : x \in Range(queue) <=> x = h \/ x \in Range(rest)
  BY <1>1, QueueFacts DEF ExploredRight
<1>3. PICK n \in Nat : n = Len(universe) /\ DOMAIN universe = 1 .. n
  BY DEF ExploredRight
<1>4. PICK u \in Seq(Catalog) : /\ u = universe' /\ DOMAIN u = 1 .. n + 1 /\ u[n + 1] = h /\ u # <<>>
                                /\ \A i \in 1 .. n : u[i] = universe[i]
  <2>1. universe' = Append(universe, h) /\ universe \in Seq(Catalog)
    BY <1>1, <1>2 DEF ExploredRight
  <2> QED BY SMTT(60), <1>3, <2>1
<1>5. \A x : x \in Range(u) <=> x \in Range(universe) \/ x = h
  <2>1. \A i \in 1 .. n + 1 : i \in 1 .. n \/ i = n + 1
    BY <1>3
  <2>2. \A i \in 1 .. n : i \in 1 .. n + 1
    BY <1>3
  <2>3. n + 1 \in 1 .. n + 1
    BY <1>3
  <2>4. \A x : x \in Range(u) <=> \E i \in 1 .. n + 1 : u[i] = x
    BY <1>4 DEF Range
  <2>5. \A x : x \in Range(universe) <=> \E i \in 1 .. n : universe[i] = x
    BY <1>3 DEF Range
  <2> QED BY <1>4, <2>1, <2>2, <2>3, <2>4, <2>5
<1>6. PICK found \in Seq(Catalog) : found = Candidates(h)
  BY CandidatesFacts
<1>7. PICK r \in Seq(Catalog) :
        r = Only(found, Catalog \ Range(u)) /\ \A x : x \in Range(r) <=> x \in Range(found) /\ x \in Catalog \ Range(u)
  <2> DEFINE new == Catalog \ Range(u)
  <2>1. /\ Only(found, new) \in Seq(Catalog)
        /\ \A x : x \in Range(Only(found, new)) <=> x \in Range(found) /\ x \in new
    <3> HIDE DEF new
    <3> QED BY OnlyFacts
  <2> QED BY <2>1
<1>8. queue' = rest \o r /\ queue' \in Seq(Catalog) /\ \A x : x \in Range(queue') <=> x \in Range(rest) \/ x \in Range(r)
  <2>1. queue' = rest \o r
    BY <1>1, <1>2, <1>4, <1>6, <1>7
  <2>2. Range(rest \o r) = Range(rest) \cup Range(r)
    BY RangeConcatenation
  <2> QED BY <2>1, <2>2
<1>9. Catalog' = Catalog /\ \A p : Candidates(p)' = Candidates(p)
  BY <1>1, SameRequest
<1>10. ASSUME NEW i \in DOMAIN universe', NEW j \in DOMAIN universe', universe'[i] = universe'[j]
       PROVE  i = j
  <2>1. \A k \in 1 .. n : universe[k] # h
    BY <1>1, <1>2, <1>3 DEF Range
  <2>2. i \in 1 .. n + 1 /\ j \in 1 .. n + 1 /\ u[i] = u[j]
    BY <1>4, <1>10
  <2>3. CASE i \in 1 .. n /\ j \in 1 .. n
    BY <1>3, <1>4, <2>2, <2>3 DEF ExploredRight
  <2>4. CASE i = n + 1 \/ j = n + 1
    BY <1>4, <2>1, <2>2, <2>4
  <2> QED BY <2>2, <2>3, <2>4
<1>11. ASSUME NEW p \in Range(u), NEW q \in Range(Candidates(p))
       PROVE  q \in Range(u) \/ q \in Range(queue')
  <2>1. CASE p = h
    <3>1. q \in Range(found) /\ q \in Catalog
      BY <1>6, <1>11, <2>1 DEF Range
    <3> QED BY <1>7, <1>8, <3>1
  <2>2. CASE p # h
    <3>1. q \in Range(universe) \/ q \in Range(queue)
      BY <1>5, <1>11, <2>2 DEF ExploredRight
    <3> QED BY <1>2, <1>5, <1>8, <3>1
  <2> QED BY <2>1, <2>2
<1>12. u[1] = request.catalog[1]
  <2>1. CASE universe = <<>>
    <3>1. queue = <<request.catalog[1]>> /\ n = 0
      BY <1>3, <2>1 DEF ExploredRight
    <3>2. h = request.catalog[1]
      BY <1>2, <3>1
    <3> QED BY <1>4, <3>1, <3>2
  <2>2. CASE universe # <<>>
    <3>1. 1 \in 1 .. n
      BY <1>3, <2>2 DEF ExploredRight
    <3> QED BY <1>4, <2>2, <3>1 DEF ExploredRight
  <2> QED BY <2>1, <2>2
<1>13. ExploredRight'
  BY <1>1, <1>4, <1>8, <1>9, <1>10, <1>11, <1>12 DEF ExploredRight
<1> QED BY <1>1, <1>13, ExploringKeeps

LEMMA SkipKnownKeeps ==
  ASSUME ResolveInv, SkipKnown
  PROVE  ResolveInv'
<1> USE DEF ResolveInv
<1>1. /\ phase = "explore" /\ queue # <<>> /\ phase' = phase
      /\ UNCHANGED <<solverVars, sortVars, request, universe, encodeVars, installing, removed>>
      /\ Head(queue) \in Range(universe)
      /\ queue' = Tail(queue)
  BY DEF SkipKnown, Exploring
<1>2. /\ Head(queue) \in Catalog /\ Tail(queue) \in Seq(Catalog)
      /\ \A x : x \in Range(queue) <=> x = Head(queue) \/ x \in Range(Tail(queue))
  BY <1>1, QueueFacts DEF ExploredRight
<1>3. Catalog' = Catalog /\ \A p : Candidates(p)' = Candidates(p)
  BY <1>1, SameRequest
<1>4. universe # <<>>
  BY <1>1 DEF Range
<1>5. ExploredRight'
  BY <1>1, <1>2, <1>3, <1>4 DEF ExploredRight
<1> QED BY <1>1, <1>5, ExploringKeeps

LEMMA ExploredKeeps ==
  ASSUME ResolveInv, Explored
  PROVE  ResolveInv'
<1> USE DEF ResolveInv
<1>1. /\ phase = "explore" /\ queue = <<>> /\ phase' = "exclude"
      /\ names' = {n \in Names : Len(VariablesOf(n)) > 1}
      /\ encoded' = [vars |-> Len(universe), clauses |-> <<>>]
      /\ UNCHANGED <<solverVars, sortVars, request, queue, universe, installing, removed>>
  BY DEF Explored
<1>2. UNCHANGED <<pc, verdict, adj>> /\ pc = "idle"
  BY <1>1 DEF solverVars, sortVars, Phased
<1>3. IInv' /\ Early' /\ SortInv' /\ FormulaRight' /\ ExploredRight'
  BY <1>1, SolverStill, EarlyStill, StillSorted, StillFormula, StillExplored
<1>4. Asking' /\ Catalog' = Catalog
  BY <1>1, SameRequest
<1>5. encoded'.vars = Len(universe) /\ encoded'.clauses = <<>>
  BY <1>1
<1>6. Excludes(encoded'.clauses, encoded'.vars, names')
  BY <1>1, <1>5, NothingExcludes DEF ExploredRight
<1>7. Excluding'
  BY <1>1, <1>6, StillExcluding DEF Excluding
<1>8. universe # <<>>
  BY <1>1 DEF ExploredRight
<1>9. Phased'
  BY <1>1, <1>2, <1>8 DEF Phased
<1>10. Kinds'
  <2>1. names' \subseteq Names /\ encoded'.vars \in Nat /\ Clausal(encoded'.clauses, encoded'.vars)
    BY <1>1, <1>6 DEF Excludes
  <2>2. encoded' = [vars |-> encoded'.vars, clauses |-> encoded'.clauses]
    BY <1>1
  <2> QED BY <1>1, <1>2, <1>4, <2>1, <2>2 DEF Kinds, Clausal
<1> QED BY <1>3, <1>4, <1>7, <1>9, <1>10

LEMMA ExcludeKeeps ==
  ASSUME ResolveInv, Exclude
  PROVE  ResolveInv'
<1> USE DEF ResolveInv
<1>1. PICK name \in names :
        /\ phase = "exclude" /\ phase' = phase /\ names' = names \ {name}
        /\ encoded' =
             IF Len(VariablesOf(name)) <= 4
             THEN [encoded EXCEPT !.clauses = @ \o Pairwise(VariablesOf(name))]
             ELSE [vars    |-> encoded.vars + Len(VariablesOf(name)) - 1,
                   clauses |-> encoded.clauses \o SequentialCounter(VariablesOf(name), encoded.vars)]
        /\ UNCHANGED <<solverVars, sortVars, request, queue, universe, installing, removed>>
  BY DEF Exclude
<1>2. UNCHANGED <<pc, verdict, adj>>
  BY <1>1 DEF solverVars, sortVars
<1>3. IInv' /\ Early' /\ SortInv' /\ FormulaRight' /\ ExploredRight'
  BY <1>1, SolverStill, EarlyStill, StillSorted, StillFormula, StillExplored
<1>4. Asking' /\ Catalog' = Catalog
  BY <1>1, SameRequest
<1>5. name \in Names /\ Excludes(encoded.clauses, encoded.vars, names) /\ universe \in Seq(Catalog)
  BY <1>1 DEF Kinds, Excluding, ExploredRight
<1>6. /\ encoded' = [vars |-> encoded'.vars, clauses |-> encoded'.clauses]
      /\ Excludes(encoded'.clauses, encoded'.vars, names')
  <2>1. VariablesOf(name) \in Seq(1 .. Len(universe))
    BY <1>5, VariablesFacts
  <2>2. Len(VariablesOf(name)) \in Nat
    BY <2>1
  <2>3. encoded = [vars |-> encoded.vars, clauses |-> encoded.clauses]
    BY DEF Kinds
  <2>4. CASE Len(VariablesOf(name)) <= 4
    <3>1. encoded' = [vars |-> encoded.vars, clauses |-> encoded.clauses \o Pairwise(VariablesOf(name))]
      BY <1>1, <2>3, <2>4
    <3>2. encoded'.vars = encoded.vars /\ encoded'.clauses = encoded.clauses \o Pairwise(VariablesOf(name))
      BY <3>1
    <3>3. Excludes(encoded.clauses \o Pairwise(VariablesOf(name)), encoded.vars, names \ {name})
      BY <1>5, PairsExclude
    <3> QED BY <1>1, <3>1, <3>2, <3>3, Zenon
  <2>5. CASE ~(Len(VariablesOf(name)) <= 4)
    <3>1. encoded' = [vars    |-> encoded.vars + Len(VariablesOf(name)) - 1,
                      clauses |-> encoded.clauses \o SequentialCounter(VariablesOf(name), encoded.vars)]
      BY <1>1, <2>5
    <3>2. /\ encoded'.vars = encoded.vars + Len(VariablesOf(name)) - 1
          /\ encoded'.clauses = encoded.clauses \o SequentialCounter(VariablesOf(name), encoded.vars)
      BY <3>1
    <3>3. Len(VariablesOf(name)) > 1
      BY <2>2, <2>5
    <3>4. Excludes(encoded.clauses \o SequentialCounter(VariablesOf(name), encoded.vars),
                   encoded.vars + Len(VariablesOf(name)) - 1, names \ {name})
      BY <1>5, <3>3, CounterExcludesToo
    <3> QED BY <1>1, <3>1, <3>2, <3>4, Zenon
  <2> QED BY <2>4, <2>5
<1>7. Excluding'
  BY <1>1, <1>6, StillExcluding DEF Excluding
<1>8. Phased'
  BY <1>1, <1>2 DEF Phased
<1>9. Kinds'
  <2>1. names' \subseteq Names /\ encoded'.vars \in Nat /\ Clausal(encoded'.clauses, encoded'.vars)
    BY <1>1, <1>6 DEF Excludes, Kinds
  <2> QED BY <1>1, <1>2, <1>4, <1>6, <2>1 DEF Kinds, Clausal
<1> QED BY <1>3, <1>4, <1>7, <1>8, <1>9

LEMMA EncodeKeeps ==
  ASSUME ResolveInv, Encode
  PROVE  ResolveInv'
<1> USE DEF ResolveInv
<1>1. /\ phase = "exclude" /\ names = {} /\ phase' = "solve"
      /\ Start(encoded.vars, 1, encoded.clauses \o PackageClauses)
      /\ UNCHANGED <<sortVars, request, queue, universe, encodeVars, installing, removed>>
  BY DEF Encode
<1>2. queue = <<>> /\ universe # <<>> /\ Excludes(encoded.clauses, encoded.vars, {})
  BY <1>1 DEF Phased, Excluding
<1>3. PICK n, cs : n = encoded.vars /\ cs = encoded.clauses \o PackageClauses
  OBVIOUS
<1>4. /\ Len(universe) \in 1 .. n /\ n \in Nat /\ Clausal(cs, n)
      /\ \A v \in Valuations(n) : v[1] /\ Satisfying(v, cs) => Answer(Chosen(v))
      /\ \A S \in SUBSET Catalog : Answer(S) => \E v \in Valuations(n) : v[1] /\ Satisfying(v, cs)
  BY <1>2, <1>3, EncodedRight DEF Kinds
<1>5. Start(n, 1, cs) /\ 1 \in 1 .. n /\ cs \in Seq(SUBSET Literals(n))
  <2>1. 1 \in 1 .. n
    BY <1>4
  <2> QED BY <1>1, <1>3, <1>4, <2>1 DEF Clausal
<1>6. IInv' /\ Early'
  BY <1>4, <1>5, StartKeeps, EarlyStart
<1>7. SortInv' /\ ExploredRight'
  BY <1>1, StillSorted, StillExplored
<1>8. Asking' /\ Catalog' = Catalog /\ \A S : Answer(S)' <=> Answer(S)
  BY <1>1, SameRequest
<1>9. /\ num_vars' = n /\ formula' = cs /\ trail' = <<1>>
  BY <1>5 DEF Start
<1>10. \A v : v \in Fitting' <=> v \in Valuations(n) /\ v[1] /\ Satisfying(v, cs)
  <2>1. trail'[1] = 1 /\ \A v : Holds(v, 1) <=> v[1]
    BY <1>9 DEF Holds
  <2> QED BY <1>9, <2>1 DEF Fitting, Valuations
<1>11. \A v : Chosen(v)' = Chosen(v)
  BY <1>1 DEF Chosen
<1>12. FormulaRight'
  BY <1>1, <1>4, <1>8, <1>9, <1>10, <1>11 DEF FormulaRight
<1>13. Phased' /\ Excluding'
  BY <1>1 DEF Phased, Excluding
<1>14. Kinds'
  BY <1>1, <1>8 DEF Kinds, encodeVars, sortVars
<1> QED BY <1>6, <1>7, <1>8, <1>12, <1>13, <1>14

\* Nothing is done in the solver after its verdict.
LEMMA SolvingPhase ==
  ASSUME ResolveInv, SolverStep
  PROVE  pc # "done" /\ pc # "idle" /\ verdict = "none" /\ phase \in {"solve", "failed"}
<1> USE DEF ResolveInv
<1>1. pc # "done" /\ pc # "idle"
  BY DEF SolverStep, AddSatisfied, AddFalse, AddUnit, AddWatched, AllAdded, Interrupted, Propagate,
         NextLiteral, BlockerTrue, FirstTrue, MoveWatch, Imply, FindConflict, EntriesDone, FoundModel,
         Decide, Refuse, Adding, Watching, Looking, Stuck, AtFixpoint
<1>2. verdict = "none"
  BY <1>1 DEF IInv, Phases
<1> QED BY <1>1, <1>2 DEF Phased

LEMMA SolveKeeps ==
  ASSUME ResolveInv, SolverStep, UNCHANGED <<resolveVars, sortVars>>
  PROVE  ResolveInv'
<1> USE DEF ResolveInv
<1>1. UNCHANGED <<request, phase, queue, universe, encodeVars, names, encoded, installing, removed, sortVars, adj>>
  BY DEF resolveVars, encodeVars, sortVars
<1>2. pc # "idle" /\ phase \in {"solve", "failed"}
  BY SolvingPhase
<1>3. IInv' /\ Early' /\ SortInv' /\ ExploredRight'
  BY <1>1, SolverStepKeeps, EarlyStep, StillSorted, StillExplored
<1>4. Asking' /\ Catalog' = Catalog /\ \A S : Answer(S)' <=> Answer(S)
  BY <1>1, SameRequest
<1>5. /\ Fitting' = Fitting /\ num_vars' = num_vars
      /\ Len(trail) > 0 /\ trail \in Seq(Lits) /\ (trail' = trail \/ \E l : trail' = Append(trail, l))
  BY SameFitting
<1>6. trail'[1] = trail[1]
  BY <1>5
<1>7. \A v : Chosen(v)' = Chosen(v)
  BY <1>1 DEF Chosen
<1>8. FormulaRight'
  BY <1>1, <1>2, <1>4, <1>5, <1>6, <1>7 DEF FormulaRight
<1>9. Phased' /\ Excluding'
  BY <1>1, <1>2 DEF Phased, Excluding
<1>10. Kinds'
  BY <1>1, <1>4 DEF Kinds
<1> QED BY <1>3, <1>4, <1>8, <1>9, <1>10

LEMMA AssignedFacts ==
  ASSUME ResolveInv
  PROVE  /\ Assigned \in Seq(Catalog)
         /\ \A p : p \in Range(Assigned) <=> \E i \in DOMAIN universe : universe[i] = p /\ i \in Range(trail)
<1> USE DEF ResolveInv
<1>1. PICK n \in Nat : n = Len(universe) /\ DOMAIN universe = 1 .. n /\ \A i \in 1 .. n : universe[i] \in Catalog
  BY DEF ExploredRight
<1>2. PICK t \in Seq(Lits) : t = trail
  BY DEF IInv, Types, ValueTypes
<1>3. PICK s \in Seq(1 .. n) : s = Only(trail, DOMAIN universe) /\ \A x : x \in Range(s) <=> x \in Range(t) /\ x \in 1 .. n
  <2>1. /\ Only(t, 1 .. n) \in Seq(1 .. n)
        /\ \A x : x \in Range(Only(t, 1 .. n)) <=> x \in Range(t) /\ x \in 1 .. n
    BY OnlyFacts
  <2> QED BY <1>1, <1>2, <2>1
<1>4. PICK m \in Nat : m = Len(s) /\ DOMAIN s = 1 .. m /\ \A k \in 1 .. m : s[k] \in 1 .. n
  BY SMTT(60), <1>3
<1>5. Assigned = [k \in 1 .. m |-> universe[s[k]]]
  BY <1>3, <1>4 DEF Assigned
<1>6. \A k \in 1 .. m : universe[s[k]] \in Catalog
  BY <1>1, <1>4
<1>7. PICK a \in Seq(Catalog) : a = Assigned /\ DOMAIN a = 1 .. m /\ \A k \in 1 .. m : a[k] = universe[s[k]]
  <2>1. Assigned = [k \in 1 .. m |-> Assigned[k]] /\ \A k \in 1 .. m : Assigned[k] = universe[s[k]]
    BY <1>5
  <2>2. Assigned \in Seq(Catalog) /\ DOMAIN Assigned = 1 .. m
    BY <1>6, <2>1, Listed
  <2> QED BY <2>1, <2>2
<1>8. \A p : p \in Range(a) <=> \E k \in 1 .. m : universe[s[k]] = p
  BY <1>7 DEF Range
<1>9. \A x : x \in Range(s) <=> \E k \in 1 .. m : s[k] = x
  BY <1>4 DEF Range
<1> QED BY <1>1, <1>2, <1>3, <1>7, <1>8, <1>9

LEMMA DeliverKeeps ==
  ASSUME ResolveInv, Deliver
  PROVE  ResolveInv'
<1> USE DEF ResolveInv
<1>1. /\ phase = "solve" /\ verdict = "model" /\ phase' = "sort"
      /\ installing' = Only(Assigned, {p \in Catalog : ~IsInstalled(p)})
      /\ removed' = Obsoleted
      /\ BeginSort(Adjacency(installing'))
      /\ UNCHANGED <<solverVars, request, queue, universe, encodeVars>>
  BY DEF Deliver
<1>2. UNCHANGED <<pc, verdict>> /\ adj' = Adjacency(installing')
  BY <1>1 DEF solverVars, BeginSort
<1>3. IInv' /\ Early' /\ FormulaRight' /\ ExploredRight'
  BY <1>1, SolverStill, EarlyStill, StillFormula, StillExplored
<1>4. Asking' /\ Catalog' = Catalog
  BY <1>1, SameRequest
<1>5. PICK a \in Seq(Catalog) : a = Assigned
  BY AssignedFacts
<1>6. installing' \in Seq(Catalog)
  BY <1>1, <1>5, OnlyFacts
<1>7. removed' \subseteq Names
  <2>1. \A p \in Range(a) : p \in Catalog
    BY DEF Range
  <2>2. \A p \in Range(a) : p.obsoletes \subseteq Names
    BY <2>1, CatalogFacts, PackageFacts
  <2> QED BY <1>1, <1>5, <2>2 DEF Obsoleted
<1>8. SortInv'
  <2> DEFINE g == Adjacency(installing')
  <2>1. g \in [DOMAIN g -> SUBSET DOMAIN g]
    BY DEF Adjacency
  <2> HIDE DEF g
  <2>2. BeginSort(g)
    BY <1>1 DEF g
  <2> QED BY <2>1, <2>2, BeginSorts
<1>9. Phased' /\ Excluding'
  BY <1>1, <1>2 DEF Phased, Excluding
<1>10. Kinds'
  BY <1>1, <1>2, <1>4, <1>6, <1>7 DEF Kinds, encodeVars
<1> QED BY <1>3, <1>4, <1>8, <1>9, <1>10

LEMMA SortKeeps ==
  ASSUME ResolveInv, Sort
  PROVE  ResolveInv'
<1> USE DEF ResolveInv
<1>1. /\ phase = "sort" /\ SortStep
      /\ UNCHANGED <<solverVars, request, phase, queue, universe, encodeVars, names, encoded, installing, removed>>
  BY DEF Sort, resolveVars, encodeVars
<1>2. UNCHANGED <<pc, verdict, adj>>
  BY <1>1 DEF solverVars, SortStep, NextRoot, Descend, LookAt, Leave, Enter
<1>3. IInv' /\ Early' /\ FormulaRight' /\ ExploredRight' /\ SortInv'
  BY <1>1, SolverStill, EarlyStill, StillFormula, StillExplored, SortStepKeeps
<1>4. Asking' /\ Catalog' = Catalog
  BY <1>1, SameRequest
<1>5. Phased' /\ Excluding'
  BY <1>1, <1>2 DEF Phased, Excluding
<1>6. Kinds'
  BY <1>1, <1>2, <1>4 DEF Kinds
<1> QED BY <1>3, <1>4, <1>5, <1>6

LEMMA InitResolves == Init => ResolveInv
<1> SUFFICES ASSUME Init PROVE ResolveInv
  OBVIOUS
<1> USE DEF Init
<1>1. IInv /\ Early /\ SortInv
  BY InitHolds, InitSorts DEF SolverInit, Early
<1>2. Asking
  BY DEF Asking
<1>3. request.catalog[1] \in Catalog
  BY <1>2, CatalogFacts
<1>4. ExploredRight
  BY <1>3 DEF ExploredRight, Range
<1>5. pc = "idle" /\ adj = <<>>
  BY DEF SolverInit, SortInit
<1>6. Excluding /\ FormulaRight /\ Phased
  BY <1>5 DEF Excluding, FormulaRight, Phased
<1>7. Adjacency(<<>>) = <<>>
  BY DEF Adjacency
<1>8. encoded.vars = 0 /\ encoded.clauses = <<>>
  OBVIOUS
<1>9. Kinds
  BY <1>5, <1>7, <1>8 DEF Kinds, Clausal
<1> QED BY <1>1, <1>2, <1>4, <1>6, <1>9 DEF ResolveInv

LEMMA NextResolves == ResolveInv /\ [Next]_vars => ResolveInv'
<1> SUFFICES ASSUME ResolveInv, [Next]_vars PROVE ResolveInv'
  OBVIOUS
<1>1. CASE Explore
  BY <1>1, ExploreKeeps
<1>2. CASE SkipKnown
  BY <1>2, SkipKnownKeeps
<1>3. CASE Explored
  BY <1>3, ExploredKeeps
<1>4. CASE Exclude
  BY <1>4, ExcludeKeeps
<1>5. CASE Encode
  BY <1>5, EncodeKeeps
<1>6. CASE SolverStep /\ UNCHANGED <<resolveVars, sortVars>>
  BY <1>6, SolveKeeps
<1>7. CASE Deliver
  BY <1>7, DeliverKeeps
<1>8. CASE Sort
  BY <1>8, SortKeeps
<1>9. CASE RemovalFails
  <2>1. /\ UNCHANGED <<solverVars, sortVars, request, queue, universe, encodeVars, installing>>
        /\ phase' = "failed"
    BY <1>9 DEF RemovalFails
  <2>2. removed' \subseteq Obsoleted
    BY <1>9 DEF RemovalFails
  <2>3. Obsoleted \subseteq Names
    <3>1. \A p \in Range(Assigned) : p \in Catalog
      BY AssignedFacts DEF Range
    <3>2. \A p \in Range(Assigned) : p.obsoletes \subseteq Names
      BY <3>1, CatalogFacts, PackageFacts DEF ResolveInv
    <3> QED BY <3>2 DEF Obsoleted
  <2> QED BY <2>1, <2>2, <2>3, EndingKeeps
<1>10. CASE Fail
  BY <1>10, EndingKeeps DEF Fail, ResolveInv, Kinds
<1>11. CASE Return
  BY <1>11, EndingKeeps DEF Return, ResolveInv, Kinds
<1>12. CASE Interrupt
  BY <1>12, EndingKeeps DEF Interrupt, ResolveInv, Kinds
<1>13. CASE UNCHANGED vars
  BY <1>13, EndingKeeps DEF vars, resolveVars, ResolveInv, Kinds
<1> QED BY <1>1, <1>2, <1>3, <1>4, <1>5, <1>6, <1>7, <1>8, <1>9, <1>10, <1>11, <1>12, <1>13
        DEF Next, Solving, Returned

-----------------------------------------------------------------------------
(* The theorems. *)

\* Nothing is missing from what was explored, and the clauses say what the manifests
\* say, while the solver and the sort keep their own invariants (solver.rs:763-946).
THEOREM ResolveInvariant == Spec => []ResolveInv
BY InitResolves, NextResolves, PTL DEF Spec

\* The resolver's state is well formed (solver.rs:763-946).
THEOREM ResolveTypeCorrect == Spec => []TypeOK
<1>1. ResolveInv => TypeOK
  <2> SUFFICES ASSUME ResolveInv PROVE TypeOK
    OBVIOUS
  <2>1. DOMAIN Adjacency(installing) = DOMAIN installing
    BY DEF Adjacency
  <2>2. SolverTypeOK /\ SortTypeOK
    BY TypeParts DEF ResolveInv, IInv, SortInv
  <2>3. order \in Seq(DOMAIN installing)
    BY <2>1, <2>2 DEF SortTypeOK, Idx, ResolveInv, Kinds
  <2> QED BY <2>2, <2>3 DEF TypeOK, ResolveInv, ExploredRight, Kinds, Phased, Clausal
<1> QED BY <1>1, ResolveInvariant, PTL

\* A model is one of the valuations that fit.
LEMMA ModelFits ==
  ASSUME ResolveInv, verdict = "model"
  PROVE  \E v \in Fitting : Chosen(v) = Range(Assigned)
<1> USE DEF ResolveInv
<1>1. pc = "done" /\ pc # "idle"
  BY DEF IInv, Phases
<1>2. /\ Len(universe) \in 1 .. num_vars /\ trail[1] = 1
      /\ num_vars \in Nat /\ DOMAIN universe = 1 .. Len(universe)
  BY <1>1 DEF FormulaRight, IInv, Types, ClauseTypes, ExploredRight
<1> DEFINE v == [i \in 1 .. num_vars |-> assignment[i] = True]
<1>3. v \in [1 .. num_vars -> BOOLEAN] /\ \A i \in 1 .. num_vars : v[i] <=> assignment[i] = True
  <2>1. \A i \in 1 .. num_vars : (assignment[i] = True) \in BOOLEAN
    OBVIOUS
  <2>2. v \in [1 .. num_vars -> BOOLEAN]
    BY <2>1, Zenon
  <2>3. \A i \in 1 .. num_vars : v[i] = (assignment[i] = True)
    BY Zenon
  <2> QED BY <2>2, <2>3
<1> HIDE DEF v
<1>4. ASSUME NEW l \in Lits, Value(l) = True PROVE Holds(v, l)
  <2>1. l \in Int /\ (l > 0 => l \in 1 .. num_vars) /\ (~(l > 0) => -l \in 1 .. num_vars)
    BY <1>2 DEF Lits, Literals
  <2>2. CASE l > 0
    BY <1>3, <1>4, <2>1, <2>2 DEF Holds, Value
  <2>3. CASE ~(l > 0)
    <3>1. -assignment[-l] = 1 /\ -l \in 1 .. num_vars
      BY <1>4, <2>1, <2>3 DEF Value, True
    <3>2. assignment[-l] # 1
      BY <3>1
    <3> QED BY <1>3, <2>3, <3>1, <3>2 DEF Holds, True
  <2> QED BY <2>2, <2>3
<1>5. \A k \in DOMAIN formula : \A l \in formula[k] : l \in Lits
  BY DEF IInv, Types, ClauseTypes
<1>6. Satisfying(v, formula)
  BY <1>4, <1>5 DEF IInv, ModelSatisfies, Satisfying
<1>7. /\ \A l \in Lits : Value(l) = True <=> l \in Range(trail)
      /\ trail \in Seq(Lits) /\ Len(trail) > 0
  <2>1. trail \in Seq(Lits) /\ Len(trail) > 0
    BY <1>1 DEF IInv, Types, ValueTypes, Early
  <2> QED BY <2>1 DEF IInv, TrailKnown, Range
<1>8. trail[1] \in Lits /\ Value(trail[1]) = True
  <2>1. 1 \in DOMAIN trail
    BY <1>7
  <2> QED BY <1>7, <2>1 DEF Range
<1>9. v \in Fitting
  BY <1>3, <1>4, <1>6, <1>8 DEF Fitting
<1>10. \A i \in 1 .. Len(universe) : v[i] <=> i \in Range(trail)
  <2> TAKE i \in 1 .. Len(universe)
  <2>1. i \in 1 .. num_vars /\ i \in Lits /\ i > 0
    BY <1>2 DEF Lits, Literals
  <2>2. Value(i) = assignment[i]
    BY <2>1 DEF Value
  <2> QED BY <1>3, <1>7, <2>1, <2>2
<1>11. \A p : p \in Chosen(v) <=> \E i \in DOMAIN universe : universe[i] = p /\ i \in Range(trail)
  BY <1>2, <1>10 DEF Chosen
<1>12. \A p : p \in Chosen(v) <=> p \in Range(Assigned)
  BY <1>11, AssignedFacts
<1>13. Chosen(v) = Range(Assigned)
  <2> HIDE DEF ResolveInv
  <2>1. \A S, T : (\A p : p \in S <=> p \in T) => S = T
    OBVIOUS
  <2> QED BY <1>12, <2>1, Zenon
<1> QED BY <1>9, <1>13

\* What is installed is a consistent answer to the request: every constraint of every
\* manifest became a clause, and all that could be needed was explored
\* (solver.rs:778-912, solver.rs:920-930).
THEOREM ChoiceIsConsistent == Spec => []ChoiceConsistent
<1>1. ResolveInv => ChoiceConsistent
  <2> SUFFICES ASSUME ResolveInv, phase = "delivered" PROVE Answer(Range(Assigned))
    BY DEF ChoiceConsistent
  <2>1. verdict = "model" /\ pc # "idle"
    BY DEF ResolveInv, Phased, IInv, Phases
  <2> QED BY <2>1, ModelFits DEF ResolveInv, FormulaRight
<1> QED BY <1>1, ResolveInvariant, PTL

\* A conflict at the base level is real: no packages of the catalog, explored or not,
\* satisfy the request (solver.rs:778-912).
THEOREM EarlyConflictIsReal == Spec => []EarlyConflictReal
<1>1. ResolveInv => EarlyConflictReal
  <2> SUFFICES ASSUME ResolveInv, verdict = "conflict", levels = 1, NEW S \in SUBSET Catalog
               PROVE  ~Answer(S)
    BY DEF EarlyConflictReal
  <2>1. pc # "idle"
    BY DEF ResolveInv, IInv, Phases
  <2>2. Fitting = {}
    BY <2>1 DEF ResolveInv, Early
  <2> QED BY <2>1, <2>2 DEF ResolveInv, FormulaRight
<1> QED BY <1>1, ResolveInvariant, PTL

\* The packages are sorted when they are delivered.
LEMMA DeliveredRight == ResolveInv /\ phase = "delivered" => SortRight /\ adj = chosenDeps
BY EndedIsRight DEF ResolveInv, Phased, Kinds, chosenDeps

\* Every package chosen is in the order, once (solver.rs:944-945).
THEOREM OrderListsAll == Spec => []OrderIsPermutation
<1>1. ResolveInv => OrderIsPermutation
  BY DeliveredRight DEF OrderIsPermutation, SortRight
<1> QED BY <1>1, ResolveInvariant, PTL

\* A package comes after what it depends on, circles apart (solver.rs:612-745).
THEOREM OrderLeads == Spec => []DependenciesFirst
<1>1. ResolveInv => DependenciesFirst
  BY DeliveredRight DEF DependenciesFirst, SortRight
<1> QED BY <1>1, ResolveInvariant, PTL

\* The packages of a circle come one after the other (solver.rs:612-745).
THEOREM OrderGroups == Spec => []CyclesGrouped
<1>1. ResolveInv => CyclesGrouped
  BY DeliveredRight DEF CyclesGrouped, SortRight
<1> QED BY <1>1, ResolveInvariant, PTL
=============================================================================
