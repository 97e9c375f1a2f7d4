--------------------------- MODULE DependencySort ---------------------------
(***************************************************************************)
(* `tarjan_topological_sort' of solver.rs: a depth-first search over the   *)
(* dependencies of the chosen packages that finds the circles among them,  *)
(* what a package depends on before the package.  One neighbour is looked   *)
(* at in a step; the recursion of strongconnect is a stack of calls.       *)
(*                                                                         *)
(* Places are counted from 1, and so are the numbers given to them.        *)
(***************************************************************************)
EXTENDS InstallOrder

VARIABLES
  adj,
  index,    \* the next number
  indices,  \* the number of each place, 0 for None
  lowlinks,
  stack,    \* on_stack[v] says that v is in it
  calls,    \* the places strongconnect was called for, the innermost call last
  left,     \* of each place the neighbours it has not looked at
  order     \* the components found, one after the other

searchVars == <<index, indices, lowlinks, stack, calls, left, order>>
sortVars == <<adj, searchVars>>

Idx == DOMAIN adj

SortInit ==
  /\ adj = <<>> /\ index = 1 /\ indices = <<>> /\ lowlinks = <<>>
  /\ stack = <<>> /\ calls = <<>> /\ left = <<>> /\ order = <<>>

BeginSort(g) ==
  /\ adj' = g
  /\ index' = 1
  /\ indices' = [i \in DOMAIN g |-> 0]
  /\ lowlinks' = [i \in DOMAIN g |-> 0]
  /\ stack' = <<>> /\ calls' = <<>> /\ left' = g /\ order' = <<>>

\* The beginning of strongconnect.
Enter(v) ==
  /\ indices' = [indices EXCEPT ![v] = index]
  /\ lowlinks' = [lowlinks EXCEPT ![v] = index]
  /\ index' = index + 1
  /\ stack' = Append(stack, v)
  /\ calls' = Append(calls, v)
  /\ UNCHANGED <<adj, order>>

\* The first place without a number is searched from.
NextRoot ==
  /\ calls = <<>>
  /\ \E v \in Idx : /\ indices[v] = 0
                    /\ \A u \in Idx : indices[u] = 0 => v <= u
                    /\ Enter(v)
  /\ UNCHANGED left

Searching == calls # <<>>
Current == calls[Len(calls)]

\* Neighbours are looked at in the order of their places.
NextNeighbour(w) ==
  /\ Searching
  /\ w \in left[Current]
  /\ \A u \in left[Current] : w <= u
  /\ left' = [left EXCEPT ![Current] = @ \ {w}]

Descend ==
  \E w \in Idx : NextNeighbour(w) /\ indices[w] = 0 /\ Enter(w)

\* Mutant: the search forgets that it met an earlier place.
NeverLower(v, by) == lowlinks

Lower(v, by) == [lowlinks EXCEPT ![v] = IF by < @ THEN by ELSE @]

OnStack(w) == \E k \in DOMAIN stack : stack[k] = w

LookAt ==
  /\ \E w \in Idx :
       /\ NextNeighbour(w)
       /\ indices[w] # 0
       /\ lowlinks' = IF OnStack(w) THEN Lower(Current, indices[w]) ELSE lowlinks
  /\ UNCHANGED <<adj, index, indices, stack, calls, order>>

\* Mutants: the whole stack is popped; the place itself is left on it.
KeepNone(v) == 0
KeepPlace(v) == CHOOSE k \in DOMAIN stack : stack[k] = v

\* How much of the stack is below v.
Kept(v) == (CHOOSE k \in DOMAIN stack : stack[k] = v) - 1

\* A component is complete: the place entered last comes first.
PopComponent(v) ==
  /\ order' = order \o [k \in 1 .. Len(stack) - Kept(v) |-> stack[Len(stack) + 1 - k]]
  /\ stack' = SubSeq(stack, 1, Kept(v))

\* strongconnect is done with its neighbours and returns to the caller, if it has one.
Leave ==
  /\ Searching
  /\ left[Current] = {}
  /\ \/ lowlinks[Current] = indices[Current] /\ PopComponent(Current)
     \/ lowlinks[Current] # indices[Current] /\ UNCHANGED <<stack, order>>
  /\ calls' = SubSeq(calls, 1, Len(calls) - 1)
  /\ lowlinks' = IF Len(calls) > 1 THEN Lower(calls[Len(calls) - 1], lowlinks[Current]) ELSE lowlinks
  /\ UNCHANGED <<adj, index, indices, left>>

SortStep == NextRoot \/ Descend \/ LookAt \/ Leave

\* Nothing is left to search from.
SortEnded == calls = <<>> /\ \A v \in Idx : indices[v] # 0

\* The sort of any packages, called any number of times.
SortNext ==
  \/ \E n \in Nat : \E g \in [1 .. n -> SUBSET (1 .. n)] : BeginSort(g)
  \/ SortStep

SortSpec == SortInit /\ [][SortNext]_sortVars

-----------------------------------------------------------------------------
(* Correctness. *)

SortTypeOK ==
  /\ adj \in [Idx -> SUBSET Idx]
  /\ index \in Nat \ {0}
  /\ indices \in [Idx -> 0 .. index - 1]
  /\ lowlinks \in [Idx -> 0 .. index - 1]
  /\ stack \in Seq(Idx)
  /\ calls \in Seq(Idx)
  /\ left \in [Idx -> SUBSET Idx]
  /\ order \in Seq(Idx)

\* The order keeps the promise.
SortRight == ListsAll(adj, order) /\ DependenciesLead(adj, order) /\ CyclesTogether(adj, order)
=============================================================================
