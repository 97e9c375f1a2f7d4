---------------------------- MODULE InstallOrder ----------------------------
(***************************************************************************)
(* What depends on what among the packages the solver chose, and what the  *)
(* order they are built and installed in promises.  An assignment is a     *)
(* sequence of packages, and an order a sequence of places in it.          *)
(***************************************************************************)
EXTENDS Packages, Sequences, FiniteSets

IsDirectDep(p, q) ==
  \/ \E d \in Requirements(p) : d.name = q.name /\ MeetsConstraint(q.version, d)
  \* Unlike the solver's clauses (Satisfies), a provided name counts only when
  \* q's own version meets the constraint, and never for a makedepends entry.
  \/ \E d \in p.deps : d.name \in q.provides /\ MeetsConstraint(q.version, d)

\* What the package at each place depends on.
Adjacency(assignment) ==
  LET Idx == DOMAIN assignment
  IN  [i \in Idx |-> {j \in Idx \ {i} : IsDirectDep(assignment[i], assignment[j])}]

\* T holds what its members depend on.
Closed(g, T) == \A i \in T : g[i] \subseteq T

\* From i the dependencies lead to j: whatever holds i and is closed holds j.
Reaches(g, i, j) == \A T \in SUBSET DOMAIN g : i \in T /\ Closed(g, T) => j \in T

\* i and j are the same or depend on each other.
Together(g, i, j) == Reaches(g, i, j) /\ Reaches(g, j, i)

-----------------------------------------------------------------------------
(* The promise. *)

\* No place comes twice, and none is missing.
ListsAll(g, s) ==
  /\ \A k, m \in DOMAIN s : k # m => s[k] # s[m]
  /\ \A i \in DOMAIN g : \E k \in DOMAIN s : s[k] = i

\* What leads to a later place is led to from it in turn.
DependenciesLead(g, s) == \A k, m \in DOMAIN s : k < m /\ Reaches(g, s[k], s[m]) => Reaches(g, s[m], s[k])

\* Nothing comes between two places of a cycle that is not of it.
CyclesTogether(g, s) ==
  \A k, l, m \in DOMAIN s : k < l /\ l < m /\ Together(g, s[k], s[m]) => Together(g, s[k], s[l])

\* The orders that keep it.
InstallOrders(assignment) ==
  LET g == Adjacency(assignment)
  IN  {s \in [DOMAIN g -> DOMAIN g] : ListsAll(g, s) /\ DependenciesLead(g, s) /\ CyclesTogether(g, s)}
=============================================================================
