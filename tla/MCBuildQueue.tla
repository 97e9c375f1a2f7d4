---------------------------- MODULE MCBuildQueue ----------------------------
(* Install orders for the build queue: all that keep the promise of the    *)
(* solver's sort (SortIsRight of ResolveProofs), for what the solver       *)
(* could have chosen.                                                      *)
EXTENDS BuildQueue, InstallOrder

MCNames == {"a", "b", "c", "v"}
MCVersions == {1, 2}

AnyVersion(n) == [name |-> n, min |-> 0]

Named(n, deps) ==
  [name |-> n, version |-> 1, provides |-> {}, source |-> FALSE, makedeps |-> {}, deps |-> deps,
   conflicts |-> {}, obsoletes |-> {}]

Sorted(assignment) == {[k \in DOMAIN s |-> assignment[s[k]]] : s \in InstallOrders(assignment)}

\* No two packages claim a name.  "c" is built from source, needs "b" or "a"
\* for that, and provides "v".
UnsharedNames ==
  UNION {Sorted(<<Named("a", da), Named("b", db),
                  [Named("c", dc) EXCEPT !.source = TRUE, !.makedeps = mc, !.provides = {"v"}]>>) :
           da \in SUBSET {AnyVersion("b"), AnyVersion("v")}, db \in SUBSET {AnyVersion("a"), AnyVersion("c")},
           dc \in SUBSET {AnyVersion("a")}, mc \in SUBSET {AnyVersion("b")}}

\* "b" needs version 2 of "a", which is there; "c" provides an "a" of version 1.
\* Nothing depends in a circle.
SharedName ==
  Sorted(<<[Named("a", {}) EXCEPT !.version = 2],
           Named("b", {[name |-> "a", min |-> 2]}),
           [Named("c", {}) EXCEPT !.provides = {"a"}]>>)

MCPackageLists == UnsharedNames \cup SharedName
=============================================================================
