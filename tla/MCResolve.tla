----------------------------- MODULE MCResolve -----------------------------
(* Four packages and every way their names can refer to each other; and    *)
(* catalogs with several versions, virtual names, conflicts, packages built *)
(* from source and packages that are installed already.                    *)
EXTENDS Resolve

MCNames == {"a", "b", "c", "d", "x"}
MCNameOrder == <<"a", "b", "c", "d", "x">>
MCVersions == 1 .. 6

AnyVersion(n) == [name |-> n, min |-> 0]
Newer(n) == [name |-> n, min |-> 2]

Named(n, v, deps) ==
  [name |-> n, version |-> v, provides |-> {}, source |-> FALSE, makedeps |-> {}, deps |-> deps,
   conflicts |-> {}, obsoletes |-> {}]

Asked(catalog, installed) == [catalog |-> catalog, installed |-> installed]

\* Of those that can be reached from "a", the others are never looked at.
Reached(f) ==
  LET Step(S) == S \cup UNION {f[n] : n \in S} IN Step(Step(Step({"a"})))

Plain ==
  {Asked([i \in 1 .. 4 |-> Named(MCNameOrder[i], 1, {AnyVersion(t) : t \in f[MCNameOrder[i]]})], {}) :
     f \in {g \in [MCNames \ {"x"} -> SUBSET (MCNames \ {"x"})] :
              \A n \in DOMAIN g : n \notin g[n] /\ (n \notin Reached(g) => g[n] = {})}}

\* "d" is a name that is only provided; "b" has two versions and "c" two.
Alternatives ==
  {Asked(<<[Named("a", 1, da) EXCEPT !.source = s, !.makedeps = {Newer("c")}],
           Named("b", 2, {AnyVersion("c")}),
           [Named("b", 1, db) EXCEPT !.provides = pb],
           [Named("c", 1, {}) EXCEPT !.provides = {"d"}, !.conflicts = xc],
           [Named("c", 2, dc) EXCEPT !.obsoletes = {"b"}]>>, installed) :
     da \in SUBSET {Newer("b"), AnyVersion("b"), AnyVersion("d")}, s \in BOOLEAN,
     db \in SUBSET {AnyVersion("d"), Newer("c")}, pb \in {{}, {"d"}}, xc \in {{}, {"b"}, {"d"}},
     dc \in SUBSET {AnyVersion("d")}, installed \in {{}, {"b"}}}

\* Five and six versions of one name, which the sequential counter is for.
Counted ==
  {Asked(<<Named("a", 1, {AnyVersion("b"), AnyVersion("c")}),
           Named("c", 1, {[name |-> "b", min |-> m]})>>
           \o [k \in 1 .. n |-> [Named("b", n + 1 - k, {}) EXCEPT !.conflicts = IF k \in x THEN {"c"} ELSE {}]], {}) :
     n \in {5, 6}, m \in {0, 2, 4, 6}, x \in SUBSET {1, 2, 4}}

\* Any of three packages answers for "d"; the last can only be had with the other
\* two, which exclude each other.
UnsatRequests ==
  {Asked(<<Named("a", 1, {AnyVersion("d")}),
           [Named("b", 1, {}) EXCEPT !.provides = {"d"}, !.conflicts = {"c"}],
           [Named("c", 1, {}) EXCEPT !.provides = {"d"}],
           [Named("x", 1, {AnyVersion("b"), AnyVersion("c")}) EXCEPT !.provides = {"d"}]>>, {})}

MCRequests == Plain \cup Alternatives \cup Counted
=============================================================================
