--------------------------- MODULE MCPackageStore ---------------------------
(* Small catalogs: a chain with two versions of its middle, one that is    *)
(* built from source and makes another package obsolete, a circle, a name  *)
(* that two packages provide and a third has, and a name whose provider    *)
(* has another version than is asked for.                                  *)
EXTENDS PackageStore

MCNames == {"a", "b", "c", "v"}
MCVersions == {1, 2}

AnyVersion(n) == [name |-> n, min |-> 0]

Named(n, v, deps) ==
  [name |-> n, version |-> v, provides |-> {}, source |-> FALSE, makedeps |-> {}, deps |-> deps,
   conflicts |-> {}, obsoletes |-> {}]

\* Who asks for "b" gets version 1, "a" needs the other one.
Testing == Named("b", 2, {AnyVersion("c")})

Chain == {Named("a", 1, {[name |-> "b", min |-> 2]}), Testing, Named("b", 1, {}), Named("c", 1, {})}

Source ==
  {[Named("a", 1, {AnyVersion("b")}) EXCEPT !.source = TRUE, !.makedeps = {AnyVersion("c")}],
   Named("b", 1, {}), [Named("c", 1, {}) EXCEPT !.obsoletes = {"b"}]}

Circle == {Named("a", 1, {AnyVersion("b")}), Named("b", 1, {AnyVersion("a"), AnyVersion("c")}), Named("c", 1, {})}

\* Whichever of the three answers for "v", others may come with it.
Provided ==
  {Named("a", 1, {AnyVersion("v")}), Named("v", 1, {}), [Named("b", 1, {}) EXCEPT !.provides = {"v"}],
   [Named("c", 1, {AnyVersion("b")}) EXCEPT !.provides = {"v"}]}

\* "b" does for the solver, and "a" may come before it.
Versioned ==
  {Named("a", 1, {[name |-> "v", min |-> 2], AnyVersion("c")}), [Named("b", 1, {}) EXCEPT !.provides = {"v"}],
   Named("c", 1, {})}

\* "a" brings version 1 of "b".
Newer == {Named("a", 1, {AnyVersion("b")}), Named("b", 1, {}), Named("b", 2, {})}

MCCatalogs == {Chain, Source, Circle, Provided, Versioned}
NewerOnly == {Newer}

MCPriority == [p \in UNION (MCCatalogs \cup NewerOnly) |-> IF p = Testing THEN 1 ELSE 0]
=============================================================================
