------------------------------ MODULE Packages ------------------------------
(***************************************************************************)
(* The package manifests the solver and the build queue work on, reduced   *)
(* to what either of them looks at (types.rs).  A version is a number and  *)
(* a constraint a lower bound on it: `eval_constraint' with `>=', the only *)
(* relation that packages of one universe need to disagree about.          *)
(***************************************************************************)
EXTENDS Integers

CONSTANTS Names,   \* package names, and the virtual names they provide
          Versions \* the versions a package can have

ASSUME VersionsAssumption == Versions \subseteq Nat

\* One entry of dep_names with its dep_constraints; min 0 is no constraint.
Dependency == [name : Names, min : Versions \cup {0}]

\* `source' is pkg_type == "source": the package is built from makedeps.
Package == [name      : Names,
            version   : Versions,
            provides  : SUBSET Names,
            deps      : SUBSET Dependency,
            makedeps  : SUBSET Dependency,
            source    : BOOLEAN,
            conflicts : SUBSET Names,
            obsoletes : SUBSET Names]

MeetsConstraint(version, d) == version >= d.min

\* What must be on the system before p can be built and run.
Requirements(p) == p.deps \cup (IF p.source THEN p.makedeps ELSE {})

\* The solver's meaning of a dependency: q answers d under its own name when
\* its version is right, and under a name it provides whatever its version.
Satisfies(q, d) ==
  \/ q.name = d.name /\ MeetsConstraint(q.version, d)
  \/ d.name \in q.provides

\* Packages that can be on a system together, as their manifests have it; what
\* has one of the names in `installed' is not built any more.
Consistent(S, installed) ==
  /\ \A p, q \in S : p # q =>
       /\ p.name # q.name
       /\ q.name \notin p.conflicts /\ q.provides \cap p.conflicts = {}
  /\ \A p \in S : \A d \in (IF p.name \in installed THEN p.deps ELSE Requirements(p)) :
       \E q \in S : Satisfies(q, d)
=============================================================================
