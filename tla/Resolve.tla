------------------------------ MODULE Resolve ------------------------------
(***************************************************************************)
(* `resolve_dependencies' of solver.rs: from a root package the packages   *)
(* that may be needed are explored, their constraints become clauses, the  *)
(* solver is run, and what it chose is sorted into an install order.       *)
(***************************************************************************)
EXTENDS DependencySort, SatSolver, SequencesExt

CONSTANTS NameOrder, \* the names, in the order manifests list them
          Requests   \* what can be asked for: a catalog, its root, what is installed

ASSUME ResolveAssumption ==
  /\ NameOrder \in Seq(Names) /\ Range(NameOrder) = Names
  /\ \A r \in Requests :
       /\ r.catalog \in Seq(Package) /\ Len(r.catalog) > 0
       \* Of two rows for a version fetch_manifest reads the same one each time.
       /\ \A p, q \in Range(r.catalog) : p.name = q.name /\ p.version = q.version => p = q
       /\ \A p \in Range(r.catalog) : IsFiniteSet(p.deps \cup p.makedeps)
       /\ r.installed \subseteq Names

VARIABLES
  request,
  phase,
  queue,      \* packages still to be explored
  universe,   \* those explored: the variable of a package is its place
  names,      \* those with several versions, which are still to exclude each other
  encoded,    \* the variables there are for that, and the clauses
  installing, \* what the solver chose and is not installed, as it made them true
  removed     \* names made obsolete: remove_package was called for them

encodeVars == <<names, encoded>>
resolveVars == <<request, phase, queue, universe, encodeVars, installing, removed>>
vars == <<solverVars, resolveVars, sortVars>>

\* sync_packages, a row for each version of a package.
Catalog == Range(request.catalog)

\* fetch_manifest looks for the name in local_packages, not for the version.
IsInstalled(p) == p.name \in request.installed

-----------------------------------------------------------------------------
(* Exploring. *)

\* The entries of s that are in S.
Only(s, S) == FlattenSeq([k \in DOMAIN s |-> IF s[k] \in S THEN <<s[k]>> ELSE <<>>])

\* fetch_all_versions: the newest first.
AllVersions[name \in Names] ==
  LET rows == {p \in Catalog : p.name = name}
      newestFirst == Reverse(Sorted({p.version : p \in rows}))
  IN  [k \in DOMAIN newestFirst |-> CHOOSE p \in rows : p.version = newestFirst[k]]

\* fetch_providers
Providers[name \in Names] == Only(request.catalog, {p \in Catalog : name \in p.provides})

BuildsHere(p) == ~IsInstalled(p) /\ p.source

NamesIn(deps) == Only(NameOrder, {d.name : d \in deps})

\* The names p's manifest makes the resolver look for.
Wanted(p) == NamesIn(p.deps) \o (IF BuildsHere(p) THEN NamesIn(p.makedeps) ELSE <<>>)

\* Mutant: only packages of the name looked for are explored.
CandidatesByName(p) ==
  AllVersions[p.name] \o FlattenSeq([k \in DOMAIN Wanted(p) |-> AllVersions[Wanted(p)[k]]])

Candidates(p) ==
  AllVersions[p.name]
    \o FlattenSeq([k \in DOMAIN Wanted(p) |-> AllVersions[Wanted(p)[k]] \o Providers[Wanted(p)[k]]])

Exploring == phase = "explore" /\ queue # <<>>

Explore ==
  /\ Exploring
  /\ Head(queue) \notin Range(universe)
  /\ universe' = Append(universe, Head(queue))
  /\ \E found \in {Candidates(Head(queue))} :
       queue' = Tail(queue) \o Only(found, Catalog \ Range(universe'))
  /\ UNCHANGED <<solverVars, sortVars, request, phase, encodeVars, installing, removed>>

\* Mutant: the package stays at the head of the queue.
SkipNothing ==
  /\ Exploring
  /\ Head(queue) \in Range(universe)
  /\ UNCHANGED vars

SkipKnown ==
  /\ Exploring
  /\ Head(queue) \in Range(universe)
  /\ queue' = Tail(queue)
  /\ UNCHANGED <<solverVars, sortVars, request, phase, universe, encodeVars, installing, removed>>

-----------------------------------------------------------------------------
(* The clauses. *)

\* name_to_versions
VariablesOf(name) == Sorted({i \in DOMAIN universe : universe[i].name = name})

\* SatSolver::new, a variable for each package.
Explored ==
  /\ phase = "explore"
  /\ queue = <<>>
  /\ phase' = "exclude"
  /\ names' = {n \in Names : Len(VariablesOf(n)) > 1}
  /\ encoded' = [vars |-> Len(universe), clauses |-> <<>>]
  /\ UNCHANGED <<solverVars, sortVars, request, queue, universe, installing, removed>>

Pairwise(x) ==
  FlattenSeq([i \in DOMAIN x |-> [j \in 1 .. Len(x) - i |-> {-x[i], -x[i + j]}]])

\* Mutant: the last version is left out of the counter.
ShortCounter(x, last) ==
  LET n == Len(x)
      s(i) == last + i
  IN  <<{-x[1], s(1)}>>
        \o FlattenSeq([k \in 1 .. n - 2 |-> <<{-x[k + 1], s(k + 1)}, {-s(k), s(k + 1)},
                                             {-x[k + 1], -s(k)}>>])

\* s[i], the variables after `last', says that one of the first i versions is chosen.
SequentialCounter(x, last) ==
  LET n == Len(x)
      s(i) == last + i
  IN  <<{-x[1], s(1)}>>
        \o FlattenSeq([k \in 1 .. n - 2 |-> <<{-x[k + 1], s(k + 1)}, {-s(k), s(k + 1)},
                                             {-x[k + 1], -s(k)}>>])
        \o <<{-x[n], -s(n - 1)}>>

\* One version of a name at most, for the names in the order of the hash map.
Exclude ==
  /\ phase = "exclude"
  /\ \E name \in names :
       /\ names' = names \ {name}
       /\ LET x == VariablesOf(name)
          IN  encoded' =
                IF Len(x) <= 4
                THEN [encoded EXCEPT !.clauses = @ \o Pairwise(x)]
                ELSE [vars    |-> encoded.vars + Len(x) - 1,
                      clauses |-> encoded.clauses \o SequentialCounter(x, encoded.vars)]
  /\ UNCHANGED <<solverVars, sortVars, request, phase, queue, universe, installing, removed>>

\* The variables of the packages that answer d.
Answers(d) == {j \in DOMAIN universe : Satisfies(universe[j], d)}

ListedDeps(deps) ==
  FlattenSeq([k \in DOMAIN NameOrder |->
    LET mins == Sorted({d.min : d \in {e \in deps : e.name = NameOrder[k]}})
    IN  [m \in DOMAIN mins |-> [name |-> NameOrder[k], min |-> mins[m]]]])

DependencyClauses(i) ==
  LET deps == ListedDeps(universe[i].deps)
                \o (IF BuildsHere(universe[i]) THEN ListedDeps(universe[i].makedeps) ELSE <<>>)
  IN  [k \in DOMAIN deps |-> {-i} \cup Answers(deps[k])]

\* Packages that i excludes: those with a name it conflicts with, or providing it.
Against(i, name) ==
  Sorted({j \in DOMAIN universe \ {i} : name \in {universe[j].name} \cup universe[j].provides})

ConflictClauses(i) ==
  LET conflicting == Only(NameOrder, universe[i].conflicts)
  IN  FlattenSeq([k \in DOMAIN conflicting |->
        LET js == Against(i, conflicting[k]) IN [m \in DOMAIN js |-> {-i, -js[m]}]])

PackageClauses ==
  FlattenSeq([i \in DOMAIN universe |-> DependencyClauses(i) \o ConflictClauses(i)])

Encode ==
  /\ phase = "exclude"
  /\ names = {}
  /\ phase' = "solve"
  /\ Start(encoded.vars, 1, encoded.clauses \o PackageClauses)
  /\ UNCHANGED <<sortVars, request, queue, universe, encodeVars, installing, removed>>

-----------------------------------------------------------------------------
(* The end. *)

\* The packages the solver made true; the other variables are the counters'.
Assigned ==
  LET places == Only(trail, DOMAIN universe) IN [k \in DOMAIN places |-> universe[places[k]]]

Obsoleted == UNION {p.obsoletes : p \in Range(Assigned)}

\* Mutant: what is installed already is sorted with the rest.
DeliverAll ==
  /\ phase = "solve"
  /\ verdict = "model"
  /\ installing' = Only(Assigned, {p \in Catalog : ~IsInstalled(p)})
  /\ removed' = Obsoleted
  /\ phase' = "sort"
  /\ BeginSort(Adjacency(Assigned))
  /\ UNCHANGED <<solverVars, request, queue, universe, encodeVars>>

\* What is made obsolete is removed from the system before anything is built.
Deliver ==
  /\ phase = "solve"
  /\ verdict = "model"
  /\ installing' = Only(Assigned, {p \in Catalog : ~IsInstalled(p)})
  /\ removed' = Obsoleted
  /\ phase' = "sort"
  /\ BeginSort(Adjacency(installing'))
  /\ UNCHANGED <<solverVars, request, queue, universe, encodeVars>>

Sort ==
  /\ phase = "sort"
  /\ SortStep
  /\ UNCHANGED <<solverVars, resolveVars>>

Return ==
  /\ phase = "sort"
  /\ SortEnded
  /\ phase' = "delivered"
  /\ UNCHANGED <<solverVars, sortVars, request, queue, universe, encodeVars, installing, removed>>

\* remove_package fails at one of them.
RemovalFails ==
  /\ phase = "solve"
  /\ verdict = "model"
  /\ \E done \in SUBSET Obsoleted : done # Obsoleted /\ removed' = done
  /\ phase' = "failed"
  /\ UNCHANGED <<solverVars, sortVars, request, queue, universe, encodeVars, installing>>

Fail ==
  /\ phase = "solve"
  /\ verdict \in {"conflict", "interrupted"}
  /\ phase' = "failed"
  /\ UNCHANGED <<solverVars, sortVars, request, queue, universe, encodeVars, installing, removed>>

Interrupt ==
  /\ Exploring
  /\ phase' = "failed"
  /\ UNCHANGED <<solverVars, sortVars, request, queue, universe, encodeVars, installing, removed>>

Ended == phase \in {"delivered", "failed"}

Returned == Ended /\ UNCHANGED vars

Init ==
  /\ SolverInit
  /\ request \in Requests
  /\ phase = "explore"
  /\ queue = <<request.catalog[1]>>
  /\ universe = <<>> /\ names = {} /\ encoded = [vars |-> 0, clauses |-> <<>>]
  /\ installing = <<>> /\ removed = {}
  /\ SortInit

Solving ==
  \/ Explore
  \/ SkipKnown
  \/ Explored \/ Exclude \/ Encode
  \/ SolverStep /\ UNCHANGED <<resolveVars, sortVars>>
  \/ Deliver \/ RemovalFails
  \/ Fail
  \/ Sort \/ Return

Next == Solving \/ Interrupt \/ Returned

Spec == Init /\ [][Next]_vars

\* The process runs.
FairSpec == Spec /\ WF_vars(Solving)

-----------------------------------------------------------------------------
(* Correctness: the solver. *)

TypeOK ==
  /\ SolverTypeOK
  /\ phase \in {"explore", "exclude", "solve", "sort", "delivered", "failed"}
  /\ queue \in Seq(Catalog)
  /\ universe \in Seq(Catalog)
  /\ names \subseteq Names
  /\ encoded.vars \in Nat /\ encoded.clauses \in Seq(SUBSET Literals(encoded.vars))
  /\ installing \in Seq(Catalog)
  /\ SortTypeOK /\ order \in Seq(DOMAIN installing)
  /\ removed \subseteq Names

Answer(S) == request.catalog[1] \in S /\ Consistent(S, request.installed)

\* What is chosen is consistent: nothing is missing from the universe and the
\* clauses, counters included.  Of what is installed only names are known: of such a
\* name another version than the chosen one may be on the system.
ChoiceConsistent == phase = "delivered" => Answer(Range(Assigned))

\* A conflict found before anything was decided is a real one: no packages of
\* the catalog, explored or not, satisfy the request.
EarlyConflictReal ==
  verdict = "conflict" /\ levels = 1 => \A S \in SUBSET Catalog : ~Answer(S)

\* "Conflict at base level (Unsatisfiable Graph)": nothing satisfies the request.
ConflictReal == verdict = "conflict" => \A S \in SUBSET Catalog : ~Answer(S)

\* An answer is found: exploring ends although packages refer to each other,
\* propagation neither stalls nor goes round, and the sort comes back from every
\* circle.
Termination == <>Ended

-----------------------------------------------------------------------------
(* Correctness: the order. *)

chosenDeps == Adjacency(installing)

\* Every chosen package is installed, and none twice: nothing the search pops
\* from its stack is lost or repeated.
OrderIsPermutation == phase = "delivered" => ListsAll(chosenDeps, order)

\* A package comes after everything it depends on, directly or through others,
\* unless that depends on it in turn (the build queue relies on it: it keeps
\* only the edges that point back).
DependenciesFirst == phase = "delivered" => DependenciesLead(chosenDeps, order)

\* The packages of one cycle are installed next to each other ("natively
\* grouped"): nothing unrelated comes between them.
CyclesGrouped == phase = "delivered" => CyclesTogether(chosenDeps, order)
=============================================================================
