------------------------- MODULE PackageStoreProofs -------------------------
(***************************************************************************)
(* What PackageStore promises, proved for any catalogs.                    *)
(*                                                                         *)
(* The argument: what the resolver found not to be installed is still not  *)
(* installed when its turn comes, as the same process installs every name  *)
(* once and otherwise only removes; and what is being built had no archive *)
(* when it was taken, and nobody else writes its.                          *)
(***************************************************************************)
EXTENDS PackageStore, FiniteSetTheorems, TLAPS

OneVersion(S) == \A p, q \in S : p # q => p.name # q.name

\* From the resolution to the queue.
ChosenKnown ==
  pc = "expire" =>
    /\ OneVersion(chosen)
    /\ \A p \in chosen : p.name \notin flagged => local[p.name] = 0

\* In the queue.
OrderKnown ==
  /\ \A i, j \in DOMAIN order : i # j => order[i].name # order[j].name
  /\ \A i \in DOMAIN order : task[i] # "installed" => local[order[i].name] = 0

BuildsAnew == \A i \in DOMAIN order : task[i] = "building" => cache[order[i]] = "none"

QueueFilled == pc \in {"idle", "resolve", "expire"} => order = <<>>

\* What the resolver chose answers its own dependencies, and what it found
\* installed still is.
ChosenAnswered ==
  pc \in {"expire", "queue", "drain"} =>
    /\ \A p \in chosen : \A d \in p.deps : \E q \in chosen : Satisfies(q, d)
    /\ ~removed => \A p \in chosen : p.name \in flagged => local[p.name] # 0 /\ Present(p)

\* The rest of it is in the order.
ChosenOrdered ==
  pc \in {"queue", "drain"} =>
    \A p \in chosen : p.name \notin flagged => \E i \in DOMAIN order : order[i] = p

\* What is to be installed is answered by what is on the system and what is in
\* the order.
OrderAnswered ==
  ~removed =>
    \A i \in DOMAIN order : \A d \in order[i].deps :
      \E q \in catalog : /\ Satisfies(q, d)
                         /\ \/ local[q.name] # 0 /\ Present(q)
                            \/ \E j \in DOMAIN order : order[j] = q

\* A task comes after what it depends on, except what depends on it in turn.
OrderSorted ==
  \A j, k \in DOMAIN order :
    DependsDirectly(order[j], order[k]) => k < j \/ order[j] \in DependsOn(order[k], catalog) \/ j = k

\* A task that was taken had what it waits for installed, and what is installed
\* is registered, in its version.
TaskWaits ==
  /\ \A i \in DOMAIN order : task[i] # "pending" => \A j \in Preds(i) : task[j] = "installed"
  /\ \A i \in DOMAIN order : task[i] = "installed" => local[order[i].name] = order[i].version

RInv ==
  /\ ChosenAnswered /\ ChosenOrdered /\ OrderAnswered /\ OrderSorted /\ TaskWaits
  /\ DependenciesRegistered

IInv == TypeOK /\ ChosenKnown /\ OrderKnown /\ BuildsAnew /\ QueueFilled

-----------------------------------------------------------------------------
LEMMA CatalogTypes ==
  ASSUME TypeOK
  PROVE  /\ IsFiniteSet(catalog)
         /\ \A p \in catalog : p.name \in Names /\ p.version \in Versions /\ p.version # 0
         /\ \A p \in catalog : p.obsoletes \subseteq Names
<1>1. catalog \subseteq Package /\ IsFiniteSet(catalog) /\ \A p \in catalog : p.version > 0
  BY StoreAssumption DEF TypeOK
<1>2. \A p \in catalog : p.version \in Versions
  BY <1>1 DEF Package
<1>3. \A p \in catalog : p.version \in Nat
  BY <1>2, VersionsAssumption
<1> QED BY <1>1, <1>2, <1>3 DEF Package

LEMMA OrdersTypes ==
  ASSUME TypeOK, NEW S \in SUBSET catalog, NEW s \in Orders(S)
  PROVE  /\ s \in Seq(catalog)
         /\ \A i \in DOMAIN s : s[i] \in S
         /\ \A i, j \in DOMAIN s : i # j => s[i] # s[j]
<1>1. IsFiniteSet(S) /\ Cardinality(S) \in Nat
  BY CatalogTypes, FS_Subset, FS_CardinalityType
<1>2. s \in [1 .. Cardinality(S) -> S] /\ \A i, j \in DOMAIN s : i # j => s[i] # s[j]
  BY DEF Orders
<1>3. s \in Seq(S)
  BY <1>1, <1>2
<1>4. s \in Seq(catalog)
  BY <1>2, <1>3, <1>1
<1> QED BY <1>2, <1>4

LEMMA OrderEntry ==
  ASSUME TypeOK, NEW i \in DOMAIN order
  PROVE  /\ order[i] \in catalog
         /\ order[i].name \in Names
         /\ order[i].version \in Versions /\ order[i].version # 0
<1>1. order[i] \in catalog
  BY DEF TypeOK
<1> QED BY <1>1, CatalogTypes

-----------------------------------------------------------------------------
LEMMA InitIInv == Init => IInv
<1> SUFFICES ASSUME Init PROVE IInv
  OBVIOUS
<1>1. TypeOK
  <2>1. local \in [Names -> Versions \cup {0}] /\ reason \in [Names -> {0, 1}]
        /\ cache \in [catalog -> {"none", "torn", "whole"}]
    BY DEF Init
  <2>2. order \in Seq(catalog)
        /\ task \in [DOMAIN order -> {"pending", "building", "writing", "built", "installed", "failed"}]
    BY DEF Init
  <2> QED BY <2>1, <2>2 DEF Init, TypeOK
<1>2. ChosenKnown /\ OrderKnown /\ BuildsAnew /\ QueueFilled
  BY DEF Init, ChosenKnown, OrderKnown, BuildsAnew, QueueFilled
<1> QED BY <1>1, <1>2 DEF IInv

\* The process ends, or one begins.
LEMMA EndStep ==
  ASSUME IInv, EndRun \/ Stop
  PROVE  IInv'
<1>1. End /\ UNCHANGED stored
  BY DEF EndRun, Stop
<1>2. TypeOK'
  BY <1>1 DEF IInv, TypeOK, End, stored, history
<1> QED BY <1>1, <1>2 DEF IInv, End, ChosenKnown, OrderKnown, BuildsAnew, QueueFilled

\* What leaves the queue alone and removes at most.
LEMMA CommandStep ==
  ASSUME IInv,
         (\E n \in Names : Remove(n) \/ Expire(n)) \/ RemoveOrphans \/ Prune
           \/ \E p \in catalog : Request(p) \/ Update(p)
  PROVE  IInv'
<1>1. /\ UNCHANGED <<catalog, chosen, flagged, order, task>>
      /\ order = <<>>
      /\ pc' # pc => pc' = "resolve"
      /\ pc = "expire" => UNCHANGED cache
  BY DEF IInv, QueueFilled, Remove, Expire, RemoveOrphans, Prune, Request, Update, Begin, process, stored
<1>2. local' \in [Names -> Versions \cup {0}] /\ \A n \in Names : local'[n] \in {local[n], 0}
  BY DEF IInv, TypeOK, Remove, Expire, Delete, RemoveOrphans, Prune, Request, Update, Begin, process, stored
<1>3. TypeOK'
  <2>1. UNCHANGED reason
    BY DEF Remove, Expire, RemoveOrphans, Prune, Request, Update, Begin, process, stored
  <2>2. cache' \in [catalog -> {"none", "torn", "whole"}]
    BY DEF IInv, TypeOK, Remove, Expire, RemoveOrphans, Prune, Request, Update, Begin, process, stored
  <2>3. removed' \in BOOLEAN /\ passed' \subseteq catalog /\ command' \in {"none", "install", "update"}
    BY DEF history, IInv, TypeOK, Remove, Expire, Delete, RemoveOrphans, Prune, Request, Update, Begin, process, stored
  <2>4. root' \subseteq catalog /\ expired' \subseteq Names
    BY DEF IInv, TypeOK, Remove, Expire, RemoveOrphans, Prune, Request, Update, Begin, process, stored
  <2>5. pc' \in {"idle", "resolve", "expire", "queue", "drain"}
    BY <1>1 DEF IInv, TypeOK
  <2> QED BY <1>1, <1>2, <2>1, <2>2, <2>3, <2>4, <2>5 DEF IInv, TypeOK
<1>4. ChosenKnown'
  <2>1. \A p \in chosen : p.name \in Names
    BY CatalogTypes DEF IInv, TypeOK
  <2> QED BY <1>1, <1>2, <2>1 DEF IInv, ChosenKnown
<1>5. OrderKnown' /\ BuildsAnew'
  BY <1>1 DEF OrderKnown, BuildsAnew
<1>6. QueueFilled'
  BY <1>1 DEF QueueFilled
<1> QED BY <1>3, <1>4, <1>5, <1>6 DEF IInv

LEMMA ResolveStep ==
  ASSUME IInv, Resolve
  PROVE  IInv'
<1>1. PICK S \in SUBSET catalog :
        /\ Consistent(S, Installed)
        /\ chosen' = S /\ flagged' = NamesCounted(S) /\ expired' = UNION {p.obsoletes : p \in S}
        /\ passed' = passed \cup {p \in S : local[p.name] \notin {0, p.version}}
  BY DEF Resolve, Universe
<1>2. /\ pc = "resolve" /\ pc' = "expire"
      /\ UNCHANGED <<catalog, local, reason, cache, removed, command, root, order, task>>
  BY DEF Resolve
<1>3. TypeOK'
  <2>1. flagged' \subseteq Names /\ expired' \subseteq Names
    BY <1>1, CatalogTypes DEF IInv, NamesCounted
  <2> QED BY <1>1, <1>2, <2>1 DEF IInv, TypeOK
<1>4. OneVersion(S)
  BY <1>1 DEF Consistent, OneVersion
<1>5. \A p \in S : p.name \notin flagged' => local[p.name] = 0
  BY <1>1, CatalogTypes DEF IInv, NamesCounted
<1> QED
  BY <1>1, <1>2, <1>3, <1>4, <1>5
  DEF IInv, ChosenKnown, OrderKnown, BuildsAnew, QueueFilled, stored

LEMMA SortStep ==
  ASSUME IInv, Sort
  PROVE  IInv'
<1> DEFINE S == {p \in chosen : p.name \notin flagged}
<1>1. /\ pc = "expire" /\ pc' = "queue" /\ order' \in Orders(S)
      /\ task' = [i \in DOMAIN order' |-> "pending"]
      /\ UNCHANGED <<stored, command, root, chosen, flagged, expired>>
  BY DEF Sort
<1>2. S \in SUBSET catalog
  BY DEF IInv, TypeOK
<1>3. /\ order' \in Seq(catalog) /\ \A i \in DOMAIN order' : order'[i] \in S
      /\ \A i, j \in DOMAIN order' : i # j => order'[i] # order'[j]
  BY <1>1, <1>2, OrdersTypes DEF IInv
<1>4. TypeOK'
  BY <1>1, <1>3 DEF IInv, TypeOK, stored, history
<1>5. OrderKnown'
  BY <1>1, <1>3 DEF IInv, ChosenKnown, OneVersion, OrderKnown, stored
<1> QED BY <1>1, <1>4, <1>5 DEF IInv, ChosenKnown, BuildsAnew, QueueFilled

LEMMA QueueStepIInv ==
  ASSUME IInv, NEW i \in DOMAIN order, QueueStep(i)
  PROVE  IInv'
<1> USE DEF IInv, Running, To, history
<1>1. /\ order[i] \in catalog /\ order[i].name \in Names /\ order[i].version \in Versions
  BY OrderEntry
<1>2. /\ UNCHANGED <<catalog, history, command, root, chosen, flagged, expired, order>>
      /\ pc \in {"queue", "drain"} /\ pc' \in {"queue", "drain"}
  BY DEF QueueStep, Take, BeginArchive, EndArchive, BuildFails, Install, InstallFails, stored
<1>3. ChosenKnown' /\ QueueFilled'
  BY <1>2 DEF ChosenKnown, QueueFilled
<1>4. CASE Take(i)
  <2>1. /\ UNCHANGED <<local, reason, cache>>
        /\ \/ task' = [task EXCEPT ![i] = "building"] /\ cache[order[i]] = "none"
           \/ task' = [task EXCEPT ![i] = "built"]
        /\ task[i] = "pending"
    BY <1>4 DEF Take, MayTake, stored
  <2>2. TypeOK'
    BY <1>2, <2>1 DEF TypeOK
  <2>3. OrderKnown' /\ BuildsAnew'
    BY <1>2, <2>1 DEF OrderKnown, BuildsAnew, TypeOK
  <2> QED BY <1>3, <2>2, <2>3
<1>5. CASE BeginArchive(i) \/ EndArchive(i)
  <2>1. /\ UNCHANGED <<local, reason>>
        /\ \E a \in {"torn", "whole"} : cache' = [cache EXCEPT ![order[i]] = a]
        /\ \E w \in {"writing", "built"} : task' = [task EXCEPT ![i] = w]
        /\ task[i] \in {"building", "writing"}
    BY <1>5 DEF BeginArchive, EndArchive
  <2>2. TypeOK'
    BY <1>1, <1>2, <2>1 DEF TypeOK
  <2>3. OrderKnown'
    BY <1>2, <2>1 DEF OrderKnown, TypeOK
  <2>4. BuildsAnew'
    <3> SUFFICES ASSUME NEW j \in DOMAIN order, task'[j] = "building" PROVE cache'[order[j]] = "none"
      BY <1>2 DEF BuildsAnew
    <3>1. j # i /\ task[j] = "building"
      BY <2>1 DEF TypeOK
    <3>2. order[j] # order[i]
      BY <3>1 DEF OrderKnown
    <3> QED BY <2>1, <3>1, <3>2, OrderEntry DEF BuildsAnew, TypeOK
  <2> QED BY <1>3, <2>2, <2>3, <2>4
<1>6. CASE BuildFails(i) \/ InstallFails(i)
  <2>1. UNCHANGED <<local, reason, cache>> /\ task' = [task EXCEPT ![i] = "failed"]
        /\ task[i] # "installed"
    BY <1>6 DEF BuildFails, InstallFails, stored
  <2>2. TypeOK'
    BY <1>2, <2>1 DEF TypeOK
  <2>3. OrderKnown' /\ BuildsAnew'
    BY <1>2, <2>1 DEF OrderKnown, BuildsAnew, TypeOK
  <2> QED BY <1>3, <2>2, <2>3
<1>7. CASE Install(i)
  <2>1. /\ UNCHANGED cache /\ task' = [task EXCEPT ![i] = "installed"]
        /\ local' = [local EXCEPT ![order[i].name] = order[i].version]
        /\ reason' = [reason EXCEPT ![order[i].name] = 0]
    BY <1>7 DEF Install, InstallReason
  <2>2. TypeOK'
    BY <1>1, <1>2, <2>1 DEF TypeOK
  <2>3. OrderKnown'
    <3> SUFFICES ASSUME NEW j \in DOMAIN order, task'[j] # "installed" PROVE local'[order[j].name] = 0
      BY <1>2 DEF OrderKnown
    <3>1. j # i /\ task[j] # "installed"
      BY <2>1 DEF TypeOK
    <3> QED BY <2>1, <3>1, OrderEntry DEF OrderKnown, TypeOK
  <2>4. BuildsAnew'
    BY <1>2, <2>1 DEF BuildsAnew, TypeOK
  <2> QED BY <1>3, <2>2, <2>3, <2>4
<1> QED BY <1>4, <1>5, <1>6, <1>7 DEF QueueStep

LEMMA Stutter == IInv /\ UNCHANGED vars => IInv'
BY DEF vars, stored, history, process, IInv, TypeOK, ChosenKnown, OrderKnown, BuildsAnew, QueueFilled

LEMMA NextIInv == IInv /\ [Next]_vars => IInv'
BY EndStep, CommandStep, ResolveStep, SortStep, QueueStepIInv, Stutter DEF Next

-----------------------------------------------------------------------------
(* The theorems. *)

\* What the resolver found not to be installed stays so until its turn, and what
\* is being built has no archive.
THEOREM StoreInvariant == Spec => []IInv
BY InitIInv, NextIInv, PTL DEF Spec

\* The database, the cache and the queue keep their types.
THEOREM StoreTypeCorrect == Spec => []TypeOK
<1>1. IInv => TypeOK
  BY DEF IInv
<1> QED BY <1>1, StoreInvariant, PTL

\* No installation and no update replaces an installed version: why UpdateInstalls
\* fails, for every catalog.
THEOREM NeverUpgraded == Spec => VersionsStay
<1>1. IInv /\ [Next]_vars => [\A n \in Names : local[n] # 0 => local'[n] \in {local[n], 0}]_vars
  <2> SUFFICES ASSUME IInv, Next, NEW n \in Names, local[n] # 0
               PROVE  local'[n] \in {local[n], 0}
    OBVIOUS
  <2>1. ASSUME NEW i \in DOMAIN order, Install(i) PROVE local'[n] \in {local[n], 0}
    <3>1. task[i] # "installed" /\ local' = [local EXCEPT ![order[i].name] = order[i].version]
      BY <2>1 DEF Install
    <3>2. order[i].name # n
      BY <3>1 DEF IInv, OrderKnown
    <3> QED BY <3>1, <3>2 DEF IInv, TypeOK
  <2>2. CASE \E m \in Names : Remove(m) \/ Expire(m)
    BY <2>2 DEF Remove, Expire, Delete, IInv, TypeOK
  <2>3. CASE RemoveOrphans
    BY <2>3 DEF RemoveOrphans
  <2>4. CASE UNCHANGED local
    BY <2>4
  <2> QED
    BY <2>1, <2>2, <2>3, <2>4
    DEF Next, Prune, Request, Update, Begin, Resolve, Sort, QueueStep, Take, BeginArchive, EndArchive, BuildFails,
        InstallFails, EndRun, Stop, stored
<1> QED BY <1>1, StoreInvariant, PTL DEF Spec, VersionsStay

\* An archive that was left torn stays so until the cache is pruned.
THEOREM NeverRebuilt == Spec => TornStays
<1>1. IInv /\ [Next]_vars =>
        [\A p \in catalog :
           cache[p] = "torn" /\ ~Writing(p) => cache'[p] # "whole" /\ ~Writing(p)']_vars
  <2> SUFFICES ASSUME IInv, Next, NEW p \in catalog, cache[p] = "torn", ~Writing(p)
               PROVE  cache'[p] # "whole" /\ ~Writing(p)'
    OBVIOUS
  <2>1. ASSUME NEW i \in DOMAIN order, BeginArchive(i) PROVE cache'[p] # "whole" /\ ~Writing(p)'
    <3>1. task[i] = "building" /\ UNCHANGED order /\ task' = [task EXCEPT ![i] = "writing"]
          /\ cache' = [cache EXCEPT ![order[i]] = "torn"]
      BY <2>1 DEF BeginArchive, To
    <3>2. order[i] # p
      BY <3>1 DEF IInv, BuildsAnew
    <3> QED BY <3>1, <3>2 DEF Writing, IInv, TypeOK
  <2>2. ASSUME NEW i \in DOMAIN order, EndArchive(i) PROVE cache'[p] # "whole" /\ ~Writing(p)'
    <3>1. task[i] = "writing" /\ UNCHANGED order /\ task' = [task EXCEPT ![i] = "built"]
          /\ cache' = [cache EXCEPT ![order[i]] = "whole"]
      BY <2>2 DEF EndArchive, To
    <3>2. order[i] # p
      BY <3>1 DEF Writing
    <3> QED BY <3>1, <3>2 DEF Writing, IInv, TypeOK
  <2>3. ASSUME NEW i \in DOMAIN order,
               Take(i) \/ BuildFails(i) \/ Install(i) \/ InstallFails(i)
        PROVE  cache'[p] # "whole" /\ ~Writing(p)'
    BY <2>3 DEF Take, BuildFails, Install, InstallFails, To, stored, Writing, IInv, TypeOK
  <2>4. CASE EndRun \/ Stop
    BY <2>4 DEF EndRun, Stop, End, stored, Writing
  <2>5. CASE Sort
    BY <2>5 DEF Sort, stored, Writing
  <2>6. CASE Prune
    BY <2>6 DEF Prune, process, Writing
  <2>7. CASE (\E n \in Names : Remove(n) \/ Expire(n)) \/ RemoveOrphans
               \/ (\E q \in catalog : Request(q) \/ Update(q)) \/ Resolve
    BY <2>7 DEF Remove, Expire, RemoveOrphans, Request, Update, Begin, Resolve, process, stored, Writing
  <2> QED BY <2>1, <2>2, <2>3, <2>4, <2>5, <2>6, <2>7 DEF Next, QueueStep
<1> QED BY <1>1, StoreInvariant, PTL DEF Spec, TornStays

-----------------------------------------------------------------------------
(* What a dependency of the order leads to.                                *)

LEMMA Greatest ==
  ASSUME NEW n \in Nat, NEW T \in SUBSET (1 .. n), T # {}
  PROVE  \E m \in T : \A k \in T : k <= m
<1> DEFINE D == {n - k : k \in T}
<1>1. D \subseteq Nat /\ D # {}
  <2>1. \A k \in T : n - k \in Nat
    OBVIOUS
  <2>2. PICK k \in T : TRUE
    OBVIOUS
  <2>3. n - k \in D
    OBVIOUS
  <2> QED BY <2>1, <2>3
<1>2. PICK x \in D : \A y \in D : ~(<<y, x>> \in OpToRel(<, Nat))
  BY <1>1, WFMin, NatLessThanWellFounded
<1>3. \A y \in D : ~(y < x)
  BY <1>1, <1>2 DEF OpToRel
<1>4. PICK m \in T : x = n - m
  OBVIOUS
<1>5. \A k \in T : k <= m
  <2> TAKE k \in T
  <2>1. n - k \in D
    OBVIOUS
  <2> QED BY <1>3, <1>4, <2>1
<1> QED BY <1>5

\* What something depends on in a part of the catalog it depends on in the catalog.
LEMMA DependsOnMore ==
  ASSUME NEW S, NEW C, S \subseteq C, NEW p, NEW q \in DependsOn(p, S)
  PROVE  q \in DependsOn(p, C)
<1>1. q \in C
  BY DEF DependsOn
<1>2. ASSUME NEW T \in SUBSET C,
             \A r \in C : (\E t \in T \cup {p} : DependsDirectly(t, r)) => r \in T
      PROVE  q \in T
  <2>1. T \cap S \in SUBSET S
    OBVIOUS
  <2>2. \A r \in S : (\E t \in (T \cap S) \cup {p} : DependsDirectly(t, r)) => r \in T \cap S
    BY <1>2
  <2> QED BY <2>1, <2>2 DEF DependsOn
<1> QED BY <1>1, <1>2 DEF DependsOn

LEMMA DirectlyDependsOn ==
  ASSUME NEW S, NEW p, NEW q \in S, DependsDirectly(p, q)
  PROVE  q \in DependsOn(p, S)
BY DEF DependsOn

\* Every package to be installed has a place in the order.
LEMMA OrdersComplete ==
  ASSUME TypeOK, NEW S \in SUBSET catalog, NEW s \in Orders(S), NEW q \in S
  PROVE  \E j \in DOMAIN s : s[j] = q
<1>1. IsFiniteSet(S) /\ Cardinality(S) \in Nat
  BY CatalogTypes, FS_Subset, FS_CardinalityType
<1> DEFINE n == Cardinality(S)
<1>2. s \in [1 .. n -> S] /\ \A i, j \in 1 .. n : i # j => s[i] # s[j]
  BY DEF Orders
<1>3. s \in Injection(1 .. n, S)
  BY <1>2 DEF Injection, IsInjective
<1>4. Cardinality(1 .. n) = n
  BY <1>1, FS_Interval
<1>5. s \in Surjection(1 .. n, S)
  BY <1>1, <1>3, <1>4, FS_Injection
<1> QED BY <1>2, <1>5 DEF Surjection

\* A dependency that is answered in the order is answered by the last task that
\* claims its name.
LEMMA ProviderAnswers ==
  ASSUME TypeOK, OrderKnown,
         NEW i \in DOMAIN order, NEW d \in order[i].deps, UnderstoodAlike(d),
         NEW j \in DOMAIN order, Satisfies(order[j], d)
  PROVE  \E k \in Provider(d.name) : k \in DOMAIN order /\ Satisfies(order[k], d) /\ DependsDirectly(order[i], order[k])
<1> DEFINE T == {k \in DOMAIN order : Claims(k, d.name)}
<1>1. order \in Seq(catalog) /\ catalog \in Catalogs
  BY DEF TypeOK
<1>2. j \in T
  BY DEF Satisfies, Claims
<1>3. PICK k \in T : \A m \in T : m <= k
  <2>1. DOMAIN order = 1 .. Len(order) /\ Len(order) \in Nat
    BY <1>1
  <2>2. T \in SUBSET (1 .. Len(order)) /\ T # {}
    BY <1>2, <2>1
  <2> QED BY <2>1, <2>2, Greatest
<1>4. k \in Provider(d.name)
  BY <1>3 DEF Provider
<1>5. /\ order[i] \in catalog /\ order[j] \in catalog /\ order[k] \in catalog
      /\ order[k].version \in Nat /\ order[j].version \in Nat
  BY <1>1, OrderEntry, VersionsAssumption
<1>6. Satisfies(order[k], d) /\ MeetsConstraint(order[k].version, d)
  <2>1. CASE d.min = 0
    BY <1>3, <1>5, <2>1 DEF Claims, Satisfies, MeetsConstraint
  <2>2. CASE d.min # 0
    <3>1. \A q \in catalog : d.name \notin q.provides
      BY <2>2 DEF UnderstoodAlike
    <3>2. order[k].name = d.name /\ order[j].name = d.name /\ MeetsConstraint(order[j].version, d)
      BY <1>3, <1>5, <3>1 DEF Claims, Satisfies
    <3>3. k = j
      BY <3>2 DEF OrderKnown
    <3> QED BY <3>2, <3>3 DEF Satisfies
  <2> QED BY <2>1, <2>2
<1>7. DependsDirectly(order[i], order[k])
  BY <1>3, <1>6 DEF Claims, DependsDirectly, Requirements
<1> QED BY <1>4, <1>6, <1>7 DEF Provider

-----------------------------------------------------------------------------
(* The way from the resolver through the queue to the database.            *)

LEMMA InitRInv == Init => RInv
<1> SUFFICES ASSUME Init PROVE RInv
  OBVIOUS
<1>1. DependenciesRegistered
  <2> SUFFICES ASSUME NEW p \in catalog, local[p.name] = p.version PROVE FALSE
    BY DEF DependenciesRegistered
  <2> QED BY InitIInv, CatalogTypes DEF IInv, Init
<1> QED BY <1>1 DEF Init, RInv, ChosenAnswered, ChosenOrdered, OrderAnswered, OrderSorted, TaskWaits

\* What is present stays so while the versions on the system do.
LEMMA PresentStays ==
  ASSUME NEW q, local[q.name] # 0, Present(q), local'[q.name] = local[q.name], passed \subseteq passed'
  PROVE  local'[q.name] # 0 /\ Present(q)'
BY DEF Present

\* A step that removes nothing from the system and replaces no version keeps what
\* is registered there answered.
LEMMA RegisteredStays ==
  ASSUME IInv, RInv, UNCHANGED catalog, passed \subseteq passed', removed' = removed,
         NEW p \in catalog, local[p.name] = p.version, ~removed,
         \A n \in Names : local[n] # 0 => local'[n] = local[n],
         NEW d \in p.deps, UnderstoodAlike(d)
  PROVE  \E q \in catalog : Satisfies(q, d) /\ (Present(q)' \/ p \in DependsOn(q, catalog))
<1>1. PICK q \in catalog : Satisfies(q, d) /\ (Present(q) \/ p \in DependsOn(q, catalog))
  BY DEF RInv, DependenciesRegistered
<1>2. CASE Present(q)
  <2>1. q.name \in Names /\ local[q.name] # 0
    BY <1>2, CatalogTypes DEF Present, IInv
  <2> QED BY <1>1, <1>2, <2>1, PresentStays
<1>3. CASE p \in DependsOn(q, catalog)
  BY <1>1, <1>3
<1> QED BY <1>1, <1>2, <1>3

\* The constants of a catalog.
LEMMA SameCatalog ==
  ASSUME UNCHANGED catalog
  PROVE  /\ \A p, q : (p \in DependsOn(q, catalog))' <=> p \in DependsOn(q, catalog)
         /\ \A q, d : Satisfies(q, d)' <=> Satisfies(q, d)
         /\ \A d : UnderstoodAlike(d)' <=> UnderstoodAlike(d)
BY DEF DependsOn, DependsDirectly, Requirements, MeetsConstraint, Satisfies, UnderstoodAlike

\* What leaves the database alone.
LEMMA RegisteredSame ==
  ASSUME IInv, RInv, UNCHANGED <<catalog, local, removed>>, passed \subseteq passed'
  PROVE  DependenciesRegistered'
<1> SUFFICES ASSUME ~removed, NEW p \in catalog, local[p.name] = p.version,
                    NEW d \in p.deps, UnderstoodAlike(d)
             PROVE  \E q \in catalog : Satisfies(q, d) /\ (Present(q)' \/ p \in DependsOn(q, catalog))
  BY SameCatalog DEF DependenciesRegistered
<1> QED BY RegisteredStays

\* What only removes, if it removes anything, says so.
LEMMA RemovalSeen ==
  ASSUME IInv, (\E n \in Names : Remove(n) \/ Expire(n)) \/ RemoveOrphans, ~removed'
  PROVE  UNCHANGED <<local, removed>>
<1>1. local \in [Names -> Versions \cup {0}] /\ removed \in BOOLEAN
  BY DEF IInv, TypeOK
<1>2. ASSUME NEW n \in Names, Remove(n) \/ Expire(n)
      PROVE  UNCHANGED <<local, removed>>
  <2>1. Delete(n)
    BY <1>2 DEF Remove, Expire
  <2>2. local[n] = 0 /\ ~removed
    BY <1>1, <2>1 DEF Delete
  <2> QED BY <1>1, <2>1, <2>2 DEF Delete
<1>3. ASSUME RemoveOrphans
      PROVE  UNCHANGED <<local, removed>>
  <2>1. PICK row \in [Installed -> catalog] :
          /\ local' = [n \in Names |-> IF n \in Orphans(row) THEN 0 ELSE local[n]]
          /\ removed' = (removed \/ Orphans(row) # {})
    BY <1>3 DEF RemoveOrphans
  <2>2. Orphans(row) = {} /\ ~removed
    BY <1>1, <2>1
  <2> QED BY <1>1, <2>1, <2>2
<1> QED BY <1>2, <1>3

LEMMA CommandRInv ==
  ASSUME IInv, RInv,
         EndRun \/ Stop \/ (\E n \in Names : Remove(n) \/ Expire(n)) \/ RemoveOrphans \/ Prune
           \/ (\E p \in catalog : Request(p) \/ Update(p)) \/ Resolve
  PROVE  RInv'
<1>1. order' = <<>> /\ UNCHANGED catalog /\ pc' \notin {"queue", "drain"}
  BY DEF IInv, QueueFilled, EndRun, Stop, End, Remove, Expire, RemoveOrphans, Prune, Request, Update, Begin,
         Resolve, process, stored
<1>2. ChosenAnswered'
  <2>1. CASE EndRun \/ Stop \/ (\E n \in Names : Remove(n)) \/ RemoveOrphans \/ Prune
               \/ \E p \in catalog : Request(p) \/ Update(p)
    BY <2>1 DEF ChosenAnswered, EndRun, Stop, End, Remove, RemoveOrphans, Prune, Request, Update, Begin
  <2>2. ASSUME NEW n \in Names, Expire(n) PROVE ChosenAnswered'
    <3>1. pc = "expire" /\ UNCHANGED <<chosen, flagged, catalog, passed>>
      BY <2>2 DEF Expire
    <3>2. ~removed' => UNCHANGED <<local, removed>>
      BY <2>2, RemovalSeen
    <3>3. \A p : UNCHANGED local => Present(p)' = Present(p)
      BY <3>1 DEF Present
    <3> QED BY <3>1, <3>2, <3>3, SameCatalog DEF RInv, ChosenAnswered
  <2>3. CASE Resolve
    <3>1. PICK S \in SUBSET catalog :
            /\ Consistent(S, Installed) /\ chosen' = S /\ flagged' = NamesCounted(S)
            /\ passed' = passed \cup {p \in S : local[p.name] \notin {0, p.version}}
      BY <2>3 DEF Resolve, Universe
    <3>2. local' = local
      BY <2>3 DEF Resolve
    <3>3. \A p \in S : \A d \in p.deps : \E q \in S : Satisfies(q, d)
      <4> TAKE p \in S
      <4> TAKE d \in p.deps
      <4>1. d \in (IF p.name \in Installed THEN p.deps ELSE Requirements(p))
        BY DEF Requirements
      <4> QED BY <3>1, <4>1 DEF Consistent
    <3>4. \A p \in S : p.name \in NamesCounted(S) => local[p.name] # 0 /\ Present(p)'
      BY <3>1, <3>2 DEF NamesCounted, Present
    <3> QED BY <3>1, <3>2, <3>3, <3>4 DEF ChosenAnswered
  <2> QED BY <2>1, <2>2, <2>3
<1>3. DependenciesRegistered'
  <2>1. passed \subseteq passed'
    BY DEF EndRun, Stop, Remove, Expire, RemoveOrphans, Prune, Request, Update, Begin, Resolve, stored, history
  <2>2. CASE UNCHANGED <<local, removed>>
    BY <1>1, <2>1, <2>2, RegisteredSame
  <2>3. CASE (\E n \in Names : Remove(n) \/ Expire(n)) \/ RemoveOrphans
    BY <2>2, <2>3, RemovalSeen DEF DependenciesRegistered
  <2> QED BY <2>2, <2>3 DEF EndRun, Stop, Prune, Request, Update, Begin, Resolve, stored, history
<1> QED BY <1>1, <1>2, <1>3 DEF RInv, ChosenOrdered, OrderAnswered, OrderSorted, TaskWaits

LEMMA SortRInv ==
  ASSUME IInv, RInv, Sort
  PROVE  RInv'
<1> DEFINE S == {p \in chosen : p.name \notin flagged}
<1>1. /\ pc = "expire" /\ pc' = "queue" /\ order' \in Orders(S)
      /\ task' = [i \in DOMAIN order' |-> "pending"]
      /\ UNCHANGED <<catalog, local, removed, passed, chosen, flagged>>
  BY DEF Sort, stored, history
<1>2. S \in SUBSET catalog /\ chosen \subseteq catalog
  BY DEF IInv, TypeOK
<1>3. \A i \in DOMAIN order' : order'[i] \in S
  BY <1>1, <1>2, OrdersTypes DEF IInv
<1>4. \A q \in S : \E j \in DOMAIN order' : order'[j] = q
  BY <1>1, <1>2, OrdersComplete DEF IInv
<1>5. \A p : Present(p)' = Present(p)
  BY <1>1 DEF Present
<1>6. OrderAnswered'
  <2> SUFFICES ASSUME ~removed, NEW i \in DOMAIN order', NEW d \in order'[i].deps
               PROVE  \E q \in catalog : /\ Satisfies(q, d)
                                         /\ \/ local[q.name] # 0 /\ Present(q)
                                            \/ \E j \in DOMAIN order' : order'[j] = q
    BY <1>1, <1>5, SameCatalog DEF OrderAnswered
  <2>1. order'[i] \in chosen
    BY <1>3
  <2>2. PICK q \in chosen : Satisfies(q, d)
    BY <1>1, <2>1 DEF RInv, ChosenAnswered
  <2>3. CASE q.name \in flagged
    BY <1>1, <1>2, <2>2, <2>3 DEF RInv, ChosenAnswered
  <2>4. CASE q.name \notin flagged
    BY <1>2, <1>4, <2>2, <2>4
  <2> QED BY <2>3, <2>4
<1>7. OrderSorted'
  <2> SUFFICES ASSUME NEW j \in DOMAIN order', NEW k \in DOMAIN order',
                      DependsDirectly(order'[j], order'[k]), j # k
               PROVE  k < j \/ order'[j] \in DependsOn(order'[k], catalog)
    BY <1>1 DEF OrderSorted
  <2>1. order'[k] \in DependsOn(order'[j], S)
    BY <1>3, DirectlyDependsOn
  <2>2. order'[j] \in DependsOn(order'[k], S) => order'[j] \in DependsOn(order'[k], catalog)
    BY <1>2, DependsOnMore
  <2> QED BY <1>1, <2>1, <2>2 DEF Orders
<1>8. TaskWaits' /\ ChosenOrdered'
  BY <1>1, <1>4 DEF TaskWaits, ChosenOrdered
<1>9. ChosenAnswered'
  BY <1>1, <1>5, SameCatalog DEF RInv, ChosenAnswered
<1>10. DependenciesRegistered'
  BY <1>1, RegisteredSame
<1> QED BY <1>6, <1>7, <1>8, <1>9, <1>10 DEF RInv

\* What an installation registers has its dependencies present, or depended on by
\* what is still to come.
LEMMA InstallAnswered ==
  ASSUME IInv, RInv, ~removed,
         NEW i \in DOMAIN order, Install(i), NEW d \in order[i].deps, UnderstoodAlike(d)
  PROVE  \E q \in catalog : Satisfies(q, d) /\ (Present(q)' \/ order[i] \in DependsOn(q, catalog))
<1>1. /\ order[i].name \in Names /\ order[i].version # 0
      /\ local \in [Names -> Versions \cup {0}] /\ task[i] = "built"
      /\ local' = [local EXCEPT ![order[i].name] = order[i].version]
      /\ order \in Seq(catalog) /\ UNCHANGED passed
  BY OrderEntry DEF IInv, TypeOK, Install, history
<1>2. \A q \in catalog : q.name \in Names /\ (local[q.name] # 0 => local'[q.name] = local[q.name])
  BY <1>1, CatalogTypes DEF IInv, OrderKnown
<1>3. PICK q \in catalog : /\ Satisfies(q, d)
                           /\ \/ local[q.name] # 0 /\ Present(q)
                              \/ \E j \in DOMAIN order : order[j] = q
  BY DEF RInv, OrderAnswered
<1>4. CASE local[q.name] # 0 /\ Present(q)
  <2>1. Present(q)'
    BY <1>1, <1>2, <1>4, PresentStays
  <2> QED BY <1>3, <2>1
<1>5. ASSUME NEW j \in DOMAIN order, order[j] = q
      PROVE  \E r \in catalog : Satisfies(r, d) /\ (Present(r)' \/ order[i] \in DependsOn(r, catalog))
  <2>1. PICK k \in Provider(d.name) :
          k \in DOMAIN order /\ Satisfies(order[k], d) /\ DependsDirectly(order[i], order[k])
    BY <1>3, <1>5, ProviderAnswers DEF IInv
  <2>2. PICK r \in catalog : r = order[k] /\ r.version # 0
    BY <2>1, OrderEntry DEF IInv
  <2>3. CASE k = i
    <3>1. Present(r)'
      BY <1>1, <2>2, <2>3 DEF Present
    <3> QED BY <2>1, <2>2, <3>1
  <2>4. CASE k < i
    <3>1. k \in Preds(i)
      BY <2>1, <2>4 DEF Preds, Requirements
    <3>2. local[r.name] = r.version
      BY <1>1, <2>1, <2>2, <3>1 DEF RInv, TaskWaits
    <3>3. local[r.name] # 0 /\ Present(r)
      BY <2>2, <3>2 DEF Present
    <3>4. Present(r)'
      BY <1>1, <1>2, <2>2, <3>3, PresentStays
    <3> QED BY <2>1, <2>2, <3>4
  <2>5. CASE ~(k < i) /\ k # i
    BY <2>1, <2>2, <2>5 DEF RInv, OrderSorted
  <2> QED BY <2>3, <2>4, <2>5
<1> QED BY <1>3, <1>4, <1>5

LEMMA InstallRegistered ==
  ASSUME IInv, RInv, NEW i \in DOMAIN order, Install(i)
  PROVE  DependenciesRegistered'
<1>1. /\ order[i] \in catalog /\ order[i].name \in Names /\ order[i].version # 0
      /\ local \in [Names -> Versions \cup {0}] /\ task[i] = "built"
      /\ local' = [local EXCEPT ![order[i].name] = order[i].version]
      /\ UNCHANGED <<catalog, removed, passed>>
  BY OrderEntry DEF IInv, TypeOK, Install, history
<1>2. \A n \in Names : local[n] # 0 => local'[n] = local[n]
  BY <1>1 DEF IInv, OrderKnown
<1> SUFFICES ASSUME ~removed, NEW p \in catalog, local'[p.name] = p.version, NEW d \in p.deps, UnderstoodAlike(d)
             PROVE  \E q \in catalog : Satisfies(q, d) /\ (Present(q)' \/ p \in DependsOn(q, catalog))
  BY <1>1, SameCatalog DEF DependenciesRegistered
<1>3. CASE p.name = order[i].name
  <2>1. p.version = order[i].version
    BY <1>1, <1>3
  <2>2. p = order[i]
    BY <1>1, <1>3, <2>1, StoreAssumption DEF IInv, TypeOK
  <2> QED BY <2>2, InstallAnswered
<1>4. CASE p.name # order[i].name
  <2>1. p.name \in Names /\ local[p.name] = p.version
    BY <1>1, <1>4, CatalogTypes DEF IInv
  <2> QED BY <1>1, <1>2, <2>1, RegisteredStays
<1> QED BY <1>3, <1>4

LEMMA QueueRInv ==
  ASSUME IInv, RInv, NEW i \in DOMAIN order, QueueStep(i)
  PROVE  RInv'
<1>1. /\ UNCHANGED <<catalog, removed, passed, order, chosen, flagged>>
      /\ pc \in {"queue", "drain"} /\ pc' \in {"queue", "drain"}
      /\ \E t : task' = [task EXCEPT ![i] = t] /\ t # "pending"
      /\ task[i] # "installed"
      /\ task[i] = "pending" => MayTake(i)
  BY DEF QueueStep, Take, BeginArchive, EndArchive, BuildFails, Install, InstallFails, Running, To, MayTake,
         stored, history
<1>2. /\ order[i].name \in Names /\ order[i].version # 0
      /\ local \in [Names -> Versions \cup {0}]
      /\ DOMAIN task = DOMAIN order
  BY OrderEntry DEF IInv, TypeOK
<1>3. \/ local' = local /\ task'[i] # "installed"
      \/ Install(i) /\ local' = [local EXCEPT ![order[i].name] = order[i].version]
  BY <1>1, <1>2 DEF QueueStep, Take, BeginArchive, EndArchive, BuildFails, Install, InstallFails, To, stored
<1>4. \A n \in Names : local[n] # 0 => local'[n] = local[n]
  BY <1>1, <1>2, <1>3 DEF IInv, OrderKnown
<1>5. \A q \in catalog : local[q.name] # 0 /\ Present(q) => local'[q.name] # 0 /\ Present(q)'
  BY <1>1, <1>4, CatalogTypes, PresentStays DEF IInv
<1>6. OrderAnswered'
  BY <1>1, <1>5, SameCatalog DEF RInv, OrderAnswered
<1>7. OrderSorted'
  BY <1>1 DEF RInv, OrderSorted, DependsOn, DependsDirectly, Requirements, MeetsConstraint
<1>8. TaskWaits'
  <2>1. \A j \in DOMAIN order : Preds(j)' = Preds(j)
    BY <1>1 DEF Preds, Provider, Claims, Requirements
  <2>2. \A j \in DOMAIN order : j # i => task'[j] = task[j]
    BY <1>1, <1>2
  <2>3. ASSUME NEW j \in DOMAIN order, task'[j] # "pending", NEW m \in Preds(j) PROVE task'[m] = "installed"
    <3>1. task[m] = "installed"
      BY <1>1, <2>2, <2>3 DEF RInv, TaskWaits, MayTake
    <3>2. m \in DOMAIN order
      BY DEF Preds, Provider
    <3> QED BY <1>1, <2>2, <3>1, <3>2
  <2>4. ASSUME NEW j \in DOMAIN order, task'[j] = "installed" PROVE local'[order[j].name] = order[j].version
    <3>1. CASE j = i
      BY <1>2, <1>3, <2>4, <3>1
    <3>2. CASE j # i
      <4>1. order[j].name \in Names /\ order[j].version # 0
        BY OrderEntry DEF IInv
      <4>2. local[order[j].name] = order[j].version
        BY <2>2, <2>4, <3>2 DEF RInv, TaskWaits
      <4> QED BY <1>4, <4>1, <4>2
    <3> QED BY <3>1, <3>2
  <2> QED BY <1>1, <2>1, <2>3, <2>4 DEF TaskWaits
<1>9. ChosenOrdered'
  BY <1>1 DEF RInv, ChosenOrdered
<1>10. ChosenAnswered'
  <2>1. chosen \subseteq catalog
    BY DEF IInv, TypeOK
  <2> QED BY <1>1, <1>5, <2>1, SameCatalog DEF RInv, ChosenAnswered
<1>11. DependenciesRegistered'
  BY <1>1, <1>3, RegisteredSame, InstallRegistered
<1> QED BY <1>6, <1>7, <1>8, <1>9, <1>10, <1>11 DEF RInv

LEMMA NextRInv == IInv /\ RInv /\ [Next]_vars => RInv'
<1>1. ASSUME IInv, RInv, UNCHANGED vars PROVE RInv'
  <2>1. UNCHANGED <<catalog, local, removed, passed, pc, chosen, flagged, order, task>>
    BY <1>1 DEF vars, stored, history, process
  <2>2. DependenciesRegistered'
    BY <1>1, <2>1, RegisteredSame
  <2>3. \A p : Present(p)' = Present(p)
    BY <2>1 DEF Present
  <2>4. ChosenAnswered' /\ OrderAnswered' /\ ChosenOrdered'
    BY <1>1, <2>1, <2>3, SameCatalog DEF RInv, ChosenAnswered, OrderAnswered, ChosenOrdered
  <2>5. OrderSorted' /\ TaskWaits'
    BY <1>1, <2>1
    DEF RInv, OrderSorted, TaskWaits, Preds, Provider, Claims, Requirements, DependsOn, DependsDirectly,
        MeetsConstraint
  <2> QED BY <2>2, <2>4, <2>5 DEF RInv
<1> QED BY <1>1, CommandRInv, SortRInv, QueueRInv DEF Next

\* Of the running command: what is chosen is answered by what is chosen, which is
\* present or in the order, a task that was taken had what it waits for installed,
\* in its version.  Of the system: DependenciesRegistered.
THEOREM RegisterInvariant == Spec => []RInv
BY StoreInvariant, InitRInv, NextRInv, PTL DEF Spec

\* An installed package has each dependency that the solver and the sort understand
\* alike answered by a package that is present, or the two wait for each other,
\* whatever fails and wherever a process is killed, as long as nothing was removed.
THEOREM RegisteredInOrder == Spec => []DependenciesRegistered
<1>1. RInv => DependenciesRegistered
  BY DEF RInv
<1> QED BY <1>1, RegisterInvariant, PTL

\* A command that ends well leaves what it chose with each dependency answered by a
\* package that it chose and that is present, as long as nothing was removed.
THEOREM EndsAnswered == Spec => []ChosenPresent
<1>1. IInv /\ RInv => ChosenPresent
  <2> SUFFICES ASSUME IInv, RInv, AllDone, ~removed, NEW p \in chosen, NEW d \in p.deps
               PROVE  \E q \in chosen : Satisfies(q, d) /\ Present(q)
    BY DEF ChosenPresent
  <2>1. pc = "queue" /\ \A i \in DOMAIN order : task[i] = "installed"
    BY DEF AllDone
  <2>2. PICK q \in chosen : Satisfies(q, d)
    BY <2>1 DEF RInv, ChosenAnswered
  <2>3. CASE q.name \in flagged
    BY <2>1, <2>2, <2>3 DEF RInv, ChosenAnswered
  <2>4. CASE q.name \notin flagged
    <3>1. PICK i \in DOMAIN order : order[i] = q
      BY <2>1, <2>4 DEF RInv, ChosenOrdered
    <3> QED BY <2>1, <2>2, <3>1 DEF RInv, TaskWaits, Present
  <2> QED BY <2>3, <2>4
<1> QED BY <1>1, StoreInvariant, RegisterInvariant, PTL
=============================================================================
