--------------------------- MODULE Upgrade_proofs ---------------------------
(***************************************************************************)
(* Theorems about upgrade, install and remove with versions: types, what   *)
(* an upgrade leaves behind, and what a command may lower.                 *)
(*                                                                         *)
(* While nothing disturbs a command, rows and scripts are one, so the      *)
(* query of a request has one answer from the search to the end (Frozen).  *)
(* The invariant follows what is asked for through the command: the rows   *)
(* an upgrade found newer (AsksAgree), the targets and their files         *)
(* (TargetsAgree), the dependencies (DepsAgree), what is left to the       *)
(* system's manager (ManagerAgrees), and what was installed on the way     *)
(* (OwnAgrees).                                                            *)
(***************************************************************************)
EXTENDS Upgrade, WellFoundedInduction, SequenceTheorems, TLAPS

USE DEF handed

-----------------------------------------------------------------------------
(* Lemmas about versions *)

\* A version that is newer is not lower; one that is not newer is not
\* preceded, unless its epoch is lost in the comparison; and of two versions
\* one precedes the other or they agree in what a dependency looks at.
LEMMA Comparing ==
  ASSUME NEW v \in Versions, NEW w \in Versions
  PROVE  /\ Newer(v, w) => ~Precedes(v, w)
         /\ ~Newer(v, w) /\ ~(v.rel = 0 /\ v.epoch # 0) => ~Precedes(w, v)
         /\ ~Precedes(w, v) => Precedes(v, w) \/ v.ver = w.ver
         /\ ~Precedes(v, v)
<1>1. /\ v.epoch \in Nat /\ v.ver \in Nat /\ v.rel \in Nat
      /\ w.epoch \in Nat /\ w.ver \in Nat /\ w.rel \in Nat
  BY UpgradeAssumption
<1>2. QED
  BY <1>1 DEF Newer, Precedes

\* What a version satisfies, another one with the same number does.
LEMMA SameNumber ==
  ASSUME NEW v, NEW w, NEW a, v.ver = w.ver, Satisfies(v, a)
  PROVE  Satisfies(w, a)
BY DEF Satisfies

-----------------------------------------------------------------------------
(* Lemmas about queries *)

\* A query that finds a package returns one of those it finds.
LEMMA FirstIsFound ==
  ASSUME NEW S \in SUBSET Pkgs, S # {}
  PROVE  FirstRow(S) \in S
<1> DEFINE T == {i \in 1 .. Len(Packages) : Packages[i] \in S}
           R == OpToRel(<, Nat)
<1>1. Packages \in Seq(Pkgs) /\ Len(Packages) \in Nat
  BY UpgradeAssumption, LenProperties
<1>2. PICK q \in S : q \in Range(Packages)
  BY DEF Pkgs
<1>3. PICK k \in 1 .. Len(Packages) : Packages[k] = q
  BY <1>1, <1>2 DEF Range
<1>4. T # {} /\ T \subseteq Nat
  BY <1>1, <1>2, <1>3
<1>5. PICK m \in T : \A i \in T : ~(<<i, m>> \in R)
  <2> HIDE DEF T, R
  <2>1. IsWellFoundedOn(R, Nat)
    BY NatLessThanWellFounded DEF R
  <2> QED
    BY <1>4, <2>1, WFMin
<1>6. \A i \in T : ~(i < m)
  BY <1>4, <1>5 DEF OpToRel
<1>7. \A j \in 1 .. m - 1 : Packages[j] \notin S
  BY <1>1, <1>6
<1>8. \E i \in 1 .. Len(Packages) :
          Packages[i] \in S /\ \A j \in 1 .. i - 1 : Packages[j] \notin S
  BY <1>7
<1>9. QED
  BY <1>8 DEF FirstRow

\* What is found is in the database and meets the request.
LEMMA FoundRows ==
  ASSUME NEW a
  PROVE  /\ FindPkgs(a) \in SUBSET Pkgs
         /\ \A p \in FindPkgs(a) : rows[p] # NoVersion /\ Satisfies(rows[p], a)
BY DEF FindPkgs, Present

LEMMA NodeIsFound ==
  ASSUME NEW a, FindPkgs(a) # {}
  PROVE  /\ Node(a) = [ask |-> a, pkg |-> Node(a).pkg, ver |-> rows[Node(a).pkg]]
         /\ Node(a).pkg \in FindPkgs(a)
         /\ Node(a).pkg \in Pkgs
         /\ rows[Node(a).pkg] # NoVersion
         /\ Satisfies(rows[Node(a).pkg], a)
<1>1. PICK p : p = FirstRow(FindPkgs(a))
  OBVIOUS
<1>2. p \in FindPkgs(a)
  BY <1>1, FirstIsFound, FoundRows
<1>3. Node(a) = [ask |-> a, pkg |-> p, ver |-> rows[p]]
  BY <1>1 DEF Node
<1>4. QED
  BY <1>2, <1>3, FoundRows

LEMMA LikeIsFound ==
  ASSUME NEW p, Like(p) # {}
  PROVE  /\ FirstRow(Like(p)) \in Pkgs
         /\ rows[FirstRow(Like(p))] # NoVersion
<1>1. Like(p) \in SUBSET Pkgs /\ \A q \in Like(p) : rows[q] # NoVersion
  BY DEF Like, Present
<1>2. QED
  BY <1>1, FirstIsFound

\* The request an upgrade makes for a package finds that package alone.
LEMMA UpdateIsFound ==
  ASSUME NEW q \in Pkgs, rows[q] # NoVersion
  PROVE  /\ FindPkgs(UpdateAsk(q)) = {q}
         /\ Node(UpdateAsk(q)).pkg = q
<1>1. PICK a : a = UpdateAsk(q)
  OBVIOUS
<1>2. a.name = About[q].name /\ a.repo = About[q].repo /\ a.op = "none" /\ a.repo # NoName
  BY <1>1, UpgradeAssumption DEF UpdateAsk
<1>3. \A p \in Pkgs : About[p].name = a.name /\ a.repo \in {NoName, About[p].repo} => p = q
  BY <1>2, UpgradeAssumption DEF UpdateAsk
<1>4. Present({p \in Pkgs : About[p].name = a.name /\ a.repo \in {NoName, About[p].repo}}) = {q}
  BY <1>2, <1>3 DEF Present
<1>5. Satisfies(rows[q], a)
  BY <1>2 DEF Satisfies
<1>6. FindPkgs(a) = {q}
  BY <1>2, <1>4, <1>5 DEF FindPkgs
<1>7. QED
  BY <1>1, <1>6, NodeIsFound

\* The tree has what is asked for, and what any of its packages depends on.
LEMMA TreeIsClosed ==
  ASSUME NEW A
  PROVE  /\ Tree(A) \in SUBSET Pkgs
         /\ Direct(A) \subseteq Tree(A)
         /\ \A p \in Tree(A) : Direct(About[p].depends) \subseteq Tree(A)
<1>1. \A B : Direct(B) \in SUBSET Pkgs
  BY NodeIsFound DEF Direct, Found
<1>2. PICK roots : roots = Direct(A)
  OBVIOUS
<1>3. PICK below : below = [q \in Pkgs |-> Direct(About[q].depends)]
  OBVIOUS
<1>4. Tree(A) = {p \in Pkgs : \A P \in SUBSET Pkgs :
          (roots \subseteq P /\ \A q \in P : below[q] \subseteq P) => p \in P}
  BY <1>2, <1>3 DEF Tree
<1>5. \A q \in Pkgs : below[q] = Direct(About[q].depends) /\ below[q] \in SUBSET Pkgs
  BY <1>1, <1>3
<1>6. roots \subseteq Tree(A)
  BY <1>1, <1>2, <1>4
<1>7. \A p \in Tree(A) : below[p] \subseteq Tree(A)
  BY <1>4, <1>5
<1>8. QED
  BY <1>2, <1>4, <1>5, <1>6, <1>7

\* As long as the rows, what is asked for and what the manager is preferred
\* for stay, so does every answer.
LEMMA FrozenQueries ==
  ASSUME rows' = rows, preferred' = preferred
  PROVE  /\ \A a : FindPkgs(a)' = FindPkgs(a) /\ Node(a)' = Node(a)
         /\ \A p : Like(p)' = Like(p)
         /\ \A A : Found(A)' = Found(A) /\ Direct(A)' = Direct(A)
<1>1. \A S : Present(S)' = Present(S)
  BY DEF Present
<1>2. \A a : FindPkgs(a)' = FindPkgs(a)
  BY DEF FindPkgs, Present
<1>3. \A a : Node(a)' = Node(a)
  BY <1>2 DEF Node
<1>4. \A p : Like(p)' = Like(p)
  BY DEF Like, Present
<1>5. \A A : Found(A)' = Found(A)
  BY <1>2 DEF Found
<1>6. \A A : Direct(A)' = Direct(A)
  BY <1>3, <1>5 DEF Direct
<1>7. QED
  BY <1>2, <1>3, <1>4, <1>5, <1>6

LEMMA Frozen ==
  ASSUME rows' = rows, asks' = asks, preferred' = preferred
  PROVE  /\ Found(asks)' = Found(asks)
         /\ Tree(asks)' = Tree(asks)
         /\ Found(Needed(asks))' = Found(Needed(asks))
         /\ ManagerAgrees' = (system' = (asks \cup Needed(asks))
                                         \ Found(asks \cup Needed(asks)))
<1>1. Found(asks)' = Found(asks)
  BY FrozenQueries DEF Found
<1>2. Direct(asks)' = Direct(asks)
  BY <1>1, FrozenQueries DEF Direct
<1>3. Tree(asks)' = Tree(asks)
  <2>1. PICK roots : roots = Direct(asks)
    OBVIOUS
  <2>2. PICK below : below = [q \in Pkgs |-> Direct(About[q].depends)]
    OBVIOUS
  <2>3. Direct(asks)' = roots /\ [q \in Pkgs |-> Direct(About[q].depends)]' = below
    BY <1>2, <2>1, <2>2, FrozenQueries
  <2>4. Tree(asks) = {p \in Pkgs : \A P \in SUBSET Pkgs :
           (roots \subseteq P /\ \A q \in P : below[q] \subseteq P) => p \in P}
    BY <2>1, <2>2 DEF Tree
  <2>5. Tree(asks)' = {p \in Pkgs : \A P \in SUBSET Pkgs :
           (roots \subseteq P /\ \A q \in P : below[q] \subseteq P) => p \in P}
    BY <2>3 DEF Tree
  <2> QED
    BY <2>4, <2>5
<1>4. Needed(asks)' = Needed(asks)
  BY <1>3 DEF Needed
<1>5. Found(Needed(asks))' = Found(Needed(asks))
  BY <1>4, FrozenQueries DEF Found
<1>6. ManagerAgrees' = (system' = (asks \cup Needed(asks)) \ Found(asks \cup Needed(asks)))
  <2>1. PICK wanted : wanted = asks \cup Needed(asks)
    OBVIOUS
  <2>2. (asks \cup Needed(asks))' = wanted
    BY <1>4, <2>1
  <2>3. Found(wanted)' = Found(wanted)
    BY FrozenQueries
  <2>4. ManagerAgrees' = (system' = wanted \ Found(wanted)')
    BY <2>2 DEF ManagerAgrees
  <2> QED
    BY <2>1, <2>3, <2>4
<1>7. QED
  BY <1>1, <1>3, <1>5, <1>6

-----------------------------------------------------------------------------
(* Lemmas about nodes and files *)

LEMMA AsksAreTyped ==
  /\ \A A \in Requests : A \in SUBSET Asks
  /\ \A p \in Pkgs : UpdateAsk(p) \in Asks /\ About[p].depends \subseteq Asks
<1>1. UNION Requests \subseteq Asks /\ UNION {About[p].depends : p \in Pkgs} \subseteq Asks
  BY DEF Asks
<1>2. \A p \in Pkgs : UpdateAsk(p) \in Asks
  BY DEF Asks
<1>3. ASSUME NEW A \in Requests, NEW a \in A
      PROVE  a \in Asks
  <2>1. a \in UNION Requests
    OBVIOUS
  <2> QED
    BY <1>1, <2>1
<1>4. ASSUME NEW p \in Pkgs, NEW a \in About[p].depends
      PROVE  a \in Asks
  <2>1. a \in UNION {About[q].depends : q \in Pkgs}
    OBVIOUS
  <2> QED
    BY <1>1, <2>1
<1>5. QED
  BY <1>2, <1>3, <1>4

LEMMA NodesAreTyped ==
  ASSUME TypeOK, NEW a \in Asks, FindPkgs(a) # {}
  PROVE  Node(a) \in Nodes
<1>1. Node(a).pkg \in Pkgs /\ rows[Node(a).pkg] \in Versions
  BY NodeIsFound DEF TypeOK, Held
<1>2. QED
  BY <1>1, NodeIsFound DEF Nodes

LEMMA NeededAreAsks == \A A : Needed(A) \subseteq Asks
<1>1. \A A : Tree(A) \subseteq Pkgs
  BY TreeIsClosed
<1>2. QED
  BY <1>1, AsksAreTyped DEF Needed

\* The file for a node is a file; while rows and scripts are one, it is that
\* of the package and the version of the node.
LEMMA FilesAreTyped ==
  ASSUME TypeOK, NEW n \in Nodes, NEW f \in FileFor(n)
  PROVE  f \in Files
<1>1. CASE f \in Cached(n)
  BY <1>1 DEF Cached, TypeOK
<1>2. CASE f \in Built(n)
  <2>1. scripts[n.pkg] \in Versions /\ n.pkg \in Pkgs /\ f = [pkg |-> n.pkg, ver |-> scripts[n.pkg]]
    BY <1>2 DEF Built, TypeOK, Held, Nodes
  <2> QED
    BY <2>1 DEF Files
<1>3. QED
  BY <1>1, <1>2 DEF FileFor

LEMMA FileOfNode ==
  ASSUME TypeOK, rows = scripts, NEW n \in Nodes, n = Node(n.ask), FindPkgs(n.ask) # {},
         NEW f \in FileFor(n)
  PROVE  f = FileOf(n) /\ f.pkg = n.pkg /\ f.ver = rows[n.pkg] /\ n.ver = rows[n.pkg]
<1>1. n.ver = rows[n.pkg]
  BY NodeIsFound
<1>2. f \in Files
  BY FilesAreTyped
<1>3. f.pkg = n.pkg /\ f.ver = n.ver
  <2>1. CASE f \in Cached(n)
    BY <2>1 DEF Cached
  <2>2. CASE f \in Built(n)
    BY <1>1, <2>2 DEF Built
  <2> QED
    BY <2>1, <2>2 DEF FileFor
<1>4. QED
  BY <1>1, <1>2, <1>3 DEF Files, FileOf

\* Installing files of different packages gives each its version and leaves
\* the other packages alone.
LEMMA Putting ==
  ASSUME NEW inst \in [Pkgs -> Held], NEW F \in SUBSET Files,
         \A f, g \in F : f.pkg = g.pkg => f = g
  PROVE  /\ Put(inst, F) \in [Pkgs -> Held]
         /\ \A f \in F : Put(inst, F)[f.pkg] = f.ver
         /\ \A p \in Pkgs : (\A f \in F : f.pkg # p) => Put(inst, F)[p] = inst[p]
<1>1. \A f \in F : f.pkg \in Pkgs /\ f.ver \in Held
  BY DEF Files, Held
<1>2. \A f \in F : (CHOOSE g \in F : g.pkg = f.pkg) = f
  OBVIOUS
<1>3. \A p \in Pkgs : Put(inst, F)[p] = IF \E f \in F : f.pkg = p
                                      THEN (CHOOSE f \in F : f.pkg = p).ver ELSE inst[p]
  BY DEF Put
<1>4. \A f \in F : Put(inst, F)[f.pkg] = f.ver
  BY <1>1, <1>2, <1>3
<1>5. \A p \in Pkgs : (\A f \in F : f.pkg # p) => Put(inst, F)[p] = inst[p]
  BY <1>3
<1>6. \A p \in Pkgs : Put(inst, F)[p] \in Held
  BY <1>1, <1>4, <1>5
<1>7. QED
  BY <1>4, <1>5, <1>6 DEF Put

-----------------------------------------------------------------------------
(* Types *)

LEMMA TypesInit == Init => TypeOK
<1> SUFFICES ASSUME Init PROVE TypeOK
  OBVIOUS
<1>1. rows \in [Pkgs -> Held] /\ installed \in [Pkgs -> Held] /\ scripts = rows
  BY UpgradeAssumption DEF Init, Held
<1>2. files \subseteq Files
  <2>1. \A p \in {q \in Pkgs : rows[q] # NoVersion} : [pkg |-> p, ver |-> rows[p]] \in Files
    BY <1>1 DEF Files, Held
  <2> QED
    BY <2>1 DEF Init
<1>3. seen \in [Pkgs -> Held]
  BY DEF Init, Held
<1>4. calls \in 0..MaxCalls /\ events \in 0..MaxEvents
  BY UpgradeAssumption DEF Init
<1>5. QED
  BY <1>1, <1>2, <1>3, <1>4 DEF Init, TypeOK, Over

LEMMA TypesResolve ==
  ASSUME TypeOK, Resolve
  PROVE  TypeOK'
<1>1. \A A \in SUBSET Asks : {Node(a) : a \in Found(A)} \subseteq Nodes
  BY NodesAreTyped DEF Found
<1>2. asks \in SUBSET Asks /\ Needed(asks) \in SUBSET Asks
  BY NeededAreAsks DEF TypeOK
<1>3. deps' \subseteq Nodes /\ targets' \subseteq Nodes /\ system' \subseteq Asks
  BY <1>1, <1>2 DEF Resolve
<1>4. pc' \in {"loop", "system"}
  BY DEF Resolve, Goto
<1>5. QED
  BY <1>3, <1>4 DEF TypeOK, Resolve, world, bounds

LEMMA TypesSearch ==
  ASSUME TypeOK, NEW p \in Pkgs, Search(p)
  PROVE  TypeOK'
<1>1. Like(p) \in SUBSET Pkgs
  BY DEF Like, Present
<1>2. asks' \subseteq Asks
  BY <1>1, AsksAreTyped DEF Search, TypeOK
<1>3. left' \subseteq Pkgs
  BY DEF Search, TypeOK
<1>4. QED
  BY <1>2, <1>3 DEF TypeOK, Search, world, bounds

LEMMA TypesTakeDependency ==
  ASSUME TypeOK, NEW n \in deps, TakeDependency(n)
  PROVE  TypeOK'
<1>1. n \in Nodes /\ deps' \subseteq Nodes
  BY DEF TakeDependency, TypeOK
<1>2. PICK f \in FileFor(n) : /\ files' = files \cup {f}
                              /\ installed' = Put(installed, {f})
                              /\ own' = own \cup {f.pkg}
  BY DEF TakeDependency
<1>3. f \in Files /\ f.pkg \in Pkgs
  BY <1>1, <1>2, FilesAreTyped DEF Files
<1>4. installed' \in [Pkgs -> Held]
  BY <1>2, <1>3, Putting DEF TypeOK
<1>5. files' \subseteq Files /\ ready \subseteq files' /\ own' \subseteq Pkgs
  BY <1>2, <1>3 DEF TypeOK
<1>6. QED
  BY <1>1, <1>4, <1>5 DEF TypeOK, TakeDependency, bounds

LEMMA TypesTakeTarget ==
  ASSUME TypeOK, NEW n \in targets, TakeTarget(n)
  PROVE  TypeOK'
<1>1. n \in Nodes /\ targets' \subseteq Nodes
  BY DEF TakeTarget, TypeOK
<1>2. PICK f \in FileFor(n) : files' = files \cup {f} /\ ready' = ready \cup {f}
  BY DEF TakeTarget
<1>3. f \in Files
  BY <1>1, <1>2, FilesAreTyped
<1>4. files' \subseteq Files /\ ready' \subseteq files'
  BY <1>2, <1>3 DEF TypeOK
<1>5. QED
  BY <1>1, <1>4 DEF TypeOK, TakeTarget, bounds

LEMMA TypesInstallTargets ==
  ASSUME TypeOK, InstallTargets
  PROVE  TypeOK'
<1>1. ready \in SUBSET Files /\ own' \subseteq Pkgs
  BY DEF TypeOK, InstallTargets, Files
<1>2. installed' \in [Pkgs -> Held]
  BY <1>1, Putting DEF TypeOK, InstallTargets
<1>3. QED
  BY <1>1, <1>2 DEF TypeOK, InstallTargets, Goto, Over, bounds

LEMMA TypesCall ==
  ASSUME TypeOK, InstallCmd \/ UpgradeCmd \/ RemoveCmd
  PROVE  TypeOK'
<1>1. /\ calls < MaxCalls => calls + 1 \in 0..MaxCalls
      /\ \A S \in Offers : S \subseteq Asks
  BY UpgradeAssumption DEF TypeOK
<1>2. CASE InstallCmd
  <2>1. PICK A \in Requests : Call("install", A) /\ Goto("resolve")
    BY <1>2 DEF InstallCmd
  <2>2. asks' \subseteq Asks
    BY <2>1, AsksAreTyped DEF Call
  <2> QED
    BY <1>1, <2>1, <2>2 DEF TypeOK, Call, Goto, world
<1>3. CASE UpgradeCmd
  BY <1>1, <1>3 DEF TypeOK, UpgradeCmd, Call, Goto, world
<1>4. CASE RemoveCmd
  <2>1. installed' \in [Pkgs -> Held]
    BY <1>4 DEF RemoveCmd, TypeOK, Held
  <2> QED
    BY <1>1, <1>4, <2>1 DEF TypeOK, RemoveCmd, Goto, Over
<1>5. QED
  BY <1>2, <1>3, <1>4

LEMMA TypesOthers ==
  ASSUME TypeOK, NEW p \in Pkgs, Checkout(p) \/ WriteRow(p) \/ OtherCommand(p)
  PROVE  TypeOK'
<1>0. Event
  BY DEF Checkout, WriteRow, OtherCommand
<1>1. events' \in 0..MaxEvents /\ disturbed' \in BOOLEAN /\ UNCHANGED <<command, calls>>
  <2>1. MaxEvents \in Nat
    BY UpgradeAssumption
  <2>2. events' \in 0..MaxEvents
    BY <1>0, <2>1 DEF TypeOK, Event
  <2> QED
    BY <1>0, <2>2 DEF Event
<1>2. rows' \in [Pkgs -> Held] /\ scripts' \in [Pkgs -> Held]
  BY DEF TypeOK, Checkout, WriteRow, OtherCommand
<1>3. installed' \in [Pkgs -> Held]
  <2>1. \A f \in files : f.ver \in Held
    BY DEF TypeOK, Files, Held
  <2>2. NoVersion \in Held
    BY DEF Held
  <2> QED
    BY <2>1, <2>2 DEF TypeOK, Checkout, WriteRow, OtherCommand
<1>4. files' = files
  BY DEF Checkout, WriteRow, OtherCommand
<1>5. QED
  BY <1>1, <1>2, <1>3, <1>4 DEF TypeOK, command

LEMMA TypesStep == TypeOK /\ [Next]_vars => TypeOK'
<1> SUFFICES ASSUME TypeOK, [Next]_vars PROVE TypeOK'
  OBVIOUS
<1>1. CASE UNCHANGED vars
  BY <1>1 DEF TypeOK, vars, world, command, bounds
<1>2. CASE Fail
  BY <1>2 DEF TypeOK, Fail, Goto, Over, world, bounds
<1>3. CASE ListInstalled
  BY <1>3 DEF TypeOK, ListInstalled, Goto, world, bounds
<1>4. CASE SearchEnds
  BY <1>4 DEF TypeOK, SearchEnds, Goto, Over, world, bounds
<1>5. CASE InstallSystemDeps
  BY <1>5 DEF TypeOK, InstallSystemDeps, Goto, world, bounds
<1>6. ASSUME NEW n \in deps, SkipDependency(n) PROVE TypeOK'
  BY <1>6 DEF TypeOK, SkipDependency, world, bounds
<1>7. QED
  BY <1>1, <1>2, <1>3, <1>4, <1>5, <1>6, TypesResolve, TypesSearch, TypesTakeDependency,
     TypesTakeTarget, TypesInstallTargets, TypesCall, TypesOthers DEF Next

\* Every variable keeps its type (TypeOK), in every database, with any number
\* of packages, commands and events.
THEOREM UpgradesAreTyped == Spec => []TypeOK
BY TypesInit, TypesStep, PTL DEF Spec

-----------------------------------------------------------------------------
(* What a step leaves alone *)

LEMMA AsksStay ==
  ASSUME AsksAgree, UNCHANGED <<rows, seen, kind, asks, left, preferred>>
  PROVE  AsksAgree'
<1>1. \A p : Like(p)' = Like(p)
  BY FrozenQueries
<1>2. \A p : Outdated(p)' = Outdated(p) /\ UpdateOf(p)' = UpdateOf(p)
  BY <1>1 DEF Outdated, UpdateOf
<1>3. QED
  BY <1>2 DEF AsksAgree

LEMMA OwnStays ==
  ASSUME OwnAgrees, UNCHANGED <<rows, seen, kind, asks, own, installed, preferred>>
  PROVE  OwnAgrees'
BY Frozen DEF OwnAgrees

LEMMA TargetsStay ==
  ASSUME TargetsAgree, UNCHANGED <<rows, asks, targets, ready, preferred>>
  PROVE  TargetsAgree'
BY Frozen, FrozenQueries DEF TargetsAgree, FileOf

LEMMA DepsStay ==
  ASSUME DepsAgree, UNCHANGED <<rows, asks, deps, installed, preferred>>
  PROVE  DepsAgree'
BY Frozen, FrozenQueries DEF DepsAgree, UpToDate

LEMMA ManagerStays ==
  ASSUME ManagerAgrees, UNCHANGED <<rows, asks, system, preferred>>
  PROVE  ManagerAgrees'
BY Frozen DEF ManagerAgrees

-----------------------------------------------------------------------------
(* The steps of a command *)

\* What one installed package adds to what is asked for.
LEMMA SearchAsks ==
  ASSUME AsksAgree, NEW p \in Pkgs, Search(p)
  PROVE  AsksAgree'
<1>0. /\ UNCHANGED <<rows, preferred, seen, kind>> /\ p \in left /\ left' = left \ {p}
      /\ asks' = asks \cup {UpdateAsk(q) : q \in
                     {r \in Like(p) : r = FirstRow(Like(p)) /\ Newer(rows[r], seen[p])}}
  BY DEF Search, world
<1>1. \A q : Like(q)' = Like(q)
  BY <1>0, FrozenQueries
<1>2. \A q : Outdated(q)' = Outdated(q) /\ UpdateOf(q)' = UpdateOf(q)
  BY <1>0, <1>1 DEF Outdated, UpdateOf
<1>3. SUFFICES ASSUME kind = "upgrade" PROVE AsksAgree'
  BY <1>0 DEF AsksAgree
<1>4. seen[p] # NoVersion
  BY <1>0, <1>3 DEF AsksAgree
<1>5. \A a \in asks' \ asks : Outdated(p) /\ a = UpdateOf(p)
  BY <1>0, <1>4 DEF Outdated, UpdateOf
<1>6. Outdated(p) => UpdateOf(p) \in asks'
  <2> SUFFICES ASSUME Outdated(p) PROVE UpdateOf(p) \in asks'
    OBVIOUS
  <2>1. Like(p) \in SUBSET Pkgs
    BY DEF Like, Present
  <2>2. FirstRow(Like(p)) \in Like(p)
    BY <2>1, FirstIsFound DEF Outdated
  <2> QED
    BY <1>0, <2>2 DEF Outdated, UpdateOf
<1>7. \A a \in asks' : \E q \in Pkgs : Outdated(q) /\ a = UpdateOf(q)
  BY <1>3, <1>5 DEF AsksAgree
<1>8. \A q \in Pkgs : Outdated(q) => q \in left' \/ UpdateOf(q) \in asks'
  BY <1>0, <1>3, <1>6 DEF AsksAgree
<1>9. \A q \in left' : seen[q] # NoVersion
  BY <1>0, <1>3 DEF AsksAgree
<1>10. QED
  BY <1>0, <1>2, <1>7, <1>8, <1>9 DEF AsksAgree

LEMMA ResolveAgrees ==
  ASSUME TypeOK, Resolve, ready = {}
  PROVE  TargetsAgree' /\ DepsAgree' /\ ManagerAgrees'
<1>0. /\ UNCHANGED <<rows, preferred, asks, ready>>
      /\ targets' = {Node(a) : a \in Found(asks)}
      /\ deps' = {Node(a) : a \in Found(Needed(asks))}
  BY DEF Resolve, world
<1>1. \A A : \A a \in Found(A) : Node(a).ask = a
  BY NodeIsFound DEF Found
<1>2. TargetsAgree'
  BY <1>0, <1>1, Frozen, FrozenQueries DEF TargetsAgree
<1>3. DepsAgree'
  BY <1>0, <1>1, Frozen, FrozenQueries DEF DepsAgree
<1>4. ManagerAgrees'
  BY <1>0, Frozen DEF Resolve
<1>5. QED
  BY <1>2, <1>3, <1>4

LEMMA SkipAgrees ==
  ASSUME DepsAgree, NEW n \in deps, SkipDependency(n)
  PROVE  DepsAgree'
<1>0. /\ UNCHANGED <<rows, preferred, asks, installed>> /\ deps' = deps \ {n}
      /\ installed[n.pkg] # NoVersion /\ ~Newer(n.ver, installed[n.pkg])
  BY DEF SkipDependency, world
<1>1. n.ask \in Found(Needed(asks)) /\ n = Node(n.ask)
  BY DEF DepsAgree
<1>2. n.ver = rows[n.pkg]
  BY <1>1, NodeIsFound DEF Found
<1>3. UpToDate(n.pkg)
  BY <1>0, <1>2 DEF UpToDate
<1>4. \A p : UpToDate(p)' = UpToDate(p)
  BY <1>0 DEF UpToDate
<1>5. \A a \in Found(Needed(asks)) : Node(a) \in deps' \/ UpToDate(Node(a).pkg)
  BY <1>0, <1>3 DEF DepsAgree
<1>6. QED
  BY <1>0, <1>4, <1>5, Frozen, FrozenQueries DEF DepsAgree

\* What is needed, and is there, is of a package of the tree.
LEMMA NeededInTree ==
  ASSUME NEW A, NEW a \in Found(A) \cup Found(Needed(A))
  PROVE  Node(a).pkg \in Tree(A)
<1>1. CASE a \in Found(A)
  <2>1. Node(a).pkg \in Direct(A)
    BY <1>1 DEF Direct
  <2> QED
    BY <2>1, TreeIsClosed
<1>2. CASE a \in Found(Needed(A))
  <2>1. PICK p \in Tree(A) : a \in About[p].depends
    BY <1>2 DEF Found, Needed
  <2>2. a \in Found(About[p].depends)
    BY <1>2, <2>1 DEF Found
  <2>3. Node(a).pkg \in Direct(About[p].depends)
    BY <2>2 DEF Direct
  <2> QED
    BY <2>3, TreeIsClosed
<1>3. QED
  BY <1>1, <1>2

LEMMA TakeDependencyAgrees ==
  ASSUME TypeOK, rows = scripts, DepsAgree, OwnAgrees, NEW n \in deps, TakeDependency(n)
  PROVE  /\ DepsAgree' /\ OwnAgrees'
         /\ installed' \in [Pkgs -> Held]
         /\ n.pkg \in Pkgs /\ rows[n.pkg] \in Versions
         /\ installed'[n.pkg] = rows[n.pkg]
         /\ \A p \in Pkgs \ {n.pkg} : installed'[p] = installed[p]
<1>0. UNCHANGED <<rows, preferred, asks, kind, seen>> /\ deps' = deps \ {n}
  BY DEF TakeDependency
<1>1. n \in Nodes /\ n.ask \in Found(Needed(asks)) /\ n = Node(n.ask)
  BY DEF DepsAgree, TypeOK
<1>2. PICK f \in FileFor(n) : /\ installed' = Put(installed, {f})
                              /\ own' = own \cup {f.pkg}
  BY DEF TakeDependency
<1>3. f.pkg = n.pkg /\ f.ver = rows[n.pkg] /\ f \in Files
  BY <1>1, <1>2, FileOfNode, FilesAreTyped DEF Found
<1>4. n.pkg \in Pkgs /\ rows[n.pkg] \in Versions
  BY <1>1, NodeIsFound DEF Found, TypeOK, Held, Nodes
<1>5. /\ installed' \in [Pkgs -> Held]
      /\ installed'[n.pkg] = rows[n.pkg]
      /\ \A p \in Pkgs \ {n.pkg} : installed'[p] = installed[p]
  BY <1>2, <1>3, Putting DEF TypeOK
<1>6. \A p \in Pkgs : UpToDate(p) => UpToDate(p)'
  BY <1>0, <1>4, <1>5, UpgradeAssumption DEF UpToDate
<1>7. UpToDate(n.pkg)'
  BY <1>0, <1>4, <1>5, UpgradeAssumption DEF UpToDate
<1>8. \A a \in Found(Needed(asks)) : Node(a) \in deps' \/ UpToDate(Node(a).pkg)'
  <2> SUFFICES ASSUME NEW a \in Found(Needed(asks))
               PROVE  Node(a) \in deps' \/ UpToDate(Node(a).pkg)'
    OBVIOUS
  <2>1. PICK m : m = Node(a)
    OBVIOUS
  <2>2. PICK k \in Pkgs : k = m.pkg
    BY <2>1, NodeIsFound DEF Found
  <2>3. m \in deps \/ UpToDate(k)
    BY <2>1, <2>2 DEF DepsAgree
  <2>4. m \in deps' \/ UpToDate(k)'
    BY <1>0, <1>6, <1>7, <2>2, <2>3
  <2>5. Node(a)' = m /\ Node(a) = m
    BY <1>0, <2>1, FrozenQueries
  <2> QED
    BY <2>2, <2>4, <2>5 DEF UpToDate
<1>9. DepsAgree'
  BY <1>0, <1>8, Frozen, FrozenQueries DEF DepsAgree, UpToDate
<1>10. OwnAgrees'
  <2>1. n.pkg \in Tree(asks)
    BY <1>1, NeededInTree
  <2>2. \A p \in own' : p \in Tree(asks) /\ installed'[p] = rows[p]
    BY <1>2, <1>3, <1>5, <2>1, TreeIsClosed DEF OwnAgrees, TypeOK
  <2>3. kind = "upgrade" => \A p \in Pkgs \ own' : installed'[p] = seen[p]
    BY <1>2, <1>3, <1>5 DEF OwnAgrees
  <2> QED
    BY <1>0, <2>2, <2>3, Frozen DEF OwnAgrees
<1>11. QED
  BY <1>4, <1>5, <1>9, <1>10

LEMMA TakeTargetAgrees ==
  ASSUME TypeOK, rows = scripts, TargetsAgree, NEW n \in targets, TakeTarget(n)
  PROVE  TargetsAgree'
<1>0. UNCHANGED <<rows, preferred, asks>> /\ targets' = targets \ {n}
  BY DEF TakeTarget
<1>1. n \in Nodes /\ n.ask \in Found(asks) /\ n = Node(n.ask)
  BY DEF TargetsAgree, TypeOK
<1>2. PICK f \in FileFor(n) : ready' = ready \cup {f}
  BY DEF TakeTarget
<1>3. f = FileOf(n)
  BY <1>1, <1>2, FileOfNode DEF Found
<1>4. \A a \in Found(asks) : Node(a) \in targets' \/ FileOf(Node(a)) \in ready'
  BY <1>0, <1>2, <1>3 DEF TargetsAgree
<1>5. \A g \in ready' : \E a \in Found(asks) : g = FileOf(Node(a))
  BY <1>1, <1>2, <1>3 DEF TargetsAgree
<1>6. \A m \in targets' : m.ask \in Found(asks) /\ m = Node(m.ask)
  BY <1>0 DEF TargetsAgree
<1>7. QED
  BY <1>0, <1>4, <1>5, <1>6, Frozen, FrozenQueries DEF TargetsAgree, FileOf

\* Installing the targets brings each to its row's version and leaves the
\* others alone.
LEMMA TargetsInstalled ==
  ASSUME TypeOK, TargetsAgree, InstallTargets
  PROVE  /\ \A a \in Found(asks) : installed'[Node(a).pkg] = rows[Node(a).pkg]
         /\ \A p \in Pkgs :
               \/ installed'[p] = installed[p]
               \/ installed'[p] = rows[p] /\ \E a \in Found(asks) : p = Node(a).pkg
         /\ \A p \in own' : p \in own \/ \E a \in Found(asks) : p = Node(a).pkg
<1>0. /\ targets = {} /\ installed' = Put(installed, ready)
      /\ \A f, g \in ready : f.pkg = g.pkg => f = g
      /\ own' = own \cup {f.pkg : f \in ready}
  BY DEF InstallTargets
<1>1. ready \in SUBSET Files /\ installed \in [Pkgs -> Held]
  BY DEF TypeOK
<1>2. /\ \A f \in ready : installed'[f.pkg] = f.ver
      /\ \A p \in Pkgs : (\A f \in ready : f.pkg # p) => installed'[p] = installed[p]
  BY <1>0, <1>1, Putting
<1>3. \A a \in Found(asks) : /\ FileOf(Node(a)).pkg = Node(a).pkg
                             /\ FileOf(Node(a)).ver = rows[Node(a).pkg]
  BY NodeIsFound DEF FileOf, Found
<1>4. \A a \in Found(asks) : FileOf(Node(a)) \in ready
  BY <1>0 DEF TargetsAgree
<1>5. \A f \in ready : \E a \in Found(asks) : f.pkg = Node(a).pkg /\ f.ver = rows[Node(a).pkg]
  BY <1>3 DEF TargetsAgree
<1>6. \A a \in Found(asks) : installed'[Node(a).pkg] = rows[Node(a).pkg]
  BY <1>2, <1>3, <1>4
<1>7. \A p \in Pkgs :
         \/ installed'[p] = installed[p]
         \/ installed'[p] = rows[p] /\ \E a \in Found(asks) : p = Node(a).pkg
  BY <1>2, <1>5
<1>8. QED
  BY <1>0, <1>5, <1>6, <1>7

-----------------------------------------------------------------------------
(* What a command that succeeds has done *)

\* A package that is looked up and compared rightly, and that the upgrade
\* does not ask for, was not older than its row.
LEMMA NotBehind ==
  ASSUME TypeOK, AsksAgree, kind = "upgrade", left = {},
         NEW p \in Pkgs, seen[p] # NoVersion, rows[p] # NoVersion,
         ~Misled(p), ~EpochLost(p), UpdateAsk(p) \notin asks
  PROVE  ~Precedes(seen[p], rows[p])
<1>1. p \in Like(p)
  BY UpgradeAssumption DEF Like, Present
<1>2. FirstRow(Like(p)) = p
  BY <1>1 DEF Misled
<1>3. ~Outdated(p)
  BY <1>2 DEF AsksAgree, UpdateOf
<1>4. ~Newer(rows[p], seen[p])
  BY <1>1, <1>2, <1>3 DEF Outdated
<1>5. seen[p] \in Versions /\ rows[p] \in Versions
  BY DEF TypeOK, Held
<1>6. QED
  BY <1>4, <1>5, Comparing DEF EpochLost

\* When the search finds nothing to do, there is nothing.
LEMMA NothingToDo ==
  ASSUME TypeOK, CommandAgrees, SearchEnds
  PROVE  NothingLeft'
<1>0. /\ pc = "search" /\ left = {} /\ pc' = IF asks = {} THEN "ok" ELSE "resolve"
      /\ UNCHANGED <<rows, preferred, installed, kind, own, disturbed>>
  BY DEF SearchEnds, Goto, world
<1>1. SUFFICES ASSUME pc' = "ok" PROVE NothingLeft'
  BY DEF NothingLeft
<1>2. asks = {} /\ own = {} /\ AsksAgree /\ OwnAgrees
  BY <1>0, <1>1 DEF CommandAgrees
<1>3. ASSUME kind = "upgrade", NEW p \in Pkgs, installed[p] # NoVersion, rows[p] # NoVersion,
             ~Misled(p), ~EpochLost(p)
      PROVE  ~Precedes(installed[p], rows[p])
  <2>1. seen[p] = installed[p]
    BY <1>2, <1>3 DEF OwnAgrees
  <2> QED
    BY <1>0, <1>2, <1>3, <2>1, NotBehind
<1>4. \A p : Misled(p)' = Misled(p) /\ EpochLost(p)' = EpochLost(p)
  BY <1>0, FrozenQueries DEF Misled, EpochLost
<1>5. QED
  BY <1>0, <1>2, <1>3, <1>4 DEF NothingLeft

LEMMA AllIsDone ==
  ASSUME TypeOK, CommandAgrees, InstallTargets
  PROVE  NothingLeft'
<1>0. /\ pc = "loop" /\ deps = {} /\ targets = {} /\ left = {}
      /\ UNCHANGED <<rows, preferred, kind, asks, disturbed>>
      /\ AsksAgree /\ OwnAgrees /\ TargetsAgree /\ DepsAgree /\ ManagerAgrees
      /\ given' = system
  BY DEF CommandAgrees, InstallTargets
<1>1. /\ \A a \in Found(asks) : installed'[Node(a).pkg] = rows[Node(a).pkg]
      /\ \A p \in Pkgs :
            \/ installed'[p] = installed[p]
            \/ installed'[p] = rows[p] /\ \E a \in Found(asks) : p = Node(a).pkg
      /\ \A p \in own' : p \in own \/ \E a \in Found(asks) : p = Node(a).pkg
  BY <1>0, TargetsInstalled
<1>2. \A p : rows[p] # NoVersion /\ p \in Pkgs => rows[p] \in Versions
  BY DEF TypeOK, Held
<1>3. ASSUME kind = "upgrade", NEW p \in Pkgs, installed'[p] # NoVersion, rows[p] # NoVersion,
             ~Misled(p), ~EpochLost(p), UpdateAsk(p) \notin system
      PROVE  ~Precedes(installed'[p], rows[p])
  <2>1. CASE installed'[p] = rows[p]
    BY <1>2, <1>3, <2>1, Comparing
  <2>2. CASE installed'[p] # rows[p]
    <3>1. installed'[p] = installed[p] /\ seen[p] = installed[p]
      BY <1>0, <1>1, <1>3, <2>2 DEF OwnAgrees
    <3>2. UpdateAsk(p) \notin asks
      <4> SUFFICES ASSUME UpdateAsk(p) \in asks PROVE FALSE
        OBVIOUS
      <4>1. PICK a \in asks : a = UpdateAsk(p)
        OBVIOUS
      <4>2. FindPkgs(a) = {p} /\ Node(a).pkg = p
        BY <1>3, <4>1, UpdateIsFound
      <4>3. a \in Found(asks)
        BY <1>0, <1>3, <4>1, <4>2 DEF ManagerAgrees, Found
      <4> QED
        BY <1>1, <2>2, <4>2, <4>3
    <3> QED
      BY <1>0, <1>3, <3>1, <3>2, NotBehind
  <2> QED
    BY <2>1, <2>2
<1>4. ASSUME NEW p \in own', NEW a \in About[p].depends, a \notin system,
             NEW q, q = FirstRow(FindPkgs(a))
      PROVE  /\ FindPkgs(a) # {}
             /\ installed'[q] # NoVersion
             /\ \/ Satisfies(installed'[q], a) \/ Precedes(rows[q], installed'[q])
                \/ EpochLost(q)
  <2>1. p \in Tree(asks)
    BY <1>0, <1>1, NeededInTree DEF OwnAgrees
  <2>2. a \in Found(asks) \cup Found(Needed(asks)) /\ FindPkgs(a) # {}
    <3>1. a \in asks \cup Needed(asks)
      BY <1>4, <2>1 DEF Needed
    <3> QED
      BY <1>0, <1>4, <3>1 DEF ManagerAgrees, Found
  <2>3. q = Node(a).pkg
    BY <1>4 DEF Node
  <2>4. q \in Pkgs /\ rows[q] \in Versions /\ Satisfies(rows[q], a) /\ rows[q] # NoVersion
    BY <1>2, <2>2, <2>3, NodeIsFound
  <2>5. CASE installed'[q] = rows[q]
    BY <2>2, <2>4, <2>5
  <2>6. CASE installed'[q] # rows[q]
    <3>1. installed'[q] = installed[q] /\ a \in Found(Needed(asks))
      BY <1>1, <2>2, <2>3, <2>4, <2>6
    <3>2. UpToDate(q)
      BY <1>0, <2>3, <3>1 DEF DepsAgree
    <3>3. installed[q] \in Versions /\ ~Newer(rows[q], installed[q])
      BY <2>4, <2>6, <3>1, <3>2 DEF UpToDate, TypeOK, Held
    <3>4. CASE EpochLost(q)
      BY <2>2, <3>1, <3>3, <3>4, UpgradeAssumption
    <3>5. CASE ~EpochLost(q)
      <4>1. Precedes(rows[q], installed[q]) \/ rows[q].ver = installed[q].ver
        BY <2>4, <3>3, <3>5, Comparing DEF EpochLost
      <4>2. rows[q].ver = installed[q].ver => Satisfies(installed[q], a)
        BY <2>4, SameNumber
      <4> QED
        BY <2>2, <3>1, <3>3, <4>1, <4>2, UpgradeAssumption
    <3> QED
      BY <3>4, <3>5
  <2> QED
    BY <2>5, <2>6
<1>5. \A p : Misled(p)' = Misled(p) /\ EpochLost(p)' = EpochLost(p)
  BY <1>0, FrozenQueries DEF Misled, EpochLost
<1>6. (/\ kind = "upgrade" =>
             \A p \in Pkgs : (installed[p] # NoVersion /\ rows[p] # NoVersion) =>
                 \/ ~Precedes(installed[p], rows[p])
                 \/ Misled(p) \/ EpochLost(p) \/ UpdateAsk(p) \in given)'
  BY <1>0, <1>3, <1>5
<1>7. \A a : FindPkgs(a)' = FindPkgs(a)
  BY <1>0, FrozenQueries
<1>8. QED
  BY <1>0, <1>4, <1>5, <1>6, <1>7 DEF NothingLeft

-----------------------------------------------------------------------------
(* The invariant *)

LEMMA InvInit == Init => UpgradeInv
<1> SUFFICES ASSUME Init PROVE UpgradeInv
  OBVIOUS
<1>1. TypeOK
  BY TypesInit
<1>2. rows = scripts /\ pc = "idle"
  BY DEF Init
<1>3. CommandAgrees
  BY <1>2 DEF CommandAgrees
<1>4. NothingLeft
  BY <1>2 DEF NothingLeft
<1>5. QED
  BY <1>1, <1>2, <1>3, <1>4 DEF UpgradeInv

\* A new command starts with nothing done; rows and scripts may disagree
\* from the start, and then it is disturbed.
LEMMA CallAgrees ==
  ASSUME UpgradeInv, InstallCmd \/ UpgradeCmd \/ RemoveCmd
  PROVE  /\ ~disturbed' => rows' = scripts' /\ CommandAgrees'
         /\ NothingLeft'
<1>1. CASE InstallCmd
  <2>1. /\ pc' = "resolve" /\ kind' = "install" /\ left' = {} /\ ready' = {} /\ own' = {} /\ given' = {}
        /\ disturbed' = (rows # scripts) /\ UNCHANGED <<rows, scripts>>
    BY <1>1 DEF InstallCmd, Call, Goto, world
  <2>2. AsksAgree' /\ OwnAgrees'
    BY <2>1 DEF AsksAgree, OwnAgrees
  <2>3. CommandAgrees' /\ NothingLeft'
    BY <2>1, <2>2 DEF CommandAgrees, NothingLeft
  <2> QED
    BY <2>1, <2>3
<1>2. CASE UpgradeCmd
  <2>1. /\ pc' = "list" /\ ready' = {} /\ own' = {} /\ given' = {} /\ asks' = {}
        /\ disturbed' = (rows # scripts) /\ UNCHANGED <<rows, scripts>>
    BY <1>2 DEF UpgradeCmd, Call, Goto, world
  <2>2. CommandAgrees' /\ NothingLeft'
    BY <2>1 DEF CommandAgrees, NothingLeft
  <2> QED
    BY <2>1, <2>2
<1>3. CASE RemoveCmd
  <2>1. pc' = "idle" /\ UNCHANGED <<rows, scripts, disturbed>>
    BY <1>3 DEF RemoveCmd, Goto
  <2>2. CommandAgrees' /\ NothingLeft'
    BY <2>1 DEF CommandAgrees, NothingLeft
  <2> QED
    BY <2>1, <2>2 DEF UpgradeInv
<1>4. QED
  BY <1>1, <1>2, <1>3

\* The steps of an undisturbed command.
LEMMA ListAgrees ==
  ASSUME UpgradeInv, ~disturbed, ListInstalled
  PROVE  CommandAgrees'
<1>1. /\ pc = "list" /\ pc' = "search" /\ seen' = installed
      /\ left' = {p \in Pkgs : installed[p] # NoVersion}
      /\ UNCHANGED <<rows, preferred, installed, kind, asks, ready, own, given>>
  BY DEF ListInstalled, Goto, world
<1>2. ready' = {} /\ own' = {} /\ given' = {} /\ asks' = {}
  BY <1>1 DEF UpgradeInv, CommandAgrees
<1>3. AsksAgree'
  <2>1. \A p \in Pkgs : Outdated(p)' => p \in left'
    BY <1>1 DEF Outdated
  <2>2. \A p \in left' : seen'[p] # NoVersion
    BY <1>1
  <2> QED
    BY <1>2, <2>1, <2>2 DEF AsksAgree
<1>4. OwnAgrees'
  BY <1>1, <1>2 DEF OwnAgrees
<1>5. QED
  BY <1>1, <1>2, <1>3, <1>4 DEF CommandAgrees

LEMMA SearchAgrees ==
  ASSUME UpgradeInv, ~disturbed, NEW p \in Pkgs, Search(p)
  PROVE  CommandAgrees'
<1>1. /\ pc = "search" /\ UNCHANGED <<rows, preferred, installed, pc, kind, seen, ready, own, given>>
      /\ asks \subseteq asks'
  BY DEF Search, world
<1>2. ready = {} /\ own = {} /\ given = {} /\ AsksAgree /\ OwnAgrees
  BY <1>1 DEF UpgradeInv, CommandAgrees
<1>3. AsksAgree'
  BY <1>2, SearchAsks
<1>4. OwnAgrees'
  BY <1>1, <1>2 DEF OwnAgrees
<1>5. QED
  BY <1>1, <1>2, <1>3, <1>4 DEF CommandAgrees

LEMMA SearchEndsAgrees ==
  ASSUME UpgradeInv, ~disturbed, SearchEnds
  PROVE  CommandAgrees' /\ NothingLeft'
<1>1. /\ pc = "search" /\ pc' \in {"ok", "resolve"} /\ left = {}
      /\ UNCHANGED <<rows, preferred, installed, kind, seen, left, asks, ready,
                     own, given>>
  BY DEF SearchEnds, Goto, world
<1>2. ready = {} /\ own = {} /\ given = {} /\ AsksAgree /\ OwnAgrees
  BY <1>1 DEF UpgradeInv, CommandAgrees
<1>3. AsksAgree' /\ OwnAgrees'
  BY <1>1, <1>2, AsksStay, OwnStays
<1>4. CommandAgrees'
  BY <1>1, <1>2, <1>3 DEF CommandAgrees
<1>5. QED
  BY <1>4, NothingToDo DEF UpgradeInv

LEMMA ResolvesAgrees ==
  ASSUME UpgradeInv, ~disturbed, Resolve
  PROVE  CommandAgrees'
<1>1. /\ pc = "resolve" /\ pc' \in {"loop", "system"}
      /\ UNCHANGED <<rows, preferred, installed, kind, seen, left, asks, ready, own>>
  BY DEF Resolve, Goto, world
<1>2. left = {} /\ ready = {} /\ own = {} /\ AsksAgree /\ OwnAgrees
  BY <1>1 DEF UpgradeInv, CommandAgrees
<1>3. AsksAgree' /\ OwnAgrees'
  BY <1>1, <1>2, AsksStay, OwnStays
<1>4. TargetsAgree' /\ DepsAgree' /\ ManagerAgrees'
  BY <1>2, ResolveAgrees DEF UpgradeInv
<1>5. given' = {} /\ (pc' = "loop" => system' = {})
  BY <1>1 DEF UpgradeInv, CommandAgrees, Resolve, Goto
<1>6. QED
  BY <1>1, <1>2, <1>3, <1>4, <1>5 DEF CommandAgrees

LEMMA SystemAgrees ==
  ASSUME UpgradeInv, ~disturbed, InstallSystemDeps
  PROVE  CommandAgrees'
<1>1. /\ pc = "system" /\ pc' = "loop" /\ given' = system
      /\ UNCHANGED <<rows, preferred, installed, kind, seen, left, asks, deps, targets, ready,
                     own, system>>
  BY DEF InstallSystemDeps, Goto, world
<1>2. left = {} /\ AsksAgree /\ OwnAgrees /\ TargetsAgree /\ DepsAgree /\ ManagerAgrees
  BY <1>1 DEF UpgradeInv, CommandAgrees
<1>3. AsksAgree' /\ OwnAgrees' /\ TargetsAgree' /\ DepsAgree' /\ ManagerAgrees'
  BY <1>1, <1>2, AsksStay, OwnStays, TargetsStay, DepsStay, ManagerStays
<1>4. QED
  BY <1>1, <1>2, <1>3 DEF CommandAgrees

LEMMA LoopAgrees ==
  ASSUME UpgradeInv, ~disturbed,
         \/ \E n \in deps : SkipDependency(n) \/ TakeDependency(n)
         \/ \E n \in targets : TakeTarget(n)
  PROVE  CommandAgrees'
<1>1. /\ pc = "loop" /\ UNCHANGED <<rows, preferred, system, given, pc, kind, seen, left, asks>>
  BY DEF SkipDependency, TakeDependency, TakeTarget, world
<1>2. /\ TypeOK /\ rows = scripts /\ left = {} /\ given = system
      /\ AsksAgree /\ OwnAgrees /\ TargetsAgree /\ DepsAgree /\ ManagerAgrees
  BY <1>1 DEF UpgradeInv, CommandAgrees
<1>3. AsksAgree' /\ ManagerAgrees'
  BY <1>1, <1>2, AsksStay, ManagerStays
<1>4. OwnAgrees' /\ TargetsAgree' /\ DepsAgree'
  <2>1. ASSUME NEW n \in deps, SkipDependency(n)
        PROVE  OwnAgrees' /\ TargetsAgree' /\ DepsAgree'
    <3>1. UNCHANGED <<own, installed, targets, ready>>
      BY <2>1 DEF SkipDependency, world
    <3> QED
      BY <1>1, <1>2, <2>1, <3>1, OwnStays, TargetsStay, SkipAgrees
  <2>2. ASSUME NEW n \in deps, TakeDependency(n)
        PROVE  OwnAgrees' /\ TargetsAgree' /\ DepsAgree'
    <3>1. UNCHANGED <<targets, ready>>
      BY <2>2 DEF TakeDependency
    <3> QED
      BY <1>1, <1>2, <2>2, <3>1, TargetsStay, TakeDependencyAgrees
  <2>3. ASSUME NEW n \in targets, TakeTarget(n)
        PROVE  OwnAgrees' /\ TargetsAgree' /\ DepsAgree'
    <3>1. UNCHANGED <<own, installed, deps>>
      BY <2>3 DEF TakeTarget
    <3> QED
      BY <1>1, <1>2, <2>3, <3>1, OwnStays, DepsStay, TakeTargetAgrees
  <2> QED
    BY <2>1, <2>2, <2>3
<1>5. QED
  BY <1>1, <1>2, <1>3, <1>4 DEF CommandAgrees

LEMMA InvStep == UpgradeInv /\ [Next]_vars => UpgradeInv'
<1> SUFFICES ASSUME UpgradeInv, [Next]_vars PROVE UpgradeInv'
  OBVIOUS
<1>0. TypeOK'
  BY TypesStep DEF UpgradeInv
<1> SUFFICES /\ ~disturbed' => rows' = scripts' /\ CommandAgrees'
             /\ NothingLeft'
  BY <1>0 DEF UpgradeInv
<1>1. CASE InstallCmd \/ UpgradeCmd \/ RemoveCmd
  BY <1>1, CallAgrees
<1>2. CASE Fail
  <2>1. pc' = "error" /\ UNCHANGED <<rows, scripts, disturbed>>
    BY <1>2 DEF Fail, Goto, world
  <2> QED
    BY <2>1 DEF UpgradeInv, CommandAgrees, NothingLeft
<1>3. CASE ListInstalled \/ \E p \in Pkgs : Search(p)
  <2>1. pc' = "search" /\ UNCHANGED <<rows, scripts, disturbed>>
    BY <1>3 DEF ListInstalled, Search, Goto, world
  <2>2. NothingLeft'
    BY <2>1 DEF NothingLeft
  <2> QED
    BY <1>3, <2>1, <2>2, ListAgrees, SearchAgrees DEF UpgradeInv
<1>4. CASE SearchEnds
  <2>1. UNCHANGED <<rows, scripts, disturbed>>
    BY <1>4 DEF SearchEnds, world
  <2>2. disturbed => NothingLeft'
    BY <2>1 DEF NothingLeft
  <2> QED
    BY <1>4, <2>1, <2>2, SearchEndsAgrees DEF UpgradeInv
<1>5. CASE Resolve \/ InstallSystemDeps
  <2>1. pc' \in {"loop", "system"} /\ UNCHANGED <<rows, scripts, disturbed>>
    BY <1>5 DEF Resolve, InstallSystemDeps, Goto, world
  <2>2. NothingLeft'
    BY <2>1 DEF NothingLeft
  <2> QED
    BY <1>5, <2>1, <2>2, ResolvesAgrees, SystemAgrees DEF UpgradeInv
<1>6. CASE \/ \E n \in deps : SkipDependency(n) \/ TakeDependency(n)
           \/ \E n \in targets : TakeTarget(n)
  <2>1. pc' = "loop" /\ UNCHANGED <<rows, scripts, disturbed>>
    BY <1>6 DEF SkipDependency, TakeDependency, TakeTarget, world
  <2>2. NothingLeft'
    BY <2>1 DEF NothingLeft
  <2> QED
    BY <1>6, <2>1, <2>2, LoopAgrees DEF UpgradeInv
<1>7. CASE InstallTargets
  <2>1. pc' = "ok" /\ UNCHANGED <<rows, scripts, disturbed>>
    BY <1>7 DEF InstallTargets, Goto
  <2>2. CommandAgrees'
    BY <2>1 DEF CommandAgrees
  <2>3. NothingLeft'
    BY <1>7, <2>1, AllIsDone DEF UpgradeInv, NothingLeft
  <2> QED
    BY <2>1, <2>2, <2>3 DEF UpgradeInv
<1>8. CASE \E p \in Pkgs : Checkout(p) \/ WriteRow(p) \/ OtherCommand(p)
  <2>1. disturbed' = TRUE
    BY <1>8 DEF Checkout, WriteRow, OtherCommand, Event
  <2> QED
    BY <2>1 DEF NothingLeft
<1>9. CASE UNCHANGED vars
  <2>1. UNCHANGED <<rows, scripts, installed, pc, kind, seen, left, asks, deps, targets,
                    ready, own, preferred, system, given, disturbed>>
    BY <1>9 DEF vars, world, command
  <2>2. CommandAgrees => CommandAgrees'
    <3>1. AsksAgree => AsksAgree'
      BY <2>1, AsksStay
    <3>2. OwnAgrees => OwnAgrees'
      BY <2>1, OwnStays
    <3>3. TargetsAgree => TargetsAgree'
      BY <2>1, TargetsStay
    <3>4. DepsAgree => DepsAgree'
      BY <2>1, DepsStay
    <3>5. ManagerAgrees => ManagerAgrees'
      BY <2>1, ManagerStays
    <3> QED
      BY <2>1, <3>1, <3>2, <3>3, <3>4, <3>5 DEF CommandAgrees
  <2>3. NothingLeft'
    <3>1. \A a : FindPkgs(a)' = FindPkgs(a)
      BY <2>1, FrozenQueries
    <3>2. \A p : Misled(p)' = Misled(p) /\ EpochLost(p)' = EpochLost(p)
      BY <2>1, FrozenQueries DEF Misled, EpochLost
    <3> QED
      BY <2>1, <3>1, <3>2 DEF UpgradeInv, NothingLeft
  <2> QED
    BY <2>1, <2>2, <2>3 DEF UpgradeInv
<1>10. QED
  BY <1>1, <1>2, <1>3, <1>4, <1>5, <1>6, <1>7, <1>8, <1>9 DEF Next

\* An upgrade that succeeds, undisturbed, leaves no installed package behind
\* its row unless it was looked up or compared wrongly or is the system's to
\* install, and what a command has installed finds the ALR packages it depends
\* on, or has had them handed over to the system (NothingLeft): in every
\* database, for every preference, with dependencies of any depth.
THEOREM UpgradeLeavesNothing == Spec => []NothingLeft
<1>1. UpgradeInv => NothingLeft
  BY DEF UpgradeInv
<1>2. QED
  BY <1>1, InvInit, InvStep, PTL DEF Spec

-----------------------------------------------------------------------------
(* What a command may lower *)

Lowered(p) == /\ installed[p] # NoVersion /\ installed'[p] # NoVersion
              /\ Precedes(installed'[p], installed[p])
Excused(p) == \/ kind = "install" /\ \E a \in asks : p \in FindPkgs(a)
              \/ kind = "upgrade" /\ \E q \in Pkgs : Misled(q) /\ FirstRow(Like(q)) = p

\* A package that was the target of an upgrade, by itself, is not lowered: it
\* was found newer than what was installed, and has been left so or has the
\* version of its row already.
LEMMA TargetNotLowered ==
  ASSUME TypeOK, AsksAgree, OwnAgrees, kind = "upgrade", NEW a \in Found(asks),
         NEW p, p = Node(a).pkg, installed'[p] = rows[p], Lowered(p)
  PROVE  Excused(p)
<1>1. PICK q \in Pkgs : Outdated(q) /\ a = UpdateOf(q)
  BY DEF AsksAgree, Found
<1>2. PICK r : r = FirstRow(Like(q))
  OBVIOUS
<1>3. r \in Pkgs /\ rows[r] # NoVersion
  BY <1>1, <1>2, LikeIsFound DEF Outdated
<1>4. p = r
  BY <1>1, <1>2, <1>3, UpdateIsFound DEF UpdateOf
<1>5. CASE r # q
  BY <1>1, <1>2, <1>4, <1>5 DEF Misled, Excused, Outdated
<1>6. CASE r = q
  <2>1. Newer(rows[p], seen[p]) /\ seen[p] # NoVersion
    BY <1>1, <1>2, <1>4, <1>6 DEF Outdated
  <2>2. rows[p] \in Versions /\ seen[p] \in Versions
    BY <1>3, <1>4, <2>1 DEF TypeOK, Held
  <2>3. installed[p] = seen[p] \/ installed[p] = rows[p]
    BY <1>3, <1>4 DEF OwnAgrees
  <2> QED
    BY <2>1, <2>2, <2>3, Comparing DEF Lowered
<1>7. QED
  BY <1>5, <1>6

LEMMA LoweringStep ==
  ASSUME UpgradeInv, [Next]_vars, pc = "loop", ~disturbed',
         NEW p \in Pkgs, Lowered(p)
  PROVE  Excused(p)
<1>1. installed[p] \in Versions /\ installed'[p] # installed[p]
  BY Comparing DEF Lowered, UpgradeInv, TypeOK, Held
<1>2. \/ \E n \in deps : TakeDependency(n)
      \/ InstallTargets
  <2>1. pc \notin Over /\ pc \notin {"list", "search", "resolve", "system"}
    BY DEF Over
  <2>2. ~(InstallCmd \/ UpgradeCmd \/ RemoveCmd)
    BY <2>1 DEF InstallCmd, UpgradeCmd, RemoveCmd, Call
  <2>3. ~(Fail \/ SearchEnds \/ Resolve \/ InstallSystemDeps \/ ListInstalled)
    BY <1>1, <2>1 DEF Fail, SearchEnds, Resolve, InstallSystemDeps, ListInstalled, world
  <2>4. ~\E q \in Pkgs : Search(q) \/ Checkout(q) \/ WriteRow(q) \/ OtherCommand(q)
    BY <2>1 DEF Search, Checkout, WriteRow, OtherCommand, Event
  <2>5. /\ ~\E n \in deps : SkipDependency(n)
        /\ ~\E n \in targets : TakeTarget(n)
        /\ ~UNCHANGED vars
    BY <1>1 DEF SkipDependency, TakeTarget, vars, world
  <2> QED
    BY <2>2, <2>3, <2>4, <2>5 DEF Next
<1>3. UNCHANGED <<rows, disturbed>>
  BY <1>2 DEF TakeDependency, InstallTargets
<1>4. /\ TypeOK /\ rows = scripts
      /\ AsksAgree /\ OwnAgrees /\ TargetsAgree /\ DepsAgree
  BY <1>3 DEF UpgradeInv, CommandAgrees
<1>5. ASSUME NEW n \in deps, TakeDependency(n)
      PROVE  FALSE
  <2>1. /\ n.pkg = p /\ rows[p] \in Versions /\ installed'[p] = rows[p]
    BY <1>1, <1>4, <1>5, TakeDependencyAgrees
  <2>2. n.ver = rows[p]
    BY <1>4, <2>1, NodeIsFound DEF DepsAgree, Found
  <2>3. Newer(rows[p], installed[p])
    BY <1>5, <2>1, <2>2 DEF TakeDependency, Lowered
  <2> QED
    BY <1>1, <2>1, <2>3, Comparing DEF Lowered
<1>6. CASE InstallTargets
  <2>1. PICK a \in Found(asks) : installed'[p] = rows[p] /\ p = Node(a).pkg
    BY <1>1, <1>4, <1>6, TargetsInstalled
  <2>2. CASE kind = "install"
    BY <2>1, <2>2, NodeIsFound DEF Excused, Found
  <2>3. CASE kind = "upgrade"
    BY <1>4, <2>1, <2>3, TargetNotLowered
  <2> QED
    BY <1>4, <2>2, <2>3 DEF TypeOK
<1>7. QED
  BY <1>2, <1>5, <1>6

\* An undisturbed command lowers a package only when the user named it, or
\* when an upgrade took it for another (NeverLowers): never a dependency, and
\* never the package an upgrade was asked to raise.
THEOREM UpgradeNeverLowers == Spec => NeverLowers
<1>1. UpgradeInv /\ [Next]_vars =>
        [\A p \in Pkgs :
            (/\ pc = "loop" /\ ~disturbed'
             /\ installed[p] # NoVersion /\ installed'[p] # NoVersion
             /\ Precedes(installed'[p], installed[p])) =>
                \/ kind = "install" /\ \E a \in asks : p \in FindPkgs(a)
                \/ kind = "upgrade" /\ \E q \in Pkgs : Misled(q) /\ FirstRow(Like(q)) = p]_vars
  BY LoweringStep DEF Lowered, Excused
<1>2. QED
  BY <1>1, InvInit, InvStep, PTL DEF Spec, NeverLowers
=============================================================================
