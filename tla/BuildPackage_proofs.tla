------------------------ MODULE BuildPackage_proofs ------------------------
(***************************************************************************)
(* Theorems about the builds of BuildPackage.  The first part is about the *)
(* packages: one that is whole is not touched again.  It assumes nothing   *)
(* of what the downloads do, except that they leave the packages alone.    *)
(*                                                                         *)
(* The second part is about the sources and the cache they are kept in:    *)
(* what has a manifest was verified, and a package is built from what its  *)
(* script names, whatever else is built at the same time and whichever     *)
(* call fails or is killed.  Its invariant follows one URL at a time.  An  *)
(* inode belongs to one URL (OneUrl), so that a step writes to the source  *)
(* it is at and to no other (Frame, OtherUrls); while no two processes     *)
(* fetch the URL, each step finds what the one before it has left          *)
(* (FetchState); and a source is in the directory of a script exactly from *)
(* the time it is linked (Fresh, Linked).                                  *)
(***************************************************************************)
EXTENDS BuildPackage, SequenceTheorems, FiniteSetTheorems, FunctionTheorems, TLAPS

\* The variables a build of packages keeps, without those of the downloads.
BuildTypeOK ==
    /\ pc \in [Procs -> DlSteps \cup {"idle", "deps", "fetched", "pack", "write", "failed"}]
    /\ dir \in [Procs -> Dirs \cup {NoDir}]
    /\ file \in [Names -> {"none", "partial", "good", "bad"}]
    /\ rest \in [Procs -> SUBSET Names]
    /\ left \in [Procs -> Seq(Names)]
    /\ waiting \in [Procs -> Seq(Outer)]
    /\ clean \in [Procs -> BOOLEAN]
    /\ writing \in [Procs -> Names \cup {NoName}]
    /\ sound \in [Procs -> BOOLEAN]

Idle(p) == pc[p] = "idle"

\* A process without a build waits for nothing and writes nothing.
IdleIsEmpty(p) == Idle(p) => rest[p] = {} /\ waiting[p] = <<>> /\ writing[p] = NoName

\* A build writes packages of its own script, one at a time.
OwnPackages(p) ==
    /\ ~Idle(p) => dir[p] \in Dirs /\ rest[p] \subseteq Pkgs[dir[p]]
    /\ pc[p] = "write" => writing[p] \in rest[p]
    /\ pc[p] # "write" => writing[p] = NoName

\* So does a build that waits; where two builds of one process are in one
\* directory they are known to disturb each other.
OuterBuilds(p) ==
    \A i \in DOMAIN waiting[p] :
        /\ waiting[p][i].dir \in Dirs
        /\ waiting[p][i].rest \subseteq Pkgs[waiting[p][i].dir]
        /\ waiting[p][i].dir = dir[p] => waiting[p][i].dir \in disturbed
        /\ \A j \in DOMAIN waiting[p] :
              i # j /\ waiting[p][i].dir = waiting[p][j].dir => waiting[p][i].dir \in disturbed

\* The directories a process builds in, or waits in.
In(p) == (IF Idle(p) THEN {} ELSE {dir[p]})
            \cup {waiting[p][i].dir : i \in DOMAIN waiting[p]}

\* Two builds in one directory are known to disturb each other.
Apart == \A p, q \in Procs : p # q => In(p) \cap In(q) \subseteq disturbed

\* What a package that is still to be built has under its name.
StillMissing(k) == file[k] = "none" \/ Owner(k) \in disturbed

RestIsMissing(p) ==
    ~clean[p] =>
        /\ \A k \in rest[p] \ {writing[p]} : StillMissing(k)
        /\ \A i \in DOMAIN waiting[p] : \A k \in waiting[p][i].rest : StillMissing(k)

\* The file a process has open is nobody else's.
OpenIsPartial(p) ==
    pc[p] = "write" => file[writing[p]] = "partial" \/ Owner(writing[p]) \in disturbed

WholeInv ==
    /\ BuildTypeOK
    /\ \A p \in Procs : /\ IdleIsEmpty(p) /\ OwnPackages(p) /\ OuterBuilds(p)
                        /\ RestIsMissing(p) /\ OpenIsPartial(p)
    /\ Apart

-----------------------------------------------------------------------------
(* Lemmas *)

\* Each package has one script.
LEMMA OwnerIsUnique ==
    ASSUME NEW d \in Dirs, NEW k \in Pkgs[d]
    PROVE  k \in Names /\ Owner(k) = d
<1>1. k \in Names
  BY BuildAssumption DEF BuildAssumption
<1>2. \A c \in Dirs : k \in Pkgs[c] => c = d
  BY BuildAssumption DEF BuildAssumption
<1> QED
  BY <1>1, <1>2 DEF Owner

\* Nothing that is out of order comes into order again.
LEMMA MissingStays ==
    ASSUME NEW k, StillMissing(k), disturbed \subseteq disturbed', file'[k] = file[k]
    PROVE  StillMissing(k)'
BY DEF StillMissing

\* A build that begins to wait is the last one of those that wait ...
LEMMA Pushed ==
    ASSUME NEW S, NEW s \in Seq(S), NEW r \in S
    PROVE  /\ Append(s, r) \in Seq(S)
           /\ DOMAIN Append(s, r) = DOMAIN s \cup {Len(s) + 1}
           /\ Len(s) + 1 \notin DOMAIN s
           /\ \A i \in DOMAIN s : Append(s, r)[i] = s[i]
           /\ Append(s, r)[Len(s) + 1] = r
<1>1. PICK n \in Nat : n = Len(s) /\ DOMAIN s = 1..n
  OBVIOUS
<1>2. /\ Append(s, r) \in Seq(S) /\ DOMAIN Append(s, r) = 1..(n + 1)
      /\ \A i \in 1..n : Append(s, r)[i] = s[i]
      /\ Append(s, r)[n + 1] = r
  BY <1>1
<1> QED
  BY <1>1, <1>2

\* ... and the first to go on.
LEMMA Popped ==
    ASSUME NEW S, NEW s \in Seq(S), s # <<>>
    PROVE  /\ Len(s) \in DOMAIN s /\ Last(s) = s[Len(s)] /\ Last(s) \in S
           /\ Front(s) \in Seq(S)
           /\ DOMAIN Front(s) = DOMAIN s \ {Len(s)}
           /\ \A i \in DOMAIN Front(s) : Front(s)[i] = s[i]
<1>1. PICK n \in Nat \ {0} : n = Len(s) /\ DOMAIN s = 1..n
  OBVIOUS
<1>2. Last(s) = s[n] /\ s[n] \in S
  BY <1>1 DEF Last
<1>3. Front(s) = SubSeq(s, 1, n - 1)
  BY <1>1 DEF Front
<1>4. /\ Front(s) \in Seq(S) /\ DOMAIN Front(s) = 1..(n - 1)
      /\ \A i \in 1..(n - 1) : Front(s)[i] = s[i]
  BY <1>1, <1>3
<1> QED
  BY <1>1, <1>2, <1>4

\* Where a download goes.
LaterSteps == DlSteps \cup {"fetched", "failed"}

\* A step of a download moves one process on; it begins and ends no build.
LEMMA DownloadSteps ==
    ASSUME NEW p \in Procs, DlStep(p)
    PROVE  /\ dir' = dir
           /\ disturbed \subseteq disturbed'
           /\ pc[p] \in DlSteps
           /\ \E step \in LaterSteps : Goto(p, step)
<1> USE DEF At, downloadGivens, DlSteps, LaterSteps
<1>1. CASE Get(p)
  BY <1>1 DEF Get
<1>2. CASE UpdateGit(p)
  BY <1>2 DEF UpdateGit
<1>3. CASE ReadManifest(p)
  BY <1>3 DEF ReadManifest
<1>4. CASE New(p)
  BY <1>4 DEF New
<1>5. CASE Create(p)
  BY <1>5 DEF Create
<1>6. CASE Fill(p)
  <2>1. Received(p, Url(p), upstream[Url(p)]) \in LaterSteps
    BY DEF Received
  <2> QED
    BY <1>6, <2>1 DEF Fill
<1>7. CASE CheckOnDisk(p)
  BY <1>7 DEF CheckOnDisk
<1>8. CASE Unpack(p)
  BY <1>8 DEF Unpack
<1>9. CASE Record(p)
  BY <1>9 DEF Record
<1>10. CASE Link(p)
  <2>1. ASSUME NextSource(p)
        PROVE  Goto(p, IF Len(todo[p]) = 1 THEN "fetched" ELSE "get")
    BY <2>1 DEF NextSource, Goto
  <2> QED
    BY <1>10, <2>1 DEF Link
<1> QED
  BY <1>1, <1>2, <1>3, <1>4, <1>5, <1>6, <1>7, <1>8, <1>9, <1>10 DEF DlStep

\* What writes no file and begins and ends no build keeps the invariant.
LEMMA QuietSteps ==
    ASSUME WholeInv, BuildTypeOK',
           UNCHANGED <<dir, file, rest, waiting, clean, writing>>,
           disturbed \subseteq disturbed',
           \A q \in Procs : /\ pc'[q] = "idle" <=> pc[q] = "idle"
                            /\ pc'[q] = "write" <=> pc[q] = "write"
    PROVE  WholeInv'
<1>1. ASSUME NEW q \in Procs
      PROVE  IdleIsEmpty(q)' /\ OwnPackages(q)'
  BY DEF WholeInv, IdleIsEmpty, OwnPackages, Idle
<1>2. ASSUME NEW q \in Procs
      PROVE  OuterBuilds(q)'
  BY DEF WholeInv, OuterBuilds
<1>3. ASSUME NEW q \in Procs
      PROVE  RestIsMissing(q)'
  BY DEF WholeInv, RestIsMissing, StillMissing
<1>4. ASSUME NEW q \in Procs
      PROVE  OpenIsPartial(q)'
  BY DEF WholeInv, OpenIsPartial
<1>5. Apart'
  <2>1. \A q \in Procs : In(q)' = In(q)
    BY DEF In, Idle
  <2> QED
    BY <2>1 DEF WholeInv, Apart
<1> QED
  BY <1>1, <1>2, <1>3, <1>4, <1>5 DEF WholeInv

\* A build that enters a directory another one is in disturbs it.
LEMMA EnteringDisturbs ==
    ASSUME WholeInv, NEW d \in Dirs, Entering(d)
    PROVE  /\ disturbed \subseteq disturbed'
           /\ \A q \in Procs : d \in In(q) => d \in disturbed'
<1>1. ASSUME NEW q \in Procs, d \in In(q)
      PROVE  Builds(q, d)
  <2>1. ~Idle(q)
    BY <1>1 DEF WholeInv, IdleIsEmpty, In
  <2>2. CASE d = dir[q]
    BY <2>1, <2>2 DEF Builds, Idle
  <2>3. CASE \E i \in DOMAIN waiting[q] : d = waiting[q][i].dir
    BY <2>1, <2>3 DEF Builds, Idle
  <2> QED
    BY <1>1, <2>2, <2>3 DEF In
<1> QED
  BY <1>1 DEF Entering

-----------------------------------------------------------------------------
(* The invariant *)

LEMMA WholeInit == Init => WholeInv
<1> SUFFICES ASSUME Init PROVE WholeInv
  OBVIOUS
<1> USE DEF Init, DlInit
<1>1. BuildTypeOK
  <2>1. <<>> \in Seq(Names) /\ <<>> \in Seq(Outer) /\ {} \in SUBSET Names
    OBVIOUS
  <2>2. left \in [Procs -> Seq(Names)] /\ waiting \in [Procs -> Seq(Outer)]
    BY <2>1
  <2> QED
    BY <2>2 DEF BuildTypeOK
<1>2. ASSUME NEW p \in Procs
      PROVE  /\ IdleIsEmpty(p) /\ OwnPackages(p) /\ OuterBuilds(p)
             /\ RestIsMissing(p) /\ OpenIsPartial(p) /\ In(p) = {}
  BY DEF IdleIsEmpty, OwnPackages, OuterBuilds, RestIsMissing, OpenIsPartial, In, Idle
<1> QED
  BY <1>1, <1>2 DEF WholeInv, Apart

LEMMA WholeStart ==
    ASSUME WholeInv, NEW p \in Procs, NEW d \in Dirs, NEW c \in BOOLEAN,
           NEW S \in SUBSET Pkgs[d], Start(p, d, S, c)
    PROVE  WholeInv'
<1> USE DEF Start, At, Goto
<1>1. /\ disturbed \subseteq disturbed'
      /\ \A q \in Procs : d \in In(q) => d \in disturbed'
  BY EnteringDisturbs
<1>2. /\ Missing(S, c) \subseteq Pkgs[d]
      /\ Missing(S, c) \subseteq Names
      /\ ~c => \A k \in Missing(S, c) : StillMissing(k)'
  BY BuildAssumption DEF BuildAssumption, Missing, StillMissing
<1>3. /\ waiting[p] = <<>> /\ writing[p] = NoName
      /\ pc[p] = "idle"
  BY DEF WholeInv, IdleIsEmpty, Idle
<1>4. BuildTypeOK'
  <2>1. PICK list \in DepPkgs[d] : left' = [left EXCEPT ![p] = list]
    OBVIOUS
  <2>2. list \in Seq(Names)
    BY BuildAssumption DEF BuildAssumption
  <2>3. left' \in [Procs -> Seq(Names)]
    BY <2>1, <2>2 DEF WholeInv, BuildTypeOK
  <2>4. UNCHANGED <<file, waiting, writing, sound>>
    OBVIOUS
  <2> QED
    BY <1>2, <2>3, <2>4 DEF WholeInv, BuildTypeOK
<1>5. ASSUME NEW q \in Procs, q # p
      PROVE  /\ IdleIsEmpty(q)' /\ OwnPackages(q)' /\ OuterBuilds(q)'
             /\ RestIsMissing(q)' /\ OpenIsPartial(q)'
             /\ In(q)' = In(q)
  <2>1. /\ pc'[q] = pc[q] /\ dir'[q] = dir[q] /\ rest'[q] = rest[q] /\ left'[q] = left[q]
        /\ waiting'[q] = waiting[q] /\ clean'[q] = clean[q] /\ writing'[q] = writing[q]
        /\ file' = file
    BY <1>5 DEF WholeInv, BuildTypeOK
  <2>2. IdleIsEmpty(q)' /\ OwnPackages(q)' /\ In(q)' = In(q)
    BY <2>1 DEF WholeInv, IdleIsEmpty, OwnPackages, In, Idle
  <2>3. OuterBuilds(q)' /\ OpenIsPartial(q)'
    BY <1>1, <2>1 DEF WholeInv, OuterBuilds, OpenIsPartial
  <2>4. RestIsMissing(q)'
    BY <1>1, <2>1 DEF WholeInv, RestIsMissing, StillMissing
  <2> QED
    BY <2>2, <2>3, <2>4
<1>6. /\ IdleIsEmpty(p)' /\ OwnPackages(p)' /\ OuterBuilds(p)'
      /\ RestIsMissing(p)' /\ OpenIsPartial(p)'
      /\ In(p)' = {d}
  <2>1. /\ pc'[p] = "deps" /\ dir'[p] = d /\ rest'[p] = Missing(S, c)
        /\ waiting'[p] = <<>> /\ clean'[p] = c /\ writing'[p] = NoName
    BY <1>3 DEF WholeInv, BuildTypeOK
  <2> QED
    BY <1>2, <2>1
    DEF IdleIsEmpty, OwnPackages, OuterBuilds, RestIsMissing, OpenIsPartial, In, Idle
<1>7. Apart'
  BY <1>1, <1>5, <1>6 DEF WholeInv, Apart
<1> QED
  BY <1>4, <1>5, <1>6, <1>7 DEF WholeInv

LEMMA WholeBuildDep ==
    ASSUME WholeInv, NEW p \in Procs, BuildDep(p)
    PROVE  WholeInv'
<1> DEFINE k == Head(left[p])
           d == Owner(k)
           r == [dir |-> dir[p], rest |-> rest[p], left |-> Tail(left[p])]
<1> USE DEF BuildDep, At
<1>1. /\ k \in Names /\ d \in Dirs /\ k \in Pkgs[d] /\ Tail(left[p]) \in Seq(Names)
  <2>1. k \in Names /\ Tail(left[p]) \in Seq(Names)
    BY DEF WholeInv, BuildTypeOK
  <2>2. PICK c \in Dirs : k \in Pkgs[c]
    BY <2>1, BuildAssumption DEF BuildAssumption
  <2>3. d = c
    BY <2>2, OwnerIsUnique
  <2> QED
    BY <2>1, <2>2, <2>3
<1>2. /\ disturbed \subseteq disturbed'
      /\ \A q \in Procs : d \in In(q) => d \in disturbed'
  BY <1>1, EnteringDisturbs
<1>3. /\ writing[p] = NoName /\ dir[p] \in In(p)
      /\ dir[p] \in Dirs /\ rest[p] \subseteq Pkgs[dir[p]] /\ rest[p] \subseteq Names
  BY DEF WholeInv, BuildTypeOK, OwnPackages, In, Idle
<1>4. /\ waiting[p] \in Seq(Outer) /\ r \in Outer
      /\ waiting' = [waiting EXCEPT ![p] = Append(waiting[p], r)]
  BY <1>1, <1>3 DEF WholeInv, BuildTypeOK, Outer
<1>5. BuildTypeOK'
  <2>1. PICK list \in DepPkgs[d] \cup {<<>>} : left' = [left EXCEPT ![p] = list]
    OBVIOUS
  <2>2. list \in Seq(Names)
    <3>1. <<>> \in Seq(Names)
      OBVIOUS
    <3>2. DepPkgs[d] \subseteq Seq(Names)
      BY <1>1, BuildAssumption DEF BuildAssumption
    <3> QED
      BY <3>1, <3>2
  <2>3. left' \in [Procs -> Seq(Names)]
    BY <2>1, <2>2 DEF WholeInv, BuildTypeOK
  <2>4. waiting' \in [Procs -> Seq(Outer)]
    <3>1. Append(waiting[p], r) \in Seq(Outer)
      BY <1>4, Pushed
    <3> QED
      BY <1>4, <3>1 DEF WholeInv, BuildTypeOK
  <2>5. /\ dir' \in [Procs -> Dirs \cup {NoDir}] /\ rest' \in [Procs -> SUBSET Names]
        /\ UNCHANGED <<pc, file, clean, writing, sound>>
    BY <1>1 DEF WholeInv, BuildTypeOK
  <2> QED
    BY <2>3, <2>4, <2>5 DEF WholeInv, BuildTypeOK
<1>6. ASSUME NEW q \in Procs, q # p
      PROVE  /\ IdleIsEmpty(q)' /\ OwnPackages(q)' /\ OuterBuilds(q)'
             /\ RestIsMissing(q)' /\ OpenIsPartial(q)'
             /\ In(q)' = In(q)
  <2>1. /\ pc'[q] = pc[q] /\ dir'[q] = dir[q] /\ rest'[q] = rest[q] /\ left'[q] = left[q]
        /\ waiting'[q] = waiting[q] /\ clean'[q] = clean[q] /\ writing'[q] = writing[q]
        /\ file' = file
    BY <1>4, <1>6 DEF WholeInv, BuildTypeOK
  <2>2. IdleIsEmpty(q)' /\ OwnPackages(q)' /\ In(q)' = In(q)
    <3> HIDE DEF BuildDep, At
    <3>1. IdleIsEmpty(q)' /\ OwnPackages(q)'
      BY <2>1 DEF WholeInv, IdleIsEmpty, OwnPackages, Idle
    <3>2. In(q)' = In(q)
      BY <2>1 DEF In, Idle
    <3> QED
      BY <3>1, <3>2
  <2>3. OuterBuilds(q)' /\ OpenIsPartial(q)'
    <3> HIDE DEF BuildDep, At
    <3>1. OuterBuilds(q)'
      BY <1>2, <2>1 DEF WholeInv, OuterBuilds
    <3>2. OpenIsPartial(q)'
      BY <1>2, <2>1 DEF WholeInv, OpenIsPartial
    <3> QED
      BY <3>1, <3>2
  <2>4. RestIsMissing(q)'
    <3> HIDE DEF BuildDep, At
    <3> QED
      BY <1>2, <2>1 DEF WholeInv, RestIsMissing, StillMissing
  <2> QED
    BY <2>2, <2>3, <2>4
<1>7. /\ IdleIsEmpty(p)' /\ OwnPackages(p)' /\ OuterBuilds(p)'
      /\ RestIsMissing(p)' /\ OpenIsPartial(p)'
      /\ In(p)' = {d} \cup In(p)
  <2>1. /\ pc'[p] = "deps" /\ dir'[p] = d /\ rest'[p] = {k}
        /\ clean'[p] = clean[p] /\ writing'[p] = NoName
        /\ file' = file /\ file[k] = "none"
    BY <1>3 DEF WholeInv, BuildTypeOK
  <2>2. PICK n : n = Len(waiting[p]) + 1
    OBVIOUS
  <2>3. /\ DOMAIN waiting'[p] = DOMAIN waiting[p] \cup {n} /\ n \notin DOMAIN waiting[p]
        /\ \A i \in DOMAIN waiting[p] : waiting'[p][i] = waiting[p][i]
        /\ waiting'[p][n] = r
    <3>1. waiting'[p] = Append(waiting[p], r)
      BY <1>4 DEF WholeInv, BuildTypeOK
    <3> QED
      BY <1>4, <2>2, <3>1, Pushed
  <2>4. r.dir = dir[p] /\ r.rest = rest[p]
    OBVIOUS
  <2>5. IdleIsEmpty(p)' /\ OwnPackages(p)' /\ OpenIsPartial(p)'
    BY <1>1, <2>1 DEF IdleIsEmpty, OwnPackages, OpenIsPartial, Idle
  <2>6. In(p)' = {d} \cup In(p)
    BY <2>1, <2>3, <2>4 DEF In, Idle
  <2>7. OuterBuilds(p)'
    <3> SUFFICES ASSUME NEW i \in DOMAIN waiting'[p]
                 PROVE  /\ waiting'[p][i].dir \in Dirs
                        /\ waiting'[p][i].rest \subseteq Pkgs[waiting'[p][i].dir]
                        /\ waiting'[p][i].dir = d => waiting'[p][i].dir \in disturbed'
                        /\ \A j \in DOMAIN waiting'[p] :
                              i # j /\ waiting'[p][i].dir = waiting'[p][j].dir =>
                                  waiting'[p][i].dir \in disturbed'
      BY <2>1 DEF OuterBuilds
    <3>1. \A j \in DOMAIN waiting[p] :
              /\ waiting[p][j].dir = dir[p] => dir[p] \in disturbed
              /\ waiting[p][j].dir = d => d \in disturbed'
      <4> HIDE DEF BuildDep, At, d, r
      <4>1. ASSUME NEW j \in DOMAIN waiting[p], waiting[p][j].dir = d
            PROVE  d \in disturbed'
        BY <1>2, <4>1 DEF In
      <4>2. \A j \in DOMAIN waiting[p] : waiting[p][j].dir = dir[p] => dir[p] \in disturbed
        BY DEF WholeInv, OuterBuilds
      <4> QED
        BY <4>1, <4>2
    <3> HIDE DEF BuildDep, At
    <3>2. CASE i = n
      <4>1. /\ waiting'[p][i].dir = dir[p] /\ waiting'[p][i].rest = rest[p]
            /\ dir[p] = d => d \in disturbed'
        BY <1>2, <1>3, <2>3, <2>4, <3>2
      <4>2. \A j \in DOMAIN waiting'[p] :
               i # j /\ dir[p] = waiting'[p][j].dir => dir[p] \in disturbed'
        BY <1>2, <2>3, <3>1, <3>2
      <4> QED
        BY <1>3, <4>1, <4>2
    <3>3. CASE i \in DOMAIN waiting[p]
      <4>1. /\ waiting[p][i].dir \in Dirs
            /\ waiting[p][i].rest \subseteq Pkgs[waiting[p][i].dir]
            /\ \A j \in DOMAIN waiting[p] :
                  i # j /\ waiting[p][i].dir = waiting[p][j].dir => waiting[p][i].dir \in disturbed
        BY <3>3 DEF WholeInv, OuterBuilds
      <4> QED
        BY <1>2, <2>3, <2>4, <3>1, <3>3, <4>1
    <3> QED
      BY <2>3, <3>2, <3>3
  <2>8. RestIsMissing(p)'
    <3>1. NoName \notin rest[p]
      BY <1>3, BuildAssumption DEF BuildAssumption
    <3>2. ~clean[p] => /\ \A j \in rest[p] : StillMissing(j)'
                       /\ \A i \in DOMAIN waiting[p] :
                             \A j \in waiting[p][i].rest : StillMissing(j)'
      BY <1>2, <1>3, <2>1, <3>1 DEF WholeInv, RestIsMissing, StillMissing
    <3>3. \A j \in {k} : StillMissing(j)'
      BY <2>1 DEF StillMissing
    <3> QED
      BY <2>1, <2>3, <2>4, <3>2, <3>3 DEF RestIsMissing
  <2> QED
    BY <2>5, <2>6, <2>7, <2>8
<1>8. Apart'
  BY <1>2, <1>6, <1>7 DEF WholeInv, Apart
<1> QED
  BY <1>5, <1>6, <1>7, <1>8 DEF WholeInv

\* Where two builds have the same package before them, they are in one
\* directory.
LEMMA SharedIsDisturbed ==
    ASSUME WholeInv, NEW p \in Procs, NEW q \in Procs, NEW k \in rest[p],
           \/ p # q /\ k \in rest[q]
           \/ \E i \in DOMAIN waiting[q] : k \in waiting[q][i].rest
    PROVE  Owner(k) \in disturbed
<1>1. Owner(k) = dir[p] /\ dir[p] \in In(p)
  <2>1. ~Idle(p) /\ dir[p] \in Dirs /\ k \in Pkgs[dir[p]]
    BY DEF WholeInv, IdleIsEmpty, OwnPackages
  <2> QED
    BY <2>1, OwnerIsUnique DEF In
<1>2. CASE p # q /\ k \in rest[q]
  <2>1. ~Idle(q) /\ dir[q] \in Dirs /\ k \in Pkgs[dir[q]]
    BY <1>2 DEF WholeInv, IdleIsEmpty, OwnPackages
  <2>2. Owner(k) \in In(q)
    BY <2>1, OwnerIsUnique DEF In
  <2> QED
    BY <1>1, <1>2, <2>2 DEF WholeInv, Apart
<1>3. CASE \E i \in DOMAIN waiting[q] : k \in waiting[q][i].rest
  <2>1. PICK i \in DOMAIN waiting[q] : k \in waiting[q][i].rest
    BY <1>3
  <2>2. waiting[q][i].dir \in Dirs /\ k \in Pkgs[waiting[q][i].dir]
    BY <2>1 DEF WholeInv, OuterBuilds
  <2>3. waiting[q][i].dir = Owner(k) /\ Owner(k) \in In(q)
    BY <2>2, OwnerIsUnique DEF In
  <2>4. CASE p = q
    BY <1>1, <2>3, <2>4 DEF WholeInv, OuterBuilds
  <2>5. CASE p # q
    BY <1>1, <2>3, <2>5 DEF WholeInv, Apart
  <2> QED
    BY <2>4, <2>5
<1> QED
  BY <1>2, <1>3

\* What another process writes disturbs a build only in a disturbed directory.
LEMMA OthersWrite ==
    ASSUME WholeInv, NEW p \in Procs, NEW q \in Procs, p # q, NEW k \in rest[p],
           \A j \in Names \ {k} : file'[j] = file[j],
           disturbed' = disturbed,
           pc'[q] = pc[q], dir'[q] = dir[q], rest'[q] = rest[q], left'[q] = left[q],
           waiting'[q] = waiting[q], clean'[q] = clean[q], writing'[q] = writing[q]
    PROVE  /\ IdleIsEmpty(q)' /\ OwnPackages(q)' /\ OuterBuilds(q)'
           /\ RestIsMissing(q)' /\ OpenIsPartial(q)'
           /\ In(q)' = In(q)
<1>1. IdleIsEmpty(q)' /\ OwnPackages(q)' /\ In(q)' = In(q)
  BY DEF WholeInv, IdleIsEmpty, OwnPackages, In, Idle
<1>2. OuterBuilds(q)'
  BY DEF WholeInv, OuterBuilds
<1>3. rest[q] \subseteq Names /\ \A i \in DOMAIN waiting[q] : waiting[q][i].rest \subseteq Names
  <2>1. \A d \in Dirs : Pkgs[d] \subseteq Names
    BY BuildAssumption DEF BuildAssumption
  <2> QED
    BY <2>1 DEF WholeInv, BuildTypeOK, OuterBuilds
<1>4. ASSUME NEW j \in Names, StillMissing(j),
             j \in rest[q] \/ \E i \in DOMAIN waiting[q] : j \in waiting[q][i].rest
      PROVE  StillMissing(j)'
  <2>1. CASE j = k
    BY <1>4, <2>1, SharedIsDisturbed DEF StillMissing
  <2>2. CASE j # k
    BY <1>4, <2>2 DEF StillMissing
  <2> QED
    BY <2>1, <2>2
<1>5. RestIsMissing(q)'
  BY <1>3, <1>4 DEF WholeInv, RestIsMissing
<1>6. OpenIsPartial(q)'
  <2> SUFFICES ASSUME pc[q] = "write"
               PROVE  file'[writing[q]] = "partial" \/ Owner(writing[q]) \in disturbed
    BY DEF OpenIsPartial
  <2>1. writing[q] \in rest[q] /\ writing[q] \in Names
    BY <1>3 DEF WholeInv, OwnPackages
  <2>2. CASE writing[q] = k
    BY <2>1, <2>2, SharedIsDisturbed
  <2>3. CASE writing[q] # k
    BY <2>1, <2>3 DEF WholeInv, OpenIsPartial
  <2> QED
    BY <2>2, <2>3
<1> QED
  BY <1>1, <1>2, <1>5, <1>6

LEMMA WholeCreateFile ==
    ASSUME WholeInv, NEW p \in Procs, CreateFile(p)
    PROVE  WholeInv'
<1> USE DEF CreateFile, At, Goto
<1>1. PICK k \in rest[p] : /\ writing' = [writing EXCEPT ![p] = k]
                           /\ file' = [file EXCEPT ![k] = "partial"]
  OBVIOUS
<1>2. k \in Names /\ rest[p] \subseteq Names /\ NoName \notin Names /\ writing[p] = NoName
  BY BuildAssumption DEF WholeInv, BuildTypeOK, OwnPackages, BuildAssumption
<1>3. BuildTypeOK'
  BY <1>1, <1>2 DEF WholeInv, BuildTypeOK
<1>4. \A j \in Names \ {k} : file'[j] = file[j]
  BY <1>1 DEF WholeInv, BuildTypeOK
<1>5. ASSUME NEW q \in Procs, q # p
      PROVE  /\ IdleIsEmpty(q)' /\ OwnPackages(q)' /\ OuterBuilds(q)'
             /\ RestIsMissing(q)' /\ OpenIsPartial(q)'
             /\ In(q)' = In(q)
  <2>1. pc'[q] = pc[q] /\ writing'[q] = writing[q]
    BY <1>1, <1>5 DEF WholeInv, BuildTypeOK
  <2> QED
    BY <1>4, <1>5, <2>1, OthersWrite
<1>6. /\ IdleIsEmpty(p)' /\ OwnPackages(p)' /\ OuterBuilds(p)'
      /\ RestIsMissing(p)' /\ OpenIsPartial(p)'
      /\ In(p)' = In(p)
  <2>1. /\ pc[p] = "pack" /\ pc'[p] = "write" /\ writing'[p] = k /\ file'[k] = "partial"
        /\ UNCHANGED <<dir, rest, left, waiting, clean, disturbed>>
    BY <1>1, <1>2 DEF WholeInv, BuildTypeOK
  <2>2. IdleIsEmpty(p)' /\ OwnPackages(p)' /\ OuterBuilds(p)' /\ In(p)' = In(p)
    BY <2>1 DEF WholeInv, IdleIsEmpty, OwnPackages, OuterBuilds, In, Idle
  <2>3. OpenIsPartial(p)'
    BY <2>1 DEF OpenIsPartial
  <2>4. ASSUME ~clean[p], NEW j \in rest[p], j # k
        PROVE  StillMissing(j)'
    BY <1>2, <1>4, <2>1, <2>4 DEF WholeInv, RestIsMissing, StillMissing
  <2>5. ASSUME ~clean[p], NEW i \in DOMAIN waiting[p], NEW j \in waiting[p][i].rest
        PROVE  StillMissing(j)'
    <3>1. StillMissing(j) /\ j \in Names
      BY <2>5, BuildAssumption DEF WholeInv, RestIsMissing, OuterBuilds, BuildAssumption
    <3>2. CASE j # k
      BY <1>4, <2>1, <3>1, <3>2 DEF StillMissing
    <3>3. CASE j = k
      BY <2>1, <2>5, <3>3, SharedIsDisturbed DEF StillMissing
    <3> QED
      BY <3>2, <3>3
  <2>6. RestIsMissing(p)'
    BY <2>1, <2>4, <2>5 DEF RestIsMissing
  <2> QED
    BY <2>2, <2>3, <2>6
<1>7. Apart'
  BY <1>5, <1>6 DEF WholeInv, Apart
<1> QED
  BY <1>3, <1>5, <1>6, <1>7 DEF WholeInv

LEMMA WholeWriteFile ==
    ASSUME WholeInv, NEW p \in Procs, WriteFile(p)
    PROVE  WholeInv'
<1> USE DEF WriteFile, At, Goto
<1>1. PICK k \in rest[p] : k = writing[p]
  BY DEF WholeInv, OwnPackages
<1>2. k \in Names /\ rest[p] \subseteq Names /\ NoName \notin Names
  BY BuildAssumption DEF WholeInv, BuildTypeOK, BuildAssumption
<1>3. BuildTypeOK'
  BY <1>1, <1>2 DEF WholeInv, BuildTypeOK
<1>4. \A j \in Names \ {k} : file'[j] = file[j]
  BY <1>1 DEF WholeInv, BuildTypeOK
<1>5. ASSUME NEW q \in Procs, q # p
      PROVE  /\ IdleIsEmpty(q)' /\ OwnPackages(q)' /\ OuterBuilds(q)'
             /\ RestIsMissing(q)' /\ OpenIsPartial(q)'
             /\ In(q)' = In(q)
  <2>1. pc'[q] = pc[q] /\ writing'[q] = writing[q] /\ rest'[q] = rest[q]
    BY <1>5 DEF WholeInv, BuildTypeOK
  <2> QED
    BY <1>4, <1>5, <2>1, OthersWrite
<1>6. /\ IdleIsEmpty(p)' /\ OwnPackages(p)' /\ OuterBuilds(p)'
      /\ RestIsMissing(p)' /\ OpenIsPartial(p)'
      /\ In(p)' = In(p)
  <2>1. /\ pc[p] = "write" /\ pc'[p] = "pack" /\ writing'[p] = NoName
        /\ rest'[p] = rest[p] \ {k}
        /\ UNCHANGED <<dir, left, waiting, clean, disturbed>>
    BY <1>1 DEF WholeInv, BuildTypeOK
  <2>2. IdleIsEmpty(p)' /\ OwnPackages(p)' /\ OuterBuilds(p)' /\ In(p)' = In(p)
    BY <2>1 DEF WholeInv, IdleIsEmpty, OwnPackages, OuterBuilds, In, Idle
  <2>3. OpenIsPartial(p)'
    BY <2>1 DEF OpenIsPartial
  <2>4. ASSUME ~clean[p], NEW j \in rest[p], j # k
        PROVE  StillMissing(j)'
    BY <1>1, <1>2, <1>4, <2>1, <2>4 DEF WholeInv, RestIsMissing, StillMissing
  <2>5. ASSUME ~clean[p], NEW i \in DOMAIN waiting[p], NEW j \in waiting[p][i].rest
        PROVE  StillMissing(j)'
    <3>1. StillMissing(j) /\ j \in Names
      BY <2>5, BuildAssumption DEF WholeInv, RestIsMissing, OuterBuilds, BuildAssumption
    <3>2. CASE j # k
      BY <1>4, <2>1, <3>1, <3>2 DEF StillMissing
    <3>3. CASE j = k
      BY <2>1, <2>5, <3>3, SharedIsDisturbed DEF StillMissing
    <3> QED
      BY <3>2, <3>3
  <2>6. RestIsMissing(p)'
    BY <2>1, <2>4, <2>5 DEF RestIsMissing
  <2> QED
    BY <2>2, <2>3, <2>6
<1>7. Apart'
  BY <1>5, <1>6 DEF WholeInv, Apart
<1> QED
  BY <1>3, <1>5, <1>6, <1>7 DEF WholeInv

LEMMA WholeFinish ==
    ASSUME WholeInv, NEW p \in Procs, Finish(p)
    PROVE  WholeInv'
<1> USE DEF Finish, At, Goto
<1>1. /\ pc[p] = "pack" /\ writing[p] = NoName /\ rest[p] = {}
      /\ UNCHANGED <<file, writing, disturbed>>
  BY DEF WholeInv, OwnPackages
<1>2. ASSUME NEW q \in Procs, q # p
      PROVE  /\ IdleIsEmpty(q)' /\ OwnPackages(q)' /\ OuterBuilds(q)'
             /\ RestIsMissing(q)' /\ OpenIsPartial(q)'
             /\ In(q)' = In(q)
  <2>1. /\ pc'[q] = pc[q] /\ dir'[q] = dir[q] /\ rest'[q] = rest[q] /\ left'[q] = left[q]
        /\ waiting'[q] = waiting[q] /\ clean'[q] = clean[q] /\ writing'[q] = writing[q]
    BY <1>2 DEF WholeInv, BuildTypeOK
  <2>2. IdleIsEmpty(q)' /\ OwnPackages(q)' /\ In(q)' = In(q)
    BY <2>1 DEF WholeInv, IdleIsEmpty, OwnPackages, In, Idle
  <2>3. OuterBuilds(q)' /\ OpenIsPartial(q)' /\ RestIsMissing(q)'
    BY <1>1, <2>1 DEF WholeInv, OuterBuilds, OpenIsPartial, RestIsMissing, StillMissing
  <2> QED
    BY <2>2, <2>3
<1>3. CASE waiting[p] = <<>>
  <2>1. /\ pc' = [pc EXCEPT ![p] = "idle"]
        /\ dir' = [dir EXCEPT ![p] = NoDir]
        /\ UNCHANGED <<rest, left, waiting>>
    BY <1>3
  <2>2. BuildTypeOK'
    BY <1>1, <1>3, <2>1 DEF WholeInv, BuildTypeOK
  <2>3. /\ IdleIsEmpty(p)' /\ OwnPackages(p)' /\ OuterBuilds(p)'
        /\ RestIsMissing(p)' /\ OpenIsPartial(p)'
        /\ In(p)' = {}
    <3>1. pc'[p] = "idle"
      BY <2>1 DEF WholeInv, BuildTypeOK
    <3> QED
      BY <1>1, <1>3, <2>1, <3>1
      DEF IdleIsEmpty, OwnPackages, OuterBuilds, RestIsMissing, OpenIsPartial, In, Idle
  <2>4. Apart'
    BY <1>1, <1>2, <2>3 DEF WholeInv, Apart
  <2> QED
    BY <1>2, <2>2, <2>3, <2>4 DEF WholeInv
<1>4. CASE waiting[p] # <<>>
  <2>1. PICK n, o : /\ n = Len(waiting[p]) /\ n \in DOMAIN waiting[p]
                    /\ o = Last(waiting[p]) /\ o = waiting[p][n] /\ o \in Outer
    BY <1>4, Popped DEF WholeInv, BuildTypeOK
  <2>2. PICK f : /\ f = Front(waiting[p]) /\ f \in Seq(Outer)
                 /\ DOMAIN f = DOMAIN waiting[p] \ {n}
                 /\ \A i \in DOMAIN f : f[i] = waiting[p][i]
    <3>1. waiting[p] \in Seq(Outer)
      BY DEF WholeInv, BuildTypeOK
    <3>2. /\ Front(waiting[p]) \in Seq(Outer)
          /\ DOMAIN Front(waiting[p]) = DOMAIN waiting[p] \ {n}
          /\ \A i \in DOMAIN Front(waiting[p]) : Front(waiting[p])[i] = waiting[p][i]
      BY ONLY <1>4, <2>1, <3>1, Popped
    <3> QED
      BY <3>2
  <2>3. /\ pc' = [pc EXCEPT ![p] = "deps"]
        /\ dir' = [dir EXCEPT ![p] = o.dir]
        /\ rest' = [rest EXCEPT ![p] = o.rest]
        /\ left' = [left EXCEPT ![p] = o.left]
        /\ waiting' = [waiting EXCEPT ![p] = f]
    BY <1>4, <2>1, <2>2
  <2>4. BuildTypeOK'
    <3>1. o.dir \in Dirs /\ o.rest \in SUBSET Names /\ o.left \in Seq(Names)
      BY <2>1 DEF Outer
    <3>2. /\ pc' \in [Procs -> DlSteps \cup {"idle", "deps", "fetched", "pack", "write", "failed"}]
          /\ dir' \in [Procs -> Dirs \cup {NoDir}] /\ rest' \in [Procs -> SUBSET Names]
          /\ left' \in [Procs -> Seq(Names)] /\ waiting' \in [Procs -> Seq(Outer)]
      BY <2>2, <2>3, <3>1 DEF WholeInv, BuildTypeOK
    <3>3. clean' \in [Procs -> BOOLEAN] /\ sound' \in [Procs -> BOOLEAN]
      BY <1>4 DEF WholeInv, BuildTypeOK
    <3> QED
      BY <1>1, <3>2, <3>3 DEF WholeInv, BuildTypeOK
  <2>5. /\ pc'[p] = "deps" /\ dir'[p] = o.dir /\ rest'[p] = o.rest
        /\ waiting'[p] = f /\ clean'[p] = clean[p] /\ writing'[p] = NoName
    BY <1>1, <1>4, <2>3 DEF WholeInv, BuildTypeOK
  <2>6. /\ IdleIsEmpty(p)' /\ OwnPackages(p)' /\ OuterBuilds(p)' /\ OpenIsPartial(p)'
        /\ In(p)' \subseteq In(p) /\ RestIsMissing(p)'
    <3>1. o.dir \in Dirs /\ o.rest \subseteq Pkgs[o.dir] /\ o.dir \in In(p)
      BY <2>1 DEF WholeInv, OuterBuilds, In
    <3>2. IdleIsEmpty(p)' /\ OwnPackages(p)' /\ OpenIsPartial(p)'
      BY <2>5, <3>1 DEF IdleIsEmpty, OwnPackages, OpenIsPartial, Idle
    <3>3. In(p)' \subseteq In(p)
      BY <2>2, <2>5, <3>1 DEF In, Idle
    <3>4. OuterBuilds(p)'
      BY <1>1, <2>1, <2>2, <2>5 DEF WholeInv, OuterBuilds
    <3>5. RestIsMissing(p)'
      BY <1>1, <2>1, <2>2, <2>5 DEF WholeInv, RestIsMissing, StillMissing
    <3> QED
      BY <3>2, <3>3, <3>4, <3>5
  <2>7. Apart'
    BY <1>1, <1>2, <2>6 DEF WholeInv, Apart
  <2> QED
    BY <1>2, <2>4, <2>6, <2>7 DEF WholeInv
<1> QED
  BY <1>3, <1>4

LEMMA WholeAbort ==
    ASSUME WholeInv, NEW p \in Procs, Abort(p)
    PROVE  WholeInv'
<1> USE DEF Abort, Goto
<1>1. ASSUME NEW q \in Procs, q # p
      PROVE  /\ IdleIsEmpty(q)' /\ OwnPackages(q)' /\ OuterBuilds(q)'
             /\ RestIsMissing(q)' /\ OpenIsPartial(q)'
             /\ In(q)' = In(q)
  <2>1. /\ pc'[q] = pc[q] /\ dir'[q] = dir[q] /\ rest'[q] = rest[q] /\ left'[q] = left[q]
        /\ waiting'[q] = waiting[q] /\ clean'[q] = clean[q] /\ writing'[q] = writing[q]
        /\ UNCHANGED <<file, disturbed>>
    BY <1>1 DEF WholeInv, BuildTypeOK
  <2>2. IdleIsEmpty(q)' /\ OwnPackages(q)' /\ In(q)' = In(q)
    BY <2>1 DEF WholeInv, IdleIsEmpty, OwnPackages, In, Idle
  <2>3. OuterBuilds(q)' /\ OpenIsPartial(q)' /\ RestIsMissing(q)'
    <3> HIDE DEF Abort, Goto
    <3>1. OuterBuilds(q)'
      BY <2>1 DEF WholeInv, OuterBuilds
    <3>2. OpenIsPartial(q)'
      BY <2>1 DEF WholeInv, OpenIsPartial
    <3>3. RestIsMissing(q)'
      BY <2>1 DEF WholeInv, RestIsMissing, StillMissing
    <3> QED
      BY <3>1, <3>2, <3>3
  <2> QED
    BY <2>2, <2>3
<1>2. /\ IdleIsEmpty(p)' /\ OwnPackages(p)' /\ OuterBuilds(p)'
      /\ RestIsMissing(p)' /\ OpenIsPartial(p)'
      /\ In(p)' = {}
  <2>1. /\ pc'[p] = "idle" /\ rest'[p] = {} /\ waiting'[p] = <<>> /\ writing'[p] = NoName
    BY DEF WholeInv, BuildTypeOK
  <2> QED
    BY <2>1
    DEF IdleIsEmpty, OwnPackages, OuterBuilds, RestIsMissing, OpenIsPartial, In, Idle
<1>3. BuildTypeOK'
  BY DEF WholeInv, BuildTypeOK
<1>4. Apart'
  BY <1>1, <1>2 DEF WholeInv, Apart
<1> QED
  BY <1>1, <1>2, <1>3, <1>4 DEF WholeInv

LEMMA WholeNext == WholeInv /\ [Next]_vars => WholeInv'
<1> SUFFICES ASSUME WholeInv, [Next]_vars
             PROVE  WholeInv'
  OBVIOUS
<1>1. CASE UNCHANGED vars
  BY <1>1, QuietSteps DEF vars, dlVars, buildVars, WholeInv, BuildTypeOK
<1>2. ASSUME NEW u \in Urls, Publish(u), UNCHANGED buildVars
      PROVE  WholeInv'
  BY <1>2, QuietSteps DEF Publish, buildVars, WholeInv, BuildTypeOK
<1>3. ASSUME NEW p \in Procs, Download(p)
      PROVE  WholeInv'
  <2>1. /\ dir' = dir /\ disturbed \subseteq disturbed' /\ pc[p] \in DlSteps
        /\ UNCHANGED buildVars
    BY <1>3, DownloadSteps DEF Download
  <2>2. PICK step \in LaterSteps : pc' = [pc EXCEPT ![p] = step]
    BY <1>3, DownloadSteps DEF Download, Goto
  <2>3. BuildTypeOK'
    BY <2>1, <2>2 DEF WholeInv, BuildTypeOK, buildVars, LaterSteps
  <2>4. \A q \in Procs : /\ pc'[q] = "idle" <=> pc[q] = "idle"
                         /\ pc'[q] = "write" <=> pc[q] = "write"
    BY <2>1, <2>2 DEF WholeInv, BuildTypeOK, LaterSteps, DlSteps
  <2> QED
    BY <2>1, <2>3, <2>4, QuietSteps DEF buildVars
<1>4. ASSUME NEW p \in Procs, SkipDep(p)
      PROVE  WholeInv'
  <2>1. BuildTypeOK'
    BY <1>4 DEF SkipDep, dlVars, WholeInv, BuildTypeOK
  <2> QED
    BY <1>4, <2>1, QuietSteps DEF SkipDep, dlVars
<1>5. ASSUME NEW p \in Procs, PrepareDirs(p)
      PROVE  WholeInv'
  <2>1. PICK step \in {"fetched", "get"} : pc' = [pc EXCEPT ![p] = step]
    BY <1>5 DEF PrepareDirs, Goto
  <2>2. /\ pc[p] = "deps" /\ UNCHANGED <<dir, buildVars>> /\ disturbed \subseteq disturbed'
    BY <1>5 DEF PrepareDirs, At
  <2>3. BuildTypeOK' /\ \A q \in Procs : /\ pc'[q] = "idle" <=> pc[q] = "idle"
                                         /\ pc'[q] = "write" <=> pc[q] = "write"
    BY <2>1, <2>2 DEF WholeInv, BuildTypeOK, buildVars, DlSteps
  <2> QED
    BY <2>2, <2>3, QuietSteps DEF buildVars
<1>6. ASSUME NEW p \in Procs, Execute(p)
      PROVE  WholeInv'
  <2>1. /\ pc[p] = "fetched" /\ pc' = [pc EXCEPT ![p] = "pack"]
        /\ UNCHANGED <<dir, file, rest, left, waiting, clean, writing>>
        /\ sound' = [sound EXCEPT ![p] = HasSources(dir[p])]
        /\ disturbed \subseteq disturbed'
    BY <1>6 DEF Execute, At, Goto
  <2>2. HasSources(dir[p]) \in BOOLEAN
    BY DEF HasSources
  <2>3. BuildTypeOK' /\ \A q \in Procs : /\ pc'[q] = "idle" <=> pc[q] = "idle"
                                         /\ pc'[q] = "write" <=> pc[q] = "write"
    BY <2>1, <2>2 DEF WholeInv, BuildTypeOK
  <2> QED
    BY <2>1, <2>3, QuietSteps
<1> QED
  BY <1>1, <1>2, <1>3, <1>4, <1>5, <1>6, WholeStart, WholeBuildDep, WholeCreateFile,
     WholeWriteFile, WholeFinish, WholeAbort
  DEF Next, Step

-----------------------------------------------------------------------------
(* The theorem *)

\* What a step does to a file that is whole.
LEMMA WholeStep ==
    ASSUME WholeInv, [Next]_vars, NEW k \in Names, file[k] = "good", file'[k] # "good"
    PROVE  \/ \E p \in Procs : clean[p] /\ writing'[p] = k
           \/ Owner(k) \in disturbed
<1>1. file' # file
  OBVIOUS
<1>2. PICK p \in Procs : CreateFile(p) \/ WriteFile(p)
  BY <1>1 DEF Next, Step, vars, buildVars, Start, SkipDep, BuildDep, PrepareDirs,
              Download, Execute, Finish, Abort
<1>3. CASE CreateFile(p)
  <2>1. PICK j \in rest[p] : /\ writing' = [writing EXCEPT ![p] = j]
                             /\ file' = [file EXCEPT ![j] = "partial"]
    BY <1>3 DEF CreateFile
  <2>2. j = k /\ writing'[p] = k
    BY <2>1 DEF WholeInv, BuildTypeOK
  <2>3. writing[p] # k
    BY <1>3, BuildAssumption DEF CreateFile, At, WholeInv, OwnPackages, BuildAssumption
  <2>4. clean[p] \/ Owner(k) \in disturbed
    BY <2>1, <2>2, <2>3 DEF WholeInv, RestIsMissing, StillMissing
  <2> QED
    BY <2>2, <2>4
<1>4. CASE WriteFile(p)
  <2>1. writing[p] = k /\ pc[p] = "write"
    BY <1>4 DEF WriteFile, At, WholeInv, BuildTypeOK
  <2> QED
    BY <2>1 DEF WholeInv, OpenIsPartial
<1> QED
  BY <1>2, <1>3, <1>4

\* A package file that was built from the sources it names stays as it is,
\* whatever fails, whoever else builds, and whatever the sources become:
\* only --clean or a build in a directory another build is in writes it again
\* (build.go 305, script_executor.go 195).
THEOREM WholeFilesStayWhole == Spec => WholeStaysWhole
<1>1. WholeInv /\ [Next]_vars =>
        [\A k \in Names :
          file[k] = "good" /\ file'[k] # "good" =>
              \/ \E p \in Procs : clean[p] /\ writing'[p] = k
              \/ Owner(k) \in disturbed]_vars
  BY WholeStep
<1> QED
  BY <1>1, WholeInit, WholeNext, PTL DEF Spec, WholeStaysWhole

-----------------------------------------------------------------------------
(* The sources and the cache *)

\* The types the model spells out, and the steps with an open file.
AllSteps == DlSteps \cup {"idle", "deps", "fetched", "pack", "write", "failed"}
Busy     == {"fill", "check", "unpack", "record"}

\* A process in a download has a source it is at, and only those of its script.
AtSource(p) ==
    /\ pc[p] \in DlSteps =>
          /\ todo[p] # <<>>
          /\ Range(todo[p]) \subseteq Range(Sources[dir[p]])
          /\ \A i, j \in DOMAIN todo[p] :
                i # j /\ todo[p][i] = todo[p][j] => Repeated(dir[p], todo[p][i])
    /\ pc[p] = "fetched" => todo[p] = <<>>

\* It holds a file open from its creation to the manifest.
OpenHand(p) ==
    /\ pc[p] \in Busy => hand[p] # NoInode
    /\ hand[p] # NoInode => pc[p] \in Busy \cup {"failed"} /\ todo[p] # <<>>

\* A name or an open file of the URL leads to the inode.
Leads(u, i) ==
    \/ cache[u].ino = i
    \/ \E d \in Dirs : src[d][u] = i
    \/ \E p \in Procs : hand[p] = i /\ Url(p) = u

\* An inode belongs to one URL.
OneUrl == \A u, v \in Urls, i \in Inodes : Leads(u, i) /\ Leads(v, i) => u = v

\* Two processes that fetch one URL are known to disturb each other.
OneFetcher ==
    \A p, q \in Procs, u \in Urls :
        p # q /\ Fetching(p, u) /\ Fetching(q, u) => u \in disturbed

SourceInv ==
    /\ TypeOK
    /\ \A p \in Procs : AtSource(p) /\ OpenHand(p)
    /\ OneUrl
    /\ OneFetcher

\* Nothing is known to spoil the source, and it is no branch that moves.
Steady(u) == ~Spoilt(u) /\ kind[u] # "git"

\* A checkout of a revision holds that revision.
AsCommitted(u, i) == kind[u] = "gitrev" => data[i] = upstream[u]

\* What is in the cache with a manifest.
Verified(u) ==
    cache[u].manifest =>
        /\ cache[u].ino # NoInode
        /\ \E d \in Dirs : u \in Range(Sources[d]) /\ Matches(d, u, data[cache[u].ino])
        /\ AsCommitted(u, cache[u].ino)

\* What a process that fetches it alone finds in the cache at each step.
FetchState(p, u) ==
    Fetching(p, u) =>
        /\ pc[p] = "update" => IsGit(u)
        /\ pc[p] = "create" => ~cache[u].manifest /\ cache[u].ino = NoInode
        /\ pc[p] \in Busy => ~cache[u].manifest /\ cache[u].ino = hand[p]
        /\ pc[p] \in {"fill", "unpack"} => \A d \in Dirs : src[d][u] # hand[p]
        /\ pc[p] \in Busy \ {"fill"} => AsCommitted(u, hand[p])
        /\ pc[p] \in {"unpack", "record"} => Matches(dir[p], u, data[hand[p]])
        /\ pc[p] = "rewrite" =>
              /\ ~cache[u].manifest /\ cache[u].ino # NoInode
              /\ AsCommitted(u, cache[u].ino)
              /\ Matches(dir[p], u, data[cache[u].ino])
        /\ pc[p] \in {"linkCached", "link"} => cache[u].manifest

\* A source that is still to be fetched is not in the source directory ...
Fresh(p, u) ==
    pc[p] \in DlSteps /\ u \in Range(todo[p]) => src[dir[p]][u] = NoInode

\* ... and one that was fetched is there, as the script wants it.
Linked(p, u) ==
    /\ pc[p] \in DlSteps \cup {"fetched"}
    /\ u \in Range(Sources[dir[p]]) \ Range(todo[p])
    /\ ~Disputed(u)
    => /\ src[dir[p]][u] # NoInode
       /\ Matches(dir[p], u, data[src[dir[p]][u]])
       /\ AsCommitted(u, src[dir[p]][u])

\* All of it, for a source that nothing spoils.
UrlInv(u) ==
    Steady(u) => Verified(u) /\ \A p \in Procs : FetchState(p, u) /\ Fresh(p, u) /\ Linked(p, u)

CacheInv == SourceInv /\ \A u \in Urls : UrlInv(u)

\* What the build of a script may have gone wrong by.
Tainted(d) == \/ Disturbed(d) \/ Moving(d)
              \/ \E u \in Range(Sources[d]) : Disputed(u)

\* What is built, and what was built, is sound but for these causes.
SoundInv ==
    /\ \A p \in Procs : pc[p] \in {"pack", "write"} => sound[p] \/ Tainted(dir[p])
    /\ \A k \in Names : /\ file[k] = "bad" => Tainted(Owner(k))
                        /\ file[k] = "partial" => k \in torn \/ \E p \in Procs : writing[p] = k

-----------------------------------------------------------------------------
(* Inodes *)

\* A set that is the image of a finite set is no larger than it.
LEMMA ImageIsSmall ==
    ASSUME NEW S, IsFiniteSet(S), NEW T, NEW f \in [S -> T]
    PROVE  IsFiniteSet(Range(f)) /\ Cardinality(Range(f)) \in Nat
           /\ Cardinality(Range(f)) <= Cardinality(S)
<1>1. f \in Surjection(S, Range(f))
  BY Fun_RangeProperties
<1>2. IsFiniteSet(Range(f)) /\ Cardinality(Range(f)) <= Cardinality(S)
  BY <1>1, FS_Surjection
<1> QED
  BY <1>2, FS_CardinalityType

\* There are as many inodes as names and open files: one that has no name yet
\* leaves an inode for it.
LEMMA NewInodeIsFree ==
    ASSUME DlTypeOK, NEW u \in Urls, cache[u].ino = NoInode
    PROVE  NewInode \in Inodes /\ NewInode \notin Used
<1> DEFINE a == [v \in Urls \ {u} |-> cache[v].ino]
           b == [x \in Dirs \X Urls |-> src[x[1]][x[2]]]
           A == Range(a)
           B == Range(b)
           C == Range(hand)
           X == Inodes \cup {NoInode}
           n == Cardinality(Urls) * (1 + Cardinality(Dirs)) + Cardinality(Procs)
<1>1. IsFiniteSet(Procs) /\ IsFiniteSet(Urls) /\ IsFiniteSet(Dirs)
  BY DownloadAssumption DEF DownloadAssumption
<1>2. /\ Cardinality(Procs) \in Nat /\ Cardinality(Urls) \in Nat /\ Cardinality(Dirs) \in Nat
  BY <1>1, FS_CardinalityType
<1>3. /\ IsFiniteSet(A) /\ Cardinality(A) \in Nat
      /\ Cardinality(A) <= Cardinality(Urls) - 1
  <2>1. IsFiniteSet(Urls \ {u}) /\ Cardinality(Urls \ {u}) = Cardinality(Urls) - 1
    BY <1>1, FS_RemoveElement
  <2>2. a \in [Urls \ {u} -> X]
    BY DEF DlTypeOK
  <2> HIDE DEF a
  <2> QED
    BY <2>1, <2>2, ImageIsSmall
<1>4. /\ IsFiniteSet(B) /\ Cardinality(B) \in Nat
      /\ Cardinality(B) <= Cardinality(Dirs) * Cardinality(Urls)
  <2>1. /\ IsFiniteSet(Dirs \X Urls)
        /\ Cardinality(Dirs \X Urls) = Cardinality(Dirs) * Cardinality(Urls)
    BY <1>1, FS_Product
  <2>2. b \in [Dirs \X Urls -> X]
    BY DEF DlTypeOK
  <2> HIDE DEF b
  <2> QED
    BY <2>1, <2>2, ImageIsSmall
<1>5. /\ IsFiniteSet(C) /\ Cardinality(C) \in Nat
      /\ Cardinality(C) <= Cardinality(Procs)
  BY <1>1, ImageIsSmall DEF DlTypeOK
<1>6. /\ IsFiniteSet(A \cup B \cup C)
      /\ Cardinality(A \cup B \cup C) <= Cardinality(A) + Cardinality(B) + Cardinality(C)
  <2> HIDE DEF A, B, C
  <2>1. /\ IsFiniteSet(A \cup B) /\ Cardinality(A \cup B) \in Nat
        /\ Cardinality(A \cup B) <= Cardinality(A) + Cardinality(B)
    <3>1. /\ IsFiniteSet(A \cap B) /\ Cardinality(A \cap B) \in Nat
      BY <1>3, FS_Intersection, FS_CardinalityType
    <3>2. /\ IsFiniteSet(A \cup B)
          /\ Cardinality(A \cup B) = Cardinality(A) + Cardinality(B) - Cardinality(A \cap B)
      BY <1>3, <1>4, FS_Union
    <3> QED
      BY <1>3, <1>4, <3>1, <3>2, FS_CardinalityType
  <2>2. /\ IsFiniteSet((A \cup B) \cap C) /\ Cardinality((A \cup B) \cap C) \in Nat
    BY <2>1, FS_Intersection, FS_CardinalityType
  <2>3. /\ IsFiniteSet(A \cup B \cup C)
        /\ Cardinality(A \cup B \cup C)
              = Cardinality(A \cup B) + Cardinality(C) - Cardinality((A \cup B) \cap C)
    BY <1>5, <2>1, FS_Union
  <2> QED
    BY <1>3, <1>4, <1>5, <2>1, <2>2, <2>3
<1>7. n \in Nat /\ IsFiniteSet(Inodes) /\ Cardinality(Inodes) = n
  <2>1. n \in Nat
    BY <1>2
  <2>2. Inodes = 1..n
    BY DEF Inodes
  <2> HIDE DEF n
  <2>3. IsFiniteSet(1..n) /\ Cardinality(1..n) = IF 1 > n THEN 0 ELSE n - 1 + 1
    BY <2>1, FS_Interval
  <2> QED
    BY <2>1, <2>2, <2>3
<1>8. Cardinality(A \cup B \cup C) < n
  <2>1. Cardinality(Urls) * (1 + Cardinality(Dirs))
          = Cardinality(Urls) + Cardinality(Dirs) * Cardinality(Urls)
    BY <1>2
  <2>2. Cardinality(Dirs) * Cardinality(Urls) \in Nat
    BY <1>2
  <2>3. Cardinality(A \cup B \cup C) \in Nat
    BY <1>6, FS_CardinalityType
  <2> HIDE DEF A, B, C
  <2> QED
    BY <1>2, <1>3, <1>4, <1>5, <1>6, <2>1, <2>2, <2>3
<1>9. Used \subseteq A \cup B \cup C \cup {NoInode}
  <2>1. \A v \in Urls : cache[v].ino \in A \cup {NoInode}
    <3> SUFFICES ASSUME NEW v \in Urls, v # u PROVE cache[v].ino \in A
      OBVIOUS
    <3>1. v \in DOMAIN a /\ a[v] = cache[v].ino
      OBVIOUS
    <3> QED
      BY <3>1 DEF Range
  <2>2. \A d \in Dirs, v \in Urls : src[d][v] \in B
    <3> SUFFICES ASSUME NEW d \in Dirs, NEW v \in Urls PROVE src[d][v] \in B
      OBVIOUS
    <3>1. <<d, v>> \in DOMAIN b /\ b[<<d, v>>] = src[d][v]
      OBVIOUS
    <3> QED
      BY <3>1 DEF Range
  <2>3. \A p \in Procs : hand[p] \in C
    BY DEF Range, DlTypeOK
  <2> HIDE DEF A, B, C
  <2> QED
    BY <2>1, <2>2, <2>3 DEF Used
<1>10. ~(Inodes \subseteq A \cup B \cup C)
  <2> HIDE DEF A, B, C
  <2> SUFFICES ASSUME Inodes \subseteq A \cup B \cup C PROVE FALSE
    OBVIOUS
  <2>1. Cardinality(Inodes) <= Cardinality(A \cup B \cup C)
    BY <1>6, FS_Subset
  <2>2. Cardinality(A \cup B \cup C) \in Nat
    BY <1>6, FS_CardinalityType
  <2> QED
    BY <1>7, <1>8, <2>1, <2>2
<1>11. NoInode \notin Inodes
  BY <1>7 DEF Inodes, NoInode
<1>12. \E i \in Inodes : i \notin Used
  <2> HIDE DEF A, B, C
  <2> QED
    BY <1>9, <1>10, <1>11
<1> QED
  BY <1>12 DEF NewInode

\* What is in use keeps its data, and what is not is free.
LEMMA HoldingKeeps ==
    ASSUME NEW f \in [Inodes -> Contents \cup {"empty", "partial", "edited", "free"}],
           Holding(f)
    PROVE  /\ data' \in [Inodes -> Contents \cup {"empty", "partial", "edited", "free"}]
           /\ \A i \in Inodes : i \in Used' => data'[i] = f[i]
BY DEF Holding

\* Where a process is in the list of its sources.
LEMMA AtUrl ==
    ASSUME SourceInv, NEW p \in Procs, pc[p] \in DlSteps
    PROVE  /\ todo[p] # <<>> /\ todo[p] \in Seq(Urls)
           /\ Url(p) \in Urls /\ Url(p) \in Range(todo[p])
           /\ Url(p) \in Range(Sources[dir[p]])
<1>1. /\ todo[p] # <<>> /\ todo[p] \in Seq(Urls)
      /\ Range(todo[p]) \subseteq Range(Sources[dir[p]])
  BY DEF SourceInv, AtSource, TypeOK, DlTypeOK
<1>2. Url(p) \in Urls
  BY <1>1, HeadTailProperties DEF Url
<1>3. 1 \in DOMAIN todo[p] /\ Url(p) = todo[p][1]
  BY <1>1 DEF Url
<1>4. Url(p) \in Range(todo[p])
  BY <1>3 DEF Range
<1> QED
  BY <1>1, <1>2, <1>4

\* Going on to the next source.
LEMMA NextSourceMoves ==
    ASSUME SourceInv, NEW p \in Procs, pc[p] \in DlSteps, NextSource(p)
    PROVE  /\ todo' \in [Procs -> Seq(Urls)]
           /\ todo'[p] = Tail(todo[p])
           /\ \A q \in Procs \ {p} : todo'[q] = todo[q] /\ pc'[q] = pc[q]
           /\ Range(todo'[p]) \subseteq Range(todo[p])
           /\ Range(todo[p]) = Range(todo'[p]) \cup {Url(p)}
           /\ pc'[p] \in {"get", "fetched"}
           /\ pc'[p] = "fetched" <=> todo'[p] = <<>>
           /\ \A i, j \in DOMAIN todo'[p] :
                i # j /\ todo'[p][i] = todo'[p][j] => Repeated(dir[p], todo'[p][i])
           /\ Url(p) \in Range(todo'[p]) => Repeated(dir[p], Url(p))
<1> DEFINE s == todo[p]
<1>1. s # <<>> /\ s \in Seq(Urls) /\ pc \in [Procs -> AllSteps] /\ todo \in [Procs -> Seq(Urls)]
  BY AtUrl DEF SourceInv, TypeOK, DlTypeOK, AllSteps
<1>2. /\ Tail(s) \in Seq(Urls) /\ Len(Tail(s)) = Len(s) - 1 /\ Len(s) \in Nat
      /\ DOMAIN s = 1..Len(s) /\ DOMAIN Tail(s) = 1..(Len(s) - 1) /\ Len(s) >= 1
      /\ \A i \in DOMAIN Tail(s) : Tail(s)[i] = s[i + 1]
  <2>1. Tail(s) \in Seq(Urls) /\ Len(Tail(s)) = Len(s) - 1
        /\ \A i \in 1..Len(Tail(s)) : Tail(s)[i] = s[i + 1]
    BY <1>1, HeadTailProperties
  <2>2. Len(s) \in Nat /\ DOMAIN s = 1..Len(s) /\ DOMAIN Tail(s) = 1..Len(Tail(s))
    BY <1>1, <2>1, LenProperties
  <2>3. Len(s) >= 1
    BY <1>1, <2>2, EmptySeq
  <2> QED
    BY <2>1, <2>2, <2>3
<1>3. todo'[p] = Tail(s) /\ pc'[p] = IF Len(s) = 1 THEN "fetched" ELSE "get"
  BY <1>1 DEF NextSource
<1>4. \A q \in Procs \ {p} : todo'[q] = todo[q] /\ pc'[q] = pc[q]
  BY <1>1 DEF NextSource
<1>5. todo' \in [Procs -> Seq(Urls)]
  BY <1>1, <1>2 DEF NextSource
<1>6. Range(s) = Range(Tail(s)) \cup {Url(p)}
  <2>1. Url(p) = s[1]
    BY <1>1 DEF Url
  <2>2. ASSUME NEW i \in DOMAIN s PROVE s[i] \in Range(Tail(s)) \cup {Url(p)}
    <3>1. CASE i = 1
      BY <2>1, <3>1
    <3>2. CASE i # 1
      <4>1. i - 1 \in DOMAIN Tail(s) /\ Tail(s)[i - 1] = s[i]
        BY <1>2, <3>2
      <4> QED
        BY <4>1 DEF Range
    <3> QED
      BY <3>1, <3>2
  <2>3. ASSUME NEW i \in DOMAIN Tail(s) PROVE Tail(s)[i] \in Range(s)
    <3>1. i + 1 \in DOMAIN s /\ Tail(s)[i] = s[i + 1]
      BY <1>2
    <3> QED
      BY <3>1 DEF Range
  <2>4. Url(p) \in Range(s)
    BY AtUrl
  <2> QED
    BY <2>2, <2>3, <2>4 DEF Range
<1>7. pc'[p] = "fetched" <=> todo'[p] = <<>>
  <2>1. Tail(s) = <<>> <=> Len(Tail(s)) = 0
    BY <1>2, EmptySeq
  <2> QED
    BY <1>2, <1>3, <2>1
<1>8. \A i, j \in DOMAIN s : i # j /\ s[i] = s[j] => Repeated(dir[p], s[i])
  BY DEF SourceInv, AtSource
<1>9. ASSUME NEW i \in DOMAIN Tail(s), NEW j \in DOMAIN Tail(s), i # j, Tail(s)[i] = Tail(s)[j]
      PROVE  Repeated(dir[p], Tail(s)[i])
  <2>1. i + 1 \in DOMAIN s /\ j + 1 \in DOMAIN s /\ i + 1 # j + 1 /\ s[i + 1] = s[j + 1]
        /\ Tail(s)[i] = s[i + 1]
    BY <1>2, <1>9
  <2> QED
    BY <1>8, <2>1
<1>10. ASSUME Url(p) \in Range(Tail(s)) PROVE Repeated(dir[p], Url(p))
  <2>1. PICK i \in DOMAIN Tail(s) : Tail(s)[i] = Url(p)
    BY <1>10 DEF Range
  <2>2. i + 1 \in DOMAIN s /\ 1 \in DOMAIN s /\ i + 1 # 1 /\ s[i + 1] = s[1] /\ s[1] = Url(p)
    BY <1>1, <1>2, <2>1 DEF Url
  <2> QED
    BY <1>8, <2>2
<1> QED
  BY <1>3, <1>4, <1>5, <1>6, <1>7, <1>9, <1>10

DataValues == Contents \cup {"empty", "partial", "edited", "free"}
Entry      == [dir : BOOLEAN, manifest : BOOLEAN, ino : Inodes \cup {NoInode}]

-----------------------------------------------------------------------------
(* What one step of a download may change *)

\* An inode the URL has already, or one nobody has.
Known(u, i) == i \in Inodes => Leads(u, i) \/ i \notin Used

\* What a step of a download, at the source u, may change.
Frame(p, u) ==
    /\ UNCHANGED <<kind, upstream, dir>>
    /\ disturbed \subseteq disturbed' /\ disturbed' \subseteq Urls \cup Dirs
    /\ cache' \in [Urls -> Entry]
    /\ src' \in [Dirs -> [Urls -> Inodes \cup {NoInode}]]
    /\ hand' \in [Procs -> Inodes \cup {NoInode}]
    /\ data' \in [Inodes -> DataValues]
    /\ \A q \in Procs \ {p} : pc'[q] = pc[q] /\ todo'[q] = todo[q] /\ hand'[q] = hand[q]
    /\ \A v \in Urls \ {u} : cache'[v] = cache[v] /\ \A d \in Dirs : src'[d][v] = src[d][v]
    /\ \A d \in Dirs \ {dir[p]} : src'[d] = src[d]
    /\ \/ todo' = todo /\ pc'[p] \in (DlSteps \ {"get"}) \cup {"failed"}
       \/ NextSource(p)
    /\ Known(u, cache'[u].ino) /\ Known(u, hand'[p])
    /\ \A d \in Dirs : Known(u, src'[d][u])
    /\ pc'[p] \in Busy => hand'[p] # NoInode
    /\ hand'[p] # NoInode => pc'[p] \in Busy \cup {"failed"} /\ todo' = todo
    /\ \A v \in Urls \ {u}, i \in Inodes : Leads(v, i) /\ i \in Used' => data'[i] = data[i]
    /\ pc[p] = "get" => \A q \in Procs \ {p} : Fetching(q, u) => u \in disturbed'

\* Nothing leads to "no inode".
LEMMA NoInodeIsNone == NoInode \notin Inodes
BY DEF NoInode, Inodes

\* A name that is unchanged is known.
LEMMA KnownNames ==
    ASSUME SourceInv, NEW p \in Procs, pc[p] \in DlSteps
    PROVE  /\ Known(Url(p), cache[Url(p)].ino) /\ Known(Url(p), hand[p])
           /\ \A d \in Dirs : Known(Url(p), src[d][Url(p)])
           /\ Known(Url(p), NoInode)
BY AtUrl, NoInodeIsNone DEF Known, Leads

\* Writing one entry of the cache.
LEMMA EntryIsWritten ==
    ASSUME SourceInv, NEW u \in Urls, NEW r \in Entry, cache' = [cache EXCEPT ![u] = r]
    PROVE  /\ cache' \in [Urls -> Entry] /\ cache'[u] = r
           /\ \A v \in Urls \ {u} : cache'[v] = cache[v]
BY DEF SourceInv, TypeOK, DlTypeOK, Entry

\* An entry that is cleared.
LEMMA GoneIsEntry == Gone \in Entry /\ Gone.ino = NoInode /\ ~Gone.manifest
BY DEF Gone, Entry

\* Looking for the directory opens no file.
LEMMA GetFrame ==
    ASSUME SourceInv, NEW p \in Procs, Get(p)
    PROVE  Frame(p, Url(p))
<1> USE DEF Get, At, downloadGivens, fileVars
<1>1. pc[p] \in DlSteps
  BY DEF DlSteps
<1>2. Url(p) \in Urls /\ hand[p] = NoInode
  BY <1>1, AtUrl DEF SourceInv, OpenHand, Busy
<1>3. PICK step \in {"new", "update", "manifest"} : Goto(p, step)
  OBVIOUS
<1>4. /\ pc'[p] = step /\ \A q \in Procs \ {p} : pc'[q] = pc[q]
  BY <1>3 DEF Goto, SourceInv, TypeOK
<1>5. pc'[p] \in DlSteps \ {"get"} /\ pc'[p] \notin Busy
  BY <1>4 DEF DlSteps, Busy
<1> QED
  BY <1>1, <1>2, <1>4, <1>5, KnownNames
  DEF Frame, SourceInv, TypeOK, DlTypeOK, DataValues, Entry

\* A working copy that is updated belongs to its URL.
LEMMA UpdateGitFrame ==
    ASSUME SourceInv, NEW p \in Procs, UpdateGit(p)
    PROVE  Frame(p, Url(p))
<1> DEFINE u == Url(p)
           i == cache[u].ino
<1> USE DEF UpdateGit, At, downloadGivens
<1>1. pc[p] \in DlSteps
  BY DEF DlSteps
<1>2. u \in Urls /\ hand[p] = NoInode
  BY <1>1, AtUrl DEF SourceInv, OpenHand, Busy
<1>3. PICK step \in {"failed", "manifest", "rewrite"} : Goto(p, step)
  OBVIOUS
<1>4. /\ pc'[p] = step /\ \A q \in Procs \ {p} : pc'[q] = pc[q]
  BY <1>3 DEF Goto, SourceInv, TypeOK
<1>5. pc'[p] \in (DlSteps \ {"get"}) \cup {"failed"} /\ pc'[p] \notin Busy
  BY <1>4 DEF DlSteps, Busy
<1>6. /\ data' \in [Inodes -> DataValues]
      /\ \A v \in Urls \ {u}, j \in Inodes : Leads(v, j) /\ j \in Used' => data'[j] = data[j]
  <2>1. CASE UNCHANGED data
    BY <2>1 DEF SourceInv, TypeOK, DlTypeOK, DataValues, Entry
  <2>2. ASSUME i # NoInode, NEW c \in CheckedOut(u, i), Holding([data EXCEPT ![i] = c])
        PROVE  <1>6!1 /\ <1>6!2
    <3>0. c \in DataValues
      BY <1>2, <2>2 DEF CheckedOut, SourceInv, TypeOK, DlTypeOK, DataValues
    <3>1. [data EXCEPT ![i] = c] \in [Inodes -> DataValues]
      BY <3>0 DEF SourceInv, TypeOK, DlTypeOK, DataValues, Entry
    <3>2. /\ data' \in [Inodes -> DataValues]
          /\ \A j \in Inodes : j \in Used' => data'[j] = [data EXCEPT ![i] = c][j]
      BY <2>2, <3>1, HoldingKeeps DEF DataValues
    <3>3. \A v \in Urls \ {u}, j \in Inodes : Leads(v, j) => j # i
      BY <1>2 DEF SourceInv, OneUrl, Leads
    <3> QED
      BY <3>2, <3>3 DEF SourceInv, TypeOK, DlTypeOK
  <2> QED
    BY <2>1, <2>2
<1>7. /\ cache' \in [Urls -> Entry]
      /\ \A v \in Urls \ {u} : cache'[v] = cache[v]
      /\ cache'[u].ino = cache[u].ino
  <2>1. CASE UNCHANGED cache
    BY <2>1 DEF SourceInv, TypeOK, DlTypeOK, Entry
  <2>2. CASE cache' = [cache EXCEPT ![u].manifest = FALSE]
    <3> DEFINE r == [cache[u] EXCEPT !.manifest = FALSE]
    <3>1. cache[u] \in Entry
      BY <1>2 DEF SourceInv, TypeOK, DlTypeOK, Entry
    <3>2. r \in Entry /\ r.ino = cache[u].ino
      BY <3>1 DEF Entry
    <3>3. cache' = [cache EXCEPT ![u] = r]
      BY <1>2, <2>2 DEF SourceInv, TypeOK, DlTypeOK
    <3> QED
      BY <1>2, <3>2, <3>3, EntryIsWritten
  <2> QED
    BY <2>1, <2>2
<1> QED
  BY <1>1, <1>2, <1>4, <1>5, <1>6, <1>7, KnownNames
  DEF Frame, SourceInv, TypeOK, DlTypeOK, Entry

\* A step that writes nothing.
LEMMA HoldingData ==
    ASSUME SourceInv, Holding(data)
    PROVE  /\ data' \in [Inodes -> DataValues]
           /\ \A i \in Inodes : i \in Used' => data'[i] = data[i]
BY HoldingKeeps DEF SourceInv, TypeOK, DlTypeOK, DataValues, Entry

\* Throwing away what is not complete leaves other URLs alone.
LEMMA ReadManifestFrame ==
    ASSUME SourceInv, NEW p \in Procs, ReadManifest(p)
    PROVE  Frame(p, Url(p))
<1> DEFINE u == Url(p)
<1> USE DEF ReadManifest, At, downloadGivens
<1>1. pc[p] \in DlSteps
  BY DEF DlSteps
<1>2. u \in Urls /\ hand[p] = NoInode
  BY <1>1, AtUrl DEF SourceInv, OpenHand, Busy
<1>3. PICK step \in {"linkCached", "new"} : Goto(p, step)
  OBVIOUS
<1>4. /\ pc'[p] = step /\ \A q \in Procs \ {p} : pc'[q] = pc[q]
  BY <1>3 DEF Goto, SourceInv, TypeOK
<1>5. pc'[p] \in (DlSteps \ {"get"}) \cup {"failed"} /\ pc'[p] \notin Busy
  BY <1>4 DEF DlSteps, Busy
<1>6. /\ cache' \in [Urls -> Entry]
      /\ \A v \in Urls \ {u} : cache'[v] = cache[v]
      /\ cache'[u].ino \in {cache[u].ino, NoInode}
  <2>1. CASE UNCHANGED cache
    BY <2>1 DEF SourceInv, TypeOK, DlTypeOK, Entry
  <2>2. CASE cache' = [cache EXCEPT ![u] = Gone]
    BY <1>2, <2>2, EntryIsWritten, GoneIsEntry DEF Entry
  <2> QED
    BY <2>1, <2>2
<1> QED
  BY <1>1, <1>2, <1>4, <1>5, <1>6, HoldingData, KnownNames
  DEF Frame, SourceInv, TypeOK, DlTypeOK, Entry

\* So does clearing the directory.
LEMMA NewFrame ==
    ASSUME SourceInv, NEW p \in Procs, New(p)
    PROVE  Frame(p, Url(p))
<1> DEFINE u == Url(p)
<1> USE DEF New, At, downloadGivens
<1>1. pc[p] \in DlSteps
  BY DEF DlSteps
<1>2. u \in Urls /\ hand[p] = NoInode
  BY <1>1, AtUrl DEF SourceInv, OpenHand, Busy
<1>3. /\ pc'[p] = "create" /\ \A q \in Procs \ {p} : pc'[q] = pc[q]
  BY DEF Goto, SourceInv, TypeOK
<1>4. pc'[p] \in (DlSteps \ {"get"}) \cup {"failed"} /\ pc'[p] \notin Busy
  BY <1>3 DEF DlSteps, Busy
<1>5. /\ cache' \in [Urls -> Entry]
      /\ \A v \in Urls \ {u} : cache'[v] = cache[v]
      /\ cache'[u].ino = NoInode
  <2>1. [Gone EXCEPT !.dir = TRUE] \in Entry /\ [Gone EXCEPT !.dir = TRUE].ino = NoInode
    BY DEF Gone, Entry
  <2> QED
    BY <1>2, <2>1, EntryIsWritten
<1> QED
  BY <1>1, <1>2, <1>3, <1>4, <1>5, HoldingData, KnownNames
  DEF Frame, SourceInv, TypeOK, DlTypeOK, Entry

\* A new file gets an inode of its own.
LEMMA CreateFrame ==
    ASSUME SourceInv, NEW p \in Procs, Create(p)
    PROVE  Frame(p, Url(p))
<1> DEFINE u == Url(p)
           c == cache[u]
           i == IF c.ino = NoInode THEN NewInode ELSE c.ino
<1> USE DEF Create, At, downloadGivens
<1>1. pc[p] \in DlSteps
  BY DEF DlSteps
<1>2. u \in Urls /\ hand[p] = NoInode
  BY <1>1, AtUrl DEF SourceInv, OpenHand, Busy
<1>3. CASE Goto(p, "failed") /\ UNCHANGED <<cache, data, hand>>
  <2>1. /\ pc'[p] = "failed" /\ \A q \in Procs \ {p} : pc'[q] = pc[q]
    BY <1>3 DEF Goto, SourceInv, TypeOK
  <2>2. pc'[p] \notin Busy
    BY <2>1 DEF Busy
  <2> QED
    BY <1>1, <1>2, <1>3, <2>1, <2>2, KnownNames
    DEF Frame, SourceInv, TypeOK, DlTypeOK, DataValues, Entry
<1>4. CASE /\ Goto(p, "fill")
           /\ cache' = [cache EXCEPT ![u].dir = TRUE, ![u].ino = i]
           /\ hand' = [hand EXCEPT ![p] = i]
           /\ Holding([data EXCEPT ![i] = "empty"])
  <2>1. /\ pc'[p] = "fill" /\ \A q \in Procs \ {p} : pc'[q] = pc[q]
    BY <1>4 DEF Goto, SourceInv, TypeOK
  <2>2. pc'[p] \in Busy /\ pc'[p] \in DlSteps \ {"get"}
    BY <2>1 DEF Busy, DlSteps
  <2>3. i \in Inodes /\ (c.ino = i \/ i \notin Used)
    BY <1>2, NewInodeIsFree DEF SourceInv, TypeOK, DlTypeOK
  <2>4. /\ cache' \in [Urls -> Entry]
        /\ \A v \in Urls \ {u} : cache'[v] = cache[v]
        /\ cache'[u].ino = i
    <3> DEFINE r == [c EXCEPT !.dir = TRUE, !.ino = i]
    <3>1. c \in Entry
      BY <1>2 DEF SourceInv, TypeOK, DlTypeOK, Entry
    <3> HIDE DEF i, c
    <3>2. r \in Entry /\ r.ino = i
      BY <2>3, <3>1 DEF Entry
    <3>3. cache' = [cache EXCEPT ![u] = r]
      BY <1>2, <1>4 DEF SourceInv, TypeOK, DlTypeOK, c
    <3> QED
      BY <1>2, <3>2, <3>3, EntryIsWritten DEF Entry
  <2>5. /\ hand' \in [Procs -> Inodes \cup {NoInode}] /\ hand'[p] = i
        /\ \A q \in Procs \ {p} : hand'[q] = hand[q]
    BY <1>4, <2>3 DEF SourceInv, TypeOK, DlTypeOK
  <2>6. Known(u, i)
    BY <2>3 DEF Known, Leads
  <2>7. [data EXCEPT ![i] = "empty"] \in [Inodes -> DataValues]
    BY DEF SourceInv, TypeOK, DlTypeOK, DataValues, Entry
  <2>8. /\ data' \in [Inodes -> DataValues]
        /\ \A j \in Inodes : j \in Used' => data'[j] = [data EXCEPT ![i] = "empty"][j]
    BY <1>4, <2>7, HoldingKeeps DEF DataValues
  <2>9. \A v \in Urls \ {u}, j \in Inodes : Leads(v, j) => j # i
    <3> SUFFICES ASSUME NEW v \in Urls \ {u}, Leads(v, i) PROVE FALSE
      BY <2>3
    <3>1. i \in Used
      BY DEF Leads, Used
    <3>2. Leads(u, i)
      BY <2>3, <3>1 DEF Leads
    <3> QED
      BY <1>2, <2>3, <3>2 DEF SourceInv, OneUrl
  <2>10. \A v \in Urls \ {u}, j \in Inodes : Leads(v, j) /\ j \in Used' => data'[j] = data[j]
    BY <2>8, <2>9 DEF SourceInv, TypeOK, DlTypeOK
  <2>11. hand'[p] # NoInode
    BY <2>3, <2>5, NoInodeIsNone
  <2> QED
    BY <1>1, <1>2, <2>1, <2>2, <2>4, <2>5, <2>6, <2>8, <2>10, <2>11, KnownNames
    DEF Frame, SourceInv, TypeOK, DlTypeOK, Entry
<1> QED
  BY <1>3, <1>4

\* Writing to one inode of the source p is at, or of its open file, leaves the
\* data of other sources alone.
LEMMA OwnInode ==
    ASSUME SourceInv, NEW p \in Procs, pc[p] \in DlSteps, NEW i, NEW x \in DataValues,
           i \in Inodes => Leads(Url(p), i),
           Holding([data EXCEPT ![i] = x])
    PROVE  /\ data' \in [Inodes -> DataValues]
           /\ \A v \in Urls \ {Url(p)}, j \in Inodes :
                 Leads(v, j) /\ j \in Used' => data'[j] = data[j]
<1>1. [data EXCEPT ![i] = x] \in [Inodes -> DataValues]
  BY DEF SourceInv, TypeOK, DlTypeOK, DataValues
<1>2. /\ data' \in [Inodes -> DataValues]
      /\ \A j \in Inodes : j \in Used' => data'[j] = [data EXCEPT ![i] = x][j]
  BY <1>1, HoldingKeeps DEF DataValues
<1>3. \A j \in Inodes : [data EXCEPT ![i] = x][j] = IF j = i THEN x ELSE data[j]
  BY DEF SourceInv, TypeOK, DlTypeOK
<1>4. \A v \in Urls \ {Url(p)}, j \in Inodes : Leads(v, j) => j # i
  BY AtUrl DEF SourceInv, OneUrl
<1> QED
  BY <1>2, <1>3, <1>4

\* The same, of what was written.
LEMMA WrittenInode ==
    ASSUME SourceInv, NEW i \in Inodes, NEW x \in DataValues,
           Holding([data EXCEPT ![i] = x]),
           NEW j \in Inodes, j \in Used'
    PROVE  data'[j] = IF j = i THEN x ELSE data[j]
<1>1. [data EXCEPT ![i] = x] \in [Inodes -> DataValues]
  BY DEF SourceInv, TypeOK, DlTypeOK, DataValues
<1>2. data'[j] = [data EXCEPT ![i] = x][j]
  BY <1>1, HoldingKeeps DEF DataValues
<1> QED
  BY <1>2 DEF SourceInv, TypeOK, DlTypeOK

\* The transfer writes to the open file.
LEMMA FillFrame ==
    ASSUME SourceInv, NEW p \in Procs, Fill(p)
    PROVE  Frame(p, Url(p))
<1> DEFINE u == Url(p)
<1> USE DEF Fill, At, downloadGivens
<1>1. pc[p] \in DlSteps /\ pc[p] \in Busy
  BY DEF DlSteps, Busy
<1>2. u \in Urls /\ upstream[u] \in DataValues /\ "partial" \in DataValues
  BY <1>1, AtUrl DEF SourceInv, TypeOK, DlTypeOK, DataValues
<1>3. hand[p] \in Inodes /\ Leads(u, hand[p])
  BY <1>1 DEF SourceInv, TypeOK, DlTypeOK, OpenHand, Leads
<1>4. PICK step \in (Busy \ {"fill"}) \cup {"failed"} : Goto(p, step)
  <2>1. Received(p, u, upstream[u]) \in (Busy \ {"fill"}) \cup {"failed"}
    BY DEF Received, Busy
  <2> QED
    BY <2>1
<1>5. /\ pc'[p] = step /\ \A q \in Procs \ {p} : pc'[q] = pc[q]
  BY <1>4 DEF Goto, SourceInv, TypeOK
<1>6. pc'[p] \in (DlSteps \ {"get"}) \cup {"failed"} /\ pc'[p] \in Busy \cup {"failed"}
  BY <1>5 DEF DlSteps, Busy
<1>7. /\ data' \in [Inodes -> DataValues]
      /\ \A v \in Urls \ {u}, j \in Inodes : Leads(v, j) /\ j \in Used' => data'[j] = data[j]
  BY <1>1, <1>2, <1>3, OwnInode
<1>8. /\ cache' \in [Urls -> Entry]
      /\ \A v \in Urls \ {u} : cache'[v] = cache[v]
      /\ cache'[u].ino \in {cache[u].ino, NoInode}
  <2>1. CASE UNCHANGED cache
    BY <2>1 DEF SourceInv, TypeOK, DlTypeOK, Entry
  <2>2. CASE cache' = [cache EXCEPT ![u].ino = NoInode]
    <3>1. cache[u] \in Entry
      BY <1>2 DEF SourceInv, TypeOK, DlTypeOK, Entry
    <3>2. [cache[u] EXCEPT !.ino = NoInode] \in Entry /\ [cache[u] EXCEPT !.ino = NoInode].ino = NoInode
      BY <3>1 DEF Entry
    <3>3. cache' = [cache EXCEPT ![u] = [cache[u] EXCEPT !.ino = NoInode]]
      BY <1>2, <2>2 DEF SourceInv, TypeOK, DlTypeOK
    <3> QED
      BY <1>2, <3>2, <3>3, EntryIsWritten
  <2> QED
    BY <2>1, <2>2
<1>9. pc[p] # "get"
  OBVIOUS
<1> QED
  BY <1>1, <1>2, <1>3, <1>5, <1>6, <1>7, <1>8, <1>9, NoInodeIsNone, KnownNames
  DEF Frame, SourceInv, TypeOK, DlTypeOK, Entry

\* Verifying changes nothing.
LEMMA CheckOnDiskFrame ==
    ASSUME SourceInv, NEW p \in Procs, CheckOnDisk(p)
    PROVE  Frame(p, Url(p))
<1> USE DEF CheckOnDisk, At, downloadGivens, fileVars
<1>1. pc[p] \in DlSteps /\ pc[p] \in Busy
  BY DEF DlSteps, Busy
<1>2. Url(p) \in Urls /\ hand[p] # NoInode
  BY <1>1, AtUrl DEF SourceInv, OpenHand
<1>3. PICK step \in {"record", "failed"} : Goto(p, step)
  OBVIOUS
<1>4. /\ pc'[p] = step /\ \A q \in Procs \ {p} : pc'[q] = pc[q]
  BY <1>3 DEF Goto, SourceInv, TypeOK
<1>5. /\ pc'[p] \in (DlSteps \ {"get"}) \cup {"failed"} /\ pc'[p] \in Busy \cup {"failed"}
      /\ pc[p] # "get"
  BY <1>4 DEF DlSteps, Busy
<1> QED
  BY <1>1, <1>2, <1>4, <1>5, KnownNames
  DEF Frame, SourceInv, TypeOK, DlTypeOK, DataValues, Entry

\* Unpacking works on the open file.
LEMMA UnpackFrame ==
    ASSUME SourceInv, NEW p \in Procs, Unpack(p)
    PROVE  Frame(p, Url(p))
<1> DEFINE u == Url(p)
           i == IF cache[u].ino = NoInode THEN hand[p] ELSE cache[u].ino
<1> USE DEF Unpack, At, downloadGivens
<1>1. pc[p] \in DlSteps /\ pc[p] \in Busy
  BY DEF DlSteps, Busy
<1>2. u \in Urls /\ "partial" \in DataValues /\ hand[p] # NoInode
  BY <1>1, AtUrl DEF SourceInv, DataValues, OpenHand
<1>3. hand[p] \in Inodes /\ Leads(u, hand[p])
  BY <1>1, <1>2 DEF SourceInv, TypeOK, DlTypeOK, Leads
<1>4. PICK step \in {"record", "failed"} : Goto(p, step)
  OBVIOUS
<1>5. /\ pc'[p] = step /\ \A q \in Procs \ {p} : pc'[q] = pc[q]
  BY <1>4 DEF Goto, SourceInv, TypeOK
<1>6. /\ pc'[p] \in (DlSteps \ {"get"}) \cup {"failed"} /\ pc'[p] \in Busy \cup {"failed"}
      /\ pc[p] # "get"
  BY <1>5 DEF DlSteps, Busy
<1>7. /\ data' \in [Inodes -> DataValues]
      /\ \A v \in Urls \ {u}, j \in Inodes : Leads(v, j) /\ j \in Used' => data'[j] = data[j]
  <2>1. CASE UNCHANGED data
    BY <2>1 DEF SourceInv, TypeOK, DlTypeOK, DataValues
  <2>2. CASE Holding([data EXCEPT ![hand[p]] = "partial"])
    BY <1>1, <1>2, <1>3, <2>2, OwnInode
  <2> QED
    BY <2>1, <2>2
<1>8. /\ cache' \in [Urls -> Entry]
      /\ \A v \in Urls \ {u} : cache'[v] = cache[v]
      /\ cache'[u].ino = i
  <2> DEFINE r == [cache[u] EXCEPT !.dir = TRUE, !.ino = i]
  <2>1. cache[u] \in Entry /\ i \in Inodes \cup {NoInode}
    BY <1>2, <1>3 DEF SourceInv, TypeOK, DlTypeOK, Entry
  <2>2. cache' = [cache EXCEPT ![u] = r]
    BY <1>2 DEF SourceInv, TypeOK, DlTypeOK
  <2> HIDE DEF i
  <2>3. r \in Entry /\ r.ino = i
    BY <2>1 DEF Entry
  <2> QED
    BY <1>2, <2>2, <2>3, EntryIsWritten
<1>9. Known(u, i)
  BY <1>1, <1>3, KnownNames
<1> QED
  BY <1>1, <1>2, <1>3, <1>5, <1>6, <1>7, <1>8, <1>9, KnownNames
  DEF Frame, SourceInv, TypeOK, DlTypeOK, Entry

\* The manifest closes the file.
LEMMA RecordFrame ==
    ASSUME SourceInv, NEW p \in Procs, Record(p)
    PROVE  Frame(p, Url(p))
<1> DEFINE u == Url(p)
<1> USE DEF Record, At, downloadGivens
<1>1. pc[p] \in DlSteps
  BY DEF DlSteps
<1>2. u \in Urls
  BY <1>1, AtUrl
<1>3. PICK step \in {"link", "manifest", "failed"} : Goto(p, step)
  OBVIOUS
<1>4. /\ pc'[p] = step /\ \A q \in Procs \ {p} : pc'[q] = pc[q]
  BY <1>3 DEF Goto, SourceInv, TypeOK
<1>5. /\ pc'[p] \in (DlSteps \ {"get"}) \cup {"failed"} /\ pc'[p] \notin Busy
      /\ pc[p] # "get"
  BY <1>4 DEF DlSteps, Busy
<1>6. /\ hand' \in [Procs -> Inodes \cup {NoInode}] /\ hand'[p] = NoInode
      /\ \A q \in Procs \ {p} : hand'[q] = hand[q]
  BY DEF SourceInv, TypeOK, DlTypeOK
<1>7. /\ cache' \in [Urls -> Entry]
      /\ \A v \in Urls \ {u} : cache'[v] = cache[v]
      /\ cache'[u].ino = cache[u].ino
  <2>1. CASE UNCHANGED cache
    BY <2>1 DEF SourceInv, TypeOK, DlTypeOK, Entry
  <2>2. CASE cache' = [cache EXCEPT ![u].manifest = TRUE]
    <3> DEFINE r == [cache[u] EXCEPT !.manifest = TRUE]
    <3>1. cache[u] \in Entry
      BY <1>2 DEF SourceInv, TypeOK, DlTypeOK, Entry
    <3>2. r \in Entry /\ r.ino = cache[u].ino
      BY <3>1 DEF Entry
    <3>3. cache' = [cache EXCEPT ![u] = r]
      BY <1>2, <2>2 DEF SourceInv, TypeOK, DlTypeOK
    <3> QED
      BY <1>2, <3>2, <3>3, EntryIsWritten
  <2> QED
    BY <2>1, <2>2
<1> QED
  BY <1>1, <1>2, <1>4, <1>5, <1>6, <1>7, HoldingData, KnownNames
  DEF Frame, SourceInv, TypeOK, DlTypeOK, Entry

\* A link is made in the directory of the build.
LEMMA LinkFrame ==
    ASSUME SourceInv, NEW p \in Procs, dir[p] \in Dirs, Link(p)
    PROVE  Frame(p, Url(p))
<1> DEFINE u == Url(p)
           d == dir[p]
           i == cache[u].ino
           j == src[d][u]
<1> USE DEF Link, At, downloadGivens
<1>1. pc[p] \in DlSteps /\ pc[p] # "get" /\ pc[p] \notin Busy /\ pc[p] # "failed"
  BY DEF DlSteps, Busy
<1>2. u \in Urls /\ hand[p] = NoInode /\ u = Head(todo[p])
  BY <1>1, AtUrl DEF SourceInv, OpenHand, Busy, Url
<1>3. /\ \/ todo' = todo /\ pc'[p] \in (DlSteps \ {"get"}) \cup {"failed"}
         \/ NextSource(p)
      /\ \A q \in Procs \ {p} : pc'[q] = pc[q] /\ todo'[q] = todo[q]
      /\ pc'[p] \notin Busy
  <2>1. CASE NextSource(p)
    BY <1>1, <2>1, NextSourceMoves DEF Busy
  <2>2. CASE UNCHANGED todo /\ (Goto(p, "new") \/ Goto(p, "failed"))
    <3>1. PICK step \in {"new", "failed"} : Goto(p, step)
      BY <2>2
    <3>2. pc'[p] = step /\ \A q \in Procs \ {p} : pc'[q] = pc[q]
      BY <3>1 DEF Goto, SourceInv, TypeOK
    <3> QED
      BY <2>2, <3>2 DEF DlSteps, Busy
  <2> QED
    BY <2>1, <2>2
<1>4. /\ src' \in [Dirs -> [Urls -> Inodes \cup {NoInode}]]
      /\ \A c \in Dirs \ {d} : src'[c] = src[c]
      /\ \A v \in Urls \ {u}, c \in Dirs : src'[c][v] = src[c][v]
      /\ \A c \in Dirs : src'[c][u] \in {src[c][u], i}
  <2>1. src \in [Dirs -> [Urls -> Inodes \cup {NoInode}]] /\ i \in Inodes \cup {NoInode}
    BY <1>2 DEF SourceInv, TypeOK, DlTypeOK
  <2>2. j \in Inodes \cup {NoInode}
    BY <1>2, <2>1
  <2>3. CASE UNCHANGED src
    BY <2>1, <2>3
  <2>4. CASE src' = [src EXCEPT ![d][u] = IF j = NoInode THEN i ELSE j]
    <3> DEFINE k == IF j = NoInode THEN i ELSE j
    <3>1. k \in Inodes \cup {NoInode} /\ k \in {src[d][u], i}
      BY <2>1, <2>2
    <3> HIDE DEF k, i, Link, u, d
    <3>2. src' = [src EXCEPT ![d][u] = k]
      BY <2>4 DEF k
    <3>3. d \in Dirs /\ u \in Urls
      BY <1>2 DEF d
    <3> QED
      BY <2>1, <3>1, <3>2, <3>3
  <2> QED
    BY <2>3, <2>4
<1>5. /\ data' \in [Inodes -> DataValues]
      /\ \A v \in Urls \ {u}, k \in Inodes : Leads(v, k) /\ k \in Used' => data'[k] = data[k]
  <2>1. CASE UNCHANGED data
    BY <2>1 DEF SourceInv, TypeOK, DlTypeOK, DataValues
  <2>2. CASE Holding(LinkOrCopy(i, j)) /\ i # NoInode
    <3>1. CASE j = NoInode
      BY <2>2, <3>1, HoldingData DEF LinkOrCopy
    <3>2. CASE j # NoInode
      <4> DEFINE x == IF j = i THEN "empty" ELSE data[i]
      <4>1. i \in Inodes /\ j \in Inodes /\ Leads(u, j)
        BY <1>2, <2>2, <3>2 DEF SourceInv, TypeOK, DlTypeOK, Leads
      <4>2. x \in DataValues
        BY <4>1 DEF SourceInv, TypeOK, DlTypeOK, DataValues
      <4>3. Holding([data EXCEPT ![j] = x])
        BY <2>2, <3>2 DEF LinkOrCopy
      <4> HIDE DEF x, i, j
      <4> QED
        BY <1>1, <4>1, <4>2, <4>3, OwnInode
    <3> QED
      BY <3>1, <3>2
  <2> QED
    BY <2>1, <2>2
<1>6. UNCHANGED <<kind, upstream, dir, cache, hand, disturbed>>
  OBVIOUS
<1>7. /\ cache' \in [Urls -> Entry] /\ hand' \in [Procs -> Inodes \cup {NoInode}]
      /\ disturbed' \subseteq Urls \cup Dirs
  BY <1>6 DEF SourceInv, TypeOK, DlTypeOK, Entry
<1>8. \A c \in Dirs : Known(u, src'[c][u])
  BY <1>1, <1>4, KnownNames
<1>9. Known(u, cache'[u].ino) /\ Known(u, hand'[p])
  BY <1>1, <1>6, KnownNames
<1> HIDE DEF Link, u, d, i, j
<1> QED
  BY <1>1, <1>2, <1>3, <1>4, <1>5, <1>6, <1>7, <1>8, <1>9 DEF Frame, u, d

\* Each step of a download keeps to the source it is at.
LEMMA DownloadFrame ==
    ASSUME SourceInv, NEW p \in Procs, dir[p] \in Dirs, DlStep(p)
    PROVE  Frame(p, Url(p))
BY GetFrame, UpdateGitFrame, ReadManifestFrame, NewFrame, CreateFrame, FillFrame,
   CheckOnDiskFrame, UnpackFrame, RecordFrame, LinkFrame DEF DlStep

-----------------------------------------------------------------------------
(* A step of a download and the sources *)

\* What led to an inode before, or an inode nobody had.
LEMMA LeadsBack ==
    ASSUME SourceInv, NEW p \in Procs, pc[p] \in DlSteps, Frame(p, Url(p)),
           NEW v \in Urls, NEW i \in Inodes, Leads(v, i)'
    PROVE  Leads(v, i) \/ (v = Url(p) /\ i \notin Used)
<1> DEFINE u == Url(p)
<1>1. u \in Urls
  BY AtUrl
<1>2. CASE cache'[v].ino = i
  BY <1>1, <1>2 DEF Frame, Known, Leads
<1>3. CASE \E d \in Dirs : src'[d][v] = i
  BY <1>1, <1>3 DEF Frame, Known, Leads
<1>4. CASE \E q \in Procs : hand'[q] = i /\ Head(todo'[q]) = v
  <2>1. PICK q \in Procs : hand'[q] = i /\ Head(todo'[q]) = v
    BY <1>4
  <2>2. CASE q # p
    BY <2>1, <2>2 DEF Frame, Leads, Url
  <2>3. CASE q = p
    <3>1. todo' = todo /\ v = u /\ hand'[p] = i
      BY <2>1, <2>3, NoInodeIsNone DEF Frame, Url
    <3> QED
      BY <3>1 DEF Frame, Known
  <2> QED
    BY <2>2, <2>3
<1> QED
  BY <1>2, <1>3, <1>4 DEF Leads, Url

\* A step of a download keeps the order of the sources.
LEMMA DownloadSource ==
    ASSUME SourceInv, WholeInv, BuildTypeOK', NEW p \in Procs, Download(p)
    PROVE  SourceInv' /\ Frame(p, Url(p)) /\ pc[p] \in DlSteps /\ dir[p] \in Dirs
<1> DEFINE u == Url(p)
<1>1. pc[p] \in DlSteps
  BY DownloadSteps DEF Download
<1>2. dir[p] \in Dirs
  BY <1>1 DEF WholeInv, OwnPackages, Idle, DlSteps
<1>3. Frame(p, u)
  BY <1>2, DownloadFrame DEF Download
<1>4. u \in Urls /\ todo[p] # <<>>
  BY <1>1, AtUrl
<1>5. todo' \in [Procs -> Seq(Urls)]
  BY <1>1, <1>3, NextSourceMoves DEF Frame, SourceInv, TypeOK, DlTypeOK
<1>6. TypeOK'
  <2>1. DlTypeOK'
    <3>1. kind' \in Kinds /\ upstream' \in [Urls -> Contents] /\ dir' \in [Procs -> Dirs \cup {NoDir}]
      BY <1>3 DEF Frame, SourceInv, TypeOK, DlTypeOK
    <3> QED
      BY <1>3, <1>5, <3>1 DEF Frame, DlTypeOK, Entry, DataValues
  <2>2. torn' \subseteq Names /\ builds' \in 0..MaxBuilds
    BY DEF Download, buildVars, SourceInv, TypeOK
  <2> QED
    BY <2>1, <2>2 DEF TypeOK, BuildTypeOK
<1>7. ASSUME NEW q \in Procs, q # p
      PROVE  AtSource(q)' /\ OpenHand(q)'
  <2>1. pc'[q] = pc[q] /\ todo'[q] = todo[q] /\ hand'[q] = hand[q] /\ dir' = dir
    BY <1>3, <1>7 DEF Frame
  <2> QED
    BY <2>1 DEF SourceInv, AtSource, OpenHand, Repeated
<1>8. AtSource(p)'
  <2>1. CASE todo' = todo /\ pc'[p] \in (DlSteps \ {"get"}) \cup {"failed"}
    <3>1. dir' = dir /\ pc'[p] # "fetched"
      BY <1>3, <2>1 DEF Frame, DlSteps
    <3> QED
      BY <1>1, <2>1, <3>1 DEF SourceInv, AtSource, Repeated
  <2>2. CASE NextSource(p)
    <3>1. dir' = dir /\ Range(todo[p]) \subseteq Range(Sources[dir[p]])
      BY <1>1, <1>3 DEF Frame, SourceInv, AtSource
    <3>2. pc'[p] \in DlSteps => todo'[p] # <<>>
      BY <1>1, <2>2, NextSourceMoves DEF DlSteps
    <3>3. /\ Range(todo'[p]) \subseteq Range(Sources[dir[p]])
          /\ pc'[p] = "fetched" => todo'[p] = <<>>
          /\ \A i, j \in DOMAIN todo'[p] :
                i # j /\ todo'[p][i] = todo'[p][j] => Repeated(dir[p], todo'[p][i])
      BY <1>1, <2>2, <3>1, NextSourceMoves
    <3> QED
      BY <3>1, <3>2, <3>3 DEF AtSource, Repeated
  <2> QED
    BY <1>3, <2>1, <2>2 DEF Frame
<1>9. OpenHand(p)'
  BY <1>3, <1>4 DEF Frame, OpenHand
<1>10. OneUrl'
  <2> SUFFICES ASSUME NEW v \in Urls, NEW w \in Urls, NEW i \in Inodes, Leads(v, i)', Leads(w, i)'
               PROVE  v = w
    BY DEF OneUrl, Inodes
  <2>1. \A x \in Urls : Leads(x, i) => i \in Used
    BY DEF Leads, Used
  <2>2. /\ Leads(v, i) \/ (v = u /\ i \notin Used)
        /\ Leads(w, i) \/ (w = u /\ i \notin Used)
    BY <1>1, <1>3, LeadsBack
  <2> QED
    BY <2>1, <2>2 DEF SourceInv, OneUrl
<1>11. OneFetcher'
  <2> SUFFICES ASSUME NEW q \in Procs, q # p, NEW v \in Urls, Fetching(p, v)', Fetching(q, v)'
               PROVE  v \in disturbed'
    <3>1. ASSUME NEW q \in Procs, NEW r \in Procs, NEW v \in Urls, q # r, q # p, r # p,
                 Fetching(q, v)', Fetching(r, v)'
          PROVE  v \in disturbed'
      BY <1>3, <3>1 DEF Frame, SourceInv, OneFetcher, Fetching, Url
    <3> QED
      BY <3>1 DEF OneFetcher
  <2>1. todo' = todo /\ v = u
    <3>1. pc'[p] \in DlSteps \ {"get"}
      BY DEF Fetching
    <3>2. pc'[p] \notin {"get", "fetched"}
      BY <3>1 DEF DlSteps
    <3> QED
      BY <1>1, <1>3, <3>2, NextSourceMoves DEF Frame, Fetching, Url
  <2>2. Fetching(q, u)
    BY <1>3, <2>1 DEF Frame, Fetching, Url
  <2>3. CASE pc[p] = "get"
    BY <1>3, <2>1, <2>2, <2>3 DEF Frame
  <2>4. CASE pc[p] # "get"
    <3>1. Fetching(p, u)
      BY <1>1, <2>4 DEF Fetching
    <3> QED
      BY <1>3, <1>4, <2>1, <2>2, <3>1 DEF Frame, SourceInv, OneFetcher
  <2> QED
    BY <2>3, <2>4
<1> QED
  BY <1>1, <1>2, <1>3, <1>6, <1>7, <1>8, <1>9, <1>10, <1>11 DEF SourceInv

\* What is out of order stays so.
LEMMA SteadyBefore ==
    ASSUME disturbed \subseteq disturbed', UNCHANGED kind, NEW u, Steady(u)'
    PROVE  Steady(u)
BY DEF Steady, Spoilt, Repeated

\* The sources a step is not about.
LEMMA OtherUrls ==
    ASSUME CacheInv, WholeInv, NEW p \in Procs, pc[p] \in DlSteps, Frame(p, Url(p)),
           NEW v \in Urls \ {Url(p)}
    PROVE  UrlInv(v)'
<1> SUFFICES ASSUME Steady(v)'
             PROVE  Verified(v)' /\ \A q \in Procs : FetchState(q, v)' /\ Fresh(q, v)' /\ Linked(q, v)'
  BY DEF UrlInv
<1>1. SourceInv /\ UrlInv(v)
  BY DEF CacheInv
<1>2. Steady(v)
  BY SteadyBefore DEF Frame
<1>3. /\ cache'[v] = cache[v] /\ \A d \in Dirs : src'[d][v] = src[d][v]
      /\ kind' = kind /\ upstream' = upstream /\ dir' = dir
      /\ \A q \in Procs \ {p} : pc'[q] = pc[q] /\ todo'[q] = todo[q] /\ hand'[q] = hand[q]
  BY DEF Frame
<1>4. cache[v].ino # NoInode => data'[cache[v].ino] = data[cache[v].ino]
  <2>1. cache[v].ino # NoInode => cache[v].ino \in Inodes /\ Leads(v, cache[v].ino)
    BY <1>1 DEF SourceInv, TypeOK, DlTypeOK, Leads
  <2>2. cache[v].ino \in Used'
    BY <1>3 DEF Used
  <2> QED
    BY <2>1, <2>2 DEF Frame
<1>5. \A d \in Dirs : src[d][v] # NoInode => data'[src[d][v]] = data[src[d][v]]
  <2> SUFFICES ASSUME NEW d \in Dirs, src[d][v] # NoInode
               PROVE  data'[src[d][v]] = data[src[d][v]]
    OBVIOUS
  <2>1. src[d][v] \in Inodes /\ Leads(v, src[d][v])
    BY <1>1 DEF SourceInv, TypeOK, DlTypeOK, Leads
  <2>2. src[d][v] \in Used'
    BY <1>3 DEF Used
  <2> QED
    BY <2>1, <2>2 DEF Frame
<1>6. Verified(v)'
  BY <1>1, <1>2, <1>3, <1>4 DEF UrlInv, Verified, AsCommitted, Matches
<1>7. ASSUME NEW q \in Procs, q # p
      PROVE  FetchState(q, v)' /\ Fresh(q, v)' /\ Linked(q, v)'
  <2>1. pc'[q] = pc[q] /\ todo'[q] = todo[q] /\ hand'[q] = hand[q] /\ dir'[q] = dir[q]
    BY <1>3, <1>7
  <2>2. Fetching(q, v)' = Fetching(q, v)
    BY <2>1 DEF Fetching, Url
  <2>3. Fetching(q, v) /\ pc[q] \in Busy => data'[hand[q]] = data[hand[q]]
    <3> SUFFICES ASSUME Fetching(q, v), pc[q] \in Busy PROVE data'[hand[q]] = data[hand[q]]
      OBVIOUS
    <3>1. hand[q] \in Inodes /\ Leads(v, hand[q])
      BY <1>1 DEF SourceInv, TypeOK, DlTypeOK, OpenHand, Leads, Fetching
    <3>2. hand[q] \in Used'
      BY <2>1 DEF Used
    <3> QED
      BY <3>1, <3>2 DEF Frame
  <2>4. FetchState(q, v)'
    <3>1. FetchState(q, v)
      BY <1>1, <1>2 DEF UrlInv
    <3>2. CASE ~Fetching(q, v)
      BY <2>2, <3>2 DEF FetchState
    <3>3. CASE Fetching(q, v) /\ pc[q] \in Busy
      BY <1>3, <2>1, <2>3, <3>1, <3>3 DEF FetchState, AsCommitted, Matches, Busy, IsGit
    <3>4. CASE Fetching(q, v) /\ pc[q] \notin Busy
      BY <1>3, <1>4, <2>1, <3>1, <3>4 DEF FetchState, Busy, IsGit, AsCommitted, Matches
    <3> QED
      BY <3>2, <3>3, <3>4
  <2>5. pc[q] \in DlSteps \cup {"fetched"} => dir[q] \in Dirs
    BY DEF WholeInv, OwnPackages, Idle, DlSteps
  <2>6. Fresh(q, v)'
    BY <1>1, <1>2, <1>3, <2>1, <2>5 DEF UrlInv, Fresh
  <2>7. Linked(q, v)'
    BY <1>1, <1>2, <1>3, <1>5, <2>1, <2>5 DEF UrlInv, Linked, AsCommitted, Matches, Disputed
  <2> QED
    BY <2>4, <2>6, <2>7
<1>8. FetchState(p, v)' /\ Fresh(p, v)' /\ Linked(p, v)'
  <2>1. dir'[p] = dir[p] /\ dir[p] \in Dirs
    BY <1>3 DEF WholeInv, OwnPackages, Idle, DlSteps
  <2>2. /\ Range(todo'[p]) \subseteq Range(todo[p])
        /\ v \in Range(todo[p]) => v \in Range(todo'[p])
    BY <1>1, NextSourceMoves DEF Frame
  <2>3. ~Fetching(p, v)'
    <3>1. NextSource(p) => pc'[p] \in {"get", "fetched"}
      BY <1>1, NextSourceMoves
    <3>2. pc'[p] \in DlSteps \ {"get"} => todo' = todo
      BY <3>1 DEF Frame, DlSteps
    <3> QED
      BY <3>2 DEF Fetching, Url
  <2>4. FetchState(p, v)'
    BY <2>3 DEF FetchState
  <2>5. Fresh(p, v)'
    BY <1>1, <1>2, <1>3, <2>1, <2>2 DEF UrlInv, Fresh
  <2>6. Linked(p, v)'
    BY <1>1, <1>2, <1>3, <1>5, <2>1, <2>2 DEF UrlInv, Linked, AsCommitted, Matches, Disputed
  <2> QED
    BY <2>4, <2>5, <2>6
<1> QED
  BY <1>6, <1>7, <1>8

\* The links to a source keep what it holds, or get the revision it is at.
LinksKeep(u) ==
    \A d \in Dirs : src[d][u] # NoInode =>
        \/ data'[src[d][u]] = data[src[d][u]]
        \/ kind[u] = "gitrev" /\ data'[src[d][u]] = upstream[u]

\* Two builds of a script spoil its sources.
LEMMA OwnDirectory ==
    ASSUME WholeInv, NEW p \in Procs, NEW q \in Procs, p # q, ~Idle(p), ~Idle(q),
           NEW u, u \in Range(Sources[dir[p]]), ~Spoilt(u)
    PROVE  dir[p] \in Dirs /\ dir[q] \in Dirs /\ dir[q] # dir[p]
<1>1. dir[p] \in Dirs /\ dir[q] \in Dirs
  BY DEF WholeInv, OwnPackages
<1>2. dir[q] = dir[p] => dir[p] \in disturbed
  BY DEF WholeInv, Apart, In
<1> QED
  BY <1>1, <1>2 DEF Spoilt

\* The source a step is about: what the other processes know of it stays, if
\* the links to it do.
LEMMA ThisUrl ==
    ASSUME CacheInv, WholeInv, NEW p \in Procs, pc[p] \in DlSteps,
           NEW u, u = Url(p), Frame(p, u),
           Steady(u)' => /\ LinksKeep(u) /\ Verified(u)'
                        /\ FetchState(p, u)' /\ Fresh(p, u)' /\ Linked(p, u)'
    PROVE  \A v \in Urls : UrlInv(v)'
<1>1. SourceInv /\ u \in Urls /\ u \in Range(Sources[dir[p]]) /\ UrlInv(u)
  BY AtUrl DEF CacheInv
<1>2. SUFFICES ASSUME Steady(u)', NEW q \in Procs, q # p
               PROVE  FetchState(q, u)' /\ Fresh(q, u)' /\ Linked(q, u)'
  <2>1. ASSUME Steady(u)', NEW q \in Procs
        PROVE  FetchState(q, u)' /\ Fresh(q, u)' /\ Linked(q, u)'
    BY <1>2, <2>1
  <2>2. UrlInv(u)'
    BY <2>1 DEF UrlInv
  <2> QED
    BY <1>1, <2>2, OtherUrls
<1>3. Steady(u) /\ ~Spoilt(u) /\ u \notin disturbed'
  <2>1. Steady(u)
    BY <1>2, SteadyBefore DEF Frame
  <2>2. u \notin disturbed'
    BY <1>2 DEF Steady, Spoilt
  <2> QED
    BY <2>1, <2>2 DEF Steady
<1>4. /\ pc'[q] = pc[q] /\ todo'[q] = todo[q] /\ hand'[q] = hand[q]
      /\ dir' = dir /\ kind' = kind /\ upstream' = upstream /\ disturbed \subseteq disturbed'
  BY <1>2 DEF Frame
<1>5. FetchState(q, u)'
  <2>1. Fetching(q, u)' = Fetching(q, u)
    BY <1>4 DEF Fetching, Url
  <2>2. CASE pc[p] = "get"
    BY <1>2, <1>3, <2>1, <2>2 DEF Frame, FetchState
  <2>3. CASE pc[p] # "get"
    <3>1. Fetching(p, u)
      BY <2>3 DEF Fetching
    <3>2. ~Fetching(q, u)
      BY <1>1, <1>2, <1>3, <1>4, <3>1 DEF SourceInv, OneFetcher
    <3> QED
      BY <2>1, <3>2 DEF FetchState
  <2> QED
    BY <2>2, <2>3
<1>6. pc[q] \in DlSteps \cup {"fetched"} => dir[q] \in Dirs /\ src'[dir[q]] = src[dir[q]]
  <2> SUFFICES ASSUME pc[q] \in DlSteps \cup {"fetched"}
               PROVE  dir[q] \in Dirs /\ src'[dir[q]] = src[dir[q]]
    OBVIOUS
  <2>1. ~Idle(p) /\ ~Idle(q)
    BY DEF Idle, DlSteps
  <2>2. dir[q] \in Dirs /\ dir[q] # dir[p]
    BY <1>1, <1>2, <1>3, <2>1, OwnDirectory
  <2> QED
    BY <2>2 DEF Frame
<1>7. Fresh(q, u)'
  BY <1>1, <1>3, <1>4, <1>6 DEF UrlInv, Fresh
<1>8. Linked(q, u)'
  <2> SUFFICES ASSUME pc[q] \in DlSteps \cup {"fetched"}, ~Disputed(u),
                      u \in Range(Sources[dir[q]]) \ Range(todo[q])
               PROVE  /\ src[dir[q]][u] # NoInode
                      /\ Matches(dir[q], u, data'[src[dir[q]][u]])
                      /\ kind[u] = "gitrev" => data'[src[dir[q]][u]] = upstream[u]
    BY <1>4, <1>6 DEF Linked, Disputed, AsCommitted, Matches
  <2>1. /\ src[dir[q]][u] # NoInode
        /\ Matches(dir[q], u, data[src[dir[q]][u]])
        /\ kind[u] = "gitrev" => data[src[dir[q]][u]] = upstream[u]
    BY <1>1, <1>3 DEF UrlInv, Linked, AsCommitted
  <2> QED
    BY <1>2, <1>6, <2>1 DEF LinksKeep
<1> QED
  BY <1>5, <1>7, <1>8

-----------------------------------------------------------------------------
(* A step of a download and the source it is at *)

\* A process in a download of a source that is in order.
InOrder(p, u) ==
    /\ CacheInv /\ WholeInv
    /\ pc[p] \in DlSteps /\ u = Url(p) /\ Frame(p, u)

\* What is known of it.
LEMMA InOrderFacts ==
    ASSUME NEW p \in Procs, NEW u, InOrder(p, u), Steady(u)'
    PROVE  /\ Steady(u) /\ u \in Urls /\ dir[p] \in Dirs
           /\ UNCHANGED <<kind, upstream, dir>> /\ disturbed \subseteq disturbed'
           /\ u \in Range(Sources[dir[p]]) /\ u \in Range(todo[p])
           /\ Verified(u) /\ FetchState(p, u)
           /\ src[dir[p]][u] = NoInode
           /\ pc[p] # "get" => Fetching(p, u)
           /\ cache[u] \in Entry
           /\ \A d \in Dirs : src[d][u] \in Inodes \cup {NoInode}
<1> USE DEF InOrder
<1>1. Steady(u) /\ UNCHANGED <<kind, upstream, dir>> /\ disturbed \subseteq disturbed'
  BY SteadyBefore DEF Frame
<1>2. /\ u \in Urls /\ u \in Range(Sources[dir[p]]) /\ u \in Range(todo[p])
      /\ SourceInv /\ UrlInv(u)
  BY AtUrl DEF CacheInv
<1>3. dir[p] \in Dirs
  BY DEF WholeInv, OwnPackages, Idle, DlSteps
<1>4. Verified(u) /\ FetchState(p, u) /\ src[dir[p]][u] = NoInode
  BY <1>1, <1>2 DEF UrlInv, Fresh
<1>5. pc[p] # "get" => Fetching(p, u)
  BY DEF Fetching
<1>6. cache[u] \in Entry /\ \A d \in Dirs : src[d][u] \in Inodes \cup {NoInode}
  BY <1>2 DEF SourceInv, TypeOK, DlTypeOK, Entry
<1> QED
  BY <1>1, <1>2, <1>3, <1>4, <1>5, <1>6

\* A step that links nothing and stays at its source.
LEMMA Standing ==
    ASSUME NEW p \in Procs, NEW u, InOrder(p, u), UNCHANGED <<src, todo>>,
           Steady(u)' => LinksKeep(u) /\ Verified(u)' /\ FetchState(p, u)'
    PROVE  \A v \in Urls : UrlInv(v)'
<1>1. ASSUME Steady(u)'
      PROVE  Fresh(p, u)' /\ Linked(p, u)'
  <2>1. /\ src[dir[p]][u] = NoInode /\ u \in Range(todo[p]) /\ dir' = dir
    BY <1>1, InOrderFacts
  <2> QED
    BY <2>1 DEF Fresh, Linked
<1> QED
  BY <1>1, ThisUrl DEF InOrder

\* Links keep their data if no step writes to it.
LEMMA NothingWritten ==
    ASSUME SourceInv, NEW u \in Urls, UNCHANGED src, UNCHANGED data \/ Holding(data)
    PROVE  LinksKeep(u)
<1>1. \A d \in Dirs : src[d][u] # NoInode => src[d][u] \in Inodes /\ src[d][u] \in Used'
  BY DEF SourceInv, TypeOK, DlTypeOK, Used
<1> QED
  BY <1>1, HoldingData DEF LinksKeep

\* Nothing is written.
LEMMA GetKeeps ==
    ASSUME NEW p \in Procs, NEW u, InOrder(p, u), Get(p)
    PROVE  \A v \in Urls : UrlInv(v)'
<1> USE DEF Get, At, downloadGivens, fileVars
<1>1. ASSUME Steady(u)' PROVE LinksKeep(u) /\ Verified(u)' /\ FetchState(p, u)'
  <2>1. Verified(u) /\ UNCHANGED <<kind, upstream>> /\ u \in Urls
    BY <1>1, InOrderFacts
  <2>2. LinksKeep(u)
    BY <2>1, NothingWritten DEF InOrder, CacheInv
  <2>3. Verified(u)'
    BY <2>1 DEF Verified, AsCommitted, Matches
  <2>4. /\ pc'[p] \in {"new", "update", "manifest"}
        /\ pc'[p] = "update" => IsGit(u)
    BY DEF Goto, InOrder, CacheInv, SourceInv, TypeOK
  <2>5. FetchState(p, u)'
    BY <2>1, <2>4 DEF FetchState, Busy, IsGit
  <2> QED
    BY <2>2, <2>3, <2>5
<1> QED
  BY <1>1, Standing

\* What is linked from the cache has a manifest.
LEMMA ReadManifestKeeps ==
    ASSUME NEW p \in Procs, NEW u, InOrder(p, u), ReadManifest(p)
    PROVE  \A v \in Urls : UrlInv(v)'
<1> USE DEF ReadManifest, At, downloadGivens
<1>1. ASSUME Steady(u)' PROVE LinksKeep(u) /\ Verified(u)' /\ FetchState(p, u)'
  <2>1. Verified(u) /\ UNCHANGED <<kind, upstream>> /\ u \in Urls /\ SourceInv /\ u = Url(p)
    BY <1>1, InOrderFacts DEF InOrder, CacheInv
  <2>2. LinksKeep(u)
    BY <2>1, NothingWritten
  <2>3. CASE cache[u].manifest
    <3>1. UNCHANGED cache /\ pc'[p] = "linkCached"
      BY <2>1, <2>3 DEF Goto, SourceInv, TypeOK
    <3>2. cache[u].ino \in Inodes /\ cache'[u].ino \in Used'
      BY <2>1, <2>3, <3>1 DEF Verified, SourceInv, TypeOK, DlTypeOK, Used
    <3>3. data'[cache[u].ino] = data[cache[u].ino]
      BY <2>1, <3>1, <3>2, HoldingData
    <3>4. Verified(u)'
      BY <2>1, <3>1, <3>3 DEF Verified, AsCommitted, Matches
    <3>5. FetchState(p, u)'
      BY <2>3, <3>1 DEF FetchState, Busy
    <3> QED
      BY <2>2, <3>4, <3>5
  <2>4. CASE ~cache[u].manifest
    <3>1. pc'[p] = "new" /\ cache' = [cache EXCEPT ![u] = Gone]
      BY <2>1, <2>4 DEF Goto, SourceInv, TypeOK
    <3>2. ~cache'[u].manifest
      BY <2>1, <3>1 DEF SourceInv, TypeOK, DlTypeOK, Gone
    <3> QED
      BY <2>2, <3>1, <3>2 DEF Verified, FetchState, Busy
  <2> QED
    BY <2>3, <2>4
<1> QED
  BY <1>1, Standing

\* What is cleared has no manifest and no file.
LEMMA NewKeeps ==
    ASSUME NEW p \in Procs, NEW u, InOrder(p, u), New(p)
    PROVE  \A v \in Urls : UrlInv(v)'
<1> USE DEF New, At, downloadGivens
<1>1. ASSUME Steady(u)' PROVE LinksKeep(u) /\ Verified(u)' /\ FetchState(p, u)'
  <2>1. u \in Urls /\ SourceInv /\ u = Url(p)
    BY <1>1, InOrderFacts DEF InOrder, CacheInv
  <2>2. LinksKeep(u)
    BY <2>1, NothingWritten
  <2>3. pc'[p] = "create"
    BY <2>1 DEF Goto, SourceInv, TypeOK
  <2>4. ~cache'[u].manifest /\ cache'[u].ino = NoInode
    BY <2>1 DEF SourceInv, TypeOK, DlTypeOK, Gone
  <2> QED
    BY <2>2, <2>3, <2>4 DEF Verified, FetchState, Busy
<1> QED
  BY <1>1, Standing

\* A checkout of a revision gets what it has, and the manifest waits.
LEMMA UpdateGitKeeps ==
    ASSUME NEW p \in Procs, NEW u, InOrder(p, u), UpdateGit(p)
    PROVE  \A v \in Urls : UrlInv(v)'
<1> USE DEF UpdateGit, At, downloadGivens
<1> DEFINE i == cache[u].ino
<1>1. ASSUME Steady(u)' PROVE LinksKeep(u) /\ Verified(u)' /\ FetchState(p, u)'
  <2>1. /\ u \in Urls /\ SourceInv /\ u = Url(p) /\ pc[p] \in DlSteps
        /\ Steady(u) /\ Verified(u) /\ FetchState(p, u) /\ Fetching(p, u)
        /\ UNCHANGED <<kind, upstream, dir>>
        /\ cache[u] \in Entry /\ \A d \in Dirs : src[d][u] \in Inodes \cup {NoInode}
    BY <1>1, InOrderFacts DEF InOrder, CacheInv
  <2>2. kind[u] = "gitrev" /\ CheckedOut(u, i) = {upstream[u]}
    BY <2>1 DEF FetchState, IsGit, Steady, CheckedOut
  <2>3. CASE Goto(p, "failed") /\ UNCHANGED <<cache, data>>
    <3>1. pc'[p] = "failed"
      BY <2>1, <2>3 DEF Goto, SourceInv, TypeOK
    <3>2. LinksKeep(u)
      BY <2>1, <2>3, NothingWritten
    <3>3. Verified(u)'
      BY <2>1, <2>3 DEF Verified, AsCommitted, Matches
    <3> QED
      BY <3>1, <3>2, <3>3 DEF FetchState, Busy
  <2>4. ASSUME i # NoInode,
               IF Matches(dir[p], u, upstream[u])
               THEN /\ Goto(p, IF cache[u].manifest THEN "rewrite" ELSE "manifest")
                    /\ cache' = [cache EXCEPT ![u].manifest = FALSE]
               ELSE Goto(p, "failed") /\ UNCHANGED cache,
               Holding([data EXCEPT ![i] = upstream[u]])
        PROVE  LinksKeep(u) /\ Verified(u)' /\ FetchState(p, u)'
    <3>1. upstream[u] \in DataValues /\ i \in Inodes /\ Leads(u, i)
      BY <2>1, <2>4 DEF SourceInv, TypeOK, DlTypeOK, DataValues, Entry, Leads
    <3>2. \A j \in Inodes : j \in Used' => data'[j] = IF j = i THEN upstream[u] ELSE data[j]
      BY <2>1, <2>4, <3>1, WrittenInode
    <3>3. cache'[u].ino = i
      BY <2>1, <2>4 DEF SourceInv, TypeOK, DlTypeOK
    <3>4. i \in Used' /\ \A d \in Dirs : src[d][u] \in Used'
      BY <2>1, <3>3 DEF Used
    <3>5. data'[i] = upstream[u]
      BY <3>1, <3>2, <3>4
    <3>6. LinksKeep(u)
      BY <2>1, <2>2, <3>2, <3>4 DEF LinksKeep
    <3>7. CASE Matches(dir[p], u, upstream[u])
      <4>1. pc'[p] \in {"rewrite", "manifest"} /\ ~cache'[u].manifest
        BY <2>1, <2>4, <3>7 DEF Goto, SourceInv, TypeOK, DlTypeOK
      <4>2. Matches(dir'[p], u, data'[cache'[u].ino]) /\ upstream' = upstream
        BY <2>1, <3>3, <3>5, <3>7
      <4> QED
        BY <2>4, <3>3, <3>5, <3>6, <4>1, <4>2 DEF Verified, FetchState, Busy, AsCommitted, Matches
    <3>8. CASE ~Matches(dir[p], u, upstream[u])
      <4>1. pc'[p] = "failed" /\ UNCHANGED cache
        BY <2>1, <2>4, <3>8 DEF Goto, SourceInv, TypeOK
      <4>2. Verified(u)'
        BY <2>1, <2>2, <3>1, <3>3, <3>5, <4>1 DEF Verified, AsCommitted, Matches
      <4> QED
        BY <3>6, <4>1, <4>2 DEF FetchState, Busy
    <3> QED
      BY <3>7, <3>8
  <2> QED
    BY <2>1, <2>2, <2>3, <2>4
<1> QED
  BY <1>1, Standing

\* No link leads to the new file.
LEMMA CreateKeeps ==
    ASSUME NEW p \in Procs, NEW u, InOrder(p, u), Create(p)
    PROVE  \A v \in Urls : UrlInv(v)'
<1> USE DEF Create, At, downloadGivens
<1>1. ASSUME Steady(u)' PROVE LinksKeep(u) /\ Verified(u)' /\ FetchState(p, u)'
  <2>1. /\ u \in Urls /\ SourceInv /\ u = Url(p) /\ pc[p] \in DlSteps
        /\ Verified(u) /\ FetchState(p, u) /\ Fetching(p, u)
        /\ UNCHANGED <<kind, upstream>>
        /\ cache[u] \in Entry /\ \A d \in Dirs : src[d][u] \in Inodes \cup {NoInode}
    BY <1>1, InOrderFacts DEF InOrder, CacheInv
  <2>2. ~cache[u].manifest /\ cache[u].ino = NoInode
    BY <2>1 DEF FetchState
  <2>3. CASE Goto(p, "failed") /\ UNCHANGED <<cache, data, hand>>
    <3>1. pc'[p] = "failed"
      BY <2>1, <2>3 DEF Goto, SourceInv, TypeOK
    <3>2. LinksKeep(u)
      BY <2>1, <2>3, NothingWritten
    <3> QED
      BY <2>2, <2>3, <3>1, <3>2 DEF FetchState, Verified, Busy, DlSteps
  <2>4. CASE /\ Goto(p, "fill")
             /\ cache' = [cache EXCEPT ![u].dir = TRUE, ![u].ino = NewInode]
             /\ hand' = [hand EXCEPT ![p] = NewInode]
             /\ Holding([data EXCEPT ![NewInode] = "empty"])
    <3>1. NewInode \in Inodes /\ NewInode \notin Used
      BY <2>1, <2>2, NewInodeIsFree DEF SourceInv, TypeOK
    <3>2. \A d \in Dirs : src[d][u] # NewInode
      BY <2>1, <3>1 DEF Used
    <3>3. pc'[p] = "fill" /\ hand'[p] = NewInode
      BY <2>1, <2>4 DEF Goto, SourceInv, TypeOK, DlTypeOK
    <3>4. ~cache'[u].manifest /\ cache'[u].ino = NewInode
      BY <2>1, <2>2, <2>4 DEF SourceInv, TypeOK, DlTypeOK
    <3>5. FetchState(p, u)'
      BY <3>2, <3>3, <3>4 DEF FetchState, Busy
    <3>6. [data EXCEPT ![NewInode] = "empty"] \in [Inodes -> DataValues]
      BY <2>1, <3>1 DEF SourceInv, TypeOK, DlTypeOK, DataValues
    <3>7. \A j \in Inodes : j \in Used' => data'[j] = [data EXCEPT ![NewInode] = "empty"][j]
      BY <2>4, <3>6, HoldingKeeps DEF DataValues
    <3>8. \A d \in Dirs : src[d][u] # NoInode => src[d][u] \in Inodes /\ src[d][u] \in Used'
      BY <2>1 DEF Used
    <3>9. LinksKeep(u)
      BY <2>1, <3>1, <3>2, <3>7, <3>8 DEF LinksKeep, SourceInv, TypeOK, DlTypeOK
    <3> QED
      BY <3>4, <3>5, <3>9 DEF Verified
  <2> QED
    BY <2>1, <2>2, <2>3, <2>4
<1> QED
  BY <1>1, Standing

\* What is received is verified before it is unpacked or recorded.
LEMMA FillKeeps ==
    ASSUME NEW p \in Procs, NEW u, InOrder(p, u), Fill(p)
    PROVE  \A v \in Urls : UrlInv(v)'
<1> USE DEF Fill, At, downloadGivens
<1>1. ASSUME Steady(u)' PROVE LinksKeep(u) /\ Verified(u)' /\ FetchState(p, u)'
  <2>1. /\ u \in Urls /\ SourceInv /\ u = Url(p) /\ pc[p] \in DlSteps
        /\ Verified(u) /\ FetchState(p, u) /\ Fetching(p, u)
        /\ UNCHANGED <<kind, upstream, dir>>
        /\ cache[u] \in Entry /\ \A d \in Dirs : src[d][u] \in Inodes \cup {NoInode}
    BY <1>1, InOrderFacts DEF InOrder, CacheInv
  <2>2. /\ ~cache[u].manifest /\ cache[u].ino = hand[p]
        /\ \A d \in Dirs : src[d][u] # hand[p]
    BY <2>1 DEF FetchState, Busy
  <2>3. /\ hand[p] \in Inodes /\ Leads(u, hand[p])
        /\ upstream[u] \in DataValues /\ "partial" \in DataValues
    BY <2>1 DEF SourceInv, OpenHand, Busy, TypeOK, DlTypeOK, Leads, DataValues
  <2>4. ASSUME NEW x \in DataValues, Holding([data EXCEPT ![hand[p]] = x])
        PROVE  \A j \in Inodes : j \in Used' => data'[j] = IF j = hand[p] THEN x ELSE data[j]
    BY <2>1, <2>3, <2>4, WrittenInode
  <2>5. LinksKeep(u)
    <3>1. \A d \in Dirs : src[d][u] # NoInode => src[d][u] \in Inodes /\ src[d][u] \in Used'
      BY <2>1 DEF Used
    <3>2. PICK x \in DataValues : Holding([data EXCEPT ![hand[p]] = x])
      BY <2>1, <2>3
    <3>3. \A j \in Inodes : j \in Used' => data'[j] = IF j = hand[p] THEN x ELSE data[j]
      BY <2>4, <3>2
    <3> HIDE DEF Fill
    <3> QED
      BY <2>1, <2>2, <3>1, <3>3 DEF LinksKeep
  <2>6. CASE /\ Goto(p, Received(p, u, upstream[u])) /\ UNCHANGED cache
             /\ Holding([data EXCEPT ![hand[p]] = upstream[u]])
    <3>1. pc'[p] = Received(p, u, upstream[u])
      BY <2>1, <2>6 DEF Goto, SourceInv, TypeOK
    <3>2. hand[p] \in Used'
      BY <2>1 DEF Used
    <3>3. data'[hand[p]] = upstream[u]
      BY <2>3, <2>4, <2>6, <3>2
    <3>4. /\ pc'[p] \in {"check", "unpack", "record", "failed"}
          /\ pc'[p] \in {"unpack", "record"} => Matches(dir[p], u, upstream[u])
      BY <3>1 DEF Received
    <3>5. FetchState(p, u)'
      BY <2>1, <2>2, <2>6, <3>3, <3>4 DEF FetchState, Busy, AsCommitted, Matches
    <3> QED
      BY <2>2, <2>5, <2>6, <3>5 DEF Verified
  <2>7. CASE /\ Goto(p, "failed")
             /\ cache' = IF IsGit(u) THEN [cache EXCEPT ![u].ino = NoInode] ELSE cache
    <3>1. pc'[p] = "failed"
      BY <2>1, <2>7 DEF Goto, SourceInv, TypeOK
    <3>2. ~cache'[u].manifest
      BY <2>1, <2>2, <2>7 DEF SourceInv, TypeOK, DlTypeOK
    <3> QED
      BY <2>5, <3>1, <3>2 DEF Verified, FetchState, Busy
  <2> QED
    BY <2>1, <2>6, <2>7
<1> QED
  BY <1>1, Standing

\* What lies there is verified before it is recorded.
LEMMA CheckOnDiskKeeps ==
    ASSUME NEW p \in Procs, NEW u, InOrder(p, u), CheckOnDisk(p)
    PROVE  \A v \in Urls : UrlInv(v)'
<1> USE DEF CheckOnDisk, At, downloadGivens, fileVars
<1>1. ASSUME Steady(u)' PROVE LinksKeep(u) /\ Verified(u)' /\ FetchState(p, u)'
  <2>1. /\ u \in Urls /\ SourceInv /\ u = Url(p)
        /\ FetchState(p, u) /\ Fetching(p, u) /\ UNCHANGED <<kind, upstream, dir>>
    BY <1>1, InOrderFacts DEF InOrder, CacheInv
  <2>2. LinksKeep(u)
    BY <2>1, NothingWritten
  <2>3. ~cache[u].manifest /\ cache[u].ino = hand[p] /\ AsCommitted(u, hand[p])
    BY <2>1 DEF FetchState, Busy
  <2>4. /\ pc'[p] \in {"record", "failed"}
        /\ pc'[p] = "record" => Matches(dir[p], u, data[hand[p]])
    BY <2>1, <2>3 DEF Goto, SourceInv, TypeOK
  <2>5. FetchState(p, u)'
    BY <2>1, <2>3, <2>4 DEF FetchState, Busy, AsCommitted, Matches
  <2> QED
    BY <2>2, <2>3, <2>5 DEF Verified
<1> QED
  BY <1>1, Standing

\* What is verified is unpacked, or broken off.
LEMMA UnpackKeeps ==
    ASSUME NEW p \in Procs, NEW u, InOrder(p, u), Unpack(p)
    PROVE  \A v \in Urls : UrlInv(v)'
<1> USE DEF Unpack, At, downloadGivens
<1>1. ASSUME Steady(u)' PROVE LinksKeep(u) /\ Verified(u)' /\ FetchState(p, u)'
  <2>1. /\ u \in Urls /\ SourceInv /\ u = Url(p) /\ pc[p] \in DlSteps
        /\ FetchState(p, u) /\ Fetching(p, u)
        /\ UNCHANGED <<kind, upstream, dir>>
        /\ cache[u] \in Entry /\ \A d \in Dirs : src[d][u] \in Inodes \cup {NoInode}
    BY <1>1, InOrderFacts DEF InOrder, CacheInv
  <2>2. /\ ~cache[u].manifest /\ cache[u].ino = hand[p]
        /\ \A d \in Dirs : src[d][u] # hand[p]
        /\ AsCommitted(u, hand[p]) /\ Matches(dir[p], u, data[hand[p]])
    BY <2>1 DEF FetchState, Busy
  <2>3. hand[p] \in Inodes /\ "partial" \in DataValues
    BY <2>1 DEF SourceInv, OpenHand, Busy, TypeOK, DlTypeOK, DataValues
  <2>4. ~cache'[u].manifest /\ cache'[u].ino = hand[p]
    BY <2>1, <2>2, <2>3 DEF SourceInv, TypeOK, DlTypeOK
  <2>5. CASE Goto(p, IF cache[u].ino = hand[p] THEN "record" ELSE "failed") /\ UNCHANGED data
    <3>1. pc'[p] = "record"
      BY <2>1, <2>2, <2>5 DEF Goto, SourceInv, TypeOK
    <3>2. FetchState(p, u)'
      BY <2>1, <2>2, <2>4, <2>5, <3>1 DEF FetchState, Busy, AsCommitted, Matches
    <3>3. LinksKeep(u)
      BY <2>1, <2>5, NothingWritten
    <3> QED
      BY <2>4, <3>2, <3>3 DEF Verified
  <2>6. CASE Goto(p, "failed") /\ Holding([data EXCEPT ![hand[p]] = "partial"])
    <3>1. pc'[p] = "failed"
      BY <2>1, <2>6 DEF Goto, SourceInv, TypeOK
    <3>2. \A d \in Dirs : src[d][u] # NoInode => src[d][u] \in Inodes /\ src[d][u] \in Used'
      BY <2>1 DEF Used
    <3>3. \A j \in Inodes : j \in Used' => data'[j] = IF j = hand[p] THEN "partial" ELSE data[j]
      BY <2>1, <2>3, <2>6, WrittenInode
    <3>4. LinksKeep(u)
      BY <2>1, <2>2, <3>2, <3>3 DEF LinksKeep
    <3> QED
      BY <2>4, <3>1, <3>4 DEF Verified, FetchState, Busy
  <2> QED
    BY <2>1, <2>5, <2>6
<1> QED
  BY <1>1, Standing

\* What gets a manifest was verified.
LEMMA RecordKeeps ==
    ASSUME NEW p \in Procs, NEW u, InOrder(p, u), Record(p)
    PROVE  \A v \in Urls : UrlInv(v)'
<1> USE DEF Record, At, downloadGivens
<1> DEFINE i == cache[u].ino
<1>1. ASSUME Steady(u)' PROVE LinksKeep(u) /\ Verified(u)' /\ FetchState(p, u)'
  <2>1. /\ u \in Urls /\ SourceInv /\ u = Url(p) /\ pc[p] \in DlSteps
        /\ FetchState(p, u) /\ Fetching(p, u)
        /\ UNCHANGED <<kind, upstream, dir>>
        /\ dir[p] \in Dirs /\ u \in Range(Sources[dir[p]]) /\ cache[u] \in Entry
    BY <1>1, InOrderFacts DEF InOrder, CacheInv
  <2>2. ~cache[u].manifest /\ i # NoInode /\ AsCommitted(u, i) /\ Matches(dir[p], u, data[i])
    BY <2>1 DEF FetchState, Busy, SourceInv, OpenHand
  <2>3. i \in Inodes
    BY <2>1, <2>2 DEF Entry
  <2>4. LinksKeep(u)
    BY <2>1, NothingWritten
  <2>5. CASE cache[u].dir
    <3>1. pc'[p] \in {"link", "manifest"} /\ cache'[u].manifest /\ cache'[u].ino = i
      BY <2>1, <2>5 DEF Goto, SourceInv, TypeOK, DlTypeOK
    <3>2. i \in Used'
      BY <2>1, <3>1 DEF Used
    <3>3. data'[i] = data[i]
      BY <2>1, <2>3, <3>2, HoldingData
    <3>4. Verified(u)'
      BY <2>1, <2>2, <3>1, <3>3 DEF Verified, AsCommitted, Matches
    <3> QED
      BY <2>4, <3>1, <3>4 DEF FetchState, Busy
  <2>6. CASE ~cache[u].dir
    <3>1. pc'[p] = "failed" /\ UNCHANGED cache
      BY <2>1, <2>6 DEF Goto, SourceInv, TypeOK
    <3> QED
      BY <2>2, <2>4, <3>1 DEF Verified, FetchState, Busy
  <2> QED
    BY <2>5, <2>6
<1> QED
  BY <1>1, Standing

\* What is linked is as the script wants it, unless the checksums of two scripts differ.
LEMMA LinkKeeps ==
    ASSUME NEW p \in Procs, NEW u, InOrder(p, u), Link(p)
    PROVE  \A v \in Urls : UrlInv(v)'
<1> DEFINE i == cache[u].ino
<1> USE DEF Link, At, downloadGivens
<1>1. ASSUME Steady(u)'
      PROVE  LinksKeep(u) /\ Verified(u)' /\ FetchState(p, u)' /\ Fresh(p, u)' /\ Linked(p, u)'
  <2>1. /\ u \in Urls /\ SourceInv /\ u = Url(p) /\ pc[p] \in DlSteps
        /\ Steady(u) /\ Verified(u) /\ FetchState(p, u) /\ Fetching(p, u)
        /\ UNCHANGED <<kind, upstream, dir>>
        /\ dir[p] \in Dirs /\ u \in Range(Sources[dir[p]]) /\ u \in Range(todo[p])
        /\ src[dir[p]][u] = NoInode
        /\ cache[u] \in Entry /\ \A d \in Dirs : src[d][u] \in Inodes \cup {NoInode}
    BY <1>1, InOrderFacts DEF InOrder, CacheInv
  <2>2. /\ cache[u].manifest /\ i \in Inodes
        /\ \E d \in Dirs : u \in Range(Sources[d]) /\ Matches(d, u, data[i])
        /\ AsCommitted(u, i)
    BY <2>1 DEF FetchState, Verified, Entry
  <2>3. i \in Used' /\ UNCHANGED cache
    BY <2>1 DEF Used
  <2>4. CASE ~cache[u].dir /\ Goto(p, "failed") /\ UNCHANGED <<data, src, todo>>
    <3>1. pc'[p] = "failed"
      BY <2>1, <2>4 DEF Goto, SourceInv, TypeOK
    <3>2. Verified(u)'
      BY <2>1, <2>3, <2>4 DEF Verified, AsCommitted, Matches
    <3> QED
      BY <2>4, <3>1, <3>2 DEF LinksKeep, FetchState, Busy, Fresh, Linked, DlSteps
  <2>5. CASE /\ NextSource(p) /\ Holding(data)
             /\ src' = [src EXCEPT ![dir[p]][u] = i]
    <3>1. /\ pc'[p] \in {"get", "fetched"}
          /\ u \in Range(todo'[p]) => Repeated(dir[p], u)
      BY <2>1, <2>5, NextSourceMoves
    <3>2. u \notin Range(todo'[p])
      BY <2>1, <3>1 DEF Steady, Spoilt
    <3>3. data'[i] = data[i]
      BY <2>1, <2>2, <2>3, <2>5, HoldingData
    <3>4. Verified(u)'
      BY <2>1, <2>2, <2>3, <3>3, NoInodeIsNone DEF Verified, AsCommitted, Matches
    <3>5. FetchState(p, u)'
      BY <3>1 DEF FetchState, Fetching, Busy, DlSteps
    <3>6. Fresh(p, u)'
      BY <3>2 DEF Fresh
    <3>7. src'[dir[p]][u] = i /\ \A d \in Dirs : src[d][u] # NoInode => src'[d][u] = src[d][u]
      BY <2>1, <2>2, <2>5 DEF SourceInv, TypeOK, DlTypeOK
    <3>8. Linked(p, u)'
      <4>1. ~Disputed(u) => Matches(dir[p], u, data[i])
        BY <2>1, <2>2 DEF Disputed, Matches
      <4>2. Disputed(u)' <=> Disputed(u)
        BY DEF Disputed
      <4>3. dir' = dir /\ kind' = kind /\ upstream' = upstream
        BY <2>1
      <4> HIDE DEF Link
      <4> QED
        BY <2>2, <3>3, <3>7, <4>1, <4>2, <4>3, NoInodeIsNone DEF Linked, AsCommitted, Matches
    <3>9. LinksKeep(u)
      <4>1. ASSUME NEW d \in Dirs, src[d][u] # NoInode
            PROVE  data'[src[d][u]] = data[src[d][u]]
        <5>1. src[d][u] \in Inodes /\ src[d][u] \in Used'
          <6>1. src'[d][u] \in Used'
            BY <2>1 DEF Used
          <6> QED
            BY <2>1, <3>7, <4>1, <6>1
        <5> QED
          BY <2>1, <2>5, <5>1, HoldingData
      <4> QED
        BY <4>1 DEF LinksKeep
    <3> QED
      BY <3>4, <3>5, <3>6, <3>8, <3>9
  <2>6. i # NoInode /\ LinkOrCopy(i, src[dir[p]][u]) = data
    BY <2>1, <2>2, NoInodeIsNone DEF LinkOrCopy
  <2> QED
    BY <2>1, <2>4, <2>5, <2>6
<1> QED
  BY <1>1, ThisUrl DEF InOrder

\* A step of a download keeps the invariant.
LEMMA CacheDownload ==
    ASSUME CacheInv, WholeInv, BuildTypeOK', NEW p \in Procs, Download(p)
    PROVE  CacheInv'
<1> DEFINE u == Url(p)
<1>1. SourceInv' /\ InOrder(p, u)
  BY DownloadSource DEF CacheInv, InOrder
<1>2. \A v \in Urls : UrlInv(v)'
  <2> HIDE DEF u
  <2>1. DlStep(p)
    BY DEF Download
  <2> QED
    BY <1>1, <2>1, GetKeeps, UpdateGitKeeps, ReadManifestKeeps, NewKeeps, CreateKeeps,
       FillKeeps, CheckOnDiskKeeps, UnpackKeeps, RecordKeeps, LinkKeeps DEF DlStep
<1> QED
  BY <1>1, <1>2 DEF CacheInv

-----------------------------------------------------------------------------
(* The steps of a build that are no download *)

\* What such a step of p may do to the sources: it ends with no file open, it
\* takes links away only from its own directory, and it writes only to a
\* source that it spoils.
SideStep(p) ==
    /\ UNCHANGED <<kind, upstream, cache>>
    /\ disturbed \subseteq disturbed'
    /\ hand'[p] = NoInode
    /\ pc'[p] \notin DlSteps \ {"get"}
    /\ \A q \in Procs \ {p} :
          pc'[q] = pc[q] /\ todo'[q] = todo[q] /\ hand'[q] = hand[q] /\ dir'[q] = dir[q]
    /\ \A d \in Dirs : src'[d] = src[d] \/ (~Idle(p) /\ d = dir[p])
    /\ \A d \in Dirs, v \in Urls : src'[d][v] \in {src[d][v], NoInode}
    /\ \A v \in Urls, i \in Inodes : Steady(v)' /\ Leads(v, i)' => data'[i] = data[i]

\* What led to an inode before.
LEMMA SideLeads ==
    ASSUME NEW p \in Procs, SideStep(p), NEW v \in Urls, NEW i \in Inodes, Leads(v, i)'
    PROVE  Leads(v, i)
<1>1. CASE cache'[v].ino = i
  BY <1>1 DEF SideStep, Leads
<1>2. CASE \E d \in Dirs : src'[d][v] = i
  BY <1>2, NoInodeIsNone DEF SideStep, Leads
<1>3. CASE \E q \in Procs : hand'[q] = i /\ Head(todo'[q]) = v
  BY <1>3, NoInodeIsNone DEF SideStep, Leads, Url
<1> QED
  BY <1>1, <1>2, <1>3 DEF Leads, Url

\* A step beside the downloads keeps the order of the sources.
LEMMA SideSource ==
    ASSUME SourceInv, TypeOK', NEW p \in Procs, SideStep(p), AtSource(p)'
    PROVE  SourceInv'
<1>1. ASSUME NEW q \in Procs, q # p
      PROVE  AtSource(q)' /\ OpenHand(q)'
  <2>1. pc'[q] = pc[q] /\ todo'[q] = todo[q] /\ hand'[q] = hand[q] /\ dir'[q] = dir[q]
    BY <1>1 DEF SideStep
  <2> QED
    BY <2>1 DEF SourceInv, AtSource, OpenHand, Repeated
<1>2. OpenHand(p)'
  BY DEF SideStep, OpenHand, Busy, DlSteps
<1>3. OneUrl'
  BY SideLeads DEF SourceInv, OneUrl, Inodes
<1>4. OneFetcher'
  BY DEF SideStep, SourceInv, OneFetcher, Fetching, Url
<1> QED
  BY <1>1, <1>2, <1>3, <1>4 DEF SourceInv

\* What the other processes know of a source stays.
LEMMA SideUrl ==
    ASSUME CacheInv, WholeInv, SourceInv', NEW p \in Procs, SideStep(p),
           NEW v \in Urls, Steady(v)', NEW q \in Procs, q # p
    PROVE  FetchState(q, v)' /\ Fresh(q, v)' /\ Linked(q, v)'
<1>1. SourceInv /\ UrlInv(v)
  BY DEF CacheInv
<1>2. /\ pc'[q] = pc[q] /\ todo'[q] = todo[q] /\ hand'[q] = hand[q] /\ dir'[q] = dir[q]
      /\ cache' = cache /\ kind' = kind /\ upstream' = upstream /\ disturbed \subseteq disturbed'
      /\ \A d \in Dirs : src'[d][v] \in {src[d][v], NoInode}
  BY DEF SideStep
<1>3. Steady(v) /\ FetchState(q, v) /\ Fresh(q, v) /\ Linked(q, v)
  BY <1>1, <1>2, SteadyBefore DEF UrlInv
<1>4. Fetching(q, v)' = Fetching(q, v)
  BY <1>2 DEF Fetching, Url
<1>5. pc[q] \in DlSteps \cup {"fetched"} => dir[q] \in Dirs
  BY DEF WholeInv, OwnPackages, Idle, DlSteps
<1>6. FetchState(q, v)'
  <2>1. CASE ~Fetching(q, v)
    BY <1>4, <2>1 DEF FetchState
  <2>2. CASE Fetching(q, v) /\ pc[q] \in Busy
    <3>1. hand[q] \in Inodes
      BY <1>1, <2>2 DEF SourceInv, OpenHand, TypeOK, DlTypeOK
    <3>2. Leads(v, hand[q])'
      BY <1>2, <1>4, <2>2 DEF Leads, Fetching
    <3>3. data'[hand[q]] = data[hand[q]]
      BY <1>2, <3>1, <3>2 DEF SideStep
    <3> QED
      BY <1>2, <1>3, <2>2, <3>1, <3>3, NoInodeIsNone
      DEF FetchState, AsCommitted, Matches, Busy, IsGit
  <2>3. CASE Fetching(q, v) /\ pc[q] \notin Busy
    <3>1. cache[v].ino # NoInode => data'[cache[v].ino] = data[cache[v].ino]
      <4>1. cache[v].ino # NoInode => cache[v].ino \in Inodes
        BY <1>1 DEF SourceInv, TypeOK, DlTypeOK
      <4>2. Leads(v, cache[v].ino)'
        BY <1>2 DEF Leads
      <4> QED
        BY <1>2, <4>1, <4>2 DEF SideStep
    <3> QED
      BY <1>2, <1>3, <2>3, <3>1 DEF FetchState, Busy, IsGit, AsCommitted, Matches
  <2> QED
    BY <2>1, <2>2, <2>3
<1>7. Fresh(q, v)'
  BY <1>2, <1>3, <1>5 DEF Fresh
<1>8. Linked(q, v)'
  <2> SUFFICES ASSUME pc[q] \in DlSteps \cup {"fetched"}, ~Disputed(v),
                      v \in Range(Sources[dir[q]]) \ Range(todo[q])
               PROVE  /\ src'[dir[q]][v] # NoInode
                      /\ Matches(dir[q], v, data'[src'[dir[q]][v]])
                      /\ kind[v] = "gitrev" => data'[src'[dir[q]][v]] = upstream[v]
    BY <1>2 DEF Linked, Disputed, AsCommitted, Matches
  <2>0. PICK i : i = src[dir[q]][v]
    OBVIOUS
  <2>1. i # NoInode /\ Matches(dir[q], v, data[i]) /\ (kind[v] = "gitrev" => data[i] = upstream[v])
    BY <1>3, <2>0 DEF Linked, AsCommitted
  <2>2. dir[q] = dir[p] /\ ~Idle(p) => dir[q] \in disturbed
    BY <1>5 DEF WholeInv, Apart, In, Idle, DlSteps
  <2>3. src'[dir[q]][v] = i
    <3>1. src'[dir[q]] = src[dir[q]] \/ (~Idle(p) /\ dir[q] = dir[p])
      BY <1>5 DEF SideStep
    <3>2. dir[q] \notin disturbed
      BY <1>3, <1>5 DEF Steady, Spoilt
    <3> QED
      BY <2>0, <2>2, <3>1, <3>2
  <2>4. i \in Inodes /\ Leads(v, i)'
    BY <1>1, <1>5, <2>1, <2>0, <2>3 DEF SourceInv, TypeOK, DlTypeOK, Leads
  <2>5. data'[i] = data[i]
    BY <2>4 DEF SideStep
  <2> QED
    BY <2>1, <2>3, <2>5
<1> QED
  BY <1>6, <1>7, <1>8

\* A step beside the downloads keeps the invariant, if p does.
LEMMA SideCache ==
    ASSUME CacheInv, WholeInv, TypeOK', NEW p \in Procs, SideStep(p), AtSource(p)',
           \A v \in Urls : Steady(v)' => FetchState(p, v)' /\ Fresh(p, v)' /\ Linked(p, v)'
    PROVE  CacheInv'
<1>1. SourceInv'
  BY SideSource DEF CacheInv
<1>2. ASSUME NEW v \in Urls, Steady(v)'
      PROVE  Verified(v)'
  <2>1. Verified(v) /\ cache' = cache /\ kind' = kind /\ upstream' = upstream
    BY <1>2, SteadyBefore DEF CacheInv, UrlInv, SideStep
  <2>2. cache[v].ino # NoInode => data'[cache[v].ino] = data[cache[v].ino]
    <3> SUFFICES ASSUME cache[v].ino # NoInode PROVE data'[cache[v].ino] = data[cache[v].ino]
      OBVIOUS
    <3>1. cache[v].ino \in Inodes /\ Leads(v, cache[v].ino)'
      BY <2>1 DEF CacheInv, SourceInv, TypeOK, DlTypeOK, Leads
    <3> QED
      BY <1>2, <3>1 DEF SideStep
  <2> QED
    BY <2>1, <2>2 DEF Verified, AsCommitted, Matches
<1>3. ASSUME NEW v \in Urls, Steady(v)', NEW q \in Procs
      PROVE  FetchState(q, v)' /\ Fresh(q, v)' /\ Linked(q, v)'
  BY <1>1, <1>3, SideUrl
<1> QED
  BY <1>1, <1>2, <1>3 DEF CacheInv, UrlInv

\* A step after which p is in no download.
LEMMA QuietCache ==
    ASSUME CacheInv, WholeInv, TypeOK', NEW p \in Procs, SideStep(p),
           pc'[p] \notin DlSteps \cup {"fetched"}
    PROVE  CacheInv'
<1>1. AtSource(p)'
  BY DEF AtSource
<1>2. ASSUME NEW v \in Urls
      PROVE  FetchState(p, v)' /\ Fresh(p, v)' /\ Linked(p, v)'
  BY DEF FetchState, Fetching, Fresh, Linked
<1> QED
  BY <1>1, <1>2, SideCache

\* What no step writes to keeps its data.
LEMMA KeptData ==
    ASSUME SourceInv, UNCHANGED data \/ Holding(data),
           NEW v \in Urls, NEW i \in Inodes, Leads(v, i)'
    PROVE  data'[i] = data[i]
<1>1. i \in Used'
  BY DEF Leads, Used
<1> QED
  BY <1>1, HoldingData

\* A process that is in no download has no file open.
LEMMA NoHand ==
    ASSUME SourceInv, NEW p \in Procs, pc[p] \in {"idle", "deps", "fetched", "pack", "write"}
    PROVE  hand[p] = NoInode
BY DEF SourceInv, OpenHand, Busy

\* A step that changes neither files nor sources.
LEMMA OnlyBuild ==
    ASSUME CacheInv, WholeInv, TypeOK', NEW p \in Procs,
           UNCHANGED <<kind, upstream, cache, data, src, hand>>, disturbed \subseteq disturbed',
           pc[p] \in {"idle", "deps", "fetched", "pack", "write"},
           pc'[p] \notin DlSteps \cup {"fetched"},
           \A q \in Procs \ {p} : pc'[q] = pc[q] /\ todo'[q] = todo[q] /\ dir'[q] = dir[q]
    PROVE  CacheInv'
<1>1. hand'[p] = NoInode
  BY NoHand DEF CacheInv
<1>2. SideStep(p)
  BY <1>1 DEF SideStep
<1> QED
  BY <1>2, QuietCache

\* A build begins with no sources.
LEMMA CacheStart ==
    ASSUME CacheInv, WholeInv, TypeOK',
           NEW p \in Procs, NEW d \in Dirs, NEW S, NEW c, Start(p, d, S, c)
    PROVE  CacheInv'
<1>1. /\ pc[p] = "idle" /\ pc'[p] = "deps"
      /\ \A q \in Procs \ {p} : pc'[q] = pc[q] /\ todo'[q] = todo[q] /\ dir'[q] = dir[q]
      /\ disturbed \subseteq disturbed' /\ UNCHANGED <<kind, upstream, cache, data, src, hand>>
  BY DEF Start, At, Goto, Entering, fileVars, CacheInv, SourceInv, TypeOK, DlTypeOK
<1>2. pc'[p] \notin DlSteps \cup {"fetched"}
  BY <1>1 DEF DlSteps
<1> QED
  BY <1>1, <1>2, OnlyBuild

\* So does the build of a dependency.
LEMMA CacheBuildDep ==
    ASSUME CacheInv, WholeInv, TypeOK', NEW p \in Procs, BuildDep(p)
    PROVE  CacheInv'
<1>1. /\ pc[p] = "deps" /\ UNCHANGED <<pc, todo>>
      /\ \A q \in Procs \ {p} : dir'[q] = dir[q]
      /\ disturbed \subseteq disturbed' /\ UNCHANGED <<kind, upstream, cache, data, src, hand>>
  BY DEF BuildDep, At, Entering, fileVars, CacheInv, SourceInv, TypeOK, DlTypeOK
<1>2. pc'[p] \notin DlSteps \cup {"fetched"}
  BY <1>1 DEF DlSteps
<1> QED
  BY <1>1, <1>2, OnlyBuild

\* Package files are not sources.
LEMMA CacheCreateFile ==
    ASSUME CacheInv, WholeInv, TypeOK', NEW p \in Procs, CreateFile(p)
    PROVE  CacheInv'
<1>1. /\ pc[p] = "pack" /\ pc'[p] = "write"
      /\ \A q \in Procs \ {p} : pc'[q] = pc[q]
      /\ UNCHANGED <<kind, upstream, cache, data, src, hand, dir, todo, disturbed>>
  BY DEF CreateFile, At, Goto, fileVars, CacheInv, SourceInv, TypeOK
<1>2. pc'[p] \notin DlSteps \cup {"fetched"}
  BY <1>1 DEF DlSteps
<1> QED
  BY <1>1, <1>2, OnlyBuild

\* Nor when they are written.
LEMMA CacheWriteFile ==
    ASSUME CacheInv, WholeInv, TypeOK', NEW p \in Procs, WriteFile(p)
    PROVE  CacheInv'
<1>1. /\ pc[p] = "write" /\ pc'[p] = "pack"
      /\ \A q \in Procs \ {p} : pc'[q] = pc[q]
      /\ UNCHANGED <<kind, upstream, cache, data, src, hand, dir, todo, disturbed>>
  BY DEF WriteFile, At, Goto, fileVars, CacheInv, SourceInv, TypeOK
<1>2. pc'[p] \notin DlSteps \cup {"fetched"}
  BY <1>1 DEF DlSteps
<1> QED
  BY <1>1, <1>2, OnlyBuild

\* The end of a build leaves its sources.
LEMMA CacheFinish ==
    ASSUME CacheInv, WholeInv, TypeOK', NEW p \in Procs, Finish(p)
    PROVE  CacheInv'
<1>1. /\ pc[p] = "pack" /\ pc'[p] \in {"idle", "deps"}
      /\ \A q \in Procs \ {p} : pc'[q] = pc[q] /\ dir'[q] = dir[q]
      /\ UNCHANGED <<kind, upstream, cache, data, src, hand, todo, disturbed>>
  BY DEF Finish, At, Goto, fileVars, CacheInv, SourceInv, TypeOK, DlTypeOK
<1>2. pc'[p] \notin DlSteps \cup {"fetched"}
  BY <1>1 DEF DlSteps
<1> QED
  BY <1>1, <1>2, OnlyBuild

\* A call that fails lets go of its file.
LEMMA CacheAbort ==
    ASSUME CacheInv, WholeInv, TypeOK', NEW p \in Procs, Abort(p)
    PROVE  CacheInv'
<1>1. /\ pc'[p] = "idle" /\ hand'[p] = NoInode
      /\ \A q \in Procs \ {p} :
            pc'[q] = pc[q] /\ todo'[q] = todo[q] /\ hand'[q] = hand[q] /\ dir'[q] = dir[q]
      /\ UNCHANGED <<kind, upstream, cache, src, disturbed>> /\ Holding(data)
  BY DEF Abort, Goto, CacheInv, SourceInv, TypeOK, DlTypeOK
<1>2. pc'[p] \notin DlSteps \cup {"fetched"}
  BY <1>1 DEF DlSteps
<1>3. \A v \in Urls, i \in Inodes : Leads(v, i)' => data'[i] = data[i]
  BY <1>1, KeptData DEF CacheInv
<1>4. SideStep(p)
  BY <1>1, <1>2, <1>3 DEF SideStep
<1> QED
  BY <1>2, <1>4, QuietCache

\* A script writes to no source but its own.
LEMMA CacheExecute ==
    ASSUME CacheInv, WholeInv, TypeOK', NEW p \in Procs, Execute(p)
    PROVE  CacheInv'
<1>1. /\ pc[p] = "fetched" /\ pc'[p] = "pack" /\ disturbed \subseteq disturbed'
      /\ \A q \in Procs \ {p} : pc'[q] = pc[q]
      /\ UNCHANGED <<kind, upstream, cache, src, dir, todo, hand>>
  BY DEF Execute, At, Goto, CacheInv, SourceInv, TypeOK, DlTypeOK
<1>2. pc'[p] \notin DlSteps \cup {"fetched"} /\ hand'[p] = NoInode
  BY <1>1, NoHand DEF DlSteps, CacheInv
<1>3. CASE UNCHANGED data
  BY <1>1, <1>2, <1>3, OnlyBuild
<1>4. ASSUME NEW u \in Range(Sources[dir[p]]),
             src[dir[p]][u] # NoInode,
             data' = [data EXCEPT ![src[dir[p]][u]] = "edited"],
             disturbed' = disturbed \cup {u}
      PROVE  CacheInv'
  <2>1. u \in Urls /\ dir[p] \in Dirs
    <3>1. dir[p] \in Dirs
      BY <1>1 DEF WholeInv, OwnPackages, Idle
    <3>2. Sources[dir[p]] \in Seq(Urls)
      BY <3>1, DownloadAssumption DEF DownloadAssumption
    <3> QED
      BY <3>1, <3>2 DEF Range
  <2>2. ASSUME NEW v \in Urls, NEW i \in Inodes, Steady(v)', Leads(v, i)'
        PROVE  data'[i] = data[i]
    <3>1. v # u
      BY <1>4, <2>2 DEF Steady, Spoilt
    <3>2. Leads(v, i)
      BY <1>1, <2>2 DEF Leads, Url
    <3>3. Leads(u, src[dir[p]][u])
      BY <2>1 DEF Leads
    <3>4. i # src[dir[p]][u]
      BY <2>1, <3>1, <3>2, <3>3 DEF CacheInv, SourceInv, OneUrl
    <3> QED
      BY <1>4, <3>4 DEF CacheInv, SourceInv, TypeOK, DlTypeOK
  <2>3. SideStep(p)
    BY <1>1, <1>2, <2>2 DEF SideStep
  <2> QED
    BY <1>2, <2>3, QuietCache
<1> QED
  BY <1>3, <1>4 DEF Execute

\* No old link is taken for a source, or it is known.
LEMMA CachePrepareDirs ==
    ASSUME CacheInv, WholeInv, TypeOK', NEW p \in Procs, PrepareDirs(p)
    PROVE  CacheInv'
<1> DEFINE d == dir[p]
<1>1. /\ pc[p] = "deps" /\ pc'[p] = IF Sources[d] = <<>> THEN "fetched" ELSE "get"
      /\ todo'[p] = Sources[d]
      /\ \A q \in Procs \ {p} : pc'[q] = pc[q] /\ todo'[q] = todo[q]
      /\ UNCHANGED <<kind, upstream, cache, dir, hand>> /\ Holding(data)
      /\ disturbed \subseteq disturbed'
  BY DEF PrepareDirs, At, Goto, CacheInv, SourceInv, TypeOK, DlTypeOK
<1>2. hand'[p] = NoInode /\ d \in Dirs /\ ~Idle(p)
  BY <1>1, NoHand DEF CacheInv, WholeInv, OwnPackages, Idle
<1>3. /\ \A c \in Dirs : src'[c] = src[c] \/ c = d
      /\ \A c \in Dirs, v \in Urls : src'[c][v] \in {src[c][v], NoInode}
      /\ \A v \in Urls : src'[d][v] = NoInode \/ v \in disturbed'
  <2>1. src \in [Dirs -> [Urls -> Inodes \cup {NoInode}]]
    BY DEF CacheInv, SourceInv, TypeOK, DlTypeOK
  <2>2. CASE src' = [src EXCEPT ![d] = [v \in Urls |-> NoInode]]
    <3>1. src'[d] = [v \in Urls |-> NoInode] /\ \A c \in Dirs \ {d} : src'[c] = src[c]
      BY <1>2, <2>1, <2>2
    <3>2. \A v \in Urls : src'[d][v] = NoInode
      BY <3>1
    <3> QED
      BY <3>1, <3>2
  <2>3. CASE UNCHANGED src /\ disturbed' = disturbed \cup {v \in Urls : src[d][v] # NoInode}
    BY <2>3
  <2> QED
    BY <2>2, <2>3 DEF PrepareDirs
<1>4. \A v \in Urls, i \in Inodes : Leads(v, i)' => data'[i] = data[i]
  <2>1. SourceInv /\ Holding(data)
    BY <1>1 DEF CacheInv
  <2> QED
    BY <2>1, KeptData
<1>5. SideStep(p)
  <2>1. pc'[p] \notin DlSteps \ {"get"}
    BY <1>1 DEF DlSteps
  <2>2. \A c \in Dirs : src'[c] = src[c] \/ (~Idle(p) /\ c = dir[p])
    BY <1>2, <1>3
  <2> QED
    BY <1>1, <1>2, <1>3, <1>4, <2>1, <2>2 DEF SideStep
<1>6. AtSource(p)'
  <2>1. \A i, j \in DOMAIN Sources[d] :
            i # j /\ Sources[d][i] = Sources[d][j] => Repeated(d, Sources[d][i])
    BY DEF Repeated
  <2> QED
    BY <1>1, <2>1 DEF AtSource, Repeated, DlSteps
<1>7. ASSUME NEW v \in Urls, Steady(v)'
      PROVE  FetchState(p, v)' /\ Fresh(p, v)' /\ Linked(p, v)'
  <2>1. v \notin disturbed' /\ dir' = dir
    BY <1>1, <1>7 DEF Steady, Spoilt
  <2>2. FetchState(p, v)'
    BY <1>1 DEF FetchState, Fetching, DlSteps
  <2>3. Fresh(p, v)'
    BY <1>3, <2>1 DEF Fresh
  <2>4. Linked(p, v)'
    BY <1>1 DEF Linked
  <2> QED
    BY <2>2, <2>3, <2>4
<1> QED
  BY <1>5, <1>6, <1>7, SideCache

\* A step that is about no source: what the URLs serve may change, except at
\* a revision.
LEMMA CacheElse ==
    ASSUME CacheInv, TypeOK',
           UNCHANGED <<kind, cache, data, src, pc, dir, todo, hand, disturbed>>,
           \A v \in Urls : kind[v] = "gitrev" => upstream'[v] = upstream[v]
    PROVE  CacheInv'
<1>1. SourceInv'
  BY DEF CacheInv, SourceInv, AtSource, OpenHand, OneUrl, OneFetcher, Leads, Fetching, Url, Repeated
<1>2. ASSUME NEW v \in Urls
      PROVE  UrlInv(v)'
  <2>1. UrlInv(v) /\ (kind[v] = "gitrev" => upstream'[v] = upstream[v])
    BY DEF CacheInv
  <2>2. Steady(v)' = Steady(v)
    BY DEF Steady, Spoilt, Repeated
  <2>3. \A i : AsCommitted(v, i)' = AsCommitted(v, i)
    BY <2>1 DEF AsCommitted
  <2>4. Verified(v) => Verified(v)'
    BY <2>1 DEF Verified, AsCommitted, Matches
  <2>5. ASSUME NEW p \in Procs
        PROVE  /\ FetchState(p, v) => FetchState(p, v)'
               /\ Fresh(p, v) => Fresh(p, v)'
               /\ Linked(p, v) => Linked(p, v)'
    <3>1. Fetching(p, v)' = Fetching(p, v)
      BY DEF Fetching, Url
    <3>2. FetchState(p, v) => FetchState(p, v)'
      BY <2>1, <3>1 DEF FetchState, AsCommitted, Matches, IsGit
    <3>3. Fresh(p, v) => Fresh(p, v)'
      BY DEF Fresh
    <3>4. Linked(p, v) => Linked(p, v)'
      BY <2>1 DEF Linked, AsCommitted, Matches, Disputed
    <3> QED
      BY <3>2, <3>3, <3>4
  <2> QED
    BY <2>1, <2>2, <2>4, <2>5 DEF UrlInv
<1> QED
  BY <1>1, <1>2 DEF CacheInv

-----------------------------------------------------------------------------
(* Type correctness and the invariant of the cache *)

\* The types of what the downloads share with the rest of a build.
LEMMA TypeOfSide ==
    ASSUME TypeOK, BuildTypeOK', UNCHANGED <<kind, cache>>,
           upstream' \in [Urls -> Contents],
           data' \in [Inodes -> DataValues],
           src' \in [Dirs -> [Urls -> Inodes \cup {NoInode}]],
           todo' \in [Procs -> Seq(Urls)],
           hand' \in [Procs -> Inodes \cup {NoInode}],
           disturbed' \subseteq Urls \cup Dirs,
           torn' \subseteq Names, builds' \in 0..MaxBuilds
    PROVE  TypeOK'
BY DEF TypeOK, DlTypeOK, BuildTypeOK, DataValues

\* Data keeps its type.
LEMMA TypeOfData ==
    ASSUME TypeOK, UNCHANGED data \/ Holding(data)
    PROVE  data' \in [Inodes -> DataValues]
BY HoldingKeeps DEF TypeOK, DlTypeOK, DataValues

\* Each other step keeps the types.
LEMMA TypeOfStep ==
    ASSUME TypeOK, WholeInv, BuildTypeOK', NEW p \in Procs,
           Abort(p) \/ SkipDep(p) \/ BuildDep(p) \/ PrepareDirs(p) \/ Execute(p)
              \/ CreateFile(p) \/ WriteFile(p) \/ Finish(p)
    PROVE  TypeOK'
<1> USE DEF TypeOK, DlTypeOK
<1>1. CASE Abort(p)
  <2>1. todo' \in [Procs -> Seq(Urls)] /\ hand' \in [Procs -> Inodes \cup {NoInode}]
    BY <1>1 DEF Abort
  <2>2. torn' \subseteq Names /\ builds' \in 0..MaxBuilds
    BY <1>1 DEF Abort, TornBy
  <2>3. data' \in [Inodes -> DataValues]
    BY <1>1, TypeOfData DEF Abort
  <2> QED
    BY <1>1, <2>1, <2>2, <2>3, TypeOfSide DEF Abort
<1>2. CASE SkipDep(p)
  BY <1>2, TypeOfData, TypeOfSide DEF SkipDep, dlVars
<1>3. CASE BuildDep(p)
  <2>1. Owner(Head(left[p])) \in Dirs
    <3>1. left[p] \in Seq(Names) /\ left[p] # <<>>
      BY <1>3 DEF BuildDep
    <3>2. Head(left[p]) \in Names
      BY <3>1, HeadTailProperties
    <3> QED
      BY <3>2, BuildAssumption DEF BuildAssumption, Owner
  <2>2. disturbed' \subseteq Urls \cup Dirs
    BY <1>3, <2>1 DEF BuildDep, Entering
  <2> QED
    BY <1>3, <2>2, TypeOfData, TypeOfSide DEF BuildDep, fileVars
<1>4. CASE PrepareDirs(p)
  <2>1. dir[p] \in Dirs /\ Sources[dir[p]] \in Seq(Urls)
    BY <1>4, DownloadAssumption
    DEF PrepareDirs, At, WholeInv, OwnPackages, Idle, DownloadAssumption
  <2>2. todo' \in [Procs -> Seq(Urls)]
    BY <1>4, <2>1 DEF PrepareDirs
  <2>3. /\ src' \in [Dirs -> [Urls -> Inodes \cup {NoInode}]]
        /\ disturbed' \subseteq Urls \cup Dirs
    <3>1. CASE src' = [src EXCEPT ![dir[p]] = [u \in Urls |-> NoInode]] /\ UNCHANGED disturbed
      BY <3>1
    <3>2. CASE UNCHANGED src /\ disturbed' = disturbed \cup {u \in Urls : src[dir[p]][u] # NoInode}
      BY <3>2
    <3> QED
      BY <1>4, <3>1, <3>2 DEF PrepareDirs
  <2>4. data' \in [Inodes -> DataValues]
    BY <1>4, TypeOfData DEF PrepareDirs
  <2> QED
    BY <1>4, <2>2, <2>3, <2>4, TypeOfSide DEF PrepareDirs, buildVars
<1>5. CASE Execute(p)
  <2>1. dir[p] \in Dirs /\ Sources[dir[p]] \in Seq(Urls)
    BY <1>5, DownloadAssumption
    DEF Execute, At, WholeInv, OwnPackages, Idle, DownloadAssumption
  <2>2. \A u \in Range(Sources[dir[p]]) : u \in Urls
    BY <2>1 DEF Range
  <2>3. data' \in [Inodes -> DataValues] /\ disturbed' \subseteq Urls \cup Dirs
    BY <1>5, <2>2 DEF Execute, DataValues
  <2> QED
    BY <1>5, <2>3, TypeOfSide DEF Execute
<1>6. CASE CreateFile(p)
  BY <1>6, TypeOfData, TypeOfSide DEF CreateFile, fileVars
<1>7. CASE WriteFile(p)
  BY <1>7, TypeOfData, TypeOfSide DEF WriteFile, fileVars
<1>8. CASE Finish(p)
  BY <1>8, TypeOfData, TypeOfSide DEF Finish, fileVars
<1> QED
  BY <1>1, <1>2, <1>3, <1>4, <1>5, <1>6, <1>7, <1>8

\* At first nothing is cached and nobody builds.
LEMMA CacheInit == Init => CacheInv
<1> SUFFICES ASSUME Init PROVE CacheInv
  OBVIOUS
<1> USE DEF Init, DlInit
<1>1. TypeOK
  <2>1. DlTypeOK
    BY DownloadAssumption DEF DlTypeOK, Gone, DownloadAssumption
  <2>2. /\ pc \in [Procs -> AllSteps] /\ file \in [Names -> {"none", "partial", "good", "bad"}]
        /\ rest \in [Procs -> SUBSET Names] /\ left \in [Procs -> Seq(Names)]
        /\ waiting \in [Procs -> Seq(Outer)] /\ clean \in [Procs -> BOOLEAN]
        /\ writing \in [Procs -> Names \cup {NoName}] /\ sound \in [Procs -> BOOLEAN]
        /\ torn \subseteq Names /\ builds \in 0..MaxBuilds
    BY BuildAssumption DEF AllSteps, BuildAssumption
  <2> QED
    BY <2>1, <2>2 DEF TypeOK, AllSteps
<1>2. \A p \in Procs : AtSource(p) /\ OpenHand(p) /\ pc[p] \notin DlSteps \cup {"fetched"}
  BY DEF AtSource, OpenHand, DlSteps, Busy
<1>3. OneUrl
  BY NoInodeIsNone DEF OneUrl, Leads, Gone
<1>4. OneFetcher
  BY <1>2 DEF OneFetcher, Fetching
<1>5. ASSUME NEW u \in Urls
      PROVE  UrlInv(u)
  BY <1>2 DEF UrlInv, Verified, FetchState, Fetching, Fresh, Linked, Gone
<1> QED
  BY <1>1, <1>2, <1>3, <1>4, <1>5 DEF CacheInv, SourceInv

\* The invariant is inductive.
LEMMA CacheNext == CacheInv /\ WholeInv /\ [Next]_vars => CacheInv'
<1> SUFFICES ASSUME CacheInv, WholeInv, [Next]_vars PROVE CacheInv'
  OBVIOUS
<1>1. TypeOK /\ BuildTypeOK'
  BY WholeNext DEF CacheInv, SourceInv, WholeInv
<1>2. ASSUME NEW u \in Urls, Publish(u), UNCHANGED buildVars
      PROVE  CacheInv'
  <2>1. /\ upstream' \in [Urls -> Contents]
        /\ \A v \in Urls : kind[v] = "gitrev" => upstream'[v] = upstream[v]
        /\ UNCHANGED <<kind, cache, data, src, pc, dir, todo, hand, disturbed>>
    BY <1>1, <1>2 DEF Publish, fileVars, TypeOK, DlTypeOK
  <2>2. TypeOK'
    BY <1>1, <1>2, <2>1, TypeOfData, TypeOfSide DEF buildVars, TypeOK, DlTypeOK
  <2> QED
    BY <2>1, <2>2, CacheElse
<1>3. CASE UNCHANGED vars
  <2>1. UNCHANGED <<kind, upstream, cache, data, src, pc, dir, todo, hand, disturbed, torn, builds>>
    BY <1>3 DEF vars, dlVars, buildVars
  <2>2. TypeOK'
    BY <1>1, <2>1, TypeOfData, TypeOfSide DEF TypeOK, DlTypeOK
  <2> QED
    BY <2>1, <2>2, CacheElse
<1>4. ASSUME NEW p \in Procs, NEW d \in Dirs, NEW c \in BOOLEAN, NEW S \in SUBSET Pkgs[d],
             Start(p, d, S, c)
      PROVE  CacheInv'
  <2>1. builds' \in 0..MaxBuilds
    BY <1>1, <1>4, BuildAssumption DEF Start, TypeOK, BuildAssumption
  <2>2. disturbed' \subseteq Urls \cup Dirs
    BY <1>1, <1>4 DEF Start, Entering, TypeOK, DlTypeOK
  <2>3. TypeOK'
    BY <1>1, <1>4, <2>1, <2>2, TypeOfData, TypeOfSide DEF Start, fileVars, TypeOK, DlTypeOK
  <2> QED
    BY <1>4, <2>3, CacheStart
<1>5. ASSUME NEW p \in Procs, Step(p) \/ Abort(p)
      PROVE  CacheInv'
  <2>1. CASE Download(p)
    BY <1>1, <2>1, CacheDownload
  <2>2. CASE SkipDep(p)
    <3>1. UNCHANGED <<kind, upstream, cache, data, src, pc, dir, todo, hand, disturbed>>
      BY <2>2 DEF SkipDep, dlVars
    <3> QED
      BY <1>1, <2>2, <3>1, TypeOfStep, CacheElse
  <2> QED
    BY <1>1, <1>5, <2>1, <2>2, TypeOfStep, CacheBuildDep, CachePrepareDirs, CacheExecute,
       CacheCreateFile, CacheWriteFile, CacheFinish, CacheAbort DEF Step
<1> QED
  BY <1>2, <1>3, <1>4, <1>5 DEF Next

-----------------------------------------------------------------------------
(* What the packages were built from *)

\* Nothing that has gone wrong is put right again.
LEMMA TaintStays ==
    ASSUME disturbed \subseteq disturbed', UNCHANGED kind, NEW d, Tainted(d)
    PROVE  Tainted(d)'
BY DEF Tainted, Disturbed, Moving, Spoilt, Repeated, Disputed

\* A process that has got all its sources has them as its script wants them.
LEMMA FetchedIsSound ==
    ASSUME CacheInv, WholeInv, NEW p \in Procs, pc[p] = "fetched", ~Tainted(dir[p])
    PROVE  HasSources(dir[p])
<1>1. dir[p] \in Dirs /\ Sources[dir[p]] \in Seq(Urls)
  BY DownloadAssumption DEF WholeInv, OwnPackages, Idle, DownloadAssumption
<1>2. todo[p] = <<>>
  BY DEF CacheInv, SourceInv, AtSource
<1>3. ASSUME NEW u \in Range(Sources[dir[p]])
      PROVE  src[dir[p]][u] # NoInode /\ Matches(dir[p], u, data[src[dir[p]][u]])
  <2>1. u \in Urls
    BY <1>1 DEF Range
  <2>2. Steady(u) /\ ~Disputed(u)
    BY DEF Tainted, Disturbed, Moving, Steady
  <2>3. Linked(p, u)
    BY <2>1, <2>2 DEF CacheInv, UrlInv
  <2>4. u \notin Range(todo[p])
    BY <1>2 DEF Range
  <2> QED
    BY <2>2, <2>3, <2>4 DEF Linked
<1> QED
  BY <1>3 DEF HasSources

\* A step that neither writes a file nor executes a script.
LEMMA SoundElse ==
    ASSUME SoundInv, UNCHANGED <<kind, file, writing, torn>>, disturbed \subseteq disturbed',
           \A q \in Procs : pc'[q] \in {"pack", "write"} =>
               pc[q] \in {"pack", "write"} /\ sound'[q] = sound[q] /\ dir'[q] = dir[q]
    PROVE  SoundInv'
<1>1. ASSUME NEW q \in Procs, pc'[q] \in {"pack", "write"}
      PROVE  (sound[q] \/ Tainted(dir[q]))'
  <2>1. PICK d : d = dir[q] /\ dir'[q] = d
    BY <1>1
  <2>2. sound'[q] \/ Tainted(d)
    BY <1>1, <2>1 DEF SoundInv
  <2> QED
    BY <2>1, <2>2, TaintStays
<1>2. ASSUME NEW k \in Names, file'[k] = "bad"
      PROVE  Tainted(Owner(k))'
  BY <1>2, TaintStays DEF SoundInv
<1> QED
  BY <1>1, <1>2 DEF SoundInv

\* A file that is begun is open.
LEMMA SoundCreateFile ==
    ASSUME SoundInv, WholeInv, NEW p \in Procs, CreateFile(p)
    PROVE  SoundInv'
<1>1. PICK k \in rest[p] : /\ writing' = [writing EXCEPT ![p] = k]
                           /\ file' = [file EXCEPT ![k] = "partial"]
  BY DEF CreateFile
<1>2. /\ pc[p] = "pack" /\ UNCHANGED <<kind, disturbed, dir, sound, torn>>
      /\ \A q \in Procs : pc'[q] \in {"pack", "write"} => pc[q] \in {"pack", "write"}
  BY DEF CreateFile, At, Goto, WholeInv, BuildTypeOK
<1>3. writing[p] = NoName /\ NoName \notin Names /\ k \in Names
  BY <1>2, BuildAssumption DEF WholeInv, OwnPackages, BuildTypeOK, BuildAssumption
<1>4. ASSUME NEW j \in Names, file'[j] = "partial"
      PROVE  j \in torn' \/ \E q \in Procs : writing'[q] = j
  <2>1. CASE j = k
    BY <1>1, <2>1 DEF WholeInv, BuildTypeOK
  <2>2. CASE j # k
    BY <1>1, <1>2, <1>3, <1>4, <2>2 DEF SoundInv, WholeInv, BuildTypeOK
  <2> QED
    BY <2>1, <2>2
<1>5. ASSUME NEW j \in Names, file'[j] = "bad"
      PROVE  Tainted(Owner(j))'
  <2>1. file[j] = "bad"
    BY <1>1, <1>5 DEF WholeInv, BuildTypeOK
  <2> QED
    BY <1>2, <2>1, TaintStays DEF SoundInv
<1>6. ASSUME NEW q \in Procs, pc'[q] \in {"pack", "write"}
      PROVE  (sound[q] \/ Tainted(dir[q]))'
  <2>1. PICK d : d = dir[q] /\ dir'[q] = d
    BY <1>2, <1>6
  <2>2. sound'[q] \/ Tainted(d)
    BY <1>2, <1>6, <2>1 DEF SoundInv
  <2> QED
    BY <1>1, <1>2, <2>1, <2>2, TaintStays
<1> QED
  BY <1>4, <1>5, <1>6 DEF SoundInv

\* What is written from sound sources is good.
LEMMA SoundWriteFile ==
    ASSUME SoundInv, WholeInv, NEW p \in Procs, WriteFile(p)
    PROVE  SoundInv'
<1> DEFINE k == writing[p]
<1>1. /\ pc[p] = "write" /\ UNCHANGED <<kind, disturbed, dir, sound>>
      /\ \A q \in Procs : pc'[q] \in {"pack", "write"} => pc[q] \in {"pack", "write"}
      /\ file' = [file EXCEPT ![k] = IF sound[p] THEN "good" ELSE "bad"]
      /\ torn' = torn \ {k} /\ writing' = [writing EXCEPT ![p] = NoName]
  BY DEF WriteFile, At, Goto, WholeInv, BuildTypeOK
<1>2. k \in Names /\ Owner(k) = dir[p]
  <2>1. dir[p] \in Dirs /\ k \in Pkgs[dir[p]]
    BY <1>1 DEF WholeInv, OwnPackages, Idle
  <2> QED
    BY <2>1, OwnerIsUnique
<1>3. ASSUME NEW j \in Names, file'[j] = "partial"
      PROVE  j \in torn' \/ \E q \in Procs : writing'[q] = j
  <2>1. j # k /\ file[j] = "partial"
    BY <1>1, <1>2, <1>3 DEF WholeInv, BuildTypeOK
  <2>2. j \in torn \/ \E q \in Procs \ {p} : writing[q] = j
    BY <2>1 DEF SoundInv
  <2> QED
    BY <1>1, <2>1, <2>2 DEF WholeInv, BuildTypeOK
<1>4. ASSUME NEW j \in Names, file'[j] = "bad"
      PROVE  Tainted(Owner(j))'
  <2>1. Tainted(Owner(j))
    <3>1. CASE j = k
      BY <1>1, <1>2, <1>4, <3>1 DEF SoundInv, WholeInv, BuildTypeOK
    <3>2. CASE j # k
      BY <1>1, <1>4, <3>2 DEF SoundInv, WholeInv, BuildTypeOK
    <3> QED
      BY <3>1, <3>2
  <2> QED
    BY <1>1, <2>1, TaintStays
<1>5. ASSUME NEW q \in Procs, pc'[q] \in {"pack", "write"}
      PROVE  (sound[q] \/ Tainted(dir[q]))'
  <2>1. PICK d : d = dir[q] /\ dir'[q] = d
    BY <1>1, <1>5
  <2>2. sound'[q] \/ Tainted(d)
    BY <1>1, <1>5, <2>1 DEF SoundInv
  <2> QED
    BY <1>1, <1>2, <2>1, <2>2, TaintStays
<1> QED
  BY <1>3, <1>4, <1>5 DEF SoundInv

\* What an end leaves open is torn.
LEMMA SoundAbort ==
    ASSUME SoundInv, WholeInv, NEW p \in Procs, Abort(p)
    PROVE  SoundInv'
<1>1. /\ UNCHANGED <<kind, disturbed, file>> /\ torn' = torn \cup ({writing[p]} \ {NoName})
      /\ writing' = [writing EXCEPT ![p] = NoName]
      /\ \A q \in Procs : pc'[q] \in {"pack", "write"} =>
            pc[q] \in {"pack", "write"} /\ sound'[q] = sound[q] /\ dir'[q] = dir[q]
  BY DEF Abort, Goto, TornBy, WholeInv, BuildTypeOK
<1>2. ASSUME NEW j \in Names, file'[j] = "partial"
      PROVE  j \in torn' \/ \E q \in Procs : writing'[q] = j
  <2>1. j \in torn \/ \E q \in Procs : writing[q] = j
    BY <1>1, <1>2 DEF SoundInv
  <2>2. j # NoName
    BY BuildAssumption DEF BuildAssumption
  <2> QED
    BY <1>1, <2>1, <2>2 DEF WholeInv, BuildTypeOK
<1>3. ASSUME NEW j \in Names, file'[j] = "bad"
      PROVE  Tainted(Owner(j))'
  BY <1>1, <1>3, TaintStays DEF SoundInv
<1>4. ASSUME NEW q \in Procs, pc'[q] \in {"pack", "write"}
      PROVE  (sound[q] \/ Tainted(dir[q]))'
  <2>1. PICK d : d = dir[q] /\ dir'[q] = d
    BY <1>1, <1>4
  <2>2. sound'[q] \/ Tainted(d)
    BY <1>1, <1>4, <2>1 DEF SoundInv
  <2> QED
    BY <1>1, <1>2, <2>1, <2>2, TaintStays
<1> QED
  BY <1>2, <1>3, <1>4 DEF SoundInv

\* What is executed has its sources.
LEMMA SoundExecute ==
    ASSUME SoundInv, CacheInv, WholeInv, NEW p \in Procs, Execute(p)
    PROVE  SoundInv'
<1>1. /\ pc[p] = "fetched" /\ UNCHANGED <<kind, dir, file, writing, torn>>
      /\ disturbed \subseteq disturbed'
      /\ sound' = [sound EXCEPT ![p] = HasSources(dir[p])]
      /\ \A q \in Procs \ {p} : pc'[q] = pc[q]
  BY DEF Execute, At, Goto, WholeInv, BuildTypeOK
<1>2. ASSUME NEW q \in Procs, pc'[q] \in {"pack", "write"}
      PROVE  sound'[q] \/ Tainted(dir[q])
  <2>1. CASE q = p
    BY <1>1, <2>1, FetchedIsSound DEF WholeInv, BuildTypeOK
  <2>2. CASE q # p
    BY <1>1, <1>2, <2>2 DEF SoundInv, WholeInv, BuildTypeOK
  <2> QED
    BY <2>1, <2>2
<1>3. ASSUME NEW q \in Procs, pc'[q] \in {"pack", "write"}
      PROVE  (sound[q] \/ Tainted(dir[q]))'
  <2>1. PICK d : d = dir[q] /\ dir'[q] = d
    BY <1>1
  <2>2. sound'[q] \/ Tainted(d)
    BY <1>2, <1>3, <2>1
  <2> QED
    BY <1>1, <2>1, <2>2, TaintStays
<1>4. ASSUME NEW j \in Names, file'[j] = "bad"
      PROVE  Tainted(Owner(j))'
  BY <1>1, <1>4, TaintStays DEF SoundInv
<1> QED
  BY <1>1, <1>3, <1>4 DEF SoundInv

\* The invariant is inductive, given that of the cache.
LEMMA SoundNext == SoundInv /\ CacheInv /\ WholeInv /\ [Next]_vars => SoundInv'
<1> SUFFICES ASSUME SoundInv, CacheInv, WholeInv, [Next]_vars PROVE SoundInv'
  OBVIOUS
<1> USE DEF At, Goto
<1>1. CASE UNCHANGED vars
  BY <1>1, SoundElse DEF vars, dlVars, buildVars
<1>2. ASSUME NEW u \in Urls, Publish(u), UNCHANGED buildVars
      PROVE  SoundInv'
  BY <1>2, SoundElse DEF Publish, buildVars
<1>3. ASSUME NEW p \in Procs, NEW d \in Dirs, NEW c \in BOOLEAN, NEW S, Start(p, d, S, c)
      PROVE  SoundInv'
  BY <1>3, SoundElse DEF Start, Entering, WholeInv, BuildTypeOK
<1>4. ASSUME NEW p \in Procs, Download(p)
      PROVE  SoundInv'
  <2>1. /\ Frame(p, Url(p)) /\ pc[p] \in DlSteps
        /\ UNCHANGED <<kind, dir, file, writing, torn, sound>> /\ disturbed \subseteq disturbed'
    BY <1>4, DownloadSource, WholeNext DEF CacheInv, WholeInv, Frame, Download, buildVars
  <2>2. pc'[p] \notin {"pack", "write"} /\ \A q \in Procs \ {p} : pc'[q] = pc[q]
    <3>1. NextSource(p) => pc'[p] \in {"get", "fetched"}
      BY <2>1, NextSourceMoves DEF CacheInv
    <3> QED
      BY <2>1, <3>1 DEF Frame, DlSteps
  <2> QED
    BY <2>1, <2>2, SoundElse
<1>5. ASSUME NEW p \in Procs, SkipDep(p)
      PROVE  SoundInv'
  BY <1>5, SoundElse DEF SkipDep, dlVars
<1>6. ASSUME NEW p \in Procs, BuildDep(p)
      PROVE  SoundInv'
  BY <1>6, SoundElse DEF BuildDep, Entering, WholeInv, BuildTypeOK
<1>7. ASSUME NEW p \in Procs, PrepareDirs(p)
      PROVE  SoundInv'
  BY <1>7, SoundElse DEF PrepareDirs, buildVars, WholeInv, BuildTypeOK
<1>8. ASSUME NEW p \in Procs, Finish(p)
      PROVE  SoundInv'
  <2>1. PICK step \in {"idle", "deps"} : pc' = [pc EXCEPT ![p] = step]
    BY <1>8 DEF Finish
  <2>2. /\ UNCHANGED <<kind, file, torn, writing, disturbed>>
        /\ sound' = [sound EXCEPT ![p] = FALSE]
    BY <1>8 DEF Finish
  <2>3. \E s : dir' = [dir EXCEPT ![p] = s]
    BY <1>8 DEF Finish
  <2> QED
    BY <2>1, <2>2, <2>3, SoundElse DEF WholeInv, BuildTypeOK
<1>9. ASSUME NEW p \in Procs, Step(p) \/ Abort(p)
      PROVE  SoundInv'
  <2>1. CreateFile(p) \/ WriteFile(p) \/ Execute(p) \/ Abort(p) => SoundInv'
    BY SoundCreateFile, SoundWriteFile, SoundAbort, SoundExecute
  <2> QED
    BY <1>4, <1>5, <1>6, <1>7, <1>8, <1>9, <2>1 DEF Step
<1> HIDE DEF At, Goto
<1> QED
  BY <1>1, <1>2, <1>3, <1>9 DEF Next

\* At first there is no package.
LEMMA SoundInit == Init => SoundInv
BY DEF Init, DlInit, SoundInv

-----------------------------------------------------------------------------
(* The theorems *)

\* Every variable of the builds and of their downloads has its type: among
\* others, a new file always gets an inode of its own.
THEOREM BuildsAreTyped == Spec => []TypeOK
<1>1. CacheInv => TypeOK
  BY DEF CacheInv, SourceInv
<1> QED
  BY <1>1, WholeInit, WholeNext, CacheInit, CacheNext, PTL DEF Spec

\* What has a manifest was verified: whoever else downloads, breaks off or is
\* killed, and however often a URL is published anew, a source that two builds
\* have not been at is never half-downloaded (dl.go 185, 221).
THEOREM CacheIsAlwaysVerified == Spec => []CacheIsVerified
<1>1. CacheInv => CacheIsVerified
  BY DEF CacheInv, UrlInv, Steady, Verified, CacheIsVerified
<1> QED
  BY <1>1, WholeInit, WholeNext, CacheInit, CacheNext, PTL DEF Spec

\* A package under its final name is whole and was built from sources that
\* match their checksums, but for the causes that FilesAreSound names.
THEOREM FilesAreAlwaysSound == Spec => []FilesAreSound
<1>1. SoundInv => FilesAreSound
  BY DEF SoundInv, Tainted, FilesAreSound
<1> QED
  BY <1>1, WholeInit, WholeNext, CacheInit, CacheNext, SoundInit, SoundNext, PTL DEF Spec

=============================================================================
