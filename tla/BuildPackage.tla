---------------------------- MODULE BuildPackage ----------------------------
(***************************************************************************)
(* Builder.BuildPackage with BuildALRDeps (internal/build/build.go) and    *)
(* the script executor (script_executor.go): take from the build directory *)
(* what is there, build the dependencies, clear the source directory, get  *)
(* the sources, run the script's functions, and write one package file for *)
(* each package of the script that was missing.                            *)
(*                                                                         *)
(* Several processes build at once and any of them may be killed.  What    *)
(* the script does and what the package manager has installed is the       *)
(* environment's choice.  A call that ends before it changes anything -    *)
(* nothing missing, a script that does not parse, an architecture the user *)
(* declines - is no step.                                                  *)
(***************************************************************************)
EXTENDS Downloads

CONSTANTS
    Names,      \* packages
    Pkgs,       \* [Dirs -> SUBSET Names]: what each script declares
    DepPkgs,    \* [Dirs -> SUBSET Seq(Names)]: AllALRPackages for its
                \* dependencies, which are those of the missing packages
    NoName,
    MayEdit,    \* may a script write to its sources in place?
    MaxBuilds   \* bound: calls of BuildPackage from outside

ASSUME BuildAssumption ==
    /\ NoName \notin Names
    /\ Pkgs \in [Dirs -> SUBSET Names]
    /\ \A k \in Names : \E d \in Dirs : k \in Pkgs[d]
    /\ \A c, d \in Dirs : c # d => Pkgs[c] \cap Pkgs[d] = {}
    /\ DepPkgs \in [Dirs -> SUBSET Seq(Names)]
    /\ MayEdit \in BOOLEAN
    /\ MaxBuilds \in Nat

VARIABLES
    file,      \* package files under their final names
    rest,      \* packages the current build has yet to write
    left,      \* dependencies it has yet to look at
    waiting,   \* outer builds, innermost last
    clean,     \* the option of the call
    writing,   \* the package whose file is open
    sound,     \* what was executed had the right sources
    torn,      \* history: files a failure or a crash has left half-written
    builds     \* calls so far

buildVars == <<builds, file, rest, left, waiting, clean, writing, sound, torn>>
vars      == <<dlVars, buildVars>>

Owner(k) == CHOOSE d \in Dirs : k \in Pkgs[d]
Outer    == [dir : Dirs, rest : SUBSET Names, left : Seq(Names)]

TypeOK ==
    /\ DlTypeOK
    /\ pc \in [Procs -> DlSteps \cup {"idle", "deps", "fetched", "pack", "write", "failed"}]
    /\ file \in [Names -> {"none", "partial", "good", "bad"}]
    /\ rest \in [Procs -> SUBSET Names]
    /\ left \in [Procs -> Seq(Names)]
    /\ waiting \in [Procs -> Seq(Outer)]
    /\ clean \in [Procs -> BOOLEAN]
    /\ writing \in [Procs -> Names \cup {NoName}]
    /\ sound \in [Procs -> BOOLEAN]
    /\ torn \subseteq Names
    /\ builds \in 0..MaxBuilds

Init ==
    /\ DlInit
    /\ file = [k \in Names |-> "none"]
    /\ rest = [p \in Procs |-> {}]
    /\ left = [p \in Procs |-> <<>>]
    /\ waiting = [p \in Procs |-> <<>>]
    /\ clean = [p \in Procs |-> FALSE]
    /\ writing = [p \in Procs |-> NoName]
    /\ sound = [p \in Procs |-> FALSE]
    /\ torn = {}
    /\ builds = 0

\* A process is in a build of this directory, or waits in one.
Builds(p, d) ==
    /\ pc[p] # "idle"
    /\ dir[p] = d \/ \E i \in DOMAIN waiting[p] : waiting[p][i].dir = d

\* A process may come back to the directory it waits in.
Entering(d) == disturbed' = disturbed \cup {c \in {d} : \E q \in Procs : Builds(q, c)}

-----------------------------------------------------------------------------
(* What is to be built *)

\* Fault: the build directory is not looked at.
MissingAll(S, c) == S

\* CheckForBuiltPackage looks for the name of the file, not into it.
Missing(S, c) == IF c THEN S ELSE {k \in S : file[k] = "none"}

Start(p, d, S, c) ==
    /\ At(p, "idle")
    /\ builds < MaxBuilds
    /\ builds' = builds + 1
    /\ S \subseteq Pkgs[d]
    /\ Missing(S, c) # {}
    /\ Goto(p, "deps")
    /\ dir' = [dir EXCEPT ![p] = d]
    /\ clean' = [clean EXCEPT ![p] = c]
    /\ rest' = [rest EXCEPT ![p] = Missing(S, c)]
    /\ \E list \in DepPkgs[d] : left' = [left EXCEPT ![p] = list]
    /\ Entering(d)
    /\ UNCHANGED <<kind, upstream, fileVars, todo, hand,
                   file, waiting, writing, sound, torn>>

\* One package of BuildALRDeps: installed already, or cached.  The packages of
\* the script itself are left out only where it names them.
SkipDep(p) ==
    /\ At(p, "deps")
    /\ left[p] # <<>>
    /\ left' = [left EXCEPT ![p] = Tail(@)]
    /\ UNCHANGED <<dlVars, builds, file, rest, waiting, clean, writing, sound, torn>>

\* ... or built before the build goes on.  It leaves out what it needs to run,
\* but what it needs to be built is installed first, and that is built with
\* neither (BuildALRDeps, installBuildDeps and InstallPkgs).
BuildDep(p) ==
    /\ At(p, "deps")
    /\ left[p] # <<>>
    /\ LET k == Head(left[p])
       IN /\ file[k] = "none"
          /\ waiting' = [waiting EXCEPT ![p] =
                Append(@, [dir |-> dir[p], rest |-> rest[p], left |-> Tail(left[p])])]
          /\ dir' = [dir EXCEPT ![p] = Owner(k)]
          /\ rest' = [rest EXCEPT ![p] = {k}]
          /\ \E list \in DepPkgs[Owner(k)] \cup {<<>>} :
                /\ waiting[p] # <<>> => list = <<>>
                /\ left' = [left EXCEPT ![p] = list]
          /\ Entering(Owner(k))
    /\ UNCHANGED <<kind, upstream, fileVars, pc, todo, hand,
                   builds, file, clean, writing, sound, torn>>

-----------------------------------------------------------------------------
(* One build *)

\* Fault: the links of an earlier build are left.
PrepareNothing(p) ==
    /\ At(p, "deps")
    /\ left[p] = <<>>
    /\ UNCHANGED <<kind, upstream, cache, src, data, dir, hand, disturbed, buildVars>>
    /\ todo' = [todo EXCEPT ![p] = Sources[dir[p]]]
    /\ Goto(p, IF Sources[dir[p]] = <<>> THEN "fetched" ELSE "get")

\* prepareDirs: that the old sources cannot be removed is only logged.
PrepareDirs(p) ==
    /\ At(p, "deps")
    /\ left[p] = <<>>
    /\ UNCHANGED <<kind, upstream, cache, dir, hand, buildVars>>
    /\ todo' = [todo EXCEPT ![p] = Sources[dir[p]]]
    /\ Goto(p, IF Sources[dir[p]] = <<>> THEN "fetched" ELSE "get")
    /\ \/ /\ src' = [src EXCEPT ![dir[p]] = [u \in Urls |-> NoInode]]
          /\ UNCHANGED disturbed
       \/ /\ \E u \in Urls : src[dir[p]][u] # NoInode
          /\ UNCHANGED src
          /\ disturbed' = disturbed \cup {u \in Urls : src[dir[p]][u] # NoInode}
    /\ Holding(data)

Download(p) == DlStep(p) /\ UNCHANGED buildVars

HasSources(d) ==
    \A u \in Range(Sources[d]) : src[d][u] # NoInode /\ Matches(d, u, data[src[d][u]])

\* prepare() and build(); a script may write to one of its sources in place.
Execute(p) ==
    /\ At(p, "fetched")
    /\ UNCHANGED <<kind, upstream, cache, src, dir, todo, hand,
                   builds, file, rest, left, waiting, clean, writing, torn>>
    /\ sound' = [sound EXCEPT ![p] = HasSources(dir[p])]
    /\ \/ Goto(p, "pack") /\ UNCHANGED <<data, disturbed>>
       \/ \E u \in Range(Sources[dir[p]]) :
             /\ MayEdit
             /\ src[dir[p]][u] # NoInode
             /\ Goto(p, "pack")
             /\ data' = [data EXCEPT ![src[dir[p]][u]] = "edited"]
             /\ disturbed' = disturbed \cup {u}

\* The file is created under its final name ...
CreateFile(p) ==
    /\ At(p, "pack")
    /\ \E k \in rest[p] : /\ writing' = [writing EXCEPT ![p] = k]
                          /\ file' = [file EXCEPT ![k] = "partial"]
    /\ Goto(p, "write")
    /\ UNCHANGED <<builds, kind, upstream, fileVars, dir, todo, hand, disturbed,
                   rest, left, waiting, clean, sound, torn>>

\* ... and then written.
WriteFile(p) ==
    /\ At(p, "write")
    /\ file' = [file EXCEPT ![writing[p]] = IF sound[p] THEN "good" ELSE "bad"]
    /\ rest' = [rest EXCEPT ![p] = @ \ {writing[p]}]
    /\ torn' = torn \ {writing[p]}
    /\ writing' = [writing EXCEPT ![p] = NoName]
    /\ Goto(p, "pack")
    /\ UNCHANGED <<builds, kind, upstream, fileVars, dir, todo, hand, disturbed,
                   left, waiting, clean, sound>>

\* The build is done, or the outer one goes on with what it had found out
\* before.
Finish(p) ==
    /\ At(p, "pack")
    /\ rest[p] = {}
    /\ IF waiting[p] = <<>>
       THEN /\ Goto(p, "idle")
            /\ dir' = [dir EXCEPT ![p] = NoDir]
            /\ UNCHANGED <<rest, left, waiting>>
       ELSE /\ Goto(p, "deps")
            /\ dir' = [dir EXCEPT ![p] = Last(waiting[p]).dir]
            /\ rest' = [rest EXCEPT ![p] = Last(waiting[p]).rest]
            /\ left' = [left EXCEPT ![p] = Last(waiting[p]).left]
            /\ waiting' = [waiting EXCEPT ![p] = Front(@)]
    /\ sound' = [sound EXCEPT ![p] = FALSE]
    /\ clean' = [clean EXCEPT ![p] = @ /\ waiting[p] # <<>>]
    /\ UNCHANGED <<kind, upstream, fileVars, todo, hand, disturbed,
                   builds, file, writing, torn>>

\* Fault: a file is noted although none is open.
TornAlways(p) == {writing[p]}

TornBy(p) == {writing[p]} \ {NoName}

\* An error in any of the steps ends the call; so does the end of the
\* process.  A file that is open is left as it is.
Abort(p) ==
    /\ pc[p] # "idle"
    /\ UNCHANGED <<builds, kind, upstream, cache, src, disturbed, file>>
    /\ Goto(p, "idle")
    /\ dir' = [dir EXCEPT ![p] = NoDir]
    /\ clean' = [clean EXCEPT ![p] = FALSE]
    /\ todo' = [todo EXCEPT ![p] = <<>>]
    /\ hand' = [hand EXCEPT ![p] = NoInode]
    /\ rest' = [rest EXCEPT ![p] = {}]
    /\ left' = [left EXCEPT ![p] = <<>>]
    /\ waiting' = [waiting EXCEPT ![p] = <<>>]
    /\ writing' = [writing EXCEPT ![p] = NoName]
    /\ sound' = [sound EXCEPT ![p] = FALSE]
    /\ torn' = torn \cup TornBy(p)
    /\ Holding(data)

-----------------------------------------------------------------------------
Step(p) ==
    \/ SkipDep(p) \/ BuildDep(p) \/ PrepareDirs(p) \/ Download(p) \/ Execute(p)
    \/ CreateFile(p) \/ WriteFile(p) \/ Finish(p)

Next ==
    \/ \E u \in Urls : Publish(u) /\ UNCHANGED buildVars
    \/ \E p \in Procs, d \in Dirs, c \in BOOLEAN : \E S \in SUBSET Pkgs[d] : Start(p, d, S, c)
    \/ \E p \in Procs : Step(p) \/ Abort(p)

Spec == Init /\ [][Next]_vars

-----------------------------------------------------------------------------
(* Properties *)

\* What can be wrong with a source or with a build.  Builds that overlap in a
\* directory truncate the sources they share with the cache, and so does a
\* script that names one URL in two spellings (dl.go 310).
Repeated(d, u) == \E i, j \in DOMAIN Sources[d] : i # j /\ Sources[d][i] = u /\ Sources[d][j] = u
Spoilt(u) ==
    \/ u \in disturbed
    \/ \E d \in Dirs : u \in Range(Sources[d]) /\ (d \in disturbed \/ Repeated(d, u))
Disturbed(d) == d \in disturbed \/ \E u \in Range(Sources[d]) : Spoilt(u)
Moving(d)    == \E u \in Range(Sources[d]) : kind[u] = "git"

\* Scripts that want different contents of a URL share its place in the cache.
Disputed(u) ==
    \E c, d \in Dirs : u \in Range(Sources[c]) \cap Range(Sources[d]) /\ Want[c][u] # Want[d][u]

\* A package file under its final name is whole and was built from sources
\* that match their checksums - unless it was torn, or its sources were
\* disturbed, or one is a branch of a repository, or is in the cache for
\* another script with another checksum (script_executor.go 195, cache.go 50,
\* dl.go 164).
FilesAreSound ==
    \A k \in Names :
        /\ file[k] = "bad" =>
              \/ Disturbed(Owner(k)) \/ Moving(Owner(k))
              \/ \E u \in Range(Sources[Owner(k)]) : Disputed(u)
        /\ file[k] = "partial" => k \in torn \/ \E p \in Procs : writing[p] = k

\* What has a manifest was verified for one of the scripts that name it: a
\* download that broke off or did not match is never taken for a complete one,
\* whenever a process was killed (dl.go 232, 184).
CacheIsVerified ==
    \A u \in Urls :
        cache[u].manifest /\ ~Spoilt(u) /\ kind[u] # "git" =>
            /\ cache[u].ino # NoInode
            /\ \E d \in Dirs : u \in Range(Sources[d]) /\ Matches(d, u, data[cache[u].ino])

\* A whole package file is not touched again, except by --clean or by builds
\* that overlap: the names checked at the beginning are still missing when
\* the files are written (build.go 305, script_executor.go 195).
WholeStaysWhole ==
    [][\A k \in Names :
          file[k] = "good" /\ file'[k] # "good" =>
              \/ \E p \in Procs : clean[p] /\ writing'[p] = k
              \/ Owner(k) \in disturbed]_vars
=============================================================================
