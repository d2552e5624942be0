----------------------------- MODULE InstallPkgs -----------------------------
(***************************************************************************)
(* Builder.InstallPkgs (internal/build/build.go): resolve the requested    *)
(* packages, ask, install the system dependencies, build or take from the  *)
(* cache every package in the tree's order, install each dependency as it  *)
(* is ready and the targets at the end, and offer to remove what was only  *)
(* needed to build.                                                        *)
(*                                                                         *)
(* The system's package manager, the build of one script and the user are  *)
(* the environment: each of their answers is a choice.  Packages have no   *)
(* optional dependencies and scripts declare one package here.  A          *)
(* definition marked "Fault" is no part of Spec: it is the next one with a *)
(* mistake that a run of the model has to notice.                          *)
(***************************************************************************)
EXTENDS DependencyTree

CONSTANTS
    Before,   \* sets of packages that may be installed beforehand
    Cached    \* sets of packages that may have been built beforehand

ASSUME InstallAssumption ==
    /\ \A S \in Before : S \subseteq Names \cup System
    /\ \A S \in Cached : S \subseteq Names

VARIABLES
    interactive, \* the option of the call, never changed
    had,         \* one of Before, never changed
    pc,
    confirmed,   \* userConfirmed, passed on as the manager's NoConfirm
    queue,       \* allPackages still to be done
    installed,   \* what the system has, in the version of the repositories
    cache,       \* packages with a file in the build directory
    built,       \* history: packages this call has built
    deferred,    \* targetDeps
    buildDeps,   \* installedBuildDeps
    asked,       \* history: the manager was run and could ask
    removed      \* what the last step removed

callVars  == <<interactive, had, pc, confirmed, queue, installed, cache,
               built, deferred, buildDeps, asked, removed>>
givenVars == <<treeVars, interactive, had>>
vars      == <<treeVars, callVars>>

Ended == {"ok", "error", "cancelled"}
Steps == {"resolve", "confirm", "system", "scripts", "loop", "install",
          "targets", "cleanup"}

TypeOK ==
    /\ TreeTypeOK
    /\ interactive \in BOOLEAN
    /\ had \in Before
    /\ pc \in Steps \cup Ended
    /\ confirmed \in BOOLEAN
    /\ queue \in Seq(Names \cup System)
    /\ installed \subseteq Names \cup System
    /\ cache \subseteq Names
    /\ built \subseteq cache
    /\ deferred \subseteq Range(targets)
    /\ buildDeps \subseteq Names \cup System
    /\ asked \in BOOLEAN
    /\ removed \subseteq buildDeps

Init ==
    /\ TreeInit
    /\ interactive \in BOOLEAN
    /\ had \in Before
    /\ pc = "resolve"
    /\ confirmed = FALSE
    /\ queue = <<>>
    /\ installed = had
    /\ cache \in Cached
    /\ built = {}
    /\ deferred = {}
    /\ buildDeps = {}
    /\ asked = FALSE
    /\ removed = {}

IsTarget(n) == n \in Range(targets)
Current     == Head(queue)
Goto(step)  == pc' = step

\* A run of the package manager: without NoConfirm it may ask.
RunManager == asked' = (asked \/ ~confirmed)

-----------------------------------------------------------------------------
(* Step 1: the tree *)

Resolve ==
    /\ pc = "resolve"
    /\ TreeNext
    /\ UNCHANGED callVars

\* A query of the database fails.
ResolveFails ==
    /\ pc = "resolve"
    /\ ~Resolved
    /\ Goto("error")
    /\ UNCHANGED <<givenVars, confirmed, queue, installed, cache,
                   built, deferred, buildDeps, asked, removed>>

\* Where a target is named for the first time.
FirstNamed == {i \in 1..Len(targets) : \A j \in 1..Len(targets) :
                                          j < i => targets[j] # targets[i]}

\* allPackages: the tree's order, then the targets, each once.
Plan ==
    /\ pc = "resolve"
    /\ Resolved
    /\ queue' = AllALRPackages \o Extract(targets, FirstNamed)
    /\ Goto("confirm")
    /\ UNCHANGED <<givenVars, confirmed, installed, cache, built,
                   deferred, buildDeps, asked, removed>>

\* Fault: the question comes after the system dependencies.
ConfirmLate ==
    /\ pc = "confirm"
    /\ Goto("system")
    /\ UNCHANGED <<givenVars, confirmed, queue, installed, cache,
                   built, deferred, buildDeps, asked, removed>>

\* The summary, and one question unless the call is not interactive.
Confirm ==
    /\ pc = "confirm"
    /\ \/ interactive /\ confirmed' = TRUE /\ Goto("system")
       \/ interactive /\ UNCHANGED confirmed /\ Goto("cancelled")
       \/ ~interactive /\ UNCHANGED confirmed /\ Goto("system")
    /\ UNCHANGED <<givenVars, queue, installed, cache, built,
                   deferred, buildDeps, asked, removed>>

-----------------------------------------------------------------------------
(* Steps 2 and 4: system dependencies, scripts *)

InstallSystemDeps ==
    /\ pc = "system"
    /\ IF systemDeps = {}
       THEN Goto("scripts") /\ UNCHANGED <<installed, asked>>
       ELSE /\ RunManager
            /\ \/ Goto("scripts") /\ installed' = installed \cup systemDeps
               \/ Goto("error") /\ UNCHANGED installed
    /\ UNCHANGED <<givenVars, confirmed, queue, cache, built,
                   deferred, buildDeps, removed>>

\* The user reads the scripts and may yet turn back; the system
\* dependencies stay.
ViewScripts ==
    /\ pc = "scripts"
    /\ \/ Goto("loop")
       \/ interactive /\ Range(queue) \cap visited # {} /\ Goto("error")
    /\ UNCHANGED <<givenVars, confirmed, queue, installed, cache,
                   built, deferred, buildDeps, asked, removed>>

-----------------------------------------------------------------------------
(* Step 5: one iteration of the loop over allPackages *)

Advance(step) == queue' = Tail(queue) /\ Goto(step)

\* A target only the system's manager knows has no node; a dependency that
\* FilterPackagesByVersion finds installed is not built again.
SkipPackage ==
    /\ pc = "loop"
    /\ queue # <<>>
    /\ \/ Current \notin visited
       \/ Current \in installed /\ ~IsTarget(Current)
    /\ Advance("loop")
    /\ UNCHANGED <<givenVars, confirmed, installed, cache, built,
                   deferred, buildDeps, asked, removed>>

\* What is to be done for the current package.
Due == /\ pc = "loop"
       /\ queue # <<>>
       /\ Current \in visited
       /\ IsTarget(Current) \/ Current \notin installed

\* checkCacheForAllSubpackages does not look at the clean option.
UseCached ==
    /\ Due
    /\ Current \in cache
    /\ IF IsTarget(Current)
       THEN /\ deferred' = deferred \cup {Current}
            /\ Advance("loop")
            /\ UNCHANGED <<installed, asked>>
       ELSE /\ UNCHANGED deferred
            /\ RunManager
            /\ \/ installed' = installed \cup {Current} /\ Advance("loop")
               \/ UNCHANGED <<installed, queue>> /\ Goto("error")
    /\ UNCHANGED <<givenVars, confirmed, cache, built, buildDeps,
                   removed>>

\* Fault: dependencies are put off like targets.
BuildDeferring ==
    /\ Due
    /\ Current \notin cache
    /\ cache' = cache \cup {Current}
    /\ built' = built \cup {Current}
    /\ buildDeps' = buildDeps \cup world.build[Current]
    /\ deferred' = deferred \cup {Current}
    /\ Advance("loop")
    /\ UNCHANGED <<givenVars, confirmed, installed, asked, removed>>

\* BuildPackageFromDb with SkipDepsBuilding and SkipBuildDeps.
Build ==
    /\ Due
    /\ Current \notin cache
    /\ cache' = cache \cup {Current}
    /\ built' = built \cup {Current}
    /\ buildDeps' = buildDeps \cup world.build[Current]
    /\ IF IsTarget(Current)
       THEN /\ deferred' = deferred \cup {Current}
            /\ Advance("loop")
       ELSE /\ UNCHANGED <<deferred, queue>>
            /\ Goto("install")
    /\ UNCHANGED <<givenVars, confirmed, installed, asked, removed>>

\* The installed packages cannot be listed, or the build fails.
PackageFails ==
    /\ pc = "loop"
    /\ queue # <<>>
    /\ Current \in visited
    /\ Goto("error")
    /\ UNCHANGED <<givenVars, confirmed, queue, installed, cache,
                   built, deferred, buildDeps, asked, removed>>

\* The dependency just built is installed for those that follow.
InstallBuilt ==
    /\ pc = "install"
    /\ RunManager
    /\ \/ installed' = installed \cup {Current} /\ Advance("loop")
       \/ UNCHANGED <<installed, queue>> /\ Goto("error")
    /\ UNCHANGED <<givenVars, confirmed, cache, built, deferred,
                   buildDeps, removed>>

LoopEnds ==
    /\ pc = "loop"
    /\ queue = <<>>
    /\ Goto("targets")
    /\ UNCHANGED <<givenVars, confirmed, queue, installed, cache,
                   built, deferred, buildDeps, asked, removed>>

-----------------------------------------------------------------------------
(* Steps 6 and 7: the targets, the build dependencies *)

\* Fault: the result of installing the targets is not looked at.
InstallTargetsBlindly ==
    /\ pc = "targets"
    /\ RunManager
    /\ installed' \in {installed, installed \cup deferred}
    /\ Goto("cleanup")
    /\ UNCHANGED <<givenVars, confirmed, queue, cache, built,
                   deferred, buildDeps, removed>>

InstallTargets ==
    /\ pc = "targets"
    /\ IF deferred = {}
       THEN Goto("cleanup") /\ UNCHANGED <<installed, asked>>
       ELSE /\ RunManager
            /\ \/ Goto("cleanup") /\ installed' = installed \cup deferred
               \/ Goto("error") /\ UNCHANGED installed
    /\ UNCHANGED <<givenVars, confirmed, queue, cache, built,
                   deferred, buildDeps, removed>>

\* The user may have the build dependencies removed, or break off; the
\* default is not to remove them.  A failing removal is only logged.
Cleanup ==
    /\ pc = "cleanup"
    /\ \/ Goto("ok") /\ UNCHANGED <<asked, removed>>
       \/ /\ interactive /\ buildDeps # {}
          /\ \/ Goto("error") /\ UNCHANGED <<asked, removed>>
             \/ Goto("ok") /\ asked' = TRUE /\ removed' \in {{}, buildDeps}
    /\ installed' = installed \ removed'
    /\ UNCHANGED <<givenVars, confirmed, queue, cache, built,
                   deferred, buildDeps>>

-----------------------------------------------------------------------------
Next ==
    \/ Resolve \/ ResolveFails \/ Plan \/ Confirm
    \/ InstallSystemDeps \/ ViewScripts
    \/ SkipPackage \/ UseCached \/ Build \/ PackageFails \/ InstallBuilt \/ LoopEnds
    \/ InstallTargets \/ Cleanup

Spec == Init /\ [][Next]_vars

-----------------------------------------------------------------------------
(* Properties *)

\* An interactive call that was not confirmed changes nothing on the system,
\* and one that was installs without the package manager asking again; only
\* the removal at the end may ask (build.go 920-964, 974, 1110, 1131).
NothingBeforeConsent ==
    interactive =>
        /\ ~confirmed => installed = had /\ built = {}
        /\ pc # "ok" => ~asked

\* Whatever is built has its dependencies in place, build and runtime, except
\* targets, which are installed at the end, and those it is needed by
\* (build.go 1015, 1109).
DepsReady ==
    [][\A n \in built' \ built : \A d \in Requires(n) :
          d \in installed \/ IsTarget(d) \/ Needs(d, n)]_vars

\* A call that succeeds leaves the targets and all they need installed, save
\* what the user had removed at the end (build.go 1125-1159).
SuccessInstallsAll ==
    pc = "ok" => (visited \cup systemDeps) \ removed \subseteq installed
=============================================================================
