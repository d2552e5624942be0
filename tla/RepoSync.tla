------------------------------- MODULE RepoSync -------------------------------
(***************************************************************************)
(* Synchronising one package repository (internal/repos/pull.go): a git    *)
(* working copy, its URL and mirrors, and the rows of the package database *)
(* that describe the alr.sh scripts of the commit checked out.             *)
(*                                                                         *)
(* A puller is one call of Repos.Pull for the repository: a CLI process or *)
(* a refresh job of the daemon.  Nothing locks the working copy or the     *)
(* rows against another puller, and no transaction ties them together.     *)
(***************************************************************************)
EXTENDS Naturals, Sequences

CONSTANTS
    Pullers,
    NumURLs,       \* the repository's URL and its mirrors, tried in order
    LastCommit,    \* bound: commits 1..LastCommit are published in order
    Files,         \* paths of the repository
    ScriptPaths,   \* those isValidScriptPath accepts
    RootScript,    \* the path alr.sh
    Pkgs,          \* package names
    Histories,     \* what may be published: commit -> path -> script
    BadToml,       \* commits whose alr-repo.toml does not decode
    MaxFaults,     \* bound: stages of a pull that return an error
    MaxCrashes     \* bound: pullers killed half way

Commits  == 1..LastCommit
URLs     == 1..NumURLs
NoCommit == 0
NoRow    == 0

\* What a path holds: nothing, a script that does not parse, or one that
\* declares packages, each with a version.
ScriptKind == {"absent", "broken", "script"}

ASSUME RepoAssumption ==
    /\ NumURLs \in Nat \ {0}
    /\ LastCommit \in Nat \ {0}
    /\ ScriptPaths \subseteq Files
    /\ RootScript \in ScriptPaths
    /\ BadToml \subseteq Commits
    /\ MaxFaults \in Nat
    /\ MaxCrashes \in Nat
    /\ \A h \in Histories, c \in Commits, f \in Files :
          /\ h[c][f].kind \in ScriptKind
          /\ DOMAIN h[c][f].pkgs \subseteq Pkgs
          /\ h[c][f].kind # "script" => DOMAIN h[c][f].pkgs = {}
          /\ \A x \in DOMAIN h[c][f].pkgs : h[c][f].pkgs[x] \in Nat \ {NoRow}

VARIABLES
    tree,       \* one of Histories, never changed
    upstream,   \* URL -> commit its branch is at
    tracking,   \* refs/remotes/origin/<branch> of the working copy
    head,       \* HEAD of the working copy, NoCommit before a checkout
    db,         \* package -> version of its row, or NoRow
    pc, url, fresh, old, rev, new, result,   \* one per puller
    full,       \* puller -> whether it loads the whole commit or the changes
    todo,       \* puller -> file patches its loop has not begun
    patch,      \* puller -> rest of the file patch it is at
    faults, crashes,
    torn        \* history: a pull ended between its checkout and its last row

repoVars  == <<tree, upstream, tracking, head, db>>
pullVars  == <<pc, url, fresh, old, rev, new, full, todo, patch, result>>
faultVars == <<faults, crashes, torn>>
vars      == <<repoVars, pullVars, faultVars>>

Action == [act : {"load", "delete", "update"}, file : Files]

TypeOK ==
    /\ tree \in Histories
    /\ upstream \in [URLs -> Commits]
    /\ tracking \in Commits \cup {NoCommit}
    /\ head \in Commits \cup {NoCommit}
    /\ db \in [Pkgs -> Nat]
    /\ pc \in [Pullers -> {"idle", "fetch", "inspect", "checkout", "plan",
                           "apply", "finish"}]
    /\ url \in [Pullers -> URLs]
    /\ fresh \in [Pullers -> BOOLEAN]
    /\ full \in [Pullers -> BOOLEAN]
    /\ \A v \in {old, rev, new} : v \in [Pullers -> Commits \cup {NoCommit}]
    /\ todo \in [Pullers -> SUBSET Seq(Action)]
    /\ patch \in [Pullers -> Seq(Action)]
    /\ result \in [Pullers -> {"none", "ok", "error", "killed"}]
    /\ faults \in 0..MaxFaults
    /\ crashes \in 0..MaxCrashes
    /\ torn \in BOOLEAN

\* A repository that was just configured.
Init ==
    /\ tree \in Histories
    /\ upstream = [u \in URLs |-> 1]
    /\ tracking = NoCommit
    /\ head = NoCommit
    /\ db = [x \in Pkgs |-> NoRow]
    /\ pc = [p \in Pullers |-> "idle"]
    /\ url = [p \in Pullers |-> 1]
    /\ fresh = [p \in Pullers |-> FALSE]
    /\ old = [p \in Pullers |-> NoCommit]
    /\ rev = [p \in Pullers |-> NoCommit]
    /\ new = [p \in Pullers |-> NoCommit]
    /\ full = [p \in Pullers |-> FALSE]
    /\ todo = [p \in Pullers |-> {}]
    /\ patch = [p \in Pullers |-> <<>>]
    /\ result = [p \in Pullers |-> "none"]
    /\ faults = 0
    /\ crashes = 0
    /\ torn = FALSE

-----------------------------------------------------------------------------
(* Scripts, rows and patches.  A definition marked "Fault" is no part of     *)
(* Spec: it is the next one with a mistake a run of the model has to notice. *)

Present(c, f)  == tree[c][f].kind # "absent"
Declares(c, f) == DOMAIN tree[c][f].pkgs

\* Fault: a row that exists is not replaced.
InsertMissing(rows, script) ==
    [x \in Pkgs |-> IF x \in DOMAIN script.pkgs /\ rows[x] = NoRow
                    THEN script.pkgs[x] ELSE rows[x]]

\* updatePkg: every package of the script is inserted or its row replaced.
InsertAll(rows, script) ==
    [x \in Pkgs |-> IF x \in DOMAIN script.pkgs THEN script.pkgs[x] ELSE rows[x]]

\* Fault: rows of a deleted script stay.
DeleteNothing(rows, script) == rows

\* DeletePkgs by name, for every package the script declared.
DeleteAll(rows, script) ==
    [x \in Pkgs |-> IF x \in DOMAIN script.pkgs THEN NoRow ELSE rows[x]]

HasRepoPackages == \E x \in Pkgs : db[x] # NoRow

\* processRepoFull reads alr.sh alone when there is one, else every */alr.sh.
Sources(c) ==
    IF Present(c, RootScript) THEN {RootScript}
    ELSE {f \in ScriptPaths : Present(c, f)}

Loads(c) == {<<[act |-> "load", file |-> f]>> : f \in Sources(c)}

\* The library reports a deleted and an added file of like content as one
\* renamed file; here, content is alike when the same packages are declared.
Renames(a, b) ==
    {m \in Files \X Files :
        /\ tree[a][m[1]].kind = "script" /\ ~Present(b, m[1])
        /\ tree[b][m[2]].kind = "script" /\ ~Present(a, m[2])
        /\ Declares(a, m[1]) = Declares(b, m[2])}

\* The actions processRepoChanges derives from the patch between two commits,
\* one sequence for each file patch.  A rename counts when either path does.
Changes(a, b) ==
    LET moved    == Renames(a, b)
        movedOut == {m[1] : m \in moved}
        movedIn  == {m[2] : m \in moved}
    IN  {<<[act |-> "delete", file |-> f]>> :
            f \in {f \in ScriptPaths \ movedOut : Present(a, f) /\ ~Present(b, f)}}
        \cup
        {<<[act |-> "update", file |-> f]>> :
            f \in {f \in ScriptPaths \ movedIn :
                      Present(b, f) /\ tree[a][f] # tree[b][f]}}
        \cup
        {<<[act |-> "delete", file |-> m[1]], [act |-> "update", file |-> m[2]]>> :
            m \in {m \in moved : m[1] \in ScriptPaths \/ m[2] \in ScriptPaths}}

\* What the loop may do next: the file patch it is at, or any other, for the
\* order of the file patches is the library's.
Pending(p) == IF patch[p] # <<>> THEN {patch[p]} ELSE todo[p]

-----------------------------------------------------------------------------
(* The publishers *)

Push ==
    /\ upstream[1] < LastCommit
    /\ upstream' = [upstream EXCEPT ![1] = @ + 1]
    /\ UNCHANGED <<tree, tracking, head, db, pullVars, faultVars>>

\* A mirror catches up when its owner runs the copy.
MirrorSync(u) ==
    /\ u # 1
    /\ upstream[u] # upstream[1]
    /\ upstream' = [upstream EXCEPT ![u] = upstream[1]]
    /\ UNCHANGED <<tree, tracking, head, db, pullVars, faultVars>>

-----------------------------------------------------------------------------
(* One pull *)

\* Fault: one URL too many.
FailOverPastEnd(p) ==
    IF url[p] <= NumURLs
    THEN /\ url' = [url EXCEPT ![p] = @ + 1]
         /\ pc' = [pc EXCEPT ![p] = "fetch"]
         /\ UNCHANGED result
    ELSE /\ pc' = [pc EXCEPT ![p] = "idle"]
         /\ result' = [result EXCEPT ![p] = "error"]
         /\ UNCHANGED url

\* Fault: the same URL is tried again.
FailOverToSame(p) ==
    /\ pc' = [pc EXCEPT ![p] = "fetch"]
    /\ UNCHANGED <<url, result>>

\* pullRepo after an error of pullRepoFromURL: the next mirror, or the error.
FailOver(p) ==
    IF url[p] < NumURLs
    THEN /\ url' = [url EXCEPT ![p] = @ + 1]
         /\ pc' = [pc EXCEPT ![p] = "fetch"]
         /\ UNCHANGED result
    ELSE /\ pc' = [pc EXCEPT ![p] = "idle"]
         /\ result' = [result EXCEPT ![p] = "error"]
         /\ UNCHANGED url

Succeed(p) ==
    /\ pc' = [pc EXCEPT ![p] = "idle"]
    /\ result' = [result EXCEPT ![p] = "ok"]

BeginPull(p) ==
    /\ pc[p] = "idle"
    /\ pc' = [pc EXCEPT ![p] = "fetch"]
    /\ url' = [url EXCEPT ![p] = 1]
    /\ result' = [result EXCEPT ![p] = "none"]
    /\ UNCHANGED <<repoVars, fresh, old, rev, new, full, todo, patch, faultVars>>

\* readGitRepo, FetchContext.  An unreadable HEAD makes a new working copy.
Fetch(p) ==
    /\ pc[p] = "fetch"
    /\ fresh' = [fresh EXCEPT ![p] = (head = NoCommit)]
    /\ tracking' = upstream[url[p]]
    /\ pc' = [pc EXCEPT ![p] = "inspect"]
    /\ UNCHANGED <<tree, upstream, head, db, url, old, rev, new, full, todo, patch,
                   result, faultVars>>

\* resolveHash, Head, HasRepoPackages: nothing to do when HEAD is already
\* at the revision and the repository has any row at all.
Inspect(p) ==
    /\ pc[p] = "inspect"
    /\ rev' = [rev EXCEPT ![p] = tracking]
    /\ old' = [old EXCEPT ![p] = IF fresh[p] THEN NoCommit ELSE head]
    /\ IF ~fresh[p] /\ head = tracking /\ HasRepoPackages
       THEN Succeed(p)
       ELSE /\ pc' = [pc EXCEPT ![p] = "checkout"]
            /\ UNCHANGED result
    /\ UNCHANGED <<repoVars, url, fresh, new, full, todo, patch, faultVars>>

\* w.Checkout, Head: HEAD moves before any row does.
Checkout(p) ==
    /\ pc[p] = "checkout"
    /\ head' = rev[p]
    /\ new' = [new EXCEPT ![p] = rev[p]]
    /\ pc' = [pc EXCEPT ![p] = "plan"]
    /\ UNCHANGED <<tree, upstream, tracking, db, url, fresh, old, rev, full, todo, patch,
                   result, faultVars>>

\* processRepoFull or processRepoChanges up to its loop.
Plan(p) ==
    /\ pc[p] = "plan"
    /\ full' = [full EXCEPT ![p] = ~HasRepoPackages \/ fresh[p]]
    /\ todo' = [todo EXCEPT ![p] = IF full'[p] THEN Loads(head)
                                   ELSE Changes(old[p], new[p])]
    /\ pc' = [pc EXCEPT ![p] = "apply"]
    /\ UNCHANGED <<repoVars, url, fresh, old, rev, new, patch, result, faultVars>>

\* The script an action reads: from the working copy, which another puller
\* may have moved, from the old commit, or from the new one.
ScriptOf(p, a) ==
    CASE a.act = "load"   -> tree[head][a.file]
      [] a.act = "delete" -> tree[old[p]][a.file]
      [] a.act = "update" -> tree[new[p]][a.file]

\* The loop leaves a file patch only when it is done with it.
Take(p, s) ==
    /\ patch' = [patch EXCEPT ![p] = Tail(s)]
    /\ todo' = [todo EXCEPT ![p] = IF patch[p] # <<>> THEN @ ELSE @ \ {s}]

Apply(p) ==
    /\ pc[p] = "apply"
    /\ \E s \in Pending(p) :
          LET a == Head(s)
          IN  /\ ScriptOf(p, a).kind = "script"
              /\ db' = IF a.act = "delete" THEN DeleteAll(db, ScriptOf(p, a))
                       ELSE InsertAll(db, ScriptOf(p, a))
              /\ Take(p, s)
    /\ UNCHANGED <<tree, upstream, tracking, head, pc, url, fresh, old, rev, new, full,
                   result, faultVars>>

\* What is left to do is forgotten with the call.
Forget(p) ==
    /\ todo' = [todo EXCEPT ![p] = {}]
    /\ patch' = [patch EXCEPT ![p] = <<>>]

\* A pull that is cut short in the stage it is at.  Rows that were written
\* stay; a checkout may leave HEAD where it was, moved, or unreadable.
CutShort(p) ==
    /\ head' \in IF pc[p] = "checkout" THEN {head, rev[p], NoCommit} ELSE {head}
    /\ torn' = \/ torn
               \/ HasRepoPackages
                  /\ (pc[p] \in {"plan", "apply"} \/ head' # head)
    /\ Forget(p)
    /\ UNCHANGED <<tree, upstream, tracking, db, fresh, old, rev, new, full>>

\* The fetch, git or the database returns an error, in whatever stage.
StageFails(p) ==
    /\ pc[p] # "idle"
    /\ faults < MaxFaults
    /\ faults' = faults + 1
    /\ CutShort(p)
    /\ FailOver(p)
    /\ UNCHANGED crashes

\* A script that does not parse, or that is gone, ends the loop.
ApplyFails(p) ==
    /\ pc[p] = "apply"
    /\ \E s \in Pending(p) : ScriptOf(p, Head(s)).kind # "script"
    /\ CutShort(p)
    /\ FailOver(p)
    /\ UNCHANGED <<faults, crashes>>

LoopEnds(p) ==
    /\ pc[p] = "apply"
    /\ Pending(p) = {}
    /\ pc' = [pc EXCEPT ![p] = "finish"]
    /\ UNCHANGED <<repoVars, url, fresh, old, rev, new, full, todo, patch, result,
                   faultVars>>

\* alr-repo.toml of the working copy is read last.
ReadToml(p) ==
    /\ pc[p] = "finish"
    /\ IF head \in BadToml THEN FailOver(p)
       ELSE Succeed(p) /\ UNCHANGED url
    /\ UNCHANGED <<repoVars, fresh, old, rev, new, full, todo, patch, faultVars>>

\* The process is killed.
Crash(p) ==
    /\ pc[p] # "idle"
    /\ crashes < MaxCrashes
    /\ crashes' = crashes + 1
    /\ CutShort(p)
    /\ pc' = [pc EXCEPT ![p] = "idle"]
    /\ result' = [result EXCEPT ![p] = "killed"]
    /\ UNCHANGED <<url, faults>>

-----------------------------------------------------------------------------
PullStep(p) ==
    \/ Fetch(p) \/ Inspect(p) \/ Checkout(p) \/ Plan(p)
    \/ Apply(p) \/ ApplyFails(p) \/ LoopEnds(p) \/ ReadToml(p) \/ StageFails(p)

Next ==
    \/ \E p \in Pullers : BeginPull(p) \/ PullStep(p) \/ Crash(p)
    \/ \E u \in URLs : MirrorSync(u)
    \/ Push

\* A pull that was started is run to its end; nobody need start one.
Fairness == \A p \in Pullers : WF_vars(PullStep(p))

Spec == Init /\ [][Next]_vars /\ Fairness
-----------------------------------------------------------------------------
(* Properties *)

\* What the database should hold for a commit: the packages its scripts
\* declare and no others.
Index(c) ==
    [x \in Pkgs |->
        IF \E f \in Sources(c) : x \in Declares(c, f)
        THEN tree[c][CHOOSE f \in Sources(c) : x \in Declares(c, f)].pkgs[x]
        ELSE NoRow]

\* A history in which scripts come, change and go, but the packages of a
\* script stay the same and belong to one script at a time: to another one
\* only after a rename.  alr.sh at the root is the only script there is.
IsSteady(h) ==
    /\ \A c, d \in Commits, f \in ScriptPaths :
          h[c][f].kind = "script" /\ h[d][f].kind = "script"
             => DOMAIN h[c][f].pkgs = DOMAIN h[d][f].pkgs
    /\ \A c, d \in Commits, f, g \in ScriptPaths :
          f # g /\ DOMAIN h[c][f].pkgs \cap DOMAIN h[d][g].pkgs # {}
             => /\ h[d][f].kind = "absent"
                /\ h[c][g].kind = "absent"
                /\ DOMAIN h[c][f].pkgs = DOMAIN h[d][g].pkgs
    /\ \A c, d \in Commits, f \in ScriptPaths, g \in Files \ ScriptPaths :
          DOMAIN h[c][f].pkgs = DOMAIN h[d][g].pkgs => DOMAIN h[c][f].pkgs = {}
    /\ \A c \in Commits :
          h[c][RootScript].kind # "absent" =>
             \A f \in ScriptPaths \ {RootScript} : h[c][f].kind = "absent"

Quiet == \A p \in Pullers : pc[p] = "idle"

\* Unless a pull was cut short between its checkout and its last row, the
\* rows are those of the commit checked out, however often a lagging mirror
\* took the working copy back (pull.go 90-113, 220-248).
SyncedUnlessTorn ==
    Quiet /\ ~torn =>
        /\ HasRepoPackages => head # NoCommit /\ db = Index(head)
        /\ (\E p \in Pullers : result[p] = "ok")
              => head # NoCommit /\ db = Index(head)

\* Whatever was torn before, the loop of a pull leaves nothing behind that it
\* was for.  One over the whole commit has loaded every script of it, and when
\* it ran because there was no row at all, the rows are the commit's.  One over
\* the changes has set right every package of a script that changed, so that
\* what only a deleted script declared has no row (pull.go 353-479, 490-593).
AppliedIsRight ==
    \A p \in Pullers : pc[p] = "finish" =>
        IF full[p]
        THEN /\ \A f \in Sources(head) : \A x \in Declares(head, f) :
                   db[x] = tree[head][f].pkgs[x]
             /\ ~fresh[p] => db = Index(head)
        ELSE \A f \in ScriptPaths : tree[old[p]][f] # tree[new[p]][f] =>
                \A x \in Declares(old[p], f) \cup Declares(new[p], f) :
                   db[x] = Index(new[p])[x]

\* A pull ends: with a result, or with the error of the last mirror.
PullEnds == \A p \in Pullers : pc[p] = "fetch" ~> pc[p] = "idle"

\* Pull writes the packages of a repository to the database, or processes
\* the changed ones (pull.go 62-65): once it returned no error and nobody
\* else is at work, the rows are those of the commit checked out.
SyncedOnSuccess ==
    Quiet /\ (\E p \in Pullers : result[p] = "ok")
          /\ (\A p \in Pullers : result[p] \in {"none", "ok"})
       => db = Index(head)
=============================================================================
