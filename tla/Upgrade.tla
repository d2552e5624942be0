-------------------------------- MODULE Upgrade --------------------------------
(***************************************************************************)
(* `alr upgrade`, `alr install` and `alr remove` with versions (upgrade.go, *)
(* install.go): which row of the database a name or an installed package   *)
(* leads to, which version is taken for newer, which file is built or found *)
(* in the cache, and what is then installed.  InstallPkgs has the order,   *)
(* the questions and the failures of the same call; here dependencies are  *)
(* taken in any order.                                                     *)
(*                                                                         *)
(* Other processes pull, install and remove meanwhile.  Queries return rows *)
(* in the order of Packages.  A definition marked "Fault" is no part of    *)
(* Spec: it is the next one with a mistake that the run has to notice.     *)
(***************************************************************************)
EXTENDS Naturals, Sequences, Functions

CONSTANTS
    Packages,    \* sequence
    About,       \* [name, repo, base, provides, depends] of each package
    NamesWith,   \* for a name the names it is part of, itself included
    NoName,      \* no repository in a request, no base name in a package
    Versions,    \* set of [epoch, ver, rel]
    NoVersion,
    Requests,    \* sets of requests for `install`
    Offers,      \* sets of requests the system's manager may list as they are
                 \* written and is to be preferred for (preferALRDeps)
    Worlds,      \* states of [rows, installed] to begin with
    MaxCalls,    \* bound: commands run
    MaxEvents    \* bound: what other processes do

Pkgs == Range(Packages)

\* A request, as the user or a script writes it: name, name+repo or
\* repo/name, each perhaps with an operator and a version.
UpdateAsk(p) ==
    [name |-> About[p].name, repo |-> About[p].repo, op |-> "none", ver |-> 0]
Asks == (UNION Requests) \cup (UNION {About[p].depends : p \in Pkgs})
            \cup {UpdateAsk(p) : p \in Pkgs}

ASSUME UpgradeAssumption ==
    /\ Packages \in Seq(Pkgs)
    /\ \A p, q \in Pkgs : UpdateAsk(p) = UpdateAsk(q) => p = q
    /\ \A p \in Pkgs : About[p].repo # NoName
    /\ \A p \in Pkgs : About[p].name \in NamesWith[About[p].name]
    /\ \A v \in Versions : v \in [epoch : Nat, ver : Nat, rel : Nat]
    /\ NoVersion \notin Versions
    /\ \A a \in Asks : a.op \in {"none", ">", ">=", "=", "<=", "<"}
    /\ Offers \subseteq SUBSET Asks
    /\ Worlds \subseteq [rows      : [Pkgs -> Versions \cup {NoVersion}],
                         installed : [Pkgs -> Versions \cup {NoVersion}]]
    /\ MaxCalls \in Nat /\ MaxEvents \in Nat

VARIABLES
    rows,       \* the database
    scripts,    \* the working copies
    files,      \* built packages in the build directory
    installed,
    \* the command
    pc,
    kind,
    seen,       \* installed, as ListInstalled returned it
    left,       \* names of seen still to be searched for
    asks,       \* what InstallPkgs is called with
    deps,       \* nodes of the tree still to be done, targets apart
    targets,
    ready,      \* targetDeps: files to install at the end
    preferred,  \* one of Offers: what the manager lists during the command
    system,     \* AllSystemDeps
    \* history
    own,        \* packages this command has installed
    given,      \* what this command had the system's manager install
    disturbed,  \* rows and scripts disagreed, or another process acted
    calls,
    events

world   == <<rows, scripts, files, installed>>
handed  == <<preferred, system, given>>
command == <<pc, kind, seen, left, asks, deps, targets, ready, own, handed>>
bounds  == <<calls, events>>
vars    == <<world, command, disturbed, bounds>>

Held    == Versions \cup {NoVersion}
Nodes   == [ask : Asks, pkg : Pkgs, ver : Versions]
Files   == [pkg : Pkgs, ver : Versions]
Over    == {"idle", "ok", "error"}

TypeOK ==
    /\ rows \in [Pkgs -> Held]
    /\ scripts \in [Pkgs -> Held]
    /\ files \subseteq Files
    /\ installed \in [Pkgs -> Held]
    /\ pc \in Over \cup {"list", "search", "resolve", "system", "loop"}
    /\ kind \in {"install", "upgrade"}
    /\ seen \in [Pkgs -> Held]
    /\ left \subseteq Pkgs
    /\ asks \subseteq Asks
    /\ deps \subseteq Nodes
    /\ targets \subseteq Nodes
    /\ ready \subseteq files
    /\ own \subseteq Pkgs
    /\ preferred \subseteq Asks /\ system \subseteq Asks /\ given \subseteq Asks
    /\ disturbed \in BOOLEAN
    /\ calls \in 0..MaxCalls
    /\ events \in 0..MaxEvents

Init ==
    /\ \E w \in Worlds : rows = w.rows /\ installed = w.installed
    /\ scripts = rows
    /\ files \in {{}, {[pkg |-> p, ver |-> rows[p]] :
                          p \in {q \in Pkgs : rows[q] # NoVersion}}}
    /\ pc = "idle"
    /\ kind = "install"
    /\ seen = [p \in Pkgs |-> NoVersion]
    /\ left = {} /\ asks = {} /\ deps = {} /\ targets = {} /\ ready = {} /\ own = {}
    /\ preferred = {} /\ system = {} /\ given = {}
    /\ disturbed = FALSE
    /\ calls = 0 /\ events = 0

-----------------------------------------------------------------------------
(* Versions *)

\* As vercmp orders full versions.
Precedes(v, w) ==
    \/ v.epoch < w.epoch
    \/ v.epoch = w.epoch /\ v.ver < w.ver
    \/ v.epoch = w.epoch /\ v.ver = w.ver /\ v.rel < w.rel

\* Fault: the release is left out.
NewerWithoutRelease(row, inst) ==
    IF row.rel = 0 THEN inst.epoch = 0 /\ row.ver > inst.ver
                   ELSE \/ inst.epoch < row.epoch
                        \/ inst.epoch = row.epoch /\ row.ver > inst.ver

\* Fault: any other version will do.
NewerOrOther(row, inst) ==
    IF row.rel = 0 THEN inst.epoch # 0 \/ row.ver # inst.ver ELSE row # inst

\* repoVer has neither release nor epoch when the release is 0, and vercmp
\* leaves out a release that one side lacks.
Newer(row, inst) ==
    IF row.rel = 0 THEN inst.epoch = 0 /\ row.ver > inst.ver
                   ELSE Precedes(inst, row)

\* Dependency.Satisfies.
Satisfies(v, a) ==
    CASE a.op = ">"  -> v.ver > a.ver
      [] a.op = ">=" -> v.ver >= a.ver
      [] a.op = "="  -> v.ver = a.ver
      [] a.op = "<=" -> v.ver <= a.ver
      [] a.op = "<"  -> v.ver < a.ver
      [] OTHER       -> TRUE

(* Queries *)

Present(S)  == {p \in S : rows[p] # NoVersion}
FirstRow(S) ==
    Packages[CHOOSE i \in 1 .. Len(Packages) :
                 Packages[i] \in S /\ \A j \in 1 .. i - 1 : Packages[j] \notin S]

\* SearchOptions.WithName is a LIKE '%name%'.
Like(p) == Present({q \in Pkgs : /\ About[q].repo = About[p].repo
                                 /\ About[q].name \in NamesWith[About[p].name]})

\* FindPkgs of one request: by name, else what provides it, else by the name
\* of the script; then those that satisfy the version.
FindPkgs(a) ==
    LET named    == Present({p \in Pkgs : /\ About[p].name = a.name
                                          /\ a.repo \in {NoName, About[p].repo}})
        provided == Present({p \in Pkgs : a.name \in About[p].provides})
        based    == Present({p \in Pkgs : About[p].base = a.name})
        result   == IF a.repo # NoName \/ named # {} THEN named
                    ELSE IF provided # {} THEN provided ELSE based
    IN  {p \in result : Satisfies(rows[p], a)}

Node(a) == LET p == FirstRow(FindPkgs(a)) IN [ask |-> a, pkg |-> p, ver |-> rows[p]]

\* A script of several packages has a function for each, named after the
\* package, and is asked for the function of the request as it was written.
Declared(n) == \/ About[n.pkg].base = NoName
               \/ n.ask = [UpdateAsk(n.pkg) EXCEPT !.repo = NoName]

\* checkCacheForAllSubpackages looks the request up once more.
Cached(n) == {f \in files : FindPkgs(n.ask) # {} /\ LET m == Node(n.ask) IN
                                f.pkg = m.pkg /\ f.ver = m.ver}

\* Fault: that the script is there and declares the package is not looked at.
BuiltUnchecked(n) == {[pkg |-> n.pkg, ver |-> scripts[n.pkg]]}

\* BuildPackageFromDb: the version is the script's, whatever the row says.
Built(n) == IF scripts[n.pkg] # NoVersion /\ Declared(n)
            THEN {[pkg |-> n.pkg, ver |-> scripts[n.pkg]]} ELSE {}

\* The file for a node, if there can be one.
FileFor(n) == IF Cached(n) # {} THEN Cached(n) ELSE Built(n)

-----------------------------------------------------------------------------
(* The commands *)

Goto(step) == pc' = step

Call(k, A) ==
    /\ pc \in Over
    /\ calls < MaxCalls
    /\ calls' = calls + 1
    /\ kind' = k
    /\ asks' = A
    /\ disturbed' = (rows # scripts)
    /\ left' = {} /\ deps' = {} /\ targets' = {} /\ ready' = {} /\ own' = {}
    /\ preferred' \in Offers /\ system' = {} /\ given' = {}
    /\ UNCHANGED <<world, seen, events>>

InstallCmd == \E A \in Requests : Call("install", A) /\ Goto("resolve")
UpgradeCmd == Call("upgrade", {}) /\ Goto("list")

\* remove takes a name or name+repo; a name stands for any of the installed
\* packages of that name, and a map decides for which.
RemoveCmd ==
    /\ pc \in Over
    /\ calls < MaxCalls
    /\ calls' = calls + 1
    /\ Goto("idle")
    /\ \E p \in Pkgs : /\ installed[p] # NoVersion
                       /\ installed' = [installed EXCEPT ![p] = NoVersion]
    /\ UNCHANGED <<rows, scripts, files, kind, seen, left, asks, deps, targets, ready,
                   own, handed, disturbed, events>>

\* A query, a build or the package manager fails.
Fail ==
    /\ pc \notin Over
    /\ Goto("error")
    /\ UNCHANGED <<world, kind, seen, left, asks, deps, targets, ready, own,
                   handed, disturbed, bounds>>

ListInstalled ==
    /\ pc = "list"
    /\ seen' = installed
    /\ left' = {p \in Pkgs : installed[p] # NoVersion}
    /\ Goto("search")
    /\ UNCHANGED <<world, kind, asks, deps, targets, ready, own, handed, disturbed, bounds>>

\* checkForUpdates, one installed package: the first row the search returns.
Search(p) ==
    /\ pc = "search"
    /\ p \in left
    /\ left' = left \ {p}
    /\ asks' = asks \cup {UpdateAsk(q) : q \in
                 {r \in Like(p) : r = FirstRow(Like(p)) /\ Newer(rows[r], seen[p])}}
    /\ UNCHANGED <<world, pc, kind, seen, deps, targets, ready, own, handed, disturbed, bounds>>

SearchEnds ==
    /\ pc = "search"
    /\ left = {}
    /\ Goto(IF asks = {} THEN "ok" ELSE "resolve")
    /\ UNCHANGED <<world, kind, seen, left, asks, deps, targets, ready, own,
                   handed, disturbed, bounds>>

\* What is found, unless the system's manager is preferred and lists a package
\* under the very text of the request.
Found(A)  == {a \in A : FindPkgs(a) # {} /\ a \notin preferred}

\* The packages of the tree: those asked for and, from each of these, those
\* it depends on.  What is asked for in it, targets apart.
Direct(A) == {Node(a).pkg : a \in Found(A)}
Tree(A) ==
    LET roots == Direct(A)
        below == [q \in Pkgs |-> Direct(About[q].depends)]
    IN  {p \in Pkgs : \A P \in SUBSET Pkgs :
            (roots \subseteq P /\ \A q \in P : below[q] \subseteq P) => p \in P}
Needed(A) == (UNION {About[p].depends : p \in Tree(A)}) \ A

\* ResolveUnifiedDependencyTree; whatever else is left to the system.
Resolve ==
    /\ pc = "resolve"
    /\ LET needed == Needed(asks)
       IN  /\ targets' = {Node(a) : a \in Found(asks)}
           /\ deps' = {Node(a) : a \in Found(needed)}
           /\ system' = (asks \cup needed) \ Found(asks \cup needed)
           /\ Goto(IF system' = {} THEN "loop" ELSE "system")
    /\ UNCHANGED <<world, kind, seen, left, asks, ready, own, preferred, given,
                   disturbed, bounds>>

\* The manager installs packages of its own; a package of ALR that it lists,
\* because it is installed, stays as it is.
InstallSystemDeps ==
    /\ pc = "system"
    /\ given' = system
    /\ Goto("loop")
    /\ UNCHANGED <<world, kind, seen, left, asks, deps, targets, ready, own,
                   preferred, system, disturbed, bounds>>

Put(inst, F) == [p \in Pkgs |-> IF \E f \in F : f.pkg = p
                                THEN (CHOOSE f \in F : f.pkg = p).ver ELSE inst[p]]

\* FilterPackagesByVersion drops a dependency that is installed and not older.
SkipDependency(n) ==
    /\ pc = "loop"
    /\ n \in deps
    /\ installed[n.pkg] # NoVersion
    /\ ~Newer(n.ver, installed[n.pkg])
    /\ deps' = deps \ {n}
    /\ UNCHANGED <<world, pc, kind, seen, left, asks, targets, ready, own,
                   handed, disturbed, bounds>>

\* Any other is taken from the cache or built, and installed at once.
TakeDependency(n) ==
    /\ pc = "loop"
    /\ n \in deps
    /\ installed[n.pkg] # NoVersion => Newer(n.ver, installed[n.pkg])
    /\ deps' = deps \ {n}
    /\ \E f \in FileFor(n) :
          /\ files' = files \cup {f}
          /\ installed' = Put(installed, {f})
          /\ own' = own \cup {f.pkg}
    /\ UNCHANGED <<rows, scripts, pc, kind, seen, left, asks, targets, ready,
                   handed, disturbed, bounds>>

\* A target is never dropped, and installed at the end.
TakeTarget(n) ==
    /\ pc = "loop"
    /\ deps = {}
    /\ n \in targets
    /\ targets' = targets \ {n}
    /\ \E f \in FileFor(n) : files' = files \cup {f} /\ ready' = ready \cup {f}
    /\ UNCHANGED <<rows, scripts, installed, pc, kind, seen, left, asks, deps, own,
                   handed, disturbed, bounds>>

\* The manager refuses two versions of one package.
InstallTargets ==
    /\ pc = "loop"
    /\ deps = {} /\ targets = {}
    /\ \A f, g \in ready : f.pkg = g.pkg => f = g
    /\ installed' = Put(installed, ready)
    /\ own' = own \cup {f.pkg : f \in ready}
    /\ Goto("ok")
    /\ UNCHANGED <<rows, scripts, files, kind, seen, left, asks, deps, targets, ready,
                   handed, disturbed, bounds>>

-----------------------------------------------------------------------------
(* Other processes *)

Event ==
    /\ events < MaxEvents
    /\ events' = events + 1
    /\ disturbed' = TRUE
    /\ UNCHANGED <<command, calls>>

\* A pull moves the working copy, and then writes the row, unless it dies.
Checkout(p) ==
    /\ Event
    /\ \E v \in Held : scripts' = [scripts EXCEPT ![p] = v]
    /\ UNCHANGED <<rows, files, installed>>

WriteRow(p) ==
    /\ Event
    /\ rows[p] # scripts[p]
    /\ rows' = [rows EXCEPT ![p] = scripts[p]]
    /\ UNCHANGED <<scripts, files, installed>>

\* Another command has installed a built package, or removed one.
OtherCommand(p) ==
    /\ Event
    /\ \E v \in {f.ver : f \in {g \in files : g.pkg = p}} \cup {NoVersion} :
          installed' = [installed EXCEPT ![p] = v]
    /\ UNCHANGED <<rows, scripts, files>>

-----------------------------------------------------------------------------
Next ==
    \/ InstallCmd \/ UpgradeCmd \/ RemoveCmd \/ Fail
    \/ ListInstalled \/ SearchEnds \/ Resolve \/ InstallSystemDeps \/ InstallTargets
    \/ \E p \in Pkgs : Search(p) \/ Checkout(p) \/ WriteRow(p) \/ OtherCommand(p)
    \/ \E n \in deps : SkipDependency(n) \/ TakeDependency(n)
    \/ \E n \in targets : TakeTarget(n)

Spec == Init /\ [][Next]_vars

-----------------------------------------------------------------------------
(* Properties *)

\* The row that is compared is not that of the package but the first whose
\* name contains the package's (upgrade.go 223-237).
Misled(p) == Like(p) # {} /\ FirstRow(Like(p)) # p

\* A row with an epoch but no release is compared without the epoch
\* (upgrade.go 243-247).
EpochLost(p) == rows[p].rel = 0 /\ rows[p].epoch # 0

\* An upgrade that succeeds, undisturbed, leaves no installed package older
\* than its row, save those it looks up or compares wrongly or hands over to
\* the system's manager; and each dependency of what a command installs was
\* handed over too, or is installed in a version that is asked for, save that a
\* newer one may stand in for one that was wanted as it was.
NothingLeft ==
    (pc = "ok" /\ ~disturbed) =>
        /\ kind = "upgrade" =>
              \A p \in Pkgs : (installed[p] # NoVersion /\ rows[p] # NoVersion) =>
                  \/ ~Precedes(installed[p], rows[p])
                  \/ Misled(p) \/ EpochLost(p) \/ UpdateAsk(p) \in given
        /\ \A p \in own : \A a \in About[p].depends :
              \/ a \in given
              \/ /\ FindPkgs(a) # {}
                 /\ LET q == FirstRow(FindPkgs(a))
                    IN  /\ installed[q] # NoVersion
                        /\ Satisfies(installed[q], a) \/ Precedes(rows[q], installed[q])
                             \/ EpochLost(q)

\* An undisturbed command lowers the version of a package only when the user
\* named it, or when it was taken for another (installer.go 130-169).
NeverLowers ==
    [][\A p \in Pkgs :
          (/\ pc = "loop" /\ ~disturbed'
           /\ installed[p] # NoVersion /\ installed'[p] # NoVersion
           /\ Precedes(installed'[p], installed[p])) =>
              \/ kind = "install" /\ \E a \in asks : p \in FindPkgs(a)
              \/ kind = "upgrade" /\ \E q \in Pkgs : Misled(q) /\ FirstRow(Like(q)) = p]_vars

-----------------------------------------------------------------------------
(* The inductive invariant behind the properties *)

FileOf(n) == [pkg |-> n.pkg, ver |-> n.ver]

\* What an upgrade passes on: the first row of the search, if it is newer.
Outdated(p) ==
    /\ seen[p] # NoVersion
    /\ Like(p) # {}
    /\ Newer(rows[FirstRow(Like(p))], seen[p])
UpdateOf(p) == UpdateAsk(FirstRow(Like(p)))

\* The installed packages that have been searched for have their updates
\* among what is asked for, and nothing else is.
AsksAgree ==
    kind = "upgrade" =>
        /\ \A a \in asks : \E p \in Pkgs : Outdated(p) /\ a = UpdateOf(p)
        /\ \A p \in Pkgs : Outdated(p) => p \in left \/ UpdateOf(p) \in asks
        /\ \A p \in left : seen[p] # NoVersion

\* A target is still to be taken or has its file put by.
TargetsAgree ==
    /\ \A n \in targets : n.ask \in Found(asks) /\ n = Node(n.ask)
    /\ \A a \in Found(asks) : Node(a) \in targets \/ FileOf(Node(a)) \in ready
    /\ \A f \in ready : \E a \in Found(asks) : f = FileOf(Node(a))

\* A dependency is still to be taken or installed in a version not older.
UpToDate(p) ==
    /\ installed[p] # NoVersion
    /\ installed[p] = rows[p] \/ ~Newer(rows[p], installed[p])
DepsAgree ==
    /\ \A n \in deps : n.ask \in Found(Needed(asks)) /\ n = Node(n.ask)
    /\ \A a \in Found(Needed(asks)) : Node(a) \in deps \/ UpToDate(Node(a).pkg)

\* What is neither a target nor a dependency of ALR is the manager's.
ManagerAgrees ==
    LET wanted == asks \cup Needed(asks) IN system = wanted \ Found(wanted)

\* The command installs packages of the tree as their rows have them, and
\* leaves the others as it has found them.
OwnAgrees ==
    /\ \A p \in own : p \in Tree(asks) /\ installed[p] = rows[p]
    /\ kind = "upgrade" => \A p \in Pkgs \ own : installed[p] = seen[p]

CommandAgrees ==
    /\ pc \in {"list", "search", "resolve", "system"} =>
          ready = {} /\ own = {} /\ given = {}
    /\ pc = "list" => asks = {}
    /\ pc \in {"resolve", "system", "loop"} => left = {}
    /\ pc \in {"search", "resolve", "system", "loop"} => AsksAgree /\ OwnAgrees
    /\ pc \in {"system", "loop"} => TargetsAgree /\ DepsAgree /\ ManagerAgrees
    /\ pc = "loop" => given = system

UpgradeInv ==
    /\ TypeOK
    /\ ~disturbed => rows = scripts /\ CommandAgrees
    /\ NothingLeft
=============================================================================
