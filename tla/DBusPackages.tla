----------------------------- MODULE DBusPackages -----------------------------
(***************************************************************************)
(* The package objects of the daemon (internal/dbus/package.go, GetPackage  *)
(* of manager.go, the package registry of service.go) and the client        *)
(* commands that use them (dbus.go): a client asks for the path of a        *)
(* package, then installs or removes it through the object there.          *)
(*                                                                         *)
(* An object is made from a row of the database and never replaced.  It has *)
(* two faces on the bus, its methods and its properties, exported at        *)
(* different times, and a flag that says whether the package is installed.  *)
(* The flag and Remove go by the name "alr-<name>+<repository>", Install    *)
(* gives what it builds the name "<name>+<repository>".                     *)
(* Every call and every job runs in a goroutine of its own.                *)
(*                                                                         *)
(* A definition marked "Fault" is no part of Spec: it is the next one with  *)
(* a mistake that a run of the model has to notice.                        *)
(***************************************************************************)
EXTENDS Naturals, FiniteSets

CONSTANTS
    Clients,      \* each with the goroutine that serves it
    Pkgs,         \* pairs of a repository and a name
    MaxObjects,   \* bound: objects made
    MaxCalls      \* bound: commands, of the clients and of the user

ASSUME PackagesAssumption ==
    /\ IsFiniteSet(Clients) /\ Pkgs # {}
    /\ MaxObjects \in Nat \ {0} /\ MaxCalls \in Nat

VARIABLES
    badPaths,   \* packages whose object path the bus refuses, as for a hyphen
    rows,       \* packages that have a row in the database
    installed,  \* the names under which the package manager has each package
    made,       \* objects made so far
    object,     \* each object: [pkg, flag]
    shown,      \* the property Installed each object last set
    registry,   \* Service.packages: an object for each package, or None
    methods,    \* the object whose methods are exported, or None
    props,      \* the object whose properties are exported, or None
    exporting,  \* objects whose export goroutine has not run
    pc, pkg, at, answer,   \* one per client: step, package, object, IsInstalled
    job,        \* per client: "install", "remove", or "over" when that is done
    calls,      \* commands so far
    crossed,    \* history: packages two calls or jobs worked on at once
    unseen      \* history: packages that changed without the daemon's notice

systemVars == <<badPaths, rows, installed>>
objectVars == <<made, object, shown>>
busVars    == <<registry, methods, props, exporting>>
clientVars == <<pc, pkg, at, answer, job>>
histVars   == <<calls, crossed, unseen>>
vars       == <<systemVars, objectVars, busVars, clientVars, histVars>>

None    == 0
Objects == 1..MaxObjects

\* The name of a package that was built, and the one the daemon asks about.
Built == "name+repo"
Asked == "alr-name+repo"
Names == {Built, Asked}

Steps == {"idle", "lookup", "query", "new", "status", "flag", "set",
          "register", "have", "manage"}

TypeOK ==
    /\ badPaths \subseteq Pkgs
    /\ rows \subseteq Pkgs
    /\ installed \in [Pkgs -> SUBSET Names]
    /\ made \in 0..MaxObjects
    /\ object \in [Objects -> [pkg : Pkgs, flag : BOOLEAN]]
    /\ shown \in [Objects -> BOOLEAN]
    /\ \A m \in {registry, methods, props} : m \in [Pkgs -> Objects \cup {None}]
    /\ exporting \subseteq Objects
    /\ pc \in [Clients -> Steps]
    /\ pkg \in [Clients -> Pkgs]
    /\ at \in [Clients -> Objects \cup {None}]
    /\ answer \in [Clients -> BOOLEAN]
    /\ job \in [Clients -> {"none", "install", "remove", "over"}]
    /\ calls \in 0..MaxCalls
    /\ crossed \cup unseen \subseteq Pkgs

NoPkg == CHOOSE k \in Pkgs : TRUE

Init ==
    /\ badPaths \in SUBSET Pkgs
    /\ rows = Pkgs
    /\ installed \in [Pkgs -> SUBSET Names]
    /\ made = 0
    /\ object = [o \in Objects |-> [pkg |-> NoPkg, flag |-> FALSE]]
    /\ shown = [o \in Objects |-> FALSE]
    /\ registry = [k \in Pkgs |-> None]
    /\ methods = [k \in Pkgs |-> None]
    /\ props = [k \in Pkgs |-> None]
    /\ exporting = {}
    /\ pc = [c \in Clients |-> "idle"]
    /\ pkg = [c \in Clients |-> NoPkg]
    /\ at = [c \in Clients |-> None]
    /\ answer = [c \in Clients |-> FALSE]
    /\ job = [c \in Clients |-> "none"]
    /\ calls = 0
    /\ crossed = {}
    /\ unseen = {}

Goto(c, s) == pc' = [pc EXCEPT ![c] = s]

\* A client that is done is as it was.
Leave(c) ==
    /\ Goto(c, "idle")
    /\ pkg' = [pkg EXCEPT ![c] = NoPkg]
    /\ at' = [at EXCEPT ![c] = None]
    /\ answer' = [answer EXCEPT ![c] = FALSE]
    /\ job' = [job EXCEPT ![c] = "none"]

\* Others make or export an object of this package, or change the package.
Busy(c, k) ==
    \/ \E d \in Clients \ {c} : pkg[d] = k /\ pc[d] \notin {"idle", "lookup", "query", "have"}
    \/ \E o \in exporting : object[o].pkg = k

Crossing(c, k) == crossed' = crossed \cup {x \in {k} : Busy(c, x)}

-----------------------------------------------------------------------------
(* Environment *)

\* A refresh finds that a commit has dropped the package.
Refresh(k) ==
    /\ k \in rows
    /\ rows' = rows \ {k}
    /\ UNCHANGED <<badPaths, installed, objectVars, busVars, clientVars, histVars>>

\* The package manager is used without the daemon.
UseManager(k) ==
    /\ calls < MaxCalls
    /\ calls' = calls + 1
    /\ \E ns \in (SUBSET Names) \ {installed[k]} : installed' = [installed EXCEPT ![k] = ns]
    /\ unseen' = unseen \cup {k}
    /\ UNCHANGED <<badPaths, rows, objectVars, busVars, clientVars, crossed>>

-----------------------------------------------------------------------------
(* GetPackage *)

Ask(c, k, j) ==
    /\ pc[c] = "idle"
    /\ calls < MaxCalls
    /\ calls' = calls + 1
    /\ Goto(c, "lookup")
    /\ pkg' = [pkg EXCEPT ![c] = k]
    /\ job' = [job EXCEPT ![c] = j]
    /\ UNCHANGED <<systemVars, objectVars, busVars, at, answer, crossed, unseen>>

\* An object that is registered is never looked at again, nor is its row.
Lookup(c) ==
    /\ pc[c] = "lookup"
    /\ Goto(c, IF registry[pkg[c]] # None THEN "have" ELSE "query")
    /\ UNCHANGED <<systemVars, objectVars, busVars, pkg, at, answer, job, histVars>>

\* No row is an error; otherwise the object is filled in from the row.
Query(c) ==
    LET k == pkg[c]
        o == made + 1
    IN  /\ pc[c] = "query"
        /\ \/ /\ k \notin rows
              /\ Leave(c)
              /\ UNCHANGED <<objectVars, crossed>>
           \/ /\ k \in rows
              /\ made < MaxObjects
              /\ made' = o
              /\ object' = [object EXCEPT ![o] = [pkg |-> k, flag |-> FALSE]]
              /\ at' = [at EXCEPT ![c] = o]
              /\ Goto(c, "new")
              /\ Crossing(c, k)
              /\ UNCHANGED <<shown, pkg, answer, job>>
        /\ UNCHANGED <<systemVars, busVars, calls, unseen>>

\* Fault: the first object of a package keeps the properties.
ExportOnce(c, o) == IF props[pkg[c]] # None THEN props[pkg[c]] ELSE o

\* prop.New exports the properties of the new object at once, unless the bus
\* refuses the path.
ExportProps(c, o) == IF pkg[c] \in badPaths THEN None ELSE o

New(c) ==
    /\ pc[c] = "new"
    /\ props' = [props EXCEPT ![pkg[c]] = ExportProps(c, at[c])]
    /\ Goto(c, "status")
    /\ UNCHANGED <<systemVars, objectVars, registry, methods, exporting, pkg, at, answer, job,
                   histVars>>

-----------------------------------------------------------------------------
(* updateInstalledStatus, of a new object and at the end of a job *)

\* A package in the making is registered, a job is over.
AfterStatus(c) ==
    IF job[c] = "over" THEN Leave(c) ELSE Goto(c, "register") /\ UNCHANGED <<pkg, at, answer, job>>

\* The package manager answers, outside the lock, or fails and nothing is set.
Status(c) ==
    /\ pc[c] = "status"
    /\ \/ /\ answer' = [answer EXCEPT ![c] = Asked \in installed[pkg[c]]]
          /\ Goto(c, "flag")
          /\ UNCHANGED <<pkg, at, job, unseen>>
       \/ /\ AfterStatus(c)
          /\ unseen' = unseen \cup {pkg[c]}
    /\ UNCHANGED <<systemVars, objectVars, busVars, calls, crossed>>

\* Fault: a job that is over leaves the flag as it was.
FlagOfNew(c) == IF job[c] = "over" THEN object[at[c]].flag ELSE answer[c]

NewFlag(c) == answer[c]

Flag(c) ==
    /\ pc[c] = "flag"
    /\ object' = [object EXCEPT ![at[c]].flag = NewFlag(c)]
    /\ Goto(c, "set")
    /\ UNCHANGED <<systemVars, made, shown, busVars, pkg, at, answer, job, histVars>>

Set(c) ==
    /\ pc[c] = "set"
    /\ shown' = [shown EXCEPT ![at[c]] = answer[c]]
    /\ AfterStatus(c)
    /\ UNCHANGED <<systemVars, made, object, busVars, histVars>>

-----------------------------------------------------------------------------
(* RegisterPackage and exportPackage *)

\* Fault: only a package asked for to be installed is exported.
PendingToInstall(c) == exporting \cup (IF job[c] = "install" THEN {at[c]} ELSE {})

\* Fault: the object that was registered before is exported.
PendingOld(c) == exporting \cup {registry[pkg[c]]}

\* The objects whose export goroutine is started.
Pending(c) == exporting \cup {at[c]}

\* The path is given to the client here; the methods come later.
Register(c) ==
    /\ pc[c] = "register"
    /\ registry' = [registry EXCEPT ![pkg[c]] = at[c]]
    /\ exporting' = Pending(c)
    /\ Goto(c, "have")
    /\ UNCHANGED <<systemVars, objectVars, methods, props, pkg, at, answer, job, histVars>>

Export(o) ==
    /\ o \in exporting
    /\ exporting' = exporting \ {o}
    /\ methods' = [methods EXCEPT ![object[o].pkg] = IF object[o].pkg \in badPaths THEN @ ELSE o]
    /\ UNCHANGED <<systemVars, objectVars, registry, props, clientVars, histVars>>

-----------------------------------------------------------------------------
(* Install and Remove *)

\* The client calls a method at the path; an object whose methods are not
\* exported is an error.
Call(c) ==
    LET k == pkg[c]
    IN  /\ pc[c] = "have"
        /\ \/ /\ methods[k] = None
              /\ Leave(c)
              /\ UNCHANGED crossed
           \/ /\ methods[k] # None
              /\ at' = [at EXCEPT ![c] = methods[k]]
              /\ Goto(c, "manage")
              /\ Crossing(c, k)
              /\ UNCHANGED <<pkg, answer, job>>
        /\ UNCHANGED <<systemVars, objectVars, busVars, calls, unseen>>

\* Install builds what the database has and installs it, Remove takes a name
\* the manager may not know: some managers call that success.
Managed(c) ==
    LET names == installed[pkg[c]]
    IN  IF job[c] = "install" THEN names \cup {Built} ELSE names \ {Asked}

\* The job: it may fail anywhere, and then the flag is not looked at.
Manage(c) ==
    /\ pc[c] = "manage"
    /\ \/ /\ job[c] = "install" => pkg[c] \in rows
          /\ installed' = [installed EXCEPT ![pkg[c]] = Managed(c)]
          /\ job' = [job EXCEPT ![c] = "over"]
          /\ Goto(c, "status")
          /\ UNCHANGED <<pkg, at, answer>>
       \/ Leave(c) /\ UNCHANGED installed
    /\ UNCHANGED <<badPaths, rows, objectVars, busVars, histVars>>

-----------------------------------------------------------------------------
Step(c) ==
    \/ Lookup(c) \/ Query(c) \/ New(c)
    \/ Status(c) \/ Flag(c) \/ Set(c)
    \/ Register(c) \/ Call(c) \/ Manage(c)

Next ==
    \/ \E c \in Clients : Step(c)
    \/ \E c \in Clients, k \in Pkgs, j \in {"install", "remove"} : Ask(c, k, j)
    \/ \E o \in Objects : Export(o)
    \/ \E k \in Pkgs : Refresh(k) \/ UseManager(k)

\* Every goroutine that was started is scheduled; nobody has to ask, and the
\* world outside owes nothing.
Fairness ==
    /\ \A c \in Clients : WF_vars(Step(c))
    /\ \A o \in Objects : WF_vars(Export(o))

Spec == Init /\ [][Next]_vars /\ Fairness

-----------------------------------------------------------------------------
(* Properties *)

Quiet(k) ==
    /\ \A o \in exporting : object[o].pkg # k
    /\ \A c \in Clients : pkg[c] = k => pc[c] \in {"idle", "lookup", "query", "have"}

\* When nothing is on its way for a package, the object the registry knows is
\* the one that answers calls and the one whose properties are seen, though
\* the three are set at three times (RegisterPackage, exportPackage, prop.New)
\* and a late lookup may have made a second object.  Calls that overlapped on
\* the package have no such promise, and a path the bus refuses shows nothing.
OneObject ==
    \A k \in Pkgs \ crossed :
        Quiet(k) => IF k \in badPaths THEN methods[k] = None /\ props[k] = None
                    ELSE registry[k] = methods[k] /\ methods[k] = props[k]

\* The property Installed and GetDetails follow the manager, for the name the
\* daemon asks about, of a package whose jobs came one after another and which
\* nothing but the daemon has changed, whichever of its objects ran the jobs.
FlagIsTrue ==
    \A k \in Pkgs \ (crossed \cup unseen) :
        Quiet(k) /\ props[k] # None =>
            /\ shown[props[k]] = (Asked \in installed[k])
            /\ object[props[k]].flag = (Asked \in installed[k])

\* A package is registered under a path the client has been given before its
\* methods are there; they do come, and stay (exportPackage), so that a client
\* that asks again is answered.
RegisteredIsServed ==
    \A k \in Pkgs : (registry[k] # None /\ k \notin badPaths) ~> [](methods[k] # None)

=============================================================================
