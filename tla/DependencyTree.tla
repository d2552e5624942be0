---------------------------- MODULE DependencyTree ----------------------------
(***************************************************************************)
(* ResolveUnifiedDependencyTree (internal/build/dependency_tree.go): a     *)
(* depth-first walk from the requested packages that yields one node for   *)
(* every package the repositories have, their order of installation, and   *)
(* the names left to the system's package manager.                         *)
(*                                                                         *)
(* The recursion is an explicit stack.  The found packages of a call are   *)
(* a Go map, so a frame takes them in any order.                           *)
(***************************************************************************)
EXTENDS Naturals, Sequences, FiniteSets, SequencesExt, Functions

CONSTANTS
    Names,     \* package names FindPkgs finds and the resolver keeps
    System,    \* names it does not find, or yields to the system's manager
               \* when PreferALRDeps is off and the manager has them
    Worlds,    \* package databases: [runtime, build : name -> dependencies]
    Requests,  \* sequences of requested names
    NoPkg      \* no package

ASSUME TreeAssumption ==
    /\ Names \cap System = {}
    /\ NoPkg \notin Names
    /\ \A w \in Worlds : /\ w.runtime \in [Names -> SUBSET (Names \cup System)]
                         /\ w.build \in [Names -> SUBSET (Names \cup System)]
    /\ Requests \subseteq Seq(Names \cup System)

VARIABLES
    world,       \* one of Worlds, never changed
    targets,     \* one of Requests, never changed
    stack,       \* calls of resolve that have not returned
    visited,
    order,
    systemDeps   \* tree.AllSystemDeps

treeVars == <<world, targets, stack, visited, order, systemDeps>>

\* A call of resolve: the found names it has not looked at, and the package
\* whose dependencies are being resolved, with what comes next for it.
Frame == [todo : SUBSET Names, at : Names \cup {NoPkg},
          next : {"pick", "runtime", "append"}]

Requires(n) == world.runtime[n] \cup world.build[n]

TreeTypeOK ==
    /\ world.runtime \in [Names -> SUBSET (Names \cup System)]
    /\ world.build \in [Names -> SUBSET (Names \cup System)]
    /\ targets \in Requests
    /\ stack \in Seq(Frame)
    /\ visited \subseteq Names
    /\ order \in Seq(Names)
    /\ systemDeps \subseteq System

\* A definition marked "Fault" is no part of TreeSpec: it is the next one
\* with a mistake that a run of the model has to notice.

\* Fault: the system dependencies are lost.
NotFoundNone(names) == {}

\* FindPkgs and preferALRDeps split the names of a call in two.
NotFound(names) == names \ Names
Call(names)     == [todo |-> names \cap Names, at |-> NoPkg, next |-> "pick"]

Top     == stack[Len(stack)]
Callers == SubSeq(stack, 1, Len(stack) - 1)

TreeInit ==
    /\ world \in Worlds
    /\ targets \in Requests
    /\ stack = <<Call(Range(targets))>>
    /\ visited = {}
    /\ order = <<>>
    /\ systemDeps = NotFound(Range(targets))

-----------------------------------------------------------------------------
(* The steps of resolve *)

Skip(n) ==
    /\ stack # <<>>
    /\ Top.next = "pick"
    /\ n \in Top.todo \cap visited
    /\ stack' = Append(Callers, [Top EXCEPT !.todo = @ \ {n}])
    /\ UNCHANGED <<world, targets, visited, order, systemDeps>>

\* Fault: the package is added before its dependencies.
VisitParentFirst(n) ==
    /\ stack # <<>>
    /\ Top.next = "pick"
    /\ n \in Top.todo \ visited
    /\ visited' = visited \cup {n}
    /\ order' = Append(order, n)
    /\ stack' = Callers \o <<[todo |-> Top.todo \ {n}, at |-> NoPkg, next |-> "pick"],
                             Call(Requires(n))>>
    /\ systemDeps' = systemDeps \cup NotFound(Requires(n))
    /\ UNCHANGED <<world, targets>>

\* A new node; its build dependencies are resolved first.
Visit(n) ==
    /\ stack # <<>>
    /\ Top.next = "pick"
    /\ n \in Top.todo \ visited
    /\ visited' = visited \cup {n}
    /\ stack' = Callers \o <<[todo |-> Top.todo \ {n}, at |-> n, next |-> "runtime"],
                             Call(world.build[n])>>
    /\ systemDeps' = systemDeps \cup NotFound(world.build[n])
    /\ UNCHANGED <<world, targets, order>>

\* Then the runtime dependencies.
ResolveRuntime ==
    /\ stack # <<>>
    /\ Top.next = "runtime"
    /\ stack' = Callers \o <<[Top EXCEPT !.next = "append"],
                             Call(world.runtime[Top.at])>>
    /\ systemDeps' = systemDeps \cup NotFound(world.runtime[Top.at])
    /\ UNCHANGED <<world, targets, visited, order>>

\* The package comes after its dependencies.
AddToOrder ==
    /\ stack # <<>>
    /\ Top.next = "append"
    /\ order' = Append(order, Top.at)
    /\ stack' = Append(Callers, [todo |-> Top.todo, at |-> NoPkg, next |-> "pick"])
    /\ UNCHANGED <<world, targets, visited, systemDeps>>

Return ==
    /\ stack # <<>>
    /\ Top.next = "pick"
    /\ Top.todo = {}
    /\ stack' = Callers
    /\ UNCHANGED <<world, targets, visited, order, systemDeps>>

TreeNext ==
    \/ \E n \in Names : Skip(n) \/ Visit(n)
    \/ ResolveRuntime \/ AddToOrder \/ Return

TreeSpec == TreeInit /\ [][TreeNext]_treeVars

Resolved == stack = <<>>

\* The elements of s at the positions S, in their order.  (SelectSeq is
\* recursive, which no proof could look into.)
Nth(S, k)     == CHOOSE i \in S : Cardinality({j \in S : j <= i}) = k
Extract(s, S) == [k \in 1..Cardinality(S) |-> s[Nth(S, k)]]

\* tree.AllALRPackages: the targets are left to the caller.
AllALRPackages == Extract(order, {i \in 1..Len(order) : order[i] \notin Range(targets)})

-----------------------------------------------------------------------------
(* Properties *)

\* What a set of names needs, itself included: the least set that contains
\* it and, with a package, all its dependencies.
Closed(S)   == \A n \in S \cap Names : Requires(n) \subseteq S
Closure(S)  == {m \in Names \cup System :
                  \A C \in SUBSET (Names \cup System) :
                      S \subseteq C /\ Closed(C) => m \in C}
Needs(m, n) == n \in Closure({m})

\* The tree has every package and every system dependency that is needed and
\* no other, each package once (dependency_tree.go 88-232).
TreeIsComplete ==
    Resolved =>
        /\ visited = Closure(Range(targets)) \cap Names
        /\ systemDeps = Closure(Range(targets)) \cap System
        /\ Range(order) = visited
        /\ Len(order) = Cardinality(visited)

\* Every package comes after its dependencies, build and runtime, unless it
\* is in turn needed by them (comment at dependency_tree.go 43, 227-228).
OrderIsTopological ==
    \A i \in 1..Len(order) : \A d \in Requires(order[i]) \cap Names :
        Needs(d, order[i]) \/ d \in Range(SubSeq(order, 1, i))

\* The calls in progress are a path of distinct packages: a cycle never
\* makes resolve call itself without end.
StackIsPath ==
    \A i, j \in 1..Len(stack) :
        i < j /\ stack[i].at # NoPkg /\ stack[j].at # NoPkg =>
            stack[i].at # stack[j].at /\ Needs(stack[i].at, stack[j].at)

-----------------------------------------------------------------------------
(* The inductive invariant behind the properties *)

\* The dependencies a frame has last called resolve for.
Children(f) == IF f.next = "runtime" THEN world.build[f.at] ELSE world.runtime[f.at]

\* A frame below the top waits for the call above it, which goes through the
\* dependencies of the frame's package; what it no longer has to do is done.
FrameAgrees(k) ==
    /\ stack[k].next = "pick" <=> stack[k].at = NoPkg
    /\ stack[k].at # NoPkg =>
          /\ stack[k].at \in visited \ Range(order)
          /\ Children(stack[k]) \cap Names \subseteq
                visited \cup IF k = Len(stack) THEN {} ELSE stack[k + 1].todo
    /\ k < Len(stack) =>
          stack[k].at # NoPkg /\ stack[k + 1].todo \subseteq Children(stack[k])
    /\ stack[k].next = "append" =>
          world.build[stack[k].at] \cap Names \subseteq visited

FramesAgree == \A k \in 1..Len(stack) : FrameAgrees(k)

\* The first call goes through the targets.
RootAgrees ==
    /\ stack # <<>> => stack[1].todo \subseteq Range(targets)
    /\ Range(targets) \cap Names \subseteq
          visited \cup IF stack = <<>> THEN {} ELSE stack[1].todo

\* A node is in the order, once, or its call is in progress; what is in the
\* order has all its dependencies in the tree.
OrderAgrees ==
    /\ Range(order) \subseteq visited
    /\ visited \subseteq Range(order) \cup {stack[k].at : k \in 1..Len(stack)}
    /\ IsInjective(order)
    /\ \A n \in Range(order) : Requires(n) \cap Names \subseteq visited

\* The names of a call that are not found are noted when it begins.
SystemAgrees ==
    /\ NotFound(Range(targets)) \subseteq systemDeps
    /\ \A n \in visited :
          /\ NotFound(world.build[n]) \subseteq systemDeps
          /\ \/ NotFound(world.runtime[n]) \subseteq systemDeps
             \/ \E k \in 1..Len(stack) : stack[k].at = n /\ stack[k].next = "runtime"

\* Nothing is resolved that is not needed.
OnlyNeeded == visited \cup systemDeps \subseteq Closure(Range(targets))

TreeInv ==
    /\ FramesAgree
    /\ RootAgrees
    /\ OrderAgrees
    /\ SystemAgrees
    /\ OnlyNeeded
    /\ StackIsPath
    /\ OrderIsTopological
=============================================================================
