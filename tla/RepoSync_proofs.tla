--------------------------- MODULE RepoSync_proofs ---------------------------
(***************************************************************************)
(* Proofs about RepoSync: with one puller at a time, and a history in      *)
(* which no script changes what it declares, the rows of the package       *)
(* database follow the working copy through every failing mirror, lagging  *)
(* mirror, broken script and crash, except where SyncedUnlessTorn says.    *)
(***************************************************************************)
EXTENDS RepoSync, TLAPS

OnePuller == \E p : Pullers = {p}
AllSteady == \A h \in Histories : IsSteady(h)

-----------------------------------------------------------------------------
(* The inductive invariant.  What is left to do in the loop is measured by   *)
(* the packages its actions will set: a script that does not parse promises  *)
(* every package, since the loop will not get past it.                       *)

Sets(p, a) ==
    IF ScriptOf(p, a).kind = "script" THEN DOMAIN ScriptOf(p, a).pkgs ELSE Pkgs

Right(x) == db[x] = Index(head)[x]

\* A file patch that leaves every package it sets as the new commit has it.
Sound(p, s) ==
    /\ s \in Seq(Action)
    /\ s # <<>>
    /\ \A i \in 1..Len(s) : ScriptOf(p, s[i]).kind = "script" =>
          \A x \in Sets(p, s[i]) :
             IF s[i].act = "delete"
             THEN \/ Index(head)[x] = NoRow
                  \/ \E j \in 1..Len(s) : i < j /\ x \in Sets(p, s[j])
             ELSE ScriptOf(p, s[i]).pkgs[x] = Index(head)[x]

Owed(p, x) == \E s \in todo[p] \cup {patch[p]} :
                 \E i \in 1..Len(s) : x \in Sets(p, s[i])

Settled(p, x) == Owed(p, x) \/ Right(x)

\* Packages of the scripts that changed between the two commits of a pull.
Involved(p) ==
    {x \in Pkgs : \E f \in ScriptPaths :
        /\ tree[old[p]][f] # tree[new[p]][f]
        /\ x \in Declares(old[p], f) \cup Declares(new[p], f)}

Declared(c) == {x \in Pkgs : \E f \in Sources(c) : x \in Declares(c, f)}

\* Packages the loop of a pull has to set right: those of the commit, all of
\* them where there was no row, or those of the scripts that changed.
Concerned(p) ==
    CASE ~full[p]              -> Involved(p)
      [] full[p] /\ fresh[p]  -> Declared(head)
      [] full[p] /\ ~fresh[p] -> Pkgs

\* The rows tell of the commit checked out, or there are none yet.
Synced  == head # NoCommit /\ db = Index(head)
Settles == torn \/ ~HasRepoPackages \/ Synced

AtRest(p) ==
    /\ pc[p] \in {"idle", "fetch", "inspect", "checkout"} => Settles
    /\ result[p] = "ok" => pc[p] = "idle" /\ (torn \/ Synced)
    /\ pc[p] # "apply" => todo[p] = {} /\ patch[p] = <<>>

AtInspect(p) ==
    pc[p] \in {"inspect", "checkout"} =>
        /\ tracking # NoCommit
        /\ fresh[p] = (head = NoCommit)

AtCheckout(p) ==
    pc[p] = "checkout" =>
        /\ rev[p] # NoCommit
        /\ old[p] = head

AtPlan(p) ==
    pc[p] \in {"plan", "apply", "finish"} =>
        /\ new[p] = head
        /\ head # NoCommit
        /\ ~fresh[p] => old[p] # NoCommit

BeforeLoop(p) ==
    pc[p] = "plan" =>
        \/ torn
        \/ ~HasRepoPackages
        \/ ~fresh[p] /\ db = Index(old[p])

InLoop(p) ==
    pc[p] = "apply" =>
        /\ \A s \in todo[p] : Sound(p, s)
        /\ patch[p] # <<>> => Sound(p, patch[p])
        /\ \A x \in Concerned(p) : Settled(p, x)
        /\ ~full[p] => ~fresh[p]
        /\ ~torn => \A x \in Pkgs : Settled(p, x)

AfterLoop(p) ==
    pc[p] = "finish" =>
        /\ \A x \in Concerned(p) : Right(x)
        /\ ~full[p] => ~fresh[p]
        /\ ~torn => Synced

PullInv(p) == AtRest(p) /\ AtInspect(p) /\ AtCheckout(p) /\ AtPlan(p)
              /\ BeforeLoop(p) /\ InLoop(p) /\ AfterLoop(p)

SyncInv == TypeOK /\ \A p \in Pullers : PullInv(p)
-----------------------------------------------------------------------------
(* What a commit holds, and what its index says.                             *)

\* What RepoAssumption says of one path of one commit.
LEMMA PathOfCommit ==
    ASSUME TypeOK, NEW c \in Commits, NEW f \in Files
    PROVE  /\ tree[c][f].kind \in ScriptKind
           /\ Declares(c, f) \subseteq Pkgs
           /\ tree[c][f].kind # "script" => Declares(c, f) = {}
           /\ \A x \in Declares(c, f) : tree[c][f].pkgs[x] \in Nat \ {NoRow}
  BY RepoAssumption DEF TypeOK, Declares

\* The tree of a steady history, in the terms of the model.
LEMMA TreeIsSteady ==
    ASSUME TypeOK, AllSteady, NEW c \in Commits, NEW d \in Commits,
           NEW f \in ScriptPaths
    PROVE  /\ tree[c][f].kind = "script" /\ tree[d][f].kind = "script"
                 => Declares(c, f) = Declares(d, f)
           /\ \A g \in ScriptPaths, x \in Declares(c, f) :
                 x \in Declares(d, g) /\ f # g =>
                    /\ ~Present(d, f)
                    /\ ~Present(c, g)
                    /\ Declares(c, f) = Declares(d, g)
           /\ \A g \in Files \ ScriptPaths :
                 Declares(c, f) = Declares(d, g) => Declares(c, f) = {}
           /\ Present(c, RootScript) /\ Present(c, f) => f = RootScript
<1>1. IsSteady(tree)
  BY DEF TypeOK, AllSteady
<1>2. tree[c][f].kind = "script" /\ tree[d][f].kind = "script"
         => Declares(c, f) = Declares(d, f)
  BY <1>1 DEF IsSteady, Declares
<1>3. ASSUME NEW g \in ScriptPaths, NEW x \in Declares(c, f), x \in Declares(d, g),
             f # g
      PROVE  /\ ~Present(d, f)
             /\ ~Present(c, g)
             /\ Declares(c, f) = Declares(d, g)
  <2>1. DOMAIN tree[c][f].pkgs \cap DOMAIN tree[d][g].pkgs # {}
    BY <1>3 DEF Declares
  <2>2. /\ tree[d][f].kind = "absent"
        /\ tree[c][g].kind = "absent"
        /\ DOMAIN tree[c][f].pkgs = DOMAIN tree[d][g].pkgs
    BY <1>1, <1>3, <2>1 DEF IsSteady
  <2> QED
    BY <2>2 DEF Present, Declares
<1>4. ASSUME NEW g \in Files \ ScriptPaths, Declares(c, f) = Declares(d, g)
      PROVE  Declares(c, f) = {}
  BY <1>1, <1>4 DEF IsSteady, Declares
<1>5. Present(c, RootScript) /\ Present(c, f) => f = RootScript
  BY <1>1 DEF IsSteady, Present
<1> QED
  BY <1>2, <1>3, <1>4, <1>5

\* Every script of a commit is a source of its index.
LEMMA SourcesArePresent ==
    ASSUME TypeOK, AllSteady, NEW c \in Commits
    PROVE  Sources(c) = {f \in ScriptPaths : Present(c, f)}
  BY RepoAssumption, TreeIsSteady DEF Sources

\* A declared package has the version of the script that declares it.
LEMMA IndexOfDeclared ==
    ASSUME TypeOK, AllSteady, NEW c \in Commits, NEW f \in ScriptPaths,
           NEW x \in Declares(c, f)
    PROVE  /\ x \in Pkgs
           /\ f \in Sources(c)
           /\ Index(c)[x] = tree[c][f].pkgs[x]
           /\ Index(c)[x] # NoRow
<1>1. f \in Files
  BY RepoAssumption
<1>2. x \in Pkgs /\ tree[c][f].pkgs[x] # NoRow /\ Present(c, f)
  BY <1>1, PathOfCommit DEF Present
<1>3. f \in Sources(c)
  BY <1>2, SourcesArePresent
<1>4. ASSUME NEW g \in Sources(c), x \in Declares(c, g)
      PROVE  g = f
  BY <1>2, <1>4, SourcesArePresent, TreeIsSteady
<1>5. (CHOOSE g \in Sources(c) : x \in Declares(c, g)) = f
  BY <1>3, <1>4
<1>6. Index(c)[x] = tree[c][f].pkgs[x]
  BY <1>2, <1>3, <1>5 DEF Index
<1> QED
  BY <1>2, <1>3, <1>6

\* A package that no script declares has no row.
LEMMA IndexOfOther ==
    ASSUME TypeOK, AllSteady, NEW c \in Commits, NEW x \in Pkgs,
           \A f \in ScriptPaths : x \notin Declares(c, f)
    PROVE  Index(c)[x] = NoRow
  BY SourcesArePresent DEF Index

LEMMA IndexDomain ==
    ASSUME NEW c
    PROVE  Index(c) = [x \in Pkgs |-> Index(c)[x]]
  BY DEF Index

\* The index is a function of what was published.
LEMMA IndexStays ==
    ASSUME NEW c, UNCHANGED tree
    PROVE  Index(c)' = Index(c)
  BY DEF Index, Sources, Present, Declares

\* Rows that agree with the index package by package are the index.
LEMMA RightIsSynced ==
    ASSUME TypeOK, head # NoCommit, \A x \in Pkgs : Right(x)
    PROVE  Synced
<1>1. db = [x \in Pkgs |-> db[x]]
  BY DEF TypeOK
<1>2. [x \in Pkgs |-> db[x]] = [x \in Pkgs |-> Index(head)[x]]
  BY DEF Right
<1> QED
  BY <1>1, <1>2, IndexDomain DEF Synced

-----------------------------------------------------------------------------
(* The file patches of the loop.                                             *)

\* A file patch is one of three things.
LEMMA ShapeOfChange ==
    ASSUME NEW a, NEW b, NEW s \in Changes(a, b)
    PROVE  \/ \E f \in ScriptPaths :
                 /\ s = <<[act |-> "delete", file |-> f]>>
                 /\ \A m \in Renames(a, b) : m[1] # f
                 /\ Present(a, f) /\ ~Present(b, f)
           \/ \E f \in ScriptPaths :
                 /\ s = <<[act |-> "update", file |-> f]>>
                 /\ Present(b, f)
           \/ \E m \in Renames(a, b) :
                 /\ s = <<[act |-> "delete", file |-> m[1]],
                          [act |-> "update", file |-> m[2]]>>
                 /\ m[1] \in ScriptPaths \/ m[2] \in ScriptPaths
  BY DEF Changes

\* The loop is given sequences of actions.
LEMMA PatchesAreSequences ==
    ASSUME NEW a, NEW b
    PROVE  /\ Loads(a) \subseteq Seq(Action)
           /\ Changes(a, b) \subseteq Seq(Action)
<1>1. ScriptPaths \subseteq Files /\ Sources(a) \subseteq ScriptPaths
  BY RepoAssumption DEF Sources
<1>2. \A f \in Files : \A k \in {"load", "delete", "update"} :
         [act |-> k, file |-> f] \in Action
  BY DEF Action
<1>3. \A m \in Renames(a, b) : m[1] \in Files /\ m[2] \in Files
  BY DEF Renames
<1>4. ASSUME NEW u \in Action, NEW v \in Action
      PROVE  <<u>> \in Seq(Action) /\ <<u, v>> \in Seq(Action)
  OBVIOUS
<1>5. ASSUME NEW s \in Loads(a)
      PROVE  s \in Seq(Action)
  <2>1. PICK f \in Sources(a) : s = <<[act |-> "load", file |-> f]>>
    BY DEF Loads
  <2> QED
    BY <1>1, <1>2, <1>4, <2>1
<1>6. ASSUME NEW s \in Changes(a, b)
      PROVE  s \in Seq(Action)
  <2>1. \/ \E f \in Files, k \in {"delete", "update"} :
              s = <<[act |-> k, file |-> f]>>
        \/ \E f, g \in Files :
              s = <<[act |-> "delete", file |-> f], [act |-> "update", file |-> g]>>
    BY <1>1, <1>3, ShapeOfChange
  <2>2. CASE \E f \in Files, k \in {"delete", "update"} :
                s = <<[act |-> k, file |-> f]>>
    BY <1>2, <1>4, <2>2
  <2>3. CASE \E f, g \in Files :
                s = <<[act |-> "delete", file |-> f], [act |-> "update", file |-> g]>>
    BY <1>2, <1>4, <2>3
  <2> QED
    BY <2>1, <2>2, <2>3
<1> QED
  BY <1>5, <1>6

LEMMA LoadIsSound ==
    ASSUME TypeOK, AllSteady, NEW p \in Pullers, head # NoCommit,
           NEW s \in Loads(head)
    PROVE  Sound(p, s)
<1>1. head \in Commits
  BY DEF TypeOK
<1>2. PICK f \in Sources(head) : s = <<[act |-> "load", file |-> f]>>
  BY DEF Loads
<1>3. f \in ScriptPaths
  BY <1>1, SourcesArePresent
<1>4. s \in Seq(Action) /\ s # <<>>
  BY <1>2, PatchesAreSequences
<1>5. ScriptOf(p, s[1]) = tree[head][f] /\ s[1].act = "load" /\ Len(s) = 1
  BY <1>2 DEF ScriptOf
<1>6. \A x \in Declares(head, f) : tree[head][f].pkgs[x] = Index(head)[x]
  BY <1>1, <1>3, IndexOfDeclared
<1> QED
  BY <1>4, <1>5, <1>6 DEF Sound, Sets, Declares

\* What a deleted script declared is gone, unless its file was renamed.
LEMMA DeletedIsGone ==
    ASSUME TypeOK, AllSteady, NEW a \in Commits, NEW b \in Commits,
           NEW f \in ScriptPaths, ~Present(b, f),
           \A m \in Renames(a, b) : m[1] # f,
           NEW x \in Declares(a, f)
    PROVE  Index(b)[x] = NoRow
<1>1. f \in Files /\ ScriptPaths \subseteq Files
  BY RepoAssumption
<1>2. x \in Pkgs /\ tree[a][f].kind = "script"
  BY <1>1, PathOfCommit
<1>3. ASSUME NEW g \in ScriptPaths, x \in Declares(b, g)
      PROVE  FALSE
  <2>1. g # f
    BY <1>1, <1>3, PathOfCommit DEF Present
  <2>2. ~Present(a, g) /\ Declares(a, f) = Declares(b, g)
    BY <1>3, <2>1, TreeIsSteady
  <2>3. tree[b][g].kind = "script"
    BY <1>1, <1>3, PathOfCommit
  <2>4. <<f, g>> \in Renames(a, b)
    BY <1>1, <1>2, <2>2, <2>3 DEF Renames
  <2> QED
    BY <2>4
<1> QED
  BY <1>2, <1>3, IndexOfOther

\* A script that moves takes its packages along, from a script path to another.
LEMMA MovedIsKept ==
    ASSUME TypeOK, AllSteady, NEW a \in Commits, NEW b \in Commits,
           NEW m \in Renames(a, b), m[1] \in ScriptPaths \/ m[2] \in ScriptPaths,
           NEW x \in Declares(b, m[2])
    PROVE  Index(b)[x] = tree[b][m[2]].pkgs[x]
<1>1. /\ m[1] \in Files /\ m[2] \in Files
      /\ Declares(a, m[1]) = Declares(b, m[2])
  BY DEF Renames
<1>2. m[2] \in ScriptPaths
  BY <1>1, TreeIsSteady
<1> QED
  BY <1>2, IndexOfDeclared

LEMMA ChangeIsSound ==
    ASSUME TypeOK, AllSteady, NEW p \in Pullers,
           new[p] = head, head # NoCommit, old[p] # NoCommit,
           NEW s \in Changes(old[p], new[p])
    PROVE  Sound(p, s)
<1> DEFINE a == old[p]
           b == new[p]
<1>1. a \in Commits /\ b \in Commits /\ head = b
  BY DEF TypeOK
<1>2. s \in Seq(Action)
  BY PatchesAreSequences
<1>3. CASE \E f \in ScriptPaths :
              /\ s = <<[act |-> "delete", file |-> f]>>
              /\ \A m \in Renames(a, b) : m[1] # f
              /\ Present(a, f) /\ ~Present(b, f)
  <2>1. PICK f \in ScriptPaths :
              /\ s = <<[act |-> "delete", file |-> f]>>
              /\ \A m \in Renames(a, b) : m[1] # f
              /\ Present(a, f) /\ ~Present(b, f)
    BY <1>3
  <2>2. \A x \in Declares(a, f) : Index(b)[x] = NoRow
    BY <1>1, <2>1, DeletedIsGone
  <2>3. /\ s # <<>> /\ Len(s) = 1 /\ s[1].act = "delete"
        /\ ScriptOf(p, s[1]) = tree[a][f]
    BY <2>1 DEF ScriptOf
  <2> QED
    BY <1>1, <1>2, <2>2, <2>3 DEF Sound, Sets, Declares
<1>4. CASE \E f \in ScriptPaths :
              /\ s = <<[act |-> "update", file |-> f]>>
              /\ Present(b, f)
  <2>1. PICK f \in ScriptPaths : s = <<[act |-> "update", file |-> f]>>
    BY <1>4
  <2>2. \A x \in Declares(b, f) : Index(b)[x] = tree[b][f].pkgs[x]
    BY <1>1, IndexOfDeclared
  <2>3. /\ s # <<>> /\ Len(s) = 1 /\ s[1].act = "update"
        /\ ScriptOf(p, s[1]) = tree[b][f]
    BY <2>1 DEF ScriptOf
  <2> QED
    BY <1>1, <1>2, <2>2, <2>3 DEF Sound, Sets, Declares
<1>5. CASE \E m \in Renames(a, b) :
              /\ s = <<[act |-> "delete", file |-> m[1]],
                       [act |-> "update", file |-> m[2]]>>
              /\ m[1] \in ScriptPaths \/ m[2] \in ScriptPaths
  <2>1. PICK m \in Renames(a, b) :
              /\ s = <<[act |-> "delete", file |-> m[1]],
                       [act |-> "update", file |-> m[2]]>>
              /\ m[1] \in ScriptPaths \/ m[2] \in ScriptPaths
    BY <1>5
  <2>2. \A x \in Declares(b, m[2]) : Index(b)[x] = tree[b][m[2]].pkgs[x]
    BY <1>1, <2>1, MovedIsKept
  <2>3. /\ tree[a][m[1]].kind = "script" /\ tree[b][m[2]].kind = "script"
        /\ Declares(a, m[1]) = Declares(b, m[2])
    BY DEF Renames
  <2>4. /\ s # <<>> /\ Len(s) = 2
        /\ s[1].act = "delete" /\ ScriptOf(p, s[1]) = tree[a][m[1]]
        /\ s[2].act = "update" /\ ScriptOf(p, s[2]) = tree[b][m[2]]
    BY <2>1 DEF ScriptOf
  <2>5. Sets(p, s[1]) = Declares(b, m[2]) /\ Sets(p, s[2]) = Declares(b, m[2])
    BY <2>3, <2>4 DEF Sets, Declares
  <2>6. 1..Len(s) = {1, 2}
    BY <2>4
  <2> QED
    BY <1>1, <1>2, <2>2, <2>4, <2>5, <2>6 DEF Sound
<1> QED
  BY <1>3, <1>4, <1>5, ShapeOfChange

LEMMA LoadsCoverDeclared ==
    ASSUME TypeOK, AllSteady, NEW p \in Pullers, head # NoCommit,
           NEW x \in Declared(head)
    PROVE  \E s \in Loads(head) : \E i \in 1..Len(s) : x \in Sets(p, s[i])
<1>1. PICK f \in Sources(head) : x \in Declares(head, f)
  BY DEF Declared
<1>2. x \in Pkgs
  BY DEF Declared
<1> DEFINE s == <<[act |-> "load", file |-> f]>>
<1>3. s \in Loads(head)
  BY DEF Loads
<1>4. 1 \in 1..Len(s) /\ ScriptOf(p, s[1]) = tree[head][f]
  BY DEF ScriptOf
<1>5. x \in Sets(p, s[1])
  BY <1>1, <1>2, <1>4 DEF Sets, Declares
<1> QED
  BY <1>3, <1>4, <1>5

\* No script that changed between two commits is passed over.
LEMMA ChangesCoverInvolved ==
    ASSUME TypeOK, AllSteady, NEW p \in Pullers,
           old[p] # NoCommit, new[p] # NoCommit,
           NEW x \in Involved(p)
    PROVE  \E s \in Changes(old[p], new[p]) :
              \E i \in 1..Len(s) : x \in Sets(p, s[i])
<1> DEFINE a == old[p]
           b == new[p]
<1>1. a \in Commits /\ b \in Commits /\ x \in Pkgs
  BY DEF TypeOK, Involved
<1>2. PICK f \in ScriptPaths : /\ tree[a][f] # tree[b][f]
                               /\ x \in Declares(a, f) \cup Declares(b, f)
  BY DEF Involved
<1>3. f \in Files
  BY RepoAssumption
<1>4. /\ x \in Declares(a, f) => tree[a][f].kind = "script"
      /\ x \in Declares(b, f) => tree[b][f].kind = "script"
  BY <1>1, <1>3, PathOfCommit
<1>5. CASE \E m \in Renames(a, b) : m[1] = f \/ m[2] = f
  <2>1. PICK m \in Renames(a, b) : m[1] = f \/ m[2] = f
    BY <1>5
  <2> DEFINE s == <<[act |-> "delete", file |-> m[1]],
                    [act |-> "update", file |-> m[2]]>>
  <2>2. s \in Changes(a, b)
    BY <2>1 DEF Changes
  <2>3. /\ tree[a][m[1]].kind = "script" /\ tree[b][m[2]].kind = "script"
        /\ ~Present(b, m[1]) /\ ~Present(a, m[2])
        /\ Declares(a, m[1]) = Declares(b, m[2])
    BY DEF Renames
  <2>4. /\ 1 \in 1..Len(s) /\ ScriptOf(p, s[1]) = tree[a][m[1]]
        /\ 2 \in 1..Len(s) /\ ScriptOf(p, s[2]) = tree[b][m[2]]
    BY DEF ScriptOf
  <2>5. x \in Declares(a, m[1])
    BY <1>2, <1>4, <2>1, <2>3 DEF Present
  <2>6. x \in Sets(p, s[1])
    BY <2>3, <2>4, <2>5 DEF Sets, Declares
  <2> QED
    BY <2>2, <2>4, <2>6
<1>6. CASE Present(b, f) /\ ~\E m \in Renames(a, b) : m[1] = f \/ m[2] = f
  <2> DEFINE s == <<[act |-> "update", file |-> f]>>
  <2>1. s \in Changes(a, b)
    BY <1>2, <1>6 DEF Changes
  <2>2. 1 \in 1..Len(s) /\ ScriptOf(p, s[1]) = tree[b][f]
    BY DEF ScriptOf
  <2>3. tree[b][f].kind = "script" => x \in Declares(b, f)
    BY <1>1, <1>2, <1>4, TreeIsSteady
  <2>4. x \in Sets(p, s[1])
    BY <1>1, <2>2, <2>3 DEF Sets, Declares
  <2> QED
    BY <2>1, <2>2, <2>4
<1>7. CASE ~Present(b, f) /\ ~\E m \in Renames(a, b) : m[1] = f \/ m[2] = f
  <2> DEFINE s == <<[act |-> "delete", file |-> f]>>
  <2>1. x \in Declares(a, f) /\ Present(a, f)
    BY <1>2, <1>4, <1>7 DEF Present
  <2>2. s \in Changes(a, b)
    BY <1>7, <2>1 DEF Changes
  <2>3. 1 \in 1..Len(s) /\ ScriptOf(p, s[1]) = tree[a][f]
    BY DEF ScriptOf
  <2>4. x \in Sets(p, s[1])
    BY <1>1, <2>1, <2>3 DEF Sets, Declares
  <2> QED
    BY <2>2, <2>3, <2>4
<1> QED
  BY <1>5, <1>6, <1>7

\* The other packages are in both indexes alike.
LEMMA UninvolvedAgree ==
    ASSUME TypeOK, AllSteady, NEW p \in Pullers,
           old[p] # NoCommit, new[p] # NoCommit,
           NEW x \in Pkgs \ Involved(p)
    PROVE  Index(old[p])[x] = Index(new[p])[x]
<1> DEFINE a == old[p]
           b == new[p]
<1>1. a \in Commits /\ b \in Commits
  BY DEF TypeOK
<1>2. \A f \in ScriptPaths : x \in Declares(a, f) \/ x \in Declares(b, f)
         => tree[a][f] = tree[b][f]
  BY DEF Involved
<1>3. CASE \E f \in ScriptPaths : x \in Declares(a, f) \/ x \in Declares(b, f)
  <2>1. PICK f \in ScriptPaths : x \in Declares(a, f) \/ x \in Declares(b, f)
    BY <1>3
  <2>2. /\ tree[a][f] = tree[b][f]
        /\ x \in Declares(a, f) /\ x \in Declares(b, f)
    BY <1>2, <2>1 DEF Declares
  <2> QED
    BY <1>1, <2>2, IndexOfDeclared
<1>4. CASE \A f \in ScriptPaths : x \notin Declares(a, f) /\ x \notin Declares(b, f)
  BY <1>1, <1>4, IndexOfOther
<1> QED
  BY <1>3, <1>4

\* The loop leaves alone all that tells what a file patch is worth.
LEMMA LoopContext ==
    ASSUME NEW p, UNCHANGED <<tree, head, old, new>>
    PROVE  /\ \A a : ScriptOf(p, a)' = ScriptOf(p, a)
           /\ \A a : Sets(p, a)' = Sets(p, a)
           /\ Index(head)' = Index(head)
           /\ \A s : Sound(p, s)' = Sound(p, s)
           /\ Involved(p)' = Involved(p)
           /\ Declared(head)' = Declared(head)
<1>1. \A a : ScriptOf(p, a)' = ScriptOf(p, a)
  BY DEF ScriptOf
<1>2. \A a : Sets(p, a)' = Sets(p, a)
  BY <1>1 DEF Sets
<1>3. Index(head)' = Index(head)
  <2>1. PICK c : c = head
    OBVIOUS
  <2>2. Index(c)' = Index(c)
    BY IndexStays
  <2> QED
    BY <2>1, <2>2
<1>4. \A s : Sound(p, s)' = Sound(p, s)
  BY <1>1, <1>2, <1>3 DEF Sound
<1>5. Involved(p)' = Involved(p)
  BY DEF Involved, Declares
<1>6. Declared(head)' = Declared(head)
  BY DEF Declared, Declares, Sources, Present
<1> QED
  BY <1>1, <1>2, <1>3, <1>4, <1>5, <1>6

LEMMA ConcernStays ==
    ASSUME NEW p, UNCHANGED <<tree, head, fresh, old, new, full>>
    PROVE  Concerned(p)' = Concerned(p)
  BY LoopContext DEF Concerned

-----------------------------------------------------------------------------
(* Types.                                                                    *)

LEMMA IndexHasRows ==
    ASSUME TypeOK, AllSteady, NEW c \in Commits
    PROVE  Index(c) \in [Pkgs -> Nat]
<1>1. ASSUME NEW x \in Pkgs
      PROVE  Index(c)[x] \in Nat
  <2>1. CASE \E f \in ScriptPaths : x \in Declares(c, f)
    <3>1. PICK f \in ScriptPaths : x \in Declares(c, f)
      BY <2>1
    <3>2. f \in Files
      BY RepoAssumption
    <3> QED
      BY <3>1, <3>2, PathOfCommit, IndexOfDeclared
  <2>2. CASE \A f \in ScriptPaths : x \notin Declares(c, f)
    BY <2>2, IndexOfOther DEF NoRow
  <2> QED
    BY <2>1, <2>2
<1>2. [x \in Pkgs |-> Index(c)[x]] \in [Pkgs -> Nat]
  BY <1>1
<1> QED
  BY <1>2, IndexDomain

\* What the loop may do next was sound when it was planned.
LEMMA PendingIsSound ==
    ASSUME NEW p \in Pullers, InLoop(p), pc[p] = "apply", NEW s \in Pending(p)
    PROVE  Sound(p, s)
  BY DEF InLoop, Pending

LEMMA FailOverTypes ==
    ASSUME TypeOK, NEW p \in Pullers, FailOver(p)
    PROVE  /\ url' \in [Pullers -> URLs]
           /\ pc' \in [Pullers -> {"idle", "fetch", "inspect", "checkout", "plan",
                                   "apply", "finish"}]
           /\ result' \in [Pullers -> {"none", "ok", "error", "killed"}]
<1>1. url[p] \in URLs /\ NumURLs \in Nat
  BY RepoAssumption DEF TypeOK
<1>2. url[p] < NumURLs => url[p] + 1 \in URLs
  BY <1>1 DEF URLs
<1> QED
  BY <1>2 DEF FailOver, TypeOK

\* The head of a sound file patch writes rows, and its tail is one or nothing.
LEMMA ApplyTypes ==
    ASSUME TypeOK, AllSteady, NEW p \in Pullers, head # NoCommit,
           NEW s, Sound(p, s), ScriptOf(p, Head(s)).kind = "script"
    PROVE  /\ Tail(s) \in Seq(Action)
           /\ DeleteAll(db, ScriptOf(p, Head(s))) \in [Pkgs -> Nat]
           /\ Head(s).act # "delete" =>
                 InsertAll(db, ScriptOf(p, Head(s))) \in [Pkgs -> Nat]
<1>1. s \in Seq(Action) /\ s # <<>>
  BY DEF Sound
<1>2. Head(s) = s[1] /\ 1 \in 1..Len(s) /\ Tail(s) \in Seq(Action)
  BY <1>1
<1>3. Index(head) \in [Pkgs -> Nat] /\ db \in [Pkgs -> Nat]
  BY IndexHasRows DEF TypeOK
<1>4. DeleteAll(db, ScriptOf(p, Head(s))) \in [Pkgs -> Nat]
  BY <1>3 DEF DeleteAll, NoRow
<1>5. ASSUME Head(s).act # "delete", NEW x \in Pkgs,
             x \in DOMAIN ScriptOf(p, Head(s)).pkgs
      PROVE  ScriptOf(p, Head(s)).pkgs[x] \in Nat
  BY <1>2, <1>3, <1>5 DEF Sound, Sets
<1>6. Head(s).act # "delete" =>
         InsertAll(db, ScriptOf(p, Head(s))) \in [Pkgs -> Nat]
  BY <1>3, <1>5 DEF InsertAll
<1> QED
  BY <1>2, <1>4, <1>6

LEMMA CutShortTypes ==
    ASSUME TypeOK, NEW p \in Pullers, CutShort(p)
    PROVE  /\ torn' \in BOOLEAN
           /\ head' \in Commits \cup {NoCommit}
           /\ todo' \in [Pullers -> SUBSET Seq(Action)]
           /\ patch' \in [Pullers -> Seq(Action)]
<1>1. torn' \in BOOLEAN
  BY DEF CutShort, TypeOK, HasRepoPackages
<1>2. head' \in Commits \cup {NoCommit}
  BY DEF CutShort, TypeOK
<1>3. /\ todo' \in [Pullers -> SUBSET Seq(Action)]
      /\ patch' \in [Pullers -> Seq(Action)]
  BY DEF CutShort, Forget, TypeOK
<1> QED
  BY <1>1, <1>2, <1>3

LEMMA TypesStay ==
    ASSUME SyncInv, AllSteady, [Next]_vars
    PROVE  TypeOK'
<1> USE DEF SyncInv
<1>1. ASSUME NEW p \in Pullers, BeginPull(p)
      PROVE  TypeOK'
  <2>1. 1 \in URLs
    BY RepoAssumption DEF URLs
  <2> QED
    BY <1>1, <2>1 DEF BeginPull, TypeOK, repoVars, faultVars
<1>2. ASSUME NEW p \in Pullers, Fetch(p)
      PROVE  TypeOK'
  BY <1>2 DEF Fetch, TypeOK, faultVars
<1>3. ASSUME NEW p \in Pullers, StageFails(p)
      PROVE  TypeOK'
  <2>1. faults' \in 0..MaxFaults
    BY <1>3, RepoAssumption DEF StageFails, TypeOK
  <2> QED
    BY <1>3, <2>1, FailOverTypes, CutShortTypes DEF StageFails, TypeOK, CutShort
<1>4. ASSUME NEW p \in Pullers, Inspect(p)
      PROVE  TypeOK'
  <2>1. /\ rev' \in [Pullers -> Commits \cup {NoCommit}]
        /\ old' \in [Pullers -> Commits \cup {NoCommit}]
    BY <1>4 DEF Inspect, TypeOK
  <2>2. /\ pc' \in [Pullers -> {"idle", "fetch", "inspect", "checkout", "plan",
                                "apply", "finish"}]
        /\ result' \in [Pullers -> {"none", "ok", "error", "killed"}]
    <3>1. \/ Succeed(p)
          \/ pc' = [pc EXCEPT ![p] = "checkout"] /\ UNCHANGED result
      BY <1>4 DEF Inspect
    <3> QED
      BY <3>1 DEF Succeed, TypeOK
  <2> QED
    BY <1>4, <2>1, <2>2 DEF Inspect, TypeOK, repoVars, faultVars
<1>5. ASSUME NEW p \in Pullers, Checkout(p)
      PROVE  TypeOK'
  BY <1>5 DEF Checkout, TypeOK, faultVars
<1>6. ASSUME NEW p \in Pullers, Plan(p)
      PROVE  TypeOK'
  <2>1. todo' \in [Pullers -> SUBSET Seq(Action)]
    BY <1>6, PatchesAreSequences DEF Plan, TypeOK
  <2> QED
    BY <1>6, <2>1 DEF Plan, TypeOK, repoVars, faultVars
<1>7. ASSUME NEW p \in Pullers, Apply(p)
      PROVE  TypeOK'
  <2>1. PICK s \in Pending(p) :
           /\ ScriptOf(p, Head(s)).kind = "script"
           /\ db' = IF Head(s).act = "delete"
                    THEN DeleteAll(db, ScriptOf(p, Head(s)))
                    ELSE InsertAll(db, ScriptOf(p, Head(s)))
           /\ Take(p, s)
    BY <1>7 DEF Apply
  <2>2. PullInv(p) /\ pc[p] = "apply"
    BY <1>7 DEF Apply
  <2>3. head # NoCommit /\ Sound(p, s)
    BY <2>2, PendingIsSound DEF PullInv, AtPlan
  <2>4. Tail(s) \in Seq(Action) /\ db' \in [Pkgs -> Nat]
    BY <2>1, <2>3, ApplyTypes
  <2>5. /\ todo' \in [Pullers -> SUBSET Seq(Action)]
        /\ patch' \in [Pullers -> Seq(Action)]
    BY <2>1, <2>4 DEF Take, TypeOK
  <2> QED
    BY <1>7, <2>4, <2>5 DEF Apply, TypeOK, faultVars
<1>8. ASSUME NEW p \in Pullers, ApplyFails(p)
      PROVE  TypeOK'
  BY <1>8, FailOverTypes, CutShortTypes DEF ApplyFails, TypeOK, CutShort
<1>9. ASSUME NEW p \in Pullers, LoopEnds(p)
      PROVE  TypeOK'
  BY <1>9 DEF LoopEnds, TypeOK, repoVars, faultVars
<1>10. ASSUME NEW p \in Pullers, ReadToml(p)
       PROVE  TypeOK'
  BY <1>10, FailOverTypes DEF ReadToml, Succeed, TypeOK, repoVars, faultVars
<1>11. ASSUME NEW p \in Pullers, Crash(p)
       PROVE  TypeOK'
  <2>1. crashes' \in 0..MaxCrashes
    BY <1>11, RepoAssumption DEF Crash, TypeOK
  <2> QED
    BY <1>11, <2>1, CutShortTypes DEF Crash, TypeOK, CutShort
<1>12. ASSUME NEW u \in URLs, MirrorSync(u)
       PROVE  TypeOK'
  <2>1. 1 \in URLs
    BY RepoAssumption DEF URLs
  <2> QED
    BY <1>12, <2>1 DEF MirrorSync, TypeOK, pullVars, faultVars
<1>13. ASSUME Push
       PROVE  TypeOK'
  <2>1. 1 \in URLs /\ LastCommit \in Nat
    BY RepoAssumption DEF URLs
  <2>2. upstream[1] + 1 \in Commits
    BY <1>13, <2>1 DEF Push, TypeOK, Commits
  <2> QED
    BY <1>13, <2>1, <2>2 DEF Push, TypeOK, pullVars, faultVars
<1>14. CASE UNCHANGED vars
  BY <1>14 DEF TypeOK, vars, repoVars, pullVars, faultVars
<1> QED
  BY <1>1, <1>2, <1>3, <1>4, <1>5, <1>6, <1>7, <1>8, <1>9, <1>10, <1>11, <1>12,
     <1>13, <1>14 DEF Next, PullStep

-----------------------------------------------------------------------------
(* A pull, action by action.                                                 *)

LEMMA RowsStay ==
    ASSUME UNCHANGED <<tree, head, db>>
    PROVE  /\ Synced' = Synced
           /\ HasRepoPackages' = HasRepoPackages
           /\ \A x : Right(x)' = Right(x)
<1>1. Index(head)' = Index(head)
  <2>1. PICK c : c = head
    OBVIOUS
  <2>2. Index(c)' = Index(c)
    BY IndexStays
  <2> QED
    BY <2>1, <2>2
<1> QED
  BY <1>1 DEF Synced, HasRepoPackages, Right

\* Outside the loop and before its plan, only the rows matter.
LEMMA RestKeeps ==
    ASSUME NEW p \in Pullers, pc'[p] \in {"idle", "fetch"}, Settles',
           result'[p] = "ok" => pc'[p] = "idle" /\ (torn' \/ Synced'),
           todo'[p] = {}, patch'[p] = <<>>
    PROVE  PullInv(p)'
  BY DEF PullInv, AtRest, AtInspect, AtCheckout, AtPlan, BeforeLoop, InLoop,
         AfterLoop

\* After a failure the next URL is tried, or the error returned.
LEMMA FailOverKeeps ==
    ASSUME TypeOK, NEW p \in Pullers, FailOver(p), result[p] # "ok", Settles',
           todo'[p] = {}, patch'[p] = <<>>
    PROVE  PullInv(p)'
<1>1. pc'[p] \in {"idle", "fetch"} /\ result'[p] # "ok"
  BY DEF FailOver, TypeOK
<1> QED
  BY <1>1, RestKeeps

\* A pull under way has no result yet.
LEMMA NotOkYet ==
    ASSUME NEW p \in Pullers, PullInv(p), pc[p] # "idle"
    PROVE  result[p] # "ok"
  BY DEF PullInv, AtRest

LEMMA BeginPullKeeps ==
    ASSUME TypeOK, NEW p \in Pullers, PullInv(p), BeginPull(p)
    PROVE  PullInv(p)'
<1>1. pc'[p] = "fetch" /\ result'[p] = "none"
  BY DEF BeginPull, TypeOK
<1>2. UNCHANGED <<tree, head, db, torn, todo, patch>> /\ pc[p] = "idle"
  BY DEF BeginPull, repoVars, faultVars
<1>3. Settles' /\ todo'[p] = {} /\ patch'[p] = <<>>
  BY <1>2, RowsStay DEF PullInv, AtRest, Settles
<1> QED
  BY <1>1, <1>3, RestKeeps

LEMMA FetchKeeps ==
    ASSUME TypeOK, NEW p \in Pullers, PullInv(p), Fetch(p)
    PROVE  PullInv(p)'
<1>1. /\ pc'[p] = "inspect" /\ pc[p] = "fetch"
      /\ fresh'[p] = (head' = NoCommit)
      /\ tracking' # NoCommit
  BY DEF Fetch, TypeOK, Commits, NoCommit
<1>2. UNCHANGED <<tree, head, db, torn, todo, patch, result>>
  BY DEF Fetch, faultVars
<1>3. Settles' /\ todo'[p] = {} /\ patch'[p] = <<>> /\ result'[p] # "ok"
  BY <1>1, <1>2, RowsStay, NotOkYet DEF PullInv, AtRest, Settles
<1> QED
  BY <1>1, <1>3 DEF PullInv, AtRest, AtInspect, AtCheckout, AtPlan, BeforeLoop,
                    InLoop, AfterLoop

LEMMA InspectKeeps ==
    ASSUME TypeOK, NEW p \in Pullers, PullInv(p), Inspect(p)
    PROVE  PullInv(p)'
<1>1. /\ pc[p] = "inspect"
      /\ rev'[p] = tracking
      /\ old'[p] = IF fresh[p] THEN NoCommit ELSE head
      /\ UNCHANGED <<tree, tracking, head, db, torn, fresh, todo, patch>>
  BY DEF Inspect, repoVars, faultVars, TypeOK
<1>2. /\ Settles' = Settles /\ Synced' = Synced
      /\ Settles
      /\ todo'[p] = {} /\ patch'[p] = <<>> /\ result[p] # "ok"
      /\ tracking # NoCommit
      /\ fresh[p] = (head = NoCommit)
  BY <1>1, RowsStay, NotOkYet DEF PullInv, AtRest, AtInspect, Settles
<1>3. CASE HasRepoPackages /\ Succeed(p)
  <2>1. pc'[p] = "idle" /\ (torn' \/ Synced')
    BY <1>1, <1>2, <1>3 DEF Succeed, TypeOK, Settles
  <2> QED
    BY <1>2, <2>1, RestKeeps
<1>4. CASE pc' = [pc EXCEPT ![p] = "checkout"] /\ UNCHANGED result
  <2>1. pc'[p] = "checkout" /\ result'[p] # "ok"
    BY <1>2, <1>4 DEF TypeOK
  <2>2. rev'[p] # NoCommit /\ old'[p] = head' /\ tracking' # NoCommit
        /\ fresh'[p] = (head' = NoCommit)
    BY <1>1, <1>2
  <2> QED
    BY <1>2, <2>1, <2>2 DEF PullInv, AtRest, AtInspect, AtCheckout, AtPlan,
                            BeforeLoop, InLoop, AfterLoop
<1> QED
  BY <1>3, <1>4 DEF Inspect

\* HEAD leaves the commit the rows are of; the pull remembers which it was.
LEMMA CheckoutKeeps ==
    ASSUME TypeOK, NEW p \in Pullers, PullInv(p), Checkout(p)
    PROVE  PullInv(p)'
<1>1. /\ pc[p] = "checkout" /\ pc'[p] = "plan"
      /\ head' = rev[p] /\ new'[p] = rev[p]
      /\ UNCHANGED <<tree, db, torn, fresh, old, result, todo, patch>>
  BY DEF Checkout, faultVars, TypeOK
<1>2. /\ Settles /\ rev[p] # NoCommit /\ old[p] = head
      /\ fresh[p] = (head = NoCommit)
      /\ todo[p] = {} /\ patch[p] = <<>> /\ result[p] # "ok"
  BY <1>1, NotOkYet DEF PullInv, AtRest, AtInspect, AtCheckout
<1>3. HasRepoPackages' = HasRepoPackages
  BY <1>1 DEF HasRepoPackages
<1>4. PICK c : c = old[p]
  OBVIOUS
<1>5. Index(c)' = Index(c) /\ old'[p] = c
  BY <1>1, <1>4, IndexStays
<1>6. torn' \/ ~HasRepoPackages' \/ (~fresh'[p] /\ db' = Index(c)')
  BY <1>1, <1>2, <1>3, <1>4, <1>5 DEF Settles, Synced
<1>7. BeforeLoop(p)'
  BY <1>5, <1>6 DEF BeforeLoop
<1>8. AtPlan(p)'
  BY <1>1, <1>2 DEF AtPlan
<1> QED
  BY <1>1, <1>2, <1>7, <1>8 DEF PullInv, AtRest, AtInspect, AtCheckout, InLoop,
                                AfterLoop

\* What is planned repairs all that the working copy's new commit changed.
LEMMA PlanKeeps ==
    ASSUME TypeOK, AllSteady, NEW p \in Pullers, PullInv(p), Plan(p)
    PROVE  PullInv(p)'
<1>1. /\ pc[p] = "plan" /\ pc'[p] = "apply"
      /\ todo'[p] = IF ~HasRepoPackages \/ fresh[p] THEN Loads(head)
                    ELSE Changes(old[p], new[p])
      /\ full'[p] = (~HasRepoPackages \/ fresh[p])
      /\ UNCHANGED <<tree, head, db, torn, fresh, old, new, patch, result>>
  BY DEF Plan, repoVars, faultVars, TypeOK
<1>2. /\ new[p] = head /\ head # NoCommit /\ head \in Commits
      /\ ~fresh[p] => old[p] # NoCommit
      /\ torn \/ ~HasRepoPackages \/ (~fresh[p] /\ db = Index(old[p]))
      /\ patch[p] = <<>> /\ result[p] # "ok"
  BY <1>1, NotOkYet DEF PullInv, AtPlan, AtRest, BeforeLoop, TypeOK
<1>3. ASSUME NEW s \in todo'[p]
      PROVE  Sound(p, s)'
  <2>1. Sound(p, s)
    BY <1>1, <1>2, LoadIsSound, ChangeIsSound
  <2> QED
    BY <1>1, <2>1, LoopContext
<1>4. ASSUME NEW x, \E s \in todo'[p] : \E i \in 1..Len(s) : x \in Sets(p, s[i])
      PROVE  Settled(p, x)'
  <2>1. \E s \in todo'[p] : \E i \in 1..Len(s) : x \in Sets(p, s[i])'
    BY <1>1, <1>4, LoopContext
  <2> QED
    BY <2>1 DEF Settled, Owed
<1>5. ASSUME NEW x, Right(x)
      PROVE  Settled(p, x)'
  BY <1>1, <1>5, RowsStay DEF Settled
<1>6. CASE ~HasRepoPackages \/ fresh[p]
  <2>1. \A x \in Declared(head) : Settled(p, x)'
    BY <1>1, <1>2, <1>4, <1>6, LoadsCoverDeclared
  <2>2. ASSUME ~torn, NEW x \in Pkgs, x \notin Declared(head)
        PROVE  Right(x)
    <3>1. db[x] = NoRow
      BY <1>2, <1>6, <2>2 DEF HasRepoPackages
    <3>2. \A f \in ScriptPaths : x \notin Declares(head, f)
      BY <1>2, <2>2, IndexOfDeclared DEF Declared
    <3> QED
      BY <1>2, <3>1, <3>2, IndexOfOther DEF Right
  <2>3. ASSUME ~fresh[p], NEW x \in Pkgs, x \notin Declared(head)
        PROVE  Right(x)
    <3>1. db[x] = NoRow
      BY <1>6, <2>3 DEF HasRepoPackages
    <3>2. \A f \in ScriptPaths : x \notin Declares(head, f)
      BY <1>2, <2>3, IndexOfDeclared DEF Declared
    <3> QED
      BY <1>2, <3>1, <3>2, IndexOfOther DEF Right
  <2>4. (torn /\ fresh[p]) \/ \A x \in Pkgs : Settled(p, x)'
    BY <1>5, <2>1, <2>2, <2>3
  <2>5. full'[p] /\ Declared(head)' = Declared(head)
    BY <1>1, <1>6, LoopContext
  <2>6. \A x \in Concerned(p)' : Settled(p, x)'
    BY <1>1, <2>1, <2>4, <2>5 DEF Concerned
  <2>7. InLoop(p)'
    BY <1>1, <1>2, <1>3, <2>4, <2>5, <2>6 DEF InLoop
  <2> QED
    BY <1>1, <1>2, <2>7 DEF PullInv, AtRest, AtInspect, AtCheckout, AtPlan,
                            BeforeLoop, AfterLoop
<1>7. CASE HasRepoPackages /\ ~fresh[p]
  <2>1. \A x \in Involved(p) : Settled(p, x)'
    BY <1>1, <1>2, <1>4, <1>7, ChangesCoverInvolved
  <2>2. ASSUME ~torn, NEW x \in Pkgs, x \notin Involved(p)
        PROVE  Right(x)
    BY <1>2, <1>7, <2>2, UninvolvedAgree DEF Right
  <2>3. ~torn => \A x \in Pkgs : Settled(p, x)'
    BY <1>5, <2>1, <2>2
  <2>4. ~full'[p] /\ Concerned(p)' = Involved(p)
    BY <1>1, <1>7, LoopContext DEF Concerned
  <2>5. InLoop(p)'
    BY <1>1, <1>2, <1>3, <1>7, <2>1, <2>3, <2>4 DEF InLoop
  <2> QED
    BY <1>1, <1>2, <2>5 DEF PullInv, AtRest, AtInspect, AtCheckout, AtPlan,
                            BeforeLoop, AfterLoop
<1> QED
  BY <1>6, <1>7

\* Both halves of a renamed file are sound.
LEMMA TailIsSound ==
    ASSUME NEW p, NEW s, Sound(p, s), Tail(s) # <<>>
    PROVE  Sound(p, Tail(s))
<1>1. s \in Seq(Action) /\ s # <<>>
  BY DEF Sound
<1>2. /\ Tail(s) \in Seq(Action)
      /\ Len(Tail(s)) = Len(s) - 1 /\ Len(s) \in Nat
      /\ \A i \in 1..Len(Tail(s)) : Tail(s)[i] = s[i + 1]
  BY <1>1
<1>3. ASSUME NEW i \in 1..Len(Tail(s)), ScriptOf(p, Tail(s)[i]).kind = "script",
             NEW x \in Sets(p, Tail(s)[i])
      PROVE  IF Tail(s)[i].act = "delete"
             THEN \/ Index(head)[x] = NoRow
                  \/ \E j \in 1..Len(Tail(s)) : i < j /\ x \in Sets(p, Tail(s)[j])
             ELSE ScriptOf(p, Tail(s)[i]).pkgs[x] = Index(head)[x]
  <2>1. i + 1 \in 1..Len(s) /\ Tail(s)[i] = s[i + 1]
    BY <1>2
  <2>2. IF s[i + 1].act = "delete"
        THEN \/ Index(head)[x] = NoRow
             \/ \E j \in 1..Len(s) : i + 1 < j /\ x \in Sets(p, s[j])
        ELSE ScriptOf(p, s[i + 1]).pkgs[x] = Index(head)[x]
    BY <1>3, <2>1 DEF Sound
  <2>3. ASSUME NEW j \in 1..Len(s), i + 1 < j
        PROVE  j - 1 \in 1..Len(Tail(s)) /\ i < j - 1 /\ Tail(s)[j - 1] = s[j]
    <3>1. j - 1 \in 1..Len(Tail(s)) /\ i < j - 1 /\ (j - 1) + 1 = j
      BY <1>2, <2>3
    <3> QED
      BY <1>2, <3>1
  <2> QED
    BY <2>1, <2>2, <2>3
<1> QED
  BY <1>2, <1>3 DEF Sound

\* An action makes right what it sets, or leaves it to the rest of its patch.
LEMMA ApplySettles ==
    ASSUME TypeOK, NEW p \in Pullers, NEW s \in Pending(p), Sound(p, s),
           ScriptOf(p, Head(s)).kind = "script",
           db' = IF Head(s).act = "delete"
                 THEN DeleteAll(db, ScriptOf(p, Head(s)))
                 ELSE InsertAll(db, ScriptOf(p, Head(s))),
           Take(p, s),
           UNCHANGED <<tree, head, old, new>>,
           NEW x \in Pkgs, Settled(p, x)
    PROVE  Settled(p, x)'
<1>1. s \in Seq(Action) /\ s # <<>>
  BY DEF Sound
<1>2. /\ Head(s) = s[1] /\ 1 \in 1..Len(s) /\ Len(s) \in Nat
      /\ Len(Tail(s)) = Len(s) - 1
      /\ \A i \in 1..Len(Tail(s)) : Tail(s)[i] = s[i + 1]
  BY <1>1
<1>3. /\ patch'[p] = Tail(s)
      /\ todo'[p] = IF patch[p] # <<>> THEN todo[p] ELSE todo[p] \ {s}
  BY DEF Take, TypeOK
<1>4. ASSUME \/ \E t \in todo'[p] : \E i \in 1..Len(t) : x \in Sets(p, t[i])
             \/ \E i \in 1..Len(Tail(s)) : x \in Sets(p, Tail(s)[i])
      PROVE  Owed(p, x)'
  <2>1. \/ \E t \in todo'[p] : \E i \in 1..Len(t) : x \in Sets(p, t[i])'
        \/ \E i \in 1..Len(Tail(s)) : x \in Sets(p, Tail(s)[i])'
    BY <1>4, LoopContext
  <2> QED
    BY <1>3, <2>1 DEF Owed
<1>5. ASSUME NEW i \in 1..Len(s), 1 < i, x \in Sets(p, s[i])
      PROVE  Owed(p, x)'
  <2>1. i - 1 \in 1..Len(Tail(s)) /\ (i - 1) + 1 = i
    BY <1>2, <1>5
  <2>2. Tail(s)[i - 1] = s[i]
    BY <1>2, <2>1
  <2> QED
    BY <1>4, <1>5, <2>1, <2>2
<1>6. ASSUME db'[x] = Index(head)[x]
      PROVE  Right(x)'
  <2>1. Index(head)' = Index(head)
    BY LoopContext
  <2> QED
    BY <1>6, <2>1 DEF Right
<1>7. CASE x \in Sets(p, s[1])
  <2>1. x \in DOMAIN ScriptOf(p, Head(s)).pkgs
    BY <1>2, <1>7 DEF Sets
  <2>2. CASE Head(s).act = "delete"
    <3>1. db'[x] = NoRow
      BY <2>1, <2>2 DEF DeleteAll
    <3>2. \/ Index(head)[x] = NoRow
          \/ \E j \in 1..Len(s) : 1 < j /\ x \in Sets(p, s[j])
      BY <1>2, <1>7, <2>2 DEF Sound
    <3> QED
      BY <1>5, <1>6, <3>1, <3>2 DEF Settled
  <2>3. CASE Head(s).act # "delete"
    <3>1. db'[x] = ScriptOf(p, Head(s)).pkgs[x]
      BY <2>1, <2>3 DEF InsertAll
    <3>2. ScriptOf(p, Head(s)).pkgs[x] = Index(head)[x]
      BY <1>2, <1>7, <2>3 DEF Sound
    <3> QED
      BY <1>6, <3>1, <3>2 DEF Settled
  <2> QED
    BY <2>2, <2>3
<1>8. CASE x \notin Sets(p, s[1])
  <2>1. x \notin DOMAIN ScriptOf(p, Head(s)).pkgs
    BY <1>2, <1>8 DEF Sets
  <2>2. db'[x] = db[x]
    BY <2>1 DEF DeleteAll, InsertAll
  <2>3. CASE Right(x)
    BY <1>6, <2>2, <2>3 DEF Right, Settled
  <2>4. CASE Owed(p, x)
    <3>0. PICK t \in todo[p] \cup {patch[p]} :
                  \E i \in 1..Len(t) : x \in Sets(p, t[i])
      BY <2>4 DEF Owed
    <3>1. PICK i \in 1..Len(t) : x \in Sets(p, t[i])
      BY <3>0
    <3>2. CASE t = s
      <4>1. 1 < i
        BY <1>2, <1>8, <3>1, <3>2
      <4> QED
        BY <1>5, <3>1, <3>2, <4>1 DEF Settled
    <3>3. CASE t # s
      <4>1. t # <<>>
        BY <3>1
      <4>2. t \in todo'[p]
        BY <1>3, <3>1, <3>3, <4>1 DEF Pending
      <4> QED
        BY <1>4, <3>1, <4>2 DEF Settled
    <3> QED
      BY <3>2, <3>3
  <2> QED
    BY <2>3, <2>4 DEF Settled
<1> QED
  BY <1>7, <1>8

LEMMA ApplyKeeps ==
    ASSUME TypeOK, NEW p \in Pullers, PullInv(p), Apply(p)
    PROVE  PullInv(p)'
<1>1. /\ pc[p] = "apply" /\ pc'[p] = "apply"
      /\ UNCHANGED <<tree, head, torn, fresh, old, new, full, result>>
  BY DEF Apply, faultVars
<1>2. PICK s \in Pending(p) :
         /\ ScriptOf(p, Head(s)).kind = "script"
         /\ db' = IF Head(s).act = "delete"
                  THEN DeleteAll(db, ScriptOf(p, Head(s)))
                  ELSE InsertAll(db, ScriptOf(p, Head(s)))
         /\ Take(p, s)
  BY DEF Apply
<1>3. InLoop(p) /\ Sound(p, s)
  BY <1>1, PendingIsSound DEF PullInv
<1>4. \A x \in Pkgs : Settled(p, x) => Settled(p, x)'
  BY <1>1, <1>2, <1>3, ApplySettles
<1>5. /\ patch'[p] = Tail(s)
      /\ todo'[p] \subseteq todo[p]
  BY <1>2 DEF Take, TypeOK
<1>6. \A t \in todo'[p] : Sound(p, t)'
  BY <1>1, <1>3, <1>5, LoopContext DEF InLoop
<1>7. (patch[p] # <<>> => Sound(p, patch[p]))'
  <2>1. PICK t : t = Tail(s)
    OBVIOUS
  <2>2. t # <<>> => Sound(p, t)'
    BY <1>1, <1>3, <2>1, TailIsSound, LoopContext
  <2> QED
    BY <1>5, <2>1, <2>2
<1>8. Concerned(p)' = Concerned(p) /\ Concerned(p) \subseteq Pkgs
  <2>1. full[p] \in BOOLEAN /\ fresh[p] \in BOOLEAN
    BY DEF TypeOK
  <2> QED
    BY <1>1, <2>1, ConcernStays DEF Concerned, Declared, Involved
<1>9. InLoop(p)'
  BY <1>1, <1>3, <1>4, <1>6, <1>7, <1>8 DEF InLoop
<1> QED
  BY <1>1, <1>9, NotOkYet DEF PullInv, AtRest, AtInspect, AtCheckout, AtPlan,
                              BeforeLoop, AfterLoop

\* A pull that is cut short after HEAD moved tears rows and commit apart.
LEMMA CutShortSettles ==
    ASSUME TypeOK, NEW p \in Pullers, PullInv(p), pc[p] # "idle", CutShort(p)
    PROVE  /\ Settles'
           /\ todo'[p] = {} /\ patch'[p] = <<>>
<1>1. /\ todo'[p] = {} /\ patch'[p] = <<>>
      /\ UNCHANGED <<tree, db>>
  BY DEF CutShort, Forget, TypeOK
<1>2. HasRepoPackages' = HasRepoPackages
  BY <1>1 DEF HasRepoPackages
<1>3. torn' = \/ torn
              \/ HasRepoPackages
                 /\ (pc[p] \in {"plan", "apply"} \/ head' # head)
  BY DEF CutShort
<1>4. Settles'
  <2>1. CASE torn \/ ~HasRepoPackages
    BY <1>2, <1>3, <2>1 DEF Settles, HasRepoPackages
  <2>2. CASE HasRepoPackages /\ (pc[p] \in {"plan", "apply"} \/ head' # head)
    BY <1>3, <2>2 DEF Settles
  <2>3. CASE ~torn /\ HasRepoPackages /\ head' = head /\ pc[p] \notin {"plan", "apply"}
    <3>1. Synced
      BY <2>3 DEF PullInv, AtRest, AfterLoop, Settles, TypeOK
    <3> QED
      BY <1>1, <2>3, <3>1, RowsStay DEF Settles
  <2> QED
    BY <2>1, <2>2, <2>3
<1> QED
  BY <1>1, <1>4

LEMMA ApplyFailsKeeps ==
    ASSUME TypeOK, NEW p \in Pullers, PullInv(p), ApplyFails(p)
    PROVE  PullInv(p)'
<1>1. pc[p] = "apply" /\ CutShort(p) /\ FailOver(p)
  BY DEF ApplyFails
<1>2. Settles' /\ todo'[p] = {} /\ patch'[p] = <<>> /\ result[p] # "ok"
  BY <1>1, CutShortSettles, NotOkYet
<1> QED
  BY <1>1, <1>2, FailOverKeeps

LEMMA StageFailsKeeps ==
    ASSUME TypeOK, NEW p \in Pullers, PullInv(p), StageFails(p)
    PROVE  PullInv(p)'
<1>1. pc[p] # "idle" /\ CutShort(p) /\ FailOver(p)
  BY DEF StageFails
<1>2. Settles' /\ todo'[p] = {} /\ patch'[p] = <<>> /\ result[p] # "ok"
  BY <1>1, CutShortSettles, NotOkYet
<1> QED
  BY <1>1, <1>2, FailOverKeeps

\* Nothing is owed any more.
LEMMA LoopEndsKeeps ==
    ASSUME TypeOK, NEW p \in Pullers, PullInv(p), LoopEnds(p)
    PROVE  PullInv(p)'
<1>1. /\ pc[p] = "apply" /\ pc'[p] = "finish"
      /\ UNCHANGED <<tree, head, db, torn, fresh, old, new, full, todo, patch, result>>
  BY DEF LoopEnds, repoVars, faultVars, TypeOK
<1>2. todo[p] = {} /\ patch[p] = <<>>
  BY DEF LoopEnds, Pending
<1>3. \A x : ~Owed(p, x)
  <2>1. 1..Len(patch[p]) = {}
    BY <1>2
  <2> QED
    BY <1>2, <2>1 DEF Owed
<1>4. InLoop(p) /\ AtPlan(p)
  BY DEF PullInv
<1>5. /\ \A x \in Concerned(p) : Right(x)
      /\ ~full[p] => ~fresh[p]
      /\ ~torn => \A x \in Pkgs : Right(x)
  BY <1>1, <1>3, <1>4 DEF InLoop, Settled
<1>6. ~torn => Synced
  BY <1>1, <1>4, <1>5, RightIsSynced DEF AtPlan
<1>7. AfterLoop(p)'
  BY <1>1, <1>5, <1>6, ConcernStays, RowsStay DEF AfterLoop
<1> QED
  BY <1>1, <1>2, <1>4, <1>7, NotOkYet DEF PullInv, AtRest, AtInspect, AtCheckout,
                                          AtPlan, BeforeLoop, InLoop

LEMMA ReadTomlKeeps ==
    ASSUME TypeOK, NEW p \in Pullers, PullInv(p), ReadToml(p)
    PROVE  PullInv(p)'
<1>1. /\ pc[p] = "finish"
      /\ UNCHANGED <<tree, head, db, torn, todo, patch>>
      /\ FailOver(p) \/ Succeed(p)
  BY DEF ReadToml, repoVars, faultVars
<1>2. /\ torn' \/ Synced'
      /\ todo'[p] = {} /\ patch'[p] = <<>> /\ result[p] # "ok"
  BY <1>1, RowsStay, NotOkYet DEF PullInv, AfterLoop, AtRest
<1>3. Settles'
  BY <1>2 DEF Settles
<1>4. CASE FailOver(p)
  BY <1>2, <1>3, <1>4, FailOverKeeps
<1>5. CASE Succeed(p)
  <2>1. pc'[p] = "idle"
    BY <1>5 DEF Succeed, TypeOK
  <2> QED
    BY <1>2, <1>3, <2>1, RestKeeps
<1> QED
  BY <1>1, <1>4, <1>5

LEMMA CrashKeeps ==
    ASSUME TypeOK, NEW p \in Pullers, PullInv(p), Crash(p)
    PROVE  PullInv(p)'
<1>1. pc[p] # "idle" /\ CutShort(p) /\ pc'[p] = "idle" /\ result'[p] = "killed"
  BY DEF Crash, TypeOK
<1> QED
  BY <1>1, CutShortSettles, RestKeeps

\* What is published meanwhile is not the working copy's concern.
LEMMA WorldKeeps ==
    ASSUME NEW p \in Pullers, PullInv(p),
           UNCHANGED <<tree, tracking, head, db, pullVars, torn>>
    PROVE  PullInv(p)'
<1>1. UNCHANGED <<tree, tracking, head, db, torn, pc, fresh, old, rev, new, full,
                  todo, patch, result>>
  BY DEF pullVars
<1>2. Settles' = Settles /\ Synced' = Synced
  BY <1>1, RowsStay DEF Settles
<1>3. AtRest(p)' /\ AtInspect(p)' /\ AtCheckout(p)' /\ AtPlan(p)'
  BY <1>1, <1>2 DEF PullInv, AtRest, AtInspect, AtCheckout, AtPlan
<1>4. BeforeLoop(p)'
  <2>1. PICK c : c = old[p]
    OBVIOUS
  <2>2. Index(c)' = Index(c) /\ old'[p] = c
    BY <1>1, <2>1, IndexStays
  <2>3. pc'[p] = "plan" =>
           torn' \/ ~HasRepoPackages' \/ (~fresh'[p] /\ db' = Index(c)')
    BY <1>1, <2>1, <2>2, RowsStay DEF PullInv, BeforeLoop
  <2> QED
    BY <2>2, <2>3 DEF BeforeLoop
<1>5. InLoop(p)'
  <2>1. \A x : Settled(p, x)' = Settled(p, x)
    BY <1>1, LoopContext, RowsStay DEF Settled, Owed
  <2>2. \A s : Sound(p, s)' = Sound(p, s)
    BY <1>1, LoopContext
  <2>3. Concerned(p)' = Concerned(p)
    BY <1>1, ConcernStays
  <2>4. PICK t : t = patch[p]
    OBVIOUS
  <2>5. (patch[p] # <<>> => Sound(p, patch[p])) =>
           (patch[p] # <<>> => Sound(p, patch[p]))'
    BY <1>1, <2>2, <2>4
  <2> QED
    BY <1>1, <2>1, <2>2, <2>3, <2>5 DEF PullInv, InLoop
<1>6. AfterLoop(p)'
  BY <1>1, <1>2, ConcernStays, RowsStay DEF PullInv, AfterLoop
<1> QED
  BY <1>3, <1>4, <1>5, <1>6 DEF PullInv

-----------------------------------------------------------------------------
(* The theorems.                                                             *)

LEMMA InitIsSound ==
    ASSUME Init
    PROVE  SyncInv
<1>1. TypeOK
  <2>1. 1 \in URLs /\ 1 \in Commits
    BY RepoAssumption DEF URLs, Commits
  <2>2. <<>> \in Seq(Action) /\ 0 \in 0..MaxFaults /\ 0 \in 0..MaxCrashes
    BY RepoAssumption
  <2> QED
    BY <2>1, <2>2 DEF Init, TypeOK, NoRow
<1>2. ~HasRepoPackages
  BY DEF Init, HasRepoPackages
<1>3. ASSUME NEW p \in Pullers
      PROVE  PullInv(p)
  BY <1>2, <1>3 DEF Init, PullInv, AtRest, AtInspect, AtCheckout, AtPlan,
                    BeforeLoop, InLoop, AfterLoop, Settles
<1> QED
  BY <1>1, <1>3 DEF SyncInv

LEMMA StepIsSound ==
    ASSUME OnePuller, AllSteady, SyncInv, [Next]_vars
    PROVE  SyncInv'
<1>1. TypeOK /\ TypeOK'
  BY TypesStay DEF SyncInv
<1>2. PICK p : Pullers = {p}
  BY DEF OnePuller
<1>3. p \in Pullers /\ PullInv(p)
  BY <1>2 DEF SyncInv
<1>4. BeginPull(p) => PullInv(p)'
  BY <1>1, <1>3, BeginPullKeeps
<1>5. Fetch(p) => PullInv(p)'
  BY <1>1, <1>3, FetchKeeps
<1>6. StageFails(p) => PullInv(p)'
  BY <1>1, <1>3, StageFailsKeeps
<1>7. Inspect(p) => PullInv(p)'
  BY <1>1, <1>3, InspectKeeps
<1>8. Checkout(p) => PullInv(p)'
  BY <1>1, <1>3, CheckoutKeeps
<1>9. Plan(p) => PullInv(p)'
  BY <1>1, <1>3, PlanKeeps
<1>10. Apply(p) => PullInv(p)'
  BY <1>1, <1>3, ApplyKeeps
<1>11. ApplyFails(p) => PullInv(p)'
  BY <1>1, <1>3, ApplyFailsKeeps
<1>12. LoopEnds(p) => PullInv(p)'
  BY <1>1, <1>3, LoopEndsKeeps
<1>13. ReadToml(p) => PullInv(p)'
  BY <1>1, <1>3, ReadTomlKeeps
<1>14. Crash(p) => PullInv(p)'
  BY <1>1, <1>3, CrashKeeps
<1>15. Push => PullInv(p)'
  BY <1>3, WorldKeeps DEF Push, faultVars
<1>16. (\E u \in URLs : MirrorSync(u)) => PullInv(p)'
  BY <1>3, WorldKeeps DEF MirrorSync, faultVars
<1>17. UNCHANGED vars => PullInv(p)'
  BY <1>3, WorldKeeps DEF vars, repoVars, faultVars
<1>18. PullInv(p)'
  BY <1>2, <1>4, <1>5, <1>6, <1>7, <1>8, <1>9, <1>10, <1>11, <1>12, <1>13, <1>14, <1>15, <1>16, <1>17 DEF Next, PullStep
<1> QED
  BY <1>1, <1>2, <1>18 DEF SyncInv

\* One pull at a time of a steady repository keeps the invariant of pull.go.
THEOREM PullInvariance ==
    ASSUME OnePuller, AllSteady
    PROVE  Spec => []SyncInv
<1>1. Init => SyncInv
  BY InitIsSound
<1>2. SyncInv /\ [Next]_vars => SyncInv'
  BY StepIsSound
<1> QED
  BY <1>1, <1>2, PTL DEF Spec

\* Pulls stay within the types, and the URLs tried within the list
\* (pull.go 90-113).
THEOREM PullsAreTyped ==
    ASSUME OnePuller, AllSteady
    PROVE  Spec => []TypeOK
<1>1. SyncInv => TypeOK
  BY DEF SyncInv
<1> QED
  BY <1>1, PullInvariance, PTL

\* Whatever mirrors lag, stages fail, scripts break or pulls are killed: rows
\* nothing tore are those of the commit checked out (pull.go 220-248).
THEOREM RowsFollowWorkingCopy ==
    ASSUME OnePuller, AllSteady
    PROVE  Spec => []SyncedUnlessTorn
<1>1. SyncInv => SyncedUnlessTorn
  BY DEF SyncInv, OnePuller, PullInv, AtRest, Settles, Synced, SyncedUnlessTorn,
         Quiet
<1> QED
  BY <1>1, PullInvariance, PTL

\* A loop that ran to its end left nothing behind that it was for, whatever was
\* torn before (pull.go 353-479, 490-593).
THEOREM LoopsAreComplete ==
    ASSUME OnePuller, AllSteady
    PROVE  Spec => []AppliedIsRight
<1>1. ASSUME SyncInv, NEW p \in Pullers, pc[p] = "finish"
      PROVE  /\ TypeOK /\ new[p] = head /\ head \in Commits
             /\ ~full[p] => old[p] \in Commits
             /\ \A x \in Concerned(p) : Right(x)
  BY <1>1 DEF SyncInv, PullInv, AtPlan, AfterLoop, TypeOK
<1>2. ASSUME SyncInv, NEW p \in Pullers, pc[p] = "finish", full[p],
             NEW f \in Sources(head), NEW x \in Declares(head, f)
      PROVE  db[x] = tree[head][f].pkgs[x]
  <2>1. f \in ScriptPaths
    BY <1>1, <1>2, SourcesArePresent
  <2>2. x \in Pkgs /\ Index(head)[x] = tree[head][f].pkgs[x]
    BY <1>1, <1>2, <2>1, IndexOfDeclared
  <2>3. x \in Concerned(p)
    BY <1>1, <1>2, <2>2 DEF Concerned, Declared, TypeOK
  <2> QED
    BY <1>1, <1>2, <2>2, <2>3 DEF Right
<1>3. ASSUME SyncInv, NEW p \in Pullers, pc[p] = "finish", full[p], ~fresh[p]
      PROVE  db = Index(head)
  <2>1. \A x \in Pkgs : Right(x)
    BY <1>1, <1>3 DEF Concerned
  <2> QED
    BY <1>1, <1>3, <2>1, RightIsSynced DEF Synced, SyncInv, PullInv, AtPlan
<1>4. ASSUME SyncInv, NEW p \in Pullers, pc[p] = "finish", ~full[p],
             NEW f \in ScriptPaths, tree[old[p]][f] # tree[new[p]][f],
             NEW x \in Declares(old[p], f) \cup Declares(new[p], f)
      PROVE  db[x] = Index(new[p])[x]
  <2>1. f \in Files
    BY RepoAssumption
  <2>2. x \in Pkgs
    BY <1>1, <1>4, <2>1, PathOfCommit
  <2>3. x \in Concerned(p)
    BY <1>4, <2>2 DEF Concerned, Involved
  <2> QED
    BY <1>1, <1>4, <2>3 DEF Right
<1>5. SyncInv => AppliedIsRight
  BY <1>2, <1>3, <1>4 DEF AppliedIsRight
<1> QED
  BY <1>5, PullInvariance, PTL
=============================================================================
