------------------------------ MODULE MCRepoSync ------------------------------
EXTENDS RepoSync, TLC

\* Paths: alr.sh, a/alr.sh, b/alr.sh, and c/d/alr.sh, which is too deep.
MCFiles       == {"root", "a", "b", "deep"}
MCScriptPaths == {"root", "a", "b"}
MCPkgs        == {"x", "y", "z"}

Nothing    == [kind |-> "absent", pkgs |-> <<>>]
Broken     == [kind |-> "broken", pkgs |-> <<>>]
Script(fn) == [kind |-> "script", pkgs |-> fn]
Dir(fn)    == [f \in MCFiles |-> IF f \in DOMAIN fn THEN fn[f] ELSE Nothing]

\* Scripts come, change and go; what a script declares never changes.
SteadyTree == <<
    Dir("a" :> Script("x" :> 1) @@ "b" :> Script("y" :> 1 @@ "z" :> 1)),
    Dir("a" :> Script("x" :> 2) @@ "deep" :> Script("y" :> 9)),
    Dir("b" :> Script("y" :> 2 @@ "z" :> 1)) >>

\* The second commit has a script that does not parse; the third drops it and
\* renames the other.
FaultyTree == <<
    Dir("a" :> Script("x" :> 1) @@ "b" :> Script("y" :> 1)),
    Dir("a" :> Broken @@ "b" :> Script("y" :> 2)),
    Dir("root" :> Script("y" :> 3)) >>

Steady     == {SteadyTree}
Everything == {SteadyTree, FaultyTree}

\* The theorems' hypothesis: rows of a package its script no longer declares
\* stay (pull.go 458), whatever the properties say of the others.
ASSUME SteadyAssumption == \A h \in Histories : IsSteady(h)
=============================================================================
