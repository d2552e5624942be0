--------------------------- MODULE MCBuildPackage ---------------------------
EXTENDS BuildPackage, TLC

CONSTANTS p1, p2, app, tool, url

\* An application and the tool it is built with need each other.
MCSources == (app :> <<url>>) @@ (tool :> <<>>)
MCPkgs    == (app :> {"app"}) @@ (tool :> {"tool"})
MCDepPkgs == (app :> {<<"tool">>}) @@ (tool :> {<<"app">>})
MCWant    == [d \in Dirs |-> [u \in Urls |-> "v1"]]
MCKinds   == [Urls -> {"archive", "git", "gitrev"}]
Symmetric == Permutations(Procs)
=============================================================================
