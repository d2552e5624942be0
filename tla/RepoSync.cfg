SPECIFICATION Spec
CONSTANTS
    Pullers = {p1}
    NumURLs = 2
    LastCommit = 3
    Files <- MCFiles
    ScriptPaths <- MCScriptPaths
    RootScript = "root"
    Pkgs <- MCPkgs
    Histories <- Everything
    BadToml = {2}
    MaxFaults = 2
    MaxCrashes = 2
INVARIANT TypeOK
INVARIANT SyncedUnlessTorn
INVARIANT AppliedIsRight
PROPERTY PullEnds
