SPECIFICATION Spec
CONSTANTS
    Pullers = {p1}
    NumURLs = 1
    LastCommit = 3
    Files <- MCFiles
    ScriptPaths <- MCScriptPaths
    RootScript = "root"
    Pkgs <- MCPkgs
    Histories <- Steady
    BadToml = {}
    MaxFaults = 0
    MaxCrashes = 1
INVARIANT SyncedOnSuccess
