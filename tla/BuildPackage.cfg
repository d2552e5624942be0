SPECIFICATION Spec
CONSTANTS
    p1 = p1
    p2 = p2
    app = app
    tool = tool
    url = url
    NoDir = NoDir
    Procs = {p1, p2}
    Urls = {url}
    Dirs = {app, tool}
    Sources <- MCSources
    Kinds <- MCKinds
    Contents = {"v1", "v2"}
    Skip = "SKIP"
    Want <- MCWant
    Names = {"app", "tool"}
    Pkgs <- MCPkgs
    DepPkgs <- MCDepPkgs
    NoName = "none"
    MayEdit = TRUE
    MaxBuilds = 2
INVARIANTS TypeOK FilesAreSound CacheIsVerified
PROPERTIES WholeStaysWhole
SYMMETRY Symmetric
CHECK_DEADLOCK FALSE
