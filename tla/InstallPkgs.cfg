SPECIFICATION Spec
CONSTANTS
    Names <- MCNames
    System <- MCSystem
    NoPkg = "none"
    Worlds <- MCWorlds
    Requests <- MCRequests
    Before <- MCBefore
    Cached <- MCCached
INVARIANTS
    TreeIsComplete
    OrderIsTopological
    TypeOK
    NothingBeforeConsent
    SuccessInstallsAll
PROPERTY DepsReady
\* The call returns.
CHECK_DEADLOCK FALSE
