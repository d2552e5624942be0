SPECIFICATION Spec
CONSTANTS
    Clients = {c1, c2}
    FirstID = 47
    MaxJobs = 1
    AllowCancel = TRUE
INVARIANTS
    NeverPanics
\* The bound on jobs is reached or the daemon is gone.
CHECK_DEADLOCK FALSE
