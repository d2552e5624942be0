SPECIFICATION Spec
CONSTANTS
    Clients = {c1, c2}
    FirstID = 46
    MaxJobs = 2
    AllowCancel = FALSE
SYMMETRY ClientSymmetry
PROPERTIES
    KeepsPromise
\* The bound on jobs is reached or the daemon is gone.
CHECK_DEADLOCK FALSE
