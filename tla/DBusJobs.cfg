SPECIFICATION Spec
CONSTANTS
    Clients = {c1, c2, c3}
    FirstID = 47
    MaxJobs = 1
    AllowCancel = TRUE
INVARIANTS
    TypeOK
    SuccessIsEarned
    OneVerdict
    ForgottenOnlyWhenOver
PROPERTIES
    WaiterAnswered
    JobsAreForgotten
    CompletedIsAnnounced
\* The bound on jobs is reached or the daemon is gone.
CHECK_DEADLOCK FALSE
