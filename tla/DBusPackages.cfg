SPECIFICATION Spec
CONSTANTS
    Clients = {c1, c2}
    Pkgs = {app}
    MaxObjects = 2
    MaxCalls = 3
INVARIANTS TypeOK OneObject FlagIsTrue
PROPERTIES RegisteredIsServed
\* The bound on commands is reached.
CHECK_DEADLOCK FALSE
