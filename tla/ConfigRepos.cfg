SPECIFICATION Spec
CONSTANTS
    p1 = p1
    p2 = p2
    Procs = {p1, p2}
    Names = {"default", "extra"}
    Urls = {"u1", "u2"}
    Refs = {"main"}
    DefaultName = "default"
    DefaultUrl = "u1"
    DefaultRef = "main"
    Options = {"on", "off"}
    DefaultOption = "on"
    EnvOption = "off"
    MaxCommands = 3
    MaxTogether = 2
INVARIANTS TypeOK ConfigIsKept NoOrphans RowsFollowConfig
SYMMETRY Symmetric
CHECK_DEADLOCK FALSE
