SPECIFICATION Spec
CONSTANTS
    Packages <- MCPackages
    About <- MCAbout
    NamesWith <- MCNamesWith
    NoName = NoName
    Versions <- MCVersions
    NoVersion = NoVersion
    Requests <- MCRequests
    Offers <- MCOffers
    Worlds <- MCWorlds
    MaxCalls = 1
    MaxEvents = 2
INVARIANTS
    TypeOK
    NothingLeft
PROPERTY NeverLowers
\* The bounds on commands and events are reached.
CHECK_DEADLOCK FALSE
