SPECIFICATION Spec
CONSTANTS
    Id = "alt"
    Like <- MCLike
    Arch = "arm6"
    ArmVersion = 6
    Arm <- MCArm
    Base <- MCBase
    UserLangs = {"ru_RU", "C"}
    Vars <- MCVars
    Values <- MCValues
    Malformed <- MCMalformed
    Unset = Unset
    Target <- MCTarget
    Scripts <- MCScripts
INVARIANTS TypeOK SeenIsBest PlanMatchesBuild
