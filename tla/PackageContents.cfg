SPECIFICATION ContentsSpec
CONSTANTS
    Odd = {"b[1]"}
    Catalogues = {"tool.mo"}
    ManSection <- MCManSection
    Installs <- MCInstalls
    Makings <- MCMakings
    Finds <- MCFinds
    Systems <- MCSystems
    Settings <- MCSettings
    MaxCommands = 3
    MaxFinds = 0
INVARIANTS ContentsTypeOK InstalledIsFound PackageIsComplete ProgramsSurvive
\* The script ends, or one of its commands fails.
CHECK_DEADLOCK FALSE
