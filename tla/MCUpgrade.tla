------------------------------- MODULE MCUpgrade -------------------------------
EXTENDS Upgrade

Ask(name, repo, op, ver) == [name |-> name, repo |-> repo, op |-> op, ver |-> ver]
V(epoch, ver, rel) == [epoch |-> epoch, ver |-> ver, rel |-> rel]

\* toolkit comes before tool and has tool in its name; it is one of the
\* packages of the script kit.  tool needs lib by what lib provides, and lib
\* needs toolkit.
MCPackages == <<"toolkit+r", "lib+r", "tool+r">>
About1(name, base, provides, depends) ==
    [name |-> name, repo |-> "r", base |-> base, provides |-> provides, depends |-> depends]
MCAbout ==
    [p \in {"toolkit+r", "lib+r", "tool+r"} |->
        CASE p = "toolkit+r" -> About1("toolkit", "kit", {}, {})
          [] p = "lib+r"     -> About1("lib", NoName, {"so"}, {Ask("toolkit", NoName, "none", 0)})
          [] p = "tool+r"    -> About1("tool", NoName, {}, {Ask("so", NoName, ">=", 2)})]
MCNamesWith == [n \in {"toolkit", "lib", "tool"} |->
                   IF n = "tool" THEN {"tool", "toolkit"} ELSE {n}]

MCVersions == {V(0, 1, 1), V(0, 2, 0), V(0, 2, 1), V(1, 1, 0)}
MCRequests == { {Ask("tool", NoName, "none", 0)},
                {Ask("tool", "r", "none", 0), Ask("kit", NoName, "none", 0)},
                {Ask("toolkit", NoName, "none", 0), Ask("lib", NoName, "=", 2)} }

\* The system's manager is preferred for nothing, or has a toolkit of its own
\* and lists the installed tool of the repository r.
MCOffers == {{}, {Ask("toolkit", NoName, "none", 0), Ask("tool", "r", "none", 0)}}

\* lib and tool in several versions without toolkit; and tool and toolkit with a
\* lib to be brought up to date.
State(kits, libs, tools) ==
    {f \in [Pkgs -> Held] :
        f["toolkit+r"] \in kits /\ f["lib+r"] \in libs /\ f["tool+r"] \in tools}
MCWorlds ==
    [rows      : State({NoVersion}, {NoVersion, V(0, 2, 1), V(1, 1, 0)}, {NoVersion, V(0, 2, 0), V(0, 2, 1)}),
     installed : State({NoVersion}, {NoVersion, V(0, 1, 1), V(1, 1, 0)}, {NoVersion, V(0, 2, 0)})]
    \cup
    [rows      : State({V(0, 2, 1)}, {V(0, 2, 1)}, {NoVersion, V(0, 2, 1), V(1, 1, 0)}),
     installed : State({NoVersion, V(0, 1, 1), V(1, 1, 0)}, {V(0, 1, 1)},
                       {NoVersion, V(0, 1, 1), V(0, 2, 1)})]
=============================================================================
