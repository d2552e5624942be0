-------------------------- MODULE MCPackageContents --------------------------
(* A script with a few commands, names with brackets and names that collide. *)
EXTENDS PackageContents, TLC

Cmd(d, t) == [do |-> d, to |-> t]
MCInstalls ==
    {Cmd("binary", <<"tool">>), Cmd("binary", <<"b[1]">>),
     Cmd("binary", <<"a_b">>), Cmd("binary", <<"a", "b">>),
     Cmd("config", <<"tool">>), Cmd("library", <<"tool">>), Cmd("manual", <<"tool.1">>),
     Cmd("manual", <<"tool">>), Cmd("icon", <<"tool">>), Cmd("completion", <<"zsh", "tool">>),
     Cmd("completion", <<"csh", "tool">>)}
    \cup {Cmd(d, <<"tool">>) : d \in {"systemd", "systemd_user", "license", "desktop"}}

Made(p, e) == [at |-> p, entry |-> e]
MCMakings ==
    {Made(<<"usr", "bin", "tool">>, [kind |-> "link", of |-> <<"a_b">>]),
     Made(<<"bin", "tool">>, [kind |-> "abslink", of |-> <<"usr", "bin", "tool">>]),
     Made(<<"usr", "share", "doc", "tool", "b[1]">>, File(<<"tool">>)),
     Made(<<"usr", "share", "doc", "tool", "link">>, [kind |-> "link", of |-> <<"b[1]">>]),
     Made(<<"usr", "share", "b[1]">>, Dir),
     Made(<<"usr", "share", "locale", "ru", "tool.mo">>, File(<<"tool">>)),
     Made(<<"usr", "share", "dbus-1">>, Dir)}

Look(c, at, pattern) == [cmd |-> c, at |-> at, pattern |-> pattern]
MCFinds ==
    {Look("find", <<"usr", "bin">>, ""), Look("find", <<"usr", "bin">>, "*"),
     Look("find", <<"usr">>, "**"), Look("find", <<"usr", "bin", "b[1]">>, ""),
     Look("bin", Root, "b[1]"), Look("share", <<"doc">>, "*"), Look("lang", Root, "tool"),
     Look("man", <<"1">>, "tool.1"), Look("man", <<"*">>, "*"),
     Look("echo", <<"usr", "bin", "*">>, "")}
    \cup {Look(c, Root, "*") : c \in
            {"lang", "doc", "bin", "lib", "include", "share", "config", "systemd",
             "systemd_user", "license", "sbin", "icons", "desktop", "dbus", "polkit"}}

MCSystems ==
    {[libDir |-> Root, distro |-> "arch", tuple |-> ""],
     [libDir |-> Root, distro |-> "debian", tuple |-> "x86_64-linux-gnu"],
     [libDir |-> Root, distro |-> "fedora", tuple |-> "x86_64-linux-gnu"],
     [libDir |-> <<"opt">>, distro |-> "debian", tuple |-> ""]}

MCSettings ==
    [lists : BOOLEAN, jailed : BOOLEAN, profiles : {TRUE}]
    \cup [lists : {FALSE}, jailed : {TRUE}, profiles : {FALSE}]

MCManSection == [n \in {"tool.1"} |-> "1"]
=============================================================================
