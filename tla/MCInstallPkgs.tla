----------------------------- MODULE MCInstallPkgs -----------------------------
EXTENDS InstallPkgs, TLC

MCNames  == {"a", "b", "c"}
MCSystem == {"s"}

\* Every way to give the pairs a kind of dependency.
Kinds == {"none", "runtime", "build"}
WorldsOf(pairs) ==
    {[k \in {"runtime", "build"} |->
        [m \in MCNames |-> {n \in MCNames \cup MCSystem :
                                <<m, n>> \in pairs /\ kind[<<m, n>>] = k}]] :
        kind \in [pairs -> Kinds]}

\* Chains, diamonds and the cycle a-b-c; and cycles of two that share b.
MCWorlds ==
    WorldsOf({<<"a", "b">>, <<"a", "c">>, <<"b", "c">>, <<"c", "a">>, <<"c", "s">>})
    \cup WorldsOf({<<"a", "b">>, <<"b", "a">>, <<"b", "c">>, <<"c", "b">>})

MCRequests == {<<"a", "a">>, <<"a", "b">>, <<"s", "c">>}
MCBefore   == {{}, {"b"}, {"s", "c"}}
MCCached   == {{}, {"a"}, {"b", "c"}}
=============================================================================
