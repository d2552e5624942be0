-------------------------- MODULE MCPackageFields --------------------------
EXTENDS PackageFields, TLC

\* A machine with an arm6 and one distribution.
MCLike == <<"rhel">>
MCTarget  == <<"app">>
MCArm  == (5 :> "arm5") @@ (6 :> "arm6")
MCBase == ("en" :> "en") @@ ("ru_RU" :> "ru")

\* The field itself, some overrides of it, and one that is written without
\* the underscore.
Var(g, k) == [glued |-> g, key |-> k]
Glued == Var(TRUE, <<"arm5">>)
MCVars == {Var(FALSE, << >>), Var(FALSE, <<"arm5">>), Var(FALSE, <<"alt">>), Var(FALSE, <<"arm6", "alt">>),
           Var(FALSE, <<"ru">>), Glued}

\* A value tells where it was set; one does not decode.
Value(where, v) == [where |-> where, var |-> v]
MCValues    == {Value(where, v) : where \in {"script", "meta", "other"}, v \in MCVars}
MCMalformed == {Value("meta", Glued)}

Settings(where, vs) ==
    {[v \in MCVars |-> IF v \in s THEN Value(where, v) ELSE Unset] : s \in SUBSET vs}

\* One package; two, of which one may have a meta function of its own or for
\* arm5; two, of which one is called like an override of the other.
Plain == {Var(FALSE, << >>)}
MCScripts ==
    {[pkgs |-> {<<"app">>}, base |-> b, metas |-> << >>] : b \in
        Settings("script", MCVars \ {Glued}) \cup
        Settings("script", {Var(FALSE, << >>), Var(FALSE, <<"arm5">>), Glued})}
    \cup
    {[pkgs |-> {<<"app">>, <<"lib">>}, base |-> b, metas |-> (n :> m)] :
        b \in Settings("script", {Var(FALSE, <<"arm6", "alt">>)}),
        n \in {<<"app">>, <<"app", "arm5">>},
        m \in Settings("meta", MCVars \ {Var(FALSE, <<"ru">>), Var(FALSE, <<"arm6", "alt">>)})}
    \cup
    {[pkgs |-> {<<"app">>, <<"app", "en">>}, base |-> b,
      metas |-> [n \in ns |-> IF n = <<"app">> THEN m ELSE o]] :
        b \in Settings("script", {Var(FALSE, <<"ru">>)}),
        ns \in SUBSET {<<"app">>, <<"app", "en">>},
        m \in Settings("meta", Plain),
        o \in Settings("other", Plain)}
=============================================================================
