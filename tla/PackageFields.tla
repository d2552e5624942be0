--------------------------- MODULE PackageFields ---------------------------
(***************************************************************************)
(* An overridable field of a package, `deps' say, on its way from a build  *)
(* script to those who use it.  A script may set the field for a           *)
(* distribution, an architecture and a language: deps_arm6_alt_en.  The    *)
(* script runs, the meta function of the package adds to its variables     *)
(* (pkg/alrsh/alrsh.go), the variables of the field are collected in the   *)
(* order of a Go map (internal/shutils/decoder), and overrides.Resolve     *)
(* says which of them counts.  A build uses the result at once; a pull     *)
(* stores the field as a row without it (pkg/alrsh/overridable.go), and    *)
(* who reads the row resolves it again, or does not.                       *)
(*                                                                         *)
(* A name is the sequence of the parts that underscores join, so that two  *)
(* meanings of one text are one name here as well.  The list of names that *)
(* overrides.Resolve makes is walked as its loops make it.                 *)
(***************************************************************************)
EXTENDS Integers, Sequences

CONSTANTS
    Id, Like,     \* ID and ID_LIKE of os-release
    Arch,         \* the architecture,
    ArmVersion,   \* its number if it is an arm, else 0,
    Arm,          \* and the names of arms by their numbers
    Base,         \* the base language of every code that can be parsed
    UserLangs,    \* languages a user may have set
    Vars,         \* variables of the field: what follows its name, and how
    Values,       \* what a variable may hold,
    Malformed,    \* and which of it does not decode
    Unset,        \* no value
    Target,       \* the package whose field is followed
    Scripts       \* scripts there may be

\* English can be parsed, os-release has lists of names, and variables are
\* set or not.
ASSUME LanguageAssumption == "en" \in DOMAIN Base
ASSUME MachineAssumption  == Like \in Seq(STRING) /\ ArmVersion \in Nat
ASSUME ScriptAssumption ==
    /\ Unset \notin Values
    /\ \A s \in Scripts :
          /\ s.base \in [Vars -> Values \cup {Unset}]
          /\ \A m \in DOMAIN s.metas : s.metas[m] \in [Vars -> Values \cup {Unset}]

VARIABLES
    script,   \* the script: its packages, variables and meta functions
    pc,       \* where the walk through the code is
    use,      \* on whose behalf
    langs,    \* the languages asked for
    at,       \* the indices of the loops of overrides.Resolve
    vars,     \* the variables that are decoded
    todo,     \* those still to be put into the field
    field,    \* the OverridableField: data and resolved
    row,      \* the column of the package database
    seen      \* what each user of the field got last, and in which languages

state == <<script, pc, use, langs, at, vars, todo, field, row, seen>>

Parsers == {"build", "pull"}
Readers == {"plan", "show", "bus"}
Uses    == {"build"} \cup Readers

-----------------------------------------------------------------------------
(* Names in the order they are checked *)

\* A newer arm runs what was built for an older one.
Arches ==
    IF ArmVersion > 5
    THEN [i \in 1 .. ArmVersion - 4 |-> Arm[ArmVersion + 1 - i]]
    ELSE <<Arch>>

Distros == <<Id>> \o Like

Languages(code) == <<Base[code]>>

\* Each loop ends with the case in which its part is missing.
Part(s, i)       == IF i <= Len(s) THEN <<s[i]>> ELSE << >>
Name(p, ls)      == Part(Arches, p.arch) \o Part(Distros, p.distro) \o Part(ls, p.lang)
First            == [lang |-> 1, distro |-> 1, arch |-> 1]

\* Fault: the list of names ends one late.
ExhaustedLate(p, ls) == p.lang > Len(ls) + 2

Exhausted(p, ls) == p.lang > Len(ls) + 1

\* Fault: the distributions are gone through before the architectures.
SuccByArch(p) ==
    IF p.distro <= Len(Distros) THEN [p EXCEPT !.distro = p.distro + 1]
    ELSE IF p.arch <= Len(Arches) THEN [p EXCEPT !.arch = p.arch + 1, !.distro = 1]
    ELSE [lang |-> p.lang + 1, distro |-> 1, arch |-> 1]

Succ(p) ==
    IF p.arch <= Len(Arches) THEN [p EXCEPT !.arch = p.arch + 1]
    ELSE IF p.distro <= Len(Distros) THEN [p EXCEPT !.distro = p.distro + 1, !.arch = 1]
    ELSE [lang |-> p.lang + 1, distro |-> 1, arch |-> 1]

-----------------------------------------------------------------------------
(* From the script to the field *)

EmptyField == [data |-> << >>, resolved |-> Unset]

\* A call is over and its variables are gone: what was asked for is known, or
\* it failed.
Return(outcome) ==
    /\ seen' = IF use \in Uses THEN [seen EXCEPT ![use] = outcome] ELSE seen
    /\ pc' = "idle"
    /\ langs' = Languages("en")
    /\ at' = First
    /\ vars' = script.base
    /\ todo' = {}
    /\ field' = EmptyField
    /\ use' = "build"
    /\ UNCHANGED script
Failure   == [is |-> "failed", langs |-> langs, value |-> Unset]
Result(f) == [is |-> "value", langs |-> langs, value |-> f.resolved]

\* DecodeVar begins: the variables with the field's prefix, in no order.
WithPrefix(vs) == {v \in Vars : vs[v] # Unset}
Collect(vs) ==
    /\ pc' = "decode"
    /\ vars' = vs
    /\ todo' = WithPrefix(vs)
    /\ field' = EmptyField

\* The script has run; of one package there is nothing more to learn.
ParseBuildVars(u) ==
    /\ pc = "idle"
    /\ use' = u
    /\ langs' = Languages("en")
    /\ at' = First
    /\ IF script.pkgs = {Target}
       THEN Collect(script.base)
       ELSE /\ pc' = "meta"
            /\ UNCHANGED <<vars, todo, field>>
    /\ UNCHANGED <<script, row, seen>>

\* The meta function of the package is looked up under overridden names too.
MetaName == Target \o Name(at, langs)
MetaIsThere == MetaName \in DOMAIN script.metas

\* What the meta function sets comes before what the script sets.
Merged(meta) == [v \in Vars |-> IF meta[v] # Unset THEN meta[v] ELSE script.base[v]]

CreatePackageFromMeta ==
    /\ pc = "meta"
    /\ ~Exhausted(at, langs)
    /\ MetaIsThere
    /\ Collect(Merged(script.metas[MetaName]))
    /\ at' = First
    /\ UNCHANGED <<script, use, langs, row, seen>>

MetaMissing ==
    /\ pc = "meta"
    /\ Exhausted(at, langs)
    /\ Return(Failure)
    /\ UNCHANGED row

\* A variable is stored under what follows the name of the field and one
\* underscore, if there is one.
SetVar(v) ==
    /\ pc = "decode"
    /\ v \in todo
    /\ vars[v] \notin Malformed
    /\ todo' = todo \ {v}
    /\ field' = [field EXCEPT !.data =
           [k \in DOMAIN field.data \cup {v.key} |->
               IF k = v.key THEN vars[v] ELSE field.data[k]]]
    /\ UNCHANGED <<script, pc, use, langs, at, vars, row, seen>>

DecodeFails(v) ==
    /\ pc = "decode"
    /\ v \in todo
    /\ vars[v] \in Malformed
    /\ Return(Failure)
    /\ UNCHANGED row

\* A pull keeps the field as a row, without what it resolved to; others use
\* what it resolved to.
ToDB(f) == [there |-> TRUE, data |-> f.data]
Finish(f) ==
    /\ Return(Result(f))
    /\ row' = IF use = "pull" THEN ToDB(f) ELSE row

\* No variable has the prefix, and the field is not required.
VarNotFound ==
    /\ pc = "decode"
    /\ WithPrefix(vars) = {}
    /\ Finish(field)

Decoded ==
    /\ pc = "decode"
    /\ todo = {}
    /\ WithPrefix(vars) # {}
    /\ pc' = "resolve"
    /\ at' = First
    /\ UNCHANGED <<script, use, langs, vars, todo, field, row, seen>>

-----------------------------------------------------------------------------
(* From the row to its readers *)

\* Fault: the field itself is stored under the name it is shown with.
FromDBAsShown(r) ==
    [data |-> [k \in (DOMAIN r.data \ {<< >>}) \cup {<<"default">> : d \in DOMAIN r.data \cap {<< >>}} |->
                  r.data[IF k = <<"default">> THEN << >> ELSE k]],
     resolved |-> Unset]

FromDB(r) == [data |-> r.data, resolved |-> Unset]

\* The dependency tree asks for English, info and search for the user's
\* language, which may not be one that can be parsed; the D-Bus service
\* takes the row as it is.
ReadToResolve(u, code) ==
    /\ pc = "idle" /\ row.there
    /\ code \in DOMAIN Base
    /\ pc' = "resolve"
    /\ use' = u
    /\ langs' = Languages(code)
    /\ at' = First
    /\ field' = FromDB(row)
    /\ UNCHANGED <<script, vars, todo, row, seen>>

LanguageUnknown(u, code) ==
    /\ pc = "idle" /\ row.there
    /\ code \notin DOMAIN Base
    /\ seen' = [seen EXCEPT ![u] = Failure]
    /\ UNCHANGED <<script, pc, use, langs, at, vars, todo, field, row>>

NewDBusPackage ==
    /\ pc = "idle" /\ row.there
    /\ seen' = [seen EXCEPT !["bus"] = Result(FromDB(row))]
    /\ UNCHANGED <<script, pc, use, langs, at, vars, todo, field, row>>

-----------------------------------------------------------------------------
(* OverridableField.Resolve *)

Has == Name(at, langs) \in DOMAIN field.data

SetResolved ==
    /\ pc = "resolve"
    /\ ~Exhausted(at, langs)
    /\ Has
    /\ Finish([field EXCEPT !.resolved = field.data[Name(at, langs)]])

NothingResolved ==
    /\ pc = "resolve"
    /\ Exhausted(at, langs)
    /\ Finish(field)

\* The name is not there: the next one.
Pass ==
    /\ ~Exhausted(at, langs)
    /\ \/ pc = "meta" /\ ~MetaIsThere
       \/ pc = "resolve" /\ ~Has
    /\ at' = Succ(at)
    /\ UNCHANGED <<script, pc, use, langs, vars, todo, field, row, seen>>

-----------------------------------------------------------------------------
Init ==
    /\ script \in Scripts
    /\ pc = "idle"
    /\ use = "build"
    /\ langs = Languages("en")
    /\ at = First
    /\ vars = script.base
    /\ todo = {}
    /\ field = EmptyField
    /\ row = [there |-> FALSE, data |-> << >>]
    /\ seen = [u \in Uses |-> [is |-> "nothing", langs |-> Languages("en"), value |-> Unset]]

Next ==
    \/ \E u \in Parsers : ParseBuildVars(u)
    \/ CreatePackageFromMeta
    \/ MetaMissing
    \/ \E v \in todo : SetVar(v) \/ DecodeFails(v)
    \/ VarNotFound
    \/ Decoded
    \/ ReadToResolve("plan", "en")
    \/ \E code \in UserLangs : ReadToResolve("show", code) \/ LanguageUnknown("show", code)
    \/ NewDBusPackage
    \/ SetResolved
    \/ NothingResolved
    \/ Pass

Spec == Init /\ [][Next]_state

-----------------------------------------------------------------------------
(* Which variable counts, said without the loops *)

Positions(ls) ==
    [lang : 1 .. Len(ls) + 1, distro : 1 .. Len(Distros) + 1, arch : 1 .. Len(Arches) + 1]

\* The language decides before the distribution, and that before the
\* architecture; a part that is missing comes last.
Before(p, q) ==
    \/ p.lang < q.lang
    \/ p.lang = q.lang /\ p.distro < q.distro
    \/ p.lang = q.lang /\ p.distro = q.distro /\ p.arch < q.arch

Applies(names, ls) == {p \in Positions(ls) : Name(p, ls) \in names}
Best(ps) == {p \in ps : \A q \in ps : ~Before(q, p)}

\* What the field may be for the variables vs; two of them may have one key.
KeysOf(vs) == {v.key : v \in WithPrefix(vs)}
Right(vs, ls, x) ==
    LET ps == Applies(KeysOf(vs), ls)
    IN  \/ ps = {} /\ x = Unset
        \/ \E p \in Best(ps) : \E v \in WithPrefix(vs) :
              v.key = Name(p, ls) /\ x = vs[v]

\* The variables of the target: with its meta function, looked up in English,
\* if the script has several packages.
MetaApplies ==
    {p \in Positions(Languages("en")) : Target \o Name(p, Languages("en")) \in DOMAIN script.metas}
PackageVars ==
    IF script.pkgs = {Target}
    THEN {script.base}
    ELSE {Merged(script.metas[Target \o Name(p, Languages("en"))]) : p \in Best(MetaApplies)}

-----------------------------------------------------------------------------
(* Properties *)

\* The types of the variables; the loops stay in their bounds.
AllLangs == {Languages(code) : code \in DOMAIN Base}
Past(ls) == [lang |-> Len(ls) + 2, distro |-> 1, arch |-> 1]
TypeOK ==
    /\ script \in Scripts
    /\ pc \in {"idle", "meta", "decode", "resolve"}
    /\ use \in Parsers \cup Readers
    /\ langs \in AllLangs
    /\ at \in Positions(langs) \cup {Past(langs)}
    /\ vars \in [Vars -> Values \cup {Unset}]
    /\ todo \subseteq WithPrefix(vars)
    /\ \A k \in DOMAIN field.data : field.data[k] \in Values
    /\ field.resolved \in Values \cup {Unset}
    /\ row.there \in BOOLEAN
    /\ \A k \in DOMAIN row.data : row.data[k] \in Values
    /\ seen \in [Uses -> [is    : {"nothing", "failed", "value"},
                          langs : AllLangs,
                          value : Values \cup {Unset}]]

\* Whoever resolves the field gets the variable of the first name there is,
\* by language, distribution and architecture, whatever the order in which
\* the variables were collected and whether it came through the database
\* (overrides.go 73, overridable.go 65, alrsh.go 186).
SeenIsBest ==
    \A u \in Uses \ {"bus"} :
        seen[u].is = "value" =>
            \E vs \in PackageVars : Right(vs, seen[u].langs, seen[u].value)

\* The dependency tree plans with the dependencies the build will want: the
\* row and the script resolve to one value, unless two variables have one key
\* and the order of a Go map decides (dependency_tree.go 169, build.go 382,
\* decoder.go 150).
Clash(vs) ==
    \E v, w \in WithPrefix(vs) : v # w /\ v.key = w.key
PlanMatchesBuild ==
    seen["plan"].is = "value" /\ seen["build"].is = "value" =>
        \/ seen["plan"].value = seen["build"].value
        \/ \E vs \in PackageVars : Clash(vs)
=============================================================================
