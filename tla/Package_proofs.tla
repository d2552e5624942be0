--------------------------- MODULE Package_proofs ---------------------------
(***************************************************************************)
(* What is promised of a package: of its fields (PackageFields), for every *)
(* list of distributions, every arm, every set of languages and every set  *)
(* of scripts, and of its contents (PackageContents), for every set of     *)
(* commands, directories, links and settings.                              *)
(*                                                                         *)
(* The first argument follows a field through the code.  Every name that   *)
(* the loops have passed was not there (Scanned), so the first one that is *)
(* there is the best one.  While it is decoded, a field holds under each   *)
(* of its keys what a variable with that key holds, and once all variables *)
(* are in, it has the keys of all of them (Holds); a row keeps that.  So   *)
(* whoever resolves either gets the value of the best key.                 *)
(*                                                                         *)
(* The second one follows the package directory.  What a script leaves is  *)
(* a tree of paths it has names for (FromScript), in which every directory *)
(* leads to something that is listed (LeafBelow).  The jail then takes the *)
(* programs one by one (JailInv): one that waits is as it was, and one     *)
(* that does not is wrapped, unless something is among the contents twice, *)
(* and then nothing is packed.                                             *)
(***************************************************************************)
EXTENDS PackageFields, PackageContents, SequenceTheorems, WellFoundedInduction, TLAPS


-----------------------------------------------------------------------------
(* The inductive invariant *)

English == Languages("en")

\* A field that has been decoded, or read from a row.
Holds(d, vs) ==
    /\ DOMAIN d = KeysOf(vs)
    /\ \A k \in DOMAIN d : \E v \in WithPrefix(vs) : v.key = k /\ d[k] = vs[v]

Passed == {q \in Positions(langs) : Before(q, at)}

MetaInv ==
    pc = "meta" =>
        /\ use \in Parsers
        /\ langs = English
        /\ script.pkgs # {Target}
        /\ \A q \in Passed : Target \o Name(q, langs) \notin DOMAIN script.metas

DecodeInv ==
    pc = "decode" =>
        /\ use \in Parsers
        /\ langs = English
        /\ vars \in PackageVars
        /\ DOMAIN field.data = {v.key : v \in WithPrefix(vars) \ todo}
        /\ \A k \in DOMAIN field.data :
              \E v \in WithPrefix(vars) : v.key = k /\ field.data[k] = vars[v]
        /\ field.resolved = Unset

ResolveInv ==
    pc = "resolve" =>
        /\ use # "bus"
        /\ use # "show" => langs = English
        /\ \E vs \in PackageVars : Holds(field.data, vs)
        /\ field.resolved = Unset
        /\ \A q \in Passed : Name(q, langs) \notin DOMAIN field.data

RowInv == row.there => \E vs \in PackageVars : Holds(row.data, vs)

SeenInv ==
    \A u \in Uses \ {"bus"} :
        seen[u].is = "value" =>
            /\ u # "show" => seen[u].langs = English
            /\ \E vs \in PackageVars : Right(vs, seen[u].langs, seen[u].value)

Shape ==
    /\ field = [data |-> field.data, resolved |-> field.resolved]
    /\ row = [there |-> row.there, data |-> row.data]

FieldInv ==
    /\ TypeOK
    /\ Shape
    /\ MetaInv
    /\ DecodeInv
    /\ ResolveInv
    /\ RowInv
    /\ SeenInv

-----------------------------------------------------------------------------
(* The loops *)

\* The lists the loops go through have lengths, and there is one language.
LEMMA Lengths ==
    /\ Len(Arches) \in Nat
    /\ Len(Distros) \in Nat
    /\ \A ls \in AllLangs : Len(ls) = 1
    /\ English \in AllLangs
<1>1. Len(Arches) \in Nat
  <2>1. CASE ArmVersion > 5
    <3>1. DEFINE n == ArmVersion - 4
    <3>2. n \in Nat  BY <2>1, MachineAssumption
    <3>3. Arches = [i \in 1 .. n |-> Arm[ArmVersion + 1 - i]]  BY <2>1 DEF Arches
    <3> HIDE DEF n
    <3>4. Len([i \in 1 .. n |-> Arm[ArmVersion + 1 - i]]) = n  BY <3>2
    <3> QED  BY <3>2, <3>3, <3>4
  <2>2. CASE ~(ArmVersion > 5)
    <3>1. Arches = <<Arch>>  BY <2>2 DEF Arches
    <3> QED  BY <3>1
  <2> QED  BY <2>1, <2>2
<1>2. Len(Distros) \in Nat
  <2>1. PICK S : Like \in Seq(S)  BY MachineAssumption
  <2>2. <<Id>> \in Seq(S \cup {Id}) /\ Like \in Seq(S \cup {Id})  BY <2>1
  <2>3. <<Id>> \o Like \in Seq(S \cup {Id})  BY <2>2
  <2> QED  BY <2>3 DEF Distros
<1>3. \A ls \in AllLangs : Len(ls) = 1  BY DEF AllLangs, Languages
<1>4. English \in AllLangs  BY LanguageAssumption DEF English, AllLangs
<1> QED  BY <1>1, <1>2, <1>3, <1>4

\* From one position the loops go to the next one, or past the end.
LEMMA SuccStays ==
    ASSUME NEW ls \in AllLangs, NEW p \in Positions(ls)
    PROVE  Succ(p) \in Positions(ls) \cup {Past(ls)}
<1>1. Len(ls) = 1 /\ Len(Arches) \in Nat /\ Len(Distros) \in Nat  BY Lengths
<1>2. /\ p.lang \in 1 .. 2
      /\ p.distro \in 1 .. Len(Distros) + 1
      /\ p.arch \in 1 .. Len(Arches) + 1
      /\ p = [lang |-> p.lang, distro |-> p.distro, arch |-> p.arch]
  BY <1>1 DEF Positions
<1>3. CASE p.arch <= Len(Arches)
  <2>1. Succ(p) = [lang |-> p.lang, distro |-> p.distro, arch |-> p.arch + 1]
    BY <1>2, <1>3 DEF Succ
  <2> QED  BY <1>1, <1>2, <1>3, <2>1 DEF Positions
<1>4. CASE ~(p.arch <= Len(Arches)) /\ p.distro <= Len(Distros)
  <2>1. Succ(p) = [lang |-> p.lang, distro |-> p.distro + 1, arch |-> 1]
    BY <1>2, <1>4 DEF Succ
  <2> QED  BY <1>1, <1>2, <1>4, <2>1 DEF Positions
<1>5. CASE ~(p.arch <= Len(Arches)) /\ ~(p.distro <= Len(Distros))
  <2>1. Succ(p) = [lang |-> p.lang + 1, distro |-> 1, arch |-> 1]
    BY <1>5 DEF Succ
  <2> QED  BY <1>1, <1>2, <2>1 DEF Positions, Past
<1> QED  BY <1>3, <1>4, <1>5

\* What lies before the next position lies before this one or is this one.
LEMMA SuccCovers ==
    ASSUME NEW ls \in AllLangs, NEW p \in Positions(ls), NEW q \in Positions(ls),
           Before(q, Succ(p))
    PROVE  Before(q, p) \/ q = p
<1>1. Len(ls) = 1 /\ Len(Arches) \in Nat /\ Len(Distros) \in Nat  BY Lengths
<1>2. /\ p.lang \in 1 .. 2
      /\ p.distro \in 1 .. Len(Distros) + 1
      /\ p.arch \in 1 .. Len(Arches) + 1
      /\ p = [lang |-> p.lang, distro |-> p.distro, arch |-> p.arch]
  BY <1>1 DEF Positions
<1>3. /\ q.lang \in 1 .. 2
      /\ q.distro \in 1 .. Len(Distros) + 1
      /\ q.arch \in 1 .. Len(Arches) + 1
      /\ q = [lang |-> q.lang, distro |-> q.distro, arch |-> q.arch]
  BY <1>1 DEF Positions
<1>4. (q.lang = p.lang /\ q.distro = p.distro /\ q.arch = p.arch) => q = p
  BY <1>2, <1>3
<1>5. CASE p.arch <= Len(Arches)
  <2>1. Succ(p) = [lang |-> p.lang, distro |-> p.distro, arch |-> p.arch + 1]
    BY <1>2, <1>5 DEF Succ
  <2> QED  BY <1>1, <1>2, <1>3, <1>4, <2>1 DEF Before
<1>6. CASE ~(p.arch <= Len(Arches)) /\ p.distro <= Len(Distros)
  <2>1. Succ(p) = [lang |-> p.lang, distro |-> p.distro + 1, arch |-> 1]
    BY <1>2, <1>6 DEF Succ
  <2> QED  BY <1>1, <1>2, <1>3, <1>4, <1>6, <2>1 DEF Before
<1>7. CASE ~(p.arch <= Len(Arches)) /\ ~(p.distro <= Len(Distros))
  <2>1. Succ(p) = [lang |-> p.lang + 1, distro |-> 1, arch |-> 1]
    BY <1>7 DEF Succ
  <2> QED  BY <1>1, <1>2, <1>3, <1>4, <1>7, <2>1 DEF Before
<1> QED  BY <1>5, <1>6, <1>7

\* The loops start before everything and end after everything.
LEMMA FirstAndPast ==
    ASSUME NEW ls \in AllLangs
    PROVE  /\ First \in Positions(ls)
           /\ \A q \in Positions(ls) : ~Before(q, First) /\ Before(q, Past(ls))
           /\ \A p \in Positions(ls) : ~Exhausted(p, ls)
           /\ Exhausted(Past(ls), ls)
<1>1. Len(ls) = 1 /\ Len(Arches) \in Nat /\ Len(Distros) \in Nat  BY Lengths
<1> QED  BY <1>1 DEF First, Past, Positions, Before, Exhausted

\* Of some positions one at most is before all others.
LEMMA BestIsUnique ==
    ASSUME NEW ls \in AllLangs, NEW ps, ps \subseteq Positions(ls),
           NEW p \in Best(ps), NEW q \in Best(ps)
    PROVE  p = q
<1>1. Len(ls) = 1 /\ Len(Arches) \in Nat /\ Len(Distros) \in Nat  BY Lengths
<1>2. p \in ps /\ q \in ps /\ ~Before(p, q) /\ ~Before(q, p)  BY DEF Best
<1>3. /\ p.lang \in Int /\ p.distro \in Int /\ p.arch \in Int
      /\ p = [lang |-> p.lang, distro |-> p.distro, arch |-> p.arch]
  BY <1>1, <1>2 DEF Positions
<1>4. /\ q.lang \in Int /\ q.distro \in Int /\ q.arch \in Int
      /\ q = [lang |-> q.lang, distro |-> q.distro, arch |-> q.arch]
  BY <1>1, <1>2 DEF Positions
<1>5. p.lang = q.lang /\ p.distro = q.distro /\ p.arch = q.arch
  BY <1>2, <1>3, <1>4 DEF Before
<1> QED  BY <1>3, <1>4, <1>5

-----------------------------------------------------------------------------
(* Reading a field *)

\* The first name that is there gives what the variables say.
LEMMA FirstIsRight ==
    ASSUME NEW ls \in AllLangs, NEW d, NEW vs, Holds(d, vs),
           NEW p \in Positions(ls), Name(p, ls) \in DOMAIN d,
           \A q \in Positions(ls) : Before(q, p) => Name(q, ls) \notin DOMAIN d
    PROVE  Right(vs, ls, d[Name(p, ls)])
<1>1. p \in Best(Applies(KeysOf(vs), ls))  BY DEF Best, Applies, Holds
<1>2. PICK v \in WithPrefix(vs) : v.key = Name(p, ls) /\ d[Name(p, ls)] = vs[v]  BY DEF Holds
<1> QED  BY <1>1, <1>2 DEF Right

\* And if none is there, nothing is right.
LEMMA NothingIsRight ==
    ASSUME NEW ls \in AllLangs, NEW d, NEW vs, Holds(d, vs),
           \A q \in Positions(ls) : Name(q, ls) \notin DOMAIN d
    PROVE  Right(vs, ls, Unset)
<1>1. Applies(KeysOf(vs), ls) = {}  BY DEF Applies, Holds
<1> QED  BY <1>1 DEF Right

\* The script and what it says of the package stay.
LEMMA ScriptStays ==
    ASSUME [Next]_state
    PROVE  script' = script /\ PackageVars' = PackageVars
<1>1. script' = script
  BY DEF Next, state, ParseBuildVars, CreatePackageFromMeta, MetaMissing, SetVar,
         DecodeFails, VarNotFound, Decoded, ReadToResolve, LanguageUnknown,
         NewDBusPackage, SetResolved, NothingResolved, Pass, Finish, Return
<1>2. MetaApplies' = MetaApplies  BY <1>1 DEF MetaApplies
<1>3. \A m : Merged(m)' = Merged(m)  BY <1>1 DEF Merged
<1> QED  BY <1>1, <1>2, <1>3 DEF PackageVars, Merged

\* What is set for the package are settings of variables.
LEMMA SettingsTyped ==
    ASSUME script \in Scripts
    PROVE  /\ script.base \in [Vars -> Values \cup {Unset}]
           /\ \A m \in DOMAIN script.metas :
                 Merged(script.metas[m]) \in [Vars -> Values \cup {Unset}]
  BY ScriptAssumption DEF Merged

-----------------------------------------------------------------------------
(* The invariant holds *)

Outcomes == [is : {"nothing", "failed", "value"}, langs : AllLangs, value : Values \cup {Unset}]

\* A call that is over leaves the invariant if its answer is right and the
\* row is sound.
LEMMA ReturnKeeps ==
    ASSUME FieldInv, NEW o \in Outcomes, Return(o), script' = script,
           PackageVars' = PackageVars,
           use \in Uses /\ use # "bus" /\ o.is = "value" =>
               /\ use # "show" => o.langs = English
               /\ \E vs \in PackageVars : Right(vs, o.langs, o.value),
           row'.there \in BOOLEAN,
           row' = [there |-> row'.there, data |-> row'.data],
           \A k \in DOMAIN row'.data : row'.data[k] \in Values,
           row'.there => \E vs \in PackageVars : Holds(row'.data, vs)
    PROVE  FieldInv'
<1>1. /\ seen' = IF use \in Uses THEN [seen EXCEPT ![use] = o] ELSE seen
      /\ pc' = "idle" /\ langs' = English /\ at' = First /\ vars' = script.base
      /\ todo' = {} /\ field' = EmptyField /\ use' = "build"
  BY DEF Return, English
<1>2. seen' \in [Uses -> Outcomes]
  BY <1>1 DEF FieldInv, TypeOK, Outcomes
<1>3. TypeOK'
  <2>1. langs' \in AllLangs  BY <1>1, Lengths
  <2>2. at' \in Positions(langs')  BY <1>1, <2>1, FirstAndPast
  <2>3. vars' \in [Vars -> Values \cup {Unset}]
    BY <1>1, SettingsTyped DEF FieldInv, TypeOK
  <2>4. field'.resolved = Unset /\ field'.data = << >>  BY <1>1 DEF EmptyField
  <2>5. DOMAIN field'.data = {}  BY <2>4
  <2>6. script' \in Scripts  BY DEF FieldInv, TypeOK
  <2> QED  BY <1>1, <1>2, <2>1, <2>2, <2>3, <2>4, <2>5, <2>6 DEF TypeOK, Parsers, Outcomes
<1>4. Shape'  BY <1>1 DEF Shape, EmptyField
<1>5. MetaInv' /\ DecodeInv' /\ ResolveInv'  BY <1>1 DEF MetaInv, DecodeInv, ResolveInv
<1>6. RowInv'  BY DEF RowInv
<1>7. SeenInv'
  <2> SUFFICES ASSUME NEW u \in Uses \ {"bus"}, seen'[u].is = "value"
               PROVE  /\ u # "show" => seen'[u].langs = English
                      /\ \E vs \in PackageVars : Right(vs, seen'[u].langs, seen'[u].value)
    BY DEF SeenInv
  <2>1. CASE u = use
    <3>1. seen'[u] = o  BY <1>1, <2>1 DEF FieldInv, TypeOK
    <3> QED  BY <2>1, <3>1
  <2>2. CASE u # use
    <3>1. seen'[u] = seen[u]  BY <1>1, <2>2 DEF FieldInv, TypeOK
    <3> QED  BY <2>2, <3>1 DEF FieldInv, SeenInv
  <2> QED  BY <2>1, <2>2
<1> QED  BY <1>3, <1>4, <1>5, <1>6, <1>7 DEF FieldInv

\* A call that fails leaves the row alone and says nothing of the field.
LEMMA FailureKeeps ==
    ASSUME FieldInv, Return(Failure), row' = row, script' = script, PackageVars' = PackageVars
    PROVE  FieldInv'
<1>1. PICK o : o = Failure  OBVIOUS
<1>2. o \in Outcomes /\ o.is = "failed"
  BY <1>1 DEF Failure, Outcomes, FieldInv, TypeOK
<1>3. Return(o)  BY <1>1 DEF Return
<1> QED  BY <1>2, <1>3, ReturnKeeps DEF FieldInv, TypeOK, Shape, RowInv

\* A call that ends with the field f: f is right, and has all variables.
LEMMA FinishKeeps ==
    ASSUME FieldInv, NEW f, Finish(f), script' = script, PackageVars' = PackageVars,
           f.resolved \in Values \cup {Unset},
           \A k \in DOMAIN f.data : f.data[k] \in Values,
           use # "bus",
           use # "show" => langs = English,
           \E vs \in PackageVars : Holds(f.data, vs) /\ Right(vs, langs, f.resolved)
    PROVE  FieldInv'
<1>1. PICK o : o = Result(f)  OBVIOUS
<1>2. o \in Outcomes /\ o.langs = langs /\ o.value = f.resolved
  BY <1>1 DEF Result, Outcomes, FieldInv, TypeOK
<1>3. Return(o)  BY <1>1 DEF Return, Finish
<1>4. CASE use = "pull"
  <2>1. row' = [there |-> TRUE, data |-> f.data]  BY <1>4 DEF Finish, ToDB
  <2> QED  BY <1>2, <1>3, <2>1, ReturnKeeps
<1>5. CASE use # "pull"
  <2>1. row' = row  BY <1>5 DEF Finish
  <2> QED  BY <1>2, <1>3, <2>1, ReturnKeeps DEF FieldInv, TypeOK, Shape, RowInv
<1> QED  BY <1>4, <1>5

\* Nothing has been read at the start.
LEMMA InitField == ASSUME Init PROVE FieldInv
<1>1. TypeOK
  <2>1. at \in Positions(langs)  BY Lengths, FirstAndPast DEF Init, English
  <2>2. vars \in [Vars -> Values \cup {Unset}]  BY SettingsTyped DEF Init
  <2>3. field.resolved = Unset /\ DOMAIN field.data = {} /\ DOMAIN row.data = {} /\ row.there = FALSE
    BY DEF Init, EmptyField
  <2>4. langs \in AllLangs  BY Lengths DEF Init, English
  <2> QED  BY <2>1, <2>2, <2>3, <2>4, Lengths DEF Init, TypeOK, Parsers, English
<1>2. Shape  BY DEF Init, Shape, EmptyField
<1>3. MetaInv /\ DecodeInv /\ ResolveInv /\ RowInv
  BY DEF Init, MetaInv, DecodeInv, ResolveInv, RowInv
<1>4. SeenInv  BY DEF Init, SeenInv, Uses
<1> QED  BY <1>1, <1>2, <1>3, <1>4 DEF FieldInv

\* A field whose variables are still to be collected.
LEMMA CollectKeeps ==
    ASSUME FieldInv, NEW vs \in PackageVars, vs \in [Vars -> Values \cup {Unset}],
           Collect(vs), script' = script, PackageVars' = PackageVars,
           use' \in Parsers, langs' = English, at' = First, UNCHANGED <<row, seen>>
    PROVE  FieldInv'
<1>1. /\ pc' = "decode" /\ vars' = vs /\ todo' = WithPrefix(vs)
      /\ field' = [data |-> << >>, resolved |-> Unset]
  BY DEF Collect, EmptyField
<1>2. DOMAIN field'.data = {} /\ field'.resolved = Unset  BY <1>1
<1>3. TypeOK'
  <2>1. langs' \in AllLangs  BY Lengths
  <2>2. at' \in Positions(langs')  BY <2>1, FirstAndPast
  <2> QED  BY <1>1, <1>2, <2>1, <2>2 DEF FieldInv, TypeOK, WithPrefix, Parsers
<1>4. Shape'  BY <1>1 DEF FieldInv, Shape
<1>5. MetaInv' /\ ResolveInv'  BY <1>1 DEF MetaInv, ResolveInv
<1>6. DecodeInv'  BY <1>1, <1>2 DEF DecodeInv, WithPrefix
<1>7. RowInv' /\ SeenInv'  BY DEF FieldInv, RowInv, SeenInv
<1> QED  BY <1>3, <1>4, <1>5, <1>6, <1>7 DEF FieldInv

LEMMA KeepsParse ==
    ASSUME FieldInv, [Next]_state, NEW u \in Parsers, ParseBuildVars(u) PROVE FieldInv'
<1>1. script' = script /\ PackageVars' = PackageVars  BY ScriptStays
<1>2. /\ pc = "idle" /\ use' = u /\ langs' = English /\ at' = First
      /\ UNCHANGED <<row, seen>>
  BY DEF ParseBuildVars, English
<1>3. CASE script.pkgs = {Target}
  <2>1. Collect(script.base)  BY <1>3 DEF ParseBuildVars
  <2>2. script.base \in PackageVars  BY <1>3 DEF PackageVars
  <2>3. script.base \in [Vars -> Values \cup {Unset}]  BY SettingsTyped DEF FieldInv, TypeOK
  <2> QED  BY <1>1, <1>2, <2>1, <2>2, <2>3, CollectKeeps
<1>4. CASE script.pkgs # {Target}
  <2>1. pc' = "meta" /\ UNCHANGED <<vars, todo, field>>  BY <1>4 DEF ParseBuildVars
  <2>2. langs' \in AllLangs /\ First \in Positions(langs') /\ Passed' = {}
    <3>1. langs' \in AllLangs  BY <1>2, Lengths
    <3> QED  BY <1>2, <3>1, FirstAndPast DEF Passed
  <2>3. TypeOK'  BY <1>1, <1>2, <2>1, <2>2 DEF FieldInv, TypeOK, Parsers, WithPrefix
  <2>4. MetaInv'  BY <1>1, <1>2, <1>4, <2>1, <2>2 DEF MetaInv
  <2>5. DecodeInv' /\ ResolveInv'  BY <2>1 DEF DecodeInv, ResolveInv
  <2>6. Shape' /\ RowInv' /\ SeenInv'
    BY <1>1, <1>2, <2>1 DEF FieldInv, Shape, RowInv, SeenInv
  <2> QED  BY <2>3, <2>4, <2>5, <2>6 DEF FieldInv
<1> QED  BY <1>3, <1>4

LEMMA KeepsMeta ==
    ASSUME FieldInv, [Next]_state, CreatePackageFromMeta PROVE FieldInv'
<1>1. script' = script /\ PackageVars' = PackageVars  BY ScriptStays
<1>2. /\ pc = "meta" /\ ~Exhausted(at, langs) /\ MetaName \in DOMAIN script.metas
      /\ Collect(Merged(script.metas[MetaName])) /\ at' = First
      /\ UNCHANGED <<use, langs, row, seen>>
  BY DEF CreatePackageFromMeta, MetaIsThere
<1>3. /\ use \in Parsers /\ langs = English /\ script.pkgs # {Target}
      /\ \A q \in Passed : Target \o Name(q, langs) \notin DOMAIN script.metas
  BY <1>2 DEF FieldInv, MetaInv
<1>4. at \in Positions(langs)
  BY <1>2, FirstAndPast DEF FieldInv, TypeOK
<1>5. at \in Best(MetaApplies)
  BY <1>2, <1>3, <1>4 DEF Best, MetaApplies, MetaName, Passed, English
<1>6. Merged(script.metas[MetaName]) \in PackageVars
  BY <1>3, <1>5 DEF PackageVars, MetaName, English
<1>7. Merged(script.metas[MetaName]) \in [Vars -> Values \cup {Unset}]
  BY <1>2, SettingsTyped DEF FieldInv, TypeOK
<1>8. PICK vs : vs = Merged(script.metas[MetaName])  OBVIOUS
<1>9. Collect(vs)  BY <1>2, <1>8 DEF Collect
<1> QED  BY <1>1, <1>2, <1>3, <1>6, <1>7, <1>8, <1>9, CollectKeeps

LEMMA KeepsSet ==
    ASSUME FieldInv, [Next]_state, NEW v \in todo, SetVar(v) PROVE FieldInv'
<1>1. script' = script /\ PackageVars' = PackageVars  BY ScriptStays
<1>2. PICK x : x = vars[v]  OBVIOUS
<1>3. PICK d : d = [k \in DOMAIN field.data \cup {v.key} |->
                       IF k = v.key THEN x ELSE field.data[k]]
  OBVIOUS
<1>4. /\ pc = "decode" /\ todo' = todo \ {v}
      /\ field' = [field EXCEPT !.data = d]
      /\ UNCHANGED <<pc, use, langs, at, vars, row, seen>>
  BY <1>2, <1>3 DEF SetVar
<1>5. field' = [data |-> d, resolved |-> field.resolved]
  BY <1>4 DEF FieldInv, Shape
<1>6. field'.data = d /\ field'.resolved = field.resolved  BY <1>5
<1>7. v \in WithPrefix(vars) /\ x \in Values
  BY <1>2 DEF FieldInv, TypeOK, WithPrefix
<1>8. TypeOK'
  BY <1>1, <1>3, <1>4, <1>6, <1>7 DEF FieldInv, TypeOK, WithPrefix
<1>9. Shape'  BY <1>4, <1>5, <1>6 DEF FieldInv, Shape
<1>10. MetaInv' /\ ResolveInv'  BY <1>4 DEF MetaInv, ResolveInv
<1>11. DecodeInv'
  <2>1. WithPrefix(vars)' = WithPrefix(vars)  BY <1>4 DEF WithPrefix
  <2>2. DOMAIN d = {w.key : w \in WithPrefix(vars) \ todo'}
    BY <1>3, <1>4, <1>7 DEF FieldInv, DecodeInv
  <2>3. \A k \in DOMAIN d : \E w \in WithPrefix(vars) : w.key = k /\ d[k] = vars[w]
    <3> SUFFICES ASSUME NEW k \in DOMAIN d
                 PROVE  \E w \in WithPrefix(vars) : w.key = k /\ d[k] = vars[w]
      OBVIOUS
    <3>1. CASE k = v.key  BY <1>2, <1>3, <1>7, <3>1
    <3>2. CASE k # v.key
      <4>1. k \in DOMAIN field.data /\ d[k] = field.data[k]  BY <1>3, <3>2
      <4> QED  BY <1>4, <4>1 DEF FieldInv, DecodeInv
    <3> QED  BY <3>1, <3>2
  <2> QED  BY <1>1, <1>4, <1>6, <2>1, <2>2, <2>3 DEF FieldInv, DecodeInv
<1>12. RowInv' /\ SeenInv'  BY <1>1, <1>4 DEF FieldInv, RowInv, SeenInv
<1> QED  BY <1>8, <1>9, <1>10, <1>11, <1>12 DEF FieldInv

\* All variables are in: the field holds what the package says.
LEMMA DecodedHolds ==
    ASSUME FieldInv, pc = "decode", todo = {}
    PROVE  Holds(field.data, vars)
  BY DEF FieldInv, DecodeInv, Holds, KeysOf

LEMMA KeepsNotFound ==
    ASSUME FieldInv, [Next]_state, VarNotFound PROVE FieldInv'
<1>1. script' = script /\ PackageVars' = PackageVars  BY ScriptStays
<1>2. pc = "decode" /\ WithPrefix(vars) = {} /\ Finish(field)  BY DEF VarNotFound
<1>3. use \in Parsers /\ langs = English /\ vars \in PackageVars /\ field.resolved = Unset
  BY <1>2 DEF FieldInv, DecodeInv
<1>4. Holds(field.data, vars)
  BY <1>2, DecodedHolds DEF FieldInv, TypeOK
<1>5. DOMAIN field.data = {}  BY <1>2, <1>4 DEF Holds, KeysOf
<1>6. Right(vars, langs, Unset)
  BY <1>4, <1>5, NothingIsRight DEF FieldInv, TypeOK
<1>7. PICK f : f = field  OBVIOUS
<1>8. Finish(f)  BY <1>2, <1>7 DEF Finish, Return, Result, ToDB
<1> QED  BY <1>1, <1>3, <1>4, <1>6, <1>7, <1>8, FinishKeeps DEF FieldInv, TypeOK, Parsers

LEMMA KeepsDecoded ==
    ASSUME FieldInv, [Next]_state, Decoded PROVE FieldInv'
<1>1. script' = script /\ PackageVars' = PackageVars  BY ScriptStays
<1>2. /\ pc = "decode" /\ todo = {} /\ pc' = "resolve" /\ at' = First
      /\ UNCHANGED <<use, langs, vars, todo, field, row, seen>>
  BY DEF Decoded
<1>3. use \in Parsers /\ langs = English /\ vars \in PackageVars /\ field.resolved = Unset
  BY <1>2 DEF FieldInv, DecodeInv
<1>4. Holds(field.data, vars)  BY <1>2, DecodedHolds
<1>5. First \in Positions(langs) /\ Passed' = {}
  BY <1>2, FirstAndPast DEF FieldInv, TypeOK, Passed
<1>6. TypeOK'  BY <1>1, <1>2, <1>5 DEF FieldInv, TypeOK, WithPrefix
<1>7. ResolveInv'  BY <1>1, <1>2, <1>3, <1>4, <1>5 DEF ResolveInv, Parsers
<1>8. MetaInv' /\ DecodeInv'  BY <1>2 DEF MetaInv, DecodeInv
<1>9. Shape' /\ RowInv' /\ SeenInv'
  BY <1>1, <1>2 DEF FieldInv, Shape, RowInv, SeenInv
<1> QED  BY <1>6, <1>7, <1>8, <1>9 DEF FieldInv

\* A row is a field that was decoded once.
LEMMA KeepsRead ==
    ASSUME FieldInv, [Next]_state, NEW u \in {"plan", "show"}, NEW code,
           u = "plan" => code = "en", ReadToResolve(u, code)
    PROVE  FieldInv'
<1>1. script' = script /\ PackageVars' = PackageVars  BY ScriptStays
<1>2. /\ pc = "idle" /\ row.there /\ code \in DOMAIN Base
      /\ pc' = "resolve" /\ use' = u /\ langs' = Languages(code) /\ at' = First
      /\ field' = [data |-> row.data, resolved |-> Unset]
      /\ UNCHANGED <<vars, todo, row, seen>>
  BY DEF ReadToResolve, FromDB
<1>3. langs' \in AllLangs  BY <1>2 DEF AllLangs
<1>4. First \in Positions(langs') /\ Passed' = {}
  BY <1>2, <1>3, FirstAndPast DEF Passed
<1>5. field'.data = row.data /\ field'.resolved = Unset  BY <1>2
<1>6. TypeOK'
  BY <1>1, <1>2, <1>3, <1>4, <1>5 DEF FieldInv, TypeOK, WithPrefix, Readers
<1>7. ResolveInv'
  BY <1>1, <1>2, <1>4, <1>5 DEF FieldInv, RowInv, ResolveInv, English
<1>8. MetaInv' /\ DecodeInv'  BY <1>2 DEF MetaInv, DecodeInv
<1>9. Shape'  BY <1>2, <1>5 DEF FieldInv, Shape
<1>10. RowInv' /\ SeenInv'  BY <1>1, <1>2 DEF FieldInv, RowInv, SeenInv
<1> QED  BY <1>6, <1>7, <1>8, <1>9, <1>10 DEF FieldInv

\* What changes only what one user has seen, and tells it no value that
\* counts.
LEMMA SeenKeeps ==
    ASSUME FieldInv, NEW u \in Uses, NEW o \in Outcomes, u = "bus" \/ o.is # "value",
           seen' = [seen EXCEPT ![u] = o], PackageVars' = PackageVars,
           UNCHANGED <<script, pc, use, langs, at, vars, todo, field, row>>
    PROVE  FieldInv'
<1>1. seen' \in [Uses -> Outcomes]  BY DEF FieldInv, TypeOK, Outcomes
<1>2. TypeOK'  BY <1>1 DEF FieldInv, TypeOK, Outcomes, WithPrefix
<1>3. MetaInv' /\ DecodeInv' /\ ResolveInv' /\ RowInv' /\ Shape'
  BY DEF FieldInv, MetaInv, DecodeInv, ResolveInv, RowInv, Shape, Passed, WithPrefix
<1>4. \A w \in Uses \ {"bus"} : seen'[w].is = "value" => seen'[w] = seen[w]
  BY DEF FieldInv, TypeOK
<1>5. SeenInv'  BY <1>4 DEF FieldInv, SeenInv
<1> QED  BY <1>2, <1>3, <1>5 DEF FieldInv

LEMMA KeepsUnknown ==
    ASSUME FieldInv, [Next]_state, NEW code, LanguageUnknown("show", code) PROVE FieldInv'
<1>1. script' = script /\ PackageVars' = PackageVars  BY ScriptStays
<1>2. PICK o : o = Failure  OBVIOUS
<1>3. o \in Outcomes /\ o.is # "value"
  BY <1>2 DEF Failure, Outcomes, FieldInv, TypeOK
<1>4. /\ seen' = [seen EXCEPT !["show"] = o]
      /\ UNCHANGED <<script, pc, use, langs, at, vars, todo, field, row>>
  BY <1>2 DEF LanguageUnknown
<1>5. "show" \in Uses  BY DEF Uses, Readers
<1> QED  BY <1>1, <1>3, <1>4, <1>5, SeenKeeps

LEMMA KeepsBus ==
    ASSUME FieldInv, [Next]_state, NewDBusPackage PROVE FieldInv'
<1>1. script' = script /\ PackageVars' = PackageVars  BY ScriptStays
<1>2. PICK o : o = Result(FromDB(row))  OBVIOUS
<1>3. o \in Outcomes
  BY <1>2 DEF Result, FromDB, Outcomes, FieldInv, TypeOK
<1>4. /\ seen' = [seen EXCEPT !["bus"] = o]
      /\ UNCHANGED <<script, pc, use, langs, at, vars, todo, field, row>>
  BY <1>2 DEF NewDBusPackage
<1>5. "bus" \in Uses  BY DEF Uses, Readers
<1> QED  BY <1>1, <1>3, <1>4, <1>5, SeenKeeps

LEMMA KeepsSetResolved ==
    ASSUME FieldInv, [Next]_state, SetResolved PROVE FieldInv'
<1>1. script' = script /\ PackageVars' = PackageVars  BY ScriptStays
<1>2. PICK x : x = field.data[Name(at, langs)]  OBVIOUS
<1>3. PICK f : f = [field EXCEPT !.resolved = x]  OBVIOUS
<1>4. /\ pc = "resolve" /\ ~Exhausted(at, langs) /\ Name(at, langs) \in DOMAIN field.data
  BY DEF SetResolved, Has
<1>5. Finish(f)
  BY <1>2, <1>3 DEF SetResolved, Finish, Return, Result, ToDB
<1>6. f = [data |-> field.data, resolved |-> x]  BY <1>3 DEF FieldInv, Shape
<1>7. PICK vs \in PackageVars : Holds(field.data, vs)
  BY <1>4 DEF FieldInv, ResolveInv
<1>8. at \in Positions(langs) /\ langs \in AllLangs
  BY <1>4, FirstAndPast DEF FieldInv, TypeOK
<1>9. \A q \in Positions(langs) : Before(q, at) => Name(q, langs) \notin DOMAIN field.data
  BY <1>4 DEF FieldInv, ResolveInv, Passed
<1>10. Right(vs, langs, x)  BY <1>2, <1>4, <1>7, <1>8, <1>9, FirstIsRight
<1>11. x \in Values  BY <1>2, <1>4 DEF FieldInv, TypeOK
<1>12. use # "bus" /\ (use # "show" => langs = English)  BY <1>4 DEF FieldInv, ResolveInv
<1>13. f.data = field.data /\ f.resolved = x  BY <1>6
<1>14. \A k \in DOMAIN f.data : f.data[k] \in Values  BY <1>13 DEF FieldInv, TypeOK
<1> QED  BY <1>1, <1>5, <1>7, <1>10, <1>11, <1>12, <1>13, <1>14, FinishKeeps

LEMMA KeepsNothing ==
    ASSUME FieldInv, [Next]_state, NothingResolved PROVE FieldInv'
<1>1. script' = script /\ PackageVars' = PackageVars  BY ScriptStays
<1>2. PICK f : f = field  OBVIOUS
<1>3. pc = "resolve" /\ Exhausted(at, langs) /\ Finish(f)
  BY <1>2 DEF NothingResolved, Finish, Return, Result, ToDB
<1>4. PICK vs \in PackageVars : Holds(field.data, vs)
  BY <1>3 DEF FieldInv, ResolveInv
<1>5. at = Past(langs) /\ langs \in AllLangs
  BY <1>3, FirstAndPast DEF FieldInv, TypeOK
<1>6. \A q \in Positions(langs) : Name(q, langs) \notin DOMAIN field.data
  BY <1>3, <1>5, FirstAndPast DEF FieldInv, ResolveInv, Passed
<1>7. field.resolved = Unset /\ use # "bus" /\ (use # "show" => langs = English)
  BY <1>3 DEF FieldInv, ResolveInv
<1>8. Right(vs, langs, Unset)  BY <1>4, <1>5, <1>6, NothingIsRight
<1>9. \A k \in DOMAIN f.data : f.data[k] \in Values  BY <1>2 DEF FieldInv, TypeOK
<1> QED  BY <1>1, <1>2, <1>3, <1>4, <1>7, <1>8, <1>9, FinishKeeps

LEMMA KeepsPass ==
    ASSUME FieldInv, [Next]_state, Pass PROVE FieldInv'
<1>1. script' = script /\ PackageVars' = PackageVars  BY ScriptStays
<1>2. /\ ~Exhausted(at, langs) /\ at' = Succ(at)
      /\ UNCHANGED <<pc, use, langs, vars, todo, field, row, seen>>
  BY DEF Pass
<1>3. at \in Positions(langs) /\ langs \in AllLangs
  BY <1>2, FirstAndPast DEF FieldInv, TypeOK
<1>4. at' \in Positions(langs) \cup {Past(langs)}  BY <1>2, <1>3, SuccStays
<1>5. \A q \in Passed' : q \in Passed \/ q = at
  BY <1>2, <1>3, SuccCovers DEF Passed
<1>6. TypeOK'  BY <1>1, <1>2, <1>4 DEF FieldInv, TypeOK, WithPrefix
<1>7. MetaInv'
  <2> SUFFICES ASSUME pc = "meta" PROVE MetaInv'
    BY <1>2 DEF MetaInv
  <2>1. Target \o Name(at, langs) \notin DOMAIN script.metas
    BY DEF Pass, MetaIsThere, MetaName
  <2> QED  BY <1>1, <1>2, <1>5, <2>1 DEF FieldInv, MetaInv
<1>8. ResolveInv'
  <2> SUFFICES ASSUME pc = "resolve" PROVE ResolveInv'
    BY <1>2 DEF ResolveInv
  <2>1. Name(at, langs) \notin DOMAIN field.data  BY DEF Pass, Has
  <2> QED  BY <1>1, <1>2, <1>5, <2>1 DEF FieldInv, ResolveInv
<1>9. DecodeInv'
  <2>1. pc # "decode"  BY DEF Pass
  <2> QED  BY <1>2, <2>1 DEF DecodeInv
<1>10. Shape' /\ RowInv' /\ SeenInv'
  BY <1>1, <1>2 DEF FieldInv, Shape, RowInv, SeenInv
<1> QED  BY <1>6, <1>7, <1>8, <1>9, <1>10 DEF FieldInv

LEMMA FieldStep == ASSUME FieldInv, [Next]_state PROVE FieldInv'
<1>1. script' = script /\ PackageVars' = PackageVars  BY ScriptStays
<1>2. CASE \E u \in Parsers : ParseBuildVars(u)  BY <1>2, KeepsParse
<1>3. CASE CreatePackageFromMeta  BY <1>3, KeepsMeta
<1>4. CASE MetaMissing  BY <1>1, <1>4, FailureKeeps DEF MetaMissing
<1>5. ASSUME NEW v \in todo, SetVar(v) PROVE FieldInv'  BY <1>5, KeepsSet
<1>6. ASSUME NEW v \in todo, DecodeFails(v) PROVE FieldInv'
  BY <1>1, <1>6, FailureKeeps DEF DecodeFails
<1>7. CASE VarNotFound  BY <1>7, KeepsNotFound
<1>8. CASE Decoded  BY <1>8, KeepsDecoded
<1>9. CASE ReadToResolve("plan", "en")  BY <1>9, KeepsRead
<1>10. ASSUME NEW code \in UserLangs, ReadToResolve("show", code) PROVE FieldInv'
  BY <1>10, KeepsRead
<1>11. ASSUME NEW code \in UserLangs, LanguageUnknown("show", code) PROVE FieldInv'
  BY <1>11, KeepsUnknown
<1>12. CASE NewDBusPackage  BY <1>12, KeepsBus
<1>13. CASE SetResolved  BY <1>13, KeepsSetResolved
<1>14. CASE NothingResolved  BY <1>14, KeepsNothing
<1>15. CASE Pass  BY <1>15, KeepsPass
<1>16. CASE UNCHANGED state
  <2>1. UNCHANGED <<script, pc, use, langs, at, vars, todo, field, row, seen>>
    BY <1>16 DEF state
  <2>2. TypeOK'  BY <2>1 DEF FieldInv, TypeOK, WithPrefix
  <2>3. MetaInv' /\ DecodeInv' /\ ResolveInv' /\ RowInv' /\ SeenInv' /\ Shape'
    BY <1>1, <2>1
    DEF FieldInv, MetaInv, DecodeInv, ResolveInv, RowInv, SeenInv, Shape, Passed, WithPrefix
  <2> QED  BY <2>2, <2>3 DEF FieldInv
<1> QED
  BY <1>2, <1>3, <1>4, <1>5, <1>6, <1>7, <1>8, <1>9, <1>10, <1>11, <1>12, <1>13, <1>14,
     <1>15, <1>16 DEF Next

-----------------------------------------------------------------------------
(* The theorems *)

\* The invariant holds in every state of every behaviour.
THEOREM FieldInvariance == Spec => []FieldInv
  BY InitField, FieldStep, PTL DEF Spec

\* Every variable keeps its type and the loops stay in their bounds, for
\* lists of any length (overrides.go 73-106).
THEOREM FieldsAreTyped == Spec => []TypeOK
<1>1. FieldInv => TypeOK  BY DEF FieldInv
<1> QED  BY <1>1, FieldInvariance, PTL

\* Whoever resolves the field, from the script or from a row, gets the value
\* of the variable that comes first by language, distribution and
\* architecture (overridable.go 67, decoder.go 148).
THEOREM ResolvedIsAlwaysBest == Spec => []SeenIsBest
<1>1. FieldInv => SeenIsBest  BY DEF FieldInv, SeenInv, SeenIsBest
<1> QED  BY <1>1, FieldInvariance, PTL

\* A package has one set of variables, and those with different keys have
\* one value that counts.
LEMMA OneAnswer ==
    ASSUME script \in Scripts,
           NEW vs \in PackageVars, NEW ws \in PackageVars,
           NEW ls \in AllLangs, NEW x, NEW y, Right(vs, ls, x), Right(ws, ls, y), ~Clash(vs)
    PROVE  x = y
<1>1. vs = ws
  <2>1. CASE script.pkgs = {Target}  BY <2>1 DEF PackageVars
  <2>2. CASE script.pkgs # {Target}
    <3>1. PICK p \in Best(MetaApplies) : vs = Merged(script.metas[Target \o Name(p, English)])
      BY <2>2 DEF PackageVars, English
    <3>2. PICK q \in Best(MetaApplies) : ws = Merged(script.metas[Target \o Name(q, English)])
      BY <2>2 DEF PackageVars, English
    <3>3. MetaApplies \subseteq Positions(English)  BY DEF MetaApplies, English
    <3>4. p = q  BY <3>3, BestIsUnique, Lengths
    <3> QED  BY <3>1, <3>2, <3>4
  <2> QED  BY <2>1, <2>2
<1>2. DEFINE ps == Applies(KeysOf(vs), ls)
<1>3. ps \subseteq Positions(ls)  BY DEF Applies
<1>4. CASE ps = {}
  <2>1. Best(ps) = {}  BY <1>4 DEF Best
  <2> QED  BY <1>1, <2>1 DEF Right
<1>5. CASE ps # {}
  <2>1. PICK p \in Best(ps), v \in WithPrefix(vs) : v.key = Name(p, ls) /\ x = vs[v]
    BY <1>5 DEF Right
  <2>2. PICK q \in Best(ps), w \in WithPrefix(vs) : w.key = Name(q, ls) /\ y = vs[w]
    BY <1>1, <1>5 DEF Right
  <2>3. p = q  BY <1>3, BestIsUnique
  <2>4. v = w  BY <2>1, <2>2, <2>3 DEF Clash
  <2> QED  BY <2>1, <2>2, <2>4
<1> QED  BY <1>4, <1>5

\* The dependencies an installation plans with are those the build of the
\* same script wants, unless two variables share a key
\* (dependency_tree.go 169, build.go 382).
THEOREM PlansAlwaysMatch == Spec => []PlanMatchesBuild
<1>1. ASSUME FieldInv PROVE PlanMatchesBuild
  <2> SUFFICES ASSUME seen["plan"].is = "value", seen["build"].is = "value",
                      \A vs \in PackageVars : ~Clash(vs)
               PROVE  seen["plan"].value = seen["build"].value
    BY DEF PlanMatchesBuild
  <2>1. PICK vs \in PackageVars : Right(vs, English, seen["plan"].value)
    BY <1>1 DEF FieldInv, SeenInv, Uses, Readers
  <2>2. PICK ws \in PackageVars : Right(ws, English, seen["build"].value)
    BY <1>1 DEF FieldInv, SeenInv, Uses, Readers
  <2>3. English \in AllLangs /\ script \in Scripts  BY <1>1, Lengths DEF FieldInv, TypeOK
  <2> QED  BY <2>1, <2>2, <2>3, OneAnswer
<1> QED  BY <1>1, FieldInvariance, PTL

-----------------------------------------------------------------------------
(* The contents: paths *)

\* A path is above another one when it is shorter and has the same names.
Leads(d, p) == Len(d) < Len(p) /\ \A i \in 1 .. Len(d) : d[i] = p[i]

LEMMA StrictPrefixLeads ==
    ASSUME NEW S, NEW d \in Seq(S), NEW p \in Seq(S)
    PROVE  IsStrictPrefix(d, p) <=> Leads(d, p)
<1>1. ASSUME IsStrictPrefix(d, p) PROVE Leads(d, p)
  <2>1. Len(d) <= Len(p) /\ SubSeq(d, 1, Len(d)) = SubSeq(p, 1, Len(d)) /\ d # p
    BY <1>1 DEF IsStrictPrefix, IsPrefix
  <2>2. \A i \in 1 .. Len(d) : d[i] = p[i]
    <3>1. \A i \in 1 .. Len(d) : SubSeq(d, 1, Len(d))[i] = d[i]
      OBVIOUS
    <3>2. \A i \in 1 .. Len(d) : SubSeq(p, 1, Len(d))[i] = p[i]
      BY <2>1
    <3> QED
      BY <2>1, <3>1, <3>2
  <2>3. Len(d) # Len(p)
    BY <2>1, <2>2, SeqEqual
  <2> QED
    BY <2>1, <2>2, <2>3 DEF Leads
<1>2. ASSUME Leads(d, p) PROVE IsStrictPrefix(d, p)
  <2>1. Len(d) < Len(p) /\ \A i \in 1 .. Len(d) : d[i] = p[i]
    BY <1>2 DEF Leads
  <2>2. /\ SubSeq(d, 1, Len(d)) \in Seq(S) /\ Len(SubSeq(d, 1, Len(d))) = Len(d)
        /\ SubSeq(p, 1, Len(d)) \in Seq(S) /\ Len(SubSeq(p, 1, Len(d))) = Len(d)
    BY <2>1
  <2>3. \A i \in 1 .. Len(d) : SubSeq(d, 1, Len(d))[i] = SubSeq(p, 1, Len(d))[i]
    BY <2>1
  <2>4. SubSeq(d, 1, Len(d)) = SubSeq(p, 1, Len(d))
    BY <2>2, <2>3, SeqEqual
  <2> QED
    BY <2>1, <2>4 DEF IsStrictPrefix, IsPrefix
<1> QED
  BY <1>1, <1>2

LEMMA AboveLeads ==
    ASSUME NEW p \in Paths, NEW d
    PROVE  d \in Above(p) <=> d \in Paths /\ Leads(d, p)
<1>1. p \in Seq(Names) /\ Len(p) \in Nat
  BY DEF Paths
<1>2. ASSUME d \in Above(p) PROVE d \in Paths /\ Leads(d, p)
  <2>1. PICK n \in 1 .. (Len(p) - 1) : d = SubSeq(p, 1, n)
    BY <1>2 DEF Above
  <2>2. n \in Nat /\ n >= 1 /\ n < Len(p)
    BY <1>1, <2>1
  <2>3. d \in Seq(Names) /\ Len(d) = n /\ \A i \in 1 .. n : d[i] = p[i]
    BY <1>1, <2>1, <2>2
  <2>4. d # Root
    BY <2>2, <2>3 DEF Root
  <2> QED
    BY <2>2, <2>3, <2>4 DEF Paths, Leads
<1>3. ASSUME d \in Paths, Leads(d, p) PROVE d \in Above(p)
  <2>1. d \in Seq(Names) /\ d # << >>
    BY <1>3 DEF Paths, Root
  <2>2. Len(d) \in 1 .. (Len(p) - 1)
    BY <1>1, <1>3, <2>1, EmptySeq DEF Leads
  <2>3. SubSeq(p, 1, Len(d)) \in Seq(Names) /\ Len(SubSeq(p, 1, Len(d))) = Len(d)
    BY <1>1, <2>2
  <2>4. \A i \in 1 .. Len(d) : SubSeq(p, 1, Len(d))[i] = d[i]
    BY <1>1, <1>3, <2>2 DEF Leads
  <2>5. d = SubSeq(p, 1, Len(d))
    BY <2>1, <2>3, <2>4, SeqEqual
  <2> QED
    BY <2>2, <2>5 DEF Above
<1> QED
  BY <1>2, <1>3

\* What is above a path is above what is below it.
LEMMA AboveTransitive ==
    ASSUME NEW p \in Paths, NEW q \in Above(p), NEW d \in Above(q)
    PROVE  d \in Above(p)
<1>1. q \in Paths /\ Leads(q, p)
  BY AboveLeads
<1>2. d \in Paths /\ Leads(d, q)
  BY <1>1, AboveLeads
<1>3. Len(d) \in Nat /\ Len(q) \in Nat /\ Len(p) \in Nat
  BY <1>1, <1>2 DEF Paths
<1>4. Leads(d, p)
  BY <1>1, <1>2, <1>3 DEF Leads
<1> QED
  BY <1>2, <1>4, AboveLeads

LEMMA AboveIsShorter ==
    ASSUME NEW p \in Paths, NEW q \in Above(p)
    PROVE  q \in Paths /\ Len(q) < Len(p) /\ q # p /\ q # Root
<1>1. q \in Paths /\ Leads(q, p)
  BY AboveLeads
<1>2. Len(q) \in Nat /\ Len(p) \in Nat
  BY <1>1 DEF Paths
<1> QED
  BY <1>1, <1>2 DEF Leads, Paths

-----------------------------------------------------------------------------
(* What Put does to a tree *)

LEMMA PutDomain ==
    ASSUME NEW t, NEW p, NEW e
    PROVE  DOMAIN Put(t, p, e) = DOMAIN t \cup Above(p) \cup {p}
BY DEF Put

LEMMA PutKeeps ==
    ASSUME NEW t, NEW p, NEW e, NEW q \in DOMAIN t, q # p
    PROVE  q \in DOMAIN Put(t, p, e) /\ Put(t, p, e)[q] = t[q]
BY DEF Put

LEMMA PutPuts ==
    ASSUME NEW t, NEW p, NEW e
    PROVE  p \in DOMAIN Put(t, p, e) /\ Put(t, p, e)[p] = e
BY DEF Put

LEMMA PutMakes ==
    ASSUME NEW t, NEW p, NEW e, NEW q \in Above(p), q # p, q \notin DOMAIN t
    PROVE  q \in DOMAIN Put(t, p, e) /\ Put(t, p, e)[q] = Dir
BY DEF Put

\* Whatever is in a tree after Put is new, made above it, or was there before.
LEMMA PutCases ==
    ASSUME NEW t, NEW p, NEW e, NEW q \in DOMAIN Put(t, p, e)
    PROVE  \/ q = p /\ Put(t, p, e)[q] = e
           \/ q # p /\ q \in DOMAIN t /\ Put(t, p, e)[q] = t[q]
           \/ q # p /\ q \notin DOMAIN t /\ q \in Above(p) /\ Put(t, p, e)[q] = Dir
<1>1. q \in DOMAIN t \cup Above(p) \cup {p}
  BY PutDomain
<1>2. Put(t, p, e)[q] = IF q = p THEN e ELSE IF q \in DOMAIN t THEN t[q] ELSE Dir
  BY <1>1 DEF Put
<1>3. CASE q = p
  BY <1>2, <1>3
<1>4. CASE q # p /\ q \in DOMAIN t
  BY <1>2, <1>4
<1>5. CASE q # p /\ q \notin DOMAIN t
  BY <1>1, <1>2, <1>5
<1> QED
  BY <1>3, <1>4, <1>5

\* A tree stays one when nothing but a directory takes the place of a directory
\* and nothing but directories are above the new entry.
LEMMA PutTree ==
    ASSUME NEW t, IsTree(t), DOMAIN t \subseteq Paths,
           NEW p \in Paths, CanHold(t, p),
           NEW e, e.kind \in Kinds, p \in DOMAIN t /\ t[p].kind = "dir" => e.kind = "dir"
    PROVE  IsTree(Put(t, p, e)) /\ DOMAIN Put(t, p, e) \subseteq Paths
<1> DEFINE u == Put(t, p, e)
<1>1. DOMAIN u \subseteq Paths
  <2>1. DOMAIN u = DOMAIN t \cup Above(p) \cup {p}
    BY PutDomain
  <2>2. \A q \in Above(p) : q \in Paths
    BY AboveIsShorter
  <2> QED
    BY <2>1, <2>2
<1>2. Dir.kind = "dir" /\ "dir" \in Kinds
  BY DEF Dir, Kinds
<1>3. ASSUME NEW q \in Above(p) PROVE IsDir(u, q)
  <2>1. q # p
    BY AboveIsShorter
  <2>2. CASE q \in DOMAIN t
    <3>1. t[q].kind = "dir"
      BY <2>2, AboveIsShorter DEF CanHold, IsDir, Exists
    <3> QED
      BY <2>1, <2>2, <3>1, PutKeeps DEF IsDir
  <2>3. CASE q \notin DOMAIN t
    BY <1>2, <2>1, <2>3, PutMakes DEF IsDir
  <2> QED
    BY <2>2, <2>3
<1>4. ASSUME NEW q \in DOMAIN t, t[q].kind = "dir" PROVE IsDir(u, q)
  <2>1. CASE q = p
    BY <1>4, <2>1, PutPuts DEF IsDir
  <2>2. CASE q # p
    BY <1>4, <2>2, PutKeeps DEF IsDir
  <2> QED
    BY <2>1, <2>2
<1>5. ASSUME NEW q \in DOMAIN u PROVE u[q].kind \in Kinds /\ \A d \in Above(q) : IsDir(u, d)
  <2>1. CASE q = p /\ u[q] = e
    BY <1>3, <2>1
  <2>2. CASE q # p /\ q \in DOMAIN t /\ u[q] = t[q]
    <3>1. u[q].kind \in Kinds
      BY <2>2 DEF IsTree
    <3>2. ASSUME NEW d \in Above(q) PROVE IsDir(u, d)
      <4>1. IsDir(t, d)
        BY <2>2 DEF IsTree
      <4>2. d # Root
        BY <2>2, AboveIsShorter
      <4> QED
        BY <1>4, <4>1, <4>2 DEF IsDir
    <3> QED
      BY <3>1, <3>2
  <2>3. CASE q # p /\ q \notin DOMAIN t /\ q \in Above(p) /\ u[q] = Dir
    BY <1>2, <1>3, <2>3, AboveTransitive
  <2> QED
    BY <2>1, <2>2, <2>3, PutCases
<1> HIDE DEF u
<1>6. IsTree(u)
  BY <1>5 DEF IsTree
<1> QED
  BY <1>1, <1>6 DEF u

\* A directory stays one when it is not where something is put.
LEMMA PutKeepsDirs ==
    ASSUME NEW t, NEW p, NEW e, NEW q, IsDir(t, q), q # p
    PROVE  IsDir(Put(t, p, e), q)
BY PutKeeps DEF IsDir

-----------------------------------------------------------------------------
(* The package directory as a script leaves it *)

\* What is there is where the script names it, or a directory above that, and
\* no path is longer than some number.
FromScript(t) ==
    /\ DOMAIN t \subseteq Paths
    /\ \E n \in Nat : \A p \in DOMAIN t : Len(p) <= n
    /\ \A p \in DOMAIN t :
          /\ \E q \in Named : p = q \/ p \in Above(q)
          /\ t[p].kind # "dir" => p \in Named
          /\ t[p].kind = "link" => \E m \in Makings : p = m.at /\ t[p] = m.entry

LEMMA NamedPaths == Named \subseteq Paths
BY NamesAssumption

LEMMA FromScriptPut ==
    ASSUME NEW t, FromScript(t), NEW p \in Named,
           NEW e, e.kind = "link" => \E m \in Makings : p = m.at /\ e = m.entry
    PROVE  FromScript(Put(t, p, e))
<1>1. PICK u : u = Put(t, p, e)
  OBVIOUS
<1>2. p \in Paths
  BY NamedPaths
<1>3. \A q \in Above(p) : q \in Paths /\ Len(q) < Len(p)
  BY <1>2, AboveIsShorter
<1>4. DOMAIN u = DOMAIN t \cup Above(p) \cup {p}
  BY <1>1, PutDomain
<1>5. DOMAIN u \subseteq Paths
  BY <1>2, <1>3, <1>4 DEF FromScript
<1>6. PICK n \in Nat : \A q \in DOMAIN t : Len(q) <= n
  BY DEF FromScript
<1>7. \A q \in Paths : Len(q) \in Nat
  BY DEF Paths
<1>8. \E k \in Nat : \A q \in DOMAIN u : Len(q) <= k
  <2>1. n + Len(p) \in Nat
    BY <1>2, <1>6, <1>7
  <2>2. \A q \in DOMAIN u : Len(q) <= n + Len(p)
    BY <1>2, <1>3, <1>4, <1>5, <1>6, <1>7
  <2> QED
    BY <2>1, <2>2
<1>9. ASSUME NEW q \in DOMAIN u
      PROVE  /\ \E x \in Named : q = x \/ q \in Above(x)
             /\ u[q].kind # "dir" => q \in Named
             /\ u[q].kind = "link" => \E m \in Makings : q = m.at /\ u[q] = m.entry
  <2>1. CASE q = p /\ u[q] = e
    BY <2>1
  <2>2. CASE q # p /\ q \in DOMAIN t /\ u[q] = t[q]
    BY <2>2 DEF FromScript
  <2>3. CASE q # p /\ q \notin DOMAIN t /\ q \in Above(p) /\ u[q] = Dir
    <3>1. u[q].kind = "dir"
      BY <2>3 DEF Dir
    <3> QED
      BY <2>3, <3>1
  <2> QED
    BY <1>1, <2>1, <2>2, <2>3, PutCases
<1>10. FromScript(u)
  BY <1>5, <1>8, <1>9 DEF FromScript
<1> QED
  BY <1>1, <1>10

\* A file may be put where an install-* command finds room for it.
LEMMA InstallTarget ==
    ASSUME NEW t, FromScript(t), NEW p \in Named, CanInstall(t, p)
    PROVE  /\ LinkTarget(t, p) \in Named
           /\ CanHold(t, LinkTarget(t, p))
           /\ LinkTarget(t, p) \in DOMAIN t => t[LinkTarget(t, p)].kind # "dir"
           /\ p \in DOMAIN t \/ LinkTarget(t, p) = p
           /\ p \in DOMAIN t => t[p].kind # "dir"
<1>1. CASE p \in DOMAIN t /\ t[p].kind = "link"
  <2>1. PICK m \in Makings : p = m.at /\ t[p] = m.entry
    BY <1>1 DEF FromScript
  <2>2. LinkTarget(t, p) = Led(m)
    BY <1>1, <2>1 DEF LinkTarget, Led
  <2>3. m \in {x \in Makings : x.entry.kind = "link"}
    BY <1>1, <2>1
  <2>4. Led(m) \in Named
    BY <2>3 DEF Named
  <2>5. \A d \in Above(LinkTarget(t, p)) : IsDir(t, d)
    BY <1>1 DEF CanInstall
  <2>6. LinkTarget(t, p) \in DOMAIN t => t[LinkTarget(t, p)].kind = "file"
    BY <1>1 DEF CanInstall
  <2> QED
    BY <1>1, <2>2, <2>4, <2>5, <2>6 DEF CanHold
<1>2. CASE ~(p \in DOMAIN t /\ t[p].kind = "link")
  <2>1. LinkTarget(t, p) = p
    BY <1>2 DEF LinkTarget
  <2>2. p \in DOMAIN t => t[p].kind = "file"
    BY <1>2 DEF CanInstall
  <2>3. CanHold(t, p)
    BY DEF CanInstall
  <2> QED
    BY <2>1, <2>2, <2>3
<1> QED
  BY <1>1, <1>2

\* What is left when a path and what is below it is deleted is a tree again.
LEMMA DeleteCuts ==
    ASSUME NEW t, FromScript(t), IsTree(t), NEW p \in DOMAIN t,
           NEW u, u = [q \in DOMAIN t \ (Under(t, p) \cup {p}) |-> t[q]]
    PROVE  /\ FromScript(u) /\ IsTree(u)
           /\ \A q \in DOMAIN t \ (Under(t, p) \cup {p}) : q \in DOMAIN u /\ u[q] = t[q]
<1>1. PICK D : D = DOMAIN t \ (Under(t, p) \cup {p})
  OBVIOUS
<1>2. DOMAIN u = D /\ D \subseteq DOMAIN t /\ \A q \in D : u[q] = t[q]
  BY <1>1
<1>3. FromScript(u)
  BY <1>2 DEF FromScript
<1>4. ASSUME NEW q \in D, NEW d \in Above(q) PROVE IsDir(u, d)
  <2>1. IsDir(t, d) /\ q \in Paths /\ p \in Paths
    BY <1>2 DEF IsTree, FromScript
  <2>2. d \in Paths /\ Leads(d, q)
    BY <2>1, AboveLeads
  <2>3. d \in DOMAIN t /\ t[d].kind = "dir"
    BY <2>1, <2>2 DEF IsDir, Paths
  <2>4. /\ p \in Seq(Names) /\ d \in Seq(Names) /\ q \in Seq(Names)
        /\ Len(p) \in Nat /\ Len(d) \in Nat /\ Len(q) \in Nat
    BY <2>1, <2>2 DEF Paths
  <2>5. ~Leads(p, q) /\ q # p
    <3>1. ~IsStrictPrefix(p, q) /\ q # p
      BY <1>1, <1>2 DEF Under
    <3> QED
      BY <2>4, <3>1, StrictPrefixLeads
  <2>6. d # p
    BY <2>2, <2>5
  <2>7. ~Leads(p, d)
    <3>1. Leads(p, d) => Leads(p, q)
      BY <2>2, <2>4 DEF Leads
    <3> QED
      BY <2>5, <3>1
  <2>8. ~IsStrictPrefix(p, d)
    BY <2>4, <2>7, StrictPrefixLeads
  <2>9. d \in D
    BY <1>1, <2>3, <2>6, <2>8 DEF Under
  <2> QED
    BY <1>2, <2>3, <2>9 DEF IsDir
<1>5. IsTree(u)
  BY <1>2, <1>4 DEF IsTree
<1> QED
  BY <1>1, <1>2, <1>3, <1>5

LEMMA PlacesAreNamed ==
    ASSUME NEW c \in Installs, NEW s \in Systems, NEW p \in Place(c, s)
    PROVE  p \in Named
BY DEF Named

-----------------------------------------------------------------------------
(* The commands that list files *)

LEMMA WalkNamedWithin ==
    ASSUME NEW t, NEW d, NEW pattern
    PROVE  WalkNamed(t, d, pattern) \subseteq DOMAIN t
BY DEF WalkNamed, Under

LEMMA FindInWithin ==
    ASSUME NEW t, NEW d, NEW pattern
    PROVE  FindIn(t, d, pattern).files \subseteq DOMAIN t
BY WalkNamedWithin DEF FindIn, Files, Error

LEMMA FindInAllWithin ==
    ASSUME NEW t, NEW D, NEW pattern
    PROVE  FindInAll(t, D, pattern).files \subseteq DOMAIN t
BY WalkNamedWithin DEF FindInAll, Files

LEMMA FindLangWithin ==
    ASSUME NEW t, NEW pattern
    PROVE  FindLang(t, pattern).files \subseteq DOMAIN t
BY WalkNamedWithin DEF FindLang, Files, Error

LEMMA FindDocWithin ==
    ASSUME NEW t, NEW pattern
    PROVE  FindDoc(t, pattern).files \subseteq DOMAIN t
BY DEF FindDoc, Files, Error, Children, Under

LEMMA FindFilesWithin ==
    ASSUME NEW t, NEW base, NEW pattern \in {"", "*", "**"}
    PROVE  FindFiles(t, base, pattern).files \subseteq DOMAIN t \cup {base}
<1>1. CASE ~Exists(t, base) \/ (pattern # "" /\ ~IsDir(t, base))
  BY <1>1 DEF FindFiles, Error
<1>2. CASE ~(~Exists(t, base) \/ (pattern # "" /\ ~IsDir(t, base)))
  <2>1. CASE pattern = ""
    BY <1>2, <2>1 DEF FindFiles, Files
  <2>2. CASE pattern = "*"
    BY <1>2, <2>2 DEF FindFiles, Files, Children, Under
  <2>3. CASE pattern = "**"
    BY <1>2, <2>3 DEF FindFiles, Files, Under
  <2> QED
    BY <2>1, <2>2, <2>3
<1> QED
  BY <1>1, <1>2

\* A command lists what is in the package directory, or its own argument.
LEMMA FindWithin ==
    ASSUME NEW t, NEW f \in Finds, f.cmd # "echo"
    PROVE  Find(t, f).files \subseteq DOMAIN t \cup {f.at}
<1>1. f.cmd \in FindCommands
  BY CommandsAssumption
<1>2. CASE f.cmd = "find"
  <2>1. Find(t, f) = FindFiles(t, f.at, f.pattern)
    BY <1>2 DEF Find
  <2>2. f.pattern \in {"", "*", "**"}
    BY <1>2, CommandsAssumption
  <2> QED
    BY <2>1, <2>2, FindFilesWithin
<1>3. CASE f.cmd = "lang"
  BY <1>3, FindLangWithin DEF Find
<1>4. CASE f.cmd = "doc"
  BY <1>4, FindDocWithin DEF Find
<1>5. CASE f.cmd \in {"lib", "sbin"}
  BY <1>5, FindInAllWithin DEF Find, FindLib, FindSbin
<1>6. CASE f.cmd \in {"bin", "include", "share", "man", "config"}
  BY <1>6, FindInWithin DEF Find, FindBin, FindInclude, FindShare, FindMan, FindConfig
<1>7. CASE f.cmd \in {"systemd", "systemd_user", "license", "icons", "desktop", "dbus", "polkit"}
  BY <1>7, FindInWithin
  DEF Find, FindSystemd, FindSystemdUser, FindLicense, FindIcons, FindDesktop, FindDbus,
      FindPolkit
<1> QED
  BY <1>1, <1>2, <1>3, <1>4, <1>5, <1>6, <1>7 DEF FindCommands

-----------------------------------------------------------------------------
(* What is installed is found *)

\* A walk through a directory comes upon what is below it.
LEMMA WalkFinds ==
    ASSUME NEW t, IsTree(t), DOMAIN t \subseteq Paths,
           NEW p \in DOMAIN t, t[p].kind # "dir", NEW d \in Paths, Leads(d, p)
    PROVE  p \in WalkNamed(t, d, "*") /\ p \in FindIn(t, d, "*").files
<1>1. IsStrictPrefix(d, p)
  BY StrictPrefixLeads DEF Paths
<1>2. p \in WalkNamed(t, d, "*")
  BY <1>1 DEF WalkNamed, Under, MatchNamePattern
<1>3. IsDir(t, d)
  BY AboveLeads DEF IsTree
<1> QED
  BY <1>2, <1>3 DEF FindIn, Files

LEMMA NonEmptyPath ==
    ASSUME NEW s \in Seq(Names), Len(s) > 0
    PROVE  s \in Paths
BY EmptySeq DEF Paths, Root

LEMMA ConcatLeads ==
    ASSUME NEW d \in Paths, NEW s \in Paths
    PROVE  Leads(d, d \o s)
<1>1. d \in Seq(Names) /\ s \in Seq(Names) /\ s # << >>
  BY DEF Paths, Root
<1>2. Len(s) \in Nat /\ Len(s) > 0 /\ Len(d) \in Nat
  BY <1>1, EmptySeq
<1>3. Len(d \o s) = Len(d) + Len(s)
  BY <1>1
<1>4. \A i \in 1 .. Len(d) : (d \o s)[i] = d[i]
  BY <1>1
<1> QED
  BY <1>2, <1>3, <1>4 DEF Leads

\* Where a command puts a file, and with which command it is listed.
LEMMA DirIsFound ==
    ASSUME NEW t, IsTree(t), DOMAIN t \subseteq Paths,
           NEW c \in Installs, c.do \in DOMAIN InstallDirs, c.do # "icon",
           NEW p \in Place(c, sys), p \in DOMAIN t, t[p].kind # "dir",
           NEW i, i.do = c.do, i.at = p
    PROVE  p \in Find(t, Counterpart(i)).files
<1>1. c.to \in Paths
  BY CommandsAssumption
<1>2. PICK d : d = InstallDirs[c.do]
  OBVIOUS
<1>3. p = d \o c.to
  <2>1. c.do \notin {"library", "manual", "completion"}
    BY DEF InstallDirs
  <2> QED
    BY <1>2, <2>1 DEF Place
<1>4. d \in Paths
  <2>1. /\ <<"usr", "bin">> \in Seq(Names) /\ Len(<<"usr", "bin">>) = 2
        /\ <<"etc">> \in Seq(Names) /\ Len(<<"etc">>) = 1
    BY NamesAssumption
  <2>2. \A a \in Names : <<"usr", "share", a>> \in Seq(Names) /\ Len(<<"usr", "share", a>>) = 3
    BY NamesAssumption
  <2>3. \A a \in Names : /\ <<"usr", "lib", "systemd", a>> \in Seq(Names)
                         /\ Len(<<"usr", "lib", "systemd", a>>) = 4
    BY NamesAssumption
  <2>4. \/ d \in {<<"usr", "bin">>, <<"etc">>}
        \/ \E a \in Names : d = <<"usr", "share", a>> \/ d = <<"usr", "lib", "systemd", a>>
    BY <1>2, NamesAssumption DEF InstallDirs
  <2>5. d \in Seq(Names) /\ Len(d) > 0
    <3>1. CASE d \in {<<"usr", "bin">>, <<"etc">>}
      <4>1. CASE d = <<"usr", "bin">>
        BY <2>1, <4>1
      <4>2. CASE d = <<"etc">>
        BY <2>1, <4>2
      <4> QED
        BY <3>1, <4>1, <4>2
    <3>2. CASE \E a \in Names : d = <<"usr", "share", a>> \/ d = <<"usr", "lib", "systemd", a>>
      <4>1. PICK a \in Names : d = <<"usr", "share", a>> \/ d = <<"usr", "lib", "systemd", a>>
        BY <3>2
      <4>2. CASE d = <<"usr", "share", a>>
        BY <2>2, <4>2
      <4>3. CASE d = <<"usr", "lib", "systemd", a>>
        BY <2>3, <4>3
      <4> QED
        BY <4>1, <4>2, <4>3
    <3> QED
      BY <2>4, <3>1, <3>2
  <2> QED
    BY <2>5, NonEmptyPath
<1>5. p \in FindIn(t, d, "*").files
  BY <1>1, <1>3, <1>4, ConcatLeads, WalkFinds
<1>6. Counterpart(i).cmd = IF c.do = "binary" THEN "bin" ELSE c.do
  BY DEF Counterpart, InstallDirs
<1>7. Counterpart(i).pattern = "*"
  BY DEF Counterpart
<1>8. PICK f : f = Counterpart(i)
  OBVIOUS
<1>9. Find(t, f) = FindIn(t, d, "*")
  <2>1. CASE c.do = "binary"
    BY <1>2, <1>6, <1>7, <1>8, <2>1 DEF Find, FindBin, InstallDirs
  <2>2. CASE c.do = "systemd"
    BY <1>2, <1>6, <1>7, <1>8, <2>2 DEF Find, FindSystemd, InstallDirs
  <2>3. CASE c.do = "systemd_user"
    BY <1>2, <1>6, <1>7, <1>8, <2>3 DEF Find, FindSystemdUser, InstallDirs
  <2>4. CASE c.do = "config"
    BY <1>2, <1>6, <1>7, <1>8, <2>4 DEF Find, FindConfig, InstallDirs
  <2>5. CASE c.do = "license"
    BY <1>2, <1>6, <1>7, <1>8, <2>5 DEF Find, FindLicense, InstallDirs
  <2>6. CASE c.do = "desktop"
    BY <1>2, <1>6, <1>7, <1>8, <2>6 DEF Find, FindDesktop, InstallDirs
  <2> QED
    BY <2>1, <2>2, <2>3, <2>4, <2>5, <2>6 DEF InstallDirs
<1> QED
  BY <1>5, <1>8, <1>9

LEMMA LibraryIsFound ==
    ASSUME NEW t, IsTree(t), DOMAIN t \subseteq Paths, sys \in Systems, sys.libDir = Root,
           NEW c \in Installs, c.do = "library",
           NEW p \in Place(c, sys), p \in DOMAIN t, t[p].kind # "dir",
           NEW i, i.do = c.do, i.at = p
    PROVE  p \in Find(t, Counterpart(i)).files
<1>1. c.to \in Paths /\ sys.tuple \in Names
  BY CommandsAssumption
<1>2. c.do \notin DOMAIN InstallDirs
  BY DEF InstallDirs
<1>3. p = GetLibPrefix(sys) \o c.to
  BY <1>2 DEF Place
<1>4. GetLibPrefix(sys) \in {<<"usr", "lib">>, <<"usr", "lib", sys.tuple>>, <<"usr", "lib64">>}
  BY DEF GetLibPrefix, Root
<1>5. <<"usr", "lib">> \in Paths /\ <<"usr", "lib64">> \in Paths /\ <<"usr", "lib", sys.tuple>> \in Paths
  <2>1. /\ <<"usr", "lib">> \in Seq(Names) /\ Len(<<"usr", "lib">>) > 0
        /\ <<"usr", "lib64">> \in Seq(Names) /\ Len(<<"usr", "lib64">>) > 0
    BY NamesAssumption
  <2>2. /\ <<"usr", "lib", sys.tuple>> \in Seq(Names)
        /\ Len(<<"usr", "lib", sys.tuple>>) > 0
    BY <1>1, NamesAssumption
  <2> QED
    BY <2>1, <2>2, NonEmptyPath
<1>6. Leads(<<"usr", "lib">>, p) \/ Leads(<<"usr", "lib64">>, p)
  <2>1. CASE GetLibPrefix(sys) = <<"usr", "lib">>
    BY <1>1, <1>3, <1>5, <2>1, ConcatLeads
  <2>2. CASE GetLibPrefix(sys) = <<"usr", "lib64">>
    BY <1>1, <1>3, <1>5, <2>2, ConcatLeads
  <2>3. CASE GetLibPrefix(sys) = <<"usr", "lib", sys.tuple>>
    <3>1. Leads(<<"usr", "lib", sys.tuple>>, p)
      BY <1>1, <1>3, <1>5, <2>3, ConcatLeads
    <3>2. Leads(<<"usr", "lib">>, <<"usr", "lib", sys.tuple>>)
      BY DEF Leads
    <3>3. p \in Paths
      OBVIOUS
    <3>4. <<"usr", "lib", sys.tuple>> \in Above(p)
      BY <1>5, <3>1, <3>3, AboveLeads
    <3>5. <<"usr", "lib">> \in Above(p)
      BY <1>5, <3>2, <3>3, <3>4, AboveLeads, AboveTransitive
    <3> QED
      BY <3>3, <3>5, AboveLeads
  <2> QED
    BY <1>4, <2>1, <2>2, <2>3
<1>7. p \in WalkNamed(t, <<"usr", "lib">>, "*") \/ p \in WalkNamed(t, <<"usr", "lib64">>, "*")
  BY <1>5, <1>6, WalkFinds
<1>8. p \in FindLib(t, "*").files
  BY <1>7 DEF FindLib, FindInAll, Files
<1>9. Counterpart(i).cmd = "lib" /\ Counterpart(i).pattern = "*"
  BY DEF Counterpart
<1> QED
  BY <1>8, <1>9 DEF Find

LEMMA ManualIsFound ==
    ASSUME NEW t, IsTree(t), DOMAIN t \subseteq Paths,
           NEW c \in Installs, c.do = "manual",
           NEW p \in Place(c, sys), p \in DOMAIN t, t[p].kind # "dir",
           NEW i, i.do = c.do, i.at = p
    PROVE  p \in Find(t, Counterpart(i)).files
<1>1. c.do \notin DOMAIN InstallDirs
  BY DEF InstallDirs
<1>2. PICK n \in DOMAIN ManSection : p = <<"usr", "share", "man", "man" \o ManSection[n], n>>
  BY <1>1 DEF Place
<1>3. PICK s : s = "man" \o ManSection[n]
  OBVIOUS
<1>4. p = <<"usr", "share", "man", s, n>> /\ p \in Seq(Names) /\ Len(p) = 5
  BY <1>2, <1>3 DEF Paths
<1>5. s \in Names /\ Last(p) = n
  BY <1>4 DEF Last
<1>6. <<"usr", "share", "man", s>> \in Paths /\ Leads(<<"usr", "share", "man", s>>, p)
  BY <1>4, <1>5 DEF Paths, Root, Leads
<1>7. p \in FindIn(t, <<"usr", "share", "man", s>>, "*").files
  BY <1>6, WalkFinds
<1>8. /\ Counterpart(i).cmd = "man" /\ Counterpart(i).pattern = "*"
      /\ Counterpart(i).at = <<ManSection[n]>>
  BY <1>5 DEF Counterpart
<1>9. Find(t, Counterpart(i)) = FindMan(t, ManSection[n], "*")
  BY <1>8 DEF Find
<1> QED
  BY <1>3, <1>7, <1>9 DEF FindMan

LEMMA CompletionIsFound ==
    ASSUME NEW t, IsTree(t), DOMAIN t \subseteq Paths,
           NEW c \in Installs, c.do = "completion",
           NEW p \in Place(c, sys), p \in DOMAIN t, t[p].kind # "dir", Len(p) # 1,
           NEW i, i.do = c.do, i.at = p
    PROVE  p \in Find(t, Counterpart(i)).files
<1>1. c.do \notin DOMAIN InstallDirs
  BY DEF InstallDirs
<1>2. PICK shell, n : p = CompletionPath(shell, n)
  BY <1>1 DEF Place
<1>3. Leads(<<"usr", "share">>, p)
  <2>1. PICK u, v, x : u = "_" \o n /\ v = n \o ".fish" /\ x = n
    OBVIOUS
  <2>2. CASE shell = "bash"
    BY <1>2, <2>2 DEF CompletionPath, Leads
  <2>3. CASE shell = "zsh"
    <3>1. p = <<"usr", "share", "zsh", "site-functions", u>>
      BY <1>2, <2>1, <2>3 DEF CompletionPath
    <3> QED
      BY <3>1 DEF Leads
  <2>4. CASE shell = "fish"
    <3>1. p = <<"usr", "share", "fish", "vendor_completions.d", v>>
      BY <1>2, <2>1, <2>4 DEF CompletionPath
    <3> QED
      BY <3>1 DEF Leads
  <2>5. CASE shell \notin {"bash", "zsh", "fish"}
    <3>1. p = <<n>>
      BY <1>2, <2>5 DEF CompletionPath
    <3> QED
      BY <3>1
  <2> QED
    BY <2>2, <2>3, <2>4, <2>5
<1>4. <<"usr", "share">> \in Paths
  <2>1. <<"usr", "share">> \in Seq(Names) /\ Len(<<"usr", "share">>) > 0
    BY NamesAssumption
  <2> QED
    BY <2>1, NonEmptyPath
<1>5. p \in FindIn(t, <<"usr", "share">>, "*").files
  BY <1>3, <1>4, WalkFinds
<1>6. Counterpart(i).cmd = "share" /\ Counterpart(i).pattern = "*" /\ Counterpart(i).at = << >>
  BY DEF Counterpart, Root
<1>7. <<"usr", "share">> \o << >> = <<"usr", "share">>
  OBVIOUS
<1>8. Find(t, Counterpart(i)) = FindIn(t, <<"usr", "share">>, "*")
  BY <1>6, <1>7 DEF Find, FindShare
<1> QED
  BY <1>5, <1>8

-----------------------------------------------------------------------------
(* Programs, and the directory of the jail *)

LEMMA BinaryDirectoriesArePaths == BinaryDirectories \subseteq Paths
<1>1. <<"usr", "bin">> \in Seq(Names) /\ Len(<<"usr", "bin">>) > 0
  BY NamesAssumption
<1>2. <<"bin">> \in Seq(Names) /\ Len(<<"bin">>) > 0
  BY NamesAssumption
<1>3. <<"usr", "local", "bin">> \in Seq(Names) /\ Len(<<"usr", "local", "bin">>) > 0
  BY NamesAssumption
<1> QED
  BY <1>1, <1>2, <1>3, NonEmptyPath DEF BinaryDirectories

LEMMA JailIsPath == Jail \in Paths /\ Len(Jail) = 4
<1>1. Jail \in Seq(Names) /\ Len(Jail) = 4
  BY NamesAssumption DEF Jail
<1> QED
  BY <1>1, NonEmptyPath

LEMMA BinaryLeads ==
    ASSUME NEW p \in Paths
    PROVE  IsBinary(p) <=> \E d \in BinaryDirectories : Leads(d, p)
<1>1. p \in Seq(Names) /\ \A d \in BinaryDirectories : d \in Seq(Names)
  BY BinaryDirectoriesArePaths DEF Paths
<1>2. \A d \in BinaryDirectories : IsStrictPrefix(d, p) <=> Leads(d, p)
  BY <1>1, StrictPrefixLeads
<1> QED
  BY <1>2 DEF IsBinary

\* What is in the directory of the jail, or above it, is no program.
LEMMA JailIsNotBinary ==
    ASSUME NEW p \in Paths, Leads(p, Jail) \/ p = Jail \/ Leads(Jail, p)
    PROVE  ~IsBinary(p)
<1>1. Len(Jail) = 4 /\ Jail[1] = "usr" /\ Jail[2] = "lib"
  BY DEF Jail
<1>2. Len(p) \in Nat
  BY DEF Paths
<1>3. SUFFICES ASSUME NEW d \in BinaryDirectories, Leads(d, p) PROVE FALSE
  BY BinaryLeads
<1>4. /\ Len(p) >= 1 => p[1] = "usr"
      /\ Len(p) >= 2 => p[2] = "lib"
  <2>1. CASE Leads(p, Jail)
    BY <1>1, <1>2, <2>1 DEF Leads
  <2>2. CASE p = Jail
    BY <1>1, <2>2
  <2>3. CASE Leads(Jail, p)
    BY <1>1, <1>2, <2>3 DEF Leads
  <2> QED
    BY <2>1, <2>2, <2>3
<1>5. CASE d = <<"usr", "bin">>
  <2>1. Len(d) = 2 /\ d[2] = "bin"
    BY <1>5
  <2> QED
    BY <1>2, <1>3, <1>4, <2>1 DEF Leads
<1>6. CASE d = <<"bin">>
  <2>1. Len(d) = 1 /\ d[1] = "bin"
    BY <1>6
  <2> QED
    BY <1>2, <1>3, <1>4, <2>1 DEF Leads
<1>7. CASE d = <<"usr", "local", "bin">>
  <2>1. Len(d) = 3 /\ d[2] = "local"
    BY <1>7
  <2> QED
    BY <1>2, <1>3, <1>4, <2>1 DEF Leads
<1> QED
  BY <1>5, <1>6, <1>7 DEF BinaryDirectories

\* The jail's files of a program.
LEMMA JailFiles ==
    ASSUME NEW p \in Named
    PROVE  /\ {FirejailedPath(p), ProfilePath(p)} \subseteq Paths
           /\ Unspelled(FirejailedPath(p)) /\ Unspelled(ProfilePath(p))
           /\ FirejailedPath(p) # ProfilePath(p)
           /\ Leads(Jail, FirejailedPath(p)) /\ Leads(Jail, ProfilePath(p))
           /\ FirejailedPath(p) # Jail /\ ProfilePath(p) # Jail
           /\ \A d \in Above(FirejailedPath(p)) \cup Above(ProfilePath(p)) :
                 d = Jail \/ d \in Above(Jail)
<1>1. ASSUME NEW a, NEW x, x = Jail \o <<a>>, x \in Paths
      PROVE  Leads(Jail, x) /\ x # Jail /\ \A d \in Above(x) : d = Jail \/ d \in Above(Jail)
  <2>1. PICK S : S = Names \cup {a}
    OBVIOUS
  <2>2. Len(x) = 5 /\ Len(Jail) = 4 /\ \A i \in 1 .. 4 : x[i] = Jail[i]
    <3>1. Jail \in Seq(S)
      BY <2>1, NamesAssumption DEF Jail
    <3>2. <<a>> \in Seq(S) /\ Len(<<a>>) = 1
      BY <2>1
    <3>3. PICK n : n = <<a>>
      OBVIOUS
    <3>4. x = Jail \o n /\ n \in Seq(S) /\ Len(n) = 1 /\ Len(Jail) = 4
      BY <1>1, <3>2, <3>3, JailIsPath
    <3>5. /\ Len(Jail \o n) = Len(Jail) + Len(n)
          /\ \A i \in 1 .. Len(Jail) + Len(n) :
                (Jail \o n)[i] = IF i <= Len(Jail) THEN Jail[i] ELSE n[i - Len(Jail)]
      BY <3>1, <3>4, ConcatProperties
    <3>6. Len(x) = 5
      BY <3>4, <3>5
    <3>7. \A i \in 1 .. 4 : x[i] = Jail[i]
      BY <3>4, <3>5
    <3> QED
      BY <3>4, <3>6, <3>7
  <2>3. Leads(Jail, x)
    BY <2>2 DEF Leads
  <2>4. ASSUME NEW d \in Above(x) PROVE d = Jail \/ d \in Above(Jail)
    <3>1. d \in Paths /\ Leads(d, x)
      BY <1>1, AboveLeads
    <3>2. d \in Seq(Names) /\ Jail \in Seq(Names) /\ Len(d) \in Nat
      BY <3>1, JailIsPath DEF Paths
    <3>3. Len(d) < 5 /\ \A i \in 1 .. Len(d) : d[i] = Jail[i]
      BY <2>2, <3>1, <3>2 DEF Leads
    <3>4. CASE Len(d) = 4
      <4>1. d = Jail
        BY <2>2, <3>2, <3>3, <3>4, SeqEqual
      <4> QED
        BY <4>1
    <3>5. CASE Len(d) < 4
      <4>1. Leads(d, Jail)
        BY <2>2, <3>3, <3>5 DEF Leads
      <4> QED
        BY <3>1, <4>1, JailIsPath, AboveLeads
    <3>6. Len(d) = 4 \/ Len(d) < 4
      <4>1. PICK n \in Nat : n = Len(d)
        BY <3>2
      <4>2. n < 5
        BY <3>3, <4>1
      <4> QED
        BY <4>1, <4>2
    <3> QED
      BY <3>4, <3>5, <3>6
  <2>5. x # Jail
    BY <2>2
  <2> QED
    BY <2>3, <2>4, <2>5
<1>2. /\ {FirejailedPath(p), ProfilePath(p)} \subseteq Paths
      /\ Unspelled(FirejailedPath(p)) /\ Unspelled(ProfilePath(p))
      /\ FirejailedPath(p) # ProfilePath(p)
  BY NamesAssumption
<1>3. PICK a, b : FirejailedPath(p) = Jail \o <<a>> /\ ProfilePath(p) = Jail \o <<b>>
  BY DEF FirejailedPath, ProfilePath
<1> QED
  BY <1>1, <1>2, <1>3

-----------------------------------------------------------------------------
(* Names with brackets *)

LEMMA EscapedSequence ==
    ASSUME NEW p \in Paths
    PROVE  \E S : /\ Names \subseteq S
                  /\ p \in Seq(S)
                  /\ EscapeGlobChars(p) \in Seq(S)
                  /\ Len(EscapeGlobChars(p)) = Len(p)
                  /\ \A i \in 1 .. Len(p) : EscapeGlobChars(p)[i] = Spelled(p[i])
<1>1. PICK S : S = Names \cup {Spelled(n) : n \in Names}
  OBVIOUS
<1>2. p \in Seq(Names) /\ Len(p) \in Nat /\ DOMAIN p = 1 .. Len(p)
  BY DEF Paths
<1>3. \A i \in 1 .. Len(p) : p[i] \in Names
  BY <1>2
<1>4. PICK x : x = EscapeGlobChars(p)
  OBVIOUS
<1>5. x = [i \in 1 .. Len(p) |-> Spelled(p[i])]
  BY <1>2, <1>4 DEF EscapeGlobChars
<1>6. \A i \in 1 .. Len(p) : x[i] = Spelled(p[i]) /\ x[i] \in S
  BY <1>1, <1>3, <1>5
<1>7. x \in [1 .. Len(p) -> S]
  BY <1>5, <1>6
<1>8. x \in Seq(S) /\ Len(x) = Len(p)
  BY <1>2, <1>7
<1>9. p \in Seq(S)
  <2>1. p \in [1 .. Len(p) -> S]
    BY <1>1, <1>2
  <2> QED
    BY <1>2, <2>1
<1>10. Names \subseteq S
  BY <1>1
<1> QED
  BY <1>4, <1>6, <1>8, <1>9, <1>10

\* The destination of a program is seen to be one.
LEMMA BinaryIsEscaped ==
    ASSUME NEW p \in Paths, IsBinary(p)
    PROVE  IsBinary(EscapeGlobChars(p))
<1>1. PICK S : /\ Names \subseteq S
               /\ p \in Seq(S)
               /\ EscapeGlobChars(p) \in Seq(S)
               /\ Len(EscapeGlobChars(p)) = Len(p)
               /\ \A i \in 1 .. Len(p) : EscapeGlobChars(p)[i] = Spelled(p[i])
  BY EscapedSequence
<1>2. PICK d \in BinaryDirectories : Leads(d, p)
  BY BinaryLeads
<1>3. PICK x : x = EscapeGlobChars(p)
  OBVIOUS
<1>4. Len(d) \in Nat /\ Len(p) \in Nat /\ d \in Seq(Names)
  BY BinaryDirectoriesArePaths DEF Paths
<1>5. \A i \in 1 .. Len(d) : d[i] \in {"usr", "bin", "local"}
  <2>1. CASE d = <<"usr", "bin">>
    BY <2>1
  <2>2. CASE d = <<"bin">>
    BY <2>2
  <2>3. CASE d = <<"usr", "local", "bin">>
    BY <2>3
  <2> QED
    BY <1>2, <2>1, <2>2, <2>3 DEF BinaryDirectories
<1>6. ASSUME NEW i \in 1 .. Len(d) PROVE d[i] = x[i]
  <2>1. i \in 1 .. Len(p) /\ p[i] = d[i]
    BY <1>2, <1>4 DEF Leads
  <2>2. p[i] \notin Odd
    BY <1>5, <2>1, NamesAssumption
  <2> QED
    BY <1>1, <1>3, <2>1, <2>2 DEF Spelled
<1>7. Leads(d, x)
  BY <1>1, <1>2, <1>3, <1>6 DEF Leads
<1>8. d \in Seq(S)
  <2>1. \A i \in 1 .. Len(d) : d[i] \in S
    BY <1>1, <1>4
  <2>2. d \in [1 .. Len(d) -> S]
    BY <1>4, <2>1
  <2> QED
    BY <1>4, <2>2
<1>9. IsStrictPrefix(d, x)
  BY <1>1, <1>3, <1>7, <1>8, StrictPrefixLeads
<1> QED
  BY <1>2, <1>3, <1>9 DEF IsBinary

\* A spelling that is found has no backslashes: it is the name itself.
LEMMA PlainIsNotEscaped ==
    ASSUME NEW p \in Paths, NEW q \in Paths, Unspelled(q),
           EscapeGlobChars(p) = q \/ EscapeGlobChars(p) \in Above(q)
    PROVE  EscapeGlobChars(p) = p
<1>1. PICK S : /\ Names \subseteq S
               /\ p \in Seq(S)
               /\ EscapeGlobChars(p) \in Seq(S)
               /\ Len(EscapeGlobChars(p)) = Len(p)
               /\ \A i \in 1 .. Len(p) : EscapeGlobChars(p)[i] = Spelled(p[i])
  BY EscapedSequence
<1>2. PICK x : x = EscapeGlobChars(p)
  OBVIOUS
<1>3. q \in Paths /\ q \in Seq(Names) /\ Len(q) \in Nat /\ DOMAIN q = 1 .. Len(q)
  BY DEF Paths
<1>4. Len(x) <= Len(q) /\ \A i \in 1 .. Len(x) : x[i] = q[i]
  <2>1. CASE x = q
    BY <1>3, <2>1
  <2>2. CASE x \in Above(q)
    <3>1. x \in Paths /\ Leads(x, q)
      BY <1>3, <2>2, AboveLeads
    <3>2. Len(x) \in Nat
      BY <3>1 DEF Paths
    <3> QED
      BY <1>3, <3>1, <3>2 DEF Leads
  <2> QED
    BY <1>2, <2>1, <2>2
<1>5. Len(p) \in Nat
  BY <1>1
<1>6. ASSUME NEW i \in 1 .. Len(p) PROVE x[i] = p[i]
  <2>1. x[i] = q[i] /\ i \in DOMAIN q /\ x[i] = Spelled(p[i])
    BY <1>1, <1>2, <1>3, <1>4, <1>5
  <2>2. \A n \in Odd : q[i] # Spelled(n)
    BY <2>1 DEF Unspelled
  <2>3. p[i] \notin Odd
    BY <2>1, <2>2
  <2> QED
    BY <2>1, <2>3 DEF Spelled
<1>7. x = p
  BY <1>1, <1>2, <1>6, SeqEqual
<1> QED
  BY <1>2, <1>7

\* Two paths are not spelled alike.
LEMMA EscapesApart ==
    ASSUME NEW p \in Paths, NEW q \in Paths, Unspelled(p), Unspelled(q),
           EscapeGlobChars(p) = EscapeGlobChars(q)
    PROVE  p = q
<1>1. /\ Len(EscapeGlobChars(p)) = Len(p)
      /\ \A i \in 1 .. Len(p) : EscapeGlobChars(p)[i] = Spelled(p[i])
  BY EscapedSequence
<1>2. /\ Len(EscapeGlobChars(q)) = Len(q)
      /\ \A i \in 1 .. Len(q) : EscapeGlobChars(q)[i] = Spelled(q[i])
  BY EscapedSequence
<1>3. PICK x : x = EscapeGlobChars(p) /\ x = EscapeGlobChars(q)
  OBVIOUS
<1>4. p \in Seq(Names) /\ q \in Seq(Names) /\ Len(p) = Len(q) /\ Len(p) \in Nat
  BY <1>1, <1>2, <1>3 DEF Paths
<1>5. ASSUME NEW i \in 1 .. Len(p) PROVE p[i] = q[i]
  <2>1. Spelled(p[i]) = Spelled(q[i]) /\ i \in DOMAIN p /\ i \in DOMAIN q
    BY <1>1, <1>2, <1>3, <1>4
  <2>2. \A n \in Odd : p[i] # Spelled(n) /\ q[i] # Spelled(n)
    BY <2>1 DEF Unspelled
  <2>3. CASE p[i] \in Odd /\ q[i] \in Odd
    BY <2>1, <2>3, NamesAssumption
  <2>4. CASE p[i] \notin Odd
    BY <2>1, <2>2, <2>4 DEF Spelled
  <2>5. CASE q[i] \notin Odd
    BY <2>1, <2>2, <2>5 DEF Spelled
  <2> QED
    BY <2>3, <2>4, <2>5
<1> QED
  BY <1>4, <1>5, SeqEqual

-----------------------------------------------------------------------------
(* What a walk through the package directory comes upon *)

\* Below a directory there is something that has nothing below it.
LEMMA LeafBelow ==
    ASSUME NEW t, FromScript(t), NEW p \in DOMAIN t
    PROVE  \E q \in Walked(t) : p = q \/ Leads(p, q)
<1>1. PICK n \in Nat : \A q \in DOMAIN t : Len(q) <= n
  BY DEF FromScript
<1>2. DOMAIN t \subseteq Paths /\ \A q \in DOMAIN t : q \in Seq(Names) /\ Len(q) \in Nat
  BY DEF FromScript, Paths
<1>3. PICK Q : Q = {q \in DOMAIN t : p = q \/ Leads(p, q)}
  OBVIOUS
<1> DEFINE T == {n - Len(q) : q \in Q}
<1> DEFINE R == OpToRel(<, Nat)
<1>4. T \subseteq Nat /\ T # {}
  <2>1. \A q \in Q : n - Len(q) \in Nat
    BY <1>1, <1>2, <1>3
  <2>2. n - Len(p) \in T
    BY <1>3
  <2> QED
    BY <2>1, <2>2
<1>5. PICK m \in T : \A i \in T : ~(<<i, m>> \in R)
  <2> HIDE DEF T, R
  <2>1. IsWellFoundedOn(R, Nat)
    BY NatLessThanWellFounded DEF R
  <2> QED
    BY <1>4, <2>1, WFMin
<1>6. PICK q \in Q : m = n - Len(q)
  OBVIOUS
<1>7. \A i \in T : ~(i < m)
  BY <1>4, <1>5 DEF OpToRel
<1>8. q \in DOMAIN t /\ (p = q \/ Leads(p, q))
  BY <1>3
<1>9. ASSUME NEW x \in Children(t, q) PROVE FALSE
  <2>1. x \in DOMAIN t /\ IsStrictPrefix(q, x)
    BY DEF Children, Under
  <2>2. x \in Seq(Names) /\ q \in Seq(Names)
    BY <1>2, <1>8, <2>1
  <2>3. Leads(q, x)
    BY <2>1, <2>2, StrictPrefixLeads
  <2>4. Len(p) \in Nat /\ Len(q) \in Nat /\ Len(x) \in Nat /\ Len(x) <= n
    BY <1>1, <1>2, <1>8, <2>1
  <2>5. Leads(p, x)
    <3>1. CASE p = q
      BY <2>3, <3>1
    <3>2. CASE Leads(p, q)
      BY <2>3, <2>4, <3>2 DEF Leads
    <3> QED
      BY <1>8, <3>1, <3>2
  <2>6. x \in Q
    BY <1>3, <2>1, <2>5
  <2>7. n - Len(x) < m
    BY <1>6, <2>3, <2>4 DEF Leads
  <2> QED
    BY <1>7, <2>6, <2>7
<1>10. q \in Walked(t)
  BY <1>8, <1>9 DEF Walked
<1> QED
  BY <1>8, <1>10

-----------------------------------------------------------------------------
(* The inductive invariant *)

PathsInv == DOMAIN tree \subseteq Paths

\* Until the contents are gathered the package directory is the script's.
ScriptInv ==
    /\ stage \in {"package", "files", "collect"} => FromScript(tree)
    /\ stage = "package" => printed = {}

InstalledInv ==
    stage \in {"package", "files"} =>
        \A i \in installed :
            /\ i.at \in DOMAIN tree /\ tree[i.at].kind # "dir"
            /\ \E c \in Installs : i.do = c.do /\ i.at \in Place(c, sys)

\* What the contents are gathered from, and the programs among it.
Listed   == IF settings.lists THEN printed ELSE Walked(before)
Programs == {p \in Listed : IsBinary(p) /\ ~IsDir(before, p)}

GatheredInv ==
    stage \in {"jail", "pack"} =>
        /\ FromScript(before)
        /\ Listed \subseteq DOMAIN before
        /\ stage = "jail" => settings.jailed

UnjailedInv ==
    stage = "pack" /\ ~settings.jailed =>
        /\ tree = before
        /\ contents = {Content(before, p) : p \in Listed}

\* An entry is at its path, and among the contents in a way that packs it.
Packs(p, e) ==
    /\ p \in DOMAIN tree /\ tree[p] = e
    /\ \E c \in contents :
          /\ c.at = p /\ LandsAt(c) = p
          /\ c.kind = "file" \/ c.of = e.of

\* The wrapper of a program, the program and its profile are where they belong.
Wrapped(p) ==
    /\ Packs(p, Wrapper(p)) /\ \E c \in contents : c.at = p /\ c.kind = "file"
    /\ Packs(FirejailedPath(p), before[p])
    /\ Packs(ProfilePath(p), File(<<"profile">>))

Waiting(p) == \E c \in unseen : c.at = p

\* The destination of an entry is its path as it is, or as it is escaped.
IsSpelled(c) == c.at \in Paths /\ c.dst \in {c.at, EscapeGlobChars(c.at)}

\* The jail takes the programs one by one: a program that waits is as it was,
\* and one that does not is wrapped, or something is among the contents twice.
JailInv ==
    stage \in {"jail", "pack"} /\ settings.jailed =>
        /\ Jail \in DOMAIN tree
        /\ IsDir(tree, Jail)
        /\ DOMAIN before \subseteq DOMAIN tree
        /\ \A p \in DOMAIN tree : IsBinary(p) => p \in DOMAIN before
        /\ \A c \in unseen : c.at \in Listed /\ c = Content(before, c.at)
        /\ \A p \in Programs :
              /\ Waiting(p) => tree[p] = before[p]
              /\ ~Waiting(p) => twice \/ Wrapped(p)
        /\ \A c \in contents : IsSpelled(c)
        /\ ~twice => \A c, d \in contents : c.at = d.at => c = d
        /\ stage = "pack" => unseen = {}

ContentsInv ==
    /\ ContentsTypeOK
    /\ PathsInv
    /\ ScriptInv
    /\ InstalledInv
    /\ GatheredInv
    /\ UnjailedInv
    /\ JailInv
    /\ PackageIsComplete
    /\ ProgramsSurvive

-----------------------------------------------------------------------------
(* The script fills the package directory *)

LEMMA ContentsInitInv == ContentsInit => ContentsInv
<1> SUFFICES ASSUME ContentsInit PROVE ContentsInv
  OBVIOUS
<1>1. stage = "package" /\ tree = None /\ before = None /\ installed = {} /\ printed = {}
  BY DEF ContentsInit
<1>2. DOMAIN None = {}
  BY DEF None
<1>3. IsTree(None)
  BY <1>2 DEF IsTree
<1>4. FromScript(None)
  BY <1>2 DEF FromScript
<1>5. 0 \in 0 .. (MaxCommands + MaxFinds)
  <2>1. PICK a \in Nat, b \in Nat : a = MaxCommands /\ b = MaxFinds
    BY CommandsAssumption
  <2> QED
    BY <2>1
<1>6. ContentsTypeOK
  BY <1>1, <1>2, <1>3, <1>5 DEF ContentsTypeOK, ContentsInit
<1>7. PathsInv
  BY <1>1, <1>2 DEF PathsInv
<1>8. ScriptInv
  BY <1>1, <1>4 DEF ScriptInv
<1>9. InstalledInv
  BY <1>1 DEF InstalledInv
<1>10. GatheredInv /\ UnjailedInv /\ JailInv
  BY <1>1 DEF GatheredInv, UnjailedInv, JailInv
<1>11. PackageIsComplete /\ ProgramsSurvive
  BY <1>1 DEF PackageIsComplete, ProgramsSurvive
<1> QED
  BY <1>6, <1>7, <1>8, <1>9, <1>10, <1>11 DEF ContentsInv

\* In these stages nothing is claimed of the contents.
LEMMA EarlyInv ==
    stage' \in {"package", "files", "collect", "failed"} =>
        (GatheredInv /\ UnjailedInv /\ JailInv /\ PackageIsComplete /\ ProgramsSurvive)'
BY DEF GatheredInv, UnjailedInv, JailInv, PackageIsComplete, ProgramsSurvive

LEMMA FailInv ==
    ContentsInv /\ Fail /\ UNCHANGED <<fixed, before>>
      /\ commands' \in 0 .. (MaxCommands + MaxFinds) => ContentsInv'
<1> SUFFICES ASSUME ContentsInv, Fail, UNCHANGED <<fixed, before>>,
                    commands' \in 0 .. (MaxCommands + MaxFinds)
             PROVE  ContentsInv'
  OBVIOUS
<1>1. /\ stage' = "failed"
      /\ UNCHANGED <<sys, settings, tree, printed, twice, contents, unseen, package, before>>
  BY DEF Fail, fixed, lists
<1>2. ContentsTypeOK'
  BY <1>1 DEF ContentsInv, ContentsTypeOK
<1>3. PathsInv'
  BY <1>1 DEF ContentsInv, PathsInv
<1>4. ScriptInv' /\ InstalledInv'
  BY <1>1 DEF ScriptInv, InstalledInv
<1>5. (GatheredInv /\ UnjailedInv /\ JailInv /\ PackageIsComplete /\ ProgramsSurvive)'
  BY <1>1, EarlyInv
<1> QED
  BY <1>2, <1>3, <1>4, <1>5 DEF ContentsInv

LEMMA ScriptPut ==
    ASSUME NEW t, FromScript(t), IsTree(t),
           NEW p \in Named, CanHold(t, p), p \in DOMAIN t => t[p].kind # "dir",
           NEW e, e.kind \in Kinds,
           e.kind = "link" => \E m \in Makings : p = m.at /\ e = m.entry
    PROVE  /\ FromScript(Put(t, p, e)) /\ IsTree(Put(t, p, e))
           /\ DOMAIN t \subseteq DOMAIN Put(t, p, e)
<1>1. p \in Paths /\ DOMAIN t \subseteq Paths
  BY NamedPaths DEF FromScript
<1>2. FromScript(Put(t, p, e))
  BY FromScriptPut
<1>3. IsTree(Put(t, p, e))
  BY <1>1, PutTree
<1>4. DOMAIN t \subseteq DOMAIN Put(t, p, e)
  <2>1. DOMAIN Put(t, p, e) = DOMAIN t \cup Above(p) \cup {p}
    BY PutDomain
  <2> QED
    BY <2>1
<1> QED
  BY <1>2, <1>3, <1>4

LEMMA CountedBound ==
    Counted(MaxCommands) \/ Counted(MaxCommands + MaxFinds) =>
        (commands \in 0 .. (MaxCommands + MaxFinds)
           => commands' \in 0 .. (MaxCommands + MaxFinds))
<1>1. PICK a \in Nat, b \in Nat : a = MaxCommands /\ b = MaxFinds
  BY CommandsAssumption
<1> QED
  BY <1>1 DEF Counted

LEMMA InstallInv == ASSUME NEW c \in Installs PROVE ContentsInv /\ Install(c) => ContentsInv'
<1> SUFFICES ASSUME ContentsInv, Install(c) PROVE ContentsInv'
  OBVIOUS
<1>1. /\ sys \in Systems /\ FromScript(tree) /\ IsTree(tree)
      /\ printed \subseteq DOMAIN tree \cup {f.at : f \in Finds}
      /\ commands \in 0 .. (MaxCommands + MaxFinds)
  BY DEF ContentsInv, ContentsTypeOK, ScriptInv, Install
<1>2. /\ stage = "package" /\ UNCHANGED <<sys, settings, before>>
      /\ commands' \in 0 .. (MaxCommands + MaxFinds)
  BY <1>1, CountedBound DEF Install, fixed
<1>3. CASE Fail
  BY <1>2, <1>3, FailInv DEF fixed
<1>4. ASSUME NEW p \in Place(c, sys), CanInstall(tree, p),
             tree' = HelperInstall(tree, p, c.to),
             installed' = installed \cup {[do |-> c.do, at |-> p]},
             UNCHANGED <<stage, lists, contents, unseen, package>>
      PROVE  ContentsInv'
  <2>1. p \in Named
    BY <1>1, PlacesAreNamed
  <2>2. PICK q : q = LinkTarget(tree, p)
    OBVIOUS
  <2>3. /\ q \in Named /\ CanHold(tree, q)
        /\ q \in DOMAIN tree => tree[q].kind # "dir"
        /\ p \in DOMAIN tree \/ q = p
        /\ p \in DOMAIN tree => tree[p].kind # "dir"
    BY <1>1, <1>4, <2>1, <2>2, InstallTarget
  <2>4. PICK e : e = File(c.to)
    OBVIOUS
  <2>5. e.kind = "file"
    BY <2>4 DEF File
  <2>6. tree' = Put(tree, q, e)
    BY <1>4, <2>2, <2>4 DEF HelperInstall
  <2>7. FromScript(tree') /\ IsTree(tree') /\ DOMAIN tree \subseteq DOMAIN tree'
    <3>1. "file" \in Kinds
      BY DEF Kinds
    <3> QED
      BY <1>1, <2>3, <2>5, <2>6, <3>1, ScriptPut
  <2>8. /\ stage' = "package"
        /\ UNCHANGED <<sys, settings, before, printed, twice, contents, unseen, package>>
    BY <1>2, <1>4 DEF lists
  <2>9. ContentsTypeOK'
    <3>1. printed' \subseteq DOMAIN tree' \cup {f.at : f \in Finds}
      BY <1>1, <2>7, <2>8
    <3> QED
      BY <1>2, <2>7, <2>8, <3>1 DEF ContentsInv, ContentsTypeOK
  <2>10. PathsInv' /\ ScriptInv'
    BY <1>2, <2>7, <2>8 DEF ContentsInv, PathsInv, ScriptInv, FromScript
  <2>11. \A x \in DOMAIN tree : tree[x].kind # "dir" => x \in DOMAIN tree' /\ tree'[x].kind # "dir"
    BY <2>5, <2>6, PutKeeps, PutPuts
  <2>12. ASSUME NEW i \in installed'
         PROVE  /\ i.at \in DOMAIN tree' /\ tree'[i.at].kind # "dir"
                /\ \E x \in Installs : i.do = x.do /\ i.at \in Place(x, sys)
    <3>1. CASE i \in installed
      BY <1>2, <2>11, <3>1 DEF ContentsInv, InstalledInv
    <3>2. CASE i = [do |-> c.do, at |-> p]
      <4>1. i.do = c.do /\ i.at = p
        BY <3>2
      <4>2. p \in DOMAIN tree' /\ tree'[p].kind # "dir"
        BY <2>3, <2>5, <2>6, <2>11, PutPuts
      <4> QED
        BY <4>1, <4>2
    <3> QED
      BY <1>4, <3>1, <3>2
  <2>13. InstalledInv'
    BY <2>8, <2>12 DEF InstalledInv
  <2> QED
    BY <2>8, <2>9, <2>10, <2>13, EarlyInv DEF ContentsInv
<1> QED
  BY <1>3, <1>4 DEF Install

LEMMA MakeInv == ASSUME NEW m \in Makings PROVE ContentsInv /\ Make(m) => ContentsInv'
<1> SUFFICES ASSUME ContentsInv, Make(m) PROVE ContentsInv'
  OBVIOUS
<1>1. /\ FromScript(tree) /\ IsTree(tree)
      /\ printed \subseteq DOMAIN tree \cup {f.at : f \in Finds}
      /\ commands \in 0 .. (MaxCommands + MaxFinds)
  BY DEF ContentsInv, ContentsTypeOK, ScriptInv, Make
<1>2. /\ stage = "package" /\ stage' = stage
      /\ UNCHANGED <<sys, settings, before, printed, twice, contents, unseen, package, installed>>
      /\ commands' \in 0 .. (MaxCommands + MaxFinds)
  BY <1>1, CountedBound DEF Make, fixed, lists
<1>3. PICK p, e : p = m.at /\ e = m.entry
  OBVIOUS
<1>4. p \in Named /\ e.kind \in Kinds /\ p \notin DOMAIN tree /\ CanHold(tree, p)
  <2>1. p \in Named
    BY <1>3 DEF Named
  <2>2. e.kind \in Kinds
    BY <1>3, CommandsAssumption DEF Kinds
  <2>3. p \notin DOMAIN tree
    BY <1>3 DEF Make, Exists
  <2>4. CanHold(tree, p)
    BY <1>3 DEF Make
  <2> QED
    BY <2>1, <2>2, <2>3, <2>4
<1>5. tree' = Put(tree, p, e)
  BY <1>3 DEF Make
<1>6. FromScript(tree') /\ IsTree(tree') /\ DOMAIN tree \subseteq DOMAIN tree'
  BY <1>1, <1>3, <1>4, <1>5, ScriptPut
<1>7. ContentsTypeOK'
  <2>1. printed' \subseteq DOMAIN tree' \cup {f.at : f \in Finds}
    BY <1>1, <1>2, <1>6
  <2> QED
    BY <1>2, <1>6, <2>1 DEF ContentsInv, ContentsTypeOK
<1>8. PathsInv' /\ ScriptInv'
  BY <1>2, <1>6 DEF ContentsInv, PathsInv, ScriptInv, FromScript
<1>9. InstalledInv'
  <2>1. \A x \in DOMAIN tree : x \in DOMAIN tree' /\ tree'[x] = tree[x]
    BY <1>4, <1>5, PutKeeps
  <2> QED
    BY <1>2, <2>1 DEF ContentsInv, InstalledInv
<1> QED
  BY <1>2, <1>7, <1>8, <1>9, EarlyInv DEF ContentsInv

LEMMA DeleteInv == ASSUME NEW p PROVE ContentsInv /\ Delete(p) => ContentsInv'
<1> SUFFICES ASSUME ContentsInv, Delete(p) PROVE ContentsInv'
  OBVIOUS
<1>1. PICK gone : gone = Under(tree, p) \cup {p}
  OBVIOUS
<1>2. /\ stage = "package" /\ stage' = stage /\ p \in DOMAIN tree
      /\ tree' = [q \in DOMAIN tree \ gone |-> tree[q]]
      /\ installed' = {i \in installed : i.at \notin gone}
      /\ UNCHANGED <<sys, settings, before, printed, twice, contents, unseen, package>>
  BY <1>1 DEF Delete, fixed, lists
<1>3. /\ FromScript(tree) /\ IsTree(tree)
      /\ commands' \in 0 .. (MaxCommands + MaxFinds)
  BY <1>2, CountedBound DEF Delete, ContentsInv, ContentsTypeOK, ScriptInv
<1>4. PICK u : u = tree'
  OBVIOUS
<1>5. /\ FromScript(u) /\ IsTree(u)
      /\ \A q \in DOMAIN tree \ gone : q \in DOMAIN u /\ u[q] = tree[q]
  BY <1>1, <1>2, <1>3, <1>4, DeleteCuts
<1>6. printed' \subseteq DOMAIN u \cup {f.at : f \in Finds}
  BY <1>2 DEF ContentsInv, ScriptInv
<1>7. ContentsTypeOK'
  BY <1>2, <1>3, <1>4, <1>5, <1>6 DEF ContentsInv, ContentsTypeOK
<1>8. PathsInv' /\ ScriptInv'
  BY <1>2, <1>4, <1>5 DEF ContentsInv, PathsInv, ScriptInv, FromScript
<1>9. ASSUME NEW i \in installed'
      PROVE  /\ i.at \in DOMAIN u /\ u[i.at].kind # "dir"
             /\ \E c \in Installs : i.do = c.do /\ i.at \in Place(c, sys)
  <2>1. i \in installed /\ i.at \notin gone
    BY <1>2
  <2>2. /\ i.at \in DOMAIN tree /\ tree[i.at].kind # "dir"
        /\ \E c \in Installs : i.do = c.do /\ i.at \in Place(c, sys)
    BY <1>2, <2>1 DEF ContentsInv, InstalledInv
  <2> QED
    BY <1>5, <2>1, <2>2
<1>10. InstalledInv'
  BY <1>2, <1>4, <1>9 DEF InstalledInv
<1> QED
  BY <1>2, <1>7, <1>8, <1>10, EarlyInv DEF ContentsInv

LEMMA EndPackageInv == ContentsInv /\ EndPackage => ContentsInv'
<1> SUFFICES ASSUME ContentsInv, EndPackage PROVE ContentsInv'
  OBVIOUS
<1>1. /\ stage = "package" /\ stage' \in {"files", "collect"}
      /\ UNCHANGED <<sys, settings, tree, printed, twice, contents, unseen, package,
                     commands, installed, before>>
  BY DEF EndPackage, fixed, lists, history
<1>2. ContentsTypeOK'
  BY <1>1 DEF ContentsInv, ContentsTypeOK
<1>3. PathsInv' /\ ScriptInv' /\ InstalledInv'
  BY <1>1 DEF ContentsInv, PathsInv, ScriptInv, InstalledInv
<1> QED
  BY <1>1, <1>2, <1>3, EarlyInv DEF ContentsInv

-----------------------------------------------------------------------------
(* files() lists what is in it *)

LEMMA ListFilesInv == ASSUME NEW f \in Finds PROVE ContentsInv /\ ListFiles(f) => ContentsInv'
<1> SUFFICES ASSUME ContentsInv, ListFiles(f) PROVE ContentsInv'
  OBVIOUS
<1>1. PICK out : out = IF f.cmd = "echo" THEN Files({f.at}) ELSE Find(tree, f)
  OBVIOUS
<1>2. /\ stage = "files"
      /\ UNCHANGED <<sys, settings, installed, before>>
      /\ commands' \in 0 .. (MaxCommands + MaxFinds)
  BY CountedBound DEF ListFiles, fixed, ContentsInv, ContentsTypeOK
<1>3. CASE Fail
  BY <1>2, <1>3, FailInv DEF fixed
<1>4. CASE /\ printed' = printed \cup out.files
           /\ twice' = (twice \/ printed \cap out.files # {})
           /\ UNCHANGED <<stage, tree, contents, unseen, package>>
  <2>1. out.files \subseteq DOMAIN tree \cup {f.at}
    <3>1. CASE f.cmd = "echo"
      BY <1>1, <3>1 DEF Files
    <3>2. CASE f.cmd # "echo"
      BY <1>1, <3>2, FindWithin
    <3> QED
      BY <3>1, <3>2
  <2>2. printed' \subseteq DOMAIN tree \cup {x.at : x \in Finds}
    BY <1>4, <2>1 DEF ContentsInv, ContentsTypeOK
  <2>3. twice' \in BOOLEAN
    BY <1>4
  <2>4. ContentsTypeOK'
    BY <1>2, <1>4, <2>2, <2>3 DEF ContentsInv, ContentsTypeOK
  <2>5. PathsInv' /\ ScriptInv' /\ InstalledInv'
    BY <1>2, <1>4 DEF ContentsInv, PathsInv, ScriptInv, InstalledInv
  <2> QED
    BY <1>2, <1>4, <2>4, <2>5, EarlyInv DEF ContentsInv
<1> QED
  BY <1>1, <1>3, <1>4 DEF ListFiles

LEMMA EndFilesInv == ContentsInv /\ EndFiles => ContentsInv'
<1> SUFFICES ASSUME ContentsInv, EndFiles PROVE ContentsInv'
  OBVIOUS
<1>1. /\ stage = "files" /\ stage' = "collect"
      /\ UNCHANGED <<sys, settings, tree, printed, twice, contents, unseen, package,
                     commands, installed, before>>
  BY DEF EndFiles, fixed, lists, history
<1>2. ContentsTypeOK'
  BY <1>1 DEF ContentsInv, ContentsTypeOK
<1>3. PathsInv' /\ ScriptInv' /\ InstalledInv'
  BY <1>1 DEF ContentsInv, PathsInv, ScriptInv, InstalledInv
<1> QED
  BY <1>1, <1>2, <1>3, EarlyInv DEF ContentsInv

-----------------------------------------------------------------------------
(* The contents are gathered *)

LEMMA ContentIs ==
    ASSUME NEW t, NEW p
    PROVE  /\ Content(t, p).at = p
           /\ Content(t, p).dst = EscapeGlobChars(p)
           /\ Content(t, p).kind = t[p].kind
           /\ Content(t, p).of = IF t[p].kind = "file" THEN t[p].of
                                 ELSE EscapeGlobChars(t[p].of)
<1>1. PICK k, o : /\ k = t[p].kind
                  /\ o = IF t[p].kind = "file" THEN t[p].of ELSE EscapeGlobChars(t[p].of)
  OBVIOUS
<1>2. Content(t, p) = [at |-> p, dst |-> EscapeGlobChars(p), kind |-> k, of |-> o]
  BY <1>1 DEF Content
<1> QED
  BY <1>1, <1>2

\* The contents are the entries of what is listed.
LEMMA BuildContentsIs ==
    ASSUME NEW t, NEW S, S = IF settings.lists THEN printed ELSE Walked(t)
    PROVE  BuildContents(t) = {Content(t, p) : p \in S}
BY DEF BuildContents

LEMMA CollectContentsInv == ContentsInv /\ CollectContents => ContentsInv'
<1> SUFFICES ASSUME ContentsInv, CollectContents PROVE ContentsInv'
  OBVIOUS
<1>1. /\ stage = "collect" /\ FromScript(tree) /\ IsTree(tree) /\ DOMAIN tree \subseteq Paths
      /\ settings.jailed \in BOOLEAN /\ settings.lists \in BOOLEAN
      /\ printed \subseteq DOMAIN tree \cup {f.at : f \in Finds}
      /\ commands \in 0 .. (MaxCommands + MaxFinds)
  <2>1. settings \in Settings
    BY DEF ContentsInv, ContentsTypeOK
  <2>2. settings.jailed \in BOOLEAN /\ settings.lists \in BOOLEAN
    BY <2>1, CommandsAssumption
  <2> QED
    BY <2>2 DEF ContentsInv, ContentsTypeOK, ScriptInv, PathsInv, CollectContents
<1>2. UNCHANGED <<sys, settings, commands, installed>>
  BY DEF CollectContents, fixed
<1>3. CASE Fail /\ UNCHANGED before
  BY <1>1, <1>2, <1>3, FailInv DEF fixed
<1>4. CASE /\ printed \subseteq DOMAIN tree /\ (settings.jailed => CanMakeJail)
           /\ contents' = BuildContents(tree)
           /\ unseen' = IF settings.jailed THEN contents' ELSE {}
           /\ tree' = IF settings.jailed THEN Put(tree, Jail, Dir) ELSE tree
           /\ before' = tree
           /\ stage' = IF settings.jailed THEN "jail" ELSE "pack"
           /\ UNCHANGED <<lists, package>>
  <2>1. PICK S : S = IF settings.lists THEN printed ELSE Walked(tree)
    OBVIOUS
  <2>2. S \subseteq DOMAIN tree
    BY <1>1, <1>4, <2>1 DEF Walked
  <2>3. contents' = {Content(tree, p) : p \in S}
    BY <1>4, <2>1, BuildContentsIs
  <2>4. /\ \A c \in contents' : c.kind \in Kinds /\ c.at # Root
        /\ \A c \in contents' : c.at \in S /\ c = Content(tree, c.at)
        /\ \A p \in S : \E c \in contents' : c.at = p
        /\ \A c, d \in contents' : c.at = d.at => c = d
    <3>1. ASSUME NEW c \in contents'
          PROVE  /\ c.kind \in Kinds /\ c.at # Root /\ c.at \in S
                 /\ c = Content(tree, c.at)
      <4>1. PICK p \in S : c = Content(tree, p)
        BY <2>3
      <4>2. p \in DOMAIN tree /\ tree[p].kind \in Kinds /\ p # Root
        BY <1>1, <2>2 DEF IsTree, Paths
      <4> QED
        BY <4>1, <4>2, ContentIs
    <3>2. ASSUME NEW p \in S PROVE \E c \in contents' : c.at = p
      <4>1. Content(tree, p) \in contents'
        BY <2>3
      <4> QED
        BY <4>1, ContentIs
    <3> QED
      BY <3>1, <3>2
  <2>5. UNCHANGED <<printed, twice, package>> /\ before' = tree
    BY <1>4 DEF lists
  <2>6. Listed' = S
    BY <1>2, <2>1, <2>5 DEF Listed, Walked, Children, Under
  <2>7. ScriptInv' /\ InstalledInv' /\ PackageIsComplete' /\ ProgramsSurvive'
    BY <1>1, <1>4 DEF ScriptInv, InstalledInv, PackageIsComplete, ProgramsSurvive
  <2>8. GatheredInv'
    <3>1. stage' = "jail" => settings'.jailed
      BY <1>1, <1>2, <1>4
    <3> QED
      BY <1>1, <2>2, <2>5, <2>6, <3>1 DEF GatheredInv
  <2>9. CASE ~settings.jailed
    <3>1. stage' = "pack" /\ tree' = tree /\ unseen' = {}
      BY <1>4, <2>9
    <3>2. ContentsTypeOK' /\ PathsInv'
      BY <1>1, <1>2, <2>4, <2>5, <3>1 DEF ContentsInv, ContentsTypeOK, PathsInv
    <3>3. UnjailedInv'
      <4>1. \A p : Content(before, p)' = Content(tree, p)
        BY <1>2, <2>5 DEF Content
      <4> QED
        BY <2>3, <2>5, <2>6, <3>1, <4>1 DEF UnjailedInv
    <3>4. JailInv'
      BY <1>2, <2>9 DEF JailInv
    <3> QED
      BY <2>7, <2>8, <3>2, <3>3, <3>4 DEF ContentsInv
  <2>10. CASE settings.jailed
    <3>1. stage' = "jail" /\ tree' = Put(tree, Jail, Dir) /\ unseen' = contents'
      BY <1>4, <2>10
    <3>2. Dir.kind = "dir" /\ "dir" \in Kinds
      BY DEF Dir, Kinds
    <3>3. IsTree(tree') /\ DOMAIN tree' \subseteq Paths
      <4>1. CanHold(tree, Jail)
        BY <1>4, <2>10 DEF CanMakeJail
      <4> QED
        BY <1>1, <3>1, <3>2, <4>1, JailIsPath, PutTree
    <3>4. Jail \in DOMAIN tree' /\ IsDir(tree', Jail)
      BY <3>1, <3>2, PutPuts DEF IsDir
    <3>5. DOMAIN tree' = DOMAIN tree \cup Above(Jail) \cup {Jail}
      BY <3>1, PutDomain
    <3>6. ASSUME NEW p \in DOMAIN tree', IsBinary(p) PROVE p \in DOMAIN tree
      <4>1. p = Jail \/ p \in Above(Jail) => ~IsBinary(p)
        BY JailIsPath, AboveLeads, JailIsNotBinary
      <4> QED
        BY <3>5, <3>6, <4>1
    <3>7. ContentsTypeOK' /\ PathsInv'
      <4>1. printed' \subseteq DOMAIN tree' \cup {f.at : f \in Finds}
        BY <1>1, <2>5, <3>5
      <4> QED
        BY <1>1, <1>2, <2>4, <2>5, <3>1, <3>3, <4>1 DEF ContentsInv, ContentsTypeOK, PathsInv
    <3>8. UnjailedInv'
      BY <3>1 DEF UnjailedInv
    <3>9. \A p : Content(before, p)' = Content(tree, p)
      BY <1>2, <2>5 DEF Content
    <3>10. ASSUME NEW p \in Programs'
           PROVE  (Waiting(p) => tree[p] = before[p])' /\ Waiting(p)'
      <4>1. p \in S /\ IsBinary(p)
        BY <2>6 DEF Programs
      <4>2. p # Jail
        BY <4>1, JailIsPath, JailIsNotBinary
      <4>3. tree'[p] = tree[p]
        BY <2>2, <3>1, <4>1, <4>2, PutKeeps
      <4>4. Waiting(p)'
        BY <2>4, <3>1, <4>1 DEF Waiting
      <4> QED
        BY <2>5, <4>3, <4>4
    <3>11. JailInv'
      <4>1. DOMAIN before' \subseteq DOMAIN tree' /\ \A p \in DOMAIN tree' : IsBinary(p) => p \in DOMAIN before'
        BY <2>5, <3>5, <3>6
      <4>2. \A c \in unseen' : c.at \in Listed' /\ c = Content(before, c.at)'
        BY <2>4, <2>6, <3>1, <3>9
      <4>3. ASSUME NEW c \in contents' PROVE IsSpelled(c)
        <5>1. PICK p \in S : c = Content(tree, p)
          BY <2>3
        <5>2. p \in Paths /\ c.at = p /\ c.dst = EscapeGlobChars(p)
          BY <1>1, <2>2, <5>1, ContentIs
        <5> QED
          BY <5>2 DEF IsSpelled
      <4> QED
        BY <2>4, <3>1, <3>4, <3>10, <4>1, <4>2, <4>3 DEF JailInv
    <3> QED
      BY <2>7, <2>8, <3>7, <3>8, <3>11 DEF ContentsInv
  <2> QED
    BY <1>1, <2>9, <2>10
<1> QED
  BY <1>3, <1>4 DEF CollectContents

-----------------------------------------------------------------------------
(* The jail takes the programs one by one *)

\* What is known of the contents that the jail has yet to look at.
LEMMA UnseenIs ==
    ASSUME ContentsInv, stage = "jail", NEW c \in unseen
    PROVE  /\ c \in contents
           /\ c.at \in Listed /\ c.at \in DOMAIN before /\ c.at \in DOMAIN tree
           /\ c.at \in Paths
           /\ c = Content(before, c.at)
           /\ c.dst = EscapeGlobChars(c.at)
           /\ c.kind = "dir" <=> before[c.at].kind = "dir"
<1>1. settings.jailed
  BY DEF ContentsInv, GatheredInv
<1>2. /\ c.at \in Listed /\ c = Content(before, c.at)
      /\ DOMAIN before \subseteq DOMAIN tree
  BY <1>1 DEF ContentsInv, JailInv
<1>3. c.at \in DOMAIN before /\ DOMAIN before \subseteq Paths
  BY <1>2 DEF ContentsInv, GatheredInv, FromScript
<1>4. c \in contents
  BY DEF ContentsInv, ContentsTypeOK
<1>5. PICK p : p = c.at
  OBVIOUS
<1>6. c = Content(before, p)
  BY <1>2, <1>5
<1>7. c.dst = EscapeGlobChars(p) /\ (c.kind = "dir" <=> before[p].kind = "dir")
  BY <1>6, ContentIs
<1> QED
  BY <1>2, <1>3, <1>4, <1>5, <1>7

\* A program is a path the script has a name for.
LEMMA ProgramIs ==
    ASSUME ContentsInv, stage \in {"jail", "pack"}, NEW p \in Programs
    PROVE  /\ p \in Listed /\ p \in DOMAIN before /\ p \in Named /\ p \in Paths
           /\ IsBinary(p) /\ before[p].kind # "dir"
<1>1. p \in Listed /\ IsBinary(p) /\ ~IsDir(before, p)
  BY DEF Programs
<1>2. FromScript(before) /\ p \in DOMAIN before
  BY <1>1 DEF ContentsInv, GatheredInv
<1>3. before[p].kind # "dir"
  BY <1>1, <1>2 DEF IsDir
<1> QED
  BY <1>1, <1>2, <1>3, NamedPaths DEF FromScript

LEMMA PassOverInv == ASSUME NEW c PROVE ContentsInv /\ PassOver(c) => ContentsInv'
<1> SUFFICES ASSUME ContentsInv, PassOver(c) PROVE ContentsInv'
  OBVIOUS
<1>1. /\ stage = "jail" /\ c \in unseen
      /\ c.kind = "dir" \/ ~IsBinary(c.dst)
      /\ unseen' = unseen \ {c}
      /\ UNCHANGED <<sys, settings, stage, tree, printed, twice, contents, package,
                     commands, installed, before>>
  BY DEF PassOver, fixed, lists, history
<1>2. settings.jailed
  BY <1>1 DEF ContentsInv, GatheredInv
<1>3. ContentsTypeOK'
  BY <1>1 DEF ContentsInv, ContentsTypeOK
<1>4. PathsInv' /\ ScriptInv' /\ InstalledInv'
  BY <1>1 DEF ContentsInv, PathsInv, ScriptInv, InstalledInv
<1>5. Listed' = Listed /\ Programs' = Programs
  BY <1>1 DEF Listed, Programs, Walked, Children, Under
<1>6. GatheredInv' /\ UnjailedInv'
  BY <1>1, <1>5 DEF ContentsInv, GatheredInv, UnjailedInv
<1>7. PackageIsComplete' /\ ProgramsSurvive'
  BY <1>1 DEF PackageIsComplete, ProgramsSurvive
<1>8. \A p : Wrapped(p)' <=> Wrapped(p)
  BY <1>1 DEF Wrapped, Packs
<1>9. ASSUME NEW p \in Programs
      PROVE  Waiting(p)' <=> Waiting(p)
  <2>1. CASE c.at # p
    BY <1>1, <2>1 DEF Waiting
  <2>2. CASE c.at = p
    <3>1. p \in Paths /\ IsBinary(p) /\ before[p].kind # "dir"
      BY <1>1, ProgramIs
    <3>2. c.kind # "dir" /\ IsBinary(c.dst)
      BY <1>1, <2>2, <3>1, UnseenIs, BinaryIsEscaped
    <3> QED
      BY <1>1, <3>2
  <2> QED
    BY <2>1, <2>2
<1>10. \A d : Content(before, d)' = Content(before, d)
  BY <1>1 DEF Content
<1>11. JailInv'
  <2>1. \A d \in unseen' : d.at \in Listed' /\ d = Content(before, d.at)'
    BY <1>1, <1>2, <1>5, <1>10 DEF ContentsInv, JailInv
  <2>2. ASSUME NEW p \in Programs'
        PROVE  (Waiting(p) => tree[p] = before[p])' /\ (~Waiting(p) => twice \/ Wrapped(p))'
    <3>1. p \in Programs
      BY <1>5
    <3>2. (Waiting(p) => tree[p] = before[p]) /\ (~Waiting(p) => twice \/ Wrapped(p))
      BY <1>1, <1>2, <3>1 DEF ContentsInv, JailInv
    <3> QED
      BY <1>1, <1>8, <1>9, <3>1, <3>2
  <2> QED
    BY <1>1, <1>2, <2>1, <2>2 DEF ContentsInv, JailInv
<1> QED
  BY <1>3, <1>4, <1>6, <1>7, <1>11 DEF ContentsInv

\* What the moves of one program do to the package directory.
LEMMA JailPuts ==
    ASSUME NEW t, IsTree(t), DOMAIN t \subseteq Paths, Jail \in DOMAIN t, IsDir(t, Jail),
           NEW q \in Named, q \in DOMAIN t, t[q].kind # "dir", IsBinary(q),
           NEW f, NEW g, f = FirejailedPath(q), g = ProfilePath(q),
           ~IsDir(t, f), ~IsDir(t, g),
           NEW u, u = Put(Put(Put(t, f, t[q]), q, Wrapper(q)), g, File(<<"profile">>))
    PROVE  /\ IsTree(u) /\ DOMAIN u \subseteq Paths
           /\ DOMAIN u = DOMAIN t \cup {f, g}
           /\ u[q] = Wrapper(q)
           /\ u[f] = t[q]
           /\ u[g] = File(<<"profile">>)
           /\ \A x \in DOMAIN t \ {q, f, g} : u[x] = t[x]
<1>1. PICK w, e : w = Wrapper(q) /\ e = File(<<"profile">>)
  OBVIOUS
<1>2. w.kind = "file" /\ e.kind = "file" /\ "file" \in Kinds /\ t[q].kind \in Kinds
  BY <1>1 DEF Wrapper, File, Kinds, IsTree
<1>3. /\ q \in Paths /\ f \in Paths /\ g \in Paths /\ f # g
      /\ Leads(Jail, f) /\ Leads(Jail, g)
      /\ \A d \in Above(f) \cup Above(g) : d = Jail \/ d \in Above(Jail)
  BY <1>1, JailFiles, NamedPaths
<1>4. f # q /\ g # q
  BY <1>3, JailIsNotBinary
<1>5. \A d \in Above(f) \cup Above(g) \cup Above(q) : IsDir(t, d) /\ d # Root
  BY <1>3, AboveIsShorter DEF IsTree
<1>6. \A d \in Above(f) \cup Above(g) \cup Above(q) : d \in DOMAIN t /\ d # f /\ d # g /\ d # q
  <2>1. ~IsDir(t, f) /\ ~IsDir(t, g) /\ ~IsDir(t, q)
    BY <1>1, <1>3 DEF IsDir, Paths
  <2> QED
    BY <1>5, <2>1 DEF IsDir
<1>7. PICK a : a = Put(t, f, t[q])
  OBVIOUS
<1>8. PICK b : b = Put(a, q, w)
  OBVIOUS
<1>9. u = Put(b, g, e)
  BY <1>1, <1>7, <1>8
<1>10. /\ DOMAIN a = DOMAIN t \cup {f} /\ a[f] = t[q]
       /\ \A x \in DOMAIN t : x # f => a[x] = t[x]
  <2>1. DOMAIN a = DOMAIN t \cup Above(f) \cup {f}
    BY <1>7, PutDomain
  <2>2. DOMAIN a = DOMAIN t \cup {f}
    BY <1>6, <2>1
  <2> QED
    BY <1>7, <2>2, PutPuts, PutKeeps
<1>11. IsTree(a) /\ DOMAIN a \subseteq Paths
  <2>1. CanHold(t, f)
    BY <1>5 DEF CanHold
  <2>2. f \in DOMAIN t => t[f].kind # "dir"
    BY <1>1 DEF IsDir
  <2> QED
    BY <1>2, <1>3, <1>7, <2>1, <2>2, PutTree
<1>12. /\ DOMAIN b = DOMAIN t \cup {f} /\ b[q] = w
       /\ \A x \in DOMAIN a : x # q => b[x] = a[x]
  <2>1. DOMAIN b = DOMAIN a \cup Above(q) \cup {q}
    BY <1>8, PutDomain
  <2>2. DOMAIN b = DOMAIN t \cup {f}
    BY <1>6, <1>10, <2>1
  <2> QED
    BY <1>8, <2>2, PutPuts, PutKeeps
<1>13. IsTree(b) /\ DOMAIN b \subseteq Paths
  <2>1. \A d \in Above(q) : IsDir(a, d)
    BY <1>5, <1>6, <1>7, PutKeepsDirs
  <2>2. CanHold(a, q)
    BY <2>1 DEF CanHold
  <2>3. a[q].kind # "dir"
    BY <1>4, <1>10
  <2> QED
    BY <1>2, <1>3, <1>8, <1>11, <2>2, <2>3, PutTree
<1>14. /\ DOMAIN u = DOMAIN t \cup {f, g} /\ u[g] = e
       /\ \A x \in DOMAIN b : x # g => u[x] = b[x]
  <2>1. DOMAIN u = DOMAIN b \cup Above(g) \cup {g}
    <3>1. DOMAIN Put(b, g, e) = DOMAIN b \cup Above(g) \cup {g}
      BY PutDomain
    <3> QED
      BY ONLY <1>9, <3>1
  <2>2. DOMAIN u = DOMAIN t \cup {f, g}
    BY <1>6, <1>12, <2>1
  <2> QED
    BY <1>9, <2>2, PutPuts, PutKeeps
<1>15. IsTree(u) /\ DOMAIN u \subseteq Paths
  <2>1. \A d \in Above(g) : IsDir(a, d)
    BY <1>5, <1>6, <1>7, PutKeepsDirs
  <2>2. \A d \in Above(g) : IsDir(b, d)
    BY <1>6, <1>8, <2>1, PutKeepsDirs
  <2>3. CanHold(b, g)
    BY <2>2 DEF CanHold
  <2>4. g \in DOMAIN b => b[g].kind # "dir"
    <3>1. g \in DOMAIN t => t[g].kind # "dir"
      BY <1>1 DEF IsDir
    <3> QED
      BY <1>3, <1>4, <1>10, <1>12, <3>1
  <2> QED
    BY <1>2, <1>3, <1>9, <1>13, <2>3, <2>4, PutTree
<1>16. u[q] = w /\ u[f] = t[q]
  BY <1>3, <1>4, <1>10, <1>12, <1>14
<1>17. \A x \in DOMAIN t \ {q, f, g} : u[x] = t[x]
  BY <1>10, <1>12, <1>14
<1> QED
  BY <1>1, <1>14, <1>15, <1>16, <1>17

LEMMA AddedIs ==
    ASSUME NEW t, NEW p
    PROVE  /\ Added(t, p).at = p
           /\ Added(t, p).dst = p
           /\ Added(t, p).of = t[p].of
           /\ Added(t, p).kind = t[p].kind
<1>1. PICK k, o : k = t[p].kind /\ o = t[p].of
  OBVIOUS
<1>2. Added(t, p) = [at |-> p, dst |-> p, kind |-> k, of |-> o]
  BY <1>1 DEF Added
<1> QED
  BY <1>1, <1>2

\* What the jail moves is a program that waits, under the name it has.
LEMMA MovedIs ==
    ASSUME ContentsInv, stage = "jail", NEW c \in unseen, c.kind # "dir",
           IsBinary(c.dst), CanMove(c)
    PROVE  /\ c.dst = c.at /\ c.at \in Programs /\ Waiting(c.at)
           /\ tree[c.at] = before[c.at]
<1>1. PICK q : q = c.at
  OBVIOUS
<1>2. /\ q \in Listed /\ q \in DOMAIN before /\ q \in Paths
      /\ c.dst = EscapeGlobChars(q) /\ before[q].kind # "dir"
  BY <1>1, UnseenIs
<1>3. settings.jailed /\ FromScript(before)
  BY DEF ContentsInv, GatheredInv
<1>4. c.dst \in DOMAIN before
  BY <1>3 DEF ContentsInv, JailInv, CanMove
<1>5. PICK n \in Named : c.dst = n \/ c.dst \in Above(n)
  BY <1>3, <1>4 DEF FromScript
<1>6. c.dst = q
  <2>1. n \in Paths /\ Unspelled(n)
    BY NamesAssumption
  <2> QED
    BY <1>2, <1>5, <2>1, PlainIsNotEscaped
<1>7. q \in Programs
  BY <1>2, <1>6 DEF Programs, IsDir, Paths
<1>8. Waiting(q)
  BY <1>1 DEF Waiting
<1>9. tree[q] = before[q]
  BY <1>3, <1>7, <1>8 DEF ContentsInv, JailInv
<1> QED
  BY <1>1, <1>6, <1>7, <1>8, <1>9

\* One step of the jail, with its names: the program q has the contents c, then
\* x, f and g are its files, and u is the package directory afterwards.
MoveStep(c, q, f, g, u, x) ==
    /\ stage = "jail" /\ c \in unseen
    /\ q = c.at /\ q \in Programs /\ Waiting(q) /\ tree[q] = before[q]
    /\ f = FirejailedPath(q) /\ g = ProfilePath(q)
    /\ ~IsDir(tree, f) /\ ~IsDir(tree, g)
    /\ u = Put(Put(Put(tree, f, tree[q]), q, Wrapper(q)), g, File(<<"profile">>))
    /\ x = [c EXCEPT !.kind = "file", !.of = Wrapper(q).of]
    /\ tree' = u
    /\ contents' = (contents \ {c}) \cup {x, Added(u, f), Added(u, g)}
    /\ twice' = (twice \/ \E d \in contents : d.at \in {f, g})
    /\ unseen' = unseen \ {c}
    /\ UNCHANGED <<sys, settings, stage, printed, package, commands, installed, before>>

LEMMA MoveInv ==
    ASSUME NEW c, NEW q, NEW f, NEW g, NEW u, NEW x
    PROVE  ContentsInv /\ MoveStep(c, q, f, g, u, x) => ContentsInv'
<1> SUFFICES ASSUME ContentsInv, MoveStep(c, q, f, g, u, x) PROVE ContentsInv'
  OBVIOUS
<1> USE DEF MoveStep
<1>1. /\ settings.jailed /\ FromScript(before) /\ Listed \subseteq DOMAIN before
      /\ Jail \in DOMAIN tree /\ IsDir(tree, Jail)
      /\ DOMAIN before \subseteq DOMAIN tree
      /\ IsTree(tree) /\ IsTree(before) /\ DOMAIN tree \subseteq Paths
      /\ unseen \subseteq contents
      /\ \A p \in DOMAIN tree : IsBinary(p) => p \in DOMAIN before
      /\ \A p \in Programs : (Waiting(p) => tree[p] = before[p]) /\ (~Waiting(p) => twice \/ Wrapped(p))
      /\ ~twice => \A a, d \in contents : a.at = d.at => a = d
      /\ \A d \in unseen : d.at \in Listed /\ d = Content(before, d.at)
  BY DEF ContentsInv, ContentsTypeOK, PathsInv, GatheredInv, JailInv
<1>2. /\ q \in DOMAIN before /\ q \in DOMAIN tree /\ q \in Named /\ q \in Paths
      /\ IsBinary(q) /\ tree[q].kind # "dir"
  BY <1>1, ProgramIs
<1>3. /\ f \in Paths /\ g \in Paths /\ f # g /\ ~IsBinary(f) /\ ~IsBinary(g)
      /\ f # Jail /\ g # Jail /\ ~IsBinary(Jail)
  <2>1. /\ f \in Paths /\ g \in Paths /\ f # g /\ f # Jail /\ g # Jail
        /\ Leads(Jail, f) /\ Leads(Jail, g)
    BY <1>2, JailFiles
  <2>2. ~IsBinary(f) /\ ~IsBinary(g) /\ ~IsBinary(Jail)
    BY <2>1, JailIsNotBinary, JailIsPath
  <2> QED
    BY <2>1, <2>2
<1>4. /\ IsTree(u) /\ DOMAIN u \subseteq Paths /\ DOMAIN u = DOMAIN tree \cup {f, g}
      /\ u[q] = Wrapper(q) /\ u[f] = tree[q] /\ u[g] = File(<<"profile">>)
      /\ \A y \in DOMAIN tree \ {q, f, g} : u[y] = tree[y]
  <2>1. /\ f = FirejailedPath(q) /\ g = ProfilePath(q)
        /\ ~IsDir(tree, f) /\ ~IsDir(tree, g)
        /\ u = Put(Put(Put(tree, f, tree[q]), q, Wrapper(q)), g, File(<<"profile">>))
    OBVIOUS
  <2> HIDE DEF MoveStep
  <2> QED
    BY ONLY <1>1, <1>2, <2>1, JailPuts
<1>5. PICK a, b : a = Added(u, f) /\ b = Added(u, g)
  OBVIOUS
<1>6. /\ a.at = f /\ a.dst = f /\ a.of = u[f].of /\ a.kind \in Kinds
      /\ b.at = g /\ b.dst = g /\ b.of = u[g].of /\ b.kind \in Kinds
  <2>1. u[f].kind \in Kinds /\ u[g].kind \in Kinds
    BY <1>4 DEF IsTree
  <2> QED
    BY <1>5, <2>1, AddedIs
<1>7. x.at = q /\ x.dst = EscapeGlobChars(q) /\ x.kind = "file" /\ x.of = Wrapper(q).of
  <2>1. c = Content(before, q)
    BY <1>1
  <2>2. PICK k, o, r : /\ c = [at |-> q, dst |-> r, kind |-> k, of |-> o]
                       /\ r = EscapeGlobChars(q)
    BY <2>1 DEF Content
  <2> QED
    BY <2>2
<1>8. contents' = (contents \ {c}) \cup {x, a, b}
  BY <1>5
<1>9. Listed' = Listed /\ Programs' = Programs
  BY DEF Listed, Programs, Walked, Children, Under
<1>10. ContentsTypeOK' /\ PathsInv'
  <2>1. printed' \subseteq DOMAIN tree' \cup {y.at : y \in Finds}
    BY <1>4 DEF ContentsInv, ContentsTypeOK
  <2>2. \A d \in contents' : d.kind \in Kinds /\ d.at # Root
    <3>1. "file" \in Kinds /\ q # Root /\ f # Root /\ g # Root
      BY <1>2, <1>3 DEF Kinds, Paths
    <3> QED
      BY <1>6, <1>7, <1>8, <3>1 DEF ContentsInv, ContentsTypeOK
  <2>3. unseen' \subseteq contents'
    BY <1>1, <1>8
  <2>4. twice' \in BOOLEAN
    OBVIOUS
  <2>5. /\ sys' \in Systems /\ settings' \in Settings /\ stage' = "jail"
        /\ commands' \in 0..(MaxCommands + MaxFinds)
        /\ \A y \in DOMAIN package' : package'[y].kind \in Kinds
    BY DEF ContentsInv, ContentsTypeOK
  <2>6. IsTree(tree)' /\ IsTree(before)' /\ DOMAIN tree' \subseteq Paths
    <3>1. tree' = u /\ before' = before
      OBVIOUS
    <3> QED
      BY ONLY <1>1, <1>4, <3>1 DEF IsTree, IsDir
  <2>7. PathsInv'
    BY ONLY <2>6 DEF PathsInv
  <2> QED
    BY ONLY <2>1, <2>2, <2>3, <2>4, <2>5, <2>6, <2>7 DEF ContentsTypeOK
<1>11. ScriptInv' /\ InstalledInv' /\ UnjailedInv' /\ PackageIsComplete' /\ ProgramsSurvive'
  BY DEF ScriptInv, InstalledInv, UnjailedInv, PackageIsComplete, ProgramsSurvive
<1>12. GatheredInv'
  BY <1>9 DEF ContentsInv, GatheredInv
<1>13. Wrapped(q)'
  <2>1. before'[q] = u[f]
    BY <1>4
  <2>2. Packs(q, Wrapper(q))' /\ \E d \in contents' : d.at = q /\ d.kind = "file"
    <3>1. q \in DOMAIN tree' /\ tree'[q] = Wrapper(q)
      BY <1>2, <1>4
    <3>2. x \in contents' /\ x.at = q /\ x.kind = "file" /\ LandsAt(x) = q
      BY ONLY <1>7, <1>8 DEF LandsAt
    <3> QED
      BY ONLY <3>1, <3>2 DEF Packs
  <2>3. Packs(f, before[q])'
    <3>1. f \in DOMAIN tree' /\ tree'[f] = before'[q] /\ before'[q] = u[f]
      BY <1>4, <2>1
    <3>2. a \in contents' /\ a.at = f /\ LandsAt(a) = f /\ a.of = u[f].of
      BY ONLY <1>6, <1>8 DEF LandsAt
    <3> QED
      BY ONLY <3>1, <3>2 DEF Packs
  <2>4. Packs(g, File(<<"profile">>))'
    <3>1. g \in DOMAIN tree' /\ tree'[g] = u[g] /\ u[g] = File(<<"profile">>)
      BY <1>4
    <3>2. b \in contents' /\ b.at = g /\ LandsAt(b) = g /\ b.of = u[g].of
      BY ONLY <1>6, <1>8 DEF LandsAt
    <3> QED
      BY ONLY <3>1, <3>2 DEF Packs
  <2> QED
    BY <2>2, <2>3, <2>4 DEF Wrapped
<1>14. ASSUME NEW p \in Programs, p # q
       PROVE  /\ Waiting(p)' <=> Waiting(p)
              /\ tree'[p] = tree[p]
              /\ Wrapped(p) => twice' \/ Wrapped(p)'
  <2>1. p \in DOMAIN tree /\ p \in Named /\ p \in Paths /\ IsBinary(p)
    BY <1>1, ProgramIs
  <2>2. PICK y, z : y = FirejailedPath(p) /\ z = ProfilePath(p)
    OBVIOUS
  <2>3. y # q /\ z # q
    <3>1. y \in Paths /\ z \in Paths /\ Leads(Jail, y) /\ Leads(Jail, z)
      BY <2>1, <2>2, JailFiles
    <3> QED
      BY <1>2, <3>1, JailIsNotBinary
  <2>4. Waiting(p)' <=> Waiting(p)
    BY <1>14 DEF Waiting
  <2>5. p \notin {f, g} /\ tree'[p] = tree[p]
    BY <1>3, <1>4, <1>14, <2>1
  <2>6. ASSUME NEW r, NEW e, Packs(r, e), r # q, ~twice'
        PROVE  Packs(r, e)'
    <3>1. r \in DOMAIN tree /\ tree[r] = e
      BY <2>6 DEF Packs
    <3>2. PICK d \in contents : d.at = r /\ LandsAt(d) = r /\ (d.kind = "file" \/ d.of = e.of)
      BY <2>6 DEF Packs
    <3>3. r \notin {f, g} /\ d # c
      BY <2>6, <3>2
    <3>4. r \in DOMAIN tree' /\ tree'[r] = e
      BY <1>4, <2>6, <3>1, <3>3
    <3>5. d \in contents'
      BY <1>8, <3>2, <3>3
    <3> QED
      BY <3>2, <3>4, <3>5 DEF Packs
  <2>7. ASSUME Wrapped(p), ~twice' PROVE Wrapped(p)'
    <3>1. /\ Packs(p, Wrapper(p)) /\ \E d \in contents : d.at = p /\ d.kind = "file"
          /\ Packs(y, before[p]) /\ Packs(z, File(<<"profile">>))
      BY <2>2, <2>7 DEF Wrapped
    <3>2. PICK e : e = before[p]
      OBVIOUS
    <3>3. Packs(p, Wrapper(p))'
      BY <1>14, <2>6, <2>7, <3>1
    <3>4. \E d \in contents' : d.at = p /\ d.kind = "file"
      BY <1>8, <1>14, <3>1
    <3>5. Packs(y, e)'
      BY <2>3, <2>6, <2>7, <3>1, <3>2
    <3>6. Packs(z, File(<<"profile">>))'
      BY <2>3, <2>6, <2>7, <3>1
    <3> QED
      BY <2>2, <3>2, <3>3, <3>4, <3>5, <3>6 DEF Wrapped
  <2> QED
    BY <2>4, <2>5, <2>7
<1>15. ~Waiting(q)'
  <2>1. \A d \in unseen : d.at = q => d = c
    BY <1>1
  <2> QED
    BY <2>1 DEF Waiting
<1>16. ASSUME ~twice', NEW d \in contents', NEW e \in contents', d.at = e.at
       PROVE  d = e
  <2>1. \A y \in contents : y.at \notin {f, g}
    BY <1>16
  <2>2. \A y \in contents \ {c} : y.at # q
    BY <1>1, <1>16
  <2>3. \A y, z \in contents : y.at = z.at => y = z
    BY <1>1, <1>16
  <2>4. q # f /\ q # g
    BY <1>2, <1>3
  <2>5. \A y \in contents' :
           \/ y \in contents \ {c} /\ y.at \notin {q, f, g}
           \/ y = x /\ y.at = q
           \/ y = a /\ y.at = f
           \/ y = b /\ y.at = g
    BY <1>6, <1>7, <1>8, <2>1, <2>2
  <2> QED
    BY <1>3, <1>16, <2>3, <2>4, <2>5
<1>17. JailInv'
  <2>1. Jail \in DOMAIN tree' /\ IsDir(tree', Jail)
    <3>1. tree'[Jail] = tree[Jail] /\ Jail \in DOMAIN tree'
      BY <1>1, <1>2, <1>3, <1>4
    <3> QED
      BY <1>1, <3>1 DEF IsDir
  <2>2. DOMAIN before' \subseteq DOMAIN tree' /\ \A p \in DOMAIN tree' : IsBinary(p) => p \in DOMAIN before'
    BY <1>1, <1>3, <1>4
  <2>3. \A d \in unseen' : d.at \in Listed' /\ d = Content(before, d.at)'
    <3>1. \A d : Content(before, d)' = Content(before, d)
      BY DEF Content
    <3> QED
      BY <1>1, <1>9, <3>1
  <2>4. ASSUME NEW p \in Programs'
        PROVE  (Waiting(p) => tree[p] = before[p])' /\ (~Waiting(p) => twice \/ Wrapped(p))'
    <3>1. CASE p = q
      BY <1>13, <1>15, <3>1
    <3>2. CASE p # q
      <4>1. p \in Programs
        BY <1>9
      <4>2. /\ Waiting(p)' <=> Waiting(p)
            /\ tree'[p] = tree[p]
            /\ Wrapped(p) => twice' \/ Wrapped(p)'
        BY <1>14, <3>2, <4>1
      <4>3. (Waiting(p) => tree[p] = before[p]) /\ (~Waiting(p) => twice \/ Wrapped(p))
        BY <1>1, <4>1
      <4>4. before' = before /\ (twice => twice')
        OBVIOUS
      <4> HIDE DEF MoveStep
      <4> QED
        BY <4>2, <4>3, <4>4
    <3> QED
      BY <3>1, <3>2
  <2>5. stage' # "pack"
    OBVIOUS
  <2>6. \A d \in contents' : IsSpelled(d)
    <3>1. \A d \in contents : IsSpelled(d)
      BY <1>1 DEF ContentsInv, JailInv
    <3>2. IsSpelled(x) /\ IsSpelled(a) /\ IsSpelled(b)
      BY <1>2, <1>3, <1>6, <1>7 DEF IsSpelled
    <3> QED
      BY ONLY <1>8, <3>1, <3>2
  <2> QED
    BY <1>16, <2>1, <2>2, <2>3, <2>4, <2>5, <2>6 DEF JailInv
<1> QED
  BY <1>10, <1>11, <1>12, <1>17 DEF ContentsInv

LEMMA CreateFirejailedBinaryInv ==
    ASSUME NEW c
    PROVE  ContentsInv /\ CreateFirejailedBinary(c) => ContentsInv'
<1> SUFFICES ASSUME ContentsInv, CreateFirejailedBinary(c) PROVE ContentsInv'
  OBVIOUS
<1>1. /\ stage = "jail" /\ c \in unseen /\ c.kind # "dir" /\ IsBinary(c.dst)
      /\ UNCHANGED <<sys, settings, commands, installed, before>>
  BY DEF CreateFirejailedBinary, fixed, history
<1>2. CASE Fail
  BY <1>1, <1>2, FailInv DEF fixed, ContentsInv, ContentsTypeOK
<1>3. CASE ~Fail
  <2>1. PICK d : d = c.dst
    OBVIOUS
  <2>2. PICK f, g, x : /\ f = FirejailedPath(d) /\ g = ProfilePath(d)
                       /\ x = [c EXCEPT !.kind = "file", !.of = Wrapper(d).of]
    OBVIOUS
  <2>3. /\ CanMove(c)
        /\ tree' = Put(Moved(d), g, File(<<"profile">>))
        /\ contents' = (contents \ {c}) \cup {x} \cup {Added(tree', p) : p \in {f, g}}
        /\ twice' = (twice \/ \E y \in contents : y.at \in {f, g})
        /\ unseen' = unseen \ {c}
        /\ UNCHANGED <<stage, printed, package>>
    BY <1>3, <2>1, <2>2 DEF CreateFirejailedBinary
  <2>4. d = c.at /\ d \in Programs /\ Waiting(d) /\ tree[d] = before[d]
    BY <1>1, <2>1, <2>3, MovedIs
  <2>5. ~IsDir(tree, f) /\ ~IsDir(tree, g)
    BY <2>1, <2>2, <2>3 DEF CanMove
  <2>6. PICK u : u = tree'
    OBVIOUS
  <2>7. u = Put(Put(Put(tree, f, tree[d]), d, Wrapper(d)), g, File(<<"profile">>))
    BY <2>2, <2>3, <2>6 DEF Moved
  <2>8. contents' = (contents \ {c}) \cup {x, Added(u, f), Added(u, g)}
    BY <2>3, <2>6
  <2>9. /\ tree' = u /\ unseen' = unseen \ {c}
        /\ twice' = (twice \/ \E y \in contents : y.at \in {f, g})
        /\ UNCHANGED <<sys, settings, stage, printed, package, commands, installed, before>>
    BY <1>1, <2>3, <2>6
  <2>10. stage = "jail" /\ c \in unseen
    BY <1>1
  <2>11. MoveStep(c, d, f, g, u, x)
    BY <2>2, <2>4, <2>5, <2>7, <2>8, <2>9, <2>10 DEF MoveStep
  <2> QED
    BY <2>11, MoveInv
<1> QED
  BY <1>2, <1>3

LEMMA JailDoneInv == ContentsInv /\ JailDone => ContentsInv'
<1> SUFFICES ASSUME ContentsInv, JailDone PROVE ContentsInv'
  OBVIOUS
<1>1. /\ stage = "jail" /\ stage' = "pack" /\ unseen = {}
      /\ UNCHANGED <<sys, settings, tree, printed, twice, contents, unseen, package,
                     commands, installed, before>>
  BY DEF JailDone, fixed, lists, history
<1>2. settings.jailed
  BY <1>1 DEF ContentsInv, GatheredInv
<1>3. ContentsTypeOK'
  BY <1>1 DEF ContentsInv, ContentsTypeOK
<1>4. PathsInv' /\ ScriptInv' /\ InstalledInv' /\ UnjailedInv' /\ PackageIsComplete' /\ ProgramsSurvive'
  BY <1>1, <1>2
  DEF ContentsInv, PathsInv, ScriptInv, InstalledInv, UnjailedInv, PackageIsComplete, ProgramsSurvive
<1>5. Listed' = Listed /\ Programs' = Programs
  BY <1>1 DEF Listed, Programs, Walked, Children, Under
<1>6. GatheredInv'
  BY <1>1, <1>5 DEF ContentsInv, GatheredInv
<1>7. \A p : (Wrapped(p)' <=> Wrapped(p)) /\ (Waiting(p)' <=> Waiting(p))
  BY <1>1 DEF Wrapped, Packs, Waiting
<1>8. JailInv'
  <2>1. \A p \in Programs' : (Waiting(p) => tree[p] = before[p])' /\ (~Waiting(p) => twice \/ Wrapped(p))'
    BY <1>1, <1>2, <1>5, <1>7 DEF ContentsInv, JailInv
  <2> QED
    BY <1>1, <1>2, <2>1 DEF ContentsInv, JailInv
<1> QED
  BY <1>3, <1>4, <1>6, <1>8 DEF ContentsInv

-----------------------------------------------------------------------------
(* The contents are packed *)

\* An entry among the contents is packed where it lands, as it is there or as
\* it is in the package directory.
LEMMA PackPacks ==
    ASSUME ContentsInv, Pack, ~twice, NEW p, \E c \in contents : LandsAt(c) = p
    PROVE  /\ p \in DOMAIN package'
           /\ \E c \in contents :
                 /\ LandsAt(c) = p
                 /\ package'[p] = [kind |-> c.kind,
                                   of |-> IF c.kind = "file" THEN tree[c.at].of ELSE c.of]
<1>1. package' = [y \in {LandsAt(c) : c \in contents} |->
                     LET c == CHOOSE x \in contents : LandsAt(x) = y
                     IN  [kind |-> c.kind,
                          of |-> IF c.kind = "file" THEN tree[c.at].of ELSE c.of]]
  BY DEF Pack
<1>2. PICK d : d = CHOOSE x \in contents : LandsAt(x) = p
  OBVIOUS
<1>3. d \in contents /\ LandsAt(d) = p
  BY <1>2
<1>4. p \in {LandsAt(c) : c \in contents}
  BY <1>3
<1>5. package'[p] = [kind |-> d.kind,
                     of |-> IF d.kind = "file" THEN tree[d.at].of ELSE d.of]
  BY <1>1, <1>2, <1>4
<1> QED
  BY <1>1, <1>3, <1>4, <1>5

\* What a script leaves is not spelled with backslashes.
LEMMA ScriptUnspelled ==
    ASSUME NEW t, FromScript(t), NEW p \in DOMAIN t
    PROVE  p \in Paths /\ Unspelled(p)
<1>1. p \in Paths
  BY DEF FromScript
<1>2. PICK q \in Named : p = q \/ p \in Above(q)
  BY DEF FromScript
<1>3. q \in Paths /\ Unspelled(q)
  BY <1>2, NamesAssumption
<1>4. CASE p \in Above(q)
  <2>1. Leads(p, q)
    BY <1>3, <1>4, AboveLeads
  <2>2. /\ Len(p) \in Nat /\ Len(q) \in Nat
        /\ DOMAIN p = 1 .. Len(p) /\ DOMAIN q = 1 .. Len(q)
    BY <1>1, <1>3 DEF Paths
  <2>3. \A i \in DOMAIN p : i \in DOMAIN q /\ p[i] = q[i]
    BY <2>1, <2>2 DEF Leads
  <2> QED
    BY <1>1, <1>3, <2>3 DEF Unspelled
<1> QED
  BY <1>1, <1>2, <1>3, <1>4

\* An entry that lands at an unspelled path is the one that is there.
LEMMA LandsOnPlain ==
    ASSUME NEW c, IsSpelled(c), NEW p \in Paths, Unspelled(p), LandsAt(c) = p
    PROVE  c.at = p
<1>1. c.at \in Paths /\ (p = c.at \/ p = EscapeGlobChars(c.at))
  BY DEF IsSpelled, LandsAt
<1>2. CASE p = EscapeGlobChars(c.at)
  <2>1. PICK q : q = c.at
    OBVIOUS
  <2>2. EscapeGlobChars(q) = q
    BY <1>1, <1>2, <2>1, PlainIsNotEscaped
  <2> QED
    BY <1>2, <2>1, <2>2
<1> QED
  BY <1>1, <1>2

\* Two paths of a script do not land at one place.
LEMMA LandApart ==
    ASSUME NEW t, FromScript(t), NEW p \in DOMAIN t, NEW q \in DOMAIN t,
           LandsAt(Content(t, p)) = LandsAt(Content(t, q))
    PROVE  p = q
<1>1. p \in Paths /\ Unspelled(p) /\ q \in Paths /\ Unspelled(q)
  BY ScriptUnspelled
<1>2. PICK c, d : c = Content(t, p) /\ d = Content(t, q)
  OBVIOUS
<1>3. c.at = p /\ c.dst = EscapeGlobChars(p) /\ d.at = q /\ d.dst = EscapeGlobChars(q)
  BY <1>2, ContentIs
<1>4. IsSpelled(c) /\ IsSpelled(d)
  BY <1>1, <1>3 DEF IsSpelled
<1>5. LandsAt(c) = LandsAt(d)
  BY <1>2
<1>6. CASE c.kind = "file"
  <2>1. LandsAt(d) = p
    BY <1>3, <1>5, <1>6 DEF LandsAt
  <2> QED
    BY <1>1, <1>3, <1>4, <2>1, LandsOnPlain
<1>7. CASE d.kind = "file"
  <2>1. LandsAt(c) = q
    BY <1>3, <1>5, <1>7 DEF LandsAt
  <2> QED
    BY <1>1, <1>3, <1>4, <2>1, LandsOnPlain
<1>8. CASE c.kind # "file" /\ d.kind # "file"
  <2>1. EscapeGlobChars(p) = EscapeGlobChars(q)
    BY <1>3, <1>5, <1>8 DEF LandsAt
  <2> QED
    BY <1>1, <2>1, EscapesApart
<1> QED
  BY <1>6, <1>7, <1>8

LEMMA PackInv == ContentsInv /\ Pack => ContentsInv'
<1> SUFFICES ASSUME ContentsInv, Pack PROVE ContentsInv'
  OBVIOUS
<1>1. /\ stage = "pack"
      /\ UNCHANGED <<sys, settings, commands, installed, before>>
  BY DEF Pack, fixed, history
<1>2. CASE Fail
  BY <1>1, <1>2, FailInv DEF fixed, ContentsInv, ContentsTypeOK
<1>3. CASE ~Fail
  <2>1. ~twice /\ stage' = "packed" /\ UNCHANGED <<tree, printed, twice, contents, unseen>>
    BY <1>3 DEF Pack, lists
  <2>2. DOMAIN package' = {LandsAt(c) : c \in contents}
    BY <1>3 DEF Pack
  <2>3. ASSUME NEW p \in DOMAIN package'
        PROVE  \E c \in contents :
                 /\ LandsAt(c) = p
                 /\ package'[p] = [kind |-> c.kind,
                                   of |-> IF c.kind = "file" THEN tree[c.at].of ELSE c.of]
    <3>1. \E c \in contents : LandsAt(c) = p
      BY <2>2
    <3> QED
      BY <2>1, <3>1, PackPacks
  <2>4. ContentsTypeOK'
    <3>1. \A p \in DOMAIN package' : package'[p].kind \in Kinds
      BY <2>3 DEF ContentsInv, ContentsTypeOK
    <3> QED
      BY <1>1, <2>1, <3>1 DEF ContentsInv, ContentsTypeOK
  <2>5. PathsInv' /\ ScriptInv' /\ InstalledInv' /\ GatheredInv' /\ UnjailedInv' /\ JailInv'
    BY <2>1
    DEF ContentsInv, PathsInv, ScriptInv, InstalledInv, GatheredInv, UnjailedInv, JailInv
  <2>6. FromScript(before) /\ IsTree(before) /\ Listed \subseteq DOMAIN before
    BY <1>1 DEF ContentsInv, ContentsTypeOK, GatheredInv
  <2>7. settings.lists \in BOOLEAN /\ settings.jailed \in BOOLEAN
    BY CommandsAssumption DEF ContentsInv, ContentsTypeOK
  <2>8. PackageIsComplete'
    <3> SUFFICES ASSUME ~settings.jailed PROVE PackageIsComplete'
      BY <1>1 DEF PackageIsComplete
    <3>1. tree = before /\ contents = {Content(before, p) : p \in Listed}
      BY <1>1 DEF ContentsInv, UnjailedInv
    <3>2. PICK wanted : wanted = IF settings.lists THEN printed ELSE DOMAIN before
      OBVIOUS
    <3>3. Listed \subseteq wanted /\ wanted \subseteq DOMAIN before
      BY <2>6, <3>2 DEF Listed
    <3>4. ASSUME NEW p \in Listed PROVE Kept(p)'
      <4>1. PICK c : c = Content(before, p)
        OBVIOUS
      <4>2. /\ c \in contents /\ c.at = p /\ c.dst = EscapeGlobChars(p)
            /\ c.kind = before[p].kind
            /\ c.of = IF before[p].kind = "file" THEN before[p].of
                      ELSE EscapeGlobChars(before[p].of)
        BY <3>1, <4>1, ContentIs
      <4>3. PICK x : x = LandsAt(c)
        OBVIOUS
      <4>4. x \in DOMAIN package'
        BY <2>2, <4>2, <4>3
      <4>5. PICK d \in contents :
                 /\ LandsAt(d) = x
                 /\ package'[x] = [kind |-> d.kind,
                                   of |-> IF d.kind = "file" THEN tree[d.at].of ELSE d.of]
        BY <2>3, <4>4
      <4>6. PICK r \in Listed : d = Content(before, r)
        BY <3>1
      <4>7. r = p
        BY <2>6, <4>1, <4>3, <4>5, <4>6, LandApart
      <4>8. d = c
        BY <4>1, <4>6, <4>7
      <4>9. /\ package'[x].kind = before[p].kind
            /\ package'[x].of = c.of
        BY <3>1, <4>2, <4>5, <4>8
      <4>10. CASE before[p].kind = "file"
        <5>1. x = p
          BY <4>2, <4>3, <4>10 DEF LandsAt
        <5> QED
          BY <1>1, <4>2, <4>4, <4>9, <4>10, <5>1 DEF Kept
      <4>11. CASE before[p].kind # "file"
        <5>1. x = EscapeGlobChars(p)
          BY <4>2, <4>3, <4>11 DEF LandsAt
        <5>2. Altered(p)' \/ (x = p /\ package'[x].of = before'[p].of)
          BY <1>1, <4>2, <4>9, <4>11, <5>1 DEF Altered
        <5> QED
          BY <1>1, <4>4, <4>9, <5>1, <5>2 DEF Kept
      <4> QED
        BY <4>10, <4>11
    <3>5. ASSUME NEW p \in wanted
          PROVE  \E q \in wanted :
                    /\ Kept(q)'
                    /\ p = q \/ (~settings.lists /\ IsDir(before, p) /\ IsStrictPrefix(p, q))
      <4>1. CASE settings.lists
        <5>1. p \in Listed
          BY <3>2, <4>1 DEF Listed
        <5> QED
          BY <3>4, <5>1
      <4>2. CASE ~settings.lists
        <5>1. p \in DOMAIN before
          BY <3>3
        <5>2. PICK q \in Walked(before) : p = q \/ Leads(p, q)
          BY <2>6, <5>1, LeafBelow
        <5>3. q \in Listed /\ q \in wanted /\ q \in DOMAIN before /\ Kept(q)'
          BY <3>3, <3>4, <4>2, <5>2 DEF Listed
        <5>4. p \in Paths /\ q \in Paths /\ p \in Seq(Names) /\ q \in Seq(Names)
          BY <2>6, <5>1, <5>3 DEF FromScript, Paths
        <5>5. CASE Leads(p, q)
          <6>1. p \in Above(q)
            BY <5>4, <5>5, AboveLeads
          <6>2. IsDir(before, p)
            BY <2>6, <5>3, <6>1 DEF IsTree
          <6>3. IsStrictPrefix(p, q)
            BY <5>4, <5>5, StrictPrefixLeads
          <6> QED
            BY <4>2, <5>3, <6>2, <6>3
        <5> QED
          BY <5>2, <5>3, <5>5
      <4> QED
        BY <4>1, <4>2
    <3>6. ASSUME NEW q \in DOMAIN package'
          PROVE  \E p \in wanted : q \in {p, EscapeGlobChars(p)}
      <4>1. PICK c \in contents : LandsAt(c) = q
        BY <2>2
      <4>2. PICK p \in Listed : c = Content(before, p)
        BY <3>1
      <4>3. q \in {p, EscapeGlobChars(p)}
        BY <4>1, <4>2, ContentIs DEF LandsAt
      <4> QED
        BY <3>3, <4>3
    <3> QED
      BY <1>1, <2>1, <3>2, <3>3, <3>5, <3>6 DEF PackageIsComplete, IsDir
  <2>9. ProgramsSurvive'
    <3> SUFFICES ASSUME settings.jailed,
                        NEW p \in DOMAIN before \cap (IF settings.lists THEN printed ELSE DOMAIN before),
                        IsBinary(p), ~IsDir(before, p)
                 PROVE  /\ p \in DOMAIN package' /\ package'[p] = Wrapper(p)
                        /\ package'[FirejailedPath(p)].of = before[p].of
                        /\ package'[ProfilePath(p)].of = <<"profile">>
      BY <1>1, <2>1 DEF ProgramsSurvive
    <3>1. p \in Programs
      BY <2>7 DEF Programs, Listed, Walked, IsDir
    <3>2. /\ unseen = {} /\ \A c, d \in contents : c.at = d.at => c = d
          /\ \A c \in contents : IsSpelled(c)
      BY <1>1, <2>1 DEF ContentsInv, JailInv
    <3>3. ~Waiting(p)
      BY <3>2 DEF Waiting
    <3>4. Wrapped(p)
      BY <1>1, <2>1, <3>1, <3>3 DEF ContentsInv, JailInv
    <3>5. ASSUME NEW r, NEW e, Packs(r, e), r \in Paths, Unspelled(r)
          PROVE  r \in DOMAIN package' /\ package'[r].of = e.of
      <4>1. tree[r] = e
        BY <3>5 DEF Packs
      <4>2. PICK d \in contents : d.at = r /\ LandsAt(d) = r /\ (d.kind = "file" \/ d.of = e.of)
        BY <3>5 DEF Packs
      <4>3. r \in DOMAIN package'
        BY <2>2, <4>2
      <4>4. PICK c \in contents :
                 /\ LandsAt(c) = r
                 /\ package'[r] = [kind |-> c.kind,
                                   of |-> IF c.kind = "file" THEN tree[c.at].of ELSE c.of]
        BY <2>3, <4>3
      <4>5. c.at = r
        BY <3>2, <3>5, <4>4, LandsOnPlain
      <4>6. c = d
        BY <3>2, <4>2, <4>5
      <4> QED
        BY <4>1, <4>2, <4>3, <4>4, <4>5, <4>6
    <3>51. /\ p \in Paths /\ Unspelled(p)
           /\ FirejailedPath(p) \in Paths /\ Unspelled(FirejailedPath(p))
           /\ ProfilePath(p) \in Paths /\ Unspelled(ProfilePath(p))
      <4>1. p \in Named
        BY <1>1, <3>1, ProgramIs
      <4> QED
        BY <4>1, NamesAssumption
    <3>6. p \in DOMAIN package' /\ package'[p].of = Wrapper(p).of
      BY <3>4, <3>5, <3>51 DEF Wrapped
    <3>7. package'[p] = [kind |-> "file", of |-> Wrapper(p).of]
      <4>1. PICK d \in contents : d.at = p /\ d.kind = "file"
        BY <3>4 DEF Wrapped
      <4>2. PICK c \in contents :
                 /\ LandsAt(c) = p
                 /\ package'[p] = [kind |-> c.kind,
                                   of |-> IF c.kind = "file" THEN tree[c.at].of ELSE c.of]
        BY <2>3, <3>6
      <4>3. c.at = p
        BY <3>2, <3>51, <4>2, LandsOnPlain
      <4>4. c = d
        BY <3>2, <4>1, <4>3
      <4>5. PICK o : package'[p] = [kind |-> "file", of |-> o]
        BY <4>1, <4>2, <4>4
      <4>6. o = Wrapper(p).of
        BY <3>6, <4>5
      <4> QED
        BY <4>5, <4>6
    <3>8. Wrapper(p) = [kind |-> "file", of |-> Wrapper(p).of]
      <4>1. PICK o : Wrapper(p) = [kind |-> "file", of |-> o]
        BY DEF Wrapper, File
      <4> QED
        BY <4>1
    <3>9. package'[FirejailedPath(p)].of = before[p].of
      BY <3>4, <3>5, <3>51 DEF Wrapped
    <3>10. package'[ProfilePath(p)].of = <<"profile">>
      <4>1. File(<<"profile">>).of = <<"profile">>
        BY DEF File
      <4>2. Packs(ProfilePath(p), File(<<"profile">>))
        BY <3>4 DEF Wrapped
      <4> QED
        BY <3>5, <3>51, <4>1, <4>2
    <3> QED
      BY <3>6, <3>7, <3>8, <3>9, <3>10
  <2> QED
    BY <2>4, <2>5, <2>8, <2>9 DEF ContentsInv
<1> QED
  BY <1>2, <1>3

-----------------------------------------------------------------------------
(* The theorems *)

LEMMA ContentsStutterInv == ContentsInv /\ UNCHANGED all => ContentsInv'
<1> SUFFICES ASSUME ContentsInv, UNCHANGED all PROVE ContentsInv'
  OBVIOUS
<1>1. UNCHANGED <<sys, settings, stage, tree, printed, twice, contents, unseen, package,
                  commands, installed, before>>
  BY DEF all, fixed, lists, history
<1>2. ContentsTypeOK' /\ PathsInv' /\ ScriptInv' /\ InstalledInv'
  BY <1>1 DEF ContentsInv, ContentsTypeOK, PathsInv, ScriptInv, InstalledInv
<1>3. Listed' = Listed /\ Programs' = Programs
  BY <1>1 DEF Listed, Programs, Walked, Children, Under
<1>4. \A p : (Wrapped(p)' <=> Wrapped(p)) /\ (Waiting(p)' <=> Waiting(p))
  BY <1>1 DEF Wrapped, Packs, Waiting
<1>5. \A p : Content(before, p)' = Content(before, p)
  BY <1>1 DEF Content
<1>6. GatheredInv' /\ UnjailedInv'
  BY <1>1, <1>3, <1>5 DEF ContentsInv, GatheredInv, UnjailedInv
<1>7. JailInv'
  BY <1>1, <1>3, <1>4, <1>5 DEF ContentsInv, JailInv
<1>8. PackageIsComplete' /\ ProgramsSurvive'
  <2>1. \A p : Kept(p)' <=> Kept(p)
    BY <1>1 DEF Kept, Altered
  <2>2. PackageIsComplete'
    BY <1>1, <2>1 DEF ContentsInv, PackageIsComplete, IsDir
  <2>3. ProgramsSurvive'
    BY <1>1 DEF ContentsInv, ProgramsSurvive
  <2> QED
    BY <2>2, <2>3
<1> QED
  BY <1>2, <1>6, <1>7, <1>8 DEF ContentsInv

LEMMA ContentsNextInv == ContentsInv /\ [ContentsNext]_all => ContentsInv'
<1> SUFFICES ASSUME ContentsInv, [ContentsNext]_all PROVE ContentsInv'
  OBVIOUS
<1>1. CASE \E c \in Installs : Install(c)
  BY <1>1, InstallInv
<1>2. CASE (\E m \in Makings : Make(m)) \/ (\E p \in DOMAIN tree : Delete(p))
  BY <1>2, MakeInv, DeleteInv
<1>3. CASE \E f \in Finds : ListFiles(f)
  BY <1>3, ListFilesInv
<1>4. CASE EndPackage \/ EndFiles \/ CollectContents
  BY <1>4, EndPackageInv, EndFilesInv, CollectContentsInv
<1>5. CASE \E c \in unseen : PassOver(c) \/ CreateFirejailedBinary(c)
  BY <1>5, PassOverInv, CreateFirejailedBinaryInv
<1>6. CASE JailDone \/ Pack
  BY <1>6, JailDoneInv, PackInv
<1>7. CASE UNCHANGED all
  BY <1>7, ContentsStutterInv
<1> QED
  BY <1>1, <1>2, <1>3, <1>4, <1>5, <1>6, <1>7 DEF ContentsNext

\* The invariant holds whatever a script installs, makes and lists.
THEOREM ContentsInvAlways == ContentsSpec => []ContentsInv
<1>1. ContentsInit => ContentsInv
  BY ContentsInitInv
<1>2. ContentsInv /\ [ContentsNext]_all => ContentsInv'
  BY ContentsNextInv
<1> QED
  BY <1>1, <1>2, PTL DEF ContentsSpec

\* The package directory is a tree at every step: nothing is below a file, and
\* nothing is put in the place of a directory.
THEOREM ContentsAreTyped == ContentsSpec => []ContentsTypeOK
<1>1. ContentsInv => ContentsTypeOK
  BY DEF ContentsInv
<1> QED
  BY <1>1, ContentsInvAlways, PTL

\* Whatever an install-* command has put in place and no other command has taken
\* away is listed by its counterpart (icons and the other exceptions apart).
THEOREM InstalledIsAlwaysFound == ContentsSpec => []InstalledIsFound
<1>1. ASSUME ContentsInv PROVE InstalledIsFound
  <2> SUFFICES ASSUME stage = "files", NEW i \in installed,
                      i.do # "icon",
                      ~(i.do = "library" /\ sys.libDir # Root),
                      ~(i.do = "completion" /\ Len(i.at) = 1)
               PROVE  i.at \in Find(tree, Counterpart(i)).files
    BY DEF InstalledIsFound
  <2>1. IsTree(tree) /\ DOMAIN tree \subseteq Paths /\ sys \in Systems
    BY <1>1 DEF ContentsInv, ContentsTypeOK, PathsInv
  <2>2. i.at \in DOMAIN tree /\ tree[i.at].kind # "dir"
    BY <1>1 DEF ContentsInv, InstalledInv
  <2>3. PICK c \in Installs : i.do = c.do /\ i.at \in Place(c, sys)
    BY <1>1 DEF ContentsInv, InstalledInv
  <2>4. PICK p : p = i.at
    OBVIOUS
  <2>5. CASE c.do \in DOMAIN InstallDirs
    BY <2>1, <2>2, <2>3, <2>4, <2>5, DirIsFound
  <2>6. CASE c.do = "library"
    BY <2>1, <2>2, <2>3, <2>4, <2>6, LibraryIsFound
  <2>7. CASE c.do = "manual"
    BY <2>1, <2>2, <2>3, <2>4, <2>7, ManualIsFound
  <2>8. CASE c.do = "completion"
    BY <2>1, <2>2, <2>3, <2>4, <2>8, CompletionIsFound
  <2> QED
    BY <2>5, <2>6, <2>7, <2>8, CommandsAssumption
<1> QED
  BY <1>1, ContentsInvAlways, PTL

\* A package holds all that was installed, or all that was listed, and nothing
\* else: files under their own names, links and directories too unless escaping
\* has put backslashes into them.
THEOREM PackageIsAlwaysComplete == ContentsSpec => []PackageIsComplete
<1>1. ContentsInv => PackageIsComplete
  BY DEF ContentsInv
<1> QED
  BY <1>1, ContentsInvAlways, PTL

\* Every program of a jailed package is packed behind a wrapper of its own.
THEOREM ProgramsAlwaysSurvive == ContentsSpec => []ProgramsSurvive
<1>1. ContentsInv => ProgramsSurvive
  BY DEF ContentsInv
<1> QED
  BY <1>1, ContentsInvAlways, PTL

=============================================================================
