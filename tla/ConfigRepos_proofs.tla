-------------------------- MODULE ConfigRepos_proofs --------------------------
(***************************************************************************)
(* Theorems about ConfigRepos: the types, that the configuration file is   *)
(* what the commands add up to, and that rows belong to a configured       *)
(* repository and its origin, for any number of processes, commands,       *)
(* repositories and options.                                               *)
(***************************************************************************)
EXTENDS ConfigRepos, SequenceTheorems, TLAPS

-----------------------------------------------------------------------------
(* Types *)

Entry     == [at : Origins, mirrors : SUBSET Urls]
RepoTable == UNION {[S -> Entry] : S \in SUBSET Names}
Config    == [state : {"absent", "broken", "whole"}, migrated : BOOLEAN,
              repos : RepoTable, option : Options]
Held      == [state : {"whole"}, migrated : BOOLEAN, repos : RepoTable, option : Options]
Process   == [cmd : Command, steps : Seq(Steps), cfg : Held, pulled : SUBSET Names,
              late : BOOLEAN]

ConfigTypeOK ==
    /\ file \in Config
    /\ copies \in [Names -> Origins \cup {NoOrigin}]
    /\ rows \in [Names -> SUBSET Origins]
    /\ schema \in {"none", "old", "current"}
    /\ proc \in [Procs -> Process]
    /\ wanted \in Config
    /\ behind \subseteq Names
    /\ torn \subseteq Names
    /\ commands \in 0..MaxCommands

\* What is in a table, and what makes one.
LEMMA Tables ==
    ASSUME NEW R \in RepoTable
    PROVE  /\ DOMAIN R \subseteq Names
           /\ R \in [DOMAIN R -> Entry]
           /\ \A n \in DOMAIN R : R[n].at \in Origins
  BY DEF RepoTable, Entry

LEMMA MakeTable ==
    ASSUME NEW S \in SUBSET Names, NEW R \in [S -> Entry]
    PROVE  R \in RepoTable
  BY DEF RepoTable

\* What every process begins and ends with.
LEMMA Constants ==
    /\ Default \in RepoTable
    /\ Empty \in Held /\ Empty \in Config
    /\ NoFile \in Config
    /\ Broken \in Config
    /\ Plain \in Command
    /\ Resting \in Process
  <1>1. [url |-> DefaultUrl, ref |-> DefaultRef] \in Origins
    BY ConfigAssumption DEF Origins
  <1>2. [at |-> [url |-> DefaultUrl, ref |-> DefaultRef], mirrors |-> {}] \in Entry
    BY <1>1 DEF Entry
  <1>3. Default \in [{DefaultName} -> Entry]
    BY <1>2 DEF Default
  <1>4. Default \in RepoTable
    BY <1>3, MakeTable, ConfigAssumption
  <1>5. Empty \in Held /\ Empty \in Config
    BY <1>4, ConfigAssumption DEF Empty, Held, Config
  <1>6. NoFile \in Config /\ Broken \in Config
    BY <1>5 DEF NoFile, Broken, Config
  <1>7. Plain \in Command
    BY ConfigAssumption DEF Plain, Command
  <1>8. Resting \in Process
    <2>1. <<>> \in Seq(Steps)
      OBVIOUS
    <2> QED
      BY <2>1, <1>5, <1>7 DEF Resting, Process
  <1> QED
    BY <1>4, <1>5, <1>6, <1>7, <1>8

\* A command changes a table into a table.
LEMMA EditedTable ==
    ASSUME NEW R \in RepoTable, NEW c \in Command
    PROVE  Edited(R, c) \in RepoTable
  <1> DEFINE n == c.name
  <1>1. /\ DOMAIN R \subseteq Names /\ R \in [DOMAIN R -> Entry]
        /\ n \in Names /\ c.url \in Urls /\ c.ref \in Refs
    BY Tables DEF Command
  <1>2. [url |-> c.url, ref |-> c.ref] \in Origins
    BY <1>1 DEF Origins
  <1>3. [at |-> [url |-> c.url, ref |-> c.ref], mirrors |-> {}] \in Entry
    BY <1>2 DEF Entry
  <1>4. [m \in DOMAIN R \cup {n} |->
           IF m = n THEN [at |-> [url |-> c.url, ref |-> c.ref], mirrors |-> {}] ELSE R[m]]
          \in RepoTable
    <2>1. [m \in DOMAIN R \cup {n} |->
             IF m = n THEN [at |-> [url |-> c.url, ref |-> c.ref], mirrors |-> {}] ELSE R[m]]
            \in [DOMAIN R \cup {n} -> Entry]
      BY <1>1, <1>3
    <2> QED
      BY <2>1, <1>1, MakeTable
  <1>5. Restrict(R, DOMAIN R \ {n}) \in RepoTable
    <2>1. Restrict(R, DOMAIN R \ {n}) \in [DOMAIN R \ {n} -> Entry]
      BY <1>1 DEF Restrict
    <2> QED
      BY <2>1, <1>1, MakeTable
  <1>6. ASSUME n \in DOMAIN R, NEW e \in Entry
        PROVE  [R EXCEPT ![n] = e] \in RepoTable
    <2>1. [R EXCEPT ![n] = e] \in [DOMAIN R -> Entry]
      BY <1>1
    <2> QED
      BY <2>1, <1>1, MakeTable
  <1>7. ASSUME n \in DOMAIN R
        PROVE  /\ [R EXCEPT ![n].at.url = c.url] \in RepoTable
               /\ [R EXCEPT ![n].at.ref = c.ref] \in RepoTable
               /\ [R EXCEPT ![n].mirrors = @ \cup {c.url}] \in RepoTable
               /\ [R EXCEPT ![n].mirrors = @ \ {c.url}] \in RepoTable
               /\ [R EXCEPT ![n].mirrors = {}] \in RepoTable
    <2>1. R[n] \in Entry /\ R[n].at \in Origins
      BY <1>1, <1>7 DEF Entry
    <2>2. /\ [R[n].at EXCEPT !.url = c.url] \in Origins
          /\ [R[n].at EXCEPT !.ref = c.ref] \in Origins
      BY <2>1, <1>1 DEF Origins
    <2>3. /\ [R[n] EXCEPT !.at.url = c.url] \in Entry
          /\ [R[n] EXCEPT !.at.ref = c.ref] \in Entry
      BY <2>1, <2>2 DEF Entry
    <2>4. /\ [R[n] EXCEPT !.mirrors = @ \cup {c.url}] \in Entry
          /\ [R[n] EXCEPT !.mirrors = @ \ {c.url}] \in Entry
          /\ [R[n] EXCEPT !.mirrors = {}] \in Entry
      BY <2>1, <1>1 DEF Entry
    <2> QED
      BY <2>3, <2>4, <1>6, <1>7
  <1> QED
    BY <1>4, <1>5, <1>7 DEF Edited

-----------------------------------------------------------------------------
(* The steps of a command *)

\* What a process has yet to do writes the file only after it was truncated,
\* and truncates it only to write it.
Follows(s) ==
    \A i \in 1..Len(s) :
        /\ s[i] = "truncate" => i + 1 \in 1..Len(s) /\ s[i + 1] = "write"
        /\ s[i] = "create" => i + 1 \in 1..Len(s) /\ s[i + 1] = "migrate"
        /\ s[i] = "write" /\ i # 1 => s[i - 1] = "truncate"
        /\ s[i] = "migrate" /\ i # 1 => s[i - 1] = "create"

\* It does not begin in the middle of a save.
Whole(s) == Follows(s) /\ (s # <<>> => Head(s) \notin {"write", "migrate"})

\* After its first step, which brings it into the middle of a save only when
\* it empties the file.
LEMMA TailFollows ==
    ASSUME NEW s \in Seq(Steps), s # <<>>, Follows(s)
    PROVE  /\ Tail(s) \in Seq(Steps)
           /\ Follows(Tail(s))
           /\ Head(s) \notin {"truncate", "create"} => Whole(Tail(s))
           /\ Head(s) = "truncate" => Tail(s) # <<>> /\ Head(Tail(s)) = "write"
           /\ Head(s) = "create" => Tail(s) # <<>> /\ Head(Tail(s)) = "migrate"
  <1> DEFINE t == Tail(s)
  <1>1. /\ t \in Seq(Steps) /\ Len(t) = Len(s) - 1 /\ Len(s) \in Nat /\ Len(s) > 0
        /\ \A i \in 1..Len(t) : t[i] = s[i + 1]
        /\ Head(s) = s[1]
        /\ t # <<>> => Len(t) > 0 /\ Head(t) = t[1]
        /\ Len(t) > 0 => t # <<>>
    <2>1. t \in Seq(Steps) /\ Len(t) = Len(s) - 1 /\ Len(s) \in Nat /\ Len(s) > 0
      OBVIOUS
    <2>2. \A i \in 1..Len(t) : t[i] = s[i + 1]
      BY <2>1
    <2>3. Head(s) = s[1]
      OBVIOUS
    <2> HIDE DEF t
    <2>4. (t # <<>> => Len(t) > 0 /\ Head(t) = t[1]) /\ (Len(t) > 0 => t # <<>>)
      BY <2>1
    <2> QED
      BY <2>1, <2>2, <2>3, <2>4
  <1>2. Follows(t)
    BY <1>1 DEF Follows
  <1>3. Head(s) \notin {"truncate", "create"} => Whole(t)
    <2> SUFFICES ASSUME s[1] \notin {"truncate", "create"}, t # <<>>
                 PROVE  t[1] \notin {"write", "migrate"}
      BY <1>1, <1>2 DEF Whole
    <2>1. t[1] = s[2] /\ 2 \in 1..Len(s)
      BY <1>1
    <2> QED
      BY <2>1 DEF Follows
  <1>4. s[1] = "truncate" => 2 \in 1..Len(s) /\ s[2] = "write"
    BY <1>1 DEF Follows
  <1>5. s[1] = "create" => 2 \in 1..Len(s) /\ s[2] = "migrate"
    BY <1>1 DEF Follows
  <1> QED
    BY <1>1, <1>2, <1>3, <1>4, <1>5

\* One after the other.
LEMMA JoinFollows ==
    ASSUME NEW s \in Seq(Steps), NEW t \in Seq(Steps), Whole(s), Whole(t)
    PROVE  s \o t \in Seq(Steps) /\ Whole(s \o t)
  <1> DEFINE u == s \o t
  <1>1. /\ u \in Seq(Steps) /\ Len(u) = Len(s) + Len(t) /\ Len(s) \in Nat /\ Len(t) \in Nat
        /\ \A i \in 1..Len(s) : u[i] = s[i]
        /\ \A i \in (Len(s) + 1)..(Len(s) + Len(t)) : u[i] = t[i - Len(s)]
    OBVIOUS
  <1>2. t # <<>> => Len(t) > 0 /\ t[1] \notin {"write", "migrate"}
    BY DEF Whole
  <1>3. s # <<>> => Len(s) > 0 /\ s[1] \notin {"write", "migrate"}
    BY DEF Whole
  <1>4. ASSUME NEW i \in 1..Len(s)
        PROVE  /\ u[i] = "truncate" => i + 1 \in 1..Len(u) /\ u[i + 1] = "write"
               /\ u[i] = "create" => i + 1 \in 1..Len(u) /\ u[i + 1] = "migrate"
               /\ u[i] = "write" /\ i # 1 => u[i - 1] = "truncate"
               /\ u[i] = "migrate" /\ i # 1 => u[i - 1] = "create"
    BY <1>1 DEF Whole, Follows
  <1>5. ASSUME NEW i \in (Len(s) + 1)..(Len(s) + Len(t))
        PROVE  /\ u[i] = "truncate" => i + 1 \in 1..Len(u) /\ u[i + 1] = "write"
               /\ u[i] = "create" => i + 1 \in 1..Len(u) /\ u[i + 1] = "migrate"
               /\ u[i] = "write" /\ i # 1 => u[i - 1] = "truncate"
               /\ u[i] = "migrate" /\ i # 1 => u[i - 1] = "create"
    <2> DEFINE j == i - Len(s)
    <2>1. j \in 1..Len(t) /\ u[i] = t[j] /\ t # <<>>
      BY <1>1
    <2>2. /\ t[j] = "truncate" => j + 1 \in 1..Len(t) /\ t[j + 1] = "write"
          /\ t[j] = "create" => j + 1 \in 1..Len(t) /\ t[j + 1] = "migrate"
          /\ t[j] = "write" /\ j # 1 => t[j - 1] = "truncate"
          /\ t[j] = "migrate" /\ j # 1 => t[j - 1] = "create"
      BY <2>1 DEF Whole, Follows
    <2>3. j + 1 \in 1..Len(t) => i + 1 \in 1..Len(u) /\ u[i + 1] = t[j + 1]
      BY <1>1, <2>1
    <2>4. j # 1 => u[i - 1] = t[j - 1]
      BY <1>1, <2>1
    <2>5. j = 1 => t[j] \notin {"write", "migrate"}
      BY <1>2, <2>1
    <2> QED
      BY <2>1, <2>2, <2>3, <2>4, <2>5
  <1>6. Follows(u)
    <2>1. \A i \in 1..Len(u) : i \in 1..Len(s) \/ i \in (Len(s) + 1)..(Len(s) + Len(t))
      BY <1>1
    <2> HIDE DEF u
    <2> QED
      BY <2>1, <1>4, <1>5 DEF Follows
  <1>7. u # <<>> => Head(u) \notin {"write", "migrate"}
    <2>1. CASE s = <<>>
      <3>1. u = t
        BY <2>1
      <3> QED
        BY <3>1 DEF Whole
    <2>2. CASE s # <<>>
      <3>1. Head(u) = s[1]
        BY <1>1, <1>3, <2>2
      <3> QED
        BY <3>1, <1>3, <2>2
    <2> QED
      BY <2>1, <2>2
  <1> QED
    BY <1>1, <1>6, <1>7 DEF Whole

\* The pieces commands are made of.
LEMMA Pieces ==
    /\ <<>> \in Seq(Steps) /\ Whole(<<>>)
    /\ \A a \in Steps \ {"truncate", "create", "write", "migrate"} :
          <<a>> \in Seq(Steps) /\ Whole(<<a>>)
    /\ Save \in Seq(Steps) /\ Whole(Save)
    /\ <<"create", "migrate">> \in Seq(Steps) /\ Whole(<<"create", "migrate">>)
    /\ Open \in Seq(Steps) /\ Whole(Open)
    /\ <<"wipecopies", "wiperows">> \in Seq(Steps) /\ Whole(<<"wipecopies", "wiperows">>)
    /\ <<"wiperows", "wipecopies">> \in Seq(Steps) /\ Whole(<<"wiperows", "wipecopies">>)
  <1>1. <<>> \in Seq(Steps) /\ Whole(<<>>)
    BY DEF Whole, Follows
  <1>2. ASSUME NEW a \in Steps \ {"truncate", "create", "write", "migrate"}
        PROVE  <<a>> \in Seq(Steps) /\ Whole(<<a>>)
    BY DEF Whole, Follows
  <1>3. ASSUME NEW a \in Steps, NEW b \in Steps,
               \/ a = "truncate" /\ b = "write"
               \/ a = "create" /\ b = "migrate"
               \/ /\ a \notin {"truncate", "create", "write", "migrate"}
                  /\ b \notin {"truncate", "create", "write", "migrate"}
        PROVE  <<a, b>> \in Seq(Steps) /\ Whole(<<a, b>>)
    <2>1. <<a, b>> \in Seq(Steps) /\ Len(<<a, b>>) = 2 /\ Head(<<a, b>>) = a
      OBVIOUS
    <2>2. \A i \in 1..2 : i = 1 \/ i = 2
      OBVIOUS
    <2>3. <<a, b>>[1] = a /\ <<a, b>>[2] = b
      OBVIOUS
    <2> DEFINE s == <<a, b>>
    <2>4. 2 \in 1..Len(s) /\ Len(s) = 2 /\ s[1] = a /\ s[2] = b /\ Head(s) = a
      BY <2>1, <2>3
    <2> HIDE DEF s
    <2>5. ASSUME NEW i \in 1..Len(s)
          PROVE  /\ s[i] = "truncate" => i + 1 \in 1..Len(s) /\ s[i + 1] = "write"
                 /\ s[i] = "create" => i + 1 \in 1..Len(s) /\ s[i + 1] = "migrate"
                 /\ s[i] = "write" /\ i # 1 => s[i - 1] = "truncate"
                 /\ s[i] = "migrate" /\ i # 1 => s[i - 1] = "create"
      <3>0. /\ a = "truncate" <=> b = "write"
            /\ a = "create" <=> b = "migrate"
            /\ a \notin {"write", "migrate"} /\ b \notin {"truncate", "create"}
        BY <1>3
      <3>1. CASE i = 1
        BY <3>0, <3>1, <2>4
      <3>2. CASE i = 2
        <4>1. s[i] = b /\ i - 1 = 1
          BY <3>2, <2>4
        <4> QED
          BY <3>0, <4>1, <2>4
      <3> QED
        BY <3>1, <3>2, <2>2, <2>4
    <2>6. Whole(s)
      BY <2>5, <2>4, <1>3 DEF Whole, Follows
    <2> QED
      BY <2>1, <2>6 DEF s
  <1> QED
    BY <1>1, <1>2, <1>3 DEF Save, Open, Steps

\* What a command is about to do when it has its configuration.
LEMMA ProgramsWhole ==
    ASSUME NEW c \in Command, NEW s \in Programs(c)
    PROVE  s \in Seq(Steps) /\ Whole(s)
  <1> DEFINE Good(x) == x \in Seq(Steps) /\ Whole(x)
  <1>1. \A x, y : Good(x) /\ Good(y) => Good(x \o y)
    BY JoinFollows
  <1>2. /\ Good(<<>>) /\ Good(Save) /\ Good(Open)
        /\ Good(<<"clone">>) /\ Good(<<"rmdir">>) /\ Good(<<"delete">>) /\ Good(<<"pull">>)
        /\ Good(<<"reload">>)
        /\ Good(<<"wipecopies", "wiperows">>) /\ Good(<<"wiperows", "wipecopies">>)
    BY Pieces DEF Steps
  <1> HIDE DEF Good
  <1>3. Good(ShowCmd) /\ Good(SetConfigCmd)
    BY <1>2 DEF ShowCmd, SetConfigCmd
  <1>4. Good(AddRepoCmd)
    BY <1>1, <1>2 DEF AddRepoCmd
  <1>5. Good(RemoveRepoCmd)
    BY <1>1, <1>2 DEF RemoveRepoCmd
  <1>6. Good(SetUrlCmd) /\ Good(SetRepoRefCmd)
    BY <1>1, <1>2 DEF SetUrlCmd, SetRepoRefCmd
  <1>7. Good(AddMirrorCmd) /\ Good(RemoveMirrorCmd) /\ Good(ClearMirrorsCmd)
    BY <1>1, <1>2 DEF AddMirrorCmd, RemoveMirrorCmd, ClearMirrorsCmd
  <1>8. Good(RefreshCmd)
    BY <1>1, <1>2 DEF RefreshCmd
  <1>9. \A w : Good(w) => Good(FixCmd(w))
    BY <1>1, <1>2 DEF FixCmd
  <1>10. c.do \in {"show", "set", "add", "remove", "seturl", "setref", "addmirror",
                   "removemirror", "clearmirrors", "refresh", "fix"}
    BY DEF Command
  <1>11. Good(s)
    BY <1>2, <1>3, <1>4, <1>5, <1>6, <1>7, <1>8, <1>9, <1>10 DEF Programs
  <1> QED
    BY <1>11 DEF Good

\* What a process becomes, whatever it does to its steps.
LEMMA BecomesProcess ==
    ASSUME ConfigTypeOK, NEW p \in Procs, NEW r \in Process, Becomes(p, r)
    PROVE  /\ proc' \in [Procs -> Process]
           /\ \A q \in Procs \ {p} : proc'[q] = proc[q]
           /\ proc'[p] = IF r.steps = <<>> THEN Resting ELSE r
  BY Constants DEF ConfigTypeOK, Becomes

\* A process that is not idle has a first step and a rest.
LEMMA Rest ==
    ASSUME ConfigTypeOK, NEW p \in Procs, ~Idle(p)
    PROVE  /\ proc[p] \in Process
           /\ proc[p].steps \in Seq(Steps)
           /\ Tail(proc[p].steps) \in Seq(Steps)
           /\ [proc[p] EXCEPT !.steps = Tail(@)] \in Process
  <1>1. proc[p] \in Process /\ proc[p].steps \in Seq(Steps) /\ proc[p].steps # <<>>
    BY DEF ConfigTypeOK, Process, Idle
  <1>2. Tail(proc[p].steps) \in Seq(Steps)
    BY <1>1
  <1>3. [proc[p] EXCEPT !.steps = Tail(@)] \in Process
    BY <1>1, <1>2 DEF Process
  <1> QED
    BY <1>1, <1>2, <1>3

-----------------------------------------------------------------------------
(* The types are invariant *)

LEMMA TypesInit == Init => ConfigTypeOK
  <1> SUFFICES ASSUME Init PROVE ConfigTypeOK
    OBVIOUS
  <1>1. file \in Config /\ proc \in [Procs -> Process] /\ wanted \in Config
    BY Constants DEF Init
  <1>2. DefaultName \in Names /\ Default[DefaultName].at \in Origins
    BY Constants, Tables, ConfigAssumption DEF Default, Origins
  <1>3. PICK old \in BOOLEAN :
          /\ schema = IF old THEN "old" ELSE "none"
          /\ copies = [n \in Names |-> IF old /\ n = DefaultName THEN Default[n].at
                                       ELSE NoOrigin]
          /\ rows = [n \in Names |-> IF old /\ n = DefaultName THEN {Default[n].at} ELSE {}]
    BY DEF Init
  <1>4. copies \in [Names -> Origins \cup {NoOrigin}] /\ rows \in [Names -> SUBSET Origins]
    BY <1>2, <1>3
  <1> QED
    BY <1>1, <1>3, <1>4, ConfigAssumption DEF Init, ConfigTypeOK

LEMMA TypesStart ==
    ASSUME ConfigTypeOK, NEW p \in Procs, NEW c \in Commands, Start(p, c)
    PROVE  ConfigTypeOK'
  <1>1. c \in Command
    BY DEF Commands
  <1>2. <<"load">> \in Seq(Steps)
    BY DEF Steps
  <1>3. [Resting EXCEPT !.cmd = c, !.steps = <<"load">>] \in Process
    BY <1>1, <1>2, Constants DEF Process
  <1>4. proc' \in [Procs -> Process]
    BY <1>3, BecomesProcess DEF Start
  <1> QED
    BY <1>4, ConfigAssumption DEF Start, ConfigTypeOK, dataVars, histVars

\* What a process may have read.
LEMMA LoadedHeld ==
    ASSUME NEW f \in Config, f.state # "broken"
    PROVE  Loaded(f) \in Held /\ Migrated(f) \in Held
  BY Constants DEF Loaded, Migrated, Config, Held

\* Load either ends the process or gives it a copy and the steps to take.
LEMMA LoadSteps ==
    ASSUME ConfigTypeOK, NEW p \in Procs, Load(p)
    PROVE  /\ ~Idle(p)
           /\ UNCHANGED <<file, dataVars, histVars, commands>>
           /\ \/ Ends(p)
              \/ /\ file.state # "broken"
                 /\ \E f \in {Loaded(file), Migrated(file)}, t \in Seq(Steps) :
                       LET r == [proc[p] EXCEPT !.cfg = f, !.steps = t,
                                                !.late = \E q \in Procs : Saving(q)]
                       IN  /\ (Follows(proc[p].steps) => Whole(t))
                           /\ r \in Process
                           /\ Becomes(p, r)
  <1>1. ~Idle(p) /\ (At(p, "load") \/ At(p, "reload"))
    BY DEF Load, At
  <1>2. UNCHANGED <<file, dataVars, histVars, commands>>
    BY DEF Load
  <1>3. CASE file.state = "broken"
    BY <1>1, <1>2, <1>3 DEF Load
  <1>4. CASE file.state # "broken"
    <2>1. PICK f \in {Loaded(file), Migrated(file)}, s \in Programs(proc[p].cmd) :
            LET migration == IF f = Loaded(file) THEN <<>> ELSE <<"create", "migrate">>
                rest == IF At(p, "reload") THEN Tail(proc[p].steps)
                        ELSE IF Refuses(f.repos, proc[p].cmd) THEN Refused(proc[p].cmd)
                        ELSE s
            IN Becomes(p, [proc[p] EXCEPT !.cfg = f, !.steps = migration \o rest,
                                          !.late = \E q \in Procs : Saving(q)])
      BY <1>4 DEF Load
    <2> DEFINE migration == IF f = Loaded(file) THEN <<>> ELSE <<"create", "migrate">>
               rest == IF At(p, "reload") THEN Tail(proc[p].steps)
                       ELSE IF Refuses(f.repos, proc[p].cmd) THEN Refused(proc[p].cmd)
                       ELSE s
               t == migration \o rest
               r == [proc[p] EXCEPT !.cfg = f, !.steps = t,
                                    !.late = \E q \in Procs : Saving(q)]
    <2>2. proc[p] \in Process /\ proc[p].cmd \in Command
      BY DEF ConfigTypeOK, Process
    <2>3. migration \in Seq(Steps) /\ Whole(migration)
      BY Pieces
    <2>4. Refused(proc[p].cmd) \in Seq(Steps) /\ Whole(Refused(proc[p].cmd))
      BY Pieces DEF Refused
    <2>5. s \in Seq(Steps) /\ Whole(s)
      BY <2>2, ProgramsWhole
    <2>6. Tail(proc[p].steps) \in Seq(Steps)
      BY <1>1, Rest
    <2>7. Follows(proc[p].steps) /\ At(p, "reload") => Whole(Tail(proc[p].steps))
      BY <1>1, Rest, TailFollows DEF At, Idle
    <2>8. rest \in Seq(Steps) /\ (Follows(proc[p].steps) => Whole(rest))
      BY <2>4, <2>5, <2>6, <2>7
    <2> HIDE DEF migration, rest
    <2>9. t \in Seq(Steps) /\ (Follows(proc[p].steps) => Whole(t))
      BY <2>3, <2>8, JoinFollows
    <2> HIDE DEF t
    <2>10. f \in Held
      BY <1>4, LoadedHeld DEF ConfigTypeOK
    <2>11. r \in Process
      BY <2>2, <2>9, <2>10 DEF Process
    <2>12. Becomes(p, r)
      BY <2>1 DEF t, migration, rest
    <2> QED
      BY <1>1, <1>2, <1>4, <2>9, <2>11, <2>12
  <1> QED
    BY <1>3, <1>4

LEMMA TypesLoad ==
    ASSUME ConfigTypeOK, NEW p \in Procs, Load(p)
    PROVE  ConfigTypeOK'
  <1>1. proc' \in [Procs -> Process]
    <2>1. CASE Ends(p)
      BY <2>1, BecomesProcess, Constants DEF Ends
    <2>2. CASE \E r \in Process : Becomes(p, r)
      BY <2>2, BecomesProcess
    <2> QED
      BY <2>1, <2>2, LoadSteps
  <1> QED
    BY <1>1, LoadSteps DEF ConfigTypeOK, dataVars, histVars

\* A copy after the command's change.
LEMMA EditHeld ==
    ASSUME NEW f \in Held, NEW c \in Command
    PROVE  Edit(f, c) \in Held
  <1>1. Edited(f.repos, c) \in RepoTable /\ c.option \in Options
    BY EditedTable DEF Held, Command
  <1> QED
    BY <1>1 DEF Edit, Held

LEMMA TypesTruncate ==
    ASSUME ConfigTypeOK, NEW p \in Procs, Truncate(p)
    PROVE  ConfigTypeOK'
  <1>1. file' = Empty /\ UNCHANGED <<dataVars, histVars, commands>> /\ ~Idle(p)
    BY DEF Truncate, At
  <1>2. proc' = [q \in Procs |->
          IF q = p
          THEN [proc[p] EXCEPT !.steps = Tail(@),
                               !.cfg = IF At(p, "create") THEN @ ELSE Edit(@, proc[p].cmd)]
          ELSE [proc[q] EXCEPT !.late = @ \/ Holds(q)]]
    BY DEF Truncate
  <1>3. [proc[p] EXCEPT !.steps = Tail(@),
                        !.cfg = IF At(p, "create") THEN @ ELSE Edit(@, proc[p].cmd)] \in Process
    <2>1. proc[p] \in Process /\ proc[p].cfg \in Held /\ proc[p].cmd \in Command
      BY DEF ConfigTypeOK, Process
    <2>2. Edit(proc[p].cfg, proc[p].cmd) \in Held
      BY <2>1, EditHeld
    <2> QED
      BY <1>1, <2>1, <2>2, Rest DEF Process
  <1>4. ASSUME NEW q \in Procs
        PROVE  [proc[q] EXCEPT !.late = @ \/ Holds(q)] \in Process
    BY DEF ConfigTypeOK, Process
  <1>5. proc' \in [Procs -> Process]
    BY <1>2, <1>3, <1>4
  <1> QED
    BY <1>1, <1>5, Constants DEF ConfigTypeOK, dataVars, histVars

\* What the commands add up to.
LEMMA AskedConfig ==
    ASSUME ConfigTypeOK, NEW p \in Procs
    PROVE  Asked(p) \in Config
  <1>1. wanted \in Config /\ proc[p].cmd \in Command
    BY DEF ConfigTypeOK, Process
  <1>2. Edited(wanted.repos, proc[p].cmd) \in RepoTable /\ proc[p].cmd.option \in Options
    BY <1>1, EditedTable DEF Config, Command
  <1> QED
    BY <1>1, <1>2 DEF Asked, Config

LEMMA TypesGo ==
    ASSUME ConfigTypeOK, NEW p \in Procs, ~Idle(p), Go(p)
    PROVE  proc' \in [Procs -> Process]
  BY Rest, BecomesProcess DEF Go

LEMMA TypesWrite ==
    ASSUME ConfigTypeOK, NEW p \in Procs, Write(p)
    PROVE  ConfigTypeOK'
  <1>1. ~Idle(p) /\ Go(p)
    BY DEF Write, Saving, At
  <1>2. proc' \in [Procs -> Process]
    BY <1>1, TypesGo
  <1>3. /\ file' = proc[p].cfg
        /\ wanted' = IF proc[p].late THEN proc[p].cfg ELSE Asked(p)
        /\ UNCHANGED <<dataVars, commands>>
    BY DEF Write
  <1>4. proc[p].cfg \in Config
    BY DEF ConfigTypeOK, Process, Held, Config
  <1>5. torn' \subseteq Names /\ behind' \subseteq Names
    BY DEF ConfigTypeOK, Write, Differ
  <1> QED
    BY <1>2, <1>3, <1>4, <1>5, AskedConfig DEF ConfigTypeOK, dataVars

LEMMA TypesDatabase ==
    ASSUME ConfigTypeOK, NEW p \in Procs,
           OpenDatabase(p) \/ Reset(p) \/ AddVersion(p) \/ DeleteRows(p)
    PROVE  ConfigTypeOK'
  <1>1. ~Idle(p)
    BY DEF OpenDatabase, Reset, AddVersion, DeleteRows, At
  <1>2. proc[p] \in Process /\ proc[p].steps \in Seq(Steps) /\ proc[p].cmd.name \in Names
    BY DEF ConfigTypeOK, Process, Command
  <1>3. CASE OpenDatabase(p)
    <2>1. CASE schema = "old"
      <3>1. <<"reset">> \o proc[p].steps \in Seq(Steps)
        BY <1>2 DEF Steps
      <3>2. [proc[p] EXCEPT !.steps = <<"reset">> \o @] \in Process
        BY <3>1, <1>2 DEF Process
      <3>3. proc' \in [Procs -> Process]
        BY <3>2, <1>3, <2>1, BecomesProcess DEF OpenDatabase
      <3> QED
        BY <3>3, <1>3 DEF OpenDatabase, ConfigTypeOK, dataVars, histVars
    <2>2. CASE schema # "old"
      <3>1. proc' \in [Procs -> Process]
        BY <1>1, <1>3, <2>2, TypesGo DEF OpenDatabase
      <3> QED
        BY <3>1, <1>3 DEF OpenDatabase, ConfigTypeOK, dataVars, histVars
    <2> QED
      BY <2>1, <2>2
  <1>4. CASE Reset(p)
    BY <1>1, <1>4, TypesGo DEF Reset, ConfigTypeOK, histVars
  <1>5. CASE AddVersion(p)
    BY <1>1, <1>5, TypesGo DEF AddVersion, ConfigTypeOK, histVars
  <1>6. CASE DeleteRows(p)
    BY <1>1, <1>2, <1>6, TypesGo DEF DeleteRows, ConfigTypeOK
  <1> QED
    BY <1>3, <1>4, <1>5, <1>6

\* A pull leaves rows of known origins, whether it ends well or not.
LEMMA PulledTypes ==
    ASSUME ConfigTypeOK, NEW p \in Procs, NEW n \in Names, NEW o \in Origins,
           PullOk(p, n, o) \/ PullTears(p, n, o)
    PROVE  /\ copies' \in [Names -> Origins \cup {NoOrigin}]
           /\ rows' \in [Names -> SUBSET Origins]
           /\ behind' \subseteq Names /\ torn' \subseteq Names
  BY DEF ConfigTypeOK, PullOk, PullTears, PulledRows

LEMMA TypesCopies ==
    ASSUME ConfigTypeOK, NEW p \in Procs,
           \/ Pull(p) \/ PullsDone(p) \/ Clone(p) \/ RemoveCopy(p)
           \/ WipeCopies(p) \/ WipeRows(p)
    PROVE  ConfigTypeOK'
  <1>1. ~Idle(p)
    BY DEF Pull, PullsDone, Clone, RemoveCopy, WipeCopies, WipeRows, At
  <1>2. /\ proc[p] \in Process /\ proc[p].cmd \in Command /\ proc[p].cmd.name \in Names
        /\ proc[p].cmd.url \in Urls /\ proc[p].cmd.ref \in Refs
        /\ proc[p].cfg.repos \in RepoTable /\ proc[p].pulled \subseteq Names
    BY DEF ConfigTypeOK, Process, Command, Held
  <1>3. CASE Pull(p)
    <2>1. PICK n \in DOMAIN proc[p].cfg.repos \ proc[p].pulled :
            \/ /\ PullOk(p, n, proc[p].cfg.repos[n].at)
               /\ Becomes(p, [proc[p] EXCEPT !.pulled = @ \cup {n}])
            \/ /\ PullTears(p, n, proc[p].cfg.repos[n].at)
               /\ Ends(p)
      BY <1>3 DEF Pull
    <2>2. n \in Names /\ proc[p].cfg.repos[n].at \in Origins
      BY <1>2, Tables
    <2>3. [proc[p] EXCEPT !.pulled = @ \cup {n}] \in Process
      BY <1>2, <2>2 DEF Process
    <2>4. proc' \in [Procs -> Process]
      BY <2>1, <2>3, BecomesProcess, Constants DEF Ends
    <2>5. /\ copies' \in [Names -> Origins \cup {NoOrigin}]
          /\ rows' \in [Names -> SUBSET Origins]
          /\ behind' \subseteq Names /\ torn' \subseteq Names
      BY <2>1, <2>2, PulledTypes
    <2> QED
      BY <1>3, <2>4, <2>5 DEF Pull, ConfigTypeOK
  <1>4. CASE PullsDone(p)
    BY <1>1, <1>4, TypesGo DEF PullsDone, ConfigTypeOK, dataVars, histVars
  <1>5. CASE Clone(p)
    <2> DEFINE o == [url |-> proc[p].cmd.url, ref |-> proc[p].cmd.ref]
               n == proc[p].cmd.name
    <2>1. o \in Origins
      BY <1>2 DEF Origins
    <2>2. \/ /\ PullOk(p, n, o)
             /\ \E t \in Origins :
                   Becomes(p, [proc[p] EXCEPT !.steps = Tail(@), !.cmd.url = t.url,
                                              !.cmd.ref = t.ref])
          \/ PullTears(p, n, o) /\ Ends(p)
      BY <1>5 DEF Clone
    <2>3. ASSUME NEW t \in Origins
          PROVE  [proc[p] EXCEPT !.steps = Tail(@), !.cmd.url = t.url, !.cmd.ref = t.ref]
                   \in Process
      <3>1. t.url \in Urls /\ t.ref \in Refs
        BY DEF Origins
      <3>2. [proc[p].cmd EXCEPT !.url = t.url, !.ref = t.ref] \in Command
        BY <1>2, <3>1 DEF Command
      <3> QED
        BY <1>1, <1>2, <3>2, Rest DEF Process
    <2>4. proc' \in [Procs -> Process]
      BY <2>2, <2>3, BecomesProcess, Constants DEF Ends
    <2>5. /\ copies' \in [Names -> Origins \cup {NoOrigin}]
          /\ rows' \in [Names -> SUBSET Origins]
          /\ behind' \subseteq Names /\ torn' \subseteq Names
      BY <1>2, <2>1, <2>2, PulledTypes
    <2> QED
      BY <1>5, <2>4, <2>5 DEF Clone, ConfigTypeOK
  <1>6. CASE RemoveCopy(p)
    BY <1>1, <1>2, <1>6, TypesGo DEF RemoveCopy, ConfigTypeOK
  <1>7. CASE WipeCopies(p)
    BY <1>1, <1>7, TypesGo DEF WipeCopies, ConfigTypeOK
  <1>8. CASE WipeRows(p)
    BY <1>1, <1>8, TypesGo DEF WipeRows, WipedRows, ConfigTypeOK
  <1> QED
    BY <1>3, <1>4, <1>5, <1>6, <1>7, <1>8

LEMMA TypesAbort ==
    ASSUME ConfigTypeOK, NEW p \in Procs, Abort(p)
    PROVE  ConfigTypeOK'
  <1>1. proc' \in [Procs -> Process]
    BY BecomesProcess, Constants DEF Abort, Ends
  <1>2. file' \in Config /\ wanted' \in Config
    BY Constants DEF Abort, ConfigTypeOK
  <1>3. proc[p].cmd.name \in Names
    BY DEF ConfigTypeOK, Process, Command
  <1>4. torn' \subseteq Names
    BY <1>3 DEF Abort, ConfigTypeOK, Differ
  <1> QED
    BY <1>1, <1>2, <1>4 DEF Abort, ConfigTypeOK, dataVars

LEMMA TypesNext == ConfigTypeOK /\ [Next]_vars => ConfigTypeOK'
  <1> SUFFICES ASSUME ConfigTypeOK, [Next]_vars PROVE ConfigTypeOK'
    OBVIOUS
  <1>1. CASE \E p \in Procs, c \in Commands : Start(p, c)
    BY <1>1, TypesStart
  <1>2. CASE \E p \in Procs : Step(p)
    BY <1>2, TypesLoad, TypesTruncate, TypesWrite, TypesDatabase, TypesCopies DEF Step
  <1>3. CASE \E p \in Procs : Abort(p)
    BY <1>3, TypesAbort
  <1>4. CASE UNCHANGED vars
    BY <1>4 DEF vars, dataVars, histVars, ConfigTypeOK
  <1> QED
    BY <1>1, <1>2, <1>3, <1>4 DEF Next

LEMMA TypesAlways == Spec => []ConfigTypeOK
  BY TypesInit, TypesNext, PTL DEF Spec

\* The types of the specification: the files are whole records, repositories
\* have known names, and what a process has yet to do is a list of its steps.
THEOREM ConfigsAreTyped == Spec => []TypeOK
  <1>1. ConfigTypeOK => TypeOK
    <2> SUFFICES ASSUME ConfigTypeOK PROVE TypeOK
      OBVIOUS
    <2>1. ASSUME NEW f \in Config
          PROVE  IsConfig(f) /\ f.state \in {"absent", "broken", "whole"}
      <3>1. f.repos \in RepoTable
        BY DEF Config
      <3> QED
        BY <3>1, Tables DEF Config, IsConfig, Entry
    <2>2. ASSUME NEW p \in Procs
          PROVE  /\ DOMAIN proc[p] = DOMAIN Resting
                 /\ proc[p].cmd \in Command
                 /\ proc[p].steps \in Seq(Steps)
                 /\ IsConfig(proc[p].cfg) /\ proc[p].cfg.state = "whole"
                 /\ proc[p].pulled \subseteq Names
                 /\ proc[p].late \in BOOLEAN
      <3>1. proc[p] \in Process
        BY DEF ConfigTypeOK
      <3>2. proc[p].cfg \in Config /\ proc[p].cfg.state = "whole"
        BY <3>1 DEF Process, Held, Config
      <3> QED
        BY <2>1, <3>1, <3>2 DEF Process, Resting
    <2> QED
      BY <2>1, <2>2 DEF ConfigTypeOK, TypeOK
  <1> QED
    BY <1>1, TypesAlways, PTL

-----------------------------------------------------------------------------
(* The invariant *)

Same(f, g) == f.repos = g.repos /\ f.option = g.option

NobodySaves == \A p \in Procs : ~Saving(p)

\* The copy of a process that no other has made out of date is what was asked
\* for; when it is the one that saves, with its own command's change.
CopyIsRight(p) ==
    Holds(p) /\ ~proc[p].late =>
        IF Saving(p) THEN /\ \A q \in Procs \ {p} : ~Saving(q)
                          /\ Same(proc[p].cfg, Asked(p))
        ELSE NobodySaves /\ Same(proc[p].cfg, wanted)

KeptInv ==
    /\ \A p \in Procs : Follows(proc[p].steps)
    /\ \A p \in Procs : CopyIsRight(p)
    /\ NobodySaves => Same(file, wanted)
    /\ file.state = "absent" => Same(file, Empty)

LEMMA KeptInit == Init => KeptInv
  <1> SUFFICES ASSUME Init PROVE KeptInv
    OBVIOUS
  <1>1. \A p \in Procs : proc[p].steps = <<>>
    BY DEF Init, Resting
  <1>2. \A p \in Procs : Follows(proc[p].steps) /\ CopyIsRight(p)
    BY <1>1, Pieces DEF CopyIsRight, Holds, Idle, Whole
  <1>3. Same(file, wanted) /\ Same(file, Empty)
    BY DEF Init, Same, NoFile, Empty
  <1> QED
    BY <1>2, <1>3 DEF KeptInv

\* A step that leaves the file alone, of a process that is not about to write
\* it, before or after.
LEMMA Aside ==
    ASSUME ConfigTypeOK, KeptInv, NEW p \in Procs, ~Saving(p),
           NEW r \in Process, Becomes(p, r), UNCHANGED <<file, wanted>>, Whole(r.steps),
           r.steps # <<>> /\ Head(r.steps) # "load" /\ ~r.late =>
               NobodySaves /\ Same(r.cfg, wanted)
    PROVE  KeptInv'
  <1>1. /\ \A q \in Procs \ {p} : proc'[q] = proc[q]
        /\ proc'[p] = IF r.steps = <<>> THEN Resting ELSE r
    BY BecomesProcess
  <1>2. Whole(proc'[p].steps)
    BY <1>1, Pieces DEF Resting
  <1>3. ~Saving(p)'
    BY <1>2 DEF Whole, Saving, At, Idle
  <1>4. \A q \in Procs \ {p} : /\ Saving(q)' <=> Saving(q)
                               /\ Holds(q)' <=> Holds(q)
                               /\ Asked(q)' = Asked(q)
    BY <1>1 DEF Saving, Holds, At, Idle, Asked
  <1>5. NobodySaves' <=> NobodySaves
    BY <1>3, <1>4 DEF NobodySaves
  <1>6. ASSUME NEW q \in Procs PROVE Follows(proc'[q].steps)
    BY <1>1, <1>2 DEF KeptInv, Whole
  <1>7. CopyIsRight(p)'
    <2> SUFFICES ASSUME Holds(p)', ~proc'[p].late
                 PROVE  NobodySaves' /\ Same(proc'[p].cfg, wanted')
      BY <1>3 DEF CopyIsRight
    <2>1. proc'[p].steps # <<>> /\ Head(proc'[p].steps) # "load"
      BY DEF Holds, Idle, At
    <2>2. proc'[p] = r
      BY <1>1, <2>1 DEF Resting
    <2> QED
      BY <1>5, <2>1, <2>2
  <1>8. ASSUME NEW q \in Procs \ {p} PROVE CopyIsRight(q)'
    <2>1. CopyIsRight(q)
      BY DEF KeptInv
    <2>2. \A z \in Procs : Saving(z)' <=> Saving(z)
      BY <1>3, <1>4
    <2> QED
      BY <1>1, <1>4, <1>5, <2>1, <2>2 DEF CopyIsRight
  <1>9. NobodySaves' => Same(file, wanted)'
    BY <1>5 DEF KeptInv, Same
  <1>10. file'.state = "absent" => Same(file, Empty)'
    BY DEF KeptInv, Same
  <1> QED
    BY <1>6, <1>7, <1>8, <1>9, <1>10 DEF KeptInv

\* A process that is through with a step that has nothing to do with the file.
LEMMA GoAside ==
    ASSUME ConfigTypeOK, KeptInv, NEW p \in Procs, ~Idle(p), NEW r \in Process, Becomes(p, r),
           Head(proc[p].steps) \notin {"load", "truncate", "create", "write", "migrate"},
           \/ r.steps = proc[p].steps
           \/ r.steps = Tail(proc[p].steps)
           \/ r.steps = <<"reset">> \o proc[p].steps,
           r.cfg = proc[p].cfg, r.late = proc[p].late, UNCHANGED <<file, wanted>>
    PROVE  KeptInv'
  <1>1. ~Saving(p) /\ Holds(p)
    BY DEF Saving, Holds, At
  <1>2. /\ proc[p].steps \in Seq(Steps) /\ proc[p].steps # <<>>
        /\ Follows(proc[p].steps) /\ Whole(proc[p].steps)
    BY Rest DEF KeptInv, Whole, Idle
  <1>3. Whole(r.steps)
    <2>1. Whole(Tail(proc[p].steps))
      BY <1>2, TailFollows
    <2>2. <<"reset">> \in Seq(Steps) /\ Whole(<<"reset">>)
      BY Pieces DEF Steps
    <2>3. Whole(<<"reset">> \o proc[p].steps)
      BY <1>2, <2>2, JoinFollows
    <2> QED
      BY <1>2, <2>1, <2>3
  <1>4. ~proc[p].late => NobodySaves /\ Same(proc[p].cfg, wanted)
    BY <1>1 DEF KeptInv, CopyIsRight
  <1> QED
    BY <1>1, <1>3, <1>4, Aside

\* A process that ends without having begun to write.
LEMMA EndAside ==
    ASSUME ConfigTypeOK, KeptInv, NEW p \in Procs, ~Saving(p), Ends(p),
           UNCHANGED <<file, wanted>>
    PROVE  KeptInv'
  <1>1. Resting \in Process /\ Whole(Resting.steps) /\ Resting.steps = <<>>
    BY Constants, Pieces DEF Resting
  <1> QED
    BY <1>1, Aside DEF Ends

LEMMA KeptStart ==
    ASSUME ConfigTypeOK, KeptInv, NEW p \in Procs, NEW c \in Commands, Start(p, c)
    PROVE  KeptInv'
  <1> DEFINE r == [Resting EXCEPT !.cmd = c, !.steps = <<"load">>]
  <1>1. r \in Process
    <2>1. c \in Command /\ <<"load">> \in Seq(Steps)
      BY DEF Commands, Steps
    <2> QED
      BY <2>1, Constants DEF Process
  <1>2. r.steps = <<"load">> /\ Head(r.steps) = "load"
    BY DEF Resting
  <1>3. Whole(r.steps)
    BY <1>2, Pieces DEF Steps
  <1>4. ~Saving(p) /\ Becomes(p, r) /\ UNCHANGED <<file, wanted>>
    BY DEF Start, Saving, At, histVars
  <1> HIDE DEF r
  <1> QED
    BY <1>1, <1>2, <1>3, <1>4, Aside

LEMMA KeptLoad ==
    ASSUME ConfigTypeOK, KeptInv, NEW p \in Procs, Load(p)
    PROVE  KeptInv'
  <1>1. ~Saving(p) /\ UNCHANGED <<file, wanted>>
    BY DEF Load, Saving, At, histVars
  <1>2. CASE Ends(p)
    BY <1>1, <1>2, EndAside
  <1>3. CASE ~Ends(p)
    <2>1. PICK f \in {Loaded(file), Migrated(file)}, t \in Seq(Steps) :
            LET r == [proc[p] EXCEPT !.cfg = f, !.steps = t,
                                     !.late = \E q \in Procs : Saving(q)]
            IN  /\ (Follows(proc[p].steps) => Whole(t))
                /\ r \in Process
                /\ Becomes(p, r)
      BY <1>3, LoadSteps
    <2> DEFINE r == [proc[p] EXCEPT !.cfg = f, !.steps = t,
                                    !.late = \E q \in Procs : Saving(q)]
    <2>2. r \in Process /\ Becomes(p, r)
      BY <2>1
    <2>3. r.steps = t /\ r.cfg = f /\ (r.late <=> \E q \in Procs : Saving(q))
      BY DEF ConfigTypeOK, Process
    <2>4. Whole(r.steps)
      BY <2>1, <2>3 DEF KeptInv
    <2>5. ~r.late => NobodySaves /\ Same(r.cfg, wanted)
      <3> SUFFICES ASSUME NobodySaves PROVE Same(f, wanted)
        BY <2>3 DEF NobodySaves
      <3>1. Same(file, wanted) /\ (file.state = "absent" => Same(file, Empty))
        BY DEF KeptInv
      <3> QED
        BY <3>1 DEF Same, Loaded, Migrated, ConfigTypeOK, Config
    <2> HIDE DEF r
    <2> QED
      BY <1>1, <2>2, <2>4, <2>5, Aside
  <1> QED
    BY <1>2, <1>3

LEMMA KeptTruncate ==
    ASSUME ConfigTypeOK, KeptInv, NEW p \in Procs, Truncate(p)
    PROVE  KeptInv'
  <1>1. /\ ~Idle(p) /\ (At(p, "truncate") \/ At(p, "create"))
        /\ file' = Empty /\ wanted' = wanted
        /\ Head(proc[p].steps) \in {"truncate", "create"}
    BY DEF Truncate, At, histVars
  <1>2. /\ proc[p] \in Process /\ proc[p].cfg \in Held /\ proc[p].cmd \in Command
        /\ proc[p].steps \in Seq(Steps) /\ proc[p].steps # <<>>
        /\ \A q \in Procs : proc[q] \in Process
    BY <1>1 DEF ConfigTypeOK, Process, Idle
  <1>3. /\ proc'[p].steps = Tail(proc[p].steps)
        /\ proc'[p].cmd = proc[p].cmd /\ proc'[p].late = proc[p].late
        /\ proc'[p].cfg = IF At(p, "create") THEN proc[p].cfg
                          ELSE Edit(proc[p].cfg, proc[p].cmd)
        /\ \A q \in Procs \ {p} : /\ proc'[q].steps = proc[q].steps
                                  /\ proc'[q].late = (proc[q].late \/ Holds(q))
    BY <1>2 DEF Truncate, Process
  <1>4. /\ Follows(Tail(proc[p].steps)) /\ Tail(proc[p].steps) # <<>>
        /\ At(p, "create") => Head(Tail(proc[p].steps)) = "migrate"
        /\ ~At(p, "create") => Head(Tail(proc[p].steps)) = "write"
    BY <1>1, <1>2, TailFollows DEF KeptInv, At
  <1>5. /\ Saving(p)'
        /\ At(p, "create") <=> At(p, "migrate")'
    BY <1>3, <1>4 DEF Saving, At, Idle
  <1>6. ~NobodySaves'
    BY <1>5 DEF NobodySaves
  <1>7. ASSUME NEW q \in Procs \ {p} PROVE CopyIsRight(q)'
    BY <1>3 DEF CopyIsRight, Holds, At, Idle
  <1>8. CopyIsRight(p)'
    <2> SUFFICES ASSUME ~proc[p].late
                 PROVE  /\ \A q \in Procs \ {p} : ~Saving(q)'
                        /\ Same(proc'[p].cfg, Asked(p)')
      BY <1>3, <1>5 DEF CopyIsRight
    <2>1. NobodySaves /\ Same(proc[p].cfg, wanted)
      BY <1>1 DEF KeptInv, CopyIsRight, Holds, Saving, At
    <2>2. \A q \in Procs \ {p} : ~Saving(q)'
      BY <1>3, <2>1 DEF NobodySaves, Saving, At, Idle
    <2>3. CASE At(p, "create")
      <3>1. Asked(p)' = wanted
        BY <1>1, <1>5, <2>3 DEF Asked
      <3>2. proc'[p].cfg = proc[p].cfg
        BY <1>3, <2>3
      <3> QED
        BY <2>1, <2>2, <3>1, <3>2
    <2>4. CASE ~At(p, "create")
      <3>1. Asked(p)' = [wanted EXCEPT !.repos = Edited(@, proc[p].cmd),
                                       !.option = IF proc[p].cmd.do = "set"
                                                  THEN proc[p].cmd.option ELSE @]
        BY <1>1, <1>3, <1>5, <2>4 DEF Asked
      <3>2. wanted \in Config
        BY DEF ConfigTypeOK
      <3>3. proc[p].cmd.do = "set" => Edited(wanted.repos, proc[p].cmd) = wanted.repos
        BY DEF Edited
      <3>4. /\ Asked(p)'.repos = Edited(wanted.repos, proc[p].cmd)
            /\ Asked(p)'.option = IF proc[p].cmd.do = "set" THEN proc[p].cmd.option
                                  ELSE wanted.option
        BY <3>1, <3>2 DEF Config
      <3>5. proc'[p].cfg = Edit(proc[p].cfg, proc[p].cmd)
        BY <1>3, <2>4
      <3>6. /\ proc'[p].cfg.repos = IF proc[p].cmd.do = "set" THEN proc[p].cfg.repos
                                    ELSE Edited(proc[p].cfg.repos, proc[p].cmd)
            /\ proc'[p].cfg.option = IF proc[p].cmd.do = "set" THEN proc[p].cmd.option
                                     ELSE proc[p].cfg.option
        BY <1>2, <3>5 DEF Edit, Held
      <3>7. proc[p].cfg.repos = wanted.repos /\ proc[p].cfg.option = wanted.option
        BY <2>1 DEF Same
      <3>8. proc'[p].cfg.repos = Asked(p)'.repos
        BY <3>3, <3>4, <3>6, <3>7
      <3>9. proc'[p].cfg.option = Asked(p)'.option
        BY <3>4, <3>6, <3>7
      <3> QED
        BY <2>2, <3>8, <3>9 DEF Same
    <2> QED
      BY <2>2, <2>3, <2>4
  <1>9. ASSUME NEW q \in Procs PROVE Follows(proc'[q].steps)
    BY <1>3, <1>4 DEF KeptInv
  <1>10. file'.state # "absent"
    BY <1>1 DEF Empty
  <1> QED
    BY <1>6, <1>7, <1>8, <1>9, <1>10 DEF KeptInv

\* While a process writes the file, no other holds a copy that is up to date.
LEMMA WriterAlone ==
    ASSUME KeptInv, NEW p \in Procs, Saving(p), NEW q \in Procs \ {p}
    PROVE  Holds(q) => proc[q].late
  BY DEF KeptInv, CopyIsRight, NobodySaves

LEMMA KeptWrite ==
    ASSUME ConfigTypeOK, KeptInv, NEW p \in Procs, Write(p)
    PROVE  KeptInv'
  <1>1. /\ Saving(p) /\ ~Idle(p) /\ Go(p)
        /\ Head(proc[p].steps) \in {"write", "migrate"}
        /\ file' = proc[p].cfg
        /\ wanted' = IF proc[p].late THEN proc[p].cfg ELSE Asked(p)
    BY DEF Write, Saving, At
  <1>2. /\ proc[p] \in Process /\ proc[p].cfg \in Held
        /\ proc[p].steps \in Seq(Steps) /\ proc[p].steps # <<>>
    BY <1>1 DEF ConfigTypeOK, Process, Idle
  <1>3. Whole(Tail(proc[p].steps))
    BY <1>1, <1>2, TailFollows DEF KeptInv
  <1> DEFINE r == [proc[p] EXCEPT !.steps = Tail(@)]
  <1>4. /\ r \in Process /\ r.steps = Tail(proc[p].steps)
        /\ r.cfg = proc[p].cfg /\ r.late = proc[p].late
    BY <1>1, <1>2, Rest DEF Process
  <1>5. /\ \A q \in Procs \ {p} : proc'[q] = proc[q]
        /\ proc'[p] = IF r.steps = <<>> THEN Resting ELSE r
    BY <1>1, <1>4, BecomesProcess DEF Go
  <1>6. Whole(proc'[p].steps)
    BY <1>3, <1>4, <1>5, Pieces DEF Resting
  <1>7. ~Saving(p)'
    BY <1>6 DEF Whole, Saving, At, Idle
  <1>8. Same(file, wanted)'
    <2>1. CASE proc[p].late
      BY <1>1, <2>1 DEF Same
    <2>2. CASE ~proc[p].late
      <3>1. Same(proc[p].cfg, Asked(p))
        BY <1>1, <2>2 DEF KeptInv, CopyIsRight, Holds, Saving, At
      <3> QED
        BY <1>1, <2>2, <3>1 DEF Same
    <2> QED
      BY <2>1, <2>2
  <1>9. ASSUME NEW q \in Procs \ {p} PROVE CopyIsRight(q)'
    <2>1. Holds(q) => proc[q].late
      BY <1>1, WriterAlone
    <2> QED
      BY <1>5, <2>1 DEF CopyIsRight, Holds, At, Idle
  <1>10. CopyIsRight(p)'
    <2> SUFFICES ASSUME Holds(p)', ~proc'[p].late
                 PROVE  NobodySaves' /\ Same(proc'[p].cfg, wanted')
      BY <1>7 DEF CopyIsRight
    <2>1. proc'[p] = r
      BY <1>5 DEF Holds, Idle, Resting
    <2>2. ~proc[p].late /\ proc'[p].cfg = file'
      BY <1>1, <1>4, <2>1
    <2>3. \A q \in Procs \ {p} : ~Saving(q)
      BY <1>1, <2>2 DEF KeptInv, CopyIsRight, Holds, Saving, At
    <2>4. NobodySaves'
      BY <1>5, <1>7, <2>3 DEF NobodySaves, Saving, At, Idle
    <2> QED
      BY <1>8, <2>2, <2>4 DEF Same
  <1>11. ASSUME NEW q \in Procs PROVE Follows(proc'[q].steps)
    BY <1>5, <1>6 DEF KeptInv, Whole
  <1>12. file'.state # "absent"
    BY <1>1, <1>2 DEF Held
  <1> QED
    BY <1>8, <1>9, <1>10, <1>11, <1>12 DEF KeptInv

LEMMA KeptOther ==
    ASSUME ConfigTypeOK, KeptInv, NEW p \in Procs,
           \/ OpenDatabase(p) \/ Reset(p) \/ AddVersion(p) \/ DeleteRows(p) \/ Pull(p)
           \/ PullsDone(p) \/ Clone(p) \/ RemoveCopy(p) \/ WipeCopies(p) \/ WipeRows(p)
    PROVE  KeptInv'
  <1>1. /\ ~Idle(p) /\ UNCHANGED <<file, wanted>>
        /\ Head(proc[p].steps) \notin {"load", "truncate", "create", "write", "migrate"}
    BY DEF OpenDatabase, Reset, AddVersion, DeleteRows, Pull, PullsDone, Clone, RemoveCopy,
           WipeCopies, WipeRows, At, histVars
  <1>2. ~Saving(p)
    BY <1>1 DEF Saving, At
  <1>3. /\ proc[p] \in Process /\ proc[p].steps \in Seq(Steps)
        /\ proc[p].cmd \in Command /\ proc[p].pulled \subseteq Names
        /\ proc[p].cfg.repos \in RepoTable
    BY DEF ConfigTypeOK, Process, Held
  <1>4. CASE Go(p)
    <2> DEFINE r == [proc[p] EXCEPT !.steps = Tail(@)]
    <2>1. /\ r \in Process /\ r.steps = Tail(proc[p].steps)
          /\ r.cfg = proc[p].cfg /\ r.late = proc[p].late
      BY <1>1, <1>3, Rest DEF Process
    <2>2. Becomes(p, r)
      BY <1>4 DEF Go
    <2> HIDE DEF r
    <2> QED
      BY <1>1, <2>1, <2>2, GoAside
  <1>5. CASE Ends(p)
    BY <1>1, <1>2, <1>5, EndAside
  <1>6. CASE OpenDatabase(p)
    <2>1. CASE schema = "old"
      <3> DEFINE r == [proc[p] EXCEPT !.steps = <<"reset">> \o @]
      <3>1. <<"reset">> \o proc[p].steps \in Seq(Steps)
        BY <1>3 DEF Steps
      <3>2. /\ r \in Process /\ r.steps = <<"reset">> \o proc[p].steps
            /\ r.cfg = proc[p].cfg /\ r.late = proc[p].late
        BY <1>3, <3>1 DEF Process
      <3>3. Becomes(p, r)
        BY <1>6, <2>1 DEF OpenDatabase
      <3> HIDE DEF r
      <3> QED
        BY <1>1, <3>2, <3>3, GoAside
    <2> QED
      BY <1>4, <1>6, <2>1 DEF OpenDatabase
  <1>7. CASE Pull(p)
    <2>1. \/ Ends(p)
          \/ \E n \in DOMAIN proc[p].cfg.repos :
                Becomes(p, [proc[p] EXCEPT !.pulled = @ \cup {n}])
      BY <1>7 DEF Pull
    <2>2. CASE \E n \in DOMAIN proc[p].cfg.repos :
                  Becomes(p, [proc[p] EXCEPT !.pulled = @ \cup {n}])
      <3>1. PICK n \in DOMAIN proc[p].cfg.repos :
                Becomes(p, [proc[p] EXCEPT !.pulled = @ \cup {n}])
        BY <2>2
      <3> DEFINE r == [proc[p] EXCEPT !.pulled = @ \cup {n}]
      <3>2. n \in Names
        BY <1>3, Tables
      <3>3. /\ r \in Process /\ r.steps = proc[p].steps
            /\ r.cfg = proc[p].cfg /\ r.late = proc[p].late
        BY <1>3, <3>2 DEF Process
      <3>4. Becomes(p, r)
        BY <3>1
      <3> HIDE DEF r
      <3> QED
        BY <1>1, <3>3, <3>4, GoAside
    <2> QED
      BY <1>5, <2>1, <2>2
  <1>8. CASE Clone(p)
    <2>1. \/ Ends(p)
          \/ \E t \in Origins :
                Becomes(p, [proc[p] EXCEPT !.steps = Tail(@), !.cmd.url = t.url,
                                           !.cmd.ref = t.ref])
      BY <1>8 DEF Clone
    <2>2. CASE \E t \in Origins :
                  Becomes(p, [proc[p] EXCEPT !.steps = Tail(@), !.cmd.url = t.url,
                                             !.cmd.ref = t.ref])
      <3>1. PICK t \in Origins :
                Becomes(p, [proc[p] EXCEPT !.steps = Tail(@), !.cmd.url = t.url,
                                           !.cmd.ref = t.ref])
        BY <2>2
      <3> DEFINE r == [proc[p] EXCEPT !.steps = Tail(@), !.cmd.url = t.url, !.cmd.ref = t.ref]
      <3>2. t.url \in Urls /\ t.ref \in Refs
        BY DEF Origins
      <3>3. [proc[p].cmd EXCEPT !.url = t.url, !.ref = t.ref] \in Command
        BY <1>3, <3>2 DEF Command
      <3>4. /\ r \in Process /\ r.steps = Tail(proc[p].steps)
            /\ r.cfg = proc[p].cfg /\ r.late = proc[p].late
        BY <1>1, <1>3, <3>3, Rest DEF Process
      <3>5. Becomes(p, r)
        BY <3>1
      <3> HIDE DEF r
      <3> QED
        BY <1>1, <3>4, <3>5, GoAside
    <2> QED
      BY <1>5, <2>1, <2>2
  <1> QED
    BY <1>4, <1>6, <1>7, <1>8
       DEF Reset, AddVersion, DeleteRows, PullsDone, RemoveCopy, WipeCopies, WipeRows

LEMMA KeptAbort ==
    ASSUME ConfigTypeOK, KeptInv, NEW p \in Procs, Abort(p)
    PROVE  KeptInv'
  <1>1. CASE ~Saving(p)
    <2>1. Ends(p) /\ UNCHANGED <<file, wanted>>
      BY <1>1 DEF Abort
    <2> QED
      BY <1>1, <2>1, EndAside
  <1>2. CASE Saving(p)
    <2>1. Ends(p) /\ wanted' = file' /\ file' \in {Empty, Broken}
      BY <1>2 DEF Abort
    <2>2. /\ \A q \in Procs \ {p} : proc'[q] = proc[q]
          /\ proc'[p].steps = <<>>
      BY <2>1, BecomesProcess, Constants DEF Ends, Resting
    <2>3. CopyIsRight(p)'
      BY <2>2 DEF CopyIsRight, Holds, Idle
    <2>4. ASSUME NEW q \in Procs \ {p} PROVE CopyIsRight(q)'
      <3>1. Holds(q) => proc[q].late
        BY <1>2, WriterAlone
      <3> QED
        BY <2>2, <3>1 DEF CopyIsRight, Holds, At, Idle
    <2>5. ASSUME NEW q \in Procs PROVE Follows(proc'[q].steps)
      BY <2>2, Pieces DEF KeptInv, Whole
    <2>6. Same(file, wanted)' /\ file'.state # "absent"
      BY <2>1 DEF Same, Empty, Broken
    <2> QED
      BY <2>3, <2>4, <2>5, <2>6 DEF KeptInv
  <1> QED
    BY <1>1, <1>2

LEMMA KeptNext == ConfigTypeOK /\ KeptInv /\ [Next]_vars => KeptInv'
  <1> SUFFICES ASSUME ConfigTypeOK, KeptInv, [Next]_vars PROVE KeptInv'
    OBVIOUS
  <1>1. CASE \E p \in Procs, c \in Commands : Start(p, c)
    BY <1>1, KeptStart
  <1>2. CASE \E p \in Procs : Step(p)
    BY <1>2, KeptLoad, KeptTruncate, KeptWrite, KeptOther DEF Step
  <1>3. CASE \E p \in Procs : Abort(p)
    BY <1>3, KeptAbort
  <1>4. CASE UNCHANGED vars
    <2>1. proc' = proc /\ file' = file /\ wanted' = wanted
      BY <1>4 DEF vars, histVars
    <2>2. /\ \A p \in Procs : /\ Saving(p)' <=> Saving(p)
                             /\ Holds(p)' <=> Holds(p)
                             /\ Asked(p)' = Asked(p)
          /\ \A p \in Procs : Follows(proc[p].steps)' <=> Follows(proc[p].steps)
          /\ Same(file, wanted)' <=> Same(file, wanted)
          /\ Same(file, Empty)' <=> Same(file, Empty)
      BY <2>1 DEF Saving, Holds, At, Idle, Asked, Follows, Same
    <2>3. NobodySaves' <=> NobodySaves
      BY <2>1 DEF NobodySaves, Saving, At, Idle
    <2>4. \A p \in Procs : CopyIsRight(p)' <=> CopyIsRight(p)
      BY <2>1, <2>3 DEF CopyIsRight, Saving, Holds, At, Idle, Asked, Same
    <2> QED
      BY <2>1, <2>2, <2>3, <2>4 DEF KeptInv
  <1> QED
    BY <1>1, <1>2, <1>3, <1>4 DEF Next

\* The file holds what the commands asked for, whoever runs them and however
\* they overlap, fail or die, but for copies that were out of date when they
\* were saved and for processes that ended in the middle of writing.
THEOREM ConfigIsAlwaysKept == Spec => []ConfigIsKept
  <1>1. KeptInv => ConfigIsKept
    BY DEF KeptInv, ConfigIsKept, NobodySaves, Same
  <1> QED
    BY <1>1, KeptInit, KeptNext, TypesAlways, PTL DEF Spec

-----------------------------------------------------------------------------
(* Rows and origins                                                          *)

\* After the working copy of a new repository is made, and before the
\* repository is in the file.
Adding(r) ==
    r.cmd.do = "add" /\ r.steps # <<>> /\ Head(r.steps) \in {"truncate", "write"}

\* After the working copy of a repository is removed, and before the
\* repository is out of the file.
Removing(r) ==
    r.cmd.do = "remove" /\ r.steps # <<>> /\ Head(r.steps) \in {"truncate", "write"}

\* The steps of an addition and of a removal are in their order.
Ordered(c, s) ==
    \A i \in 1..Len(s) :
        /\ s[i] = "clone" => c.do = "add" /\ i + 1 \in 1..Len(s) /\ s[i + 1] = "truncate"
        /\ s[i] = "rmdir" => c.do = "remove"
        /\ s[i] = "reload" => c.do = "fix"
        /\ c.do = "remove" /\ s[i] = "truncate" /\ i # 1 => s[i - 1] = "rmdir"
        /\ c.do = "add" /\ s[i] \in {"truncate", "write"} =>
              \A j \in 1..Len(s) : i < j => s[j] \notin {"clone", "load"}

\* What an addition is about to add is not there, and is when it is written.
AddsNew(r) ==
    r.cmd.do = "add" =>
        /\ (\E i \in 1..Len(r.steps) : r.steps[i] = "clone") =>
              r.cmd.name \notin DOMAIN r.cfg.repos
        /\ r.steps # <<>> /\ Head(r.steps) = "write" =>
              r.cmd.name \in DOMAIN r.cfg.repos

Shaped(r) == Ordered(r.cmd, r.steps) /\ AddsNew(r)

\* One repository: its rows are of its working copy's origin, and of the
\* origin configured for it unless a pull is still to come; without a working
\* copy, they are in any case.  It has none when it is not configured, but for
\* one that is about to be.
RowsAreRight(n) ==
    /\ copies[n] # NoOrigin => rows[n] \subseteq {copies[n]}
    /\ n \in DOMAIN wanted.repos /\ (n \notin behind \/ copies[n] = NoOrigin) =>
          rows[n] \subseteq {wanted.repos[n].at}
    /\ n \notin DOMAIN wanted.repos /\ rows[n] # {} =>
          \E p \in Procs : Adding(proc[p]) /\ proc[p].cmd.name = n
    /\ \A p \in Procs : Removing(proc[p]) /\ proc[p].cmd.name = n => copies[n] = NoOrigin

RowsInv ==
    /\ \A p \in Procs : Shaped(proc[p])
    /\ \A n \in Names \ torn : RowsAreRight(n)

\* What every process is when it has nothing to do.
LEMMA RestingShaped ==
    /\ Shaped(Resting)
    /\ ~Adding(Resting)
    /\ ~Removing(Resting)
  BY DEF Resting, Shaped, Ordered, AddsNew, Adding, Removing

\* One step further.
LEMMA GoShaped ==
    ASSUME NEW r \in Process, Shaped(r), r.steps # <<>>, Follows(r.steps),
           Head(r.steps) # "truncate",
           NEW u \in Process, u.steps = Tail(r.steps), u.cfg = r.cfg,
           u.cmd.do = r.cmd.do, u.cmd.name = r.cmd.name
    PROVE  /\ Shaped(u)
           /\ Removing(u) => Head(r.steps) = "rmdir"
           /\ Head(r.steps) = "clone" => Adding(u)
  <1> DEFINE s == r.steps
             t == u.steps
  <1>1. /\ s \in Seq(Steps) /\ s # <<>> /\ t = Tail(s) /\ t \in Seq(Steps)
    BY DEF Process
  <1>2. /\ Len(t) = Len(s) - 1 /\ Len(s) \in Nat /\ Len(s) > 0
        /\ \A i \in 1..Len(t) : t[i] = s[i + 1] /\ i + 1 \in 1..Len(s)
        /\ Head(s) = s[1]
    BY <1>1
  <1>3. (t # <<>> => Len(t) > 0 /\ Head(t) = t[1]) /\ (Len(t) > 0 => t # <<>>)
    <2>1. t \in Seq(Steps)
      BY <1>1
    <2> HIDE DEF t
    <2> QED
      BY <2>1
  <1>4. Ordered(r.cmd, s) /\ AddsNew(r)
    BY DEF Shaped
  <1> HIDE DEF s, t
  <1>5. Ordered(u.cmd, t)
    <2> SUFFICES ASSUME NEW i \in 1..Len(t)
                 PROVE  /\ t[i] = "clone" => /\ u.cmd.do = "add" /\ i + 1 \in 1..Len(t)
                                             /\ t[i + 1] = "truncate"
                        /\ t[i] = "rmdir" => u.cmd.do = "remove"
                        /\ t[i] = "reload" => u.cmd.do = "fix"
                        /\ u.cmd.do = "remove" /\ t[i] = "truncate" /\ i # 1 => t[i - 1] = "rmdir"
                        /\ u.cmd.do = "add" /\ t[i] \in {"truncate", "write"} =>
                              \A j \in 1..Len(t) : i < j => t[j] \notin {"clone", "load"}
      BY DEF Ordered
    <2>1. PICK k \in 1..Len(s) : k = i + 1 /\ t[i] = s[k] /\ k # 1
      BY <1>2
    <2>2. t[i] = "clone" => u.cmd.do = "add" /\ i + 1 \in 1..Len(t) /\ t[i + 1] = "truncate"
      <3> SUFFICES ASSUME t[i] = "clone"
                   PROVE  u.cmd.do = "add" /\ i + 1 \in 1..Len(t) /\ t[i + 1] = "truncate"
        OBVIOUS
      <3>1. r.cmd.do = "add" /\ k + 1 \in 1..Len(s) /\ s[k + 1] = "truncate"
        BY <1>4, <2>1 DEF Ordered
      <3>2. i + 1 \in 1..Len(t)
        BY <1>2, <2>1, <3>1
      <3> QED
        BY <1>2, <2>1, <3>1, <3>2
    <2>3. (t[i] = "rmdir" => u.cmd.do = "remove") /\ (t[i] = "reload" => u.cmd.do = "fix")
      BY <1>4, <2>1 DEF Ordered
    <2>4. u.cmd.do = "remove" /\ t[i] = "truncate" /\ i # 1 => t[i - 1] = "rmdir"
      <3> SUFFICES ASSUME u.cmd.do = "remove", t[i] = "truncate", i # 1 PROVE t[i - 1] = "rmdir"
        OBVIOUS
      <3>1. s[k - 1] = "rmdir"
        BY <1>4, <2>1 DEF Ordered
      <3>2. i - 1 \in 1..Len(t) /\ (i - 1) + 1 = k - 1
        BY <1>2, <2>1
      <3> QED
        BY <1>2, <3>1, <3>2
    <2>5. ASSUME u.cmd.do = "add", t[i] \in {"truncate", "write"}, NEW j \in 1..Len(t), i < j
          PROVE  t[j] \notin {"clone", "load"}
      <3>1. j + 1 \in 1..Len(s) /\ k < j + 1 /\ t[j] = s[j + 1]
        BY <1>2, <2>1, <2>5
      <3> QED
        BY <1>4, <2>1, <2>5, <3>1 DEF Ordered
    <2> QED
      BY <2>2, <2>3, <2>4, <2>5
  <1>6. t # <<>> => Head(t) # "write"
    <2> SUFFICES ASSUME t # <<>>, Head(t) = "write" PROVE FALSE
      OBVIOUS
    <2>1. 1 \in 1..Len(t) /\ Head(t) = t[1]
      BY <1>2, <1>3
    <2>2. 2 \in 1..Len(s) /\ s[2] = "write" /\ s[2 - 1] = s[1]
      BY <1>2, <2>1
    <2>3. s[1] = "truncate"
      BY <2>2 DEF Follows, s
    <2> QED
      BY <1>2, <2>3 DEF s
  <1>7. AddsNew(u)
    BY <1>2, <1>4, <1>6 DEF AddsNew, s, t
  <1>8. Removing(u) => Head(s) = "rmdir"
    <2> SUFFICES ASSUME r.cmd.do = "remove", t # <<>>, Head(t) = "truncate"
                 PROVE  Head(s) = "rmdir"
      BY <1>6 DEF Removing, t
    <2>1. 2 \in 1..Len(s) /\ s[2] = "truncate"
      BY <1>2, <1>3
    <2> QED
      BY <1>2, <1>4, <2>1 DEF Ordered
  <1>9. Head(s) = "clone" => Adding(u)
    BY <1>2, <1>3, <1>4 DEF Ordered, Adding, t
  <1> QED
    BY <1>5, <1>7, <1>8, <1>9 DEF Shaped, s, t

\* The step that truncates the file.
LEMMA TruncateShaped ==
    ASSUME NEW r \in Process, Shaped(r), r.steps # <<>>, Follows(r.steps),
           Head(r.steps) = "truncate",
           NEW u \in Process, u.steps = Tail(r.steps), u.cmd = r.cmd,
           u.cmd.do = "add" => u.cmd.name \in DOMAIN u.cfg.repos
    PROVE  /\ Shaped(u)
           /\ Removing(u) => Removing(r)
           /\ Adding(r) => Adding(u)
  <1> DEFINE s == r.steps
             t == u.steps
  <1>1. /\ s \in Seq(Steps) /\ s # <<>> /\ t = Tail(s) /\ t \in Seq(Steps)
    BY DEF Process
  <1>2. /\ Len(t) = Len(s) - 1 /\ Len(s) \in Nat /\ Len(s) > 0
        /\ \A i \in 1..Len(t) : t[i] = s[i + 1] /\ i + 1 \in 1..Len(s) /\ 1 < i + 1
        /\ Head(s) = s[1]
    BY <1>1
  <1>3. t # <<>> /\ Head(t) = "write" /\ Head(s) = "truncate"
    BY <1>1, TailFollows
  <1>4. Ordered(r.cmd, s)
    BY DEF Shaped
  <1> HIDE DEF s, t
  <1>5. Ordered(u.cmd, t)
    BY <1>2, <1>4 DEF Ordered
  <1>6. r.cmd.do = "add" => \A i \in 1..Len(t) : t[i] # "clone"
    BY <1>2, <1>3, <1>4 DEF Ordered
  <1>7. AddsNew(u)
    BY <1>6 DEF AddsNew, t
  <1> QED
    BY <1>3, <1>5, <1>7 DEF Shaped, Removing, Adding, s, t

\* A removal does not begin with the save.
Keeps(c, s) == c.do = "remove" /\ s # <<>> => Head(s) # "truncate"

\* One step before the others.
Led(a, t, u) ==
    /\ u \in Seq(Steps) /\ Len(u) = Len(t) + 1 /\ u # <<>> /\ Head(u) = a
    /\ u[1] = a /\ \A i \in 2..Len(u) : u[i] = t[i - 1] /\ i - 1 \in 1..Len(t)

LEMMA Prefixed ==
    ASSUME NEW a \in Steps, NEW t \in Seq(Steps), NEW u, u = <<a>> \o t
    PROVE  Led(a, t, u)
  BY DEF Led

LEMMA PrefixOrdered ==
    ASSUME NEW c \in Command, NEW a \in Steps,
           a \notin {"clone", "rmdir", "reload", "truncate", "write"},
           NEW t \in Seq(Steps), Ordered(c, t), Keeps(c, t),
           NEW u, Led(a, t, u)
    PROVE  /\ Ordered(c, u)
           /\ \A i \in 1..Len(u) : u[i] = "clone" => \E j \in 1..Len(t) : t[j] = "clone"
  <1>1. /\ u \in Seq(Steps) /\ Len(u) = Len(t) + 1 /\ Len(t) \in Nat
        /\ u[1] = a /\ \A i \in 2..Len(u) : u[i] = t[i - 1] /\ i - 1 \in 1..Len(t)
    BY DEF Led
  <1>2. Len(t) > 0 => t # <<>> /\ Head(t) = t[1]
    OBVIOUS
  <1>3. \A i \in 1..Len(u) : i = 1 \/ i \in 2..Len(u)
    BY <1>1
  <1>4. ASSUME NEW i \in 2..Len(u)
        PROVE  /\ u[i] = "clone" => c.do = "add" /\ i + 1 \in 1..Len(u)
                                    /\ u[i + 1] = "truncate"
               /\ u[i] = "rmdir" => c.do = "remove"
               /\ u[i] = "reload" => c.do = "fix"
               /\ c.do = "remove" /\ u[i] = "truncate" => u[i - 1] = "rmdir"
               /\ c.do = "add" /\ u[i] \in {"truncate", "write"} =>
                     \A j \in 1..Len(u) : i < j => u[j] \notin {"clone", "load"}
    <2> DEFINE k == i - 1
    <2>1. k \in 1..Len(t) /\ u[i] = t[k] /\ i \in Nat
      BY <1>1
    <2>2. k + 1 \in 1..Len(t) => i + 1 \in 1..Len(u) /\ u[i + 1] = t[k + 1]
      BY <1>1, <2>1
    <2>3. k # 1 => u[i - 1] = t[k - 1]
      BY <1>1, <2>1
    <2>4. k = 1 /\ c.do = "remove" => t[k] # "truncate"
      BY <1>2, <2>1 DEF Keeps
    <2>5. \A j \in 1..Len(u) : i < j => j - 1 \in 1..Len(t) /\ k < j - 1 /\ u[j] = t[j - 1]
      BY <1>1, <2>1
    <2> HIDE DEF k
    <2> QED
      BY <2>1, <2>2, <2>3, <2>4, <2>5 DEF Ordered
  <1>5. Ordered(c, u)
    BY <1>1, <1>3, <1>4 DEF Ordered
  <1>6. \A i \in 1..Len(u) : u[i] = "clone" => \E j \in 1..Len(t) : t[j] = "clone"
    BY <1>1, <1>3
  <1> QED
    BY <1>1, <1>5, <1>6

\* A file that is written before the steps of the command.
LEMMA MigrationOrdered ==
    ASSUME NEW c \in Command, NEW t \in Seq(Steps), Ordered(c, t),
           Keeps(c, t),
           NEW u, u = <<"create", "migrate">> \o t
    PROVE  /\ u \in Seq(Steps)
           /\ Ordered(c, u)
           /\ u # <<>> /\ Head(u) = "create"
           /\ (\E i \in 1..Len(u) : u[i] = "clone") => \E j \in 1..Len(t) : t[j] = "clone"
  <1>1. PICK x : x = <<"migrate">> \o t
    OBVIOUS
  <1>2. PICK y : y = <<"create">> \o x
    OBVIOUS
  <1>3. "create" \in Steps /\ "migrate" \in Steps
    BY DEF Steps
  <1>4. Led("migrate", t, x)
    BY <1>1, <1>3, Prefixed
  <1>5. x \in Seq(Steps) /\ Keeps(c, x)
    BY <1>4 DEF Led, Keeps
  <1>6. Led("create", x, y)
    BY <1>2, <1>3, <1>5, Prefixed
  <1>7. y \in Seq(Steps) /\ y # <<>> /\ Head(y) = "create"
    BY <1>6 DEF Led
  <1>8. /\ Ordered(c, x)
        /\ \A i \in 1..Len(x) : x[i] = "clone" => \E j \in 1..Len(t) : t[j] = "clone"
    BY <1>3, <1>4, PrefixOrdered
  <1>9. /\ Ordered(c, y)
        /\ \A i \in 1..Len(y) : y[i] = "clone" => \E j \in 1..Len(x) : x[j] = "clone"
    <2>1. x \in Seq(Steps) /\ Ordered(c, x) /\ "create" # "migrate" /\ "create" # "clone"
      BY <1>5, <1>8
    <2> HIDE DEF Keeps
    <2> QED
      BY <1>3, <1>5, <1>6, <2>1, PrefixOrdered
  <1>10. u = y
    BY <1>1, <1>2
  <1> QED
    BY <1>7, <1>8, <1>9, <1>10

LEMMA Joined ==
    ASSUME NEW a \in Seq(Steps), NEW b \in Seq(Steps)
    PROVE  /\ a \o b \in Seq(Steps) /\ Len(a \o b) = Len(a) + Len(b)
           /\ \A i \in 1..Len(a) : (a \o b)[i] = a[i]
           /\ \A i \in 1..Len(b) : (a \o b)[Len(a) + i] = b[i]
  OBVIOUS

\* Every command goes through its steps in that order.
LEMMA ProgramsOrdered ==
    ASSUME NEW c \in Command, NEW s \in Programs(c)
    PROVE  /\ Ordered(c, s)
           /\ c.do = "remove" /\ s # <<>> => Head(s) # "truncate"
  <1>1. c.do \in {"show", "set", "add", "remove", "seturl", "setref", "addmirror",
                  "removemirror", "clearmirrors", "refresh", "fix"}
    BY DEF Command
  <1>2. CASE c.do = "add"
    <2>1. s = Open \o <<"clone">> \o Save
      BY <1>2 DEF Programs, AddRepoCmd
    <2> DEFINE v == Open \o <<"clone">>
    <2>2. /\ v \in Seq(Steps) /\ Len(v) = 3
          /\ v[1] = "init" /\ v[2] = "version" /\ v[3] = "clone"
      BY DEF Open, Steps
    <2>3. Save \in Seq(Steps) /\ Len(Save) = 2 /\ Save[1] = "truncate" /\ Save[2] = "write"
      BY DEF Save, Steps
    <2> HIDE DEF v
    <2>4. /\ v \o Save \in Seq(Steps) /\ Len(v \o Save) = 5
          /\ \A i \in 1..3 : (v \o Save)[i] = v[i]
          /\ \A i \in 1..2 : (v \o Save)[3 + i] = Save[i]
      <3>1. /\ v \o Save \in Seq(Steps) /\ Len(v \o Save) = Len(v) + Len(Save)
            /\ \A i \in 1..Len(v) : (v \o Save)[i] = v[i]
            /\ \A i \in 1..Len(Save) : (v \o Save)[Len(v) + i] = Save[i]
        BY <2>2, <2>3, Joined
      <3> QED
        BY <2>2, <2>3, <3>1
    <2>5. /\ Len(s) = 5 /\ s[1] = "init" /\ s[2] = "version" /\ s[3] = "clone"
          /\ s[4] = "truncate" /\ s[5] = "write"
      <3>1. s = v \o Save
        BY <2>1 DEF v
      <3>2. 1 \in 1..3 /\ 2 \in 1..3 /\ 3 \in 1..3 /\ 1 \in 1..2 /\ 2 \in 1..2
            /\ 3 + 1 = 4 /\ 3 + 2 = 5
        OBVIOUS
      <3> QED
        BY <2>2, <2>3, <2>4, <3>1, <3>2
    <2>6. \A i \in 1..5 : i = 1 \/ i = 2 \/ i = 3 \/ i = 4 \/ i = 5
      OBVIOUS
    <2> QED
      BY <1>2, <2>5, <2>6 DEF Ordered
  <1>3. CASE c.do = "remove"
    <2>1. s = <<"rmdir">> \o Save \o Open \o <<"delete">>
      BY <1>3 DEF Programs, RemoveRepoCmd
    <2>2. /\ Len(s) = 6 /\ s[1] = "rmdir" /\ s[2] = "truncate" /\ s[3] = "write"
          /\ s[4] = "init" /\ s[5] = "version" /\ s[6] = "delete"
      BY <2>1 DEF Open, Save
    <2>3. \A i \in 1..6 : i = 1 \/ i = 2 \/ i = 3 \/ i = 4 \/ i = 5 \/ i = 6
      OBVIOUS
    <2>4. Head(s) = s[1]
      OBVIOUS
    <2> QED
      BY <1>3, <2>2, <2>3, <2>4 DEF Ordered
  <1>4. CASE c.do \notin {"add", "remove"}
    <2> DEFINE Calm(x) == x \in Seq(Steps) /\ \A i \in 1..Len(x) :
                             x[i] \notin {"clone", "rmdir"} /\ (x[i] = "reload" => c.do = "fix")
    <2>1. ASSUME NEW x, NEW y, Calm(x), Calm(y)
          PROVE  Calm(x \o y)
      <3>1. /\ x \o y \in Seq(Steps) /\ Len(x \o y) = Len(x) + Len(y)
            /\ Len(x) \in Nat /\ Len(y) \in Nat
            /\ \A i \in 1..Len(x) : (x \o y)[i] = x[i]
            /\ \A i \in (Len(x) + 1)..(Len(x) + Len(y)) :
                  (x \o y)[i] = y[i - Len(x)] /\ i - Len(x) \in 1..Len(y)
        BY <2>1
      <3>2. \A i \in 1..Len(x \o y) :
               i \in 1..Len(x) \/ i \in (Len(x) + 1)..(Len(x) + Len(y))
        BY <3>1
      <3> QED
        BY <2>1, <3>1, <3>2
    <2>2. \A a \in Steps \ {"clone", "rmdir"} : (a = "reload" => c.do = "fix") => Calm(<<a>>)
      OBVIOUS
    <2>3. ASSUME NEW a \in Steps \ {"clone", "rmdir", "reload"},
                 NEW b \in Steps \ {"clone", "rmdir", "reload"}
          PROVE  Calm(<<a, b>>)
      OBVIOUS
    <2>4. /\ Calm(<<>>) /\ Calm(Save) /\ Calm(Open) /\ Calm(<<"pull">>)
          /\ c.do = "fix" => Calm(<<"reload">>)
          /\ Calm(<<"wipecopies", "wiperows">>) /\ Calm(<<"wiperows", "wipecopies">>)
      BY <2>2, <2>3 DEF Steps, Save, Open
    <2> HIDE DEF Calm
    <2>5. /\ Calm(ShowCmd) /\ Calm(SetConfigCmd) /\ Calm(RefreshCmd)
          /\ Calm(AddMirrorCmd) /\ Calm(RemoveMirrorCmd) /\ Calm(ClearMirrorsCmd)
      BY <2>1, <2>4 DEF ShowCmd, SetConfigCmd, RefreshCmd, AddMirrorCmd,
                        RemoveMirrorCmd, ClearMirrorsCmd
    <2>6. Calm(SetUrlCmd) /\ Calm(SetRepoRefCmd)
      BY <2>1, <2>4 DEF SetUrlCmd, SetRepoRefCmd
    <2>7. c.do = "fix" => \A w : Calm(w) => Calm(FixCmd(w))
      BY <2>1, <2>4 DEF FixCmd
    <2>8. Calm(s)
      BY <1>1, <1>4, <2>4, <2>5, <2>6, <2>7 DEF Programs
    <2> QED
      BY <1>4, <2>8 DEF Ordered, Calm
  <1> QED
    BY <1>2, <1>3, <1>4

\* What a process goes on with when it has read the configuration.
LEMMA LoadShaped ==
    ASSUME ConfigTypeOK, NEW p \in Procs, Load(p), Shaped(proc[p]),
           Follows(proc[p].steps)
    PROVE  /\ ~Adding(proc[p])
           /\ \/ Ends(p)
              \/ \E u \in Process :
                    /\ Becomes(p, u)
                    /\ Shaped(u)
                    /\ ~Removing(u)
  <1>1. ~Idle(p) /\ (At(p, "load") \/ At(p, "reload"))
        /\ Head(proc[p].steps) \in {"load", "reload"} /\ proc[p].steps # <<>>
    BY DEF Load, At, Idle
  <1>2. ~Adding(proc[p])
    BY <1>1 DEF Adding
  <1>3. CASE file.state = "broken"
    BY <1>2, <1>3 DEF Load
  <1>4. CASE file.state # "broken"
    <2>1. PICK f \in {Loaded(file), Migrated(file)}, s \in Programs(proc[p].cmd) :
            LET migration == IF f = Loaded(file) THEN <<>> ELSE <<"create", "migrate">>
                rest == IF At(p, "reload") THEN Tail(proc[p].steps)
                        ELSE IF Refuses(f.repos, proc[p].cmd) THEN Refused(proc[p].cmd)
                        ELSE s
            IN Becomes(p, [proc[p] EXCEPT !.cfg = f, !.steps = migration \o rest,
                                          !.late = \E q \in Procs : Saving(q)])
      BY <1>4 DEF Load
    <2> DEFINE c == proc[p].cmd
               migration == IF f = Loaded(file) THEN <<>> ELSE <<"create", "migrate">>
               rest == IF At(p, "reload") THEN Tail(proc[p].steps)
                       ELSE IF Refuses(f.repos, proc[p].cmd) THEN Refused(proc[p].cmd)
                       ELSE s
               t == migration \o rest
               u == [proc[p] EXCEPT !.cfg = f, !.steps = t,
                                    !.late = \E q \in Procs : Saving(q)]
    <2>2. proc[p] \in Process /\ c \in Command /\ proc[p].steps \in Seq(Steps) /\ f \in Held
      BY <1>4, LoadedHeld DEF ConfigTypeOK, Process
    <2>3. Becomes(p, u)
      BY <2>1
    <2>4. ASSUME At(p, "reload")
          PROVE  /\ Tail(proc[p].steps) \in Seq(Steps)
                 /\ Ordered(c, Tail(proc[p].steps))
                 /\ c.do = "fix"
      <3>1. Head(proc[p].steps) = "reload" /\ Tail(proc[p].steps) \in Seq(Steps)
        BY <1>1, <2>2, <2>4 DEF At
      <3>2. c.do = "fix"
        <4>1. 1 \in 1..Len(proc[p].steps) /\ proc[p].steps[1] = "reload"
          BY <1>1, <2>2, <3>1
        <4> QED
          BY <4>1 DEF Shaped, Ordered
      <3> DEFINE v == [proc[p] EXCEPT !.steps = Tail(@)]
      <3>3. /\ v \in Process /\ v.steps = Tail(proc[p].steps) /\ v.cfg = proc[p].cfg
            /\ v.cmd = proc[p].cmd
        BY <1>1, <2>2, Rest DEF Process
      <3> HIDE DEF v
      <3>4. Shaped(v)
        BY <1>1, <2>2, <3>1, <3>3, GoShaped
      <3> QED
        BY <3>1, <3>2, <3>3, <3>4 DEF Shaped
    <2>5. ASSUME ~At(p, "reload"), Refuses(f.repos, c)
          PROVE  /\ rest \in Seq(Steps) /\ Ordered(c, rest)
                 /\ rest # <<>> => Head(rest) # "truncate"
                 /\ \A i \in 1..Len(rest) : rest[i] # "clone"
      <3>1. rest = <<>> \/ rest = Open
        BY <2>5 DEF Refused
      <3>2. /\ Open \in Seq(Steps) /\ Len(Open) = 2 /\ Open[1] = "init" /\ Open[2] = "version"
            /\ Head(Open) = "init"
        BY DEF Open, Steps
      <3>3. \A i \in 1..2 : i = 1 \/ i = 2
        OBVIOUS
      <3>4. <<>> \in Seq(Steps) /\ 1..Len(<<>>) = {}
        OBVIOUS
      <3> HIDE DEF rest
      <3> QED
        BY <3>1, <3>2, <3>3, <3>4 DEF Ordered
    <2>6. ASSUME ~At(p, "reload"), ~Refuses(f.repos, c)
          PROVE  /\ rest = s /\ rest \in Seq(Steps) /\ Ordered(c, rest)
                 /\ c.do = "remove" /\ rest # <<>> => Head(rest) # "truncate"
                 /\ c.do = "add" => c.name \notin DOMAIN f.repos
      <3>1. c.do = "add" => c.name \notin DOMAIN f.repos
        BY <2>6 DEF Refuses
      <3> QED
        BY <2>2, <2>6, <3>1, ProgramsOrdered, ProgramsWhole
    <2>7. /\ rest \in Seq(Steps) /\ Ordered(c, rest)
          /\ c.do = "remove" /\ rest # <<>> => Head(rest) # "truncate"
          /\ c.do = "add" /\ (\E i \in 1..Len(rest) : rest[i] = "clone") =>
                c.name \notin DOMAIN f.repos
      BY <2>4, <2>5, <2>6
    <2> HIDE DEF rest
    <2>8. /\ t \in Seq(Steps) /\ Ordered(c, t)
          /\ c.do = "remove" /\ t # <<>> => Head(t) # "truncate"
          /\ (\E i \in 1..Len(t) : t[i] = "clone") =>
                (\E i \in 1..Len(rest) : rest[i] = "clone")
      <3>1. CASE f = Loaded(file)
        <4>1. t = rest
          BY <2>7, <3>1
        <4> QED
          BY <2>7, <4>1
      <3>2. CASE f # Loaded(file)
        <4>1. t = <<"create", "migrate">> \o rest
          BY <3>2
        <4> HIDE DEF c, t
        <4> QED
          BY <2>2, <2>7, <4>1, MigrationOrdered DEF Keeps
      <3> QED
        BY <3>1, <3>2
    <2>9. t # <<>> => Head(t) # "write"
      <3>1. Whole(migration) /\ migration \in Seq(Steps)
        BY Pieces
      <3>2. Whole(rest)
        <4>1. At(p, "reload") => Whole(Tail(proc[p].steps))
          BY <1>1, <2>2, TailFollows DEF At
        <4>2. Whole(Refused(c)) /\ Whole(s)
          BY <2>2, Pieces, ProgramsWhole DEF Refused
        <4> QED
          BY <4>1, <4>2 DEF rest
      <3>3. Whole(t)
        BY <2>7, <3>1, <3>2, JoinFollows
      <3> QED
        BY <3>3 DEF Whole
    <2> HIDE DEF t
    <2>10. /\ u \in Process /\ u.steps = t /\ u.cfg = f /\ u.cmd = c
      BY <2>2, <2>8 DEF Process
    <2> HIDE DEF u
    <2>11. Shaped(u) /\ ~Removing(u)
      BY <2>7, <2>8, <2>9, <2>10 DEF Shaped, AddsNew, Removing
    <2> QED
      BY <1>2, <2>3, <2>10, <2>11
  <1> QED
    BY <1>3, <1>4

\* What a process that becomes u leaves of the invariant.
LEMMA AfterMove ==
    ASSUME ConfigTypeOK, RowsInv, NEW p \in Procs, NEW u \in Process, Becomes(p, u), Shaped(u)
    PROVE  /\ \A q \in Procs : Shaped(proc'[q])
           /\ \A q \in Procs \ {p} : proc'[q] = proc[q]
           /\ Adding(u) => Adding(proc'[p]) /\ proc'[p].cmd.name = u.cmd.name
           /\ Removing(proc'[p]) => Removing(u) /\ proc'[p].cmd.name = u.cmd.name
           /\ proc'[p] = Resting \/ proc'[p] = u
  <1>1. /\ \A q \in Procs \ {p} : proc'[q] = proc[q]
        /\ proc'[p] = IF u.steps = <<>> THEN Resting ELSE u
    BY BecomesProcess
  <1>2. \A q \in Procs : Shaped(proc'[q])
    BY <1>1, RestingShaped DEF RowsInv
  <1>3. Adding(u) => proc'[p] = u
    BY <1>1 DEF Adding
  <1>4. Removing(proc'[p]) => proc'[p] = u
    BY <1>1, RestingShaped
  <1> QED
    BY <1>1, <1>2, <1>3, <1>4

\* A repository that a step of p has nothing to do with.
LEMMA RowKept ==
    ASSUME NEW n \in Names, RowsAreRight(n), NEW p \in Procs,
           copies'[n] = copies[n], rows'[n] = rows[n],
           n \in DOMAIN wanted'.repos <=> n \in DOMAIN wanted.repos,
           n \in DOMAIN wanted.repos => wanted'.repos[n].at = wanted.repos[n].at,
           n \in behind' <=> n \in behind,
           \A q \in Procs \ {p} : /\ Adding(proc'[q]) <=> Adding(proc[q])
                                  /\ Removing(proc'[q]) <=> Removing(proc[q])
                                  /\ proc'[q].cmd.name = proc[q].cmd.name,
           n \notin DOMAIN wanted.repos /\ Adding(proc[p]) /\ proc[p].cmd.name = n =>
               Adding(proc'[p]) /\ proc'[p].cmd.name = n,
           Removing(proc'[p]) /\ proc'[p].cmd.name = n =>
               Removing(proc[p]) /\ proc[p].cmd.name = n
    PROVE  RowsAreRight(n)'
  <1>1. copies[n] # NoOrigin => rows[n] \subseteq {copies[n]}
    BY DEF RowsAreRight
  <1>2. n \in DOMAIN wanted.repos /\ (n \notin behind \/ copies[n] = NoOrigin) =>
            rows[n] \subseteq {wanted.repos[n].at}
    BY DEF RowsAreRight
  <1>3. ASSUME n \notin DOMAIN wanted.repos, rows[n] # {}
        PROVE  \E q \in Procs : Adding(proc'[q]) /\ proc'[q].cmd.name = n
    <2>1. PICK q \in Procs : Adding(proc[q]) /\ proc[q].cmd.name = n
      BY <1>3 DEF RowsAreRight
    <2> QED
      BY <1>3, <2>1
  <1>4. \A q \in Procs : Removing(proc'[q]) /\ proc'[q].cmd.name = n => copies[n] = NoOrigin
    BY DEF RowsAreRight
  <1> QED
    BY <1>1, <1>2, <1>3, <1>4 DEF RowsAreRight

\* A step that is about no repository.
LEMMA OneMoves ==
    ASSUME ConfigTypeOK, RowsInv, NEW p \in Procs, NEW u \in Process, Becomes(p, u), Shaped(u),
           UNCHANGED <<copies, rows, wanted, behind, torn>>,
           Adding(proc[p]) => Adding(u) /\ u.cmd.name = proc[p].cmd.name,
           Removing(u) => Removing(proc[p]) /\ u.cmd.name = proc[p].cmd.name
    PROVE  RowsInv'
  <1>1. /\ \A q \in Procs : Shaped(proc'[q])
        /\ \A q \in Procs \ {p} : proc'[q] = proc[q]
        /\ Adding(u) => Adding(proc'[p]) /\ proc'[p].cmd.name = u.cmd.name
        /\ Removing(proc'[p]) => Removing(u) /\ proc'[p].cmd.name = u.cmd.name
    BY AfterMove
  <1>2. ASSUME NEW n \in Names \ torn PROVE RowsAreRight(n)'
    <2>1. RowsAreRight(n)
      BY DEF RowsInv
    <2> QED
      BY <1>1, <2>1, RowKept
  <1> QED
    BY <1>1, <1>2 DEF RowsInv

\* A new installation, and an older one.
LEMMA RowsInit == Init => RowsInv
  <1> SUFFICES ASSUME Init PROVE RowsInv
    OBVIOUS
  <1>1. \A p \in Procs : proc[p] = Resting
    BY DEF Init
  <1>2. \A p \in Procs : Shaped(proc[p]) /\ ~Adding(proc[p]) /\ ~Removing(proc[p])
    BY <1>1, RestingShaped
  <1>3. ASSUME NEW n \in Names PROVE RowsAreRight(n)
    <2>1. /\ wanted.repos = Default /\ behind = {}
          /\ DOMAIN Default = {DefaultName}
      BY DEF Init, Empty, Default
    <2>2. rows[n] # {} => n = DefaultName /\ rows[n] = {Default[n].at}
      BY DEF Init
    <2>3. copies[n] # NoOrigin => n = DefaultName /\ copies[n] = Default[n].at
      BY DEF Init
    <2> QED
      BY <1>2, <2>1, <2>2, <2>3 DEF RowsAreRight
  <1> QED
    BY <1>2, <1>3 DEF RowsInv

\* A process that is through with a step other than truncating the file.
LEMMA GoMoves ==
    ASSUME ConfigTypeOK, RowsInv, KeptInv, NEW p \in Procs, ~Idle(p), Go(p),
           Head(proc[p].steps) # "truncate"
    PROVE  \E u \in Process :
              /\ Becomes(p, u) /\ Shaped(u) /\ u.cmd = proc[p].cmd
              /\ Removing(u) => Head(proc[p].steps) = "rmdir"
  <1> DEFINE u == [proc[p] EXCEPT !.steps = Tail(@)]
  <1>1. /\ proc[p] \in Process /\ u \in Process /\ u.steps = Tail(proc[p].steps)
        /\ u.cfg = proc[p].cfg /\ u.cmd = proc[p].cmd
    BY Rest DEF Process
  <1>2. Becomes(p, u)
    BY DEF Go
  <1> HIDE DEF u
  <1>3. Shaped(proc[p]) /\ Follows(proc[p].steps) /\ proc[p].steps # <<>>
    BY DEF RowsInv, KeptInv, Idle
  <1>4. Shaped(u) /\ (Removing(u) => Head(proc[p].steps) = "rmdir")
    BY <1>1, <1>3, GoShaped
  <1> QED
    BY <1>1, <1>2, <1>4

LEMMA RowsStart ==
    ASSUME ConfigTypeOK, RowsInv, NEW p \in Procs, NEW c \in Commands, Start(p, c)
    PROVE  RowsInv'
  <1> DEFINE u == [Resting EXCEPT !.cmd = c, !.steps = <<"load">>]
  <1>1. u \in Process
    <2>1. c \in Command /\ <<"load">> \in Seq(Steps)
      BY DEF Commands, Steps
    <2> QED
      BY <2>1, Constants DEF Process
  <1>2. /\ u.steps = <<"load">> /\ u.cmd = c /\ Len(u.steps) = 1 /\ u.steps[1] = "load"
        /\ Head(u.steps) = "load"
    BY DEF Resting
  <1>3. Becomes(p, u) /\ UNCHANGED <<copies, rows, wanted, behind, torn>> /\ Idle(p)
    BY DEF Start, dataVars, histVars
  <1> HIDE DEF u
  <1>4. \A i \in 1..1 : i = 1
    OBVIOUS
  <1>5. Ordered(u.cmd, u.steps)
    BY <1>2, <1>4 DEF Ordered
  <1>6. Shaped(u) /\ ~Removing(u)
    BY <1>2, <1>4, <1>5 DEF Shaped, AddsNew, Removing
  <1>7. ~Adding(proc[p])
    BY <1>3 DEF Adding, Idle
  <1> QED
    BY <1>1, <1>3, <1>6, <1>7, OneMoves

\* A process that ends.
LEMMA RowsEnd ==
    ASSUME ConfigTypeOK, RowsInv, NEW p \in Procs, Ends(p), ~Adding(proc[p]),
           UNCHANGED <<copies, rows, wanted, behind, torn>>
    PROVE  RowsInv'
  BY OneMoves, RestingShaped, Constants DEF Ends

LEMMA RowsLoad ==
    ASSUME ConfigTypeOK, KeptInv, RowsInv, NEW p \in Procs, Load(p)
    PROVE  RowsInv'
  <1>1. UNCHANGED <<copies, rows, wanted, behind, torn>>
    BY DEF Load, dataVars, histVars
  <1>2. Shaped(proc[p]) /\ Follows(proc[p].steps)
    BY DEF RowsInv, KeptInv
  <1>3. /\ ~Adding(proc[p])
        /\ Ends(p) \/ \E u \in Process : Becomes(p, u) /\ Shaped(u) /\ ~Removing(u)
    BY <1>2, LoadShaped
  <1> QED
    BY <1>1, <1>3, RowsEnd, OneMoves

LEMMA RowsTruncate ==
    ASSUME ConfigTypeOK, KeptInv, RowsInv, NEW p \in Procs, Truncate(p)
    PROVE  RowsInv'
  <1>1. /\ ~Idle(p) /\ (At(p, "truncate") \/ At(p, "create"))
        /\ Head(proc[p].steps) \in {"truncate", "create"}
        /\ UNCHANGED <<copies, rows, wanted, behind, torn>>
    BY DEF Truncate, At, dataVars, histVars
  <1>2. /\ proc[p] \in Process /\ proc[p].cfg \in Held /\ proc[p].cmd \in Command
        /\ proc[p].steps \in Seq(Steps) /\ proc[p].steps # <<>>
        /\ \A q \in Procs : proc[q] \in Process
        /\ Shaped(proc[p]) /\ Follows(proc[p].steps)
    BY <1>1 DEF ConfigTypeOK, Process, Idle, RowsInv, KeptInv
  <1> DEFINE u == [proc[p] EXCEPT !.steps = Tail(@),
                                  !.cfg = IF At(p, "create") THEN @ ELSE Edit(@, proc[p].cmd)]
  <1>3. /\ u.steps = Tail(proc[p].steps) /\ u.cmd = proc[p].cmd
        /\ u.cfg = IF At(p, "create") THEN proc[p].cfg ELSE Edit(proc[p].cfg, proc[p].cmd)
    BY <1>2 DEF Process
  <1>4. u \in Process
    <2>1. Edit(proc[p].cfg, proc[p].cmd) \in Held
      BY <1>2, EditHeld
    <2>2. Tail(proc[p].steps) \in Seq(Steps)
      BY <1>2
    <2> QED
      BY <1>2, <2>1, <2>2 DEF Process
  <1>5. /\ proc'[p] = u
        /\ \A q \in Procs \ {p} : /\ proc'[q].steps = proc[q].steps
                                  /\ proc'[q].cmd = proc[q].cmd
                                  /\ proc'[q].cfg = proc[q].cfg
    BY <1>2 DEF Truncate, Process
  <1> HIDE DEF u
  <1>6. /\ Shaped(u)
        /\ Removing(u) => Removing(proc[p])
        /\ Adding(proc[p]) => Adding(u)
    <2>1. CASE At(p, "create")
      <3>1. Head(proc[p].steps) = "create"
        BY <2>1 DEF At
      <3> QED
        BY <1>2, <1>3, <1>4, <2>1, <3>1, GoShaped DEF Adding
    <2>2. CASE ~At(p, "create")
      <3>1. Head(proc[p].steps) = "truncate"
        BY <1>1, <2>2 DEF At
      <3>2. ASSUME u.cmd.do = "add" PROVE u.cmd.name \in DOMAIN u.cfg.repos
        <4>1. u.cfg.repos = Edited(proc[p].cfg.repos, proc[p].cmd)
          BY <1>2, <1>3, <2>2, <3>2 DEF Edit, Held
        <4> QED
          BY <1>3, <3>2, <4>1 DEF Edited
      <3> QED
        BY <1>2, <1>3, <1>4, <3>1, <3>2, TruncateShaped
    <2> QED
      BY <2>1, <2>2
  <1>7. \A q \in Procs \ {p} : /\ Adding(proc'[q]) <=> Adding(proc[q])
                               /\ Removing(proc'[q]) <=> Removing(proc[q])
                               /\ proc'[q].cmd.name = proc[q].cmd.name
                               /\ Shaped(proc'[q])
    BY <1>5 DEF RowsInv, Adding, Removing, Shaped, AddsNew
  <1>8. ASSUME NEW n \in Names \ torn PROVE RowsAreRight(n)'
    <2>1. RowsAreRight(n)
      BY DEF RowsInv
    <2> QED
      BY <1>1, <1>3, <1>5, <1>6, <1>7, <2>1, RowKept
  <1> QED
    BY <1>1, <1>5, <1>6, <1>7, <1>8 DEF RowsInv

\* The steps that are about the version of the database alone, and the end of
\* a pull.
LEMMA RowsAside ==
    ASSUME ConfigTypeOK, KeptInv, RowsInv, NEW p \in Procs,
           OpenDatabase(p) \/ AddVersion(p) \/ PullsDone(p)
    PROVE  RowsInv'
  <1>1. /\ ~Idle(p) /\ Head(proc[p].steps) \in {"init", "version", "pull"}
        /\ UNCHANGED <<copies, rows, wanted, behind, torn>>
    BY DEF OpenDatabase, AddVersion, PullsDone, At, dataVars, histVars
  <1>2. ~Adding(proc[p])
    BY <1>1 DEF Adding
  <1>3. CASE Go(p)
    BY <1>1, <1>2, <1>3, GoMoves, OneMoves
  <1>4. CASE OpenDatabase(p) /\ schema = "old"
    <2> DEFINE u == [proc[p] EXCEPT !.steps = <<"reset">> \o @]
    <2>1. /\ proc[p] \in Process /\ proc[p].steps \in Seq(Steps) /\ proc[p].steps # <<>>
          /\ proc[p].cmd \in Command
          /\ Ordered(proc[p].cmd, proc[p].steps) /\ AddsNew(proc[p])
      BY <1>1 DEF ConfigTypeOK, Process, Idle, RowsInv, Shaped
    <2>2. <<"reset">> \o proc[p].steps \in Seq(Steps)
      BY <2>1 DEF Steps
    <2>3. /\ u \in Process /\ u.steps = <<"reset">> \o proc[p].steps
          /\ u.cfg = proc[p].cfg /\ u.cmd = proc[p].cmd
      BY <2>1, <2>2 DEF Process
    <2>4. Becomes(p, u)
      BY <1>4 DEF OpenDatabase
    <2> HIDE DEF u
    <2>5. PICK c : c = proc[p].cmd
      OBVIOUS
    <2>6. PICK t : t = proc[p].steps
      OBVIOUS
    <2>7. PICK s : s = u.steps
      OBVIOUS
    <2>8. "reset" \in Steps
      BY DEF Steps
    <2>9. Led("reset", t, s)
      BY <2>1, <2>3, <2>6, <2>7, <2>8, Prefixed
    <2>10. c \in Command /\ t \in Seq(Steps) /\ Ordered(c, t) /\ Keeps(c, t)
      BY <1>1, <2>1, <2>5, <2>6 DEF Keeps
    <2>11. /\ Ordered(c, s)
           /\ \A i \in 1..Len(s) : s[i] = "clone" => \E j \in 1..Len(t) : t[j] = "clone"
      BY <2>8, <2>9, <2>10, PrefixOrdered
    <2>12. Head(s) = "reset"
      BY <2>9 DEF Led
    <2>13. AddsNew(u)
      BY <2>1, <2>3, <2>5, <2>6, <2>7, <2>11, <2>12 DEF AddsNew
    <2>14. Shaped(u) /\ ~Removing(u)
      BY <2>3, <2>5, <2>7, <2>11, <2>12, <2>13 DEF Shaped, Removing
    <2> QED
      BY <1>1, <1>2, <2>3, <2>4, <2>14, OneMoves
  <1> QED
    BY <1>3, <1>4 DEF OpenDatabase, AddVersion, PullsDone

\* A process that nobody disturbs is alone, with what was asked for.
LEMMA Alone ==
    ASSUME KeptInv, NEW p \in Procs, Holds(p), ~Saving(p), ~Disturbed(p)
    PROVE  /\ \A q \in Procs \ {p} : ~Adding(proc[q]) /\ ~Removing(proc[q])
           /\ proc[p].cfg.repos = wanted.repos
  <1>1. \A q \in Procs \ {p} : ~Holds(q)
    BY DEF Disturbed
  <1>2. \A q \in Procs \ {p} : ~Adding(proc[q]) /\ ~Removing(proc[q])
    BY <1>1 DEF Holds, At, Idle, Adding, Removing
  <1>3. CopyIsRight(p) /\ ~proc[p].late
    BY DEF KeptInv, Disturbed
  <1> QED
    BY <1>2, <1>3 DEF CopyIsRight, Same

\* The steps that empty rows.
LEMMA RowsEmptied ==
    ASSUME ConfigTypeOK, KeptInv, RowsInv, NEW p \in Procs,
           Reset(p) \/ DeleteRows(p) \/ WipeRows(p)
    PROVE  RowsInv'
  <1>1. /\ ~Idle(p) /\ Head(proc[p].steps) \in {"reset", "delete", "wiperows"} /\ Go(p)
        /\ UNCHANGED <<copies, wanted>>
    BY DEF Reset, DeleteRows, WipeRows, At, histVars
  <1>2. Holds(p) /\ ~Saving(p) /\ ~Adding(proc[p])
    BY <1>1 DEF Holds, Saving, At, Adding
  <1>3. PICK u \in Process : Becomes(p, u) /\ Shaped(u) /\ ~Removing(u)
    BY <1>1, GoMoves
  <1>4. /\ \A q \in Procs : Shaped(proc'[q])
        /\ \A q \in Procs \ {p} : proc'[q] = proc[q]
        /\ ~Removing(proc'[p])
    BY <1>3, AfterMove
  <1>5. ASSUME NEW n \in Names, rows'[n] = {},
               \A q \in Procs \ {p} : Removing(proc[q]) /\ proc[q].cmd.name = n =>
                                          copies[n] = NoOrigin
        PROVE  RowsAreRight(n)'
    BY <1>1, <1>4, <1>5 DEF RowsAreRight
  <1>6. ASSUME NEW n \in Names \ torn, rows'[n] = {} PROVE RowsAreRight(n)'
    <2>1. RowsAreRight(n)
      BY DEF RowsInv
    <2> QED
      BY <1>5, <1>6, <2>1 DEF RowsAreRight
  <1>7. ASSUME NEW n \in Names, rows'[n] = {}, ~Disturbed(p) PROVE RowsAreRight(n)'
    BY <1>2, <1>5, <1>7, Alone
  <1>8. CASE Reset(p)
    <2>1. torn' = torn /\ \A n \in Names : rows'[n] = {}
      BY <1>8 DEF Reset, histVars
    <2> QED
      BY <1>4, <1>6, <2>1 DEF RowsInv
  <1>9. CASE DeleteRows(p)
    <2> DEFINE m == proc[p].cmd.name
    <2>1. /\ rows' = [rows EXCEPT ![m] = {}] /\ behind' = behind \ {m}
          /\ torn' = IF Disturbed(p) THEN torn \cup {m} ELSE torn \ {m}
      BY <1>9 DEF DeleteRows
    <2> HIDE DEF m
    <2>2. ASSUME NEW n \in Names \ torn' PROVE RowsAreRight(n)'
      <3>1. CASE n = m
        <4>1. rows'[n] = {} /\ ~Disturbed(p)
          BY <2>1, <2>2, <3>1 DEF ConfigTypeOK
        <4> QED
          BY <1>7, <4>1
      <3>2. CASE n # m
        <4>1. n \notin torn /\ rows'[n] = rows[n] /\ (n \in behind' <=> n \in behind)
          BY <2>1, <2>2, <3>2 DEF ConfigTypeOK
        <4>2. RowsAreRight(n)
          BY <4>1 DEF RowsInv
        <4> QED
          BY <1>1, <1>2, <1>4, <4>1, <4>2, RowKept
      <3> QED
        BY <3>1, <3>2
    <2> QED
      BY <1>4, <2>2 DEF RowsInv
  <1>10. CASE WipeRows(p)
    <2>1. CASE UNCHANGED <<rows, behind, torn>>
      <3>1. ASSUME NEW n \in Names \ torn PROVE RowsAreRight(n)'
        <4>1. RowsAreRight(n)
          BY DEF RowsInv
        <4> QED
          BY <1>1, <1>2, <1>4, <2>1, <4>1, RowKept
      <3> QED
        BY <1>4, <2>1, <3>1 DEF RowsInv
    <2>2. CASE /\ \A n \in Names : rows'[n] = {}
               /\ torn' = IF Disturbed(p) THEN Names ELSE {}
      <3>1. ASSUME NEW n \in Names \ torn' PROVE RowsAreRight(n)'
        BY <1>7, <2>2
      <3> QED
        BY <1>4, <3>1 DEF RowsInv
    <2> QED
      BY <1>10, <2>1, <2>2 DEF WipeRows, WipedRows
  <1> QED
    BY <1>8, <1>9, <1>10

\* The steps that remove working copies.
LEMMA RowsUncopied ==
    ASSUME ConfigTypeOK, KeptInv, RowsInv, NEW p \in Procs, RemoveCopy(p) \/ WipeCopies(p)
    PROVE  RowsInv'
  <1>1. /\ ~Idle(p) /\ Head(proc[p].steps) \in {"rmdir", "wipecopies"} /\ Go(p)
        /\ UNCHANGED <<rows, wanted, behind>>
    BY DEF RemoveCopy, WipeCopies, At
  <1>2. ~Adding(proc[p])
    BY <1>1 DEF Adding
  <1>3. PICK u \in Process : /\ Becomes(p, u) /\ Shaped(u) /\ u.cmd = proc[p].cmd
                             /\ Removing(u) => Head(proc[p].steps) = "rmdir"
    BY <1>1, GoMoves
  <1>4. /\ \A q \in Procs : Shaped(proc'[q])
        /\ \A q \in Procs \ {p} : proc'[q] = proc[q]
        /\ Removing(proc'[p]) => /\ Head(proc[p].steps) = "rmdir"
                                 /\ proc'[p].cmd.name = proc[p].cmd.name
    BY <1>3, AfterMove
  <1>5. ASSUME NEW n \in Names \ torn, n \notin behind, copies'[n] = NoOrigin
        PROVE  RowsAreRight(n)'
    <2>1. RowsAreRight(n)
      BY DEF RowsInv
    <2>2. n \in DOMAIN wanted.repos => rows[n] \subseteq {wanted.repos[n].at}
      BY <1>5, <2>1 DEF RowsAreRight
    <2>3. ASSUME n \notin DOMAIN wanted.repos, rows[n] # {}
          PROVE  \E q \in Procs : Adding(proc'[q]) /\ proc'[q].cmd.name = n
      <3>1. PICK q \in Procs : Adding(proc[q]) /\ proc[q].cmd.name = n
        BY <2>1, <2>3 DEF RowsAreRight
      <3> QED
        BY <1>2, <1>4, <3>1
    <2> QED
      BY <1>1, <1>5, <2>2, <2>3 DEF RowsAreRight
  <1>6. ASSUME NEW n \in Names \ torn, copies'[n] = copies[n],
               Head(proc[p].steps) = "rmdir" => n # proc[p].cmd.name
        PROVE  RowsAreRight(n)'
    <2>1. RowsAreRight(n)
      BY DEF RowsInv
    <2> QED
      BY <1>1, <1>2, <1>4, <1>6, <2>1, RowKept
  <1>7. CASE RemoveCopy(p)
    <2> DEFINE m == proc[p].cmd.name
    <2>1. /\ copies' = [copies EXCEPT ![m] = NoOrigin]
          /\ torn' = IF m \in behind \/ Disturbed(p) THEN torn \cup {m} ELSE torn
      BY <1>7 DEF RemoveCopy
    <2> HIDE DEF m
    <2>2. ASSUME NEW n \in Names \ torn' PROVE RowsAreRight(n)'
      <3>1. CASE n = m
        BY <1>5, <2>1, <2>2, <3>1 DEF ConfigTypeOK
      <3>2. CASE n # m
        BY <1>6, <2>1, <2>2, <3>2 DEF ConfigTypeOK, m
      <3> QED
        BY <3>1, <3>2
    <2> QED
      BY <1>4, <2>2 DEF RowsInv
  <1>8. CASE WipeCopies(p)
    <2>1. Head(proc[p].steps) = "wipecopies"
      BY <1>8 DEF WipeCopies, At
    <2>2. CASE UNCHANGED <<copies, torn>>
      BY <1>4, <1>6, <2>1, <2>2 DEF RowsInv
    <2>3. CASE /\ copies' = [n \in Names |-> NoOrigin]
               /\ torn' = torn \cup (IF Disturbed(p) THEN Names ELSE behind)
      <3>1. ASSUME NEW n \in Names \ torn' PROVE RowsAreRight(n)'
        BY <1>5, <2>3
      <3> QED
        BY <1>4, <3>1 DEF RowsInv
    <2> QED
      BY <1>8, <2>2, <2>3 DEF WipeCopies
  <1> QED
    BY <1>7, <1>8

\* A pull that ends well leaves rows of what was pulled.
LEMMA PulledRight ==
    ASSUME NEW n \in Names, NEW o, RowsAreRight(n),
           n \in DOMAIN wanted.repos => wanted.repos[n].at = o,
           n \notin DOMAIN wanted.repos => rows[n] = {}
    PROVE  PulledRows(n, o) \subseteq {o}
  BY DEF PulledRows, RowsAreRight

LEMMA RowsPull ==
    ASSUME ConfigTypeOK, KeptInv, RowsInv, NEW p \in Procs, Pull(p)
    PROVE  RowsInv'
  <1>1. /\ ~Idle(p) /\ Head(proc[p].steps) = "pull" /\ wanted' = wanted
        /\ Holds(p) /\ ~Saving(p) /\ ~Adding(proc[p]) /\ ~Removing(proc[p])
    BY DEF Pull, At, Holds, Saving, Adding, Removing
  <1>2. /\ proc[p] \in Process /\ proc[p].pulled \subseteq Names
        /\ proc[p].cfg.repos \in RepoTable
    BY DEF ConfigTypeOK, Process, Held
  <1>3. PICK n \in DOMAIN proc[p].cfg.repos :
          \/ /\ PullOk(p, n, proc[p].cfg.repos[n].at)
             /\ Becomes(p, [proc[p] EXCEPT !.pulled = @ \cup {n}])
          \/ /\ PullTears(p, n, proc[p].cfg.repos[n].at)
             /\ Ends(p)
    BY DEF Pull
  <1>4. n \in Names
    BY <1>2, Tables
  <1>5. PICK o : o = proc[p].cfg.repos[n].at
    OBVIOUS
  <1>6. \E u \in Process : Becomes(p, u) /\ Shaped(u) /\ ~Removing(u)
    <2>1. CASE Ends(p)
      BY <2>1, Constants, RestingShaped DEF Ends
    <2>2. CASE ~Ends(p)
      <3> DEFINE u == [proc[p] EXCEPT !.pulled = @ \cup {n}]
      <3>1. u \in Process /\ u.steps = proc[p].steps /\ u.cfg = proc[p].cfg /\ u.cmd = proc[p].cmd
        BY <1>2, <1>4 DEF Process
      <3>2. Becomes(p, u)
        BY <1>3, <2>2
      <3> HIDE DEF u
      <3>3. Shaped(proc[p])
        BY DEF RowsInv
      <3>4. Shaped(u)
        BY <3>1, <3>3 DEF Shaped, AddsNew
      <3>5. ~Removing(u)
        BY <1>1, <3>1 DEF Removing
      <3> QED
        BY <3>1, <3>2, <3>4, <3>5
    <2> QED
      BY <2>1, <2>2
  <1>7. /\ \A q \in Procs : Shaped(proc'[q])
        /\ \A q \in Procs \ {p} : proc'[q] = proc[q]
        /\ ~Removing(proc'[p])
    BY <1>6, AfterMove
  <1>8. ASSUME NEW m \in Names \ torn, m # n, copies'[m] = copies[m], rows'[m] = rows[m],
               m \in behind' <=> m \in behind
        PROVE  RowsAreRight(m)'
    <2>1. RowsAreRight(m)
      BY DEF RowsInv
    <2> QED
      BY <1>1, <1>7, <1>8, <2>1, RowKept
  <1>9. CASE PullOk(p, n, o)
    <2>1. /\ copies' = [copies EXCEPT ![n] = o]
          /\ rows' = [rows EXCEPT ![n] = PulledRows(n, o)]
          /\ behind' = behind \ {n}
          /\ torn' = IF Disturbed(p) THEN torn \cup {n} ELSE torn
      BY <1>9 DEF PullOk
    <2>2. copies'[n] = o /\ rows'[n] = PulledRows(n, o)
          /\ \A m \in Names \ {n} : copies'[m] = copies[m] /\ rows'[m] = rows[m]
      BY <1>4, <2>1 DEF ConfigTypeOK
    <2>3. ASSUME n \notin torn' PROVE RowsAreRight(n)'
      <3>1. ~Disturbed(p) /\ RowsAreRight(n)
        BY <1>4, <2>1, <2>3 DEF RowsInv
      <3>2. /\ \A q \in Procs \ {p} : ~Removing(proc[q])
            /\ proc[p].cfg.repos = wanted.repos
        BY <1>1, <3>1, Alone
      <3>3. n \in DOMAIN wanted.repos /\ wanted.repos[n].at = o
        BY <1>5, <3>2
      <3>4. rows'[n] \subseteq {o}
        BY <1>4, <2>2, <3>1, <3>3, PulledRight
      <3>5. \A q \in Procs : ~Removing(proc'[q])
        BY <1>7, <3>2
      <3> QED
        BY <1>1, <2>2, <3>3, <3>4, <3>5 DEF RowsAreRight
    <2>4. ASSUME NEW m \in Names \ torn', m # n PROVE RowsAreRight(m)'
      BY <1>8, <2>1, <2>2, <2>4
    <2> QED
      BY <1>7, <2>3, <2>4 DEF RowsInv
  <1>10. CASE PullTears(p, n, o)
    <2>1. /\ copies' = [copies EXCEPT ![n] = o] /\ torn' = torn \cup {n} /\ behind' = behind
          /\ rows' \in {rows, [rows EXCEPT ![n] = @ \cup {o}]}
      BY <1>10 DEF PullTears
    <2>2. \A m \in Names \ {n} : copies'[m] = copies[m] /\ rows'[m] = rows[m]
      BY <2>1 DEF ConfigTypeOK
    <2>3. ASSUME NEW m \in Names \ torn' PROVE RowsAreRight(m)'
      BY <1>8, <2>1, <2>2
    <2> QED
      BY <1>7, <2>3 DEF RowsInv
  <1> QED
    BY <1>3, <1>5, <1>9, <1>10

LEMMA RowsClone ==
    ASSUME ConfigTypeOK, KeptInv, RowsInv, NEW p \in Procs, Clone(p)
    PROVE  RowsInv'
  <1>1. /\ ~Idle(p) /\ Head(proc[p].steps) = "clone" /\ wanted' = wanted
        /\ Holds(p) /\ ~Saving(p) /\ ~Adding(proc[p]) /\ ~Removing(proc[p])
    BY DEF Clone, At, Holds, Saving, Adding, Removing
  <1>2. /\ proc[p] \in Process /\ proc[p].cmd \in Command /\ proc[p].steps \in Seq(Steps)
        /\ proc[p].steps # <<>> /\ Shaped(proc[p]) /\ Follows(proc[p].steps)
    BY <1>1 DEF ConfigTypeOK, Process, RowsInv, KeptInv, Idle
  <1>3. PICK n : n = proc[p].cmd.name
    OBVIOUS
  <1>4. PICK o : o = [url |-> proc[p].cmd.url, ref |-> proc[p].cmd.ref]
    OBVIOUS
  <1>5. n \in Names
    BY <1>2, <1>3 DEF Command
  <1>6. \/ /\ PullOk(p, n, o)
           /\ \E t \in Origins :
                 Becomes(p, [proc[p] EXCEPT !.steps = Tail(@), !.cmd.url = t.url,
                                            !.cmd.ref = t.ref])
        \/ PullTears(p, n, o) /\ Ends(p)
    BY <1>3, <1>4 DEF Clone
  <1>7. ASSUME NEW m \in Names \ torn, m # n, copies'[m] = copies[m], rows'[m] = rows[m],
               m \in behind' <=> m \in behind,
               \A q \in Procs \ {p} : proc'[q] = proc[q],
               Removing(proc'[p]) => FALSE
        PROVE  RowsAreRight(m)'
    <2>1. RowsAreRight(m)
      BY DEF RowsInv
    <2> QED
      BY <1>1, <1>7, <2>1, RowKept
  <1>8. CASE /\ PullOk(p, n, o)
             /\ \E t \in Origins :
                   Becomes(p, [proc[p] EXCEPT !.steps = Tail(@), !.cmd.url = t.url,
                                              !.cmd.ref = t.ref])
    <2>1. PICK t \in Origins :
             Becomes(p, [proc[p] EXCEPT !.steps = Tail(@), !.cmd.url = t.url, !.cmd.ref = t.ref])
      BY <1>8
    <2> DEFINE u == [proc[p] EXCEPT !.steps = Tail(@), !.cmd.url = t.url, !.cmd.ref = t.ref]
    <2>2. t.url \in Urls /\ t.ref \in Refs
      BY DEF Origins
    <2>3. [proc[p].cmd EXCEPT !.url = t.url, !.ref = t.ref] \in Command
      BY <1>2, <2>2 DEF Command
    <2>4. /\ u \in Process /\ u.steps = Tail(proc[p].steps) /\ u.cfg = proc[p].cfg
      BY <1>1, <1>2, <2>3, Rest DEF Process
    <2>5. u.cmd.do = proc[p].cmd.do /\ u.cmd.name = proc[p].cmd.name
      BY <1>2 DEF Process, Command
    <2>6. Becomes(p, u)
      BY <2>1
    <2> HIDE DEF u
    <2>7. Shaped(u) /\ ~Removing(u) /\ Adding(u)
      BY <1>1, <1>2, <2>4, <2>5, GoShaped
    <2>8. /\ \A q \in Procs : Shaped(proc'[q])
          /\ \A q \in Procs \ {p} : proc'[q] = proc[q]
          /\ ~Removing(proc'[p])
          /\ Adding(proc'[p]) /\ proc'[p].cmd.name = n
      BY <1>3, <2>4, <2>5, <2>6, <2>7, AfterMove
    <2>9. /\ copies' = [copies EXCEPT ![n] = o]
          /\ rows' = [rows EXCEPT ![n] = PulledRows(n, o)]
          /\ behind' = behind \ {n}
          /\ torn' = IF Disturbed(p) THEN torn \cup {n} ELSE torn
      BY <1>8 DEF PullOk
    <2>10. copies'[n] = o /\ rows'[n] = PulledRows(n, o)
           /\ \A m \in Names \ {n} : copies'[m] = copies[m] /\ rows'[m] = rows[m]
      BY <1>5, <2>9 DEF ConfigTypeOK
    <2>11. ASSUME n \notin torn' PROVE RowsAreRight(n)'
      <3>1. ~Disturbed(p) /\ RowsAreRight(n)
        BY <1>5, <2>9, <2>11 DEF RowsInv
      <3>2. /\ \A q \in Procs \ {p} : ~Adding(proc[q]) /\ ~Removing(proc[q])
            /\ proc[p].cfg.repos = wanted.repos
        BY <1>1, <3>1, Alone
      <3>3. n \notin DOMAIN wanted.repos
        <4>1. proc[p].cmd.do = "add" /\ \E i \in 1..Len(proc[p].steps) : proc[p].steps[i] = "clone"
          <5>1. 1 \in 1..Len(proc[p].steps) /\ proc[p].steps[1] = "clone"
            BY <1>1, <1>2
          <5> QED
            BY <1>2, <5>1 DEF Shaped, Ordered
        <4> QED
          BY <1>2, <1>3, <3>2, <4>1 DEF Shaped, AddsNew
      <3>4. rows[n] = {}
        BY <1>1, <3>1, <3>2, <3>3 DEF RowsAreRight
      <3>5. rows'[n] \subseteq {o}
        BY <1>5, <2>10, <3>1, <3>3, <3>4, PulledRight
      <3>6. \A q \in Procs : ~Removing(proc'[q])
        BY <2>8, <3>2
      <3> QED
        BY <1>1, <2>8, <2>10, <3>3, <3>5, <3>6 DEF RowsAreRight
    <2>12. ASSUME NEW m \in Names \ torn', m # n PROVE RowsAreRight(m)'
      BY <1>7, <2>8, <2>9, <2>10, <2>12
    <2> QED
      BY <2>8, <2>11, <2>12 DEF RowsInv
  <1>9. CASE PullTears(p, n, o) /\ Ends(p)
    <2>1. /\ \A q \in Procs : Shaped(proc'[q])
          /\ \A q \in Procs \ {p} : proc'[q] = proc[q]
          /\ ~Removing(proc'[p])
      BY <1>9, AfterMove, Constants, RestingShaped DEF Ends
    <2>2. /\ copies' = [copies EXCEPT ![n] = o] /\ torn' = torn \cup {n} /\ behind' = behind
          /\ rows' \in {rows, [rows EXCEPT ![n] = @ \cup {o}]}
      BY <1>9 DEF PullTears
    <2>3. \A m \in Names \ {n} : copies'[m] = copies[m] /\ rows'[m] = rows[m]
      BY <2>2 DEF ConfigTypeOK
    <2>4. ASSUME NEW m \in Names \ torn' PROVE RowsAreRight(m)'
      BY <1>7, <2>1, <2>2, <2>3
    <2> QED
      BY <2>1, <2>4 DEF RowsInv
  <1> QED
    BY <1>6, <1>8, <1>9

LEMMA RowsWrite ==
    ASSUME ConfigTypeOK, KeptInv, RowsInv, NEW p \in Procs, Write(p)
    PROVE  RowsInv'
  <1>1. /\ ~Idle(p) /\ Head(proc[p].steps) \in {"write", "migrate"} /\ Go(p)
        /\ At(p, "migrate") <=> Head(proc[p].steps) = "migrate"
        /\ UNCHANGED <<copies, rows>>
    BY DEF Write, Saving, At, dataVars
  <1>2. /\ wanted' = IF proc[p].late THEN proc[p].cfg ELSE Asked(p)
        /\ torn' = torn \cup Differ(wanted', Asked(p))
                        \cup {n \in Differ(wanted', wanted) : copies[n] = NoOrigin /\ rows[n] # {}}
        /\ behind' = behind \cup {n \in Differ(wanted', wanted) \cap DOMAIN wanted'.repos :
                                   copies[n] # wanted'.repos[n].at}
    BY DEF Write
  <1>3. /\ Shaped(proc[p]) /\ proc[p].steps # <<>> /\ wanted \in Config
    BY <1>1 DEF RowsInv, Idle, ConfigTypeOK
  <1>4. PICK u \in Process : Becomes(p, u) /\ Shaped(u) /\ ~Removing(u)
    BY <1>1, GoMoves
  <1>5. /\ \A q \in Procs : Shaped(proc'[q])
        /\ \A q \in Procs \ {p} : proc'[q] = proc[q]
        /\ ~Removing(proc'[p])
    BY <1>4, AfterMove
  <1>6. /\ At(p, "migrate") => Asked(p).repos = wanted.repos
        /\ ~At(p, "migrate") => Asked(p).repos = Edited(wanted.repos, proc[p].cmd)
    BY <1>3 DEF Asked, Config
  <1>7. \A n \in Names \ torn' : /\ RowsAreRight(n) /\ n \notin torn
                                 /\ n \notin Differ(wanted', Asked(p))
                                 /\ n \in Differ(wanted', wanted) =>
                                       copies[n] # NoOrigin \/ rows[n] = {}
    BY <1>2 DEF RowsInv
  <1>8. Adding(proc[p]) => proc[p].cmd.name \in DOMAIN wanted'.repos
    <2> SUFFICES ASSUME Adding(proc[p]) PROVE proc[p].cmd.name \in DOMAIN wanted'.repos
      OBVIOUS
    <2>1. proc[p].cmd.do = "add" /\ Head(proc[p].steps) = "write"
      BY <1>1 DEF Adding
    <2>2. proc[p].cmd.name \in DOMAIN proc[p].cfg.repos
      BY <1>3, <2>1 DEF Shaped, AddsNew
    <2>3. proc[p].cmd.name \in DOMAIN Asked(p).repos
      BY <1>1, <1>6, <2>1 DEF Edited
    <2> QED
      BY <1>2, <2>2, <2>3
  <1>9. ASSUME NEW n \in Names \ torn', n \notin Differ(wanted', wanted)
        PROVE  RowsAreRight(n)'
    <2>1. /\ n \in DOMAIN wanted'.repos <=> n \in DOMAIN wanted.repos
          /\ n \in DOMAIN wanted.repos => wanted'.repos[n].at = wanted.repos[n].at
      BY <1>9 DEF Differ
    <2>2. n \in behind' <=> n \in behind
      BY <1>2, <1>9
    <2>3. n \notin DOMAIN wanted.repos /\ Adding(proc[p]) => proc[p].cmd.name # n
      BY <1>8, <2>1
    <2> QED
      BY <1>1, <1>5, <1>7, <2>1, <2>2, <2>3, RowKept
  <1>10. ASSUME NEW n \in Names \ torn', n \in Differ(wanted', wanted)
         PROVE  RowsAreRight(n)'
    <2>1. /\ RowsAreRight(n)
          /\ n \notin Differ(wanted', Asked(p))
          /\ copies[n] # NoOrigin \/ rows[n] = {}
      BY <1>7, <1>10
    <2>2. copies[n] # NoOrigin => rows[n] \subseteq {copies[n]}
      BY <2>1 DEF RowsAreRight
    <2>3. ASSUME n \in DOMAIN wanted'.repos, n \notin behind' \/ copies[n] = NoOrigin
          PROVE  rows[n] \subseteq {wanted'.repos[n].at}
      BY <1>2, <1>10, <2>1, <2>2, <2>3
    <2>4. ASSUME n \notin DOMAIN wanted'.repos PROVE rows[n] = {}
      <3>1. n \in DOMAIN wanted.repos /\ n \notin DOMAIN Asked(p).repos
        BY <1>10, <2>1, <2>4 DEF Differ
      <3>2. /\ ~At(p, "migrate")
            /\ n \notin DOMAIN Edited(wanted.repos, proc[p].cmd)
        BY <1>6, <3>1
      <3>3. proc[p].cmd.do = "remove" /\ proc[p].cmd.name = n
        BY <3>1, <3>2 DEF Edited, Restrict
      <3>4. Removing(proc[p])
        BY <1>1, <1>3, <3>2, <3>3 DEF Removing
      <3> QED
        BY <2>1, <3>3, <3>4 DEF RowsAreRight
    <2>5. \A q \in Procs : Removing(proc'[q]) /\ proc'[q].cmd.name = n => copies[n] = NoOrigin
      BY <1>5, <2>1 DEF RowsAreRight
    <2> QED
      BY <1>1, <2>2, <2>3, <2>4, <2>5 DEF RowsAreRight
  <1> QED
    BY <1>5, <1>9, <1>10 DEF RowsInv

LEMMA RowsAbort ==
    ASSUME ConfigTypeOK, KeptInv, RowsInv, NEW p \in Procs, Abort(p)
    PROVE  RowsInv'
  <1> DEFINE left == Range(proc[p].steps)
             half == \/ proc[p].cmd.do = "remove" /\ "delete" \in left /\ "truncate" \notin left
                     \/ proc[p].cmd.do = "add" /\ "clone" \notin left /\ "load" \notin left
  <1>1. /\ ~Idle(p) /\ Ends(p) /\ UNCHANGED <<copies, rows, behind>>
        /\ wanted' = IF Saving(p) THEN file' ELSE wanted
        /\ torn' = torn \cup (IF Saving(p) THEN Differ(wanted, file') ELSE {})
                        \cup (IF half THEN {proc[p].cmd.name} ELSE {})
    BY DEF Abort, dataVars
  <1>2. /\ \A q \in Procs : Shaped(proc'[q])
        /\ \A q \in Procs \ {p} : proc'[q] = proc[q]
        /\ ~Removing(proc'[p])
    BY <1>1, AfterMove, Constants, RestingShaped DEF Ends
  <1>3. Adding(proc[p]) => half
    <2> SUFFICES ASSUME Adding(proc[p]) PROVE "clone" \notin left /\ "load" \notin left
      BY DEF Adding
    <2>1. /\ proc[p].steps \in Seq(Steps) /\ proc[p].steps # <<>>
          /\ Ordered(proc[p].cmd, proc[p].steps)
      BY <1>1 DEF ConfigTypeOK, Process, RowsInv, Shaped, Idle
    <2>2. PICK s : s = proc[p].steps
      OBVIOUS
    <2>3. /\ 1 \in 1..Len(s) /\ Head(s) = s[1] /\ DOMAIN s = 1..Len(s)
          /\ \A i \in 1..Len(s) : i = 1 \/ 1 < i
      BY <2>1, <2>2
    <2>4. s[1] \in {"truncate", "write"} /\ proc[p].cmd.do = "add"
      BY <2>2, <2>3 DEF Adding
    <2>5. \A i \in 1..Len(s) : s[i] \notin {"clone", "load"}
      BY <2>1, <2>2, <2>3, <2>4 DEF Ordered
    <2> QED
      BY <2>2, <2>3, <2>5 DEF Range
  <1> HIDE DEF half
  <1>4. ASSUME NEW n \in Names \ torn' PROVE RowsAreRight(n)'
    <2>1. RowsAreRight(n)
      BY <1>1, <1>4 DEF RowsInv
    <2>2. /\ n \in DOMAIN wanted'.repos <=> n \in DOMAIN wanted.repos
          /\ n \in DOMAIN wanted.repos => wanted'.repos[n].at = wanted.repos[n].at
      BY <1>1, <1>4 DEF Differ
    <2>3. Adding(proc[p]) => proc[p].cmd.name # n
      BY <1>1, <1>3, <1>4
    <2> QED
      BY <1>1, <1>2, <2>1, <2>2, <2>3, RowKept
  <1> QED
    BY <1>2, <1>4 DEF RowsInv

LEMMA RowsNext == ConfigTypeOK /\ KeptInv /\ RowsInv /\ [Next]_vars => RowsInv'
  <1> SUFFICES ASSUME ConfigTypeOK, KeptInv, RowsInv, [Next]_vars PROVE RowsInv'
    OBVIOUS
  <1>1. CASE \E p \in Procs, c \in Commands : Start(p, c)
    BY <1>1, RowsStart
  <1>2. CASE \E p \in Procs : Step(p)
    BY <1>2, RowsLoad, RowsTruncate, RowsWrite, RowsAside, RowsEmptied, RowsUncopied,
       RowsPull, RowsClone DEF Step
  <1>3. CASE \E p \in Procs : Abort(p)
    BY <1>3, RowsAbort
  <1>4. CASE UNCHANGED vars
    <2>1. /\ proc' = proc /\ copies' = copies /\ rows' = rows /\ wanted' = wanted
          /\ behind' = behind /\ torn' = torn
      BY <1>4 DEF vars, dataVars, histVars
    <2>2. \A n \in Names \ torn : RowsAreRight(n)'
      BY <2>1 DEF RowsInv, RowsAreRight
    <2> QED
      BY <2>1, <2>2 DEF RowsInv
  <1> QED
    BY <1>1, <1>2, <1>3, <1>4 DEF Next

LEMMA RowsAlways == Spec => [](KeptInv /\ RowsInv)
  BY KeptInit, KeptNext, RowsInit, RowsNext, TypesAlways, PTL DEF Spec

\* When nobody runs, the file is what was asked for, and no addition or
\* removal is under way.
LEMMA QuietRows ==
    ASSUME KeptInv, RowsInv, Quiet
    PROVE  /\ file.repos = wanted.repos
           /\ \A n \in Names \ torn : RowsAreRight(n)
           /\ \A p \in Procs : ~Adding(proc[p])
  <1>1. NobodySaves /\ \A p \in Procs : ~Adding(proc[p])
    BY DEF Quiet, NobodySaves, Saving, At, Idle, Adding
  <1> QED
    BY <1>1 DEF KeptInv, RowsInv, Same

\* There are no rows without a repository, whichever commands overlap, fail
\* or die, but for the names that these were about.
THEOREM NoRowsWithoutRepository == Spec => []NoOrphans
  <1>1. KeptInv /\ RowsInv => NoOrphans
    BY QuietRows DEF NoOrphans, RowsAreRight
  <1> QED
    BY <1>1, RowsAlways, PTL

\* The rows of a repository are those of the origin configured for it, unless
\* a pull is still to come or a command broke off between its two halves.
THEOREM RowsAlwaysFollow == Spec => []RowsFollowConfig
  <1>1. ConfigTypeOK => DOMAIN wanted.repos \subseteq Names
    BY Tables DEF ConfigTypeOK, Config
  <1>2. ConfigTypeOK /\ KeptInv /\ RowsInv => RowsFollowConfig
    BY <1>1, QuietRows DEF RowsFollowConfig, RowsAreRight
  <1> QED
    BY <1>2, RowsAlways, TypesAlways, PTL
===============================================================================
