----------------------------- MODULE ConfigRepos -----------------------------
(***************************************************************************)
(* The commands that change the configuration and its repositories         *)
(* (repo.go, config.go, fix.go, internal/config): each reads the whole     *)
(* file, edits its copy, truncates the file and writes the copy back, and   *)
(* next to that changes working copies and rows of the package database.   *)
(* No lock and no transaction holds the three together, and a process may  *)
(* be killed or fail at any step.                                          *)
(*                                                                         *)
(* What pulling a repository does to its rows is RepoSync's matter.  Here   *)
(* rows are known by the origin, a URL and a reference, they were read     *)
(* from.  The daemon is a process that read the configuration long ago.    *)
(*                                                                         *)
(* A definition marked "Fault" is no part of Spec: it is the next one with  *)
(* a mistake that a run of the model has to notice.                        *)
(***************************************************************************)
EXTENDS Naturals, Sequences, SequencesExt, Functions

CONSTANTS
    Procs,
    Names, Urls, Refs,  \* repositories
    DefaultName, DefaultUrl, DefaultRef,
    Options,            \* values of an option, as autoPull
    DefaultOption,
    EnvOption,          \* what ALR_AUTO_PULL overrides it with
    MaxCommands,        \* bound: commands run
    MaxTogether         \* bound: the first commands, which may overlap

ASSUME ConfigAssumption ==
    /\ DefaultName \in Names /\ DefaultUrl \in Urls /\ DefaultRef \in Refs
    /\ DefaultOption \in Options /\ EnvOption \in Options
    /\ MaxCommands \in Nat /\ MaxTogether \in Nat

VARIABLES
    file,      \* the configuration file
    copies,    \* working copies: the origin each is at
    rows,      \* the origins each repository's rows were read from
    schema,    \* version row of the database: "none", "old" or "current"
    proc,      \* what each process was called for, the steps it has yet to
               \* take, the system configuration it holds, the repositories
               \* its pull is done with; history: its copy is out of date
    wanted,    \* history: the configuration the commands add up to
    behind,    \* history: repositories whose rows wait for a pull
    torn,      \* history: repositories left half-changed
    commands   \* commands so far

dataVars == <<copies, rows, schema>>
histVars == <<wanted, behind, torn>>
vars     == <<file, dataVars, proc, histVars, commands>>

Origins  == [url : Urls, ref : Refs]
NoOrigin == [url |-> "none", ref |-> "none"]
Default  == [n \in {DefaultName} |->
               [at |-> [url |-> DefaultUrl, ref |-> DefaultRef], mirrors |-> {}]]

\* A file that does not set a key has the default for it.  A file of an older
\* version lacks options that came later, and is migrated.
Empty    == [state |-> "whole", migrated |-> FALSE, repos |-> Default, option |-> DefaultOption]
NoFile   == [Empty EXCEPT !.state = "absent"]
Broken   == [Empty EXCEPT !.state = "broken"]
Migrated(f) == [f EXCEPT !.state = "whole", !.migrated = TRUE]

Command == [do : {"show", "set", "add", "remove", "seturl", "setref", "addmirror",
                  "removemirror", "clearmirrors", "refresh", "fix"},
            name : Names, url : Urls, ref : Refs, option : Options]

Plain == [do |-> "show", name |-> DefaultName, url |-> DefaultUrl, ref |-> DefaultRef,
          option |-> DefaultOption]

\* The commands, with those arguments that they have.
Commands ==
    {c \in Command :
        /\ c.do \notin {"add", "remove", "seturl", "setref", "addmirror", "removemirror",
                       "clearmirrors"} => c.name = DefaultName
        /\ c.do \notin {"add", "seturl", "addmirror", "removemirror"} => c.url = DefaultUrl
        /\ c.do # "setref" => c.ref = DefaultRef
        /\ c.do # "set" => c.option = DefaultOption}

Steps == {"load", "reload", "create", "migrate", "write", "init", "reset", "version", "clone",
          "truncate", "rmdir", "delete", "pull", "wipecopies", "wiperows"}

Resting == [cmd |-> Plain, steps |-> <<>>, cfg |-> Empty, pulled |-> {}, late |-> FALSE]

IsConfig(f) ==
    /\ DOMAIN f = {"state", "migrated", "repos", "option"}
    /\ DOMAIN f.repos \subseteq Names
    /\ \A n \in DOMAIN f.repos : f.repos[n] \in [at : Origins, mirrors : SUBSET Urls]
    /\ f.option \in Options

TypeOK ==
    /\ IsConfig(file) /\ file.state \in {"absent", "broken", "whole"}
    /\ copies \in [Names -> Origins \cup {NoOrigin}]
    /\ rows \in [Names -> SUBSET Origins]
    /\ schema \in {"none", "old", "current"}
    /\ \A p \in Procs :
          /\ DOMAIN proc[p] = DOMAIN Resting
          /\ proc[p].cmd \in Command
          /\ proc[p].steps \in Seq(Steps)
          /\ IsConfig(proc[p].cfg) /\ proc[p].cfg.state = "whole"
          /\ proc[p].pulled \subseteq Names
          /\ proc[p].late \in BOOLEAN
    /\ IsConfig(wanted)
    /\ behind \cup torn \subseteq Names
    /\ commands \in 0..MaxCommands

\* A new installation, or an older version's with the default repository.
Init ==
    /\ \E old \in BOOLEAN :
          /\ file = IF old THEN Empty ELSE NoFile
          /\ schema = IF old THEN "old" ELSE "none"
          /\ copies = [n \in Names |-> IF old /\ n = DefaultName THEN Default[n].at
                                       ELSE NoOrigin]
          /\ rows = [n \in Names |-> IF old /\ n = DefaultName THEN {Default[n].at} ELSE {}]
    /\ proc = [p \in Procs |-> Resting]
    /\ wanted = Empty
    /\ behind = {}
    /\ torn = {}
    /\ commands = 0

Idle(p)  == proc[p].steps = <<>>
At(p, s) == ~Idle(p) /\ Head(proc[p].steps) = s

\* What p becomes; it is forgotten when it has no step left.
Becomes(p, r) == proc' = [proc EXCEPT ![p] = IF r.steps = <<>> THEN Resting ELSE r]
Go(p)         == Becomes(p, [proc[p] EXCEPT !.steps = Tail(@)])
Ends(p)       == Becomes(p, Resting)

\* Does p hold a configuration?
Holds(p) == ~Idle(p) /\ ~At(p, "load")

\* Does another process hold a configuration, or is this one's out of date?
Disturbed(p) == proc[p].late \/ \E q \in Procs \ {p} : Holds(q)

Differ(f, g) == {n \in Names : \/ (n \in DOMAIN f.repos) # (n \in DOMAIN g.repos)
                               \/ n \in DOMAIN f.repos /\ f.repos[n].at # g.repos[n].at}

-----------------------------------------------------------------------------
(* What the commands do *)

\* The repositories after a command.  seturl, setref and addmirror take a
\* name nobody configured without an error.
Edited(R, c) ==
    LET n    == c.name
        Here == n \in DOMAIN R
    IN CASE c.do = "add" ->
              [m \in DOMAIN R \cup {n} |->
                 IF m = n THEN [at |-> [url |-> c.url, ref |-> c.ref], mirrors |-> {}]
                 ELSE R[m]]
         [] c.do = "remove" -> Restrict(R, DOMAIN R \ {n})
         [] c.do = "seturl" /\ Here -> [R EXCEPT ![n].at.url = c.url]
         [] c.do = "setref" /\ Here -> [R EXCEPT ![n].at.ref = c.ref]
         [] c.do = "addmirror" /\ Here -> [R EXCEPT ![n].mirrors = @ \cup {c.url}]
         [] c.do = "removemirror" /\ Here -> [R EXCEPT ![n].mirrors = @ \ {c.url}]
         [] c.do = "clearmirrors" /\ Here -> [R EXCEPT ![n].mirrors = {}]
         [] OTHER -> R

\* Fault: what is in force is saved, with the environment's override.
EditMerged(f, c) ==
    IF c.do = "set" THEN [f EXCEPT !.option = c.option]
    ELSE [f EXCEPT !.repos = Edited(f.repos, c), !.option = EnvOption]

\* SetRepos and SetAutoPull change the system configuration, not the merged
\* one.
Edit(f, c) ==
    IF c.do = "set" THEN [f EXCEPT !.option = c.option]
    ELSE [f EXCEPT !.repos = Edited(f.repos, c)]

\* There is nothing to do, or not with this name.
Refuses(R, c) ==
    \/ c.do = "add" /\ (c.name \in DOMAIN R \/ \E n \in DOMAIN R : R[n].at.url = c.url)
    \/ c.do \in {"remove", "clearmirrors"} /\ c.name \notin DOMAIN R
    \/ c.do = "removemirror" /\ (c.name \notin DOMAIN R \/ c.url \notin R[c.name].mirrors)

Open == <<"init", "version">>
Save == <<"truncate", "write">>

\* The steps of a command after the configuration is loaded.
ShowCmd         == <<>>
SetConfigCmd    == Save
AddRepoCmd      == Open \o <<"clone">> \o Save
RemoveRepoCmd   == <<"rmdir">> \o Save \o Open \o <<"delete">>
SetUrlCmd       == Open \o Save \o <<"pull">>
SetRepoRefCmd   == Open \o Save \o <<"pull">>
AddMirrorCmd    == Open \o Save
RemoveMirrorCmd == Open \o Save
ClearMirrorsCmd == Open \o Save
RefreshCmd      == Open \o <<"pull">>
FixCmd(wipe)    == wipe \o <<"reload">> \o Open \o <<"pull">>

\* The two orders of fix are those of Readdirnames.
Programs(c) ==
    CASE c.do = "show" -> {ShowCmd}
      [] c.do = "set" -> {SetConfigCmd}
      [] c.do = "add" -> {AddRepoCmd}
      [] c.do = "remove" -> {RemoveRepoCmd}
      [] c.do = "seturl" -> {SetUrlCmd}
      [] c.do = "setref" -> {SetRepoRefCmd}
      [] c.do = "addmirror" -> {AddMirrorCmd}
      [] c.do = "removemirror" -> {RemoveMirrorCmd}
      [] c.do = "clearmirrors" -> {ClearMirrorsCmd}
      [] c.do = "refresh" -> {RefreshCmd}
      [] c.do = "fix" -> {FixCmd(<<"wipecopies", "wiperows">>), FixCmd(<<"wiperows", "wipecopies">>)}

Refused(c) == IF c.do \in {"removemirror", "clearmirrors"} THEN Open ELSE <<>>

-----------------------------------------------------------------------------
(* The configuration *)

\* The file is truncated and not yet written.
Saving(p) == At(p, "write") \/ At(p, "migrate")

Start(p, c) ==
    /\ Idle(p)
    /\ commands < MaxCommands
    /\ commands < MaxTogether \/ \A q \in Procs : Idle(q)
    /\ commands' = commands + 1
    /\ Becomes(p, [Resting EXCEPT !.cmd = c, !.steps = <<"load">>])
    /\ UNCHANGED <<file, dataVars, histVars>>

\* Fault: an error of the parser is taken for an empty file.
LoadedBlindly(f) == f

\* ALRConfig.Load without the migration.
Loaded(f) == IF f.state = "absent" THEN Empty ELSE f

\* A file that does not parse is an error; one that is not there or lacks an
\* option is written first, unless that fails, which only warns.
Load(p) ==
    /\ At(p, "load") \/ At(p, "reload")
    /\ UNCHANGED <<file, dataVars, histVars, commands>>
    /\ IF file.state = "broken" THEN Ends(p)
       ELSE \E f \in {Loaded(file), Migrated(file)}, s \in Programs(proc[p].cmd) :
               LET migration == IF f = Loaded(file) THEN <<>> ELSE <<"create", "migrate">>
                   rest == IF At(p, "reload") THEN Tail(proc[p].steps)
                           ELSE IF Refuses(f.repos, proc[p].cmd) THEN Refused(proc[p].cmd)
                           ELSE s
               IN Becomes(p, [proc[p] EXCEPT !.cfg = f, !.steps = migration \o rest,
                                             !.late = \E q \in Procs : Saving(q)])

\* os.Create empties the file; from now on every other copy is out of date.
Truncate(p) ==
    /\ At(p, "truncate") \/ At(p, "create")
    /\ file' = Empty
    /\ proc' = [q \in Procs |->
          IF q = p
          THEN [proc[p] EXCEPT !.steps = Tail(@),
                               !.cfg = IF At(p, "create") THEN @ ELSE Edit(@, proc[p].cmd)]
          ELSE [proc[q] EXCEPT !.late = @ \/ Holds(q)]]
    /\ UNCHANGED <<dataVars, histVars, commands>>

\* What a command makes of the configuration that the commands add up to.
Asked(p) ==
    IF At(p, "migrate") THEN wanted
    ELSE [wanted EXCEPT !.repos = Edited(@, proc[p].cmd),
                        !.option = IF proc[p].cmd.do = "set" THEN proc[p].cmd.option ELSE @]

\* Write and Sync.  A copy that is out of date undoes what others have saved.
Write(p) ==
    /\ Saving(p)
    /\ Go(p)
    /\ file' = proc[p].cfg
    /\ wanted' = IF proc[p].late THEN proc[p].cfg ELSE Asked(p)
    /\ torn' = torn \cup Differ(wanted', Asked(p))
                    \cup {n \in Differ(wanted', wanted) : copies[n] = NoOrigin /\ rows[n] # {}}
    /\ behind' = behind \cup {n \in Differ(wanted', wanted) \cap DOMAIN wanted'.repos :
                               copies[n] # wanted'.repos[n].at}
    /\ UNCHANGED <<dataVars, commands>>

-----------------------------------------------------------------------------
(* The database *)

\* Database.Init: a schema of another version is dropped, then made anew.
OpenDatabase(p) ==
    /\ At(p, "init")
    /\ IF schema = "old" THEN Becomes(p, [proc[p] EXCEPT !.steps = <<"reset">> \o @]) ELSE Go(p)
    /\ UNCHANGED <<file, dataVars, histVars, commands>>

Reset(p) ==
    /\ At(p, "reset")
    /\ Go(p)
    /\ rows' = [n \in Names |-> {}]
    /\ schema' = "none"
    /\ UNCHANGED <<file, copies, histVars, commands>>

AddVersion(p) ==
    /\ At(p, "version")
    /\ Go(p)
    /\ schema' = IF schema = "none" THEN "current" ELSE schema
    /\ UNCHANGED <<file, copies, rows, histVars, commands>>

\* DeletePkgs: the last step of a removal.
DeleteRows(p) ==
    LET n == proc[p].cmd.name
    IN  /\ At(p, "delete")
        /\ Go(p)
        /\ rows' = [rows EXCEPT ![n] = {}]
        /\ torn' = IF Disturbed(p) THEN torn \cup {n} ELSE torn \ {n}
        /\ behind' = behind \ {n}
        /\ UNCHANGED <<file, copies, schema, wanted, commands>>

-----------------------------------------------------------------------------
(* Working copies *)

\* Fault: rows are kept when the working copy goes to another origin.
PulledOver(n, o) ==
    IF copies[n] = o /\ rows[n] # {} THEN rows[n] ELSE rows[n] \cup {o}

\* What a pull that ends well leaves: nothing new, every script of a new copy,
\* or the changes between what was checked out and what is now.
PulledRows(n, o) ==
    IF copies[n] = o /\ rows[n] # {} THEN rows[n]
    ELSE IF copies[n] = NoOrigin THEN rows[n] \cup {o}
    ELSE (rows[n] \ {copies[n]}) \cup {o}

\* One repository is pulled ...
PullOk(p, n, o) ==
    /\ copies' = [copies EXCEPT ![n] = o]
    /\ rows' = [rows EXCEPT ![n] = PulledRows(n, o)]
    /\ behind' = behind \ {n}
    /\ torn' = IF Disturbed(p) THEN torn \cup {n} ELSE torn

\* ... or the pull breaks off after the checkout.
PullTears(p, n, o) ==
    /\ copies' = [copies EXCEPT ![n] = o]
    /\ rows' \in {rows, [rows EXCEPT ![n] = @ \cup {o}]}
    /\ torn' = torn \cup {n}
    /\ UNCHANGED behind

\* Repos.Pull: one after the other, until one fails.
Pull(p) ==
    /\ At(p, "pull")
    /\ UNCHANGED <<file, schema, wanted, commands>>
    /\ \E n \in DOMAIN proc[p].cfg.repos \ proc[p].pulled :
          \/ /\ PullOk(p, n, proc[p].cfg.repos[n].at)
             /\ Becomes(p, [proc[p] EXCEPT !.pulled = @ \cup {n}])
          \/ /\ PullTears(p, n, proc[p].cfg.repos[n].at)
             /\ Ends(p)

PullsDone(p) ==
    /\ At(p, "pull")
    /\ DOMAIN proc[p].cfg.repos \subseteq proc[p].pulled
    /\ Go(p)
    /\ UNCHANGED <<file, dataVars, histVars, commands>>

\* PullOneAndUpdateFromConfig: what is saved afterwards is the origin that
\* the repository names, not the one it was pulled from.
Clone(p) ==
    LET o == [url |-> proc[p].cmd.url, ref |-> proc[p].cmd.ref]
    IN  /\ At(p, "clone")
        /\ UNCHANGED <<file, schema, wanted, commands>>
        /\ \/ /\ PullOk(p, proc[p].cmd.name, o)
              /\ \E t \in Origins :
                    Becomes(p, [proc[p] EXCEPT !.steps = Tail(@), !.cmd.url = t.url,
                                               !.cmd.ref = t.ref])
           \/ /\ PullTears(p, proc[p].cmd.name, o)
              /\ Ends(p)

\* A copy that goes before its rows were brought up to date leaves them.
RemoveCopy(p) ==
    LET n == proc[p].cmd.name
    IN  /\ At(p, "rmdir")
        /\ Go(p)
        /\ copies' = [copies EXCEPT ![n] = NoOrigin]
        /\ torn' = IF n \in behind \/ Disturbed(p) THEN torn \cup {n} ELSE torn
        /\ UNCHANGED <<file, rows, schema, wanted, behind, commands>>

\* fix empties the cache directory; what cannot be removed is only logged.
WipeCopies(p) ==
    /\ At(p, "wipecopies")
    /\ Go(p)
    /\ \/ UNCHANGED <<copies, torn>>
       \/ /\ copies' = [n \in Names |-> NoOrigin]
          /\ torn' = torn \cup (IF Disturbed(p) THEN Names ELSE behind)
    /\ UNCHANGED <<file, rows, schema, wanted, behind, commands>>

\* Fault: the database is kept.
SparedRows == rows

WipedRows == [n \in Names |-> {}]

WipeRows(p) ==
    /\ At(p, "wiperows")
    /\ Go(p)
    /\ \/ UNCHANGED <<rows, schema, behind, torn>>
       \/ /\ rows' = WipedRows
          /\ schema' = "none"
          /\ torn' = IF Disturbed(p) THEN Names ELSE {}
          /\ behind' = {}
    /\ UNCHANGED <<file, copies, wanted, commands>>

-----------------------------------------------------------------------------
\* A step fails or the process is killed.  What it was writing is cut short,
\* and what it had to do after that is not done.
Abort(p) ==
    LET left    == Range(proc[p].steps)
        cut     == Saving(p)
        half    == \/ proc[p].cmd.do = "remove" /\ "delete" \in left /\ "truncate" \notin left
                   \/ proc[p].cmd.do = "add" /\ "clone" \notin left /\ "load" \notin left
    IN  /\ ~Idle(p)
        /\ Ends(p)
        /\ file' \in IF cut THEN {Empty, Broken} ELSE {file}
        /\ wanted' = IF cut THEN file' ELSE wanted
        /\ torn' = torn \cup (IF cut THEN Differ(wanted, file') ELSE {})
                        \cup (IF half THEN {proc[p].cmd.name} ELSE {})
        /\ UNCHANGED <<dataVars, behind, commands>>

-----------------------------------------------------------------------------
Step(p) ==
    \/ Load(p) \/ Truncate(p) \/ Write(p) \/ OpenDatabase(p) \/ Reset(p) \/ AddVersion(p)
    \/ DeleteRows(p) \/ Pull(p) \/ PullsDone(p) \/ Clone(p) \/ RemoveCopy(p)
    \/ WipeCopies(p) \/ WipeRows(p)

Next ==
    \/ \E p \in Procs, c \in Commands : Start(p, c)
    \/ \E p \in Procs : Step(p) \/ Abort(p)

Spec == Init /\ [][Next]_vars

-----------------------------------------------------------------------------
(* Properties *)

Quiet == \A p \in Procs : Idle(p)

\* The file holds what the commands asked for and nothing of the environment,
\* as long as no process saves a copy that another has made out of date, and
\* none ends with the file truncated (system_config.go 61, config.go 137).
ConfigIsKept ==
    (\A p \in Procs : ~Saving(p)) =>
        /\ file.repos = wanted.repos
        /\ file.option = wanted.option

\* No rows without a repository: what search and install offer can be pulled,
\* whichever step of an add, a removal or a repair fails - but for the names
\* the failed command itself was about (repo.go 116-146, 199-207).
NoOrphans ==
    Quiet /\ file.state # "broken" =>
        \A n \in Names \ torn : rows[n] # {} => n \in DOMAIN file.repos

\* The rows of a repository are of its URL and reference alone, once the pull
\* that has to follow a change is done; fix makes it so whatever was before
\* (repo.go 258-272, fix.go 75-110).
RowsFollowConfig ==
    Quiet /\ file.state # "broken" =>
        \A n \in DOMAIN file.repos \ (torn \cup behind) : rows[n] \subseteq {file.repos[n].at}
=============================================================================
