---------------------------- MODULE PackageContents ----------------------------
(***************************************************************************)
(* What becomes of the files a script installs: package() fills the package *)
(* directory, files() may list what belongs to the package, buildContents   *)
(* turns that into the contents of the package (internal/build/utils.go),  *)
(* firejail.go replaces each program by a wrapper, and nfpm packs the       *)
(* contents (script_executor.go, from ExecutePackageFunctions on).  Owners, *)
(* modes and the mark of backup files, which say how a file is packed and   *)
(* not whether, are left out.                                              *)
(***************************************************************************)
EXTENDS FilesFind

CONSTANTS
    Installs,      \* install-* commands of a script, [do, to]
    Makings,       \* what the script makes by itself: [at, entry]
    Finds,         \* files-find-* commands, [cmd, at, pattern]
    Systems,       \* what getLibPrefix may see
    Settings,      \* the fields of the script: [lists, jailed, profiles]
    MaxCommands,   \* bound: commands of package()
    MaxFinds       \* bound: commands of files()

-----------------------------------------------------------------------------
(* Names and places *)

Names == STRING
Paths == Seq(Names) \ {Root}

\* escapeGlobChars: a name with brackets is spelled with backslashes.
Spelled(n) == IF n \in Odd THEN "\\" \o n ELSE n
EscapeGlobChars(p) == [i \in DOMAIN p |-> Spelled(p[i])]
Unspelled(p) == \A i \in DOMAIN p, n \in Odd : p[i] # Spelled(n)

BinaryDirectories == {<<"usr", "bin">>, <<"bin">>, <<"usr", "local", "bin">>}
IsBinary(p) == \E d \in BinaryDirectories : IsStrictPrefix(d, p)

Jail == <<"usr", "lib", "alr", "firejailed">>

GenerateSafeName(p) == FoldLeft(LAMBDA s, n : s \o "_" \o n, "", p)

FirejailedPath(p) == Jail \o <<GenerateSafeName(p)>>
ProfilePath(p)    == Jail \o <<GenerateSafeName(p) \o ".profile">>
Wrapper(p)        == File(<<"firejail">> \o FirejailedPath(p))

\* Where a link leads that the script makes.
Led(m) == Parent(m.at) \o m.entry.of

\* The places the script has names for.
Named ==
    (UNION {Place(c, s) : c \in Installs, s \in Systems})
    \cup {m.at : m \in Makings}
    \cup {Led(m) : m \in {x \in Makings : x.entry.kind = "link"}}

\* The commands are those there are, with arguments they take.
ASSUME CommandsAssumption ==
    /\ MaxCommands \in Nat /\ MaxFinds \in Nat
    /\ \A c \in Installs :
          c.do \in DOMAIN InstallDirs \cup {"library", "manual", "completion"} /\ c.to \in Paths
    /\ \A m \in Makings :
          /\ m.entry.kind \in {"dir", "file", "link", "abslink"}
          /\ m.entry.kind \in {"link", "abslink"} => ~IsPrefix(Jail, m.at)
    /\ \A f \in Finds :
          /\ f.cmd \in FindCommands \cup {"echo"}
          /\ f.cmd = "find" => f.pattern \in {"", "*", "**"}
          /\ f.cmd \in {"echo", "find"} => f.at \in Paths
    /\ \A s \in Systems : s.libDir \in Seq(Names) /\ s.tuple \in Names
    /\ \A s \in Settings : s.lists \in BOOLEAN /\ s.jailed \in BOOLEAN /\ s.profiles \in BOOLEAN

\* What is put together from names is a name, a profile is not named like the
\* program it is for, no name is another one spelled with backslashes, and no
\* two are spelled alike.
ASSUME NamesAssumption ==
    /\ {"usr", "bin", "lib", "lib64", "local", "etc", "share", "man", "systemd", "system", "user",
        "licenses", "applications", "pixmaps", "alr", "firejailed"} \subseteq Names
    /\ Odd \cap {"usr", "bin", "local"} = {}
    /\ \A p \in Named :
          /\ FirejailedPath(p) # ProfilePath(p)
          /\ \A q \in {p, FirejailedPath(p), ProfilePath(p)} : q \in Paths /\ Unspelled(q)
    /\ \A n, m \in Odd : Spelled(n) = Spelled(m) => n = m

-----------------------------------------------------------------------------
VARIABLES
    sys, settings,  \* the system and the settings, never changed
    stage,        \* package, files, collect, jail, pack, packed or failed
    tree,         \* the package directory
    printed,      \* what files() has printed so far
    twice,        \* has it printed a path twice?
    contents,     \* the list for nfpm: [at, dst, kind, of]
    unseen,       \* contents the jail has yet to look at
    package,      \* what is packed: [path -> entry]
    commands,     \* commands so far
    installed,    \* history: [do, at] of the install-* commands
    before        \* history: the package directory before the jail

fixed   == <<sys, settings>>
lists   == <<printed, twice>>
history == <<commands, installed, before>>
all     == <<fixed, stage, tree, lists, contents, unseen, package, history>>

None == [p \in {} |-> Dir]

Kinds == {"dir", "file", "link", "abslink"}
IsTree(t) == \A p \in DOMAIN t : t[p].kind \in Kinds /\ \A q \in Above(p) : IsDir(t, q)

ContentsTypeOK ==
    /\ sys \in Systems /\ settings \in Settings
    /\ stage \in {"package", "files", "collect", "jail", "pack", "packed", "failed"}
    /\ IsTree(tree) /\ IsTree(before)
    /\ printed \subseteq DOMAIN tree \cup {f.at : f \in Finds}
    /\ twice \in BOOLEAN
    /\ \A c \in contents : c.kind \in Kinds /\ c.at # Root
    /\ unseen \subseteq contents
    /\ \A p \in DOMAIN package : package[p].kind \in Kinds
    /\ commands \in 0..(MaxCommands + MaxFinds)

ContentsInit ==
    /\ sys \in Systems /\ settings \in Settings
    /\ stage = "package"
    /\ tree = None /\ before = None /\ package = None
    /\ printed = {} /\ twice = FALSE
    /\ contents = {} /\ unseen = {}
    /\ commands = 0
    /\ installed = {}

Fail == stage' = "failed" /\ UNCHANGED <<tree, lists, contents, unseen, package>>

-----------------------------------------------------------------------------
(* package() *)

Counted(n) == commands < n /\ commands' = commands + 1

\* An install-* command; an error of a command ends the script.
Install(c) ==
    /\ stage = "package"
    /\ Counted(MaxCommands)
    /\ \/ \E p \in Place(c, sys) :
             /\ CanInstall(tree, p)
             /\ tree' = HelperInstall(tree, p, c.to)
             /\ installed' = installed \cup {[do |-> c.do, at |-> p]}
             /\ UNCHANGED <<stage, lists, contents, unseen, package>>
       \/ /\ ~\E p \in Place(c, sys) : CanInstall(tree, p)
          /\ Fail
          /\ UNCHANGED installed
    /\ UNCHANGED <<fixed, before>>

\* mkdir, ln -s, cp: the script puts something where nothing is.
Make(m) ==
    /\ stage = "package"
    /\ Counted(MaxCommands)
    /\ ~Exists(tree, m.at)
    /\ CanHold(tree, m.at)
    /\ tree' = Put(tree, m.at, m.entry)
    /\ UNCHANGED <<fixed, stage, lists, contents, unseen, package, installed, before>>

\* rm -r, and what mv and cp do to what is in the way before they put something
\* in its place.
Delete(p) ==
    LET gone == Under(tree, p) \cup {p}
    IN  /\ stage = "package"
        /\ Counted(MaxCommands)
        /\ p \in DOMAIN tree
        /\ tree' = [q \in DOMAIN tree \ gone |-> tree[q]]
        /\ installed' = {i \in installed : i.at \notin gone}
        /\ UNCHANGED <<fixed, stage, lists, contents, unseen, package, before>>

EndPackage ==
    /\ stage = "package"
    /\ stage' = IF settings.lists THEN "files" ELSE "collect"
    /\ UNCHANGED <<fixed, tree, lists, contents, unseen, package, history>>

-----------------------------------------------------------------------------
(* files() *)

\* A path may be printed without a command, and is taken as it is spelled:
\* with noglob the shell puts no file names in place of a pattern.
ListFiles(f) ==
    LET out == IF f.cmd = "echo" THEN Files({f.at}) ELSE Find(tree, f)
    IN  /\ stage = "files"
        /\ Counted(MaxCommands + MaxFinds)
        /\ IF out.ok
           THEN /\ printed' = printed \cup out.files
                /\ twice' = (twice \/ printed \cap out.files # {})
                /\ UNCHANGED <<stage, tree, contents, unseen, package>>
           ELSE Fail
        /\ UNCHANGED <<fixed, installed, before>>

EndFiles ==
    /\ stage = "files"
    /\ stage' = "collect"
    /\ UNCHANGED <<fixed, tree, lists, contents, unseen, package, history>>

-----------------------------------------------------------------------------
(* buildContents and normalizeContents *)

\* processPath, and what normalizeContents makes of it: where it is, where it is
\* to be, and what nfpm reads it from.  That is the path of a file, whose
\* backslashes nfpm takes off again, but the text of a link, where they stay.
Content(t, p) ==
    [at   |-> p,
     dst  |-> EscapeGlobChars(p),
     kind |-> t[p].kind,
     of   |-> IF t[p].kind = "file" THEN t[p].of ELSE EscapeGlobChars(t[p].of)]

\* Fault: directories are left to the package manager.
WalkedFiles(t) == {p \in DOMAIN t : t[p].kind # "dir"}

\* Without files(): everything but the directories that are not empty.
Walked(t) == {p \in DOMAIN t : t[p].kind = "dir" => Children(t, p) = {}}

BuildContents(t) ==
    {Content(t, p) : p \in IF settings.lists THEN printed ELSE Walked(t)}

CanMakeJail == CanHold(tree, Jail) /\ (Jail \in DOMAIN tree => IsDir(tree, Jail))

\* A path that was printed and is not there is an error.
CollectContents ==
    /\ stage = "collect"
    /\ IF printed \subseteq DOMAIN tree /\ (settings.jailed => CanMakeJail)
       THEN /\ contents' = BuildContents(tree)
            /\ unseen' = IF settings.jailed THEN contents' ELSE {}
            /\ tree' = IF settings.jailed THEN Put(tree, Jail, Dir) ELSE tree
            /\ before' = tree
            /\ stage' = IF settings.jailed THEN "jail" ELSE "pack"
            /\ UNCHANGED <<lists, package>>
       ELSE Fail /\ UNCHANGED before
    /\ UNCHANGED <<fixed, commands, installed>>

-----------------------------------------------------------------------------
(* applyFirejailIntegration *)

PassOver(c) ==
    /\ stage = "jail" /\ c \in unseen
    /\ c.kind = "dir" \/ ~IsBinary(c.dst)
    /\ unseen' = unseen \ {c}
    /\ UNCHANGED <<fixed, stage, tree, lists, contents, package, history>>

\* Rename takes the place of a file that is there, Symlink does not.  The path
\* is the one spelled for nfpm: a name with brackets is not found.
CanMove(c) ==
    /\ c.dst \in DOMAIN tree
    /\ ~IsDir(tree, FirejailedPath(c.dst)) /\ ~IsDir(tree, ProfilePath(c.dst))
    /\ tree[c.dst].kind \in {"link", "abslink"} => FirejailedPath(c.dst) \notin DOMAIN tree

\* Fault: the wrapper is written before the program is moved.
MovedLate(p) == LET t == Put(tree, p, Wrapper(p)) IN Put(t, FirejailedPath(p), t[p])

\* The program is moved and the wrapper takes its place.
Moved(p) == Put(Put(tree, FirejailedPath(p), tree[p]), p, Wrapper(p))

\* buildContents again, for what is named here and not normalized.
Added(t, p) == [at |-> p, dst |-> p, kind |-> t[p].kind, of |-> t[p].of]

\* Before that the profile is copied; program and profile become contents too.
\* What fails leaves the directory half done, and nobody looks at it again.
CreateFirejailedBinary(c) ==
    /\ stage = "jail" /\ c \in unseen
    /\ c.kind # "dir" /\ IsBinary(c.dst)
    /\ IF settings.profiles /\ CanMove(c)
       THEN LET new == {FirejailedPath(c.dst), ProfilePath(c.dst)}
            IN  /\ tree' = Put(Moved(c.dst), ProfilePath(c.dst), File(<<"profile">>))
                /\ contents' = (contents \ {c})
                                  \cup {[c EXCEPT !.kind = "file", !.of = Wrapper(c.dst).of]}
                                  \cup {Added(tree', p) : p \in new}
                /\ twice' = (twice \/ \E x \in contents : x.at \in new)
                /\ unseen' = unseen \ {c}
                /\ UNCHANGED <<stage, printed, package>>
       ELSE Fail
    /\ UNCHANGED <<fixed, history>>

JailDone ==
    /\ stage = "jail" /\ unseen = {}
    /\ stage' = "pack"
    /\ UNCHANGED <<fixed, tree, lists, contents, unseen, package, history>>

-----------------------------------------------------------------------------
(* nfpm reads the contents: two of one destination are refused. *)

\* A file is matched by its escaped path and packed under the path it has; links
\* and directories are not looked for, and have the destination as it is spelled.
LandsAt(c) == IF c.kind = "file" THEN c.at ELSE c.dst

Pack ==
    /\ stage = "pack"
    /\ \/ /\ ~twice
          /\ package' = [p \in {LandsAt(c) : c \in contents} |->
                            LET c == CHOOSE x \in contents : LandsAt(x) = p
                            IN  [kind |-> c.kind,
                                 of |-> IF c.kind = "file" THEN tree[c.at].of ELSE c.of]]
          /\ stage' = "packed"
          /\ UNCHANGED <<tree, lists, contents, unseen>>
       \/ twice /\ Fail
    /\ UNCHANGED <<fixed, history>>

-----------------------------------------------------------------------------
ContentsNext ==
    \/ \E c \in Installs : Install(c)
    \/ \E m \in Makings : Make(m)
    \/ \E p \in DOMAIN tree : Delete(p)
    \/ \E f \in Finds : ListFiles(f)
    \/ EndPackage \/ EndFiles \/ CollectContents
    \/ \E c \in unseen : PassOver(c) \/ CreateFirejailedBinary(c)
    \/ JailDone \/ Pack

ContentsSpec == ContentsInit /\ [][ContentsNext]_all

-----------------------------------------------------------------------------
(* Properties *)

\* The command that lists what an install-* command puts in place.
Counterpart(i) ==
    [cmd |-> IF i.do = "library" THEN "lib" ELSE IF i.do = "manual" THEN "man"
             ELSE IF i.do = "completion" THEN "share" ELSE IF i.do = "binary" THEN "bin" ELSE i.do,
     at |-> IF i.do = "manual" THEN <<ManSection[Last(i.at)]>> ELSE Root,
     pattern |-> "*"]

\* Whatever else the script makes, removes or replaces in the package directory,
\* a file that one family of commands installs (helpers.go), and that is still
\* there, is listed by its counterpart in the other (files_find.go), though
\* each family has directories of its own.  Icons
\* are installed where nothing looks for them, ALR_LIB_DIR may be anywhere, and
\* an unknown shell's completions are put into the root.
InstalledIsFound ==
    stage = "files" =>
        \A i \in installed :
            \/ i.do = "icon"
            \/ i.do = "library" /\ sys.libDir # Root
            \/ i.do = "completion" /\ Len(i.at) = 1
            \/ i.at \in Find(tree, Counterpart(i)).files

\* Escaping what nfpm does not look for leaves backslashes in the package.
Altered(p) ==
    /\ before[p].kind # "file"
    /\ EscapeGlobChars(p) # p \/ EscapeGlobChars(before[p].of) # before[p].of

\* What is at a path is packed as it was installed, or, if it is altered, under
\* its name or the one with backslashes.
Kept(p) ==
    \E q \in {p, EscapeGlobChars(p)} \cap DOMAIN package :
        /\ package[q].kind = before[p].kind
        /\ Altered(p) \/ (q = p /\ package[q].of = before[p].of)

\* A package without a list holds every file and every directory of the package
\* directory (buildContents leaves directories to the files in them), one with
\* a list holds what is listed, and neither holds anything else.  A file is at
\* its path with its contents, whatever its name (normalizeContents); a link or
\* a directory is as it was installed unless its name, or the text of the link,
\* has brackets.
PackageIsComplete ==
    stage = "packed" /\ ~settings.jailed =>
        LET wanted == IF settings.lists THEN printed ELSE DOMAIN before
        IN  /\ wanted \subseteq DOMAIN before
            /\ \A p \in wanted : \E q \in wanted :
                  /\ Kept(q)
                  /\ p = q \/ (~settings.lists /\ IsDir(before, p) /\ IsStrictPrefix(p, q))
            /\ \A q \in DOMAIN package : \E p \in wanted : q \in {p, EscapeGlobChars(p)}

\* In a jailed package every program that was listed is still there, with the
\* contents it had, behind a wrapper that starts it: no other program, wrapper
\* or profile has taken its place (processBinaryFiles renames them one after
\* another into one directory).  A link keeps its text, so one that is relative
\* leads elsewhere from there.
ProgramsSurvive ==
    stage = "packed" /\ settings.jailed =>
        \A p \in DOMAIN before \cap (IF settings.lists THEN printed ELSE DOMAIN before) :
            IsBinary(p) /\ ~IsDir(before, p) =>
                /\ p \in DOMAIN package /\ package[p] = Wrapper(p)
                /\ package[FirejailedPath(p)].of = before[p].of
                /\ package[ProfilePath(p)].of = <<"profile">>

=============================================================================
