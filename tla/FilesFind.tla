------------------------------- MODULE FilesFind -------------------------------
(***************************************************************************)
(* The commands of build scripts that put files into a package directory   *)
(* and that list what is in it (internal/shutils/helpers).                  *)
(*                                                                         *)
(* A path is the sequence of its elements below the package directory, and  *)
(* a tree maps the paths that exist to what is there.  The lists are sets:  *)
(* the commands print in the order of filepath.Walk.  Symbolic links are    *)
(* made to files only.                                                     *)
(*                                                                         *)
(* A definition marked "Fault" is no part of a specification: it is the    *)
(* next one with a mistake that a run of the model has to notice.          *)
(***************************************************************************)
EXTENDS Naturals, Sequences, FiniteSets, SequencesExt

CONSTANTS
    Odd,         \* names with brackets or braces, which mean something in a pattern
    Catalogues,  \* names that end in .mo
    ManSection   \* the number at the end of a name, for the names that have one

Root    == <<>>
Dir     == [kind |-> "dir", of |-> <<>>]
File(b) == [kind |-> "file", of |-> b]

Parent(p)   == SubSeq(p, 1, Len(p) - 1)
Above(p)    == {SubSeq(p, 1, i) : i \in 1..(Len(p) - 1)}
Under(t, d) == {p \in DOMAIN t : IsStrictPrefix(d, p)}
Children(t, d) == {p \in Under(t, d) : Parent(p) = d}
IsDir(t, p) == p = Root \/ (p \in DOMAIN t /\ t[p].kind = "dir")
Exists(t, p) == p = Root \/ p \in DOMAIN t

\* Fault: the directories above are not made.
PutBare(t, p, e) == [q \in DOMAIN t \cup {p} |-> IF q = p THEN e ELSE t[q]]

Put(t, p, e) ==
    [q \in DOMAIN t \cup Above(p) \cup {p} |->
        IF q = p THEN e ELSE IF q \in DOMAIN t THEN t[q] ELSE Dir]

\* Where a link leads; one that is absolute leads out of the tree.
LinkTarget(t, p) ==
    IF p \in DOMAIN t /\ t[p].kind = "link" THEN Parent(p) \o t[p].of ELSE p

-----------------------------------------------------------------------------
(* install-*: put a file into the package directory *)

UsrLibDistros == {"arch", "alpine", "void", "chimera"}

\* The system: [libDir, distro, tuple], the value of ALR_LIB_DIR or none, the
\* distribution that ID or ID_LIKE name, the multiarch tuple of ARCH or none.
GetLibPrefix(sys) ==
    IF sys.libDir # <<>> THEN sys.libDir
    ELSE IF sys.distro \in UsrLibDistros THEN <<"usr", "lib">>
    ELSE IF sys.distro \in {"debian", "ubuntu"} /\ sys.tuple # "" THEN <<"usr", "lib", sys.tuple>>
    ELSE <<"usr", "lib64">>

InstallDirs ==
    [binary       |-> <<"usr", "bin">>,
     systemd      |-> <<"usr", "lib", "systemd", "system">>,
     systemd_user |-> <<"usr", "lib", "systemd", "user">>,
     config       |-> <<"etc">>,
     license      |-> <<"usr", "share", "licenses">>,
     desktop      |-> <<"usr", "share", "applications">>,
     icon         |-> <<"usr", "share", "pixmaps">>]

CompletionPath(shell, n) ==
    CASE shell = "bash" -> <<"usr", "share", "bash-completion", "completions", n>>
      [] shell = "zsh"  -> <<"usr", "share", "zsh", "site-functions", "_" \o n>>
      [] shell = "fish" -> <<"usr", "share", "fish", "vendor_completions.d", n \o ".fish">>
      [] OTHER          -> <<n>>

\* A command is [do, to]: what to install, and the name given to it (for a
\* completion, the shell in front).  No place is an error.
Place(c, sys) ==
    CASE c.do \in DOMAIN InstallDirs -> {InstallDirs[c.do] \o c.to}
      [] c.do = "library"         -> {GetLibPrefix(sys) \o c.to}
      [] c.do = "manual"          ->
            {<<"usr", "share", "man", "man" \o ManSection[n], n>> :
                n \in {Last(c.to)} \cap DOMAIN ManSection}
      [] c.do = "completion"      -> {CompletionPath(Head(c.to), Last(c.to))}

\* MkdirAll makes what is missing above a path, unless a file is in the way.
CanHold(t, p) == \A q \in Above(p) : IsDir(t, q) \/ ~Exists(t, q)

\* Then the file is created or overwritten, through a link too: where the link
\* leads nothing is made but the file.
CanInstall(t, p) ==
    /\ CanHold(t, p)
    /\ p \in DOMAIN t =>
          \/ t[p].kind = "file"
          \/ /\ t[p].kind = "link"
             /\ \A q \in Above(LinkTarget(t, p)) : IsDir(t, q)
             /\ LinkTarget(t, p) \in DOMAIN t => t[LinkTarget(t, p)].kind = "file"
HelperInstall(t, p, body) == Put(t, LinkTarget(t, p), File(body))

-----------------------------------------------------------------------------
(* files-find-*: list files of the package directory *)

\* filepath.Match, of a pattern that is a star or a name.
MatchNamePattern(n, pattern) == pattern = "*" \/ (n = pattern /\ n \notin Odd)

Error    == [ok |-> FALSE, files |-> {}]
Files(S) == [ok |-> TRUE, files |-> S]

WalkNamed(t, d, pattern) ==
    {p \in Under(t, d) : t[p].kind # "dir" /\ MatchNamePattern(Last(p), pattern)}

\* validateDir, then filepath.Walk.
FindIn(t, d, pattern) == IF IsDir(t, d) THEN Files(WalkNamed(t, d, pattern)) ELSE Error

\* Directories that are not there are passed over.
FindInAll(t, D, pattern) == Files(UNION {WalkNamed(t, d, pattern) : d \in D})

FindLang(t, pattern) ==
    LET d == <<"usr", "share", "locale">>
        Wanted(n) == IF pattern = "*" THEN n \in Catalogues
                     ELSE MatchNamePattern(n, pattern \o ".mo")
    IN  IF IsDir(t, d) THEN Files({p \in WalkNamed(t, d, "*") : Wanted(Last(p))}) ELSE Error

\* Whole directories, with what is in them.
FindDoc(t, pattern) ==
    LET d == <<"usr", "share", "doc">>
        Wanted == {p \in Children(t, d) : IsDir(t, p) /\ MatchNamePattern(Last(p), pattern)}
    IN  IF IsDir(t, d) THEN Files(Wanted \cup (UNION {Under(t, p) : p \in Wanted})) ELSE Error

\* splitGlobPath has cut the glob at its first star: what is left is nothing, a
\* star or two, and names before it are taken as they are.
FindFiles(t, base, pattern) ==
    IF ~Exists(t, base) \/ (pattern # "" /\ ~IsDir(t, base)) THEN Error
    ELSE CASE pattern = ""   -> Files({base})
           [] pattern = "*"  -> Files(Children(t, base))
           [] pattern = "**" -> Files(Under(t, base))

\* Fault: only the directories of the word size are searched.
FindLib64(t, pattern)   == FindInAll(t, {<<"lib64">>, <<"usr", "lib64">>}, pattern)

FindBin(t, pattern)     == FindIn(t, <<"usr", "bin">>, pattern)
FindLib(t, pattern)     ==
    FindInAll(t, {<<"lib">>, <<"lib64">>, <<"usr", "lib">>, <<"usr", "lib64">>,
                  <<"usr", "local", "lib">>, <<"usr", "local", "lib64">>}, pattern)
FindInclude(t, pattern) == FindIn(t, <<"usr", "include">>, pattern)
FindShare(t, below, pattern) == FindIn(t, <<"usr", "share">> \o below, pattern)
\* Without a section the directory asked for is "man*", as it is spelled.
FindMan(t, section, pattern) ==
    FindIn(t, <<"usr", "share", "man", "man" \o section>>, pattern)
FindConfig(t, pattern)  == FindIn(t, <<"etc">>, pattern)
FindSystemd(t, pattern) == FindIn(t, <<"usr", "lib", "systemd", "system">>, pattern)
FindSystemdUser(t, pattern) == FindIn(t, <<"usr", "lib", "systemd", "user">>, pattern)
FindLicense(t, pattern) == FindIn(t, <<"usr", "share", "licenses">>, pattern)
FindSbin(t, pattern)    == FindInAll(t, {<<"sbin">>, <<"usr", "sbin">>}, pattern)
FindIcons(t, pattern)   == FindIn(t, <<"usr", "share", "icons">>, pattern)
FindDesktop(t, pattern) == FindIn(t, <<"usr", "share", "applications">>, pattern)
FindDbus(t, pattern)    == FindIn(t, <<"usr", "share", "dbus-1">>, pattern)
FindPolkit(t, pattern)  == FindIn(t, <<"usr", "share", "polkit-1">>, pattern)

FindCommands ==
    {"find", "lang", "doc", "bin", "lib", "include", "share", "man", "config", "systemd",
     "systemd_user", "license", "sbin", "icons", "desktop", "dbus", "polkit"}

\* The table of commands: f is [cmd, at, pattern], with a directory or a
\* section where the command takes one.
Find(t, f) ==
    CASE f.cmd = "find"     -> FindFiles(t, f.at, f.pattern)
      [] f.cmd = "lang"     -> FindLang(t, f.pattern)
      [] f.cmd = "doc"      -> FindDoc(t, f.pattern)
      [] f.cmd = "bin"      -> FindBin(t, f.pattern)
      [] f.cmd = "lib"      -> FindLib(t, f.pattern)
      [] f.cmd = "include"  -> FindInclude(t, f.pattern)
      [] f.cmd = "share"    -> FindShare(t, f.at, f.pattern)
      [] f.cmd = "man"      -> FindMan(t, Head(f.at), f.pattern)
      [] f.cmd = "config"   -> FindConfig(t, f.pattern)
      [] f.cmd = "systemd"  -> FindSystemd(t, f.pattern)
      [] f.cmd = "systemd_user" -> FindSystemdUser(t, f.pattern)
      [] f.cmd = "license"  -> FindLicense(t, f.pattern)
      [] f.cmd = "sbin"     -> FindSbin(t, f.pattern)
      [] f.cmd = "icons"    -> FindIcons(t, f.pattern)
      [] f.cmd = "desktop"  -> FindDesktop(t, f.pattern)
      [] f.cmd = "dbus"     -> FindDbus(t, f.pattern)
      [] f.cmd = "polkit"   -> FindPolkit(t, f.pattern)
=============================================================================
