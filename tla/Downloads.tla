------------------------------ MODULE Downloads ------------------------------
(***************************************************************************)
(* The sources of a build (internal/build/source_downloader.go, pkg/dl) and *)
(* the cache they are kept in (pkg/dlcache), one directory for each URL.   *)
(*                                                                         *)
(* What is downloaded stands in the cache directory first; a manifest,     *)
(* written last, tells that it is complete; then it is hard-linked to the  *)
(* source directory of the build.  A hard link shares the inode, so data   *)
(* is kept by inode.  The tree of an archive or of a repository counts as  *)
(* one inode: each of its files is linked in the same way.                 *)
(*                                                                         *)
(* A definition marked "Fault" is no part of a specification: it is the    *)
(* next one with a mistake that a run of the model has to notice.          *)
(***************************************************************************)
EXTENDS Naturals, Sequences, FiniteSets, SequencesExt, Functions

CONSTANTS
    Procs,      \* goroutines and processes that build
    Urls,       \* normalised URLs
    Dirs,       \* base packages, each with a directory of its own
    NoDir,
    Sources,    \* [Dirs -> Seq(Urls)]: after removeDuplicatesSources
    Kinds,      \* possible kinds of the URLs: "gitrev" is a repository at a
                \* commit, "git" one at anything that moves
    Contents,   \* what a URL may serve
    Skip,       \* the checksum "SKIP"
    Want        \* [Dirs -> [Urls -> Contents or Skip]]: the checksums

ASSUME DownloadAssumption ==
    /\ IsFiniteSet(Procs) /\ IsFiniteSet(Urls) /\ IsFiniteSet(Dirs)
    /\ Sources \in [Dirs -> Seq(Urls)]
    /\ Kinds \subseteq [Urls -> {"file", "archive", "torrent", "git", "gitrev"}]
    /\ NoDir \notin Dirs
    /\ Skip \notin Contents
    /\ Want \in [Dirs -> [Urls -> Contents \cup {Skip}]]
    /\ {"empty", "partial", "edited", "free"} \cap Contents = {}

VARIABLES
    kind,       \* one of Kinds, never changed: which downloader matches
    upstream,   \* what each URL serves
    cache,      \* /tmp/alr/dl: [dir, manifest, ino] for each URL
    data,       \* what each inode holds
    src,        \* source directories: an inode for each URL
    pc,         \* where each process is
    dir,        \* the base package it builds
    todo,       \* sources it has yet to get
    hand,       \* the inode of the file it writes
    disturbed   \* history: URLs and directories that two builds used at
                \* once, or that a build left or changed in place

fileVars == <<cache, data, src>>
dlVars   == <<kind, upstream, cache, data, src, pc, dir, todo, hand, disturbed>>

NoInode == 0
Inodes  == 1..(Cardinality(Urls) * (1 + Cardinality(Dirs)) + Cardinality(Procs))
Gone    == [dir |-> FALSE, manifest |-> FALSE, ino |-> NoInode]

DlSteps == {"get", "update", "manifest", "linkCached", "new", "create", "fill",
            "check", "unpack", "record", "rewrite", "link"}

IsGit(u)        == kind[u] \in {"git", "gitrev"}
Matches(d, u, c) == Want[d][u] \in {Skip, c}

Used    == {cache[u].ino : u \in Urls} \cup {hand[p] : p \in Procs}
               \cup {src[d][u] : d \in Dirs, u \in Urls}
NewInode == CHOOSE i \in Inodes : i \notin Used

\* What no step of a download changes.
downloadGivens == <<kind, upstream, dir>>

\* Data is kept as long as a link or an open file leads to it.
Holding(f) ==
    LET used == Used' IN data' = [i \in Inodes |-> IF i \in used THEN f[i] ELSE "free"]

\* The URL a process is at.
Url(p) == Head(todo[p])

\* On to the next source, or done.
NextSource(p) == /\ todo' = [todo EXCEPT ![p] = Tail(@)]
                 /\ pc' = [pc EXCEPT ![p] = IF Len(todo[p]) = 1 THEN "fetched" ELSE "get"]

At(p, step)   == pc[p] = step
Goto(p, step) == pc' = [pc EXCEPT ![p] = step]

DlInit ==
    /\ kind \in Kinds
    /\ upstream \in [Urls -> Contents]
    /\ cache = [u \in Urls |-> Gone]
    /\ data = [i \in Inodes |-> "free"]
    /\ src = [d \in Dirs |-> [u \in Urls |-> NoInode]]
    /\ pc = [p \in Procs |-> "idle"]
    /\ dir = [p \in Procs |-> NoDir]
    /\ todo = [p \in Procs |-> <<>>]
    /\ hand = [p \in Procs |-> NoInode]
    /\ disturbed = {}

DlTypeOK ==
    /\ kind \in Kinds
    /\ upstream \in [Urls -> Contents]
    /\ cache \in [Urls -> [dir : BOOLEAN, manifest : BOOLEAN, ino : Inodes \cup {NoInode}]]
    /\ data \in [Inodes -> Contents \cup {"empty", "partial", "edited", "free"}]
    /\ src \in [Dirs -> [Urls -> Inodes \cup {NoInode}]]
    /\ dir \in [Procs -> Dirs \cup {NoDir}]
    /\ todo \in [Procs -> Seq(Urls)]
    /\ hand \in [Procs -> Inodes \cup {NoInode}]
    /\ disturbed \subseteq Urls \cup Dirs

-----------------------------------------------------------------------------
(* Environment *)

\* A URL changes what it serves; a commit does not.
Publish(u) ==
    /\ kind[u] # "gitrev"
    /\ upstream' \in {[upstream EXCEPT ![u] = c] : c \in Contents \ {upstream[u]}}
    /\ UNCHANGED <<kind, fileVars, pc, dir, todo, hand, disturbed>>

-----------------------------------------------------------------------------
(* Download *)

Fetching(p, u) == pc[p] \in DlSteps \ {"get"} /\ Url(p) = u

\* Is there a directory for this URL?
Get(p) ==
    /\ At(p, "get")
    /\ Goto(p, IF ~cache[Url(p)].dir THEN "new"
               ELSE IF IsGit(Url(p)) THEN "update" ELSE "manifest")
    /\ disturbed' = disturbed \cup
                       {u \in {Url(p)} : \E q \in Procs \ {p} : Fetching(q, u)}
    /\ UNCHANGED <<downloadGivens, fileVars, todo, hand>>

\* A checkout has what the server has; a revision that names a branch or a tag
\* may be resolved to what the working copy knew before.
CheckedOut(u, i) ==
    {upstream[u]} \cup (IF kind[u] = "git" THEN {data[i]} \cap Contents ELSE {})

\* A working copy is brought up to date.  Where there is nothing to pull nothing
\* is verified; what was pulled, or is checked out each time, is verified, and
\* a manifest that was there is written anew.
UpdateGit(p) ==
    /\ At(p, "update")
    /\ UNCHANGED <<downloadGivens, src, todo, hand, disturbed>>
    /\ LET u == Url(p)
           i == cache[u].ino
       IN \/ Goto(p, "failed") /\ UNCHANGED <<cache, data>>
          \/ /\ i # NoInode
             /\ kind[u] = "git" /\ data[i] = upstream[u]
             /\ Goto(p, "manifest") /\ UNCHANGED <<cache, data>>
          \/ /\ i # NoInode
             /\ \E c \in CheckedOut(u, i) :
                   /\ IF Matches(dir[p], u, c)
                      THEN /\ Goto(p, IF cache[u].manifest THEN "rewrite" ELSE "manifest")
                           /\ cache' = [cache EXCEPT ![u].manifest = FALSE]
                      ELSE Goto(p, "failed") /\ UNCHANGED cache
                   /\ Holding([data EXCEPT ![i] = c])

\* What has no manifest was not completed and is thrown away.
ReadManifest(p) ==
    /\ At(p, "manifest")
    /\ UNCHANGED <<downloadGivens, src, todo, hand, disturbed>>
    /\ IF cache[Url(p)].manifest
       THEN Goto(p, "linkCached") /\ UNCHANGED cache
       ELSE Goto(p, "new") /\ cache' = [cache EXCEPT ![Url(p)] = Gone]
    /\ Holding(data)

\* DownloadCache.New: an empty directory, whatever was there.
New(p) ==
    /\ At(p, "new")
    /\ UNCHANGED <<downloadGivens, src, todo, hand, disturbed>>
    /\ Goto(p, "create")
    /\ cache' = [cache EXCEPT ![Url(p)] = [Gone EXCEPT !.dir = TRUE]]
    /\ Holding(data)

\* The request, and an empty file under the name of the source.  A file that
\* is there is truncated; a clone refuses a directory that holds one, and
\* makes the directory, as aria2c does.
Create(p) ==
    /\ At(p, "create")
    /\ UNCHANGED <<downloadGivens, src, todo, disturbed>>
    /\ LET u == Url(p)
           c == cache[u]
           i == IF c.ino = NoInode THEN NewInode ELSE c.ino
       IN \/ Goto(p, "failed") /\ UNCHANGED <<cache, data, hand>>
          \/ /\ c.dir \/ IsGit(u) \/ kind[u] = "torrent"
             /\ ~(IsGit(u) /\ c.ino # NoInode)
             /\ Goto(p, "fill")
             /\ cache' = [cache EXCEPT ![u].dir = TRUE, ![u].ino = i]
             /\ hand' = [hand EXCEPT ![p] = i]
             /\ Holding([data EXCEPT ![i] = "empty"])

\* Fault: nothing is verified.
ReceivedBlindly(p, u, c) == IF kind[u] = "archive" THEN "unpack" ELSE "record"

\* What comes after the last byte: a stream is verified as it passes, a
\* repository or a torrent where it lies.
Received(p, u, c) ==
    IF kind[u] \in {"git", "gitrev", "torrent"} THEN "check"
    ELSE IF ~Matches(dir[p], u, c) THEN "failed"
    ELSE IF kind[u] = "archive" THEN "unpack" ELSE "record"

\* The transfer; it may break off.  A clone that fails is cleared away.
Fill(p) ==
    /\ At(p, "fill")
    /\ UNCHANGED <<downloadGivens, src, todo, hand, disturbed>>
    /\ LET u == Url(p)
       IN \/ /\ Goto(p, Received(p, u, upstream[u]))
             /\ UNCHANGED cache
             /\ Holding([data EXCEPT ![hand[p]] = upstream[u]])
          \/ /\ Goto(p, "failed")
             /\ cache' = IF IsGit(u) THEN [cache EXCEPT ![u].ino = NoInode] ELSE cache
             /\ Holding([data EXCEPT ![hand[p]] = "partial"])

\* VerifyHashFromLocal.
CheckOnDisk(p) ==
    /\ At(p, "check")
    /\ UNCHANGED <<downloadGivens, fileVars, todo, hand, disturbed>>
    /\ LET i == cache[Url(p)].ino
       IN Goto(p, IF i # NoInode /\ Matches(dir[p], Url(p), data[i])
                  THEN "record" ELSE "failed")

\* The archive is read from the open file, unpacked beside it and removed.
Unpack(p) ==
    /\ At(p, "unpack")
    /\ UNCHANGED <<downloadGivens, src, todo, hand, disturbed>>
    /\ LET c == cache[Url(p)]
       IN /\ cache' = [cache EXCEPT ![Url(p)].dir = TRUE,
                                    ![Url(p)].ino = IF @ = NoInode THEN hand[p] ELSE @]
          /\ \/ Goto(p, IF c.ino = hand[p] THEN "record" ELSE "failed") /\ UNCHANGED data
             \/ Goto(p, "failed") /\ Holding([data EXCEPT ![hand[p]] = "partial"])

\* The manifest, last; after an update it is read once more.
Record(p) ==
    /\ pc[p] \in {"record", "rewrite"}
    /\ UNCHANGED <<downloadGivens, src, todo, disturbed>>
    /\ hand' = [hand EXCEPT ![p] = NoInode]
    /\ IF cache[Url(p)].dir
       THEN /\ Goto(p, IF At(p, "rewrite") THEN "manifest" ELSE "link")
            /\ cache' = [cache EXCEPT ![Url(p)].manifest = TRUE]
       ELSE Goto(p, "failed") /\ UNCHANGED cache
    /\ Holding(data)

\* What a link to the inode i, or a copy over the inode j, leaves: a
\* destination that exists is truncated first, even if it is the source.
LinkOrCopy(i, j) ==
    IF j = NoInode THEN data
    ELSE [data EXCEPT ![j] = IF j = i THEN "empty" ELSE data[i]]

\* handleCache.  A file missing from a cached directory is downloaded again;
\* after a download nobody looks whether it was there.
Link(p) ==
    /\ pc[p] \in {"linkCached", "link"}
    /\ UNCHANGED <<downloadGivens, cache, hand, disturbed>>
    /\ LET u == Url(p)
           i == cache[u].ino
           j == src[dir[p]][u]
       IN \/ /\ ~cache[u].dir
             /\ Goto(p, "failed")
             /\ UNCHANGED <<data, src, todo>>
          \/ /\ cache[u].dir /\ i = NoInode
             /\ IF At(p, "linkCached") /\ kind[u] \in {"file", "torrent"}
                THEN Goto(p, "new") /\ UNCHANGED todo
                ELSE NextSource(p)
             /\ UNCHANGED <<data, src>>
          \/ /\ cache[u].dir /\ i # NoInode
             /\ NextSource(p)
             /\ src' = [src EXCEPT ![dir[p]][u] = IF j = NoInode THEN i ELSE j]
             /\ Holding(LinkOrCopy(i, j))

DlStep(p) ==
    \/ Get(p) \/ UpdateGit(p) \/ ReadManifest(p) \/ New(p) \/ Create(p) \/ Fill(p)
    \/ CheckOnDisk(p) \/ Unpack(p) \/ Record(p) \/ Link(p)
=============================================================================
