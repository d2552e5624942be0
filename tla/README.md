# ALR in TLA+

ALR ("Any Linux Repository") builds and installs packages described by `alr.sh`
scripts that live in git repositories. It runs as a command and as a D-Bus
daemon, keeps an sqlite database of the packages in its repositories, resolves
dependencies across ALR packages and the packages of the host system, builds
each script in a subprocess, and hands the result to the system's package
manager.

This directory holds a model of the parts of ALR where order, failure and
concurrency decide whether the result is right, the TLC configurations that
check it, and proofs about it that TLAPS checks. Source paths are relative to
the repository.

## 1. The system

| part | state | operations | talks to |
|---|---|---|---|
| D-Bus service `internal/dbus/service.go` | job and package registries, job counter, bus objects | Run, RegisterJob, exportJob, UnregisterJob, EmitSignal | bus library, jobs |
| Jobs `job.go` | status, progress, done channel, cleanup timer | Cancel, Wait, GetInfo, SetStatus, SetCompleted, SetFailed | service, waiting clients |
| Methods that start jobs `manager.go`, `package.go` | a goroutine per job | RefreshRepositories, Install, Remove | Repos.Pull, Builder.InstallPkgs, the package manager |
| D-Bus client `dbus.go` | – | watchJob, stop | the service |
| Repositories `internal/repos` | working copies, remote-tracking branches | Pull, mirrors, FindPkgs | git hosts, database |
| Package database `internal/db` | rows of packages, cached availability, schema version | Init, InsertPackage, DeletePkgs, queries | everything above |
| Dependency tree `internal/build/dependency_tree.go` | nodes, order, system dependencies of one call | ResolveUnifiedDependencyTree | FindPkgs |
| Installation `internal/build/build.go` | the call's queues; built package files | InstallPkgs, BuildPackage, BuildALRDeps | tree, executors, package manager, user |
| Executors `internal/build` | subprocesses, build directories | scripts, sources, repositories, installation over RPC | |
| Downloads `pkg/dl`, `pkg/dlcache` | cache directories with manifests | Download, New, Get | network |
| Package contents `internal/shutils/helpers`, `internal/build/utils.go`, `firejail.go` | the package directory of one build | install-*, files-find-*, buildContents, the firejail wrapper | build scripts, nfpm |
| Managers `internal/manager` | – (the system's package database) | Install, Remove, list | apt, dnf, pacman, apk, zypper, ... |
| Configuration `internal/config`, `repo.go`, `fix.go` | config file | add, remove, set repositories and mirrors | working copies, database |
| Package objects `internal/dbus/manager.go`, `package.go` | registry, objects on the bus, installed flag | GetPackage, Install, Remove, Refresh | database, jobs, package manager |
| Upgrade `upgrade.go`, `install.go` | – | install, remove, upgrade | database, Builder.InstallPkgs, the package manager |
| Versions `pkg/depver` | – | Parse, Satisfies | lookup |
| Package fields `pkg/alrsh`, `internal/overrides`, `internal/shutils/decoder` | the variables of a script, the columns of a row | ParseBuildVars, DecodeVar, Resolve | scripts, database, everything that reads a package |
| PolicyKit, notifications, generators, search, list, statistics | – | | |

What is hard in it:

* **Concurrency.** The daemon runs each method in its own goroutine, each job in
  another, each export and each cleanup in another; the mutexes protect fields,
  not protocols. Several `alr` processes and the daemon share the working
  copies, the database, the build directory and the config file without a lock.
* **Failure.** Pulling moves the working copy, then rewrites rows; building
  installs dependencies before it knows whether the targets build. Nothing is
  rolled back.
* **Retry.** A pull that fails for any reason is tried again with the next
  mirror, which may lag behind.
* **Recursion over untrusted graphs.** Dependencies may be cyclic, and Go
  visits maps in any order.

What makes each part correct:

* *Jobs:* one final result per job; waiters hear that result; every channel is
  closed once; a job leaves the registry only when it is over; a started job
  can be reached.
* *Repositories:* after a pull the rows are those of the commit checked out.
* *Tree:* complete, each package once, dependencies first, ends on cycles.
* *Installation:* nothing happens before consent; whatever is built has its
  dependencies; success means that everything asked for is installed; nothing
  the user had is removed.
* *Build and downloads:* a package file under its final name is whole and was
  built from what was asked for; what is marked as downloaded was verified; a
  whole file is not touched again.
* *Contents:* what a script installs is found by the matching command, packed,
  and still there behind a firejail wrapper.
* *Package fields:* of several variables for one field, the one that fits this
  machine and language best counts; what is planned with is what is built with.
* *Upgrade:* afterwards nothing installed is older than its row; nothing is
  lowered that the user did not name.
* *Configuration:* the file is what the commands add up to; rows belong to a
  repository that is configured, and to the origin it is configured with.
* *Package objects:* one object for a path; what it shows is true.

`PROJECT.json` lists the components with their status and every hazard with its
line.

## 2. Modules

| module | models | state | actions |
|---|---|---|---|
| `DBusTypes` | `types.go`: statuses, job paths | – | – |
| `JobLifecycle` | what `interfaces.go` promises of a job (abstract) | phase, asks, answer | Submit, Begin, End, Ask, Hear, Leave |
| `DBusJobs` | `job.go`, `service.go`, starting methods, `watchJob` | service, jobs, bus, clients | one for each method or goroutine step |
| `DBusPackages` | `manager.go`, `package.go`, the package commands of `dbus.go` | rows, registry, objects, bus, one call per client | the stages of a call, exports, refreshes, the user's own manager |
| `RepoSync` | `pull.go` for one repository and its rows | upstream, tracking, head, db, one pull per puller | one for each stage of a pull |
| `ConfigRepos` | `repo.go`, `config.go`, `fix.go`, `refresh.go`, `internal/config`, schema of `db.go` | config file, working copies, origins of rows, one command per process | one for each step that another process or a crash can see |
| `DependencyTree` | `ResolveUnifiedDependencyTree` | explicit stack, visited, order, systemDeps | steps of `resolve` |
| `InstallPkgs` | `Builder.InstallPkgs`, extends `DependencyTree` | the call's variables, installed, cache | steps 1 to 7 of the function |
| `Upgrade` | `upgrade.go`, `install.go`, `find.go`, `depver.go`, the version filter of `installer.go` | rows, scripts, files, installed, one command | the loop over installed packages, then the call it makes, and other processes |
| `Downloads` | `source_downloader.go`, `pkg/dl`, `pkg/dlcache` | cache, inodes, source directories, one download per process | the steps of a download |
| `BuildPackage` | `BuildPackage`, `BuildALRDeps`, `script_executor.go`; extends `Downloads` | package files, one build per process with those it waits in | start, dependencies, directories, script, packaging, abort |
| `PackageFields` | `overrides.go`, `alrsh.go`, `package.go`, `overridable.go`, `decoder.go` | one field of one package: script, variables, row, what each user saw | the steps from the script to the row and from the row to its readers |
| `FilesFind` | `helpers.go`, `files_find.go` over a tree (functions) | – | – |
| `PackageContents` | `package()`, `files()`, `buildContents`, `firejail.go`, nfpm; extends `FilesFind` | the tree, the list, the package | commands of the script, then each stage |
| `*_proofs` | theorems about the module named; `DependencyTree_proofs` also about `InstallPkgs`, `BuildPackage_proofs` also about `Downloads`; `Package_proofs` about `PackageFields` and `PackageContents` with `FilesFind` | | |
| `MC*` | instances for TLC | | |

Composition: `DBusJobs` implements `JobLifecycle` (`Promise`, a refinement
mapping); `InstallPkgs` contains the steps of `DependencyTree` and implements its
specification; `BuildPackage` contains those of `Downloads`. The runner step
`RunnerWork` of `DBusJobs` stands for a whole call of `InstallPkgs` or of a pull,
an item of the build loop in `InstallPkgs` for a whole `BuildPackage`, `Execute` of
`BuildPackage` for what `PackageContents` does in a build, and a `Pull` of
`ConfigRepos` for a whole pull of `RepoSync`.

A definition whose comment begins with "Fault" is not part of a specification:
it is the next definition with a mistake in it, kept to show that a property
notices the mistake.

### DBusJobs

Every method of `DBusJob` holds the job's mutex from first to last line and is
one step. `StartJob` and `RegisterJob` are two steps, because the goroutine that
does the work is started between them; `RegisterJob` and `ExportJob` are two,
because the export has a goroutine of its own; `WaitWake` and `WaitRead` are
two, because `Wait` takes the lock only after the channel has woken it.
`RunnerWork` has no other outcome than success or failure: no context reaches
the work (`SetContext` has no caller).

Closing a closed channel panics in Go and ends the process with every goroutine
in it: `daemon = "panicked"`. After a panic, a kill or a power loss the service
starts from `Init` with an empty registry; such a restart is a new behaviour.

A job's path is the Unicode character with the job's number, not its numeral;
the library refuses a path that is not `[A-Za-z0-9_]`: such a job is not
exported, its signals are dropped and the reply of the method that started it
cannot be sent. `FirstID` says how many jobs have come and gone before `Init`,
so that a run can look at the numbers where paths turn valid (47 to 48) or are
invalid (0).

Assumed: a cleanup's five minutes outlast the rest of the handler and of the
export goroutine (guard of `UnregisterJob`); the bus library dispatches a call to
the object exported at that moment.

### DBusPackages

A client asks for a package's path and then calls the object there. `Lookup` (the
registry under its lock), `Query` (database), `New` and `Status` (the manager is
asked), `Flag`, `Set` (the property) and `Register` are separate steps, as nothing
holds a lock from one to the next; `Export` is a goroutine. `crossed` collects the
packages two calls or jobs worked on at once, `unseen` those changed behind the
daemon's back; the properties promise nothing of them, because the code does not.
Names are the two the code uses: `alr-<name>+<repo>`, which it asks the manager
for, and `<name>+<repo>`, which the packages it builds are called.

### RepoSync

One repository, its URL and mirrors, and the rows of its packages. A pull is
`Fetch`, `Inspect` (HEAD at the revision and any row: up to date), `Checkout`
(moves HEAD), `Plan` (a full load, or the actions derived from the patch: `full`
says which), `Apply` once for each script, `ReadToml`. An error at any stage goes
on with the next URL (`FailOver`): a script that does not parse (`ApplyFails`), a
bad `alr-repo.toml`, or one the fetch, git or the database returns anywhere
(`StageFails`). `Crash` kills a puller anywhere. Both are `CutShort`: rows that
were written stay, and a checkout leaves HEAD in any state.

`AppliedIsRight` asks of each kind of loop what that loop is for: one over the
whole commit has loaded every script; one over changes has set right every
package of a script that changed, so that what only a deleted script declared
has no row. It holds whatever was torn before the loop began.

Abstractions: a row is its version; the rows of one script are written in one
step; scripts are absent, broken or declare packages; a renamed file is one
whose script declares the same packages; package names are unique to a
repository's database rows, as all queries name the repository. `todo` is the set
of file patches the loop has not begun and `patch` what is left of the one it is
at: git sorts patches by path, and which path comes first is arbitrary, so the
loop takes them in any order; within one, a rename deletes before it inserts.

`IsSteady` says which histories the properties are promised for: the packages a
script declares stay the same and belong to one script at a time. With others
the code leaves rows behind after one pull without any fault (section 4).

### ConfigRepos

Each command is the list of steps it has yet to take (`AddRepoCmd`,
`RemoveRepoCmd`, ...), and each step is one action, so that any other process
may come in between, and `Abort` may end it before any step: an error or a kill.
Saving is `truncate` and `write`; a file that ends between them is empty or does
not parse. Loading may find no file or one without a newer option, and then
writes one itself (`create`, `migrate`). The schema of the database is an own
state, as opening it may drop every row (`init`, `reset`, `version`).

Three history variables say what the code promises nothing about: `late` (a
process whose copy of the configuration another has made out of date), `behind`
(a repository whose new origin is yet to be pulled) and `torn` (one a failed or
overlapping command was about). `wanted` is what the commands add up to.

### DependencyTree

`resolve` calls itself from a loop over a map. The stack holds one frame for
each call: what is left of its map, the package whose dependencies are being
resolved, and what comes next for it. A package that is named is found under
one name; `Names` are those the database has and the resolver keeps, `System`
all others.

### InstallPkgs

The steps of the function, in its own numbering, after the steps of the tree.
`Extract` picks the elements of a sequence at given positions; it is no
recursion over the sequence, so that proofs can look into it.
The answers of the user, the package manager and the build of one script are
choices. Left out: optional dependencies (step 3), scripts that declare several
packages (they are in `BuildPackage`), and changes of the system by others
during the call (they are in `Upgrade`).

### Upgrade

Rows, working copies, built files and what is installed each have a version
with epoch, version and release. `Search` compares one installed package with
the row the query returns; `Resolve`, `TakeDependency`, `SkipDependency` and
`TakeTarget` are the part of `InstallPkgs` that depends on versions. Others may
move a working copy, write a row, and install or remove; `Checkout` and
`WriteRow` of a pull are two steps. `NamesWith` stands for `LIKE %name%`.
What a call needs is everything below the packages asked for (`Tree`, the
closure of the dependencies); in which order it is taken is left open, that is
the business of `DependencyTree` and `InstallPkgs`.

With `preferALRDeps` off, a package that was found is handed to the system's
manager when the manager lists it under the very text of the request
(`dependency_tree.go` 103-119). `Offers` are the sets of requests that may be;
a command takes one of them (`preferred`) and keeps it, which takes the
manager's answers as the same throughout a call. `Found` is what is left,
`system` what goes to the manager, `given` what it was handed: a package of
ALR's own that it lists there stays as it is. `NothingLeft` counts a dependency
that was handed over as met.

### Downloads and BuildPackage

A hard link to the cache shares the inode, so data is kept by inode:
`cache[u].ino`, `src[d][u]` and the file a process has open lead to one, and a
write through any of them changes all. The tree of an archive or of a repository
counts as one inode. A cache directory is made (`New`), filled, verified, and
only then marked by its manifest (`Record`). Git sources are updated in place: a
commit ("gitrev") never moves, a branch or a tag ("git") does, and an update may
leave the working copy at what it had or take it to what is upstream
(`CheckedOut`). What was pulled is verified, and a manifest that was there is
written anew (`git.go` 248): between the two there is none (step "rewrite").

A build starts with the packages that are missing at that moment, builds the
ALR dependencies in between (`BuildDep`, with the outer builds kept in
`waiting`), clears the source directory, downloads, executes, and creates each
package file under its final name before writing it. `disturbed` collects the
URLs and directories that two builds used at once, or that were left over or
edited in place. `Want` is what each script asks of a URL, so that two scripts may
ask for different contents of one (`Disputed`).

A dependency is built without what it needs to run, but what it needs to be
built is installed first (`build.go` 396-411, 690-714), and may have to be built.
Builds inside that one have no list of their own, so three builds of one process
at most are within each other; the theorems do not use that. A dependency that
is found installed or cached, and the installation itself, are `SkipDep`.

### PackageFields

One overridable field, `deps` say, of one package. `ParseBuildVars` runs the
script (for a build or for a pull); a script with several packages has a meta
function for each, whose name is looked up under its overrides too
(`CreatePackageFromMeta`, `MetaMissing`); `SetVar` decodes the variables one at a
time in the order of a Go map; a pull stores the field without what it resolves
to (`ToDB`); a plan, `info` or the daemon reads the row (`FromDB`). The nested
loops of `overrides.Resolve` are `at`, three indices that `Succ` moves. `seen` is
what each user of the field got last.

The script and the row are those of one version. Left out: fields that have no
overrides, the lists `auto_req` and `auto_prov` skip, and callers that pass other
overrides than the machine's (`Opts.Overrides`); the transfer between processes
changes nothing a reader can see.

### FilesFind and PackageContents

A path is a sequence of names, a tree a function from paths to entries. The
install commands and the find commands are translated one by one, each with the
directory it uses on each distribution; whatever a script puts there besides is
one of `Makings`, and `Delete` takes away any path with all that is below it, so
that something else can be put in its place. Names with brackets are `Odd`,
because `files-find` takes them for patterns. `CollectContents` is
`buildContents`, `CreateFirejailedBinary` renames one program and writes its
wrapper, `Pack` is nfpm over the list.

`normalizeContents` escapes what each entry is read from and where it goes
(`utils.go` 182-183). nfpm is external, and the model assumes of it that it looks
for files by pattern, so that an escaped one is found and lands under the name it
has, and takes links and directories as they are written (`LandsAt`): those keep
the backslashes, and so does the text of a link. `PackageIsComplete` promises a
link or a directory in its own form only where nothing had to be escaped
(`Altered`), and otherwise that it is there under one of the two names.
Owners, modes and the mark of backup files are left out: they say how a file is
packed, not whether.

A command fails where the system call does: a file in the place of a directory
(`CanHold`, `CanMakeJail`), a directory in the place of a file, a link that leads
to either (`CanInstall`), a directory where the jail would put a program
(`CanMove`). Names are strings, and some are put together of others; what the
properties need to know of that is `NamesAssumption`: a place the script has a
name for (`Named`) has a place in the jail and another for its profile, and no
name in it looks like an escaped one. `CommandsAssumption` says which commands
there are and that a script makes no links in the jail's own directory. Two
programs may well have one place in the jail, and in `contents` two do.

## 3. Runs

| run | asks | bounds |
|---|---|---|
| `jobs` | one verdict per job, waiters hear the truth, open jobs stay registered; waiters are answered, jobs forgotten, completions announced | three peers, one job (48, reachable), Cancel, all interleavings |
| `jobs_promise` | refinement of `JobLifecycle` without Cancel | two peers, jobs 47 (unreachable) and 48 (reachable) |
| `packages` | one object, a true flag, every registered package is served in the end | two clients, one package with a path the bus takes or refuses, two objects, three commands |
| `sync` | rows match the commit unless a pull was torn; a finished loop has done what it was for; pulls end | one puller, URL and mirror, two histories of three commits (scripts that come, change, go, break, are renamed), two stages that fail, two crashes |
| `config` | no edit is lost, no rows without a repository or of another origin | two processes, two repositories, two URLs, a new and an old installation; three commands, of which the first two overlap |
| `build` | package files are whole and right, whole files stay, the cache is verified | two processes, two builds and those inside them; an application and a tool that need each other to be built; a source, as archive, branch or commit, that changes upstream and may be edited |
| `fields` | who resolves a field gets the variable that counts; plan and build agree | one field with six variables (none, for an architecture, a distribution, both, for a language, one without its underscore), scripts with one package, two with a meta function, and two of which one is called like an override of the other; two architectures, two distributions, a user language that can be parsed and one that cannot |
| `contents` | install and find agree, the package is complete, programs survive the jail | three commands in all: of fifteen install commands, seven makings and any deletion, then of twenty-five find commands; four systems, five settings |
| `install` | tree complete, once each, dependencies first; consent, readiness, completeness | three packages and one system name, over three hundred graphs (chains, diamonds, cycles of two and three), three requests (one names a package twice, one a system package), three states of system and cache each |
| `upgrade` | nothing is left behind, nothing is lowered | three packages with overlapping names, a base name and a provided name; versions with epochs and releases; a manager that is preferred for nothing or for two requests; one command, two events of others |

Two clients suffice to start and wait, cancel or wait as well; with three, two
wait while one cancels; two jobs make one path's job disturb another's if it
could. One package is enough for `packages`: objects of different packages share
nothing but the registry's lock. Three commits are what a mirror needs to go
forth and back around a change; two crashes allow one in the repair of another.
A third command after two that overlapped or failed is what a repair needs. Two
builds that may nest give a directory used by two processes and one used twice
by one. Three packages are what a diamond without its top, a chain and a cycle
of three need. An application and a tool that need each other make a build come
back to the directory it began in. A third script with the same source as the
application was checked too; it makes `build` half as long again and finds
nothing else, and the theorems hold with any number. Three commands put a file
in place, take it away and put another there, or put two programs where one
wants the place of the other. The theorems need no bounds.

Torrents are in `Downloads` and in no run: they have the check on disk that a
repository has. The steps of plain files are those of an archive without unpacking.
Adding either to `MCKinds` makes `build` longer and changes nothing.

No run has to check `IInv` and `FinishedIsFinal` of `DBusJobs` or `StackIsPath` of
`DependencyTree`: they are proved for every value of the constants (section 6).
`UpgradeInv` was found to hold in every state of `upgrade` before it was proved; it
can be added to the invariants of `Upgrade.cfg` and doubles that run.

Deadlock checking is off where the system stops: when a bound on commands, jobs
or builds is used up, when the daemon is gone, and when the resolver, the
installation or the script returns.

## 4. Where the code does not do what it says

These runs check one statement that a comment or a message makes and find it
violated; `PROJECT.json` quotes each.

| run | what happens |
|---|---|
| `jobs_v_panic` | a job that was cancelled closes its channel twice: the daemon panics |
| `sync_v_crash` | a crash after checkout: the next pull says "up to date" on old rows |

Further departures seen while the models were written, and excepted by name in
the properties they concern:

**Daemon**

* The daemon asks the package manager for `alr-<name>+<repo>` (`package.go` 133),
  and what it builds is called `<name>+<repo>`: what Install installed is shown
  as not installed, and Remove does not remove it.
* A job's path is `string(rune(id))` (`types.go` 184, where the comment at 190
  expects a numeral): job 1, and every job whose number is not that of a letter,
  a digit or an underscore, is not on the bus; the numbers of surrogates share
  one path.
* A job cancelled before its goroutine begins is set to running again
  (`job.go` 185); `IInv` has the resulting state as the second alternative of
  `RunnerMatchesJob`.
* The path of a job or package is given out before its object is exported
  (`service.go` 207, 259), so a client may be told that there is no such object.
  A hyphen in a name or repository makes a path the bus refuses.
* SIGTERM cancels a context the daemon does not wait for (`main.go` 173,
  `service.go` 138), and `Service.Stop` has no caller: `alr dbus stop` reports a
  daemon as stopped that goes on. The daemon keeps the configuration it started
  with.

**Repositories and configuration**

* Two pulls of one repository at once share its working copy (`pull.go` 230)
  and may both succeed with rows of neither commit (`sync` with
  `Pullers = {p1, p2}` and `SyncedOnSuccess`).
* A script that does not parse ends a pull after HEAD has moved (`pull.go` 471):
  the next one reports up to date (`torn` excepts this in `SyncedUnlessTorn`).
* A package dropped from a script that stays keeps its row (`pull.go` 458), and
  one that moves to a script with an earlier path is inserted and then deleted
  with its old script (`pull.go` 452). The histories of `sync` have neither; with
  them `SyncedOnSuccess` fails after one pull without any fault. xorm's `Update`
  leaves fields alone whose new value is zero (`db.go` 137), so a field that a
  script no longer sets stays in its row.
* Saving truncates the file and then writes it (`system_config.go` 67): who
  reads in between sees defaults, and may write them back as a migration; a
  process that dies there leaves a file no command can load, `fix` included. Two
  commands at once lose the edit of one.
* `set-url`, `set-ref` and `mirror add` accept names nobody configured. `repo add`
  saves the origin that `alr-repo.toml` names, which need not be the one it
  pulled from. `fix` with a database it cannot delete, or a removal that is cut
  off, leaves rows of two origins.
* `ALR_PREFER_ALR_DEPS` (`env_config.go` 47) sets a key nothing reads.

**Installation**

* A dependency that is also a target is not installed when it is needed
  (`build.go` 1103, against the comment at 1092).
* A call that is not interactive leaves the manager asking (`build.go` 974);
  zypper is never left asking, and apk is passed `-i`, which asks, where it
  should not (`apk.go` 37).
* `--clean` has no effect on a target with a cached file (`build.go` 1051), and
  the build dependencies that are removed at the end include those installed
  before the call (`build.go` 1120).
* `alr upgrade` compares a package with the first row whose name contains its
  name (`upgrade.go` 223-237), so it may leave it as it is, or install or lower
  the other one. An epoch is lost where the release is 0 (`upgrade.go` 243). The
  names it passes on fail for scripts that declare several packages
  (`upgrade.go` 52). A newer installed version counts as meeting a dependency on
  an exact or a lower one.
* With `preferALRDeps` off, a package the manager lists under the text of a
  request is left to it (`dependency_tree.go` 103-119), also when what it lists
  is the ALR package of that name, as `apt-cache pkgnames` (`apt.go` 199) lists
  one that is installed: `alr upgrade` asks for `name+repo`, which is what such a
  package is called, and may then leave it in its old version (`given` in
  `NothingLeft`).
* Sync of dnf and yum runs an upgrade. The options a caller passes are appended
  to a default all callers share (`managers.go` 116).

**Builds**

* `alr build` builds only the indirect ALR dependencies: `AllALRPackages` leaves
  out the direct ones (`build.go` 525-605). A dependency that in turn needs a
  package of the script being built builds it a second time.
* A package file is created under its final name (`script_executor.go` 195) and
  counts as built from then on (`cache.go` 50).
* Two builds of one script at once clear each other's sources, and copying over
  a link truncates what both have (`dl.go` 300-329). A script that writes to a
  source in place changes the cache, which is not verified again.
* What is in the cache is compared with no checksum (`dl.go` 164): the cache knows
  a source by its URL alone, so a source cached for a script that skips its
  checksum is built by a script whose checksum it does not have (`Disputed`). A
  `local://` source is shared by that name among all scripts, and a script that
  names one URL in two spellings overwrites what the first has linked (`dl.go`
  310).
* A checkout of a branch that did not match its checksum is not verified when
  it is tried again (`git.go` 229). Whether a file was there after a download is
  not looked at (`dl.go` 238).

**Package fields**

* A row is stored without what its fields resolve to (`overridable.go` 75-106),
  and the daemon never resolves them (`package.go` 67): on the bus no package has
  dependencies, a description or a summary. `SeenIsBest` speaks of the others.
* A meta function is looked up under overridden names (`alrsh.go`), so a package
  called like an override of another (`app` and `app_en`) may be given that one's
  fields. A variable written without the underscore after the field's name
  (`depsarm5`) has the same key as the one with it, and which of them counts is
  the order of a Go map.
* `arm64` is taken for an arm with the number 64 (`cpu.go` 93-103), so what a script
  sets for `arm7` or `arm5` counts on it as well.

**Contents**

* `files-find-man` without a section looks in a directory called `man*`;
  `install-icon` installs where `files-find-icons` does not look;
  `install-completion` for an unknown shell installs into the root of the
  package; names with brackets are never found; patterns the templates of
  `internal/gen` use in `files()` are not expanded.
* Brackets in the name of a link or of a directory, and in the text of a link,
  are escaped like those of files (`utils.go` 182), but nothing takes the
  backslashes off again (`Altered`).
* What `files()` prints begins with `./` when it comes from a find command, and
  then does not match the paths of `backup` (`utils.go` 144), so such a file is
  replaced on upgrade like any other.
* A relative symbolic link dangles once firejail has moved it; two programs
  whose names become the same when slashes turn into underscores collide, and
  the build fails.

## 5. Fairness

* `DBusJobs`: weak fairness of every handler, runner, export goroutine and
  cleanup timer, since Go schedules goroutines that can run and the tools a
  runner drives return; of the client's watch, which is straight-line code; and
  of the answer the bus gives for a peer that is gone. Nothing says that anybody
  starts, cancels, times out or attaches to a job.
* `DBusPackages`: weak fairness of every call that was made and of every export
  goroutine, for the same reason. Nobody has to call.
* `RepoSync`: weak fairness of the steps of a pull that was started. Stages that
  fail are bounded by the number of URLs in any one pull, so its end needs no
  more.
* The other modules have safety properties only: a command may be killed at any
  point, and what bounds the resolver is that its stack is a path of distinct
  packages.

## 6. Proofs

Each theorem holds for every value of the constants that the assumptions of its
module allow: any number of processes, clients, packages, repositories and
commands.

### `DBusJobs_proofs` (from `ConstantsAssumption`)

* `TypeCorrect`: the types, with the strengthening that a client in a call is in
  it about a job (`TypeInv`).
* `Invariance`: the inductive invariant `IInv`. The properties are not inductive:
  that a waiter hears the truth depends on the runner not being able to finish
  a job twice, which depends on what position of the runner goes with which
  status, channel and signals. `RunnerMatchesJob` states that for each position,
  with a second alternative for a job that was cancelled under its runner;
  `OnlyIssuedJobs` keeps job numbers from being used before they are issued; and
  `HeardIsOver` ties clients to closed channels. It holds while the daemon
  lives: a panic ends every goroutine in the middle.
* `OnlyCancelPanics`, `WaitTellsTheTruth`, `OneVerdictPerJob`, `FinishedJobsStay`:
  consequences of `IInv` (the last two together with `TypeInv`).
* `OpenJobsAreKept`: `ForgottenOnlyWhenOver`, assuming that the paths of the jobs
  are distinct (`DistinctPaths`), as those of valid characters are.
* `PromiseKept`: with `AllowCancel = FALSE`, `DBusJobs` implements `JobLifecycle`.
  Each step maps to a step or a stutter; the invariant that no job is in the
  state a cancellation leaves (`NotCancelled`) rules out the rest.

Key lemmas: `FinishOpen` and `FinishCancelled` (what a setter does to a job whose
channel is open, and that it panics on one that was cancelled), `JobSteps` (only
creation, runner steps and Cancel touch jobs), `FinalStep` (what never changes
back).

### `DependencyTree_proofs` (from the assumptions of both modules)

* `InstallImplementsWalk`: `InstallPkgs` implements the specification of the walk,
  so what is proved of the walk holds in every installation.
* `TreeIsAlwaysComplete`, `OrderIsAlwaysTopological`, `StackIsAlwaysPath`:
  consequences of `WalkInv`. The properties look at the walk when it is over, or
  at the order alone; why they hold is in what each frame of the stack has left
  to do (`FramesAgree`: a dependency of a frame's package that is not yet in the
  tree is still to be done by the frame above it) and in that a node is in the
  order or its call is in progress (`OrderAgrees`).
  `Closure` is the least closed set, so no induction over paths is needed.
* `NeverBeforeConsent`: `NothingBeforeConsent`, with what each step knows of
  `confirmed` and `asked`.
* `InstallIsTyped`, `SuccessAlwaysInstallsAll`, `DepsAlwaysReady`: from
  `InstallInv`. A call that succeeds says nothing of how it got there, so the
  invariant follows each package: it is on the list, put off, or installed
  (`Covered`), and the list is empty when the loop is over. That a package is
  built after its dependencies needs the order of what is left of the list:
  `Sorted` says that no package stands behind one it precedes in the tree's
  order, unless it is a target. With `OrderIsTopological`, a dependency that is
  no target and does not need the package in turn comes sooner in the order, so it
  is on the list no longer, and is installed. What the system provides is there
  before the first script is read (`SystemIsReady`).

Key lemmas: `NthPosition` and `Extracted` (what picking elements of a sequence
yields, and in which order), `PlannedList` (the list has the whole tree, sorted),
`ListTail`.

### `BuildPackage_proofs` (from `BuildAssumption`)

* `WholeFilesStayWhole`. A build writes the packages that were missing when it
  began, perhaps long before. The inductive invariant `WholeInv` says that they
  are missing still, or their directory is disturbed (`RestIsMissing`), because
  nobody else builds in that directory unnoticed (`Apart`), neither another
  process nor an inner build of the same one, however many are within each other
  (`OuterBuilds`); and that a file
  somebody has open is half-written (`OpenIsPartial`). Downloads enter by one
  lemma only: their steps leave package files alone.

* `BuildsAreTyped`, `CacheIsAlwaysVerified`, `FilesAreAlwaysSound`. Links share
  data, so whether a cached source may be trusted depends on everybody who can
  write to its inode. `SourceInv` says that an inode is reached through one URL
  only (`OneUrl`: cache, source directories and open files together, `Leads`) and
  that two processes fetch one URL only if it is marked as disturbed
  (`OneFetcher`). For a URL nothing is known to spoil, `UrlInv` then follows a
  download by its steps: what has a manifest is verified (`Verified`), what is
  being fetched is as far as its step says and belongs to the one who fetches it
  (`FetchState`, `Fresh`), and what a build has been given is what the cache has
  (`Linked`). `SoundInv` adds what a build makes of it.

Each step of a download has one lemma about what it leaves alone (`...Frame`) and
one about what it keeps for each URL (`...Keeps`). A free inode is always found,
by counting (`NewInodeIsFree`).

### `DBusPackages_proofs` (from `PackagesAssumption`)

* `ObjectsAreTyped`, `OneObjectForAPath`, `FlagStaysTrue`, from the invariant
  `ObjectInv`: objects exist before anybody has them (`OnlyMade`), a package no
  two calls overlapped on is worked on by at most one client or export
  (`Alone`), its registry entry and its two faces on the bus are the same object
  but for the steps between (`Faces`), and the answer of the manager travels
  from `IsInstalled` to the flag and the property unchanged (`Flags`).

### `ConfigRepos_proofs` (from `ConfigAssumption`)

* `ConfigsAreTyped`: with the lemma that an edit makes a table of repositories
  into one (`EditedTable`).
* `ConfigIsAlwaysKept`. That the file is as wanted while nobody saves needs two
  things of `KeptInv`: that a command always writes right after it has truncated
  (`Follows`, kept by taking a step off, `TailFollows`, and by putting programs
  together, `JoinFollows`), and that the copy of a process that is not late is
  what was asked for, and that nobody else is saving then (`CopyIsRight`).

* `NoRowsWithoutRepository`, `RowsAlwaysFollow`: from `RowsInv`. A command touches
  the working copy, the file and the rows one after the other, so the rows may be
  out of step with the file for the commands that are between two steps: one that
  is about to write a new repository (`Adding`), or to take one out (`Removing`).
  `Shaped` says what each command has yet to do and in which order, and
  `RowsAreRight` says for each repository that nothing has torn whose rows it may
  have meanwhile. Every step that changes one repository is handled by one lemma
  (`OneMoves`), every other by another (`RowKept`).

### `RepoSync_proofs` (from `RepoAssumption`, `OnePuller`, `AllSteady`)

* `PullsAreTyped`, `RowsFollowWorkingCopy`, `LoopsAreComplete`, from `SyncInv`.
  While the loop over file patches runs, the rows are of neither commit. What
  holds is that each package either has the row of the new commit or is owed one
  by a patch still to come (`Settled`), and that the patches left write nothing
  else (`Sound`: what one deletes it inserts later, or the commit has no more).
  A script that does not parse owes every package, as the loop will not get past
  it. Before the checkout, the rows are of the old commit or there are none
  (`Settles`); the patches of two commits set every package on which their
  indices differ (`ChangesCoverInvolved`, `UninvolvedAgree`).

Both hypotheses are needed and said in the theorems: two pulls at once, and
scripts that drop or exchange packages, break the properties (section 4).

### `Package_proofs` (from the assumptions of `PackageFields`)

* `FieldsAreTyped`, `ResolvedIsAlwaysBest`, `PlansAlwaysMatch`, for lists of
  distributions, architectures and languages of any length. `FieldInv` says of each
  stage what the names passed so far were not (`Passed`), which variables the
  field holds (`Holds`), and that a row holds what some decoding of the script
  yields. `SuccCovers` shows that the loops leave no name out: what is before the
  next name is what was before this one, or this one.

### `Package_proofs` (from `CommandsAssumption`, `NamesAssumption`)

* `ContentsAreTyped`, `InstalledIsAlwaysFound`, `PackageIsAlwaysComplete`,
  `ProgramsAlwaysSurvive`, from `ContentsInv`, for any commands, trees, links,
  systems and settings.
  * `FromScript` says that every path a script leaves is one it has a name for,
    or a directory above one, so that what is assumed of names holds of every
    program in the tree. `InstalledInv` keeps what was installed where it was put,
    and no directory, through the commands that follow; a lemma for each kind of
    command (`DirIsFound`, `LibraryIsFound`, `ManualIsFound`, `CompletionIsFound`)
    then has its counterpart find it.
  * That a package without a list leaves nothing out, although `buildContents`
    drops every directory that has something in it, rests on `LeafBelow`: each
    path leads to one that is a file or empty. The longest path it leads to is
    one, and there is a longest (`WFMin` on the numbers), so no induction is
    needed.
  * `JailInv` is why programs survive, and `ProgramsSurvive` is far from
    inductive: it speaks of the package alone. While nothing is listed twice,
    a program that waits is in the tree as it was before the jail; one that was
    moved is behind its wrapper, with its data in the jail and its profile next
    to it (`Wrapped`), and all three are among the contents (`Packs`). A program
    that wants a place somebody has taken finds that place among the contents,
    so it makes a second entry of one destination, and then nothing is packed.

### `Upgrade_proofs` (from `UpgradeAssumption`)

* `UpgradesAreTyped`, `UpgradeLeavesNothing`, `UpgradeNeverLowers`, from
  `UpgradeInv`. While nobody disturbs a command, rows and scripts are one, and
  the query of a request has the same answer from the search to the end
  (`Frozen`). So what was asked for are the packages found newer, and no other
  (`AsksAgree`); a target waits or has its file put by (`TargetsAgree`); a
  dependency waits or is installed and not older (`DepsAgree`); what is neither
  is the manager's (`ManagerAgrees`); and what was not
  installed by the command is as it was listed (`OwnAgrees`). A package that is
  lowered is then either a target the user named, or the row another package was
  compared with.

The closure of the dependencies is defined by the sets that contain it, so the
theorems hold for dependencies of any depth and for cycles (`TreeIsClosed`); that
a query returns one of the rows it finds is the only induction (`FirstIsFound`,
by the least index). The exceptions of the properties, `Misled` and `EpochLost`,
are what the code does (section 4): without them the theorems are false.

### What stays with TLC

Liveness (`WaiterAnswered`, `JobsAreForgotten`, `CompletedIsAnnounced`,
`RegisteredIsServed`, `PullEnds`), which is out of the prover's reach.
Every invariant and every action property of the runs that pass is stated by a
theorem. Only TLC looks at how the constants are instantiated, at what
`Closure`, `GenerateSafeName` and the folds compute, and at whether strings put
together are distinct: the provers know nothing of strings, which is why
`PackageContents` assumes what it needs of them, and TLC evaluates those
assumptions in `contents`.

## 7. Not modelled

Progress messages, logging, desktop notifications, PolicyKit (not wired in),
statistics, the generators, search and list, translations and command-line
parsing keep no state that other parts rely on. The executors' RPC glue is
generated: a subprocess that dies is a call that fails, which `BuildPackage` and
`RepoSync` have. The shell interpreter, the decoder of script fields and the
parsing of constraints turn text into data; the models begin with the data.
Package managers, git hosts, aria2c and nfpm are external: each is a choice
among the outcomes the code can tell apart.

## 8. Plan

Done: the daemon's jobs and package objects, synchronisation, configuration,
tree, installation, upgrade, builds with their downloads, the fields and the
contents of packages, and proofs about all of them. What is left, in order of what it would add:

1. Optional dependencies and the host packages a build installs, in
   `BuildPackage`, and `InstallPkgs` composed with it step by step.
2. The table of cached availability with its writers (`db.go` 217).
3. The parser of `depver` as a function against a reference definition over
   bounded inputs.

## 9. Running

    tlc -config DBusJobs.cfg DBusJobs.tla
    tlc -config BuildPackage.cfg MCBuildPackage.tla
    tlapm ConfigRepos_proofs.tla

`PROJECT.json` names the module and the configuration of every run.
