------------------------------- MODULE DBusJobs -------------------------------
(***************************************************************************)
(* Jobs of the ALR D-Bus daemon (internal/dbus/job.go, service.go, the     *)
(* job-starting methods of manager.go and package.go) and the client that  *)
(* starts a job and watches it (dbus.go).                                  *)
(*                                                                         *)
(* Processes: one handler per method call of a client, one runner          *)
(* goroutine per job, one export goroutine and one cleanup timer per job.  *)
(* Every DBusJob method holds the job's mutex from its first to its last   *)
(* line, so each is one step here.  All of them live in one OS process:    *)
(* closing a closed channel panics and ends every one of them.             *)
(***************************************************************************)
EXTENDS DBusTypes, Sequences

CONSTANTS
    Clients,      \* D-Bus peers that start jobs and watch them
    FirstID,      \* jobs the daemon has issued and forgotten before Init
    MaxJobs,      \* bound: jobs issued from Init on
    AllowCancel   \* whether peers call Job.Cancel

ASSUME ConstantsAssumption ==
    /\ FirstID \in Nat
    /\ MaxJobs \in Nat
    /\ AllowCancel \in BOOLEAN

Jobs  == (FirstID + 1)..(FirstID + MaxJobs)
Paths == {GetJobObjectPath(j) : j \in Jobs}
NoJob == 0

VARIABLES
    \* Service
    daemon,       \* "up", "killed" or "panicked"
    jobIDCounter,
    jobs,         \* registry: path -> job
    exporting,    \* jobs whose exportJob goroutine has not run yet
    exported,     \* bus objects: path -> job
    \* DBusJob
    status,
    done,         \* whether the done channel is closed
    timers,       \* jobs whose scheduleCleanup goroutine is sleeping
    runner,       \* program counter of the goroutine that does the work
    \* what subscribers of the bus have seen
    completions,  \* job -> Completed signals, in order
    announced,    \* jobs whose PackageInstalled/... signal was emitted
    \* clients, each with the handler that serves its current call
    pc, job, timed, outcome

serviceVars == <<daemon, jobIDCounter, jobs, exporting, exported>>
jobVars     == <<status, done, timers, runner>>
busVars     == <<completions, announced>>
clientVars  == <<pc, job, timed, outcome>>
vars        == <<serviceVars, jobVars, busVars, clientVars>>

RunnerPC  == {"unborn", "spawned", "working", "succeeded", "failing",
              "notifying", "ended"}
ClientPC  == {"idle", "register", "reply", "watch", "wait", "waiting",
              "woken", "answered"}
Outcome   == {"none", "success", "failure", "timeout", "unknown", "noreply"}
Verdict   == Finished \cup {"cancelled"}

TypeOK ==
    /\ daemon \in {"up", "killed", "panicked"}
    /\ jobIDCounter \in FirstID..(FirstID + MaxJobs)
    /\ jobs \in [Paths -> Jobs \cup {NoJob}]
    /\ exporting \subseteq Jobs
    /\ exported \in [Paths -> Jobs \cup {NoJob}]
    /\ status \in [Jobs -> JobStatus \cup {"absent"}]
    /\ done \in [Jobs -> BOOLEAN]
    /\ timers \subseteq Jobs
    /\ runner \in [Jobs -> RunnerPC]
    /\ completions \in [Jobs -> Seq(Verdict)]
    /\ announced \subseteq Jobs
    /\ pc \in [Clients -> ClientPC]
    /\ job \in [Clients -> Jobs \cup {NoJob}]
    /\ timed \in [Clients -> BOOLEAN]
    /\ outcome \in [Clients -> Outcome]

\* NewService, after FirstID jobs have run and been cleaned up.
Init ==
    /\ daemon = "up"
    /\ jobIDCounter = FirstID
    /\ jobs = [p \in Paths |-> NoJob]
    /\ exporting = {}
    /\ exported = [p \in Paths |-> NoJob]
    /\ status = [j \in Jobs |-> "absent"]
    /\ done = [j \in Jobs |-> FALSE]
    /\ timers = {}
    /\ runner = [j \in Jobs |-> "unborn"]
    /\ completions = [j \in Jobs |-> <<>>]
    /\ announced = {}
    /\ pc = [c \in Clients |-> "idle"]
    /\ job = [c \in Clients |-> NoJob]
    /\ timed = [c \in Clients |-> FALSE]
    /\ outcome = [c \in Clients |-> "none"]

-----------------------------------------------------------------------------
(* Helpers.  A definition marked "Fault" is no part of Spec: it is the one   *)
(* after it with a mistake, which a run of the model has to notice.          *)

Issued       == (FirstID + 1)..jobIDCounter
Path(j)      == GetJobObjectPath(j)
Reachable(j) == IsValidPathElement(Path(j))
OnBus(j)     == Reachable(j) /\ exported[Path(j)] = j

\* Fault: Completed carries the status the job had before.
EmitStaleStatus(j, verdict) ==
    completions' = [completions EXCEPT ![j] = Append(@, status[j])]

\* emitSignal: the library refuses an invalid path and the error is dropped.
EmitCompleted(j, verdict) ==
    completions' = IF Reachable(j)
                   THEN [completions EXCEPT ![j] = Append(@, verdict)]
                   ELSE completions

\* Fault: the channel is never closed.
CloseForgotten(j) ==
    /\ timers' = timers \cup {j}
    /\ UNCHANGED <<daemon, done>>

\* Fault: no cleanup is scheduled.
CloseWithoutCleanup(j) ==
    /\ done' = [done EXCEPT ![j] = TRUE]
    /\ UNCHANGED <<daemon, timers>>

\* close(j.done); go j.scheduleCleanup().  A second close panics.
CloseDone(j) ==
    \/ /\ done[j]
       /\ daemon' = "panicked"
       /\ UNCHANGED <<done, timers>>
    \/ /\ ~done[j]
       /\ done' = [done EXCEPT ![j] = TRUE]
       /\ timers' = timers \cup {j}
       /\ UNCHANGED daemon

\* What Cancel, SetCompleted and SetFailed share: status, signals, channel.
Finish(j, verdict) ==
    /\ status' = [status EXCEPT ![j] = verdict]
    /\ EmitCompleted(j, verdict)
    /\ CloseDone(j)

-----------------------------------------------------------------------------
(* Handlers of Manager.RefreshRepositories, Package.Install, Package.Remove *)

\* NextJobID, NewDBusJob, go runInstall/runRemove/func.
StartJob(c) ==
    LET j == jobIDCounter + 1
    IN  /\ daemon = "up"
        /\ pc[c] = "idle"
        /\ jobIDCounter < FirstID + MaxJobs
        /\ jobIDCounter' = j
        /\ status' = [status EXCEPT ![j] = "pending"]
        /\ runner' = [runner EXCEPT ![j] = "spawned"]
        /\ job' = [job EXCEPT ![c] = j]
        /\ pc' = [pc EXCEPT ![c] = "register"]
        /\ UNCHANGED <<daemon, jobs, exporting, exported, done,
                       timers, busVars, timed, outcome>>

\* The goroutine that does the work is already running.
RegisterJob(c) ==
    /\ daemon = "up"
    /\ pc[c] = "register"
    /\ jobs' = [jobs EXCEPT ![Path(job[c])] = job[c]]
    /\ exporting' = exporting \cup {job[c]}
    /\ pc' = [pc EXCEPT ![c] = "reply"]
    /\ UNCHANGED <<daemon, jobIDCounter, exported, jobVars,
                   busVars, job, timed, outcome>>

\* return path, nil.  A reply with an invalid path cannot be encoded and is
\* dropped by the library.
Reply(c) ==
    /\ daemon = "up"
    /\ pc[c] = "reply"
    /\ IF Reachable(job[c])
       THEN /\ pc' = [pc EXCEPT ![c] = "watch"]
            /\ UNCHANGED outcome
       ELSE /\ pc' = [pc EXCEPT ![c] = "answered"]
            /\ outcome' = [outcome EXCEPT ![c] = "noreply"]
    /\ UNCHANGED <<serviceVars, jobVars, busVars, job, timed>>

\* exportJob
ExportJob(j) ==
    /\ daemon = "up"
    /\ j \in exporting
    /\ exporting' = exporting \ {j}
    /\ exported' = IF Reachable(j) THEN [exported EXCEPT ![Path(j)] = j]
                   ELSE exported
    /\ UNCHANGED <<daemon, jobIDCounter, jobs, jobVars,
                   busVars, clientVars>>

-----------------------------------------------------------------------------
(* The runner goroutine: runInstall, runRemove, the refresh closure *)

\* Fault: the cleanup is scheduled when the job starts.
RunnerStartSchedules(j) ==
    /\ daemon = "up"
    /\ runner[j] = "spawned"
    /\ status' = [status EXCEPT ![j] = "running"]
    /\ runner' = [runner EXCEPT ![j] = "working"]
    /\ timers' = timers \cup {j}
    /\ UNCHANGED <<serviceVars, done, busVars, clientVars>>

\* SetStatus(running) looks neither at the status nor at the channel.
RunnerStart(j) ==
    /\ daemon = "up"
    /\ runner[j] = "spawned"
    /\ status' = [status EXCEPT ![j] = "running"]
    /\ runner' = [runner EXCEPT ![j] = "working"]
    /\ UNCHANGED <<serviceVars, done, timers, busVars, clientVars>>

\* InstallPkgs, Manager.Remove or Repos.Pull returns.  Nothing cancels it:
\* its context is the service's and SetContext has no caller.
RunnerWork(j) ==
    /\ daemon = "up"
    /\ runner[j] = "working"
    /\ \E result \in {"succeeded", "failing"} :
          runner' = [runner EXCEPT ![j] = result]
    /\ UNCHANGED <<serviceVars, status, done, timers, busVars, clientVars>>

\* Fault: no return after SetFailed, the runner goes on to SetCompleted.
SetFailedFallsThrough(j) ==
    /\ daemon = "up"
    /\ runner[j] = "failing"
    /\ Finish(j, "failed")
    /\ runner' = [runner EXCEPT ![j] = "succeeded"]
    /\ UNCHANGED <<jobIDCounter, jobs, exporting, exported,
                   announced, clientVars>>

SetFailed(j) ==
    /\ daemon = "up"
    /\ runner[j] = "failing"
    /\ Finish(j, "failed")
    /\ runner' = [runner EXCEPT ![j] = "ended"]
    /\ UNCHANGED <<jobIDCounter, jobs, exporting, exported,
                   announced, clientVars>>

\* Fault: the manager signal is not emitted.
SetCompletedSilently(j) ==
    /\ daemon = "up"
    /\ runner[j] = "succeeded"
    /\ Finish(j, "completed")
    /\ runner' = [runner EXCEPT ![j] = "ended"]
    /\ UNCHANGED <<jobIDCounter, jobs, exporting, exported,
                   announced, clientVars>>

SetCompleted(j) ==
    /\ daemon = "up"
    /\ runner[j] = "succeeded"
    /\ Finish(j, "completed")
    /\ runner' = [runner EXCEPT ![j] = "notifying"]
    /\ UNCHANGED <<jobIDCounter, jobs, exporting, exported,
                   announced, clientVars>>

\* EmitSignal(PackageInstalled, PackageRemoved or RepositoryUpdated).  The
\* path is the manager's or that of the package the job was started on, which
\* is on the bus and therefore valid.
RunnerAnnounce(j) ==
    /\ daemon = "up"
    /\ runner[j] = "notifying"
    /\ announced' = announced \cup {j}
    /\ runner' = [runner EXCEPT ![j] = "ended"]
    /\ UNCHANGED <<serviceVars, status, done, timers, completions,
                   clientVars>>

-----------------------------------------------------------------------------
(* Job methods called over the bus *)

\* Fault: a finished job can be cancelled.
CancelFinished(j) ==
    /\ AllowCancel
    /\ daemon = "up"
    /\ OnBus(j)
    /\ Finish(j, "cancelled")
    /\ UNCHANGED <<jobIDCounter, jobs, exporting, exported,
                   runner, announced, clientVars>>

\* Cancel; the early return for a finished job changes nothing.
Cancel(j) ==
    /\ AllowCancel
    /\ daemon = "up"
    /\ OnBus(j)
    /\ status[j] \notin Finished
    /\ Finish(j, "cancelled")
    /\ UNCHANGED <<jobIDCounter, jobs, exporting, exported,
                   runner, announced, clientVars>>

\* A peer turns to a job another one started: signals carry its path.
Attach(c) ==
    /\ daemon = "up"
    /\ pc[c] = "idle"
    /\ \E j \in Issued :
          /\ OnBus(j)
          /\ job' = [job EXCEPT ![c] = j]
    /\ pc' = [pc EXCEPT ![c] = "watch"]
    /\ UNCHANGED <<serviceVars, jobVars, busVars, timed, outcome>>

\* watchJob: GetInfo on the path the start call returned.
GetInfo(c) ==
    /\ daemon = "up"
    /\ pc[c] = "watch"
    /\ IF OnBus(job[c])
       THEN /\ pc' = [pc EXCEPT ![c] = "wait"]
            /\ UNCHANGED outcome
       ELSE /\ pc' = [pc EXCEPT ![c] = "answered"]
            /\ outcome' = [outcome EXCEPT ![c] = "unknown"]
    /\ UNCHANGED <<serviceVars, jobVars, busVars, job, timed>>

\* Wait is entered, with a timeout or without one (watchJob passes 0).
Wait(c) ==
    /\ daemon = "up"
    /\ pc[c] = "wait"
    /\ IF OnBus(job[c])
       THEN /\ pc' = [pc EXCEPT ![c] = "waiting"]
            /\ \E t \in BOOLEAN : timed' = [timed EXCEPT ![c] = t]
            /\ UNCHANGED outcome
       ELSE /\ pc' = [pc EXCEPT ![c] = "answered"]
            /\ outcome' = [outcome EXCEPT ![c] = "unknown"]
            /\ UNCHANGED timed
    /\ UNCHANGED <<serviceVars, jobVars, busVars, job>>

\* case <-j.done
WaitWake(c) ==
    /\ daemon = "up"
    /\ pc[c] = "waiting"
    /\ done[job[c]]
    /\ pc' = [pc EXCEPT ![c] = "woken"]
    /\ UNCHANGED <<serviceVars, jobVars, busVars, job, timed, outcome>>

\* ... then the status is read, under the lock but later.
WaitRead(c) ==
    /\ daemon = "up"
    /\ pc[c] = "woken"
    /\ pc' = [pc EXCEPT ![c] = "answered"]
    /\ outcome' = [outcome EXCEPT ![c] =
                      IF status[job[c]] = "completed" THEN "success"
                      ELSE "failure"]
    /\ UNCHANGED <<serviceVars, jobVars, busVars, job, timed>>

\* case <-ctx.Done(); the select may take it even when done is closed.
WaitTimeout(c) ==
    /\ daemon = "up"
    /\ pc[c] = "waiting"
    /\ timed[c]
    /\ pc' = [pc EXCEPT ![c] = "answered"]
    /\ outcome' = [outcome EXCEPT ![c] = "timeout"]
    /\ UNCHANGED <<serviceVars, jobVars, busVars, job, timed>>

\* The client takes its answer and may start another job.
NextCall(c) ==
    /\ pc[c] = "answered"
    /\ pc' = [pc EXCEPT ![c] = "idle"]
    /\ job' = [job EXCEPT ![c] = NoJob]
    /\ timed' = [timed EXCEPT ![c] = FALSE]
    /\ outcome' = [outcome EXCEPT ![c] = "none"]
    /\ UNCHANGED <<serviceVars, jobVars, busVars>>

-----------------------------------------------------------------------------
(* The service *)

\* scheduleCleanup after its five minutes: UnregisterJob.  The sleep is
\* assumed to outlast the handler's RegisterJob and the export goroutine.
UnregisterJob(j) ==
    /\ daemon = "up"
    /\ j \in timers
    /\ j \notin exporting
    /\ \A c \in Clients : ~(pc[c] = "register" /\ job[c] = j)
    /\ timers' = timers \ {j}
    /\ jobs' = [jobs EXCEPT ![Path(j)] = NoJob]
    /\ exported' = IF Reachable(j) THEN [exported EXCEPT ![Path(j)] = NoJob]
                   ELSE exported
    /\ UNCHANGED <<daemon, jobIDCounter, exporting, status,
                   done, runner, busVars, clientVars>>

\* SIGKILL, power loss: the process ends whatever its goroutines do.
\* SIGTERM does not get here: nothing in the daemon waits for the context it
\* cancels (main.go 173, service.go 138).
Kill ==
    /\ daemon = "up"
    /\ daemon' = "killed"
    /\ UNCHANGED <<jobIDCounter, jobs, exporting, exported,
                   jobVars, busVars, clientVars>>

\* The bus answers NoReply for the calls of a peer that is gone.
DropCall(c) ==
    /\ daemon # "up"
    /\ pc[c] \notin {"idle", "answered"}
    /\ pc' = [pc EXCEPT ![c] = "answered"]
    /\ outcome' = [outcome EXCEPT ![c] = "noreply"]
    /\ UNCHANGED <<serviceVars, jobVars, busVars, job, timed>>

-----------------------------------------------------------------------------
HandlerStep(c) == RegisterJob(c) \/ Reply(c) \/ WaitWake(c) \/ WaitRead(c)
WatchStep(c)   == GetInfo(c) \/ Wait(c)
RunnerStep(j)  == \/ RunnerStart(j) \/ RunnerWork(j)
                  \/ SetFailed(j) \/ SetCompleted(j) \/ RunnerAnnounce(j)

Next ==
    \/ \E c \in Clients :
          \/ StartJob(c) \/ Attach(c) \/ HandlerStep(c) \/ WatchStep(c)
          \/ WaitTimeout(c) \/ NextCall(c) \/ DropCall(c)
    \/ \E j \in Jobs :
          RunnerStep(j) \/ ExportJob(j) \/ Cancel(j) \/ UnregisterJob(j)
    \/ Kill

\* Goroutines are scheduled, the tools a runner drives return, the client
\* that was given a path goes on to watch it; nobody need start or cancel.
Fairness ==
    /\ \A c \in Clients : /\ WF_vars(HandlerStep(c))
                          /\ WF_vars(WatchStep(c))
                          /\ WF_vars(DropCall(c))
    /\ \A j \in Jobs    : /\ WF_vars(RunnerStep(j))
                          /\ WF_vars(ExportJob(j))
                          /\ WF_vars(UnregisterJob(j))

Spec == Init /\ [][Next]_vars /\ Fairness
-----------------------------------------------------------------------------
(* Properties *)

Cancelled(j) ==
    \E i \in 1..Len(completions[j]) : completions[j][i] = "cancelled"
Heard(c) == outcome[c] \in {"success", "failure"}

\* The only way a client or a tool can bring the daemon down is a cancelled
\* job: either it is cancelled again or its runner, which Cancel did not
\* stop, finishes it and closes its channel a second time (job.go 139, 221,
\* 244).
PanicNeedsCancel ==
    daemon = "panicked" => \E j \in Jobs : Cancelled(j)

\* Nothing a client or a tool does may end the daemon.
NeverPanics == daemon # "panicked"

\* A client is told success exactly when the runner finished the work and
\* said so, although Wait reads the status some time after it was woken
\* (job.go 162-166).
SuccessIsEarned ==
    \A c \in Clients :
        /\ outcome[c] = "success"
              => /\ runner[job[c]] \in {"notifying", "ended"}
                 /\ status[job[c]] = "completed"
        /\ outcome[c] = "failure" /\ daemon = "up"
              => status[job[c]] # "completed"

\* While the daemon lives, subscribers get one Completed signal for a job
\* whose channel is closed, none for another, and it matches the status
\* unless the job was cancelled before its runner began (job.go 132, 217).
OneVerdict ==
    daemon = "up" =>
        \A j \in Jobs :
            /\ Len(completions[j]) = IF done[j] /\ Reachable(j) THEN 1 ELSE 0
            /\ done[j] /\ Reachable(j) =>
                  \/ completions[j][1] = status[j]
                  \/ completions[j][1] = "cancelled" /\ status[j] = "running"

\* What GetInfo reports as completed or failed it reports ever after: Cancel
\* turns finished jobs down (job.go 120-122) and a runner finishes once.
FinishedIsFinal ==
    [][\A j \in Jobs : status[j] \in Finished => status'[j] = status[j]]_vars

\* Once set up, a job whose channel is open is in the registry and on the
\* bus: neither lets go of it, nor is it overwritten (service.go 199-239).
ForgottenOnlyWhenOver ==
    \A j \in Issued :
        /\ daemon = "up"
        /\ j \notin exporting
        /\ \A c \in Clients : ~(pc[c] = "register" /\ job[c] = j)
        /\ ~done[j]
        => jobs[Path(j)] = j /\ (Reachable(j) => OnBus(j))

\* Whoever waits, with or without a timeout, is answered (job.go 150-171).
WaiterAnswered ==
    \A c \in Clients : pc[c] = "waiting" ~> pc[c] # "waiting"

\* Every job that was started leaves the registry for good, unless the
\* process ends (job.go 269-275, service.go 231-239).
JobsAreForgotten ==
    \A j \in Jobs :
        status[j] # "absent" ~>
            daemon # "up" \/ [](daemon = "up" => jobs[Path(j)] # j)

\* Every completed job is followed by its manager signal, unless the process
\* ends first (package.go 281-284, manager.go 200).
CompletedIsAnnounced ==
    \A j \in Jobs :
        status[j] = "completed" ~> daemon # "up" \/ j \in announced

-----------------------------------------------------------------------------
(* The inductive invariant behind the properties *)

\* Clients, the export goroutines and the bus only know issued jobs.
OnlyIssuedJobs ==
    /\ \A c \in Clients : pc[c] # "idle" => job[c] \in Issued
    /\ exporting \subseteq Issued
    /\ \A p \in Paths : exported[p] \in Issued \cup {NoJob}
    /\ \A j \in Jobs : runner[j] = "unborn" <=> j \notin Issued

\* Where the runner is bounds what the status, the channel and the signals
\* can be.  The second way for a running job is the one Cancel opens.
Open(j)          == ~done[j] /\ completions[j] = <<>>
CancelledOnce(j) == done[j] /\ Reachable(j) /\ completions[j] = <<"cancelled">>
Over(j) ==
    /\ done[j]
    /\ status[j] \in Finished
    /\ completions[j] = IF Reachable(j) THEN <<status[j]>> ELSE <<>>

RunnerMatchesJob(j) ==
    /\ runner[j] = "unborn" => status[j] = "absent" /\ Open(j)
    /\ runner[j] = "spawned" =>
          \/ status[j] = "pending" /\ Open(j)
          \/ status[j] = "cancelled" /\ CancelledOnce(j)
    /\ runner[j] \in {"working", "succeeded", "failing"} =>
          \/ status[j] = "running" /\ Open(j)
          \/ status[j] \in {"running", "cancelled"} /\ CancelledOnce(j)
    /\ runner[j] \in {"notifying", "ended"} => Over(j)
    /\ runner[j] = "notifying" => status[j] = "completed"

\* A waiter is woken and answered about a job whose channel is closed.
HeardIsOver ==
    \A c \in Clients :
        /\ pc[c] = "woken" => done[job[c]]
        /\ Heard(c) => pc[c] = "answered" /\ done[job[c]]

\* All that is needed to show the properties inductive, for jobs of any
\* number: it ties the runner's position (package.go 209-287) to the fields
\* the setters of job.go write.
IInv ==
    /\ OnlyIssuedJobs
    /\ daemon = "up" => \A j \in Jobs : RunnerMatchesJob(j)
    /\ HeardIsOver
    /\ PanicNeedsCancel
    /\ SuccessIsEarned

\* As long as nobody cancels, the daemon keeps the promise of JobLifecycle:
\* results are final and every answered waiter hears the result.
Asking(c)  == pc[c] \in {"waiting", "woken"} \/ Heard(c)
waitingFor == [c \in Clients |-> IF Asking(c) THEN job[c] ELSE NoJob]
told       == [c \in Clients |-> IF Heard(c) THEN outcome[c] ELSE "none"]
Promise == INSTANCE JobLifecycle WITH
    phase  <- status,
    asks   <- waitingFor,
    answer <- told
KeepsPromise == Promise!Spec
=============================================================================
