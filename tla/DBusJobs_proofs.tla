--------------------------- MODULE DBusJobs_proofs ---------------------------
(***************************************************************************)
(* Theorems about DBusJobs, for every set of clients, every first job      *)
(* number, every number of jobs, with and without Cancel.                  *)
(***************************************************************************)
EXTENDS DBusJobs, TLAPS

\* A client that is in a call is in it about some job.
ClientsHaveJobs == \A c \in Clients : pc[c] # "idle" => job[c] \in Jobs

TypeInv == TypeOK /\ ClientsHaveJobs

\* The new service has the types.
LEMMA TypeInit == Init => TypeInv
  BY ConstantsAssumption
  DEF ConstantsAssumption, Init, TypeInv, TypeOK, ClientsHaveJobs, RunnerPC,
      ClientPC, Outcome, JobStatus, Jobs, NoJob

\* A verdict appended to a job's signals keeps the types, in whichever way
\* the channel is closed.
LEMMA FinishTypes ==
  ASSUME TypeInv, NEW j \in Jobs, NEW v \in Verdict, Finish(j, v)
  PROVE  /\ status' \in [Jobs -> JobStatus \cup {"absent"}]
         /\ completions' \in [Jobs -> Seq(Verdict)]
         /\ done' \in [Jobs -> BOOLEAN]
         /\ timers' \subseteq Jobs
         /\ daemon' \in {"up", "killed", "panicked"}
<1>1. completions' \in [Jobs -> Seq(Verdict)]
  <2>1. Append(completions[j], v) \in Seq(Verdict)
    BY DEF TypeInv, TypeOK
  <2>2. QED
    BY <2>1 DEF TypeInv, TypeOK, Finish, EmitCompleted
<1>2. status' \in [Jobs -> JobStatus \cup {"absent"}]
  BY DEF TypeInv, TypeOK, Finish, Verdict, JobStatus, Finished
<1>3. QED
  BY <1>1, <1>2 DEF TypeInv, TypeOK, Finish, CloseDone

\* Every step keeps the types.
LEMMA TypeStep == TypeInv /\ [Next]_vars => TypeInv'
<1> SUFFICES ASSUME TypeInv, [Next]_vars PROVE TypeInv'
  OBVIOUS
<1> USE DEF TypeInv, TypeOK, ClientsHaveJobs, RunnerPC, ClientPC, Outcome,
            serviceVars, jobVars, busVars, clientVars
<1>1. ASSUME NEW c \in Clients, StartJob(c) PROVE TypeInv'
  <2>1. /\ jobIDCounter' \in FirstID..(FirstID + MaxJobs)
        /\ jobIDCounter + 1 \in Jobs
    BY <1>1, ConstantsAssumption DEF ConstantsAssumption, StartJob, Jobs
  <2>2. QED
    BY <1>1, <2>1 DEF StartJob, JobStatus
<1>2. ASSUME NEW c \in Clients, RegisterJob(c) PROVE TypeInv'
  BY <1>2 DEF RegisterJob
<1>3. ASSUME NEW c \in Clients, Reply(c) PROVE TypeInv'
  BY <1>3 DEF Reply
<1>4. ASSUME NEW c \in Clients, Attach(c) PROVE TypeInv'
  <2>1. Issued \subseteq Jobs
    BY ConstantsAssumption DEF ConstantsAssumption, Issued, Jobs
  <2>2. QED
    BY <1>4, <2>1 DEF Attach
<1>5. ASSUME NEW c \in Clients, GetInfo(c) PROVE TypeInv'
  BY <1>5 DEF GetInfo
<1>6. ASSUME NEW c \in Clients, Wait(c) PROVE TypeInv'
  BY <1>6 DEF Wait
<1>7. ASSUME NEW c \in Clients, WaitWake(c) PROVE TypeInv'
  BY <1>7 DEF WaitWake
<1>8. ASSUME NEW c \in Clients, WaitRead(c) PROVE TypeInv'
  BY <1>8 DEF WaitRead
<1>9. ASSUME NEW c \in Clients, WaitTimeout(c) PROVE TypeInv'
  BY <1>9 DEF WaitTimeout
<1>10. ASSUME NEW c \in Clients, NextCall(c) PROVE TypeInv'
  BY <1>10 DEF NextCall
<1>11. ASSUME NEW c \in Clients, DropCall(c) PROVE TypeInv'
  BY <1>11 DEF DropCall
<1>12. ASSUME NEW j \in Jobs, RunnerStart(j) PROVE TypeInv'
  BY <1>12 DEF RunnerStart, JobStatus
<1>13. ASSUME NEW j \in Jobs, RunnerWork(j) PROVE TypeInv'
  BY <1>13 DEF RunnerWork
<1>14. ASSUME NEW j \in Jobs, SetFailed(j) PROVE TypeInv'
  <2>1. Finish(j, "failed") /\ "failed" \in Verdict
    BY <1>14 DEF SetFailed, Verdict, Finished
  <2>2. QED
    BY <1>14, <2>1, FinishTypes DEF SetFailed
<1>15. ASSUME NEW j \in Jobs, SetCompleted(j) PROVE TypeInv'
  <2>1. Finish(j, "completed") /\ "completed" \in Verdict
    BY <1>15 DEF SetCompleted, Verdict, Finished
  <2>2. QED
    BY <1>15, <2>1, FinishTypes DEF SetCompleted
<1>16. ASSUME NEW j \in Jobs, RunnerAnnounce(j) PROVE TypeInv'
  BY <1>16 DEF RunnerAnnounce
<1>17. ASSUME NEW j \in Jobs, ExportJob(j) PROVE TypeInv'
  BY <1>17 DEF ExportJob
<1>18. ASSUME NEW j \in Jobs, Cancel(j) PROVE TypeInv'
  <2>1. Finish(j, "cancelled") /\ "cancelled" \in Verdict
    BY <1>18 DEF Cancel, Verdict
  <2>2. QED
    BY <1>18, <2>1, FinishTypes DEF Cancel
<1>19. ASSUME NEW j \in Jobs, UnregisterJob(j) PROVE TypeInv'
  BY <1>19 DEF UnregisterJob
<1>20. CASE Kill
  BY <1>20 DEF Kill
<1>21. CASE UNCHANGED vars
  BY <1>21 DEF vars
<1>22. QED
  BY <1>1, <1>2, <1>3, <1>4, <1>5, <1>6, <1>7, <1>8, <1>9, <1>10, <1>11,
     <1>12, <1>13, <1>14, <1>15, <1>16, <1>17, <1>18, <1>19, <1>20, <1>21
  DEF Next, HandlerStep, WatchStep, RunnerStep

-----------------------------------------------------------------------------
(* The inductive invariant, part by part *)

Born == \A j \in Jobs : RunnerMatchesJob(j)

LEMMA IssuedInit == Init => OnlyIssuedJobs
  BY ConstantsAssumption
  DEF ConstantsAssumption, Init, OnlyIssuedJobs, Issued, NoJob

\* Job numbers reach clients, goroutines and the bus only once issued.
LEMMA IssuedStep == TypeInv /\ OnlyIssuedJobs /\ [Next]_vars => OnlyIssuedJobs'
<1> SUFFICES ASSUME TypeInv, OnlyIssuedJobs, [Next]_vars PROVE OnlyIssuedJobs'
  OBVIOUS
<1> USE DEF TypeInv, TypeOK, OnlyIssuedJobs, serviceVars, jobVars, busVars,
            clientVars
<1>1. ASSUME NEW c \in Clients, StartJob(c) PROVE OnlyIssuedJobs'
  <2>1. /\ jobIDCounter + 1 \in Jobs
        /\ Issued' = Issued \cup {jobIDCounter + 1}
        /\ jobIDCounter + 1 \notin Issued
    BY <1>1, ConstantsAssumption
    DEF ConstantsAssumption, StartJob, Jobs, Issued
  <2>2. QED
    BY <1>1, <2>1 DEF StartJob
<1>2. jobIDCounter' = jobIDCounter => Issued' = Issued
  BY DEF Issued
<1>3. ASSUME NEW j \in Jobs, RunnerStep(j) PROVE OnlyIssuedJobs'
  BY <1>2, <1>3
  DEF RunnerStep, RunnerStart, RunnerWork, SetFailed, SetCompleted,
      RunnerAnnounce
<1>4. ASSUME NEW c \in Clients, HandlerStep(c) PROVE OnlyIssuedJobs'
  BY <1>2, <1>4 DEF HandlerStep, RegisterJob, Reply, WaitWake, WaitRead
<1>5. ASSUME NEW c \in Clients,
             \/ Attach(c) \/ WatchStep(c) \/ WaitTimeout(c)
             \/ NextCall(c) \/ DropCall(c)
      PROVE  OnlyIssuedJobs'
  BY <1>2, <1>5
  DEF Attach, WatchStep, GetInfo, Wait, WaitTimeout, NextCall, DropCall
<1>6. ASSUME NEW j \in Jobs, ExportJob(j) \/ Cancel(j) \/ UnregisterJob(j)
      PROVE  OnlyIssuedJobs'
  <2>1. CASE ExportJob(j)
    BY <1>2, <2>1 DEF ExportJob
  <2>2. CASE Cancel(j)
    BY <1>2, <2>2 DEF Cancel
  <2>3. CASE UnregisterJob(j)
    BY <1>2, <2>3 DEF UnregisterJob
  <2>4. QED
    BY <1>6, <2>1, <2>2, <2>3
<1>7. CASE Kill \/ UNCHANGED vars
  BY <1>2, <1>7 DEF Kill, vars
<1>8. QED
  BY <1>1, <1>3, <1>4, <1>5, <1>6, <1>7 DEF Next

\* A job on the bus has a runner.
LEMMA OnBusIsBorn ==
  ASSUME OnlyIssuedJobs, NEW j \in Jobs, OnBus(j)
  PROVE  runner[j] # "unborn"
  BY ConstantsAssumption
  DEF ConstantsAssumption, OnlyIssuedJobs, OnBus, Path, Paths, Jobs, NoJob

\* The setters, and Cancel, on a job whose channel is open: it is closed and
\* one verdict is out.
LEMMA FinishOpen ==
  ASSUME TypeInv, NEW j \in Jobs, NEW v \in Verdict, Finish(j, v), Open(j)
  PROVE  /\ daemon' = daemon
         /\ done' = [done EXCEPT ![j] = TRUE]
         /\ status' = [status EXCEPT ![j] = v]
         /\ completions' = [completions EXCEPT ![j] =
                               IF Reachable(j) THEN <<v>> ELSE <<>>]
<1>1. Append(<<>>, v) = <<v>>
  OBVIOUS
<1>2. completions' = [completions EXCEPT ![j] =
                         IF Reachable(j) THEN <<v>> ELSE <<>>]
  BY <1>1 DEF TypeInv, TypeOK, Finish, EmitCompleted, Open
<1>3. QED
  BY <1>2 DEF TypeInv, TypeOK, Finish, CloseDone, Open

\* ... and on a job that Cancel has closed: the daemon panics, and the
\* signal of the cancellation stays the first one.
LEMMA FinishCancelled ==
  ASSUME TypeInv, NEW j \in Jobs, NEW v \in Verdict, Finish(j, v),
         CancelledOnce(j)
  PROVE  daemon' = "panicked" /\ Cancelled(j)'
<1>1. completions'[j] = Append(<<"cancelled">>, v)
  BY DEF TypeInv, TypeOK, Finish, EmitCompleted, CancelledOnce
<1>2. 1 \in 1..Len(completions'[j]) /\ completions'[j][1] = "cancelled"
  BY <1>1
<1>3. QED
  BY <1>2 DEF Finish, CloseDone, CancelledOnce, Cancelled

\* While the daemon lives, every runner's position matches its job.
LEMMA BornInit == Init => Born
  BY DEF Init, Born, RunnerMatchesJob, Open

LEMMA BornStep ==
  ASSUME TypeInv, OnlyIssuedJobs, daemon = "up" => Born, [Next]_vars,
         daemon' = "up"
  PROVE  Born'
<1> USE DEF TypeInv, TypeOK, serviceVars, jobVars, busVars, clientVars
<1> DEFINE M(j) == RunnerMatchesJob(j)
<1>1. daemon = "up"
  BY DEF Next, HandlerStep, WatchStep, RunnerStep, StartJob, Attach,
         RegisterJob, Reply, WaitWake, WaitRead, WaitTimeout, GetInfo, Wait,
         NextCall, DropCall, RunnerStart, RunnerWork, SetFailed, SetCompleted,
         RunnerAnnounce, ExportJob, Cancel, UnregisterJob, Kill,
         vars
<1>2. \A j \in Jobs : M(j)
  BY <1>1 DEF Born
<1>3. ASSUME UNCHANGED <<status, done, runner, completions>> PROVE Born'
  BY <1>2, <1>3
  DEF Born, RunnerMatchesJob, Open, CancelledOnce, Over
<1>4. ASSUME NEW j \in Jobs, M(j)',
             \A k \in Jobs \ {j} :
                /\ status'[k] = status[k]
                /\ done'[k] = done[k]
                /\ runner'[k] = runner[k]
                /\ completions'[k] = completions[k]
      PROVE  Born'
  <2>1. ASSUME NEW k \in Jobs \ {j} PROVE M(k)'
    BY <1>2, <1>4, <2>1
    DEF RunnerMatchesJob, Open, CancelledOnce, Over
  <2>2. QED
    BY <1>4, <2>1 DEF Born
<1>5. ASSUME NEW c \in Clients, StartJob(c) PROVE Born'
  <2>1. PICK j \in Jobs : j = jobIDCounter + 1 /\ j \notin Issued
    BY <1>5, ConstantsAssumption
    DEF ConstantsAssumption, StartJob, Jobs, Issued
  <2>2. Open(j)
    BY <1>2, <2>1 DEF OnlyIssuedJobs, RunnerMatchesJob
  <2>3. M(j)'
    BY <1>5, <2>1, <2>2 DEF StartJob, RunnerMatchesJob, Open
  <2>4. QED
    BY <1>4, <1>5, <2>1, <2>3 DEF StartJob
<1>6. ASSUME NEW j \in Jobs, RunnerStart(j) PROVE Born'
  <2>1. M(j)'
    BY <1>2, <1>6 DEF RunnerStart, RunnerMatchesJob, Open, CancelledOnce
  <2>2. QED
    BY <1>4, <1>6, <2>1 DEF RunnerStart
<1>7. ASSUME NEW j \in Jobs, RunnerWork(j) PROVE Born'
  <2>1. M(j)'
    BY <1>2, <1>7 DEF RunnerWork, RunnerMatchesJob, Open, CancelledOnce
  <2>2. QED
    BY <1>4, <1>7, <2>1 DEF RunnerWork
<1>8. ASSUME NEW j \in Jobs, SetFailed(j) PROVE Born'
  <2>1. Finish(j, "failed") /\ "failed" \in Verdict
    BY <1>8 DEF SetFailed, Verdict, Finished
  <2>2. Open(j) \/ CancelledOnce(j)
    BY <1>2, <1>8 DEF SetFailed, RunnerMatchesJob
  <2>3. Open(j)
    BY <2>1, <2>2, FinishCancelled
  <2>4. M(j)'
    BY <1>8, <2>1, <2>3, FinishOpen
    DEF SetFailed, RunnerMatchesJob, Over, Finished, Reachable, Path
  <2>5. QED
    BY <1>4, <1>8, <2>1, <2>3, <2>4, FinishOpen DEF SetFailed
<1>9. ASSUME NEW j \in Jobs, SetCompleted(j) PROVE Born'
  <2>1. Finish(j, "completed") /\ "completed" \in Verdict
    BY <1>9 DEF SetCompleted, Verdict, Finished
  <2>2. Open(j) \/ CancelledOnce(j)
    BY <1>2, <1>9 DEF SetCompleted, RunnerMatchesJob
  <2>3. Open(j)
    BY <2>1, <2>2, FinishCancelled
  <2>4. M(j)'
    BY <1>9, <2>1, <2>3, FinishOpen
    DEF SetCompleted, RunnerMatchesJob, Over, Finished, Reachable, Path
  <2>5. QED
    BY <1>4, <1>9, <2>1, <2>3, <2>4, FinishOpen DEF SetCompleted
<1>10. ASSUME NEW j \in Jobs, RunnerAnnounce(j) PROVE Born'
  <2>1. M(j)'
    BY <1>2, <1>10 DEF RunnerAnnounce, RunnerMatchesJob, Over
  <2>2. QED
    BY <1>4, <1>10, <2>1 DEF RunnerAnnounce
<1>11. ASSUME NEW j \in Jobs, Cancel(j) PROVE Born'
  <2>1. Finish(j, "cancelled") /\ "cancelled" \in Verdict /\ Reachable(j)
    BY <1>11 DEF Cancel, Verdict, OnBus
  <2>2. runner[j] # "unborn"
    BY <1>11, OnBusIsBorn DEF Cancel
  <2>3. Open(j) \/ CancelledOnce(j)
    BY <1>2, <1>11, <2>2 DEF Cancel, RunnerMatchesJob, Over, RunnerPC
  <2>4. Open(j)
    BY <2>1, <2>3, FinishCancelled
  <2>5. runner[j] \in {"spawned", "working", "succeeded", "failing"}
    BY <1>2, <1>11, <2>2 DEF Cancel, RunnerMatchesJob, Over, RunnerPC
  <2>6. CancelledOnce(j)' /\ status'[j] = "cancelled" /\ runner' = runner
    BY <1>11, <2>1, <2>4, FinishOpen
    DEF Cancel, CancelledOnce, Reachable, Path
  <2>7. M(j)'
    BY <2>5, <2>6 DEF RunnerMatchesJob
  <2>8. QED
    BY <1>4, <2>1, <2>4, <2>6, <2>7, FinishOpen
<1>12. ASSUME NEW c \in Clients,
              \/ Attach(c) \/ HandlerStep(c) \/ WatchStep(c)
              \/ WaitTimeout(c) \/ NextCall(c) \/ DropCall(c)
       PROVE  Born'
  BY <1>3, <1>12
  DEF Attach, HandlerStep, RegisterJob, Reply, WaitWake, WaitRead, WatchStep,
      GetInfo, Wait, WaitTimeout, NextCall, DropCall
<1>13. ASSUME NEW j \in Jobs, ExportJob(j) \/ UnregisterJob(j) PROVE Born'
  BY <1>3, <1>13 DEF ExportJob, UnregisterJob
<1>14. CASE Kill \/ UNCHANGED vars
  BY <1>3, <1>14 DEF Kill, vars
<1>15. QED
  BY <1>5, <1>6, <1>7, <1>8, <1>9, <1>10, <1>11, <1>12, <1>13, <1>14
  DEF Next, RunnerStep

\* Few steps touch jobs, and only while the daemon lives.
LEMMA JobSteps ==
  ASSUME [Next]_vars
  PROVE  \/ /\ UNCHANGED <<status, done, runner, completions>>
            /\ daemon' \in {daemon, "killed"}
         \/ /\ daemon = "up"
            /\ \/ \E c \in Clients : StartJob(c)
               \/ \E j \in Jobs : RunnerStep(j) \/ Cancel(j)
<1> USE DEF serviceVars, jobVars, busVars
<1> DEFINE Same == /\ UNCHANGED <<status, done, runner, completions>>
                   /\ daemon' \in {daemon, "killed"}
<1>1. ASSUME NEW c \in Clients,
             \/ Attach(c) \/ HandlerStep(c) \/ WatchStep(c)
             \/ WaitTimeout(c) \/ NextCall(c) \/ DropCall(c)
      PROVE  Same
  BY <1>1
  DEF Attach, HandlerStep, RegisterJob, Reply, WaitWake, WaitRead, WatchStep,
      GetInfo, Wait, WaitTimeout, NextCall, DropCall
<1>2. ASSUME NEW j \in Jobs, ExportJob(j) \/ UnregisterJob(j) PROVE Same
  BY <1>2 DEF ExportJob, UnregisterJob
<1>3. CASE Kill \/ UNCHANGED vars
  BY <1>3 DEF Kill, vars
<1>4. ASSUME NEW c \in Clients, StartJob(c) PROVE daemon = "up"
  BY <1>4 DEF StartJob
<1>5. ASSUME NEW j \in Jobs, RunnerStep(j) \/ Cancel(j) PROVE daemon = "up"
  BY <1>5 DEF RunnerStep, RunnerStart, RunnerWork, SetFailed, SetCompleted,
              RunnerAnnounce, Cancel
<1>6. QED
  BY <1>1, <1>2, <1>3, <1>4, <1>5 DEF Next

\* A finished job is never touched again, an open channel closes for good,
\* and a job that was closed otherwise can only complete with a panic.
LEMMA FinalStep ==
  ASSUME TypeInv, OnlyIssuedJobs, daemon = "up" => Born, [Next]_vars,
         NEW j \in Jobs
  PROVE  /\ status[j] \in Finished => status'[j] = status[j]
         /\ status[j] = "completed" /\ runner[j] \in {"notifying", "ended"}
               => runner'[j] \in {"notifying", "ended"}
         /\ done[j] => done'[j]
         /\ done[j] /\ status[j] # "completed" /\ daemon' = "up"
               => status'[j] # "completed"
<1> USE DEF TypeInv, TypeOK, jobVars, busVars
<1> DEFINE Final ==
      /\ status[j] \in Finished => status'[j] = status[j]
      /\ status[j] = "completed" /\ runner[j] \in {"notifying", "ended"}
            => runner'[j] \in {"notifying", "ended"}
      /\ done[j] => done'[j]
      /\ done[j] /\ status[j] # "completed" /\ daemon' = "up"
            => status'[j] # "completed"
<1>1. CASE UNCHANGED <<status, done, runner, completions>>
  BY <1>1
<1>2. ASSUME daemon = "up", NEW c \in Clients, StartJob(c) PROVE Final
  <2>1. PICK k \in Jobs : k = jobIDCounter + 1 /\ k \notin Issued
    BY <1>2, ConstantsAssumption
    DEF ConstantsAssumption, StartJob, Jobs, Issued
  <2>2. status[k] = "absent" /\ ~done[k] /\ runner[k] = "unborn"
    BY <1>2, <2>1 DEF Born, OnlyIssuedJobs, RunnerMatchesJob, Open
  <2>3. k # j => /\ status'[j] = status[j]
                 /\ runner'[j] = runner[j]
    BY <1>2, <2>1 DEF StartJob
  <2>4. done' = done
    BY <1>2 DEF StartJob
  <2>5. k = j => status'[j] = "pending"
    BY <1>2, <2>1 DEF StartJob
  <2>6. QED
    BY <2>2, <2>3, <2>4, <2>5 DEF Finished
<1>3. ASSUME daemon = "up", NEW k \in Jobs,
             RunnerStart(k) \/ RunnerWork(k) \/ RunnerAnnounce(k)
      PROVE  Final
  BY <1>3
  DEF RunnerStart, RunnerWork, RunnerAnnounce, Born, RunnerMatchesJob, Finished
<1>4. ASSUME daemon = "up", NEW k \in Jobs, NEW v \in Verdict, Finish(k, v),
             Open(k) \/ CancelledOnce(k), status[k] \notin Finished,
             runner'[j] = runner[j] \/ (k = j /\ runner[j] \notin {"notifying", "ended"})
      PROVE  Final
  <2>1. CASE Open(k)
    BY <1>4, <2>1, FinishOpen DEF Open
  <2>2. CASE CancelledOnce(k)
    BY <1>4, <2>2, FinishCancelled DEF Finish, CloseDone, CancelledOnce
  <2>3. QED
    BY <1>4, <2>1, <2>2
<1>5. ASSUME daemon = "up", NEW k \in Jobs, SetFailed(k) PROVE Final
  <2>1. Finish(k, "failed") /\ "failed" \in Verdict
    BY <1>5 DEF SetFailed, Verdict, Finished
  <2>2. /\ Open(k) \/ CancelledOnce(k)
        /\ status[k] \notin Finished
    BY <1>5 DEF SetFailed, Born, RunnerMatchesJob, Finished
  <2>3. QED
    BY <1>4, <1>5, <2>1, <2>2 DEF SetFailed
<1>6. ASSUME daemon = "up", NEW k \in Jobs, SetCompleted(k) PROVE Final
  <2>1. Finish(k, "completed") /\ "completed" \in Verdict
    BY <1>6 DEF SetCompleted, Verdict, Finished
  <2>2. /\ Open(k) \/ CancelledOnce(k)
        /\ status[k] \notin Finished
    BY <1>6 DEF SetCompleted, Born, RunnerMatchesJob, Finished
  <2>3. QED
    BY <1>4, <1>6, <2>1, <2>2 DEF SetCompleted
<1>7. ASSUME daemon = "up", NEW k \in Jobs, Cancel(k) PROVE Final
  <2>1. Finish(k, "cancelled") /\ "cancelled" \in Verdict
    BY <1>7 DEF Cancel, Verdict
  <2>2. runner[k] # "unborn"
    BY <1>7, OnBusIsBorn DEF Cancel
  <2>3. Open(k) \/ CancelledOnce(k)
    BY <1>7, <2>2 DEF Cancel, Born, RunnerMatchesJob, Over, RunnerPC
  <2>4. QED
    BY <1>4, <1>7, <2>1, <2>3 DEF Cancel
<1>8. QED
  BY <1>1, <1>2, <1>3, <1>5, <1>6, <1>7, JobSteps DEF RunnerStep

\* The daemon panics only in a step that finishes a cancelled job.
LEMMA PanicStep ==
  ASSUME TypeInv, OnlyIssuedJobs, daemon = "up" => Born, PanicNeedsCancel,
         [Next]_vars
  PROVE  PanicNeedsCancel'
<1> USE DEF TypeInv, TypeOK
<1>1. CASE /\ UNCHANGED <<status, done, runner, completions>>
           /\ daemon' \in {daemon, "killed"}
  BY <1>1 DEF PanicNeedsCancel, Cancelled
<1>2. ASSUME daemon = "up", NEW c \in Clients, StartJob(c)
      PROVE  PanicNeedsCancel'
  BY <1>2 DEF PanicNeedsCancel, StartJob
<1>3. ASSUME daemon = "up", NEW j \in Jobs,
             RunnerStart(j) \/ RunnerWork(j) \/ RunnerAnnounce(j)
      PROVE  PanicNeedsCancel'
  BY <1>3
  DEF PanicNeedsCancel, RunnerStart, RunnerWork, RunnerAnnounce, serviceVars
<1>4. ASSUME daemon = "up", NEW j \in Jobs, NEW v \in Verdict, Finish(j, v),
             Open(j) \/ CancelledOnce(j)
      PROVE  PanicNeedsCancel'
  BY <1>4, FinishOpen, FinishCancelled DEF PanicNeedsCancel
<1>5. ASSUME daemon = "up", NEW j \in Jobs, SetFailed(j)
      PROVE  PanicNeedsCancel'
  BY <1>4, <1>5 DEF SetFailed, Born, RunnerMatchesJob, Verdict, Finished
<1>6. ASSUME daemon = "up", NEW j \in Jobs, SetCompleted(j)
      PROVE  PanicNeedsCancel'
  BY <1>4, <1>6 DEF SetCompleted, Born, RunnerMatchesJob, Verdict, Finished
<1>7. ASSUME daemon = "up", NEW j \in Jobs, Cancel(j) PROVE PanicNeedsCancel'
  <2>1. runner[j] # "unborn"
    BY <1>7, OnBusIsBorn DEF Cancel
  <2>2. Open(j) \/ CancelledOnce(j)
    BY <1>7, <2>1 DEF Cancel, Born, RunnerMatchesJob, Over, RunnerPC
  <2>3. QED
    BY <1>4, <1>7, <2>2 DEF Cancel, Verdict
<1>8. QED
  BY <1>1, <1>2, <1>3, <1>5, <1>6, <1>7, JobSteps DEF RunnerStep

\* Waiters are woken and answered about closed channels, and what they were
\* told stays true.
LEMMA HeardStep ==
  ASSUME TypeInv, OnlyIssuedJobs, daemon = "up" => Born, HeardIsOver,
         SuccessIsEarned, [Next]_vars
  PROVE  HeardIsOver' /\ SuccessIsEarned'
<1> USE DEF TypeInv, TypeOK, ClientsHaveJobs
<1> DEFINE Told(c) ==
      /\ pc[c] = "woken" => done[job[c]]
      /\ Heard(c) => pc[c] = "answered" /\ done[job[c]]
      /\ outcome[c] = "success"
            => /\ runner[job[c]] \in {"notifying", "ended"}
               /\ status[job[c]] = "completed"
      /\ outcome[c] = "failure" /\ daemon = "up"
            => status[job[c]] # "completed"
<1>1. SUFFICES ASSUME NEW c \in Clients PROVE Told(c)'
  BY DEF HeardIsOver, SuccessIsEarned
<1>2. Told(c)
  BY DEF HeardIsOver, SuccessIsEarned
<1>3. daemon' = "up" => daemon = "up"
  BY JobSteps
<1>4. CASE pc'[c] = pc[c] /\ job'[c] = job[c] /\ outcome'[c] = outcome[c]
  <2>1. CASE job[c] \in Jobs
    BY <1>2, <1>3, <1>4, <2>1, FinalStep DEF Heard, Finished
  <2>2. CASE job[c] \notin Jobs
    BY <1>2, <1>4, <2>2 DEF Heard
  <2>3. QED
    BY <2>1, <2>2
<1>5. ASSUME \/ StartJob(c) \/ Attach(c) \/ RegisterJob(c) \/ Reply(c)
             \/ GetInfo(c) \/ Wait(c) \/ WaitTimeout(c) \/ NextCall(c)
             \/ DropCall(c)
      PROVE  Told(c)'
  BY <1>2, <1>5
  DEF StartJob, Attach, RegisterJob, Reply, GetInfo, Wait, WaitTimeout,
      NextCall, DropCall, Heard
<1>6. ASSUME WaitWake(c) PROVE Told(c)'
  BY <1>2, <1>6 DEF WaitWake, Heard, jobVars
<1>7. ASSUME WaitRead(c) PROVE Told(c)'
  <2>1. job[c] \in Jobs /\ done[job[c]] /\ daemon = "up"
    BY <1>2, <1>7 DEF WaitRead
  <2>2. status[job[c]] = "completed" =>
           runner[job[c]] \in {"notifying", "ended"}
    BY <2>1
    DEF Born, RunnerMatchesJob, Open, CancelledOnce, RunnerPC
  <2>3. QED
    BY <1>7, <2>1, <2>2 DEF WaitRead, Heard, jobVars, serviceVars
<1>8. ASSUME NEW d \in Clients \ {c},
             \/ StartJob(d) \/ Attach(d) \/ HandlerStep(d) \/ WatchStep(d)
             \/ WaitTimeout(d) \/ NextCall(d) \/ DropCall(d)
      PROVE  pc'[c] = pc[c] /\ job'[c] = job[c] /\ outcome'[c] = outcome[c]
  BY <1>8
  DEF StartJob, Attach, HandlerStep, WatchStep, RegisterJob, Reply, GetInfo,
      Wait, WaitWake, WaitRead, WaitTimeout, NextCall, DropCall
<1>9. ASSUME NEW j \in Jobs,
             \/ RunnerStep(j) \/ ExportJob(j) \/ Cancel(j)
             \/ UnregisterJob(j)
      PROVE  UNCHANGED <<pc, job, outcome>>
  BY <1>9
  DEF RunnerStep, RunnerStart, RunnerWork, SetFailed, SetCompleted,
      RunnerAnnounce, ExportJob, Cancel, UnregisterJob, clientVars
<1>10. CASE Kill \/ UNCHANGED vars
  BY <1>4, <1>10 DEF Kill, vars, clientVars
<1>11. QED
  BY <1>4, <1>5, <1>6, <1>7, <1>8, <1>9, <1>10
  DEF Next, HandlerStep, WatchStep

-----------------------------------------------------------------------------
(* The theorems *)

LEMMA IInvInit == Init => TypeInv /\ IInv
  BY TypeInit, IssuedInit, BornInit
  DEF IInv, Born, Init, HeardIsOver, Heard, PanicNeedsCancel, SuccessIsEarned

LEMMA IInvStep == TypeInv /\ IInv /\ [Next]_vars => TypeInv' /\ IInv'
<1> SUFFICES ASSUME TypeInv, IInv, [Next]_vars PROVE TypeInv' /\ IInv'
  OBVIOUS
<1>1. TypeInv' /\ OnlyIssuedJobs'
  BY TypeStep, IssuedStep DEF IInv
<1>2. OnlyIssuedJobs /\ (daemon = "up" => Born)
  BY DEF IInv, Born
<1>3. daemon' = "up" => Born'
  BY <1>2, BornStep
<1>4. PanicNeedsCancel' /\ HeardIsOver' /\ SuccessIsEarned'
  BY <1>2, PanicStep, HeardStep DEF IInv
<1>5. QED
  BY <1>1, <1>3, <1>4 DEF IInv, Born

\* The position of every runner, the state of its job, what the bus has seen
\* of it and what clients were told of it agree in every reachable state.
THEOREM Invariance == Spec => []IInv
  BY IInvInit, IInvStep, PTL DEF Spec

\* Type correctness: whatever clients, runners and timers do, every variable
\* of the service keeps its type.
THEOREM TypeCorrect == Spec => []TypeOK
<1>1. TypeInv => TypeOK
  BY DEF TypeInv
<1>2. QED
  BY <1>1, TypeInit, TypeStep, PTL DEF Spec

\* The daemon's only panic is the one a cancelled job leads to.
THEOREM OnlyCancelPanics == Spec => []PanicNeedsCancel
<1>1. IInv => PanicNeedsCancel
  BY DEF IInv
<1>2. QED
  BY <1>1, Invariance, PTL

\* A client that hears success hears it of work that succeeded, and one that
\* hears failure will not see the job completed while the daemon lives.
THEOREM WaitTellsTheTruth == Spec => []SuccessIsEarned
<1>1. IInv => SuccessIsEarned
  BY DEF IInv
<1>2. QED
  BY <1>1, Invariance, PTL

\* While the daemon lives, the bus has seen one verdict for each job whose
\* channel is closed, and none for the others.
THEOREM OneVerdictPerJob == Spec => []OneVerdict
<1>1. TypeInv /\ IInv => OneVerdict
  <2> SUFFICES ASSUME TypeInv, IInv, daemon = "up", NEW j \in Jobs
               PROVE  /\ Len(completions[j]) =
                            IF done[j] /\ Reachable(j) THEN 1 ELSE 0
                      /\ done[j] /\ Reachable(j) =>
                            \/ completions[j][1] = status[j]
                            \/ /\ completions[j][1] = "cancelled"
                               /\ status[j] = "running"
    BY DEF OneVerdict
  <2>1. RunnerMatchesJob(j) /\ runner[j] \in RunnerPC
    BY DEF IInv, TypeInv, TypeOK
  <2>2. \/ Open(j) \/ Over(j)
        \/ CancelledOnce(j) /\ status[j] \in {"cancelled", "running"}
    BY <2>1 DEF RunnerMatchesJob, RunnerPC
  <2>3. CASE Open(j)
    BY <2>3 DEF Open
  <2>4. CASE Over(j)
    BY <2>4 DEF Over
  <2>5. CASE CancelledOnce(j) /\ status[j] \in {"cancelled", "running"}
    BY <2>5 DEF CancelledOnce
  <2>6. QED
    BY <2>2, <2>3, <2>4, <2>5
<1>2. QED
  BY <1>1, IInvInit, IInvStep, PTL DEF Spec

\* No step, not even Cancel, changes the status of a job that has completed
\* or failed.
THEOREM FinishedJobsStay == Spec => FinishedIsFinal
<1>1. TypeInv /\ IInv /\ [Next]_vars =>
         [\A j \in Jobs : status[j] \in Finished => status'[j] = status[j]]_vars
  BY FinalStep DEF IInv, Born
<1>2. QED
  BY <1>1, IInvInit, IInvStep, PTL DEF Spec, FinishedIsFinal

-----------------------------------------------------------------------------
(* The registry, while job numbers are characters *)

\* Go's string(rune(id)) is one path for every job up to the surrogates.
DistinctPaths == \A j \in Jobs : IsCodePoint(j)

Registering(j) == \E c \in Clients : pc[c] = "register" /\ job[c] = j

\* Only closed jobs have timers; an open one, once set up, is in the registry
\* and, once exported, on the bus.
Kept ==
    /\ \A j \in timers : done[j]
    /\ daemon = "up" =>
          \A j \in Issued : ~done[j] /\ ~Registering(j) =>
             /\ jobs[Path(j)] = j
             /\ Reachable(j) /\ j \notin exporting => exported[Path(j)] = j

\* A verdict only closes a channel.
LEMMA FinishKeeps ==
  ASSUME TypeInv, Kept, NEW j \in Jobs, NEW v \in Verdict, Finish(j, v),
         jobIDCounter' = jobIDCounter, jobs' = jobs, exporting' = exporting,
         exported' = exported, pc' = pc, job' = job
  PROVE  Kept'
<1>1. \A i \in Jobs : done[i] => done'[i]
  BY DEF Finish, CloseDone, TypeInv, TypeOK
<1>2. daemon' = "up" => daemon = "up"
  BY DEF Finish, CloseDone
<1>3. \A i \in timers' : done'[i]
  BY <1>1 DEF Finish, CloseDone, TypeInv, TypeOK, Kept
<1>4. Issued \subseteq Jobs
  BY ConstantsAssumption DEF ConstantsAssumption, Issued, Jobs, TypeInv, TypeOK
<1>5. QED
  BY <1>1, <1>2, <1>3, <1>4 DEF Kept, Issued, Registering

LEMMA KeptStep ==
  ASSUME DistinctPaths, TypeInv, OnlyIssuedJobs, Kept, [Next]_vars
  PROVE  Kept'
<1> USE DEF serviceVars, jobVars, busVars, clientVars
<1>1. /\ \A i \in Jobs : Path(i) = i /\ i \in Paths
      /\ Issued \subseteq Jobs
      /\ Jobs \subseteq Nat
  BY ConstantsAssumption
  DEF DistinctPaths, Path, GetJobObjectPath, Paths, ConstantsAssumption, Issued, Jobs,
      TypeInv, TypeOK
<1>2. ASSUME NEW c \in Clients, StartJob(c) PROVE Kept'
  <2>1. PICK n : n = jobIDCounter + 1
    OBVIOUS
  <2>2. /\ daemon = "up" /\ jobIDCounter' = n
        /\ job'[c] = n /\ pc'[c] = "register" /\ pc[c] = "idle"
        /\ \A d \in Clients : d # c => pc'[d] = pc[d] /\ job'[d] = job[d]
        /\ UNCHANGED <<daemon, jobs, exporting, exported, done, timers>>
    BY <1>2, <2>1 DEF StartJob, TypeInv, TypeOK
  <2>3. Registering(n)' /\ \A i : Registering(i) => Registering(i)'
    BY <2>2 DEF Registering
  <2>4. \A i \in Issued' : i \in Issued \/ i = n
    BY <2>1, <2>2, ConstantsAssumption DEF Issued, TypeInv, TypeOK, ConstantsAssumption
  <2>5. QED
    BY <2>2, <2>3, <2>4 DEF Kept
<1>3. ASSUME NEW c \in Clients, RegisterJob(c) PROVE Kept'
  <2>1. job[c] \in Issued /\ job[c] \in Jobs
    BY <1>1, <1>3 DEF RegisterJob, OnlyIssuedJobs
  <2>2. \A i \in Jobs : jobs'[Path(i)] = IF i = job[c] THEN i ELSE jobs[Path(i)]
    BY <1>1, <1>3, <2>1 DEF RegisterJob, TypeInv, TypeOK
  <2>3. \A i : i # job[c] /\ Registering(i) => Registering(i)'
    BY <1>3 DEF RegisterJob, Registering, TypeInv, TypeOK
  <2>4. QED
    BY <1>1, <1>3, <2>1, <2>2, <2>3 DEF RegisterJob, Kept, Issued
<1>4. ASSUME NEW c \in Clients,
             \/ Reply(c) \/ Attach(c) \/ GetInfo(c) \/ Wait(c) \/ WaitWake(c)
             \/ WaitRead(c) \/ WaitTimeout(c) \/ NextCall(c) \/ DropCall(c)
      PROVE  Kept'
  <2>1. \A i : Registering(i) /\ daemon = "up" => Registering(i)'
    BY <1>4
    DEF Reply, Attach, GetInfo, Wait, WaitWake, WaitRead, WaitTimeout, NextCall,
        DropCall, Registering, TypeInv, TypeOK
  <2>2. UNCHANGED <<serviceVars, jobVars>>
    BY <1>4
    DEF Reply, Attach, GetInfo, Wait, WaitWake, WaitRead, WaitTimeout, NextCall, DropCall
  <2>3. QED
    BY <2>1, <2>2 DEF Kept, Issued
<1>5. ASSUME NEW j \in Jobs, RunnerStart(j) \/ RunnerWork(j) \/ RunnerAnnounce(j)
      PROVE  Kept'
  BY <1>5 DEF RunnerStart, RunnerWork, RunnerAnnounce, Kept, Issued, Registering
<1>6. ASSUME NEW j \in Jobs, SetFailed(j) \/ SetCompleted(j) \/ Cancel(j) PROVE Kept'
  <2>1. \E v \in Verdict : Finish(j, v)
    BY <1>6 DEF SetFailed, SetCompleted, Cancel, Verdict, Finished
  <2>2. QED
    BY <1>6, <2>1, FinishKeeps DEF SetFailed, SetCompleted, Cancel
<1>7. ASSUME NEW j \in Jobs, ExportJob(j) PROVE Kept'
  <2>1. \A i \in Jobs : Reachable(i) =>
           exported'[Path(i)] = IF i = j THEN i ELSE exported[Path(i)]
    BY <1>1, <1>7 DEF ExportJob, TypeInv, TypeOK
  <2>2. QED
    BY <1>1, <1>7, <2>1 DEF ExportJob, Kept, Issued, Registering
<1>8. ASSUME NEW j \in Jobs, UnregisterJob(j) PROVE Kept'
  <2>1. done[j]
    BY <1>8 DEF UnregisterJob, Kept
  <2>2. \A i \in Jobs : i # j => /\ jobs'[Path(i)] = jobs[Path(i)]
                                 /\ exported'[Path(i)] = exported[Path(i)]
    BY <1>1, <1>8 DEF UnregisterJob, TypeInv, TypeOK
  <2>3. QED
    BY <1>1, <1>8, <2>1, <2>2 DEF UnregisterJob, Kept, Issued, Registering
<1>9. CASE Kill
  BY <1>9 DEF Kill, Kept
<1>10. CASE UNCHANGED vars
  BY <1>10 DEF vars, Kept, Issued, Registering
<1>11. QED
  BY <1>2, <1>3, <1>4, <1>5, <1>6, <1>7, <1>8, <1>9, <1>10
  DEF Next, HandlerStep, WatchStep, RunnerStep

\* As long as the numbers of jobs are characters, no job whose channel is
\* open leaves the registry or the bus, or is overwritten: neither the
\* cleanup of another job nor a second registration gets in its way.
THEOREM OpenJobsAreKept ==
  ASSUME DistinctPaths PROVE Spec => []ForgottenOnlyWhenOver
<1>1. Init => Kept
  BY ConstantsAssumption DEF Init, Kept, Issued, ConstantsAssumption
<1>2. TypeInv /\ IInv /\ Kept /\ [Next]_vars => Kept'
  BY KeptStep DEF IInv
<1>3. Kept => ForgottenOnlyWhenOver
  <2>1. SUFFICES ASSUME Kept, NEW j \in Issued, daemon = "up", j \notin exporting,
                        ~Registering(j), ~done[j]
                 PROVE  jobs[Path(j)] = j /\ (Reachable(j) => OnBus(j))
    BY DEF ForgottenOnlyWhenOver, Registering
  <2>2. QED
    BY <2>1 DEF Kept, OnBus
<1>4. QED
  BY <1>1, <1>2, <1>3, IInvInit, IInvStep, PTL DEF Spec

-----------------------------------------------------------------------------
(* Without Cancel, the jobs keep the promise of JobLifecycle *)

NotCancelled == \A j \in Jobs : ~CancelledOnce(j)

\* Only Cancel puts a cancellation on the bus.
LEMMA NotCancelledStep ==
  ASSUME AllowCancel = FALSE, TypeInv, IInv, NotCancelled, [Next]_vars
  PROVE  NotCancelled'
<1> USE DEF TypeInv, TypeOK
<1>1. CASE UNCHANGED <<status, done, runner, completions>>
  BY <1>1 DEF NotCancelled, CancelledOnce, Reachable, Path
<1>2. ASSUME NEW c \in Clients, StartJob(c) PROVE NotCancelled'
  BY <1>2 DEF StartJob, NotCancelled, CancelledOnce, Reachable, Path, busVars
<1>3. ASSUME NEW j \in Jobs,
             RunnerStart(j) \/ RunnerWork(j) \/ RunnerAnnounce(j)
      PROVE  NotCancelled'
  BY <1>3
  DEF RunnerStart, RunnerWork, RunnerAnnounce, NotCancelled, CancelledOnce,
      Reachable, Path, busVars
<1>4. ASSUME NEW j \in Jobs, NEW v \in Finished, Finish(j, v), Open(j)
      PROVE  NotCancelled'
  <2>1. v \in Verdict /\ v # "cancelled" /\ <<v>>[1] = v
        /\ <<"cancelled">>[1] = "cancelled"
    BY <1>4 DEF Verdict, Finished
  <2>2. <<v>> # <<"cancelled">> /\ <<>> # <<"cancelled">>
    BY <2>1
  <2>3. completions'[j] # <<"cancelled">>
    <3>1. completions'[j] = IF Reachable(j) THEN <<v>> ELSE <<>>
      BY <1>4, <2>1, FinishOpen
    <3>2. QED
      BY <2>2, <3>1
  <2>4. ASSUME NEW k \in Jobs \ {j}
        PROVE  completions'[k] = completions[k] /\ done'[k] = done[k]
    BY <1>4, <2>1, FinishOpen
  <2>5. QED
    BY <2>3, <2>4 DEF NotCancelled, CancelledOnce, Reachable, Path
<1>5. ASSUME NEW j \in Jobs, SetFailed(j) PROVE NotCancelled'
  BY <1>4, <1>5
  DEF SetFailed, IInv, RunnerMatchesJob, NotCancelled, Finished
<1>6. ASSUME NEW j \in Jobs, SetCompleted(j) PROVE NotCancelled'
  BY <1>4, <1>6
  DEF SetCompleted, IInv, RunnerMatchesJob, NotCancelled, Finished
<1>7. QED
  BY <1>1, <1>2, <1>3, <1>5, <1>6, JobSteps DEF RunnerStep, Cancel

\* What clients wait for and were told changes only with the clients.
LEMMA ClientsStutter ==
  ASSUME UNCHANGED clientVars
  PROVE  UNCHANGED <<waitingFor, told>>
  BY DEF clientVars, waitingFor, told, Asking, Heard

\* A step of client c's call changes at most what it waits for and was told.
LEMMA ClientStep ==
  ASSUME TypeInv, IInv, NotCancelled, daemon' = daemon, UNCHANGED status,
         UNCHANGED done, NEW c \in Clients,
         \/ Attach(c) \/ HandlerStep(c) \/ WatchStep(c) \/ WaitTimeout(c)
         \/ NextCall(c) \/ DropCall(c)
  PROVE  [Promise!Next]_<<status, waitingFor, told>>
<1> USE DEF TypeInv, TypeOK, ClientsHaveJobs
<1>1. CASE \/ Attach(c) \/ RegisterJob(c) \/ Reply(c) \/ GetInfo(c)
           \/ WaitWake(c)
  <2>1. ~Heard(c)
    BY <1>1
    DEF IInv, HeardIsOver, Attach, RegisterJob, Reply, GetInfo, WaitWake
  <2>2. UNCHANGED <<waitingFor, told>>
    BY <1>1, <2>1
    DEF Attach, RegisterJob, Reply, GetInfo, WaitWake, waitingFor, told,
        Asking, Heard
  <2>3. QED
    BY <2>2
<1>2. CASE Wait(c)
  <2>1. ~Heard(c) /\ pc[c] = "wait" /\ daemon = "up"
    BY <1>2 DEF IInv, HeardIsOver, Wait
  <2>2. job[c] \in Jobs /\ job[c] \in Issued /\ job[c] # NoJob
    BY <2>1, ConstantsAssumption
    DEF ConstantsAssumption, IInv, OnlyIssuedJobs, Jobs, NoJob
  <2>3. status[job[c]] # "absent"
    BY <2>1, <2>2
    DEF IInv, OnlyIssuedJobs, RunnerMatchesJob, Over, Finished, RunnerPC
  <2>4. told' = told
    BY <1>2, <2>1 DEF Wait, told, Heard
  <2>5. CASE pc' = [pc EXCEPT ![c] = "waiting"] /\ UNCHANGED outcome
    <3>1. waitingFor' = [waitingFor EXCEPT ![c] = job[c]]
      BY <1>2, <2>1, <2>5 DEF Wait, waitingFor, Asking, Heard
    <3>2. waitingFor[c] = NoJob
      BY <2>1 DEF waitingFor, Asking
    <3>3. Promise!Ask(c)
      BY <2>2, <2>3, <2>4, <3>1, <3>2 DEF Promise!Ask
    <3>4. QED
      BY <3>3 DEF Promise!Next
  <2>6. CASE pc' = [pc EXCEPT ![c] = "answered"]
             /\ outcome' = [outcome EXCEPT ![c] = "unknown"]
    <3>1. waitingFor' = waitingFor
      BY <1>2, <2>1, <2>6 DEF Wait, waitingFor, Asking, Heard
    <3>2. QED
      BY <2>4, <3>1
  <2>7. QED
    BY <1>2, <2>5, <2>6 DEF Wait
<1>3. CASE WaitRead(c)
  <2>1. ~Heard(c) /\ pc[c] = "woken" /\ daemon = "up" /\ job[c] \in Jobs
    BY <1>3 DEF IInv, HeardIsOver, WaitRead
  <2>2. done[job[c]] /\ job[c] # NoJob
    BY <2>1, ConstantsAssumption
    DEF ConstantsAssumption, IInv, HeardIsOver, Jobs, NoJob
  <2>3. status[job[c]] \in Finished
    BY <2>1, <2>2 DEF IInv, RunnerMatchesJob, NotCancelled, Open, Over, RunnerPC
  <2>4. waitingFor' = waitingFor /\ waitingFor[c] = job[c] /\ told[c] = "none"
    BY <1>3, <2>1 DEF WaitRead, waitingFor, told, Asking, Heard
  <2>5. told' = [told EXCEPT ![c] =
                    IF status[job[c]] = "completed" THEN "success"
                    ELSE "failure"]
    BY <1>3, <2>1 DEF WaitRead, told, Heard
  <2>6. Promise!Hear(c)
    BY <2>2, <2>3, <2>4, <2>5 DEF Promise!Hear, Promise!Results, Finished
  <2>7. QED
    BY <2>6 DEF Promise!Next
<1>4. ASSUME Asking(c), ~Asking(c)', ~Heard(c)',
             \A d \in Clients \ {c} : /\ pc'[d] = pc[d]
                                      /\ job'[d] = job[d]
                                      /\ outcome'[d] = outcome[d]
      PROVE  [Promise!Next]_<<status, waitingFor, told>>
  <2>1. job[c] \in Jobs /\ job[c] # NoJob
    BY <1>4, ConstantsAssumption
    DEF ConstantsAssumption, IInv, HeardIsOver, Jobs, NoJob, Asking
  <2>2. /\ waitingFor' = [waitingFor EXCEPT ![c] = NoJob]
        /\ told' = [told EXCEPT ![c] = "none"]
        /\ waitingFor[c] = job[c]
    BY <1>4 DEF waitingFor, told, Asking, Heard
  <2>3. Promise!Leave(c)
    BY <2>1, <2>2 DEF Promise!Leave
  <2>4. QED
    BY <2>3 DEF Promise!Next
<1>5. ASSUME ~Asking(c), ~Asking(c)', ~Heard(c)',
             \A d \in Clients \ {c} : /\ pc'[d] = pc[d]
                                      /\ job'[d] = job[d]
                                      /\ outcome'[d] = outcome[d]
      PROVE  [Promise!Next]_<<status, waitingFor, told>>
  <2>1. UNCHANGED <<waitingFor, told>>
    BY <1>5 DEF waitingFor, told, Asking, Heard
  <2>2. QED
    BY <2>1
<1>6. CASE WaitTimeout(c) \/ NextCall(c) \/ DropCall(c)
  <2>1. ~Asking(c)' /\ ~Heard(c)'
    BY <1>6 DEF WaitTimeout, NextCall, DropCall, Asking, Heard
  <2>2. \A d \in Clients \ {c} : /\ pc'[d] = pc[d]
                                  /\ job'[d] = job[d]
                                  /\ outcome'[d] = outcome[d]
    BY <1>6 DEF WaitTimeout, NextCall, DropCall
  <2>3. QED
    BY <1>4, <1>5, <2>1, <2>2
<1>7. QED
  BY <1>1, <1>2, <1>3, <1>6 DEF HandlerStep, WatchStep

\* A step of a job's runner, of its creation or of the service changes at
\* most the job's phase.
LEMMA JobStep ==
  ASSUME AllowCancel = FALSE, TypeInv, IInv, NotCancelled,
         NEW j \in Jobs, RunnerStep(j)
  PROVE  [Promise!Next]_<<status, waitingFor, told>>
<1> USE DEF TypeInv, TypeOK
<1>1. UNCHANGED <<waitingFor, told>>
  <2>1. UNCHANGED clientVars
    BY DEF RunnerStep, RunnerStart, RunnerWork, SetFailed, SetCompleted,
           RunnerAnnounce
  <2>2. QED
    BY <2>1, ClientsStutter
<1>2. CASE RunnerStart(j)
  <2>1. status[j] = "pending"
    BY <1>2 DEF RunnerStart, IInv, RunnerMatchesJob, NotCancelled
  <2>2. Promise!Begin(j)
    BY <1>1, <1>2, <2>1 DEF RunnerStart, Promise!Begin
  <2>3. QED
    BY <2>2 DEF Promise!Next
<1>3. CASE RunnerWork(j) \/ RunnerAnnounce(j)
  BY <1>1, <1>3 DEF RunnerWork, RunnerAnnounce
<1>4. CASE SetFailed(j) \/ SetCompleted(j)
  <2>1. status[j] = "running"
    BY <1>4
    DEF SetFailed, SetCompleted, IInv, RunnerMatchesJob, NotCancelled
  <2>2. \E v \in Finished : status' = [status EXCEPT ![j] = v]
    BY <1>4 DEF SetFailed, SetCompleted, Finish, Finished
  <2>3. Promise!End(j)
    BY <1>1, <2>1, <2>2 DEF Promise!End, Promise!Results, Finished
  <2>4. QED
    BY <2>3 DEF Promise!Next
<1>5. QED
  BY <1>2, <1>3, <1>4 DEF RunnerStep

\* As long as no client cancels, the service implements JobLifecycle: one
\* final result per job, and waiters are told that result.
THEOREM PromiseKept == ASSUME AllowCancel = FALSE PROVE Spec => KeepsPromise
<1>1. Init => Promise!Init
  BY DEF Init, Promise!Init, waitingFor, told, Asking, Heard
<1>2. Init => NotCancelled
  BY DEF Init, NotCancelled, CancelledOnce
<1>3. ASSUME TypeInv, IInv, NotCancelled, [Next]_vars
      PROVE  [Promise!Next]_<<status, waitingFor, told>>
  <2>1. ASSUME NEW c \in Clients, StartJob(c)
        PROVE  [Promise!Next]_<<status, waitingFor, told>>
    <3>1. PICK j \in Jobs : j = jobIDCounter + 1 /\ j \notin Issued
      BY <1>3, <2>1, ConstantsAssumption
      DEF ConstantsAssumption, StartJob, Jobs, Issued, TypeInv, TypeOK
    <3>2. status[j] = "absent"
      BY <1>3, <2>1, <3>1
      DEF StartJob, IInv, OnlyIssuedJobs, RunnerMatchesJob
    <3>3. ~Heard(c) /\ ~Asking(c)
      BY <1>3, <2>1 DEF StartJob, IInv, HeardIsOver, Asking
    <3>4. /\ status' = [status EXCEPT ![j] = "pending"]
          /\ job' = [job EXCEPT ![c] = j]
          /\ pc' = [pc EXCEPT ![c] = "register"]
          /\ outcome' = outcome
      BY <2>1, <3>1 DEF StartJob
    <3>5. \A d \in Clients : /\ Heard(d)' <=> Heard(d)
                             /\ Asking(d)' <=> Asking(d)
                             /\ Asking(d) => job'[d] = job[d]
      BY <1>3, <3>3, <3>4 DEF Asking, Heard, TypeInv, TypeOK
    <3>6. UNCHANGED <<waitingFor, told>>
      BY <3>4, <3>5 DEF waitingFor, told
    <3>7. Promise!Submit(j)
      BY <3>2, <3>4, <3>6 DEF Promise!Submit
    <3>8. QED
      BY <3>1, <3>7 DEF Promise!Next
  <2>2. ASSUME NEW c \in Clients,
               \/ Attach(c) \/ HandlerStep(c) \/ WatchStep(c)
               \/ WaitTimeout(c) \/ NextCall(c) \/ DropCall(c)
        PROVE  [Promise!Next]_<<status, waitingFor, told>>
    <3>1. daemon' = daemon /\ UNCHANGED status /\ UNCHANGED done
      BY <2>2
      DEF Attach, HandlerStep, WatchStep, RegisterJob, Reply, GetInfo, Wait,
          WaitWake, WaitRead, WaitTimeout, NextCall, DropCall, serviceVars,
          jobVars
    <3>2. QED
      BY <1>3, <2>2, <3>1, ClientStep
  <2>3. ASSUME NEW j \in Jobs, ExportJob(j) \/ UnregisterJob(j)
        PROVE  [Promise!Next]_<<status, waitingFor, told>>
    BY <2>3, ClientsStutter DEF ExportJob, UnregisterJob, jobVars
  <2>4. CASE Kill \/ UNCHANGED vars
    BY <2>4, ClientsStutter DEF Kill, vars, jobVars
  <2>5. QED
    BY <1>3, <2>1, <2>2, <2>3, <2>4, JobStep DEF Next, Cancel
<1>4. ASSUME TypeInv, IInv, NotCancelled, [Next]_vars PROVE NotCancelled'
  BY <1>4, NotCancelledStep
<1>5. QED
  BY <1>1, <1>2, <1>3, <1>4, IInvInit, IInvStep, PTL
  DEF Spec, KeepsPromise, Promise!Spec, Promise!vars
=============================================================================
