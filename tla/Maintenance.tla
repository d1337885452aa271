------------------------------ MODULE Maintenance ------------------------------
(***************************************************************************)
(* The daily maintenance on top of the job queue: StartupService has       *)
(* Hangfire create a PerformMaintenance job every day; performed by the    *)
(* worker, it schedules the shutdown of the server and makes the           *)
(* preparation of the upcoming missions and the start of the server for    *)
(* the nearest one its continuations (MaintenanceService).  What these     *)
(* jobs do with the server and with the status the application reports is  *)
(* MissionPreparationService, ServerStartupService and AppStatusStore.     *)
(*                                                                         *)
(* The queue is JobsQueue itself: the worker that performs a maintenance   *)
(* is one of its callers, next to a user's requests.  The server is        *)
(* reduced to whether it runs (see ServerLifecycle): a running server may  *)
(* have players, and then cannot be shut down.                             *)
(***************************************************************************)
EXTENDS JobsQueue

CONSTANTS
  Worker,      \* the caller that is the worker performing a maintenance
  UserJobs,    \* methods users' requests schedule
  MaxCrashes   \* a bound on the stops of the manager

ASSUME MaintenanceAssumption ==
  /\ Jobs \subseteq Nat /\ {0, 2} \subseteq Chains
  /\ Worker \in Callers /\ MaxCrashes \in Nat
  /\ UserJobs \subseteq Methods \ {"PerformMaintenance"}   \* no request asks for it
  /\ {"PerformMaintenance", "ShutdownServer", "PrepareForUpcomingMissions",
      "StartServerForNearestMission"} \subseteq Methods

VARIABLES
  task,     \* how far the worker is with the job it performs
  server,   \* the server on port 2302
  status,   \* AppStatusStore.StatusDetails, None is null
  crashes   \* how often the manager has stopped

maintenanceVars == <<vars, task, server, status, crashes>>

TaskRecord == [pc : {"none", "schedule", "scheduling", "missions", "verify",
                     "shutdown", "update"},
               previous : {None, "UpdatingMods"}]

NoTask == [pc |-> "none", previous |-> None]

-----------------------------------------------------------------------------
(***************************************************************************)
(* The performance of a job.                                               *)
(***************************************************************************)
Method == job[running].method

\* The jobs that start the server.
StartJobs == {"StartServerForNearestMission"} \cup (UserJobs \ {"ShutdownServer"})

\* Hangfire numbers the jobs one after the other.
NextId(j) == \A k \in Jobs : job[k].status = "Unused" => j <= k

\* Only a start has the missions, the shutdown and the update before it.
FirstStep(m) ==
  CASE m = "PerformMaintenance" -> "schedule"
    [] m = "ShutdownServer" -> "shutdown"
    [] OTHER -> "missions"

Take(j) ==
  /\ Fetch(j)
  /\ task' = [NoTask EXCEPT !.pc = FirstStep(job[j].method)]
  /\ UNCHANGED <<server, status, crashes>>

End(outcome) == Perform(running, outcome) /\ task' = NoTask

Continue(pc) == task' = [task EXCEPT !.pc = pc] /\ UNCHANGED vars

-----------------------------------------------------------------------------
(***************************************************************************)
(* MaintenanceService and its place in the schedule.                       *)
(***************************************************************************)

\* RecurringJob.AddOrUpdate: once a day; one day is modelled.
TriggerMaintenance(j) ==
  /\ \A k \in Jobs : job[k].method # "PerformMaintenance"
  /\ job[j].status = "Unused" /\ NextId(j)
  /\ job' = [job EXCEPT ![j] = [NoJob EXCEPT !.status = "Enqueued",
                                             !.method = "PerformMaintenance"]]
  /\ UNCHANGED <<now, call, running, task, server, status, crashes>>

ScheduleShutdown ==
  /\ task.pc = "schedule"
  /\ ScheduleJob(Worker, "ShutdownServer", None, 0, 2)
  /\ task' = [task EXCEPT !.pc = "scheduling"]
  /\ UNCHANGED <<server, status, crashes>>

\* What continues the job that the call has just created.
NextInChain(chain) == IF chain = 2 THEN "PrepareForUpcomingMissions"
                                   ELSE "StartServerForNearestMission"

SchedulingStep ==
  /\ task.pc = "scheduling"
  /\ \/ ReadScheduledJobs(Worker)
     \/ ReadQueuedJobs(Worker)
     \/ CreationFails(Worker)
     \/ \E j \in Jobs :
          /\ NextId(j)
          /\ \/ CreateJob(Worker, j)
             \/ ContinueJobWith(Worker, j, NextInChain(call[Worker].chain))
  /\ UNCHANGED <<task, server, status, crashes>>

\* Mutant of MaintenanceOutcome: without a job there is nothing to do.
QuietlyRefused(answer) == "success"

\* Mutant of MaintenanceOutcome: the end of a complete chain throws as well.
NeverSucceeds(answer) == "exception"

\* The Value of a failed Result throws, and so does a creation that fails.
MaintenanceOutcome(answer) == IF answer = "success" THEN "success" ELSE "exception"

EndMaintenance ==
  /\ task.pc = "scheduling" /\ call[Worker].pc = "idle"
  /\ End(MaintenanceOutcome(call[Worker].answer))
  /\ UNCHANGED <<server, status, crashes>>

-----------------------------------------------------------------------------
(***************************************************************************)
(* MissionPreparationService and ServerStartupService.                     *)
(***************************************************************************)

\* The missions or their modsets cannot be had, there is no mission (which is
\* fine for the nearest one), or there is one.
GetMissions ==
  /\ task.pc = "missions"
  /\ \/ End("failure")
     \/ Method = "StartServerForNearestMission" /\ End("success")
     \/ Continue(IF Method = "PrepareForUpcomingMissions" THEN "verify" ELSE "shutdown")
  /\ UNCHANGED <<server, status, crashes>>

\* The Result of VerifyMods is not looked at, an exception ends the job.
VerifyMods ==
  /\ task.pc = "verify"
  /\ \E outcome \in Outcomes :
       End(IF outcome = "exception" THEN outcome ELSE "success")
  /\ UNCHANGED <<server, status, crashes>>

\* ShutdownServer(2302, false).  A start sets the status before the update, in
\* the same step: SetAppStatus remembers what it replaces.
ShutdownServer ==
  /\ task.pc = "shutdown"
  /\ \/ /\ server # "down"
        /\ \E outcome \in {"failure", "exception"} : End(outcome)
        /\ UNCHANGED <<server, status>>
     \/ /\ server' = "down"
        /\ \/ /\ Method = "ShutdownServer"
              /\ End("success")
              /\ UNCHANGED status
           \/ /\ Method # "ShutdownServer"
              /\ status' = "UpdatingMods"
              /\ task' = [pc |-> "update", previous |-> status]
              /\ UNCHANGED vars
  /\ UNCHANGED crashes

\* Mutant of Dispose: the status that was replaced is forgotten.
DisposeNothing == UNCHANGED status

Dispose == status' = task.previous

\* Only the success of UpdateModset disposes of the status; then the server is
\* started, and may run although the start fails.
UpdateModset ==
  /\ task.pc = "update"
  /\ \/ /\ \E outcome \in {"failure", "exception"} : End(outcome)
        /\ UNCHANGED <<server, status>>
     \/ /\ Dispose
        /\ \/ server' = "up" /\ End("success")
           \/ server' \in {"down", "up"} /\ End("failure")
  /\ UNCHANGED crashes

-----------------------------------------------------------------------------
(***************************************************************************)
(* Everything else.                                                        *)
(***************************************************************************)
ServerExits ==
  /\ server = "up"
  /\ server' = "down"
  /\ UNCHANGED <<vars, task, status, crashes>>

\* Bounded: no user asks for what has been asked for before.
UserRequest(c) ==
  /\ c # Worker
  /\ \/ \E m \in UserJobs : /\ \A k \in Jobs : job[k].method # m
                            /\ ScheduleJob(c, m, None, 0, 0)
     \/ ReadScheduledJobs(c)
     \/ ReadQueuedJobs(c)
     \/ \E j \in Jobs : NextId(j) /\ CreateJob(c, j)
  /\ UNCHANGED <<task, server, status, crashes>>

RetryDue(j) ==
  /\ EnqueueScheduled(j)
  /\ UNCHANGED <<task, server, status, crashes>>

\* The server and the jobs survive, the status does not.
ManagerCrash ==
  /\ crashes < MaxCrashes
  /\ Crash
  /\ crashes' = crashes + 1
  /\ task' = NoTask /\ status' = None
  /\ UNCHANGED server

MaintenanceInit ==
  /\ Init
  /\ task = NoTask
  /\ server = "down"
  /\ status = None
  /\ crashes = 0

TaskStep ==
  \/ \E j \in Jobs : Take(j)
  \/ ScheduleShutdown
  \/ SchedulingStep
  \/ EndMaintenance
  \/ GetMissions
  \/ VerifyMods
  \/ ShutdownServer
  \/ UpdateModset

MaintenanceStep ==
  \/ \E j \in Jobs : TriggerMaintenance(j) \/ RetryDue(j)
  \/ TaskStep
  \/ \E c \in Callers : UserRequest(c)
  \/ ServerExits
  \/ ManagerCrash

MaintenanceNext == MaintenanceStep /\ HistoryFollows

\* The worker works and Hangfire polls; users, players and the clock owe nothing.
MaintenanceSpec ==
  /\ MaintenanceInit /\ [][MaintenanceNext]_maintenanceVars
  /\ WF_maintenanceVars(TaskStep /\ HistoryFollows)
  /\ WF_maintenanceVars((\E j \in Jobs : RetryDue(j)) /\ HistoryFollows)

-----------------------------------------------------------------------------
(***************************************************************************)
(* Properties.                                                             *)
(***************************************************************************)

\* The worker has a job exactly while it is somewhere in one, and the status is
\* one of the two it can have.
MaintenanceTypeOK ==
  /\ TypeOK
  /\ task \in TaskRecord
  /\ (running = None) = (task.pc = "none")
  /\ server \in {"down", "up"}
  /\ status \in {None, "UpdatingMods"}
  /\ crashes \in 0..MaxCrashes

\* The start job of a chain that is complete.
Chained(k) ==
  /\ job[k].method = "StartServerForNearestMission"
  /\ job[k].parent # None
  /\ job[job[k].parent].method = "PrepareForUpcomingMissions"
  /\ job[job[k].parent].parent # None
  /\ job[job[job[k].parent].parent].method = "ShutdownServer"

\* A maintenance that has succeeded left a complete chain behind, also when it
\* was interrupted, refused because of a pending shutdown, and tried again.
SuccessLeavesChain ==
  \A j \in Jobs :
    job[j].method = "PerformMaintenance" /\ job[j].status = "Succeeded"
      => \E k \in Jobs : Chained(k)

\* The server is shut down and started a second time for one maintenance only if
\* the manager stopped in between: no refusal and no retry doubles a chain.
DoubledOnlyByCrash ==
  Cardinality({k \in Jobs : Chained(k)}) > 1 => crashes > 0

\* A job that starts the server has failed, once or for good.
UpdateFailed ==
  \E j \in Jobs : /\ job[j].method \in StartJobs
                  /\ job[j].attempt > 0 \/ job[j].status = "Failed"

\* The status outlives the update it was set for only when an update failed: all
\* other ways through StartServer, nested behind a stale status or not, restore
\* what they found.
StaleOnlyAfterFailure ==
  status # None /\ task.pc # "update" => UpdateFailed

\* The worker is where the job it performs takes it.
TaskFollowsJob ==
  /\ \A j \in Jobs : job[j].status # "Unused" =>
       job[j].method \in StartJobs \cup {"PerformMaintenance", "ShutdownServer",
                                       "PrepareForUpcomingMissions"}
  /\ running # None => job[running].status = "Processing"
  /\ task.pc \in {"schedule", "scheduling"} => Method = "PerformMaintenance"
  /\ task.pc = "missions" => Method \notin {"PerformMaintenance", "ShutdownServer"}
  /\ task.pc = "verify" => Method = "PrepareForUpcomingMissions"
  /\ task.pc = "shutdown" => Method \notin {"PerformMaintenance",
                                           "PrepareForUpcomingMissions"}
  /\ task.pc = "update" => Method \in StartJobs

Asking(c) == call[c].pc \in {"scheduled", "queued", "create"}

\* How far the chain is that a maintenance is putting together.
WorkerCall ==
  LET w == call[Worker]
  IN /\ w.pc # "idle" => task.pc = "scheduling" /\ w.pc # "delete"
     /\ Asking(Worker) => w.method = "ShutdownServer" /\ w.at = None /\ w.chain = 2
     /\ w.pc = "continue" /\ w.chain = 2 => job[w.job].method = "ShutdownServer"
     /\ w.pc = "continue" /\ w.chain = 1 =>
          /\ job[w.job].method = "PrepareForUpcomingMissions"
          /\ job[w.job].parent # None
          /\ job[job[w.job].parent].method = "ShutdownServer"
     /\ task.pc = "scheduling" /\ w.pc = "idle" /\ w.answer = "success" =>
          \E k \in Jobs : Chained(k)

UserCalls == \A c \in Callers : c # Worker /\ Asking(c) => call[c].method \in UserJobs

\* There is one maintenance, and while the manager has not stopped it has completed at
\* most one chain, and has succeeded or is about to if it has.
OneMaintenance ==
  \A j, k \in Jobs :
    job[j].method = "PerformMaintenance" /\ job[k].method = "PerformMaintenance" => j = k

OneChain ==
  crashes = 0 =>
    /\ \A j, k \in Jobs : Chained(j) /\ Chained(k) => j = k
    /\ (\E k \in Jobs : Chained(k)) =>
         \/ /\ task.pc = "scheduling"
            /\ call[Worker].pc = "idle" /\ call[Worker].answer = "success"
         \/ \E j \in Jobs : job[j].method = "PerformMaintenance" /\ job[j].status = "Succeeded"

\* A status to be restored was stale before.
StatusRemembered ==
  StaleOnlyAfterFailure /\ (task.previous # None => UpdateFailed)

\* The inductive invariant behind the properties above.
MaintenanceInv ==
  /\ JobsInv /\ MaintenanceTypeOK /\ TaskFollowsJob /\ WorkerCall /\ UserCalls
  /\ SuccessLeavesChain /\ OneMaintenance /\ OneChain /\ StatusRemembered

\* Whatever stops, refusals and failures come in between, a maintenance ends with
\* the start of the server as a job of its own, or fails for good.
MaintenanceReachesStart ==
  (\E j \in Jobs : job[j].method = "PerformMaintenance") ~>
    \E j \in Jobs : \/ job[j].method = "PerformMaintenance" /\ job[j].status = "Failed"
                    \/ Chained(j)

\* "Mods are updating.": what the status means.
StatusTellsTheTruth == status = "UpdatingMods" => task.pc = "update"
=============================================================================
