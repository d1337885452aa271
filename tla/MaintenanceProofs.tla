---------------------------- MODULE MaintenanceProofs ----------------------------
(***************************************************************************)
(* The safety of Maintenance, for any numbers of jobs, callers, retries    *)
(* and crashes: its steps are steps of the queue, but for the trigger of   *)
(* the maintenance, and what the worker does is bound to the job it has.   *)
(***************************************************************************)
EXTENDS Maintenance, JobsQueueProofs

LEMMA Names ==
  /\ {"PerformMaintenance", "ShutdownServer", "PrepareForUpcomingMissions",
      "StartServerForNearestMission"} \subseteq Methods
  /\ UserJobs \subseteq Methods /\ "PerformMaintenance" \notin UserJobs
  /\ Worker \in Callers /\ 0 \in Chains /\ 2 \in Chains
  /\ None \notin Methods /\ None \notin Jobs /\ None \notin Times
BY MaintenanceAssumption, JobsAssumption

-----------------------------------------------------------------------------
(***************************************************************************)
(* The queue beneath the maintenance.                                      *)
(***************************************************************************)

Triggered(j) ==
  /\ job[j].status = "Unused"
  /\ job' = [job EXCEPT ![j] = [NoJob EXCEPT !.status = "Enqueued",
                                             !.method = "PerformMaintenance"]]
  /\ UNCHANGED <<now, call, running>>
  /\ HistoryFollows

\* Every step but the trigger of the maintenance is one of the queue.
LEMMA QueueSteps ==
  ASSUME MaintenanceInv, MaintenanceNext
  PROVE  [Next]_vars \/ \E j \in Jobs : Triggered(j)
<1>1. HistoryFollows /\ MaintenanceStep
  BY DEF MaintenanceNext
<1>2. CASE Step
  BY <1>1, <1>2 DEF Next
<1>3. CASE UNCHANGED vars
  BY <1>3
<1>4. ASSUME NEW j \in Jobs, TriggerMaintenance(j) PROVE Triggered(j)
  BY <1>1, <1>4 DEF TriggerMaintenance, Triggered
<1>5. ASSUME NEW j \in Jobs, RetryDue(j) PROVE Step
  BY <1>5 DEF RetryDue, Step, SchedulerStep
<1>6. ASSUME TaskStep PROVE Step \/ UNCHANGED vars
  <2>1. ASSUME NEW j \in Jobs, Take(j) PROVE Step
    BY <2>1 DEF Take, Step, WorkerStep
  <2>2. ASSUME ScheduleShutdown PROVE Step
    <3>1. BeginCall(Worker)
      BY <2>2, Names DEF ScheduleShutdown, BeginCall
    <3> QED
      BY <3>1, Names DEF Step
  <2>3. ASSUME SchedulingStep PROVE Step
    <3>1. \A n : NextInChain(n) \in Methods
      BY Names DEF NextInChain
    <3>2. CallStep(Worker)
      BY <2>3, <3>1 DEF SchedulingStep, CallStep
    <3> QED
      BY <3>2, Names DEF Step
  <2>4. ASSUME NEW outcome \in Outcomes, End(outcome), task.pc # "none" PROVE Step
    <3>1. running \in Jobs
      BY <2>4 DEF MaintenanceInv, MaintenanceTypeOK, TypeOK
    <3> QED
      BY <2>4, <3>1 DEF End, Step, WorkerStep
  <2>5. {"success", "failure", "exception"} = Outcomes
    BY DEF Outcomes
  <2>6. ASSUME EndMaintenance PROVE Step
    BY <2>4, <2>5, <2>6 DEF EndMaintenance, MaintenanceOutcome
  <2>7. ASSUME GetMissions PROVE Step \/ UNCHANGED vars
    BY <2>4, <2>5, <2>7 DEF GetMissions, Continue
  <2>8. ASSUME VerifyMods PROVE Step
    BY <2>4, <2>5, <2>8 DEF VerifyMods
  <2>9. ASSUME ShutdownServer PROVE Step \/ UNCHANGED vars
    BY <2>4, <2>5, <2>9 DEF ShutdownServer
  <2>10. ASSUME UpdateModset PROVE Step
    BY <2>4, <2>5, <2>10 DEF UpdateModset
  <2> QED
    BY <1>6, <2>1, <2>2, <2>3, <2>6, <2>7, <2>8, <2>9, <2>10 DEF TaskStep
<1>7. ASSUME NEW c \in Callers, UserRequest(c) PROVE Step
  <2>1. BeginCall(c) \/ CallStep(c)
    BY <1>7, Names DEF UserRequest, BeginCall, CallStep
  <2> QED
    BY <2>1 DEF Step
<1>8. ASSUME ServerExits PROVE UNCHANGED vars
  BY <1>8 DEF ServerExits
<1>9. ASSUME ManagerCrash PROVE Step
  BY <1>9 DEF ManagerCrash, Step
<1> QED
  BY <1>1, <1>2, <1>3, <1>4, <1>5, <1>6, <1>7, <1>8, <1>9 DEF MaintenanceStep

LEMMA TriggerJobs ==
  ASSUME JobsInv, NEW j \in Jobs, Triggered(j)
  PROVE  JobsInv'
<1>1. job \in [Jobs -> JobRecord] /\ call \in [Callers -> CallRecord]
  BY DEF JobsInv, TypeOK
<1> DEFINE new == [NoJob EXCEPT !.status = "Enqueued", !.method = "PerformMaintenance"]
<1>2. /\ new \in JobRecord
      /\ new.status = "Enqueued" /\ new.parent = None
  BY NoJobType, Names DEF NoJob, JobRecord, Status
<1>3. job'[j] = new /\ \A k \in Jobs : k # j => job'[k] = job[k]
  BY <1>1 DEF Triggered
<1>4. job[j] = NoJob /\ UNCHANGED call
  BY DEF Triggered, JobsInv, StatusesTell
<1> HIDE DEF new
<1>5. TypeOK'
  <2>1. job' \in [Jobs -> JobRecord]
    BY <1>1, <1>2 DEF Triggered, new
  <2>2. pending' \in [Callers -> SUBSET Jobs]
    BY HistoryTypes DEF Triggered, JobsInv
  <2> QED
    BY <2>1, <2>2 DEF Triggered, JobsInv, TypeOK
<1>6. ChainsAreShort'
  <2>1. \A k \in Jobs : /\ job'[k].parent = job[k].parent
                        /\ job[k].status # "Unused" => job'[k].status # "Unused"
    BY <1>2, <1>3, <1>4 DEF NoJob
  <2> QED
    BY <1>4, <2>1, ChainsKept DEF JobsInv
<1>7. RangesAreTimes'
  BY <1>4 DEF JobsInv, RangesAreTimes
<1>8. StatusesTell'
  BY <1>2, <1>3 DEF JobsInv, StatusesTell
<1>9. ContinuationsWait' /\ NoOrphans'
  <2>1. \A k \in Jobs : /\ job[k].parent \in Jobs \cup {None}
                        /\ job[k].parent # None => job[k].parent # j
    BY <1>4, ParentsExist DEF NoJob
  <2>2. ContinuationsWait'
    BY <1>2, <1>3, <2>1, JobsAssumption DEF JobsInv, ContinuationsWait
  <2>3. NoOrphans'
    BY <1>2, <1>3, <2>1, JobsAssumption DEF JobsInv, NoOrphans, StatusesTell
  <2> QED
    BY <2>2, <2>3
<1> QED
  BY <1>5, <1>6, <1>7, <1>8, <1>9 DEF JobsInv

LEMMA TriggerPending ==
  ASSUME JobsInv, PendingSeen, NothingPendingMissed, NEW j \in Jobs, Triggered(j)
  PROVE  PendingSeen' /\ NothingPendingMissed'
<1>1. job \in [Jobs -> JobRecord] /\ UNCHANGED call
  BY DEF JobsInv, TypeOK, Triggered
<1>2. \A c \in Callers : pending'[c] \subseteq Pending(c)'
  BY DEF Triggered, HistoryFollows
<1>3. \A c \in Callers : call[c].pc # "idle" => pending'[c] \subseteq pending[c]
  BY DEF Triggered, HistoryFollows
<1>4. \A k \in Jobs : k # j => job'[k] = job[k]
  BY <1>1 DEF Triggered
<1>5. \A c \in Callers : j \notin Pending(c)
  BY DEF Triggered, Pending
<1>6. ASSUME NEW c \in Callers, call'[c].pc = "queued", NEW k \in pending'[c],
             job'[k].status = "Scheduled"
      PROVE  call'[c].at = None /\ job'[k].at \in call'[c].seen
  <2>1. k \in pending[c] /\ k \in Pending(c)
    BY <1>1, <1>3, <1>6 DEF PendingSeen
  <2>2. k \in Jobs /\ k # j
    BY <1>5, <2>1 DEF Pending
  <2> QED
    BY <1>1, <1>4, <1>6, <2>1, <2>2 DEF PendingSeen
<1>7. ASSUME NEW c \in Callers, call'[c].pc = "create" PROVE pending'[c] = {}
  BY <1>1, <1>3, <1>7 DEF NothingPendingMissed
<1> QED
  BY <1>2, <1>6, <1>7 DEF PendingSeen, NothingPendingMissed

-----------------------------------------------------------------------------
(***************************************************************************)
(* What a step may do to the jobs.                                         *)
(***************************************************************************)

\* Jobs that exist keep what they are; what is over stays over.
KeptJob(k) ==
  /\ job'[k].status # "Unused"
  /\ job'[k].method = job[k].method /\ job'[k].parent = job[k].parent
  /\ job[k].attempt > 0 => job'[k].attempt > 0
  /\ job[k].status \in {"Succeeded", "Failed"} => job'[k].status = job[k].status

Kept == \A k \in Jobs : job[k].status # "Unused" => KeptJob(k)

NoneMade == \A k \in Jobs : job[k].status = "Unused" => job'[k] = job[k]

Made(j, m, parent) ==
  /\ j \in Jobs /\ job[j].status = "Unused"
  /\ job'[j].status \in {"Enqueued", "Scheduled", "Awaiting", "Deleted"}
  /\ job'[j].method = m /\ job'[j].parent = parent /\ job'[j].attempt = 0
  /\ \A k \in Jobs : k # j => job'[k] = job[k]

LEMMA UsedJobs ==
  ASSUME JobsInv, NEW k \in Jobs
  PROVE  /\ job[k] \in JobRecord
         /\ job[k].status = "Unused" => job[k] = NoJob
         /\ job[k].method # None => job[k].status # "Unused"
         /\ job[k].attempt > 0 => job[k].status # "Unused"
         /\ job[k].parent # None => job[k].status # "Unused"
         /\ job[k].parent \in Jobs \cup {None}
         /\ job[k].parent # None => job[job[k].parent].status # "Unused"
<1>1. job[k] \in JobRecord
  BY DEF JobsInv, TypeOK
<1>2. job[k].status = "Unused" => job[k] = NoJob
  BY DEF JobsInv, StatusesTell
<1> QED
  BY <1>1, <1>2, ParentsExist DEF NoJob

LEMMA SameJobs ==
  ASSUME JobsInv, UNCHANGED job
  PROVE  Kept /\ NoneMade
<1>1. \A k \in Jobs : job[k].attempt \in Nat
  BY JobsAssumption DEF JobsInv, TypeOK, JobRecord
<1> QED
  BY <1>1 DEF Kept, KeptJob, NoneMade

LEMMA OthersKept ==
  ASSUME JobsInv, NEW k \in Jobs, job[k].status # "Unused", job'[k] = job[k]
  PROVE  KeptJob(k)
<1>1. job[k].attempt \in Nat
  BY JobsAssumption DEF JobsInv, TypeOK, JobRecord
<1> QED
  BY <1>1 DEF KeptJob

LEMMA MadeKeeps ==
  ASSUME JobsInv, NEW j, NEW m, NEW parent, Made(j, m, parent)
  PROVE  Kept
<1>1. \A k \in Jobs : job[k].attempt \in Nat
  BY JobsAssumption DEF JobsInv, TypeOK, JobRecord
<1> QED
  BY <1>1 DEF Kept, KeptJob, Made

LEMMA CreateMakes ==
  ASSUME JobsInv, NEW c \in Callers, NEW j \in Jobs, CreateJob(c, j)
  PROVE  Made(j, call[c].method, None)
<1>1. job \in [Jobs -> JobRecord]
  BY DEF JobsInv, TypeOK
<1> QED
  BY <1>1 DEF CreateJob, Made, NoJob

LEMMA ContinueMakes ==
  ASSUME JobsInv, NEW c \in Callers, NEW j \in Jobs, NEW m, ContinueJobWith(c, j, m)
  PROVE  Made(j, m, call[c].job)
<1>1. job \in [Jobs -> JobRecord]
  BY DEF JobsInv, TypeOK
<1> QED
  BY <1>1 DEF ContinueJobWith, Made, NoJob

LEMMA TriggerMakes ==
  ASSUME JobsInv, NEW j \in Jobs, TriggerMaintenance(j)
  PROVE  Made(j, "PerformMaintenance", None)
<1>1. job \in [Jobs -> JobRecord]
  BY DEF JobsInv, TypeOK
<1> QED
  BY <1>1 DEF TriggerMaintenance, Made, NoJob

LEMMA MoveKeeps ==
  ASSUME JobsInv, NEW j \in Jobs, Fetch(j) \/ EnqueueScheduled(j)
  PROVE  Kept /\ NoneMade
<1>1. job \in [Jobs -> JobRecord] /\ \A k \in Jobs : job[k].attempt \in Nat
  BY JobsAssumption DEF JobsInv, TypeOK, JobRecord
<1>2. PICK next \in {"Processing", "Enqueued"} : job' = [job EXCEPT ![j].status = next]
  BY DEF Fetch, EnqueueScheduled
<1>3. job[j].status \in {"Scheduled", "Enqueued", "Processing"}
  BY DEF Fetch, EnqueueScheduled
<1>4. job[j] \in JobRecord
  BY <1>1
<1>5. job'[j] = [job[j] EXCEPT !.status = next] /\ \A k \in Jobs : k # j => job'[k] = job[k]
  BY <1>1, <1>2
<1>6. KeptJob(j)
  BY <1>1, <1>3, <1>4, <1>5 DEF KeptJob, JobRecord
<1> QED
  BY <1>3, <1>5, <1>6, OthersKept DEF Kept, NoneMade

\* The end of the job the worker performs: it has succeeded, or it has been tried once
\* more or has failed.
LEMMA EndKeeps ==
  ASSUME JobsInv, NEW outcome \in Outcomes, running \in Jobs,
         job[running].status = "Processing", End(outcome)
  PROVE  /\ Kept /\ NoneMade /\ UNCHANGED <<now, call>> /\ running' = None
         /\ \A k \in Jobs : k # running /\ job'[k].status = "Succeeded"
                              => job[k].status = "Succeeded"
         /\ outcome = "success" => job'[running].status = "Succeeded"
         /\ outcome # "success" =>
              /\ job'[running].status # "Succeeded"
              /\ job'[running].attempt > 0 \/ job'[running].status = "Failed"
<1> DEFINE r == running
<1>1. job \in [Jobs -> JobRecord] /\ \A k \in Jobs : job[k].attempt \in Nat
  BY JobsAssumption DEF JobsInv, TypeOK, JobRecord
<1>2. job[r] \in JobRecord
  BY <1>1
<1>3. UNCHANGED <<now, call>> /\ running' = None
  BY DEF End, Perform
<1>4. CASE /\ OnStateElection(outcome) = "Succeeded"
           /\ job' = [k \in Jobs |->
                CASE k = r -> [job[r] EXCEPT !.status = "Succeeded",
                                             !.succeeded = @ \/ outcome = "success"]
                  [] k \in Continuations({r}) -> [job[k] EXCEPT !.status = "Enqueued"]
                  [] OTHER -> job[k]]
  <2>1. r \notin Continuations({r})
    BY DEF Continuations
  <2>2. job'[r] = [job[r] EXCEPT !.status = "Succeeded",
                                 !.succeeded = @ \/ outcome = "success"]
    BY <1>4, <2>1, Zenon
  <2>3. ASSUME NEW k \in Jobs, k # r
        PROVE  \/ job'[k] = job[k]
               \/ job'[k] = [job[k] EXCEPT !.status = "Enqueued"] /\ job[k].status = "Awaiting"
    BY <1>4, <2>3 DEF Continuations
  <2>4. /\ job'[r].status = "Succeeded" /\ job'[r].method = job[r].method
        /\ job'[r].parent = job[r].parent /\ job'[r].attempt = job[r].attempt
    BY <1>2, <2>2 DEF JobRecord
  <2>5. ASSUME NEW k \in Jobs, k # r, job'[k] # job[k]
        PROVE  /\ job[k].status = "Awaiting" /\ job'[k].status = "Enqueued"
               /\ KeptJob(k)
    <3>1. job'[k] = [job[k] EXCEPT !.status = "Enqueued"] /\ job[k].status = "Awaiting"
      BY <2>3, <2>5
    <3>2. job[k] \in JobRecord /\ job[k].attempt \in Nat
      BY <1>1
    <3> QED
      BY <3>1, <3>2 DEF KeptJob, JobRecord
  <2>6. outcome = "success"
    BY <1>4 DEF OnStateElection, Outcomes
  <2>7. KeptJob(r)
    BY <1>1, <2>4 DEF KeptJob
  <2>8. Kept /\ NoneMade
    BY <2>5, <2>7, OthersKept DEF Kept, NoneMade
  <2> QED
    BY <1>3, <2>4, <2>5, <2>6, <2>8
<1>5. CASE OnStateElection(outcome) = "Failed" /\ AttemptsLeft(r)
  <2>1. PICK at \in {now, now + 1} \cap Times :
          job' = [job EXCEPT ![r] = [job[r] EXCEPT !.status = "Scheduled",
                    !.at = at, !.attempt = job[r].attempt + 1]]
    BY <1>5 DEF End, Perform
  <2>2. job'[r] = [job[r] EXCEPT !.status = "Scheduled",
                    !.at = at, !.attempt = job[r].attempt + 1]
    BY <1>1, <2>1
  <2>3. /\ job'[r].status = "Scheduled" /\ job'[r].method = job[r].method
        /\ job'[r].parent = job[r].parent /\ job'[r].attempt = job[r].attempt + 1
    BY <1>2, <2>2 DEF JobRecord
  <2>4. \A k \in Jobs : k # r => job'[k] = job[k]
    BY <1>1, <2>1
  <2>5. outcome # "success"
    BY <1>5 DEF OnStateElection, Outcomes
  <2>6. KeptJob(r)
    BY <1>1, <2>3 DEF KeptJob
  <2>7. Kept /\ NoneMade
    BY <2>4, <2>6, OthersKept DEF Kept, NoneMade
  <2>8. job'[r].attempt > 0
    BY <1>1, <2>3
  <2> QED
    BY <1>3, <2>3, <2>4, <2>5, <2>7, <2>8
<1>6. CASE OnStateElection(outcome) = "Failed" /\ ~AttemptsLeft(r)
  <2>1. job' = [job EXCEPT ![r].status = "Failed"]
    BY <1>6 DEF End, Perform
  <2>2. job'[r] = [job[r] EXCEPT !.status = "Failed"] /\ \A k \in Jobs : k # r => job'[k] = job[k]
    BY <1>1, <2>1
  <2>3. /\ job'[r].status = "Failed" /\ job'[r].method = job[r].method
        /\ job'[r].parent = job[r].parent /\ job'[r].attempt = job[r].attempt
    BY <1>2, <2>2 DEF JobRecord
  <2>4. outcome # "success"
    BY <1>6 DEF OnStateElection, Outcomes
  <2>5. KeptJob(r)
    BY <1>1, <2>3 DEF KeptJob
  <2>6. Kept /\ NoneMade
    BY <2>2, <2>5, OthersKept DEF Kept, NoneMade
  <2> QED
    BY <1>3, <2>2, <2>3, <2>4, <2>6
<1> QED
  BY <1>4, <1>5, <1>6 DEF End, Perform, OnStateElection

-----------------------------------------------------------------------------
(***************************************************************************)
(* What the jobs tell, before and after.                                   *)
(***************************************************************************)

KnownMethods ==
  \A j \in Jobs : job[j].status # "Unused" =>
    job[j].method \in StartJobs \cup {"PerformMaintenance", "ShutdownServer",
                                    "PrepareForUpcomingMissions"}

LEMMA SameTold ==
  ASSUME JobsInv, Kept, NoneMade
  PROVE  /\ \A k \in Jobs : Chained(k)' <=> Chained(k)
         /\ UpdateFailed => UpdateFailed'
         /\ KnownMethods => KnownMethods'
         /\ OneMaintenance => OneMaintenance'
<1>1. \A k \in Jobs : /\ job'[k].method = job[k].method /\ job'[k].parent = job[k].parent
                      /\ job[k].status = "Unused" <=> job'[k].status = "Unused"
  BY DEF Kept, KeptJob, NoneMade
<1>2. ASSUME NEW k \in Jobs PROVE Chained(k)' <=> Chained(k)
  <2>1. job[k].parent \in Jobs \cup {None}
    BY UsedJobs
  <2>2. job[k].parent # None => job[job[k].parent].parent \in Jobs \cup {None}
    BY <2>1, UsedJobs
  <2> QED
    BY <1>1, <2>1, <2>2 DEF Chained
<1>3. ASSUME UpdateFailed PROVE UpdateFailed'
  <2>1. PICK k \in Jobs : /\ job[k].method \in StartJobs
                          /\ job[k].attempt > 0 \/ job[k].status = "Failed"
    BY <1>3 DEF UpdateFailed
  <2>2. job[k].status # "Unused"
    BY <2>1, UsedJobs
  <2>3. KeptJob(k)
    BY <2>2 DEF Kept
  <2> QED
    BY <2>1, <2>2, <2>3 DEF UpdateFailed, KeptJob, StartJobs
<1>4. ASSUME KnownMethods PROVE KnownMethods'
  BY <1>1, <1>4 DEF KnownMethods, StartJobs
<1>5. ASSUME OneMaintenance PROVE OneMaintenance'
  BY <1>1, <1>5 DEF OneMaintenance
<1> QED
  BY <1>2, <1>3, <1>4, <1>5


LEMMA MadeTold ==
  ASSUME JobsInv, NEW j, NEW m, NEW parent \in Jobs \cup {None}, Made(j, m, parent),
         parent # None => job[parent].status # "Unused"
  PROVE  /\ \A k \in Jobs : k # j => (Chained(k)' <=> Chained(k))
         /\ ~Chained(j)
         /\ Chained(j)' <=> /\ m = "StartServerForNearestMission" /\ parent # None
                           /\ job[parent].method = "PrepareForUpcomingMissions"
                           /\ job[parent].parent # None
                           /\ job[job[parent].parent].method = "ShutdownServer"
         /\ UpdateFailed => UpdateFailed'
         /\ KnownMethods /\ m \in StartJobs \cup {"PerformMaintenance", "ShutdownServer",
              "PrepareForUpcomingMissions"} => KnownMethods'
         /\ OneMaintenance /\ m # "PerformMaintenance" => OneMaintenance'
<1>1. /\ j \in Jobs /\ job[j].status = "Unused" /\ job[j] = NoJob
      /\ job'[j].method = m /\ job'[j].parent = parent /\ job'[j].attempt = 0
      /\ job'[j].status # "Unused"
      /\ \A k \in Jobs : k # j => job'[k] = job[k]
  BY UsedJobs DEF Made
<1>2. \A k \in Jobs : /\ job[k].parent \in Jobs \cup {None} /\ job[k].parent # j
                      /\ job[k].parent # None => job[job[k].parent].status # "Unused"
  BY <1>1, UsedJobs, JobsAssumption
<1>3. ASSUME NEW k \in Jobs, k # j PROVE Chained(k)' <=> Chained(k)
  BY <1>1, <1>2, <1>3, JobsAssumption DEF Chained
<1>4. job[j].method = None
  BY <1>1 DEF NoJob
<1>5. ~Chained(j)
  BY <1>4, Names DEF Chained
<1>6. Chained(j)' <=> /\ m = "StartServerForNearestMission" /\ parent # None
                     /\ job[parent].method = "PrepareForUpcomingMissions"
                     /\ job[parent].parent # None
                     /\ job[job[parent].parent].method = "ShutdownServer"
  <2>1. parent # j
    BY <1>1, JobsAssumption
  <2> QED
    BY <1>1, <1>2, <2>1, JobsAssumption DEF Chained
<1>7. ASSUME UpdateFailed PROVE UpdateFailed'
  <2>1. PICK k \in Jobs : /\ job[k].method \in StartJobs
                          /\ job[k].attempt > 0 \/ job[k].status = "Failed"
    BY <1>7 DEF UpdateFailed
  <2>2. k # j
    BY <1>1, <2>1, UsedJobs
  <2> QED
    BY <1>1, <2>1, <2>2 DEF UpdateFailed, StartJobs
<1>8. ASSUME KnownMethods, m \in StartJobs \cup {"PerformMaintenance", "ShutdownServer",
              "PrepareForUpcomingMissions"}
      PROVE  KnownMethods'
  BY <1>1, <1>8 DEF KnownMethods, StartJobs
<1>9. ASSUME OneMaintenance, m # "PerformMaintenance" PROVE OneMaintenance'
  BY <1>1, <1>9 DEF OneMaintenance
<1> QED
  BY <1>3, <1>5, <1>6, <1>7, <1>8, <1>9

-----------------------------------------------------------------------------
(***************************************************************************)
(* The conjuncts of the invariant under steps that leave their parts alone.*)
(***************************************************************************)

TaskTypes ==
  /\ task \in TaskRecord
  /\ running = None <=> task.pc = "none"
  /\ server \in {"down", "up"} /\ status \in {None, "UpdatingMods"}
  /\ crashes \in 0..MaxCrashes

MaintenanceFacts ==
  /\ TaskTypes /\ TaskFollowsJob /\ WorkerCall /\ UserCalls
  /\ SuccessLeavesChain /\ OneMaintenance /\ OneChain /\ StatusRemembered

LEMMA InvFacts ==
  MaintenanceInv <=> JobsInv /\ MaintenanceFacts
<1>1. JobsInv => TypeOK
  BY DEF JobsInv
<1>2. JobsInv => (MaintenanceTypeOK <=> TaskTypes)
  BY <1>1 DEF MaintenanceTypeOK, TaskTypes
<1> QED
  BY <1>2 DEF MaintenanceInv, MaintenanceFacts

LEMMA InvFactsNext ==
  JobsInv' /\ MaintenanceFacts' => MaintenanceInv'
<1>1. JobsInv' => TypeOK'
  BY DEF JobsInv
<1>2. JobsInv' /\ TaskTypes' => MaintenanceTypeOK'
  BY <1>1 DEF MaintenanceTypeOK, TaskTypes
<1> QED
  BY <1>2 DEF MaintenanceInv, MaintenanceFacts

\* The job the worker performs exists.
LEMMA RunningJob ==
  ASSUME MaintenanceInv, task.pc # "none"
  PROVE  /\ running \in Jobs /\ job[running].status = "Processing"
         /\ job[running].method \in StartJobs \cup {"PerformMaintenance", "ShutdownServer",
                                                    "PrepareForUpcomingMissions"}
<1>1. running \in Jobs
  BY InvFacts DEF MaintenanceFacts, TaskTypes, JobsInv, TypeOK
<1>2. job[running].status = "Processing"
  BY <1>1, JobsAssumption DEF MaintenanceInv, TaskFollowsJob
<1> QED
  BY <1>1, <1>2 DEF MaintenanceInv, TaskFollowsJob

\* No job has succeeded in this step.
NoSuccess == \A k \in Jobs : job'[k].status = "Succeeded" => job[k].status = "Succeeded"

ChainsStay == \A k \in Jobs : Chained(k) => Chained(k)'

LEMMA SuccessKept ==
  ASSUME MaintenanceInv, Kept, ChainsStay, NoSuccess
  PROVE  SuccessLeavesChain'
<1> SUFFICES ASSUME NEW j \in Jobs, job'[j].method = "PerformMaintenance",
                    job'[j].status = "Succeeded"
             PROVE  \E k \in Jobs : Chained(k)'
  BY DEF SuccessLeavesChain
<1>1. job[j].status = "Succeeded" /\ job[j].method = "PerformMaintenance"
  BY DEF Kept, KeptJob, NoSuccess
<1>2. \E k \in Jobs : Chained(k)
  BY <1>1 DEF MaintenanceInv, SuccessLeavesChain
<1> QED
  BY <1>2 DEF ChainsStay

LEMMA StatusKept ==
  ASSUME MaintenanceInv, UNCHANGED <<task, status>>, UpdateFailed => UpdateFailed'
  PROVE  StatusRemembered'
BY DEF MaintenanceInv, StatusRemembered, StaleOnlyAfterFailure

\* The worker goes on with its job while the jobs move.
LEMMA TaskKept ==
  ASSUME MaintenanceInv, Kept, UNCHANGED <<task, server, status, crashes, running>>,
         KnownMethods',
         running # None => job'[running].status = "Processing"
  PROVE  TaskTypes' /\ TaskFollowsJob'
<1>1. TaskTypes'
  BY InvFacts DEF MaintenanceFacts, TaskTypes
<1>2. TaskFollowsJob'
  <2>1. CASE task.pc = "none"
    <3>1. running = None
      BY <2>1, InvFacts DEF MaintenanceFacts, TaskTypes
    <3> QED
      BY <2>1, <3>1 DEF TaskFollowsJob, KnownMethods
  <2>2. CASE task.pc # "none"
    <3>1. job'[running].method = job[running].method
      BY <2>2, RunningJob DEF Kept, KeptJob
    <3> QED
      BY <2>2, <3>1 DEF MaintenanceInv, TaskFollowsJob, KnownMethods, Method, StartJobs
  <2> QED
    BY <2>1, <2>2
<1> QED
  BY <1>1, <1>2

\* The call of the worker goes on while the jobs move.
LEMMA WorkerKept ==
  ASSUME MaintenanceInv, Kept, ChainsStay, UNCHANGED task,
         call'[Worker] = call[Worker]
  PROVE  WorkerCall'
<1> DEFINE w == call[Worker]
<1>1. WorkerCall
  BY DEF MaintenanceInv
<1>2. ASSUME w.pc = "continue"
      PROVE  /\ job'[w.job].method = job[w.job].method
             /\ job'[w.job].parent = job[w.job].parent
             /\ job[w.job].parent # None =>
                  job'[job[w.job].parent].method = job[job[w.job].parent].method
  <2>1. w.job \in Jobs /\ job[w.job].status # "Unused"
    BY <1>2, Names DEF MaintenanceInv, JobsInv, ChainsAreShort
  <2>2. /\ job[w.job].parent \in Jobs \cup {None}
        /\ job[w.job].parent # None => job[job[w.job].parent].status # "Unused"
    BY <2>1, UsedJobs DEF MaintenanceInv
  <2> QED
    BY <2>1, <2>2 DEF Kept, KeptJob
<1>3. (\E k \in Jobs : Chained(k)) => \E k \in Jobs : Chained(k)'
  BY DEF ChainsStay
<1> QED
  BY <1>1, <1>2, <1>3 DEF WorkerCall, Asking

\* No chain has been completed in this step.
LEMMA ChainKept ==
  ASSUME MaintenanceInv, Kept, \A k \in Jobs : Chained(k)' => Chained(k),
         UNCHANGED crashes,
         task.pc = "scheduling" /\ call[Worker].pc = "idle" /\ call[Worker].answer = "success"
           => \/ /\ task'.pc = "scheduling"
                 /\ call'[Worker].pc = "idle" /\ call'[Worker].answer = "success"
              \/ \E j \in Jobs : /\ job'[j].method = "PerformMaintenance"
                                 /\ job'[j].status = "Succeeded"
  PROVE  OneChain'
<1> SUFFICES ASSUME crashes = 0 PROVE OneChain'
  BY DEF OneChain
<1>1. OneChain
  BY DEF MaintenanceInv
<1>2. \A j, k \in Jobs : Chained(j)' /\ Chained(k)' => j = k
  BY <1>1 DEF OneChain
<1>3. ASSUME NEW k \in Jobs, Chained(k)'
      PROVE  \/ /\ task'.pc = "scheduling"
                /\ call'[Worker].pc = "idle" /\ call'[Worker].answer = "success"
             \/ \E j \in Jobs : /\ job'[j].method = "PerformMaintenance"
                                /\ job'[j].status = "Succeeded"
  <2>1. CASE /\ task.pc = "scheduling"
             /\ call[Worker].pc = "idle" /\ call[Worker].answer = "success"
    BY <2>1
  <2>2. ASSUME NEW j \in Jobs, job[j].method = "PerformMaintenance",
               job[j].status = "Succeeded"
        PROVE  job'[j].method = "PerformMaintenance" /\ job'[j].status = "Succeeded"
    BY <2>2 DEF Kept, KeptJob
  <2> QED
    BY <1>1, <1>3, <2>1, <2>2 DEF OneChain
<1> QED
  BY <1>2, <1>3 DEF OneChain

-----------------------------------------------------------------------------
(***************************************************************************)
(* Steps of the queue.                                                     *)
(***************************************************************************)

\* A step that leaves the worker alone, whether it performs a job or is calling.
LEMMA OthersFacts ==
  ASSUME MaintenanceInv, UNCHANGED <<task, server, status, crashes, running>>,
         call'[Worker] = call[Worker],
         Kept, NoSuccess, \A k \in Jobs : Chained(k)' <=> Chained(k),
         UpdateFailed => UpdateFailed', KnownMethods',
         running # None => job'[running].status = "Processing"
  PROVE  /\ TaskTypes' /\ TaskFollowsJob' /\ WorkerCall'
         /\ SuccessLeavesChain' /\ OneChain' /\ StatusRemembered'
<1>1. ChainsStay
  BY DEF ChainsStay
<1>2. TaskTypes' /\ TaskFollowsJob'
  BY TaskKept
<1>3. WorkerCall'
  BY <1>1, WorkerKept
<1>4. SuccessLeavesChain'
  BY <1>1, SuccessKept
<1>5. OneChain'
  BY ChainKept
<1>6. StatusRemembered'
  BY StatusKept
<1> QED
  BY <1>2, <1>3, <1>4, <1>5, <1>6

\* A read of a request, or the failure to create its job.
LEMMA CallMoves ==
  ASSUME JobsInv, NEW c \in Callers,
         ReadScheduledJobs(c) \/ ReadQueuedJobs(c) \/ CreationFails(c)
  PROVE  /\ UNCHANGED <<now, job, running>>
         /\ call[c].pc # "idle"
         /\ \A d \in Callers : d # c => call'[d] = call[d]
         /\ \/ call'[c] = Answered("failure")
            \/ /\ Asking(c) /\ call'[c].pc \in {"queued", "create"}
               /\ call'[c].method = call[c].method /\ call'[c].at = call[c].at
               /\ call'[c].chain = call[c].chain
<1>1. call \in [Callers -> CallRecord] /\ call[c] \in CallRecord
  BY DEF JobsInv, TypeOK
<1>2. UNCHANGED <<now, job, running>> /\ call[c].pc # "idle"
  BY DEF ReadScheduledJobs, ReadQueuedJobs, CreationFails
<1>3. ReadScheduledJobs(c) \/ ReadQueuedJobs(c) => Asking(c)
  BY DEF ReadScheduledJobs, ReadQueuedJobs, Asking
<1>4. CASE Answer(c, "failure")
  BY <1>1, <1>2, <1>4 DEF Answer
<1>5. ASSUME NEW seen, call' = [call EXCEPT ![c] = [@ EXCEPT !.pc = "queued", !.seen = seen]],
             Asking(c)
      PROVE  /\ \A d \in Callers : d # c => call'[d] = call[d]
             /\ call'[c].pc = "queued"
             /\ call'[c].method = call[c].method /\ call'[c].at = call[c].at
             /\ call'[c].chain = call[c].chain
  BY <1>1, <1>5 DEF CallRecord
<1>6. ASSUME NEW pc \in {"queued", "create"}, call' = [call EXCEPT ![c].pc = pc], Asking(c)
      PROVE  /\ \A d \in Callers : d # c => call'[d] = call[d]
             /\ call'[c].pc = pc
             /\ call'[c].method = call[c].method /\ call'[c].at = call[c].at
             /\ call'[c].chain = call[c].chain
  BY <1>1, <1>6 DEF CallRecord
<1>7. CASE ReadScheduledJobs(c)
  <2>1. PICK page \in Pages(WithStatus("Scheduled")) :
          LET at == call[c].at
              seen == SimilarTimes(page, call[c].method)
          IN \/ call' = [call EXCEPT ![c] = [@ EXCEPT !.pc = "queued", !.seen = seen]]
             \/ Answer(c, "failure")
             \/ call' = [call EXCEPT ![c].pc =
                           IF IsCloseTo(at + call[c].shift, LocalNow) THEN "queued" ELSE "create"]
    BY <1>7 DEF ReadScheduledJobs
  <2> QED
    BY <1>2, <1>3, <1>4, <1>5, <1>6, <1>7, <2>1
<1>8. CASE ReadQueuedJobs(c)
  <2>1. Answer(c, "failure") \/ call' = [call EXCEPT ![c].pc = "create"]
    BY <1>8 DEF ReadQueuedJobs
  <2> QED
    BY <1>2, <1>3, <1>4, <1>6, <1>8, <2>1
<1>9. CASE CreationFails(c)
  BY <1>4, <1>9 DEF CreationFails
<1> QED
  BY <1>7, <1>8, <1>9

LEMMA TriggerFacts ==
  ASSUME MaintenanceInv, NEW j \in Jobs, TriggerMaintenance(j)
  PROVE  MaintenanceFacts'
<1>1. UNCHANGED <<task, server, status, crashes, running, call>>
  BY DEF TriggerMaintenance
<1>2. JobsInv /\ KnownMethods /\ OneMaintenance /\ UserCalls
  BY DEF MaintenanceInv, TaskFollowsJob, KnownMethods
<1>3. Made(j, "PerformMaintenance", None)
  BY <1>2, TriggerMakes
<1>4. Kept
  BY <1>2, <1>3, MadeKeeps
<1>5. /\ \A k \in Jobs : Chained(k)' <=> Chained(k)
      /\ UpdateFailed => UpdateFailed'
      /\ KnownMethods'
  BY <1>2, <1>3, MadeTold
<1>6. ChainsStay /\ NoSuccess
  BY <1>3, <1>5 DEF ChainsStay, NoSuccess, Made
<1>7. running # None => job'[running].status = "Processing"
  BY <1>3 DEF Made, MaintenanceInv, TaskFollowsJob, JobsInv, TypeOK
<1>8. OneMaintenance'
  BY <1>3 DEF TriggerMaintenance, OneMaintenance, Made
<1>9. UserCalls'
  BY <1>1, <1>2 DEF UserCalls, Asking
<1>10. /\ TaskTypes' /\ TaskFollowsJob' /\ WorkerCall'
      /\ SuccessLeavesChain' /\ OneChain' /\ StatusRemembered'
  BY <1>1, <1>4, <1>5, <1>6, <1>7, <1>8, <1>9, OthersFacts
<1> QED
  BY <1>8, <1>9, <1>10 DEF MaintenanceFacts

LEMMA RetryFacts ==
  ASSUME MaintenanceInv, NEW j \in Jobs, RetryDue(j)
  PROVE  MaintenanceFacts'
<1>1. UNCHANGED <<task, server, status, crashes, running, call>> /\ EnqueueScheduled(j)
  BY DEF RetryDue, EnqueueScheduled
<1>2. JobsInv /\ KnownMethods /\ OneMaintenance /\ UserCalls
  BY DEF MaintenanceInv, TaskFollowsJob, KnownMethods
<1>3. Kept /\ NoneMade
  BY <1>1, <1>2, MoveKeeps
<1>4. /\ \A k \in Jobs : Chained(k)' <=> Chained(k)
      /\ UpdateFailed => UpdateFailed'
      /\ KnownMethods' /\ OneMaintenance'
  BY <1>2, <1>3, SameTold
<1>5. /\ job[j].status = "Scheduled" /\ job'[j].status = "Enqueued"
      /\ \A k \in Jobs : k # j => job'[k] = job[k]
  BY <1>1, <1>2 DEF EnqueueScheduled, JobsInv, TypeOK, JobRecord
<1>6. ChainsStay /\ NoSuccess
  BY <1>4, <1>5 DEF ChainsStay, NoSuccess
<1>7. running # None => job'[running].status = "Processing"
  BY <1>5 DEF MaintenanceInv, TaskFollowsJob, JobsInv, TypeOK
<1>8. UserCalls'
  BY <1>1, <1>2 DEF UserCalls, Asking
<1>9. /\ TaskTypes' /\ TaskFollowsJob' /\ WorkerCall'
      /\ SuccessLeavesChain' /\ OneChain' /\ StatusRemembered'
  BY <1>1, <1>3, <1>4, <1>6, <1>7, <1>8, OthersFacts
<1> QED
  BY <1>4, <1>8, <1>9 DEF MaintenanceFacts

\* A request for a start or a shutdown.
LEMMA UserFacts ==
  ASSUME MaintenanceInv, NEW c \in Callers, UserRequest(c)
  PROVE  MaintenanceFacts'
<1>1. UNCHANGED <<task, server, status, crashes, running>> /\ c # Worker
  BY DEF UserRequest, ScheduleJob, ReadScheduledJobs, ReadQueuedJobs, CreateJob
<1>2. JobsInv /\ KnownMethods /\ OneMaintenance /\ UserCalls
  BY DEF MaintenanceInv, TaskFollowsJob, KnownMethods
<1>3. call \in [Callers -> CallRecord]
  BY <1>2 DEF JobsInv, TypeOK
<1>4. \A d \in Callers : d # c => call'[d] = call[d]
  BY <1>3 DEF UserRequest, ScheduleJob, ReadScheduledJobs, ReadQueuedJobs, CreateJob,
     Created, Answer
<1>5. \/ UNCHANGED job
      \/ \E j \in Jobs : CreateJob(c, j) /\ Made(j, call[c].method, None)
  BY <1>2, CreateMakes DEF UserRequest, ScheduleJob, ReadScheduledJobs, ReadQueuedJobs
<1>6. /\ Kept /\ NoSuccess
      /\ \A k \in Jobs : Chained(k)' <=> Chained(k)
      /\ UpdateFailed => UpdateFailed'
      /\ KnownMethods' /\ OneMaintenance'
      /\ running # None => job'[running].status = "Processing"
  <2>1. running # None => running \in Jobs /\ job[running].status = "Processing"
    BY DEF MaintenanceInv, TaskFollowsJob, JobsInv, TypeOK
  <2>2. CASE UNCHANGED job
    BY <1>2, <2>1, <2>2, SameJobs, SameTold DEF NoSuccess
  <2>3. ASSUME NEW j \in Jobs, CreateJob(c, j), Made(j, call[c].method, None)
        PROVE  /\ Kept /\ NoSuccess
               /\ \A k \in Jobs : Chained(k)' <=> Chained(k)
               /\ UpdateFailed => UpdateFailed'
               /\ KnownMethods' /\ OneMaintenance'
               /\ running # None => job'[running].status = "Processing"
    <3>1. call[c].method \in UserJobs
      BY <1>1, <1>2, <2>3 DEF UserCalls, Asking, CreateJob
    <3>2. /\ call[c].method \in StartJobs \cup {"ShutdownServer"}
          /\ call[c].method # "PerformMaintenance"
      BY <3>1, Names DEF StartJobs
    <3>3. Kept /\ NoSuccess
      BY <1>2, <2>3, MadeKeeps DEF Made, NoSuccess
    <3>4. /\ \A k \in Jobs : Chained(k)' <=> Chained(k)
          /\ UpdateFailed => UpdateFailed'
          /\ KnownMethods' /\ OneMaintenance'
      BY <1>2, <2>3, <3>2, MadeTold
    <3>5. running # None => job'[running].status = "Processing"
      BY <2>1, <2>3 DEF Made
    <3> QED
      BY <3>3, <3>4, <3>5
  <2> QED
    BY <1>5, <2>2, <2>3
<1>7. ChainsStay
  BY <1>6 DEF ChainsStay
<1>8. call'[Worker] = call[Worker]
  BY <1>1, <1>4, Names
<1>9. UserCalls'
  <2>1. ASSUME call'[c].pc \in {"scheduled", "queued", "create"}
        PROVE  call'[c].method \in UserJobs
    <3>1. ASSUME NEW m \in UserJobs, ScheduleJob(c, m, None, 0, 0)
          PROVE  call'[c].method \in UserJobs
      BY <1>3, <3>1 DEF ScheduleJob, Answered
    <3>2. ASSUME ReadScheduledJobs(c) \/ ReadQueuedJobs(c)
          PROVE  call'[c].method = call[c].method
      BY <1>2, <2>1, <3>2, CallMoves DEF Answered
    <3>3. ASSUME NEW j \in Jobs, CreateJob(c, j) PROVE FALSE
      <4>1. call' = [call EXCEPT ![c] = Answered("success")]
              \/ call' = [call EXCEPT ![c] = [@ EXCEPT !.pc = "continue", !.job = j]]
        BY <3>3 DEF CreateJob, Created, Answer
      <4>2. call[c] \in CallRecord
        BY <1>3
      <4>3. CASE call'[c] = Answered("success")
        BY <2>1, <4>3 DEF Answered
      <4>4. CASE call'[c] = [call[c] EXCEPT !.pc = "continue", !.job = j]
        <5>1. call'[c].pc = "continue"
          BY <4>2, <4>4 DEF CallRecord
        <5> QED
          BY <2>1, <5>1
      <4> QED
        BY <1>3, <4>1, <4>3, <4>4
    <3>4. ASSUME ReadScheduledJobs(c) \/ ReadQueuedJobs(c) PROVE call[c].method \in UserJobs
      BY <1>1, <1>2, <3>4 DEF ReadScheduledJobs, ReadQueuedJobs, UserCalls, Asking
    <3> QED
      BY <3>1, <3>2, <3>3, <3>4 DEF UserRequest
  <2> QED
    BY <1>2, <1>4, <2>1 DEF UserCalls, Asking
<1>10. /\ TaskTypes' /\ TaskFollowsJob' /\ WorkerCall'
      /\ SuccessLeavesChain' /\ OneChain' /\ StatusRemembered'
  BY <1>1, <1>6, <1>7, <1>8, <1>9, OthersFacts
<1> QED
  BY <1>6, <1>9, <1>10 DEF MaintenanceFacts

-----------------------------------------------------------------------------
(***************************************************************************)
(* The worker that puts the chain together.                                *)
(***************************************************************************)

LEMMA BeginFacts ==
  ASSUME MaintenanceInv, ScheduleShutdown
  PROVE  MaintenanceFacts'
<1>1. /\ JobsInv /\ KnownMethods /\ OneMaintenance /\ UserCalls
      /\ call \in [Callers -> CallRecord] /\ Worker \in Callers
  BY Names DEF MaintenanceInv, TaskFollowsJob, KnownMethods, JobsInv, TypeOK
<1>2. /\ UNCHANGED <<job, running, server, status, crashes>>
      /\ task.pc = "schedule" /\ task' = [task EXCEPT !.pc = "scheduling"]
      /\ call' = [call EXCEPT ![Worker] = [Answered("none") EXCEPT
                    !.pc = "scheduled", !.method = "ShutdownServer", !.at = None,
                    !.shift = 0, !.chain = 2]]
  BY DEF ScheduleShutdown, ScheduleJob
<1>3. Kept /\ NoneMade
  BY <1>1, <1>2, SameJobs
<1>4. /\ \A k \in Jobs : Chained(k)' <=> Chained(k)
      /\ UpdateFailed => UpdateFailed'
      /\ KnownMethods' /\ OneMaintenance'
  BY <1>1, <1>3, SameTold
<1>5. task \in TaskRecord /\ TaskTypes
  BY InvFacts DEF MaintenanceFacts, TaskTypes
<1>6. /\ task'.pc = "scheduling" /\ task'.previous = task.previous
      /\ task' \in TaskRecord
  BY <1>2, <1>5 DEF TaskRecord
<1>7. /\ call'[Worker].pc = "scheduled" /\ call'[Worker].method = "ShutdownServer"
      /\ call'[Worker].at = None /\ call'[Worker].chain = 2
      /\ \A c \in Callers : c # Worker => call'[c] = call[c]
  BY <1>1, <1>2 DEF Answered
<1>8. TaskTypes'
  BY <1>2, <1>5, <1>6 DEF TaskTypes
<1>9. TaskFollowsJob'
  BY <1>2, <1>4, <1>6 DEF MaintenanceInv, TaskFollowsJob, KnownMethods, Method, StartJobs
<1>10. WorkerCall'
  BY <1>6, <1>7 DEF WorkerCall, Asking
<1>11. UserCalls'
  BY <1>1, <1>7 DEF UserCalls, Asking
<1>12. ChainsStay /\ NoSuccess
  BY <1>2, <1>4 DEF ChainsStay, NoSuccess
<1>13. SuccessLeavesChain'
  BY <1>3, <1>12, SuccessKept
<1>14. OneChain'
  BY <1>2, <1>3, <1>4, ChainKept
<1>15. StatusRemembered'
  BY <1>2, <1>4, <1>6 DEF MaintenanceInv, StatusRemembered, StaleOnlyAfterFailure
<1> QED
  BY <1>4, <1>8, <1>9, <1>10, <1>11, <1>13, <1>14, <1>15 DEF MaintenanceFacts

LEMMA WorkerReadsFacts ==
  ASSUME MaintenanceInv, SchedulingStep,
         ReadScheduledJobs(Worker) \/ ReadQueuedJobs(Worker) \/ CreationFails(Worker)
  PROVE  MaintenanceFacts'
<1>1. /\ JobsInv /\ KnownMethods /\ OneMaintenance /\ UserCalls /\ WorkerCall
      /\ Worker \in Callers
  BY Names DEF MaintenanceInv, TaskFollowsJob, KnownMethods
<1>2. /\ UNCHANGED <<now, job, running>> /\ call[Worker].pc # "idle"
      /\ \A d \in Callers : d # Worker => call'[d] = call[d]
      /\ \/ call'[Worker] = Answered("failure")
         \/ /\ Asking(Worker) /\ call'[Worker].pc \in {"queued", "create"}
            /\ call'[Worker].method = call[Worker].method
            /\ call'[Worker].at = call[Worker].at
            /\ call'[Worker].chain = call[Worker].chain
  BY <1>1, CallMoves
<1>3. UNCHANGED <<task, server, status, crashes>> /\ task.pc = "scheduling"
  BY DEF SchedulingStep
<1>4. Kept /\ NoneMade
  BY <1>1, <1>2, SameJobs
<1>5. /\ \A k \in Jobs : Chained(k)' <=> Chained(k)
      /\ UpdateFailed => UpdateFailed'
      /\ KnownMethods' /\ OneMaintenance'
  BY <1>1, <1>4, SameTold
<1>6. TaskTypes' /\ TaskFollowsJob'
  BY <1>2, <1>3, <1>4, <1>5, TaskKept DEF MaintenanceInv, TaskFollowsJob
<1>7. WorkerCall'
  <2>1. CASE call'[Worker] = Answered("failure")
    BY <2>1 DEF WorkerCall, Asking, Answered
  <2>2. CASE /\ Asking(Worker) /\ call'[Worker].pc \in {"queued", "create"}
             /\ call'[Worker].method = call[Worker].method
             /\ call'[Worker].at = call[Worker].at
             /\ call'[Worker].chain = call[Worker].chain
    BY <1>1, <1>3, <2>2 DEF WorkerCall, Asking
  <2> QED
    BY <1>2, <2>1, <2>2
<1>8. UserCalls'
  BY <1>1, <1>2 DEF UserCalls, Asking
<1>9. ChainsStay /\ NoSuccess
  BY <1>2, <1>5 DEF ChainsStay, NoSuccess
<1>10. SuccessLeavesChain'
  BY <1>4, <1>9, SuccessKept
<1>11. OneChain'
  BY <1>2, <1>3, <1>4, <1>5, ChainKept
<1>12. StatusRemembered'
  BY <1>3, <1>5, StatusKept
<1> QED
  BY <1>5, <1>6, <1>7, <1>8, <1>10, <1>11, <1>12 DEF MaintenanceFacts

\* The first job of the chain: the shutdown.
LEMMA WorkerCreatesFacts ==
  ASSUME MaintenanceInv, SchedulingStep, NEW j \in Jobs, CreateJob(Worker, j)
  PROVE  MaintenanceFacts'
<1>1. /\ JobsInv /\ KnownMethods /\ OneMaintenance /\ UserCalls /\ WorkerCall
      /\ Worker \in Callers /\ call \in [Callers -> CallRecord]
      /\ job \in [Jobs -> JobRecord]
  BY Names DEF MaintenanceInv, TaskFollowsJob, KnownMethods, JobsInv, TypeOK
<1>2. UNCHANGED <<task, server, status, crashes, running>> /\ task.pc = "scheduling"
  BY DEF SchedulingStep, CreateJob
<1>3. /\ call[Worker].pc = "create" /\ call[Worker].chain = 2
      /\ call[Worker].method = "ShutdownServer"
  BY <1>1 DEF CreateJob, WorkerCall, Asking
<1>4. Made(j, "ShutdownServer", None)
  BY <1>1, <1>3, CreateMakes
<1>5. /\ \A k \in Jobs : Chained(k)' <=> Chained(k)
      /\ UpdateFailed => UpdateFailed'
      /\ KnownMethods' /\ OneMaintenance'
  BY <1>1, <1>4, MadeTold
<1>6. Kept /\ NoSuccess /\ ChainsStay
  BY <1>1, <1>4, <1>5, MadeKeeps DEF NoSuccess, Made, ChainsStay
<1>7. TaskTypes' /\ TaskFollowsJob'
  <2>1. running # None => job'[running].status = "Processing"
    BY <1>1, <1>4 DEF Made, MaintenanceInv, TaskFollowsJob, JobsInv, TypeOK
  <2> QED
    BY <1>2, <1>5, <1>6, <2>1, TaskKept
<1>8. /\ call'[Worker].pc = "continue" /\ call'[Worker].chain = 2 /\ call'[Worker].job = j
      /\ \A d \in Callers : d # Worker => call'[d] = call[d]
  <2>1. call' = [call EXCEPT ![Worker] = [@ EXCEPT !.pc = "continue", !.job = j]]
    BY <1>3 DEF CreateJob, Created
  <2>2. call[Worker] \in CallRecord
    BY <1>1
  <2>3. call'[Worker] = [call[Worker] EXCEPT !.pc = "continue", !.job = j]
    BY <1>1, <2>1
  <2> QED
    BY <1>1, <1>3, <2>1, <2>2, <2>3 DEF CallRecord
<1>9. WorkerCall'
  BY <1>2, <1>4, <1>8 DEF WorkerCall, Asking, Made
<1>10. UserCalls'
  BY <1>1, <1>8 DEF UserCalls, Asking
<1>11. SuccessLeavesChain'
  BY <1>6, SuccessKept
<1>12. OneChain'
  BY <1>2, <1>3, <1>5, <1>6, ChainKept
<1>13. StatusRemembered'
  BY <1>2, <1>5, StatusKept
<1> QED
  BY <1>5, <1>7, <1>9, <1>10, <1>11, <1>12, <1>13 DEF MaintenanceFacts

\* The preparation, which continues the shutdown, and the start, which completes the
\* chain.
LEMMA WorkerContinuesFacts ==
  ASSUME MaintenanceInv, SchedulingStep, NEW j \in Jobs,
         ContinueJobWith(Worker, j, NextInChain(call[Worker].chain))
  PROVE  MaintenanceFacts'
<1> DEFINE w == call[Worker]
           m == NextInChain(w.chain)
<1>1. /\ JobsInv /\ KnownMethods /\ OneMaintenance /\ UserCalls /\ WorkerCall /\ OneChain
      /\ Worker \in Callers /\ call \in [Callers -> CallRecord]
      /\ job \in [Jobs -> JobRecord]
  BY Names DEF MaintenanceInv, TaskFollowsJob, KnownMethods, JobsInv, TypeOK
<1>2. UNCHANGED <<task, server, status, crashes, running>> /\ task.pc = "scheduling"
  BY DEF SchedulingStep, ContinueJobWith
<1>3. /\ w.pc = "continue" /\ w.job \in Jobs /\ job[w.job].status # "Unused"
      /\ w.chain \in {1, 2}
  BY <1>1 DEF ContinueJobWith, JobsInv, ChainsAreShort
<1>4. Made(j, m, w.job)
  BY <1>1, ContinueMakes
<1>5. m \in {"PrepareForUpcomingMissions", "StartServerForNearestMission"}
  BY DEF NextInChain
<1>6. /\ \A k \in Jobs : k # j => (Chained(k)' <=> Chained(k))
      /\ ~Chained(j)
      /\ Chained(j)' <=> /\ m = "StartServerForNearestMission" /\ w.job # None
                         /\ job[w.job].method = "PrepareForUpcomingMissions"
                         /\ job[w.job].parent # None
                         /\ job[job[w.job].parent].method = "ShutdownServer"
      /\ UpdateFailed => UpdateFailed'
      /\ KnownMethods' /\ OneMaintenance'
  <2>1. /\ m \in StartJobs \cup {"PerformMaintenance", "ShutdownServer",
                                 "PrepareForUpcomingMissions"}
        /\ m # "PerformMaintenance"
    BY <1>5 DEF StartJobs
  <2> HIDE DEF m
  <2> QED
    BY <1>1, <1>3, <1>4, <2>1, MadeTold
<1>7. Kept /\ NoSuccess /\ ChainsStay
  BY <1>1, <1>4, <1>6, MadeKeeps DEF NoSuccess, Made, ChainsStay
<1>8. TaskTypes' /\ TaskFollowsJob'
  <2>1. running # None => job'[running].status = "Processing"
    BY <1>1, <1>4 DEF Made, MaintenanceInv, TaskFollowsJob, JobsInv, TypeOK
  <2> QED
    BY <1>2, <1>6, <1>7, <2>1, TaskKept
<1>9. /\ \A d \in Callers : d # Worker => call'[d] = call[d]
      /\ w.chain = 1 => call'[Worker] = Answered("success")
      /\ w.chain = 2 => /\ call'[Worker].pc = "continue" /\ call'[Worker].chain = 1
                        /\ call'[Worker].job = j
  <2>1. call' = [call EXCEPT ![Worker] = IF w.chain = 1 THEN Answered("success")
                                         ELSE [w EXCEPT !.chain = w.chain - 1, !.job = j]]
    BY DEF ContinueJobWith
  <2>2. w \in CallRecord
    BY <1>1
  <2> QED
    BY <1>1, <1>3, <2>1, <2>2 DEF CallRecord
<1>10. UserCalls'
  BY <1>1, <1>9 DEF UserCalls, Asking
<1>11. SuccessLeavesChain'
  BY <1>7, SuccessKept
<1>12. StatusRemembered'
  BY <1>2, <1>6, StatusKept
<1>13. CASE w.chain = 2
  <2>1. m = "PrepareForUpcomingMissions" /\ job[w.job].method = "ShutdownServer"
    BY <1>1, <1>3, <1>13 DEF WorkerCall, NextInChain
  <2>2. \A k \in Jobs : Chained(k)' <=> Chained(k)
    BY <1>6, <2>1
  <2>3. WorkerCall'
    <3>1. w.job # j /\ w.job # None
      BY <1>3, <1>4, JobsAssumption DEF Made
    <3>2. /\ job'[j].method = "PrepareForUpcomingMissions" /\ job'[j].parent = w.job
          /\ job'[w.job] = job[w.job]
      BY <1>3, <1>4, <2>1, <3>1 DEF Made
    <3> QED
      BY <1>2, <1>9, <1>13, <2>1, <3>1, <3>2 DEF WorkerCall, Asking
  <2>4. OneChain'
    BY <1>2, <1>3, <1>7, <2>2, ChainKept
  <2> QED
    BY <1>6, <1>8, <1>10, <1>11, <1>12, <2>3, <2>4 DEF MaintenanceFacts
<1>14. CASE w.chain = 1
  <2>1. /\ m = "StartServerForNearestMission" /\ w.job # None
        /\ job[w.job].method = "PrepareForUpcomingMissions"
        /\ job[w.job].parent # None
        /\ job[job[w.job].parent].method = "ShutdownServer"
    BY <1>1, <1>3, <1>14, JobsAssumption DEF WorkerCall, NextInChain
  <2>2. Chained(j)'
    BY <1>6, <2>1
  <2>3. call'[Worker].pc = "idle" /\ call'[Worker].answer = "success"
    BY <1>9, <1>14 DEF Answered
  <2>4. WorkerCall'
    BY <2>2, <2>3 DEF WorkerCall, Asking
  <2>5. OneChain'
    <3> SUFFICES ASSUME crashes = 0 PROVE OneChain'
      BY <1>2 DEF OneChain
    <3>1. \A k \in Jobs : ~Chained(k)
      <4>1. running \in Jobs /\ job[running].status = "Processing"
        BY <1>2, RunningJob
      <4>2. job[running].method = "PerformMaintenance"
        BY <1>2 DEF MaintenanceInv, TaskFollowsJob, Method
      <4>3. ~\E k \in Jobs : job[k].method = "PerformMaintenance" /\ job[k].status = "Succeeded"
        BY <1>1, <4>1, <4>2 DEF OneMaintenance
      <4> QED
        BY <1>1, <1>3, <4>3 DEF OneChain
    <3>2. \A k \in Jobs : Chained(k)' => k = j
      BY <1>6, <3>1
    <3> QED
      BY <1>2, <2>3, <3>2 DEF OneChain
  <2> QED
    BY <1>6, <1>8, <1>10, <1>11, <1>12, <2>4, <2>5 DEF MaintenanceFacts
<1> QED
  BY <1>3, <1>13, <1>14

-----------------------------------------------------------------------------
(***************************************************************************)
(* The worker that performs a job.                                         *)
(***************************************************************************)

LEMMA TakeFacts ==
  ASSUME MaintenanceInv, NEW j \in Jobs, Take(j)
  PROVE  MaintenanceFacts'
<1>1. /\ JobsInv /\ KnownMethods /\ OneMaintenance /\ UserCalls /\ WorkerCall
      /\ TaskTypes /\ job \in [Jobs -> JobRecord]
  BY InvFacts DEF MaintenanceFacts, TaskFollowsJob, KnownMethods, JobsInv, TypeOK
<1>2. /\ Fetch(j) /\ UNCHANGED <<server, status, crashes, call>>
      /\ running = None /\ running' = j
      /\ task' = [NoTask EXCEPT !.pc = FirstStep(job[j].method)]
  BY DEF Take, Fetch
<1>3. Kept /\ NoneMade
  BY <1>1, <1>2, MoveKeeps
<1>4. /\ \A k \in Jobs : Chained(k)' <=> Chained(k)
      /\ UpdateFailed => UpdateFailed'
      /\ KnownMethods' /\ OneMaintenance'
  BY <1>1, <1>3, SameTold
<1>5. /\ job[j].status \in {"Enqueued", "Processing"} /\ job'[j].status = "Processing"
      /\ job'[j].method = job[j].method
      /\ \A k \in Jobs : k # j => job'[k] = job[k]
  BY <1>1, <1>2 DEF Fetch, JobRecord
<1>6. task.pc = "none"
  BY <1>1, <1>2 DEF TaskTypes
<1>7. /\ task'.pc = FirstStep(job[j].method) /\ task'.previous = None
      /\ task'.pc \in {"schedule", "shutdown", "missions"}
      /\ task' \in TaskRecord
  <2>1. FirstStep(job[j].method) \in {"schedule", "shutdown", "missions"}
    BY DEF FirstStep
  <2> QED
    BY <1>2, <2>1 DEF NoTask, TaskRecord
<1>8. TaskTypes'
  BY <1>1, <1>2, <1>7, JobsAssumption DEF TaskTypes
<1>9. TaskFollowsJob'
  <2>1. /\ task'.pc = "schedule" => job[j].method = "PerformMaintenance"
        /\ task'.pc = "shutdown" => job[j].method = "ShutdownServer"
        /\ task'.pc = "missions" => job[j].method \notin {"PerformMaintenance", "ShutdownServer"}
    BY <1>7 DEF FirstStep
  <2> QED
    BY <1>2, <1>4, <1>5, <1>7, <2>1 DEF TaskFollowsJob, KnownMethods, Method, StartJobs
<1>10. WorkerCall'
  <2>1. call[Worker].pc = "idle"
    BY <1>1, <1>6 DEF WorkerCall
  <2> QED
    BY <1>2, <1>7, <2>1 DEF WorkerCall, Asking
<1>11. UserCalls'
  BY <1>1, <1>2 DEF UserCalls, Asking
<1>12. ChainsStay /\ NoSuccess
  BY <1>4, <1>5 DEF ChainsStay, NoSuccess
<1>13. SuccessLeavesChain'
  BY <1>3, <1>12, SuccessKept
<1>14. OneChain'
  BY <1>2, <1>3, <1>4, <1>6, ChainKept
<1>15. StatusRemembered'
  BY <1>2, <1>4, <1>6, <1>7 DEF MaintenanceInv, StatusRemembered, StaleOnlyAfterFailure
<1> QED
  BY <1>4, <1>8, <1>9, <1>10, <1>11, <1>13, <1>14, <1>15 DEF MaintenanceFacts

\* The end of a job, whichever it is; what it leaves of the chain and of the status is
\* left to the steps.
LEMMA EndFacts ==
  ASSUME MaintenanceInv, NEW outcome \in Outcomes, task.pc # "none", End(outcome),
         server' \in {"down", "up"}, status' \in {None, "UpdatingMods"}, UNCHANGED crashes,
         task.pc = "scheduling" => call[Worker].pc = "idle"
  PROVE  /\ Kept /\ task' = NoTask
         /\ \A k \in Jobs : Chained(k)' <=> Chained(k)
         /\ UpdateFailed => UpdateFailed'
         /\ OneMaintenance'
         /\ TaskTypes' /\ TaskFollowsJob' /\ WorkerCall' /\ UserCalls'
         /\ \A k \in Jobs : k # running /\ job'[k].status = "Succeeded"
                              => job[k].status = "Succeeded"
         /\ outcome = "success" => job'[running].status = "Succeeded"
         /\ outcome # "success" =>
              /\ job'[running].status # "Succeeded"
              /\ job'[running].attempt > 0 \/ job'[running].status = "Failed"
<1>1. /\ JobsInv /\ KnownMethods /\ OneMaintenance /\ UserCalls /\ WorkerCall
      /\ TaskTypes
  BY InvFacts DEF MaintenanceFacts, TaskFollowsJob, KnownMethods
<1>2. running \in Jobs /\ job[running].status = "Processing"
  BY RunningJob
<1>3. /\ Kept /\ NoneMade /\ UNCHANGED <<now, call>> /\ running' = None
      /\ \A k \in Jobs : k # running /\ job'[k].status = "Succeeded"
                           => job[k].status = "Succeeded"
      /\ outcome = "success" => job'[running].status = "Succeeded"
      /\ outcome # "success" =>
           /\ job'[running].status # "Succeeded"
           /\ job'[running].attempt > 0 \/ job'[running].status = "Failed"
  BY <1>1, <1>2, EndKeeps
<1>4. /\ \A k \in Jobs : Chained(k)' <=> Chained(k)
      /\ UpdateFailed => UpdateFailed'
      /\ KnownMethods' /\ OneMaintenance'
  BY <1>1, <1>3, SameTold
<1>5. /\ task' = NoTask /\ NoTask \in TaskRecord /\ NoTask.pc = "none"
  BY DEF End, NoTask, TaskRecord
<1>6. TaskTypes'
  BY <1>1, <1>3, <1>5 DEF TaskTypes
<1>7. TaskFollowsJob'
  BY <1>3, <1>4, <1>5 DEF TaskFollowsJob, KnownMethods
<1>8. WorkerCall'
  <2>1. call[Worker].pc = "idle"
    BY <1>1 DEF WorkerCall
  <2> QED
    BY <1>3, <1>5, <2>1 DEF WorkerCall, Asking
<1>9. UserCalls'
  BY <1>1, <1>3 DEF UserCalls, Asking
<1> QED
  BY <1>3, <1>4, <1>5, <1>6, <1>7, <1>8, <1>9

\* The end of a job other than the maintenance says nothing of the chain.
LEMMA OtherEndChains ==
  ASSUME MaintenanceInv, NEW outcome \in Outcomes, task.pc # "none", End(outcome),
         server' \in {"down", "up"}, status' \in {None, "UpdatingMods"}, UNCHANGED crashes,
         task.pc \notin {"schedule", "scheduling"}, Method # "PerformMaintenance"
  PROVE  SuccessLeavesChain' /\ OneChain'
<1>1. /\ Kept /\ \A k \in Jobs : Chained(k)' <=> Chained(k)
      /\ \A k \in Jobs : k # running /\ job'[k].status = "Succeeded"
                           => job[k].status = "Succeeded"
  BY EndFacts
<1>2. OneChain'
  BY <1>1, ChainKept
<1>3. SuccessLeavesChain'
  <2> SUFFICES ASSUME NEW j \in Jobs, job'[j].method = "PerformMaintenance",
                      job'[j].status = "Succeeded"
               PROVE  \E k \in Jobs : Chained(k)'
    BY DEF SuccessLeavesChain
  <2>1. running \in Jobs /\ job[running].status = "Processing"
    BY RunningJob
  <2>2. j # running
    BY <1>1, <2>1 DEF Kept, KeptJob, Method
  <2>3. job[j].status = "Succeeded" /\ job[j].method = "PerformMaintenance"
    BY <1>1, <2>2 DEF Kept, KeptJob
  <2> QED
    BY <1>1, <2>3 DEF MaintenanceInv, SuccessLeavesChain
<1> QED
  BY <1>2, <1>3

LEMMA EndMaintenanceFacts ==
  ASSUME MaintenanceInv, EndMaintenance
  PROVE  MaintenanceFacts'
<1> DEFINE answer == call[Worker].answer
           outcome == MaintenanceOutcome(answer)
<1>1. /\ task.pc = "scheduling" /\ call[Worker].pc = "idle" /\ End(outcome)
      /\ UNCHANGED <<server, status, crashes>>
  BY DEF EndMaintenance
<1>2. /\ outcome \in Outcomes
      /\ outcome = "success" <=> answer = "success"
  BY DEF MaintenanceOutcome, Outcomes
<1>3. TaskTypes /\ WorkerCall /\ OneMaintenance /\ OneChain
  BY InvFacts DEF MaintenanceFacts
<1> HIDE DEF outcome
<1>4. /\ Kept /\ task' = NoTask
      /\ \A k \in Jobs : Chained(k)' <=> Chained(k)
      /\ UpdateFailed => UpdateFailed'
      /\ OneMaintenance'
      /\ TaskTypes' /\ TaskFollowsJob' /\ WorkerCall' /\ UserCalls'
      /\ \A k \in Jobs : k # running /\ job'[k].status = "Succeeded"
                           => job[k].status = "Succeeded"
      /\ outcome = "success" => job'[running].status = "Succeeded"
      /\ outcome # "success" => job'[running].status # "Succeeded"
  BY <1>1, <1>2, <1>3, EndFacts DEF TaskTypes
<1>5. /\ running \in Jobs /\ job[running].status = "Processing"
      /\ job[running].method = "PerformMaintenance"
  BY <1>1, RunningJob DEF MaintenanceInv, TaskFollowsJob, Method
<1>6. job'[running].method = "PerformMaintenance"
  BY <1>4, <1>5 DEF Kept, KeptJob
<1>7. SuccessLeavesChain'
  <2>1. CASE answer = "success"
    BY <1>1, <1>3, <1>4, <2>1 DEF WorkerCall, SuccessLeavesChain
  <2>2. CASE answer # "success"
    <3>1. NoSuccess /\ ChainsStay
      BY <1>2, <1>4, <2>2 DEF NoSuccess, ChainsStay
    <3> QED
      BY <1>4, <3>1, SuccessKept
  <2> QED
    BY <2>1, <2>2
<1>8. OneChain'
  BY <1>1, <1>2, <1>4, <1>5, <1>6, ChainKept
<1>9. StatusRemembered'
  BY <1>1, <1>4 DEF MaintenanceInv, StatusRemembered, StaleOnlyAfterFailure, NoTask
<1> QED
  BY <1>4, <1>7, <1>8, <1>9 DEF MaintenanceFacts

\* A step of the worker inside a job: neither the jobs nor the calls move.
LEMMA InsideFacts ==
  ASSUME MaintenanceInv, UNCHANGED <<vars, crashes>>,
         task.pc \notin {"none", "schedule", "scheduling"},
         task'.pc \in {"verify", "shutdown", "update"}, task' \in TaskRecord,
         server' \in {"down", "up"}, status' \in {None, "UpdatingMods"},
         task'.pc = "verify" => Method = "PrepareForUpcomingMissions",
         task'.pc = "shutdown" => Method \notin {"PerformMaintenance",
                                                 "PrepareForUpcomingMissions"},
         task'.pc = "update" => Method \in StartJobs,
         StatusRemembered'
  PROVE  MaintenanceFacts'
<1>1. /\ JobsInv /\ KnownMethods /\ OneMaintenance /\ UserCalls /\ WorkerCall
      /\ TaskTypes /\ TaskFollowsJob
  BY InvFacts DEF MaintenanceFacts, TaskFollowsJob, KnownMethods
<1>2. UNCHANGED <<job, call, running>>
  BY DEF vars
<1>3. Kept /\ NoneMade
  BY <1>1, <1>2, SameJobs
<1>4. /\ \A k \in Jobs : Chained(k)' <=> Chained(k)
      /\ KnownMethods' /\ OneMaintenance'
  BY <1>1, <1>3, SameTold
<1>5. TaskTypes'
  BY <1>1, <1>2 DEF TaskTypes
<1>6. TaskFollowsJob'
  BY <1>1, <1>2, <1>4 DEF TaskFollowsJob, KnownMethods, Method, StartJobs
<1>7. WorkerCall'
  <2>1. call[Worker].pc = "idle"
    BY <1>1 DEF WorkerCall
  <2> QED
    BY <1>2, <2>1 DEF WorkerCall, Asking
<1>8. UserCalls'
  BY <1>1, <1>2 DEF UserCalls, Asking
<1>9. NoSuccess /\ ChainsStay
  BY <1>2, <1>4 DEF NoSuccess, ChainsStay
<1>10. SuccessLeavesChain'
  BY <1>3, <1>9, SuccessKept
<1>11. OneChain'
  BY <1>3, <1>4, ChainKept
<1> QED
  BY <1>4, <1>5, <1>6, <1>7, <1>8, <1>10, <1>11 DEF MaintenanceFacts

\* The end of a job other than the maintenance, for whatever status it leaves.
LEMMA OtherEndFacts ==
  ASSUME MaintenanceInv, NEW outcome \in Outcomes, task.pc # "none", End(outcome),
         server' \in {"down", "up"}, status' \in {None, "UpdatingMods"}, UNCHANGED crashes,
         task.pc \notin {"schedule", "scheduling"}, Method # "PerformMaintenance",
         status' # None => UpdateFailed'
  PROVE  MaintenanceFacts'
<1>1. SuccessLeavesChain' /\ OneChain'
  BY OtherEndChains
<1>2. /\ task' = NoTask /\ OneMaintenance'
      /\ TaskTypes' /\ TaskFollowsJob' /\ WorkerCall' /\ UserCalls'
  BY EndFacts
<1>3. StatusRemembered'
  BY <1>2 DEF StatusRemembered, StaleOnlyAfterFailure, NoTask
<1> QED
  BY <1>1, <1>2, <1>3 DEF MaintenanceFacts

LEMMA GetMissionsFacts ==
  ASSUME MaintenanceInv, GetMissions
  PROVE  MaintenanceFacts'
<1>1. /\ task.pc = "missions" /\ UNCHANGED <<server, status, crashes>>
      /\ TaskTypes /\ StatusRemembered
      /\ Method \notin {"PerformMaintenance", "ShutdownServer"}
  BY InvFacts DEF MaintenanceFacts, TaskFollowsJob, GetMissions
<1>2. status # None => UpdateFailed
  BY <1>1 DEF StatusRemembered, StaleOnlyAfterFailure
<1>3. ASSUME NEW outcome \in {"failure", "success"}, End(outcome) PROVE MaintenanceFacts'
  <2>1. outcome \in Outcomes
    BY DEF Outcomes
  <2>2. UpdateFailed => UpdateFailed'
    BY <1>1, <1>3, <2>1, EndFacts DEF TaskTypes
  <2> QED
    BY <1>1, <1>2, <1>3, <2>1, <2>2, OtherEndFacts DEF TaskTypes
<1>4. ASSUME Continue(IF Method = "PrepareForUpcomingMissions" THEN "verify" ELSE "shutdown")
      PROVE  MaintenanceFacts'
  <2>1. PICK pc \in {"verify", "shutdown"} :
          /\ task' = [task EXCEPT !.pc = pc]
          /\ pc = "verify" => Method = "PrepareForUpcomingMissions"
          /\ pc = "shutdown" => Method # "PrepareForUpcomingMissions"
    BY <1>4 DEF Continue
  <2>2. /\ task'.pc = pc /\ task'.previous = task.previous /\ task' \in TaskRecord
        /\ UNCHANGED vars
    BY <1>1, <1>4, <2>1 DEF TaskTypes, TaskRecord, Continue
  <2>3. UpdateFailed => UpdateFailed'
    BY <2>2 DEF vars, UpdateFailed, StartJobs
  <2>4. StatusRemembered'
    BY <1>1, <1>2, <2>2, <2>3 DEF StatusRemembered, StaleOnlyAfterFailure
  <2>5. server' \in {"down", "up"} /\ status' \in {None, "UpdatingMods"}
    BY <1>1 DEF TaskTypes
  <2>6. task'.pc \in {"verify", "shutdown", "update"}
    BY <2>2
  <2>7. task'.pc # "update" /\ UNCHANGED <<vars, crashes>>
    BY <1>1, <2>2
  <2> QED
    BY <1>1, <2>1, <2>2, <2>4, <2>5, <2>6, <2>7, InsideFacts
<1> QED
  BY <1>3, <1>4 DEF GetMissions

LEMMA VerifyModsFacts ==
  ASSUME MaintenanceInv, VerifyMods
  PROVE  MaintenanceFacts'
<1>1. /\ task.pc = "verify" /\ UNCHANGED <<server, status, crashes>>
      /\ TaskTypes /\ StatusRemembered
      /\ Method # "PerformMaintenance"
  BY InvFacts DEF MaintenanceFacts, TaskFollowsJob, VerifyMods
<1>2. status # None => UpdateFailed
  BY <1>1 DEF StatusRemembered, StaleOnlyAfterFailure
<1>3. PICK outcome \in Outcomes : End(outcome)
  BY DEF VerifyMods, Outcomes
<1>4. UpdateFailed => UpdateFailed'
  BY <1>1, <1>3, EndFacts DEF TaskTypes
<1> QED
  BY <1>1, <1>2, <1>3, <1>4, OtherEndFacts DEF TaskTypes

\* The status that a start replaces was stale already, if it was one.
LEMMA ShutdownServerFacts ==
  ASSUME MaintenanceInv, ShutdownServer
  PROVE  MaintenanceFacts'
<1>1. /\ task.pc = "shutdown" /\ UNCHANGED crashes
      /\ TaskTypes /\ StatusRemembered
      /\ Method \notin {"PerformMaintenance", "PrepareForUpcomingMissions"}
  BY InvFacts DEF MaintenanceFacts, TaskFollowsJob, ShutdownServer
<1>2. status # None => UpdateFailed
  BY <1>1 DEF StatusRemembered, StaleOnlyAfterFailure
<1>3. ASSUME NEW outcome \in {"failure", "exception", "success"}, End(outcome),
             server' \in {"down", "up"}, UNCHANGED status
      PROVE  MaintenanceFacts'
  <2>1. outcome \in Outcomes
    BY DEF Outcomes
  <2>2. UpdateFailed => UpdateFailed'
    BY <1>1, <1>3, <2>1, EndFacts DEF TaskTypes
  <2> QED
    BY <1>1, <1>2, <1>3, <2>1, <2>2, OtherEndFacts DEF TaskTypes
<1>4. ASSUME server' = "down", Method # "ShutdownServer", status' = "UpdatingMods",
             task' = [pc |-> "update", previous |-> status], UNCHANGED vars
      PROVE  MaintenanceFacts'
  <2>1. task'.pc = "update" /\ task'.previous = status /\ task' \in TaskRecord
    BY <1>1, <1>4 DEF TaskTypes, TaskRecord
  <2>2. UpdateFailed => UpdateFailed'
    BY <1>4 DEF vars, UpdateFailed, StartJobs
  <2>3. StatusRemembered'
    BY <1>2, <2>1, <2>2 DEF StatusRemembered, StaleOnlyAfterFailure
  <2>4. Method \in StartJobs
    BY <1>1, <1>4, RunningJob DEF Method
  <2>5. UNCHANGED <<vars, crashes>>
    BY <1>1, <1>4
  <2>6. server' \in {"down", "up"} /\ status' \in {None, "UpdatingMods"}
    BY <1>4
  <2> QED
    BY <1>1, <2>1, <2>3, <2>4, <2>5, <2>6, InsideFacts
<1>5. UNCHANGED server => server' \in {"down", "up"}
  BY <1>1 DEF TaskTypes
<1> QED
  BY <1>3, <1>4, <1>5 DEF ShutdownServer

\* An update that fails leaves a failed attempt of its job behind, one that succeeds
\* restores the status.
LEMMA UpdateModsetFacts ==
  ASSUME MaintenanceInv, UpdateModset
  PROVE  MaintenanceFacts'
<1>1. /\ task.pc = "update" /\ UNCHANGED crashes
      /\ TaskTypes /\ StatusRemembered /\ Method \in StartJobs
  BY InvFacts DEF MaintenanceFacts, TaskFollowsJob, UpdateModset
<1>2. Method # "PerformMaintenance"
  BY <1>1, Names DEF StartJobs
<1>3. ASSUME NEW outcome \in {"failure", "exception"}, End(outcome),
             UNCHANGED <<server, status>>
      PROVE  MaintenanceFacts'
  <2>1. outcome \in Outcomes /\ outcome # "success"
    BY DEF Outcomes
  <2>2. Kept /\ (job'[running].attempt > 0 \/ job'[running].status = "Failed")
    BY <1>1, <1>3, <2>1, EndFacts DEF TaskTypes
  <2>3. running \in Jobs /\ job[running].status = "Processing"
    BY <1>1, RunningJob
  <2>4. job'[running].method \in StartJobs
    BY <1>1, <2>2, <2>3 DEF Kept, KeptJob, Method
  <2>5. UpdateFailed'
    BY <2>2, <2>3, <2>4 DEF UpdateFailed, StartJobs
  <2> QED
    BY <1>1, <1>2, <1>3, <2>1, <2>5, OtherEndFacts DEF TaskTypes
<1>4. ASSUME NEW outcome \in {"failure", "success"}, End(outcome),
             server' \in {"down", "up"}, Dispose
      PROVE  MaintenanceFacts'
  <2>1. outcome \in Outcomes
    BY DEF Outcomes
  <2>2. status' = task.previous /\ status' \in {None, "UpdatingMods"}
    BY <1>1, <1>4 DEF Dispose, TaskTypes, TaskRecord
  <2>3. UpdateFailed => UpdateFailed'
    BY <1>1, <1>4, <2>1, <2>2, EndFacts
  <2>4. status' # None => UpdateFailed'
    BY <1>1, <2>2, <2>3 DEF StatusRemembered
  <2> QED
    BY <1>1, <1>2, <1>4, <2>1, <2>2, <2>4, OtherEndFacts
<1> QED
  BY <1>3, <1>4 DEF UpdateModset

-----------------------------------------------------------------------------
(***************************************************************************)
(* Everything else.                                                        *)
(***************************************************************************)

LEMMA ServerExitsFacts ==
  ASSUME MaintenanceInv, ServerExits
  PROVE  MaintenanceFacts'
<1>1. MaintenanceFacts /\ server' = "down" /\ UNCHANGED <<vars, task, status, crashes>>
  BY InvFacts DEF ServerExits
<1>2. \A k \in Jobs : Chained(k)' <=> Chained(k)
  BY <1>1 DEF vars, Chained
<1>3. TaskTypes'
  BY <1>1 DEF vars, MaintenanceFacts, TaskTypes
<1>4. TaskFollowsJob' /\ WorkerCall' /\ UserCalls'
  BY <1>1, <1>2 DEF vars, MaintenanceFacts, TaskFollowsJob, WorkerCall, UserCalls, Asking,
     Method, StartJobs
<1>5. SuccessLeavesChain' /\ OneMaintenance' /\ OneChain'
  BY <1>1, <1>2 DEF vars, MaintenanceFacts, SuccessLeavesChain, OneMaintenance, OneChain
<1>6. UpdateFailed' <=> UpdateFailed
  BY <1>1 DEF vars, UpdateFailed, StartJobs
<1>7. StatusRemembered'
  BY <1>1, <1>6 DEF MaintenanceFacts, StatusRemembered, StaleOnlyAfterFailure
<1> QED
  BY <1>3, <1>4, <1>5, <1>7 DEF MaintenanceFacts

\* Jobs outlive the manager, the status and what the worker was doing do not.
LEMMA CrashFacts ==
  ASSUME MaintenanceInv, ManagerCrash
  PROVE  MaintenanceFacts'
<1>1. /\ crashes < MaxCrashes /\ crashes' = crashes + 1
      /\ UNCHANGED <<job, server>> /\ task' = NoTask /\ status' = None
      /\ running' = None /\ call' = [c \in Callers |-> Answered("none")]
  BY DEF ManagerCrash, Crash
<1>2. /\ JobsInv /\ KnownMethods /\ OneMaintenance /\ TaskTypes
  BY InvFacts DEF MaintenanceFacts, TaskFollowsJob, KnownMethods
<1>3. Kept /\ NoneMade
  BY <1>1, <1>2, SameJobs
<1>4. /\ \A k \in Jobs : Chained(k)' <=> Chained(k)
      /\ KnownMethods' /\ OneMaintenance'
  BY <1>2, <1>3, SameTold
<1>5. crashes \in Nat /\ crashes' \in 0..MaxCrashes /\ crashes' # 0
  BY <1>1, <1>2, MaintenanceAssumption DEF TaskTypes
<1>6. TaskTypes'
  BY <1>1, <1>2, <1>5 DEF TaskTypes, NoTask, TaskRecord
<1>7. TaskFollowsJob'
  BY <1>1, <1>4 DEF TaskFollowsJob, KnownMethods, NoTask
<1>8. WorkerCall' /\ UserCalls'
  <2>1. \A c \in Callers : call'[c].pc = "idle" /\ call'[c].answer = "none"
    BY <1>1 DEF Answered
  <2> QED
    BY <2>1, Names DEF WorkerCall, UserCalls, Asking
<1>9. NoSuccess /\ ChainsStay
  BY <1>1, <1>4 DEF NoSuccess, ChainsStay
<1>10. SuccessLeavesChain'
  BY <1>3, <1>9, SuccessKept
<1>11. OneChain'
  BY <1>5 DEF OneChain
<1>12. StatusRemembered'
  BY <1>1 DEF StatusRemembered, StaleOnlyAfterFailure, NoTask
<1> QED
  BY <1>4, <1>6, <1>7, <1>8, <1>10, <1>11, <1>12 DEF MaintenanceFacts

LEMMA MaintenanceInitFacts == MaintenanceInit => MaintenanceInv
<1> SUFFICES ASSUME MaintenanceInit PROVE MaintenanceInv
  OBVIOUS
<1>1. /\ JobsInv /\ task = NoTask /\ server = "down" /\ status = None /\ crashes = 0
      /\ job = [j \in Jobs |-> NoJob] /\ running = None
      /\ call = [c \in Callers |-> Answered("none")]
  BY JobsInit DEF MaintenanceInit, Init
<1>2. /\ \A j \in Jobs : job[j].status = "Unused" /\ job[j].method = None
      /\ \A c \in Callers : call[c].pc = "idle" /\ call[c].answer = "none"
  BY <1>1 DEF NoJob, Answered
<1>3. TaskTypes
  BY <1>1, MaintenanceAssumption DEF TaskTypes, NoTask, TaskRecord
<1>4. TaskFollowsJob /\ WorkerCall /\ UserCalls
  BY <1>1, <1>2, Names DEF TaskFollowsJob, WorkerCall, UserCalls, Asking, NoTask
<1>5. SuccessLeavesChain /\ OneMaintenance
  BY <1>2, Names DEF SuccessLeavesChain, OneMaintenance
<1>6. OneChain
  BY <1>2, Names DEF OneChain, Chained
<1>7. StatusRemembered
  BY <1>1 DEF StatusRemembered, StaleOnlyAfterFailure, NoTask
<1> QED
  BY <1>1, <1>3, <1>4, <1>5, <1>6, <1>7, InvFacts DEF MaintenanceFacts

LEMMA MaintenanceSteps ==
  MaintenanceInv /\ [MaintenanceNext]_maintenanceVars => MaintenanceInv'
<1> SUFFICES ASSUME MaintenanceInv, [MaintenanceNext]_maintenanceVars
             PROVE  MaintenanceInv'
  OBVIOUS
<1>1. CASE UNCHANGED maintenanceVars
  <2>1. UNCHANGED <<vars, task, server, status, crashes>>
    BY <1>1 DEF maintenanceVars
  <2>2. JobsInv'
    BY <2>1, JobsStep DEF MaintenanceInv
  <2>3. MaintenanceFacts
    BY InvFacts
  <2>4. \A k \in Jobs : Chained(k)' <=> Chained(k)
    BY <2>1 DEF vars, Chained
  <2>5. TaskTypes'
    BY <2>1, <2>3 DEF vars, MaintenanceFacts, TaskTypes
  <2>6. TaskFollowsJob' /\ WorkerCall' /\ UserCalls'
    BY <2>1, <2>3, <2>4 DEF vars, MaintenanceFacts, TaskFollowsJob, WorkerCall, UserCalls,
       Asking, Method, StartJobs
  <2>7. SuccessLeavesChain' /\ OneMaintenance' /\ OneChain'
    BY <2>1, <2>3, <2>4 DEF vars, MaintenanceFacts, SuccessLeavesChain, OneMaintenance,
       OneChain
  <2>8. UpdateFailed' <=> UpdateFailed
    BY <2>1 DEF vars, UpdateFailed, StartJobs
  <2>9. StatusRemembered'
    BY <2>1, <2>3, <2>8 DEF MaintenanceFacts, StatusRemembered, StaleOnlyAfterFailure
  <2>10. MaintenanceFacts'
    BY <2>5, <2>6, <2>7, <2>9 DEF MaintenanceFacts
  <2>11. (JobsInv /\ MaintenanceFacts)' => MaintenanceInv'
    BY InvFactsNext
  <2> QED
    BY <2>2, <2>10, <2>11
<1>2. CASE MaintenanceNext
  <2>1. JobsInv'
    <3>1. JobsInv
      BY DEF MaintenanceInv
    <3> QED
      BY <1>2, <3>1, QueueSteps, JobsStep, TriggerJobs
  <2>2. MaintenanceStep
    BY <1>2 DEF MaintenanceNext
  <2>3. ASSUME TaskStep PROVE MaintenanceFacts'
    <3>1. ASSUME SchedulingStep PROVE MaintenanceFacts'
      BY <3>1, WorkerReadsFacts, WorkerCreatesFacts, WorkerContinuesFacts
         DEF SchedulingStep
    <3> QED
      BY <2>3, <3>1, TakeFacts, BeginFacts, EndMaintenanceFacts, GetMissionsFacts,
         VerifyModsFacts, ShutdownServerFacts, UpdateModsetFacts DEF TaskStep
  <2>4. MaintenanceFacts'
    BY <2>2, <2>3, TriggerFacts, RetryFacts, UserFacts, ServerExitsFacts, CrashFacts
       DEF MaintenanceStep
  <2> QED
    BY <2>1, <2>4, InvFactsNext
<1> QED
  BY <1>1, <1>2

-----------------------------------------------------------------------------
(***************************************************************************)
(* Theorems.                                                               *)
(***************************************************************************)

LEMMA MaintenanceSafety ==
  MaintenanceSpec => MaintenanceInit /\ [][MaintenanceNext]_maintenanceVars
BY PTL DEF MaintenanceSpec

\* The inductive invariant of the maintenance: where the worker is, how far it is with
\* the chain, and what jobs and status tell of it.
THEOREM MaintenanceInvariant == MaintenanceSpec => []MaintenanceInv
<1> QED
  BY MaintenanceInitFacts, MaintenanceSteps, MaintenanceSafety, PTL

\* Every variable of the maintenance has its type, and the worker has a job exactly
\* while it is somewhere in one.
THEOREM MaintenanceTypeCorrect == MaintenanceSpec => []MaintenanceTypeOK
<1>1. MaintenanceInv => MaintenanceTypeOK
  BY DEF MaintenanceInv
<1> QED
  BY <1>1, MaintenanceInvariant, PTL

\* MaintenanceService.PerformMaintenance: when it has succeeded, a shutdown, the
\* preparation that continues it and the start that continues that have been created,
\* whatever was refused, retried or lost in a crash before.
THEOREM SuccessAlwaysLeavesChain == MaintenanceSpec => []SuccessLeavesChain
<1>1. MaintenanceInv => SuccessLeavesChain
  BY DEF MaintenanceInv
<1> QED
  BY <1>1, MaintenanceInvariant, PTL

\* One maintenance completes a second chain only after a stop of the manager: neither a
\* refusal nor a retry doubles the restart of the server.
THEOREM OnlyCrashesDouble == MaintenanceSpec => []DoubledOnlyByCrash
<1>1. MaintenanceInv => DoubledOnlyByCrash
  <2> SUFFICES ASSUME MaintenanceInv, ~(crashes > 0)
               PROVE  ~(Cardinality({k \in Jobs : Chained(k)}) > 1)
    BY DEF DoubledOnlyByCrash
  <2>1. crashes = 0
    BY MaintenanceAssumption DEF MaintenanceInv, MaintenanceTypeOK
  <2>2. \A j, k \in Jobs : Chained(j) /\ Chained(k) => j = k
    BY <2>1 DEF MaintenanceInv, OneChain
  <2> DEFINE chained == {k \in Jobs : Chained(k)}
  <2>3. CASE chained = {}
    BY <2>3, FS_EmptySet
  <2>4. CASE chained # {}
    <3>1. PICK k \in Jobs : chained = {k}
      BY <2>2, <2>4
    <3> HIDE DEF chained
    <3>2. Cardinality(chained) = 1
      BY <3>1, FS_Singleton
    <3> QED
      BY <3>2 DEF chained
  <2> QED
    BY <2>3, <2>4
<1> QED
  BY <1>1, MaintenanceInvariant, PTL

\* AppStatusStore: "Mods are updating." outlives the update only when the update of some
\* start has failed.
THEOREM OnlyFailuresLeaveStatus == MaintenanceSpec => []StaleOnlyAfterFailure
<1>1. MaintenanceInv => StaleOnlyAfterFailure
  BY DEF MaintenanceInv, StatusRemembered
<1> QED
  BY <1>1, MaintenanceInvariant, PTL

\* The maintenance asks for its shutdown as any request does: while local time is UTC and a
\* page shows all jobs there are, neither its reads nor those of a request miss a similar
\* job that was pending all the while.
THEOREM MaintenanceMissesNothing ==
  ASSUME Offset = 0, IsFiniteSet(Jobs), Cardinality(Jobs) <= PerPage
  PROVE  MaintenanceSpec => []NothingPendingMissed
<1>1. MaintenanceInit => PendingSeen /\ NothingPendingMissed
  BY DEF MaintenanceInit, Init, PendingSeen, NothingPendingMissed, Answered
<1>2. ASSUME MaintenanceInv, PendingSeen, NothingPendingMissed,
             [MaintenanceNext]_maintenanceVars
      PROVE  PendingSeen' /\ NothingPendingMissed'
  <2>1. JobsInv
    BY <1>2 DEF MaintenanceInv
  <2>2. CASE UNCHANGED vars
    BY <1>2, <2>2 DEF vars, PendingSeen, NothingPendingMissed, Pending, JobMatchesMethod,
                      IsCloseTo
  <2>3. CASE Next
    BY <1>2, <2>1, <2>3, PendingStep
  <2>4. ASSUME NEW j \in Jobs, Triggered(j) PROVE PendingSeen' /\ NothingPendingMissed'
    BY <1>2, <2>1, <2>4, TriggerPending
  <2>5. UNCHANGED maintenanceVars => UNCHANGED vars
    BY DEF maintenanceVars
  <2> QED
    BY <1>2, <2>2, <2>3, <2>4, <2>5, QueueSteps
<1>3. MaintenanceInv /\ PendingSeen /\ NothingPendingMissed
        /\ [MaintenanceNext]_maintenanceVars => PendingSeen' /\ NothingPendingMissed'
  BY <1>2
<1> QED
  BY <1>1, <1>3, MaintenanceInvariant, MaintenanceSafety, PTL
=============================================================================
