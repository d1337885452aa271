------------------------------ MODULE JobsQueue ------------------------------
(***************************************************************************)
(* The jobs of the manager: how a request puts a job, and the jobs that    *)
(* continue it, into Hangfire (JobsScheduler, JobsRepository,              *)
(* HangfireBackgroundJobClientWrapper), what an operator may do to a job   *)
(* (JobsService), and what Hangfire's scheduler and its single worker make *)
(* of it together with FailOnResultFailureAttribute.  Jobs are persistent, *)
(* calls are not.                                                          *)
(*                                                                         *)
(* A request reads the scheduled jobs, then the queued jobs, then creates  *)
(* its own: other requests, Hangfire and the operator act in between.      *)
(***************************************************************************)
EXTENDS Integers, FiniteSets

CONSTANTS
  Callers,      \* requests that may be served at the same time
  Jobs,         \* job ids, a bound on the jobs ever created
  Methods,      \* methods jobs call
  Similar,      \* <<m, n>>: the name of m occurs in an expression calling n
  Chains,       \* numbers of continuations a request may add
  MaxTime,      \* the last minute of the day
  Offset,       \* by how much local time is ahead of UTC
  Precision,    \* _defaultPrecision
  PerPage,      \* how many jobs GetSimilar...Jobs looks at (50)
  MaxAttempts,  \* retries of a failed job (Hangfire's default is 10)
  Operator,     \* does anybody delete and requeue jobs?
  MayCrash,     \* may the manager stop and start again?
  None          \* no time, no job and no method

Times == 0..MaxTime

ASSUME JobsAssumption ==
  /\ None \notin Jobs \cup Times /\ None \notin Methods
  /\ Similar \subseteq Methods \X Methods
  /\ Chains \subseteq 0..2 /\ MaxTime \in Nat /\ Precision \in Nat /\ Offset \in Int
  /\ PerPage \in Nat /\ MaxAttempts \in Nat
  /\ {Operator, MayCrash} \subseteq BOOLEAN

VARIABLES
  now,      \* the time in UTC
  job,      \* the Hangfire job table
  call,     \* JobsScheduler.ScheduleJob, ContinueJobWith or DeleteJobs in progress
  running,  \* the job the worker performs
  pending   \* history: similar jobs pending ever since the call began

vars == <<now, job, call, running, pending>>

Status == {"Unused", "Scheduled", "Awaiting", "Enqueued", "Processing",
           "Succeeded", "Failed", "Deleted"}

\* succeeded: some performance of the job returned a successful Result.
\* requeued: the operator put it into the queue.
JobRecord == [status : Status, method : Methods \cup {None},
              at : Times \cup {None}, parent : Jobs \cup {None},
              attempt : 0..MaxAttempts, succeeded : BOOLEAN, requeued : BOOLEAN]

NoJob == [status |-> "Unused", method |-> None, at |-> None, parent |-> None,
          attempt |-> 0, succeeded |-> FALSE, requeued |-> FALSE]

\* at is the time asked for, shift by how much the request that names it is ahead of UTC.
CallRecord == [pc : {"idle", "scheduled", "queued", "create", "continue", "delete"},
               method : Methods \cup {None}, at : Times \cup {None}, shift : {0, Offset},
               chain : 0..2, seen : SUBSET Times, job : Jobs \cup {None},
               answer : {"none", "success", "failure"}]

Answered(answer) == [pc |-> "idle", method |-> None, at |-> None, shift |-> 0, chain |-> 0,
                     seen |-> {}, job |-> None, answer |-> answer]

-----------------------------------------------------------------------------

\* DateTime.Now is local time.
LocalNow == now + Offset

\* time.IsCloseTo(reference, _defaultPrecision): a DateTime is compared as it is
\* written, whether it is in UTC (as Hangfire's EnqueueAt always is) or local time.
IsCloseTo(time, reference) ==
  reference - Precision < time /\ reference + Precision > time

JobMatchesMethod(j, m) == <<job[j].method, m>> \in Similar

WithStatus(status) == {j \in Jobs : job[j].status = status}

\* The monitoring API returns one page of the jobs in a state.
Pages(js) == IF Cardinality(js) <= PerPage
               THEN {js} ELSE {page \in SUBSET js : Cardinality(page) = PerPage}

Answer(c, answer) == call' = [call EXCEPT ![c] = Answered(answer)]

-----------------------------------------------------------------------------
(***************************************************************************)
(* JobsScheduler.                                                          *)
(***************************************************************************)

\* ScheduleJob without a time (None) enqueues immediately, a time is in UTC or local;
\* the callers add their continuations afterwards.
ScheduleJob(c, m, at, shift, chain) ==
  /\ call[c].pc = "idle"
  /\ at = None => shift = 0
  /\ call' = [call EXCEPT ![c] = [Answered("none") EXCEPT
                !.pc = "scheduled", !.method = m, !.at = at, !.shift = shift, !.chain = chain]]
  /\ UNCHANGED <<now, job, running>>

\* EnqueueAt of the similar jobs of a page.
SimilarTimes(page, m) == {job[j].at : j \in {i \in page : JobMatchesMethod(i, m)}}

\* EnqueueImmediately judges the times only after its second read, ScheduleAt
\* at once; it makes the second read only for a time close to now.
ReadScheduledJobs(c) ==
  LET at == call[c].at
      written == at + call[c].shift
  IN /\ call[c].pc = "scheduled"
     /\ \E page \in Pages(WithStatus("Scheduled")) :
          LET seen == SimilarTimes(page, call[c].method)
              taken == at # None /\ \E t \in seen : IsCloseTo(t, written)
          IN \/ /\ at = None
                /\ call' = [call EXCEPT ![c] = [@ EXCEPT !.pc = "queued", !.seen = seen]]
             \/ /\ taken
                /\ Answer(c, "failure")
             \/ /\ at # None /\ ~taken
                /\ call' = [call EXCEPT ![c].pc =
                              IF IsCloseTo(written, LocalNow) THEN "queued" ELSE "create"]
     /\ UNCHANGED <<now, job, running>>

\* Mutant of ReadQueuedJobs: the scheduled jobs found before are forgotten.
ReadOnlyQueuedJobs(c) ==
  /\ call[c].pc = "queued"
  /\ \E page \in Pages(WithStatus("Enqueued")) :
       IF \E j \in page : JobMatchesMethod(j, call[c].method)
         THEN Answer(c, "failure")
         ELSE call' = [call EXCEPT ![c].pc = "create"]
  /\ UNCHANGED <<now, job, running>>

ReadQueuedJobs(c) ==
  /\ call[c].pc = "queued"
  /\ \E page \in Pages(WithStatus("Enqueued")) :
       IF \/ \E t \in call[c].seen : IsCloseTo(t, LocalNow)
          \/ \E j \in page : JobMatchesMethod(j, call[c].method)
         THEN Answer(c, "failure")
         ELSE call' = [call EXCEPT ![c].pc = "create"]
  /\ UNCHANGED <<now, job, running>>

\* The id of the new job goes back to the caller, who adds a continuation or
\* reports success; no id is a failure of the whole request.
Created(c, j) ==
  IF call[c].chain = 0
    THEN Answer(c, "success")
    ELSE call' = [call EXCEPT ![c] = [@ EXCEPT !.pc = "continue", !.job = j]]

CreateJob(c, j) ==
  /\ call[c].pc = "create" /\ job[j].status = "Unused"
  /\ job' = [job EXCEPT ![j] = [NoJob EXCEPT
       !.status = IF call[c].at = None THEN "Enqueued" ELSE "Scheduled",
       !.method = call[c].method, !.at = call[c].at]]
  /\ Created(c, j)
  /\ UNCHANGED <<now, running>>

CreationFails(c) ==
  /\ call[c].pc \in {"create", "continue"}
  /\ Answer(c, "failure")
  /\ UNCHANGED <<now, job, running>>

\* Mutant of ContinueJobWith: a parent that has ended is waited for as well.
ContinueBlindly(c, j, m) ==
  /\ call[c].pc = "continue" /\ job[j].status = "Unused"
  /\ job' = [job EXCEPT ![j] = [NoJob EXCEPT
       !.status = "Awaiting", !.method = m, !.parent = call[c].job]]
  /\ call' = [call EXCEPT ![c] = IF @.chain = 1 THEN Answered("success")
                                 ELSE [@ EXCEPT !.chain = call[c].chain - 1, !.job = j]]
  /\ UNCHANGED <<now, running>>

\* Hangfire decides by the state the parent has when the continuation is added.
ContinueJobWith(c, j, m) ==
  LET parent == job[call[c].job].status
  IN /\ call[c].pc = "continue" /\ job[j].status = "Unused"
     /\ job' = [job EXCEPT ![j] = [NoJob EXCEPT
          !.status = CASE parent = "Succeeded" -> "Enqueued"
                       [] parent = "Deleted" -> "Deleted"
                       [] OTHER -> "Awaiting",
          !.method = m, !.parent = call[c].job]]
     /\ call' = [call EXCEPT ![c] = IF @.chain = 1 THEN Answered("success")
                                    ELSE [@ EXCEPT !.chain = call[c].chain - 1, !.job = j]]
     /\ UNCHANGED <<now, running>>

-----------------------------------------------------------------------------
(***************************************************************************)
(* JobsService.                                                            *)
(***************************************************************************)
Continuations(js) == {k \in Jobs : job[k].parent \in js /\ job[k].status = "Awaiting"}

\* Deleting a job deletes what would have continued it (no chain of
\* continuations is longer than two).
DeleteJob(j) ==
  /\ Operator
  /\ job[j].status \notin {"Unused", "Deleted"}
  /\ LET next == Continuations({j})
         gone == {j} \cup next \cup Continuations(next)
     IN job' = [k \in Jobs |-> IF k \in gone THEN [job[k] EXCEPT !.status = "Deleted"]
                                             ELSE job[k]]
  /\ UNCHANGED <<now, call, running>>

RequeueJob(j) ==
  /\ Operator
  /\ job[j].status \notin {"Unused", "Enqueued"}
  /\ job' = [job EXCEPT ![j] = [@ EXCEPT !.status = "Enqueued", !.requeued = TRUE]]
  /\ UNCHANGED <<now, call, running>>

\* JobDetails.ScheduledAt comes from the state history, which only a query that
\* includes the history has.
ScheduledAt(j, includeHistory) == IF includeHistory THEN job[j].at ELSE None

QueuedJobs == WithStatus("Scheduled") \cup WithStatus("Awaiting") \cup WithStatus("Enqueued")

BeginDeleteJobs(c, at) ==
  /\ Operator
  /\ call[c].pc = "idle"
  /\ call' = [call EXCEPT ![c] = [Answered("none") EXCEPT !.pc = "delete", !.at = at]]
  /\ UNCHANGED <<now, job, running>>

\* The range to delete is the one minute call[c].at.
DeleteJobs(c) ==
  LET range == {j \in QueuedJobs : ScheduledAt(j, FALSE) = call[c].at}
  IN /\ call[c].pc = "delete"
     /\ job' = [j \in Jobs |-> IF j \in range THEN [job[j] EXCEPT !.status = "Deleted"]
                                              ELSE job[j]]
     /\ Answer(c, "success")
     /\ UNCHANGED <<now, running>>

-----------------------------------------------------------------------------
(***************************************************************************)
(* Hangfire: the delayed-job scheduler and the worker.                     *)
(***************************************************************************)
Tick ==
  /\ now < MaxTime
  /\ now' = now + 1
  /\ UNCHANGED <<job, call, running>>

EnqueueScheduled(j) ==
  /\ job[j].status = "Scheduled" /\ job[j].at <= now
  /\ job' = [job EXCEPT ![j].status = "Enqueued"]
  /\ UNCHANGED <<now, call, running>>

\* Also a job that was being processed when the manager stopped is fetched.
Fetch(j) ==
  /\ running = None /\ job[j].status \in {"Enqueued", "Processing"}
  /\ running' = j
  /\ job' = [job EXCEPT ![j].status = "Processing"]
  /\ UNCHANGED <<now, call>>

\* What a performance of a job comes to: a Result or an exception.
Outcomes == {"success", "failure", "exception"}

\* Mutant of OnStateElection: a failed Result is a value like any other.
ElectByException(outcome) == IF outcome = "exception" THEN "Failed" ELSE "Succeeded"

\* FailOnResultFailureAttribute.OnStateElection
OnStateElection(outcome) ==
  IF outcome \in {"exception", "failure"} THEN "Failed" ELSE "Succeeded"

\* Mutant of AttemptsLeft: one retry too many.
AttemptsOrNoneLeft(j) == job[j].attempt <= MaxAttempts

AttemptsLeft(j) == job[j].attempt < MaxAttempts

\* Success enqueues the continuations, failure schedules another attempt until
\* none is left.  A job whose state was changed meanwhile keeps that state.
Perform(j, outcome) ==
  /\ running = j
  /\ running' = None
  /\ \/ /\ job[j].status # "Processing"
        /\ UNCHANGED job
     \/ /\ job[j].status = "Processing"
        /\ OnStateElection(outcome) = "Succeeded"
        /\ job' = [k \in Jobs |->
             CASE k = j -> [job[j] EXCEPT !.status = "Succeeded",
                                          !.succeeded = @ \/ outcome = "success"]
               [] k \in Continuations({j}) -> [job[k] EXCEPT !.status = "Enqueued"]
               [] OTHER -> job[k]]
     \/ /\ job[j].status = "Processing"
        /\ OnStateElection(outcome) = "Failed"
        /\ IF AttemptsLeft(j)
             THEN \E at \in {now, now + 1} \cap Times :
                    job' = [job EXCEPT ![j] = [@ EXCEPT !.status = "Scheduled",
                      !.at = at, !.attempt = job[j].attempt + 1]]
             ELSE job' = [job EXCEPT ![j].status = "Failed"]
  /\ UNCHANGED <<now, call>>

\* The manager stops and starts again: calls and performances are lost.
Crash ==
  /\ MayCrash
  /\ call' = [c \in Callers |-> Answered("none")]
  /\ running' = None
  /\ UNCHANGED <<now, job>>

-----------------------------------------------------------------------------

\* The jobs ScheduleJob is to look for: similar, and queued now or scheduled close.
Pending(c) ==
  LET target == IF call[c].at = None THEN now ELSE call[c].at
  IN {j \in Jobs :
        /\ JobMatchesMethod(j, call[c].method)
        /\ \/ job[j].status = "Scheduled" /\ IsCloseTo(job[j].at, target)
           \/ job[j].status = "Enqueued" /\ IsCloseTo(target, now)}

TypeOK ==
  /\ now \in Times
  /\ job \in [Jobs -> JobRecord]
  /\ call \in [Callers -> CallRecord]
  /\ running \in Jobs \cup {None}
  /\ pending \in [Callers -> SUBSET Jobs]

Init ==
  /\ now = 0
  /\ job = [j \in Jobs |-> NoJob]
  /\ call = [c \in Callers |-> Answered("none")]
  /\ running = None
  /\ pending = [c \in Callers |-> {}]

CallStep(c) ==
  \/ ReadScheduledJobs(c)
  \/ ReadQueuedJobs(c)
  \/ \E j \in Jobs : CreateJob(c, j)
  \/ CreationFails(c)
  \/ \E j \in Jobs, m \in Methods : ContinueJobWith(c, j, m)
  \/ DeleteJobs(c)

BeginCall(c) ==
  \/ \E m \in Methods, at \in Times \cup {None}, shift \in {0, Offset}, n \in Chains :
       ScheduleJob(c, m, at, shift, n)
  \/ \E at \in Times : BeginDeleteJobs(c, at)

OperatorStep == \E j \in Jobs : DeleteJob(j) \/ RequeueJob(j)

WorkerStep ==
  \/ \E j \in Jobs : Fetch(j)
  \/ \E j \in Jobs, outcome \in Outcomes : Perform(j, outcome)

SchedulerStep == \E j \in Jobs : EnqueueScheduled(j)

Step ==
  \/ Tick
  \/ Crash
  \/ OperatorStep
  \/ WorkerStep
  \/ SchedulerStep
  \/ \E c \in Callers : BeginCall(c) \/ CallStep(c)

\* The history follows every step.
HistoryFollows ==
  pending' = [c \in Callers |->
    IF call'[c].pc \notin {"scheduled", "queued", "create"} THEN {}
    ELSE IF call[c].pc = "idle" THEN Pending(c)'
    ELSE pending[c] \cap Pending(c)']

Next == Step /\ HistoryFollows

Spec == Init /\ [][Next]_vars

\* Time passes, Hangfire polls, and a request that was begun goes on.
Fairness ==
  /\ WF_vars(Tick /\ Next)
  /\ WF_vars(SchedulerStep /\ Next)
  /\ WF_vars(WorkerStep /\ Next)
  /\ \A c \in Callers : WF_vars(CallStep(c) /\ Next)

FairSpec == Spec /\ Fairness
-----------------------------------------------------------------------------
(***************************************************************************)
(* Properties.                                                             *)
(***************************************************************************)

\* "If similar job is already scheduled or in queue now, nothing is done.": a request
\* about to create its job has overlooked no similar job that was pending all the
\* while: a job that moves from the schedule into the queue between the two reads is
\* caught by the second.  It is so where local time is UTC.
NothingPendingMissed ==
  \A c \in Callers : call[c].pc = "create" => pending[c] = {}

\* "Parent job id which needs to Succeed for newly scheduled job to start":
\* what continues a job is not queued, run or retried before a performance of
\* that job has returned a successful Result, unless the operator requeued it.
ContinuationsWait ==
  \A j \in Jobs :
    /\ job[j].parent # None /\ ~job[j].requeued
    /\ job[j].status \notin {"Awaiting", "Deleted"}
    => job[job[j].parent].succeeded

\* No continuation waits for a parent that is over: whichever of the parent's
\* end and the registration of the continuation comes first, it is not forgotten.
NoOrphans ==
  \A j \in Jobs :
    job[j].status = "Awaiting" =>
      job[job[j].parent].status \notin {"Unused", "Succeeded", "Deleted"}

\* Whatever stands in the schedule has a time, and what has succeeded has returned a
\* successful Result.
StatusesTell ==
  \A j \in Jobs :
    /\ job[j].status = "Unused" => job[j] = NoJob
    /\ job[j].status = "Scheduled" => job[j].at # None
    /\ job[j].status = "Succeeded" => job[j].succeeded
    /\ job[j].status = "Awaiting" => job[j].parent # None

\* A job at most two generations below one that continues nothing.
AtMostGrandchild(j) ==
  job[j].parent # None =>
    /\ job[job[j].parent].status # "Unused"
    /\ job[job[j].parent].parent # None => job[job[job[j].parent].parent].parent = None

\* No job continues more than two, not even when the request that adds the last one
\* is still on its way: deleting a job, which looks two generations down, leaves
\* nothing behind.
ChainsAreShort ==
  /\ \A j \in Jobs : AtMostGrandchild(j)
  /\ \A c \in Callers : call[c].pc = "continue" =>
       LET last == call[c].job
       IN /\ last \in Jobs /\ job[last].status # "Unused"
          /\ call[c].chain \in {1, 2}
          /\ job[last].parent # None =>
               call[c].chain = 1 /\ job[job[last].parent].parent = None

\* The range of a deletion in progress is a time: no job of a query without history
\* falls into it, and none is deleted without its continuations.
RangesAreTimes == \A c \in Callers : call[c].pc = "delete" => call[c].at # None

\* The inductive invariant behind ContinuationsWait and NoOrphans.
JobsInv ==
  /\ TypeOK /\ StatusesTell /\ ChainsAreShort /\ RangesAreTimes
  /\ ContinuationsWait /\ NoOrphans

\* Every job ends, unless it waits for one that has failed for good.
JobsEnd ==
  \A j \in Jobs :
    job[j].status # "Unused" ~>
      \/ job[j].status \in {"Succeeded", "Failed", "Deleted"}
      \/ job[j].status = "Awaiting" /\ job[job[j].parent].status = "Failed"

\* "Attempts deletion (cancellation) of all jobs": those scheduled within the
\* range are deleted when the request succeeds.
RangeDeleted ==
  [][\A c \in Callers, j \in Jobs :
       /\ call[c].pc = "delete" /\ call'[c].answer = "success"
       /\ job[j].status = "Scheduled" /\ job[j].at = call[c].at
       => job'[j].status = "Deleted"]_vars
=============================================================================
