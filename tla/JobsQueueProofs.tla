---------------------------- MODULE JobsQueueProofs ----------------------------
(***************************************************************************)
(* The safety of JobsQueue for any set of jobs, callers and methods.       *)
(***************************************************************************)
EXTENDS JobsQueue, FiniteSetTheorems, TLAPS

(***************************************************************************)
(* Types.                                                                  *)
(***************************************************************************)

LEMMA AnsweredType ==
  ASSUME NEW answer \in {"none", "success", "failure"}
  PROVE  Answered(answer) \in CallRecord
BY DEF Answered, CallRecord

LEMMA NoJobType == NoJob \in JobRecord
BY JobsAssumption DEF NoJob, JobRecord, Status

\* What a request sees on a page of the schedule are times.
LEMMA SeenTimes ==
  ASSUME TypeOK, StatusesTell,
         NEW page \in Pages(WithStatus("Scheduled")), NEW m
  PROVE  SimilarTimes(page, m) \subseteq Times
<1>1. page \subseteq WithStatus("Scheduled")
  BY DEF Pages
<1> SUFFICES ASSUME NEW j \in page PROVE job[j].at \in Times
  BY DEF SimilarTimes
<1>2. j \in Jobs /\ job[j].status = "Scheduled"
  BY <1>1 DEF WithStatus
<1> QED
  BY <1>2 DEF TypeOK, StatusesTell, JobRecord

\* The types that an action may disturb.
JobTypes == job \in [Jobs -> JobRecord]
CallTypes == call \in [Callers -> CallRecord]

LEMMA CallStepTypes ==
  ASSUME TypeOK, StatusesTell, ChainsAreShort, NEW c \in Callers,
         \/ \E m \in Methods, at \in Times \cup {None}, shift \in {0, Offset}, n \in Chains :
              ScheduleJob(c, m, at, shift, n)
         \/ \E at \in Times : BeginDeleteJobs(c, at)
         \/ ReadScheduledJobs(c) \/ ReadQueuedJobs(c) \/ CreationFails(c)
  PROVE  JobTypes' /\ CallTypes' /\ now' \in Times /\ running' \in Jobs \cup {None}
<1> USE DEF TypeOK, JobTypes, CallTypes
<1>1. ASSUME NEW m \in Methods, NEW at \in Times \cup {None}, NEW shift \in {0, Offset},
             NEW n \in Chains,
             ScheduleJob(c, m, at, shift, n)
      PROVE  CallTypes'
  <2>1. n \in 0..2
    BY JobsAssumption
  <2>2. [Answered("none") EXCEPT !.pc = "scheduled", !.method = m, !.at = at,
                                 !.shift = shift, !.chain = n] \in CallRecord
    BY <2>1, AnsweredType DEF CallRecord
  <2> QED
    BY <1>1, <2>2 DEF ScheduleJob
<1>2. ASSUME NEW at \in Times, BeginDeleteJobs(c, at) PROVE CallTypes'
  <2>1. [Answered("none") EXCEPT !.pc = "delete", !.at = at] \in CallRecord
    BY AnsweredType DEF CallRecord
  <2> QED
    BY <1>2, <2>1 DEF BeginDeleteJobs
<1>3. ASSUME ReadScheduledJobs(c) PROVE CallTypes'
  <2>1. PICK page \in Pages(WithStatus("Scheduled")) :
          LET at == call[c].at
              seen == SimilarTimes(page, call[c].method)
          IN \/ call' = [call EXCEPT ![c] = [@ EXCEPT !.pc = "queued", !.seen = seen]]
             \/ Answer(c, "failure")
             \/ call' = [call EXCEPT ![c].pc =
                           IF IsCloseTo(at + call[c].shift, LocalNow) THEN "queued" ELSE "create"]
    BY <1>3 DEF ReadScheduledJobs
  <2>2. SimilarTimes(page, call[c].method) \in SUBSET Times
    BY SeenTimes
  <2>3. call[c] \in CallRecord /\ Answered("failure") \in CallRecord
    BY AnsweredType
  <2>4. [call[c] EXCEPT !.pc = "queued", !.seen = SimilarTimes(page, call[c].method)]
          \in CallRecord
    BY <2>2, <2>3 DEF CallRecord
  <2>5. \A close : [call[c] EXCEPT !.pc = IF close THEN "queued" ELSE "create"] \in CallRecord
    BY <2>3 DEF CallRecord
  <2> QED
    BY <2>1, <2>3, <2>4, <2>5 DEF Answer
<1>4. ASSUME ReadQueuedJobs(c) PROVE CallTypes'
  <2>1. Answered("failure") \in CallRecord /\ [call[c] EXCEPT !.pc = "create"] \in CallRecord
    BY AnsweredType DEF CallRecord
  <2>2. Answer(c, "failure") \/ call' = [call EXCEPT ![c].pc = "create"]
    BY <1>4 DEF ReadQueuedJobs
  <2> QED
    BY <2>1, <2>2 DEF Answer
<1>5. ASSUME CreationFails(c) PROVE CallTypes'
  BY <1>5, AnsweredType DEF CreationFails, Answer
<1>6. UNCHANGED <<now, job, running>>
  BY DEF ScheduleJob, BeginDeleteJobs, ReadScheduledJobs, ReadQueuedJobs, CreationFails
<1> QED
  BY <1>1, <1>2, <1>3, <1>4, <1>5, <1>6

LEMMA CreateTypes ==
  ASSUME TypeOK, StatusesTell, ChainsAreShort, NEW c \in Callers, NEW j \in Jobs,
         CreateJob(c, j)
  PROVE  JobTypes' /\ CallTypes' /\ now' \in Times /\ running' \in Jobs \cup {None}
<1> USE DEF TypeOK, JobTypes, CallTypes
<1>1. call[c] \in CallRecord /\ Answered("success") \in CallRecord
  BY AnsweredType
<1>2. [call[c] EXCEPT !.pc = "continue", !.job = j] \in CallRecord
  BY <1>1 DEF CallRecord
<1>3. [NoJob EXCEPT !.status = IF call[c].at = None THEN "Enqueued" ELSE "Scheduled",
                    !.method = call[c].method, !.at = call[c].at] \in JobRecord
  BY <1>1, NoJobType DEF CallRecord, JobRecord, Status, NoJob
<1> QED
  BY <1>1, <1>2, <1>3 DEF CreateJob, Created, Answer

LEMMA ContinueTypes ==
  ASSUME TypeOK, StatusesTell, ChainsAreShort, NEW c \in Callers, NEW j \in Jobs,
         NEW m \in Methods, ContinueJobWith(c, j, m)
  PROVE  JobTypes' /\ CallTypes' /\ now' \in Times /\ running' \in Jobs \cup {None}
<1> USE DEF TypeOK, JobTypes, CallTypes
<1>1. call[c] \in CallRecord /\ Answered("success") \in CallRecord
  BY AnsweredType
<1>2. call[c].job \in Jobs /\ call[c].chain \in {1, 2}
  BY DEF ContinueJobWith, ChainsAreShort
<1>3. [call[c] EXCEPT !.chain = call[c].chain - 1, !.job = j] \in CallRecord
  <2>1. call[c].chain - 1 \in 0..2
    BY <1>2
  <2> QED
    BY <1>1, <2>1 DEF CallRecord
<1>4. PICK status \in Status :
        job' = [job EXCEPT ![j] = [NoJob EXCEPT !.status = status, !.method = m,
                                                !.parent = call[c].job]]
  BY DEF ContinueJobWith, Status
<1>5. [NoJob EXCEPT !.status = status, !.method = m, !.parent = call[c].job] \in JobRecord
  BY <1>2, NoJobType DEF JobRecord
<1> QED
  BY <1>1, <1>3, <1>4, <1>5 DEF ContinueJobWith

LEMMA WithStatusType ==
  ASSUME TypeOK, NEW j \in Jobs, NEW status \in Status
  PROVE  [job[j] EXCEPT !.status = status] \in JobRecord
BY DEF TypeOK, JobRecord

LEMMA RetriedType ==
  ASSUME NEW o \in JobRecord, NEW at \in Times, NEW n \in 0..MaxAttempts
  PROVE  [o EXCEPT !.status = "Scheduled", !.at = at, !.attempt = n] \in JobRecord
BY DEF JobRecord, Status

LEMMA PerformTypes ==
  ASSUME TypeOK, NEW j \in Jobs, NEW outcome \in Outcomes, Perform(j, outcome)
  PROVE  JobTypes' /\ CallTypes' /\ now' \in Times /\ running' \in Jobs \cup {None}
<1> USE DEF TypeOK, JobTypes, CallTypes
<1>1. CASE UNCHANGED job
  BY <1>1 DEF Perform
<1>2. CASE job' = [k \in Jobs |->
             CASE k = j -> [job[j] EXCEPT !.status = "Succeeded",
                                          !.succeeded = @ \/ outcome = "success"]
               [] k \in Continuations({j}) -> [job[k] EXCEPT !.status = "Enqueued"]
               [] OTHER -> job[k]]
  <2>1. [job[j] EXCEPT !.status = "Succeeded", !.succeeded = @ \/ outcome = "success"]
          \in JobRecord
    BY DEF JobRecord, Status
  <2>2. \A k \in Jobs : [job[k] EXCEPT !.status = "Enqueued"] \in JobRecord
    BY WithStatusType DEF Status
  <2> QED
    BY <1>2, <2>1, <2>2 DEF Perform
<1>3. ASSUME NEW at \in {now, now + 1} \cap Times, AttemptsLeft(j),
             job' = [job EXCEPT ![j] = [@ EXCEPT !.status = "Scheduled", !.at = at,
                                                 !.attempt = job[j].attempt + 1]]
      PROVE  JobTypes'
  <2>1. job[j].attempt + 1 \in 0..MaxAttempts
    BY <1>3, JobsAssumption DEF AttemptsLeft, JobRecord
  <2>2. [job[j] EXCEPT !.status = "Scheduled", !.at = at,
                        !.attempt = job[j].attempt + 1] \in JobRecord
    BY <2>1, RetriedType
  <2> QED
    BY <1>3, <2>2
<1>4. ASSUME job' = [job EXCEPT ![j].status = "Failed"] PROVE JobTypes'
  BY <1>4, WithStatusType DEF Status
<1>5. CallTypes' /\ now' \in Times /\ running' \in Jobs \cup {None}
  BY DEF Perform
<1> QED
  BY <1>1, <1>2, <1>3, <1>4, <1>5 DEF Perform

LEMMA OtherTypes ==
  ASSUME TypeOK,
         \/ Tick \/ Crash \/ OperatorStep \/ SchedulerStep
         \/ \E j \in Jobs : Fetch(j)
         \/ \E c \in Callers : DeleteJobs(c)
  PROVE  JobTypes' /\ CallTypes' /\ now' \in Times /\ running' \in Jobs \cup {None}
<1> USE DEF TypeOK, JobTypes, CallTypes
<1>1. ASSUME Tick PROVE now' \in Times /\ UNCHANGED <<job, call, running>>
  BY <1>1, JobsAssumption DEF Tick, Times
<1>2. ASSUME Crash PROVE CallTypes' /\ running' = None /\ UNCHANGED <<now, job>>
  BY <1>2, AnsweredType DEF Crash
<1>3. ASSUME OperatorStep PROVE JobTypes' /\ UNCHANGED <<now, call, running>>
  <2>1. ASSUME NEW j \in Jobs, DeleteJob(j) PROVE JobTypes'
    BY <2>1, WithStatusType DEF DeleteJob, Status
  <2>2. ASSUME NEW j \in Jobs, RequeueJob(j) PROVE JobTypes'
    <3>1. [job[j] EXCEPT !.status = "Enqueued", !.requeued = TRUE] \in JobRecord
      BY DEF JobRecord, Status
    <3> QED
      BY <2>2, <3>1 DEF RequeueJob
  <2> QED
    BY <1>3, <2>1, <2>2 DEF OperatorStep, DeleteJob, RequeueJob
<1>4. ASSUME SchedulerStep PROVE JobTypes' /\ UNCHANGED <<now, call, running>>
  BY <1>4, WithStatusType DEF SchedulerStep, EnqueueScheduled, Status
<1>5. ASSUME NEW j \in Jobs, Fetch(j)
      PROVE  JobTypes' /\ running' \in Jobs /\ UNCHANGED <<now, call>>
  BY <1>5, WithStatusType DEF Fetch, Status
<1>6. ASSUME NEW c \in Callers, DeleteJobs(c)
      PROVE  JobTypes' /\ CallTypes' /\ UNCHANGED <<now, running>>
  BY <1>6, WithStatusType, AnsweredType DEF DeleteJobs, Answer, Status
<1> QED
  BY <1>1, <1>2, <1>3, <1>4, <1>5, <1>6

LEMMA HistoryTypes ==
  ASSUME TypeOK, HistoryFollows
  PROVE  pending' \in [Callers -> SUBSET Jobs]
<1>1. \A c \in Callers : Pending(c)' \subseteq Jobs
  BY DEF Pending
<1> QED
  BY <1>1 DEF TypeOK, HistoryFollows

LEMMA TypeStep ==
  ASSUME TypeOK, StatusesTell, ChainsAreShort, Next
  PROVE  TypeOK'
<1>1. JobTypes' /\ CallTypes' /\ now' \in Times /\ running' \in Jobs \cup {None}
  BY CallStepTypes, CreateTypes, ContinueTypes, PerformTypes, OtherTypes
     DEF Next, Step, WorkerStep, BeginCall, CallStep
<1> QED
  BY <1>1, HistoryTypes DEF TypeOK, JobTypes, CallTypes, Next

-----------------------------------------------------------------------------
(***************************************************************************)
(* Chains of continuations.                                                *)
(***************************************************************************)

\* Chains grow only where a job is created.
LEMMA ChainsKept ==
  ASSUME TypeOK, ChainsAreShort,
         \A k \in Jobs : /\ job'[k].parent = job[k].parent
                         /\ job[k].status # "Unused" => job'[k].status # "Unused",
         \A c \in Callers : call'[c].pc = "continue" => call'[c] = call[c]
  PROVE  ChainsAreShort'
<1> USE DEF TypeOK, JobRecord
<1>1. ASSUME NEW j \in Jobs PROVE AtMostGrandchild(j)'
  BY JobsAssumption DEF ChainsAreShort, AtMostGrandchild
<1>2. ASSUME NEW c \in Callers, call'[c].pc = "continue"
      PROVE  LET last == call'[c].job
             IN /\ last \in Jobs /\ job'[last].status # "Unused"
                /\ call'[c].chain \in {1, 2}
                /\ job'[last].parent # None =>
                     call'[c].chain = 1 /\ job'[job'[last].parent].parent = None
  <2>1. call'[c] = call[c] /\ call[c].pc = "continue"
    BY <1>2
  <2>2. job[call[c].job].parent \in Jobs \cup {None}
    BY <2>1 DEF ChainsAreShort
  <2> QED
    BY <2>1, <2>2 DEF ChainsAreShort
<1> QED
  BY <1>1, <1>2 DEF ChainsAreShort

\* A job just created continues nothing, and nothing continues it.
LEMMA CreateChains ==
  ASSUME TypeOK, ChainsAreShort, StatusesTell, NEW c \in Callers, NEW j \in Jobs,
         CreateJob(c, j)
  PROVE  ChainsAreShort'
<1> USE DEF TypeOK
<1>1. /\ job[j].status = "Unused" /\ job[j].parent = None
      /\ job'[j].status # "Unused" /\ job'[j].parent = None
      /\ \A k \in Jobs : k # j => job'[k] = job[k]
  BY DEF CreateJob, StatusesTell, NoJob
<1>2. \A k \in Jobs : /\ job'[k].parent = job[k].parent
                      /\ job[k].status # "Unused" => job'[k].status # "Unused"
  BY <1>1
<1>3. ASSUME NEW k \in Jobs PROVE AtMostGrandchild(k)'
  <2>1. \A i \in Jobs : job[i].parent \in Jobs \cup {None}
    BY DEF JobRecord
  <2> QED
    BY <1>2, <2>1 DEF ChainsAreShort, AtMostGrandchild
<1>4. ASSUME NEW d \in Callers, call'[d].pc = "continue", d # c
      PROVE  call'[d] = call[d]
  BY <1>4 DEF CreateJob, Created, Answer
<1>5. ASSUME call'[c].pc = "continue"
      PROVE  call'[c].job = j /\ call'[c].chain \in {1, 2}
  <2>1. call[c].chain # 0 /\ call'[c] = [call[c] EXCEPT !.pc = "continue", !.job = j]
    BY <1>5 DEF CreateJob, Created, Answer, Answered
  <2> QED
    BY <2>1 DEF CallRecord
<1>6. ASSUME NEW d \in Callers, call'[d].pc = "continue"
      PROVE  LET last == call'[d].job
             IN /\ last \in Jobs /\ job'[last].status # "Unused"
                /\ call'[d].chain \in {1, 2}
                /\ job'[last].parent # None =>
                     call'[d].chain = 1 /\ job'[job'[last].parent].parent = None
  <2>1. CASE d = c
    BY <1>1, <1>5, <1>6, <2>1
  <2>2. CASE d # c
    <3>1. call'[d] = call[d] /\ call[d].job \in Jobs
      BY <1>4, <1>6, <2>2 DEF ChainsAreShort
    <3>2. job[call[d].job].parent \in Jobs \cup {None}
      BY <3>1 DEF JobRecord
    <3> QED
      BY <1>2, <1>6, <3>1, <3>2 DEF ChainsAreShort
  <2> QED
    BY <2>1, <2>2
<1> QED
  BY <1>3, <1>6 DEF ChainsAreShort

\* A continuation is put below the last job of the request, which has at most one
\* above it.
LEMMA ContinueChains ==
  ASSUME TypeOK, ChainsAreShort, StatusesTell, NEW c \in Callers, NEW j \in Jobs,
         NEW m \in Methods, ContinueJobWith(c, j, m)
  PROVE  ChainsAreShort'
<1> USE DEF TypeOK
<1> DEFINE last == call[c].job
<1>1. /\ last \in Jobs /\ job[last].status # "Unused" /\ call[c].chain \in {1, 2}
      /\ job[last].parent # None =>
           call[c].chain = 1 /\ job[job[last].parent].parent = None
  BY DEF ContinueJobWith, ChainsAreShort
<1>2. /\ job[j].status = "Unused" /\ job[j].parent = None
      /\ job'[j].status # "Unused" /\ job'[j].parent = last
      /\ \A k \in Jobs : k # j => job'[k] = job[k]
  BY DEF ContinueJobWith, StatusesTell, NoJob
<1>3. \A k \in Jobs : job[k].parent \in (Jobs \ {j}) \cup {None}
  BY <1>2 DEF ChainsAreShort, AtMostGrandchild, JobRecord
<1>4. last # j
  BY <1>1, <1>2
<1> HIDE DEF last
<1>5. ASSUME NEW k \in Jobs PROVE AtMostGrandchild(k)'
  <2>1. CASE k = j
    BY <1>1, <1>2, <1>3, <1>4, <2>1 DEF AtMostGrandchild
  <2>2. CASE k # j
    BY <1>2, <1>3, <2>2 DEF AtMostGrandchild, ChainsAreShort
  <2> QED
    BY <2>1, <2>2
<1>6. ASSUME NEW d \in Callers, call'[d].pc = "continue", d # c
      PROVE  call'[d] = call[d] /\ call[d].job \in Jobs \ {j}
  <2>1. call'[d] = call[d]
    BY <1>6 DEF ContinueJobWith
  <2> QED
    BY <1>2, <1>6, <2>1 DEF ChainsAreShort
<1>7. ASSUME call'[c].pc = "continue"
      PROVE  call'[c].job = j /\ call'[c].chain = 1 /\ call[c].chain = 2
  <2>1. call'[c] = [call[c] EXCEPT !.chain = call[c].chain - 1, !.job = j]
    BY <1>7 DEF ContinueJobWith, Answered
  <2>2. call'[c] = IF call[c].chain = 1 THEN Answered("success")
                   ELSE [call[c] EXCEPT !.chain = call[c].chain - 1, !.job = j]
    BY DEF ContinueJobWith
  <2>3. call[c].chain # 1
    BY <1>7, <2>2 DEF Answered
  <2>4. call[c].chain = 2
    BY <1>1, <2>3
  <2> QED
    BY <2>1, <2>4 DEF CallRecord
<1>8. ASSUME NEW d \in Callers, call'[d].pc = "continue"
      PROVE  LET l == call'[d].job
             IN /\ l \in Jobs /\ job'[l].status # "Unused"
                /\ call'[d].chain \in {1, 2}
                /\ job'[l].parent # None =>
                     call'[d].chain = 1 /\ job'[job'[l].parent].parent = None
  <2>1. CASE d = c
    BY <1>1, <1>2, <1>4, <1>7, <1>8, <2>1
  <2>2. CASE d # c
    <3>1. call'[d] = call[d] /\ call[d].job \in Jobs \ {j}
      BY <1>6, <1>8, <2>2
    <3> QED
      BY <1>2, <1>3, <1>8, <3>1 DEF ChainsAreShort
  <2> QED
    BY <2>1, <2>2
<1> QED
  BY <1>5, <1>8 DEF ChainsAreShort

-----------------------------------------------------------------------------
(***************************************************************************)
(* What the actions do to the statuses, the continuations and the orphans. *)
(***************************************************************************)
JobFacts == StatusesTell /\ ChainsAreShort /\ ContinuationsWait /\ NoOrphans

\* Parents are jobs that are no longer unused, and exist.
LEMMA ParentsExist ==
  ASSUME JobsInv
  PROVE  \A k \in Jobs : /\ job[k].parent \in Jobs \cup {None}
                         /\ job[k].parent # None => job[job[k].parent].status # "Unused"
BY DEF JobsInv, TypeOK, JobRecord, ChainsAreShort, AtMostGrandchild

LEMMA UntouchedFacts ==
  ASSUME JobsInv, UNCHANGED job,
         \A c \in Callers : call'[c].pc = "continue" => call'[c] = call[c]
  PROVE  JobFacts'
<1>1. ChainsAreShort'
  BY ChainsKept DEF JobsInv
<1> QED
  BY <1>1 DEF JobFacts, JobsInv, StatusesTell, ContinuationsWait, NoOrphans

LEMMA CallStepFacts ==
  ASSUME JobsInv, NEW c \in Callers,
         \/ \E m \in Methods, at \in Times \cup {None}, shift \in {0, Offset}, n \in Chains :
              ScheduleJob(c, m, at, shift, n)
         \/ \E at \in Times : BeginDeleteJobs(c, at)
         \/ ReadScheduledJobs(c) \/ ReadQueuedJobs(c) \/ CreationFails(c)
  PROVE  JobFacts'
<1>1. UNCHANGED job
  BY DEF ScheduleJob, BeginDeleteJobs, ReadScheduledJobs, ReadQueuedJobs, CreationFails
<1>2. call \in [Callers -> CallRecord]
  BY DEF JobsInv, TypeOK
<1>3. \A d \in Callers : call'[d].pc = "continue" => call'[d] = call[d]
  <2>1. ASSUME NEW d \in Callers, d # c PROVE call'[d] = call[d]
    BY <1>2, <2>1 DEF ScheduleJob, BeginDeleteJobs, ReadScheduledJobs, ReadQueuedJobs,
                      CreationFails, Answer
  <2>2. call'[c].pc # "continue"
    <3>1. \A answer : Answered(answer).pc = "idle"
      BY DEF Answered
    <3>2. CASE ReadScheduledJobs(c)
      BY <1>2, <3>1, <3>2 DEF ReadScheduledJobs, Answer, CallRecord
    <3>3. CASE ReadQueuedJobs(c)
      BY <1>2, <3>1, <3>3 DEF ReadQueuedJobs, Answer, CallRecord
    <3>4. CASE CreationFails(c)
      BY <1>2, <3>1, <3>4 DEF CreationFails, Answer
    <3> QED
      BY <1>2, <3>2, <3>3, <3>4 DEF ScheduleJob, BeginDeleteJobs, Answered
  <2> QED
    BY <2>1, <2>2
<1> QED
  BY <1>1, <1>3, UntouchedFacts

LEMMA CreateFacts ==
  ASSUME JobsInv, NEW c \in Callers, NEW j \in Jobs, CreateJob(c, j)
  PROVE  JobFacts'
<1>1. ChainsAreShort'
  BY CreateChains DEF JobsInv
<1>2. /\ job[j].status = "Unused" /\ job'[j].parent = None
      /\ job'[j].status \in {"Enqueued", "Scheduled"}
      /\ job'[j].status = "Scheduled" => job'[j].at # None
      /\ \A k \in Jobs : k # j => job'[k] = job[k]
  BY DEF CreateJob, NoJob, JobsInv, TypeOK
<1>3. \A k \in Jobs : job[k].parent \in (Jobs \ {j}) \cup {None}
  BY <1>2, ParentsExist
<1>4. StatusesTell'
  BY <1>2 DEF JobsInv, StatusesTell
<1>5. ContinuationsWait' /\ NoOrphans'
  BY <1>2, <1>3 DEF JobsInv, StatusesTell, ContinuationsWait, NoOrphans
<1> QED
  BY <1>1, <1>4, <1>5 DEF JobFacts

\* A continuation is queued at once only below a job that has succeeded, and waits
\* only for one that has not ended.
LEMMA ContinueFacts ==
  ASSUME JobsInv, NEW c \in Callers, NEW j \in Jobs, NEW m \in Methods,
         ContinueJobWith(c, j, m)
  PROVE  JobFacts'
<1> DEFINE parent == call[c].job
<1>1. ChainsAreShort'
  BY ContinueChains DEF JobsInv
<1>2. /\ job[j].status = "Unused" /\ job'[j].parent = parent
      /\ \/ job'[j].status = "Enqueued" /\ job[parent].status = "Succeeded"
         \/ job'[j].status = "Deleted"
         \/ /\ job'[j].status = "Awaiting"
            /\ job[parent].status \notin {"Succeeded", "Deleted"}
      /\ \A k \in Jobs : k # j => job'[k] = job[k]
  BY DEF ContinueJobWith, NoJob, JobsInv, TypeOK
<1>3. \A k \in Jobs : job[k].parent \in (Jobs \ {j}) \cup {None}
  BY <1>2, ParentsExist
<1>4. parent \in Jobs \ {j} /\ job[parent].status # "Unused" /\ parent # None
  BY <1>2, JobsAssumption DEF JobsInv, ContinueJobWith, ChainsAreShort
<1> HIDE DEF parent
<1>5. StatusesTell'
  BY <1>2, <1>4 DEF JobsInv, StatusesTell
<1>6. ContinuationsWait'
  BY <1>2, <1>3, <1>4 DEF JobsInv, StatusesTell, ContinuationsWait
<1>7. NoOrphans'
  BY <1>2, <1>3, <1>4 DEF JobsInv, StatusesTell, NoOrphans
<1> QED
  BY <1>1, <1>5, <1>6, <1>7 DEF JobFacts

\* Two generations are all that can wait below a job.
LEMMA DeleteFacts ==
  ASSUME JobsInv, NEW j \in Jobs, DeleteJob(j)
  PROVE  JobFacts'
<1> DEFINE next == Continuations({j})
           gone == {j} \cup next \cup Continuations(next)
<1>1. job \in [Jobs -> JobRecord]
  BY DEF JobsInv, TypeOK
<1>2. job' = [k \in Jobs |-> IF k \in gone THEN [job[k] EXCEPT !.status = "Deleted"]
                                           ELSE job[k]]
      /\ UNCHANGED call /\ job[j].status # "Unused"
  BY DEF DeleteJob
<1>3. \A k \in gone : k \in Jobs /\ job[k].status # "Unused"
  BY <1>2 DEF Continuations
<1>4. ASSUME NEW k \in Jobs, job[k].status = "Awaiting", job[k].parent \in gone
      PROVE  k \in gone
  <2>1. CASE job[k].parent \in {j} \cup next
    BY <1>4, <2>1 DEF Continuations
  <2>2. CASE job[k].parent \in Continuations(next)
    <3>1. job[k].parent \in Jobs /\ job[job[k].parent].parent \in next
      BY <2>2 DEF Continuations
    <3>2. job[job[job[k].parent].parent].parent = j
      BY <3>1 DEF Continuations
    <3>3. None \notin Jobs
      BY JobsAssumption
    <3> QED
      BY <3>1, <3>2, <3>3 DEF JobsInv, ChainsAreShort, AtMostGrandchild, Continuations
  <2> QED
    BY <1>4, <2>1, <2>2
<1> HIDE DEF gone, next
<1>5. /\ \A k \in gone : job'[k].status = "Deleted"
      /\ \A k \in Jobs \ gone : job'[k] = job[k]
      /\ \A k \in Jobs : /\ job'[k].parent = job[k].parent
                         /\ job'[k].succeeded = job[k].succeeded
                         /\ job'[k].requeued = job[k].requeued
  BY <1>1, <1>2, <1>3 DEF JobRecord
<1>6. ChainsAreShort'
  BY <1>2, <1>3, <1>5, ChainsKept DEF JobsInv
<1>7. StatusesTell'
  BY <1>3, <1>5 DEF JobsInv, StatusesTell
<1>8. ContinuationsWait'
  BY <1>3, <1>5, ParentsExist DEF JobsInv, ContinuationsWait
<1>9. NoOrphans'
  BY <1>3, <1>4, <1>5, ParentsExist DEF JobsInv, StatusesTell, NoOrphans
<1> QED
  BY <1>6, <1>7, <1>8, <1>9 DEF JobFacts

\* A job may change its status at no cost to others unless it ends or is unused.
LEMMA StatusFacts ==
  ASSUME JobsInv, NEW j \in Jobs, UNCHANGED call,
         \A k \in Jobs : k # j => job'[k] = job[k],
         job[j].status # "Unused",
         job'[j].status \in {"Enqueued", "Processing", "Scheduled", "Failed"},
         job'[j].parent = job[j].parent, job'[j].succeeded = job[j].succeeded,
         job'[j].status = "Scheduled" => job'[j].at # None,
         job'[j].requeued \/ job[j].status \notin {"Awaiting", "Deleted"},
         job[j].requeued => job'[j].requeued
  PROVE  JobFacts'
<1>1. \A k \in Jobs : job'[k].parent = job[k].parent
  OBVIOUS
<1>2. ChainsAreShort'
  BY ChainsKept DEF JobsInv
<1>3. StatusesTell'
  BY DEF JobsInv, StatusesTell
<1>4. ContinuationsWait'
  BY <1>1, ParentsExist DEF JobsInv, ContinuationsWait
<1>5. NoOrphans'
  BY <1>1, ParentsExist DEF JobsInv, StatusesTell, NoOrphans
<1> QED
  BY <1>2, <1>3, <1>4, <1>5 DEF JobFacts

LEMMA MoveFacts ==
  ASSUME JobsInv, NEW j \in Jobs, RequeueJob(j) \/ EnqueueScheduled(j) \/ Fetch(j)
  PROVE  JobFacts'
<1>1. job \in [Jobs -> JobRecord]
  BY DEF JobsInv, TypeOK
<1>2. CASE RequeueJob(j)
  BY <1>1, <1>2, StatusFacts DEF RequeueJob, JobRecord
<1>3. CASE EnqueueScheduled(j)
  BY <1>1, <1>3, StatusFacts DEF EnqueueScheduled, JobRecord
<1>4. CASE Fetch(j)
  BY <1>1, <1>4, StatusFacts DEF Fetch, JobRecord
<1> QED
  BY <1>2, <1>3, <1>4

\* A success lets the continuations of the job go, and nothing else does.
LEMMA PerformFacts ==
  ASSUME JobsInv, NEW j \in Jobs, NEW outcome \in Outcomes, Perform(j, outcome)
  PROVE  JobFacts'
<1>1. job \in [Jobs -> JobRecord] /\ UNCHANGED call
  BY DEF JobsInv, TypeOK, Perform
<1>2. CASE UNCHANGED job
  BY <1>1, <1>2, UntouchedFacts
<1>3. CASE /\ job[j].status = "Processing"
           /\ OnStateElection(outcome) = "Failed"
           /\ ~UNCHANGED job
  <2>1. /\ job'[j].status \in {"Scheduled", "Failed"}
        /\ job'[j].status = "Scheduled" => job'[j].at \in Times
        /\ job'[j].parent = job[j].parent /\ job'[j].succeeded = job[j].succeeded
        /\ job'[j].requeued = job[j].requeued
        /\ \A k \in Jobs : k # j => job'[k] = job[k]
    <3>1. CASE \E at \in {now, now + 1} \cap Times :
                 job' = [job EXCEPT ![j] = [@ EXCEPT !.status = "Scheduled", !.at = at,
                                              !.attempt = job[j].attempt + 1]]
      BY <1>1, <3>1 DEF JobRecord
    <3>2. CASE job' = [job EXCEPT ![j].status = "Failed"]
      BY <1>1, <3>2 DEF JobRecord
    <3> QED
      BY <1>3, <3>1, <3>2 DEF Perform
  <2> QED
    BY <1>1, <1>3, <2>1, StatusFacts, JobsAssumption
<1>4. CASE job[j].status = "Processing" /\ OnStateElection(outcome) = "Succeeded"
  <2>1. outcome = "success"
    BY <1>4 DEF OnStateElection, Outcomes
  <2>2. job' = [k \in Jobs |->
             CASE k = j -> [job[j] EXCEPT !.status = "Succeeded",
                                          !.succeeded = @ \/ outcome = "success"]
               [] k \in Continuations({j}) -> [job[k] EXCEPT !.status = "Enqueued"]
               [] OTHER -> job[k]]
    BY <1>4 DEF Perform
  <2>3. j \notin Continuations({j})
    BY <1>4 DEF Continuations
  <2>4. /\ job'[j].status = "Succeeded" /\ job'[j].succeeded
        /\ job'[j].parent = job[j].parent /\ job'[j].requeued = job[j].requeued
    <3>1. job'[j] = [job[j] EXCEPT !.status = "Succeeded",
                                   !.succeeded = @ \/ outcome = "success"]
      BY <2>2, <2>3, Zenon
    <3>2. /\ job'[j].status = "Succeeded" /\ job'[j].parent = job[j].parent
          /\ job'[j].requeued = job[j].requeued
      BY <1>1, <3>1 DEF JobRecord
    <3>3. job'[j].succeeded = (job[j].succeeded \/ outcome = "success")
      BY <1>1, <3>1 DEF JobRecord
    <3> QED
      BY <2>1, <3>2, <3>3
  <2>5. \A k \in Jobs : k \in Continuations({j}) =>
          /\ job'[k].status = "Enqueued" /\ job[k].status = "Awaiting"
          /\ job'[k].parent = j /\ job[k].parent = j
          /\ job'[k].requeued = job[k].requeued /\ job'[k].succeeded = job[k].succeeded
    BY <1>1, <2>2, <2>3 DEF JobRecord, Continuations
  <2>6. \A k \in Jobs : k \notin Continuations({j}) /\ k # j => job'[k] = job[k]
    BY <2>2
  <2>7. \A k \in Jobs : job[k].parent = j /\ job[k].status = "Awaiting" =>
          k \in Continuations({j})
    BY DEF Continuations
  <2>8. ChainsAreShort'
    BY <1>1, <1>4, <2>4, <2>5, <2>6, ChainsKept DEF JobsInv
  <2>9. StatusesTell'
    BY <2>4, <2>5, <2>6 DEF JobsInv, StatusesTell
  <2>10. \A k \in Jobs : job[k].succeeded => job'[k].succeeded
    BY <2>4, <2>5, <2>6
  <2>11. ContinuationsWait'
    <3> SUFFICES ASSUME NEW k \in Jobs, job'[k].parent # None, ~job'[k].requeued,
                        job'[k].status \notin {"Awaiting", "Deleted"}
                 PROVE  job'[job'[k].parent].succeeded
      BY DEF ContinuationsWait
    <3>1. CASE k \in Continuations({j})
      BY <2>4, <2>5, <3>1
    <3>2. CASE k \notin Continuations({j})
      <4>1. /\ job[k].parent = job'[k].parent /\ ~job[k].requeued
            /\ job[k].status \notin {"Awaiting", "Deleted"}
        BY <1>4, <2>4, <2>6, <3>2
      <4>2. job[job[k].parent].succeeded /\ job[k].parent \in Jobs
        BY <4>1, ParentsExist DEF JobsInv, ContinuationsWait
      <4> QED
        BY <2>10, <4>1, <4>2
    <3> QED
      BY <3>1, <3>2
  <2>12. NoOrphans'
    BY <1>4, <2>4, <2>5, <2>6, <2>7, ParentsExist DEF JobsInv, StatusesTell, NoOrphans
  <2> QED
    BY <2>8, <2>9, <2>11, <2>12 DEF JobFacts
<1> QED
  BY <1>2, <1>3, <1>4 DEF Perform

\* The query for the range to delete loads no times.
LEMMA DeleteRangeFacts ==
  ASSUME JobsInv, NEW c \in Callers, DeleteJobs(c)
  PROVE  JobFacts'
<1>1. job \in [Jobs -> JobRecord] /\ call \in [Callers -> CallRecord]
  BY DEF JobsInv, TypeOK
<1>2. {j \in QueuedJobs : ScheduledAt(j, FALSE) = call[c].at} = {}
  BY DEF DeleteJobs, JobsInv, RangesAreTimes, ScheduledAt
<1>3. \A k \in Jobs : job'[k] = job[k]
  BY <1>2 DEF DeleteJobs
<1>4. UNCHANGED job
  BY <1>1, <1>3 DEF DeleteJobs
<1>5. \A d \in Callers : call'[d].pc = "continue" => call'[d] = call[d]
  BY <1>1 DEF DeleteJobs, Answer, Answered
<1> QED
  BY <1>4, <1>5, UntouchedFacts

-----------------------------------------------------------------------------
(***************************************************************************)
(* The invariant of the queue.                                             *)
(***************************************************************************)

LEMMA RangesStep ==
  ASSUME JobsInv, Next
  PROVE  RangesAreTimes'
<1>1. call \in [Callers -> CallRecord]
  BY DEF JobsInv, TypeOK
<1>2. \A answer : Answered(answer).pc = "idle"
  BY DEF Answered
<1> SUFFICES ASSUME NEW c \in Callers, call'[c].pc = "delete"
             PROVE  call'[c].at # None
  BY DEF RangesAreTimes
<1>3. \/ call'[c] = call[c]
      \/ \E at \in Times : BeginDeleteJobs(c, at)
  <2>1. ASSUME NEW d \in Callers, BeginCall(d) \/ CallStep(d), d # c
        PROVE  call'[c] = call[c]
    BY <1>1, <2>1 DEF BeginCall, CallStep, ScheduleJob, BeginDeleteJobs,
       ReadScheduledJobs, ReadQueuedJobs, CreateJob, Created, CreationFails,
       ContinueJobWith, DeleteJobs, Answer
  <2>2. ASSUME CallStep(c) PROVE FALSE
    <3>1. CASE ReadScheduledJobs(c) \/ ReadQueuedJobs(c) \/ CreationFails(c)
               \/ DeleteJobs(c)
      BY <1>1, <1>2, <3>1 DEF ReadScheduledJobs, ReadQueuedJobs, CreationFails,
                              DeleteJobs, Answer, CallRecord
    <3>2. ASSUME NEW j \in Jobs, CreateJob(c, j) PROVE FALSE
      BY <1>1, <1>2, <3>2 DEF CreateJob, Created, Answer, CallRecord
    <3>3. ASSUME NEW j \in Jobs, NEW m \in Methods, ContinueJobWith(c, j, m) PROVE FALSE
      BY <1>1, <1>2, <3>3 DEF ContinueJobWith, CallRecord
    <3> QED
      BY <2>2, <3>1, <3>2, <3>3 DEF CallStep
  <2>3. ASSUME NEW m \in Methods, NEW at \in Times \cup {None}, NEW shift \in {0, Offset},
             NEW n \in Chains,
               ScheduleJob(c, m, at, shift, n)
        PROVE  FALSE
    BY <1>1, <2>3 DEF ScheduleJob, Answered
  <2>4. ASSUME Crash PROVE FALSE
    BY <1>2, <2>4 DEF Crash
  <2>5. CASE Tick \/ OperatorStep \/ WorkerStep \/ SchedulerStep
    BY <2>5 DEF Tick, OperatorStep, DeleteJob, RequeueJob, WorkerStep, Fetch, Perform,
                SchedulerStep, EnqueueScheduled
  <2> QED
    BY <2>1, <2>2, <2>3, <2>4, <2>5 DEF Next, Step, BeginCall
<1>4. CASE call'[c] = call[c]
  BY <1>4 DEF JobsInv, RangesAreTimes
<1>5. ASSUME NEW at \in Times, BeginDeleteJobs(c, at) PROVE call'[c].at # None
  BY <1>1, <1>5, JobsAssumption DEF BeginDeleteJobs, Answered
<1> QED
  BY <1>3, <1>4, <1>5

LEMMA FactsStep ==
  ASSUME JobsInv, Next
  PROVE  JobFacts'
<1>1. CASE Tick
  BY <1>1, UntouchedFacts DEF Tick
<1>2. CASE Crash
  BY <1>2, UntouchedFacts DEF Crash, Answered
<1>3. ASSUME NEW c \in Callers, BeginCall(c) \/ CallStep(c) PROVE JobFacts'
  BY <1>3, CallStepFacts, CreateFacts, ContinueFacts, DeleteRangeFacts
     DEF BeginCall, CallStep
<1>4. CASE OperatorStep \/ WorkerStep \/ SchedulerStep
  BY <1>4, DeleteFacts, MoveFacts, PerformFacts
     DEF OperatorStep, WorkerStep, SchedulerStep
<1> QED
  BY <1>1, <1>2, <1>3, <1>4 DEF Next, Step

LEMMA JobsInit == Init => JobsInv
<1> SUFFICES ASSUME Init PROVE JobsInv
  OBVIOUS
<1>1. TypeOK
  BY NoJobType, AnsweredType, JobsAssumption DEF Init, TypeOK, Times
<1>2. StatusesTell /\ ContinuationsWait /\ NoOrphans
  BY DEF Init, StatusesTell, ContinuationsWait, NoOrphans, NoJob
<1>3. ChainsAreShort /\ RangesAreTimes
  BY DEF Init, ChainsAreShort, AtMostGrandchild, RangesAreTimes, NoJob, Answered
<1> QED
  BY <1>1, <1>2, <1>3 DEF JobsInv

LEMMA JobsStep == JobsInv /\ [Next]_vars => JobsInv'
<1>1. CASE Next /\ JobsInv
  <2>1. TypeOK'
    BY <1>1, TypeStep DEF JobsInv
  <2> QED
    BY <1>1, <2>1, RangesStep, FactsStep DEF JobsInv, JobFacts
<1>2. CASE UNCHANGED vars /\ JobsInv
  BY <1>2 DEF vars, JobsInv, TypeOK, StatusesTell, ChainsAreShort, AtMostGrandchild,
              RangesAreTimes, ContinuationsWait, NoOrphans
<1> QED
  BY <1>1, <1>2

\* The invariant of the queue: types, statuses that tell what happened, chains no
\* longer than the two generations a deletion looks at.
THEOREM JobsInvariant == Spec => []JobsInv
<1> QED
  BY JobsInit, JobsStep, PTL DEF Spec

\* Every variable of the queue has its type.
THEOREM JobsTypeCorrect == Spec => []TypeOK
<1>1. JobsInv => TypeOK
  BY DEF JobsInv
<1> QED
  BY <1>1, JobsInvariant, PTL

\* JobsScheduler.ContinueJobWith: "Parent job id which needs to Succeed for newly
\* scheduled job to start", whatever the operator, retries and crashes do.
THEOREM ContinuationsAlwaysWait == Spec => []ContinuationsWait
<1>1. JobsInv => ContinuationsWait
  BY DEF JobsInv
<1> QED
  BY <1>1, JobsInvariant, PTL

\* No continuation waits for a job that has succeeded or was deleted.
THEOREM NoContinuationOrphaned == Spec => []NoOrphans
<1>1. JobsInv => NoOrphans
  BY DEF JobsInv
<1> QED
  BY <1>1, JobsInvariant, PTL

-----------------------------------------------------------------------------
(***************************************************************************)
(* The two reads of ScheduleJob, where local time is UTC.                  *)
(***************************************************************************)

\* A pending job that a request between its two reads has not dismissed yet: one
\* still scheduled has been seen in the schedule.
PendingSeen ==
  \A c \in Callers :
    /\ pending[c] \subseteq Pending(c)
    /\ call[c].pc = "queued" =>
         \A j \in pending[c] : job[j].status = "Scheduled" =>
           call[c].at = None /\ job[j].at \in call[c].seen

\* There every comparison is one of UTC with UTC.
LEMMA OneClock ==
  ASSUME TypeOK, Offset = 0, NEW c \in Callers
  PROVE  /\ LocalNow = now
         /\ call[c].at # None => call[c].at + call[c].shift = call[c].at
<1>1. call[c] \in CallRecord /\ now \in Int
  BY DEF TypeOK, Times
<1>2. call[c].shift = 0 /\ (call[c].at # None => call[c].at \in Int)
  BY <1>1 DEF CallRecord, Times
<1> QED
  BY <1>1, <1>2 DEF LocalNow

\* A page that all jobs fit on shows all jobs of a status.
LEMMA WholePage ==
  ASSUME IsFiniteSet(Jobs), Cardinality(Jobs) <= PerPage, NEW status
  PROVE  Pages(WithStatus(status)) = {WithStatus(status)}
<1>1. WithStatus(status) \in SUBSET Jobs
  BY DEF WithStatus
<1>2. IsFiniteSet(WithStatus(status)) /\ Cardinality(WithStatus(status)) <= Cardinality(Jobs)
  BY <1>1, FS_Subset
<1>3. Cardinality(WithStatus(status)) \in Nat /\ Cardinality(Jobs) \in Nat
  BY <1>2, FS_CardinalityType
<1>4. Cardinality(WithStatus(status)) <= PerPage
  BY <1>2, <1>3, JobsAssumption
<1> QED
  BY <1>4 DEF Pages

\* A job waiting to be run comes into the schedule only by being performed first.
LEMMA ScheduledBefore ==
  ASSUME JobsInv, Next, NEW j \in Jobs,
         job[j].status \in {"Scheduled", "Enqueued"}, job'[j].status = "Scheduled"
  PROVE  job[j].status = "Scheduled" /\ job'[j].at = job[j].at
<1>1. job \in [Jobs -> JobRecord]
  BY DEF JobsInv, TypeOK
<1>2. CASE job'[j] = job[j]
  BY <1>2
<1>3. CASE job'[j] # job[j]
  <2>1. ~UNCHANGED job
    BY <1>3
  <2>2. ASSUME NEW c \in Callers, CallStep(c) PROVE FALSE
    <3>1. ~ReadScheduledJobs(c) /\ ~ReadQueuedJobs(c) /\ ~CreationFails(c)
      BY <2>1 DEF ReadScheduledJobs, ReadQueuedJobs, CreationFails
    <3>2. ASSUME NEW i \in Jobs, CreateJob(c, i) PROVE FALSE
      BY <1>1, <1>3, <3>2 DEF CreateJob
    <3>3. ASSUME NEW i \in Jobs, NEW m \in Methods, ContinueJobWith(c, i, m) PROVE FALSE
      BY <1>1, <1>3, <3>3 DEF ContinueJobWith
    <3>4. ASSUME DeleteJobs(c) PROVE FALSE
      BY <1>1, <1>3, <3>4 DEF DeleteJobs, JobRecord
    <3> QED
      BY <2>2, <3>1, <3>2, <3>3, <3>4 DEF CallStep
  <2>3. ASSUME NEW i \in Jobs, DeleteJob(i) PROVE FALSE
    BY <1>1, <1>3, <2>3 DEF DeleteJob, JobRecord
  <2>4. ASSUME NEW i \in Jobs, RequeueJob(i) \/ Fetch(i) \/ EnqueueScheduled(i) PROVE FALSE
    BY <1>1, <1>3, <2>4 DEF RequeueJob, Fetch, EnqueueScheduled, JobRecord
  <2>5. ASSUME NEW i \in Jobs, NEW outcome \in Outcomes, Perform(i, outcome) PROVE FALSE
    <3>1. i # j => job'[j] = job[j]
      <4>1. j \notin Continuations({i})
        BY DEF Continuations
      <4> QED
        BY <1>1, <2>5, <4>1 DEF Perform
    <3>2. i # j
      BY <2>1, <2>5 DEF Perform
    <3> QED
      BY <1>3, <3>1, <3>2
  <2>6. ASSUME NEW c \in Callers, BeginCall(c) PROVE FALSE
    BY <2>1, <2>6 DEF BeginCall, ScheduleJob, BeginDeleteJobs
  <2>7. ~Tick /\ ~Crash
    BY <2>1 DEF Tick, Crash
  <2> QED
    BY <2>2, <2>3, <2>4, <2>5, <2>6, <2>7
       DEF Next, Step, OperatorStep, WorkerStep, SchedulerStep
<1> QED
  BY <1>2, <1>3

\* A request comes to its second read and to its creation only by reading.
LEMMA RequestsRead ==
  ASSUME JobsInv, Next, NEW c \in Callers, call'[c].pc \in {"queued", "create"}
  PROVE  \/ call'[c] = call[c]
         \/ ReadScheduledJobs(c)
         \/ ReadQueuedJobs(c) /\ call'[c].pc = "create"
<1>1. call \in [Callers -> CallRecord]
  BY DEF JobsInv, TypeOK
<1>2. \A answer : Answered(answer).pc = "idle"
  BY DEF Answered
<1>3. ASSUME NEW d \in Callers, BeginCall(d) \/ CallStep(d), d # c
      PROVE  call'[c] = call[c]
  BY <1>1, <1>3 DEF BeginCall, CallStep, ScheduleJob, BeginDeleteJobs,
     ReadScheduledJobs, ReadQueuedJobs, CreateJob, Created, CreationFails,
     ContinueJobWith, DeleteJobs, Answer
<1>4. ASSUME NEW m \in Methods, NEW at \in Times \cup {None}, NEW shift \in {0, Offset},
             NEW n \in Chains,
             ScheduleJob(c, m, at, shift, n)
      PROVE  FALSE
  BY <1>1, <1>4 DEF ScheduleJob, Answered
<1>5. ASSUME NEW at \in Times, BeginDeleteJobs(c, at) PROVE FALSE
  BY <1>1, <1>5 DEF BeginDeleteJobs, Answered
<1>6. ASSUME NEW j \in Jobs, CreateJob(c, j) PROVE FALSE
  BY <1>1, <1>2, <1>6 DEF CreateJob, Created, Answer, CallRecord
<1>7. ASSUME NEW j \in Jobs, NEW m \in Methods, ContinueJobWith(c, j, m) PROVE FALSE
  BY <1>1, <1>2, <1>7 DEF ContinueJobWith, CallRecord
<1>8. ASSUME CreationFails(c) \/ DeleteJobs(c) PROVE FALSE
  BY <1>1, <1>2, <1>8 DEF CreationFails, DeleteJobs, Answer
<1>9. ASSUME ReadQueuedJobs(c) PROVE call'[c].pc = "create"
  BY <1>1, <1>2, <1>9 DEF ReadQueuedJobs, Answer, CallRecord
<1>10. ASSUME Crash PROVE FALSE
  BY <1>2, <1>10 DEF Crash
<1>11. CASE Tick \/ OperatorStep \/ WorkerStep \/ SchedulerStep
  BY <1>11 DEF Tick, OperatorStep, DeleteJob, RequeueJob, WorkerStep, Fetch, Perform,
               SchedulerStep, EnqueueScheduled
<1> QED
  BY <1>3, <1>4, <1>5, <1>6, <1>7, <1>8, <1>9, <1>10, <1>11
     DEF Next, Step, BeginCall, CallStep

\* What the first read leaves pending: of the scheduled jobs only those it will judge
\* by their times, and no queued one unless there is a second read.
LEMMA FirstRead ==
  ASSUME JobsInv, Offset = 0, IsFiniteSet(Jobs), Cardinality(Jobs) <= PerPage,
         NEW c \in Callers, ReadScheduledJobs(c), NEW j \in Pending(c)'
  PROVE  /\ call'[c].pc = "queued" =>
              (job'[j].status = "Scheduled" =>
                 call'[c].at = None /\ job'[j].at \in call'[c].seen)
         /\ call'[c].pc # "create"
<1> DEFINE at == call[c].at
           seen == SimilarTimes(WithStatus("Scheduled"), call[c].method)
           taken == at # None /\ \E t \in seen : IsCloseTo(t, at)
<1>1. call \in [Callers -> CallRecord] /\ call[c] \in CallRecord
  BY DEF JobsInv, TypeOK
<1>2. Pages(WithStatus("Scheduled")) = {WithStatus("Scheduled")}
  BY WholePage
<1>3. \/ /\ at = None
         /\ call' = [call EXCEPT ![c] = [@ EXCEPT !.pc = "queued", !.seen = seen]]
      \/ Answer(c, "failure")
      \/ /\ at # None /\ ~taken
         /\ call' = [call EXCEPT ![c].pc =
                       IF IsCloseTo(at, now) THEN "queued" ELSE "create"]
  <2>1. TypeOK
    BY DEF JobsInv
  <2> HIDE DEF seen
  <2>2. \/ /\ at = None
           /\ call' = [call EXCEPT ![c] = [@ EXCEPT !.pc = "queued", !.seen = seen]]
        \/ Answer(c, "failure")
        \/ /\ at # None /\ ~\E t \in seen : IsCloseTo(t, at + call[c].shift)
           /\ call' = [call EXCEPT ![c].pc =
                IF IsCloseTo(at + call[c].shift, LocalNow) THEN "queued" ELSE "create"]
    BY <1>2 DEF ReadScheduledJobs, seen
  <2> QED
    BY <2>1, <2>2, OneClock
<1>4. UNCHANGED <<now, job>>
  BY DEF ReadScheduledJobs
<1>5. CASE /\ at = None
           /\ call' = [call EXCEPT ![c] = [@ EXCEPT !.pc = "queued", !.seen = seen]]
  <2>1. /\ call'[c].pc = "queued" /\ call'[c].at = None /\ call'[c].seen = seen
        /\ call'[c].method = call[c].method
    BY <1>1, <1>5 DEF CallRecord
  <2>2. j \in Jobs /\ JobMatchesMethod(j, call[c].method)
    BY <1>4, <2>1 DEF Pending, JobMatchesMethod
  <2>3. job[j].status = "Scheduled" => job[j].at \in seen
    BY <2>2 DEF SimilarTimes, WithStatus
  <2> QED
    BY <1>4, <2>1, <2>3
<1>6. CASE Answer(c, "failure")
  BY <1>1, <1>6 DEF Answer, Answered
<1>7. CASE /\ at # None /\ ~taken
           /\ call' = [call EXCEPT ![c].pc =
                         IF IsCloseTo(at, now) THEN "queued" ELSE "create"]
  <2>1. /\ call'[c].pc = IF IsCloseTo(at, now) THEN "queued" ELSE "create"
        /\ call'[c].at = at /\ call'[c].method = call[c].method
    BY <1>1, <1>7 DEF CallRecord
  <2>2. /\ j \in Jobs /\ JobMatchesMethod(j, call[c].method)
        /\ \/ job[j].status = "Scheduled" /\ IsCloseTo(job[j].at, at)
           \/ job[j].status = "Enqueued" /\ IsCloseTo(at, now)
    BY <1>4, <1>7, <2>1 DEF Pending, JobMatchesMethod, IsCloseTo
  <2>3. job[j].status = "Scheduled" => job[j].at \in seen
    BY <2>2 DEF SimilarTimes, WithStatus
  <2> HIDE DEF seen
  <2>4. job[j].status # "Scheduled"
    BY <1>7, <2>2, <2>3
  <2> QED
    BY <1>4, <2>1, <2>2, <2>4
<1> QED
  BY <1>3, <1>5, <1>6, <1>7

\* A request passes its second read only if nothing it has followed is pending: the
\* queue shows what has moved there, the times what has stayed in the schedule.
LEMMA SecondRead ==
  ASSUME JobsInv, PendingSeen, Offset = 0, IsFiniteSet(Jobs), Cardinality(Jobs) <= PerPage,
         NEW c \in Callers, ReadQueuedJobs(c), call'[c].pc = "create"
  PROVE  pending[c] = {}
<1> SUFFICES ASSUME NEW j \in pending[c] PROVE FALSE
  OBVIOUS
<1>1. call \in [Callers -> CallRecord]
  BY DEF JobsInv, TypeOK
<1>2. Pages(WithStatus("Enqueued")) = {WithStatus("Enqueued")}
  BY WholePage
<1>3. /\ ~\E t \in call[c].seen : IsCloseTo(t, now)
      /\ ~\E i \in WithStatus("Enqueued") : JobMatchesMethod(i, call[c].method)
  <2>1. LocalNow = now
    BY OneClock DEF JobsInv
  <2>2. ~Answer(c, "failure")
    BY <1>1 DEF Answer, Answered
  <2> QED
    BY <1>2, <2>1, <2>2 DEF ReadQueuedJobs
<1>4. j \in Pending(c)
  BY DEF PendingSeen
<1>5. j \in Jobs /\ JobMatchesMethod(j, call[c].method)
  BY <1>4 DEF Pending
<1>6. job[j].status # "Enqueued"
  BY <1>3, <1>5 DEF WithStatus
<1>7. job[j].status = "Scheduled"
  BY <1>4, <1>6 DEF Pending
<1>8. call[c].at = None /\ job[j].at \in call[c].seen
  BY <1>7 DEF ReadQueuedJobs, PendingSeen
<1>9. IsCloseTo(job[j].at, now)
  BY <1>4, <1>7, <1>8 DEF Pending
<1> QED
  BY <1>3, <1>8, <1>9

LEMMA PendingStep ==
  ASSUME JobsInv, PendingSeen, NothingPendingMissed, Next, Offset = 0,
         IsFiniteSet(Jobs), Cardinality(Jobs) <= PerPage
  PROVE  PendingSeen' /\ NothingPendingMissed'
<1>1. ASSUME NEW c \in Callers PROVE pending'[c] \subseteq Pending(c)'
  BY DEF Next, HistoryFollows
<1>2. ASSUME NEW c \in Callers, call[c].pc # "idle"
      PROVE  pending'[c] \subseteq pending[c]
  BY <1>2 DEF Next, HistoryFollows
<1>3. ASSUME NEW c \in Callers, call'[c].pc = "queued", NEW j \in pending'[c],
             job'[j].status = "Scheduled"
      PROVE  call'[c].at = None /\ job'[j].at \in call'[c].seen
  <2>1. CASE call'[c] = call[c]
    <3>1. j \in pending[c] /\ j \in Pending(c)
      BY <1>2, <1>3, <2>1 DEF PendingSeen
    <3>2. j \in Jobs /\ job[j].status \in {"Scheduled", "Enqueued"}
      BY <3>1 DEF Pending
    <3>3. job[j].status = "Scheduled" /\ job'[j].at = job[j].at
      BY <1>3, <3>2, ScheduledBefore
    <3> QED
      BY <1>3, <2>1, <3>1, <3>3 DEF PendingSeen
  <2>2. CASE ReadScheduledJobs(c)
    BY <1>1, <1>3, <2>2, FirstRead
  <2> QED
    BY <1>3, <2>1, <2>2, RequestsRead
<1>4. ASSUME NEW c \in Callers, call'[c].pc = "create"
      PROVE  pending'[c] = {}
  <2>1. CASE call'[c] = call[c]
    BY <1>2, <1>4, <2>1 DEF NothingPendingMissed
  <2>2. CASE ReadScheduledJobs(c)
    BY <1>1, <1>4, <2>2, FirstRead
  <2>3. CASE ReadQueuedJobs(c)
    <3>1. call[c].pc # "idle"
      BY <2>3 DEF ReadQueuedJobs
    <3> QED
      BY <1>2, <1>4, <2>3, <3>1, SecondRead
  <2> QED
    BY <1>4, <2>1, <2>2, <2>3, RequestsRead
<1> QED
  BY <1>1, <1>3, <1>4 DEF PendingSeen, NothingPendingMissed

\* No step, and no stuttering step, disturbs what a request knows of the pending jobs.
LEMMA PendingKept ==
  ASSUME JobsInv, PendingSeen, NothingPendingMissed, [Next]_vars, Offset = 0,
         IsFiniteSet(Jobs), Cardinality(Jobs) <= PerPage
  PROVE  PendingSeen' /\ NothingPendingMissed'
<1>1. CASE UNCHANGED vars
  BY <1>1 DEF vars, PendingSeen, NothingPendingMissed, Pending, JobMatchesMethod, IsCloseTo
<1>2. CASE Next
  BY <1>2, PendingStep
<1> QED
  BY <1>1, <1>2

\* JobsScheduler.EnqueueImmediately, "If similar job is already scheduled or in queue
\* now, nothing is done": while local time is UTC and a page shows all jobs there are,
\* the two reads of a request miss none that was pending all the while, however it
\* moves between schedule and queue.
THEOREM NothingMissed ==
  ASSUME Offset = 0, IsFiniteSet(Jobs), Cardinality(Jobs) <= PerPage
  PROVE  Spec => []NothingPendingMissed
<1>1. Init => PendingSeen /\ NothingPendingMissed
  BY DEF Init, PendingSeen, NothingPendingMissed, Answered
<1>2. JobsInv /\ PendingSeen /\ NothingPendingMissed /\ [Next]_vars
        => PendingSeen' /\ NothingPendingMissed'
  BY PendingKept
<1> QED
  BY <1>1, <1>2, JobsInvariant, PTL DEF Spec
=============================================================================
