-------------------------- MODULE RangePlannerProofs --------------------------
(***************************************************************************)
(* Proofs about RangePlanner and the estimate jobs it extends, for any     *)
(* number of jobs, requests, ranges, days and calls.                       *)
(***************************************************************************)
EXTENDS RangePlanner, SumLemmas, FiniteSetTheorems, TLAPS

\* What a thread does to its record never touches its job.
IsRun(a) == "job" \in DOMAIN a

(* The registry names exactly the jobs that have a thread: a job whose     *)
(* task is registered is not started, and a thread takes its task along    *)
(* when it ends.                                                           *)
RunsInv ==
  /\ \A a \in runs : IsRun(a)
  /\ registry = {a.job : a \in runs}
  /\ AtMostOneRun

\* A thread that goes on keeps its job.
LEMMA GoingOn ==
  ASSUME RunsInv, NEW a \in runs, NEW b, IsRun(b), b.job = a.job,
         Goes(a, b), UNCHANGED registry
  PROVE  RunsInv'
BY DEF RunsInv, IsRun, AtMostOneRun, Goes

\* So does one of which only the place moves.
LEMMA MovingOn ==
  ASSUME RunsInv, NEW a \in runs, NEW pc, At(a, pc), UNCHANGED registry
  PROVE  RunsInv'
<1>1. IsRun([a EXCEPT !.pc = pc]) /\ [a EXCEPT !.pc = pc].job = a.job
  BY DEF RunsInv, IsRun
<1> QED
  BY <1>1, GoingOn DEF At

\* A thread that ends takes its registration along.
LEMMA Ending ==
  ASSUME RunsInv, NEW a \in runs, RunEnds(a)
  PROVE  RunsInv'
BY DEF RunsInv, AtMostOneRun, RunEnds

\* A new thread is one of its job.
LEMMA NewRunIs ==
  ASSUME NEW j
  PROVE  IsRun(NewRun(j)) /\ NewRun(j).job = j
BY DEF IsRun, NewRun

\* A job is started only if it is not registered.
LEMMA Starting ==
  ASSUME RunsInv, NEW j, StartTask(j)
  PROVE  RunsInv'
<1>1. CASE j \in registry
  BY <1>1 DEF RunsInv, StartTask, AtMostOneRun
<1>2. CASE j \notin registry
  <2>1. registry' = registry \cup {j} /\ runs' = runs \cup {NewRun(j)}
    BY <1>2 DEF StartTask
  <2> QED
    BY <1>2, <2>1, NewRunIs DEF RunsInv, AtMostOneRun, IsRun
<1> QED
  BY <1>1, <1>2

\* Nothing happens to the threads.
LEMMA Resting ==
  ASSUME RunsInv, UNCHANGED <<runs, registry>>
  PROVE  RunsInv'
BY DEF RunsInv, AtMostOneRun

-----------------------------------------------------------------------------

\* Every step of run_estimate_job keeps one thread per registered job.
LEMMA RunStepKeepsRuns ==
  ASSUME RunsInv, NEW a \in runs, JobRunStep(a)
  PROVE  RunsInv'
<1>1. CASE ReadJob(a)
  BY <1>1, MovingOn, Ending DEF ReadJob
<1>2. CASE MarkLate(a)
  BY <1>2, Ending DEF MarkLate
<1>3. CASE MarkRunning(a)
  BY <1>3, MovingOn DEF MarkRunning
<1>4. CASE ReadForReport(a)
  BY <1>4, MovingOn, Ending DEF ReadForReport
<1>5. CASE WriteReport(a)
  BY <1>5, MovingOn DEF WriteReport
<1>6. CASE ReadForResult(a)
  BY <1>6, MovingOn, Ending DEF ReadForResult
<1>7. CASE WriteResult(a)
  BY <1>7, Ending DEF WriteResult
<1>8. CASE WriteFailure(a)
  BY <1>8, Ending DEF WriteFailure
<1> QED
  BY <1>1, <1>2, <1>3, <1>4, <1>5, <1>6, <1>7, <1>8 DEF JobRunStep

\* A new row gets its one task.
LEMMA NewJobKeepsRuns ==
  ASSUME RunsInv, NEW r, NewJob(r)
  PROVE  RunsInv'
BY Starting DEF NewJob

\* So do the endpoints, a crash and a start.
LEMMA JobStepKeepsRuns ==
  ASSUME RunsInv, JobStep
  PROVE  RunsInv'
<1>1. ASSUME NEW r \in Requests, CreateJob(r) PROVE RunsInv'
  BY <1>1, Starting, NewJobKeepsRuns DEF CreateJob
<1>2. ASSUME NEW j \in JobsCreated, RetryJob(j) PROVE RunsInv'
  BY <1>2, NewJobKeepsRuns DEF RetryJob
<1>3. ASSUME NEW j \in JobsCreated,
             ReadForCancel(j) \/ WriteCancelled(j) \/ JobTtlElapses(j) \/ WriteExpired(j)
      PROVE  RunsInv'
  BY <1>3, Resting DEF ReadForCancel, WriteCancelled, JobTtlElapses, WriteExpired
<1>4. CASE ListExpirable
  BY <1>4, Resting DEF ListExpirable
<1>5. CASE ServiceEnds
  BY <1>5 DEF ServiceEnds, RunsInv, AtMostOneRun
<1>6. CASE ServiceStarts
  BY <1>6, NewRunIs DEF ServiceStarts, RunsInv, AtMostOneRun
<1>7. ASSUME NEW a \in runs, JobRunStep(a) PROVE RunsInv'
  BY <1>7, RunStepKeepsRuns
<1> QED
  BY <1>1, <1>2, <1>3, <1>4, <1>5, <1>6, <1>7 DEF JobStep

\* And so does what a run works on.
LEMMA RangeStepKeepsRuns ==
  ASSUME RunsInv, NEW a \in runs, RangeRunStep(a) \/ SingleRunSaves(a) \/ SingleRunFails(a)
  PROVE  RunsInv'
<1>1. CASE Begin(a)
  BY <1>1, GoingOn DEF Begin, RunsInv, IsRun
<1>2. CASE BeginFails(a)
  BY <1>2, MovingOn DEF BeginFails
<1>3. CASE AfterReport(a)
  BY <1>3, MovingOn DEF AfterReport
<1>4. CASE EstimateDay(a)
  BY <1>4, MovingOn DEF EstimateDay
<1>5. CASE DayFails(a)
  BY <1>5, GoingOn DEF DayFails, RunsInv, IsRun
<1>6. CASE ReadChild(a)
  BY <1>6, GoingOn DEF ReadChild, RunsInv, IsRun
<1>7. CASE UpdateChild(a)
  BY <1>7, GoingOn DEF UpdateChild, RunsInv, IsRun
<1>8. CASE FinishRange(a)
  BY <1>8, MovingOn DEF FinishRange
<1>9. CASE SingleRunSaves(a) \/ SingleRunFails(a)
  BY <1>9, MovingOn DEF SingleRunSaves, SingleRunFails
<1> QED
  BY <1>1, <1>2, <1>3, <1>4, <1>5, <1>6, <1>7, <1>8, <1>9 DEF RangeRunStep

\* Every step of the service keeps one thread per registered job.
LEMMA StepKeepsRuns ==
  ASSUME RunsInv, [RangeNext]_vars
  PROVE  RunsInv'
<1>1. CASE JobStep
  BY <1>1, JobStepKeepsRuns
<1>2. ASSUME NEW a \in runs, RangeRunStep(a) \/ SingleRunSaves(a) \/ SingleRunFails(a)
      PROVE  RunsInv'
  BY <1>2, RangeStepKeepsRuns
<1>3. ASSUME NEW r \in Ranges, PlanTtlElapses(r) \/ \E k \in Keys : ReadPlan(r, k)
      PROVE  RunsInv'
  BY <1>3, Resting DEF PlanTtlElapses, ReadPlan
<1>4. ASSUME NEW c \in confirm, Refuse(c) \/ Confirm(c)
      PROVE  RunsInv'
  BY <1>4, Resting DEF Refuse, Confirm, jobVars
<1>5. ASSUME NEW d \in Days, AuthorizeDay(d) \/ CancelDay(d) \/ EstimateAlone(d) \/ Import(d)
      PROVE  RunsInv'
  BY <1>5, Resting DEF AuthorizeDay, CancelDay, EstimateAlone, Import
<1>6. CASE UNCHANGED vars
  BY <1>6, Resting DEF vars, jobVars
<1> QED
  BY <1>1, <1>2, <1>3, <1>4, <1>5, <1>6 DEF RangeNext

(* No job is run by two threads at once: repeated requests, retries and a  *)
(* start after a crash schedule a job only while no task of it is          *)
(* registered, and a thread leaves the registry with its last write        *)
(* (_schedule_estimate_job, _execute_estimate_job).                        *)
THEOREM OneRunPerJob == RangeSpec => []AtMostOneRun
<1>1. RangeInit => RunsInv
  BY DEF RangeInit, JobsInit, RunsInv, AtMostOneRun
<1>2. RunsInv /\ [RangeNext]_vars => RunsInv'
  BY StepKeepsRuns
<1>3. RunsInv => AtMostOneRun
  BY DEF RunsInv
<1> QED
  BY <1>1, <1>2, <1>3, PTL DEF RangeSpec
-----------------------------------------------------------------------------
(* Reviews are current.                                                    *)

RunFields == {"job", "pc", "day", "read", "quotes"}

IsEstimate(x) == {"price", "local", "limit"} \subseteq DOMAIN x /\ x.price \in Nat /\ (x.local => x.price = 0)

Computing == {"report", "beat", "reported", "day", "child", "write", "summary"}

Early == {"start", "late", "mark", "work"}

DaySet(r) == {DaysOf[r][k] : k \in 1 .. Len(DaysOf[r])}

\* What is known of a thread: a range is computed day by day.
RunTypeOK(a) ==
  /\ DOMAIN a = RunFields
  /\ a.job \in DOMAIN jobs
  /\ a.pc \in Computing => RequestOf(a) \in Ranges /\ a.day \in Nat \ {0}
  /\ a.pc \in {"day", "child", "write"} => a.day <= Len(DaysOf[RequestOf(a)])
  /\ \A x \in a.read : IsEstimate(x)
  /\ a.pc = "write" => a.read # {}
  /\ a.pc \in Early => a.quotes = {}

PlanOK(p) == {"status", "quotes", "fresh"} \subseteq DOMAIN p

JobsOK == \E n \in Nat : /\ DOMAIN jobs = 1 .. n
                         /\ \A j \in 1 .. n : "request" \in DOMAIN jobs[j] /\ jobs[j].request \in Requests
RunsOK == \A a \in runs : RunTypeOK(a)
EstOK == DOMAIN est = Days /\ \A d \in Days : IsEstimate(est[d])
AuthOK == auth \in [Days -> Nat \cup {None}]
PlansOK == DOMAIN plan = Ranges /\ \A r \in Ranges : PlanOK(plan[r])
ConfirmOK == \A c \in confirm : c.range \in Ranges /\ PlanOK(c.plan)

TypeInv == JobsOK /\ RunsOK /\ EstOK /\ AuthOK /\ PlansOK /\ ConfirmOK

Computes(a, r) == a \in runs /\ a.pc \in Computing /\ RequestOf(a) = r

Current(q) == auth[q.day] # None \/ est[q.day].local \/ est[q.day].price = q.price

(* While nobody disturbs it, a range is computed by one thread, has no     *)
(* review meanwhile, and what the thread has quoted so far, of days before *)
(* the one it is at, is current; so is the review it leaves.               *)
Undisturbed(r) ==
  /\ \A a, b \in runs : Computes(a, r) /\ Computes(b, r) => a.job = b.job
  /\ \A a \in runs : Computes(a, r) =>
       /\ plan[r].status # "READY_FOR_REVIEW"
       /\ \A q \in a.quotes : /\ Current(q)
                              /\ \E k \in 1 .. Len(DaysOf[r]) : k < a.day /\ q.day = DaysOf[r][k]
  /\ plan[r].status = "READY_FOR_REVIEW" =>
       \A q \in plan[r].quotes : Current(q) /\ q.day \in DaySet(r)

QuotesInv == \A r \in Ranges \ disturbed : Undisturbed(r)

-----------------------------------------------------------------------------
(* Types.                                                                  *)

\* The rows grow and keep their requests.
SameRequests ==
  /\ DOMAIN jobs \subseteq DOMAIN jobs'
  /\ \A i \in DOMAIN jobs : jobs'[i].request = jobs[i].request

\* A status written into a row changes no request.
LEMMA MarkedJobs ==
  ASSUME JobsOK, NEW j \in DOMAIN jobs, NEW s, StatusIs(j, s)
  PROVE  JobsOK' /\ SameRequests
BY DEF JobsOK, StatusIs, SameRequests

\* A new row is numbered after the others, which keep their places.
LEMMA JobsAppended ==
  ASSUME JobsOK, NEW r \in Requests, NewJob(r)
  PROVE  JobsOK' /\ SameRequests /\ Cardinality(JobsCreated) + 1 \in DOMAIN jobs'
<1>1. PICK n \in Nat : /\ DOMAIN jobs = 1 .. n
                       /\ \A j \in 1 .. n : "request" \in DOMAIN jobs[j] /\ jobs[j].request \in Requests
  BY DEF JobsOK
<1> DEFINE last == Cardinality(JobsCreated) + 1
<1>2. last = n + 1
  <2>1. Cardinality(1 .. n) = IF 1 > n THEN 0 ELSE n - 1 + 1
    BY FS_Interval
  <2>2. JobsCreated = 1 .. n
    BY <1>1 DEF JobsCreated
  <2>3. Cardinality(JobsCreated) = n
    BY <2>1, <2>2
  <2> QED
    BY <2>3
<1>3. jobs' = [i \in 1 .. last |-> IF i = last THEN [status |-> "PENDING", request |-> r, fresh |-> TRUE]
                                   ELSE jobs[i]]
  BY Zenon DEF NewJob
<1> HIDE DEF last
<1>4. /\ DOMAIN jobs' = 1 .. n + 1
      /\ \A i \in 1 .. n : jobs'[i] = jobs[i]
      /\ jobs'[n + 1] = [status |-> "PENDING", request |-> r, fresh |-> TRUE]
  BY <1>1, <1>2, <1>3
<1>5. "request" \in DOMAIN jobs'[n + 1] /\ jobs'[n + 1].request = r
  BY <1>4
<1>6. \A i \in 1 .. n + 1 : i \in 1 .. n \/ i = n + 1
  OBVIOUS
<1>7. JobsOK'
  <2>1. \A j \in 1 .. n + 1 : "request" \in DOMAIN jobs'[j] /\ jobs'[j].request \in Requests
    BY <1>1, <1>4, <1>5, <1>6
  <2> QED
    BY <1>4, <2>1 DEF JobsOK
<1>8. SameRequests
  BY <1>1, <1>4 DEF SameRequests
<1>9. last \in DOMAIN jobs'
  BY <1>2, <1>4
<1> QED
  BY <1>7, <1>8, <1>9 DEF last

(* A thread that computes a range after a step did so before it, and has   *)
(* quoted no more.                                                         *)
Continues ==
  \A b \in runs' : b.pc \in Computing =>
    \E a \in runs : a.pc \in Computing /\ a.job = b.job /\ a.day <= b.day /\ a.quotes = b.quotes

\* No row is written.
LEMMA SameJobs ==
  ASSUME UNCHANGED jobs
  PROVE  SameRequests
BY DEF SameRequests

\* A thread stays what it is while the requests do.
LEMMA SameRun ==
  ASSUME SameRequests, NEW a, RunTypeOK(a)
  PROVE  RunTypeOK(a)' /\ RequestOf(a)' = RequestOf(a)
BY DEF SameRequests, RunTypeOK, RequestOf

\* Threads that are left alone, or end, go on with what they quoted.
LEMMA Staying ==
  ASSUME RunsOK, SameRequests, runs' \subseteq runs
  PROVE  RunsOK' /\ Continues
<1>1. \A b \in runs' : RunTypeOK(b)'
  BY SameRun DEF RunsOK
<1>2. \A b \in runs' : b.pc \in Computing => b.day <= b.day
  BY DEF RunsOK, RunTypeOK
<1> QED
  BY <1>1, <1>2 DEF RunsOK, Continues

\* A thread is replaced by another of its job, as in every step of a run.
LEMMA Replacing ==
  ASSUME RunsOK, SameRequests, NEW a \in runs, NEW b, Goes(a, b), RunTypeOK(b),
         b.pc \in Computing => a.pc \in Computing /\ a.job = b.job /\ a.day <= b.day /\ a.quotes = b.quotes
  PROVE  RunsOK' /\ Continues
<1>1. \A c \in runs' : c \in runs \/ c = b
  BY DEF Goes
<1>2. RunsOK'
  BY <1>1, SameRun DEF RunsOK
<1>3. \A c \in runs : c.pc \in Computing => c.day <= c.day
  BY DEF RunsOK, RunTypeOK
<1>4. Continues
  BY <1>1, <1>3 DEF Continues
<1> QED
  BY <1>2, <1>4

\* A thread moves on outside of the steps of a day.
LEMMA Moving ==
  ASSUME RunsOK, SameRequests, NEW a \in runs, NEW pc, At(a, pc),
         pc \in Computing => a.pc \in Computing, pc \in Early => a.pc \in Early, pc \notin {"day", "child", "write"}
  PROVE  RunsOK' /\ Continues
<1> DEFINE b == [a EXCEPT !.pc = pc]
<1>1. RunTypeOK(a)
  BY DEF RunsOK
<1>2. /\ DOMAIN b = RunFields /\ b.pc = pc /\ b.job = a.job
      /\ b.day = a.day /\ b.read = a.read /\ b.quotes = a.quotes
  BY <1>1 DEF RunTypeOK, RunFields
<1>3. Goes(a, b)
  BY DEF At
<1> HIDE DEF b
<1>4. RunTypeOK(b)
  BY <1>1, <1>2 DEF RunTypeOK, RequestOf
<1>5. b.pc \in Computing => a.day <= b.day
  BY <1>1, <1>2 DEF RunTypeOK
<1> QED
  BY <1>2, <1>3, <1>4, <1>5, Replacing

\* A thread that begins computes nothing yet.
LEMMA Beginning ==
  ASSUME RunsOK, SameRequests, NEW j \in DOMAIN jobs', StartTask(j)
  PROVE  RunsOK' /\ Continues
<1>1. CASE UNCHANGED runs
  BY <1>1, Staying
<1>2. CASE runs' = runs \cup {NewRun(j)}
  <2>1. RunTypeOK(NewRun(j))' /\ NewRun(j).pc \notin Computing
    BY DEF RunTypeOK, NewRun, RunFields, Computing
  <2>2. RunsOK'
    BY <1>2, <2>1, SameRun DEF RunsOK
  <2>3. \A c \in runs : c.pc \in Computing => c.day <= c.day
    BY DEF RunsOK, RunTypeOK
  <2> QED
    BY <1>2, <2>1, <2>2, <2>3 DEF Continues
<1> QED
  BY <1>1, <1>2 DEF StartTask

-----------------------------------------------------------------------------

\* The steps of run_estimate_job quote nothing.
LEMMA JobRunStepGoesOn ==
  ASSUME JobsOK, RunsOK, NEW a \in runs, JobRunStep(a)
  PROVE  JobsOK' /\ SameRequests /\ RunsOK' /\ Continues
<1>0. a.job \in DOMAIN jobs
  BY DEF RunsOK, RunTypeOK
<1>1. CASE ReadJob(a)
  <2>1. JobsOK' /\ SameRequests
    BY <1>1, SameJobs DEF ReadJob, JobsOK
  <2> QED
    BY <1>1, <2>1, Moving, Staying DEF ReadJob, RunEnds, Computing, Early
<1>2. CASE MarkLate(a)
  BY <1>0, <1>2, MarkedJobs, Staying DEF MarkLate, RunEnds
<1>3. CASE MarkRunning(a)
  <2>1. JobsOK' /\ SameRequests
    BY <1>0, <1>3, MarkedJobs DEF MarkRunning
  <2> QED
    BY <1>3, <2>1, Moving DEF MarkRunning, Computing, Early
<1>4. CASE ReadForReport(a)
  <2>1. JobsOK' /\ SameRequests
    BY <1>4, SameJobs DEF ReadForReport, JobsOK
  <2> QED
    BY <1>4, <2>1, Moving, Staying DEF ReadForReport, RunEnds, Computing, Early
<1>5. CASE WriteReport(a)
  <2>1. JobsOK' /\ SameRequests
    BY <1>0, <1>5, MarkedJobs DEF WriteReport
  <2> QED
    BY <1>5, <2>1, Moving DEF WriteReport, Computing, Early
<1>6. CASE ReadForResult(a)
  <2>1. JobsOK' /\ SameRequests
    BY <1>6, SameJobs DEF ReadForResult, JobsOK
  <2> QED
    BY <1>6, <2>1, Moving, Staying DEF ReadForResult, RunEnds, Computing, Early
<1>7. CASE WriteResult(a)
  BY <1>0, <1>7, MarkedJobs, Staying DEF WriteResult, RunEnds
<1>8. CASE WriteFailure(a)
  BY <1>0, <1>8, MarkedJobs, Staying DEF WriteFailure, RunEnds
<1> QED
  BY <1>1, <1>2, <1>3, <1>4, <1>5, <1>6, <1>7, <1>8 DEF JobRunStep

\* Nor does a new row.
LEMMA NewJobGoesOn ==
  ASSUME JobsOK, RunsOK, NEW r \in Requests, NewJob(r)
  PROVE  JobsOK' /\ SameRequests /\ RunsOK' /\ Continues
<1>1. JobsOK' /\ SameRequests /\ Cardinality(JobsCreated) + 1 \in DOMAIN jobs'
  BY JobsAppended
<1>2. StartTask(Cardinality(JobsCreated) + 1)
  BY DEF NewJob
<1> QED
  BY <1>1, <1>2, Beginning

\* Nor does any step of the jobs alone.
LEMMA JobStepGoesOn ==
  ASSUME JobsOK, RunsOK, JobStep
  PROVE  JobsOK' /\ SameRequests /\ RunsOK' /\ Continues
<1>1. ASSUME NEW r \in Requests, CreateJob(r)
      PROVE  JobsOK' /\ SameRequests /\ RunsOK' /\ Continues
  <2>1. CASE NewJob(r)
    BY <2>1, NewJobGoesOn
  <2>2. ASSUME NEW j \in Reusable(r), StartTask(j), UNCHANGED jobs
        PROVE  JobsOK' /\ SameRequests /\ RunsOK' /\ Continues
    <3>1. JobsOK' /\ SameRequests /\ j \in DOMAIN jobs'
      BY <2>2, SameJobs DEF JobsOK, Reusable, JobsCreated
    <3> QED
      BY <2>2, <3>1, Beginning
  <2> QED
    BY <1>1, <2>1, <2>2 DEF CreateJob
<1>2. ASSUME NEW j \in JobsCreated, RetryJob(j)
      PROVE  JobsOK' /\ SameRequests /\ RunsOK' /\ Continues
  <2>1. jobs[j].request \in Requests /\ NewJob(jobs[j].request)
    BY <1>2 DEF RetryJob, JobsOK, JobsCreated
  <2> QED
    BY <2>1, NewJobGoesOn
<1>3. ASSUME NEW j \in JobsCreated, WriteCancelled(j) \/ WriteExpired(j)
      PROVE  JobsOK' /\ SameRequests /\ RunsOK' /\ Continues
  <2>1. JobsOK' /\ SameRequests
    BY <1>3, MarkedJobs DEF WriteCancelled, WriteExpired, JobsCreated
  <2> QED
    BY <1>3, <2>1, Staying DEF WriteCancelled, WriteExpired
<1>4. ASSUME NEW j \in JobsCreated, JobTtlElapses(j)
      PROVE  JobsOK' /\ SameRequests /\ RunsOK' /\ Continues
  <2>1. JobsOK' /\ SameRequests
    BY <1>4 DEF JobTtlElapses, JobsOK, SameRequests
  <2> QED
    BY <1>4, <2>1, Staying DEF JobTtlElapses
<1>5. ASSUME (\E j \in JobsCreated : ReadForCancel(j)) \/ ListExpirable
      PROVE  JobsOK' /\ SameRequests /\ RunsOK' /\ Continues
  <2>1. JobsOK' /\ SameRequests
    BY <1>5, SameJobs DEF ReadForCancel, ListExpirable, JobsOK
  <2> QED
    BY <1>5, <2>1, Staying DEF ReadForCancel, ListExpirable
<1>6. CASE ServiceEnds
  <2>1. JobsOK' /\ SameRequests
    BY <1>6, SameJobs DEF ServiceEnds, JobsOK
  <2> QED
    BY <1>6, <2>1, Staying DEF ServiceEnds
<1>7. CASE ServiceStarts
  <2>1. JobsOK' /\ SameRequests /\ DOMAIN jobs' = DOMAIN jobs
    BY <1>7 DEF ServiceStarts, JobsOK, SameRequests, JobsCreated
  <2>2. \A b \in runs' : \E j \in DOMAIN jobs' : b = NewRun(j)
    BY <1>7, <2>1 DEF ServiceStarts, Recoverable, JobsCreated
  <2>3. \A j \in DOMAIN jobs' : RunTypeOK(NewRun(j))' /\ NewRun(j).pc \notin Computing
    BY DEF RunTypeOK, NewRun, RunFields, Computing
  <2> QED
    BY <2>1, <2>2, <2>3 DEF RunsOK, Continues
<1>8. ASSUME NEW a \in runs, JobRunStep(a)
      PROVE  JobsOK' /\ SameRequests /\ RunsOK' /\ Continues
  BY <1>8, JobRunStepGoesOn
<1> QED
  BY <1>1, <1>2, <1>3, <1>4, <1>5, <1>6, <1>7, <1>8 DEF JobStep

-----------------------------------------------------------------------------
(* Steps that quote nothing.                                               *)

\* A quote that somebody relies on: a review, or a thread on its way to one.
Quoted(r, q) ==
  \/ plan[r].status = "READY_FOR_REVIEW" /\ q \in plan[r].quotes
  \/ \E a \in runs : Computes(a, r) /\ q \in a.quotes

\* The days of a request are different days.
LEMMA DaysOfRange ==
  ASSUME NEW r \in Requests
  PROVE  /\ DaysOf[r] \in Seq(Days) /\ DaysOf[r] # <<>>
         /\ ToSet(DaysOf[r]) = DaySet(r) /\ DaySet(r) \subseteq Days
         /\ \A k, l \in 1 .. Len(DaysOf[r]) : DaysOf[r][k] = DaysOf[r][l] => k = l
<1>1. DaysOf[r] \in Seq(Days) /\ DaysOf[r] # <<>> /\ IsInjective(DaysOf[r])
  BY RangeAssumption
<1>2. DOMAIN DaysOf[r] = 1 .. Len(DaysOf[r])
  BY <1>1
<1>3. \A k \in 1 .. Len(DaysOf[r]) : DaysOf[r][k] \in Days
  BY <1>1
<1>4. ToSet(DaysOf[r]) = DaySet(r)
  BY <1>2 DEF ToSet, DaySet
<1>5. \A k, l \in 1 .. Len(DaysOf[r]) : DaysOf[r][k] = DaysOf[r][l] => k = l
  BY <1>1, <1>2 DEF IsInjective
<1> QED
  BY <1>1, <1>3, <1>4, <1>5 DEF DaySet

\* A range is a request.
LEMMA RangesAreRequests == Ranges \subseteq Requests
BY RangeAssumption

\* What an undisturbed range quotes is current.
LEMMA QuotedIsCurrent ==
  ASSUME QuotesInv, NEW r \in Ranges \ disturbed, NEW q, Quoted(r, q)
  PROVE  Current(q) /\ q.day \in DaySet(r)
BY DEF QuotesInv, Undisturbed, Quoted, DaySet

\* A step that quotes nothing new, and after which the old quotes hold,
\* leaves every review current.
LEMMA Keep ==
  ASSUME TypeInv, QuotesInv, SameRequests, Continues, disturbed \subseteq disturbed',
         \A r \in Ranges : plan'[r].status = "READY_FOR_REVIEW" =>
            plan[r].status = "READY_FOR_REVIEW" /\ plan'[r].quotes = plan[r].quotes,
         RunsOK',
         \A r \in Ranges \ disturbed' : \A q : Quoted(r, q) => Current(q)'
  PROVE  QuotesInv'
<1> SUFFICES ASSUME NEW r \in Ranges \ disturbed'
             PROVE  Undisturbed(r)'
  BY DEF QuotesInv
<1>1. Undisturbed(r)
  BY DEF QuotesInv
<1>2. ASSUME NEW b, Computes(b, r)'
      PROVE  \E a \in runs : Computes(a, r) /\ a.job = b.job /\ a.day <= b.day /\ a.quotes = b.quotes
  <2>1. b \in runs' /\ b.pc \in Computing /\ jobs'[b.job].request = r
    BY <1>2 DEF Computes, RequestOf
  <2>2. PICK a \in runs : a.pc \in Computing /\ a.job = b.job /\ a.day <= b.day /\ a.quotes = b.quotes
    BY <2>1 DEF Continues
  <2>3. jobs[a.job].request = r
    BY <2>1, <2>2 DEF TypeInv, RunsOK, RunTypeOK, SameRequests
  <2> QED
    BY <2>2, <2>3 DEF Computes, RequestOf
<1>3. \A a, b \in runs' : Computes(a, r)' /\ Computes(b, r)' => a.job = b.job
  BY <1>1, <1>2 DEF Undisturbed
<1>4. ASSUME NEW b \in runs', Computes(b, r)'
      PROVE  /\ plan'[r].status # "READY_FOR_REVIEW"
             /\ \A q \in b.quotes : /\ Current(q)'
                                    /\ \E k \in 1 .. Len(DaysOf[r]) : k < b.day /\ q.day = DaysOf[r][k]
  <2>1. PICK a \in runs : Computes(a, r) /\ a.job = b.job /\ a.day <= b.day /\ a.quotes = b.quotes
    BY <1>2, <1>4
  <2>2. plan'[r].status # "READY_FOR_REVIEW"
    BY <1>1, <2>1 DEF Undisturbed
  <2>3. \A q \in b.quotes : Quoted(r, q)
    BY <2>1 DEF Quoted
  <2>4. a.day \in Nat /\ b.day \in Nat
    BY <1>4, <2>1 DEF TypeInv, RunsOK, RunTypeOK, Computes
  <2>5. \A q \in b.quotes : \E k \in 1 .. Len(DaysOf[r]) : k < a.day /\ q.day = DaysOf[r][k]
    BY <1>1, <2>1 DEF Undisturbed
  <2>6. \A k \in 1 .. Len(DaysOf[r]) : k < a.day => k < b.day
    BY <2>1, <2>4
  <2> QED
    BY <2>2, <2>3, <2>5, <2>6
<1>5. ASSUME plan'[r].status = "READY_FOR_REVIEW", NEW q \in plan'[r].quotes
      PROVE  Current(q)' /\ q.day \in DaySet(r)
  <2>1. Quoted(r, q)
    BY <1>5 DEF Quoted
  <2> QED
    BY <1>1, <1>5, <2>1 DEF Undisturbed
<1> QED
  BY <1>3, <1>4, <1>5, Zenon DEF Undisturbed

\* What is quoted depends on the estimates and on nothing that is withdrawn.
LEMMA SameEstimates ==
  ASSUME TypeInv, QuotesInv, disturbed \subseteq disturbed',
         \A d \in Days : auth[d] # None => auth'[d] # None,
         \A r \in Ranges \ disturbed' : \A q : Quoted(r, q) => est'[q.day] = est[q.day]
  PROVE  \A r \in Ranges \ disturbed' : \A q : Quoted(r, q) => Current(q)'
<1> SUFFICES ASSUME NEW r \in Ranges \ disturbed', NEW q, Quoted(r, q)
             PROVE  Current(q)'
  OBVIOUS
<1>1. Current(q) /\ q.day \in DaySet(r)
  BY QuotedIsCurrent
<1>2. q.day \in Days
  BY <1>1, DaysOfRange, RangesAreRequests
<1> QED
  BY <1>1, <1>2 DEF Current

\* The jobs write neither estimates nor plans.
LEMMA JobStepKeepsQuotes ==
  ASSUME TypeInv, QuotesInv, JobStep, confirm' \subseteq confirm,
         UNCHANGED <<local, est, plan, auth, authKey, disturbed>>
  PROVE  TypeInv' /\ QuotesInv'
<1>1. JobsOK' /\ SameRequests /\ RunsOK' /\ Continues
  BY JobStepGoesOn DEF TypeInv
<1>2. TypeInv'
  BY <1>1 DEF TypeInv, EstOK, AuthOK, PlansOK, ConfirmOK
<1>3. \A r \in Ranges \ disturbed' : \A q : Quoted(r, q) => Current(q)'
  BY SameEstimates
<1> QED
  BY <1>1, <1>2, <1>3, Keep

\* The steps of a run that only move it on.
LEMMA QuietRunStep ==
  ASSUME TypeInv, QuotesInv, NEW a \in runs,
         BeginFails(a) \/ AfterReport(a) \/ DayFails(a) \/ ReadChild(a) \/ SingleRunFails(a)
  PROVE  TypeInv' /\ QuotesInv'
<1>0. UNCHANGED <<jobs, est, plan, auth, confirm, disturbed>>
  BY DEF BeginFails, AfterReport, DayFails, ReadChild, SingleRunFails, rangeVars
<1>1. JobsOK' /\ SameRequests
  BY <1>0, SameJobs DEF TypeInv, JobsOK
<1>2. RunTypeOK(a) /\ RunsOK
  BY DEF TypeInv, RunsOK
<1>3. RunsOK' /\ Continues
  <2>1. CASE BeginFails(a) \/ SingleRunFails(a)
    BY <1>1, <1>2, <2>1, Moving DEF BeginFails, SingleRunFails, Computing, Early
  <2>2. CASE AfterReport(a)
    <3> DEFINE pc == IF a.day > Len(DaysOf[RequestOf(a)]) THEN "summary" ELSE "day"
               b == [a EXCEPT !.pc = pc]
    <3>1. a.pc = "reported" /\ Goes(a, b)
      BY <2>2 DEF AfterReport, At
    <3>2. /\ DOMAIN b = RunFields /\ b.pc = pc /\ b.job = a.job
          /\ b.day = a.day /\ b.read = a.read /\ b.quotes = a.quotes
      BY <1>2 DEF RunTypeOK, RunFields
    <3>3. RequestOf(a) \in Ranges /\ a.day \in Nat \ {0}
      BY <1>2, <3>1 DEF RunTypeOK, Computing
    <3>4. Len(DaysOf[RequestOf(a)]) \in Nat
      BY <3>3, DaysOfRange, RangesAreRequests
    <3>5. pc \in {"summary", "day"} /\ (pc = "day" => a.day <= Len(DaysOf[RequestOf(a)]))
      BY <3>3, <3>4
    <3> HIDE DEF b, pc
    <3>6. RunTypeOK(b)
      BY <1>2, <3>2, <3>3, <3>5 DEF RunTypeOK, RequestOf, Early
    <3>7. a.pc \in Computing /\ a.day <= b.day
      BY <3>1, <3>2, <3>3 DEF Computing
    <3> QED
      BY <1>1, <1>2, <3>1, <3>2, <3>6, <3>7, Replacing
  <2>3. CASE DayFails(a)
    <3> DEFINE b == [a EXCEPT !.pc = "report", !.day = @ + 1, !.read = {}]
    <3>1. a.pc \in {"day", "child"} /\ Goes(a, b)
      BY <2>3 DEF DayFails
    <3>2. /\ DOMAIN b = RunFields /\ b.pc = "report" /\ b.job = a.job
          /\ b.day = a.day + 1 /\ b.read = {} /\ b.quotes = a.quotes
      BY <1>2 DEF RunTypeOK, RunFields
    <3>3. a.pc \in Computing /\ RequestOf(a) \in Ranges /\ a.day \in Nat \ {0}
      BY <1>2, <3>1 DEF RunTypeOK, Computing
    <3> HIDE DEF b
    <3>4. RunTypeOK(b)
      BY <1>2, <3>2, <3>3 DEF RunTypeOK, RequestOf, Early
    <3>5. a.day <= b.day
      BY <3>2, <3>3
    <3> QED
      BY <1>1, <1>2, <3>1, <3>2, <3>3, <3>4, <3>5, Replacing
  <2>4. CASE ReadChild(a)
    <3> DEFINE b == [a EXCEPT !.pc = "write", !.read = {est[DayOf(a)]}]
    <3>1. a.pc = "child" /\ Goes(a, b)
      BY <2>4 DEF ReadChild
    <3>2. /\ DOMAIN b = RunFields /\ b.pc = "write" /\ b.job = a.job
          /\ b.day = a.day /\ b.read = {est[DayOf(a)]} /\ b.quotes = a.quotes
      BY <1>2 DEF RunTypeOK, RunFields
    <3>3. /\ a.pc \in Computing /\ RequestOf(a) \in Ranges /\ a.day \in Nat \ {0}
          /\ a.day <= Len(DaysOf[RequestOf(a)])
      BY <1>2, <3>1 DEF RunTypeOK, Computing
    <3>4. DayOf(a) \in Days
      BY <3>3, DaysOfRange, RangesAreRequests DEF DayOf
    <3>5. IsEstimate(est[DayOf(a)])
      BY <3>4 DEF TypeInv, EstOK
    <3> HIDE DEF b
    <3>6. RunTypeOK(b)
      BY <1>2, <3>2, <3>3, <3>5 DEF RunTypeOK, RequestOf, Early
    <3>7. a.day <= b.day
      BY <3>2, <3>3
    <3> QED
      BY <1>1, <1>2, <3>1, <3>2, <3>3, <3>6, <3>7, Replacing
  <2> QED
    BY <2>1, <2>2, <2>3, <2>4
<1>4. TypeInv'
  BY <1>0, <1>1, <1>3 DEF TypeInv, EstOK, AuthOK, PlansOK, ConfirmOK
<1>5. \A r \in Ranges \ disturbed' : \A q : Quoted(r, q) => Current(q)'
  BY <1>0, SameEstimates
<1> QED
  BY <1>0, <1>1, <1>3, <1>4, <1>5, Keep

\* The estimate of a day is written for the ranges of the writer, and
\* disturbs the others.
LEMMA SavedDay ==
  ASSUME EstOK, NEW d \in Days, NEW x, SaveDay(d, x)
  PROVE  /\ EstOK' /\ disturbed \subseteq disturbed'
         /\ \A e \in Days : e # d => est'[e] = est[e]
         /\ \A r \in Ranges \ disturbed' : d \in DaySet(r) => \E a \in x : RequestOf(a) = r
<1>1. PICK q \in Quotations : est' = [est EXCEPT ![d] = Estimated(d, q)]
  BY DEF SaveDay
<1>2. disturbed' = disturbed \cup Touched(d, x)
  BY DEF SaveDay
<1>3. IsEstimate(Estimated(d, q))
  <2>1. q.price \in Nat
    BY RangeAssumption
  <2>2. /\ DOMAIN Estimated(d, q) = {"price", "local", "warned", "limit"}
        /\ Estimated(d, q).price = IF d \in local THEN 0 ELSE q.price
        /\ Estimated(d, q).local <=> d \in local
    BY DEF Estimated
  <2> QED
    BY <2>1, <2>2 DEF IsEstimate
<1>4. EstOK'
  BY <1>1, <1>3 DEF EstOK
<1>5. \A e \in Days : e # d => est'[e] = est[e]
  BY <1>1 DEF EstOK
<1>6. \A r \in Ranges \ disturbed' : d \in DaySet(r) => \E a \in x : RequestOf(a) = r
  BY <1>2, DaysOfRange, RangesAreRequests DEF Touched
<1> QED
  BY <1>2, <1>4, <1>5, <1>6

\* A day estimated outside of a range changes no quote of an undisturbed one.
LEMMA ForeignDay ==
  ASSUME TypeInv, QuotesInv, NEW d \in Days, SaveDay(d, {}), UNCHANGED auth
  PROVE  /\ EstOK' /\ disturbed \subseteq disturbed'
         /\ \A r \in Ranges \ disturbed' : \A q : Quoted(r, q) => Current(q)'
<1>1. /\ EstOK' /\ disturbed \subseteq disturbed'
      /\ \A e \in Days : e # d => est'[e] = est[e]
      /\ \A r \in Ranges \ disturbed' : d \notin DaySet(r)
  BY SavedDay DEF TypeInv
<1>2. \A r \in Ranges \ disturbed' : \A q : Quoted(r, q) => q.day \in DaySet(r) /\ q.day \in Days
  BY <1>1, QuotedIsCurrent, DaysOfRange, RangesAreRequests
<1>3. \A r \in Ranges \ disturbed' : \A q : Quoted(r, q) => est'[q.day] = est[q.day]
  BY <1>1, <1>2
<1>4. \A r \in Ranges \ disturbed' : \A q : Quoted(r, q) => Current(q)'
  BY <1>1, <1>3, SameEstimates
<1> QED
  BY <1>1, <1>4

\* The estimate of a single day disturbs the ranges that list it.
LEMMA SingleRunSavesKeepsQuotes ==
  ASSUME TypeInv, QuotesInv, NEW a \in runs, SingleRunSaves(a)
  PROVE  TypeInv' /\ QuotesInv'
<1>1. /\ JobsOK' /\ SameRequests
      /\ SaveDay(DaysOf[RequestOf(a)][1], {}) /\ UNCHANGED <<plan, auth, confirm>>
  BY SameJobs DEF SingleRunSaves, TypeInv, JobsOK
<1>2. DaysOf[RequestOf(a)][1] \in Days
  <2>1. RequestOf(a) \in Requests
    BY DEF TypeInv, JobsOK, RunsOK, RunTypeOK, RequestOf
  <2> QED
    BY <2>1, DaysOfRange
<1>3. RunsOK' /\ Continues
  BY <1>1, Moving DEF SingleRunSaves, TypeInv, Computing, Early
<1>4. /\ EstOK' /\ disturbed \subseteq disturbed'
      /\ \A r \in Ranges \ disturbed' : \A q : Quoted(r, q) => Current(q)'
  BY <1>1, <1>2, ForeignDay
<1>5. TypeInv'
  BY <1>1, <1>3, <1>4 DEF TypeInv, AuthOK, PlansOK, ConfirmOK
<1> QED
  BY <1>1, <1>3, <1>4, <1>5, Keep

\* A thread never estimates anew a day it has quoted: the days of a range
\* differ, and those it has quoted are before the one it is at.
LEMMA EstimateDayKeepsQuotes ==
  ASSUME RunsInv, TypeInv, QuotesInv, NEW a \in runs, EstimateDay(a)
  PROVE  TypeInv' /\ QuotesInv'
<1> DEFINE r0 == RequestOf(a)
           d == DayOf(a)
<1>1. /\ JobsOK' /\ SameRequests
      /\ a.pc = "day" /\ SaveDay(d, {a}) /\ UNCHANGED <<jobs, plan, auth, confirm>>
  BY SameJobs DEF EstimateDay, TypeInv, JobsOK
<1>2. /\ RunTypeOK(a) /\ r0 \in Ranges /\ a.day \in Nat \ {0} /\ a.day <= Len(DaysOf[r0])
      /\ Computes(a, r0)
  BY <1>1 DEF TypeInv, RunsOK, RunTypeOK, Computing, Computes
<1>3. d \in Days /\ a.day \in 1 .. Len(DaysOf[r0]) /\ d = DaysOf[r0][a.day]
  BY <1>2, DaysOfRange, RangesAreRequests DEF DayOf
<1>4. RunsOK' /\ Continues
  <2> DEFINE b == [a EXCEPT !.pc = "child"]
  <2>1. Goes(a, b)
    BY DEF EstimateDay, At
  <2>2. /\ DOMAIN b = RunFields /\ b.pc = "child" /\ b.job = a.job
        /\ b.day = a.day /\ b.read = a.read /\ b.quotes = a.quotes
    BY <1>2 DEF RunTypeOK, RunFields
  <2> HIDE DEF b
  <2>3. RunTypeOK(b)
    BY <1>2, <2>2 DEF RunTypeOK, RequestOf, Early
  <2>4. a.pc \in Computing /\ a.day <= b.day
    BY <1>1, <1>2, <2>2 DEF Computing
  <2> QED
    BY <1>1, <2>1, <2>2, <2>3, <2>4, Replacing DEF TypeInv
<1> HIDE DEF r0, d
<1>5. /\ EstOK' /\ disturbed \subseteq disturbed'
      /\ \A e \in Days : e # d => est'[e] = est[e]
      /\ \A r \in Ranges \ disturbed' : d \in DaySet(r) => RequestOf(a) = r
  BY <1>1, <1>3, SavedDay DEF TypeInv
<1>6. ASSUME NEW r \in Ranges \ disturbed', NEW q, Quoted(r, q)
      PROVE  est'[q.day] = est[q.day]
  <2>1. q.day \in DaySet(r) /\ q.day \in Days
    BY <1>5, <1>6, QuotedIsCurrent, DaysOfRange, RangesAreRequests
  <2>2. CASE d \notin DaySet(r)
    BY <1>5, <2>1, <2>2
  <2>3. CASE d \in DaySet(r)
    <3>1. r = r0 /\ Undisturbed(r)
      BY <1>5, <2>3 DEF r0, QuotesInv
    <3>2. q \in a.quotes
      BY <1>2, <1>6, <3>1 DEF Quoted, Undisturbed, Computes, RunsInv, AtMostOneRun
    <3>3. PICK k \in 1 .. Len(DaysOf[r]) : k < a.day /\ q.day = DaysOf[r][k]
      BY <1>2, <3>1, <3>2 DEF Undisturbed
    <3>4. q.day # d
      BY <1>2, <1>3, <3>1, <3>3, DaysOfRange, RangesAreRequests
    <3> QED
      BY <1>5, <2>1, <3>4
  <2> QED
    BY <2>2, <2>3
<1>7. TypeInv'
  BY <1>1, <1>4, <1>5 DEF TypeInv, AuthOK, PlansOK, ConfirmOK
<1>8. \A r \in Ranges \ disturbed' : \A q : Quoted(r, q) => Current(q)'
  BY <1>1, <1>5, <1>6, SameEstimates
<1> QED
  BY <1>1, <1>4, <1>5, <1>7, <1>8, Keep

-----------------------------------------------------------------------------
(* Steps that begin, extend and end a review.                              *)

\* The others of a step that replaces thread a of range r0 by b: what they
\* compute and quote is as before.
LEMMA OthersCompute ==
  ASSUME RunsInv, TypeInv, UNCHANGED jobs, NEW a \in runs, NEW b, Goes(a, b), b.job = a.job,
         NEW c, NEW r, Computes(c, r)', c # b
  PROVE  c # a /\ Computes(c, r) /\ c.job # a.job
BY DEF Goes, Computes, RequestOf, RunsInv, AtMostOneRun

\* A run that begins withdraws the review before it, and it is the only one
\* of its range unless the range counts as disturbed.
LEMMA BeginKeepsQuotes ==
  ASSUME RunsInv, TypeInv, QuotesInv, NEW a \in runs, Begin(a)
  PROVE  TypeInv' /\ QuotesInv'
<1>r. PICK r0 : r0 = RequestOf(a)
  OBVIOUS
<1>b. PICK b : b = [a EXCEPT !.pc = "report", !.day = 1]
  OBVIOUS
<1>p. PICK row : row = [NoPlan EXCEPT !.status = "ESTIMATING", !.fresh = TRUE]
  OBVIOUS
<1>1. /\ a.pc = "work" /\ r0 \in Ranges /\ plan' = [plan EXCEPT ![r0] = row]
      /\ disturbed' = IF OthersOn(r0, a) THEN disturbed \cup {r0} ELSE disturbed \ {r0}
      /\ Goes(a, b) /\ UNCHANGED <<jobs, est, auth, confirm>>
  BY <1>r, <1>b, <1>p DEF Begin, SavePlan
<1>2. RunTypeOK(a)
  BY DEF TypeInv, RunsOK
<1>3. /\ DOMAIN b = RunFields /\ b.pc = "report" /\ b.job = a.job
      /\ b.day = 1 /\ b.read = a.read /\ b.quotes = {}
  BY <1>1, <1>2, <1>b DEF RunTypeOK, RunFields, Early
<1>4. row.status = "ESTIMATING" /\ PlanOK(row)
  BY <1>p DEF NoPlan, PlanOK
<1>5. r0 = jobs[a.job].request
  BY <1>r DEF RequestOf
<1>6. \A c \in runs' : c \in runs \/ c = b
  BY <1>1 DEF Goes
<1>7. TypeInv'
  <2>1. RunTypeOK(b)
    BY <1>1, <1>2, <1>3, <1>5 DEF RunTypeOK, RequestOf, Early
  <2>2. RunsOK'
    BY <1>1, <1>6, <2>1, SameRun, SameJobs DEF TypeInv, RunsOK
  <2>3. PlansOK'
    BY <1>1, <1>4 DEF TypeInv, PlansOK
  <2> QED
    BY <1>1, <2>2, <2>3 DEF TypeInv, JobsOK, EstOK, AuthOK, ConfirmOK
<1>8. ASSUME NEW r \in Ranges \ disturbed', r # r0
      PROVE  Undisturbed(r)'
  <2>1. Undisturbed(r)
    BY <1>1, <1>8 DEF QuotesInv
  <2>2. plan'[r] = plan[r]
    BY <1>1, <1>8 DEF TypeInv, PlansOK
  <2>3. ~Computes(b, r)'
    BY <1>1, <1>3, <1>5, <1>8 DEF Computes, RequestOf
  <2>4. \A c : Computes(c, r)' => Computes(c, r)
    BY <1>1, <1>3, <2>3, OthersCompute
  <2>5. \A q : Current(q)' <=> Current(q)
    BY <1>1 DEF Current
  <2>6. \A c : Computes(c, r)' => c \in runs
    BY <2>4 DEF Computes
  <2> QED
    BY <2>1, <2>2, <2>4, <2>5, <2>6 DEF Undisturbed
<1>9. ASSUME r0 \notin disturbed'
      PROVE  Undisturbed(r0)'
  <2>1. ~OthersOn(r0, a)
    BY <1>1, <1>9
  <2>2. \A c : Computes(c, r0)' => c = b
    <3> SUFFICES ASSUME NEW c, Computes(c, r0)', c # b PROVE FALSE
      OBVIOUS
    <3>1. c # a /\ Computes(c, r0)
      BY <1>1, <1>3, OthersCompute
    <3>2. c \in runs /\ RequestOf(c) = r0 /\ Ranging(c)
      BY <1>1, <3>1 DEF Computes, Ranging, Computing
    <3> QED
      BY <2>1, <3>1, <3>2 DEF OthersOn
  <2>3. plan'[r0].status # "READY_FOR_REVIEW"
    BY <1>1, <1>4 DEF TypeInv, PlansOK
  <2> QED
    BY <1>3, <2>2, <2>3 DEF Undisturbed
<1> QED
  BY <1>7, <1>8, <1>9 DEF QuotesInv

\* What a thread quotes is what it has just written.
LEMMA UpdateChildKeepsQuotes ==
  ASSUME RunsInv, TypeInv, QuotesInv, NEW a \in runs, UpdateChild(a)
  PROVE  TypeInv' /\ QuotesInv'
<1>r. PICK r0 : r0 = RequestOf(a)
  OBVIOUS
<1>d. PICK d : d = DayOf(a)
  OBVIOUS
<1>o. PICK old : old = CHOOSE x \in a.read : TRUE
  OBVIOUS
<1>w. PICK row : row = [old EXCEPT !.limit = BudgetOf[r0]]
  OBVIOUS
<1>n. PICK new : new = [day |-> d, price |-> row.price, local |-> row.local, allowed |-> IsAllowed(row)]
  OBVIOUS
<1>b. PICK b : b = [a EXCEPT !.pc = "report", !.day = @ + 1, !.read = {}, !.quotes = @ \cup {new}]
  OBVIOUS
<1>1. /\ a.pc = "write" /\ est' = [est EXCEPT ![d] = row]
      /\ disturbed' = disturbed \cup Touched(d, {a})
      /\ Goes(a, b) /\ UNCHANGED <<jobs, plan, auth, confirm>>
  BY <1>r, <1>d, <1>o, <1>w, <1>n, <1>b DEF UpdateChild
<1>2. /\ RunTypeOK(a) /\ r0 \in Ranges /\ a.day \in Nat \ {0} /\ a.day <= Len(DaysOf[r0])
      /\ a.read # {} /\ Computes(a, r0)
  BY <1>1, <1>r DEF TypeInv, RunsOK, RunTypeOK, Computing, Computes
<1>3. IsEstimate(row)
  <2>1. IsEstimate(old)
    BY <1>2, <1>o DEF RunTypeOK
  <2> QED
    BY <2>1, <1>w DEF IsEstimate
<1>4. /\ DOMAIN b = RunFields /\ b.pc = "report" /\ b.job = a.job
      /\ b.day = a.day + 1 /\ b.read = {} /\ b.quotes = a.quotes \cup {new}
  BY <1>2, <1>b DEF RunTypeOK, RunFields
<1>5. new.day = d /\ new.price = row.price
  BY <1>n
<1>6. d \in Days /\ a.day \in 1 .. Len(DaysOf[r0]) /\ d = DaysOf[r0][a.day]
  BY <1>2, <1>r, <1>d, DaysOfRange, RangesAreRequests DEF DayOf
<1>7. r0 = jobs[a.job].request
  BY <1>r DEF RequestOf
<1>8. TypeInv'
  <2>1. RunTypeOK(b)
    BY <1>2, <1>4, <1>7 DEF RunTypeOK, RequestOf, Early
  <2>2. \A c \in runs' : c \in runs \/ c = b
    BY <1>1 DEF Goes
  <2>3. RunsOK'
    BY <1>1, <2>1, <2>2, SameRun, SameJobs DEF TypeInv, RunsOK
  <2>4. EstOK'
    BY <1>1, <1>3 DEF TypeInv, EstOK
  <2> QED
    BY <1>1, <2>3, <2>4 DEF TypeInv, JobsOK, PlansOK, AuthOK, ConfirmOK
<1>9. /\ \A e \in Days : e # d => est'[e] = est[e]
      /\ est'[d] = row
      /\ \A r \in Ranges \ disturbed' : d \in DaySet(r) => r = r0
  <2>1. \A r \in Ranges \ disturbed' : d \in DaySet(r) => r = r0
    BY <1>1, <1>r, DaysOfRange, RangesAreRequests DEF Touched
  <2> QED
    BY <1>1, <1>6, <2>1 DEF TypeInv, EstOK
<1>10. ASSUME NEW r \in Ranges \ disturbed', r # r0
       PROVE  Undisturbed(r)'
  <2>1. Undisturbed(r) /\ r \notin disturbed
    BY <1>1, <1>10 DEF QuotesInv
  <2>2. ~Computes(b, r)'
    BY <1>1, <1>4, <1>7, <1>10 DEF Computes, RequestOf
  <2>3. \A c : Computes(c, r)' => Computes(c, r) /\ c \in runs
    BY <1>1, <1>4, <2>2, OthersCompute DEF Computes
  <2>4. \A q : Quoted(r, q) => Current(q)'
    <3> SUFFICES ASSUME NEW q, Quoted(r, q) PROVE Current(q)'
      OBVIOUS
    <3>1. Current(q) /\ q.day \in DaySet(r) /\ q.day \in Days
      BY <2>1, QuotedIsCurrent, DaysOfRange, RangesAreRequests
    <3>2. q.day # d
      BY <1>9, <1>10, <3>1
    <3> QED
      BY <1>1, <1>9, <3>1, <3>2 DEF Current
  <2> QED
    BY <1>1, <2>1, <2>3, <2>4 DEF Undisturbed, Quoted
<1>11. ASSUME r0 \notin disturbed'
       PROVE  Undisturbed(r0)'
  <2>1. Undisturbed(r0)
    BY <1>1, <1>2, <1>11 DEF QuotesInv
  <2>2. \A c : Computes(c, r0)' => c = b
    <3> SUFFICES ASSUME NEW c, Computes(c, r0)', c # b PROVE FALSE
      OBVIOUS
    <3>1. Computes(c, r0) /\ c.job # a.job
      BY <1>1, <1>4, OthersCompute
    <3> QED
      BY <1>2, <2>1, <3>1 DEF Undisturbed, Computes
  <2>3. plan'[r0].status # "READY_FOR_REVIEW"
    BY <1>1, <1>2, <2>1 DEF Undisturbed
  <2>4. ASSUME NEW q \in a.quotes
        PROVE  Current(q)' /\ \E k \in 1 .. Len(DaysOf[r0]) : k < b.day /\ q.day = DaysOf[r0][k]
    <3>1. Current(q)
      BY <1>2, <2>1, <2>4 DEF Undisturbed
    <3>2. PICK k \in 1 .. Len(DaysOf[r0]) : k < a.day /\ q.day = DaysOf[r0][k]
      BY <1>2, <2>1, <2>4 DEF Undisturbed
    <3>3. q.day # d /\ q.day \in Days
      <4>1. k # a.day /\ q.day \in Days
        BY <1>2, <3>2, DaysOfRange, RangesAreRequests DEF DaySet
      <4> QED
        BY <1>2, <1>6, <3>2, <4>1, DaysOfRange, RangesAreRequests
    <3>4. Current(q)'
      BY <1>1, <1>9, <3>1, <3>3 DEF Current
    <3>5. k < b.day
      BY <1>2, <1>4, <3>2
    <3> QED
      BY <3>2, <3>4, <3>5
  <2>5. Current(new)' /\ new.day = DaysOf[r0][a.day] /\ a.day < b.day
    BY <1>2, <1>4, <1>5, <1>6, <1>9 DEF Current
  <2> QED
    BY <1>4, <1>6, <2>2, <2>3, <2>4, <2>5 DEF Undisturbed
<1> QED
  BY <1>8, <1>10, <1>11 DEF QuotesInv

\* The review left behind lists what its only thread has quoted.
LEMMA FinishRangeKeepsQuotes ==
  ASSUME RunsInv, TypeInv, QuotesInv, NEW a \in runs, FinishRange(a)
  PROVE  TypeInv' /\ QuotesInv'
<1>r. PICK r0 : r0 = RequestOf(a)
  OBVIOUS
<1>p. PICK row : row = [Summary(r0, a.quotes) EXCEPT !.fresh = plan[r0].fresh]
  OBVIOUS
<1>b. PICK b : b = [a EXCEPT !.pc = "done"]
  OBVIOUS
<1>1. /\ a.pc = "summary" /\ plan' = [plan EXCEPT ![r0] = row] /\ Goes(a, b)
      /\ UNCHANGED <<jobs, est, auth, confirm, disturbed>>
  BY <1>r, <1>p, <1>b DEF FinishRange, UpdatePlan, At
<1>2. RunTypeOK(a) /\ r0 \in Ranges /\ Computes(a, r0)
  BY <1>1, <1>r DEF TypeInv, RunsOK, RunTypeOK, Computing, Computes
<1>3. DOMAIN b = RunFields /\ b.pc = "done" /\ b.job = a.job
  BY <1>2, <1>b DEF RunTypeOK, RunFields
<1>4. row.quotes = a.quotes /\ PlanOK(row)
  BY <1>p DEF Summary, PlanOK
<1>5. RunsOK' /\ Continues
  <2>1. UNCHANGED jobs
    BY <1>1
  <2>2. "done" \notin Computing \cup Early \cup {"day", "child", "write"}
    BY DEF Computing, Early
  <2> QED
    BY <1>1, <1>b, <2>1, <2>2, SameJobs, Moving DEF At, TypeInv
<1>6. TypeInv'
  <2>1. PlansOK'
    BY <1>1, <1>4 DEF TypeInv, PlansOK
  <2> QED
    BY <1>1, <1>5, <2>1 DEF TypeInv, JobsOK, EstOK, AuthOK, ConfirmOK
<1>7. \A q : Current(q)' <=> Current(q)
  BY <1>1 DEF Current
<1>8. ASSUME NEW r \in Ranges \ disturbed'
      PROVE  Undisturbed(r)'
  <2>1. Undisturbed(r)
    BY <1>1, <1>8 DEF QuotesInv
  <2>2. ~Computes(b, r)'
    BY <1>3 DEF Computes, Computing
  <2>3. \A c : Computes(c, r)' => Computes(c, r) /\ c \in runs /\ c.job # a.job
    BY <1>1, <1>3, <2>2, OthersCompute DEF Computes
  <2>4. CASE r = r0
    <3>1. \A c : ~Computes(c, r)'
      BY <1>2, <2>1, <2>3, <2>4 DEF Undisturbed
    <3>2. \A q \in a.quotes : Current(q) /\ q.day \in DaySet(r)
      BY <1>2, <2>1, <2>4 DEF Undisturbed, DaySet
    <3>3. plan'[r].quotes = a.quotes
      BY <1>1, <1>2, <1>4, <2>4 DEF TypeInv, PlansOK
    <3> QED
      BY <1>7, <3>1, <3>2, <3>3 DEF Undisturbed
  <2>5. CASE r # r0
    <3>1. plan'[r] = plan[r]
      BY <1>1, <1>8, <2>5 DEF TypeInv, PlansOK
    <3> QED
      BY <1>7, <2>1, <2>3, <3>1 DEF Undisturbed
  <2> QED
    BY <2>4, <2>5
<1> QED
  BY <1>6, <1>8 DEF QuotesInv

-----------------------------------------------------------------------------
(* The clients.                                                            *)

\* The clock and a reading confirmation leave the plans as they are.
LEMMA PlanStepKeepsQuotes ==
  ASSUME TypeInv, QuotesInv, NEW r \in Ranges,
         PlanTtlElapses(r) \/ \E k \in Keys : ReadPlan(r, k)
  PROVE  TypeInv' /\ QuotesInv'
<1>1. /\ UNCHANGED <<jobs, runs, est, auth, disturbed>>
      /\ JobsOK' /\ SameRequests
  BY SameJobs DEF PlanTtlElapses, ReadPlan, TypeInv, JobsOK
<1>2. RunsOK' /\ Continues
  BY <1>1, Staying DEF TypeInv
<1>3. /\ PlansOK' /\ ConfirmOK'
      /\ \A s \in Ranges : plan'[s].status = plan[s].status /\ plan'[s].quotes = plan[s].quotes
  <2>1. CASE PlanTtlElapses(r)
    <3>1. plan' = [plan EXCEPT ![r].fresh = FALSE] /\ confirm' = confirm
      BY <2>1 DEF PlanTtlElapses
    <3> QED
      BY <3>1 DEF TypeInv, PlansOK, PlanOK, ConfirmOK
  <2>2. ASSUME NEW k \in Keys, ReadPlan(r, k)
        PROVE  /\ PlansOK' /\ ConfirmOK'
               /\ \A s \in Ranges : plan'[s].status = plan[s].status /\ plan'[s].quotes = plan[s].quotes
    BY <2>2 DEF ReadPlan, TypeInv, PlansOK, ConfirmOK
  <2> QED
    BY <2>1, <2>2
<1>4. TypeInv'
  BY <1>1, <1>2, <1>3 DEF TypeInv, EstOK, AuthOK
<1>5. \A s \in Ranges \ disturbed' : \A q : Quoted(s, q) => Current(q)'
  BY <1>1, SameEstimates
<1> QED
  BY <1>1, <1>2, <1>3, <1>4, <1>5, Keep

\* A confirmation reserves amounts, and the plan it writes is no review.
LEMMA ConfirmStepKeepsQuotes ==
  ASSUME TypeInv, QuotesInv, NEW c \in confirm, Refuse(c) \/ Confirm(c)
  PROVE  TypeInv' /\ QuotesInv'
<1>1. /\ UNCHANGED <<jobs, runs, est, disturbed>>
      /\ JobsOK' /\ SameRequests
  BY SameJobs DEF Refuse, Confirm, jobVars, TypeInv, JobsOK
<1>2. RunsOK' /\ Continues
  BY <1>1, Staying DEF TypeInv
<1>3. confirm' \subseteq confirm
  BY DEF Refuse, Confirm
<1>4. /\ AuthOK'
      /\ \A d \in Days : auth[d] # None => auth'[d] # None
  <2>1. CASE UNCHANGED auth
    BY <2>1 DEF TypeInv, AuthOK
  <2>2. ASSUME ~UNCHANGED auth
        PROVE  /\ DOMAIN auth' = Days
               /\ \A d \in Days : auth'[d] = est[d].price \/ auth'[d] = auth[d]
               /\ auth' = [d \in Days |-> auth'[d]]
    BY <2>2 DEF Refuse, Confirm
  <2>3. \A d \in Days : est[d].price \in Nat /\ est[d].price # None
    BY DEF TypeInv, EstOK, IsEstimate, None
  <2>4. \A d \in Days : auth[d] \in Nat \cup {None}
    BY DEF TypeInv, AuthOK
  <2>5. CASE ~UNCHANGED auth
    <3>1. \A d \in Days : auth'[d] \in Nat \cup {None}
      BY <2>2, <2>3, <2>4, <2>5
    <3> QED
      BY <2>2, <2>3, <2>5, <3>1 DEF AuthOK
  <2> QED
    BY <2>1, <2>5
<1>5. /\ PlansOK'
      /\ \A s \in Ranges : plan'[s].status = "READY_FOR_REVIEW" =>
           plan[s].status = "READY_FOR_REVIEW" /\ plan'[s].quotes = plan[s].quotes
  <2>1. CASE UNCHANGED plan
    BY <2>1 DEF TypeInv, PlansOK
  <2>2. CASE ~UNCHANGED plan
    <3>1. PICK row : row = [[c.plan EXCEPT !.status = "AUTHORIZED"] EXCEPT !.fresh = plan[c.range].fresh]
      OBVIOUS
    <3>2. plan' = [plan EXCEPT ![c.range] = row]
      BY <2>2, <3>1 DEF Refuse, Confirm, UpdatePlan
    <3>3. PlanOK(row) /\ row.status = "AUTHORIZED"
      BY <3>1 DEF TypeInv, ConfirmOK, PlanOK
    <3> QED
      BY <3>2, <3>3 DEF TypeInv, PlansOK
  <2> QED
    BY <2>1, <2>2
<1>6. TypeInv'
  BY <1>1, <1>2, <1>3, <1>4, <1>5 DEF TypeInv, EstOK, ConfirmOK
<1>7. \A s \in Ranges \ disturbed' : \A q : Quoted(s, q) => Current(q)'
  BY <1>1, <1>4, SameEstimates
<1> QED
  BY <1>1, <1>2, <1>5, <1>6, <1>7, Keep

\* Reservations stay on record, and a day estimated alone disturbs its ranges.
LEMMA DayStepKeepsQuotes ==
  ASSUME TypeInv, QuotesInv, NEW d \in Days,
         AuthorizeDay(d) \/ CancelDay(d) \/ EstimateAlone(d) \/ Import(d)
  PROVE  TypeInv' /\ QuotesInv'
<1>1. /\ UNCHANGED <<jobs, runs, plan, confirm>>
      /\ JobsOK' /\ SameRequests
  BY SameJobs DEF AuthorizeDay, CancelDay, EstimateAlone, Import, TypeInv, JobsOK
<1>2. RunsOK' /\ Continues
  BY <1>1, Staying DEF TypeInv
<1>3. CASE EstimateAlone(d)
  <2>1. SaveDay(d, {}) /\ UNCHANGED auth
    BY <1>3 DEF EstimateAlone
  <2>2. /\ EstOK' /\ disturbed \subseteq disturbed'
        /\ \A r \in Ranges \ disturbed' : \A q : Quoted(r, q) => Current(q)'
    BY <2>1, ForeignDay
  <2>3. TypeInv'
    BY <1>1, <1>2, <2>1, <2>2 DEF TypeInv, AuthOK, PlansOK, ConfirmOK
  <2> QED
    BY <1>1, <1>2, <2>2, <2>3, Keep
<1>4. CASE ~EstimateAlone(d)
  <2>1. UNCHANGED <<est, disturbed>>
    BY <1>4 DEF AuthorizeDay, CancelDay, Import
  <2>2. auth' = auth \/ \E n \in Nat : auth' = [auth EXCEPT ![d] = n]
    BY <1>4 DEF AuthorizeDay, CancelDay, Import, TypeInv, EstOK, IsEstimate
  <2>3. AuthOK' /\ \A e \in Days : auth[e] # None => auth'[e] # None
    BY <2>2 DEF TypeInv, AuthOK, None
  <2>4. TypeInv'
    BY <1>1, <1>2, <2>1, <2>3 DEF TypeInv, EstOK, PlansOK, ConfirmOK
  <2>5. \A r \in Ranges \ disturbed' : \A q : Quoted(r, q) => Current(q)'
    BY <2>1, <2>3, SameEstimates
  <2> QED
    BY <1>1, <1>2, <2>1, <2>4, <2>5, Keep
<1> QED
  BY <1>3, <1>4

\* Every step keeps the reviews current.
LEMMA StepKeepsQuotes ==
  ASSUME RunsInv, TypeInv, QuotesInv, [RangeNext]_vars
  PROVE  TypeInv' /\ QuotesInv'
<1>1. ASSUME JobStep, confirm' = (IF up' THEN confirm ELSE {}),
             UNCHANGED <<local, est, plan, auth, authKey, disturbed>>
      PROVE  TypeInv' /\ QuotesInv'
  BY <1>1, JobStepKeepsQuotes
<1>2. ASSUME NEW a \in runs, RangeRunStep(a) \/ SingleRunSaves(a) \/ SingleRunFails(a)
      PROVE  TypeInv' /\ QuotesInv'
  BY <1>2, BeginKeepsQuotes, QuietRunStep, EstimateDayKeepsQuotes, UpdateChildKeepsQuotes,
     FinishRangeKeepsQuotes, SingleRunSavesKeepsQuotes DEF RangeRunStep
<1>3. ASSUME NEW r \in Ranges, PlanTtlElapses(r) \/ \E k \in Keys : ReadPlan(r, k)
      PROVE  TypeInv' /\ QuotesInv'
  BY <1>3, PlanStepKeepsQuotes
<1>4. ASSUME NEW c \in confirm, Refuse(c) \/ Confirm(c)
      PROVE  TypeInv' /\ QuotesInv'
  BY <1>4, ConfirmStepKeepsQuotes
<1>5. ASSUME NEW d \in Days, AuthorizeDay(d) \/ CancelDay(d) \/ EstimateAlone(d) \/ Import(d)
      PROVE  TypeInv' /\ QuotesInv'
  BY <1>5, DayStepKeepsQuotes
<1>6. CASE UNCHANGED vars
  <2>1. UNCHANGED <<jobs, runs, est, plan, auth, confirm, disturbed>>
    BY <1>6 DEF vars, jobVars, rangeVars
  <2>2. JobsOK' /\ SameRequests
    BY <2>1, SameJobs DEF TypeInv, JobsOK
  <2>3. RunsOK' /\ Continues
    BY <2>1, <2>2, Staying DEF TypeInv
  <2>4. TypeInv'
    BY <2>1, <2>2, <2>3 DEF TypeInv, EstOK, AuthOK, PlansOK, ConfirmOK
  <2>5. \A r \in Ranges \ disturbed' : \A q : Quoted(r, q) => Current(q)'
    BY <2>1, SameEstimates
  <2> QED
    BY <2>1, <2>2, <2>3, <2>4, <2>5, Keep
<1> QED
  BY <1>1, <1>2, <1>3, <1>4, <1>5, <1>6 DEF RangeNext

\* At first there is no review.
LEMMA InitialQuotes ==
  ASSUME RangeInit
  PROVE  TypeInv /\ QuotesInv
<1>1. JobsOK
  <2>1. DOMAIN jobs = 1 .. 0
    BY DEF RangeInit, JobsInit
  <2> QED
    BY <2>1 DEF JobsOK
<1>2. RunsOK /\ ConfirmOK /\ AuthOK
  BY DEF RangeInit, JobsInit, RunsOK, ConfirmOK, AuthOK
<1>3. EstOK
  <2>1. \A d \in Days, q \in Quotations : IsEstimate(Estimated(d, q))
    <3> SUFFICES ASSUME NEW d \in Days, NEW q \in Quotations PROVE IsEstimate(Estimated(d, q))
      OBVIOUS
    <3>1. /\ DOMAIN Estimated(d, q) = {"price", "local", "warned", "limit"}
          /\ Estimated(d, q).price = IF d \in local THEN 0 ELSE q.price
          /\ Estimated(d, q).local <=> d \in local
      BY DEF Estimated
    <3> QED
      BY <3>1, RangeAssumption DEF IsEstimate
  <2>2. IsEstimate(NoEstimate)
    BY DEF IsEstimate, NoEstimate
  <2>3. \A d \in Days : est[d] \in {NoEstimate} \cup {Estimated(e, q) : e \in Days, q \in Quotations}
    BY DEF RangeInit
  <2>4. DOMAIN est = Days
    BY DEF RangeInit
  <2> QED
    BY <2>1, <2>2, <2>3, <2>4 DEF EstOK
<1>4. PlansOK /\ \A r \in Ranges : plan[r].status # "READY_FOR_REVIEW"
  BY DEF RangeInit, PlansOK, PlanOK, NoPlan
<1>5. runs = {}
  BY DEF RangeInit, JobsInit
<1> QED
  BY <1>1, <1>2, <1>3, <1>4, <1>5 DEF TypeInv, QuotesInv, Undisturbed

(* For any ranges, days, jobs and calls: a review that waits for its       *)
(* confirmation quotes the amounts that would be reserved, unless one of   *)
(* its days was written by somebody else since (the ESTIMATING row that    *)
(* estimate_range_plan writes before the first estimate, and the one task  *)
(* per job of _schedule_estimate_job, are what it rests on).               *)
THEOREM ReviewsAreCurrent == RangeSpec => []QuotesAreCurrent
<1>1. RangeInit => RunsInv /\ TypeInv /\ QuotesInv
  <2>1. RangeInit => RunsInv
    BY DEF RangeInit, JobsInit, RunsInv, AtMostOneRun
  <2> QED
    BY <2>1, InitialQuotes
<1>2. RunsInv /\ TypeInv /\ QuotesInv /\ [RangeNext]_vars => (RunsInv /\ TypeInv /\ QuotesInv)'
  BY StepKeepsRuns, StepKeepsQuotes
<1>3. QuotesInv => QuotesAreCurrent
  BY DEF QuotesInv, Undisturbed, QuotesAreCurrent, Current
<1> QED
  BY <1>1, <1>2, <1>3, PTL DEF RangeSpec
-----------------------------------------------------------------------------
(* The budget of a range.                                                  *)

QuotesOK(Q) == IsFiniteSet(Q) /\ \A q \in Q : q.price \in Nat /\ (q.local => q.price = 0)

(* A plan that may be confirmed asks for the sum of its paid quotes.       *)
PlanPriced(p) ==
  /\ {"status", "allowed", "fresh", "quotes", "total"} \subseteq DOMAIN p
  /\ p.allowed => QuotesOK(p.quotes) /\ p.total = QuotedTotal({q \in p.quotes : ~q.local})

RunsPriced == \A a \in runs : a.pc \in Computing => QuotesOK(a.quotes)
PlansPriced == \A r \in Ranges : PlanPriced(plan[r])
ConfirmPriced == \A c \in confirm : PlanPriced(c.plan) /\ c.plan.allowed
PriceInv == RunsPriced /\ PlansPriced /\ ConfirmPriced

\* Threads that go on quote what they quoted.
LEMMA QuotesStay ==
  ASSUME RunsPriced, Continues
  PROVE  RunsPriced'
BY DEF RunsPriced, Continues

\* A thread that is replaced by one with quotes of its own.
LEMMA QuotesGoOn ==
  ASSUME RunsPriced, NEW a \in runs, NEW b, Goes(a, b), b.pc \in Computing => QuotesOK(b.quotes)
  PROVE  RunsPriced'
BY DEF RunsPriced, Goes

\* The steps of a range's run.
LEMMA RangeRunKeepsPrices ==
  ASSUME TypeInv, PriceInv, NEW a \in runs, RangeRunStep(a) \/ SingleRunSaves(a) \/ SingleRunFails(a)
  PROVE  PriceInv'
<1>1. /\ RunTypeOK(a) /\ DOMAIN a = RunFields
      /\ a.pc \in Computing => QuotesOK(a.quotes)
      /\ a.pc \in Early => a.quotes = {}
  BY DEF TypeInv, RunsOK, RunTypeOK, PriceInv, RunsPriced
<1>2. QuotesOK({})
  BY FS_EmptySet DEF QuotesOK
<1>3. ASSUME UNCHANGED <<plan, confirm>>, RunsPriced'
      PROVE  PriceInv'
  BY <1>3 DEF PriceInv, PlansPriced, ConfirmPriced
<1>4. ASSUME NEW pc, At(a, pc), pc \in Computing => a.pc \in Computing
      PROVE  RunsPriced'
  <2>1. PICK b : b = [a EXCEPT !.pc = pc]
    OBVIOUS
  <2>2. Goes(a, b) /\ b.pc = pc /\ b.quotes = a.quotes
    BY <1>1, <1>4, <2>1 DEF At, RunFields
  <2> QED
    BY <1>1, <1>4, <2>2, QuotesGoOn DEF PriceInv
<1>5. CASE Begin(a)
  <2>1. PICK b : b = [a EXCEPT !.pc = "report", !.day = 1]
    OBVIOUS
  <2>2. Goes(a, b) /\ b.quotes = {} /\ a.pc = "work"
    BY <1>1, <1>5, <2>1 DEF Begin, RunFields, Early
  <2>3. RunsPriced'
    BY <1>2, <2>2, QuotesGoOn DEF PriceInv
  <2>4. PICK row : row = [NoPlan EXCEPT !.status = "ESTIMATING", !.fresh = TRUE]
    OBVIOUS
  <2>5. PlanPriced(row)
    BY <2>4 DEF PlanPriced, NoPlan
  <2>6. plan' = [plan EXCEPT ![RequestOf(a)] = row] /\ UNCHANGED confirm
    BY <1>5, <2>4 DEF Begin, SavePlan
  <2>7. PlansPriced'
    BY <2>5, <2>6 DEF PriceInv, PlansPriced, TypeInv, PlansOK
  <2> QED
    BY <2>3, <2>6, <2>7 DEF PriceInv, ConfirmPriced
<1>6. CASE BeginFails(a) \/ SingleRunFails(a)
  BY <1>3, <1>4, <1>6 DEF BeginFails, SingleRunFails, rangeVars, Computing
<1>7. CASE AfterReport(a)
  BY <1>3, <1>4, <1>7 DEF AfterReport, rangeVars, Computing
<1>8. CASE EstimateDay(a) \/ SingleRunSaves(a)
  BY <1>3, <1>4, <1>8 DEF EstimateDay, SingleRunSaves, Computing
<1>9. CASE DayFails(a)
  <2>1. PICK b : b = [a EXCEPT !.pc = "report", !.day = @ + 1, !.read = {}]
    OBVIOUS
  <2>2. Goes(a, b) /\ b.quotes = a.quotes /\ a.pc \in Computing /\ UNCHANGED <<plan, confirm>>
    BY <1>1, <1>9, <2>1 DEF DayFails, RunFields, Computing, rangeVars
  <2> QED
    BY <1>1, <1>3, <2>2, QuotesGoOn DEF PriceInv
<1>10. CASE ReadChild(a)
  <2>1. PICK b : b = [a EXCEPT !.pc = "write", !.read = {est[DayOf(a)]}]
    OBVIOUS
  <2>2. Goes(a, b) /\ b.quotes = a.quotes /\ a.pc \in Computing /\ UNCHANGED <<plan, confirm>>
    BY <1>1, <1>10, <2>1 DEF ReadChild, RunFields, Computing, rangeVars
  <2> QED
    BY <1>1, <1>3, <2>2, QuotesGoOn DEF PriceInv
<1>11. CASE UpdateChild(a)
  <2>1. PICK x : x = CHOOSE y \in a.read : TRUE
    OBVIOUS
  <2>2. PICK row : row = [x EXCEPT !.limit = BudgetOf[RequestOf(a)]]
    OBVIOUS
  <2>3. PICK q : q = [day |-> DayOf(a), price |-> row.price, local |-> row.local, allowed |-> IsAllowed(row)]
    OBVIOUS
  <2>4. PICK b : b = [a EXCEPT !.pc = "report", !.day = @ + 1, !.read = {}, !.quotes = @ \cup {q}]
    OBVIOUS
  <2>5. a.pc = "write" /\ Goes(a, b) /\ UNCHANGED <<plan, confirm>>
    BY <1>11, <2>1, <2>2, <2>3, <2>4 DEF UpdateChild, DayOf
  <2>6. x \in a.read /\ IsEstimate(x)
    BY <1>1, <2>1, <2>5 DEF RunTypeOK
  <2>7. q.price \in Nat /\ (q.local => q.price = 0)
    <3>1. row.price = x.price /\ row.local = x.local
      BY <2>2, <2>6 DEF IsEstimate
    <3>2. q.price = x.price /\ q.local = x.local
      BY <2>3, <3>1
    <3> QED
      BY <2>6, <3>2 DEF IsEstimate
  <2>8. b.quotes = a.quotes \cup {q} /\ QuotesOK(a.quotes)
    BY <1>1, <2>4, <2>5 DEF RunFields, Computing
  <2>9. QuotesOK(b.quotes)
    BY <2>7, <2>8, FS_AddElement DEF QuotesOK
  <2> QED
    BY <1>3, <2>5, <2>9, QuotesGoOn DEF PriceInv
<1>12. CASE FinishRange(a)
  <2>1. PICK r0 : r0 = RequestOf(a)
    OBVIOUS
  <2>2. PICK sum : sum = Summary(r0, a.quotes)
    OBVIOUS
  <2>3. PICK row : row = [sum EXCEPT !.fresh = plan[r0].fresh]
    OBVIOUS
  <2>4. /\ a.pc = "summary" /\ At(a, "done") /\ UNCHANGED confirm
        /\ plan' = [plan EXCEPT ![r0] = row]
    BY <1>12, <2>1, <2>2, <2>3 DEF FinishRange, UpdatePlan
  <2>5. RunsPriced'
    BY <1>4, <2>4 DEF Computing
  <2>6. QuotesOK(a.quotes)
    BY <1>1, <2>4 DEF Computing
  <2>7. /\ DOMAIN sum = {"status", "allowed", "fresh", "quotes", "total"}
        /\ sum.quotes = a.quotes /\ sum.total = QuotedTotal({q \in a.quotes : ~q.local})
    BY <2>2 DEF Summary
  <2>8. PlanPriced(row)
    BY <2>3, <2>6, <2>7 DEF PlanPriced
  <2>9. PlansPriced'
    BY <2>4, <2>8 DEF PriceInv, PlansPriced, TypeInv, PlansOK
  <2> QED
    BY <2>4, <2>5, <2>9 DEF PriceInv, ConfirmPriced
<1> QED
  BY <1>5, <1>6, <1>7, <1>8, <1>9, <1>10, <1>11, <1>12 DEF RangeRunStep

\* Whatever happens, a plan that may be confirmed asks for what it quotes.
LEMMA StepKeepsPrices ==
  ASSUME TypeInv, PriceInv, [RangeNext]_vars
  PROVE  PriceInv'
<1>1. ASSUME JobStep, confirm' \subseteq confirm, UNCHANGED plan
      PROVE  PriceInv'
  BY <1>1, JobStepGoesOn, QuotesStay DEF TypeInv, PriceInv, PlansPriced, ConfirmPriced
<1>2. ASSUME NEW a \in runs, RangeRunStep(a) \/ SingleRunSaves(a) \/ SingleRunFails(a)
      PROVE  PriceInv'
  BY <1>2, RangeRunKeepsPrices
<1>3. ASSUME NEW r \in Ranges, PlanTtlElapses(r)
      PROVE  PriceInv'
  <2>1. PICK row : row = [plan[r] EXCEPT !.fresh = FALSE]
    OBVIOUS
  <2>2. plan' = [plan EXCEPT ![r] = row] /\ UNCHANGED <<runs, confirm>>
    BY <1>3, <2>1 DEF PlanTtlElapses
  <2>3. PlanPriced(row)
    BY <1>3, <2>1 DEF PriceInv, PlansPriced, PlanPriced
  <2> QED
    BY <2>2, <2>3 DEF PriceInv, RunsPriced, PlansPriced, ConfirmPriced, TypeInv, PlansOK
<1>4. ASSUME NEW r \in Ranges, NEW k \in Keys, ReadPlan(r, k)
      PROVE  PriceInv'
  <2>1. /\ confirm' = {[range |-> r, key |-> k, plan |-> plan[r]]} /\ plan[r].allowed
        /\ UNCHANGED <<runs, plan>>
    BY <1>4 DEF ReadPlan
  <2> QED
    BY <1>4, <2>1 DEF PriceInv, RunsPriced, PlansPriced, ConfirmPriced
<1>5. ASSUME NEW c \in confirm, Refuse(c) \/ Confirm(c)
      PROVE  PriceInv'
  <2>1. confirm' \subseteq confirm /\ UNCHANGED runs
    BY <1>5 DEF Refuse, Confirm, jobVars
  <2>2. PICK row : row = [[c.plan EXCEPT !.status = "AUTHORIZED"] EXCEPT !.fresh = plan[c.range].fresh]
    OBVIOUS
  <2>3. plan' = plan \/ plan' = [plan EXCEPT ![c.range] = row]
    BY <1>5, <2>2 DEF Refuse, Confirm, UpdatePlan
  <2>4. PlanPriced(row)
    BY <2>2 DEF PriceInv, ConfirmPriced, PlanPriced
  <2>5. PlansPriced'
    BY <2>3, <2>4 DEF PriceInv, PlansPriced, TypeInv, PlansOK
  <2> QED
    BY <2>1, <2>5 DEF PriceInv, RunsPriced, ConfirmPriced
<1>6. ASSUME NEW d \in Days, AuthorizeDay(d) \/ CancelDay(d) \/ EstimateAlone(d) \/ Import(d)
      PROVE  PriceInv'
  BY <1>6 DEF AuthorizeDay, CancelDay, EstimateAlone, Import, PriceInv, RunsPriced, PlansPriced, ConfirmPriced
<1>7. CASE UNCHANGED vars
  BY <1>7 DEF vars, jobVars, rangeVars, PriceInv, RunsPriced, PlansPriced, ConfirmPriced
<1> QED
  BY <1>1, <1>2, <1>3, <1>4, <1>5, <1>6, <1>7 DEF RangeNext

\* The reservations of a step that reserves paid days at their quotes grow
\* by no more than the total of the plan.
LEMMA ReservationsGrowByQuotes ==
  ASSUME TypeInv, AuthOK', NEW Q, QuotesOK(Q), NEW N \in SUBSET Days,
         \A d \in N : auth[d] = None /\ auth'[d] = est[d].price /\ \E q \in Q : q.day = d,
         \A d \in Days \ N : auth'[d] = auth[d],
         \A q \in Q : est[q.day].price = q.price
  PROVE  /\ Reserved' <= Reserved + QuotedTotal({q \in Q : ~q.local})
         /\ Reserved \in Nat /\ Reserved' \in Nat /\ QuotedTotal({q \in Q : ~q.local}) \in Nat
<1>1. PICK P : P = {q \in Q : ~q.local}
  OBVIOUS
<1>2. PICK held : held = Held
  OBVIOUS
<1>3. PICK after : after = Held'
  OBVIOUS
<1>4. PICK more : more = [d \in Days |-> IF d \in N THEN est[d].price ELSE 0]
  OBVIOUS
<1>5. PICK quoted : quoted = [q \in P |-> q.price]
  OBVIOUS
<1>6. PICK day : day = [q \in P |-> q.day]
  OBVIOUS
<1>7. IsFiniteSet(Days) /\ IsFiniteSet(P)
  BY <1>1, RangeAssumption, FS_Subset DEF QuotesOK
<1>8. \A d \in Days : held[d] = (IF auth[d] = None THEN 0 ELSE auth[d])
  BY <1>2 DEF Held
<1>9. \A d \in Days : after[d] = (IF auth'[d] = None THEN 0 ELSE auth'[d])
  BY <1>3 DEF Held
<1>10. \A d \in Days : /\ auth[d] \in Nat \cup {None} /\ auth'[d] \in Nat \cup {None}
                       /\ est[d].price \in Nat
  BY DEF TypeInv, AuthOK, EstOK, IsEstimate
<1>11. Numbers(held, Days) /\ Numbers(after, Days) /\ Numbers(more, Days) /\ Numbers(quoted, P)
  <2>1. Numbers(held, Days)
    BY <1>8, <1>10 DEF Numbers
  <2>2. Numbers(after, Days)
    BY <1>9, <1>10 DEF Numbers
  <2>3. Numbers(more, Days)
    BY <1>4, <1>10 DEF Numbers
  <2>4. Numbers(quoted, P)
    BY <1>1, <1>5 DEF Numbers, QuotesOK
  <2> QED
    BY <2>1, <2>2, <2>3, <2>4
<1>12. SumFunctionOnSet(after, Days) <= SumFunctionOnSet(held, Days) + SumFunctionOnSet(more, Days)
  <2>1. \A d \in Days : after[d] <= held[d] + more[d]
    <3> SUFFICES ASSUME NEW d \in Days PROVE after[d] <= held[d] + more[d]
      OBVIOUS
    <3>1. CASE d \in N
      BY <1>4, <1>8, <1>9, <1>10, <3>1 DEF None
    <3>2. CASE d \notin N
      BY <1>4, <1>8, <1>9, <1>10, <3>2 DEF None
    <3> QED
      BY <3>1, <3>2
  <2> QED
    BY <1>7, <1>11, <2>1, SumGrowsBy
<1>13. SumFunctionOnSet(more, Days) <= SumFunctionOnSet(quoted, P)
  <2>1. Matched(more, Days, quoted, P, day)
    <3> SUFFICES ASSUME NEW d \in Days, more[d] # 0
                 PROVE  \E q \in P : day[q] = d /\ more[d] <= quoted[q]
      BY DEF Matched
    <3>1. d \in N /\ more[d] = est[d].price
      BY <1>4
    <3>2. PICK q \in Q : q.day = d
      BY <3>1
    <3>3. q.price = more[d]
      BY <3>1, <3>2
    <3>4. q \in P
      BY <1>1, <3>3 DEF QuotesOK
    <3>5. day[q] = d /\ quoted[q] = more[d]
      BY <1>5, <1>6, <3>2, <3>3, <3>4
    <3>6. more[d] \in Nat
      BY <1>11 DEF Numbers
    <3> QED
      BY <3>4, <3>5, <3>6
  <2> QED
    BY <1>7, <1>11, <2>1, SumMatched
<1>14. /\ SumFunctionOnSet(held, Days) \in Nat /\ SumFunctionOnSet(after, Days) \in Nat
       /\ SumFunctionOnSet(more, Days) \in Nat /\ SumFunctionOnSet(quoted, P) \in Nat
  BY <1>7, <1>11, SumType
<1>15. /\ Reserved = SumFunctionOnSet(held, Days) /\ Reserved' = SumFunctionOnSet(after, Days)
       /\ QuotedTotal({q \in Q : ~q.local}) = SumFunctionOnSet(quoted, P)
  BY <1>1, <1>2, <1>3, <1>5 DEF Reserved, QuotedTotal
<1> QED
  BY <1>12, <1>13, <1>14, <1>15

(* For any ranges, days, budgets and quotations: a confirmation on         *)
(* estimates that are as its review quoted them never takes the            *)
(* reservations past the budget of the range, however many of its days     *)
(* were reserved by others in between (authorize_range_plan adds up the    *)
(* ledger again inside its transaction).                                   *)
THEOREM ConfirmationsFitBudget == RangeSpec => RangeWithinBudget
<1> DEFINE Fits(c) == (c \notin confirm' /\ auth' # auth /\ \A q \in c.plan.quotes : est[q.day].price = q.price)
                        => Reserved' <= BudgetOf[c.range]
<1>1. RangeInit => RunsInv /\ TypeInv /\ QuotesInv /\ PriceInv
  <2>1. RangeInit => RunsInv
    BY DEF RangeInit, JobsInit, RunsInv, AtMostOneRun
  <2>2. RangeInit => PriceInv
    BY DEF RangeInit, JobsInit, PriceInv, RunsPriced, PlansPriced, ConfirmPriced, PlanPriced, NoPlan
  <2> QED
    BY <2>1, <2>2, InitialQuotes
<1>2. RunsInv /\ TypeInv /\ QuotesInv /\ PriceInv /\ [RangeNext]_vars => (RunsInv /\ TypeInv /\ QuotesInv /\ PriceInv)'
  BY StepKeepsRuns, StepKeepsQuotes, StepKeepsPrices
<1>3. RunsInv /\ TypeInv /\ QuotesInv /\ PriceInv /\ [RangeNext]_vars => [\A c \in confirm : Fits(c)]_vars
  <2> SUFFICES ASSUME RunsInv, TypeInv, QuotesInv, PriceInv, RangeNext, NEW c \in confirm
               PROVE  Fits(c)
    OBVIOUS
  <2> SUFFICES ASSUME c \notin confirm', auth' # auth, \A q \in c.plan.quotes : est[q.day].price = q.price
               PROVE  Reserved' <= BudgetOf[c.range]
    OBVIOUS
  <2>0. TypeInv'
    BY StepKeepsQuotes
  <2>1. Confirm(c)
    <3>1. \A a \in runs : ~(RangeRunStep(a) \/ SingleRunSaves(a) \/ SingleRunFails(a))
      BY DEF RangeRunStep, Begin, BeginFails, AfterReport, EstimateDay, DayFails, ReadChild, UpdateChild, FinishRange,
             SingleRunSaves, SingleRunFails, rangeVars
    <3>2. \A r \in Ranges : ~PlanTtlElapses(r) /\ \A k \in Keys : ~ReadPlan(r, k)
      BY DEF PlanTtlElapses, ReadPlan
    <3>3. \A d \in Days : ~(AuthorizeDay(d) \/ CancelDay(d) \/ EstimateAlone(d) \/ Import(d))
      BY DEF AuthorizeDay, CancelDay, EstimateAlone, Import
    <3>4. PICK b \in confirm : Refuse(b) \/ Confirm(b)
      BY <3>1, <3>2, <3>3 DEF RangeNext
    <3>5. b = c /\ ~Refuse(b)
      BY <3>4 DEF Refuse, Confirm
    <3> QED
      BY <3>4, <3>5
  <2>2. PICK N : N = {d \in Days : (\E q \in c.plan.quotes : q.day = d) /\ ~est[d].local /\ auth[d] = None}
    OBVIOUS
  <2>3. /\ FitsBudget(c) /\ DOMAIN auth' = Days
        /\ \A d \in Days : auth'[d] = IF d \in N THEN est[d].price ELSE auth[d]
    <3>1. ~\E d \in Days : authKey[d] = <<c.range, c.key>>
      <4>1. ASSUME \E d \in Days : authKey[d] = <<c.range, c.key>>
            PROVE  auth' = [d \in Days |-> auth[d]]
        BY <2>1, <4>1 DEF Confirm
      <4>2. auth = [d \in Days |-> auth[d]]
        BY DEF TypeInv, AuthOK
      <4> QED
        BY <4>1, <4>2
    <3>2. FitsBudget(c)
      BY <2>1, <3>1 DEF Confirm
    <3>3. auth' = [d \in Days |-> IF d \in N THEN est[d].price ELSE auth[d]]
      <4>1. \A d : d \in N <=> d \in {e \in {q.day : q \in c.plan.quotes} : ~est[e].local /\ auth[e] = None} /\ d \in Days
        BY <2>2
      <4>2. auth' = [d \in Days |-> IF d \in {e \in {f \in {q.day : q \in c.plan.quotes} : ~est[f].local} : auth[e] = None}
                                    THEN est[d].price ELSE auth[d]]
        BY <2>1, <3>1 DEF Confirm
      <4> QED
        BY <4>1, <4>2
    <3> QED
      BY <3>2, <3>3
  <2>4. PICK Q : Q = c.plan.quotes
    OBVIOUS
  <2>5. /\ c.range \in Ranges /\ QuotesOK(Q)
        /\ c.plan.total = QuotedTotal({q \in Q : ~q.local})
    BY <2>4 DEF TypeInv, ConfirmOK, PriceInv, ConfirmPriced, PlanPriced
  <2>6. /\ Reserved' <= Reserved + c.plan.total
        /\ Reserved \in Nat /\ Reserved' \in Nat /\ c.plan.total \in Nat
    <3>1. N \in SUBSET Days /\ AuthOK'
      BY <2>0, <2>2 DEF TypeInv
    <3>2. /\ \A d \in N : auth[d] = None /\ auth'[d] = est[d].price /\ \E q \in Q : q.day = d
          /\ \A d \in Days \ N : auth'[d] = auth[d]
          /\ \A q \in Q : est[q.day].price = q.price
      BY <2>2, <2>3, <2>4
    <3> QED
      BY <2>5, <3>1, <3>2, ReservationsGrowByQuotes
  <2>7. BudgetOf[c.range] \in Nat
    BY <2>5, RangeAssumption
  <2> QED
    BY <2>3, <2>6, <2>7 DEF FitsBudget
<1> QED
  BY <1>1, <1>2, <1>3, PTL DEF RangeSpec, RangeWithinBudget
=============================================================================
