---------------------------- MODULE EstimateJobs ----------------------------
(***************************************************************************)
(* Background estimate jobs: planner_jobs.py, the estimate_jobs rows of    *)
(* storage.py and the task registry of service.py.  A job row is written   *)
(* by three kinds of threads that each read it first and then write        *)
(* without a condition: the run of the job, a cancellation and an expiry.  *)
(* What a run works on is the business of the module that extends this     *)
(* one: it takes the runs at "work" to "done", "failing" or back to report *)
(* progress.                                                               *)
(*                                                                         *)
(* The create and retry endpoints are coroutines without an await: they    *)
(* are atomic with respect to each other and to the registry.              *)
(***************************************************************************)
EXTENDS Integers, FiniteSets

CONSTANTS
  MaxJobs,        \* bound on the rows of estimate_jobs; a row's number is its age
  Requests,       \* request fingerprints, one job kind each
  MaxCalls        \* bound on what clients, clocks and crashes do to the runs

ASSUME JobAssumption == MaxJobs \in Nat \ {0} /\ MaxCalls \in Nat

JobIds == 1 .. MaxJobs
Active == {"PENDING", "RUNNING"}
Ended == {"COMPLETED", "FAILED", "CANCELLED", "EXPIRED"}

VARIABLES
  up,             \* the service runs
  calls,          \* counts them
  jobs,           \* the rows in order of creation: status, request, now < expires_at
  registry,       \* estimate_tasks: the jobs with a task that is not done
  runs,           \* the threads in run_estimate_job
  cancels,        \* jobs a cancellation has read and is about to mark
  expiries        \* jobs an expiry has listed and is about to mark

jobVars == <<up, calls, jobs, registry, runs, cancels, expiries>>

Called == calls < MaxCalls /\ calls' = calls + 1

JobsCreated == DOMAIN jobs
StatusIs(j, s) == jobs' = [jobs EXCEPT ![j].status = s]

NewRun(j) == [job |-> j, pc |-> "start", day |-> 0, read |-> {}, quotes |-> {}]
Goes(a, b) == runs' = (runs \ {a}) \cup {b}
At(a, pc) == Goes(a, [a EXCEPT !.pc = pc])

\* The task is done with its thread, and leaves the registry.
RunEnds(a) == runs' = runs \ {a} /\ registry' = registry \ {a.job}

JobsInit ==
  /\ up = FALSE /\ calls = 0 /\ jobs = <<>>
  /\ registry = {} /\ runs = {} /\ cancels = {} /\ expiries = {}
-----------------------------------------------------------------------------
(* The endpoints.                                                          *)

StartTaskAlways(j) ==   \* mutant: the registry is not looked at
  registry' = registry \cup {j} /\ runs' = runs \cup {NewRun(j)}

StartTask(j) ==
  IF j \in registry THEN UNCHANGED <<registry, runs>>
  ELSE registry' = registry \cup {j} /\ runs' = runs \cup {NewRun(j)}

\* The newest row of the request that is neither over nor out of date.
Reusable(r) == {j \in JobsCreated : /\ jobs[j].request = r /\ jobs[j].fresh
                                    /\ jobs[j].status \in Active \cup {"COMPLETED"}}

NewJob(r) ==
  /\ Cardinality(JobsCreated) < MaxJobs
  /\ LET j == Cardinality(JobsCreated) + 1 IN
     /\ jobs' = [i \in 1 .. j |-> IF i = j THEN [status |-> "PENDING", request |-> r, fresh |-> TRUE]
                                  ELSE jobs[i]]
     /\ StartTask(j)

CreateJob(r) ==
  /\ up /\ Called
  /\ IF Reusable(r) = {} THEN NewJob(r)
     ELSE \E j \in Reusable(r) :
          /\ \A i \in Reusable(r) : i <= j
          /\ jobs[j].status \in Active
          /\ StartTask(j) /\ UNCHANGED jobs
  /\ UNCHANGED <<up, cancels, expiries>>

RetryJob(j) ==
  /\ up /\ Called /\ jobs[j].status \in {"FAILED", "EXPIRED", "CANCELLED"}
  /\ NewJob(jobs[j].request)
  /\ UNCHANGED <<up, cancels, expiries>>

ReadForCancel(j) ==
  /\ up /\ Called /\ jobs[j].status \in Active
  /\ cancels' = cancels \cup {j}
  /\ UNCHANGED <<up, jobs, registry, runs, expiries>>

WriteCancelled(j) ==
  /\ cancels' = cancels \ {j} /\ j \in cancels
  /\ StatusIs(j, "CANCELLED")
  /\ UNCHANGED <<up, calls, registry, runs, expiries>>

JobTtlElapses(j) ==
  /\ Called /\ jobs[j].fresh
  /\ jobs' = [jobs EXCEPT ![j].fresh = FALSE]
  /\ UNCHANGED <<up, registry, runs, cancels, expiries>>

Expirable(j) == ~jobs[j].fresh /\ jobs[j].status \in {"PENDING", "COMPLETED"}

\* expire_estimate_jobs lists every row, and then marks what it has listed.
ListExpirable ==
  /\ up /\ Called /\ \E j \in JobsCreated : Expirable(j)
  /\ expiries' = expiries \cup {j \in JobsCreated : Expirable(j)}
  /\ UNCHANGED <<up, jobs, registry, runs, cancels>>

WriteExpired(j) ==
  /\ expiries' = expiries \ {j} /\ j \in expiries
  /\ StatusIs(j, "EXPIRED")
  /\ UNCHANGED <<up, calls, registry, runs, cancels>>
-----------------------------------------------------------------------------
(* A run of a job.                                                         *)

ReadJob(a) ==
  /\ a.pc = "start"
  /\ IF jobs[a.job].status \in {"CANCELLED", "COMPLETED"} THEN RunEnds(a)
     ELSE /\ At(a, IF jobs[a.job].status = "PENDING" /\ ~jobs[a.job].fresh THEN "late" ELSE "mark")
          /\ UNCHANGED registry
  /\ UNCHANGED <<up, calls, jobs, cancels, expiries>>

MarkLate(a) ==
  /\ a.pc = "late"
  /\ StatusIs(a.job, "EXPIRED") /\ RunEnds(a)
  /\ UNCHANGED <<up, calls, cancels, expiries>>

MarkRunning(a) ==
  /\ a.pc = "mark"
  /\ StatusIs(a.job, "RUNNING") /\ At(a, "work")
  /\ UNCHANGED <<up, calls, registry, cancels, expiries>>

\* report() of a range: it reads the row, and a cancelled job raises
\* EstimateJobCancelled; otherwise it writes RUNNING over what is there now.
ReadForReport(a) ==
  /\ a.pc = "report"
  /\ IF jobs[a.job].status = "CANCELLED" THEN RunEnds(a) ELSE At(a, "beat") /\ UNCHANGED registry
  /\ UNCHANGED <<up, calls, jobs, cancels, expiries>>

WriteReport(a) ==
  /\ a.pc = "beat"
  /\ StatusIs(a.job, "RUNNING") /\ At(a, "reported")
  /\ UNCHANGED <<up, calls, registry, cancels, expiries>>

ReadForResult(a) ==
  /\ a.pc = "done"
  /\ IF jobs[a.job].status = "CANCELLED" THEN RunEnds(a) ELSE At(a, "result") /\ UNCHANGED registry
  /\ UNCHANGED <<up, calls, jobs, cancels, expiries>>

WriteResult(a) ==
  /\ a.pc = "result"
  /\ StatusIs(a.job, "COMPLETED") /\ RunEnds(a)
  /\ UNCHANGED <<up, calls, cancels, expiries>>

WriteFailure(a) ==
  /\ a.pc = "failing"
  /\ StatusIs(a.job, "FAILED") /\ RunEnds(a)
  /\ UNCHANGED <<up, calls, cancels, expiries>>

JobRunStep(a) ==
  \/ ReadJob(a) \/ MarkLate(a) \/ MarkRunning(a) \/ ReadForReport(a) \/ WriteReport(a)
  \/ ReadForResult(a) \/ WriteResult(a) \/ WriteFailure(a)
-----------------------------------------------------------------------------
(* The process.                                                            *)

ServiceEnds ==
  /\ up /\ Called
  /\ up' = FALSE
  /\ registry' = {} /\ runs' = {} /\ cancels' = {} /\ expiries' = {}
  /\ UNCHANGED jobs

RecoverablePending == {j \in JobsCreated : jobs'[j].status = "PENDING"}   \* mutant: forgets RUNNING

Recoverable == {j \in JobsCreated : jobs'[j].status \in Active}

\* lifespan expires first, then takes up every row that is left.
ServiceStarts ==
  /\ ~up /\ up' = TRUE
  /\ jobs' = [j \in JobsCreated |-> IF Expirable(j) THEN [jobs[j] EXCEPT !.status = "EXPIRED"] ELSE jobs[j]]
  /\ registry' = Recoverable
  /\ runs' = {NewRun(j) : j \in Recoverable}
  /\ UNCHANGED <<calls, cancels, expiries>>

JobStep ==
  \/ \E r \in Requests : CreateJob(r)
  \/ \E j \in JobsCreated : \/ RetryJob(j) \/ ReadForCancel(j) \/ WriteCancelled(j)
                            \/ JobTtlElapses(j) \/ WriteExpired(j)
  \/ ListExpirable \/ ServiceEnds \/ ServiceStarts
  \/ \E a \in runs : JobRunStep(a)
-----------------------------------------------------------------------------
(* No job is run by two threads at once, although the row is scheduled     *)
(* anew by a repeated request, by a start after a crash and while an       *)
(* earlier run is still on its way out (_schedule_estimate_job).           *)
AtMostOneRun == \A a, b \in runs : a.job = b.job => a = b

(* A job that is pending or running gets a final status if the service     *)
(* stays up: neither a crash, nor the late writes of a cancellation or an  *)
(* expiry leave a row that nobody works on (recoverable_estimate_jobs).    *)
JobEnds == <>[]up => \A j \in JobIds :
             (j \in JobsCreated /\ jobs[j].status \in Active)
               ~> (j \in JobsCreated /\ jobs[j].status \in Ended)
=============================================================================
