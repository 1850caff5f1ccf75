----------------------- MODULE DownloadAuthorization -----------------------
(***************************************************************************)
(* The paid-download authorization of the market service:                  *)
(* apps/market_service/authorization.py (authorize, submit, queue failure, *)
(* retry, cancel, reconcile, expiry), the scheduling of its submissions in *)
(* service.py and the estimate upsert of storage.py.                       *)
(*                                                                         *)
(* One authorization row and one ledger row exist per estimate (UNIQUE     *)
(* estimate_id), one dataset_jobs row per (estimate, schema).  A "job" of  *)
(* the model is such a row; orders[j] is what Databento has accepted for   *)
(* it, which the service can only learn from the reply to its call.        *)
(*                                                                         *)
(* These are the requests for a single day.  Confirmations of a range plan *)
(* write the same rows by other rules: RangeAuthorization adds them, and   *)
(* says which of the properties below survive.                             *)
(***************************************************************************)
EXTENDS Integers, FiniteSets, Functions

CONSTANTS
  Estimates,      \* rows of data_estimates, one per request fingerprint
  Jobs,           \* rows of dataset_jobs, one per estimate and schema
  EstimateOf,     \* the estimate of a job
  LegacyJobs,     \* rows ordered by the service before authorizations existed
  Offers,         \* which local_reuse / allowed verdicts an estimate may get
  Amounts,        \* what maximumAuthorizedUsd may be
  ConfiguredLimits,   \* the limits an estimate may get from the configuration
  WeekLength, MonthLength,
  LastDay,        \* bound: the last day the model looks at
  Modes           \* the execution modes the service is started in

ExecutionModes == {"disabled", "dry_run", "live"}

Windows == {"daily", "weekly", "monthly"}
LimitKinds == Windows \cup {"request"}
Limits == [LimitKinds -> Nat]

ASSUME ModesAssumption == Modes \subseteq ExecutionModes
ASSUME JobsAssumption == /\ EstimateOf \in [Jobs -> Estimates]
                         /\ LegacyJobs \subseteq Jobs /\ IsFiniteSet(LegacyJobs)
ASSUME AmountsAssumption == Amounts \subseteq Nat /\ Offers \subseteq {"reuse", "allowed", "blocked"}
ASSUME LimitsAssumption ==
  /\ ConfiguredLimits \subseteq Limits
  /\ {WeekLength, MonthLength} \subseteq Nat \ {0}
  /\ LastDay \in Nat

VARIABLES
  up,             \* the service process runs
  mode,           \* DATABENTO_BATCH_EXECUTION_MODE of the process
  day,            \* the UTC day
  estStatus,      \* data_estimates.status, "NONE" while there is no row
  offer,          \* local_reuse / allowed of the row
  price,          \* metadata.maximumAuthorizedUsd of the row
  limits,         \* metadata.requestLimitUsd, dailyLimitUsd, ... of the row
  fresh,          \* now < expires_at
  authState,      \* download_authorizations.state, "NONE" while there is no row
  authError,      \* error_code
  retrySafe,      \* retry_safe
  authMode,       \* execution_mode
  authDay,        \* the day of created_at
  authAmount,     \* authorization_amount, also the ledger's amount
  grant,          \* history: the limits authorize_download checked it against
  ledger,         \* authorization_ledger.state
  jobStatus,      \* dataset_jobs.status, "NONE" while there is no row
  linked,         \* dataset_jobs.authorization_id IS NOT NULL
  remoteId,       \* dataset_jobs.remote_job_id IS NOT NULL
  orders,         \* batch jobs Databento has accepted for the row
  expiring,       \* a request has seen the estimate expired, not yet marked it
  handler,        \* a request between its commit and _schedule_authorization
  task,           \* authorization_tasks[e]: queued for the semaphore, or where it is
  todo,           \* jobs the task that holds the semaphore has yet to submit
  reply           \* the job whose accepted order it is about to record

estimateVars == <<estStatus, offer, price, limits, fresh>>
authVars     == <<authState, authError, retrySafe, authMode, authDay, authAmount, grant, ledger>>
jobVars      == <<jobStatus, linked, remoteId>>
storageVars  == <<estimateVars, authVars, jobVars>>
taskVars     == <<expiring, handler, task, todo, reply>>
vars         == <<up, mode, day, storageVars, orders, taskVars>>

NewEstimateStatus == [reuse |-> "LOCAL_REUSE", allowed |-> "AWAITING_CONFIRMATION", blocked |-> "BLOCKED"]
ActiveStates   == {"AUTHORIZED", "SUBMITTING", "QUEUED", "DOWNLOADING", "IMPORTING", "VALIDATING_IMPORT"}
TerminalStates == {"COMPLETED", "EXPIRED", "CANCELLED", "FAILED"}
LifecycleStatuses == ActiveStates \cup {"SUBMITTED", "COMPLETED", "READY", "IMPORTED"}
AuthStates == ActiveStates \cup TerminalStates
ErrorCodes == {"QUEUE_UNAVAILABLE", "NETWORK_ERROR", "DATABENTO_REJECTED", "IMPORT_FAILED"}
RemoteStatuses == {"PROCESSING", "READY", "EXPIRED"}   \* what a poll of Databento writes

Running == {"claimed", "submitting", "recording", "failing"}

JobsOf(e) == {j \in Jobs : EstimateOf[j] = e}
NoRemoteId(e) == {j \in JobsOf(e) : ~remoteId[j]}
Unlinked(e) == {j \in JobsOf(e) : jobStatus[j] # "NONE" /\ ~linked[j]}

\* UPDATE dataset_jobs SET status = s for the jobs in J.
WithStatus(J, s) == [j \in Jobs |-> IF j \in J THEN s ELSE jobStatus[j]]

(***************************************************************************)
(* Budget windows (_reservation_totals, _validate_budget).                 *)
(***************************************************************************)
WindowStart(length) == day - (day % length)
ReservedAfter(start) ==   \* mutant: created > start
  SumFunctionOnSet(authAmount, {e \in Estimates : ledger[e] = "RESERVED" /\ authDay[e] > start})

ReservedSince(start) ==
  SumFunctionOnSet(authAmount, {e \in Estimates : ledger[e] = "RESERVED" /\ authDay[e] >= start})
Length == [daily |-> 1, weekly |-> WeekLength, monthly |-> MonthLength]

\* The limits are those stored with the estimate, whoever wrote them.
WithinBudget(e) ==
  /\ price[e] <= limits[e]["request"]
  /\ \A w \in Windows : ReservedSince(WindowStart(Length[w])) + price[e] <= limits[e][w]

TypeOK ==
  /\ up \in BOOLEAN /\ mode \in ExecutionModes /\ day \in 0..LastDay
  /\ estStatus \in [Estimates -> LifecycleStatuses \cup AuthStates
                       \cup {"NONE", "LOCAL_REUSE", "AWAITING_CONFIRMATION", "BLOCKED"}]
  /\ offer \in [Estimates -> Offers \cup {"blocked"}] /\ price \in [Estimates -> Amounts \cup {0}]
  /\ limits \in [Estimates -> Limits] /\ grant \in [Estimates -> SUBSET Limits]
  /\ fresh \in [Estimates -> BOOLEAN]
  /\ authState \in [Estimates -> AuthStates \cup {"NONE"}]
  /\ authError \in [Estimates -> ErrorCodes \cup {"none"}]
  /\ retrySafe \in [Estimates -> BOOLEAN]
  /\ authMode \in [Estimates -> ExecutionModes \cup {"none", "recovered"}]
  /\ authDay \in [Estimates -> 0..LastDay] /\ authAmount \in [Estimates -> Amounts \cup {0}]
  /\ ledger \in [Estimates -> {"none", "RESERVED", "RELEASED"}]
  /\ jobStatus \in [Jobs -> AuthStates \cup RemoteStatuses \cup {"NONE", "SUBMITTED", "IMPORTED"}]
  /\ linked \in [Jobs -> BOOLEAN] /\ remoteId \in [Jobs -> BOOLEAN]
  /\ orders \in [Jobs -> Nat]
  /\ expiring \in [Estimates -> BOOLEAN]
  /\ handler \in [Estimates -> {"idle", "authorize", "retry"}]
  /\ task \in [Estimates -> {"none", "queued"} \cup Running]
  /\ todo \subseteq Jobs /\ reply \subseteq Jobs

\* The process has just stopped or not yet started: no request, no task.
NoTasks ==
  /\ expiring' = [e \in Estimates |-> FALSE]
  /\ handler' = [e \in Estimates |-> "idle"]
  /\ task' = [e \in Estimates |-> "none"]
  /\ todo' = {} /\ reply' = {}

\* An installation the old service left: its rows have a remote id and no
\* authorization; migrate() adds the new columns and changes none of this.
Init ==
  /\ up = FALSE /\ mode = "disabled" /\ day = 0
  /\ \E legacy \in SUBSET LegacyJobs : \E a \in Amounts :
       LET old == {EstimateOf[j] : j \in legacy} IN
       /\ estStatus = [e \in Estimates |-> IF e \in old THEN "SUBMITTED" ELSE "NONE"]
       /\ offer = [e \in Estimates |-> "blocked"]
       /\ price = [e \in Estimates |-> IF e \in old THEN a ELSE 0]
       /\ \E done \in SUBSET legacy :
            jobStatus = [j \in Jobs |-> IF j \in done THEN "IMPORTED"
                                        ELSE IF j \in legacy THEN "SUBMITTED" ELSE "NONE"]
       /\ remoteId = [j \in Jobs |-> j \in legacy]
       /\ orders = [j \in Jobs |-> IF j \in legacy THEN 1 ELSE 0]
  /\ limits = [e \in Estimates |-> [k \in LimitKinds |-> 0]]   \* what is not stored counts as 0
  /\ fresh = [e \in Estimates |-> FALSE]
  /\ authState = [e \in Estimates |-> "NONE"] /\ authError = [e \in Estimates |-> "none"]
  /\ retrySafe = [e \in Estimates |-> FALSE] /\ authMode = [e \in Estimates |-> "none"]
  /\ authDay = [e \in Estimates |-> 0] /\ authAmount = [e \in Estimates |-> 0]
  /\ grant = [e \in Estimates |-> {}]
  /\ ledger = [e \in Estimates |-> "none"] /\ linked = [j \in Jobs |-> FALSE]
  /\ expiring = [e \in Estimates |-> FALSE] /\ handler = [e \in Estimates |-> "idle"]
  /\ task = [e \in Estimates |-> "none"] /\ todo = {} /\ reply = {}
-----------------------------------------------------------------------------
(***************************************************************************)
(* Estimates: creation and re-estimate (save_data_estimate), expiry.       *)
(***************************************************************************)
PreservesStatusOnly(e) == estStatus[e] \in LifecycleStatuses   \* mutant: looks for no job, no authorization

PreservesLifecycle(e) ==
  \/ estStatus[e] \in LifecycleStatuses
  \/ \E j \in JobsOf(e) : jobStatus[j] # "NONE"
  \/ authState[e] # "NONE"

\* The offer is what estimate_mode computed from the budgets it saw earlier,
\* so any offer may be stored: only authorize_download checks under the lock.
\* A preserved lifecycle also gets the new offer, price and limits, which
\* nothing reads once a job or an authorization exists: that case is no step.
SaveEstimate(e, o, a, l) ==
  /\ up /\ ~PreservesLifecycle(e)
  /\ offer' = [offer EXCEPT ![e] = o] /\ price' = [price EXCEPT ![e] = a]
  /\ limits' = [limits EXCEPT ![e] = l]
  /\ estStatus' = [estStatus EXCEPT ![e] = NewEstimateStatus[o]]
  /\ fresh' = [fresh EXCEPT ![e] = TRUE]
  /\ UNCHANGED <<up, mode, day, authVars, jobVars, orders, taskVars>>

TimeToLiveElapses(e) ==
  /\ fresh[e]
  /\ fresh' = [fresh EXCEPT ![e] = FALSE]
  /\ UNCHANGED <<up, mode, day, estStatus, offer, price, limits, authVars, jobVars, orders, taskVars>>

NewDay ==
  /\ day < LastDay
  /\ day' = day + 1
  /\ UNCHANGED <<up, mode, storageVars, orders, taskVars>>

\* authorize_download rolls back, or purchase_review looks: the estimate had
\* expired; _mark_estimate_expired follows in a transaction of its own.
SeeExpired(e) ==
  /\ up /\ estStatus[e] # "NONE" /\ ~fresh[e] /\ authState[e] = "NONE"
  /\ expiring' = [expiring EXCEPT ![e] = TRUE]
  /\ UNCHANGED <<up, mode, day, storageVars, orders, handler, task, todo, reply>>

MarkExpired(e) ==
  /\ expiring[e]
  /\ expiring' = [expiring EXCEPT ![e] = FALSE]
  /\ estStatus' = IF authState[e] = "NONE" THEN [estStatus EXCEPT ![e] = "EXPIRED"] ELSE estStatus
  /\ UNCHANGED <<up, mode, day, offer, price, limits, fresh, authVars, jobVars, orders,
                 handler, task, todo, reply>>
-----------------------------------------------------------------------------
(***************************************************************************)
(* Authorization: one BEGIN IMMEDIATE transaction, then the request hands  *)
(* the submission to the event loop.  Replays and payloads that do not     *)
(* match the stored estimate change nothing and are not steps.             *)
(***************************************************************************)
AuthorizableTwice(e) ==   \* mutant: no look for an existing authorization
  estStatus[e] # "NONE" /\ fresh[e] /\ offer[e] = "allowed" /\ Unlinked(e) = {}

Authorizable(e) ==
  /\ estStatus[e] # "NONE" /\ authState[e] = "NONE"
  /\ fresh[e] /\ offer[e] = "allowed" /\ Unlinked(e) = {}

Authorize(e) ==
  /\ up /\ mode # "disabled"
  /\ Authorizable(e)
  /\ WithinBudget(e)
  /\ authState' = [authState EXCEPT ![e] = "AUTHORIZED"]
  /\ authMode' = [authMode EXCEPT ![e] = mode]
  /\ authDay' = [authDay EXCEPT ![e] = day]
  /\ authAmount' = [authAmount EXCEPT ![e] = price[e]]
  /\ grant' = [grant EXCEPT ![e] = {limits[e]}]
  /\ ledger' = [ledger EXCEPT ![e] = "RESERVED"]
  /\ jobStatus' = WithStatus(JobsOf(e), "AUTHORIZED")
  /\ linked' = [j \in Jobs |-> linked[j] \/ EstimateOf[j] = e]
  /\ estStatus' = [estStatus EXCEPT ![e] = "AUTHORIZED"]
  /\ handler' = [handler EXCEPT ![e] = IF mode = "live" THEN "authorize" ELSE "idle"]
  /\ UNCHANGED <<up, mode, day, offer, price, limits, fresh, authError, retrySafe, remoteId, orders,
                 expiring, task, todo, reply>>

\* _schedule_authorization from the event loop: a task, if none is alive.
Schedule(e) ==
  /\ handler[e] = "authorize"
  /\ handler' = [handler EXCEPT ![e] = "idle"]
  /\ task' = [task EXCEPT ![e] = IF @ = "none" THEN "queued" ELSE @]
  /\ UNCHANGED <<up, mode, day, storageVars, orders, expiring, todo, reply>>

Fail(e, code, safe) ==
  /\ authState' = [authState EXCEPT ![e] = "FAILED"]
  /\ authError' = [authError EXCEPT ![e] = code]
  /\ retrySafe' = [retrySafe EXCEPT ![e] = safe]
  /\ jobStatus' = WithStatus(NoRemoteId(e), "FAILED")
  /\ estStatus' = [estStatus EXCEPT ![e] = "FAILED"]

\* mark_queue_failed asks nothing about the authorization's present state.
MarkQueueFailed(e) == Fail(e, "QUEUE_UNAVAILABLE", TRUE)

\* Scheduling raises.  The retry endpoint is a plain def: its thread has no
\* running loop, so create_task raises there unless a task for e is alive.
ScheduleFails(e) ==
  /\ handler[e] # "idle"
  /\ handler' = [handler EXCEPT ![e] = "idle"]
  /\ IF task[e] # "none"
       THEN UNCHANGED <<authState, authError, retrySafe, jobStatus, estStatus>>
       ELSE MarkQueueFailed(e)
  /\ UNCHANGED <<up, mode, day, offer, price, limits, fresh, authMode, authDay, authAmount, grant, ledger,
                 linked, remoteId, orders, expiring, task, todo, reply>>

\* prepare_queue_retry of the retry endpoint; ScheduleFails(e) follows.
PrepareRetry(e) ==
  /\ up
  /\ authState[e] = "FAILED" /\ retrySafe[e] /\ authError[e] = "QUEUE_UNAVAILABLE"
  /\ NoRemoteId(e) = JobsOf(e)
  /\ authState' = [authState EXCEPT ![e] = "AUTHORIZED"]
  /\ authError' = [authError EXCEPT ![e] = "none"]
  /\ retrySafe' = [retrySafe EXCEPT ![e] = FALSE]
  /\ jobStatus' = WithStatus(JobsOf(e), "AUTHORIZED")
  /\ estStatus' = [estStatus EXCEPT ![e] = "AUTHORIZED"]
  /\ handler' = [handler EXCEPT ![e] = "retry"]
  /\ UNCHANGED <<up, mode, day, offer, price, limits, fresh, authMode, authDay, authAmount, grant, ledger,
                 linked, remoteId, orders, expiring, task, todo, reply>>

CancellableInFlight(j) ==   \* mutant: a job being submitted may be cancelled
  linked[j] /\ ~remoteId[j] /\ jobStatus[j] \in {"AUTHORIZED", "SUBMITTING", "FAILED"}

Cancellable(j) == linked[j] /\ ~remoteId[j] /\ jobStatus[j] \in {"AUTHORIZED", "FAILED"}

\* cancel_authorization_job looks at this job alone, and releases the
\* reservation of the whole authorization.
Cancel(j) ==
  LET e == EstimateOf[j] IN
  /\ up /\ Cancellable(j)
  /\ jobStatus' = [jobStatus EXCEPT ![j] = "CANCELLED"]
  /\ authState' = [authState EXCEPT ![e] = "CANCELLED"]
  /\ ledger' = [ledger EXCEPT ![e] = "RELEASED"]
  /\ estStatus' = [estStatus EXCEPT ![e] = "CANCELLED"]
  /\ UNCHANGED <<up, mode, day, offer, price, limits, fresh, authError, retrySafe, authMode, authDay,
                 authAmount, grant, linked, remoteId, orders, taskVars>>
-----------------------------------------------------------------------------
(***************************************************************************)
(* Submission (submit_authorization), one task at a time: the semaphore.   *)
(***************************************************************************)
Claim(e) ==
  /\ task[e] = "queued"
  /\ \A f \in Estimates : task[f] \notin Running
  /\ IF authMode[e] = "live" /\ authState[e] = "AUTHORIZED"
       THEN /\ authState' = [authState EXCEPT ![e] = "SUBMITTING"]
            /\ jobStatus' = WithStatus(JobsOf(e), "SUBMITTING")
            /\ task' = [task EXCEPT ![e] = "claimed"]
       ELSE /\ task' = [task EXCEPT ![e] = "none"]
            /\ UNCHANGED <<authState, jobStatus>>
  /\ UNCHANGED <<up, mode, day, estimateVars, authError, retrySafe, authMode, authDay, authAmount, grant,
                 ledger, linked, remoteId, orders, expiring, handler, todo, reply>>

\* It raises outside the try block (load_config, the client constructor) or
\* in the except block's own transaction: the authorization stays SUBMITTING.
SubmissionRaises(e) ==
  /\ task[e] \in {"claimed", "failing"}
  /\ task' = [task EXCEPT ![e] = "none"] /\ todo' = {} /\ reply' = {}
  /\ UNCHANGED <<up, mode, day, storageVars, orders, expiring, handler>>

ReadJobs(e) ==
  /\ task[e] = "claimed"
  /\ task' = [task EXCEPT ![e] = "submitting"]
  /\ todo' = JobsOf(e)
  /\ UNCHANGED <<up, mode, day, storageVars, orders, expiring, handler, reply>>

\* batch.submit_job accepts the order, and the reply brings its id.
RemoteAccepts(e) ==
  /\ task[e] = "submitting"
  /\ \E j \in todo : /\ orders' = [orders EXCEPT ![j] = @ + 1]
                     /\ todo' = todo \ {j} /\ reply' = {j}
  /\ task' = [task EXCEPT ![e] = "recording"]
  /\ UNCHANGED <<up, mode, day, storageVars, expiring, handler>>

RemoteRaisesUnnoticed(e) ==   \* mutant: a reply without id goes unnoticed
  /\ task[e] = "submitting"
  /\ \E j \in todo : todo' = todo \ {j} /\ orders' = [orders EXCEPT ![j] = @ + 1]
  /\ UNCHANGED <<up, mode, day, storageVars, expiring, handler, task, reply>>

\* It raises, or its reply has no id: Databento may hold the order or not.
RemoteRaises(e) ==
  /\ task[e] = "submitting"
  /\ \E j \in todo : orders' \in {orders, [orders EXCEPT ![j] = @ + 1]}
  /\ task' = [task EXCEPT ![e] = "failing"]
  /\ UNCHANGED <<up, mode, day, storageVars, expiring, handler, todo, reply>>

RecordRemoteId(e) ==
  /\ task[e] = "recording"
  /\ remoteId' = [j \in Jobs |-> remoteId[j] \/ j \in reply]
  /\ jobStatus' = WithStatus(reply, "QUEUED")
  /\ task' = [task EXCEPT ![e] = "submitting"] /\ reply' = {}
  /\ UNCHANGED <<up, mode, day, estimateVars, authVars, linked, orders, expiring, handler, todo>>

FinishSubmission(e) ==
  /\ task[e] = "submitting" /\ todo = {}
  /\ authState' = [authState EXCEPT ![e] = "QUEUED"]
  /\ estStatus' = [estStatus EXCEPT ![e] = "QUEUED"]
  /\ task' = [task EXCEPT ![e] = "none"]
  /\ UNCHANGED <<up, mode, day, offer, price, limits, fresh, authError, retrySafe, authMode, authDay, authAmount, grant,
                 ledger, jobVars, orders, expiring, handler, todo, reply>>

\* A locked or full database raises inside the try block.
StorageFails(e) ==
  /\ task[e] \in {"claimed", "recording"} \/ (task[e] = "submitting" /\ todo = {})
  /\ task' = [task EXCEPT ![e] = "failing"]
  /\ UNCHANGED <<up, mode, day, storageVars, orders, expiring, handler, todo, reply>>

MarkSubmissionRetrySafe(e) == Fail(e, "QUEUE_UNAVAILABLE", TRUE)   \* mutant: any failure may be retried

MarkSubmissionFailed(e) == \E code \in {"NETWORK_ERROR", "DATABENTO_REJECTED"} : Fail(e, code, FALSE)

FailSubmissionRetries(e) ==   \* mutant: the except block tries again under the semaphore
  /\ task[e] = "failing"
  /\ task' = [task EXCEPT ![e] = "submitting"] /\ reply' = {}
  /\ UNCHANGED <<up, mode, day, storageVars, orders, expiring, handler, todo>>

\* The except block, whatever raised.
FailSubmission(e) ==
  /\ task[e] = "failing"
  /\ MarkSubmissionFailed(e)
  /\ task' = [task EXCEPT ![e] = "none"] /\ todo' = {} /\ reply' = {}
  /\ UNCHANGED <<up, mode, day, offer, price, limits, fresh, authMode, authDay, authAmount, grant, ledger,
                 linked, remoteId, orders, expiring, handler>>
-----------------------------------------------------------------------------
(***************************************************************************)
(* Legacy rows, start and stop of the process.                             *)
(***************************************************************************)
Recovered(e) == {j \in Unlinked(e) : remoteId[j]}
RowOf(e) == CHOOSE j \in Recovered(e) : TRUE
RecoveredRawState(j) == jobStatus[j]   \* mutant: the legacy status is kept

RecoveredState(j) == IF jobStatus[j] \in {"IMPORTED", "VALIDATED", "COMPLETED"} THEN "COMPLETED" ELSE "QUEUED"

\* estimate_id is UNIQUE in download_authorizations: a second row for one
\* estimate aborts the transaction that repairs all of them.
CanReconcile ==
  \A e \in Estimates : Recovered(e) # {} => authState[e] = "NONE" /\ \A i, j \in Recovered(e) : i = j

Reconcile ==
  LET Old(e) == Recovered(e) # {} IN
  /\ CanReconcile
  /\ authState' = [e \in Estimates |-> IF Old(e) THEN RecoveredState(RowOf(e)) ELSE authState[e]]
  /\ estStatus' = [e \in Estimates |-> IF Old(e) THEN RecoveredState(RowOf(e)) ELSE estStatus[e]]
  /\ authMode' = [e \in Estimates |-> IF Old(e) THEN "recovered" ELSE authMode[e]]
  /\ authDay' = [e \in Estimates |-> IF Old(e) THEN 0 ELSE authDay[e]]
  /\ authAmount' = [e \in Estimates |-> IF Old(e) THEN price[e] ELSE authAmount[e]]
  /\ grant' = [e \in Estimates |-> IF Old(e) THEN {} ELSE grant[e]]
  /\ ledger' = [e \in Estimates |-> IF Old(e) THEN "RESERVED" ELSE ledger[e]]
  /\ linked' = [j \in Jobs |-> linked[j] \/ j \in Recovered(EstimateOf[j])]
  /\ jobStatus' = [j \in Jobs |-> IF j \in Recovered(EstimateOf[j]) THEN RecoveredState(j) ELSE jobStatus[j]]
  /\ UNCHANGED <<offer, price, limits, fresh, authError, retrySafe, remoteId>>

\* Every later request reconciles too, and finds nothing left to repair.
Startup(m) ==
  /\ ~up
  /\ up' = TRUE /\ mode' = m
  /\ Reconcile
  /\ UNCHANGED <<day, orders, taskVars>>

Crash ==
  /\ up
  /\ up' = FALSE /\ mode' = "disabled"
  /\ NoTasks
  /\ UNCHANGED <<day, storageVars, orders>>
-----------------------------------------------------------------------------
SubmitStep(e) ==
  \/ SubmissionRaises(e) \/ ReadJobs(e)
  \/ RemoteAccepts(e) \/ RemoteRaises(e) \/ RecordRemoteId(e)
  \/ FinishSubmission(e) \/ StorageFails(e) \/ FailSubmission(e)

HandlerStep(e) == Schedule(e) \/ ScheduleFails(e)

Next ==
  \/ \E e \in Estimates :
       \/ \E o \in Offers, a \in Amounts, l \in ConfiguredLimits : SaveEstimate(e, o, a, l)
       \/ TimeToLiveElapses(e) \/ SeeExpired(e) \/ Authorize(e) \/ PrepareRetry(e)
       \/ MarkExpired(e)
       \/ HandlerStep(e) \/ Claim(e) \/ SubmitStep(e)
  \/ \E j \in Jobs : Cancel(j)
  \/ NewDay
  \/ \E m \in Modes : Startup(m)
  \/ Crash

Spec == Init /\ [][Next]_vars

\* The event loop runs every task on; the Databento client has a timeout, so
\* its call returns.  A crash ends all tasks, so restarts need no fairness.
Fairness == \A e \in Estimates : WF_vars(Claim(e)) /\ WF_vars(SubmitStep(e))

FairSpec == Spec /\ Fairness
-----------------------------------------------------------------------------
(***************************************************************************)
(* Properties, of a service that gets single-day requests only unless they *)
(* say otherwise.                                                          *)
(***************************************************************************)

\* No sequence of authorizations, retries, cancellations, lost replies and
\* restarts makes the service order the same estimate and schema twice.
AtMostOneOrder == \A j \in Jobs : orders[j] <= 1

\* What the service calls safe to retry has never reached Databento: a
\* submission whose outcome is unknown is never offered for retry.
RetrySafeMeansNoOrder ==
  \A e \in Estimates : retrySafe[e] => \A j \in JobsOf(e) : orders[j] = 0

\* QUEUED is only said of an authorization all of whose jobs exist at
\* Databento and are known locally by their remote id.
QueuedMeansOrdered ==
  \A e \in Estimates : authState[e] = "QUEUED" =>
    \A j \in JobsOf(e) : linked[j] => remoteId[j] /\ orders[j] = 1

\* A re-estimate, a late expiry mark or a failure never makes the estimate
\* tell another story than its authorization (a submission in progress is
\* still shown as AUTHORIZED).
EstimateFollowsAuthorization ==
  \A e \in Estimates : authState[e] # "NONE" =>
    estStatus[e] = IF authState[e] = "SUBMITTING" THEN "AUTHORIZED" ELSE authState[e]

\* What authorize_download has reserved on the days of one window.
Total(S) == SumFunctionOnSet(authAmount, S)
InWindow(e, d, w) == authDay[e] \div Length[w] = d \div Length[w]
SinglesOf(d, w) == {e \in Estimates : grant[e] # {} /\ InWindow(e, d, w)}
Fits(S, w) == S # {} => \E e \in S : \E l \in grant[e] : Total(S) <= l[w]

\* Each estimate carries its own limits.  Still, on whatever days concurrent
\* authorizations, their retries and cancellations happen: what
\* authorize_download has reserved in a day, week or month fits a limit one of
\* its estimates was authorized under (with unchanged limits: the limit), and
\* each amount fits its request limit.  Recovered rows and ranges are reserved
\* without this check and count apart.  It also holds with range requests.
ReservationsWithinOwnLimits ==
  /\ \A d \in 0..day : \A w \in Windows : Fits({e \in SinglesOf(d, w) : ledger[e] = "RESERVED"}, w)
  /\ \A e \in Estimates : \A l \in grant[e] : authAmount[e] <= l["request"]

\* The service keeps its contract: one reservation per estimate, at most one
\* order per job and only under a held reservation, nothing taken back.
Contract == INSTANCE DownloadContract
KeepsContract == Contract!Spec

\* Every task that waits for the submission semaphore gets it and gives it
\* back, whatever fails in the tasks before it.
SemaphoreIsReleased == \A e \in Estimates : task[e] # "none" ~> task[e] = "none"
=============================================================================
