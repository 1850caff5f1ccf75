---------------------------- MODULE RangePlanner ----------------------------
(***************************************************************************)
(* Range plans: range_planner.py, the range_plans rows of storage.py and   *)
(* the estimate jobs that compute them.  A plan quotes one full_l3         *)
(* estimate per session day; the estimate of a day is one row (its         *)
(* fingerprint), shared with single-day estimates and with other ranges.   *)
(* One confirmation reserves all of a plan's days in one transaction, but  *)
(* on a plan it has read before that transaction begins.                   *)
(***************************************************************************)
EXTENDS EstimateJobs, Sequences, SequencesExt

CONSTANTS
  Days,           \* session days
  DaysOf,         \* the session days of a request, in order
  Ranges,         \* the requests that are ranges; the others estimate one day
  BudgetOf,       \* budgetUsd of a range
  Quotations,     \* maximumAuthorizedUsd and warnings a day may be given
  Limit,          \* the configured cost limit of the service
  LocalDays,      \* days that may become available on disk
  Keys            \* idempotency keys

ASSUME RangeAssumption ==
  /\ Ranges \subseteq Requests /\ Limit \in Nat /\ IsFiniteSet(Days)
  /\ \A q \in Quotations : q.price \in Nat \ {0} /\ q.warned \in BOOLEAN
  /\ \A r \in Requests : /\ DaysOf[r] \in Seq(Days) /\ DaysOf[r] # <<>>
                         /\ IsInjective(DaysOf[r])
  /\ BudgetOf \in [Ranges -> Nat]

VARIABLES
  local,          \* days whose session is on disk
  est,            \* the data_estimates row of a day
  plan,           \* the range_plans row of a range
  auth,           \* amount RESERVED for a day, 0 when released, None without authorization
  authKey,        \* idempotency_key of the day's authorization
  confirm,        \* confirmations that have read their plan
  disturbed       \* ranges with a day written by someone else than their last run

rangeVars == <<local, est, plan, auth, authKey, confirm, disturbed>>
vars == <<jobVars, rangeVars>>

None == -1
NoKey == <<>>
NoEstimate == [price |-> 0, local |-> FALSE, warned |-> TRUE, limit |-> 0]
NoPlan == [status |-> "NONE", allowed |-> FALSE, fresh |-> FALSE, quotes |-> {}, total |-> 0]

\* Warnings other than those about a budget block a day, local or not.
IsAllowed(x) == ~x.warned /\ (x.local \/ x.price <= x.limit)

Held == [d \in Days |-> IF auth[d] = None THEN 0 ELSE auth[d]]
Reserved == SumFunctionOnSet(Held, Days)
QuotedTotal(quotes) == SumFunctionOnSet([q \in quotes |-> q.price], quotes)

\* What estimate_mode stores: the configured limits, no price on a local day.
Estimated(d, q) ==
  [price |-> IF d \in local THEN 0 ELSE q.price, local |-> d \in local, warned |-> q.warned, limit |-> Limit]

\* A day of no range has been estimated before.
RangeInit ==
  /\ JobsInit
  /\ local = {} /\ est \in [Days -> {NoEstimate} \cup {Estimated(d, q) : d \in Days, q \in Quotations}]
  /\ \A d \in Days : est[d] = NoEstimate <=> \E r \in Ranges : d \in ToSet(DaysOf[r])
  /\ plan = [r \in Ranges |-> NoPlan]
  /\ auth = [d \in Days |-> None] /\ authKey = [d \in Days |-> NoKey]
  /\ confirm = {} /\ disturbed = {}
-----------------------------------------------------------------------------
(* An estimate run over a range (estimate_range_plan).                     *)

RequestOf(a) == jobs[a.job].request
Ranging(a) == RequestOf(a) \in Ranges /\ a.pc \notin {"start", "late", "mark", "work"}
OthersOn(r, a) == \E b \in runs : b # a /\ RequestOf(b) = r /\ Ranging(b)

\* Ranges whose quotes the write of day d by the writer x may disturb.
Touched(d, x) == {r \in Ranges : d \in ToSet(DaysOf[r]) /\ ~\E a \in x : RequestOf(a) = r}

\* save_range_plan replaces the row of the fingerprint, without a summary.
SavePlan(r) == plan' = [plan EXCEPT ![r] = [NoPlan EXCEPT !.status = "ESTIMATING", !.fresh = TRUE]]

\* update_range_plan: another status and summary; what it writes of the
\* expiry is what the run of the plan began with.
UpdatePlan(r, row) == plan' = [plan EXCEPT ![r] = [row EXCEPT !.fresh = plan[r].fresh]]

BeginSilently(a) ==   \* mutant: the earlier review stays while its days are computed anew
  LET r == RequestOf(a) IN
  /\ a.pc = "work" /\ r \in Ranges
  /\ disturbed' = IF OthersOn(r, a) THEN disturbed \cup {r} ELSE disturbed \ {r}
  /\ Goes(a, [a EXCEPT !.pc = "report", !.day = 1])
  /\ UNCHANGED <<up, calls, jobs, registry, cancels, expiries, local, est, plan, auth, authKey, confirm>>

Begin(a) ==
  LET r == RequestOf(a) IN
  /\ a.pc = "work" /\ r \in Ranges
  /\ SavePlan(r)
  /\ disturbed' = IF OthersOn(r, a) THEN disturbed \cup {r} ELSE disturbed \ {r}
  /\ Goes(a, [a EXCEPT !.pc = "report", !.day = 1])
  /\ UNCHANGED <<up, calls, jobs, registry, cancels, expiries, local, est, auth, authKey, confirm>>

\* Outside the try of a day: no configuration, no client.
BeginFails(a) ==
  /\ a.pc \in {"work", "report"} /\ a.day <= 1 /\ RequestOf(a) \in Ranges
  /\ At(a, "failing")
  /\ UNCHANGED <<up, calls, jobs, registry, cancels, expiries, rangeVars>>

\* report() follows a day and precedes the next: two of them with nothing
\* between them are one step here.
AfterReport(a) ==
  /\ a.pc = "reported"
  /\ At(a, IF a.day > Len(DaysOf[RequestOf(a)]) THEN "summary" ELSE "day")
  /\ UNCHANGED <<up, calls, jobs, registry, cancels, expiries, rangeVars>>

SaveDay(d, x) ==
  /\ \E q \in Quotations : est' = [est EXCEPT ![d] = Estimated(d, q)]
  /\ disturbed' = disturbed \cup Touched(d, x)

DayOf(a) == DaysOf[RequestOf(a)][a.day]

EstimateDay(a) ==
  /\ a.pc = "day"
  /\ SaveDay(DayOf(a), {a}) /\ At(a, "child")
  /\ UNCHANGED <<up, calls, jobs, registry, cancels, expiries, local, plan, auth, authKey, confirm>>

\* An error of a day is collected: the day has no quote.
DayFails(a) ==
  /\ a.pc \in {"day", "child"}
  /\ Goes(a, [a EXCEPT !.pc = "report", !.day = @ + 1, !.read = {}])
  /\ UNCHANGED <<up, calls, jobs, registry, cancels, expiries, rangeVars>>

\* _update_child_estimate reads the row in autocommit ...
ReadChild(a) ==
  /\ a.pc = "child"
  /\ Goes(a, [a EXCEPT !.pc = "write", !.read = {est[DayOf(a)]}])
  /\ UNCHANGED <<up, calls, jobs, registry, cancels, expiries, rangeVars>>

\* ... and writes all of its metadata back with the limits of the range.
UpdateChild(a) ==
  LET r == RequestOf(a)
      d == DayOf(a)
      row == [(CHOOSE x \in a.read : TRUE) EXCEPT !.limit = BudgetOf[r]]
  IN
  /\ a.pc = "write"
  /\ est' = [est EXCEPT ![d] = row]
  /\ disturbed' = disturbed \cup Touched(d, {a})
  /\ Goes(a, [a EXCEPT !.pc = "report", !.day = @ + 1, !.read = {},
                       !.quotes = @ \cup {[day |-> d, price |-> row.price, local |-> row.local,
                                           allowed |-> IsAllowed(row)]}])
  /\ UNCHANGED <<up, calls, jobs, registry, cancels, expiries, local, plan, auth, authKey, confirm>>

Summary(r, quotes) ==
  LET paid == {q \in quotes : ~q.local}
      total == QuotedTotal(paid)
      complete == Cardinality(quotes) = Len(DaysOf[r])
      allowed == /\ complete /\ \A q \in paid : q.allowed
                 /\ total > 0 /\ BudgetOf[r] - Reserved - total >= 0
  IN [status |-> IF allowed THEN "READY_FOR_REVIEW"
                 ELSE IF Cardinality(quotes \ paid) = Len(DaysOf[r]) THEN "LOCAL_ONLY" ELSE "BLOCKED",
      allowed |-> allowed, fresh |-> TRUE, quotes |-> quotes, total |-> total]

FinishRange(a) ==
  LET r == RequestOf(a) IN
  /\ a.pc = "summary"
  /\ UpdatePlan(r, Summary(r, a.quotes))
  /\ At(a, "done")
  /\ UNCHANGED <<up, calls, jobs, registry, cancels, expiries, local, est, auth, authKey, confirm, disturbed>>

RangeRunStep(a) ==
  \/ Begin(a) \/ BeginFails(a) \/ AfterReport(a) \/ EstimateDay(a) \/ DayFails(a)
  \/ ReadChild(a) \/ UpdateChild(a) \/ FinishRange(a)

\* The run of a job of another kind saves the estimate of its day, or raises.
SingleRunSaves(a) ==
  /\ a.pc = "work" /\ RequestOf(a) \notin Ranges
  /\ SaveDay(DaysOf[RequestOf(a)][1], {}) /\ At(a, "done")
  /\ UNCHANGED <<up, calls, jobs, registry, cancels, expiries, local, plan, auth, authKey, confirm>>

SingleRunFails(a) ==
  /\ a.pc = "work" /\ RequestOf(a) \notin Ranges
  /\ At(a, "failing")
  /\ UNCHANGED <<up, calls, jobs, registry, cancels, expiries, rangeVars>>
-----------------------------------------------------------------------------
(* Authorization.                                                          *)

PlanTtlElapses(r) ==
  /\ Called /\ plan[r].fresh
  /\ plan' = [plan EXCEPT ![r].fresh = FALSE]
  /\ UNCHANGED <<up, jobs, registry, runs, cancels, expiries, local, est, auth, authKey, confirm, disturbed>>

\* authorize_range_plan reads the plan; the phrase and the amount it was
\* given are those of the summary.
ReadPlan(r, k) ==
  /\ Called /\ up /\ confirm = {}
  /\ plan[r].allowed /\ plan[r].fresh
  /\ confirm' = {[range |-> r, key |-> k, plan |-> plan[r]]}
  /\ UNCHANGED <<up, jobs, registry, runs, cancels, expiries, local, est, plan, auth, authKey, disturbed>>

Refuse(c) ==
  /\ confirm' = confirm \ {c}
  /\ UNCHANGED <<jobVars, local, est, plan, auth, authKey, disturbed>>

FitsAlone(c) == c.plan.total <= BudgetOf[c.range]   \* mutant: forgets what is reserved already

FitsBudget(c) == Reserved + c.plan.total <= BudgetOf[c.range]

\* Its transaction: a key used before replays, otherwise every listed day
\* that is not local gets an authorization and a reservation at the amount
\* its estimate has now, or nothing is written.
Confirm(c) ==
  LET listed == {q.day : q \in c.plan.quotes}
      replay == \E d \in Days : authKey[d] = <<c.range, c.key>>
      paid == {d \in listed : ~est[d].local}
      new == {d \in paid : auth[d] = None}
  IN
  /\ up /\ confirm' = confirm \ {c}
  /\ IF replay \/ (FitsBudget(c) /\ \A d \in paid : IsAllowed(est[d]))
     THEN /\ UpdatePlan(c.range, [c.plan EXCEPT !.status = "AUTHORIZED"])
          /\ auth' = [d \in Days |-> IF ~replay /\ d \in new THEN est[d].price ELSE auth[d]]
          /\ authKey' = [d \in Days |-> IF ~replay /\ d \in new THEN <<c.range, c.key>> ELSE authKey[d]]
     ELSE UNCHANGED <<plan, auth, authKey>>
  /\ UNCHANGED <<jobVars, local, est, disturbed>>

\* authorize_download of one day, against the limits in its estimate.
AuthorizeDay(d) ==
  /\ Called /\ up /\ auth[d] = None /\ ~est[d].local /\ IsAllowed(est[d])
  /\ Reserved + est[d].price <= est[d].limit
  /\ auth' = [auth EXCEPT ![d] = est[d].price]
  /\ UNCHANGED <<up, jobs, registry, runs, cancels, expiries, local, est, plan, authKey, confirm, disturbed>>

\* cancel_authorization_job: the authorization stays, its amount is released.
CancelDay(d) ==
  /\ Called /\ up /\ auth[d] > 0
  /\ auth' = [auth EXCEPT ![d] = 0]
  /\ UNCHANGED <<up, jobs, registry, runs, cancels, expiries, local, est, plan, authKey, confirm, disturbed>>

\* POST /data-planner/estimate, outside of any job.
EstimateAlone(d) ==
  /\ Called /\ up /\ SaveDay(d, {})
  /\ UNCHANGED <<up, jobs, registry, runs, cancels, expiries, local, plan, auth, authKey, confirm>>

Import(d) ==
  /\ Called /\ d \in LocalDays \ local
  /\ local' = local \cup {d}
  /\ UNCHANGED <<up, jobs, registry, runs, cancels, expiries, est, plan, auth, authKey, confirm, disturbed>>

RangeNext ==
  \/ JobStep /\ confirm' = (IF up' THEN confirm ELSE {})
             /\ UNCHANGED <<local, est, plan, auth, authKey, disturbed>>
  \/ \E a \in runs : RangeRunStep(a) \/ SingleRunSaves(a) \/ SingleRunFails(a)
  \/ \E r \in Ranges : PlanTtlElapses(r) \/ \E k \in Keys : ReadPlan(r, k)
  \/ \E c \in confirm : Refuse(c) \/ Confirm(c)
  \/ \E d \in Days : AuthorizeDay(d) \/ CancelDay(d) \/ EstimateAlone(d) \/ Import(d)

RunStep(j) == \E a \in runs : a.job = j /\
  \/ JobRunStep(a) /\ UNCHANGED rangeVars
  \/ RangeRunStep(a) \/ SingleRunSaves(a) \/ SingleRunFails(a)

\* A thread of the pool goes on, and a service that is down is started.
RangeSpec == RangeInit /\ [][RangeNext]_vars
             /\ \A j \in JobIds : WF_vars(RunStep(j))
-----------------------------------------------------------------------------
(* A review that waits for its confirmation quotes the amounts that would  *)
(* be reserved: computing a range anew withdraws its earlier review before *)
(* the first of its estimates changes.  Single-day estimates, other ranges *)
(* and a second run of the same range do disturb the quotes, and a day     *)
(* that has become local since reserves nothing (the ESTIMATING row of     *)
(* estimate_range_plan).                                                   *)
QuotesAreCurrent ==
  \A r \in Ranges : plan[r].status = "READY_FOR_REVIEW" /\ r \notin disturbed =>
    \A q \in plan[r].quotes : auth[q.day] # None \/ est[q.day].local \/ est[q.day].price = q.price

(* One confirmation, on estimates that are as its review quoted them,      *)
(* never takes the reservations of the ledger past the budget of the       *)
(* range, whatever was reserved between the review and the confirmation    *)
(* (the check of authorize_range_plan inside its transaction).             *)
RangeWithinBudget ==
  [][\A c \in confirm :
       (c \notin confirm' /\ auth' # auth /\ \A q \in c.plan.quotes : est[q.day].price = q.price)
         => Reserved' <= BudgetOf[c.range]]_vars
=============================================================================
