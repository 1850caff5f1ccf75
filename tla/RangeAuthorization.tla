------------------------ MODULE RangeAuthorization -------------------------
(***************************************************************************)
(* Range plans on the rows of DownloadAuthorization (range_planner.py, the *)
(* range endpoints of service.py).  A range run rewrites the estimate of   *)
(* each of its days after it was saved, and one confirmation authorizes    *)
(* all days of the range in the same ledger.  The plan itself - which days *)
(* it lists, its review, the budget its confirmation is held to - is       *)
(* RangePlanner; here it lists any estimates and has any budget.           *)
(***************************************************************************)
EXTENDS DownloadAuthorization

CONSTANTS
  RangeBudgets,   \* what budgetUsd of a range may be: natural numbers
  MaxOrders       \* bound: orders of one job the model looks at

VARIABLES
  childRow,       \* the row the range run has read and is about to rewrite, if any
  scheduling      \* authorizations a range request is about to schedule

rangeVars == <<childRow, scheduling>>

RangeTypeOK ==
  /\ TypeOK
  /\ childRow \subseteq
       [estimate : Estimates, offer : Offers \cup {"blocked"}, price : Amounts \cup {0},
        status : LifecycleStatuses \cup AuthStates \cup {"NONE", "LOCAL_REUSE", "AWAITING_CONFIRMATION", "BLOCKED"}]
  /\ scheduling \subseteq {e \in Estimates : authState[e] # "NONE"}

RangeInit ==
  /\ Init
  /\ childRow = {} /\ scheduling = {}
-----------------------------------------------------------------------------
(***************************************************************************)
(* _update_child_estimate: the row is read in one statement and written in *)
(* another; whoever commits in between is overwritten.  A range run takes  *)
(* one day after the other, and one run at a time is a bound of the model. *)
(***************************************************************************)
ReadChild(e) ==
  /\ up /\ estStatus[e] # "NONE" /\ childRow = {}
  /\ childRow' = {[estimate |-> e, status |-> estStatus[e], offer |-> offer[e], price |-> price[e]]}
  /\ UNCHANGED <<vars, scheduling>>

\* FAILED, CANCELLED, EXPIRED and SUBMITTED are not preserved here.
PreservedStatuses == LifecycleStatuses \ {"SUBMITTED"}

\* Budget warnings are dropped; one of another kind may have blocked the row.
OffersWithin(r, budget) ==
  IF r.offer = "reuse" THEN {"reuse"}
  ELSE {"blocked"} \cup (IF r.price <= budget THEN {"allowed"} \cap Offers ELSE {})

\* The request limit is max(1.00, maximum), which the maximum itself passes.
RangeLimits(r, budget) == [k \in LimitKinds |-> IF k = "request" THEN r.price ELSE budget]

RewriteChild(r, budget) ==
  /\ childRow' = childRow \ {r}
  /\ \E o \in OffersWithin(r, budget) :
       /\ offer' = [offer EXCEPT ![r.estimate] = o]
       /\ estStatus' = [estStatus EXCEPT ![r.estimate] = IF r.status \in PreservedStatuses THEN r.status
                                                         ELSE NewEstimateStatus[o]]
  /\ price' = [price EXCEPT ![r.estimate] = r.price]
  /\ limits' = [limits EXCEPT ![r.estimate] = RangeLimits(r, budget)]
  /\ fresh' = [fresh EXCEPT ![r.estimate] = TRUE]
  /\ UNCHANGED <<up, mode, day, authVars, jobVars, orders, taskVars, scheduling>>
-----------------------------------------------------------------------------
(***************************************************************************)
(* authorize_range_plan: one transaction for all days of the plan.  S are  *)
(* its estimates without authorization, X those that have one; estimates   *)
(* that are reused locally count in neither.                               *)
(***************************************************************************)
\* Not asked: whether an estimate has expired, and its own limits.  A job row
\* the old service left is met by UNIQUE(estimate_id, schema_name).
RangeAuthorizable(e) ==
  estStatus[e] # "NONE" /\ authState[e] = "NONE" /\ offer[e] = "allowed" /\ Unlinked(e) = {}

\* All reservations ever made and the plan's total, which was summed up when
\* the plan was reviewed and may be any part of the budget.
FitsRangeBudget == \E budget \in RangeBudgets : ReservedSince(0) <= budget

RangeReserves(S) ==
  /\ authState' = [e \in Estimates |-> IF e \in S THEN "AUTHORIZED" ELSE authState[e]]
  /\ authMode' = [e \in Estimates |-> IF e \in S THEN mode ELSE authMode[e]]
  /\ authDay' = [e \in Estimates |-> IF e \in S THEN day ELSE authDay[e]]
  /\ authAmount' = [e \in Estimates |-> IF e \in S THEN price[e] ELSE authAmount[e]]
  /\ grant' = [e \in Estimates |-> IF e \in S THEN {} ELSE grant[e]]
  /\ ledger' = [e \in Estimates |-> IF e \in S THEN "RESERVED" ELSE ledger[e]]

\* A confirmation again, with the key it had or with a new one, reserves only
\* what is left, and schedules what exists as well.  A plan lists finitely
\* many days.
AuthorizeRange(S, X) ==
  /\ up /\ mode # "disabled" /\ IsFiniteSet(S)
  /\ \A e \in S : RangeAuthorizable(e)
  /\ \A e \in X : authState[e] # "NONE"
  /\ S # {} => FitsRangeBudget
  /\ RangeReserves(S)
  /\ jobStatus' = [j \in Jobs |-> IF EstimateOf[j] \in S THEN "AUTHORIZED" ELSE jobStatus[j]]
  /\ linked' = [j \in Jobs |-> linked[j] \/ EstimateOf[j] \in S]
  /\ estStatus' = [e \in Estimates |-> IF e \in S THEN "AUTHORIZED" ELSE estStatus[e]]
  /\ scheduling' = IF mode = "live" THEN scheduling \cup S \cup X ELSE scheduling
  /\ UNCHANGED <<up, mode, day, offer, price, limits, fresh, authError, retrySafe, remoteId, orders,
                 taskVars, childRow>>

\* _schedule_authorization for each of them, whatever its state.
RangeSchedule(e) ==
  /\ e \in scheduling
  /\ scheduling' = scheduling \ {e}
  /\ task' = [task EXCEPT ![e] = IF @ = "none" THEN "queued" ELSE @]
  /\ UNCHANGED <<up, mode, day, storageVars, orders, expiring, handler, todo, reply, childRow>>

\* The request fails after its commit, when it reads the plan for its reply:
\* nothing is scheduled, and nothing is marked failed.
RangeRequestFails ==
  /\ \E S \in SUBSET scheduling : S # {} /\ scheduling' = scheduling \ S
  /\ UNCHANGED <<vars, childRow>>
-----------------------------------------------------------------------------
RangeStep ==
  \/ \E e \in Estimates : ReadChild(e) \/ RangeSchedule(e)
  \/ \E r \in childRow, budget \in RangeBudgets : RewriteChild(r, budget)
  \/ \E S, X \in SUBSET Estimates : AuthorizeRange(S, X)
  \/ RangeRequestFails

\* A crash ends the range runs and requests too.
SingleStep ==
  /\ Next
  /\ \A j \in Jobs : orders'[j] <= MaxOrders
  /\ childRow' = IF up' THEN childRow ELSE {}
  /\ scheduling' = IF up' THEN scheduling ELSE {}

RangeNext == SingleStep \/ RangeStep

RangeSpec == RangeInit /\ [][RangeNext]_<<vars, rangeVars>>
-----------------------------------------------------------------------------
(***************************************************************************)
(* Properties.  ReservationsWithinOwnLimits of DownloadAuthorization also  *)
(* holds of this specification.                                            *)
(***************************************************************************)

\* The documented condition of every paid request: what is reserved on the
\* days of a window (recovered rows apart) stays within configured limits.
ReservationsWithinLimits ==
  \A d \in 0..day : \A w \in Windows : \E l \in ConfiguredLimits :
    Total({e \in Estimates : ledger[e] = "RESERVED" /\ authMode[e] # "recovered" /\ InWindow(e, d, w)}) <= l[w]

=============================================================================
