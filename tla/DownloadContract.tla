-------------------------- MODULE DownloadContract --------------------------
(***************************************************************************)
(* What the paid-download machinery promises, without saying how: budget   *)
(* is reserved once per estimate, a job is ordered at Databento at most    *)
(* once and only under a reservation, and what has been ordered or         *)
(* released is never taken back.                                           *)
(***************************************************************************)
EXTENDS Naturals

CONSTANTS Estimates, Jobs, EstimateOf

VARIABLES
  ledger,   \* per estimate: no reservation yet, RESERVED or RELEASED
  orders    \* per job: the batch jobs Databento has accepted

Init ==
  /\ ledger = [e \in Estimates |-> "none"]
  /\ orders \in [Jobs -> {0, 1}]     \* 1: ordered by the old service

\* Start-up reserves for all legacy orders at once, a request for one estimate.
Reserve(S) ==
  /\ \A e \in S : ledger[e] = "none"
  /\ ledger' = [e \in Estimates |-> IF e \in S THEN "RESERVED" ELSE ledger[e]]
  /\ UNCHANGED orders

Release(e) ==
  /\ ledger[e] = "RESERVED"
  /\ ledger' = [ledger EXCEPT ![e] = "RELEASED"]
  /\ UNCHANGED orders

Order(j) ==
  /\ ledger[EstimateOf[j]] = "RESERVED" /\ orders[j] = 0
  /\ orders' = [orders EXCEPT ![j] = 1]
  /\ UNCHANGED ledger

Next ==
  \/ \E S \in SUBSET Estimates : Reserve(S)
  \/ \E e \in Estimates : Release(e)
  \/ \E j \in Jobs : Order(j)

Spec == Init /\ [][Next]_<<ledger, orders>>
=============================================================================
