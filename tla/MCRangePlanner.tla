--------------------------- MODULE MCRangePlanner ---------------------------
(***************************************************************************)
(* A range of two days and a single-day job on the second of them: two     *)
(* jobs, so that a range may be retried while its cancelled run is still   *)
(* on its way, or meet the other job on the day they share.                *)
(***************************************************************************)
EXTENDS RangePlanner

MCRequests == {"range", "single"}
MCDaysOf == [range |-> <<1, 2>>, single |-> <<2>>]
MCQuotations == {[price |-> 1, warned |-> FALSE], [price |-> 2, warned |-> TRUE]}
MCBudgetOf == [range |-> 2]
=============================================================================
