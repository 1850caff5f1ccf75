------------------------ MODULE MCRangeAuthorization -----------------------
(* Two days of a range for the budgets; one of them where it is submitted. *)
EXTENDS RangeAuthorization

CONSTANTS e1, e2, mbo1, mbo2

MCEstimates == {e1, e2}
MCJobs == {mbo1, mbo2}
MCEstimateOf == [j \in MCJobs |-> IF j = mbo1 THEN e1 ELSE e2]
MCOneEstimate == {e1}
MCOneJob == {mbo1}
MCOneEstimateOf == [j \in MCOneJob |-> e1]
MCLegacyJobs == {}
MCAmounts == {2}
MCConfiguredLimits == {[request |-> 2, daily |-> 2, weekly |-> 3, monthly |-> 3]}
MCRangeBudgets == {2, 4}
MCOneBudget == {2}
MCOffers == {"allowed"}
MCDryRun == {"dry_run"}
MCLive == {"live"}
=============================================================================
