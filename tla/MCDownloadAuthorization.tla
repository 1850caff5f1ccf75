---------------------- MODULE MCDownloadAuthorization ----------------------
(* Two estimates: e1 buys two schemas (Orderflow Economy), e2 buys one. *)
EXTENDS DownloadAuthorization

CONSTANTS e1, e2, trades, bars, mbo

MCEstimates == {e1, e2}
MCJobs == {trades, bars, mbo}
MCEstimateOf == [j \in MCJobs |-> IF j = mbo THEN e2 ELSE e1]
MCLegacyJobs == {mbo}
MCAmounts == {2}
MCConfiguredLimits == {[request |-> 2, daily |-> 2, weekly |-> 3, monthly |-> 3]}
MCOffers == {"allowed", "reuse"}
MCModes == ExecutionModes
=============================================================================
