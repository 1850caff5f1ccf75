-------------------------- MODULE MCBatchDownload --------------------------
(* One estimate that bought a book and another schema.                      *)
EXTENDS BatchDownload, TLC

CONSTANTS e1, trades, mbo, d1, d2

MCEstimates == {e1}
MCJobs == {trades, mbo}
MCEstimateOf == [j \in MCJobs |-> e1]
MCBookJobs == {mbo}
MCNoBooks == {}
MCDownloaders == {d1, d2}
MCSymmetry == Permutations(MCDownloaders)
MCLegacyJobs == {}
MCAmounts == {2}
MCConfiguredLimits == {[request |-> 2, daily |-> 2, weekly |-> 2, monthly |-> 2]}
MCOffers == {"allowed"}
MCModes == {"live"}
=============================================================================
