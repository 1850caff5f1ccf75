--------------------------- MODULE MCResearchJobs ---------------------------
(***************************************************************************)
(* Two sessions that count, one of them locked, and one that does not;     *)
(* two candidates and a baseline.  Promotion asks for both sessions.       *)
(***************************************************************************)
EXTENDS ResearchJobs

MCBaselineOf == [s \in Sessions |-> "baseline"]
MCWanted == <<{<<"tuesday", "search">>},
              {<<"monday", "search">>, <<"partial", "search">>, <<"tuesday", "baseline">>}>>
MCRankings == {<<"u">>, <<"v", "u">>}
=============================================================================
