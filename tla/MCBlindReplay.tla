---------------------------- MODULE MCBlindReplay ----------------------------
(***************************************************************************)
(* One user, two sessions and two plans: a locked one for both sessions,   *)
(* and a practice one into which the first session was cloned.  The first  *)
(* session is complete and has a decision after its start, the second one  *)
(* is partial and has one at its start.                                    *)
(***************************************************************************)
EXTENDS BlindReplay

CONSTANTS s1, s2, locked, practice

MCSessions == {s1, s2}
MCPlans == {locked, practice}
MCPlanMode == [p \in MCPlans |-> IF p = locked THEN "locked" ELSE "practice"]
MCPlanSessions == [p \in MCPlans |-> IF p = locked THEN {s1, s2} ELSE {s1}]
MCGroupCount == [s \in MCSessions |-> IF s = s1 THEN 2 ELSE 1]
MCPrime == [s \in MCSessions |-> 1]
MCComplete == {s1}
MCReadyGroups == [s \in MCSessions |-> IF s = s1 THEN {2} ELSE {1}]
MCTradeGroups == [s \in MCSessions |-> IF s = s1 THEN {2} ELSE {}]
MCEndTime == [s \in MCSessions |-> IF s = s1 THEN <<1, 1>> ELSE <<1>>]
=============================================================================
