---------------------------- MODULE ReplayEngine ----------------------------
(***************************************************************************)
(* The replay engine of the market service (replay.py): one loaded         *)
(* session, the event group it stands at, and the state of blind replay.   *)
(* Every method runs under the engine's lock and is one action here, but   *)
(* load, which reads the file outside the lock and is two.                 *)
(*                                                                         *)
(* A session is a number of event groups.  Of the market data matters at   *)
(* which groups the decision is trade_ready, which hold a trade and when   *)
(* they end; settings and strategy are taken as constant for a session.    *)
(* That settings or events make a method raise is modelled for load, where *)
(* it blocks the engine; a reset or a seek would stop at an earlier group. *)
(* The module gives the engine's actions; who calls them is BlindReplay.   *)
(***************************************************************************)
EXTENDS Integers, FiniteSets, FiniteSetsExt

CONSTANTS
  Sessions,      \* registered sessions
  Plans,         \* backtest plans
  Runs,          \* ids of blind replay runs
  None,
  GroupCount,    \* per session: how many event groups it has
  Prime,         \* per session: the group a load stops at
  Complete,      \* sessions with a complete book
  ReadyGroups,   \* per session: the groups whose decision is trade_ready
  TradeGroups,   \* per session: the groups with a trade
  EndTime,       \* per session and group: the time of its last event
  FrameSizes,    \* the values of GROUPS_PER_FRAME
  FirstFrame     \* the one of speed "1"

Modes == {"practice", "pilot", "locked"}
Positions(s) == 1..GroupCount[s]

ASSUME EngineAssumption ==
  /\ None \notin Sessions \cup Plans \cup Runs
  /\ GroupCount \in [Sessions -> Nat \ {0}]
  /\ Complete \subseteq Sessions
  /\ \A s \in Sessions :
       /\ Prime[s] \in Positions(s)
       /\ ReadyGroups[s] \subseteq Positions(s) /\ TradeGroups[s] \subseteq Positions(s)
       /\ EndTime[s] \in [Positions(s) -> Nat]
       /\ \A g, h \in Positions(s) : g < h => EndTime[s][g] <= EndTime[s][h]
  /\ FrameSizes \subseteq Nat \ {0} /\ FirstFrame \in FrameSizes

VARIABLES
  session,         \* the loaded session
  groupCursor,     \* event groups applied so far
  playing,
  groupsPerFrame,  \* GROUPS_PER_FRAME of the speed
  loading,         \* loading_session_id
  blindMode, blindPlan, blindRun,
  tradePlans,      \* blind_trade_plans: groups for which a trade plan was recorded
  pendingTradePlan

positionVars == <<session, groupCursor>>
blindVars == <<blindMode, blindPlan, blindRun>>
planVars == <<tradePlans, pendingTradePlan>>
engineVars == <<positionVars, playing, groupsPerFrame, loading, blindVars, planVars>>

Last == IF session = None THEN 0 ELSE GroupCount[session]
Trading == IF session = None THEN {} ELSE TradeGroups[session]

EngineTypeOK ==
  /\ session \in Sessions \cup {None}
  /\ groupCursor \in 0..Last
  /\ playing \in BOOLEAN /\ groupsPerFrame \in FrameSizes
  /\ loading \in Sessions \cup {None}
  /\ blindMode \in Modes /\ blindPlan \in Plans \cup {None} /\ blindRun \in Runs \cup {None}
  /\ tradePlans \subseteq Nat /\ pendingTradePlan \in BOOLEAN

EngineInit ==
  /\ session = None /\ groupCursor = 0 /\ playing = FALSE
  /\ groupsPerFrame = FirstFrame /\ loading = None
  /\ blindMode = "practice" /\ blindPlan = None /\ blindRun = None
  /\ tradePlans = {} /\ pendingTradePlan = FALSE

\* The process ends: all of it is in memory.
EngineStops ==
  /\ session' = None /\ groupCursor' = 0 /\ playing' = FALSE
  /\ groupsPerFrame' = FirstFrame /\ loading' = None
  /\ blindMode' = "practice" /\ blindPlan' = None /\ blindRun' = None
  /\ tradePlans' = {} /\ pendingTradePlan' = FALSE
-----------------------------------------------------------------------------
AdvanceUnbounded(group, target) == groupCursor' = Max({group, target})

\* _advance_to_group, from group 0 when the state was reset before.
AdvanceFrom(group, target) ==
  groupCursor' = Max({group, Min({target, Last})})

\* The lower end of seek and of the jump to a candidate.
FirstPosition == IF session \in Complete THEN Prime[session] ELSE 1

\* A blind run in which the future is hidden.
HidesFuture == blindRun # None /\ blindMode \in {"pilot", "locked"}
EngineLocked == blindRun # None /\ blindMode = "locked"

\* _guard_continuation raises: a decision is due at the current group.
MustPlan ==
  /\ EngineLocked
  /\ session # None /\ groupCursor \in ReadyGroups[session]
  /\ groupCursor \notin tradePlans

\* What its exception leaves behind.
Halt ==
  /\ playing' = FALSE /\ pendingTradePlan' = TRUE
  /\ UNCHANGED <<positionVars, groupsPerFrame, loading, blindVars, tradePlans>>
-----------------------------------------------------------------------------
MayLoad(s) == loading \in {None, s}

\* load, first part: the old session stays readable.
BeginLoad(s) ==
  /\ MayLoad(s)
  /\ loading' = s
  /\ playing' = (playing /\ loading = s)
  /\ UNCHANGED <<positionVars, groupsPerFrame, blindVars, planVars>>

FinishLoadKeepingPlans(s) ==
  /\ session' = s /\ groupCursor' = Prime[s] /\ loading' = None
  /\ UNCHANGED <<playing, groupsPerFrame, blindVars, planVars>>

\* load, second part: the swap.
FinishLoad(s) ==
  /\ session' = s /\ groupCursor' = Prime[s] /\ loading' = None
  /\ tradePlans' = {} /\ pendingTradePlan' = FALSE
  /\ UNCHANGED <<playing, groupsPerFrame, blindVars>>

\* The swap is not covered by load's try block: what raises in it, the
\* settings _reset_state reads or an event of the groups up to Prime, leaves
\* the new session half loaded and loading_session_id as it is.
SwapFails(s) ==
  /\ session' = s /\ groupCursor' \in 0..Prime[s]
  /\ tradePlans' = {} /\ pendingTradePlan' = FALSE
  /\ UNCHANGED <<playing, groupsPerFrame, loading, blindVars>>

FailLoadOnly == UNCHANGED engineVars

\* The file cannot be read.
FailLoad ==
  /\ loading' = None
  /\ UNCHANGED <<positionVars, playing, groupsPerFrame, blindVars, planVars>>

ConfigureBlind(mode, plan, run) ==
  /\ blindMode' = mode /\ blindPlan' = plan /\ blindRun' = run
  /\ playing' = FALSE /\ tradePlans' = {} /\ pendingTradePlan' = FALSE
  /\ UNCHANGED <<positionVars, groupsPerFrame, loading>>

ExitBlind == ConfigureBlind("practice", None, None)

RecordTradePlan ==
  /\ tradePlans' = tradePlans \cup {groupCursor} /\ pendingTradePlan' = FALSE
  /\ UNCHANGED <<positionVars, playing, groupsPerFrame, loading, blindVars>>
-----------------------------------------------------------------------------
\* A move of the replay by hand.
Moves == UNCHANGED <<session, groupsPerFrame, loading, blindVars, planVars>>

Reset ==
  /\ playing' = FALSE
  /\ groupCursor' = IF session = None THEN 0 ELSE Prime[session]
  /\ Moves

StepGroup ==
  IF MustPlan THEN Halt
  ELSE playing' = FALSE /\ AdvanceFrom(groupCursor, groupCursor + 1) /\ Moves

\* Group by group up to the next one with a trade, or to the end.
AdvanceToTrade(group) ==
  \E target \in group..Last :
    /\ target = Last \/ (target > group /\ target \in Trading)
    /\ \A g \in Trading : g > group => g >= target
    /\ groupCursor' = target

StepTrade ==
  IF MustPlan THEN Halt
  ELSE playing' = FALSE /\ AdvanceToTrade(groupCursor) /\ Moves

\* The request's progress or timestamp names the group target.  A refused
\* seek stops the replay too.
Seek(target) ==
  /\ playing' = FALSE
  /\ IF HidesFuture /\ target > groupCursor
       THEN UNCHANGED groupCursor
       ELSE AdvanceFrom(0, Max({target, FirstPosition}))
  /\ Moves

\* jump("first_trade") after its check.
JumpToFirstTrade ==
  /\ AdvanceToTrade(0)
  /\ Moves /\ UNCHANGED playing

\* jump_to_candidate: the groups that end no later than the candidate's time.
JumpToCandidate(time) ==
  /\ AdvanceFrom(0, Max({FirstPosition,
       Cardinality({g \in Positions(session) : EndTime[session][g] <= time})}))
  /\ playing' = FALSE /\ tradePlans' = {} /\ pendingTradePlan' = FALSE
  /\ UNCHANGED <<session, groupsPerFrame, loading, blindVars>>

SetSpeed ==
  /\ groupsPerFrame' \in FrameSizes
  /\ UNCHANGED <<positionVars, playing, loading, blindVars, planVars>>

Play ==
  /\ loading = None
  /\ IF MustPlan THEN Halt
     ELSE playing' = TRUE
          /\ UNCHANGED <<positionVars, groupsPerFrame, loading, blindVars, planVars>>

Pause ==
  /\ playing' = FALSE
  /\ UNCHANGED <<positionVars, groupsPerFrame, loading, blindVars, planVars>>

\* One round of run(), every 50 ms.
Frame ==
  /\ playing /\ session # None
  /\ IF MustPlan THEN Halt
     ELSE /\ AdvanceFrom(groupCursor, groupCursor + groupsPerFrame)
          /\ playing' = (groupCursor' < Last)
          /\ Moves

\* The endpoints that are one call of the engine.
Control ==
  \/ Reset \/ StepGroup \/ StepTrade \/ SetSpeed \/ Play \/ Pause
  \/ \E target \in 0..Last : Seek(target)
=============================================================================
