----------------------------- MODULE BlindReplay -----------------------------
(***************************************************************************)
(* Blind replay: the requests of backtest_protocol.py and service.py that  *)
(* move the replay engine and the rows of backtest_runs, application_state *)
(* and blind_trades together.  A request is a sequence of steps, each one  *)
(* call of the engine, one read or one write of the database; storage.py's *)
(* connections start a transaction at the first write, so that what a      *)
(* function selects before it is a step of its own.  The replay loop moves *)
(* the engine between any two steps, and the process may stop there.       *)
(*                                                                         *)
(* Plans and the sessions assigned to them are given; runs and trades are  *)
(* ids not used before.                                                    *)
(***************************************************************************)
EXTENDS ReplayEngine

CONSTANTS
  Clients,        \* requests that may be in progress at once
  PlanMode,       \* the mode of each plan
  PlanSessions,   \* session_ids of each plan
  Trades          \* ids of blind trades

ASSUME ProtocolAssumption ==
  /\ PlanMode \in [Plans -> Modes]
  /\ PlanSessions \in [Plans -> SUBSET Sessions]

VARIABLES
  up,           \* the service runs
  request,      \* per client: the step its request is at and what it has read
  created,      \* backtest_plans
  activePlan,   \* application_state.active_plan_id
  activeRun,    \* application_state.active_run_id
  runs,         \* backtest_runs
  trades        \* blind_trades: the plan, session and group of the decision

runVars == <<activePlan, activeRun, runs>>
dbVars == <<created, runVars, trades>>
vars == <<engineVars, up, request, dbVars>>

RunStatuses == {"unused", "ACTIVE", "PAUSED", "EXITED", "INTERRUPTED"}
Steps == {"idle", "load", "loading", "selectStart", "start", "selectExit", "exit",
          "exitEngine", "selectActivate", "activate", "selectRun", "configure", "move",
          "firstTrade", "saveTrade", "recordPlan"}
Kinds == {"none", "start", "load", "exit", "create", "candidate", "jump", "trade"}

Idle == [at |-> "idle", kind |-> "none", plan |-> None, session |-> None,
         run |-> None, point |-> 0]
NoTrade == [plan |-> None, session |-> None, group |-> 0]

RequestTypes == request \in
  [Clients -> [at : Steps, kind : Kinds, plan : Plans \cup {None},
               session : Sessions \cup {None}, run : Runs \cup {None}, point : Nat]]

DbTypes ==
  /\ created \subseteq Plans
  /\ activePlan \in Plans \cup {None} /\ activeRun \in Runs \cup {None}
  /\ runs \in [Runs -> [status : RunStatuses, plan : Plans \cup {None},
                        session : Sessions \cup {None}]]
  /\ trades \in [Trades -> [plan : Plans \cup {None}, session : Sessions \cup {None},
                            group : Nat]]

TypeOK == EngineTypeOK /\ up \in BOOLEAN /\ RequestTypes /\ DbTypes

Init ==
  /\ EngineInit
  /\ up = FALSE
  /\ request = [c \in Clients |-> Idle]
  /\ created = {} /\ activePlan = None /\ activeRun = None
  /\ runs = [r \in Runs |-> [status |-> "unused", plan |-> None, session |-> None]]
  /\ trades = [t \in Trades |-> NoTrade]
-----------------------------------------------------------------------------
At(c, step) == up /\ request[c].at = step

\* A request arrives and passes its first checks.
Begin(c, kind, step, plan, of, point) ==
  /\ At(c, "idle")
  /\ request' = [request EXCEPT ![c] = [at |-> step, kind |-> kind, plan |-> plan,
                    session |-> of, run |-> None, point |-> point]]
  /\ UNCHANGED <<engineVars, up>>

Goto(c, step) == request' = [request EXCEPT ![c].at = step] /\ UNCHANGED up

\* On with the run id that was read or written.
GotoWith(c, step, run) ==
  request' = [request EXCEPT ![c].at = step, ![c].run = run] /\ UNCHANGED up

\* The request is answered, with a result or an error.
Return(c) == request' = [request EXCEPT ![c] = Idle] /\ UNCHANGED up
-----------------------------------------------------------------------------
\* start_blind_session up to engine.load.
RequestStart(c, plan, of) ==
  /\ plan \in created /\ of \in PlanSessions[plan]
  /\ activePlan = plan
  /\ Begin(c, "start", "load", plan, of, 0)
  /\ UNCHANGED dbVars

\* replay_load: another session ends the run.
RequestLoad(c, of) ==
  /\ LET leaves == activeRun # None /\ runs[activeRun].session # of
     IN  Begin(c, "load", IF leaves THEN "selectExit" ELSE "load", None, of, 0)
  /\ UNCHANGED dbVars

\* exit_locked_run.
RequestExit(c) ==
  /\ Begin(c, "exit", "selectExit", None, None, 0)
  /\ UNCHANGED dbVars

\* create_plan up to the activation.
RequestCreate(c, plan) ==
  /\ plan \notin created
  /\ created' = created \cup {plan}
  /\ Begin(c, "create", "selectActivate", plan, None, 0)
  /\ UNCHANGED <<runVars, trades>>

\* jump_to_candidate for a row that a scan has stored with or without a plan.
RequestCandidate(c, plan, of, group) ==
  /\ plan \in created \cup {None}
  /\ plan # None => of \in PlanSessions[plan]
  /\ Begin(c, "candidate",
           IF plan = None THEN "move" ELSE IF session = of THEN "selectRun" ELSE "load",
           plan, of, EndTime[of][group])
  /\ UNCHANGED dbVars

\* jump("first_trade"): the check, outside the engine's lock.
RequestJump(c) ==
  /\ ~HidesFuture
  /\ Begin(c, "jump", "firstTrade", None, None, 0)
  /\ UNCHANGED dbVars

\* record_trade_plan: the decision is the one of the group shown now.
RequestTrade(c) ==
  /\ session # None /\ blindPlan # None
  /\ Begin(c, "trade", "saveTrade", blindPlan, session, groupCursor)
  /\ UNCHANGED dbVars

Arrival(c) ==
  \/ \E of \in Sessions :
       \/ RequestLoad(c, of)
       \/ \E plan \in Plans : RequestStart(c, plan, of)
       \/ \E plan \in Plans \cup {None}, group \in Positions(of) :
            RequestCandidate(c, plan, of, group)
  \/ \E plan \in Plans : RequestCreate(c, plan)
  \/ RequestExit(c) \/ RequestJump(c) \/ RequestTrade(c)
-----------------------------------------------------------------------------
\* engine.load within a request; a second session is refused meanwhile.
LoadBegins(c) ==
  /\ At(c, "load")
  /\ IF MayLoad(request[c].session)
       THEN BeginLoad(request[c].session) /\ Goto(c, "loading")
       ELSE Return(c) /\ UNCHANGED engineVars
  /\ UNCHANGED dbVars

LoadFinishes(c) ==
  /\ At(c, "loading")
  /\ FinishLoad(request[c].session)
  /\ CASE request[c].kind = "start" -> Goto(c, "selectStart")
       [] request[c].kind = "candidate" -> Goto(c, "selectRun")
       [] OTHER -> Return(c)
  /\ UNCHANGED dbVars

\* load raises: reading the file, in the swap, or for the state it returns.
LoadFails(c) ==
  /\ At(c, "loading")
  /\ FailLoad \/ SwapFails(request[c].session) \/ FinishLoad(request[c].session)
  /\ Return(c)
  /\ UNCHANGED dbVars
-----------------------------------------------------------------------------
NeverPaused(table, run) == table

\* UPDATE backtest_runs SET status = 'PAUSED' WHERE id = ? AND status = 'ACTIVE'
Paused(table, run) ==
  IF run # None /\ table[run].status = "ACTIVE"
    THEN [table EXCEPT ![run].status = "PAUSED"] ELSE table

\* start_backtest_run, its SELECT.
SelectStart(c) ==
  /\ At(c, "selectStart")
  /\ IF activePlan = request[c].plan THEN GotoWith(c, "start", activeRun) ELSE Return(c)
  /\ UNCHANGED <<engineVars, dbVars>>

\* start_backtest_run, its writes.
StartRun(c) ==
  /\ At(c, "start")
  /\ \E r \in Runs :
       /\ runs[r].status = "unused"
       /\ runs' = [Paused(runs, request[c].run) EXCEPT ![r] =
                    [status |-> "ACTIVE", plan |-> request[c].plan,
                     session |-> request[c].session]]
       /\ activeRun' = r
       /\ GotoWith(c, "configure", r)
  /\ UNCHANGED <<engineVars, created, activePlan, trades>>

\* get_application_state within jump_to_candidate.
SelectRun(c) ==
  /\ At(c, "selectRun")
  /\ GotoWith(c, "configure", activeRun)
  /\ UNCHANGED <<engineVars, dbVars>>

Configure(c) ==
  /\ At(c, "configure")
  /\ ConfigureBlind(PlanMode[request[c].plan], request[c].plan, request[c].run)
  /\ IF request[c].kind = "candidate" THEN Goto(c, "move") ELSE Return(c)
  /\ UNCHANGED dbVars

MoveToCandidate(c) ==
  /\ At(c, "move")
  /\ IF session = None THEN UNCHANGED engineVars ELSE JumpToCandidate(request[c].point)
  /\ Return(c)
  /\ UNCHANGED dbVars

MoveToFirstTrade(c) ==
  /\ At(c, "firstTrade")
  /\ JumpToFirstTrade
  /\ Return(c)
  /\ UNCHANGED dbVars
-----------------------------------------------------------------------------
\* exit_active_backtest_run, its SELECTs.
SelectExit(c) ==
  /\ At(c, "selectExit")
  /\ IF activeRun = None THEN Goto(c, "exitEngine") ELSE GotoWith(c, "exit", activeRun)
  /\ UNCHANGED <<engineVars, dbVars>>

\* exit_active_backtest_run, its writes.
ExitRun(c) ==
  /\ At(c, "exit")
  /\ runs' = [runs EXCEPT ![request[c].run].status = "EXITED"]
  /\ activeRun' = None
  /\ Goto(c, "exitEngine")
  /\ UNCHANGED <<engineVars, created, activePlan, trades>>

\* activate_backtest_plan, its SELECT and its writes.
SelectActivate(c) ==
  /\ At(c, "selectActivate")
  /\ GotoWith(c, "activate", activeRun)
  /\ UNCHANGED <<engineVars, dbVars>>

ActivatePlan(c) ==
  /\ At(c, "activate")
  /\ runs' = Paused(runs, request[c].run)
  /\ activePlan' = request[c].plan /\ activeRun' = None
  /\ Goto(c, "exitEngine")
  /\ UNCHANGED <<engineVars, created, trades>>

ExitEngine(c) ==
  /\ At(c, "exitEngine")
  /\ ExitBlind
  /\ IF request[c].kind = "load" THEN Goto(c, "load") ELSE Return(c)
  /\ UNCHANGED dbVars

SaveTrade(c) ==
  /\ At(c, "saveTrade")
  /\ \E t \in Trades :
       /\ trades[t] = NoTrade
       /\ trades' = [trades EXCEPT ![t] = [plan |-> request[c].plan,
                      session |-> request[c].session, group |-> request[c].point]]
  /\ Goto(c, "recordPlan")
  /\ UNCHANGED <<engineVars, created, runVars>>

RecordPlan(c) ==
  /\ At(c, "recordPlan")
  /\ RecordTradePlan
  /\ Return(c)
  /\ UNCHANGED dbVars

RequestStep(c) ==
  \/ LoadBegins(c) \/ LoadFinishes(c) \/ LoadFails(c)
  \/ SelectStart(c) \/ StartRun(c) \/ SelectRun(c) \/ Configure(c)
  \/ MoveToCandidate(c) \/ MoveToFirstTrade(c)
  \/ SelectExit(c) \/ ExitRun(c) \/ SelectActivate(c) \/ ActivatePlan(c) \/ ExitEngine(c)
  \/ SaveTrade(c) \/ RecordPlan(c)
-----------------------------------------------------------------------------
\* A request that is one call of the engine.
ControlReplay(c) == At(c, "idle") /\ Control /\ UNCHANGED <<up, request, dbVars>>

ReplayLoop == up /\ Frame /\ UNCHANGED <<up, request, dbVars>>

\* The process ends, whatever is in progress.
Crash ==
  /\ up /\ up' = FALSE
  /\ EngineStops
  /\ request' = [c \in Clients |-> Idle]
  /\ UNCHANGED dbVars

StartUpResumes ==
  /\ ~up /\ up' = TRUE
  /\ IF Complete = {} THEN UNCHANGED engineVars ELSE \E s \in Complete : FinishLoad(s)
  /\ UNCHANGED <<request, dbVars>>

\* exit_active_backtest_run for a run that a crash or a stop left in progress.
InterruptRun ==
  /\ runs' = IF activeRun = None THEN runs
             ELSE [runs EXCEPT ![activeRun].status = "INTERRUPTED"]
  /\ activeRun' = None
  /\ UNCHANGED <<request, created, activePlan, trades>>

\* lifespan up to its yield: a run that was in progress is over.
StartUp ==
  /\ ~up /\ up' = TRUE
  /\ InterruptRun
  /\ IF Complete = {} THEN UNCHANGED engineVars ELSE \E s \in Complete : FinishLoad(s)

\* Its load raises: the run is over, the process ends again.
StartUpFails ==
  /\ ~up /\ Complete # {}
  /\ InterruptRun
  /\ UNCHANGED <<engineVars, up>>

Next ==
  \/ \E c \in Clients : Arrival(c) \/ RequestStep(c) \/ ControlReplay(c)
  \/ ReplayLoop \/ Crash \/ StartUp \/ StartUpFails

\* A request is worked off by a thread of its own.
Fairness == \A c \in Clients : WF_vars(RequestStep(c))

Spec == Init /\ [][Next]_vars /\ Fairness
-----------------------------------------------------------------------------
\* No request is between two of its steps.
Quiet == up /\ \A c \in Clients : request[c].at = "idle"

\* derive_application_lock_state of the database.
LockedRun ==
  /\ activePlan # None /\ PlanMode[activePlan] = "locked"
  /\ activeRun # None /\ runs[activeRun].status = "ACTIVE"
  /\ runs[activeRun].plan = activePlan

(* Between requests the engine replays for exactly the run that            *)
(* application_state names, and that run is active for the active plan:    *)
(* no exit, new plan, failed load, candidate jump or restart leaves one    *)
(* side behind.                                                            *)
RunsAgree == Quiet =>
  /\ blindRun = activeRun
  /\ activeRun # None =>
       runs[activeRun].status = "ACTIVE" /\ runs[activeRun].plan = activePlan

(* A group only counts as planned for the plan and session it was planned  *)
(* in: for the groups that locked replay lets pass there are as many saved *)
(* trades of the configured plan in the loaded session, whatever loads,    *)
(* jumps and new runs came between.                                        *)
PlannedHasTrade ==
  Cardinality(tradePlans) <=
    Cardinality({t \in Trades : trades[t].plan = blindPlan /\ trades[t].session = session
                               /\ blindPlan # None})

(* The runs keep RunContract: one at a time, a new one ends the old one,   *)
(* and no ended run becomes active again, across crashes too.              *)
Contract == INSTANCE RunContract WITH
  Run <- Runs, NoRun <- None, current <- activeRun,
  past <- {r \in Runs : runs[r].status \notin {"unused", "ACTIVE"}}
KeepsContract == Contract!ContractSpec

(* A load ends, by a swap, a failure or the end of the process.  Only one  *)
(* that raised in its swap leaves loading_session_id set, and then for the *)
(* session that has been swapped in, which may be loaded again: no other   *)
(* failure makes the engine refuse every other session and play for ever.  *)
LoadEnds == []<>(loading = None \/ session = loading)

(* While a locked run is active, the engine refuses to look ahead          *)
(* (docs/BLIND_REPLAY.md: "Locked mode disables future seek").             *)
LockHolds == Quiet /\ LockedRun => EngineLocked
=============================================================================
