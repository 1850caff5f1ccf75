-------------------------- MODULE BlindReplayProofs --------------------------
(***************************************************************************)
(* Proofs about BlindReplay, for any sessions, plans, runs and trades.     *)
(* Type correctness holds for any number of clients; that the engine and   *)
(* the database agree, and that the runs keep RunContract, is proved for   *)
(* one client, and needs it: with two, a run started between the SELECT    *)
(* and the writes of another request breaks both.                          *)
(***************************************************************************)
EXTENDS BlindReplay, FiniteSetTheorems, TLAPS

USE EngineAssumption, ProtocolAssumption

(***************************************************************************)
(* The engine                                                              *)
(***************************************************************************)

\* The larger and the smaller of two integers, as FiniteSetsExt picks them.
LEMMA MaxOfTwo ==
  ASSUME NEW a \in Int, NEW b \in Int
  PROVE  Max({a, b}) = IF a >= b THEN a ELSE b
<1> DEFINE m == IF a >= b THEN a ELSE b
<1>1. m \in {a, b} /\ \A y \in {a, b} : m >= y
  OBVIOUS
<1>2. \A x \in {a, b} : (\A y \in {a, b} : x >= y) => x = m
  OBVIOUS
<1> HIDE DEF m
<1>3. Max({a, b}) = m
  BY <1>1, <1>2 DEF Max
<1> QED
  BY <1>3 DEF m

LEMMA MinOfTwo ==
  ASSUME NEW a \in Int, NEW b \in Int
  PROVE  Min({a, b}) = IF a <= b THEN a ELSE b
<1> DEFINE m == IF a <= b THEN a ELSE b
<1>1. m \in {a, b} /\ \A y \in {a, b} : m <= y
  OBVIOUS
<1>2. \A x \in {a, b} : (\A y \in {a, b} : x <= y) => x = m
  OBVIOUS
<1> HIDE DEF m
<1>3. Min({a, b}) = m
  BY <1>1, <1>2 DEF Min
<1> QED
  BY <1>3 DEF m

\* Whatever is asked for, the cursor stays within the session.
LEMMA AdvanceStaysInside ==
  ASSUME EngineTypeOK, NEW group \in 0..Last, NEW target \in Int,
         AdvanceFrom(group, target)
  PROVE  groupCursor' \in 0..Last
<1>1. Last \in Nat
  BY DEF EngineTypeOK, Last
<1>2. Min({target, Last}) = IF target <= Last THEN target ELSE Last
  BY <1>1, MinOfTwo
<1>3. Min({target, Last}) \in Int /\ Min({target, Last}) <= Last
  BY <1>1, <1>2
<1>a. group \in Int
  BY <1>1
<1>4. groupCursor' = IF group >= Min({target, Last}) THEN group ELSE Min({target, Last})
  BY <1>a, <1>3, MaxOfTwo DEF AdvanceFrom
<1> QED
  BY <1>1, <1>3, <1>4

\* Moves by hand change no other field than the cursor and playing.
LEMMA MoveKeepsTypes ==
  ASSUME EngineTypeOK, Moves, groupCursor' \in 0..Last, playing' \in BOOLEAN
  PROVE  EngineTypeOK'
BY DEF EngineTypeOK, Moves, blindVars, planVars, Last

LEMMA HaltKeepsTypes ==
  ASSUME EngineTypeOK, Halt
  PROVE  EngineTypeOK'
BY DEF EngineTypeOK, Halt, positionVars, blindVars, Last

LEMMA LoadKeepsTypes ==
  ASSUME EngineTypeOK, NEW s \in Sessions, BeginLoad(s) \/ FinishLoad(s) \/ SwapFails(s) \/ FailLoad
  PROVE  EngineTypeOK'
<1>1. CASE BeginLoad(s)
  BY <1>1 DEF EngineTypeOK, BeginLoad, positionVars, blindVars, planVars, Last
<1>2. CASE FinishLoad(s)
  <2>1. Prime[s] \in 0..GroupCount[s] /\ GroupCount[s] \in Nat /\ s # None
    BY DEF Positions
  <2> QED
    BY <1>2, <2>1 DEF EngineTypeOK, FinishLoad, blindVars, Last
<1>3. CASE FailLoad
  BY <1>3 DEF EngineTypeOK, FailLoad, positionVars, blindVars, planVars, Last
<1>4. CASE SwapFails(s)
  <2>1. Prime[s] \in 0..GroupCount[s] /\ GroupCount[s] \in Nat /\ s # None
    BY DEF Positions
  <2>2. groupCursor' \in 0..GroupCount[s]
    BY <1>4, <2>1 DEF SwapFails
  <2> QED
    BY <1>4, <2>1, <2>2 DEF EngineTypeOK, SwapFails, blindVars, Last
<1> QED
  BY <1>1, <1>2, <1>3, <1>4

LEMMA BlindKeepsTypes ==
  ASSUME EngineTypeOK,
         RecordTradePlan \/ \E mode \in Modes, plan \in Plans \cup {None},
           run \in Runs \cup {None} : ConfigureBlind(mode, plan, run)
  PROVE  EngineTypeOK'
<1>1. CASE RecordTradePlan
  <2>1. groupCursor \in Nat
    BY DEF EngineTypeOK, Last
  <2> QED
    BY <1>1, <2>1 DEF EngineTypeOK, RecordTradePlan, positionVars, blindVars, Last
<1>2. CASE \E mode \in Modes, plan \in Plans \cup {None}, run \in Runs \cup {None} :
             ConfigureBlind(mode, plan, run)
  BY <1>2 DEF EngineTypeOK, ConfigureBlind, positionVars, Last
<1> QED
  BY <1>1, <1>2

LEMMA CandidateKeepsTypes ==
  ASSUME EngineTypeOK, session # None, NEW time, JumpToCandidate(time)
  PROVE  EngineTypeOK'
<1> DEFINE before == {g \in Positions(session) : EndTime[session][g] <= time}
<1>1. session \in Sessions /\ GroupCount[session] \in Nat
  BY DEF EngineTypeOK
<1>2. IsFiniteSet(Positions(session))
  BY <1>1, FS_Interval DEF Positions
<1>3. before \subseteq Positions(session)
  OBVIOUS
<1>4. IsFiniteSet(before)
  BY <1>2, <1>3, FS_Subset
<1>5. Cardinality(before) \in Nat
  BY <1>4, FS_CardinalityType
<1>6. FirstPosition \in Nat
  BY <1>1 DEF FirstPosition, Positions
<1> HIDE DEF before
<1>7. Max({FirstPosition, Cardinality(before)}) \in Int
  BY <1>5, <1>6, MaxOfTwo
<1>8. AdvanceFrom(0, Max({FirstPosition, Cardinality(before)}))
  BY DEF JumpToCandidate, before
<1>9. groupCursor' \in 0..Last
  BY <1>1, <1>7, <1>8, AdvanceStaysInside DEF Last
<1> QED
  BY <1>9 DEF EngineTypeOK, JumpToCandidate, blindVars, Last

LEMMA TradeKeepsTypes ==
  ASSUME EngineTypeOK, NEW group \in 0..Last, AdvanceToTrade(group), Moves,
         playing' \in BOOLEAN
  PROVE  EngineTypeOK'
<1>1. Last \in Nat
  BY DEF EngineTypeOK, Last
<1>2. groupCursor' \in 0..Last
  BY <1>1 DEF AdvanceToTrade
<1> QED
  BY <1>2, MoveKeepsTypes

LEMMA ControlKeepsTypes ==
  ASSUME EngineTypeOK, Control
  PROVE  EngineTypeOK'
<1>1. Last \in Nat /\ groupCursor \in 0..Last /\ groupCursor \in Int /\ 0 \in 0..Last
  BY DEF EngineTypeOK, Last
<1>2. CASE Reset
  <2>1. groupCursor' \in 0..Last
    BY <1>2 DEF Reset, Last, Positions, EngineTypeOK
  <2> QED
    BY <1>2, <2>1, MoveKeepsTypes DEF Reset
<1>3. CASE StepGroup
  <2>1. CASE MustPlan
    BY <1>3, <2>1, HaltKeepsTypes DEF StepGroup
  <2>2. CASE ~MustPlan
    <3>1. playing' = FALSE /\ AdvanceFrom(groupCursor, groupCursor + 1) /\ Moves
      BY <1>3, <2>2 DEF StepGroup
    <3>2. groupCursor' \in 0..Last
      BY <1>1, <3>1, AdvanceStaysInside
    <3> QED
      BY <3>1, <3>2, MoveKeepsTypes
  <2> QED
    BY <2>1, <2>2
<1>4. CASE StepTrade
  <2>1. CASE MustPlan
    BY <1>4, <2>1, HaltKeepsTypes DEF StepTrade
  <2>2. CASE ~MustPlan
    BY <1>1, <1>4, <2>2, TradeKeepsTypes DEF StepTrade
  <2> QED
    BY <2>1, <2>2
<1>5. CASE SetSpeed
  BY <1>5 DEF SetSpeed, EngineTypeOK, positionVars, blindVars, planVars, Last
<1>6. CASE Play
  <2>1. CASE MustPlan
    BY <1>6, <2>1, HaltKeepsTypes DEF Play
  <2>2. CASE ~MustPlan
    BY <1>6, <2>2 DEF Play, EngineTypeOK, positionVars, blindVars, planVars, Last
  <2> QED
    BY <2>1, <2>2
<1>7. CASE Pause
  BY <1>7 DEF Pause, EngineTypeOK, positionVars, blindVars, planVars, Last
<1>8. CASE \E target \in 0..Last : Seek(target)
  <2>1. PICK target \in 0..Last : Seek(target)
    BY <1>8
  <2>2. playing' = FALSE /\ Moves
    BY <2>1 DEF Seek
  <2>3. FirstPosition \in Int
    <3>1. CASE session \in Complete
      BY <3>1 DEF FirstPosition, Positions
    <3>2. CASE session \notin Complete
      BY <3>2 DEF FirstPosition
    <3> QED
      BY <3>1, <3>2
  <2>4. Max({target, FirstPosition}) \in Int
    BY <1>1, <2>3, MaxOfTwo
  <2>5. groupCursor' = groupCursor \/ AdvanceFrom(0, Max({target, FirstPosition}))
    BY <2>1 DEF Seek
  <2>6. groupCursor' \in 0..Last
    BY <1>1, <2>4, <2>5, AdvanceStaysInside
  <2> QED
    BY <2>2, <2>6, MoveKeepsTypes
<1> QED
  BY <1>2, <1>3, <1>4, <1>5, <1>6, <1>7, <1>8 DEF Control

LEMMA FrameKeepsTypes ==
  ASSUME EngineTypeOK, Frame
  PROVE  EngineTypeOK'
<1>1. CASE MustPlan
  BY <1>1, HaltKeepsTypes DEF Frame
<1>2. CASE ~MustPlan
  <2>1. /\ AdvanceFrom(groupCursor, groupCursor + groupsPerFrame)
        /\ playing' = (groupCursor' < Last) /\ Moves
    BY <1>2 DEF Frame
  <2>2. groupCursor \in 0..Last /\ groupCursor + groupsPerFrame \in Int
    BY DEF EngineTypeOK, Last
  <2>3. groupCursor' \in 0..Last
    BY <2>1, <2>2, AdvanceStaysInside
  <2> QED
    BY <2>1, <2>3, MoveKeepsTypes
<1> QED
  BY <1>1, <1>2
-----------------------------------------------------------------------------
(***************************************************************************)
(* Requests and rows                                                       *)
(***************************************************************************)

\* What a request knows at each of its steps.
RequestFits(q) ==
  /\ q.kind \in {"start", "load", "candidate"} => q.session \in Sessions
  /\ q.kind \in {"start", "create"} => q.plan \in Plans
  /\ q.kind = "candidate" /\ q.at # "move" => q.plan \in Plans
  /\ q.at \in {"load", "loading"} => q.kind \in {"start", "load", "candidate"}
  /\ q.at \in {"selectStart", "start"} => q.kind = "start"
  /\ q.at \in {"selectRun", "move"} => q.kind = "candidate"
  /\ q.at = "configure" => q.kind \in {"start", "candidate"}
  /\ q.at \in {"selectActivate", "activate"} => q.kind = "create"
  /\ q.at \in {"selectExit", "exit"} => q.kind \in {"load", "exit"}
  /\ q.at = "exitEngine" => q.kind \in {"load", "exit", "create"}
  /\ q.at = "exit" => q.run \in Runs

RequestsFit == \A c \in Clients : RequestFits(request[c])

TypeInv == TypeOK /\ RequestsFit

RequestOK == up \in BOOLEAN /\ RequestTypes /\ RequestsFit

LEMMA ReturnIsFit ==
  ASSUME RequestOK, NEW c \in Clients, Return(c)
  PROVE  RequestOK'
<1>1. Idle \in [at : Steps, kind : Kinds, plan : Plans \cup {None},
                session : Sessions \cup {None}, run : Runs \cup {None}, point : Nat]
  BY DEF Idle, Steps, Kinds
<1>2. RequestFits(Idle)
  BY DEF Idle, RequestFits
<1>3. request' = [request EXCEPT ![c] = Idle] /\ up' = up
  BY DEF Return
<1>4. RequestTypes'
  BY <1>1, <1>3 DEF RequestOK, RequestTypes
<1>5. \A d \in Clients : request'[d] = request[d] \/ request'[d] = Idle
  BY <1>3 DEF RequestOK, RequestTypes
<1>6. RequestsFit'
  BY <1>2, <1>5 DEF RequestOK, RequestsFit, RequestFits
<1> QED
  BY <1>3, <1>4, <1>6 DEF RequestOK

\* A step that knows another run, or none, and fits what is known already.
LEMMA StepIsFit ==
  ASSUME RequestOK, NEW c \in Clients, NEW step \in Steps, NEW run \in Runs \cup {None},
         GotoWith(c, step, run),
         RequestFits([request[c] EXCEPT !.at = step, !.run = run])
  PROVE  RequestOK'
<1> DEFINE q == [request[c] EXCEPT !.at = step, !.run = run]
<1>1. request' = [request EXCEPT ![c] = q] /\ up' = up
  BY DEF GotoWith, RequestOK, RequestTypes
<1>a. request[c] \in [at : Steps, kind : Kinds, plan : Plans \cup {None},
                      session : Sessions \cup {None}, run : Runs \cup {None}, point : Nat]
  BY DEF RequestOK, RequestTypes
<1>2. q \in [at : Steps, kind : Kinds, plan : Plans \cup {None},
             session : Sessions \cup {None}, run : Runs \cup {None}, point : Nat]
  BY <1>a
<1>3. RequestFits(q)
  OBVIOUS
<1> HIDE DEF q
<1>4. RequestTypes'
  BY <1>1, <1>2 DEF RequestOK, RequestTypes
<1>5. \A d \in Clients : request'[d] = request[d] \/ request'[d] = q
  BY <1>1 DEF RequestOK, RequestTypes
<1>6. RequestsFit'
  BY <1>3, <1>5 DEF RequestOK, RequestsFit, RequestFits
<1> QED
  BY <1>1, <1>4, <1>6 DEF RequestOK

LEMMA GotoIsFit ==
  ASSUME RequestOK, NEW c \in Clients, NEW step \in Steps, Goto(c, step),
         RequestFits([request[c] EXCEPT !.at = step])
  PROVE  RequestOK'
<1> DEFINE q == [request[c] EXCEPT !.at = step]
<1>1. request[c] \in [at : Steps, kind : Kinds, plan : Plans \cup {None},
                      session : Sessions \cup {None}, run : Runs \cup {None}, point : Nat]
  BY DEF RequestOK, RequestTypes
<1>2. request' = [request EXCEPT ![c] = q] /\ up' = up
  BY DEF Goto, RequestOK, RequestTypes
<1>3. q \in [at : Steps, kind : Kinds, plan : Plans \cup {None},
             session : Sessions \cup {None}, run : Runs \cup {None}, point : Nat]
  BY <1>1
<1>4. RequestFits(q)
  OBVIOUS
<1> HIDE DEF q
<1>5. RequestTypes'
  BY <1>2, <1>3 DEF RequestOK, RequestTypes
<1>6. \A d \in Clients : request'[d] = request[d] \/ request'[d] = q
  BY <1>2 DEF RequestOK, RequestTypes
<1>7. RequestsFit'
  BY <1>4, <1>6 DEF RequestOK, RequestsFit, RequestFits
<1> QED
  BY <1>2, <1>5, <1>7 DEF RequestOK

LEMMA BeginIsFit ==
  ASSUME RequestOK, EngineTypeOK, NEW c \in Clients, NEW kind \in Kinds, NEW step \in Steps,
         NEW plan \in Plans \cup {None}, NEW of \in Sessions \cup {None}, NEW point \in Nat,
         Begin(c, kind, step, plan, of, point),
         RequestFits([at |-> step, kind |-> kind, plan |-> plan,
                      session |-> of, run |-> None, point |-> point])
  PROVE  RequestOK' /\ EngineTypeOK'
<1> DEFINE q == [at |-> step, kind |-> kind, plan |-> plan, session |-> of,
                 run |-> None, point |-> point]
<1>1. request' = [request EXCEPT ![c] = q] /\ up' = up /\ UNCHANGED engineVars
  BY DEF Begin
<1>2. RequestTypes'
  BY <1>1 DEF RequestOK, RequestTypes
<1>3. RequestFits(q)
  OBVIOUS
<1> HIDE DEF q
<1>4. \A d \in Clients : request'[d] = request[d] \/ request'[d] = q
  BY <1>1 DEF RequestOK, RequestTypes
<1>5. RequestsFit'
  BY <1>3, <1>4 DEF RequestOK, RequestsFit, RequestFits
<1>6. EngineTypeOK'
  BY <1>1 DEF EngineTypeOK, engineVars, positionVars, blindVars, planVars, Last
<1> QED
  BY <1>1, <1>2, <1>5, <1>6 DEF RequestOK

LEMMA ArrivalIsFit ==
  ASSUME TypeInv, NEW c \in Clients, Arrival(c)
  PROVE  RequestOK' /\ EngineTypeOK' /\ DbTypes'
<1>1. RequestOK /\ EngineTypeOK /\ DbTypes
  BY DEF TypeInv, TypeOK, RequestOK
<1>2. DbTypes'
  BY <1>1 DEF Arrival, RequestLoad, RequestStart, RequestCandidate, RequestCreate, RequestExit,
    RequestJump, RequestTrade, DbTypes, dbVars, runVars
<1>3. CASE \E of \in Sessions : RequestLoad(c, of)
  <2>1. PICK of \in Sessions : RequestLoad(c, of)
    BY <1>3
  <2>2. PICK step \in {"load", "selectExit"} : Begin(c, "load", step, None, of, 0)
    BY <2>1 DEF RequestLoad
  <2>3. step \in Steps /\ "load" \in Kinds
    BY DEF Steps, Kinds
  <2>4. RequestFits([at |-> step, kind |-> "load", plan |-> None, session |-> of,
                     run |-> None, point |-> 0])
    BY DEF RequestFits
  <2> QED
    BY <1>1, <1>2, <2>2, <2>3, <2>4, BeginIsFit
<1>4. CASE \E of \in Sessions : \E plan \in Plans : RequestStart(c, plan, of)
  <2>1. PICK of \in Sessions : \E plan \in Plans : RequestStart(c, plan, of)
    BY <1>4
  <2>2. PICK plan \in Plans : RequestStart(c, plan, of)
    BY <2>1
  <2>3. Begin(c, "start", "load", plan, of, 0)
    BY <2>2 DEF RequestStart
  <2>4. "load" \in Steps /\ "start" \in Kinds
    BY DEF Steps, Kinds
  <2>5. RequestFits([at |-> "load", kind |-> "start", plan |-> plan, session |-> of,
                     run |-> None, point |-> 0])
    BY DEF RequestFits
  <2> QED
    BY <1>1, <1>2, <2>3, <2>4, <2>5, BeginIsFit
<1>5. CASE \E of \in Sessions : \E plan \in Plans \cup {None}, group \in Positions(of) :
             RequestCandidate(c, plan, of, group)
  <2>1. PICK of \in Sessions : \E plan \in Plans \cup {None}, group \in Positions(of) :
             RequestCandidate(c, plan, of, group)
    BY <1>5
  <2>2. PICK plan \in Plans \cup {None}, group \in Positions(of) :
             RequestCandidate(c, plan, of, group)
    BY <2>1
  <2>3. PICK step \in {"move", "selectRun", "load"} :
          /\ plan = None => step = "move"
          /\ Begin(c, "candidate", step, plan, of, EndTime[of][group])
          /\ step = "move" => plan = None
    BY <2>2 DEF RequestCandidate
  <2>4. EndTime[of][group] \in Nat /\ step \in Steps /\ "candidate" \in Kinds
    BY DEF Steps, Kinds
  <2>5. RequestFits([at |-> step, kind |-> "candidate", plan |-> plan, session |-> of,
                     run |-> None, point |-> EndTime[of][group]])
    BY <2>3 DEF RequestFits
  <2> QED
    BY <1>1, <1>2, <2>3, <2>4, <2>5, BeginIsFit
<1>6. CASE \E plan \in Plans : RequestCreate(c, plan)
  <2>1. PICK plan \in Plans : RequestCreate(c, plan)
    BY <1>6
  <2>2. Begin(c, "create", "selectActivate", plan, None, 0)
    BY <2>1 DEF RequestCreate
  <2>3. "selectActivate" \in Steps /\ "create" \in Kinds
    BY DEF Steps, Kinds
  <2>4. RequestFits([at |-> "selectActivate", kind |-> "create", plan |-> plan,
                     session |-> None, run |-> None, point |-> 0])
    BY DEF RequestFits
  <2> QED
    BY <1>1, <1>2, <2>2, <2>3, <2>4, BeginIsFit
<1>7. CASE RequestExit(c)
  <2>1. Begin(c, "exit", "selectExit", None, None, 0)
    BY <1>7 DEF RequestExit
  <2>2. "selectExit" \in Steps /\ "exit" \in Kinds
    BY DEF Steps, Kinds
  <2>3. RequestFits([at |-> "selectExit", kind |-> "exit", plan |-> None,
                     session |-> None, run |-> None, point |-> 0])
    BY DEF RequestFits
  <2> QED
    BY <1>1, <1>2, <2>1, <2>2, <2>3, BeginIsFit
<1>8. CASE RequestJump(c)
  <2>1. Begin(c, "jump", "firstTrade", None, None, 0)
    BY <1>8 DEF RequestJump
  <2>2. "firstTrade" \in Steps /\ "jump" \in Kinds
    BY DEF Steps, Kinds
  <2>3. RequestFits([at |-> "firstTrade", kind |-> "jump", plan |-> None,
                     session |-> None, run |-> None, point |-> 0])
    BY DEF RequestFits
  <2> QED
    BY <1>1, <1>2, <2>1, <2>2, <2>3, BeginIsFit
<1>9. CASE RequestTrade(c)
  <2>1. Begin(c, "trade", "saveTrade", blindPlan, session, groupCursor)
    BY <1>9 DEF RequestTrade
  <2>2. "saveTrade" \in Steps /\ "trade" \in Kinds
    BY DEF Steps, Kinds
  <2>3. blindPlan \in Plans \cup {None} /\ session \in Sessions \cup {None} /\ groupCursor \in Nat
    BY <1>1 DEF EngineTypeOK, Last
  <2>4. RequestFits([at |-> "saveTrade", kind |-> "trade", plan |-> blindPlan,
                     session |-> session, run |-> None, point |-> groupCursor])
    BY DEF RequestFits
  <2> QED
    BY <1>1, <1>2, <2>1, <2>2, <2>3, <2>4, BeginIsFit
<1> QED
  BY <1>3, <1>4, <1>5, <1>6, <1>7, <1>8, <1>9 DEF Arrival
LEMMA RequestStepIsFit ==
  ASSUME TypeInv, NEW c \in Clients, RequestStep(c)
  PROVE  RequestOK'
<1> DEFINE q == request[c]
<1>1. RequestOK
  BY DEF TypeInv, TypeOK, RequestOK
<1>2. /\ q \in [at : Steps, kind : Kinds, plan : Plans \cup {None},
                session : Sessions \cup {None}, run : Runs \cup {None}, point : Nat]
      /\ RequestFits(q) /\ activeRun \in Runs \cup {None}
  BY DEF TypeInv, TypeOK, RequestTypes, RequestsFit, DbTypes
<1>3. CASE Return(c)
  BY <1>1, <1>3, ReturnIsFit
<1>4. CASE \E step \in Steps : Goto(c, step) /\ RequestFits([q EXCEPT !.at = step])
  BY <1>1, <1>4, GotoIsFit
<1>5. CASE \E step \in Steps, run \in Runs \cup {None} :
             GotoWith(c, step, run) /\ RequestFits([q EXCEPT !.at = step, !.run = run])
  BY <1>1, <1>5, StepIsFit
<1>6. CASE LoadBegins(c)
  <2>1. Return(c) \/ (Goto(c, "loading") /\ q.at = "load")
    BY <1>6 DEF LoadBegins, At
  <2>2. q.at = "load" => RequestFits([q EXCEPT !.at = "loading"]) /\ "loading" \in Steps
    BY <1>2 DEF RequestFits, Steps
  <2> QED
    BY <1>3, <1>4, <2>1, <2>2
<1>7. CASE LoadFinishes(c)
  <2>1. q.at = "loading"
    BY <1>7 DEF LoadFinishes, At
  <2>2. CASE q.kind = "start"
    <3>1. Goto(c, "selectStart")
      BY <1>7, <2>2 DEF LoadFinishes
    <3>2. RequestFits([q EXCEPT !.at = "selectStart"]) /\ "selectStart" \in Steps
      BY <1>2, <2>1, <2>2 DEF RequestFits, Steps
    <3> QED
      BY <1>4, <3>1, <3>2
  <2>3. CASE q.kind = "candidate"
    <3>1. Goto(c, "selectRun")
      BY <1>7, <2>3 DEF LoadFinishes
    <3>2. RequestFits([q EXCEPT !.at = "selectRun"]) /\ "selectRun" \in Steps
      BY <1>2, <2>1, <2>3 DEF RequestFits, Steps
    <3> QED
      BY <1>4, <3>1, <3>2
  <2>4. CASE q.kind \notin {"start", "candidate"}
    BY <1>3, <1>7, <2>4 DEF LoadFinishes
  <2> QED
    BY <2>2, <2>3, <2>4
<1>8. CASE SelectStart(c)
  <2>1. Return(c) \/ (GotoWith(c, "start", activeRun) /\ q.at = "selectStart")
    BY <1>8 DEF SelectStart, At
  <2>2. q.at = "selectStart" =>
          RequestFits([q EXCEPT !.at = "start", !.run = activeRun]) /\ "start" \in Steps
    BY <1>2 DEF RequestFits, Steps
  <2> QED
    BY <1>2, <1>3, <1>5, <2>1, <2>2
<1>9. CASE StartRun(c)
  <2>1. PICK r \in Runs : GotoWith(c, "configure", r)
    BY <1>9 DEF StartRun
  <2>2. q.at = "start"
    BY <1>9 DEF StartRun, At
  <2>3. RequestFits([q EXCEPT !.at = "configure", !.run = r]) /\ "configure" \in Steps
    BY <1>2, <2>2 DEF RequestFits, Steps
  <2> QED
    BY <1>5, <2>1, <2>3
<1>10. CASE SelectRun(c)
  <2>1. GotoWith(c, "configure", activeRun) /\ q.at = "selectRun"
    BY <1>10 DEF SelectRun, At
  <2>2. RequestFits([q EXCEPT !.at = "configure", !.run = activeRun]) /\ "configure" \in Steps
    BY <1>2, <2>1 DEF RequestFits, Steps
  <2> QED
    BY <1>2, <1>5, <2>1, <2>2
<1>11. CASE Configure(c)
  <2>1. Return(c) \/ (Goto(c, "move") /\ q.at = "configure" /\ q.kind = "candidate")
    BY <1>11 DEF Configure, At
  <2>2. q.at = "configure" /\ q.kind = "candidate" =>
          RequestFits([q EXCEPT !.at = "move"]) /\ "move" \in Steps
    BY <1>2 DEF RequestFits, Steps
  <2> QED
    BY <1>3, <1>4, <2>1, <2>2
<1>12. CASE SelectExit(c)
  <2>1. \/ Goto(c, "exitEngine")
        \/ GotoWith(c, "exit", activeRun) /\ activeRun # None
    BY <1>12 DEF SelectExit
  <2>2. q.at = "selectExit"
    BY <1>12 DEF SelectExit, At
  <2>3. RequestFits([q EXCEPT !.at = "exitEngine"]) /\ "exitEngine" \in Steps
    BY <1>2, <2>2 DEF RequestFits, Steps
  <2>4. activeRun # None =>
          RequestFits([q EXCEPT !.at = "exit", !.run = activeRun]) /\ "exit" \in Steps
    BY <1>2, <2>2 DEF RequestFits, Steps
  <2> QED
    BY <1>2, <1>4, <1>5, <2>1, <2>3, <2>4
<1>13. CASE ExitRun(c)
  <2>1. Goto(c, "exitEngine") /\ q.at = "exit"
    BY <1>13 DEF ExitRun, At
  <2>2. RequestFits([q EXCEPT !.at = "exitEngine"]) /\ "exitEngine" \in Steps
    BY <1>2, <2>1 DEF RequestFits, Steps
  <2> QED
    BY <1>4, <2>1, <2>2
<1>14. CASE SelectActivate(c)
  <2>1. GotoWith(c, "activate", activeRun) /\ q.at = "selectActivate"
    BY <1>14 DEF SelectActivate, At
  <2>2. RequestFits([q EXCEPT !.at = "activate", !.run = activeRun]) /\ "activate" \in Steps
    BY <1>2, <2>1 DEF RequestFits, Steps
  <2> QED
    BY <1>2, <1>5, <2>1, <2>2
<1>15. CASE ActivatePlan(c)
  <2>1. Goto(c, "exitEngine") /\ q.at = "activate"
    BY <1>15 DEF ActivatePlan, At
  <2>2. RequestFits([q EXCEPT !.at = "exitEngine"]) /\ "exitEngine" \in Steps
    BY <1>2, <2>1 DEF RequestFits, Steps
  <2> QED
    BY <1>4, <2>1, <2>2
<1>16. CASE ExitEngine(c)
  <2>1. Return(c) \/ (Goto(c, "load") /\ q.at = "exitEngine" /\ q.kind = "load")
    BY <1>16 DEF ExitEngine, At
  <2>2. q.at = "exitEngine" /\ q.kind = "load" =>
          RequestFits([q EXCEPT !.at = "load"]) /\ "load" \in Steps
    BY <1>2 DEF RequestFits, Steps
  <2> QED
    BY <1>3, <1>4, <2>1, <2>2
<1>17. CASE SaveTrade(c)
  <2>1. Goto(c, "recordPlan") /\ q.at = "saveTrade"
    BY <1>17 DEF SaveTrade, At
  <2>2. RequestFits([q EXCEPT !.at = "recordPlan"]) /\ "recordPlan" \in Steps
    BY <1>2, <2>1 DEF RequestFits, Steps
  <2> QED
    BY <1>4, <2>1, <2>2
<1>18. CASE LoadFails(c) \/ MoveToCandidate(c) \/ MoveToFirstTrade(c) \/ RecordPlan(c)
  BY <1>3, <1>18 DEF LoadFails, MoveToCandidate, MoveToFirstTrade, RecordPlan
<1> QED
  BY <1>6, <1>7, <1>8, <1>9, <1>10, <1>11, <1>12, <1>13, <1>14, <1>15, <1>16, <1>17, <1>18
  DEF RequestStep

LEMMA RequestStepKeepsEngineTypes ==
  ASSUME TypeInv, NEW c \in Clients, RequestStep(c)
  PROVE  EngineTypeOK'
<1> DEFINE q == request[c]
<1>1. /\ EngineTypeOK
      /\ q \in [at : Steps, kind : Kinds, plan : Plans \cup {None},
                session : Sessions \cup {None}, run : Runs \cup {None}, point : Nat]
      /\ RequestFits(q)
  BY DEF TypeInv, TypeOK, RequestTypes, RequestsFit
<1>2. CASE UNCHANGED engineVars
  BY <1>1, <1>2 DEF EngineTypeOK, engineVars, positionVars, blindVars, planVars, Last
<1>3. CASE LoadBegins(c) \/ LoadFinishes(c) \/ LoadFails(c)
  <2>1. q.at \in {"load", "loading"}
    BY <1>3 DEF LoadBegins, LoadFinishes, LoadFails, At
  <2>2. q.session \in Sessions
    BY <1>1, <2>1 DEF RequestFits
  <2>3. BeginLoad(q.session) \/ FinishLoad(q.session) \/ SwapFails(q.session) \/ FailLoad \/ UNCHANGED engineVars
    BY <1>3 DEF LoadBegins, LoadFinishes, LoadFails
  <2> QED
    BY <1>1, <1>2, <2>2, <2>3, LoadKeepsTypes
<1>4. CASE Configure(c)
  <2>1. q.plan \in Plans
    BY <1>1, <1>4 DEF Configure, At, RequestFits
  <2>2. ConfigureBlind(PlanMode[q.plan], q.plan, q.run)
    BY <1>4 DEF Configure
  <2>3. PlanMode[q.plan] \in Modes /\ q.run \in Runs \cup {None}
    BY <1>1, <2>1
  <2> QED
    BY <1>1, <2>1, <2>2, <2>3, BlindKeepsTypes
<1>5. CASE ExitEngine(c)
  BY <1>1, <1>5, BlindKeepsTypes DEF ExitEngine, ExitBlind, Modes
<1>6. CASE RecordPlan(c)
  BY <1>1, <1>6, BlindKeepsTypes DEF RecordPlan
<1>7. CASE MoveToCandidate(c)
  BY <1>1, <1>2, <1>7, CandidateKeepsTypes DEF MoveToCandidate
<1>8. CASE MoveToFirstTrade(c)
  <2>1. AdvanceToTrade(0) /\ Moves /\ playing' = playing
    BY <1>8 DEF MoveToFirstTrade, JumpToFirstTrade
  <2>2. 0 \in 0..Last /\ playing \in BOOLEAN
    BY <1>1 DEF EngineTypeOK, Last
  <2> QED
    BY <1>1, <2>1, <2>2, TradeKeepsTypes
<1>9. CASE \/ SelectStart(c) \/ StartRun(c) \/ SelectRun(c) \/ SelectExit(c) \/ ExitRun(c)
           \/ SelectActivate(c) \/ ActivatePlan(c) \/ SaveTrade(c)
  BY <1>2, <1>9 DEF SelectStart, StartRun, SelectRun, SelectExit, ExitRun, SelectActivate,
    ActivatePlan, SaveTrade
<1> QED
  BY <1>3, <1>4, <1>5, <1>6, <1>7, <1>8, <1>9 DEF RequestStep

LEMMA PausedIsTyped ==
  ASSUME DbTypes, NEW run \in Runs \cup {None}
  PROVE  /\ Paused(runs, run) \in [Runs -> [status : RunStatuses, plan : Plans \cup {None},
                                           session : Sessions \cup {None}]]
         /\ \A r \in Runs :
              Paused(runs, run)[r].status =
                IF r = run /\ runs[r].status = "ACTIVE" THEN "PAUSED" ELSE runs[r].status
         /\ \A r \in Runs : Paused(runs, run)[r].plan = runs[r].plan
<1>1. runs \in [Runs -> [status : RunStatuses, plan : Plans \cup {None},
                        session : Sessions \cup {None}]]
  BY DEF DbTypes
<1>2. "PAUSED" \in RunStatuses
  BY DEF RunStatuses
<1>3. CASE run # None /\ runs[run].status = "ACTIVE"
  <2>1. Paused(runs, run) = [runs EXCEPT ![run].status = "PAUSED"] /\ run \in Runs
    BY <1>3 DEF Paused
  <2> QED
    BY <1>1, <1>2, <1>3, <2>1
<1>4. CASE ~(run # None /\ runs[run].status = "ACTIVE")
  <2>1. Paused(runs, run) = runs
    BY <1>4 DEF Paused
  <2> QED
    BY <1>1, <1>4, <2>1
<1> QED
  BY <1>3, <1>4

LEMMA RequestStepKeepsDbTypes ==
  ASSUME TypeInv, NEW c \in Clients, RequestStep(c)
  PROVE  DbTypes'
<1> DEFINE q == request[c]
           Row == [status : RunStatuses, plan : Plans \cup {None}, session : Sessions \cup {None}]
<1>1. /\ DbTypes
      /\ q \in [at : Steps, kind : Kinds, plan : Plans \cup {None},
                session : Sessions \cup {None}, run : Runs \cup {None}, point : Nat]
      /\ RequestFits(q)
  BY DEF TypeInv, TypeOK, RequestTypes, RequestsFit
<1>2. CASE UNCHANGED dbVars
  BY <1>1, <1>2 DEF DbTypes, dbVars, runVars
<1>3. runs \in [Runs -> Row]
  BY <1>1 DEF DbTypes
<1>4. CASE StartRun(c)
  <2>1. PICK r \in Runs :
          /\ runs' = [Paused(runs, q.run) EXCEPT ![r] =
                       [status |-> "ACTIVE", plan |-> q.plan, session |-> q.session]]
          /\ activeRun' = r
    BY <1>4 DEF StartRun
  <2>2. [status |-> "ACTIVE", plan |-> q.plan, session |-> q.session] \in Row
    BY <1>1 DEF RunStatuses
  <2>3. Paused(runs, q.run) \in [Runs -> Row]
    BY <1>1, PausedIsTyped
  <2> HIDE DEF Row
  <2>4. runs' \in [Runs -> Row]
    BY <2>1, <2>2, <2>3
  <2>5. UNCHANGED <<created, activePlan, trades>>
    BY <1>4 DEF StartRun
  <2> QED
    BY <1>1, <2>1, <2>4, <2>5 DEF DbTypes, Row
<1>5. CASE ExitRun(c)
  <2>1. q.run \in Runs
    BY <1>1, <1>5 DEF ExitRun, At, RequestFits
  <2>2. runs' = [runs EXCEPT ![q.run].status = "EXITED"]
    BY <1>5 DEF ExitRun
  <2>3. runs' \in [Runs -> Row]
    BY <1>3, <2>1, <2>2 DEF RunStatuses
  <2>4. activeRun' = None /\ UNCHANGED <<created, activePlan, trades>>
    BY <1>5 DEF ExitRun
  <2> QED
    BY <1>1, <2>3, <2>4 DEF DbTypes
<1>6. CASE ActivatePlan(c)
  <2>1. runs' = Paused(runs, q.run) /\ activePlan' = q.plan /\ activeRun' = None
        /\ UNCHANGED <<created, trades>>
    BY <1>6 DEF ActivatePlan
  <2>2. runs' \in [Runs -> Row]
    BY <1>1, <2>1, PausedIsTyped
  <2> QED
    BY <1>1, <2>1, <2>2 DEF DbTypes
<1>7. CASE SaveTrade(c)
  <2>1. PICK t \in Trades :
          trades' = [trades EXCEPT ![t] = [plan |-> q.plan, session |-> q.session,
                                           group |-> q.point]]
    BY <1>7 DEF SaveTrade
  <2>2. UNCHANGED <<created, runVars>>
    BY <1>7 DEF SaveTrade
  <2> QED
    BY <1>1, <2>1, <2>2 DEF DbTypes, runVars
<1>8. CASE \/ LoadBegins(c) \/ LoadFinishes(c) \/ LoadFails(c) \/ SelectStart(c)
           \/ SelectRun(c) \/ Configure(c) \/ MoveToCandidate(c) \/ MoveToFirstTrade(c)
           \/ SelectExit(c) \/ SelectActivate(c) \/ ExitEngine(c) \/ RecordPlan(c)
  BY <1>2, <1>8 DEF LoadBegins, LoadFinishes, LoadFails, SelectStart, SelectRun, Configure,
    MoveToCandidate, MoveToFirstTrade, SelectExit, SelectActivate, ExitEngine, RecordPlan
<1> QED
  BY <1>4, <1>5, <1>6, <1>7, <1>8 DEF RequestStep
-----------------------------------------------------------------------------
\* Only start-up changes rows outside of a request's steps.
LEMMA InterruptedRuns ==
  ASSUME TypeInv, InterruptRun
  PROVE  /\ DbTypes' /\ activeRun' = None
         /\ \A r \in Runs : runs'[r].status =
              IF r = activeRun THEN "INTERRUPTED" ELSE runs[r].status
<1>1. /\ DbTypes
      /\ activeRun \in Runs \cup {None}
      /\ runs \in [Runs -> [status : RunStatuses, plan : Plans \cup {None},
                            session : Sessions \cup {None}]]
  BY DEF TypeInv, TypeOK, DbTypes
<1>2. activeRun' = None /\ UNCHANGED <<created, activePlan, trades>>
  BY DEF InterruptRun
<1>3. CASE activeRun = None
  <2>1. runs' = runs
    BY <1>3 DEF InterruptRun
  <2> QED
    BY <1>1, <1>2, <1>3, <2>1 DEF DbTypes
<1>4. CASE activeRun # None
  <2>1. runs' = [runs EXCEPT ![activeRun].status = "INTERRUPTED"]
    BY <1>4 DEF InterruptRun
  <2>2. runs' \in [Runs -> [status : RunStatuses, plan : Plans \cup {None},
                           session : Sessions \cup {None}]]
    BY <1>1, <1>4, <2>1 DEF RunStatuses
  <2> QED
    BY <1>1, <1>2, <1>4, <2>1, <2>2 DEF DbTypes
<1> QED
  BY <1>3, <1>4

LEMMA InitHasTypes == Init => TypeInv
<1> SUFFICES ASSUME Init PROVE TypeInv
  OBVIOUS
<1>1. EngineTypeOK
  <2>1. EngineInit
    BY DEF Init
  <2>2. FirstFrame \in FrameSizes /\ Last = 0
    BY <2>1 DEF EngineInit, Last
  <2>3. /\ session \in Sessions \cup {None} /\ groupCursor \in 0..Last
        /\ groupsPerFrame \in FrameSizes /\ loading \in Sessions \cup {None}
    BY <2>1, <2>2 DEF EngineInit
  <2>4. /\ blindMode \in Modes /\ blindPlan \in Plans \cup {None}
        /\ blindRun \in Runs \cup {None} /\ tradePlans \subseteq Nat
    BY <2>1 DEF EngineInit, Modes
  <2>5. playing \in BOOLEAN /\ pendingTradePlan \in BOOLEAN
    BY <2>1 DEF EngineInit
  <2> QED
    BY <2>3, <2>4, <2>5 DEF EngineTypeOK
<1>2. RequestTypes /\ up \in BOOLEAN
  BY DEF Init, RequestTypes, Idle, Steps, Kinds
<1>3. RequestsFit
  BY DEF Init, RequestsFit, RequestFits, Idle
<1>4. DbTypes
  BY DEF Init, DbTypes, RunStatuses, NoTrade
<1> QED
  BY <1>1, <1>2, <1>3, <1>4 DEF TypeInv, TypeOK

LEMMA StepKeepsTypes == TypeInv /\ [Next]_vars => TypeInv'
<1> SUFFICES ASSUME TypeInv, [Next]_vars PROVE TypeInv'
  OBVIOUS
<1>1. EngineTypeOK /\ RequestOK /\ DbTypes
  BY DEF TypeInv, TypeOK, RequestOK
<1>2. SUFFICES EngineTypeOK' /\ RequestOK' /\ DbTypes'
  BY DEF TypeInv, TypeOK, RequestOK
<1>3. CASE \E c \in Clients : Arrival(c)
  BY <1>3, ArrivalIsFit
<1>4. CASE \E c \in Clients : RequestStep(c)
  BY <1>4, RequestStepIsFit, RequestStepKeepsEngineTypes, RequestStepKeepsDbTypes
<1>5. CASE \E c \in Clients : ControlReplay(c)
  <2>1. EngineTypeOK'
    BY <1>1, <1>5, ControlKeepsTypes DEF ControlReplay
  <2> QED
    BY <1>1, <1>5, <2>1 DEF ControlReplay, RequestOK, RequestTypes, RequestsFit, RequestFits,
      DbTypes, dbVars, runVars
<1>6. CASE ReplayLoop
  <2>1. EngineTypeOK'
    BY <1>1, <1>6, FrameKeepsTypes DEF ReplayLoop
  <2> QED
    BY <1>1, <1>6, <2>1 DEF ReplayLoop, RequestOK, RequestTypes, RequestsFit, RequestFits,
      DbTypes, dbVars, runVars
<1>7. CASE Crash
  <2>1. EngineTypeOK'
    <3>1. EngineStops
      BY <1>7 DEF Crash
    <3>2. FirstFrame \in FrameSizes /\ Last' = 0
      BY <3>1 DEF EngineStops, Last
    <3>3. /\ (session \in Sessions \cup {None} /\ groupCursor \in 0..Last)'
          /\ (groupsPerFrame \in FrameSizes /\ loading \in Sessions \cup {None})'
      BY <3>1, <3>2 DEF EngineStops
    <3>4. /\ (blindMode \in Modes /\ blindPlan \in Plans \cup {None})'
          /\ (blindRun \in Runs \cup {None} /\ tradePlans \subseteq Nat)'
      BY <3>1 DEF EngineStops, Modes
    <3>5. (playing \in BOOLEAN /\ pendingTradePlan \in BOOLEAN)'
      BY <3>1 DEF EngineStops
    <3> QED
      BY <3>3, <3>4, <3>5 DEF EngineTypeOK
  <2>2. RequestOK'
    BY <1>7 DEF Crash, RequestOK, RequestTypes, RequestsFit, RequestFits, Idle, Steps, Kinds
  <2>3. DbTypes'
    BY <1>1, <1>7 DEF Crash, DbTypes, dbVars, runVars
  <2> QED
    BY <2>1, <2>2, <2>3
<1>8. CASE StartUp
  <2>1. EngineTypeOK'
    <3>1. CASE UNCHANGED engineVars
      BY <1>1, <3>1 DEF EngineTypeOK, engineVars, positionVars, blindVars, planVars, Last
    <3>2. CASE \E s \in Sessions : FinishLoad(s)
      BY <1>1, <3>2, LoadKeepsTypes
    <3> QED
      BY <1>8, <3>1, <3>2 DEF StartUp
  <2>2. RequestOK'
    BY <1>1, <1>8 DEF StartUp, InterruptRun, RequestOK, RequestTypes, RequestsFit, RequestFits
  <2>3. InterruptRun
    BY <1>8 DEF StartUp
  <2> QED
    BY <2>1, <2>2, <2>3, InterruptedRuns
<1>10. CASE StartUpFails
  <2>1. EngineTypeOK'
    BY <1>1, <1>10 DEF StartUpFails, EngineTypeOK, engineVars, positionVars, blindVars, planVars, Last
  <2>2. RequestOK'
    BY <1>1, <1>10 DEF StartUpFails, InterruptRun, RequestOK, RequestTypes, RequestsFit, RequestFits
  <2>3. InterruptRun
    BY <1>10 DEF StartUpFails
  <2> QED
    BY <2>1, <2>2, <2>3, InterruptedRuns
<1>9. CASE UNCHANGED vars
  <2>1. EngineTypeOK'
    BY <1>1, <1>9 DEF vars, EngineTypeOK, engineVars, positionVars, blindVars, planVars, Last
  <2> QED
    BY <1>1, <1>9, <2>1 DEF vars, RequestOK, RequestTypes, RequestsFit, RequestFits,
      DbTypes, dbVars, runVars
<1> QED
  BY <1>3, <1>4, <1>5, <1>6, <1>7, <1>8, <1>9, <1>10 DEF Next

(* Type correctness of the engine, the requests and the rows (replay.py,   *)
(* backtest_protocol.py), for any sessions and plans and any number of     *)
(* requests at once: the cursor stays within the loaded session.           *)
THEOREM TypeCorrect == Spec => []TypeOK
<1>1. TypeInv => TypeOK
  BY DEF TypeInv
<1> QED
  BY <1>1, InitHasTypes, StepKeepsTypes, PTL DEF Spec
-----------------------------------------------------------------------------
(***************************************************************************)
(* Agreement of engine and database, with one client                       *)
(***************************************************************************)

\* A run is ACTIVE exactly when application_state names it.
OneRunActive == \A r \in Runs : runs[r].status = "ACTIVE" <=> r = activeRun
RunIsOwned == activeRun # None => runs[activeRun].plan = activePlan

\* Where a request has moved one side but not yet the other.
EngineFollows(c) ==
  request[c].at \notin {"configure", "exitEngine"} => blindRun = activeRun

\* What the request has read is still so when it writes.
StillKnows(c) ==
  /\ request[c].at \in {"start", "exit", "activate", "configure"} => request[c].run = activeRun
  /\ request[c].at = "start" => request[c].plan = activePlan
  /\ request[c].at = "exitEngine" => activeRun = None

NothingRuns(c) == blindRun = None /\ request[c].at = "idle"

Agreement(c) ==
  /\ OneRunActive /\ RunIsOwned
  /\ IF up THEN EngineFollows(c) /\ StillKnows(c) ELSE NothingRuns(c)

\* The request after each kind of step.
LEMMA AfterStep ==
  ASSUME TypeInv, NEW c \in Clients, NEW step, NEW run
  PROVE  /\ Return(c) => request'[c].at = "idle" /\ up' = up
         /\ Goto(c, step) => /\ request'[c].at = step /\ request'[c].run = request[c].run
                             /\ request'[c].plan = request[c].plan /\ up' = up
         /\ GotoWith(c, step, run) =>
              /\ request'[c].at = step /\ request'[c].run = run
              /\ request'[c].plan = request[c].plan /\ up' = up
<1>1. request \in [Clients -> [at : Steps, kind : Kinds, plan : Plans \cup {None},
        session : Sessions \cup {None}, run : Runs \cup {None}, point : Nat]]
  BY DEF TypeInv, TypeOK, RequestTypes
<1>2. Return(c) => request'[c].at = "idle" /\ up' = up
  BY <1>1 DEF Return, Idle
<1>3. Goto(c, step) => /\ request'[c].at = step /\ request'[c].run = request[c].run
                      /\ request'[c].plan = request[c].plan /\ up' = up
  BY <1>1 DEF Goto
<1>4. GotoWith(c, step, run) =>
        /\ request'[c].at = step /\ request'[c].run = run
        /\ request'[c].plan = request[c].plan /\ up' = up
  BY <1>1 DEF GotoWith
<1> QED
  BY <1>2, <1>3, <1>4

LEMMA AfterBegin ==
  ASSUME TypeInv, NEW c \in Clients, Arrival(c)
  PROVE  /\ request[c].at = "idle" /\ up /\ up' = up /\ UNCHANGED <<blindRun, runVars>>
         /\ request'[c].at \in {"load", "selectExit", "selectActivate", "selectRun", "move",
                                "firstTrade", "saveTrade"}
<1>1. request \in [Clients -> [at : Steps, kind : Kinds, plan : Plans \cup {None},
        session : Sessions \cup {None}, run : Runs \cup {None}, point : Nat]]
  BY DEF TypeInv, TypeOK, RequestTypes
<1>2. \A kind, step, plan, of, point : Begin(c, kind, step, plan, of, point) =>
        /\ request[c].at = "idle" /\ up /\ up' = up /\ blindRun' = blindRun
        /\ request'[c].at = step
  BY <1>1 DEF Begin, At, engineVars, blindVars
<1>3. UNCHANGED runVars
  BY DEF Arrival, RequestLoad, RequestStart, RequestCandidate, RequestCreate, RequestExit,
    RequestJump, RequestTrade, dbVars
<1>4. \E kind, step, plan, of, point :
        /\ Begin(c, kind, step, plan, of, point)
        /\ step \in {"load", "selectExit", "selectActivate", "selectRun", "move",
                    "firstTrade", "saveTrade"}
  BY Zenon DEF Arrival, RequestLoad, RequestStart, RequestCandidate, RequestCreate, RequestExit,
    RequestJump, RequestTrade
<1> QED
  BY <1>2, <1>3, <1>4

\* A step that leaves the rows and the engine's run alone.
LEMMA QuietStep ==
  ASSUME NEW c \in Clients, Agreement(c), up, up',
         UNCHANGED <<blindRun, runVars>>,
         EngineFollows(c), request'[c].at \notin {"start", "exit", "activate", "exitEngine"},
         blindRun = activeRun,
         request'[c].at = "configure" => request'[c].run = activeRun
  PROVE  Agreement(c)'
BY DEF Agreement, OneRunActive, RunIsOwned, EngineFollows, StillKnows, runVars

\* Such a step within a request that is not moving one side alone.
LEMMA QuietMove ==
  ASSUME TypeInv, NEW c \in Clients, Agreement(c), up, UNCHANGED <<blindRun, runVars>>,
         request[c].at \notin {"configure", "exitEngine"},
         \/ Return(c)
         \/ \E step \in {"loading", "selectStart", "selectRun", "recordPlan"} : Goto(c, step)
  PROVE  Agreement(c)'
<1>1. EngineFollows(c) /\ blindRun = activeRun
  BY DEF Agreement, EngineFollows
<1>2. up' /\ request'[c].at \in {"idle", "loading", "selectStart", "selectRun", "recordPlan"}
  <2>1. CASE Return(c)
    BY <2>1, AfterStep
  <2>2. CASE \E step \in {"loading", "selectStart", "selectRun", "recordPlan"} : Goto(c, step)
    <3>1. PICK step \in {"loading", "selectStart", "selectRun", "recordPlan"} : Goto(c, step)
      BY <2>2
    <3> QED
      BY <3>1, AfterStep
  <2> QED
    BY <2>1, <2>2
<1>3. request'[c].at \notin {"start", "exit", "activate", "exitEngine", "configure"}
  BY <1>2
<1> QED
  BY <1>1, <1>2, <1>3, QuietStep

LEMMA RequestStepKeepsAgreement ==
  ASSUME TypeInv, NEW c \in Clients, Agreement(c), RequestStep(c)
  PROVE  Agreement(c)'
<1> DEFINE q == request[c]
<1>1. /\ up /\ EngineFollows(c) /\ StillKnows(c) /\ OneRunActive /\ RunIsOwned
  BY DEF RequestStep, LoadBegins, LoadFinishes, LoadFails, SelectStart, StartRun, SelectRun,
    Configure, MoveToCandidate, MoveToFirstTrade, SelectExit, ExitRun, SelectActivate,
    ActivatePlan, ExitEngine, SaveTrade, RecordPlan, At, Agreement
<1>2. /\ DbTypes /\ RequestFits(q) /\ activeRun \in Runs \cup {None} /\ q.run \in Runs \cup {None}
      /\ runs \in [Runs -> [status : RunStatuses, plan : Plans \cup {None},
                            session : Sessions \cup {None}]]
      /\ request \in [Clients -> [at : Steps, kind : Kinds, plan : Plans \cup {None},
           session : Sessions \cup {None}, run : Runs \cup {None}, point : Nat]]
  BY DEF TypeInv, TypeOK, RequestTypes, RequestsFit, DbTypes
<1>3. CASE LoadBegins(c)
  <2>1. /\ UNCHANGED <<blindRun, runVars>> /\ q.at = "load"
        /\ Return(c) \/ Goto(c, "loading")
    BY <1>3 DEF LoadBegins, BeginLoad, At, engineVars, blindVars, dbVars
  <2> QED
    BY <1>1, <2>1, QuietMove
<1>4. CASE LoadFinishes(c)
  <2>1. /\ UNCHANGED <<blindRun, runVars>> /\ q.at = "loading"
        /\ Return(c) \/ Goto(c, "selectStart") \/ Goto(c, "selectRun")
    BY <1>4 DEF LoadFinishes, FinishLoad, At, blindVars, dbVars
  <2> QED
    BY <1>1, <2>1, QuietMove
<1>5. CASE LoadFails(c)
  <2>1. UNCHANGED <<blindRun, runVars>> /\ q.at = "loading" /\ Return(c)
    BY <1>5 DEF LoadFails, FailLoad, SwapFails, FinishLoad, At, blindVars, dbVars
  <2> QED
    BY <1>1, <2>1, QuietMove
<1>6. CASE SelectStart(c)
  <2>1. /\ UNCHANGED <<blindRun, runVars>> /\ q.at = "selectStart"
        /\ Return(c) \/ (GotoWith(c, "start", activeRun) /\ activePlan = q.plan)
    BY <1>6 DEF SelectStart, At, engineVars, blindVars, dbVars
  <2>2. CASE Return(c)
    BY <1>1, <2>1, <2>2, QuietMove
  <2>3. CASE GotoWith(c, "start", activeRun) /\ activePlan = q.plan
    <3>1. /\ request'[c].at = "start" /\ request'[c].run = activeRun
          /\ request'[c].plan = activePlan /\ up'
      <4>1. /\ request'[c].at = "start" /\ request'[c].run = activeRun
            /\ request'[c].plan = q.plan /\ up' = up
        BY ONLY TypeInv, c \in Clients, <2>3, AfterStep
      <4> QED
        BY ONLY <1>1, <2>3, <4>1
    <3> QED
      BY <1>1, <2>1, <3>1 DEF Agreement, OneRunActive, RunIsOwned, EngineFollows, StillKnows,
        runVars
  <2> QED
    BY <2>1, <2>2, <2>3
<1>7. CASE StartRun(c)
  <2>1. PICK r \in Runs :
          /\ runs[r].status = "unused" /\ activeRun' = r
          /\ runs' = [Paused(runs, q.run) EXCEPT ![r] =
                       [status |-> "ACTIVE", plan |-> q.plan, session |-> q.session]]
          /\ GotoWith(c, "configure", r)
    BY <1>7 DEF StartRun
  <2>2. q.run = activeRun /\ q.plan = activePlan /\ activePlan' = activePlan
    BY <1>1, <1>7 DEF StartRun, At, StillKnows
  <2>3. request'[c].at = "configure" /\ request'[c].run = r /\ up'
    BY ONLY TypeInv, c \in Clients, <1>1, <2>1, AfterStep
  <2>4. \A x \in Runs : Paused(runs, q.run)[x].status # "ACTIVE"
    <3>1. \A x \in Runs : Paused(runs, q.run)[x].status =
            IF x = q.run /\ runs[x].status = "ACTIVE" THEN "PAUSED" ELSE runs[x].status
      BY ONLY <1>2, PausedIsTyped
    <3>2. \A x \in Runs : runs[x].status = "ACTIVE" <=> x = q.run
      BY ONLY <1>1, <2>2 DEF OneRunActive
    <3> QED
      BY ONLY <3>1, <3>2
  <2>5. \A x \in Runs : runs'[x].status = "ACTIVE" <=> x = r
    BY <1>2, <2>1, <2>4, PausedIsTyped
  <2>6. runs'[r].plan = q.plan
    BY <1>2, <2>1, PausedIsTyped
  <2> QED
    BY <2>1, <2>2, <2>3, <2>5, <2>6
    DEF Agreement, OneRunActive, RunIsOwned, EngineFollows, StillKnows
<1>8. CASE SelectRun(c)
  <2>1. UNCHANGED <<blindRun, runVars>> /\ q.at = "selectRun" /\ GotoWith(c, "configure", activeRun)
    BY <1>8 DEF SelectRun, At, engineVars, blindVars, dbVars
  <2>2. request'[c].at = "configure" /\ request'[c].run = activeRun /\ up'
    BY <1>1, <1>2, <2>1 DEF GotoWith
  <2>3. blindRun = activeRun
    BY <1>1, <2>1 DEF EngineFollows
  <2> QED
    BY <1>1, <2>1, <2>2, <2>3, QuietStep
<1>9. CASE Configure(c)
  <2>1. /\ UNCHANGED runVars /\ blindRun' = q.run /\ q.at = "configure"
        /\ Return(c) \/ Goto(c, "move")
    BY <1>9 DEF Configure, ConfigureBlind, At, dbVars
  <2>2. q.run = activeRun
    BY <1>1, <2>1 DEF StillKnows
  <2>3. request'[c].at \in {"idle", "move"} /\ up'
    BY ONLY TypeInv, c \in Clients, <1>1, <2>1, AfterStep
  <2>4. OneRunActive' /\ RunIsOwned'
    BY ONLY <1>1, <2>1, <2>2, <2>3 DEF OneRunActive, RunIsOwned, runVars
  <2>5. EngineFollows(c)'
    BY ONLY <1>1, <2>1, <2>2, <2>3 DEF EngineFollows, runVars
  <2>6. StillKnows(c)'
    BY ONLY <1>1, <2>1, <2>2, <2>3 DEF StillKnows, runVars
  <2> QED
    BY ONLY <1>1, <2>1, <2>2, <2>3, <2>4, <2>5, <2>6 DEF Agreement
<1>10. CASE MoveToCandidate(c) \/ MoveToFirstTrade(c)
  <2>1. UNCHANGED <<blindRun, runVars>> /\ q.at \in {"move", "firstTrade"} /\ Return(c)
    BY <1>10 DEF MoveToCandidate, MoveToFirstTrade, JumpToCandidate, JumpToFirstTrade, Moves, At,
      engineVars, blindVars, dbVars
  <2> QED
    BY <1>1, <2>1, QuietMove
<1>11. CASE SelectExit(c)
  <2>1. /\ UNCHANGED <<blindRun, runVars>> /\ q.at = "selectExit"
        /\ \/ activeRun = None /\ Goto(c, "exitEngine")
           \/ activeRun # None /\ GotoWith(c, "exit", activeRun)
    BY <1>11 DEF SelectExit, At, engineVars, blindVars, dbVars
  <2>2. CASE activeRun = None /\ Goto(c, "exitEngine")
    <3>1. request'[c].at = "exitEngine" /\ up'
      BY ONLY TypeInv, c \in Clients, <1>1, <2>2, AfterStep
    <3>2. OneRunActive' /\ RunIsOwned'
      BY ONLY <1>1, <2>1, <2>2, <3>1 DEF OneRunActive, RunIsOwned, runVars
    <3>3. EngineFollows(c)'
      BY ONLY <1>1, <2>1, <2>2, <3>1 DEF EngineFollows, runVars
    <3>4. StillKnows(c)'
      BY ONLY <1>1, <2>1, <2>2, <3>1 DEF StillKnows, runVars
    <3> QED
      BY ONLY <1>1, <2>1, <2>2, <3>1, <3>2, <3>3, <3>4 DEF Agreement
  <2>3. CASE activeRun # None /\ GotoWith(c, "exit", activeRun)
    <3>1. request'[c].at = "exit" /\ request'[c].run = activeRun /\ up'
      <4>1. request'[c].at = "exit" /\ request'[c].run = activeRun /\ up' = up
        BY ONLY TypeInv, c \in Clients, <2>3, AfterStep
      <4> QED
        BY ONLY <1>1, <4>1
    <3>2. OneRunActive' /\ RunIsOwned'
      BY ONLY <1>1, <2>1, <3>1 DEF OneRunActive, RunIsOwned, runVars
    <3>3. EngineFollows(c)'
      BY ONLY <1>1, <2>1, <3>1 DEF EngineFollows, runVars
    <3>4. StillKnows(c)'
      BY ONLY <1>1, <2>1, <3>1 DEF StillKnows, runVars
    <3> QED
      BY ONLY <1>1, <2>1, <3>1, <3>2, <3>3, <3>4 DEF Agreement
  <2> QED
    BY <2>1, <2>2, <2>3
<1>12. CASE ExitRun(c)
  <2>1. /\ runs' = [runs EXCEPT ![q.run].status = "EXITED"] /\ activeRun' = None
        /\ activePlan' = activePlan /\ q.at = "exit" /\ Goto(c, "exitEngine")
    BY <1>12 DEF ExitRun, At
  <2>2. q.run = activeRun /\ q.run \in Runs
    BY <1>1, <1>2, <2>1 DEF StillKnows, RequestFits
  <2>3. \A x \in Runs : runs'[x].status # "ACTIVE" /\ x # None
    BY <1>1, <1>2, <2>1, <2>2 DEF OneRunActive
  <2>4. request'[c].at = "exitEngine" /\ up'
    BY ONLY TypeInv, c \in Clients, <1>1, <2>1, AfterStep
  <2> QED
    BY <2>1, <2>3, <2>4 DEF Agreement, OneRunActive, RunIsOwned, EngineFollows, StillKnows
<1>13. CASE SelectActivate(c)
  <2>1. /\ UNCHANGED <<blindRun, runVars>> /\ q.at = "selectActivate"
        /\ GotoWith(c, "activate", activeRun)
    BY <1>13 DEF SelectActivate, At, engineVars, blindVars, dbVars
  <2>2. request'[c].at = "activate" /\ request'[c].run = activeRun /\ up'
    BY <1>1, <1>2, <2>1 DEF GotoWith
  <2>3. OneRunActive' /\ RunIsOwned'
    BY ONLY <1>1, <2>1, <2>2 DEF OneRunActive, RunIsOwned, runVars
  <2>4. EngineFollows(c)'
    BY ONLY <1>1, <2>1, <2>2 DEF EngineFollows, runVars
  <2>5. StillKnows(c)'
    BY ONLY <1>1, <2>1, <2>2 DEF StillKnows, runVars
  <2> QED
    BY ONLY <1>1, <2>1, <2>2, <2>3, <2>4, <2>5 DEF Agreement
<1>14. CASE ActivatePlan(c)
  <2>1. /\ runs' = Paused(runs, q.run) /\ activeRun' = None
        /\ q.at = "activate" /\ Goto(c, "exitEngine")
    BY <1>14 DEF ActivatePlan, At
  <2>2. q.run = activeRun
    BY <1>1, <2>1 DEF StillKnows
  <2>3. \A x \in Runs : runs'[x].status # "ACTIVE" /\ x # None
    BY <1>1, <1>2, <2>1, <2>2, PausedIsTyped DEF OneRunActive
  <2>4. request'[c].at = "exitEngine" /\ up'
    BY ONLY TypeInv, c \in Clients, <1>1, <2>1, AfterStep
  <2> QED
    BY <2>1, <2>3, <2>4 DEF Agreement, OneRunActive, RunIsOwned, EngineFollows, StillKnows
<1>15. CASE ExitEngine(c)
  <2>1. /\ UNCHANGED runVars /\ blindRun' = None /\ q.at = "exitEngine"
        /\ Return(c) \/ Goto(c, "load")
    BY <1>15 DEF ExitEngine, ExitBlind, ConfigureBlind, At, dbVars
  <2>2. activeRun = None
    BY <1>1, <2>1 DEF StillKnows
  <2>3. request'[c].at \in {"idle", "load"} /\ up'
    BY ONLY TypeInv, c \in Clients, <1>1, <2>1, AfterStep
  <2>4. OneRunActive' /\ RunIsOwned'
    BY ONLY <1>1, <2>1, <2>2, <2>3 DEF OneRunActive, RunIsOwned, runVars
  <2>5. EngineFollows(c)'
    BY ONLY <1>1, <2>1, <2>2, <2>3 DEF EngineFollows, runVars
  <2>6. StillKnows(c)'
    BY ONLY <1>1, <2>1, <2>2, <2>3 DEF StillKnows, runVars
  <2> QED
    BY ONLY <1>1, <2>1, <2>2, <2>3, <2>4, <2>5, <2>6 DEF Agreement
<1>16. CASE SaveTrade(c)
  <2>1. UNCHANGED <<blindRun, runVars>> /\ q.at = "saveTrade" /\ Goto(c, "recordPlan")
    BY <1>16 DEF SaveTrade, At, engineVars, blindVars
  <2> QED
    BY <1>1, <2>1, QuietMove
<1>17. CASE RecordPlan(c)
  <2>1. UNCHANGED <<blindRun, runVars>> /\ q.at = "recordPlan" /\ Return(c)
    BY <1>17 DEF RecordPlan, RecordTradePlan, At, blindVars, dbVars
  <2> QED
    BY <1>1, <2>1, QuietMove
<1> QED
  BY <1>3, <1>4, <1>5, <1>6, <1>7, <1>8, <1>9, <1>10, <1>11, <1>12, <1>13, <1>14, <1>15, <1>16,
    <1>17 DEF RequestStep

\* What no request does leaves the requests and the rows alone, but at
\* start-up.
LEMMA OtherStepKeepsAgreement ==
  ASSUME TypeInv, NEW c \in Clients, Agreement(c),
         \/ \E d \in Clients : ControlReplay(d)
         \/ ReplayLoop \/ Crash \/ StartUp \/ StartUpFails \/ UNCHANGED vars
  PROVE  Agreement(c)'
<1>1. CASE \/ \E d \in Clients : ControlReplay(d)
           \/ ReplayLoop \/ UNCHANGED vars
  <2>1. UNCHANGED <<up, request, blindRun, runVars>>
    <3>1. CASE \E d \in Clients : ControlReplay(d)
      BY <3>1 DEF ControlReplay, Control, Reset, StepGroup, StepTrade, SetSpeed, Play, Pause, Seek,
        Halt, Moves, blindVars, dbVars
    <3>2. CASE ReplayLoop
      BY <3>2 DEF ReplayLoop, Frame, Halt, Moves, blindVars, dbVars
    <3>3. CASE UNCHANGED vars
      BY <3>3 DEF vars, engineVars, blindVars, dbVars
    <3> QED
      BY <1>1, <3>1, <3>2, <3>3
  <2> QED
    BY <2>1 DEF Agreement, OneRunActive, RunIsOwned, EngineFollows, StillKnows, NothingRuns,
      runVars
<1>2. CASE Crash
  <2>1. up' = FALSE /\ blindRun' = None /\ request'[c].at = "idle" /\ UNCHANGED runVars
    BY <1>2 DEF Crash, EngineStops, Idle, dbVars
  <2> QED
    BY <2>1 DEF Agreement, OneRunActive, RunIsOwned, NothingRuns, runVars
<1>3. CASE StartUp
  <2>1. ~up /\ up' = TRUE /\ blindRun' = blindRun /\ request' = request
    BY <1>3 DEF StartUp, InterruptRun, FinishLoad, engineVars, blindVars
  <2>2. activeRun' = None /\ \A r \in Runs : runs'[r].status # "ACTIVE" /\ r # None
    BY <1>3, InterruptedRuns DEF StartUp, Agreement, OneRunActive
  <2> QED
    BY <2>1, <2>2 DEF Agreement, OneRunActive, RunIsOwned, EngineFollows, StillKnows, NothingRuns
<1>4. CASE StartUpFails
  <2>1. ~up /\ up' = up /\ blindRun' = blindRun /\ request' = request
    BY <1>4 DEF StartUpFails, InterruptRun, engineVars, blindVars
  <2>2. activeRun' = None /\ \A r \in Runs : runs'[r].status # "ACTIVE" /\ r # None
    BY <1>4, InterruptedRuns DEF StartUpFails, Agreement, OneRunActive
  <2> QED
    BY <2>1, <2>2 DEF Agreement, OneRunActive, RunIsOwned, EngineFollows, StillKnows, NothingRuns
<1> QED
  BY <1>1, <1>2, <1>3, <1>4

LEMMA ArrivalKeepsAgreement ==
  ASSUME TypeInv, NEW c \in Clients, Agreement(c), Arrival(c)
  PROVE  Agreement(c)'
<1>1. up /\ EngineFollows(c) /\ blindRun = activeRun
  BY AfterBegin DEF Agreement, EngineFollows
<1>2. up' /\ UNCHANGED <<blindRun, runVars>>
  BY AfterBegin, <1>1
<1>3. request'[c].at \notin {"start", "exit", "activate", "exitEngine", "configure"}
  BY AfterBegin
<1> QED
  BY <1>1, <1>2, <1>3, QuietStep

(* The inductive invariant for one client: whatever step the request is    *)
(* at, what it has read of the rows is still so, and the engine follows    *)
(* the database but between the two calls that move them.                  *)
THEOREM InductiveInvariant ==
  ASSUME NEW me, Clients = {me}
  PROVE  Spec => [](TypeInv /\ Agreement(me))
<1>1. Init => TypeInv /\ Agreement(me)
  <2> SUFFICES ASSUME Init PROVE Agreement(me)
    BY InitHasTypes
  <2>1. ~up /\ activeRun = None /\ blindRun = None /\ request[me].at = "idle"
        /\ \A r \in Runs : runs[r].status = "unused"
    BY DEF Init, EngineInit, Idle
  <2> QED
    BY <2>1 DEF Agreement, OneRunActive, RunIsOwned, NothingRuns
<1>2. TypeInv /\ Agreement(me) /\ [Next]_vars => (TypeInv /\ Agreement(me))'
  <2> SUFFICES ASSUME TypeInv, Agreement(me), [Next]_vars PROVE Agreement(me)'
    BY StepKeepsTypes
  <2>1. me \in Clients /\ \A c \in Clients : c = me
    OBVIOUS
  <2>2. CASE \E c \in Clients : Arrival(c)
    BY <2>1, <2>2, ArrivalKeepsAgreement
  <2>3. CASE \E c \in Clients : RequestStep(c)
    BY <2>1, <2>3, RequestStepKeepsAgreement
  <2> QED
    BY <2>1, <2>2, <2>3, OtherStepKeepsAgreement DEF Next
<1> QED
  BY <1>1, <1>2, PTL DEF Spec

(* Between the requests of one client, the engine replays for the run that *)
(* the database names, for any sessions, plans, runs and crashes.          *)
THEOREM EngineAndRowsAgree ==
  ASSUME NEW me, Clients = {me}
  PROVE  Spec => []RunsAgree
<1>1. TypeInv /\ Agreement(me) => RunsAgree
  <2> SUFFICES ASSUME TypeInv, Agreement(me), Quiet PROVE RunsAgree
    BY DEF RunsAgree
  <2>1. up /\ request[me].at = "idle"
    BY DEF Quiet
  <2>2. blindRun = activeRun /\ OneRunActive /\ RunIsOwned
    BY <2>1 DEF Agreement, EngineFollows
  <2>3. activeRun \in Runs \cup {None}
    BY DEF TypeInv, TypeOK, DbTypes
  <2> QED
    BY <2>2, <2>3 DEF RunsAgree, OneRunActive, RunIsOwned
<1> QED
  BY <1>1, InductiveInvariant, PTL
-----------------------------------------------------------------------------
(***************************************************************************)
(* The runs keep RunContract, with one client                              *)
(***************************************************************************)

Past == {r \in Runs : runs[r].status \notin {"unused", "ACTIVE"}}

\* Only the requests that start, exit or replace a run, and a restart, touch
\* the runs.
LEMMA WhatMovesRuns ==
  ASSUME [Next]_vars
  PROVE  \/ UNCHANGED <<activeRun, runs>>
         \/ \E c \in Clients : StartRun(c) \/ ExitRun(c) \/ ActivatePlan(c)
         \/ InterruptRun
<1>1. CASE \E c \in Clients : Arrival(c)
  BY <1>1 DEF Arrival, RequestLoad, RequestStart, RequestCandidate, RequestCreate, RequestExit,
    RequestJump, RequestTrade, dbVars, runVars
<1>2. ASSUME NEW c \in Clients, RequestStep(c)
      PROVE  UNCHANGED <<activeRun, runs>> \/ StartRun(c) \/ ExitRun(c) \/ ActivatePlan(c)
  BY <1>2 DEF RequestStep, LoadBegins, LoadFinishes, LoadFails, SelectStart, SelectRun, Configure,
    MoveToCandidate, MoveToFirstTrade, SelectExit, SelectActivate, ExitEngine, SaveTrade,
    RecordPlan, dbVars, runVars
<1>3. CASE (\E c \in Clients : ControlReplay(c)) \/ ReplayLoop \/ Crash \/ UNCHANGED vars
  BY <1>3 DEF ControlReplay, ReplayLoop, Crash, vars, dbVars, runVars
<1> QED
  BY <1>1, <1>2, <1>3 DEF Next, StartUp, StartUpFails

\* A step that ends the run in progress, if there is one.
LEMMA Ending ==
  ASSUME TypeInv, OneRunActive, activeRun' = None,
         NEW over \in {"EXITED", "PAUSED", "INTERRUPTED"},
         \A r \in Runs : runs'[r].status = IF r = activeRun THEN over ELSE runs[r].status
  PROVE  Contract!End
<1>1. activeRun \in Runs \cup {None}
  BY DEF TypeInv, TypeOK, DbTypes
<1>2. Past' = Past \cup ({activeRun} \ {None})
  BY <1>1 DEF Past, OneRunActive
<1> QED
  BY <1>2 DEF Contract!End, Contract!WithCurrent, Past

(* The runs keep RunContract (storage.py start, exit and activate, and     *)
(* service.py's restart): one at a time, a new one ends the old one and    *)
(* none comes back, for any number of runs, plans, sessions and crashes.   *)
THEOREM Implements ==
  ASSUME NEW me, Clients = {me}
  PROVE  Spec => KeepsContract
<1>1. Init => Contract!ContractInit
  BY DEF Init, Contract!ContractInit
<1>2. TypeInv /\ Agreement(me) /\ [Next]_vars =>
        [Contract!ContractNext]_<<activeRun, Past>>
  <2> SUFFICES ASSUME TypeInv, Agreement(me), [Next]_vars
               PROVE  Contract!ContractNext \/ UNCHANGED <<activeRun, Past>>
    OBVIOUS
  <2>1. /\ me \in Clients /\ \A c \in Clients : c = me
        /\ OneRunActive /\ DbTypes /\ RequestFits(request[me])
        /\ activeRun \in Runs \cup {None} /\ request[me].run \in Runs \cup {None}
        /\ runs \in [Runs -> [status : RunStatuses, plan : Plans \cup {None},
                              session : Sessions \cup {None}]]
    BY DEF Agreement, TypeInv, TypeOK, RequestTypes, RequestsFit, DbTypes
  <2>2. CASE UNCHANGED <<activeRun, runs>>
    BY <2>2 DEF Past
  <2>3. CASE StartRun(me)
    <3>1. request[me].run = activeRun
      BY <2>3 DEF StartRun, At, Agreement, StillKnows
    <3>2. PICK r \in Runs :
            /\ runs[r].status = "unused" /\ activeRun' = r
            /\ runs' = [Paused(runs, activeRun) EXCEPT ![r] =
                 [status |-> "ACTIVE", plan |-> request[me].plan, session |-> request[me].session]]
      BY <2>3, <3>1 DEF StartRun
    <3>3. \A x \in Runs : runs'[x].status =
            IF x = r THEN "ACTIVE" ELSE IF x = activeRun THEN "PAUSED" ELSE runs[x].status
      BY <2>1, <3>2, PausedIsTyped DEF OneRunActive
    <3>4. r # activeRun /\ r # None
      BY <2>1, <3>2 DEF OneRunActive
    <3>5. r \notin Past /\ Past' = Past \cup ({activeRun} \ {None})
      BY <2>1, <3>2, <3>3, <3>4 DEF Past, OneRunActive
    <3> QED
      BY <3>2, <3>4, <3>5 DEF Contract!ContractNext, Contract!Start, Contract!WithCurrent, Past
  <2>4. CASE ExitRun(me)
    <3>1. request[me].at = "exit" /\ activeRun' = None
          /\ runs' = [runs EXCEPT ![request[me].run].status = "EXITED"]
      BY <2>4 DEF ExitRun, At
    <3>2. request[me].run = activeRun /\ activeRun \in Runs
      BY <2>1, <2>4, <3>1 DEF ExitRun, At, Agreement, StillKnows, RequestFits
    <3>3. \A r \in Runs : runs'[r].status = IF r = activeRun THEN "EXITED" ELSE runs[r].status
      BY <2>1, <3>1, <3>2
    <3> QED
      BY <2>1, <3>1, <3>3, Ending DEF Contract!ContractNext
  <2>5. CASE ActivatePlan(me)
    <3>1. activeRun' = None /\ runs' = Paused(runs, activeRun)
      BY <2>5 DEF ActivatePlan, At, Agreement, StillKnows
    <3>2. \A r \in Runs : runs'[r].status = IF r = activeRun THEN "PAUSED" ELSE runs[r].status
      BY <2>1, <3>1, PausedIsTyped DEF OneRunActive
    <3> QED
      BY <2>1, <3>1, <3>2, Ending DEF Contract!ContractNext
  <2>6. CASE InterruptRun
    BY <2>1, <2>6, InterruptedRuns, Ending DEF Contract!ContractNext
  <2> QED
    BY <2>1, <2>2, <2>3, <2>4, <2>5, <2>6, WhatMovesRuns
<1> QED
  BY <1>1, <1>2, InductiveInvariant, PTL DEF Spec, KeepsContract, Contract!ContractSpec, Past
-----------------------------------------------------------------------------
(***************************************************************************)
(* What locked replay lets pass was planned, with one client               *)
(***************************************************************************)

Written == {t \in Trades : trades[t] # NoTrade}
Shown == {t \in Trades : trades[t].plan = blindPlan /\ trades[t].session = session /\ blindPlan # None}

\* A request between its trade and its plan holds what the engine shows, and its
\* trade is one more than the plans that are recorded.
Planning(c) ==
  /\ request[c].at \in {"saveTrade", "recordPlan"} =>
       up /\ request[c].plan = blindPlan /\ request[c].session = session /\ blindPlan # None
  /\ Cardinality(tradePlans) + (IF request[c].at = "recordPlan" THEN 1 ELSE 0) <= Cardinality(Shown)

PlanInv(c) ==
  /\ IsFiniteSet(Written) /\ IsFiniteSet(tradePlans)
  /\ ~up => request[c].at = "idle"
  /\ Planning(c)

LEMMA ShownIsFinite ==
  ASSUME TypeInv, IsFiniteSet(Written)
  PROVE  IsFiniteSet(Shown) /\ Cardinality(Shown) \in Nat
<1>1. Shown \subseteq Written
  BY DEF Shown, Written, NoTrade
<1> QED
  BY <1>1, FS_Subset, FS_CardinalityType

\* Nothing is planned afterwards, and the request is at another step.
LEMMA PlansForgotten ==
  ASSUME TypeInv', NEW c, IsFiniteSet(Written), UNCHANGED trades, tradePlans' = {},
         request'[c].at \notin {"saveTrade", "recordPlan"}, ~up' => request'[c].at = "idle"
  PROVE  PlanInv(c)'
<1>1. Written' = Written
  BY DEF Written
<1>2. Cardinality(Shown') \in Nat
  <2>1. Shown' \subseteq Written
    BY DEF Shown, Written, NoTrade
  <2> QED
    BY <2>1, FS_Subset, FS_CardinalityType
<1>3. Cardinality({}) = 0 /\ IsFiniteSet({})
  BY FS_EmptySet
<1> QED
  BY <1>1, <1>2, <1>3 DEF PlanInv, Planning

\* Plans and trades rest; the request was not between trade and plan, or stays.
LEMMA PlansRest ==
  ASSUME TypeInv, NEW c, PlanInv(c), UNCHANGED <<session, blindPlan, tradePlans, trades>>,
         ~up' => request'[c].at = "idle",
         \/ request'[c].at \notin {"saveTrade", "recordPlan"}
         \/ request'[c] = request[c] /\ up' = up
         \/ /\ request'[c].at = "saveTrade" /\ up' /\ blindPlan # None
            /\ request'[c].plan = blindPlan /\ request'[c].session = session
  PROVE  PlanInv(c)'
<1>1. Written' = Written /\ Shown' = Shown
  BY DEF Written, Shown
<1>2. Cardinality(Shown) \in Nat /\ Cardinality(tradePlans) \in Nat
  BY ShownIsFinite, FS_CardinalityType DEF PlanInv
<1> QED
  BY <1>1, <1>2 DEF PlanInv, Planning

LEMMA SaveTradePlans ==
  ASSUME TypeInv, NEW c \in Clients, PlanInv(c), SaveTrade(c)
  PROVE  PlanInv(c)'
<1>0. /\ request \in [Clients -> [at : Steps, kind : Kinds, plan : Plans \cup {None},
           session : Sessions \cup {None}, run : Runs \cup {None}, point : Nat]]
      /\ trades \in [Trades -> [plan : Plans \cup {None}, session : Sessions \cup {None}, group : Nat]]
  BY DEF TypeInv, TypeOK, RequestTypes, DbTypes
<1>1. /\ request[c].at = "saveTrade" /\ request'[c].at = "recordPlan" /\ up' = up
      /\ request'[c].plan = request[c].plan /\ request'[c].session = request[c].session
      /\ UNCHANGED <<session, blindPlan, tradePlans>>
  BY <1>0 DEF SaveTrade, At, Goto, engineVars, positionVars, blindVars, planVars
<1>2. PICK t \in Trades : /\ trades[t] = NoTrade
                          /\ trades' = [trades EXCEPT ![t] = [plan |-> request[c].plan,
                                          session |-> request[c].session, group |-> request[c].point]]
  BY DEF SaveTrade
<1>3. up /\ request[c].plan = blindPlan /\ request[c].session = session /\ blindPlan # None
  BY <1>1 DEF PlanInv, Planning
<1>4. Shown' = Shown \cup {t} /\ t \notin Shown
  BY <1>0, <1>1, <1>2, <1>3 DEF Shown, NoTrade
<1>5. Written' \subseteq Written \cup {t}
  BY <1>0, <1>2 DEF Written
<1>6. IsFiniteSet(Written')
  BY <1>5, FS_AddElement, FS_Subset DEF PlanInv
<1>7. Cardinality(Shown') = Cardinality(Shown) + 1 /\ Cardinality(Shown) \in Nat
  BY <1>4, ShownIsFinite, FS_AddElement DEF PlanInv
<1>8. Cardinality(tradePlans) \in Nat /\ Cardinality(tradePlans) <= Cardinality(Shown)
  BY <1>1, FS_CardinalityType DEF PlanInv, Planning
<1> QED
  BY <1>1, <1>3, <1>6, <1>7, <1>8 DEF PlanInv, Planning

LEMMA RecordPlanPlans ==
  ASSUME TypeInv, NEW c \in Clients, PlanInv(c), RecordPlan(c)
  PROVE  PlanInv(c)'
<1>1. /\ request[c].at = "recordPlan" /\ tradePlans' = tradePlans \cup {groupCursor}
      /\ UNCHANGED <<session, blindPlan, trades>>
  BY DEF RecordPlan, RecordTradePlan, At, positionVars, blindVars, dbVars
<1>2. request'[c].at = "idle" /\ up' = up
  BY AfterStep DEF RecordPlan
<1>3. Written' = Written /\ Shown' = Shown
  BY <1>1 DEF Written, Shown
<1>4. /\ IsFiniteSet(tradePlans') /\ Cardinality(tradePlans') \in Nat /\ Cardinality(tradePlans) \in Nat
      /\ Cardinality(tradePlans') <= Cardinality(tradePlans) + 1
  <2>1. IsFiniteSet(tradePlans)
    BY DEF PlanInv
  <2>2. IsFiniteSet(tradePlans \cup {groupCursor})
        /\ Cardinality(tradePlans \cup {groupCursor}) =
             IF groupCursor \in tradePlans THEN Cardinality(tradePlans) ELSE Cardinality(tradePlans) + 1
    BY <2>1, FS_AddElement
  <2>3. Cardinality(tradePlans) \in Nat
    BY <2>1, FS_CardinalityType
  <2> QED
    BY <1>1, <2>2, <2>3
<1>5. Cardinality(tradePlans) + 1 <= Cardinality(Shown) /\ Cardinality(Shown) \in Nat
  BY <1>1, ShownIsFinite DEF PlanInv, Planning
<1> QED
  BY <1>2, <1>3, <1>4, <1>5 DEF PlanInv, Planning

LEMMA RequestStepPlans ==
  ASSUME TypeInv, TypeInv', NEW c \in Clients, PlanInv(c), RequestStep(c)
  PROVE  PlanInv(c)'
<1>0. IsFiniteSet(Written)
  BY DEF PlanInv
<1>1. CASE LoadBegins(c)
  <2>1. UNCHANGED <<session, blindPlan, tradePlans, trades>> /\ (Goto(c, "loading") \/ Return(c)) /\ up
    BY <1>1 DEF LoadBegins, At, BeginLoad, engineVars, positionVars, blindVars, planVars, dbVars
  <2>2. request'[c].at \in {"loading", "idle"} /\ up'
    BY <2>1, AfterStep
  <2> QED
    BY <2>1, <2>2, PlansRest
<1>2. CASE LoadFinishes(c)
  <2>1. /\ tradePlans' = {} /\ UNCHANGED trades /\ up
        /\ Goto(c, "selectStart") \/ Goto(c, "selectRun") \/ Return(c)
    BY <1>2 DEF LoadFinishes, At, FinishLoad, dbVars
  <2>2. request'[c].at \in {"selectStart", "selectRun", "idle"} /\ up'
    BY <2>1, AfterStep
  <2> QED
    BY <1>0, <2>1, <2>2, PlansForgotten
<1>3. CASE LoadFails(c)
  <2>1. UNCHANGED trades /\ Return(c) /\ up
    BY <1>3 DEF LoadFails, At, dbVars
  <2>2. request'[c].at = "idle" /\ up'
    BY <2>1, AfterStep
  <2>3. CASE FailLoad
    <3>1. UNCHANGED <<session, blindPlan, tradePlans>>
      BY <2>3 DEF FailLoad, positionVars, blindVars, planVars
    <3> QED
      BY <2>1, <2>2, <3>1, PlansRest
  <2>4. CASE tradePlans' = {}
    BY <1>0, <2>1, <2>2, <2>4, PlansForgotten
  <2> QED
    BY <1>3, <2>3, <2>4 DEF LoadFails, SwapFails, FinishLoad
<1>4. CASE SelectStart(c) \/ SelectRun(c) \/ SelectExit(c) \/ SelectActivate(c)
  <2>1. /\ UNCHANGED <<session, blindPlan, tradePlans, trades>> /\ up
        /\ \/ GotoWith(c, "start", activeRun) \/ GotoWith(c, "configure", activeRun)
           \/ GotoWith(c, "exit", activeRun) \/ GotoWith(c, "activate", activeRun)
           \/ Goto(c, "exitEngine") \/ Return(c)
    BY <1>4 DEF SelectStart, SelectRun, SelectExit, SelectActivate, At,
                engineVars, positionVars, blindVars, planVars, dbVars
  <2>2. request'[c].at \in {"start", "configure", "exit", "activate", "exitEngine", "idle"} /\ up'
    BY <2>1, AfterStep
  <2> QED
    BY <2>1, <2>2, PlansRest
<1>5. CASE StartRun(c) \/ ExitRun(c) \/ ActivatePlan(c)
  <2>1. /\ UNCHANGED <<session, blindPlan, tradePlans, trades>> /\ up
        /\ (\E r \in Runs : GotoWith(c, "configure", r)) \/ Goto(c, "exitEngine")
    BY <1>5 DEF StartRun, ExitRun, ActivatePlan, At, engineVars, positionVars, blindVars, planVars
  <2>2. request'[c].at \in {"configure", "exitEngine"} /\ up'
    BY <2>1, AfterStep
  <2> QED
    BY <2>1, <2>2, PlansRest
<1>6. CASE Configure(c)
  <2>1. tradePlans' = {} /\ UNCHANGED trades /\ up /\ (Goto(c, "move") \/ Return(c))
    BY <1>6 DEF Configure, At, ConfigureBlind, dbVars
  <2>2. request'[c].at \in {"move", "idle"} /\ up'
    BY <2>1, AfterStep
  <2> QED
    BY <1>0, <2>1, <2>2, PlansForgotten
<1>7. CASE ExitEngine(c)
  <2>1. tradePlans' = {} /\ UNCHANGED trades /\ up /\ (Goto(c, "load") \/ Return(c))
    BY <1>7 DEF ExitEngine, At, ExitBlind, ConfigureBlind, dbVars
  <2>2. request'[c].at \in {"load", "idle"} /\ up'
    BY <2>1, AfterStep
  <2> QED
    BY <1>0, <2>1, <2>2, PlansForgotten
<1>8. CASE MoveToCandidate(c)
  <2>1. UNCHANGED trades /\ up /\ Return(c)
    BY <1>8 DEF MoveToCandidate, At, dbVars
  <2>2. request'[c].at = "idle" /\ up'
    BY <2>1, AfterStep
  <2>3. CASE session = None
    <3>1. UNCHANGED <<session, blindPlan, tradePlans>>
      BY <1>8, <2>3 DEF MoveToCandidate, engineVars, positionVars, blindVars, planVars
    <3> QED
      BY <2>1, <2>2, <3>1, PlansRest
  <2>4. CASE session # None
    <3>1. tradePlans' = {}
      BY <1>8, <2>4 DEF MoveToCandidate, JumpToCandidate
    <3> QED
      BY <1>0, <2>1, <2>2, <3>1, PlansForgotten
  <2> QED
    BY <2>3, <2>4
<1>9. CASE MoveToFirstTrade(c)
  <2>1. UNCHANGED <<session, blindPlan, tradePlans, trades>> /\ up /\ Return(c)
    BY <1>9 DEF MoveToFirstTrade, At, JumpToFirstTrade, Moves, blindVars, planVars, dbVars
  <2>2. request'[c].at = "idle" /\ up'
    BY <2>1, AfterStep
  <2> QED
    BY <2>1, <2>2, PlansRest
<1> QED
  BY <1>1, <1>2, <1>3, <1>4, <1>5, <1>6, <1>7, <1>8, <1>9, SaveTradePlans, RecordPlanPlans DEF RequestStep

LEMMA ArrivalPlans ==
  ASSUME TypeInv, NEW c \in Clients, PlanInv(c), Arrival(c)
  PROVE  PlanInv(c)'
<1>0. request \in [Clients -> [at : Steps, kind : Kinds, plan : Plans \cup {None},
        session : Sessions \cup {None}, run : Runs \cup {None}, point : Nat]]
  BY DEF TypeInv, TypeOK, RequestTypes
<1>1. up /\ up'
  BY AfterBegin
<1>2. \A kind, step, plan, of, point : Begin(c, kind, step, plan, of, point) =>
        /\ UNCHANGED <<session, blindPlan, tradePlans>>
        /\ request'[c].at = step /\ request'[c].plan = plan /\ request'[c].session = of
  BY <1>0 DEF Begin, engineVars, positionVars, blindVars, planVars
<1>3. CASE RequestTrade(c)
  <2>1. /\ blindPlan # None /\ UNCHANGED trades
        /\ Begin(c, "trade", "saveTrade", blindPlan, session, groupCursor)
    BY <1>3 DEF RequestTrade, dbVars
  <2>2. /\ UNCHANGED <<session, blindPlan, tradePlans>> /\ request'[c].at = "saveTrade"
        /\ request'[c].plan = blindPlan /\ request'[c].session = session
    BY <1>2, <2>1
  <2> QED
    BY <1>1, <2>1, <2>2, PlansRest
<1>4. CASE ~RequestTrade(c)
  <2>1. /\ UNCHANGED <<session, blindPlan, tradePlans, trades>>
        /\ request'[c].at \in {"load", "selectExit", "selectActivate", "selectRun", "move", "firstTrade"}
    BY <1>2, <1>4 DEF Arrival, RequestLoad, RequestStart, RequestCandidate, RequestCreate, RequestExit,
                      RequestJump, dbVars
  <2> QED
    BY <1>1, <2>1, PlansRest
<1> QED
  BY <1>3, <1>4

LEMMA OtherPlans ==
  ASSUME TypeInv, TypeInv', NEW c \in Clients, PlanInv(c),
         \/ \E d \in Clients : ControlReplay(d)
         \/ ReplayLoop \/ Crash \/ StartUp \/ StartUpFails \/ UNCHANGED vars
  PROVE  PlanInv(c)'
<1>1. CASE \/ \E d \in Clients : ControlReplay(d)
           \/ ReplayLoop \/ UNCHANGED vars
  <2>1. UNCHANGED <<up, request, session, blindPlan, tradePlans, trades>>
    <3>1. CASE \E d \in Clients : ControlReplay(d)
      BY <3>1 DEF ControlReplay, Control, Reset, StepGroup, StepTrade, SetSpeed, Play, Pause, Seek,
        Halt, Moves, positionVars, blindVars, planVars, dbVars
    <3>2. CASE ReplayLoop
      BY <3>2 DEF ReplayLoop, Frame, Halt, Moves, positionVars, blindVars, planVars, dbVars
    <3>3. CASE UNCHANGED vars
      BY <3>3 DEF vars, engineVars, positionVars, blindVars, planVars, dbVars
    <3> QED
      BY <1>1, <3>1, <3>2, <3>3
  <2> QED
    BY <2>1, PlansRest DEF PlanInv
<1>2. CASE Crash
  <2>1. request'[c].at = "idle" /\ tradePlans' = {} /\ UNCHANGED trades
    BY <1>2 DEF Crash, EngineStops, Idle, dbVars
  <2> QED
    BY <2>1, PlansForgotten DEF PlanInv
<1>3. CASE StartUp
  <2>1. up' /\ request'[c].at = "idle" /\ UNCHANGED trades
    BY <1>3 DEF StartUp, InterruptRun, PlanInv
  <2>2. CASE Complete = {}
    <3>1. UNCHANGED <<session, blindPlan, tradePlans>>
      BY <1>3, <2>2 DEF StartUp, engineVars, positionVars, blindVars, planVars
    <3> QED
      BY <2>1, <3>1, PlansRest
  <2>3. CASE Complete # {}
    <3>1. tradePlans' = {}
      BY <1>3, <2>3 DEF StartUp, FinishLoad
    <3> QED
      BY <2>1, <3>1, PlansForgotten DEF PlanInv
  <2> QED
    BY <2>2, <2>3
<1>4. CASE StartUpFails
  <2>1. UNCHANGED <<up, request, session, blindPlan, tradePlans, trades>>
    BY <1>4 DEF StartUpFails, InterruptRun, engineVars, positionVars, blindVars, planVars
  <2> QED
    BY <2>1, PlansRest DEF PlanInv
<1> QED
  BY <1>1, <1>2, <1>3, <1>4

(* For the groups that locked replay lets pass there are as many saved     *)
(* trades of the configured plan in the loaded session (record_trade_plan, *)
(* which saves first and tells the engine afterwards), for one client and  *)
(* any number of sessions, plans and trades.                               *)
THEOREM PlansHaveTrades ==
  ASSUME NEW me, Clients = {me}
  PROVE  Spec => []PlannedHasTrade
<1>1. Init => TypeInv /\ PlanInv(me)
  <2> SUFFICES ASSUME Init PROVE PlanInv(me)
    BY InitHasTypes
  <2>1. /\ request[me].at = "idle" /\ tradePlans = {} /\ Written = {}
    BY DEF Init, EngineInit, Idle, Written
  <2>2. Cardinality({}) = 0 /\ IsFiniteSet({})
    BY FS_EmptySet
  <2>3. TypeInv
    BY InitHasTypes
  <2>4. Cardinality(Shown) \in Nat
    BY <2>1, <2>2, <2>3, ShownIsFinite
  <2> QED
    BY <2>1, <2>2, <2>4 DEF PlanInv, Planning
<1>2. TypeInv /\ PlanInv(me) /\ [Next]_vars => (TypeInv /\ PlanInv(me))'
  <2> SUFFICES ASSUME TypeInv, PlanInv(me), [Next]_vars, TypeInv' PROVE PlanInv(me)'
    BY StepKeepsTypes
  <2>1. me \in Clients /\ \A c \in Clients : c = me
    OBVIOUS
  <2>2. CASE \E c \in Clients : Arrival(c)
    BY <2>1, <2>2, ArrivalPlans
  <2>3. CASE \E c \in Clients : RequestStep(c)
    BY <2>1, <2>3, RequestStepPlans
  <2> QED
    BY <2>1, <2>2, <2>3, OtherPlans DEF Next
<1>3. TypeInv /\ PlanInv(me) => PlannedHasTrade
  <2> SUFFICES ASSUME TypeInv, PlanInv(me) PROVE Cardinality(tradePlans) <= Cardinality(Shown)
    BY DEF PlannedHasTrade, Shown
  <2>1. Cardinality(tradePlans) \in Nat /\ Cardinality(Shown) \in Nat
    BY ShownIsFinite, FS_CardinalityType DEF PlanInv
  <2> QED
    BY <2>1 DEF PlanInv, Planning
<1> QED
  BY <1>1, <1>2, <1>3, PTL DEF Spec
=============================================================================
