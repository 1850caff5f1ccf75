--------------------------- MODULE EventBacktester ---------------------------
(***************************************************************************)
(* The backtester of event_backtester.py for MARKET intents with exits     *)
(* relative to the entry, which is what every caller in src/ submits.  One *)
(* pass over a day's events drives two of its entry points side by side:   *)
(* run_market_streaming once per group, and run_market_streaming_groups    *)
(* for all groups together; Simulate is what run() computes per intent.    *)
(*                                                                         *)
(* Prices and times are small integers, slippage is in ticks, and a        *)
(* position is held as a value (price times contracts), so that a fill     *)
(* across several levels needs no fraction.  Fees and statistics derived   *)
(* from a trade are left out.                                              *)
(***************************************************************************)
EXTENDS OrderBook

CONSTANTS
  Groups,         \* candidates
  Latency,        \* latency_ms
  EntrySlip, StopSlip, ExitSlip   \* slippage of the fill mode

ASSUME BacktestAssumption ==
  {Latency, EntrySlip, StopSlip, ExitSlip} \subseteq Nat

VARIABLES
  tape,           \* the events of the day's file, in order
  at,             \* events read so far
  sim,            \* SimulatedBook
  intents,        \* the intents of each group, by decision time and id
  alone,          \* per group: the state of run_market_streaming
  grouped         \* the state of run_market_streaming_groups

backtestVars == <<tape, at, sim, intents, alone, grouped>>

Directions == {"long", "short"}
Sign(direction) == IF direction = "long" THEN 1 ELSE -1
-----------------------------------------------------------------------------
(* SimulatedBook.                                                          *)

EmptySim == [orders |-> <<>>, levels |-> [s \in Sides |-> <<>>]]

Shown(b, side, price) == IF price \in DOMAIN b.levels[side] THEN b.levels[side][price] ELSE 0

ShowLevel(b, side, price, size) ==
  [b EXCEPT !.levels[side] = IF size > 0 THEN Put(@, price, size) ELSE Drop(@, price)]

TakeOffPartial(b, id, size) ==   \* mutant: a partial cancel or fill leaves the level as it is
  IF id \notin DOMAIN b.orders THEN b
  ELSE LET o == b.orders[id]
       IN  IF size < o.size THEN [b EXCEPT !.orders[id].size = @ - size]
           ELSE ShowLevel([b EXCEPT !.orders = Drop(@, id)], o.side, o.price,
                          Shown(b, o.side, o.price) - o.size)

\* _remove: a size larger than the order takes the whole order.
TakeOff(b, id, size) ==
  IF id \notin DOMAIN b.orders THEN b
  ELSE LET o == b.orders[id]
           cut == Min({size, o.size})
           left == IF cut < o.size THEN [b.orders EXCEPT ![id].size = @ - cut]
                   ELSE Drop(b.orders, id)
       IN  ShowLevel([b EXCEPT !.orders = left], o.side, o.price, Shown(b, o.side, o.price) - cut)

Rest(b, e) ==
  IF e.side \notin Sides \/ e.size = 0 THEN b
  ELSE ShowLevel([b EXCEPT !.orders = Put(@, e.id, NewOrder(e))],
                 e.side, e.price, Shown(b, e.side, e.price) + e.size)

SimModifyOnTop(b, e) == Rest(b, e)   \* mutant: the modified order stays in its old level

SimModify(b, e) ==
  Rest(IF e.id \in DOMAIN b.orders THEN TakeOff(b, e.id, b.orders[e.id].size) ELSE b, e)

\* Unlike the rebuilt book a fill reduces its order.
SimApply(b, e) ==
  CASE e.action = "R" -> EmptySim
    [] e.action \in {"C", "F"} -> TakeOff(b, e.id, e.size)
    [] e.action = "M" -> SimModify(b, e)
    [] e.action = "A" -> Rest(b, e)
    [] OTHER -> b

\* market_fill: nothing while a side is empty or the book is locked or crossed.
Fillable(b) ==
  LET bids == DOMAIN b.levels["B"]  asks == DOMAIN b.levels["A"]
  IN  bids # {} /\ asks # {} /\ Max(bids) < Min(asks)

\* The depth walk: contracts taken from the best level on.
MarketFill(b, direction, contracts) ==
  LET side == IF direction = "long" THEN "A" ELSE "B"
      better(p) == {q \in DOMAIN b.levels[side] : Sign(direction) * q < Sign(direction) * p}
      taken(p) == LET left == contracts - MapThenSumSet(LAMBDA q : b.levels[side][q], better(p))
                  IN  Max({0, Min({left, b.levels[side][p]})})
  IN  [filled |-> MapThenSumSet(taken, DOMAIN b.levels[side]),
       value |-> MapThenSumSet(LAMBDA p : p * taken(p), DOMAIN b.levels[side])]
-----------------------------------------------------------------------------
(* Positions.                                                              *)

Due(i, e) == i.decision + Latency <= e.ts
Expired(i, e) == e.ts > i.validUntil

Enter(i, b, e) ==
  LET fill == MarketFill(b, i.direction, i.contracts)
      value == fill.value + Sign(i.direction) * EntrySlip * fill.filled
  IN  [intent |-> i, entry |-> e.ts, filled |-> fill.filled, value |-> value, last |-> value]

\* The movement in favour of a position that is worth a value.
Gain(p, value) == Sign(p.intent.direction) * (value - p.value)

\* _streaming_exit: a stop goes before a target, a target before the time stop.
ExitReason(p, e) ==
  LET gain == Gain(p, e.price * p.filled)
  IN  IF gain <= -p.intent.stop * p.filled THEN "STOP"
      ELSE IF gain >= p.intent.target * p.filled THEN "TARGET"
      ELSE IF e.ts >= p.entry + p.intent.timeStop THEN "TIME_STOP"
      ELSE "NONE"

TradeOf(p, ts, value, reason) ==
  [id |-> p.intent.id, decision |-> p.intent.decision, entry |-> p.entry, exit |-> ts,
   filled |-> p.filled, reason |-> reason,
   result |-> Gain(p, value) - p.filled * (IF reason = "STOP" THEN StopSlip ELSE ExitSlip)]

ExitTrade(p, e) == TradeOf(p, e.ts, e.price * p.filled, ExitReason(p, e))
EndTrade(p, e) == TradeOf(p, e.ts, p.last, "END_OF_DATA")
Marked(p, e) == [p EXCEPT !.last = e.price * p.filled]
-----------------------------------------------------------------------------
(* One strategy: the state is that of the local variables of a run; active *)
(* holds at most one position.                                             *)

Fresh == [waiting |-> <<>>, active |-> <<>>, trades |-> <<>>]

\* Whether the position leaves at a trade.
Leaves(r, e) == e.action = "T" /\ r.active # <<>> /\ ExitReason(r.active[1], e) # "NONE"

TryExit(r, e) ==
  IF e.action # "T" \/ r.active = <<>> THEN r
  ELSE IF Leaves(r, e)
  THEN [r EXCEPT !.active = <<>>, !.trades = Append(@, ExitTrade(r.active[1], e))]
  ELSE [r EXCEPT !.active = <<Marked(@[1], e)>>]

\* Expired intents at the head are dropped; the next one enters if it can.
TryEnter(r, b, e) ==
  IF r.active # <<>> THEN r
  ELSE LET valid == SelectInSeq(r.waiting, LAMBDA i : ~Expired(i, e))
           queue == IF valid = 0 THEN <<>> ELSE SubSeq(r.waiting, valid, Len(r.waiting))
       IN  IF queue = <<>> \/ ~Fillable(b) THEN [r EXCEPT !.waiting = queue]
           ELSE [r EXCEPT !.waiting = Tail(queue), !.active = <<Enter(Head(queue), b, e)>>]

\* How far the place in the list of intents moves at an event: over those that are due.
DueCount(list, e) == Cardinality({k \in 1 .. Len(list) : \A j \in 1 .. k : Due(list[j], e)})
NewlyDue(list, e) == SubSeq(list, 1, DueCount(list, e))
NotDue(list, e) == SubSeq(list, DueCount(list, e) + 1, Len(list))

AloneEntersFirst(r, b, e) ==   \* mutant: entries are looked at before exits
  TryExit(TryEnter([r EXCEPT !.waiting = @ \o NewlyDue(r.list, e),
                             !.list = NotDue(@, e)], b, e), e)

AloneStep(r, b, e) ==
  TryEnter(TryExit([r EXCEPT !.waiting = @ \o NewlyDue(r.list, e),
                             !.list = NotDue(@, e)], e), b, e)
-----------------------------------------------------------------------------
(* All groups in one pass.  waitingGroups is the set of groups whose queue *)
(* is looked at; the heap of ready intents is kept as a list per group,    *)
(* which is the order in which it hands them out.                          *)

QueueDue(m, e) ==
  LET due(g) == NewlyDue(m.runs[g].list, e)
  IN  [runs |-> [g \in Groups |-> [m.runs[g] EXCEPT !.waiting = @ \o due(g),
                                                    !.list = NotDue(@, e)]],
       waitingGroups |-> m.waitingGroups
         \cup {g \in Groups : due(g) # <<>> /\ m.runs[g].active = <<>>}]

ExitGroupsQuietly(m, e) ==   \* mutant: what waits behind a position is forgotten
  [m EXCEPT !.runs = [g \in Groups |-> TryExit(m.runs[g], e)]]

ExitGroups(m, e) ==
  [runs |-> [g \in Groups |-> TryExit(m.runs[g], e)],
   waitingGroups |-> m.waitingGroups
     \cup {g \in Groups : Leaves(m.runs[g], e) /\ m.runs[g].waiting # <<>>}]

EnterGroups(m, b, e) ==
  LET runs == [g \in Groups |-> IF g \in m.waitingGroups THEN TryEnter(m.runs[g], b, e)
                                ELSE m.runs[g]]
  IN  [runs |-> runs,
       waitingGroups |-> {g \in m.waitingGroups : runs[g].waiting # <<>> /\ runs[g].active = <<>>}]

GroupsStep(m, b, e) == EnterGroups(ExitGroups(QueueDue(m, e), e), b, e)
-----------------------------------------------------------------------------
Started(lists) == [g \in Groups |-> [waiting |-> <<>>, active |-> <<>>, trades |-> <<>>,
                                     list |-> lists[g]]]

\* Within a moment the events are sorted; a time that runs back ends the pass.
RunsBack == at \in 1 .. Len(tape) - 1 /\ tape[at + 1].ts < tape[at].ts

OutOfOrder == RunsBack /\ UNCHANGED backtestVars

BacktestEvent ==
  /\ at < Len(tape) /\ ~RunsBack
  /\ LET e == tape[at + 1]
         b == SimApply(sim, e)
     IN  /\ sim' = b /\ at' = at + 1
         /\ alone' = [g \in Groups |-> AloneStep(alone[g], b, e)]
         /\ grouped' = GroupsStep(grouped, b, e)
  /\ UNCHANGED <<tape, intents>>

\* What is open when the events are over is closed at the last trade it has seen.
CloseOpen(r) ==
  IF r.active = <<>> THEN r
  ELSE [r EXCEPT !.active = <<>>, !.trades = Append(@, EndTrade(r.active[1], tape[Len(tape)]))]

EndOfBacktest ==
  /\ at = Len(tape)
  /\ alone' = [g \in Groups |-> CloseOpen(alone[g])]
  /\ grouped' = [grouped EXCEPT !.runs = [g \in Groups |-> CloseOpen(@[g])]]
  /\ UNCHANGED <<tape, at, sim, intents>>
-----------------------------------------------------------------------------
(* run(): each intent on its own, over all events.                         *)

SimAfter(s, n) ==
  LET books[k \in 0 .. n] == IF k = 0 THEN EmptySim ELSE SimApply(books[k - 1], s[k])
  IN  books[n]

\* The first position in a set, zero when it is empty.
Earliest(S) == IF S = {} THEN 0 ELSE Min(S)

CanEnter(s, i, n) == Due(i, s[n]) /\ ~Expired(i, s[n]) /\ Fillable(SimAfter(s, n))

SimulatedEntry(s, i) == Earliest({n \in 1 .. Len(s) : CanEnter(s, i, n)})

\* The trade of an intent that enters at event n.
SimulatedTrade(s, i, n) ==
  LET p == Enter(i, SimAfter(s, n), s[n])
      trades == {m \in n + 1 .. Len(s) : s[m].action = "T"}
      m == Earliest({k \in trades : ExitReason(p, s[k]) # "NONE"})
      final == IF trades = {} THEN p ELSE Marked(p, s[Max(trades)])
  IN  IF m # 0 THEN ExitTrade(p, s[m]) ELSE EndTrade(final, s[Len(s)])

Simulate(s, i) ==
  LET n == SimulatedEntry(s, i) IN IF n = 0 THEN <<>> ELSE <<SimulatedTrade(s, i, n)>>
-----------------------------------------------------------------------------
\* All groups in one pass fare exactly as each would alone: no position and no
\* queue of one group ever delays, drops or advances an intent of another, and no
\* waiting intent is forgotten (run_market_streaming_groups with its heap and its
\* set of waiting groups against run_market_streaming).
GroupsRunAlone == \A g \in Groups : grouped.runs[g] = alone[g]

\* Another trade of the group is open when run() would enter the intent.
Blocked(r, i, trade) ==
  \E k \in 1 .. Len(r.trades) : /\ r.trades[k].id # i.id
                                /\ r.trades[k].entry <= trade.entry
                                /\ trade.entry <= r.trades[k].exit

\* At the end of a pass an intent that no other position was in the way of has the
\* trade that run() simulates for it over the whole day, with the same entry, exit
\* and result, or none if run() has none; every other trade entered later than
\* run() would have, and still within the validity of its intent.
StreamingAgreesWithRun ==
  at = Len(tape) /\ (\A g \in Groups : alone[g].active = <<>>) =>
    \A g \in Groups : \A n \in 1 .. Len(intents[g]) :
      LET i == intents[g][n]
          simulated == Simulate(tape, i)
          trades == alone[g].trades
          places == {k \in 1 .. Len(trades) : trades[k].id = i.id}
      IN  IF simulated = <<>> THEN places = {}
          ELSE /\ ~Blocked(alone[g], i, simulated[1]) =>
                    \E k \in places : places = {k} /\ trades[k] = simulated[1]
               /\ \A k \in places : /\ simulated[1].entry <= trades[k].entry
                                     /\ trades[k].entry <= i.validUntil
=============================================================================
