----------------------------- MODULE DailySession -----------------------------
(***************************************************************************)
(* The daily strategy backtest of session_runner.py with the candidates of *)
(* strategy_search.py: a first pass over the day's file lets every         *)
(* candidate trade on the rebuilt book, a second one replays the decisions *)
(* of all candidates through the backtester, and the gate compares the     *)
(* two.  The scan of a research search runs the same loop.                 *)
(*                                                                         *)
(* What a candidate sees in a market is abstracted to the signal it gets,  *)
(* any direction or none; scores, metrics and reports are left out.        *)
(***************************************************************************)
EXTENDS EventBacktester

CONSTANTS
  SessionFiles,   \* files of a day, sequences of events
  SpecOf,         \* StrategySpec: stop, target, cooldown, timeStop, minimumLiquidity
  Signals,        \* what strategy_direction may say, of all candidates at once
  DayStart, DayEnd,   \* _utc_day_bounds
  SignalBucket,   \* a second
  Validity        \* of a gate intent, 15 seconds

ASSUME SessionAssumption ==
  /\ \A s \in SessionFiles :
       /\ Len(s) \in Nat
       /\ \A n \in 1 .. Len(s) : IsEvent(s[n]) /\ {s[n].channel, s[n].ts, s[n].price} \subseteq Int
  /\ \A g \in Groups : /\ {SpecOf[g].stop, SpecOf[g].target, SpecOf[g].timeStop,
                           SpecOf[g].minimumLiquidity} \subseteq Int
                       /\ SpecOf[g].cooldown \in Nat
  /\ Validity \in Nat

VARIABLES
  dayFile,        \* the day's DBN file, in the order of its records
  stage,          \* scan, gate, done or failed
  candidates,     \* CandidateRuntime of each candidate
  lastBucket,     \* last_signal_bucket
  lastPrice       \* last_trade_price

sessionVars == <<dayFile, stage, candidates, lastBucket, lastPrice>>

NewRuntime == [open |-> <<>>, pending |-> <<>>, cooldownUntil |-> 0, trades |-> <<>>]
-----------------------------------------------------------------------------
(* CandidateRuntime.                                                       *)

CloseTrade(c, ts, price, reason) ==
  LET p == c.open[1]
      slip == IF reason = "STOP" THEN StopSlip ELSE ExitSlip
  IN  [direction |-> p.direction, decision |-> p.decision, entry |-> p.entry, exit |-> ts,
       price |-> p.price, stop |-> p.stop, target |-> p.target, reason |-> reason,
       result |-> Sign(p.direction) * (price - p.price) - slip]

ReasonTimeFirst(p, spec, ts, price) ==   \* mutant: the time stop goes before the levels
  LET sign == Sign(p.direction)
  IN  IF ts >= p.entry + spec.timeStop THEN "TIME_STOP"
      ELSE IF sign * price <= sign * p.stop THEN "STOP"
      ELSE IF sign * price >= sign * p.target THEN "TARGET" ELSE "NONE"

Reason(p, spec, ts, price) ==
  LET sign == Sign(p.direction)
  IN  IF sign * price <= sign * p.stop THEN "STOP"
      ELSE IF sign * price >= sign * p.target THEN "TARGET"
      ELSE IF ts >= p.entry + spec.timeStop THEN "TIME_STOP" ELSE "NONE"

OnTrade(c, spec, ts, price) ==
  IF c.open = <<>> \/ Reason(c.open[1], spec, ts, price) = "NONE" THEN c
  ELSE [c EXCEPT !.open = <<>>, !.cooldownUntil = ts + spec.cooldown,
                 !.trades = Append(@, CloseTrade(c, ts, price, Reason(c.open[1], spec, ts, price)))]

MaybeOpen(c, ts, signal) ==
  IF c.open # <<>> \/ c.pending # <<>> \/ ts < c.cooldownUntil \/ signal = "none" THEN c
  ELSE [c EXCEPT !.pending = <<[direction |-> signal, decision |-> ts, readyAt |-> ts + Latency]>>]

RequiredContracts == 1

\* The shortfall of the best level is measured against what a candidate trusts, capped.
Trusted(spec) == Min({spec.minimumLiquidity, RequiredContracts + 3})

\* A signal whose moment finds no two-sided, uncrossed book is given up.
ResolvePending(c, spec, ts, b) ==
  IF c.pending = <<>> THEN c
  ELSE IF ts < c.pending[1].readyAt THEN c
  ELSE LET p == c.pending[1]
           side == IF p.direction = "long" THEN "A" ELSE "B"
           tradable == /\ DOMAIN b.levels["B"] # {} /\ DOMAIN b.levels["A"] # {}
                       /\ 0 < Best(b, "B") /\ Best(b, "B") < Best(b, "A")
           shortfall == Max({0, Trusted(spec) - b.levels[side][Best(b, side)].total})
           price == Best(b, side) + Sign(p.direction) * (EntrySlip + shortfall)
       IN  IF c.open # <<>> \/ ~tradable THEN [c EXCEPT !.pending = <<>>]
           ELSE [c EXCEPT !.pending = <<>>,
                   !.open = <<[direction |-> p.direction, decision |-> p.decision, entry |-> ts,
                               price |-> price,
                               stop |-> price - Sign(p.direction) * spec.stop,
                               target |-> price + Sign(p.direction) * spec.target]>>]

CloseAtEnd(c, ts, price) ==
  IF c.open = <<>> THEN c
  ELSE [c EXCEPT !.open = <<>>, !.trades = Append(@, CloseTrade(c, ts, price, "END_OF_DATA"))]
-----------------------------------------------------------------------------
SessionInit ==
  /\ book = EmptyBook /\ stage = "scan" /\ at = 0 /\ dayFile \in SessionFiles /\ tape = <<>>
  /\ candidates = [g \in Groups |-> NewRuntime]
  /\ lastBucket = -1 /\ lastPrice = 0
  /\ sim = EmptySim /\ intents = [g \in Groups |-> <<>>]
  /\ alone = Started(intents) /\ grouped = [runs |-> Started(intents), waitingGroups |-> {}]

InDay(b, e) == SnapshotReady(b) /\ DayStart <= e.ts /\ e.ts < DayEnd

ScanEvent ==
  /\ stage = "scan" /\ at < Len(dayFile)
  /\ LET e == dayFile[at + 1]
         b == ApplyEvent(book, e)
         trading == InDay(b, e) /\ e.action = "T"
         resolved == [g \in Groups |-> IF InDay(b, e)
                                       THEN ResolvePending(candidates[g], SpecOf[g], e.ts, b)
                                       ELSE candidates[g]]
         traded == [g \in Groups |-> IF trading THEN OnTrade(resolved[g], SpecOf[g], e.ts, e.price)
                                     ELSE resolved[g]]
         bucket == e.ts \div SignalBucket
     IN  IF \E n \in 1 .. at : dayFile[n].instrument # e.instrument
         THEN stage' = "failed" /\ UNCHANGED <<book, at, candidates, lastBucket, lastPrice>>
         ELSE /\ book' = b /\ at' = at + 1
              /\ lastPrice' = IF trading THEN e.price ELSE lastPrice
              /\ IF trading /\ bucket # lastBucket
                 THEN /\ lastBucket' = bucket
                      /\ \E signal \in Signals :
                           candidates' = [g \in Groups |-> MaybeOpen(traded[g], e.ts, signal[g])]
                 ELSE candidates' = traded /\ UNCHANGED lastBucket
              /\ UNCHANGED stage
  /\ UNCHANGED <<dayFile, tape, sim, intents, alone, grouped>>

\* _candidate_intents: the decisions of the fast trades, to be filled anew.
IntentsOf(g, trades) ==
  [n \in 1 .. Len(trades) |->
     [id |-> n, decision |-> trades[n].decision, direction |-> trades[n].direction,
      stop |-> Sign(trades[n].direction) * (trades[n].price - trades[n].stop),
      target |-> Sign(trades[n].direction) * (trades[n].target - trades[n].price),
      validUntil |-> trades[n].decision + Validity, timeStop |-> SpecOf[g].timeStop,
      contracts |-> RequiredContracts]]

\* stream_normalized_events: the events of one moment, as long as they are
\* neighbours in the file, are ordered by channel, sequence and position.
EventKey(s, n) ==
  <<Cardinality({k \in 2 .. n : s[k].ts # s[k - 1].ts}), s[n].channel, s[n].seq, n>>

EventBefore(s, k, n) ==
  \E i \in 1 .. 4 : /\ EventKey(s, k)[i] < EventKey(s, n)[i]
                    /\ \A j \in 1 .. i - 1 : EventKey(s, k)[j] = EventKey(s, n)[j]

Normalized(s) ==
  LET places == {<<k, Cardinality({l \in 1 .. Len(s) : EventBefore(s, l, k)}) + 1>> :
                   k \in 1 .. Len(s)}
  IN  [n \in 1 .. Len(s) |-> s[CHOOSE k \in 1 .. Len(s) : <<k, n>> \in places]]

EndOfScan ==
  /\ stage = "scan" /\ at = Len(dayFile)
  /\ candidates' = [g \in Groups |-> IF lastPrice = 0 THEN candidates[g]
                                     ELSE CloseAtEnd(candidates[g], dayFile[at].ts, lastPrice)]
  /\ intents' = [g \in Groups |-> IntentsOf(g, candidates'[g].trades)]
  /\ stage' = IF \E g \in Groups : candidates'[g].trades # <<>> THEN "gate" ELSE "done"
  /\ at' = 0 /\ sim' = EmptySim /\ tape' = Normalized(dayFile)
  /\ alone' = Started(intents') /\ grouped' = [runs |-> Started(intents'), waitingGroups |-> {}]
  /\ UNCHANGED <<book, dayFile, lastBucket, lastPrice>>

GateEvent == stage = "gate" /\ BacktestEvent /\ UNCHANGED <<book, sessionVars>>

GateFails ==
  /\ stage = "gate" /\ OutOfOrder /\ stage' = "failed"
  /\ UNCHANGED <<book, dayFile, candidates, lastBucket, lastPrice>>

EndOfGate ==
  /\ stage = "gate" /\ EndOfBacktest /\ stage' = "done"
  /\ UNCHANGED <<book, dayFile, candidates, lastBucket, lastPrice>>

SessionNext == ScanEvent \/ EndOfScan \/ GateEvent \/ GateFails \/ EndOfGate

SessionSpec == SessionInit /\ [][SessionNext]_<<book, backtestVars, sessionVars>>
-----------------------------------------------------------------------------
\* The prints of a moment that a candidate looks at.
Prints(s, ts) == {s[n].price : n \in {k \in 1 .. Len(s) :
                    s[k].ts = ts /\ s[k].action = "T" /\ InDay(BookAfter(s, k), s[k])}}

\* The quote a trade was filled at, or a better one, was there.
FilledAtQuote(s, t) ==
  LET side == IF t.direction = "long" THEN "A" ELSE "B"
  IN  \E n \in 1 .. Len(s) :
        /\ s[n].ts = t.entry /\ DOMAIN BookAfter(s, n).levels[side] # {}
        /\ Sign(t.direction) * (t.price - Best(BookAfter(s, n), side)) >= EntrySlip

\* A print of its last moment is the reason it was left for, and no earlier one
\* was a reason to leave.
FirstTouch(s, t, spec) ==
  /\ t.reason # "END_OF_DATA" =>
       \E price \in Prints(s, t.exit) : Reason(t, spec, t.exit, price) = t.reason
  /\ \A ts \in t.entry + 1 .. t.exit - 1 : \A price \in Prints(s, ts) :
       Reason(t, spec, ts, price) = "NONE"
  /\ t.reason = "TIME_STOP" =>
       \E price \in Prints(s, t.exit) : /\ Sign(t.direction) * (price - t.stop) > 0
                                        /\ Sign(t.direction) * (price - t.target) < 0

\* The trades a candidate is judged by could have been made: each fills at a
\* displayed quote or worse, at or after its decision and latency, and leaves with
\* the first print that reaches a level or its time; levels go before the time
\* stop.  The next decision of a candidate comes after the exit and the cooldown
\* of the last trade, and the gate replays decisions one after another
\* (CandidateRuntime, run_daily_strategy_backtest, _gate_candidates).
TradesAreExecutable ==
  stage = "done" => \A g \in Groups :
    LET fast == candidates[g].trades
        realistic == alone[g].trades
    IN  /\ \A n \in 1 .. Len(fast) :
             /\ fast[n].entry >= fast[n].decision + Latency
             /\ FilledAtQuote(dayFile, fast[n]) /\ FirstTouch(dayFile, fast[n], SpecOf[g])
        /\ \A n \in 2 .. Len(fast) : fast[n].decision >= fast[n - 1].exit + SpecOf[g].cooldown
        /\ \A n \in 2 .. Len(realistic) :
             realistic[n - 1].id < realistic[n].id /\ realistic[n - 1].exit <= realistic[n].entry

\* An event that both books take alike, fills aside.  The simulated book looks at
\* neither duplicates, instruments nor top-of-book records, adds an order at any
\* price and once more under an id that is taken, and modifies whatever it is told to.
PlainEvent(b, e) ==
  /\ ~IsDuplicate(b, e) /\ AcceptsInstrument(b, e)
  /\ e.action = "A" => /\ "TOB" \notin e.flags /\ e.price # UndefPrice
                       /\ e.id \notin DOMAIN b.orders
  /\ e.action = "M" => Acceptable(e) /\ e.id \in DOMAIN b.orders

PlainFeed(n) == \A k \in 1 .. n : PlainEvent(BookAfter(tape, k - 1), tape[k])

\* What the rebuilt book would be if a fill took its size off the order, too.
ApplyWithFills(b, e) ==
  LET applied == ApplyEvent(b, e) IN IF e.action = "F" THEN ApplyCancel(applied, e) ELSE applied

FilledBook(s, n) ==
  LET books[k \in 0 .. n] == IF k = 0 THEN EmptyBook ELSE ApplyWithFills(books[k - 1], s[k])
  IN  books[n]

PlainFilledFeed(n) == \A k \in 1 .. n : PlainEvent(FilledBook(tape, k - 1), tape[k])

Shows(levels) == [s \in Sides |-> [p \in DOMAIN levels[s] |-> levels[s][p].total]]

\* The simulated book of the gate shows at every price what the rebuilt book of the
\* same events would show if fills were taken off its orders like cancels: fills,
\* partial cancels, modifies and snapshots keep the two reconstructions together
\* (SimulatedBook, OrderBook).
SimulatedBookAgrees ==
  stage = "gate" /\ PlainFilledFeed(at) => sim.levels = Shows(FilledBook(tape, at).levels)

\* The gate never fills on volume that is not there: whatever fills a feed has, the
\* simulated book shows at no price more than the rebuilt book of the same events
\* (SimulatedBook, OrderBook, market_fill).
NoVolumeInvented ==
  stage = "gate" /\ PlainFeed(at) =>
    \A s \in Sides : \A p \in DOMAIN sim.levels[s] :
      /\ p \in DOMAIN BookAfter(tape, at).levels[s]
      /\ sim.levels[s][p] <= BookAfter(tape, at).levels[s][p].total

\* The exchange reports what a fill has left of an order by a cancel of its own.
FillsAreCancelled(n) ==
  \A k \in 1 .. n : tape[k].action = "F" =>
    k < n /\ tape[k + 1].action = "C" /\ tape[k + 1].id = tape[k].id /\ tape[k + 1].size = tape[k].size

\* docs/order-book-reconstruction.md:13: trades and fills are not taken off the book
\* a second time, since the resulting change is delivered as a cancel, so that no
\* volume is reduced twice.
VolumeIsReducedOnce ==
  stage = "gate" /\ PlainFeed(at) /\ FillsAreCancelled(at) =>
    sim.levels = Shows(BookAfter(tape, at).levels)
=============================================================================
