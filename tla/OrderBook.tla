------------------------------ MODULE OrderBook ------------------------------
(***************************************************************************)
(* The incremental order book of dbn_reader.py: the orders, the price      *)
(* levels kept beside them, the set of order ids of a side, the window of  *)
(* remembered events, the phase of the initial snapshot and the sequence   *)
(* numbers of each channel.  Every method is an operator on one record, so *)
(* that the programs which drive a book (reconstruct_book, the MBP-10      *)
(* verification) can be built from the same operators.                     *)
(*                                                                         *)
(* An event is the record of its fields; the twelve fields of the          *)
(* de-duplication identity are the event itself.  Counters that are only   *)
(* printed are left out; kept are the two the code acts on or that must    *)
(* stay zero.                                                              *)
(***************************************************************************)
EXTENDS Integers, Sequences, FiniteSets, Functions, FiniteSetsExt, SequencesExt

CONSTANTS
  OrderIds,       \* ids of orders
  Prices,         \* prices that are defined
  UndefPrice,     \* db.UNDEF_PRICE
  Channels,       \* (publisher_id, channel_id)
  Events,         \* the events a feed may deliver
  NoInstrument,   \* primary_instrument_id before the first event
  WindowSize,     \* dedupe_window_size
  MaxWarnings     \* bound on the warnings of a run

Sides == {"B", "A"}
Actions == {"A", "C", "M", "F", "T", "N", "R"}
Flags == {"LAST", "TOB", "SNAPSHOT"}
Statuses == {"PRE_SNAPSHOT", "SNAPSHOT_LOADING", "SNAPSHOT_READY", "POST_SNAPSHOT"}
None == 0   \* no sequence number yet

\* A normalized record: its side may be none, and its price undefined.
IsEvent(e) ==
  /\ e.action \in Actions /\ e.flags \subseteq Flags
  /\ e.side \in Sides \cup {"N"} /\ e.price \in Prices \cup {UndefPrice}
  /\ e.id \in OrderIds /\ e.channel \in Channels /\ {e.size, e.seq} \subseteq Nat

ASSUME BookAssumption ==
  /\ Prices \subseteq Nat /\ UndefPrice \notin Prices
  /\ WindowSize \in Nat \ {0} /\ MaxWarnings \in Nat
  /\ \A e \in Events : IsEvent(e)

VARIABLE book

EmptyBook == [orders |-> <<>>, levels |-> [s \in Sides |-> <<>>],
              sideIds |-> [s \in Sides |-> {}], window |-> <<>>,
              natural |-> [c \in Channels |-> None], status |-> "PRE_SNAPSHOT",
              primary |-> NoInstrument, consistent |-> TRUE,
              negative |-> 0, warnings |-> 0]

Put(f, x, v) == [y \in DOMAIN f \cup {x} |-> IF y = x THEN v ELSE f[y]]
Drop(f, x) == Restrict(f, DOMAIN f \ {x})

SnapshotReady(b) == b.status \in {"SNAPSHOT_READY", "POST_SNAPSHOT"}

\* warnings are post_snapshot_integrity_warnings
WarnIfComplete(b) ==
  IF b.status = "POST_SNAPSHOT" THEN [b EXCEPT !.warnings = @ + 1] ELSE b

NegativeLevel(b) == WarnIfComplete([b EXCEPT !.negative = @ + 1])

-----------------------------------------------------------------------------
(* Duplicates, instruments and phases.                                     *)

Remembered(e) == e.action \notin {"T", "F", "N"}
IsDuplicate(b, e) == Remembered(e) /\ e \in Range(b.window)

Remember(b, e) ==
  IF ~Remembered(e) THEN b
  ELSE [b EXCEPT !.window =
          Append(IF Len(@) >= WindowSize THEN Tail(@) ELSE @, e)]

\* An older sequence number of a natural event warns and is forgotten.
ObserveSequence(b, e) ==
  IF e.seq = None \/ e.seq >= b.natural[e.channel]
  THEN IF e.seq = None THEN b ELSE [b EXCEPT !.natural[e.channel] = e.seq]
  ELSE WarnIfComplete(b)

ObservePhase(b, e) ==
  IF "SNAPSHOT" \in e.flags
  THEN IF e.action = "R" \/ ~SnapshotReady(b)
       THEN [b EXCEPT !.status = "SNAPSHOT_LOADING"] ELSE b
  ELSE IF SnapshotReady(b)
       THEN ObserveSequence([b EXCEPT !.status = "POST_SNAPSHOT"], e) ELSE b

AcceptsInstrument(b, e) == b.primary \in {NoInstrument, e.instrument}

FinishGroup(b, e) ==
  [b EXCEPT !.consistent = "LAST" \in e.flags,
            !.status = IF {"LAST", "SNAPSHOT"} \subseteq e.flags /\ @ = "SNAPSHOT_LOADING"
                       THEN "SNAPSHOT_READY" ELSE @]

-----------------------------------------------------------------------------
(* Orders and levels.                                                      *)

AddToLevel(b, id, o) ==
  LET level == IF o.price \in DOMAIN b.levels[o.side] THEN b.levels[o.side][o.price]
               ELSE [count |-> 0, total |-> 0, ids |-> {}]
  IN  [b EXCEPT !.levels[o.side] = Put(@, o.price, [count |-> level.count + 1,
                                                    total |-> level.total + o.size,
                                                    ids |-> level.ids \cup {id}]),
                !.sideIds[o.side] = @ \cup {id}]

\* A level that has become empty or negative is removed.
StoreLevel(b, side, price, level) ==
  IF level.total < 0 \/ level.count < 0
  THEN NegativeLevel([b EXCEPT !.levels[side] = Drop(@, price)])
  ELSE IF level.total = 0 \/ level.count = 0
  THEN [b EXCEPT !.levels[side] = Drop(@, price)]
  ELSE [b EXCEPT !.levels[side][price] = level]

RemoveFromLevel(b, id, o) ==
  LET unlisted == [b EXCEPT !.sideIds[o.side] = @ \ {id}]
  IN  IF o.price \notin DOMAIN b.levels[o.side] THEN NegativeLevel(unlisted)
      ELSE LET level == b.levels[o.side][o.price]
           IN  StoreLevel(unlisted, o.side, o.price,
                          [count |-> level.count - 1, total |-> level.total - o.size,
                           ids |-> level.ids \ {id}])

Clear(b) == [b EXCEPT !.orders = <<>>, !.levels = [s \in Sides |-> <<>>],
                      !.sideIds = [s \in Sides |-> {}]]

TakeOut(id, b) ==
  IF id \notin DOMAIN b.orders THEN b
  ELSE RemoveFromLevel([b EXCEPT !.orders = Drop(@, id)], id, b.orders[id])

ClearSide(b, side) == FoldSet(TakeOut, b, b.sideIds[side])

\* The checks of side, price and size that an added or modified order has to pass.
Acceptable(e) == e.side \in Sides /\ e.price # UndefPrice /\ e.size > 0

NewOrder(e) == [side |-> e.side, price |-> e.price, size |-> e.size]

ApplyAdd(b, e) ==
  LET cleared == IF "TOB" \notin e.flags THEN b
                 ELSE IF e.side \in Sides THEN ClearSide(b, e.side) ELSE WarnIfComplete(b)
  IN  IF "TOB" \in e.flags /\ e.price = UndefPrice THEN WarnIfComplete(cleared)
      ELSE IF ~Acceptable(e) \/ e.id \in DOMAIN cleared.orders THEN WarnIfComplete(cleared)
      ELSE AddToLevel([cleared EXCEPT !.orders = Put(@, e.id, NewOrder(e))], e.id, NewOrder(e))

\* An unknown order is counted by phase, but only after the snapshot is it a warning.
UnknownOrder(b) == WarnIfComplete(b)

\* A cancel may be partial; one larger than the order is cut to its size.
ApplyCancel(b, e) ==
  IF e.id \notin DOMAIN b.orders THEN UnknownOrder(b)
  ELSE IF e.size = 0 THEN WarnIfComplete(b)
  ELSE LET o == b.orders[e.id]
           cut == Min({e.size, o.size})
           w == IF e.size > o.size THEN WarnIfComplete(b) ELSE b
           gone == cut = o.size
           left == IF gone
                   THEN [w EXCEPT !.orders = Drop(@, e.id), !.sideIds[o.side] = @ \ {e.id}]
                   ELSE [w EXCEPT !.orders[e.id].size = @ - cut]
       IN  IF o.price \notin DOMAIN b.levels[o.side]
           THEN NegativeLevel([w EXCEPT !.orders = Drop(@, e.id),
                                        !.sideIds[o.side] = @ \ {e.id}])
           ELSE LET level == b.levels[o.side][o.price]
                IN  StoreLevel(left, o.side, o.price,
                      [count |-> IF gone THEN level.count - 1 ELSE level.count,
                       total |-> level.total - cut,
                       ids |-> IF gone THEN level.ids \ {e.id} ELSE level.ids])

ApplyModifyNewSize(b, e) ==   \* mutant: the level loses what the order is to become
  IF e.id \notin DOMAIN b.orders \/ ~Acceptable(e) THEN WarnIfComplete(b)
  ELSE LET old == [b.orders[e.id] EXCEPT !.size = e.size]
       IN  AddToLevel([RemoveFromLevel(b, e.id, old) EXCEPT !.orders = Put(@, e.id, NewOrder(e))],
                      e.id, NewOrder(e))

ApplyModify(b, e) ==
  IF e.id \notin DOMAIN b.orders THEN UnknownOrder(b)
  ELSE IF ~Acceptable(e) THEN WarnIfComplete(b)
  ELSE LET removed == RemoveFromLevel(b, e.id, b.orders[e.id])
       IN  AddToLevel([removed EXCEPT !.orders = Put(@, e.id, NewOrder(e))],
                      e.id, NewOrder(e))

\* Trades, fills and other records leave the book alone.
ApplyAction(b, e) ==
  CASE e.action = "R" -> Clear(b)
    [] e.action = "A" -> ApplyAdd(b, e)
    [] e.action = "M" -> ApplyModify(b, e)
    [] e.action = "C" -> ApplyCancel(b, e)
    [] OTHER -> b

ApplyEvent(b, e) ==
  IF IsDuplicate(b, e) THEN [b EXCEPT !.consistent = "LAST" \in e.flags]
  ELSE LET seen == ObservePhase(Remember(b, e), e)
       IN  IF AcceptsInstrument(seen, e)
           THEN FinishGroup(ApplyAction([seen EXCEPT !.primary = e.instrument], e), e)
           ELSE FinishGroup(WarnIfComplete(seen), e)

\* What apply returns: the event closed a group.
Completes(b, e) == ~IsDuplicate(b, e) /\ "LAST" \in e.flags

-----------------------------------------------------------------------------
(* Reading the book.                                                       *)

Best(b, side) ==
  LET prices == DOMAIN b.levels[side]
  IN  IF side = "B" THEN Max(prices) ELSE Min(prices)

\* The k-th best prices of a side, as _copy_level gives them.
Depth(b, side, n) ==
  LET prices == DOMAIN b.levels[side]
      better(p) == {q \in prices : IF side = "B" THEN q > p ELSE q < p}
      at(k) == CHOOSE p \in prices : Cardinality(better(p)) = k - 1
  IN  [k \in 1 .. Min({n, Cardinality(prices)}) |->
         [price |-> at(k), count |-> b.levels[side][at(k)].count,
          total |-> b.levels[side][at(k)].total]]

Snapshot(b, n) == [s \in Sides |-> Depth(b, s, n)]

\* The book behind the first events of a file.
BookAfter(s, n) ==
  LET books[k \in 0 .. n] == IF k = 0 THEN EmptyBook ELSE ApplyEvent(books[k - 1], s[k])
  IN  books[n]

-----------------------------------------------------------------------------
BookInit == book = EmptyBook

Receive(e) ==
  /\ book.warnings < MaxWarnings
  /\ book' = ApplyEvent(book, e)

BookNext == \E e \in Events : Receive(e)

BookSpec == BookInit /\ [][BookNext]_book

-----------------------------------------------------------------------------
(* What the levels should be, from the orders alone.                      *)

\* The orders that rest on a side at a price.
Resting(orders, side, price) ==
  {id \in DOMAIN orders : orders[id].side = side /\ orders[id].price = price}

Occupied(orders, side) == {p \in Prices : Resting(orders, side, p) # {}}

LevelOf(orders, side, price) ==
  LET ids == Resting(orders, side, price)
  IN  [count |-> Cardinality(ids), ids |-> ids,
       total |-> SumFunctionOnSet([id \in DOMAIN orders |-> orders[id].size], ids)]

LevelsOf(orders) ==
  [s \in Sides |-> [p \in Occupied(orders, s) |-> LevelOf(orders, s, p)]]

IdsOf(orders) == [s \in Sides |-> {id \in DOMAIN orders : orders[id].side = s}]

\* After any sequence of events the levels kept incrementally are exactly the
\* aggregate of the orders: a level per price with a resting order, with their
\* number, their total size and their ids; the ids of a side are its orders; and
\* no level was ever found missing or negative.
LevelsAggregateOrders ==
  /\ book.levels = LevelsOf(book.orders)
  /\ book.sideIds = IdsOf(book.orders)
  /\ book.negative = 0
=============================================================================
