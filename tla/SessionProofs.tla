---------------------------- MODULE SessionProofs ----------------------------
(***************************************************************************)
(* Proofs about DailySession, for any files, strategies, signals, groups   *)
(* and slippage: the trades a session judges its candidates by could have  *)
(* been made, and the streaming backtest of the gate trades every intent   *)
(* as run() simulates it, unless another position is in the way.  Both     *)
(* need an invariant of the whole session: what is known of a candidate    *)
(* while the file is read, and of a run while the gate replays the events. *)
(***************************************************************************)
EXTENDS MarketDataProofs

-----------------------------------------------------------------------------
(* Sequences.                                                              *)

IsSeq(s) == \E S : s \in Seq(S)

LEMMA AppendParts ==
  ASSUME NEW s, IsSeq(s), NEW x
  PROVE  /\ IsSeq(Append(s, x)) /\ Len(s) \in Nat /\ Len(Append(s, x)) = Len(s) + 1
         /\ \A k \in 1 .. Len(s) : Append(s, x)[k] = s[k]
         /\ Append(s, x)[Len(s) + 1] = x
<1>1. PICK S : s \in Seq(S)
  BY DEF IsSeq
<1>2. PICK T : T = S \cup {x}
  OBVIOUS
<1>3. s \in Seq(T) /\ x \in T
  BY <1>1, <1>2
<1>4. Append(s, x) \in Seq(T)
  BY <1>3
<1> QED
  BY <1>3, <1>4 DEF IsSeq

LEMMA ConcatParts ==
  ASSUME NEW s, IsSeq(s), NEW t, IsSeq(t)
  PROVE  /\ IsSeq(s \o t) /\ Len(s) \in Nat /\ Len(t) \in Nat /\ Len(s \o t) = Len(s) + Len(t)
         /\ \A k \in 1 .. Len(s) : (s \o t)[k] = s[k]
         /\ \A k \in 1 .. Len(t) : (s \o t)[Len(s) + k] = t[k]
<1>1. PICK S, T : s \in Seq(S) /\ t \in Seq(T)
  BY DEF IsSeq
<1>2. PICK U : U = S \cup T
  OBVIOUS
<1>3. s \in Seq(U) /\ t \in Seq(U)
  BY <1>1, <1>2
<1>4. s \o t \in Seq(U)
  BY <1>3
<1> QED
  BY <1>3, <1>4 DEF IsSeq

LEMMA SubSeqParts ==
  ASSUME NEW s, IsSeq(s), NEW m \in Nat, NEW n \in Nat, m >= 1, n <= Len(s), m <= n + 1
  PROVE  /\ IsSeq(SubSeq(s, m, n)) /\ Len(s) \in Nat /\ Len(SubSeq(s, m, n)) = (n - m) + 1
         /\ \A k \in 1 .. (n - m) + 1 : SubSeq(s, m, n)[k] = s[(k + m) - 1]
<1>1. PICK S : s \in Seq(S)
  BY DEF IsSeq
<1>2. SubSeq(s, m, n) \in Seq(S)
  BY <1>1
<1>3. Len(SubSeq(s, m, n)) = (n - m) + 1
  BY <1>1
<1>4. \A k \in 1 .. (n - m) + 1 : SubSeq(s, m, n)[k] = s[(k + m) - 1]
  BY <1>1
<1> QED
  BY <1>1, <1>2, <1>3, <1>4 DEF IsSeq

LEMMA HeadParts ==
  ASSUME NEW s, IsSeq(s), s # <<>>
  PROVE  /\ IsSeq(Tail(s)) /\ Len(s) \in Nat /\ Len(s) >= 1 /\ Len(Tail(s)) = Len(s) - 1
         /\ Head(s) = s[1]
         /\ \A k \in 1 .. Len(s) - 1 : Tail(s)[k] = s[k + 1]
<1>1. PICK S : s \in Seq(S)
  BY DEF IsSeq
<1>2. Tail(s) \in Seq(S)
  BY <1>1
<1> QED
  BY <1>1, <1>2 DEF IsSeq

-----------------------------------------------------------------------------
(* The best price of a side that is not empty.                             *)

LEMMA GreatestPlace ==
  ASSUME NEW S \in SUBSET Nat, IsFiniteSet(S), S # {}
  PROVE  Max(S) \in S /\ \A i \in S : Max(S) >= i
<1> DEFINE Above(x) == {y \in S : y > x}
           counts == {Cardinality(Above(x)) : x \in S}
<1>1. \A x \in S : IsFiniteSet(Above(x)) /\ Cardinality(Above(x)) \in Nat
  BY FS_Subset, FS_CardinalityType
<1>2. counts \in SUBSET Nat /\ counts # {}
  BY <1>1
<1>3. PICK m \in counts : \A n \in counts : m <= n
  BY <1>2, LeastNatural
<1>4. PICK x \in S : m = Cardinality(Above(x))
  BY <1>3
<1>5. ASSUME NEW y \in S, y > x PROVE FALSE
  <2>1. Above(y) \subseteq Above(x) /\ y \in Above(x) /\ y \notin Above(y)
    <3>1. x \in Nat /\ y \in Nat /\ \A z \in S : z \in Nat
      OBVIOUS
    <3>2. ~(y > y) /\ \A z \in S : z > y => z > x
      BY ONLY <1>5, <3>1
    <3> QED
      BY <1>5, <3>2
  <2>2. Cardinality(Above(y)) < Cardinality(Above(x))
    <3>1. PICK A, B : A = Above(y) /\ B = Above(x)
      OBVIOUS
    <3>2. IsFiniteSet(A) /\ IsFiniteSet(B) /\ A \subseteq B /\ A # B
      BY <1>1, <2>1, <3>1
    <3>3. Cardinality(A) <= Cardinality(B) /\ Cardinality(A) # Cardinality(B)
      BY <3>2, FS_Subset
    <3>4. Cardinality(A) \in Nat /\ Cardinality(B) \in Nat
      BY <3>2, FS_CardinalityType
    <3> HIDE DEF Above
    <3> QED
      BY ONLY <3>1, <3>3, <3>4
  <2>3. m <= Cardinality(Above(y))
    BY <1>3
  <2>4. Cardinality(Above(y)) \in Nat /\ Cardinality(Above(x)) \in Nat
    BY <1>1
  <2> QED
    BY <1>4, <2>2, <2>3, <2>4
<1>6. \E z \in S : \A i \in S : z >= i
  BY <1>5
<1> QED
  BY <1>6 DEF Max

LEMMA BestIsThere ==
  ASSUME NEW b, Sound(b), NEW s \in Sides, DOMAIN b.levels[s] # {}
  PROVE  Best(b, s) \in Nat /\ b.levels[s][Best(b, s)].total \in Nat
<1> DEFINE D == DOMAIN b.levels[s]
<1>1. IsOrders(b.orders) /\ b.levels[s] = [q \in Occupied(b.orders, s) |-> LevelOf(b.orders, s, q)]
  BY SideLevels DEF Sound, Agrees
<1>2. D = Occupied(b.orders, s)
  BY <1>1
<1>3. D \in SUBSET Nat
  BY <1>2, BookAssumption DEF Occupied
<1>4. IsFiniteSet(D)
  <2> DEFINE f == [id \in DOMAIN b.orders |-> b.orders[id].price]
  <2>1. f \in Surjection(DOMAIN b.orders, {f[id] : id \in DOMAIN b.orders})
    BY DEF Surjection
  <2>2. IsFiniteSet({f[id] : id \in DOMAIN b.orders})
    BY <1>1, <2>1, FS_Surjection DEF IsOrders
  <2>3. D \subseteq {f[id] : id \in DOMAIN b.orders}
    BY <1>2 DEF Occupied, Resting
  <2> QED
    BY <2>2, <2>3, FS_Subset
<1>5. Best(b, s) \in D
  BY <1>3, <1>4, GreatestPlace, LeastPlace DEF Best
<1> QED
  BY <1>1, <1>2, <1>3, <1>5, LevelTotal

LEMMA GreaterOfTwo ==
  ASSUME NEW x \in Int
  PROVE  Max({0, x}) \in Nat
<1>1. \E z \in {0, x} : \A i \in {0, x} : z >= i
  OBVIOUS
<1>2. Max({0, x}) \in {0, x} /\ \A i \in {0, x} : Max({0, x}) >= i
  BY <1>1 DEF Max
<1> QED
  BY <1>2

-----------------------------------------------------------------------------
(* What the fast trades of a candidate rest on while the file is read.     *)

IsDayFile(s) == /\ Len(s) \in Nat
                /\ \A n \in 1 .. Len(s) : IsEvent(s[n]) /\ s[n].ts \in Int /\ s[n].price \in Int

\* The times of a file do not run back.
TimesInOrder(s) == \A k, n \in 1 .. Len(s) : k < n => s[k].ts <= s[n].ts

\* A print a candidate looks at.
LooksAt(s, k) == s[k].action = "T" /\ InDay(BookAfter(s, k), s[k])

\* A position of which no print among the first n was a reason to leave it.
PositionOk(s, p, g, n) ==
  /\ p.decision \in Int /\ p.entry \in Int /\ p.price \in Int /\ p.stop \in Int /\ p.target \in Int
  /\ p.entry >= p.decision + Latency /\ FilledAtQuote(s, p)
  /\ \E k \in 1 .. Len(s) : k <= n + 1 /\ s[k].ts = p.entry
  /\ TimesInOrder(s) => \A k \in 1 .. n : LooksAt(s, k) /\ s[k].ts > p.entry =>
                     Reason(p, SpecOf[g], s[k].ts, s[k].price) = "NONE"

TradeOk(s, t, g) ==
  /\ t.decision \in Int /\ t.exit \in Int
  /\ t.entry >= t.decision + Latency /\ FilledAtQuote(s, t)
  /\ TimesInOrder(s) => FirstTouch(s, t, SpecOf[g]) /\ t.decision <= t.exit

TradesOk(s, trades, g) ==
  /\ IsSeq(trades)
  /\ \A k \in 1 .. Len(trades) : TradeOk(s, trades[k], g)
  /\ \A k \in 2 .. Len(trades) : trades[k].decision >= trades[k - 1].exit + SpecOf[g].cooldown

\* A candidate behind the first n events.
CandidateOk(s, c, g, n) ==
  /\ c = [open |-> c.open, pending |-> c.pending, cooldownUntil |-> c.cooldownUntil,
          trades |-> c.trades]
  /\ TradesOk(s, c.trades, g) /\ c.cooldownUntil \in Int
  /\ c.open = <<>> \/ c.pending = <<>>
  /\ Len(c.trades) > 0 => c.cooldownUntil = c.trades[Len(c.trades)].exit + SpecOf[g].cooldown
  /\ c.pending # <<>> => /\ c.pending = <<c.pending[1]>> /\ c.pending[1].decision \in Int
                         /\ c.pending[1].readyAt = c.pending[1].decision + Latency
                         /\ c.pending[1].decision >= c.cooldownUntil
  /\ c.open # <<>> => /\ c.open = <<c.open[1]>> /\ PositionOk(s, c.open[1], g, n)
                      /\ c.open[1].decision >= c.cooldownUntil

LEMMA SpecIsTyped ==
  ASSUME NEW g \in Groups
  PROVE  /\ SpecOf[g].stop \in Int /\ SpecOf[g].target \in Int /\ SpecOf[g].cooldown \in Int
         /\ SpecOf[g].timeStop \in Int /\ SpecOf[g].minimumLiquidity \in Int
BY SessionAssumption

LEMMA TrustIsTyped ==
  ASSUME NEW g \in Groups
  PROVE  Trusted(SpecOf[g]) \in Int
<1>1. PICK l, m : l = SpecOf[g].minimumLiquidity /\ m = RequiredContracts + 3
  OBVIOUS
<1>2. l \in Int /\ m \in Int
  BY <1>1, SpecIsTyped DEF RequiredContracts
<1>3. Min({l, m}) = IF l <= m THEN l ELSE m
  BY ONLY <1>2 DEF Min
<1> QED
  BY <1>1, <1>2, <1>3 DEF Trusted

LEMMA NewIsOk ==
  ASSUME NEW s, NEW g \in Groups
  PROVE  CandidateOk(s, NewRuntime, g, 0)
<1>1. NewRuntime.trades = <<>> /\ IsSeq(<<>>) /\ Len(<<>>) = 0
  BY DEF NewRuntime, IsSeq
<1> QED
  BY <1>1 DEF CandidateOk, TradesOk, NewRuntime

\* The fields of a position and a trade which the properties look at.
Alike(p, t) == /\ t.direction = p.direction /\ t.decision = p.decision /\ t.entry = p.entry
               /\ t.price = p.price /\ t.stop = p.stop /\ t.target = p.target

LEMMA AlikeMeans ==
  ASSUME NEW p, NEW t, Alike(p, t), NEW s, NEW spec
  PROVE  /\ FilledAtQuote(s, p) <=> FilledAtQuote(s, t)
         /\ \A ts, price : Reason(p, spec, ts, price) = Reason(t, spec, ts, price)
BY DEF Alike, FilledAtQuote, Reason

\* A print that is no stop and no target lies between the two.
LEMMA BetweenLevels ==
  ASSUME NEW t, t.stop \in Int, t.target \in Int, NEW spec, NEW ts, NEW price \in Int,
         Reason(t, spec, ts, price) = "TIME_STOP"
  PROVE  Sign(t.direction) * (price - t.stop) > 0 /\ Sign(t.direction) * (price - t.target) < 0
<1>1. PICK x, a, b : x = Sign(t.direction) /\ a = t.stop /\ b = t.target
  OBVIOUS
<1>2. x \in {1, -1} /\ a \in Int /\ b \in Int
  BY <1>1 DEF Sign
<1>3. ~(x * price <= x * a) /\ ~(x * price >= x * b)
  BY <1>1 DEF Reason
<1>4. x * (price - a) > 0 /\ x * (price - b) < 0
  <2>1. CASE x = 1
    BY ONLY <1>2, <1>3, <2>1, price \in Int
  <2>2. CASE x = -1
    BY ONLY <1>2, <1>3, <2>2, price \in Int
  <2> QED
    BY <1>2, <2>1, <2>2
<1> QED
  BY <1>1, <1>4

\* A position that is closed at event j, every earlier one being no reason to.
LEMMA ClosedIsOk ==
  ASSUME NEW s, IsDayFile(s), NEW g \in Groups, NEW n, NEW p, PositionOk(s, p, g, n),
         NEW j \in 1 .. Len(s), \A k \in 1 .. Len(s) : k < j => k \in 1 .. n,
         \A k \in 1 .. Len(s) : k <= n + 1 => k <= j,
         NEW t, Alike(p, t), t.exit = s[j].ts,
         \/ t.reason = "END_OF_DATA"
         \/ LooksAt(s, j) /\ t.reason = Reason(p, SpecOf[g], s[j].ts, s[j].price)
  PROVE  TradeOk(s, t, g)
<1>1. /\ t.decision \in Int /\ t.exit \in Int /\ t.entry \in Int /\ t.stop \in Int /\ t.target \in Int
      /\ t.entry >= t.decision + Latency /\ FilledAtQuote(s, t)
  BY AlikeMeans DEF PositionOk, Alike, IsDayFile
<1>2. \A ts, price : Reason(p, SpecOf[g], ts, price) = Reason(t, SpecOf[g], ts, price)
  BY AlikeMeans
<1>3. ASSUME t.reason # "END_OF_DATA"
      PROVE  s[j].price \in Prints(s, t.exit) /\ s[j].price \in Int
             /\ Reason(t, SpecOf[g], t.exit, s[j].price) = t.reason
  BY <1>2, <1>3 DEF Prints, LooksAt, IsDayFile
<1>4. ASSUME TimesInOrder(s), NEW ts \in t.entry + 1 .. t.exit - 1, NEW price \in Prints(s, ts)
      PROVE  Reason(t, SpecOf[g], ts, price) = "NONE"
  <2>1. PICK k \in 1 .. Len(s) : s[k].ts = ts /\ LooksAt(s, k) /\ price = s[k].price
    BY <1>4 DEF Prints, LooksAt
  <2>2. ts \in Int /\ ts > t.entry /\ ts < t.exit
    BY <1>1, <1>4
  <2>3. Len(s) \in Nat
    BY DEF IsDayFile
  <2>4. ~(j <= k)
    <3>1. j < k => s[j].ts <= s[k].ts
      BY <1>4 DEF TimesInOrder
    <3>2. s[j].ts \in Int /\ s[j].ts = t.exit
      BY DEF IsDayFile
    <3>3. k \in Int /\ j \in Int
      BY <2>3
    <3>4. k # j
      BY <1>1, <2>1, <2>2, <3>2
    <3> QED
      BY <1>1, <2>1, <2>2, <3>1, <3>2, <3>3, <3>4
  <2>5. k \in 1 .. n
    BY <2>3, <2>4
  <2>6. Reason(p, SpecOf[g], s[k].ts, s[k].price) = "NONE"
    <3>1. s[k].ts > p.entry
      BY <2>1, <2>2 DEF Alike
    <3> QED
      BY <1>4, <2>1, <2>5, <3>1 DEF PositionOk
  <2> QED
    BY <1>2, <2>1, <2>6
<1>5. ASSUME t.reason = "TIME_STOP"
      PROVE  \E price \in Prints(s, t.exit) : /\ Sign(t.direction) * (price - t.stop) > 0
                                              /\ Sign(t.direction) * (price - t.target) < 0
  <2>1. /\ s[j].price \in Prints(s, t.exit) /\ s[j].price \in Int
        /\ Reason(t, SpecOf[g], t.exit, s[j].price) = "TIME_STOP"
    BY <1>3, <1>5
  <2> QED
    BY <1>1, <2>1, BetweenLevels
<1>6. TimesInOrder(s) => FirstTouch(s, t, SpecOf[g])
  BY <1>3, <1>4, <1>5 DEF FirstTouch
<1>7. ASSUME TimesInOrder(s) PROVE t.decision <= t.exit
  <2>1. PICK k \in 1 .. Len(s) : k <= j /\ s[k].ts = t.entry
    BY DEF PositionOk, Alike
  <2>2. k \in Int /\ j \in Int /\ s[j].ts \in Int /\ (k = j \/ k < j)
    BY <2>1 DEF IsDayFile
  <2>3. s[k].ts <= s[j].ts
    BY <1>7, <2>2 DEF TimesInOrder
  <2>4. t.entry <= t.exit /\ Latency \in Nat
    BY <2>1, <2>3, BacktestAssumption
  <2> QED
    BY <1>1, <2>4
<1> QED
  BY <1>1, <1>6, <1>7 DEF TradeOk

\* One trade more, decided when the cooldown of the last one was over.
LEMMA OneTradeMore ==
  ASSUME NEW s, NEW g \in Groups, NEW trades, TradesOk(s, trades, g), NEW t, TradeOk(s, t, g),
         Len(trades) > 0 => t.decision >= trades[Len(trades)].exit + SpecOf[g].cooldown
  PROVE  /\ TradesOk(s, Append(trades, t), g) /\ Len(Append(trades, t)) > 0
         /\ Append(trades, t)[Len(Append(trades, t))] = t
<1>1. PICK m : m = Append(trades, t)
  OBVIOUS
<1>2. PICK l : l = Len(trades)
  OBVIOUS
<1>3. /\ IsSeq(m) /\ l \in Nat /\ Len(m) = l + 1
      /\ \A k \in 1 .. l : m[k] = trades[k]
      /\ m[l + 1] = t
  BY <1>1, <1>2, AppendParts DEF TradesOk
<1>4. ASSUME NEW k \in 1 .. Len(m) PROVE TradeOk(s, m[k], g)
  <2>1. k \in 1 .. l \/ k = l + 1
    BY <1>3
  <2> QED
    BY <1>2, <1>3, <2>1 DEF TradesOk
<1>5. ASSUME NEW k \in 2 .. Len(m) PROVE m[k].decision >= m[k - 1].exit + SpecOf[g].cooldown
  <2>1. CASE k \in 2 .. l
    <3>1. k \in 1 .. l /\ k - 1 \in 1 .. l
      BY <1>3, <2>1
    <3> QED
      BY <1>2, <1>3, <2>1, <3>1 DEF TradesOk
  <2>2. CASE k = l + 1
    <3>1. k - 1 = l /\ l \in 1 .. l /\ l > 0
      BY <1>3, <1>5, <2>2
    <3> QED
      BY <1>2, <1>3, <2>2, <3>1
  <2> QED
    BY <1>3, <2>1, <2>2
<1> QED
  BY <1>1, <1>3, <1>4, <1>5 DEF TradesOk

\* A latency-delayed entry at the live book, or none.
LEMMA EntryIsOk ==
  ASSUME NEW s, IsDayFile(s), NEW g \in Groups, NEW n \in Nat, n + 1 \in 1 .. Len(s),
         NEW d, NEW q, q.decision \in Int, s[n + 1].ts >= q.decision + Latency,
         NEW side, side = (IF d = "long" THEN "A" ELSE "B"),
         DOMAIN BookAfter(s, n + 1).levels[side] # {}, NEW x \in Nat,
         NEW p, p.direction = d, p.decision = q.decision, p.entry = s[n + 1].ts,
         p.price = Best(BookAfter(s, n + 1), side) + Sign(d) * (EntrySlip + x),
         p.stop = p.price - Sign(d) * SpecOf[g].stop, p.target = p.price + Sign(d) * SpecOf[g].target
  PROVE  PositionOk(s, p, g, n)
<1>1. PICK b, best, u : b = BookAfter(s, n + 1) /\ best = Best(b, side) /\ u = Sign(d)
  OBVIOUS
<1>2. u \in {1, -1} /\ EntrySlip \in Nat /\ SpecOf[g].stop \in Int /\ SpecOf[g].target \in Int
  BY <1>1, SpecIsTyped, BacktestAssumption DEF Sign
<1>3. best \in Nat
  <2>1. Sound(b)
    BY <1>1, BooksAreSound DEF IsDayFile
  <2>2. side \in Sides
    BY DEF Sides
  <2> QED
    BY <1>1, <2>1, <2>2, BestIsThere
<1>4. PICK v : v = p.price /\ v = best + u * (EntrySlip + x)
  BY <1>1
<1>5. v \in Int /\ u * (v - best) >= EntrySlip
  <2>1. CASE u = 1
    BY ONLY <1>2, <1>3, <1>4, <2>1, x \in Nat
  <2>2. CASE u = -1
    BY ONLY <1>2, <1>3, <1>4, <2>2, x \in Nat
  <2> QED
    BY <1>2, <2>1, <2>2
<1>6. v - u * SpecOf[g].stop \in Int /\ v + u * SpecOf[g].target \in Int
  <2>1. CASE u = 1
    BY ONLY <1>2, <1>5, <2>1
  <2>2. CASE u = -1
    BY ONLY <1>2, <1>5, <2>2
  <2> QED
    BY ONLY <1>2, <2>1, <2>2
<1>7. p.price \in Int /\ p.stop \in Int /\ p.target \in Int
  BY <1>1, <1>4, <1>5, <1>6
<1>8. FilledAtQuote(s, p)
  <2>1. s[n + 1].ts = p.entry /\ DOMAIN BookAfter(s, n + 1).levels[side] # {}
    OBVIOUS
  <2>2. Sign(p.direction) * (p.price - Best(BookAfter(s, n + 1), side)) >= EntrySlip
    BY <1>1, <1>4, <1>5
  <2>3. side = IF p.direction = "long" THEN "A" ELSE "B"
    OBVIOUS
  <2> QED
    BY <2>1, <2>2, <2>3 DEF FilledAtQuote
<1>9. ASSUME TimesInOrder(s), NEW k \in 1 .. n PROVE ~(s[k].ts > p.entry)
  <2>1. k \in 1 .. Len(s) /\ k < n + 1
    BY DEF IsDayFile
  <2>2. s[k].ts <= s[n + 1].ts /\ s[k].ts \in Int /\ s[n + 1].ts \in Int
    BY <1>9, <2>1 DEF TimesInOrder, IsDayFile
  <2> QED
    BY <2>2
<1>10. p.decision \in Int /\ p.entry \in Int /\ p.entry >= p.decision + Latency
  BY DEF IsDayFile
<1>11. \E k \in 1 .. Len(s) : k <= n + 1 /\ s[k].ts = p.entry
  OBVIOUS
<1> QED
  BY <1>7, <1>8, <1>9, <1>10, <1>11 DEF PositionOk

LEMMA ResolvedIsOk ==
  ASSUME NEW s, IsDayFile(s), NEW g \in Groups, NEW n \in Nat, n + 1 \in 1 .. Len(s),
         NEW c, CandidateOk(s, c, g, n)
  PROVE  CandidateOk(s, ResolvePending(c, SpecOf[g], s[n + 1].ts, BookAfter(s, n + 1)), g, n)
<1> DEFINE b == BookAfter(s, n + 1)
           q == c.pending[1]
           d == q.direction
           side == IF d = "long" THEN "A" ELSE "B"
           shortfall == Max({0, Trusted(SpecOf[g]) - b.levels[side][Best(b, side)].total})
           price == Best(b, side) + Sign(d) * (EntrySlip + shortfall)
           p == [direction |-> d, decision |-> q.decision, entry |-> s[n + 1].ts, price |-> price,
                 stop |-> price - Sign(d) * SpecOf[g].stop,
                 target |-> price + Sign(d) * SpecOf[g].target]
           tradable == /\ DOMAIN b.levels["B"] # {} /\ DOMAIN b.levels["A"] # {}
                       /\ 0 < Best(b, "B") /\ Best(b, "B") < Best(b, "A")
           r == ResolvePending(c, SpecOf[g], s[n + 1].ts, b)
<1>1. CASE c.pending = <<>> \/ s[n + 1].ts < q.readyAt
  BY <1>1 DEF ResolvePending
<1>2. CASE c.pending # <<>> /\ ~(s[n + 1].ts < q.readyAt)
  <2>1. \/ r = [c EXCEPT !.pending = <<>>]
        \/ c.open = <<>> /\ tradable /\ r = [c EXCEPT !.pending = <<>>, !.open = <<p>>]
    BY <1>2 DEF ResolvePending
  <2>2. ASSUME r = [c EXCEPT !.pending = <<>>] PROVE CandidateOk(s, r, g, n)
    <3> HIDE DEF r
    <3>1. r = [open |-> c.open, pending |-> <<>>, cooldownUntil |-> c.cooldownUntil,
               trades |-> c.trades]
      BY <2>2 DEF CandidateOk
    <3>2. /\ r.open = c.open /\ r.pending = <<>> /\ r.cooldownUntil = c.cooldownUntil
          /\ r.trades = c.trades
      BY <3>1
    <3> QED
      BY <3>1, <3>2 DEF CandidateOk
  <2>3. ASSUME tradable, r = [c EXCEPT !.pending = <<>>, !.open = <<p>>]
        PROVE  CandidateOk(s, r, g, n)
    <3>1. q.decision \in Int /\ s[n + 1].ts >= q.decision + Latency /\ q.decision >= c.cooldownUntil
      <4>1. q.decision \in Int /\ q.readyAt = q.decision + Latency /\ q.decision >= c.cooldownUntil
        BY <1>2 DEF CandidateOk
      <4>2. s[n + 1].ts \in Int /\ Latency \in Int
        BY BacktestAssumption DEF IsDayFile
      <4> QED
        BY <1>2, <4>1, <4>2
    <3>2. side \in Sides /\ DOMAIN b.levels[side] # {}
      BY <2>3 DEF Sides
    <3>3. Sound(b)
      BY BooksAreSound DEF IsDayFile
    <3>4. b.levels[side][Best(b, side)].total \in Nat /\ Trusted(SpecOf[g]) \in Int
      BY <3>2, <3>3, BestIsThere, TrustIsTyped
    <3>5. shortfall \in Nat
      <4>1. PICK l, y : /\ l = Trusted(SpecOf[g])
                        /\ y = b.levels[side][Best(b, side)].total
        OBVIOUS
      <4>2. l \in Int /\ y \in Nat
        BY <3>4, <4>1, Zenon
      <4>3. shortfall = Max({0, l - y})
        BY <4>1, Zenon
      <4>4. Max({0, l - y}) \in Nat
        BY ONLY <4>2, GreaterOfTwo
      <4> QED
        BY ONLY <4>3, <4>4
    <3>6. /\ p.direction = d /\ p.decision = q.decision /\ p.entry = s[n + 1].ts
          /\ p.price = Best(BookAfter(s, n + 1), side) + Sign(d) * (EntrySlip + shortfall)
          /\ p.stop = p.price - Sign(d) * SpecOf[g].stop
          /\ p.target = p.price + Sign(d) * SpecOf[g].target
      OBVIOUS
    <3>7. PositionOk(s, p, g, n)
      <4>1. PICK x, pp : x = shortfall /\ pp = p
        OBVIOUS
      <4> HIDE DEF p, shortfall
      <4>2. PositionOk(s, pp, g, n)
        BY <3>1, <3>2, <3>5, <3>6, <4>1, EntryIsOk
      <4> QED
        BY <4>1, <4>2
    <3>8. p.decision = q.decision
      OBVIOUS
    <3>9. PICK pp : pp = p
      OBVIOUS
    <3> HIDE DEF r, p
    <3>10. r = [open |-> <<pp>>, pending |-> <<>>, cooldownUntil |-> c.cooldownUntil,
                trades |-> c.trades]
      BY <2>3, <3>9 DEF CandidateOk
    <3>11. /\ r.open = <<pp>> /\ r.pending = <<>> /\ r.cooldownUntil = c.cooldownUntil
           /\ r.trades = c.trades /\ r.open[1] = pp
      BY <3>10
    <3>12. PositionOk(s, pp, g, n) /\ pp.decision >= c.cooldownUntil
      BY <3>1, <3>7, <3>8, <3>9
    <3> QED
      BY <3>10, <3>11, <3>12 DEF CandidateOk
  <2> QED
    BY <2>1, <2>2, <2>3
<1> QED
  BY <1>1, <1>2

LEMMA LaterPlace ==
  ASSUME NEW s, IsDayFile(s), NEW n \in Nat, NEW ts, \E k \in 1 .. Len(s) : k <= n + 1 /\ s[k].ts = ts
  PROVE  \E k \in 1 .. Len(s) : k <= (n + 1) + 1 /\ s[k].ts = ts
<1>1. PICK k \in 1 .. Len(s) : k <= n + 1 /\ s[k].ts = ts
  OBVIOUS
<1>2. k \in Int /\ k <= (n + 1) + 1
  BY <1>1 DEF IsDayFile
<1> QED
  BY <1>1, <1>2

\* Without a print to look at nothing happens to a position.
LEMMA NotLookedAt ==
  ASSUME NEW s, IsDayFile(s), NEW g \in Groups, NEW n \in Nat, NEW c, CandidateOk(s, c, g, n),
         ~LooksAt(s, n + 1)
  PROVE  CandidateOk(s, c, g, n + 1)
<1>1. c.open # <<>> => PositionOk(s, c.open[1], g, n + 1)
  <2>0. ASSUME c.open # <<>>
        PROVE  \E k \in 1 .. Len(s) : k <= (n + 1) + 1 /\ s[k].ts = c.open[1].entry
    BY <2>0, LaterPlace DEF CandidateOk, PositionOk
  <2> SUFFICES ASSUME c.open # <<>>, TimesInOrder(s), NEW k \in 1 .. n + 1, LooksAt(s, k),
                      s[k].ts > c.open[1].entry
               PROVE  Reason(c.open[1], SpecOf[g], s[k].ts, s[k].price) = "NONE"
    BY <2>0 DEF CandidateOk, PositionOk
  <2>1. k \in 1 .. n
    <3>1. k # n + 1
      OBVIOUS
    <3> QED
      BY <3>1
  <2> QED
    BY <2>1 DEF CandidateOk, PositionOk
<1> QED
  BY <1>1 DEF CandidateOk

\* A print leaves a position open when it is no reason to close it, and closes it
\* otherwise.
LEMMA TradedIsOk ==
  ASSUME NEW s, IsDayFile(s), NEW g \in Groups, NEW n \in Nat, n + 1 \in 1 .. Len(s),
         NEW c, CandidateOk(s, c, g, n), LooksAt(s, n + 1)
  PROVE  CandidateOk(s, OnTrade(c, SpecOf[g], s[n + 1].ts, s[n + 1].price), g, n + 1)
<1> DEFINE p == c.open[1]
           e == s[n + 1]
           reason == Reason(p, SpecOf[g], e.ts, e.price)
           t == CloseTrade(c, e.ts, e.price, reason)
           r == OnTrade(c, SpecOf[g], e.ts, e.price)
<1>1. CASE c.open = <<>>
  BY <1>1 DEF OnTrade, CandidateOk
<1>2. CASE c.open # <<>> /\ reason = "NONE"
  <2>1. PositionOk(s, p, g, n + 1)
    <3>0. \E k \in 1 .. Len(s) : k <= (n + 1) + 1 /\ s[k].ts = p.entry
      BY <1>2, LaterPlace DEF CandidateOk, PositionOk
    <3> SUFFICES ASSUME TimesInOrder(s), NEW k \in 1 .. n + 1, LooksAt(s, k), s[k].ts > p.entry
                 PROVE  Reason(p, SpecOf[g], s[k].ts, s[k].price) = "NONE"
      BY <1>2, <3>0 DEF CandidateOk, PositionOk
    <3>1. CASE k = n + 1
      BY <1>2, <3>1
    <3>2. CASE k # n + 1
      <4>1. k \in 1 .. n
        BY <3>2
      <4> QED
        BY <1>2, <4>1 DEF CandidateOk, PositionOk
    <3> QED
      BY <3>1, <3>2
  <2>2. r = c
    BY <1>2 DEF OnTrade
  <2> QED
    BY <2>1, <2>2 DEF CandidateOk
<1>3. CASE c.open # <<>> /\ reason # "NONE"
  <2>1. PositionOk(s, p, g, n) /\ p.decision >= c.cooldownUntil /\ c.pending = <<>>
    BY <1>3 DEF CandidateOk
  <2>2. Alike(p, t) /\ t.exit = e.ts /\ t.reason = reason /\ t.decision = p.decision
    BY DEF Alike, CloseTrade
  <2>3. PICK tt, x, m : tt = t /\ x = e.ts + SpecOf[g].cooldown /\ m = Append(c.trades, tt)
    OBVIOUS
  <2>4. r = [c EXCEPT !.open = <<>>, !.cooldownUntil = x, !.trades = m]
    BY <1>3, <2>3 DEF OnTrade
  <2> HIDE DEF t, r
  <2>5. \A k \in 1 .. Len(s) : (k < n + 1 => k \in 1 .. n) /\ (k <= n + 1 => k <= n + 1)
    BY DEF IsDayFile
  <2>6. TradeOk(s, tt, g)
    <3>1. /\ Alike(p, tt) /\ tt.exit = s[n + 1].ts
          /\ tt.reason = Reason(p, SpecOf[g], s[n + 1].ts, s[n + 1].price)
      BY <2>2, <2>3
    <3> QED
      BY <2>1, <2>5, <3>1, ClosedIsOk
  <2>7. /\ TradesOk(s, c.trades, g)
        /\ Len(c.trades) > 0 => c.cooldownUntil = c.trades[Len(c.trades)].exit + SpecOf[g].cooldown
    BY DEF CandidateOk
  <2>8. TradesOk(s, m, g) /\ Len(m) > 0 /\ m[Len(m)] = tt
    <3>1. Len(c.trades) > 0 => tt.decision >= c.trades[Len(c.trades)].exit + SpecOf[g].cooldown
      BY <2>1, <2>2, <2>3, <2>7
    <3> QED
      BY <2>3, <2>6, <2>7, <3>1, OneTradeMore
  <2>9. x \in Int /\ x = tt.exit + SpecOf[g].cooldown
    BY <2>2, <2>3, SpecIsTyped DEF IsDayFile
  <2>10. r = [open |-> <<>>, pending |-> c.pending, cooldownUntil |-> x, trades |-> m]
    BY <2>4 DEF CandidateOk
  <2>11. r.open = <<>> /\ r.pending = c.pending /\ r.cooldownUntil = x /\ r.trades = m
    BY <2>10
  <2>12. CandidateOk(s, r, g, n + 1)
    BY <2>1, <2>8, <2>9, <2>10, <2>11 DEF CandidateOk
  <2> QED
    BY <2>12 DEF r
<1> QED
  BY <1>1, <1>2, <1>3

\* A signal is queued when the cooldown is over.
LEMMA OpenedIsOk ==
  ASSUME NEW s, NEW g \in Groups, NEW n, NEW c, CandidateOk(s, c, g, n), NEW ts \in Int, NEW signal
  PROVE  CandidateOk(s, MaybeOpen(c, ts, signal), g, n)
<1> DEFINE r == MaybeOpen(c, ts, signal)
<1>1. CASE c.open # <<>> \/ c.pending # <<>> \/ ts < c.cooldownUntil \/ signal = "none"
  BY <1>1 DEF MaybeOpen
<1>2. CASE ~(c.open # <<>> \/ c.pending # <<>> \/ ts < c.cooldownUntil \/ signal = "none")
  <2>1. PICK q : q = [direction |-> signal, decision |-> ts, readyAt |-> ts + Latency]
    OBVIOUS
  <2>2. r = [c EXCEPT !.pending = <<q>>]
    BY <1>2, <2>1 DEF MaybeOpen
  <2> HIDE DEF r
  <2>3. r = [open |-> c.open, pending |-> <<q>>, cooldownUntil |-> c.cooldownUntil, trades |-> c.trades]
    BY <2>2 DEF CandidateOk
  <2>4. /\ r.open = c.open /\ r.pending = <<q>> /\ r.cooldownUntil = c.cooldownUntil
        /\ r.trades = c.trades /\ r.pending[1] = q
    BY <2>3
  <2>5. q.decision = ts /\ q.readyAt = ts + Latency /\ c.open = <<>>
    BY <1>2, <2>1
  <2>6. c.cooldownUntil \in Int /\ ts >= c.cooldownUntil
    BY <1>2 DEF CandidateOk
  <2>7. CandidateOk(s, r, g, n)
    BY <2>3, <2>4, <2>5, <2>6 DEF CandidateOk
  <2> QED
    BY <2>7 DEF r
<1> QED
  BY <1>1, <1>2

\* What is open at the end of the file is closed there.
LEMMA EndedIsOk ==
  ASSUME NEW s, IsDayFile(s), Len(s) > 0, NEW g \in Groups, NEW c, CandidateOk(s, c, g, Len(s)), NEW price
  PROVE  TradesOk(s, CloseAtEnd(c, s[Len(s)].ts, price).trades, g)
<1> DEFINE p == c.open[1]
           j == Len(s)
           t == CloseTrade(c, s[j].ts, price, "END_OF_DATA")
           r == CloseAtEnd(c, s[j].ts, price)
<1>1. CASE c.open = <<>>
  BY <1>1 DEF CloseAtEnd, CandidateOk
<1>2. CASE c.open # <<>>
  <2>1. PositionOk(s, p, g, j) /\ p.decision >= c.cooldownUntil
    BY <1>2 DEF CandidateOk
  <2>2. Alike(p, t) /\ t.exit = s[j].ts /\ t.reason = "END_OF_DATA" /\ t.decision = p.decision
    BY DEF Alike, CloseTrade
  <2>3. PICK tt, m : tt = t /\ m = Append(c.trades, tt)
    OBVIOUS
  <2>4. r = [c EXCEPT !.open = <<>>, !.trades = m]
    BY <1>2, <2>3 DEF CloseAtEnd
  <2> HIDE DEF t, r
  <2>5. j \in 1 .. Len(s) /\ \A k \in 1 .. Len(s) : (k < j => k \in 1 .. j) /\ (k <= j + 1 => k <= j)
    BY DEF IsDayFile
  <2>6. TradeOk(s, tt, g)
    BY <2>1, <2>2, <2>3, <2>5, ClosedIsOk
  <2>7. /\ TradesOk(s, c.trades, g)
        /\ Len(c.trades) > 0 => c.cooldownUntil = c.trades[Len(c.trades)].exit + SpecOf[g].cooldown
    BY DEF CandidateOk
  <2>8. TradesOk(s, m, g)
    BY <2>1, <2>2, <2>3, <2>6, <2>7, OneTradeMore
  <2>9. r = [open |-> <<>>, pending |-> c.pending, cooldownUntil |-> c.cooldownUntil, trades |-> m]
    BY <2>4 DEF CandidateOk
  <2> QED
    BY <2>8, <2>9 DEF r
<1> QED
  BY <1>1, <1>2

-----------------------------------------------------------------------------
(* The queues of a run: the intents that are due and those that are not.   *)

\* Intents in the order of their ids, all of the first before those of the second.
Queues(w, l) ==
  /\ IsSeq(w) /\ IsSeq(l)
  /\ \A k \in 1 .. Len(w) : w[k].id \in Int
  /\ \A k \in 1 .. Len(l) : l[k].id \in Int
  /\ \A j, k \in 1 .. Len(w) : j < k => w[j].id < w[k].id
  /\ \A j, k \in 1 .. Len(l) : j < k => l[j].id < l[k].id
  /\ \A j \in 1 .. Len(w), k \in 1 .. Len(l) : w[j].id < l[k].id

\* An id before all that are queued.
Before(id, w, l) == /\ id \in Int
                    /\ \A k \in 1 .. Len(w) : id < w[k].id
                    /\ \A k \in 1 .. Len(l) : id < l[k].id

\* The places of a set that holds with each one all earlier ones.
LEMMA FirstPlaces ==
  ASSUME NEW n \in Nat, NEW D \in SUBSET (1 .. n), \A k \in D : \A j \in 1 .. k : j \in D
  PROVE  /\ Cardinality(D) \in Nat /\ Cardinality(D) <= n
         /\ D = 1 .. Cardinality(D)
<1>1. D = {} \/ \E m \in 1 .. n : D = 1 .. m
  <2> SUFFICES ASSUME D # {} PROVE \E m \in 1 .. n : D = 1 .. m
    OBVIOUS
  <2>1. IsFiniteSet(1 .. n)
    BY FS_Interval
  <2>2. D \in SUBSET Nat /\ IsFiniteSet(D)
    <3>1. D \subseteq 1 .. n /\ 1 .. n \subseteq Nat
      OBVIOUS
    <3> QED
      BY ONLY <2>1, <3>1, FS_Subset
  <2>3. PICK m \in D : \A k \in D : m >= k
    BY <2>2, GreatestPlace
  <2>4. \A k \in D : k \in 1 .. m
    BY <2>2, <2>3
  <2>5. \A k \in 1 .. m : k \in D
    BY <2>3
  <2>6. D = 1 .. m
    BY <2>4, <2>5
  <2> QED
    BY <2>3, <2>6
<1>2. Cardinality({}) = 0 /\ {} = 1 .. 0
  BY FS_EmptySet
<1>3. ASSUME NEW m \in 1 .. n, D = 1 .. m
      PROVE  Cardinality(D) \in Nat /\ Cardinality(D) <= n /\ D = 1 .. Cardinality(D)
  <2>1. m \in Int /\ 1 \in Int /\ 1 <= m /\ m <= n /\ m \in Nat
    OBVIOUS
  <2>2. Cardinality(1 .. m) = m
    BY <2>1, FS_Interval
  <2> QED
    BY <1>3, <2>1, <2>2
<1>4. ASSUME D = {}
      PROVE  Cardinality(D) \in Nat /\ Cardinality(D) <= n /\ D = 1 .. Cardinality(D)
  BY <1>2, <1>4
<1> QED
  BY <1>1, <1>3, <1>4

\* The first d intents of a list have moved behind those that wait.
Moved(w, l, d, x, m) ==
  /\ Len(w) \in Nat /\ Len(l) \in Nat /\ d <= Len(l)
  /\ IsSeq(x) /\ Len(x) = Len(w) + d
  /\ \A k \in 1 .. Len(w) : x[k] = w[k]
  /\ \A k \in 1 .. d : x[Len(w) + k] = l[k]
  /\ IsSeq(m) /\ Len(m) = Len(l) - d
  /\ \A k \in 1 .. Len(l) - d : m[k] = l[k + d]

\* Those that move are due, and the next one is not.
LEMMA DueParts ==
  ASSUME NEW w, NEW l, IsSeq(w), IsSeq(l), NEW e,
         NEW x, x = w \o NewlyDue(l, e), NEW m, m = NotDue(l, e)
  PROVE  \E d \in Nat : /\ Moved(w, l, d, x, m)
                        /\ \A k \in 1 .. d : Due(l[k], e)
                        /\ d < Len(l) => ~Due(l[d + 1], e)
<1>1. PICK d : d = DueCount(l, e)
  OBVIOUS
<1>2. /\ d \in Nat /\ d <= Len(l) /\ Len(l) \in Nat
      /\ \A k \in 1 .. d : Due(l[k], e)
      /\ d < Len(l) => ~Due(l[d + 1], e)
  <2>1. PICK y : y = Len(l)
    OBVIOUS
  <2>2. y \in Nat
    BY <2>1 DEF IsSeq
  <2>3. PICK D : D = {k \in 1 .. y : \A j \in 1 .. k : Due(l[j], e)}
    OBVIOUS
  <2>4. \A k \in D : \A j \in 1 .. k : j \in D
    BY <2>2, <2>3
  <2>5. d = Cardinality(D)
    BY <1>1, <2>1, <2>3 DEF DueCount
  <2>6. d \in Nat /\ d <= y /\ D = 1 .. d
    BY <2>2, <2>3, <2>4, <2>5, FirstPlaces
  <2>7. \A k \in 1 .. d : k \in D /\ k \in 1 .. k
    BY <2>6
  <2>8. \A k \in 1 .. d : Due(l[k], e)
    BY <2>3, <2>7
  <2>9. ASSUME d < y PROVE ~Due(l[d + 1], e)
    <3>1. d + 1 \in 1 .. y /\ d + 1 \notin D /\ \A j \in 1 .. d + 1 : j \in 1 .. d \/ j = d + 1
      BY <2>2, <2>6, <2>9
    <3> QED
      BY <2>3, <2>8, <3>1
  <2> QED
    BY <2>1, <2>2, <2>6, <2>8, <2>9
<1>3. PICK n : n = NewlyDue(l, e) /\ x = w \o n
  OBVIOUS
<1>4. /\ IsSeq(n) /\ Len(n) = d /\ \A k \in 1 .. d : n[k] = l[k]
  <2>1. n = SubSeq(l, 1, d)
    BY <1>1, <1>3 DEF NewlyDue
  <2>2. IsSeq(SubSeq(l, 1, d)) /\ Len(SubSeq(l, 1, d)) = (d - 1) + 1
        /\ \A k \in 1 .. (d - 1) + 1 : SubSeq(l, 1, d)[k] = l[(k + 1) - 1]
    <3>1. IsSeq(l) /\ 1 \in Nat /\ d \in Nat /\ 1 >= 1 /\ d <= Len(l) /\ 1 <= d + 1
      BY <1>2
    <3> QED
      BY ONLY <3>1, SubSeqParts
  <2> QED
    BY <1>2, <2>1, <2>2
<1>5. /\ IsSeq(m) /\ Len(m) = Len(l) - d /\ \A k \in 1 .. Len(l) - d : m[k] = l[k + d]
  <2>1. m = SubSeq(l, d + 1, Len(l))
    BY <1>1, <1>3 DEF NotDue
  <2>2. PICK y : y = Len(l)
    OBVIOUS
  <2>3. IsSeq(SubSeq(l, d + 1, y)) /\ Len(SubSeq(l, d + 1, y)) = (y - (d + 1)) + 1
        /\ \A k \in 1 .. (y - (d + 1)) + 1 : SubSeq(l, d + 1, y)[k] = l[(k + (d + 1)) - 1]
    BY <1>2, <2>2, SubSeqParts
  <2> QED
    BY <1>2, <2>1, <2>2, <2>3
<1>6. /\ IsSeq(x) /\ Len(w) \in Nat /\ Len(x) = Len(w) + d
      /\ \A k \in 1 .. Len(w) : x[k] = w[k]
      /\ \A k \in 1 .. d : x[Len(w) + k] = l[k]
  <2>1. /\ IsSeq(w \o n) /\ Len(w) \in Nat /\ Len(w \o n) = Len(w) + Len(n)
        /\ \A k \in 1 .. Len(w) : (w \o n)[k] = w[k]
        /\ \A k \in 1 .. Len(n) : (w \o n)[Len(w) + k] = n[k]
    <3>1. IsSeq(w) /\ IsSeq(n)
      BY <1>4
    <3> QED
      BY ONLY <3>1, ConcatParts
  <2> QED
    BY <1>3, <1>4, <2>1
<1>7. Moved(w, l, d, x, m)
  BY <1>2, <1>4, <1>5, <1>6 DEF Moved
<1> QED
  BY <1>2, <1>7

LEMMA DueIsPrefix ==
  ASSUME NEW w, NEW l, Queues(w, l), NEW e
  PROVE  /\ Queues(w \o NewlyDue(l, e), NotDue(l, e))
         /\ \A id : Before(id, w, l) => Before(id, w \o NewlyDue(l, e), NotDue(l, e))
<1>1. IsSeq(w) /\ IsSeq(l)
  BY DEF Queues
<1>2. PICK m, x : m = NotDue(l, e) /\ x = w \o NewlyDue(l, e)
  OBVIOUS
<1>3. PICK d \in Nat :
        /\ Len(w) \in Nat /\ Len(l) \in Nat /\ d <= Len(l)
        /\ IsSeq(x) /\ Len(x) = Len(w) + d
        /\ \A k \in 1 .. Len(w) : x[k] = w[k]
        /\ \A k \in 1 .. d : x[Len(w) + k] = l[k]
        /\ IsSeq(m) /\ Len(m) = Len(l) - d
        /\ \A k \in 1 .. Len(l) - d : m[k] = l[k + d]
  <2>1. PICK d \in Nat : Moved(w, l, d, x, m)
    BY <1>1, <1>2, DueParts
  <2> QED
    BY <2>1 DEF Moved
<1>4. PICK a, b : a = Len(w) /\ b = Len(l)
  OBVIOUS
<1>5. ASSUME NEW k \in 1 .. Len(x)
      PROVE  \/ k \in 1 .. a /\ x[k] = w[k]
             \/ k - a \in 1 .. d /\ k - a \in 1 .. b /\ x[k] = l[k - a]
  <2>1. CASE k <= a
    BY <1>3, <1>4, <2>1
  <2>2. CASE k > a
    <3>1. k - a \in 1 .. d /\ a + (k - a) = k
      BY <1>3, <1>4, <2>2
    <3> QED
      BY <1>3, <1>4, <3>1
  <2> QED
    BY <1>3, <1>4, <2>1, <2>2
<1>6. ASSUME NEW k \in 1 .. Len(m)
      PROVE  k + d \in 1 .. b /\ m[k] = l[k + d] /\ k \in Int /\ k >= 1
  BY <1>3, <1>4
<1>7. Queues(x, m)
  <2>1. \A k \in 1 .. Len(x) : x[k].id \in Int
    BY <1>4, <1>5 DEF Queues
  <2>2. \A k \in 1 .. Len(m) : m[k].id \in Int
    BY <1>4, <1>6 DEF Queues
  <2>3. ASSUME NEW j \in 1 .. Len(x), NEW k \in 1 .. Len(x), j < k PROVE x[j].id < x[k].id
    <3>1. j \in Int /\ k \in Int /\ a \in Nat
      BY <1>3, <1>4
    <3>2. CASE k \in 1 .. a
      <4>1. j \in 1 .. a /\ ~(j - a \in 1 .. d) /\ ~(k - a \in 1 .. d)
        BY <1>3, <2>3, <3>1, <3>2
      <4>2. x[j] = w[j] /\ x[k] = w[k]
        BY <1>5, <4>1
      <4> QED
        BY <1>4, <2>3, <3>2, <4>1, <4>2 DEF Queues
    <3>3. CASE k - a \in 1 .. d /\ j \in 1 .. a
      <4>1. ~(j - a \in 1 .. d) /\ ~(k \in 1 .. a)
        BY <1>3, <3>1, <3>3
      <4>2. x[j] = w[j] /\ x[k] = l[k - a] /\ k - a \in 1 .. b
        BY <1>5, <4>1
      <4> QED
        BY <1>4, <3>3, <4>2 DEF Queues
    <3>4. CASE k - a \in 1 .. d /\ j - a \in 1 .. d
      <4>1. ~(j \in 1 .. a) /\ ~(k \in 1 .. a) /\ j - a < k - a
        BY <1>3, <2>3, <3>1, <3>4
      <4>2. x[j] = l[j - a] /\ x[k] = l[k - a] /\ k - a \in 1 .. b /\ j - a \in 1 .. b
        BY <1>5, <4>1
      <4> QED
        BY <1>4, <4>1, <4>2 DEF Queues
    <3> QED
      BY <1>5, <2>3, <3>2, <3>3, <3>4
  <2>4. ASSUME NEW j \in 1 .. Len(m), NEW k \in 1 .. Len(m), j < k PROVE m[j].id < m[k].id
    <3>1. j + d < k + d
      BY <1>3, <1>6, <2>4
    <3> QED
      BY <1>4, <1>6, <3>1 DEF Queues
  <2>5. ASSUME NEW j \in 1 .. Len(x), NEW k \in 1 .. Len(m) PROVE x[j].id < m[k].id
    <3>1. k + d \in 1 .. b /\ m[k] = l[k + d] /\ k \in Int /\ k >= 1
      BY <1>6
    <3>2. CASE j \in 1 .. a /\ x[j] = w[j]
      BY <1>4, <3>1, <3>2 DEF Queues
    <3>3. CASE j - a \in 1 .. d /\ j - a \in 1 .. b /\ x[j] = l[j - a]
      <4>1. j - a < k + d
        BY <1>3, <3>1, <3>3
      <4> QED
        BY <1>4, <3>1, <3>3, <4>1 DEF Queues
    <3> QED
      BY <1>5, <3>2, <3>3
  <2> QED
    BY <1>3, <2>1, <2>2, <2>3, <2>4, <2>5 DEF Queues
<1>8. ASSUME NEW id, Before(id, w, l) PROVE Before(id, x, m)
  BY <1>4, <1>5, <1>6, <1>8 DEF Before
<1> QED
  BY <1>2, <1>7, <1>8

\* The rest of a queue, from some place on.
LEMMA RestOfQueue ==
  ASSUME NEW w, NEW l, Queues(w, l), NEW v, IsSeq(v), NEW z \in Nat, Len(v) + z <= Len(w),
         \A k \in 1 .. Len(v) : v[k] = w[k + z]
  PROVE  /\ Queues(v, l)
         /\ \A id : Before(id, w, l) => Before(id, v, l)
<1>1. Len(v) \in Nat /\ Len(w) \in Nat
  BY DEF Queues, IsSeq
<1>2. \A k \in 1 .. Len(v) : k + z \in 1 .. Len(w) /\ v[k] = w[k + z] /\ k \in Int
  BY <1>1
<1>3. ASSUME NEW j \in 1 .. Len(v), NEW k \in 1 .. Len(v), j < k PROVE v[j].id < v[k].id
  <2>1. j + z < k + z
    BY <1>2, <1>3
  <2> QED
    BY <1>2, <2>1 DEF Queues
<1>4. Queues(v, l)
  BY <1>2, <1>3 DEF Queues
<1>5. ASSUME NEW id, Before(id, w, l) PROVE Before(id, v, l)
  BY <1>2, <1>5 DEF Before
<1> QED
  BY <1>4, <1>5

-----------------------------------------------------------------------------
(* What the trades of the gate rest on.                                    *)

\* The events of the tape are in the order of their times.
TimesUpTo(s, n) == \A j, k \in 1 .. n : j < k => s[j].ts <= s[k].ts

\* One trade after the other, in the order of the intents.
OneByOne(trades) ==
  /\ IsSeq(trades)
  /\ \A k \in 2 .. Len(trades) : /\ trades[k - 1].id < trades[k].id
                                 /\ trades[k - 1].exit <= trades[k].entry

IsHeld(p) == p = [intent |-> p.intent, entry |-> p.entry, filled |-> p.filled,
                  value |-> p.value, last |-> p.last]

\* A run behind the first n events.
RunOk(s, r, n) ==
  /\ IsRun(r) /\ Queues(r.waiting, r.list) /\ OneByOne(r.trades)
  /\ r.active # <<>> => /\ r.active = <<r.active[1]>> /\ IsHeld(r.active[1])
                        /\ Before(r.active[1].intent.id, r.waiting, r.list)
  /\ Len(r.trades) > 0 =>
       /\ Before(r.trades[Len(r.trades)].id, r.waiting, r.list)
       /\ \E k \in 1 .. n : r.trades[Len(r.trades)].exit = s[k].ts
       /\ r.active # <<>> => /\ r.trades[Len(r.trades)].id < r.active[1].intent.id
                             /\ r.trades[Len(r.trades)].exit <= r.active[1].entry

LEMMA OneByOneMore ==
  ASSUME NEW trades, OneByOne(trades), NEW t,
         Len(trades) > 0 => /\ trades[Len(trades)].id < t.id
                            /\ trades[Len(trades)].exit <= t.entry
  PROVE  /\ OneByOne(Append(trades, t)) /\ Len(Append(trades, t)) > 0
         /\ Append(trades, t)[Len(Append(trades, t))] = t
<1>1. PICK m, l : m = Append(trades, t) /\ l = Len(trades)
  OBVIOUS
<1>2. /\ IsSeq(m) /\ l \in Nat /\ Len(m) = l + 1
      /\ \A k \in 1 .. l : m[k] = trades[k]
      /\ m[l + 1] = t
  BY <1>1, AppendParts DEF OneByOne
<1>3. ASSUME NEW k \in 2 .. Len(m) PROVE m[k - 1].id < m[k].id /\ m[k - 1].exit <= m[k].entry
  <2>1. CASE k \in 2 .. l
    <3>1. k \in 1 .. l /\ k - 1 \in 1 .. l
      BY <1>2, <2>1
    <3> QED
      BY <1>1, <1>2, <2>1, <3>1 DEF OneByOne
  <2>2. CASE k = l + 1
    <3>1. k - 1 = l /\ l \in 1 .. l /\ l > 0
      BY <1>2, <1>3, <2>2
    <3> QED
      BY <1>1, <1>2, <2>2, <3>1
  <2> QED
    BY <1>2, <2>1, <2>2
<1> QED
  BY <1>1, <1>2, <1>3 DEF OneByOne

LEMMA QueuedIsOk ==
  ASSUME NEW s, NEW n, NEW r, RunOk(s, r, n), NEW e
  PROVE  RunOk(s, Queued(r, e), n)
<1>1. PICK w, l : w = r.waiting \o NewlyDue(r.list, e) /\ l = NotDue(r.list, e)
  OBVIOUS
<1>2. PICK q : q = Queued(r, e)
  OBVIOUS
<1>3. q = [r EXCEPT !.waiting = w, !.list = l]
  BY <1>1, <1>2 DEF Queued
<1>4. q = [waiting |-> w, active |-> r.active, trades |-> r.trades, list |-> l]
  BY <1>3 DEF RunOk, IsRun
<1>5. IsRun(q) /\ q.waiting = w /\ q.active = r.active /\ q.trades = r.trades /\ q.list = l
  BY <1>4 DEF IsRun
<1>6. Queues(w, l) /\ \A id : Before(id, r.waiting, r.list) => Before(id, w, l)
  BY <1>1, DueIsPrefix DEF RunOk
<1>7. RunOk(s, q, n)
  BY <1>5, <1>6 DEF RunOk
<1> QED
  BY <1>2, <1>7

LEMMA ExitedIsOk ==
  ASSUME NEW s, NEW n \in Nat, NEW r, RunOk(s, r, n)
  PROVE  RunOk(s, TryExit(r, s[n + 1]), n + 1)
<1> DEFINE e == s[n + 1]
           p == r.active[1]
           x == TryExit(r, e)
<1>0. RunOk(s, r, n + 1)
  <2>1. \A k \in 1 .. n : k \in 1 .. n + 1
    OBVIOUS
  <2> QED
    BY <2>1 DEF RunOk
<1>1. CASE e.action # "T" \/ r.active = <<>>
  BY <1>0, <1>1 DEF TryExit
<1>2. CASE e.action = "T" /\ r.active # <<>> /\ Leaves(r, e)
  <2>1. PICK t, m : t = ExitTrade(p, e) /\ m = Append(r.trades, t)
    OBVIOUS
  <2>2. x = [r EXCEPT !.active = <<>>, !.trades = m]
    BY <1>2, <2>1 DEF TryExit
  <2> HIDE DEF x
  <2>3. x = [waiting |-> r.waiting, active |-> <<>>, trades |-> m, list |-> r.list]
    BY <2>2 DEF RunOk, IsRun
  <2>4. IsRun(x) /\ x.waiting = r.waiting /\ x.active = <<>> /\ x.trades = m /\ x.list = r.list
    BY <2>3 DEF IsRun
  <2>5. t.id = p.intent.id /\ t.entry = p.entry /\ t.exit = s[n + 1].ts
    BY <2>1 DEF ExitTrade, TradeOf
  <2>6. OneByOne(m) /\ Len(m) > 0 /\ m[Len(m)] = t
    <3>1. Len(r.trades) > 0 => /\ r.trades[Len(r.trades)].id < t.id
                               /\ r.trades[Len(r.trades)].exit <= t.entry
      BY <1>2, <2>5 DEF RunOk
    <3>2. OneByOne(r.trades)
      BY DEF RunOk
    <3> QED
      BY <2>1, <3>1, <3>2, OneByOneMore
  <2>7. Before(t.id, r.waiting, r.list) /\ Queues(r.waiting, r.list)
    BY <1>2, <2>5 DEF RunOk
  <2>8. \E k \in 1 .. n + 1 : t.exit = s[k].ts
    BY <2>5
  <2>9. RunOk(s, x, n + 1)
    BY <2>4, <2>6, <2>7, <2>8 DEF RunOk
  <2> QED
    BY <2>9 DEF x
<1>3. CASE e.action = "T" /\ r.active # <<>> /\ ~Leaves(r, e)
  <2>1. PICK q : q = Marked(p, e)
    OBVIOUS
  <2>2. x = [r EXCEPT !.active = <<q>>]
    BY <1>3, <2>1 DEF TryExit
  <2> HIDE DEF x
  <2>3. x = [waiting |-> r.waiting, active |-> <<q>>, trades |-> r.trades, list |-> r.list]
    BY <2>2 DEF RunOk, IsRun
  <2>4. /\ IsRun(x) /\ x.waiting = r.waiting /\ x.active = <<q>> /\ x.trades = r.trades
        /\ x.list = r.list /\ x.active[1] = q
    BY <2>3 DEF IsRun
  <2>5. IsHeld(p)
    BY <1>3 DEF RunOk
  <2>6. IsHeld(q) /\ q.intent = p.intent /\ q.entry = p.entry
    <3>1. PICK v : v = e.price * p.filled
      OBVIOUS
    <3>2. q = [p EXCEPT !.last = v]
      BY <2>1, <3>1 DEF Marked
    <3>3. q = [intent |-> p.intent, entry |-> p.entry, filled |-> p.filled, value |-> p.value, last |-> v]
      BY <2>5, <3>2 DEF IsHeld
    <3> QED
      BY <3>3 DEF IsHeld
  <2>7. RunOk(s, x, n + 1)
    BY <1>0, <1>3, <2>4, <2>6 DEF RunOk
  <2> QED
    BY <2>7 DEF x
<1> QED
  BY <1>1, <1>2, <1>3

\* What TryEnter looks at: the queue from the first intent on that has not expired.
ValidQueue(w, e) ==
  LET valid == SelectInSeq(w, LAMBDA i : ~Expired(i, e))
  IN  IF valid = 0 THEN <<>> ELSE SubSeq(w, valid, Len(w))

\* The first z intents of a queue have expired.
Behind(w, e, queue, z) == /\ Len(queue) + z = Len(w)
                          /\ \A k \in 1 .. Len(queue) : queue[k] = w[k + z]
                          /\ \A k \in 1 .. z : Expired(w[k], e)

LEMMA ValidParts ==
  ASSUME NEW w, IsSeq(w), NEW e, NEW queue, queue = ValidQueue(w, e)
  PROVE  /\ IsSeq(queue) /\ Len(queue) \in Nat /\ Len(w) \in Nat
         /\ queue # <<>> => ~Expired(queue[1], e)
         /\ \E z \in Nat : Behind(w, e, queue, z)
<1>1. PICK valid : valid = SelectInSeq(w, LAMBDA i : ~Expired(i, e))
  OBVIOUS
<1>2. queue = IF valid = 0 THEN <<>> ELSE SubSeq(w, valid, Len(w))
  BY <1>1 DEF ValidQueue
<1>3. PICK y : y = Len(w)
  OBVIOUS
<1>4. y \in Nat
  BY <1>3 DEF IsSeq
<1>5. PICK I : I = {i \in 1 .. y : ~Expired(w[i], e)}
  OBVIOUS
<1>6. valid = IF I # {} THEN Min(I) ELSE 0
  BY <1>1, <1>3, <1>5 DEF SelectInSeq
<1>7. CASE I = {}
  <2>1. queue = <<>> /\ valid = 0
    BY <1>2, <1>6, <1>7
  <2>2. IsSeq(<<>>) /\ Len(<<>>) = 0 /\ 1 .. 0 = {}
    BY DEF IsSeq
  <2>3. 0 + y = y /\ \A k \in 1 .. y : Expired(w[k], e)
    BY <1>4, <1>5, <1>7
  <2>4. \A k \in 1 .. Len(queue) : queue[k] = w[k + y]
    BY <2>1, <2>2
  <2> QED
    BY <1>3, <1>4, <2>1, <2>2, <2>3, <2>4 DEF Behind
<1>8. CASE I # {}
  <2>1. I \in SUBSET Nat
    BY <1>4, <1>5
  <2>2. valid \in I /\ \A i \in I : valid <= i
    BY <1>6, <1>8, <2>1, LeastPlace
  <2>3. valid \in 1 .. y /\ ~Expired(w[valid], e)
    BY <1>5, <2>2
  <2>4. valid \in Nat /\ valid >= 1 /\ valid <= y /\ valid # 0
    BY <1>4, <2>3
  <2>5. queue = SubSeq(w, valid, y)
    BY <1>2, <1>3, <2>4
  <2>6. /\ IsSeq(SubSeq(w, valid, y))
        /\ Len(SubSeq(w, valid, y)) = (y - valid) + 1
        /\ \A k \in 1 .. (y - valid) + 1 : SubSeq(w, valid, y)[k] = w[(k + valid) - 1]
    <3>1. IsSeq(w) /\ y \in Nat /\ y <= Len(w) /\ valid <= y + 1
      BY <1>3, <1>4, <2>4
    <3> QED
      BY ONLY <2>4, <3>1, SubSeqParts
  <2>7. PICK z : z = valid - 1
    OBVIOUS
  <2>8. /\ z \in Nat /\ (y - valid) + 1 \in Nat /\ ((y - valid) + 1) + z = y
        /\ \A k \in 1 .. (y - valid) + 1 : (k + valid) - 1 = k + z
        /\ 1 \in 1 .. (y - valid) + 1 /\ 1 + z = valid
        /\ \A k \in 1 .. z : k \in 1 .. y /\ ~(valid <= k)
    BY ONLY <1>4, <2>4, <2>7
  <2>9. \A k \in 1 .. z : Expired(w[k], e)
    BY <1>5, <2>2, <2>8
  <2>10. ~Expired(queue[1], e)
    BY <2>3, <2>5, <2>6, <2>8
  <2>11. IsSeq(queue) /\ Len(queue) = (y - valid) + 1
         /\ \A k \in 1 .. Len(queue) : queue[k] = w[k + z]
    BY <2>5, <2>6, <2>8
  <2> QED
    BY <1>3, <1>4, <2>8, <2>9, <2>10, <2>11 DEF Behind
<1> QED
  BY <1>7, <1>8

LEMMA EnteredIsOk ==
  ASSUME NEW s, NEW n \in Nat, NEW r, RunOk(s, r, n), n >= 1, TimesUpTo(s, n),
         \A k \in 1 .. n : s[k].ts \in Int, NEW b
  PROVE  RunOk(s, TryEnter(r, b, s[n]), n)
<1> DEFINE e == s[n]
           queue == ValidQueue(r.waiting, e)
           entered == Enter(Head(queue), b, e)
           x == TryEnter(r, b, e)
<1>1. CASE r.active # <<>>
  BY <1>1 DEF TryEnter
<1>2. CASE r.active = <<>>
  <2>1. x = IF queue = <<>> \/ ~Fillable(b) THEN [r EXCEPT !.waiting = queue]
            ELSE [r EXCEPT !.waiting = Tail(queue), !.active = <<entered>>]
    BY <1>2 DEF TryEnter, ValidQueue
  <2> HIDE DEF queue, entered
  <2>2. IsSeq(r.waiting)
    BY DEF RunOk, Queues
  <2>3. PICK y : y = Len(r.waiting)
    OBVIOUS
  <2>4. IsSeq(queue) /\ Len(queue) \in Nat /\ y \in Nat
        /\ \E z \in Nat : Behind(r.waiting, e, queue, z)
    <3>1. queue = ValidQueue(r.waiting, e)
      BY DEF queue
    <3> QED
      BY <2>2, <2>3, <3>1, ValidParts
  <2>5. PICK z \in Nat : /\ Len(queue) + z <= y
                         /\ \A k \in 1 .. Len(queue) : queue[k] = r.waiting[k + z]
    <3>1. PICK z \in Nat : Behind(r.waiting, e, queue, z)
      BY <2>4
    <3>2. Len(queue) + z <= y
      BY <2>3, <2>4, <3>1 DEF Behind
    <3> QED
      BY <3>1, <3>2 DEF Behind
  <2>6. /\ Queues(queue, r.list)
        /\ \A id : Before(id, r.waiting, r.list) => Before(id, queue, r.list)
    BY <2>3, <2>4, <2>5, RestOfQueue DEF RunOk
  <2>7. ASSUME x = [r EXCEPT !.waiting = queue] PROVE RunOk(s, x, n)
    <3> HIDE DEF x
    <3>1. x = [waiting |-> queue, active |-> r.active, trades |-> r.trades, list |-> r.list]
      BY <2>7 DEF RunOk, IsRun
    <3>2. IsRun(x) /\ x.waiting = queue /\ x.active = r.active /\ x.trades = r.trades /\ x.list = r.list
      BY <3>1 DEF IsRun
    <3> QED
      BY <2>6, <3>2 DEF RunOk
  <2>8. ASSUME queue # <<>>, x = [r EXCEPT !.waiting = Tail(queue), !.active = <<entered>>]
        PROVE  RunOk(s, x, n)
    <3>1. PICK i, rest, p : i = Head(queue) /\ rest = Tail(queue) /\ p = entered
      OBVIOUS
    <3> HIDE DEF x
    <3>2. x = [waiting |-> rest, active |-> <<p>>, trades |-> r.trades, list |-> r.list]
      <4>1. x = [r EXCEPT !.waiting = rest, !.active = <<p>>]
        BY <2>8, <3>1
      <4> QED
        BY <4>1 DEF RunOk, IsRun
    <3>3. /\ IsRun(x) /\ x.waiting = rest /\ x.active = <<p>> /\ x.active[1] = p
          /\ x.trades = r.trades /\ x.list = r.list
      BY <3>2 DEF IsRun
    <3>4. IsHeld(p) /\ p.intent = i /\ p.entry = s[n].ts
      BY <3>1 DEF entered, Enter, IsHeld
    <3>5. /\ IsSeq(rest) /\ Len(queue) \in Nat /\ Len(queue) >= 1 /\ Len(rest) = Len(queue) - 1
          /\ i = queue[1] /\ \A k \in 1 .. Len(queue) - 1 : rest[k] = queue[k + 1]
      BY <2>4, <2>8, <3>1, HeadParts
    <3>6. /\ Queues(rest, r.list)
          /\ \A id : Before(id, queue, r.list) => Before(id, rest, r.list)
      <4>1. 1 \in Nat /\ Len(rest) + 1 <= Len(queue)
            /\ \A k \in 1 .. Len(rest) : rest[k] = queue[k + 1]
        BY <3>5
      <4> QED
        BY <2>6, <3>5, <4>1, RestOfQueue
    <3>7. Before(i.id, rest, r.list)
      <4>1. i.id \in Int /\ \A k \in 1 .. Len(r.list) : i.id < r.list[k].id
        BY <2>6, <3>5 DEF Queues
      <4>2. ASSUME NEW k \in 1 .. Len(rest) PROVE i.id < rest[k].id
        <5>1. rest[k] = queue[k + 1] /\ k + 1 \in 1 .. Len(queue) /\ 1 \in 1 .. Len(queue) /\ 1 < k + 1
          BY <3>5
        <5> QED
          BY <2>6, <3>5, <5>1 DEF Queues
      <4> QED
        BY <4>1, <4>2 DEF Before
    <3>8. ASSUME Len(r.trades) > 0
          PROVE  /\ Before(r.trades[Len(r.trades)].id, rest, r.list)
                 /\ r.trades[Len(r.trades)].id < i.id
                 /\ r.trades[Len(r.trades)].exit <= p.entry
      <4>1. Before(r.trades[Len(r.trades)].id, queue, r.list)
        BY <2>6, <3>8 DEF RunOk
      <4>2. r.trades[Len(r.trades)].id < i.id
        <5>1. 1 \in 1 .. Len(queue)
          BY <3>5
        <5> QED
          BY <3>5, <4>1, <5>1 DEF Before
      <4>3. PICK k \in 1 .. n : r.trades[Len(r.trades)].exit = s[k].ts
        BY <3>8 DEF RunOk
      <4>4. s[k].ts <= s[n].ts
        <5>1. n \in 1 .. n /\ (k = n \/ k < n)
          OBVIOUS
        <5>2. s[n].ts \in Int
          BY <5>1
        <5> QED
          BY <5>1, <5>2 DEF TimesUpTo
      <4> QED
        BY <3>4, <3>6, <4>1, <4>2, <4>3, <4>4
    <3>9. \E k \in 1 .. n : Len(r.trades) > 0 => r.trades[Len(r.trades)].exit = s[k].ts
      BY DEF RunOk
    <3> QED
      BY <3>3, <3>4, <3>6, <3>7, <3>8, <3>9 DEF RunOk
  <2> QED
    BY <2>1, <2>7, <2>8
<1> QED
  BY <1>1, <1>2

\* One event of the gate.
LEMMA AloneStepIsOk ==
  ASSUME NEW s, NEW n \in Nat, NEW r, RunOk(s, r, n), TimesUpTo(s, n + 1),
         \A k \in 1 .. n + 1 : s[k].ts \in Int, NEW b
  PROVE  RunOk(s, AloneStep(r, b, s[n + 1]), n + 1)
<1>1. PICK e, q, x : e = s[n + 1] /\ q = Queued(r, e) /\ x = TryExit(q, e)
  OBVIOUS
<1>2. RunOk(s, q, n)
  BY <1>1, QueuedIsOk
<1>3. RunOk(s, x, n + 1)
  BY <1>1, <1>2, ExitedIsOk
<1>4. n + 1 \in Nat /\ n + 1 >= 1
  OBVIOUS
<1>5. RunOk(s, TryEnter(x, b, s[n + 1]), n + 1)
  BY <1>3, <1>4, EnteredIsOk
<1>6. AloneStep(r, b, e) = TryEnter(x, b, e)
  BY <1>1 DEF AloneStep, Queued
<1> QED
  BY <1>1, <1>5, <1>6

\* What is open at the end is closed behind the last trade.
LEMMA ClosedOneByOne ==
  ASSUME NEW s, NEW n, NEW r, RunOk(s, r, n)
  PROVE  OneByOne(CloseOpen(r).trades)
<1>1. CASE r.active = <<>>
  BY <1>1 DEF CloseOpen, RunOk
<1>2. CASE r.active # <<>>
  <2>1. PICK t, m : t = EndTrade(r.active[1], tape[Len(tape)]) /\ m = Append(r.trades, t)
    OBVIOUS
  <2>2. PICK x : x = CloseOpen(r)
    OBVIOUS
  <2>3. x = [r EXCEPT !.active = <<>>, !.trades = m]
    BY <1>2, <2>1, <2>2 DEF CloseOpen
  <2>4. x.trades = m
    BY <2>3 DEF RunOk, IsRun
  <2>5. t.id = r.active[1].intent.id /\ t.entry = r.active[1].entry
    BY <2>1 DEF EndTrade, TradeOf
  <2>6. OneByOne(m)
    <3>1. Len(r.trades) > 0 => /\ r.trades[Len(r.trades)].id < t.id
                               /\ r.trades[Len(r.trades)].exit <= t.entry
      BY <1>2, <2>5 DEF RunOk
    <3>2. OneByOne(r.trades)
      BY DEF RunOk
    <3> QED
      BY <2>1, <3>1, <3>2, OneByOneMore
  <2> QED
    BY <2>2, <2>4, <2>6
<1> QED
  BY <1>1, <1>2

\* Events of a file with different times are neighbours of no moment: if the events
\* in order have their times in order, so has the file.
LEMMA FileInOrder ==
  ASSUME NEW s, IsFile(s), \A n \in 1 .. Len(s) : s[n].ts \in Int,
         TimesUpTo(Normalized(s), Len(s))
  PROVE  TimesInOrder(s)
<1>1. Len(s) \in Nat
  BY DEF IsFile
<1> SUFFICES ASSUME NEW k \in 1 .. Len(s), NEW n \in 1 .. Len(s), k < n, s[k].ts # s[n].ts
             PROVE  s[k].ts <= s[n].ts
  BY DEF TimesInOrder
<1> DEFINE Changes(m) == {j \in 2 .. m : s[j].ts # s[j - 1].ts}
           other == {j \in k .. n : s[j].ts # s[k].ts}
<1>2. k \in Nat /\ n \in Nat /\ 1 <= k /\ k < n
  BY <1>1
<1>3. PICK j \in other : \A i \in other : j <= i
  <2>1. other \in SUBSET Nat /\ n \in other
    BY <1>2
  <2> QED
    BY <2>1, LeastNatural
<1>4. j \in k .. n /\ s[j].ts # s[k].ts /\ j # k
  BY <1>3
<1>5. j - 1 \in k .. n /\ j - 1 < j /\ j \in 2 .. n /\ ~(j \in 2 .. k)
  BY <1>2, <1>4
<1>6. s[j - 1].ts = s[k].ts
  <2>1. j - 1 \notin other
    <3>1. ~(j <= j - 1)
      BY <1>2, <1>5
    <3> QED
      BY <1>3, <3>1
  <2> QED
    BY <1>5, <2>1
<1>7. j \in Changes(n) /\ j \notin Changes(k)
  BY <1>4, <1>5, <1>6
<1>8. Changes(k) \subseteq Changes(n)
  BY <1>2
<1>9. Cardinality(Changes(k)) < Cardinality(Changes(n))
  <2>1. PICK A, B : A = Changes(k) /\ B = Changes(n)
    OBVIOUS
  <2>2. IsFiniteSet(2 .. n)
    BY <1>2, FS_Interval
  <2>3. B \subseteq 2 .. n
    BY <2>1
  <2>4. IsFiniteSet(B)
    BY <2>2, <2>3, FS_Subset
  <2>5. A \subseteq B /\ A # B
    BY <1>7, <1>8, <2>1
  <2>6. IsFiniteSet(A) /\ Cardinality(A) <= Cardinality(B) /\ Cardinality(A) # Cardinality(B)
    BY <2>4, <2>5, FS_Subset
  <2>7. Cardinality(A) \in Nat /\ Cardinality(B) \in Nat
    BY <2>4, <2>6, FS_CardinalityType
  <2> HIDE DEF Changes
  <2> QED
    BY ONLY <2>1, <2>6, <2>7
<1> HIDE DEF Changes
<1>10. EventBefore(s, k, n)
  <2>1. EventKey(s, k)[1] < EventKey(s, n)[1]
    BY <1>9 DEF EventKey, Changes
  <2>2. 1 \in 1 .. 4 /\ 1 .. 1 - 1 = {}
    OBVIOUS
  <2> QED
    BY <2>1, <2>2 DEF EventBefore
<1>11. PICK a, b, t : a = PlaceOf(s, k) /\ b = PlaceOf(s, n) /\ t = Normalized(s)
  OBVIOUS
<1>12. /\ a \in 1 .. Len(s) /\ b \in 1 .. Len(s) /\ a < b /\ t[a] = s[k] /\ t[b] = s[n]
  BY <1>10, <1>11, EventsHavePlaces
<1>13. t[a].ts <= t[b].ts
  BY <1>11, <1>12 DEF TimesUpTo
<1> QED
  BY <1>12, <1>13

-----------------------------------------------------------------------------
(* The session.                                                            *)

DayFileOk(s) == IsFile(s) /\ IsDayFile(s)

\* While the file is read.
ScanOk == /\ at \in 0 .. Len(dayFile) /\ book = BookAfter(dayFile, at)
          /\ lastPrice # 0 => at > 0
          /\ candidates = [g \in Groups |-> candidates[g]]
          /\ \A g \in Groups : CandidateOk(dayFile, candidates[g], g, at)

\* While the gate replays the decisions.
GateOk == /\ tape = Normalized(dayFile) /\ at \in 0 .. Len(tape) /\ TimesUpTo(tape, at)
          /\ \A g \in Groups : /\ TradesOk(dayFile, candidates[g].trades, g)
                               /\ RunOk(tape, alone[g], at)

\* When the session is over.
DoneOk == \A g \in Groups :
  /\ TradesOk(dayFile, candidates[g].trades, g) /\ OneByOne(alone[g].trades)
  /\ Len(candidates[g].trades) > 0 => TimesInOrder(dayFile)

DayInv == /\ DayFileOk(dayFile)
          /\ stage = "scan" => ScanOk
          /\ stage = "gate" => GateOk
          /\ stage = "done" => DoneOk

LEMMA SessionFilesAreOk ==
  ASSUME NEW s \in SessionFiles
  PROVE  DayFileOk(s)
<1>1. /\ Len(s) \in Nat
      /\ \A n \in 1 .. Len(s) : /\ IsEvent(s[n])
                                /\ s[n].channel \in Int /\ s[n].ts \in Int /\ s[n].price \in Int
  BY SessionAssumption
<1> QED
  BY <1>1 DEF DayFileOk, IsFile, IsDayFile

\* What the tape keeps of the file.
LEMMA TapeOfFile ==
  ASSUME NEW s, DayFileOk(s), NEW t, t = Normalized(s)
  PROVE  /\ IsFile(t) /\ Len(s) \in Nat /\ Len(t) = Len(s)
         /\ \A n \in 1 .. Len(t) : t[n].ts \in Int
<1>1. /\ Len(t) = Len(s) /\ \A n \in 1 .. Len(s) : \E k \in 1 .. Len(s) : t[n] = s[k]
      /\ IsFile(t)
  BY NormalizedIsFile DEF DayFileOk
<1> QED
  BY <1>1 DEF DayFileOk, IsDayFile

LEMMA DayInvMeans ==
  ASSUME DayInv
  PROVE  TradesAreExecutable
<1> SUFFICES ASSUME stage = "done", NEW g \in Groups,
                    NEW fast, fast = candidates[g].trades, NEW r, r = alone[g].trades
             PROVE  /\ \A n \in 1 .. Len(fast) :
                         /\ fast[n].entry >= fast[n].decision + Latency
                         /\ FilledAtQuote(dayFile, fast[n]) /\ FirstTouch(dayFile, fast[n], SpecOf[g])
                    /\ \A n \in 2 .. Len(fast) :
                         fast[n].decision >= fast[n - 1].exit + SpecOf[g].cooldown
                    /\ \A n \in 2 .. Len(r) : r[n - 1].id < r[n].id /\ r[n - 1].exit <= r[n].entry
  BY DEF TradesAreExecutable
<1>1. TradesOk(dayFile, fast, g) /\ OneByOne(r) /\ (Len(fast) > 0 => TimesInOrder(dayFile))
  BY DEF DayInv, DoneOk
<1>2. Len(fast) \in Nat
  BY <1>1 DEF TradesOk, IsSeq
<1>3. ASSUME NEW n \in 1 .. Len(fast)
      PROVE  /\ fast[n].entry >= fast[n].decision + Latency
             /\ FilledAtQuote(dayFile, fast[n]) /\ FirstTouch(dayFile, fast[n], SpecOf[g])
  <2>1. Len(fast) > 0
    BY <1>2
  <2>2. TimesInOrder(dayFile) /\ TradeOk(dayFile, fast[n], g)
    BY <1>1, <2>1 DEF TradesOk
  <2> QED
    BY <2>2 DEF TradeOk
<1>4. \A n \in 2 .. Len(fast) : fast[n].decision >= fast[n - 1].exit + SpecOf[g].cooldown
  BY <1>1 DEF TradesOk
<1>5. \A n \in 2 .. Len(r) : r[n - 1].id < r[n].id /\ r[n - 1].exit <= r[n].entry
  BY <1>1 DEF OneByOne
<1> QED
  BY <1>3, <1>4, <1>5

\* A run that has just been started.
LEMMA StartedIsOk ==
  ASSUME NEW g \in Groups, NEW trades, IsSeq(trades), NEW s, NEW r,
         r = [waiting |-> <<>>, active |-> <<>>, trades |-> <<>>, list |-> IntentsOf(g, trades)]
  PROVE  RunOk(s, r, 0)
<1>1. Len(trades) \in Nat
  BY DEF IsSeq
<1>2. PICK l : l = IntentsOf(g, trades)
  OBVIOUS
<1>3. IsSeq(l) /\ Len(l) = Len(trades) /\ \A k \in 1 .. Len(l) : l[k].id = k
  <2>1. PICK S : S = {l[k] : k \in 1 .. Len(trades)}
    OBVIOUS
  <2>2. l \in [1 .. Len(trades) -> S] /\ \A k \in 1 .. Len(trades) : l[k].id = k
    BY <1>2, <2>1 DEF IntentsOf
  <2>3. l \in Seq(S) /\ Len(l) = Len(trades)
    BY <1>1, <2>2
  <2> QED
    BY <2>2, <2>3 DEF IsSeq
<1>4. /\ r.waiting = <<>> /\ r.active = <<>> /\ r.trades = <<>> /\ r.list = l /\ IsRun(r)
  BY <1>2 DEF IsRun
<1>5. IsSeq(<<>>) /\ Len(<<>>) = 0 /\ 1 .. 0 = {} /\ 2 .. 0 = {}
  BY DEF IsSeq
<1>6. Queues(<<>>, l)
  <2>1. Len(l) \in Nat /\ \A k \in 1 .. Len(l) : l[k].id = k /\ k \in Int
    BY <1>1, <1>3
  <2> QED
    BY <1>3, <1>5, <2>1 DEF Queues
<1>7. OneByOne(<<>>)
  BY <1>5 DEF OneByOne
<1> QED
  BY <1>4, <1>5, <1>6, <1>7 DEF RunOk

\* A time more.
LEMMA TimesUpToMore ==
  ASSUME NEW s, NEW n \in Nat, TimesUpTo(s, n), \A k \in 1 .. n + 1 : s[k].ts \in Int,
         n > 0 => s[n].ts <= s[n + 1].ts
  PROVE  TimesUpTo(s, n + 1)
<1> SUFFICES ASSUME NEW j \in 1 .. n + 1, NEW k \in 1 .. n + 1, j < k
             PROVE  s[j].ts <= s[k].ts
  BY DEF TimesUpTo
<1>1. CASE k \in 1 .. n
  <2>1. j \in 1 .. n
    BY <1>1
  <2> QED
    BY <1>1, <2>1 DEF TimesUpTo
<1>2. CASE k = n + 1
  <2>1. j \in 1 .. n /\ n \in 1 .. n /\ (j < n \/ j = n) /\ n > 0
    BY <1>2
  <2>2. s[j].ts <= s[n].ts
    <3>1. s[n].ts \in Int
      BY <2>1
    <3> QED
      BY <2>1, <3>1 DEF TimesUpTo
  <2>3. s[j].ts \in Int /\ s[n].ts \in Int /\ s[n + 1].ts \in Int /\ s[n].ts <= s[n + 1].ts
    BY <2>1
  <2> QED
    BY ONLY <1>2, <2>2, <2>3
<1> QED
  BY <1>1, <1>2

\* One event of the scan, for one candidate.
LEMMA ScannedIsOk ==
  ASSUME NEW s, DayFileOk(s), NEW g \in Groups, NEW n \in Nat, n + 1 \in 1 .. Len(s),
         NEW c, CandidateOk(s, c, g, n), NEW b, b = BookAfter(s, n + 1), NEW e, e = s[n + 1],
         NEW r, r = (IF InDay(b, e) THEN ResolvePending(c, SpecOf[g], e.ts, b) ELSE c),
         NEW t, t = (IF InDay(b, e) /\ e.action = "T" THEN OnTrade(r, SpecOf[g], e.ts, e.price) ELSE r)
  PROVE  /\ CandidateOk(s, t, g, n + 1)
         /\ \A signal : CandidateOk(s, MaybeOpen(t, e.ts, signal), g, n + 1)
<1>0. IsDayFile(s) /\ e.ts \in Int
  BY DEF DayFileOk, IsDayFile
<1>1. CandidateOk(s, r, g, n)
  <2>1. CASE InDay(b, e)
    <3>1. CandidateOk(s, ResolvePending(c, SpecOf[g], s[n + 1].ts, BookAfter(s, n + 1)), g, n)
      BY <1>0, ResolvedIsOk
    <3> QED
      BY <2>1, <3>1
  <2>2. CASE ~InDay(b, e)
    BY <2>2
  <2> QED
    BY <2>1, <2>2
<1>2. LooksAt(s, n + 1) <=> InDay(b, e) /\ e.action = "T"
  BY DEF LooksAt
<1>3. CandidateOk(s, t, g, n + 1)
  <2>1. CASE LooksAt(s, n + 1)
    <3>1. CandidateOk(s, OnTrade(r, SpecOf[g], s[n + 1].ts, s[n + 1].price), g, n + 1)
      BY <1>0, <1>1, <2>1, TradedIsOk
    <3> QED
      BY <1>2, <2>1, <3>1
  <2>2. CASE ~LooksAt(s, n + 1)
    <3>1. CandidateOk(s, r, g, n + 1)
      BY <1>0, <1>1, <2>2, NotLookedAt
    <3> QED
      BY <1>2, <2>2, <3>1
  <2> QED
    BY <2>1, <2>2
<1>4. ASSUME NEW signal PROVE CandidateOk(s, MaybeOpen(t, e.ts, signal), g, n + 1)
  BY <1>0, <1>3, OpenedIsOk
<1> QED
  BY <1>3, <1>4

\* One event of the scan, for the session.
LEMMA ScanKeepsDay ==
  ASSUME DayInv, ScanEvent
  PROVE  DayInv'
<1>0. /\ DayFileOk(dayFile) /\ ScanOk /\ stage = "scan" /\ dayFile' = dayFile
      /\ stage' \in {"scan", "failed"}
  BY DEF DayInv, ScanEvent
<1>1. CASE stage' = "failed"
  BY <1>0, <1>1 DEF DayInv
<1>2. CASE stage' = "scan"
  <2>1. PICK s, n, e, b : s = dayFile /\ n = at /\ e = s[n + 1] /\ b = ApplyEvent(book, e)
    OBVIOUS
  <2>2. PICK r : r = [g \in Groups |-> IF InDay(b, e)
                                       THEN ResolvePending(candidates[g], SpecOf[g], e.ts, b)
                                       ELSE candidates[g]]
    OBVIOUS
  <2>3. PICK t : t = [g \in Groups |-> IF InDay(b, e) /\ e.action = "T"
                                       THEN OnTrade(r[g], SpecOf[g], e.ts, e.price)
                                       ELSE r[g]]
    OBVIOUS
  <2>4. /\ n < Len(s) /\ book' = b /\ at' = n + 1
        /\ lastPrice' = IF InDay(b, e) /\ e.action = "T" THEN e.price ELSE lastPrice
        /\ \/ candidates' = t
           \/ \E signal \in Signals :
                candidates' = [g \in Groups |-> MaybeOpen(t[g], e.ts, signal[g])]
    BY <1>2, <2>1, <2>2, <2>3 DEF ScanEvent
  <2>5. n \in Nat /\ n + 1 \in 1 .. Len(s) /\ n + 1 \in 0 .. Len(s) /\ n + 1 > 0
    <3>1. Len(s) \in Nat /\ n \in 0 .. Len(s)
      BY <1>0, <2>1 DEF ScanOk, DayFileOk, IsFile
    <3> QED
      BY ONLY <2>4, <3>1
  <2>6. b = BookAfter(s, n + 1)
    BY <1>0, <2>1, <2>5, BookStep DEF ScanOk
  <2>7. ASSUME NEW g \in Groups
        PROVE  /\ CandidateOk(s, t[g], g, n + 1)
               /\ \A signal : CandidateOk(s, MaybeOpen(t[g], e.ts, signal), g, n + 1)
    <3>1. PICK c, rg, tg : c = candidates[g] /\ rg = r[g] /\ tg = t[g]
      OBVIOUS
    <3>2. /\ rg = (IF InDay(b, e) THEN ResolvePending(c, SpecOf[g], e.ts, b) ELSE c)
          /\ tg = (IF InDay(b, e) /\ e.action = "T" THEN OnTrade(rg, SpecOf[g], e.ts, e.price) ELSE rg)
      BY <2>2, <2>3, <3>1
    <3>3. DayFileOk(s) /\ CandidateOk(s, c, g, n)
      BY <1>0, <2>1, <3>1 DEF ScanOk
    <3>4. /\ CandidateOk(s, tg, g, n + 1)
          /\ \A signal : CandidateOk(s, MaybeOpen(tg, e.ts, signal), g, n + 1)
      BY <2>1, <2>5, <2>6, <3>2, <3>3, ScannedIsOk
    <3> QED
      BY <3>1, <3>4
  <2>8. /\ candidates' = [g \in Groups |-> candidates'[g]]
        /\ \A g \in Groups : CandidateOk(s, candidates'[g], g, n + 1)
    <3>1. CASE candidates' = t
      BY <2>3, <2>7, <3>1
    <3>2. CASE \E signal \in Signals :
                 candidates' = [g \in Groups |-> MaybeOpen(t[g], e.ts, signal[g])]
      BY <2>7, <3>2
    <3> QED
      BY <2>4, <3>1, <3>2
  <2>9. ScanOk'
    BY <1>0, <2>1, <2>4, <2>5, <2>6, <2>8 DEF ScanOk
  <2> QED
    BY <1>0, <1>2, <2>9 DEF DayInv
<1> QED
  BY <1>0, <1>1, <1>2

\* The end of the scan: what is open is closed, and the gate starts on the decisions.
LEMMA EndOfScanKeepsDay ==
  ASSUME DayInv, EndOfScan
  PROVE  DayInv'
<1>1. /\ DayFileOk(dayFile) /\ ScanOk /\ dayFile' = dayFile /\ at = Len(dayFile) /\ at' = 0
      /\ stage' = IF \E g \in Groups : candidates'[g].trades # <<>> THEN "gate" ELSE "done"
      /\ tape' = Normalized(dayFile)
  BY DEF DayInv, EndOfScan
<1>2. PICK s, c : s = dayFile /\ c = candidates'
  OBVIOUS
<1>3. ASSUME NEW g \in Groups PROVE TradesOk(s, c[g].trades, g)
  <2>1. PICK d : d = candidates[g]
    OBVIOUS
  <2>2. c[g] = IF lastPrice = 0 THEN d ELSE CloseAtEnd(d, s[Len(s)].ts, lastPrice)
    BY <1>1, <1>2, <2>1 DEF EndOfScan
  <2>3. CandidateOk(s, d, g, Len(s)) /\ IsDayFile(s) /\ (lastPrice # 0 => Len(s) > 0)
    BY <1>1, <1>2, <2>1 DEF ScanOk, DayFileOk
  <2>4. CASE lastPrice = 0
    BY <2>2, <2>3, <2>4 DEF CandidateOk
  <2>5. CASE lastPrice # 0
    <3>1. TradesOk(s, CloseAtEnd(d, s[Len(s)].ts, lastPrice).trades, g)
      BY <2>3, <2>5, EndedIsOk
    <3> QED
      BY <2>2, <2>5, <3>1
  <2> QED
    BY <2>4, <2>5
<1>4. ASSUME NEW g \in Groups
      PROVE  alone'[g] = [waiting |-> <<>>, active |-> <<>>, trades |-> <<>>,
                          list |-> IntentsOf(g, c[g].trades)]
  BY <1>2 DEF EndOfScan, Started
<1>5. CASE stage' = "gate"
  <2>1. PICK t : t = Normalized(s)
    OBVIOUS
  <2>2. tape' = t /\ Len(t) \in Nat
    BY <1>1, <1>2, <2>1, TapeOfFile
  <2>3. 0 \in 0 .. Len(t) /\ TimesUpTo(t, 0)
    <3>1. 1 .. 0 = {}
      OBVIOUS
    <3> QED
      BY <2>2, <3>1 DEF TimesUpTo
  <2>4. ASSUME NEW g \in Groups PROVE RunOk(t, alone'[g], 0)
    <3>1. IsSeq(c[g].trades)
      BY <1>3 DEF TradesOk
    <3> QED
      BY <1>4, <3>1, StartedIsOk
  <2>5. GateOk'
    BY <1>1, <1>2, <1>3, <2>1, <2>2, <2>3, <2>4 DEF GateOk
  <2> QED
    BY <1>1, <1>5, <2>5 DEF DayInv
<1>6. CASE stage' = "done"
  <2>1. \A g \in Groups : c[g].trades = <<>>
    BY <1>1, <1>2, <1>6
  <2>2. IsSeq(<<>>) /\ Len(<<>>) = 0 /\ 2 .. 0 = {}
    BY DEF IsSeq
  <2>3. OneByOne(<<>>)
    BY <2>2 DEF OneByOne
  <2>4. ASSUME NEW g \in Groups PROVE alone'[g].trades = <<>>
    <3>1. PICK l : l = IntentsOf(g, c[g].trades)
      OBVIOUS
    <3>2. alone'[g] = [waiting |-> <<>>, active |-> <<>>, trades |-> <<>>, list |-> l]
      BY <1>4, <3>1
    <3> QED
      BY <3>2
  <2>5. DoneOk'
    BY <1>1, <1>2, <1>3, <2>1, <2>2, <2>3, <2>4 DEF DoneOk
  <2> QED
    BY <1>1, <1>6, <2>5 DEF DayInv
<1> QED
  BY <1>1, <1>5, <1>6

\* One event of the gate.
LEMMA GateKeepsDay ==
  ASSUME DayInv, GateEvent
  PROVE  DayInv'
<1>1. /\ DayFileOk(dayFile) /\ GateOk /\ stage = "gate" /\ stage' = "gate" /\ dayFile' = dayFile
      /\ candidates' = candidates /\ tape' = tape /\ at < Len(tape) /\ ~RunsBack /\ at' = at + 1
      /\ alone' = [g \in Groups |-> AloneStep(alone[g], SimApply(sim, tape[at + 1]), tape[at + 1])]
  BY DEF DayInv, GateEvent, BacktestEvent, sessionVars
<1>2. PICK t, n, b : t = tape /\ n = at /\ b = SimApply(sim, t[n + 1])
  OBVIOUS
<1>3. Len(t) \in Nat /\ \A k \in 1 .. Len(t) : t[k].ts \in Int
  BY <1>1, <1>2, TapeOfFile DEF GateOk
<1>4. n \in 0 .. Len(t) /\ n < Len(t)
  BY <1>1, <1>2 DEF GateOk
<1>5. /\ n \in Nat /\ n + 1 \in 0 .. Len(t) /\ \A k \in 1 .. n + 1 : k \in 1 .. Len(t)
      /\ n > 0 => n \in 1 .. Len(t) - 1 /\ n \in 1 .. Len(t) /\ n + 1 \in 1 .. Len(t)
  BY ONLY <1>3, <1>4
<1>6. n > 0 => t[n].ts <= t[n + 1].ts
  <2>1. ASSUME n > 0 PROVE t[n].ts <= t[n + 1].ts
    <3>1. ~(t[n + 1].ts < t[n].ts)
      BY <1>1, <1>2, <1>5, <2>1 DEF RunsBack
    <3>2. t[n].ts \in Int /\ t[n + 1].ts \in Int
      BY <1>3, <1>5, <2>1
    <3> QED
      BY <3>1, <3>2
  <2> QED
    BY <2>1
<1>7. TimesUpTo(t, n) /\ \A k \in 1 .. n + 1 : t[k].ts \in Int
  BY <1>1, <1>2, <1>3, <1>5 DEF GateOk
<1>8. TimesUpTo(t, n + 1)
  BY <1>5, <1>6, <1>7, TimesUpToMore
<1>9. ASSUME NEW g \in Groups PROVE RunOk(t, alone'[g], n + 1)
  <2>1. PICK r : r = alone[g]
    OBVIOUS
  <2>2. RunOk(t, r, n)
    BY <1>1, <1>2, <2>1 DEF GateOk
  <2>3. RunOk(t, AloneStep(r, b, t[n + 1]), n + 1)
    BY <1>5, <1>7, <1>8, <2>2, AloneStepIsOk
  <2>4. alone'[g] = AloneStep(r, b, t[n + 1])
    BY <1>1, <1>2, <2>1
  <2> QED
    BY <2>3, <2>4
<1>10. GateOk'
  BY <1>1, <1>2, <1>5, <1>8, <1>9 DEF GateOk
<1> QED
  BY <1>1, <1>10 DEF DayInv

\* When the gate has read all events, the times of the file do not run back.
LEMMA FileOfTapeInOrder ==
  ASSUME DayFileOk(dayFile), GateOk, at = Len(tape)
  PROVE  TimesInOrder(dayFile)
<1>1. PICK s, t : s = dayFile /\ t = tape
  OBVIOUS
<1>2. t = Normalized(s) /\ TimesUpTo(t, Len(t))
  BY <1>1 DEF GateOk
<1>3. DayFileOk(s)
  BY <1>1
<1>4. Len(t) = Len(s)
  BY <1>2, <1>3, TapeOfFile
<1>5. IsFile(s) /\ \A n \in 1 .. Len(s) : s[n].ts \in Int
  BY <1>3 DEF DayFileOk, IsDayFile
<1>6. TimesUpTo(Normalized(s), Len(s))
  BY <1>2, <1>4
<1>7. TimesInOrder(s)
  BY <1>5, <1>6, FileInOrder
<1> QED
  BY <1>1, <1>7

\* The end of the gate.
LEMMA EndOfGateKeepsDay ==
  ASSUME DayInv, EndOfGate
  PROVE  DayInv'
<1>1. /\ DayFileOk(dayFile) /\ GateOk /\ stage' = "done" /\ dayFile' = dayFile
      /\ candidates' = candidates /\ at = Len(tape)
      /\ alone' = [g \in Groups |-> CloseOpen(alone[g])]
  BY DEF DayInv, EndOfGate, EndOfBacktest
<1>2. TimesInOrder(dayFile)
  BY <1>1, FileOfTapeInOrder
<1>3. ASSUME NEW g \in Groups PROVE OneByOne(alone'[g].trades)
  <2>1. RunOk(tape, alone[g], at)
    BY <1>1 DEF GateOk
  <2>2. OneByOne(CloseOpen(alone[g]).trades)
    BY <2>1, ClosedOneByOne
  <2> QED
    BY <1>1, <2>2
<1>4. DoneOk'
  BY <1>1, <1>2, <1>3 DEF DoneOk, GateOk
<1> QED
  BY <1>1, <1>4 DEF DayInv

LEMMA StartsWithDay ==
  ASSUME SessionInit
  PROVE  DayInv
<1>1. /\ dayFile \in SessionFiles /\ stage = "scan" /\ at = 0 /\ book = EmptyBook
      /\ lastPrice = 0 /\ candidates = [g \in Groups |-> NewRuntime]
  BY DEF SessionInit
<1>2. DayFileOk(dayFile) /\ Len(dayFile) \in Nat
  BY <1>1, SessionFilesAreOk DEF DayFileOk, IsFile
<1>3. BookAfter(dayFile, 0) = EmptyBook
  BY BookStep
<1>4. \A g \in Groups : candidates[g] = NewRuntime /\ CandidateOk(dayFile, NewRuntime, g, 0)
  BY <1>1, NewIsOk
<1>5. 0 \in 0 .. Len(dayFile)
  BY <1>2
<1>6. ScanOk
  BY <1>1, <1>3, <1>4, <1>5 DEF ScanOk
<1> QED
  BY <1>1, <1>2, <1>6 DEF DayInv

LEMMA StepKeepsDay ==
  ASSUME DayInv, [SessionNext]_<<book, backtestVars, sessionVars>>
  PROVE  DayInv'
<1>1. CASE ScanEvent
  BY <1>1, ScanKeepsDay
<1>2. CASE EndOfScan
  BY <1>2, EndOfScanKeepsDay
<1>3. CASE GateEvent
  BY <1>3, GateKeepsDay
<1>4. CASE EndOfGate
  BY <1>4, EndOfGateKeepsDay
<1>5. CASE GateFails
  <2>1. stage' = "failed" /\ dayFile' = dayFile
    BY <1>5 DEF GateFails
  <2> QED
    BY <2>1 DEF DayInv
<1>6. CASE UNCHANGED <<book, backtestVars, sessionVars>>
  BY <1>6 DEF backtestVars, sessionVars, DayInv, ScanOk, GateOk, DoneOk
<1> QED
  BY <1>1, <1>2, <1>3, <1>4, <1>5, <1>6 DEF SessionNext

\* Every trade a candidate of a finished session is judged by could have been made,
\* filled at a displayed quote or worse and left at the first touch, and the gate
\* trades the decisions one after another (TradesAreExecutable), for every day's
\* file, every strategy and whatever the candidates are told to do
\* (run_daily_strategy_backtest, CandidateRuntime, _gate_candidates).
THEOREM TradesCanBeMade == SessionSpec => []TradesAreExecutable
<1>1. SessionInit => DayInv
  BY StartsWithDay
<1>2. DayInv /\ [SessionNext]_<<book, backtestVars, sessionVars>> => DayInv'
  BY StepKeepsDay
<1>3. DayInv => TradesAreExecutable
  BY DayInvMeans
<1> QED
  BY <1>1, <1>2, <1>3, PTL DEF SessionSpec

-----------------------------------------------------------------------------
(* The simulated book of the first events of a file.                       *)

Sims(s, n, f) == f = [k \in 0 .. n |-> IF k = 0 THEN EmptySim ELSE SimApply(f[k - 1], s[k])]

LEMMA NextSims ==
  ASSUME NEW s, NEW n \in Nat, NEW f, Sims(s, n, f)
  PROVE  \E g : Sims(s, n + 1, g)
<1> DEFINE g == [k \in 0 .. n + 1 |-> IF k = 0 THEN EmptySim ELSE SimApply(f[k - 1], s[k])]
<1>1. \A k \in 0 .. n : g[k] = f[k]
  BY DEF Sims
<1>2. \A k \in 0 .. n + 1 : k # 0 => k - 1 \in 0 .. n /\ g[k - 1] = f[k - 1]
  BY <1>1
<1>3. g = [k \in 0 .. n + 1 |-> IF k = 0 THEN EmptySim ELSE SimApply(g[k - 1], s[k])]
  BY <1>2
<1> QED
  BY <1>3 DEF Sims

LEMMA SimsExist ==
  ASSUME NEW s, NEW n \in Nat
  PROVE  \E f : Sims(s, n, f)
<1> DEFINE Missing == {m \in Nat : ~ \E f : Sims(s, m, f)}
<1> SUFFICES ASSUME Missing # {} PROVE FALSE
  OBVIOUS
<1>1. PICK m \in Missing : \A k \in Missing : m <= k
  BY LeastNatural
<1>2. CASE m = 0
  <2>1. Sims(s, 0, [k \in 0 .. 0 |-> EmptySim])
    BY DEF Sims
  <2> QED
    BY <1>2, <2>1
<1>3. CASE m # 0
  <2>1. m - 1 \in Nat /\ m - 1 \notin Missing /\ (m - 1) + 1 = m
    BY <1>1, <1>3
  <2>2. \E f : Sims(s, m - 1, f)
    BY <2>1
  <2>3. \E f : Sims(s, (m - 1) + 1, f)
    BY <2>1, <2>2, NextSims
  <2> QED
    BY <2>1, <2>3
<1> QED
  BY <1>2, <1>3

\* The books of a longer file begin with those of a shorter one.
LEMMA SimsAgree ==
  ASSUME NEW s, NEW n \in Nat, NEW f, Sims(s, n, f), NEW g, Sims(s, n + 1, g)
  PROVE  \A k \in 0 .. n : f[k] = g[k]
<1> DEFINE Wrong == {k \in 0 .. n : f[k] # g[k]}
<1> SUFFICES ASSUME Wrong # {} PROVE FALSE
  OBVIOUS
<1>1. Wrong \subseteq Nat
  OBVIOUS
<1>2. PICK m \in Wrong : \A k \in Wrong : m <= k
  BY <1>1, LeastNatural
<1>3. m # 0
  BY <1>2 DEF Sims
<1>4. m - 1 \in 0 .. n /\ m - 1 \notin Wrong
  BY <1>2, <1>3
<1>5. f[m - 1] = g[m - 1]
  BY <1>4
<1> HIDE DEF Wrong
<1>6. m \in 0 .. n
  BY <1>2 DEF Wrong
<1>7. f[m] = SimApply(f[m - 1], s[m]) /\ g[m] = SimApply(g[m - 1], s[m])
  BY <1>3, <1>6 DEF Sims
<1> QED
  BY <1>2, <1>5, <1>7 DEF Wrong

LEMMA SimIsLast ==
  ASSUME NEW s, NEW n \in Nat
  PROVE  \E f : Sims(s, n, f) /\ SimAfter(s, n) = f[n]
<1> DEFINE sims == CHOOSE f : f = [k \in 0 .. n |-> IF k = 0 THEN EmptySim
                                                     ELSE SimApply(f[k - 1], s[k])]
<1>1. SimAfter(s, n) = sims[n]
  BY DEF SimAfter
<1>2. PICK f : f = [k \in 0 .. n |-> IF k = 0 THEN EmptySim ELSE SimApply(f[k - 1], s[k])]
  BY SimsExist DEF Sims
<1>3. sims = [k \in 0 .. n |-> IF k = 0 THEN EmptySim ELSE SimApply(sims[k - 1], s[k])]
  BY <1>2
<1> QED
  BY <1>1, <1>3 DEF Sims

\* The book behind one event more is the book with this event applied.
LEMMA SimStep ==
  ASSUME NEW s, NEW n \in Nat
  PROVE  /\ SimAfter(s, 0) = EmptySim
         /\ SimAfter(s, n + 1) = SimApply(SimAfter(s, n), s[n + 1])
<1>1. SimAfter(s, 0) = EmptySim
  BY SimIsLast DEF Sims
<1>2. PICK f : Sims(s, n, f) /\ SimAfter(s, n) = f[n]
  BY SimIsLast
<1>3. n + 1 \in Nat
  OBVIOUS
<1>4. PICK g : Sims(s, n + 1, g) /\ SimAfter(s, n + 1) = g[n + 1]
  BY <1>3, SimIsLast
<1>5. f[n] = g[n]
  BY <1>2, <1>4, SimsAgree
<1>6. g[n + 1] = SimApply(g[n], s[n + 1])
  <2>1. n + 1 \in 0 .. n + 1 /\ n + 1 # 0 /\ (n + 1) - 1 = n
    OBVIOUS
  <2>2. g[n + 1] = SimApply(g[(n + 1) - 1], s[n + 1])
    BY <1>4, <2>1 DEF Sims
  <2> QED
    BY <2>1, <2>2
<1> QED
  BY <1>1, <1>2, <1>4, <1>5, <1>6

-----------------------------------------------------------------------------
(* The trade that run() simulates for an intent, one event at a time.      *)

\* The position o of event m, behind the first n events: none was a reason to leave,
\* and it is worth what the last print says.
HeldFrom(s, o, p, m, n) ==
  /\ \A k \in m + 1 .. n : s[k].action = "T" => ExitReason(o, s[k]) = "NONE"
  /\ \/ p = o /\ \A k \in m + 1 .. n : s[k].action # "T"
     \/ \E k \in m + 1 .. n : /\ s[k].action = "T" /\ p = Marked(o, s[k])
                              /\ \A j \in k + 1 .. n : s[j].action # "T"

Opened(s, i, m) == Enter(i, SimAfter(s, m), s[m])

HeldSince(s, p, i, m, n) == CanEnter(s, i, m) /\ HeldFrom(s, Opened(s, i, m), p, m, n)

LEMMA OpenedParts ==
  ASSUME NEW s, NEW i, NEW m
  PROVE  IsHeld(Opened(s, i, m)) /\ Opened(s, i, m).intent = i /\ Opened(s, i, m).entry = s[m].ts
BY DEF Opened, Enter, IsHeld

\* A mark changes neither the levels of a position nor its time.
LEMMA MarkedIsAlike ==
  ASSUME NEW o, IsHeld(o), NEW e
  PROVE  /\ IsHeld(Marked(o, e)) /\ Marked(o, e).intent = o.intent /\ Marked(o, e).entry = o.entry
         /\ \A f : /\ ExitReason(Marked(o, e), f) = ExitReason(o, f)
                   /\ ExitTrade(Marked(o, e), f) = ExitTrade(o, f)
                   /\ Marked(Marked(o, e), f) = Marked(o, f)
<1>1. PICK q, v : q = Marked(o, e) /\ v = e.price * o.filled
  OBVIOUS
<1>2. q = [o EXCEPT !.last = v]
  BY <1>1 DEF Marked
<1>3. q = [intent |-> o.intent, entry |-> o.entry, filled |-> o.filled, value |-> o.value, last |-> v]
  BY <1>2 DEF IsHeld
<1>4. /\ IsHeld(q) /\ q.intent = o.intent /\ q.entry = o.entry /\ q.filled = o.filled
      /\ q.value = o.value
  BY <1>3 DEF IsHeld
<1>5. ASSUME NEW f PROVE ExitReason(q, f) = ExitReason(o, f)
  BY <1>4 DEF ExitReason, Gain
<1>6. ASSUME NEW f PROVE ExitTrade(q, f) = ExitTrade(o, f)
  BY <1>4, <1>5 DEF ExitTrade, TradeOf, Gain
<1>7. ASSUME NEW f PROVE Marked(q, f) = Marked(o, f)
  <2>1. PICK w : w = f.price * o.filled
    OBVIOUS
  <2>2. Marked(q, f) = [q EXCEPT !.last = w] /\ Marked(o, f) = [o EXCEPT !.last = w]
    BY <1>4, <2>1 DEF Marked
  <2>3. [q EXCEPT !.last = w] = [intent |-> o.intent, entry |-> o.entry, filled |-> o.filled,
                                 value |-> o.value, last |-> w]
    BY <1>3
  <2>4. [o EXCEPT !.last = w] = [intent |-> o.intent, entry |-> o.entry, filled |-> o.filled,
                                 value |-> o.value, last |-> w]
    BY DEF IsHeld
  <2> QED
    BY <2>2, <2>3, <2>4
<1> QED
  BY <1>1, <1>4, <1>5, <1>6, <1>7

LEMMA HeldParts ==
  ASSUME NEW s, NEW o, IsHeld(o), NEW p, NEW m, NEW n, HeldFrom(s, o, p, m, n)
  PROVE  /\ IsHeld(p) /\ p.intent = o.intent /\ p.entry = o.entry
         /\ \A f : /\ ExitReason(p, f) = ExitReason(o, f)
                   /\ ExitTrade(p, f) = ExitTrade(o, f)
                   /\ Marked(p, f) = Marked(o, f)
<1>1. p = o \/ \E k \in m + 1 .. n : p = Marked(o, s[k])
  BY DEF HeldFrom
<1> QED
  BY <1>1, MarkedIsAlike

\* One event more that is no reason to leave.
LEMMA HeldMore ==
  ASSUME NEW s, NEW o, IsHeld(o), NEW p, NEW m \in Nat, NEW n \in Nat, m <= n,
         HeldFrom(s, o, p, m, n)
  PROVE  /\ s[n + 1].action # "T" => HeldFrom(s, o, p, m, n + 1)
         /\ s[n + 1].action = "T" /\ ExitReason(p, s[n + 1]) = "NONE" =>
              HeldFrom(s, o, Marked(p, s[n + 1]), m, n + 1)
<1>1. \A k \in m + 1 .. n + 1 : k \in m + 1 .. n \/ k = n + 1
  OBVIOUS
<1>2. ASSUME s[n + 1].action # "T" PROVE HeldFrom(s, o, p, m, n + 1)
  <2>1. \A k \in m + 1 .. n + 1 : s[k].action = "T" => ExitReason(o, s[k]) = "NONE"
    BY <1>1, <1>2 DEF HeldFrom
  <2>2. CASE p = o /\ \A k \in m + 1 .. n : s[k].action # "T"
    BY <1>1, <1>2, <2>1, <2>2 DEF HeldFrom
  <2>3. ASSUME NEW k \in m + 1 .. n, s[k].action = "T", p = Marked(o, s[k]),
               \A j \in k + 1 .. n : s[j].action # "T"
        PROVE  HeldFrom(s, o, p, m, n + 1)
    <3>1. k \in m + 1 .. n + 1 /\ \A j \in k + 1 .. n + 1 : j \in k + 1 .. n \/ j = n + 1
      OBVIOUS
    <3>2. \A j \in k + 1 .. n + 1 : s[j].action # "T"
      BY <1>2, <2>3, <3>1
    <3> QED
      BY <2>1, <2>3, <3>1, <3>2 DEF HeldFrom
  <2> QED
    BY <2>2, <2>3 DEF HeldFrom
<1>3. ASSUME s[n + 1].action = "T", ExitReason(p, s[n + 1]) = "NONE"
      PROVE  HeldFrom(s, o, Marked(p, s[n + 1]), m, n + 1)
  <2>1. ExitReason(o, s[n + 1]) = "NONE" /\ Marked(p, s[n + 1]) = Marked(o, s[n + 1])
    BY <1>3, HeldParts
  <2>2. \A k \in m + 1 .. n + 1 : s[k].action = "T" => ExitReason(o, s[k]) = "NONE"
    BY <1>1, <2>1 DEF HeldFrom
  <2>3. n + 1 \in m + 1 .. n + 1 /\ (n + 1) + 1 .. n + 1 = {}
    OBVIOUS
  <2> QED
    BY <1>3, <2>1, <2>2, <2>3 DEF HeldFrom
<1> QED
  BY <1>2, <1>3

LEMMA HeldAtOnce ==
  ASSUME NEW s, NEW i, NEW n \in Nat, CanEnter(s, i, n)
  PROVE  HeldSince(s, Opened(s, i, n), i, n, n)
<1>1. n + 1 .. n = {}
  OBVIOUS
<1> QED
  BY <1>1 DEF HeldSince, HeldFrom

\* The first reason to leave ends the trade as run() has it.
LEMMA LeftIsSimulated ==
  ASSUME NEW s, NEW i, NEW m \in Nat, NEW n \in Nat, m <= n, Len(s) \in Nat, n + 1 <= Len(s),
         NEW p, HeldSince(s, p, i, m, n),
         s[n + 1].action = "T", ExitReason(p, s[n + 1]) # "NONE"
  PROVE  ExitTrade(p, s[n + 1]) = SimulatedTrade(s, i, m)
<1>1. PICK o : o = Opened(s, i, m)
  OBVIOUS
<1>2. IsHeld(o) /\ HeldFrom(s, o, p, m, n)
  BY <1>1, OpenedParts DEF HeldSince
<1>3. ExitReason(o, s[n + 1]) # "NONE" /\ ExitTrade(p, s[n + 1]) = ExitTrade(o, s[n + 1])
  BY <1>2, HeldParts
<1>4. PICK trades : trades = {k \in m + 1 .. Len(s) : s[k].action = "T"}
  OBVIOUS
<1>5. PICK S : S = {k \in trades : ExitReason(o, s[k]) # "NONE"}
  OBVIOUS
<1>6. S \in SUBSET Nat /\ n + 1 \in S
  BY <1>3, <1>4, <1>5
<1>7. \A k \in S : ~(k \in m + 1 .. n)
  BY <1>2, <1>4, <1>5 DEF HeldFrom
<1>8. Min(S) \in S /\ \A k \in S : Min(S) <= k
  BY <1>6, LeastPlace
<1>9. Min(S) = n + 1 /\ S # {}
  <2>1. Min(S) <= n + 1 /\ Min(S) \in m + 1 .. Len(s) /\ ~(Min(S) \in m + 1 .. n)
    BY <1>4, <1>5, <1>6, <1>7, <1>8
  <2> QED
    BY <1>6, <2>1
<1>10. Earliest(S) = n + 1 /\ n + 1 # 0
  BY <1>9 DEF Earliest
<1>11. SimulatedTrade(s, i, m) = ExitTrade(o, s[n + 1])
  BY <1>1, <1>4, <1>5, <1>10 DEF SimulatedTrade, Opened
<1> QED
  BY <1>3, <1>11

\* What is never left is closed at the end as run() has it.
LEMMA EndIsSimulated ==
  ASSUME NEW s, NEW i, NEW m \in Nat, Len(s) \in Nat, m <= Len(s),
         NEW p, HeldSince(s, p, i, m, Len(s))
  PROVE  EndTrade(p, s[Len(s)]) = SimulatedTrade(s, i, m)
<1>1. PICK o, n : o = Opened(s, i, m) /\ n = Len(s)
  OBVIOUS
<1>2. IsHeld(o) /\ HeldFrom(s, o, p, m, n) /\ n \in Nat
  BY <1>1, OpenedParts DEF HeldSince
<1>3. PICK trades : trades = {k \in m + 1 .. n : s[k].action = "T"}
  OBVIOUS
<1>4. PICK S : S = {k \in trades : ExitReason(o, s[k]) # "NONE"}
  OBVIOUS
<1>5. S = {}
  BY <1>2, <1>3, <1>4 DEF HeldFrom
<1>6. PICK final : final = IF trades = {} THEN o ELSE Marked(o, s[Max(trades)])
  OBVIOUS
<1>7. SimulatedTrade(s, i, m) = EndTrade(final, s[n])
  <2>1. Earliest(S) = 0
    BY <1>5 DEF Earliest
  <2> QED
    BY <1>1, <1>3, <1>4, <1>6, <2>1 DEF SimulatedTrade, Opened
<1>8. final = p
  <2>1. CASE p = o /\ \A k \in m + 1 .. n : s[k].action # "T"
    BY <1>3, <1>6, <2>1
  <2>2. ASSUME NEW k \in m + 1 .. n, s[k].action = "T", p = Marked(o, s[k]),
               \A j \in k + 1 .. n : s[j].action # "T"
        PROVE  final = p
    <3>1. trades \in SUBSET Nat /\ trades \subseteq m + 1 .. n /\ k \in trades /\ trades # {}
      BY <1>2, <1>3, <2>2
    <3>2. IsFiniteSet(trades)
      <4>1. IsFiniteSet(m + 1 .. n)
        BY <1>2, FS_Interval
      <4> QED
        BY <3>1, <4>1, FS_Subset
    <3>3. PICK l : l = Max(trades)
      OBVIOUS
    <3>4. l \in trades /\ l >= k
      BY <3>1, <3>2, <3>3, GreatestPlace
    <3>5. l \in m + 1 .. n /\ ~(l \in k + 1 .. n)
      BY <1>3, <2>2, <3>1, <3>4
    <3>6. l = k
      BY ONLY <1>2, <2>2, <3>4, <3>5, m \in Nat
    <3> QED
      BY <1>6, <2>2, <3>1, <3>3, <3>6
  <2> QED
    BY <1>2, <2>1, <2>2 DEF HeldFrom
<1> QED
  BY <1>1, <1>7, <1>8

\* The fields of a simulated trade that do not depend on where it ends.
LEMMA SimulatedParts ==
  ASSUME NEW s, NEW i, NEW m
  PROVE  SimulatedTrade(s, i, m).id = i.id /\ SimulatedTrade(s, i, m).entry = s[m].ts
<1>1. PICK o : o = Opened(s, i, m)
  OBVIOUS
<1>2. IsHeld(o) /\ o.intent = i /\ o.entry = s[m].ts
  BY <1>1, OpenedParts
<1>3. PICK trades : trades = {k \in m + 1 .. Len(s) : s[k].action = "T"}
  OBVIOUS
<1>4. PICK k, final : /\ k = Earliest({j \in trades : ExitReason(o, s[j]) # "NONE"})
                      /\ final = IF trades = {} THEN o ELSE Marked(o, s[Max(trades)])
  OBVIOUS
<1>5. final.intent = i /\ final.entry = s[m].ts
  BY <1>2, <1>4, MarkedIsAlike
<1>6. SimulatedTrade(s, i, m) = IF k # 0 THEN ExitTrade(o, s[k]) ELSE EndTrade(final, s[Len(s)])
  BY <1>1, <1>3, <1>4 DEF SimulatedTrade, Opened
<1>7. /\ ExitTrade(o, s[k]).id = i.id /\ ExitTrade(o, s[k]).entry = s[m].ts
  BY <1>2 DEF ExitTrade, TradeOf
<1>8. EndTrade(final, s[Len(s)]).id = i.id /\ EndTrade(final, s[Len(s)]).entry = s[m].ts
  BY <1>5 DEF EndTrade, TradeOf
<1> QED
  BY <1>6, <1>7, <1>8

-----------------------------------------------------------------------------
(* How the intents of a group fare in a run of the gate.                   *)

\* What is known of the intents themselves.
IntentSet(I) == \A i \in I : /\ i.id \in Int /\ i.decision \in Int /\ i.validUntil \in Int
                             /\ \A j \in I : i.id = j.id => i = j

Within(w, I) == \A k \in 1 .. Len(w) : w[k] \in I

Listed(w, i) == \E k \in 1 .. Len(w) : w[k] = i

\* What waits has been due; what is not yet due is in the order of its decisions.
QueueOk(s, I, r, n) ==
  /\ Within(r.waiting, I) /\ Within(r.list, I)
  /\ \A k \in 1 .. Len(r.waiting) : \E m \in 1 .. n : Due(r.waiting[k], s[m])
  /\ \A j, k \in 1 .. Len(r.list) : j < k => r.list[j].decision <= r.list[k].decision

NoneDue(w, e) == \A k \in 1 .. Len(w) : ~Due(w[k], e)

\* The intent entered at event m: it has the trade that run() would have from there
\* on, or it is in the position this trade is at by event h.
Entered(s, r, i, m, h) ==
  \/ CanEnter(s, i, m) /\ \E k \in 1 .. Len(r.trades) : r.trades[k] = SimulatedTrade(s, i, m)
  \/ r.active # <<>> /\ HeldSince(s, r.active[1], i, m, h)

\* Another trade is open at event m.
InTheWay(s, r, i, m) ==
  \/ \E k \in 1 .. Len(r.trades) : /\ r.trades[k].id # i.id /\ r.trades[k].entry <= s[m].ts
                                   /\ s[m].ts <= r.trades[k].exit
  \/ r.active # <<>> /\ r.active[1].intent.id # i.id /\ r.active[1].entry <= s[m].ts

TradesFrom(s, I, r, n) ==
  \A k \in 1 .. Len(r.trades) :
    \E i \in I, m \in 1 .. n : CanEnter(s, i, m) /\ r.trades[k] = SimulatedTrade(s, i, m)

ActiveFrom(s, I, r, n, h) ==
  r.active # <<>> => \E i \in I, m \in 1 .. n : HeldSince(s, r.active[1], i, m, h)

\* No intent is forgotten.
Kept(s, I, r, n, h) ==
  \A i \in I : \/ Listed(r.list, i) \/ Listed(r.waiting, i)
               \/ \E m \in 1 .. n : Expired(i, s[m]) \/ Entered(s, r, i, m, h)

\* An intent that can enter has entered by then, or another trade is open.
Served(s, I, r, n, h) ==
  \A i \in I, m \in 1 .. n : CanEnter(s, i, m) =>
    InTheWay(s, r, i, m) \/ \E l \in 1 .. m : Entered(s, r, i, l, h)

Fares(s, I, r, n, h) ==
  TradesFrom(s, I, r, n) /\ ActiveFrom(s, I, r, n, h) /\ Kept(s, I, r, n, h) /\ Served(s, I, r, n, h)

\* A run that has the trades and the position of another serves the same intents.
LEMMA ServedAlike ==
  ASSUME NEW s, NEW I, NEW r, NEW n \in Nat, NEW h, Served(s, I, r, n, h), NEW x, NEW j,
         \A i \in I : \A m \in 1 .. n : /\ Entered(s, r, i, m, h) => Entered(s, x, i, m, j)
                                        /\ InTheWay(s, r, i, m) => InTheWay(s, x, i, m)
  PROVE  Served(s, I, x, n, j)
<1> SUFFICES ASSUME NEW i \in I, NEW m \in 1 .. n, CanEnter(s, i, m)
             PROVE  InTheWay(s, x, i, m) \/ \E l \in 1 .. m : Entered(s, x, i, l, j)
  BY DEF Served
<1>1. InTheWay(s, r, i, m) \/ \E l \in 1 .. m : Entered(s, r, i, l, h)
  BY DEF Served
<1>2. \A l \in 1 .. m : l \in 1 .. n
  OBVIOUS
<1> QED
  BY <1>1, <1>2

\* A time no later than another.
LEMMA NoLater ==
  ASSUME NEW s, NEW n \in Nat, TimesUpTo(s, n), \A k \in 1 .. n : s[k].ts \in Int,
         NEW k \in 1 .. n, NEW m \in 1 .. n, k <= m
  PROVE  s[k].ts <= s[m].ts
<1>1. k = m \/ k < m
  OBVIOUS
<1>2. s[k].ts \in Int
  OBVIOUS
<1> QED
  BY <1>1, <1>2 DEF TimesUpTo

LEMMA QueuedFares ==
  ASSUME NEW s, NEW n \in Nat, NEW r, RunOk(s, r, n), NEW I, IntentSet(I), s[n + 1].ts \in Int,
         QueueOk(s, I, r, n), Fares(s, I, r, n, n), NEW q, q = Queued(r, s[n + 1])
  PROVE  QueueOk(s, I, q, n + 1) /\ Fares(s, I, q, n, n) /\ NoneDue(q.list, s[n + 1])
<1>1. PICK e, w, l, x, y : /\ e = s[n + 1] /\ w = r.waiting /\ l = r.list
                           /\ x = w \o NewlyDue(l, e) /\ y = NotDue(l, e)
  OBVIOUS
<1>2. q = [waiting |-> x, active |-> r.active, trades |-> r.trades, list |-> y]
  <2>1. q = [r EXCEPT !.waiting = x, !.list = y]
    BY <1>1 DEF Queued
  <2> QED
    BY <2>1 DEF RunOk, IsRun
<1>3. q.waiting = x /\ q.active = r.active /\ q.trades = r.trades /\ q.list = y
  BY <1>2
<1>4. IsSeq(w) /\ IsSeq(l)
  BY <1>1 DEF RunOk, Queues
<1>5. PICK d \in Nat : /\ Moved(w, l, d, x, y)
                       /\ \A k \in 1 .. d : Due(l[k], e)
                       /\ d < Len(l) => ~Due(l[d + 1], e)
  BY <1>1, <1>4, DueParts
<1>6. PICK a, b : a = Len(w) /\ b = Len(l)
  OBVIOUS
<1>7. /\ a \in Nat /\ b \in Nat /\ d <= b
      /\ Len(x) = a + d
      /\ \A k \in 1 .. a : x[k] = w[k]
      /\ \A k \in 1 .. d : x[a + k] = l[k]
      /\ Len(y) = b - d
      /\ \A k \in 1 .. b - d : y[k] = l[k + d]
  BY <1>5, <1>6 DEF Moved
<1>8. /\ \A k \in 1 .. a : w[k] \in I /\ \E m \in 1 .. n : Due(w[k], s[m])
      /\ \A k \in 1 .. b : l[k] \in I
      /\ \A j, k \in 1 .. b : j < k => l[j].decision <= l[k].decision
  BY <1>1, <1>6 DEF QueueOk, Within
<1>9. ASSUME NEW k \in 1 .. Len(x)
      PROVE  x[k] \in I /\ \E m \in 1 .. n + 1 : Due(x[k], s[m])
  <2>1. CASE k \in 1 .. a
    <3>1. PICK m \in 1 .. n : Due(w[k], s[m])
      BY <1>8, <2>1
    <3>2. m \in 1 .. n + 1
      OBVIOUS
    <3> QED
      BY <1>7, <1>8, <2>1, <3>1, <3>2
  <2>2. CASE ~(k \in 1 .. a)
    <3>1. PICK j : j = k - a
      OBVIOUS
    <3>2. j \in 1 .. d /\ j \in 1 .. b /\ a + j = k /\ n + 1 \in 1 .. n + 1
      BY <1>7, <2>2, <3>1
    <3>3. x[k] = l[j]
      BY <1>7, <3>2
    <3> QED
      BY <1>1, <1>5, <1>8, <3>2, <3>3
  <2> QED
    BY <2>1, <2>2
<1>10. \A k \in 1 .. Len(y) : y[k] = l[k + d] /\ k + d \in 1 .. b
  BY <1>7
<1>11. QueueOk(s, I, q, n + 1)
  <2>1. ASSUME NEW j \in 1 .. Len(y), NEW k \in 1 .. Len(y), j < k
        PROVE  y[j].decision <= y[k].decision
    <3>1. j + d < k + d
      BY <1>7, <2>1
    <3> QED
      BY <1>8, <1>10, <3>1
  <2> QED
    BY <1>3, <1>8, <1>9, <1>10, <2>1 DEF QueueOk, Within
<1>12. ASSUME NEW k \in 1 .. Len(y) PROVE ~Due(y[k], e)
  <2>1. d + 1 \in 1 .. b /\ k + d \in 1 .. b /\ (k + d = d + 1 \/ d + 1 < k + d) /\ d < b
    BY <1>7, <1>12
  <2>2. ~Due(l[d + 1], e)
    BY <1>5, <1>6, <2>1
  <2>3. l[d + 1] \in I /\ l[k + d] \in I
    BY <1>8, <2>1
  <2>4. l[d + 1].decision \in Int /\ l[k + d].decision \in Int
    BY <2>3 DEF IntentSet
  <2>5. l[d + 1].decision <= l[k + d].decision
    BY <1>8, <2>1, <2>4
  <2>6. PICK u, v : u = l[d + 1].decision /\ v = l[k + d].decision
    OBVIOUS
  <2>7. ~(v + Latency <= e.ts)
    <3>1. ~(u + Latency <= e.ts)
      BY <2>2, <2>6 DEF Due
    <3>2. u \in Int /\ v \in Int /\ u <= v /\ Latency \in Int /\ e.ts \in Int
      BY <1>1, <2>4, <2>5, <2>6, BacktestAssumption
    <3> QED
      BY ONLY <3>1, <3>2
  <2> QED
    BY <1>10, <2>6, <2>7 DEF Due
<1>13. \A i, m : /\ Entered(s, q, i, m, n) <=> Entered(s, r, i, m, n)
                 /\ InTheWay(s, q, i, m) <=> InTheWay(s, r, i, m)
  BY <1>3 DEF Entered, InTheWay
<1>14. Served(s, I, q, n, n)
  BY <1>13, ServedAlike DEF Fares
<1>15. ASSUME NEW i, Listed(l, i) PROVE Listed(x, i) \/ Listed(y, i)
  <2>1. PICK k \in 1 .. b : l[k] = i
    BY <1>6, <1>15 DEF Listed
  <2>2. CASE k \in 1 .. d
    <3>1. a + k \in 1 .. Len(x) /\ x[a + k] = i
      BY <1>7, <2>1, <2>2
    <3> QED
      BY <3>1 DEF Listed
  <2>3. CASE ~(k \in 1 .. d)
    <3>1. PICK j : j = k - d
      OBVIOUS
    <3>2. j \in 1 .. b - d /\ j + d = k
      BY <1>7, <2>1, <2>3, <3>1
    <3>3. j \in 1 .. Len(y) /\ y[j] = i
      BY <1>7, <2>1, <3>2
    <3> QED
      BY <3>3 DEF Listed
  <2> QED
    BY <2>2, <2>3
<1>16. ASSUME NEW i, Listed(w, i) PROVE Listed(x, i)
  <2>1. PICK k \in 1 .. a : w[k] = i
    BY <1>6, <1>16 DEF Listed
  <2>2. k \in 1 .. Len(x) /\ x[k] = i
    BY <1>7, <2>1
  <2> QED
    BY <2>2 DEF Listed
<1>17. Kept(s, I, q, n, n)
  BY <1>1, <1>3, <1>13, <1>15, <1>16 DEF Fares, Kept
<1>18. TradesFrom(s, I, q, n) /\ ActiveFrom(s, I, q, n, n)
  BY <1>3 DEF Fares, TradesFrom, ActiveFrom
<1> QED
  BY <1>1, <1>3, <1>11, <1>12, <1>14, <1>17, <1>18 DEF Fares, NoneDue

\* A position that is left or closed becomes the trade that run() has for it, and
\* what it was in the way of stays so.
LEMMA TradedFares ==
  ASSUME NEW s, NEW n \in Nat, NEW I, NEW h, NEW r, IsSeq(r.trades), r.active # <<>>,
         TradesFrom(s, I, r, n), ActiveFrom(s, I, r, n, h), Kept(s, I, r, n, h),
         Served(s, I, r, n, h),
         NEW t, t.id = r.active[1].intent.id, t.entry = r.active[1].entry,
         \A m \in 1 .. n : s[m].ts <= t.exit,
         \A i \in I : \A m \in 1 .. n :
           HeldSince(s, r.active[1], i, m, h) => t = SimulatedTrade(s, i, m),
         NEW x, x.waiting = r.waiting, x.list = r.list, x.active = <<>>,
         x.trades = Append(r.trades, t), NEW j
  PROVE  Fares(s, I, x, n, j)
<1>1. PICK a, l, p : a = r.trades /\ l = Len(a) /\ p = r.active[1]
  OBVIOUS
<1>2. PICK b : b = x.trades
  OBVIOUS
<1>3. /\ IsSeq(b) /\ l \in Nat /\ Len(b) = l + 1
      /\ \A k \in 1 .. l : b[k] = a[k]
      /\ b[l + 1] = t
  BY <1>1, <1>2, AppendParts
<1>4. l + 1 \in 1 .. Len(b) /\ \A k \in 1 .. l : k \in 1 .. Len(b)
  BY <1>3
<1>5. ASSUME NEW i \in I, NEW m \in 1 .. n, Entered(s, r, i, m, h)
      PROVE  Entered(s, x, i, m, j)
  <2>1. CASE CanEnter(s, i, m) /\ \E k \in 1 .. l : a[k] = SimulatedTrade(s, i, m)
    <3>1. \E k \in 1 .. Len(b) : b[k] = SimulatedTrade(s, i, m)
      BY <1>3, <1>4, <2>1
    <3> QED
      BY <1>2, <2>1, <3>1 DEF Entered
  <2>2. CASE HeldSince(s, p, i, m, h)
    <3>1. t = SimulatedTrade(s, i, m) /\ CanEnter(s, i, m)
      BY <1>1, <2>2 DEF HeldSince
    <3>2. \E k \in 1 .. Len(b) : b[k] = SimulatedTrade(s, i, m)
      BY <1>3, <1>4, <3>1
    <3> QED
      BY <1>2, <3>1, <3>2 DEF Entered
  <2> QED
    BY <1>1, <1>5, <2>1, <2>2 DEF Entered
<1>6. ASSUME NEW i \in I, NEW m \in 1 .. n, InTheWay(s, r, i, m)
      PROVE  InTheWay(s, x, i, m)
  <2>1. ASSUME NEW k \in 1 .. l, a[k].id # i.id, a[k].entry <= s[m].ts, s[m].ts <= a[k].exit
        PROVE  InTheWay(s, x, i, m)
    <3>1. k \in 1 .. Len(b) /\ b[k] = a[k]
      BY <1>3, <1>4
    <3> QED
      BY <1>2, <2>1, <3>1 DEF InTheWay
  <2>2. CASE p.intent.id # i.id /\ p.entry <= s[m].ts
    <3>1. b[l + 1].id # i.id /\ b[l + 1].entry <= s[m].ts /\ s[m].ts <= b[l + 1].exit
      BY <1>1, <1>3, <2>2
    <3> QED
      BY <1>2, <1>4, <3>1 DEF InTheWay
  <2> QED
    BY <1>1, <1>6, <2>1, <2>2 DEF InTheWay
<1>7. Served(s, I, x, n, j)
  BY <1>5, <1>6, ServedAlike
<1>8. Kept(s, I, x, n, j)
  BY <1>5 DEF Kept
<1>9. TradesFrom(s, I, x, n)
  <2> SUFFICES ASSUME NEW k \in 1 .. Len(b)
               PROVE  \E i \in I, m \in 1 .. n : CanEnter(s, i, m) /\ b[k] = SimulatedTrade(s, i, m)
    BY <1>2 DEF TradesFrom
  <2>1. CASE k \in 1 .. l
    <3>1. b[k] = a[k]
      BY <1>3, <2>1
    <3> QED
      BY <1>1, <2>1, <3>1 DEF TradesFrom
  <2>2. CASE k = l + 1
    <3>1. PICK i \in I, m \in 1 .. n : HeldSince(s, p, i, m, h)
      BY <1>1 DEF ActiveFrom
    <3>2. CanEnter(s, i, m) /\ b[k] = SimulatedTrade(s, i, m)
      BY <1>1, <1>3, <2>2, <3>1 DEF HeldSince
    <3> QED
      BY <3>2
  <2> QED
    BY <1>3, <2>1, <2>2
<1>10. ActiveFrom(s, I, x, n, j)
  BY DEF ActiveFrom
<1> QED
  BY <1>7, <1>8, <1>9, <1>10 DEF Fares

\* A position that is held on, with its mark or without.
LEMMA HeldFares ==
  ASSUME NEW s, NEW n \in Nat, NEW I, NEW h, NEW j, NEW r, Fares(s, I, r, n, h), r.active # <<>>,
         NEW p, p.intent = r.active[1].intent, p.entry = r.active[1].entry,
         \A i \in I : \A m \in 1 .. n :
           HeldSince(s, r.active[1], i, m, h) => HeldSince(s, p, i, m, j),
         NEW x, x.waiting = r.waiting, x.list = r.list, x.trades = r.trades,
         x.active # <<>>, x.active[1] = p
  PROVE  Fares(s, I, x, n, j)
<1>1. ASSUME NEW i \in I, NEW m \in 1 .. n
      PROVE  /\ Entered(s, r, i, m, h) => Entered(s, x, i, m, j)
             /\ InTheWay(s, r, i, m) => InTheWay(s, x, i, m)
  <2>1. HeldSince(s, r.active[1], i, m, h) => HeldSince(s, p, i, m, j)
    OBVIOUS
  <2> QED
    BY <2>1 DEF Entered, InTheWay
<1>2. Served(s, I, x, n, j)
  BY <1>1, ServedAlike DEF Fares
<1>3. Kept(s, I, x, n, j)
  BY <1>1 DEF Fares, Kept
<1>4. TradesFrom(s, I, x, n)
  BY DEF Fares, TradesFrom
<1>5. ActiveFrom(s, I, x, n, j)
  BY DEF Fares, ActiveFrom
<1> QED
  BY <1>2, <1>3, <1>4, <1>5 DEF Fares

\* The exit of an event.
LEMMA ExitedFares ==
  ASSUME NEW s, Len(s) \in Nat, NEW n \in Nat, n + 1 <= Len(s), TimesUpTo(s, n + 1),
         \A k \in 1 .. n + 1 : s[k].ts \in Int, NEW r, RunOk(s, r, n), NEW I,
         Fares(s, I, r, n, n), NEW x, x = TryExit(r, s[n + 1])
  PROVE  /\ x.waiting = r.waiting /\ x.list = r.list /\ Fares(s, I, x, n, n + 1)
<1>1. PICK e, p : e = s[n + 1] /\ p = r.active[1]
  OBVIOUS
<1>2. CASE r.active = <<>>
  <2>1. x = r
    BY <1>2 DEF TryExit
  <2>2. \A i \in I : \A m \in 1 .. n : /\ Entered(s, r, i, m, n) => Entered(s, x, i, m, n + 1)
                                       /\ InTheWay(s, r, i, m) => InTheWay(s, x, i, m)
    BY <1>2, <2>1 DEF Entered
  <2>3. Served(s, I, x, n, n + 1)
    BY <2>2, ServedAlike DEF Fares
  <2> QED
    BY <1>2, <2>1, <2>2, <2>3 DEF Fares, Kept, ActiveFrom
<1>3. CASE r.active # <<>>
  <2>1. ASSUME NEW i \in I, NEW m \in 1 .. n, HeldSince(s, p, i, m, n)
        PROVE  /\ e.action # "T" => HeldSince(s, p, i, m, n + 1)
               /\ e.action = "T" /\ ExitReason(p, e) = "NONE" => HeldSince(s, Marked(p, e), i, m, n + 1)
               /\ e.action = "T" /\ ExitReason(p, e) # "NONE" =>
                    ExitTrade(p, e) = SimulatedTrade(s, i, m)
    <3>1. PICK o : o = Opened(s, i, m)
      OBVIOUS
    <3>2. IsHeld(o) /\ HeldFrom(s, o, p, m, n) /\ CanEnter(s, i, m)
      BY <2>1, <3>1, OpenedParts DEF HeldSince
    <3>3. m \in Nat /\ m <= n
      OBVIOUS
    <3>4. /\ e.action # "T" => HeldFrom(s, o, p, m, n + 1)
          /\ e.action = "T" /\ ExitReason(p, e) = "NONE" => HeldFrom(s, o, Marked(p, e), m, n + 1)
      BY <1>1, <3>2, <3>3, HeldMore
    <3>5. e.action = "T" /\ ExitReason(p, e) # "NONE" => ExitTrade(p, e) = SimulatedTrade(s, i, m)
      BY <1>1, <2>1, <3>3, LeftIsSimulated
    <3> QED
      BY <3>1, <3>2, <3>4, <3>5 DEF HeldSince
  <2>2. CASE e.action # "T"
    <3>1. x = r
      BY <1>1, <2>2 DEF TryExit
    <3>2. \A i \in I : \A m \in 1 .. n : HeldSince(s, p, i, m, n) => HeldSince(s, p, i, m, n + 1)
      BY <2>1, <2>2
    <3>3. Fares(s, I, x, n, n + 1)
      BY <1>1, <1>3, <3>1, <3>2, HeldFares
    <3> QED
      BY <3>1, <3>3
  <2>3. CASE e.action = "T" /\ ExitReason(p, e) = "NONE"
    <3>1. PICK q : q = Marked(p, e)
      OBVIOUS
    <3>2. x = [r EXCEPT !.active = <<q>>]
      BY <1>1, <1>3, <2>3, <3>1 DEF TryExit, Leaves
    <3>3. x = [waiting |-> r.waiting, active |-> <<q>>, trades |-> r.trades, list |-> r.list]
      BY <3>2 DEF RunOk, IsRun
    <3>4. /\ x.waiting = r.waiting /\ x.list = r.list /\ x.trades = r.trades
          /\ x.active = <<q>> /\ x.active # <<>> /\ x.active[1] = q
      BY <3>3
    <3>5. q.intent = p.intent /\ q.entry = p.entry
      BY <1>1, <1>3, <3>1, MarkedIsAlike DEF RunOk
    <3>6. \A i \in I : \A m \in 1 .. n : HeldSince(s, p, i, m, n) => HeldSince(s, q, i, m, n + 1)
      BY <2>1, <2>3, <3>1
    <3>7. Fares(s, I, x, n, n + 1)
      BY <1>1, <1>3, <3>4, <3>5, <3>6, HeldFares
    <3> QED
      BY <3>4, <3>7
  <2>4. CASE e.action = "T" /\ ExitReason(p, e) # "NONE"
    <3>1. PICK t, m : t = ExitTrade(p, e) /\ m = Append(r.trades, t)
      OBVIOUS
    <3>2. x = [r EXCEPT !.active = <<>>, !.trades = m]
      BY <1>1, <1>3, <2>4, <3>1 DEF TryExit, Leaves
    <3>3. x = [waiting |-> r.waiting, active |-> <<>>, trades |-> m, list |-> r.list]
      BY <3>2 DEF RunOk, IsRun
    <3>4. x.waiting = r.waiting /\ x.list = r.list /\ x.trades = m /\ x.active = <<>>
      BY <3>3
    <3>5. t.id = p.intent.id /\ t.entry = p.entry /\ t.exit = e.ts
      BY <3>1 DEF ExitTrade, TradeOf
    <3>6. ASSUME NEW k \in 1 .. n PROVE s[k].ts <= t.exit
      <4>1. k \in 1 .. n + 1 /\ n + 1 \in 1 .. n + 1 /\ k <= n + 1 /\ n + 1 \in Nat
        OBVIOUS
      <4>2. s[k].ts <= s[n + 1].ts
        BY <4>1, NoLater
      <4> QED
        BY <1>1, <3>5, <4>2
    <3>7. \A i \in I : \A k \in 1 .. n : HeldSince(s, p, i, k, n) => t = SimulatedTrade(s, i, k)
      BY <2>1, <2>4, <3>1
    <3>8. IsSeq(r.trades)
      BY DEF RunOk, OneByOne
    <3>9. /\ TradesFrom(s, I, r, n) /\ ActiveFrom(s, I, r, n, n) /\ Kept(s, I, r, n, n)
          /\ Served(s, I, r, n, n)
      BY DEF Fares
    <3>10. Fares(s, I, x, n, n + 1)
      <4>1. t.id = r.active[1].intent.id /\ t.entry = r.active[1].entry /\ r.active # <<>>
        BY <1>1, <1>3, <3>5
      <4>2. \A i \in I : \A k \in 1 .. n :
              HeldSince(s, r.active[1], i, k, n) => t = SimulatedTrade(s, i, k)
        BY <1>1, <3>7
      <4>3. x.trades = Append(r.trades, t)
        BY <3>1, <3>4
      <4> QED
        BY ONLY <3>4, <3>6, <3>8, <3>9, <4>1, <4>2, <4>3, n \in Nat, TradedFares
    <3> QED
      BY <3>4, <3>10
  <2> QED
    BY <2>2, <2>3, <2>4
<1> QED
  BY <1>2, <1>3

\* One event more: the intents that can enter at it.
LEMMA ServedMore ==
  ASSUME NEW s, NEW n \in Nat, NEW I, NEW r, NEW h, Served(s, I, r, n, h),
         \A i \in I : CanEnter(s, i, n + 1) =>
           InTheWay(s, r, i, n + 1) \/ \E l \in 1 .. n + 1 : Entered(s, r, i, l, h)
  PROVE  Served(s, I, r, n + 1, h)
<1> SUFFICES ASSUME NEW i \in I, NEW m \in 1 .. n + 1, CanEnter(s, i, m)
             PROVE  InTheWay(s, r, i, m) \/ \E l \in 1 .. m : Entered(s, r, i, l, h)
  BY DEF Served
<1>1. m \in 1 .. n \/ m = n + 1
  OBVIOUS
<1> QED
  BY <1>1 DEF Served

\* An intent that can enter waits, unless it has entered before.
LEMMA ReadyWaits ==
  ASSUME NEW s, NEW n \in Nat, TimesUpTo(s, n + 1), \A k \in 1 .. n + 1 : s[k].ts \in Int,
         NEW I, IntentSet(I), NEW r, NEW h, Kept(s, I, r, n, h), NoneDue(r.list, s[n + 1]),
         NEW i \in I, CanEnter(s, i, n + 1)
  PROVE  Listed(r.waiting, i) \/ \E m \in 1 .. n : Entered(s, r, i, m, h)
<1>1. Due(i, s[n + 1]) /\ ~Expired(i, s[n + 1])
  BY DEF CanEnter
<1>2. ~Listed(r.list, i)
  BY <1>1 DEF Listed, NoneDue
<1>3. ASSUME NEW m \in 1 .. n PROVE ~Expired(i, s[m])
  <2>1. m \in 1 .. n + 1 /\ n + 1 \in 1 .. n + 1 /\ m <= n + 1 /\ n + 1 \in Nat
    OBVIOUS
  <2>2. s[m].ts <= s[n + 1].ts
    BY <2>1, NoLater
  <2>3. s[m].ts \in Int /\ s[n + 1].ts \in Int /\ i.validUntil \in Int
    BY <2>1 DEF IntentSet
  <2>4. ~(s[n + 1].ts > i.validUntil)
    BY <1>1 DEF Expired
  <2>5. ~(s[m].ts > i.validUntil)
    BY ONLY <2>2, <2>3, <2>4
  <2> QED
    BY <2>5 DEF Expired
<1> QED
  BY <1>2, <1>3 DEF Kept

\* What is left of a queue, with its first intent or without.
LEMMA QueueLeft ==
  ASSUME NEW s, NEW n \in Nat, NEW I, NEW r, QueueOk(s, I, r, n), NEW v, Len(v) \in Nat, NEW z \in Nat,
         Len(v) + z <= Len(r.waiting), Len(r.waiting) \in Nat,
         \A k \in 1 .. Len(v) : v[k] = r.waiting[k + z],
         NEW x, x.waiting = v, x.list = r.list
  PROVE  QueueOk(s, I, x, n)
<1>1. \A k \in 1 .. Len(v) : k + z \in 1 .. Len(r.waiting)
  OBVIOUS
<1> QED
  BY <1>1 DEF QueueOk, Within

LEMMA EnteredFares ==
  ASSUME NEW s, NEW n \in Nat, TimesUpTo(s, n + 1), \A k \in 1 .. n + 1 : s[k].ts \in Int,
         NEW I, IntentSet(I), NEW r, RunOk(s, r, n + 1), QueueOk(s, I, r, n + 1),
         Fares(s, I, r, n, n + 1), NoneDue(r.list, s[n + 1]),
         NEW b, b = SimAfter(s, n + 1), NEW x, x = TryEnter(r, b, s[n + 1])
  PROVE  QueueOk(s, I, x, n + 1) /\ Fares(s, I, x, n + 1, n + 1)
<1>1. PICK N, e : N = n + 1 /\ e = s[N]
  OBVIOUS
<1>2. /\ N \in Nat /\ N \in 1 .. N /\ N >= 1 /\ \A m \in 1 .. n : m \in 1 .. N
      /\ \A m \in 1 .. N : m \in 1 .. n \/ m = N
  BY <1>1
<1>3. TimesUpTo(s, N) /\ \A k \in 1 .. N : s[k].ts \in Int
  BY <1>1
<1>4. \A m \in 1 .. N : s[m].ts <= e.ts
  BY <1>1, <1>2, <1>3, NoLater
<1>5. /\ TradesFrom(s, I, r, n) /\ ActiveFrom(s, I, r, n, N) /\ Kept(s, I, r, n, N)
      /\ Served(s, I, r, n, N)
  BY <1>1 DEF Fares
<1>6. \A i \in I : CanEnter(s, i, N) => Listed(r.waiting, i) \/ \E m \in 1 .. n : Entered(s, r, i, m, N)
  BY <1>1, <1>5, ReadyWaits
<1>7. CASE r.active # <<>>
  <2>1. x = r
    BY <1>7 DEF TryEnter
  <2>2. PICK j \in I, m \in 1 .. n : HeldSince(s, r.active[1], j, m, N)
    BY <1>5, <1>7 DEF ActiveFrom
  <2>3. r.active[1].intent = j /\ r.active[1].entry = s[m].ts
    <3>1. PICK o : o = Opened(s, j, m)
      OBVIOUS
    <3>2. IsHeld(o) /\ o.intent = j /\ o.entry = s[m].ts
      BY <3>1, OpenedParts
    <3>3. HeldFrom(s, o, r.active[1], m, N)
      BY <2>2, <3>1 DEF HeldSince
    <3> QED
      BY <3>2, <3>3, HeldParts
  <2>4. Entered(s, r, j, m, N) /\ m \in 1 .. N
    BY <1>2, <1>7, <2>2 DEF Entered
  <2>5. ASSUME NEW i \in I, i # j PROVE InTheWay(s, r, i, N)
    <3>1. r.active[1].intent.id # i.id
      BY <2>3, <2>5 DEF IntentSet
    <3>2. r.active[1].entry <= s[N].ts
      BY <1>1, <1>4, <2>3, <2>4
    <3> QED
      BY <1>7, <3>1, <3>2 DEF InTheWay
  <2>6. Served(s, I, r, N, N)
    BY <1>1, <1>5, <2>4, <2>5, ServedMore
  <2>7. Kept(s, I, r, N, N)
    BY <1>2, <1>5 DEF Kept
  <2>8. TradesFrom(s, I, r, N)
    BY <1>2, <1>5 DEF TradesFrom
  <2>9. ActiveFrom(s, I, r, N, N)
    BY <1>2, <1>5 DEF ActiveFrom
  <2> QED
    BY <1>1, <2>1, <2>6, <2>7, <2>8, <2>9 DEF Fares
<1>8. CASE r.active = <<>>
  <2>1. PICK w, queue, p : w = r.waiting /\ queue = ValidQueue(w, e) /\ p = Enter(Head(queue), b, e)
    OBVIOUS
  <2>2. x = IF queue = <<>> \/ ~Fillable(b) THEN [r EXCEPT !.waiting = queue]
            ELSE [r EXCEPT !.waiting = Tail(queue), !.active = <<p>>]
    BY <1>1, <1>8, <2>1 DEF TryEnter, ValidQueue
  <2>3. IsSeq(w)
    BY <2>1 DEF RunOk, Queues
  <2>4. /\ IsSeq(queue) /\ Len(queue) \in Nat /\ Len(w) \in Nat
        /\ queue # <<>> => ~Expired(queue[1], e)
    BY <2>1, <2>3, ValidParts
  <2>5. PICK z \in Nat : Behind(w, e, queue, z)
    BY <2>1, <2>3, ValidParts
  <2>6. PICK c, y : c = Len(queue) /\ y = Len(w)
    OBVIOUS
  <2>7. /\ c \in Nat /\ y \in Nat /\ c + z = y
        /\ \A k \in 1 .. c : queue[k] = w[k + z]
        /\ \A k \in 1 .. z : Expired(w[k], e)
    BY <2>4, <2>5, <2>6 DEF Behind
  <2>8. ASSUME NEW i, Listed(w, i) PROVE Expired(i, e) \/ \E k \in 1 .. c : queue[k] = i
    <3>1. PICK k \in 1 .. y : w[k] = i
      BY <2>6, <2>8 DEF Listed
    <3>2. CASE k \in 1 .. z
      BY <2>7, <3>1, <3>2
    <3>3. CASE ~(k \in 1 .. z)
      <4>1. PICK l : l = k - z
        OBVIOUS
      <4>2. l \in 1 .. c /\ l + z = k
        BY <2>7, <3>1, <3>3, <4>1
      <4> QED
        BY <2>7, <3>1, <4>2
    <3> QED
      BY <3>2, <3>3
  <2>9. /\ \A i, m : Entered(s, r, i, m, N) =>
                       CanEnter(s, i, m) /\ \E k \in 1 .. Len(r.trades) :
                                              r.trades[k] = SimulatedTrade(s, i, m)
        /\ \A i, m : InTheWay(s, r, i, m) =>
                       \E k \in 1 .. Len(r.trades) : /\ r.trades[k].id # i.id
                                                     /\ r.trades[k].entry <= s[m].ts
                                                     /\ s[m].ts <= r.trades[k].exit
    BY <1>8 DEF Entered, InTheWay
  <2>10. CASE queue = <<>> \/ ~Fillable(b)
    <3>1. x = [waiting |-> queue, active |-> <<>>, trades |-> r.trades, list |-> r.list]
      <4>1. x = [r EXCEPT !.waiting = queue]
        BY <2>2, <2>10
      <4> QED
        BY <1>8, <4>1 DEF RunOk, IsRun
    <3>2. x.waiting = queue /\ x.active = <<>> /\ x.trades = r.trades /\ x.list = r.list
      BY <3>1
    <3>3. QueueOk(s, I, x, N)
      <4>1. QueueOk(s, I, r, N) /\ Len(queue) + z <= Len(r.waiting)
        BY <1>1, <2>1, <2>6, <2>7
      <4>2. Len(r.waiting) \in Nat /\ \A k \in 1 .. Len(queue) : queue[k] = r.waiting[k + z]
        BY <2>1, <2>6, <2>7
      <4> QED
        BY <1>2, <2>4, <3>2, <4>1, <4>2, QueueLeft
    <3>4. \A i, m : /\ Entered(s, r, i, m, N) => Entered(s, x, i, m, N)
                    /\ InTheWay(s, r, i, m) => InTheWay(s, x, i, m)
      <4>1. ASSUME NEW i, NEW m, Entered(s, r, i, m, N) PROVE Entered(s, x, i, m, N)
        <5>1. CanEnter(s, i, m) /\ \E k \in 1 .. Len(r.trades) : r.trades[k] = SimulatedTrade(s, i, m)
          BY <2>9, <4>1
        <5> QED
          BY <3>2, <5>1 DEF Entered
      <4>2. ASSUME NEW i, NEW m, InTheWay(s, r, i, m) PROVE InTheWay(s, x, i, m)
        <5>1. \E k \in 1 .. Len(r.trades) : /\ r.trades[k].id # i.id
                                            /\ r.trades[k].entry <= s[m].ts
                                            /\ s[m].ts <= r.trades[k].exit
          BY <2>9, <4>2
        <5> QED
          BY <3>2, <5>1 DEF InTheWay
      <4> QED
        BY <4>1, <4>2
    <3>5. Served(s, I, x, n, N)
      BY <1>5, <3>4, ServedAlike
    <3>6. ASSUME NEW i \in I, CanEnter(s, i, N) PROVE \E m \in 1 .. N : Entered(s, x, i, m, N)
      <4>1. Fillable(b) /\ ~Expired(i, e)
        BY <1>1, <3>6 DEF CanEnter
      <4>2. queue = <<>> /\ c = 0
        BY <2>6, <2>10, <4>1
      <4>3. ~ \E k \in 1 .. c : queue[k] = i
        BY <4>2
      <4>4. ~Listed(w, i)
        BY <2>8, <4>1, <4>3
      <4>5. \E m \in 1 .. n : Entered(s, r, i, m, N)
        BY <1>6, <2>1, <3>6, <4>4
      <4> QED
        BY <1>2, <3>4, <4>5
    <3>7. Served(s, I, x, N, N)
      BY <1>1, <3>5, <3>6, ServedMore
    <3>8. Kept(s, I, x, N, N)
      <4> SUFFICES ASSUME NEW i \in I
                   PROVE  \/ Listed(x.list, i) \/ Listed(x.waiting, i)
                          \/ \E m \in 1 .. N : Expired(i, s[m]) \/ Entered(s, x, i, m, N)
        BY DEF Kept
      <4>1. Listed(w, i) => Expired(i, s[N]) \/ Listed(x.waiting, i)
        BY <1>1, <2>6, <2>8, <3>2 DEF Listed
      <4>2. \/ Listed(x.list, i) \/ Listed(w, i)
            \/ \E m \in 1 .. n : Expired(i, s[m]) \/ Entered(s, x, i, m, N)
        BY <1>5, <2>1, <3>2, <3>4 DEF Kept
      <4> QED
        BY <1>2, <4>1, <4>2
    <3>9. TradesFrom(s, I, x, N) /\ ActiveFrom(s, I, x, N, N)
      BY <1>2, <1>5, <3>2 DEF TradesFrom, ActiveFrom
    <3> QED
      BY <1>1, <3>3, <3>7, <3>8, <3>9 DEF Fares
  <2>11. CASE queue # <<>> /\ Fillable(b)
    <3>1. PICK h, rest : h = Head(queue) /\ rest = Tail(queue)
      OBVIOUS
    <3>2. x = [waiting |-> rest, active |-> <<p>>, trades |-> r.trades, list |-> r.list]
      <4>1. x = [r EXCEPT !.waiting = rest, !.active = <<p>>]
        BY <2>2, <2>11, <3>1
      <4> QED
        BY <4>1 DEF RunOk, IsRun
    <3>3. /\ x.waiting = rest /\ x.active = <<p>> /\ x.active # <<>> /\ x.active[1] = p
          /\ x.trades = r.trades /\ x.list = r.list
      BY <3>2
    <3>4. /\ IsSeq(rest) /\ c >= 1 /\ Len(rest) = c - 1
          /\ h = queue[1] /\ \A k \in 1 .. c - 1 : rest[k] = queue[k + 1]
      BY <2>4, <2>6, <2>11, <3>1, HeadParts
    <3>5. /\ Len(rest) \in Nat /\ Len(rest) + (z + 1) <= y /\ z + 1 \in Nat
          /\ \A k \in 1 .. Len(rest) : rest[k] = w[k + (z + 1)]
      <4>1. Len(rest) \in Nat /\ Len(rest) + (z + 1) <= y /\ z + 1 \in Nat
        BY <2>7, <3>4
      <4>2. ASSUME NEW k \in 1 .. Len(rest) PROVE rest[k] = w[k + (z + 1)]
        <5>1. k \in 1 .. c - 1 /\ k + 1 \in 1 .. c /\ (k + 1) + z = k + (z + 1)
          BY <2>7, <3>4, <4>2
        <5> QED
          BY <2>7, <3>4, <5>1
      <4> QED
        BY <4>1, <4>2
    <3>6. QueueOk(s, I, x, N)
      <4>1. QueueOk(s, I, r, N) /\ Len(r.waiting) \in Nat /\ Len(rest) + (z + 1) <= Len(r.waiting)
        BY <1>1, <2>1, <2>6, <2>7, <3>5
      <4>2. \A k \in 1 .. Len(rest) : rest[k] = r.waiting[k + (z + 1)]
        BY <2>1, <3>5
      <4> QED
        BY <1>2, <3>3, <3>5, <4>1, <4>2, QueueLeft
    <3>7. h \in I /\ CanEnter(s, h, N)
      <4>1. h = w[1 + z] /\ 1 + z \in 1 .. y
        BY <2>7, <3>4
      <4>2. h \in I /\ \E m \in 1 .. N : Due(h, s[m])
        BY <1>1, <2>1, <2>6, <4>1 DEF QueueOk, Within
      <4>3. PICK m \in 1 .. N : Due(h, s[m])
        BY <4>2
      <4>4. s[m].ts <= e.ts /\ s[m].ts \in Int /\ e.ts \in Int /\ h.decision \in Int /\ Latency \in Int
        BY <1>1, <1>2, <1>3, <1>4, <4>2, BacktestAssumption DEF IntentSet
      <4>5. h.decision + Latency <= e.ts
        <5>1. h.decision + Latency <= s[m].ts
          BY <4>3 DEF Due
        <5> QED
          BY ONLY <4>4, <5>1
      <4>6. Due(h, e) /\ ~Expired(h, e)
        BY <2>4, <2>11, <3>4, <4>5 DEF Due
      <4> QED
        BY <1>1, <2>11, <4>2, <4>6 DEF CanEnter
    <3>8. p = Opened(s, h, N)
      BY <1>1, <2>1, <3>1 DEF Opened
    <3>9. HeldSince(s, p, h, N, N)
      BY <1>2, <3>7, <3>8, HeldAtOnce
    <3>10. Entered(s, x, h, N, N)
      BY <3>3, <3>9 DEF Entered
    <3>11. ASSUME NEW i \in I, i # h PROVE InTheWay(s, x, i, N)
      <4>1. p.intent = h /\ p.entry = e.ts
        BY <1>1, <3>8, OpenedParts
      <4>2. h.id # i.id /\ e.ts <= e.ts
        BY <1>1, <1>2, <1>3, <3>7, <3>11 DEF IntentSet
      <4> QED
        BY <1>1, <3>3, <4>1, <4>2 DEF InTheWay
    <3>12. \A i, m : /\ Entered(s, r, i, m, N) => Entered(s, x, i, m, N)
                     /\ InTheWay(s, r, i, m) => InTheWay(s, x, i, m)
      <4>1. ASSUME NEW i, NEW m, Entered(s, r, i, m, N) PROVE Entered(s, x, i, m, N)
        <5>1. CanEnter(s, i, m) /\ \E k \in 1 .. Len(r.trades) : r.trades[k] = SimulatedTrade(s, i, m)
          BY <2>9, <4>1
        <5> QED
          BY <3>3, <5>1 DEF Entered
      <4>2. ASSUME NEW i, NEW m, InTheWay(s, r, i, m) PROVE InTheWay(s, x, i, m)
        <5>1. \E k \in 1 .. Len(r.trades) : /\ r.trades[k].id # i.id
                                            /\ r.trades[k].entry <= s[m].ts
                                            /\ s[m].ts <= r.trades[k].exit
          BY <2>9, <4>2
        <5> QED
          BY <3>3, <5>1 DEF InTheWay
      <4> QED
        BY <4>1, <4>2
    <3>13. Served(s, I, x, n, N)
      BY <1>5, <3>12, ServedAlike
    <3>14. Served(s, I, x, N, N)
      BY <1>1, <1>2, <3>10, <3>11, <3>13, ServedMore
    <3>15. Kept(s, I, x, N, N)
      <4> SUFFICES ASSUME NEW i \in I
                   PROVE  \/ Listed(x.list, i) \/ Listed(x.waiting, i)
                          \/ \E m \in 1 .. N : Expired(i, s[m]) \/ Entered(s, x, i, m, N)
        BY DEF Kept
      <4>1. ASSUME NEW k \in 1 .. c, queue[k] = i PROVE i = h \/ Listed(rest, i)
        <5>1. CASE k = 1
          BY <3>4, <4>1, <5>1
        <5>2. CASE k # 1
          <6>1. PICK l : l = k - 1
            OBVIOUS
          <6>2. l \in 1 .. c - 1 /\ l + 1 = k
            BY <2>7, <5>2, <6>1
          <6>3. l \in 1 .. Len(rest) /\ rest[l] = i
            BY <3>4, <4>1, <6>2
          <6> QED
            BY <6>3 DEF Listed
        <5> QED
          BY <5>1, <5>2
      <4>2. Listed(w, i) => Expired(i, s[N]) \/ i = h \/ Listed(x.waiting, i)
        BY <1>1, <2>8, <3>3, <4>1
      <4>3. \/ Listed(x.list, i) \/ Listed(w, i)
            \/ \E m \in 1 .. n : Expired(i, s[m]) \/ Entered(s, x, i, m, N)
        BY <1>5, <2>1, <3>3, <3>12 DEF Kept
      <4> QED
        BY <1>2, <3>10, <4>2, <4>3
    <3>16. TradesFrom(s, I, x, N)
      BY <1>2, <1>5, <3>3 DEF TradesFrom
    <3>17. ActiveFrom(s, I, x, N, N)
      BY <1>2, <3>3, <3>7, <3>9 DEF ActiveFrom
    <3> QED
      BY <1>1, <3>6, <3>14, <3>15, <3>16, <3>17 DEF Fares
  <2> QED
    BY <2>10, <2>11
<1> QED
  BY <1>7, <1>8

\* One event of the gate.
LEMMA AloneStepFares ==
  ASSUME NEW s, Len(s) \in Nat, NEW n \in Nat, n + 1 <= Len(s), TimesUpTo(s, n + 1),
         \A k \in 1 .. n + 1 : s[k].ts \in Int, NEW r, RunOk(s, r, n), NEW I, IntentSet(I),
         QueueOk(s, I, r, n), Fares(s, I, r, n, n), NEW b, b = SimAfter(s, n + 1)
  PROVE  /\ QueueOk(s, I, AloneStep(r, b, s[n + 1]), n + 1)
         /\ Fares(s, I, AloneStep(r, b, s[n + 1]), n + 1, n + 1)
<1>1. PICK e, q, x, y : /\ e = s[n + 1] /\ q = Queued(r, e) /\ x = TryExit(q, e)
                        /\ y = TryEnter(x, b, e)
  OBVIOUS
<1>2. RunOk(s, q, n)
  BY <1>1, QueuedIsOk
<1>3. RunOk(s, x, n + 1)
  BY <1>1, <1>2, ExitedIsOk
<1>4. n + 1 \in 1 .. n + 1
  OBVIOUS
<1>5. QueueOk(s, I, q, n + 1) /\ Fares(s, I, q, n, n) /\ NoneDue(q.list, e)
  BY <1>1, <1>4, QueuedFares
<1>6. x.waiting = q.waiting /\ x.list = q.list /\ Fares(s, I, x, n, n + 1)
  BY <1>1, <1>2, <1>5, ExitedFares
<1>7. QueueOk(s, I, x, n + 1) /\ NoneDue(x.list, e)
  BY <1>5, <1>6 DEF QueueOk
<1>8. QueueOk(s, I, y, n + 1) /\ Fares(s, I, y, n + 1, n + 1)
  BY <1>1, <1>3, <1>6, <1>7, EnteredFares
<1>9. AloneStep(r, b, e) = y
  BY <1>1 DEF AloneStep, Queued
<1> QED
  BY <1>1, <1>8, <1>9

\* What is open at the end has the trade that run() ends with.
LEMMA ClosedFares ==
  ASSUME NEW s, s = tape, NEW n \in Nat, n = Len(s), TimesUpTo(s, n),
         \A k \in 1 .. n : s[k].ts \in Int, NEW r, RunOk(s, r, n), NEW I, Fares(s, I, r, n, n),
         NEW x, x = CloseOpen(r)
  PROVE  x.active = <<>> /\ Fares(s, I, x, n, n)
<1>1. CASE r.active = <<>>
  BY <1>1 DEF CloseOpen
<1>2. CASE r.active # <<>>
  <2>1. PICK t, m : t = EndTrade(r.active[1], s[n]) /\ m = Append(r.trades, t)
    OBVIOUS
  <2>2. x = [waiting |-> r.waiting, active |-> <<>>, trades |-> m, list |-> r.list]
    <3>1. x = [r EXCEPT !.active = <<>>, !.trades = m]
      BY <1>2, <2>1 DEF CloseOpen
    <3> QED
      BY <3>1 DEF RunOk, IsRun
  <2>3. x.waiting = r.waiting /\ x.list = r.list /\ x.active = <<>> /\ x.trades = Append(r.trades, t)
    BY <2>1, <2>2
  <2>4. t.id = r.active[1].intent.id /\ t.entry = r.active[1].entry /\ t.exit = s[n].ts
    BY <2>1 DEF EndTrade, TradeOf
  <2>5. ASSUME NEW k \in 1 .. n PROVE s[k].ts <= t.exit
    <3>1. n \in 1 .. n /\ k <= n
      OBVIOUS
    <3> QED
      BY <2>4, <3>1, NoLater
  <2>6. ASSUME NEW i \in I, NEW k \in 1 .. n, HeldSince(s, r.active[1], i, k, n)
        PROVE  t = SimulatedTrade(s, i, k)
    <3>1. k \in Nat /\ Len(s) \in Nat /\ k <= Len(s)
      OBVIOUS
    <3>2. HeldSince(s, r.active[1], i, k, Len(s))
      BY <2>6
    <3>3. EndTrade(r.active[1], s[Len(s)]) = SimulatedTrade(s, i, k)
      BY ONLY <3>1, <3>2, EndIsSimulated
    <3> QED
      BY <2>1, <3>3
  <2>7. IsSeq(r.trades)
    BY DEF RunOk, OneByOne
  <2>8. /\ TradesFrom(s, I, r, n) /\ ActiveFrom(s, I, r, n, n) /\ Kept(s, I, r, n, n)
        /\ Served(s, I, r, n, n)
    BY DEF Fares
  <2>9. t.id = r.active[1].intent.id /\ t.entry = r.active[1].entry
    BY <2>4
  <2>10. Fares(s, I, x, n, n)
    BY ONLY <1>2, <2>3, <2>5, <2>6, <2>7, <2>8, <2>9, n \in Nat, TradedFares
  <2> QED
    BY <2>3, <2>10
<1> QED
  BY <1>1, <1>2

\* No two trades have one id.
LEMMA IdsAscend ==
  ASSUME NEW trades, OneByOne(trades), \A k \in 1 .. Len(trades) : trades[k].id \in Int,
         NEW j \in 1 .. Len(trades), NEW k \in 1 .. Len(trades), j < k
  PROVE  trades[j].id < trades[k].id
<1> DEFINE Wrong == {l \in 1 .. Len(trades) : j < l /\ ~(trades[j].id < trades[l].id)}
<1>1. Len(trades) \in Nat
  BY DEF OneByOne, IsSeq
<1> SUFFICES ASSUME Wrong # {} PROVE FALSE
  OBVIOUS
<1>2. Wrong \subseteq Nat
  BY <1>1
<1>3. PICK m \in Wrong : \A l \in Wrong : m <= l
  BY <1>2, LeastNatural
<1>4. m \in 1 .. Len(trades) /\ j < m /\ ~(trades[j].id < trades[m].id)
  BY <1>3
<1>5. m \in 2 .. Len(trades) /\ m - 1 \in 1 .. Len(trades) /\ (m - 1 = j \/ j < m - 1) /\ ~(m <= m - 1)
  BY <1>1, <1>4
<1>6. m - 1 \notin Wrong
  BY <1>3, <1>5
<1>7. m - 1 = j \/ trades[j].id < trades[m - 1].id
  BY <1>5, <1>6
<1>8. trades[m - 1].id < trades[m].id
  BY <1>5 DEF OneByOne
<1>9. PICK a, b, c : a = trades[j].id /\ b = trades[m - 1].id /\ c = trades[m].id
  OBVIOUS
<1>10. a \in Int /\ b \in Int /\ c \in Int /\ b < c /\ ~(a < c) /\ (a = b \/ a < b)
  BY <1>4, <1>5, <1>7, <1>8, <1>9
<1> QED
  BY ONLY <1>10

\* What StreamingAgreesWithRun says of one intent, and of one group.
IntentAgrees(s, i, r) ==
  LET simulated == Simulate(s, i)
      places == {k \in 1 .. Len(r.trades) : r.trades[k].id = i.id}
  IN  IF simulated = <<>> THEN places = {}
      ELSE /\ ~Blocked(r, i, simulated[1]) =>
                \E k \in places : places = {k} /\ r.trades[k] = simulated[1]
           /\ \A k \in places : /\ simulated[1].entry <= r.trades[k].entry
                                /\ r.trades[k].entry <= i.validUntil

GroupAgrees(s, l, r) == \A n \in 1 .. Len(l) : IntentAgrees(s, l[n], r)

IntentsIn(l) == {l[k] : k \in 1 .. Len(l)}

LEMMA FaresMeans ==
  ASSUME NEW s, NEW N \in Nat, N = Len(s), TimesUpTo(s, N), \A k \in 1 .. N : s[k].ts \in Int,
         NEW I, IntentSet(I), NEW r, r.active = <<>>, OneByOne(r.trades), Fares(s, I, r, N, N),
         NEW l, I = IntentsIn(l)
  PROVE  GroupAgrees(s, l, r)
<1>1. PICK a : a = r.trades
  OBVIOUS
<1>2. ASSUME NEW k \in 1 .. Len(a), NEW i \in I, a[k].id = i.id
      PROVE  \E m \in 1 .. N : CanEnter(s, i, m) /\ a[k] = SimulatedTrade(s, i, m)
  <2>1. PICK j \in I, m \in 1 .. N : CanEnter(s, j, m) /\ a[k] = SimulatedTrade(s, j, m)
    BY <1>1 DEF Fares, TradesFrom
  <2>2. j.id = i.id
    BY <1>2, <2>1, SimulatedParts
  <2>3. j = i
    BY <2>2 DEF IntentSet
  <2> QED
    BY <2>1, <2>3
<1>3. \A k \in 1 .. Len(a) : a[k].id \in Int
  <2> SUFFICES ASSUME NEW k \in 1 .. Len(a) PROVE a[k].id \in Int
    OBVIOUS
  <2>1. PICK i \in I, m \in 1 .. N : CanEnter(s, i, m) /\ a[k] = SimulatedTrade(s, i, m)
    BY <1>1 DEF Fares, TradesFrom
  <2>2. SimulatedTrade(s, i, m).id = i.id
    BY ONLY SimulatedParts
  <2>3. i.id \in Int
    BY DEF IntentSet
  <2> QED
    BY ONLY <2>1, <2>2, <2>3
<1>4. ASSUME NEW j \in 1 .. Len(a), NEW k \in 1 .. Len(a), a[j].id = a[k].id PROVE j = k
  <2>1. Len(a) \in Nat
    BY <1>1 DEF OneByOne, IsSeq
  <2>2. j = k \/ j < k \/ k < j
    BY <2>1
  <2>3. a[j].id \in Int /\ a[k].id \in Int
    BY <1>3
  <2>4. j < k => a[j].id < a[k].id
    BY <1>1, <1>3, IdsAscend
  <2>5. k < j => a[k].id < a[j].id
    BY <1>1, <1>3, IdsAscend
  <2> QED
    BY <1>4, <2>2, <2>3, <2>4, <2>5
<1> SUFFICES ASSUME NEW c \in 1 .. Len(l), NEW i, i = l[c]
             PROVE  IntentAgrees(s, i, r)
  BY DEF GroupAgrees
<1> DEFINE simulated == Simulate(s, i)
           places == {k \in 1 .. Len(a) : a[k].id = i.id}
<1> HIDE DEF simulated
<1>5. i \in I
  BY DEF IntentsIn
<1>6. PICK S : S = {n \in 1 .. N : CanEnter(s, i, n)}
  OBVIOUS
<1>7. SimulatedEntry(s, i) = Earliest(S)
  BY <1>6 DEF SimulatedEntry
<1>8. CASE S = {}
  <2>1. simulated = <<>>
    BY <1>7, <1>8 DEF simulated, Simulate, Earliest
  <2>2. places = {}
    BY <1>2, <1>5, <1>6, <1>8
  <2> QED
    BY <1>1, <2>1, <2>2 DEF simulated, IntentAgrees
<1>9. CASE S # {}
  <2>1. PICK n0 : n0 = Min(S)
    OBVIOUS
  <2>2. S \in SUBSET Nat
    BY <1>6
  <2>3. n0 \in S /\ \A n \in S : n0 <= n
    BY <1>9, <2>1, <2>2, LeastPlace
  <2>4. n0 \in 1 .. N /\ CanEnter(s, i, n0) /\ n0 # 0
    BY <1>6, <2>3
  <2>5. PICK t : t = SimulatedTrade(s, i, n0)
    OBVIOUS
  <2>6. simulated = <<t>> /\ simulated # <<>> /\ simulated[1] = t
    BY <1>7, <1>9, <2>1, <2>4, <2>5 DEF simulated, Simulate, Earliest
  <2>7. t.id = i.id /\ t.entry = s[n0].ts
    BY <2>5, SimulatedParts
  <2>8. ASSUME ~Blocked(r, i, t)
        PROVE  \E k \in places : places = {k} /\ a[k] = t
    <3>1. ~InTheWay(s, r, i, n0)
      BY <2>7, <2>8 DEF InTheWay, Blocked
    <3>2. PICK m \in 1 .. n0 : Entered(s, r, i, m, N)
      BY <1>5, <2>4, <3>1 DEF Fares, Served
    <3>3. PICK k \in 1 .. Len(a) : CanEnter(s, i, m) /\ a[k] = SimulatedTrade(s, i, m)
      BY <1>1, <3>2 DEF Entered
    <3>4. m \in 1 .. N /\ m <= n0 /\ m \in Nat /\ n0 \in Nat
      BY <2>4
    <3>5. m \in S
      BY <1>6, <3>3, <3>4
    <3>6. m = n0
      BY <2>3, <3>4, <3>5
    <3>7. a[k] = t /\ k \in places
      BY <2>5, <2>7, <3>3, <3>6
    <3>8. places = {k}
      BY <1>4, <3>7
    <3> QED
      BY <3>7, <3>8
  <2>9. ASSUME NEW k \in places PROVE t.entry <= a[k].entry /\ a[k].entry <= i.validUntil
    <3>1. PICK m \in 1 .. N : CanEnter(s, i, m) /\ a[k] = SimulatedTrade(s, i, m)
      BY <1>2, <1>5
    <3>2. a[k].entry = s[m].ts
      BY <3>1, SimulatedParts
    <3>3. n0 <= m
      BY <1>6, <2>3, <3>1
    <3>4. s[n0].ts <= s[m].ts
      BY <2>4, <3>3, NoLater
    <3>5. s[m].ts \in Int /\ i.validUntil \in Int /\ ~(s[m].ts > i.validUntil)
      BY <1>5, <3>1 DEF IntentSet, CanEnter, Expired
    <3>6. s[m].ts <= i.validUntil
      BY ONLY <3>5
    <3> QED
      BY <2>7, <3>2, <3>4, <3>6
  <2> QED
    BY <1>1, <2>6, <2>8, <2>9 DEF simulated, IntentAgrees
<1> QED
  BY <1>8, <1>9

-----------------------------------------------------------------------------
(* The intents of a session, and its runs.                                 *)

DecisionsInOrder(l) == \A j, k \in 1 .. Len(l) : j < k => l[j].decision <= l[k].decision

\* A run that has done nothing yet keeps all its intents in its list.
LEMMA StartedFares ==
  ASSUME NEW s, NEW l, DecisionsInOrder(l), NEW r,
         r = [waiting |-> <<>>, active |-> <<>>, trades |-> <<>>, list |-> l]
  PROVE  QueueOk(s, IntentsIn(l), r, 0) /\ Fares(s, IntentsIn(l), r, 0, 0)
<1>1. r.waiting = <<>> /\ r.active = <<>> /\ r.trades = <<>> /\ r.list = l
  OBVIOUS
<1>2. Len(<<>>) = 0 /\ 1 .. 0 = {}
  OBVIOUS
<1>3. QueueOk(s, IntentsIn(l), r, 0)
  BY <1>1, <1>2 DEF QueueOk, Within, IntentsIn, DecisionsInOrder
<1>4. Kept(s, IntentsIn(l), r, 0, 0)
  BY <1>1 DEF Kept, IntentsIn, Listed
<1>5. TradesFrom(s, IntentsIn(l), r, 0) /\ ActiveFrom(s, IntentsIn(l), r, 0, 0)
      /\ Served(s, IntentsIn(l), r, 0, 0)
  BY <1>1, <1>2 DEF TradesFrom, ActiveFrom, Served
<1> QED
  BY <1>3, <1>4, <1>5 DEF Fares

LEMMA IntentsAre ==
  ASSUME NEW s, NEW g, NEW trades, TradesOk(s, trades, g), NEW l, l = IntentsOf(g, trades)
  PROVE  /\ Len(trades) \in Nat /\ Len(l) = Len(trades)
         /\ \A k \in 1 .. Len(l) : l[k].decision = trades[k].decision
         /\ IntentSet(IntentsIn(l))
<1>1. PICK n : n = Len(trades)
  OBVIOUS
<1>2. n \in Nat
  BY <1>1 DEF TradesOk, IsSeq
<1>3. PICK S : S = {l[k] : k \in 1 .. n}
  OBVIOUS
<1>4. l \in [1 .. n -> S]
  BY <1>1, <1>3 DEF IntentsOf
<1>5. Len(l) = n
  BY <1>2, <1>4
<1>6. \A k \in 1 .. n : /\ l[k].id = k /\ l[k].decision = trades[k].decision
                        /\ l[k].validUntil = trades[k].decision + Validity
  BY <1>1 DEF IntentsOf
<1>7. ASSUME NEW k \in 1 .. n
      PROVE  l[k].id = k /\ k \in Int /\ l[k].decision \in Int /\ l[k].validUntil \in Int
  <2>1. trades[k].decision \in Int /\ Validity \in Int
    BY <1>1, SessionAssumption DEF TradesOk, TradeOk
  <2>2. trades[k].decision + Validity \in Int
    BY <2>1
  <2> QED
    BY <1>6, <2>1, <2>2
<1>8. IntentSet(IntentsIn(l))
  BY <1>5, <1>7 DEF IntentSet, IntentsIn
<1> QED
  BY <1>1, <1>2, <1>5, <1>6, <1>8

\* A candidate decides again only when it is out of its last trade.
LEMMA DecisionsAscend ==
  ASSUME NEW s, TimesInOrder(s), NEW g \in Groups, NEW trades, TradesOk(s, trades, g),
         NEW l, l = IntentsOf(g, trades)
  PROVE  DecisionsInOrder(l)
<1>1. PICK n : n = Len(trades)
  OBVIOUS
<1>2. n \in Nat /\ Len(l) = n /\ \A k \in 1 .. n : l[k].decision = trades[k].decision
  BY <1>1, IntentsAre
<1> SUFFICES ASSUME NEW j \in 1 .. n, NEW k \in 1 .. n, j < k
             PROVE  trades[j].decision <= trades[k].decision
  BY <1>2 DEF DecisionsInOrder
<1> DEFINE Wrong == {m \in 1 .. n : j < m /\ ~(trades[j].decision <= trades[m].decision)}
<1> SUFFICES ASSUME Wrong # {} PROVE FALSE
  OBVIOUS
<1>3. Wrong \subseteq Nat
  BY <1>2
<1>4. PICK m \in Wrong : \A i \in Wrong : m <= i
  BY <1>3, LeastNatural
<1>5. m \in 1 .. n /\ j < m /\ ~(trades[j].decision <= trades[m].decision)
  BY <1>4
<1>6. m \in 2 .. n /\ m - 1 \in 1 .. n /\ (m - 1 = j \/ j < m - 1) /\ ~(m <= m - 1)
  BY <1>2, <1>5
<1>7. m - 1 \notin Wrong
  BY <1>4, <1>6
<1>8. m - 1 = j \/ trades[j].decision <= trades[m - 1].decision
  BY <1>6, <1>7
<1>9. PICK a, b, c, x, w : /\ a = trades[j].decision /\ b = trades[m - 1].decision
                           /\ c = trades[m].decision /\ x = trades[m - 1].exit
                           /\ w = SpecOf[g].cooldown
  OBVIOUS
<1>10. c >= x + w
  BY <1>1, <1>6, <1>9 DEF TradesOk
<1>11. TradeOk(s, trades[j], g) /\ TradeOk(s, trades[m - 1], g) /\ TradeOk(s, trades[m], g)
  BY <1>1, <1>5, <1>6 DEF TradesOk
<1>12. a \in Int /\ b \in Int /\ c \in Int /\ x \in Int /\ b <= x /\ w \in Nat
  BY <1>9, <1>11, SessionAssumption DEF TradeOk
<1>13. ~(a <= c) /\ (a = b \/ a <= b)
  BY <1>5, <1>8, <1>9
<1> QED
  BY ONLY <1>10, <1>12, <1>13

GroupFares(g) ==
  /\ intents[g] = IntentsOf(g, candidates[g].trades)
  /\ DecisionsInOrder(intents[g]) =>
       /\ QueueOk(tape, IntentsIn(intents[g]), alone[g], at)
       /\ Fares(tape, IntentsIn(intents[g]), alone[g], at, at)

GateFares == sim = SimAfter(tape, at) /\ \A g \in Groups : GroupFares(g)

Agreement == at = Len(tape) /\ (\A g \in Groups : alone[g].active = <<>>) =>
               \A g \in Groups : GroupAgrees(tape, intents[g], alone[g])

\* What the runs rest on, at each stage of a session.
RunsInv == /\ DayInv /\ stage \in {"scan", "gate", "done", "failed"}
           /\ stage = "scan" => \A g \in Groups : intents[g] = <<>>
           /\ stage = "gate" => GateFares
           /\ stage \in {"done", "failed"} => Agreement

LEMMA AgreementMeans ==
  ASSUME Agreement
  PROVE  StreamingAgreesWithRun
<1> SUFFICES ASSUME at = Len(tape) /\ (\A g \in Groups : alone[g].active = <<>>),
                    NEW g \in Groups, NEW n \in 1 .. Len(intents[g])
             PROVE  LET i == intents[g][n]
                        simulated == Simulate(tape, i)
                        trades == alone[g].trades
                        places == {k \in 1 .. Len(trades) : trades[k].id = i.id}
                    IN  IF simulated = <<>> THEN places = {}
                        ELSE /\ ~Blocked(alone[g], i, simulated[1]) =>
                                  \E k \in places : places = {k} /\ trades[k] = simulated[1]
                             /\ \A k \in places : /\ simulated[1].entry <= trades[k].entry
                                                   /\ trades[k].entry <= i.validUntil
  BY DEF StreamingAgreesWithRun
<1>1. IntentAgrees(tape, intents[g][n], alone[g])
  BY DEF Agreement, GroupAgrees
<1> QED
  BY <1>1 DEF IntentAgrees

\* Behind the last event of the gate.
LEMMA GroupIsServed ==
  ASSUME DayFileOk(dayFile), GateOk, GateFares, at = Len(tape), NEW g \in Groups
  PROVE  /\ GroupAgrees(tape, intents[g], CloseOpen(alone[g]))
         /\ alone[g].active = <<>> => GroupAgrees(tape, intents[g], alone[g])
<1>1. PICK s, n, r, l, I : /\ s = tape /\ n = at /\ r = alone[g] /\ l = intents[g]
                           /\ I = IntentsIn(l)
  OBVIOUS
<1>2. /\ RunOk(s, r, n) /\ TimesUpTo(s, n) /\ n \in Nat /\ n = Len(s)
      /\ TradesOk(dayFile, candidates[g].trades, g) /\ l = IntentsOf(g, candidates[g].trades)
  <2>1. at \in 0 .. Len(tape) /\ Len(tape) \in Nat
    BY TapeOfFile DEF GateOk
  <2> QED
    BY <1>1, <2>1 DEF GateOk, GateFares, GroupFares
<1>3. \A k \in 1 .. n : s[k].ts \in Int
  BY <1>1, TapeOfFile DEF GateOk
<1>4. DecisionsInOrder(l)
  BY <1>2, FileOfTapeInOrder, DecisionsAscend
<1>5. Fares(s, I, r, n, n)
  BY <1>1, <1>4 DEF GateFares, GroupFares
<1>6. IntentSet(I)
  BY <1>1, <1>2, IntentsAre
<1>7. PICK x : x = CloseOpen(r)
  OBVIOUS
<1>8. x.active = <<>> /\ Fares(s, I, x, n, n)
  BY <1>1, <1>2, <1>3, <1>5, <1>7, ClosedFares
<1>9. OneByOne(x.trades) /\ OneByOne(r.trades)
  BY <1>2, <1>7, ClosedOneByOne DEF RunOk
<1>10. GroupAgrees(s, l, x)
  BY <1>1, <1>2, <1>3, <1>6, <1>8, <1>9, FaresMeans
<1>11. r.active = <<>> => GroupAgrees(s, l, r)
  BY <1>1, <1>2, <1>3, <1>5, <1>6, <1>9, FaresMeans
<1> QED
  BY <1>1, <1>7, <1>10, <1>11

LEMMA RunsInvMeans ==
  ASSUME RunsInv
  PROVE  StreamingAgreesWithRun
<1>1. CASE stage = "scan"
  <2>1. \A g \in Groups : intents[g] = <<>> /\ 1 .. Len(<<>>) = {}
    BY <1>1 DEF RunsInv
  <2>2. Agreement
    BY <2>1 DEF Agreement, GroupAgrees
  <2> QED
    BY <2>2, AgreementMeans
<1>2. CASE stage = "gate"
  <2>1. DayFileOk(dayFile) /\ GateOk /\ GateFares
    BY <1>2 DEF RunsInv, DayInv
  <2>2. Agreement
    BY <2>1, GroupIsServed DEF Agreement
  <2> QED
    BY <2>2, AgreementMeans
<1>3. CASE stage \in {"done", "failed"}
  BY <1>3, AgreementMeans DEF RunsInv
<1> QED
  BY <1>1, <1>2, <1>3 DEF RunsInv

\* The end of the scan gives every run the decisions of its candidate.
LEMMA EndOfScanFares ==
  ASSUME RunsInv, EndOfScan, DayInv'
  PROVE  RunsInv'
<1>1. /\ at' = 0 /\ sim' = EmptySim
      /\ stage' = IF \E g \in Groups : candidates'[g].trades # <<>> THEN "gate" ELSE "done"
      /\ intents' = [g \in Groups |-> IntentsOf(g, candidates'[g].trades)]
      /\ \A g \in Groups : alone'[g] = [waiting |-> <<>>, active |-> <<>>, trades |-> <<>>,
                                        list |-> intents'[g]]
  BY DEF EndOfScan, Started
<1>2. CASE stage' = "gate"
  <2>1. sim' = SimAfter(tape', 0)
    BY <1>1, SimStep
  <2>2. ASSUME NEW g \in Groups PROVE GroupFares(g)'
    <3>1. intents'[g] = IntentsOf(g, candidates'[g].trades)
      BY <1>1
    <3>2. PICK l, r, s : l = intents'[g] /\ r = alone'[g] /\ s = tape'
      OBVIOUS
    <3>3. DecisionsInOrder(l) => QueueOk(s, IntentsIn(l), r, 0) /\ Fares(s, IntentsIn(l), r, 0, 0)
      <4> SUFFICES ASSUME DecisionsInOrder(l)
                   PROVE  QueueOk(s, IntentsIn(l), r, 0) /\ Fares(s, IntentsIn(l), r, 0, 0)
        OBVIOUS
      <4>1. r = [waiting |-> <<>>, active |-> <<>>, trades |-> <<>>, list |-> l]
        BY <1>1, <3>2
      <4> QED
        BY <4>1, StartedFares
    <3> QED
      BY <1>1, <3>1, <3>2, <3>3 DEF GroupFares
  <2>3. GateFares'
    BY <1>1, <2>1, <2>2 DEF GateFares
  <2> QED
    BY <1>2, <2>3 DEF RunsInv
<1>3. CASE stage' = "done"
  <2>1. ASSUME NEW g \in Groups PROVE 1 .. Len(intents'[g]) = {}
    <3>1. candidates'[g].trades = <<>> /\ Len(<<>>) = 0 /\ 1 .. 0 = {}
      BY <1>1, <1>3
    <3>2. PICK l : l = intents'[g]
      OBVIOUS
    <3>3. l = IntentsOf(g, <<>>)
      BY <1>1, <3>1, <3>2
    <3>4. TradesOk(dayFile, <<>>, g)
      <4>1. IsSeq(<<>>) /\ 2 .. 0 = {}
        BY DEF IsSeq
      <4> QED
        BY <3>1, <4>1 DEF TradesOk
    <3>5. Len(l) = 0
      BY <3>1, <3>3, <3>4, IntentsAre
    <3> QED
      BY <3>1, <3>2, <3>5
  <2>2. Agreement'
    BY <2>1 DEF Agreement, GroupAgrees
  <2> QED
    BY <1>3, <2>2 DEF RunsInv
<1> QED
  BY <1>1, <1>2, <1>3

\* One event of the gate.
LEMMA GateEventFares ==
  ASSUME RunsInv, GateEvent, DayInv'
  PROVE  RunsInv'
<1>1. /\ DayFileOk(dayFile) /\ GateOk /\ GateOk' /\ GateFares /\ stage' = "gate"
      /\ intents' = intents /\ candidates' = candidates /\ tape' = tape
      /\ at < Len(tape) /\ at' = at + 1 /\ sim' = SimApply(sim, tape[at + 1])
      /\ alone' = [g \in Groups |-> AloneStep(alone[g], SimApply(sim, tape[at + 1]), tape[at + 1])]
  BY DEF RunsInv, DayInv, GateEvent, BacktestEvent, sessionVars
<1>2. PICK s, n, b : s = tape /\ n = at /\ b = SimApply(sim, s[n + 1])
  OBVIOUS
<1>3. Len(s) \in Nat /\ \A k \in 1 .. Len(s) : s[k].ts \in Int
  BY <1>1, <1>2, TapeOfFile DEF GateOk
<1>4. n \in 0 .. Len(s) /\ n < Len(s)
  BY <1>1, <1>2 DEF GateOk
<1>5. n \in Nat /\ n + 1 <= Len(s) /\ \A k \in 1 .. n + 1 : k \in 1 .. Len(s)
  BY ONLY <1>3, <1>4
<1>6. TimesUpTo(s, n + 1)
  BY <1>1, <1>2 DEF GateOk
<1>7. b = SimAfter(s, n + 1)
  BY <1>1, <1>2, <1>5, SimStep DEF GateFares
<1>8. ASSUME NEW g \in Groups PROVE GroupFares(g)'
  <2>1. PICK l, I, r, x : l = intents[g] /\ I = IntentsIn(l) /\ r = alone[g] /\ x = alone'[g]
    OBVIOUS
  <2>2. /\ l = IntentsOf(g, candidates[g].trades) /\ TradesOk(dayFile, candidates[g].trades, g)
        /\ RunOk(s, r, n)
        /\ DecisionsInOrder(l) => QueueOk(s, I, r, n) /\ Fares(s, I, r, n, n)
    BY <1>1, <1>2, <2>1 DEF GateFares, GroupFares, GateOk
  <2>3. x = AloneStep(r, b, s[n + 1])
    BY <1>1, <1>2, <2>1
  <2>4. IntentSet(I)
    BY <2>1, <2>2, IntentsAre
  <2>5. ASSUME DecisionsInOrder(l)
        PROVE  QueueOk(s, I, x, n + 1) /\ Fares(s, I, x, n + 1, n + 1)
    <3>1. QueueOk(s, I, r, n) /\ Fares(s, I, r, n, n) /\ RunOk(s, r, n)
      BY <2>2, <2>5
    <3>2. \A k \in 1 .. n + 1 : s[k].ts \in Int
      BY <1>3, <1>5
    <3> QED
      BY <1>3, <1>5, <1>6, <1>7, <2>3, <2>4, <3>1, <3>2, AloneStepFares
  <2> QED
    BY <1>1, <1>2, <2>1, <2>2, <2>5 DEF GroupFares
<1>9. GateFares'
  BY <1>1, <1>2, <1>7, <1>8 DEF GateFares
<1> QED
  BY <1>1, <1>9 DEF RunsInv

\* The end of the gate.
LEMMA EndOfGateFares ==
  ASSUME RunsInv, EndOfGate, DayInv'
  PROVE  RunsInv'
<1>1. /\ DayFileOk(dayFile) /\ GateOk /\ GateFares /\ stage' = "done"
      /\ intents' = intents /\ tape' = tape /\ at = Len(tape)
      /\ alone' = [g \in Groups |-> CloseOpen(alone[g])]
  BY DEF RunsInv, DayInv, EndOfGate, EndOfBacktest
<1>2. ASSUME NEW g \in Groups PROVE GroupAgrees(tape', intents'[g], alone'[g])
  <2>1. GroupAgrees(tape, intents[g], CloseOpen(alone[g]))
    BY <1>1, GroupIsServed
  <2>2. alone'[g] = CloseOpen(alone[g])
    BY <1>1
  <2> QED
    BY <1>1, <2>1, <2>2
<1>3. Agreement'
  BY <1>2 DEF Agreement
<1> QED
  BY <1>1, <1>3 DEF RunsInv

\* A pass that stops has not read its last event; a scan that stops has no intents.
LEMMA FailureAgrees ==
  ASSUME RunsInv, ScanEvent \/ GateFails, DayInv'
  PROVE  RunsInv'
<1>1. CASE ScanEvent
  <2>1. intents' = intents /\ stage = "scan" /\ stage' \in {"scan", "failed"}
    BY <1>1 DEF ScanEvent
  <2>2. \A g \in Groups : intents'[g] = <<>> /\ 1 .. Len(<<>>) = {}
    BY <2>1 DEF RunsInv
  <2>3. Agreement'
    BY <2>2 DEF Agreement, GroupAgrees
  <2> QED
    BY <2>1, <2>2, <2>3 DEF RunsInv
<1>2. CASE GateFails
  <2>1. /\ stage = "gate" /\ stage' = "failed" /\ at \in 1 .. Len(tape) - 1
        /\ at' = at /\ tape' = tape
    BY <1>2 DEF GateFails, OutOfOrder, RunsBack, backtestVars
  <2>2. Len(tape) \in Nat
    BY <2>1, TapeOfFile DEF RunsInv, DayInv, GateOk
  <2>3. at' # Len(tape')
    BY <2>1, <2>2
  <2> QED
    BY <2>1, <2>3 DEF RunsInv, Agreement
<1> QED
  BY <1>1, <1>2

\* The streaming backtest of the gate gives every intent that no other position was in
\* the way of the very trade that run() simulates for it over the whole day, and
\* enters no other before run() would or behind its validity (StreamingAgreesWithRun),
\* for every day's file, every strategy and any number of candidates
\* (run_market_streaming, run, _gate_candidates).
THEOREM PassAgreesWithRun == SessionSpec => []StreamingAgreesWithRun
<1>1. SessionInit => RunsInv
  <2> SUFFICES ASSUME SessionInit PROVE RunsInv
    OBVIOUS
  <2>1. stage = "scan" /\ \A g \in Groups : intents[g] = <<>>
    BY DEF SessionInit
  <2> QED
    BY <2>1, StartsWithDay DEF RunsInv
<1>2. RunsInv /\ [SessionNext]_<<book, backtestVars, sessionVars>> => RunsInv'
  <2> SUFFICES ASSUME RunsInv, [SessionNext]_<<book, backtestVars, sessionVars>>
               PROVE  RunsInv'
    OBVIOUS
  <2>0. DayInv'
    BY StepKeepsDay DEF RunsInv
  <2>1. CASE ScanEvent
    BY <2>0, <2>1, FailureAgrees
  <2>2. CASE EndOfScan
    BY <2>0, <2>2, EndOfScanFares
  <2>3. CASE GateEvent
    BY <2>0, <2>3, GateEventFares
  <2>4. CASE GateFails
    BY <2>0, <2>4, FailureAgrees
  <2>5. CASE EndOfGate
    BY <2>0, <2>5, EndOfGateFares
  <2>6. CASE UNCHANGED <<book, backtestVars, sessionVars>>
    BY <2>0, <2>6 DEF backtestVars, sessionVars, RunsInv, GateFares, GroupFares, Agreement
  <2> QED
    BY <2>1, <2>2, <2>3, <2>4, <2>5, <2>6 DEF SessionNext
<1>3. RunsInv => StreamingAgreesWithRun
  BY RunsInvMeans
<1> QED
  BY <1>1, <1>2, <1>3, PTL DEF SessionSpec
=============================================================================
