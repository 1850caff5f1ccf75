--------------------------- MODULE MarketDataProofs ---------------------------
(***************************************************************************)
(* Proofs about OrderBook, EventBacktester and BookVerification, for any   *)
(* events, orders, prices, channels, groups, intents and files: the levels *)
(* of a book are the aggregate of its orders, groups that share a pass     *)
(* over the events trade as each of them would alone, a verification       *)
(* passes exactly the references it should, and the simulated book of the  *)
(* gate shows what the rebuilt one shows.                                  *)
(***************************************************************************)
EXTENDS BookVerification, DailySession, SumLemmas, TLAPS

-----------------------------------------------------------------------------
(* Orders and the levels they make.                                        *)

Orders == [side : Sides, price : Prices, size : Nat \ {0}]

\* Finitely many orders, by id.
IsOrders(o) == /\ o = [id \in DOMAIN o |-> o[id]] /\ IsFiniteSet(DOMAIN o)
               /\ \A id \in DOMAIN o : o[id] \in Orders

Sizes(o) == [id \in DOMAIN o |-> o[id].size]

LEMMA LevelParts ==
  ASSUME NEW o, NEW s, NEW p
  PROVE  LevelOf(o, s, p) = [count |-> Cardinality(Resting(o, s, p)), ids |-> Resting(o, s, p),
                             total |-> SumFunctionOnSet(Sizes(o), Resting(o, s, p))]
BY DEF LevelOf, Sizes

LEMMA LevelFields ==
  ASSUME NEW o, NEW s, NEW p
  PROVE  /\ LevelOf(o, s, p) = [count |-> LevelOf(o, s, p).count, ids |-> LevelOf(o, s, p).ids,
                                total |-> LevelOf(o, s, p).total]
         /\ LevelOf(o, s, p).ids = Resting(o, s, p)
BY LevelParts

LEMMA RestingFinite ==
  ASSUME NEW o, IsOrders(o), NEW s, NEW p
  PROVE  /\ IsFiniteSet(Resting(o, s, p)) /\ Numbers(Sizes(o), Resting(o, s, p))
         /\ Cardinality(Resting(o, s, p)) \in Nat
         /\ SumFunctionOnSet(Sizes(o), Resting(o, s, p)) \in Nat
<1>1. Resting(o, s, p) \subseteq DOMAIN o
  BY DEF Resting
<1>2. IsFiniteSet(Resting(o, s, p))
  BY <1>1, FS_Subset DEF IsOrders
<1>3. Numbers(Sizes(o), Resting(o, s, p))
  BY <1>1 DEF Numbers, Sizes, IsOrders, Orders
<1> QED
  BY <1>2, <1>3, FS_CardinalityType, SumType

\* A level with an order has a count and a total of at least one.
LEMMA LevelOccupied ==
  ASSUME NEW o, IsOrders(o), NEW s, NEW p
  PROVE  /\ Resting(o, s, p) = {} => LevelOf(o, s, p) = [count |-> 0, ids |-> {}, total |-> 0]
         /\ Resting(o, s, p) # {} => LevelOf(o, s, p).count >= 1 /\ LevelOf(o, s, p).total >= 1
<1> DEFINE R == Resting(o, s, p)
<1>1. /\ LevelOf(o, s, p).count = Cardinality(R)
      /\ LevelOf(o, s, p).total = SumFunctionOnSet(Sizes(o), R)
  BY LevelParts
<1>2. CASE R = {}
  <2>1. Cardinality(R) = 0 /\ SumFunctionOnSet(Sizes(o), R) = 0
    BY <1>2, FS_EmptySet, SumOfNothing
  <2> QED
    BY <1>2, <2>1, LevelParts
<1>3. CASE R # {}
  <2>1. PICK x : x \in R
    BY <1>3
  <2>2. IsFiniteSet(R) /\ Numbers(Sizes(o), R)
    BY RestingFinite
  <2>3. SumFunctionOnSet(Sizes(o), R) = Sizes(o)[x] + SumFunctionOnSet(Sizes(o), R \ {x})
    BY <2>1, <2>2, SumTakes
  <2>4. Sizes(o)[x] \in Nat /\ Sizes(o)[x] >= 1
    BY <2>1 DEF Resting, Sizes, IsOrders, Orders
  <2>5. SumFunctionOnSet(Sizes(o), R \ {x}) \in Nat
    <3>1. IsFiniteSet(R \ {x}) /\ Numbers(Sizes(o), R \ {x})
      BY <2>2, FS_Subset DEF Numbers
    <3> QED
      BY <3>1, SumType
  <2>6. Cardinality(R) \in Nat /\ Cardinality(R) # 0
    BY <1>3, <2>2, FS_CardinalityType, FS_EmptySet
  <2> QED
    BY <1>1, <1>3, <2>3, <2>4, <2>5, <2>6
<1> QED
  BY <1>2, <1>3

LEMMA PutOrders ==
  ASSUME NEW o, IsOrders(o), NEW id, id \notin DOMAIN o, NEW x \in Orders
  PROVE  /\ IsOrders(Put(o, id, x)) /\ DOMAIN Put(o, id, x) = DOMAIN o \cup {id}
         /\ Put(o, id, x)[id] = x /\ \A k \in DOMAIN o : Put(o, id, x)[k] = o[k]
<1>1. /\ DOMAIN Put(o, id, x) = DOMAIN o \cup {id}
      /\ Put(o, id, x)[id] = x /\ \A k \in DOMAIN o : Put(o, id, x)[k] = o[k]
      /\ Put(o, id, x) = [k \in DOMAIN o \cup {id} |-> Put(o, id, x)[k]]
  BY DEF Put
<1>2. IsFiniteSet(DOMAIN o \cup {id})
  BY FS_AddElement DEF IsOrders
<1> QED
  BY <1>1, <1>2 DEF IsOrders

LEMMA DropOrders ==
  ASSUME NEW o, IsOrders(o), NEW id \in DOMAIN o
  PROVE  /\ IsOrders(Drop(o, id)) /\ DOMAIN Drop(o, id) = DOMAIN o \ {id} /\ o[id] \in Orders
         /\ o = Put(Drop(o, id), id, o[id])
         /\ \A x : Put(Drop(o, id), id, x) = Put(o, id, x)
<1>1. /\ DOMAIN Drop(o, id) = DOMAIN o \ {id} /\ \A k \in DOMAIN o \ {id} : Drop(o, id)[k] = o[k]
      /\ Drop(o, id) = [k \in DOMAIN o \ {id} |-> o[k]]
  BY DEF Drop, Restrict
<1>2. IsFiniteSet(DOMAIN o \ {id})
  BY FS_Subset DEF IsOrders
<1>3. IsOrders(Drop(o, id))
  BY <1>1, <1>2 DEF IsOrders
<1>4. \A x : Put(Drop(o, id), id, x) = Put(o, id, x)
  BY <1>1 DEF Put
<1>5. Put(o, id, o[id]) = o
  BY DEF Put, IsOrders
<1> QED
  BY <1>1, <1>3, <1>4, <1>5 DEF IsOrders

\* An order more changes its own level only.
LEMMA PutSizes ==
  ASSUME NEW o, IsOrders(o), NEW id, id \notin DOMAIN o, NEW x \in Orders, NEW n, n = Put(o, id, x),
         NEW s, NEW p
  PROVE  /\ IsFiniteSet(Resting(o, s, p)) /\ id \notin Resting(o, s, p) /\ Sizes(n)[id] = x.size
         /\ SumFunctionOnSet(Sizes(n), Resting(o, s, p)) = SumFunctionOnSet(Sizes(o), Resting(o, s, p))
<1>1. DOMAIN n = DOMAIN o \cup {id} /\ n[id] = x /\ \A k \in DOMAIN o : n[k] = o[k]
  BY DEF Put
<1>2. /\ id \notin Resting(o, s, p) /\ Sizes(n)[id] = x.size
      /\ \A k \in Resting(o, s, p) : Sizes(n)[k] = Sizes(o)[k]
  BY <1>1 DEF Resting, Sizes
<1>3. IsFiniteSet(Resting(o, s, p))
  BY RestingFinite
<1> QED
  BY <1>2, <1>3, SumSame

LEMMA PutOtherLevel ==
  ASSUME NEW o, IsOrders(o), NEW id, id \notin DOMAIN o, NEW x \in Orders, NEW n, n = Put(o, id, x),
         NEW s, NEW p, s # x.side \/ p # x.price
  PROVE  Resting(n, s, p) = Resting(o, s, p) /\ LevelOf(n, s, p) = LevelOf(o, s, p)
<1>1. Resting(n, s, p) = Resting(o, s, p)
  BY DEF Put, Resting
<1>2. SumFunctionOnSet(Sizes(n), Resting(o, s, p)) = SumFunctionOnSet(Sizes(o), Resting(o, s, p))
  BY PutSizes
<1> QED
  BY <1>1, <1>2, LevelParts

LEMMA PutOwnLevel ==
  ASSUME NEW o, IsOrders(o), NEW id, id \notin DOMAIN o, NEW x \in Orders, NEW n, n = Put(o, id, x),
         NEW s, NEW p, s = x.side, p = x.price
  PROVE  /\ Resting(n, s, p) = Resting(o, s, p) \cup {id}
         /\ LevelOf(n, s, p).count = LevelOf(o, s, p).count + 1
         /\ LevelOf(n, s, p).total = LevelOf(o, s, p).total + x.size
<1> DEFINE R == Resting(o, s, p)
<1>1. Resting(n, s, p) = R \cup {id}
  BY DEF Put, Resting
<1>2. /\ IsFiniteSet(R) /\ id \notin R /\ Sizes(n)[id] = x.size
      /\ SumFunctionOnSet(Sizes(n), R) = SumFunctionOnSet(Sizes(o), R)
  BY PutSizes
<1>3. IsOrders(n)
  BY PutOrders
<1>4. IsFiniteSet(R \cup {id}) /\ Numbers(Sizes(n), R \cup {id})
  BY <1>1, <1>3, RestingFinite
<1>5. SumFunctionOnSet(Sizes(n), R \cup {id}) = x.size + SumFunctionOnSet(Sizes(o), R)
  BY <1>2, <1>4, SumAdds
<1>6. Cardinality(R \cup {id}) = Cardinality(R) + 1
  BY <1>2, FS_AddElement
<1>7. LevelOf(n, s, p) = [count |-> Cardinality(R) + 1, ids |-> R \cup {id},
                          total |-> x.size + SumFunctionOnSet(Sizes(o), R)]
  BY <1>1, <1>5, <1>6, LevelParts
<1>8. LevelOf(o, s, p).count = Cardinality(R) /\ LevelOf(o, s, p).total = SumFunctionOnSet(Sizes(o), R)
  BY LevelParts
<1>9. x.size + SumFunctionOnSet(Sizes(o), R) = SumFunctionOnSet(Sizes(o), R) + x.size
  BY RestingFinite DEF Orders
<1>10. LevelOf(n, s, p).count = Cardinality(R) + 1
       /\ LevelOf(n, s, p).total = x.size + SumFunctionOnSet(Sizes(o), R)
  BY <1>7
<1> QED
  BY <1>1, <1>8, <1>9, <1>10

LEMMA PutAgain ==
  ASSUME NEW o, NEW id, NEW x
  PROVE  Put(Drop(o, id), id, x) = Put(o, id, x)
BY DEF Put, Drop, Restrict

\* Seen from the orders with it, an order less.
LEMMA DropOwnLevel ==
  ASSUME NEW d, IsOrders(d), NEW id, id \notin DOMAIN d, NEW x \in Orders, NEW o, o = Put(d, id, x),
         NEW s, NEW p, s = x.side, p = x.price
  PROVE  /\ id \in Resting(o, s, p)
         /\ LevelOf(d, s, p).count = LevelOf(o, s, p).count - 1
         /\ LevelOf(d, s, p).ids = LevelOf(o, s, p).ids \ {id}
         /\ LevelOf(d, s, p).total = LevelOf(o, s, p).total - x.size
<1>1. /\ Resting(o, s, p) = Resting(d, s, p) \cup {id}
      /\ LevelOf(o, s, p).count = LevelOf(d, s, p).count + 1
      /\ LevelOf(o, s, p).total = LevelOf(d, s, p).total + x.size
  BY PutOwnLevel
<1>2. LevelOf(d, s, p).count \in Nat /\ LevelOf(d, s, p).total \in Nat /\ x.size \in Nat
  <2>1. /\ LevelOf(d, s, p).count = Cardinality(Resting(d, s, p))
        /\ LevelOf(d, s, p).total = SumFunctionOnSet(Sizes(d), Resting(d, s, p))
    BY LevelParts
  <2> QED
    BY <2>1, RestingFinite DEF Orders
<1>3. LevelOf(d, s, p).ids = LevelOf(o, s, p).ids \ {id}
  <2>1. id \notin Resting(d, s, p)
    BY DEF Resting
  <2> QED
    BY <1>1, <2>1, LevelFields
<1> QED
  BY <1>1, <1>2, <1>3

\* A part of an order may go.
LEMMA ResizeOwnLevel ==
  ASSUME NEW d, IsOrders(d), NEW id, id \notin DOMAIN d, NEW x \in Orders, NEW o, o = Put(d, id, x),
         NEW y \in Orders, NEW n, n = Put(d, id, y), y.side = x.side, y.price = x.price,
         NEW s, NEW p, s = x.side, p = x.price
  PROVE  /\ Resting(n, s, p) = Resting(o, s, p) /\ id \in Resting(o, s, p)
         /\ LevelOf(n, s, p).count = LevelOf(o, s, p).count
         /\ LevelOf(n, s, p).ids = LevelOf(o, s, p).ids
         /\ LevelOf(n, s, p).total = LevelOf(o, s, p).total - x.size + y.size
<1>1. /\ Resting(o, s, p) = Resting(d, s, p) \cup {id}
      /\ LevelOf(o, s, p).count = LevelOf(d, s, p).count + 1
      /\ LevelOf(o, s, p).total = LevelOf(d, s, p).total + x.size
  BY PutOwnLevel
<1>2. /\ Resting(n, s, p) = Resting(d, s, p) \cup {id}
      /\ LevelOf(n, s, p).count = LevelOf(d, s, p).count + 1
      /\ LevelOf(n, s, p).total = LevelOf(d, s, p).total + y.size
  BY PutOwnLevel
<1>3. LevelOf(d, s, p).total \in Nat /\ x.size \in Nat /\ y.size \in Nat
  <2>1. LevelOf(d, s, p).total = SumFunctionOnSet(Sizes(d), Resting(d, s, p))
    BY LevelParts
  <2> QED
    BY <2>1, RestingFinite DEF Orders
<1>4. LevelOf(n, s, p).total = LevelOf(o, s, p).total - x.size + y.size
  BY <1>1, <1>2, <1>3
<1>5. LevelOf(n, s, p).ids = LevelOf(o, s, p).ids
  BY <1>1, <1>2, LevelFields
<1> QED
  BY <1>1, <1>2, <1>4, <1>5

-----------------------------------------------------------------------------
(* Levels that agree with orders.                                          *)

\* Two sets of orders that differ at one level at most.
Elsewhere(o, n, side, price) ==
  \A s \in Sides, p \in Prices : s # side \/ p # price =>
    Resting(n, s, p) = Resting(o, s, p) /\ LevelOf(n, s, p) = LevelOf(o, s, p)

LEMMA OtherSides ==
  ASSUME NEW o, NEW n, NEW side \in Sides, NEW price \in Prices, Elsewhere(o, n, side, price)
  PROVE  /\ \A s \in Sides : s # side => LevelsOf(n)[s] = LevelsOf(o)[s]
         /\ \A p \in Prices : p # price =>
              Resting(n, side, p) = Resting(o, side, p) /\ LevelOf(n, side, p) = LevelOf(o, side, p)
<1>1. \A s \in Sides : s # side => LevelsOf(n)[s] = LevelsOf(o)[s]
  <2> TAKE s \in Sides
  <2> HAVE s # side
  <2>1. \A p \in Prices : Resting(n, s, p) = Resting(o, s, p) /\ LevelOf(n, s, p) = LevelOf(o, s, p)
    BY DEF Elsewhere
  <2>2. Occupied(n, s) = Occupied(o, s) /\ Occupied(o, s) \subseteq Prices
    BY <2>1 DEF Occupied
  <2> QED
    BY <2>1, <2>2 DEF LevelsOf
<1> QED
  BY <1>1 DEF Elsewhere

LEMMA SideLevels ==
  ASSUME NEW o, NEW side \in Sides
  PROVE  /\ LevelsOf(o)[side] = [p \in Occupied(o, side) |-> LevelOf(o, side, p)]
         /\ Occupied(o, side) \subseteq Prices
         /\ DOMAIN LevelsOf(o) = Sides /\ LevelsOf(o) = [s \in Sides |-> LevelsOf(o)[s]]
BY DEF LevelsOf, Occupied

LEMMA LevelStays ==
  ASSUME NEW o, NEW n, NEW side \in Sides, NEW price \in Prices, Elsewhere(o, n, side, price),
         Resting(n, side, price) # {}
  PROVE  LevelsOf(n)[side] = Put(LevelsOf(o)[side], price, LevelOf(n, side, price))
<1>0. /\ \A s \in Sides : s # side => LevelsOf(n)[s] = LevelsOf(o)[s]
      /\ \A p \in Prices : p # price =>
           Resting(n, side, p) = Resting(o, side, p) /\ LevelOf(n, side, p) = LevelOf(o, side, p)
  BY OtherSides
<1>1. /\ LevelsOf(o)[side] = [p \in Occupied(o, side) |-> LevelOf(o, side, p)]
      /\ LevelsOf(n)[side] = [p \in Occupied(n, side) |-> LevelOf(n, side, p)]
      /\ Occupied(o, side) \subseteq Prices
  BY SideLevels
<1>3. Occupied(n, side) = Occupied(o, side) \cup {price}
  BY <1>0 DEF Occupied
<1> QED
  BY <1>0, <1>1, <1>3 DEF Put

LEMMA LevelGoes ==
  ASSUME NEW o, NEW n, NEW side \in Sides, NEW price \in Prices, Elsewhere(o, n, side, price),
         Resting(n, side, price) = {}
  PROVE  LevelsOf(n)[side] = Drop(LevelsOf(o)[side], price)
<1>0. /\ \A s \in Sides : s # side => LevelsOf(n)[s] = LevelsOf(o)[s]
      /\ \A p \in Prices : p # price =>
           Resting(n, side, p) = Resting(o, side, p) /\ LevelOf(n, side, p) = LevelOf(o, side, p)
  BY OtherSides
<1>1. /\ LevelsOf(o)[side] = [p \in Occupied(o, side) |-> LevelOf(o, side, p)]
      /\ LevelsOf(n)[side] = [p \in Occupied(n, side) |-> LevelOf(n, side, p)]
      /\ Occupied(o, side) \subseteq Prices
  BY SideLevels
<1>3. Occupied(n, side) = Occupied(o, side) \ {price}
  BY <1>0 DEF Occupied
<1> QED
  BY <1>0, <1>1, <1>3 DEF Drop, Restrict

BookFields == {"orders", "levels", "sideIds", "window", "natural", "status", "primary",
               "consistent", "negative", "warnings"}
IsBook(b) == DOMAIN b = BookFields

\* The levels and ids of a book are those of some orders.
Agrees(b, o) == b.levels = LevelsOf(o) /\ b.sideIds = IdsOf(o) /\ b.negative = 0

Sound(b) == IsBook(b) /\ IsOrders(b.orders) /\ Agrees(b, b.orders)

LEMMA PutIds ==
  ASSUME NEW o, NEW id, id \notin DOMAIN o, NEW x \in Orders, NEW n, n = Put(o, id, x)
  PROVE  IdsOf(n) = [IdsOf(o) EXCEPT ![x.side] = @ \cup {id}]
<1>1. DOMAIN n = DOMAIN o \cup {id} /\ n[id] = x /\ \A k \in DOMAIN o : n[k] = o[k]
  BY DEF Put
<1>2. \A s \in Sides : {k \in DOMAIN n : n[k].side = s}
                         = IF s = x.side THEN {k \in DOMAIN o : o[k].side = s} \cup {id}
                           ELSE {k \in DOMAIN o : o[k].side = s}
  BY <1>1
<1>3. x.side \in Sides
  BY DEF Orders
<1>4. PICK f : f = [IdsOf(o) EXCEPT ![x.side] = @ \cup {id}]
  OBVIOUS
<1>5. f = [s \in Sides |-> IF s = x.side THEN {k \in DOMAIN o : o[k].side = s} \cup {id}
                          ELSE {k \in DOMAIN o : o[k].side = s}]
  BY ONLY <1>3, <1>4 DEF IdsOf
<1>6. IdsOf(n) = [s \in Sides |-> {k \in DOMAIN n : n[k].side = s}]
  BY ONLY DEF IdsOf
<1>7. IdsOf(n) = f
  BY ONLY <1>2, <1>5, <1>6
<1> QED
  BY ONLY <1>4, <1>7

LEMMA DropIds ==
  ASSUME NEW d, NEW id, id \notin DOMAIN d, NEW x \in Orders, NEW o, o = Put(d, id, x)
  PROVE  IdsOf(d) = [IdsOf(o) EXCEPT ![x.side] = @ \ {id}]
<1>1. IdsOf(o) = [IdsOf(d) EXCEPT ![x.side] = @ \cup {id}]
  BY PutIds
<1>2. IdsOf(d) = [s \in Sides |-> IdsOf(d)[s]] /\ \A s \in Sides : id \notin IdsOf(d)[s]
  BY DEF IdsOf
<1> QED
  BY <1>1, <1>2

LEMMA AddAgrees ==
  ASSUME NEW b, IsBook(b), NEW o, IsOrders(o), Agrees(b, o), NEW id, id \notin DOMAIN o,
         NEW x \in Orders, NEW n, n = Put(o, id, x)
  PROVE  /\ IsBook(AddToLevel(b, id, x)) /\ AddToLevel(b, id, x).orders = b.orders
         /\ Agrees(AddToLevel(b, id, x), n)
<1> DEFINE level == IF x.price \in DOMAIN b.levels[x.side] THEN b.levels[x.side][x.price]
                    ELSE [count |-> 0, total |-> 0, ids |-> {}]
<1>1. x.side \in Sides /\ x.price \in Prices
  BY DEF Orders
<1>2. level = LevelOf(o, x.side, x.price)
  <2>1. b.levels[x.side] = [p \in Occupied(o, x.side) |-> LevelOf(o, x.side, p)]
    BY <1>1 DEF Agrees, LevelsOf
  <2>2. CASE x.price \in Occupied(o, x.side)
    BY <2>1, <2>2
  <2>3. CASE x.price \notin Occupied(o, x.side)
    <3>1. Resting(o, x.side, x.price) = {}
      BY <1>1, <2>3 DEF Occupied
    <3>2. LevelOf(o, x.side, x.price) = [count |-> 0, ids |-> {}, total |-> 0]
      BY <3>1, LevelOccupied
    <3> QED
      BY <2>1, <2>3, <3>2
  <2> QED
    BY <2>2, <2>3
<1>3. PICK l : l = [count |-> level.count + 1, total |-> level.total + x.size, ids |-> level.ids \cup {id}]
  OBVIOUS
<1>4. /\ Resting(n, x.side, x.price) = Resting(o, x.side, x.price) \cup {id}
      /\ LevelOf(n, x.side, x.price).count = LevelOf(o, x.side, x.price).count + 1
      /\ LevelOf(n, x.side, x.price).total = LevelOf(o, x.side, x.price).total + x.size
  BY PutOwnLevel
<1>5. l = LevelOf(n, x.side, x.price)
  <2>1. LevelOf(n, x.side, x.price).ids = LevelOf(o, x.side, x.price).ids \cup {id}
    BY ONLY <1>4, LevelFields
  <2>2. LevelOf(n, x.side, x.price) = [count |-> LevelOf(n, x.side, x.price).count,
                                       total |-> LevelOf(n, x.side, x.price).total,
                                       ids |-> LevelOf(n, x.side, x.price).ids]
    BY ONLY LevelFields
  <2> QED
    BY ONLY <1>2, <1>3, <1>4, <2>1, <2>2
<1>6. Elsewhere(o, n, x.side, x.price)
  BY PutOtherLevel DEF Elsewhere
<1>7. PICK v, ls, is : /\ v = Put(LevelsOf(o)[x.side], x.price, l)
                       /\ ls = [LevelsOf(o) EXCEPT ![x.side] = v]
                       /\ is = [IdsOf(o) EXCEPT ![x.side] = @ \cup {id}]
  OBVIOUS
<1>8. LevelsOf(n) = ls
  <2>1. Resting(n, x.side, x.price) # {}
    BY <1>4
  <2>2. v = Put(LevelsOf(o)[x.side], x.price, LevelOf(n, x.side, x.price))
    BY <1>5, <1>7
  <2>3. PICK s, p : s = x.side /\ p = x.price
    OBVIOUS
  <2>4. /\ s \in Sides /\ p \in Prices /\ Elsewhere(o, n, s, p) /\ Resting(n, s, p) # {}
        /\ v = Put(LevelsOf(o)[s], p, LevelOf(n, s, p))
    BY <1>1, <1>6, <1>7, <2>1, <2>2, <2>3
  <2>5. LevelsOf(n)[s] = v
    BY <2>4, LevelStays
  <2>6. \A t \in Sides : t # s => LevelsOf(n)[t] = LevelsOf(o)[t]
    BY <2>4, OtherSides
  <2>7. DOMAIN LevelsOf(o) = Sides /\ LevelsOf(n) = [t \in Sides |-> LevelsOf(n)[t]]
    BY <2>4, SideLevels
  <2> QED
    BY <1>7, <2>3, <2>5, <2>6, <2>7
<1>9. IdsOf(n) = is
  BY <1>7, PutIds
<1>10. AddToLevel(b, id, x) = [b EXCEPT !.levels[x.side] = Put(@, x.price, l),
                                        !.sideIds[x.side] = @ \cup {id}]
  BY <1>3 DEF AddToLevel
<1> HIDE DEF level
<1>11. AddToLevel(b, id, x) = [b EXCEPT !.levels = ls, !.sideIds = is]
  BY <1>7, <1>10 DEF Agrees, IsBook, BookFields
<1> QED
  BY <1>8, <1>9, <1>11 DEF Agrees, IsBook, BookFields

\* A level that changes is kept, or dropped with its last order.
LEMMA StoreAgrees ==
  ASSUME NEW b, IsBook(b), NEW o, NEW d, IsOrders(d), b.levels = LevelsOf(o), b.negative = 0,
         NEW s \in Sides, NEW p \in Prices, Resting(o, s, p) # {}, Elsewhere(o, d, s, p)
  PROVE  /\ IsBook(StoreLevel(b, s, p, LevelOf(d, s, p)))
         /\ StoreLevel(b, s, p, LevelOf(d, s, p)).orders = b.orders
         /\ StoreLevel(b, s, p, LevelOf(d, s, p)).sideIds = b.sideIds
         /\ StoreLevel(b, s, p, LevelOf(d, s, p)).levels = LevelsOf(d)
         /\ StoreLevel(b, s, p, LevelOf(d, s, p)).negative = 0
<1>1. PICK l : l = LevelOf(d, s, p)
  OBVIOUS
<1>2. /\ DOMAIN LevelsOf(o) = Sides /\ LevelsOf(d) = [t \in Sides |-> LevelsOf(d)[t]]
      /\ LevelsOf(o)[s] = [q \in Occupied(o, s) |-> LevelOf(o, s, q)]
  BY SideLevels
<1>3. \A t \in Sides : t # s => LevelsOf(d)[t] = LevelsOf(o)[t]
  BY OtherSides
<1>4. l.count \in Nat /\ l.total \in Nat
  <2>1. l.count = Cardinality(Resting(d, s, p)) /\ l.total = SumFunctionOnSet(Sizes(d), Resting(d, s, p))
    BY <1>1, LevelParts
  <2> QED
    BY <2>1, RestingFinite
<1>5. CASE Resting(d, s, p) = {}
  <2>1. l.count = 0 /\ l.total = 0
    <3>1. LevelOf(d, s, p) = [count |-> 0, ids |-> {}, total |-> 0]
      BY <1>5, LevelOccupied
    <3> QED
      BY <1>1, <3>1
  <2>2. PICK v, ls : v = Drop(LevelsOf(o)[s], p) /\ ls = [LevelsOf(o) EXCEPT ![s] = v]
    OBVIOUS
  <2>3. LevelsOf(d)[s] = v
    <3>1. LevelsOf(d)[s] = Drop(LevelsOf(o)[s], p)
      BY ONLY s \in Sides, p \in Prices, Elsewhere(o, d, s, p), <1>5, LevelGoes
    <3> QED
      BY ONLY <2>2, <3>1
  <2>4. LevelsOf(d) = ls
    BY <1>2, <1>3, <2>2, <2>3
  <2>5. StoreLevel(b, s, p, l) = [b EXCEPT !.levels[s] = Drop(@, p)]
    BY <2>1 DEF StoreLevel
  <2>6. StoreLevel(b, s, p, l) = [b EXCEPT !.levels = ls]
    BY <2>2, <2>5 DEF IsBook, BookFields
  <2> QED
    BY <1>1, <2>4, <2>6 DEF IsBook, BookFields
<1>6. CASE Resting(d, s, p) # {}
  <2>1. l.count >= 1 /\ l.total >= 1
    BY <1>1, <1>6, LevelOccupied
  <2>2. PICK v, ls : v = Put(LevelsOf(o)[s], p, l) /\ ls = [LevelsOf(o) EXCEPT ![s] = v]
    OBVIOUS
  <2>3. LevelsOf(d)[s] = v
    <3>1. LevelsOf(d)[s] = Put(LevelsOf(o)[s], p, LevelOf(d, s, p))
      BY ONLY s \in Sides, p \in Prices, Elsewhere(o, d, s, p), <1>6, LevelStays
    <3> QED
      BY ONLY <1>1, <2>2, <3>1
  <2>4. LevelsOf(d) = ls
    BY <1>2, <1>3, <2>2, <2>3
  <2>5. StoreLevel(b, s, p, l) = [b EXCEPT !.levels[s][p] = l]
    BY <1>4, <2>1 DEF StoreLevel
  <2>6. p \in Occupied(o, s)
    BY DEF Occupied
  <2>7. v = [LevelsOf(o)[s] EXCEPT ![p] = l]
    BY <1>2, <2>2, <2>6 DEF Put
  <2>8. StoreLevel(b, s, p, l) = [b EXCEPT !.levels = ls]
    <3>1. [LevelsOf(o) EXCEPT ![s][p] = l] = ls
      BY <2>2, <2>7
    <3> QED
      BY <2>5, <3>1 DEF IsBook, BookFields
  <2> QED
    BY <1>1, <2>4, <2>8 DEF IsBook, BookFields
<1> QED
  BY <1>5, <1>6

LEMMA RemoveAgrees ==
  ASSUME NEW b, IsBook(b), NEW d, IsOrders(d), NEW id, id \notin DOMAIN d, NEW x \in Orders,
         Agrees(b, Put(d, id, x))
  PROVE  /\ IsBook(RemoveFromLevel(b, id, x)) /\ RemoveFromLevel(b, id, x).orders = b.orders
         /\ Agrees(RemoveFromLevel(b, id, x), d)
<1>1. PICK o, s, p : o = Put(d, id, x) /\ s = x.side /\ p = x.price
  OBVIOUS
<1>2. IsOrders(o) /\ s \in Sides /\ p \in Prices
  <2>1. IsOrders(o)
    BY <1>1, PutOrders
  <2> QED
    BY <1>1, <2>1 DEF Orders
<1>3. /\ id \in Resting(o, s, p)
      /\ LevelOf(d, s, p).count = LevelOf(o, s, p).count - 1
      /\ LevelOf(d, s, p).ids = LevelOf(o, s, p).ids \ {id}
      /\ LevelOf(d, s, p).total = LevelOf(o, s, p).total - x.size
  BY <1>1, DropOwnLevel
<1>4. Elsewhere(o, d, s, p)
  <2>1. \A t \in Sides, q \in Prices : t # x.side \/ q # x.price =>
          Resting(o, t, q) = Resting(d, t, q) /\ LevelOf(o, t, q) = LevelOf(d, t, q)
    BY <1>1, PutOtherLevel
  <2> QED
    BY <1>1, <2>1 DEF Elsewhere
<1>5. PICK u, is : is = [IdsOf(o) EXCEPT ![s] = @ \ {id}] /\ u = [b EXCEPT !.sideIds = is]
  OBVIOUS
<1>6. IdsOf(d) = is
  BY <1>1, <1>5, DropIds
<1>7. /\ IsBook(u) /\ u.levels = LevelsOf(o) /\ u.negative = 0 /\ u.orders = b.orders /\ u.sideIds = is
      /\ u = [b EXCEPT !.sideIds[s] = @ \ {id}]
  BY <1>1, <1>5 DEF Agrees, IsBook, BookFields
<1>8. p \in DOMAIN u.levels[s] /\ u.levels[s][p] = LevelOf(o, s, p)
  <2>1. LevelsOf(o)[s] = [q \in Occupied(o, s) |-> LevelOf(o, s, q)] /\ p \in Occupied(o, s)
    BY <1>2, <1>3, SideLevels DEF Occupied
  <2> QED
    BY <1>7, <2>1
<1>9. b.levels = u.levels
  BY <1>1, <1>7 DEF Agrees
<1>10. [count |-> LevelOf(o, s, p).count - 1, total |-> LevelOf(o, s, p).total - x.size,
        ids |-> LevelOf(o, s, p).ids \ {id}] = LevelOf(d, s, p)
  BY <1>3, LevelFields
<1>11. RemoveFromLevel(b, id, x) = StoreLevel(u, s, p, LevelOf(d, s, p))
  BY <1>1, <1>7, <1>8, <1>9, <1>10 DEF RemoveFromLevel
<1>12. PICK c : c = StoreLevel(u, s, p, LevelOf(d, s, p))
  OBVIOUS
<1>13. /\ IsBook(c) /\ c.orders = u.orders /\ c.sideIds = u.sideIds
       /\ c.levels = LevelsOf(d) /\ c.negative = 0
  <2>1. Resting(o, s, p) # {}
    BY <1>3
  <2>2. IsBook(u) /\ u.levels = LevelsOf(o) /\ u.negative = 0
    BY <1>7
  <2> QED
    BY <1>2, <1>4, <1>12, <2>1, <2>2, StoreAgrees
<1> QED
  BY <1>6, <1>7, <1>11, <1>12, <1>13 DEF Agrees

-----------------------------------------------------------------------------
(* The methods of a book keep it sound.                                    *)

Same(b, c) == /\ IsBook(c) /\ c.orders = b.orders /\ c.levels = b.levels
              /\ c.sideIds = b.sideIds /\ c.negative = b.negative

LEMMA SameSound ==
  ASSUME NEW b, Sound(b), NEW c, Same(b, c)
  PROVE  Sound(c)
BY DEF Sound, Same, Agrees

LEMMA WarnSame ==
  ASSUME NEW b, IsBook(b)
  PROVE  Same(b, WarnIfComplete(b))
BY DEF Same, WarnIfComplete, IsBook, BookFields

LEMMA WarnSound ==
  ASSUME NEW b, Sound(b)
  PROVE  Sound(WarnIfComplete(b))
<1>1. Same(b, WarnIfComplete(b))
  BY WarnSame DEF Sound
<1> QED
  BY <1>1, SameSound

LEMMA SeenSame ==
  ASSUME NEW b, IsBook(b), NEW e
  PROVE  Same(b, [ObservePhase(Remember(b, e), e) EXCEPT !.primary = e.instrument])
         /\ Same(b, ObservePhase(Remember(b, e), e))
<1>1. PICK r : r = Remember(b, e)
  OBVIOUS
<1>2. Same(b, r)
  <2>1. CASE ~Remembered(e)
    BY <1>1, <2>1 DEF Remember, Same
  <2>2. CASE Remembered(e)
    <3>1. PICK w : w = Append(IF Len(b.window) >= WindowSize THEN Tail(b.window) ELSE b.window, e)
      OBVIOUS
    <3>2. r = [b EXCEPT !.window = w]
      BY <1>1, <2>2, <3>1 DEF Remember
    <3> QED
      BY <3>2 DEF Same, IsBook, BookFields
  <2> QED
    BY <2>1, <2>2
<1>3. ASSUME NEW c, Same(b, c) PROVE Same(b, ObserveSequence(c, e))
  <2>1. CASE e.seq = None \/ e.seq >= c.natural[e.channel]
    <3>1. PICK w : w = [c.natural EXCEPT ![e.channel] = e.seq]
      OBVIOUS
    <3>2. ObserveSequence(c, e) = IF e.seq = None THEN c ELSE [c EXCEPT !.natural = w]
      <4>1. [c EXCEPT !.natural[e.channel] = e.seq] = [c EXCEPT !.natural = w]
        BY <3>1
      <4> QED
        BY <2>1, <4>1 DEF ObserveSequence
    <3> QED
      BY <1>3, <3>2 DEF Same, IsBook, BookFields
  <2>2. CASE ~(e.seq = None \/ e.seq >= c.natural[e.channel])
    <3>1. Same(c, ObserveSequence(c, e))
      BY <1>3, <2>2, WarnSame DEF ObserveSequence, Same
    <3> QED
      BY <1>3, <3>1 DEF Same
  <2> QED
    BY <2>1, <2>2
<1>4. PICK p : p = ObservePhase(r, e)
  OBVIOUS
<1>5. Same(b, p)
  <2>1. PICK u, v : u = [r EXCEPT !.status = "SNAPSHOT_LOADING"] /\ v = [r EXCEPT !.status = "POST_SNAPSHOT"]
    OBVIOUS
  <2>2. Same(b, u) /\ Same(b, v)
    BY <1>2, <2>1 DEF Same, IsBook, BookFields
  <2>3. Same(b, ObserveSequence(v, e))
    BY <1>3, <2>2
  <2>4. p \in {u, r, ObserveSequence(v, e)}
    BY <1>4, <2>1 DEF ObservePhase
  <2> QED
    BY <1>2, <2>2, <2>3, <2>4
<1>6. Same(b, [p EXCEPT !.primary = e.instrument])
  BY <1>5 DEF Same, IsBook, BookFields
<1> QED
  BY <1>1, <1>4, <1>5, <1>6

LEMMA FinishSame ==
  ASSUME NEW b, IsBook(b), NEW e
  PROVE  Same(b, FinishGroup(b, e))
<1>1. PICK v, w : /\ v = ("LAST" \in e.flags)
                  /\ w = IF {"LAST", "SNAPSHOT"} \subseteq e.flags /\ b.status = "SNAPSHOT_LOADING"
                         THEN "SNAPSHOT_READY" ELSE b.status
  OBVIOUS
<1>2. FinishGroup(b, e) = [b EXCEPT !.consistent = v, !.status = w]
  BY <1>1 DEF FinishGroup, IsBook, BookFields
<1> QED
  BY <1>2 DEF Same, IsBook, BookFields

LEMMA TakeOutSound ==
  ASSUME NEW b, Sound(b), NEW id
  PROVE  Sound(TakeOut(id, b))
<1>1. CASE id \notin DOMAIN b.orders
  BY <1>1 DEF TakeOut
<1>2. CASE id \in DOMAIN b.orders
  <2>1. PICK d, x, u, c : /\ d = Drop(b.orders, id) /\ x = b.orders[id] /\ u = [b EXCEPT !.orders = d]
                          /\ c = RemoveFromLevel(u, id, x)
    OBVIOUS
  <2>2. IsOrders(d) /\ id \notin DOMAIN d /\ x \in Orders /\ b.orders = Put(d, id, x)
    <3>1. PICK o : o = b.orders
      OBVIOUS
    <3>2. IsOrders(o) /\ id \in DOMAIN o
      BY <1>2, <3>1 DEF Sound
    <3>3. /\ IsOrders(Drop(o, id)) /\ DOMAIN Drop(o, id) = DOMAIN o \ {id} /\ o[id] \in Orders
          /\ o = Put(Drop(o, id), id, o[id])
      BY ONLY <3>2, DropOrders
    <3> QED
      BY ONLY <2>1, <3>1, <3>3
  <2>3. IsBook(u) /\ u.orders = d /\ Agrees(u, b.orders)
    BY <2>1 DEF Sound, Agrees, IsBook, BookFields
  <2>4. IsBook(c) /\ c.orders = u.orders /\ Agrees(c, d)
    <3>1. Agrees(u, Put(d, id, x))
      BY <2>2, <2>3
    <3>2. /\ IsBook(RemoveFromLevel(u, id, x)) /\ RemoveFromLevel(u, id, x).orders = u.orders
          /\ Agrees(RemoveFromLevel(u, id, x), d)
      BY ONLY <2>2, <2>3, <3>1, RemoveAgrees
    <3> QED
      BY <2>1, <3>2
  <2>5. TakeOut(id, b) = c
    BY <1>2, <2>1 DEF TakeOut
  <2> QED
    BY <2>2, <2>3, <2>4, <2>5 DEF Sound
<1> QED
  BY <1>1, <1>2

LEMMA ClearSound ==
  ASSUME NEW b, Sound(b)
  PROVE  Sound(Clear(b))
<1>1. DOMAIN <<>> = {} /\ IsFiniteSet({})
  BY FS_EmptySet
<1>2. IsOrders(<<>>)
  BY <1>1 DEF IsOrders
<1>3. \A s \in Sides : Occupied(<<>>, s) = {}
  BY <1>1 DEF Occupied, Resting
<1>4. LevelsOf(<<>>) = [s \in Sides |-> <<>>]
  BY <1>3 DEF LevelsOf
<1>5. IdsOf(<<>>) = [s \in Sides |-> {}]
  BY <1>1 DEF IdsOf
<1>6. PICK ls, is : ls = [s \in Sides |-> <<>>] /\ is = [s \in Sides |-> {}]
  OBVIOUS
<1>7. Clear(b) = [b EXCEPT !.orders = <<>>, !.levels = ls, !.sideIds = is]
  BY <1>6 DEF Clear
<1> QED
  BY <1>2, <1>4, <1>5, <1>6, <1>7 DEF Sound, Agrees, IsBook, BookFields

\* The fold of _clear_side exists for finitely many ids, and is sound at each of them.
Clears(b, S, f) ==
  f = [s \in SUBSET S |-> IF s = {} THEN b ELSE TakeOut(Taken(s), f[s \ {Taken(s)}])]
ClearsUpTo(b, S, n, f) ==
  f = [s \in Level(S, n) |-> IF s = {} THEN b ELSE TakeOut(Taken(s), f[s \ {Taken(s)}])]

LEMMA NextClears ==
  ASSUME NEW b, NEW S, IsFiniteSet(S), NEW n \in Nat, NEW f, ClearsUpTo(b, S, n, f)
  PROVE  \E g : ClearsUpTo(b, S, n + 1, g)
<1> DEFINE g == [s \in Level(S, n + 1) |-> IF s = {} THEN b ELSE TakeOut(Taken(s), f[s \ {Taken(s)}])]
<1>1. \A s \in Level(S, n + 1) : s # {} => s \ {Taken(s)} \in Level(S, n)
  <2> TAKE s \in Level(S, n + 1)
  <2> HAVE s # {}
  <2>1. IsFiniteSet(s) /\ Taken(s) \in s /\ s \in SUBSET S /\ Cardinality(s) <= n + 1
    BY FirstIn, FS_Subset DEF Level
  <2>2. Cardinality(s \ {Taken(s)}) = Cardinality(s) - 1 /\ Cardinality(s) \in Nat
    BY <2>1, Smaller
  <2> QED
    BY <2>1, <2>2 DEF Level
<1>2. Level(S, n) \subseteq Level(S, n + 1)
  <2>1. \A s \in SUBSET S : Cardinality(s) \in Nat
    BY FS_Subset, FS_CardinalityType
  <2> QED
    BY <2>1 DEF Level
<1>3. \A s \in Level(S, n) : g[s] = f[s]
  BY <1>2 DEF ClearsUpTo
<1>4. \A s \in Level(S, n + 1) : s # {} => g[s \ {Taken(s)}] = f[s \ {Taken(s)}]
  BY <1>1, <1>3
<1>5. g = [s \in Level(S, n + 1) |-> IF s = {} THEN b ELSE TakeOut(Taken(s), g[s \ {Taken(s)}])]
  BY <1>4
<1> QED
  BY <1>5 DEF ClearsUpTo

LEMMA EveryClears ==
  ASSUME NEW b, NEW S, IsFiniteSet(S), NEW n \in Nat
  PROVE  \E f : ClearsUpTo(b, S, n, f)
<1> DEFINE Missing == {m \in Nat : ~ \E f : ClearsUpTo(b, S, m, f)}
<1> SUFFICES ASSUME Missing # {} PROVE FALSE
  OBVIOUS
<1>1. PICK m \in Missing : \A k \in Missing : m <= k
  BY LeastNatural
<1>2. CASE m = 0
  <2>1. \A s \in Level(S, 0) : s = {}
    <3>1. \A s \in SUBSET S : IsFiniteSet(s) /\ Cardinality(s) \in Nat
      BY FS_Subset, FS_CardinalityType
    <3> QED
      BY <3>1, FS_EmptySet DEF Level
  <2>2. ClearsUpTo(b, S, 0, [s \in Level(S, 0) |-> b])
    BY <2>1 DEF ClearsUpTo
  <2> QED
    BY <1>2, <2>2
<1>3. CASE m # 0
  <2>1. m - 1 \in Nat /\ m - 1 \notin Missing /\ (m - 1) + 1 = m
    BY <1>1, <1>3
  <2>2. \E f : ClearsUpTo(b, S, m - 1, f)
    BY <2>1
  <2>3. \E f : ClearsUpTo(b, S, (m - 1) + 1, f)
    BY <2>1, <2>2, NextClears
  <2> QED
    BY <2>1, <2>3
<1> QED
  BY <1>2, <1>3

LEMMA ClearsExists ==
  ASSUME NEW b, NEW S, IsFiniteSet(S)
  PROVE  \E f : Clears(b, S, f) /\ FoldSet(TakeOut, b, S) = f[S]
<1>1. Cardinality(S) \in Nat /\ \A s \in SUBSET S : Cardinality(s) <= Cardinality(S)
  BY FS_Subset, FS_CardinalityType
<1>2. Level(S, Cardinality(S)) = SUBSET S
  BY <1>1 DEF Level
<1>3. PICK f : ClearsUpTo(b, S, Cardinality(S), f)
  BY <1>1, EveryClears
<1> DEFINE iter == CHOOSE h : h = [s \in SUBSET S |->
                     IF s = {} THEN b ELSE TakeOut(CHOOSE x \in s : TRUE, h[s \ {CHOOSE x \in s : TRUE}])]
<1>4. FoldSet(TakeOut, b, S) = iter[S]
  BY DEF FoldSet, MapThenFoldSet
<1>5. f = [s \in SUBSET S |-> IF s = {} THEN b
                               ELSE TakeOut(CHOOSE x \in s : TRUE, f[s \ {CHOOSE x \in s : TRUE}])]
  BY <1>2, <1>3 DEF ClearsUpTo, Taken
<1>6. iter = [s \in SUBSET S |-> IF s = {} THEN b
                                  ELSE TakeOut(CHOOSE x \in s : TRUE, iter[s \ {CHOOSE x \in s : TRUE}])]
  BY <1>5
<1>7. Clears(b, S, iter)
  BY <1>6 DEF Clears, Taken
<1> QED
  BY <1>4, <1>7

LEMMA ClearSideSound ==
  ASSUME NEW b, Sound(b), NEW side \in Sides
  PROVE  Sound(ClearSide(b, side))
<1>1. PICK S : S = b.sideIds[side]
  OBVIOUS
<1>2. IsFiniteSet(S)
  <2>1. S \subseteq DOMAIN b.orders
    BY <1>1 DEF Sound, Agrees, IdsOf
  <2> QED
    BY <2>1, FS_Subset DEF Sound, IsOrders
<1>3. PICK f : Clears(b, S, f) /\ FoldSet(TakeOut, b, S) = f[S]
  BY <1>2, ClearsExists
<1> DEFINE Bad == {s \in SUBSET S : ~Sound(f[s])}
<1>4. Bad = {}
  <2> SUFFICES ASSUME Bad # {} PROVE FALSE
    OBVIOUS
  <2>1. \A s \in Bad : IsFiniteSet(s)
    BY <1>2, FS_Subset
  <2>2. PICK s \in Bad : \A t \in Bad : Cardinality(s) <= Cardinality(t)
    BY <2>1, SmallestSet
  <2>3. s # {}
    BY <1>3, <2>2 DEF Clears
  <2>4. Taken(s) \in s /\ IsFiniteSet(s)
    BY <2>1, <2>2, <2>3, FirstIn
  <2>5. /\ Cardinality(s \ {Taken(s)}) < Cardinality(s)
        /\ Cardinality(s) \in Nat /\ Cardinality(s \ {Taken(s)}) \in Nat
    BY <2>4, Smaller
  <2>6. s \ {Taken(s)} \notin Bad
    <3>1. s \ {Taken(s)} \in Bad => Cardinality(s) <= Cardinality(s \ {Taken(s)})
      BY <2>2, Zenon
    <3>2. ~(Cardinality(s) <= Cardinality(s \ {Taken(s)}))
      BY <2>5
    <3> QED
      BY <3>1, <3>2, Zenon
  <2>7. Sound(f[s \ {Taken(s)}])
    BY <2>2, <2>6
  <2>8. f[s] = TakeOut(Taken(s), f[s \ {Taken(s)}])
    BY <1>3, <2>2, <2>3 DEF Clears
  <2>9. Sound(f[s])
    BY <2>7, <2>8, TakeOutSound
  <2> QED
    BY <2>2, <2>9
<1>5. Sound(f[S])
  BY <1>4
<1>6. ClearSide(b, side) = f[S]
  BY <1>1, <1>3 DEF ClearSide
<1> QED
  BY <1>5, <1>6

\* An order of a sound book, put where none was.
LEMMA AddSound ==
  ASSUME NEW b, IsBook(b), NEW d, IsOrders(d), Agrees(b, d), NEW id, id \notin DOMAIN d,
         NEW x \in Orders, b.orders = Put(d, id, x)
  PROVE  Sound(AddToLevel(b, id, x))
<1>1. PICK n : n = Put(d, id, x)
  OBVIOUS
<1>2. IsOrders(n)
  BY <1>1, PutOrders
<1>3. /\ IsBook(AddToLevel(b, id, x)) /\ AddToLevel(b, id, x).orders = b.orders
      /\ Agrees(AddToLevel(b, id, x), n)
  BY <1>1, AddAgrees
<1> QED
  BY <1>1, <1>2, <1>3 DEF Sound

LEMMA NewOrderIsOne ==
  ASSUME NEW e, IsEvent(e), Acceptable(e)
  PROVE  NewOrder(e) \in Orders
BY DEF IsEvent, Acceptable, NewOrder, Orders, Sides

LEMMA ApplyAddSound ==
  ASSUME NEW b, Sound(b), NEW e, IsEvent(e)
  PROVE  Sound(ApplyAdd(b, e))
<1>1. PICK c : c = IF "TOB" \notin e.flags THEN b
                   ELSE IF e.side \in Sides THEN ClearSide(b, e.side) ELSE WarnIfComplete(b)
  OBVIOUS
<1>2. Sound(c)
  BY <1>1, ClearSideSound, WarnSound
<1>3. CASE ("TOB" \in e.flags /\ e.price = UndefPrice) \/ ~Acceptable(e) \/ e.id \in DOMAIN c.orders
  <2>1. ApplyAdd(b, e) = WarnIfComplete(c)
    BY <1>1, <1>3 DEF ApplyAdd
  <2> QED
    BY <1>2, <2>1, WarnSound
<1>4. CASE ~(("TOB" \in e.flags /\ e.price = UndefPrice) \/ ~Acceptable(e) \/ e.id \in DOMAIN c.orders)
  <2>1. PICK x, d, u, n : /\ x = NewOrder(e) /\ d = c.orders /\ n = Put(d, e.id, x)
                          /\ u = [c EXCEPT !.orders = n]
    OBVIOUS
  <2>2. ApplyAdd(b, e) = AddToLevel(u, e.id, x)
    BY <1>1, <1>4, <2>1 DEF ApplyAdd
  <2>3. x \in Orders /\ e.id \notin DOMAIN d /\ IsOrders(d)
    BY <1>2, <1>4, <2>1, NewOrderIsOne DEF Sound
  <2>4. IsBook(u) /\ Agrees(u, d) /\ u.orders = Put(d, e.id, x)
    BY <1>2, <2>1 DEF Sound, Agrees, IsBook, BookFields
  <2>5. Sound(AddToLevel(u, e.id, x))
    BY ONLY <2>3, <2>4, AddSound
  <2> QED
    BY <2>2, <2>5
<1> QED
  BY <1>3, <1>4

LEMMA KnownOrder ==
  ASSUME NEW o, IsOrders(o), NEW id \in DOMAIN o
  PROVE  /\ IsOrders(Drop(o, id)) /\ id \notin DOMAIN Drop(o, id) /\ o[id] \in Orders
         /\ o = Put(Drop(o, id), id, o[id])
<1>1. DOMAIN Drop(o, id) = DOMAIN o \ {id}
  BY DropOrders
<1>2. IsOrders(Drop(o, id)) /\ o[id] \in Orders
  BY DropOrders
<1>3. o = Put(Drop(o, id), id, o[id])
  BY DropOrders
<1> QED
  BY <1>1, <1>2, <1>3

LEMMA ApplyModifySound ==
  ASSUME NEW b, Sound(b), NEW e, IsEvent(e)
  PROVE  Sound(ApplyModify(b, e))
<1>1. CASE e.id \notin DOMAIN b.orders \/ ~Acceptable(e)
  BY <1>1, WarnSound DEF ApplyModify, UnknownOrder
<1>2. CASE e.id \in DOMAIN b.orders /\ Acceptable(e)
  <2>0. PICK o : o = b.orders
    OBVIOUS
  <2>1. PICK id, d, x, y, r, n, u : /\ id = e.id /\ d = Drop(o, id) /\ x = o[id]
                                    /\ y = NewOrder(e) /\ r = RemoveFromLevel(b, id, x)
                                    /\ n = Put(o, id, y) /\ u = [r EXCEPT !.orders = n]
    OBVIOUS
  <2>2. IsOrders(d) /\ id \notin DOMAIN d /\ x \in Orders /\ o = Put(d, id, x)
    <3>1. IsOrders(o) /\ id \in DOMAIN o
      BY <1>2, <2>0, <2>1 DEF Sound
    <3> QED
      BY ONLY <3>1, <2>1, KnownOrder
  <2>3. y \in Orders
    BY <1>2, <2>1, NewOrderIsOne
  <2>4. IsBook(r) /\ r.orders = o /\ Agrees(r, d)
    <3>1. IsBook(b) /\ Agrees(b, Put(d, id, x))
      BY <2>0, <2>2 DEF Sound
    <3>2. /\ IsBook(RemoveFromLevel(b, id, x)) /\ RemoveFromLevel(b, id, x).orders = b.orders
          /\ Agrees(RemoveFromLevel(b, id, x), d)
      BY ONLY <2>2, <3>1, RemoveAgrees
    <3> QED
      BY <2>0, <2>1, <3>2
  <2>5. n = Put(d, id, y)
    BY ONLY <2>1, PutAgain
  <2>6. IsBook(u) /\ Agrees(u, d) /\ u.orders = Put(d, id, y)
    BY ONLY <2>1, <2>4, <2>5 DEF Agrees, IsBook, BookFields
  <2>7. Sound(AddToLevel(u, id, y))
    BY ONLY <2>2, <2>3, <2>6, AddSound
  <2>8. ApplyModify(b, e) = AddToLevel(u, id, y)
    BY <1>2, <2>0, <2>1, <2>4 DEF ApplyModify
  <2> QED
    BY <2>7, <2>8
<1> QED
  BY <1>1, <1>2

LEMMA LesserOfTwo ==
  ASSUME NEW m \in Nat, NEW n \in Nat
  PROVE  Min({m, n}) = IF m <= n THEN m ELSE n
BY DEF Min

\* A book of new orders becomes sound again when the one level that differs is stored.
LEMMA StoreSound ==
  ASSUME NEW b, IsBook(b), NEW o, b.levels = LevelsOf(o), b.negative = 0,
         IsOrders(b.orders), b.sideIds = IdsOf(b.orders),
         NEW s \in Sides, NEW p \in Prices, Resting(o, s, p) # {}, Elsewhere(o, b.orders, s, p)
  PROVE  Sound(StoreLevel(b, s, p, LevelOf(b.orders, s, p)))
<1>1. PICK n, c : n = b.orders /\ c = StoreLevel(b, s, p, LevelOf(n, s, p))
  OBVIOUS
<1>2. IsOrders(n) /\ Elsewhere(o, n, s, p)
  BY <1>1
<1>3. IsBook(c) /\ c.orders = b.orders /\ c.sideIds = b.sideIds /\ c.levels = LevelsOf(n) /\ c.negative = 0
  BY <1>1, <1>2, StoreAgrees
<1> QED
  BY <1>1, <1>3 DEF Sound, Agrees

\* The level of an order that rests is there.
LEMMA LevelThere ==
  ASSUME NEW b, Sound(b), NEW id \in DOMAIN b.orders
  PROVE  /\ b.orders[id] \in Orders /\ b.orders[id].side \in Sides /\ b.orders[id].price \in Prices
         /\ b.orders[id].size \in Nat \ {0}
         /\ id \in Resting(b.orders, b.orders[id].side, b.orders[id].price)
         /\ b.orders[id].price \in DOMAIN b.levels[b.orders[id].side]
         /\ b.levels[b.orders[id].side][b.orders[id].price]
              = LevelOf(b.orders, b.orders[id].side, b.orders[id].price)
<1>1. PICK o, x, s, p : o = b.orders /\ x = o[id] /\ s = x.side /\ p = x.price
  OBVIOUS
<1>2. x \in Orders /\ s \in Sides /\ p \in Prices /\ x.size \in Nat \ {0} /\ id \in Resting(o, s, p)
  BY <1>1 DEF Sound, IsOrders, Orders, Resting
<1>3. b.levels[s] = [q \in Occupied(o, s) |-> LevelOf(o, s, q)] /\ p \in Occupied(o, s)
  <2>1. p \in Occupied(o, s)
    BY <1>2 DEF Occupied
  <2>2. LevelsOf(o)[s] = [q \in Occupied(o, s) |-> LevelOf(o, s, q)]
    BY <1>2, SideLevels
  <2>3. b.levels = LevelsOf(o)
    BY <1>1 DEF Sound, Agrees
  <2> QED
    BY <2>1, <2>2, <2>3
<1>4. p \in DOMAIN b.levels[s] /\ b.levels[s][p] = LevelOf(o, s, p)
  BY <1>3
<1> QED
  BY ONLY <1>1, <1>2, <1>4

\* The whole order goes.
LEMMA CancelWholeSound ==
  ASSUME NEW b, Sound(b), NEW id \in DOMAIN b.orders
  PROVE  Sound(StoreLevel([b EXCEPT !.orders = Drop(@, id),
                                    !.sideIds[b.orders[id].side] = @ \ {id}],
                          b.orders[id].side, b.orders[id].price,
                          [count |-> b.levels[b.orders[id].side][b.orders[id].price].count - 1,
                           total |-> b.levels[b.orders[id].side][b.orders[id].price].total
                                       - b.orders[id].size,
                           ids |-> b.levels[b.orders[id].side][b.orders[id].price].ids \ {id}]))
<1>1. PICK o, x, s, p, d, is, u :
        /\ o = b.orders /\ x = o[id] /\ s = x.side /\ p = x.price /\ d = Drop(o, id)
        /\ is = [IdsOf(o) EXCEPT ![x.side] = @ \ {id}] /\ u = [b EXCEPT !.orders = d, !.sideIds = is]
  OBVIOUS
<1>2. IsOrders(o) /\ IsOrders(d) /\ id \notin DOMAIN d /\ x \in Orders /\ o = Put(d, id, x)
  <2>1. IsOrders(o) /\ id \in DOMAIN o
    BY <1>1 DEF Sound
  <2> QED
    BY ONLY <2>1, <1>1, KnownOrder
<1>3. s \in Sides /\ p \in Prices /\ b.levels[s][p] = LevelOf(o, s, p)
  BY <1>1, LevelThere
<1>4. /\ id \in Resting(o, s, p)
      /\ LevelOf(d, s, p).count = LevelOf(o, s, p).count - 1
      /\ LevelOf(d, s, p).ids = LevelOf(o, s, p).ids \ {id}
      /\ LevelOf(d, s, p).total = LevelOf(o, s, p).total - x.size
  <2>1. s = x.side /\ p = x.price
    BY <1>1
  <2> QED
    BY ONLY <1>2, <2>1, DropOwnLevel
<1>5. Elsewhere(o, d, s, p)
  <2>1. \A t \in Sides, q \in Prices : t # x.side \/ q # x.price =>
          Resting(o, t, q) = Resting(d, t, q) /\ LevelOf(o, t, q) = LevelOf(d, t, q)
    BY ONLY <1>2, PutOtherLevel
  <2> QED
    BY <1>1, <2>1 DEF Elsewhere
<1>6. IdsOf(d) = is
  <2>1. is = [IdsOf(o) EXCEPT ![x.side] = @ \ {id}]
    BY <1>1
  <2> QED
    BY ONLY <1>2, <2>1, DropIds
<1>7. /\ IsBook(u) /\ u.levels = LevelsOf(o) /\ u.negative = 0 /\ u.orders = d /\ u.sideIds = is
      /\ u = [b EXCEPT !.orders = Drop(@, id), !.sideIds[s] = @ \ {id}]
  BY <1>1 DEF Sound, Agrees, IsBook, BookFields
<1>8. [count |-> b.levels[s][p].count - 1, total |-> b.levels[s][p].total - x.size,
       ids |-> b.levels[s][p].ids \ {id}] = LevelOf(d, s, p)
  BY <1>3, <1>4, LevelFields
<1>9. Sound(StoreLevel(u, s, p, LevelOf(u.orders, s, p)))
  <2>1. /\ Resting(o, s, p) # {} /\ IsOrders(u.orders) /\ u.sideIds = IdsOf(u.orders)
        /\ Elsewhere(o, u.orders, s, p)
    BY <1>2, <1>4, <1>5, <1>6, <1>7
  <2> QED
    BY ONLY <1>3, <1>7, <2>1, StoreSound
<1>10. u = [b EXCEPT !.orders = Drop(@, id), !.sideIds[b.orders[id].side] = @ \ {id}]
  BY <1>1, <1>7
<1> QED
  BY <1>1, <1>7, <1>8, <1>9, <1>10

\* A part of the order goes.
LEMMA CancelPartSound ==
  ASSUME NEW b, Sound(b), NEW id \in DOMAIN b.orders, NEW cut \in Nat \ {0}, cut < b.orders[id].size
  PROVE  Sound(StoreLevel([b EXCEPT !.orders[id].size = @ - cut],
                          b.orders[id].side, b.orders[id].price,
                          [count |-> b.levels[b.orders[id].side][b.orders[id].price].count,
                           total |-> b.levels[b.orders[id].side][b.orders[id].price].total - cut,
                           ids |-> b.levels[b.orders[id].side][b.orders[id].price].ids]))
<1>1. PICK o, x, s, p, d, y, n, u :
        /\ o = b.orders /\ x = o[id] /\ s = x.side /\ p = x.price /\ d = Drop(o, id)
        /\ y = [x EXCEPT !.size = x.size - cut] /\ n = [o EXCEPT ![id] = y] /\ u = [b EXCEPT !.orders = n]
  OBVIOUS
<1>2. IsOrders(o) /\ IsOrders(d) /\ id \notin DOMAIN d /\ x \in Orders /\ o = Put(d, id, x)
  <2>1. IsOrders(o) /\ id \in DOMAIN o
    BY <1>1 DEF Sound
  <2> QED
    BY ONLY <2>1, <1>1, KnownOrder
<1>3. s \in Sides /\ p \in Prices /\ b.levels[s][p] = LevelOf(o, s, p)
  BY <1>1, LevelThere
<1>4. x.size \in Nat /\ x.size - cut \in Nat \ {0}
  <2>1. x.size \in Nat /\ cut < x.size
    BY <1>1, <1>2 DEF Orders
  <2> QED
    BY <2>1
<1>5. y \in Orders /\ y.side = x.side /\ y.price = x.price /\ y.size = x.size - cut
  BY <1>1, <1>2, <1>4 DEF Orders
<1>6. n = Put(d, id, y)
  <2>1. Put(d, id, y) = Put(o, id, y)
    BY <1>1, PutAgain
  <2>2. id \in DOMAIN o
    BY <1>1
  <2>3. Put(o, id, y) = [o EXCEPT ![id] = y]
    BY <1>2, <2>2 DEF Put, IsOrders
  <2> QED
    BY <1>1, <2>1, <2>3
<1>7. IsOrders(n)
  BY ONLY <1>2, <1>5, <1>6, PutOrders
<1>8. /\ Resting(n, s, p) = Resting(o, s, p) /\ id \in Resting(o, s, p)
      /\ LevelOf(n, s, p).count = LevelOf(o, s, p).count
      /\ LevelOf(n, s, p).ids = LevelOf(o, s, p).ids
      /\ LevelOf(n, s, p).total = LevelOf(o, s, p).total - x.size + y.size
  <2>1. s = x.side /\ p = x.price
    BY <1>1
  <2> QED
    BY ONLY <1>2, <1>5, <1>6, <2>1, ResizeOwnLevel
<1>9. LevelOf(o, s, p).total \in Nat
  <2>1. LevelOf(o, s, p).total = SumFunctionOnSet(Sizes(o), Resting(o, s, p))
    BY LevelParts
  <2> QED
    BY <1>2, <2>1, RestingFinite
<1>10. LevelOf(n, s, p).total = LevelOf(o, s, p).total - cut
  BY <1>4, <1>5, <1>8, <1>9
<1>11. Elsewhere(o, n, s, p)
  <2>1. \A t \in Sides, q \in Prices : t # x.side \/ q # x.price =>
          Resting(o, t, q) = Resting(d, t, q) /\ LevelOf(o, t, q) = LevelOf(d, t, q)
    BY ONLY <1>2, PutOtherLevel
  <2>2. \A t \in Sides, q \in Prices : t # y.side \/ q # y.price =>
          Resting(n, t, q) = Resting(d, t, q) /\ LevelOf(n, t, q) = LevelOf(d, t, q)
    BY ONLY <1>2, <1>5, <1>6, PutOtherLevel
  <2> QED
    BY <1>1, <1>5, <2>1, <2>2 DEF Elsewhere
<1>12. IdsOf(n) = IdsOf(o)
  <2>1. IdsOf(o) = [IdsOf(d) EXCEPT ![x.side] = @ \cup {id}]
    BY ONLY <1>2, PutIds
  <2>2. IdsOf(n) = [IdsOf(d) EXCEPT ![y.side] = @ \cup {id}]
    BY ONLY <1>2, <1>5, <1>6, PutIds
  <2> QED
    BY <1>5, <2>1, <2>2
<1>13. /\ IsBook(u) /\ u.levels = LevelsOf(o) /\ u.negative = 0 /\ u.orders = n /\ u.sideIds = IdsOf(o)
  BY <1>1 DEF Sound, Agrees, IsBook, BookFields
<1>14. u = [b EXCEPT !.orders[id].size = @ - cut]
  <2>1. [o EXCEPT ![id].size = @ - cut] = n
    BY <1>1
  <2> QED
    BY <1>1, <2>1 DEF Sound, IsBook, BookFields
<1>15. [count |-> b.levels[s][p].count, total |-> b.levels[s][p].total - cut, ids |-> b.levels[s][p].ids]
         = LevelOf(n, s, p)
  BY <1>3, <1>8, <1>10, LevelFields
<1>16. Sound(StoreLevel(u, s, p, LevelOf(u.orders, s, p)))
  <2>1. /\ Resting(o, s, p) # {} /\ IsOrders(u.orders) /\ u.sideIds = IdsOf(u.orders)
        /\ Elsewhere(o, u.orders, s, p)
    BY <1>7, <1>8, <1>11, <1>12, <1>13
  <2> QED
    BY ONLY <1>3, <1>13, <2>1, StoreSound
<1> QED
  BY <1>1, <1>13, <1>14, <1>15, <1>16

LEMMA ApplyCancelSound ==
  ASSUME NEW b, Sound(b), NEW e, IsEvent(e)
  PROVE  Sound(ApplyCancel(b, e))
<1>1. CASE e.id \notin DOMAIN b.orders \/ e.size = 0
  BY <1>1, WarnSound DEF ApplyCancel, UnknownOrder
<1>2. CASE e.id \in DOMAIN b.orders /\ e.size # 0
  <2>1. PICK id, w, cut : /\ id = e.id /\ cut = Min({e.size, b.orders[id].size})
                          /\ w = IF e.size > b.orders[id].size THEN WarnIfComplete(b) ELSE b
    OBVIOUS
  <2>2. /\ Sound(w) /\ w.orders = b.orders /\ w.levels = b.levels /\ w.sideIds = b.sideIds
    <3>1. IsBook(b)
      BY DEF Sound
    <3>2. Same(b, WarnIfComplete(b))
      BY <3>1, WarnSame
    <3>3. Sound(WarnIfComplete(b))
      BY WarnSound
    <3> QED
      BY <2>1, <3>2, <3>3 DEF Same
  <2>3. PICK x, s, p : x = w.orders[id] /\ s = x.side /\ p = x.price
    OBVIOUS
  <2>4. id \in DOMAIN w.orders /\ x.size \in Nat \ {0} /\ p \in DOMAIN w.levels[s]
    <3>1. id \in DOMAIN w.orders
      BY <1>2, <2>1, <2>2
    <3> QED
      BY <2>2, <2>3, <3>1, LevelThere
  <2>5. e.size \in Nat \ {0}
    BY <1>2 DEF IsEvent
  <2>6. cut = IF e.size <= x.size THEN e.size ELSE x.size
    BY <2>1, <2>2, <2>3, <2>4, <2>5, LesserOfTwo
  <2>7. x = b.orders[e.id] /\ p \in DOMAIN b.levels[s] /\ e.id \in DOMAIN b.orders /\ e.size # 0
    BY <1>2, <2>1, <2>2, <2>3, <2>4
  <2>8. PICK l : l = b.levels[s][p]
    OBVIOUS
  <2>9. CASE cut = x.size
    <3>1. PICK u : u = [w EXCEPT !.orders = Drop(@, id), !.sideIds[s] = @ \ {id}]
      OBVIOUS
    <3>2. ApplyCancel(b, e) = StoreLevel(u, s, p, [count |-> l.count - 1, total |-> l.total - cut,
                                                   ids |-> l.ids \ {id}])
      BY <2>1, <2>3, <2>7, <2>8, <2>9, <3>1 DEF ApplyCancel
    <3>3. Sound(StoreLevel([w EXCEPT !.orders = Drop(@, id), !.sideIds[w.orders[id].side] = @ \ {id}],
                 w.orders[id].side, w.orders[id].price,
                 [count |-> w.levels[w.orders[id].side][w.orders[id].price].count - 1,
                  total |-> w.levels[w.orders[id].side][w.orders[id].price].total - w.orders[id].size,
                  ids |-> w.levels[w.orders[id].side][w.orders[id].price].ids \ {id}]))
      BY ONLY <2>2, <2>4, CancelWholeSound
    <3> QED
      BY ONLY <2>2, <2>3, <2>8, <2>9, <3>1, <3>2, <3>3
  <2>10. CASE cut # x.size
    <3>1. PICK u : u = [w EXCEPT !.orders[id].size = @ - cut]
      OBVIOUS
    <3>2. cut \in Nat \ {0} /\ cut < w.orders[id].size
      BY <2>3, <2>4, <2>5, <2>6, <2>10
    <3>3. ApplyCancel(b, e) = StoreLevel(u, s, p, [count |-> l.count, total |-> l.total - cut, ids |-> l.ids])
      BY <2>1, <2>3, <2>7, <2>8, <2>10, <3>1 DEF ApplyCancel
    <3>4. Sound(StoreLevel([w EXCEPT !.orders[id].size = @ - cut],
                 w.orders[id].side, w.orders[id].price,
                 [count |-> w.levels[w.orders[id].side][w.orders[id].price].count,
                  total |-> w.levels[w.orders[id].side][w.orders[id].price].total - cut,
                  ids |-> w.levels[w.orders[id].side][w.orders[id].price].ids]))
      BY ONLY <2>2, <2>4, <3>2, CancelPartSound
    <3> QED
      BY ONLY <2>2, <2>3, <2>8, <3>1, <3>3, <3>4
  <2> QED
    BY <2>9, <2>10
<1> QED
  BY <1>1, <1>2

LEMMA ApplyActionSound ==
  ASSUME NEW b, Sound(b), NEW e, IsEvent(e)
  PROVE  Sound(ApplyAction(b, e))
<1>1. /\ Sound(Clear(b)) /\ Sound(ApplyAdd(b, e)) /\ Sound(ApplyModify(b, e)) /\ Sound(ApplyCancel(b, e))
  BY ClearSound, ApplyAddSound, ApplyModifySound, ApplyCancelSound
<1> QED
  BY <1>1 DEF ApplyAction

LEMMA ApplyEventSound ==
  ASSUME NEW b, Sound(b), NEW e, IsEvent(e)
  PROVE  Sound(ApplyEvent(b, e))
<1>1. ASSUME NEW c, Sound(c) PROVE Sound(FinishGroup(c, e)) /\ Sound(WarnIfComplete(c))
  <2>1. Same(c, FinishGroup(c, e))
    BY <1>1, FinishSame DEF Sound
  <2> QED
    BY <1>1, <2>1, SameSound, WarnSound
<1>2. PICK seen, mine, v, same :
        /\ seen = ObservePhase(Remember(b, e), e) /\ mine = [seen EXCEPT !.primary = e.instrument]
        /\ v = ("LAST" \in e.flags) /\ same = [b EXCEPT !.consistent = v]
  OBVIOUS
<1>3. Sound(seen) /\ Sound(mine)
  <2>1. Same(b, [ObservePhase(Remember(b, e), e) EXCEPT !.primary = e.instrument])
        /\ Same(b, ObservePhase(Remember(b, e), e))
    BY SeenSame DEF Sound
  <2>2. Same(b, seen) /\ Same(b, mine)
    BY <1>2, <2>1
  <2> QED
    BY <2>2, SameSound
<1>4. Sound(same)
  BY <1>2 DEF Sound, Agrees, IsBook, BookFields
<1>5. Sound(FinishGroup(ApplyAction(mine, e), e))
  <2>1. Sound(ApplyAction(mine, e))
    BY <1>3, ApplyActionSound
  <2> QED
    BY <2>1, <1>1
<1>6. Sound(FinishGroup(WarnIfComplete(seen), e))
  BY <1>1, <1>3
<1>7. ApplyEvent(b, e) \in {same, FinishGroup(ApplyAction(mine, e), e), FinishGroup(WarnIfComplete(seen), e)}
  BY <1>2 DEF ApplyEvent
<1> QED
  BY <1>4, <1>5, <1>6, <1>7

LEMMA EmptySound == Sound(EmptyBook)
<1>1. DOMAIN <<>> = {} /\ IsFiniteSet({})
  BY FS_EmptySet
<1>2. IsOrders(<<>>)
  BY <1>1 DEF IsOrders
<1>3. \A s \in Sides : Occupied(<<>>, s) = {}
  BY <1>1 DEF Occupied, Resting
<1>4. LevelsOf(<<>>) = [s \in Sides |-> <<>>]
  BY <1>3 DEF LevelsOf
<1>5. IdsOf(<<>>) = [s \in Sides |-> {}]
  BY <1>1 DEF IdsOf
<1>6. PICK ls, is : ls = [s \in Sides |-> <<>>] /\ is = [s \in Sides |-> {}]
  OBVIOUS
<1>7. EmptyBook.orders = <<>> /\ EmptyBook.levels = ls /\ EmptyBook.sideIds = is /\ EmptyBook.negative = 0
  BY <1>6 DEF EmptyBook
<1>8. IsBook(EmptyBook)
  BY DEF EmptyBook, IsBook, BookFields
<1> QED
  BY <1>2, <1>4, <1>5, <1>6, <1>7, <1>8 DEF Sound, Agrees

\* Whatever events arrive, the levels that dbn_reader keeps incrementally (add, cancel in
\* part or whole, modify, clear, clear of a side by a top-of-book order) are those its
\* resting orders make, a side's ids are its orders, and no level is found missing or
\* negative.  The invariant, Sound, adds that the orders are finitely many, each with a
\* side, a defined price and a positive size: a level with an order is never dropped
\* for a total of zero, and one without is never kept.
THEOREM LevelsAreAggregates == BookSpec => []LevelsAggregateOrders
<1>1. BookInit => Sound(book)
  BY EmptySound DEF BookInit
<1>2. Sound(book) /\ [BookNext]_book => Sound(book)'
  <2> SUFFICES ASSUME Sound(book), [BookNext]_book PROVE Sound(book')
    OBVIOUS
  <2>1. CASE UNCHANGED book
    BY <2>1
  <2>2. CASE BookNext
    <3>1. PICK e \in Events : book' = ApplyEvent(book, e)
      BY <2>2 DEF BookNext, Receive
    <3>2. IsEvent(e)
      BY BookAssumption
    <3> QED
      BY <3>1, <3>2, ApplyEventSound
  <2> QED
    BY <2>1, <2>2
<1>3. Sound(book) => LevelsAggregateOrders
  BY DEF Sound, Agrees, LevelsAggregateOrders
<1> QED
  BY <1>1, <1>2, <1>3, PTL DEF BookSpec

-----------------------------------------------------------------------------
(* The backtester: one pass for all groups against one pass per group.     *)

IsRun(r) == r = [waiting |-> r.waiting, active |-> r.active, trades |-> r.trades, list |-> r.list]

\* Unless a group is in a position, whatever it has waiting is looked at.
Watched(m) == \A g \in Groups \ m.waitingGroups :
                m.runs[g].active # <<>> \/ m.runs[g].waiting = <<>>

RunsOf(m) == m.runs = [g \in Groups |-> m.runs[g]] /\ \A g \in Groups : IsRun(m.runs[g])

\* A run whose due intents have been queued.
Queued(r, e) == [r EXCEPT !.waiting = @ \o NewlyDue(r.list, e), !.list = NotDue(@, e)]

LEMMA QueuedIsRun ==
  ASSUME NEW r, NEW e, IsRun(r)
  PROVE  /\ IsRun(Queued(r, e)) /\ Queued(r, e).active = r.active
         /\ Queued(r, e).waiting = r.waiting \o NewlyDue(r.list, e)
<1>1. PICK w, l : w = r.waiting \o NewlyDue(r.list, e) /\ l = NotDue(r.list, e)
  OBVIOUS
<1>2. Queued(r, e) = [r EXCEPT !.waiting = w, !.list = l]
  BY <1>1 DEF Queued
<1>3. Queued(r, e) = [waiting |-> w, active |-> r.active, trades |-> r.trades, list |-> l]
  BY <1>2 DEF IsRun
<1> QED
  BY <1>1, <1>3 DEF IsRun

\* A trade closes the position or leaves it open, and queues nothing.
LEMMA ExitIsRun ==
  ASSUME NEW r, NEW e, IsRun(r)
  PROVE  /\ IsRun(TryExit(r, e)) /\ TryExit(r, e).waiting = r.waiting
         /\ TryExit(r, e).active = <<>> <=> r.active = <<>> \/ Leaves(r, e)
<1>1. CASE e.action # "T" \/ r.active = <<>>
  BY <1>1 DEF TryExit, Leaves
<1>2. CASE e.action = "T" /\ r.active # <<>> /\ Leaves(r, e)
  <2>1. PICK t : t = Append(r.trades, ExitTrade(r.active[1], e))
    OBVIOUS
  <2>2. TryExit(r, e) = [r EXCEPT !.active = <<>>, !.trades = t]
    BY <1>2, <2>1 DEF TryExit
  <2>3. TryExit(r, e) = [waiting |-> r.waiting, active |-> <<>>, trades |-> t, list |-> r.list]
    BY <2>2 DEF IsRun
  <2> QED
    BY <1>2, <2>3 DEF IsRun
<1>3. CASE e.action = "T" /\ r.active # <<>> /\ ~Leaves(r, e)
  <2>1. PICK p : p = Marked(r.active[1], e)
    OBVIOUS
  <2>2. TryExit(r, e) = [r EXCEPT !.active = <<p>>]
    BY <1>3, <2>1 DEF TryExit
  <2>3. TryExit(r, e) = [waiting |-> r.waiting, active |-> <<p>>, trades |-> r.trades, list |-> r.list]
    BY <2>2 DEF IsRun
  <2> QED
    BY <1>3, <2>3 DEF IsRun
<1> QED
  BY <1>1, <1>2, <1>3

LEMMA EnteredIsRun ==
  ASSUME NEW r, NEW w, NEW p, IsRun(r)
  PROVE  IsRun([r EXCEPT !.waiting = w, !.active = p])
<1>1. PICK x : x = [r EXCEPT !.waiting = w]
  OBVIOUS
<1>2. x = [waiting |-> w, active |-> r.active, trades |-> r.trades, list |-> r.list]
  BY <1>1 DEF IsRun
<1>3. [x EXCEPT !.active = p] = [waiting |-> w, active |-> p, trades |-> r.trades, list |-> r.list]
  BY <1>2
<1> QED
  BY <1>1, <1>3 DEF IsRun

\* Nobody enters who has a position or nothing waiting.
LEMMA EnterIsRun ==
  ASSUME NEW r, NEW b, NEW e, IsRun(r)
  PROVE  /\ IsRun(TryEnter(r, b, e))
         /\ r.active # <<>> \/ r.waiting = <<>> => TryEnter(r, b, e) = r
<1>1. CASE r.active # <<>>
  BY <1>1 DEF TryEnter
<1>2. CASE r.active = <<>>
  <2> DEFINE valid == SelectInSeq(r.waiting, LAMBDA i : ~Expired(i, e))
             queue == IF valid = 0 THEN <<>> ELSE SubSeq(r.waiting, valid, Len(r.waiting))
             entered == Enter(Head(queue), b, e)
  <2>1. TryEnter(r, b, e) = IF queue = <<>> \/ ~Fillable(b) THEN [r EXCEPT !.waiting = queue]
                            ELSE [r EXCEPT !.waiting = Tail(queue), !.active = <<entered>>]
    BY <1>2 DEF TryEnter
  <2>2. r.waiting = <<>> => queue = <<>>
    <3>1. r.waiting = <<>> => valid = 0
      BY DEF SelectInSeq
    <3> QED
      BY <3>1
  <2> HIDE DEF valid, queue, entered
  <2>3. r.waiting = <<>> => TryEnter(r, b, e) = r
    BY <2>1, <2>2 DEF IsRun
  <2>4. IsRun([r EXCEPT !.waiting = queue])
    BY DEF IsRun
  <2>5. IsRun([r EXCEPT !.waiting = Tail(queue), !.active = <<entered>>])
    <3>1. PICK t, p : t = Tail(queue) /\ p = <<entered>>
      OBVIOUS
    <3>2. IsRun([r EXCEPT !.waiting = t, !.active = p])
      BY EnteredIsRun
    <3> QED
      BY <3>1, <3>2
  <2>6. IsRun(TryEnter(r, b, e))
    <3>1. CASE queue = <<>> \/ ~Fillable(b)
      BY <2>1, <2>4, <3>1, Zenon
    <3>2. CASE ~(queue = <<>> \/ ~Fillable(b))
      BY <2>1, <2>5, <3>2, Zenon
    <3> QED
      BY <3>1, <3>2
  <2> QED
    BY <1>2, <2>3, <2>6
<1> QED
  BY <1>1, <1>2

\* One event: each group fares as it would alone, and those that are not watched
\* still have nothing to wait for.
LEMMA GroupsStepAlone ==
  ASSUME NEW m, NEW b, NEW e, RunsOf(m), Watched(m)
  PROVE  /\ GroupsStep(m, b, e) = [runs |-> [g \in Groups |-> AloneStep(m.runs[g], b, e)],
                                   waitingGroups |-> GroupsStep(m, b, e).waitingGroups]
         /\ RunsOf(GroupsStep(m, b, e)) /\ Watched(GroupsStep(m, b, e))
<1> DEFINE q == QueueDue(m, e)
           x == ExitGroups(q, e)
           n == EnterGroups(x, b, e)
<1>1. /\ q.runs = [g \in Groups |-> Queued(m.runs[g], e)]
      /\ \A g \in Groups : g \notin q.waitingGroups =>
           /\ g \notin m.waitingGroups
           /\ NewlyDue(m.runs[g].list, e) = <<>> \/ m.runs[g].active # <<>>
  BY DEF QueueDue, Queued
<1>2. /\ x.runs = [g \in Groups |-> TryExit(q.runs[g], e)]
      /\ \A g \in Groups : g \notin x.waitingGroups =>
           /\ g \notin q.waitingGroups
           /\ ~Leaves(q.runs[g], e) \/ q.runs[g].waiting = <<>>
  BY DEF ExitGroups
<1>3. /\ n.runs = [g \in Groups |-> IF g \in x.waitingGroups THEN TryEnter(x.runs[g], b, e) ELSE x.runs[g]]
      /\ \A g \in Groups : g \notin n.waitingGroups =>
           \/ g \notin x.waitingGroups
           \/ n.runs[g].waiting = <<>> \/ n.runs[g].active # <<>>
      /\ n = [runs |-> n.runs, waitingGroups |-> n.waitingGroups]
  BY DEF EnterGroups
<1>4. GroupsStep(m, b, e) = n
  BY DEF GroupsStep
<1> HIDE DEF q, x, n
<1>5. ASSUME NEW g \in Groups
      PROVE  /\ n.runs[g] = AloneStep(m.runs[g], b, e) /\ IsRun(n.runs[g])
             /\ g \notin n.waitingGroups => n.runs[g].active # <<>> \/ n.runs[g].waiting = <<>>
  <2>0. PICK rm, rq, rx : rm = m.runs[g] /\ rq = Queued(rm, e) /\ rx = TryExit(rq, e)
    OBVIOUS
  <2>1. IsRun(rm) /\ q.runs[g] = rq /\ x.runs[g] = rx
    BY <1>1, <1>2, <2>0 DEF RunsOf
  <2>2. IsRun(rq) /\ rq.active = rm.active /\ rq.waiting = rm.waiting \o NewlyDue(rm.list, e)
    <3>1. /\ IsRun(Queued(rm, e)) /\ Queued(rm, e).active = rm.active
          /\ Queued(rm, e).waiting = rm.waiting \o NewlyDue(rm.list, e)
      BY <2>1, QueuedIsRun
    <3> QED
      BY <2>0, <3>1
  <2>3. IsRun(rx) /\ rx.waiting = rq.waiting /\ (rx.active = <<>> <=> rq.active = <<>> \/ Leaves(rq, e))
    BY <2>0, <2>2, ExitIsRun
  <2>4. AloneStep(m.runs[g], b, e) = TryEnter(rx, b, e)
    BY <2>0 DEF AloneStep, Queued
  <2>5. g \notin x.waitingGroups => rx.active # <<>> \/ rx.waiting = <<>>
    <3> SUFFICES ASSUME g \notin x.waitingGroups, rx.active = <<>>
                 PROVE  rq.waiting = <<>>
      BY <2>3
    <3>1. g \notin q.waitingGroups /\ (~Leaves(rq, e) \/ rq.waiting = <<>>)
      BY <1>2, <2>1
    <3>2. ASSUME ~Leaves(rq, e) PROVE rq.waiting = <<>>
      <4>1. rm.active = <<>>
        BY <2>2, <2>3, <3>2
      <4>2. g \notin m.waitingGroups /\ NewlyDue(rm.list, e) = <<>>
        BY <1>1, <2>0, <3>1, <4>1
      <4>3. rm.waiting = <<>>
        BY <2>0, <4>1, <4>2 DEF Watched
      <4>4. <<>> \o <<>> = <<>>
        OBVIOUS
      <4> QED
        BY <2>2, <4>2, <4>3, <4>4
    <3> QED
      BY <3>1, <3>2
  <2>6. IsRun(TryEnter(rx, b, e)) /\ (rx.active # <<>> \/ rx.waiting = <<>> => TryEnter(rx, b, e) = rx)
    BY <2>3, EnterIsRun
  <2>7. n.runs[g] = IF g \in x.waitingGroups THEN TryEnter(rx, b, e) ELSE rx
    BY <1>3, <2>1
  <2>8. CASE g \in x.waitingGroups
    BY <1>3, <2>4, <2>6, <2>7, <2>8
  <2>9. CASE g \notin x.waitingGroups
    BY <2>3, <2>4, <2>5, <2>6, <2>7, <2>9
  <2> QED
    BY <2>8, <2>9
<1>6. n.runs = [g \in Groups |-> AloneStep(m.runs[g], b, e)]
  BY <1>3, <1>5
<1> QED
  BY <1>3, <1>4, <1>5, <1>6 DEF RunsOf, Watched

-----------------------------------------------------------------------------
\* The inductive invariant: while the gate runs nobody is forgotten.
GroupsInv ==
  /\ grouped = [runs |-> alone, waitingGroups |-> grouped.waitingGroups]
  /\ RunsOf(grouped)
  /\ stage = "gate" => Watched(grouped)

LEMMA StartedRuns ==
  ASSUME NEW lists
  PROVE  /\ RunsOf([runs |-> Started(lists), waitingGroups |-> {}])
         /\ Watched([runs |-> Started(lists), waitingGroups |-> {}])
BY DEF Started, RunsOf, Watched, IsRun

\* What is open at the end is closed for all alike.
LEMMA ClosedIsRun ==
  ASSUME NEW r, IsRun(r)
  PROVE  IsRun(CloseOpen(r))
<1>1. CASE r.active = <<>>
  BY <1>1 DEF CloseOpen
<1>2. CASE r.active # <<>>
  <2>1. PICK t : t = Append(r.trades, EndTrade(r.active[1], tape[Len(tape)]))
    OBVIOUS
  <2>2. CloseOpen(r) = [r EXCEPT !.active = <<>>, !.trades = t]
    BY <1>2, <2>1 DEF CloseOpen
  <2>3. CloseOpen(r) = [waiting |-> r.waiting, active |-> <<>>, trades |-> t, list |-> r.list]
    BY <2>2 DEF IsRun
  <2> QED
    BY <2>3 DEF IsRun
<1> QED
  BY <1>1, <1>2

\* All groups in one pass fare exactly as each would alone (GroupsRunAlone), for
\* every file, every set of groups and all their intents.
THEOREM GroupsFareAlone == SessionSpec => []GroupsRunAlone
<1>1. SessionInit => GroupsInv
  <2> SUFFICES ASSUME SessionInit PROVE GroupsInv
    OBVIOUS
  <2>1. alone = Started(intents) /\ grouped = [runs |-> Started(intents), waitingGroups |-> {}]
    BY DEF SessionInit
  <2> QED
    BY <2>1, StartedRuns DEF GroupsInv
<1>2. GroupsInv /\ [SessionNext]_<<book, backtestVars, sessionVars>> => GroupsInv'
  <2> SUFFICES ASSUME GroupsInv, [SessionNext]_<<book, backtestVars, sessionVars>>
               PROVE  GroupsInv'
    OBVIOUS
  <2>1. CASE ScanEvent
    <3>1. alone' = alone /\ grouped' = grouped /\ stage' # "gate"
      BY <2>1 DEF ScanEvent
    <3> QED
      BY <3>1 DEF GroupsInv, RunsOf
  <2>2. CASE EndOfScan
    <3>1. alone' = Started(intents') /\ grouped' = [runs |-> Started(intents'), waitingGroups |-> {}]
      BY <2>2 DEF EndOfScan
    <3>2. PICK lists : lists = intents'
      OBVIOUS
    <3>3. alone' = Started(lists) /\ grouped' = [runs |-> Started(lists), waitingGroups |-> {}]
      BY <3>1, <3>2
    <3>4. RunsOf(grouped') /\ Watched(grouped')
      BY <3>3, StartedRuns
    <3> QED
      BY <3>3, <3>4 DEF GroupsInv
  <2>3. CASE GateEvent
    <3>1. PICK e, b : /\ alone' = [g \in Groups |-> AloneStep(alone[g], b, e)]
                      /\ grouped' = GroupsStep(grouped, b, e)
      BY <2>3 DEF GateEvent, BacktestEvent
    <3>2. RunsOf(grouped) /\ Watched(grouped) /\ grouped.runs = alone
      BY <2>3 DEF GateEvent, GroupsInv
    <3>3. PICK m : m = GroupsStep(grouped, b, e)
      OBVIOUS
    <3>4. /\ m = [runs |-> [g \in Groups |-> AloneStep(alone[g], b, e)], waitingGroups |-> m.waitingGroups]
          /\ RunsOf(m) /\ Watched(m)
      BY <3>2, <3>3, GroupsStepAlone
    <3> QED
      BY <3>1, <3>3, <3>4 DEF GroupsInv
  <2>4. CASE EndOfGate
    <3>1. /\ stage' = "done" /\ alone' = [g \in Groups |-> CloseOpen(alone[g])]
          /\ grouped' = [grouped EXCEPT !.runs = [g \in Groups |-> CloseOpen(@[g])]]
      BY <2>4 DEF EndOfGate, EndOfBacktest
    <3>2. PICK runs : runs = [g \in Groups |-> CloseOpen(alone[g])]
      OBVIOUS
    <3>3. grouped.runs = alone /\ \A g \in Groups : IsRun(alone[g])
      BY DEF GroupsInv, RunsOf
    <3>4. alone' = runs /\ grouped' = [grouped EXCEPT !.runs = runs]
      BY <3>1, <3>2, <3>3
    <3>5. grouped' = [runs |-> runs, waitingGroups |-> grouped.waitingGroups]
      BY <3>4 DEF GroupsInv
    <3>6. runs = [g \in Groups |-> runs[g]] /\ \A g \in Groups : IsRun(runs[g])
      BY <3>2, <3>3, ClosedIsRun
    <3> QED
      BY <3>1, <3>4, <3>5, <3>6 DEF GroupsInv, RunsOf
  <2>5. CASE GateFails
    <3>1. alone' = alone /\ grouped' = grouped /\ stage' # "gate"
      BY <2>5 DEF GateFails, OutOfOrder, backtestVars
    <3> QED
      BY <3>1 DEF GroupsInv, RunsOf
  <2>6. CASE UNCHANGED <<book, backtestVars, sessionVars>>
    BY <2>6 DEF backtestVars, sessionVars, GroupsInv, RunsOf, Watched
  <2> QED
    BY <2>1, <2>2, <2>3, <2>4, <2>5, <2>6 DEF SessionNext
<1>3. GroupsInv => GroupsRunAlone
  BY DEF GroupsInv, GroupsRunAlone
<1> QED
  BY <1>1, <1>2, <1>3, PTL DEF SessionSpec
-----------------------------------------------------------------------------
(* The book behind the first events of a file.                             *)

Books(s, n, f) == f = [k \in 0 .. n |-> IF k = 0 THEN EmptyBook ELSE ApplyEvent(f[k - 1], s[k])]

LEMMA NextBooks ==
  ASSUME NEW s, NEW n \in Nat, NEW f, Books(s, n, f)
  PROVE  \E g : Books(s, n + 1, g)
<1> DEFINE g == [k \in 0 .. n + 1 |-> IF k = 0 THEN EmptyBook ELSE ApplyEvent(f[k - 1], s[k])]
<1>1. \A k \in 0 .. n : g[k] = f[k]
  BY DEF Books
<1>2. \A k \in 0 .. n + 1 : k # 0 => k - 1 \in 0 .. n /\ g[k - 1] = f[k - 1]
  BY <1>1
<1>3. g = [k \in 0 .. n + 1 |-> IF k = 0 THEN EmptyBook ELSE ApplyEvent(g[k - 1], s[k])]
  BY <1>2
<1> QED
  BY <1>3 DEF Books

LEMMA BooksExist ==
  ASSUME NEW s, NEW n \in Nat
  PROVE  \E f : Books(s, n, f)
<1> DEFINE Missing == {m \in Nat : ~ \E f : Books(s, m, f)}
<1> SUFFICES ASSUME Missing # {} PROVE FALSE
  OBVIOUS
<1>1. PICK m \in Missing : \A k \in Missing : m <= k
  BY LeastNatural
<1>2. CASE m = 0
  <2>1. Books(s, 0, [k \in 0 .. 0 |-> EmptyBook])
    BY DEF Books
  <2> QED
    BY <1>2, <2>1
<1>3. CASE m # 0
  <2>1. m - 1 \in Nat /\ m - 1 \notin Missing /\ (m - 1) + 1 = m
    BY <1>1, <1>3
  <2>2. \E f : Books(s, m - 1, f)
    BY <2>1
  <2>3. \E f : Books(s, (m - 1) + 1, f)
    BY <2>1, <2>2, NextBooks
  <2> QED
    BY <2>1, <2>3
<1> QED
  BY <1>2, <1>3

\* The books of a longer file begin with those of a shorter one.
LEMMA BooksAgree ==
  ASSUME NEW s, NEW n \in Nat, NEW f, Books(s, n, f), NEW g, Books(s, n + 1, g)
  PROVE  \A k \in 0 .. n : f[k] = g[k]
<1> DEFINE Wrong == {k \in 0 .. n : f[k] # g[k]}
<1> SUFFICES ASSUME Wrong # {} PROVE FALSE
  OBVIOUS
<1>1. Wrong \subseteq Nat
  OBVIOUS
<1>2. PICK m \in Wrong : \A k \in Wrong : m <= k
  BY <1>1, LeastNatural
<1>3. m # 0
  BY <1>2 DEF Books
<1>4. m - 1 \in 0 .. n /\ m - 1 \notin Wrong
  BY <1>2, <1>3
<1>5. f[m - 1] = g[m - 1]
  BY <1>4
<1> HIDE DEF Wrong
<1>6. m \in 0 .. n
  BY <1>2 DEF Wrong
<1>7. f[m] = ApplyEvent(f[m - 1], s[m]) /\ g[m] = ApplyEvent(g[m - 1], s[m])
  BY <1>3, <1>6 DEF Books
<1> QED
  BY <1>2, <1>5, <1>7 DEF Wrong

LEMMA BookIsLast ==
  ASSUME NEW s, NEW n \in Nat
  PROVE  \E f : Books(s, n, f) /\ BookAfter(s, n) = f[n]
<1> DEFINE books == CHOOSE f : f = [k \in 0 .. n |-> IF k = 0 THEN EmptyBook
                                                     ELSE ApplyEvent(f[k - 1], s[k])]
<1>1. BookAfter(s, n) = books[n]
  BY DEF BookAfter
<1>2. PICK f : f = [k \in 0 .. n |-> IF k = 0 THEN EmptyBook ELSE ApplyEvent(f[k - 1], s[k])]
  BY BooksExist DEF Books
<1>3. books = [k \in 0 .. n |-> IF k = 0 THEN EmptyBook ELSE ApplyEvent(books[k - 1], s[k])]
  BY <1>2
<1> QED
  BY <1>1, <1>3 DEF Books

\* The book behind one event more is the book with this event applied.
LEMMA BookStep ==
  ASSUME NEW s, NEW n \in Nat
  PROVE  /\ BookAfter(s, 0) = EmptyBook
         /\ BookAfter(s, n + 1) = ApplyEvent(BookAfter(s, n), s[n + 1])
<1>1. BookAfter(s, 0) = EmptyBook
  BY BookIsLast DEF Books
<1>2. PICK f : Books(s, n, f) /\ BookAfter(s, n) = f[n]
  BY BookIsLast
<1>3. n + 1 \in Nat
  OBVIOUS
<1>4. PICK g : Books(s, n + 1, g) /\ BookAfter(s, n + 1) = g[n + 1]
  BY <1>3, BookIsLast
<1>5. f[n] = g[n]
  BY <1>2, <1>4, BooksAgree
<1>6. g[n + 1] = ApplyEvent(g[n], s[n + 1])
  <2>1. n + 1 \in 0 .. n + 1 /\ n + 1 # 0 /\ (n + 1) - 1 = n
    OBVIOUS
  <2>2. g[n + 1] = ApplyEvent(g[(n + 1) - 1], s[n + 1])
    BY <1>4, <2>1 DEF Books
  <2> QED
    BY <2>1, <2>2
<1> QED
  BY <1>1, <1>2, <1>4, <1>5, <1>6
-----------------------------------------------------------------------------
(* What a reference file holds.                                            *)

LEMMA BooksAreSound ==
  ASSUME NEW s, Len(s) \in Nat, \A k \in 1 .. Len(s) : IsEvent(s[k]), NEW n \in 0 .. Len(s)
  PROVE  Sound(BookAfter(s, n))
<1> DEFINE Bad == {k \in 0 .. Len(s) : ~Sound(BookAfter(s, k))}
<1> SUFFICES ASSUME Bad # {} PROVE FALSE
  OBVIOUS
<1>0. Len(s) \in Nat /\ \A k \in 1 .. Len(s) : IsEvent(s[k])
  OBVIOUS
<1>1. Bad \subseteq Nat
  BY <1>0
<1>2. PICK m \in Bad : \A k \in Bad : m <= k
  BY <1>1, LeastNatural
<1>3. m # 0
  BY <1>2, BookStep, EmptySound
<1>4. m - 1 \in Nat /\ m - 1 \in 0 .. Len(s) /\ m - 1 \notin Bad /\ (m - 1) + 1 = m /\ m \in 1 .. Len(s)
  BY <1>0, <1>2, <1>3
<1>5. Sound(BookAfter(s, m - 1))
  BY <1>4
<1>6. BookAfter(s, (m - 1) + 1) = ApplyEvent(BookAfter(s, m - 1), s[(m - 1) + 1])
  BY <1>4, BookStep
<1>7. Sound(ApplyEvent(BookAfter(s, m - 1), s[m]))
  BY <1>0, <1>4, <1>5, ApplyEventSound
<1>8. Sound(BookAfter(s, m))
  BY <1>4, <1>6, <1>7
<1> QED
  BY <1>2, <1>8

IsKey(k) == k \in Int \X Int \X Int

IsLevel(l) == l = [price |-> l.price, count |-> l.count, total |-> l.total]

IsTop(t) ==
  /\ t = [s \in Sides |-> t[s]]
  /\ \A s \in Sides : /\ t[s] = [k \in 1 .. TopDepth |-> t[s][k]]
                      /\ \A k \in 1 .. TopDepth : IsLevel(t[s][k])

LEMMA TopIsTop ==
  ASSUME NEW b, Sound(b)
  PROVE  IsTop(TopOf(b))
<1>1. ASSUME NEW s \in Sides, NEW k \in 1 .. TopDepth
      PROVE  IsLevel(TopOf(b)[s][k])
  <2>1. PICK n : n = Cardinality(DOMAIN b.levels[s])
    OBVIOUS
  <2>2. n \in Nat
    <3>1. DOMAIN b.levels[s] = Occupied(b.orders, s)
      BY DEF Sound, Agrees, LevelsOf
    <3>2. IsFiniteSet(DOMAIN b.orders)
      BY DEF Sound, IsOrders
    <3>3. IsFiniteSet(Occupied(b.orders, s))
      <4> DEFINE f == [id \in DOMAIN b.orders |-> b.orders[id].price]
      <4>1. f \in Surjection(DOMAIN b.orders, {f[id] : id \in DOMAIN b.orders})
        BY DEF Surjection
      <4>2. IsFiniteSet({f[id] : id \in DOMAIN b.orders})
        BY <3>2, <4>1, FS_Surjection
      <4>3. Occupied(b.orders, s) \subseteq {f[id] : id \in DOMAIN b.orders}
        BY DEF Occupied, Resting
      <4> QED
        BY <4>2, <4>3, FS_Subset
    <3> QED
      BY <2>1, <3>1, <3>3, FS_CardinalityType
  <2>3. PICK m : m = Min({TopDepth, n})
    OBVIOUS
  <2>4. m \in Nat
    BY <2>2, <2>3, LesserOfTwo, VerificationAssumption
  <2>5. /\ DOMAIN Depth(b, s, TopDepth) = 1 .. m
        /\ \A j \in 1 .. m : IsLevel(Depth(b, s, TopDepth)[j])
    BY <2>1, <2>3 DEF Depth, IsLevel
  <2>6. Len(Depth(b, s, TopDepth)) = m
    BY <2>4, <2>5
  <2>7. TopOf(b)[s][k] = IF k <= m THEN Depth(b, s, TopDepth)[k] ELSE EmptyLevel
    BY <2>6 DEF TopOf, Pad, Snapshot
  <2>8. k <= m => k \in 1 .. m
    BY <2>4, VerificationAssumption
  <2>9. IsLevel(EmptyLevel)
    BY DEF IsLevel, EmptyLevel
  <2> QED
    BY <2>5, <2>7, <2>8, <2>9
<1>2. TopOf(b) = [s \in Sides |-> TopOf(b)[s]]
  BY DEF TopOf
<1>3. \A s \in Sides : TopOf(b)[s] = [k \in 1 .. TopDepth |-> TopOf(b)[s][k]]
  BY DEF TopOf, Pad
<1> QED
  BY <1>1, <1>2, <1>3 DEF IsTop

IsReference(f) ==
  /\ IsFiniteSet(DOMAIN f) /\ DOMAIN f \subseteq Nat
  /\ \A i \in DOMAIN f : IsKey(f[i].key) /\ IsTop(f[i].top)

LEMMA StatesAreTyped ==
  ASSUME NEW s \in MboFiles, NEW n \in 1 .. Len(s)
  PROVE  /\ IsKey(StateAt(s, n).key) /\ StateAt(s, n).key = Key(s[n])
         /\ StateAt(s, n).key = <<s[n].instrument, s[n].seq, s[n].ts>>
         /\ {s[n].instrument, s[n].seq, s[n].ts} \subseteq Nat
         /\ IsTop(StateAt(s, n).top) /\ IsTop(TopOf(BookAfter(s, n - 1)))
<1>1. /\ IsEvent(s[n]) /\ s[n].ts \in Nat /\ s[n].instrument \in Nat /\ Len(s) \in Nat
  BY VerificationAssumption
<1>2. n \in 0 .. Len(s) /\ n - 1 \in 0 .. Len(s)
  BY <1>1
<1>3. IsTop(TopOf(BookAfter(s, n))) /\ IsTop(TopOf(BookAfter(s, n - 1)))
  BY <1>2, BooksAreSound, TopIsTop, VerificationAssumption
<1>4. s[n].seq \in Nat
  BY <1>1 DEF IsEvent
<1> QED
  BY <1>1, <1>3, <1>4 DEF StateAt, Key, IsKey

LEMMA ReferencesAreTyped ==
  ASSUME NEW s \in MboFiles, NEW f \in MbpFiles(s)
  PROVE  IsReference(f)
<1>1. PICK given \in [GroupEnds(s) -> Deliveries] : f = Reference(s, given)
  BY DEF MbpFiles
<1>2. Len(s) \in Nat /\ GroupEnds(s) \subseteq 1 .. Len(s)
  BY VerificationAssumption DEF GroupEnds
<1>3. \A i \in DOMAIN f : /\ i \in 1 .. 2 * Len(s)
                          /\ \E n \in GroupEnds(s) : i \in {2 * n, 2 * n - 1}
  BY <1>1, <1>2 DEF Reference
<1>4. IsFiniteSet(DOMAIN f) /\ DOMAIN f \subseteq Nat
  <2>1. DOMAIN f \subseteq 1 .. 2 * Len(s)
    BY <1>3
  <2>2. IsFiniteSet(1 .. 2 * Len(s))
    BY <1>2, FS_Interval
  <2> QED
    BY <1>2, <2>1, <2>2, FS_Subset
<1>5. ASSUME NEW i \in DOMAIN f PROVE IsKey(f[i].key) /\ IsTop(f[i].top)
  <2>1. PICK n \in GroupEnds(s) : i \in {2 * n, 2 * n - 1}
    BY <1>3
  <2>2. n \in 1 .. Len(s) /\ (i + 1) \div 2 = n
    BY <1>2, <2>1
  <2>3. PICK st, old : st = StateAt(s, n) /\ old = TopOf(BookAfter(s, n - 1))
    OBVIOUS
  <2>4. f[i] \in {[st EXCEPT !.key[3] = @ - 1], [st EXCEPT !.flags = {}], [st EXCEPT !.top = old], st}
    BY <1>1, <2>2, <2>3 DEF Reference
  <2>5. /\ st = [key |-> st.key, top |-> st.top, flags |-> st.flags]
        /\ IsKey(st.key) /\ IsTop(st.top) /\ IsTop(old)
    BY <2>2, <2>3, StatesAreTyped DEF StateAt
  <2>6. PICK k : k = [st.key EXCEPT ![3] = @ - 1]
    OBVIOUS
  <2>7. IsKey(k)
    BY <2>5, <2>6 DEF IsKey
  <2>8. [st EXCEPT !.key[3] = @ - 1] = [st EXCEPT !.key = k]
    BY <2>6
  <2> QED
    BY <2>4, <2>5, <2>7, <2>8
<1> QED
  BY <1>4, <1>5 DEF IsReference
-----------------------------------------------------------------------------
(* One comparison.                                                         *)

LEMMA KeyOrder ==
  ASSUME NEW k, IsKey(k), NEW l, IsKey(l), NEW m, IsKey(m)
  PROVE  /\ ~KeyLess(k, l) /\ ~KeyLess(l, k) => k = l
         /\ KeyLess(k, l) /\ ~KeyLess(m, l) => KeyLess(k, m)
         /\ ~KeyLess(k, k) /\ (KeyLess(k, l) => ~KeyLess(l, k))
<1>1. ASSUME NEW a, IsKey(a), NEW c, IsKey(c)
      PROVE  KeyLess(a, c) <=> \/ a[1] < c[1]
                               \/ a[2] < c[2] /\ a[1] = c[1]
                               \/ a[3] < c[3] /\ a[1] = c[1] /\ a[2] = c[2]
  <2>1. (\E i \in 1 .. 3 : a[i] < c[i] /\ \A j \in 1 .. i - 1 : a[j] = c[j])
          <=> \/ a[1] < c[1] /\ \A j \in 1 .. 1 - 1 : a[j] = c[j]
              \/ a[2] < c[2] /\ \A j \in 1 .. 2 - 1 : a[j] = c[j]
              \/ a[3] < c[3] /\ \A j \in 1 .. 3 - 1 : a[j] = c[j]
    OBVIOUS
  <2>2. /\ \A j \in 1 .. 1 - 1 : a[j] = c[j]
        /\ (\A j \in 1 .. 2 - 1 : a[j] = c[j]) <=> a[1] = c[1]
        /\ (\A j \in 1 .. 3 - 1 : a[j] = c[j]) <=> a[1] = c[1] /\ a[2] = c[2]
    OBVIOUS
  <2> QED
    BY <2>1, <2>2 DEF KeyLess
<1>2. \A a, c : IsKey(a) /\ IsKey(c) =>
        (KeyLess(a, c) <=> \/ a[1] < c[1]
                           \/ a[2] < c[2] /\ a[1] = c[1]
                           \/ a[3] < c[3] /\ a[1] = c[1] /\ a[2] = c[2])
  BY <1>1
<1>3. \A a : IsKey(a) => a = <<a[1], a[2], a[3]>> /\ a[1] \in Int /\ a[2] \in Int /\ a[3] \in Int
  BY DEF IsKey
<1> QED
  BY <1>2, <1>3

LEMMA LeastPlace ==
  ASSUME NEW S \in SUBSET Nat, S # {}
  PROVE  Min(S) \in S /\ \A i \in S : Min(S) <= i
<1>1. \E m \in S : \A n \in S : m <= n
  BY LeastNatural
<1> QED
  BY <1>1 DEF Min

IsResult(r) ==
  /\ r = [compared |-> r.compared, mismatches |-> r.mismatches, beforeReady |-> r.beforeReady,
          unmatched |-> r.unmatched, withoutReference |-> r.withoutReference, warnings |-> r.warnings]
  /\ r.compared \in Nat /\ r.mismatches \in Nat /\ r.beforeReady \in Nat
  /\ r.unmatched \in Nat /\ r.withoutReference \in Nat

\* What a comparison of group end e skips, consumes and counts.
Skips(e, earlier) ==
  /\ earlier \in SUBSET refs /\ IsFiniteSet(earlier)
  /\ \A i \in earlier : KeyLess(mbpFile[i].key, Key(e)) /\ \A j \in refs : j <= i => j \in earlier
  /\ IF started THEN /\ result'.beforeReady = result.beforeReady
                     /\ result'.unmatched = result.unmatched + Cardinality(earlier)
     ELSE /\ result'.beforeReady = result.beforeReady + Cardinality(earlier)
          /\ result'.unmatched = result.unmatched

Compares(b, e, i, earlier) ==
  /\ i \in refs \ earlier /\ \A j \in refs \ earlier : i <= j
  /\ mbpFile[i].key = Key(e)
  /\ refs' = (refs \ earlier) \ {i}
  /\ result'.compared = result.compared + 1
  /\ IF Mismatches(mbpFile[i].top, TopOf(b)) # {}
     THEN result'.mismatches = result.mismatches + 1 ELSE result'.mismatches = result.mismatches

\* Or no reference state of the key is left.
Misses(e, earlier) ==
  \A i \in refs \ earlier : (\A j \in refs \ earlier : i <= j) => KeyLess(Key(e), mbpFile[i].key)

LEMMA CompareParts ==
  ASSUME IsReference(mbpFile), refs \subseteq States(mbpFile), IsResult(result),
         NEW b, NEW e, IsKey(Key(e)), Compare(b, e)
  PROVE  /\ started' = TRUE /\ IsResult(result') /\ result'.warnings = result.warnings
         /\ \E earlier : /\ Skips(e, earlier)
                         /\ \/ /\ refs' = refs \ earlier /\ result'.compared = result.compared
                               /\ result'.mismatches = result.mismatches /\ Misses(e, earlier)
                            \/ \E i : Compares(b, e, i, earlier)
<1> DEFINE E == Earlier(refs, e)  rest == refs \ E
<1>0. refs \subseteq Nat /\ refs \subseteq DOMAIN mbpFile /\ IsFiniteSet(refs)
  BY FS_Subset DEF IsReference, States
<1>1. E \subseteq refs /\ IsFiniteSet(E) /\ Cardinality(E) \in Nat
  BY <1>0, FS_Subset, FS_CardinalityType DEF Earlier
<1>2. \A i \in E : KeyLess(mbpFile[i].key, Key(e)) /\ \A j \in refs : j <= i => j \in E
  BY <1>0 DEF Earlier
<1>3. PICK sk : sk = SkipEarlier(result, Cardinality(E))
  OBVIOUS
<1>4. /\ IsResult(sk) /\ sk.compared = result.compared /\ sk.mismatches = result.mismatches
      /\ sk.warnings = result.warnings /\ sk.withoutReference = result.withoutReference
      /\ IF started THEN sk.beforeReady = result.beforeReady /\ sk.unmatched = result.unmatched + Cardinality(E)
         ELSE sk.beforeReady = result.beforeReady + Cardinality(E) /\ sk.unmatched = result.unmatched
  BY <1>1, <1>3 DEF SkipEarlier, IsResult
<1>5. PICK differs \in BOOLEAN : differs = (Mismatches(mbpFile[Min(rest)].top, TopOf(b)) # {})
  OBVIOUS
<1>6. CASE rest = {} \/ KeyLess(Key(e), mbpFile[Min(rest)].key)
  <2>1. /\ started' = TRUE /\ refs' = rest
        /\ result' = [sk EXCEPT !.withoutReference = @ + 1]
    BY <1>3, <1>6 DEF Compare
  <2>2. /\ IsResult(result') /\ result'.beforeReady = sk.beforeReady /\ result'.unmatched = sk.unmatched
        /\ result'.compared = sk.compared /\ result'.mismatches = sk.mismatches
        /\ result'.warnings = sk.warnings
    BY <1>4, <2>1 DEF IsResult
  <2>3. Skips(e, E)
    BY <1>1, <1>2, <1>4, <2>2 DEF Skips
  <2>4. Misses(e, E)
    <3>1. ASSUME NEW i \in rest, \A j \in rest : i <= j PROVE KeyLess(Key(e), mbpFile[i].key)
      <4>1. Min(rest) \in rest /\ Min(rest) \in Nat /\ i \in Nat /\ i <= Min(rest) /\ Min(rest) <= i
        BY <1>0, <3>1, LeastPlace
      <4>2. i = Min(rest)
        BY <4>1
      <4> QED
        BY <1>6, <3>1, <4>2
    <3> QED
      BY <3>1 DEF Misses
  <2> QED
    BY <1>4, <2>1, <2>2, <2>3, <2>4
<1>7. CASE rest # {} /\ ~KeyLess(Key(e), mbpFile[Min(rest)].key)
  <2>1. /\ started' = TRUE /\ refs' = rest \ {Min(rest)}
        /\ result' = [sk EXCEPT !.compared = @ + 1,
                                !.mismatches = IF differs THEN @ + 1 ELSE @]
    BY <1>3, <1>5, <1>7 DEF Compare
  <2>0. PICK m : m = IF differs THEN sk.mismatches + 1 ELSE sk.mismatches
    OBVIOUS
  <2>9. result' = [sk EXCEPT !.compared = @ + 1, !.mismatches = m]
    BY <2>0, <2>1
  <2>10. m \in Nat
    BY <1>4, <2>0 DEF IsResult
  <2>2. /\ IsResult(result') /\ result'.beforeReady = sk.beforeReady /\ result'.unmatched = sk.unmatched
        /\ result'.compared = sk.compared + 1 /\ result'.warnings = sk.warnings
        /\ result'.mismatches = m
    <3>1. PICK n : n = sk.compared + 1
      OBVIOUS
    <3>2. result' = [compared |-> n, mismatches |-> m, beforeReady |-> sk.beforeReady,
                     unmatched |-> sk.unmatched, withoutReference |-> sk.withoutReference,
                     warnings |-> sk.warnings]
      <4>1. result' = [[sk EXCEPT !.compared = n] EXCEPT !.mismatches = m]
        BY <2>9, <3>1
      <4>2. [sk EXCEPT !.compared = n] =
              [compared |-> n, mismatches |-> sk.mismatches, beforeReady |-> sk.beforeReady,
               unmatched |-> sk.unmatched, withoutReference |-> sk.withoutReference,
               warnings |-> sk.warnings]
        BY <1>4 DEF IsResult
      <4> QED
        BY ONLY <4>1, <4>2
    <3>3. /\ n \in Nat /\ sk.beforeReady \in Nat /\ sk.unmatched \in Nat
          /\ sk.withoutReference \in Nat
      BY <1>4, <3>1 DEF IsResult
    <3> QED
      BY ONLY <2>10, <3>1, <3>2, <3>3 DEF IsResult
  <2>3. Skips(e, E)
    BY <1>1, <1>2, <1>4, <2>2 DEF Skips
  <2>4. Min(rest) \in rest /\ \A j \in rest : Min(rest) <= j
    BY <1>0, <1>7, LeastPlace
  <2>5. ~KeyLess(mbpFile[Min(rest)].key, Key(e))
    <3>1. SUFFICES ASSUME KeyLess(mbpFile[Min(rest)].key, Key(e)) PROVE FALSE
      OBVIOUS
    <3>2. \A j \in refs : j <= Min(rest) /\ j # Min(rest) => j \in E
      <4>1. PICK k \in Nat : k = Min(rest)
        BY <1>0, <2>4
      <4>2. \A j \in rest : k <= j
        BY <2>4, <4>1
      <4>3. \A j \in refs : j \notin E => j \in rest /\ j \in Nat
        BY <1>0
      <4> HIDE DEF rest, E
      <4> QED
        BY <4>1, <4>2, <4>3
    <3>3. \A j \in refs : j <= Min(rest) => KeyLess(mbpFile[j].key, Key(e))
      BY <1>2, <3>1, <3>2
    <3>4. Min(rest) \in E
      BY <2>4, <3>3 DEF Earlier
    <3> QED
      BY <2>4, <3>4
  <2>6. mbpFile[Min(rest)].key = Key(e)
    <3>1. IsKey(mbpFile[Min(rest)].key)
      BY <1>0, <2>4 DEF IsReference
    <3> QED
      BY <1>7, <2>5, <3>1, KeyOrder
  <2>7. Compares(b, e, Min(rest), E)
    BY <1>4, <1>5, <2>0, <2>1, <2>2, <2>4, <2>6 DEF Compares
  <2> QED
    BY <1>4, <2>1, <2>2, <2>3, <2>7
<1> QED
  BY <1>6, <1>7
-----------------------------------------------------------------------------
(* Every reference state is counted.                                       *)

AllCounted == result.beforeReady + result.unmatched + result.compared + Cardinality(refs)
                = Cardinality(States(mbpFile))

CountInv ==
  /\ mboFile \in MboFiles /\ pos \in 0 .. Len(mboFile) /\ IsReference(mbpFile)
  /\ refs \subseteq States(mbpFile) /\ IsResult(result)
  /\ phase = "inspect" => result = NoResult /\ ~started
  /\ phase \in {"verify", "done"} => AllCounted
  /\ phase = "done" /\ started => refs = {}

LEMMA RefsAreFinite ==
  ASSUME IsReference(mbpFile), NEW S \in SUBSET States(mbpFile)
  PROVE  /\ IsFiniteSet(S) /\ Cardinality(S) \in Nat /\ S \subseteq Nat /\ S \subseteq DOMAIN mbpFile
         /\ IsFiniteSet(States(mbpFile)) /\ Cardinality(States(mbpFile)) \in Nat
<1>1. S \subseteq DOMAIN mbpFile /\ States(mbpFile) \subseteq DOMAIN mbpFile
  BY DEF States
<1>2. IsFiniteSet(S) /\ IsFiniteSet(States(mbpFile))
  BY <1>1, FS_Subset DEF IsReference
<1> QED
  BY <1>1, <1>2, FS_CardinalityType DEF IsReference

\* What is skipped and compared is what is consumed.
LEMMA CompareCounts ==
  ASSUME CountInv, AllCounted, NEW b, NEW e, IsKey(Key(e)), Compare(b, e), UNCHANGED mbpFile
  PROVE  AllCounted' /\ refs' \subseteq refs /\ IsResult(result')
<1>1. /\ IsReference(mbpFile) /\ refs \subseteq States(mbpFile) /\ IsResult(result)
  BY DEF CountInv
<1>2. /\ IsResult(result')
      /\ \E earlier : /\ Skips(e, earlier)
                      /\ \/ refs' = refs \ earlier /\ result'.compared = result.compared
                         \/ \E i : Compares(b, e, i, earlier)
  BY <1>1, CompareParts
<1>3. PICK E : /\ Skips(e, E)
               /\ \/ refs' = refs \ E /\ result'.compared = result.compared
                  \/ \E i : Compares(b, e, i, E)
  BY <1>2
<1>4. IsFiniteSet(refs) /\ Cardinality(refs) \in Nat /\ E \subseteq refs
  BY <1>1, <1>3, RefsAreFinite DEF Skips
<1>5. /\ IsFiniteSet(E) /\ Cardinality(E) \in Nat /\ IsFiniteSet(refs \ E) /\ Cardinality(refs \ E) \in Nat
      /\ Cardinality(refs) = Cardinality(E) + Cardinality(refs \ E)
  <2>1. IsFiniteSet(E) /\ IsFiniteSet(refs \ E)
    BY <1>4, FS_Subset
  <2>2. Cardinality(E \cup (refs \ E)) = Cardinality(E) + Cardinality(refs \ E) - Cardinality(E \cap (refs \ E))
    BY <2>1, FS_Union
  <2>3. Cardinality(E \cup (refs \ E)) = Cardinality(refs) /\ Cardinality(E \cap (refs \ E)) = 0
    <3>1. E \cup (refs \ E) = refs /\ E \cap (refs \ E) = {}
      BY <1>4
    <3> QED
      BY <3>1, FS_EmptySet
  <2>4. Cardinality(E) \in Nat /\ Cardinality(refs \ E) \in Nat
    BY <2>1, FS_CardinalityType
  <2> QED
    BY <2>1, <2>2, <2>3, <2>4
<1>6. /\ result'.beforeReady + result'.unmatched = result.beforeReady + result.unmatched + Cardinality(E)
      /\ result.beforeReady \in Nat /\ result.unmatched \in Nat /\ result.compared \in Nat
      /\ result'.beforeReady \in Nat /\ result'.unmatched \in Nat
  BY <1>1, <1>2, <1>3, <1>5 DEF Skips, IsResult
<1>7. result'.compared + Cardinality(refs') = result.compared + Cardinality(refs \ E) /\ refs' \subseteq refs
  <2>1. CASE refs' = refs \ E /\ result'.compared = result.compared
    BY <2>1
  <2>2. CASE \E i : Compares(b, e, i, E)
    <3>1. PICK i : Compares(b, e, i, E)
      BY <2>2
    <3>2. Cardinality(refs') = Cardinality(refs \ E) - 1 /\ result'.compared = result.compared + 1
          /\ refs' \subseteq refs
      BY <1>5, <3>1, FS_RemoveElement DEF Compares
    <3>3. Cardinality(refs \ E) \in Nat /\ result.compared \in Nat
      BY <1>5, <1>6
    <3> QED
      BY ONLY <3>2, <3>3
  <2> QED
    BY <1>3, <2>1, <2>2
<1>8. Cardinality(refs') \in Nat /\ result'.compared \in Nat
  <2>1. refs' \in SUBSET States(mbpFile)
    BY <1>1, <1>7
  <2> QED
    BY <1>1, <1>2, <2>1, RefsAreFinite DEF IsResult
<1> QED
  BY <1>2, <1>5, <1>6, <1>7, <1>8 DEF AllCounted

LEMMA ConcludeCounts ==
  ASSUME CountInv, AllCounted, NEW b, Conclude(b, result, refs), UNCHANGED <<mbpFile, started>>
  PROVE  /\ AllCounted' /\ refs' \subseteq refs /\ IsResult(result') /\ (started => refs' = {})
         /\ result'.compared = result.compared /\ result'.mismatches = result.mismatches
         /\ result'.beforeReady = result.beforeReady /\ result'.warnings = b.warnings
         /\ result'.unmatched = IF started THEN result.unmatched + Cardinality(refs) ELSE result.unmatched
<1>1. /\ IsReference(mbpFile) /\ refs \subseteq States(mbpFile) /\ IsResult(result)
  BY DEF CountInv
<1>2. Cardinality(refs) \in Nat /\ Cardinality({}) = 0
  BY <1>1, RefsAreFinite, FS_EmptySet
<1>3. PICK u : u = IF started THEN result.unmatched + Cardinality(refs) ELSE result.unmatched
  OBVIOUS
<1>4. u \in Nat
  BY <1>1, <1>2, <1>3 DEF IsResult
<1>5. result' = [compared |-> result.compared, mismatches |-> result.mismatches,
                 beforeReady |-> result.beforeReady, unmatched |-> u,
                 withoutReference |-> result.withoutReference, warnings |-> b.warnings]
  <2>1. result' = [[result EXCEPT !.unmatched = u] EXCEPT !.warnings = b.warnings]
    BY <1>3 DEF Conclude
  <2>2. [result EXCEPT !.unmatched = u] =
          [compared |-> result.compared, mismatches |-> result.mismatches,
           beforeReady |-> result.beforeReady, unmatched |-> u,
           withoutReference |-> result.withoutReference, warnings |-> result.warnings]
    BY <1>1 DEF IsResult
  <2> QED
    BY ONLY <2>1, <2>2
<1>6. IsResult(result')
  BY <1>1, <1>4, <1>5 DEF IsResult
<1>7. refs' = IF started THEN {} ELSE refs
  BY DEF Conclude
<1>8. AllCounted'
  BY <1>1, <1>2, <1>3, <1>5, <1>7 DEF AllCounted, IsResult
<1> QED
  BY <1>3, <1>5, <1>6, <1>7, <1>8

LEMMA EventKeys ==
  ASSUME NEW s \in MboFiles, NEW n \in 1 .. Len(s)
  PROVE  IsKey(Key(s[n])) /\ Len(s) \in Nat /\ IsEvent(s[n])
BY StatesAreTyped, VerificationAssumption DEF IsKey

LEMMA VerifyInitCounts ==
  ASSUME VerifyInit
  PROVE  CountInv
<1>1. mboFile \in MboFiles /\ IsReference(mbpFile)
  BY ReferencesAreTyped DEF VerifyInit
<1>2. IsResult(NoResult)
  BY DEF IsResult, NoResult
<1>3. 0 \in 0 .. Len(mboFile)
  BY <1>1, VerificationAssumption
<1> QED
  BY <1>1, <1>2, <1>3 DEF VerifyInit, CountInv

LEMMA VerifyStepCounts ==
  ASSUME CountInv, [VerifyNext]_vars
  PROVE  CountInv'
<1>1. /\ mboFile \in MboFiles /\ IsReference(mbpFile) /\ refs \subseteq States(mbpFile) /\ IsResult(result)
      /\ pos \in 0 .. Len(mboFile) /\ Len(mboFile) \in Nat
  BY VerificationAssumption DEF CountInv
<1>2. CASE UNCHANGED vars
  BY <1>2 DEF CountInv, AllCounted, vars, verifyVars
<1>3. CASE Inspect
  <2>1. /\ phase = "inspect" /\ UNCHANGED <<mboFile, mbpFile, pos, started, result>>
        /\ \/ phase' = "verify" /\ refs' = States(mbpFile)
           \/ phase' = "blocked" /\ refs' = refs
    BY <1>3 DEF Inspect
  <2>2. result = NoResult /\ ~started
    BY <2>1 DEF CountInv
  <2>3. Cardinality(States(mbpFile)) \in Nat
    BY <1>1, RefsAreFinite
  <2>4. phase' = "verify" => AllCounted'
    BY <2>1, <2>2, <2>3 DEF AllCounted, NoResult
  <2> QED
    BY <1>1, <2>1, <2>2, <2>4 DEF CountInv
<1>4. CASE ReadEvent
  <2>1. PICK e, b : /\ e = mboFile[pos + 1] /\ b = ApplyEvent(book, e)
                    /\ phase = "verify" /\ pos < Len(mboFile) /\ pos' = pos + 1
                    /\ UNCHANGED <<mboFile, mbpFile, window>>
                    /\ \/ UNCHANGED <<phase, refs, started, result>>
                       \/ Conclude(b, result, refs) /\ UNCHANGED started
                       \/ Compare(b, e) /\ UNCHANGED phase
    BY <1>4 DEF ReadEvent
  <2>2. AllCounted /\ pos + 1 \in 1 .. Len(mboFile) /\ pos + 1 \in 0 .. Len(mboFile) /\ IsKey(Key(e))
    BY <1>1, <2>1, EventKeys DEF CountInv
  <2>3. CASE UNCHANGED <<phase, refs, started, result>>
    BY <1>1, <2>1, <2>2, <2>3 DEF CountInv, AllCounted
  <2>4. CASE Conclude(b, result, refs) /\ UNCHANGED started
    <3>1. phase' = "done"
      BY <2>4 DEF Conclude
    <3> QED
      BY <1>1, <2>1, <2>2, <2>4, <3>1, ConcludeCounts DEF CountInv
  <2>5. CASE Compare(b, e) /\ UNCHANGED phase
    <3>1. AllCounted' /\ refs' \subseteq refs /\ IsResult(result')
      BY <2>1, <2>2, <2>5, CompareCounts
    <3> QED
      BY <1>1, <2>1, <2>2, <2>5, <3>1 DEF CountInv
  <2> QED
    BY <2>1, <2>3, <2>4, <2>5
<1>5. CASE EndOfFile
  <2>1. /\ phase = "verify" /\ phase' = "done" /\ Conclude(book, result, refs)
        /\ UNCHANGED <<mboFile, mbpFile, pos, started>>
    BY <1>5 DEF EndOfFile, Conclude
  <2>2. AllCounted
    BY <2>1 DEF CountInv
  <2> QED
    BY <1>1, <2>1, <2>2, ConcludeCounts DEF CountInv
<1> QED
  BY <1>2, <1>3, <1>4, <1>5 DEF VerifyNext

\* Whatever files, window and reference: each reference state that verify_streams meets
\* is counted as one before the comparison, as unmatched or as compared, and once it has
\* begun to compare none is left behind.
THEOREM ReferencesAreCounted == VerifySpec => []EveryReferenceCounted
<1>1. CountInv => EveryReferenceCounted
  BY DEF CountInv, AllCounted, EveryReferenceCounted
<1> QED
  BY <1>1, VerifyInitCounts, VerifyStepCounts, PTL DEF VerifySpec
-----------------------------------------------------------------------------
(* What orders do to a book leaves its phase and sequence numbers alone,   *)
(* and warnings are never taken back.                                      *)

Counts(b) == IsBook(b) /\ b.warnings \in Nat

Keeps(b, c) == /\ Counts(c) /\ b.warnings <= c.warnings
               /\ c.status = b.status /\ c.natural = b.natural /\ c.primary = b.primary

LEMMA KeepsSelf ==
  ASSUME NEW b, Counts(b)
  PROVE  Keeps(b, b)
BY DEF Keeps, Counts

LEMMA KeepsTwice ==
  ASSUME NEW b, Counts(b), NEW c, Keeps(b, c), NEW d, Keeps(c, d)
  PROVE  Keeps(b, d)
BY DEF Keeps, Counts

LEMMA KeepsContents ==
  ASSUME NEW b, Counts(b), NEW v
  PROVE  /\ Keeps(b, [b EXCEPT !.orders = v]) /\ Keeps(b, [b EXCEPT !.levels = v])
         /\ Keeps(b, [b EXCEPT !.sideIds = v]) /\ Keeps(b, [b EXCEPT !.negative = v])
         /\ Keeps(b, [b EXCEPT !.consistent = v]) /\ Keeps(b, [b EXCEPT !.window = v])
BY DEF Keeps, Counts, IsBook, BookFields

LEMMA KeepsWarn ==
  ASSUME NEW b, Counts(b)
  PROVE  Keeps(b, WarnIfComplete(b))
BY DEF Keeps, Counts, IsBook, BookFields, WarnIfComplete

LEMMA KeepsNegative ==
  ASSUME NEW b, Counts(b)
  PROVE  Keeps(b, NegativeLevel(b))
<1>1. PICK n, c : n = b.negative + 1 /\ c = [b EXCEPT !.negative = n]
  OBVIOUS
<1>2. NegativeLevel(b) = WarnIfComplete(c)
  BY <1>1 DEF NegativeLevel
<1>3. Keeps(b, c)
  BY <1>1, KeepsContents
<1>4. Keeps(c, WarnIfComplete(c))
  BY <1>3, KeepsWarn DEF Keeps
<1> QED
  BY <1>2, <1>3, <1>4, KeepsTwice

LEMMA KeepsStored ==
  ASSUME NEW b, Counts(b), NEW s, NEW p, NEW level
  PROVE  Keeps(b, StoreLevel(b, s, p, level))
<1>1. PICK dropped, kept, i, j :
        /\ i = [b.levels EXCEPT ![s] = Drop(@, p)] /\ dropped = [b EXCEPT !.levels = i]
        /\ j = [b.levels EXCEPT ![s][p] = level] /\ kept = [b EXCEPT !.levels = j]
  OBVIOUS
<1>2. StoreLevel(b, s, p, level) \in {NegativeLevel(dropped), dropped, kept}
  BY <1>1 DEF StoreLevel
<1>3. Keeps(b, dropped) /\ Keeps(b, kept)
  BY <1>1, KeepsContents
<1>4. Keeps(b, NegativeLevel(dropped))
  <2>1. Keeps(dropped, NegativeLevel(dropped))
    BY <1>3, KeepsNegative DEF Keeps
  <2> QED
    BY <1>3, <2>1, KeepsTwice
<1> QED
  BY <1>2, <1>3, <1>4

LEMMA KeepsAdded ==
  ASSUME NEW b, Counts(b), NEW id, NEW x
  PROVE  Keeps(b, AddToLevel(b, id, x))
<1> DEFINE level == IF x.price \in DOMAIN b.levels[x.side] THEN b.levels[x.side][x.price]
                    ELSE [count |-> 0, total |-> 0, ids |-> {}]
<1>1. PICK l, ls, is, c :
        /\ l = [count |-> level.count + 1, total |-> level.total + x.size, ids |-> level.ids \cup {id}]
        /\ ls = [b.levels EXCEPT ![x.side] = Put(@, x.price, l)]
        /\ is = [b.sideIds EXCEPT ![x.side] = @ \cup {id}]
        /\ c = [b EXCEPT !.levels = ls]
  OBVIOUS
<1>2. AddToLevel(b, id, x) = [b EXCEPT !.levels[x.side] = Put(@, x.price, l),
                                       !.sideIds[x.side] = @ \cup {id}]
  BY <1>1 DEF AddToLevel
<1> HIDE DEF level
<1>3. AddToLevel(b, id, x) = [c EXCEPT !.sideIds = is]
  BY <1>1, <1>2 DEF Counts, IsBook, BookFields
<1>4. Keeps(b, c)
  BY <1>1, KeepsContents
<1>5. Keeps(c, [c EXCEPT !.sideIds = is])
  BY <1>4, KeepsContents DEF Keeps
<1> QED
  BY <1>3, <1>4, <1>5, KeepsTwice

LEMMA KeepsRemoved ==
  ASSUME NEW b, Counts(b), NEW id, NEW x
  PROVE  Keeps(b, RemoveFromLevel(b, id, x))
<1>1. PICK is, u, level :
        /\ is = [b.sideIds EXCEPT ![x.side] = @ \ {id}] /\ u = [b EXCEPT !.sideIds = is]
        /\ level = [count |-> b.levels[x.side][x.price].count - 1,
                    total |-> b.levels[x.side][x.price].total - x.size,
                    ids |-> b.levels[x.side][x.price].ids \ {id}]
  OBVIOUS
<1>2. RemoveFromLevel(b, id, x) \in {NegativeLevel(u), StoreLevel(u, x.side, x.price, level)}
  <2>1. [b EXCEPT !.sideIds[x.side] = @ \ {id}] = u
    BY <1>1
  <2>2. RemoveFromLevel(b, id, x) = IF x.price \notin DOMAIN b.levels[x.side] THEN NegativeLevel(u)
                                    ELSE StoreLevel(u, x.side, x.price, level)
    BY ONLY <1>1, <2>1 DEF RemoveFromLevel
  <2> QED
    BY ONLY <2>2
<1>3. Keeps(b, u) /\ Counts(u)
  <2>1. Keeps(b, u)
    BY <1>1, KeepsContents
  <2> QED
    BY <2>1 DEF Keeps
<1>4. Keeps(u, NegativeLevel(u)) /\ Keeps(u, StoreLevel(u, x.side, x.price, level))
  BY <1>3, KeepsNegative, KeepsStored
<1> QED
  BY <1>2, <1>3, <1>4, KeepsTwice

LEMMA KeepsTakenOut ==
  ASSUME NEW b, Counts(b), NEW id
  PROVE  Keeps(b, TakeOut(id, b))
<1>1. PICK d, u : d = Drop(b.orders, id) /\ u = [b EXCEPT !.orders = d]
  OBVIOUS
<1>2. TakeOut(id, b) \in {b, RemoveFromLevel(u, id, b.orders[id])}
  <2>1. TakeOut(id, b) = IF id \notin DOMAIN b.orders THEN b ELSE RemoveFromLevel(u, id, b.orders[id])
    BY ONLY <1>1 DEF TakeOut
  <2> QED
    BY ONLY <2>1
<1>3. Keeps(b, u) /\ Counts(u) /\ Keeps(b, b)
  <2>1. Keeps(b, u) /\ Keeps(b, b)
    BY <1>1, KeepsContents, KeepsSelf
  <2> QED
    BY <2>1 DEF Keeps
<1>4. Keeps(u, RemoveFromLevel(u, id, b.orders[id]))
  BY <1>3, KeepsRemoved
<1> QED
  BY <1>2, <1>3, <1>4, KeepsTwice

LEMMA KeepsCleared ==
  ASSUME NEW b, Counts(b), NEW side, IsFiniteSet(b.sideIds[side])
  PROVE  Keeps(b, ClearSide(b, side))
<1>1. PICK S : S = b.sideIds[side]
  OBVIOUS
<1>2. PICK f : Clears(b, S, f) /\ FoldSet(TakeOut, b, S) = f[S]
  BY <1>1, ClearsExists
<1> DEFINE Bad == {s \in SUBSET S : ~Keeps(b, f[s])}
<1>3. Bad = {}
  <2> SUFFICES ASSUME Bad # {} PROVE FALSE
    OBVIOUS
  <2>1. \A s \in Bad : IsFiniteSet(s)
    BY <1>1, FS_Subset
  <2>2. PICK s \in Bad : \A t \in Bad : Cardinality(s) <= Cardinality(t)
    BY <2>1, SmallestSet
  <2>3. s # {}
    BY <1>2, <2>2, KeepsSelf DEF Clears
  <2>4. Taken(s) \in s /\ IsFiniteSet(s)
    BY <2>1, <2>2, <2>3, FirstIn
  <2>5. /\ Cardinality(s \ {Taken(s)}) < Cardinality(s)
        /\ Cardinality(s) \in Nat /\ Cardinality(s \ {Taken(s)}) \in Nat
    BY <2>4, Smaller
  <2>6. s \ {Taken(s)} \notin Bad
    <3>1. s \ {Taken(s)} \in Bad => Cardinality(s) <= Cardinality(s \ {Taken(s)})
      BY <2>2, Zenon
    <3>2. ~(Cardinality(s) <= Cardinality(s \ {Taken(s)}))
      BY <2>5
    <3> QED
      BY <3>1, <3>2, Zenon
  <2>7. Keeps(b, f[s \ {Taken(s)}])
    BY <2>2, <2>6
  <2>8. f[s] = TakeOut(Taken(s), f[s \ {Taken(s)}])
    BY <1>2, <2>2, <2>3 DEF Clears
  <2>9. Keeps(f[s \ {Taken(s)}], f[s])
    BY <2>7, <2>8, KeepsTakenOut DEF Keeps
  <2>10. Keeps(b, f[s])
    BY <2>7, <2>9, KeepsTwice
  <2> QED
    BY <2>2, <2>10
<1>4. Keeps(b, f[S])
  BY <1>3
<1>5. ClearSide(b, side) = f[S]
  BY <1>1, <1>2 DEF ClearSide
<1> QED
  BY <1>4, <1>5

LEMMA KeepsAdd ==
  ASSUME NEW b, Sound(b), Counts(b), NEW e
  PROVE  Keeps(b, ApplyAdd(b, e))
<1>1. PICK c : c = IF "TOB" \notin e.flags THEN b
                   ELSE IF e.side \in Sides THEN ClearSide(b, e.side) ELSE WarnIfComplete(b)
  OBVIOUS
<1>2. Keeps(b, c)
  <2>1. \A s \in Sides : IsFiniteSet(b.sideIds[s])
    <3>1. \A s \in Sides : b.sideIds[s] \subseteq DOMAIN b.orders
      BY DEF Sound, Agrees, IdsOf
    <3> QED
      BY <3>1, FS_Subset DEF Sound, IsOrders
  <2>2. Keeps(b, b) /\ Keeps(b, WarnIfComplete(b)) /\ \A s \in Sides : Keeps(b, ClearSide(b, s))
    BY <2>1, KeepsSelf, KeepsWarn, KeepsCleared
  <2> QED
    BY <1>1, <2>2
<1>3. PICK n, u : n = Put(c.orders, e.id, NewOrder(e)) /\ u = [c EXCEPT !.orders = n]
  OBVIOUS
<1>4. ApplyAdd(b, e) \in {WarnIfComplete(c), AddToLevel(u, e.id, NewOrder(e))}
  BY <1>1, <1>3 DEF ApplyAdd
<1>5. Counts(c)
  BY <1>2 DEF Keeps
<1>6. Keeps(c, u) /\ Keeps(c, WarnIfComplete(c))
  BY <1>3, <1>5, KeepsContents, KeepsWarn
<1>7. Counts(u)
  BY <1>6 DEF Keeps
<1>8. Keeps(u, AddToLevel(u, e.id, NewOrder(e)))
  BY <1>7, KeepsAdded
<1> QED
  BY <1>2, <1>4, <1>5, <1>6, <1>8, KeepsTwice

LEMMA KeepsModify ==
  ASSUME NEW b, Counts(b), NEW e
  PROVE  Keeps(b, ApplyModify(b, e))
<1>1. PICK r, n, u : /\ r = RemoveFromLevel(b, e.id, b.orders[e.id])
                     /\ n = Put(r.orders, e.id, NewOrder(e)) /\ u = [r EXCEPT !.orders = n]
  OBVIOUS
<1>2. ApplyModify(b, e) \in {WarnIfComplete(b), AddToLevel(u, e.id, NewOrder(e))}
  BY <1>1 DEF ApplyModify, UnknownOrder
<1>3. Keeps(b, r) /\ Keeps(b, WarnIfComplete(b))
  BY <1>1, KeepsRemoved, KeepsWarn
<1>4. Counts(r)
  BY <1>3 DEF Keeps
<1>5. Keeps(r, u)
  BY <1>1, <1>4, KeepsContents
<1>6. Counts(u)
  BY <1>5 DEF Keeps
<1>7. Keeps(u, AddToLevel(u, e.id, NewOrder(e)))
  BY <1>6, KeepsAdded
<1> QED
  BY <1>2, <1>3, <1>4, <1>5, <1>7, KeepsTwice

LEMMA KeepsCancel ==
  ASSUME NEW b, Counts(b), NEW e
  PROVE  Keeps(b, ApplyCancel(b, e))
<1>1. CASE e.id \notin DOMAIN b.orders \/ e.size = 0
  BY <1>1, KeepsWarn DEF ApplyCancel, UnknownOrder
<1>2. CASE e.id \in DOMAIN b.orders /\ e.size # 0
  <2>1. PICK id, o, cut, w, l :
          /\ id = e.id /\ o = b.orders[id] /\ cut = Min({e.size, o.size})
          /\ w = IF e.size > o.size THEN WarnIfComplete(b) ELSE b
          /\ l = b.levels[o.side][o.price]
    OBVIOUS
  <2>2. PICK d, i, sized, whole, gone, part :
          /\ d = Drop(w.orders, id) /\ i = [w.sideIds EXCEPT ![o.side] = @ \ {id}]
          /\ sized = [w.orders EXCEPT ![id].size = @ - cut]
          /\ whole = [w EXCEPT !.orders = d] /\ gone = [whole EXCEPT !.sideIds = i]
          /\ part = [w EXCEPT !.orders = sized]
    OBVIOUS
  <2>3. PICK wholeLevel, partLevel :
          /\ wholeLevel = [count |-> l.count - 1, total |-> l.total - cut, ids |-> l.ids \ {id}]
          /\ partLevel = [count |-> l.count, total |-> l.total - cut, ids |-> l.ids]
    OBVIOUS
  <2>4. /\ Keeps(b, w) /\ Counts(w)
    <3>1. Keeps(b, w)
      BY <2>1, KeepsSelf, KeepsWarn
    <3> QED
      BY <3>1 DEF Keeps
  <2>5. ApplyCancel(b, e) \in {NegativeLevel(gone), StoreLevel(gone, o.side, o.price, wholeLevel),
                               StoreLevel(part, o.side, o.price, partLevel)}
    <3>1. [w EXCEPT !.orders = Drop(@, id), !.sideIds[o.side] = @ \ {id}] = gone
      BY <2>2, <2>4 DEF Counts, IsBook, BookFields
    <3>2. [w EXCEPT !.orders[id].size = @ - cut] = part
      BY <2>2
    <3>3. e.id \in DOMAIN b.orders /\ e.size # 0 /\ o = b.orders[e.id] /\ e.id = id
      BY ONLY <1>2, <2>1
    <3>4. CASE o.price \notin DOMAIN b.levels[o.side]
      <4>1. ApplyCancel(b, e) = NegativeLevel([w EXCEPT !.orders = Drop(@, id), !.sideIds[o.side] = @ \ {id}])
        BY ONLY <2>1, <3>3, <3>4 DEF ApplyCancel
      <4> QED
        BY ONLY <3>1, <4>1
    <3>5. CASE o.price \in DOMAIN b.levels[o.side] /\ cut = o.size
      BY ONLY <2>1, <2>3, <3>1, <3>3, <3>5 DEF ApplyCancel
    <3>6. CASE o.price \in DOMAIN b.levels[o.side] /\ cut # o.size
      BY ONLY <2>1, <2>3, <3>2, <3>3, <3>6 DEF ApplyCancel
    <3> QED
      BY ONLY <3>4, <3>5, <3>6
  <2>6. Keeps(w, whole) /\ Keeps(w, part)
    BY <2>2, <2>4, KeepsContents
  <2>7. Counts(whole) /\ Counts(part)
    BY <2>6 DEF Keeps
  <2>8. Keeps(whole, gone)
    BY <2>2, <2>7, KeepsContents
  <2>9. Counts(gone) /\ Keeps(w, gone)
    <3>1. Keeps(w, gone)
      BY <2>4, <2>6, <2>8, KeepsTwice
    <3> QED
      BY <3>1 DEF Keeps
  <2>10. /\ Keeps(gone, NegativeLevel(gone)) /\ Keeps(gone, StoreLevel(gone, o.side, o.price, wholeLevel))
         /\ Keeps(part, StoreLevel(part, o.side, o.price, partLevel))
    BY <2>7, <2>9, KeepsNegative, KeepsStored
  <2>11. Keeps(b, gone) /\ Keeps(b, part)
    BY <2>4, <2>6, <2>9, KeepsTwice
  <2> QED
    BY <2>5, <2>10, <2>11, KeepsTwice
<1> QED
  BY <1>1, <1>2

LEMMA KeepsAction ==
  ASSUME NEW b, Sound(b), Counts(b), NEW e
  PROVE  Keeps(b, ApplyAction(b, e))
<1>1. Keeps(b, Clear(b))
  <2>1. PICK l, i, c, d : /\ l = [s \in Sides |-> <<>>] /\ i = [s \in Sides |-> {}]
                          /\ c = [b EXCEPT !.orders = <<>>] /\ d = [c EXCEPT !.levels = l]
    OBVIOUS
  <2>2. Clear(b) = [d EXCEPT !.sideIds = i]
    BY <2>1 DEF Clear, Counts, IsBook, BookFields
  <2>3. Keeps(b, c)
    BY <2>1, KeepsContents
  <2>4. Counts(c)
    BY <2>3 DEF Keeps
  <2>5. Keeps(c, d)
    BY <2>1, <2>4, KeepsContents
  <2>6. Counts(d)
    BY <2>5 DEF Keeps
  <2>7. Keeps(d, [d EXCEPT !.sideIds = i])
    BY <2>6, KeepsContents
  <2> QED
    BY <2>2, <2>3, <2>4, <2>5, <2>7, KeepsTwice
<1>2. /\ Keeps(b, b) /\ Keeps(b, ApplyAdd(b, e)) /\ Keeps(b, ApplyModify(b, e))
      /\ Keeps(b, ApplyCancel(b, e))
  BY KeepsSelf, KeepsAdd, KeepsModify, KeepsCancel
<1> QED
  BY <1>1, <1>2 DEF ApplyAction
-----------------------------------------------------------------------------
(* The sequence numbers of a book never fall, and without a warning the    *)
(* end of a natural group carries the greatest.                            *)

Numbered(b) == Counts(b) /\ b.natural \in [Channels -> Nat]

Grows(b, c) == /\ Numbered(c) /\ b.warnings <= c.warnings
               /\ \A ch \in Channels : b.natural[ch] <= c.natural[ch]

LEMMA GrowsTwice ==
  ASSUME NEW b, Numbered(b), NEW c, Grows(b, c), NEW d, Grows(c, d)
  PROVE  Grows(b, d)
<1>1. \A ch \in Channels : b.natural[ch] \in Nat /\ c.natural[ch] \in Nat /\ d.natural[ch] \in Nat
  BY DEF Grows, Numbered
<1>2. b.warnings \in Nat /\ c.warnings \in Nat /\ d.warnings \in Nat
  BY DEF Grows, Numbered, Counts
<1> QED
  BY <1>1, <1>2 DEF Grows

LEMMA KeepsGrows ==
  ASSUME NEW b, Numbered(b), NEW c, Keeps(b, c)
  PROVE  Grows(b, c)
BY DEF Grows, Numbered, Keeps

LEMMA SequenceGrows ==
  ASSUME NEW b, Numbered(b), b.status = "POST_SNAPSHOT", NEW e, IsEvent(e)
  PROVE  LET c == ObserveSequence(b, e)
         IN  /\ Grows(b, c) /\ c.primary = b.primary
             /\ e.seq # None /\ c.warnings = 0 => c.natural[e.channel] = e.seq
<1>1. e.seq \in Nat /\ e.channel \in Channels /\ b.natural[e.channel] \in Nat
  BY DEF IsEvent, Numbered
<1>2. CASE e.seq = None
  <2>1. ObserveSequence(b, e) = b
    BY <1>2 DEF ObserveSequence
  <2> QED
    BY <1>2, <2>1, KeepsSelf, KeepsGrows DEF Numbered
<1>3. CASE e.seq # None /\ e.seq >= b.natural[e.channel]
  <2>1. PICK n, c : n = [b.natural EXCEPT ![e.channel] = e.seq] /\ c = [b EXCEPT !.natural = n]
    OBVIOUS
  <2>2. ObserveSequence(b, e) = c
    BY <1>3, <2>1 DEF ObserveSequence
  <2>3. n \in [Channels -> Nat] /\ n[e.channel] = e.seq /\ \A ch \in Channels : b.natural[ch] <= n[ch]
    BY <1>1, <1>3, <2>1 DEF Numbered
  <2>4. /\ Counts(c) /\ c.warnings = b.warnings /\ c.natural = n /\ c.primary = b.primary
        /\ b.warnings \in Nat
    BY <2>1 DEF Numbered, Counts, IsBook, BookFields
  <2> QED
    BY <2>2, <2>3, <2>4 DEF Grows, Numbered
<1>4. CASE e.seq # None /\ ~(e.seq >= b.natural[e.channel])
  <2>1. ObserveSequence(b, e) = [b EXCEPT !.warnings = @ + 1]
    BY <1>4 DEF ObserveSequence, WarnIfComplete
  <2>2. ObserveSequence(b, e) = WarnIfComplete(b)
    BY <1>4 DEF ObserveSequence
  <2>3. Keeps(b, ObserveSequence(b, e))
    BY <2>2, KeepsWarn DEF Numbered
  <2>4. ObserveSequence(b, e).warnings = b.warnings + 1 /\ b.warnings \in Nat
    BY <2>1 DEF Numbered, Counts, IsBook, BookFields
  <2> QED
    BY <2>3, <2>4, KeepsGrows DEF Keeps
<1> QED
  BY <1>2, <1>3, <1>4

LEMMA PhaseGrows ==
  ASSUME NEW b, Numbered(b), NEW e, IsEvent(e)
  PROVE  LET c == ObservePhase(Remember(b, e), e)
         IN  /\ Grows(b, c) /\ c.primary = b.primary
             /\ c.status = "POST_SNAPSHOT" /\ "SNAPSHOT" \notin e.flags /\ e.seq # None /\ c.warnings = 0
                  => c.natural[e.channel] = e.seq
<1>1. PICK r, u, v, c : /\ r = Remember(b, e) /\ u = [r EXCEPT !.status = "SNAPSHOT_LOADING"]
                        /\ v = [r EXCEPT !.status = "POST_SNAPSHOT"] /\ c = ObservePhase(r, e)
  OBVIOUS
<1>2. Keeps(b, r)
  <2>1. PICK w : w = Append(IF Len(b.window) >= WindowSize THEN Tail(b.window) ELSE b.window, e)
    OBVIOUS
  <2>2. r = b \/ r = [b EXCEPT !.window = w]
    BY <1>1, <2>1 DEF Remember
  <2>3. Counts(b)
    BY DEF Numbered
  <2>4. Keeps(b, [b EXCEPT !.window = w]) /\ Keeps(b, b)
    BY <2>3, KeepsSelf, KeepsContents
  <2> QED
    BY <2>2, <2>4
<1>3. Grows(b, r) /\ Numbered(r) /\ r.primary = b.primary
  <2>1. Grows(b, r)
    BY <1>2, KeepsGrows
  <2>2. Numbered(r)
    BY <2>1 DEF Grows
  <2>3. r.primary = b.primary
    BY <1>2 DEF Keeps
  <2> QED
    BY <2>1, <2>2, <2>3
<1>4. /\ Grows(r, u) /\ u.primary = r.primary /\ u.status # "POST_SNAPSHOT"
      /\ Grows(r, v) /\ v.primary = r.primary /\ v.status = "POST_SNAPSHOT"
  <2>1. r.warnings \in Nat /\ \A ch \in Channels : r.natural[ch] \in Nat
    BY <1>3 DEF Numbered, Counts
  <2>2. /\ IsBook(u) /\ u.warnings = r.warnings /\ u.natural = r.natural /\ u.primary = r.primary
        /\ IsBook(v) /\ v.warnings = r.warnings /\ v.natural = r.natural /\ v.primary = r.primary
        /\ u.status = "SNAPSHOT_LOADING" /\ v.status = "POST_SNAPSHOT"
    BY <1>1, <1>3 DEF Numbered, Counts, IsBook, BookFields
  <2> QED
    BY <1>3, <2>1, <2>2 DEF Grows, Numbered, Counts
<1>5. CASE c = u
  <2>1. Grows(b, c)
    BY <1>3, <1>4, <1>5, GrowsTwice
  <2> QED
    BY <1>1, <1>3, <1>4, <1>5, <2>1
<1>6. CASE c = r /\ ("SNAPSHOT" \in e.flags \/ c.status # "POST_SNAPSHOT")
  BY <1>1, <1>3, <1>6
<1>7. CASE c = ObserveSequence(v, e)
  <2>1. /\ Grows(v, c) /\ c.primary = v.primary
        /\ e.seq # None /\ c.warnings = 0 => c.natural[e.channel] = e.seq
    <3>1. Numbered(v)
      BY <1>4 DEF Grows
    <3> QED
      BY <1>4, <1>7, <3>1, SequenceGrows
  <2>2. Grows(b, v)
    BY <1>3, <1>4, GrowsTwice
  <2>3. Grows(b, c)
    BY <2>1, <2>2, GrowsTwice
  <2> QED
    BY <1>1, <1>3, <1>4, <2>1, <2>3
<1> QED
  <2>1. c = u \/ (c = r /\ ("SNAPSHOT" \in e.flags \/ c.status # "POST_SNAPSHOT"))
          \/ c = ObserveSequence(v, e)
    BY <1>1 DEF ObservePhase, SnapshotReady
  <2> QED
    BY <1>5, <1>6, <1>7, <2>1

LEMMA FinishKeeps ==
  ASSUME NEW b, Numbered(b), NEW e
  PROVE  LET c == FinishGroup(b, e)
         IN  /\ Grows(b, c) /\ c.primary = b.primary /\ c.natural = b.natural /\ c.warnings = b.warnings
             /\ c.status = "POST_SNAPSHOT" => b.status = "POST_SNAPSHOT"
<1>1. PICK v, w, c : /\ v = ("LAST" \in e.flags) /\ c = FinishGroup(b, e)
                     /\ w = IF {"LAST", "SNAPSHOT"} \subseteq e.flags /\ b.status = "SNAPSHOT_LOADING"
                            THEN "SNAPSHOT_READY" ELSE b.status
  OBVIOUS
<1>2. c = [b EXCEPT !.consistent = v, !.status = w]
  BY <1>1 DEF FinishGroup, Numbered, Counts, IsBook, BookFields
<1>3. /\ IsBook(c) /\ c.warnings = b.warnings /\ c.natural = b.natural /\ c.primary = b.primary
      /\ c.status = w /\ b.warnings \in Nat
  BY <1>2 DEF Numbered, Counts, IsBook, BookFields
<1>4. Grows(b, c)
  BY <1>3 DEF Grows, Numbered, Counts
<1>5. w = "POST_SNAPSHOT" => b.status = "POST_SNAPSHOT"
  BY <1>1
<1> QED
  BY <1>1, <1>3, <1>4, <1>5

LEMMA EventGrows ==
  ASSUME NEW b, Numbered(b), Sound(b), NEW e, IsEvent(e)
  PROVE  LET c == ApplyEvent(b, e)
         IN  /\ Grows(b, c) /\ (b.primary # NoInstrument => c.primary = b.primary)
             /\ Completes(b, e) /\ c.status = "POST_SNAPSHOT" /\ "SNAPSHOT" \notin e.flags
                /\ e.seq # None /\ c.warnings = 0
                  => c.natural[e.channel] = e.seq /\ c.primary = e.instrument
<1>1. PICK seen, mine, same, done, v, c :
        /\ seen = ObservePhase(Remember(b, e), e) /\ mine = [seen EXCEPT !.primary = e.instrument]
        /\ v = ("LAST" \in e.flags) /\ same = [b EXCEPT !.consistent = v]
        /\ done = ApplyAction(mine, e) /\ c = ApplyEvent(b, e)
  OBVIOUS
<1>2. /\ Grows(b, seen) /\ seen.primary = b.primary
      /\ seen.status = "POST_SNAPSHOT" /\ "SNAPSHOT" \notin e.flags /\ e.seq # None /\ seen.warnings = 0
           => seen.natural[e.channel] = e.seq
  BY <1>1, PhaseGrows
<1>3. Numbered(seen) /\ Counts(seen) /\ seen.warnings \in Nat
  BY <1>2 DEF Grows, Numbered, Counts
<1>4. CASE IsDuplicate(b, e)
  <2>1. c = same
    BY <1>1, <1>4 DEF ApplyEvent
  <2>2. Keeps(b, same)
    BY <1>1, KeepsContents DEF Numbered
  <2>3. Grows(b, c)
    BY <2>1, <2>2, KeepsGrows
  <2>4. c.primary = b.primary
    BY <2>1, <2>2 DEF Keeps
  <2> QED
    BY <1>1, <1>4, <2>3, <2>4 DEF Completes
<1>5. CASE ~IsDuplicate(b, e) /\ AcceptsInstrument(seen, e)
  <2>1. c = FinishGroup(done, e)
    BY <1>1, <1>5 DEF ApplyEvent
  <2>2. /\ IsBook(mine) /\ mine.warnings = seen.warnings /\ mine.natural = seen.natural
        /\ mine.status = seen.status /\ mine.primary = e.instrument
    BY <1>1, <1>3 DEF Counts, IsBook, BookFields
  <2>3. Numbered(mine) /\ Counts(mine) /\ Grows(seen, mine)
    BY <1>3, <2>2 DEF Grows, Numbered, Counts
  <2>4. Sound(mine)
    <3>1. Same(b, [ObservePhase(Remember(b, e), e) EXCEPT !.primary = e.instrument])
      BY SeenSame DEF Sound
    <3>2. Same(b, mine)
      BY <1>1, <3>1
    <3> QED
      BY <3>2, SameSound
  <2>5. Keeps(mine, done)
    BY <1>1, <2>3, <2>4, KeepsAction
  <2>6. Grows(mine, done) /\ Numbered(done)
    <3>1. Grows(mine, done)
      BY <2>3, <2>5, KeepsGrows
    <3> QED
      BY <3>1 DEF Grows
  <2>7. /\ Grows(done, c) /\ c.primary = done.primary /\ c.natural = done.natural
        /\ c.warnings = done.warnings /\ (c.status = "POST_SNAPSHOT" => done.status = "POST_SNAPSHOT")
    BY <2>1, <2>6, FinishKeeps
  <2>8. Grows(b, c)
    BY <1>2, <2>3, <2>6, <2>7, GrowsTwice
  <2>9. /\ done.primary = e.instrument /\ done.natural = seen.natural /\ done.status = seen.status
        /\ seen.warnings <= done.warnings /\ done.warnings \in Nat
    BY <2>2, <2>5 DEF Keeps, Counts
  <2>10. b.primary # NoInstrument => e.instrument = b.primary
    BY <1>2, <1>5 DEF AcceptsInstrument
  <2> QED
    BY <1>1, <1>2, <1>3, <2>7, <2>8, <2>9, <2>10
<1>6. CASE ~IsDuplicate(b, e) /\ ~AcceptsInstrument(seen, e)
  <2>1. PICK w : w = WarnIfComplete(seen)
    OBVIOUS
  <2>2. c = FinishGroup(w, e)
    BY <1>1, <1>6, <2>1 DEF ApplyEvent
  <2>3. Keeps(seen, w)
    BY <1>3, <2>1, KeepsWarn
  <2>4. Grows(seen, w) /\ Numbered(w)
    <3>1. Grows(seen, w)
      BY <1>3, <2>3, KeepsGrows
    <3> QED
      BY <3>1 DEF Grows
  <2>5. /\ Grows(w, c) /\ c.primary = w.primary /\ c.warnings = w.warnings
        /\ (c.status = "POST_SNAPSHOT" => w.status = "POST_SNAPSHOT")
    BY <2>2, <2>4, FinishKeeps
  <2>6. Grows(b, c)
    BY <1>2, <2>4, <2>5, GrowsTwice
  <2>7. w.status = seen.status /\ w.primary = seen.primary
    BY <2>3 DEF Keeps
  <2>8. seen.status = "POST_SNAPSHOT" => w.warnings = seen.warnings + 1
    BY <1>3, <2>1 DEF WarnIfComplete, Counts, IsBook, BookFields
  <2>9. c.status = "POST_SNAPSHOT" => c.warnings # 0
    BY <1>3, <2>5, <2>7, <2>8
  <2> QED
    BY <1>1, <1>2, <2>5, <2>6, <2>7, <2>9
<1> QED
  BY <1>4, <1>5, <1>6

LEMMA EmptyNumbered == Numbered(EmptyBook)
BY DEF EmptyBook, Numbered, Counts, IsBook, BookFields, None
-----------------------------------------------------------------------------
(* The book of a verification.                                             *)

BookInv ==
  /\ book = BookAfter(mboFile, pos) /\ Numbered(book) /\ Sound(book)
  /\ window[1] \in Int /\ window[2] \in Int
  /\ phase = "inspect" => pos = 0

\* The end of a group that verify_streams counts, in the file.
LEMMA CountedEnds ==
  ASSUME CountInv, BookInv, pos < Len(mboFile), NEW e, e = mboFile[pos + 1], NEW b, b = ApplyEvent(book, e)
  PROVE  /\ b = BookAfter(mboFile, pos + 1) /\ book = BookAfter(mboFile, pos)
         /\ pos \in Nat /\ pos + 1 \in 1 .. Len(mboFile)
         /\ IsEvent(e) /\ IsKey(Key(e)) /\ e.ts \in Nat /\ e.instrument \in Nat \ {NoInstrument}
         /\ Counted(b, e) <=> pos + 1 \in GroupEnds(mboFile) /\ e.ts >= window[1]
<1>1. mboFile \in MboFiles /\ pos \in 0 .. Len(mboFile) /\ Len(mboFile) \in Nat
  BY VerificationAssumption DEF CountInv
<1>2. pos \in Nat /\ pos + 1 \in 1 .. Len(mboFile) /\ (pos + 1) - 1 = pos
  BY <1>1
<1>3. book = BookAfter(mboFile, pos)
  BY DEF BookInv
<1>4. b = BookAfter(mboFile, pos + 1)
  BY <1>2, <1>3, BookStep
<1>5. IsEvent(e) /\ e.ts \in Nat /\ e.instrument \in Nat \ {NoInstrument} /\ IsKey(Key(e))
  BY <1>1, <1>2, EventKeys, VerificationAssumption
<1>6. pos + 1 \in GroupEnds(mboFile) <=> Completes(book, e) /\ b.status = "POST_SNAPSHOT"
  BY <1>2, <1>3, <1>4 DEF GroupEnds
<1> QED
  BY <1>2, <1>3, <1>4, <1>5, <1>6 DEF Counted

\* The window's groups that have been read, one event later.
LEMMA ReadGrows ==
  ASSUME CountInv, pos < Len(mboFile), pos' = pos + 1, UNCHANGED <<mboFile, window>>
  PROVE  Read' = Read \cup {n \in {pos + 1} : /\ n \in GroupEnds(mboFile)
                                             /\ mboFile[n].ts \in window[1] .. window[2] - 1}
<1>1. mboFile \in MboFiles /\ pos \in 0 .. Len(mboFile) /\ Len(mboFile) \in Nat
  BY VerificationAssumption DEF CountInv
<1>2. pos \in Nat
  BY <1>1
<1>3. GroupEnds(mboFile)' = GroupEnds(mboFile) /\ GroupEnds(mboFile) \subseteq Nat
  BY <1>1 DEF GroupEnds
<1>4. \A n \in Nat : n <= pos + 1 <=> n <= pos \/ n = pos + 1
  BY <1>2
<1>5. Read' = {n \in GroupEnds(mboFile) : n <= pos + 1 /\ mboFile[n].ts \in window[1] .. window[2] - 1}
  BY <1>3 DEF Read
<1> QED
  BY <1>2, <1>3, <1>4, <1>5 DEF Read

\* The window that the inspection finds, and the first position of a set.
LEMMA InspectWindow ==
  ASSUME CountInv, BookInv, Inspect
  PROVE  window'[1] \in Int /\ window'[2] \in Int
<1>1. PICK n : n = NaturalAt(mboFile)
  OBVIOUS
<1>2. mboFile \in MboFiles /\ Len(mboFile) \in Nat
  BY VerificationAssumption DEF CountInv
<1>3. CASE UNCHANGED window
  BY <1>3 DEF BookInv
<1>4. CASE window' \in Requested
  BY <1>4, VerificationAssumption
<1>5. CASE n # 0 /\ window' = <<mboFile[n].ts, Min({mboFile[n].ts + WindowLength, FileEnd})>>
  <2>1. n \in 1 .. Len(mboFile)
    <3>1. PICK S : S = {m \in GroupEnds(mboFile) : m > ReadyAt(mboFile) /\ "SNAPSHOT" \notin mboFile[m].flags}
      OBVIOUS
    <3>2. S \subseteq 1 .. Len(mboFile) /\ S \subseteq Nat
      BY <1>2, <3>1 DEF GroupEnds
    <3>3. n = First(S)
      BY <1>1, <3>1 DEF NaturalAt
    <3>4. S # {} /\ n = Min(S)
      BY <1>5, <3>3 DEF First
    <3> QED
      BY <3>2, <3>4, LeastPlace
  <2>2. mboFile[n].ts \in Nat /\ WindowLength \in Nat /\ FileEnd \in Nat
    BY <1>2, <2>1, VerificationAssumption
  <2>3. Min({mboFile[n].ts + WindowLength, FileEnd}) \in Nat
    <3>1. {mboFile[n].ts + WindowLength, FileEnd} \subseteq Nat
      BY <2>2
    <3> QED
      BY <3>1, LeastPlace
  <2> QED
    BY <1>5, <2>2, <2>3
<1> QED
  BY <1>1, <1>3, <1>4, <1>5 DEF Inspect, DefaultWindow

LEMMA VerifyInitBook ==
  ASSUME VerifyInit
  PROVE  BookInv
<1>1. book = EmptyBook /\ pos = 0 /\ window = <<0, 0>>
  BY DEF VerifyInit
<1> QED
  BY <1>1, BookStep, EmptyNumbered, EmptySound DEF BookInv

LEMMA VerifyStepBook ==
  ASSUME CountInv, BookInv, [VerifyNext]_vars
  PROVE  BookInv'
<1>1. CASE UNCHANGED vars
  BY <1>1 DEF vars, verifyVars, BookInv
<1>2. CASE Inspect
  <2>1. UNCHANGED <<book, mboFile, pos>> /\ phase' # "inspect"
    BY <1>2 DEF Inspect
  <2> QED
    BY <1>2, <2>1, InspectWindow DEF BookInv
<1>3. CASE ReadEvent
  <2>1. PICK e, b : /\ e = mboFile[pos + 1] /\ b = ApplyEvent(book, e) /\ book' = b
                    /\ phase = "verify" /\ phase' # "inspect" /\ pos < Len(mboFile) /\ pos' = pos + 1
                    /\ UNCHANGED <<mboFile, window>>
    BY <1>3 DEF ReadEvent, Conclude
  <2>2. b = BookAfter(mboFile, pos + 1) /\ IsEvent(e)
    BY <2>1, CountedEnds
  <2>3. Numbered(book) /\ Sound(book)
    BY DEF BookInv
  <2>4. Numbered(b) /\ Sound(b)
    <3>1. Grows(book, ApplyEvent(book, e))
      BY ONLY <2>2, <2>3, EventGrows
    <3> QED
      BY <2>1, <2>2, <2>3, <3>1, ApplyEventSound DEF Grows
  <2> QED
    BY <2>1, <2>2, <2>4 DEF BookInv
<1>4. CASE EndOfFile
  BY <1>4 DEF EndOfFile, Conclude, BookInv
<1> QED
  BY <1>1, <1>2, <1>3, <1>4 DEF VerifyNext

-----------------------------------------------------------------------------
(* A verification that has passed.                                         *)

\* Without a warning, no group that has ended is ahead of the book.
InOrder ==
  book.warnings = 0 =>
    \A m \in GroupEnds(mboFile) : m <= pos =>
      /\ mboFile[m].seq <= book.natural[mboFile[m].channel]
      /\ mboFile[m].instrument = book.primary

Found(i) == \E n \in Read : StateAt(mboFile, n).key = mbpFile[i].key
                              /\ StateAt(mboFile, n).top = mbpFile[i].top

Used == States(mbpFile) \ refs

PassInv ==
  /\ InOrder /\ started \in BOOLEAN
  /\ ~started => result.compared = 0
  /\ phase = "verify" /\ ~started => refs = States(mbpFile) /\ result = NoResult /\ Read = {}
  /\ started => Read # {}
  /\ started /\ result.unmatched = 0 /\ result.mismatches = 0 =>
       \A i \in Used : Rank(i) > result.beforeReady => Found(i)
  /\ started /\ book.warnings = 0 =>
       \A i \in States(mbpFile) : Rank(i) <= result.beforeReady =>
         \A n \in Read : KeyLess(mbpFile[i].key, Key(mboFile[n]))
  /\ phase = "done" => result.warnings = book.warnings

Feeds == \A s \in MboFiles : OneFeed(s)

\* An event later the book is still ahead of every group that has ended, and without
\* a warning the group that ends now has none of a greater key before it.
LEMMA OrderedStep ==
  ASSUME Feeds, CountInv, BookInv, PassInv, pos < Len(mboFile), pos' = pos + 1, UNCHANGED mboFile,
         book' = ApplyEvent(book, mboFile[pos + 1])
  PROVE  /\ InOrder'
         /\ book'.warnings = 0 => book.warnings = 0
         /\ book'.warnings = 0 /\ pos + 1 \in GroupEnds(mboFile) =>
              \A m \in GroupEnds(mboFile) : m <= pos =>
                ~KeyLess(Key(mboFile[pos + 1]), Key(mboFile[m]))
<1> DEFINE ends == GroupEnds(mboFile)
<1>1. PICK e, b, p : e = mboFile[pos + 1] /\ b = ApplyEvent(book, e) /\ p = pos + 1
  OBVIOUS
<1>2. /\ b = BookAfter(mboFile, p) /\ book = BookAfter(mboFile, pos) /\ pos \in Nat /\ p \in 1 .. Len(mboFile)
      /\ IsEvent(e) /\ e.ts \in Nat /\ e.instrument \in Nat \ {NoInstrument}
      /\ p \in ends => Completes(book, e) /\ b.status = "POST_SNAPSHOT"
  <2>1. /\ b = BookAfter(mboFile, pos + 1) /\ book = BookAfter(mboFile, pos)
        /\ pos \in Nat /\ pos + 1 \in 1 .. Len(mboFile)
        /\ IsEvent(e) /\ e.ts \in Nat /\ e.instrument \in Nat \ {NoInstrument}
    BY <1>1, CountedEnds
  <2>2. (pos + 1) - 1 = pos
    BY <2>1
  <2> QED
    BY <1>1, <2>1, <2>2 DEF GroupEnds
<1>3. /\ Grows(book, b) /\ (book.primary # NoInstrument => b.primary = book.primary)
      /\ Completes(book, e) /\ b.status = "POST_SNAPSHOT" /\ "SNAPSHOT" \notin e.flags
         /\ e.seq # None /\ b.warnings = 0
           => b.natural[e.channel] = e.seq /\ b.primary = e.instrument
  <2>1. Numbered(book) /\ Sound(book)
    BY DEF BookInv
  <2> QED
    <3>1. LET c == ApplyEvent(book, e)
          IN  /\ Grows(book, c) /\ (book.primary # NoInstrument => c.primary = book.primary)
              /\ Completes(book, e) /\ c.status = "POST_SNAPSHOT" /\ "SNAPSHOT" \notin e.flags
                 /\ e.seq # None /\ c.warnings = 0
                   => c.natural[e.channel] = e.seq /\ c.primary = e.instrument
      BY ONLY <1>2, <2>1, EventGrows
    <3> QED
      BY <1>1, <3>1
<1>4. Numbered(b) /\ Sound(b)
  <2>1. Sound(book)
    BY DEF BookInv
  <2>2. Sound(b)
    BY <1>1, <1>2, <2>1, ApplyEventSound
  <2> QED
    BY <1>3, <2>2 DEF Grows
<1>5. /\ mboFile \in MboFiles /\ OneFeed(mboFile)
  BY DEF CountInv, Feeds
<1>6. b.warnings = 0 => book.warnings = 0
  <2>1. book.warnings <= b.warnings /\ b.warnings \in Nat /\ book.warnings \in Nat
    BY <1>3 DEF BookInv, Grows, Numbered, Counts
  <2> QED
    BY <2>1
<1>7. \A m \in ends : /\ m \in 1 .. Len(mboFile) /\ m \in Nat /\ IsEvent(mboFile[m]) /\ mboFile[m].ts \in Nat
                      /\ mboFile[m].instrument \in Nat \ {NoInstrument}
                      /\ mboFile[m].seq \in Nat /\ mboFile[m].channel \in Channels
  BY <1>5, VerificationAssumption DEF GroupEnds, IsEvent
<1>8. p \in ends /\ b.warnings = 0 => b.natural[e.channel] = e.seq /\ b.primary = e.instrument
  BY <1>1, <1>2, <1>3, <1>5 DEF OneFeed
<1>9. ASSUME b.warnings = 0, NEW m \in ends, m <= pos
      PROVE  /\ mboFile[m].seq <= b.natural[mboFile[m].channel] /\ mboFile[m].instrument = b.primary
             /\ b.natural[mboFile[m].channel] \in Nat
  <2>1. mboFile[m].seq <= book.natural[mboFile[m].channel] /\ mboFile[m].instrument = book.primary
    BY <1>6, <1>9 DEF PassInv, InOrder
  <2>2. /\ book.natural[mboFile[m].channel] <= b.natural[mboFile[m].channel]
        /\ book.natural[mboFile[m].channel] \in Nat /\ b.natural[mboFile[m].channel] \in Nat
    BY <1>3, <1>7, <1>9 DEF BookInv, Grows, Numbered
  <2> QED
    BY <1>3, <1>7, <1>9, <2>1, <2>2
<1>10. ASSUME b.warnings = 0
       PROVE  \A m \in ends : m <= p => mboFile[m].seq <= b.natural[mboFile[m].channel]
                                        /\ mboFile[m].instrument = b.primary
  <2>1. SUFFICES ASSUME NEW m \in ends, m <= p
                 PROVE  mboFile[m].seq <= b.natural[mboFile[m].channel] /\ mboFile[m].instrument = b.primary
    OBVIOUS
  <2>2. CASE m = p
    <3>1. e.seq \in Nat
      BY <1>2 DEF IsEvent
    <3> QED
      BY <1>1, <1>8, <1>10, <2>2, <3>1
  <2>3. CASE m # p
    <3>1. m <= pos
      BY <1>1, <1>2, <1>7, <2>1, <2>3
    <3> QED
      BY <1>9, <1>10, <3>1
  <2> QED
    BY <2>2, <2>3
<1>11. ASSUME b.warnings = 0, p \in ends, NEW m \in ends, m <= pos
       PROVE  ~KeyLess(Key(e), Key(mboFile[m]))
  <2>1. PICK f : f = mboFile[m]
    OBVIOUS
  <2>2. f.channel = e.channel /\ (f.seq = e.seq => f.ts <= e.ts)
    <3>1. m \in 1 .. Len(mboFile) /\ m \in Nat /\ pos \in Nat /\ p = pos + 1 /\ m <= pos
      BY ONLY <1>1, <1>2, <1>7, <1>11
    <3>2. m < p
      BY ONLY <3>1
    <3> QED
      BY ONLY <1>1, <1>2, <1>5, <2>1, <3>1, <3>2 DEF OneFeed
  <2>3. f.seq <= e.seq /\ f.instrument = e.instrument
    BY <1>8, <1>9, <1>11, <2>1, <2>2
  <2>4. /\ f.seq \in Nat /\ f.ts \in Nat /\ f.instrument \in Nat
        /\ e.seq \in Nat /\ e.ts \in Nat /\ e.instrument \in Nat
    BY <1>2, <1>7, <1>11, <2>1 DEF IsEvent
  <2>5. /\ Key(e)[1] = e.instrument /\ Key(e)[2] = e.seq /\ Key(e)[3] = e.ts
        /\ Key(f)[1] = f.instrument /\ Key(f)[2] = f.seq /\ Key(f)[3] = f.ts
    BY DEF Key
  <2>6. ASSUME KeyLess(Key(e), Key(f)) PROVE FALSE
    <3>1. PICK i \in 1 .. 3 : Key(e)[i] < Key(f)[i] /\ \A j \in 1 .. i - 1 : Key(e)[j] = Key(f)[j]
      BY <2>6 DEF KeyLess
    <3>2. CASE i = 1
      BY <2>3, <2>4, <2>5, <3>1, <3>2
    <3>3. CASE i = 2
      BY <2>3, <2>4, <2>5, <3>1, <3>3
    <3>4. CASE i = 3
      <4>1. 2 \in 1 .. i - 1
        BY <3>4
      <4>2. e.seq = f.seq
        BY <2>5, <3>1, <4>1
      <4> QED
        BY <2>2, <2>4, <2>5, <3>1, <3>4, <4>2
    <3> QED
      BY <3>2, <3>3, <3>4
  <2> QED
    BY <2>1, <2>6
<1>12. book' = b /\ pos' = p /\ mboFile' = mboFile /\ GroupEnds(mboFile)' = ends
  BY <1>1
<1>13. InOrder'
  BY <1>10, <1>12 DEF InOrder
<1> QED
  BY <1>1, <1>4, <1>6, <1>11, <1>12, <1>13

\* The first of the reference states are those of the least ranks.
LEMMA RanksOfFirst ==
  ASSUME IsReference(mbpFile), NEW E \in SUBSET States(mbpFile),
         \A i \in E : \A j \in States(mbpFile) : j <= i => j \in E
  PROVE  \A i \in States(mbpFile) : /\ Rank(i) \in Nat /\ Cardinality(E) \in Nat
                                    /\ Rank(i) <= Cardinality(E) <=> i \in E
<1> SUFFICES ASSUME NEW i \in States(mbpFile)
             PROVE  /\ Rank(i) \in Nat /\ Cardinality(E) \in Nat
                    /\ Rank(i) <= Cardinality(E) <=> i \in E
  OBVIOUS
<1> DEFINE upTo == {j \in States(mbpFile) : j <= i}
<1>1. /\ IsFiniteSet(upTo) /\ Cardinality(upTo) \in Nat /\ IsFiniteSet(E) /\ Cardinality(E) \in Nat
      /\ States(mbpFile) \subseteq Nat
  BY RefsAreFinite
<1>2. Rank(i) = Cardinality(upTo)
  BY DEF Rank
<1>3. CASE i \in E
  <2>1. upTo \subseteq E
    BY <1>3
  <2>2. Cardinality(upTo) <= Cardinality(E)
    BY <1>1, <2>1, FS_Subset
  <2> QED
    BY <1>1, <1>2, <1>3, <2>2
<1>4. CASE i \notin E
  <2>1. E \subseteq upTo \ {i} /\ i \in upTo
    BY <1>1, <1>4
  <2>2. IsFiniteSet(upTo \ {i}) /\ Cardinality(upTo \ {i}) = Cardinality(upTo) - 1
    BY <1>1, <2>1, FS_RemoveElement
  <2>3. Cardinality(E) <= Cardinality(upTo \ {i})
    BY <2>1, <2>2, FS_Subset
  <2> HIDE DEF upTo
  <2> QED
    BY <1>1, <1>2, <1>4, <2>2, <2>3
<1> QED
  BY <1>3, <1>4

\* What compare_states compares is all there is to a top.
LEMMA EqualTops ==
  ASSUME NEW t, IsTop(t), NEW u, IsTop(u), Mismatches(t, u) = {}
  PROVE  t = u
<1>1. \A s \in Sides : \A k \in 1 .. TopDepth : /\ t[s][k].price = u[s][k].price
                                                /\ t[s][k].total = u[s][k].total
                                                /\ t[s][k].count = u[s][k].count
  <2>1. SUFFICES ASSUME NEW s \in Sides, NEW k \in 1 .. TopDepth
                 PROVE  /\ t[s][k].price = u[s][k].price /\ t[s][k].total = u[s][k].total
                        /\ t[s][k].count = u[s][k].count
    OBVIOUS
  <2>2. t[s][k]["price"] # u[s][k]["price"] => "top10Prices" \in Mismatches(t, u)
    BY DEF Mismatches
  <2>3. t[s][k]["total"] # u[s][k]["total"] => "top10Sizes" \in Mismatches(t, u)
    BY DEF Mismatches
  <2>4. t[s][k]["count"] # u[s][k]["count"] => "top10OrderCounts" \in Mismatches(t, u)
    BY DEF Mismatches
  <2> QED
    BY <2>2, <2>3, <2>4
<1>2. \A s \in Sides : \A k \in 1 .. TopDepth : t[s][k] = u[s][k]
  <2>1. SUFFICES ASSUME NEW s \in Sides, NEW k \in 1 .. TopDepth PROVE t[s][k] = u[s][k]
    OBVIOUS
  <2>2. PICK l, m : l = t[s][k] /\ m = u[s][k]
    OBVIOUS
  <2>3. IsLevel(l) /\ IsLevel(m)
    BY <2>2 DEF IsTop
  <2>4. l.price = m.price /\ l.total = m.total /\ l.count = m.count
    BY <1>1, <2>2
  <2>5. l = m
    BY ONLY <2>3, <2>4 DEF IsLevel
  <2> QED
    BY <2>2, <2>5
<1>3. \A s \in Sides : t[s] = u[s]
  BY <1>2 DEF IsTop
<1> QED
  BY <1>3 DEF IsTop

\* What has been found stays found.
LEMMA FoundStays ==
  ASSUME UNCHANGED <<mboFile, mbpFile, window>>, Read \subseteq Read'
  PROVE  \A i : Found(i) => Found(i)'
<1> SUFFICES ASSUME NEW i, Found(i) PROVE Found(i)'
  OBVIOUS
<1>1. PICK n \in Read : /\ StateAt(mboFile, n).key = mbpFile[i].key
                        /\ StateAt(mboFile, n).top = mbpFile[i].top
  BY DEF Found
<1>2. n \in Read' /\ mboFile' = mboFile /\ mbpFile' = mbpFile
  BY <1>1
<1>3. StateAt(mboFile', n).key = mbpFile'[i].key /\ StateAt(mboFile', n).top = mbpFile'[i].top
  BY ONLY <1>1, <1>2
<1> QED
  BY <1>2, <1>3 DEF Found

LEMMA ComparePasses ==
  ASSUME Feeds, CountInv, BookInv, PassInv, phase = "verify", pos < Len(mboFile), NEW e, e = mboFile[pos + 1],
         NEW b, b = ApplyEvent(book, e), Counted(b, e), ~(e.ts >= window[2]), Compare(b, e),
         book' = b, pos' = pos + 1, UNCHANGED <<mboFile, mbpFile, window, phase>>
  PROVE  PassInv'
<1>1. /\ b = BookAfter(mboFile, pos + 1) /\ pos \in Nat /\ pos + 1 \in 1 .. Len(mboFile)
      /\ IsKey(Key(e)) /\ e.ts \in Nat /\ pos + 1 \in GroupEnds(mboFile) /\ e.ts >= window[1]
  BY CountedEnds
<1>2. PICK p : p = pos + 1
  OBVIOUS
<1>3. /\ window[1] \in Int /\ window[2] \in Int /\ started \in BOOLEAN /\ mboFile \in MboFiles
      /\ IsReference(mbpFile) /\ refs \subseteq States(mbpFile) /\ IsResult(result)
  BY DEF PassInv, BookInv, CountInv
<1>4. Read' = Read \cup {p}
  <2>1. mboFile[p].ts \in window[1] .. window[2] - 1
    BY <1>1, <1>2, <1>3
  <2> QED
    BY <1>1, <1>2, <2>1, ReadGrows
<1>5. /\ InOrder' /\ (b.warnings = 0 => book.warnings = 0)
      /\ b.warnings = 0 => \A m \in GroupEnds(mboFile) : m <= pos => ~KeyLess(Key(e), Key(mboFile[m]))
  BY <1>1, OrderedStep
<1>6. /\ started' = TRUE /\ IsResult(result')
      /\ \E E : /\ Skips(e, E)
                /\ \/ /\ refs' = refs \ E /\ result'.compared = result.compared
                      /\ result'.mismatches = result.mismatches
                   \/ \E i : Compares(b, e, i, E)
  BY <1>1, <1>3, CompareParts
<1>7. PICK E : /\ Skips(e, E)
               /\ \/ refs' = refs \ E /\ result'.mismatches = result.mismatches
                  \/ \E i : Compares(b, e, i, E)
  BY <1>6
<1>8. /\ E \subseteq refs /\ IsFiniteSet(E) /\ Cardinality(E) \in Nat
      /\ \A i \in E : KeyLess(mbpFile[i].key, Key(e)) /\ \A j \in refs : j <= i => j \in E
      /\ \A i \in E : IsKey(mbpFile[i].key)
  BY <1>3, <1>7, RefsAreFinite DEF Skips, IsReference
<1>9. \A i \in States(mbpFile) : Rank(i)' = Rank(i)
  BY DEF Rank
<1>10. /\ result.mismatches \in Nat /\ result'.mismatches \in Nat
       /\ result.unmatched \in Nat /\ result'.unmatched \in Nat
  BY <1>3, <1>6 DEF IsResult
<1>11. \/ refs' = refs \ E /\ result'.mismatches = result.mismatches
       \/ \E i : /\ i \in refs \ E /\ refs' = (refs \ E) \ {i}
                 /\ result'.mismatches = 0 => result.mismatches = 0 /\ Found(i)'
  <2>1. ASSUME NEW i, Compares(b, e, i, E)
        PROVE  /\ i \in refs \ E /\ refs' = (refs \ E) \ {i}
               /\ result'.mismatches = 0 => result.mismatches = 0 /\ Found(i)'
    <3>1. i \in refs \ E /\ refs' = (refs \ E) \ {i} /\ mbpFile[i].key = Key(e)
      BY <2>1 DEF Compares
    <3>2. result'.mismatches = 0 => result.mismatches = 0 /\ Mismatches(mbpFile[i].top, TopOf(b)) = {}
      BY <1>10, <2>1 DEF Compares
    <3>3. ASSUME result'.mismatches = 0 PROVE Found(i)'
      <4>1. IsTop(mbpFile[i].top)
        BY <1>3, <3>1, RefsAreFinite DEF IsReference
      <4>2. IsTop(TopOf(b))
        BY <1>1, <1>3, BooksAreSound, TopIsTop, VerificationAssumption
      <4>3. mbpFile[i].top = TopOf(b)
        BY <3>2, <3>3, <4>1, <4>2, EqualTops
      <4>4. StateAt(mboFile, p).key = mbpFile[i].key /\ StateAt(mboFile, p).top = mbpFile[i].top
        BY <1>1, <1>2, <3>1, <4>3 DEF StateAt
      <4> QED
        BY <1>4, <4>4 DEF Found
    <3> QED
      BY <3>1, <3>2, <3>3
  <2> QED
    BY <1>7, <2>1
<1>12. \A i : Found(i) => Found(i)'
  BY <1>4, FoundStays
<1>13. ASSUME result'.unmatched = 0, result'.mismatches = 0, NEW i \in Used',
              (Rank(i) > result.beforeReady)'
       PROVE  Found(i)'
  <2>1. result.mismatches = 0
    BY <1>11, <1>13
  <2>2. i \in States(mbpFile) /\ Rank(i) > result'.beforeReady /\ i \notin refs'
    BY <1>9, <1>13 DEF Used
  <2>3. CASE i \in refs \ E
    BY <1>11, <1>13, <2>2, <2>3
  <2>4. CASE i \notin refs \ E
    <3>1. CASE started
      <4>1. /\ result'.beforeReady = result.beforeReady
            /\ result'.unmatched = result.unmatched + Cardinality(E)
        BY <1>7, <3>1 DEF Skips
      <4>2. result.unmatched = 0 /\ Cardinality(E) = 0
        BY <1>8, <1>10, <1>13, <4>1
      <4>3. E = {}
        BY <1>8, <4>2, FS_EmptySet
      <4>4. i \in Used
        BY <2>2, <2>4, <4>3 DEF Used
      <4>5. Found(i)
        BY <2>1, <2>2, <3>1, <4>1, <4>2, <4>4 DEF PassInv
      <4> QED
        BY <1>12, <4>5
    <3>2. CASE ~started
      <4>1. refs = States(mbpFile) /\ result = NoResult
        BY <3>2 DEF PassInv
      <4>2. result'.beforeReady = Cardinality(E)
        BY <1>7, <1>8, <3>2, <4>1 DEF Skips, NoResult
      <4>3. i \in E
        BY <2>2, <2>4, <4>1
      <4>4. Rank(i) \in Nat /\ Rank(i) <= Cardinality(E)
        BY <1>3, <1>8, <2>2, <4>1, <4>3, RanksOfFirst
      <4> QED
        BY <1>8, <2>2, <4>2, <4>4
    <3> QED
      BY <3>1, <3>2
  <2> QED
    BY <2>3, <2>4
<1>14. ASSUME b.warnings = 0, NEW i \in States(mbpFile), (Rank(i) <= result.beforeReady)', NEW n \in Read'
       PROVE  KeyLess(mbpFile[i].key, Key(mboFile[n]))
  <2>1. Rank(i) <= result'.beforeReady /\ book.warnings = 0
    BY <1>5, <1>9, <1>14
  <2>2. IsKey(mbpFile[i].key)
    BY <1>3, RefsAreFinite DEF IsReference
  <2>3. CASE started
    <3>1. Rank(i) <= result.beforeReady
      BY <1>7, <2>1, <2>3 DEF Skips
    <3>2. \A m \in Read : KeyLess(mbpFile[i].key, Key(mboFile[m]))
      BY <2>1, <2>3, <3>1 DEF PassInv
    <3>3. CASE n \in Read
      BY <3>2, <3>3
    <3>4. CASE n = p
      <4>1. PICK m \in Read : TRUE
        BY <2>3 DEF PassInv
      <4>2. m \in GroupEnds(mboFile) /\ m <= pos /\ m \in 1 .. Len(mboFile)
        BY DEF Read, GroupEnds
      <4>3. ~KeyLess(Key(e), Key(mboFile[m]))
        BY <1>5, <1>14, <4>2
      <4>4. KeyLess(mbpFile[i].key, Key(mboFile[m])) /\ IsKey(Key(mboFile[m]))
        BY <1>3, <3>2, <4>2, EventKeys
      <4>5. KeyLess(mbpFile[i].key, Key(e))
        BY <1>1, <2>2, <4>3, <4>4, KeyOrder
      <4> QED
        BY <1>2, <3>4, <4>5
    <3> QED
      BY <1>4, <1>14, <3>3, <3>4
  <2>4. CASE ~started
    <3>1. refs = States(mbpFile) /\ result = NoResult /\ Read = {}
      BY <2>4 DEF PassInv
    <3>2. result'.beforeReady = Cardinality(E)
      BY <1>7, <1>8, <2>4, <3>1 DEF Skips, NoResult
    <3>3. i \in E
      BY <1>3, <1>8, <1>14, <2>1, <3>1, <3>2, RanksOfFirst
    <3>4. KeyLess(mbpFile[i].key, Key(e)) /\ n = p
      BY <1>4, <1>8, <1>14, <3>1, <3>3
    <3> QED
      BY <1>2, <3>4
  <2> QED
    BY <1>3, <2>3, <2>4
<1>15. /\ book' = BookAfter(mboFile', pos') /\ phase' = "verify" /\ started' = TRUE
       /\ Read' # {} /\ window' = window
  BY <1>1, <1>4, <1>6
<1>16. started' /\ result'.unmatched = 0 /\ result'.mismatches = 0 =>
         \A i \in Used' : (Rank(i) > result.beforeReady)' => Found(i)'
  BY <1>13
<1>17. started' /\ book'.warnings = 0 =>
         \A i \in States(mbpFile)' : (Rank(i) <= result.beforeReady)' =>
           \A n \in Read' : KeyLess(mbpFile'[i].key, Key(mboFile'[n]))
  BY <1>14
<1> QED
  BY <1>3, <1>5, <1>15, <1>16, <1>17 DEF PassInv

LEMMA InitPasses ==
  ASSUME VerifyInit
  PROVE  PassInv
<1>1. mboFile \in MboFiles /\ book = EmptyBook /\ pos = 0 /\ window = <<0, 0>>
      /\ refs = {} /\ ~started /\ started \in BOOLEAN /\ phase = "inspect" /\ result = NoResult
  BY DEF VerifyInit
<1>2. book = BookAfter(mboFile, pos) /\ Numbered(book) /\ Sound(book)
  BY <1>1, BookStep, EmptyNumbered, EmptySound
<1>3. \A m \in GroupEnds(mboFile) : ~(m <= pos)
  <2>1. Len(mboFile) \in Nat /\ GroupEnds(mboFile) \subseteq 1 .. Len(mboFile)
    BY <1>1, VerificationAssumption DEF GroupEnds
  <2> QED
    BY <1>1, <2>1
<1>4. result.compared = 0 /\ window[1] \in Int /\ window[2] \in Int
  BY <1>1 DEF NoResult
<1> QED
  BY <1>1, <1>2, <1>3, <1>4 DEF PassInv, InOrder

LEMMA InspectPasses ==
  ASSUME CountInv, BookInv, PassInv, Inspect
  PROVE  PassInv'
<1>1. /\ phase = "inspect" /\ phase' # "done" /\ phase' # "inspect"
      /\ UNCHANGED <<book, mboFile, mbpFile, pos, started, result>>
      /\ phase' = "verify" => refs' = States(mbpFile)
  BY DEF Inspect
<1>2. /\ pos = 0 /\ ~started /\ result = NoResult
  BY <1>1 DEF CountInv, BookInv, PassInv
<1>3. Read' = {}
  <2>1. mboFile \in MboFiles /\ Len(mboFile) \in Nat /\ GroupEnds(mboFile) \subseteq 1 .. Len(mboFile)
    BY VerificationAssumption DEF CountInv, GroupEnds
  <2>2. \A n \in GroupEnds(mboFile) : ~(n <= 0)
    BY <2>1
  <2> QED
    BY <1>1, <1>2, <2>2 DEF Read
<1>4. window'[1] \in Int /\ window'[2] \in Int
  BY InspectWindow
<1>5. InOrder /\ started \in BOOLEAN /\ result.compared = 0
  BY <1>2 DEF PassInv
<1>6. InOrder'
  BY <1>1, <1>5 DEF InOrder
<1> QED
  BY <1>1, <1>2, <1>3, <1>4, <1>5, <1>6 DEF PassInv

\* An event that ends no group of the window, and the end of the verification.
LEMMA QuietPasses ==
  ASSUME CountInv, BookInv, PassInv, phase = "verify", UNCHANGED <<mboFile, mbpFile, window, started>>,
         Read' = Read, InOrder',
         book'.warnings = 0 => book.warnings = 0,
         \/ phase' = "verify" /\ UNCHANGED <<refs, result>>
         \/ phase' = "done" /\ Conclude(book', result, refs)
  PROVE  PassInv'
<1>1. AllCounted /\ result.unmatched \in Nat /\ refs \subseteq States(mbpFile) /\ IsReference(mbpFile)
  BY DEF CountInv, IsResult
<1>2. Cardinality(refs) \in Nat /\ IsFiniteSet(refs)
  BY <1>1, RefsAreFinite
<1>3. /\ result'.compared = result.compared /\ result'.mismatches = result.mismatches
      /\ result'.beforeReady = result.beforeReady
      /\ result'.unmatched = 0 => result.unmatched = 0 /\ (started => Used' = Used \/ refs = {})
  <2>1. CASE UNCHANGED <<refs, result>>
    BY <2>1 DEF Used
  <2>2. CASE Conclude(book', result, refs)
    <3>1. /\ result'.compared = result.compared /\ result'.mismatches = result.mismatches
          /\ result'.beforeReady = result.beforeReady
          /\ result'.unmatched = IF started THEN result.unmatched + Cardinality(refs) ELSE result.unmatched
      BY <1>1, <2>2, ConcludeCounts
    <3>2. result'.unmatched = 0 => result.unmatched = 0 /\ (started => Cardinality(refs) = 0)
      BY <1>1, <1>2, <3>1
    <3> QED
      BY <1>2, <3>1, <3>2, FS_EmptySet
  <2> QED
    BY <2>1, <2>2
<1>4. \A i \in States(mbpFile) : Rank(i)' = Rank(i)
  BY DEF Rank
<1>5. \A i : Found(i) => Found(i)'
  BY FoundStays
<1>6. phase' = "done" => result'.warnings = book'.warnings
  BY ConcludeCounts, <1>1
<1>7. ASSUME started, result'.unmatched = 0, result'.mismatches = 0, NEW i \in Used',
             (Rank(i) > result.beforeReady)'
      PROVE  Found(i)'
  <2>1. i \in Used /\ i \in States(mbpFile)
    BY <1>1, <1>3, <1>7 DEF Used
  <2>2. Rank(i) > result.beforeReady
    BY <1>3, <1>4, <1>7, <2>1
  <2> QED
    BY <1>3, <1>5, <1>7, <2>1, <2>2 DEF PassInv
<1>8. ASSUME started, book'.warnings = 0, NEW i \in States(mbpFile), (Rank(i) <= result.beforeReady)',
             NEW n \in Read
      PROVE  KeyLess(mbpFile[i].key, Key(mboFile[n]))
  BY <1>3, <1>4, <1>8 DEF PassInv
<1>9. started' /\ result'.unmatched = 0 /\ result'.mismatches = 0 =>
        \A i \in Used' : (Rank(i) > result.beforeReady)' => Found(i)'
  BY <1>7
<1>10. started' /\ book'.warnings = 0 =>
         \A i \in States(mbpFile)' : (Rank(i) <= result.beforeReady)' =>
           \A n \in Read' : KeyLess(mbpFile'[i].key, Key(mboFile'[n]))
  BY <1>8
<1>11. /\ started \in BOOLEAN
       /\ ~started => result.compared = 0
       /\ ~started => refs = States(mbpFile) /\ result = NoResult /\ Read = {}
       /\ started => Read # {}
  BY DEF PassInv
<1>12. phase' = "verify" => refs' = refs /\ result' = result
  BY DEF Conclude
<1> QED
  BY <1>3, <1>6, <1>9, <1>10, <1>11, <1>12 DEF PassInv

LEMMA ReadPasses ==
  ASSUME Feeds, CountInv, BookInv, PassInv, ReadEvent
  PROVE  PassInv'
<1>1. PICK e, b : /\ e = mboFile[pos + 1] /\ b = ApplyEvent(book, e) /\ book' = b
                  /\ phase = "verify" /\ pos < Len(mboFile) /\ pos' = pos + 1
                  /\ UNCHANGED <<mboFile, mbpFile, window>>
                  /\ \/ ~Counted(b, e) /\ UNCHANGED <<phase, refs, started, result>>
                     \/ Counted(b, e) /\ e.ts >= window[2] /\ Conclude(b, result, refs) /\ UNCHANGED started
                     \/ Counted(b, e) /\ ~(e.ts >= window[2]) /\ Compare(b, e) /\ UNCHANGED phase
  BY DEF ReadEvent
<1>2. CASE Counted(b, e) /\ ~(e.ts >= window[2]) /\ Compare(b, e) /\ UNCHANGED phase
  BY <1>1, <1>2, ComparePasses
<1>3. /\ b = BookAfter(mboFile, pos + 1) /\ e.ts \in Nat
      /\ Counted(b, e) <=> pos + 1 \in GroupEnds(mboFile) /\ e.ts >= window[1]
  BY <1>1, CountedEnds
<1>4. InOrder' /\ (book'.warnings = 0 => book.warnings = 0)
  BY <1>1, OrderedStep
<1>5. Read' = Read \cup {n \in {pos + 1} : /\ n \in GroupEnds(mboFile)
                                           /\ mboFile[n].ts \in window[1] .. window[2] - 1}
  BY <1>1, ReadGrows
<1>7. window[1] \in Int /\ window[2] \in Int
  BY DEF BookInv
<1>8. CASE ~Counted(b, e) /\ UNCHANGED <<phase, refs, started, result>>
  <2>1. Read' = Read
    BY <1>1, <1>3, <1>5, <1>7, <1>8
  <2> QED
    BY <1>1, <1>4, <1>8, <2>1, QuietPasses
<1>9. CASE Counted(b, e) /\ e.ts >= window[2] /\ Conclude(b, result, refs) /\ UNCHANGED started
  <2>1. Read' = Read
    BY <1>1, <1>3, <1>5, <1>7, <1>9
  <2>2. phase' = "done" /\ Conclude(book', result, refs)
    BY <1>1, <1>9 DEF Conclude
  <2> QED
    BY <1>1, <1>4, <1>9, <2>1, <2>2, QuietPasses
<1> QED
  BY <1>1, <1>2, <1>8, <1>9

LEMMA StepPasses ==
  ASSUME Feeds, CountInv, BookInv, PassInv, [VerifyNext]_vars
  PROVE  PassInv'
<1>1. CASE UNCHANGED vars
  <2>1. /\ UNCHANGED <<book, phase, mboFile, mbpFile, window, pos, refs, started, result>>
    BY <1>1 DEF vars, verifyVars
  <2>2. Read' = Read /\ Used' = Used /\ \A i : Rank(i)' = Rank(i)
    BY <2>1 DEF Read, Used, Rank
  <2>3. \A i : Found(i) => Found(i)'
    BY <2>1, <2>2, FoundStays
  <2> QED
    BY <2>1, <2>2, <2>3 DEF PassInv, InOrder
<1>2. CASE EndOfFile
  <2>1. /\ phase = "verify" /\ phase' = "done" /\ Conclude(book, result, refs)
        /\ UNCHANGED <<book, mboFile, mbpFile, window, pos, started>>
    BY <1>2 DEF EndOfFile, Conclude
  <2>2. Read' = Read
    BY <2>1 DEF Read
  <2>3. InOrder'
    BY <2>1 DEF PassInv, InOrder
  <2>4. Conclude(book', result, refs)
    BY <2>1
  <2> QED
    BY <2>1, <2>2, <2>3, <2>4, QuietPasses
<1> QED
  BY <1>1, <1>2, InspectPasses, ReadPasses DEF VerifyNext

LEMMA PassInvMeans ==
  ASSUME CountInv, BookInv, PassInv
  PROVE  PassedMeansEqual
<1> SUFFICES ASSUME phase = "done", Passed(result)
             PROVE  /\ \A i \in States(mbpFile) :
                         IF Rank(i) > result.beforeReady
                         THEN \E n \in Read : StateAt(mboFile, n).key = mbpFile[i].key
                                              /\ StateAt(mboFile, n).top = mbpFile[i].top
                         ELSE \A n \in Read : Key(mboFile[n]) # mbpFile[i].key
                    /\ BookAfter(mboFile, pos).warnings = 0
  BY DEF PassedMeansEqual
<1>1. /\ result.compared > 0 /\ result.mismatches = 0 /\ result.unmatched = 0 /\ result.warnings = 0
      /\ result.compared \in Nat /\ result.beforeReady \in Nat
  BY DEF Passed, CountInv, IsResult
<1>2. started /\ book.warnings = 0 /\ book = BookAfter(mboFile, pos)
  BY <1>1 DEF PassInv, BookInv
<1>3. refs = {}
  BY <1>2 DEF CountInv
<1>4. Used = States(mbpFile)
  BY <1>3 DEF Used
<1>5. ASSUME NEW i \in States(mbpFile), Rank(i) > result.beforeReady PROVE Found(i)
  BY <1>1, <1>2, <1>4, <1>5 DEF PassInv
<1>6. ASSUME NEW i \in States(mbpFile), ~(Rank(i) > result.beforeReady), NEW n \in Read
      PROVE  Key(mboFile[n]) # mbpFile[i].key
  <2>1. Rank(i) \in Nat /\ IsReference(mbpFile)
    <3>1. IsReference(mbpFile)
      BY DEF CountInv
    <3>2. {j \in States(mbpFile) : j <= i} \in SUBSET States(mbpFile)
      OBVIOUS
    <3> QED
      BY <3>1, <3>2, RefsAreFinite DEF Rank
  <2>2. KeyLess(mbpFile[i].key, Key(mboFile[n]))
    BY <1>1, <1>2, <1>6, <2>1 DEF PassInv
  <2>3. IsKey(mbpFile[i].key)
    BY <2>1, RefsAreFinite DEF IsReference
  <2> QED
    BY <2>2, <2>3, KeyOrder
<1> QED
  BY <1>2, <1>5, <1>6 DEF Found

\* When verify_streams reports a pass, no state of the reference has been left out: each
\* one from the first compared group on has been found equal to the rebuilt book at the
\* end of the group with its key, each one before belongs to no group of the window that
\* was read, and the book met no warning.  It holds of any files that are the feed of one
\* instrument on one channel, with any reference.  The keys of the groups of such a file
\* can only run back with a warning of the book: that is InOrder.
THEOREM PassedVerifications ==
  ASSUME \A s \in MboFiles : OneFeed(s)
  PROVE  VerifySpec => []PassedMeansEqual
<1>1. Feeds
  BY DEF Feeds
<1>2. VerifyInit => CountInv /\ BookInv /\ PassInv
  BY VerifyInitCounts, VerifyInitBook, InitPasses
<1>3. CountInv /\ BookInv /\ PassInv /\ [VerifyNext]_vars => (CountInv /\ BookInv /\ PassInv)'
  BY <1>1, VerifyStepCounts, VerifyStepBook, StepPasses
<1>4. CountInv /\ BookInv /\ PassInv => PassedMeansEqual
  BY PassInvMeans
<1> QED
  BY <1>2, <1>3, <1>4, PTL DEF VerifySpec
-----------------------------------------------------------------------------
(* A faithful reference.                                                   *)

\* The ends of the window's groups.
WindowEnds == {n \in GroupEnds(mboFile) : mboFile[n].ts \in window[1] .. window[2] - 1}

\* The states that are left are those of the groups to come, and those that were
\* consumed were compared and were equal.
Abreast ==
  /\ result.mismatches = 0 /\ result.unmatched = 0 /\ result.beforeReady = 0
  /\ \A i \in States(mbpFile) : \A n \in WindowEnds :
       mbpFile[i].key = Key(mboFile[n]) => (i \in refs <=> n > pos)
  /\ States(mbpFile) \ refs # {} => result.compared > 0

FaithInv == /\ phase = "verify" /\ FaithfulReference => Abreast
            /\ FaithfulReferencePasses

LEMMA FaithfulFacts ==
  ASSUME CountInv, FaithfulReference
  PROVE  /\ \A i \in States(mbpFile) :
              /\ IsKey(mbpFile[i].key) /\ i \in Nat
              /\ \E n \in WindowEnds : /\ mbpFile[i].key = Key(mboFile[n])
                                       /\ mbpFile[i].top = TopOf(BookAfter(mboFile, n))
         /\ \A i, j \in States(mbpFile) : i < j => KeyLess(mbpFile[i].key, mbpFile[j].key)
         /\ \A n \in WindowEnds : IsKey(Key(mboFile[n])) /\ n \in Nat /\ n \in 1 .. Len(mboFile)
                                  /\ n \in GroupEnds(mboFile)
         /\ \A m, n \in WindowEnds : m < n => KeyLess(Key(mboFile[m]), Key(mboFile[n]))
         /\ \A m, n \in WindowEnds : Key(mboFile[m]) = Key(mboFile[n]) => m = n
<1>1. mboFile \in MboFiles /\ Len(mboFile) \in Nat /\ IsReference(mbpFile)
  BY VerificationAssumption DEF CountInv
<1>2. \A n \in WindowEnds : IsKey(Key(mboFile[n])) /\ n \in Nat /\ n \in 1 .. Len(mboFile)
                            /\ n \in GroupEnds(mboFile)
  BY <1>1, EventKeys DEF WindowEnds, GroupEnds
<1>3. \A m, n \in WindowEnds : m < n => KeyLess(Key(mboFile[m]), Key(mboFile[n]))
  BY DEF FaithfulReference, WindowEnds
<1>4. ASSUME NEW m \in WindowEnds, NEW n \in WindowEnds, Key(mboFile[m]) = Key(mboFile[n]), m # n
      PROVE  FALSE
  <2>1. ~KeyLess(Key(mboFile[m]), Key(mboFile[m]))
    BY <1>2, <1>4, KeyOrder
  <2>2. m < n \/ n < m
    BY <1>2, <1>4
  <2> QED
    BY <1>3, <1>4, <2>1, <2>2
<1>5. \A i \in States(mbpFile) : IsKey(mbpFile[i].key) /\ i \in Nat
  BY <1>1, RefsAreFinite DEF IsReference
<1>6. \A i \in States(mbpFile) : \E n \in WindowEnds : /\ mbpFile[i].key = Key(mboFile[n])
                                                      /\ mbpFile[i].top = TopOf(BookAfter(mboFile, n))
  BY DEF FaithfulReference, WindowEnds, StateAt
<1>7. \A i, j \in States(mbpFile) : i < j => KeyLess(mbpFile[i].key, mbpFile[j].key)
  BY DEF FaithfulReference
<1> QED
  BY <1>2, <1>3, <1>4, <1>5, <1>6, <1>7

LEMMA SameTops ==
  ASSUME NEW t
  PROVE  Mismatches(t, t) = {}
BY DEF Mismatches

LEMMA FaithfulCompare ==
  ASSUME CountInv, BookInv, FaithfulReference, Abreast, pos < Len(mboFile),
         NEW e, e = mboFile[pos + 1], NEW b, b = ApplyEvent(book, e), Counted(b, e),
         ~(e.ts >= window[2]), Compare(b, e), pos' = pos + 1, UNCHANGED <<mboFile, mbpFile, window>>
  PROVE  Abreast'
<1>1. PICK p : p = pos + 1
  OBVIOUS
<1>2. /\ b = BookAfter(mboFile, p) /\ pos \in Nat /\ IsKey(Key(e)) /\ e = mboFile[p] /\ p \in WindowEnds
  <2>1. /\ b = BookAfter(mboFile, pos + 1) /\ pos \in Nat /\ IsKey(Key(e)) /\ e.ts \in Nat
        /\ pos + 1 \in GroupEnds(mboFile) /\ e.ts >= window[1]
    BY CountedEnds
  <2>2. window[1] \in Int /\ window[2] \in Int
    BY DEF BookInv
  <2>3. mboFile[p].ts \in window[1] .. window[2] - 1
    BY <1>1, <2>1, <2>2
  <2> QED
    BY <1>1, <2>1, <2>3 DEF WindowEnds
<1>3. IsReference(mbpFile) /\ refs \subseteq States(mbpFile) /\ IsResult(result) /\ refs \subseteq Nat
  BY RefsAreFinite DEF CountInv
<1>4. PICK E : /\ Skips(e, E)
               /\ \/ /\ refs' = refs \ E /\ result'.compared = result.compared
                     /\ result'.mismatches = result.mismatches /\ Misses(e, E)
                  \/ \E i : Compares(b, e, i, E)
  BY <1>2, <1>3, CompareParts
<1>5. /\ result.mismatches = 0 /\ result.unmatched = 0 /\ result.beforeReady = 0
      /\ \A i \in States(mbpFile) : \A n \in WindowEnds :
           mbpFile[i].key = Key(mboFile[n]) => (i \in refs <=> n > pos)
      /\ States(mbpFile) \ refs # {} => result.compared > 0
      /\ result.compared \in Nat
  BY <1>3 DEF Abreast, IsResult
<1>6. E = {}
  <2>1. SUFFICES ASSUME NEW i \in E PROVE FALSE
    OBVIOUS
  <2>2. i \in refs /\ i \in States(mbpFile) /\ KeyLess(mbpFile[i].key, Key(e))
    BY <1>3, <1>4 DEF Skips
  <2>3. PICK n \in WindowEnds : mbpFile[i].key = Key(mboFile[n])
    BY <2>2, FaithfulFacts
  <2>4. n > pos /\ n \in Nat /\ IsKey(mbpFile[i].key)
    BY <1>5, <2>2, <2>3, FaithfulFacts
  <2>5. n = p \/ p < n
    BY <1>1, <1>2, <2>4
  <2>6. ~KeyLess(Key(e), Key(e)) /\ ~KeyLess(Key(e), mbpFile[i].key)
    BY <1>2, <2>2, <2>4, KeyOrder
  <2>7. p < n => KeyLess(Key(e), mbpFile[i].key)
    BY <1>2, <2>3, FaithfulFacts
  <2> QED
    BY <1>2, <2>2, <2>3, <2>5, <2>6, <2>7
<1>7. result'.unmatched = 0 /\ result'.beforeReady = 0
  <2>1. Cardinality(E) = 0
    BY <1>6, FS_EmptySet
  <2> QED
    BY <1>4, <1>5, <2>1 DEF Skips
<1>8. \A n \in WindowEnds : n > pos <=> n > p \/ n = p
  BY <1>1, <1>2, FaithfulFacts
<1>9. CASE /\ refs' = refs \ E /\ result'.compared = result.compared
           /\ result'.mismatches = result.mismatches /\ Misses(e, E)
  <2>1. refs' = refs
    BY <1>6, <1>9
  <2>2. ASSUME NEW i \in refs, mbpFile[i].key = Key(e) PROVE FALSE
    <3>1. PICK m : m = Min(refs)
      OBVIOUS
    <3>2. m \in refs /\ \A j \in refs : m <= j
      BY <1>3, <2>2, <3>1, LeastPlace
    <3>3. KeyLess(Key(e), mbpFile[m].key)
      BY <1>6, <1>9, <3>2 DEF Misses
    <3>4. ~KeyLess(Key(e), Key(e)) /\ ~KeyLess(mbpFile[m].key, Key(e))
      <4>1. IsKey(mbpFile[m].key)
        BY <1>3, <3>2, FaithfulFacts
      <4> QED
        BY <1>2, <3>3, <4>1, KeyOrder
    <3>5. m = i \/ m < i
      <4>1. m \in Nat /\ i \in Nat /\ m <= i
        BY <1>3, <2>2, <3>2
      <4> QED
        BY ONLY <4>1
    <3>6. m < i => KeyLess(mbpFile[m].key, mbpFile[i].key)
      BY <1>3, <2>2, <3>2, FaithfulFacts
    <3> QED
      BY <2>2, <3>3, <3>4, <3>5, <3>6
  <2>3. \A i \in States(mbpFile) : \A n \in WindowEnds :
          mbpFile[i].key = Key(mboFile[n]) => (i \in refs' <=> n > p)
    BY <1>2, <1>5, <1>8, <2>1, <2>2
  <2>4. pos' = p /\ WindowEnds' = WindowEnds
    BY <1>1 DEF WindowEnds
  <2> QED
    BY <1>5, <1>7, <1>9, <2>1, <2>3, <2>4 DEF Abreast
<1>10. CASE \E i : Compares(b, e, i, E)
  <2>1. PICK i : Compares(b, e, i, E)
    BY <1>10
  <2>2. /\ i \in refs /\ i \in States(mbpFile) /\ mbpFile[i].key = Key(e) /\ refs' = refs \ {i}
        /\ result'.compared = result.compared + 1
    BY <1>3, <1>6, <2>1 DEF Compares
  <2>3. mbpFile[i].top = TopOf(b)
    <3>1. PICK n \in WindowEnds : mbpFile[i].key = Key(mboFile[n]) /\ mbpFile[i].top = TopOf(BookAfter(mboFile, n))
      BY <2>2, FaithfulFacts
    <3>2. n = p
      BY <1>2, <2>2, <3>1, FaithfulFacts
    <3> QED
      BY <1>2, <3>1, <3>2
  <2>4. result'.mismatches = 0
    <3>1. Mismatches(mbpFile[i].top, TopOf(b)) = {}
      BY <2>3, SameTops
    <3> QED
      BY <1>5, <2>1, <3>1 DEF Compares
  <2>5. ASSUME NEW j \in States(mbpFile), mbpFile[j].key = Key(e) PROVE j = i
    <3>1. ~KeyLess(Key(e), Key(e))
      BY <1>2, KeyOrder
    <3>2. i \in Nat /\ j \in Nat
      BY <2>2, <2>5, FaithfulFacts
    <3>3. ~(i < j) /\ ~(j < i)
      BY <2>2, <2>5, <3>1, FaithfulFacts
    <3> QED
      BY <3>2, <3>3
  <2>6. \A j \in States(mbpFile) : \A n \in WindowEnds :
          mbpFile[j].key = Key(mboFile[n]) => (j \in refs' <=> n > p)
    <3>1. SUFFICES ASSUME NEW j \in States(mbpFile), NEW n \in WindowEnds, mbpFile[j].key = Key(mboFile[n])
                   PROVE  j \in refs' <=> n > p
      OBVIOUS
    <3>2. j = i <=> n = p
      BY <1>2, <2>2, <2>5, <3>1, FaithfulFacts
    <3>3. n \in Nat /\ p \in Nat
      BY <1>2, FaithfulFacts
    <3> QED
      BY <1>5, <1>8, <2>2, <3>1, <3>2, <3>3
  <2>7. pos' = p /\ WindowEnds' = WindowEnds
    BY <1>1 DEF WindowEnds
  <2>8. result'.compared > 0
    BY <1>5, <2>2
  <2> QED
    BY <1>7, <2>4, <2>6, <2>7, <2>8 DEF Abreast
<1> QED
  BY <1>4, <1>9, <1>10

\* At the end of a verification that read every group of the window, all has been compared.
LEMMA FaithfulEnd ==
  ASSUME CountInv, BookInv, FaithfulReference => Abreast, phase = "verify", NEW b, Numbered(b),
         Conclude(b, result, refs), UNCHANGED <<mboFile, mbpFile, window, started>>,
         FaithfulReference => \A n \in WindowEnds : n <= pos
  PROVE  FaithInv'
<1>1. /\ AllCounted /\ phase' = "done" /\ IsResult(result) /\ refs \subseteq States(mbpFile)
      /\ b.warnings \in Nat
  BY DEF CountInv, Conclude, Numbered, Counts
<1>2. /\ result'.compared = result.compared /\ result'.mismatches = result.mismatches
      /\ result'.warnings = b.warnings
      /\ result'.unmatched = IF started THEN result.unmatched + Cardinality(refs) ELSE result.unmatched
  BY <1>1, ConcludeCounts
<1>3. (FaithfulReference' <=> FaithfulReference) /\ States(mbpFile)' = States(mbpFile)
  BY DEF FaithfulReference
<1>4. ASSUME FaithfulReference, States(mbpFile) # {}
      PROVE  Passed(result') \/ result'.warnings > 0
  <2>1. /\ result.mismatches = 0 /\ result.unmatched = 0
        /\ \A i \in States(mbpFile) : \A n \in WindowEnds :
             mbpFile[i].key = Key(mboFile[n]) => (i \in refs <=> n > pos)
        /\ States(mbpFile) \ refs # {} => result.compared > 0
    BY <1>4 DEF Abreast
  <2>2. pos \in Nat /\ \A n \in WindowEnds : n \in Nat /\ ~(n > pos)
    <3>1. pos \in Nat
      BY VerificationAssumption DEF CountInv
    <3> QED
      BY <1>4, <3>1, FaithfulFacts
  <2>3. refs = {}
    <3>1. SUFFICES ASSUME NEW i \in refs PROVE FALSE
      OBVIOUS
    <3>2. PICK n \in WindowEnds : mbpFile[i].key = Key(mboFile[n])
      BY <1>1, <1>4, FaithfulFacts
    <3> QED
      BY <1>1, <2>1, <2>2, <3>2
  <2>4. Cardinality(refs) = 0
    BY <2>3, FS_EmptySet
  <2>5. result'.compared > 0 /\ result'.mismatches = 0 /\ result'.unmatched = 0
    BY <1>2, <1>4, <2>1, <2>3, <2>4
  <2> QED
    BY <1>1, <1>2, <2>5 DEF Passed
<1> QED
  BY <1>1, <1>3, <1>4 DEF FaithInv, FaithfulReferencePasses

LEMMA FaithfulStep ==
  ASSUME CountInv, BookInv, FaithInv, [VerifyNext]_vars
  PROVE  FaithInv'
<1>1. CASE UNCHANGED vars
  <2>1. UNCHANGED <<phase, mboFile, mbpFile, window, pos, refs, result>>
    BY <1>1 DEF vars, verifyVars
  <2>2. (FaithfulReference' <=> FaithfulReference) /\ (Abreast' <=> Abreast)
    BY <2>1 DEF FaithfulReference, Abreast, WindowEnds
  <2> QED
    BY <2>1, <2>2 DEF FaithInv, FaithfulReferencePasses
<1>2. CASE Inspect
  <2>1. /\ phase = "inspect" /\ phase' # "done" /\ UNCHANGED <<mboFile, mbpFile, pos, result>>
        /\ phase' = "verify" => refs' = States(mbpFile)
    BY <1>2 DEF Inspect
  <2>2. pos = 0 /\ result = NoResult
    BY <2>1 DEF BookInv, CountInv
  <2>3. \A n \in WindowEnds' : n > 0
    <3>1. mboFile \in MboFiles /\ Len(mboFile) \in Nat
      BY VerificationAssumption DEF CountInv
    <3> QED
      BY <2>1, <3>1 DEF WindowEnds, GroupEnds
  <2>4. phase' = "verify" => Abreast'
    BY <2>1, <2>2, <2>3 DEF Abreast, NoResult
  <2> QED
    BY <2>1, <2>4 DEF FaithInv, FaithfulReferencePasses
<1>3. CASE ReadEvent
  <2>1. PICK e, b : /\ e = mboFile[pos + 1] /\ b = ApplyEvent(book, e)
                    /\ phase = "verify" /\ pos < Len(mboFile) /\ pos' = pos + 1
                    /\ UNCHANGED <<mboFile, mbpFile, window>>
                    /\ \/ ~Counted(b, e) /\ UNCHANGED <<phase, refs, started, result>>
                       \/ /\ Counted(b, e) /\ e.ts >= window[2] /\ Conclude(b, result, refs)
                          /\ UNCHANGED started
                       \/ /\ Counted(b, e) /\ ~(e.ts >= window[2]) /\ Compare(b, e)
                          /\ UNCHANGED phase
    BY <1>3 DEF ReadEvent
  <2>2. /\ b = BookAfter(mboFile, pos + 1) /\ e.ts \in Nat /\ IsEvent(e) /\ pos \in Nat
        /\ Counted(b, e) <=> pos + 1 \in GroupEnds(mboFile) /\ e.ts >= window[1]
    BY <2>1, CountedEnds
  <2>3. (FaithfulReference' <=> FaithfulReference) /\ WindowEnds' = WindowEnds
    BY <2>1 DEF FaithfulReference, WindowEnds
  <2>4. window[1] \in Int /\ window[2] \in Int /\ (FaithfulReference => Abreast)
    BY <2>1 DEF BookInv, FaithInv
  <2>5. CASE ~Counted(b, e) /\ UNCHANGED <<phase, refs, started, result>>
    <3>1. pos + 1 \notin WindowEnds
      BY <2>1, <2>2, <2>4, <2>5 DEF WindowEnds
    <3>2. ASSUME FaithfulReference
          PROVE  \A n \in WindowEnds : n > pos + 1 <=> n > pos
      BY <2>2, <3>1, <3>2, FaithfulFacts
    <3>3. FaithfulReference => Abreast'
      BY <2>1, <2>3, <2>4, <2>5, <3>2 DEF Abreast
    <3> QED
      BY <2>1, <2>3, <2>5, <3>3 DEF FaithInv, FaithfulReferencePasses
  <2>6. CASE Counted(b, e) /\ e.ts >= window[2] /\ Conclude(b, result, refs) /\ UNCHANGED started
    <3>1. Numbered(b)
      <4>1. Grows(book, ApplyEvent(book, e))
        BY ONLY <2>2, EventGrows, BookInv DEF BookInv
      <4> QED
        BY <2>1, <4>1 DEF Grows
    <3>2. ASSUME FaithfulReference, NEW n \in WindowEnds PROVE n <= pos
      <4>1. n \in Nat /\ n \in GroupEnds(mboFile) /\ mboFile[n].ts \in window[1] .. window[2] - 1
        BY <3>2, FaithfulFacts DEF WindowEnds
      <4>2. ~(pos + 1 < n)
        <5>1. pos + 1 < n => mboFile[pos + 1].ts <= mboFile[n].ts
          BY <2>2, <2>6, <3>2, <4>1 DEF FaithfulReference
        <5> QED
          BY <2>1, <2>2, <2>4, <2>6, <4>1, <5>1
      <4>3. n # pos + 1
        BY <2>1, <2>2, <2>4, <2>6, <4>1
      <4> QED
        BY <2>2, <4>1, <4>2, <4>3
    <3> QED
      BY <2>1, <2>4, <2>6, <3>1, <3>2, FaithfulEnd
  <2>7. CASE Counted(b, e) /\ ~(e.ts >= window[2]) /\ Compare(b, e) /\ UNCHANGED phase
    <3>1. FaithfulReference => Abreast'
      BY <2>1, <2>4, <2>7, FaithfulCompare
    <3> QED
      BY <2>1, <2>3, <2>7, <3>1 DEF FaithInv, FaithfulReferencePasses
  <2> QED
    BY <2>1, <2>5, <2>6, <2>7
<1>4. CASE EndOfFile
  <2>1. /\ phase = "verify" /\ pos = Len(mboFile) /\ Conclude(book, result, refs)
        /\ UNCHANGED <<mboFile, mbpFile, window, started>>
    BY <1>4 DEF EndOfFile
  <2>2. FaithfulReference => \A n \in WindowEnds : n <= pos
    <3>1. ASSUME FaithfulReference, NEW n \in WindowEnds PROVE n <= pos
      <4>1. n \in 1 .. Len(mboFile) /\ Len(mboFile) \in Nat
        BY <3>1, FaithfulFacts, VerificationAssumption DEF CountInv
      <4> QED
        BY <2>1, <4>1
    <3> QED
      BY <3>1
  <2>3. Numbered(book) /\ (FaithfulReference => Abreast)
    BY <2>1 DEF BookInv, FaithInv
  <2> QED
    BY <2>1, <2>2, <2>3, FaithfulEnd
<1> QED
  BY <1>1, <1>2, <1>3, <1>4 DEF VerifyNext

\* No false alarm: whatever the files, a reference that holds nothing but states of the
\* window's groups, in the order of their keys, passes unless the book itself has met a
\* warning.  It may leave out any group: those only count as without a reference.
THEOREM FaithfulReferencesPass == VerifySpec => []FaithfulReferencePasses
<1>1. VerifyInit => CountInv /\ BookInv /\ FaithInv
  <2>1. VerifyInit => FaithInv
    BY DEF VerifyInit, FaithInv, FaithfulReferencePasses
  <2> QED
    BY <2>1, VerifyInitCounts, VerifyInitBook
<1>2. CountInv /\ BookInv /\ FaithInv /\ [VerifyNext]_vars => (CountInv /\ BookInv /\ FaithInv)'
  BY VerifyStepCounts, VerifyStepBook, FaithfulStep
<1>3. FaithInv => FaithfulReferencePasses
  BY DEF FaithInv
<1> QED
  BY <1>1, <1>2, <1>3, PTL DEF VerifySpec
-----------------------------------------------------------------------------
(* The simulated book beside the rebuilt one.                              *)

\* The simulated book of some orders.
Mirror(o) == [orders |-> o, levels |-> Shows(LevelsOf(o))]

LEMMA LevelTotal ==
  ASSUME NEW o, IsOrders(o), NEW s, NEW p
  PROVE  LevelOf(o, s, p).total \in Nat
<1>1. LevelOf(o, s, p).total = SumFunctionOnSet(Sizes(o), Resting(o, s, p))
  BY LevelParts
<1> QED
  BY <1>1, RestingFinite

LEMMA ShownTotal ==
  ASSUME NEW o, IsOrders(o), NEW m, m.levels = Shows(LevelsOf(o)), NEW s \in Sides, NEW p \in Prices
  PROVE  Shown(m, s, p) = LevelOf(o, s, p).total
<1>1. LevelsOf(o)[s] = [q \in Occupied(o, s) |-> LevelOf(o, s, q)]
  BY SideLevels
<1>2. m.levels[s] = [q \in Occupied(o, s) |-> LevelOf(o, s, q).total]
  BY <1>1 DEF Shows
<1>3. CASE p \in Occupied(o, s)
  BY <1>2, <1>3 DEF Shown
<1>4. CASE p \notin Occupied(o, s)
  <2>1. Resting(o, s, p) = {}
    BY <1>4 DEF Occupied
  <2>2. LevelOf(o, s, p) = [count |-> 0, ids |-> {}, total |-> 0]
    BY <2>1, LevelOccupied
  <2> QED
    BY <1>2, <1>4, <2>2 DEF Shown
<1> QED
  BY <1>3, <1>4

\* Orders that differ at one level make levels that differ there alone.
LEMMA ShowTotal ==
  ASSUME NEW o, NEW n, IsOrders(n), NEW s \in Sides, NEW p \in Prices, Elsewhere(o, n, s, p),
         NEW x
  PROVE  ShowLevel([orders |-> x, levels |-> Shows(LevelsOf(o))], s, p, LevelOf(n, s, p).total)
           = [orders |-> x, levels |-> Shows(LevelsOf(n))]
<1>1. PICK m, l, t, u : /\ l = LevelsOf(o) /\ t = LevelsOf(n) /\ u = LevelOf(n, s, p)
                        /\ m = [orders |-> x, levels |-> Shows(l)]
  OBVIOUS
<1>2. \A q \in Sides : q # s => t[q] = l[q]
  BY <1>1, OtherSides
<1>3. CASE Resting(n, s, p) = {}
  <2>1. u.total = 0
    <3>1. LevelOf(n, s, p) = [count |-> 0, ids |-> {}, total |-> 0]
      BY <1>3, LevelOccupied
    <3> QED
      BY <1>1, <3>1
  <2>2. t[s] = Drop(l[s], p)
    BY <1>1, <1>3, LevelGoes
  <2>3. PICK v : v = Drop(Shows(l)[s], p)
    OBVIOUS
  <2>4. v = [q \in DOMAIN t[s] |-> t[s][q].total]
    <3>1. DOMAIN t[s] = DOMAIN l[s] \ {p} /\ \A q \in DOMAIN t[s] : t[s][q] = l[s][q]
      BY <2>2 DEF Drop, Restrict
    <3>2. Shows(l)[s] = [q \in DOMAIN l[s] |-> l[s][q].total]
      BY DEF Shows
    <3> QED
      BY <2>3, <3>1, <3>2 DEF Drop, Restrict
  <2>5. Shows(t) = [Shows(l) EXCEPT ![s] = v]
    BY <1>2, <2>4 DEF Shows
  <2>6. ShowLevel(m, s, p, u.total) = [m EXCEPT !.levels[s] = Drop(@, p)]
    BY <2>1 DEF ShowLevel
  <2>7. [m EXCEPT !.levels[s] = Drop(@, p)] = [orders |-> x, levels |-> [Shows(l) EXCEPT ![s] = v]]
    BY <1>1, <2>3
  <2> QED
    BY <1>1, <2>5, <2>6, <2>7
<1>4. CASE Resting(n, s, p) # {}
  <2>1. u.total \in Nat /\ u.total > 0
    BY <1>1, <1>4, LevelOccupied, LevelTotal
  <2>2. t[s] = Put(l[s], p, u)
    BY <1>1, <1>4, LevelStays
  <2>3. PICK v : v = Put(Shows(l)[s], p, u.total)
    OBVIOUS
  <2>4. v = [q \in DOMAIN t[s] |-> t[s][q].total]
    <3>1. Shows(l)[s] = [q \in DOMAIN l[s] |-> l[s][q].total]
      BY DEF Shows
    <3> QED
      BY <2>2, <2>3, <3>1 DEF Put
  <2>5. Shows(t) = [Shows(l) EXCEPT ![s] = v]
    BY <1>2, <2>4 DEF Shows
  <2>6. ShowLevel(m, s, p, u.total) = [m EXCEPT !.levels[s] = Put(@, p, u.total)]
    BY <2>1 DEF ShowLevel
  <2>7. [m EXCEPT !.levels[s] = Put(@, p, u.total)]
          = [orders |-> x, levels |-> [Shows(l) EXCEPT ![s] = v]]
    BY <1>1, <2>3
  <2> QED
    BY <1>1, <2>5, <2>6, <2>7
<1> QED
  BY <1>3, <1>4

\* A new order adds its size to its level.
LEMMA RestMirrors ==
  ASSUME NEW o, IsOrders(o), NEW e, e.id \notin DOMAIN o, NewOrder(e) \in Orders
  PROVE  Rest(Mirror(o), e) = Mirror(Put(o, e.id, NewOrder(e)))
<1>1. PICK id, x, n, s, p : id = e.id /\ x = NewOrder(e) /\ n = Put(o, id, x) /\ s = e.side /\ p = e.price
  OBVIOUS
<1>2. /\ s \in Sides /\ p \in Prices /\ e.size \in Nat \ {0}
      /\ s = x.side /\ p = x.price /\ x.size = e.size /\ x \in Orders /\ id \notin DOMAIN o
  BY <1>1 DEF NewOrder, Orders
<1>3. IsOrders(n)
  BY ONLY <1>1, <1>2, IsOrders(o), PutOrders
<1>4. Elsewhere(o, n, s, p)
  <2>1. \A t \in Sides, q \in Prices : t # x.side \/ q # x.price =>
          Resting(n, t, q) = Resting(o, t, q) /\ LevelOf(n, t, q) = LevelOf(o, t, q)
    BY ONLY <1>1, <1>2, IsOrders(o), PutOtherLevel
  <2> QED
    BY <1>2, <2>1 DEF Elsewhere
<1>5. LevelOf(n, s, p).total = LevelOf(o, s, p).total + x.size
  BY ONLY <1>1, <1>2, IsOrders(o), PutOwnLevel
<1>6. Shown(Mirror(o), s, p) = LevelOf(o, s, p).total
  <2>1. Mirror(o).levels = Shows(LevelsOf(o))
    BY DEF Mirror
  <2> QED
    BY <1>2, <2>1, ShownTotal
<1>7. [Mirror(o) EXCEPT !.orders = Put(@, id, x)] = [orders |-> n, levels |-> Shows(LevelsOf(o))]
  BY <1>1 DEF Mirror
<1>8. Rest(Mirror(o), e) = ShowLevel([orders |-> n, levels |-> Shows(LevelsOf(o))], s, p,
                                     Shown([orders |-> n, levels |-> Shows(LevelsOf(o))], s, p) + e.size)
  <2>1. Rest(Mirror(o), e)
          = ShowLevel([Mirror(o) EXCEPT !.orders = Put(@, id, x)], s, p, Shown(Mirror(o), s, p) + e.size)
    BY <1>1, <1>2 DEF Rest
  <2>2. Shown([orders |-> n, levels |-> Shows(LevelsOf(o))], s, p) = Shown(Mirror(o), s, p)
    BY DEF Shown, Mirror
  <2> QED
    BY <1>7, <2>1, <2>2
<1>9. Shown([orders |-> n, levels |-> Shows(LevelsOf(o))], s, p) + e.size = LevelOf(n, s, p).total
  <2>1. Shown([orders |-> n, levels |-> Shows(LevelsOf(o))], s, p) = Shown(Mirror(o), s, p)
    BY DEF Shown, Mirror
  <2> QED
    BY <1>2, <1>5, <1>6, <2>1
<1>10. ShowLevel([orders |-> n, levels |-> Shows(LevelsOf(o))], s, p, LevelOf(n, s, p).total)
         = [orders |-> n, levels |-> Shows(LevelsOf(n))]
  BY ONLY <1>2, <1>3, <1>4, ShowTotal
<1> QED
  BY <1>1, <1>8, <1>9, <1>10 DEF Mirror

\* An order of which a part goes, or all of it.
Less(o, id, size) ==
  IF size < o[id].size THEN [o EXCEPT ![id].size = @ - size] ELSE Drop(o, id)

LEMMA LessOrders ==
  ASSUME NEW o, IsOrders(o), NEW id \in DOMAIN o, NEW size \in Nat, NEW n, n = Less(o, id, size)
  PROVE  /\ IsOrders(n) /\ o[id] \in Orders /\ Elsewhere(o, n, o[id].side, o[id].price)
         /\ LevelOf(n, o[id].side, o[id].price).total
              = LevelOf(o, o[id].side, o[id].price).total - Min({size, o[id].size})
<1>1. PICK x, d, s, p : x = o[id] /\ d = Drop(o, id) /\ s = x.side /\ p = x.price
  OBVIOUS
<1>2. IsOrders(d) /\ id \notin DOMAIN d /\ x \in Orders /\ o = Put(d, id, x)
  BY ONLY <1>1, IsOrders(o), id \in DOMAIN o, KnownOrder
<1>3. s = x.side /\ p = x.price /\ s \in Sides /\ p \in Prices /\ x.size \in Nat \ {0}
  BY <1>1, <1>2 DEF Orders
<1>4. Min({size, x.size}) = IF size <= x.size THEN size ELSE x.size
  BY <1>3, LesserOfTwo
<1>5. \A t \in Sides, q \in Prices : t # x.side \/ q # x.price =>
        Resting(o, t, q) = Resting(d, t, q) /\ LevelOf(o, t, q) = LevelOf(d, t, q)
  BY ONLY <1>2, PutOtherLevel
<1>6. LevelOf(o, s, p).total \in Nat
  BY LevelTotal
<1>7. CASE size < x.size
  <2>1. PICK y : y = [x EXCEPT !.size = x.size - size]
    OBVIOUS
  <2>2. y \in Orders /\ y.side = x.side /\ y.price = x.price /\ y.size = x.size - size
    BY <1>2, <1>3, <1>7, <2>1 DEF Orders
  <2>3. n = Put(d, id, y)
    <3>1. n = [o EXCEPT ![id] = y]
      BY <1>1, <1>7, <2>1 DEF Less
    <3>2. Put(d, id, y) = Put(o, id, y)
      BY <1>1, PutAgain
    <3>3. Put(o, id, y) = [o EXCEPT ![id] = y]
      BY DEF Put, IsOrders
    <3> QED
      BY <3>1, <3>2, <3>3
  <2>4. IsOrders(n)
    BY ONLY <1>2, <2>2, <2>3, PutOrders
  <2>5. LevelOf(n, s, p).total = LevelOf(o, s, p).total - x.size + y.size
    BY ONLY <1>2, <1>3, <2>2, <2>3, ResizeOwnLevel
  <2>6. \A t \in Sides, q \in Prices : t # y.side \/ q # y.price =>
          Resting(n, t, q) = Resting(d, t, q) /\ LevelOf(n, t, q) = LevelOf(d, t, q)
    BY ONLY <1>2, <2>2, <2>3, PutOtherLevel
  <2>7. Elsewhere(o, n, s, p)
    BY <1>3, <1>5, <2>2, <2>6 DEF Elsewhere
  <2>8. LevelOf(n, s, p).total = LevelOf(o, s, p).total - Min({size, x.size})
    BY ONLY <1>3, <1>4, <1>6, <1>7, <2>2, <2>5, size \in Nat
  <2> QED
    BY ONLY <1>1, <1>2, <2>4, <2>7, <2>8
<1>8. CASE ~(size < x.size)
  <2>1. n = d
    BY <1>1, <1>8 DEF Less
  <2>2. LevelOf(d, s, p).total = LevelOf(o, s, p).total - x.size
    BY ONLY <1>2, <1>3, DropOwnLevel
  <2>3. Elsewhere(o, n, s, p)
    BY <1>3, <1>5, <2>1 DEF Elsewhere
  <2>4. Min({size, x.size}) = x.size
    BY <1>3, <1>4, <1>8
  <2>5. LevelOf(n, s, p).total = LevelOf(o, s, p).total - Min({size, x.size})
    BY ONLY <2>1, <2>2, <2>4
  <2> QED
    BY ONLY <1>1, <1>2, <2>1, <2>3, <2>5
<1> QED
  BY <1>7, <1>8

LEMMA TakeOffMirrors ==
  ASSUME NEW o, IsOrders(o), NEW id \in DOMAIN o, NEW size \in Nat
  PROVE  TakeOff(Mirror(o), id, size) = Mirror(Less(o, id, size))
<1>1. PICK n, x, s, p, cut : /\ n = Less(o, id, size) /\ x = o[id] /\ s = x.side /\ p = x.price
                             /\ cut = Min({size, x.size})
  OBVIOUS
<1>2. /\ IsOrders(n) /\ x \in Orders /\ Elsewhere(o, n, s, p)
      /\ LevelOf(n, s, p).total = LevelOf(o, s, p).total - cut
  BY <1>1, LessOrders
<1>3. s \in Sides /\ p \in Prices /\ x.size \in Nat \ {0}
  BY <1>1, <1>2 DEF Orders
<1>4. Mirror(o).orders = o /\ Mirror(o).levels = Shows(LevelsOf(o))
  BY DEF Mirror
<1>5. Shown(Mirror(o), s, p) = LevelOf(o, s, p).total
  BY <1>3, <1>4, ShownTotal
<1>6. ShowLevel([orders |-> n, levels |-> Shows(LevelsOf(o))], s, p, LevelOf(n, s, p).total)
        = [orders |-> n, levels |-> Shows(LevelsOf(n))]
  BY ONLY <1>2, <1>3, ShowTotal
<1>7. (IF cut < x.size THEN [o EXCEPT ![id].size = @ - cut] ELSE Drop(o, id)) = n
  <2>1. cut = IF size <= x.size THEN size ELSE x.size
    BY <1>1, <1>3, LesserOfTwo
  <2>2. cut < x.size <=> size < x.size
    BY <1>3, <2>1
  <2>3. cut < x.size => cut = size
    BY <1>3, <2>1
  <2> QED
    BY <1>1, <2>2, <2>3 DEF Less
<1>8. [Mirror(o) EXCEPT !.orders = n] = [orders |-> n, levels |-> Shows(LevelsOf(o))]
  BY DEF Mirror
<1>9. PICK m : m = Mirror(o)
  OBVIOUS
<1>10. TakeOff(m, id, size) = ShowLevel([m EXCEPT !.orders = n], s, p, Shown(m, s, p) - cut)
  BY ONLY <1>1, <1>4, <1>7, <1>9, id \in DOMAIN o DEF TakeOff
<1> QED
  BY <1>1, <1>2, <1>5, <1>6, <1>8, <1>9, <1>10 DEF Mirror

-----------------------------------------------------------------------------
(* What an event makes of the orders of the rebuilt book.                  *)

LEMMA AddOrders ==
  ASSUME NEW b, Sound(b), NEW e, IsEvent(e), "TOB" \notin e.flags, e.id \notin DOMAIN b.orders
  PROVE  ApplyAdd(b, e).orders = IF Acceptable(e) THEN Put(b.orders, e.id, NewOrder(e)) ELSE b.orders
<1>1. CASE ~Acceptable(e)
  <2>1. Same(b, WarnIfComplete(b))
    BY WarnSame DEF Sound
  <2> QED
    BY <1>1, <2>1 DEF ApplyAdd, Same
<1>2. CASE Acceptable(e)
  <2>1. PICK o, x, u : o = Put(b.orders, e.id, NewOrder(e)) /\ x = NewOrder(e) /\ u = [b EXCEPT !.orders = o]
    OBVIOUS
  <2>2. u.orders = o /\ ApplyAdd(b, e) = AddToLevel(u, e.id, x)
    BY <1>2, <2>1 DEF ApplyAdd, Sound, IsBook, BookFields
  <2>3. IsBook(u) /\ Agrees(u, b.orders) /\ IsOrders(b.orders)
    BY <2>1 DEF Sound, Agrees, IsBook, BookFields
  <2>4. x \in Orders
    BY <1>2, <2>1, NewOrderIsOne
  <2>5. AddToLevel(u, e.id, x).orders = u.orders
    BY ONLY <2>3, <2>4, e.id \notin DOMAIN b.orders, AddAgrees
  <2> QED
    BY <1>2, <2>1, <2>2, <2>5
<1> QED
  BY <1>1, <1>2

LEMMA ModifyOrders ==
  ASSUME NEW b, Sound(b), NEW e, IsEvent(e), Acceptable(e), e.id \in DOMAIN b.orders
  PROVE  ApplyModify(b, e).orders = Put(b.orders, e.id, NewOrder(e))
<1>1. PICK id, d, x, y, r, n, u : /\ id = e.id /\ d = Drop(b.orders, id) /\ x = b.orders[id]
                                  /\ y = NewOrder(e) /\ r = RemoveFromLevel(b, id, x)
                                  /\ n = Put(b.orders, id, y) /\ u = [r EXCEPT !.orders = n]
  OBVIOUS
<1>2. IsOrders(d) /\ id \notin DOMAIN d /\ x \in Orders /\ b.orders = Put(d, id, x)
  BY <1>1, KnownOrder DEF Sound
<1>3. y \in Orders
  BY <1>1, NewOrderIsOne
<1>4. IsBook(r) /\ r.orders = b.orders /\ Agrees(r, d)
  <2>1. IsBook(b) /\ Agrees(b, Put(d, id, x))
    BY <1>2 DEF Sound
  <2>2. /\ IsBook(RemoveFromLevel(b, id, x)) /\ RemoveFromLevel(b, id, x).orders = b.orders
        /\ Agrees(RemoveFromLevel(b, id, x), d)
    BY ONLY <1>2, <2>1, RemoveAgrees
  <2> QED
    BY <1>1, <2>2
<1>5. IsBook(u) /\ Agrees(u, d) /\ u.orders = n
  BY ONLY <1>1, <1>4 DEF Agrees, IsBook, BookFields
<1>6. AddToLevel(u, id, y).orders = u.orders
  BY ONLY <1>2, <1>3, <1>5, AddAgrees
<1>7. ApplyModify(b, e) = AddToLevel(u, id, y)
  <2>1. u = [r EXCEPT !.orders = Put(@, id, y)]
    BY <1>1, <1>4
  <2> QED
    BY <1>1, <2>1 DEF ApplyModify
<1> QED
  BY <1>1, <1>5, <1>6, <1>7

LEMMA StoreKeepsOrders ==
  ASSUME NEW b, IsBook(b), NEW s, NEW p, NEW l
  PROVE  StoreLevel(b, s, p, l).orders = b.orders
<1>1. PICK v, w : v = [b.levels EXCEPT ![s] = Drop(@, p)] /\ w = [b.levels EXCEPT ![s][p] = l]
  OBVIOUS
<1>2. PICK c : c = [b EXCEPT !.levels = v]
  OBVIOUS
<1>3. IsBook(c) /\ c.orders = b.orders
  BY <1>2 DEF IsBook, BookFields
<1>4. NegativeLevel(c).orders = c.orders
  BY <1>3 DEF NegativeLevel, WarnIfComplete, IsBook, BookFields
<1>5. [b EXCEPT !.levels = w].orders = b.orders
  BY DEF IsBook, BookFields
<1>6. StoreLevel(b, s, p, l) \in {NegativeLevel(c), c, [b EXCEPT !.levels = w]}
  BY <1>1, <1>2 DEF StoreLevel
<1> QED
  BY <1>3, <1>4, <1>5, <1>6

LEMMA CancelOrders ==
  ASSUME NEW b, Sound(b), NEW e, IsEvent(e)
  PROVE  ApplyCancel(b, e).orders = IF e.id \in DOMAIN b.orders /\ e.size # 0
                                    THEN Less(b.orders, e.id, e.size) ELSE b.orders
<1>1. Same(b, WarnIfComplete(b))
  BY WarnSame DEF Sound
<1>2. CASE e.id \notin DOMAIN b.orders \/ e.size = 0
  BY <1>1, <1>2 DEF ApplyCancel, UnknownOrder, Same
<1>3. CASE e.id \in DOMAIN b.orders /\ e.size # 0
  <2>1. PICK id, w, cut, x, s, p, l :
          /\ id = e.id /\ w = IF e.size > b.orders[id].size THEN WarnIfComplete(b) ELSE b
          /\ cut = Min({e.size, b.orders[id].size})
          /\ x = b.orders[id] /\ s = x.side /\ p = x.price /\ l = b.levels[s][p]
    OBVIOUS
  <2>2. IsBook(w) /\ w.orders = b.orders /\ w.levels = b.levels
    BY <1>1, <2>1 DEF Same, Sound
  <2>3. x.size \in Nat \ {0} /\ p \in DOMAIN b.levels[s] /\ e.size \in Nat \ {0}
    BY <1>3, <2>1, LevelThere DEF IsEvent
  <2>4. cut = IF e.size <= x.size THEN e.size ELSE x.size
    BY <2>1, <2>3, LesserOfTwo
  <2>5. CASE cut = x.size
    <3>1. PICK u, m : /\ u = [w EXCEPT !.orders = Drop(@, id), !.sideIds[s] = @ \ {id}]
                      /\ m = [count |-> l.count - 1, total |-> l.total - cut, ids |-> l.ids \ {id}]
      OBVIOUS
    <3>2. ApplyCancel(b, e) = StoreLevel(u, s, p, m)
      BY <1>3, <2>1, <2>3, <2>5, <3>1 DEF ApplyCancel
    <3>3. IsBook(u) /\ u.orders = Drop(b.orders, id)
      BY <2>2, <3>1 DEF IsBook, BookFields
    <3>4. ~(e.size < x.size)
      BY <2>3, <2>4, <2>5
    <3>5. ApplyCancel(b, e).orders = u.orders
      BY ONLY <3>2, <3>3, StoreKeepsOrders
    <3>6. Less(b.orders, id, e.size) = Drop(b.orders, id)
      BY ONLY <2>1, <3>4 DEF Less
    <3> QED
      BY ONLY <1>3, <2>1, <3>3, <3>5, <3>6
  <2>6. CASE cut # x.size
    <3>1. PICK u, m : /\ u = [w EXCEPT !.orders[id].size = @ - cut]
                      /\ m = [count |-> l.count, total |-> l.total - cut, ids |-> l.ids]
      OBVIOUS
    <3>2. ApplyCancel(b, e) = StoreLevel(u, s, p, m)
      BY <1>3, <2>1, <2>3, <2>6, <3>1 DEF ApplyCancel
    <3>3. IsBook(u) /\ u.orders = [b.orders EXCEPT ![id].size = @ - cut]
      BY <2>2, <3>1 DEF IsBook, BookFields
    <3>4. e.size < x.size /\ cut = e.size
      BY <2>3, <2>4, <2>6
    <3>5. ApplyCancel(b, e).orders = u.orders
      BY ONLY <3>2, <3>3, StoreKeepsOrders
    <3>6. Less(b.orders, id, e.size) = [b.orders EXCEPT ![id].size = @ - cut]
      BY ONLY <2>1, <3>4 DEF Less
    <3> QED
      BY ONLY <1>3, <2>1, <3>3, <3>5, <3>6
  <2> QED
    BY <2>5, <2>6
<1> QED
  BY <1>2, <1>3

LEMMA EmptyMirror == EmptySim = Mirror(EmptyBook.orders)
<1>1. \A s \in Sides : Occupied(<<>>, s) = {}
  BY DEF Occupied, Resting
<1>2. LevelsOf(<<>>) = [s \in Sides |-> <<>>]
  BY <1>1 DEF LevelsOf
<1>3. Shows(LevelsOf(<<>>)) = [s \in Sides |-> <<>>]
  BY <1>2 DEF Shows
<1> QED
  BY <1>3 DEF Mirror, EmptySim, EmptyBook

\* What a cancel or a fill takes off.
Cut(o, e) == IF e.id \in DOMAIN o /\ e.size # 0 THEN Less(o, e.id, e.size) ELSE o

\* The orders behind an event, by the simulated book.
OrdersAfter(o, e) ==
  CASE e.action = "R" -> <<>>
    [] e.action \in {"C", "F"} -> Cut(o, e)
    [] e.action = "M" -> Put(o, e.id, NewOrder(e))
    [] e.action = "A" -> IF Acceptable(e) THEN Put(o, e.id, NewOrder(e)) ELSE o
    [] OTHER -> o

\* What the simulated book asks of an event, to keep its levels with its orders.
Orderly(o, e) ==
  /\ e.action = "A" => e.price # UndefPrice /\ e.id \notin DOMAIN o
  /\ e.action = "M" => Acceptable(e)

LEMMA CutMirrors ==
  ASSUME NEW o, IsOrders(o), NEW e, e.size \in Nat
  PROVE  TakeOff(Mirror(o), e.id, e.size) = Mirror(Cut(o, e)) /\ IsOrders(Cut(o, e))
<1>1. Mirror(o).orders = o
  BY DEF Mirror
<1>2. CASE e.id \notin DOMAIN o
  BY <1>1, <1>2 DEF TakeOff, Cut
<1>3. CASE e.id \in DOMAIN o
  <2>1. TakeOff(Mirror(o), e.id, e.size) = Mirror(Less(o, e.id, e.size)) /\ IsOrders(Less(o, e.id, e.size))
    BY <1>3, TakeOffMirrors, LessOrders
  <2>2. e.size = 0 => Less(o, e.id, e.size) = o
    <3>1. o[e.id] \in Orders /\ o = [id \in DOMAIN o |-> o[id]]
      BY <1>3 DEF IsOrders
    <3>2. PICK x : x = o[e.id]
      OBVIOUS
    <3>3. x.size > 0 /\ [x EXCEPT !.size = x.size - 0] = x
      BY <3>1, <3>2 DEF Orders
    <3>4. [o EXCEPT ![e.id].size = @ - 0] = o
      BY <3>1, <3>2, <3>3
    <3> QED
      BY <3>2, <3>3, <3>4 DEF Less
  <2> QED
    BY <1>3, <2>1, <2>2 DEF Cut
<1> QED
  BY <1>2, <1>3

\* A modified order is taken off its level and put on its new one.
LEMMA ModifyMirrors ==
  ASSUME NEW o, IsOrders(o), NEW e, IsEvent(e), Acceptable(e)
  PROVE  SimModify(Mirror(o), e) = Mirror(Put(o, e.id, NewOrder(e))) /\ IsOrders(Put(o, e.id, NewOrder(e)))
<1>1. NewOrder(e) \in Orders /\ Mirror(o).orders = o
  BY NewOrderIsOne DEF Mirror
<1>2. CASE e.id \notin DOMAIN o
  BY <1>1, <1>2, RestMirrors, PutOrders DEF SimModify
<1>3. CASE e.id \in DOMAIN o
  <2>1. PICK d : d = Drop(o, e.id)
    OBVIOUS
  <2>2. IsOrders(d) /\ e.id \notin DOMAIN d /\ o[e.id] \in Orders
    BY <1>3, <2>1, KnownOrder
  <2>3. SimModify(Mirror(o), e) = Rest(TakeOff(Mirror(o), e.id, o[e.id].size), e)
    BY <1>1, <1>3 DEF SimModify
  <2>4. TakeOff(Mirror(o), e.id, o[e.id].size) = Mirror(d)
    <3>1. o[e.id].size \in Nat /\ ~(o[e.id].size < o[e.id].size)
      BY <2>2 DEF Orders
    <3>2. Less(o, e.id, o[e.id].size) = d
      BY <2>1, <3>1 DEF Less
    <3> QED
      BY <1>3, <3>1, <3>2, TakeOffMirrors
  <2>5. Rest(Mirror(d), e) = Mirror(Put(d, e.id, NewOrder(e))) /\ IsOrders(Put(d, e.id, NewOrder(e)))
    BY <1>1, <2>2, RestMirrors, PutOrders
  <2>6. Put(d, e.id, NewOrder(e)) = Put(o, e.id, NewOrder(e))
    BY <2>1, PutAgain
  <2> QED
    BY <2>3, <2>4, <2>5, <2>6
<1> QED
  BY <1>2, <1>3

\* The simulated book of some orders becomes that of the orders behind the event.
LEMMA EventMirrors ==
  ASSUME NEW o, IsOrders(o), NEW e, IsEvent(e), Orderly(o, e)
  PROVE  SimApply(Mirror(o), e) = Mirror(OrdersAfter(o, e)) /\ IsOrders(OrdersAfter(o, e))
<1>1. e.size \in Nat
  BY DEF IsEvent
<1>2. CASE e.action = "R"
  <2>1. Mirror(<<>>) = EmptySim /\ IsOrders(<<>>)
    BY EmptyMirror, EmptySound DEF EmptyBook, Sound
  <2> QED
    BY <1>2, <2>1 DEF SimApply, OrdersAfter
<1>3. CASE e.action \in {"C", "F"}
  <2>1. TakeOff(Mirror(o), e.id, e.size) = Mirror(Cut(o, e)) /\ IsOrders(Cut(o, e))
    BY <1>1, CutMirrors
  <2> QED
    BY <1>3, <2>1 DEF SimApply, OrdersAfter
<1>4. CASE e.action = "M"
  <2>1. /\ SimModify(Mirror(o), e) = Mirror(Put(o, e.id, NewOrder(e)))
        /\ IsOrders(Put(o, e.id, NewOrder(e)))
    BY <1>4, ModifyMirrors DEF Orderly
  <2> QED
    BY <1>4, <2>1 DEF SimApply, OrdersAfter
<1>5. CASE e.action = "A"
  <2>1. SimApply(Mirror(o), e) = Rest(Mirror(o), e) /\ e.price # UndefPrice /\ e.id \notin DOMAIN o
    BY <1>5 DEF SimApply, Orderly
  <2>2. CASE Acceptable(e)
    <3>1. NewOrder(e) \in Orders
      BY <2>2, NewOrderIsOne
    <3>2. /\ Rest(Mirror(o), e) = Mirror(Put(o, e.id, NewOrder(e)))
          /\ IsOrders(Put(o, e.id, NewOrder(e)))
      BY <2>1, <3>1, RestMirrors, PutOrders
    <3> QED
      BY <1>5, <2>1, <2>2, <3>2 DEF OrdersAfter
  <2>3. CASE ~Acceptable(e)
    <3>1. e.side \notin Sides \/ e.size = 0
      BY <1>1, <2>1, <2>3 DEF Acceptable
    <3>2. Rest(Mirror(o), e) = Mirror(o)
      BY <3>1 DEF Rest
    <3> QED
      BY <1>5, <2>1, <2>3, <3>2 DEF OrdersAfter
  <2> QED
    BY <2>2, <2>3
<1>6. CASE e.action \notin {"R", "A", "M", "C", "F"}
  BY <1>6 DEF SimApply, OrdersAfter
<1> QED
  BY <1>2, <1>3, <1>4, <1>5, <1>6

\* On a plain event the orders of the rebuilt book become the same, but for fills.
LEMMA PlainOrders ==
  ASSUME NEW b, Sound(b), NEW e, IsEvent(e), PlainEvent(b, e)
  PROVE  ApplyEvent(b, e).orders = IF e.action = "F" THEN b.orders ELSE OrdersAfter(b.orders, e)
<1>1. PICK seen, c, o : /\ seen = ObservePhase(Remember(b, e), e) /\ o = b.orders
                        /\ c = [seen EXCEPT !.primary = e.instrument]
  OBVIOUS
<1>2. Same(b, seen) /\ Same(b, c)
  BY <1>1, SeenSame DEF Sound
<1>3. Sound(c) /\ c.orders = o
  BY <1>1, <1>2, SameSound DEF Same
<1>4. seen.primary = b.primary
  <2>1. Remember(b, e).primary = b.primary /\ IsBook(Remember(b, e))
    <3>1. PICK w : w = Append(IF Len(b.window) >= WindowSize THEN Tail(b.window) ELSE b.window, e)
      OBVIOUS
    <3>2. Remember(b, e) \in {b, [b EXCEPT !.window = w]}
      BY <3>1 DEF Remember
    <3> QED
      BY <3>2 DEF Sound, IsBook, BookFields
  <2>2. PICK r, u, v, w : /\ r = Remember(b, e) /\ u = [r EXCEPT !.status = "SNAPSHOT_LOADING"]
                          /\ v = [r EXCEPT !.status = "POST_SNAPSHOT"]
                          /\ w = [v.natural EXCEPT ![e.channel] = e.seq]
    OBVIOUS
  <2>3. IsBook(v) /\ v.primary = r.primary /\ u.primary = r.primary
    BY <2>1, <2>2 DEF IsBook, BookFields
  <2>4. ObserveSequence(v, e) \in {v, [v EXCEPT !.natural = w], WarnIfComplete(v)}
    BY <2>2 DEF ObserveSequence
  <2>5. ObserveSequence(v, e).primary = r.primary
    BY <2>3, <2>4 DEF IsBook, BookFields, WarnIfComplete
  <2>6. seen \in {u, r, ObserveSequence(v, e)}
    BY <1>1, <2>2 DEF ObservePhase
  <2> QED
    BY <2>1, <2>2, <2>3, <2>5, <2>6
<1>5. ApplyEvent(b, e).orders = ApplyAction(c, e).orders
  <2>1. ApplyEvent(b, e) = FinishGroup(ApplyAction(c, e), e)
    BY <1>1, <1>4 DEF ApplyEvent, PlainEvent, AcceptsInstrument
  <2>2. IsBook(ApplyAction(c, e))
    BY <1>3, ApplyActionSound DEF Sound
  <2> QED
    BY <2>1, <2>2, FinishSame DEF Same
<1>6. CASE e.action = "R"
  <2>1. ApplyAction(c, e).orders = <<>>
    BY <1>3, <1>6 DEF ApplyAction, Clear, Sound, IsBook, BookFields
  <2> QED
    BY <1>5, <1>6, <2>1 DEF OrdersAfter
<1>7. CASE e.action = "A"
  <2>1. "TOB" \notin e.flags /\ e.id \notin DOMAIN o
    BY <1>1, <1>7 DEF PlainEvent
  <2>2. ApplyAction(c, e).orders = IF Acceptable(e) THEN Put(o, e.id, NewOrder(e)) ELSE o
    BY <1>3, <1>7, <2>1, AddOrders DEF ApplyAction
  <2> QED
    BY <1>1, <1>5, <1>7, <2>2 DEF OrdersAfter
<1>8. CASE e.action = "M"
  <2>1. Acceptable(e) /\ e.id \in DOMAIN o
    BY <1>1, <1>8 DEF PlainEvent
  <2>2. ApplyAction(c, e).orders = Put(o, e.id, NewOrder(e))
    BY <1>3, <1>8, <2>1, ModifyOrders DEF ApplyAction
  <2> QED
    BY <1>1, <1>5, <1>8, <2>2 DEF OrdersAfter
<1>9. CASE e.action = "C"
  <2>1. ApplyAction(c, e).orders = Cut(o, e)
    BY <1>3, <1>9, CancelOrders DEF ApplyAction, Cut
  <2> QED
    BY <1>1, <1>5, <1>9, <2>1 DEF OrdersAfter
<1>10. CASE e.action \notin {"R", "A", "M", "C"}
  <2>1. ApplyAction(c, e).orders = o
    BY <1>3, <1>10 DEF ApplyAction
  <2> QED
    BY <1>1, <1>5, <1>10, <2>1 DEF OrdersAfter
<1> QED
  BY <1>6, <1>7, <1>8, <1>9, <1>10

\* Taking fills off as well makes the orders the same for every plain event.
LEMMA FilledOrders ==
  ASSUME NEW b, Sound(b), NEW e, IsEvent(e)
  PROVE  /\ Sound(ApplyWithFills(b, e))
         /\ PlainEvent(b, e) => ApplyWithFills(b, e).orders = OrdersAfter(b.orders, e)
<1>1. PICK c : c = ApplyEvent(b, e)
  OBVIOUS
<1>2. Sound(c) /\ Sound(ApplyCancel(c, e))
  BY <1>1, ApplyEventSound, ApplyCancelSound
<1>3. Sound(ApplyWithFills(b, e))
  BY <1>1, <1>2 DEF ApplyWithFills
<1>4. ASSUME PlainEvent(b, e) PROVE ApplyWithFills(b, e).orders = OrdersAfter(b.orders, e)
  <2>1. c.orders = IF e.action = "F" THEN b.orders ELSE OrdersAfter(b.orders, e)
    BY <1>1, <1>4, PlainOrders
  <2>2. CASE e.action # "F"
    BY <1>1, <2>1, <2>2 DEF ApplyWithFills
  <2>3. CASE e.action = "F"
    <3>1. ApplyCancel(c, e).orders = Cut(c.orders, e)
      BY <1>2, CancelOrders DEF Cut
    <3>2. ApplyWithFills(b, e) = ApplyCancel(c, e)
      BY <1>1, <2>3 DEF ApplyWithFills
    <3> QED
      BY <2>1, <2>3, <3>1, <3>2 DEF OrdersAfter
  <2> QED
    BY <2>2, <2>3
<1> QED
  BY <1>3, <1>4

-----------------------------------------------------------------------------
(* Orders of which fills have taken a part.                                *)

PartOf(o, q) ==
  /\ DOMAIN o \subseteq DOMAIN q
  /\ \A id \in DOMAIN o : o[id].side = q[id].side /\ o[id].price = q[id].price /\ o[id].size <= q[id].size

\* No level of such orders has more than the level of the whole ones.
LEMMA WithinLevels ==
  ASSUME NEW o, IsOrders(o), NEW q, IsOrders(q), PartOf(o, q), NEW s \in Sides, NEW p \in Prices
  PROVE  /\ Resting(o, s, p) \subseteq Resting(q, s, p)
         /\ LevelOf(o, s, p).total <= LevelOf(q, s, p).total
<1> DEFINE S == Resting(o, s, p)
           T == Resting(q, s, p)
<1>1. S \subseteq T /\ S \subseteq DOMAIN o /\ T \subseteq DOMAIN q
  BY DEF Resting, PartOf
<1>2. /\ IsFiniteSet(S) /\ Numbers(Sizes(o), S)
      /\ IsFiniteSet(T) /\ Numbers(Sizes(q), T)
  BY RestingFinite
<1>3. \A x \in S : Sizes(o)[x] <= Sizes(q)[x]
  BY <1>1 DEF Sizes, PartOf
<1>4. PICK key : key = [x \in T |-> x]
  OBVIOUS
<1>5. Matched(Sizes(o), S, Sizes(q), T, key)
  BY <1>1, <1>3, <1>4 DEF Matched
<1> HIDE DEF S, T
<1>6. SumFunctionOnSet(Sizes(o), S) <= SumFunctionOnSet(Sizes(q), T)
  BY ONLY <1>2, <1>5, SumMatched
<1>7. /\ LevelOf(o, s, p).total = SumFunctionOnSet(Sizes(o), S)
      /\ LevelOf(q, s, p).total = SumFunctionOnSet(Sizes(q), T)
  BY LevelParts DEF S, T
<1> QED
  BY <1>1, <1>6, <1>7 DEF S, T

\* What an order less leaves of the fields of the others.
Lessened(o, id, size, n) ==
  /\ DOMAIN n = IF size < o[id].size THEN DOMAIN o ELSE DOMAIN o \ {id}
  /\ \A k \in DOMAIN o : k # id => n[k] = o[k]
  /\ size < o[id].size => /\ n[id].side = o[id].side /\ n[id].price = o[id].price
                          /\ n[id].size = o[id].size - size

LEMMA LessFields ==
  ASSUME NEW o, IsOrders(o), NEW id \in DOMAIN o, NEW size \in Nat
  PROVE  Lessened(o, id, size, Less(o, id, size))
<1>1. PICK n : n = Less(o, id, size)
  OBVIOUS
<1>2. o[id] \in Orders
  BY DEF IsOrders
<1>3. CASE size < o[id].size
  <2>1. PICK x, y : x = o[id] /\ y = [x EXCEPT !.size = x.size - size]
    OBVIOUS
  <2>2. n = [o EXCEPT ![id] = y]
    BY <1>1, <1>3, <2>1 DEF Less
  <2>3. y.side = x.side /\ y.price = x.price /\ y.size = x.size - size
    BY <1>2, <2>1 DEF Orders
  <2>4. Lessened(o, id, size, n)
    BY <1>3, <2>1, <2>2, <2>3 DEF Lessened
  <2> QED
    BY <1>1, <2>4
<1>4. CASE ~(size < o[id].size)
  BY <1>4 DEF Less, Drop, Restrict, Lessened
<1> QED
  BY <1>3, <1>4

LEMMA CutWithin ==
  ASSUME NEW o, IsOrders(o), NEW q, IsOrders(q), PartOf(o, q), NEW e, e.size \in Nat
  PROVE  PartOf(Cut(o, e), q) /\ PartOf(Cut(o, e), Cut(q, e))
<1>1. PICK id, size, m, n : id = e.id /\ size = e.size /\ m = Cut(o, e) /\ n = Cut(q, e)
  OBVIOUS
<1>2. /\ \A k \in DOMAIN o : o[k].size \in Nat \ {0}
      /\ \A k \in DOMAIN q : q[k].size \in Nat \ {0}
  BY DEF IsOrders, Orders
<1>3. CASE size = 0
  BY <1>1, <1>3 DEF Cut
<1>4. CASE size # 0 /\ id \notin DOMAIN q
  BY <1>1, <1>4 DEF Cut, PartOf
<1>5. CASE size # 0 /\ id \in DOMAIN q /\ id \notin DOMAIN o
  <2>1. m = o /\ n = Less(q, id, size)
    BY <1>1, <1>5 DEF Cut
  <2>2. Lessened(q, id, size, Less(q, id, size))
    BY <1>1, <1>5, LessFields
  <2>3. DOMAIN q \ {id} \subseteq DOMAIN n /\ \A k \in DOMAIN q : k # id => n[k] = q[k]
    BY <2>1, <2>2 DEF Lessened
  <2> QED
    BY <1>1, <1>5, <2>1, <2>3 DEF PartOf
<1>6. CASE size # 0 /\ id \in DOMAIN q /\ id \in DOMAIN o
  <2>1. m = Less(o, id, size) /\ n = Less(q, id, size) /\ size \in Nat
    BY <1>1, <1>6 DEF Cut
  <2>2. Lessened(o, id, size, Less(o, id, size)) /\ Lessened(q, id, size, Less(q, id, size))
    BY <1>6, <2>1, LessFields
  <2>3. Lessened(o, id, size, m) /\ Lessened(q, id, size, n)
    BY <2>1, <2>2
  <2>4. o[id].size <= q[id].size /\ o[id].size \in Nat /\ q[id].size \in Nat
    BY <1>2, <1>6 DEF PartOf
  <2>5. ASSUME NEW k \in DOMAIN m
        PROVE  /\ k \in DOMAIN q /\ k \in DOMAIN n
               /\ m[k].side = q[k].side /\ m[k].price = q[k].price /\ m[k].size <= q[k].size
               /\ m[k].side = n[k].side /\ m[k].price = n[k].price /\ m[k].size <= n[k].size
    <3>1. k \in DOMAIN o
      BY <2>3 DEF Lessened
    <3>2. /\ k \in DOMAIN q /\ o[k].side = q[k].side /\ o[k].price = q[k].price
          /\ o[k].size <= q[k].size /\ o[k].size \in Nat /\ q[k].size \in Nat
      BY <1>2, <3>1 DEF PartOf
    <3>3. CASE k # id
      BY <2>3, <3>1, <3>2, <3>3 DEF Lessened
    <3>4. CASE k = id
      <4>1. size < o[id].size
        BY <2>3, <3>4 DEF Lessened
      <4>2. size < q[id].size
        BY <2>1, <2>4, <4>1
      <4>3. o[id].size - size <= q[id].size - size /\ o[id].size - size <= q[id].size
        BY <2>1, <2>4
      <4> QED
        BY <2>3, <3>2, <3>4, <4>1, <4>2, <4>3 DEF Lessened
    <3> QED
      BY <3>3, <3>4
  <2>6. PartOf(m, q) /\ PartOf(m, n)
    BY <2>5 DEF PartOf
  <2> QED
    BY <1>1, <2>6
<1> QED
  BY <1>3, <1>4, <1>5, <1>6

\* A plain event keeps the orders of the simulated book within those of the rebuilt one.
LEMMA WithinStep ==
  ASSUME NEW o, IsOrders(o), NEW q, IsOrders(q), PartOf(o, q), NEW e, IsEvent(e)
  PROVE  PartOf(OrdersAfter(o, e), IF e.action = "F" THEN q ELSE OrdersAfter(q, e))
<1>1. e.size \in Nat
  BY DEF IsEvent
<1>2. PartOf(Cut(o, e), q) /\ PartOf(Cut(o, e), Cut(q, e))
  BY <1>1, CutWithin
<1>3. PartOf(Put(o, e.id, NewOrder(e)), Put(q, e.id, NewOrder(e)))
  <2>1. PICK x : x = NewOrder(e)
    OBVIOUS
  <2>2. x.size <= x.size
    BY <1>1, <2>1 DEF NewOrder
  <2>3. PartOf(Put(o, e.id, x), Put(q, e.id, x))
    BY <2>2 DEF PartOf, Put
  <2> QED
    BY <2>1, <2>3
<1>4. PartOf(<<>>, <<>>)
  BY DEF PartOf
<1>5. CASE e.action = "R"
  BY <1>4, <1>5 DEF OrdersAfter
<1>6. CASE e.action = "C"
  BY <1>2, <1>6 DEF OrdersAfter
<1>7. CASE e.action = "F"
  BY <1>2, <1>7 DEF OrdersAfter
<1>8. CASE e.action = "M"
  BY <1>3, <1>8 DEF OrdersAfter
<1>9. CASE e.action = "A"
  BY <1>3, <1>9 DEF OrdersAfter
<1>10. CASE e.action \notin {"R", "C", "F", "M", "A"}
  BY <1>10 DEF OrdersAfter
<1> QED
  BY <1>5, <1>6, <1>7, <1>8, <1>9, <1>10

-----------------------------------------------------------------------------
(* The book that fills are taken off, behind the first events of a file.   *)

FilledBooks(s, n, f) == f = [k \in 0 .. n |-> IF k = 0 THEN EmptyBook ELSE ApplyWithFills(f[k - 1], s[k])]

LEMMA NextFilled ==
  ASSUME NEW s, NEW n \in Nat, NEW f, FilledBooks(s, n, f)
  PROVE  \E g : FilledBooks(s, n + 1, g)
<1> DEFINE g == [k \in 0 .. n + 1 |-> IF k = 0 THEN EmptyBook ELSE ApplyWithFills(f[k - 1], s[k])]
<1>1. \A k \in 0 .. n : g[k] = f[k]
  BY DEF FilledBooks
<1>2. \A k \in 0 .. n + 1 : k # 0 => k - 1 \in 0 .. n /\ g[k - 1] = f[k - 1]
  BY <1>1
<1>3. g = [k \in 0 .. n + 1 |-> IF k = 0 THEN EmptyBook ELSE ApplyWithFills(g[k - 1], s[k])]
  BY <1>2
<1> QED
  BY <1>3 DEF FilledBooks

LEMMA FilledExist ==
  ASSUME NEW s, NEW n \in Nat
  PROVE  \E f : FilledBooks(s, n, f)
<1> DEFINE Missing == {m \in Nat : ~ \E f : FilledBooks(s, m, f)}
<1> SUFFICES ASSUME Missing # {} PROVE FALSE
  OBVIOUS
<1>1. PICK m \in Missing : \A k \in Missing : m <= k
  BY LeastNatural
<1>2. CASE m = 0
  <2>1. FilledBooks(s, 0, [k \in 0 .. 0 |-> EmptyBook])
    BY DEF FilledBooks
  <2> QED
    BY <1>2, <2>1
<1>3. CASE m # 0
  <2>1. m - 1 \in Nat /\ m - 1 \notin Missing /\ (m - 1) + 1 = m
    BY <1>1, <1>3
  <2>2. \E f : FilledBooks(s, m - 1, f)
    BY <2>1
  <2>3. \E f : FilledBooks(s, (m - 1) + 1, f)
    BY <2>1, <2>2, NextFilled
  <2> QED
    BY <2>1, <2>3
<1> QED
  BY <1>2, <1>3

\* Those of a longer file begin with those of a shorter one.
LEMMA FilledAgree ==
  ASSUME NEW s, NEW n \in Nat, NEW f, FilledBooks(s, n, f), NEW g, FilledBooks(s, n + 1, g)
  PROVE  \A k \in 0 .. n : f[k] = g[k]
<1> DEFINE Wrong == {k \in 0 .. n : f[k] # g[k]}
<1> SUFFICES ASSUME Wrong # {} PROVE FALSE
  OBVIOUS
<1>1. Wrong \subseteq Nat
  OBVIOUS
<1>2. PICK m \in Wrong : \A k \in Wrong : m <= k
  BY <1>1, LeastNatural
<1>3. m # 0
  BY <1>2 DEF FilledBooks
<1>4. m - 1 \in 0 .. n /\ m - 1 \notin Wrong
  BY <1>2, <1>3
<1>5. f[m - 1] = g[m - 1]
  BY <1>4
<1> HIDE DEF Wrong
<1>6. m \in 0 .. n
  BY <1>2 DEF Wrong
<1>7. f[m] = ApplyWithFills(f[m - 1], s[m]) /\ g[m] = ApplyWithFills(g[m - 1], s[m])
  BY <1>3, <1>6 DEF FilledBooks
<1> QED
  BY <1>2, <1>5, <1>7 DEF Wrong

LEMMA FilledIsLast ==
  ASSUME NEW s, NEW n \in Nat
  PROVE  \E f : FilledBooks(s, n, f) /\ FilledBook(s, n) = f[n]
<1> DEFINE books == CHOOSE f : f = [k \in 0 .. n |-> IF k = 0 THEN EmptyBook
                                                     ELSE ApplyWithFills(f[k - 1], s[k])]
<1>1. FilledBook(s, n) = books[n]
  BY DEF FilledBook
<1>2. PICK f : f = [k \in 0 .. n |-> IF k = 0 THEN EmptyBook ELSE ApplyWithFills(f[k - 1], s[k])]
  BY FilledExist DEF FilledBooks
<1>3. books = [k \in 0 .. n |-> IF k = 0 THEN EmptyBook ELSE ApplyWithFills(books[k - 1], s[k])]
  BY <1>2
<1> QED
  BY <1>1, <1>3 DEF FilledBooks

LEMMA FilledStep ==
  ASSUME NEW s, NEW n \in Nat
  PROVE  /\ FilledBook(s, 0) = EmptyBook
         /\ FilledBook(s, n + 1) = ApplyWithFills(FilledBook(s, n), s[n + 1])
<1>1. FilledBook(s, 0) = EmptyBook
  BY FilledIsLast DEF FilledBooks
<1>2. PICK f : FilledBooks(s, n, f) /\ FilledBook(s, n) = f[n]
  BY FilledIsLast
<1>3. n + 1 \in Nat
  OBVIOUS
<1>4. PICK g : FilledBooks(s, n + 1, g) /\ FilledBook(s, n + 1) = g[n + 1]
  BY <1>3, FilledIsLast
<1>5. f[n] = g[n]
  BY <1>2, <1>4, FilledAgree
<1>6. g[n + 1] = ApplyWithFills(g[n], s[n + 1])
  <2>1. n + 1 \in 0 .. n + 1 /\ n + 1 # 0 /\ (n + 1) - 1 = n
    OBVIOUS
  <2>2. g[n + 1] = ApplyWithFills(g[(n + 1) - 1], s[n + 1])
    BY <1>4, <2>1 DEF FilledBooks
  <2> QED
    BY <2>1, <2>2
<1> QED
  BY <1>1, <1>2, <1>4, <1>5, <1>6

LEMMA FilledAreSound ==
  ASSUME NEW s, Len(s) \in Nat, \A k \in 1 .. Len(s) : IsEvent(s[k]), NEW n \in 0 .. Len(s)
  PROVE  Sound(FilledBook(s, n))
<1> DEFINE Bad == {k \in 0 .. Len(s) : ~Sound(FilledBook(s, k))}
<1> SUFFICES ASSUME Bad # {} PROVE FALSE
  OBVIOUS
<1>0. Len(s) \in Nat /\ \A k \in 1 .. Len(s) : IsEvent(s[k])
  OBVIOUS
<1>1. Bad \subseteq Nat
  BY <1>0
<1>2. PICK m \in Bad : \A k \in Bad : m <= k
  BY <1>1, LeastNatural
<1>3. m # 0
  BY <1>2, FilledStep, EmptySound
<1>4. m - 1 \in Nat /\ m - 1 \in 0 .. Len(s) /\ m - 1 \notin Bad /\ (m - 1) + 1 = m /\ m \in 1 .. Len(s)
  BY <1>0, <1>2, <1>3
<1>5. Sound(FilledBook(s, m - 1))
  BY <1>4
<1>6. FilledBook(s, (m - 1) + 1) = ApplyWithFills(FilledBook(s, m - 1), s[(m - 1) + 1])
  BY <1>4, FilledStep
<1>7. Sound(ApplyWithFills(FilledBook(s, m - 1), s[m]))
  BY <1>0, <1>4, <1>5, FilledOrders
<1>8. Sound(FilledBook(s, m))
  BY <1>4, <1>6, <1>7
<1> QED
  BY <1>2, <1>8

-----------------------------------------------------------------------------
(* The order of the events of a file.                                      *)

IsFile(s) == Len(s) \in Nat /\ \A n \in 1 .. Len(s) : IsEvent(s[n]) /\ s[n].channel \in Int

LEMMA EventOrder ==
  ASSUME NEW s, IsFile(s), NEW k \in 1 .. Len(s), NEW l \in 1 .. Len(s), NEW m \in 1 .. Len(s)
  PROVE  /\ ~EventBefore(s, k, k)
         /\ k # l => EventBefore(s, k, l) \/ EventBefore(s, l, k)
         /\ EventBefore(s, k, l) /\ EventBefore(s, l, m) => EventBefore(s, k, m)
<1> DEFINE Moment(n) == Cardinality({j \in 2 .. n : s[j].ts # s[j - 1].ts})
<1>1. \A n \in 1 .. Len(s) : /\ EventKey(s, n) = <<Moment(n), s[n].channel, s[n].seq, n>>
                             /\ Moment(n) \in Int /\ s[n].channel \in Int /\ s[n].seq \in Int /\ n \in Int
  <2> TAKE n \in 1 .. Len(s)
  <2>1. n \in Nat /\ s[n].channel \in Int /\ s[n].seq \in Nat
    BY DEF IsFile, IsEvent
  <2>2. IsFiniteSet(2 .. n)
    BY <2>1, FS_Interval
  <2>3. Moment(n) \in Nat
    BY <2>2, FS_Subset, FS_CardinalityType
  <2> QED
    BY <2>1, <2>3 DEF EventKey
<1> HIDE DEF Moment
<1>2. PICK t, c, q : t = [n \in 1 .. Len(s) |-> Moment(n)] /\ c = [n \in 1 .. Len(s) |-> s[n].channel]
                     /\ q = [n \in 1 .. Len(s) |-> s[n].seq]
  OBVIOUS
<1>3. \A n \in 1 .. Len(s) : /\ EventKey(s, n) = <<t[n], c[n], q[n], n>>
                             /\ t[n] \in Int /\ c[n] \in Int /\ q[n] \in Int /\ n \in Int
  BY <1>1, <1>2
<1>4. ASSUME NEW a \in 1 .. Len(s), NEW b \in 1 .. Len(s)
      PROVE  EventBefore(s, a, b) <=> \/ t[a] < t[b]
                                      \/ t[a] = t[b] /\ c[a] < c[b]
                                      \/ t[a] = t[b] /\ c[a] = c[b] /\ q[a] < q[b]
                                      \/ t[a] = t[b] /\ c[a] = c[b] /\ q[a] = q[b] /\ a < b
  <2>1. PICK x, y : x = <<t[a], c[a], q[a], a>> /\ y = <<t[b], c[b], q[b], b>>
    OBVIOUS
  <2>2. EventBefore(s, a, b) <=> \E i \in 1 .. 4 : x[i] < y[i] /\ \A j \in 1 .. i - 1 : x[j] = y[j]
    BY <1>3, <2>1 DEF EventBefore
  <2>3. (\E i \in 1 .. 4 : x[i] < y[i] /\ \A j \in 1 .. i - 1 : x[j] = y[j])
          <=> \/ x[1] < y[1] /\ \A j \in 1 .. 1 - 1 : x[j] = y[j]
              \/ x[2] < y[2] /\ \A j \in 1 .. 2 - 1 : x[j] = y[j]
              \/ x[3] < y[3] /\ \A j \in 1 .. 3 - 1 : x[j] = y[j]
              \/ x[4] < y[4] /\ \A j \in 1 .. 4 - 1 : x[j] = y[j]
    BY ONLY TRUE
  <2>4. /\ \A j \in 1 .. 1 - 1 : x[j] = y[j]
        /\ (\A j \in 1 .. 2 - 1 : x[j] = y[j]) <=> x[1] = y[1]
        /\ (\A j \in 1 .. 3 - 1 : x[j] = y[j]) <=> x[1] = y[1] /\ x[2] = y[2]
        /\ (\A j \in 1 .. 4 - 1 : x[j] = y[j]) <=> x[1] = y[1] /\ x[2] = y[2] /\ x[3] = y[3]
    BY ONLY TRUE
  <2> QED
    BY ONLY <2>1, <2>2, <2>3, <2>4
<1>5. k \in 1 .. Len(s) /\ l \in 1 .. Len(s) /\ m \in 1 .. Len(s)
  OBVIOUS
<1> DEFINE Ahead(a, b) == \/ t[a] < t[b]
                          \/ t[a] = t[b] /\ c[a] < c[b]
                          \/ t[a] = t[b] /\ c[a] = c[b] /\ q[a] < q[b]
                          \/ t[a] = t[b] /\ c[a] = c[b] /\ q[a] = q[b] /\ a < b
<1>6. /\ EventBefore(s, k, k) <=> Ahead(k, k)
      /\ EventBefore(s, k, l) <=> Ahead(k, l)
      /\ EventBefore(s, l, k) <=> Ahead(l, k)
      /\ EventBefore(s, l, m) <=> Ahead(l, m)
      /\ EventBefore(s, k, m) <=> Ahead(k, m)
  BY ONLY <1>4, <1>5
<1>7. /\ t[k] \in Int /\ c[k] \in Int /\ q[k] \in Int /\ k \in Int
      /\ t[l] \in Int /\ c[l] \in Int /\ q[l] \in Int /\ l \in Int
      /\ t[m] \in Int /\ c[m] \in Int /\ q[m] \in Int /\ m \in Int
  BY ONLY <1>3, <1>5
<1>8. /\ ~Ahead(k, k)
      /\ k # l => Ahead(k, l) \/ Ahead(l, k)
      /\ Ahead(k, l) /\ Ahead(l, m) => Ahead(k, m)
  <2>1. ~Ahead(k, k)
    BY ONLY <1>7
  <2>2. k # l => Ahead(k, l) \/ Ahead(l, k)
    BY ONLY <1>7
  <2>3. Ahead(k, l) /\ Ahead(l, m) => Ahead(k, m)
    BY ONLY <1>7
  <2> HIDE DEF Ahead
  <2> QED
    BY ONLY <2>1, <2>2, <2>3
<1> HIDE DEF Ahead
<1> QED
  BY ONLY <1>6, <1>8

\* Where an event of a file stands among its events in order.
PlaceOf(s, k) == Cardinality({l \in 1 .. Len(s) : EventBefore(s, l, k)}) + 1

LEMMA EventsHavePlaces ==
  ASSUME NEW s, IsFile(s)
  PROVE  /\ Len(s) \in Nat /\ Len(Normalized(s)) = Len(s)
         /\ \A n \in 1 .. Len(s) : \E k \in 1 .. Len(s) : Normalized(s)[n] = s[k]
         /\ \A k \in 1 .. Len(s) : PlaceOf(s, k) \in 1 .. Len(s) /\ Normalized(s)[PlaceOf(s, k)] = s[k]
         /\ \A k, n \in 1 .. Len(s) : EventBefore(s, k, n) => PlaceOf(s, k) < PlaceOf(s, n)
<1> DEFINE D == 1 .. Len(s)
           Lower(n) == {l \in D : EventBefore(s, l, n)}
           f == [n \in D |-> Cardinality(Lower(n)) + 1]
<1>1. Len(s) \in Nat /\ IsFiniteSet(D) /\ Cardinality(D) = Len(s)
  BY FS_Interval DEF IsFile
<1>2. ASSUME NEW n \in D
      PROVE  /\ IsFiniteSet(Lower(n)) /\ Cardinality(Lower(n)) \in Nat
             /\ n \notin Lower(n) /\ Cardinality(Lower(n)) < Len(s)
  <2>1. IsFiniteSet(Lower(n)) /\ Cardinality(Lower(n)) \in Nat
    BY <1>1, FS_Subset, FS_CardinalityType
  <2>2. n \notin Lower(n)
    BY EventOrder
  <2>3. IsFiniteSet(D \ {n}) /\ Cardinality(D \ {n}) = Len(s) - 1
    BY <1>1, FS_RemoveElement
  <2>4. Lower(n) \subseteq D \ {n}
    BY <2>2
  <2>5. Cardinality(Lower(n)) <= Cardinality(D \ {n})
    BY <2>3, <2>4, FS_Subset
  <2> QED
    BY <1>1, <2>1, <2>2, <2>3, <2>5
<1>3. ASSUME NEW k \in D, NEW n \in D, EventBefore(s, k, n)
      PROVE  Cardinality(Lower(k)) < Cardinality(Lower(n))
  <2>1. Lower(k) \cup {k} \subseteq Lower(n)
    BY <1>3, EventOrder
  <2>2. Cardinality(Lower(k) \cup {k}) = Cardinality(Lower(k)) + 1
    BY <1>2, FS_AddElement
  <2>3. Cardinality(Lower(k) \cup {k}) <= Cardinality(Lower(n))
    BY <1>2, <2>1, FS_Subset
  <2>4. Cardinality(Lower(k)) \in Nat /\ Cardinality(Lower(n)) \in Nat
    BY <1>2
  <2> HIDE DEF Lower, D
  <2> QED
    BY ONLY <2>2, <2>3, <2>4
<1>4. f \in Injection(D, D)
  <2>1. f \in [D -> D]
    <3>1. ASSUME NEW n \in D PROVE Cardinality(Lower(n)) + 1 \in D
      <4>1. PICK c : c = Cardinality(Lower(n))
        OBVIOUS
      <4>2. c \in Nat /\ c < Len(s)
        BY <1>2, <4>1
      <4>3. c + 1 \in 1 .. Len(s)
        BY ONLY <1>1, <4>2
      <4> QED
        BY <4>1, <4>3
    <3> QED
      BY <3>1
  <2>2. ASSUME NEW k \in D, NEW n \in D, k # n PROVE f[k] # f[n]
    <3>1. EventBefore(s, k, n) \/ EventBefore(s, n, k)
      BY <2>2, EventOrder
    <3>2. \/ Cardinality(Lower(k)) < Cardinality(Lower(n))
          \/ Cardinality(Lower(n)) < Cardinality(Lower(k))
      <4>1. CASE EventBefore(s, k, n)
        BY <1>3, <4>1
      <4>2. CASE EventBefore(s, n, k)
        BY <1>3, <4>2
      <4> QED
        BY <3>1, <4>1, <4>2
    <3>3. Cardinality(Lower(k)) \in Nat /\ Cardinality(Lower(n)) \in Nat
      BY <1>2
    <3>4. f[k] = Cardinality(Lower(k)) + 1 /\ f[n] = Cardinality(Lower(n)) + 1
      OBVIOUS
    <3> HIDE DEF f, Lower, D
    <3> QED
      BY ONLY <3>2, <3>3, <3>4
  <2> QED
    BY <2>1, <2>2 DEF Injection, IsInjective
<1>5. f \in Surjection(D, D)
  BY <1>1, <1>4, FS_Injection
<1>6. \A n \in D : \E k \in D : f[k] = n
  BY <1>5 DEF Surjection
<1>7. PICK places : places = {<<k, Cardinality(Lower(k)) + 1>> : k \in D}
  OBVIOUS
<1>8. Normalized(s) = [n \in D |-> s[CHOOSE k \in D : <<k, n>> \in places]]
  BY <1>7 DEF Normalized
<1>9. \A n \in D : \E k \in D : <<k, n>> \in places
  <2> TAKE n \in D
  <2>1. PICK k \in D : f[k] = n
    BY <1>6
  <2>2. n = Cardinality(Lower(k)) + 1
    BY <2>1
  <2>3. <<k, Cardinality(Lower(k)) + 1>> \in places
    BY <1>7
  <2> QED
    BY <2>2, <2>3
<1>10. \A n \in D : \E k \in D : Normalized(s)[n] = s[k]
  BY <1>8, <1>9
<1>11. Len(Normalized(s)) = Len(s)
  BY <1>1, <1>8
<1>12. ASSUME NEW k \in D PROVE PlaceOf(s, k) \in D /\ Normalized(s)[PlaceOf(s, k)] = s[k]
  <2>1. PICK n : n = PlaceOf(s, k)
    OBVIOUS
  <2>2. n = f[k] /\ n \in D
    BY <1>4, <2>1 DEF PlaceOf, Injection
  <2>3. PICK j : j = CHOOSE i \in D : <<i, n>> \in places
    OBVIOUS
  <2>4. j \in D /\ <<j, n>> \in places
    BY <1>9, <2>2, <2>3
  <2>5. f[j] = n
    BY <1>7, <2>4
  <2>6. j = k
    BY <1>4, <2>2, <2>4, <2>5 DEF Injection, IsInjective
  <2> QED
    BY <1>8, <2>1, <2>2, <2>3, <2>6
<1>13. ASSUME NEW k \in D, NEW n \in D, EventBefore(s, k, n) PROVE PlaceOf(s, k) < PlaceOf(s, n)
  <2>1. PICK a, b : a = Cardinality(Lower(k)) /\ b = Cardinality(Lower(n))
    OBVIOUS
  <2>2. a < b /\ a \in Nat /\ b \in Nat
    BY <1>2, <1>3, <1>13, <2>1
  <2>3. PlaceOf(s, k) = a + 1 /\ PlaceOf(s, n) = b + 1
    BY <2>1 DEF PlaceOf
  <2> QED
    BY ONLY <2>2, <2>3
<1> QED
  BY <1>1, <1>10, <1>11, <1>12, <1>13

\* The events of a file in order are the events of the file.
LEMMA NormalizedIsFile ==
  ASSUME NEW s, IsFile(s)
  PROVE  /\ Len(Normalized(s)) = Len(s)
         /\ \A n \in 1 .. Len(s) : \E k \in 1 .. Len(s) : Normalized(s)[n] = s[k]
         /\ IsFile(Normalized(s))
<1>1. PICK t : t = Normalized(s)
  OBVIOUS
<1>2. /\ Len(s) \in Nat /\ Len(t) = Len(s)
      /\ \A n \in 1 .. Len(s) : \E k \in 1 .. Len(s) : t[n] = s[k]
  BY <1>1, EventsHavePlaces
<1>3. IsFile(t)
  BY <1>2 DEF IsFile
<1> QED
  BY <1>1, <1>2, <1>3

-----------------------------------------------------------------------------
(* The two books of the gate.                                              *)

FilesInv ==
  /\ IsFile(dayFile) /\ IsFile(tape)
  /\ stage = "gate" => at \in 0 .. Len(tape)

\* What a step may do to the simulated book of the gate.
GateBegins == at' = 0 /\ sim' = EmptySim

GateGoesOn ==
  /\ stage = "gate" /\ at < Len(tape) /\ at' = at + 1 /\ tape' = tape
  /\ sim' = SimApply(sim, tape[at + 1])

GateRests == UNCHANGED <<stage, at, tape, sim>>

LEMMA FilesInit ==
  ASSUME SessionInit
  PROVE  FilesInv /\ stage = "scan"
<1>1. dayFile \in SessionFiles /\ tape = <<>> /\ stage = "scan"
  BY DEF SessionInit
<1>2. IsFile(dayFile)
  BY <1>1, SessionAssumption DEF IsFile
<1>3. IsFile(tape)
  BY <1>1 DEF IsFile
<1> QED
  BY <1>1, <1>2, <1>3 DEF FilesInv

LEMMA GateSteps ==
  ASSUME FilesInv, [SessionNext]_<<book, backtestVars, sessionVars>>
  PROVE  FilesInv' /\ (stage' = "gate" => GateBegins \/ GateGoesOn \/ GateRests)
<1>0. /\ IsFile(dayFile) /\ IsFile(tape) /\ Len(tape) \in Nat
      /\ stage = "gate" => at \in 0 .. Len(tape)
  BY DEF FilesInv, IsFile
<1>1. CASE ScanEvent
  <2>1. /\ dayFile' = dayFile /\ tape' = tape /\ stage' \in {"scan", "failed"}
    BY <1>1 DEF ScanEvent
  <2> QED
    BY <1>0, <2>1 DEF FilesInv
<1>2. CASE EndOfScan
  <2>1. at' = 0 /\ sim' = EmptySim /\ tape' = Normalized(dayFile) /\ dayFile' = dayFile
    BY <1>2 DEF EndOfScan
  <2>2. PICK s : s = Normalized(dayFile)
    OBVIOUS
  <2>3. IsFile(s)
    BY <1>0, <2>2, NormalizedIsFile
  <2>4. 0 \in 0 .. Len(s)
    BY <2>3 DEF IsFile
  <2> QED
    BY <1>0, <2>1, <2>2, <2>3, <2>4 DEF FilesInv, GateBegins
<1>3. CASE GateEvent
  <2>1. GateGoesOn /\ dayFile' = dayFile
    BY <1>3 DEF GateEvent, BacktestEvent, sessionVars, GateGoesOn
  <2>2. at' \in 0 .. Len(tape) /\ tape' = tape
    BY <1>0, <2>1 DEF GateGoesOn
  <2> QED
    BY <1>0, <2>1, <2>2 DEF FilesInv
<1>4. CASE EndOfGate
  <2>1. stage' = "done" /\ tape' = tape /\ dayFile' = dayFile
    BY <1>4 DEF EndOfGate, EndOfBacktest
  <2> QED
    BY <1>0, <2>1 DEF FilesInv
<1>5. CASE GateFails
  <2>1. stage' = "failed" /\ tape' = tape /\ dayFile' = dayFile
    BY <1>5 DEF GateFails, OutOfOrder, backtestVars
  <2> QED
    BY <1>0, <2>1 DEF FilesInv
<1>6. CASE UNCHANGED <<book, backtestVars, sessionVars>>
  BY <1>0, <1>6 DEF backtestVars, sessionVars, FilesInv, GateRests
<1> QED
  BY <1>1, <1>2, <1>3, <1>4, <1>5, <1>6 DEF SessionNext

\* The book that fills are taken off.
SimInv == stage = "gate" /\ PlainFilledFeed(at) => sim = Mirror(FilledBook(tape, at).orders)

LEMMA SimInvMeans ==
  ASSUME FilesInv, SimInv
  PROVE  SimulatedBookAgrees
<1> SUFFICES ASSUME stage = "gate", PlainFilledFeed(at)
             PROVE  sim.levels = Shows(FilledBook(tape, at).levels)
  BY DEF SimulatedBookAgrees
<1>1. PICK b : b = FilledBook(tape, at)
  OBVIOUS
<1>2. Sound(b)
  BY <1>1, FilledAreSound DEF FilesInv, IsFile
<1>3. sim = Mirror(b.orders) /\ b.levels = LevelsOf(b.orders)
  BY <1>1, <1>2 DEF SimInv, Sound, Agrees
<1> QED
  BY <1>1, <1>3 DEF Mirror

LEMMA SimInvStep ==
  ASSUME FilesInv, SimInv, [SessionNext]_<<book, backtestVars, sessionVars>>
  PROVE  SimInv'
<1> SUFFICES ASSUME stage' = "gate", PlainFilledFeed(at)'
             PROVE  sim' = Mirror(FilledBook(tape', at').orders)
  BY DEF SimInv
<1>0. /\ IsFile(tape) /\ Len(tape) \in Nat
      /\ stage = "gate" => at \in 0 .. Len(tape)
  BY DEF FilesInv, IsFile
<1>1. GateBegins \/ GateGoesOn \/ GateRests
  BY GateSteps
<1>2. CASE GateBegins
  <2>1. FilledBook(tape', 0) = EmptyBook
    BY FilledStep
  <2> QED
    BY <1>2, <2>1, EmptyMirror DEF GateBegins
<1>3. CASE GateGoesOn
  <2>1. /\ stage = "gate" /\ at' = at + 1 /\ tape' = tape /\ sim' = SimApply(sim, tape[at + 1])
        /\ at + 1 \in 1 .. Len(tape) /\ at \in Nat /\ (at + 1) - 1 = at
    BY <1>0, <1>3 DEF GateGoesOn
  <2>2. PICK b, e : b = FilledBook(tape, at) /\ e = tape[at + 1]
    OBVIOUS
  <2>3. Sound(b) /\ IsEvent(e)
    BY <1>0, <2>1, <2>2, FilledAreSound DEF IsFile
  <2>4. \A k \in 1 .. at + 1 : PlainEvent(FilledBook(tape, k - 1), tape[k])
    BY <2>1 DEF PlainFilledFeed
  <2>5. PlainFilledFeed(at)
    BY <2>1, <2>4 DEF PlainFilledFeed
  <2>6. PlainEvent(b, e)
    <3>1. PlainEvent(FilledBook(tape, (at + 1) - 1), tape[at + 1])
      BY <2>1, <2>4
    <3> QED
      BY <2>1, <2>2, <3>1
  <2>7. sim = Mirror(b.orders)
    BY <2>1, <2>2, <2>5 DEF SimInv
  <2>8. IsOrders(b.orders) /\ Orderly(b.orders, e)
    BY <2>3, <2>6 DEF Sound, PlainEvent, Orderly
  <2>9. SimApply(Mirror(b.orders), e) = Mirror(ApplyWithFills(b, e).orders)
    BY <2>3, <2>6, <2>8, EventMirrors, FilledOrders
  <2>10. FilledBook(tape, at + 1) = ApplyWithFills(b, e)
    BY <2>1, <2>2, FilledStep
  <2> QED
    BY <2>1, <2>2, <2>7, <2>9, <2>10
<1>4. CASE GateRests
  BY <1>4 DEF GateRests, SimInv, PlainFilledFeed
<1> QED
  BY <1>1, <1>2, <1>3, <1>4

\* The simulated book of the gate shows at every price what the rebuilt book of the
\* same events would show if fills were taken off its orders (SimulatedBookAgrees),
\* for every file of events, with any fills, whatever is decided on them
\* (SimulatedBook, OrderBook).
THEOREM SimulatedBooksAgree == SessionSpec => []SimulatedBookAgrees
<1>1. SessionInit => FilesInv /\ SimInv
  BY FilesInit DEF SimInv
<1>2. FilesInv /\ SimInv /\ [SessionNext]_<<book, backtestVars, sessionVars>> => (FilesInv /\ SimInv)'
  BY GateSteps, SimInvStep
<1>3. FilesInv /\ SimInv => SimulatedBookAgrees
  BY SimInvMeans
<1> QED
  BY <1>1, <1>2, <1>3, PTL DEF SessionSpec

\* The simulated book is that of its orders, and those are within the rebuilt ones.
PartInv ==
  stage = "gate" /\ PlainFeed(at) =>
    \E o : sim = Mirror(o) /\ IsOrders(o) /\ PartOf(o, BookAfter(tape, at).orders)

LEMMA PartInvMeans ==
  ASSUME FilesInv, PartInv
  PROVE  NoVolumeInvented
<1> SUFFICES ASSUME stage = "gate", PlainFeed(at), NEW s \in Sides, NEW p \in DOMAIN sim.levels[s]
             PROVE  /\ p \in DOMAIN BookAfter(tape, at).levels[s]
                    /\ sim.levels[s][p] <= BookAfter(tape, at).levels[s][p].total
  BY DEF NoVolumeInvented
<1>1. PICK b : b = BookAfter(tape, at)
  OBVIOUS
<1>2. Sound(b)
  BY <1>1, BooksAreSound DEF FilesInv, IsFile
<1>3. PICK o : sim = Mirror(o) /\ IsOrders(o) /\ PartOf(o, b.orders)
  BY <1>1 DEF PartInv
<1>4. b.levels = LevelsOf(b.orders) /\ IsOrders(b.orders)
  BY <1>2 DEF Sound, Agrees
<1>5. sim.levels[s] = [q \in Occupied(o, s) |-> LevelOf(o, s, q).total]
  <2>1. LevelsOf(o)[s] = [q \in Occupied(o, s) |-> LevelOf(o, s, q)]
    BY SideLevels
  <2>2. sim.levels = Shows(LevelsOf(o))
    BY <1>3 DEF Mirror
  <2> QED
    BY <2>1, <2>2 DEF Shows
<1>6. b.levels[s] = [q \in Occupied(b.orders, s) |-> LevelOf(b.orders, s, q)]
  BY <1>4, SideLevels
<1>7. p \in Prices /\ p \in Occupied(o, s) /\ Resting(o, s, p) # {}
  BY <1>5, SideLevels DEF Occupied
<1>8. /\ Resting(o, s, p) \subseteq Resting(b.orders, s, p)
      /\ LevelOf(o, s, p).total <= LevelOf(b.orders, s, p).total
  BY <1>3, <1>4, <1>7, WithinLevels
<1>9. p \in Occupied(b.orders, s)
  BY <1>7, <1>8 DEF Occupied
<1> QED
  BY <1>1, <1>5, <1>6, <1>7, <1>8, <1>9

LEMMA PartInvStep ==
  ASSUME FilesInv, PartInv, [SessionNext]_<<book, backtestVars, sessionVars>>
  PROVE  PartInv'
<1> SUFFICES ASSUME stage' = "gate", PlainFeed(at)'
             PROVE  \E o : sim' = Mirror(o) /\ IsOrders(o) /\ PartOf(o, BookAfter(tape', at').orders)
  BY DEF PartInv
<1>0. /\ IsFile(tape) /\ Len(tape) \in Nat
      /\ stage = "gate" => at \in 0 .. Len(tape)
  BY DEF FilesInv, IsFile
<1>1. GateBegins \/ GateGoesOn \/ GateRests
  BY GateSteps
<1>2. CASE GateBegins
  <2>1. BookAfter(tape', 0) = EmptyBook
    BY BookStep
  <2>2. IsOrders(EmptyBook.orders)
    BY EmptySound DEF Sound
  <2>3. PartOf(EmptyBook.orders, EmptyBook.orders)
    BY DEF PartOf, EmptyBook
  <2> QED
    BY <1>2, <2>1, <2>2, <2>3, EmptyMirror DEF GateBegins
<1>3. CASE GateGoesOn
  <2>1. /\ stage = "gate" /\ at' = at + 1 /\ tape' = tape /\ sim' = SimApply(sim, tape[at + 1])
        /\ at + 1 \in 1 .. Len(tape) /\ at \in Nat /\ (at + 1) - 1 = at
    BY <1>0, <1>3 DEF GateGoesOn
  <2>2. PICK b, e : b = BookAfter(tape, at) /\ e = tape[at + 1]
    OBVIOUS
  <2>3. Sound(b) /\ IsEvent(e)
    BY <1>0, <2>1, <2>2, BooksAreSound DEF IsFile
  <2>4. \A k \in 1 .. at + 1 : PlainEvent(BookAfter(tape, k - 1), tape[k])
    BY <2>1 DEF PlainFeed
  <2>5. PlainFeed(at)
    BY <2>1, <2>4 DEF PlainFeed
  <2>6. PlainEvent(b, e)
    <3>1. PlainEvent(BookAfter(tape, (at + 1) - 1), tape[at + 1])
      BY <2>1, <2>4
    <3> QED
      BY <2>1, <2>2, <3>1
  <2>7. PICK o : sim = Mirror(o) /\ IsOrders(o) /\ PartOf(o, b.orders)
    BY <2>1, <2>2, <2>5 DEF PartInv
  <2>8. IsOrders(b.orders) /\ Orderly(o, e)
    BY <2>3, <2>6, <2>7 DEF Sound, PlainEvent, Orderly, PartOf
  <2>9. SimApply(sim, e) = Mirror(OrdersAfter(o, e)) /\ IsOrders(OrdersAfter(o, e))
    BY <2>3, <2>7, <2>8, EventMirrors
  <2>10. PartOf(OrdersAfter(o, e), ApplyEvent(b, e).orders)
    <3>1. PartOf(OrdersAfter(o, e), IF e.action = "F" THEN b.orders ELSE OrdersAfter(b.orders, e))
      BY <2>3, <2>7, <2>8, WithinStep
    <3> QED
      BY <2>3, <2>6, <3>1, PlainOrders
  <2>11. BookAfter(tape, at + 1) = ApplyEvent(b, e)
    BY <2>1, <2>2, BookStep
  <2> QED
    BY <2>1, <2>2, <2>9, <2>10, <2>11
<1>4. CASE GateRests
  BY <1>4 DEF GateRests, PartInv, PlainFeed
<1> QED
  BY <1>1, <1>2, <1>3, <1>4

\* The gate never fills on volume that is not there (NoVolumeInvented): for every
\* file of events, with any fills, the simulated book shows at no price more than the
\* rebuilt one (SimulatedBook, OrderBook, market_fill).
THEOREM NoVolumeIsInvented == SessionSpec => []NoVolumeInvented
<1>1. SessionInit => FilesInv /\ PartInv
  BY FilesInit DEF PartInv
<1>2. FilesInv /\ PartInv /\ [SessionNext]_<<book, backtestVars, sessionVars>> => (FilesInv /\ PartInv)'
  BY GateSteps, PartInvStep
<1>3. FilesInv /\ PartInv => NoVolumeInvented
  BY PartInvMeans
<1> QED
  BY <1>1, <1>2, <1>3, PTL DEF SessionSpec
=============================================================================
