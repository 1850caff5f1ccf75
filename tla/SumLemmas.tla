------------------------------ MODULE SumLemmas ------------------------------
(***************************************************************************)
(* Sums of the values a function takes on a finite set, as the operator    *)
(* SumFunctionOnSet of Functions computes them: an element counts once,    *)
(* whichever is taken first, and more elements never make a sum of         *)
(* naturals smaller.  Inductions are on the size of a set, in the form of  *)
(* a least counterexample.                                                 *)
(***************************************************************************)
EXTENDS Integers, FiniteSetsExt, WellFoundedInduction, FiniteSetTheorems, TLAPS

\* The element a fold takes first, and what the fold is on every subset of S.
Taken(S) == CHOOSE x \in S : TRUE
Folds(a, S, f) == f = [s \in SUBSET S |-> IF s = {} THEN 0 ELSE a[Taken(s)] + f[s \ {Taken(s)}]]
Numbers(a, S) == \A x \in S : a[x] \in Nat
-----------------------------------------------------------------------------
LEMMA LeastNatural ==
  ASSUME NEW T \in SUBSET Nat, T # {}
  PROVE  \E m \in T : \A n \in T : m <= n
<1>1. PICK m \in T : \A n \in T : ~ (<<n, m>> \in OpToRel(<, Nat))
  BY NatLessThanWellFounded, WFMin
<1>2. \A n \in T : ~(n < m)
  BY <1>1 DEF OpToRel
<1> QED
  BY <1>2

\* Of the sets of a class of finite sets one has the fewest elements.
LEMMA SmallestSet ==
  ASSUME NEW C, C # {}, \A s \in C : IsFiniteSet(s)
  PROVE  \E s \in C : \A t \in C : Cardinality(s) <= Cardinality(t)
<1>1. {Cardinality(s) : s \in C} \in SUBSET Nat /\ {Cardinality(s) : s \in C} # {}
  BY FS_CardinalityType
<1>2. PICK m \in {Cardinality(s) : s \in C} : \A n \in {Cardinality(s) : s \in C} : m <= n
  BY <1>1, LeastNatural
<1> QED
  BY <1>2

LEMMA FirstIn ==
  ASSUME NEW S, S # {}
  PROVE  Taken(S) \in S
BY DEF Taken

\* Taking an element away makes a finite set smaller.
LEMMA Smaller ==
  ASSUME NEW S, IsFiniteSet(S), NEW x \in S
  PROVE  /\ IsFiniteSet(S \ {x}) /\ Cardinality(S \ {x}) \in Nat /\ Cardinality(S) \in Nat
         /\ Cardinality(S \ {x}) < Cardinality(S) /\ Cardinality(S \ {x}) = Cardinality(S) - 1
<1>1. IsFiniteSet(S \ {x}) /\ Cardinality(S \ {x}) = Cardinality(S) - 1
  BY FS_RemoveElement
<1>2. Cardinality(S \ {x}) \in Nat /\ Cardinality(S) \in Nat
  BY <1>1, FS_CardinalityType
<1> QED
  BY <1>1, <1>2

\* The fold exists on every finite set: from the subsets of at most n
\* elements it goes on to those of n + 1.
Level(S, n) == {s \in SUBSET S : Cardinality(s) <= n}
FoldsUpTo(a, S, n, f) ==
  f = [s \in Level(S, n) |-> IF s = {} THEN 0 ELSE a[Taken(s)] + f[s \ {Taken(s)}]]

LEMMA NextLevel ==
  ASSUME NEW a, NEW S, IsFiniteSet(S), NEW n \in Nat, NEW f, FoldsUpTo(a, S, n, f)
  PROVE  \E g : FoldsUpTo(a, S, n + 1, g)
<1> DEFINE g == [s \in Level(S, n + 1) |-> IF s = {} THEN 0 ELSE a[Taken(s)] + f[s \ {Taken(s)}]]
<1>1. \A s \in Level(S, n + 1) : s # {} => s \ {Taken(s)} \in Level(S, n)
  <2> TAKE s \in Level(S, n + 1)
  <2> HAVE s # {}
  <2>1. IsFiniteSet(s) /\ Taken(s) \in s /\ s \in SUBSET S /\ Cardinality(s) <= n + 1
    BY FirstIn, FS_Subset DEF Level
  <2>2. Cardinality(s \ {Taken(s)}) = Cardinality(s) - 1 /\ Cardinality(s) \in Nat
    BY <2>1, Smaller
  <2> QED
    BY <2>1, <2>2 DEF Level
<1>2. Level(S, n) \subseteq Level(S, n + 1)
  <2>1. \A s \in SUBSET S : Cardinality(s) \in Nat
    BY FS_Subset, FS_CardinalityType
  <2> QED
    BY <2>1 DEF Level
<1>3. \A s \in Level(S, n) : g[s] = f[s]
  BY <1>2 DEF FoldsUpTo
<1>4. \A s \in Level(S, n + 1) : s # {} => g[s \ {Taken(s)}] = f[s \ {Taken(s)}]
  BY <1>1, <1>3
<1>5. g = [s \in Level(S, n + 1) |-> IF s = {} THEN 0 ELSE a[Taken(s)] + g[s \ {Taken(s)}]]
  BY <1>4
<1> QED
  BY <1>5 DEF FoldsUpTo

LEMMA EveryLevel ==
  ASSUME NEW a, NEW S, IsFiniteSet(S), NEW n \in Nat
  PROVE  \E f : FoldsUpTo(a, S, n, f)
<1> DEFINE Missing == {m \in Nat : ~ \E f : FoldsUpTo(a, S, m, f)}
<1> SUFFICES ASSUME Missing # {} PROVE FALSE
  OBVIOUS
<1>1. PICK m \in Missing : \A k \in Missing : m <= k
  BY LeastNatural
<1>2. CASE m = 0
  <2>1. \A s \in Level(S, 0) : s = {}
    <3>1. \A s \in SUBSET S : IsFiniteSet(s) /\ Cardinality(s) \in Nat
      BY FS_Subset, FS_CardinalityType
    <3> QED
      BY <3>1, FS_EmptySet DEF Level
  <2>2. FoldsUpTo(a, S, 0, [s \in Level(S, 0) |-> 0])
    BY <2>1 DEF FoldsUpTo
  <2> QED
    BY <1>2, <2>2
<1>3. CASE m # 0
  <2>1. m - 1 \in Nat /\ m - 1 \notin Missing /\ (m - 1) + 1 = m
    BY <1>1, <1>3
  <2>2. \E f : FoldsUpTo(a, S, m - 1, f)
    BY <2>1
  <2>3. \E f : FoldsUpTo(a, S, (m - 1) + 1, f)
    BY <2>1, <2>2, NextLevel
  <2> QED
    BY <2>1, <2>3
<1> QED
  BY <1>2, <1>3

LEMMA FoldExists ==
  ASSUME NEW a, NEW S, IsFiniteSet(S)
  PROVE  \E f : Folds(a, S, f)
<1>1. Cardinality(S) \in Nat /\ \A s \in SUBSET S : Cardinality(s) <= Cardinality(S)
  BY FS_Subset, FS_CardinalityType
<1>2. Level(S, Cardinality(S)) = SUBSET S
  BY <1>1 DEF Level
<1>3. PICK f : FoldsUpTo(a, S, Cardinality(S), f)
  BY <1>1, EveryLevel
<1>4. Folds(a, S, f)
  BY <1>2, <1>3 DEF Folds, FoldsUpTo
<1> QED
  BY <1>4

LEMMA SumUnfolds ==
  ASSUME NEW a, NEW S, IsFiniteSet(S)
  PROVE  \E f : Folds(a, S, f) /\ SumFunctionOnSet(a, S) = f[S]
<1> DEFINE iter == CHOOSE f : f = [s \in SUBSET S |->
                     IF s = {} THEN 0 ELSE a[CHOOSE x \in s : TRUE] + f[s \ {CHOOSE x \in s : TRUE}]]
<1>1. SumFunctionOnSet(a, S) = iter[S]
  BY DEF SumFunctionOnSet, FoldFunctionOnSet, MapThenFoldSet
<1>2. PICK f : Folds(a, S, f)
  BY FoldExists
<1>3. f = [s \in SUBSET S |-> IF s = {} THEN 0 ELSE a[CHOOSE x \in s : TRUE] + f[s \ {CHOOSE x \in s : TRUE}]]
  BY <1>2 DEF Folds, Taken
<1>4. iter = [s \in SUBSET S |-> IF s = {} THEN 0 ELSE a[CHOOSE x \in s : TRUE] + iter[s \ {CHOOSE x \in s : TRUE}]]
  BY <1>3
<1>5. Folds(a, S, iter)
  BY <1>4 DEF Folds, Taken
<1> QED
  BY <1>1, <1>5
-----------------------------------------------------------------------------
\* Two folds agree where both are defined.
LEMMA FoldsAgree ==
  ASSUME NEW a, NEW S, IsFiniteSet(S), NEW T, IsFiniteSet(T), NEW f, Folds(a, S, f), NEW g, Folds(a, T, g),
         NEW U \in SUBSET S, U \subseteq T
  PROVE  f[U] = g[U]
<1> DEFINE Differ == {s \in SUBSET U : f[s] # g[s]}
<1> SUFFICES ASSUME Differ # {} PROVE FALSE
  OBVIOUS
<1>1. \A s \in Differ : IsFiniteSet(s)
  BY FS_Subset
<1>2. PICK s \in Differ : \A t \in Differ : Cardinality(s) <= Cardinality(t)
  BY <1>1, SmallestSet
<1>3. CASE s = {}
  BY <1>2, <1>3 DEF Folds
<1>4. CASE s # {}
  <2>1. Taken(s) \in s /\ IsFiniteSet(s)
    BY <1>1, <1>2, <1>4, FirstIn
  <2>2. Cardinality(s \ {Taken(s)}) < Cardinality(s) /\ Cardinality(s) \in Nat /\ Cardinality(s \ {Taken(s)}) \in Nat
    BY <2>1, Smaller
  <2>3. s \ {Taken(s)} \notin Differ
    BY <1>2, <2>2
  <2>4. f[s \ {Taken(s)}] = g[s \ {Taken(s)}]
    BY <1>2, <2>3
  <2>5. f[s] = a[Taken(s)] + f[s \ {Taken(s)}] /\ g[s] = a[Taken(s)] + g[s \ {Taken(s)}]
    BY <1>2, <1>4 DEF Folds
  <2> QED
    BY <1>2, <2>4, <2>5
<1> QED
  BY <1>3, <1>4

LEMMA SumOfNothing ==
  ASSUME NEW a
  PROVE  SumFunctionOnSet(a, {}) = 0
<1>1. IsFiniteSet({})
  BY FS_EmptySet
<1>2. PICK f : Folds(a, {}, f) /\ SumFunctionOnSet(a, {}) = f[{}]
  BY <1>1, SumUnfolds
<1> QED
  BY <1>2 DEF Folds

LEMMA SumTakesFirst ==
  ASSUME NEW a, NEW S, IsFiniteSet(S), S # {}
  PROVE  SumFunctionOnSet(a, S) = a[Taken(S)] + SumFunctionOnSet(a, S \ {Taken(S)})
<1> DEFINE R == S \ {Taken(S)}
<1>1. IsFiniteSet(R)
  BY FS_Subset
<1>2. PICK f : Folds(a, S, f) /\ SumFunctionOnSet(a, S) = f[S]
  BY SumUnfolds
<1>3. PICK g : Folds(a, R, g) /\ SumFunctionOnSet(a, R) = g[R]
  BY <1>1, SumUnfolds
<1>4. f[R] = g[R]
  BY <1>1, <1>2, <1>3, FoldsAgree
<1>5. f[S] = a[Taken(S)] + f[R]
  BY <1>2 DEF Folds
<1> QED
  BY <1>2, <1>3, <1>4, <1>5

\* A sum of naturals is one.
LEMMA SumType ==
  ASSUME NEW a, NEW S, IsFiniteSet(S), Numbers(a, S)
  PROVE  SumFunctionOnSet(a, S) \in Nat
<1> DEFINE Bad == {s \in SUBSET S : SumFunctionOnSet(a, s) \notin Nat}
<1> SUFFICES ASSUME Bad # {} PROVE FALSE
  OBVIOUS
<1>1. \A s \in Bad : IsFiniteSet(s)
  BY FS_Subset
<1>2. PICK s \in Bad : \A t \in Bad : Cardinality(s) <= Cardinality(t)
  BY <1>1, SmallestSet
<1>3. s # {}
  BY <1>2, SumOfNothing
<1>4. Taken(s) \in s /\ IsFiniteSet(s)
  BY <1>1, <1>2, <1>3, FirstIn
<1>5. Cardinality(s \ {Taken(s)}) < Cardinality(s) /\ Cardinality(s) \in Nat /\ Cardinality(s \ {Taken(s)}) \in Nat
  BY <1>4, Smaller
<1>6. s \ {Taken(s)} \notin Bad
  BY <1>2, <1>5
<1>7. SumFunctionOnSet(a, s \ {Taken(s)}) \in Nat /\ a[Taken(s)] \in Nat
  BY <1>2, <1>4, <1>6 DEF Numbers
<1>8. SumFunctionOnSet(a, s) = a[Taken(s)] + SumFunctionOnSet(a, s \ {Taken(s)})
  BY <1>3, <1>4, SumTakesFirst
<1> QED
  BY <1>2, <1>7, <1>8

\* Any element may be taken first.
LEMMA SumTakes ==
  ASSUME NEW a, NEW S, IsFiniteSet(S), Numbers(a, S), NEW x \in S
  PROVE  SumFunctionOnSet(a, S) = a[x] + SumFunctionOnSet(a, S \ {x})
<1> DEFINE Bad == {s \in SUBSET S : \E y \in s : SumFunctionOnSet(a, s) # a[y] + SumFunctionOnSet(a, s \ {y})}
<1> SUFFICES ASSUME Bad # {} PROVE FALSE
  OBVIOUS
<1>1. \A s \in Bad : IsFiniteSet(s)
  BY FS_Subset
<1>2. PICK s \in Bad : \A t \in Bad : Cardinality(s) <= Cardinality(t)
  BY <1>1, SmallestSet
<1>3. PICK y \in s : SumFunctionOnSet(a, s) # a[y] + SumFunctionOnSet(a, s \ {y})
  BY <1>2
<1>4. PICK z : z = Taken(s)
  OBVIOUS
<1>5. z \in s /\ IsFiniteSet(s) /\ s \subseteq S /\ s # {}
  BY <1>1, <1>2, <1>3, <1>4, FirstIn
<1>6. SumFunctionOnSet(a, s) = a[z] + SumFunctionOnSet(a, s \ {z})
  BY <1>4, <1>5, SumTakesFirst
<1>7. y # z
  BY <1>3, <1>6
<1>8. \A w \in s : s \ {w} \notin Bad
  <2> TAKE w \in s
  <2>1. Cardinality(s \ {w}) < Cardinality(s) /\ Cardinality(s) \in Nat /\ Cardinality(s \ {w}) \in Nat
    BY <1>5, Smaller
  <2>2. s \ {w} \in Bad => Cardinality(s) <= Cardinality(s \ {w})
    BY <1>2, Zenon
  <2>3. ~(Cardinality(s) <= Cardinality(s \ {w}))
    BY <2>1
  <2> QED
    BY <2>2, <2>3, Zenon
<1>9. SumFunctionOnSet(a, s \ {z}) = a[y] + SumFunctionOnSet(a, (s \ {z}) \ {y})
  BY <1>3, <1>5, <1>7, <1>8
<1>10. SumFunctionOnSet(a, s \ {y}) = a[z] + SumFunctionOnSet(a, (s \ {y}) \ {z})
  BY <1>3, <1>5, <1>7, <1>8
<1>11. (s \ {z}) \ {y} = (s \ {y}) \ {z}
  OBVIOUS
<1>12. PICK R : R = (s \ {z}) \ {y}
  OBVIOUS
<1>13. a[y] \in Nat /\ a[z] \in Nat /\ SumFunctionOnSet(a, R) \in Nat
  <2>1. IsFiniteSet(R) /\ Numbers(a, R)
    BY <1>5, <1>12, FS_Subset DEF Numbers
  <2> QED
    BY <1>3, <1>5, <2>1, SumType DEF Numbers
<1>14. SumFunctionOnSet(a, s \ {z}) = a[y] + SumFunctionOnSet(a, R) /\ SumFunctionOnSet(a, s \ {y}) = a[z] + SumFunctionOnSet(a, R)
  BY <1>9, <1>10, <1>11, <1>12
<1> QED
  BY <1>3, <1>6, <1>13, <1>14

\* An element that is added is added to the sum.
LEMMA SumAdds ==
  ASSUME NEW a, NEW S, IsFiniteSet(S), NEW x, x \notin S, Numbers(a, S \cup {x})
  PROVE  SumFunctionOnSet(a, S \cup {x}) = a[x] + SumFunctionOnSet(a, S)
<1>1. IsFiniteSet(S \cup {x}) /\ (S \cup {x}) \ {x} = S
  BY FS_AddElement
<1> QED
  BY <1>1, SumTakes

\* Only the values on the set count.
LEMMA SumSame ==
  ASSUME NEW a, NEW b, NEW S, IsFiniteSet(S), \A x \in S : a[x] = b[x]
  PROVE  SumFunctionOnSet(a, S) = SumFunctionOnSet(b, S)
<1> DEFINE Bad == {s \in SUBSET S : SumFunctionOnSet(a, s) # SumFunctionOnSet(b, s)}
<1> SUFFICES ASSUME Bad # {} PROVE FALSE
  OBVIOUS
<1>1. \A s \in Bad : IsFiniteSet(s)
  BY FS_Subset
<1>2. PICK s \in Bad : \A t \in Bad : Cardinality(s) <= Cardinality(t)
  BY <1>1, SmallestSet
<1>3. s # {}
  BY <1>2, SumOfNothing
<1>4. PICK x : x = Taken(s)
  OBVIOUS
<1>5. x \in s /\ IsFiniteSet(s)
  BY <1>1, <1>2, <1>3, <1>4, FirstIn
<1>6. Cardinality(s \ {x}) < Cardinality(s) /\ Cardinality(s) \in Nat /\ Cardinality(s \ {x}) \in Nat
  BY <1>5, Smaller
<1>7. SumFunctionOnSet(a, s \ {x}) = SumFunctionOnSet(b, s \ {x})
  BY <1>2, <1>6
<1>8. SumFunctionOnSet(a, s) = a[x] + SumFunctionOnSet(a, s \ {x}) /\ SumFunctionOnSet(b, s) = b[x] + SumFunctionOnSet(b, s \ {x})
  BY <1>3, <1>4, <1>5, SumTakesFirst
<1> QED
  BY <1>2, <1>5, <1>7, <1>8

\* More elements, no smaller sum.
LEMMA SumGrows ==
  ASSUME NEW a, NEW S, IsFiniteSet(S), Numbers(a, S), NEW T \in SUBSET S
  PROVE  SumFunctionOnSet(a, T) <= SumFunctionOnSet(a, S)
<1> DEFINE Bad == {s \in SUBSET S : T \subseteq s /\ ~(SumFunctionOnSet(a, T) <= SumFunctionOnSet(a, s))}
<1> SUFFICES ASSUME Bad # {} PROVE FALSE
  OBVIOUS
<1>1. \A s \in Bad : IsFiniteSet(s)
  BY FS_Subset
<1>2. PICK s \in Bad : \A t \in Bad : Cardinality(s) <= Cardinality(t)
  BY <1>1, SmallestSet
<1>3. IsFiniteSet(T) /\ SumFunctionOnSet(a, T) \in Nat
  BY FS_Subset, SumType DEF Numbers
<1>4. PICK x \in s : x \notin T
  BY <1>2, <1>3
<1>5. Cardinality(s \ {x}) < Cardinality(s) /\ Cardinality(s) \in Nat /\ Cardinality(s \ {x}) \in Nat
      /\ IsFiniteSet(s \ {x}) /\ IsFiniteSet(s)
  BY <1>1, <1>4, Smaller
<1>6. s \ {x} \notin Bad
  BY <1>2, <1>5
<1>7. SumFunctionOnSet(a, T) <= SumFunctionOnSet(a, s \ {x})
  BY <1>2, <1>4, <1>6
<1>8. SumFunctionOnSet(a, s \ {x}) \in Nat /\ a[x] \in Nat
  BY <1>2, <1>4, <1>5, SumType DEF Numbers
<1>9. SumFunctionOnSet(a, s) = a[x] + SumFunctionOnSet(a, s \ {x})
  BY <1>2, <1>4, <1>5, SumTakes DEF Numbers
<1> QED
  BY <1>2, <1>3, <1>7, <1>8, <1>9

\* Values that grow by no more than others do.
LEMMA SumGrowsBy ==
  ASSUME NEW a, NEW b, NEW c, NEW S, IsFiniteSet(S), Numbers(a, S), Numbers(b, S), Numbers(c, S),
         \A x \in S : b[x] <= a[x] + c[x]
  PROVE  SumFunctionOnSet(b, S) <= SumFunctionOnSet(a, S) + SumFunctionOnSet(c, S)
<1> DEFINE Bad == {s \in SUBSET S :
                     ~(SumFunctionOnSet(b, s) <= SumFunctionOnSet(a, s) + SumFunctionOnSet(c, s))}
<1> SUFFICES ASSUME Bad # {} PROVE FALSE
  OBVIOUS
<1>1. \A s \in Bad : IsFiniteSet(s)
  BY FS_Subset
<1>2. PICK s \in Bad : \A t \in Bad : Cardinality(s) <= Cardinality(t)
  BY <1>1, SmallestSet
<1>3. s # {}
  BY <1>2, SumOfNothing
<1>4. PICK x : x = Taken(s)
  OBVIOUS
<1>5. x \in s /\ x \in S /\ IsFiniteSet(s)
  BY <1>1, <1>2, <1>3, <1>4, FirstIn
<1>6. PICK t : t = s \ {x}
  OBVIOUS
<1>7. Cardinality(t) < Cardinality(s) /\ Cardinality(s) \in Nat /\ Cardinality(t) \in Nat /\ IsFiniteSet(t)
  BY <1>5, <1>6, Smaller
<1>8. SumFunctionOnSet(b, t) <= SumFunctionOnSet(a, t) + SumFunctionOnSet(c, t)
  BY <1>2, <1>6, <1>7
<1>9. /\ SumFunctionOnSet(a, s) = a[x] + SumFunctionOnSet(a, t)
      /\ SumFunctionOnSet(b, s) = b[x] + SumFunctionOnSet(b, t)
      /\ SumFunctionOnSet(c, s) = c[x] + SumFunctionOnSet(c, t)
  BY <1>3, <1>4, <1>5, <1>6, SumTakesFirst
<1>10. SumFunctionOnSet(a, t) \in Nat /\ SumFunctionOnSet(b, t) \in Nat /\ SumFunctionOnSet(c, t) \in Nat
  <2>1. Numbers(a, t) /\ Numbers(b, t) /\ Numbers(c, t)
    BY <1>2, <1>6 DEF Numbers
  <2> QED
    BY <1>7, <2>1, SumType
<1>11. a[x] \in Nat /\ b[x] \in Nat /\ c[x] \in Nat /\ b[x] <= a[x] + c[x]
  BY <1>5 DEF Numbers
<1>12. ~(SumFunctionOnSet(b, s) <= SumFunctionOnSet(a, s) + SumFunctionOnSet(c, s))
  BY <1>2
<1> QED
  BY <1>8, <1>9, <1>10, <1>11, <1>12

\* Every value is matched by a value of its own: y stands for the element
\* key[y], and an element that nobody stands for counts nothing.
Matched(a, S, b, T, key) == \A x \in S : a[x] = 0 \/ \E y \in T : key[y] = x /\ a[x] <= b[y]

LEMMA SumMatched ==
  ASSUME NEW a, NEW S, IsFiniteSet(S), Numbers(a, S), NEW b, NEW T, IsFiniteSet(T), Numbers(b, T),
         NEW key, Matched(a, S, b, T, key)
  PROVE  SumFunctionOnSet(a, S) <= SumFunctionOnSet(b, T)
<1> DEFINE Bad == {s \in SUBSET S : \E t \in SUBSET T :
                     Matched(a, s, b, t, key) /\ ~(SumFunctionOnSet(a, s) <= SumFunctionOnSet(b, t))}
<1> SUFFICES ASSUME Bad # {} PROVE FALSE
  OBVIOUS
<1>1. \A s \in Bad : IsFiniteSet(s)
  BY FS_Subset
<1>2. PICK s \in Bad : \A t \in Bad : Cardinality(s) <= Cardinality(t)
  BY <1>1, SmallestSet
<1>3. PICK t \in SUBSET T : Matched(a, s, b, t, key) /\ ~(SumFunctionOnSet(a, s) <= SumFunctionOnSet(b, t))
  BY <1>2
<1>4. IsFiniteSet(t) /\ Numbers(b, t) /\ SumFunctionOnSet(b, t) \in Nat
  <2>1. IsFiniteSet(t) /\ Numbers(b, t)
    BY FS_Subset DEF Numbers
  <2> QED
    BY <2>1, SumType
<1>5. s # {}
  BY <1>3, <1>4, SumOfNothing
<1>6. PICK x : x = Taken(s)
  OBVIOUS
<1>7. PICK r : r = s \ {x}
  OBVIOUS
<1>8. x \in s /\ x \in S /\ IsFiniteSet(s) /\ r \subseteq S
  BY <1>1, <1>2, <1>5, <1>6, <1>7, FirstIn
<1>9. r \notin Bad
  <2>1. Cardinality(r) < Cardinality(s) /\ Cardinality(s) \in Nat /\ Cardinality(r) \in Nat
    BY <1>7, <1>8, Smaller
  <2> QED
    BY <1>2, <2>1
<1>10. SumFunctionOnSet(a, s) = a[x] + SumFunctionOnSet(a, r)
  BY <1>5, <1>6, <1>7, <1>8, SumTakesFirst
<1>11. SumFunctionOnSet(a, r) \in Nat /\ a[x] \in Nat
  <2>1. IsFiniteSet(r) /\ Numbers(a, r)
    BY <1>8, FS_Subset DEF Numbers
  <2> QED
    BY <1>8, <2>1, SumType DEF Numbers
<1>12. CASE a[x] = 0
  <2>1. Matched(a, r, b, t, key)
    BY <1>3, <1>7 DEF Matched
  <2>2. SumFunctionOnSet(a, r) <= SumFunctionOnSet(b, t)
    BY <1>8, <1>9, <2>1
  <2> QED
    BY <1>3, <1>10, <1>11, <1>12, <2>2
<1>13. ASSUME NEW y \in t, key[y] = x, a[x] <= b[y]
       PROVE  FALSE
  <2>1. PICK u : u = t \ {y}
    OBVIOUS
  <2>2. Matched(a, r, b, u, key)
    BY <1>3, <1>7, <1>13, <2>1 DEF Matched
  <2>3. SumFunctionOnSet(a, r) <= SumFunctionOnSet(b, u)
    <3>1. u \in SUBSET T
      BY <2>1
    <3> QED
      BY <1>8, <1>9, <2>2, <3>1
  <2>4. SumFunctionOnSet(b, t) = b[y] + SumFunctionOnSet(b, u)
    BY <1>4, <2>1, SumTakes
  <2>5. SumFunctionOnSet(b, u) \in Nat /\ b[y] \in Nat
    <3>1. IsFiniteSet(u) /\ Numbers(b, u)
      BY <1>4, <2>1, FS_Subset DEF Numbers
    <3> QED
      BY <1>4, <3>1, SumType DEF Numbers
  <2> QED
    BY <1>3, <1>10, <1>11, <1>13, <2>3, <2>4, <2>5
<1> QED
  BY <1>3, <1>8, <1>12, <1>13 DEF Matched
=============================================================================
