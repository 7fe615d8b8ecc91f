-------------------------- MODULE AdmissionProofs --------------------------
(***************************************************************************)
(* What Admission guarantees for books of every length, every quantity,    *)
(* all fees and costs, and every finite set of capital sources.  The       *)
(* lemmas about sums are proved by induction over finite sets; IInv is the *)
(* inductive invariant behind the theorems at the end.                     *)
(***************************************************************************)
EXTENDS Admission, FiniteSetTheorems, WellFoundedInduction, TLAPS

-----------------------------------------------------------------------------
(* Sums over finite sets.  Good is the set of cases that hold; a case that *)
(* does not would have a least one.                                        *)

\* The recursion inside SumFunctionOnSet, given names: which element is taken
\* next, what is added for it, and the table of all partial sums.
Pick(s) == CHOOSE x \in s : TRUE
Turn(w, g, s) == IF s = {} THEN 0 ELSE w[Pick(s)] + g[s \ {Pick(s)}]
Iter(w, T) == CHOOSE g : g = [s \in SUBSET T |-> Turn(w, g, s)]

\* SumFunctionOnSet is that recursion.
LEMMA Unfold ==
  ASSUME NEW w, NEW T
  PROVE  SumFunctionOnSet(w, T) = Iter(w, T)[T]
  BY DEF SumFunctionOnSet, FoldFunctionOnSet, MapThenFoldSet, Iter, Turn, Pick

\* A set of numbers that is not empty has a smallest one.
LEMMA NatMin ==
  ASSUME NEW S \in SUBSET Nat, S # {}
  PROVE  \E n \in S : \A m \in S : n <= m
<1> DEFINE R == OpToRel(<, Nat)
<1>1. \A m, n \in Nat : m < n => <<m, n>> \in R
  BY DEF OpToRel
<1>2. IsWellFoundedOn(R, Nat)
  BY NatLessThanWellFounded
<1> HIDE DEF R
<1>3. PICK n \in S : \A m \in S : ~ (<<m, n>> \in R)
  BY <1>2, WFMin
<1>4. \A m \in S : ~ (m < n)
  BY <1>1, <1>3
<1> QED
  BY <1>4

\* A set with 0 and with every successor holds every natural number: induction,
\* with a set in the place of the predicate.
LEMMA NatSet ==
  ASSUME NEW S \in SUBSET Nat, 0 \in S, \A n \in S : n + 1 \in S
  PROVE  S = Nat
<1> SUFFICES ASSUME Nat \ S # {} PROVE FALSE
  OBVIOUS
<1>1. PICK n \in Nat \ S : \A m \in Nat \ S : n <= m
  BY NatMin
<1>2. n - 1 \in S
  BY <1>1
<1> QED
  BY <1>1, <1>2

\* The same over the subsets of a finite set.
LEMMA SubsetInduction ==
  ASSUME NEW S, IsFiniteSet(S), NEW Good \in SUBSET SUBSET S,
         \A T \in SUBSET S : (\A U \in SUBSET T : U # T => U \in Good) => T \in Good
  PROVE  Good = SUBSET S
<1> DEFINE Bad == (SUBSET S) \ Good
<1> SUFFICES ASSUME Bad # {} PROVE FALSE
  OBVIOUS
<1>1. IsWellFoundedOn(StrictSubsetOrdering(S), SUBSET S)
  <2>1. IsWellFoundedOn(StrictSubsetOrdering(S), FiniteSubsetsOf(S))
    BY FS_StrictSubsetOrderingWellFounded
  <2>2. FiniteSubsetsOf(S) = SUBSET S
    BY FS_FiniteSubsetsOfFinite
  <2> QED
    BY <2>1, <2>2
<1>2. \E T \in Bad : \A U \in Bad : ~ (<<U, T>> \in StrictSubsetOrdering(S))
  <2> HIDE DEF Bad
  <2> Bad \subseteq SUBSET S
    BY DEF Bad
  <2> QED
    BY <1>1, WFMin
<1> QED
  BY <1>2 DEF StrictSubsetOrdering

\* There is such a table: one for the sets of at most n elements, n by n.
LEMMA IterExists ==
  ASSUME NEW w, NEW T, IsFiniteSet(T)
  PROVE  \E g : g = [s \in SUBSET T |-> Turn(w, g, s)]
<1> DEFINE Small(n) == {s \in SUBSET T : Cardinality(s) <= n}
           Table(g, n) == g = [s \in Small(n) |-> Turn(w, g, s)]
           Good == {n \in Nat : \E g : Table(g, n)}
<1>1. \A s \in SUBSET T : IsFiniteSet(s) /\ Cardinality(s) \in Nat
  BY FS_Subset, FS_CardinalityType
<1>2. 0 \in Good
  <2> DEFINE g == [s \in Small(0) |-> 0]
  <2>1. \A s \in Small(0) : s = {}
    BY <1>1, FS_EmptySet
  <2>2. Table(g, 0)
    BY <2>1 DEF Turn
  <2> QED
    BY <2>2
<1>3. ASSUME NEW n \in Good PROVE n + 1 \in Good
  <2>1. PICK g : Table(g, n)
    BY <1>3
  <2> DEFINE h == [s \in Small(n + 1) |-> Turn(w, g, s)]
  <2>2. ASSUME NEW s \in Small(n + 1), s # {}
        PROVE  s \ {Pick(s)} \in Small(n)
    <3>1. Pick(s) \in s
      BY <2>2 DEF Pick
    <3>2. Cardinality(s \ {Pick(s)}) = Cardinality(s) - 1
      BY <1>1, <3>1, FS_RemoveElement
    <3> QED
      BY <1>1, <3>2
  <2>3. \A s \in Small(n) : s \in Small(n + 1) /\ h[s] = g[s]
    BY <1>1, <2>1
  <2>4. \A s \in Small(n + 1) : Turn(w, h, s) = Turn(w, g, s)
    BY <2>2, <2>3 DEF Turn
  <2>5. Table(h, n + 1)
    BY <2>4
  <2>6. n + 1 \in Nat
    OBVIOUS
  <2> HIDE DEF Table, h
  <2> QED
    BY <2>5, <2>6, Zenon
<1>4. Cardinality(T) \in Good
  <2>1. Good \in SUBSET Nat
    OBVIOUS
  <2> HIDE DEF Good
  <2>2. Good = Nat
    BY <2>1, <1>2, <1>3, NatSet
  <2> QED
    BY <1>1, <2>2
<1>5. Small(Cardinality(T)) = SUBSET T
  BY <1>1, FS_Subset
<1> QED
  BY <1>4, <1>5

\* The sum over a finite set obeys its recursion, one element at a time.
LEMMA IterDef ==
  ASSUME NEW w, NEW T, IsFiniteSet(T), NEW s \in SUBSET T
  PROVE  /\ s = {} => Iter(w, T)[s] = 0
         /\ s # {} => /\ Pick(s) \in s
                      /\ Iter(w, T)[s] = w[Pick(s)] + Iter(w, T)[s \ {Pick(s)}]
<1>1. Iter(w, T) = [u \in SUBSET T |-> Turn(w, Iter(w, T), u)]
  BY IterExists, Zenon DEF Iter
<1>2. Iter(w, T)[s] = Turn(w, Iter(w, T), s)
  BY <1>1
<1>3. s # {} => Pick(s) \in s
  BY DEF Pick
<1> QED
  BY <1>2, <1>3 DEF Turn

\* What is summed up for a set does not depend on the set it is a part of.
LEMMA IterLocal ==
  ASSUME NEW w, NEW T, IsFiniteSet(T)
  PROVE  \A V \in SUBSET T : Iter(w, T)[V] = Iter(w, V)[V]
<1> DEFINE Local(V) == \A U \in SUBSET T : V \subseteq U => Iter(w, U)[V] = Iter(w, V)[V]
           Good == {V \in SUBSET T : Local(V)}
<1>1. ASSUME NEW V \in SUBSET T, \A U \in SUBSET V : U # V => U \in Good
      PROVE  V \in Good
  <2> SUFFICES ASSUME NEW U \in SUBSET T, V \subseteq U
               PROVE  Iter(w, U)[V] = Iter(w, V)[V]
    OBVIOUS
  <2>1. IsFiniteSet(U) /\ IsFiniteSet(V)
    BY FS_Subset
  <2>2. CASE V = {}
    BY <2>1, <2>2, IterDef
  <2>3. CASE V # {}
    <3> DEFINE R == V \ {Pick(V)}
    <3>1. Pick(V) \in V
      BY <2>1, <2>3, IterDef
    <3>2. R \in Good
      BY <1>1, <3>1
    <3>3. Iter(w, U)[R] = Iter(w, R)[R] /\ Iter(w, V)[R] = Iter(w, R)[R]
      BY <3>2
    <3>4. Iter(w, U)[V] = w[Pick(V)] + Iter(w, U)[R]
      BY <2>1, <2>3, IterDef
    <3>5. Iter(w, V)[V] = w[Pick(V)] + Iter(w, V)[R]
      BY <2>1, <2>3, IterDef
    <3> QED
      BY <3>3, <3>4, <3>5
  <2> QED
    BY <2>2, <2>3
<1>2. Good = SUBSET T
  <2>1. Good \in SUBSET SUBSET T
    OBVIOUS
  <2> HIDE DEF Good
  <2> QED
    BY <1>1, <2>1, SubsetInduction
<1>3. \A V \in SUBSET T : Local(V)
  BY <1>2
<1> QED
  BY <1>3

\* The sum of no numbers, and of some.
LEMMA SumUnfolds ==
  ASSUME NEW w, NEW T, IsFiniteSet(T)
  PROVE  /\ T = {} => SumFunctionOnSet(w, T) = 0
         /\ T # {} =>
              /\ Pick(T) \in T
              /\ SumFunctionOnSet(w, T)
                   = w[Pick(T)] + SumFunctionOnSet(w, T \ {Pick(T)})
<1>1. \A V \in SUBSET T : Iter(w, T)[V] = SumFunctionOnSet(w, V)
  BY IterLocal, Unfold
<1>2. T \in SUBSET T
  OBVIOUS
<1>3. T = {} => Iter(w, T)[T] = 0
  BY <1>2, IterDef
<1>4. T # {} => /\ Pick(T) \in T
                /\ Iter(w, T)[T] = w[Pick(T)] + Iter(w, T)[T \ {Pick(T)}]
  BY <1>2, IterDef
<1> QED
  BY <1>1, <1>2, <1>3, <1>4

\* Any one number can be taken out of a sum.
LEMMA SumTakesOut ==
  ASSUME NEW T, IsFiniteSet(T), NEW w, \A x \in T : w[x] \in Int
  PROVE  /\ SumFunctionOnSet(w, T) \in Int
         /\ \A x \in T : SumFunctionOnSet(w, T) = w[x] + SumFunctionOnSet(w, T \ {x})
<1> DEFINE S(V) == SumFunctionOnSet(w, V)
           Fine(V) == S(V) \in Int /\ \A x \in V : S(V) = w[x] + S(V \ {x})
           Good == {V \in SUBSET T : Fine(V)}
<1>1. ASSUME NEW V \in SUBSET T, \A U \in SUBSET V : U # V => U \in Good
      PROVE  V \in Good
  <2>1. IsFiniteSet(V)
    BY FS_Subset
  <2>2. \A U \in SUBSET V : U # V => Fine(U)
    BY <1>1
  <2>3. CASE V = {}
    <3>1. S({}) = 0
      BY FS_EmptySet, SumUnfolds
    <3> QED
      BY <2>3, <3>1
  <2>4. CASE V # {}
    <3> DEFINE y == Pick(V)
    <3>1. y \in V /\ S(V) = w[y] + S(V \ {y})
      BY <2>1, <2>4, SumUnfolds
    <3> HIDE DEF y, S
    <3>2. Fine(V \ {y})
      BY <2>2, <3>1
    <3>3. S(V) \in Int
      BY <3>1, <3>2
    <3>4. ASSUME NEW x \in V, x # y
          PROVE  S(V) = w[x] + S(V \ {x})
      <4>1. Fine(V \ {x})
        BY <2>2
      <4>2. S(V \ {y}) = w[x] + S((V \ {y}) \ {x})
        BY <3>2, <3>4
      <4>3. S(V \ {x}) = w[y] + S((V \ {x}) \ {y})
        BY <3>1, <3>4, <4>1
      <4>4. (V \ {y}) \ {x} = (V \ {x}) \ {y}
        OBVIOUS
      <4>5. Fine((V \ {y}) \ {x})
        BY <2>2, <3>1
      <4>6. w[x] \in Int /\ w[y] \in Int
        BY <3>1
      <4>7. S((V \ {y}) \ {x}) \in Int
        BY <4>5
      <4> HIDE DEF Fine
      <4>8. S(V) = w[y] + (w[x] + S((V \ {y}) \ {x}))
        BY <3>1, <4>2
      <4>9. S(V \ {x}) = w[y] + S((V \ {y}) \ {x})
        BY <4>3, <4>4
      <4> QED
        BY <4>6, <4>7, <4>8, <4>9
    <3> QED
      BY <3>1, <3>3, <3>4
  <2> QED
    BY <2>3, <2>4
<1>2. Good = SUBSET T
  <2>1. Good \in SUBSET SUBSET T
    OBVIOUS
  <2> HIDE DEF Good
  <2> QED
    BY <1>1, <2>1, SubsetInduction
<1>3. Fine(T)
  BY <1>2
<1> QED
  BY <1>3

\* Terms that compare one by one compare in the sum, weighted by p.
LEMMA SumCompares ==
  ASSUME NEW T, IsFiniteSet(T), NEW p \in Int, NEW a, NEW b, NEW c, NEW d,
         \A x \in T : a[x] \in Int /\ b[x] \in Int /\ c[x] \in Int /\ d[x] \in Int,
         \A x \in T : a[x] + p * b[x] >= c[x] + p * d[x]
  PROVE  SumFunctionOnSet(a, T) + p * SumFunctionOnSet(b, T)
           >= SumFunctionOnSet(c, T) + p * SumFunctionOnSet(d, T)
<1> DEFINE S(w, V) == SumFunctionOnSet(w, V)
           Fine(V) == S(a, V) + p * S(b, V) >= S(c, V) + p * S(d, V)
           Good == {V \in SUBSET T : Fine(V)}
<1>1. ASSUME NEW V \in SUBSET T, \A U \in SUBSET V : U # V => U \in Good
      PROVE  V \in Good
  <2>1. IsFiniteSet(V)
    BY FS_Subset
  <2>2. CASE V = {}
    <3>1. S(a, V) = 0 /\ S(b, V) = 0 /\ S(c, V) = 0 /\ S(d, V) = 0
      BY <2>1, <2>2, SumUnfolds
    <3> HIDE DEF S
    <3> QED
      BY <3>1
  <2>3. CASE V # {}
    <3>1. PICK x \in V : TRUE
      BY <2>3
    <3> DEFINE R == V \ {x}
    <3>2. /\ S(a, V) = a[x] + S(a, R) /\ S(b, V) = b[x] + S(b, R)
          /\ S(c, V) = c[x] + S(c, R) /\ S(d, V) = d[x] + S(d, R)
      BY <2>1, SumTakesOut
    <3>3. IsFiniteSet(R) /\ R # V /\ R \in SUBSET V
      BY <2>1, FS_Subset
    <3>4. S(a, R) \in Int /\ S(b, R) \in Int /\ S(c, R) \in Int /\ S(d, R) \in Int
      BY <3>3, SumTakesOut
    <3>5. S(a, R) + p * S(b, R) >= S(c, R) + p * S(d, R)
      BY <1>1, <3>3
    <3>6. /\ a[x] \in Int /\ b[x] \in Int /\ c[x] \in Int /\ d[x] \in Int
          /\ a[x] + p * b[x] >= c[x] + p * d[x]
      OBVIOUS
    <3> HIDE DEF S, R
    <3>7. /\ p * (b[x] + S(b, R)) = p * b[x] + p * S(b, R)
          /\ p * (d[x] + S(d, R)) = p * d[x] + p * S(d, R)
      BY <3>4, <3>6
    <3>8. Fine(V)
      BY <3>2, <3>4, <3>5, <3>6, <3>7
    <3> QED
      BY <3>8
  <2> QED
    BY <2>2, <2>3
<1>2. Good = SUBSET T
  <2>1. Good \in SUBSET SUBSET T
    OBVIOUS
  <2> HIDE DEF Good
  <2> QED
    BY <1>1, <2>1, SubsetInduction
<1>3. Fine(T)
  BY <1>2
<1> QED
  BY <1>3

\* A sum of smaller terms is smaller.
LEMMA SumMonotonic ==
  ASSUME NEW T, IsFiniteSet(T), NEW v, NEW w,
         \A x \in T : v[x] \in Int /\ w[x] \in Int /\ v[x] <= w[x]
  PROVE  SumFunctionOnSet(v, T) <= SumFunctionOnSet(w, T)
<1>1. \A x \in T : w[x] + 0 * w[x] >= v[x] + 0 * v[x]
  OBVIOUS
<1>2. SumFunctionOnSet(w, T) + 0 * SumFunctionOnSet(w, T)
        >= SumFunctionOnSet(v, T) + 0 * SumFunctionOnSet(v, T)
  BY <1>1, SumCompares
<1> QED
  BY <1>2, SumTakesOut

\* Functions that agree on a set have the same sum over it.
LEMMA SumAgrees ==
  ASSUME NEW T, IsFiniteSet(T), NEW v, NEW w,
         \A x \in T : v[x] \in Int /\ w[x] = v[x]
  PROVE  SumFunctionOnSet(v, T) = SumFunctionOnSet(w, T)
<1>1. SumFunctionOnSet(v, T) <= SumFunctionOnSet(w, T)
  BY SumMonotonic
<1>2. SumFunctionOnSet(w, T) <= SumFunctionOnSet(v, T)
  BY SumMonotonic
<1> QED
  BY <1>1, <1>2, SumTakesOut

\* One term changes, and the sum by as much.
LEMMA SumUpdates ==
  ASSUME NEW T, IsFiniteSet(T), NEW v, NEW w, NEW x \in T, w[x] \in Int,
         \A y \in T : v[y] \in Int,
         \A y \in T \ {x} : w[y] = v[y]
  PROVE  SumFunctionOnSet(w, T) = SumFunctionOnSet(v, T) - v[x] + w[x]
<1>1. IsFiniteSet(T \ {x})
  BY FS_Subset
<1>2. SumFunctionOnSet(v, T \ {x}) = SumFunctionOnSet(w, T \ {x})
  BY <1>1, SumAgrees
<1>3. SumFunctionOnSet(v, T) = v[x] + SumFunctionOnSet(v, T \ {x})
  BY SumTakesOut
<1>4. SumFunctionOnSet(w, T) = w[x] + SumFunctionOnSet(w, T \ {x})
  BY SumTakesOut
<1>5. SumFunctionOnSet(v, T \ {x}) \in Int
  BY <1>1, SumTakesOut
<1> QED
  BY <1>2, <1>3, <1>4, <1>5

\* The sum of nothing but zeros.
LEMMA SumOfZeros ==
  ASSUME NEW T, IsFiniteSet(T), NEW w, \A x \in T : w[x] = 0
  PROVE  SumFunctionOnSet(w, T) = 0
<1> DEFINE Good == {V \in SUBSET T : SumFunctionOnSet(w, V) = 0}
<1>1. ASSUME NEW V \in SUBSET T, \A U \in SUBSET V : U # V => U \in Good
      PROVE  V \in Good
  <2>1. IsFiniteSet(V)
    BY FS_Subset
  <2>2. V # {} => SumFunctionOnSet(w, V \ {Pick(V)}) = 0
    BY <1>1, <2>1, SumUnfolds
  <2> QED
    BY <2>1, <2>2, SumUnfolds
<1>2. Good = SUBSET T
  <2>1. Good \in SUBSET SUBSET T
    OBVIOUS
  <2> HIDE DEF Good
  <2> QED
    BY <1>1, <2>1, SubsetInduction
<1> QED
  BY <1>2

\* Leaving out terms that are not negative does not raise a sum.
LEMMA SumOfPart ==
  ASSUME NEW T, IsFiniteSet(T), NEW w, \A x \in T : w[x] \in Nat, NEW U \in SUBSET T
  PROVE  SumFunctionOnSet(w, U) <= SumFunctionOnSet(w, T)
<1> DEFINE S(V) == SumFunctionOnSet(w, V)
           Good == {V \in SUBSET T : U \subseteq V => S(U) <= S(V)}
<1>1. ASSUME NEW V \in SUBSET T, \A W \in SUBSET V : W # V => W \in Good
      PROVE  V \in Good
  <2> SUFFICES ASSUME U \subseteq V PROVE S(U) <= S(V)
    OBVIOUS
  <2>1. IsFiniteSet(V) /\ IsFiniteSet(U)
    BY FS_Subset
  <2>2. S(U) \in Int /\ S(V) \in Int
    BY <2>1, SumTakesOut
  <2>3. CASE U = V
    BY <2>2, <2>3
  <2>4. CASE U # V
    <3>1. PICK x \in V : x \notin U
      BY <2>4
    <3>2. S(U) <= S(V \ {x})
      BY <1>1, <3>1
    <3>3. S(V) = w[x] + S(V \ {x})
      BY <2>1, SumTakesOut
    <3>4. IsFiniteSet(V \ {x})
      BY <2>1, FS_Subset
    <3>5. S(V \ {x}) \in Int
      BY <3>4, SumTakesOut
    <3>6. w[x] \in Nat
      OBVIOUS
    <3> HIDE DEF S
    <3> QED
      BY <2>2, <3>2, <3>3, <3>5, <3>6
  <2> QED
    BY <2>3, <2>4
<1>2. Good = SUBSET T
  <2>1. Good \in SUBSET SUBSET T
    OBVIOUS
  <2> HIDE DEF Good
  <2> QED
    BY <1>1, <2>1, SubsetInduction
<1> QED
  BY <1>2

\* The smaller of two numbers.
LEMMA MinOfTwo ==
  ASSUME NEW m \in Int, NEW n \in Int
  PROVE  Min({m, n}) = IF m <= n THEN m ELSE n
  BY DEF Min

-----------------------------------------------------------------------------
(* A walk through a book                                                   *)

\* How an adapter sorts the two sides of a book.
Ascending(book) == BestFirst(book, <=)
Descending(book) == BestFirst(book, >=)

\* f is what has been taken before level next, with left still to take: every
\* valid level so far whole, and once nothing is left, whole up to a last level.
Follows(book, f, next, left, worth) ==
  /\ SumFunction(f) = Quantity - left
  /\ Worth(book, f) = worth
  /\ \A i \in DOMAIN book :
       /\ f[i] > 0 => Valid(book[i]) /\ f[i] <= book[i].quantity
       /\ i >= next => f[i] = 0
       /\ left > 0 /\ i < next /\ Valid(book[i]) => f[i] = book[i].quantity
  /\ left < Quantity => worth > 0
  /\ left = 0 =>
       \E k \in DOMAIN book :
         /\ Valid(book[k])
         /\ \A i \in DOMAIN book : /\ i < k /\ Valid(book[i]) => f[i] = book[i].quantity
                                   /\ i > k => f[i] = 0

\* Where a walk can be, that it got there with this much left and spent, and
\* that it ended with nothing left.
Positions(book) == 1..(Len(book) + 1)
Walked(book, next, left, worth) ==
  /\ next \in Positions(book)
  /\ \E f \in [DOMAIN book -> 0..Quantity] : Follows(book, f, next, left, worth)
Filled(book, worth) == \E next \in Positions(book) : Walked(book, next, 0, worth)

\* A book is a finite sequence of levels.
LEMMA BookType ==
  ASSUME NEW book \in Books
  PROVE  /\ book \in Seq(Levels) /\ Len(book) \in 0..MaxLevels
         /\ DOMAIN book = 1..Len(book) /\ IsFiniteSet(DOMAIN book)
         /\ \A i \in DOMAIN book : book[i].price \in Int /\ book[i].quantity \in Int
<1>1. PICK n \in 0..MaxLevels : book \in [1..n -> Levels]
  BY DEF Books
<1>2. n \in Nat
  BY BookAssumption
<1>3. book \in Seq(Levels) /\ Len(book) = n
  BY <1>1, <1>2
<1>4. IsFiniteSet(1..n)
  BY <1>2, FS_Interval
<1>5. \A i \in 1..n : book[i] \in [price: Int, quantity: Int]
  BY <1>1, BookAssumption
<1> QED
  BY <1>1, <1>2, <1>3, <1>4, <1>5

\* What each level adds to Worth.
Values(book, f) == [i \in DOMAIN book |-> f[i] * book[i].price]

\* The sums of Fillings and Worth are sums over the levels of the book.
LEMMA BookSums ==
  ASSUME NEW book \in Books, NEW f \in [DOMAIN book -> 0..Quantity]
  PROVE  /\ SumFunction(f) = SumFunctionOnSet(f, DOMAIN book)
         /\ Worth(book, f) = SumFunctionOnSet(Values(book, f), DOMAIN book)
         /\ \A i \in DOMAIN book : f[i] \in Nat /\ Values(book, f)[i] \in Int
         /\ SumFunction(f) \in Int /\ Worth(book, f) \in Int
<1>1. SumFunction(f) = SumFunctionOnSet(f, DOMAIN book)
  BY DEF SumFunction
<1>2. Worth(book, f) = SumFunctionOnSet(Values(book, f), DOMAIN book)
  BY DEF SumFunction, Worth, Values
<1>3. \A i \in DOMAIN book : f[i] \in Nat /\ Values(book, f)[i] \in Int
  BY BookType, QuantityAssumption DEF Values
<1>4. /\ SumFunctionOnSet(f, DOMAIN book) \in Int
      /\ SumFunctionOnSet(Values(book, f), DOMAIN book) \in Int
  BY <1>3, BookType, SumTakesOut
<1> QED
  BY <1>1, <1>2, <1>3, <1>4

\* Before the first level nothing has been taken.
LEMMA WalkStarts ==
  ASSUME NEW book \in Books
  PROVE  Walked(book, 1, Quantity, 0)
<1> DEFINE f == [i \in DOMAIN book |-> 0]
<1>1. f \in [DOMAIN book -> 0..Quantity]
  BY QuantityAssumption
<1>2. \A i \in DOMAIN book : f[i] = 0 /\ Values(book, f)[i] = 0
  BY BookType DEF Values
<1> HIDE DEF f
<1>3. SumFunction(f) = 0 /\ Worth(book, f) = 0
  BY <1>1, <1>2, BookType, BookSums, SumOfZeros
<1>4. Follows(book, f, 1, Quantity, 0)
  BY <1>1, <1>2, <1>3, BookType, QuantityAssumption DEF Follows
<1>5. 1 \in Positions(book)
  BY BookType, BookAssumption DEF Positions
<1> QED
  BY <1>1, <1>4, <1>5 DEF Walked

\* A level without a price or a size is passed by.
LEMMA WalkSkips ==
  ASSUME NEW book \in Books, NEW next \in DOMAIN book, NEW left \in 1..Quantity, NEW worth,
         Walked(book, next, left, worth), ~Valid(book[next])
  PROVE  Walked(book, next + 1, left, worth)
<1>1. PICK f \in [DOMAIN book -> 0..Quantity] : Follows(book, f, next, left, worth)
  BY DEF Walked
<1>2. Follows(book, f, next + 1, left, worth)
  BY <1>1, BookType DEF Follows
<1>3. next + 1 \in Positions(book)
  BY BookType, BookAssumption DEF Positions
<1> QED
  BY <1>1, <1>2, <1>3 DEF Walked

\* A valid level is taken whole, or as far as the quantity is still wanted.
LEMMA WalkTakes ==
  ASSUME NEW book \in Books, NEW next \in DOMAIN book, NEW left \in 1..Quantity,
         NEW worth \in Nat, NEW take, take = Min({left, book[next].quantity}),
         Walked(book, next, left, worth), Valid(book[next])
  PROVE  /\ take \in 1..left
         /\ worth + take * book[next].price \in Nat
         /\ Walked(book, next + 1, left - take, worth + take * book[next].price)
<1>1. PICK f \in [DOMAIN book -> 0..Quantity] : Follows(book, f, next, left, worth)
  BY DEF Walked
<1> DEFINE q == book[next].quantity
           p == book[next].price
           h == [f EXCEPT ![next] = take]
<1>2. /\ q \in Int /\ p \in Int /\ q > 0 /\ p > 0 /\ left \in Int /\ next \in Nat
      /\ DOMAIN book = 1..Len(book) /\ Len(book) \in Nat
  BY BookType, QuantityAssumption, BookAssumption DEF Valid
<1>0. IsFiniteSet(DOMAIN book)
  BY BookType
<1>3. take \in 1..Quantity /\ take <= left /\ take <= q /\ (take = left \/ take = q)
  <2>1. take = IF left <= q THEN left ELSE q
    BY <1>2, MinOfTwo
  <2> HIDE DEF q
  <2> QED
    BY <1>2, <2>1, QuantityAssumption
<1>4. f \in [DOMAIN book -> 0..Quantity] /\ f[next] = 0
  <2>1. \A i \in DOMAIN book : i >= next => f[i] = 0
    BY <1>1 DEF Follows
  <2>2. next >= next
    BY <1>2
  <2> QED
    BY <1>1, <2>1, <2>2
<1>5. /\ h \in [DOMAIN book -> 0..Quantity] /\ h[next] = take
      /\ \A i \in DOMAIN book \ {next} : h[i] = f[i]
  BY <1>3, <1>4
<1> HIDE DEF h
<1> DEFINE v == Values(book, f)
           w == Values(book, h)
<1>6. SumFunction(h) = Quantity - (left - take)
  <2>1. \A i \in DOMAIN book : f[i] \in Int /\ h[i] \in Int
    BY <1>4, <1>5, BookSums
  <2>2. SumFunctionOnSet(h, DOMAIN book) = SumFunctionOnSet(f, DOMAIN book) - f[next] + h[next]
    BY <1>0, <1>5, <2>1, SumUpdates
  <2>3. SumFunction(h) = SumFunction(f) - 0 + take
    BY <1>4, <1>5, <2>2, BookSums
  <2> QED
    BY <1>1, <1>2, <1>3, <2>3, QuantityAssumption DEF Follows
<1>7. take * p \in Nat /\ take * p > 0
  BY <1>2, <1>3
<1>8. Worth(book, h) = worth + take * p
  <2>1. v[next] = 0 /\ w[next] = take * p
    BY <1>2, <1>4, <1>5 DEF Values
  <2>2. \A i \in DOMAIN book \ {next} : w[i] = v[i]
    BY <1>4, <1>5 DEF Values
  <2>3. \A i \in DOMAIN book : v[i] \in Int /\ w[i] \in Int
    BY <1>4, <1>5, BookSums
  <2>4. /\ Worth(book, f) = SumFunctionOnSet(v, DOMAIN book)
        /\ Worth(book, h) = SumFunctionOnSet(w, DOMAIN book)
    BY <1>4, <1>5, BookSums
  <2>5. Worth(book, f) = worth
    BY <1>1 DEF Follows
  <2> HIDE DEF v, w
  <2>6. SumFunctionOnSet(w, DOMAIN book) = SumFunctionOnSet(v, DOMAIN book) - v[next] + w[next]
    BY <1>0, <2>2, <2>3, SumUpdates
  <2> HIDE DEF p
  <2> QED
    BY <1>7, <2>1, <2>4, <2>5, <2>6
<1>9. \A i \in DOMAIN book :
        /\ h[i] > 0 => Valid(book[i]) /\ h[i] <= book[i].quantity
        /\ i >= next + 1 => h[i] = 0
        /\ left - take > 0 /\ i < next + 1 /\ Valid(book[i]) => h[i] = book[i].quantity
  <2> SUFFICES ASSUME NEW i \in DOMAIN book
               PROVE  /\ h[i] > 0 => Valid(book[i]) /\ h[i] <= book[i].quantity
                      /\ i >= next + 1 => h[i] = 0
                      /\ left - take > 0 /\ i < next + 1 /\ Valid(book[i])
                           => h[i] = book[i].quantity
    OBVIOUS
  <2>1. CASE i = next
    <3>1. h[i] = take /\ book[i].quantity = q /\ Valid(book[i])
      BY <1>5, <2>1
    <3>2. left - take > 0 => take = q
      BY <1>2, <1>3
    <3> QED
      BY <1>2, <1>3, <2>1, <3>1, <3>2
  <2>2. CASE i # next
    BY <1>1, <1>2, <1>3, <1>5, <2>2 DEF Follows
  <2> QED
    BY <2>1, <2>2
<1>10. left - take = 0 =>
         \A i \in DOMAIN book : /\ i < next /\ Valid(book[i]) => h[i] = book[i].quantity
                                /\ i > next => h[i] = 0
  BY <1>1, <1>2, <1>5 DEF Follows
<1>11. worth + take * p \in Nat /\ worth + take * p > 0
  <2> HIDE DEF p
  <2> QED
    BY <1>7
<1>12. Follows(book, h, next + 1, left - take, worth + take * p)
  BY <1>5, <1>6, <1>8, <1>9, <1>10, <1>11 DEF Follows
<1> QED
  <2>1. take \in 1..left /\ next + 1 \in Positions(book)
    BY <1>2, <1>3 DEF Positions
  <2> QED
    BY <2>1, <1>5, <1>11, <1>12 DEF Walked

\* A book that ends before the quantity is filled cannot fill it at all.
LEMMA WalkThin ==
  ASSUME NEW book \in Books, NEW next \in Nat, next > Len(book), NEW left \in 1..Quantity,
         NEW worth, Walked(book, next, left, worth)
  PROVE  Fillings(book) = {}
<1> SUFFICES ASSUME NEW g \in Fillings(book) PROVE FALSE
  OBVIOUS
<1>1. PICK f \in [DOMAIN book -> 0..Quantity] : Follows(book, f, next, left, worth)
  BY DEF Walked
<1>2. f \in [DOMAIN book -> 0..Quantity] /\ g \in [DOMAIN book -> 0..Quantity]
  BY <1>1 DEF Follows, Fillings
<1>3. IsFiniteSet(DOMAIN book) /\ DOMAIN book = 1..Len(book) /\ Len(book) \in Nat
  BY BookType, BookAssumption
<1>4. \A i \in DOMAIN book : f[i] \in Nat /\ g[i] \in Nat /\ book[i].quantity \in Int
  BY <1>2, BookSums, BookType
<1>5. \A i \in DOMAIN book : g[i] <= f[i]
  BY <1>1, <1>3, <1>4 DEF Follows, Fillings
<1>6. SumFunctionOnSet(g, DOMAIN book) <= SumFunctionOnSet(f, DOMAIN book)
  BY <1>3, <1>4, <1>5, SumMonotonic
<1>7. SumFunction(g) <= SumFunction(f)
  BY <1>2, <1>6, BookSums
<1> QED
  BY <1>1, <1>7, QuantityAssumption DEF Follows, Fillings

\* What is moved from a dearer level to a cheaper one, k between them, saves.
LEMMA Exchange ==
  ASSUME NEW x \in Int, NEW p \in Int, NEW f \in Int, NEW g \in Int,
         (x <= p /\ g <= f) \/ (x >= p /\ g >= f)
  PROVE  g * x + p * f >= f * x + p * g
<1>1. (p - x) * (f - g) >= 0
  <2>1. CASE x <= p /\ g <= f
    <3>1. p - x \in Nat /\ f - g \in Nat
      BY <2>1
    <3> QED
      BY <3>1
  <2>2. CASE x >= p /\ g >= f
    <3>1. x - p \in Nat /\ g - f \in Nat
      BY <2>2
    <3>2. (x - p) * (g - f) >= 0
      BY <3>1
    <3>3. (p - x) * (f - g) = (x - p) * (g - f)
      OBVIOUS
    <3> QED
      BY <3>2, <3>3
  <2> QED
    BY <2>1, <2>2
<1>2. (p - x) * (f - g) = (g * x + p * f) - (f * x + p * g)
  OBVIOUS
<1> QED
  BY <1>1, <1>2

\* A walk that filled the quantity found a filling, and with the best price first
\* the best one: below level k everything is taken, above it nothing.
LEMMA WalkFills ==
  ASSUME NEW book \in Books, NEW next, NEW worth, Walked(book, next, 0, worth)
  PROVE  /\ \E f \in Fillings(book) : Worth(book, f) = worth
         /\ Ascending(book) => \A g \in Fillings(book) : Worth(book, g) >= worth
         /\ Descending(book) => \A g \in Fillings(book) : Worth(book, g) <= worth
<1>1. PICK f \in [DOMAIN book -> 0..Quantity] : Follows(book, f, next, 0, worth)
  BY DEF Walked
<1>2. f \in Fillings(book) /\ Worth(book, f) = worth
  BY <1>1, QuantityAssumption DEF Follows, Fillings
<1>3. PICK k \in DOMAIN book :
        /\ Valid(book[k])
        /\ \A i \in DOMAIN book : /\ i < k /\ Valid(book[i]) => f[i] = book[i].quantity
                                  /\ i > k => f[i] = 0
  BY <1>1 DEF Follows
<1> DEFINE p == book[k].price
           v == Values(book, f)
<1>4. IsFiniteSet(DOMAIN book) /\ p \in Int
  BY BookType
<1>5. f \in [DOMAIN book -> 0..Quantity] /\ \A i \in DOMAIN book : f[i] \in Int /\ v[i] \in Int
  BY <1>2, BookSums DEF Fillings
<1>6. ASSUME NEW g \in Fillings(book), NEW i \in DOMAIN book
      PROVE  /\ f[i] \in Int /\ g[i] \in Int /\ book[i].price \in Int
             /\ Values(book, f)[i] = f[i] * book[i].price
             /\ Values(book, g)[i] = g[i] * book[i].price
             /\ i < k => g[i] <= f[i]
             /\ i > k => f[i] <= g[i]
             /\ ~ Valid(book[i]) => f[i] = 0 /\ g[i] = 0
  <2>1. g \in [DOMAIN book -> 0..Quantity] /\ f[i] \in Nat /\ g[i] \in Nat
    BY <1>2, BookSums DEF Fillings
  <2>2. /\ f[i] > 0 => Valid(book[i])
        /\ g[i] > 0 => Valid(book[i]) /\ g[i] <= book[i].quantity
    BY <1>2 DEF Fillings
  <2>3. book[i].price \in Int /\ book[i].quantity \in Int
    BY BookType
  <2>4. i < k /\ Valid(book[i]) => g[i] <= f[i]
    BY <1>3, <2>1, <2>2, <2>3 DEF Valid
  <2> QED
    BY <1>3, <2>1, <2>2, <2>3, <2>4 DEF Values
<1>7. ASSUME NEW g \in Fillings(book)
      PROVE  /\ SumFunctionOnSet(f, DOMAIN book) = Quantity
             /\ SumFunctionOnSet(g, DOMAIN book) = Quantity
             /\ SumFunctionOnSet(v, DOMAIN book) = worth
             /\ SumFunctionOnSet(Values(book, g), DOMAIN book) = Worth(book, g)
             /\ Worth(book, g) \in Int /\ worth \in Int
             /\ \A i \in DOMAIN book : g[i] \in Int /\ Values(book, g)[i] \in Int
  BY <1>2, BookSums DEF Fillings
<1>8. ASSUME Ascending(book), NEW g \in Fillings(book)
      PROVE  Worth(book, g) >= worth
  <2> DEFINE w == Values(book, g)
  <2>1. ASSUME NEW i \in DOMAIN book
        PROVE  w[i] + p * f[i] >= v[i] + p * g[i]
    <3>1. /\ Valid(book[i]) /\ i < k => book[i].price <= p
          /\ Valid(book[i]) /\ i > k => book[i].price >= p
      BY <1>3, <1>8 DEF Ascending, BestFirst
    <3>2. CASE ~ Valid(book[i])
      BY <1>4, <1>6, <3>2
    <3>3. CASE Valid(book[i])
      <4>1. i < k \/ i > k \/ i = k
        BY BookType, BookAssumption
      <4>2. \/ book[i].price <= p /\ g[i] <= f[i]
            \/ book[i].price >= p /\ g[i] >= f[i]
        BY <1>4, <1>6, <3>1, <3>3, <4>1
      <4> QED
        BY <1>4, <1>6, <4>2, Exchange
    <3> QED
      BY <3>2, <3>3
  <2> HIDE DEF p, v, w
  <2>2. \A i \in DOMAIN book : w[i] \in Int /\ f[i] \in Int /\ v[i] \in Int /\ g[i] \in Int
    BY <1>5, <1>7 DEF w
  <2>3. SumFunctionOnSet(w, DOMAIN book) + p * SumFunctionOnSet(f, DOMAIN book)
          >= SumFunctionOnSet(v, DOMAIN book) + p * SumFunctionOnSet(g, DOMAIN book)
    BY <1>4, <2>1, <2>2, SumCompares
  <2>4. Worth(book, g) + p * Quantity >= worth + p * Quantity
    BY <1>7, <2>3 DEF w
  <2> QED
    BY <1>4, <1>7, <2>4, QuantityAssumption
<1>9. ASSUME Descending(book), NEW g \in Fillings(book)
      PROVE  Worth(book, g) <= worth
  <2> DEFINE w == Values(book, g)
  <2>1. ASSUME NEW i \in DOMAIN book
        PROVE  v[i] + p * g[i] >= w[i] + p * f[i]
    <3>1. /\ Valid(book[i]) /\ i < k => book[i].price >= p
          /\ Valid(book[i]) /\ i > k => book[i].price <= p
      BY <1>3, <1>9 DEF Descending, BestFirst
    <3>2. CASE ~ Valid(book[i])
      BY <1>4, <1>6, <3>2
    <3>3. CASE Valid(book[i])
      <4>1. i < k \/ i > k \/ i = k
        BY BookType, BookAssumption
      <4>2. \/ book[i].price <= p /\ f[i] <= g[i]
            \/ book[i].price >= p /\ f[i] >= g[i]
        BY <1>4, <1>6, <3>1, <3>3, <4>1
      <4> QED
        BY <1>4, <1>6, <4>2, Exchange
    <3> QED
      BY <3>2, <3>3
  <2> HIDE DEF p, v, w
  <2>2. \A i \in DOMAIN book : w[i] \in Int /\ f[i] \in Int /\ v[i] \in Int /\ g[i] \in Int
    BY <1>5, <1>7 DEF w
  <2>3. SumFunctionOnSet(v, DOMAIN book) + p * SumFunctionOnSet(g, DOMAIN book)
          >= SumFunctionOnSet(w, DOMAIN book) + p * SumFunctionOnSet(f, DOMAIN book)
    BY <1>4, <2>1, <2>2, SumCompares
  <2>4. worth + p * Quantity >= Worth(book, g) + p * Quantity
    BY <1>7, <2>3 DEF w
  <2> QED
    BY <1>4, <1>7, <2>4, QuantityAssumption
<1> QED
  BY <1>2, <1>8, <1>9

-----------------------------------------------------------------------------
(* The inductive invariant                                                 *)

\* What a set of sources offers together.
Total(sources) == SumFunctionOnSet([s \in Sources |-> offer[s].amount], sources)

\* Each book is a list of levels with the best price first, and past the scan
\* both are young.
BooksRight ==
  /\ asks \in Books /\ Ascending(asks)
  /\ bids \in Books /\ Descending(bids)
  /\ stage \notin {"scan", "done"} \/ verdict = "admitted" => fresh = Sides
  /\ stage # "done" => verdict = "none"

\* The walk under way is somewhere on its book, and one that is over has filled
\* the quantity.
WalkRight ==
  /\ stage \in {"scan", "asks"} =>
       Walked(asks, cursor, remaining, notional["asks"]) /\ notional["bids"] = 0
  /\ stage = "bids" => Walked(bids, cursor, remaining, notional["bids"])
  /\ PastAsks => Filled(asks, notional["asks"])
  /\ PastBids => Filled(bids, notional["bids"])

\* What is collected came from the usable sources, the cheapest first, and the
\* last one of them was needed.
Collecting == stage \in {"capital", "risk"} \/ verdict = "admitted"
CapitalRight ==
  /\ stage \in {"scan", "asks", "bids", "net"} => taken = {} /\ amount = 0
  /\ Collecting =>
       /\ taken \subseteq Usable
       /\ \A s \in taken, t \in Usable \ taken : Before(s, t)
       /\ amount < Needed => amount = Total(taken)
       /\ amount = Needed =>
            /\ Total(taken) >= Needed
            /\ \E last \in taken : /\ Total(taken \ {last}) < Needed
                                   /\ \A t \in taken : offer[t].cost <= offer[last].cost

\* What reached the risk gates has passed the capital gate.
GateRight ==
  stage = "risk" \/ verdict = "admitted" => NetProfit > 100 * Reserve /\ amount = Needed

\* The inductive invariant.
IInv == TypeOK /\ BooksRight /\ WalkRight /\ CapitalRight /\ GateRight

\* Sums over capital sources.
LEMMA Totals ==
  ASSUME TypeOK, NEW T \in SUBSET Sources
  PROVE  /\ Total(T) \in Int /\ Total({}) = 0
         /\ \A s \in Sources : offer[s].amount \in Nat /\ offer[s].cost \in Int
         /\ \A s \in T : Total(T) = offer[s].amount + Total(T \ {s})
         /\ \A U \in SUBSET T : Total(U) <= Total(T)
<1> DEFINE w == [s \in Sources |-> offer[s].amount]
<1>1. \A s \in Sources : offer[s].amount \in Nat /\ offer[s].cost \in Int
  BY SourceAssumption DEF TypeOK
<1>2. IsFiniteSet(T) /\ \A s \in T : w[s] \in Nat /\ w[s] = offer[s].amount
  BY <1>1, SourceAssumption, FS_Subset
<1> HIDE DEF w
<1>3. \A s \in T : w[s] \in Int
  BY <1>2
<1>4. /\ SumFunctionOnSet(w, T) \in Int
      /\ \A s \in T : SumFunctionOnSet(w, T) = w[s] + SumFunctionOnSet(w, T \ {s})
  BY <1>2, <1>3, SumTakesOut
<1>5. SumFunctionOnSet(w, {}) = 0
  BY FS_EmptySet, SumUnfolds
<1>6. \A U \in SUBSET T : SumFunctionOnSet(w, U) <= SumFunctionOnSet(w, T)
  BY <1>2, SumOfPart
<1> QED
  BY <1>1, <1>2, <1>4, <1>5, <1>6 DEF Total, w

\* Before the scan nothing has been walked or collected.
LEMMA InitRight == Init => IInv
<1> SUFFICES ASSUME Init PROVE IInv
  OBVIOUS
<1>1. asks \in Books /\ Ascending(asks) /\ bids \in Books /\ Descending(bids)
  BY Zenon DEF Init, Ascending, Descending
<1>2. /\ fresh \in SUBSET Sides /\ stage = "scan" /\ cursor = 1 /\ remaining = Quantity
      /\ notional = [s \in Sides |-> 0] /\ offer \in [Sources -> {CHOOSE o \in Offers : TRUE}]
      /\ taken = {} /\ amount = 0 /\ verdict = "none"
  BY Zenon DEF Init
<1>3. TypeOK
  <2>1. asks \in Seq(Levels) /\ bids \in Seq(Levels)
    BY <1>1, BookType
  <2>2. (CHOOSE o \in Offers : TRUE) \in Offers
    BY SourceAssumption
  <2>3. offer \in [Sources -> Offers]
    BY <1>2, <2>2
  <2>4. notional \in [Sides -> Nat] /\ notional["asks"] = 0
    BY <1>2 DEF Sides
  <2>5. cursor \in 1..(MaxLevels + 1) /\ remaining \in 0..Quantity
    BY <1>2, QuantityAssumption, BookAssumption
  <2> QED
    BY <1>2, <2>1, <2>3, <2>4, <2>5 DEF TypeOK
<1>4. BooksRight
  BY <1>1, <1>2 DEF BooksRight
<1>5. Walked(asks, 1, Quantity, 0)
  BY <1>1, WalkStarts
<1>6. WalkRight
  BY <1>2, <1>5 DEF WalkRight, PastAsks, PastBids, Sides
<1>7. CapitalRight /\ GateRight
  BY <1>2 DEF CapitalRight, GateRight, Collecting
<1> QED
  BY <1>3, <1>4, <1>6, <1>7 DEF IInv

\* One turn of the loop leaves the walk further on its book.
LEMMA TurnRight ==
  ASSUME NEW book \in Books, NEW worth \in Nat, NEW next, NEW left \in 0..Quantity,
         left > 0, next <= Len(book), Walked(book, next, left, worth),
         NEW next2, NEW left2, NEW worth2, next2 = next + 1,
         LET take == Min({left, book[next].quantity})
         IN IF Valid(book[next])
              THEN left2 = left - take /\ worth2 = worth + take * book[next].price
              ELSE left2 = left /\ worth2 = worth
  PROVE  /\ left2 \in 0..Quantity /\ worth2 \in Nat /\ next2 \in 1..(MaxLevels + 1)
         /\ Walked(book, next2, left2, worth2)
<1>1. next \in DOMAIN book /\ next2 \in 1..(MaxLevels + 1) /\ left \in 1..Quantity
  BY BookType, BookAssumption, QuantityAssumption DEF Walked, Positions
<1>2. CASE Valid(book[next])
  <2>1. /\ Min({left, book[next].quantity}) \in 1..left
        /\ worth2 \in Nat /\ Walked(book, next2, left2, worth2)
    BY <1>1, <1>2, WalkTakes
  <2> QED
    BY <1>1, <1>2, <2>1, QuantityAssumption
<1>3. CASE ~ Valid(book[next])
  BY <1>1, <1>3, WalkSkips
<1> QED
  BY <1>2, <1>3

\* Every action keeps the invariant.
LEMMA StepRight == IInv /\ [Next]_vars => IInv'
<1> SUFFICES ASSUME IInv, [Next]_vars PROVE IInv'
  OBVIOUS
<1> USE DEF IInv
<1>1. CASE Scan
  <2>1. TypeOK'
    BY <1>1 DEF Scan, TypeOK, Goes, Rejects, books, walk, capital
  <2>2. BooksRight'
    BY <1>1 DEF Scan, BooksRight, Goes, Rejects, books, walk, capital
  <2>3. WalkRight'
    BY <1>1
       DEF Scan, WalkRight, BooksRight, PastAsks, PastBids, Goes, Rejects, books, walk, capital
  <2>4. CapitalRight' /\ GateRight'
    BY <1>1
       DEF Scan, CapitalRight, GateRight, BooksRight, Collecting, Goes, Rejects,
           books, walk, capital
  <2> QED
    BY <2>1, <2>2, <2>3, <2>4
<1>2. CASE TakeLevel
  <2>1. /\ UNCHANGED <<books, capital, stage, verdict>> /\ stage \in {"asks", "bids"}
        /\ remaining \in 0..Quantity /\ remaining > 0 /\ cursor <= Len(Book)
        /\ notional \in [Sides -> Nat]
    BY <1>2 DEF TakeLevel, Walking, Sides, TypeOK
  <2>2. CASE stage = "asks"
    <3>1. /\ Book = asks /\ asks \in Books /\ verdict = "none"
          /\ Walked(asks, cursor, remaining, notional["asks"]) /\ notional["bids"] = 0
      BY <2>2 DEF Book, BooksRight, WalkRight
    <3>2. /\ remaining' \in 0..Quantity /\ notional'["asks"] \in Nat
          /\ cursor' \in 1..(MaxLevels + 1)
          /\ Walked(asks, cursor', remaining', notional'["asks"])
          /\ notional' \in [Sides -> Nat] /\ notional'["bids"] = 0
      <4> DEFINE take == Min({remaining, asks[cursor].quantity})
      <4>1. /\ cursor' = cursor + 1
            /\ IF Valid(asks[cursor])
                 THEN /\ remaining' = remaining - take
                      /\ notional' =
                           [notional EXCEPT !["asks"] = @ + take * asks[cursor].price]
                 ELSE remaining' = remaining /\ notional' = notional
        BY <1>2, <2>2, <3>1 DEF TakeLevel
      <4>2. IF Valid(asks[cursor])
              THEN /\ remaining' = remaining - take
                   /\ notional'["asks"] = notional["asks"] + take * asks[cursor].price
              ELSE remaining' = remaining /\ notional'["asks"] = notional["asks"]
        BY <2>1, <4>1 DEF Sides
      <4>3. notional["asks"] \in Nat
        BY <2>1 DEF Sides
      <4>4. /\ remaining' \in 0..Quantity /\ notional'["asks"] \in Nat
            /\ cursor' \in 1..(MaxLevels + 1)
            /\ Walked(asks, cursor', remaining', notional'["asks"])
        BY <2>1, <3>1, <4>1, <4>2, <4>3, TurnRight
      <4> HIDE DEF take
      <4> QED
        BY <2>1, <3>1, <4>1, <4>4 DEF Sides
    <3>3. taken = {} /\ amount = 0
      BY <2>2 DEF CapitalRight
    <3>4. TypeOK'
      BY <2>1, <3>2, <3>3 DEF TypeOK, books, capital
    <3>5. BooksRight'
      BY <2>1 DEF BooksRight, books
    <3>6. WalkRight'
      BY <2>1, <2>2, <3>1, <3>2 DEF WalkRight, PastAsks, PastBids, books
    <3>7. CapitalRight' /\ GateRight'
      BY <2>1, <2>2, <3>1, <3>3 DEF CapitalRight, GateRight, Collecting, capital
    <3> QED
      BY <3>4, <3>5, <3>6, <3>7
  <2>3. CASE stage = "bids"
    <3>1. /\ Book = bids /\ bids \in Books /\ verdict = "none"
          /\ Walked(bids, cursor, remaining, notional["bids"])
          /\ Filled(asks, notional["asks"])
      BY <2>3 DEF Book, BooksRight, WalkRight, PastAsks
    <3>2. /\ remaining' \in 0..Quantity /\ notional'["bids"] \in Nat
          /\ cursor' \in 1..(MaxLevels + 1)
          /\ Walked(bids, cursor', remaining', notional'["bids"])
          /\ notional' \in [Sides -> Nat] /\ notional'["asks"] = notional["asks"]
      <4> DEFINE take == Min({remaining, bids[cursor].quantity})
      <4>1. /\ cursor' = cursor + 1
            /\ IF Valid(bids[cursor])
                 THEN /\ remaining' = remaining - take
                      /\ notional' =
                           [notional EXCEPT !["bids"] = @ + take * bids[cursor].price]
                 ELSE remaining' = remaining /\ notional' = notional
        BY <1>2, <2>3, <3>1 DEF TakeLevel
      <4>2. IF Valid(bids[cursor])
              THEN /\ remaining' = remaining - take
                   /\ notional'["bids"] = notional["bids"] + take * bids[cursor].price
              ELSE remaining' = remaining /\ notional'["bids"] = notional["bids"]
        BY <2>1, <4>1 DEF Sides
      <4>3. notional["bids"] \in Nat
        BY <2>1 DEF Sides
      <4>4. /\ remaining' \in 0..Quantity /\ notional'["bids"] \in Nat
            /\ cursor' \in 1..(MaxLevels + 1)
            /\ Walked(bids, cursor', remaining', notional'["bids"])
        BY <2>1, <3>1, <4>1, <4>2, <4>3, TurnRight
      <4> HIDE DEF take
      <4> QED
        BY <2>1, <3>1, <4>1, <4>4 DEF Sides
    <3>3. taken = {} /\ amount = 0
      BY <2>3 DEF CapitalRight
    <3>4. TypeOK'
      BY <2>1, <3>2, <3>3 DEF TypeOK, books, capital
    <3>5. BooksRight'
      BY <2>1 DEF BooksRight, books
    <3>6. WalkRight'
      BY <2>1, <2>3, <3>1, <3>2 DEF WalkRight, PastAsks, PastBids, books
    <3>7. CapitalRight' /\ GateRight'
      BY <2>1, <2>3, <3>1, <3>3 DEF CapitalRight, GateRight, Collecting, capital
    <3> QED
      BY <3>4, <3>5, <3>6, <3>7
  <2> QED
    BY <2>1, <2>2, <2>3
<1>3. CASE EndWalk
  <2>1. /\ UNCHANGED <<books, capital, notional>> /\ stage \in {"asks", "bids"}
        /\ verdict = "none" /\ fresh = Sides /\ taken = {} /\ amount = 0
        /\ cursor \in 1..(MaxLevels + 1)
    BY <1>3 DEF EndWalk, Walking, Sides, TypeOK, BooksRight, CapitalRight, walk
  <2>2. CASE remaining > 0
    <3>1. stage' = "done" /\ verdict' = "rejected" /\ UNCHANGED walk
      BY <1>3, <2>2 DEF EndWalk, Rejects
    <3>2. TypeOK'
      BY <2>1, <3>1 DEF TypeOK, books, capital, walk
    <3>3. BooksRight'
      BY <2>1, <3>1 DEF BooksRight, books
    <3>4. WalkRight' /\ CapitalRight' /\ GateRight'
      BY <3>1 DEF WalkRight, CapitalRight, GateRight, PastAsks, PastBids, Collecting
    <3> QED
      BY <3>2, <3>3, <3>4
  <2>3. CASE ~ (remaining > 0) /\ stage = "asks"
    <3>1. stage' = "bids" /\ cursor' = 1 /\ remaining' = Quantity /\ verdict' = verdict
      BY <1>3, <2>3 DEF EndWalk, Goes
    <3>2. remaining = 0
      BY <2>3, QuantityAssumption DEF TypeOK
    <3>3. Filled(asks, notional["asks"]) /\ notional["bids"] = 0
      BY <2>3, <3>2 DEF WalkRight, Walked, Filled
    <3>4. Walked(bids, 1, Quantity, 0)
      BY WalkStarts DEF BooksRight
    <3>5. TypeOK'
      BY <2>1, <3>1, QuantityAssumption, BookAssumption DEF TypeOK, books, capital
    <3>6. BooksRight'
      BY <2>1, <3>1 DEF BooksRight, books
    <3>7. WalkRight'
      BY <2>1, <3>1, <3>3, <3>4 DEF WalkRight, PastAsks, PastBids, books
    <3>8. CapitalRight' /\ GateRight'
      BY <2>1, <3>1 DEF CapitalRight, GateRight, Collecting, capital
    <3> QED
      BY <3>5, <3>6, <3>7, <3>8
  <2>4. CASE ~ (remaining > 0) /\ stage = "bids"
    <3>1. stage' = "net" /\ UNCHANGED walk /\ verdict' = verdict
      BY <1>3, <2>4 DEF EndWalk, Goes
    <3>2. remaining = 0
      BY <2>4, QuantityAssumption DEF TypeOK
    <3>3. Filled(asks, notional["asks"]) /\ Filled(bids, notional["bids"])
      BY <2>4, <3>2 DEF WalkRight, PastAsks, Walked, Filled
    <3>5. TypeOK'
      BY <2>1, <3>1 DEF TypeOK, books, capital, walk
    <3>6. BooksRight'
      BY <2>1, <3>1 DEF BooksRight, books
    <3>7. WalkRight'
      BY <2>1, <3>1, <3>3 DEF WalkRight, PastAsks, PastBids, books
    <3>8. CapitalRight' /\ GateRight'
      BY <2>1, <3>1 DEF CapitalRight, GateRight, Collecting, capital
    <3> QED
      BY <3>5, <3>6, <3>7, <3>8
  <2> QED
    BY <2>1, <2>2, <2>3, <2>4
<1>4. CASE Net
  <2>1. /\ UNCHANGED <<books, walk, taken, amount>> /\ stage = "net"
        /\ verdict = "none" /\ taken = {} /\ amount = 0 /\ fresh = Sides
        /\ \/ stage' = "capital" /\ verdict' = verdict /\ offer' \in [Sources -> Offers]
           \/ stage' = "done" /\ verdict' = "rejected" /\ offer' = offer
    BY <1>4 DEF Net, Goes, Rejects, BooksRight, CapitalRight, capital
  <2>2. TypeOK'
    BY <2>1 DEF TypeOK, books, walk
  <2>3. BooksRight'
    BY <2>1 DEF BooksRight, books
  <2>4. Filled(asks, notional["asks"]) /\ Filled(bids, notional["bids"])
    BY <2>1 DEF WalkRight, PastAsks, PastBids
  <2>5. WalkRight'
    BY <2>1, <2>4 DEF WalkRight, PastAsks, PastBids, books, walk
  <2>6. notional["asks"] \in Nat /\ notional["asks"] > 0
    BY <2>4, QuantityAssumption DEF Filled, Walked, Follows, TypeOK, Sides
  <2>7. CapitalRight'
    <3>1. Total({})' = 0
      BY FS_EmptySet, SumUnfolds DEF Total
    <3> QED
      BY <2>1, <2>6, <3>1 DEF CapitalRight, Collecting, Needed, walk
  <2>8. GateRight'
    BY <2>1 DEF GateRight
  <2> QED
    BY <2>2, <2>3, <2>5, <2>7, <2>8
<1>5. CASE CollectSource
  <2>1. PICK s \in Usable \ taken :
          /\ \A t \in Usable \ taken : Before(s, t)
          /\ taken' = taken \cup {s}
          /\ amount' = amount + Min({offer[s].amount, Needed - amount})
    BY <1>5 DEF CollectSource
  <2>2. /\ UNCHANGED <<books, walk, offer, stage, verdict>> /\ stage = "capital"
        /\ amount < Needed /\ verdict = "none"
        /\ taken \subseteq Usable /\ amount = Total(taken)
        /\ \A x \in taken, t \in Usable \ taken : Before(x, t)
    BY <1>5 DEF CollectSource, BooksRight, CapitalRight, Collecting
  <2>3. /\ Usable \subseteq Sources /\ s \in Sources /\ s \notin taken
        /\ offer[s].amount \in Nat /\ amount \in Nat /\ Needed \in Nat
        /\ \A t \in Sources : offer[t].cost \in Int
    <3>1. /\ Usable \subseteq Sources /\ s \in Sources /\ s \notin taken
          /\ notional["asks"] \in Nat /\ amount \in Nat
      BY <2>1 DEF Usable, TypeOK, Sides
    <3>2. \A t \in Sources : offer[t].amount \in Nat /\ offer[t].cost \in Int
      BY {} \in SUBSET Sources, Totals
    <3> QED
      BY <3>1, <3>2 DEF Needed
  <2>4. /\ taken \cup {s} \in SUBSET Sources /\ (taken \cup {s}) \ {s} = taken
        /\ s \in taken \cup {s}
    BY <2>2, <2>3
  <2>5. Total(taken \cup {s}) = offer[s].amount + amount
    BY <2>2, <2>4, Totals
  <2>6. \/ offer[s].amount < Needed - amount /\ amount' = amount + offer[s].amount
        \/ offer[s].amount >= Needed - amount /\ amount' = Needed
    BY <2>1, <2>3, MinOfTwo
  <2>7. TypeOK'
    BY <2>1, <2>2, <2>3, <2>4, <2>6 DEF TypeOK, Needed, books, walk
  <2>8. BooksRight' /\ WalkRight' /\ GateRight'
    BY <2>2 DEF BooksRight, WalkRight, GateRight, PastAsks, PastBids, books, walk
  <2>9. CapitalRight'
    <3>1. (taken \subseteq Usable)'
      BY <2>1, <2>2 DEF Usable
    <3>2. (\A x \in taken, t \in Usable \ taken : Before(x, t))'
      BY <2>1, <2>2 DEF Usable, Before
    <3>3. (amount < Needed => amount = Total(taken))'
      BY <2>1, <2>2, <2>3, <2>5, <2>6 DEF Total, Needed, walk
    <3>4. (amount = Needed => Total(taken) >= Needed)'
      <4>1. amount' = Needed => Total(taken \cup {s}) >= Needed
        BY <2>3, <2>5, <2>6
      <4> QED
        BY <2>1, <2>2, <4>1 DEF Total, Needed, walk
    <3>5. \A t \in taken : offer[t].cost <= offer[s].cost
      BY <2>1, <2>2, <2>3 DEF Before
    <3>6. (\E last \in taken : /\ Total(taken \ {last}) < Needed
                               /\ \A t \in taken : offer[t].cost <= offer[last].cost)'
      <4>1. s \in taken' /\ (taken \ {s})' = taken
        BY <2>1, <2>4
      <4>2. (Total(taken \ {s}) < Needed)'
        BY <2>2, <4>1 DEF Total, Needed, walk
      <4>3. (\A t \in taken : offer[t].cost <= offer[s].cost)'
        BY <2>1, <2>2, <2>3, <3>5
      <4> QED
        BY <4>1, <4>2, <4>3
    <3> QED
      BY <2>2, <3>1, <3>2, <3>3, <3>4, <3>6 DEF CapitalRight, Collecting
  <2> QED
    BY <2>7, <2>8, <2>9
<1>6. CASE Assess
  <2>1. UNCHANGED <<books, walk, capital>> /\ stage = "capital" /\ verdict = "none"
    BY <1>6 DEF Assess, BooksRight
  <2>2. \/ /\ stage' = "risk" /\ verdict' = verdict
           /\ amount >= Needed /\ NetProfit > 100 * Reserve
        \/ stage' = "done" /\ verdict' = "rejected"
    BY <1>6 DEF Assess, Goes, Rejects
  <2>3. TypeOK'
    BY <2>1, <2>2 DEF TypeOK, books, walk, capital
  <2>4. BooksRight' /\ WalkRight'
    BY <2>1, <2>2 DEF BooksRight, WalkRight, PastAsks, PastBids, books, walk
  <2>5. CapitalRight'
    BY <2>1, <2>2 DEF CapitalRight, Collecting, Total, Usable, Needed, Before, walk, capital
  <2>6. amount >= Needed => amount = Needed
    BY DEF TypeOK, Needed, Sides
  <2>7. GateRight'
    BY <2>1, <2>2, <2>6 DEF GateRight, NetProfit, Needed, walk, capital
  <2> QED
    BY <2>3, <2>4, <2>5, <2>7
<1>7. CASE Risk
  <2>1. /\ UNCHANGED <<books, walk, capital>> /\ stage = "risk" /\ stage' = "done"
        /\ verdict' \in {"rejected", "admitted"}
    BY <1>7, Zenon DEF Risk
  <2>2. TypeOK'
    BY <2>1 DEF TypeOK, books, walk, capital
  <2>3. BooksRight' /\ WalkRight'
    BY <2>1 DEF BooksRight, WalkRight, PastAsks, PastBids, books, walk
  <2>4. CapitalRight'
    BY <2>1 DEF CapitalRight, Collecting, Total, Usable, Needed, Before, walk, capital
  <2>5. GateRight'
    BY <2>1 DEF GateRight, NetProfit, Needed, walk, capital
  <2> QED
    BY <2>2, <2>3, <2>4, <2>5
<1>8. CASE UNCHANGED vars
  BY <1>8 DEF TypeOK, BooksRight, WalkRight, CapitalRight, GateRight, PastAsks, PastBids,
     Collecting, Total, Usable, Needed, Before, NetProfit, vars, books, walk, capital
<1> QED
  BY <1>1, <1>2, <1>3, <1>4, <1>5, <1>6, <1>7, <1>8 DEF Next

\* The invariant holds in every reachable state.
THEOREM Invariant == Spec => []IInv
<1> QED
  BY InitRight, StepRight, PTL DEF Spec

\* Every variable keeps its type; what is collected never exceeds the notional
\* (opportunity-capital.ts 7).
THEOREM Typing == Spec => []TypeOK
<1>1. IInv => TypeOK
  BY DEF IInv
<1> QED
  BY <1>1, Invariant, PTL

\* For every pair of books, however long: the walk of executableVwap finds the
\* filling that costs least or earns most, and gives up only where there is none
\* (vwap.ts 19-26).
THEOREM BestFilling == Spec => []WalkIsBest
<1>1. IInv => WalkIsBest
  <2> SUFFICES ASSUME IInv PROVE WalkIsBest
    OBVIOUS
  <2>1. asks \in Books /\ bids \in Books /\ Ascending(asks) /\ Descending(bids)
    BY DEF IInv, BooksRight
  <2>2. ASSUME PastAsks
        PROVE  /\ \E f \in Fillings(asks) : Worth(asks, f) = notional["asks"]
               /\ \A f \in Fillings(asks) : Worth(asks, f) >= notional["asks"]
    <3>1. Filled(asks, notional["asks"])
      BY <2>2 DEF IInv, WalkRight
    <3> QED
      BY <2>1, <3>1, WalkFills DEF Filled
  <2>3. ASSUME PastBids
        PROVE  /\ \E f \in Fillings(bids) : Worth(bids, f) = notional["bids"]
               /\ \A f \in Fillings(bids) : Worth(bids, f) <= notional["bids"]
    <3>1. Filled(bids, notional["bids"])
      BY <2>3 DEF IInv, WalkRight
    <3> QED
      BY <2>1, <3>1, WalkFills DEF Filled
  <2>4. ASSUME Walking, remaining > 0, cursor > Len(Book)
        PROVE  Fillings(Book) = {}
    <3>1. remaining \in 1..Quantity /\ cursor \in Nat
      BY <2>4, QuantityAssumption, BookAssumption DEF IInv, TypeOK
    <3>2. Book \in Books /\ Walked(Book, cursor, remaining, notional[stage])
      BY <2>1, <2>4 DEF IInv, WalkRight, Walking, Sides, Book
    <3> QED
      BY <2>4, <3>1, <3>2, WalkThin
  <2> QED
    BY <2>2, <2>3, <2>4 DEF WalkIsBest
<1> QED
  BY <1>1, Invariant, PTL

\* For every set of sources and every offer: no usable sources whose dearest one
\* costs less cover the notional, and a dearest one of those collected was needed
\* (opportunity-capital.ts 6-8).
THEOREM CheapestSources == Spec => []CapitalIsCheapest
<1>1. ASSUME IInv, stage = "risk", NEW others \in SUBSET Usable, Covers(others)
      PROVE  \E s \in others : \A t \in taken : offer[s].cost >= offer[t].cost
  <2>1. TypeOK /\ taken \subseteq Usable /\ Usable \subseteq Sources /\ Needed \in Nat
    BY <1>1 DEF IInv, CapitalRight, Collecting, Usable, TypeOK, Needed, Sides
  <2>2. PICK last \in taken : /\ Total(taken \ {last}) < Needed
                              /\ \A t \in taken : offer[t].cost <= offer[last].cost
    BY <1>1 DEF IInv, CapitalRight, GateRight, Collecting
  <2>3. \A s \in taken, t \in Usable \ taken : offer[s].cost <= offer[t].cost
    <3>1. \A t \in Sources : offer[t].cost \in Int
      BY <2>1, {} \in SUBSET Sources, Totals
    <3>2. \A s \in taken, t \in Usable \ taken : Before(s, t)
      BY <1>1 DEF IInv, CapitalRight, Collecting
    <3> QED
      BY <2>1, <3>1, <3>2 DEF Before
  <2>4. CASE others \subseteq taken \ {last}
    <3>1. Total(others) <= Total(taken \ {last})
      BY <2>1, <2>4, Totals
    <3>2. Total(others) >= Needed
      BY <1>1 DEF Covers, Total
    <3>3. Total(others) \in Int /\ Total(taken \ {last}) \in Int
      BY <2>1, Totals
    <3> QED
      BY <2>1, <2>2, <3>1, <3>2, <3>3
  <2>5. CASE ~ (others \subseteq taken \ {last})
    <3>1. PICK s \in others : s = last \/ s \notin taken
      BY <2>5
    <3>2. offer[s].cost >= offer[last].cost
      BY <2>1, <2>2, <2>3, <3>1, Totals
    <3> QED
      BY <2>1, <2>2, <3>1, <3>2, Totals
  <2> QED
    BY <2>4, <2>5
<1>2. ASSUME IInv, stage = "risk"
      PROVE  \E last \in taken : /\ ~Covers(taken \ {last})
                               /\ \A t \in taken : offer[t].cost <= offer[last].cost
  <2>1. PICK last \in taken : /\ Total(taken \ {last}) < Needed
                              /\ \A t \in taken : offer[t].cost <= offer[last].cost
    BY <1>2 DEF IInv, CapitalRight, GateRight, Collecting
  <2>2. Total(taken \ {last}) \in Int /\ Needed \in Nat
    BY <1>2, Totals DEF IInv, TypeOK, Needed, Sides
  <2>3. ~Covers(taken \ {last})
    BY <2>1, <2>2 DEF Covers, Total
  <2> QED
    BY <2>1, <2>3
<1>3. IInv => CapitalIsCheapest
  BY <1>1, <1>2 DEF CapitalIsCheapest
<1> QED
  BY <1>3, Invariant, PTL

\* For all fees, costs and reserves: an admitted trade is covered and earns more
\* than its costs and twice the reserve, on books that were young (scanner.ts
\* 42-53, opportunity-capital.ts 9).
THEOREM AdmittedEarns == Spec => []AdmittedPays
<1>1. IInv => AdmittedPays
  <2> SUFFICES ASSUME IInv, verdict = "admitted"
               PROVE  /\ fresh = Sides
                      /\ Covers(taken)
                      /\ \E f \in Fillings(asks), g \in Fillings(bids) :
                           (100 - FeeSell) * Worth(bids, g) - (100 + FeeBuy) * Worth(asks, f)
                             > 100 * (Fixed + 2 * Reserve)
    BY DEF AdmittedPays
  <2> DEFINE A == notional["asks"]
             B == notional["bids"]
  <2>1. fresh = Sides
    BY DEF IInv, BooksRight
  <2>2. Covers(taken)
    BY DEF IInv, CapitalRight, GateRight, Collecting, Covers, Total
  <2>3. PICK f \in Fillings(asks) : Worth(asks, f) = A
    BY WalkFills DEF IInv, WalkRight, BooksRight, PastAsks, Filled
  <2>4. PICK g \in Fillings(bids) : Worth(bids, g) = B
    BY WalkFills DEF IInv, WalkRight, BooksRight, PastBids, Filled
  <2>5. /\ A \in Int /\ B \in Int /\ FeeBuy \in Int /\ FeeSell \in Int
        /\ Fixed \in Int /\ Reserve \in Int
    BY CostAssumption DEF IInv, TypeOK, Sides
  <2>6. 100 * (B - A - Fixed - Reserve) - FeeBuy * A - FeeSell * B > 100 * Reserve
    BY DEF IInv, GateRight, NetProfit
  <2> HIDE DEF A, B
  <2>7. (100 - FeeSell) * B - (100 + FeeBuy) * A > 100 * (Fixed + 2 * Reserve)
    <3>1. /\ (100 - FeeSell) * B = 100 * B - FeeSell * B
          /\ (100 + FeeBuy) * A = 100 * A + FeeBuy * A
      BY <2>5
    <3>2. FeeSell * B \in Int /\ FeeBuy * A \in Int
      BY <2>5
    <3> QED
      BY <2>5, <2>6, <3>1, <3>2
  <2> QED
    BY <2>1, <2>2, <2>3, <2>4, <2>7
<1> QED
  BY <1>1, Invariant, PTL
=============================================================================
