----------------------------- MODULE QueuesProofs -----------------------------
(***************************************************************************)
(* What a server makes of the priorities it was given, and in which order  *)
(* its polls ask: for every configuration, every order that a map or a     *)
(* shuffle can give, and every number of servers and queues.               *)
(*                                                                         *)
(* The loops of gcd, normalizeQueues and uniq compute by recursion.  That  *)
(* such a recursion has a value at all, and what it is, is shown here by   *)
(* looking at a least set or number for which it would not be so.          *)
(***************************************************************************)
EXTENDS Queues, FiniteSetTheorems, WellFoundedInduction, TLAPS

------------------------------------------------------------------------------
(* Induction.                                                              *)

\* A set of natural numbers that is not empty has a least one.
LEMMA LeastNumber ==
  ASSUME NEW S \in SUBSET Nat, S # {}
  PROVE  \E n \in S : \A k \in S : ~(k < n)
<1> DEFINE R == OpToRel(<, Nat)
<1>1. IsWellFoundedOn(R, Nat)
  BY NatLessThanWellFounded, Zenon
<1>2. ASSUME NEW k \in Nat, NEW n \in Nat, k < n PROVE <<k, n>> \in R
  BY <1>2, Zenon DEF OpToRel
<1> HIDE DEF R
<1>3. PICK n \in S : \A k \in S : ~(<<k, n>> \in R)
  BY <1>1, WFMin
<1>4. QED
  BY <1>2, <1>3

\* A property of numbers is given by the set P of those that have it.
LEMMA NumberInduction ==
  ASSUME NEW P, 0 \in P, \A n \in Nat : n \in P => n + 1 \in P
  PROVE  Nat \subseteq P
<1> SUFFICES ASSUME Nat \ P # {} PROVE FALSE
  OBVIOUS
<1>1. PICK n \in Nat \ P : \A k \in Nat \ P : ~(k < n)
  BY LeastNumber
<1>2. n # 0 /\ n - 1 \in Nat /\ n - 1 < n
  OBVIOUS
<1>3. n - 1 \in P
  BY <1>1, <1>2
<1>4. (n - 1) + 1 = n
  OBVIOUS
<1>5. QED
  BY <1>1, <1>2, <1>3, <1>4

\* A property of finite sets is given by the set P of those that have it; it
\* is enough that each set has it if the set without some member does.
LEMMA SubsetInduction ==
  ASSUME NEW S, IsFiniteSet(S), NEW P, {} \in P,
         \A s \in SUBSET S : s # {} => \E x \in s : s \ {x} \in P => s \in P
  PROVE  SUBSET S \subseteq P
<1> SUFFICES ASSUME (SUBSET S) \ P # {} PROVE FALSE
  OBVIOUS
<1> DEFINE Bad   == (SUBSET S) \ P
           Sizes == {Cardinality(s) : s \in Bad}
<1>1. \A s \in SUBSET S : IsFiniteSet(s) /\ Cardinality(s) \in Nat
  BY FS_Subset, FS_CardinalityType
<1>2. Sizes \in SUBSET Nat /\ Sizes # {}
  BY <1>1
<1> HIDE DEF Sizes
<1>3. PICK n \in Sizes : \A k \in Sizes : ~(k < n)
  BY <1>2, LeastNumber
<1>4. PICK s \in Bad : Cardinality(s) = n
  BY DEF Sizes
<1>5. PICK x \in s : s \ {x} \in P => s \in P
  OBVIOUS
<1>6. s \ {x} \in Bad
  BY <1>5
<1>7. Cardinality(s \ {x}) = Cardinality(s) - 1
  BY <1>1, FS_RemoveElement
<1>8. Cardinality(s \ {x}) \in Sizes
  BY <1>6 DEF Sizes
<1>9. QED
  BY <1>1, <1>3, <1>4, <1>7, <1>8
------------------------------------------------------------------------------
(* Recursion over the subsets of a finite set.                             *)

\* ch says which member of a set comes next, op what is done with it.
Recursion(S, V, base, op, ch) ==
  /\ IsFiniteSet(S) /\ base \in V /\ op \in [S \X V -> V]
  /\ \A s \in SUBSET S : s # {} => ch[s] \in s

Value(it, S, base, op, ch) ==
  \A s \in SUBSET S : it[s] = IF s = {} THEN base
                              ELSE op[<<ch[s], it[s \ {ch[s]}]>>]

\* It has a value.
LEMMA FoldHasValue ==
  ASSUME NEW S, NEW V, NEW base, NEW op, NEW ch, Recursion(S, V, base, op, ch)
  PROVE  \E it \in [SUBSET S -> V] : Value(it, S, base, op, ch)
<1> USE DEF Recursion
<1> DEFINE Sub(k)    == {s \in SUBSET S : Cardinality(s) =< k}
           Does(it, s) == it[s] = IF s = {} THEN base
                                  ELSE op[<<ch[s], it[s \ {ch[s]}]>>]
           Has(k)    == \E it \in [Sub(k) -> V] : \A s \in Sub(k) : Does(it, s)
           P         == {k \in Nat : Has(k)}
<1>1. \A s \in SUBSET S : IsFiniteSet(s) /\ Cardinality(s) \in Nat
  BY FS_Subset, FS_CardinalityType
<1>2. \A s \in SUBSET S : s # {} =>
        /\ ch[s] \in s
        /\ s \ {ch[s]} \in SUBSET S
        /\ Cardinality(s \ {ch[s]}) = Cardinality(s) - 1
  BY <1>1, FS_RemoveElement
<1>3. 0 \in P
  <2>1. \A s \in Sub(0) : s = {}
    BY <1>1, FS_EmptySet
  <2> DEFINE it == [s \in Sub(0) |-> base]
  <2>2. it \in [Sub(0) -> V] /\ \A s \in Sub(0) : Does(it, s)
    BY <2>1
  <2> HIDE DEF it, Does, Sub
  <2>3. QED
    BY <2>2
<1>4. ASSUME NEW k \in Nat, k \in P PROVE k + 1 \in P
  <2>1. PICK it \in [Sub(k) -> V] : \A s \in Sub(k) : Does(it, s)
    BY <1>4
  <2> DEFINE up == [s \in Sub(k + 1) |-> IF s = {} THEN base
                                         ELSE op[<<ch[s], it[s \ {ch[s]}]>>]]
  <2>2. ASSUME NEW s \in Sub(k + 1), s # {}
        PROVE  s \ {ch[s]} \in Sub(k) /\ s \ {ch[s]} \in Sub(k + 1) /\ ch[s] \in S
    BY <1>1, <1>2, <2>2
  <2>3. up \in [Sub(k + 1) -> V]
    <3>1. ASSUME NEW s \in Sub(k + 1), s # {}
          PROVE  op[<<ch[s], it[s \ {ch[s]}]>>] \in V
      <4>1. it[s \ {ch[s]}] \in V /\ ch[s] \in S
        BY <2>1, <2>2, <3>1
      <4>2. <<ch[s], it[s \ {ch[s]}]>> \in S \X V
        BY <4>1
      <4>3. QED
        BY <4>2
    <3> HIDE DEF Sub
    <3>2. QED
      BY <3>1
  <2>4. ASSUME NEW s \in Sub(k) PROVE s \in Sub(k + 1) /\ up[s] = it[s]
    <3>1. s \in Sub(k + 1)
      BY <1>1, <2>4
    <3>2. Does(it, s)
      BY <2>1, <2>4
    <3> HIDE DEF Sub
    <3>3. QED
      BY <3>1, <3>2
  <2>5. ASSUME NEW s \in Sub(k + 1) PROVE Does(up, s)
    <3>1. CASE s = {}
      BY <2>5, <3>1
    <3>2. CASE s # {}
      <4>1. up[s \ {ch[s]}] = it[s \ {ch[s]}]
        BY <2>2, <2>4, <2>5, <3>2
      <4> HIDE DEF Sub
      <4>2. QED
        BY <2>5, <3>2, <4>1
    <3>3. QED
      BY <3>1, <3>2
  <2> HIDE DEF up, Does, Sub
  <2>6. Has(k + 1)
    BY <2>3, <2>5
  <2>7. QED
    BY <2>6
<1>5. Cardinality(S) \in P
  <2> HIDE DEF P
  <2>1. QED
    BY <1>1, <1>3, <1>4, NumberInduction
<1>6. PICK it \in [Sub(Cardinality(S)) -> V] :
        \A s \in Sub(Cardinality(S)) : Does(it, s)
  BY <1>5
<1>7. Sub(Cardinality(S)) = SUBSET S
  BY FS_Subset
<1>8. QED
  <2> HIDE DEF Sub
  <2>1. QED
    BY <1>6, <1>7 DEF Value
------------------------------------------------------------------------------
(* Divisors of natural numbers, and Euclid's loop.                         *)

Divisors(n) == {d \in Nat : \E k \in Nat : n = k * d}

LEMMA EveryNumberDividesZero == Divisors(0) = Nat
<1>1. ASSUME NEW d \in Nat PROVE 0 = 0 * d
  OBVIOUS
<1>2. QED
  BY <1>1 DEF Divisors

LEMMA DividesItself ==
  ASSUME NEW n \in Nat
  PROVE  n \in Divisors(n) /\ 1 \in Divisors(n)
<1>1. n = 1 * n /\ n = n * 1
  OBVIOUS
<1>2. QED
  BY <1>1 DEF Divisors

LEMMA DivisorOfSum ==
  ASSUME NEW a \in Nat, NEW b \in Nat, NEW d \in Divisors(a) \cap Divisors(b)
  PROVE  d \in Divisors(a + b)
<1>1. PICK k \in Nat : a = k * d
  BY DEF Divisors
<1>2. PICK m \in Nat : b = m * d
  BY DEF Divisors
<1>3. d \in Nat
  BY DEF Divisors
<1>4. a + b = (k + m) * d /\ k + m \in Nat
  BY <1>1, <1>2, <1>3
<1>5. QED
  BY <1>3, <1>4 DEF Divisors

LEMMA DivisorOfProduct ==
  ASSUME NEW a \in Nat, NEW m \in Nat, NEW d \in Divisors(a)
  PROVE  d \in Divisors(m * a)
<1>1. PICK k \in Nat : a = k * d
  BY DEF Divisors
<1>2. d \in Nat
  BY DEF Divisors
<1>3. m * a = (m * k) * d /\ m * k \in Nat
  BY <1>1, <1>2
<1>4. QED
  BY <1>2, <1>3 DEF Divisors

\* A divisor of a sum and of one of its terms divides the other.
LEMMA DivisorOfDifference ==
  ASSUME NEW a \in Nat, NEW b \in Nat, NEW d \in Divisors(a + b) \cap Divisors(a)
  PROVE  d \in Divisors(b)
<1>1. PICK k \in Nat : a + b = k * d
  BY DEF Divisors
<1>2. PICK m \in Nat : a = m * d
  BY DEF Divisors
<1>3. d \in Nat
  BY DEF Divisors
<1>4. b = (k - m) * d
  BY <1>1, <1>2, <1>3
<1>5. CASE d = 0
  <2>1. b = 0 * d
    BY <1>4, <1>5
  <2>2. QED
    BY <1>3, <2>1 DEF Divisors
<1>6. CASE d # 0
  <2>1. k - m \in Nat
    BY <1>1, <1>2, <1>3, <1>4, <1>6
  <2>2. QED
    BY <1>3, <1>4, <2>1 DEF Divisors
<1>7. QED
  BY <1>5, <1>6

\* Numbers with the same divisors are the same.
LEMMA SameDivisors ==
  ASSUME NEW g \in Nat, NEW h \in Nat, Divisors(g) = Divisors(h)
  PROVE  g = h
<1>1. g \in Divisors(h) /\ h \in Divisors(g)
  BY DividesItself
<1>2. PICK k \in Nat : h = k * g
  BY <1>1 DEF Divisors
<1>3. PICK m \in Nat : g = m * h
  BY <1>1 DEF Divisors
<1>4. CASE g = 0
  BY <1>2, <1>4
<1>5. CASE h = 0
  BY <1>3, <1>5
<1>6. CASE g # 0 /\ h # 0
  <2>1. k >= 1 /\ m >= 1
    BY <1>2, <1>3, <1>6
  <2>2. h >= g /\ g >= h
    BY <1>2, <1>3, <2>1
  <2>3. QED
    BY <2>2
<1>7. QED
  BY <1>4, <1>5, <1>6

LEMMA Remainder ==
  ASSUME NEW x \in Nat, NEW y \in Nat \ {0}
  PROVE  /\ x % y \in Nat /\ x % y < y /\ x \div y \in Nat
         /\ x = (x \div y) * y + (x % y)
OBVIOUS

\* A step of the loop keeps the common divisors.
LEMMA EuclidStep ==
  ASSUME NEW x \in Nat, NEW y \in Nat \ {0}
  PROVE  Divisors(y) \cap Divisors(x % y) = Divisors(x) \cap Divisors(y)
<1> DEFINE m == (x \div y) * y
           r == x % y
<1>1. m \in Nat /\ r \in Nat /\ x = m + r
  BY Remainder
<1>2. \A d \in Divisors(y) : d \in Divisors(m)
  <2>1. x \div y \in Nat
    BY Remainder
  <2>2. QED
    BY <2>1, DivisorOfProduct
<1> HIDE DEF m
<1>3. ASSUME NEW d \in Divisors(y) PROVE d \in Divisors(x) <=> d \in Divisors(r)
  <2> HIDE DEF r
  <2>1. QED
    BY <1>1, <1>2, DivisorOfSum, DivisorOfDifference
<1>4. QED
  BY <1>3

\* Two numbers have a greatest common divisor: one that has as divisors
\* exactly those that both have.
LEMMA HaveDivisor ==
  ASSUME NEW x \in Nat, NEW y \in Nat
  PROVE  \E g \in Nat : Divisors(g) = Divisors(x) \cap Divisors(y)
<1> DEFINE Has(b, a) == \E g \in Nat : Divisors(g) = Divisors(a) \cap Divisors(b)
           P == {n \in Nat : \A b \in Nat : b =< n => \A a \in Nat : Has(b, a)}
<1>1. 0 \in P
  <2>1. ASSUME NEW a \in Nat PROVE Has(0, a)
    <3>1. Divisors(a) = Divisors(a) \cap Divisors(0)
      BY EveryNumberDividesZero DEF Divisors
    <3>2. QED
      BY <3>1
  <2> HIDE DEF Has
  <2>2. QED
    BY <2>1
<1>2. ASSUME NEW n \in Nat, n \in P PROVE n + 1 \in P
  <2>1. ASSUME NEW a \in Nat PROVE Has(n + 1, a)
    <3>1. a % (n + 1) \in Nat /\ a % (n + 1) =< n
      BY Remainder
    <3>2. Has(a % (n + 1), n + 1)
      <4> HIDE DEF Has
      <4>1. QED
        BY <1>2, <3>1
    <3>3. Divisors(n + 1) \cap Divisors(a % (n + 1)) = Divisors(a) \cap Divisors(n + 1)
      BY EuclidStep
    <3>4. QED
      BY <3>2, <3>3
  <2> HIDE DEF Has
  <2>2. QED
    BY <1>2, <2>1
<1>3. y \in P
  <2> HIDE DEF P
  <2>1. QED
    BY <1>1, <1>2, NumberInduction
<1>4. QED
  BY <1>3

\* The loop's equation has a solution.
LEMMA EuclidEquation ==
  Euclid = [xy \in Nat \X Nat |->
              IF xy[2] > 0 THEN Euclid[<<xy[2], xy[1] % xy[2]>>] ELSE xy[1]]
<1> DEFINE G(x, y) == CHOOSE g \in Nat : Divisors(g) = Divisors(x) \cap Divisors(y)
           f == [xy \in Nat \X Nat |-> G(xy[1], xy[2])]
<1>1. ASSUME NEW x \in Nat, NEW y \in Nat
      PROVE  G(x, y) = IF y > 0 THEN f[<<y, x % y>>] ELSE x
  <2>1. CASE y > 0
    <3>1. <<y, x % y>> \in Nat \X Nat
      BY <2>1, Remainder
    <3>2. Divisors(y) \cap Divisors(x % y) = Divisors(x) \cap Divisors(y)
      BY <2>1, EuclidStep
    <3>3. G(y, x % y) = G(x, y)
      BY <3>2
    <3>4. f[<<y, x % y>>] = G(y, x % y)
      <4> HIDE DEF G
      <4>1. QED
        BY <3>1
    <3> HIDE DEF f, G
    <3>5. QED
      BY <2>1, <3>3, <3>4
  <2>2. CASE y = 0
    <3>1. Divisors(x) = Divisors(x) \cap Divisors(y)
      BY <2>2, EveryNumberDividesZero DEF Divisors
    <3>2. G(x, y) \in Nat /\ Divisors(G(x, y)) = Divisors(x) \cap Divisors(y)
      BY HaveDivisor
    <3> HIDE DEF f, G
    <3>3. G(x, y) = x
      BY <3>1, <3>2, SameDivisors
    <3>4. QED
      BY <2>2, <3>3
  <2>3. y > 0 \/ y = 0
    OBVIOUS
  <2> HIDE DEF f, G
  <2>4. QED
    BY <2>1, <2>2, <2>3
<1> HIDE DEF G
<1>2. f = [xy \in Nat \X Nat |->
             IF xy[2] > 0 THEN f[<<xy[2], xy[1] % xy[2]>>] ELSE xy[1]]
  <2>1. ASSUME NEW xy \in Nat \X Nat
        PROVE  G(xy[1], xy[2]) =
                 IF xy[2] > 0 THEN f[<<xy[2], xy[1] % xy[2]>>] ELSE xy[1]
    <3> HIDE DEF f
    <3>1. xy[1] \in Nat /\ xy[2] \in Nat
      OBVIOUS
    <3>2. QED
      BY <1>1, <3>1
  <2>2. QED
    BY <2>1
<1> HIDE DEF f
<1>3. QED
  BY <1>2 DEF Euclid

\* gcd returns the greatest common divisor, for all natural numbers.
THEOREM EuclidIsGcd ==
  ASSUME NEW x \in Nat, NEW y \in Nat
  PROVE  /\ Euclid[<<x, y>>] \in Nat
         /\ Divisors(Euclid[<<x, y>>]) = Divisors(x) \cap Divisors(y)
<1> DEFINE Is(b, a) ==
             /\ Euclid[<<a, b>>] \in Nat
             /\ Divisors(Euclid[<<a, b>>]) = Divisors(a) \cap Divisors(b)
           P == {n \in Nat : \A b \in Nat : b =< n => \A a \in Nat : Is(b, a)}
<1>1. 0 \in P
  <2>1. ASSUME NEW a \in Nat PROVE Is(0, a)
    <3>1. Divisors(a) = Divisors(a) \cap Divisors(0)
      BY EveryNumberDividesZero DEF Divisors
    <3>2. <<a, 0>> \in Nat \X Nat
      OBVIOUS
    <3>3. Euclid[<<a, 0>>] = a
      BY <3>2, EuclidEquation
    <3>4. QED
      BY <3>1, <3>3
  <2> HIDE DEF Is
  <2>2. QED
    BY <2>1
<1>2. ASSUME NEW n \in Nat, n \in P PROVE n + 1 \in P
  <2>1. ASSUME NEW a \in Nat PROVE Is(n + 1, a)
    <3>1. a % (n + 1) \in Nat /\ a % (n + 1) =< n
      BY Remainder
    <3>2. Is(a % (n + 1), n + 1)
      <4> HIDE DEF Is
      <4>1. QED
        BY <1>2, <3>1
    <3>3. Divisors(n + 1) \cap Divisors(a % (n + 1)) = Divisors(a) \cap Divisors(n + 1)
      BY EuclidStep
    <3>4. <<a, n + 1>> \in Nat \X Nat
      OBVIOUS
    <3>5. Euclid[<<a, n + 1>>] = Euclid[<<n + 1, a % (n + 1)>>]
      BY <3>4, EuclidEquation
    <3>6. QED
      BY <3>2, <3>3, <3>5
  <2> HIDE DEF Is
  <2>2. QED
    BY <1>2, <2>1
<1>3. y \in P
  <2> HIDE DEF P
  <2>1. QED
    BY <1>1, <1>2, NumberInduction
<1>4. QED
  BY <1>3
------------------------------------------------------------------------------
(* The folds of normalizeQueues and of queues().                           *)

\* The divisor that normalizeQueues folds together is the greatest common
\* one of all: its divisors are those that divide every number.
LEMMA DivisorIsGcd ==
  ASSUME NEW S, IsFiniteSet(S), NEW named \in [S -> Nat]
  PROVE  /\ Divisor(named) \in Nat
         /\ Divisors(Divisor(named)) = {d \in Nat : \A q \in S : d \in Divisors(named[q])}
<1> DEFINE ch == [s \in SUBSET S |-> CHOOSE x \in s : TRUE]
           op == [xv \in S \X Nat |-> Euclid[<<named[xv[1]], xv[2]>>]]
           Loop(f) == [s \in SUBSET S |->
                         IF s = {} THEN 0
                         ELSE Euclid[<<named[CHOOSE x \in s : TRUE],
                                       f[s \ {CHOOSE x \in s : TRUE}]>>]]
           it == CHOOSE f : f = Loop(f)
           Common(s) == {d \in Nat : \A q \in s : d \in Divisors(named[q])}
<1>1. \A s \in SUBSET S : s # {} => ch[s] \in s
  OBVIOUS
<1>2. ASSUME NEW x \in S, NEW v \in Nat
      PROVE  op[<<x, v>>] = Euclid[<<named[x], v>>] /\ op[<<x, v>>] \in Nat
  <2>1. named[x] \in Nat
    OBVIOUS
  <2>2. Euclid[<<named[x], v>>] \in Nat
    BY <2>1, EuclidIsGcd
  <2>3. op[<<x, v>>] = Euclid[<<named[x], v>>]
    OBVIOUS
  <2>4. QED
    BY <2>2, <2>3
<1>3. op \in [S \X Nat -> Nat]
  <2>1. ASSUME NEW xv \in S \X Nat PROVE Euclid[<<named[xv[1]], xv[2]>>] \in Nat
    <3>1. named[xv[1]] \in Nat /\ xv[2] \in Nat
      OBVIOUS
    <3>2. QED
      BY <3>1, EuclidIsGcd
  <2>2. QED
    BY <2>1
<1>4. \E f \in [SUBSET S -> Nat] : Value(f, S, 0, op, ch)
  <2> HIDE DEF ch, op
  <2>1. Recursion(S, Nat, 0, op, ch)
    BY <1>1, <1>3 DEF Recursion
  <2>2. QED
    BY <2>1, FoldHasValue
<1>5. ASSUME NEW f, f = Loop(f)
      PROVE  f \in [SUBSET S -> Nat]
  \* By induction, since any solution will do for CHOOSE.
  <2> DEFINE P == {s \in SUBSET S : f[s] \in Nat}
  <2>1. {} \in P
    BY <1>5
  <2>2. ASSUME NEW s \in SUBSET S, s # {} PROVE \E x \in s : s \ {x} \in P => s \in P
    <3> DEFINE x == CHOOSE y \in s : TRUE
    <3>1. x \in s
      BY <2>2
    <3>2. f[s] = Euclid[<<named[x], f[s \ {x}]>>]
      BY <1>5, <2>2
    <3> HIDE DEF x
    <3>3. named[x] \in Nat
      BY <3>1
    <3>4. f[s \ {x}] \in Nat => f[s] \in Nat
      BY <3>2, <3>3, EuclidIsGcd
    <3>5. QED
      BY <3>1, <3>4
  <2> HIDE DEF P
  <2>3. SUBSET S \subseteq P
    BY <2>1, <2>2, SubsetInduction
  <2>4. \A s \in SUBSET S : f[s] \in Nat
    BY <2>3 DEF P
  <2>5. f = [s \in SUBSET S |-> f[s]]
    BY <1>5
  <2>6. QED
    BY <2>4, <2>5
<1>6. \E f : f = Loop(f)
  <2>1. PICK f \in [SUBSET S -> Nat] : Value(f, S, 0, op, ch)
    BY <1>4
  <2>2. ASSUME NEW s \in SUBSET S, s # {}
        PROVE  op[<<ch[s], f[s \ {ch[s]}]>>]
                 = Euclid[<<named[CHOOSE x \in s : TRUE],
                            f[s \ {CHOOSE x \in s : TRUE}]>>]
    <3>1. ch[s] \in S /\ f[s \ {ch[s]}] \in Nat
      BY <1>1, <2>1, <2>2
    <3>2. ch[s] = CHOOSE x \in s : TRUE
      BY <2>2
    <3> HIDE DEF op
    <3>3. op[<<ch[s], f[s \ {ch[s]}]>>] = Euclid[<<named[ch[s]], f[s \ {ch[s]}]>>]
      BY <1>2, <3>1
    <3> HIDE DEF ch
    <3>4. QED
      BY <3>2, <3>3
  <2> HIDE DEF ch, op
  <2>3. f = Loop(f)
    BY <2>1, <2>2 DEF Value
  <2>4. QED
    BY <2>1, <2>3
<1>7. it = Loop(it)
  <2> HIDE DEF Loop
  <2>1. QED
    BY <1>6
<1>8. Divisor(named) = it[S]
  BY DEF Divisor, FoldFunction, FoldFunctionOnSet, MapThenFoldSet
<1>9. it \in [SUBSET S -> Nat]
  <2> HIDE DEF Loop
  <2>1. QED
    BY <1>5, <1>7
<1> HIDE DEF it
<1> DEFINE P == {s \in SUBSET S : Divisors(it[s]) = Common(s)}
<1>10. {} \in P
  <2>1. it[{}] = 0
    BY <1>7
  <2>2. Common({}) = Nat
    OBVIOUS
  <2>3. QED
    BY <2>1, <2>2, EveryNumberDividesZero
<1>11. ASSUME NEW s \in SUBSET S, s # {} PROVE \E x \in s : s \ {x} \in P => s \in P
  <2> DEFINE x == CHOOSE y \in s : TRUE
  <2>1. x \in s
    BY <1>11
  <2>2. it[s] = Euclid[<<named[x], it[s \ {x}]>>]
    BY <1>7, <1>11
  <2> HIDE DEF x
  <2>3. named[x] \in Nat /\ it[s \ {x}] \in Nat
    BY <1>9, <2>1
  <2>4. Divisors(it[s]) = Divisors(named[x]) \cap Divisors(it[s \ {x}])
    BY <2>2, <2>3, EuclidIsGcd
  <2>5. Common(s) = Divisors(named[x]) \cap Common(s \ {x})
    BY <2>1 DEF Divisors
  <2> HIDE DEF Common
  <2>6. s \ {x} \in P => s \in P
    BY <2>4, <2>5
  <2>7. QED
    BY <2>1, <2>6
<1>12. SUBSET S \subseteq P
  <2> HIDE DEF P
  <2>1. QED
    BY <1>10, <1>11, SubsetInduction
<1>13. QED
  BY <1>8, <1>9, <1>12
\* The names that a shuffle hands to uniq are finitely many.
LEMMA SumIsNat ==
  ASSUME NEW S, IsFiniteSet(S), NEW w \in [S -> Nat]
  PROVE  SumFunction(w) \in Nat
<1> DEFINE ch == [s \in SUBSET S |-> CHOOSE x \in s : TRUE]
           op == [xv \in S \X Nat |-> w[xv[1]] + xv[2]]
           Loop(f) == [s \in SUBSET S |->
                         IF s = {} THEN 0
                         ELSE w[CHOOSE x \in s : TRUE]
                                + f[s \ {CHOOSE x \in s : TRUE}]]
           it == CHOOSE f : f = Loop(f)
<1>1. \A s \in SUBSET S : s # {} => ch[s] \in s
  OBVIOUS
<1>2. \A x \in S : \A v \in Nat : op[<<x, v>>] = w[x] + v
  OBVIOUS
<1>3. op \in [S \X Nat -> Nat]
  OBVIOUS
<1>4. \E f \in [SUBSET S -> Nat] : Value(f, S, 0, op, ch)
  <2> HIDE DEF ch, op
  <2>1. Recursion(S, Nat, 0, op, ch)
    BY <1>1, <1>3 DEF Recursion
  <2>2. QED
    BY <2>1, FoldHasValue
<1>5. \E f : f = Loop(f)
  <2>1. PICK f \in [SUBSET S -> Nat] : Value(f, S, 0, op, ch)
    BY <1>4
  <2>2. ASSUME NEW s \in SUBSET S, s # {}
        PROVE  op[<<ch[s], f[s \ {ch[s]}]>>]
                 = w[CHOOSE x \in s : TRUE] + f[s \ {CHOOSE x \in s : TRUE}]
    <3>1. ch[s] \in S /\ f[s \ {ch[s]}] \in Nat
      BY <1>1, <2>1, <2>2
    <3>2. ch[s] = CHOOSE x \in s : TRUE
      BY <2>2
    <3> HIDE DEF op
    <3>3. op[<<ch[s], f[s \ {ch[s]}]>>] = w[ch[s]] + f[s \ {ch[s]}]
      BY <1>2, <3>1
    <3> HIDE DEF ch
    <3>4. QED
      BY <3>2, <3>3
  <2> HIDE DEF ch, op
  <2>3. f = Loop(f)
    BY <2>1, <2>2 DEF Value
  <2>4. QED
    BY <2>1, <2>3
<1>6. it = Loop(it)
  <2> HIDE DEF Loop
  <2>1. QED
    BY <1>5
<1>7. SumFunction(w) = it[S]
  BY DEF SumFunction, SumFunctionOnSet, FoldFunctionOnSet, MapThenFoldSet
<1> HIDE DEF it
<1> DEFINE P == {s \in SUBSET S : it[s] \in Nat}
<1>8. {} \in P
  BY <1>6
<1>9. ASSUME NEW s \in SUBSET S, s # {} PROVE \E x \in s : s \ {x} \in P => s \in P
  <2> DEFINE x == CHOOSE y \in s : TRUE
  <2>1. x \in s
    BY <1>9
  <2>2. it[s] = w[x] + it[s \ {x}]
    BY <1>6, <1>9
  <2> HIDE DEF x
  <2>3. w[x] \in Nat
    BY <2>1
  <2>4. s \ {x} \in P => s \in P
    BY <2>2, <2>3
  <2> HIDE DEF P
  <2>5. QED
    BY <2>1, <2>4
<1>10. SUBSET S \subseteq P
  <2> HIDE DEF P
  <2>1. QED
    BY <1>8, <1>9, SubsetInduction
<1>11. QED
  BY <1>7, <1>10

------------------------------------------------------------------------------
(* uniq.                                                                   *)

LEMMA AppendNew ==
  ASSUME NEW D, NEW r \in Seq(D), IsInjective(r), NEW n \in D, n \notin Range(r)
  PROVE  /\ Append(r, n) \in Seq(D)
         /\ IsInjective(Append(r, n))
         /\ Range(Append(r, n)) = Range(r) \cup {n}
<1> DEFINE a == Append(r, n)
<1>1. a \in Seq(D) /\ DOMAIN a = 1..(Len(r) + 1) /\ a[Len(r) + 1] = n
  OBVIOUS
<1>2. \A i \in 1..Len(r) : a[i] = r[i]
  OBVIOUS
<1>3. DOMAIN r = 1..Len(r) /\ Len(r) \in Nat
  OBVIOUS
<1> HIDE DEF a
<1>4. \A i \in 1..(Len(r) + 1) : i \in 1..Len(r) \/ i = Len(r) + 1
  BY <1>3
<1>5. \A i \in 1..Len(r) : r[i] # n
  BY <1>3 DEF Range
<1>6. IsInjective(a)
  BY <1>1, <1>2, <1>3, <1>4, <1>5 DEF IsInjective
<1>7. Range(a) = Range(r) \cup {n}
  <2>1. \A i \in 1..Len(r) : i \in 1..(Len(r) + 1)
    BY <1>3
  <2>2. Len(r) + 1 \in 1..(Len(r) + 1)
    BY <1>3
  <2>3. QED
    BY <1>1, <1>2, <1>3, <1>4, <2>1, <2>2 DEF Range
<1>8. QED
  BY <1>1, <1>6, <1>7 DEF a

\* An injective sequence of members of D that is as long as D has members
\* leaves none out.
LEMMA LongEnough ==
  ASSUME NEW D, IsFiniteSet(D), NEW r \in Seq(D), IsInjective(r), Len(r) = Cardinality(D)
  PROVE  Range(r) = D
<1>1. r \in [1..Len(r) -> D] /\ Len(r) \in Nat /\ DOMAIN r = 1..Len(r)
  OBVIOUS
<1>2. r \in Injection(1..Len(r), D)
  BY <1>1 DEF Injection
<1>3. Cardinality(1..Len(r)) = Len(r)
  BY <1>1, FS_Interval
<1>4. r \in Surjection(1..Len(r), D)
  BY <1>2, <1>3, FS_Injection
<1>5. QED
  BY <1>1, <1>4 DEF Surjection, Range

\* A set of indices that is not empty has a last one.
LEMMA LastIndex ==
  ASSUME NEW N \in Nat, NEW s \in SUBSET (1..N), s # {}
  PROVE  Max(s) \in s /\ \A i \in s : i =< Max(s)
<1> DEFINE T == {N - i : i \in s}
<1>1. T \in SUBSET Nat /\ T # {}
  <2>1. \A i \in s : N - i \in Nat
    OBVIOUS
  <2>2. QED
    BY <2>1
<1> HIDE DEF T
<1>2. PICK n \in T : \A k \in T : ~(k < n)
  BY <1>1, LeastNumber
<1>3. PICK i \in s : n = N - i
  BY DEF T
<1>4. \A j \in s : i >= j
  <2>1. ASSUME NEW j \in s PROVE i >= j
    <3>1. N - j \in T
      BY DEF T
    <3>2. ~(N - j < N - i)
      BY <1>2, <1>3, <3>1
    <3>3. QED
      BY <3>2
  <2>2. QED
    BY <2>1
<1>5. Max(s) \in s /\ \A j \in s : Max(s) >= j
  BY <1>4 DEF Max
<1>6. QED
  BY <1>5
\* Of names among which every queue is, uniq keeps every queue, once.
THEOREM UniqKeepsEach ==
  ASSUME NEW D, IsFiniteSet(D), NEW N \in Nat, NEW names \in [1..N -> D],
         Range(names) = D
  PROVE  /\ uniq(names, Cardinality(D)) \in Seq(D)
         /\ IsInjective(uniq(names, Cardinality(D)))
         /\ Range(uniq(names, Cardinality(D))) = D
<1> DEFINE S == 1..N
           l == Cardinality(D)
           Goes(r, n) == IF Len(r) = l \/ n \in Range(r) THEN r ELSE Append(r, n)
           ch == [s \in SUBSET S |-> Max(s)]
           op == [xv \in S \X Seq(D) |-> Goes(xv[2], names[xv[1]])]
           Loop(f) == [s \in SUBSET S |->
                         IF s = {} THEN <<>>
                         ELSE Goes(f[s \ {Max(s)}], names[Max(s)])]
           it == CHOOSE f : f = Loop(f)
           Good(s) == /\ it[s] \in Seq(D)
                      /\ IsInjective(it[s])
                      /\ Len(it[s]) = l \/ \A i \in s : names[i] \in Range(it[s])
<1>1. \A s \in SUBSET S : s # {} => Max(s) \in s
  BY LastIndex
<1>2. ASSUME NEW r \in Seq(D), NEW n \in D PROVE Goes(r, n) \in Seq(D)
  OBVIOUS
<1>3. IsFiniteSet(S)
  BY FS_Interval
<1>4. uniq(names, l) = it[S]
  <2>1. DOMAIN names = S
    OBVIOUS
  <2>2. uniq(names, l) = it[DOMAIN names]
    BY DEF uniq, FoldLeft, MapThenFoldSet
  <2> HIDE DEF it
  <2>3. QED
    BY <2>1, <2>2
<1> HIDE DEF it
<1>5. it = Loop(it)
  <2> HIDE DEF Goes
  <2>1. ASSUME NEW i \in S, NEW v \in Seq(D)
        PROVE  op[<<i, v>>] = Goes(v, names[i]) /\ Goes(v, names[i]) \in Seq(D)
    <3>1. names[i] \in D
      OBVIOUS
    <3>2. QED
      BY <1>2, <3>1
  <2>2. op \in [S \X Seq(D) -> Seq(D)]
    <3>1. ASSUME NEW xv \in S \X Seq(D) PROVE Goes(xv[2], names[xv[1]]) \in Seq(D)
      BY <1>2
    <3>2. QED
      BY <3>1
  <2>3. \A s \in SUBSET S : ch[s] = Max(s)
    OBVIOUS
  <2> HIDE DEF ch, op, S
  <2>4. Recursion(S, Seq(D), <<>>, op, ch)
    <3>1. <<>> \in Seq(D)
      OBVIOUS
    <3>2. QED
      BY <1>1, <1>3, <2>2, <2>3, <3>1 DEF Recursion
  <2>5. PICK f \in [SUBSET S -> Seq(D)] : Value(f, S, <<>>, op, ch)
    BY <2>4, FoldHasValue
  <2>6. ASSUME NEW s \in SUBSET S, s # {}
        PROVE  op[<<ch[s], f[s \ {ch[s]}]>>] = Goes(f[s \ {Max(s)}], names[Max(s)])
    <3>1. Max(s) \in S /\ f[s \ {Max(s)}] \in Seq(D) /\ ch[s] = Max(s)
      BY <1>1, <2>3, <2>5, <2>6
    <3>2. QED
      BY <2>1, <3>1
  <2>7. f = Loop(f)
    BY <2>5, <2>6 DEF Value
  <2> HIDE DEF Loop
  <2>8. QED
    BY <2>7 DEF it
<1> DEFINE P == {s \in SUBSET S : Good(s)}
<1>6. {} \in P
  <2>1. it[{}] = <<>>
    BY <1>5
  <2>2. <<>> \in Seq(D) /\ IsInjective(<<>>)
    BY DEF IsInjective
  <2>3. QED
    BY <2>1, <2>2
<1>7. ASSUME NEW s \in SUBSET S, s # {} PROVE \E x \in s : s \ {x} \in P => s \in P
  <2> DEFINE x == Max(s)
             r == it[s \ {x}]
  <2>1. x \in s /\ x \in S /\ names[x] \in D
    BY <1>1, <1>7
  <2>2. it[s] = Goes(r, names[x])
    BY <1>5, <1>7
  <2> HIDE DEF x
  <2>3. ASSUME s \ {x} \in P PROVE Good(s)
    <3>1. r \in Seq(D) /\ IsInjective(r)
      BY <2>3
    <3>2. Len(r) = l \/ \A i \in s \ {x} : names[i] \in Range(r)
      BY <2>3
    <3> HIDE DEF r, l
    <3>3. CASE Len(r) = l
      <4>1. it[s] = r
        BY <2>2, <3>3
      <4>2. QED
        BY <3>1, <3>3, <4>1
    <3>4. CASE Len(r) # l /\ names[x] \in Range(r)
      <4>1. it[s] = r
        BY <2>2, <3>4
      <4>2. \A i \in s : names[i] \in Range(r)
        BY <3>2, <3>4
      <4>3. QED
        BY <3>1, <4>1, <4>2
    <3>5. CASE Len(r) # l /\ names[x] \notin Range(r)
      <4>1. it[s] = Append(r, names[x])
        BY <2>2, <3>5
      <4>2. /\ Append(r, names[x]) \in Seq(D) /\ IsInjective(Append(r, names[x]))
            /\ Range(Append(r, names[x])) = Range(r) \cup {names[x]}
        BY <2>1, <3>1, <3>5, AppendNew
      <4>3. \A i \in s : names[i] \in Range(r) \cup {names[x]}
        BY <3>2, <3>5
      <4>4. QED
        BY <4>1, <4>2, <4>3
    <3>6. QED
      BY <3>3, <3>4, <3>5
  <2> HIDE DEF Good
  <2>4. QED
    BY <2>1, <2>3
<1>8. SUBSET S \subseteq P
  <2> HIDE DEF P, S
  <2>1. QED
    BY <1>3, <1>6, <1>7, SubsetInduction
<1>9. Good(S)
  BY <1>8
<1>10. Range(it[S]) = D
  <2>1. CASE Len(it[S]) = l
    BY <1>9, <2>1, LongEnough
  <2>2. CASE \A i \in S : names[i] \in Range(it[S])
    <3>1. it[S] \in Seq(D)
      BY <1>9
    <3>2. Range(it[S]) \subseteq D
      BY <3>1 DEF Range
    <3>3. D \subseteq Range(it[S])
      BY <2>2 DEF Range
    <3>4. QED
      BY <3>2, <3>3
  <2>3. QED
    BY <1>9, <2>1, <2>2
<1>11. QED
  BY <1>4, <1>9, <1>10
------------------------------------------------------------------------------
(* What queues() returns.                                                  *)

Descends(w, order) ==
  \A i, j \in DOMAIN order : i < j => w[order[i]] >= w[order[j]]

\* Strict or not, a poll that goes through one of these orders asks each
\* queue once and leaves none out.
LEMMA OrdersAskEach ==
  ASSUME NEW D, IsFiniteSet(D), NEW w \in [D -> Nat \ {0}], NEW strict \in BOOLEAN,
         NEW os \in queues(w, strict), NEW order \in os
  PROVE  /\ order \in Seq(D) /\ IsInjective(order) /\ Range(order) = D
         /\ strict => Descends(w, order)
<1>1. DOMAIN w = D
  OBVIOUS
<1>2. CASE strict
  <2>1. order \in sortByPriority(w)
    BY <1>2 DEF queues
  <2>2. order \in SetToSeqs(D) /\ Descends(w, order)
    BY <1>1, <2>1 DEF sortByPriority, Descends
  <2>3. /\ order \in [1..Cardinality(D) -> D]
        /\ \A i, j \in 1..Cardinality(D) : i # j => order[i] # order[j]
    BY <2>2 DEF SetToSeqs
  <2>4. Cardinality(D) \in Nat
    BY FS_CardinalityType
  <2>5. order \in Seq(D) /\ Len(order) = Cardinality(D)
    BY <2>3, <2>4
  <2>6. IsInjective(order)
    BY <2>3 DEF IsInjective
  <2>7. Range(order) = D
    BY <2>5, <2>6, LongEnough
  <2>8. QED
    BY <2>2, <2>5, <2>6, <2>7
<1>3. CASE ~strict
  <2>1. PICK names \in Shuffled(w) : order = uniq(names, Cardinality(D))
    BY <1>1, <1>3 DEF queues
  <2>2. SumFunction(w) \in Nat
    BY SumIsNat
  <2>3. names \in [1..SumFunction(w) -> D]
    BY <1>1, <2>1 DEF Shuffled
  <2>4. Range(names) = D
    <3>1. ASSUME NEW q \in D PROVE q \in Range(names)
      <4>1. Cardinality({i \in DOMAIN names : names[i] = q}) = w[q]
        BY <1>1, <2>1 DEF Shuffled
      <4>2. {i \in DOMAIN names : names[i] = q} # {}
        BY <4>1, FS_EmptySet
      <4>3. QED
        BY <4>2 DEF Range
    <3>2. Range(names) \subseteq D
      BY <2>3 DEF Range
    <3>3. QED
      BY <3>1, <3>2
  <2>5. QED
    BY <1>3, <2>1, <2>2, <2>3, <2>4, UniqKeepsEach
<1>4. QED
  BY <1>2, <1>3

------------------------------------------------------------------------------
(* What NewServer and normalizeQueues make of the priorities.              *)

\* The queues of the configuration that NewServer does not ignore.
Listed(named) == {q \in DOMAIN named \ Blank : named[q] > 0}

LEMMA KeptQueues ==
  ASSUME NEW named, DOMAIN named \subseteq Queue, IsFiniteSet(DOMAIN named),
         \A q \in DOMAIN named : named[q] \in Int
  PROVE  LET D == IF Listed(named) = {} THEN {Default} ELSE Listed(named)
         IN /\ Kept(named) \in [D -> Nat \ {0}]
            /\ D \subseteq Queue \ Blank /\ D # {} /\ IsFiniteSet(D)
            /\ Listed(named) # {} => \A q \in D : Kept(named)[q] = named[q]
<1>1. CASE Listed(named) = {}
  <2>1. Kept(named) = [q \in {Default} |-> 1]
    BY <1>1 DEF Kept, Listed
  <2>2. IsFiniteSet({Default})
    BY FS_Singleton
  <2>3. QED
    BY <1>1, <2>1, <2>2, NameAssumption
<1>2. CASE Listed(named) # {}
  <2>1. Kept(named) = [q \in Listed(named) |-> named[q]]
    BY <1>2 DEF Kept, Listed, Restrict
  <2>2. IsFiniteSet(Listed(named))
    BY FS_Subset DEF Listed
  <2>3. Listed(named) \subseteq Queue \ Blank /\ \A q \in Listed(named) : named[q] \in Nat \ {0}
    BY DEF Listed
  <2>4. QED
    BY <1>2, <2>1, <2>2, <2>3
<1>3. QED
  BY <1>1, <1>2

LEMMA ExactQuotient ==
  ASSUME NEW m \in Nat, NEW g \in Nat \ {0}
  PROVE  (m * g) \div g = m
<1> DEFINE x == m * g
           n == x \div g
           r == x % g
<1>1. x \in Nat
  OBVIOUS
<1>2. r \in Nat /\ r < g /\ n \in Nat /\ x = n * g + r
  BY <1>1, Remainder
<1> HIDE DEF n, r
<1>3. (m - n) * g = r
  BY <1>2
<1>4. ~(m - n >= 1)
  <2>1. ASSUME m - n >= 1 PROVE (m - n) * g >= g
    BY <1>2, <2>1
  <2>2. QED
    BY <1>2, <1>3, <2>1
<1>5. ~(m - n =< -1)
  <2>1. ASSUME m - n =< -1 PROVE (m - n) * g < 0
    BY <1>2, <2>1
  <2>2. QED
    BY <1>2, <1>3, <2>1
<1>6. m = n
  BY <1>2, <1>4, <1>5
<1>7. QED
  BY <1>6 DEF n

\* Divided by the greatest common divisor, the priorities keep their
\* proportions and have no divisor in common any more.
LEMMA NormalizedQueues ==
  ASSUME NEW D, IsFiniteSet(D), D # {}, NEW k \in [D -> Nat \ {0}]
  PROVE  /\ normalizeQueues(k) \in [D -> Nat \ {0}]
         /\ \E g \in Nat \ {0} : \A q \in D : k[q] = normalizeQueues(k)[q] * g
         /\ \A d \in Nat : (\A q \in D : d \in Divisors(normalizeQueues(k)[q])) => d = 1
<1> DEFINE g == Divisor(k)
           w == normalizeQueues(k)
<1>1. g \in Nat /\ Divisors(g) = {d \in Nat : \A q \in D : d \in Divisors(k[q])}
  BY DivisorIsGcd
<1>2. w = [q \in D |-> k[q] \div g]
  BY DEF normalizeQueues
<1> HIDE DEF g, w
<1>3. \A q \in D : g \in Divisors(k[q])
  BY <1>1, DividesItself
<1>4. g # 0
  <2>1. PICK q \in D : TRUE
    OBVIOUS
  <2>2. PICK n \in Nat : k[q] = n * g
    BY <1>3 DEF Divisors
  <2>3. QED
    BY <2>2
<1>5. ASSUME NEW q \in D PROVE w[q] \in Nat \ {0} /\ k[q] = w[q] * g
  <2>1. PICK n \in Nat : k[q] = n * g
    BY <1>3 DEF Divisors
  <2>2. w[q] = n
    BY <1>1, <1>2, <1>4, <2>1, ExactQuotient
  <2>3. n # 0
    BY <1>1, <2>1
  <2>4. QED
    BY <2>1, <2>2, <2>3
<1>6. w \in [D -> Nat \ {0}]
  BY <1>2, <1>5
<1>7. ASSUME NEW d \in Nat, \A q \in D : d \in Divisors(w[q]) PROVE d = 1
  <2>1. d * g \in Nat
    BY <1>1
  <2>2. ASSUME NEW q \in D PROVE d * g \in Divisors(k[q])
    <3>1. PICK n \in Nat : w[q] = n * d
      BY <1>7 DEF Divisors
    <3>2. k[q] = n * (d * g)
      BY <1>1, <1>5, <3>1
    <3>3. QED
      BY <2>1, <3>2 DEF Divisors
  <2>3. d * g \in Divisors(g)
    BY <1>1, <2>1, <2>2
  <2>4. PICK n \in Nat : g = n * (d * g)
    BY <2>3 DEF Divisors
  <2>5. d # 0
    BY <1>1, <1>4, <2>4
  <2>6. n # 0
    BY <1>1, <1>4, <2>1, <2>4
  <2>7. ~(d > 1)
    <3>1. ASSUME d > 1 PROVE d * g > g
      BY <1>1, <1>4, <3>1
    <3>2. n * (d * g) >= d * g
      BY <2>1, <2>6
    <3>3. QED
      BY <1>1, <2>1, <2>4, <3>1, <3>2
  <2>8. QED
    BY <2>5, <2>7
<1>8. QED
  BY <1>1, <1>4, <1>5, <1>6, <1>7 DEF w
------------------------------------------------------------------------------
(* The invariant.                                                          *)

\* What the constructor settles and no step changes.
Constructed ==
  /\ config \in [Server -> Configs]
  /\ weight = [s \in Server |-> normalizeQueues(Kept(config[s].queues))]
  /\ \A s \in Server : orders[s] \in queues(weight[s], config[s].strict)

QueueCounts ==
  /\ pending \in [Queue -> 0..MaxTasks]
  /\ paused \subseteq Queue

\* The queues of a strict server that go before q, by the weights.
Heavier(s, q) == {r \in DOMAIN weight[s] : weight[s][r] > weight[s][q]}

\* A poll goes through queues of the server, each at most once, in the order
\* of their weights if the server is strict.
PollInOrder(s) ==
  /\ asking[s] \in Seq(DOMAIN weight[s]) /\ IsInjective(asking[s])
  /\ found[s] = "polling" <=> asking[s] # <<>>
  /\ config[s].strict => Descends(weight[s], asking[s])

\* The queues that it has asked, and all that have nothing to give now, are
\* on record.
AskedWereFree(s) ==
  /\ free[s] \subseteq DOMAIN weight[s]
  /\ found[s] = "polling" =>
       \A q \in DOMAIN weight[s] :
         q \notin Range(asking[s]) \/ ~Available(q) => q \in free[s]

\* What the end of a poll says of the record.
EndedRightly(s) ==
  /\ found[s] = "nothing" => free[s] = DOMAIN weight[s]
  /\ found[s] \in Queue =>
       /\ found[s] \in DOMAIN weight[s]
       /\ config[s].strict => Heavier(s, found[s]) \subseteq free[s]

PollInv(s) == PollInOrder(s) /\ AskedWereFree(s) /\ EndedRightly(s)

QInv == /\ Constructed /\ QueueCounts
        /\ found \in [Server -> Queue \cup {"none", "polling", "nothing", "error"}]
        /\ DOMAIN asking = Server
        /\ DOMAIN free = Server
        /\ \A s \in Server : PollInv(s)
\* What holds of each server's weights and orders by their construction.
LEMMA ConstructedWeights ==
  ASSUME Constructed, NEW s \in Server
  PROVE  /\ weight[s] \in [DOMAIN weight[s] -> Nat \ {0}]
         /\ DOMAIN weight[s] \subseteq Queue \ Blank
         /\ DOMAIN weight[s] # {} /\ IsFiniteSet(DOMAIN weight[s])
         /\ IF Listed(config[s].queues) = {} THEN DOMAIN weight[s] = {Default}
            ELSE /\ DOMAIN weight[s] = Listed(config[s].queues)
                 /\ \E g \in Nat \ {0} : \A q \in DOMAIN weight[s] :
                      config[s].queues[q] = weight[s][q] * g
         /\ \A d \in Nat :
              (\A q \in DOMAIN weight[s] : d \in Divisors(weight[s][q])) => d = 1
<1> DEFINE c == config[s].queues
           k == Kept(c)
           D == IF Listed(c) = {} THEN {Default} ELSE Listed(c)
           w == normalizeQueues(k)
<1>1. /\ DOMAIN c \subseteq Queue /\ IsFiniteSet(DOMAIN c)
      /\ \A q \in DOMAIN c : c[q] \in Int
  BY ConfigAssumption DEF Constructed
<1>2. weight[s] = w
  BY DEF Constructed
<1> HIDE DEF c
<1>3. /\ k \in [D -> Nat \ {0}]
      /\ D \subseteq Queue \ Blank /\ D # {} /\ IsFiniteSet(D)
      /\ Listed(c) # {} => \A q \in D : k[q] = c[q]
  BY <1>1, KeptQueues
<1> HIDE DEF k, D
<1>4. /\ w \in [D -> Nat \ {0}]
      /\ \E g \in Nat \ {0} : \A q \in D : k[q] = w[q] * g
      /\ \A d \in Nat : (\A q \in D : d \in Divisors(w[q])) => d = 1
  BY <1>3, NormalizedQueues
<1> HIDE DEF w
<1>5. DOMAIN weight[s] = D
  BY <1>2, <1>4
<1>6. IF Listed(c) = {} THEN D = {Default}
      ELSE D = Listed(c) /\ \E g \in Nat \ {0} : \A q \in D : c[q] = w[q] * g
  <2>1. ASSUME Listed(c) # {} PROVE \E g \in Nat \ {0} : \A q \in D : c[q] = w[q] * g
    BY <1>3, <1>4, <2>1
  <2>2. QED
    BY <2>1 DEF D
<1>7. QED
  BY <1>2, <1>3, <1>4, <1>5, <1>6 DEF c

LEMMA ConstructedOrders ==
  ASSUME Constructed, NEW s \in Server, NEW order \in orders[s]
  PROVE  /\ order \in Seq(DOMAIN weight[s]) /\ IsInjective(order)
         /\ Range(order) = DOMAIN weight[s]
         /\ config[s].strict => Descends(weight[s], order)
<1>1. /\ weight[s] \in [DOMAIN weight[s] -> Nat \ {0}]
      /\ IsFiniteSet(DOMAIN weight[s])
  BY ConstructedWeights
<1>2. config[s].strict \in BOOLEAN
  BY ConfigAssumption DEF Constructed
<1>3. orders[s] \in queues(weight[s], config[s].strict)
  BY DEF Constructed
<1>4. QED
  BY <1>1, <1>2, <1>3, OrdersAskEach

\* The rest of an order.
LEMMA TailAsksTheRest ==
  ASSUME NEW D, NEW a \in Seq(D), a # <<>>, IsInjective(a)
  PROVE  /\ Tail(a) \in Seq(D) /\ IsInjective(Tail(a))
         /\ Head(a) \in D
         /\ Range(a) = Range(Tail(a)) \cup {Head(a)}
         /\ Tail(a) = <<>> <=> ~(Len(a) > 1)
         /\ \A w : Descends(w, a) =>
              /\ Descends(w, Tail(a))
              /\ \A q \in Range(a) : q # Head(a) => w[Head(a)] >= w[q]
<1> DEFINE t == Tail(a)
<1>1. /\ Len(a) \in Nat /\ Len(a) >= 1 /\ DOMAIN a = 1..Len(a)
      /\ t \in Seq(D) /\ Len(t) = Len(a) - 1 /\ DOMAIN t = 1..(Len(a) - 1)
      /\ \A i \in 1..(Len(a) - 1) : t[i] = a[i + 1]
      /\ Head(a) = a[1] /\ Head(a) \in D
  OBVIOUS
<1>2. t = <<>> <=> Len(t) = 0
  BY <1>1
<1> HIDE DEF t
<1>3. IsInjective(t)
  <2>1. ASSUME NEW i \in 1..(Len(a) - 1), NEW j \in 1..(Len(a) - 1), t[i] = t[j]
        PROVE  i = j
    <3>1. /\ i + 1 \in DOMAIN a /\ j + 1 \in DOMAIN a
          /\ a[i + 1] = t[i] /\ a[j + 1] = t[j]
      BY <1>1
    <3>2. i + 1 = j + 1
      BY <2>1, <3>1 DEF IsInjective
    <3>3. QED
      BY <3>2
  <2>2. QED
    BY <1>1, <2>1 DEF IsInjective
<1>4. \A i \in 2..Len(a) : i - 1 \in 1..(Len(a) - 1) /\ a[i] = t[i - 1]
  BY <1>1
<1>5. Range(a) = Range(t) \cup {a[1]}
  <2>1. ASSUME NEW i \in 1..Len(a) PROVE a[i] \in Range(t) \cup {a[1]}
    <3>1. i = 1 \/ i \in 2..Len(a)
      BY <1>1
    <3>2. QED
      BY <1>1, <1>4, <3>1 DEF Range
  <2>2. ASSUME NEW i \in 1..(Len(a) - 1) PROVE t[i] \in Range(a)
    <3>1. i + 1 \in 1..Len(a)
      BY <1>1
    <3>2. QED
      BY <1>1, <3>1 DEF Range
  <2>3. a[1] \in Range(a)
    BY <1>1 DEF Range
  <2>4. QED
    BY <1>1, <2>1, <2>2, <2>3 DEF Range
<1>6. ASSUME NEW w, Descends(w, a)
      PROVE  /\ Descends(w, t)
             /\ \A q \in Range(a) : q # a[1] => w[a[1]] >= w[q]
  <2>1. ASSUME NEW i \in 1..(Len(a) - 1), NEW j \in 1..(Len(a) - 1), i < j
        PROVE  w[t[i]] >= w[t[j]]
    <3>1. i + 1 \in 1..Len(a) /\ j + 1 \in 1..Len(a) /\ i + 1 < j + 1
      BY <1>1, <2>1
    <3>2. w[a[i + 1]] >= w[a[j + 1]]
      BY <1>1, <1>6, <3>1 DEF Descends
    <3>3. QED
      BY <1>1, <3>2
  <2>2. Descends(w, t)
    BY <1>1, <2>1 DEF Descends
  <2>3. ASSUME NEW q \in Range(a), q # a[1] PROVE w[a[1]] >= w[q]
    <3>1. PICK i \in 1..Len(a) : q = a[i]
      BY <1>1 DEF Range
    <3>2. 1 \in 1..Len(a) /\ 1 < i
      BY <1>1, <2>3, <3>1
    <3>3. QED
      BY <1>1, <1>6, <3>1, <3>2 DEF Descends
  <2>4. QED
    BY <2>2, <2>3
<1>7. QED
  BY <1>1, <1>2, <1>3, <1>5, <1>6 DEF t
------------------------------------------------------------------------------
(* The invariant holds at first.                                           *)

LEMMA QInvInit == QueuesInit => QInv
<1> SUFFICES ASSUME QueuesInit PROVE QInv
  OBVIOUS
<1>1. Constructed
  BY DEF QueuesInit, Constructed
<1>2. QueueCounts
  BY BoundAssumption DEF QueuesInit, QueueCounts
<1>3. ASSUME NEW s \in Server PROVE PollInv(s)
  <2>1. asking[s] = <<>> /\ found[s] = "none" /\ free[s] = {}
    BY DEF QueuesInit
  <2>2. <<>> \in Seq(DOMAIN weight[s]) /\ IsInjective(<<>>) /\ DOMAIN <<>> = {}
    BY DEF IsInjective
  <2>3. PollInOrder(s)
    BY <2>1, <2>2 DEF PollInOrder, Descends
  <2>4. AskedWereFree(s)
    BY <2>1 DEF AskedWereFree
  <2>5. EndedRightly(s)
    BY <2>1, MarkAssumption DEF EndedRightly
  <2>6. QED
    BY <2>3, <2>4, <2>5 DEF PollInv
<1>4. /\ found \in [Server -> Queue \cup {"none", "polling", "nothing", "error"}]
      /\ DOMAIN asking = Server
      /\ DOMAIN free = Server
  BY DEF QueuesInit
<1>5. QED
  BY <1>1, <1>2, <1>3, <1>4 DEF QInv

------------------------------------------------------------------------------
(* Every step keeps it.                                                    *)

LEMMA GivenKept ==
  ASSUME Constructed, UNCHANGED given
  PROVE  Constructed'
BY DEF Constructed, given

\* What a step does to the record of one server.
LEMMA WatchOne ==
  ASSUME QInv, UNCHANGED given, Watch, NEW t \in Server
  PROVE  /\ weight'[t] = weight[t] /\ config'[t] = config[t]
         /\ found'[t] # "polling" => free'[t] = free[t]
         /\ found'[t] = "polling" =>
              \A q : q \in free'[t] <=>
                       \/ q \in DOMAIN weight[t] /\ ~Available(q)'
                       \/ found[t] = "polling" /\ q \in free[t]
BY DEF Watch, given

\* A step that leaves the poll of a server alone.
LEMMA PollLeftAlone ==
  ASSUME QInv, UNCHANGED given, Watch, NEW t \in Server,
         asking'[t] = asking[t], found'[t] = found[t]
  PROVE  PollInv(t)'
<1>1. /\ weight'[t] = weight[t] /\ config'[t] = config[t]
      /\ found'[t] # "polling" => free'[t] = free[t]
      /\ found'[t] = "polling" =>
           \A q : q \in free'[t] <=>
                    \/ q \in DOMAIN weight[t] /\ ~Available(q)'
                    \/ found[t] = "polling" /\ q \in free[t]
  BY WatchOne
<1>2. PollInOrder(t) /\ AskedWereFree(t) /\ EndedRightly(t)
  BY DEF QInv, PollInv
<1>3. PollInOrder(t)'
  BY <1>1, <1>2 DEF PollInOrder
<1>4. AskedWereFree(t)'
  BY <1>1, <1>2 DEF AskedWereFree
<1>5. EndedRightly(t)'
  BY <1>1, <1>2, MarkAssumption DEF EndedRightly, Heavier
<1>6. QED
  BY <1>3, <1>4, <1>5 DEF PollInv

\* A poll that begins: every queue is before it.
LEMMA PollBegins ==
  ASSUME QInv, NEW s \in Server, Poll(s), Watch
  PROVE  PollInv(s)'
<1>1. PICK order \in orders[s] : asking' = [asking EXCEPT ![s] = order]
  BY DEF Poll
<1>2. UNCHANGED given /\ found' = [found EXCEPT ![s] = "polling"] /\ found[s] # "polling"
  BY DEF Poll
<1>3. asking'[s] = order /\ found'[s] = "polling"
  BY <1>1, <1>2 DEF QInv
<1>4. /\ order \in Seq(DOMAIN weight[s]) /\ IsInjective(order)
      /\ Range(order) = DOMAIN weight[s]
      /\ config[s].strict => Descends(weight[s], order)
  BY ConstructedOrders DEF QInv
<1>5. order # <<>>
  <2>1. DOMAIN weight[s] # {}
    BY ConstructedWeights DEF QInv
  <2>2. Range(<<>>) = {}
    BY DEF Range
  <2>3. QED
    BY <1>4, <2>1, <2>2
<1>6. /\ weight'[s] = weight[s] /\ config'[s] = config[s]
      /\ \A q : q \in free'[s] <=> q \in DOMAIN weight[s] /\ ~Available(q)'
  BY <1>2, <1>3, WatchOne
<1>7. PollInOrder(s)'
  BY <1>3, <1>4, <1>5, <1>6 DEF PollInOrder
<1>8. AskedWereFree(s)'
  BY <1>3, <1>4, <1>6 DEF AskedWereFree
<1>9. EndedRightly(s)'
  BY <1>3, MarkAssumption DEF EndedRightly
<1>10. QED
  BY <1>7, <1>8, <1>9 DEF PollInv

\* A poll that ends.
LEMMA PollEnds ==
  ASSUME QInv, NEW s \in Server, NEW how, UNCHANGED given, Watch, Ends(s, how),
         how # "polling", how \in Queue \cup {"nothing", "error"},
         how = "nothing" => free[s] = DOMAIN weight[s],
         how \in Queue => /\ how \in DOMAIN weight[s]
                          /\ config[s].strict => Heavier(s, how) \subseteq free[s]
  PROVE  PollInv(s)'
<1>1. asking'[s] = <<>> /\ found'[s] = how
  BY DEF Ends, QInv
<1>2. weight'[s] = weight[s] /\ config'[s] = config[s] /\ free'[s] = free[s]
  BY <1>1, WatchOne
<1>3. PollInOrder(s)'
  <2>1. <<>> \in Seq(DOMAIN weight[s]) /\ IsInjective(<<>>) /\ DOMAIN <<>> = {}
    BY DEF IsInjective
  <2>2. QED
    BY <1>1, <1>2, <2>1 DEF PollInOrder, Descends
<1>4. AskedWereFree(s)'
  BY <1>1, <1>2 DEF AskedWereFree, QInv, PollInv
<1>5. EndedRightly(s)'
  BY <1>1, <1>2 DEF EndedRightly, Heavier
<1>6. QED
  BY <1>3, <1>4, <1>5 DEF PollInv

LEMMA PollGoesOn ==
  ASSUME QInv, NEW s \in Server, NEW q \in Queue, Ask(s, q), Watch
  PROVE  PollInv(s)'
<1> DEFINE a == asking[s]
           D == DOMAIN weight[s]
<1>1. UNCHANGED given /\ a # <<>> /\ q = Head(a)
  BY DEF Ask
<1>2. PollInOrder(s) /\ AskedWereFree(s)
  BY DEF QInv, PollInv
<1>3. /\ a \in Seq(D) /\ IsInjective(a) /\ found[s] = "polling"
      /\ config[s].strict => Descends(weight[s], a)
  BY <1>1, <1>2 DEF PollInOrder
<1>4. /\ Tail(a) \in Seq(D) /\ IsInjective(Tail(a))
      /\ q \in D
      /\ Range(a) = Range(Tail(a)) \cup {q}
      /\ Tail(a) = <<>> <=> ~(Len(a) > 1)
      /\ config[s].strict => /\ Descends(weight[s], Tail(a))
                             /\ \A r \in Range(a) : r # q => weight[s][q] >= weight[s][r]
  BY <1>1, <1>3, TailAsksTheRest
<1>5. q # "polling" /\ q # "nothing"
  BY MarkAssumption
<1>6. CASE Available(q)
  <2>1. Ends(s, q)
    BY <1>6 DEF Ask
  <2>2. ASSUME config[s].strict, NEW r \in Heavier(s, q) PROVE r \in free[s]
    <3>1. r \in D /\ weight[s][r] > weight[s][q]
      BY <2>2 DEF Heavier
    <3>2. weight[s] \in [D -> Nat \ {0}]
      BY ConstructedWeights DEF QInv
    <3>3. weight[s][r] \in Nat /\ weight[s][q] \in Nat
      BY <1>4, <3>1, <3>2
    <3>4. r \notin Range(a)
      BY <1>4, <2>2, <3>1, <3>3
    <3>5. QED
      BY <1>2, <1>3, <3>1, <3>4 DEF AskedWereFree
  <2>3. QED
    BY <1>1, <1>4, <1>5, <2>1, <2>2, PollEnds
<1>7. CASE ~Available(q) /\ Len(a) > 1
  <2>1. asking' = [asking EXCEPT ![s] = Tail(a)] /\ UNCHANGED <<found, pending, paused>>
    BY <1>7 DEF Ask
  <2>2. asking'[s] = Tail(a) /\ found'[s] = "polling"
    BY <1>3, <2>1 DEF QInv
  <2>3. \A r : Available(r)' <=> Available(r)
    BY <2>1 DEF Available
  <2>4. /\ weight'[s] = weight[s] /\ config'[s] = config[s]
        /\ \A r : r \in free'[s] <=> ((r \in D /\ ~Available(r)) \/ r \in free[s])
    BY <1>1, <1>3, <2>2, <2>3, WatchOne
  <2>5. PollInOrder(s)'
    BY <1>4, <1>7, <2>2, <2>4 DEF PollInOrder
  <2>6. AskedWereFree(s)'
    BY <1>2, <1>3, <1>4, <1>7, <2>2, <2>3, <2>4 DEF AskedWereFree
  <2>7. EndedRightly(s)'
    BY <2>2, MarkAssumption DEF EndedRightly
  <2>8. QED
    BY <2>5, <2>6, <2>7 DEF PollInv
<1>8. CASE ~Available(q) /\ ~(Len(a) > 1)
  <2>1. Ends(s, "nothing")
    BY <1>8 DEF Ask
  <2>2. Range(a) = {q}
    BY <1>4, <1>8 DEF Range
  <2>3. free[s] = D
    BY <1>2, <1>3, <1>8, <2>2 DEF AskedWereFree
  <2>4. "nothing" \notin Queue
    BY MarkAssumption
  <2>5. QED
    BY <1>1, <2>1, <2>3, <2>4, PollEnds
<1>9. QED
  BY <1>6, <1>7, <1>8
\* What a server's step does to the pending tasks and to the other servers.
LEMMA ServerStep ==
  ASSUME QInv, NEW s \in Server, ServerPolls(s), Watch
  PROVE  /\ UNCHANGED given /\ QueueCounts'
         /\ found' \in [Server -> Queue \cup {"none", "polling", "nothing", "error"}]
         /\ DOMAIN asking' = Server
         /\ \A t \in Server \ {s} : asking'[t] = asking[t] /\ found'[t] = found[t]
         /\ PollInv(s)'
<1> USE DEF QInv
<1>1. CASE Poll(s)
  <2>1. UNCHANGED given /\ QueueCounts'
    BY <1>1 DEF Poll, QueueCounts, tasks
  <2>2. /\ found' \in [Server -> Queue \cup {"none", "polling", "nothing", "error"}]
        /\ DOMAIN asking' = Server
        /\ \A t \in Server \ {s} : asking'[t] = asking[t] /\ found'[t] = found[t]
    BY <1>1 DEF Poll
  <2>3. PollInv(s)'
    BY <1>1, PollBegins
  <2>4. QED
    BY <2>1, <2>2, <2>3
<1>2. ASSUME NEW q \in Queue, Ask(s, q)
      PROVE  /\ UNCHANGED given /\ QueueCounts'
             /\ found' \in [Server -> Queue \cup {"none", "polling", "nothing", "error"}]
             /\ DOMAIN asking' = Server
             /\ \A t \in Server \ {s} : asking'[t] = asking[t] /\ found'[t] = found[t]
             /\ PollInv(s)'
  <2>1. UNCHANGED given /\ QueueCounts'
    BY <1>2, BoundAssumption DEF Ask, QueueCounts, Available
  <2>2. /\ found' \in [Server -> Queue \cup {"none", "polling", "nothing", "error"}]
        /\ DOMAIN asking' = Server
        /\ \A t \in Server \ {s} : asking'[t] = asking[t] /\ found'[t] = found[t]
    BY <1>2 DEF Ask, Ends
  <2>3. PollInv(s)'
    BY <1>2, PollGoesOn
  <2>4. QED
    BY <2>1, <2>2, <2>3
<1>3. CASE AskFails(s)
  <2>1. UNCHANGED given /\ QueueCounts'
    <3>1. UNCHANGED given /\ UNCHANGED paused
      BY <1>3 DEF AskFails
    <3>2. CASE UNCHANGED pending
      BY <3>1, <3>2 DEF QueueCounts
    <3>3. CASE ~ UNCHANGED pending
      <4> DEFINE q == Head(asking[s])
      <4>1. Available(q) /\ pending' = [pending EXCEPT ![q] = @ - 1]
        BY <1>3, <3>3 DEF AskFails
      <4>2. pending \in [Queue -> 0..MaxTasks] /\ pending[q] > 0
        BY <4>1 DEF Available, QueueCounts
      <4> HIDE DEF q, QInv
      <4>3. q \in Queue => pending[q] - 1 \in 0..MaxTasks
        BY <4>2, BoundAssumption
      <4>4. pending' \in [Queue -> 0..MaxTasks]
        BY <4>1, <4>2, <4>3
      <4>5. paused' \subseteq Queue
        BY <3>1 DEF QInv, QueueCounts
      <4>6. QED
        BY <3>1, <4>4, <4>5 DEF QueueCounts
    <3>4. QED
      BY <3>2, <3>3
  <2>2. Ends(s, "error")
    BY <1>3 DEF AskFails
  <2>3. /\ found' \in [Server -> Queue \cup {"none", "polling", "nothing", "error"}]
        /\ DOMAIN asking' = Server
        /\ \A t \in Server \ {s} : asking'[t] = asking[t] /\ found'[t] = found[t]
    BY <2>2 DEF Ends
  <2>4. "error" \notin Queue
    BY MarkAssumption
  <2>5. PollInv(s)'
    BY <2>1, <2>2, <2>4, PollEnds
  <2>6. QED
    BY <2>1, <2>3, <2>5
<1>4. QED
  BY <1>1, <1>2, <1>3 DEF ServerPolls

\* Whoever else is at the queues leaves the polls alone.
LEMMA StepElsewhere ==
  ASSUME QInv, NEW q \in Queue, Enqueue(q) \/ TakenElsewhere(q) \/ Pause(q)
  PROVE  QueueCounts' /\ UNCHANGED <<given, asking, found>>
<1> USE DEF QInv, QueueCounts, Elsewhere
<1>1. CASE Enqueue(q)
  BY <1>1, BoundAssumption DEF Enqueue
<1>2. CASE TakenElsewhere(q)
  BY <1>2, BoundAssumption DEF TakenElsewhere, Available
<1>3. CASE Pause(q)
  BY <1>3 DEF Pause
<1>4. QED
  BY <1>1, <1>2, <1>3

LEMMA QInvStep == QInv /\ [QueuesNext]_queueVars => QInv'
<1> SUFFICES ASSUME QInv, [QueuesNext]_queueVars PROVE QInv'
  OBVIOUS
<1>1. ASSUME NEW s \in Server, ServerPolls(s), Watch PROVE QInv'
  <2>1. /\ UNCHANGED given /\ QueueCounts'
        /\ found' \in [Server -> Queue \cup {"none", "polling", "nothing", "error"}]
        /\ DOMAIN asking' = Server
        /\ \A t \in Server \ {s} : asking'[t] = asking[t] /\ found'[t] = found[t]
        /\ PollInv(s)'
    BY <1>1, ServerStep
  <2>2. ASSUME NEW t \in Server PROVE PollInv(t)'
    <3>1. CASE t = s
      BY <2>1, <3>1
    <3>2. CASE t # s
      BY <1>1, <2>1, <3>2, PollLeftAlone
    <3>3. QED
      BY <3>1, <3>2
  <2>3. Constructed'
    BY <2>1, GivenKept DEF QInv
  <2>4. DOMAIN free' = Server
    BY <1>1 DEF Watch
  <2>5. QED
    BY <2>1, <2>2, <2>3, <2>4 DEF QInv
<1>2. ASSUME NEW q \in Queue, Enqueue(q) \/ TakenElsewhere(q) \/ Pause(q), Watch
      PROVE  QInv'
  <2>1. QueueCounts' /\ UNCHANGED given /\ UNCHANGED asking /\ UNCHANGED found
    BY <1>2, StepElsewhere
  <2>2. ASSUME NEW t \in Server PROVE PollInv(t)'
    BY <1>2, <2>1, PollLeftAlone
  <2>3. Constructed'
    BY <2>1, GivenKept DEF QInv
  <2>4. DOMAIN free' = Server
    BY <1>2 DEF Watch
  <2>5. QED
    BY <2>1, <2>2, <2>3, <2>4 DEF QInv
<1>3. CASE UNCHANGED queueVars
  <2>1. /\ UNCHANGED given /\ UNCHANGED pending /\ UNCHANGED paused
        /\ UNCHANGED asking /\ UNCHANGED found /\ UNCHANGED free
    BY <1>3 DEF queueVars, tasks
  <2>2. Constructed'
    BY <2>1, GivenKept DEF QInv
  <2>3. ASSUME NEW t \in Server PROVE PollInv(t)'
    <3>1. PollInv(t)
      BY DEF QInv
    <3>2. UNCHANGED <<config, weight>>
      BY <2>1 DEF given
    <3>3. \A q : Available(q)' <=> Available(q)
      BY <2>1 DEF Available
    <3>4. QED
      BY <2>1, <3>1, <3>2, <3>3
      DEF PollInv, PollInOrder, AskedWereFree, EndedRightly, Heavier
  <2>4. QED
    BY <2>1, <2>2, <2>3 DEF QInv, QueueCounts
<1>4. CASE QueuesNext
  <2>1. Watch
    BY <1>4 DEF QueuesNext
  <2>2. CASE \E s \in Server : ServerPolls(s)
    BY <1>1, <2>1, <2>2
  <2>3. CASE \E q \in UNION {DOMAIN weight[s] : s \in Server} : Enqueue(q) \/ TakenElsewhere(q)
    <3>1. PICK q \in UNION {DOMAIN weight[s] : s \in Server} : Enqueue(q) \/ TakenElsewhere(q)
      BY <2>3
    <3>2. q \in Queue
      <4>1. PICK s \in Server : q \in DOMAIN weight[s]
        OBVIOUS
      <4>2. QED
        BY <4>1, ConstructedWeights DEF QInv
    <3>3. QED
      BY <1>2, <2>1, <3>1, <3>2
  <2>4. CASE \E q \in Pausable : Pause(q)
    BY <1>2, <2>1, <2>4, NameAssumption
  <2>5. QED
    BY <1>4, <2>2, <2>3, <2>4 DEF QueuesNext
<1>5. QED
  BY <1>3, <1>4
LEMMA QInvAlways == QueuesSpec => []QInv
<1>1. QED
  BY QInvInit, QInvStep, PTL DEF QueuesSpec

------------------------------------------------------------------------------
(* Theorems.                                                               *)

\* Types; and for every configuration a server has queues, all with names
\* that are no blanks and weights that are positive; a poll has each of its
\* queues before it at most once.
THEOREM QueuesTypes == QueuesSpec => []QueuesTypeOK
<1>1. QInv => QueuesTypeOK
  <2> SUFFICES ASSUME QInv PROVE QueuesTypeOK
    OBVIOUS
  <2>1. /\ config \in [Server -> Configs]
        /\ pending \in [Queue -> 0..MaxTasks]
        /\ paused \subseteq Queue
        /\ found \in [Server -> Queue \cup {"none", "polling", "nothing", "error"}]
    BY DEF QInv, Constructed, QueueCounts
  <2>2. ASSUME NEW s \in Server
        PROVE  /\ DOMAIN weight[s] \subseteq Queue \ Blank
               /\ DOMAIN weight[s] # {}
               /\ \A q \in DOMAIN weight[s] : weight[s][q] \in Nat \ {0}
    <3>1. weight[s] \in [DOMAIN weight[s] -> Nat \ {0}]
      BY ConstructedWeights DEF QInv
    <3>2. DOMAIN weight[s] \subseteq Queue \ Blank /\ DOMAIN weight[s] # {}
      BY ConstructedWeights DEF QInv
    <3>3. QED
      BY <3>1, <3>2
  <2>3. ASSUME NEW s \in Server
        PROVE  /\ free[s] \subseteq DOMAIN weight[s]
               /\ IsInjective(asking[s])
               /\ found[s] = "polling" <=> asking[s] # <<>>
    BY DEF QInv, PollInv, PollInOrder, AskedWereFree
  <2>4. QED
    BY <2>1, <2>2, <2>3 DEF QueuesTypeOK
<1>2. QED
  BY <1>1, QInvAlways, PTL

\* normalizeQueues: the weights stand to each other as the priorities that
\* were configured, and no number from two upwards divides them all.  This
\* rests on what gcd computes, for all numbers (EuclidIsGcd).
THEOREM PrioritiesNormalised == QueuesSpec => []Normalised
<1>1. QInv => Normalised
  <2> SUFFICES ASSUME QInv, NEW s \in Server
      PROVE  LET w == weight[s]
                 c == config[s].queues
                 known == {q \in DOMAIN w \cap DOMAIN c : c[q] > 0}
             IN /\ \A q, r \in known : w[q] * c[r] = w[r] * c[q]
                /\ \A q \in DOMAIN w : \A d \in 2..w[q] : \E r \in DOMAIN w : w[r] % d # 0
    BY DEF Normalised
  <2> DEFINE w == weight[s]
             c == config[s].queues
             known == {q \in DOMAIN w \cap DOMAIN c : c[q] > 0}
  <2>1. w \in [DOMAIN w -> Nat \ {0}] /\ DOMAIN w \subseteq Queue \ Blank
    BY ConstructedWeights DEF QInv
  <2>2. IF Listed(c) = {} THEN DOMAIN w = {Default}
        ELSE /\ DOMAIN w = Listed(c)
             /\ \E g \in Nat \ {0} : \A q \in DOMAIN w : c[q] = w[q] * g
    BY ConstructedWeights DEF QInv
  <2>3. \A d \in Nat : (\A q \in DOMAIN w : d \in Divisors(w[q])) => d = 1
    BY ConstructedWeights DEF QInv
  <2> HIDE DEF w, c
  <2>4. \A q, r \in known : w[q] * c[r] = w[r] * c[q]
    <3>1. CASE Listed(c) = {}
      <4>1. known = {}
        BY <2>1, <3>1 DEF Listed
      <4>2. QED
        BY <4>1
    <3>2. CASE Listed(c) # {}
      <4>1. PICK g \in Nat \ {0} : \A q \in DOMAIN w : c[q] = w[q] * g
        BY <2>2, <3>2
      <4>2. ASSUME NEW q \in DOMAIN w, NEW r \in DOMAIN w PROVE w[q] * c[r] = w[r] * c[q]
        <5>1. w[q] \in Nat /\ w[r] \in Nat /\ c[q] = w[q] * g /\ c[r] = w[r] * g
          BY <2>1, <4>1
        <5>2. \A m, n, k \in Nat : m * (n * k) = n * (m * k)
          OBVIOUS
        <5>3. QED
          BY <5>1, <5>2
      <4>3. QED
        BY <4>2
    <3>3. QED
      BY <3>1, <3>2
  <2>5. ASSUME NEW q \in DOMAIN w, NEW d \in 2..w[q]
        PROVE  \E r \in DOMAIN w : w[r] % d # 0
    <3>1. d \in Nat \ {0} /\ d # 1
      BY <2>1
    <3>2. PICK r \in DOMAIN w : d \notin Divisors(w[r])
      BY <2>3, <3>1
    <3>3. ASSUME w[r] % d = 0 PROVE FALSE
      <4>1. w[r] \in Nat
        BY <2>1
      <4>2. w[r] \div d \in Nat /\ w[r] = (w[r] \div d) * d + (w[r] % d)
        BY <3>1, <4>1, Remainder
      <4>3. w[r] = (w[r] \div d) * d
        BY <3>1, <3>3, <4>2
      <4>4. QED
        BY <3>1, <3>2, <4>2, <4>3 DEF Divisors
    <3>4. QED
      BY <3>3
  <2>6. QED
    BY <2>4, <2>5 DEF w, c
<1>2. QED
  BY <1>1, QInvAlways, PTL

\* With StrictPriority a task is taken only if each queue of a higher
\* priority, by the numbers that were configured, had none to give at some
\* time of the same poll: whatever others do between two scripts of it.
THEOREM StrictPriorityHolds == QueuesSpec => []StrictOrder
<1>1. QInv => StrictOrder
  <2> SUFFICES ASSUME QInv, NEW s \in Server, config[s].strict, found[s] \in Queue,
                      NEW r \in Before(s, found[s])
      PROVE  r \in free[s]
    BY DEF StrictOrder
  <2> DEFINE q == found[s]
             c == config[s].queues
             w == weight[s]
             D == DOMAIN weight[s]
  <2>1. q \in D /\ Heavier(s, q) \subseteq free[s]
    BY DEF QInv, PollInv, EndedRightly
  <2>2. r \in D /\ c[r] > c[q]
    BY DEF Before
  <2>3. weight[s] \in [D -> Nat \ {0}]
    BY ConstructedWeights DEF QInv
  <2>4. IF Listed(c) = {} THEN D = {Default}
        ELSE \E g \in Nat \ {0} : \A x \in D : c[x] = w[x] * g
    BY ConstructedWeights DEF QInv
  <2>5. ASSUME Listed(c) = {} PROVE FALSE
    <3>1. r = q
      BY <2>1, <2>2, <2>4, <2>5
    <3>2. q \in DOMAIN c /\ IsFiniteSet(DOMAIN c) /\ \A x \in DOMAIN c : c[x] \in Int
      BY ConfigAssumption DEF Before, QInv, Constructed
    <3>3. QED
      BY <2>2, <3>1, <3>2
  <2>6. PICK g \in Nat \ {0} : \A x \in D : c[x] = w[x] * g
    BY <2>4, <2>5
  <2>7. w[r] > w[q]
    <3>1. w[r] \in Nat /\ w[q] \in Nat /\ c[r] = w[r] * g /\ c[q] = w[q] * g
      BY <2>1, <2>2, <2>3, <2>6
    <3>2. \A m, n \in Nat : \A k \in Nat \ {0} : m * k > n * k => m > n
      OBVIOUS
    <3>3. QED
      BY <2>2, <3>1, <3>2
  <2>8. QED
    BY <2>1, <2>2, <2>7 DEF Heavier
<1>2. QED
  BY <1>1, QInvAlways, PTL

\* A poll that finds nothing, after which the processor sleeps, has asked
\* every queue of the server: each had nothing to give at some time of it.
THEOREM SleepsOnlyWhenEmpty == QueuesSpec => []SleepsWhenEmpty
<1>1. QInv => SleepsWhenEmpty
  BY DEF QInv, PollInv, EndedRightly, SleepsWhenEmpty
<1>2. QED
  BY <1>1, QInvAlways, PTL
==============================================================================
