--------------------------- MODULE TimerWheel_proofs ---------------------------
(***************************************************************************)
(* The timing wheel for any number of timers, any sizes of the wheels and  *)
(* any number of levels: a pending node is in the slot where it belongs,   *)
(* so it fires in its tick, and the nodes of one tick in their order.      *)
(***************************************************************************)
EXTENDS TimerWheel, FiniteSetTheorems, SequenceTheorems, WellFoundedInduction, TLAPS

-----------------------------------------------------------------------------
(* Numbers.                                                                *)

LEMMA Least ==
  ASSUME NEW S \in SUBSET Nat, S # {}
  PROVE  \E x \in S : \A y \in S : x <= y
<1> DEFINE R == {p \in Nat \X Nat : p[1] < p[2]}
<1>1. IsWellFoundedOn(R, Nat)
  BY NatLessThanWellFounded DEF OpToRel
<1> HIDE DEF R
<1>2. PICK x \in S : \A y \in S : <<y, x>> \notin R
  BY <1>1, WFMin
<1>3. ASSUME NEW y \in S, y < x PROVE FALSE
  <2>1. <<y, x>> \in R
    BY <1>3 DEF R
  <2> QED
    BY <1>2, <2>1
<1> QED
  BY <1>3

LEMMA DivMod ==
  ASSUME NEW n \in Nat \ {0}, NEW x \in Nat
  PROVE  /\ x \div n \in Nat /\ x % n \in 0..(n - 1)
         /\ x = n * (x \div n) + (x % n)
OBVIOUS

\* A multiple of n between -n and n is zero.
LEMMA Multiple ==
  ASSUME NEW n \in Nat \ {0}, NEW k \in Int, n * k < n, n * k > -n
  PROVE  k = 0
<1>1. CASE k >= 1
  <2>1. n * k >= n
    BY <1>1
  <2> QED
    BY <2>1
<1>2. CASE k <= -1
  <2>1. n * k <= -n
    BY <1>2
  <2> QED
    BY <2>1
<1> QED
  BY <1>1, <1>2

\* Quotient and rest are unique.
LEMMA DivUnique ==
  ASSUME NEW n \in Nat \ {0}, NEW k \in Nat, NEW s \in 0..(n - 1)
  PROVE  (n * k + s) \div n = k /\ (n * k + s) % n = s
<1> DEFINE x == n * k + s
           q == x \div n
           r == x % n
<1>1. x \in Nat
  OBVIOUS
<1>2. q \in Nat /\ r \in 0..(n - 1) /\ x = n * q + r
  <2> HIDE DEF x
  <2>1. QED
    BY <1>1, DivMod
<1>3. n * k + s = n * q + r
  BY <1>2
<1> HIDE DEF q, r, x
<1>4. n * (k - q) = r - s
  BY <1>2, <1>3
<1>5. k - q = 0
  BY <1>2, <1>4, Multiple
<1>6. r = s /\ q = k
  BY <1>2, <1>4, <1>5
<1> QED
  BY <1>6 DEF r, q, x

\* From one number to the next the block changes only at a multiple of n.
LEMMA NextBlock ==
  ASSUME NEW n \in Nat \ {0}, NEW x \in Nat
  PROVE  \/ (x + 1) \div n = x \div n /\ (x + 1) % n # 0
         \/ (x + 1) \div n = (x \div n) + 1 /\ (x + 1) % n = 0
<1> DEFINE q == x \div n
           r == x % n
<1>1. q \in Nat /\ r \in 0..(n - 1) /\ x = n * q + r
  BY DivMod
<1> HIDE DEF q, r
<1>2. CASE r + 1 < n
  <2>1. x + 1 = n * q + (r + 1) /\ r + 1 \in 0..(n - 1)
    BY <1>1, <1>2
  <2>2. (x + 1) \div n = q /\ (x + 1) % n = r + 1
    BY <1>1, <2>1, DivUnique
  <2> QED
    BY <1>1, <2>2 DEF q
<1>3. CASE r + 1 = n
  <2>1. x + 1 = n * (q + 1) + 0 /\ 0 \in 0..(n - 1) /\ q + 1 \in Nat
    BY <1>1, <1>3
  <2>2. (n * (q + 1) + 0) \div n = q + 1 /\ (n * (q + 1) + 0) % n = 0
    BY <2>1, DivUnique
  <2>3. (x + 1) \div n = q + 1 /\ (x + 1) % n = 0
    BY <2>1, <2>2
  <2> QED
    BY <2>3 DEF q
<1> QED
  BY <1>1, <1>2, <1>3

LEMMA DivMonotone ==
  ASSUME NEW n \in Nat \ {0}, NEW x \in Nat, NEW y \in Nat, x <= y
  PROVE  x \div n <= y \div n
<1> DEFINE q == x \div n
           r == x % n
           u == y \div n
           v == y % n
<1>1. q \in Nat /\ r \in 0..(n - 1) /\ x = n * q + r
  BY DivMod
<1>2. u \in Nat /\ v \in 0..(n - 1) /\ y = n * u + v
  BY DivMod
<1> HIDE DEF q, r, u, v
<1>3. ASSUME q >= u + 1 PROVE FALSE
  <2>1. n * q >= n * (u + 1)
    BY <1>1, <1>2, <1>3
  <2>2. n * (u + 1) = n * u + n
    BY <1>2
  <2>3. n * u \in Int /\ n * q \in Int
    BY <1>1, <1>2
  <2> QED
    BY <1>1, <1>2, <2>1, <2>2, <2>3
<1> QED
  BY <1>1, <1>2, <1>3 DEF q, u

\* Two steps of division are one, with the rests put together.
LEMMA DivTwice ==
  ASSUME NEW n \in Nat \ {0}, NEW b \in Nat \ {0}, NEW x \in Nat
  PROVE  /\ x \div (b * n) = (x \div n) \div b
         /\ x % (b * n) = n * ((x \div n) % b) + (x % n)
<1> DEFINE q == x \div n
           r == x % n
           Q == q \div b
           d == q % b
<1>1. q \in Nat /\ r \in 0..(n - 1) /\ x = n * q + r
  BY DivMod
<1>2. Q \in Nat /\ d \in 0..(b - 1) /\ q = b * Q + d
  <2> HIDE DEF q
  <2> QED
    BY <1>1, DivMod
<1> HIDE DEF q, r, Q, d
<1> DEFINE m == b * n
           s == n * d + r
<1>3. m \in Nat \ {0}
  OBVIOUS
<1>4. s \in 0..(m - 1)
  <2>1. n * d <= n * (b - 1)
    BY <1>2
  <2>2. n * (b - 1) = m - n
    OBVIOUS
  <2>3. n * d \in Nat
    BY <1>2
  <2> QED
    BY <1>1, <1>3, <2>1, <2>2, <2>3
<1>5. x = m * Q + s
  <2>1. n * q = n * (b * Q) + n * d
    BY <1>1, <1>2
  <2>2. n * (b * Q) = m * Q
    BY <1>2
  <2> QED
    BY <1>1, <1>2, <2>1, <2>2
<1>6. x \div m = Q /\ x % m = s
  <2> HIDE DEF m, s
  <2> QED
    BY <1>2, <1>3, <1>4, <1>5, DivUnique
<1> QED
  BY <1>6 DEF s, m, Q, d, q, r
-----------------------------------------------------------------------------
(* The blocks of the levels.                                               *)

LEMMA MaskEquation ==
  \A k \in 1..(LEVELS + 1) :
    Mask[k] = IF k = 1 THEN TIME_NEAR ELSE TIME_LEVEL * Mask[k - 1]
<1> DEFINE F(n, f) == [k \in 1..n |-> IF k = 1 THEN TIME_NEAR ELSE TIME_LEVEL * f[k - 1]]
           Bad == {n \in Nat : ~\E f : f = F(n, f)}
<1>1. Bad = {}
  <2> SUFFICES ASSUME Bad # {} PROVE FALSE
    OBVIOUS
  <2>1. PICK n \in Bad : \A m \in Bad : n <= m
    BY Least
  <2>2. ~\E f : f = F(n, f)
    OBVIOUS
  <2>3. n # 0
    <3>1. ASSUME n = 0 PROVE FALSE
      <4> DEFINE f == [k \in 1..0 |-> 0]
      <4>1. 1..n = {}
        BY <3>1
      <4>2. f = F(n, f)
        BY <4>1, <3>1
      <4> QED
        BY <2>2, <4>2
    <3> QED
      BY <3>1
  <2>4. PICK f : f = F(n - 1, f)
    <3>1. n - 1 \in Nat /\ ~(n <= n - 1)
      BY <2>3
    <3>2. n - 1 \notin Bad
      BY <2>1, <3>1
    <3> QED
      BY <3>1, <3>2
  <2> DEFINE g == [k \in 1..n |-> IF k = 1 THEN TIME_NEAR ELSE TIME_LEVEL * f[k - 1]]
  <2>5. \A k \in 1..n : k # 1 => g[k - 1] = f[k - 1]
    <3> SUFFICES ASSUME NEW k \in 1..n, k # 1 PROVE g[k - 1] = f[k - 1]
      OBVIOUS
    <3>1. k - 1 \in 1..n /\ k - 1 \in 1..(n - 1)
      BY <2>3
    <3> DEFINE j == k - 1
    <3>2. f[j] = IF j = 1 THEN TIME_NEAR ELSE TIME_LEVEL * f[j - 1]
      <4> HIDE DEF j
      <4> QED
        BY <2>4, <3>1 DEF j
    <3>3. g[j] = IF j = 1 THEN TIME_NEAR ELSE TIME_LEVEL * f[j - 1]
      <4> HIDE DEF j
      <4> QED
        BY <3>1 DEF j
    <3> QED
      BY <3>2, <3>3
  <2> HIDE DEF g
  <2>6. g = F(n, g)
    <3>1. \A k \in 1..n : (IF k = 1 THEN TIME_NEAR ELSE TIME_LEVEL * f[k - 1])
                            = (IF k = 1 THEN TIME_NEAR ELSE TIME_LEVEL * g[k - 1])
      BY <2>5
    <3> QED
      BY <3>1 DEF g
  <2> QED
    BY <2>2, <2>6
<1>2. LEVELS + 1 \in Nat
  BY WheelAssumption
<1>3. PICK f : f = F(LEVELS + 1, f)
  BY <1>1, <1>2
<1> DEFINE c == CHOOSE h : h = F(LEVELS + 1, h)
<1>4. Mask = c
  BY DEF Mask
<1>5. c = F(LEVELS + 1, c)
  BY <1>3
<1> HIDE DEF c
<1> QED
  BY <1>4, <1>5

LEMMA MaskStep ==
  /\ Mask[1] = TIME_NEAR
  /\ \A k \in 1..LEVELS : Mask[k + 1] = TIME_LEVEL * Mask[k]
<1>1. 1 \in 1..(LEVELS + 1)
  BY WheelAssumption
<1>2. \A k \in 1..LEVELS : k + 1 \in 1..(LEVELS + 1) /\ k + 1 # 1 /\ k + 1 - 1 = k
  BY WheelAssumption
<1> QED
  BY <1>1, <1>2, MaskEquation

LEMMA MaskType == \A k \in 1..(LEVELS + 1) : Mask[k] \in Nat \ {0}
<1> DEFINE Bad == {k \in 1..(LEVELS + 1) : Mask[k] \notin Nat \ {0}}
<1> SUFFICES ASSUME Bad # {} PROVE FALSE
  OBVIOUS
<1>1. Bad \in SUBSET Nat
  BY WheelAssumption
<1>2. PICK n \in Bad : \A m \in Bad : n <= m
  BY <1>1, Least
<1>3. n # 1
  BY WheelAssumption, MaskStep
<1>4. n - 1 \in 1..LEVELS /\ n - 1 \in 1..(LEVELS + 1) /\ n - 1 + 1 = n
  BY <1>3, WheelAssumption
<1>5. Mask[n - 1] \in Nat \ {0}
  BY <1>1, <1>2, <1>4
<1>6. Mask[n] = TIME_LEVEL * Mask[n - 1]
  BY <1>4, MaskStep
<1> QED
  BY <1>5, <1>6, WheelAssumption

LEMMA WrapType == Wrap \in Nat \ {0} /\ Tick = 0..(Wrap - 1)
<1>1. LEVELS + 1 \in 1..(LEVELS + 1)
  BY WheelAssumption
<1> QED
  BY <1>1, MaskType DEF Wrap, Tick
-----------------------------------------------------------------------------
(* Where add_node puts a node.                                             *)

\* e and t are in one block of level k.
Same(e, t, k) == e \div Mask[k] = t \div Mask[k]

LEMMA LevelStep ==
  ASSUME NEW k \in 1..LEVELS, NEW x \in Nat
  PROVE  /\ x \div Mask[k + 1] = (x \div Mask[k]) \div TIME_LEVEL
         /\ x % Mask[k + 1] = Mask[k] * Digit(x, k) + (x % Mask[k])
<1>1. k \in 1..(LEVELS + 1)
  BY WheelAssumption
<1>2. Mask[k] \in Nat \ {0} /\ TIME_LEVEL \in Nat \ {0}
  BY <1>1, MaskType, WheelAssumption
<1>3. Mask[k + 1] = TIME_LEVEL * Mask[k]
  BY MaskStep
<1> DEFINE n == Mask[k]
<1> HIDE DEF n
<1>4. /\ x \div (TIME_LEVEL * n) = (x \div n) \div TIME_LEVEL
      /\ x % (TIME_LEVEL * n) = n * ((x \div n) % TIME_LEVEL) + (x % n)
  BY <1>2, DivTwice DEF n
<1> QED
  BY <1>3, <1>4 DEF n, Digit

LEMMA SameAbove ==
  ASSUME NEW e \in Nat, NEW t \in Nat, NEW i \in 1..(LEVELS + 1),
         NEW j \in 1..(LEVELS + 1), i <= j, Same(e, t, i)
  PROVE  Same(e, t, j)
<1> DEFINE Bad == {k \in 1..(LEVELS + 1) : i <= k /\ ~Same(e, t, k)}
<1> SUFFICES ASSUME Bad # {} PROVE FALSE
  OBVIOUS
<1>1. Bad \in SUBSET Nat
  BY WheelAssumption
<1>2. PICK n \in Bad : \A m \in Bad : n <= m
  BY <1>1, Least
<1>3. n # i /\ n \in 1..(LEVELS + 1) /\ i <= n
  OBVIOUS
<1>4. n - 1 \in 1..LEVELS /\ n - 1 \in 1..(LEVELS + 1) /\ i <= n - 1 /\ n - 1 + 1 = n
      /\ ~(n <= n - 1)
  BY <1>3, WheelAssumption
<1>5. n - 1 \notin Bad
  BY <1>2, <1>4
<1>6. Same(e, t, n - 1)
  BY <1>4, <1>5
<1>7. Same(e, t, n)
  BY <1>4, <1>6, LevelStep DEF Same
<1> QED
  BY <1>7

\* The level of a node: the highest digit in which e and t differ.
At(k, e, t) ==
  /\ k \in 0..LEVELS
  /\ Same(e, t, k + 1)
  /\ k # 0 => ~Same(e, t, k)

LEMMA AtOnce ==
  ASSUME NEW e \in Nat, NEW t \in Nat, NEW k, NEW m, At(k, e, t), At(m, e, t)
  PROVE  k = m
<1>1. ASSUME NEW i, NEW j, At(i, e, t), At(j, e, t), i < j PROVE FALSE
  <2>1. i + 1 \in 1..(LEVELS + 1) /\ j \in 1..(LEVELS + 1) /\ i + 1 <= j /\ j # 0
    BY <1>1, WheelAssumption DEF At
  <2>2. Same(e, t, i + 1) /\ ~Same(e, t, j)
    BY <1>1, <2>1 DEF At
  <2> QED
    BY <2>1, <2>2, SameAbove
<1>2. k \in Int /\ m \in Int
  BY WheelAssumption DEF At
<1> QED
  BY <1>1, <1>2

SlotAt(k, e) == <<k, IF k = 0 THEN e % TIME_NEAR ELSE Digit(e, k)>>

LEMMA SlotAtType ==
  ASSUME NEW e \in Nat, NEW k \in 0..LEVELS
  PROVE  SlotAt(k, e) \in Slot
<1>1. e % TIME_NEAR \in 0..(TIME_NEAR - 1)
  BY WheelAssumption
<1>2. CASE k # 0
  <2>1. k \in 1..LEVELS /\ k \in 1..(LEVELS + 1)
    BY <1>2, WheelAssumption
  <2>2. Mask[k] \in Nat \ {0} /\ TIME_LEVEL \in Nat \ {0}
    BY <2>1, MaskType, WheelAssumption
  <2>3. e \div Mask[k] \in Nat
    BY <2>2, DivMod
  <2>4. Digit(e, k) \in 0..(TIME_LEVEL - 1)
    BY <2>2, <2>3, DivMod DEF Digit
  <2> QED
    BY <1>2, <2>1, <2>4 DEF SlotAt, Slot
<1> QED
  BY <1>1, <1>2 DEF SlotAt, Slot

LEMMA SameAtTop ==
  ASSUME NEW e \in Tick, NEW t \in Tick
  PROVE  e \in Nat /\ t \in Nat /\ Same(e, t, LEVELS + 1)
<1>1. \A x \in 0..(Wrap - 1) : x \in Nat /\ x = Wrap * 0 + x
  BY WrapType
<1>2. \A x \in 0..(Wrap - 1) : (Wrap * 0 + x) \div Wrap = 0
  BY WrapType, DivUnique
<1> QED
  BY <1>1, <1>2, WrapType DEF Same, Wrap

LEMMA PlaceIsAt ==
  ASSUME NEW e \in Tick, NEW t \in Tick
  PROVE  \E k : At(k, e, t) /\ Place(e, t) = SlotAt(k, e)
<1>0. e \in Nat /\ t \in Nat /\ Same(e, t, LEVELS + 1)
  BY SameAtTop
<1>1. CASE Same(e, t, 1)
  <2>1. At(0, e, t)
    BY <1>1, WheelAssumption DEF At
  <2>2. Place(e, t) = SlotAt(0, e)
    BY <1>1, MaskStep DEF Place, SlotAt, Same
  <2> QED
    BY <2>1, <2>2
<1>2. CASE ~Same(e, t, 1)
  <2> DEFINE P(i) == /\ i = LEVELS \/ Same(e, t, i + 1)
                     /\ \A j \in 1..(i - 1) : ~Same(e, t, j + 1)
             k == CHOOSE i \in 1..LEVELS : P(i)
             Good == {i \in 1..LEVELS : i = LEVELS \/ Same(e, t, i + 1)}
  <2>1. PICK i \in Good : \A j \in Good : i <= j
    <3>1. Good \in SUBSET Nat /\ LEVELS \in Good
      BY WheelAssumption
    <3> QED
      BY <3>1, Least
  <2>2. P(i)
    <3>1. ASSUME NEW j \in 1..(i - 1) PROVE ~Same(e, t, j + 1)
      <4>1. j \in 1..LEVELS /\ ~(i <= j)
        BY <2>1, WheelAssumption
      <4> QED
        BY <2>1, <4>1
    <3> QED
      BY <2>1, <3>1
  <2>3. k \in 1..LEVELS /\ P(k)
    BY <2>1, <2>2
  <2>4. Place(e, t) = <<k, Digit(e, k)>>
    BY <1>2, MaskStep DEF Place, Same
  <2> HIDE DEF k
  <2>5. ~Same(e, t, k)
    <3>1. CASE k = 1
      BY <1>2, <3>1
    <3>2. CASE k # 1
      <4>1. k - 1 \in 1..(k - 1) /\ k - 1 + 1 = k
        BY <2>3, <3>2
      <4> QED
        BY <2>3, <4>1
    <3> QED
      BY <3>1, <3>2
  <2>6. At(k, e, t) /\ k # 0
    BY <1>0, <2>3, <2>5, WheelAssumption DEF At
  <2> QED
    BY <2>4, <2>6 DEF SlotAt
<1> QED
  BY <1>1, <1>2

LEMMA PlaceAt ==
  ASSUME NEW e \in Tick, NEW t \in Tick
  PROVE  /\ Place(e, t) \in Slot
         /\ \A k : At(k, e, t) => Place(e, t) = SlotAt(k, e)
<1>1. e \in Nat /\ t \in Nat
  BY SameAtTop
<1>2. PICK k : At(k, e, t) /\ Place(e, t) = SlotAt(k, e)
  BY PlaceIsAt
<1>3. Place(e, t) \in Slot
  BY <1>1, <1>2, SlotAtType DEF At
<1> QED
  BY <1>1, <1>2, <1>3, AtOnce

\* The near slot of the tick holds what expires in it, and nothing else.
LEMMA NearIsNow ==
  ASSUME NEW e \in Tick, NEW t \in Tick
  PROVE  /\ NearSlot(t) \in Slot
         /\ Place(e, t) = NearSlot(t) <=> e = t
<1>1. e \in Nat /\ t \in Nat /\ TIME_NEAR \in Nat \ {0}
  BY SameAtTop, WheelAssumption
<1>2. NearSlot(t) = SlotAt(0, t) /\ NearSlot(t) \in Slot
  BY <1>1, SlotAtType, WheelAssumption DEF NearSlot, SlotAt
<1>3. PICK k : At(k, e, t) /\ Place(e, t) = SlotAt(k, e)
  BY PlaceIsAt
<1>4. ASSUME e = t PROVE Place(e, t) = NearSlot(t)
  <2>1. At(0, e, t)
    BY <1>4, WheelAssumption DEF At, Same
  <2> QED
    BY <1>2, <1>4, <2>1, PlaceAt
<1>5. ASSUME Place(e, t) = NearSlot(t) PROVE e = t
  <2>1. k = 0
    BY <1>2, <1>3, <1>5 DEF SlotAt
  <2>2. e \div TIME_NEAR = t \div TIME_NEAR
    BY <1>3, <2>1, MaskStep DEF At, Same
  <2>3. e % TIME_NEAR = t % TIME_NEAR
    BY <1>3, <1>5, <2>1 DEF NearSlot, SlotAt
  <2>4. /\ e = TIME_NEAR * (e \div TIME_NEAR) + (e % TIME_NEAR)
        /\ t = TIME_NEAR * (t \div TIME_NEAR) + (t % TIME_NEAR)
    BY <1>1, DivMod
  <2> QED
    BY <2>2, <2>3, <2>4
<1> QED
  BY <1>2, <1>4, <1>5
-----------------------------------------------------------------------------
(* What timer_shift has to move.                                           *)

\* The ticks from t until e comes round.
Ahead(e, t) == IF t <= e THEN e - t ELSE e + Wrap - t

LEMMA DigitOf ==
  ASSUME NEW k \in 1..LEVELS, NEW x \in Nat
  PROVE  /\ x \div Mask[k] \in Nat /\ Digit(x, k) \in 0..(TIME_LEVEL - 1)
         /\ x \div Mask[k] = TIME_LEVEL * (x \div Mask[k + 1]) + Digit(x, k)
<1>1. Mask[k] \in Nat \ {0} /\ TIME_LEVEL \in Nat \ {0}
  <2>1. k \in 1..(LEVELS + 1)
    BY WheelAssumption
  <2> QED
    BY <2>1, MaskType, WheelAssumption
<1> DEFINE q == x \div Mask[k]
<1>2. q \in Nat
  BY <1>1, DivMod
<1> HIDE DEF q
<1>3. q % TIME_LEVEL \in 0..(TIME_LEVEL - 1)
      /\ q = TIME_LEVEL * (q \div TIME_LEVEL) + (q % TIME_LEVEL)
  BY <1>1, <1>2, DivMod
<1> QED
  BY <1>2, <1>3, LevelStep DEF q, Digit

LEMMA SameDigit ==
  ASSUME NEW k \in 1..LEVELS, NEW x \in Nat, NEW y \in Nat,
         Same(x, y, k + 1), Digit(x, k) = Digit(y, k)
  PROVE  Same(x, y, k)
<1>1. /\ x \div Mask[k] = TIME_LEVEL * (x \div Mask[k + 1]) + Digit(x, k)
      /\ y \div Mask[k] = TIME_LEVEL * (y \div Mask[k + 1]) + Digit(y, k)
  BY DigitOf
<1> QED
  BY <1>1 DEF Same

LEMMA NextSame ==
  ASSUME NEW k \in 1..(LEVELS + 1), NEW t \in Nat
  PROVE  Same(t + 1, t, k) <=> (t + 1) % Mask[k] # 0
<1>1. Mask[k] \in Nat \ {0}
  BY MaskType
<1> DEFINE n == Mask[k]
<1> HIDE DEF n
<1>2. \/ (t + 1) \div n = t \div n /\ (t + 1) % n # 0
      \/ (t + 1) \div n = (t \div n) + 1 /\ (t + 1) % n = 0
  BY <1>1, NextBlock DEF n
<1>3. t \div n \in Nat
  BY <1>1, DivMod DEF n
<1> QED
  BY <1>2, <1>3 DEF Same, n

\* At a multiple of the block of the next level the digit is 0.
LEMMA ZeroDigit ==
  ASSUME NEW k \in 1..LEVELS, NEW x \in Nat
  PROVE  x % Mask[k + 1] = 0 <=> x % Mask[k] = 0 /\ Digit(x, k) = 0
<1>1. x % Mask[k + 1] = Mask[k] * Digit(x, k) + (x % Mask[k])
  BY LevelStep
<1>2. Mask[k] \in Nat \ {0} /\ k \in 1..(LEVELS + 1)
  <2>1. k \in 1..(LEVELS + 1)
    BY WheelAssumption
  <2> QED
    BY <2>1, MaskType
<1>3. x % Mask[k] \in Nat /\ Digit(x, k) \in Nat
  <2> DEFINE n == Mask[k]
  <2> HIDE DEF n
  <2>0. n \in Nat \ {0}
    BY <1>2 DEF n
  <2>1. x % n \in Nat
    BY <2>0, DivMod
  <2>2. Digit(x, k) \in Nat
    <3>1. Digit(x, k) \in 0..(TIME_LEVEL - 1)
      BY DigitOf
    <3> QED
      BY <3>1, WheelAssumption
  <2> QED
    BY <2>1, <2>2 DEF n
<1> DEFINE a == Mask[k]
           b == Digit(x, k)
           c == x % Mask[k]
<1>4. a \in Nat \ {0} /\ b \in Nat /\ c \in Nat
  BY <1>2, <1>3
<1> HIDE DEF a, b, c
<1>5. a * b + c = 0 <=> c = 0 /\ b = 0
  <2>1. a * b \in Nat
    BY <1>4
  <2>2. b # 0 => a * b >= a
    BY <1>4
  <2> QED
    BY <1>4, <2>1, <2>2
<1> QED
  BY <1>1, <1>5 DEF a, b, c

\* The loop of timer_shift moves the list of at most one level.
Due(x, k) == x % Mask[k] = 0 /\ Digit(x, k) # 0

LEMMA OneDue ==
  ASSUME NEW t \in Nat, NEW j \in 1..LEVELS, NEW k \in 1..LEVELS,
         Due(t + 1, j), Due(t + 1, k)
  PROVE  j = k
<1>1. ASSUME NEW a \in 1..LEVELS, NEW b \in 1..LEVELS, Due(t + 1, a), Due(t + 1, b), a < b
      PROVE  FALSE
  <2>1. a + 1 \in 1..(LEVELS + 1) /\ b \in 1..(LEVELS + 1) /\ a + 1 <= b /\ t + 1 \in Nat
    BY <1>1, WheelAssumption
  <2>2. ~Same(t + 1, t, b)
    BY <1>1, <2>1, NextSame DEF Due
  <2>3. ~Same(t + 1, t, a + 1)
    BY <2>1, <2>2, SameAbove
  <2>4. (t + 1) % Mask[a + 1] = 0
    BY <2>1, <2>3, NextSame
  <2> QED
    BY <1>1, <2>1, <2>4, ZeroDigit DEF Due
<1> QED
  BY <1>1, WheelAssumption

\* A node that is not due and is at most MaxDelay ahead, when the counter goes
\* on from t to ct.
LEMMA TopBlock ==
  /\ LEVELS \in 1..LEVELS /\ Mask[LEVELS] \in Nat \ {0}
  /\ Wrap = TIME_LEVEL * Mask[LEVELS] /\ Wrap >= 2 * Mask[LEVELS]
<1>1. LEVELS \in 1..LEVELS /\ LEVELS \in 1..(LEVELS + 1)
  BY WheelAssumption
<1>2. Mask[LEVELS] \in Nat \ {0} /\ Wrap = TIME_LEVEL * Mask[LEVELS]
  BY <1>1, MaskType, MaskStep DEF Wrap
<1> DEFINE n == Mask[LEVELS]
<1> HIDE DEF n
<1>3. TIME_LEVEL * n >= 2 * n
  BY <1>2, WheelAssumption DEF n
<1> QED
  BY <1>1, <1>2, <1>3 DEF n

LEMMA MoveAtWrap ==
  ASSUME NEW e \in Tick, NEW t \in Tick, e # t, Ahead(e, t) <= MaxDelay, t + 1 = Wrap
  PROVE  \/ SlotsToMove(0) = {Place(e, t)}
         \/ Place(e, t) \notin SlotsToMove(0) /\ Place(e, 0) = Place(e, t)
<1> DEFINE n == Mask[LEVELS]
           q == e \div n
<1>1. n \in Nat \ {0} /\ Wrap = TIME_LEVEL * n /\ LEVELS \in 1..LEVELS
      /\ TIME_LEVEL \in Nat \ {0, 1}
  BY TopBlock, WheelAssumption
<1>2. e \in Nat /\ t \in Nat /\ 0 \in Tick
  BY SameAtTop, WrapType
<1>3. q \in Nat /\ e = n * q + (e % n) /\ e % n \in 0..(n - 1)
  BY <1>1, <1>2, DivMod
<1>4. e < t /\ 2 * (e + 1) < Wrap
  BY <1>2, WrapType, WheelAssumption DEF Ahead
<1>5. t \div n = TIME_LEVEL - 1
  <2> DEFINE a == TIME_LEVEL - 1
             b == n - 1
  <2> HIDE DEF n
  <2>1. t = n * a + b /\ a \in Nat /\ b \in 0..(n - 1)
    BY <1>1, <1>2
  <2> HIDE DEF a, b
  <2>2. (n * a + b) \div n = a
    BY <1>1, <2>1, DivUnique
  <2> QED
    BY <2>1, <2>2 DEF a
<1>6. q # TIME_LEVEL - 1
  <2> HIDE DEF n, q
  <2> SUFFICES ASSUME q = TIME_LEVEL - 1 PROVE FALSE
    OBVIOUS
  <2>1. e >= n * (TIME_LEVEL - 1)
    BY <1>1, <1>3
  <2>2. n * (TIME_LEVEL - 1) = TIME_LEVEL * n - n
    BY <1>1
  <2>3. TIME_LEVEL * n >= 2 * n
    BY <1>1
  <2>4. TIME_LEVEL * n \in Nat
    BY <1>1
  <2> QED
    BY <1>1, <1>2, <1>4, <2>1, <2>2, <2>3, <2>4
<1>7. At(LEVELS, e, t)
  BY <1>1, <1>5, <1>6, SameAtTop, WheelAssumption DEF At, Same
<1>8. LEVELS # 0 /\ Place(e, t) = <<LEVELS, Digit(e, LEVELS)>>
  BY <1>1, <1>7, PlaceAt, WheelAssumption DEF SlotAt
<1>9. SlotsToMove(0) = {<<LEVELS, 0>>}
  BY DEF SlotsToMove
<1>10. CASE Digit(e, LEVELS) # 0
  <2>1. Digit(0, LEVELS) = 0 /\ 0 \div n = 0
    <3>1. 0 = n * 0 + 0 /\ 0 = TIME_LEVEL * 0 + 0 /\ 0 \in 0..(n - 1)
          /\ 0 \in 0..(TIME_LEVEL - 1)
      BY <1>1
    <3>2. (n * 0 + 0) \div n = 0 /\ (TIME_LEVEL * 0 + 0) % TIME_LEVEL = 0
      BY <1>1, <3>1, DivUnique
    <3> QED
      BY <3>1, <3>2 DEF Digit
  <2>2. ~Same(e, 0, LEVELS)
    BY <1>10, <2>1 DEF Same, Digit
  <2>3. At(LEVELS, e, 0)
    BY <1>1, <1>2, <2>2, SameAtTop, WheelAssumption DEF At
  <2>4. Place(e, 0) = Place(e, t)
    BY <1>2, <1>7, <2>3, PlaceAt
  <2> QED
    BY <1>8, <1>9, <1>10, <2>4
<1> QED
  BY <1>8, <1>9, <1>10

LEMMA MoveOnTick ==
  ASSUME NEW e \in Tick, NEW t \in Tick, e # t, Ahead(e, t) <= MaxDelay,
         t + 1 \in Tick
  PROVE  \/ SlotsToMove(t + 1) = {Place(e, t)}
         \/ /\ Place(e, t) \notin SlotsToMove(t + 1)
            /\ Place(e, t + 1) = Place(e, t)
<1> DEFINE ct == t + 1
<1>1. e \in Nat /\ t \in Nat /\ ct \in Nat /\ ct # 0
  BY SameAtTop
<1>2. PICK k : At(k, e, t) /\ Place(e, t) = SlotAt(k, e)
  BY PlaceIsAt
<1>3. SlotsToMove(ct) = {<<i, Digit(ct, i)>> : i \in {j \in 1..LEVELS : Due(ct, j)}}
  BY <1>1 DEF SlotsToMove, Due
<1>4. k \in 0..LEVELS /\ k + 1 \in 1..(LEVELS + 1)
      /\ (k # 0 => k \in 1..LEVELS /\ k \in 1..(LEVELS + 1))
  BY <1>2, WheelAssumption DEF At
<1>5. ASSUME Same(e, ct, k + 1), k # 0 => ~Same(e, ct, k)
      PROVE  Place(e, t) \notin SlotsToMove(ct) /\ Place(e, ct) = Place(e, t)
  <2>1. At(k, e, ct)
    BY <1>4, <1>5 DEF At
  <2>2. Place(e, ct) = Place(e, t)
    BY <1>2, <2>1, PlaceAt
  <2>3. ASSUME Place(e, t) \in SlotsToMove(ct) PROVE FALSE
    <3>1. PICK i \in 1..LEVELS : SlotAt(k, e) = <<i, Digit(ct, i)>>
      BY <1>2, <1>3, <2>3
    <3>2. k # 0 /\ k \in 1..LEVELS /\ Digit(e, k) = Digit(ct, k)
      BY <1>4, <3>1, WheelAssumption DEF SlotAt
    <3>3. Same(e, ct, k)
      BY <1>1, <1>5, <3>2, SameDigit
    <3> QED
      BY <1>5, <3>2, <3>3
  <2> QED
    BY <2>2, <2>3
<1>6. CASE e < t
  <2> DEFINE n == Mask[LEVELS]
  <2>1. n \in Nat \ {0} /\ LEVELS \in 1..LEVELS /\ LEVELS \in 1..(LEVELS + 1)
        /\ Wrap >= 2 * n
    BY TopBlock, WheelAssumption
  <2>2. e + Wrap - t <= MaxDelay
    BY <1>1, <1>6 DEF Ahead
  <2>3. e \div n # t \div n
    <3> SUFFICES ASSUME e \div n = t \div n PROVE FALSE
      OBVIOUS
    <3> DEFINE q == n * (t \div n)
    <3> HIDE DEF n
    <3>0. /\ e \div n \in Nat /\ e = n * (e \div n) + (e % n) /\ e % n \in 0..(n - 1)
          /\ t \div n \in Nat /\ t = n * (t \div n) + (t % n) /\ t % n \in 0..(n - 1)
      BY <1>1, <2>1, DivMod
    <3>1. q \in Int /\ e = q + (e % n) /\ t = q + (t % n) /\ e % n \in 0..(n - 1)
          /\ t % n \in 0..(n - 1)
      BY <2>1, <3>0
    <3> HIDE DEF q
    <3>2. t - e < n
      BY <1>1, <2>1, <3>1
    <3> QED
      BY <1>1, <2>1, <2>2, <3>2, WrapType, WheelAssumption
  <2>4. k = LEVELS
    <3>1. ASSUME k # LEVELS PROVE FALSE
      <4>1. k + 1 <= LEVELS
        BY <1>4, <3>1, WheelAssumption
      <4>2. Same(e, t, LEVELS)
        BY <1>1, <1>2, <1>4, <2>1, <4>1, SameAbove DEF At
      <4> QED
        BY <2>3, <4>2 DEF Same
    <3> QED
      BY <3>1
  <2>5. e \div n < t \div n /\ t \div n <= ct \div n
    <3>1. e \div n <= t \div n /\ t \div n <= ct \div n
      BY <1>1, <1>6, <2>1, DivMonotone
    <3>2. e \div n \in Nat /\ t \div n \in Nat
      BY <1>1, <2>1, DivMod
    <3> QED
      BY <2>3, <3>1, <3>2
  <2>6. e \div n # ct \div n
    <3>1. e \div n \in Nat /\ t \div n \in Nat /\ ct \div n \in Nat
      BY <1>1, <2>1, DivMod
    <3> QED
      BY <2>5, <3>1
  <2>7. Same(e, ct, LEVELS + 1) /\ ~Same(e, ct, LEVELS)
    BY <2>6, SameAtTop DEF Same
  <2> QED
    BY <1>5, <2>4, <2>7
<1>7. CASE t < e
  <2>0. ct <= e /\ t <= ct
    BY <1>1, <1>7
  <2>1. Same(e, ct, k + 1) /\ Same(ct, t, k + 1)
    <3> DEFINE n == Mask[k + 1]
    <3>1. n \in Nat \ {0}
      BY <1>4, MaskType
    <3>2. ct \div n <= e \div n /\ t \div n <= ct \div n /\ e \div n = t \div n
      BY <1>1, <1>2, <2>0, <3>1, DivMonotone DEF At, Same
    <3>3. e \div n \in Nat /\ t \div n \in Nat /\ ct \div n \in Nat
      BY <1>1, <3>1, DivMod
    <3> QED
      BY <3>2, <3>3 DEF Same
  <2>2. CASE k # 0 /\ Same(e, ct, k)
    <3>1. ~Same(ct, t, k)
      BY <1>2, <2>2 DEF At, Same
    <3>2. ct % Mask[k] = 0
      BY <1>1, <1>4, <2>2, <3>1, NextSame
    <3>3. ct % Mask[k + 1] # 0
      BY <1>1, <1>4, <2>1, NextSame
    <3>4. Due(ct, k)
      BY <1>1, <1>4, <2>2, <3>2, <3>3, ZeroDigit DEF Due
    <3>5. \A i \in 1..LEVELS : Due(ct, i) => i = k
      BY <1>1, <1>4, <2>2, <3>4, OneDue
    <3>6. Place(e, t) = <<k, Digit(ct, k)>>
      BY <1>2, <2>2 DEF SlotAt, Digit, Same
    <3> QED
      BY <1>3, <1>4, <2>2, <3>4, <3>5, <3>6
  <2> QED
    BY <1>5, <2>1, <2>2
<1> QED
  BY <1>1, <1>6, <1>7

\* After the shift a node is where it belongs if it was before, or is in the
\* one list that is moved; and it is nearer.
LEMMA ShiftPlaces ==
  ASSUME NEW e \in Tick, NEW t \in Tick, e # t, Ahead(e, t) <= MaxDelay
  PROVE  LET ct == (t + 1) % Wrap
         IN  /\ ct \in Tick /\ Ahead(e, ct) <= MaxDelay
             /\ \/ SlotsToMove(ct) = {Place(e, t)}
                \/ /\ Place(e, t) \notin SlotsToMove(ct)
                   /\ Place(e, ct) = Place(e, t)
<1>1. e \in 0..(Wrap - 1) /\ t \in 0..(Wrap - 1) /\ Wrap \in Nat \ {0}
  BY WrapType
<1>2. CASE t + 1 = Wrap
  <2>1. (t + 1) % Wrap = 0
    <3>1. (Wrap * 1 + 0) % Wrap = 0
      BY <1>1, DivUnique
    <3> QED
      BY <1>1, <1>2, <3>1
  <2>2. 0 \in Tick /\ Ahead(e, 0) <= MaxDelay
    BY <1>1, <1>2, WrapType, WheelAssumption DEF Ahead
  <2> QED
    BY <1>2, <2>1, <2>2, MoveAtWrap
<1>3. CASE t + 1 < Wrap
  <2>1. (t + 1) % Wrap = t + 1
    <3>1. t + 1 \in 0..(Wrap - 1) /\ 0 \in Nat
      BY <1>1, <1>3
    <3>2. (Wrap * 0 + (t + 1)) % Wrap = t + 1
      BY <1>1, <3>1, DivUnique
    <3> QED
      BY <1>1, <3>1, <3>2
  <2>2. t + 1 \in Tick /\ Ahead(e, t + 1) <= MaxDelay
    BY <1>1, <1>3, WrapType, WheelAssumption DEF Ahead
  <2> QED
    BY <2>1, <2>2, MoveOnTick
<1> QED
  BY <1>1, <1>2, <1>3
-----------------------------------------------------------------------------
(* Lists.                                                                  *)

In(x, l) == \E i \in 1..Len(l) : l[i] = x

Once(l) == \A i, j \in 1..Len(l) : l[i] = l[j] => i = j

Before(x, y, l) == \E i, j \in 1..Len(l) : i < j /\ l[i] = x /\ l[j] = y

\* The nodes of list l that expire in the same tick come in the order o.
Ordered(l, ex, o) ==
  \A i, j \in 1..Len(l) : i < j /\ ex[l[i]] = ex[l[j]] => Before(l[i], l[j], o)

LEMMA EmptyList ==
  /\ << >> \in Seq(Timer) /\ Once(<< >>) /\ \A x : ~In(x, << >>)
  /\ \A ex, o : Ordered(<< >>, ex, o)
<1>1. << >> \in Seq(Timer) /\ Len(<< >>) = 0
  BY EmptySeq
<1>2. 1..0 = {}
  OBVIOUS
<1> QED
  BY <1>1, <1>2 DEF Once, In, Ordered

LEMMA Filled ==
  ASSUME NEW l \in Seq(Timer)
  PROVE  /\ \A x : In(x, l) => x \in Timer /\ l # << >>
         /\ l # << >> => Len(l) \in Nat \ {0} /\ In(Head(l), l) /\ Head(l) = l[1]
<1>1. \A x : In(x, l) => x \in Timer
  BY ElementOfSeq DEF In
<1>2. \A x : In(x, l) => l # << >>
  BY EmptyList
<1>3. ASSUME l # << >> PROVE Len(l) \in Nat \ {0} /\ In(Head(l), l) /\ Head(l) = l[1]
  <2>1. Len(l) \in Nat \ {0}
    BY <1>3, EmptySeq
  <2>2. 1 \in 1..Len(l)
    BY <2>1
  <2>3. Head(l) = l[1]
    OBVIOUS
  <2> QED
    BY <2>1, <2>2, <2>3 DEF In
<1> QED
  BY <1>1, <1>2, <1>3

LEMMA Appended ==
  ASSUME NEW l \in Seq(Timer), NEW x \in Timer
  PROVE  LET m == Append(l, x)
         IN  /\ m \in Seq(Timer) /\ m # << >>
             /\ Len(l) \in Nat /\ Len(m) = Len(l) + 1
             /\ \A i \in 1..Len(m) : \/ i \in 1..Len(l) /\ m[i] = l[i]
                                     \/ i = Len(l) + 1 /\ m[i] = x
             /\ \A i \in 1..Len(l) : i \in 1..Len(m) /\ m[i] = l[i]
             /\ Len(l) + 1 \in 1..Len(m) /\ m[Len(l) + 1] = x
             /\ \A y : In(y, m) <=> In(y, l) \/ y = x
<1> DEFINE m == Append(l, x)
<1>1. /\ m \in Seq(Timer) /\ m # << >> /\ Len(m) = Len(l) + 1
      /\ \A i \in 1..Len(l) : m[i] = l[i]
      /\ m[Len(l) + 1] = x
  BY AppendProperties
<1>2. Len(l) \in Nat
  BY LenProperties
<1> HIDE DEF m
<1>3. /\ \A i \in 1..Len(m) : i \in 1..Len(l) \/ i = Len(l) + 1
      /\ \A i \in 1..Len(l) : i \in 1..Len(m)
      /\ Len(l) + 1 \in 1..Len(m)
  BY <1>1, <1>2
<1>4. \A y : In(y, m) <=> In(y, l) \/ y = x
  BY <1>1, <1>3 DEF In
<1> QED
  BY <1>1, <1>2, <1>3, <1>4 DEF m

\* A node that comes after those of its tick goes to the end of a list.
LEMMA AddToList ==
  ASSUME NEW l \in Seq(Timer), NEW x \in Timer, NEW ex, NEW o,
         Once(l), Ordered(l, ex, o), ~In(x, l),
         \A y : In(y, l) /\ ex[y] = ex[x] => Before(y, x, o)
  PROVE  Once(Append(l, x)) /\ Ordered(Append(l, x), ex, o)
<1> DEFINE m == Append(l, x)
<1>1. /\ Len(l) \in Nat
      /\ \A i \in 1..Len(m) : \/ i \in 1..Len(l) /\ m[i] = l[i]
                              \/ i = Len(l) + 1 /\ m[i] = x
  BY Appended
<1> HIDE DEF m
<1>2. \A i \in 1..Len(l) : l[i] # x /\ In(l[i], l)
  BY DEF In
<1>3. Once(m)
  <2> SUFFICES ASSUME NEW i \in 1..Len(m), NEW j \in 1..Len(m), m[i] = m[j] PROVE i = j
    BY DEF Once
  <2> QED
    BY <1>1, <1>2 DEF Once
<1>4. Ordered(m, ex, o)
  <2> SUFFICES ASSUME NEW i \in 1..Len(m), NEW j \in 1..Len(m), i < j, ex[m[i]] = ex[m[j]]
               PROVE  Before(m[i], m[j], o)
    BY DEF Ordered
  <2>1. i \in 1..Len(l) /\ m[i] = l[i]
    <3>1. \A a \in 1..Len(l) : a < Len(l) + 1
      BY <1>1
    <3>2. ~(i = Len(l) + 1)
      <4>1. j <= Len(l) + 1
        BY <1>1, <3>1
      <4> QED
        BY <1>1, <4>1
    <3> QED
      BY <1>1, <3>2
  <2>2. CASE j \in 1..Len(l) /\ m[j] = l[j]
    BY <2>1, <2>2 DEF Ordered
  <2>3. CASE m[j] = x
    BY <1>2, <2>1, <2>3
  <2> QED
    BY <1>1, <2>2, <2>3
<1> QED
  BY <1>3, <1>4 DEF m

LEMMA AppendKeepsOrder ==
  ASSUME NEW o \in Seq(Timer), NEW x \in Timer, Once(o), ~In(x, o)
  PROVE  /\ Once(Append(o, x))
         /\ \A y : In(y, o) => Before(y, x, Append(o, x))
         /\ \A y, z : Before(y, z, o) => Before(y, z, Append(o, x))
<1> DEFINE p == Append(o, x)
<1>1. /\ Len(o) \in Nat
      /\ \A i \in 1..Len(p) : \/ i \in 1..Len(o) /\ p[i] = o[i]
                              \/ i = Len(o) + 1 /\ p[i] = x
      /\ \A i \in 1..Len(o) : i \in 1..Len(p) /\ p[i] = o[i]
      /\ Len(o) + 1 \in 1..Len(p) /\ p[Len(o) + 1] = x
  BY Appended
<1> HIDE DEF p
<1>2. \A i \in 1..Len(o) : o[i] # x /\ i < Len(o) + 1
  BY <1>1 DEF In
<1>3. Once(p)
  <2> SUFFICES ASSUME NEW i \in 1..Len(p), NEW j \in 1..Len(p), p[i] = p[j] PROVE i = j
    BY DEF Once
  <2> QED
    BY <1>1, <1>2 DEF Once
<1>4. ASSUME NEW y, In(y, o) PROVE Before(y, x, p)
  BY <1>1, <1>2, <1>4 DEF In, Before
<1>5. ASSUME NEW y, NEW z, Before(y, z, o) PROVE Before(y, z, p)
  BY <1>1, <1>5 DEF Before
<1> QED
  BY <1>3, <1>4, <1>5 DEF p

LEMMA TailOf ==
  ASSUME NEW l \in Seq(Timer), l # << >>, Once(l)
  PROVE  /\ Tail(l) \in Seq(Timer) /\ Once(Tail(l))
         /\ \A x : In(x, Tail(l)) <=> In(x, l) /\ x # Head(l)
         /\ \A i \in 1..Len(Tail(l)) : i + 1 \in 1..Len(l) /\ Tail(l)[i] = l[i + 1]
<1> DEFINE m == Tail(l)
<1>1. /\ m \in Seq(Timer) /\ Len(m) = Len(l) - 1
      /\ \A i \in 1..Len(m) : m[i] = l[i + 1]
  BY HeadTailProperties
<1>2. Len(l) \in Nat \ {0} /\ Head(l) = l[1]
  BY Filled
<1> HIDE DEF m
<1>3. /\ \A i \in 1..Len(m) : i + 1 \in 1..Len(l) /\ i + 1 # 1
      /\ \A i \in 1..Len(l) : i = 1 \/ (i - 1 \in 1..Len(m) /\ i - 1 + 1 = i)
      /\ \A i, j \in 1..Len(m) : i + 1 = j + 1 => i = j
      /\ 1 \in 1..Len(l)
  BY <1>1, <1>2
<1>4. Once(m)
  <2> SUFFICES ASSUME NEW i \in 1..Len(m), NEW j \in 1..Len(m), m[i] = m[j] PROVE i = j
    BY DEF Once
  <2>1. l[i + 1] = l[j + 1] /\ i + 1 \in 1..Len(l) /\ j + 1 \in 1..Len(l)
    BY <1>1, <1>3
  <2> QED
    BY <1>3, <2>1 DEF Once
<1>5. ASSUME NEW x PROVE In(x, m) <=> In(x, l) /\ x # Head(l)
  <2>1. ASSUME NEW i \in 1..Len(m), m[i] = x PROVE In(x, l) /\ x # Head(l)
    BY <1>1, <1>2, <1>3, <2>1 DEF In, Once
  <2>2. ASSUME NEW i \in 1..Len(l), l[i] = x, x # Head(l) PROVE In(x, m)
    <3>1. i - 1 \in 1..Len(m) /\ i - 1 + 1 = i
      BY <1>2, <1>3, <2>2
    <3>2. m[i - 1] = x
      BY <1>1, <2>2, <3>1
    <3> QED
      BY <3>1, <3>2 DEF In
  <2> QED
    BY <2>1, <2>2 DEF In
<1> QED
  BY <1>1, <1>3, <1>4, <1>5 DEF m

LEMMA TailOrdered ==
  ASSUME NEW l \in Seq(Timer), l # << >>, Once(l), NEW ex, NEW o, Ordered(l, ex, o)
  PROVE  Ordered(Tail(l), ex, o)
<1> SUFFICES ASSUME NEW i \in 1..Len(Tail(l)), NEW j \in 1..Len(Tail(l)), i < j,
                    ex[Tail(l)[i]] = ex[Tail(l)[j]]
             PROVE  Before(Tail(l)[i], Tail(l)[j], o)
  BY DEF Ordered
<1>1. /\ i + 1 \in 1..Len(l) /\ Tail(l)[i] = l[i + 1]
      /\ j + 1 \in 1..Len(l) /\ Tail(l)[j] = l[j + 1]
  BY TailOf
<1>2. i + 1 < j + 1
  <2>1. Len(Tail(l)) \in Nat
    BY TailOf, LenProperties
  <2> QED
    BY <2>1
<1> QED
  BY <1>1, <1>2 DEF Ordered

\* A node is taken out of the list.
LEMMA Removed ==
  ASSUME NEW o \in Seq(Timer), NEW k \in 1..Len(o), Once(o)
  PROVE  LET p == RemoveAt(o, k)
         IN  /\ p \in Seq(Timer) /\ Once(p)
             /\ \A x : In(x, p) <=> In(x, o) /\ x # o[k]
             /\ \A x, y : Before(x, y, o) /\ x # o[k] /\ y # o[k] => Before(x, y, p)
<1> DEFINE p == RemoveAt(o, k)
           a == SubSeq(o, 1, k - 1)
           b == SubSeq(o, k + 1, Len(o))
           at(i) == IF i < k THEN i ELSE i - 1
<1>1. Len(o) \in Nat /\ k \in Nat /\ 1 <= k /\ k <= Len(o)
  BY LenProperties
<1>2. \A i \in 1..Len(o) : o[i] \in Timer
  BY ElementOfSeq
<1>3. a \in Seq(Timer) /\ Len(a) = k - 1 /\ \A i \in 1..(k - 1) : a[i] = o[i]
  <2>1. \A i \in 1..(k - 1) : i \in 1..Len(o)
    BY <1>1
  <2>2. \A i \in 1..(k - 1) : o[i] \in Timer
    BY <1>2, <2>1
  <2>3. 1 \in Int /\ k - 1 \in Int /\ k - 1 - 1 + 1 = k - 1
    BY <1>1
  <2>4. /\ a \in Seq(Timer) /\ Len(a) = IF 1 <= k - 1 THEN k - 1 - 1 + 1 ELSE 0
        /\ \A i \in 1..(k - 1 - 1 + 1) : a[i] = o[1 + i - 1]
    BY <2>2, <2>3, SubSeqProperties
  <2>5. \A i \in 1..(k - 1) : 1 + i - 1 = i
    BY <1>1
  <2> QED
    BY <1>1, <2>3, <2>4, <2>5
<1>4. b \in Seq(Timer) /\ Len(b) = Len(o) - k /\ \A i \in 1..(Len(o) - k) : b[i] = o[k + i]
  <2>1. \A i \in (k + 1)..Len(o) : i \in 1..Len(o)
    BY <1>1
  <2>2. \A i \in (k + 1)..Len(o) : o[i] \in Timer
    BY <1>2, <2>1
  <2>3. k + 1 \in Int /\ Len(o) \in Int /\ Len(o) - (k + 1) + 1 = Len(o) - k
    BY <1>1
  <2>4. /\ b \in Seq(Timer)
        /\ Len(b) = IF k + 1 <= Len(o) THEN Len(o) - (k + 1) + 1 ELSE 0
        /\ \A i \in 1..(Len(o) - (k + 1) + 1) : b[i] = o[k + 1 + i - 1]
    BY <2>2, <2>3, SubSeqProperties
  <2>5. Len(b) = Len(o) - k
    BY <1>1, <2>4
  <2>6. ASSUME NEW i \in 1..(Len(o) - k) PROVE b[i] = o[k + i]
    <3>1. k + 1 + i - 1 = k + i /\ i \in 1..(Len(o) - (k + 1) + 1)
      BY <1>1
    <3>2. b[i] = o[k + 1 + i - 1]
      BY <2>4, <3>1
    <3> QED
      BY <3>1, <3>2
  <2> QED
    BY <2>4, <2>5, <2>6
<1>5. p = a \o b
  BY DEF RemoveAt
<1> HIDE DEF a, b, p
<1>6. /\ p \in Seq(Timer) /\ Len(p) = Len(o) - 1
      /\ \A i \in 1..(Len(o) - 1) : p[i] = IF i < k THEN o[i] ELSE o[i + 1]
  <2>1. /\ p \in Seq(Timer) /\ Len(p) = Len(a) + Len(b)
        /\ \A i \in 1..(Len(a) + Len(b)) : p[i] = IF i <= Len(a) THEN a[i] ELSE b[i - Len(a)]
    BY <1>3, <1>4, <1>5, ConcatProperties
  <2>2. Len(a) + Len(b) = Len(o) - 1
    BY <1>1, <1>3, <1>4
  <2>3. ASSUME NEW i \in 1..(Len(o) - 1) PROVE p[i] = IF i < k THEN o[i] ELSE o[i + 1]
    <3>1. CASE i < k
      <4>1. i <= Len(a) /\ i \in 1..(k - 1)
        BY <1>1, <1>3, <3>1
      <4> QED
        BY <1>3, <2>1, <2>2, <3>1, <4>1
    <3>2. CASE ~(i < k)
      <4>1. ~(i <= Len(a)) /\ i - Len(a) \in 1..(Len(o) - k) /\ k + (i - Len(a)) = i + 1
        BY <1>1, <1>3, <3>2
      <4>2. p[i] = b[i - Len(a)]
        BY <2>1, <2>2, <4>1
      <4>3. b[i - Len(a)] = o[k + (i - Len(a))]
        BY <1>4, <4>1
      <4> QED
        BY <3>2, <4>1, <4>2, <4>3
    <3> QED
      BY <3>1, <3>2
  <2> QED
    BY <2>1, <2>2, <2>3
<1>7. ASSUME NEW i \in 1..Len(o), i # k
      PROVE  at(i) \in 1..Len(p) /\ p[at(i)] = o[i]
  <2>1. at(i) \in 1..(Len(o) - 1) /\ (IF at(i) < k THEN at(i) ELSE at(i) + 1) = i
    BY <1>1, <1>7
  <2> QED
    BY <1>6, <2>1
<1>8. ASSUME NEW i \in 1..Len(p)
      PROVE  \E j \in 1..Len(o) : j # k /\ p[i] = o[j] /\ at(j) = i
  <2>1. CASE i < k
    <3>1. i \in 1..Len(o) /\ i # k /\ at(i) = i
      BY <1>1, <1>6, <2>1
    <3> QED
      BY <1>6, <2>1, <3>1
  <2>2. CASE ~(i < k)
    <3>1. i + 1 \in 1..Len(o) /\ i + 1 # k /\ at(i + 1) = i
      BY <1>1, <1>6, <2>2
    <3> QED
      BY <1>6, <2>2, <3>1
  <2> QED
    BY <2>1, <2>2
<1>9. Once(p)
  <2> SUFFICES ASSUME NEW i \in 1..Len(p), NEW j \in 1..Len(p), p[i] = p[j] PROVE i = j
    BY DEF Once
  <2> QED
    BY <1>8 DEF Once
<1>10. ASSUME NEW x PROVE In(x, p) <=> In(x, o) /\ x # o[k]
  <2>1. ASSUME In(x, p) PROVE In(x, o) /\ x # o[k]
    <3>1. PICK i \in 1..Len(p) : p[i] = x
      BY <2>1 DEF In
    <3>2. PICK j \in 1..Len(o) : j # k /\ p[i] = o[j]
      BY <1>8
    <3> QED
      BY <3>1, <3>2 DEF In, Once
  <2>2. ASSUME In(x, o), x # o[k] PROVE In(x, p)
    <3>1. PICK i \in 1..Len(o) : o[i] = x
      BY <2>2 DEF In
    <3>2. at(i) \in 1..Len(p) /\ p[at(i)] = x
      BY <1>7, <2>2, <3>1
    <3> QED
      BY <3>2 DEF In
  <2> QED
    BY <2>1, <2>2
<1>11. ASSUME NEW x, NEW y, Before(x, y, o), x # o[k], y # o[k] PROVE Before(x, y, p)
  <2>1. PICK i, j \in 1..Len(o) : i < j /\ o[i] = x /\ o[j] = y
    BY <1>11 DEF Before
  <2>2. at(i) \in 1..Len(p) /\ p[at(i)] = x /\ at(j) \in 1..Len(p) /\ p[at(j)] = y
    BY <1>7, <1>11, <2>1
  <2>3. at(i) < at(j)
    BY <1>1, <1>11, <2>1
  <2> QED
    BY <2>2, <2>3 DEF Before
<1> QED
  BY <1>6, <1>9, <1>10, <1>11 DEF p
-----------------------------------------------------------------------------
(* The invariant.                                                          *)

\* A list of the wheel: its nodes are pending, belong in it and are not far.
ListOK(l, s, t, ex, o) ==
  /\ l \in Seq(Timer) /\ Once(l) /\ Ordered(l, ex, o)
  /\ \A x \in Timer : In(x, l) =>
       In(x, o) /\ Place(ex[x], t) = s /\ Ahead(ex[x], t) <= MaxDelay

\* The list being dispatched: all its nodes expire now, and in the meantime no
\* node is set for the current tick.
FiringOK ==
  /\ Once(firing) /\ Ordered(firing, expire, order)
  /\ \A x \in Timer : In(x, firing) => In(x, order) /\ expire[x] = time
  /\ firing # << >> => wheel[NearSlot(time)] = << >> /\ ~locked

WheelInv ==
  /\ TypeOK
  /\ locked => diff > 0
  /\ Once(order)
  /\ \A s \in Slot : ListOK(wheel[s], s, time, expire, order)
  /\ FiringOK
  /\ \A x \in Timer : In(x, order) =>
       In(x, firing) \/ In(x, wheel[Place(expire[x], time)])

\* The steps of move_list, from the emptied slot on.
LEMMA MoveListSteps ==
  ASSUME NEW m, NEW now, Len(wheel[m]) \in Nat
  PROVE  LET l == wheel[m]
         IN  \E f : /\ MoveList(m, now) = f[Len(l)]
                    /\ f[0] = [wheel EXCEPT ![m] = << >>]
                    /\ \A i \in 1..Len(l) :
                         f[i] = AddNode(f[i - 1], l[i], expire[l[i]], now)
<1> DEFINE l == wheel[m]
           first == [wheel EXCEPT ![m] = << >>]
           next(i, w) == AddNode(w, l[i], expire[l[i]], now)
<1>0. Len(l) \in Nat
  OBVIOUS
<1> HIDE DEF l, first, next
<1> DEFINE F(n, f) == [i \in 0..n |-> IF i = 0 THEN first ELSE next(i, f[i - 1])]
           Bad == {n \in Nat : ~\E f : f = F(n, f)}
<1>1. Bad = {}
  <2> SUFFICES ASSUME Bad # {} PROVE FALSE
    OBVIOUS
  <2>1. PICK n \in Bad : \A k \in Bad : n <= k
    BY Least
  <2>2. ~\E f : f = F(n, f)
    OBVIOUS
  <2>3. n # 0
    <3>1. ASSUME n = 0 PROVE FALSE
      <4> DEFINE f == [i \in 0..0 |-> first]
      <4>1. \A i \in 0..n : i = 0
        BY <3>1
      <4>2. f = F(n, f)
        BY <4>1, <3>1
      <4> QED
        BY <2>2, <4>2
    <3> QED
      BY <3>1
  <2>4. PICK f : f = F(n - 1, f)
    <3>1. n - 1 \in Nat /\ ~(n <= n - 1)
      BY <2>3
    <3>2. n - 1 \notin Bad
      BY <2>1, <3>1
    <3> QED
      BY <3>1, <3>2
  <2> DEFINE g == [i \in 0..n |-> IF i = 0 THEN first ELSE next(i, f[i - 1])]
  <2>5. \A i \in 0..n : i # 0 => g[i - 1] = f[i - 1]
    <3> SUFFICES ASSUME NEW i \in 0..n, i # 0 PROVE g[i - 1] = f[i - 1]
      OBVIOUS
    <3> DEFINE j == i - 1
    <3>1. j \in 0..n /\ j \in 0..(n - 1)
      BY <2>3
    <3> HIDE DEF j
    <3>2. f[j] = IF j = 0 THEN first ELSE next(j, f[j - 1])
      BY <2>4, <3>1
    <3>3. g[j] = IF j = 0 THEN first ELSE next(j, f[j - 1])
      BY <3>1
    <3> QED
      BY <3>2, <3>3 DEF j
  <2> HIDE DEF g
  <2>6. g = F(n, g)
    <3>1. \A i \in 0..n : (IF i = 0 THEN first ELSE next(i, f[i - 1]))
                            = (IF i = 0 THEN first ELSE next(i, g[i - 1]))
      BY <2>5
    <3> QED
      BY <3>1 DEF g
  <2> QED
    BY <2>2, <2>6
<1>2. PICK f : f = F(Len(l), f)
  BY <1>0, <1>1
<1> DEFINE c == CHOOSE h : h = F(Len(l), h)
<1>3. c = F(Len(l), c)
  BY <1>2
<1>4. MoveList(m, now) = c[Len(l)]
  BY DEF MoveList, first, next, l
<1> HIDE DEF c
<1>5. c[0] = first /\ \A i \in 1..Len(l) : c[i] = next(i, c[i - 1])
  <2>1. 0 \in 0..Len(l) /\ \A i \in 1..Len(l) : i \in 0..Len(l) /\ i # 0
    BY <1>0
  <2> QED
    BY <1>3, <2>1
<1> QED
  BY <1>4, <1>5 DEF first, next, l

\* move_list leaves a wheel that is right for the new time, when the lists it
\* does not take are.
LEMMA MoveListEffect ==
  ASSUME WheelInv, NEW m \in Slot, NEW now \in Tick,
         \A x \in Timer : In(x, wheel[m]) => Ahead(expire[x], now) <= MaxDelay,
         \A s \in Slot : s # m => ListOK(wheel[s], s, now, expire, order)
  PROVE  LET w == MoveList(m, now)
         IN  /\ w \in [Slot -> Seq(Timer)]
             /\ \A s \in Slot : ListOK(w[s], s, now, expire, order)
             /\ \A x \in Timer, s \in Slot :
                  In(x, wheel[s]) /\ s # m => In(x, w[s])
             /\ \A x \in Timer : In(x, wheel[m]) => In(x, w[Place(expire[x], now)])
<1> DEFINE l == wheel[m]
<1>1. /\ wheel \in [Slot -> Seq(Timer)] /\ expire \in [Timer -> Tick]
      /\ time \in Tick /\ l \in Seq(Timer) /\ Once(l) /\ Ordered(l, expire, order)
  BY DEF WheelInv, TypeOK, ListOK
<1>2. Len(l) \in Nat /\ \A i \in 1..Len(l) : l[i] \in Timer /\ In(l[i], l)
  BY <1>1, LenProperties, ElementOfSeq DEF In
<1>3. PICK f : /\ MoveList(m, now) = f[Len(l)]
               /\ f[0] = [wheel EXCEPT ![m] = << >>]
               /\ \A i \in 1..Len(l) :
                    f[i] = AddNode(f[i - 1], l[i], expire[l[i]], now)
  BY <1>2, MoveListSteps
<1>4. \A x \in Timer : In(x, l) => /\ Place(expire[x], time) = m /\ In(x, order)
                                   /\ Ahead(expire[x], now) <= MaxDelay
  BY DEF WheelInv, ListOK
<1>5. \A x, y \in Timer, s \in Slot :
        s # m /\ In(x, l) /\ In(y, wheel[s]) => expire[x] # expire[y]
  BY <1>4 DEF WheelInv, ListOK
<1>6. \A x \in Timer : Place(expire[x], now) \in Slot
  BY <1>1, PlaceAt
<1> DEFINE Has(x, s, n) == \/ s # m /\ In(x, wheel[s])
                           \/ \E i \in 1..n : l[i] = x /\ Place(expire[x], now) = s
           Good(n) == /\ f[n] \in [Slot -> Seq(Timer)]
                      /\ \A s \in Slot : Once(f[n][s]) /\ Ordered(f[n][s], expire, order)
                      /\ \A s \in Slot, x \in Timer : In(x, f[n][s]) <=> Has(x, s, n)
<1> HIDE DEF l
<1>7. Good(0)
  <2>1. f[0] \in [Slot -> Seq(Timer)] /\ f[0][m] = << >>
        /\ \A s \in Slot : s # m => f[0][s] = wheel[s]
    BY <1>1, <1>3, EmptyList
  <2>2. ~\E i \in 1..0 : TRUE
    OBVIOUS
  <2>3. \A s \in Slot : Once(f[0][s]) /\ Ordered(f[0][s], expire, order)
    BY <2>1, EmptyList DEF WheelInv, ListOK
  <2>4. \A s \in Slot, x \in Timer : In(x, f[0][s]) <=> Has(x, s, 0)
    BY <2>1, <2>2, EmptyList
  <2> QED
    BY <2>1, <2>3, <2>4
<1>8. ASSUME NEW n \in 1..Len(l), Good(n - 1) PROVE Good(n)
  <2> DEFINE x == l[n]
             r == Place(expire[x], now)
             w == f[n - 1]
  <2>1. x \in Timer /\ In(x, l) /\ r \in Slot
    BY <1>2, <1>6
  <2>2. w \in [Slot -> Seq(Timer)] /\ w[r] \in Seq(Timer)
    BY <1>8, <2>1
  <2>3. f[n] = [w EXCEPT ![r] = Append(w[r], x)]
    BY <1>3 DEF AddNode
  <2>4. /\ \A i \in 1..(n - 1) : i \in 1..Len(l) /\ i < n
        /\ \A i \in 1..n : i \in 1..(n - 1) \/ i = n
        /\ \A i \in 1..(n - 1) : i \in 1..n
        /\ n \in 1..n
    BY <1>2
  <2> HIDE DEF x, r, w
  <2>5. ASSUME NEW y \in Timer, In(y, w[r]), expire[y] = expire[x]
        PROVE  y # x /\ Before(y, x, order)
    <3>1. Has(y, r, n - 1)
      BY <1>8, <2>1, <2>5 DEF w
    <3>2. PICK i \in 1..(n - 1) : l[i] = y
      BY <1>5, <2>1, <2>5, <3>1
    <3>3. i \in 1..Len(l) /\ i < n /\ i # n
      BY <2>4
    <3>4. Before(l[i], l[n], order)
      BY <1>1, <2>5, <3>2, <3>3 DEF x, Ordered
    <3>5. l[i] # l[n]
      BY <1>1, <3>3 DEF Once
    <3> QED
      BY <3>2, <3>4, <3>5 DEF x
  <2>6. ~In(x, w[r])
    BY <2>1, <2>5
  <2>7. /\ Append(w[r], x) \in Seq(Timer)
        /\ \A y : In(y, Append(w[r], x)) <=> In(y, w[r]) \/ y = x
    BY <2>1, <2>2, Appended
  <2>8. Once(w[r]) /\ Ordered(w[r], expire, order)
    BY <1>8, <2>1 DEF w
  <2>9. \A y : In(y, w[r]) => y \in Timer
    BY <2>2, Filled
  <2>10. Once(Append(w[r], x)) /\ Ordered(Append(w[r], x), expire, order)
    BY <2>1, <2>2, <2>5, <2>6, <2>8, <2>9, AddToList
  <2>11. f[n] \in [Slot -> Seq(Timer)] /\ f[n][r] = Append(w[r], x)
         /\ \A s \in Slot : s # r => f[n][s] = w[s]
    BY <2>1, <2>2, <2>3, <2>7
  <2>12. \A s \in Slot : Once(f[n][s]) /\ Ordered(f[n][s], expire, order)
    BY <1>8, <2>10, <2>11 DEF w
  <2>13. ASSUME NEW s \in Slot, NEW y \in Timer
         PROVE  In(y, f[n][s]) <=> Has(y, s, n)
    <3>1. Has(y, s, n) <=> Has(y, s, n - 1) \/ (y = x /\ s = r)
      BY <2>4 DEF x, r
    <3>2. In(y, w[s]) <=> Has(y, s, n - 1)
      BY <1>8 DEF w
    <3> QED
      BY <2>7, <2>11, <3>1, <3>2
  <2> QED
    BY <2>11, <2>12, <2>13
<1> HIDE DEF Good
<1>9. Good(Len(l))
  <2> DEFINE Bad == {n \in 0..Len(l) : ~Good(n)}
  <2> SUFFICES ASSUME Bad # {} PROVE FALSE
    BY <1>2
  <2>1. Bad \in SUBSET Nat
    BY <1>2
  <2>2. PICK n \in Bad : \A k \in Bad : n <= k
    BY <2>1, Least
  <2>3. n # 0
    BY <1>7
  <2>4. n \in 1..Len(l) /\ n - 1 \in 0..Len(l) /\ ~(n <= n - 1)
    BY <1>2, <2>3
  <2>5. Good(n - 1)
    BY <2>2, <2>4
  <2>6. Good(n)
    BY <1>8, <2>4, <2>5
  <2> QED
    BY <2>6
<1> DEFINE w == MoveList(m, now)
<1>10. /\ w \in [Slot -> Seq(Timer)]
       /\ \A s \in Slot : Once(w[s]) /\ Ordered(w[s], expire, order)
       /\ \A s \in Slot, x \in Timer : In(x, w[s]) <=> Has(x, s, Len(l))
  BY <1>3, <1>9 DEF Good
<1> HIDE DEF w
<1>11. \A x \in Timer : In(x, l) <=> \E i \in 1..Len(l) : l[i] = x
  BY DEF In
<1>12. ASSUME NEW s \in Slot PROVE ListOK(w[s], s, now, expire, order)
  <2>1. ASSUME NEW x \in Timer, In(x, w[s])
        PROVE  In(x, order) /\ Place(expire[x], now) = s /\ Ahead(expire[x], now) <= MaxDelay
    <3>1. CASE s # m /\ In(x, wheel[s])
      BY <3>1 DEF ListOK
    <3>2. CASE In(x, l) /\ Place(expire[x], now) = s
      BY <1>4, <3>2
    <3> QED
      BY <1>10, <1>11, <2>1, <3>1, <3>2
  <2> QED
    BY <1>10, <2>1 DEF ListOK
<1>13. \A x \in Timer, s \in Slot : In(x, wheel[s]) /\ s # m => In(x, w[s])
  BY <1>10
<1>14. \A x \in Timer : In(x, l) => In(x, w[Place(expire[x], now)])
  BY <1>6, <1>10, <1>11
<1> QED
  BY <1>10, <1>12, <1>13, <1>14 DEF w, l
-----------------------------------------------------------------------------
(* The steps, one by one.                                                  *)

LEMMA InitWheelInv == Init => WheelInv
<1> SUFFICES ASSUME Init PROVE WheelInv
  OBVIOUS
<1>1. 0 \in Tick
  BY WrapType
<1>2. TypeOK
  <2>1. << >> \in Seq(Timer) /\ 0 \in 0..MaxLag
    BY EmptyList, WheelAssumption
  <2>2. wheel \in [Slot -> Seq(Timer)] /\ expire \in [Timer -> Tick]
    BY <1>1, <2>1 DEF Init
  <2> QED
    BY <1>1, <2>1, <2>2 DEF Init, TypeOK
<1>3. \A s \in Slot : wheel[s] = << >>
  BY DEF Init
<1>4. \A s \in Slot : ListOK(wheel[s], s, time, expire, order)
  BY <1>3, EmptyList DEF ListOK
<1>5. FiringOK
  BY EmptyList DEF Init, FiringOK
<1>6. Once(order) /\ \A x : ~In(x, order)
  BY EmptyList DEF Init
<1>7. ~locked
  BY DEF Init
<1> QED
  BY <1>2, <1>4, <1>5, <1>6, <1>7 DEF WheelInv

LEMMA DelayAhead ==
  ASSUME NEW t \in Tick, NEW d \in 1..MaxDelay
  PROVE  LET e == (t + d) % Wrap
         IN  e \in Tick /\ e # t /\ Ahead(e, t) <= MaxDelay
<1>1. t \in 0..(Wrap - 1) /\ Wrap \in Nat \ {0} /\ d \in Nat /\ d # 0
      /\ d <= MaxDelay /\ d < Wrap
  BY WrapType, WheelAssumption
<1>2. CASE t + d < Wrap
  <2>1. t + d \in 0..(Wrap - 1) /\ 0 \in Nat
    BY <1>1, <1>2
  <2>2. (Wrap * 0 + (t + d)) % Wrap = t + d
    BY <1>1, <2>1, DivUnique
  <2>3. (t + d) % Wrap = t + d
    BY <1>1, <2>1, <2>2
  <2>4. Ahead(t + d, t) = d
    BY <1>1 DEF Ahead
  <2> QED
    BY <1>1, <2>1, <2>3, <2>4, WrapType
<1>3. CASE t + d >= Wrap
  <2> DEFINE e == t + d - Wrap
  <2>1. e \in 0..(Wrap - 1) /\ 1 \in Nat /\ t + d = Wrap * 1 + e /\ e < t
    BY <1>1, <1>3
  <2>2. e + Wrap - t = d
    BY <1>1
  <2> HIDE DEF e
  <2>3. (t + d) % Wrap = e
    BY <1>1, <2>1, DivUnique
  <2>4. Ahead(e, t) = d
    BY <1>1, <2>1, <2>2 DEF Ahead
  <2> QED
    BY <1>1, <2>1, <2>3, <2>4, WrapType
<1> QED
  BY <1>1, <1>2, <1>3

LEMMA PendingIn == ASSUME NEW x PROVE x \in Pending <=> In(x, order)
BY DEF Pending, In

LEMMA TimeoutStep ==
  ASSUME WheelInv, NEW x \in Timer, NEW delay \in 1..MaxDelay, Timeout(x, delay)
  PROVE  WheelInv'
<1> DEFINE e == (time + delay) % Wrap
           r == Place(e, time)
<1>1. /\ TypeOK /\ Once(order) /\ FiringOK
      /\ \A s \in Slot : ListOK(wheel[s], s, time, expire, order)
      /\ \A y \in Timer : In(y, order) =>
           In(y, firing) \/ In(y, wheel[Place(expire[y], time)])
  BY DEF WheelInv
<1>2. /\ time \in Tick /\ wheel \in [Slot -> Seq(Timer)] /\ expire \in [Timer -> Tick]
      /\ order \in Seq(Timer) /\ firing \in Seq(Timer)
  BY <1>1 DEF TypeOK
<1>3. e \in Tick /\ e # time /\ Ahead(e, time) <= MaxDelay
  BY <1>2, DelayAhead
<1> HIDE DEF e
<1>4. /\ ~locked /\ ~In(x, order)
      /\ expire' = [expire EXCEPT ![x] = e]
      /\ wheel' = [wheel EXCEPT ![r] = Append(wheel[r], x)]
      /\ order' = Append(order, x)
      /\ UNCHANGED <<time, firing, diff, locked, phase>>
  <2>1. /\ ~locked /\ x \notin Pending
        /\ expire' = [expire EXCEPT ![x] = e]
        /\ wheel' = AddNode(wheel, x, expire'[x], time)
        /\ order' = Append(order, x)
        /\ UNCHANGED <<time, firing, diff, locked, phase>>
    BY DEF Timeout, e
  <2>2. expire'[x] = e
    BY <1>2, <2>1
  <2> QED
    BY <2>1, <2>2, PendingIn DEF AddNode
<1>5. r \in Slot /\ r # NearSlot(time)
  BY <1>2, <1>3, PlaceAt, NearIsNow
<1> HIDE DEF r
<1>6. /\ order' \in Seq(Timer)
      /\ \A y : In(y, order') <=> In(y, order) \/ y = x
  BY <1>2, <1>4, Appended
<1>7. /\ Once(order')
      /\ \A y : In(y, order) => Before(y, x, order')
      /\ \A y, z : Before(y, z, order) => Before(y, z, order')
  BY <1>1, <1>2, <1>4, AppendKeepsOrder
<1>8. /\ expire'[x] = e
      /\ \A y \in Timer : y # x => expire'[y] = expire[y]
      /\ expire' \in [Timer -> Tick]
  BY <1>2, <1>3, <1>4
<1>9. ASSUME NEW l \in Seq(Timer), Ordered(l, expire, order),
             \A y \in Timer : In(y, l) => In(y, order)
      PROVE  Ordered(l, expire', order')
  <2>1. \A i \in 1..Len(l) : l[i] \in Timer /\ In(l[i], l)
    BY ElementOfSeq DEF In
  <2>2. \A i \in 1..Len(l) : expire'[l[i]] = expire[l[i]]
    BY <1>4, <1>8, <1>9, <2>1
  <2> QED
    BY <1>7, <1>9, <2>2 DEF Ordered
<1>10. ASSUME NEW s \in Slot
       PROVE  ListOK(wheel[s], s, time, expire', order')
  <2>1. /\ wheel[s] \in Seq(Timer) /\ Once(wheel[s]) /\ Ordered(wheel[s], expire, order)
        /\ \A y \in Timer : In(y, wheel[s]) =>
             In(y, order) /\ Place(expire[y], time) = s /\ Ahead(expire[y], time) <= MaxDelay
    BY <1>1 DEF ListOK
  <2>2. Ordered(wheel[s], expire', order')
    BY <1>9, <2>1
  <2>3. \A y \in Timer : In(y, wheel[s]) => y # x /\ In(y, order')
    BY <1>4, <1>6, <2>1
  <2> QED
    BY <1>8, <2>1, <2>2, <2>3 DEF ListOK
<1>11. ListOK(Append(wheel[r], x), r, time, expire', order')
  <2>1. /\ wheel[r] \in Seq(Timer) /\ Once(wheel[r]) /\ Ordered(wheel[r], expire', order')
        /\ \A y \in Timer : In(y, wheel[r]) =>
             In(y, order') /\ Place(expire'[y], time) = r /\ Ahead(expire'[y], time) <= MaxDelay
    BY <1>5, <1>10 DEF ListOK
  <2>2. \A y : In(y, wheel[r]) => y \in Timer /\ In(y, order)
    <3>1. \A y : In(y, wheel[r]) => y \in Timer
      BY <2>1, Filled
    <3> QED
      BY <1>1, <1>5, <3>1 DEF ListOK
  <2>3. ~In(x, wheel[r]) /\ \A y : In(y, wheel[r]) => Before(y, x, order')
    BY <1>4, <1>7, <2>2
  <2>4. Once(Append(wheel[r], x)) /\ Ordered(Append(wheel[r], x), expire', order')
    BY <2>1, <2>3, AddToList
  <2>5. /\ Append(wheel[r], x) \in Seq(Timer)
        /\ \A y : In(y, Append(wheel[r], x)) <=> In(y, wheel[r]) \/ y = x
    BY <2>1, Appended
  <2>6. In(x, order') /\ Place(expire'[x], time) = r /\ Ahead(expire'[x], time) <= MaxDelay
    BY <1>3, <1>6, <1>8 DEF r
  <2> QED
    BY <2>1, <2>4, <2>5, <2>6 DEF ListOK
<1>12. /\ wheel' \in [Slot -> Seq(Timer)]
       /\ wheel'[r] = Append(wheel[r], x)
       /\ \A s \in Slot : s # r => wheel'[s] = wheel[s]
       /\ \A y : In(y, wheel'[r]) <=> In(y, wheel[r]) \/ y = x
  <2>1. wheel[r] \in Seq(Timer)
    BY <1>2, <1>5
  <2>2. /\ Append(wheel[r], x) \in Seq(Timer)
        /\ \A y : In(y, Append(wheel[r], x)) <=> In(y, wheel[r]) \/ y = x
    BY <2>1, Appended
  <2> QED
    BY <1>2, <1>4, <1>5, <2>2
<1>13. TypeOK'
  BY <1>1, <1>4, <1>6, <1>8, <1>12 DEF TypeOK
<1>14. \A s \in Slot : ListOK(wheel'[s], s, time', expire', order')
  BY <1>4, <1>10, <1>11, <1>12
<1>15. FiringOK'
  <2>1. \A y \in Timer : In(y, firing) => In(y, order) /\ y # x /\ expire[y] = time
    BY <1>1, <1>4 DEF FiringOK
  <2>2. Ordered(firing, expire', order')
    BY <1>1, <1>2, <1>9, <2>1 DEF FiringOK
  <2>3. \A y \in Timer : In(y, firing) => In(y, order') /\ expire'[y] = time
    BY <1>6, <1>8, <2>1
  <2>4. wheel'[NearSlot(time)] = wheel[NearSlot(time)]
    BY <1>2, <1>5, <1>12, NearIsNow
  <2> QED
    BY <1>1, <1>4, <2>2, <2>3, <2>4 DEF FiringOK, NearSlot
<1>16. ASSUME NEW y \in Timer, In(y, order')
       PROVE  In(y, firing') \/ In(y, wheel'[Place(expire'[y], time')])
  <2>1. CASE y = x
    BY <1>3, <1>4, <1>8, <1>12, <2>1 DEF r
  <2>2. CASE y # x /\ In(y, firing)
    BY <1>4, <2>2
  <2>3. CASE y # x /\ In(y, wheel[Place(expire[y], time)])
    <3>1. Place(expire[y], time) \in Slot /\ expire'[y] = expire[y]
      BY <1>2, <1>8, <2>3, PlaceAt
    <3> QED
      BY <1>4, <1>12, <2>3, <3>1
  <2> QED
    BY <1>1, <1>6, <1>16, <2>1, <2>2, <2>3
<1> QED
  BY <1>4, <1>7, <1>13, <1>14, <1>15, <1>16 DEF WheelInv
\* The timer thread takes the list of the tick.
LEMMA ExecuteStep ==
  ASSUME WheelInv, Execute
  PROVE  WheelInv'
<1> DEFINE r == NearSlot(time)
<1>1. /\ TypeOK /\ Once(order) /\ FiringOK /\ (locked => diff > 0)
      /\ \A s \in Slot : ListOK(wheel[s], s, time, expire, order)
      /\ \A y \in Timer : In(y, order) =>
           In(y, firing) \/ In(y, wheel[Place(expire[y], time)])
  BY DEF WheelInv
<1>2. /\ time \in Tick /\ wheel \in [Slot -> Seq(Timer)] /\ expire \in [Timer -> Tick]
  BY <1>1 DEF TypeOK
<1>3. /\ locked /\ firing' = wheel[r] /\ wheel' = [wheel EXCEPT ![r] = << >>]
      /\ locked' = FALSE
      /\ UNCHANGED <<time, expire, order, diff, phase>>
  BY DEF Execute
<1>4. r \in Slot /\ \A y \in Timer : Place(expire[y], time) = r <=> expire[y] = time
  BY <1>2, NearIsNow
<1> HIDE DEF r
<1>5. /\ wheel' \in [Slot -> Seq(Timer)] /\ wheel'[r] = << >>
      /\ \A s \in Slot : s # r => wheel'[s] = wheel[s]
      /\ firing' \in Seq(Timer)
  BY <1>2, <1>3, <1>4, EmptyList
<1>6. TypeOK'
  BY <1>1, <1>3, <1>5 DEF TypeOK
<1>7. ListOK(wheel[r], r, time, expire, order)
  BY <1>1, <1>4
<1>8. ASSUME NEW s \in Slot PROVE ListOK(wheel'[s], s, time', expire', order')
  <2>1. ListOK(<< >>, r, time, expire, order)
    BY EmptyList DEF ListOK
  <2> QED
    BY <1>1, <1>3, <1>5, <2>1
<1>9. FiringOK'
  <2>1. Once(wheel[r]) /\ Ordered(wheel[r], expire, order)
        /\ \A y \in Timer : In(y, wheel[r]) => In(y, order) /\ expire[y] = time
    BY <1>4, <1>7 DEF ListOK
  <2>2. wheel'[NearSlot(time')] = << >> /\ ~locked'
    BY <1>3, <1>5 DEF r
  <2> QED
    BY <1>3, <2>1, <2>2 DEF FiringOK
<1>10. ASSUME NEW y \in Timer, In(y, order')
       PROVE  In(y, firing') \/ In(y, wheel'[Place(expire'[y], time')])
  <2>1. ~In(y, firing)
    <3>1. firing = << >>
      BY <1>1, <1>3 DEF FiringOK
    <3> QED
      BY <3>1, EmptyList
  <2>2. In(y, wheel[Place(expire[y], time)]) /\ Place(expire[y], time) \in Slot
    BY <1>1, <1>2, <1>3, <1>10, <2>1, PlaceAt
  <2> QED
    BY <1>3, <1>5, <2>2
<1> QED
  BY <1>1, <1>3, <1>6, <1>8, <1>9, <1>10 DEF WheelInv

\* A node that fires is in no list of the wheel.
LEMMA FiredIsOut ==
  ASSUME WheelInv, NEW x \in Timer, In(x, firing), NEW s \in Slot
  PROVE  ~In(x, wheel[s])
<1>1. time \in Tick /\ expire[x] \in Tick
  BY DEF WheelInv, TypeOK
<1>2. firing # << >> /\ expire[x] = time
  BY EmptyList DEF WheelInv, FiringOK
<1>3. wheel[NearSlot(time)] = << >>
  BY <1>2 DEF WheelInv, FiringOK
<1>4. In(x, wheel[s]) => s = NearSlot(time)
  BY <1>1, <1>2, NearIsNow DEF WheelInv, ListOK
<1> QED
  BY <1>3, <1>4, EmptyList

LEMMA DispatchStep ==
  ASSUME WheelInv, DispatchOne
  PROVE  /\ WheelInv'
         /\ \A y \in Timer : In(y, order') <=> In(y, order) /\ y # Head(firing)
<1> DEFINE x == Head(firing)
           k == CHOOSE i \in DOMAIN order : order[i] = x
<1>1. /\ TypeOK /\ Once(order) /\ FiringOK /\ (locked => diff > 0)
      /\ \A s \in Slot : ListOK(wheel[s], s, time, expire, order)
      /\ \A y \in Timer : In(y, order) =>
           In(y, firing) \/ In(y, wheel[Place(expire[y], time)])
  BY DEF WheelInv
<1>2. /\ time \in Tick /\ wheel \in [Slot -> Seq(Timer)] /\ expire \in [Timer -> Tick]
      /\ order \in Seq(Timer) /\ firing \in Seq(Timer)
  BY <1>1 DEF TypeOK
<1>3. /\ firing # << >> /\ firing' = Tail(firing)
      /\ order' = RemoveAt(order, k) /\ expire' = [expire EXCEPT ![x] = 0]
      /\ UNCHANGED <<time, wheel, diff, locked, phase>>
  BY DEF DispatchOne
<1>4. In(x, firing) /\ x \in Timer
  BY <1>2, <1>3, Filled
<1>5. In(x, order)
  BY <1>1, <1>4 DEF FiringOK
<1>6. k \in 1..Len(order) /\ order[k] = x
  <2>1. DOMAIN order = 1..Len(order)
    BY <1>2, LenProperties
  <2> QED
    BY <1>5, <2>1 DEF In
<1> HIDE DEF x, k
<1>7. /\ order' \in Seq(Timer) /\ Once(order')
      /\ \A y : In(y, order') <=> In(y, order) /\ y # x
      /\ \A y, z : Before(y, z, order) /\ y # x /\ z # x => Before(y, z, order')
  BY <1>1, <1>2, <1>3, <1>6, Removed
<1>8. \A y \in Timer : y # x => expire'[y] = expire[y]
  BY <1>2, <1>3
<1>9. ASSUME NEW l \in Seq(Timer), Ordered(l, expire, order), ~In(x, l)
      PROVE  Ordered(l, expire', order')
  <2>1. \A i \in 1..Len(l) : l[i] \in Timer /\ l[i] # x
    BY <1>9, ElementOfSeq DEF In
  <2> QED
    BY <1>7, <1>8, <1>9, <2>1 DEF Ordered
<1>10. ASSUME NEW s \in Slot PROVE ListOK(wheel'[s], s, time', expire', order')
  <2>1. ~In(x, wheel[s])
    BY <1>4, FiredIsOut
  <2>2. ListOK(wheel[s], s, time, expire, order)
    BY <1>1
  <2>3. Ordered(wheel[s], expire', order')
    BY <1>9, <2>1, <2>2 DEF ListOK
  <2>4. \A y \in Timer : In(y, wheel[s]) => In(y, order') /\ expire'[y] = expire[y]
    BY <1>7, <1>8, <2>1, <2>2 DEF ListOK
  <2> QED
    BY <1>3, <2>2, <2>3, <2>4 DEF ListOK
<1>11. /\ firing' \in Seq(Timer) /\ Once(firing')
       /\ \A y : In(y, firing') <=> In(y, firing) /\ y # x
       /\ Ordered(firing', expire, order)
  <2>1. Once(firing) /\ Ordered(firing, expire, order)
    BY <1>1 DEF FiringOK
  <2> QED
    BY <1>2, <1>3, <2>1, TailOf, TailOrdered DEF x
<1>12. TypeOK'
  <2>1. 0 \in Tick
    BY WrapType
  <2>2. expire' \in [Timer -> Tick]
    BY <1>2, <1>3, <2>1
  <2> QED
    BY <1>1, <1>3, <1>7, <1>11, <2>2 DEF TypeOK
<1>13. FiringOK'
  <2>1. Ordered(firing', expire', order')
    BY <1>9, <1>11
  <2>2. \A y \in Timer : In(y, firing') => In(y, order') /\ expire'[y] = time
    BY <1>1, <1>7, <1>8, <1>11 DEF FiringOK
  <2>3. wheel[NearSlot(time)] = << >> /\ ~locked
    BY <1>1, <1>3 DEF FiringOK
  <2> QED
    BY <1>3, <1>11, <2>1, <2>2, <2>3 DEF FiringOK, NearSlot
<1>14. ASSUME NEW y \in Timer, In(y, order')
       PROVE  In(y, firing') \/ In(y, wheel'[Place(expire'[y], time')])
  <2>1. In(y, order) /\ y # x
    BY <1>7, <1>14
  <2> QED
    BY <1>1, <1>3, <1>8, <1>11, <2>1
<1>15. WheelInv'
  BY <1>1, <1>3, <1>7, <1>10, <1>12, <1>13, <1>14 DEF WheelInv
<1> QED
  BY <1>7, <1>15 DEF x

LEMMA ToMoveAreSlots ==
  ASSUME NEW ct \in Tick
  PROVE  SlotsToMove(ct) \subseteq Slot
<1>1. ct \in Nat
  BY SameAtTop
<1>2. \A k \in 1..LEVELS : <<k, Digit(ct, k)>> \in Slot
  BY <1>1, DigitOf DEF Slot
<1>3. <<LEVELS, 0>> \in Slot
  BY WheelAssumption DEF Slot
<1> QED
  BY <1>2, <1>3 DEF SlotsToMove

\* What timer_shift leaves.
LEMMA ShiftedWheel ==
  ASSUME WheelInv, NEW ct, ct = (time + 1) % Wrap, wheel[NearSlot(time)] = << >>
  PROVE  LET w == Shifted(ct)
         IN  /\ ct \in Tick /\ w \in [Slot -> Seq(Timer)]
             /\ \A s \in Slot : ListOK(w[s], s, ct, expire, order)
             /\ \A x \in Timer : In(x, wheel[Place(expire[x], time)])
                                   => In(x, w[Place(expire[x], ct)])
<1>1. /\ \A s \in Slot : ListOK(wheel[s], s, time, expire, order)
      /\ time \in Tick /\ wheel \in [Slot -> Seq(Timer)] /\ expire \in [Timer -> Tick]
  BY DEF WheelInv, TypeOK
<1>2. ct \in Tick
  <2>1. Wrap \in Nat \ {0} /\ time + 1 \in Nat
    BY <1>1, WrapType
  <2> QED
    BY <2>1, DivMod, WrapType
<1>3. ASSUME NEW s \in Slot, NEW x \in Timer, In(x, wheel[s])
      PROVE  /\ Place(expire[x], time) = s /\ Ahead(expire[x], ct) <= MaxDelay
             /\ SlotsToMove(ct) = {s} \/ (s \notin SlotsToMove(ct) /\ Place(expire[x], ct) = s)
  <2>1. Place(expire[x], time) = s /\ Ahead(expire[x], time) <= MaxDelay
    BY <1>1, <1>3 DEF ListOK
  <2>2. expire[x] # time
    BY <1>1, <1>3, <2>1, NearIsNow, EmptyList
  <2> QED
    BY <1>1, <2>1, <2>2, ShiftPlaces
<1>4. ASSUME NEW s \in Slot, SlotsToMove(ct) # {s}
      PROVE  ListOK(wheel[s], s, ct, expire, order)
  <2>1. \A x \in Timer : In(x, wheel[s]) =>
          In(x, order) /\ Place(expire[x], ct) = s /\ Ahead(expire[x], ct) <= MaxDelay
    BY <1>1, <1>3, <1>4 DEF ListOK
  <2> QED
    BY <1>1, <2>1 DEF ListOK
<1>5. \A x \in Timer : Place(expire[x], time) \in Slot
  BY <1>1, PlaceAt
<1>6. CASE SlotsToMove(ct) = {}
  <2>1. Shifted(ct) = wheel
    BY <1>6 DEF Shifted
  <2>2. \A x \in Timer : In(x, wheel[Place(expire[x], time)])
                           => Place(expire[x], ct) = Place(expire[x], time)
    BY <1>3, <1>5, <1>6
  <2> QED
    BY <1>1, <1>2, <1>4, <1>6, <2>1, <2>2
<1>7. CASE SlotsToMove(ct) # {}
  <2> DEFINE m == CHOOSE s \in SlotsToMove(ct) : TRUE
  <2>1. m \in SlotsToMove(ct) /\ m \in Slot
    BY <1>2, <1>7, ToMoveAreSlots
  <2>2. Shifted(ct) = MoveList(m, ct)
    BY <1>7 DEF Shifted
  <2> HIDE DEF m
  <2>3. \A s \in Slot : s # m => ListOK(wheel[s], s, ct, expire, order)
    BY <1>4, <2>1
  <2>4. \A x \in Timer : In(x, wheel[m]) => Ahead(expire[x], ct) <= MaxDelay
    BY <1>3, <2>1
  <2> DEFINE w == MoveList(m, ct)
  <2>5. /\ w \in [Slot -> Seq(Timer)]
        /\ \A s \in Slot : ListOK(w[s], s, ct, expire, order)
        /\ \A x \in Timer, s \in Slot : In(x, wheel[s]) /\ s # m => In(x, w[s])
        /\ \A x \in Timer : In(x, wheel[m]) => In(x, w[Place(expire[x], ct)])
    BY <1>2, <2>1, <2>3, <2>4, MoveListEffect
  <2> HIDE DEF w
  <2>6. ASSUME NEW x \in Timer, In(x, wheel[Place(expire[x], time)])
        PROVE  In(x, w[Place(expire[x], ct)])
    <3>1. CASE Place(expire[x], time) = m
      BY <2>5, <2>6, <3>1
    <3>2. CASE Place(expire[x], time) # m
      <4>1. Place(expire[x], ct) = Place(expire[x], time)
        BY <1>3, <1>5, <2>1, <2>6, <3>2
      <4> QED
        BY <1>5, <2>5, <2>6, <3>2, <4>1
    <3> QED
      BY <3>1, <3>2
  <2> QED
    BY <1>2, <2>2, <2>5, <2>6 DEF w
<1> QED
  BY <1>6, <1>7

LEMMA ShiftStep ==
  ASSUME WheelInv, Shift
  PROVE  WheelInv'
<1> DEFINE ct == (time + 1) % Wrap
           w == Shifted(ct)
<1>1. /\ TypeOK /\ Once(order) /\ FiringOK /\ (locked => diff > 0)
      /\ \A y \in Timer : In(y, order) =>
           In(y, firing) \/ In(y, wheel[Place(expire[y], time)])
  BY DEF WheelInv
<1>2. /\ locked /\ wheel[NearSlot(time)] = << >> /\ time' = ct /\ wheel' = w
      /\ phase' = "after"
      /\ UNCHANGED <<expire, order, firing, diff, locked>>
  BY DEF Shift
<1> HIDE DEF ct
<1>3. /\ ct \in Tick /\ w \in [Slot -> Seq(Timer)]
      /\ \A s \in Slot : ListOK(w[s], s, ct, expire, order)
      /\ \A x \in Timer : In(x, wheel[Place(expire[x], time)])
                            => In(x, w[Place(expire[x], ct)])
  BY <1>2, ShiftedWheel DEF ct
<1> HIDE DEF w
<1>4. firing = << >>
  BY <1>1, <1>2 DEF FiringOK
<1>5. TypeOK'
  BY <1>1, <1>2, <1>3 DEF TypeOK
<1>6. FiringOK'
  BY <1>2, <1>4, EmptyList DEF FiringOK
<1>7. \A y \in Timer : In(y, order) => In(y, wheel'[Place(expire[y], time')])
  BY <1>1, <1>2, <1>3, <1>4, EmptyList
<1> QED
  BY <1>1, <1>2, <1>3, <1>5, <1>6, <1>7 DEF WheelInv

\* The other steps leave time, wheel and lists as they are.
LEMMA RestStep ==
  ASSUME WheelInv, UNCHANGED <<time, wheel, expire, order, firing>>, TypeOK',
         locked' => diff' > 0 /\ firing = << >>
  PROVE  WheelInv'
<1>1. FiringOK'
  BY DEF WheelInv, FiringOK, NearSlot
<1> QED
  BY <1>1 DEF WheelInv

LEMMA WheelStep == WheelInv /\ [Next]_vars => WheelInv'
<1> SUFFICES ASSUME WheelInv, [Next]_vars PROVE WheelInv'
  OBVIOUS
<1>0. TypeOK /\ (locked => diff > 0) /\ (firing # << >> => ~locked) /\ MaxLag \in Nat
      /\ diff \in 0..MaxLag
  BY WheelAssumption DEF WheelInv, FiringOK, TypeOK
<1>1. ASSUME NEW x \in Timer, NEW delay \in 1..MaxDelay, Timeout(x, delay) PROVE WheelInv'
  BY <1>1, TimeoutStep
<1>2. ASSUME NEW d \in 1..MaxLag, UpdateTime(d) PROVE WheelInv'
  <2>1. diff = 0 /\ diff' = d /\ d > 0 /\ d \in 0..MaxLag
        /\ UNCHANGED <<time, wheel, expire, order, firing, locked, phase>>
    BY <1>0, <1>2 DEF UpdateTime
  <2>2. TypeOK'
    BY <1>0, <2>1 DEF TypeOK
  <2>3. ~locked'
    BY <1>0, <2>1
  <2> QED
    BY <2>1, <2>2, <2>3, RestStep
<1>3. CASE Lock
  <2>1. /\ diff > 0 /\ firing = << >> /\ locked' = TRUE /\ phase' \in {"before", "after", "out"}
        /\ UNCHANGED <<time, wheel, expire, order, firing, diff>>
    BY <1>0, <1>3 DEF Lock, TypeOK
  <2>2. TypeOK'
    BY <1>0, <2>1 DEF TypeOK
  <2> QED
    BY <2>1, <2>2, RestStep
<1>4. CASE Execute
  BY <1>4, ExecuteStep
<1>5. CASE DispatchOne
  BY <1>5, DispatchStep
<1>6. CASE Shift
  BY <1>6, ShiftStep
<1>7. CASE Unlock
  <2>1. /\ locked /\ locked' = FALSE /\ phase' = "out" /\ diff' = diff - 1
        /\ UNCHANGED <<time, wheel, expire, order, firing>>
    BY <1>7 DEF Unlock
  <2>2. diff' \in 0..MaxLag
    BY <1>0, <2>1
  <2>3. TypeOK'
    BY <1>0, <2>1, <2>2 DEF TypeOK
  <2> QED
    BY <2>1, <2>3, RestStep
<1>8. CASE UNCHANGED vars
  <2>1. UNCHANGED <<time, wheel, expire, order, firing, diff, locked, phase>>
    BY <1>8 DEF vars
  <2>2. TypeOK'
    BY <1>0, <2>1 DEF TypeOK
  <2> QED
    BY <1>0, <2>1, <2>2, RestStep
<1> QED
  BY <1>1, <1>2, <1>3, <1>4, <1>5, <1>6, <1>7, <1>8 DEF Next, TimerThread

LEMMA WheelInvariant == Spec => []WheelInv
BY InitWheelInv, WheelStep, PTL DEF Spec

-----------------------------------------------------------------------------
(* The theorems.                                                           *)

\* The time, the lists of the wheel and the expiries keep their types; the
\* counters of skynet_updatetime stay within their bounds.
THEOREM WheelTypes == Spec => []TypeOK
<1>1. WheelInv => TypeOK
  BY DEF WheelInv
<1> QED
  BY <1>1, WheelInvariant, PTL

LEMMA OccurrencesAre ==
  ASSUME NEW x, NEW p
  PROVE  p \in Occurrences(x) <=>
           \E s \in Slot : \E i \in 1..Len(wheel[s]) : wheel[s][i] = x /\ p = <<s, i>>
BY DEF Occurrences

LEMMA RightOnce ==
  ASSUME WheelInv, NEW x \in Timer, In(x, order)
  PROVE  Cardinality(Occurrences(x))
           + Cardinality({i \in 1..Len(firing) : firing[i] = x}) = 1
<1> DEFINE F == {i \in 1..Len(firing) : firing[i] = x}
<1>0. Cardinality({}) = 0 /\ \A y : Cardinality({y}) = 1
  BY FS_EmptySet, FS_Singleton
<1>1. CASE In(x, firing)
  <2>1. PICK i \in 1..Len(firing) : firing[i] = x
    BY <1>1 DEF In
  <2>2. F = {i}
    BY <2>1 DEF WheelInv, FiringOK, Once
  <2>3. Occurrences(x) = {}
    <3>1. \A p : p \notin Occurrences(x)
      BY <1>1, FiredIsOut, OccurrencesAre DEF In
    <3> QED
      BY <3>1
  <2>4. Cardinality(F) = 1 /\ Cardinality(Occurrences(x)) = 0
    BY <1>0, <2>2, <2>3
  <2> QED
    BY <2>4
<1>2. CASE ~In(x, firing)
  <2>1. F = {}
    BY <1>2 DEF In
  <2> DEFINE s == Place(expire[x], time)
  <2>2. In(x, wheel[s]) /\ s \in Slot
    BY <1>2, PlaceAt DEF WheelInv, TypeOK
  <2>3. \A r \in Slot : In(x, wheel[r]) => r = s
    BY DEF WheelInv, ListOK
  <2>4. Once(wheel[s])
    BY <2>2 DEF WheelInv, ListOK
  <2> HIDE DEF s
  <2>5. PICK i \in 1..Len(wheel[s]) : wheel[s][i] = x
    BY <2>2 DEF In
  <2>6. \A p : p \in Occurrences(x) <=> p = <<s, i>>
    <3>1. ASSUME NEW r \in Slot, NEW j \in 1..Len(wheel[r]), wheel[r][j] = x
          PROVE  r = s /\ j = i
      <4>1. r = s
        BY <2>3, <3>1 DEF In
      <4> QED
        BY <2>4, <2>5, <3>1, <4>1 DEF Once
    <3> QED
      BY <2>2, <2>5, <3>1, OccurrencesAre
  <2>7. Occurrences(x) = {<<s, i>>}
    BY <2>6
  <2>8. Cardinality(F) = 0 /\ Cardinality(Occurrences(x)) = 1
    BY <1>0, <2>1, <2>7
  <2> QED
    BY <2>8
<1> QED
  BY <1>1, <1>2

LEMMA InvPlacedRight == WheelInv => PlacedRight
<1> SUFFICES ASSUME WheelInv PROVE PlacedRight
  OBVIOUS
<1>1. wheel \in [Slot -> Seq(Timer)] /\ firing \in Seq(Timer) /\ order \in Seq(Timer)
  BY DEF WheelInv, TypeOK
<1>2. ASSUME NEW s \in Slot, NEW i \in 1..Len(wheel[s])
      PROVE  wheel[s][i] \in Pending /\ s = Place(expire[wheel[s][i]], time)
  <2>1. wheel[s][i] \in Timer /\ In(wheel[s][i], wheel[s])
    BY <1>1, ElementOfSeq DEF In
  <2> QED
    BY <2>1, PendingIn DEF WheelInv, ListOK
<1>3. ASSUME NEW i \in 1..Len(firing) PROVE firing[i] \in Pending
  <2>1. firing[i] \in Timer /\ In(firing[i], firing)
    BY <1>1, ElementOfSeq DEF In
  <2> QED
    BY <2>1, PendingIn DEF WheelInv, FiringOK
<1>4. ASSUME NEW x \in Pending PROVE x \in Timer /\ In(x, order)
  BY <1>1, PendingIn, Filled
<1> QED
  BY <1>2, <1>3, <1>4, RightOnce DEF PlacedRight

\* However far ahead it was set, over however many levels it has moved down and
\* however often the counter has wrapped, a pending node is in one list, once:
\* in the slot add_node would choose for it now, or in the list being dispatched.
THEOREM NodesArePlaced == Spec => []PlacedRight
BY InvPlacedRight, WheelInvariant, PTL

LEMMA Leaving ==
  ASSUME WheelInv, [Next]_vars, NEW x \in Timer, In(x, order), ~In(x, order')
  PROVE  firing # << >> /\ x = Head(firing) /\ In(x, firing) /\ expire[x] = time
<1>1. ASSUME NEW y \in Timer, NEW delay \in 1..MaxDelay, Timeout(y, delay) PROVE FALSE
  <2>1. order' = Append(order, y) /\ order \in Seq(Timer)
    BY <1>1 DEF Timeout, WheelInv, TypeOK
  <2> QED
    BY <2>1, Appended
<1>2. CASE DispatchOne
  <2>1. firing # << >> /\ x = Head(firing)
    BY <1>2, DispatchStep DEF DispatchOne
  <2>2. In(x, firing)
    BY <2>1, Filled DEF WheelInv, TypeOK
  <2> QED
    BY <2>1, <2>2 DEF WheelInv, FiringOK
<1>3. CASE order' = order
  BY <1>3
<1> QED
  BY <1>1, <1>2, <1>3
  DEF Next, TimerThread, UpdateTime, Lock, Execute, Shift, Unlock, vars

\* The message of a timer is sent in the tick it was set for.
THEOREM TimersAreOnTime == Spec => OnTime
<1>1. WheelInv /\ [Next]_vars
        => [\A x \in Pending : x \notin Pending' => time = expire[x]]_vars
  <2> SUFFICES ASSUME WheelInv, [Next]_vars, NEW x \in Pending, x \notin Pending'
               PROVE  time = expire[x]
    OBVIOUS
  <2>1. In(x, order) /\ x \in Timer
    BY PendingIn, Filled DEF WheelInv, TypeOK
  <2>2. ~In(x, order')
    BY DEF Pending, In
  <2> QED
    BY <2>1, <2>2, Leaving
<1> QED
  BY <1>1, WheelInvariant, PTL DEF Spec, OnTime

\* Of two timers that expire in the same tick the one that was set first fires
\* first.
THEOREM TimersKeepOrder == Spec => SameTickInOrder
<1>1. WheelInv /\ [Next]_vars
        => [\A j \in 1..Len(order) :
              order[j] \notin Pending' =>
                \A i \in 1..(j - 1) : expire[order[i]] # expire[order[j]]]_vars
  <2> SUFFICES ASSUME WheelInv, [Next]_vars, NEW j \in 1..Len(order),
                      order[j] \notin Pending', NEW i \in 1..(j - 1),
                      expire[order[i]] = expire[order[j]]
               PROVE  FALSE
    OBVIOUS
  <2> DEFINE x == order[j]
             y == order[i]
  <2>1. /\ order \in Seq(Timer) /\ Once(order) /\ firing \in Seq(Timer)
        /\ FiringOK /\ time \in Tick
    BY DEF WheelInv, TypeOK
  <2>2. i \in 1..Len(order) /\ i < j
    BY <2>1, LenProperties
  <2>3. x \in Timer /\ y \in Timer /\ In(x, order) /\ In(y, order) /\ x # y
    BY <2>1, <2>2, ElementOfSeq DEF In, Once
  <2>4. ~In(x, order')
    BY DEF Pending, In
  <2> HIDE DEF x, y
  <2>5. firing # << >> /\ x = Head(firing) /\ expire[x] = time /\ expire[y] = time
    BY <2>3, <2>4, Leaving DEF x, y
  <2>6. In(y, firing)
    <3>1. Place(expire[y], time) = NearSlot(time)
      BY <2>1, <2>5, NearIsNow
    <3>2. wheel[NearSlot(time)] = << >>
      BY <2>1, <2>5 DEF FiringOK
    <3>3. ~In(y, << >>)
      BY EmptyList
    <3> QED
      BY <2>3, <3>1, <3>2, <3>3 DEF WheelInv
  <2>7. PICK q \in 1..Len(firing) : firing[q] = y
    BY <2>6 DEF In
  <2>8. firing[1] = x /\ 1 \in 1..Len(firing) /\ 1 < q
    <3>1. Len(firing) \in Nat \ {0} /\ firing[1] = x
      BY <2>1, <2>5, Filled
    <3>2. q # 1
      BY <2>3, <2>7, <3>1
    <3> QED
      BY <3>1, <3>2
  <2>9. Before(x, y, order)
    BY <2>1, <2>5, <2>7, <2>8 DEF FiringOK, Ordered
  <2>10. PICK a, b \in 1..Len(order) : a < b /\ order[a] = x /\ order[b] = y
    BY <2>9 DEF Before
  <2>11. a = j /\ b = i
    BY <2>1, <2>2, <2>10 DEF Once, x, y
  <2> QED
    BY <2>1, <2>2, <2>10, <2>11, LenProperties
<1> QED
  BY <1>1, WheelInvariant, PTL DEF Spec, SameTickInOrder
=============================================================================
