--------------------------- MODULE MqRelease_proofs ---------------------------
(***************************************************************************)
(* Taking queues down leaves no freed queue in Q, and Q is a queue of      *)
(* queues while they are freed, for any number of queues and messages.     *)
(***************************************************************************)
EXTENDS MqRelease, FiniteSetTheorems, SequenceTheorems,
        WellFoundedInduction, TLAPS

N == Cardinality(Queue)

\* The linked list is the sequence s.
IsList(s) ==
  /\ s \in Seq(Queue)
  /\ \A i, j \in 1..Len(s) : s[i] = s[j] => i = j
  /\ qhead = IF s = << >> THEN None ELSE s[1]
  /\ qtail = IF s = << >> THEN None ELSE s[Len(s)]
  /\ \A i \in 1..Len(s) : next[s[i]] = IF i = Len(s) THEN None ELSE s[i + 1]
  /\ \A x \in Queue : (\A i \in 1..Len(s) : s[i] # x) => next[x] = None

LEMMA Least ==
  ASSUME NEW S \in SUBSET Nat, S # {}
  PROVE  \E x \in S : \A y \in S : x <= y
<1> DEFINE R == {ss \in Nat \X Nat : ss[1] < ss[2]}
<1>1. IsWellFoundedOn(R, Nat)
  BY NatLessThanWellFounded DEF OpToRel
<1> HIDE DEF R
<1>2. PICK x \in S : \A y \in S : <<y, x>> \notin R
  BY <1>1, WFMin
<1>3. ASSUME NEW y \in S, y < x PROVE FALSE
  <2>1. <<y, x>> \in R
    BY <1>3 DEF R
  <2> QED
    BY <1>2, <2>1
<1> QED
  BY <1>3

LEMMA QueueFinite == IsFiniteSet(Queue) /\ N \in Nat \ {0}
<1>1. IsFiniteSet(Queue) /\ Queue # {}
  BY ReleaseAssumption
<1> QED
  BY <1>1, FS_CardinalityType, FS_EmptySet DEF N
-----------------------------------------------------------------------------
(* The sequence is the chain of links.                                     *)

LEMMA FitsInQueue ==
  ASSUME NEW s \in Seq(Queue), \A i, j \in 1..Len(s) : s[i] = s[j] => i = j
  PROVE  Len(s) \in 0..N
<1>1. s \in Injection(1..Len(s), Queue)
  BY DEF Injection, IsInjective
<1>2. Cardinality(1..Len(s)) <= N
  BY <1>1, QueueFinite, FS_Injection DEF N
<1>3. Cardinality(1..Len(s)) = Len(s)
  BY FS_Interval
<1> QED
  BY <1>2, <1>3, QueueFinite

\* What the recursion of Node computes.
LEMMA NodeUnfolds ==
  ASSUME NEW s, IsList(s)
  PROVE  /\ DOMAIN Node = 0..N
         /\ \A n \in 0..N :
              Node[n] = IF n = 0 THEN qhead
                        ELSE IF Node[n - 1] = None THEN None ELSE next[Node[n - 1]]
<1> DEFINE g == [n \in 0..N |-> IF n < Len(s) THEN s[n + 1] ELSE None]
           F(f) == [n \in 0..N |-> IF n = 0 THEN qhead
                     ELSE IF f[n - 1] = None THEN None ELSE next[f[n - 1]]]
<1>1. g = F(g)
  <2> SUFFICES ASSUME NEW n \in 0..N PROVE g[n] = F(g)[n]
    OBVIOUS
  <2>0. Len(s) \in Nat /\ N \in Nat /\ None \notin Queue /\ n \in Nat
    BY QueueFinite, ReleaseAssumption DEF IsList
  <2>1. CASE n = 0
    BY <2>0, <2>1 DEF IsList
  <2>2. CASE n # 0
    <3>1. n - 1 \in 0..N /\ g[n - 1] = IF n - 1 < Len(s) THEN s[n] ELSE None
      BY <2>0, <2>2
    <3>2. CASE n - 1 < Len(s)
      <4>1. n \in 1..Len(s) /\ s[n] \in Queue /\ s[n] # None
        BY <2>0, <2>2, <3>2 DEF IsList
      <4>2. next[s[n]] = IF n = Len(s) THEN None ELSE s[n + 1]
        BY <4>1 DEF IsList
      <4>3. QED
        BY <2>0, <2>2, <3>1, <3>2, <4>1, <4>2
    <3>3. CASE ~(n - 1 < Len(s))
      BY <2>0, <2>2, <3>1, <3>3
    <3>4. QED
      BY <3>2, <3>3
  <2>3. QED
    BY <2>1, <2>2
<1> HIDE DEF g
<1> DEFINE c == CHOOSE f : f = F(f)
<1>2. Node = c
  BY DEF Node, N
<1>3. c = F(c)
  BY <1>1
<1> HIDE DEF c
<1>4. /\ DOMAIN c = 0..N
      /\ \A n \in 0..N :
           c[n] = IF n = 0 THEN qhead
                  ELSE IF c[n - 1] = None THEN None ELSE next[c[n - 1]]
  BY <1>3
<1> QED
  BY <1>2, <1>4

LEMMA NodeIs ==
  ASSUME NEW s, IsList(s)
  PROVE  /\ DOMAIN Node = 0..N
         /\ \A n \in 0..N : Node[n] = IF n < Len(s) THEN s[n + 1] ELSE None
<1> DEFINE Wrong == {n \in 0..N : Node[n] # IF n < Len(s) THEN s[n + 1] ELSE None}
<1>0. Len(s) \in Nat /\ N \in Nat /\ None \notin Queue
  BY QueueFinite, ReleaseAssumption DEF IsList
<1>1. DOMAIN Node = 0..N
  BY NodeUnfolds
<1>2. ASSUME Wrong # {} PROVE FALSE
  <2>1. PICK n \in Wrong : \A m \in Wrong : n <= m
    <3>1. Wrong \in SUBSET Nat
      BY <1>0
    <3>2. QED
      BY <1>2, <3>1, Least
  <2>2. n # 0
    BY <1>0, <2>1, NodeUnfolds DEF IsList
  <2>3. n \in 0..N /\ n \in Nat /\ n - 1 \in 0..N /\ n - 1 \notin Wrong
    BY <1>0, <2>1, <2>2
  <2>4. Node[n - 1] = IF n - 1 < Len(s) THEN s[n] ELSE None
    BY <2>3
  <2>5. CASE n - 1 < Len(s)
    <3>1. n \in 1..Len(s) /\ s[n] \in Queue /\ s[n] # None
      BY <1>0, <2>2, <2>3, <2>5 DEF IsList
    <3>2. next[s[n]] = IF n = Len(s) THEN None ELSE s[n + 1]
      BY <3>1 DEF IsList
    <3>3. Node[n] = next[s[n]]
      BY <2>2, <2>3, <2>4, <2>5, <3>1, NodeUnfolds
    <3>4. n < Len(s) <=> n # Len(s)
      BY <1>0, <2>3, <2>5
    <3>5. QED
      BY <2>1, <3>2, <3>3, <3>4
  <2>6. CASE ~(n - 1 < Len(s))
    <3>1. Node[n] = None /\ ~(n < Len(s))
      BY <1>0, <2>2, <2>3, <2>4, <2>6, NodeUnfolds
    <3>2. QED
      BY <2>1, <3>1
  <2>7. QED
    BY <2>5, <2>6
<1> QED
  BY <1>1, <1>2

LEMMA ChainIs ==
  ASSUME NEW s
  PROVE  IsList(s) => Chain = s
<1> SUFFICES ASSUME IsList(s) PROVE Chain = s
  OBVIOUS
<1>0. /\ s \in Seq(Queue) /\ Len(s) \in 0..N /\ N \in Nat /\ None \notin Queue
      /\ \A i \in 1..Len(s) : s[i] \in Queue
  BY QueueFinite, ReleaseAssumption, FitsInQueue DEF IsList
<1>1. {n \in DOMAIN Node : Node[n] # None} = 0..Len(s) - 1
  <2>1. ASSUME NEW n \in 0..N PROVE Node[n] # None <=> n < Len(s)
    <3>1. CASE n < Len(s)
      <4>1. n + 1 \in 1..Len(s)
        BY <1>0, <3>1
      <4>2. QED
        BY <1>0, <3>1, <4>1, NodeIs
    <3>2. CASE ~(n < Len(s))
      BY <3>2, NodeIs
    <3>3. QED
      BY <3>1, <3>2
  <2>2. \A n : n \in 0..N /\ n < Len(s) <=> n \in 0..Len(s) - 1
    BY <1>0
  <2>3. DOMAIN Node = 0..N
    BY NodeIs
  <2>4. QED
    BY <2>1, <2>2, <2>3
<1>2. Cardinality(0..Len(s) - 1) = Len(s)
  <2>1. Len(s) - 1 \in Int
    BY <1>0
  <2>2. Cardinality(0..Len(s) - 1) =
          IF 0 > Len(s) - 1 THEN 0 ELSE (Len(s) - 1) - 0 + 1
    BY <2>1, FS_Interval
  <2>3. QED
    BY <1>0, <2>2
<1>3. Chain = [i \in 1..Len(s) |-> Node[i - 1]]
  BY <1>1, <1>2 DEF Chain
<1>4. ASSUME NEW i \in 1..Len(s) PROVE Node[i - 1] = s[i]
  <2>1. i - 1 \in 0..N /\ i - 1 < Len(s) /\ (i - 1) + 1 = i
    BY <1>0
  <2>2. QED
    BY <2>1, NodeIs
<1>5. Chain = [i \in 1..Len(s) |-> s[i]]
  BY <1>3, <1>4
<1> QED
  BY <1>0, <1>5

LEMMA ChainIsNext ==
  ASSUME NEW CONSTANT s
  PROVE  IsList(s)' => Chain' = s
<1> DEFINE P == Chain = s
<1>1. IsList(s) => P
  BY ChainIs
<1> HIDE DEF P
<1>2. IsList(s)' => P'
  BY <1>1, PTL
<1> QED
  BY <1>2 DEF P
-----------------------------------------------------------------------------
(* The two operations on the list.                                         *)

ListInv == ListType /\ IsList(Chain)

LEMMA LinkStep ==
  ASSUME ListType, NEW s, IsList(s), NEW x \in Queue,
         \A i \in 1..Len(s) : s[i] # x, Link(x)
  PROVE  ListType' /\ IsList(Append(s, x))'
<1> DEFINE t == Append(s, x)
           k == Len(s)
<1>0. /\ s \in Seq(Queue) /\ k \in Nat /\ None \notin Queue
      /\ \A i \in 1..k : s[i] \in Queue
  BY ReleaseAssumption DEF IsList
<1>1. /\ t \in Seq(Queue) /\ Len(t) = k + 1 /\ t # << >>
      /\ t[k + 1] = x /\ \A i \in 1..k : t[i] = s[i]
  BY <1>0, AppendProperties
<1>2. 1..k + 1 = (1..k) \cup {k + 1}
  BY <1>0
<1> HIDE DEF t
<1>3. s = << >> <=> k = 0
  BY <1>0
<1>4. qtail = None <=> k = 0
  BY <1>0, <1>3 DEF IsList
<1>5. ListType'
  BY DEF ListType, Link
<1>6. \A i, j \in 1..Len(t) : t[i] = t[j] => i = j
  BY <1>0, <1>1, <1>2 DEF IsList
<1>7. qtail' = t[Len(t)]
  BY <1>1 DEF Link
<1>8. qhead' = t[1]
  <2>1. CASE k = 0
    BY <1>1, <1>4, <2>1 DEF Link
  <2>2. CASE k # 0
    BY <1>0, <1>1, <1>3, <1>4, <2>2 DEF Link, IsList
  <2>3. QED
    BY <2>1, <2>2
<1>9. /\ \A i \in 1..Len(t) : next'[t[i]] = IF i = Len(t) THEN None ELSE t[i + 1]
      /\ \A y \in Queue : (\A i \in 1..Len(t) : t[i] # y) => next'[y] = None
  <2>1. CASE k = 0
    <3>1. next' = next /\ next[x] = None
      BY <1>4, <2>1 DEF Link, IsList
    <3>2. \A y \in Queue : next[y] = None
      BY <1>3, <2>1 DEF IsList
    <3>3. QED
      BY <1>1, <2>1, <3>1, <3>2
  <2>2. CASE k # 0
    <3>1. k \in 1..k /\ qtail = s[k] /\ qtail \in Queue /\ s[k] # x
      BY <1>0, <1>3, <2>2 DEF IsList
    <3>2. next' = [next EXCEPT ![s[k]] = x]
      BY <1>4, <2>2, <3>1 DEF Link
    <3>3. /\ next'[s[k]] = x
          /\ \A y \in Queue : y # s[k] => next'[y] = next[y]
      BY <3>1, <3>2 DEF ListType
    <3>4. ASSUME NEW i \in 1..k + 1
          PROVE  next'[t[i]] = IF i = k + 1 THEN None ELSE t[i + 1]
      <4>1. CASE i = k + 1
        <5>1. next[x] = None
          BY DEF IsList
        <5>2. QED
          BY <1>1, <3>1, <3>3, <4>1, <5>1
      <4>2. CASE i = k
        BY <1>0, <1>1, <3>1, <3>3, <4>2
      <4>3. CASE i \in 1..k /\ i # k
        <5>1. s[i] # s[k] /\ s[i] \in Queue /\ i + 1 \in 1..k
          BY <1>0, <3>1, <4>3 DEF IsList
        <5>2. next[s[i]] = s[i + 1]
          BY <4>3 DEF IsList
        <5>3. QED
          BY <1>0, <1>1, <3>3, <4>3, <5>1, <5>2
      <4>4. QED
        BY <1>0, <4>1, <4>2, <4>3
    <3>5. ASSUME NEW y \in Queue, \A i \in 1..k + 1 : t[i] # y PROVE next'[y] = None
      <4>1. \A i \in 1..k : s[i] # y
        BY <1>0, <1>1, <1>2, <3>5
      <4>2. next[y] = None
        BY <4>1 DEF IsList
      <4>3. QED
        BY <3>1, <3>3, <4>1, <4>2
    <3>6. QED
      BY <1>1, <3>4, <3>5
  <2>3. QED
    BY <2>1, <2>2
<1>10. IsList(t)'
  BY <1>1, <1>6, <1>7, <1>8, <1>9 DEF IsList
<1> QED
  BY <1>5, <1>10 DEF t

LEMMA UnlinkStep ==
  ASSUME ListType, NEW s, IsList(s), Unlink
  PROVE  /\ ListType' /\ IsList(Tail(s))'
         /\ s # << >> /\ qhead = s[1]
<1> DEFINE t == Tail(s)
           k == Len(s)
<1>0. /\ s \in Seq(Queue) /\ k \in Nat /\ None \notin Queue
      /\ \A i \in 1..k : s[i] \in Queue
  BY ReleaseAssumption DEF IsList
<1>1. s # << >> /\ qhead = s[1]
  BY DEF Unlink, IsList
<1>2. k >= 1 /\ 1 \in 1..k
  BY <1>0, <1>1
<1>3. /\ t \in Seq(Queue) /\ Len(t) = k - 1
      /\ \A i \in 1..k - 1 : t[i] = s[i + 1]
  <2>1. /\ Tail(s) \in Seq(Queue) /\ Len(Tail(s)) = Len(s) - 1
        /\ \A i \in 1..Len(Tail(s)) : Tail(s)[i] = s[i + 1]
    BY <1>0, <1>1, HeadTailProperties, Zenon
  <2>2. QED
    BY <2>1, Zenon
<1> HIDE DEF t
<1>4. t = << >> <=> k = 1
  <2>1. t = << >> => Len(t) = 0
    BY EmptySeq
  <2>2. t # << >> => Len(t) \in Nat \ {0}
    BY <1>3, EmptySeq, Zenon
  <2>3. QED
    BY <1>0, <1>2, <1>3, <2>1, <2>2
<1>5. next[s[1]] = IF k = 1 THEN None ELSE s[2]
  <2>1. next[s[1]] = IF 1 = k THEN None ELSE s[1 + 1]
    BY <1>2 DEF IsList
  <2>2. QED
    BY <2>1
<1>6. next[s[1]] = None <=> k = 1
  <2>1. k # 1 => 2 \in 1..k
    <3>1. \A m \in Nat : m >= 1 /\ m # 1 => 2 \in 1..m
      OBVIOUS
    <3>2. k \in Nat /\ k >= 1
      BY <1>0, <1>2
    <3>3. QED
      BY <3>1, <3>2
  <2>2. k # 1 => s[2] \in Queue
    BY <1>0, <2>1
  <2>3. QED
    BY <1>0, <1>5, <2>2
<1>7. /\ s[1] \in Queue /\ next' = [next EXCEPT ![s[1]] = None]
      /\ qhead' = next[s[1]]
      /\ qtail' = IF k = 1 THEN None ELSE qtail
  BY <1>0, <1>1, <1>2, <1>6 DEF Unlink
<1>8. ListType'
  BY <1>7 DEF ListType
<1>9. next'[s[1]] = None /\ \A y \in Queue : y # s[1] => next'[y] = next[y]
  BY <1>7 DEF ListType
<1>10. \A i, j \in 1..k - 1 : t[i] = t[j] => i = j
  <2> SUFFICES ASSUME NEW i \in 1..k - 1, NEW j \in 1..k - 1, t[i] = t[j]
               PROVE  i = j
    OBVIOUS
  <2>1. i + 1 \in 1..k /\ j + 1 \in 1..k /\ s[i + 1] = s[j + 1]
    BY <1>0, <1>3
  <2>2. i + 1 = j + 1
    BY <2>1 DEF IsList
  <2>3. QED
    BY <2>2
<1>11. qhead' = IF t = << >> THEN None ELSE t[1]
  BY <1>2, <1>3, <1>4, <1>5, <1>7
<1>12. qtail' = IF t = << >> THEN None ELSE t[Len(t)]
  BY <1>0, <1>1, <1>2, <1>3, <1>4, <1>7 DEF IsList
<1>13. ASSUME NEW i \in 1..k - 1
       PROVE  next'[t[i]] = IF i = k - 1 THEN None ELSE t[i + 1]
  <2>1. i + 1 \in 1..k /\ t[i] = s[i + 1] /\ i + 1 # 1
    BY <1>0, <1>3
  <2>2. s[i + 1] # s[1] /\ s[i + 1] \in Queue
    BY <1>0, <1>2, <2>1 DEF IsList
  <2>3. next[s[i + 1]] = IF i + 1 = k THEN None ELSE s[(i + 1) + 1]
    BY <2>1 DEF IsList
  <2>4. i # k - 1 => i + 1 \in 1..k - 1 /\ t[i + 1] = s[(i + 1) + 1]
    BY <1>0, <1>3
  <2>5. QED
    BY <1>0, <1>9, <2>1, <2>2, <2>3, <2>4
<1>14. ASSUME NEW y \in Queue, \A i \in 1..k - 1 : t[i] # y PROVE next'[y] = None
  <2>1. CASE y = s[1]
    BY <1>9, <2>1
  <2>2. CASE y # s[1]
    <3>1. ASSUME NEW i \in 1..k PROVE s[i] # y
      <4>1. CASE i = 1
        BY <2>2, <4>1
      <4>2. CASE i # 1
        <5>1. i - 1 \in 1..k - 1 /\ t[i - 1] = s[(i - 1) + 1] /\ (i - 1) + 1 = i
          BY <1>0, <1>3, <4>2
        <5>2. QED
          BY <1>14, <5>1
      <4>3. QED
        BY <4>1, <4>2
    <3>2. next[y] = None
      BY <3>1 DEF IsList
    <3>3. QED
      BY <1>9, <2>2, <3>2
  <2>3. QED
    BY <2>1, <2>2
<1>15. IsList(t)'
  BY <1>3, <1>10, <1>11, <1>12, <1>13, <1>14 DEF IsList
<1> QED
  BY <1>1, <1>8, <1>15 DEF t

\* The same of the chain itself.
LEMMA LinkAppends ==
  ASSUME ListInv, NEW x \in Queue, ~InList(x), Link(x)
  PROVE  /\ ListInv' /\ Chain' = Append(Chain, x)
         /\ \A y : InList(y)' <=> InList(y) \/ y = x
<1>1. PICK s : s = Chain
  OBVIOUS
<1>2. ListType /\ IsList(s) /\ s \in Seq(Queue)
  BY <1>1 DEF ListInv, IsList
<1>3. DOMAIN s = 1..Len(s) /\ Len(s) \in Nat
  BY <1>2
<1>4. \A i \in 1..Len(s) : s[i] # x
  BY <1>1, <1>3 DEF InList
<1>5. ListType' /\ IsList(Append(s, x))'
  BY <1>2, <1>4, LinkStep
<1>6. Chain' = Append(s, x)
  BY <1>5, ChainIsNext
<1>7. IsList(Chain)'
  BY <1>5, <1>6 DEF IsList
<1>8. ASSUME NEW y PROVE InList(y)' <=> InList(y) \/ y = x
  <2> DEFINE t == Append(s, x)
  <2>1. /\ DOMAIN t = 1..Len(s) + 1 /\ t[Len(s) + 1] = x
        /\ \A i \in 1..Len(s) : t[i] = s[i]
    BY <1>2, AppendProperties
  <2> HIDE DEF t
  <2>2. 1..Len(s) + 1 = (1..Len(s)) \cup {Len(s) + 1}
    BY <1>3
  <2>3. InList(y)' <=> \E i \in DOMAIN t : t[i] = y
    BY <1>6 DEF InList, t
  <2>4. InList(y) <=> \E i \in 1..Len(s) : s[i] = y
    BY <1>1, <1>3 DEF InList
  <2>5. QED
    BY <2>1, <2>2, <2>3, <2>4
<1> QED
  BY <1>1, <1>5, <1>6, <1>7, <1>8 DEF ListInv

LEMMA UnlinkTakes ==
  ASSUME ListInv, Unlink
  PROVE  /\ ListInv' /\ Chain # << >> /\ Chain' = Tail(Chain)
         /\ qhead \in Queue /\ InList(qhead)
         /\ \A y : InList(y)' <=> InList(y) /\ y # qhead
<1>1. PICK s : s = Chain
  OBVIOUS
<1>2. ListType /\ IsList(s) /\ s \in Seq(Queue)
  BY <1>1 DEF ListInv, IsList
<1>3. DOMAIN s = 1..Len(s) /\ Len(s) \in Nat
  BY <1>2
<1>4. ListType' /\ IsList(Tail(s))' /\ s # << >> /\ qhead = s[1]
  BY <1>2, UnlinkStep
<1>5. Chain' = Tail(s)
  BY <1>4, ChainIsNext
<1>6. IsList(Chain)'
  BY <1>4, <1>5 DEF IsList
<1>7. 1 \in 1..Len(s) /\ s[1] \in Queue
  BY <1>2, <1>3, <1>4
<1>8. \A y : InList(y) <=> \E i \in 1..Len(s) : s[i] = y
  BY <1>1, <1>3 DEF InList
<1>9. ASSUME NEW y PROVE InList(y)' <=> InList(y) /\ y # qhead
  <2> DEFINE t == Tail(s)
  <2>1. t \in Seq(Queue) /\ Len(t) = Len(s) - 1 /\ \A i \in 1..Len(t) : t[i] = s[i + 1]
    BY <1>2, <1>4, HeadTailProperties, Zenon
  <2>2. DOMAIN t = 1..Len(s) - 1
    BY <2>1
  <2> HIDE DEF t
  <2>3. InList(y)' <=> \E i \in 1..Len(s) - 1 : s[i + 1] = y
    <3>1. InList(y)' <=> \E i \in DOMAIN t : t[i] = y
      BY <1>5 DEF InList, t
    <3>2. QED
      BY <2>1, <2>2, <3>1
  <2>4. ASSUME InList(y)' PROVE InList(y) /\ y # qhead
    <3>1. PICK i \in 1..Len(s) - 1 : s[i + 1] = y
      BY <2>3, <2>4
    <3>2. i + 1 \in 1..Len(s) /\ i + 1 # 1
      BY <1>3
    <3>3. s[i + 1] # s[1]
      BY <1>2, <1>7, <3>2 DEF IsList
    <3>4. QED
      BY <1>4, <1>8, <3>1, <3>2, <3>3
  <2>5. ASSUME InList(y), y # qhead PROVE InList(y)'
    <3>1. PICK j \in 1..Len(s) : s[j] = y
      BY <1>8, <2>5
    <3>2. j # 1
      BY <1>4, <2>5, <3>1
    <3>3. j - 1 \in 1..Len(s) - 1 /\ (j - 1) + 1 = j
      BY <1>3, <3>2
    <3>4. QED
      BY <2>3, <3>1, <3>3
  <2>6. QED
    BY <2>4, <2>5
<1> QED
  BY <1>1, <1>4, <1>5, <1>6, <1>7, <1>8, <1>9 DEF ListInv

LEMMA ListUnchanged ==
  ASSUME UNCHANGED list
  PROVE  /\ Chain' = Chain /\ (ListInv => ListInv')
         /\ \A y : InList(y)' <=> InList(y)
<1>1. qhead' = qhead /\ qtail' = qtail /\ next' = next
  BY DEF list
<1>2. Node' = Node
  BY <1>1 DEF Node
<1>3. Chain' = Chain
  BY <1>2 DEF Chain
<1>4. ListInv => ListInv'
  BY <1>1, <1>3 DEF ListInv, ListType, IsList
<1> QED
  BY <1>3, <1>4 DEF InList

\* What the assertions on the list ask for.
LEMMA ListIsOK ==
  ASSUME ListInv
  PROVE  ListOK
<1>1. PICK s : s = Chain
  OBVIOUS
<1>2. /\ ListType /\ IsList(s) /\ s \in Seq(Queue) /\ Len(s) \in 0..N
      /\ DOMAIN s = 1..Len(s) /\ N \in Nat
  BY <1>1, FitsInQueue, QueueFinite DEF ListInv, IsList
<1>3. CASE s = << >>
  <2>1. Len(s) = 0 /\ 1..Len(s) = {}
    BY <1>3
  <2>2. qhead = None /\ qtail = None /\ \A x \in Queue : next[x] = None
    BY <1>2, <1>3, <2>1 DEF IsList
  <2>3. QED
    BY <1>1, <1>2, <1>3, <2>2 DEF ListOK, N
<1>4. CASE s # << >>
  <2>1. Len(s) \in 1..Len(s) /\ qtail = s[Len(s)]
    <3>1. Len(s) \in Nat \ {0}
      BY <1>2, <1>4, EmptySeq, Zenon
    <3>2. qtail = s[Len(s)]
      BY <1>2, <1>4, Zenon DEF IsList
    <3>3. QED
      BY <3>1, <3>2
  <2>2. next[qtail] = None
    BY <1>2, <2>1 DEF IsList
  <2>3. \A x \in Queue : ~InList(x) => next[x] = None
    BY <1>1, <1>2 DEF InList, IsList
  <2>4. QED
    BY <1>1, <1>2, <1>4, <2>1, <2>2, <2>3 DEF ListOK, N
<1> QED
  BY <1>3, <1>4
-----------------------------------------------------------------------------
(* The protocol.                                                           *)

Held == {"pop", "refill", "mark", "release"}

LoopType ==
  /\ mail \in [Queue -> Nat]
  /\ inGlobal \in [Queue -> BOOLEAN]
  /\ release \in [Queue -> BOOLEAN]
  /\ freed \subseteq Queue
  /\ created \in 0..N
  /\ pc \in Held \cup {"create", "take", "done"}
  /\ cur \in Queue \cup {None}

\* Before the loop: the queues created so far are linked, and every flag is set.
Creating ==
  pc = "create" =>
    /\ created < N
    /\ freed = {}
    /\ \A x \in Queue : inGlobal[x]
    /\ \A x : InList(x) <=> \E i \in 1..created : CreationOrder[i] = x

\* The queue in the hands of the loop is out of the list, and its flag tells
\* which way skynet_mq_pop went.
Taken ==
  pc \in Held =>
    /\ cur \in Queue /\ cur \notin freed /\ ~InList(cur)
    /\ inGlobal[cur] <=> pc # "refill"
    /\ pc = "release" => release[cur]

IInv ==
  ListInv /\ LoopType /\ Creating /\ Taken /\ NoUseAfterFree /\ FlagTruth

LEMMA OrderIsInjective ==
  /\ \A i \in 1..N : CreationOrder[i] \in Queue
  /\ \A i, j \in 1..N : CreationOrder[i] = CreationOrder[j] => i = j
  /\ \A x \in Queue : \E i \in 1..N : CreationOrder[i] = x
<1>1. CreationOrder \in Surjection(1..N, Queue)
  BY ReleaseAssumption DEF Surjection, N
<1>2. IsFiniteSet(1..N) /\ Cardinality(1..N) = N
  BY QueueFinite, FS_Interval
<1>3. CreationOrder \in Injection(1..N, Queue)
  BY <1>1, <1>2, FS_SurjSameCardinalityImpliesInj DEF N
<1> QED
  BY <1>1, <1>3 DEF Surjection, Injection, IsInjective

LEMMA CreateStep ==
  ASSUME IInv, NEW k \in 0..MaxMail, Create(k)
  PROVE  IInv' /\ \E x \in Queue : Chain' = Append(Chain, x)
<1> DEFINE x == CreationOrder[created + 1]
<1>0. /\ created \in Nat /\ created < N /\ N \in Nat /\ created + 1 \in 1..N
      /\ MaxMail \in Nat
  BY QueueFinite, ReleaseAssumption DEF IInv, Creating, LoopType, Create
<1>1. x \in Queue /\ \A i \in 1..created : CreationOrder[i] # x
  <2>1. \A i \in 1..created : i \in 1..N /\ i # created + 1
    BY <1>0
  <2>2. QED
    BY <1>0, <2>1, OrderIsInjective
<1>2. pc = "create" /\ Link(x) /\ created' = created + 1
      /\ UNCHANGED <<inGlobal, release, freed, cur>>
      /\ mail' = [mail EXCEPT ![x] = k]
      /\ pc' = IF created + 1 = N THEN "take" ELSE "create"
  BY Zenon DEF Create, N
<1>3. freed = {} /\ (\A y \in Queue : inGlobal[y])
      /\ \A y : InList(y) <=> \E i \in 1..created : CreationOrder[i] = y
  BY <1>2, Zenon DEF IInv, Creating
<1> HIDE DEF x
<1>4. /\ ListInv' /\ Chain' = Append(Chain, x)
      /\ \A y : InList(y)' <=> InList(y) \/ y = x
  <2>1. ~InList(x)
    BY <1>1, <1>3
  <2>2. ListInv
    BY DEF IInv
  <2>3. QED
    BY <1>1, <1>2, <2>1, <2>2, LinkAppends
<1>5. \A y : InList(y)' <=> \E i \in 1..created + 1 : CreationOrder[i] = y
  <2>1. 1..created + 1 = (1..created) \cup {created + 1}
    BY <1>0
  <2>2. QED
    BY <1>3, <1>4, <2>1 DEF x
<1>6. LoopType'
  <2>1. mail' \in [Queue -> Nat]
    BY <1>0, <1>1, <1>2 DEF IInv, LoopType
  <2>2. created' \in 0..N
    BY <1>0, <1>2
  <2>3. pc' \in Held \cup {"create", "take", "done"}
    BY <1>2
  <2>4. QED
    BY <1>2, <2>1, <2>2, <2>3, Zenon DEF IInv, LoopType
<1>7. \A y \in Queue : inGlobal'[y]
  BY <1>2, <1>3, Zenon
<1>8. pc' = "create" => created' < N
  BY <1>0, <1>2
<1>9. pc' # "create" => \A y \in Queue : InList(y)'
  BY <1>2, <1>5, OrderIsInjective
<1>10. pc' \notin Held
  BY <1>2 DEF Held
<1>11. Creating'
  BY <1>2, <1>3, <1>5, <1>7, <1>8 DEF Creating
<1>12. Taken' /\ NoUseAfterFree'
  BY <1>2, <1>3, <1>10 DEF Taken, NoUseAfterFree, Held
<1>13. FlagTruth'
  BY <1>7, <1>9, Zenon DEF FlagTruth
<1> QED
  BY <1>1, <1>4, <1>6, <1>11, <1>12, <1>13, Zenon DEF IInv

LEMMA TakeStep ==
  ASSUME IInv, Take
  PROVE  IInv' /\ Chain # << >> /\ Chain' = Tail(Chain)
<1>1. /\ pc = "take" /\ pc' = "pop" /\ cur' = qhead /\ Unlink
      /\ UNCHANGED <<mail, inGlobal, release, freed, created>>
  BY Zenon DEF Take
<1>2. /\ ListInv' /\ Chain # << >> /\ Chain' = Tail(Chain)
      /\ qhead \in Queue /\ InList(qhead)
      /\ \A y : InList(y)' <=> InList(y) /\ y # qhead
  BY <1>1, UnlinkTakes DEF IInv
<1>3. \A y \in Queue : inGlobal[y] <=> InList(y)
  BY <1>1, Zenon DEF IInv, FlagTruth
<1>4. inGlobal[qhead]
  BY <1>2, <1>3, Zenon
<1>5. qhead \notin freed /\ \A y \in freed : ~InList(y)
  BY <1>2 DEF IInv, NoUseAfterFree
<1>6. LoopType'
  BY <1>1, <1>2, Zenon DEF IInv, LoopType, Held
<1>7. Taken'
  <2>1. pc' # "refill" /\ pc' # "release"
    BY <1>1
  <2>2. QED
    BY <1>1, <1>2, <1>4, <1>5, <2>1, Zenon DEF Taken
<1>8. Creating'
  BY <1>1 DEF Creating
<1>9. NoUseAfterFree'
  BY <1>1, <1>2, <1>5 DEF NoUseAfterFree
<1>10. FlagTruth'
  <2>1. pc' # "take"
    BY <1>1
  <2>2. QED
    BY <1>1, <1>2, <1>3, <2>1, Zenon DEF FlagTruth
<1> QED
  BY <1>2, <1>6, <1>7, <1>8, <1>9, <1>10, Zenon DEF IInv

\* A step within the loop that leaves the list alone.
LEMMA LoopStep ==
  ASSUME IInv, pc \in Held, UNCHANGED <<list, cur>>, created' = created, pc' # "create",
         pc' \in Held \cup {"take", "done"},
         mail' \in [Queue -> Nat], release' \in [Queue -> BOOLEAN],
         inGlobal' \in [Queue -> BOOLEAN],
         \A x \in Queue : x # cur => (inGlobal'[x] <=> inGlobal[x]),
         pc' = "take" => (~inGlobal'[cur] /\ freed' = freed \cup {cur}),
         pc' # "take" => (inGlobal'[cur] <=> pc' # "refill") /\ freed' = freed,
         pc' = "release" => release'[cur]
  PROVE  IInv'
<1>1. /\ ListInv /\ LoopType /\ NoUseAfterFree
      /\ cur \in Queue /\ cur \notin freed /\ ~InList(cur)
  BY Zenon DEF IInv, Taken
<1>2. \A x \in Queue : x # cur => (inGlobal[x] <=> InList(x))
  BY Zenon DEF IInv, FlagTruth, Held
<1>3. ListInv' /\ \A y : InList(y)' <=> InList(y)
  BY <1>1, ListUnchanged
<1>4. cur' = cur /\ cur \in Queue \cup {None}
  BY <1>1
<1>5. freed' \subseteq Queue
  BY <1>1 DEF LoopType
<1>6. LoopType'
  BY <1>1, <1>4, <1>5, Zenon DEF LoopType
<1>7. ASSUME pc' \in Held
      PROVE  /\ cur' \in Queue /\ cur' \notin freed' /\ ~InList(cur)'
             /\ inGlobal'[cur'] <=> pc' # "refill"
             /\ pc' = "release" => release'[cur']
  <2>1. pc' # "take"
    BY <1>7 DEF Held
  <2>2. (inGlobal'[cur] <=> pc' # "refill") /\ freed' = freed
    BY <2>1, Zenon
  <2>3. QED
    BY <1>1, <1>3, <1>4, <2>2, Zenon
<1>8. Taken' /\ Creating'
  BY <1>7, Zenon DEF Taken, Creating
<1>9. NoUseAfterFree'
  <2>1. \A x \in freed' : ~InList(x)'
    BY <1>1, <1>3 DEF NoUseAfterFree
  <2>2. pc' \in Held => cur' \notin freed'
    BY <1>1, <1>4 DEF Held
  <2>3. QED
    BY <2>1, <2>2 DEF NoUseAfterFree, Held
<1>10. FlagTruth'
  <2> SUFFICES ASSUME NEW x \in Queue, x # cur \/ pc' = "take"
               PROVE  inGlobal'[x] <=> InList(x)'
    BY <1>4 DEF FlagTruth
  <2>1. CASE x # cur
    BY <1>2, <1>3, <2>1, Zenon
  <2>2. CASE x = cur
    BY <1>1, <1>3, <2>2, Zenon
  <2>3. QED
    BY <2>1, <2>2
<1> QED
  BY <1>3, <1>6, <1>8, <1>9, <1>10, Zenon DEF IInv

LEMMA BreakStep ==
  ASSUME IInv, Break
  PROVE  IInv' /\ Chain' = Chain
<1>1. /\ pc = "take" /\ pc' = "done" /\ cur' = None
      /\ UNCHANGED <<list, mail, inGlobal, release, freed, created>>
  BY Zenon DEF Break
<1>2. ListInv /\ LoopType /\ NoUseAfterFree
  BY Zenon DEF IInv
<1>3. \A y \in Queue : inGlobal[y] <=> InList(y)
  BY <1>1, Zenon DEF IInv, FlagTruth
<1>4. ListInv' /\ Chain' = Chain /\ \A y : InList(y)' <=> InList(y)
  BY <1>1, <1>2, ListUnchanged
<1>5. LoopType'
  BY <1>1, <1>2, Zenon DEF LoopType
<1>6. pc' \notin Held /\ pc' # "create"
  BY <1>1 DEF Held
<1>7. Taken' /\ Creating'
  BY <1>6 DEF Taken, Creating
<1>8. NoUseAfterFree'
  BY <1>1, <1>2, <1>4, <1>6 DEF NoUseAfterFree, Held
<1>9. FlagTruth'
  BY <1>1, <1>3, <1>4, Zenon DEF FlagTruth
<1> QED
  BY <1>4, <1>5, <1>7, <1>8, <1>9, Zenon DEF IInv

LEMMA PopStep ==
  ASSUME IInv, Pop
  PROVE  IInv' /\ Chain' = Chain
<1>1. /\ pc = "pop" /\ pc' = "mark" /\ mail' = [mail EXCEPT ![cur] = @ - 1]
      /\ mail[cur] > 0 /\ UNCHANGED <<list, inGlobal, release, freed, created, cur>>
  BY Zenon DEF Pop
<1>2. LoopType /\ cur \in Queue /\ inGlobal[cur]
  BY <1>1, Zenon DEF IInv, Taken, Held
<1>3. mail' \in [Queue -> Nat]
  <2>1. mail \in [Queue -> Nat]
    BY <1>2, Zenon DEF LoopType
  <2>2. mail[cur] \in Nat /\ mail[cur] - 1 \in Nat
    BY <1>1, <1>2, <2>1
  <2>3. mail' = [mail EXCEPT ![cur] = mail[cur] - 1]
    BY <1>1
  <2>4. QED
    BY <2>1, <2>2, <2>3
<1>4. inGlobal' = inGlobal /\ inGlobal' \in [Queue -> BOOLEAN]
      /\ release' \in [Queue -> BOOLEAN] /\ freed' = freed
      /\ UNCHANGED <<list, cur>> /\ created' = created
  BY <1>1, <1>2, Zenon DEF LoopType
<1>5. pc \in Held /\ pc' \in Held /\ pc' \notin {"take", "create", "refill", "release"}
  BY <1>1 DEF Held
<1>6. IInv'
  BY <1>2, <1>3, <1>4, <1>5, LoopStep, Zenon
<1> QED
  BY <1>4, <1>6, ListUnchanged

LEMMA PopFailsStep ==
  ASSUME IInv, PopFails
  PROVE  IInv' /\ Chain' = Chain
<1>1. /\ pc = "pop" /\ pc' = "refill"
      /\ inGlobal' = [inGlobal EXCEPT ![cur] = FALSE]
      /\ UNCHANGED <<list, mail, release, freed, created, cur>>
  BY Zenon DEF PopFails
<1>2. LoopType /\ cur \in Queue
  BY <1>1, Zenon DEF IInv, Taken, Held
<1>3. /\ inGlobal' \in [Queue -> BOOLEAN] /\ ~inGlobal'[cur]
      /\ \A x \in Queue : x # cur => inGlobal'[x] = inGlobal[x]
  BY <1>1, <1>2, Zenon DEF LoopType
<1>4. mail' \in [Queue -> Nat] /\ release' \in [Queue -> BOOLEAN] /\ freed' = freed
      /\ UNCHANGED <<list, cur>> /\ created' = created
  BY <1>1, <1>2, Zenon DEF LoopType
<1>5. /\ pc \in Held /\ pc' \in Held /\ pc' = "refill"
      /\ pc' \notin {"take", "create", "release"}
  BY <1>1 DEF Held
<1>6. IInv'
  BY <1>2, <1>3, <1>4, <1>5, LoopStep, Zenon
<1> QED
  BY <1>4, <1>6, ListUnchanged

LEMMA RefillStep ==
  ASSUME IInv, Refill
  PROVE  IInv' /\ \E x \in Queue : Chain' = Append(Chain, x)
<1>1. /\ pc = "refill" /\ pc' = "take" /\ mail' = [mail EXCEPT ![cur] = @ + 1]
      /\ inGlobal' = [inGlobal EXCEPT ![cur] = TRUE]
      /\ IF inGlobal[cur] THEN UNCHANGED list ELSE Link(cur)
      /\ UNCHANGED <<release, freed, created, cur>>
  BY Zenon DEF Refill
<1>2. /\ ListInv /\ LoopType /\ NoUseAfterFree
      /\ cur \in Queue /\ cur \notin freed /\ ~InList(cur) /\ ~inGlobal[cur]
  BY <1>1, Zenon DEF IInv, Taken, Held
<1>3. Link(cur)
  BY <1>1, <1>2, Zenon
<1>4. \A x \in Queue : x # cur => (inGlobal[x] <=> InList(x))
  BY <1>1, Zenon DEF IInv, FlagTruth
<1>5. /\ ListInv' /\ Chain' = Append(Chain, cur)
      /\ \A y : InList(y)' <=> InList(y) \/ y = cur
  BY <1>2, <1>3, LinkAppends
<1>6. /\ inGlobal' \in [Queue -> BOOLEAN] /\ inGlobal'[cur]
      /\ \A x \in Queue : x # cur => inGlobal'[x] = inGlobal[x]
  BY <1>1, <1>2, Zenon DEF LoopType
<1>7. mail' \in [Queue -> Nat]
  BY <1>1, <1>2 DEF LoopType
<1>8. LoopType'
  BY <1>1, <1>2, <1>6, <1>7, Zenon DEF LoopType
<1>9. pc' \notin Held /\ pc' # "create"
  BY <1>1 DEF Held
<1>10. Taken' /\ Creating'
  BY <1>9 DEF Taken, Creating
<1>11. NoUseAfterFree'
  BY <1>1, <1>2, <1>5, <1>9 DEF NoUseAfterFree, Held
<1>12. FlagTruth'
  <2> SUFFICES ASSUME NEW x \in Queue PROVE inGlobal'[x] <=> InList(x)'
    BY DEF FlagTruth
  <2>1. CASE x # cur
    BY <1>4, <1>5, <1>6, <2>1, Zenon
  <2>2. CASE x = cur
    BY <1>5, <1>6, <2>2, Zenon
  <2>3. QED
    BY <2>1, <2>2
<1>13. IInv'
  BY <1>5, <1>8, <1>10, <1>11, <1>12, Zenon DEF IInv
<1> QED
  BY <1>2, <1>5, <1>13

LEMMA MarkStep ==
  ASSUME IInv, MarkRelease
  PROVE  IInv' /\ Chain' = Chain
<1>1. /\ pc = "mark" /\ pc' = "release"
      /\ release' = [release EXCEPT ![cur] = TRUE]
      /\ IF inGlobal[cur] THEN UNCHANGED list ELSE Link(cur)
      /\ UNCHANGED <<mail, inGlobal, freed, created, cur>>
  BY Zenon DEF MarkRelease
<1>2. LoopType /\ cur \in Queue /\ inGlobal[cur]
  BY <1>1, Zenon DEF IInv, Taken, Held
<1>3. release' \in [Queue -> BOOLEAN] /\ release'[cur]
  BY <1>1, <1>2, Zenon DEF LoopType
<1>4. /\ mail' \in [Queue -> Nat] /\ freed' = freed /\ inGlobal' = inGlobal
      /\ inGlobal' \in [Queue -> BOOLEAN]
      /\ UNCHANGED <<list, cur>> /\ created' = created
  BY <1>1, <1>2, Zenon DEF LoopType
<1>5. /\ pc \in Held /\ pc' \in Held /\ pc' = "release"
      /\ pc' \notin {"take", "create", "refill"}
  BY <1>1 DEF Held
<1>6. IInv'
  BY <1>2, <1>3, <1>4, <1>5, LoopStep, Zenon
<1> QED
  BY <1>4, <1>6, ListUnchanged

LEMMA ReleaseStep ==
  ASSUME IInv, Release
  PROVE  IInv' /\ Chain' = Chain
<1>1. /\ pc = "release" /\ pc' = "take" /\ UNCHANGED <<release, created, cur>>
      /\ IF release[cur]
         THEN /\ mail' = [mail EXCEPT ![cur] = 0]
              /\ inGlobal' = [inGlobal EXCEPT ![cur] = FALSE]
              /\ freed' = freed \cup {cur}
              /\ UNCHANGED list
         ELSE /\ Link(cur)
              /\ UNCHANGED <<mail, inGlobal, freed>>
  BY Zenon DEF Release
<1>2. LoopType /\ cur \in Queue /\ release[cur]
  BY <1>1, Zenon DEF IInv, Taken, Held
<1>3. /\ mail' = [mail EXCEPT ![cur] = 0]
      /\ inGlobal' = [inGlobal EXCEPT ![cur] = FALSE]
      /\ freed' = freed \cup {cur} /\ UNCHANGED list
  BY <1>1, <1>2, Zenon
<1>4. /\ inGlobal' \in [Queue -> BOOLEAN] /\ ~inGlobal'[cur]
      /\ \A x \in Queue : x # cur => inGlobal'[x] = inGlobal[x]
  BY <1>2, <1>3, Zenon DEF LoopType
<1>5. mail' \in [Queue -> Nat]
  BY <1>2, <1>3 DEF LoopType
<1>6. release' \in [Queue -> BOOLEAN] /\ UNCHANGED <<list, cur>> /\ created' = created
  BY <1>1, <1>2, <1>3, Zenon DEF LoopType
<1>7. /\ pc \in Held /\ pc' \in Held \cup {"take", "done"}
      /\ pc' = "take" /\ pc' # "create" /\ pc' # "release"
  BY <1>1 DEF Held
<1>8. IInv'
  BY <1>3, <1>4, <1>5, <1>6, <1>7, LoopStep, Zenon
<1> QED
  BY <1>3, <1>8, ListUnchanged

LEMMA InitIInv == Init => IInv /\ Chain = << >>
<1> SUFFICES ASSUME Init PROVE IInv /\ Chain = << >>
  OBVIOUS
<1>1. /\ qhead = None /\ qtail = None /\ next = [x \in Queue |-> None]
      /\ mail = [x \in Queue |-> 0] /\ inGlobal = [x \in Queue |-> TRUE]
      /\ release = [x \in Queue |-> FALSE] /\ freed = {} /\ created = 0
      /\ pc = "create" /\ cur = None
  BY Zenon DEF Init, ListInit
<1>2. IsList(<< >>)
  <2>1. << >> \in Seq(Queue) /\ 1..Len(<< >>) = {}
    OBVIOUS
  <2>2. QED
    BY <1>1, <2>1 DEF IsList
<1>3. Chain = << >>
  BY <1>2, ChainIs
<1>4. ListInv
  BY <1>1, <1>2, <1>3 DEF ListInv, ListType
<1>5. \A y : ~InList(y)
  BY <1>3 DEF InList
<1>6. LoopType
  <2>1. mail \in [Queue -> Nat]
    BY <1>1
  <2>2. created \in 0..N
    BY <1>1, QueueFinite
  <2>3. QED
    BY <1>1, <2>1, <2>2, Zenon DEF LoopType
<1>7. pc \notin Held
  BY <1>1 DEF Held
<1>8. Creating
  <2>1. created < N /\ 1..created = {}
    BY <1>1, QueueFinite
  <2>2. \A x \in Queue : inGlobal[x]
    BY <1>1, Zenon
  <2>3. QED
    BY <1>1, <1>5, <2>1, <2>2 DEF Creating
<1>9. Taken /\ NoUseAfterFree /\ FlagTruth
  BY <1>1, <1>7 DEF Taken, NoUseAfterFree, FlagTruth, Held
<1> QED
  BY <1>3, <1>4, <1>6, <1>8, <1>9, Zenon DEF IInv

LEMMA NextStep ==
  IInv /\ [Next]_vars => IInv' /\ [Fifo!Next]_Chain
<1> SUFFICES ASSUME IInv, [Next]_vars PROVE IInv' /\ [Fifo!Next]_Chain
  OBVIOUS
<1>1. ASSUME NEW k \in 0..MaxMail, Create(k)
      PROVE  IInv' /\ \E x \in Queue : Chain' = Append(Chain, x)
  BY <1>1, CreateStep
<1>2. CASE Take
  <2>1. IInv' /\ Fifo!Get
    BY <1>2, TakeStep DEF Fifo!Get
  <2>2. QED
    BY <2>1 DEF Fifo!Next
<1>3. CASE Refill
  <2>1. IInv' /\ \E x \in Queue : Fifo!Put(x)
    BY <1>3, RefillStep DEF Fifo!Put
  <2>2. QED
    BY <2>1 DEF Fifo!Next
<1>4. CASE Break \/ Pop \/ PopFails \/ MarkRelease \/ Release
  BY <1>4, BreakStep, PopStep, PopFailsStep, MarkStep, ReleaseStep
<1>5. CASE UNCHANGED vars
  <2>1. /\ UNCHANGED list
        /\ UNCHANGED <<mail, inGlobal, release, freed, created, pc, cur>>
    BY <1>5 DEF vars
  <2>2. ListInv' /\ Chain' = Chain /\ \A y : InList(y)' <=> InList(y)
    BY <2>1, ListUnchanged DEF IInv
  <2>3. LoopType' /\ Creating'
    BY <2>1, <2>2, Zenon DEF IInv, LoopType, Creating
  <2>4. Taken' /\ NoUseAfterFree' /\ FlagTruth'
    BY <2>1, <2>2, Zenon DEF IInv, Taken, NoUseAfterFree, FlagTruth
  <2>5. QED
    BY <2>2, <2>3, <2>4, Zenon DEF IInv
<1>6. CASE \E k \in 0..MaxMail : Create(k)
  <2>1. IInv' /\ \E x \in Queue : Fifo!Put(x)
    BY <1>1, <1>6 DEF Fifo!Put
  <2>2. QED
    BY <2>1 DEF Fifo!Next
<1> QED
  BY <1>2, <1>3, <1>4, <1>5, <1>6, Zenon DEF Next

LEMMA ReleaseInvariant == Spec => []IInv
<1>1. Init => IInv
  BY InitIInv
<1>2. IInv /\ [Next]_vars => IInv'
  BY NextStep
<1> QED
  BY <1>1, <1>2, PTL DEF Spec

\* The list stays well formed: the assertions of skynet_globalmq_push and
\* skynet_globalmq_pop hold, for any number of queues.
THEOREM ListStaysWellFormed == Spec => []TypeOK
<1>1. IInv => TypeOK
  BY ListIsOK, Zenon DEF IInv, ListInv, LoopType, TypeOK, Held, N
<1> QED
  BY <1>1, ReleaseInvariant, PTL

\* A queue is freed only when it is out of the list and out of the hands of the
\* loop, which is what the refill of an empty queue is for.
THEOREM NeverUsedAfterFree == Spec => []NoUseAfterFree
<1>1. IInv => NoUseAfterFree
  BY Zenon DEF IInv
<1> QED
  BY <1>1, ReleaseInvariant, PTL

\* in_global is set for the queues in the list and for no other, except for the
\* one in the hands of the loop.
THEOREM FlagTellsTruth == Spec => []FlagTruth
<1>1. IInv => FlagTruth
  BY Zenon DEF IInv
<1> QED
  BY <1>1, ReleaseInvariant, PTL

\* Pushing and popping the linked list is pushing and popping a queue, while the
\* queues that it links are freed.
THEOREM ListIsFifo == Spec => GlobalIsFifo
<1>1. Init => Fifo!Init
  BY InitIInv DEF Fifo!Init
<1>2. IInv /\ [Next]_vars => [Fifo!Next]_Chain
  BY NextStep
<1> QED
  BY <1>1, <1>2, ReleaseInvariant, PTL DEF Spec, GlobalIsFifo
=============================================================================
