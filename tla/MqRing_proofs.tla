---------------------------- MODULE MqRing_proofs ----------------------------
(***************************************************************************)
(* The ring buffer of skynet_mq.c is a first-in first-out queue, for every *)
(* initial capacity and every number of doublings; and what its consumer   *)
(* is told of an overload grows, for every threshold.                      *)
(***************************************************************************)
EXTENDS MqRing, WellFoundedInduction, TLAPS

\* The part of the type invariant that the ring itself needs, and the rest.
RingType ==
  /\ cap \in Nat \ {0}
  /\ head \in Slots
  /\ tail \in Slots
  /\ queue \in [Slots -> Message \cup {None}]

CounterType == overload \in Nat /\ report \in Nat /\ popped \in BOOLEAN

\* The slot of the i-th message.
SlotOf(i) == IF head + i - 1 < cap THEN head + i - 1 ELSE head + i - 1 - cap

RInv ==
  /\ RingType
  /\ \A i \in 1..Stored : queue[SlotOf(i)] \in Message

LEMMA ModOnce ==
  ASSUME NEW c \in Nat \ {0}, NEW a \in Nat, a < c + c
  PROVE  a % c = IF a < c THEN a ELSE a - c
<1>1. ASSUME a < c PROVE a % c = a
  BY <1>1
<1>2. ASSUME ~(a < c) PROVE a % c = a - c
  BY <1>2
<1>3. QED
  BY <1>1, <1>2

\* The number of stored messages is below the number of slots, and the i-th of
\* them is where SlotOf says.
LEMMA RingShape ==
  RingType => /\ Stored \in Nat /\ Stored < cap
              /\ \A i \in 1..cap : /\ SlotOf(i) \in Slots
                                   /\ (head + i - 1) % cap = SlotOf(i)
              /\ Contents = [i \in 1..Stored |-> queue[SlotOf(i)]]
<1> SUFFICES ASSUME RingType
             PROVE  /\ Stored \in Nat /\ Stored < cap
                    /\ \A i \in 1..cap : /\ SlotOf(i) \in Slots
                                         /\ (head + i - 1) % cap = SlotOf(i)
                    /\ Contents = [i \in 1..Stored |-> queue[SlotOf(i)]]
  OBVIOUS
<1> USE DEF RingType, Slots
<1>1. Stored \in Nat /\ Stored < cap
  BY DEF Stored, Length
<1>2. ASSUME NEW i \in 1..cap
      PROVE  SlotOf(i) \in Slots /\ (head + i - 1) % cap = SlotOf(i)
  <2>1. head + i - 1 \in Nat /\ head + i - 1 < cap + cap /\ cap \in Nat \ {0}
    OBVIOUS
  <2> DEFINE a == head + i - 1
  <2>2. a % cap = IF a < cap THEN a ELSE a - cap
    <3> HIDE DEF a
    <3>1. QED
      BY <2>1, ModOnce DEF a
  <2>3. QED
    BY <2>1, <2>2 DEF SlotOf
<1>3. \A i \in 1..Stored : i \in 1..cap
  BY <1>1
<1>4. QED
  BY <1>1, <1>2, <1>3 DEF Contents

LEMMA ShapeAfter ==
  RingType' => (Contents = [i \in 1..Stored |-> queue[SlotOf(i)]])'
<1>1. RingType => Contents = [i \in 1..Stored |-> queue[SlotOf(i)]]
  BY RingShape
<1>2. QED
  BY <1>1, PTL

\* A push adds its message behind the ones that are stored.
LEMMA PushAppends ==
  ASSUME RInv, NEW m \in Message, Push(m)
  PROVE  RInv' /\ Contents' = Append(Contents, m)
<1> DEFINE buf == [queue EXCEPT ![tail] = m]
<1> USE DEF RInv, RingType
<1>1. /\ Stored \in Nat /\ Stored < cap
      /\ \A i \in 1..cap : SlotOf(i) \in Slots /\ (head + i - 1) % cap = SlotOf(i)
      /\ Contents = [i \in 1..Stored |-> queue[SlotOf(i)]]
  BY RingShape
<1>2. /\ buf \in [Slots -> Message \cup {None}]
      /\ \A i \in 1..Stored : SlotOf(i) # tail /\ buf[SlotOf(i)] = queue[SlotOf(i)]
      /\ SlotOf(Stored + 1) = tail /\ buf[tail] = m
  BY <1>1 DEF SlotOf, Stored, Length, Slots
<1>3. CASE NextSlot(tail) = head
  <2>1. Stored + 1 = cap
    BY <1>3 DEF Stored, Length, NextSlot, Slots
  <2>2. head' = 0 /\ tail' = cap /\ cap' = 2 * cap /\ queue' = Expanded(buf)
    BY <1>3 DEF Push
  <2>3. \A i \in 0..(cap - 1) : Expanded(buf)[i] = buf[SlotOf(i + 1)]
    BY <1>1 DEF Expanded
  <2>4. RingType'
    <3>1. Expanded(buf) \in [0..(2 * cap - 1) -> Message \cup {None}]
      <4>1. ASSUME NEW i \in 0..(2 * cap - 1), i < cap
            PROVE  buf[(head + i) % cap] \in Message \cup {None}
        <5>1. i + 1 \in 1..cap /\ head + (i + 1) - 1 = head + i
          BY <4>1 DEF Slots
        <5>2. QED
          BY <1>1, <1>2, <5>1
      <4>2. QED
        BY <4>1 DEF Expanded
    <3>2. Slots' = 0..(2 * cap - 1)
      BY <2>2 DEF Slots
    <3>3. cap' \in Nat \ {0} /\ head' \in 0..(2 * cap - 1) /\ tail' \in 0..(2 * cap - 1)
      BY <2>2
    <3>4. QED
      BY <2>2, <3>1, <3>2, <3>3
  <2>5. Stored' = Stored + 1
    BY <2>1, <2>2 DEF Stored, Length
  <2>6. \A i \in 1..(Stored + 1) :
          /\ SlotOf(i)' = i - 1
          /\ queue'[i - 1] = IF i = Stored + 1 THEN m ELSE queue[SlotOf(i)]
    <3>1. ASSUME NEW i \in 1..(Stored + 1)
          PROVE  /\ i - 1 \in 0..(cap - 1)
                 /\ queue'[i - 1] = buf[SlotOf(i)]
                 /\ SlotOf(i)' = i - 1
      <4>1. i - 1 \in 0..(cap - 1) /\ (i - 1) + 1 = i
        BY <1>1, <2>1
      <4>2. queue'[i - 1] = buf[SlotOf(i)]
        BY <2>2, <2>3, <4>1
      <4>3. SlotOf(i)' = i - 1
        BY <2>2, <4>1 DEF SlotOf
      <4>4. QED
        BY <4>1, <4>2, <4>3
    <3>2. QED
      BY <1>1, <1>2, <3>1
  <2>7. (Contents = [i \in 1..Stored |-> queue[SlotOf(i)]])'
    BY <2>4, ShapeAfter
  <2>8. QED
    BY <1>1, <2>4, <2>5, <2>6, <2>7
<1>4. CASE NextSlot(tail) # head
  <2>1. head' = head /\ cap' = cap /\ tail' = NextSlot(tail) /\ queue' = buf
    BY <1>4 DEF Push
  <2>2. RingType'
    BY <1>2, <2>1 DEF Slots, NextSlot
  <2>3. Stored' = Stored + 1
    BY <1>4, <2>1 DEF Stored, Length, NextSlot, Slots
  <2>4. \A i \in 1..(Stored + 1) :
          /\ SlotOf(i)' = SlotOf(i)
          /\ queue'[SlotOf(i)] = IF i = Stored + 1 THEN m ELSE queue[SlotOf(i)]
    BY <1>1, <1>2, <2>1 DEF SlotOf
  <2>5. (Contents = [i \in 1..Stored |-> queue[SlotOf(i)]])'
    BY <2>2, ShapeAfter
  <2>6. QED
    BY <1>1, <2>2, <2>3, <2>4, <2>5
<1>5. QED
  BY <1>3, <1>4

\* A pop removes the oldest message.
LEMMA PopTakesHead ==
  ASSUME RInv, Pop
  PROVE  RInv' /\ Contents # << >> /\ Contents' = Tail(Contents)
<1> USE DEF RInv, RingType
<1>1. /\ Stored \in Nat /\ Stored < cap
      /\ \A i \in 1..cap : SlotOf(i) \in Slots
      /\ Contents = [i \in 1..Stored |-> queue[SlotOf(i)]]
  BY RingShape
<1>2. head # tail /\ UNCHANGED <<cap, tail, queue>> /\ head' = NextSlot(head)
  BY DEF Pop
<1>3. RingType'
  BY <1>2 DEF Slots, NextSlot
<1>4. Stored' = Stored - 1 /\ Stored > 0
  BY <1>2 DEF Stored, Length, NextSlot, Slots
<1>5. \A i \in 1..(Stored - 1) : SlotOf(i)' = SlotOf(i + 1)
  BY <1>1, <1>2 DEF SlotOf, NextSlot, Slots
<1>6. (Contents = [i \in 1..Stored |-> queue[SlotOf(i)]])'
  BY <1>3, ShapeAfter
<1>7. QED
  BY <1>1, <1>2, <1>3, <1>4, <1>5, <1>6

\* RingOK is what the run checks; RInv is its inductive form.
LEMMA RingInductive == Spec => []RInv
<1>1. Init => RInv
  BY RingAssumption DEF Init, RInv, RingType, Slots, Stored, Length
<1>2. RInv /\ [Next]_vars => RInv'
  <2> SUFFICES ASSUME RInv, [Next]_vars PROVE RInv'
    OBVIOUS
  <2>1. CASE \E m \in Message : Push(m)
    BY <2>1, PushAppends
  <2>2. CASE Pop
    BY <2>2, PopTakesHead
  <2>3. CASE PopEmpty \/ Overload \/ UNCHANGED vars
    BY <2>3 DEF PopEmpty, Overload, vars, RInv, RingType, Slots, Stored, Length,
       SlotOf
  <2>4. QED
    BY <2>1, <2>2, <2>3 DEF Next
<1>3. QED
  BY <1>1, <1>2, PTL DEF Spec

\* The ring never fills up, and every slot in use holds a message.
THEOREM RingNeverFull == Spec => []RingOK
<1>1. Init => CounterType
  <2>1. Init => overload \in Nat /\ report \in Nat
    BY DEF Init
  <2>2. Init => popped \in BOOLEAN
    BY Zenon DEF Init
  <2>3. QED
    BY <2>1, <2>2 DEF CounterType
<1>2. RInv /\ CounterType /\ [Next]_vars => CounterType'
  <2> SUFFICES ASSUME RInv, CounterType, [Next]_vars PROVE CounterType'
    OBVIOUS
  <2>1. overload' \in Nat /\ report' \in Nat
    <3>1. CASE Pop
      <4>1. Length(NextSlot(head), tail, cap) \in Nat
        BY <3>1 DEF RInv, RingType, Slots, Length, NextSlot
      <4>2. QED
        BY <3>1, <4>1 DEF Pop, CounterType
    <3>2. CASE (\E m \in Message : Push(m)) \/ PopEmpty \/ Overload \/ UNCHANGED vars
      <4>1. /\ overload' = overload \/ overload' = 0
            /\ report' = report \/ report' = 0 \/ report' = overload
        BY <3>2, Zenon DEF Push, PopEmpty, Overload, vars
      <4>2. QED
        BY <4>1 DEF CounterType
    <3>3. QED
      BY <3>1, <3>2 DEF Next
  <2>2. popped' = popped \/ popped' = TRUE \/ popped' = FALSE
    BY Zenon DEF Next, Push, Pop, PopEmpty, Overload, vars
  <2>3. popped' \in BOOLEAN
    BY <2>2, Zenon DEF CounterType
  <2>4. QED
    BY <2>1, <2>3 DEF CounterType
<1>3. RInv /\ CounterType => RingOK
  <2> SUFFICES ASSUME RInv, CounterType PROVE RingOK
    OBVIOUS
  <2>1. TypeOK
    BY DEF RInv, RingType, CounterType, TypeOK
  <2>2. Stored < cap /\ Contents \in Seq(Message)
    BY RingShape DEF RInv
  <2>3. QED
    BY <2>1, <2>2 DEF RingOK
<1>4. QED
  BY <1>1, <1>2, <1>3, RingInductive, PTL DEF Spec

\* Wrapping and doubling are invisible: messages leave in the order they came.
THEOREM RingIsFifo == Spec => FifoSpec
<1>1. Init => Fifo!Init
  BY RingAssumption DEF Init, Fifo!Init, Contents, Stored, Length
<1>2. RInv /\ [Next]_vars => [Fifo!Next]_Contents
  <2> SUFFICES ASSUME RInv, [Next]_vars PROVE [Fifo!Next]_Contents
    OBVIOUS
  <2>1. ASSUME NEW m \in Message, Push(m) PROVE Fifo!Next
    <3>1. Fifo!Put(m)
      BY <2>1, PushAppends DEF Fifo!Put
    <3>2. QED
      BY <3>1 DEF Fifo!Next
  <2>2. CASE Pop
    BY <2>2, PopTakesHead DEF Fifo!Next, Fifo!Get
  <2>3. CASE PopEmpty \/ Overload \/ UNCHANGED vars
    BY <2>3 DEF PopEmpty, Overload, vars, Contents, Stored, Length
  <2>4. QED
    BY <2>1, <2>2, <2>3 DEF Next
<1>3. QED
  BY <1>1, <1>2, RingInductive, PTL DEF Spec, FifoSpec, Fifo!Spec
-----------------------------------------------------------------------------
(* The overload counter.                                                   *)

LEMMA Least ==
  ASSUME NEW S \in SUBSET Nat, S # {}
  PROVE  \E x \in S : \A y \in S : x <= y
<1> DEFINE R == {p \in Nat \X Nat : p[1] < p[2]}
<1>1. IsWellFoundedOn(R, Nat)
  BY NatLessThanWellFounded DEF OpToRel
<1> HIDE DEF R
<1>2. PICK x \in S : \A y \in S : <<y, x>> \notin R
  BY <1>1, WFMin
<1>3. ASSUME NEW y \in S, y < x PROVE FALSE
  <2>1. <<y, x>> \in R
    BY <1>3 DEF R
  <2> QED
    BY <1>2, <2>1
<1> QED
  BY <1>3

\* The turns of the doubling loop.
Turn(d, length) == IF length > d THEN 2 * d ELSE d

LEMMA DoublingTurns ==
  ASSUME NEW t, NEW length \in Nat
  PROVE  \E f : /\ Doubled(t, length) = f[length]
                /\ f[0] = t
                /\ \A k \in 1..length : f[k] = Turn(f[k - 1], length)
<1> DEFINE F(n, f) ==
             [k \in 0..n |-> IF k = 0 THEN t
                             ELSE IF length > f[k - 1] THEN 2 * f[k - 1] ELSE f[k - 1]]
           Bad == {n \in Nat : ~\E f : f = F(n, f)}
<1>1. Bad = {}
  <2> SUFFICES ASSUME Bad # {} PROVE FALSE
    OBVIOUS
  <2>0. Bad \subseteq Nat
    OBVIOUS
  <2>1. PICK n \in Bad : \A m \in Bad : n <= m
    <3> HIDE DEF Bad
    <3> QED
      BY <2>0, Least
  <2>2. ~\E f : f = F(n, f)
    OBVIOUS
  <2>3. n # 0
    <3>1. ASSUME n = 0 PROVE FALSE
      <4> DEFINE f == [k \in 0..0 |-> t]
      <4>1. \A k \in 0..n : k = 0
        BY <3>1
      <4>2. f = F(n, f)
        BY <4>1, <3>1
      <4> QED
        BY <2>2, <4>2
    <3> QED
      BY <3>1
  <2>4. PICK f : f = F(n - 1, f)
    <3>1. n - 1 \in Nat /\ ~(n <= n - 1)
      BY <2>3
    <3>2. n - 1 \notin Bad
      BY <2>1, <3>1
    <3> QED
      BY <3>1, <3>2
  <2> DEFINE g == [k \in 0..n |-> IF k = 0 THEN t
                                  ELSE IF length > f[k - 1] THEN 2 * f[k - 1] ELSE f[k - 1]]
  <2>5. \A k \in 0..n : k # 0 => g[k - 1] = f[k - 1]
    <3> SUFFICES ASSUME NEW k \in 0..n, k # 0 PROVE g[k - 1] = f[k - 1]
      OBVIOUS
    <3> DEFINE j == k - 1
    <3>1. j \in 0..n /\ j \in 0..(n - 1)
      BY <2>3
    <3> HIDE DEF j
    <3>2. f[j] = IF j = 0 THEN t
                 ELSE IF length > f[j - 1] THEN 2 * f[j - 1] ELSE f[j - 1]
      BY <2>4, <3>1
    <3>3. g[j] = IF j = 0 THEN t
                 ELSE IF length > f[j - 1] THEN 2 * f[j - 1] ELSE f[j - 1]
      BY <3>1
    <3> QED
      BY <3>2, <3>3 DEF j
  <2> HIDE DEF g
  <2>6. g = F(n, g)
    <3>1. \A k \in 0..n :
            (IF k = 0 THEN t ELSE IF length > f[k - 1] THEN 2 * f[k - 1] ELSE f[k - 1])
              = (IF k = 0 THEN t ELSE IF length > g[k - 1] THEN 2 * g[k - 1] ELSE g[k - 1])
      BY <2>5
    <3> QED
      BY <3>1 DEF g
  <2> QED
    BY <2>2, <2>6
<1>2. PICK f : f = F(length, f)
  BY <1>1
<1> DEFINE c == CHOOSE h : h = F(length, h)
<1>3. c = F(length, c)
  BY <1>2
<1>4. Doubled(t, length) = c[length]
  BY DEF Doubled
<1> HIDE DEF c
<1>5. c[0] = t /\ \A k \in 1..length : c[k] = Turn(c[k - 1], length)
  <2>1. 0 \in 0..length /\ \A k \in 1..length : k \in 0..length /\ k # 0
    OBVIOUS
  <2> QED
    BY <1>3, <2>1 DEF Turn
<1> QED
  BY <1>4, <1>5

\* The loop ends at a threshold the length does not pass, and no later.
LEMMA DoubledBounds ==
  ASSUME NEW t \in Nat \ {0}, NEW length \in Nat
  PROVE  /\ Doubled(t, length) \in Nat \ {0}
         /\ Doubled(t, length) >= t /\ Doubled(t, length) >= length
         /\ Doubled(t, length) # t => Doubled(t, length) < 2 * length /\ length > t
<1>1. PICK f : /\ Doubled(t, length) = f[length]
               /\ f[0] = t
               /\ \A k \in 1..length : f[k] = Turn(f[k - 1], length)
  BY DoublingTurns
<1> DEFINE P(k) == /\ f[k] \in Nat \ {0} /\ f[k] >= t
                   /\ f[k] >= length \/ f[k] >= k
                   /\ f[k] # t => f[k] < 2 * length /\ length > t
           Bad == {k \in 0..length : ~P(k)}
<1>2. P(0)
  BY <1>1
<1>3. ASSUME NEW k \in 1..length, P(k - 1) PROVE P(k)
  <2> DEFINE d == f[k - 1]
  <2>1. f[k] = IF length > d THEN 2 * d ELSE d
    BY <1>1 DEF Turn
  <2>2. /\ d \in Nat \ {0} /\ d >= t /\ (d >= length \/ d >= k - 1)
        /\ (d # t => d < 2 * length /\ length > t)
    BY <1>3
  <2> HIDE DEF d
  <2> QED
    BY <2>1, <2>2
<1> HIDE DEF P
<1>4. P(length)
  <2> SUFFICES ASSUME Bad # {} PROVE FALSE
    OBVIOUS
  <2>0. Bad \subseteq Nat
    OBVIOUS
  <2>1. PICK n \in Bad : \A m \in Bad : n <= m
    <3> HIDE DEF Bad
    <3> QED
      BY <2>0, Least
  <2>2. n \in 1..length /\ n - 1 \in 0..length /\ ~(n <= n - 1)
    BY <1>2
  <2>3. P(n - 1)
    BY <2>1, <2>2
  <2> QED
    BY <1>3, <2>2, <2>3
<1> QED
  BY <1>1, <1>4 DEF P

\* What was reported last does not pass the threshold, and what is to be
\* reported next does not either; twice that does, so the threshold is never
\* further up than its reset or the last report explains.
OverloadInv ==
  /\ threshold \in Nat /\ threshold >= MQ_OVERLOAD
  /\ overload \in Nat /\ report \in Nat /\ report <= threshold
  /\ overload # 0 =>
       /\ popped
       /\ overload > report /\ overload > MQ_OVERLOAD
       /\ overload <= threshold /\ threshold < 2 * overload
  /\ overload = 0 => threshold = MQ_OVERLOAD \/ threshold < 2 * report

LEMMA OverloadInit == Init => OverloadInv
BY RingAssumption DEF Init, OverloadInv

LEMMA OverloadStep == RInv /\ OverloadInv /\ [Next]_vars => OverloadInv'
<1> SUFFICES ASSUME RInv, OverloadInv, [Next]_vars PROVE OverloadInv'
  OBVIOUS
<1>0. /\ threshold \in Nat /\ threshold >= MQ_OVERLOAD /\ MQ_OVERLOAD \in Nat \ {0}
      /\ overload \in Nat /\ report \in Nat /\ report <= threshold
      /\ overload # 0 =>
           /\ popped
           /\ overload > report /\ overload > MQ_OVERLOAD
           /\ overload <= threshold /\ threshold < 2 * overload
      /\ overload = 0 => threshold = MQ_OVERLOAD \/ threshold < 2 * report
  BY RingAssumption DEF OverloadInv
<1>1. CASE Pop
  <2> DEFINE l == Length(NextSlot(head), tail, cap)
  <2>1. l \in Nat
    BY DEF RInv, RingType, Slots, Length, NextSlot
  <2>2. /\ ~popped /\ popped' /\ report' = report
        /\ overload' = (IF l > threshold THEN l ELSE overload)
        /\ threshold' = Doubled(threshold, l)
    BY <1>1 DEF Pop
  <2> HIDE DEF l
  <2>3. /\ threshold' \in Nat /\ threshold' >= threshold /\ threshold' >= l
        /\ threshold' # threshold => threshold' < 2 * l /\ l > threshold
    BY <1>0, <2>1, <2>2, DoubledBounds
  <2>4. overload = 0
    BY <1>0, <2>2
  <2>5. /\ overload' # 0 => overload' = l /\ l > threshold
        /\ overload' \in Nat
    BY <2>1, <2>2, <2>4
  <2>6. overload' # 0 => /\ overload' > report' /\ overload' > MQ_OVERLOAD
                         /\ overload' <= threshold' /\ threshold' < 2 * overload'
    BY <1>0, <2>1, <2>2, <2>3, <2>5
  <2>7. report' \in Nat /\ report' <= threshold' /\ threshold' >= MQ_OVERLOAD
    BY <1>0, <2>2, <2>3
  <2>8. overload' = 0 => threshold' = threshold /\ ~(l > threshold)
    BY <1>0, <2>1, <2>2, <2>3
  <2> QED
    BY <1>0, <2>2, <2>3, <2>4, <2>5, <2>6, <2>7, <2>8 DEF OverloadInv
<1>2. CASE PopEmpty
  <2>1. /\ ~popped /\ threshold' = MQ_OVERLOAD /\ report' = 0 /\ overload' = overload
    BY <1>2 DEF PopEmpty
  <2>2. overload' = 0
    BY <1>0, <2>1
  <2> QED
    BY <1>0, <2>1, <2>2 DEF OverloadInv
<1>3. CASE Overload
  <2>1. /\ overload' = 0 /\ threshold' = threshold
        /\ report' = IF overload # 0 THEN overload ELSE report
    BY <1>3 DEF Overload
  <2> QED
    BY <1>0, <2>1 DEF OverloadInv
<1>4. CASE (\E m \in Message : Push(m)) \/ UNCHANGED vars
  <2>1. UNCHANGED <<overload, threshold, report, popped>>
    BY <1>4 DEF Push, vars
  <2> QED
    BY <2>1 DEF OverloadInv
<1> QED
  BY <1>1, <1>2, <1>3, <1>4 DEF Next

\* Until the queue is found empty every report is of a greater length than the
\* one before, and a length of twice that is always reported; after that,
\* MQ_OVERLOAD is the measure again.
THEOREM OverloadsGrow == Spec => ReportsGrow
<1> DEFINE Reports ==
      ~popped /\ popped' =>
        /\ overload' # 0 =>
             overload' = Stored' /\ Stored' > report /\ Stored' > MQ_OVERLOAD
        /\ Stored' > MQ_OVERLOAD /\ Stored' >= 2 * report => overload' = Stored'
<1>1. RInv /\ OverloadInv /\ [Next]_vars => [Reports]_vars
  <2> SUFFICES ASSUME RInv, OverloadInv, [Next]_vars, ~popped, popped'
               PROVE  Reports
    OBVIOUS
  <2> DEFINE l == Length(NextSlot(head), tail, cap)
  <2>1. Pop
    BY DEF Next, Push, PopEmpty, Overload, vars
  <2>2. overload' = (IF l > threshold THEN l ELSE overload) /\ Stored' = l
    BY <2>1 DEF Pop, Stored
  <2>3. l \in Nat
    BY DEF RInv, RingType, Slots, Length, NextSlot
  <2> HIDE DEF l
  <2>4. /\ overload = 0 /\ threshold \in Nat /\ threshold >= MQ_OVERLOAD
        /\ report \in Nat /\ report <= threshold /\ MQ_OVERLOAD \in Nat \ {0}
        /\ threshold = MQ_OVERLOAD \/ threshold < 2 * report
    BY RingAssumption DEF OverloadInv
  <2> QED
    BY <2>2, <2>3, <2>4
<1> QED
  BY <1>1, OverloadInit, OverloadStep, RingInductive, PTL DEF Spec, ReportsGrow
=============================================================================
