---------------------------- MODULE RwLock_proofs ----------------------------
(***************************************************************************)
(* Proofs about RwLock, for every finite set of threads.                   *)
(***************************************************************************)
EXTENDS RwLock, FiniteSetTheorems, TLAPS

\* The readers that have counted themselves, and the writer that owns the flag.
CountedSet == {t \in Thread : Counted(t)}

\* The inductive invariant.  The count and the flag are exact, the flag has one
\* owner, and a writer inside excludes readers inside.  Readers that have
\* counted themselves and not looked again may coexist with a writer.
IInv ==
  /\ TypeOK
  /\ read = Cardinality(CountedSet)
  /\ \A t, u \in Thread : Flagged(t) /\ Flagged(u) => t = u
  /\ write = 1 <=> \E t \in Thread : Flagged(t)
  /\ \A t, u \in Thread : ~(at[t] = "writing" /\ at[u] = "reading")

LEMMA CountedFinite == IsFiniteSet(CountedSet) /\ Cardinality(CountedSet) \in Nat
<1>1. IsFiniteSet(CountedSet)
  BY ThreadAssumption, FS_Subset DEF CountedSet
<1> QED
  BY <1>1, FS_CardinalityType

\* What a step of one thread does to the set of counted readers.
LEMMA CountStays ==
  ASSUME TypeOK, NEW t \in Thread, NEW f \in Places, NEW g \in Places, Go(t, f, g),
         f \in {"rcheck", "rback", "reading"} <=> g \in {"rcheck", "rback", "reading"}
  PROVE  CountedSet' = CountedSet
  BY DEF TypeOK, Go, CountedSet, Counted

LEMMA CountGrows ==
  ASSUME TypeOK, NEW t \in Thread, Go(t, "rcount", "rcheck")
  PROVE  Cardinality(CountedSet') = Cardinality(CountedSet) + 1
<1>1. CountedSet' = CountedSet \cup {t}
  BY DEF TypeOK, Go, CountedSet, Counted
<1>2. t \notin CountedSet
  BY DEF Go, CountedSet, Counted
<1> QED
  BY <1>1, <1>2, CountedFinite, FS_AddElement

LEMMA CountShrinks ==
  ASSUME TypeOK, NEW t \in Thread, NEW f \in {"rback", "reading"},
         NEW g \in {"rwait", "out"}, Go(t, f, g)
  PROVE  /\ Cardinality(CountedSet') = Cardinality(CountedSet) - 1
         /\ Cardinality(CountedSet') \in Nat
<1>1. CountedSet' = CountedSet \ {t}
  BY DEF TypeOK, Go, CountedSet, Counted
<1>2. t \in CountedSet
  BY DEF Go, CountedSet, Counted
<1>3. IsFiniteSet(CountedSet \ {t})
  BY CountedFinite, FS_RemoveElement
<1> QED
  BY <1>1, <1>2, <1>3, CountedFinite, FS_RemoveElement, FS_CardinalityType

\* No reader is counted when the count is zero.
LEMMA NobodyCounted ==
  ASSUME IInv, read = 0
  PROVE  \A t \in Thread : ~Counted(t)
<1>1. CountedSet = {}
  BY CountedFinite, FS_EmptySet DEF IInv
<1> QED
  BY <1>1 DEF CountedSet

LEMMA LockInit == Init => IInv
<1> SUFFICES ASSUME Init PROVE IInv
  OBVIOUS
<1>1. CountedSet = {}
  BY DEF Init, CountedSet, Counted
<1>2. read = Cardinality(CountedSet)
  BY <1>1, FS_EmptySet DEF Init
<1> QED
  BY <1>2 DEF Init, IInv, TypeOK, Places, Flagged

LEMMA LockStep == IInv /\ [Next]_vars => IInv'
<1> SUFFICES ASSUME IInv, [Next]_vars PROVE IInv'
  OBVIOUS
<1> USE DEF Places
<1>0. TypeOK
  BY DEF IInv
<1>1. ASSUME NEW t \in Thread, CallRead(t) PROVE IInv'
  <2>1. CountedSet' = CountedSet
    BY <1>0, <1>1, CountStays DEF CallRead
  <2> QED
    BY <1>1, <2>1 DEF CallRead, Go, IInv, TypeOK, Flagged
<1>2. ASSUME NEW t \in Thread, CallWrite(t) PROVE IInv'
  <2>1. CountedSet' = CountedSet
    BY <1>0, <1>2, CountStays DEF CallWrite
  <2> QED
    BY <1>2, <2>1 DEF CallWrite, Go, IInv, TypeOK, Flagged
<1>3. ASSUME NEW t \in Thread, SeeNoWriter(t) PROVE IInv'
  <2>1. CountedSet' = CountedSet
    BY <1>0, <1>3, CountStays DEF SeeNoWriter
  <2> QED
    BY <1>3, <2>1 DEF SeeNoWriter, Go, IInv, TypeOK, Flagged
<1>4. ASSUME NEW t \in Thread, CountIn(t) PROVE IInv'
  <2>1. read' = Cardinality(CountedSet')
    BY <1>0, <1>4, CountGrows DEF CountIn, IInv
  <2> QED
    BY <1>4, <2>1 DEF CountIn, Go, IInv, TypeOK, Flagged
<1>5. ASSUME NEW t \in Thread, Check(t) PROVE IInv'
  <2>1. CASE write = 0
    <3>1. Go(t, "rcheck", "reading") /\ UNCHANGED <<write, read>>
      BY <1>5, <2>1 DEF Check
    <3>2. CountedSet' = CountedSet
      BY <1>0, <3>1, CountStays
    <3>3. \A u \in Thread : ~Flagged(u)
      BY <2>1 DEF IInv
    <3> QED
      BY <3>1, <3>2, <3>3 DEF Go, IInv, TypeOK, Flagged
  <2>2. CASE write # 0
    <3>1. Go(t, "rcheck", "rback") /\ UNCHANGED <<write, read>>
      BY <1>5, <2>2 DEF Check
    <3>2. CountedSet' = CountedSet
      BY <1>0, <3>1, CountStays
    <3> QED
      BY <3>1, <3>2 DEF Go, IInv, TypeOK, Flagged
  <2> QED
    BY <2>1, <2>2
<1>6. ASSUME NEW t \in Thread, CountOut(t) PROVE IInv'
  <2>1. read' = Cardinality(CountedSet') /\ read' \in Nat
    BY <1>0, <1>6, CountShrinks DEF CountOut, IInv
  <2> QED
    BY <1>6, <2>1 DEF CountOut, Go, IInv, TypeOK, Flagged
<1>7. ASSUME NEW t \in Thread, RUnlock(t) PROVE IInv'
  <2>1. read' = Cardinality(CountedSet') /\ read' \in Nat
    BY <1>0, <1>7, CountShrinks DEF RUnlock, IInv
  <2> QED
    BY <1>7, <2>1 DEF RUnlock, Go, IInv, TypeOK, Flagged
<1>8. ASSUME NEW t \in Thread, SetFlag(t) PROVE IInv'
  <2>1. CountedSet' = CountedSet
    BY <1>0, <1>8, CountStays DEF SetFlag
  <2>2. \A u \in Thread : ~Flagged(u)
    BY <1>8 DEF SetFlag, IInv
  <2> QED
    BY <1>8, <2>1, <2>2 DEF SetFlag, Go, IInv, TypeOK, Flagged
<1>9. ASSUME NEW t \in Thread, Drain(t) PROVE IInv'
  <2>1. CountedSet' = CountedSet
    BY <1>0, <1>9, CountStays DEF Drain
  <2>2. \A u \in Thread : at[u] # "reading"
    BY <1>9, NobodyCounted DEF Drain, Counted
  <2> QED
    BY <1>9, <2>1, <2>2 DEF Drain, Go, IInv, TypeOK, Flagged
<1>10. ASSUME NEW t \in Thread, WUnlock(t) PROVE IInv'
  <2>1. CountedSet' = CountedSet
    BY <1>0, <1>10, CountStays DEF WUnlock
  <2>2. \A u \in Thread : Flagged(u) => u = t
    BY <1>10 DEF WUnlock, Go, IInv, Flagged
  <2> QED
    BY <1>10, <2>1, <2>2 DEF WUnlock, Go, IInv, TypeOK, Flagged
<1>11. CASE UNCHANGED vars
  BY <1>11 DEF vars, IInv, TypeOK, CountedSet, Counted, Flagged
<1> QED
  BY <1>1, <1>2, <1>3, <1>4, <1>5, <1>6, <1>7, <1>8, <1>9, <1>10, <1>11
  DEF Next, Reader, Writer

LEMMA LockInvariant == Safety => []IInv
  BY LockInit, LockStep, PTL DEF Safety

\* A writer excludes every other thread, for any number of threads: the mutual
\* exclusion of rwlock.h.
THEOREM LockExcludes == Safety => []Exclusive
<1>1. IInv => Exclusive
  BY DEF IInv, Exclusive, Flagged
<1> QED
  BY <1>1, LockInvariant, PTL

\* lock->read is the number of readers that have counted themselves, lock->write
\* the number of writers (none or one) that own the flag.
THEOREM LockBalanced == Safety => []Balanced
<1>1. ASSUME IInv PROVE Balanced
  <2>1. read = Cardinality({t \in Thread : Counted(t)})
    BY <1>1 DEF IInv, CountedSet
  <2>2. CASE write = 0
    <3>1. {t \in Thread : Flagged(t)} = {}
      BY <1>1, <2>2 DEF IInv
    <3> QED
      BY <2>1, <2>2, <3>1, FS_EmptySet DEF Balanced
  <2>3. CASE write = 1
    <3>1. PICK t \in Thread : Flagged(t)
      BY <1>1, <2>3 DEF IInv
    <3>2. {u \in Thread : Flagged(u)} = {t}
      BY <1>1, <3>1 DEF IInv
    <3> QED
      BY <2>1, <2>3, <3>2, FS_Singleton DEF Balanced
  <2> QED
    BY <1>1, <2>2, <2>3 DEF IInv, TypeOK
<1> QED
  BY <1>1, LockInvariant, PTL
=============================================================================
