-------------------------- MODULE SkynetHandle_proofs --------------------------
(***************************************************************************)
(* The references to a context are counted exactly, for any number of      *)
(* threads, also several that create contexts, any width of the handles    *)
(* and any size of the table.  With one creating thread every context is   *)
(* where its handle leads, and skynet_handle_retireall leaves none.  A     *)
(* name is found exactly when it is in the array.                          *)
(***************************************************************************)
EXTENDS SkynetHandle, FiniteSetTheorems, FunctionTheorems, SequenceTheorems,
        WellFoundedInduction, TLAPS

Tables(n) == [0..n - 1 -> Ctx \cup {None}]

\* The part of the types that the references need.
RegType ==
  /\ Size \in Nat \ {0}
  /\ slot \in Tables(Size)
  /\ handle_index \in Nat
  /\ handle \in [Ctx -> Nat]
  /\ ref \in [Ctx -> Nat]
  /\ held \in [Thread -> SUBSET Ctx]
  /\ job \in [Thread -> [op : JobOps, ctx : Ctx \cup {None}, handle : Nat]]
  /\ \A t \in Thread :
       job[t].op \in {"register", "store", "drop"} => job[t].ctx \in Ctx

RInv == RegType /\ RefExact
-----------------------------------------------------------------------------
(* Tables.                                                                 *)

LEMMA SizeOf ==
  ASSUME NEW n \in Nat \ {0}, NEW table \in Tables(n)
  PROVE  DOMAIN table = 0..n - 1 /\ Cardinality(DOMAIN table) = n
<1>1. DOMAIN table = 0..n - 1
  BY DEF Tables
<1>2. Cardinality(0..n - 1) = n
  BY FS_Interval
<1> QED
  BY <1>1, <1>2

LEMMA HashInTable ==
  ASSUME NEW n \in Nat \ {0}, NEW h \in Nat
  PROVE  h % n \in 0..n - 1
OBVIOUS

LEMMA FirstTable ==
  LET empty == [i \in 0..FirstSize - 1 |-> None]
  IN  empty \in Tables(FirstSize) /\ Cardinality(DOMAIN empty) = FirstSize
<1> DEFINE empty == [i \in 0..FirstSize - 1 |-> None]
<1>1. empty \in Tables(FirstSize) /\ FirstSize \in Nat \ {0}
  BY HandleAssumption DEF Tables
<1> HIDE DEF empty
<1>2. Cardinality(DOMAIN empty) = FirstSize
  BY <1>1, SizeOf
<1> QED
  BY <1>1, <1>2 DEF empty

\* Where register puts a context.
LEMMA PlaceEffect ==
  ASSUME RegType, NEW t \in Thread, NEW n \in Nat \ {0}, NEW table \in Tables(n),
         Place(t, table)
  PROVE  \E p \in 0..Mask :
           /\ p % n \in 0..n - 1
           /\ table[p % n] = None
           /\ slot' = [table EXCEPT ![p % n] = job[t].ctx]
           /\ handle_index' = p + 1
           /\ Become(t, Job("store", job[t].ctx, Harbor + p))
           /\ UNCHANGED <<name, ctxVars, all, stop>>
<1>1. Cardinality(DOMAIN table) = n
  BY SizeOf
<1>2. PICK i \in FreeTurns(table) :
        /\ slot' = [table EXCEPT ![Probe(i) % n] = job[t].ctx]
        /\ handle_index' = Probe(i) + 1
        /\ Become(t, Job("store", job[t].ctx, Harbor + Probe(i)))
        /\ UNCHANGED <<name, ctxVars, all, stop>>
  BY <1>1 DEF Place
<1>3. i \in Nat /\ table[Probe(i) % n] = None
  BY <1>1, <1>2 DEF FreeTurns
<1>4. Probe(i) \in 0..Mask
  BY <1>3, HandleAssumption DEF Probe, RegType
<1>5. Probe(i) % n \in 0..n - 1
  <2>1. Probe(i) \in Nat
    BY <1>4, HandleAssumption
  <2>2. QED
    BY <2>1, HashInTable
<1> QED
  BY <1>2, <1>3, <1>4, <1>5

\* Where a doubled table has the contexts.
LEMMA DoubledEffect ==
  ASSUME RegType, CanGrow
  PROVE  /\ Doubled \in Tables(2 * Size)
         /\ \A i \in DOMAIN slot : slot[i] # None =>
              Target(i) \in 0..2 * Size - 1 /\ Doubled[Target(i)] = slot[i]
         /\ \A k \in 0..2 * Size - 1 : Doubled[k] # None =>
              \E i \in DOMAIN slot : Target(i) = k /\ Doubled[k] = slot[i]
<1> DEFINE n == Size
<1>1. n \in Nat \ {0} /\ slot \in Tables(n) /\ DOMAIN slot = 0..n - 1
  BY DEF RegType, Tables
<1>2. \A i \in DOMAIN slot : slot[i] \in Ctx \cup {None}
  BY <1>1 DEF Tables
<1>3. \A i \in DOMAIN slot : slot[i] # None => Target(i) \in 0..2 * n - 1
  <2> SUFFICES ASSUME NEW i \in DOMAIN slot, slot[i] # None
               PROVE  Target(i) \in 0..2 * n - 1
    OBVIOUS
  <2>1. handle[slot[i]] \in Nat /\ 2 * n \in Nat \ {0}
    BY <1>1, <1>2 DEF RegType
  <2>2. QED
    BY <2>1, HashInTable DEF Target
<1>4. \A k \in 0..2 * n - 1 :
        \/ \E i \in DOMAIN slot : Target(i) = k /\ Doubled[k] = slot[i]
        \/ Doubled[k] = None /\ ~\E i \in DOMAIN slot : Target(i) = k
  BY DEF Doubled
<1>5. Doubled \in Tables(2 * n)
  <2>1. \A k \in 0..2 * n - 1 : Doubled[k] \in Ctx \cup {None}
    BY <1>2, <1>4
  <2>2. Doubled = [k \in 0..2 * n - 1 |-> Doubled[k]]
    BY DEF Doubled
  <2>3. QED
    BY <2>1, <2>2 DEF Tables
<1>6. \A i, j \in DOMAIN slot : Target(i) = Target(j) => i = j
  BY DEF CanGrow
<1> QED
  BY <1>3, <1>4, <1>5, <1>6
-----------------------------------------------------------------------------
(* References.                                                             *)

\* The sum of RefExact is of finite sets.
References(c) ==
  Cardinality(InTable(c)) + Cardinality(Moving(c)) + Cardinality(Holding(c))

LEMMA SetsFinite ==
  ASSUME RegType, NEW c \in Ctx
  PROVE  /\ IsFiniteSet(InTable(c)) /\ Cardinality(InTable(c)) \in Nat
         /\ IsFiniteSet(Moving(c)) /\ Cardinality(Moving(c)) \in Nat
         /\ IsFiniteSet(Holding(c)) /\ Cardinality(Holding(c)) \in Nat
<1>1. IsFiniteSet(DOMAIN slot)
  <2>1. DOMAIN slot = 0..Size - 1 /\ Size \in Nat
    BY DEF RegType, Tables
  <2>2. QED
    BY <2>1, FS_Interval
<1>2. IsFiniteSet(InTable(c))
  BY <1>1, FS_Subset DEF InTable
<1>3. IsFiniteSet(Moving(c)) /\ IsFiniteSet(Holding(c))
  BY HandleAssumption, FS_Subset DEF Moving, Holding
<1> QED
  BY <1>2, <1>3, FS_CardinalityType

\* A context that has no reference is in none of the sets, and the other way.
LEMMA Unreferenced ==
  ASSUME RInv, NEW c \in Ctx
  PROVE  ref[c] = 0 <=> InTable(c) = {} /\ Moving(c) = {} /\ Holding(c) = {}
<1>1. ref[c] = References(c)
  BY DEF RInv, RefExact, References
<1>2. \A S : IsFiniteSet(S) => (Cardinality(S) = 0 <=> S = {})
  BY FS_EmptySet
<1>3. /\ Cardinality(InTable(c)) \in Nat /\ Cardinality(Moving(c)) \in Nat
      /\ Cardinality(Holding(c)) \in Nat
  BY SetsFinite DEF RInv
<1>4. /\ Cardinality(InTable(c)) = 0 <=> InTable(c) = {}
      /\ Cardinality(Moving(c)) = 0 <=> Moving(c) = {}
      /\ Cardinality(Holding(c)) = 0 <=> Holding(c) = {}
  BY <1>2, SetsFinite DEF RInv
<1> QED
  BY <1>1, <1>3, <1>4 DEF References

\* One reference more or less, in one of the sets.
LEMMA OneMore ==
  ASSUME NEW S, NEW x, IsFiniteSet(S), Cardinality(S) \in Nat, x \notin S
  PROVE  Cardinality(S \cup {x}) = Cardinality(S) + 1
BY FS_AddElement

LEMMA OneLess ==
  ASSUME NEW S, NEW x, IsFiniteSet(S), Cardinality(S) \in Nat, x \in S
  PROVE  Cardinality(S \ {x}) = Cardinality(S) - 1
BY FS_RemoveElement

\* What a change of job does to the contexts on their way.
LEMMA JobChange ==
  ASSUME RegType, NEW t \in Thread, NEW j, Become(t, j), NEW c \in Ctx
  PROVE  Moving(c)' = IF j.op \in {"register", "drop"} /\ j.ctx = c
                      THEN Moving(c) \cup {t} ELSE Moving(c) \ {t}
BY DEF RegType, Become, Moving

\* A doubled table has every context as often as the old one.
LEMMA DoublingKeeps ==
  ASSUME RegType, CanGrow, NEW c \in Ctx
  PROVE  LET S == {k \in DOMAIN Doubled : Doubled[k] = c}
         IN  IsFiniteSet(S) /\ Cardinality(S) = Cardinality(InTable(c))
<1> DEFINE S == {k \in DOMAIN Doubled : Doubled[k] = c}
           move == [i \in InTable(c) |-> Target(i)]
<1>1. DOMAIN Doubled = 0..2 * Size - 1 /\ c # None
  BY DoubledEffect, HandleAssumption DEF Tables
<1>2. \A i \in InTable(c) : i \in DOMAIN slot /\ slot[i] = c /\ Target(i) \in S
  BY <1>1, DoubledEffect DEF InTable
<1>3. \A i, j \in InTable(c) : Target(i) = Target(j) => i = j
  BY DEF CanGrow, InTable
<1>4. \A k \in S : \E i \in InTable(c) : Target(i) = k
  BY <1>1, DoubledEffect DEF InTable
<1> HIDE DEF S
<1>5. move \in Bijection(InTable(c), S)
  BY <1>2, <1>3, <1>4 DEF Bijection, Injection, Surjection, IsInjective
<1>6. ExistsBijection(InTable(c), S)
  BY <1>5 DEF ExistsBijection
<1>7. IsFiniteSet(S) /\ Cardinality(S) = Cardinality(InTable(c))
  BY <1>6, SetsFinite, FS_Bijection
<1> QED
  BY <1>7 DEF S
-----------------------------------------------------------------------------
(* The program has ended.                                                  *)

LEMMA Cleared ==
  ASSUME slot = [i \in 0..FirstSize - 1 |-> None], handle_index = 1,
         handle = [c \in Ctx |-> 0], ref = [c \in Ctx |-> 0],
         held = [t \in Thread |-> {}], job = [t \in Thread |-> Idle]
  PROVE  RInv
<1>1. RegType
  <2>1. slot \in Tables(FirstSize) /\ Size = FirstSize
    BY FirstTable DEF Size
  <2>2. QED
    BY <2>1, HandleAssumption DEF RegType, Idle, Job, JobOps
<1>2. \A c \in Ctx : InTable(c) = {} /\ Moving(c) = {} /\ Holding(c) = {}
  BY HandleAssumption DEF InTable, Moving, Holding, Idle, Job
<1>3. RefExact
  <2> SUFFICES ASSUME NEW c \in Ctx PROVE ref[c] = References(c)
    BY DEF RefExact, References
  <2>1. /\ Cardinality(InTable(c)) = 0 /\ Cardinality(Moving(c)) = 0
        /\ Cardinality(Holding(c)) = 0
    BY <1>2, FS_EmptySet
  <2>2. QED
    BY <2>1 DEF References
<1> QED
  BY <1>1, <1>3 DEF RInv

LEMMA FailKeeps == (\E why : Fail(why)) => RInv'
<1>1. /\ slot = [i \in 0..FirstSize - 1 |-> None] /\ handle_index = 1
      /\ handle = [c \in Ctx |-> 0] /\ ref = [c \in Ctx |-> 0]
      /\ held = [t \in Thread |-> {}] /\ job = [t \in Thread |-> Idle]
      => RInv
  BY Cleared
<1>2. (/\ slot = [i \in 0..FirstSize - 1 |-> None] /\ handle_index = 1
       /\ handle = [c \in Ctx |-> 0] /\ ref = [c \in Ctx |-> 0]
       /\ held = [t \in Thread |-> {}] /\ job = [t \in Thread |-> Idle])'
      => RInv'
  BY <1>1, PTL
<1> QED
  BY <1>2 DEF Fail
-----------------------------------------------------------------------------
(* The steps, one by one.                                                  *)

\* What has to be shown of a step, in the names of this module.
Counts(c) == ref'[c] = Cardinality(InTable(c)') + Cardinality(Moving(c)')
                         + Cardinality(Holding(c)')

LEMMA CountsAreRefExact == (\A c \in Ctx : Counts(c)) => RefExact'
BY DEF Counts, RefExact

LEMMA CountedBefore ==
  ASSUME RInv, NEW c \in Ctx
  PROVE  ref[c] = References(c)
BY DEF RInv, RefExact, References

LEMMA CreateStep ==
  ASSUME RInv, NEW t \in Thread, NEW d \in Ctx, Create(t, d)
  PROVE  RInv'
<1>1. UNCHANGED <<slot, handle_index, handle>> /\ ref' = [ref EXCEPT ![d] = 2]
      /\ held' = [held EXCEPT ![t] = @ \cup {d}] /\ held[t] = {} /\ ref[d] = 0
      /\ Become(t, Job("register", d, 0)) /\ job[t] = Idle
  BY DEF Create, Free, Keep, tableVars
<1>2. RegType'
  BY <1>1 DEF RInv, RegType, Size, Become, Job, JobOps
<1>3. ASSUME NEW c \in Ctx PROVE Counts(c)
  <2>1. InTable(c)' = InTable(c)
    BY <1>1 DEF InTable
  <2>2. Moving(c)' = IF c = d THEN Moving(c) \cup {t} ELSE Moving(c) \ {t}
    BY <1>1, JobChange DEF RInv, Job
  <2>3. t \notin Moving(c)
    BY <1>1 DEF Moving, Idle, Job
  <2>4. Holding(c)' = IF c = d THEN Holding(c) \cup {t} ELSE Holding(c)
    BY <1>1 DEF Holding, RInv, RegType
  <2>5. t \notin Holding(c)
    BY <1>1 DEF Holding
  <2>6. CASE c = d
    <3>1. InTable(c) = {} /\ Moving(c) = {} /\ Holding(c) = {}
      BY <1>1, <2>6, Unreferenced
    <3>2. Moving(c)' = {t} /\ Holding(c)' = {t} /\ InTable(c)' = {}
      BY <2>1, <2>2, <2>4, <2>6, <3>1
    <3>3. Cardinality({t}) = 1 /\ Cardinality({}) = 0
      BY FS_EmptySet, FS_Singleton
    <3>4. ref'[c] = 2
      BY <1>1, <2>6 DEF RInv, RegType
    <3>5. QED
      BY <3>2, <3>3, <3>4 DEF Counts
  <2>7. CASE c # d
    <3>1. Moving(c)' = Moving(c) /\ Holding(c)' = Holding(c) /\ ref'[c] = ref[c]
      BY <1>1, <2>2, <2>3, <2>4, <2>7 DEF RInv, RegType
    <3>2. QED
      BY <2>1, <3>1, CountedBefore DEF Counts, References
  <2>8. QED
    BY <2>6, <2>7
<1> QED
  BY <1>2, <1>3, CountsAreRefExact DEF RInv

\* Register on a table of n slots: slot itself, or the doubled one.
LEMMA PlaceStep ==
  ASSUME RInv, NEW t \in Thread, Doing(t, "register"),
         NEW n \in Nat \ {0}, NEW table \in Tables(n), Place(t, table),
         \A c \in Ctx :
           LET S == {k \in DOMAIN table : table[k] = c}
           IN  IsFiniteSet(S) /\ Cardinality(S) = Cardinality(InTable(c))
  PROVE  RInv'
<1>1. PICK p \in 0..Mask :
           /\ p % n \in 0..n - 1
           /\ table[p % n] = None
           /\ slot' = [table EXCEPT ![p % n] = job[t].ctx]
           /\ handle_index' = p + 1
           /\ Become(t, Job("store", job[t].ctx, Harbor + p))
           /\ UNCHANGED <<name, ctxVars, all, stop>>
  BY PlaceEffect DEF RInv
<1> DEFINE x == p % n
           d == job[t].ctx
<1>2. job[t].op = "register" /\ d \in Ctx
  BY DEF Doing, RInv, RegType
<1>3. DOMAIN table = 0..n - 1 /\ UNCHANGED <<ref, held, handle>>
  BY <1>1, SizeOf DEF ctxVars
<1>4. RegType'
  <2>1. slot' \in Tables(n)
    BY <1>1, <1>2 DEF Tables
  <2>2. Size' = n
    BY <2>1, SizeOf DEF Size
  <2>3. Harbor + p \in Nat /\ p + 1 \in Nat
    BY HandleAssumption
  <2>4. QED
    BY <1>1, <1>2, <1>3, <2>1, <2>2, <2>3 DEF RInv, RegType, Become, Job, JobOps
<1>5. ASSUME NEW c \in Ctx PROVE Counts(c)
  <2> DEFINE S == {k \in DOMAIN table : table[k] = c}
  <2>1. IsFiniteSet(S) /\ Cardinality(S) = Cardinality(InTable(c))
    OBVIOUS
  <2>2. x \notin S /\ InTable(c)' = IF c = d THEN S \cup {x} ELSE S
    BY <1>1, <1>3, HandleAssumption DEF InTable, Tables
  <2>3. Moving(c)' = Moving(c) \ {t} /\ (t \in Moving(c) <=> c = d)
    BY <1>1, <1>2, JobChange DEF RInv, Job, Moving
  <2>4. Holding(c)' = Holding(c)
    BY <1>3 DEF Holding
  <2> HIDE DEF S, x
  <2>5. Cardinality(InTable(c)) \in Nat /\ Cardinality(Moving(c)) \in Nat
        /\ Cardinality(Holding(c)) \in Nat /\ IsFiniteSet(Moving(c))
    BY SetsFinite DEF RInv
  <2>6. ref'[c] = References(c)
    BY <1>3, CountedBefore
  <2>7. CASE c = d
    <3>1. Cardinality(InTable(c)') = Cardinality(InTable(c)) + 1
      BY <2>1, <2>2, <2>5, <2>7, OneMore
    <3>2. Cardinality(Moving(c)') = Cardinality(Moving(c)) - 1
      BY <2>3, <2>5, <2>7, OneLess
    <3>3. QED
      BY <2>4, <2>5, <2>6, <3>1, <3>2 DEF Counts, References
  <2>8. CASE c # d
    <3>1. Cardinality(InTable(c)') = Cardinality(InTable(c))
      BY <2>1, <2>2, <2>8
    <3>2. Moving(c)' = Moving(c)
      BY <2>3, <2>8
    <3>3. QED
      BY <2>4, <2>5, <2>6, <3>1, <3>2 DEF Counts, References
  <2>9. QED
    BY <2>7, <2>8
<1> QED
  BY <1>4, <1>5, CountsAreRefExact DEF RInv

LEMMA RegisterStep ==
  ASSUME RInv, NEW t \in Thread, Register(t)
  PROVE  RInv'
<1>1. CASE Place(t, slot)
  <2>1. slot \in Tables(Size) /\ Size \in Nat \ {0} /\ Doing(t, "register")
    BY DEF RInv, RegType, Register
  <2>2. \A c \in Ctx : LET S == {k \in DOMAIN slot : slot[k] = c}
                       IN  IsFiniteSet(S) /\ Cardinality(S) = Cardinality(InTable(c))
    BY SetsFinite DEF InTable, RInv
  <2>3. QED
    BY <1>1, <2>1, <2>2, PlaceStep
<1>2. CASE CanGrow /\ Place(t, Doubled)
  <2>1. Doubled \in Tables(2 * Size) /\ 2 * Size \in Nat \ {0} /\ Doing(t, "register")
    BY <1>2, DoubledEffect DEF RInv, RegType, Register
  <2>2. \A c \in Ctx : LET S == {k \in DOMAIN Doubled : Doubled[k] = c}
                       IN  IsFiniteSet(S) /\ Cardinality(S) = Cardinality(InTable(c))
    BY <1>2, DoublingKeeps DEF RInv
  <2>3. QED
    BY <1>2, <2>1, <2>2, PlaceStep
<1>3. CASE Fail("assert")
  BY <1>3, FailKeeps
<1> QED
  BY <1>1, <1>2, <1>3 DEF Register

\* A step that changes the job of one thread and no reference.
LEMMA JobOnly ==
  ASSUME RInv, NEW t \in Thread, job[t].op \notin {"register", "drop"},
         NEW j \in [op : JobOps, ctx : Ctx \cup {None}, handle : Nat],
         Become(t, j), j.op \in {"idle", "retire"},
         UNCHANGED <<slot, handle_index, ref, held>>, handle' \in [Ctx -> Nat]
  PROVE  RInv'
<1>1. RegType'
  BY DEF RInv, RegType, Become, Size
<1>2. ASSUME NEW c \in Ctx PROVE Counts(c)
  <2>1. InTable(c)' = InTable(c) /\ Holding(c)' = Holding(c) /\ ref'[c] = ref[c]
    BY DEF InTable, Holding
  <2>2. Moving(c)' = Moving(c)
    BY JobChange DEF RInv, Moving
  <2>3. QED
    BY <2>1, <2>2, CountedBefore DEF Counts, References
<1> QED
  BY <1>1, <1>2, CountsAreRefExact DEF RInv

LEMMA StoreStep ==
  ASSUME RInv, NEW t \in Thread, StoreHandle(t)
  PROVE  RInv'
<1>1. job[t].op = "store" /\ Become(t, Idle)
      /\ UNCHANGED <<slot, handle_index, ref, held>>
      /\ handle' = [handle EXCEPT ![job[t].ctx] = job[t].handle]
  BY DEF StoreHandle, Doing, Keep, tableVars
<1>2. handle' \in [Ctx -> Nat]
  BY <1>1 DEF RInv, RegType
<1>3. Idle \in [op : JobOps, ctx : Ctx \cup {None}, handle : Nat] /\ Idle.op = "idle"
  BY DEF Idle, Job, JobOps
<1> QED
  BY <1>1, <1>2, <1>3, JobOnly

LEMMA GrabStep ==
  ASSUME RInv, NEW t \in Thread, NEW h \in Handles, Grab(t, h)
  PROVE  RInv'
<1> DEFINE d == slot[Hash(h)]
<1>1. d # None /\ held[t] = {} /\ ref' = [ref EXCEPT ![d] = @ + 1]
      /\ held' = [held EXCEPT ![t] = @ \cup {d}]
      /\ UNCHANGED <<slot, handle_index, handle, job>>
  BY DEF Grab, Knows, Keep, tableVars
<1>2. d \in Ctx
  <2>1. h \in Nat
    BY HandleAssumption DEF Handles
  <2>2. Hash(h) \in 0..Size - 1
    BY <2>1, HashInTable DEF Hash, RInv, RegType
  <2>3. QED
    BY <1>1, <2>2 DEF RInv, RegType, Tables
<1> HIDE DEF d
<1>3. RegType'
  BY <1>1, <1>2 DEF RInv, RegType, Size
<1>4. ASSUME NEW c \in Ctx PROVE Counts(c)
  <2>1. InTable(c)' = InTable(c) /\ Moving(c)' = Moving(c)
    BY <1>1 DEF InTable, Moving
  <2>2. t \notin Holding(c)
        /\ Holding(c)' = IF c = d THEN Holding(c) \cup {t} ELSE Holding(c)
    BY <1>1, <1>2 DEF Holding, RInv, RegType
  <2>3. ref'[c] = IF c = d THEN ref[c] + 1 ELSE ref[c]
    BY <1>1, <1>2 DEF RInv, RegType
  <2>4. Cardinality(Holding(c)') = IF c = d THEN Cardinality(Holding(c)) + 1
                                            ELSE Cardinality(Holding(c))
    BY <2>2, SetsFinite, OneMore DEF RInv
  <2>5. /\ Cardinality(InTable(c)) \in Nat /\ Cardinality(Moving(c)) \in Nat
        /\ Cardinality(Holding(c)) \in Nat
    BY SetsFinite DEF RInv
  <2>6. QED
    BY <2>1, <2>3, <2>4, <2>5, CountedBefore DEF Counts, References
<1> QED
  BY <1>3, <1>4, CountsAreRefExact DEF RInv

\* A reference that is given back was one of the count.
LEMMA GiveBackType ==
  ASSUME RInv, NEW d \in Ctx, Moving(d) # {} \/ Holding(d) # {}, GiveBack(d)
  PROVE  /\ ref' \in [Ctx -> Nat] /\ handle' \in [Ctx -> Nat]
         /\ \A c \in Ctx : ref'[c] = IF c = d THEN ref[c] - 1 ELSE ref[c]
<1>1. ref[d] \in Nat \ {0}
  BY Unreferenced DEF RInv, RegType
<1> QED
  BY <1>1 DEF GiveBack, RInv, RegType

LEMMA ReleaseStep ==
  ASSUME RInv, NEW t \in Thread, NEW d \in Ctx, Release(t, d)
  PROVE  RInv'
<1>1. d \in held[t] /\ GiveBack(d) /\ held' = [held EXCEPT ![t] = @ \ {d}]
      /\ UNCHANGED <<slot, handle_index, job>>
  BY DEF Release, Keep, tableVars
<1>2. t \in Holding(d)
  BY <1>1 DEF Holding
<1>3. /\ ref' \in [Ctx -> Nat] /\ handle' \in [Ctx -> Nat]
      /\ \A c \in Ctx : ref'[c] = IF c = d THEN ref[c] - 1 ELSE ref[c]
  BY <1>1, <1>2, GiveBackType
<1>4. RegType'
  BY <1>1, <1>3 DEF RInv, RegType, Size
<1>5. ASSUME NEW c \in Ctx PROVE Counts(c)
  <2>1. InTable(c)' = InTable(c) /\ Moving(c)' = Moving(c)
    BY <1>1 DEF InTable, Moving
  <2>2. Holding(c)' = IF c = d THEN Holding(c) \ {t} ELSE Holding(c)
    BY <1>1 DEF Holding, RInv, RegType
  <2>3. Cardinality(Holding(c)') = IF c = d THEN Cardinality(Holding(c)) - 1
                                            ELSE Cardinality(Holding(c))
    BY <1>2, <2>2, SetsFinite, OneLess DEF RInv
  <2>4. /\ Cardinality(InTable(c)) \in Nat /\ Cardinality(Moving(c)) \in Nat
        /\ Cardinality(Holding(c)) \in Nat
    BY SetsFinite DEF RInv
  <2>5. QED
    BY <1>3, <2>1, <2>3, <2>4, CountedBefore DEF Counts, References
<1> QED
  BY <1>4, <1>5, CountsAreRefExact DEF RInv

LEMMA DropStep ==
  ASSUME RInv, NEW t \in Thread, Drop(t)
  PROVE  RInv'
<1> DEFINE d == job[t].ctx
<1>1. job[t].op = "drop" /\ GiveBack(d) /\ Become(t, Idle)
      /\ UNCHANGED <<slot, handle_index, held>>
  BY DEF Drop, Doing, tableVars
<1>2. d \in Ctx /\ t \in Moving(d)
  BY <1>1 DEF RInv, RegType, Moving
<1>3. /\ ref' \in [Ctx -> Nat] /\ handle' \in [Ctx -> Nat]
      /\ \A c \in Ctx : ref'[c] = IF c = d THEN ref[c] - 1 ELSE ref[c]
  BY <1>1, <1>2, GiveBackType
<1>4. RegType'
  BY <1>1, <1>3 DEF RInv, RegType, Size, Become, Idle, Job, JobOps
<1>5. ASSUME NEW c \in Ctx PROVE Counts(c)
  <2>1. InTable(c)' = InTable(c) /\ Holding(c)' = Holding(c)
    BY <1>1 DEF InTable, Holding
  <2>2. Moving(c)' = Moving(c) \ {t} /\ (t \in Moving(c) <=> c = d)
    BY <1>1, JobChange DEF RInv, Idle, Job, Moving
  <2>3. Cardinality(Moving(c)') = IF c = d THEN Cardinality(Moving(c)) - 1
                                           ELSE Cardinality(Moving(c))
    <3>1. CASE c = d
      BY <2>2, <3>1, SetsFinite, OneLess DEF RInv
    <3>2. CASE c # d
      <4>1. Moving(c)' = Moving(c)
        BY <2>2, <3>2
      <4>2. QED
        BY <3>2, <4>1
    <3>3. QED
      BY <3>1, <3>2
  <2>4. /\ Cardinality(InTable(c)) \in Nat /\ Cardinality(Moving(c)) \in Nat
        /\ Cardinality(Holding(c)) \in Nat
    BY SetsFinite DEF RInv
  <2>5. QED
    BY <1>3, <2>1, <2>3, <2>4, CountedBefore DEF Counts, References
<1> QED
  BY <1>4, <1>5, CountsAreRefExact DEF RInv

LEMMA RetireHitStep ==
  ASSUME RInv, NEW t \in Thread, NEW h \in Handles, RetireHit(t, h)
  PROVE  RInv'
<1> DEFINE x == Hash(h)
           d == slot[x]
<1>1. d # None /\ slot' = [slot EXCEPT ![x] = None] /\ Become(t, Job("drop", d, 0))
      /\ UNCHANGED <<handle_index, handle, ref, held>> /\ Asked(t, h)
  BY DEF RetireHit, Knows, ctxVars
<1>2. x \in 0..Size - 1 /\ d \in Ctx
  <2>1. h \in Nat
    BY HandleAssumption DEF Handles
  <2>2. x \in 0..Size - 1
    BY <2>1, HashInTable DEF Hash, RInv, RegType
  <2>3. QED
    BY <1>1, <2>2 DEF RInv, RegType, Tables
<1>3. job[t].op \in {"idle", "retire"}
  BY <1>1 DEF Asked, Free, Doing, Idle, Job
<1> HIDE DEF x, d
<1>4. RegType'
  <2>1. slot' \in Tables(Size) /\ Size' = Size
    BY <1>1, <1>2 DEF RInv, RegType, Tables, Size
  <2>2. QED
    BY <1>1, <1>2, <2>1 DEF RInv, RegType, Become, Job, JobOps
<1>5. ASSUME NEW c \in Ctx PROVE Counts(c)
  <2>1. InTable(c)' = InTable(c) \ {x} /\ (x \in InTable(c) <=> c = d)
    BY <1>1, <1>2, HandleAssumption DEF InTable, d, RInv, RegType, Tables
  <2>2. t \notin Moving(c)
        /\ Moving(c)' = IF c = d THEN Moving(c) \cup {t} ELSE Moving(c) \ {t}
    BY <1>1, <1>3, JobChange DEF RInv, Job, Moving
  <2>3. Holding(c)' = Holding(c) /\ ref'[c] = References(c)
    BY <1>1, CountedBefore DEF Holding
  <2>4. /\ Cardinality(InTable(c)) \in Nat /\ Cardinality(Moving(c)) \in Nat
        /\ Cardinality(Holding(c)) \in Nat /\ IsFiniteSet(InTable(c))
        /\ IsFiniteSet(Moving(c))
    BY SetsFinite DEF RInv
  <2>5. CASE c = d
    <3>1. Cardinality(InTable(c)') = Cardinality(InTable(c)) - 1
      BY <2>1, <2>4, <2>5, OneLess
    <3>2. Cardinality(Moving(c)') = Cardinality(Moving(c)) + 1
      BY <2>2, <2>4, <2>5, OneMore
    <3>3. QED
      BY <2>3, <2>4, <3>1, <3>2 DEF Counts, References
  <2>6. CASE c # d
    <3>1. InTable(c)' = InTable(c) /\ Moving(c)' = Moving(c)
      BY <2>1, <2>2, <2>6
    <3>2. QED
      BY <2>3, <3>1 DEF Counts, References
  <2>7. QED
    BY <2>5, <2>6
<1> QED
  BY <1>4, <1>5, CountsAreRefExact DEF RInv

\* The loop of skynet_handle_retireall.
ScanType == all \in [Thread -> [on : BOOLEAN, i : Nat, found : BOOLEAN]]

LEMMA AdvanceType ==
  ASSUME ScanType, NEW t \in Thread, NEW retired \in BOOLEAN, Advance(t, retired)
  PROVE  ScanType'
<1>1. CASE all[t].on
  <2>1. all' = [all EXCEPT ![t] = [all[t] EXCEPT !.i = @ + 1, !.found = @ \/ retired]]
    BY <1>1 DEF Advance, ScanType
  <2>2. all[t].i + 1 \in Nat
    BY DEF ScanType
  <2>3. (all[t].found \/ retired) \in BOOLEAN
    OBVIOUS
  <2>4. [all[t] EXCEPT !.i = @ + 1, !.found = @ \/ retired]
          \in [on : BOOLEAN, i : Nat, found : BOOLEAN]
    BY <2>2, <2>3 DEF ScanType
  <2>5. QED
    BY <2>1, <2>4 DEF ScanType
<1>2. CASE ~all[t].on
  BY <1>2 DEF Advance, ScanType
<1> QED
  BY <1>1, <1>2

LEMMA ScanStep == ScanType /\ [Next]_vars => ScanType'
<1> SUFFICES ASSUME ScanType, [Next]_vars PROVE ScanType'
  OBVIOUS
<1>1. NoScan \in [on : BOOLEAN, i : Nat, found : BOOLEAN]
  BY DEF NoScan
<1>2. ASSUME NEW why, Fail(why) PROVE ScanType'
  BY <1>1, <1>2 DEF Fail, ScanType
<1>3. ASSUME all' = all PROVE ScanType'
  BY <1>3 DEF ScanType
<1>4. ASSUME NEW t \in Thread, NEW c \in Ctx, Create(t, c) \/ Release(t, c)
      PROVE  ScanType'
  BY <1>3, <1>4 DEF Create, Release, Keep
<1>5. ASSUME NEW t \in Thread, Register(t) PROVE ScanType'
  BY <1>2, <1>3, <1>5 DEF Register, Place
<1>6. ASSUME NEW t \in Thread, StoreHandle(t) PROVE ScanType'
  BY <1>3, <1>6 DEF StoreHandle, Keep
<1>7. ASSUME NEW t \in Thread, NEW h \in Handles, Grab(t, h) \/ RetireHit(t, h)
      PROVE  ScanType'
  BY <1>3, <1>7 DEF Grab, RetireHit, Keep
<1>8. ASSUME NEW t \in Thread, NEW h \in Handles, RetireNull(t, h) \/ RetireMiss(t, h)
      PROVE  ScanType'
  BY <1>2, <1>8, AdvanceType DEF RetireNull, RetireMiss
<1>9. ASSUME NEW t \in Thread, Drop(t) PROVE ScanType'
  BY <1>9, AdvanceType DEF Drop
<1>10. ASSUME NEW t \in Thread, Peek(t) PROVE ScanType'
  BY <1>3, <1>10, AdvanceType DEF Peek
<1>11. ASSUME NEW t \in Thread, CallRetireAll(t) \/ EndPass(t) PROVE ScanType'
  <2>1. [NoScan EXCEPT !.on = TRUE] \in [on : BOOLEAN, i : Nat, found : BOOLEAN]
        /\ [NoScan EXCEPT !.on = all[t].found] \in [on : BOOLEAN, i : Nat, found : BOOLEAN]
    BY DEF NoScan, ScanType
  <2>2. QED
    BY <1>11, <2>1 DEF CallRetireAll, EndPass, ScanType
<1>12. ASSUME NEW t \in Thread, NEW c \in Ctx, NEW n \in Name, NameHandle(t, c, n)
       PROVE  ScanType'
  BY <1>3, <1>12 DEF NameHandle
<1>13. CASE UNCHANGED vars
  BY <1>3, <1>13 DEF vars
<1> QED
  BY <1>4, <1>5, <1>6, <1>7, <1>8, <1>9, <1>10, <1>11, <1>12, <1>13 DEF Next

LEMMA SameRefs ==
  ASSUME RInv, UNCHANGED <<slot, handle_index, handle, ref, held, job>>
  PROVE  RInv'
BY DEF RInv, RegType, RefExact, InTable, Moving, Holding, Size

LEMMA PeekStep ==
  ASSUME RInv, ScanType, NEW t \in Thread, Peek(t)
  PROVE  RInv'
<1> DEFINE c == slot[all[t].i]
           h == IF c = None THEN 0 ELSE handle[c]
<1>1. job[t] = Idle /\ UNCHANGED <<slot, handle_index, handle, ref, held>>
      /\ (job' = job \/ Become(t, Job("retire", None, h)))
  BY DEF Peek, Scanning, tableVars, ctxVars
<1>2. all[t].i \in 0..Size - 1
  BY DEF Peek, ScanType, RInv, RegType
<1>3. h \in Nat
  BY <1>2 DEF RInv, RegType, Tables
<1> HIDE DEF h
<1>4. CASE Become(t, Job("retire", None, h))
  <2>1. Job("retire", None, h) \in [op : JobOps, ctx : Ctx \cup {None}, handle : Nat]
    BY <1>3 DEF Job, JobOps
  <2>2. job[t].op \notin {"register", "drop"} /\ Job("retire", None, h).op = "retire"
    BY <1>1 DEF Idle, Job
  <2>3. handle' \in [Ctx -> Nat]
    BY <1>1 DEF RInv, RegType
  <2>4. QED
    BY <1>1, <1>4, <2>1, <2>2, <2>3, JobOnly
<1> QED
  BY <1>1, <1>4, SameRefs

LEMMA RetireMissStep ==
  ASSUME RInv, NEW t \in Thread, NEW h \in Handles, RetireMiss(t, h)
  PROVE  RInv'
<1>1. UNCHANGED <<slot, handle_index, handle, ref, held>> /\ Become(t, Idle)
      /\ Asked(t, h)
  BY DEF RetireMiss, tableVars, ctxVars
<1>2. job[t].op \notin {"register", "drop"}
  BY <1>1 DEF Asked, Free, Doing, Idle, Job
<1>3. Idle \in [op : JobOps, ctx : Ctx \cup {None}, handle : Nat] /\ Idle.op = "idle"
  BY DEF Idle, Job, JobOps
<1>4. handle' \in [Ctx -> Nat]
  BY <1>1 DEF RInv, RegType
<1> QED
  BY <1>1, <1>2, <1>3, <1>4, JobOnly

LEMMA RefInit == Init => RInv /\ ScanType
<1> SUFFICES ASSUME Init PROVE RInv /\ ScanType
  OBVIOUS
<1>1. RInv
  BY Cleared DEF Init
<1>2. ScanType
  BY DEF Init, ScanType, NoScan
<1> QED
  BY <1>1, <1>2

LEMMA RefStep == RInv /\ ScanType /\ [Next]_vars => RInv'
<1> SUFFICES ASSUME RInv, ScanType, [Next]_vars PROVE RInv'
  OBVIOUS
<1>1. ASSUME NEW t \in Thread, NEW c \in Ctx, Create(t, c) \/ Release(t, c)
      PROVE  RInv'
  BY <1>1, CreateStep, ReleaseStep
<1>2. ASSUME NEW t \in Thread, Register(t) \/ StoreHandle(t) PROVE RInv'
  BY <1>2, RegisterStep, StoreStep
<1>3. ASSUME NEW t \in Thread, NEW h \in Handles,
             Grab(t, h) \/ RetireHit(t, h) \/ RetireMiss(t, h)
      PROVE  RInv'
  BY <1>3, GrabStep, RetireHitStep, RetireMissStep
<1>4. ASSUME NEW t \in Thread, NEW h \in Handles, RetireNull(t, h) PROVE RInv'
  BY <1>4, FailKeeps DEF RetireNull
<1>5. ASSUME NEW t \in Thread, Drop(t) \/ Peek(t) PROVE RInv'
  BY <1>5, DropStep, PeekStep
<1>6. ASSUME NEW t \in Thread, CallRetireAll(t) \/ EndPass(t) PROVE RInv'
  BY <1>6, SameRefs DEF CallRetireAll, EndPass, tableVars, ctxVars
<1>7. ASSUME NEW t \in Thread, NEW c \in Ctx, NEW n \in Name, NameHandle(t, c, n)
      PROVE  RInv'
  BY <1>7, SameRefs DEF NameHandle, ctxVars
<1>8. CASE UNCHANGED vars
  BY <1>8, SameRefs DEF vars, tableVars, ctxVars
<1> QED
  BY <1>1, <1>2, <1>3, <1>4, <1>5, <1>6, <1>7, <1>8 DEF Next

LEMMA RefInvariant == Spec => [](RInv /\ ScanType)
BY RefInit, RefStep, ScanStep, PTL DEF Spec

\* No context is deleted while the table, a retirement or a thread has it, and
\* none outlives its last reference, whoever registers, grabs, retires and
\* releases.
THEOREM ReferencesExact == Spec => []RefExact
<1>1. RInv => RefExact
  BY DEF RInv
<1> QED
  BY <1>1, RefInvariant, PTL
-----------------------------------------------------------------------------
(* Rests.                                                                  *)

LEMMA DivMod ==
  ASSUME NEW n \in Nat \ {0}, NEW x \in Nat
  PROVE  /\ x \div n \in Nat /\ x % n \in 0..n - 1
         /\ x = n * (x \div n) + (x % n)
OBVIOUS

\* A multiple of n between -n and n is zero.
LEMMA Multiple ==
  ASSUME NEW n \in Nat \ {0}, NEW k \in Int, n * k < n, n * k > -n
  PROVE  k = 0
<1>1. CASE k >= 1
  <2>1. n * k >= n
    BY <1>1
  <2> QED
    BY <2>1
<1>2. CASE k <= -1
  <2>1. n * k <= -n
    BY <1>2
  <2> QED
    BY <2>1
<1> QED
  BY <1>1, <1>2

LEMMA ModUnique ==
  ASSUME NEW n \in Nat \ {0}, NEW k \in Nat, NEW s \in 0..n - 1
  PROVE  (n * k + s) % n = s
<1> DEFINE x == n * k + s
           q == x \div n
           r == x % n
<1>1. x \in Nat
  OBVIOUS
<1>2. q \in Nat /\ r \in 0..n - 1 /\ x = n * q + r
  <2> HIDE DEF x
  <2>1. QED
    BY <1>1, DivMod
<1>3. n * k + s = n * q + r
  BY <1>2
<1> HIDE DEF q, r, x
<1>4. n * (k - q) = r - s
  BY <1>2, <1>3
<1>5. k - q = 0
  BY <1>2, <1>4, Multiple
<1>6. r = s
  BY <1>2, <1>4, <1>5
<1> QED
  BY <1>6 DEF r, x

\* A multiple of n does not change the rest.
LEMMA ModSum ==
  ASSUME NEW n \in Nat \ {0}, NEW a \in Nat, a % n = 0, NEW p \in Nat
  PROVE  (a + p) % n = p % n
<1> DEFINE q == a \div n
           r == p \div n
           s == p % n
<1>1. q \in Nat /\ a = n * q
  BY DivMod
<1>2. r \in Nat /\ s \in 0..n - 1 /\ p = n * r + s
  BY DivMod
<1> HIDE DEF q, r, s
<1>3. a + p = n * (q + r) + s /\ q + r \in Nat
  BY <1>1, <1>2
<1>4. (n * (q + r) + s) % n = s
  BY <1>2, <1>3, ModUnique
<1> QED
  BY <1>3, <1>4 DEF s

\* A divisor of a divisor is one.
LEMMA ModTrans ==
  ASSUME NEW n \in Nat \ {0}, NEW m \in Nat \ {0}, NEW a \in Nat, m % n = 0, a % m = 0
  PROVE  a % n = 0
<1> DEFINE j == m \div n
           k == a \div m
<1>1. j \in Nat /\ m = n * j /\ k \in Nat /\ a = m * k
  BY DivMod
<1> HIDE DEF j, k
<1> DEFINE w == j * k
<1>2. a = n * w + 0 /\ w \in Nat
  BY <1>1
<1> HIDE DEF w
<1>3. 0 \in 0..n - 1
  OBVIOUS
<1>4. (n * w + 0) % n = 0
  BY <1>2, <1>3, ModUnique
<1> QED
  BY <1>2, <1>4
-----------------------------------------------------------------------------
(* Contexts are found by their handle when one thread creates them.        *)

OneCreator == \A t, u \in Creator : t = u

\* A context whose creator has not stored its handle has none, and is held by
\* its creator; one that is not registered yet is not in the table.
Fresh ==
  \A t \in Thread :
    /\ job[t].op \in {"register", "store"} =>
         t \in Creator /\ job[t].ctx \in held[t] /\ handle[job[t].ctx] = 0
    /\ job[t].op = "register" => \A i \in DOMAIN slot : slot[i] # job[t].ctx

FInv ==
  /\ (Mask + 1) % Size = 0
  /\ FoundByHandle
  /\ Fresh
  /\ \A c \in Ctx : ref[c] = 0 => handle[c] = 0

\* A step that takes contexts out of the table, or handles from contexts, and
\* starts no creation.
LEMMA FoundKeeps ==
  ASSUME RegType, FInv, slot' \in Tables(Size),
         \A i \in DOMAIN slot : slot'[i] = slot[i] \/ slot'[i] = None,
         \A c \in Ctx : handle'[c] = handle[c] \/ handle'[c] = 0,
         \A c \in Ctx : ref'[c] = 0 => handle'[c] = 0,
         \A u \in Thread : job'[u].op \in {"register", "store"} =>
                             job'[u] = job[u] /\ held[u] \subseteq held'[u]
  PROVE  FInv'
<1>1. Size' = Size /\ DOMAIN slot' = DOMAIN slot
  BY SizeOf DEF Size, RegType, Tables
<1>2. \A i \in DOMAIN slot : slot'[i] # None => slot'[i] = slot[i] /\ slot[i] \in Ctx
  BY DEF RegType, Tables
<1>3. FoundByHandle'
  BY <1>1, <1>2 DEF FInv, FoundByHandle, Hash
<1>4. Fresh'
  <2> SUFFICES ASSUME NEW u \in Thread, job'[u].op \in {"register", "store"}
               PROVE  /\ u \in Creator /\ job'[u].ctx \in held'[u]
                      /\ handle'[job'[u].ctx] = 0
                      /\ job'[u].op = "register" =>
                           \A i \in DOMAIN slot' : slot'[i] # job'[u].ctx
    BY DEF Fresh
  <2>1. job'[u] = job[u] /\ held[u] \subseteq held'[u]
    OBVIOUS
  <2>2. job[u].ctx \in Ctx
    BY <2>1 DEF RegType
  <2>3. u \in Creator /\ job[u].ctx \in held[u] /\ handle[job[u].ctx] = 0
    BY <2>1 DEF FInv, Fresh
  <2>4. job[u].op = "register" => \A i \in DOMAIN slot : slot[i] # job[u].ctx
    BY DEF FInv, Fresh
  <2>5. job[u].ctx # None
    BY <2>2, HandleAssumption
  <2>6. QED
    BY <1>1, <1>2, <2>1, <2>2, <2>3, <2>4, <2>5
<1> QED
  BY <1>1, <1>3, <1>4 DEF FInv

LEMMA FoundCleared ==
  ASSUME slot = [i \in 0..FirstSize - 1 |-> None], handle = [c \in Ctx |-> 0],
         job = [t \in Thread |-> Idle]
  PROVE  FInv
<1>1. Size = FirstSize
  BY FirstTable DEF Size
<1>2. (Mask + 1) % Size = 0
  BY <1>1, HandleAssumption
<1>3. FoundByHandle /\ Fresh /\ \A c \in Ctx : ref[c] = 0 => handle[c] = 0
  BY DEF FoundByHandle, Fresh, Idle, Job
<1> QED
  BY <1>2, <1>3 DEF FInv

LEMMA FoundFail == (\E why : Fail(why)) => FInv'
<1>1. /\ slot = [i \in 0..FirstSize - 1 |-> None] /\ handle = [c \in Ctx |-> 0]
      /\ job = [t \in Thread |-> Idle]
      => FInv
  BY FoundCleared
<1>2. (/\ slot = [i \in 0..FirstSize - 1 |-> None] /\ handle = [c \in Ctx |-> 0]
       /\ job = [t \in Thread |-> Idle])'
      => FInv'
  BY <1>1, PTL
<1> QED
  BY <1>2 DEF Fail

LEMMA FoundCreate ==
  ASSUME OneCreator, RInv, FInv, NEW t \in Thread, NEW d \in Ctx, Create(t, d)
  PROVE  FInv'
<1>1. UNCHANGED <<slot, handle>> /\ ref' = [ref EXCEPT ![d] = 2]
      /\ held' = [held EXCEPT ![t] = @ \cup {d}] /\ ref[d] = 0
      /\ Become(t, Job("register", d, 0)) /\ job[t] = Idle /\ t \in Creator
  BY DEF Create, Free, Keep, tableVars
<1>2. job' = [job EXCEPT ![t] = Job("register", d, 0)]
  BY <1>1 DEF Become
<1>3. \A u \in Thread : job[u].op \in {"register", "store"} => FALSE
  BY <1>1 DEF FInv, Fresh, OneCreator, Idle, Job
<1>4. \A i \in DOMAIN slot : slot[i] # d
  BY <1>1, Unreferenced DEF InTable
<1>5. handle[d] = 0
  BY <1>1 DEF FInv
<1>6. job'[t] = Job("register", d, 0) /\ \A u \in Thread \ {t} : job'[u] = job[u]
  BY <1>2 DEF RInv, RegType
<1>7. FoundByHandle' /\ Size' = Size
  BY <1>1, <1>3, <1>6 DEF FInv, FoundByHandle, Hash, Size, Job
<1>8. Fresh'
  BY <1>1, <1>3, <1>4, <1>5, <1>6 DEF Fresh, Job, RInv, RegType
<1>9. \A c \in Ctx : ref'[c] = 0 => handle'[c] = 0
  BY <1>1 DEF FInv, RInv, RegType
<1> QED
  BY <1>7, <1>8, <1>9 DEF FInv

LEMMA FoundPlace ==
  ASSUME OneCreator, RInv, FInv, NEW t \in Thread, Doing(t, "register"),
         NEW n \in Nat \ {0}, NEW table \in Tables(n), Place(t, table),
         (Mask + 1) % n = 0,
         \A i \in 0..n - 1 : table[i] # None =>
           /\ table[i] # job[t].ctx
           /\ handle[table[i]] # 0 => handle[table[i]] % n = i
  PROVE  FInv'
<1>1. PICK p \in 0..Mask :
           /\ p % n \in 0..n - 1
           /\ table[p % n] = None
           /\ slot' = [table EXCEPT ![p % n] = job[t].ctx]
           /\ handle_index' = p + 1
           /\ Become(t, Job("store", job[t].ctx, Harbor + p))
           /\ UNCHANGED <<name, ctxVars, all, stop>>
  BY PlaceEffect DEF RInv
<1> DEFINE x == p % n
           d == job[t].ctx
<1>2. job[t].op = "register" /\ d \in Ctx /\ d # None
  BY HandleAssumption DEF Doing, RInv, RegType
<1>3. UNCHANGED <<ref, held, handle>>
  BY <1>1 DEF ctxVars
<1>4. slot' \in Tables(n) /\ Size' = n /\ DOMAIN slot' = 0..n - 1
  <2>1. slot' \in Tables(n)
    BY <1>1, <1>2 DEF Tables
  <2>2. QED
    BY <2>1, SizeOf DEF Size
<1>5. job'[t] = Job("store", d, Harbor + p) /\ \A u \in Thread \ {t} : job'[u] = job[u]
  BY <1>1 DEF RInv, RegType, Become
<1>6. t \in Creator /\ d \in held[t] /\ handle[d] = 0
  BY <1>2 DEF FInv, Fresh
<1>7. \A u \in Thread \ {t} : job[u].op \notin {"register", "store"}
  BY <1>6 DEF FInv, Fresh, OneCreator
<1>8. (Harbor + p) % n = x
  <2>1. Harbor \in Nat /\ p \in Nat /\ Mask + 1 \in Nat \ {0}
    BY HandleAssumption
  <2>2. Harbor % n = 0
    BY <2>1, HandleAssumption, ModTrans
  <2>3. QED
    BY <2>1, <2>2, ModSum
<1> HIDE DEF x, d
<1>9. slot'[x] = d /\ x \in 0..n - 1 /\ \A i \in (0..n - 1) \ {x} : slot'[i] = table[i]
  BY <1>1 DEF x, d, Tables
<1>10. FoundByHandle'
  <2> SUFFICES ASSUME NEW i \in 0..n - 1, slot'[i] # None
               PROVE  /\ handle'[slot'[i]] # 0 => handle'[slot'[i]] % n = i
                      /\ \A u \in Thread :
                           job'[u].op = "store" /\ job'[u].ctx = slot'[i] =>
                             job'[u].handle % n = i
    BY <1>4 DEF FoundByHandle, Hash
  <2>1. CASE i = x
    BY <1>3, <1>5, <1>6, <1>7, <1>8, <1>9, <2>1 DEF Job
  <2>2. CASE i # x
    <3>1. slot'[i] = table[i]
      BY <1>9, <2>2
    <3>2. slot'[i] # d /\ (handle[slot'[i]] # 0 => handle[slot'[i]] % n = i)
      BY <3>1 DEF d
    <3>3. \A u \in Thread :
            job'[u].op = "store" /\ job'[u].ctx = slot'[i] => FALSE
      BY <1>5, <1>7, <3>2 DEF Job
    <3>4. QED
      BY <1>3, <3>2, <3>3
  <2>3. QED
    BY <2>1, <2>2
<1>11. Fresh'
  BY <1>3, <1>5, <1>6, <1>7 DEF Fresh, Job
<1>12. (Mask + 1) % n = 0 /\ \A c \in Ctx : ref'[c] = 0 => handle'[c] = 0
  BY <1>3 DEF FInv
<1> QED
  BY <1>4, <1>10, <1>11, <1>12 DEF FInv

LEMMA FoundRegister ==
  ASSUME OneCreator, RInv, FInv, NEW t \in Thread, Register(t)
  PROVE  FInv'
<1>1. Doing(t, "register") /\ Size \in Nat \ {0} /\ slot \in Tables(Size)
      /\ DOMAIN slot = 0..Size - 1
  BY SizeOf DEF Register, RInv, RegType
<1>2. \A i \in DOMAIN slot : slot[i] # job[t].ctx
  BY <1>1 DEF Doing, FInv, Fresh
<1>3. CASE Place(t, slot)
  <2>1. \A i \in 0..Size - 1 : slot[i] # None =>
           /\ slot[i] # job[t].ctx
           /\ handle[slot[i]] # 0 => handle[slot[i]] % Size = i
    BY <1>1, <1>2 DEF FInv, FoundByHandle, Hash
  <2>2. (Mask + 1) % Size = 0
    BY DEF FInv
  <2>3. QED
    BY <1>1, <1>3, <2>1, <2>2, FoundPlace
<1>4. CASE CanGrow /\ Place(t, Doubled)
  <2>1. /\ Doubled \in Tables(2 * Size)
        /\ \A k \in 0..2 * Size - 1 : Doubled[k] # None =>
             \E i \in DOMAIN slot : Target(i) = k /\ Doubled[k] = slot[i]
    BY <1>4, DoubledEffect DEF RInv
  <2>2. \A k \in 0..2 * Size - 1 : Doubled[k] # None =>
           /\ Doubled[k] # job[t].ctx
           /\ handle[Doubled[k]] # 0 => handle[Doubled[k]] % (2 * Size) = k
    BY <1>2, <2>1 DEF Target
  <2>3. (Mask + 1) % (2 * Size) = 0
    <3> DEFINE n == Size
    <3>1. n \in Nat \ {0} /\ 2 * n - 1 <= Mask /\ (Mask + 1) % n = 0
      BY <1>1, <1>4 DEF CanGrow, FInv
    <3> HIDE DEF n
    <3>2. n \in 1..Mask /\ 2 * n <= Mask + 1
      BY <3>1, HandleAssumption
    <3>3. (Mask + 1) % (2 * n) = 0
      BY <3>1, <3>2, HandleAssumption
    <3>4. QED
      BY <3>3 DEF n
  <2>4. 2 * Size \in Nat \ {0}
    BY <1>1
  <2>5. QED
    BY <1>1, <1>4, <2>1, <2>2, <2>3, <2>4, FoundPlace
<1>5. CASE Fail("assert")
  BY <1>5, FoundFail
<1> QED
  BY <1>3, <1>4, <1>5 DEF Register

LEMMA FoundStore ==
  ASSUME OneCreator, RInv, FInv, NEW t \in Thread, StoreHandle(t)
  PROVE  FInv'
<1> DEFINE d == job[t].ctx
           h == job[t].handle
<1>1. job[t].op = "store" /\ Become(t, Idle) /\ UNCHANGED <<slot, ref, held>>
      /\ handle' = [handle EXCEPT ![d] = h]
  BY DEF StoreHandle, Doing, Keep, tableVars
<1>2. d \in Ctx /\ t \in Creator /\ d \in held[t] /\ h \in Nat
  BY <1>1 DEF RInv, RegType, FInv, Fresh
<1>3. \A u \in Thread \ {t} : job[u].op \notin {"register", "store"}
  BY <1>2 DEF FInv, Fresh, OneCreator
<1>4. job'[t] = Idle /\ \A u \in Thread \ {t} : job'[u] = job[u]
  BY <1>1 DEF RInv, RegType, Become
<1>5. \A u \in Thread : job'[u].op \notin {"register", "store"}
  BY <1>3, <1>4 DEF Idle, Job
<1>6. \A i \in DOMAIN slot : slot[i] = d => Hash(h) = i
  BY <1>1, <1>2, HandleAssumption DEF FInv, FoundByHandle
<1>7. \A c \in Ctx : handle'[c] = IF c = d THEN h ELSE handle[c]
  BY <1>1 DEF RInv, RegType
<1>8. \A i \in DOMAIN slot : slot[i] # None => slot[i] \in Ctx
  BY DEF RInv, RegType, Tables
<1>9. Size' = Size /\ DOMAIN slot' = DOMAIN slot
  BY <1>1 DEF Size
<1>10. FoundByHandle'
  <2> SUFFICES ASSUME NEW i \in DOMAIN slot, slot[i] # None, handle'[slot[i]] # 0
               PROVE  handle'[slot[i]] % Size = i
    BY <1>1, <1>5, <1>9 DEF FoundByHandle, Hash
  <2>1. CASE slot[i] = d
    BY <1>2, <1>6, <1>7, <2>1 DEF Hash
  <2>2. CASE slot[i] # d
    BY <1>7, <1>8, <2>2 DEF FInv, FoundByHandle, Hash
  <2>3. QED
    BY <2>1, <2>2
<1>11. Fresh'
  BY <1>5 DEF Fresh
<1>12. ref[d] # 0
  <2>1. t \in Holding(d)
    BY <1>2 DEF Holding
  <2>2. QED
    BY <1>2, <2>1, Unreferenced
<1>13. \A c \in Ctx : ref'[c] = 0 => handle'[c] = 0
  BY <1>1, <1>7, <1>12 DEF FInv
<1> QED
  BY <1>9, <1>10, <1>11, <1>13 DEF FInv

\* The other steps start no creation.
LEMMA FoundGrab ==
  ASSUME RInv, FInv, NEW t \in Thread, NEW h \in Handles, Grab(t, h)
  PROVE  FInv'
<1> DEFINE d == slot[Hash(h)]
<1>1. ref' = [ref EXCEPT ![d] = @ + 1] /\ held' = [held EXCEPT ![t] = @ \cup {d}]
      /\ UNCHANGED <<slot, handle, job>>
  BY DEF Grab, Keep, tableVars
<1> HIDE DEF d
<1>2. \A c \in Ctx : ref'[c] = 0 => handle'[c] = 0
  BY <1>1 DEF FInv, RInv, RegType
<1>3. \A u \in Thread : held[u] \subseteq held'[u]
  BY <1>1 DEF RInv, RegType
<1> QED
  BY <1>1, <1>2, <1>3, FoundKeeps DEF RInv, RegType

LEMMA FoundGiveBack ==
  ASSUME RInv, FInv, NEW d \in Ctx, GiveBack(d), Moving(d) # {} \/ Holding(d) # {}
  PROVE  /\ \A c \in Ctx : handle'[c] = handle[c] \/ handle'[c] = 0
         /\ \A c \in Ctx : ref'[c] = 0 => handle'[c] = 0
<1>1. \A c \in Ctx : handle'[c] = IF c = d /\ ref[d] = 1 THEN 0 ELSE handle[c]
  BY DEF GiveBack, RInv, RegType
<1>2. ref[d] \in Nat \ {0}
  BY Unreferenced DEF RInv, RegType
<1>3. \A c \in Ctx : ref'[c] = IF c = d THEN ref[c] - 1 ELSE ref[c]
  BY GiveBackType
<1> QED
  BY <1>1, <1>2, <1>3 DEF FInv

LEMMA FoundRelease ==
  ASSUME RInv, FInv, NEW t \in Thread, NEW d \in Ctx, Release(t, d)
  PROVE  FInv'
<1>1. d \in held[t] /\ GiveBack(d) /\ held' = [held EXCEPT ![t] = @ \ {d}]
      /\ UNCHANGED <<slot, job>> /\ job[t] = Idle
  BY DEF Release, Free, Keep, tableVars
<1>2. t \in Holding(d)
  BY <1>1 DEF Holding
<1>3. \A u \in Thread : job'[u].op \in {"register", "store"} =>
                          job'[u] = job[u] /\ held[u] \subseteq held'[u]
  BY <1>1 DEF RInv, RegType, Idle, Job
<1> QED
  BY <1>1, <1>2, <1>3, FoundGiveBack, FoundKeeps DEF RInv, RegType

LEMMA FoundDrop ==
  ASSUME RInv, FInv, NEW t \in Thread, Drop(t)
  PROVE  FInv'
<1> DEFINE d == job[t].ctx
<1>1. job[t].op = "drop" /\ GiveBack(d) /\ Become(t, Idle) /\ UNCHANGED <<slot, held>>
  BY DEF Drop, Doing, tableVars
<1>2. d \in Ctx /\ t \in Moving(d)
  BY <1>1 DEF RInv, RegType, Moving
<1>3. \A u \in Thread : job'[u].op \in {"register", "store"} =>
                          job'[u] = job[u] /\ held[u] \subseteq held'[u]
  BY <1>1 DEF RInv, RegType, Become, Idle, Job
<1> QED
  BY <1>1, <1>2, <1>3, FoundGiveBack, FoundKeeps DEF RInv, RegType

\* Steps that take a context out of the table, or change a job to no creation.
LEMMA FoundJob ==
  ASSUME RInv, FInv, NEW t \in Thread, UNCHANGED <<handle, ref, held>>,
         slot' \in Tables(Size),
         \A i \in DOMAIN slot : slot'[i] = slot[i] \/ slot'[i] = None,
         job' = job \/ \E j : Become(t, j) /\ j.op \notin {"register", "store"}
  PROVE  FInv'
<1>1. \A u \in Thread : job'[u].op \in {"register", "store"} =>
                          job'[u] = job[u] /\ held[u] \subseteq held'[u]
  BY DEF RInv, RegType, Become
<1>2. \A c \in Ctx : ref'[c] = 0 => handle'[c] = 0
  BY DEF FInv
<1> QED
  BY <1>1, <1>2, FoundKeeps DEF RInv

LEMMA FoundRetireHit ==
  ASSUME RInv, FInv, NEW t \in Thread, NEW h \in Handles, RetireHit(t, h)
  PROVE  FInv'
<1> DEFINE x == Hash(h)
<1>1. slot' = [slot EXCEPT ![x] = None] /\ Become(t, Job("drop", slot[x], 0))
      /\ UNCHANGED <<handle, ref, held>>
  BY DEF RetireHit, ctxVars
<1>2. Job("drop", slot[x], 0).op \notin {"register", "store"}
  BY DEF Job
<1> HIDE DEF x
<1>3. slot' \in Tables(Size) /\ \A i \in DOMAIN slot : slot'[i] = slot[i] \/ slot'[i] = None
  BY <1>1 DEF RInv, RegType, Tables
<1> QED
  BY <1>1, <1>2, <1>3, FoundJob

LEMMA FoundStep == OneCreator /\ RInv /\ FInv /\ [Next]_vars => FInv'
<1> SUFFICES ASSUME OneCreator, RInv, FInv, [Next]_vars PROVE FInv'
  OBVIOUS
<1>1. slot \in Tables(Size)
  BY DEF RInv, RegType
<1>2. ASSUME NEW t \in Thread, NEW c \in Ctx, Create(t, c) \/ Release(t, c)
      PROVE  FInv'
  BY <1>2, FoundCreate, FoundRelease
<1>3. ASSUME NEW t \in Thread, Register(t) \/ StoreHandle(t) \/ Drop(t) PROVE FInv'
  BY <1>3, FoundRegister, FoundStore, FoundDrop
<1>4. ASSUME NEW t \in Thread, NEW h \in Handles, Grab(t, h) \/ RetireHit(t, h)
      PROVE  FInv'
  BY <1>4, FoundGrab, FoundRetireHit
<1>5. ASSUME NEW t \in Thread, NEW h \in Handles, RetireNull(t, h) PROVE FInv'
  BY <1>5, FoundFail DEF RetireNull
<1>6. ASSUME NEW t \in Thread, NEW h \in Handles, RetireMiss(t, h) PROVE FInv'
  <2>1. Become(t, Idle) /\ UNCHANGED <<slot, handle, ref, held>>
    BY <1>6 DEF RetireMiss, tableVars, ctxVars
  <2>2. Idle.op \notin {"register", "store"}
    BY DEF Idle, Job
  <2>3. QED
    BY <1>1, <2>1, <2>2, FoundJob
<1>7. ASSUME NEW t \in Thread, Peek(t) PROVE FInv'
  <2>1. UNCHANGED <<slot, handle, ref, held>>
        /\ (job' = job \/ \E h : Become(t, Job("retire", None, h)))
    BY <1>7 DEF Peek, tableVars, ctxVars
  <2>2. \A h : Job("retire", None, h).op \notin {"register", "store"}
    BY DEF Job
  <2>3. QED
    BY <1>1, <2>1, <2>2, FoundJob
<1>8. ASSUME NEW t \in Thread, CallRetireAll(t) \/ EndPass(t) PROVE FInv'
  <2>1. UNCHANGED <<slot, handle, ref, held, job>>
    BY <1>8 DEF CallRetireAll, EndPass, tableVars, ctxVars
  <2>2. QED
    BY <1>1, <2>1, FoundJob
<1>9. ASSUME NEW t \in Thread, NEW c \in Ctx, NEW n \in Name, NameHandle(t, c, n)
      PROVE  FInv'
  <2>1. UNCHANGED <<slot, handle, ref, held, job>>
    BY <1>9 DEF NameHandle, ctxVars
  <2>2. QED
    BY <1>1, <2>1, FoundJob
<1>10. CASE UNCHANGED vars
  BY <1>10 DEF vars, tableVars, ctxVars, FInv, FoundByHandle, Fresh, Hash, Size
<1> QED
  BY <1>2, <1>3, <1>4, <1>5, <1>6, <1>7, <1>8, <1>9, <1>10 DEF Next

LEMMA FoundInit == Init => FInv
BY FoundCleared DEF Init

LEMMA FoundInvariant ==
  ASSUME OneCreator
  PROVE  Spec => [](RInv /\ ScanType /\ FInv)
<1>1. RInv /\ FInv /\ [Next]_vars => FInv'
  BY FoundStep
<1> QED
  BY <1>1, FoundInit, RefInvariant, PTL DEF Spec

\* Doubling the table and wrapping the handles keep every context where its
\* handle leads, as long as one thread creates contexts.
THEOREM ContextsAreFound ==
  ASSUME OneCreator
  PROVE  Spec => []FoundByHandle
<1>1. FInv => FoundByHandle
  BY DEF FInv
<1> QED
  BY <1>1, FoundInvariant, PTL
-----------------------------------------------------------------------------
(* What skynet_handle_retireall promises its caller, the only thread that  *)
(* creates contexts: when it returns the table is empty.                   *)

Storing(u, c) == job[u].op = "store" /\ job[u].ctx = c

\* A context in the table has a handle or is about to get one, so that the loop
\* of the creator, which is storing none, sees it.
Stored ==
  /\ \A i \in DOMAIN slot : slot[i] # None =>
       handle[slot[i]] # 0 \/ \E u \in Thread : Storing(u, slot[i])
  /\ \A u \in Thread : job[u].op = "store" => job[u].handle # 0

\* The slot whose context the loop is about to retire.
Aimed(t) ==
  /\ all[t].i \in DOMAIN slot
  /\ Hash(job[t].handle) = all[t].i
  /\ slot[all[t].i] # None => handle[slot[all[t].i]] = job[t].handle

\* A pass that has found nothing yet leaves free slots behind.
Passed(t) == \A j \in DOMAIN slot : j < all[t].i => slot[j] = None

LoopInv ==
  \A t \in Creator : all[t].on =>
    /\ job[t].op \notin {"register", "store"}
    /\ job[t].op = "retire" => Aimed(t)
    /\ all[t].found \/ Passed(t)

\* After a step a context that has been deleted is not in the table.
LEMMA DeletedAreOut == RInv' => \A c \in Ctx : ref'[c] = 0 => InTable(c)' = {}
<1> DEFINE P == \A c \in Ctx : ref[c] = 0 => InTable(c) = {}
<1>1. RInv => P
  BY Unreferenced
<1> HIDE DEF P
<1>2. RInv' => P'
  BY <1>1, PTL
<1> QED
  BY <1>2 DEF P

\* A step that takes contexts out of the table and handles from those that are
\* deleted, and leaves the loop where it is, or at the start of a pass, or in one
\* that has found something.
LEMMA LoopKeeps ==
  ASSUME RInv, RInv', Stored, LoopInv, slot' \in Tables(Size),
         \A i \in DOMAIN slot : slot'[i] = slot[i] \/ slot'[i] = None,
         \A c \in Ctx : handle'[c] = handle[c] \/ ref'[c] = 0,
         \A u \in Thread : job[u].op = "store" \/ job'[u].op = "store" =>
                             job'[u] = job[u],
         \A t \in Creator : all'[t].on =>
           \/ all'[t] = all[t] /\ job'[t] = job[t]
           \/ all'[t] = all[t] /\ job'[t].op \in {"idle", "drop"}
           \/ (all'[t].found \/ all'[t].i = 0) /\ job'[t].op = "idle"
  PROVE  Stored' /\ LoopInv'
<1>1. Size' = Size /\ DOMAIN slot' = DOMAIN slot /\ DOMAIN slot = 0..Size - 1
  BY SizeOf DEF Size, RInv, RegType, Tables
<1>2. \A i \in DOMAIN slot : slot'[i] # None =>
        slot'[i] = slot[i] /\ slot[i] \in Ctx /\ handle'[slot[i]] = handle[slot[i]]
  <2> SUFFICES ASSUME NEW i \in DOMAIN slot, slot'[i] # None
               PROVE  /\ slot'[i] = slot[i] /\ slot[i] \in Ctx
                      /\ handle'[slot[i]] = handle[slot[i]]
    OBVIOUS
  <2>1. slot'[i] = slot[i] /\ slot[i] \in Ctx
    BY DEF RInv, RegType, Tables
  <2>2. \A c \in Ctx : ref'[c] = 0 => InTable(c)' = {}
    BY DeletedAreOut
  <2>3. i \in InTable(slot[i])'
    BY <1>1, <2>1 DEF InTable
  <2>4. QED
    BY <2>1, <2>2, <2>3
<1>3. Stored'
  BY <1>1, <1>2 DEF Stored, Storing
<1>4. LoopInv'
  <2> SUFFICES ASSUME NEW t \in Creator, all'[t].on
               PROVE  /\ job'[t].op \notin {"register", "store"}
                      /\ job'[t].op = "retire" => Aimed(t)'
                      /\ all'[t].found \/ Passed(t)'
    BY DEF LoopInv
  <2>1. CASE all'[t] = all[t] /\ job'[t] = job[t]
    BY <1>1, <1>2, <2>1 DEF LoopInv, Aimed, Passed, Hash
  <2>2. CASE all'[t] = all[t] /\ job'[t].op \in {"idle", "drop"}
    BY <1>1, <1>2, <2>2 DEF LoopInv, Passed
  <2>3. CASE (all'[t].found \/ all'[t].i = 0) /\ job'[t].op = "idle"
    BY <1>1, <2>3 DEF Passed
  <2>4. QED
    BY <2>1, <2>2, <2>3
<1> QED
  BY <1>3, <1>4

\* A creation by the only creator, which is then not in the loop.
LEMMA LoopIsOff ==
  ASSUME OneCreator, FInv, LoopInv, NEW t \in Thread,
         job[t].op \in {"register", "store"}, all' = all
  PROVE  LoopInv'
<1>1. t \in Creator
  BY DEF FInv, Fresh
<1>2. \A u \in Creator : u = t /\ ~all[u].on
  BY <1>1 DEF OneCreator, LoopInv
<1> QED
  BY <1>2 DEF LoopInv

LEMMA LoopFail == (\E why : Fail(why)) => Stored' /\ LoopInv'
<1> SUFFICES ASSUME NEW why, Fail(why) PROVE Stored' /\ LoopInv'
  OBVIOUS
<1>1. slot' = [i \in 0..FirstSize - 1 |-> None] /\ job' = [t \in Thread |-> Idle]
      /\ all' = [t \in Thread |-> NoScan]
  BY DEF Fail
<1>2. Stored'
  BY <1>1 DEF Stored, Idle, Job
<1>3. LoopInv'
  BY <1>1, HandleAssumption DEF LoopInv, NoScan
<1> QED
  BY <1>2, <1>3

LEMMA LoopPlace ==
  ASSUME Harbor # 0, RInv, FInv, Stored, NEW t \in Thread, Doing(t, "register"),
         NEW n \in Nat \ {0}, NEW table \in Tables(n), Place(t, table),
         \A i \in 0..n - 1 : table[i] # None =>
           \E j \in DOMAIN slot : table[i] = slot[j]
  PROVE  Stored'
<1>1. PICK p \in 0..Mask :
           /\ p % n \in 0..n - 1
           /\ table[p % n] = None
           /\ slot' = [table EXCEPT ![p % n] = job[t].ctx]
           /\ handle_index' = p + 1
           /\ Become(t, Job("store", job[t].ctx, Harbor + p))
           /\ UNCHANGED <<name, ctxVars, all, stop>>
  BY PlaceEffect DEF RInv
<1> DEFINE x == p % n
           d == job[t].ctx
<1>2. job[t].op = "register" /\ handle' = handle
  BY <1>1 DEF Doing, ctxVars
<1>3. job'[t] = Job("store", d, Harbor + p) /\ \A u \in Thread \ {t} : job'[u] = job[u]
  BY <1>1 DEF RInv, RegType, Become
<1>4. Harbor + p # 0
  BY HandleAssumption
<1> HIDE DEF x, d
<1>5. DOMAIN slot' = 0..n - 1 /\ slot'[x] = d /\ \A i \in (0..n - 1) \ {x} : slot'[i] = table[i]
  BY <1>1 DEF x, d, Tables
<1>6. ASSUME NEW i \in DOMAIN slot', slot'[i] # None
      PROVE  handle'[slot'[i]] # 0 \/ \E u \in Thread : job'[u].op = "store" /\ job'[u].ctx = slot'[i]
  <2>1. CASE i = x
    BY <1>3, <1>5, <2>1 DEF Job
  <2>2. CASE i # x
    <3>1. PICK j \in DOMAIN slot : slot'[i] = slot[j]
      BY <1>5, <1>6, <2>2
    <3>2. handle[slot[j]] # 0 \/ \E u \in Thread : job[u].op = "store" /\ job[u].ctx = slot[j]
      BY <1>6, <3>1 DEF Stored, Storing
    <3>3. QED
      BY <1>2, <1>3, <3>1, <3>2
  <2>3. QED
    BY <2>1, <2>2
<1>7. \A u \in Thread : job'[u].op = "store" => job'[u].handle # 0
  BY <1>3, <1>4 DEF Stored, Job
<1> QED
  BY <1>6, <1>7 DEF Stored, Storing

LEMMA LoopRegister ==
  ASSUME Harbor # 0, OneCreator, RInv, FInv, Stored, LoopInv,
         NEW t \in Thread, Register(t)
  PROVE  Stored' /\ LoopInv'
<1>1. Doing(t, "register") /\ job[t].op = "register" /\ Size \in Nat \ {0}
      /\ slot \in Tables(Size) /\ DOMAIN slot = 0..Size - 1
  BY SizeOf DEF Register, Doing, RInv, RegType
<1>2. CASE Place(t, slot)
  <2>1. Stored'
    BY <1>1, <1>2, LoopPlace
  <2>2. all' = all
    BY <1>2 DEF Place
  <2>3. QED
    BY <1>1, <2>1, <2>2, LoopIsOff
<1>3. CASE CanGrow /\ Place(t, Doubled)
  <2>1. /\ Doubled \in Tables(2 * Size) /\ 2 * Size \in Nat \ {0}
        /\ \A k \in 0..2 * Size - 1 : Doubled[k] # None =>
             \E i \in DOMAIN slot : Doubled[k] = slot[i]
    BY <1>1, <1>3, DoubledEffect DEF RInv
  <2>2. Stored'
    BY <1>1, <1>3, <2>1, LoopPlace
  <2>3. all' = all
    BY <1>3 DEF Place
  <2>4. QED
    BY <1>1, <2>2, <2>3, LoopIsOff
<1>4. CASE Fail("assert")
  BY <1>4, LoopFail
<1> QED
  BY <1>2, <1>3, <1>4 DEF Register

LEMMA LoopStore ==
  ASSUME OneCreator, RInv, FInv, Stored, LoopInv, NEW t \in Thread, StoreHandle(t)
  PROVE  Stored' /\ LoopInv'
<1> DEFINE d == job[t].ctx
           h == job[t].handle
<1>1. job[t].op = "store" /\ Become(t, Idle) /\ UNCHANGED <<slot, all>>
      /\ handle' = [handle EXCEPT ![d] = h] /\ h # 0
  BY DEF StoreHandle, Doing, Keep, tableVars, Stored
<1>2. job'[t] = Idle /\ \A u \in Thread \ {t} : job'[u] = job[u]
  BY <1>1 DEF RInv, RegType, Become
<1>3. \A c \in Ctx : handle'[c] = IF c = d THEN h ELSE handle[c]
  BY <1>1 DEF RInv, RegType
<1>4. \A i \in DOMAIN slot : slot[i] # None => slot[i] \in Ctx
  BY DEF RInv, RegType, Tables
<1> HIDE DEF h
<1>5. ASSUME NEW i \in DOMAIN slot, slot[i] # None
      PROVE  handle'[slot[i]] # 0 \/ \E u \in Thread : job'[u].op = "store" /\ job'[u].ctx = slot[i]
  <2>1. CASE slot[i] = d
    BY <1>1, <1>3, <1>4, <1>5, <2>1
  <2>2. CASE slot[i] # d
    BY <1>2, <1>3, <1>4, <1>5, <2>2 DEF Stored, Storing
  <2>3. QED
    BY <2>1, <2>2
<1>6. \A u \in Thread : job'[u].op = "store" => job'[u].handle # 0
  BY <1>2 DEF Stored, Idle, Job
<1>7. Stored'
  BY <1>1, <1>5, <1>6 DEF Stored, Storing
<1> QED
  BY <1>1, <1>7, LoopIsOff

\* Steps that change neither the table nor what is being created.
LEMMA LoopSame ==
  ASSUME RInv, RInv', Stored, LoopInv, UNCHANGED <<slot, all>>,
         \A c \in Ctx : handle'[c] = handle[c] \/ ref'[c] = 0,
         \A u \in Thread :
           \/ job'[u] = job[u]
           \/ job[u].op # "store" /\ job'[u].op # "store" /\ ~all[u].on
  PROVE  Stored' /\ LoopInv'
<1>1. slot' \in Tables(Size) /\ \A i \in DOMAIN slot : slot'[i] = slot[i]
  BY DEF RInv, RegType
<1>2. \A u \in Thread : job[u].op = "store" \/ job'[u].op = "store" => job'[u] = job[u]
  OBVIOUS
<1>3. \A t \in Creator : all'[t].on => all'[t] = all[t] /\ job'[t] = job[t]
  BY HandleAssumption
<1> QED
  BY <1>1, <1>2, <1>3, LoopKeeps

LEMMA GiveBackHandle ==
  ASSUME RInv, NEW d \in Ctx, GiveBack(d)
  PROVE  \A c \in Ctx : handle'[c] = handle[c] \/ ref'[c] = 0
BY DEF GiveBack, RInv, RegType

LEMMA LoopDrop ==
  ASSUME RInv, RInv', ScanType, Stored, LoopInv, NEW t \in Thread, Drop(t)
  PROVE  Stored' /\ LoopInv'
<1> DEFINE d == job[t].ctx
<1>1. job[t].op = "drop" /\ GiveBack(d) /\ Become(t, Idle) /\ slot' = slot
      /\ Advance(t, TRUE)
  BY DEF Drop, Doing, tableVars
<1>2. d \in Ctx
  BY <1>1 DEF RInv, RegType
<1>3. job'[t] = Idle /\ \A u \in Thread \ {t} : job'[u] = job[u]
  BY <1>1 DEF RInv, RegType, Become
<1>4. \A u \in Thread \ {t} : all'[u] = all[u]
  BY <1>1 DEF Advance, ScanType
<1>5. all[t].on => all'[t].found
  BY <1>1, Zenon DEF Advance, ScanType
<1>6. ~all[t].on => all'[t] = all[t]
  BY <1>1 DEF Advance
<1>7. slot' \in Tables(Size) /\ \A i \in DOMAIN slot : slot'[i] = slot[i]
  BY <1>1 DEF RInv, RegType
<1>8. \A u \in Thread : job[u].op = "store" \/ job'[u].op = "store" => job'[u] = job[u]
  BY <1>1, <1>3 DEF Idle, Job
<1>9. \A u \in Creator : all'[u].on =>
           \/ all'[u] = all[u] /\ job'[u] = job[u]
           \/ all'[u] = all[u] /\ job'[u].op \in {"idle", "drop"}
           \/ (all'[u].found \/ all'[u].i = 0) /\ job'[u].op = "idle"
  BY <1>3, <1>4, <1>5, <1>6, HandleAssumption DEF Idle, Job
<1> QED
  BY <1>1, <1>2, <1>7, <1>8, <1>9, GiveBackHandle, LoopKeeps

LEMMA LoopRetireHit ==
  ASSUME RInv, RInv', Stored, LoopInv, NEW t \in Thread, NEW h \in Handles,
         RetireHit(t, h)
  PROVE  Stored' /\ LoopInv'
<1> DEFINE x == Hash(h)
<1>1. slot' = [slot EXCEPT ![x] = None] /\ Become(t, Job("drop", slot[x], 0))
      /\ UNCHANGED <<handle, ref, held, all>> /\ Asked(t, h)
  BY DEF RetireHit, ctxVars
<1>2. job[t].op # "store"
  BY <1>1 DEF Asked, Free, Doing, Idle, Job
<1> HIDE DEF x
<1>3. job'[t].op = "drop" /\ \A u \in Thread \ {t} : job'[u] = job[u]
  BY <1>1 DEF RInv, RegType, Become, Job
<1>4. slot' \in Tables(Size) /\ \A i \in DOMAIN slot : slot'[i] = slot[i] \/ slot'[i] = None
  BY <1>1 DEF RInv, RegType, Tables
<1>5. \A u \in Thread : job[u].op = "store" \/ job'[u].op = "store" => job'[u] = job[u]
  BY <1>2, <1>3
<1>6. \A u \in Creator : all'[u] = all[u] /\ (job'[u] = job[u] \/ job'[u].op \in {"idle", "drop"})
  BY <1>1, <1>3, HandleAssumption
<1> QED
  BY <1>1, <1>4, <1>5, <1>6, LoopKeeps

\* The loop never misses: the context of the slot it asks for is the one it saw,
\* or is gone.
LEMMA LoopRetireMiss ==
  ASSUME RInv, RInv', ScanType, Stored, LoopInv, NEW t \in Thread, NEW h \in Handles,
         RetireMiss(t, h)
  PROVE  Stored' /\ LoopInv'
<1>1. Asked(t, h) /\ slot[Hash(h)] # None /\ ~Knows(slot[Hash(h)], h)
      /\ Become(t, Idle) /\ Advance(t, FALSE) /\ UNCHANGED <<slot, handle>>
  BY DEF RetireMiss, tableVars, ctxVars
<1>2. job[t].op # "store"
  BY <1>1 DEF Asked, Free, Doing, Idle, Job
<1>3. t \in Creator => ~all[t].on
  <2> SUFFICES ASSUME t \in Creator, all[t].on PROVE FALSE
    OBVIOUS
  <2>1. job[t].op = "retire" /\ job[t].handle = h
    BY <1>1 DEF Asked, Free, Doing
  <2>2. Aimed(t)
    BY <2>1 DEF LoopInv
  <2>3. QED
    BY <1>1, <2>1, <2>2 DEF Aimed, Knows
<1>4. job'[t] = Idle /\ \A u \in Thread \ {t} : job'[u] = job[u]
  BY <1>1 DEF RInv, RegType, Become
<1>5. \A u \in Creator : all'[u] = all[u]
  BY <1>1, <1>3, HandleAssumption DEF Advance, ScanType
<1>6. slot' \in Tables(Size) /\ \A i \in DOMAIN slot : slot'[i] = slot[i]
  BY <1>1 DEF RInv, RegType
<1>7. \A u \in Thread : job[u].op = "store" \/ job'[u].op = "store" => job'[u] = job[u]
  BY <1>2, <1>4 DEF Idle, Job
<1>8. \A u \in Creator : all'[u] = all[u] /\ (job'[u] = job[u] \/ job'[u].op \in {"idle", "drop"})
  BY <1>4, <1>5, HandleAssumption DEF Idle, Job
<1> QED
  BY <1>1, <1>6, <1>7, <1>8, LoopKeeps

\* A new pass starts at the first slot.
LEMMA LoopPass ==
  ASSUME RInv, RInv', ScanType, Stored, LoopInv, NEW t \in Thread,
         CallRetireAll(t) \/ EndPass(t)
  PROVE  Stored' /\ LoopInv'
<1>1. UNCHANGED <<slot, handle, job>> /\ job[t] = Idle
  BY DEF CallRetireAll, EndPass, Free, Scanning, tableVars, ctxVars
<1>2. all'[t].i = 0 /\ \A u \in Thread \ {t} : all'[u] = all[u]
  BY DEF CallRetireAll, EndPass, ScanType, NoScan
<1>3. slot' \in Tables(Size) /\ \A i \in DOMAIN slot : slot'[i] = slot[i]
  BY <1>1 DEF RInv, RegType
<1>4. \A u \in Creator : all'[u].on =>
           \/ all'[u] = all[u] /\ job'[u] = job[u]
           \/ all'[u] = all[u] /\ job'[u].op \in {"idle", "drop"}
           \/ (all'[u].found \/ all'[u].i = 0) /\ job'[u].op = "idle"
  BY <1>1, <1>2, HandleAssumption DEF Idle, Job
<1> QED
  BY <1>1, <1>3, <1>4, LoopKeeps
-----------------------------------------------------------------------------
\* The loop looks at a slot.
LEMMA LoopPeek ==
  ASSUME OneCreator, RInv, RInv', ScanType, FInv, Stored, LoopInv,
         NEW t \in Thread, Peek(t)
  PROVE  Stored' /\ LoopInv'
<1> DEFINE i == all[t].i
           c == slot[i]
           h == IF c = None THEN 0 ELSE handle[c]
<1>1. job[t] = Idle /\ all[t].on /\ UNCHANGED <<slot, handle, ref, held>>
      /\ (\/ h = 0 /\ Advance(t, FALSE) /\ UNCHANGED job
          \/ h # 0 /\ Become(t, Job("retire", None, h)) /\ UNCHANGED all)
  BY DEF Peek, Scanning, tableVars, ctxVars
<1>2. i \in DOMAIN slot /\ i \in Nat /\ DOMAIN slot = 0..Size - 1
  BY DEF Peek, ScanType, RInv, RegType, Tables
<1> HIDE DEF h, i
<1>3. Size' = Size
  BY <1>1 DEF Size
<1>4. Stored'
  <2>1. job' = job \/ Become(t, Job("retire", None, h))
    BY <1>1
  <2>2. ASSUME Become(t, Job("retire", None, h))
        PROVE  \A u \in Thread : IF u = t THEN job'[u].op = "retire" ELSE job'[u] = job[u]
    BY <2>2 DEF RInv, RegType, Become, Job
  <2>3. job[t].op = "idle"
    BY <1>1 DEF Idle, Job
  <2>4. \A u \in Thread :
          \/ job'[u] = job[u]
          \/ job[u].op # "store" /\ job'[u].op # "store"
    BY <2>1, <2>2, <2>3
  <2>5. QED
    BY <1>1, <2>4 DEF Stored, Storing
<1>5. CASE h = 0 /\ Advance(t, FALSE) /\ UNCHANGED job
  <2>1. \A u \in Thread \ {t} : all'[u] = all[u]
    BY <1>5 DEF Advance, ScanType
  <2>2. all'[t].i = i + 1 /\ all'[t].on
    BY <1>1, <1>5 DEF Advance, ScanType, i
  <2>3. all[t].found => all'[t].found
    BY <1>1, <1>5, Zenon DEF Advance, ScanType
  <2>4. ASSUME t \in Creator PROVE slot[i] = None
    <3>1. \A u \in Thread : job[u].op # "store"
      BY <1>1, <2>4 DEF FInv, Fresh, OneCreator, Idle, Job
    <3>2. QED
      BY <1>2, <1>5, <3>1 DEF Stored, Storing, h
  <2>5. ASSUME NEW u \in Creator, all'[u].on
        PROVE  /\ job'[u].op \notin {"register", "store"}
               /\ job'[u].op = "retire" => Aimed(u)'
               /\ all'[u].found \/ Passed(u)'
    <3>1. CASE u = t
      <4>1. job'[u].op = "idle"
        BY <1>1, <1>5, <3>1 DEF Idle, Job
      <4>2. all[u].found \/ Passed(u)
        BY <1>1, <2>5, <3>1 DEF LoopInv
      <4>3. Passed(u) => Passed(u)'
        BY <1>1, <1>2, <2>2, <2>4, <2>5, <3>1 DEF Passed, i
      <4>4. all[u].found => all'[u].found
        BY <2>3, <3>1
      <4>5. all'[u].found \/ Passed(u)'
        BY <4>2, <4>3, <4>4, Zenon
      <4>6. QED
        BY <4>1, <4>5
    <3>2. CASE u # t
      <4>1. all'[u] = all[u]
        BY <2>1, <3>2, HandleAssumption
      <4>2. QED
        BY <1>1, <1>3, <1>5, <2>5, <4>1 DEF LoopInv, Aimed, Passed, Hash
    <3>3. QED
      BY <3>1, <3>2
  <2>6. QED
    BY <1>4, <2>5 DEF LoopInv
<1>6. CASE h # 0 /\ Become(t, Job("retire", None, h)) /\ UNCHANGED all
  <2>1. job'[t] = Job("retire", None, h) /\ \A u \in Thread \ {t} : job'[u] = job[u]
    BY <1>6 DEF RInv, RegType, Become
  <2>2. c # None /\ h = handle[c] /\ c \in Ctx
    BY <1>2, <1>6 DEF h, RInv, RegType, Tables
  <2>3. Hash(h) = i
    BY <1>2, <1>6, <2>2 DEF FInv, FoundByHandle
  <2>4. ASSUME NEW u \in Creator, all'[u].on
        PROVE  /\ job'[u].op \notin {"register", "store"}
               /\ job'[u].op = "retire" => Aimed(u)'
               /\ all'[u].found \/ Passed(u)'
    <3>1. all'[u].found \/ Passed(u)'
      BY <1>1, <1>6, <2>4 DEF LoopInv, Passed
    <3>2. CASE u = t
      <4>1. Aimed(u)'
        BY <1>1, <1>2, <1>3, <1>6, <2>1, <2>2, <2>3, <3>2 DEF Aimed, Hash, Job, i
      <4>2. QED
        BY <2>1, <3>1, <3>2, <4>1 DEF Job
    <3>3. CASE u # t
      <4>1. job'[u] = job[u]
        BY <2>1, <3>3, HandleAssumption
      <4>2. QED
        BY <1>1, <1>3, <1>6, <2>4, <3>1, <4>1 DEF LoopInv, Aimed, Hash
    <3>4. QED
      BY <3>2, <3>3
  <2>5. QED
    BY <1>4, <2>4 DEF LoopInv
<1> QED
  BY <1>1, <1>5, <1>6
-----------------------------------------------------------------------------
Known == RInv /\ ScanType /\ FInv

LEMMA LoopStep ==
  ASSUME Harbor # 0, OneCreator
  PROVE  Known /\ RInv' /\ Stored /\ LoopInv /\ [Next]_vars => Stored' /\ LoopInv'
<1> SUFFICES ASSUME Known, RInv', Stored, LoopInv, [Next]_vars
             PROVE  Stored' /\ LoopInv'
  OBVIOUS
<1> USE DEF Known
<1>1. ASSUME NEW t \in Thread, NEW c \in Ctx, Create(t, c) PROVE Stored' /\ LoopInv'
  <2>1. UNCHANGED <<slot, all, handle>> /\ Become(t, Job("register", c, 0))
        /\ job[t] = Idle /\ ~all[t].on
    BY <1>1 DEF Create, Free, Keep, tableVars
  <2>2. \A u \in Thread :
          \/ job'[u] = job[u]
          \/ job[u].op # "store" /\ job'[u].op # "store" /\ ~all[u].on
    BY <2>1 DEF RInv, RegType, Become, Idle, Job
  <2>3. QED
    BY <2>1, <2>2, LoopSame
<1>2. ASSUME NEW t \in Thread, NEW c \in Ctx, Release(t, c) PROVE Stored' /\ LoopInv'
  <2>1. UNCHANGED <<slot, all, job>> /\ GiveBack(c)
    BY <1>2 DEF Release, Keep, tableVars
  <2>2. QED
    BY <2>1, GiveBackHandle, LoopSame
<1>3. ASSUME NEW t \in Thread, Register(t) \/ StoreHandle(t) PROVE Stored' /\ LoopInv'
  BY <1>3, LoopRegister, LoopStore
<1>4. ASSUME NEW t \in Thread, NEW h \in Handles, Grab(t, h) PROVE Stored' /\ LoopInv'
  <2>1. UNCHANGED <<slot, all, job, handle>>
    BY <1>4 DEF Grab, Keep, tableVars
  <2>2. QED
    BY <2>1, LoopSame
<1>5. ASSUME NEW t \in Thread, NEW h \in Handles,
             RetireNull(t, h) \/ RetireMiss(t, h) \/ RetireHit(t, h)
      PROVE  Stored' /\ LoopInv'
  BY <1>5, LoopFail, LoopRetireMiss, LoopRetireHit DEF RetireNull
<1>6. ASSUME NEW t \in Thread, Drop(t) \/ CallRetireAll(t) \/ EndPass(t) \/ Peek(t)
      PROVE  Stored' /\ LoopInv'
  BY <1>6, LoopDrop, LoopPass, LoopPeek
<1>7. ASSUME NEW t \in Thread, NEW c \in Ctx, NEW n \in Name, NameHandle(t, c, n)
      PROVE  Stored' /\ LoopInv'
  <2>1. UNCHANGED <<slot, all, job, handle>>
    BY <1>7 DEF NameHandle, ctxVars
  <2>2. QED
    BY <2>1, LoopSame
<1>8. CASE UNCHANGED vars
  <2>1. UNCHANGED <<slot, all, job, handle>>
    BY <1>8 DEF vars, tableVars, ctxVars
  <2>2. QED
    BY <2>1, LoopSame
<1> QED
  BY <1>1, <1>2, <1>3, <1>4, <1>5, <1>6, <1>7, <1>8 DEF Next

LEMMA LoopInit == Init => Stored /\ LoopInv
<1> SUFFICES ASSUME Init PROVE Stored /\ LoopInv
  OBVIOUS
<1>1. Stored
  BY DEF Init, Stored, Idle, Job
<1>2. LoopInv
  BY HandleAssumption DEF Init, LoopInv, NoScan
<1> QED
  BY <1>1, <1>2

Emptied ==
  \A t \in Thread :
    Creator = {t} /\ all[t].on /\ ~all'[t].on /\ stop' = "run" =>
      \A i \in DOMAIN slot : slot[i] = None

\* Only the end of a pass that has found nothing ends the loop.
LEMMA LoopEnds ==
  Known /\ LoopInv /\ [Next]_vars => Emptied
<1> SUFFICES ASSUME Known, LoopInv, [Next]_vars, NEW t \in Thread,
                    Creator = {t}, all[t].on, ~all'[t].on, stop' = "run"
             PROVE  \A i \in DOMAIN slot : slot[i] = None
  BY DEF Emptied
<1> USE DEF Known
<1>1. all' # all
  OBVIOUS
<1>2. ~\E why : why # "run" /\ Fail(why)
  BY DEF Fail
<1>3. \A u \in Thread : \A retired : Advance(u, retired) => all'[t].on
  BY DEF Advance, ScanType
<1>4. EndPass(t)
  <2>1. ASSUME NEW u \in Thread, NEW c \in Ctx, Create(u, c) \/ Release(u, c) PROVE FALSE
    BY <1>1, <2>1 DEF Create, Release, Keep
  <2>2. ASSUME NEW u \in Thread, Register(u) \/ StoreHandle(u) PROVE FALSE
    BY <1>1, <1>2, <2>2 DEF Register, Place, StoreHandle, Keep
  <2>3. ASSUME NEW u \in Thread, NEW h \in Handles,
               Grab(u, h) \/ RetireNull(u, h) \/ RetireMiss(u, h) \/ RetireHit(u, h)
        PROVE  FALSE
    BY <1>1, <1>2, <1>3, <2>3 DEF Grab, Keep, RetireNull, RetireMiss, RetireHit
  <2>4. ASSUME NEW u \in Thread, Drop(u) \/ Peek(u) PROVE FALSE
    BY <1>1, <1>3, <2>4 DEF Drop, Peek
  <2>5. ASSUME NEW u \in Thread, CallRetireAll(u) PROVE FALSE
    BY <2>5 DEF CallRetireAll, ScanType, NoScan
  <2>6. ASSUME NEW u \in Thread, EndPass(u), u # t PROVE FALSE
    BY <2>6 DEF EndPass, ScanType
  <2>7. ASSUME NEW u \in Thread, NEW c \in Ctx, NEW n \in Name, NameHandle(u, c, n)
        PROVE  FALSE
    BY <1>1, <2>7 DEF NameHandle
  <2>8. CASE UNCHANGED vars
    BY <1>1, <2>8 DEF vars
  <2>9. QED
    BY <2>1, <2>2, <2>3, <2>4, <2>5, <2>6, <2>7, <2>8 DEF Next
<1>5. all[t].i >= Size /\ all[t].i \in Nat
  BY <1>4 DEF EndPass, ScanType
<1>6. ~all[t].found
  BY <1>4 DEF EndPass, NoScan, ScanType
<1>7. Passed(t)
  BY <1>6 DEF LoopInv
<1>8. \A i \in DOMAIN slot : i < all[t].i
  BY <1>5 DEF RInv, RegType, Tables
<1> QED
  BY <1>7, <1>8 DEF Passed

\* skynet_handle_retireall, called by the only thread that creates contexts,
\* returns when the table is empty, whatever the others do meanwhile.  A harbor
\* of zero is left out: there a wrapped handle can be zero, which the loop takes
\* for a free slot.
THEOREM RetireAllEmpties ==
  ASSUME Harbor # 0
  PROVE  Spec => AllRetired
<1>1. CASE OneCreator
  <2>1. Known /\ RInv' /\ Stored /\ LoopInv /\ [Next]_vars => Stored' /\ LoopInv'
    BY <1>1, LoopStep
  <2>2. Spec => []Known
    BY <1>1, FoundInvariant DEF Known
  <2>3. Known => RInv
    BY DEF Known
  <2>4. Spec => [](Known /\ Stored /\ LoopInv)
    BY <2>1, <2>2, <2>3, LoopInit, PTL DEF Spec
  <2>5. Known /\ LoopInv /\ [Next]_vars => [Emptied]_vars
    BY LoopEnds
  <2>6. QED
    BY <2>4, <2>5, PTL DEF Spec, AllRetired, Emptied
<1>2. CASE ~OneCreator
  <2>1. [Next]_vars => [Emptied]_vars
    <3>1. \A t \in Thread : Creator # {t}
      BY <1>2 DEF OneCreator
    <3>2. QED
      BY <3>1 DEF Emptied
  <2>2. QED
    BY <2>1, PTL DEF Spec, AllRetired, Emptied
<1> QED
  BY <1>1, <1>2
-----------------------------------------------------------------------------
(* The array of names.                                                     *)

LEMMA Least ==
  ASSUME NEW S \in SUBSET Nat, S # {}
  PROVE  \E x \in S : \A y \in S : x <= y
<1> DEFINE R == {p \in Nat \X Nat : p[1] < p[2]}
<1>1. IsWellFoundedOn(R, Nat)
  BY NatLessThanWellFounded DEF OpToRel
<1> HIDE DEF R
<1>2. PICK x \in S : \A y \in S : <<y, x>> \notin R
  BY <1>1, WFMin
<1>3. ASSUME NEW y \in S, y < x PROVE FALSE
  <2>1. <<y, x>> \in R
    BY <1>3 DEF R
  <2> QED
    BY <1>2, <2>1
<1> QED
  BY <1>3

\* Induction up to n, over a set instead of a predicate.
LEMMA UpTo ==
  ASSUME NEW n \in Nat, NEW T, 0 \in T, \A k \in 1..n : k - 1 \in T => k \in T
  PROVE  n \in T
<1> DEFINE Bad == {k \in 0..n : k \notin T}
<1> SUFFICES ASSUME Bad # {} PROVE FALSE
  OBVIOUS
<1>1. Bad \in SUBSET Nat
  OBVIOUS
<1>2. PICK m \in Bad : \A k \in Bad : m <= k
  <2> HIDE DEF Bad
  <2> QED
    BY <1>1, Least
<1>3. m \in 1..n /\ m - 1 \in 0..n /\ ~(m <= m - 1)
  OBVIOUS
<1> QED
  BY <1>2, <1>3

\* A loop of n turns from x has a function that gives what every turn leaves.
Runs(f, S, x, n, G) ==
  f \in [0..n -> S] /\ f[0] = x /\ \A k \in 1..n : f[k] = G[<<f[k - 1], k>>]

LEMMA Turns ==
  ASSUME NEW S, NEW x \in S, NEW n \in Nat, NEW G \in [S \X Nat -> S]
  PROVE  \E f : Runs(f, S, x, n, G)
<1> DEFINE Loop(m, f) == f[0] = x /\ \A k \in 1..m : f[k] = G[<<f[k - 1], k>>]
           T == {m \in Nat : \E f \in [0..m -> S] : Loop(m, f)}
<1>1. 0 \in T
  <2> DEFINE f == [k \in 0..0 |-> x]
  <2>1. f \in [0..0 -> S] /\ Loop(0, f)
    OBVIOUS
  <2> QED
    BY <2>1
<1>2. ASSUME NEW m \in 1..n, m - 1 \in T PROVE m \in T
  <2>1. PICK f \in [0..m - 1 -> S] : Loop(m - 1, f)
    BY <1>2
  <2> DEFINE g == [k \in 0..m |-> IF k = m THEN G[<<f[m - 1], m>>] ELSE f[k]]
  <2>2. m - 1 \in 0..m - 1 /\ f[m - 1] \in S
    OBVIOUS
  <2>3. g \in [0..m -> S]
    BY <2>2
  <2>4. g[0] = x
    BY <2>1
  <2>5. ASSUME NEW k \in 1..m PROVE g[k] = G[<<g[k - 1], k>>]
    <3>1. k - 1 \in 0..m /\ k - 1 # m /\ g[k - 1] = f[k - 1]
      OBVIOUS
    <3>2. CASE k = m
      BY <3>1, <3>2
    <3>3. CASE k # m
      <4>1. k \in 1..m - 1 /\ g[k] = f[k]
        BY <3>3
      <4> QED
        BY <2>1, <3>1, <4>1
    <3> QED
      BY <3>2, <3>3
  <2> HIDE DEF g
  <2> QED
    BY <2>3, <2>4, <2>5
<1> HIDE DEF T
<1>3. n \in T
  BY <1>1, <1>2, UpTo
<1> QED
  BY <1>3 DEF T, Runs

-----------------------------------------------------------------------------
Entry == [name : Name, handle : {0} \cup Handles]

Ascending(s) == \A i, j \in 1..Len(s) : i < j => s[i].name < s[j].name

\* The entries of the array.
Entries == {name[i] : i \in 1..Len(name)}

NamesInv == name \in Seq(Entry) /\ Ascending(name) /\ named = Entries

\* What a turn of the search works on, and what is known of it.
Span == [found : BOOLEAN, begin : 0..Len(name), end : 0..Len(name)]

Bounds(n, r) ==
  /\ r.found => r.begin < Len(name) /\ name[r.begin + 1].name = n
  /\ ~r.found =>
       /\ r.begin <= r.end
       /\ \A i \in 1..Len(name) : i <= r.begin => name[i].name < n
       /\ \A i \in 1..Len(name) : i > r.end => name[i].name > n

LEMMA NamesAreNumbers ==
  ASSUME NamesInv
  PROVE  /\ Len(name) \in Nat /\ DOMAIN name = 1..Len(name)
         /\ \A i \in 1..Len(name) : name[i] \in Entry /\ name[i].name \in Nat
<1>1. name \in Seq(Entry)
  BY DEF NamesInv
<1>2. \A i \in 1..Len(name) : name[i] \in Entry
  <2> HIDE DEF Entry
  <2> QED
    BY <1>1, ElementOfSeq
<1>3. Name \subseteq Nat
  BY HandleAssumption
<1>4. \A e \in Entry : e.name \in Nat
  BY <1>3 DEF Entry
<1>5. Len(name) \in Nat /\ DOMAIN name = 1..Len(name)
  <2> HIDE DEF Entry
  <2> QED
    BY <1>1
<1> QED
  BY <1>2, <1>4, <1>5

LEMMA NarrowedBounds ==
  ASSUME NamesInv, NEW n \in Name, NEW r \in Span
  PROVE  /\ Narrowed(n, r) \in Span
         /\ Bounds(n, r) => Bounds(n, Narrowed(n, r))
         /\ \/ Narrowed(n, r).found
            \/ Narrowed(n, r).begin >= Narrowed(n, r).end
            \/ ~r.found /\ r.begin < r.end
                 /\ Narrowed(n, r).end - Narrowed(n, r).begin < r.end - r.begin
<1> DEFINE mid == (r.begin + r.end - 1) \div 2
           m == name[mid + 1].name
           q == Narrowed(n, r)
<1>0. /\ r.found \in BOOLEAN /\ r.begin \in 0..Len(name) /\ r.end \in 0..Len(name)
      /\ Len(name) \in Nat
  BY DEF Span, NamesInv
<1>1. CASE r.found \/ r.begin >= r.end
  <2>1. q = r
    BY <1>1 DEF Narrowed
  <2> QED
    BY <1>1, <2>1
<1>2. CASE ~(r.found \/ r.begin >= r.end)
  <2>1. mid \in Nat /\ r.begin <= mid /\ mid < r.end
    BY <1>0, <1>2
  <2>2. mid + 1 \in 1..Len(name) /\ mid \in 0..Len(name) /\ mid + 1 \in 0..Len(name)
    BY <1>0, <2>1
  <2>3. m \in Nat /\ n \in Nat
    BY <2>2, NamesAreNumbers, HandleAssumption
  <2>4. /\ m = n => q = [r EXCEPT !.found = TRUE, !.begin = mid]
        /\ m < n => q = [r EXCEPT !.begin = mid + 1]
        /\ m > n => q = [r EXCEPT !.end = mid]
    BY <1>2, <2>3 DEF Narrowed
  <2>5. \A i \in 1..Len(name) : /\ i <= mid => name[i].name < m
                                /\ i > mid + 1 => name[i].name > m
                                /\ i = mid + 1 => name[i].name = m
    BY <2>1, <2>2, <1>0 DEF NamesInv, Ascending
  <2>6. \A i \in 1..Len(name) : name[i].name \in Nat
    BY NamesAreNumbers
  <2> HIDE DEF m, mid, q
  <2>7. CASE m = n
    <3>1. q.found = TRUE /\ q.begin = mid /\ q.end = r.end /\ q \in Span
      BY <2>2, <2>4, <2>7 DEF Span
    <3>2. Bounds(n, q)
      BY <1>0, <2>2, <2>5, <2>7, <3>1 DEF Bounds
    <3> QED
      BY <3>1, <3>2 DEF q
  <2>8. CASE m < n
    <3>1. q.found = r.found /\ q.begin = mid + 1 /\ q.end = r.end /\ q \in Span
      BY <2>2, <2>4, <2>8 DEF Span
    <3>2. \A i \in 1..Len(name) : i <= q.begin => name[i].name < n
      BY <2>1, <2>3, <2>5, <2>6, <2>8, <3>1
    <3>3. Bounds(n, r) => Bounds(n, q)
      BY <1>0, <1>2, <2>1, <3>1, <3>2 DEF Bounds
    <3>4. q.end - q.begin < r.end - r.begin
      BY <1>0, <2>1, <3>1
    <3> QED
      BY <1>2, <1>0, <3>1, <3>3, <3>4 DEF q
  <2>9. CASE m > n
    <3>1. q.found = r.found /\ q.begin = r.begin /\ q.end = mid /\ q \in Span
      BY <2>2, <2>4, <2>9 DEF Span
    <3>2. \A i \in 1..Len(name) : i > q.end => name[i].name > n
      BY <2>1, <2>3, <2>5, <2>6, <2>9, <3>1
    <3>3. Bounds(n, r) => Bounds(n, q)
      BY <1>0, <1>2, <2>1, <3>1, <3>2 DEF Bounds
    <3>4. q.end - q.begin < r.end - r.begin
      BY <1>0, <2>1, <3>1
    <3> QED
      BY <1>2, <1>0, <3>1, <3>3, <3>4 DEF q
  <2> QED
    BY <2>3, <2>7, <2>8, <2>9
<1> QED
  BY <1>1, <1>2

\* The search ends at n, or where n belongs.
LEMMA SearchEnds ==
  ASSUME NamesInv, NEW n \in Name
  PROVE  /\ Search(n).found \in BOOLEAN /\ Search(n).begin \in 0..Len(name)
         /\ Search(n).found =>
              Search(n).begin + 1 \in 1..Len(name) /\ name[Search(n).begin + 1].name = n
         /\ ~Search(n).found =>
              \A i \in 1..Len(name) : IF i <= Search(n).begin THEN name[i].name < n
                                                              ELSE name[i].name > n
<1> DEFINE L == Len(name)
           all0 == [found |-> FALSE, begin |-> 0, end |-> L]
           Loop(f) == [k \in 0..L |-> IF k = 0 THEN all0 ELSE Narrowed(n, f[k - 1])]
           c == CHOOSE f : f = Loop(f)
<1>0. L \in Nat /\ all0 \in Span
  BY DEF NamesInv, Span
<1>1. c = Loop(c)
  <2> DEFINE G == [p \in Span \X Nat |-> Narrowed(n, p[1])]
  <2>1. G \in [Span \X Nat -> Span]
    BY NarrowedBounds
  <2>2. \A r \in Span, k \in Nat : G[<<r, k>>] = Narrowed(n, r)
    OBVIOUS
  <2> HIDE DEF G, all0
  <2>3. PICK f : Runs(f, Span, all0, L, G)
    BY <1>0, <2>1, Turns, Zenon
  <2>4. \A k \in 0..L : k # 0 => k \in 1..L /\ k \in Nat /\ k - 1 \in 0..L
    BY <1>0
  <2>5. \A k \in 0..L : f[k] = Loop(f)[k]
    BY <2>2, <2>3, <2>4 DEF Runs
  <2>6. f = Loop(f)
    BY <2>3, <2>5 DEF Runs
  <2> QED
    BY <2>6
<1>2. Search(n) = c[L]
  BY DEF Search
<1> HIDE DEF c
<1>3. c[0] = all0 /\ \A k \in 1..L : c[k] = Narrowed(n, c[k - 1])
  <2>1. 0 \in 0..L /\ \A k \in 1..L : k \in 0..L /\ k # 0
    BY <1>0
  <2>2. \A k \in 0..L : Loop(c)[k] = IF k = 0 THEN all0 ELSE Narrowed(n, c[k - 1])
    OBVIOUS
  <2> HIDE DEF Loop, all0
  <2> QED
    BY <1>1, <2>1, <2>2
<1> DEFINE Turned(k) == /\ c[k] \in Span /\ Bounds(n, c[k])
                        /\ \/ c[k].found \/ c[k].begin >= c[k].end
                           \/ c[k].end - c[k].begin <= L - k
           T == {k \in Nat : Turned(k)}
<1>4. 0 \in T
  BY <1>0, <1>3 DEF Bounds
<1>5. ASSUME NEW k \in 1..L, k - 1 \in T PROVE k \in T
  <2> DEFINE r == c[k - 1]
             q == c[k]
  <2>1. q = Narrowed(n, r) /\ r \in Span /\ Bounds(n, r) /\ k \in Nat
    BY <1>0, <1>3, <1>5
  <2>2. r.found \/ r.begin >= r.end \/ r.end - r.begin <= L - (k - 1)
    BY <1>5
  <2> HIDE DEF q, r
  <2>3. q \in Span /\ Bounds(n, q)
    BY <2>1, NarrowedBounds
  <2>4. \/ q.found \/ q.begin >= q.end
        \/ ~r.found /\ r.begin < r.end /\ q.end - q.begin < r.end - r.begin
    BY <2>1, NarrowedBounds
  <2>5. /\ q.begin \in Nat /\ q.end \in Nat /\ r.begin \in Nat /\ r.end \in Nat
    BY <2>1, <2>3, <1>0 DEF Span
  <2>6. q.found \/ q.begin >= q.end \/ q.end - q.begin <= L - k
    BY <1>0, <2>2, <2>4, <2>5
  <2> QED
    BY <2>1, <2>3, <2>6 DEF q
<1> HIDE DEF T
<1>6. L \in T
  BY <1>0, <1>4, <1>5, UpTo
<1>7. Turned(L)
  BY <1>6 DEF T
<1> DEFINE s == Search(n)
<1>8. /\ s \in Span /\ Bounds(n, s)
      /\ \/ s.found \/ s.begin >= s.end \/ s.end - s.begin <= 0
  BY <1>0, <1>2, <1>7
<1> HIDE DEF s
<1>9. /\ s.found \in BOOLEAN /\ s.begin \in 0..L /\ s.end \in 0..L
  BY <1>8 DEF Span
<1>10. s.found => s.begin + 1 \in 1..L /\ name[s.begin + 1].name = n
  BY <1>0, <1>8, <1>9 DEF Bounds
<1>11. ~s.found =>
         \A i \in 1..L : IF i <= s.begin THEN name[i].name < n ELSE name[i].name > n
  BY <1>0, <1>8, <1>9 DEF Bounds
<1> QED
  BY <1>9, <1>10, <1>11 DEF s
-----------------------------------------------------------------------------
(* The array of names stays in order.                                      *)

LEMMA Inserted ==
  ASSUME NamesInv, NEW b \in 0..Len(name), NEW e \in Entry
  PROVE  LET t == InsertedBefore(b, e)
         IN  /\ t \in Seq(Entry) /\ Len(t) = Len(name) + 1
             /\ \A i \in 1..Len(t) :
                  t[i] = IF i <= b THEN name[i]
                         ELSE IF i = b + 1 THEN e ELSE name[i - 1]
             /\ {t[i] : i \in 1..Len(t)} = Entries \cup {e}
<1> DEFINE t == InsertedBefore(b, e)
           L == Len(name)
<1>1. L \in Nat /\ b \in 0..L /\ \A i \in 1..L : name[i] \in Entry
  BY DEF NamesInv
<1> HIDE DEF L, Entry
<1>2. t = [i \in 1..L + 1 |-> IF i <= b THEN name[i]
                               ELSE IF i = b + 1 THEN e ELSE name[i - 1]]
  BY DEF InsertedBefore, L
<1> HIDE DEF t
<1>3. \A i \in 1..L + 1 : t[i] = IF i <= b THEN name[i]
                                  ELSE IF i = b + 1 THEN e ELSE name[i - 1]
  BY <1>2
<1>4. \A i \in 1..L + 1 : /\ i <= b => i \in 1..L
                          /\ i > b /\ i # b + 1 => i - 1 \in 1..L
  BY <1>1
<1>5. \A i \in 1..L + 1 : t[i] \in Entry
  BY <1>1, <1>3, <1>4
<1>6. L + 1 \in Nat
  BY <1>1
<1>7. t \in Seq(Entry) /\ Len(t) = L + 1
  <2>1. t \in [1..L + 1 -> Entry]
    BY <1>2, <1>5
  <2> QED
    BY <1>6, <2>1
<1>8. {t[i] : i \in 1..L + 1} = Entries \cup {e}
  <2>1. ASSUME NEW i \in 1..L + 1 PROVE t[i] \in Entries \cup {e}
    BY <1>3, <1>4 DEF Entries, L
  <2>2. \E i \in 1..L + 1 : t[i] = e
    <3>1. b + 1 \in 1..L + 1 /\ ~(b + 1 <= b)
      BY <1>1
    <3> QED
      BY <1>3, <3>1
  <2>3. ASSUME NEW j \in 1..L PROVE \E i \in 1..L + 1 : t[i] = name[j]
    <3>1. CASE j <= b
      <4>1. j \in 1..L + 1
        BY <1>1
      <4> QED
        BY <1>3, <3>1, <4>1
    <3>2. CASE j > b
      <4>1. /\ j + 1 \in 1..L + 1 /\ ~(j + 1 <= b) /\ j + 1 # b + 1
            /\ (j + 1) - 1 = j
        BY <1>1, <3>2
      <4>2. t[j + 1] = name[(j + 1) - 1]
        BY <1>3, <4>1
      <4> QED
        BY <4>1, <4>2
    <3> QED
      BY <1>1, <3>1, <3>2
  <2>4. ASSUME NEW x \in Entries PROVE \E i \in 1..L + 1 : t[i] = x
    BY <2>3 DEF Entries, L
  <2> QED
    BY <2>1, <2>2, <2>4
<1> QED
  BY <1>3, <1>7, <1>8 DEF t, L

LEMMA InsertedInOrder ==
  ASSUME NamesInv, NEW b \in 0..Len(name), NEW e \in Entry, e.name \in Nat,
         \A i \in 1..Len(name) :
           IF i <= b THEN name[i].name < e.name ELSE name[i].name > e.name
  PROVE  Ascending(InsertedBefore(b, e))
<1> DEFINE t == InsertedBefore(b, e)
<1> HIDE DEF Entry
<1>0. Ascending(name) /\ \A i \in 1..Len(name) : name[i].name \in Nat
  BY NamesAreNumbers DEF NamesInv
<1>1. /\ Len(t) = Len(name) + 1 /\ Len(name) \in Nat
      /\ \A i \in 1..Len(t) :
           t[i] = IF i <= b THEN name[i] ELSE IF i = b + 1 THEN e ELSE name[i - 1]
  BY Inserted, NamesAreNumbers
<1> HIDE DEF t
<1>2. SUFFICES ASSUME NEW i \in 1..Len(t), NEW j \in 1..Len(t), i < j
               PROVE  t[i].name < t[j].name
  BY DEF Ascending, t
<1>3. /\ i <= b => t[i] = name[i] /\ i \in 1..Len(name)
      /\ i > b + 1 => t[i] = name[i - 1] /\ i - 1 \in 1..Len(name)
      /\ i = b + 1 => t[i] = e
  BY <1>1
<1>4. /\ j <= b => t[j] = name[j] /\ j \in 1..Len(name)
      /\ j > b + 1 => t[j] = name[j - 1] /\ j - 1 \in 1..Len(name)
      /\ j = b + 1 => t[j] = e
  BY <1>1
<1>5. CASE j <= b
  BY <1>0, <1>2, <1>3, <1>4, <1>5 DEF Ascending
<1>6. CASE i > b + 1
  <2>1. i - 1 < j - 1 /\ j > b + 1
    BY <1>2, <1>6
  <2> QED
    BY <1>0, <1>3, <1>4, <1>6, <2>1 DEF Ascending
<1>7. CASE i <= b /\ j > b + 1
  <2>1. i < j - 1
    BY <1>7
  <2> QED
    BY <1>0, <1>3, <1>4, <1>7, <2>1 DEF Ascending
<1>8. CASE i = b + 1 /\ j > b + 1
  <2>1. ~(j - 1 <= b)
    BY <1>8
  <2>2. name[j - 1].name > e.name /\ name[j - 1].name \in Nat
    BY <1>0, <1>4, <1>8, <2>1
  <2> QED
    BY <1>3, <1>4, <1>8, <2>2
<1>9. CASE i <= b /\ j = b + 1
  BY <1>0, <1>3, <1>4, <1>9
<1> QED
  BY <1>2, <1>5, <1>6, <1>7, <1>8, <1>9

\* What the compaction keeps is in the order it was, and is all there was but for
\* the names of h.
LEMMA KeptInOrder ==
  ASSUME NamesInv, NEW h
  PROVE  /\ Kept(h) \in Seq(Entry) /\ Ascending(Kept(h))
         /\ {Kept(h)[j] : j \in 1..Len(Kept(h))} = {e \in Entries : e.handle # h}
<1> DEFINE L == Len(name)
           Next1(q, i) == IF name[i].handle = h THEN q ELSE Append(q, name[i])
           Loop(f) == [i \in 0..L |-> IF i = 0 THEN <<>>
                                      ELSE IF name[i].handle = h THEN f[i - 1]
                                      ELSE Append(f[i - 1], name[i])]
           c == CHOOSE f : f = Loop(f)
<1>0. /\ L \in Nat /\ <<>> \in Seq(Entry)
      /\ \A i \in 1..L : name[i] \in Entry /\ name[i].name \in Nat
  BY NamesAreNumbers
<1> HIDE DEF Entry
<1>1. c = Loop(c)
  <2> DEFINE G == [p \in Seq(Entry) \X Nat |->
                     IF p[2] \in 1..L THEN Next1(p[1], p[2]) ELSE p[1]]
  <2>1. G \in [Seq(Entry) \X Nat -> Seq(Entry)]
    <3>1. \A q \in Seq(Entry), i \in 1..L : Next1(q, i) \in Seq(Entry)
      BY <1>0, AppendProperties
    <3> HIDE DEF Next1
    <3> QED
      BY <3>1
  <2>2. \A q \in Seq(Entry), i \in 1..L : G[<<q, i>>] = Next1(q, i)
    <3>1. \A i \in 1..L : i \in Nat
      BY <1>0
    <3> HIDE DEF Next1
    <3> QED
      BY <3>1
  <2> HIDE DEF G
  <2>3. PICK f : Runs(f, Seq(Entry), <<>>, L, G)
    BY <1>0, <2>1, Turns, Zenon
  <2>4. \A i \in 0..L : i # 0 => i \in 1..L /\ i - 1 \in 0..L
    BY <1>0
  <2>5. \A i \in 0..L : f[i] = IF i = 0 THEN <<>> ELSE Next1(f[i - 1], i)
    BY <2>2, <2>3, <2>4 DEF Runs
  <2>6. f = Loop(f)
    BY <2>3, <2>5 DEF Runs
  <2> QED
    BY <2>6
<1>2. Kept(h) = c[L]
  BY DEF Kept
<1> HIDE DEF c
<1>3. c[0] = <<>> /\ \A i \in 1..L : c[i] = Next1(c[i - 1], i)
  <2>1. 0 \in 0..L /\ \A i \in 1..L : i \in 0..L /\ i # 0
    BY <1>0
  <2>2. \A i \in 0..L : Loop(c)[i] = IF i = 0 THEN <<>> ELSE Next1(c[i - 1], i)
    OBVIOUS
  <2> HIDE DEF Loop, Next1
  <2> QED
    BY <1>1, <2>1, <2>2
<1> DEFINE Good(i) == /\ c[i] \in Seq(Entry) /\ Ascending(c[i])
                      /\ \A j \in 1..Len(c[i]) :
                           c[i][j].handle # h /\ \E k \in 1..i : c[i][j] = name[k]
                      /\ \A k \in 1..i :
                           name[k].handle # h => \E j \in 1..Len(c[i]) : c[i][j] = name[k]
           T == {i \in Nat : Good(i)}
<1>4. 0 \in T
  <2>1. c[0] = <<>> /\ (\A j \in 1..Len(c[0]) : FALSE) /\ \A k \in 1..0 : FALSE
    BY <1>3
  <2>2. Good(0)
    BY <1>0, <2>1, Zenon DEF Ascending
  <2> HIDE DEF Good
  <2> QED
    BY <2>2
<1>5. ASSUME NEW i \in 1..L, i - 1 \in T PROVE i \in T
  <2> DEFINE q == c[i - 1]
             n == Len(q)
  <2>1. /\ q \in Seq(Entry) /\ Ascending(q) /\ i \in Nat
        /\ \A j \in 1..n : q[j].handle # h /\ \E k \in 1..i - 1 : q[j] = name[k]
        /\ \A k \in 1..i - 1 : name[k].handle # h => \E j \in 1..n : q[j] = name[k]
        /\ n \in Nat /\ \A k \in 1..i : k # i => k \in 1..i - 1
    BY <1>0, <1>5
  <2>2. c[i] = Next1(q, i)
    BY <1>3
  <2> HIDE DEF T
  <2>3. CASE name[i].handle = h
    <3>1. c[i] = q /\ \A k \in 1..i - 1 : k \in 1..i
      BY <1>0, <2>2, <2>3
    <3>2. Good(i)
      <4> HIDE DEF q
      <4>1. \A k \in 1..i : name[k].handle # h => \E j \in 1..n : q[j] = name[k]
        BY <2>1, <2>3
      <4> QED
        BY <2>1, <3>1, <4>1
    <3> QED
      BY <2>1, <3>2 DEF T
  <2>4. CASE name[i].handle # h
    <3> DEFINE u == Append(q, name[i])
    <3> HIDE DEF q
    <3>1. c[i] = u
      BY <2>2, <2>4
    <3>2. /\ u \in Seq(Entry) /\ Len(u) = n + 1 /\ n \in Nat
          /\ (\A j \in 1..n : u[j] = q[j]) /\ u[n + 1] = name[i]
      BY <1>0, <2>1, AppendProperties
    <3>5. \A k \in 1..i : name[k].handle # h => \E j \in 1..n + 1 : u[j] = name[k]
      <4> SUFFICES ASSUME NEW k \in 1..i, name[k].handle # h
                   PROVE  \E j \in 1..n + 1 : u[j] = name[k]
        OBVIOUS
      <4> HIDE DEF u
      <4>1. n + 1 \in 1..n + 1 /\ \A j \in 1..n : j \in 1..n + 1
        BY <3>2
      <4>2. CASE k = i
        BY <3>2, <4>1, <4>2
      <4>3. CASE k # i
        <5>1. PICK j \in 1..n : q[j] = name[k]
          BY <2>1, <4>3
        <5> HIDE DEF n
        <5> QED
          BY <3>2, <4>1, <5>1
      <4> QED
        BY <4>2, <4>3
    <3>6. \A j \in 1..n + 1 : u[j].handle # h
      <4>1. \A j \in 1..n + 1 : j # n + 1 => j \in 1..n
        BY <3>2
      <4> HIDE DEF u
      <4> QED
        BY <2>1, <2>4, <3>2, <4>1
    <3> HIDE DEF u, n
    <3>3. \A j \in 1..n + 1 : \E k \in 1..i : u[j] = name[k] /\ (j # n + 1 => k < i)
      <4> SUFFICES ASSUME NEW j \in 1..n + 1
                   PROVE  \E k \in 1..i : u[j] = name[k] /\ (j # n + 1 => k < i)
        OBVIOUS
      <4>1. CASE j = n + 1
        BY <1>0, <3>2, <4>1
      <4>2. CASE j # n + 1
        <5>1. j \in 1..n
          BY <3>2, <4>2
        <5>2. PICK k \in 1..i - 1 : q[j] = name[k]
          BY <2>1, <5>1
        <5>3. k \in 1..i /\ k < i
          BY <2>1
        <5> QED
          BY <3>2, <5>1, <5>2, <5>3
      <4> QED
        BY <4>1, <4>2
    <3>4. Ascending(u)
      <4> SUFFICES ASSUME NEW j \in 1..n + 1, NEW l \in 1..n + 1, j < l
                   PROVE  u[j].name < u[l].name
        BY <3>2 DEF Ascending
      <4>1. CASE l = n + 1
        <5>0. j # n + 1
          BY <3>2, <4>1
        <5>1. PICK k \in 1..i : u[j] = name[k] /\ k < i
          BY <3>3, <5>0
        <5>2. k \in 1..L
          BY <1>0
        <5> QED
          BY <3>2, <4>1, <5>1, <5>2 DEF NamesInv, Ascending
      <4>2. CASE l # n + 1
        <5>1. j \in 1..n /\ l \in 1..n
          BY <3>2, <4>2
        <5> QED
          BY <2>1, <3>2, <5>1 DEF Ascending, n
      <4> QED
        BY <4>1, <4>2
    <3> QED
      BY <2>1, <3>1, <3>2, <3>3, <3>4, <3>5, <3>6 DEF T
  <2> QED
    BY <2>3, <2>4
<1> HIDE DEF T
<1>6. L \in T
  BY <1>0, <1>4, <1>5, UpTo
<1>7. Good(L)
  BY <1>6 DEF T
<1> DEFINE z == c[L]
<1> HIDE DEF z
<1>8. /\ z \in Seq(Entry) /\ Ascending(z)
      /\ \A j \in 1..Len(z) : z[j].handle # h /\ \E k \in 1..L : z[j] = name[k]
      /\ \A k \in 1..L : name[k].handle # h => \E j \in 1..Len(z) : z[j] = name[k]
  <2> HIDE DEF L
  <2> QED
    BY <1>7, Zenon DEF z
<1>9. {z[j] : j \in 1..Len(z)} = {e \in Entries : e.handle # h}
  <2>1. ASSUME NEW j \in 1..Len(z) PROVE z[j] \in Entries /\ z[j].handle # h
    BY <1>8 DEF Entries
  <2>2. ASSUME NEW e \in Entries, e.handle # h PROVE \E j \in 1..Len(z) : z[j] = e
    BY <1>8, <2>2 DEF Entries
  <2> QED
    BY <2>1, <2>2
<1>10. Kept(h) = z
  BY <1>2 DEF z
<1> DEFINE w == Kept(h)
<1>11. w = z
  BY <1>10
<1> HIDE DEF w
<1>12. /\ w \in Seq(Entry) /\ Ascending(w)
       /\ {w[j] : j \in 1..Len(w)} = {e \in Entries : e.handle # h}
  BY <1>8, <1>9, <1>11
<1> QED
  BY <1>12 DEF w
-----------------------------------------------------------------------------
(* Types and names.                                                        *)

Fine ==
  /\ handle_index \in 1..Mask + 1
  /\ handle \in [Ctx -> {0} \cup Handles]
  /\ \A t \in Thread : job[t].handle \in {0} \cup Handles
  /\ stop \in {"run", "assert", "null"}

Typed == RInv /\ ScanType /\ Fine /\ NamesInv

LEMMA EmptyNames == <<>> \in Seq(Entry) /\ Ascending(<<>>)
<1>1. \A i \in 1..Len(<<>>) : FALSE
  OBVIOUS
<1>2. Ascending(<<>>)
  BY <1>1, Zenon DEF Ascending
<1> HIDE DEF Entry
<1>3. <<>> \in Seq(Entry)
  OBVIOUS
<1> QED
  BY <1>2, <1>3

LEMMA FineCleared ==
  ASSUME handle_index = 1, handle = [c \in Ctx |-> 0], job = [t \in Thread |-> Idle],
         name = <<>>, named = {}, stop \in {"run", "assert", "null"}
  PROVE  Fine /\ NamesInv
<1>1. 1 \in 1..Mask + 1
  BY HandleAssumption
<1> QED
  BY <1>1, EmptyNames DEF Fine, NamesInv, Entries, Idle, Job

LEMMA FineFail ==
  ASSUME NEW why \in {"assert", "null"}, Fail(why)
  PROVE  Fine' /\ NamesInv'
<1>1. (/\ handle_index = 1 /\ handle = [c \in Ctx |-> 0] /\ job = [t \in Thread |-> Idle]
       /\ name = <<>> /\ named = {} /\ stop \in {"run", "assert", "null"})'
  BY DEF Fail
<1> QED
  BY <1>1, FineCleared, PTL

\* Steps that leave the names alone.
LEMMA NamesSame == UNCHANGED <<name, named>> /\ NamesInv => NamesInv'
BY DEF NamesInv, Ascending, Entries

LEMMA ProbeHandle ==
  ASSUME Fine, NEW i \in Nat
  PROVE  Probe(i) \in 0..Mask /\ Harbor + Probe(i) \in Handles
<1>1. handle_index \in Nat /\ Mask + 1 \in Nat \ {0} /\ Mask \in Nat
  BY HandleAssumption DEF Fine
<1>2. i + handle_index \in Nat
  BY <1>1
<1>3. (i + handle_index) % (Mask + 1) \in 0..(Mask + 1) - 1
  BY <1>1, <1>2, HashInTable
<1>4. Probe(i) \in 0..Mask
  BY <1>1, <1>3 DEF Probe
<1> QED
  BY <1>4 DEF Handles

LEMMA FineRegister ==
  ASSUME RInv, Fine, NEW t \in Thread, Register(t)
  PROVE  Fine' /\ (NamesInv => NamesInv')
<1>1. ASSUME NEW table, Cardinality(DOMAIN table) \in Nat, Place(t, table)
      PROVE  Fine' /\ (NamesInv => NamesInv')
  <2>1. PICK i \in FreeTurns(table) :
           /\ handle_index' = Probe(i) + 1
           /\ Become(t, Job("store", job[t].ctx, Harbor + Probe(i)))
           /\ UNCHANGED <<name, named, handle, stop>>
    BY <1>1 DEF Place, ctxVars
  <2>2. i \in Nat
    BY <1>1 DEF FreeTurns
  <2>3. Probe(i) \in 0..Mask /\ Harbor + Probe(i) \in Handles
    BY <2>2, ProbeHandle
  <2>4. handle_index' \in 1..Mask + 1
    BY <2>1, <2>3, HandleAssumption
  <2>5. \A u \in Thread : job'[u].handle \in {0} \cup Handles
    BY <2>1, <2>3 DEF Become, Job, RInv, RegType, Fine
  <2> QED
    BY <2>1, <2>4, <2>5, NamesSame DEF Fine
<1>2. CASE Place(t, slot)
  <2>1. Cardinality(DOMAIN slot) \in Nat
    BY DEF RInv, RegType, Size
  <2> QED
    BY <1>1, <1>2, <2>1
<1>3. CASE Place(t, Doubled)
  <2>1. DOMAIN Doubled = 0..2 * Size - 1
    BY DEF Doubled
  <2>2. Size \in Nat \ {0}
    BY DEF RInv, RegType
  <2>3. Cardinality(DOMAIN Doubled) \in Nat
    BY <2>1, <2>2, FS_Interval
  <2> QED
    BY <1>1, <1>3, <2>3
<1>4. CASE Fail("assert")
  BY <1>4, FineFail
<1> QED
  BY <1>2, <1>3, <1>4 DEF Register

LEMMA FineRetireHit ==
  ASSUME Typed, NEW t \in Thread, NEW h \in Handles, RetireHit(t, h)
  PROVE  Fine' /\ NamesInv'
<1>1. name' = Kept(h) /\ named' = {e \in named : e.handle # h}
      /\ UNCHANGED <<handle_index, handle, stop>>
      /\ Become(t, Job("drop", slot[Hash(h)], 0))
  BY DEF RetireHit, ctxVars
<1>2. NamesInv'
  <2>1. /\ NamesInv /\ named = Entries
        /\ name' \in Seq(Entry) /\ Ascending(name')
    BY <1>1, KeptInOrder DEF Typed, NamesInv
  <2>2. named' = Entries'
    BY <1>1, <2>1, KeptInOrder DEF Entries
  <2> QED
    BY <2>1, <2>2 DEF NamesInv, Ascending, Entry
<1>3. \A u \in Thread : job'[u].handle \in {0} \cup Handles
  BY <1>1 DEF Become, Job, Typed, RInv, RegType, Fine
<1> QED
  BY <1>1, <1>2, <1>3 DEF Typed, Fine

LEMMA FineNameHandle ==
  ASSUME Typed, NEW t \in Thread, NEW c \in Ctx, NEW n \in Name, NameHandle(t, c, n)
  PROVE  Fine' /\ NamesInv'
<1> DEFINE e == [name |-> n, handle |-> handle[c]]
           b == Search(n).begin
<1>1. ~Search(n).found /\ name' = InsertedBefore(b, e) /\ named' = named \cup {e}
      /\ UNCHANGED <<handle_index, handle, job, stop>>
  BY DEF NameHandle, ctxVars
<1>2. e \in Entry /\ e.name = n /\ n \in Nat
  BY HandleAssumption DEF Typed, Fine, Entry
<1>3. /\ b \in 0..Len(name)
      /\ \A i \in 1..Len(name) : IF i <= b THEN name[i].name < n ELSE name[i].name > n
  BY <1>1, SearchEnds DEF Typed
<1>4. NamesInv /\ named = Entries
  BY DEF Typed, NamesInv
<1> HIDE DEF e, b, Entry
<1>5. name' \in Seq(Entry) /\ named' = {name'[i] : i \in 1..Len(name')}
  <2> DEFINE u == InsertedBefore(b, e)
  <2>1. u \in Seq(Entry) /\ {u[i] : i \in 1..Len(u)} = Entries \cup {e}
    BY <1>2, <1>3, <1>4, Inserted
  <2> HIDE DEF u
  <2>2. name' = u /\ named' = Entries \cup {e}
    BY <1>1, <1>4 DEF u
  <2> QED
    BY <2>1, <2>2
<1>6. Ascending(name')
  <2>1. \A i \in 1..Len(name) :
          IF i <= b THEN name[i].name < e.name ELSE name[i].name > e.name
    BY <1>2, <1>3
  <2>2. Ascending(InsertedBefore(b, e))
    BY <1>2, <1>3, <1>4, <2>1, InsertedInOrder
  <2> QED
    BY <1>1, <2>2
<1>7. NamesInv'
  BY <1>5, <1>6 DEF NamesInv, Entries, Ascending, Entry
<1> QED
  BY <1>1, <1>7 DEF Typed, Fine

LEMMA FineStep == Typed /\ [Next]_vars => Fine' /\ NamesInv'
<1> SUFFICES ASSUME Typed, [Next]_vars PROVE Fine' /\ NamesInv'
  OBVIOUS
<1> USE NamesSame
<1>0. RInv /\ RegType /\ ScanType /\ Fine /\ NamesInv
  BY DEF Typed, RInv
<1>1. ASSUME NEW u \in Thread, NEW j, j.handle \in {0} \cup Handles, Become(u, j)
      PROVE  \A t \in Thread : job'[t].handle \in {0} \cup Handles
  BY <1>0, <1>1 DEF Become, RegType, Fine
<1>2. ASSUME NEW c \in Ctx, GiveBack(c) PROVE handle' \in [Ctx -> {0} \cup Handles]
  BY <1>0, <1>2 DEF GiveBack, Fine
<1>3. ASSUME NEW t \in Thread, NEW c \in Ctx, Create(t, c) PROVE Fine' /\ NamesInv'
  <2>1. Become(t, Job("register", c, 0)) /\ UNCHANGED <<handle_index, handle, stop, name, named>>
    BY <1>3 DEF Create, Keep, tableVars
  <2>2. \A u \in Thread : job'[u].handle \in {0} \cup Handles
    BY <1>1, <2>1 DEF Job
  <2> QED
    BY <1>0, <2>1, <2>2 DEF Fine
<1>4. ASSUME NEW t \in Thread, NEW c \in Ctx, Release(t, c) PROVE Fine' /\ NamesInv'
  <2>1. GiveBack(c) /\ UNCHANGED <<handle_index, job, stop, name, named>>
    BY <1>4 DEF Release, Keep, tableVars
  <2> QED
    BY <1>0, <1>2, <2>1 DEF Fine
<1>5. ASSUME NEW t \in Thread, StoreHandle(t) PROVE Fine' /\ NamesInv'
  <2>1. Become(t, Idle) /\ UNCHANGED <<handle_index, stop, name, named>>
        /\ handle' = [handle EXCEPT ![job[t].ctx] = job[t].handle]
    BY <1>5 DEF StoreHandle, Keep, tableVars
  <2>2. \A u \in Thread : job'[u].handle \in {0} \cup Handles
    BY <1>1, <2>1 DEF Job, Idle
  <2> QED
    BY <1>0, <2>1, <2>2 DEF Fine
<1>6. ASSUME NEW t \in Thread, NEW h \in Handles, Grab(t, h) PROVE Fine' /\ NamesInv'
  <2>1. UNCHANGED <<handle_index, handle, job, stop, name, named>>
    BY <1>6 DEF Grab, Keep, tableVars
  <2> QED
    BY <1>0, <2>1 DEF Fine
<1>7. ASSUME NEW t \in Thread, NEW h \in Handles, RetireNull(t, h) PROVE Fine' /\ NamesInv'
  BY <1>7, FineFail DEF RetireNull
<1>8. ASSUME NEW t \in Thread, NEW h \in Handles, RetireMiss(t, h) PROVE Fine' /\ NamesInv'
  <2>1. Become(t, Idle) /\ UNCHANGED <<handle_index, handle, stop, name, named>>
    BY <1>8 DEF RetireMiss, tableVars, ctxVars
  <2>2. \A u \in Thread : job'[u].handle \in {0} \cup Handles
    BY <1>1, <2>1 DEF Job, Idle
  <2> QED
    BY <1>0, <2>1, <2>2 DEF Fine
<1>9. ASSUME NEW t \in Thread, Drop(t) PROVE Fine' /\ NamesInv'
  <2>1. Become(t, Idle) /\ UNCHANGED <<handle_index, stop, name, named>> /\ GiveBack(job[t].ctx)
    BY <1>9 DEF Drop, tableVars
  <2>2. job[t].ctx \in Ctx
    BY <1>0, <1>9 DEF Drop, Doing, RegType
  <2>3. \A u \in Thread : job'[u].handle \in {0} \cup Handles
    BY <1>1, <2>1 DEF Job, Idle
  <2> QED
    BY <1>0, <1>2, <2>1, <2>2, <2>3 DEF Fine
<1>10. ASSUME NEW t \in Thread, CallRetireAll(t) \/ EndPass(t) PROVE Fine' /\ NamesInv'
  <2>1. UNCHANGED <<handle_index, handle, job, stop, name, named>>
    BY <1>10 DEF CallRetireAll, EndPass, tableVars, ctxVars
  <2> QED
    BY <1>0, <2>1 DEF Fine
<1>11. ASSUME NEW t \in Thread, Peek(t) PROVE Fine' /\ NamesInv'
  <2> DEFINE c == slot[all[t].i]
             h == IF c = None THEN 0 ELSE handle[c]
  <2>1. UNCHANGED <<handle_index, handle, stop, name, named>>
        /\ (UNCHANGED job \/ Become(t, Job("retire", None, h)))
        /\ all[t].i < Size
    BY <1>11 DEF Peek, tableVars, ctxVars
  <2>2. h \in {0} \cup Handles
    <3>1. all[t].i \in 0..Size - 1
      BY <1>0, <2>1 DEF ScanType, RegType
    <3>2. c \in Ctx \cup {None}
      BY <1>0, <3>1 DEF RegType, Tables
    <3> QED
      BY <1>0, <3>2 DEF Fine
  <2> HIDE DEF h
  <2>3. \A u \in Thread : job'[u].handle \in {0} \cup Handles
    BY <1>0, <1>1, <2>1, <2>2 DEF Job, Fine
  <2> QED
    BY <1>0, <2>1, <2>3 DEF Fine
<1>12. CASE UNCHANGED vars
  BY <1>0, <1>12 DEF vars, tableVars, ctxVars, Fine
<1> QED
  BY <1>0, <1>3, <1>4, <1>5, <1>6, <1>7, <1>8, <1>9, <1>10, <1>11, <1>12,
     FineRegister, FineRetireHit, FineNameHandle DEF Next

LEMMA TypedInvariant == Spec => []Typed
<1>1. Init => Fine /\ NamesInv
  BY FineCleared DEF Init
<1>2. Typed <=> RInv /\ ScanType /\ Fine /\ NamesInv
  BY DEF Typed
<1> QED
  BY <1>1, <1>2, FineStep, RefInvariant, PTL DEF Spec

\* Every variable keeps its type: in particular the handle index stays in range
\* and every handle stored is one register can give.
THEOREM RegistryTypes == Spec => []TypeOK
<1>1. Typed => TypeOK
  <2> SUFFICES ASSUME Typed PROVE TypeOK
    OBVIOUS
  <2>1. job \in [Thread -> [op : JobOps, ctx : Ctx \cup {None}, handle : {0} \cup Handles]]
    BY DEF Typed, RInv, RegType, Fine
  <2>2. name \in Seq([name : Name, handle : {0} \cup Handles])
    BY DEF Typed, NamesInv, Entry
  <2> QED
    BY <2>1, <2>2 DEF Typed, RInv, RegType, Tables, ScanType, Fine, TypeOK
<1> QED
  BY <1>1, TypedInvariant, PTL

\* The search by halves finds the handle that a name was given, exactly as long as
\* that handle is not retired, however names are inserted and the array is closed
\* up by retirements.
THEOREM NamesStayFound == Spec => []NamesFound
<1>1. Typed => NamesFound
  <2> SUFFICES ASSUME Typed, NEW n \in Name
               PROVE  IF Search(n).found
                      THEN /\ name[Search(n).begin + 1].name = n
                           /\ name[Search(n).begin + 1] \in named
                      ELSE \A e \in named : e.name # n
    BY DEF NamesFound
  <2>0. named = Entries
    BY DEF Typed, NamesInv
  <2>1. CASE ~Search(n).found
    <3>1. \A i \in 1..Len(name) :
            IF i <= Search(n).begin THEN name[i].name < n ELSE name[i].name > n
      BY <2>1, SearchEnds DEF Typed
    <3>2. n \in Nat /\ \A i \in 1..Len(name) : name[i].name \in Nat
      BY NamesAreNumbers, HandleAssumption DEF Typed
    <3>3. \A i \in 1..Len(name) : name[i].name # n
      BY <3>1, <3>2
    <3> QED
      BY <2>0, <2>1, <3>3 DEF Entries
  <2>2. CASE Search(n).found
    BY <2>0, <2>2, SearchEnds DEF Typed, Entries
  <2> QED
    BY <2>1, <2>2
<1> QED
  BY <1>1, TypedInvariant, PTL
=============================================================================
