--------------------------- MODULE HandleMap_proofs ---------------------------
(***************************************************************************)
(* The handle map for any number of threads, objects and references, as    *)
(* long as the table is smaller than the number of ids: a handle is where  *)
(* the lookup goes, its count is the number of references that are still   *)
(* to be given back, and one whose count is zero is about to be deleted.   *)
(***************************************************************************)
EXTENDS HandleMap, FiniteSetTheorems, WellFoundedInduction, TLAPS

\* handlemap_new looks for an id other than 0: were there only as many ids as
\* slots, it could find none for slot 0.
TableFits == Cap < IdMod

Record == [id : Id \cup {0}, ref : Int, ud : Object \cup {None}]

Tables(c) == [0..c - 1 -> Record]

MapType ==
  /\ Cap \in Nat \ {0}
  /\ slot \in Tables(Cap)
  /\ lastid \in 0..(IdMod - 1)
  /\ n \in Int
  /\ holds \in [Thread -> [Id -> 0..MaxRefs]]
  /\ deleting \in [Thread -> Id \cup {0}]
  /\ lost \subseteq Id

Used(sl) == {i \in DOMAIN sl : sl[i].id # 0}

\* A free slot is left, and an object that is about to be registered has none.
Room ==
  /\ Cardinality(Used(slot)) <= n /\ n < Cap
  /\ \A i \in Used(slot) : slot[i].ud \in mapped

IInv == MapType /\ Room /\ SlotRight /\ RefExact /\ NoOrphan
-----------------------------------------------------------------------------
(* Numbers.                                                                *)

LEMMA Least ==
  ASSUME NEW S \in SUBSET Nat, S # {}
  PROVE  \E x \in S : \A y \in S : x <= y
<1> DEFINE R == {ss \in Nat \X Nat : ss[1] < ss[2]}
<1>1. IsWellFoundedOn(R, Nat)
  BY NatLessThanWellFounded DEF OpToRel
<1> HIDE DEF R
<1>2. PICK x \in S : \A y \in S : <<y, x>> \notin R
  BY <1>1, WFMin
<1>3. ASSUME NEW y \in S, y < x PROVE FALSE
  <2>1. <<y, x>> \in R
    BY <1>3 DEF R
  <2> QED
    BY <1>2, <2>1
<1> QED
  BY <1>3

LEMMA MinIsMember ==
  ASSUME NEW S \in SUBSET Nat, S # {}
  PROVE  Min(S) \in S
BY Least DEF Min

LEMMA MaxIsMember ==
  ASSUME NEW c \in Nat, NEW S \in SUBSET (0..c), S # {}
  PROVE  Max(S) \in S
<1> DEFINE T == {c - x : x \in S}
<1>1. T \in SUBSET Nat /\ T # {}
  <2>1. \A x \in S : x \in 0..c
    OBVIOUS
  <2>2. \A x \in 0..c : c - x \in Nat
    OBVIOUS
  <2>3. QED
    BY <2>1, <2>2
<1>2. PICK m \in T : \A y \in T : m <= y
  BY <1>1, Least
<1>3. PICK x \in S : m = c - x
  OBVIOUS
<1>4. \A y \in S : x >= y
  BY <1>2, <1>3
<1> QED
  BY <1>4 DEF Max

LEMMA RestInTable ==
  ASSUME NEW c \in Nat \ {0}, NEW x \in Nat
  PROVE  x % c \in 0..c - 1
OBVIOUS

LEMMA SizeOf ==
  ASSUME NEW c \in Nat \ {0}, NEW sl \in Tables(c)
  PROVE  DOMAIN sl = 0..c - 1 /\ Cardinality(DOMAIN sl) = c
<1>1. DOMAIN sl = 0..c - 1
  BY DEF Tables
<1>2. Cardinality(0..c - 1) = c
  BY FS_Interval
<1> QED
  BY <1>1, <1>2
-----------------------------------------------------------------------------
(* The references of one handle.                                           *)

HeldPairs(id) == {p \in Thread \X (1..MaxRefs) : p[2] <= holds[p[1]][id]}

LEMMA HoldersFinite ==
  ASSUME MapType, NEW id \in Id
  PROVE  IsFiniteSet(HeldPairs(id)) /\ Holders(id) = Cardinality(HeldPairs(id))
         /\ Holders(id) \in Nat
<1>1. IsFiniteSet(Thread \X (1..MaxRefs))
  <2>1. IsFiniteSet(1..MaxRefs) /\ IsFiniteSet(Thread)
    BY HandleMapAssumption, FS_Interval
  <2>2. QED
    BY <2>1, FS_Product
<1>2. IsFiniteSet(HeldPairs(id))
  BY <1>1, FS_Subset DEF HeldPairs
<1> QED
  BY <1>2, FS_CardinalityType DEF Holders, HeldPairs

\* A thread that may take one more reference has not all of them to one id.
LEMMA NotFull ==
  ASSUME MapType, NEW t \in Thread, NEW id \in Id, CanHold(t)
  PROVE  holds[t][id] < MaxRefs
<1> DEFINE S == {p \in Id \X (1..MaxRefs) : p[2] <= holds[t][p[1]]}
           T == {id} \X (1..MaxRefs)
<1>0. holds[t][id] \in 0..MaxRefs /\ MaxRefs \in Nat
  BY HandleMapAssumption DEF MapType
<1> SUFFICES ASSUME holds[t][id] >= MaxRefs PROVE FALSE
  BY <1>0
<1>1. T \subseteq S
  <2>1. \A k \in 1..MaxRefs : k <= holds[t][id]
    BY <1>0
  <2>2. QED
    BY <2>1
<1>2. IdMod - 1 \in Int
  BY HandleMapAssumption
<1>3. IsFiniteSet(Id) /\ IsFiniteSet(1..MaxRefs)
  BY <1>2, HandleMapAssumption, FS_Interval DEF Id
<1>4. IsFiniteSet(Id \X (1..MaxRefs))
  BY <1>3, FS_Product
<1>5. IsFiniteSet(S)
  BY <1>4, FS_Subset
<1>6. Cardinality(T) = 1 * Cardinality(1..MaxRefs)
  <2>1. IsFiniteSet({id}) /\ Cardinality({id}) = 1
    BY FS_Singleton
  <2>2. Cardinality(T) = Cardinality({id}) * Cardinality(1..MaxRefs)
    BY <1>3, <2>1, FS_Product
  <2>3. QED
    BY <2>1, <2>2
<1>7. Cardinality(1..MaxRefs) = MaxRefs
  BY HandleMapAssumption, FS_Interval
<1>8. Cardinality(T) <= Cardinality(S)
  BY <1>1, <1>5, FS_Subset
<1>9. Cardinality(S) < MaxRefs
  BY DEF CanHold
<1> HIDE DEF S, T
<1>10. Cardinality(S) \in Nat
  BY <1>5, FS_CardinalityType
<1> QED
  BY <1>6, <1>7, <1>8, <1>9, <1>10, HandleMapAssumption

LEMMA OneMoreHolder ==
  ASSUME MapType, NEW t \in Thread, NEW id \in Id, holds[t][id] < MaxRefs,
         holds' = [holds EXCEPT ![t][id] = @ + 1]
  PROVE  /\ holds' \in [Thread -> [Id -> 0..MaxRefs]]
         /\ \A x \in Id : Holders(x)' = IF x = id THEN Holders(x) + 1 ELSE Holders(x)
<1>1. \A u \in Thread : holds[u] \in [Id -> 0..MaxRefs]
  BY DEF MapType
<1>2. \A u \in Thread, x \in Id :
        /\ holds[u][x] \in 0..MaxRefs
        /\ holds'[u][x] = IF u = t /\ x = id THEN holds[u][x] + 1 ELSE holds[u][x]
  BY <1>1 DEF MapType
<1>3. holds' \in [Thread -> [Id -> 0..MaxRefs]]
  BY <1>1, HandleMapAssumption DEF MapType
<1>4. ASSUME NEW x \in Id
      PROVE  Holders(x)' = IF x = id THEN Holders(x) + 1 ELSE Holders(x)
  <2> DEFINE new == <<t, holds[t][id] + 1>>
  <2>1. IsFiniteSet(HeldPairs(x)) /\ Holders(x) = Cardinality(HeldPairs(x))
    BY HoldersFinite
  <2>2. Holders(x)' = Cardinality(HeldPairs(x)')
    BY DEF Holders, HeldPairs
  <2>3. CASE x = id
    <3>1. new \in Thread \X (1..MaxRefs) /\ new \notin HeldPairs(x)
      BY <1>2, <2>3, HandleMapAssumption DEF HeldPairs
    <3>2. HeldPairs(x)' = HeldPairs(x) \cup {new}
      <4>1. ASSUME NEW p \in Thread \X (1..MaxRefs)
            PROVE  p[2] <= holds'[p[1]][x] <=> p[2] <= holds[p[1]][x] \/ p = new
        <5>1. PICK u \in Thread, k \in 1..MaxRefs : p = <<u, k>>
          OBVIOUS
        <5>2. CASE u = t
          BY <1>2, <2>3, <5>1, <5>2, HandleMapAssumption
        <5>3. CASE u # t
          BY <1>2, <2>3, <5>1, <5>3
        <5>4. QED
          BY <5>2, <5>3
      <4>2. QED
        BY <3>1, <4>1 DEF HeldPairs
    <3>3. QED
      BY <2>1, <2>2, <2>3, <3>1, <3>2, FS_AddElement
  <2>4. CASE x # id
    <3>1. HeldPairs(x)' = HeldPairs(x)
      BY <1>2, <2>4 DEF HeldPairs
    <3>2. QED
      BY <2>1, <2>2, <2>4, <3>1
  <2>5. QED
    BY <2>3, <2>4
<1> QED
  BY <1>3, <1>4

LEMMA OneHolderLess ==
  ASSUME MapType, NEW t \in Thread, NEW id \in Id, holds[t][id] > 0,
         holds' = [holds EXCEPT ![t][id] = @ - 1]
  PROVE  /\ holds' \in [Thread -> [Id -> 0..MaxRefs]]
         /\ Holders(id) > 0
         /\ \A x \in Id : Holders(x)' = IF x = id THEN Holders(x) - 1 ELSE Holders(x)
<1>1. \A u \in Thread : holds[u] \in [Id -> 0..MaxRefs]
  BY DEF MapType
<1>2. \A u \in Thread, x \in Id :
        /\ holds[u][x] \in 0..MaxRefs
        /\ holds'[u][x] = IF u = t /\ x = id THEN holds[u][x] - 1 ELSE holds[u][x]
  BY <1>1 DEF MapType
<1>3. holds' \in [Thread -> [Id -> 0..MaxRefs]]
  BY <1>1, HandleMapAssumption DEF MapType
<1> DEFINE old == <<t, holds[t][id]>>
<1>4. old \in HeldPairs(id)
  BY <1>2, HandleMapAssumption DEF HeldPairs
<1>5. ASSUME NEW x \in Id
      PROVE  Holders(x)' = IF x = id THEN Holders(x) - 1 ELSE Holders(x)
  <2>1. IsFiniteSet(HeldPairs(x)) /\ Holders(x) = Cardinality(HeldPairs(x))
    BY HoldersFinite
  <2>2. Holders(x)' = Cardinality(HeldPairs(x)')
    BY DEF Holders, HeldPairs
  <2>3. CASE x = id
    <3>1. HeldPairs(x)' = HeldPairs(x) \ {old}
      <4>1. ASSUME NEW p \in Thread \X (1..MaxRefs)
            PROVE  p[2] <= holds'[p[1]][x] <=> p[2] <= holds[p[1]][x] /\ p # old
        <5>1. PICK u \in Thread, k \in 1..MaxRefs : p = <<u, k>>
          OBVIOUS
        <5>2. CASE u = t
          BY <1>2, <2>3, <5>1, <5>2, HandleMapAssumption
        <5>3. CASE u # t
          BY <1>2, <2>3, <5>1, <5>3
        <5>4. QED
          BY <5>2, <5>3
      <4>2. QED
        BY <4>1 DEF HeldPairs
    <3>2. QED
      BY <1>4, <2>1, <2>2, <2>3, <3>1, FS_RemoveElement
  <2>4. CASE x # id
    <3>1. HeldPairs(x)' = HeldPairs(x)
      BY <1>2, <2>4 DEF HeldPairs
    <3>2. QED
      BY <2>1, <2>2, <2>4, <3>1
  <2>5. QED
    BY <2>3, <2>4
<1>6. Holders(id) > 0
  <2>1. IsFiniteSet(HeldPairs(id)) /\ Holders(id) = Cardinality(HeldPairs(id))
        /\ Holders(id) \in Nat
    BY HoldersFinite
  <2>2. Cardinality(HeldPairs(id)) # 0
    BY <1>4, <2>1, FS_EmptySet
  <2>3. QED
    BY <2>1, <2>2
<1> QED
  BY <1>3, <1>5, <1>6
-----------------------------------------------------------------------------
(* Tables.                                                                 *)

\* The table itself, or the one that expand_map has filled from it.
Copied(sl, c) ==
  /\ c \in Nat \ {0}
  /\ sl \in Tables(c)
  /\ \A j \in 0..c - 1 : sl[j].id # 0 =>
       /\ j = sl[j].id % c
       /\ \E i \in DOMAIN slot : sl[j] = slot[i]

LEMMA SlotIsCopied == MapType /\ SlotRight => Copied(slot, Cap)
BY SizeOf DEF MapType, SlotRight, Copied, Index

LEMMA ExpandedIsCopied ==
  ASSUME MapType
  PROVE  Copied(Expanded, 2 * Cap)
<1> DEFINE c == 2 * Cap
           From(j) == {i \in DOMAIN slot : slot[i].id % c = j}
<1>1. c \in Nat \ {0} /\ Cap \in Nat \ {0}
  BY DEF MapType
<1>2. DOMAIN slot = 0..Cap - 1 /\ \A i \in DOMAIN slot : slot[i] \in Record
  BY SizeOf DEF MapType, Tables
<1>3. \A j \in 0..c - 1 :
        Expanded[j] = IF From(j) = {} THEN Free ELSE slot[Max(From(j))]
  BY DEF Expanded
<1>4. ASSUME NEW j \in 0..c - 1
      PROVE  /\ Expanded[j] \in Record
             /\ Expanded[j].id # 0 => j = Expanded[j].id % c
                                      /\ \E i \in DOMAIN slot : Expanded[j] = slot[i]
  <2>1. CASE From(j) = {}
    <3>1. Expanded[j] = Free
      BY <1>3, <2>1
    <3>2. Free \in Record /\ Free.id = 0
      BY DEF Free, Record
    <3>3. QED
      BY <3>1, <3>2
  <2>2. CASE From(j) # {}
    <3>1. Cap - 1 \in Nat /\ From(j) \in SUBSET (0..Cap - 1)
      BY <1>1, <1>2
    <3>2. Max(From(j)) \in From(j)
      BY <2>2, <3>1, MaxIsMember
    <3>3. QED
      BY <1>2, <1>3, <2>2, <3>2
  <2>3. QED
    BY <2>1, <2>2
<1>5. Expanded \in Tables(c)
  <2>1. Expanded = [j \in 0..c - 1 |-> Expanded[j]]
    BY DEF Expanded
  <2>2. QED
    BY <1>4, <2>1 DEF Tables
<1> QED
  BY <1>1, <1>4, <1>5 DEF Copied

\* A copy has each handle once, and the same record as the table.
LEMMA CopiedOnce ==
  ASSUME MapType, SlotRight, NEW sl, NEW c, Copied(sl, c)
  PROVE  /\ DOMAIN sl = 0..c - 1 /\ Cardinality(DOMAIN sl) = c
         /\ \A j \in Used(sl) : /\ sl[j].id \in Id /\ j = sl[j].id % c
                                /\ Index(sl[j].id) \in Used(slot)
                                /\ slot[Index(sl[j].id)] = sl[j]
         /\ \A j, k \in Used(sl) : sl[j].id = sl[k].id => j = k
<1>1. DOMAIN sl = 0..c - 1 /\ Cardinality(DOMAIN sl) = c
  BY SizeOf DEF Copied
<1>2. ASSUME NEW j \in Used(sl)
      PROVE  /\ sl[j].id \in Id /\ j = sl[j].id % c
             /\ Index(sl[j].id) \in Used(slot)
             /\ slot[Index(sl[j].id)] = sl[j]
  <2>1. sl[j].id \in Id /\ j = sl[j].id % c
    BY <1>1 DEF Used, Copied, Tables, Record
  <2>2. PICK i \in DOMAIN slot : sl[j] = slot[i]
    BY <1>1 DEF Used, Copied
  <2>3. slot[i].id # 0
    BY <2>2 DEF Used
  <2>4. i = Index(slot[i].id)
    BY <2>3 DEF SlotRight
  <2>5. QED
    BY <2>1, <2>2, <2>3, <2>4 DEF Used
<1> QED
  BY <1>1, <1>2

\* It has no more handles than the table.
LEMMA CopiedSize ==
  ASSUME MapType, SlotRight, Room, NEW sl, NEW c, Copied(sl, c)
  PROVE  IsFiniteSet(Used(sl)) /\ Cardinality(Used(sl)) \in Nat /\ Cardinality(Used(sl)) <= n
<1> DEFINE f == [j \in Used(sl) |-> Index(sl[j].id)]
<1>1. IsFiniteSet(Used(slot))
  <2>1. IsFiniteSet(DOMAIN slot)
    BY SizeOf, FS_Interval DEF MapType
  <2>2. QED
    BY <2>1, FS_Subset DEF Used
<1>2. f \in Injection(Used(sl), Used(slot))
  BY CopiedOnce DEF Injection, IsInjective
<1> HIDE DEF f
<1>3. IsFiniteSet(Used(sl)) /\ Cardinality(Used(sl)) <= Cardinality(Used(slot))
  BY <1>1, <1>2, FS_Injection
<1>4. Cardinality(Used(sl)) \in Nat /\ Cardinality(Used(slot)) \in Nat
  BY <1>1, <1>3, FS_CardinalityType
<1> QED
  BY <1>3, <1>4 DEF Room, MapType

\* The loop of handlemap_new ends at a free slot.
LEMMA NextIdIsFree ==
  ASSUME MapType, SlotRight, Room, NEW sl, NEW c, Copied(sl, c), n < c, c < IdMod
  PROVE  /\ NextId(sl) \in Id
         /\ NextId(sl) % c \in 0..c - 1
         /\ sl[NextId(sl) % c].id = 0
<1> DEFINE after(k) == (lastid + k) % IdMod
           S == {k \in 1..IdMod : after(k) # 0 /\ sl[after(k) % c].id = 0}
<1>1. c \in Nat \ {0} /\ IdMod \in Nat \ {0} /\ lastid \in 0..(IdMod - 1)
      /\ DOMAIN sl = 0..c - 1 /\ Cardinality(DOMAIN sl) = c
  BY HandleMapAssumption, CopiedOnce DEF Copied, MapType
<1>2. PICK j \in 0..c - 1 : sl[j].id = 0
  <2>1. CASE \A i \in 0..c - 1 : sl[i].id # 0
    <3>1. Used(sl) = DOMAIN sl
      BY <1>1, <2>1 DEF Used
    <3>2. QED
      BY <1>1, <3>1, CopiedSize DEF MapType
  <2>2. QED
    BY <2>1
<1> DEFINE id == IF j = 0 THEN c ELSE j
           k == IF id > lastid THEN id - lastid ELSE id - lastid + IdMod
<1>3. id \in Id /\ id % c = j
  <2>1. id \in 1..c /\ c \in 1..IdMod - 1
    BY <1>1
  <2>2. c % c = 0 /\ j % c = j
    BY <1>1
  <2>3. id % c = j
    BY <2>2
  <2>4. id \in 1..IdMod - 1
    BY <1>1, <2>1
  <2>5. QED
    BY <2>3, <2>4 DEF Id
<1>4. k \in 1..IdMod /\ after(k) = id
  <2>1. id \in 1..IdMod - 1
    BY <1>3 DEF Id
  <2> HIDE DEF id
  <2>2. k \in 1..IdMod /\ (lastid + k = id \/ lastid + k = id + IdMod)
    BY <1>1, <2>1
  <2>3. id % IdMod = id /\ (id + IdMod) % IdMod = id
    BY <1>1, <2>1
  <2>4. QED
    BY <2>2, <2>3
<1>5. k \in S
  BY <1>2, <1>3, <1>4 DEF Id
<1> HIDE DEF k, id
<1>6. S \in SUBSET Nat /\ S # {}
  BY <1>5
<1>7. Min(S) \in S
  BY <1>6, MinIsMember
<1>8. NextId(sl) = after(Min(S))
  BY <1>1 DEF NextId
<1>9. Min(S) \in 1..IdMod /\ after(Min(S)) # 0 /\ sl[after(Min(S)) % c].id = 0
  BY <1>7
<1> HIDE DEF S
<1>10. after(Min(S)) \in 0..IdMod - 1
  BY <1>1, <1>9
<1> HIDE DEF after
<1>11. after(Min(S)) \in Id /\ after(Min(S)) \in Nat
  BY <1>9, <1>10 DEF Id
<1> QED
  BY <1>1, <1>8, <1>9, <1>11, RestInTable
-----------------------------------------------------------------------------
(* Changes of one slot.                                                    *)

LEMMA OneSlot ==
  ASSUME NEW c \in Nat \ {0}, NEW sl \in Tables(c), NEW x \in 0..c - 1, NEW r \in Record,
         slot' = [sl EXCEPT ![x] = r]
  PROVE  /\ Cap' = c /\ DOMAIN slot' = 0..c - 1 /\ slot' \in Tables(c)
         /\ slot'[x] = r /\ \A i \in (0..c - 1) \ {x} : slot'[i] = sl[i]
<1>1. slot' \in Tables(c)
  BY DEF Tables
<1>2. DOMAIN slot' = 0..c - 1 /\ Cardinality(DOMAIN slot') = c
  BY <1>1, SizeOf
<1> QED
  BY <1>1, <1>2 DEF Cap, Tables

LEMMA FoundIsUsed ==
  ASSUME MapType, NEW id \in Id
  PROVE  Index(id) \in 0..Cap - 1 /\ (Find(id) => Index(id) \in Used(slot))
<1>1. id \in Nat /\ id # 0
  BY HandleMapAssumption DEF Id
<1>2. Index(id) \in 0..Cap - 1 /\ DOMAIN slot = 0..Cap - 1
  BY <1>1, RestInTable, SizeOf DEF Index, MapType
<1> QED
  BY <1>1, <1>2 DEF Find, Used

\* A live handle is found, and only live handles are.
LEMMA LiveIsFound ==
  ASSUME MapType, SlotRight, NEW x \in Id
  PROVE  x \in Live <=> Find(x)
<1>1. x # 0
  BY HandleMapAssumption DEF Id
<1>2. DOMAIN slot = 0..Cap - 1
  BY SizeOf DEF MapType
<1> QED
  BY <1>1, <1>2, FoundIsUsed DEF Live, LiveIn, Find, SlotRight

LEMMA LiveAreIds ==
  ASSUME MapType
  PROVE  Live \subseteq Id
<1>1. \A i \in DOMAIN slot : slot[i] \in Record
  BY SizeOf DEF MapType, Tables
<1> QED
  BY <1>1 DEF Live, LiveIn, Record

\* A slot whose count has changed by d.
WithRef(r, d) == [r EXCEPT !.ref = @ + d]

LEMMA CountedRecord ==
  ASSUME NEW r \in Record, NEW d \in Int
  PROVE  LET q == WithRef(r, d)
         IN  q \in Record /\ q.id = r.id /\ q.ud = r.ud /\ q.ref = r.ref + d
BY DEF Record, WithRef

\* References are taken or given back.
LEMMA CountChanges ==
  ASSUME IInv, NEW id \in Id, Find(id), NEW d \in Int,
         slot' = [slot EXCEPT ![Index(id)] = WithRef(slot[Index(id)], d)],
         holds' \in [Thread -> [Id -> 0..MaxRefs]],
         \A x \in Id : Holders(x)' = IF x = id THEN Holders(x) + d ELSE Holders(x),
         lastid' = lastid, n' = n, mapped' = mapped, lost' = lost,
         deleting' \in [Thread -> Id \cup {0}]
  PROVE  /\ MapType' /\ Room' /\ SlotRight' /\ RefExact'
         /\ Cap' = Cap /\ Live' = Live
         /\ \A i \in DOMAIN slot :
              slot'[i].ref = IF i = Index(id) THEN slot[i].ref + d ELSE slot[i].ref
<1> DEFINE x == Index(id)
           r == WithRef(slot[x], d)
<1>1. Cap \in Nat \ {0} /\ slot \in Tables(Cap) /\ DOMAIN slot = 0..Cap - 1
      /\ x \in 0..Cap - 1 /\ slot[x] \in Record
  BY SizeOf, FoundIsUsed DEF IInv, MapType, Tables
<1>2. r \in Record /\ r.id = slot[x].id /\ r.ud = slot[x].ud /\ r.ref = slot[x].ref + d
  BY <1>1, CountedRecord
<1>3. slot' = [slot EXCEPT ![x] = r]
  OBVIOUS
<1> HIDE DEF x, r
<1>4. /\ Cap' = Cap /\ DOMAIN slot' = DOMAIN slot /\ slot' \in Tables(Cap)
      /\ slot'[x] = r /\ \A i \in DOMAIN slot \ {x} : slot'[i] = slot[i]
  <2>1. /\ Cap' = Cap /\ DOMAIN slot' = 0..Cap - 1 /\ slot' \in Tables(Cap)
        /\ slot'[x] = r /\ \A i \in (0..Cap - 1) \ {x} : slot'[i] = slot[i]
    BY <1>1, <1>2, <1>3, OneSlot
  <2>2. QED
    BY <1>1, <2>1
<1>5. \A i \in DOMAIN slot : /\ slot'[i].id = slot[i].id /\ slot'[i].ud = slot[i].ud
                             /\ slot'[i].ref = IF i = x THEN slot[i].ref + d ELSE slot[i].ref
  BY <1>2, <1>4
<1>6. MapType'
  BY <1>4 DEF IInv, MapType
<1>7. Used(slot') = Used(slot) /\ Live' = Live
  BY <1>4, <1>5 DEF Used, Live, LiveIn
<1>8. Room'
  BY <1>4, <1>5, <1>7 DEF IInv, Room, Used
<1>9. SlotRight'
  BY <1>4, <1>5 DEF IInv, SlotRight, Index
<1>10. RefExact'
  <2> SUFFICES ASSUME NEW y \in Id \ lost
               PROVE  Holders(y)' = IF slot'[y % Cap].id = y THEN slot'[y % Cap].ref ELSE 0
    BY <1>4 DEF RefExact, Find, Index
  <2>1. Holders(y) = IF slot[y % Cap].id = y THEN slot[y % Cap].ref ELSE 0
    BY DEF IInv, RefExact, Find, Index
  <2>2. y % Cap \in DOMAIN slot
    BY <1>1, FoundIsUsed DEF IInv, Index
  <2>3. x = id % Cap /\ slot[x].id = id
    BY DEF Find, Index, x
  <2>4. CASE y = id
    BY <1>5, <2>1, <2>2, <2>3, <2>4
  <2>5. CASE y # id
    <3>1. slot[y % Cap].id = y => y % Cap # x
      BY <2>3, <2>5
    <3>2. QED
      BY <1>5, <2>1, <2>2, <2>5, <3>1
  <2>6. QED
    BY <2>4, <2>5
<1> QED
  BY <1>4, <1>5, <1>6, <1>7, <1>8, <1>9, <1>10 DEF x

LEMMA GrabStep ==
  ASSUME IInv, NEW t \in Thread, NEW id \in Id, Grab(t, id)
  PROVE  IInv' /\ Live' = Live /\ UNCHANGED <<n, mapped, lost>>
<1>1. /\ CanHold(t) /\ Find(id)
      /\ slot' = [slot EXCEPT ![Index(id)].ref = @ + 1]
      /\ holds' = [holds EXCEPT ![t][id] = @ + 1]
      /\ UNCHANGED <<lastid, n, mapped, deleting, lost>>
  BY DEF Grab
<1>2. /\ holds' \in [Thread -> [Id -> 0..MaxRefs]]
      /\ \A x \in Id : Holders(x)' = IF x = id THEN Holders(x) + 1 ELSE Holders(x)
  BY <1>1, NotFull, OneMoreHolder DEF IInv
<1>3. deleting' \in [Thread -> Id \cup {0}]
  BY <1>1 DEF IInv, MapType
<1>4. /\ MapType' /\ Room' /\ SlotRight' /\ RefExact'
      /\ Cap' = Cap /\ Live' = Live
      /\ \A i \in DOMAIN slot :
           slot'[i].ref = IF i = Index(id) THEN slot[i].ref + 1 ELSE slot[i].ref
  <2>1. slot' = [slot EXCEPT ![Index(id)] = WithRef(slot[Index(id)], 1)]
    BY <1>1 DEF WithRef
  <2>2. lastid' = lastid /\ n' = n /\ mapped' = mapped /\ lost' = lost
        /\ Find(id) /\ 1 \in Int
    BY <1>1
  <2>3. QED
    BY <1>2, <1>3, <2>1, <2>2, CountChanges
<1>5. NoOrphan'
  <2> SUFFICES ASSUME NEW x \in Live \ lost, slot'[Index(x)].ref = 0
               PROVE  \E u \in Thread : deleting[u] = x
    BY <1>1, <1>4 DEF NoOrphan, Index
  <2>1. x \in Id /\ Find(x) /\ Index(x) \in DOMAIN slot
    BY LiveAreIds, LiveIsFound, FoundIsUsed DEF IInv, Used
  <2>2. CASE Index(x) = Index(id)
    <3>1. x = id
      BY <1>1, <2>1, <2>2 DEF Find
    <3>2. slot[Index(x)].ref = Holders(x) /\ Holders(x) \in Nat
      BY <2>1, HoldersFinite DEF IInv, RefExact
    <3>3. QED
      BY <1>4, <2>1, <2>2, <3>2
  <2>3. CASE Index(x) # Index(id)
    BY <1>4, <2>1, <2>3 DEF IInv, NoOrphan
  <2>4. QED
    BY <2>2, <2>3
<1> QED
  BY <1>1, <1>4, <1>5 DEF IInv

LEMMA ReleaseStep ==
  ASSUME IInv, NEW t \in Thread, NEW id \in Id, ReleaseRef(t, id)
  PROVE  IInv' /\ Live' = Live /\ UNCHANGED <<n, mapped, lost>>
<1> DEFINE after == IF Find(id) /\ slot[Index(id)].ref <= 1 THEN id ELSE 0
<1>1. /\ deleting[t] = 0 /\ holds[t][id] > 0
      /\ holds' = [holds EXCEPT ![t][id] = @ - 1]
      /\ slot' = IF Find(id) THEN [slot EXCEPT ![Index(id)].ref = @ - 1] ELSE slot
      /\ deleting' = [deleting EXCEPT ![t] = after]
      /\ UNCHANGED <<lastid, n, mapped, lost>>
  BY DEF ReleaseRef
<1>2. /\ holds' \in [Thread -> [Id -> 0..MaxRefs]] /\ Holders(id) > 0
      /\ \A x \in Id : Holders(x)' = IF x = id THEN Holders(x) - 1 ELSE Holders(x)
  BY <1>1, OneHolderLess DEF IInv
<1>3. after \in Id \cup {0}
  OBVIOUS
<1> HIDE DEF after
<1>4. /\ deleting' \in [Thread -> Id \cup {0}] /\ deleting'[t] = after
      /\ \A u \in Thread \ {t} : deleting'[u] = deleting[u]
  BY <1>1, <1>3 DEF IInv, MapType
<1>5. \A x \in Id : (\E u \in Thread : deleting[u] = x) => \E u \in Thread : deleting'[u] = x
  <2>1. 0 \notin Id
    BY HandleMapAssumption DEF Id
  <2>2. QED
    BY <1>1, <1>4, <2>1
<1>6. CASE Find(id)
  <2>1. slot' = [slot EXCEPT ![Index(id)] = WithRef(slot[Index(id)], -1)]
    <3>1. slot[Index(id)].ref \in Int
      BY <1>6, FoundIsUsed, SizeOf DEF IInv, MapType, Tables, Record
    <3>2. slot[Index(id)].ref - 1 = slot[Index(id)].ref + (-1)
      BY <3>1
    <3>3. slot' = [slot EXCEPT ![Index(id)].ref = @ + (-1)]
      BY <1>1, <1>6, <3>2
    <3>4. QED
      BY <3>3 DEF WithRef
  <2>2. \A x \in Id : Holders(x)' = IF x = id THEN Holders(x) + (-1) ELSE Holders(x)
    BY <1>2, HoldersFinite DEF IInv
  <2>3. /\ MapType' /\ Room' /\ SlotRight' /\ RefExact'
        /\ Cap' = Cap /\ Live' = Live
        /\ \A i \in DOMAIN slot :
             slot'[i].ref = IF i = Index(id) THEN slot[i].ref + (-1) ELSE slot[i].ref
    <3>1. lastid' = lastid /\ n' = n /\ mapped' = mapped /\ lost' = lost /\ -1 \in Int
      BY <1>1
    <3>2. QED
      BY <1>2, <1>4, <1>6, <2>1, <2>2, <3>1, CountChanges
  <2>4. NoOrphan'
    <3> SUFFICES ASSUME NEW x \in Live \ lost, slot'[Index(x)].ref = 0
                 PROVE  \E u \in Thread : deleting'[u] = x
      BY <1>1, <2>3 DEF NoOrphan, Index
    <3>1. x \in Id /\ Find(x) /\ Index(x) \in DOMAIN slot
      BY LiveAreIds, LiveIsFound, FoundIsUsed DEF IInv, Used
    <3>2. CASE Index(x) = Index(id)
      <4>1. x = id
        BY <1>6, <3>1, <3>2 DEF Find
      <4>2. slot[Index(x)].ref \in Int
        BY <3>1, SizeOf DEF IInv, MapType, Tables, Record
      <4>3. slot[Index(id)].ref <= 1
        BY <2>3, <3>1, <4>1, <4>2
      <4>4. deleting'[t] = id
        BY <1>4, <1>6, <4>3 DEF after
      <4>5. QED
        BY <4>1, <4>4
    <3>3. CASE Index(x) # Index(id)
      <4>1. \E u \in Thread : deleting[u] = x
        BY <2>3, <3>1, <3>3 DEF IInv, NoOrphan
      <4>2. QED
        BY <1>5, <3>1, <4>1
    <3>4. QED
      BY <3>2, <3>3
  <2>5. QED
    BY <1>1, <2>3, <2>4 DEF IInv
<1>7. CASE ~Find(id)
  <2>1. slot' = slot /\ Cap' = Cap /\ Live' = Live
    BY <1>1, <1>7 DEF Cap, Live
  <2>2. id \in lost
    BY <1>2, <1>7 DEF IInv, RefExact
  <2>3. MapType' /\ Room' /\ SlotRight'
    <3>1. MapType'
      BY <1>1, <1>2, <1>4, <2>1 DEF IInv, MapType
    <3>2. Used(slot') = Used(slot)
      BY <2>1
    <3>3. Room'
      BY <1>1, <2>1, <3>2 DEF IInv, Room
    <3>4. SlotRight'
      BY <2>1 DEF IInv, SlotRight, Index
    <3>5. QED
      BY <3>1, <3>3, <3>4
  <2>4. RefExact'
    BY <1>1, <1>2, <2>1, <2>2 DEF IInv, RefExact, Find, Index
  <2>5. NoOrphan'
    BY <1>1, <1>5, <2>1, LiveAreIds DEF IInv, NoOrphan, Index
  <2>6. QED
    BY <1>1, <2>1, <2>3, <2>4, <2>5 DEF IInv
<1> QED
  BY <1>6, <1>7
-----------------------------------------------------------------------------
(* Deletion.                                                               *)

LEMMA DeleteStep ==
  ASSUME IInv, NEW t \in Thread, TryDelete(t), Deletable(deleting[t])
  PROVE  /\ IInv'
         /\ \E id \in Live : Live' = Live \ {id}
         /\ \E o \in mapped : mapped' = mapped \ {o}
         /\ n' = n - 1 /\ lost' = lost
<1> DEFINE id == deleting[t]
           x == Index(id)
<1>1. /\ id # 0 /\ Find(id) /\ slot[x].ref <= 0
      /\ deleting' = [deleting EXCEPT ![t] = 0]
      /\ slot' = [slot EXCEPT ![x] = Free]
      /\ n' = n - 1 /\ mapped' = mapped \ {slot[x].ud}
      /\ lastid' = lastid /\ holds' = holds /\ lost' = lost
  BY DEF TryDelete, Deletable
<1>2. id \in Id /\ 0 \notin Id
  BY <1>1, HandleMapAssumption DEF IInv, MapType, Id
<1>3. Cap \in Nat \ {0} /\ slot \in Tables(Cap) /\ DOMAIN slot = 0..Cap - 1
      /\ x \in 0..Cap - 1 /\ x \in Used(slot) /\ slot[x].id = id
  BY <1>1, <1>2, SizeOf, FoundIsUsed DEF IInv, MapType, Find
<1>4. Free \in Record /\ Free.id = 0
  BY DEF Free, Record
<1>5. deleting' \in [Thread -> Id \cup {0}]
      /\ \A u \in Thread \ {t} : deleting'[u] = deleting[u]
  BY <1>1 DEF IInv, MapType
<1>6. x = id % Cap
  BY DEF Index
<1> HIDE DEF id, x
<1>7. /\ Cap' = Cap /\ DOMAIN slot' = 0..Cap - 1 /\ slot' \in Tables(Cap)
      /\ slot'[x] = Free /\ \A i \in (0..Cap - 1) \ {x} : slot'[i] = slot[i]
  BY <1>1, <1>3, <1>4, OneSlot
<1>8. MapType'
  BY <1>1, <1>5, <1>7 DEF IInv, MapType
<1>9. Used(slot') = Used(slot) \ {x}
  BY <1>3, <1>4, <1>7 DEF Used
<1>10. Room'
  <2>1. IsFiniteSet(Used(slot)) /\ Cardinality(Used(slot)) \in Nat
    BY SlotIsCopied, CopiedSize DEF IInv
  <2>2. Cardinality(Used(slot')) = Cardinality(Used(slot)) - 1
    BY <1>3, <1>9, <2>1, FS_RemoveElement
  <2>3. n \in Int /\ Cardinality(Used(slot)) <= n /\ n < Cap
    BY DEF IInv, MapType, Room
  <2>4. Cardinality(Used(slot')) <= n' /\ n' < Cap'
    BY <1>1, <1>3, <1>7, <2>1, <2>2, <2>3
  <2>5. ASSUME NEW i \in Used(slot') PROVE slot'[i].ud \in mapped'
    <3>1. i \in Used(slot) /\ i # x /\ slot'[i] = slot[i]
      BY <1>3, <1>7, <1>9 DEF Used
    <3>2. slot[i].ud # slot[x].ud
      BY <1>3, <3>1 DEF IInv, SlotRight, Used
    <3>3. QED
      BY <1>1, <3>1, <3>2 DEF IInv, Room
  <2>6. QED
    BY <2>4, <2>5 DEF Room
<1>11. SlotRight'
  BY <1>3, <1>4, <1>7 DEF IInv, SlotRight, Index
<1>12. RefExact'
  <2> SUFFICES ASSUME NEW y \in Id \ lost
               PROVE  Holders(y) = IF slot'[y % Cap].id = y THEN slot'[y % Cap].ref ELSE 0
    BY <1>1, <1>7 DEF RefExact, Find, Index, Holders
  <2>1. Holders(y) = (IF slot[y % Cap].id = y THEN slot[y % Cap].ref ELSE 0)
        /\ Holders(y) \in Nat
    BY HoldersFinite DEF IInv, RefExact, Find, Index
  <2>2. y % Cap \in 0..Cap - 1
    BY FoundIsUsed DEF IInv, Index
  <2>3. CASE y % Cap = x
    <3>1. slot'[y % Cap].id # y
      BY <1>2, <1>4, <1>7, <2>3
    <3>2. Holders(y) = 0
      <4>1. slot[x].ref \in Int
        BY <1>3 DEF Tables, Record
      <4>2. QED
        BY <1>1, <2>1, <2>3, <4>1
    <3>3. QED
      BY <3>1, <3>2
  <2>4. CASE y % Cap # x
    BY <1>7, <2>1, <2>2, <2>4
  <2>5. QED
    BY <2>3, <2>4
<1>13. NoOrphan'
  <2> SUFFICES ASSUME NEW y \in Live', y \notin lost, slot'[y % Cap].ref = 0
               PROVE  \E u \in Thread : deleting'[u] = y
    BY <1>1, <1>7 DEF NoOrphan, Index
  <2>1. PICK i \in 0..Cap - 1 : slot'[i].id = y /\ y # 0
    BY <1>7 DEF Live, LiveIn
  <2>2. i # x /\ slot'[i] = slot[i]
    BY <1>4, <1>7, <2>1
  <2>3. y \in Live /\ i = y % Cap
    BY <1>3, <2>1, <2>2 DEF IInv, SlotRight, Index, Live, LiveIn
  <2>4. y # id
    BY <1>6, <2>2, <2>3
  <2>5. PICK u \in Thread : deleting[u] = y
    BY <2>2, <2>3 DEF IInv, NoOrphan, Index
  <2>6. u # t
    BY <2>4, <2>5 DEF id
  <2>7. QED
    BY <1>5, <2>5, <2>6
<1>14. id \in Live /\ Live' = Live \ {id}
  <2>1. id \in Live
    BY <1>2, <1>3 DEF Live, LiveIn, Used
  <2>2. \A i \in DOMAIN slot \ {x} : slot[i].id # id
    BY <1>2, <1>3, <1>6 DEF IInv, SlotRight, Index
  <2>3. QED
    BY <1>3, <1>4, <1>7, <2>1, <2>2 DEF Live, LiveIn
<1>15. slot[x].ud \in mapped
  BY <1>3 DEF IInv, Room
<1> QED
  BY <1>1, <1>8, <1>10, <1>11, <1>12, <1>13, <1>14, <1>15 DEF IInv

LEMMA KeepStep ==
  ASSUME IInv, NEW t \in Thread, TryDelete(t), ~Deletable(deleting[t])
  PROVE  IInv' /\ Live' = Live /\ UNCHANGED <<n, mapped, lost>>
<1>1. /\ deleting[t] # 0 /\ deleting' = [deleting EXCEPT ![t] = 0]
      /\ slot' = slot /\ n' = n /\ mapped' = mapped
      /\ lastid' = lastid /\ holds' = holds /\ lost' = lost
  BY DEF TryDelete
<1>2. deleting' \in [Thread -> Id \cup {0}]
      /\ \A u \in Thread \ {t} : deleting'[u] = deleting[u]
  BY <1>1 DEF IInv, MapType
<1>3. Cap' = Cap /\ Live' = Live /\ Used(slot') = Used(slot)
  BY <1>1 DEF Cap, Live
<1>4. MapType' /\ Room' /\ SlotRight' /\ RefExact'
  <2>1. MapType'
    BY <1>1, <1>2, <1>3 DEF IInv, MapType
  <2>2. Room'
    BY <1>1, <1>3 DEF IInv, Room
  <2>3. SlotRight'
    BY <1>1, <1>3 DEF IInv, SlotRight, Index
  <2>4. RefExact'
    BY <1>1, <1>3 DEF IInv, RefExact, Find, Index, Holders
  <2>5. QED
    BY <2>1, <2>2, <2>3, <2>4
<1>5. NoOrphan'
  <2> SUFFICES ASSUME NEW x \in Live \ lost, slot[Index(x)].ref = 0
               PROVE  \E u \in Thread : deleting'[u] = x
    BY <1>1, <1>3 DEF NoOrphan, Index
  <2>1. PICK u \in Thread : deleting[u] = x
    BY DEF IInv, NoOrphan
  <2>2. Find(x)
    BY LiveAreIds, LiveIsFound DEF IInv
  <2>3. u # t
    BY <2>1, <2>2 DEF Deletable
  <2>4. QED
    BY <1>2, <2>1, <2>3
<1> QED
  BY <1>1, <1>3, <1>4, <1>5 DEF IInv
-----------------------------------------------------------------------------
(* Registration, in the table or in its copy.                              *)

Registered(t, u, sl, id) ==
  /\ lastid' = id
  /\ slot' = [sl EXCEPT ![id % Cardinality(DOMAIN sl)] =
                [id |-> id, ref |-> 1, ud |-> u]]
  /\ holds' = [holds EXCEPT ![t][id] = @ + 1]
  /\ lost' = lost \cup (LiveIn(slot) \ LiveIn(sl))
  /\ n' = n + 1
  /\ mapped' = mapped \cup {u}
  /\ UNCHANGED deleting

LEMMA RegisteredStep ==
  ASSUME IInv, NEW t \in Thread, NEW u \in Object, u \notin mapped, CanHold(t),
         NEW sl, NEW c, Copied(sl, c), n + 1 < c, c < IdMod,
         Registered(t, u, sl, NextId(sl))
  PROVE  /\ IInv'
         /\ \E id : lost' = {} => id \notin Live /\ Live' = Live \cup {id}
<1> DEFINE id == NextId(sl)
           x == id % c
           r == [id |-> id, ref |-> 1, ud |-> u]
<1>1. c \in Nat \ {0} /\ sl \in Tables(c) /\ DOMAIN sl = 0..c - 1
      /\ Cardinality(DOMAIN sl) = c
  BY CopiedOnce DEF IInv, Copied
<1>2. n \in Int /\ n < c
  BY <1>1 DEF IInv, MapType
<1>3. id \in Id /\ x \in 0..c - 1 /\ sl[x].id = 0
  BY <1>2, NextIdIsFree DEF IInv
<1>4. /\ lastid' = id /\ slot' = [sl EXCEPT ![x] = r]
      /\ holds' = [holds EXCEPT ![t][id] = @ + 1]
      /\ lost' = lost \cup (Live \ LiveIn(sl))
      /\ n' = n + 1 /\ mapped' = mapped \cup {u} /\ deleting' = deleting
  BY <1>1 DEF Registered, Live
<1>5. r \in Record /\ r.id = id /\ r.ref = 1 /\ r.ud = u
  BY <1>3 DEF Record
<1> HIDE DEF x, r
<1>6. /\ Cap' = c /\ DOMAIN slot' = 0..c - 1 /\ slot' \in Tables(c)
      /\ slot'[x] = r /\ \A i \in (0..c - 1) \ {x} : slot'[i] = sl[i]
  BY <1>1, <1>3, <1>4, <1>5, OneSlot
<1>7. /\ holds' \in [Thread -> [Id -> 0..MaxRefs]]
      /\ \A y \in Id : Holders(y)' = IF y = id THEN Holders(y) + 1 ELSE Holders(y)
  BY <1>3, <1>4, NotFull, OneMoreHolder DEF IInv
<1> HIDE DEF id
<1>8. x = id % c /\ id \in 0..(IdMod - 1) /\ id # 0
  BY <1>3, HandleMapAssumption DEF x, id, Id
<1>9. /\ \A j \in Used(sl) : /\ sl[j].id \in Id /\ j = sl[j].id % c
                             /\ Index(sl[j].id) \in Used(slot)
                             /\ slot[Index(sl[j].id)] = sl[j]
      /\ \A j, k \in Used(sl) : sl[j].id = sl[k].id => j = k
  BY CopiedOnce DEF IInv
<1>10. Used(slot') = Used(sl) \cup {x} /\ x \notin Used(sl)
  BY <1>1, <1>3, <1>5, <1>6, <1>8 DEF Used
<1>11. MapType'
  <2>1. lost' \subseteq Id
    BY <1>4, LiveAreIds DEF IInv, MapType
  <2>2. n' \in Int /\ deleting' \in [Thread -> Id \cup {0}]
    BY <1>2, <1>4 DEF IInv, MapType
  <2>3. QED
    BY <1>1, <1>4, <1>6, <1>7, <1>8, <2>1, <2>2 DEF MapType
<1>12. Room'
  <2>1. IsFiniteSet(Used(sl)) /\ Cardinality(Used(sl)) \in Nat /\ Cardinality(Used(sl)) <= n
    BY CopiedSize DEF IInv
  <2>2. Cardinality(Used(slot')) = Cardinality(Used(sl)) + 1
    BY <1>10, <2>1, FS_AddElement
  <2>3. Cardinality(Used(slot')) <= n' /\ n' < Cap'
    BY <1>1, <1>2, <1>4, <1>6, <2>1, <2>2
  <2>4. ASSUME NEW i \in Used(slot') PROVE slot'[i].ud \in mapped'
    <3>1. CASE i = x
      BY <1>4, <1>5, <1>6, <3>1
    <3>2. CASE i # x
      <4>1. i \in Used(sl) /\ slot'[i] = sl[i]
        BY <1>1, <1>6, <1>10, <3>2 DEF Used
      <4>2. sl[i].ud \in mapped
        BY <1>9, <4>1 DEF IInv, Room
      <4>3. QED
        BY <1>4, <4>1, <4>2
    <3>3. QED
      BY <3>1, <3>2
  <2>5. QED
    BY <2>3, <2>4 DEF Room
<1>13. SlotRight'
  <2>1. \A i \in DOMAIN slot' : slot'[i].id # 0 => i = slot'[i].id % c
    <3>1. ASSUME NEW i \in 0..c - 1, slot'[i].id # 0 PROVE i = slot'[i].id % c
      <4>1. CASE i = x
        BY <1>5, <1>6, <1>8, <4>1
      <4>2. CASE i # x
        BY <1>1, <1>6, <1>9, <3>1, <4>2 DEF Used
      <4>3. QED
        BY <4>1, <4>2
    <3>2. QED
      BY <1>6, <3>1
  <2>2. \A j \in Used(sl) : sl[j].ud # u
    BY <1>9 DEF IInv, Room
  <2>3. \A j, k \in Used(sl) : sl[j].ud = sl[k].ud => j = k
    <3> SUFFICES ASSUME NEW j \in Used(sl), NEW k \in Used(sl), sl[j].ud = sl[k].ud
                 PROVE  j = k
      OBVIOUS
    <3>1. Index(sl[j].id) = Index(sl[k].id)
      BY <1>9 DEF IInv, SlotRight, Used
    <3>2. sl[j] = sl[k]
      BY <1>9, <3>1
    <3>3. QED
      BY <1>9, <3>2
  <2>4. ASSUME NEW j \in Used(slot'), NEW k \in Used(slot'), slot'[j].ud = slot'[k].ud
        PROVE  j = k
    <3>1. \A i \in Used(slot') :
            \/ i = x /\ slot'[i].ud = u
            \/ i # x /\ i \in Used(sl) /\ slot'[i].ud = sl[i].ud
      BY <1>1, <1>5, <1>6, <1>10 DEF Used
    <3>2. QED
      BY <2>2, <2>3, <2>4, <3>1
  <2>5. QED
    BY <1>6, <2>1, <2>4 DEF SlotRight, Index, Used
<1>14. \A y \in Id : y # id =>
         (slot'[y % c].id = y <=> y % c \in Used(sl) /\ sl[y % c].id = y)
         /\ (slot'[y % c].id = y => slot'[y % c] = sl[y % c])
  <2> SUFFICES ASSUME NEW y \in Id, y # id
               PROVE  /\ slot'[y % c].id = y <=> y % c \in Used(sl) /\ sl[y % c].id = y
                      /\ slot'[y % c].id = y => slot'[y % c] = sl[y % c]
    OBVIOUS
  <2>1. y # 0 /\ y % c \in 0..c - 1
    BY <1>1, HandleMapAssumption, RestInTable DEF Id
  <2>2. CASE y % c = x
    BY <1>3, <1>5, <1>6, <1>10, <2>1, <2>2
  <2>3. CASE y % c # x
    BY <1>1, <1>6, <2>1, <2>3 DEF Used
  <2>4. QED
    BY <2>2, <2>3
<1>15. \A y \in Id : y \in LiveIn(sl) <=> y % c \in Used(sl) /\ sl[y % c].id = y
  BY <1>1, <1>9, HandleMapAssumption DEF LiveIn, Used, Id
<1>16. \A y \in Id : y % c \in Used(sl) /\ sl[y % c].id = y =>
                       Find(y) /\ slot[Index(y)] = sl[y % c]
  BY <1>9 DEF Find
<1>17. id \notin LiveIn(sl)
  BY <1>3, <1>8, <1>10, <1>15 DEF id
<1>18. \A y \in Id : y \notin lost' => y \notin lost /\ (Find(y) => y \in LiveIn(sl))
  BY <1>4, LiveIsFound DEF IInv
<1>19. RefExact'
  <2> SUFFICES ASSUME NEW y \in Id, y \notin lost'
               PROVE  Holders(y)' = IF slot'[y % c].id = y THEN slot'[y % c].ref ELSE 0
    BY <1>6 DEF RefExact, Find, Index
  <2>1. Holders(y) = IF Find(y) THEN slot[Index(y)].ref ELSE 0
    BY <1>18 DEF IInv, RefExact
  <2>2. CASE y = id
    <3>1. Holders(y) = 0
      BY <1>17, <1>18, <2>1, <2>2
    <3>2. QED
      BY <1>5, <1>6, <1>7, <1>8, <2>2, <3>1
  <2>3. CASE y # id
    <3>1. Holders(y)' = Holders(y)
      BY <1>7, <2>3
    <3>2. CASE Find(y)
      BY <1>14, <1>15, <1>16, <1>18, <2>1, <2>3, <3>1, <3>2
    <3>3. CASE ~Find(y)
      BY <1>14, <1>16, <2>1, <2>3, <3>1, <3>3
    <3>4. QED
      BY <3>2, <3>3
  <2>4. QED
    BY <2>2, <2>3
<1>20. NoOrphan'
  <2> SUFFICES ASSUME NEW y \in Live', y \notin lost', slot'[y % c].ref = 0
               PROVE  \E v \in Thread : deleting[v] = y
    BY <1>4, <1>6 DEF NoOrphan, Index
  <2>1. PICK i \in 0..c - 1 : slot'[i].id = y /\ y # 0
    BY <1>6 DEF Live, LiveIn
  <2>2. y \in Id /\ i = y % c
    BY <1>6, <1>13, <2>1 DEF SlotRight, Index, Tables, Record
  <2>3. y # id
    BY <1>5, <1>6, <1>8
  <2>4. y % c \in Used(sl) /\ sl[y % c].id = y /\ slot'[y % c] = sl[y % c]
    BY <1>14, <2>1, <2>2, <2>3
  <2>5. Find(y) /\ slot[Index(y)].ref = 0
    BY <1>16, <2>2, <2>4
  <2>6. y \in Live \ lost
    BY <1>18, <2>2, <2>5, LiveIsFound DEF IInv
  <2>7. QED
    BY <2>5, <2>6 DEF IInv, NoOrphan
<1>21. lost' = {} => id \notin Live /\ Live' = Live \cup {id}
  <2>1. LiveIn(sl) \subseteq Live
    BY <1>9 DEF LiveIn, Live, Used
  <2>2. lost' = {} => LiveIn(sl) = Live
    BY <1>4, <2>1
  <2>3. Live' = LiveIn(sl) \cup {id}
    <3>1. \A y : y \in Live' <=> y # 0 /\ \E i \in 0..c - 1 : slot'[i].id = y
      BY <1>6 DEF Live, LiveIn
    <3>2. \A y : y \in LiveIn(sl) <=> y # 0 /\ \E i \in 0..c - 1 : sl[i].id = y
      BY <1>1 DEF LiveIn
    <3>3. slot'[x].id = id /\ id # 0 /\ sl[x].id = 0 /\ x \in 0..c - 1
      BY <1>3, <1>5, <1>6, <1>8
    <3>4. ASSUME NEW y PROVE y \in Live' <=> y \in LiveIn(sl) \/ y = id
      <4>1. CASE y = id
        BY <3>1, <3>3, <4>1
      <4>2. CASE y # id
        <5>1. ASSUME NEW i \in 0..c - 1, y # 0
              PROVE  slot'[i].id = y <=> sl[i].id = y
          BY <1>6, <3>3, <4>2, <5>1
        <5>2. QED
          BY <3>1, <3>2, <4>2, <5>1
      <4>3. QED
        BY <4>1, <4>2
    <3>5. QED
      BY <3>4
  <2>4. QED
    BY <1>17, <2>2, <2>3
<1> QED
  BY <1>11, <1>12, <1>13, <1>19, <1>20, <1>21 DEF IInv

LEMMA NewStep ==
  ASSUME IInv, TableFits, TableFits', NEW t \in Thread, NEW u \in Object, New(t, u)
  PROVE  /\ IInv'
         /\ \E id : lost' = {} => id \notin Live /\ Live' = Live \cup {id}
<1>1. CanHold(t) /\ u \notin mapped /\ Cap \in Nat \ {0} /\ n \in Int /\ n < Cap
  BY DEF New, IInv, MapType, Room
<1>2. CASE n >= (Cap * 3) \div 4
  <2>1. Registered(t, u, Expanded, NextId(Expanded))
    BY <1>2 DEF New, Registered
  <2>2. Copied(Expanded, 2 * Cap)
    BY ExpandedIsCopied DEF IInv
  <2>3. Cap' = 2 * Cap
    <3>1. Expanded \in Tables(2 * Cap) /\ 2 * Cap \in Nat \ {0}
      BY <2>2 DEF Copied
    <3>2. DOMAIN slot' = DOMAIN Expanded
      BY <2>1 DEF Registered
    <3>3. QED
      BY <3>1, <3>2, SizeOf DEF Cap
  <2>4. n + 1 < 2 * Cap /\ 2 * Cap < IdMod
    BY <1>1, <2>3 DEF TableFits
  <2>5. QED
    BY <1>1, <2>1, <2>2, <2>4, RegisteredStep
<1>3. CASE ~(n >= (Cap * 3) \div 4)
  <2>1. Registered(t, u, slot, NextId(slot))
    BY <1>3 DEF New, Registered
  <2>2. Copied(slot, Cap)
    BY SlotIsCopied DEF IInv
  <2>3. n + 1 < Cap /\ Cap < IdMod
    BY <1>1, <1>3 DEF TableFits
  <2>4. QED
    BY <1>1, <2>1, <2>2, <2>3, RegisteredStep
<1> QED
  BY <1>2, <1>3
-----------------------------------------------------------------------------
LEMMA InitIInv ==
  ASSUME Init, TableFits
  PROVE  IInv
<1>1. INIT_SLOTS \in Nat \ {0} /\ slot = [i \in 0..(INIT_SLOTS - 1) |-> Free]
  BY HandleMapAssumption DEF Init
<1>2. Free \in Record /\ Free.id = 0
  BY DEF Free, Record
<1>3. slot \in Tables(INIT_SLOTS) /\ DOMAIN slot = 0..(INIT_SLOTS - 1)
      /\ \A i \in DOMAIN slot : slot[i] = Free
  BY <1>1, <1>2 DEF Tables
<1>4. Cap = INIT_SLOTS
  BY <1>1, <1>3, SizeOf DEF Cap
<1>5. MapType
  BY <1>1, <1>3, <1>4, HandleMapAssumption DEF Init, MapType, TableFits
<1>6. Used(slot) = {} /\ Live = {}
  BY <1>2, <1>3 DEF Used, Live, LiveIn
<1>7. Room
  <2>1. Cardinality(Used(slot)) = 0
    BY <1>6, FS_EmptySet
  <2>2. n = 0
    BY DEF Init
  <2>3. QED
    BY <1>1, <1>4, <1>6, <2>1, <2>2 DEF Room
<1>8. SlotRight /\ NoOrphan
  BY <1>2, <1>3, <1>6 DEF SlotRight, NoOrphan
<1>9. RefExact
  <2> SUFFICES ASSUME NEW id \in Id PROVE ~Find(id) /\ Holders(id) = 0
    BY DEF RefExact
  <2>1. ~Find(id)
    BY <1>5, <1>6, FoundIsUsed
  <2>2. HeldPairs(id) = {}
    BY DEF Init, HeldPairs
  <2>3. Holders(id) = 0
    BY <1>5, <2>2, HoldersFinite, FS_EmptySet
  <2>4. QED
    BY <2>1, <2>3
<1> QED
  BY <1>5, <1>7, <1>8, <1>9 DEF IInv

LEMMA NextIInv == IInv /\ TableFits /\ TableFits' /\ [Next]_vars => IInv'
<1> SUFFICES ASSUME IInv, TableFits, TableFits', [Next]_vars PROVE IInv'
  OBVIOUS
<1>1. ASSUME NEW t \in Thread, NEW u \in Object, New(t, u) PROVE IInv'
  BY <1>1, NewStep
<1>2. ASSUME NEW t \in Thread, NEW id \in Id, Grab(t, id) \/ ReleaseRef(t, id)
      PROVE  IInv'
  BY <1>2, GrabStep, ReleaseStep
<1>3. ASSUME NEW t \in Thread, TryDelete(t) PROVE IInv'
  BY <1>3, DeleteStep, KeepStep
<1>4. CASE UNCHANGED vars
  BY <1>4 DEF vars, IInv, MapType, Room, SlotRight, RefExact, NoOrphan, Cap, Used,
              Index, Find, Holders, Live, LiveIn
<1> QED
  BY <1>1, <1>2, <1>3, <1>4 DEF Next

LEMMA Invariant == Spec /\ []TableFits => []IInv
<1>1. Init /\ TableFits => IInv
  BY InitIInv
<1> QED
  BY <1>1, NextIInv, PTL DEF Spec

LEMMA LiveFinite == IInv => IsFiniteSet(Live)
<1> SUFFICES ASSUME IInv PROVE IsFiniteSet(Live)
  OBVIOUS
<1> DEFINE f == [i \in Used(slot) |-> slot[i].id]
<1>1. IsFiniteSet(Used(slot))
  BY SlotIsCopied, CopiedSize DEF IInv
<1>2. f \in Surjection(Used(slot), Live)
  BY DEF Surjection, Used, Live, LiveIn
<1> QED
  BY <1>1, <1>2, FS_Surjection

LEMMA LiveFiniteNext == IInv' => IsFiniteSet(Live')
<1> DEFINE P == IsFiniteSet(Live)
<1>1. IInv => P
  BY LiveFinite
<1> HIDE DEF P
<1>2. IInv' => P'
  BY <1>1, PTL
<1> QED
  BY <1>2 DEF P

\* The numbers of objects and of handles, which no step needs.
Numbers ==
  /\ IsFiniteSet(mapped) /\ n = Cardinality(mapped)
  /\ IsFiniteSet(Live) /\ (lost = {} => n = Cardinality(Live))

LEMMA NumbersStep ==
  IInv /\ Numbers /\ TableFits /\ TableFits' /\ [Next]_vars => Numbers'
<1> SUFFICES ASSUME IInv, Numbers, TableFits, TableFits', [Next]_vars PROVE Numbers'
  OBVIOUS
<1>0. IsFiniteSet(mapped) /\ n = Cardinality(mapped) /\ n \in Int
      /\ IsFiniteSet(Live) /\ (lost = {} => n = Cardinality(Live))
  BY DEF Numbers, IInv, MapType
<1>1. ASSUME NEW t \in Thread, NEW u \in Object, New(t, u) PROVE Numbers'
  <2>1. PICK id : lost' = {} => id \notin Live /\ Live' = Live \cup {id}
    BY <1>1, NewStep
  <2>2. u \notin mapped /\ mapped' = mapped \cup {u} /\ n' = n + 1 /\ lost \subseteq lost'
    BY <1>1 DEF New
  <2>3. IsFiniteSet(mapped') /\ n' = Cardinality(mapped')
    BY <1>0, <2>2, FS_AddElement
  <2>4. lost' = {} => n' = Cardinality(Live')
    BY <1>0, <2>1, <2>2, FS_AddElement
  <2>5. IInv'
    BY <1>1, NewStep
  <2>6. IsFiniteSet(Live')
    BY <2>5, LiveFiniteNext
  <2>7. QED
    BY <2>3, <2>4, <2>6 DEF Numbers
<1>2. ASSUME NEW t \in Thread, TryDelete(t), Deletable(deleting[t]) PROVE Numbers'
  <2>1. PICK id \in Live : Live' = Live \ {id}
    BY <1>2, DeleteStep
  <2>2. PICK o \in mapped : mapped' = mapped \ {o}
    BY <1>2, DeleteStep
  <2>3. n' = n - 1 /\ lost' = lost
    BY <1>2, DeleteStep
  <2>4. IsFiniteSet(mapped') /\ n' = Cardinality(mapped')
    BY <1>0, <2>2, <2>3, FS_RemoveElement
  <2>5. IsFiniteSet(Live') /\ (lost' = {} => n' = Cardinality(Live'))
    BY <1>0, <2>1, <2>3, FS_RemoveElement
  <2>6. QED
    BY <2>4, <2>5 DEF Numbers
<1>3. ASSUME Live' = Live, n' = n, mapped' = mapped, lost' = lost PROVE Numbers'
  BY <1>3 DEF Numbers
<1>4. ASSUME NEW t \in Thread, NEW id \in Id, Grab(t, id) \/ ReleaseRef(t, id)
      PROVE  Numbers'
  BY <1>3, <1>4, GrabStep, ReleaseStep
<1>5. ASSUME NEW t \in Thread, TryDelete(t), ~Deletable(deleting[t]) PROVE Numbers'
  BY <1>3, <1>5, KeepStep
<1>6. CASE UNCHANGED vars
  BY <1>3, <1>6 DEF vars, Live
<1> QED
  BY <1>1, <1>2, <1>4, <1>5, <1>6 DEF Next

LEMMA NumbersInit ==
  ASSUME Init
  PROVE  Numbers
<1>1. mapped = {} /\ n = 0 /\ slot = [i \in 0..(INIT_SLOTS - 1) |-> Free]
  BY DEF Init
<1>2. Live = {}
  BY <1>1 DEF Live, LiveIn, Free
<1> QED
  BY <1>1, <1>2, FS_EmptySet DEF Numbers

\* The lookup finds every handle where it is, and no two handles share an
\* object, through expansions and ids that wrap.
THEOREM SlotsAreRight == Spec /\ []TableFits => []SlotRight
<1>1. IInv => SlotRight
  BY DEF IInv
<1> QED
  BY <1>1, Invariant, PTL

\* The count of a handle is the number of references that threads have still to
\* give back, with late deletions and ids that are used again; handles that
\* expand_map has dropped are left out.
THEOREM ReferencesCounted == Spec /\ []TableFits => []RefExact
<1>1. IInv => RefExact
  BY DEF IInv
<1> QED
  BY <1>1, Invariant, PTL

\* A handle that nobody refers to any more is about to be deleted by a thread.
THEOREM NoneForgotten == Spec /\ []TableFits => []NoOrphan
<1>1. IInv => NoOrphan
  BY DEF IInv
<1> QED
  BY <1>1, Invariant, PTL

\* n is the number of registered objects and, as long as expand_map has dropped
\* none, of the handles in the table; so a slot is free whenever handlemap_new
\* looks for one, and its loop ends.
THEOREM HandlesCounted == Spec /\ []TableFits => []Counted
<1>1. Init => Numbers
  BY NumbersInit
<1>2. IInv /\ Numbers => Counted
  BY DEF IInv, Numbers, Room, Counted
<1> QED
  BY <1>1, <1>2, NumbersStep, Invariant, PTL DEF Spec

\* Nothing but objects is registered.
LEMMA MappedObjects == Spec => [](mapped \subseteq Object)
<1>1. Init => mapped \subseteq Object
  BY DEF Init
<1>2. mapped \subseteq Object /\ [Next]_vars => (mapped \subseteq Object)'
  BY DEF Next, New, Grab, ReleaseRef, TryDelete, vars
<1> QED
  BY <1>1, <1>2, PTL DEF Spec

\* The slots, the counts and the histories keep their types; n never exceeds the
\* number of objects, and lastid wraps below IdMod.
THEOREM MapTypes == Spec /\ []TableFits => []TypeOK
<1>1. Init => Numbers
  BY NumbersInit
<1>2. IInv /\ Numbers /\ mapped \subseteq Object => TypeOK
  <2> SUFFICES ASSUME IInv, Numbers, mapped \subseteq Object PROVE TypeOK
    OBVIOUS
  <2>1. n \in 0..Cardinality(Object)
    <3>1. IsFiniteSet(Object)
      BY HandleMapAssumption
    <3>2. Cardinality(mapped) <= Cardinality(Object) /\ Cardinality(Object) \in Nat
          /\ Cardinality(mapped) \in Nat
      BY <3>1, FS_Subset, FS_CardinalityType
    <3> QED
      BY <3>2 DEF Numbers
  <2>2. \A i \in DOMAIN slot :
          slot[i] \in [id : Id \cup {0}, ref : Int, ud : Object \cup {None}]
    BY DEF IInv, MapType, Tables, Record
  <2> QED
    BY <2>1, <2>2 DEF IInv, MapType, TypeOK
<1> QED
  BY <1>1, <1>2, NumbersStep, Invariant, MappedObjects, PTL DEF Spec
=============================================================================
