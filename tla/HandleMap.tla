------------------------------ MODULE HandleMap ------------------------------
(***************************************************************************)
(* The handle map of test_skynet/handlemap: objects are registered under   *)
(* numeric ids, threads take and give back references by id, and the call  *)
(* that gives back the last one gets the object, to free it.               *)
(*                                                                         *)
(* A section under the write lock is one step.  A section under the read   *)
(* lock is one step too: what it reads changes only under the write lock,  *)
(* except ref, on which it does one atomic operation (RwLock shows that    *)
(* the lock excludes).  handlemap_release is two sections, and any other   *)
(* call may come between them.                                             *)
(*                                                                         *)
(* A thread grabs any id, also a stale one, and releases an id only as     *)
(* often as it has got it from handlemap_new or handlemap_grab.            *)
(***************************************************************************)
EXTENDS Integers, FiniteSetsExt

CONSTANTS
  Thread,       \* the threads that use the map
  Object,       \* the objects that ud points to
  None,         \* NULL
  INIT_SLOTS,   \* slots of a new map, a power of 2
  IdMod,        \* ids are unsigned and wrap at this power of 2
  MaxRefs       \* bound of the model: references a thread holds at once

ASSUME HandleMapAssumption ==
  /\ None \notin Object /\ IsFiniteSet(Object) /\ IsFiniteSet(Thread)
  /\ INIT_SLOTS \in Nat \ {0, 1} /\ IdMod \in Nat /\ MaxRefs \in Nat
  /\ IdMod % INIT_SLOTS = 0

VARIABLES
  lastid,    \* m->lastid
  slot,      \* m->slot, indexed from 0; m->cap is its size
  n,         \* m->n
  mapped,    \* the objects registered and not yet handed back to be freed
  holds,     \* holds[t][id]: references that thread t has to give back
  deleting,  \* deleting[t]: the id of t between release_ref and try_delete, or 0
  lost       \* history: the ids in use that expand_map has dropped

vars == <<lastid, slot, n, mapped, holds, deleting, lost>>

Id == 1..(IdMod - 1)

\* A free slot: its id is 0, and nobody reads the rest of it.
Free == [id |-> 0, ref |-> 0, ud |-> None]

Cap == Cardinality(DOMAIN slot)

LiveIn(sl) == {sl[i].id : i \in DOMAIN sl} \ {0}

Index(id) == id % Cap

Find(id) == slot[Index(id)].id = id

Holders(id) ==
  Cardinality({p \in Thread \X (1..MaxRefs) : p[2] <= holds[p[1]][id]})

TypeOK ==
  /\ lastid \in 0..(IdMod - 1)
  /\ \A i \in DOMAIN slot :
       slot[i] \in [id : Id \cup {0}, ref : Int, ud : Object \cup {None}]
  /\ n \in 0..Cardinality(Object)
  /\ mapped \subseteq Object
  /\ holds \in [Thread -> [Id -> 0..MaxRefs]]
  /\ deleting \in [Thread -> Id \cup {0}]
  /\ lost \subseteq Id

\* handlemap_init.
Init ==
  /\ lastid = 0
  /\ slot = [i \in 0..(INIT_SLOTS - 1) |-> Free]
  /\ n = 0
  /\ mapped = {}
  /\ holds = [t \in Thread |-> [id \in Id |-> 0]]
  /\ deleting = [t \in Thread |-> 0]
  /\ lost = {}
-----------------------------------------------------------------------------
(* handlemap_new.                                                          *)

\* Mutant: the new index is computed with the old mask.
BugExpanded ==
  [j \in 0..(2 * Cap - 1) |->
     LET from == {i \in DOMAIN slot : slot[i].id % Cap = j}
     IN  IF from = {} THEN Free ELSE slot[Max(from)]]

\* expand_map copies every slot, the free ones too, to where its id belongs in
\* the table of twice the size: all the free ones go to index 0.  Of several
\* slots copied to one place the last remains.
Expanded ==
  [j \in 0..(2 * Cap - 1) |->
     LET from == {i \in DOMAIN slot : slot[i].id % (2 * Cap) = j}
     IN  IF from = {} THEN Free ELSE slot[Max(from)]]

\* Mutant: 0 is not skipped.
BugNextId(sl) ==
  LET cap == Cardinality(DOMAIN sl)
      after(k) == (lastid + k) % IdMod
  IN  after(Min({k \in 1..IdMod : sl[after(k) % cap].id = 0}))

\* The next id after lastid, 0 left out, whose slot is free.
NextId(sl) ==
  LET cap == Cardinality(DOMAIN sl)
      after(k) == (lastid + k) % IdMod
  IN  after(Min({k \in 1..IdMod : after(k) # 0 /\ sl[after(k) % cap].id = 0}))

\* Bound: a thread holds at most MaxRefs references.
CanHold(t) ==
  Cardinality({p \in Id \X (1..MaxRefs) : p[2] <= holds[t][p[1]]}) < MaxRefs

New(t, u) ==
  /\ deleting[t] = 0
  /\ CanHold(t)
  /\ u \notin mapped
  /\ LET sl == IF n >= (Cap * 3) \div 4 THEN Expanded ELSE slot
         id == NextId(sl)
     IN  /\ lastid' = id
         /\ slot' = [sl EXCEPT ![id % Cardinality(DOMAIN sl)] =
                       [id |-> id, ref |-> 1, ud |-> u]]
         /\ holds' = [holds EXCEPT ![t][id] = @ + 1]
         /\ lost' = lost \cup (LiveIn(slot) \ LiveIn(sl))
  /\ n' = n + 1
  /\ mapped' = mapped \cup {u}
  /\ UNCHANGED deleting
-----------------------------------------------------------------------------
(* handlemap_grab and handlemap_release.                                   *)

\* An id that is not found returns NULL and changes nothing.
Grab(t, id) ==
  /\ deleting[t] = 0
  /\ CanHold(t)
  /\ Find(id)
  /\ slot' = [slot EXCEPT ![Index(id)].ref = @ + 1]
  /\ holds' = [holds EXCEPT ![t][id] = @ + 1]
  /\ UNCHANGED <<lastid, n, mapped, deleting, lost>>

\* Mutant: the caller does not learn that the count has dropped to zero.
BugReleaseRef(t, id) ==
  /\ deleting[t] = 0
  /\ holds[t][id] > 0
  /\ holds' = [holds EXCEPT ![t][id] = @ - 1]
  /\ slot' = IF Find(id) THEN [slot EXCEPT ![Index(id)].ref = @ - 1] ELSE slot
  /\ deleting' =
       [deleting EXCEPT ![t] =
          IF Find(id) /\ slot[Index(id)].ref < 1 THEN id ELSE 0]
  /\ UNCHANGED <<lastid, n, mapped, lost>>

\* release_ref: whoever takes the count to zero goes on to try_delete.
ReleaseRef(t, id) ==
  /\ deleting[t] = 0
  /\ holds[t][id] > 0
  /\ holds' = [holds EXCEPT ![t][id] = @ - 1]
  /\ slot' = IF Find(id) THEN [slot EXCEPT ![Index(id)].ref = @ - 1] ELSE slot
  /\ deleting' =
       [deleting EXCEPT ![t] =
          IF Find(id) /\ slot[Index(id)].ref <= 1 THEN id ELSE 0]
  /\ UNCHANGED <<lastid, n, mapped, lost>>

\* Mutant: the count is not looked at again.
BugDeletable(id) == Find(id)

\* Found, and nobody has grabbed it since.
Deletable(id) == Find(id) /\ slot[Index(id)].ref <= 0

\* Mutant: n is not decremented.
BugTryDelete(t) ==
  /\ deleting[t] # 0
  /\ deleting' = [deleting EXCEPT ![t] = 0]
  /\ IF Deletable(deleting[t])
     THEN /\ slot' = [slot EXCEPT ![Index(deleting[t])] = Free]
          /\ mapped' = mapped \ {slot[Index(deleting[t])].ud}
     ELSE UNCHANGED <<slot, mapped>>
  /\ UNCHANGED <<lastid, n, holds, lost>>

TryDelete(t) ==
  /\ deleting[t] # 0
  /\ deleting' = [deleting EXCEPT ![t] = 0]
  /\ IF Deletable(deleting[t])
     THEN /\ slot' = [slot EXCEPT ![Index(deleting[t])] = Free]
          /\ n' = n - 1
          /\ mapped' = mapped \ {slot[Index(deleting[t])].ud}
     ELSE UNCHANGED <<slot, n, mapped>>
  /\ UNCHANGED <<lastid, holds, lost>>
-----------------------------------------------------------------------------
Next ==
  \E t \in Thread :
    \/ \E u \in Object : New(t, u)
    \/ \E id \in Id : Grab(t, id) \/ ReleaseRef(t, id)
    \/ TryDelete(t)

Spec == Init /\ [][Next]_vars
-----------------------------------------------------------------------------
(* Properties.  A handle that expand_map has dropped is left out of those  *)
(* about references: HeldIsMapped is the claim without that exception.     *)

Live == LiveIn(slot)

\* ref is the number of references that threads have still to give back, for
\* every handle, through grabs that revive one whose count was zero, deletions
\* that come late, and ids that are used again.  So nothing is freed while a
\* thread holds it, and a reference is never counted for another object.
RefExact ==
  \A id \in Id \ lost :
    Holders(id) = IF Find(id) THEN slot[Index(id)].ref ELSE 0

\* A handle is where the lookup goes, and two handles never share an object.
SlotRight ==
  /\ \A i \in DOMAIN slot : slot[i].id # 0 => i = Index(slot[i].id)
  /\ \A i, j \in DOMAIN slot :
       slot[i].id # 0 /\ slot[j].id # 0 /\ slot[i].ud = slot[j].ud => i = j

\* n counts the handles exactly, so a slot is free whenever handlemap_new looks
\* for one: its loop has no other end.
Counted ==
  /\ n = Cardinality(mapped)
  /\ lost = {} => n = Cardinality(Live)
  /\ n < Cap

\* A handle whose count is zero is not forgotten: the thread that took it to
\* zero, or a later one, is about to delete it.
NoOrphan ==
  \A id \in Live \ lost :
    slot[Index(id)].ref = 0 => \E t \in Thread : deleting[t] = id

\* README.md of the map: it maps object pointers to ids and is safe to read and
\* write.  An id that a thread has got and not released still names its object.
HeldIsMapped == \A t \in Thread, id \in Id : holds[t][id] > 0 => Find(id)
=============================================================================
