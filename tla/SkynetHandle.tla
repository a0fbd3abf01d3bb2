---------------------------- MODULE SkynetHandle ----------------------------
(***************************************************************************)
(* The registry of services of test_skynet/skynet_handle: a table of       *)
(* contexts found by handle & (slot_size - 1), a sorted array of names,    *)
(* and the references that keep a context alive.  What a function does     *)
(* under the readers-writer lock is one step: the module RwLock shows that *)
(* a writer is alone.  Outside the lock are the store of a new handle into *)
(* its context, the release of the table's reference by a retirement, and  *)
(* the loop of skynet_handle_retireall.                                    *)
(***************************************************************************)
EXTENDS Naturals, Sequences, FiniteSets

CONSTANTS
  Thread,    \* the threads of the program
  Creator,   \* the threads that create contexts
  Closer,    \* the threads that call skynet_handle_retireall
  Ctx,       \* the contexts; one whose count is zero stands for a new one
  None,      \* NULL
  Mask,      \* HANDLE_MASK, one less than a power of two
  Harbor,    \* s->harbor: the bits of a handle above the mask
  FirstSize, \* DEFAULT_SLOT_SIZE, a power of two
  Name       \* the names, numbers in the order of strcmp

ASSUME HandleAssumption ==
  /\ IsFiniteSet(Thread) /\ Creator \subseteq Thread /\ Closer \subseteq Thread
  /\ None \notin Ctx
  /\ Mask \in Nat /\ FirstSize \in Nat \ {0} /\ (Mask + 1) % FirstSize = 0
  \* Mask + 1 is a power of two: a divisor can be doubled until it is all of it.
  /\ \A k \in 1..Mask :
       (Mask + 1) % k = 0 /\ 2 * k <= Mask + 1 => (Mask + 1) % (2 * k) = 0
  /\ Harbor \in Nat /\ Harbor % (Mask + 1) = 0
  /\ Name \subseteq Nat

VARIABLES
  slot,              \* s->slot, from index 0
  handle_index,      \* s->handle_index
  name,              \* s->name up to name_count
  named,             \* history: what namehandle was given and is not retired
  handle,            \* handle[c]: c->handle
  ref,               \* ref[c]: c->ref
  held,              \* held[t]: the contexts thread t has a reference to
  job,               \* job[t]: the function thread t is in, with its locals
  all,               \* all[t]: the loop of skynet_handle_retireall
  stop               \* "run", or what ended the program

tableVars == <<slot, handle_index, name, named>>
ctxVars == <<handle, ref, held>>
vars == <<tableVars, ctxVars, job, all, stop>>

Handles == {Harbor + i : i \in 0..Mask}

Job(op, c, h) == [op |-> op, ctx |-> c, handle |-> h]
Idle == Job("idle", None, 0)
NoScan == [on |-> FALSE, i |-> 0, found |-> FALSE]

Size == Cardinality(DOMAIN slot)
Hash(h) == h % Size

Init ==
  /\ slot = [i \in 0..FirstSize - 1 |-> None]
  /\ handle_index = 1
  /\ name = <<>>
  /\ named = {}
  /\ handle = [c \in Ctx |-> 0]
  /\ ref = [c \in Ctx |-> 0]
  /\ held = [t \in Thread |-> {}]
  /\ job = [t \in Thread |-> Idle]
  /\ all = [t \in Thread |-> NoScan]
  /\ stop = "run"

\* A failure ends the program, and its memory is gone.
Fail(why) ==
  /\ stop' = why
  /\ slot' = [i \in 0..FirstSize - 1 |-> None]
  /\ handle_index' = 1 /\ name' = <<>> /\ named' = {}
  /\ handle' = [c \in Ctx |-> 0] /\ ref' = [c \in Ctx |-> 0]
  /\ held' = [t \in Thread |-> {}] /\ job' = [t \in Thread |-> Idle]
  /\ all' = [t \in Thread |-> NoScan]

Free(t) == stop = "run" /\ job[t] = Idle /\ ~all[t].on
Doing(t, op) == stop = "run" /\ job[t].op = op

Become(t, j) == job' = [job EXCEPT ![t] = j]

Keep == UNCHANGED <<tableVars, all, stop>>
-----------------------------------------------------------------------------
(* Creation: the caller's malloc and its two references, then              *)
(* skynet_handle_register, then the store of what it returned.             *)

\* Bound: a thread takes a reference when it has none.
Create(t, c) ==
  /\ t \in Creator /\ Free(t) /\ held[t] = {} /\ ref[c] = 0
  /\ ref' = [ref EXCEPT ![c] = 2]
  /\ held' = [held EXCEPT ![t] = @ \cup {c}]
  /\ Become(t, Job("register", c, 0))
  /\ Keep /\ UNCHANGED handle

\* Mutant: the handle is not masked, as if it could not wrap.
BugProbe(i) == i + handle_index

\* The handles in the order the loop tries them on a table, and the turns that
\* find a free slot.
Probe(i) == (i + handle_index) % (Mask + 1)

FreeTurns(table) ==
  LET n == Cardinality(DOMAIN table)
  IN  {i \in 0..n - 1 : table[Probe(i) % n] = None}

Place(t, table) ==
  \E i \in FreeTurns(table) :
    /\ \A j \in FreeTurns(table) : i <= j
    /\ slot' = [table EXCEPT ![Probe(i) % Cardinality(DOMAIN table)] = job[t].ctx]
    /\ handle_index' = Probe(i) + 1
    /\ Become(t, Job("store", job[t].ctx, Harbor + Probe(i)))
    /\ UNCHANGED <<name, named, ctxVars, all, stop>>

\* Mutant: the slots are hashed with the size of the old table.
BugTarget(i) == handle[slot[i]] % Size

\* Where the table of twice the size has the context of slot i.
Target(i) == handle[slot[i]] % (2 * Size)

CanGrow ==
  /\ 2 * Size - 1 <= Mask
  /\ \A i, j \in DOMAIN slot : Target(i) = Target(j) => i = j

Doubled ==
  [k \in 0..2 * Size - 1 |->
     IF \E i \in DOMAIN slot : Target(i) = k
     THEN slot[CHOOSE i \in DOMAIN slot : Target(i) = k]
     ELSE None]

\* When no slot is free the table is doubled and searched again; one of the two
\* assertions there may stop the program.
Register(t) ==
  /\ Doing(t, "register")
  /\ \/ FreeTurns(slot) # {} /\ Place(t, slot)
     \/ FreeTurns(slot) = {} /\ CanGrow /\ Place(t, Doubled)
     \/ FreeTurns(slot) = {} /\ ~CanGrow /\ Fail("assert")

StoreHandle(t) ==
  /\ Doing(t, "store")
  /\ handle' = [handle EXCEPT ![job[t].ctx] = job[t].handle]
  /\ Become(t, Idle)
  /\ Keep /\ UNCHANGED <<ref, held>>
-----------------------------------------------------------------------------
(* References: skynet_handle_grab and skynet_context_release.              *)

Knows(c, h) == c # None /\ handle[c] = h

\* Bound: as above.
Grab(t, h) ==
  LET c == slot[Hash(h)]
  IN  /\ Free(t) /\ held[t] = {} /\ Knows(c, h)
      /\ ref' = [ref EXCEPT ![c] = @ + 1]
      /\ held' = [held EXCEPT ![t] = @ \cup {c}]
      /\ Keep /\ UNCHANGED <<handle, job>>

\* A deleted context is used again for a new one, without its handle.  (The code
\* closes its log file and does not free it.)
GiveBack(c) ==
  /\ ref' = [ref EXCEPT ![c] = @ - 1]
  /\ handle' = IF ref[c] = 1 THEN [handle EXCEPT ![c] = 0] ELSE handle

Release(t, c) ==
  /\ Free(t) /\ c \in held[t]
  /\ GiveBack(c)
  /\ held' = [held EXCEPT ![t] = @ \ {c}]
  /\ Keep /\ UNCHANGED job
-----------------------------------------------------------------------------
(* skynet_handle_retire, called with any handle or by the loop below.      *)

Asked(t, h) ==
  \/ Free(t)
  \/ Doing(t, "retire") /\ job[t].handle = h

\* In skynet_handle_retireall the loop goes on with the next slot.
Advance(t, retired) ==
  all' = IF all[t].on
         THEN [all EXCEPT ![t].i = @ + 1, ![t].found = @ \/ retired]
         ELSE all

\* A field of the context is read for a message before the code asks whether
\* the slot holds one.
RetireNull(t, h) ==
  /\ Asked(t, h) /\ slot[Hash(h)] = None
  /\ Fail("null")

RetireMiss(t, h) ==
  LET c == slot[Hash(h)]
  IN  /\ Asked(t, h) /\ c # None /\ ~Knows(c, h)
      /\ Become(t, Idle) /\ Advance(t, FALSE)
      /\ UNCHANGED <<tableVars, ctxVars, stop>>

\* The loop that closes up the array: the names of other handles, in their order.
Kept(h) ==
  LET Upto[i \in 0..Len(name)] ==
        IF i = 0 THEN <<>>
        ELSE IF name[i].handle = h THEN Upto[i - 1]
        ELSE Append(Upto[i - 1], name[i])
  IN  Upto[Len(name)]

RetireHit(t, h) ==
  LET c == slot[Hash(h)]
  IN  /\ Asked(t, h) /\ Knows(c, h)
      /\ slot' = [slot EXCEPT ![Hash(h)] = None]
      /\ name' = Kept(h)
      /\ named' = {e \in named : e.handle # h}
      /\ Become(t, Job("drop", c, 0))
      /\ UNCHANGED <<handle_index, ctxVars, all, stop>>

\* Mutant: the reference of the table is kept.
BugDrop(t) ==
  /\ Doing(t, "drop")
  /\ Become(t, Idle) /\ Advance(t, TRUE)
  /\ UNCHANGED <<tableVars, ctxVars, stop>>

\* The reference of the table is given back after the unlock.
Drop(t) ==
  /\ Doing(t, "drop")
  /\ GiveBack(job[t].ctx)
  /\ Become(t, Idle) /\ Advance(t, TRUE)
  /\ UNCHANGED <<tableVars, held, stop>>
-----------------------------------------------------------------------------
(* skynet_handle_retireall: slot_size is read without the lock, each slot  *)
(* under the read lock, and the handle found is retired in a call of its   *)
(* own.                                                                    *)

\* Mutant: the loop starts at the handle that is given out first.
BugCallRetireAll(t) ==
  /\ t \in Closer /\ Free(t)
  /\ all' = [all EXCEPT ![t] = [NoScan EXCEPT !.on = TRUE, !.i = 1]]
  /\ UNCHANGED <<tableVars, ctxVars, job, stop>>

CallRetireAll(t) ==
  /\ t \in Closer /\ Free(t)
  /\ all' = [all EXCEPT ![t] = [NoScan EXCEPT !.on = TRUE]]
  /\ UNCHANGED <<tableVars, ctxVars, job, stop>>

Scanning(t) == stop = "run" /\ job[t] = Idle /\ all[t].on

\* A context that has no handle yet reads as a free slot.
Peek(t) ==
  /\ Scanning(t) /\ all[t].i < Size
  /\ LET c == slot[all[t].i]
         h == IF c = None THEN 0 ELSE handle[c]
     IN  \/ h = 0 /\ Advance(t, FALSE) /\ UNCHANGED job
         \/ h # 0 /\ Become(t, Job("retire", None, h)) /\ UNCHANGED all
  /\ UNCHANGED <<tableVars, ctxVars, stop>>

EndPass(t) ==
  /\ Scanning(t) /\ all[t].i >= Size
  /\ all' = [all EXCEPT ![t] = [NoScan EXCEPT !.on = all[t].found]]
  /\ UNCHANGED <<tableVars, ctxVars, job, stop>>
-----------------------------------------------------------------------------
(* Names: skynet_handle_findname and skynet_handle_namehandle search the   *)
(* array by halves.  What findname returns is an argument of a later call. *)

\* The places from begin up to, and without, end are where n can still be.  A
\* turn looks in the middle of them; found, n is at begin.
Narrowed(n, r) ==
  LET mid == (r.begin + r.end - 1) \div 2
      m == name[mid + 1].name
      over == r.found \/ r.begin >= r.end
  IN  CASE over -> r
        [] ~over /\ m = n -> [r EXCEPT !.found = TRUE, !.begin = mid]
        [] ~over /\ m < n -> [r EXCEPT !.begin = mid + 1]
        [] ~over /\ m > n -> [r EXCEPT !.end = mid]

\* The loop: every turn rules out a place, so it is over after Len(name) turns.
Search(n) ==
  LET After[k \in 0..Len(name)] ==
        IF k = 0 THEN [found |-> FALSE, begin |-> 0, end |-> Len(name)]
        ELSE Narrowed(n, After[k - 1])
  IN  After[Len(name)]

\* Mutant: the entry is stored before the names behind it are shifted.
BugInsertedBefore(before, entry) ==
  [i \in 1..Len(name) + 1 |->
     IF i <= before THEN name[i]
     ELSE IF i <= before + 2 THEN entry
     ELSE name[i - 1]]

\* _insert_name_before: the names behind the place are shifted by one, also when
\* the array is copied to a larger one.
InsertedBefore(before, entry) ==
  [i \in 1..Len(name) + 1 |->
     IF i <= before THEN name[i]
     ELSE IF i = before + 1 THEN entry
     ELSE name[i - 1]]

\* The creator names its service, retired by now or not.  Nothing names a handle
\* that it holds no reference to: main names what it has created.
NameHandle(t, c, n) ==
  LET entry == [name |-> n, handle |-> handle[c]]
      s == Search(n)
  IN  /\ t \in Creator /\ Free(t) /\ c \in held[t] /\ ~s.found
      /\ name' = InsertedBefore(s.begin, entry)
      /\ named' = named \cup {entry}
      /\ UNCHANGED <<slot, handle_index, ctxVars, job, all, stop>>
-----------------------------------------------------------------------------
Next ==
  \E t \in Thread :
    \/ \E c \in Ctx : Create(t, c) \/ Release(t, c)
    \/ Register(t)
    \/ StoreHandle(t)
    \/ \E h \in Handles : Grab(t, h)
    \/ \E h \in Handles : RetireNull(t, h) \/ RetireMiss(t, h) \/ RetireHit(t, h)
    \/ Drop(t)
    \/ CallRetireAll(t)
    \/ Peek(t)
    \/ EndPass(t)
    \/ \E c \in Ctx, n \in Name : NameHandle(t, c, n)

Spec == Init /\ [][Next]_vars
-----------------------------------------------------------------------------
(* Properties.                                                             *)

JobOps == {"idle", "register", "store", "retire", "drop"}

TypeOK ==
  /\ slot \in [0..Size - 1 -> Ctx \cup {None}]
  /\ handle_index \in 1..Mask + 1
  /\ name \in Seq([name : Name, handle : {0} \cup Handles])
  /\ handle \in [Ctx -> {0} \cup Handles]
  /\ ref \in [Ctx -> Nat]
  /\ held \in [Thread -> SUBSET Ctx]
  /\ job \in [Thread -> [op : JobOps, ctx : Ctx \cup {None},
                         handle : {0} \cup Handles]]
  /\ all \in [Thread -> [on : BOOLEAN, i : Nat, found : BOOLEAN]]
  /\ stop \in {"run", "assert", "null"}

\* A context is where its handle leads: once the creator has stored the handle,
\* and from the moment register has chosen it.  Slots move when the table
\* doubles and are filled in the order of handles that wrap.
FoundByHandle ==
  \A i \in DOMAIN slot : slot[i] # None =>
    /\ handle[slot[i]] # 0 => Hash(handle[slot[i]]) = i
    /\ \A t \in Thread :
         job[t].op = "store" /\ job[t].ctx = slot[i] => Hash(job[t].handle) = i

\* The count of a context is the number of references to it: the table's, the
\* one on its way into the table or out of it, and those of its holders.  So no
\* context is deleted while somebody has it, and none outlives its last user.
InTable(c) == {i \in DOMAIN slot : slot[i] = c}
Moving(c) == {t \in Thread : job[t].op \in {"register", "drop"} /\ job[t].ctx = c}
Holding(c) == {t \in Thread : c \in held[t]}

RefExact ==
  \A c \in Ctx : ref[c] =
    Cardinality(InTable(c)) + Cardinality(Moving(c)) + Cardinality(Holding(c))

\* The search by halves leads from a name to the handle it was given, until that
\* handle is retired, and to nothing for any other name: insertion at the place
\* where a failed search ends, the shift that makes room, and the compaction of
\* a retirement lose no name, keep none and leave them in order.
NamesFound ==
  \A n \in Name :
    LET s == Search(n)
    IN  IF s.found THEN name[s.begin + 1].name = n /\ name[s.begin + 1] \in named
                   ELSE \A e \in named : e.name # n

\* skynet_handle_retireall, called by the only creator, returns when no context
\* is left, whatever the other threads grab, release and name meanwhile.
AllRetired ==
  [][\A t \in Thread :
       Creator = {t} /\ all[t].on /\ ~all'[t].on /\ stop' = "run" =>
         \A i \in DOMAIN slot : slot[i] = None]_vars
=============================================================================
