------------------------------- MODULE RwLock -------------------------------
(***************************************************************************)
(* The readers-writer spinlock of rwlock.h (test_skynet/skynet_handle) and *)
(* simplelock.h (test_skynet/handlemap): two integers and four functions.  *)
(* A reader waits until the write flag is clear, counts itself and looks   *)
(* at the flag once more; a writer sets the flag and waits until the count *)
(* is zero.  Every access to one of the integers is a step, in the order   *)
(* of the program: the accesses are atomic operations or are separated by  *)
(* full barriers.                                                          *)
(***************************************************************************)
EXTENDS Naturals, FiniteSets

CONSTANT Thread   \* the threads that share the lock

ASSUME ThreadAssumption == IsFiniteSet(Thread)

VARIABLES
  write,   \* lock->write
  read,    \* lock->read
  at       \* at[t]: where thread t is in the four functions

vars == <<write, read, at>>

\* rwait .. rback are the places in rwlock_rlock, wwait and wdrain those in
\* rwlock_wlock.
Places == {"out", "rwait", "rcount", "rcheck", "rback", "reading",
           "wwait", "wdrain", "writing"}

TypeOK ==
  /\ write \in {0, 1}
  /\ read \in Nat
  /\ at \in [Thread -> Places]

Init ==
  /\ write = 0
  /\ read = 0
  /\ at = [t \in Thread |-> "out"]

Go(t, from, to) == at[t] = from /\ at' = [at EXCEPT ![t] = to]
-----------------------------------------------------------------------------
(* rwlock_rlock and rwlock_runlock.                                        *)

CallRead(t) == Go(t, "out", "rwait") /\ UNCHANGED <<write, read>>

\* while (lock->write)
SeeNoWriter(t) ==
  /\ write = 0
  /\ Go(t, "rwait", "rcount")
  /\ UNCHANGED <<write, read>>

CountIn(t) ==
  /\ Go(t, "rcount", "rcheck")
  /\ read' = read + 1
  /\ UNCHANGED write

\* Mutant: the flag is not looked at again.
BugCheck(t) ==
  /\ Go(t, "rcheck", "reading")
  /\ UNCHANGED <<write, read>>

\* Mutant: a reader that steps back stays in the count.
BugCountStays(t) ==
  /\ Go(t, "rback", "rwait")
  /\ UNCHANGED <<write, read>>

\* Mutant: a reader that finds a writer keeps its count and only waits.
BugCountOut(t) ==
  /\ Go(t, "rback", "rcheck")
  /\ UNCHANGED <<write, read>>

\* if (lock->write): a reader that met a writer has to step back.
Check(t) ==
  /\ Go(t, "rcheck", IF write = 0 THEN "reading" ELSE "rback")
  /\ UNCHANGED <<write, read>>

CountOut(t) ==
  /\ Go(t, "rback", "rwait")
  /\ read' = read - 1
  /\ UNCHANGED write

RUnlock(t) ==
  /\ Go(t, "reading", "out")
  /\ read' = read - 1
  /\ UNCHANGED write

Reader(t) ==
  \/ SeeNoWriter(t)
  \/ CountIn(t)
  \/ Check(t)
  \/ CountOut(t)
  \/ RUnlock(t)
-----------------------------------------------------------------------------
(* rwlock_wlock and rwlock_wunlock.                                        *)

CallWrite(t) == Go(t, "out", "wwait") /\ UNCHANGED <<write, read>>

\* while (__sync_lock_test_and_set(&lock->write, 1))
SetFlag(t) ==
  /\ write = 0
  /\ Go(t, "wwait", "wdrain")
  /\ write' = 1
  /\ UNCHANGED read

\* while (lock->read)
Drain(t) ==
  /\ read = 0
  /\ Go(t, "wdrain", "writing")
  /\ UNCHANGED <<write, read>>

WUnlock(t) ==
  /\ Go(t, "writing", "out")
  /\ write' = 0
  /\ UNCHANGED read

Writer(t) ==
  \/ SetFlag(t)
  \/ Drain(t)
  \/ WUnlock(t)
-----------------------------------------------------------------------------
Next ==
  \E t \in Thread : CallRead(t) \/ CallWrite(t) \/ Reader(t) \/ Writer(t)

Safety == Init /\ [][Next]_vars

\* A thread that has called goes on, and leaves its critical section.  Nothing
\* makes a thread call, and nothing favours it in the race for the flag.
Spec == Safety /\ \A t \in Thread : WF_vars(Reader(t)) /\ WF_vars(Writer(t))
-----------------------------------------------------------------------------
(* Properties.                                                             *)

\* While a thread is between rwlock_wlock and rwlock_wunlock no other holds the
\* lock: what the two handle tables rely on when they move their slots.
Exclusive ==
  \A t, u \in Thread :
    at[t] = "writing" /\ t # u => at[u] \notin {"reading", "writing"}

\* The count and the flag say who is inside: the count drops to zero when the
\* readers have left, so neither integer keeps the next thread out for ever.
Counted(t) == at[t] \in {"rcheck", "rback", "reading"}

Flagged(t) == at[t] \in {"wdrain", "writing"}

Balanced ==
  /\ read = Cardinality({t \in Thread : Counted(t)})
  /\ write = Cardinality({t \in Thread : Flagged(t)})

\* A writer that holds the flag gets in, however many readers keep coming.
WriterGetsIn ==
  \A t \in Thread : at[t] = "wdrain" ~> at[t] = "writing"
=============================================================================
