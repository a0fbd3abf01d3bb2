------------------------------ MODULE MqRelease ------------------------------
(***************************************************************************)
(* Taking message queues down: test_skynet_mq (example_test.h) over the    *)
(* release protocol of skynet_mq.c.  One thread creates the queues, puts   *)
(* some messages into each and links them; then it takes a queue out of Q, *)
(* pops one message and releases the queue, until Q is empty.  A queue     *)
(* found empty has lost its in_global flag to the pop, so it may not be    *)
(* released at once: it is given a message first, which links it again.    *)
(***************************************************************************)
EXTENDS GlobalMq

CONSTANTS
  CreationOrder,  \* the queues in the order the test creates them
  MaxMail         \* bound: messages put into a queue at its creation

ASSUME ReleaseAssumption ==
  /\ IsFiniteSet(Queue) /\ Queue # {} /\ None \notin Queue
  /\ CreationOrder \in [1..Cardinality(Queue) -> Queue]
  /\ \A x \in Queue : \E i \in DOMAIN CreationOrder : CreationOrder[i] = x
  /\ MaxMail \in Nat

VARIABLES
  mail,      \* mail[x]: number of messages stored in x
  inGlobal,  \* inGlobal[x]: its flag in_global
  release,   \* release[x]: its flag release
  freed,     \* the queues whose memory has been freed
  created,   \* number of queues created so far
  pc,        \* where the loop is
  cur        \* its local variable q

vars == <<list, mail, inGlobal, release, freed, created, pc, cur>>

TypeOK ==
  /\ ListType /\ ListOK
  /\ mail \in [Queue -> Nat]
  /\ inGlobal \in [Queue -> BOOLEAN]
  /\ release \in [Queue -> BOOLEAN]
  /\ freed \subseteq Queue
  /\ created \in 0..Cardinality(Queue)
  /\ pc \in {"create", "take", "pop", "refill", "mark", "release", "done"}
  /\ cur \in Queue \cup {None}

\* The fields are those that skynet_mq_create sets.
Init ==
  /\ ListInit
  /\ mail = [x \in Queue |-> 0]
  /\ inGlobal = [x \in Queue |-> TRUE]
  /\ release = [x \in Queue |-> FALSE]
  /\ freed = {}
  /\ created = 0
  /\ pc = "create"
  /\ cur = None

\* skynet_mq_create, n times skynet_mq_push (in_global is set, so none of them
\* links the queue), skynet_globalmq_push.
Create(n) ==
  LET x == CreationOrder[created + 1]
  IN  /\ pc = "create"
      /\ mail' = [mail EXCEPT ![x] = n]
      /\ Link(x)
      /\ created' = created + 1
      /\ pc' = IF created + 1 = Cardinality(Queue) THEN "take" ELSE "create"
      /\ UNCHANGED <<inGlobal, release, freed, cur>>

\* q = skynet_globalmq_pop()
Take ==
  /\ pc = "take"
  /\ Unlink
  /\ cur' = qhead
  /\ pc' = "pop"
  /\ UNCHANGED <<mail, inGlobal, release, freed, created>>

Break ==
  /\ pc = "take"
  /\ qhead = None
  /\ cur' = None
  /\ pc' = "done"
  /\ UNCHANGED <<list, mail, inGlobal, release, freed, created>>

\* skynet_mq_pop
Pop ==
  /\ pc = "pop"
  /\ mail[cur] > 0
  /\ mail' = [mail EXCEPT ![cur] = @ - 1]
  /\ pc' = "mark"
  /\ UNCHANGED <<list, inGlobal, release, freed, created, cur>>

\* Mutant: an empty queue is released at once, without the refill.
BugPopFails ==
  /\ pc = "pop"
  /\ mail[cur] = 0
  /\ inGlobal' = [inGlobal EXCEPT ![cur] = FALSE]
  /\ pc' = "mark"
  /\ UNCHANGED <<list, mail, release, freed, created, cur>>

PopFails ==
  /\ pc = "pop"
  /\ mail[cur] = 0
  /\ inGlobal' = [inGlobal EXCEPT ![cur] = FALSE]
  /\ pc' = "refill"
  /\ UNCHANGED <<list, mail, release, freed, created, cur>>

\* Mutant: the push links the queue and does not set in_global.
BugRefillLeavesFlag ==
  /\ pc = "refill"
  /\ mail' = [mail EXCEPT ![cur] = @ + 1]
  /\ Link(cur)
  /\ pc' = "take"
  /\ UNCHANGED <<inGlobal, release, freed, created, cur>>

\* Mutant: the push stores the message and does not link the queue.
BugRefillNoLink ==
  /\ pc = "refill"
  /\ mail' = [mail EXCEPT ![cur] = @ + 1]
  /\ inGlobal' = [inGlobal EXCEPT ![cur] = TRUE]
  /\ pc' = "take"
  /\ UNCHANGED <<list, release, freed, created, cur>>

\* skynet_mq_push of a message of the test's own
Refill ==
  /\ pc = "refill"
  /\ mail' = [mail EXCEPT ![cur] = @ + 1]
  /\ inGlobal' = [inGlobal EXCEPT ![cur] = TRUE]
  /\ IF inGlobal[cur] THEN UNCHANGED list ELSE Link(cur)
  /\ pc' = "take"
  /\ UNCHANGED <<release, freed, created, cur>>

\* skynet_mq_mark_release
MarkRelease ==
  /\ pc = "mark"
  /\ release' = [release EXCEPT ![cur] = TRUE]
  /\ IF inGlobal[cur] THEN UNCHANGED list ELSE Link(cur)
  /\ pc' = "release"
  /\ UNCHANGED <<mail, inGlobal, freed, created, cur>>

\* skynet_mq_release: the messages left are dropped, the last pop clears the
\* flag, and the queue is freed.  One not marked would be linked again.
Release ==
  /\ pc = "release"
  /\ IF release[cur]
     THEN /\ mail' = [mail EXCEPT ![cur] = 0]
          /\ inGlobal' = [inGlobal EXCEPT ![cur] = FALSE]
          /\ freed' = freed \cup {cur}
          /\ UNCHANGED list
     ELSE /\ Link(cur)
          /\ UNCHANGED <<mail, inGlobal, freed>>
  /\ pc' = "take"
  /\ UNCHANGED <<release, created, cur>>

Next ==
  \/ \E n \in 0..MaxMail : Create(n)
  \/ Take
  \/ Break
  \/ Pop
  \/ PopFails
  \/ Refill
  \/ MarkRelease
  \/ Release

\* The thread runs until it leaves the loop.
Spec == Init /\ [][Next]_vars /\ WF_vars(Next)
-----------------------------------------------------------------------------
(* Properties.                                                             *)

\* No freed queue is in the list or in the hands of the loop, so the next
\* skynet_globalmq_pop never returns freed memory.  This is the failure that
\* the comment above the loop of test_skynet_mq describes.
NoUseAfterFree ==
  /\ \A x \in freed : ~InList(x)
  /\ pc \in {"pop", "refill", "mark", "release"} => cur \notin freed

\* in_global says the truth about every queue that the loop does not hold.
FlagTruth ==
  \A x \in Queue :
    pc # "create" /\ (x # cur \/ pc = "take") => (inGlobal[x] <=> InList(x))

\* The list is a queue of queues.
Fifo == INSTANCE FifoQueue WITH items <- Chain, Message <- Queue

GlobalIsFifo == Fifo!Init /\ [][Fifo!Next]_Chain

\* The loop ends, and every queue was freed when it does.
AllReleased == <>[](pc = "done" /\ freed = Queue)
=============================================================================
