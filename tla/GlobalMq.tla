------------------------------- MODULE GlobalMq -------------------------------
(***************************************************************************)
(* The global queue Q of skynet_mq.c as it is built: a singly linked list  *)
(* threaded through the field next of the message queues, with a head and  *)
(* a tail pointer.  SkynetDispatch abstracts it to a sequence; this module *)
(* is the list, for the programs that free the queues it links.            *)
(***************************************************************************)
EXTENDS Naturals, Sequences, FiniteSets

CONSTANTS
  Queue,  \* the message queues
  None    \* NULL

VARIABLES
  qhead,  \* Q->head
  qtail,  \* Q->tail
  next    \* next[x]: the field next of message queue x

list == <<qhead, qtail, next>>

ListType ==
  /\ qhead \in Queue \cup {None}
  /\ qtail \in Queue \cup {None}
  /\ next \in [Queue -> Queue \cup {None}]

\* skynet_mq_init: the memset of the new global queue; a queue is created with
\* next = NULL.
ListInit ==
  /\ qhead = None
  /\ qtail = None
  /\ next = [x \in Queue |-> None]

\* Mutant: the queue is linked at the head.
BugLink(x) ==
  /\ qhead' = x
  /\ qtail' = IF qtail = None THEN x ELSE qtail
  /\ next' = [next EXCEPT ![x] = qhead]

\* skynet_globalmq_push
Link(x) ==
  /\ qtail' = x
  /\ qhead' = IF qtail = None THEN x ELSE qhead
  /\ next' = IF qtail = None THEN next ELSE [next EXCEPT ![qtail] = x]

\* Mutant: the tail pointer still points at the last queue taken.
BugUnlink ==
  /\ qhead # None
  /\ qhead' = next[qhead]
  /\ next' = [next EXCEPT ![qhead] = None]
  /\ UNCHANGED qtail

\* skynet_globalmq_pop of a list that is not empty
Unlink ==
  /\ qhead # None
  /\ qhead' = next[qhead]
  /\ qtail' = IF next[qhead] = None THEN None ELSE qtail
  /\ next' = [next EXCEPT ![qhead] = None]
-----------------------------------------------------------------------------
(* The sequence that the list stands for.                                  *)

\* The queue met after following n links from the head, or None.
Node[n \in 0..Cardinality(Queue)] ==
  IF n = 0 THEN qhead
  ELSE IF Node[n - 1] = None THEN None ELSE next[Node[n - 1]]

\* The linked queues, head first.  A list with a cycle shows more of them than
\* there are queues.
Chain ==
  [i \in 1..Cardinality({n \in DOMAIN Node : Node[n] # None}) |-> Node[i - 1]]

InList(x) == \E i \in DOMAIN Chain : Chain[i] = x

\* The list is well formed: it reaches its tail and ends there, it meets no
\* queue twice, and a queue that is not in it has next = NULL.  This is what
\* the assertions of skynet_globalmq_push, skynet_globalmq_pop and _release
\* check at the places they reach.
ListOK ==
  /\ Len(Chain) <= Cardinality(Queue)
  /\ IF Chain = << >> THEN qhead = None /\ qtail = None
     ELSE qtail = Chain[Len(Chain)] /\ next[qtail] = None
  /\ \A x \in Queue : ~InList(x) => next[x] = None
=============================================================================
