------------------------------- MODULE MqRing -------------------------------
(***************************************************************************)
(* One message_queue of skynet_mq.c: a ring buffer that doubles when it is *)
(* full, and the overload counter its consumer reads.  skynet_mq_push and  *)
(* skynet_mq_pop run under the lock of the queue, so each is one step;     *)
(* skynet_mq_overload takes no lock, and is called by the one thread that  *)
(* pops (SkynetDispatch, Exclusive).                                       *)
(***************************************************************************)
EXTENDS Integers, Sequences

CONSTANTS
  Message,             \* the messages
  DEFAULT_QUEUE_SIZE,  \* slots of a new queue (64 in the code)
  MQ_OVERLOAD,         \* length above which the queue is overloaded (1024)
  MaxLength,           \* bound: no push when this many messages are stored
  None                 \* what an unwritten slot of the array holds

ASSUME RingAssumption ==
  /\ DEFAULT_QUEUE_SIZE \in Nat \ {0}
  /\ MQ_OVERLOAD \in Nat \ {0}
  /\ MaxLength \in Nat
  /\ None \notin Message

VARIABLES
  cap,         \* slots of the array
  head,        \* slot of the oldest message
  tail,        \* slot the next message goes to
  queue,       \* the array
  overload,    \* length seen when the threshold was last passed, 0 once read
  threshold,   \* overload_threshold
  report,      \* history: what skynet_mq_overload last returned since the
               \* queue was last found empty, or 0
  popped       \* did the consumer pop a message and not yet read overload?

vars == <<cap, head, tail, queue, overload, threshold, report, popped>>

Length(h, t, c) == IF h <= t THEN t - h ELSE t + c - h

Stored == Length(head, tail, cap)

Slots == 0..(cap - 1)

\* (threshold is MQ_OVERLOAD doubled some times: see ReportsGrow.)
TypeOK ==
  /\ cap \in Nat \ {0}
  /\ head \in Slots
  /\ tail \in Slots
  /\ queue \in [Slots -> Message \cup {None}]
  /\ overload \in Nat
  /\ report \in Nat
  /\ popped \in BOOLEAN

\* skynet_mq_create
Init ==
  /\ cap = DEFAULT_QUEUE_SIZE
  /\ head = 0
  /\ tail = 0
  /\ queue = [i \in 0..(DEFAULT_QUEUE_SIZE - 1) |-> None]
  /\ overload = 0
  /\ threshold = MQ_OVERLOAD
  /\ report = 0
  /\ popped = FALSE

\* The slot after i in an array of cap slots.
NextSlot(i) == IF i + 1 >= cap THEN 0 ELSE i + 1

\* Mutant: the array is copied as it lies, from slot 0 and not from head.
BugExpanded(buf) ==
  [i \in 0..(2 * cap - 1) |-> IF i < cap THEN buf[i] ELSE None]

\* expand_queue: the messages move to the front of an array twice as long.
Expanded(buf) ==
  [i \in 0..(2 * cap - 1) |->
     IF i < cap THEN buf[(head + i) % cap] ELSE None]

\* Mutant: cap is not doubled with the array.
BugPush(m) ==
  LET buf == [queue EXCEPT ![tail] = m]
      full == NextSlot(tail) = head
  IN  /\ Stored < MaxLength
      /\ queue' = IF full THEN Expanded(buf) ELSE buf
      /\ head' = IF full THEN 0 ELSE head
      /\ tail' = IF full THEN cap ELSE NextSlot(tail)
      /\ UNCHANGED <<cap, overload, threshold, report, popped>>

\* skynet_mq_push
Push(m) ==
  LET buf == [queue EXCEPT ![tail] = m]
      full == NextSlot(tail) = head
  IN  /\ Stored < MaxLength
      /\ queue' = IF full THEN Expanded(buf) ELSE buf
      /\ head' = IF full THEN 0 ELSE head
      /\ tail' = IF full THEN cap ELSE NextSlot(tail)
      /\ cap' = IF full THEN 2 * cap ELSE cap
      /\ UNCHANGED <<overload, threshold, report, popped>>

\* The doubling loop of skynet_mq_pop: the threshold is doubled while the length
\* is above it.  It is at least 1, so that the loop has ended after length turns.
Doubled(t, length) ==
  LET After[k \in 0..length] ==
        IF k = 0 THEN t
        ELSE IF length > After[k - 1] THEN 2 * After[k - 1] ELSE After[k - 1]
  IN  After[length]

\* skynet_mq_pop with a message to return
Pop ==
  /\ ~popped
  /\ head # tail
  /\ LET length == Length(NextSlot(head), tail, cap)
     IN  /\ overload' = IF length > threshold THEN length ELSE overload
         /\ threshold' = Doubled(threshold, length)
  /\ head' = NextSlot(head)
  /\ popped' = TRUE
  /\ UNCHANGED <<cap, tail, queue, report>>

\* Mutant: the threshold is not reset.
BugPopEmpty ==
  /\ ~popped
  /\ head = tail
  /\ report' = 0
  /\ UNCHANGED <<cap, head, tail, queue, overload, threshold, popped>>

\* skynet_mq_pop on an empty queue
PopEmpty ==
  /\ ~popped
  /\ head = tail
  /\ threshold' = MQ_OVERLOAD
  /\ report' = 0
  /\ UNCHANGED <<cap, head, tail, queue, overload, popped>>

\* skynet_mq_overload, which skynet_context_message_dispatch calls after every
\* message it pops and before it handles it.
Overload ==
  /\ popped
  /\ popped' = FALSE
  /\ overload' = 0
  /\ report' = IF overload # 0 THEN overload ELSE report
  /\ UNCHANGED <<cap, head, tail, queue, threshold>>

Next ==
  \/ \E m \in Message : Push(m)
  \/ Pop
  \/ PopEmpty
  \/ Overload

Spec == Init /\ [][Next]_vars
-----------------------------------------------------------------------------
(* Properties.                                                             *)

\* The messages of the ring, oldest first.
Contents == [i \in 1..Stored |-> queue[(head + i - 1) % cap]]

\* The ring never fills up, so head = tail always means that it is empty, and
\* no slot between head and tail is one that was never written.
RingOK == TypeOK /\ Stored < cap /\ Contents \in Seq(Message)

\* The ring is a queue: wrapping and doubling neither lose, nor repeat, nor
\* reorder messages.
Fifo == INSTANCE FifoQueue WITH items <- Contents

FifoSpec == Fifo!Spec

\* Overload is reported neither too often nor too seldom.  Until the queue is
\* found empty every report is of a length more than the one before, so that a
\* queue that hovers around its threshold does not report every message; and a
\* length is reported if it is at least twice the last one reported.  When the
\* queue has been found empty, MQ_OVERLOAD is the measure again.
ReportsGrow ==
  [][~popped /\ popped' =>
       /\ overload' # 0 =>
            overload' = Stored' /\ Stored' > report /\ Stored' > MQ_OVERLOAD
       /\ Stored' > MQ_OVERLOAD /\ Stored' >= 2 * report =>
            overload' = Stored']_vars
=============================================================================
