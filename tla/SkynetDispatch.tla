--------------------------- MODULE SkynetDispatch ---------------------------
(***************************************************************************)
(* The two-level message queue of test_skynet/skynet_socket and the loop   *)
(* that drains it (skynet_mq.c, skynet_context.c, thread_worker).          *)
(*                                                                         *)
(* Every service owns a message queue.  The queues that have, or may have, *)
(* mail are linked into one global queue Q.  A worker thread takes a queue *)
(* out of Q, handles one message of it, exchanges it for the next queue of *)
(* Q and puts it back.  A worker that finds its queue empty drops it, and  *)
(* from then on the thread that pushes the next message has to link the    *)
(* queue into Q again; the flag in_global, guarded by the queue's lock,    *)
(* says whose turn it is.                                                  *)
(*                                                                         *)
(* A critical section under the lock of Q is one step.  A critical section *)
(* under the lock of a message queue is one step as well, except that of   *)
(* skynet_mq_push, which calls skynet_globalmq_push before it unlocks.     *)
(***************************************************************************)
EXTENDS Naturals, Sequences, FiniteSets

CONSTANTS
  Worker,         \* threads that run thread_worker
  Pusher,         \* threads that call skynet_context_push: timer, socket, main
  Service,        \* the registered handles, each with its message_queue
  Message,        \* the messages that can be in flight (bounds the mailboxes)
  CreationOrder,  \* the services in the order skynet_context_init links them
  None            \* NULL

ASSUME DispatchAssumption ==
  /\ None \notin Service \cup Message
  /\ CreationOrder \in Seq(Service)
  /\ \A i, j \in 1..Len(CreationOrder) :
       CreationOrder[i] = CreationOrder[j] => i = j
  /\ \A s \in Service : \E i \in 1..Len(CreationOrder) : CreationOrder[i] = s

VARIABLES
  glob,        \* Q: the queues linked into the global queue, head first
  mail,        \* mail[s]: the messages stored in the queue of s
  inGlobal,    \* inGlobal[s]: the flag in_global of the queue of s
  idle,        \* messages that are neither stored nor being handled
  publishing,  \* publishing[p]: the queue that p has locked in skynet_mq_push
               \* and is about to link into Q, or None
  pc,          \* pc[w]: where worker w is in skynet_context_message_dispatch
  q,           \* q[w]: its local variable q
  nq,          \* nq[w]: its local variable nq
  msg          \* msg[w]: the message its callback is handling, or None

vars == <<glob, mail, inGlobal, idle, publishing, pc, q, nq, msg>>

Labels == {"fetch", "pop", "callback", "swap", "putback"}

\* The type invariant: types, and which locals are set at which label.
TypeOK ==
  /\ glob \in Seq(Service)
  /\ mail \in [Service -> Seq(Message)]
  /\ inGlobal \in [Service -> BOOLEAN]
  /\ idle \in SUBSET Message
  /\ publishing \in [Pusher -> Service \cup {None}]
  /\ pc \in [Worker -> Labels]
  /\ q \in [Worker -> Service \cup {None}]
  /\ nq \in [Worker -> Service \cup {None}]
  /\ msg \in [Worker -> Message \cup {None}]
  /\ \A w \in Worker : /\ q[w] = None <=> pc[w] = "fetch"
                       /\ nq[w] # None <=> pc[w] = "putback"
                       /\ msg[w] # None <=> pc[w] = "callback"

\* skynet_context_init, run by the main thread before it starts the others: a
\* queue is created with in_global set and is linked into Q.
Init ==
  /\ glob = CreationOrder
  /\ mail = [s \in Service |-> << >>]
  /\ inGlobal = [s \in Service |-> TRUE]
  /\ idle = Message
  /\ publishing = [p \in Pusher |-> None]
  /\ pc = [w \in Worker |-> "fetch"]
  /\ q = [w \in Worker |-> None]
  /\ nq = [w \in Worker |-> None]
  /\ msg = [w \in Worker |-> None]
-----------------------------------------------------------------------------
(* The global queue.                                                       *)

\* Mutant: the queue is linked at the head of Q.
BugGlobalmqPush(s) == glob' = <<s>> \o glob

GlobalmqPush(s) == glob' = Append(glob, s)

GlobalmqPop == glob' = Tail(glob)

\* The lock of a message queue is free: nobody is inside skynet_mq_push.
Unlocked(s) == \A p \in Pusher : publishing[p] # s
-----------------------------------------------------------------------------
(* Threads that send: skynet_context_push and skynet_mq_push.              *)

\* Mutant: the queue is linked whatever in_global says.
BugPushAlwaysLinks(p, s, m) ==
  /\ publishing[p] = None
  /\ m \in idle
  /\ Unlocked(s)
  /\ idle' = idle \ {m}
  /\ mail' = [mail EXCEPT ![s] = Append(@, m)]
  /\ inGlobal' = [inGlobal EXCEPT ![s] = TRUE]
  /\ publishing' = [publishing EXCEPT ![p] = s]
  /\ UNCHANGED <<glob, pc, q, nq, msg>>

\* Mutant: the pusher links the queue and does not set in_global.
BugPushLeavesFlag(p, s, m) ==
  /\ publishing[p] = None
  /\ m \in idle
  /\ Unlocked(s)
  /\ idle' = idle \ {m}
  /\ mail' = [mail EXCEPT ![s] = Append(@, m)]
  /\ publishing' = IF inGlobal[s] THEN publishing
                   ELSE [publishing EXCEPT ![p] = s]
  /\ UNCHANGED <<glob, inGlobal, pc, q, nq, msg>>

\* The message is stored.  If the queue is neither in Q nor with a worker, the
\* pusher claims it by setting in_global and keeps the lock until Publish.
Push(p, s, m) ==
  /\ publishing[p] = None
  /\ m \in idle
  /\ Unlocked(s)
  /\ idle' = idle \ {m}
  /\ mail' = [mail EXCEPT ![s] = Append(@, m)]
  /\ inGlobal' = [inGlobal EXCEPT ![s] = TRUE]
  /\ publishing' = IF inGlobal[s] THEN publishing
                   ELSE [publishing EXCEPT ![p] = s]
  /\ UNCHANGED <<glob, pc, q, nq, msg>>

\* The rest of that call: skynet_globalmq_push, then the unlock.
Publish(p) ==
  /\ publishing[p] # None
  /\ GlobalmqPush(publishing[p])
  /\ publishing' = [publishing EXCEPT ![p] = None]
  /\ UNCHANGED <<mail, inGlobal, idle, pc, q, nq, msg>>
-----------------------------------------------------------------------------
(* Worker threads: skynet_context_message_dispatch, called in a loop.      *)

Goto(w, label) == pc' = [pc EXCEPT ![w] = label]

\* q is NULL, at the start or after a failed pop: the next queue of Q is taken.
\* With Q empty the call returns NULL and changes nothing.
FetchQueue(w) ==
  /\ pc[w] = "fetch"
  /\ glob # << >>
  /\ q' = [q EXCEPT ![w] = Head(glob)]
  /\ GlobalmqPop
  /\ Goto(w, "pop")
  /\ UNCHANGED <<mail, inGlobal, idle, publishing, nq, msg>>

\* skynet_mq_pop finds a message.
PopMessage(w) ==
  /\ pc[w] = "pop"
  /\ Unlocked(q[w])
  /\ mail[q[w]] # << >>
  /\ msg' = [msg EXCEPT ![w] = Head(mail[q[w]])]
  /\ mail' = [mail EXCEPT ![q[w]] = Tail(@)]
  /\ Goto(w, "callback")
  /\ UNCHANGED <<glob, inGlobal, idle, publishing, q, nq>>

\* Mutant: the worker lets go of the empty queue and leaves in_global set.
BugPopEmpty(w) ==
  /\ pc[w] = "pop"
  /\ Unlocked(q[w])
  /\ mail[q[w]] = << >>
  /\ q' = [q EXCEPT ![w] = None]
  /\ Goto(w, "fetch")
  /\ UNCHANGED <<glob, mail, inGlobal, idle, publishing, nq, msg>>

\* skynet_mq_pop finds none: in_global is cleared and the worker lets go of q.
PopEmpty(w) ==
  /\ pc[w] = "pop"
  /\ Unlocked(q[w])
  /\ mail[q[w]] = << >>
  /\ inGlobal' = [inGlobal EXCEPT ![q[w]] = FALSE]
  /\ q' = [q EXCEPT ![w] = None]
  /\ Goto(w, "fetch")
  /\ UNCHANGED <<glob, mail, idle, publishing, nq, msg>>

\* dispatch_message returns and the message is freed.
Callback(w) ==
  /\ pc[w] = "callback"
  /\ idle' = idle \cup {msg[w]}
  /\ msg' = [msg EXCEPT ![w] = None]
  /\ Goto(w, "swap")
  /\ UNCHANGED <<glob, mail, inGlobal, publishing, q, nq>>

\* Mutant: nq is not compared with NULL.
BugSwapNone(w) ==
  /\ pc[w] = "swap"
  /\ glob = << >>
  /\ Goto(w, "putback")
  /\ UNCHANGED <<glob, mail, inGlobal, idle, publishing, q, nq, msg>>

\* nq = skynet_globalmq_pop(): with Q empty the worker goes on with q.
SwapNone(w) ==
  /\ pc[w] = "swap"
  /\ glob = << >>
  /\ Goto(w, "pop")
  /\ UNCHANGED <<glob, mail, inGlobal, idle, publishing, q, nq, msg>>

SwapNext(w) ==
  /\ pc[w] = "swap"
  /\ glob # << >>
  /\ nq' = [nq EXCEPT ![w] = Head(glob)]
  /\ GlobalmqPop
  /\ Goto(w, "putback")
  /\ UNCHANGED <<mail, inGlobal, idle, publishing, q, msg>>

\* Mutant: the worker goes on with the queue that it has put back.
BugPutBack(w) ==
  /\ pc[w] = "putback"
  /\ GlobalmqPush(q[w])
  /\ nq' = [nq EXCEPT ![w] = None]
  /\ Goto(w, "pop")
  /\ UNCHANGED <<mail, inGlobal, idle, publishing, q, msg>>

\* The old queue goes back to the end of Q.
PutBack(w) ==
  /\ pc[w] = "putback"
  /\ GlobalmqPush(q[w])
  /\ q' = [q EXCEPT ![w] = nq[w]]
  /\ nq' = [nq EXCEPT ![w] = None]
  /\ Goto(w, "pop")
  /\ UNCHANGED <<mail, inGlobal, idle, publishing, msg>>

Dispatch(w) ==
  \/ FetchQueue(w)
  \/ PopMessage(w)
  \/ PopEmpty(w)
  \/ Callback(w)
  \/ SwapNone(w)
  \/ SwapNext(w)
  \/ PutBack(w)
-----------------------------------------------------------------------------
Next ==
  \/ \E p \in Pusher, s \in Service, m \in Message : Push(p, s, m)
  \/ \E p \in Pusher : Publish(p)
  \/ \E w \in Worker : Dispatch(w)

Safety == Init /\ [][Next]_vars

\* A worker thread keeps running its loop and a thread inside skynet_mq_push
\* leaves it.  Nothing makes a thread send.
Fairness ==
  /\ \A w \in Worker : WF_vars(Dispatch(w))
  /\ \A p \in Pusher : WF_vars(Publish(p))

Spec == Safety /\ Fairness
-----------------------------------------------------------------------------
(* Safety.                                                                 *)

Linked(s) == \E i \in 1..Len(glob) : glob[i] = s

HeldBy(w) == {q[w], nq[w]} \ {None}

Held(s) == \E w \in Worker : s \in HeldBy(w)

BeingLinked(s) == \E p \in Pusher : publishing[p] = s

\* No two workers hold one queue, so no service is ever run by two threads at
\* once: the callbacks (skynet_callback) rely on it, they take no lock.
Exclusive ==
  \A v, w \in Worker : v # w => HeldBy(v) \cap HeldBy(w) = {}

\* A queue is linked into Q at most once, and one that a thread holds or is
\* about to link is not in Q, nor are two threads about to link it: the
\* assertion queue->next == NULL of skynet_globalmq_push, and what it cannot
\* see, the second push of the queue at the tail.
LinkedOnce ==
  /\ \A i, j \in 1..Len(glob) : glob[i] = glob[j] => i = j
  /\ \A s \in Service : Linked(s) => ~Held(s) /\ ~BeingLinked(s)
  /\ \A s \in Service : BeingLinked(s) => ~Held(s)
  /\ \A p, r \in Pusher :
       publishing[p] = publishing[r] => p = r \/ publishing[p] = None
  /\ \A w \in Worker : q[w] = nq[w] => q[w] = None

\* The comment on MQ_IN_GLOBAL: the flag is clear exactly when the queue is
\* neither in Q nor with a thread that will link or drain it.
FlagTruth ==
  \A s \in Service : inGlobal[s] <=> Linked(s) \/ Held(s) \/ BeingLinked(s)

\* No lost wakeup: mail never waits in a queue that no worker can reach.
NoLostWakeup ==
  \A s \in Service :
    mail[s] # << >> => Linked(s) \/ Held(s) \/ BeingLinked(s)

(* The mailboxes that the queues and the workers implement.                *)

Box == INSTANCE Mailbox WITH
  inbox <- mail,
  running <- {<<q[w], msg[w]>> : w \in {v \in Worker : pc[v] = "callback"}}

\* Messages of one service are handled in the order they were stored, one at a
\* time, and every queue with mail is served however busy the others are.
MailboxSpec == Box!Spec
=============================================================================
