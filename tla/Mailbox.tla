------------------------------- MODULE Mailbox -------------------------------
(***************************************************************************)
(* What the message runtime of test_skynet/skynet_socket promises to the   *)
(* code that registers a service and to the code that sends to it: every   *)
(* service has a mailbox, the messages of one mailbox are handled in the   *)
(* order they were sent, one at a time, and a mailbox with mail is always  *)
(* served.  Workers, the global queue, the in_global flag and the locks    *)
(* are the business of the module that implements this one                 *)
(* (SkynetDispatch).                                                       *)
(***************************************************************************)
EXTENDS Sequences

CONSTANTS
  Service,   \* the services (skynet_context), one message queue each
  Message    \* the messages

VARIABLES
  inbox,     \* inbox[s]: the messages sent to s and not yet taken, oldest first
  running    \* the pairs <<s, m>> such that the callback of s is handling m

vars == <<inbox, running>>

TypeOK ==
  /\ inbox \in [Service -> Seq(Message)]
  /\ running \in SUBSET (Service \X Message)

Idle(s) == \A m \in Message : <<s, m>> \notin running

Init ==
  /\ inbox = [s \in Service |-> << >>]
  /\ running = {}

Send(s, m) ==
  /\ inbox' = [inbox EXCEPT ![s] = Append(@, m)]
  /\ UNCHANGED running

\* The oldest message is taken, and only when the service handles no other.
Begin(s) ==
  /\ inbox[s] # << >>
  /\ Idle(s)
  /\ running' = running \cup {<<s, Head(inbox[s])>>}
  /\ inbox' = [inbox EXCEPT ![s] = Tail(@)]

End(s, m) ==
  /\ <<s, m>> \in running
  /\ running' = running \ {<<s, m>>}
  /\ UNCHANGED inbox

Next ==
  \/ \E s \in Service, m \in Message : Send(s, m) \/ End(s, m)
  \/ \E s \in Service : Begin(s)

Safety == Init /\ [][Next]_vars

\* A service with mail is served, and its callback returns.
Fairness ==
  \A s \in Service :
    /\ WF_vars(Begin(s))
    /\ WF_vars(\E m \in Message : End(s, m))

Spec == Safety /\ Fairness
=============================================================================
