------------------------------ MODULE FifoQueue ------------------------------
(***************************************************************************)
(* A queue of messages: what skynet_mq_push and skynet_mq_pop promise.     *)
(***************************************************************************)
EXTENDS Sequences

CONSTANT Message

VARIABLE items   \* the messages, oldest first

Init == items = << >>

Put(m) == items' = Append(items, m)

Get == items # << >> /\ items' = Tail(items)

Next == Get \/ \E m \in Message : Put(m)

Spec == Init /\ [][Next]_items
=============================================================================
