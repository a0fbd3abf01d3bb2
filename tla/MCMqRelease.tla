----------------------------- MODULE MCMqRelease -----------------------------
(* An instance of MqRelease for TLC.                                       *)
EXTENDS MqRelease

CONSTANTS q1, q2, q3, q4

Queues == {q1, q2, q3, q4}
Order == <<q1, q2, q3, q4>>
=============================================================================
