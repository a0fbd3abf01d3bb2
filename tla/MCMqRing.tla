------------------------------ MODULE MCMqRing ------------------------------
(* An instance of MqRing for TLC: two messages, two slots at first.        *)
EXTENDS MqRing
=============================================================================
