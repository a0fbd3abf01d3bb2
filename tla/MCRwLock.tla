------------------------------ MODULE MCRwLock ------------------------------
(* RwLock with four threads. *)
EXTENDS RwLock

CONSTANTS t1, t2, t3, t4

Threads4 == {t1, t2, t3, t4}
=============================================================================
