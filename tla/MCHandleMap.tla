---------------------------- MODULE MCHandleMap ----------------------------
(* HandleMap with three threads and three objects; ids wrap at 8. *)
EXTENDS HandleMap, TLC

CONSTANTS t1, t2, t3, u1, u2, u3

Threads3 == {t1, t2, t3}

Objects3 == {u1, u2, u3}

\* Threads and objects are only compared for equality.
Symmetry == Permutations(Threads3) \cup Permutations(Objects3)
=============================================================================
