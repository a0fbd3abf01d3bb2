---------------------------- MODULE MCSocketWrite ----------------------------
(* SocketWrite with packages of two bytes and a kernel that buffers three. *)
EXTENDS SocketWrite, TLC

CONSTANTS m1, m2, m3

Packages2 == {m1, m2}
Packages3 == {m1, m2, m3}

Symmetry == Permutations(Package) \cup Permutations(Thread)
=============================================================================
