--------------------------- MODULE MCSkynetHandle ---------------------------
(* SkynetHandle with two threads, three contexts and handles of two bits. *)
EXTENDS SkynetHandle, TLC

CONSTANTS a, b, x, y, z

Ctx3 == {x, y, z}

Symmetry == Permutations(Ctx)
=============================================================================
