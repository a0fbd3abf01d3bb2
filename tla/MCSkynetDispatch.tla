-------------------------- MODULE MCSkynetDispatch --------------------------
(* An instance of SkynetDispatch for TLC.                                  *)
EXTENDS SkynetDispatch

CONSTANTS s1, s2, s3

Services3 == {s1, s2, s3}
Order3 == <<s1, s2, s3>>
=============================================================================
