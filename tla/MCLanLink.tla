---------------------------- MODULE MCLanLink ----------------------------
(***************************************************************************)
(* Two peers on one network for TLC.                                       *)
(***************************************************************************)
EXTENDS LanLink, TLC

CONSTANTS a, b, s1, s2

\* The sockets of the pool are alike.
AnySocket == Permutations(Sockets)
===========================================================================
