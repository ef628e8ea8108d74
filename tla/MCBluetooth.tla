---------------------------- MODULE MCBluetooth ----------------------------
(***************************************************************************)
(* Two devices that dial each other, for TLC.                              *)
(***************************************************************************)
EXTENDS Bluetooth

CONSTANTS a, b, s1, s2

Dialers == [s \in Sockets |-> IF s = s1 THEN a ELSE b]
Acceptors == [s \in Sockets |-> IF s = s1 THEN b ELSE a]

\* b has as many threads as connections, a has one more.
Pools == [n \in Nodes |-> IF n = b THEN 1 ELSE 2]

\* b sends more frames than one, so that order matters.
FewFrames == [n \in Nodes |-> IF n = b THEN 2 ELSE 0]
===========================================================================
