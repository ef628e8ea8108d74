---------------------------- MODULE MCChannels ----------------------------
(***************************************************************************)
(* Three peers and a group for TLC.                                        *)
(***************************************************************************)
EXTENDS Channels

CONSTANTS a, b, c

\* All are friends; a is a friend of both others, who are not acquainted; b
\* has rejected a and a has not heard of it yet.
Everybody == [p \in Peers |-> Peers \ {p}]
Hub == [p \in Peers |-> IF p = a THEN {b, c} ELSE {a}]
OneSided == [Everybody EXCEPT ![b] = {c}]
Circles == {Everybody, Hub, OneSided}
===========================================================================
