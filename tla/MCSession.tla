---------------------------- MODULE MCSession ----------------------------
(***************************************************************************)
(* Small groups of peers for TLC: two peers, or a hub and two others.      *)
(***************************************************************************)
EXTENDS Session, TLC

CONSTANTS hub, alice, bob

\* alice and bob, linked.
PairLinks == {{alice, bob}}

\* A star: hub in the middle, no link between alice and bob.
StarLinks == {{hub, alice}, {hub, bob}}

\* Who sends how often: each command once, or rejections twice.
Once == [command \in Commands |-> 1]
PairCommands == [Once EXCEPT !["reject"] = 2]
NoReject == [Once EXCEPT !["reject"] = 0]
AcceptOnly == [NoReject EXCEPT !["add"] = 0]
NoAccept == [Once EXCEPT !["accept"] = 0]

\* alice and bob are alike.
Interchangeable == Permutations({alice, bob})
===========================================================================
