---------------------------- MODULE MCRouting ----------------------------
(***************************************************************************)
(* Small networks for TLC.                                                 *)
(***************************************************************************)
EXTENDS Routing

CONSTANTS a, b, c, d, e, f

Lan == <<"lan">>
LanAndBluetooth == <<"lan", "bluetooth">>
ByLan(pairs) == {"lan"} \X pairs

All == {Links}

\* The two nodes with two transports have met by the second one only.
AllButOne == {Links \ {<<"lan", {a, c}>>}}

\* Three nodes, all linked, two of them by two transports.
Triangle == ByLan({{a, b}, {b, c}, {a, c}}) \cup {<<"bluetooth", {a, c}>>}
TriangleTraffic == {<<a, c>>}

\* Two ways from a to d, by b and by c, and e and f behind d.
Kite == ByLan({{a, b}, {a, c}, {b, d}, {c, d}, {d, e}, {e, f}})
KiteTraffic == {<<a, d>>, <<d, a>>, <<f, a>>}

\* a - b - c - d
Line == ByLan({{a, b}, {b, c}, {c, d}})
LineTraffic == {<<a, d>>}
===========================================================================
