------------------------------ MODULE Mailbox ------------------------------
(***************************************************************************)
(* What the texts of one user promise another, without friendships, queues *)
(* and links: each is written once, may be lost, and is otherwise read by  *)
(* the one it was written to, once, after every older one that is read.    *)
(* Session implements it.                                                  *)
(***************************************************************************)
EXTENDS Naturals, Sequences

CONSTANTS Peers

VARIABLES
    written,  \* written[p]: to whom p wrote its texts, in order
    read      \* read[q][p]: which texts of p the peer q read, in order

Init ==
    /\ written = [p \in Peers |-> <<>>]
    /\ read = [q \in Peers |-> [p \in Peers |-> <<>>]]

Write(p, q) ==
    /\ written' = [written EXCEPT ![p] = Append(@, q)]
    /\ UNCHANGED read

Newer(n, numbers) == \A i \in DOMAIN numbers : numbers[i] < n

Read(q, p) ==
    /\ \E n \in DOMAIN written[p] :
          /\ written[p][n] = q
          /\ Newer(n, read[q][p])
          /\ read' = [read EXCEPT ![q][p] = Append(@, n)]
    /\ UNCHANGED written

Next == \E p, q \in Peers : Write(p, q) \/ Read(q, p)

Spec == Init /\ [][Next]_<<written, read>>
=============================================================================
