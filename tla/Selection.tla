----------------------------- MODULE Selection -----------------------------
(***************************************************************************)
(* The members of a sequence that stand at some of its indices: what       *)
(* [x for x in q if ...] is in the code, in a form that can be reasoned    *)
(* about without induction.                                                *)
(***************************************************************************)
EXTENDS Naturals, FiniteSets

\* How many of the numbers in S are not greater than k.
Rank(S, k) == Cardinality({j \in S : j <= k})

\* The members of q whose index is in S, in the order of q.
Picked(q, S) ==
    [i \in 1..Cardinality(S) |-> q[CHOOSE k \in S : Rank(S, k) = i]]
=============================================================================
