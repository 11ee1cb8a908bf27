------------------------------- MODULE Ranking -------------------------------
(* The elements of a finite set in an order, as a sequence.                       *)
EXTENDS Naturals, FiniteSets

\* Before is a strict total order on S.
Ranked(S, Before(_, _)) ==
    [k \in 1 .. Cardinality(S) |->
        CHOOSE e \in S : Cardinality({d \in S : Before(d, e)}) = k - 1]

Ascending(S) == Ranked(S, <)
=============================================================================
