------------------------------- MODULE Selection -------------------------------
(***************************************************************************)
(* What a sequence has at some of its places, in order: what remains of a  *)
(* list that a loop has filtered.                                          *)
(***************************************************************************)
EXTENDS Naturals, Sequences, FiniteSets

\* The k-th of a set of places, and what a sequence has at them.
Nth(places, k) == CHOOSE i \in places : Cardinality({j \in places : j <= i}) = k
Picked(s, places) == [k \in 1 .. Cardinality(places) |-> s[Nth(places, k)]]

\* What of it is in a set.
Chosen(s, S) == Picked(s, {i \in DOMAIN s : s[i] \in S})
=============================================================================
