------------------------------ MODULE Filters ------------------------------
(***************************************************************************)
(* What Iterator::filter and Vec::retain leave of a sequence, given the    *)
(* positions that pass: the elements there, in their order.                *)
(***************************************************************************)
EXTENDS Naturals, Sequences, FiniteSets

\* How many of the positions are not after i, and the position with n such.
Rank(I, i) == Cardinality({j \in I : j <= i})
Nth(I, n)  == CHOOSE i \in I : Rank(I, i) = n

Picked(s, I) == [n \in 1 .. Cardinality(I) |-> s[Nth(I, n)]]
=============================================================================
