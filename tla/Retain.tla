------------------------------- MODULE Retain -------------------------------
(***************************************************************************)
(* Vec::retain and VecDeque::retain of the standard library: what is kept  *)
(* of a sequence keeps its order.                                          *)
(***************************************************************************)
EXTENDS Naturals, FiniteSets, Sequences

\* The elements of s that are in `wanted`: the k-th is at the place that has k wanted
\* ones up to and including itself.
Kept(s, wanted) ==
    LET places == {i \in 1 .. Len(s) : s[i] \in wanted}
        Rank(i) == Cardinality({j \in places : j <= i})
    IN  [k \in 1 .. Cardinality(places) |-> s[CHOOSE i \in places : Rank(i) = k]]
=============================================================================
