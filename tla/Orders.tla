--------------------------------- MODULE Orders ---------------------------------
(***************************************************************************)
(* Finite sets put in order, and sequences that lose some of their         *)
(* entries.                                                                *)
(***************************************************************************)
EXTENDS Naturals, Sequences, FiniteSets

\* The elements of a finite set in an order, a set of pairs <<earlier, later>>.
InOrder(S, order) ==
    [n \in 1 .. Cardinality(S) |-> CHOOSE x \in S : Cardinality({y \in S : <<y, x>> \in order}) = n - 1]

\* The entries of a sequence at some of its positions.
Extract(s, positions) ==
    LET at == InOrder(positions, {pair \in positions \X positions : pair[1] < pair[2]})
    IN  [k \in 1 .. Cardinality(positions) |-> s[at[k]]]
================================================================================
