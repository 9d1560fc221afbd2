---------------------------- MODULE Subsequences ----------------------------
(***************************************************************************)
(* What Vec::retain and Iterator::filter leave of a list: some of its      *)
(* entries, in their order.  It is SelectSeq, written with an index set in *)
(* place of a test, so that it can be reasoned about.                      *)
(***************************************************************************)
EXTENDS Integers, Sequences, FiniteSets

\* The position of index i among the indices I.
Rank(I, i) == Cardinality({j \in I : j <= i})

\* The entries of s at the indices I.
Keep(s, I) == [k \in 1..Cardinality(I) |-> s[CHOOSE i \in I : Rank(I, i) = k]]
=============================================================================
