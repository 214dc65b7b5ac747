-------------------------------- MODULE Filtered --------------------------------
(***************************************************************************)
(* What `retain` and `filter` leave of a list (external: the standard      *)
(* library).  It is defined by places and not by recursion, as SelectSeq   *)
(* of the Sequences module is, so that it can be reasoned about.           *)
(***************************************************************************)
EXTENDS Integers, Sequences, FiniteSets

\* Of these places, how many there are up to this one.
Rank(at, i) == Cardinality({j \in at : j <= i})

\* The elements of a list at these places, in their order.
Filtered(s, at) ==
  [k \in 1 .. Cardinality(at) |-> s[CHOOSE i \in at : Rank(at, i) = k]]
=============================================================================
