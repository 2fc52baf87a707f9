--------------------------------- MODULE Order ---------------------------------
(***************************************************************************)
(* Sets put in order, and sequences of which only some members are kept.   *)
(* An order is strict and total on the set, as the sorts of the code are,  *)
(* which compare ids when all else is equal.                               *)
(***************************************************************************)
EXTENDS Naturals, Sequences, FiniteSets

\* The place of each member is one more than the number of those before it.
Ordered(S, before(_, _)) ==
  [i \in 1..Cardinality(S) |-> CHOOSE x \in S : Cardinality({y \in S : before(y, x)}) = i - 1]

\* The members of a sequence at the positions in K, in their order.
Picked(s, K) ==
  [n \in 1..Cardinality(K) |-> s[CHOOSE k \in K : Cardinality(K \cap 1..k) = n]]
=============================================================================
