------------------------------- MODULE MCCouch -------------------------------
(* Couch for TLC: requests are interchangeable, and so are chunks.          *)
EXTENDS Couch, TLC

Symmetries == Permutations(Requests) \cup Permutations(Leaves)
=============================================================================
