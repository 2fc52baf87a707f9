--------------------------- MODULE MCWriteThrough ---------------------------
(* Small instances of WriteThrough for TLC. *)
EXTENDS WriteThrough, TLC

ClientSymmetry == Permutations(Clients)
=============================================================================
