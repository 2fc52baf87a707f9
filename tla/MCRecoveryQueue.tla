-------------------------- MODULE MCRecoveryQueue --------------------------
(* Small instances of RecoveryQueue for TLC. *)
EXTENDS RecoveryQueue
=============================================================================
