------------------------------ MODULE MCQueue ------------------------------
(* Queue for TLC. *)
EXTENDS Queue

=============================================================================
