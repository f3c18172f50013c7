---------------------------- MODULE MCRulesFile ----------------------------
(* RulesFile for TLC. *)
EXTENDS RulesFile

=============================================================================
