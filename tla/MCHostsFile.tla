---------------------------- MODULE MCHostsFile ----------------------------
(* HostsFile for TLC. *)
EXTENDS HostsFile

=============================================================================
