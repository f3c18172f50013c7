---------------------------- MODULE MCIcmpSocket ----------------------------
(* IcmpSocket for TLC: the model is finite as it stands.                   *)
EXTENDS IcmpSocket
=============================================================================
