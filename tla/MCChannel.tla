----------------------------- MODULE MCChannel -----------------------------
(* Channel for TLC: the services, and the keys of their names.             *)
EXTENDS Channel, TLC

CONSTANTS s1, s2, k1, k2

(* One service.                                                            *)
OneService == {s1}
OneName    == s1 :> [first4 |-> k1, rest |-> "a"]
NoCalls    == {}

(* Two services; the commands of the first ask the second.                 *)
TwoServices == {s1, s2}
TwoNames    == s1 :> [first4 |-> k1, rest |-> "a"] @@ s2 :> [first4 |-> k2, rest |-> "a"]
Chain       == {<<s1, s2>>}

=============================================================================
