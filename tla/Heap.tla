-------------------------------- MODULE Heap --------------------------------
(***************************************************************************)
(* What operator new and operator delete promise their callers, whatever   *)
(* the allocator does inside: new hands out an address nobody holds, and   *)
(* only a holder gives it up.                                              *)
(***************************************************************************)
CONSTANTS Threads, Address

VARIABLE holders   \* holders[a]: the threads that hold address a

Init == holders = [a \in Address |-> {}]

New(t, a) ==
  /\ holders[a] = {}
  /\ holders' = [holders EXCEPT ![a] = {t}]

Delete(t, a) ==
  /\ t \in holders[a]
  /\ holders' = [holders EXCEPT ![a] = @ \ {t}]

Give(t, u, a) ==
  /\ t \in holders[a]
  /\ holders' = [holders EXCEPT ![a] = (@ \ {t}) \cup {u}]

Next ==
  \E t \in Threads, a \in Address :
    \/ New(t, a)
    \/ Delete(t, a)
    \/ \E u \in Threads : Give(t, u, a)

Spec == Init /\ [][Next]_holders

=============================================================================
