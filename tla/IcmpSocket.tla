----------------------------- MODULE IcmpSocket -----------------------------
(***************************************************************************)
(* The ICMPv6 socket of one interface (ICMPv6.cc) and the two threads that *)
(* bind it to the primary address: the main loop of netmgr, which          *)
(* advertises the node (Interface::advertise), and the listener that       *)
(* bring_up starts for the interface and that asks for a bound socket      *)
(* (Interface::icmp_socket).  bind fills the address structure of the      *)
(* socket before it takes the lock.                                        *)
(*                                                                         *)
(* The kernel and the link monitor are what LinkLife says of them, which   *)
(* LinkMonitor implements.  Of the address structure the model keeps which *)
(* of the three fields are filled in.                                      *)
(***************************************************************************)
EXTENDS LinkLife

Threads == {"main", "listener"}
Fields  == {"family", "address", "scope"}

VARIABLES
  binding,    \* the fields of binding that are filled in
  completed,  \* bind_completed
  local,      \* history: what the kernel bound the socket to
  raced,      \* history: both threads were in bind at once
  pc

sock == <<binding, completed, local>>
vars == <<present, assigned, notice, removed, binding, completed, local, raced, pc>>

Filling == {"clear", "family", "address", "scope"}
InBind  == Filling \cup {"enter", "lock"}

(* The constructor of ICMPv6::Socket, create_sockets and bring_up.         *)
Init ==
  /\ Begin
  /\ binding = {"family"} /\ completed = FALSE /\ local = "none" /\ raced = FALSE
  /\ pc = [main |-> "idle", listener |-> "ask"]

Go(t, to) ==
  /\ pc' = [pc EXCEPT ![t] = to]
  /\ raced' = (raced \/ \A u \in Threads : pc'[u] \in InBind)

-----------------------------------------------------------------------------
(* bind( address, scope )                                                  *)
After(t, ok) == IF t = "main" THEN (IF ok THEN "send" ELSE "idle")
                              ELSE (IF ok THEN "listening" ELSE "failed")

EnterCleared(t) ==
  /\ pc[t] = "enter" /\ Go(t, IF completed THEN After(t, TRUE) ELSE "family")
  /\ binding' = {}
  /\ UNCHANGED <<life, completed, local>>
Enter(t) ==
  /\ pc[t] = "enter" /\ Go(t, IF completed THEN After(t, TRUE) ELSE "clear")
  /\ UNCHANGED <<life, sock>>

(* memset, and the stores of the three fields                              *)
FillNoAddress(t) ==
  LET then == [clear |-> "family", family |-> "scope", scope |-> "lock"] IN
  /\ pc[t] \in Filling /\ Go(t, then[pc[t]])
  /\ binding' = IF pc[t] = "clear" THEN {} ELSE binding \cup {pc[t]}
  /\ UNCHANGED <<life, completed, local>>
Fill(t) ==
  LET then == [clear |-> "family", family |-> "address", address |-> "scope", scope |-> "lock"] IN
  /\ pc[t] \in Filling /\ Go(t, then[pc[t]])
  /\ binding' = IF pc[t] = "clear" THEN {} ELSE binding \cup {pc[t]}
  /\ UNCHANGED <<life, completed, local>>

(* What the kernel binds a raw socket to.  Without an address that is any  *)
(* address; a link-local address needs its scope.                          *)
BindsTo ==
  IF binding = Fields /\ present /\ assigned THEN "own"
  ELSE IF "family" \in binding /\ "address" \notin binding THEN "any"
  ELSE "none"

(* from pthread_mutex_lock to pthread_mutex_unlock                         *)
LockUnchecked(t) ==
  /\ pc[t] = "lock" /\ Go(t, After(t, BindsTo # "none"))
  /\ local' = IF BindsTo = "none" THEN local ELSE BindsTo
  /\ completed' = (completed \/ BindsTo # "none")
  /\ UNCHANGED <<life, binding>>
Lock(t) ==
  /\ pc[t] = "lock" /\ Go(t, After(t, completed \/ BindsTo # "none"))
  /\ local' = IF completed THEN local ELSE BindsTo
  /\ completed' = (completed \/ BindsTo # "none")
  /\ UNCHANGED <<life, binding>>

-----------------------------------------------------------------------------
(* Interface::advertise                                                    *)
Advertise ==
  /\ pc["main"] = "idle" /\ Go("main", IF completed THEN "send" ELSE "enter")
  /\ UNCHANGED <<life, sock>>

(* The advertisements go out with the scope that binding holds.            *)
Send ==
  /\ pc["main"] = "send" /\ Go("main", "idle")
  /\ UNCHANGED <<life, sock>>

(* Interface::icmp_socket                                                  *)
Ask ==
  /\ pc["listener"] = "ask"
  /\ Go("listener", IF completed THEN "listening" ELSE IF removed THEN "stopped" ELSE "enter")
  /\ UNCHANGED <<life, sock>>

FailedForGood ==
  /\ pc["listener"] = "failed" /\ Go("listener", "stopped")
  /\ UNCHANGED <<life, sock>>
FailedUnasked ==
  /\ pc["listener"] = "failed" /\ Go("listener", "enter")
  /\ UNCHANGED <<life, sock>>
Failed ==
  /\ pc["listener"] = "failed" /\ Go("listener", IF removed THEN "stopped" ELSE "pause")
  /\ UNCHANGED <<life, sock>>

Retry ==
  /\ pc["listener"] = "pause" /\ Go("listener", "enter")
  /\ UNCHANGED <<life, sock>>

-----------------------------------------------------------------------------
(* The kernel and the monitor thread change nothing else.                  *)
Elsewhere(A) == A /\ UNCHANGED <<sock, raced, pc>>

Main     == Advertise \/ Send \/ Enter("main") \/ Fill("main") \/ Lock("main")
Listener == Ask \/ Failed \/ Retry \/ Enter("listener") \/ Fill("listener") \/ Lock("listener")

Next == Main \/ Listener \/ Elsewhere(Assign) \/ Elsewhere(Vanish) \/ Elsewhere(Remove)

Spec == Init /\ [][Next]_vars

(* Both threads run and the monitor reads what is announced.               *)
FairSpec == Spec /\ WF_vars(Main) /\ WF_vars(Listener) /\ WF_vars(Elsewhere(Remove))

-----------------------------------------------------------------------------
TypeOK ==
  /\ present \in BOOLEAN /\ assigned \in BOOLEAN /\ removed \in BOOLEAN
  /\ completed \in BOOLEAN /\ raced \in BOOLEAN
  /\ notice \in {"none", "queued", "lost", "read"}
  /\ binding \subseteq Fields /\ local \in {"none", "own", "any"}
  /\ pc \in [Threads -> InBind \cup {"idle", "send", "ask", "listening", "failed", "pause", "stopped"}]

(* bind: unless the two threads were in it at once, the socket is bound to *)
(* the primary address and never to all of them, and advertisements are    *)
(* sent with the scope of the interface.                                   *)
WholeUnlessRaced == raced \/
  /\ local # "any"
  /\ pc["main"] = "send" => binding = Fields

(* bind: whatever the race did, the structure that sends read from is      *)
(* whole again when the last thread has left bind.                         *)
BindingSettles ==
  completed /\ (\A t \in Threads : pc[t] \notin Filling) => binding = Fields

(* bind: the check under the lock keeps the loser of the race from binding *)
(* the socket again.                                                       *)
BoundOnce == [][local # "none" => local' = local]_vars

(* icmp_socket: the listener of a link that left the system stops retrying *)
(* unless the announcement was lost.                                       *)
ListenerReleased ==
  ~present ~> pc["listener"] \in {"listening", "stopped"} \/ notice = "lost"

(* icmp_socket: once the address stays, the retries end with a bound       *)
(* socket; only when both threads are in bind together again and again,    *)
(* each clearing the structure of the other, could they go on forever.     *)
ListenerServed ==
  <>[](present /\ assigned) =>
    <>(pc["listener"] = "listening") \/ []<>(\A t \in Threads : pc[t] \in InBind)

=============================================================================
