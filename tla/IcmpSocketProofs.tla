-------------------------- MODULE IcmpSocketProofs --------------------------
(***************************************************************************)
(* What bind guarantees of the ICMPv6 socket of an interface, however the  *)
(* main loop and the listener interleave in it.                            *)
(***************************************************************************)
EXTENDS IcmpSocket, TLAPS

(* bind_completed says that the kernel bound the socket, and a thread that *)
(* goes on to use the socket has seen it set.                              *)
CompletedExact ==
  /\ completed <=> local # "none"
  /\ pc["main"] = "send" => completed

(* As long as the threads were in bind one after the other, the structure  *)
(* holds what the thread in bind has stored, and once the socket is bound  *)
(* nobody stores into it.                                                  *)
Alone == ~raced =>
  /\ ~\A t \in Threads : pc[t] \in InBind
  /\ \A t \in Threads :
       /\ pc[t] = "family"  => binding = {}
       /\ pc[t] = "address" => binding = {"family"}
       /\ pc[t] = "scope"   => binding = {"family", "address"}
       /\ pc[t] = "lock"    => binding = Fields
  /\ completed =>
       /\ binding = Fields /\ local = "own"
       /\ \A t \in Threads : pc[t] \notin Filling \cup {"lock"}

(* A thread at one of these steps will still store field f.                *)
Owes(f) ==
  {"family"} \cup (IF f = "family" THEN {} ELSE {"address"})
             \cup (IF f = "scope" THEN {"scope"} ELSE {})

(* Every field that is missing is owed by a thread in bind, except in the  *)
(* new socket that no thread has touched.                                  *)
Owed ==
  \/ \A f \in Fields \ binding : \E t \in Threads : pc[t] \in Owes(f)
  \/ ~completed /\ \A t \in Threads : pc[t] \in {"idle", "ask", "stopped", "enter", "clear"}

IInv == TypeOK /\ CompletedExact /\ Alone /\ Owed

-----------------------------------------------------------------------------
(* The constructor of ICMPv6::Socket establishes the invariant.            *)
LEMMA InitIInv == ASSUME Init PROVE IInv
<1> USE DEF Init, Begin, Threads
<1>1. pc["main"] = "idle" /\ pc["listener"] = "ask"
  OBVIOUS
<1>2. TypeOK
  <2>1. pc \in [Threads -> {"idle", "ask"}]
    OBVIOUS
  <2>2. present \in BOOLEAN /\ assigned \in BOOLEAN /\ removed \in BOOLEAN
        /\ completed \in BOOLEAN /\ raced \in BOOLEAN
    BY Zenon
  <2> QED
    BY <2>1, <2>2 DEF TypeOK, Fields
<1>3. CompletedExact
  BY <1>1 DEF CompletedExact
<1>4. Alone
  BY <1>1 DEF Alone, InBind, Filling
<1>5. Owed
  BY <1>1 DEF Owed
<1> QED
  BY <1>2, <1>3, <1>4, <1>5 DEF IInv

(* A thread that enters bind, or returns from it at once.                  *)
LEMMA EnterIInv == ASSUME IInv, NEW t \in Threads, Enter(t) PROVE IInv'
<1>1. TypeOK'
  BY DEF IInv, TypeOK, Enter, Go, After, life, sock, InBind, Filling, Threads, Fields
<1>2. CompletedExact'
  BY DEF IInv, TypeOK, CompletedExact, Enter, Go, After, life, sock, Threads
<1>3. Alone'
  BY DEF IInv, TypeOK, Alone, Enter, Go, After, life, sock, InBind, Filling, Threads
<1>4. Owed'
  BY DEF IInv, TypeOK, Owed, Owes, Enter, Go, After, life, sock, InBind, Filling, Threads
<1> QED
  BY <1>1, <1>2, <1>3, <1>4 DEF IInv

(* memset and the stores of the fields.                                    *)
LEMMA FillIInv == ASSUME IInv, NEW t \in Threads, Fill(t) PROVE IInv'
<1>1. TypeOK'
  <2>1. binding' \subseteq Fields
    BY DEF IInv, TypeOK, Fill, Filling, Fields
  <2>2. raced' \in BOOLEAN
    BY DEF IInv, TypeOK, Fill, Go
  <2>3. pc' \in [Threads -> InBind \cup {"idle", "send", "ask", "listening", "failed", "pause", "stopped"}]
    BY DEF IInv, TypeOK, Fill, Go, Filling, InBind
  <2> QED
    BY <2>1, <2>2, <2>3 DEF IInv, TypeOK, Fill, life
<1>2. CompletedExact'
  BY DEF IInv, TypeOK, CompletedExact, Fill, Go, life, InBind, Filling, Threads
<1>3. Alone'
  BY DEF IInv, TypeOK, Alone, Fill, Go, life, InBind, Filling, Threads, Fields
<1>4. Owed'
  BY DEF IInv, TypeOK, Owed, Owes, Fill, Go, life, InBind, Filling, Threads, Fields
<1> QED
  BY <1>1, <1>2, <1>3, <1>4 DEF IInv

(* The critical section of bind.                                           *)
LEMMA LockIInv == ASSUME IInv, NEW t \in Threads, Lock(t) PROVE IInv'
<1>1. TypeOK'
  BY DEF IInv, TypeOK, Lock, Go, After, BindsTo, life, InBind, Filling, Threads, Fields
<1>2. CompletedExact'
  BY DEF IInv, TypeOK, CompletedExact, Lock, Go, After, BindsTo, life, InBind, Threads
<1>3. Alone'
  BY DEF IInv, TypeOK, Alone, Lock, Go, After, BindsTo, life, InBind, Filling, Threads, Fields
<1>4. Owed'
  BY DEF IInv, TypeOK, Owed, Owes, Lock, Go, After, life, InBind, Filling, Threads, Fields
<1> QED
  BY <1>1, <1>2, <1>3, <1>4 DEF IInv

(* The steps of advertise and icmp_socket around bind.                     *)
LEMMA CallerIInv == ASSUME IInv, Advertise \/ Send \/ Ask \/ Failed \/ Retry PROVE IInv'
<1> USE DEF Advertise, Send, Ask, Failed, Retry, Go, life, sock
<1>1. TypeOK'
  BY DEF IInv, TypeOK, InBind, Filling, Threads, Fields
<1>2. CompletedExact'
  BY DEF IInv, TypeOK, CompletedExact, Threads
<1>3. Alone'
  BY DEF IInv, TypeOK, Alone, InBind, Filling, Threads
<1>4. Owed'
  BY DEF IInv, TypeOK, Owed, Owes, InBind, Filling, Threads
<1> QED
  BY <1>1, <1>2, <1>3, <1>4 DEF IInv

(* The kernel and the monitor do not touch the socket.                     *)
LEMMA ElsewhereIInv ==
  ASSUME IInv, Elsewhere(Assign) \/ Elsewhere(Vanish) \/ Elsewhere(Remove) PROVE IInv'
<1>1. UNCHANGED <<binding, completed, local, raced, pc>>
  BY DEF Elsewhere, sock
<1>2. present' \in BOOLEAN /\ assigned' \in BOOLEAN /\ removed' \in BOOLEAN
  BY DEF IInv, TypeOK, Elsewhere, Assign, Vanish, Remove
<1>3. notice' \in {"none", "queued", "lost", "read"}
  BY DEF IInv, TypeOK, Elsewhere, Assign, Vanish, Remove
<1>4. TypeOK'
  BY <1>1, <1>2, <1>3 DEF IInv, TypeOK
<1> QED
  BY <1>1, <1>4 DEF IInv, CompletedExact, Alone, Owed

LEMMA NextIInv == ASSUME IInv, [Next]_vars PROVE IInv'
<1>1. CASE \E t \in Threads : Enter(t) \/ Fill(t) \/ Lock(t)
  BY <1>1, EnterIInv, FillIInv, LockIInv
<1>2. CASE Advertise \/ Send \/ Ask \/ Failed \/ Retry
  BY <1>2, CallerIInv
<1>3. CASE Elsewhere(Assign) \/ Elsewhere(Vanish) \/ Elsewhere(Remove)
  BY <1>3, ElsewhereIInv
<1>4. CASE UNCHANGED vars
  BY <1>4 DEF vars, IInv, TypeOK, CompletedExact, Alone, Owed
<1> QED
  BY <1>1, <1>2, <1>3, <1>4 DEF Next, Main, Listener, Threads

(* The inductive invariant holds in every behaviour of the two threads.    *)
THEOREM InductiveInvariant == Spec => []IInv
BY InitIInv, NextIInv, PTL DEF Spec

(* bind: without an overlap of the two threads the socket is never bound   *)
(* to all addresses and never sends without the scope of its interface.    *)
THEOREM WholeUnlessRacedThm == Spec => []WholeUnlessRaced
<1>1. IInv => WholeUnlessRaced
  BY DEF IInv, CompletedExact, Alone, WholeUnlessRaced
<1> QED
  BY <1>1, InductiveInvariant, PTL

(* bind: after any race the structure that sends read from is whole again  *)
(* once no thread is storing into it.                                      *)
THEOREM BindingSettlesThm == Spec => []BindingSettles
<1>1. IInv => BindingSettles
  BY DEF IInv, TypeOK, Owed, Owes, BindingSettles, Filling, Fields
<1> QED
  BY <1>1, InductiveInvariant, PTL

(* bind: what the kernel bound the socket to never changes again.          *)
THEOREM BoundOnceThm == Spec => BoundOnce
<1>1. IInv /\ [Next]_vars => [local # "none" => local' = local]_vars
  BY DEF IInv, CompletedExact, Next, vars, Main, Listener, Enter, Fill, Lock, Advertise, Send,
         Ask, Failed, Retry, Elsewhere, sock
<1> QED
  BY <1>1, InductiveInvariant, PTL DEF Spec, BoundOnce

=============================================================================
