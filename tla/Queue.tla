------------------------------- MODULE Queue -------------------------------
(***************************************************************************)
(* Queue.h: the inbox every Thread has.  Entries hang in a ring around the *)
(* sentinel head, used ones in a ring around the sentinel freelist.  Each  *)
(* ring has the mutex of its sentinel for insert and remove; empty() takes *)
(* no mutex; wait, the signal and depth() use messages_lock, which insert  *)
(* and remove do not.                                                      *)
(*                                                                         *)
(* One thread owns the queue and waits, dequeues and asks for the depth;   *)
(* the threads in Producers enqueue.  Under a ring's mutex only the change *)
(* of next matters to the readers without it, so remove is one step and    *)
(* insert two.  Nothing in the repository enqueues yet.                    *)
(***************************************************************************)
EXTENDS Naturals, Sequences

CONSTANTS
  Producers,     \* the threads that enqueue
  MaxMessages    \* bound: messages sent, and so entries made

ASSUME QueueAssumption == MaxMessages \in Nat

(* Pointers: the entries are numbered in the order in which they are made. *)
head      == 0
freelist  == MaxMessages + 1
NULL      == MaxMessages + 2
Sentinels == {head, freelist}
Entries   == 1 .. MaxMessages
Cells     == Sentinels \cup Entries

None  == "none"
Owner == "owner"
Threads == Producers \cup {Owner}

ASSUME OwnerAssumption == Owner \notin Producers /\ None \notin Producers

VARIABLES
  next, previous,  \* the links of a cell
  message,         \* what an entry carries; 0 for a sentinel
  made,            \* entries allocated with new so far
  lock,            \* lock[s]: the thread inside insert on sentinel s, or None
  messages_lock,   \* the thread that holds it, or None
  pc, entry,       \* of a thread: where it is, the entry it works on
  sent,            \* messages sent so far
  data,            \* the message dequeue returned last
  dot, depth,      \* of depth()
  size             \* history: the length of the queue when depth() began

links == <<next, previous>>
vars == <<next, previous, message, made, lock, messages_lock, pc, entry,
          sent, data, dot, depth, size>>

Init ==
  /\ next = [c \in Cells |-> c] /\ previous = [c \in Cells |-> c]
  /\ message = [c \in Cells |-> 0] /\ made = 0
  /\ lock = [s \in Sentinels |-> None] /\ messages_lock = None
  /\ pc = [t \in Threads |-> "idle"] /\ entry = [t \in Threads |-> NULL]
  /\ sent = 0 /\ data = 0 /\ dot = head /\ depth = 0 /\ size = 0

Go(t, from, to) == pc[t] = from /\ pc' = [pc EXCEPT ![t] = to]

Empty(s) == next[s] = s

-----------------------------------------------------------------------------
(* Entry::insert: the links but the last, then the last and the unlock.    *)
InsertLink(t, s, e) ==
  /\ lock[s] = None /\ lock' = [lock EXCEPT ![s] = t]
  /\ next' = [next EXCEPT ![e] = next[s]]
  /\ previous' = [previous EXCEPT ![e] = s, ![next[s]] = e]

InsertPublish(t, s, e) ==
  /\ lock[s] = t /\ lock' = [lock EXCEPT ![s] = None]
  /\ next' = [next EXCEPT ![s] = e]
  /\ UNCHANGED previous

(* Entry::remove takes what previous points to, the sentinel of an empty   *)
(* ring too.                                                               *)
RemoveNewest(t, s) ==
  LET e == next[s] IN
  /\ lock[s] = None
  /\ next' = [next EXCEPT ![s] = next[e]]
  /\ previous' = [previous EXCEPT ![next[e]] = s]
  /\ entry' = [entry EXCEPT ![t] = e]
  /\ UNCHANGED lock
Remove(t, s) ==
  LET e == previous[s] IN
  /\ lock[s] = None
  /\ previous' = [previous EXCEPT ![s] = previous[e]]
  /\ next' = [next EXCEPT ![previous[e]] = s]
  /\ entry' = [entry EXCEPT ![t] = e]
  /\ UNCHANGED lock

-----------------------------------------------------------------------------
(* enqueue: allocate looks at the freelist without its mutex.              *)
Allocate(t) ==
  /\ sent < MaxMessages
  /\ \/ /\ Empty(freelist)
        /\ Go(t, "idle", "link")
        /\ made' = made + 1 /\ sent' = sent + 1
        /\ entry' = [entry EXCEPT ![t] = made + 1]
        /\ message' = [message EXCEPT ![made + 1] = sent + 1]
     \/ /\ ~Empty(freelist)
        /\ Go(t, "idle", "take")
        /\ UNCHANGED <<made, sent, entry, message>>
  /\ UNCHANGED <<links, lock, messages_lock, data, dot, depth, size>>

Take(t) ==
  /\ Go(t, "take", "fill")
  /\ Remove(t, freelist)
  /\ UNCHANGED <<message, made, messages_lock, sent, data, dot, depth, size>>

Fill(t) ==
  /\ Go(t, "fill", "link")
  /\ sent' = sent + 1
  /\ message' = [message EXCEPT ![entry[t]] = sent + 1]
  /\ UNCHANGED <<links, made, lock, messages_lock, entry, data, dot, depth, size>>

LinkForgets(t) ==
  /\ Go(t, "link", "publish")
  /\ InsertLink(t, head, entry[t])
  /\ entry' = [entry EXCEPT ![t] = NULL]
  /\ UNCHANGED <<message, made, messages_lock, sent, data, dot, depth, size>>
Link(t) ==
  /\ Go(t, "link", "publish")
  /\ InsertLink(t, head, entry[t])
  /\ UNCHANGED <<message, made, messages_lock, entry, sent, data, dot, depth, size>>

Publish(t) ==
  /\ Go(t, "publish", "signal")
  /\ InsertPublish(t, head, entry[t])
  /\ entry' = [entry EXCEPT ![t] = NULL]
  /\ UNCHANGED <<message, made, messages_lock, sent, data, dot, depth, size>>

(* The signal wakes the owner when it sleeps; with messages_lock free it   *)
(* is either asleep or before its test of empty().                         *)
SignalUnlocked(t) ==
  /\ pc[t] = "signal"
  /\ pc' = [pc EXCEPT ![t] = "idle", ![Owner] = IF @ = "asleep" THEN "lock" ELSE @]
  /\ UNCHANGED <<links, message, made, lock, messages_lock, entry, sent, data, dot, depth, size>>
Signal(t) ==
  /\ pc[t] = "signal" /\ messages_lock = None
  /\ pc' = [pc EXCEPT ![t] = "idle", ![Owner] = IF @ = "asleep" THEN "lock" ELSE @]
  /\ UNCHANGED <<links, message, made, lock, messages_lock, entry, sent, data, dot, depth, size>>

-----------------------------------------------------------------------------
Same == UNCHANGED <<links, message, made, lock, entry, sent, data, dot, depth, size>>

Wait == Go(Owner, "idle", "lock") /\ Same /\ UNCHANGED messages_lock

WaitLock ==
  /\ Go(Owner, "lock", "check")
  /\ messages_lock = None /\ messages_lock' = Owner
  /\ Same

(* while ( empty() ): what the test has read may be old when the owner     *)
(* goes to sleep, but messages_lock is held until it sleeps.               *)
WaitCheck ==
  /\ Go(Owner, "check", IF Empty(head) THEN "sleep" ELSE "unlock")
  /\ Same /\ UNCHANGED messages_lock

WaitSleep ==
  /\ Go(Owner, "sleep", "asleep")
  /\ messages_lock' = None
  /\ Same

(* pthread_cond_wait may return without a signal.                          *)
Spurious == Go(Owner, "asleep", "lock") /\ Same /\ UNCHANGED messages_lock

WaitUnlock ==
  /\ Go(Owner, "unlock", "remove")
  /\ messages_lock' = None
  /\ Same

-----------------------------------------------------------------------------
(* dequeue                                                                 *)
DequeueRemove ==
  /\ Go(Owner, "remove", "data")
  /\ Remove(Owner, head)
  /\ UNCHANGED <<message, made, messages_lock, sent, data, dot, depth, size>>

DequeueLink ==
  /\ Go(Owner, "data", "recycle")
  /\ data' = message[entry[Owner]]
  /\ InsertLink(Owner, freelist, entry[Owner])
  /\ UNCHANGED <<message, made, messages_lock, entry, sent, dot, depth, size>>

DequeuePublish ==
  /\ Go(Owner, "recycle", "idle")
  /\ InsertPublish(Owner, freelist, entry[Owner])
  /\ entry' = [entry EXCEPT ![Owner] = NULL]
  /\ UNCHANGED <<message, made, messages_lock, sent, data, dot, depth, size>>

-----------------------------------------------------------------------------
(* The cells after head in the order of next, up to head again.            *)
After[n \in Nat] == IF n = 0 THEN next[head]
                    ELSE IF After[n - 1] = head THEN head ELSE next[After[n - 1]]
Length == CHOOSE n \in 0 .. MaxMessages + 1 :
            /\ n = MaxMessages + 1 \/ After[n] = head
            /\ \A m \in 0 .. n - 1 : After[m] # head

(* depth() walks the ring of head under messages_lock, which neither       *)
(* insert nor remove takes.                                                *)
DepthStart ==
  /\ Go(Owner, "idle", "depth")
  /\ messages_lock = None /\ messages_lock' = Owner
  /\ dot' = next[head] /\ depth' = 0 /\ size' = Length
  /\ UNCHANGED <<links, message, made, lock, entry, sent, data>>

DepthStepSentinel ==
  /\ pc[Owner] = "depth" /\ dot # head
  /\ depth' = IF next[dot] = head THEN depth + 2 ELSE depth + 1
  /\ dot' = next[dot]
  /\ UNCHANGED <<links, message, made, lock, messages_lock, pc, entry, sent, data, size>>
DepthStep ==
  /\ pc[Owner] = "depth" /\ dot # head
  /\ depth' = depth + 1 /\ dot' = next[dot]
  /\ UNCHANGED <<links, message, made, lock, messages_lock, pc, entry, sent, data, size>>

DepthEnd ==
  /\ pc[Owner] = "depth" /\ dot = head
  /\ pc' = [pc EXCEPT ![Owner] = "idle"]
  /\ messages_lock' = None
  /\ Same

Produce(t) ==
  Allocate(t) \/ Take(t) \/ Fill(t) \/ Link(t) \/ Publish(t) \/ Signal(t)
Consume ==
  \/ Wait \/ WaitLock \/ WaitCheck \/ WaitSleep \/ WaitUnlock
  \/ DequeueRemove \/ DequeueLink \/ DequeuePublish
  \/ DepthStep \/ DepthEnd

Next ==
  \/ \E t \in Producers : Produce(t)
  \/ Consume \/ Spurious \/ DepthStart

(* A runnable thread runs, and the owner comes back to wait() however      *)
(* often it asks for the depth.  A mutex is not promised to a thread that  *)
(* competes for it.                                                        *)
Fairness ==
  /\ \A t \in Producers : WF_vars(Produce(t))
  /\ WF_vars(Consume) /\ SF_vars(Wait)

Spec == Init /\ [][Next]_vars /\ Fairness

-----------------------------------------------------------------------------
(* enqueue, dequeue: whatever the threads do, the links lead from cell to  *)
(* cell, so that no thread that follows them meets NULL; no entry is made  *)
(* but for a message that is sent.                                         *)
TypeOK ==
  /\ next \in [Cells -> Cells] /\ previous \in [Cells -> Cells]
  /\ message \in [Cells -> Nat] /\ made \in 0 .. MaxMessages
  /\ lock \in [Sentinels -> Threads \cup {None}]
  /\ messages_lock \in {Owner, None}
  /\ entry \in [Threads -> Cells \cup {NULL}]
  /\ sent \in Nat /\ made <= sent /\ data \in Nat
  /\ dot \in Cells

(* enqueue, dequeue, allocate: seen from outside the rings are one FIFO.   *)
(* A message is in it from Publish to DequeueRemove.                       *)
queue == [k \in 1 .. Length |-> message[After[Length - k]]]
out == IF pc[Owner] = "data" THEN message[entry[Owner]] ELSE data
F == INSTANCE Fifo
ImplementsFifo == F!Spec

(* depth(): asked by the owner, it returns the number of messages that     *)
(* were there when it began, however many arrive while it walks.           *)
DepthExact == pc[Owner] = "depth" /\ dot = head => depth = size

(* wait, enqueue: every message sent is delivered; no wake-up is lost      *)
(* between the test of empty() and the sleep.                              *)
Delivered == \A v \in 1 .. MaxMessages : (sent >= v) ~> (data >= v)

=============================================================================
