-------------------------------- MODULE Fifo --------------------------------
(***************************************************************************)
(* What a Queue promises: the messages come out one at a time, in the      *)
(* order in which they went in.  Message v is the v-th one enqueued.       *)
(***************************************************************************)
EXTENDS Naturals, Sequences

VARIABLES
  queue,         \* the messages that wait
  out            \* the message dequeue returned last, 0 at first

Init == queue = <<>> /\ out = 0

Newest == IF queue = <<>> THEN out ELSE queue[Len(queue)]

Enqueue ==
  /\ queue' = Append(queue, Newest + 1)
  /\ UNCHANGED out

Dequeue ==
  /\ queue # <<>>
  /\ out' = Head(queue)
  /\ queue' = Tail(queue)

Spec == Init /\ [][Enqueue \/ Dequeue]_<<queue, out>>

=============================================================================
