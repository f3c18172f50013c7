------------------------------ MODULE LinkLife ------------------------------
(***************************************************************************)
(* The life of one link as the threads that use its Interface object see   *)
(* it: the primary address comes and goes, the link leaves the system for  *)
(* good, and when the link monitor has read the announcement of that, and  *)
(* not before, the object is marked removed.  The announcement may be      *)
(* lost.                                                                   *)
(***************************************************************************)

VARIABLES
  present,   \* the link has not left the system
  assigned,  \* the kernel has the primary address on it
  notice,    \* the announcement of its removal: "none", "queued", "lost", "read"
  removed    \* Interface::_removed

life == <<present, assigned, notice, removed>>

Begin == present = TRUE /\ assigned \in BOOLEAN /\ notice = "none" /\ removed = FALSE

Assign ==
  /\ present /\ assigned' = ~assigned
  /\ UNCHANGED <<present, notice, removed>>

Vanish ==
  /\ present /\ present' = FALSE /\ assigned' = FALSE
  /\ notice' \in {"queued", "lost"}
  /\ UNCHANGED removed

(* receive( DelLink ) calls Interface::remove.                             *)
Remove ==
  /\ notice = "queued" /\ notice' = "read" /\ removed' = TRUE
  /\ UNCHANGED <<present, assigned>>

Step == Assign \/ Vanish \/ Remove \/ UNCHANGED life

Life == Begin /\ [][Step]_life

=============================================================================
