----------------------------- MODULE RulesFile -----------------------------
(***************************************************************************)
(* LinuxNetworkMonitor::persist_interface_configuration: the udev rules    *)
(* that fix the device names are written to ".tmp" through a stdio buffer, *)
(* which is then renamed to "58-net-rename.rules".                         *)
(*                                                                         *)
(* A line of the file is the number of the call that wrote it.             *)
(***************************************************************************)
EXTENDS FileSystem

CONSTANTS
  BufLines,      \* lines the stdio buffer holds
  MaxLines,      \* bound: physical interfaces
  MaxSaves       \* bound: calls of persist_interface_configuration

ASSUME RulesFileAssumption ==
  /\ BufLines \in Nat \ {0} /\ MaxLines \in Nat /\ MaxSaves \in Nat
  /\ Names = {".tmp", "rules"}

VARIABLES
  pc,            \* where the call is
  save,          \* the number of the last call
  buf,           \* the stdio buffer of f
  count,         \* history: the lines call v had to write
  spared         \* history: no write has failed, and no power

vars == <<fsVars, pc, save, buf, count, spared>>

Init ==
  /\ FileInit
  /\ pc = "idle" /\ save = 0 /\ buf = <<>>
  /\ count = [v \in 1 .. MaxSaves |-> 0]
  /\ spared = TRUE

Fopen ==
  /\ pc = "idle" /\ save < MaxSaves
  /\ Creat(".tmp")
  /\ save' = save + 1 /\ pc' = "print" /\ buf' = <<>>
  /\ UNCHANGED <<count, spared>>

(* The write a full buffer or fclose causes.                               *)
Flush ==
  \/ Store(".tmp", data[dir[".tmp"]] \o buf) /\ UNCHANGED spared
  \/ DiskFills /\ buf # <<>> /\ spared' = FALSE /\ UNCHANGED fsVars

Fprintf ==
  /\ pc = "print" /\ count[save] < MaxLines
  /\ IF Len(buf) < BufLines
       THEN buf' = Append(buf, save) /\ UNCHANGED <<fsVars, spared>>
       ELSE buf' = <<save>> /\ Flush
  /\ count' = [count EXCEPT ![save] = @ + 1]
  /\ UNCHANGED <<pc, save>>

(* fdatasync does not see what is still in the buffer.                     *)
FdatasyncRename ==
  /\ pc = "print" /\ pc' = "rename"
  /\ SyncData(".tmp")
  /\ UNCHANGED <<save, buf, count, spared>>
Fdatasync ==
  /\ pc = "print" /\ pc' = "close"
  /\ SyncData(".tmp")
  /\ UNCHANGED <<save, buf, count, spared>>

Fclose ==
  /\ pc = "close" /\ pc' = "rename"
  /\ Flush /\ buf' = <<>>
  /\ UNCHANGED <<save, count>>

RenameByUnlink ==
  /\ pc = "rename"
  /\ IF dir["rules"] # None
       THEN UnlinkName("rules") /\ pc' = "rename"
       ELSE RenameFile(".tmp", "rules") /\ pc' = "idle"
  /\ UNCHANGED <<save, buf, count, spared>>
Rename ==
  /\ pc = "rename" /\ pc' = "idle"
  /\ \/ RenameFile(".tmp", "rules")
     \/ DiskFills /\ UNCHANGED fsVars
  /\ UNCHANGED <<save, buf, count, spared>>

(* netmgr dies, with its stdio buffer, and is started again.               *)
Crash == pc # "idle" /\ pc' = "idle" /\ buf' = <<>> /\ UNCHANGED <<fsVars, save, count, spared>>

PowerFailure ==
  /\ Reboot
  /\ pc' = "idle" /\ buf' = <<>> /\ spared' = FALSE
  /\ UNCHANGED <<save, count>>

Journal == Commit /\ UNCHANGED <<pc, save, buf, count, spared>>

Next ==
  \/ Fopen \/ Fprintf \/ Fdatasync \/ Fclose \/ Rename
  \/ Crash \/ PowerFailure \/ Journal

Spec == Init /\ [][Next]_vars

-----------------------------------------------------------------------------
(* persist_interface_configuration: the rules file holds, if it exists,    *)
(* every line of one call.  It fails when the power fails, for the lines   *)
(* reach the kernel after fdatasync.                                       *)
RulesWhole ==
  dir["rules"] # None =>
    \E v \in 1 .. save : data[dir["rules"]] = [k \in 1 .. count[v] |-> v]

(* persist_interface_configuration: as long as netmgr may only die, at any *)
(* point of any call, the rules file is whole.                             *)
RulesWholeIfSpared == spared => RulesWhole

(* persist_interface_configuration: only a power failure takes the rules   *)
(* file away again, and not even a power failure once a directory with it  *)
(* has reached the disk.  Calls, failed writes and the death of netmgr     *)
(* never do.                                                               *)
RulesStay ==
  [][/\ dir["rules"] # None => dir'["rules"] # None \/ PowerFailure
     /\ hist[1]["rules"] # None => \A k \in 1 .. Len(hist') : hist'[k]["rules"] # None
    ]_vars

=============================================================================
