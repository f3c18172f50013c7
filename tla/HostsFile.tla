----------------------------- MODULE HostsFile -----------------------------
(***************************************************************************)
(* Network::Monitor::update_hosts and mkfile (NetworkMonitor.cc): the      *)
(* table "hosts" with the addresses of this node and its partner is        *)
(* written to "hosts.tmp", the old table becomes "hosts.1" and the new one *)
(* takes its name.  Every system call is a step; the process may die and   *)
(* the power may fail between any two.                                     *)
(*                                                                         *)
(* A record of a table is the number of the save that wrote it, or 0 for   *)
(* the zeros mkfile reserves its space with.  Which interfaces and         *)
(* neighbours have a record is left open: a save writes any number.        *)
(***************************************************************************)
EXTENDS FileSystem

CONSTANTS
  TableEntries,  \* HOST_TABLE_ENTRIES (256 in the code)
  MaxEntries,    \* bound: records of one save
  MaxSaves       \* bound: calls of update_hosts

ASSUME HostsFileAssumption ==
  /\ TableEntries \in Nat \ {0} /\ MaxEntries \in Nat /\ MaxSaves \in Nat
  /\ Names = {"hosts.tmp", "hosts", "hosts.1"}

VARIABLES
  pc,            \* where update_hosts is
  save,          \* the number of the last call of update_hosts
  off,           \* the file offset of fd, in records
  count,         \* history: the records save v had to write
  refused        \* history: the system refused this save its unlink or link

vars == <<fsVars, pc, save, off, count, refused>>

Saves == 1 .. MaxSaves
Zeros(n) == [k \in 1 .. n |-> 0]

Init ==
  /\ FileInit
  /\ pc = "idle" /\ save = 0 /\ off = 0
  /\ count = [v \in Saves |-> 0]
  /\ refused = FALSE

(* mkfile opens hosts.tmp.  When that fails update_hosts returns and       *)
(* nothing has changed.                                                    *)
MkOpen ==
  /\ pc = "idle" /\ save < MaxSaves
  /\ Creat("hosts.tmp")
  /\ save' = save + 1 /\ pc' = "fill" /\ refused' = FALSE
  /\ UNCHANGED <<off, count>>

(* mkfile writes the zeros; a short write makes update_hosts return.       *)
MkWrite ==
  /\ pc = "fill"
  /\ \/ Store("hosts.tmp", Zeros(TableEntries)) /\ pc' = "open"
     \/ /\ DiskFills
        /\ \E k \in 0 .. TableEntries - 1 : Store("hosts.tmp", Zeros(k))
        /\ pc' = "idle"
  /\ UNCHANGED <<save, off, count, refused>>

Open ==
  /\ pc = "open"
  /\ pc' \in {"write", "idle"}
  /\ off' = 0
  /\ UNCHANGED <<fsVars, save, count, refused>>

(* One record of WriteHostsForInterface or WriteHostsForNeighbors.  A      *)
(* record inside the table has its space; one past the end may not.  The   *)
(* failed write is logged and the save goes on.                            *)
PutAppend(c, k) == Append(c, save)
Put(c, k) == [j \in 1 .. (IF k > Len(c) THEN k ELSE Len(c)) |->
                IF j = k THEN save ELSE c[j]]

WriteEntry ==
  /\ pc = "write" /\ count[save] < MaxEntries
  /\ LET c == data[dir["hosts.tmp"]] IN
     \/ Store("hosts.tmp", Put(c, off + 1)) /\ off' = off + 1
     \/ DiskFills /\ off >= Len(c) /\ UNCHANGED <<fsVars, off>>
  /\ count' = [count EXCEPT ![save] = @ + 1]
  /\ UNCHANGED <<pc, save, refused>>

FsyncForgotten ==
  /\ pc = "write" /\ pc' = "unlink"
  /\ UNCHANGED <<fsVars, save, off, count, refused>>
Fsync ==
  /\ pc = "write" /\ pc' = "unlink"
  /\ SyncData("hosts.tmp")
  /\ UNCHANGED <<save, off, count, refused>>

(* A refusal nobody looks at; the save goes on.                            *)
Refused == DiskFills /\ refused' = TRUE /\ UNCHANGED fsVars

UnlinkForgotten ==
  /\ pc = "unlink" /\ pc' = "link"
  /\ UNCHANGED <<fsVars, save, off, count, refused>>
Unlink ==
  /\ pc = "unlink" /\ pc' = "link"
  /\ \/ /\ IF dir["hosts.1"] # None THEN UnlinkName("hosts.1") ELSE UNCHANGED fsVars
        /\ UNCHANGED refused
     \/ Refused
  /\ UNCHANGED <<save, off, count>>

(* link fails when there is no hosts, when hosts.1 is still there, or for  *)
(* want of space; the failure is logged and the save goes on.              *)
LinkByRename ==
  /\ pc = "link" /\ pc' = "rename"
  /\ IF dir["hosts"] # None THEN RenameFile("hosts", "hosts.1") ELSE UNCHANGED fsVars
  /\ UNCHANGED <<save, off, count, refused>>
Link ==
  /\ pc = "link" /\ pc' = "rename"
  /\ \/ /\ IF dir["hosts"] # None /\ dir["hosts.1"] = None
             THEN SetDir([dir EXCEPT !["hosts.1"] = dir["hosts"]]) /\ UNCHANGED <<data, disk>>
             ELSE UNCHANGED fsVars
        /\ UNCHANGED refused
     \/ Refused
  /\ UNCHANGED <<save, off, count>>

(* A rename that fails leaves hosts.tmp for the next save to overwrite.    *)
Rename ==
  /\ pc = "rename" /\ pc' = "idle"
  /\ \/ RenameFile("hosts.tmp", "hosts")
     \/ DiskFills /\ UNCHANGED fsVars
  /\ UNCHANGED <<save, off, count, refused>>

(* netmgr dies and is started again.                                       *)
Crash == pc # "idle" /\ pc' = "idle" /\ UNCHANGED <<fsVars, save, off, count, refused>>

PowerFailure == Reboot /\ pc' = "idle" /\ UNCHANGED <<save, off, count, refused>>

Journal == Commit /\ UNCHANGED <<pc, save, off, count, refused>>

Next ==
  \/ MkOpen \/ MkWrite \/ Open \/ WriteEntry \/ Fsync
  \/ Unlink \/ Link \/ Rename
  \/ Crash \/ PowerFailure \/ Journal

Spec == Init /\ [][Next]_vars

-----------------------------------------------------------------------------
Longest == IF MaxEntries > TableEntries THEN MaxEntries ELSE TableEntries
Table == {c \in Seq(0 .. MaxSaves) : Len(c) <= Longest}

(* No table grows past the larger of HOST_TABLE_ENTRIES and the records    *)
(* one save writes; directory and data stay well formed.                   *)
TypeOK ==
  /\ FileTypeOK(Table)
  /\ pc \in {"idle", "fill", "open", "write", "unlink", "link", "rename"}
  /\ save \in 0 .. MaxSaves
  /\ off \in 0 .. MaxEntries
  /\ count \in [Saves -> 0 .. MaxEntries]
  /\ refused \in BOOLEAN

(* Table c is what save v wrote: the first HOST_TABLE_ENTRIES records are  *)
(* there, its own first, and the rest of them zeros.                       *)
IsTable(c, v) ==
  /\ Len(c) >= TableEntries
  /\ \A k \in 1 .. TableEntries : c[k] = IF k <= count[v] THEN v ELSE 0

(* update_hosts: whenever netmgr dies, the power fails or the disk is      *)
(* full, "hosts" and "hosts.1" each hold, if they exist, the table of one  *)
(* save, with none of its records missing and none of another save.        *)
HostsWhole ==
  \A n \in {"hosts", "hosts.1"} :
    dir[n] # None => \E v \in 1 .. save : IsTable(data[dir[n]], v)

(* update_hosts: only a power failure takes "hosts" away again, and not    *)
(* even a power failure once a directory with "hosts" has reached the      *)
(* disk.  Saves, their failures and the death of netmgr never do.          *)
HostsStay ==
  [][/\ dir["hosts"] # None => dir'["hosts"] # None \/ PowerFailure
     /\ hist[1]["hosts"] # None => \A k \in 1 .. Len(hist') : hist'[k]["hosts"] # None
    ]_vars

(* update_hosts: the table a save replaces is kept as "hosts.1".  It is    *)
(* lost only when the system refused this save its unlink or its link      *)
(* (which update_hosts logs, and renames all the same), or when a power    *)
(* failure brings an earlier directory back.                               *)
BackupKept ==
  [][\/ dir["hosts"] \in {None, dir'["hosts"]}
     \/ dir'["hosts.1"] = dir["hosts"]
     \/ refused
     \/ PowerFailure]_vars

=============================================================================
