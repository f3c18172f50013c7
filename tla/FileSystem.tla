----------------------------- MODULE FileSystem -----------------------------
(***************************************************************************)
(* The file system calls netmgr saves its files with, and what is left of  *)
(* them after a power failure.  This is the kernel, not code of the        *)
(* repository: the model promises no more than POSIX and a journal do.     *)
(*                                                                         *)
(* A directory maps names to inodes, an inode holds a sequence of records. *)
(* Changes of the directory reach the disk later but in order, so a power  *)
(* failure leaves one of the directories in hist.  The data of an inode    *)
(* reaches the disk in no order with the directory: a power failure leaves *)
(* any contents the inode had since it was last synced, disk[i].  Death of *)
(* the process alone loses nothing that was written.                       *)
(***************************************************************************)
EXTENDS Naturals, Sequences

CONSTANTS
  Names,         \* the names in the directory
  Inodes,        \* inode numbers
  None,          \* what a name that does not exist refers to
  PowerFails,    \* the power may fail
  DiskFills      \* a write that makes a file longer may fail, and so may
                 \* unlink, link and rename

ASSUME FileSystemAssumption ==
  /\ None \notin Inodes
  /\ PowerFails \in BOOLEAN /\ DiskFills \in BOOLEAN

VARIABLES
  dir,           \* the directory as processes see it
  hist,          \* the directories a power failure may leave; the last is dir
  data,          \* the contents of an inode as processes see them
  disk           \* the contents of an inode a power failure may leave

fsVars == <<dir, hist, data, disk>>

Dir == [Names -> Inodes \cup {None}]

FileTypeOK(Data) ==
  /\ dir \in Dir
  /\ hist \in Seq(Dir) /\ hist # <<>> /\ hist[Len(hist)] = dir
  /\ data \in [Inodes -> Data]
  /\ disk \in [Inodes -> SUBSET Data]
  /\ \A i \in Inodes : data[i] \in disk[i]

FileInit ==
  /\ dir  = [n \in Names |-> None]
  /\ hist = <<dir>>
  /\ data = [i \in Inodes |-> <<>>]
  /\ disk = [i \in Inodes |-> {<<>>}]

(* An inode may be reused once no directory that may come back names it.   *)
Unused(i) == \A k \in 1 .. Len(hist), n \in Names : hist[k][n] # i

SetDir(d) == dir' = d /\ hist' = Append(hist, d)

(* open( n, O_CREAT | O_TRUNC ), fopen( n, "w" )                            *)
Creat(n) ==
  \/ /\ dir[n] # None
     /\ data' = [data EXCEPT ![dir[n]] = <<>>]
     /\ disk' = [disk EXCEPT ![dir[n]] = @ \cup {<<>>}]
     /\ UNCHANGED <<dir, hist>>
  \/ /\ dir[n] = None
     /\ \E i \in Inodes :
          /\ Unused(i)
          /\ SetDir([dir EXCEPT ![n] = i])
          /\ data' = [data EXCEPT ![i] = <<>>]
          /\ disk' = [disk EXCEPT ![i] = {<<>>}]

(* write: the file named n holds c afterwards                              *)
Store(n, c) ==
  /\ data' = [data EXCEPT ![dir[n]] = c]
  /\ disk' = [disk EXCEPT ![dir[n]] = @ \cup {c}]
  /\ UNCHANGED <<dir, hist>>

(* fsync, fdatasync                                                        *)
SyncData(n) ==
  /\ disk' = [disk EXCEPT ![dir[n]] = {data[dir[n]]}]
  /\ UNCHANGED <<dir, hist, data>>

UnlinkName(n) == SetDir([dir EXCEPT ![n] = None]) /\ UNCHANGED <<data, disk>>

RenameFile(n, m) ==
  SetDir([dir EXCEPT ![m] = dir[n], ![n] = None]) /\ UNCHANGED <<data, disk>>

(* The journal reaches the disk up to the k-th directory.                  *)
Commit ==
  /\ \E k \in 2 .. Len(hist) : hist' = SubSeq(hist, k, Len(hist))
  /\ UNCHANGED <<dir, data, disk>>

(* The power fails and the machine starts again.                           *)
Reboot ==
  /\ PowerFails
  /\ \E k \in 1 .. Len(hist) : dir' = hist[k]
  /\ hist' = <<dir'>>
  /\ data' \in {f \in [Inodes -> UNION {disk[i] : i \in Inodes}] :
                  \A i \in Inodes : f[i] \in disk[i]}
  /\ disk' = [i \in Inodes |-> {data'[i]}]

=============================================================================
