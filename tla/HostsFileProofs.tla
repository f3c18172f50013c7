-------------------------- MODULE HostsFileProofs --------------------------
(***************************************************************************)
(* update_hosts keeps "hosts" and "hosts.1" whole, loses "hosts" only to a *)
(* power failure before it reached the disk and keeps a backup unless the  *)
(* system refuses it one, for any size of the table, any number of records *)
(* and saves, any deaths of netmgr and any power failures.                 *)
(*                                                                         *)
(* HostsWhole alone is not inductive.  IInv adds that every directory a    *)
(* power failure may bring back names only synced tables of finished saves *)
(* (Settled), that hosts.tmp never shares an inode with one of them        *)
(* (Apart), and what hosts.tmp holds at each step of a save (Ready).       *)
(***************************************************************************)
EXTENDS HostsFile, TLAPS, SequenceTheorems

Kept == {"hosts", "hosts.1"}
Dirs == {hist[k] : k \in 1 .. Len(hist)}
Tmp  == dir["hosts.tmp"]

Writing == pc \in {"fill", "open", "write"}
Done == IF Writing THEN 1 .. save - 1 ELSE 1 .. save

Control ==
  /\ pc \in {"idle", "fill", "open", "write", "unlink", "link", "rename"}
  /\ save \in 0 .. MaxSaves
  /\ off \in 0 .. MaxEntries
  /\ count \in [Saves -> 0 .. MaxEntries]
  /\ refused \in BOOLEAN
  /\ \A v \in Saves : v > save => count[v] = 0
  /\ pc # "idle" => save >= 1 /\ Tmp # None
  /\ pc \in {"fill", "open"} => count[save] = 0
  /\ pc = "write" => off <= count[save] /\ (off < TableEntries => off = count[save])
  /\ pc = "link" /\ ~refused => dir["hosts.1"] = None
  /\ pc = "rename" /\ ~refused => dir["hosts"] \in {None, dir["hosts.1"]}

Apart ==
  /\ \A d \in Dirs, n \in Kept : d["hosts.tmp"] # None => d[n] # d["hosts.tmp"]
  /\ \A d \in Dirs, n \in Kept : Tmp # None => d[n] # Tmp

Settled ==
  \A d \in Dirs, n \in Kept : d[n] # None =>
    disk[d[n]] = {data[d[n]]} /\ \E v \in Done : IsTable(data[d[n]], v)

Ready ==
  /\ pc = "open" => data[Tmp] = Zeros(TableEntries)
  /\ pc = "write" => IsTable(data[Tmp], save) /\ off <= Len(data[Tmp])
  /\ pc \in {"unlink", "link", "rename"} =>
       disk[Tmp] = {data[Tmp]} /\ IsTable(data[Tmp], save)

IInv == FileTypeOK(Table) /\ Control /\ Apart /\ Settled /\ Ready

-----------------------------------------------------------------------------
(* The directory as processes see it is one a power failure may leave, and *)
(* every one of those maps the names to inodes.                            *)
LEMMA DirsType ==
  ASSUME FileTypeOK(Table)
  PROVE  /\ dir \in Dirs /\ Dirs \subseteq Dir
         /\ \A n \in Names : dir[n] \in Inodes \cup {None}
BY DEF FileTypeOK, Dirs, Dir

(* What a change of the directory does to the directories that may come    *)
(* back.                                                                   *)
LEMMA SetDirStep ==
  ASSUME FileTypeOK(Table), NEW d \in Dir, SetDir(d)
  PROVE  /\ dir' = d /\ dir' \in Dir
         /\ hist' \in Seq(Dir) /\ hist' # <<>> /\ hist'[Len(hist')] = dir'
         /\ Dirs' = Dirs \cup {d}
<1>1. hist \in Seq(Dir) /\ Len(hist) \in Nat
  BY DEF FileTypeOK
<1>2. hist' = Append(hist, d) /\ dir' = d
  BY DEF SetDir
<1>3. /\ hist' \in Seq(Dir) /\ Len(hist') = Len(hist) + 1
      /\ \A k \in 1 .. Len(hist) : hist'[k] = hist[k]
      /\ hist'[Len(hist) + 1] = d
  BY <1>1, <1>2, AppendProperties
<1>4. hist' # <<>>
  BY <1>1, <1>3
<1>5. Dirs' = Dirs \cup {d}
  <2>1. ASSUME NEW x \in Dirs' PROVE x \in Dirs \cup {d}
    BY <1>1, <1>3, <2>1 DEF Dirs
  <2>2. ASSUME NEW x \in Dirs \cup {d} PROVE x \in Dirs'
    BY <1>1, <1>3, <2>2 DEF Dirs
  <2> QED BY <2>1, <2>2
<1> QED BY <1>1, <1>2, <1>3, <1>4, <1>5

(* The journal only takes directories away.                                *)
LEMMA CommitStep ==
  ASSUME FileTypeOK(Table), Commit
  PROVE  FileTypeOK(Table)' /\ Dirs' \subseteq Dirs /\ UNCHANGED <<dir, data, disk>>
<1>1. hist \in Seq(Dir) /\ Len(hist) \in Nat
  BY DEF FileTypeOK
<1>2. PICK k \in 2 .. Len(hist) : hist' = SubSeq(hist, k, Len(hist))
  BY DEF Commit
<1>3. /\ hist' \in Seq(Dir) /\ Len(hist') = Len(hist) - k + 1
      /\ \A j \in 1 .. Len(hist') : hist'[j] = hist[k + j - 1]
  BY <1>1, <1>2
<1>4. hist' # <<>> /\ hist'[Len(hist')] = dir
  <2>1. Len(hist') \in 1 .. Len(hist') /\ k + Len(hist') - 1 = Len(hist)
    BY <1>1, <1>3
  <2>2. hist'[Len(hist')] = hist[Len(hist)]
    BY <1>3, <2>1
  <2>3. hist' # <<>>
    BY <1>3, <2>1
  <2> QED BY <2>2, <2>3 DEF FileTypeOK
<1>5. Dirs' \subseteq Dirs
  <2> SUFFICES ASSUME NEW j \in 1 .. Len(hist') PROVE hist'[j] \in Dirs
    BY DEF Dirs
  <2>1. k + j - 1 \in 1 .. Len(hist)
    BY <1>1, <1>3
  <2> QED BY <1>3, <2>1 DEF Dirs
<1> QED BY <1>3, <1>4, <1>5 DEF Commit, FileTypeOK

(* A power failure brings back one of the directories, and for every inode *)
(* one of the contents, that may have reached the disk.                    *)
LEMMA RebootStep ==
  ASSUME FileTypeOK(Table), Reboot
  PROVE  /\ FileTypeOK(Table)' /\ dir' \in Dirs /\ Dirs' = {dir'}
         /\ \A i \in Inodes : data'[i] \in disk[i] /\ disk'[i] = {data'[i]}
<1>1. PICK k \in 1 .. Len(hist) : dir' = hist[k]
  BY DEF Reboot
<1>2. dir' \in Dirs /\ dir' \in Dir
  BY <1>1 DEF Dirs, FileTypeOK
<1>3. hist' = <<dir'>> /\ hist' \in Seq(Dir) /\ Len(hist') = 1 /\ hist'[1] = dir' /\ hist' # <<>>
  BY <1>2 DEF Reboot
<1>4. Dirs' = {dir'}
  BY <1>3 DEF Dirs
<1>5. \A i \in Inodes : data'[i] \in disk[i]
  BY DEF Reboot
<1>6. data' \in [Inodes -> Table]
  BY <1>5 DEF Reboot, FileTypeOK
<1>7. disk' = [i \in Inodes |-> {data'[i]}]
  BY DEF Reboot
<1> QED BY <1>2, <1>3, <1>4, <1>5, <1>6, <1>7 DEF FileTypeOK

(* Opening hosts.tmp touches no inode another name may refer to.           *)
LEMMA CreatStep ==
  ASSUME FileTypeOK(Table), Apart, Creat("hosts.tmp")
  PROVE  /\ FileTypeOK(Table)' /\ Dirs' \subseteq Dirs \cup {dir'}
         /\ Tmp' \in Inodes
         /\ \A n \in Kept : dir'[n] = dir[n]
         /\ \A d \in Dirs, n \in Kept : d[n] # Tmp'
         /\ \A i \in Inodes \ {Tmp'} : data'[i] = data[i] /\ disk'[i] = disk[i]
<1> USE HostsFileAssumption, FileSystemAssumption
<1>0. <<>> \in Table
  BY DEF Table, Longest
<1>1. CASE /\ Tmp # None
           /\ data' = [data EXCEPT ![Tmp] = <<>>]
           /\ disk' = [disk EXCEPT ![Tmp] = @ \cup {<<>>}]
           /\ UNCHANGED <<dir, hist>>
  <2>1. Tmp \in Inodes /\ Tmp' = Tmp /\ Dirs' = Dirs
    BY <1>1, DirsType DEF Tmp, Dirs
  <2>2. data' \in [Inodes -> Table] /\ disk' \in [Inodes -> SUBSET Table]
    BY <1>0, <1>1, <2>1 DEF FileTypeOK
  <2>3. \A i \in Inodes : data'[i] \in disk'[i]
    BY <1>1, <2>1 DEF FileTypeOK
  <2>4. FileTypeOK(Table)'
    BY <1>1, <2>2, <2>3 DEF FileTypeOK
  <2> QED BY <1>1, <2>1, <2>4 DEF Apart, FileTypeOK
<1>2. ASSUME Tmp = None, NEW i \in Inodes, Unused(i),
             SetDir([dir EXCEPT !["hosts.tmp"] = i]),
             data' = [data EXCEPT ![i] = <<>>],
             disk' = [disk EXCEPT ![i] = {<<>>}]
      PROVE  /\ FileTypeOK(Table)' /\ Dirs' \subseteq Dirs \cup {dir'}
             /\ Tmp' \in Inodes
             /\ \A n \in Kept : dir'[n] = dir[n]
             /\ \A d \in Dirs, n \in Kept : d[n] # Tmp'
             /\ \A j \in Inodes \ {Tmp'} : data'[j] = data[j] /\ disk'[j] = disk[j]
  <2> DEFINE d == [dir EXCEPT !["hosts.tmp"] = i]
  <2>1. d \in Dir /\ d["hosts.tmp"] = i /\ \A n \in Kept : d[n] = dir[n]
    BY DEF FileTypeOK, Dir, Kept
  <2>2. /\ dir' = d /\ dir' \in Dir
        /\ hist' \in Seq(Dir) /\ hist' # <<>> /\ hist'[Len(hist')] = dir'
        /\ Dirs' = Dirs \cup {d}
    BY <1>2, <2>1, SetDirStep
  <2>3. Tmp' = i
    BY <2>1, <2>2 DEF Tmp
  <2>4. \A e \in Dirs, n \in Kept : e[n] # i
    BY <1>2 DEF Unused, Dirs, Kept
  <2>5. data' \in [Inodes -> Table] /\ disk' \in [Inodes -> SUBSET Table]
    BY <1>0, <1>2 DEF FileTypeOK
  <2>6. \A j \in Inodes : data'[j] \in disk'[j]
    BY <1>2 DEF FileTypeOK
  <2>7. \A j \in Inodes \ {i} : data'[j] = data[j] /\ disk'[j] = disk[j]
    BY <1>2 DEF FileTypeOK
  <2> QED BY <2>1, <2>2, <2>3, <2>4, <2>5, <2>6, <2>7 DEF FileTypeOK
<1> QED BY <1>1, <1>2 DEF Creat, Tmp

(* A write to hosts.tmp changes no other file.                             *)
LEMMA StoreStep ==
  ASSUME FileTypeOK(Table), Tmp # None, NEW c \in Table, Store("hosts.tmp", c)
  PROVE  /\ FileTypeOK(Table)' /\ UNCHANGED <<dir, hist>> /\ Tmp \in Inodes
         /\ data'[Tmp] = c
         /\ \A i \in Inodes \ {Tmp} : data'[i] = data[i] /\ disk'[i] = disk[i]
<1> USE HostsFileAssumption, FileSystemAssumption
<1>1. Tmp \in Inodes
  BY DirsType DEF Tmp
<1>2. /\ data' = [data EXCEPT ![Tmp] = c]
      /\ disk' = [disk EXCEPT ![Tmp] = @ \cup {c}]
      /\ UNCHANGED <<dir, hist>>
  BY DEF Store, Tmp
<1>3. data' \in [Inodes -> Table] /\ disk' \in [Inodes -> SUBSET Table]
  BY <1>1, <1>2 DEF FileTypeOK
<1>4. \A i \in Inodes : data'[i] \in disk'[i]
  BY <1>1, <1>2 DEF FileTypeOK
<1> QED BY <1>1, <1>2, <1>3, <1>4 DEF FileTypeOK

(* Settled holds on while the kept names refer to inodes they referred to  *)
(* in some directory before, and these inodes stay as they are.            *)
LEMMA SettledStep ==
  ASSUME Settled,
         \A d \in Dirs', n \in Kept : d[n] = None \/ \E e \in Dirs, m \in Kept : d[n] = e[m],
         \A d \in Dirs, n \in Kept : d[n] # None =>
            data'[d[n]] = data[d[n]] /\ disk'[d[n]] = disk[d[n]],
         Done \subseteq Done', \A v \in Done : count'[v] = count[v]
  PROVE  Settled'
<1> SUFFICES ASSUME NEW d \in Dirs', NEW n \in Kept, d[n] # None
             PROVE  /\ disk'[d[n]] = {data'[d[n]]}
                    /\ \E v \in Done' : IsTable(data[d[n]], v)'
  BY DEF Settled
<1>1. PICK e \in Dirs, m \in Kept : d[n] = e[m]
  OBVIOUS
<1>2. disk[e[m]] = {data[e[m]]} /\ \E v \in Done : IsTable(data[e[m]], v)
  BY <1>1 DEF Settled
<1>3. PICK v \in Done : IsTable(data[e[m]], v)
  BY <1>2
<1>4. data'[d[n]] = data[e[m]] /\ disk'[d[n]] = disk[e[m]]
  BY <1>1
<1>5. IsTable(data[d[n]], v)'
  BY <1>3, <1>4 DEF IsTable
<1> QED BY <1>2, <1>3, <1>4, <1>5

(* The parts that do not change when neither files nor directory do.       *)
LEMMA FilesSame ==
  ASSUME IInv, UNCHANGED fsVars,
         Done \subseteq Done', \A v \in Done : count'[v] = count[v]
  PROVE  FileTypeOK(Table)' /\ Apart' /\ Settled' /\ Tmp' = Tmp
<1>1. UNCHANGED <<dir, hist, data, disk>> /\ Dirs' = Dirs /\ Tmp' = Tmp
  BY DEF fsVars, Dirs, Tmp
<1>2. FileTypeOK(Table)'
  BY <1>1 DEF IInv, FileTypeOK
<1>3. Apart'
  BY <1>1 DEF IInv, Apart
<1>4. Settled'
  BY <1>1, SettledStep DEF IInv
<1> QED BY <1>1, <1>2, <1>3, <1>4

-----------------------------------------------------------------------------
(* IInv holds when netmgr starts for the first time.                       *)
LEMMA InitInv == ASSUME Init PROVE IInv
<1> USE HostsFileAssumption, FileSystemAssumption
<1>0. <<>> \in Table
  BY DEF Table, Longest
<1>1. dir \in Dir /\ hist = <<dir>> /\ hist \in Seq(Dir) /\ Len(hist) = 1 /\ hist[1] = dir /\ hist # <<>>
  BY DEF Init, FileInit, Dir
<1>2. FileTypeOK(Table)
  BY <1>0, <1>1 DEF Init, FileInit, FileTypeOK
<1>3. Dirs = {dir} /\ \A n \in Names : dir[n] = None
  BY <1>1 DEF Dirs, Init, FileInit
<1>a. refused \in BOOLEAN
  BY DEF Init
<1>b. pc = "idle" /\ save = 0 /\ off = 0 /\ count = [v \in Saves |-> 0]
  BY DEF Init
<1>4. Control
  BY <1>a, <1>b DEF Control, Saves
<1>5. Apart /\ Settled
  BY <1>3 DEF Apart, Settled, Tmp, Kept
<1>6. Ready
  BY DEF Ready, Init
<1> QED BY <1>2, <1>4, <1>5, <1>6 DEF IInv

(* MkOpen takes a new number, which no settled table has.                  *)
LEMMA MkOpenInv == ASSUME IInv, MkOpen PROVE IInv'
<1> USE HostsFileAssumption, FileSystemAssumption
<1>1. /\ FileTypeOK(Table)' /\ Dirs' \subseteq Dirs \cup {dir'}
      /\ Tmp' \in Inodes
      /\ \A n \in Kept : dir'[n] = dir[n]
      /\ \A d \in Dirs, n \in Kept : d[n] # Tmp'
      /\ \A i \in Inodes \ {Tmp'} : data'[i] = data[i] /\ disk'[i] = disk[i]
  BY CreatStep DEF MkOpen, IInv
<1>2. dir \in Dirs /\ \A d \in Dirs, n \in Kept : d[n] \in Inodes \cup {None}
  BY DirsType DEF IInv, Kept, Dir
<1>a. refused' \in BOOLEAN
  BY DEF MkOpen
<1>b. pc' = "fill" /\ save' = save + 1 /\ save < MaxSaves /\ UNCHANGED <<off, count>>
  BY DEF MkOpen
<1>3. Control'
  BY <1>1, <1>a, <1>b DEF IInv, Control, Saves
<1>4. \A n \in Kept : dir'[n] # Tmp'
  BY <1>1, <1>2
<1>5. Apart'
  BY <1>1, <1>4 DEF IInv, Apart, Tmp
<1>6. Done' = Done
  BY DEF MkOpen, IInv, Control, Done, Writing
<1>7. Settled'
  <2>1. \A d \in Dirs', n \in Kept : d[n] = None \/ \E e \in Dirs, m \in Kept : d[n] = e[m]
    BY <1>1, <1>2
  <2>2. \A d \in Dirs, n \in Kept : d[n] # None =>
            data'[d[n]] = data[d[n]] /\ disk'[d[n]] = disk[d[n]]
    BY <1>1, <1>2
  <2> QED BY <1>6, <2>1, <2>2, SettledStep DEF MkOpen, IInv
<1>8. Ready'
  BY DEF MkOpen, Ready
<1> QED BY <1>1, <1>3, <1>5, <1>7, <1>8 DEF IInv

(* A step that stores c in hosts.tmp keeps everything but Control and      *)
(* Ready, which each such step settles for itself.                         *)
LEMMA StoreInv ==
  ASSUME IInv, Tmp # None, NEW c \in Table, Store("hosts.tmp", c),
         Done \subseteq Done', \A v \in Done : count'[v] = count[v]
  PROVE  /\ FileTypeOK(Table)' /\ Apart' /\ Settled'
         /\ UNCHANGED <<dir, hist>> /\ Tmp' = Tmp /\ data'[Tmp] = c
<1>1. /\ FileTypeOK(Table)' /\ UNCHANGED <<dir, hist>> /\ Tmp \in Inodes
      /\ data'[Tmp] = c
      /\ \A i \in Inodes \ {Tmp} : data'[i] = data[i] /\ disk'[i] = disk[i]
  BY StoreStep DEF IInv
<1>2. Dirs' = Dirs /\ Tmp' = Tmp
  BY <1>1 DEF Dirs, Tmp
<1>3. Apart'
  BY <1>1, <1>2 DEF IInv, Apart
<1>4. \A d \in Dirs, n \in Kept : d[n] \in Inodes \cup {None} /\ d[n] # Tmp
  BY DirsType, HostsFileAssumption DEF IInv, Kept, Dir, Apart
<1>5. Settled'
  <2>1. \A d \in Dirs', n \in Kept : d[n] = None \/ \E e \in Dirs, m \in Kept : d[n] = e[m]
    BY <1>2
  <2>2. \A d \in Dirs, n \in Kept : d[n] # None =>
            data'[d[n]] = data[d[n]] /\ disk'[d[n]] = disk[d[n]]
    BY <1>1, <1>4
  <2> QED BY <2>1, <2>2, SettledStep DEF IInv
<1> QED BY <1>1, <1>2, <1>3, <1>5

(* A table of zeros is as long as it says.                                 *)
LEMMA ZerosTable ==
  ASSUME NEW n \in 0 .. TableEntries
  PROVE  /\ Zeros(n) \in Table /\ Len(Zeros(n)) = n
         /\ \A k \in 1 .. n : Zeros(n)[k] = 0
<1> USE HostsFileAssumption
<1>1. Zeros(n) \in Seq(0 .. MaxSaves) /\ Len(Zeros(n)) = n /\ \A k \in 1 .. n : Zeros(n)[k] = 0
  BY DEF Zeros
<1> QED BY <1>1 DEF Table, Longest

(* The zeros go to hosts.tmp only, whether the write is whole or short.    *)
LEMMA MkWriteInv == ASSUME IInv, MkWrite PROVE IInv'
<1> USE HostsFileAssumption, FileSystemAssumption
<1>1. Tmp # None /\ UNCHANGED <<save, off, count, refused>>
  BY DEF MkWrite, IInv, Control
<1>2. CASE Store("hosts.tmp", Zeros(TableEntries)) /\ pc' = "open"
  <2>1. Done' = Done
    BY <1>1, <1>2 DEF MkWrite, Done, Writing
  <2>2. Zeros(TableEntries) \in Table
    BY ZerosTable
  <2>3. /\ FileTypeOK(Table)' /\ Apart' /\ Settled'
        /\ UNCHANGED <<dir, hist>> /\ Tmp' = Tmp /\ data'[Tmp] = Zeros(TableEntries)
    BY <1>1, <1>2, <2>1, <2>2, StoreInv
  <2>4. Control'
    BY <1>1, <1>2, <2>3 DEF MkWrite, IInv, Control
  <2>5. Ready'
    BY <1>2, <2>3 DEF Ready
  <2> QED BY <2>3, <2>4, <2>5 DEF IInv
<1>3. ASSUME NEW k \in 0 .. TableEntries - 1, Store("hosts.tmp", Zeros(k)), pc' = "idle"
      PROVE  IInv'
  <2>1. Done \subseteq Done'
    BY <1>1, <1>3 DEF MkWrite, Done, Writing, IInv, Control
  <2>2. Zeros(k) \in Table
    BY ZerosTable
  <2>3. /\ FileTypeOK(Table)' /\ Apart' /\ Settled'
        /\ UNCHANGED <<dir, hist>> /\ Tmp' = Tmp
    BY <1>1, <1>3, <2>1, <2>2, StoreInv
  <2>4. Control'
    BY <1>1, <1>3, <2>3 DEF MkWrite, IInv, Control
  <2>5. Ready'
    BY <1>3 DEF Ready
  <2> QED BY <2>3, <2>4, <2>5 DEF IInv
<1> QED BY <1>2, <1>3 DEF MkWrite

(* The reserved table is the table of a save that wrote no record yet.     *)
LEMMA OpenInv == ASSUME IInv, Open PROVE IInv'
<1> USE HostsFileAssumption, FileSystemAssumption
<1>1. UNCHANGED <<fsVars, save, count, refused>> /\ pc = "open" /\ pc' \in {"write", "idle"} /\ off' = 0
  BY DEF Open
<1>2. Done \subseteq Done'
  BY <1>1 DEF Done, Writing, IInv, Control
<1>3. FileTypeOK(Table)' /\ Apart' /\ Settled' /\ Tmp' = Tmp
  BY <1>1, <1>2, FilesSame
<1>4. UNCHANGED <<dir, data>>
  BY <1>1 DEF fsVars
<1>5. Control'
  BY <1>1, <1>3, <1>4 DEF IInv, Control
<1>6. Ready'
  <2>1. IsTable(Zeros(TableEntries), save)
    BY ZerosTable, <1>1 DEF IsTable, IInv, Control
  <2>2. data[Tmp] = Zeros(TableEntries)
    BY <1>1 DEF IInv, Ready
  <2>3. IsTable(data[Tmp], save)'
    BY <1>1, <1>3, <1>4, <2>1, <2>2 DEF IsTable
  <2>4. (off <= Len(data[Tmp]))'
    BY <1>1, <1>3, <1>4, <2>2, ZerosTable
  <2> QED BY <1>1, <2>3, <2>4 DEF Ready
<1> QED BY <1>3, <1>5, <1>6 DEF IInv

(* The table with one more record is a table.                              *)
LEMMA PutTable ==
  ASSUME NEW c \in Table, NEW k \in 1 .. MaxEntries, k <= Len(c) + 1, save \in 0 .. MaxSaves
  PROVE  /\ Put(c, k) \in Table /\ Len(Put(c, k)) >= Len(c) /\ Len(Put(c, k)) >= k
         /\ \A j \in 1 .. Len(c) : Put(c, k)[j] = IF j = k THEN save ELSE c[j]
         /\ Put(c, k)[k] = save
<1> USE HostsFileAssumption
<1>1. c \in Seq(0 .. MaxSaves) /\ Len(c) \in Nat /\ Len(c) <= Longest
  BY DEF Table
<1> DEFINE n == IF k > Len(c) THEN k ELSE Len(c)
<1>2. n \in Nat /\ n <= Longest /\ n >= Len(c) /\ k \in 1 .. n
  BY <1>1 DEF Longest
<1>3. \A j \in 1 .. n : (IF j = k THEN save ELSE c[j]) \in 0 .. MaxSaves
  <2> SUFFICES ASSUME NEW j \in 1 .. n, j # k PROVE c[j] \in 0 .. MaxSaves
    OBVIOUS
  <2>1. j \in 1 .. Len(c)
    BY <1>1
  <2> QED BY <1>1, <2>1
<1>4. Put(c, k) = [j \in 1 .. n |-> IF j = k THEN save ELSE c[j]]
  BY DEF Put
<1> HIDE DEF n
<1>5. Put(c, k) \in Seq(0 .. MaxSaves) /\ Len(Put(c, k)) = n
  BY <1>2, <1>3, <1>4
<1> QED BY <1>1, <1>2, <1>4, <1>5 DEF Table

(* The next record lands where the offset says; only past the reserved     *)
(* space can it be lost.                                                   *)
LEMMA WriteEntryInv == ASSUME IInv, WriteEntry PROVE IInv'
<1> USE HostsFileAssumption, FileSystemAssumption
<1> DEFINE c == data[Tmp]
<1>1. /\ pc = "write" /\ pc' = "write" /\ save' = save /\ save \in Saves
      /\ count[save] < MaxEntries /\ count' = [count EXCEPT ![save] = @ + 1]
      /\ Tmp # None /\ refused' = refused
  BY DEF WriteEntry, IInv, Control, Saves
<1>2. count'[save] = count[save] + 1 /\ \A v \in Saves \ {save} : count'[v] = count[v]
  BY <1>1 DEF IInv, Control
<1>3. Done' = Done /\ \A v \in Done : v \in Saves /\ v # save
  BY <1>1 DEF Done, Writing, Saves
<1>4. \A v \in Done : count'[v] = count[v]
  BY <1>2, <1>3
<1>5. Tmp \in Inodes /\ c \in Table
  BY <1>1, DirsType DEF Tmp, IInv, FileTypeOK
<1>6. IsTable(c, save) /\ Len(c) \in Nat /\ off <= Len(c)
  BY <1>1, <1>5 DEF IInv, Ready, Table
<1>7. /\ off \in Nat /\ off <= count[save] /\ count[save] \in Nat
      /\ off < TableEntries => off = count[save]
  BY <1>1 DEF IInv, Control
<1>8. count' \in [Saves -> 0 .. MaxEntries] /\ \A v \in Saves : v > save => count'[v] = 0
  BY <1>1, <1>2 DEF IInv, Control, Saves
<1>9. CASE Store("hosts.tmp", Put(c, off + 1)) /\ off' = off + 1
  <2>1. off + 1 \in 1 .. MaxEntries
    BY <1>1, <1>7
  <2>2. /\ Put(c, off + 1) \in Table
        /\ Len(Put(c, off + 1)) >= Len(c) /\ Len(Put(c, off + 1)) >= off + 1
        /\ \A j \in 1 .. Len(c) : Put(c, off + 1)[j] = IF j = off + 1 THEN save ELSE c[j]
    BY <1>5, <1>6, <1>7, <2>1, PutTable DEF IInv, Control
  <2>3. /\ FileTypeOK(Table)' /\ Apart' /\ Settled'
        /\ UNCHANGED <<dir, hist>> /\ Tmp' = Tmp /\ data'[Tmp] = Put(c, off + 1)
    BY <1>1, <1>3, <1>4, <1>9, <2>2, StoreInv
  <2>4. Control'
    BY <1>1, <1>2, <1>7, <1>8, <1>9, <2>1, <2>3 DEF IInv, Control
  <2>5. IsTable(data[Tmp], save)'
    <3>1. Len(Put(c, off + 1)) >= TableEntries
      BY <1>6, <2>2 DEF IsTable
    <3>2. ASSUME NEW k \in 1 .. TableEntries
          PROVE  Put(c, off + 1)[k] = IF k <= count'[save] THEN save ELSE 0
      <4>1. k \in 1 .. Len(c) /\ c[k] = IF k <= count[save] THEN save ELSE 0
        BY <1>6 DEF IsTable
      <4>2. Put(c, off + 1)[k] = IF k = off + 1 THEN save ELSE c[k]
        BY <2>2, <4>1
      <4> QED BY <1>2, <1>7, <4>1, <4>2
    <3> QED BY <1>1, <2>3, <3>1, <3>2 DEF IsTable
  <2>6. Ready'
    BY <1>1, <1>9, <2>2, <2>3, <2>5 DEF Ready
  <2> QED BY <2>3, <2>4, <2>6 DEF IInv
<1>10. CASE DiskFills /\ off >= Len(c) /\ UNCHANGED <<fsVars, off>>
  <2>1. FileTypeOK(Table)' /\ Apart' /\ Settled' /\ Tmp' = Tmp
    BY <1>3, <1>4, <1>10, FilesSame
  <2>2. UNCHANGED <<dir, data>>
    BY <1>10 DEF fsVars
  <2>3. off >= TableEntries
    BY <1>6, <1>7, <1>10 DEF IsTable
  <2>4. Control'
    BY <1>1, <1>2, <1>7, <1>8, <1>10, <2>1, <2>2, <2>3 DEF IInv, Control
  <2>5. IsTable(data[Tmp], save)'
    BY <1>1, <1>2, <1>6, <1>7, <2>1, <2>2, <2>3 DEF IsTable
  <2>6. Ready'
    BY <1>1, <1>6, <1>10, <2>1, <2>2, <2>5 DEF Ready
  <2> QED BY <2>1, <2>4, <2>6 DEF IInv
<1> QED BY <1>9, <1>10 DEF WriteEntry, Tmp

(* After fsync a power failure leaves hosts.tmp as it is.                  *)
LEMMA FsyncInv == ASSUME IInv, Fsync PROVE IInv'
<1> USE HostsFileAssumption, FileSystemAssumption
<1>1. /\ pc = "write" /\ pc' = "unlink" /\ UNCHANGED <<save, off, count, refused, dir, hist, data>>
      /\ disk' = [disk EXCEPT ![Tmp] = {data[Tmp]}]
      /\ Tmp # None
  BY DEF Fsync, SyncData, Tmp, IInv, Control
<1>2. Dirs' = Dirs /\ Tmp' = Tmp /\ Tmp \in Inodes
  BY <1>1, DirsType DEF Dirs, Tmp, IInv
<1>3. disk'[Tmp] = {data[Tmp]} /\ \A i \in Inodes \ {Tmp} : disk'[i] = disk[i]
  BY <1>1, <1>2 DEF IInv, FileTypeOK
<1>4. FileTypeOK(Table)'
  <2>1. disk' \in [Inodes -> SUBSET Table]
    BY <1>1, <1>2 DEF IInv, FileTypeOK
  <2>2. \A i \in Inodes : data[i] \in disk'[i]
    BY <1>3 DEF IInv, FileTypeOK
  <2> QED BY <1>1, <2>1, <2>2 DEF IInv, FileTypeOK
<1>5. Apart'
  BY <1>1, <1>2 DEF IInv, Apart
<1>6. Settled'
  <2>1. \A d \in Dirs, n \in Kept : d[n] \in Inodes \cup {None} /\ d[n] # Tmp
    BY <1>1, DirsType DEF IInv, Kept, Dir, Apart
  <2>2. \A d \in Dirs, n \in Kept : d[n] # None =>
            data'[d[n]] = data[d[n]] /\ disk'[d[n]] = disk[d[n]]
    BY <1>1, <1>3, <2>1
  <2>3. Done \subseteq Done'
    BY <1>1 DEF Done, Writing, IInv, Control
  <2>4. \A d \in Dirs', n \in Kept : d[n] = None \/ \E e \in Dirs, m \in Kept : d[n] = e[m]
    BY <1>2
  <2> QED BY <1>1, <2>2, <2>3, <2>4, SettledStep DEF IInv
<1>7. Control'
  BY <1>1, <1>2 DEF IInv, Control
<1>8. Ready'
  <2>1. IsTable(data[Tmp], save)
    BY <1>1 DEF IInv, Ready
  <2>2. IsTable(data[Tmp], save)'
    BY <1>1, <1>2, <2>1 DEF IsTable
  <2> QED BY <1>1, <1>2, <1>3, <2>2 DEF Ready
<1> QED BY <1>4, <1>5, <1>6, <1>7, <1>8 DEF IInv

(* A new directory that keeps hosts.tmp and whose kept names are old ones. *)
LEMMA LinkStep ==
  ASSUME IInv, NEW d \in Dir, SetDir(d), UNCHANGED <<data, disk, save, count>>,
         d["hosts.tmp"] = Tmp,
         \A n \in Kept : d[n] = None \/ \E m \in Kept : d[n] = dir[m],
         ~Writing, ~Writing'
  PROVE  FileTypeOK(Table)' /\ Apart' /\ Settled' /\ Tmp' = Tmp /\ dir' = d
<1> USE HostsFileAssumption, FileSystemAssumption
<1>1. /\ dir' = d /\ dir' \in Dir
      /\ hist' \in Seq(Dir) /\ hist' # <<>> /\ hist'[Len(hist')] = dir'
      /\ Dirs' = Dirs \cup {d}
  BY SetDirStep DEF IInv
<1>2. FileTypeOK(Table)'
  BY <1>1 DEF IInv, FileTypeOK
<1>3. dir \in Dirs /\ Tmp' = Tmp
  BY <1>1, DirsType DEF IInv, Tmp
<1>4. \A n \in Kept : Tmp # None => d[n] # Tmp
  BY <1>3 DEF IInv, Apart
<1>5. Apart'
  BY <1>1, <1>3, <1>4 DEF IInv, Apart
<1>6. Done' = Done
  BY DEF Done
<1>7. \A e \in Dirs', n \in Kept : e[n] = None \/ \E f \in Dirs, m \in Kept : e[n] = f[m]
  BY <1>1, <1>3
<1>8. Settled'
  BY <1>6, <1>7, SettledStep DEF IInv
<1> QED BY <1>1, <1>2, <1>3, <1>5, <1>8

(* What hosts.tmp holds does not change after fsync.                       *)
LEMMA ReadyKept ==
  ASSUME Ready, pc \in {"unlink", "link"}, pc' \in {"link", "rename"},
         UNCHANGED <<data, disk, save, count>>, Tmp' = Tmp
  PROVE  Ready'
<1>1. disk[Tmp] = {data[Tmp]} /\ IsTable(data[Tmp], save)
  BY DEF Ready
<1>2. IsTable(data[Tmp], save)'
  BY <1>1 DEF IsTable
<1> QED BY <1>1, <1>2 DEF Ready

(* Dropping the old backup, unless that is refused, frees its name.        *)
LEMMA UnlinkInv == ASSUME IInv, Unlink PROVE IInv'
<1> USE HostsFileAssumption, FileSystemAssumption
<1>1. /\ pc = "unlink" /\ pc' = "link" /\ UNCHANGED <<save, off, count, data, disk>>
      /\ refused' \in BOOLEAN
  BY DEF Unlink, Refused, UnlinkName, fsVars, IInv, Control
<1>2. ~Writing /\ ~Writing' /\ Done' = Done
  BY <1>1 DEF Writing, Done
<1>3. /\ FileTypeOK(Table)' /\ Apart' /\ Settled' /\ Tmp' = Tmp
      /\ ~refused' => dir'["hosts.1"] = None
  <2>1. CASE UnlinkName("hosts.1")
    <3> DEFINE d == [dir EXCEPT !["hosts.1"] = None]
    <3>1. /\ d \in Dir /\ d["hosts.tmp"] = Tmp /\ d["hosts.1"] = None
          /\ d["hosts"] = dir["hosts"]
      BY DEF IInv, FileTypeOK, Dir, Tmp
    <3>2. SetDir(d)
      BY <2>1 DEF UnlinkName
    <3> HIDE DEF d
    <3>3. \A n \in Kept : d[n] = None \/ \E m \in Kept : d[n] = dir[m]
      BY <3>1 DEF Kept
    <3> QED BY <1>1, <1>2, <3>1, <3>2, <3>3, LinkStep
  <2>2. CASE UNCHANGED fsVars /\ (dir["hosts.1"] = None \/ refused')
    BY <1>1, <1>2, <2>2, FilesSame DEF fsVars
  <2> QED BY <2>1, <2>2 DEF Unlink, Refused
<1>4. Control'
  BY <1>1, <1>3 DEF IInv, Control
<1>5. Ready'
  BY <1>1, <1>3, ReadyKept DEF IInv
<1> QED BY <1>3, <1>4, <1>5 DEF IInv

(* link, unless it is refused, or its failure for want of a table leaves   *)
(* the backup in place.                                                    *)
LEMMA LinkInv == ASSUME IInv, Link PROVE IInv'
<1> USE HostsFileAssumption, FileSystemAssumption
<1>1. /\ pc = "link" /\ pc' = "rename" /\ UNCHANGED <<save, off, count, data, disk>>
      /\ refused' \in BOOLEAN
  BY DEF Link, Refused, fsVars, IInv, Control
<1>2. ~Writing /\ ~Writing' /\ Done' = Done
  BY <1>1 DEF Writing, Done
<1>3. /\ FileTypeOK(Table)' /\ Apart' /\ Settled' /\ Tmp' = Tmp
      /\ ~refused' => dir'["hosts"] \in {None, dir'["hosts.1"]}
  <2> DEFINE d == [dir EXCEPT !["hosts.1"] = dir["hosts"]]
  <2>1. CASE SetDir(d)
    <3>1. /\ d \in Dir /\ d["hosts.tmp"] = Tmp
          /\ d["hosts.1"] = dir["hosts"] /\ d["hosts"] = dir["hosts"]
      BY DEF IInv, FileTypeOK, Dir, Tmp
    <3> HIDE DEF d
    <3>3. \A n \in Kept : d[n] = None \/ \E m \in Kept : d[n] = dir[m]
      BY <3>1 DEF Kept
    <3> QED BY <1>1, <1>2, <2>1, <3>1, <3>3, LinkStep
  <2>2. CASE UNCHANGED fsVars /\ (dir["hosts"] = None \/ refused')
    BY <1>1, <1>2, <2>2, FilesSame DEF fsVars
  <2>a. dir["hosts.1"] = None \/ refused
    BY <1>1 DEF IInv, Control
  <2>3. SetDir(d) \/ (UNCHANGED fsVars /\ (dir["hosts"] = None \/ refused'))
    <3>1. CASE Refused
      BY <3>1 DEF Refused
    <3>2. CASE /\ UNCHANGED refused
               /\ SetDir(d) \/ (UNCHANGED fsVars /\ (dir["hosts"] = None \/ dir["hosts.1"] # None))
      <4>1. refused' = refused
        BY <3>2
      <4>2. CASE SetDir(d)
        BY <4>2
      <4>3. CASE UNCHANGED fsVars /\ dir["hosts"] = None
        BY <4>3
      <4>4. CASE UNCHANGED fsVars /\ dir["hosts.1"] # None
        <5>1. refused
          BY <2>a, <4>4
        <5>2. refused'
          BY <4>1, <5>1
        <5> QED BY <4>4, <5>2
      <4> QED BY <3>2, <4>2, <4>3, <4>4
    <3> QED BY <3>1, <3>2 DEF Link
  <2> QED BY <2>1, <2>2, <2>3
<1>4. Control'
  BY <1>1, <1>3 DEF IInv, Control
<1>5. Ready'
  BY <1>1, <1>3, ReadyKept DEF IInv
<1> QED BY <1>3, <1>4, <1>5 DEF IInv

(* The one step that gives a kept name a new inode: a synced, whole table. *)
LEMMA RenameInv ==
  ASSUME IInv, Rename, RenameFile("hosts.tmp", "hosts") PROVE IInv'
<1> USE HostsFileAssumption, FileSystemAssumption
<1> DEFINE d == [dir EXCEPT !["hosts"] = Tmp, !["hosts.tmp"] = None]
<1>1. /\ pc = "rename" /\ pc' = "idle" /\ UNCHANGED <<save, off, count, refused, data, disk>>
      /\ SetDir(d) /\ Tmp # None /\ save >= 1 /\ save \in Nat
  BY DEF Rename, RenameFile, IInv, Control, Tmp
<1>2. d \in Dir /\ d["hosts"] = Tmp /\ d["hosts.tmp"] = None /\ d["hosts.1"] = dir["hosts.1"]
  BY DEF IInv, FileTypeOK, Dir, Tmp
<1> HIDE DEF d
<1>3. /\ dir' = d /\ dir' \in Dir
      /\ hist' \in Seq(Dir) /\ hist' # <<>> /\ hist'[Len(hist')] = dir'
      /\ Dirs' = Dirs \cup {d}
  BY <1>1, <1>2, SetDirStep DEF IInv
<1>4. FileTypeOK(Table)'
  BY <1>1, <1>3 DEF IInv, FileTypeOK
<1>5. Tmp' = None
  BY <1>2, <1>3 DEF Tmp
<1>6. Apart'
  BY <1>2, <1>3, <1>5 DEF IInv, Apart
<1>7. disk[Tmp] = {data[Tmp]} /\ IsTable(data[Tmp], save)
  BY <1>1 DEF IInv, Ready
<1>8. Done' = Done /\ save \in Done
  BY <1>1 DEF Done, Writing
<1>9. dir \in Dirs
  BY DirsType DEF IInv
<1>10. Settled'
  <2> SUFFICES ASSUME NEW e \in Dirs', NEW n \in Kept, e[n] # None
               PROVE  /\ disk[e[n]] = {data[e[n]]}
                      /\ \E v \in Done : IsTable(data[e[n]], v)
    BY <1>1, <1>8 DEF Settled, IsTable
  <2>1. CASE e[n] = Tmp
    BY <1>7, <1>8, <2>1
  <2>2. CASE e[n] # Tmp
    <3>1. \E f \in Dirs : e[n] = f[n]
      BY <1>2, <1>3, <1>9, <2>2 DEF Kept
    <3> QED BY <3>1 DEF IInv, Settled
  <2> QED BY <2>1, <2>2
<1>11. Control'
  BY <1>1 DEF IInv, Control
<1>12. Ready'
  BY <1>1 DEF Ready
<1> QED BY <1>4, <1>6, <1>10, <1>11, <1>12 DEF IInv

(* Death of netmgr and a rename that fails leave the files as they are.    *)
LEMMA CrashInv ==
  ASSUME IInv, Crash \/ (Rename /\ UNCHANGED fsVars) PROVE IInv'
<1>1. pc' = "idle" /\ UNCHANGED <<fsVars, save, off, count, refused>>
  BY DEF Crash, Rename
<1>2. Done \subseteq Done'
  BY <1>1 DEF Done, Writing, IInv, Control
<1>3. FileTypeOK(Table)' /\ Apart' /\ Settled'
  BY <1>1, <1>2, FilesSame
<1>4. Control'
  BY <1>1 DEF IInv, Control
<1>5. Ready'
  BY <1>1 DEF Ready
<1> QED BY <1>3, <1>4, <1>5 DEF IInv

(* What comes back after a power failure is a directory of settled tables. *)
LEMMA PowerFailureInv == ASSUME IInv, PowerFailure PROVE IInv'
<1> USE HostsFileAssumption, FileSystemAssumption
<1>1. pc' = "idle" /\ UNCHANGED <<save, off, count, refused>> /\ Reboot
  BY DEF PowerFailure
<1>2. /\ FileTypeOK(Table)' /\ dir' \in Dirs /\ Dirs' = {dir'}
      /\ \A i \in Inodes : data'[i] \in disk[i] /\ disk'[i] = {data'[i]}
  BY <1>1, RebootStep DEF IInv
<1>3. Done \subseteq Done'
  BY <1>1 DEF Done, Writing, IInv, Control
<1>4. Apart'
  BY <1>2 DEF IInv, Apart, Tmp
<1>5. \A d \in Dirs, n \in Kept : d[n] \in Inodes \cup {None}
  BY DirsType DEF IInv, Kept, Dir
<1>6. \A d \in Dirs, n \in Kept : d[n] # None =>
         data'[d[n]] = data[d[n]] /\ disk'[d[n]] = disk[d[n]]
  <2> SUFFICES ASSUME NEW d \in Dirs, NEW n \in Kept, d[n] # None
               PROVE  data'[d[n]] = data[d[n]] /\ disk'[d[n]] = disk[d[n]]
    OBVIOUS
  <2>1. disk[d[n]] = {data[d[n]]}
    BY DEF IInv, Settled
  <2>2. data'[d[n]] \in disk[d[n]] /\ disk'[d[n]] = {data'[d[n]]}
    BY <1>2, <1>5
  <2> QED BY <2>1, <2>2
<1>7. \A d \in Dirs', n \in Kept : d[n] = None \/ \E e \in Dirs, m \in Kept : d[n] = e[m]
  BY <1>2
<1>8. Settled'
  BY <1>1, <1>3, <1>6, <1>7, SettledStep DEF IInv
<1>9. Control'
  BY <1>1 DEF IInv, Control
<1>10. Ready'
  BY <1>1 DEF Ready
<1> QED BY <1>2, <1>4, <1>8, <1>9, <1>10 DEF IInv

(* A directory that reaches the disk was settled before.                   *)
LEMMA JournalInv == ASSUME IInv, Journal PROVE IInv'
<1>1. UNCHANGED <<pc, save, off, count, refused>> /\ Commit
  BY DEF Journal
<1>2. FileTypeOK(Table)' /\ Dirs' \subseteq Dirs /\ UNCHANGED <<dir, data, disk>>
  BY <1>1, CommitStep DEF IInv
<1>3. Tmp' = Tmp /\ Done' = Done
  BY <1>1, <1>2 DEF Tmp, Done, Writing
<1>4. Apart'
  BY <1>2, <1>3 DEF IInv, Apart
<1>5. \A d \in Dirs', n \in Kept : d[n] = None \/ \E e \in Dirs, m \in Kept : d[n] = e[m]
  BY <1>2
<1>6. Settled'
  BY <1>1, <1>2, <1>3, <1>5, SettledStep DEF IInv
<1>7. Control'
  BY <1>1, <1>2, <1>3 DEF IInv, Control
<1>8. Ready'
  BY <1>1, <1>2, <1>3 DEF IInv, Ready, IsTable
<1> QED BY <1>2, <1>4, <1>6, <1>7, <1>8 DEF IInv

(* A step that changes nothing keeps IInv.                                 *)
LEMMA StutterInv == ASSUME IInv, UNCHANGED vars PROVE IInv'
<1>1. UNCHANGED <<fsVars, pc, save, off, count, refused>> /\ Done' = Done
  BY DEF vars, Done, Writing
<1>2. FileTypeOK(Table)' /\ Apart' /\ Settled' /\ Tmp' = Tmp
  BY <1>1, FilesSame
<1>3. Control'
  BY <1>1, <1>2 DEF fsVars, IInv, Control
<1>4. Ready'
  BY <1>1, <1>2 DEF fsVars, IInv, Ready, IsTable
<1> QED BY <1>2, <1>3, <1>4 DEF IInv

(* IInv is an invariant of every behaviour of update_hosts.                *)
THEOREM Invariance == Spec => []IInv
<1>1. Init => IInv
  BY InitInv
<1>2. ASSUME IInv, Rename PROVE IInv'
  <2>1. RenameFile("hosts.tmp", "hosts") \/ UNCHANGED fsVars
    BY <1>2 DEF Rename
  <2> QED BY <1>2, <2>1, RenameInv, CrashInv
<1>3. IInv /\ [Next]_vars => IInv'
  <2> SUFFICES ASSUME IInv, [Next]_vars PROVE IInv'
    OBVIOUS
  <2>1. CASE MkOpen \/ MkWrite \/ Open \/ WriteEntry \/ Fsync \/ Unlink \/ Link
    BY <2>1, MkOpenInv, MkWriteInv, OpenInv, WriteEntryInv, FsyncInv, UnlinkInv, LinkInv
  <2>2. CASE Rename
    BY <1>2, <2>2
  <2>3. CASE Crash
    BY <2>3, CrashInv
  <2>4. CASE PowerFailure \/ Journal \/ UNCHANGED vars
    BY <2>4, PowerFailureInv, JournalInv, StutterInv
  <2> QED BY <2>1, <2>2, <2>3, <2>4 DEF Next
<1> QED BY <1>1, <1>3, PTL DEF Spec

(* The tables and the directory stay well formed: no file outgrows the     *)
(* space mkfile reserves or the records of one save.                       *)
THEOREM TypeCorrect == Spec => []TypeOK
<1>1. IInv => TypeOK
  BY DEF IInv, Control, TypeOK
<1> QED BY <1>1, Invariance, PTL

(* Whatever dies or fails while update_hosts runs, "hosts" and "hosts.1"   *)
(* hold the whole table of one save.                                       *)
THEOREM HostsWholeThm == Spec => []HostsWhole
<1>1. ASSUME IInv PROVE HostsWhole
  <2> SUFFICES ASSUME NEW n \in Kept, dir[n] # None
               PROVE  \E v \in 1 .. save : IsTable(data[dir[n]], v)
    BY DEF HostsWhole, Kept
  <2>1. dir \in Dirs
    BY <1>1, DirsType DEF IInv
  <2>2. \E v \in Done : IsTable(data[dir[n]], v)
    BY <1>1, <2>1 DEF IInv, Settled
  <2>3. Done \subseteq 1 .. save
    BY <1>1 DEF Done, IInv, Control
  <2> QED BY <2>2, <2>3
<1> QED BY <1>1, Invariance, PTL

(***************************************************************************)
(* The table update_hosts replaces is kept as "hosts.1", unless the system *)
(* refused the save its unlink or link.                                    *)
(***************************************************************************)
THEOREM BackupKeptThm == Spec => BackupKept
<1>1. ASSUME IInv, [Next]_vars
      PROVE  [\/ dir["hosts"] \in {None, dir'["hosts"]}
              \/ dir'["hosts.1"] = dir["hosts"]
              \/ refused
              \/ PowerFailure]_vars
  <2> USE HostsFileAssumption
  <2> SUFFICES ASSUME dir["hosts"] # None, dir'["hosts"] # dir["hosts"],
                      ~refused, ~PowerFailure
               PROVE  dir'["hosts.1"] = dir["hosts"]
    OBVIOUS
  <2>0. dir \in [Names -> Inodes \cup {None}]
    BY <1>1 DEF IInv, FileTypeOK, Dir
  <2>1. CASE MkOpen
    BY <2>0, <2>1 DEF MkOpen, Creat, SetDir
  <2>2. CASE MkWrite \/ Open \/ WriteEntry \/ Fsync \/ Crash \/ Journal \/ UNCHANGED vars
    BY <2>2 DEF MkWrite, Open, WriteEntry, Fsync, Crash, Journal, vars, fsVars, Store, SyncData, Commit
  <2>3. CASE Unlink \/ Link
    BY <2>0, <2>3 DEF Unlink, UnlinkName, Link, Refused, SetDir, fsVars
  <2>4. CASE Rename
    BY <1>1, <2>0, <2>4 DEF Rename, RenameFile, SetDir, fsVars, IInv, Control
  <2> QED BY <1>1, <2>1, <2>2, <2>3, <2>4 DEF Next
<1> QED BY <1>1, Invariance, PTL DEF Spec, BackupKept

(* Of the directories a power failure may leave, none without "hosts" is   *)
(* newer than one with it.                                                 *)
StayOrder ==
  \A j, k \in 1 .. Len(hist) :
    j <= k /\ hist[j]["hosts"] # None => hist[k]["hosts"] # None

(* A change of the directory that keeps a name "hosts" keeps StayOrder.    *)
LEMMA StayAppend ==
  ASSUME FileTypeOK(Table), StayOrder, NEW d \in Dir, SetDir(d),
         dir["hosts"] # None => d["hosts"] # None
  PROVE  StayOrder'
<1>1. /\ hist \in Seq(Dir) /\ Len(hist) \in Nat /\ Len(hist) \in 1 .. Len(hist)
      /\ hist[Len(hist)] = dir /\ hist' = Append(hist, d)
  BY DEF FileTypeOK, SetDir
<1>2. /\ Len(hist') = Len(hist) + 1
      /\ \A k \in 1 .. Len(hist) : hist'[k] = hist[k]
      /\ hist'[Len(hist) + 1] = d
  BY <1>1, AppendProperties
<1> SUFFICES ASSUME NEW j \in 1 .. Len(hist'), NEW k \in 1 .. Len(hist'),
                    j <= k, hist'[j]["hosts"] # None
             PROVE  hist'[k]["hosts"] # None
  BY DEF StayOrder
<1>3. CASE k <= Len(hist)
  BY <1>1, <1>2, <1>3 DEF StayOrder
<1>4. CASE k = Len(hist) + 1 /\ j <= Len(hist)
  <2>1. j \in 1 .. Len(hist) /\ hist'[j] = hist[j]
    BY <1>1, <1>2, <1>4
  <2>2. dir["hosts"] # None
    BY <1>1, <2>1 DEF StayOrder
  <2> QED BY <1>2, <1>4, <2>2
<1>5. CASE j = Len(hist) + 1 /\ k = Len(hist) + 1
  BY <1>5
<1> QED BY <1>1, <1>2, <1>3, <1>4, <1>5

(* Every step keeps that order: link and rename are whole steps.           *)
THEOREM StayOrderInv == Spec => []StayOrder
<1> USE HostsFileAssumption, FileSystemAssumption
<1>1. ASSUME Init PROVE StayOrder
  BY <1>1 DEF Init, FileInit, StayOrder
<1>2. ASSUME IInv, StayOrder, [Next]_vars PROVE StayOrder'
  <2>0. dir \in Dir /\ FileTypeOK(Table)
    BY <1>2 DEF IInv, FileTypeOK
  <2>1. CASE UNCHANGED hist
    BY <1>2, <2>1 DEF StayOrder
  <2>2. ASSUME NEW i \in Inodes, SetDir([dir EXCEPT !["hosts.tmp"] = i]) PROVE StayOrder'
    BY <1>2, <2>0, <2>2, StayAppend DEF Dir
  <2>3. CASE MkOpen
    BY <2>1, <2>2, <2>3 DEF MkOpen, Creat
  <2>4. CASE MkWrite \/ Open \/ WriteEntry \/ Fsync \/ Crash \/ UNCHANGED vars
    BY <2>1, <2>4 DEF MkWrite, Open, WriteEntry, Fsync, Crash, vars, fsVars, Store, SyncData
  <2>5. CASE Unlink
    <3>1. CASE SetDir([dir EXCEPT !["hosts.1"] = None])
      BY <1>2, <2>0, <3>1, StayAppend DEF Dir
    <3> QED BY <2>1, <2>5, <3>1 DEF Unlink, Refused, UnlinkName, fsVars
  <2>6. CASE Link
    <3>1. CASE SetDir([dir EXCEPT !["hosts.1"] = dir["hosts"]])
      BY <1>2, <2>0, <3>1, StayAppend DEF Dir
    <3> QED BY <2>1, <2>6, <3>1 DEF Link, Refused, fsVars
  <2>7. CASE Rename
    <3> DEFINE d == [dir EXCEPT !["hosts"] = Tmp, !["hosts.tmp"] = None]
    <3>1. (SetDir(d) \/ UNCHANGED hist) /\ Tmp # None
      BY <1>2, <2>7 DEF Rename, RenameFile, fsVars, IInv, Control, Tmp
    <3>2. d \in Dir /\ d["hosts"] = Tmp
      BY <2>0 DEF Dir, Tmp
    <3> HIDE DEF d
    <3> QED BY <1>2, <2>0, <2>1, <3>1, <3>2, StayAppend
  <2>8. CASE PowerFailure
    <3>1. hist' = <<dir'>> /\ Len(hist') = 1 /\ hist'[1] = dir'
      BY <2>8 DEF PowerFailure, Reboot
    <3> QED BY <3>1 DEF StayOrder
  <2>9. CASE Journal
    <3>1. hist \in Seq(Dir) /\ Len(hist) \in Nat
      BY <2>0 DEF FileTypeOK
    <3>2. PICK m \in 2 .. Len(hist) : hist' = SubSeq(hist, m, Len(hist))
      BY <2>9 DEF Journal, Commit
    <3>3. /\ Len(hist') = Len(hist) - m + 1
          /\ \A j \in 1 .. Len(hist') : hist'[j] = hist[m + j - 1]
      BY <3>1, <3>2
    <3> SUFFICES ASSUME NEW j \in 1 .. Len(hist'), NEW k \in 1 .. Len(hist'),
                        j <= k, hist'[j]["hosts"] # None
                 PROVE  hist'[k]["hosts"] # None
      BY DEF StayOrder
    <3>4. /\ m + j - 1 \in 1 .. Len(hist) /\ m + k - 1 \in 1 .. Len(hist)
          /\ m + j - 1 <= m + k - 1
      BY <3>1, <3>3
    <3>5. hist'[j] = hist[m + j - 1] /\ hist'[k] = hist[m + k - 1]
      BY <3>3
    <3> QED BY <1>2, <3>4, <3>5 DEF StayOrder
  <2> QED BY <1>2, <2>3, <2>4, <2>5, <2>6, <2>7, <2>8, <2>9 DEF Next
<1> QED BY <1>1, <1>2, Invariance, PTL DEF Spec

(* No step but a power failure takes "hosts" away, and every directory     *)
(* that may come back after a step is the new one or might have before.    *)
LEMMA StepKeeps ==
  ASSUME IInv, [Next]_vars
  PROVE  /\ PowerFailure => dir' \in Dirs
         /\ dir["hosts"] # None => dir'["hosts"] # None \/ PowerFailure
         /\ Dirs' \subseteq Dirs \cup {dir'}
<1> USE HostsFileAssumption, FileSystemAssumption
<1>0. dir \in Dir /\ FileTypeOK(Table)
  BY DEF IInv, FileTypeOK
<1>1. CASE UNCHANGED <<dir, hist>>
  <2>1. Dirs' = Dirs /\ dir \in Dirs
    BY <1>0, <1>1, DirsType DEF Dirs
  <2> QED BY <1>1, <2>1
<1>2. ASSUME NEW d \in Dir, SetDir(d), ~PowerFailure,
             dir["hosts"] # None => d["hosts"] # None
      PROVE  /\ PowerFailure => dir' \in Dirs
             /\ dir["hosts"] # None => dir'["hosts"] # None \/ PowerFailure
             /\ Dirs' \subseteq Dirs \cup {dir'}
  BY <1>0, <1>2, SetDirStep
<1>3. CASE PowerFailure
  BY <1>0, <1>3, RebootStep DEF PowerFailure
<1>4. CASE Journal
  BY <1>0, <1>4, CommitStep, DirsType DEF Journal
<1>5. CASE MkOpen /\ ~PowerFailure
  <2>1. ASSUME NEW i \in Inodes PROVE
          /\ [dir EXCEPT !["hosts.tmp"] = i] \in Dir
          /\ [dir EXCEPT !["hosts.tmp"] = i]["hosts"] = dir["hosts"]
    BY <1>0 DEF Dir
  <2> QED BY <1>1, <1>2, <1>5, <2>1 DEF MkOpen, Creat
<1>6. CASE MkWrite \/ Open \/ WriteEntry \/ Fsync \/ Crash \/ UNCHANGED vars
  BY <1>1, <1>6 DEF MkWrite, Open, WriteEntry, Fsync, Crash, vars, fsVars, Store, SyncData
<1>7. CASE Unlink /\ ~PowerFailure
  <2> DEFINE d == [dir EXCEPT !["hosts.1"] = None]
  <2>1. d \in Dir /\ d["hosts"] = dir["hosts"]
    BY <1>0 DEF Dir
  <2>2. SetDir(d) \/ UNCHANGED <<dir, hist>>
    BY <1>7 DEF Unlink, Refused, UnlinkName, fsVars
  <2> HIDE DEF d
  <2> QED BY <1>1, <1>2, <1>7, <2>1, <2>2
<1>8. CASE Link /\ ~PowerFailure
  <2> DEFINE d == [dir EXCEPT !["hosts.1"] = dir["hosts"]]
  <2>1. d \in Dir /\ d["hosts"] = dir["hosts"]
    BY <1>0 DEF Dir
  <2>2. SetDir(d) \/ UNCHANGED <<dir, hist>>
    BY <1>8 DEF Link, Refused, fsVars
  <2> HIDE DEF d
  <2> QED BY <1>1, <1>2, <1>8, <2>1, <2>2
<1>9. CASE Rename /\ ~PowerFailure
  <2> DEFINE d == [dir EXCEPT !["hosts"] = Tmp, !["hosts.tmp"] = None]
  <2>1. d \in Dir /\ d["hosts"] = Tmp
    BY <1>0 DEF Dir, Tmp
  <2>2. (SetDir(d) \/ UNCHANGED <<dir, hist>>) /\ Tmp # None
    BY <1>9 DEF Rename, RenameFile, fsVars, IInv, Control, Tmp
  <2> HIDE DEF d
  <2> QED BY <1>1, <1>2, <1>9, <2>1, <2>2
<1> QED BY <1>3, <1>4, <1>5, <1>6, <1>7, <1>8, <1>9 DEF Next

(***************************************************************************)
(* Only a power failure takes "hosts" away, and none does once a directory *)
(* with "hosts" has reached the disk.                                      *)
(***************************************************************************)
THEOREM HostsStayThm == Spec => HostsStay
<1>1. ASSUME IInv, StayOrder, [Next]_vars
      PROVE  [/\ dir["hosts"] # None => dir'["hosts"] # None \/ PowerFailure
              /\ hist[1]["hosts"] # None =>
                   \A k \in 1 .. Len(hist') : hist'[k]["hosts"] # None]_vars
  <2>1. /\ PowerFailure => dir' \in Dirs
        /\ dir["hosts"] # None => dir'["hosts"] # None \/ PowerFailure
        /\ Dirs' \subseteq Dirs \cup {dir'}
    BY <1>1, StepKeeps
  <2>2. ASSUME hist[1]["hosts"] # None, NEW k \in 1 .. Len(hist')
        PROVE  hist'[k]["hosts"] # None
    <3>1. Len(hist) \in Nat /\ 1 \in 1 .. Len(hist)
      BY <1>1 DEF IInv, FileTypeOK
    <3>2. \A d \in Dirs : d["hosts"] # None
      BY <1>1, <2>2, <3>1 DEF StayOrder, Dirs
    <3>3. dir'["hosts"] # None
      BY <1>1, <2>1, <3>2, DirsType DEF IInv
    <3>4. hist'[k] \in Dirs'
      BY <2>2 DEF Dirs
    <3> QED BY <2>1, <3>2, <3>3, <3>4
  <2> QED BY <2>1, <2>2
<1> QED BY <1>1, Invariance, StayOrderInv, PTL DEF Spec, HostsStay

=============================================================================
