-------------------------- MODULE RulesFileProofs --------------------------
(***************************************************************************)
(* persist_interface_configuration loses the rules file only to a power    *)
(* failure before it reached the disk, and while no write and no power     *)
(* fails the file is whole, for any size of the stdio buffer, any number   *)
(* of interfaces and calls and any deaths of netmgr.                       *)
(*                                                                         *)
(* RulesWholeIfSpared alone is not inductive.  IInv adds that the rules    *)
(* are those of a call that will print no more lines (Settled), and that   *)
(* the lines of the call under way are in .tmp and in the buffer, none     *)
(* lost and none of another call (Ready).                                  *)
(***************************************************************************)
EXTENDS RulesFile, TLAPS, SequenceTheorems

Data  == Seq(Nat)
Tmp   == dir[".tmp"]
Rules == dir["rules"]
Calls == 1 .. MaxSaves

(* The calls that print no more lines.                                     *)
Printed == IF pc = "print" THEN 1 .. save - 1 ELSE 1 .. save

(* c holds n lines, all of call v.                                         *)
LinesOf(c, n, v) == Len(c) = n /\ \A k \in 1 .. n : c[k] = v

Control ==
  /\ pc \in {"idle", "print", "close", "rename"}
  /\ save \in 0 .. MaxSaves
  /\ buf \in Seq(Nat)
  /\ count \in [Calls -> 0 .. MaxLines]
  /\ pc # "idle" => save >= 1 /\ Tmp # None
  /\ pc = "rename" => buf = <<>>
  /\ \A v \in Calls : v > save => count[v] = 0
  /\ spared \in BOOLEAN

Settled ==
  spared =>
    /\ Tmp # None => Tmp # Rules
    /\ Rules # None => \E v \in Printed : LinesOf(data[Rules], count[v], v)

Ready ==
  spared /\ pc # "idle" =>
    \E n \in Nat :
      /\ LinesOf(data[Tmp], n, save)
      /\ LinesOf(buf, count[save] - n, save)

IInv == FileTypeOK(Data) /\ Control /\ Settled /\ Ready

-----------------------------------------------------------------------------
(* The names refer to inodes, or to nothing.                               *)
LEMMA NamesType ==
  ASSUME FileTypeOK(Data) PROVE Tmp \in Inodes \cup {None} /\ Rules \in Inodes \cup {None}
BY RulesFileAssumption DEF FileTypeOK, Dir, Tmp, Rules

(* A change of the directory keeps the files well formed.                  *)
LEMMA SetDirType ==
  ASSUME FileTypeOK(Data), NEW d \in Dir, SetDir(d),
         data' \in [Inodes -> Data], disk' \in [Inodes -> SUBSET Data],
         \A i \in Inodes : data'[i] \in disk'[i]
  PROVE  FileTypeOK(Data)'
<1>1. hist \in Seq(Dir) /\ Len(hist) \in Nat /\ hist' = Append(hist, d) /\ dir' = d
  BY DEF FileTypeOK, SetDir
<1>2. hist' \in Seq(Dir) /\ Len(hist') = Len(hist) + 1 /\ hist'[Len(hist) + 1] = d
  BY <1>1, AppendProperties
<1>3. hist' # <<>>
  BY <1>1, <1>2
<1> QED
  BY <1>1, <1>2, <1>3 DEF FileTypeOK

(* The journal only takes directories away.                                *)
LEMMA CommitType ==
  ASSUME FileTypeOK(Data), Commit
  PROVE  FileTypeOK(Data)' /\ UNCHANGED <<dir, data, disk>>
<1>1. hist \in Seq(Dir) /\ Len(hist) \in Nat
  BY DEF FileTypeOK
<1>2. PICK k \in 2 .. Len(hist) : hist' = SubSeq(hist, k, Len(hist))
  BY DEF Commit
<1>3. /\ hist' \in Seq(Dir) /\ Len(hist') = Len(hist) - k + 1
      /\ \A j \in 1 .. Len(hist') : hist'[j] = hist[k + j - 1]
  BY <1>1, <1>2
<1>4. Len(hist') \in 1 .. Len(hist') /\ k + Len(hist') - 1 = Len(hist)
  BY <1>1, <1>3
<1>5. hist'[Len(hist')] = hist[Len(hist)]
  BY <1>3, <1>4
<1>6. hist' # <<>>
  BY <1>3, <1>4
<1> QED
  BY <1>3, <1>5, <1>6 DEF Commit, FileTypeOK

(* A power failure leaves a directory and contents there were before.      *)
LEMMA RebootType ==
  ASSUME FileTypeOK(Data), Reboot
  PROVE  FileTypeOK(Data)'
<1>1. PICK k \in 1 .. Len(hist) : dir' = hist[k]
  BY DEF Reboot
<1>2. dir' \in Dir
  BY <1>1 DEF FileTypeOK
<1>3. hist' = <<dir'>> /\ hist' \in Seq(Dir) /\ Len(hist') = 1 /\ hist'[1] = dir' /\ hist' # <<>>
  BY <1>2 DEF Reboot
<1>4. \A i \in Inodes : data'[i] \in disk[i]
  BY DEF Reboot
<1>5. data' \in [Inodes -> Data]
  BY <1>4 DEF Reboot, FileTypeOK
<1>6. disk' = [i \in Inodes |-> {data'[i]}]
  BY DEF Reboot
<1> QED
  BY <1>2, <1>3, <1>4, <1>5, <1>6 DEF FileTypeOK

(* fopen leaves .tmp empty and touches no other file.                      *)
LEMMA CreatStep ==
  ASSUME FileTypeOK(Data), Creat(".tmp"), Tmp # None => Tmp # Rules
  PROVE  /\ FileTypeOK(Data)' /\ Rules' = Rules
         /\ Tmp' # None /\ Tmp' # Rules /\ data'[Tmp'] = <<>>
         /\ Rules # None => data'[Rules] = data[Rules]
<1> USE RulesFileAssumption, FileSystemAssumption
<1>0. <<>> \in Data
  BY DEF Data
<1>1. CASE /\ Tmp # None
           /\ data' = [data EXCEPT ![Tmp] = <<>>]
           /\ disk' = [disk EXCEPT ![Tmp] = @ \cup {<<>>}]
           /\ UNCHANGED <<dir, hist>>
  <2>1. Tmp \in Inodes /\ Tmp' = Tmp /\ Rules' = Rules
    BY <1>1, NamesType DEF Tmp, Rules
  <2>2. data' \in [Inodes -> Data] /\ disk' \in [Inodes -> SUBSET Data]
    BY <1>0, <1>1, <2>1 DEF FileTypeOK
  <2>3. \A i \in Inodes : data'[i] \in disk'[i]
    BY <1>1, <2>1 DEF FileTypeOK
  <2>4. FileTypeOK(Data)'
    BY <1>1, <2>2, <2>3 DEF FileTypeOK
  <2> QED
    BY <1>1, <2>1, <2>4, NamesType DEF FileTypeOK
<1>2. ASSUME Tmp = None, NEW i \in Inodes, Unused(i),
             SetDir([dir EXCEPT ![".tmp"] = i]),
             data' = [data EXCEPT ![i] = <<>>],
             disk' = [disk EXCEPT ![i] = {<<>>}]
      PROVE  /\ FileTypeOK(Data)' /\ Rules' = Rules
             /\ Tmp' # None /\ Tmp' # Rules /\ data'[Tmp'] = <<>>
             /\ Rules # None => data'[Rules] = data[Rules]
  <2> DEFINE d == [dir EXCEPT ![".tmp"] = i]
  <2>1. d \in Dir /\ d[".tmp"] = i /\ d["rules"] = Rules
    BY DEF FileTypeOK, Dir, Rules
  <2>2. dir' = d
    BY <1>2 DEF SetDir
  <2>3. Tmp' = i /\ Rules' = Rules
    BY <2>1, <2>2 DEF Tmp, Rules
  <2>4. Rules # i
    BY <1>2 DEF Unused, FileTypeOK, Rules
  <2>5. data' \in [Inodes -> Data] /\ disk' \in [Inodes -> SUBSET Data]
    BY <1>0, <1>2 DEF FileTypeOK
  <2>6. \A j \in Inodes : data'[j] \in disk'[j]
    BY <1>2 DEF FileTypeOK
  <2>7. FileTypeOK(Data)'
    BY <1>2, <2>1, <2>5, <2>6, SetDirType
  <2> QED
    BY <1>2, <2>3, <2>4, <2>7, NamesType DEF FileTypeOK
<1> QED
  BY <1>1, <1>2 DEF Creat, Tmp

(* A write to .tmp changes no other file.                                  *)
LEMMA StoreStep ==
  ASSUME FileTypeOK(Data), Tmp # None, NEW c \in Data, Store(".tmp", c)
  PROVE  /\ FileTypeOK(Data)' /\ Tmp' = Tmp /\ Rules' = Rules
         /\ data'[Tmp] = c
         /\ Rules # None /\ Rules # Tmp => data'[Rules] = data[Rules]
<1>1. Tmp \in Inodes
  BY NamesType
<1>2. /\ data' = [data EXCEPT ![Tmp] = c]
      /\ disk' = [disk EXCEPT ![Tmp] = @ \cup {c}]
      /\ UNCHANGED <<dir, hist>>
  BY DEF Store, Tmp
<1>3. data' \in [Inodes -> Data] /\ disk' \in [Inodes -> SUBSET Data]
  BY <1>1, <1>2 DEF FileTypeOK
<1>4. \A i \in Inodes : data'[i] \in disk'[i]
  BY <1>1, <1>2 DEF FileTypeOK
<1>5. FileTypeOK(Data)'
  BY <1>2, <1>3, <1>4 DEF FileTypeOK
<1> QED
  BY <1>1, <1>2, <1>5, NamesType DEF FileTypeOK, Tmp, Rules

(* fdatasync changes nothing a process sees.                               *)
LEMMA SyncStep ==
  ASSUME FileTypeOK(Data), Tmp # None, SyncData(".tmp")
  PROVE  FileTypeOK(Data)' /\ UNCHANGED <<dir, data>>
<1>1. Tmp \in Inodes
  BY NamesType
<1>2. disk' = [disk EXCEPT ![Tmp] = {data[Tmp]}] /\ UNCHANGED <<dir, hist, data>>
  BY DEF SyncData, Tmp
<1>3. disk' \in [Inodes -> SUBSET Data] /\ \A i \in Inodes : data[i] \in disk'[i]
  BY <1>1, <1>2 DEF FileTypeOK
<1> QED
  BY <1>2, <1>3 DEF FileTypeOK

-----------------------------------------------------------------------------
(* Lines that follow lines of the same call.                               *)
LEMMA LinesJoin ==
  ASSUME NEW c \in Seq(Nat), NEW b \in Seq(Nat), NEW m \in Nat, NEW n \in Nat, NEW v \in Nat,
         LinesOf(c, m, v), LinesOf(b, n, v)
  PROVE  c \o b \in Seq(Nat) /\ LinesOf(c \o b, m + n, v)
<1>1. /\ c \o b \in Seq(Nat) /\ Len(c \o b) = m + n
      /\ \A k \in 1 .. m + n : (c \o b)[k] = IF k <= m THEN c[k] ELSE b[k - m]
  BY DEF LinesOf
<1>2. \A k \in 1 .. m + n : (c \o b)[k] = v
  <2> SUFFICES ASSUME NEW k \in 1 .. m + n PROVE (c \o b)[k] = v
    OBVIOUS
  <2>1. CASE k <= m
    BY <1>1, <2>1 DEF LinesOf
  <2>2. CASE k > m
    <3>1. k - m \in 1 .. n
      BY <2>2
    <3> QED
      BY <1>1, <2>2, <3>1 DEF LinesOf
  <2>3. k <= m \/ k > m
    OBVIOUS
  <2> QED
    BY <2>1, <2>2, <2>3, Zenon
<1> QED
  BY <1>1, <1>2 DEF LinesOf

(* One more line.                                                          *)
LEMMA LinesAppend ==
  ASSUME NEW b \in Seq(Nat), NEW n \in Nat, NEW v \in Nat, LinesOf(b, n, v)
  PROVE  Append(b, v) \in Seq(Nat) /\ LinesOf(Append(b, v), n + 1, v)
<1>1. /\ Append(b, v) \in Seq(Nat) /\ Len(Append(b, v)) = n + 1
      /\ \A k \in 1 .. n : Append(b, v)[k] = b[k]
      /\ Append(b, v)[n + 1] = v
  BY AppendProperties DEF LinesOf
<1> QED
  BY <1>1 DEF LinesOf

(* The empty buffer and a buffer of one line.                              *)
LEMMA LinesFew ==
  ASSUME NEW v \in Nat
  PROVE  /\ <<>> \in Seq(Nat) /\ LinesOf(<<>>, 0, v)
         /\ <<v>> \in Seq(Nat) /\ LinesOf(<<v>>, 1, v)
BY DEF LinesOf

-----------------------------------------------------------------------------
(* IInv holds when netmgr starts for the first time.                       *)
LEMMA InitInv == ASSUME Init PROVE IInv
<1> USE RulesFileAssumption, FileSystemAssumption
<1>1. dir \in Dir /\ hist = <<dir>> /\ hist \in Seq(Dir) /\ Len(hist) = 1 /\ hist[1] = dir /\ hist # <<>>
  BY DEF Init, FileInit, Dir
<1>2. FileTypeOK(Data)
  BY <1>1 DEF Init, FileInit, FileTypeOK, Data
<1>3. Tmp = None /\ Rules = None
  BY DEF Tmp, Rules, Init, FileInit
<1>4. Control
  BY DEF Control, Init, Calls
<1> QED
  BY <1>2, <1>3, <1>4 DEF IInv, Settled, Ready, Init

(* fopen begins a call that has printed nothing.                           *)
LEMMA FopenInv == ASSUME IInv, Fopen PROVE IInv'
<1> USE RulesFileAssumption, FileSystemAssumption
<1>1. /\ pc = "idle" /\ save < MaxSaves /\ save' = save + 1 /\ pc' = "print" /\ buf' = <<>>
      /\ UNCHANGED <<count, spared>> /\ Creat(".tmp")
  BY DEF Fopen
<1>0. <<>> \in Data
  BY DEF Data
<1>2. CASE ~spared
  <2>1. FileTypeOK(Data)' /\ Tmp' # None
    <3>1. CASE dir[".tmp"] = None
      <4>1. PICK i \in Inodes :
              /\ SetDir([dir EXCEPT ![".tmp"] = i])
              /\ data' = [data EXCEPT ![i] = <<>>]
              /\ disk' = [disk EXCEPT ![i] = {<<>>}]
        BY <1>1, <3>1 DEF Creat
      <4>2. [dir EXCEPT ![".tmp"] = i] \in Dir /\ [dir EXCEPT ![".tmp"] = i][".tmp"] = i
        BY DEF IInv, FileTypeOK, Dir
      <4>3. data' \in [Inodes -> Data] /\ disk' \in [Inodes -> SUBSET Data]
            /\ \A j \in Inodes : data'[j] \in disk'[j]
        BY <1>0, <4>1 DEF IInv, FileTypeOK
      <4> QED
        BY <4>1, <4>2, <4>3, SetDirType DEF IInv, SetDir, Tmp
    <3>2. CASE dir[".tmp"] # None
      <4>1. /\ data' = [data EXCEPT ![Tmp] = <<>>]
            /\ disk' = [disk EXCEPT ![Tmp] = @ \cup {<<>>}]
            /\ UNCHANGED <<dir, hist>>
        BY <1>1, <3>2 DEF Creat, Tmp
      <4>2. Tmp \in Inodes
        BY <3>2, NamesType DEF IInv, Tmp
      <4>3. data' \in [Inodes -> Data] /\ disk' \in [Inodes -> SUBSET Data]
            /\ \A j \in Inodes : data'[j] \in disk'[j]
        BY <1>0, <4>1, <4>2 DEF IInv, FileTypeOK
      <4> QED
        BY <3>2, <4>1, <4>3 DEF IInv, FileTypeOK, Tmp
    <3> QED
      BY <3>1, <3>2
  <2>2. Control'
    BY <1>1, <2>1 DEF IInv, Control, Calls
  <2> QED
    BY <1>1, <1>2, <2>1, <2>2 DEF IInv, Settled, Ready
<1>3. CASE spared
  <2>1. /\ FileTypeOK(Data)' /\ Rules' = Rules
        /\ Tmp' # None /\ Tmp' # Rules /\ data'[Tmp'] = <<>>
        /\ Rules # None => data'[Rules] = data[Rules]
    BY <1>1, <1>3, CreatStep DEF IInv, Settled
  <2>2. Control'
    BY <1>1, <2>1 DEF IInv, Control, Calls
  <2>3. Printed' = Printed
    BY <1>1 DEF Printed, IInv, Control
  <2>4. Settled'
    BY <1>1, <1>3, <2>1, <2>3 DEF IInv, Settled, LinesOf
  <2>5. count'[save'] = 0 /\ save' \in Nat
    BY <1>1 DEF IInv, Control, Calls
  <2>6. LinesOf(<<>>, 0, save')
    BY <2>5, LinesFew
  <2>7. Ready'
    BY <1>1, <2>1, <2>5, <2>6 DEF Ready
  <2> QED
    BY <2>1, <2>2, <2>4, <2>7 DEF IInv
<1> QED
  BY <1>2, <1>3 DEF IInv, Control

(* The rules survive a step that touches neither them nor the calls that   *)
(* have printed all their lines.                                           *)
LEMMA SettledStep ==
  ASSUME IInv, spared' => spared, Tmp' \in {Tmp, None}, Rules' = Rules,
         spared' /\ Rules # None => data'[Rules] = data[Rules],
         Printed \subseteq Printed', \A v \in Printed : count'[v] = count[v]
  PROVE  Settled'
BY DEF IInv, Settled, LinesOf

(* A step that leaves the files alone.                                     *)
LEMMA FilesSame ==
  ASSUME IInv, UNCHANGED fsVars
  PROVE  FileTypeOK(Data)' /\ Tmp' = Tmp /\ Rules' = Rules /\ data' = data
BY DEF IInv, FileTypeOK, fsVars, Tmp, Rules

(* The buffer reaches .tmp whole, or the call is not spared.               *)
LEMMA FlushStep ==
  ASSUME IInv, pc # "idle", Flush
  PROVE  /\ FileTypeOK(Data)' /\ Tmp' = Tmp /\ Rules' = Rules
         /\ spared' => spared
         /\ spared' /\ Rules # None => data'[Rules] = data[Rules]
         /\ spared' => LinesOf(data'[Tmp], count[save], save)
         /\ spared' \in BOOLEAN
<1>1. Tmp # None /\ Tmp \in Inodes /\ data[Tmp] \in Seq(Nat) /\ buf \in Seq(Nat)
  BY NamesType DEF IInv, Control, FileTypeOK, Data
<1>2. CASE Store(".tmp", data[dir[".tmp"]] \o buf) /\ UNCHANGED spared
  <2>1. data[Tmp] \o buf \in Data /\ Store(".tmp", data[Tmp] \o buf)
    BY <1>1, <1>2 DEF Data, Tmp
  <2>2. /\ FileTypeOK(Data)' /\ Tmp' = Tmp /\ Rules' = Rules
        /\ data'[Tmp] = data[Tmp] \o buf
        /\ Rules # None /\ Rules # Tmp => data'[Rules] = data[Rules]
    BY <1>1, <2>1, StoreStep DEF IInv
  <2>3. spared => Rules # Tmp
    BY <1>1 DEF IInv, Settled
  <2>4. ASSUME spared PROVE LinesOf(data[Tmp] \o buf, count[save], save)
    <3>1. PICK n \in Nat : LinesOf(data[Tmp], n, save) /\ LinesOf(buf, count[save] - n, save)
      BY <2>4 DEF IInv, Ready
    <3>2. save \in Nat /\ count[save] \in Nat /\ count[save] - n \in Nat
      BY <1>1, <3>1, RulesFileAssumption DEF IInv, Control, Calls, LinesOf
    <3>3. n + (count[save] - n) = count[save]
      BY <3>2
    <3> QED
      BY <1>1, <3>1, <3>2, <3>3, LinesJoin
  <2> QED
    BY <1>2, <2>2, <2>3, <2>4 DEF IInv, Control
<1>3. CASE spared' = FALSE /\ UNCHANGED fsVars
  BY <1>3, FilesSame
<1> QED
  BY <1>2, <1>3 DEF Flush

(* The lines printed are in .tmp or in the buffer.                         *)
LEMMA FprintfInv == ASSUME IInv, Fprintf PROVE IInv'
<1> USE RulesFileAssumption, FileSystemAssumption
<1>1. /\ pc = "print" /\ count[save] < MaxLines /\ pc' = "print" /\ save' = save
      /\ count' = [count EXCEPT ![save] = @ + 1]
  BY DEF Fprintf
<1>2. save \in Calls /\ save \in Nat /\ count[save] \in Nat
      /\ count'[save] = count[save] + 1 /\ buf \in Seq(Nat) /\ Tmp # None
  BY <1>1 DEF IInv, Control, Calls
<1>3. Printed' = Printed /\ \A v \in Printed : count'[v] = count[v]
  BY <1>1, <1>2 DEF Printed, Calls, IInv, Control
<1>4. /\ FileTypeOK(Data)' /\ Tmp' = Tmp /\ Rules' = Rules
      /\ spared' => spared
      /\ spared' /\ Rules # None => data'[Rules] = data[Rules]
      /\ spared' \in BOOLEAN
  <2>1. CASE UNCHANGED <<fsVars, spared>>
    BY <2>1, FilesSame DEF IInv, Control
  <2>2. CASE Flush
    BY <1>1, <2>2, FlushStep
  <2> QED
    BY <2>1, <2>2 DEF Fprintf
<1>5. buf' \in Seq(Nat)
  <2>1. Append(buf, save) \in Seq(Nat) /\ <<save>> \in Seq(Nat)
    BY <1>2
  <2> QED
    BY <2>1 DEF Fprintf
<1>6. Control'
  <2>1. count' \in [Calls -> 0 .. MaxLines] /\ \A v \in Calls : v > save => count'[v] = 0
    BY <1>1, <1>2 DEF IInv, Control, Calls
  <2> QED
    BY <1>1, <1>4, <1>5, <2>1 DEF IInv, Control
<1>7. Settled'
  BY <1>3, <1>4, SettledStep
<1>8. ASSUME spared' PROVE \E n \in Nat : /\ LinesOf(data'[Tmp'], n, save')
                                          /\ LinesOf(buf', count'[save'] - n, save')
  <2>1. CASE buf' = Append(buf, save) /\ UNCHANGED <<fsVars, spared>>
    <3>1. PICK n \in Nat : LinesOf(data[Tmp], n, save) /\ LinesOf(buf, count[save] - n, save)
      BY <1>1, <1>8, <2>1 DEF IInv, Ready
    <3>2. count[save] - n \in Nat /\ count'[save] - n = (count[save] - n) + 1
      BY <1>2, <3>1 DEF LinesOf
    <3>3. LinesOf(Append(buf, save), (count[save] - n) + 1, save)
      BY <1>2, <3>1, <3>2, LinesAppend
    <3>4. data'[Tmp'] = data[Tmp]
      BY <2>1, FilesSame
    <3> QED
      BY <1>1, <2>1, <3>1, <3>2, <3>3, <3>4
  <2>2. CASE buf' = <<save>> /\ Flush
    <3>1. LinesOf(data'[Tmp], count[save], save)
      BY <1>1, <1>8, <2>2, FlushStep
    <3>2. LinesOf(<<save>>, 1, save) /\ count'[save] - count[save] = 1
      BY <1>2, LinesFew
    <3> QED
      BY <1>1, <1>2, <1>4, <2>2, <3>1, <3>2
  <2> QED
    BY <2>1, <2>2 DEF Fprintf
<1>9. Ready'
  BY <1>8 DEF Ready
<1> QED
  BY <1>4, <1>6, <1>7, <1>9 DEF IInv

(* fdatasync ends the printing.                                            *)
LEMMA FdatasyncInv == ASSUME IInv, Fdatasync PROVE IInv'
<1>1. pc = "print" /\ pc' = "close" /\ SyncData(".tmp") /\ UNCHANGED <<save, buf, count, spared>>
  BY DEF Fdatasync
<1>2. FileTypeOK(Data)' /\ UNCHANGED <<dir, data>>
  BY <1>1, SyncStep DEF IInv, Control
<1>3. Tmp' = Tmp /\ Rules' = Rules
  BY <1>2 DEF Tmp, Rules
<1>4. Control'
  BY <1>1, <1>3 DEF IInv, Control
<1>5. Printed \subseteq Printed'
  BY <1>1 DEF Printed, IInv, Control
<1>6. Settled'
  BY <1>1, <1>2, <1>3, <1>5, SettledStep
<1>7. Ready'
  BY <1>1, <1>2, <1>3 DEF IInv, Ready
<1> QED
  BY <1>2, <1>4, <1>6, <1>7 DEF IInv

(* fclose writes the rest of the buffer.                                   *)
LEMMA FcloseInv == ASSUME IInv, Fclose PROVE IInv'
<1>1. pc = "close" /\ pc' = "rename" /\ Flush /\ buf' = <<>> /\ UNCHANGED <<save, count>>
  BY DEF Fclose
<1>2. /\ FileTypeOK(Data)' /\ Tmp' = Tmp /\ Rules' = Rules
      /\ spared' => spared
      /\ spared' /\ Rules # None => data'[Rules] = data[Rules]
      /\ spared' => LinesOf(data'[Tmp], count[save], save)
      /\ spared' \in BOOLEAN
  BY <1>1, FlushStep
<1>3. save \in Nat /\ count[save] \in Nat
  BY <1>1, RulesFileAssumption DEF IInv, Control, Calls
<1>4. Control'
  BY <1>1, <1>2 DEF IInv, Control
<1>5. Printed' = Printed
  BY <1>1 DEF Printed
<1>6. Settled'
  BY <1>1, <1>2, <1>5, SettledStep
<1>7. LinesOf(<<>>, 0, save)
  BY <1>3, LinesFew
<1>a. count[save] - count[save] = 0
  BY <1>3
<1>8. Ready'
  BY <1>1, <1>2, <1>3, <1>7, <1>a DEF Ready
<1> QED
  BY <1>2, <1>4, <1>6, <1>8 DEF IInv

(* The renamed file has the lines of the call.                             *)
LEMMA RenameInv ==
  ASSUME IInv, Rename, RenameFile(".tmp", "rules") PROVE IInv'
<1> USE RulesFileAssumption, FileSystemAssumption
<1>1. /\ pc = "rename" /\ pc' = "idle" /\ UNCHANGED <<save, buf, count, spared>>
      /\ UNCHANGED <<data, disk>>
      /\ SetDir([dir EXCEPT !["rules"] = dir[".tmp"], ![".tmp"] = None])
  BY DEF Rename, RenameFile
<1> DEFINE d == [dir EXCEPT !["rules"] = dir[".tmp"], ![".tmp"] = None]
<1>2. d \in Dir /\ d["rules"] = Tmp /\ d[".tmp"] = None
  BY DEF IInv, FileTypeOK, Dir, Tmp
<1>3. Tmp' = None /\ Rules' = Tmp
  BY <1>1, <1>2 DEF SetDir, Tmp, Rules
<1>4. FileTypeOK(Data)'
  BY <1>1, <1>2, SetDirType DEF IInv, FileTypeOK
<1>5. Control'
  BY <1>1 DEF IInv, Control
<1>6. Settled'
  <2> SUFFICES ASSUME spared' PROVE \E v \in Printed' : LinesOf(data[Tmp], count[v], v)
    BY <1>1, <1>3 DEF Settled, LinesOf
  <2>1. PICK n \in Nat : LinesOf(data[Tmp], n, save) /\ LinesOf(buf, count[save] - n, save)
    BY <1>1 DEF IInv, Ready
  <2>2. save \in Printed' /\ count[save] \in Nat
    BY <1>1 DEF Printed, IInv, Control, Calls
  <2>3. n = count[save]
    BY <1>1, <2>1, <2>2 DEF LinesOf, IInv, Control
  <2> QED
    BY <2>1, <2>2, <2>3
<1> QED
  BY <1>1, <1>4, <1>5, <1>6 DEF IInv, Ready

(* The death of netmgr and a rename that fails leave the files as they     *)
(* are.                                                                    *)
LEMMA CrashInv ==
  ASSUME IInv, Crash \/ (Rename /\ UNCHANGED fsVars) PROVE IInv'
<1>1. pc' = "idle" /\ buf' = <<>> /\ UNCHANGED <<fsVars, save, count, spared>>
  BY DEF Crash, Rename, IInv, Control
<1>2. FileTypeOK(Data)' /\ Tmp' = Tmp /\ Rules' = Rules /\ data' = data
  BY <1>1, FilesSame
<1>3. Control'
  BY <1>1 DEF IInv, Control
<1>4. Printed \subseteq Printed'
  BY <1>1 DEF Printed, IInv, Control
<1>5. Settled'
  BY <1>1, <1>2, <1>4, SettledStep
<1> QED
  BY <1>1, <1>2, <1>3, <1>5 DEF IInv, Ready

(* IInv is inductive.                                                      *)
LEMMA NextInv == ASSUME IInv, [Next]_vars PROVE IInv'
<1>1. CASE PowerFailure
  <2>1. FileTypeOK(Data)'
    BY <1>1, RebootType DEF PowerFailure, IInv
  <2>2. pc' = "idle" /\ buf' = <<>> /\ spared' = FALSE /\ UNCHANGED <<save, count>>
    BY <1>1 DEF PowerFailure
  <2>3. spared' \in BOOLEAN
    BY <2>2
  <2>4. pc' = "idle" /\ buf' = <<>> /\ UNCHANGED <<save, count>>
    BY <2>2
  <2>5. Control'
    BY <2>3, <2>4 DEF IInv, Control
  <2> QED
    BY <2>1, <2>2, <2>5 DEF IInv, Settled, Ready
<1>2. CASE Journal
  <2>1. FileTypeOK(Data)' /\ UNCHANGED <<dir, data, disk>> /\ UNCHANGED <<pc, save, buf, count, spared>>
    BY <1>2, CommitType DEF Journal, IInv
  <2>2. Tmp' = Tmp /\ Rules' = Rules /\ Printed' = Printed
    BY <2>1 DEF Tmp, Rules, Printed
  <2> QED
    BY <2>1, <2>2 DEF IInv, Control, Settled, Ready, LinesOf
<1>3. CASE UNCHANGED vars
  <2>1. FileTypeOK(Data)' /\ Tmp' = Tmp /\ Rules' = Rules /\ data' = data
    BY <1>3, FilesSame DEF vars
  <2>2. UNCHANGED <<pc, save, buf, count, spared>> /\ Printed' = Printed
    BY <1>3 DEF vars, Printed
  <2> QED
    BY <2>1, <2>2 DEF IInv, Control, Settled, Ready, LinesOf
<1>4. CASE Rename
  <2>1. RenameFile(".tmp", "rules") \/ UNCHANGED fsVars
    BY <1>4 DEF Rename
  <2> QED
    BY <1>4, <2>1, RenameInv, CrashInv
<1>5. CASE Crash
  BY <1>5, CrashInv
<1> QED
  BY <1>1, <1>2, <1>3, <1>4, <1>5, FopenInv, FprintfInv, FdatasyncInv, FcloseInv DEF Next

-----------------------------------------------------------------------------
(* IInv is an invariant of the specification.                              *)
THEOREM Invariance == Spec => []IInv
BY InitInv, NextInv, PTL DEF Spec

(***************************************************************************)
(* As long as only netmgr dies, at whatever step, and no write fails, the  *)
(* rules file holds every line of one call of                              *)
(* persist_interface_configuration and no other, although the buffer       *)
(* reaches the kernel only after fdatasync.                                *)
(***************************************************************************)
THEOREM RulesWholeIfSparedThm == Spec => []RulesWholeIfSpared
<1>1. IInv => RulesWholeIfSpared
  <2> SUFFICES ASSUME IInv, spared, Rules # None
               PROVE  \E v \in 1 .. save : data[Rules] = [k \in 1 .. count[v] |-> v]
    BY DEF RulesWholeIfSpared, RulesWhole, Rules
  <2>1. PICK v \in Printed : LinesOf(data[Rules], count[v], v)
    BY DEF IInv, Settled
  <2>2. v \in 1 .. save
    BY DEF IInv, Control, Printed
  <2>3. data[Rules] \in Seq(Nat)
    BY NamesType DEF IInv, FileTypeOK, Data
  <2>4. data[Rules] = [k \in 1 .. count[v] |-> v]
    BY <2>1, <2>3 DEF LinesOf
  <2> QED
    BY <2>2, <2>4
<1> QED
  BY <1>1, Invariance, PTL

(* Of the directories a power failure may leave, none without the rules    *)
(* file is newer than one with it.                                         *)
StayOrder ==
  \A j, k \in 1 .. Len(hist) :
    j <= k /\ hist[j]["rules"] # None => hist[k]["rules"] # None

(* A change of the directory that keeps a rules file keeps StayOrder.      *)
LEMMA StayAppend ==
  ASSUME FileTypeOK(Data), StayOrder, NEW d \in Dir, SetDir(d),
         dir["rules"] # None => d["rules"] # None
  PROVE  StayOrder'
<1>1. /\ hist \in Seq(Dir) /\ Len(hist) \in Nat /\ Len(hist) \in 1 .. Len(hist)
      /\ hist[Len(hist)] = dir /\ hist' = Append(hist, d)
  BY DEF FileTypeOK, SetDir
<1>2. /\ Len(hist') = Len(hist) + 1
      /\ \A k \in 1 .. Len(hist) : hist'[k] = hist[k]
      /\ hist'[Len(hist) + 1] = d
  BY <1>1, AppendProperties
<1> SUFFICES ASSUME NEW j \in 1 .. Len(hist'), NEW k \in 1 .. Len(hist'),
                    j <= k, hist'[j]["rules"] # None
             PROVE  hist'[k]["rules"] # None
  BY DEF StayOrder
<1>3. CASE k <= Len(hist)
  BY <1>1, <1>2, <1>3 DEF StayOrder
<1>4. CASE k = Len(hist) + 1 /\ j <= Len(hist)
  <2>1. j \in 1 .. Len(hist) /\ hist'[j] = hist[j]
    BY <1>1, <1>2, <1>4
  <2>2. dir["rules"] # None
    BY <1>1, <2>1 DEF StayOrder
  <2> QED
    BY <1>2, <1>4, <2>2
<1>5. CASE j = Len(hist) + 1 /\ k = Len(hist) + 1
  BY <1>5
<1> QED
  BY <1>1, <1>2, <1>3, <1>4, <1>5

(* What the journal has written leaves the order of the rest.              *)
LEMMA StayCommit ==
  ASSUME FileTypeOK(Data), StayOrder, Commit
  PROVE  StayOrder'
<1>1. hist \in Seq(Dir) /\ Len(hist) \in Nat
  BY DEF FileTypeOK
<1>2. PICK m \in 2 .. Len(hist) : hist' = SubSeq(hist, m, Len(hist))
  BY DEF Commit
<1>3. /\ Len(hist') = Len(hist) - m + 1
      /\ \A j \in 1 .. Len(hist') : hist'[j] = hist[m + j - 1]
  BY <1>1, <1>2
<1> SUFFICES ASSUME NEW j \in 1 .. Len(hist'), NEW k \in 1 .. Len(hist'),
                    j <= k, hist'[j]["rules"] # None
             PROVE  hist'[k]["rules"] # None
  BY DEF StayOrder
<1>4. /\ m + j - 1 \in 1 .. Len(hist) /\ m + k - 1 \in 1 .. Len(hist)
      /\ m + j - 1 <= m + k - 1
  BY <1>1, <1>3
<1>5. hist'[j] = hist[m + j - 1] /\ hist'[k] = hist[m + k - 1]
  BY <1>3
<1> QED
  BY <1>4, <1>5 DEF StayOrder

(* Every step keeps that order: rename is one step.                        *)
THEOREM StayOrderInv == Spec => []StayOrder
<1> USE RulesFileAssumption, FileSystemAssumption
<1>1. ASSUME Init PROVE StayOrder
  BY <1>1 DEF Init, FileInit, StayOrder
<1>2. ASSUME IInv, StayOrder, [Next]_vars PROVE StayOrder'
  <2>0. dir \in Dir /\ FileTypeOK(Data)
    BY <1>2 DEF IInv, FileTypeOK
  <2>1. CASE UNCHANGED hist
    BY <1>2, <2>1 DEF StayOrder
  <2>2. ASSUME NEW i \in Inodes, SetDir([dir EXCEPT ![".tmp"] = i]) PROVE StayOrder'
    BY <1>2, <2>0, <2>2, StayAppend DEF Dir
  <2>3. CASE Fopen
    BY <2>1, <2>2, <2>3 DEF Fopen, Creat
  <2>4. CASE Fprintf \/ Fdatasync \/ Fclose \/ Crash \/ UNCHANGED vars
    BY <2>1, <2>4 DEF Fprintf, Fdatasync, Fclose, Flush, Crash, vars, fsVars, Store, SyncData
  <2>5. CASE Rename
    <3> DEFINE d == [dir EXCEPT !["rules"] = dir[".tmp"], ![".tmp"] = None]
    <3>1. (SetDir(d) \/ UNCHANGED hist) /\ Tmp # None
      BY <1>2, <2>5 DEF Rename, RenameFile, fsVars, IInv, Control
    <3>2. d \in Dir /\ d["rules"] = Tmp
      BY <2>0 DEF Dir, Tmp
    <3> HIDE DEF d
    <3> QED
      BY <1>2, <2>0, <2>1, <3>1, <3>2, StayAppend
  <2>6. CASE PowerFailure
    <3>1. hist' = <<dir'>> /\ Len(hist') = 1 /\ hist'[1] = dir'
      BY <2>6 DEF PowerFailure, Reboot
    <3> QED
      BY <3>1 DEF StayOrder
  <2>7. CASE Journal
    BY <1>2, <2>0, <2>7, StayCommit DEF Journal
  <2> QED
    BY <1>2, <2>3, <2>4, <2>5, <2>6, <2>7 DEF Next
<1> QED
  BY <1>1, <1>2, Invariance, PTL DEF Spec

(* When every directory that may come back has a rules file, so has every  *)
(* one after a change that leaves the rules file in place.                 *)
LEMMA KeptAppend ==
  ASSUME FileTypeOK(Data), NEW d \in Dir, SetDir(d), d["rules"] # None,
         \A k \in 1 .. Len(hist) : hist[k]["rules"] # None
  PROVE  \A k \in 1 .. Len(hist') : hist'[k]["rules"] # None
<1>1. hist \in Seq(Dir) /\ Len(hist) \in Nat /\ hist' = Append(hist, d)
  BY DEF FileTypeOK, SetDir
<1>2. /\ Len(hist') = Len(hist) + 1
      /\ \A k \in 1 .. Len(hist) : hist'[k] = hist[k]
      /\ hist'[Len(hist) + 1] = d
  BY <1>1, AppendProperties
<1> QED
  BY <1>1, <1>2

(* The journal takes directories away and adds none.                       *)
LEMMA KeptCommit ==
  ASSUME FileTypeOK(Data), Commit,
         \A k \in 1 .. Len(hist) : hist[k]["rules"] # None
  PROVE  \A k \in 1 .. Len(hist') : hist'[k]["rules"] # None
<1>1. hist \in Seq(Dir) /\ Len(hist) \in Nat
  BY DEF FileTypeOK
<1>2. PICK m \in 2 .. Len(hist) : hist' = SubSeq(hist, m, Len(hist))
  BY DEF Commit
<1>3. /\ Len(hist') = Len(hist) - m + 1
      /\ \A j \in 1 .. Len(hist') : hist'[j] = hist[m + j - 1]
  BY <1>1, <1>2
<1>4. \A j \in 1 .. Len(hist') : m + j - 1 \in 1 .. Len(hist)
  BY <1>1, <1>3
<1> QED
  BY <1>3, <1>4

(***************************************************************************)
(* Only a power failure takes the rules file away, and none does once a    *)
(* directory with it has reached the disk.                                 *)
(***************************************************************************)
THEOREM RulesStayThm == Spec => RulesStay
<1> USE RulesFileAssumption, FileSystemAssumption
<1> DEFINE Old == \A k \in 1 .. Len(hist) : hist[k]["rules"] # None
           New == \A k \in 1 .. Len(hist') : hist'[k]["rules"] # None
           Stays == dir["rules"] # None => dir'["rules"] # None \/ PowerFailure
<1>1. ASSUME IInv, StayOrder, [Next]_vars
      PROVE  [/\ dir["rules"] # None => dir'["rules"] # None \/ PowerFailure
              /\ hist[1]["rules"] # None =>
                   \A k \in 1 .. Len(hist') : hist'[k]["rules"] # None]_vars
  <2>0. dir \in Dir /\ FileTypeOK(Data) /\ Len(hist) \in 1 .. Len(hist) /\ hist[Len(hist)] = dir
    BY <1>1 DEF IInv, FileTypeOK
  <2>1. hist[1]["rules"] # None => Old
    BY <1>1, <2>0 DEF StayOrder
  <2>2. Old => dir["rules"] # None
    BY <2>0
  <2>3. CASE UNCHANGED <<dir, hist>>
    BY <2>1, <2>3
  <2>4. ASSUME NEW d \in Dir, SetDir(d), dir["rules"] # None => d["rules"] # None
        PROVE  Stays /\ (Old => New)
    BY <2>0, <2>2, <2>4, KeptAppend DEF SetDir
  <2>5. ASSUME NEW i \in Inodes, SetDir([dir EXCEPT ![".tmp"] = i]) PROVE Stays /\ (Old => New)
    BY <2>0, <2>4, <2>5 DEF Dir
  <2>6. CASE Fopen
    <3>1. (Stays /\ (Old => New)) \/ UNCHANGED <<dir, hist>>
      BY <2>5, <2>6 DEF Fopen, Creat
    <3> QED
      BY <2>1, <2>3, <3>1
  <2>7. CASE Fprintf \/ Fdatasync \/ Fclose \/ Crash \/ UNCHANGED vars
    BY <2>3, <2>7 DEF Fprintf, Fdatasync, Fclose, Flush, Crash, vars, fsVars, Store, SyncData
  <2>8. CASE Rename
    <3> DEFINE d == [dir EXCEPT !["rules"] = dir[".tmp"], ![".tmp"] = None]
    <3>1. (SetDir(d) \/ UNCHANGED <<dir, hist>>) /\ Tmp # None
      BY <1>1, <2>8 DEF Rename, RenameFile, fsVars, IInv, Control
    <3>2. d \in Dir /\ d["rules"] = Tmp
      BY <2>0 DEF Dir, Tmp
    <3> HIDE DEF d
    <3>3. CASE SetDir(d)
      BY <2>1, <2>4, <3>1, <3>2, <3>3
    <3> QED
      BY <2>3, <3>1, <3>3
  <2>9. CASE PowerFailure
    <3>1. PICK k \in 1 .. Len(hist) : dir' = hist[k]
      BY <2>9 DEF PowerFailure, Reboot
    <3>2. Len(hist') = 1 /\ hist'[1] = dir'
      BY <2>9 DEF PowerFailure, Reboot
    <3> QED
      BY <2>1, <2>9, <3>1, <3>2
  <2>10. CASE Journal
    <3>1. dir' = dir /\ (Old => New)
      BY <2>0, <2>10, KeptCommit DEF Journal, Commit
    <3> QED
      BY <2>1, <3>1
  <2> QED
    BY <1>1, <2>6, <2>7, <2>8, <2>9, <2>10 DEF Next
<1> QED
  BY <1>1, Invariance, StayOrderInv, PTL DEF Spec, RulesStay

=============================================================================
