-------------------------- MODULE NodeTableProofs --------------------------
(***************************************************************************)
(* Proofs about NodeTable, for tables of any size, any number of threads   *)
(* and any set of ids and addresses.                                       *)
(***************************************************************************)
EXTENDS NodeTable, TLAPS

(* What a thread holds at each point of its operation.                     *)
PcOK(r) ==
  /\ r.pc \in {"ordinal", "node", "loadpartner"} => r.n \in Nodes
  /\ r.pc \notin {"ordinal", "node", "loadpartner"} => r.n = NULL
  /\ r.pc \in {"heard", "node"} => r.p \in Peers
  /\ r.pc \in {"ordinal", "node", "loadlock", "loadclear", "loadintern", "loadpartner"} => r.u \in UUID
  /\ r.pc = "ordinal" => r.o \in Ordinals

(* The parts of the type invariant, one per variable that a step changes.  *)
NodePart ==
  /\ node \in [Nodes -> NodeType]
  /\ \A i \in Nodes : node[i].valid => node[i].uuid \in UUID
PeerPart == peer \in [Peers -> PeerType]
ThreadPart ==
  /\ th \in [Threads -> ThreadType]
  /\ \A t \in Threads : PcOK(th[t])
RestPart ==
  /\ lock \in Threads \cup {Null}
  /\ file \in UUID \cup {"absent", "empty"}
  /\ known \subseteq UUID
  /\ meant \in [Nodes -> [ordinal : UUID \cup {Null}, partner : UUID \cup {Null}]]
  /\ strayed \subseteq Nodes
  /\ sees \subseteq Threads
TypeInv == NodePart /\ PeerPart /\ ThreadPart /\ RestPart

(* The ordinal of a node without one is a byte.                            *)
LEMMA NoOrdinalByte == NoOrdinal \in Byte
BY DEF NoOrdinal, Byte

(* What intern_node does to the table, whichever way it ends.              *)
LEMMA InternNodeType ==
  ASSUME NEW u \in UUID, NEW r \in Nodes \cup {NULL}, InternNode(u, r),
         NodePart
  PROVE  /\ NodePart'
         /\ r # NULL => r \in Nodes /\ node'[r].valid /\ node'[r].uuid = u
<1> USE DEF NodePart
<1>1. CASE FirstOf(NodeMatch(u), r) /\ UNCHANGED node
  BY <1>1 DEF FirstOf, NodeMatch
<1>2. CASE /\ NodeMatch(u) = {}
           /\ LastOf(FreeNodes, r)
           /\ node' = [node EXCEPT ![r] = SetUuid(@, u)]
  <2>1. r \in Nodes /\ node[r] \in NodeType
    BY <1>2 DEF LastOf, FreeNodes
  <2>2. /\ SetUuid(node[r], u) \in NodeType
        /\ SetUuid(node[r], u).uuid = u
        /\ SetUuid(node[r], u).valid = TRUE
    BY <2>1, NoOrdinalByte DEF SetUuid, NodeType
  <2>3. node'[r] = SetUuid(node[r], u) /\ \A i \in Nodes : i # r => node'[i] = node[i]
    BY <1>2, <2>1
  <2>4. node' \in [Nodes -> NodeType]
    BY <1>2, <2>1, <2>2
  <2> QED
    BY <2>1, <2>2, <2>3, <2>4
<1>3. CASE NodeMatch(u) = {} /\ FreeNodes = {} /\ r = NULL /\ UNCHANGED node
  BY <1>3
<1> QED
  BY <1>1, <1>2, <1>3 DEF InternNode

(* The same for intern_neighbor.                                           *)
LEMMA InternPeerType ==
  ASSUME NEW a \in Address, NEW r \in Peers \cup {NULL}, InternPeer(a, r), PeerPart
  PROVE  PeerPart'
<1>1. CASE UNCHANGED peer
  BY <1>1 DEF PeerPart
<1>2. CASE LastOf(FreePeers, r) /\ peer' = [peer EXCEPT ![r] = SetAddress(@, a)]
  <2>1. r \in Peers /\ peer[r] \in PeerType
    BY <1>2 DEF LastOf, FreePeers, PeerPart
  <2>2. SetAddress(peer[r], a) \in PeerType
    BY <2>1 DEF SetAddress, PeerType
  <2> QED
    BY <1>2, <2>1, <2>2 DEF PeerPart
<1> QED
  BY <1>1, <1>2 DEF InternPeer

(* A slot of the node table that gets well typed contents.                 *)
LEMMA NodeSlotType ==
  ASSUME NEW i \in Nodes, NEW x \in NodeType, NodePart, node' = [node EXCEPT ![i] = x],
         x.valid => x.uuid \in UUID
  PROVE  NodePart'
BY DEF NodePart

(* An ordinal fits its byte whatever integer the command was given.        *)
LEMMA UInt8Range == \A o \in Ordinals : UInt8(o) \in Byte
BY NodeTableAssumption DEF UInt8, Byte

(* Every step leaves the node table well typed, its valid slots with an    *)
(* id.                                                                     *)
LEMMA NodePartNext ==
  TypeInv /\ [Next]_vars => NodePart'
<1> SUFFICES ASSUME TypeInv, [Next]_vars PROVE NodePart'
  OBVIOUS
<1> USE DEF TypeInv
<1>1. ASSUME NEW t \in Threads, InsertIntern(t) PROVE NodePart'
  BY <1>1, InternNodeType DEF InsertIntern
<1>2. ASSUME NEW t \in Threads, InsertOrdinal(t) PROVE NodePart'
  <2>1. th[t].n \in Nodes /\ th[t].o \in Ordinals /\ node[th[t].n] \in NodeType
    BY <1>2 DEF InsertOrdinal, At, ThreadPart, PcOK, NodePart
  <2> DEFINE v == UInt8(th[t].o)
  <2>2. node' = [node EXCEPT ![th[t].n] = [node[th[t].n] EXCEPT !.ordinal = v]]
    BY <1>2 DEF InsertOrdinal
  <2>4. v \in Byte
    BY <2>1, UInt8Range
  <2> HIDE DEF v
  <2>3. /\ [node[th[t].n] EXCEPT !.ordinal = v] \in NodeType
        /\ [node[th[t].n] EXCEPT !.ordinal = v].valid = node[th[t].n].valid
        /\ [node[th[t].n] EXCEPT !.ordinal = v].uuid = node[th[t].n].uuid
    BY <2>1, <2>4 DEF NodeType
  <2> QED
    BY <2>1, <2>2, <2>3, NodeSlotType DEF NodePart
<1>3. ASSUME NEW t \in Threads, DiscoverNode(t) PROVE NodePart'
  BY <1>3, InternNodeType DEF DiscoverNode
<1>4. ASSUME NEW i \in Nodes, NEW b \in BOOLEAN,
             node' = [node EXCEPT ![i] = [@ EXCEPT !.partner = b]]
      PROVE  NodePart'
  <2>1. /\ [node[i] EXCEPT !.partner = b] \in NodeType
        /\ [node[i] EXCEPT !.partner = b].valid = node[i].valid
        /\ [node[i] EXCEPT !.partner = b].uuid = node[i].uuid
    BY DEF NodePart, NodeType
  <2> QED
    BY <1>4, <2>1, NodeSlotType DEF NodePart
<1>5. ASSUME NEW t \in Threads, PeerNode(t) PROVE NodePart'
  <2>1. th[t].n \in Nodes
    BY <1>5 DEF PeerNode, At, ThreadPart, PcOK
  <2> QED
    BY <1>4, <1>5, <2>1 DEF PeerNode, NodePart
<1>6. ASSUME NEW t \in Threads, RemoveNode(t) PROVE NodePart'
  <2>1. \A i \in Nodes : InvalidNode(node[i]) \in NodeType /\ ~InvalidNode(node[i]).valid
    BY DEF InvalidNode, NodeType, NodePart
  <2> QED
    BY <1>6, <2>1 DEF RemoveNode, NodePart
<1>7. ASSUME NEW t \in Threads, ClearSlot(t) PROVE NodePart'
  BY <1>4, <1>7 DEF ClearSlot, NodePart
<1>8. ASSUME NEW t \in Threads, LoadIntern(t) PROVE NodePart'
  <2>1. th[t].u \in UUID
    BY <1>8 DEF LoadIntern, At, ThreadPart, PcOK
  <2> QED
    BY <1>8, <2>1, InternNodeType DEF LoadIntern
<1>9. ASSUME NEW t \in Threads, LoadPartner(t) PROVE NodePart'
  <2>1. th[t].n \in Nodes
    BY <1>9 DEF LoadPartner, At, ThreadPart, PcOK
  <2> QED
    BY <1>4, <1>9, <2>1 DEF LoadPartner
<1>10. ASSUME Started PROVE NodePart'
  BY <1>10 DEF Started, FreeNode, NodePart, NodeType, NoOrdinal, Byte
<1>11. ASSUME UNCHANGED node PROVE NodePart'
  BY <1>11 DEF NodePart
<1> QED
  BY <1>1, <1>2, <1>3, <1>5, <1>6, <1>7, <1>8, <1>9, <1>10, <1>11
     DEF Next, Step, vars, Crash, DiscoverPeer, MakePartner, RemoveNeighbor,
         ClearStart, ClearEnd, SaveOpen, SaveLock, SaveSlot, SaveUnlock, SaveClose,
         LoadRead, LoadLock, LoadCrash

(* Every step leaves the neighbour table well typed.                       *)
LEMMA PeerPartNext ==
  TypeInv /\ [Next]_vars => PeerPart'
<1> SUFFICES ASSUME TypeInv, [Next]_vars PROVE PeerPart'
  OBVIOUS
<1> USE DEF TypeInv
<1>1. ASSUME NEW t \in Threads, DiscoverPeer(t) PROVE PeerPart'
  BY <1>1, InternPeerType DEF DiscoverPeer
<1>2. ASSUME NEW t \in Threads, MakePartner(t) PROVE PeerPart'
  BY <1>2 DEF MakePartner, At, ThreadPart, PcOK, PeerPart, PeerType
<1>3. ASSUME NEW t \in Threads, PeerNode(t) PROVE PeerPart'
  BY <1>3 DEF PeerNode, At, ThreadPart, PcOK, PeerPart, PeerType
<1>4. ASSUME NEW t \in Threads, RemoveNeighbor(t) PROVE PeerPart'
  <2>1. \A j \in Peers : InvalidPeer(peer[j]) \in PeerType
    BY DEF InvalidPeer, PeerType, PeerPart
  <2> QED
    BY <1>4, <2>1 DEF RemoveNeighbor, PeerPart
<1>5. ASSUME Started PROVE PeerPart'
  BY <1>5 DEF Started, FreePeer, PeerPart, PeerType
<1>6. ASSUME UNCHANGED peer PROVE PeerPart'
  BY <1>6 DEF PeerPart
<1> QED
  BY <1>1, <1>2, <1>3, <1>4, <1>5, <1>6
     DEF Next, Step, vars, Crash, InsertIntern, InsertOrdinal, DiscoverNode, RemoveNode,
         ClearStart, ClearSlot, ClearEnd, SaveOpen, SaveLock, SaveSlot, SaveUnlock,
         SaveClose, LoadRead, LoadLock, LoadIntern, LoadCrash, LoadPartner

(* The null pointer is no slot.                                            *)
LEMMA NullPointer == NULL \notin Nodes /\ NULL \notin Peers
BY DEF NULL, Nodes, Peers

(* A scan starts inside the table.                                         *)
LEMMA OneInRange == 1 \in 1 .. NodeSlots + 1
BY NodeTableAssumption

(* A thread that moves to a well typed local state.                        *)
LEMMA ThreadStep ==
  ASSUME NEW t \in Threads, NEW x \in ThreadType, PcOK(x), ThreadPart,
         th' = [th EXCEPT ![t] = x]
  PROVE  ThreadPart'
BY DEF ThreadPart

(* An idle thread holds no pointer.                                        *)
LEMMA IdleType == Idle \in ThreadType /\ PcOK(Idle) /\ Idle.pc = "idle" /\ Idle.n = NULL
BY NodeTableAssumption DEF Idle, ThreadType, PcOK, Pcs, Nodes, NULL, NoOrdinal

(* Every step leaves each thread with what its operation needs next.       *)
LEMMA ThreadPartNext ==
  TypeInv /\ [Next]_vars => ThreadPart'
<1> SUFFICES ASSUME TypeInv, [Next]_vars PROVE ThreadPart'
  OBVIOUS
<1> USE DEF TypeInv
<1>1. ASSUME NEW t \in Threads, InsertOrdinal(t) PROVE ThreadPart'
  BY <1>1, IdleType, ThreadStep DEF InsertOrdinal, Return
<1>2. ASSUME NEW t \in Threads, PeerNode(t) PROVE ThreadPart'
  BY <1>2, IdleType, ThreadStep DEF PeerNode, Return
<1>3. ASSUME NEW t \in Threads, SaveClose(t) PROVE ThreadPart'
  BY <1>3, IdleType, ThreadStep DEF SaveClose, Return
<1>4. ASSUME NEW t \in Threads, LoadPartner(t) PROVE ThreadPart'
  BY <1>4, IdleType, ThreadStep DEF LoadPartner, Return
<1>5. ASSUME NEW t \in Threads, ClearStart(t) PROVE ThreadPart'
  <2> DEFINE x == [th[t] EXCEPT !.pc = "clear"]
  <2>1. x \in ThreadType /\ PcOK(x)
    BY <1>5, NodeTableAssumption DEF ClearStart, At, ThreadPart, ThreadType, PcOK, Pcs, NULL, Nodes
  <2>2. th' = [th EXCEPT ![t] = x]
    BY <1>5 DEF ClearStart, Goto, Return, At
  <2> QED
    BY <2>1, <2>2, ThreadStep
<1>6. ASSUME NEW t \in Threads, ClearSlot(t) PROVE ThreadPart'
  <2> DEFINE x == [th[t] EXCEPT !.i = th[t].i + 1]
  <2>1. x \in ThreadType /\ PcOK(x)
    BY <1>6, NodeTableAssumption DEF ClearSlot, At, ThreadPart, ThreadType, PcOK, Pcs, NULL, Nodes
  <2>2. th' = [th EXCEPT ![t] = x]
    BY <1>6 DEF ClearSlot, Goto, Return, At
  <2> QED
    BY <2>1, <2>2, ThreadStep
<1>7. ASSUME NEW t \in Threads, SaveOpen(t) PROVE ThreadPart'
  <2> DEFINE x == [th[t] EXCEPT !.pc = "savelock"]
  <2>1. x \in ThreadType /\ PcOK(x)
    BY <1>7, NodeTableAssumption DEF SaveOpen, At, ThreadPart, ThreadType, PcOK, Pcs, NULL, Nodes
  <2>2. th' = [th EXCEPT ![t] = x]
    BY <1>7 DEF SaveOpen, Goto, Return, At
  <2> QED
    BY <2>1, <2>2, ThreadStep
<1>8. ASSUME NEW t \in Threads, SaveLock(t) PROVE ThreadPart'
  <2> DEFINE x == [th[t] EXCEPT !.pc = "save"]
  <2>1. x \in ThreadType /\ PcOK(x)
    BY <1>8, NodeTableAssumption DEF SaveLock, At, ThreadPart, ThreadType, PcOK, Pcs, NULL, Nodes
  <2>2. th' = [th EXCEPT ![t] = x]
    BY <1>8 DEF SaveLock, Goto, Return, At
  <2> QED
    BY <2>1, <2>2, ThreadStep
<1>9. ASSUME NEW t \in Threads, SaveUnlock(t) PROVE ThreadPart'
  <2> DEFINE x == [th[t] EXCEPT !.pc = "saveclose"]
  <2>1. x \in ThreadType /\ PcOK(x)
    BY <1>9, NodeTableAssumption DEF SaveUnlock, At, ThreadPart, ThreadType, PcOK, Pcs, NULL, Nodes
  <2>2. th' = [th EXCEPT ![t] = x]
    BY <1>9 DEF SaveUnlock, Goto, Return, At
  <2> QED
    BY <2>1, <2>2, ThreadStep
<1>10. ASSUME NEW t \in Threads, LoadLock(t) PROVE ThreadPart'
  <2> DEFINE x == [th[t] EXCEPT !.pc = "loadclear"]
  <2>1. x \in ThreadType /\ PcOK(x)
    BY <1>10, NodeTableAssumption DEF LoadLock, At, ThreadPart, ThreadType, PcOK, Pcs, NULL, Nodes
  <2>2. th' = [th EXCEPT ![t] = x]
    BY <1>10 DEF LoadLock, Goto, Return, At
  <2> QED
    BY <2>1, <2>2, ThreadStep
<1>11. ASSUME NEW t \in Threads, SaveSlot(t) PROVE ThreadPart'
  <2> DEFINE x == [th[t] EXCEPT !.i = th[t].i + 1, !.u = Line(t)]
  <2>1. th[t].i \in Nodes /\ th[t].i + 1 \in 1 .. NodeSlots + 1
    BY <1>11, NodeTableAssumption DEF SaveSlot, Nodes
  <2>2. Line(t) \in UUID \cup {Null}
    BY <2>1 DEF Line, NodePart, NodeType, ThreadPart, ThreadType
  <2>3. x \in ThreadType /\ PcOK(x)
    BY <1>11, <2>1, <2>2 DEF SaveSlot, At, ThreadPart, ThreadType, PcOK
  <2>4. th' = [th EXCEPT ![t] = x]
    BY <1>11 DEF SaveSlot
  <2> QED
    BY <2>3, <2>4, ThreadStep
<1>12. ASSUME NEW t \in Threads, ClearEnd(t) PROVE ThreadPart'
  <2> DEFINE x == [th[t] EXCEPT !.pc = "loadintern", !.i = 1]
  <2>1. CASE At(t, "clear")
    BY <1>12, <2>1, IdleType, ThreadStep DEF ClearEnd, Return
  <2>2. CASE At(t, "loadclear")
    <3>1. 1 \in 1 .. NodeSlots + 1
      BY NodeTableAssumption
    <3>2. x \in ThreadType /\ PcOK(x)
      BY <2>2, <3>1 DEF At, ThreadPart, ThreadType, PcOK, Pcs
    <3>3. th' = [th EXCEPT ![t] = x]
      BY <1>12, <2>2 DEF ClearEnd, At
    <3> QED
      BY <3>2, <3>3, ThreadStep
  <2> QED
    BY <1>12, <2>1, <2>2 DEF ClearEnd, At
<1>13. ASSUME NEW t \in Threads, InsertIntern(t) PROVE ThreadPart'
  <2>1. PICK u \in UUID, o \in Ordinals, r \in Nodes \cup {NULL} :
          th' = [th EXCEPT ![t] = IF r = NULL THEN Idle
                  ELSE [Idle EXCEPT !.pc = "ordinal", !.u = u, !.o = o, !.n = r]]
    BY <1>13 DEF InsertIntern
  <2> DEFINE x == [Idle EXCEPT !.pc = "ordinal", !.u = u, !.o = o, !.n = r]
  <2>2. r # NULL => x \in ThreadType /\ PcOK(x)
    <3>1. r # NULL => x \in ThreadType
      BY IdleType DEF ThreadType, Pcs
    <3>2. r # NULL => PcOK(x)
      BY IdleType DEF ThreadType, PcOK
    <3> QED
      BY <3>1, <3>2
  <2> QED
    BY <2>1, <2>2, IdleType, ThreadStep
<1>14. ASSUME NEW t \in Threads, DiscoverPeer(t) PROVE ThreadPart'
  <2>1. PICK r \in Peers \cup {NULL} :
          th' = [th EXCEPT ![t] = IF r = NULL THEN Idle
                  ELSE [Idle EXCEPT !.pc = "heard", !.p = r]]
    BY <1>14 DEF DiscoverPeer
  <2> DEFINE x == [Idle EXCEPT !.pc = "heard", !.p = r]
  <2>2. r # NULL => x \in ThreadType /\ PcOK(x)
    <3>1. r # NULL => x \in ThreadType
      BY IdleType DEF ThreadType, Pcs
    <3>2. r # NULL => PcOK(x)
      BY IdleType DEF ThreadType, PcOK
    <3> QED
      BY <3>1, <3>2
  <2> QED
    BY <2>1, <2>2, IdleType, ThreadStep
<1>15. ASSUME NEW t \in Threads, DiscoverNode(t) PROVE ThreadPart'
  <2>1. PICK u \in UUID, r \in Nodes \cup {NULL} :
          th' = [th EXCEPT ![t] = IF r = NULL THEN Idle
                  ELSE [th[t] EXCEPT !.pc = "node", !.u = u, !.n = r]]
    BY <1>15, NullPointer DEF DiscoverNode
  <2> DEFINE x == [th[t] EXCEPT !.pc = "node", !.u = u, !.n = r]
  <2>2. r # NULL => x \in ThreadType /\ PcOK(x)
    BY <1>15 DEF DiscoverNode, At, ThreadPart, ThreadType, PcOK, Pcs
  <2> QED
    BY <2>1, <2>2, IdleType, ThreadStep
<1>16. ASSUME NEW t \in Threads, LoadIntern(t) PROVE ThreadPart'
  <2>1. PICK r \in Nodes \cup {NULL} :
          th' = [th EXCEPT ![t] = IF r = NULL THEN Idle
                  ELSE [th[t] EXCEPT !.pc = "loadpartner", !.n = r]]
    BY <1>16, NullPointer DEF LoadIntern
  <2> DEFINE x == [th[t] EXCEPT !.pc = "loadpartner", !.n = r]
  <2>2. r # NULL => x \in ThreadType /\ PcOK(x)
    BY <1>16 DEF LoadIntern, At, ThreadPart, ThreadType, PcOK, Pcs
  <2> QED
    BY <2>1, <2>2, IdleType, ThreadStep
<1>17. ASSUME NEW t \in Threads, LoadRead(t) PROVE ThreadPart'
  <2>1. CASE Return(t)
    BY <2>1, IdleType, ThreadStep DEF Return
  <2>2. ASSUME NEW u \in UUID, th' = [th EXCEPT ![t] = [@ EXCEPT !.pc = "loadlock", !.u = u]]
        PROVE  ThreadPart'
    <3> DEFINE x == [th[t] EXCEPT !.pc = "loadlock", !.u = u]
    <3>1. x \in ThreadType /\ PcOK(x)
      BY <1>17 DEF LoadRead, At, ThreadPart, ThreadType, PcOK, Pcs
    <3> QED
      BY <2>2, <3>1, ThreadStep
  <2> QED
    BY <1>17, <2>1, <2>2 DEF LoadRead
<1>18. ASSUME Started PROVE ThreadPart'
  <2>1. [Idle EXCEPT !.pc = "load"] \in ThreadType /\ PcOK([Idle EXCEPT !.pc = "load"])
    BY NodeTableAssumption DEF Idle, ThreadType, PcOK, Pcs, Nodes, NULL, NoOrdinal
  <2> QED
    BY <1>18, <2>1, IdleType DEF Started, ThreadPart
<1>19. ASSUME UNCHANGED th PROVE ThreadPart'
  BY <1>19 DEF ThreadPart
<1> QED
  BY <1>1, <1>2, <1>3, <1>4, <1>5, <1>6, <1>7, <1>8, <1>9, <1>10, <1>11, <1>12, <1>13, <1>14, <1>15, <1>16, <1>17, <1>18, <1>19 DEF Next, Step, vars, Crash, MakePartner, RemoveNode, RemoveNeighbor, LoadCrash

(* Every step leaves the lock, the cache file and the histories well typed. *)
LEMMA RestPartNext ==
  TypeInv /\ [Next]_vars => RestPart'
<1> SUFFICES ASSUME TypeInv, [Next]_vars PROVE RestPart'
  OBVIOUS
<1> USE DEF TypeInv
<1>a. NodePart'
  BY NodePartNext
<1>b. PartnerIds' \subseteq UUID
  BY <1>a DEF NodePart, PartnerIds, Partners
<1>c. \A t \in Threads : PcOK(th[t])
  BY DEF ThreadPart
<1>d. ASSUME Observe \/ known' = known PROVE known' \subseteq UUID
  BY <1>d, <1>b DEF Observe, RestPart
<1>e. ASSUME NEW i \in Nodes, NEW u \in UUID \cup {Null},
             \/ meant' = [meant EXCEPT ![i] = [@ EXCEPT !.ordinal = u]]
             \/ meant' = [meant EXCEPT ![i] = [@ EXCEPT !.partner = u]]
      PROVE  meant' \in [Nodes -> [ordinal : UUID \cup {Null}, partner : UUID \cup {Null}]]
  BY <1>e DEF RestPart
<1>1. ASSUME NEW t \in Threads, InsertOrdinal(t) PROVE RestPart'
  <2>1. th[t].u \in UUID /\ th[t].n \in Nodes
    BY <1>1, <1>c DEF InsertOrdinal, At, PcOK
  <2>2. meant' = [meant EXCEPT ![th[t].n] = [@ EXCEPT !.ordinal = th[t].u]]
    BY <1>1 DEF InsertOrdinal
  <2>3. UNCHANGED <<lock, file, known, strayed, sees>>
    BY <1>1 DEF InsertOrdinal
  <2> QED
    BY <2>1, <2>2, <2>3, <1>d, <1>e DEF RestPart
<1>2. ASSUME NEW t \in Threads, PeerNode(t) \/ LoadPartner(t) PROVE RestPart'
  <2>1. th[t].u \in UUID /\ th[t].n \in Nodes
    BY <1>2, <1>c DEF PeerNode, LoadPartner, At, PcOK
  <2>2. \/ meant' = [meant EXCEPT ![th[t].n] = [@ EXCEPT !.partner = th[t].u]]
        \/ meant' = meant
    BY <1>2 DEF PeerNode, LoadPartner
  <2>3. Observe /\ UNCHANGED <<lock, file, strayed, sees>>
    BY <1>2 DEF PeerNode, LoadPartner
  <2> QED
    BY <2>1, <2>2, <2>3, <1>d, <1>e DEF RestPart
<1>3. ASSUME NEW t \in Threads, InsertIntern(t) \/ DiscoverNode(t) \/ LoadIntern(t) PROVE RestPart'
  <2>1. Observe /\ UNCHANGED <<lock, file, meant, strayed, sees>>
    BY <1>3 DEF InsertIntern, DiscoverNode, LoadIntern
  <2> QED
    BY <2>1, <1>d DEF RestPart
<1>4. ASSUME NEW t \in Threads, RemoveNode(t) PROVE RestPart'
  <2>1. Nobody \in [ordinal : UUID \cup {Null}, partner : UUID \cup {Null}]
    BY DEF Nobody
  <2>2. meant' \in [Nodes -> [ordinal : UUID \cup {Null}, partner : UUID \cup {Null}]]
    BY <1>4, <2>1 DEF RemoveNode, RestPart
  <2>3. strayed' \subseteq Nodes
    BY <1>4 DEF RemoveNode, NodeMatch, RestPart
  <2>4. UNCHANGED <<lock, file, known, sees>>
    BY <1>4 DEF RemoveNode
  <2> QED
    BY <2>2, <2>3, <2>4 DEF RestPart
<1>5. ASSUME NEW t \in Threads, ClearSlot(t) PROVE RestPart'
  <2>1. \/ meant' = [meant EXCEPT ![th[t].i] = [@ EXCEPT !.partner = Null]]
        \/ meant' = meant
    BY <1>5 DEF ClearSlot
  <2>2. th[t].i \in Nodes /\ UNCHANGED <<lock, file, known, strayed, sees>>
    BY <1>5 DEF ClearSlot
  <2> QED
    BY <2>1, <2>2, <1>e DEF RestPart
<1>6. ASSUME NEW t \in Threads,
             \/ ClearStart(t) \/ ClearEnd(t) \/ SaveOpen(t) \/ SaveLock(t) \/ SaveSlot(t)
             \/ SaveUnlock(t) \/ LoadLock(t)
      PROVE  RestPart'
  BY <1>6 DEF ClearStart, ClearEnd, SaveOpen, SaveLock, SaveSlot, SaveUnlock, LoadLock, RestPart
<1>7. ASSUME NEW t \in Threads, SaveClose(t) PROVE RestPart'
  <2>1. th[t].u \in UUID \cup {Null}
    BY DEF ThreadPart, ThreadType
  <2> QED
    BY <1>7, <2>1 DEF SaveClose, RestPart
<1>8. ASSUME Started, UNCHANGED <<file, known>> PROVE RestPart'
  BY <1>8 DEF Started, Nobody, RestPart
<1>9. ASSUME UNCHANGED <<lock, file, known, meant, strayed, sees>> PROVE RestPart'
  BY <1>9 DEF RestPart
<1> QED
  BY <1>1, <1>2, <1>3, <1>4, <1>5, <1>6, <1>7, <1>8, <1>9
     DEF Next, Step, vars, Crash, DiscoverPeer, MakePartner, RemoveNeighbor, LoadRead, LoadCrash

(* The tables netmgr starts with are well typed.                           *)
LEMMA TypeInit == Init => TypeInv
<1> SUFFICES ASSUME Init PROVE TypeInv
  OBVIOUS
<1>1. NodePart
  BY DEF Init, NodePart, NodeType, FreeNode, NoOrdinal, Byte
<1>2. PeerPart
  BY DEF Init, PeerPart, PeerType, FreePeer
<1>3. ThreadPart
  <2>1. [Idle EXCEPT !.pc = "load"] \in ThreadType /\ PcOK([Idle EXCEPT !.pc = "load"])
    BY NodeTableAssumption DEF Idle, ThreadType, PcOK, Pcs, Nodes, NULL, NoOrdinal
  <2> QED
    BY <2>1, IdleType DEF Init, ThreadPart
<1>4. RestPart
  BY DEF Init, Nobody, RestPart
<1> QED
  BY <1>1, <1>2, <1>3, <1>4 DEF TypeInv

(* The type invariant is inductive.                                        *)
LEMMA TypeStep == TypeInv /\ [Next]_vars => TypeInv'
BY NodePartNext, PeerPartNext, ThreadPartNext, RestPartNext DEF TypeInv

(***************************************************************************)
(* Type correctness: the pointers and scan positions of insert_node,       *)
(* Peer::node, save_cache and load_cache stay inside the tables.           *)
(***************************************************************************)
THEOREM TypeCorrect == Spec => []TypeOK
<1>1. TypeInv => TypeOK
  BY DEF TypeInv, TypeOK, NodePart, PeerPart, ThreadPart, RestPart
<1> QED
  BY <1>1, TypeInit, TypeStep, PTL DEF Spec

-----------------------------------------------------------------------------
(* Uniqueness                                                              *)

UniqueNodes ==
  \A i, j \in Nodes :
    node[i].valid /\ node[j].valid /\ node[i].uuid = node[j].uuid => i = j
UniquePeers ==
  \A i, j \in Peers :
    peer[i].valid /\ peer[j].valid /\ peer[i].addr = peer[j].addr => i = j

(* A table whose valid entries keep their ids has no new duplicates.       *)
LEMMA FewerNodes ==
  ASSUME UniqueNodes,
         \A i \in Nodes : node'[i].valid => node[i].valid /\ node'[i].uuid = node[i].uuid
  PROVE  UniqueNodes'
BY DEF UniqueNodes

(* intern_node adds an id only when no valid slot has it.                  *)
LEMMA InternNodeUnique ==
  ASSUME NEW u \in UUID, NEW r \in Nodes \cup {NULL}, InternNode(u, r), NodePart, UniqueNodes
  PROVE  UniqueNodes'
<1>1. CASE UNCHANGED node
  BY <1>1 DEF UniqueNodes
<1>2. CASE /\ NodeMatch(u) = {}
           /\ LastOf(FreeNodes, r)
           /\ node' = [node EXCEPT ![r] = SetUuid(@, u)]
  <2>1. r \in Nodes /\ node[r] \in NodeType
    BY <1>2 DEF LastOf, FreeNodes, NodePart
  <2>2. SetUuid(node[r], u).uuid = u
    BY <2>1 DEF SetUuid, NodeType
  <2>3. node'[r].uuid = u /\ \A i \in Nodes : i # r => node'[i] = node[i]
    BY <1>2, <2>1, <2>2 DEF NodePart
  <2>4. \A i \in Nodes : node[i].valid => node[i].uuid # u
    BY <1>2 DEF NodeMatch
  <2> QED
    BY <2>1, <2>3, <2>4 DEF UniqueNodes
<1> QED
  BY <1>1, <1>2 DEF InternNode

(* No step gives a node id a second valid slot.                            *)
LEMMA UniqueNodesNext ==
  TypeInv /\ UniqueNodes /\ [Next]_vars => UniqueNodes'
<1> SUFFICES ASSUME TypeInv, UniqueNodes, [Next]_vars PROVE UniqueNodes'
  OBVIOUS
<1> USE DEF TypeInv
<1>1. ASSUME NEW t \in Threads, InsertIntern(t) PROVE UniqueNodes'
  BY <1>1, InternNodeUnique DEF InsertIntern
<1>2. ASSUME NEW t \in Threads, DiscoverNode(t) PROVE UniqueNodes'
  BY <1>2, InternNodeUnique DEF DiscoverNode
<1>3. ASSUME NEW t \in Threads, LoadIntern(t) PROVE UniqueNodes'
  <2>1. th[t].u \in UUID
    BY <1>3 DEF LoadIntern, At, ThreadPart, PcOK
  <2> QED
    BY <1>3, <2>1, InternNodeUnique DEF LoadIntern
<1>4. ASSUME NEW i \in Nodes, NEW b \in BOOLEAN,
             node' = [node EXCEPT ![i] = [@ EXCEPT !.partner = b]]
      PROVE  UniqueNodes'
  BY <1>4, FewerNodes DEF NodePart, NodeType
<1>5. ASSUME NEW t \in Threads, InsertOrdinal(t) PROVE UniqueNodes'
  <2>1. th[t].n \in Nodes
    BY <1>5 DEF InsertOrdinal, At, ThreadPart, PcOK
  <2> QED
    BY <1>5, <2>1, FewerNodes DEF InsertOrdinal, NodePart, NodeType
<1>6. ASSUME NEW t \in Threads, PeerNode(t) PROVE UniqueNodes'
  <2>1. th[t].n \in Nodes
    BY <1>6 DEF PeerNode, At, ThreadPart, PcOK
  <2> QED
    BY <1>4, <1>6, <2>1 DEF PeerNode, UniqueNodes
<1>7. ASSUME NEW t \in Threads, RemoveNode(t) PROVE UniqueNodes'
  <2>1. \A i \in Nodes : ~InvalidNode(node[i]).valid
    BY DEF InvalidNode, NodeType, NodePart
  <2>2. \A i \in Nodes : node'[i].valid => node'[i] = node[i]
    BY <1>7, <2>1 DEF RemoveNode
  <2> QED
    BY <2>2, FewerNodes
<1>8. ASSUME NEW t \in Threads, ClearSlot(t) PROVE UniqueNodes'
  BY <1>4, <1>8 DEF ClearSlot, UniqueNodes
<1>9. ASSUME NEW t \in Threads, LoadPartner(t) PROVE UniqueNodes'
  <2>1. th[t].n \in Nodes
    BY <1>9 DEF LoadPartner, At, ThreadPart, PcOK
  <2> QED
    BY <1>4, <1>9, <2>1 DEF LoadPartner
<1>10. ASSUME Started PROVE UniqueNodes'
  BY <1>10 DEF Started, FreeNode, UniqueNodes
<1>11. ASSUME UNCHANGED node PROVE UniqueNodes'
  BY <1>11 DEF UniqueNodes
<1> QED
  BY <1>1, <1>2, <1>3, <1>5, <1>6, <1>7, <1>8, <1>9, <1>10, <1>11
     DEF Next, Step, vars, Crash, DiscoverPeer, MakePartner, RemoveNeighbor,
         ClearStart, ClearEnd, SaveOpen, SaveLock, SaveSlot, SaveUnlock, SaveClose,
         LoadRead, LoadLock, LoadCrash

(* No step gives a peer address a second valid slot.                       *)
LEMMA UniquePeersNext ==
  TypeInv /\ UniquePeers /\ [Next]_vars => UniquePeers'
<1> SUFFICES ASSUME TypeInv, UniquePeers, [Next]_vars PROVE UniquePeers'
  OBVIOUS
<1> USE DEF TypeInv
<1>1. ASSUME NEW t \in Threads, DiscoverPeer(t) PROVE UniquePeers'
  <2>1. PICK a \in Address, r \in Peers \cup {NULL} : InternPeer(a, r)
    BY <1>1 DEF DiscoverPeer
  <2>2. CASE UNCHANGED peer
    BY <2>2 DEF UniquePeers
  <2>3. CASE /\ PeerMatch(a) = {}
             /\ LastOf(FreePeers, r)
             /\ peer' = [peer EXCEPT ![r] = SetAddress(@, a)]
    <3>1. r \in Peers /\ peer[r] \in PeerType
      BY <2>3 DEF LastOf, FreePeers, PeerPart
    <3>2. SetAddress(peer[r], a).addr = a
      BY <3>1 DEF SetAddress, PeerType
    <3>3. peer'[r].addr = a /\ \A i \in Peers : i # r => peer'[i] = peer[i]
      BY <2>3, <3>1, <3>2 DEF PeerPart
    <3>4. \A i \in Peers : peer[i].valid => peer[i].addr # a
      BY <2>3 DEF PeerMatch
    <3> QED
      BY <3>1, <3>3, <3>4 DEF UniquePeers
  <2> QED
    BY <2>1, <2>2, <2>3 DEF InternPeer
<1>2. ASSUME \A j \in Peers : peer'[j].valid => peer[j].valid /\ peer'[j].addr = peer[j].addr
      PROVE  UniquePeers'
  BY <1>2 DEF UniquePeers
<1>3. ASSUME NEW t \in Threads, MakePartner(t) PROVE UniquePeers'
  <2>1. th[t].p \in Peers
    BY <1>3 DEF MakePartner, At, ThreadPart, PcOK
  <2> QED
    BY <1>2, <1>3, <2>1 DEF MakePartner, PeerPart, PeerType
<1>4. ASSUME NEW t \in Threads, PeerNode(t) PROVE UniquePeers'
  <2>1. th[t].p \in Peers
    BY <1>4 DEF PeerNode, At, ThreadPart, PcOK
  <2> QED
    BY <1>2, <1>4, <2>1 DEF PeerNode, PeerPart, PeerType
<1>5. ASSUME NEW t \in Threads, RemoveNeighbor(t) PROVE UniquePeers'
  <2>1. \A j \in Peers : ~InvalidPeer(peer[j]).valid
    BY DEF InvalidPeer, PeerType, PeerPart
  <2>2. \A j \in Peers : peer'[j].valid => peer'[j] = peer[j]
    BY <1>5, <2>1 DEF RemoveNeighbor
  <2> QED
    BY <1>2, <2>2
<1>6. ASSUME Started PROVE UniquePeers'
  BY <1>6 DEF Started, FreePeer, UniquePeers
<1>7. ASSUME UNCHANGED peer PROVE UniquePeers'
  BY <1>7 DEF UniquePeers
<1> QED
  BY <1>1, <1>3, <1>4, <1>5, <1>6, <1>7
     DEF Next, Step, vars, Crash, InsertIntern, InsertOrdinal, DiscoverNode, RemoveNode,
         ClearStart, ClearSlot, ClearEnd, SaveOpen, SaveLock, SaveSlot, SaveUnlock,
         SaveClose, LoadRead, LoadLock, LoadIntern, LoadCrash, LoadPartner

(***************************************************************************)
(* intern_node and intern_neighbor never give an id or an address a second *)
(* valid slot, whatever other threads remove meanwhile and although they   *)
(* write through pointers to slots that were removed.                      *)
(***************************************************************************)
THEOREM UniqueEntriesThm == Spec => []UniqueEntries
<1>1. Init => UniqueNodes /\ UniquePeers
  BY DEF Init, FreeNode, FreePeer, UniqueNodes, UniquePeers
<1>2. UniqueNodes /\ UniquePeers => UniqueEntries
  BY DEF UniqueNodes, UniquePeers, UniqueEntries
<1> QED
  BY <1>1, <1>2, TypeInit, TypeStep, UniqueNodesNext, UniquePeersNext, PTL DEF Spec

-----------------------------------------------------------------------------
(* Pointers used after the mutex is released                               *)

(* A pointer names the node it was taken for, unless its slot was removed  *)
(* while it was held.                                                      *)
PointersHold ==
  \A t \in Threads :
    th[t].n # NULL /\ th[t].n \notin strayed => node[th[t].n].valid /\ node[th[t].n].uuid = th[t].u

(* intern_node leaves the valid entries alone.                             *)
LEMMA InternKeeps ==
  ASSUME NEW u \in UUID, NEW r \in Nodes \cup {NULL}, InternNode(u, r), NodePart
  PROVE  \A i \in Nodes : node[i].valid => node'[i] = node[i]
BY DEF InternNode, LastOf, FreeNodes, NodePart

KeepsIds == \A i \in Nodes : node'[i].valid = node[i].valid /\ node'[i].uuid = node[i].uuid
KeepsPointers ==
  \A t \in Threads : \/ th'[t].n = NULL
                     \/ th'[t].n = th[t].n /\ th'[t].u = th[t].u

(* The steps that neither change an id nor hand out a pointer.             *)
LEMMA KeepBoth ==
  ASSUME TypeInv, PointersHold, KeepsIds, KeepsPointers, strayed' = strayed
  PROVE  PointersHold'
BY DEF TypeInv, ThreadPart, ThreadType, PointersHold, KeepsIds, KeepsPointers

(* A thread that returns, or that goes on to a point without a pointer.    *)
LEMMA NoPointer ==
  ASSUME NEW t \in Threads, NEW x, x.n = NULL, ThreadPart, th' = [th EXCEPT ![t] = x]
  PROVE  KeepsPointers
BY DEF KeepsPointers, ThreadPart

(* A write of the ordinal or of the partner flag.                          *)
LEMMA FieldWrite ==
  ASSUME NEW i \in Nodes, NodePart,
         \/ \E b \in BOOLEAN : node' = [node EXCEPT ![i] = [@ EXCEPT !.partner = b]]
         \/ \E o \in Byte : node' = [node EXCEPT ![i] = [@ EXCEPT !.ordinal = o]]
  PROVE  KeepsIds
BY DEF KeepsIds, NodePart, NodeType

(* A pointer that intern_node has just returned.                           *)
LEMMA NewPointer ==
  ASSUME NEW t \in Threads, NEW u \in UUID, NEW r \in Nodes \cup {NULL}, InternNode(u, r),
         TypeInv, PointersHold, strayed' = strayed, NEW x, th' = [th EXCEPT ![t] = x],
         \/ x.n = NULL
         \/ x.n = r /\ r # NULL /\ x.u = u
  PROVE  PointersHold'
<1>1. \A i \in Nodes : node[i].valid => node'[i] = node[i]
  BY InternKeeps DEF TypeInv
<1>2. r # NULL => node'[r].valid /\ node'[r].uuid = u
  BY InternNodeType DEF TypeInv
<1>3. th'[t] = x /\ \A q \in Threads : q # t => th'[q] = th[q]
  BY DEF TypeInv, ThreadPart
<1>4. \A q \in Threads : th[q].n \in Nodes \cup {NULL}
  BY DEF TypeInv, ThreadPart, ThreadType
<1> QED
  BY <1>1, <1>2, <1>3, <1>4 DEF PointersHold

(* Only remove_node makes a pointer stale.                                 *)
LEMMA PointersNext ==
  ASSUME TypeInv, PointersHold, [Next]_vars
  PROVE  PointersHold'
<1>a. \A t \in Threads : PcOK(th[t])
  BY DEF TypeInv, ThreadPart
<1>b. \A i \in Nodes : node[i].valid \in BOOLEAN
  BY DEF TypeInv, NodePart, NodeType
<1>1. ASSUME NEW t \in Threads, InsertIntern(t) PROVE PointersHold'
  <2>1. PICK u \in UUID, o \in Ordinals, r \in Nodes \cup {NULL} :
          /\ InternNode(u, r)
          /\ th' = [th EXCEPT ![t] = IF r = NULL THEN Idle
                     ELSE [Idle EXCEPT !.pc = "ordinal", !.u = u, !.o = o, !.n = r]]
    BY <1>1 DEF InsertIntern
  <2> DEFINE x == IF r = NULL THEN Idle
                  ELSE [Idle EXCEPT !.pc = "ordinal", !.u = u, !.o = o, !.n = r]
  <2>2. x.n = NULL \/ (x.n = r /\ r # NULL /\ x.u = u)
    BY DEF Idle
  <2> HIDE DEF x
  <2>3. th' = [th EXCEPT ![t] = x]
    BY <2>1 DEF x
  <2>4. strayed' = strayed
    BY <1>1 DEF InsertIntern
  <2> QED
    BY <2>1, <2>2, <2>3, <2>4, NewPointer
<1>2. ASSUME NEW t \in Threads, DiscoverNode(t) PROVE PointersHold'
  <2>1. PICK u \in UUID, r \in Nodes \cup {NULL} :
          /\ InternNode(u, r)
          /\ th' = [th EXCEPT ![t] = IF r = NULL THEN Idle
                     ELSE [th[t] EXCEPT !.pc = "node", !.u = u, !.n = r]]
    BY <1>2 DEF DiscoverNode
  <2> DEFINE x == IF r = NULL THEN Idle ELSE [th[t] EXCEPT !.pc = "node", !.u = u, !.n = r]
  <2>2. x.n = NULL \/ (x.n = r /\ r # NULL /\ x.u = u)
    BY DEF Idle, TypeInv, ThreadPart, ThreadType
  <2>3. strayed' = strayed
    BY <1>2 DEF DiscoverNode
  <2> HIDE DEF x
  <2>4. th' = [th EXCEPT ![t] = x]
    BY <2>1 DEF x
  <2> QED
    BY <2>1, <2>2, <2>3, <2>4, NewPointer
<1>3. ASSUME NEW t \in Threads, LoadIntern(t) PROVE PointersHold'
  <2>1. PICK r \in Nodes :
          /\ InternNode(th[t].u, r)
          /\ th' = [th EXCEPT ![t] = [th[t] EXCEPT !.pc = "loadpartner", !.n = r]]
    BY <1>3 DEF LoadIntern
  <2> DEFINE x == [th[t] EXCEPT !.pc = "loadpartner", !.n = r]
  <2>2. x.n = r /\ r # NULL /\ x.u = th[t].u
    BY NullPointer DEF TypeInv, ThreadPart, ThreadType
  <2>3. th[t].u \in UUID
    BY <1>3, <1>a DEF LoadIntern, At, PcOK
  <2> HIDE DEF x
  <2>4. th' = [th EXCEPT ![t] = x]
    BY <2>1 DEF x
  <2>5. r \in Nodes \cup {NULL} /\ InternNode(th[t].u, r) /\ strayed' = strayed
    BY <1>3, <2>1 DEF LoadIntern
  <2> QED
    BY <2>2, <2>3, <2>4, <2>5, NewPointer
<1>4. ASSUME NEW t \in Threads, RemoveNode(t) PROVE PointersHold'
  <2>1. PICK u \in UUID :
          /\ node' = [i \in Nodes |-> IF i \in NodeMatch(u) THEN InvalidNode(node[i]) ELSE node[i]]
          /\ strayed' = (strayed \ NodeMatch(u)) \cup {i \in NodeMatch(u) : InUse(i)}
    BY <1>4 DEF RemoveNode
  <2>2. \A q \in Threads : th[q].n # NULL /\ th[q].n \notin strayed' =>
          th[q].n \notin strayed /\ node'[th[q].n] = node[th[q].n]
    BY <2>1 DEF InUse, TypeInv, ThreadPart, ThreadType
  <2>3. UNCHANGED th
    BY <1>4 DEF RemoveNode
  <2> QED
    BY <2>2, <2>3 DEF PointersHold
<1>5. ASSUME KeepsPointers, UNCHANGED <<node, strayed>> PROVE PointersHold'
  BY <1>5, KeepBoth DEF KeepsIds
<1>6. ASSUME NEW t \in Threads, Return(t) PROVE KeepsPointers
  BY <1>6, IdleType, NoPointer DEF Return, TypeInv
<1>7. ASSUME NEW t \in Threads, InsertOrdinal(t) PROVE PointersHold'
  <2>1. th[t].n \in Nodes /\ UInt8(th[t].o) \in Byte
    BY <1>7, <1>a, UInt8Range DEF InsertOrdinal, At, PcOK
  <2>2. KeepsIds
    BY <1>7, <2>1, FieldWrite DEF InsertOrdinal, TypeInv
  <2> QED
    BY <1>6, <1>7, <2>2, KeepBoth DEF InsertOrdinal
<1>8. ASSUME NEW t \in Threads, PeerNode(t) PROVE PointersHold'
  <2>1. th[t].n \in Nodes
    BY <1>8, <1>a DEF PeerNode, At, PcOK
  <2>2. KeepsIds
    BY <1>8, <2>1, FieldWrite DEF PeerNode, TypeInv, KeepsIds
  <2> QED
    BY <1>6, <1>8, <2>2, KeepBoth DEF PeerNode
<1>9. ASSUME NEW t \in Threads, LoadPartner(t) PROVE PointersHold'
  <2>1. th[t].n \in Nodes
    BY <1>9, <1>a DEF LoadPartner, At, PcOK
  <2> QED
    BY <1>6, <1>9, <2>1, FieldWrite, KeepBoth DEF LoadPartner, TypeInv
<1>10. ASSUME NEW t \in Threads, ClearSlot(t) PROVE PointersHold'
  <2>1. KeepsIds
    BY <1>10, FieldWrite DEF ClearSlot, TypeInv, KeepsIds
  <2>2. KeepsPointers
    BY <1>10 DEF ClearSlot, KeepsPointers, TypeInv, ThreadPart, ThreadType
  <2> QED
    BY <1>10, <2>1, <2>2, KeepBoth DEF ClearSlot
<1>11. ASSUME NEW t \in Threads, DiscoverPeer(t) PROVE PointersHold'
  <2>1. PICK x : x.n = NULL /\ th' = [th EXCEPT ![t] = x]
    BY <1>11, IdleType DEF DiscoverPeer, Idle
  <2> QED
    BY <1>5, <1>11, <2>1, NoPointer DEF DiscoverPeer, TypeInv
<1>12. ASSUME NEW t \in Threads, ClearStart(t) \/ SaveOpen(t) \/ SaveLock(t) \/ SaveUnlock(t) \/ LoadLock(t)
       PROVE  PointersHold'
  <2>1. KeepsPointers
    BY <1>12 DEF ClearStart, SaveOpen, SaveLock, SaveUnlock, LoadLock, Goto,
                 KeepsPointers, TypeInv, ThreadPart, ThreadType
  <2> QED
    BY <1>5, <1>12, <2>1 DEF ClearStart, SaveOpen, SaveLock, SaveUnlock, LoadLock
<1>13. ASSUME NEW t \in Threads, ClearEnd(t) PROVE PointersHold'
  <2>1. CASE At(t, "clear")
    BY <1>5, <1>6, <1>13, <2>1 DEF ClearEnd
  <2>2. CASE ~At(t, "clear")
    <3>1. th' = [th EXCEPT ![t] = [th[t] EXCEPT !.pc = "loadintern", !.i = 1]]
      BY <1>13, <2>2 DEF ClearEnd
    <3>2. KeepsPointers
      BY <3>1 DEF KeepsPointers, TypeInv, ThreadPart, ThreadType
    <3> QED
      BY <1>5, <1>13, <3>2 DEF ClearEnd
  <2> QED
    BY <2>1, <2>2
<1>14. ASSUME NEW t \in Threads, SaveSlot(t) PROVE PointersHold'
  <2>1. th[t].n = NULL
    BY <1>14, <1>a DEF SaveSlot, At, PcOK
  <2>2. [th[t] EXCEPT !.i = th[t].i + 1, !.u = Line(t)].n = NULL
    BY <2>1 DEF TypeInv, ThreadPart, ThreadType
  <2> QED
    BY <1>5, <1>14, <2>2, NoPointer DEF SaveSlot, TypeInv
<1>15. ASSUME NEW t \in Threads, SaveClose(t) PROVE PointersHold'
  BY <1>5, <1>6, <1>15 DEF SaveClose
<1>16. ASSUME NEW t \in Threads, LoadRead(t) PROVE PointersHold'
  <2>1. CASE Return(t)
    BY <1>5, <1>6, <1>16, <2>1 DEF LoadRead
  <2>2. ASSUME NEW u \in UUID, th' = [th EXCEPT ![t] = [@ EXCEPT !.pc = "loadlock", !.u = u]]
        PROVE  KeepsPointers
    <3>1. th[t].n = NULL
      BY <1>16, <1>a DEF LoadRead, At, PcOK
    <3>2. [th[t] EXCEPT !.pc = "loadlock", !.u = u].n = NULL
      BY <3>1 DEF TypeInv, ThreadPart, ThreadType
    <3> QED
      BY <2>2, <3>2, NoPointer DEF TypeInv
  <2> QED
    BY <1>5, <1>16, <2>1, <2>2 DEF LoadRead
<1>17. ASSUME Started PROVE PointersHold'
  <2>1. \A q \in Threads : th'[q].n = NULL
    BY <1>17 DEF Started, Idle
  <2> QED
    BY <2>1 DEF PointersHold
<1>18. ASSUME UNCHANGED <<node, th, strayed>> PROVE PointersHold'
  BY <1>18 DEF PointersHold
<1> QED
  BY <1>1, <1>2, <1>3, <1>4, <1>7, <1>8, <1>9, <1>10, <1>11, <1>12, <1>13, <1>14, <1>15,
     <1>16, <1>17, <1>18
     DEF Next, Step, vars, Crash, MakePartner, RemoveNeighbor, LoadCrash

-----------------------------------------------------------------------------
(* What a slot that is used again brings along                             *)

(* An invalid slot n is no partner, since Node::uuid would leave the flag  *)
(* set, and what a valid one has was set for its id; m is its history.     *)
Clean(n, m) ==
  /\ ~n.valid => ~n.partner
  /\ n.valid => /\ n.ordinal # NoOrdinal => m.ordinal = n.uuid
                /\ n.partner => m.partner = n.uuid
AllClean == \A i \in Nodes : i \in strayed \/ Clean(node[i], meant[i])

UseInv == TypeInv /\ PointersHold /\ AllClean

(* One slot is written, by a write that leaves it clean.                   *)
LEMMA CleanSlot ==
  ASSUME NEW i \in Nodes, NEW x, NEW m, AllClean, TypeInv,
         node' = [node EXCEPT ![i] = x], meant' = [meant EXCEPT ![i] = m],
         strayed' = strayed, i \in strayed \/ Clean(x, m)
  PROVE  AllClean'
<1>1. /\ node'[i] = x /\ meant'[i] = m
      /\ \A k \in Nodes : k # i => node'[k] = node[k] /\ meant'[k] = meant[k]
  BY DEF TypeInv, NodePart, RestPart
<1> QED
  BY <1>1 DEF AllClean

(* intern_node takes a slot that is no partner and resets the ordinal.     *)
LEMMA InternClean ==
  ASSUME NEW u \in UUID, NEW r \in Nodes \cup {NULL}, InternNode(u, r), TypeInv, AllClean,
         UNCHANGED <<meant, strayed>>
  PROVE  AllClean'
<1>1. CASE UNCHANGED node
  BY <1>1 DEF AllClean
<1>2. CASE LastOf(FreeNodes, r) /\ node' = [node EXCEPT ![r] = SetUuid(@, u)]
  <2>1. r \in Nodes /\ node[r] \in NodeType /\ ~node[r].valid
    BY <1>2 DEF LastOf, FreeNodes, TypeInv, NodePart
  <2>2. r \in strayed \/ ~node[r].partner
    BY <2>1 DEF AllClean, Clean
  <2>3. /\ SetUuid(node[r], u).valid = TRUE
        /\ SetUuid(node[r], u).ordinal = NoOrdinal
        /\ SetUuid(node[r], u).partner = node[r].partner
    BY <2>1 DEF SetUuid, NodeType
  <2>4. r \in strayed \/ Clean(SetUuid(node[r], u), meant[r])
    BY <2>2, <2>3 DEF Clean
  <2>5. \A i \in Nodes : node'[i] = IF i = r THEN SetUuid(node[r], u) ELSE node[i]
    BY <1>2, <2>1 DEF TypeInv, NodePart
  <2> QED
    BY <2>4, <2>5 DEF AllClean
<1> QED
  BY <1>1, <1>2 DEF InternNode

(* No step lets a slot that is not strayed pass anything on.               *)
LEMMA CleanNext ==
  ASSUME UseInv, [Next]_vars
  PROVE  AllClean'
<1>a. TypeInv /\ AllClean /\ \A t \in Threads : PcOK(th[t])
  BY DEF UseInv, TypeInv, ThreadPart
<1>b. \A i \in Nodes : /\ node[i] \in NodeType
                       /\ meant[i] \in [ordinal : UUID \cup {Null}, partner : UUID \cup {Null}]
  BY <1>a DEF TypeInv, NodePart, RestPart
<1>c. \A t \in Threads : th[t].n \in Nodes =>
        th[t].n \in strayed \/ (node[th[t].n].valid /\ node[th[t].n].uuid = th[t].u)
  BY NullPointer DEF UseInv, PointersHold
<1>1. ASSUME NEW t \in Threads, InsertIntern(t) PROVE AllClean'
  BY <1>1, <1>a, InternClean DEF InsertIntern
<1>2. ASSUME NEW t \in Threads, DiscoverNode(t) PROVE AllClean'
  BY <1>2, <1>a, InternClean DEF DiscoverNode
<1>3. ASSUME NEW t \in Threads, LoadIntern(t) PROVE AllClean'
  <2>1. th[t].u \in UUID
    BY <1>3, <1>a DEF LoadIntern, At, PcOK
  <2> QED
    BY <1>3, <1>a, <2>1, InternClean DEF LoadIntern
<1>4. ASSUME NEW t \in Threads, InsertOrdinal(t) PROVE AllClean'
  <2> DEFINE n == th[t].n
             v == UInt8(th[t].o)
             x == [node[n] EXCEPT !.ordinal = v]
             m == [meant[n] EXCEPT !.ordinal = th[t].u]
  <2>1. n \in Nodes
    BY <1>4, <1>a DEF InsertOrdinal, At, PcOK
  <2>2. /\ node' = [node EXCEPT ![n] = x]
        /\ meant' = [meant EXCEPT ![n] = m]
        /\ strayed' = strayed
    BY <1>4 DEF InsertOrdinal
  <2> HIDE DEF v
  <2>3. /\ x.valid = node[n].valid /\ x.uuid = node[n].uuid /\ x.partner = node[n].partner
        /\ m.ordinal = th[t].u /\ m.partner = meant[n].partner
    BY <2>1, <1>b DEF NodeType
  <2>4. n \in strayed \/ Clean(x, m)
    BY <2>1, <2>3, <1>a, <1>c DEF AllClean, Clean
  <2> HIDE DEF x, m
  <2> QED
    BY <2>1, <2>2, <2>4, <1>a, CleanSlot
<1>5. ASSUME NEW i \in Nodes, NEW u, i \in strayed \/ (node[i].valid /\ node[i].uuid = u),
             node' = [node EXCEPT ![i] = [@ EXCEPT !.partner = TRUE]],
             meant' = [meant EXCEPT ![i] = [@ EXCEPT !.partner = u]], strayed' = strayed
      PROVE  AllClean'
  <2> DEFINE x == [node[i] EXCEPT !.partner = TRUE]
             m == [meant[i] EXCEPT !.partner = u]
  <2>1. /\ x.valid = node[i].valid /\ x.uuid = node[i].uuid /\ x.ordinal = node[i].ordinal
        /\ m.ordinal = meant[i].ordinal /\ m.partner = u
    BY <1>b DEF NodeType
  <2>2. i \in strayed \/ Clean(x, m)
    BY <1>5, <2>1, <1>a DEF AllClean, Clean
  <2>3. node' = [node EXCEPT ![i] = x] /\ meant' = [meant EXCEPT ![i] = m]
    BY <1>5
  <2> HIDE DEF x, m
  <2> QED
    BY <1>5, <2>2, <2>3, <1>a, CleanSlot
<1>6. ASSUME UNCHANGED <<node, meant, strayed>> PROVE AllClean'
  BY <1>6, <1>a DEF AllClean
<1>7. ASSUME NEW t \in Threads, PeerNode(t) PROVE AllClean'
  <2>1. th[t].n \in Nodes
    BY <1>7, <1>a DEF PeerNode, At, PcOK
  <2> QED
    BY <1>5, <1>6, <1>7, <2>1, <1>c DEF PeerNode
<1>8. ASSUME NEW t \in Threads, LoadPartner(t) PROVE AllClean'
  <2>1. th[t].n \in Nodes
    BY <1>8, <1>a DEF LoadPartner, At, PcOK
  <2> QED
    BY <1>5, <1>8, <2>1, <1>c DEF LoadPartner
<1>9. ASSUME NEW t \in Threads, RemoveNode(t) PROVE AllClean'
  <2>1. PICK u \in UUID :
          /\ node' = [i \in Nodes |-> IF i \in NodeMatch(u) THEN InvalidNode(node[i]) ELSE node[i]]
          /\ meant' = [i \in Nodes |-> IF i \in NodeMatch(u) THEN Nobody ELSE meant[i]]
          /\ strayed' = (strayed \ NodeMatch(u)) \cup {i \in NodeMatch(u) : InUse(i)}
    BY <1>9 DEF RemoveNode
  <2>2. ASSUME NEW i \in Nodes PROVE i \in strayed' \/ Clean(node'[i], meant'[i])
    <3>1. CASE i \in NodeMatch(u)
      <4>1. ~InvalidNode(node[i]).valid /\ ~InvalidNode(node[i]).partner
        BY <1>b DEF InvalidNode, NodeType
      <4> QED
        BY <2>1, <3>1, <4>1 DEF Clean
    <3>2. CASE i \notin NodeMatch(u)
      BY <2>1, <3>2, <1>a DEF AllClean
    <3> QED
      BY <3>1, <3>2
  <2> QED
    BY <2>2 DEF AllClean
<1>10. ASSUME NEW t \in Threads, ClearSlot(t) PROVE AllClean'
  <2> DEFINE i == th[t].i
             x == [node[i] EXCEPT !.partner = FALSE]
             m == [meant[i] EXCEPT !.partner = Null]
  <2>1. CASE node[i].valid /\ node[i].partner
    <3>1. /\ i \in Nodes
          /\ node' = [node EXCEPT ![i] = x]
          /\ meant' = [meant EXCEPT ![i] = m]
          /\ strayed' = strayed
      BY <1>10, <2>1 DEF ClearSlot
    <3>2. /\ x.valid = node[i].valid /\ x.uuid = node[i].uuid /\ x.ordinal = node[i].ordinal
          /\ x.partner = FALSE /\ m.ordinal = meant[i].ordinal
      BY <3>1, <1>b DEF NodeType
    <3>3. i \in strayed \/ Clean(x, m)
      BY <3>1, <3>2, <1>a DEF AllClean, Clean
    <3> HIDE DEF x, m
    <3> QED
      BY <3>1, <3>3, <1>a, CleanSlot
  <2>2. CASE ~(node[i].valid /\ node[i].partner)
    BY <1>6, <1>10, <2>2 DEF ClearSlot
  <2> QED
    BY <2>1, <2>2
<1>11. ASSUME Started PROVE AllClean'
  BY <1>11 DEF Started, FreeNode, Clean, AllClean
<1> QED
  BY <1>1, <1>2, <1>3, <1>4, <1>6, <1>7, <1>8, <1>9, <1>10, <1>11
     DEF Next, Step, vars, Crash, DiscoverPeer, MakePartner, RemoveNeighbor,
         ClearStart, ClearEnd, SaveOpen, SaveLock, SaveSlot, SaveUnlock, SaveClose,
         LoadRead, LoadLock, LoadCrash

(***************************************************************************)
(* No node inherits the ordinal or the partner flag of the node that had   *)
(* its slot before, although Node::uuid leaves the flag as it finds it, as *)
(* long as its slot was not removed under a thread that was using it.      *)
(***************************************************************************)
THEOREM NothingInheritedThm == Spec => []NothingInherited
<1>1. Init => UseInv
  <2> SUFFICES ASSUME Init PROVE UseInv
    OBVIOUS
  <2>1. PointersHold
    BY DEF Init, Idle, PointersHold
  <2>2. AllClean
    BY DEF Init, FreeNode, AllClean, Clean
  <2> QED
    BY <2>1, <2>2, TypeInit DEF UseInv
<1>2. UseInv /\ [Next]_vars => UseInv'
  BY TypeStep, PointersNext, CleanNext DEF UseInv
<1>3. UseInv => NothingInherited
  BY DEF UseInv, AllClean, Clean, NothingInherited
<1> QED
  BY <1>1, <1>2, <1>3, PTL DEF Spec

-----------------------------------------------------------------------------
(* The cache file                                                          *)

(* What save_cache carries in local state r: nothing before the scan, then *)
(* nothing or an id that was a partner, given the history K of partners.   *)
Carries(r, K) ==
  /\ r.pc \in {"idle", "savelock"} => r.u = Null
  /\ r.pc \in {"save", "saveclose"} => r.u \in K \cup {Null}

CacheInv ==
  /\ TypeInv
  /\ PartnerIds \subseteq known
  /\ \A t \in Threads : Carries(th[t], known)
  /\ CacheHoldsPartner

(* An id that was a partner stays one that was a partner.                  *)
LEMMA CarriesMore ==
  ASSUME NEW r, NEW K, NEW L, K \subseteq L, Carries(r, K)
  PROVE  Carries(r, L)
BY DEF Carries

(* A thread moves to a local state that carries only partners.             *)
LEMMA CarryStep ==
  ASSUME NEW t \in Threads, NEW x, ThreadPart, \A q \in Threads : Carries(th[q], known),
         Carries(x, known'), known \subseteq known', th' = [th EXCEPT ![t] = x]
  PROVE  \A q \in Threads : Carries(th'[q], known')
BY CarriesMore DEF ThreadPart

(* An idle thread carries nothing.                                         *)
LEMMA IdleCarries == ASSUME NEW K PROVE Carries(Idle, K)
BY DEF Idle, Carries

(* The other operations carry no line for the file.                        *)
LEMMA OtherCarries ==
  ASSUME NEW x, NEW K, x.pc \notin {"idle", "savelock", "save", "saveclose"}
  PROVE  Carries(x, K)
BY DEF Carries

(* No step makes a partner of an id without recording it, and save_cache   *)
(* picks up only ids that are partners when it reads their slot.           *)
LEMMA CarriesNext ==
  ASSUME CacheInv, [Next]_vars
  PROVE  \A q \in Threads : Carries(th'[q], known')
<1> DEFINE Goal == \A q \in Threads : Carries(th'[q], known')
<1>a. ThreadPart /\ NodePart /\ \A q \in Threads : Carries(th[q], known)
  BY DEF CacheInv, TypeInv
<1>b. \A q \in Threads : th[q] \in ThreadType
  BY <1>a DEF ThreadPart
<1>1. ASSUME NEW t \in Threads, Return(t), known \subseteq known' PROVE Goal
  BY <1>1, <1>a, CarryStep, IdleCarries DEF Return
<1>2. ASSUME NEW t \in Threads, InsertIntern(t) PROVE Goal
  <2>1. PICK x : Carries(x, known') /\ th' = [th EXCEPT ![t] = x]
    <3>1. PICK u \in UUID, o \in Ordinals, r \in Nodes \cup {NULL} :
            th' = [th EXCEPT ![t] = IF r = NULL THEN Idle
                    ELSE [Idle EXCEPT !.pc = "ordinal", !.u = u, !.o = o, !.n = r]]
      BY <1>2 DEF InsertIntern
    <3>2. [Idle EXCEPT !.pc = "ordinal", !.u = u, !.o = o, !.n = r].pc = "ordinal"
      BY DEF Idle
    <3> QED
      BY <3>1, <3>2, IdleCarries, OtherCarries
  <2> QED
    BY <1>2, <2>1, <1>a, CarryStep DEF InsertIntern, Observe
<1>3. ASSUME NEW t \in Threads, DiscoverPeer(t) PROVE Goal
  <2>1. PICK x : Carries(x, known') /\ th' = [th EXCEPT ![t] = x]
    <3>1. PICK r \in Peers \cup {NULL} :
            th' = [th EXCEPT ![t] = IF r = NULL THEN Idle
                    ELSE [Idle EXCEPT !.pc = "heard", !.p = r]]
      BY <1>3 DEF DiscoverPeer
    <3>2. [Idle EXCEPT !.pc = "heard", !.p = r].pc = "heard"
      BY DEF Idle
    <3> QED
      BY <3>1, <3>2, IdleCarries, OtherCarries
  <2> QED
    BY <1>3, <2>1, <1>a, CarryStep DEF DiscoverPeer
<1>4. ASSUME NEW t \in Threads, DiscoverNode(t) PROVE Goal
  <2>1. PICK x : Carries(x, known') /\ th' = [th EXCEPT ![t] = x]
    <3>1. PICK u \in UUID, r \in Nodes \cup {NULL} :
            th' = [th EXCEPT ![t] = IF r = NULL THEN Idle
                    ELSE [th[t] EXCEPT !.pc = "node", !.u = u, !.n = r]]
      BY <1>4 DEF DiscoverNode
    <3>2. [th[t] EXCEPT !.pc = "node", !.u = u, !.n = r].pc = "node"
      BY <1>b DEF ThreadType
    <3> QED
      BY <3>1, <3>2, IdleCarries, OtherCarries
  <2> QED
    BY <1>4, <2>1, <1>a, CarryStep DEF DiscoverNode, Observe
<1>5. ASSUME NEW t \in Threads, NEW pc \in {"clear", "loadclear"}, Goto(t, pc), known' = known
      PROVE  Goal
  <2>1. [th[t] EXCEPT !.pc = pc].pc = pc
    BY <1>b DEF ThreadType
  <2> QED
    BY <1>5, <2>1, <1>a, CarryStep, OtherCarries DEF Goto
<1>6. ASSUME NEW t \in Threads, ClearSlot(t) PROVE Goal
  <2>1. [th[t] EXCEPT !.i = th[t].i + 1].pc = th[t].pc
    BY <1>b DEF ThreadType
  <2>2. Carries([th[t] EXCEPT !.i = th[t].i + 1], known)
    BY <1>6, <2>1, OtherCarries DEF ClearSlot
  <2> QED
    BY <1>6, <2>2, <1>a, CarryStep DEF ClearSlot
<1>7. ASSUME NEW t \in Threads, ClearEnd(t) PROVE Goal
  <2>1. [th[t] EXCEPT !.pc = "loadintern", !.i = 1].pc = "loadintern"
    BY <1>b DEF ThreadType
  <2>2. Carries([th[t] EXCEPT !.pc = "loadintern", !.i = 1], known)
    BY <2>1, OtherCarries
  <2>3. CASE Return(t)
    BY <1>1, <1>7, <2>3 DEF ClearEnd
  <2>4. CASE th' = [th EXCEPT ![t] = [@ EXCEPT !.pc = "loadintern", !.i = 1]]
    BY <1>7, <2>2, <2>4, <1>a, CarryStep DEF ClearEnd
  <2> QED
    BY <1>7, <2>3, <2>4 DEF ClearEnd
<1>8. ASSUME NEW t \in Threads, NEW pc \in {"savelock", "save", "saveclose"},
             th' = [th EXCEPT ![t] = [th[t] EXCEPT !.pc = pc]], known' = known,
             \/ th[t].pc \in {"idle", "savelock"}
             \/ pc = "saveclose" /\ th[t].pc = "save"
      PROVE  Goal
  <2>1. /\ [th[t] EXCEPT !.pc = pc].pc = pc
        /\ [th[t] EXCEPT !.pc = pc].u = th[t].u
    BY <1>b DEF ThreadType
  <2>2. Carries([th[t] EXCEPT !.pc = pc], known)
    BY <1>8, <2>1, <1>a DEF Carries
  <2> QED
    BY <1>8, <2>2, <1>a, CarryStep
<1>9. ASSUME NEW t \in Threads, SaveSlot(t) PROVE Goal
  <2> DEFINE x == [th[t] EXCEPT !.i = th[t].i + 1, !.u = Line(t)]
  <2>1. th[t].pc = "save" /\ th[t].i \in Nodes
    BY <1>9 DEF SaveSlot, At
  <2>2. x.pc = "save" /\ x.u = Line(t)
    BY <2>1, <1>b DEF ThreadType
  <2>3. Saves(t) => node[th[t].i].uuid \in known
    BY <2>1 DEF Saves, CacheInv, PartnerIds, Partners
  <2>4. Line(t) \in known \cup {Null}
    BY <2>1, <2>3, <1>a DEF Line, Carries
  <2>5. Carries(x, known)
    BY <2>2, <2>4 DEF Carries
  <2> QED
    BY <1>9, <2>5, <1>a, CarryStep DEF SaveSlot
<1>10. ASSUME NEW t \in Threads, LoadRead(t) PROVE Goal
  <2>1. ASSUME NEW u \in UUID, th' = [th EXCEPT ![t] = [@ EXCEPT !.pc = "loadlock", !.u = u]]
        PROVE  Goal
    <3>1. [th[t] EXCEPT !.pc = "loadlock", !.u = u].pc = "loadlock"
      BY <1>b DEF ThreadType
    <3>2. known' = known
      BY <1>10 DEF LoadRead
    <3> QED
      BY <2>1, <3>1, <3>2, <1>a, CarryStep, OtherCarries
  <2> QED
    BY <1>1, <1>10, <2>1 DEF LoadRead
<1>11. ASSUME NEW t \in Threads, LoadIntern(t) PROVE Goal
  <2>1. PICK r \in Nodes : th' = [th EXCEPT ![t] = [th[t] EXCEPT !.pc = "loadpartner", !.n = r]]
    BY <1>11 DEF LoadIntern
  <2>2. [th[t] EXCEPT !.pc = "loadpartner", !.n = r].pc = "loadpartner"
    BY <1>b DEF ThreadType
  <2>3. known \subseteq known'
    BY <1>11 DEF LoadIntern, Observe
  <2> QED
    BY <2>1, <2>2, <2>3, <1>a, CarryStep, OtherCarries
<1>12. ASSUME Started PROVE Goal
  <2>1. [Idle EXCEPT !.pc = "load"].pc = "load"
    BY DEF Idle
  <2>2. Carries([Idle EXCEPT !.pc = "load"], known')
    BY <2>1, OtherCarries
  <2> QED
    BY <1>12, <2>2, IdleCarries DEF Started
<1>13. ASSUME UNCHANGED <<th, known>> PROVE Goal
  BY <1>13, <1>a
<1>14. ASSUME NEW t \in Threads, InsertOrdinal(t) \/ PeerNode(t) \/ SaveClose(t) \/ LoadPartner(t)
       PROVE  Goal
  <2>1. Return(t) /\ known \subseteq known'
    BY <1>14 DEF InsertOrdinal, PeerNode, SaveClose, LoadPartner, Observe
  <2> QED
    BY <1>1, <2>1
<1>15. ASSUME NEW t \in Threads, ClearStart(t) \/ LoadLock(t) PROVE Goal
  BY <1>5, <1>15 DEF ClearStart, LoadLock
<1>16. ASSUME NEW t \in Threads, SaveOpen(t) PROVE Goal
  <2>1. /\ th' = [th EXCEPT ![t] = [th[t] EXCEPT !.pc = "savelock"]]
        /\ known' = known
        /\ th[t].pc \in {"idle", "savelock"}
    BY <1>16 DEF SaveOpen, Goto, At
  <2> QED
    BY <1>8, <2>1
<1>17. ASSUME NEW t \in Threads, SaveLock(t) PROVE Goal
  <2>1. /\ th' = [th EXCEPT ![t] = [th[t] EXCEPT !.pc = "save"]]
        /\ known' = known
        /\ th[t].pc \in {"idle", "savelock"}
    BY <1>17 DEF SaveLock, Goto, At
  <2> QED
    BY <1>8, <2>1
<1>18. ASSUME NEW t \in Threads, SaveUnlock(t) PROVE Goal
  <2>1. /\ th' = [th EXCEPT ![t] = [th[t] EXCEPT !.pc = "saveclose"]]
        /\ known' = known
        /\ th[t].pc = "save"
    BY <1>18 DEF SaveUnlock, Goto, At
  <2> QED
    BY <1>8, <2>1
<1> QED
  BY <1>2, <1>3, <1>4, <1>6, <1>7, <1>9, <1>10, <1>11, <1>12, <1>13, <1>14, <1>15, <1>16,
     <1>17, <1>18
     DEF Next, Step, vars, Crash, MakePartner, RemoveNode, RemoveNeighbor, LoadCrash

(* A step after which the partners are among those there were.             *)
LEMMA FewerPartners ==
  ASSUME PartnerIds \subseteq known, known' = known,
         \A i \in Nodes : node'[i].valid /\ node'[i].partner =>
           node[i].valid /\ node[i].partner /\ node'[i].uuid = node[i].uuid
  PROVE  (PartnerIds \subseteq known)'
BY DEF PartnerIds, Partners

(* Every partner is on record.                                             *)
LEMMA KnownNext ==
  ASSUME CacheInv, [Next]_vars
  PROVE  (PartnerIds \subseteq known)' /\ known \subseteq known'
<1> DEFINE Goal == (PartnerIds \subseteq known)' /\ known \subseteq known'
<1>a. PartnerIds \subseteq known /\ TypeInv
  BY DEF CacheInv
<1>b. \A i \in Nodes : node[i] \in NodeType
  BY <1>a DEF TypeInv, NodePart
<1>1. ASSUME Observe PROVE Goal
  BY <1>1 DEF Observe
<1>2. ASSUME UNCHANGED <<node, known>> PROVE Goal
  BY <1>2, <1>a, FewerPartners
<1>3. ASSUME NEW t \in Threads, InsertOrdinal(t) PROVE Goal
  <2>1. th[t].n \in Nodes
    BY <1>3, <1>a DEF InsertOrdinal, At, TypeInv, ThreadPart, PcOK
  <2>2. \A i \in Nodes : /\ node'[i].valid = node[i].valid
                         /\ node'[i].partner = node[i].partner
                         /\ node'[i].uuid = node[i].uuid
    BY <1>3, <2>1, <1>a DEF InsertOrdinal, TypeInv, NodePart, NodeType
  <2> QED
    BY <1>3, <2>2, <1>a, FewerPartners DEF InsertOrdinal
<1>4. ASSUME NEW t \in Threads, RemoveNode(t) PROVE Goal
  <2>1. \A i \in Nodes : ~InvalidNode(node[i]).valid
    BY <1>b DEF InvalidNode, NodeType
  <2>2. \A i \in Nodes : node'[i].valid => node'[i] = node[i]
    BY <1>4, <2>1 DEF RemoveNode
  <2> QED
    BY <1>4, <2>2, <1>a, FewerPartners DEF RemoveNode
<1>5. ASSUME NEW t \in Threads, ClearSlot(t) PROVE Goal
  <2>1. \A i \in Nodes : node'[i].valid /\ node'[i].partner => node'[i] = node[i]
    BY <1>5, <1>a DEF ClearSlot, TypeInv, NodePart, NodeType
  <2> QED
    BY <1>5, <2>1, <1>a, FewerPartners DEF ClearSlot
<1>6. ASSUME Started, known' = known PROVE Goal
  BY <1>6, <1>a, FewerPartners DEF Started, FreeNode
<1> QED
  BY <1>1, <1>2, <1>3, <1>4, <1>5, <1>6
     DEF Next, Step, vars, Crash, InsertIntern, DiscoverPeer, MakePartner, DiscoverNode,
         PeerNode, RemoveNeighbor, ClearStart, ClearEnd, SaveOpen, SaveLock, SaveSlot,
         SaveUnlock, SaveClose, LoadRead, LoadLock, LoadIntern, LoadCrash, LoadPartner

(* The file changes only in save_cache, and to what the scan picked up.    *)
LEMMA CacheFileNext ==
  ASSUME CacheInv, [Next]_vars
  PROVE  CacheHoldsPartner'
<1>1. ASSUME NEW t \in Threads, SaveClose(t) PROVE CacheHoldsPartner'
  BY <1>1 DEF SaveClose, At, CacheInv, Carries, CacheHoldsPartner
<1>2. ASSUME NEW t \in Threads, SaveOpen(t) PROVE CacheHoldsPartner'
  BY <1>2, NodeTableAssumption DEF SaveOpen, CacheHoldsPartner
<1>3. ASSUME file' = file PROVE CacheHoldsPartner'
  BY <1>3, KnownNext DEF CacheInv, CacheHoldsPartner
<1> QED
  BY <1>1, <1>2, <1>3
     DEF Next, Step, vars, Crash, InsertIntern, InsertOrdinal, DiscoverPeer, MakePartner,
         DiscoverNode, PeerNode, RemoveNode, RemoveNeighbor, ClearStart, ClearSlot, ClearEnd,
         SaveLock, SaveSlot, SaveUnlock, LoadRead, LoadLock, LoadIntern, LoadCrash, LoadPartner

(***************************************************************************)
(* "partner-cache" never holds an id that the table never had as a         *)
(* partner, although save_cache scans the table while other threads set    *)
(* the flags, slots are removed under their users, and the process may die *)
(* at any of its steps.                                                    *)
(***************************************************************************)
THEOREM CacheHoldsPartnerThm == Spec => []CacheHoldsPartner
<1>1. Init => CacheInv
  <2> SUFFICES ASSUME Init PROVE CacheInv
    OBVIOUS
  <2>1. \A t \in Threads : Carries(th[t], known)
    BY DEF Init, Idle, Carries
  <2>2. PartnerIds \subseteq known
    BY DEF Init, FreeNode, PartnerIds, Partners
  <2>3. CacheHoldsPartner
    BY NodeTableAssumption DEF Init, CacheHoldsPartner
  <2> QED
    BY <2>1, <2>2, <2>3, TypeInit DEF CacheInv
<1>2. CacheInv /\ [Next]_vars => CacheInv'
  <2> SUFFICES ASSUME CacheInv, [Next]_vars PROVE CacheInv'
    OBVIOUS
  <2>1. TypeInv'
    BY TypeStep DEF CacheInv
  <2>2. \A t \in Threads : Carries(th[t]', known')
    BY CarriesNext
  <2> QED
    BY <2>1, <2>2, KnownNext, CacheFileNext DEF CacheInv, Carries
<1>3. CacheInv => CacheHoldsPartner
  BY DEF CacheInv
<1> QED
  BY <1>1, <1>2, <1>3, PTL DEF Spec

-----------------------------------------------------------------------------
(* The scan of save_cache                                                  *)

(* Thread t in local state r, with the mutex l, the history S and the      *)
(* partner slots P: a scan holds the mutex, and one that had a partner to  *)
(* find has found one or has one ahead.                                    *)
ScanOK(r, t, l, S, P) ==
  /\ r.pc \in {"idle", "savelock"} => r.i = 1
  /\ r.pc \in {"save", "clear", "loadclear"} => l = t
  /\ t \in S => /\ r.pc \in {"save", "saveclose"}
                /\ r.pc = "save" => r.u # Null \/ \E i \in P : r.i <= i
                /\ r.pc = "saveclose" => r.u # Null
AllScans == \A t \in Threads : ScanOK(th[t], t, lock, sees, Partners)

(* A step of thread t disturbs no other scan: it holds the mutex itself,   *)
(* or nobody does, or it leaves the mutex alone and clears no flag.        *)
LEMMA ScanStep ==
  ASSUME NEW t \in Threads, NEW x, ThreadPart, AllScans, th' = [th EXCEPT ![t] = x],
         ScanOK(x, t, lock', sees', Partners'),
         \A q \in Threads : q # t /\ q \in sees' => q \in sees,
         lock = Null \/ lock = t \/ (lock' = lock /\ Partners \subseteq Partners')
  PROVE  AllScans'
<1>1. th'[t] = x /\ \A q \in Threads : q # t => th'[q] = th[q]
  BY DEF ThreadPart
<1>2. ASSUME NEW q \in Threads, q # t PROVE ScanOK(th'[q], q, lock', sees', Partners')
  <2>1. ScanOK(th[q], q, lock, sees, Partners) /\ q # Null
    BY NodeTableAssumption DEF AllScans
  <2>2. th'[q] = th[q] /\ (q \in sees' => q \in sees)
    BY <1>1, <1>2
  <2>3. CASE lock = Null \/ lock = t
    <3>1. th[q].pc \notin {"save", "clear", "loadclear"}
      BY <1>2, <2>1, <2>3 DEF ScanOK
    <3> QED
      BY <2>1, <2>2, <3>1 DEF ScanOK
  <2>4. CASE lock' = lock /\ Partners \subseteq Partners'
    BY <2>1, <2>2, <2>4 DEF ScanOK
  <2> QED
    BY <2>3, <2>4
<1> QED
  BY <1>1, <1>2 DEF AllScans

(* A thread that is in none of the scans.                                  *)
LEMMA NoScan ==
  ASSUME NEW x, NEW t, NEW l, NEW S, NEW P, t \notin S,
         x.pc \notin {"idle", "savelock", "save", "clear", "loadclear"}
  PROVE  ScanOK(x, t, l, S, P)
BY DEF ScanOK

(* An idle thread starts its next scan at the first slot.                  *)
LEMMA IdleScan == ASSUME NEW t, NEW l, NEW S, NEW P, t \notin S PROVE ScanOK(Idle, t, l, S, P)
BY DEF Idle, ScanOK

(* The writes of insert_node, Peer::node and load_cache clear no flag.     *)
LEMMA WriteKeepsPartners ==
  ASSUME NEW n \in Nodes, NodePart,
         \/ node' = [node EXCEPT ![n] = [@ EXCEPT !.partner = TRUE]]
         \/ \E o \in Byte : node' = [node EXCEPT ![n] = [@ EXCEPT !.ordinal = o]]
  PROVE  Partners \subseteq Partners'
BY DEF Partners, NodePart, NodeType

(* No step makes save_cache miss a partner it had to find.                 *)
LEMMA ScansNext ==
  ASSUME TypeInv, AllScans, [Next]_vars
  PROVE  AllScans'
<1>a. ThreadPart /\ NodePart /\ \A t \in Threads : PcOK(th[t]) /\ th[t] \in ThreadType
  BY DEF TypeInv, ThreadPart
<1>b. \A t \in Threads : ScanOK(th[t], t, lock, sees, Partners)
  BY DEF AllScans
<1>c. \A t \in Threads : th[t].pc \notin {"save", "saveclose"} => t \notin sees
  BY <1>b DEF ScanOK
<1>d. ASSUME UNCHANGED node PROVE Partners' = Partners
  BY <1>d DEF Partners
<1>1. ASSUME NEW t \in Threads, InsertIntern(t) PROVE AllScans'
  <2>1. PICK u \in UUID, o \in Ordinals, r \in Nodes \cup {NULL} :
          th' = [th EXCEPT ![t] = IF r = NULL THEN Idle
                  ELSE [Idle EXCEPT !.pc = "ordinal", !.u = u, !.o = o, !.n = r]]
    BY <1>1 DEF InsertIntern
  <2>2. lock = Null /\ sees' = sees /\ t \notin sees
    BY <1>1, <1>c DEF InsertIntern, At
  <2> DEFINE x == [Idle EXCEPT !.pc = "ordinal", !.u = u, !.o = o, !.n = r]
  <2>3. x.pc = "ordinal"
    BY DEF Idle
  <2>4. th' = [th EXCEPT ![t] = Idle] \/ th' = [th EXCEPT ![t] = x]
    BY <2>1
  <2> HIDE DEF x
  <2>5. ScanOK(Idle, t, lock', sees', Partners') /\ ScanOK(x, t, lock', sees', Partners')
    BY <2>2, <2>3, IdleScan, NoScan
  <2> QED
    BY <2>2, <2>4, <2>5, <1>a, ScanStep
<1>2. ASSUME NEW t \in Threads, DiscoverPeer(t) PROVE AllScans'
  <2>1. PICK r \in Peers \cup {NULL} :
          th' = [th EXCEPT ![t] = IF r = NULL THEN Idle ELSE [Idle EXCEPT !.pc = "heard", !.p = r]]
    BY <1>2 DEF DiscoverPeer
  <2>2. lock' = lock /\ sees' = sees /\ t \notin sees /\ Partners' = Partners
    BY <1>2, <1>c, <1>d DEF DiscoverPeer, At
  <2> DEFINE x == [Idle EXCEPT !.pc = "heard", !.p = r]
  <2>3. x.pc = "heard"
    BY DEF Idle
  <2>4. th' = [th EXCEPT ![t] = Idle] \/ th' = [th EXCEPT ![t] = x]
    BY <2>1
  <2> HIDE DEF x
  <2>5. ScanOK(Idle, t, lock', sees', Partners') /\ ScanOK(x, t, lock', sees', Partners')
    BY <2>2, <2>3, IdleScan, NoScan
  <2> QED
    BY <2>2, <2>4, <2>5, <1>a, ScanStep
<1>3. ASSUME NEW t \in Threads, DiscoverNode(t) PROVE AllScans'
  <2>1. PICK u \in UUID, r \in Nodes \cup {NULL} :
          th' = [th EXCEPT ![t] = IF r = NULL THEN Idle
                  ELSE [th[t] EXCEPT !.pc = "node", !.u = u, !.n = r]]
    BY <1>3 DEF DiscoverNode
  <2>2. lock = Null /\ sees' = sees /\ t \notin sees
    BY <1>3, <1>c DEF DiscoverNode, At
  <2> DEFINE x == [th[t] EXCEPT !.pc = "node", !.u = u, !.n = r]
  <2>3. x.pc = "node"
    BY <1>a DEF ThreadType
  <2>4. th' = [th EXCEPT ![t] = Idle] \/ th' = [th EXCEPT ![t] = x]
    BY <2>1
  <2> HIDE DEF x
  <2>5. ScanOK(Idle, t, lock', sees', Partners') /\ ScanOK(x, t, lock', sees', Partners')
    BY <2>2, <2>3, IdleScan, NoScan
  <2> QED
    BY <2>2, <2>4, <2>5, <1>a, ScanStep
<1>4. ASSUME NEW t \in Threads, InsertOrdinal(t) \/ PeerNode(t) \/ LoadPartner(t) PROVE AllScans'
  <2>1. th[t].n \in Nodes /\ (At(t, "ordinal") => UInt8(th[t].o) \in Byte)
    BY <1>4, <1>a, UInt8Range DEF InsertOrdinal, PeerNode, LoadPartner, At, PcOK
  <2>2. \/ node' = node
        \/ node' = [node EXCEPT ![th[t].n] = [@ EXCEPT !.partner = TRUE]]
        \/ \E o \in Byte : node' = [node EXCEPT ![th[t].n] = [@ EXCEPT !.ordinal = o]]
    BY <1>4, <2>1 DEF InsertOrdinal, PeerNode, LoadPartner
  <2>3. Partners \subseteq Partners'
    BY <2>1, <2>2, <1>a, <1>d, WriteKeepsPartners
  <2>4. Return(t) /\ lock' = lock /\ sees' = sees /\ t \notin sees
    BY <1>4, <1>c DEF InsertOrdinal, PeerNode, LoadPartner, At
  <2> QED
    BY <2>3, <2>4, <1>a, IdleScan, ScanStep DEF Return
<1>5. ASSUME NEW t \in Threads, RemoveNode(t) PROVE AllScans'
  <2>1. lock = Null /\ UNCHANGED <<th, lock, sees>>
    BY <1>5 DEF RemoveNode
  <2>2. th' = [th EXCEPT ![t] = th[t]] /\ t \notin sees
    BY <1>5, <2>1, <1>a, <1>c DEF RemoveNode, At, ThreadPart
  <2>3. ScanOK(th[t], t, lock', sees', Partners')
    BY <2>1, <2>2, <1>b DEF ScanOK
  <2> QED
    BY <2>1, <2>2, <2>3, <1>a, ScanStep
<1>6. ASSUME NEW t \in Threads, ClearStart(t) \/ LoadLock(t) PROVE AllScans'
  <2>1. PICK pc \in {"clear", "loadclear"} : th' = [th EXCEPT ![t] = [th[t] EXCEPT !.pc = pc]]
    BY <1>6 DEF ClearStart, LoadLock, Goto
  <2>2. lock = Null /\ lock' = t /\ sees' = sees /\ t \notin sees
    BY <1>6, <1>c DEF ClearStart, LoadLock, At
  <2>3. [th[t] EXCEPT !.pc = pc].pc = pc
    BY <1>a DEF ThreadType
  <2>4. ScanOK([th[t] EXCEPT !.pc = pc], t, lock', sees', Partners')
    BY <2>1, <2>2, <2>3 DEF ScanOK
  <2> QED
    BY <2>1, <2>2, <2>4, <1>a, ScanStep
<1>7. ASSUME NEW t \in Threads, ClearSlot(t) PROVE AllScans'
  <2> DEFINE x == [th[t] EXCEPT !.i = th[t].i + 1]
  <2>1. th' = [th EXCEPT ![t] = x] /\ lock' = lock /\ sees' = sees
    BY <1>7 DEF ClearSlot
  <2>2. th[t].pc \in {"clear", "loadclear"} /\ x.pc = th[t].pc
    BY <1>7, <1>a DEF ClearSlot, ThreadType
  <2>3. lock = t /\ t \notin sees
    BY <2>2, <1>b DEF ScanOK
  <2>4. ScanOK(x, t, lock', sees', Partners')
    BY <2>1, <2>2, <2>3 DEF ScanOK
  <2> HIDE DEF x
  <2> QED
    BY <2>1, <2>3, <2>4, <1>a, ScanStep
<1>8. ASSUME NEW t \in Threads, ClearEnd(t) PROVE AllScans'
  <2> DEFINE y == [th[t] EXCEPT !.pc = "loadintern", !.i = 1]
  <2>1. th[t].pc \in {"clear", "loadclear"} /\ sees' = sees /\ y.pc = "loadintern"
    BY <1>8, <1>a DEF ClearEnd, ThreadType
  <2>2. lock = t /\ t \notin sees
    BY <2>1, <1>b DEF ScanOK
  <2>3. th' = [th EXCEPT ![t] = Idle] \/ th' = [th EXCEPT ![t] = y]
    BY <1>8 DEF ClearEnd, Return
  <2> HIDE DEF y
  <2> QED
    BY <2>1, <2>2, <2>3, <1>a, IdleScan, NoScan, ScanStep
<1>9. ASSUME NEW t \in Threads, SaveOpen(t) PROVE AllScans'
  <2> DEFINE x == [th[t] EXCEPT !.pc = "savelock"]
  <2>1. th' = [th EXCEPT ![t] = x] /\ lock' = lock /\ sees' = sees /\ Partners' = Partners
    BY <1>9, <1>d DEF SaveOpen, Goto
  <2>2. th[t].pc = "idle" /\ x.pc = "savelock" /\ x.i = th[t].i /\ t \notin sees
    BY <1>9, <1>a, <1>c DEF SaveOpen, At, ThreadType
  <2>3. ScanOK(x, t, lock', sees', Partners')
    BY <2>1, <2>2, <1>b DEF ScanOK
  <2> HIDE DEF x
  <2> QED
    BY <2>1, <2>3, <1>a, ScanStep
<1>10. ASSUME NEW t \in Threads, SaveLock(t) PROVE AllScans'
  <2> DEFINE x == [th[t] EXCEPT !.pc = "save"]
  <2>1. /\ th' = [th EXCEPT ![t] = x] /\ lock = Null /\ lock' = t /\ Partners' = Partners
        /\ sees' = IF Partners = {} THEN sees ELSE sees \cup {t}
    BY <1>10, <1>d DEF SaveLock, Goto
  <2>2. th[t].pc = "savelock" /\ x.pc = "save" /\ x.i = th[t].i /\ t \notin sees
    BY <1>10, <1>a, <1>c DEF SaveLock, At, ThreadType
  <2>3. x.i = 1
    BY <2>2, <1>b DEF ScanOK
  <2>4. \A j \in Partners : 1 <= j
    BY DEF Partners, Nodes
  <2>5. t \in sees' => \E j \in Partners' : x.i <= j
    BY <2>1, <2>2, <2>3, <2>4
  <2>6. ScanOK(x, t, lock', sees', Partners')
    BY <2>1, <2>2, <2>5 DEF ScanOK
  <2> HIDE DEF x
  <2> QED
    BY <2>1, <2>6, <1>a, ScanStep
<1>11. ASSUME NEW t \in Threads, SaveSlot(t) PROVE AllScans'
  <2> DEFINE i == th[t].i
             x == [th[t] EXCEPT !.i = i + 1, !.u = Line(t)]
  <2>1. th' = [th EXCEPT ![t] = x] /\ lock' = lock /\ sees' = sees /\ Partners' = Partners
    BY <1>11, <1>d DEF SaveSlot
  <2>2. th[t].pc = "save" /\ x.pc = "save" /\ x.i = i + 1 /\ x.u = Line(t) /\ i \in Nodes
    BY <1>11, <1>a DEF SaveSlot, At, ThreadType
  <2>3. lock = t
    BY <2>2, <1>b DEF ScanOK
  <2>4. Saves(t) => node[i].uuid # Null
    BY <2>2, <1>a, NodeTableAssumption DEF Saves, NodePart
  <2>5. th[t].u # Null \/ Saves(t) => Line(t) # Null
    BY <2>4 DEF Line
  <2>6. ASSUME t \in sees, Line(t) = Null PROVE \E j \in Partners : i + 1 <= j
    <3>1. th[t].u = Null /\ ~Saves(t)
      BY <2>5, <2>6
    <3>2. PICK j \in Partners : i <= j
      BY <2>2, <2>6, <3>1, <1>b DEF ScanOK
    <3>3. j # i
      BY <3>1, <3>2 DEF Saves, Partners
    <3>4. i \in Int /\ j \in Int
      BY <2>2, <3>2 DEF Nodes, Partners
    <3> QED
      BY <3>2, <3>3, <3>4
  <2>7. ScanOK(x, t, lock', sees', Partners')
    BY <2>1, <2>2, <2>3, <2>6 DEF ScanOK
  <2> HIDE DEF x, i
  <2> QED
    BY <2>1, <2>3, <2>7, <1>a, ScanStep
<1>12. ASSUME NEW t \in Threads, SaveUnlock(t) PROVE AllScans'
  <2> DEFINE x == [th[t] EXCEPT !.pc = "saveclose"]
  <2>1. th' = [th EXCEPT ![t] = x] /\ sees' = sees /\ Partners' = Partners
    BY <1>12, <1>d DEF SaveUnlock, Goto
  <2>2. th[t].pc = "save" /\ x.pc = "saveclose" /\ x.u = th[t].u
    BY <1>12, <1>a DEF SaveUnlock, At, ThreadType
  <2>3. lock = t
    BY <2>2, <1>b DEF ScanOK
  <2>4. th[t].i \in 1 .. NodeSlots + 1 /\ th[t].i \notin Nodes
    BY <1>12, <1>a DEF SaveUnlock, ThreadType
  <2>5. \A j \in Partners : ~(th[t].i <= j)
    BY <2>4, NodeTableAssumption DEF Partners, Nodes
  <2>6. t \in sees => th[t].u # Null
    BY <2>2, <2>5, <1>b DEF ScanOK
  <2>7. ScanOK(x, t, lock', sees', Partners')
    BY <2>1, <2>2, <2>6 DEF ScanOK
  <2> HIDE DEF x
  <2> QED
    BY <2>1, <2>3, <2>7, <1>a, ScanStep
<1>13. ASSUME NEW t \in Threads, SaveClose(t) PROVE AllScans'
  <2>1. Return(t) /\ sees' = sees \ {t} /\ lock' = lock /\ Partners' = Partners
    BY <1>13, <1>d DEF SaveClose
  <2> QED
    BY <2>1, <1>a, IdleScan, ScanStep DEF Return
<1>14. ASSUME NEW t \in Threads, LoadRead(t) PROVE AllScans'
  <2>1. lock' = lock /\ sees' = sees /\ t \notin sees /\ Partners' = Partners
    BY <1>14, <1>c, <1>d DEF LoadRead, At
  <2>2. CASE Return(t)
    BY <2>1, <2>2, <1>a, IdleScan, ScanStep DEF Return
  <2>3. ASSUME NEW u \in UUID, th' = [th EXCEPT ![t] = [th[t] EXCEPT !.pc = "loadlock", !.u = u]]
        PROVE  AllScans'
    <3> DEFINE x == [th[t] EXCEPT !.pc = "loadlock", !.u = u]
    <3>1. x.pc = "loadlock"
      BY <1>a DEF ThreadType
    <3>2. th' = [th EXCEPT ![t] = x]
      BY <2>3
    <3> HIDE DEF x
    <3>3. ScanOK(x, t, lock', sees', Partners')
      BY <2>1, <3>1, NoScan
    <3> QED
      BY <2>1, <3>2, <3>3, <1>a, ScanStep
  <2> QED
    BY <1>14, <2>2, <2>3 DEF LoadRead
<1>15. ASSUME NEW t \in Threads, LoadIntern(t) PROVE AllScans'
  <2>1. PICK r \in Nodes : th' = [th EXCEPT ![t] = [th[t] EXCEPT !.pc = "loadpartner", !.n = r]]
    BY <1>15 DEF LoadIntern
  <2>2. lock = Null /\ sees' = sees /\ t \notin sees
    BY <1>15, <1>c DEF LoadIntern, At
  <2> DEFINE x == [th[t] EXCEPT !.pc = "loadpartner", !.n = r]
  <2>3. x.pc = "loadpartner"
    BY <1>a DEF ThreadType
  <2>4. th' = [th EXCEPT ![t] = x]
    BY <2>1
  <2> HIDE DEF x
  <2>5. ScanOK(x, t, lock', sees', Partners')
    BY <2>2, <2>3, NoScan
  <2> QED
    BY <2>2, <2>4, <2>5, <1>a, ScanStep
<1>16. ASSUME Started PROVE AllScans'
  <2>1. [Idle EXCEPT !.pc = "load"].pc = "load" /\ sees' = {}
    BY <1>16 DEF Idle, Started
  <2> QED
    BY <1>16, <2>1, IdleScan, NoScan DEF Started, AllScans
<1>17. ASSUME UNCHANGED <<th, lock, sees, node>> PROVE AllScans'
  BY <1>17, <1>d DEF AllScans
<1> QED
  BY <1>1, <1>2, <1>3, <1>4, <1>5, <1>6, <1>7, <1>8, <1>9, <1>10, <1>11, <1>12, <1>13, <1>14,
     <1>15, <1>16, <1>17
     DEF Next, Step, vars, Crash, MakePartner, RemoveNeighbor, LoadCrash

(***************************************************************************)
(* When the node table has a partner as save_cache takes node_table_lock,  *)
(* its scan finds one: neither clear_partners nor remove_node of another   *)
(* thread comes in between, so the truncated file gets a line again unless *)
(* netmgr dies first.                                                      *)
(***************************************************************************)
THEOREM SaveFindsPartnerThm == Spec => []SaveFindsPartner
<1>1. Init => AllScans
  <2> SUFFICES ASSUME Init, NEW t \in Threads PROVE ScanOK(th[t], t, lock, sees, Partners)
    BY DEF AllScans
  <2> DEFINE x == [Idle EXCEPT !.pc = "load"]
  <2>1. sees = {} /\ (th[t] = Idle \/ th[t] = x)
    BY DEF Init
  <2>2. x.pc = "load"
    BY DEF Idle
  <2> HIDE DEF x
  <2>3. t \notin sees
    BY <2>1
  <2>4. ScanOK(Idle, t, lock, sees, Partners) /\ ScanOK(x, t, lock, sees, Partners)
    BY <2>2, <2>3, IdleScan, NoScan
  <2> QED
    BY <2>1, <2>4
<1>2. TypeInv /\ AllScans /\ [Next]_vars => AllScans'
  BY ScansNext
<1>3. AllScans => SaveFindsPartner
  BY DEF AllScans, ScanOK, SaveFindsPartner, At
<1> QED
  BY <1>1, <1>2, <1>3, TypeInit, TypeStep, PTL DEF Spec

=============================================================================
