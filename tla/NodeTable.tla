----------------------------- MODULE NodeTable -----------------------------
(***************************************************************************)
(* The nodes and neighbours netmgr knows: the node table of                *)
(* Network::Monitor (NetworkMonitor.cc), the neighbour table of an         *)
(* interface (Interface.cc), Node and Peer (Neighbor.cc) and the file      *)
(* "partner-cache" that carries the partner over a restart.                *)
(*                                                                         *)
(* A table is an array of slots under a mutex.  intern_node and            *)
(* intern_neighbor return a pointer to a slot, which the caller uses after *)
(* the mutex is released.  The scans that only touch fields the mutex      *)
(* protects are one step; the scans of save_cache and clear_partners read  *)
(* and write the partner flag, which Peer::node and load_cache set without *)
(* the mutex, and take one step per slot.                                  *)
(*                                                                         *)
(* Who calls: load_cache is called by Monitor::run when netmgr starts,     *)
(* intern_node also by the Tcl command insert_node; the callers of the     *)
(* other operations are listeners that are not part of the repository.     *)
(***************************************************************************)
EXTENDS Integers

CONSTANTS
  Threads,       \* the threads of the process
  Monitor,       \* the one of them that runs Monitor::run
  UUID,          \* node ids
  Address,       \* link local addresses of peers
  NodeSlots,     \* NODE_TABLE_SIZE (4096 in the code)
  PeerSlots,     \* NEIGHBOR_TABLE_SIZE (4096 in the code)
  Ordinals,      \* the integers insert_node is given as ordinals
  Ops,           \* the operations the threads use
  MayCrash,      \* the process may die and be started again
  Null

ASSUME NodeTableAssumption ==
  /\ Monitor \in Threads
  /\ NodeSlots \in Nat \ {0} /\ PeerSlots \in Nat \ {0}
  /\ Ops \subseteq {"insert", "discover", "partner", "remove", "forget", "save", "clear"}
  /\ MayCrash \in BOOLEAN
  /\ Ordinals \subseteq Int
  /\ Null \notin UUID \cup Address \cup Threads
  /\ {"absent", "empty"} \cap UUID = {}

NoOrdinal == 255
Nodes == 1 .. NodeSlots
Peers == 1 .. PeerSlots
NULL  == 0                       \* the null pointer

VARIABLES
  node,     \* node[i]: slot i of the node table
  peer,     \* peer[j]: slot j of the neighbour table
  lock,     \* who holds node_table_lock over a scan, or Null
  th,       \* th[t]: the operation thread t is in
  file,     \* "partner-cache": "absent", "empty" or the id it holds
  known,    \* history: the ids the table had as a partner, in this or an earlier run
  meant,    \* history: meant[i], the ids for which the ordinal and the partner flag
            \* of slot i were last set
  strayed,  \* history: the slots last removed while a thread held their pointer
  sees      \* history: the threads in save_cache that had a partner to find

vars == <<node, peer, lock, th, file, known, meant, strayed, sees>>

FreeNode == [uuid |-> Null, ordinal |-> NoOrdinal, partner |-> FALSE, valid |-> FALSE]
FreePeer == [addr |-> Null, node |-> NULL, partner |-> FALSE, valid |-> FALSE]
Nobody   == [ordinal |-> Null, partner |-> Null]
Idle     == [pc |-> "idle", u |-> Null, o |-> NoOrdinal, n |-> NULL, p |-> NULL, i |-> 1]

(* The process starts: every slot is invalid and run() loads the cache.    *)
Started ==
  /\ node'   = [i \in Nodes |-> FreeNode]
  /\ peer'   = [j \in Peers |-> FreePeer]
  /\ lock'   = Null
  /\ th'     = [t \in Threads |-> IF t = Monitor THEN [Idle EXCEPT !.pc = "load"] ELSE Idle]
  /\ meant'  = [i \in Nodes |-> Nobody]
  /\ strayed' = {}
  /\ sees'   = {}

Init ==
  /\ node   = [i \in Nodes |-> FreeNode]
  /\ peer   = [j \in Peers |-> FreePeer]
  /\ lock   = Null
  /\ th     = [t \in Threads |-> IF t = Monitor THEN [Idle EXCEPT !.pc = "load"] ELSE Idle]
  /\ file  \in UUID \cup {"absent"}
  /\ known  = {file} \ {"absent"}
  /\ meant  = [i \in Nodes |-> Nobody]
  /\ strayed = {}
  /\ sees   = {}

-----------------------------------------------------------------------------
(* The tables                                                              *)

(* The scan ends at the first valid slot that matches.  The slot a new     *)
(* entry takes is the last invalid one.                                    *)
NodeMatch(u) == {i \in Nodes : node[i].valid /\ node[i].uuid = u}
PeerMatch(a) == {j \in Peers : peer[j].valid /\ peer[j].addr = a}
FreeNodes    == {i \in Nodes : ~node[i].valid}
FreePeers    == {j \in Peers : ~peer[j].valid}
Partners     == {i \in Nodes : node[i].valid /\ node[i].partner}
PartnerIds   == {node[i].uuid : i \in Partners}

(* Node::uuid( u ) leaves the partner flag as it is.                       *)
SetUuid(n, u) == [n EXCEPT !.uuid = u, !.ordinal = NoOrdinal, !.valid = TRUE]

(* Node::invalidate() and Peer::invalidate().                              *)
InvalidateKeepPartner(n) == [n EXCEPT !.valid = FALSE]
InvalidNode(n) == [n EXCEPT !.valid = FALSE, !.partner = FALSE]
InvalidPeer(p) == [p EXCEPT !.valid = FALSE, !.partner = FALSE, !.node = NULL]

LastOf(S, r)  == r \in S /\ \A i \in S : i <= r
FirstOf(S, r) == r \in S /\ \A i \in S : r <= i

(* intern_node: slot r holds u afterwards; r is NULL when the table is     *)
(* full.                                                                   *)
InternNodeNoSearch(u, r) ==
  \/ LastOf(FreeNodes, r) /\ node' = [node EXCEPT ![r] = SetUuid(@, u)]
  \/ FreeNodes = {} /\ r = NULL /\ UNCHANGED node
InternNode(u, r) ==
  \/ FirstOf(NodeMatch(u), r) /\ UNCHANGED node
  \/ /\ NodeMatch(u) = {}
     /\ LastOf(FreeNodes, r)
     /\ node' = [node EXCEPT ![r] = SetUuid(@, u)]
  \/ NodeMatch(u) = {} /\ FreeNodes = {} /\ r = NULL /\ UNCHANGED node

(* intern_neighbor; Peer::address( a ) leaves the other fields.            *)
SetAddress(p, a) == [p EXCEPT !.addr = a, !.valid = TRUE]
InternPeer(a, r) ==
  \/ FirstOf(PeerMatch(a), r) /\ UNCHANGED peer
  \/ /\ PeerMatch(a) = {}
     /\ LastOf(FreePeers, r)
     /\ peer' = [peer EXCEPT ![r] = SetAddress(@, a)]
  \/ PeerMatch(a) = {} /\ FreePeers = {} /\ r = NULL /\ UNCHANGED peer

At(t, pc) == th[t].pc = pc
Goto(t, pc) == th' = [th EXCEPT ![t] = [@ EXCEPT !.pc = pc]]
Return(t) == th' = [th EXCEPT ![t] = Idle]

(* A thread is between the return of intern_node and its last use of slot  *)
(* i.                                                                      *)
InUse(i) == \E t \in Threads : th[t].n = i

(* History: the ids that are partners after the step join known.           *)
Observe == known' = known \cup PartnerIds'

-----------------------------------------------------------------------------
(* insert_node: intern, then assign the ordinal through the pointer.       *)
InsertIntern(t) ==
  /\ At(t, "idle") /\ lock = Null
  /\ "insert" \in Ops
  /\ \E u \in UUID, o \in Ordinals, r \in Nodes \cup {NULL} :
       /\ InternNode(u, r)
       /\ th' = [th EXCEPT ![t] =
            IF r = NULL THEN Idle
            ELSE [Idle EXCEPT !.pc = "ordinal", !.u = u, !.o = o, !.n = r]]
  /\ Observe
  /\ UNCHANGED <<peer, lock, file, meant, strayed, sees>>

(* Node::ordinal takes a uint8_t, the command an int.                      *)
UInt8(o) == o % 256
InsertOrdinal(t) ==
  /\ At(t, "ordinal")
  /\ node' = [node EXCEPT ![th[t].n] = [@ EXCEPT !.ordinal = UInt8(th[t].o)]]
  /\ meant' = [meant EXCEPT ![th[t].n] = [@ EXCEPT !.ordinal = th[t].u]]
  /\ Return(t)
  /\ UNCHANGED <<peer, lock, file, known, strayed, sees>>

-----------------------------------------------------------------------------
(* A listener has heard node u at address a: it finds the peer, may mark   *)
(* it as the partner, finds the node and connects them.                    *)
DiscoverPeer(t) ==
  /\ At(t, "idle")
  /\ "discover" \in Ops
  /\ \E a \in Address, r \in Peers \cup {NULL} :
       /\ InternPeer(a, r)
       /\ th' = [th EXCEPT ![t] =
            IF r = NULL THEN Idle ELSE [Idle EXCEPT !.pc = "heard", !.p = r]]
  /\ UNCHANGED <<node, lock, file, known, meant, strayed, sees>>

MakePartner(t) ==
  /\ At(t, "heard")
  /\ "partner" \in Ops
  /\ peer' = [peer EXCEPT ![th[t].p] = [@ EXCEPT !.partner = TRUE]]
  /\ UNCHANGED <<node, lock, th, file, known, meant, strayed, sees>>

DiscoverNode(t) ==
  /\ At(t, "heard") /\ lock = Null
  /\ \E u \in UUID, r \in Nodes \cup {NULL} :
       /\ InternNode(u, r)
       /\ th' = [th EXCEPT ![t] =
            IF r = NULL THEN Idle ELSE [@ EXCEPT !.pc = "node", !.u = u, !.n = r]]
  /\ Observe
  /\ UNCHANGED <<peer, lock, file, meant, strayed, sees>>

(* Peer::node( n ): the node of a partner peer becomes a partner.          *)
PeerNode(t) ==
  LET p == th[t].p
      n == th[t].n
  IN /\ At(t, "node")
     /\ peer' = [peer EXCEPT ![p] = [@ EXCEPT !.node = n]]
     /\ IF peer[p].partner /\ ~node[n].partner
          THEN /\ node' = [node EXCEPT ![n] = [@ EXCEPT !.partner = TRUE]]
               /\ meant' = [meant EXCEPT ![n] = [@ EXCEPT !.partner = th[t].u]]
          ELSE UNCHANGED <<node, meant>>
     /\ Return(t)
     /\ Observe
     /\ UNCHANGED <<lock, file, strayed, sees>>

-----------------------------------------------------------------------------
(* remove_node and remove_neighbor: nothing keeps them from a slot whose   *)
(* pointer another thread holds.                                           *)
RemoveNode(t) ==
  /\ At(t, "idle") /\ lock = Null
  /\ "remove" \in Ops
  /\ \E u \in UUID :
       /\ node' = [i \in Nodes |-> IF i \in NodeMatch(u) THEN InvalidNode(node[i]) ELSE node[i]]
       /\ meant' = [i \in Nodes |-> IF i \in NodeMatch(u) THEN Nobody ELSE meant[i]]
       /\ strayed' = (strayed \ NodeMatch(u)) \cup {i \in NodeMatch(u) : InUse(i)}
  /\ UNCHANGED <<peer, lock, th, file, known, sees>>

RemoveNeighbor(t) ==
  /\ At(t, "idle")
  /\ "forget" \in Ops
  /\ \E a \in Address :
       peer' = [j \in Peers |-> IF j \in PeerMatch(a) THEN InvalidPeer(peer[j]) ELSE peer[j]]
  /\ UNCHANGED <<node, lock, th, file, known, meant, strayed, sees>>

-----------------------------------------------------------------------------
(* each_node with ClearNodePartner, called by clear_partners and by        *)
(* load_cache: one slot per step under node_table_lock.                    *)
ClearStartUnlocked(t) ==
  /\ At(t, "idle") /\ "clear" \in Ops
  /\ Goto(t, "clear")
  /\ UNCHANGED <<node, peer, lock, file, known, meant, strayed, sees>>
ClearStart(t) ==
  /\ At(t, "idle") /\ "clear" \in Ops
  /\ lock = Null /\ lock' = t
  /\ Goto(t, "clear")
  /\ UNCHANGED <<node, peer, file, known, meant, strayed, sees>>

ClearSlot(t) ==
  LET i == th[t].i
  IN /\ th[t].pc \in {"clear", "loadclear"}
     /\ i \in Nodes
     /\ IF node[i].valid /\ node[i].partner
          THEN /\ node' = [node EXCEPT ![i] = [@ EXCEPT !.partner = FALSE]]
               /\ meant' = [meant EXCEPT ![i] = [@ EXCEPT !.partner = Null]]
          ELSE UNCHANGED <<node, meant>>
     /\ th' = [th EXCEPT ![t] = [@ EXCEPT !.i = i + 1]]
     /\ UNCHANGED <<peer, lock, file, known, strayed, sees>>

ClearEnd(t) ==
  /\ th[t].pc \in {"clear", "loadclear"}
  /\ th[t].i \notin Nodes
  /\ lock' = Null
  /\ IF At(t, "clear") THEN Return(t)
     ELSE th' = [th EXCEPT ![t] = [@ EXCEPT !.pc = "loadintern", !.i = 1]]
  /\ UNCHANGED <<node, peer, file, known, meant, strayed, sees>>

-----------------------------------------------------------------------------
(* save_cache: fopen truncates, the line stays in the stdio buffer until   *)
(* fclose.                                                                 *)
SaveOpen(t) ==
  /\ At(t, "idle") /\ "save" \in Ops
  /\ file' = "empty"
  /\ Goto(t, "savelock")
  /\ UNCHANGED <<node, peer, lock, known, meant, strayed, sees>>

SaveLock(t) ==
  /\ At(t, "savelock")
  /\ lock = Null /\ lock' = t
  /\ Goto(t, "save")
  /\ sees' = IF Partners = {} THEN sees ELSE sees \cup {t}
  /\ UNCHANGED <<node, peer, file, known, meant, strayed>>

(* The first partner is written, the others are only counted.              *)
SavesAny(t) == node[th[t].i].valid /\ th[t].u = Null
Saves(t) == node[th[t].i].valid /\ node[th[t].i].partner /\ th[t].u = Null

Line(t) == IF Saves(t) THEN node[th[t].i].uuid ELSE th[t].u
SaveSlot(t) ==
  /\ At(t, "save")
  /\ th[t].i \in Nodes
  /\ th' = [th EXCEPT ![t] = [@ EXCEPT !.i = th[t].i + 1, !.u = Line(t)]]
  /\ UNCHANGED <<node, peer, lock, file, known, meant, strayed, sees>>

SaveUnlock(t) ==
  /\ At(t, "save")
  /\ th[t].i \notin Nodes
  /\ lock' = Null
  /\ Goto(t, "saveclose")
  /\ UNCHANGED <<node, peer, file, known, meant, strayed, sees>>

SaveCloseAlways(t) ==
  /\ At(t, "saveclose")
  /\ file' = th[t].u
  /\ Return(t)
  /\ sees' = sees \ {t}
  /\ UNCHANGED <<node, peer, lock, known, meant, strayed>>
SaveClose(t) ==
  /\ At(t, "saveclose")
  /\ file' = IF th[t].u = Null THEN file ELSE th[t].u
  /\ Return(t)
  /\ sees' = sees \ {t}
  /\ UNCHANGED <<node, peer, lock, known, meant, strayed>>

-----------------------------------------------------------------------------
(* load_cache.  Without a file it returns.  When fscanf reads nothing, the *)
(* buffer keeps what was on the stack, and is used all the same.           *)
LoadRead(t) ==
  /\ At(t, "load")
  /\ IF file = "absent" THEN Return(t)
     ELSE \E u \in UUID :
            /\ file = "empty" \/ u = file
            /\ th' = [th EXCEPT ![t] = [@ EXCEPT !.pc = "loadlock", !.u = u]]
  /\ UNCHANGED <<node, peer, lock, file, known, meant, strayed, sees>>

LoadLock(t) ==
  /\ At(t, "loadlock")
  /\ lock = Null /\ lock' = t
  /\ Goto(t, "loadclear")
  /\ UNCHANGED <<node, peer, file, known, meant, strayed, sees>>

LoadIntern(t) ==
  /\ At(t, "loadintern") /\ lock = Null
  /\ \E r \in Nodes :
       /\ InternNode(th[t].u, r)
       /\ th' = [th EXCEPT ![t] = [@ EXCEPT !.pc = "loadpartner", !.n = r]]
  /\ Observe
  /\ UNCHANGED <<peer, lock, file, meant, strayed, sees>>

(* The table is full: make_partner through the null pointer.               *)
LoadCrash(t) ==
  /\ At(t, "loadintern") /\ lock = Null
  /\ NodeMatch(th[t].u) = {} /\ FreeNodes = {}
  /\ Started
  /\ UNCHANGED <<file, known>>

LoadPartner(t) ==
  /\ At(t, "loadpartner")
  /\ node' = [node EXCEPT ![th[t].n] = [@ EXCEPT !.partner = TRUE]]
  /\ meant' = [meant EXCEPT ![th[t].n] = [@ EXCEPT !.partner = th[t].u]]
  /\ Return(t)
  /\ Observe
  /\ UNCHANGED <<peer, lock, file, strayed, sees>>

(* The process dies and is started again; the file stays as it is.         *)
Crash ==
  /\ MayCrash
  /\ Started
  /\ UNCHANGED <<file, known>>

-----------------------------------------------------------------------------
Step(t) ==
  \/ InsertIntern(t) \/ InsertOrdinal(t)
  \/ DiscoverPeer(t) \/ MakePartner(t) \/ DiscoverNode(t) \/ PeerNode(t)
  \/ RemoveNode(t) \/ RemoveNeighbor(t)
  \/ ClearStart(t) \/ ClearSlot(t) \/ ClearEnd(t)
  \/ SaveOpen(t) \/ SaveLock(t) \/ SaveSlot(t) \/ SaveUnlock(t) \/ SaveClose(t)
  \/ LoadRead(t) \/ LoadLock(t) \/ LoadIntern(t) \/ LoadCrash(t) \/ LoadPartner(t)

Next == Crash \/ \E t \in Threads : Step(t)

Spec == Init /\ [][Next]_vars

-----------------------------------------------------------------------------
(* Properties                                                              *)

Pcs == {"idle", "ordinal", "heard", "node", "clear", "savelock", "save",
        "saveclose", "load", "loadlock", "loadclear", "loadintern", "loadpartner"}

Byte     == 0 .. 255
NodeType == [uuid : UUID \cup {Null}, ordinal : Byte,
             partner : BOOLEAN, valid : BOOLEAN]
PeerType == [addr : Address \cup {Null}, node : Nodes \cup {NULL},
             partner : BOOLEAN, valid : BOOLEAN]
ThreadType == [pc : Pcs, u : UUID \cup {Null}, o : Ordinals \cup {NoOrdinal},
               n : Nodes \cup {NULL}, p : Peers \cup {NULL}, i : 1 .. NodeSlots + 1]

(* The shape of the state: pointers point into their tables, a scan stops  *)
(* at the end of the table, and the cache holds an id or nothing.          *)
TypeOK ==
  /\ node \in [Nodes -> NodeType]
  /\ peer \in [Peers -> PeerType]
  /\ th \in [Threads -> ThreadType]
  /\ lock \in Threads \cup {Null}
  /\ file \in UUID \cup {"absent", "empty"}
  /\ known \subseteq UUID
  /\ meant \in [Nodes -> [ordinal : UUID \cup {Null}, partner : UUID \cup {Null}]]
  /\ strayed \subseteq Nodes
  /\ sees \subseteq Threads

(***************************************************************************)
(* However many threads intern and remove at once, a node id or a peer     *)
(* address has at most one valid slot (intern_node, intern_neighbor: "if   *)
(* the peer already exists ... do not add it a second time").              *)
(***************************************************************************)
UniqueEntries ==
  /\ \A i, j \in Nodes :
       node[i].valid /\ node[j].valid /\ node[i].uuid = node[j].uuid => i = j
  /\ \A i, j \in Peers :
       peer[i].valid /\ peer[j].valid /\ peer[i].addr = peer[j].addr => i = j

(***************************************************************************)
(* A slot that remove_node frees and intern_node uses again brings nothing *)
(* from the node it held before: its ordinal was given to the id it has    *)
(* now by insert_node, and if it is a partner, Peer::node or load_cache    *)
(* made that id the partner.  Excepted is a slot that was removed under a  *)
(* thread that held its pointer and may write through it later, until it   *)
(* is removed again.                                                       *)
(***************************************************************************)
NothingInherited ==
  \A i \in Nodes \ strayed : node[i].valid =>
    /\ node[i].ordinal # NoOrdinal => meant[i].ordinal = node[i].uuid
    /\ node[i].partner => meant[i].partner = node[i].uuid

(***************************************************************************)
(* The id in "partner-cache" is one the table had as a partner, whatever   *)
(* happens to the table while save_cache looks at it, and wherever it      *)
(* crashes.                                                                *)
(***************************************************************************)
CacheHoldsPartner == file \in UUID => file \in known

(***************************************************************************)
(* save_cache has truncated the only copy before it looks for a partner.   *)
(* When the table has one as it takes the mutex, the scan finds one and    *)
(* the file gets a line, whatever other threads do to the flags during     *)
(* the scan.                                                               *)
(***************************************************************************)
SaveFindsPartner ==
  \A t \in Threads : At(t, "saveclose") /\ t \in sees => th[t].u # Null

(***************************************************************************)
(* load_cache "simply loads the previous saved value of the partner node   *)
(* id": the node it is about to make a partner was one before.             *)
(***************************************************************************)
LoadsSavedPartner ==
  \A t \in Threads :
    th[t].pc \in {"loadlock", "loadclear", "loadintern", "loadpartner"} => th[t].u \in known

=============================================================================
