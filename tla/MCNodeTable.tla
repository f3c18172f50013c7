---------------------------- MODULE MCNodeTable ----------------------------
(* NodeTable for TLC.                                                      *)
EXTENDS NodeTable, TLC

CONSTANTS t1, t2

OneThread  == {t1}
TwoThreads == {t1, t2}
Symmetry   == Permutations(UUID) \cup Permutations(Address)

(* States that differ only in what no later step or property depends on    *)
(* are one for TLC: the id and the ordinal of an invalid slot, which       *)
(* Node::uuid overwrites, the address of an invalid peer, the node a peer  *)
(* was connected to, and whether an id was a partner that is neither in    *)
(* the file nor in a thread's hands (save_cache takes an id up only while  *)
(* it is a partner).                                                       *)
View ==
  <<[i \in Nodes |-> IF node[i].valid THEN node[i]
                     ELSE [FreeNode EXCEPT !.partner = node[i].partner]],
    [j \in Peers |-> [FreePeer EXCEPT !.addr = IF peer[j].valid THEN peer[j].addr ELSE Null,
                                      !.valid = peer[j].valid, !.partner = peer[j].partner]],
    lock, th, file,
    known \cap ({file} \cup {th[t].u : t \in Threads}), meant, strayed, sees>>

=============================================================================
