------------------------------ MODULE MemPool ------------------------------
(***************************************************************************)
(* The global C++ heap of the program: Allocator.cc replaces operator new  *)
(* and operator delete by a chain of slabs ("MemPool").  Each slab stores  *)
(* Count objects of one size; a bit map says which entries are free.  The  *)
(* last pool of the chain is always uninitialised (size 0) and becomes the *)
(* slab of the first size that walks off the initialised ones.             *)
(*                                                                         *)
(* operator new and operator delete serialise on one mutex, so only the    *)
(* lock-free statistics walk, Allocator::inject, sees a slab half built:   *)
(* initialize is therefore split where inject can observe the difference.  *)
(*                                                                         *)
(* Abstractions: a slab's region is its pool's number, an address is the   *)
(* pair <<pool, entry>> (start + entry * size), and the bit map is the set *)
(* of free entries.  No caller catches an exception, so a throw ends the   *)
(* process; fate records how it ended.                                     *)
(***************************************************************************)
EXTENDS Integers, FiniteSets, Sequences

CONSTANTS
  Threads,    \* threads that call new and delete
  Sizes,      \* object sizes they ask for, in bytes
  Count,      \* entries in one slab (MemPool::count)
  Word,       \* 2^32: free() keeps the length of a region in a uint32_t
  MaxPools,   \* bound: pools mmap can provide before it fails
  NoThread    \* the mutex is free

ASSUME MemPoolAssumption ==
  /\ Sizes \subseteq Nat \ {0}
  /\ Count \in Nat \ {0}
  /\ Word \in Nat \ {0}
  /\ MaxPools \in Nat \ {0}
  /\ NoThread \notin Threads

Pool    == 1 .. MaxPools
Entry   == 0 .. Count - 1
Address == Pool \X Entry
Object  == [pool : Pool, entry : Entry, want : Sizes]

VARIABLES
  size,     \* size[p]: object size of pool p, 0 while uninitialised
  free,     \* free[p]: entries whose bit is set in map
  npools,   \* pools in the chain; pool p's next is p + 1 when p < npools
  mutex,    \* the thread inside new or delete, or NoThread
  pc,       \* where each thread is
  cur,      \* the pool whose allocate or free the thread is in
  want,     \* argument of operator new
  ptr,      \* argument of operator delete
  owned,    \* objects each thread holds: returned by new, not yet deleted
  fate,     \* "running", or how the process ended
  walk      \* the Allocator::inject call in progress

threadVars == <<mutex, pc, cur, want, ptr, owned>>
vars == <<size, free, npools, mutex, pc, cur, want, ptr, owned, fate, walk>>

Building == {"mmap", "fill", "chain"}           \* inside initialize
InNew    == {"lock_new", "allocate"} \cup Building
InDelete == {"lock_delete", "free"}
Inside   == {"allocate", "free"} \cup Building   \* between lock and unlock
PCs      == {"idle"} \cup InNew \cup InDelete

Fates == {"running", "bad_alloc", "double_free", "invalid_object", "sigfpe",
          "sigsegv"}

(* uint32_t length = count * size                                          *)
Length(sz) == (Count * sz) % Word

(* The size classes whose region free() can measure.                       *)
Fits(sz) == Count * sz < Word

(* The chain pointer of pool p: 0 stands for NULL.                         *)
NextPoolUnchecked(p) == p + 1
NextPool(p) == IF p < npools THEN p + 1 ELSE 0

(***************************************************************************)
(* free() takes the object for its own when it lies in [start, end].  An   *)
(* uninitialised pool has start = NULL and length = 0, so end wraps to the *)
(* highest address and every object is "in range".                         *)
(***************************************************************************)
InRangeShort(p, a) ==
  \/ size[p] = 0
  \/ a[1] = p /\ a[2] * size[p] < Length(size[p]) - 1
InRange(p, a) ==
  \/ size[p] = 0
  \/ a[1] = p /\ a[2] * size[p] < Length(size[p])

(* object_size == size: the pool serves this request.                      *)
ServesBestFit(p, sz) == size[p] >= sz
Serves(p, sz) == size[p] = sz

(* map[word] &= ~mask and map[word] |= mask                                *)
ClearBitForgotten(p, e) == free
ClearBit(p, e) == [free EXCEPT ![p] = @ \ {e}]
SetBitForgotten(p, e) == free
SetBitZero(p, e) == [free EXCEPT ![p] = @ \cup {0}]
SetBit(p, e) == [free EXCEPT ![p] = @ \cup {e}]

FirstFree(p) == CHOOSE e \in free[p] : \A f \in free[p] : e <= f

Init ==
  /\ size   = [p \in Pool |-> 0]
  /\ free   = [p \in Pool |-> {}]
  /\ npools = 1
  /\ mutex  = NoThread
  /\ pc     = [t \in Threads |-> "idle"]
  /\ cur    = [t \in Threads |-> 1]
  /\ want   = [t \in Threads |-> 0]
  /\ ptr    = [t \in Threads |-> <<1, 0>>]
  /\ owned  = [t \in Threads |-> {}]
  /\ fate   = "running"
  /\ walk   = [at |-> 0, full |-> 0, seen |-> <<>>]

Goto(t, l) == pc' = [pc EXCEPT ![t] = l]

(* Back in the caller: the call's locals are gone.  Every call starts at   *)
(* the primary pool.                                                       *)
Return(t) ==
  /\ Goto(t, "idle")
  /\ cur'  = [cur EXCEPT ![t] = 1]
  /\ want' = [want EXCEPT ![t] = 0]
  /\ ptr'  = [ptr EXCEPT ![t] = <<1, 0>>]

(* An exception nobody catches, or a fatal signal.                         *)
Die(how) == fate' = how

-----------------------------------------------------------------------------
(* operator new                                                            *)

New(t, sz) ==
  /\ pc[t] = "idle"
  /\ want' = [want EXCEPT ![t] = sz]
  /\ Goto(t, "lock_new")
  /\ UNCHANGED <<size, free, npools, mutex, cur, ptr, owned, fate, walk>>

NewLock(t) ==
  /\ pc[t] = "lock_new"
  /\ mutex = NoThread
  /\ mutex' = t
  /\ Goto(t, "allocate")
  /\ UNCHANGED <<size, free, npools, cur, want, ptr, owned, fate, walk>>

(* allocate on an uninitialised pool: initialize() first sets the size.    *)
InitSize(t) ==
  /\ pc[t] = "allocate"
  /\ size[cur[t]] = 0
  /\ size' = [size EXCEPT ![cur[t]] = want[t]]
  /\ Goto(t, "mmap")
  /\ UNCHANGED <<free, npools, mutex, cur, want, ptr, owned, fate, walk>>

InitMap(t) ==
  /\ pc[t] = "mmap"
  /\ \/ Goto(t, "fill") /\ UNCHANGED fate
     \/ Die("bad_alloc") /\ UNCHANGED pc
  /\ UNCHANGED <<size, free, npools, mutex, cur, want, ptr, owned, walk>>

InitFill(t) ==
  /\ pc[t] = "fill"
  /\ free' = [free EXCEPT ![cur[t]] = Entry]
  /\ Goto(t, "chain")
  /\ UNCHANGED <<size, npools, mutex, cur, want, ptr, owned, fate, walk>>

(* next = new MemPool: the class's own operator new, another mmap.         *)
InitChain(t) ==
  /\ pc[t] = "chain"
  /\ \/ /\ npools < MaxPools
        /\ npools' = npools + 1
        /\ Goto(t, "allocate")
        /\ UNCHANGED fate
     \/ /\ Die("bad_alloc")
        /\ UNCHANGED <<npools, pc>>
  /\ UNCHANGED <<size, free, mutex, cur, want, ptr, owned, walk>>

AllocateNextRestart(t) ==
  /\ pc[t] = "allocate"
  /\ size[cur[t]] # 0
  /\ ~Serves(cur[t], want[t]) \/ free[cur[t]] = {}
  /\ cur' = [cur EXCEPT ![t] = 1]
  /\ UNCHANGED <<size, free, npools, mutex, pc, want, ptr, owned, fate, walk>>

(* Another size class, or no free entry: next->allocate( object_size ),    *)
(* a call through NULL when the pool has no next.                          *)
AllocateNext(t) ==
  /\ pc[t] = "allocate"
  /\ size[cur[t]] # 0
  /\ ~Serves(cur[t], want[t]) \/ free[cur[t]] = {}
  /\ IF NextPool(cur[t]) = 0
       THEN Die("sigsegv") /\ UNCHANGED cur
       ELSE cur' = [cur EXCEPT ![t] = NextPool(@)] /\ UNCHANGED fate
  /\ UNCHANGED <<size, free, npools, mutex, pc, want, ptr, owned, walk>>

(* Take the first free entry, unlock and return its address.               *)
AllocateTake(t) ==
  LET p == cur[t]
      e == FirstFree(p)
  IN /\ pc[t] = "allocate"
     /\ size[p] # 0
     /\ Serves(p, want[t])
     /\ free[p] # {}
     /\ free' = ClearBit(p, e)
     /\ owned' = [owned EXCEPT
                    ![t] = @ \cup {[pool |-> p, entry |-> e, want |-> want[t]]}]
     /\ mutex' = NoThread
     /\ Return(t)
     /\ UNCHANGED <<size, npools, fate, walk>>

-----------------------------------------------------------------------------
(* operator delete, and objects handed from one thread to another          *)

Delete(t) ==
  /\ pc[t] = "idle"
  /\ \E o \in owned[t] :
       /\ ptr' = [ptr EXCEPT ![t] = <<o.pool, o.entry>>]
       /\ owned' = [owned EXCEPT ![t] = @ \ {o}]
  /\ Goto(t, "lock_delete")
  /\ UNCHANGED <<size, free, npools, mutex, cur, want, fate, walk>>

DeleteLock(t) ==
  /\ pc[t] = "lock_delete"
  /\ mutex = NoThread
  /\ mutex' = t
  /\ Goto(t, "free")
  /\ UNCHANGED <<size, free, npools, cur, want, ptr, owned, fate, walk>>

(* Not in this pool's region: next->free( object ), or throw.              *)
FreeNext(t) ==
  /\ pc[t] = "free"
  /\ ~InRange(cur[t], ptr[t])
  /\ IF NextPool(cur[t]) = 0
       THEN Die("invalid_object") /\ UNCHANGED cur
       ELSE cur' = [cur EXCEPT ![t] = NextPool(@)] /\ UNCHANGED fate
  /\ UNCHANGED <<size, free, npools, mutex, pc, want, ptr, owned, walk>>

(* offset / size, the double free test, then the bit is set.               *)
FreeHere(t) ==
  LET p == cur[t]
      e == ptr[t][2]
  IN /\ pc[t] = "free"
     /\ InRange(p, ptr[t])
     /\ \/ /\ size[p] = 0
           /\ Die("sigfpe")
           /\ UNCHANGED <<free, mutex, pc, cur, want, ptr>>
        \/ /\ size[p] # 0
           /\ e \in free[p]
           /\ Die("double_free")
           /\ UNCHANGED <<free, mutex, pc, cur, want, ptr>>
        \/ /\ size[p] # 0
           /\ e \notin free[p]
           /\ free' = SetBit(p, e)
           /\ mutex' = NoThread
           /\ Return(t)
           /\ UNCHANGED fate
     /\ UNCHANGED <<size, npools, owned, walk>>

(* One thread passes an object to another, which will delete it.           *)
Give(t, u) ==
  /\ pc[t] = "idle" /\ pc[u] = "idle" /\ t # u
  /\ \E o \in owned[t] :
       owned' = [owned EXCEPT ![t] = @ \ {o}, ![u] = @ \cup {o}]
  /\ UNCHANGED <<size, free, npools, mutex, pc, cur, want, ptr, fate, walk>>

-----------------------------------------------------------------------------
(* Allocator::inject walks the chain without the mutex                     *)

(* walk.full: how many slabs were complete when the walk began.            *)
InjectStart ==
  /\ walk.at = 0
  /\ walk' = [at |-> 1, full |-> npools - 1, seen |-> <<>>]
  /\ UNCHANGED <<size, free, npools, threadVars, fate>>

InjectVisitSkipsFull ==
  /\ walk.at # 0
  /\ IF size[walk.at] = 0
       THEN walk' = [walk EXCEPT !.at = 0]
       ELSE walk' = [walk EXCEPT !.at = NextPool(@),
                                 !.seen = IF free[walk.at] = {} THEN @
                                     ELSE Append(@, <<walk.at, size[walk.at]>>)]
  /\ UNCHANGED <<size, free, npools, threadVars, fate>>

InjectVisit ==
  /\ walk.at # 0
  /\ IF size[walk.at] = 0
       THEN walk' = [walk EXCEPT !.at = 0]
       ELSE walk' = [walk EXCEPT !.at = NextPool(@),
                                 !.seen = Append(@, <<walk.at, size[walk.at]>>)]
  /\ UNCHANGED <<size, free, npools, threadVars, fate>>

-----------------------------------------------------------------------------
ThreadStep(t) ==
  \/ NewLock(t) \/ InitSize(t) \/ InitMap(t) \/ InitFill(t) \/ InitChain(t)
  \/ AllocateNext(t) \/ AllocateTake(t)
  \/ DeleteLock(t) \/ FreeNext(t) \/ FreeHere(t)

Call(t) ==
  \/ \E sz \in Sizes : New(t, sz)
  \/ Delete(t)
  \/ \E u \in Threads : Give(t, u)

Next ==
  /\ fate = "running"
  /\ \/ \E t \in Threads : ThreadStep(t) \/ Call(t)
     \/ InjectStart
     \/ InjectVisit

(* A runnable thread keeps running; a mutex is not promised to be fair.    *)
Fairness ==
  /\ \A t \in Threads : WF_vars(fate = "running" /\ ThreadStep(t))
  /\ WF_vars(fate = "running" /\ InjectVisit)

Spec == Init /\ [][Next]_vars
FairSpec == Spec /\ Fairness

-----------------------------------------------------------------------------
(* What a thread must be able to rely on                                   *)

TypeOK ==
  /\ size   \in [Pool -> Sizes \cup {0}]
  /\ free   \in [Pool -> SUBSET Entry]
  /\ npools \in Pool
  /\ mutex  \in Threads \cup {NoThread}
  /\ pc     \in [Threads -> PCs]
  /\ cur    \in [Threads -> Pool]
  /\ want   \in [Threads -> Sizes \cup {0}]
  /\ ptr    \in [Threads -> Address]
  /\ owned  \in [Threads -> SUBSET Object]
  /\ fate   \in Fates
  /\ walk   \in [at : Pool \cup {0}, full : Nat, seen : Seq(Pool \X Sizes)]

AddressOf(o) == <<o.pool, o.entry>>

(* The addresses a thread may still touch, or is in the act of deleting.   *)
Held(t) ==
  {AddressOf(o) : o \in owned[t]}
    \cup (IF pc[t] \in InDelete THEN {ptr[t]} ELSE {})

(* Entries of complete slabs whose bit is clear.                           *)
Used == {a \in Address : a[1] < npools /\ a[2] \notin free[a[1]]}

(***************************************************************************)
(* Two live objects never share an address: whatever new returned to one   *)
(* thread is not returned again, to it or to another, before the delete of *)
(* it has set the bit.                                                     *)
(***************************************************************************)
NoAliasing ==
  /\ \A t, u \in Threads : t # u => Held(t) \cap Held(u) = {}
  /\ \A t \in Threads : \A o, q \in owned[t] :
       AddressOf(o) = AddressOf(q) => o = q

(***************************************************************************)
(* The bit maps are exact: the entries marked in use are the objects the   *)
(* threads hold, no more (a leak) and no fewer (a live object that new     *)
(* would hand out again).                                                  *)
(***************************************************************************)
MapExact ==
  \A a \in Address : a \in Used <=> \E t \in Threads : a \in Held(t)

(***************************************************************************)
(* "Each slab stores objects all of the same size" (Allocator.h): an       *)
(* object lives in a complete slab of exactly the size that was asked for. *)
(***************************************************************************)
ObjectFits ==
  \A t \in Threads : \A o \in owned[t] :
    o.pool < npools /\ size[o.pool] = o.want

(***************************************************************************)
(* Callers that delete only what they hold never make the allocator kill   *)
(* the process, except for one class of object: those so large that the    *)
(* 32 bit length free() computes for their region has wrapped.             *)
(***************************************************************************)
CrashOnlyOversized ==
  \/ fate \in {"running", "bad_alloc"}
  \/ /\ fate = "sigfpe"
     /\ \E t \in Threads : pc[t] = "free" /\ ~Fits(size[ptr[t][1]])

(***************************************************************************)
(* "The Injector object will be called once for each slab of allocated     *)
(* data" (Allocator.h), although the walk takes no lock: it reports pools  *)
(* in chain order, none twice, each with the size it will keep, and when   *)
(* it ends it has missed no slab that was complete when it began.          *)
(***************************************************************************)
InjectOncePerSlab ==
  /\ \A i \in 1 .. Len(walk.seen) : walk.seen[i] = <<i, size[i]>>
  /\ walk.at = 0 => Len(walk.seen) >= walk.full

-----------------------------------------------------------------------------
(* The inductive invariant behind the properties above                     *)

(* The mutex is held by the thread that is between lock and unlock.        *)
LockInv == \A t \in Threads : pc[t] \in Inside <=> mutex = t

(* All pools but the last are slabs; the last is one only in initialize(). *)
ChainInv ==
  /\ \A p \in Pool : p < npools => size[p] # 0
  /\ \A p \in Pool : p > npools => size[p] = 0
  /\ size[npools] # 0 => \E t \in Threads : pc[t] \in Building

(* Where a thread is in the chain, and what it has prepared there.         *)
CurInv ==
  \A t \in Threads :
    /\ cur[t] <= npools
    /\ pc[t] \in InNew => want[t] \in Sizes
    /\ pc[t] \in Building => cur[t] = npools /\ size[npools] = want[t]
    /\ pc[t] = "chain" => free[npools] = Entry

(* free() does not walk past the slab of an object whose size fits.        *)
FreeWalkInv ==
  \A t \in Threads :
    pc[t] = "free" /\ Fits(size[ptr[t][1]]) => cur[t] <= ptr[t][1]

(* Every call starts at the primary pool.                                  *)
OutsideAtHeap == \A t \in Threads : pc[t] \notin Inside => cur[t] = 1

(* An object being deleted is no longer among those the caller holds.      *)
PtrNotOwned ==
  \A t \in Threads : pc[t] \in InDelete =>
    \A o \in owned[t] : AddressOf(o) # ptr[t]

(* inject is one pool past the last one it reported.                       *)
WalkInv ==
  walk.at # 0 =>
    /\ Len(walk.seen) = walk.at - 1
    /\ walk.at <= npools
    /\ walk.full < npools

IInv ==
  /\ TypeOK /\ LockInv /\ ChainInv /\ CurInv /\ FreeWalkInv
  /\ PtrNotOwned /\ OutsideAtHeap /\ WalkInv
  /\ NoAliasing /\ MapExact /\ ObjectFits
  /\ CrashOnlyOversized /\ InjectOncePerSlab

-----------------------------------------------------------------------------
(***************************************************************************)
(* The pools implement the abstract heap: an address is held from the step *)
(* that clears its bit to the step that sets it again.                     *)
(***************************************************************************)
AbstractHeap == INSTANCE Heap
  WITH holders <- [a \in Address |-> {t \in Threads : a \in Held(t)}]

(* Every behaviour of the pools is one of the abstract heap: new returns   *)
(* an address no thread holds, delete gives up the caller's own.           *)
ImplementsHeap == AbstractHeap!Spec

(***************************************************************************)
(* new and delete always come back out of the mutex (unless the process    *)
(* ends): the walk along the chain finds a slab with a free entry, makes   *)
(* one, or finds the object's slab.                                        *)
(***************************************************************************)
MutexReleased ==
  mutex # NoThread ~> (mutex = NoThread \/ fate # "running")

=============================================================================
