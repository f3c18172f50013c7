--------------------------- MODULE MemPoolProofs ---------------------------
(***************************************************************************)
(* Proofs about MemPool for any number of threads, any size classes, any   *)
(* slab size and any number of pools.  IInv is inductive; each property    *)
(* that the runs check on small instances follows from it.                 *)
(***************************************************************************)
EXTENDS MemPool, WellFoundedInduction, TLAPS

USE MemPoolAssumption

(* A non-empty set of naturals has a least element, so the scan of the bit *)
(* map in MemPool::allocate finds an entry whenever one is free.           *)
LEMMA LeastNat ==
  ASSUME NEW T, T \subseteq Nat, T # {}
  PROVE  \E x \in T : \A y \in T : x <= y
<1> DEFINE R == OpToRel(<, Nat)
<1>1. IsWellFoundedOn(R, Nat)
  BY NatLessThanWellFounded
<1>2. \A x, y \in Nat : y < x => <<y, x>> \in R
  BY DEF OpToRel
<1> HIDE DEF R
<1>3. PICK x \in T : \A y \in T : ~(<<y, x>> \in R)
  BY <1>1, WFMin
<1>4. \A y \in T : ~(y < x)
  BY <1>2, <1>3
<1>5. QED
  BY <1>4

(* FirstFree yields a free entry.                                          *)
LEMMA FirstFreeIsFree ==
  ASSUME TypeOK, NEW p \in Pool, free[p] # {}
  PROVE  FirstFree(p) \in free[p] /\ FirstFree(p) \in Entry
<1>1. free[p] \subseteq Nat
  BY DEF TypeOK, Entry
<1>2. \E e \in free[p] : \A f \in free[p] : e <= f
  BY <1>1, LeastNat
<1>3. FirstFree(p) \in free[p]
  BY <1>2 DEF FirstFree
<1>4. QED
  BY <1>3 DEF TypeOK

(* In a slab whose region length does not wrap, free() recognises every    *)
(* entry as its own.                                                       *)
LEMMA OwnEntryInRange ==
  ASSUME NEW sz \in Sizes, Fits(sz), NEW e \in Entry
  PROVE  e * sz < Length(sz)
<1>1. Count * sz \in Nat /\ Count * sz < Word
  BY DEF Fits
<1>2. Length(sz) = Count * sz
  BY <1>1 DEF Length
<1>3. e * sz < Count * sz
  <2>1. e \in Nat /\ e < Count /\ sz \in Nat /\ sz > 0
    BY DEF Entry
  <2> QED BY <2>1
<1>4. QED
  BY <1>2, <1>3

(* The facts about the chain that keep a thread from leaving it: a thread  *)
(* inside new or delete (and not in initialize) stands on a pool that is a *)
(* slab only if it has a next.                                             *)
LEMMA NextIsPool ==
  ASSUME TypeOK, LockInv, ChainInv, CurInv,
         NEW t \in Threads, pc[t] \in {"allocate", "free"}, size[cur[t]] # 0
  PROVE  /\ cur[t] < npools
         /\ NextPool(cur[t]) = cur[t] + 1
         /\ NextPool(cur[t]) \in Pool
<1>1. mutex = t
  BY DEF LockInv, Inside
<1>2. \A u \in Threads : pc[u] \notin Building
  BY <1>1 DEF LockInv, Inside, Building
<1>3. size[npools] = 0
  BY <1>2 DEF ChainInv
<1>4. cur[t] \in Nat /\ npools \in Nat /\ cur[t] <= npools /\ cur[t] # npools
  BY <1>3 DEF CurInv, TypeOK, Pool
<1>5. cur[t] < npools
  BY <1>4
<1>6. QED
  BY <1>5 DEF NextPool, TypeOK, Pool

(* Type correctness is preserved by every step.                            *)
LEMMA TypeStep ==
  ASSUME IInv, [Next]_vars
  PROVE  TypeOK'
<1> USE DEF TypeOK
<1>1. CASE UNCHANGED vars
  BY <1>1 DEF vars, IInv
<1>2. ASSUME NEW t \in Threads, NEW sz \in Sizes, New(t, sz) PROVE TypeOK'
  BY <1>2 DEF New, Goto, IInv, PCs, InNew
<1>3. ASSUME NEW t \in Threads, NewLock(t) PROVE TypeOK'
  BY <1>3 DEF NewLock, Goto, IInv, PCs, InNew
<1>4. ASSUME NEW t \in Threads, InitSize(t) PROVE TypeOK'
  BY <1>4 DEF InitSize, Goto, IInv, PCs, InNew, Building
<1>5. ASSUME NEW t \in Threads, InitMap(t) PROVE TypeOK'
  BY <1>5 DEF InitMap, Goto, Die, Fates, IInv, PCs, InNew, Building
<1>6. ASSUME NEW t \in Threads, InitFill(t) PROVE TypeOK'
  BY <1>6 DEF InitFill, Goto, IInv, PCs, InNew, Building
<1>7. ASSUME NEW t \in Threads, InitChain(t) PROVE TypeOK'
  <2>1. npools' \in Pool
    BY <1>7 DEF InitChain, Pool, IInv
  <2> QED
    BY <1>7, <2>1 DEF InitChain, Goto, Die, Fates, IInv, PCs, InNew
<1>8. ASSUME NEW t \in Threads, AllocateNext(t) PROVE TypeOK'
  BY <1>8, NextIsPool DEF AllocateNext, Die, Fates, IInv
<1>9. ASSUME NEW t \in Threads, AllocateTake(t) PROVE TypeOK'
  <2> DEFINE p == cur[t]
  <2> DEFINE e == FirstFree(p)
  <2>1. p \in Pool /\ e \in Entry /\ want[t] \in Sizes
    BY <1>9, FirstFreeIsFree DEF AllocateTake, Serves, IInv
  <2>2. [pool |-> p, entry |-> e, want |-> want[t]] \in Object
    BY <2>1 DEF Object
  <2>3. <<1, 0>> \in Address /\ 1 \in Pool
    BY DEF Address, Pool, Entry
  <2> HIDE DEF e
  <2> QED
    BY <1>9, <2>1, <2>2, <2>3
    DEF AllocateTake, e, ClearBit, Return, Goto, IInv, PCs
<1>10. ASSUME NEW t \in Threads, Delete(t) PROVE TypeOK'
  BY <1>10 DEF Delete, Goto, Address, Object, IInv, PCs, InDelete
<1>11. ASSUME NEW t \in Threads, DeleteLock(t) PROVE TypeOK'
  BY <1>11 DEF DeleteLock, Goto, IInv, PCs, InDelete
<1>12. ASSUME NEW t \in Threads, FreeNext(t) PROVE TypeOK'
  BY <1>12, NextIsPool DEF FreeNext, InRange, Die, Fates, IInv
<1>13. ASSUME NEW t \in Threads, FreeHere(t) PROVE TypeOK'
  <2>1. <<1, 0>> \in Address /\ 1 \in Pool
    BY DEF Address, Pool, Entry
  <2>2. ptr[t][2] \in Entry
    BY DEF Address, IInv
  <2>3. /\ free' \in [Pool -> SUBSET Entry]
        /\ mutex' \in Threads \cup {NoThread}
        /\ fate' \in Fates
    BY <1>13, <2>2 DEF FreeHere, SetBit, Die, Fates, IInv
  <2>4. /\ pc' \in [Threads -> PCs]
        /\ cur' \in [Threads -> Pool]
        /\ want' \in [Threads -> Sizes \cup {0}]
        /\ ptr' \in [Threads -> Address]
    <3>1. CASE UNCHANGED <<pc, cur, want, ptr>>
      BY <3>1 DEF IInv
    <3>2. CASE Return(t)
      BY <2>1, <3>2 DEF Return, Goto, IInv, PCs
    <3> QED
      BY <1>13, <3>1, <3>2 DEF FreeHere
  <2> QED
    BY <1>13, <2>3, <2>4 DEF FreeHere, IInv
<1>14. ASSUME NEW t \in Threads, NEW u \in Threads, Give(t, u) PROVE TypeOK'
  BY <1>14 DEF Give, IInv
<1>15. CASE InjectStart
  BY <1>15 DEF InjectStart, threadVars, IInv, Pool
<1>16. CASE InjectVisit
  <2>1. walk.at \in Pool /\ NextPool(walk.at) \in Pool \cup {0}
    BY <1>16 DEF InjectVisit, NextPool, Pool, IInv
  <2>2. CASE size[walk.at] = 0
    BY <1>16, <2>2 DEF InjectVisit, threadVars, IInv
  <2>3. CASE size[walk.at] # 0
    <3>1. <<walk.at, size[walk.at]>> \in Pool \X Sizes
      BY <2>1, <2>3 DEF IInv
    <3>2. Append(walk.seen, <<walk.at, size[walk.at]>>) \in Seq(Pool \X Sizes)
      BY <3>1 DEF IInv
    <3>3. walk' \in [at : Pool \cup {0}, full : Nat, seen : Seq(Pool \X Sizes)]
      BY <1>16, <2>1, <2>3, <3>2 DEF InjectVisit, IInv
    <3> QED
      BY <1>16, <3>3 DEF InjectVisit, threadVars, IInv
  <2> QED
    BY <2>2, <2>3
<1>17. QED
  BY <1>1, <1>2, <1>3, <1>4, <1>5, <1>6, <1>7, <1>8, <1>9, <1>10, <1>11,
     <1>12, <1>13, <1>14, <1>15, <1>16
  DEF Next, ThreadStep, Call

-----------------------------------------------------------------------------
(* The mutex is held exactly between lock and unlock.                      *)
LEMMA LockStep ==
  ASSUME IInv, [Next]_vars
  PROVE  LockInv'
<1> USE DEF IInv, TypeOK, LockInv, Inside, Building, Goto
<1>1. CASE UNCHANGED vars
  BY <1>1 DEF vars
<1>2. ASSUME NEW t \in Threads, Call(t) PROVE LockInv'
  BY <1>2 DEF Call, New, Delete, Give
<1>3. ASSUME NEW t \in Threads, NewLock(t) \/ DeleteLock(t) PROVE LockInv'
  BY <1>3 DEF NewLock, DeleteLock
<1>4. ASSUME NEW t \in Threads,
             InitSize(t) \/ InitMap(t) \/ InitFill(t) \/ InitChain(t)
      PROVE  LockInv'
  BY <1>4 DEF InitSize, InitMap, InitFill, InitChain
<1>5. ASSUME NEW t \in Threads, AllocateNext(t) \/ FreeNext(t) PROVE LockInv'
  BY <1>5 DEF AllocateNext, FreeNext
<1>6. ASSUME NEW t \in Threads, AllocateTake(t) PROVE LockInv'
  BY <1>6 DEF AllocateTake, Return
<1>7. ASSUME NEW t \in Threads, FreeHere(t) PROVE LockInv'
  BY <1>7 DEF FreeHere, Return
<1>8. CASE InjectStart \/ InjectVisit
  BY <1>8 DEF InjectStart, InjectVisit, threadVars
<1>9. QED
  BY <1>1, <1>2, <1>3, <1>4, <1>5, <1>6, <1>7, <1>8 DEF Next, ThreadStep

(* All pools but the last are slabs, and the last only in initialize().    *)
LEMMA ChainStep ==
  ASSUME IInv, [Next]_vars
  PROVE  ChainInv'
<1> USE DEF IInv, TypeOK, ChainInv, Goto
<1>1. CASE UNCHANGED vars
  BY <1>1 DEF vars
<1>2. ASSUME NEW t \in Threads, Call(t) PROVE ChainInv'
  BY <1>2 DEF Call, New, Delete, Give, Building
<1>3. ASSUME NEW t \in Threads, NewLock(t) \/ DeleteLock(t) PROVE ChainInv'
  BY <1>3 DEF NewLock, DeleteLock, Building
<1>4. ASSUME NEW t \in Threads, InitSize(t) PROVE ChainInv'
  <2>1. cur[t] = npools
    BY <1>4 DEF InitSize, CurInv, Pool
  <2> QED
    BY <1>4, <2>1 DEF InitSize, CurInv, InNew, Building
<1>5. ASSUME NEW t \in Threads, InitMap(t) \/ InitFill(t) PROVE ChainInv'
  BY <1>5 DEF InitMap, InitFill, Building
<1>6. ASSUME NEW t \in Threads, InitChain(t) PROVE ChainInv'
  <2>1. size[npools] # 0
    BY <1>6 DEF InitChain, CurInv, Building, InNew
  <2>2. CASE npools' = npools + 1 /\ npools < MaxPools
    <3>1. npools' \in Pool /\ size[npools'] = 0
      BY <2>2 DEF Pool
    <3> QED
      BY <1>6, <2>1, <2>2, <3>1 DEF InitChain, Pool
  <2>3. CASE UNCHANGED <<npools, pc>>
    BY <1>6, <2>3 DEF InitChain
  <2> QED
    BY <1>6, <2>2, <2>3 DEF InitChain
<1>7. ASSUME NEW t \in Threads, AllocateNext(t) \/ FreeNext(t) PROVE ChainInv'
  BY <1>7 DEF AllocateNext, FreeNext
<1>8. ASSUME NEW t \in Threads, AllocateTake(t) PROVE ChainInv'
  BY <1>8 DEF AllocateTake, Return, Building
<1>9. ASSUME NEW t \in Threads, FreeHere(t) PROVE ChainInv'
  BY <1>9 DEF FreeHere, Return, Building
<1>10. CASE InjectStart \/ InjectVisit
  BY <1>10 DEF InjectStart, InjectVisit, threadVars
<1>11. QED
  BY <1>1, <1>2, <1>3, <1>4, <1>5, <1>6, <1>7, <1>8, <1>9, <1>10
  DEF Next, ThreadStep

(* Where each thread stands in the chain.                                  *)
LEMMA CurStep ==
  ASSUME IInv, [Next]_vars
  PROVE  CurInv'
<1> USE DEF IInv, TypeOK, CurInv, Goto
<1>1. CASE UNCHANGED vars
  BY <1>1 DEF vars
<1>2. ASSUME NEW t \in Threads, Call(t) PROVE CurInv'
  BY <1>2 DEF Call, New, Delete, Give, InNew, Building
<1>3. ASSUME NEW t \in Threads, NewLock(t) \/ DeleteLock(t) PROVE CurInv'
  BY <1>3 DEF NewLock, DeleteLock, InNew, Building
<1>4. ASSUME NEW t \in Threads, InitSize(t) PROVE CurInv'
  <2>1. cur[t] = npools
    BY <1>4 DEF InitSize, ChainInv, Pool
  <2>2. \A u \in Threads : u # t => pc[u] \notin Building
    BY <1>4 DEF InitSize, LockInv, Inside, Building
  <2> QED
    BY <1>4, <2>1, <2>2 DEF InitSize, InNew, Building
<1>5. ASSUME NEW t \in Threads, InitMap(t) \/ InitFill(t) PROVE CurInv'
  <2>1. \A u \in Threads : u # t => pc[u] \notin Building
    BY <1>5 DEF InitMap, InitFill, LockInv, Inside, Building
  <2> QED
    BY <1>5, <2>1 DEF InitMap, InitFill, InNew, Building
<1>6. ASSUME NEW t \in Threads, InitChain(t) PROVE CurInv'
  <2>1. \A u \in Threads : u # t => pc[u] \notin Building
    BY <1>6 DEF InitChain, LockInv, Inside, Building
  <2>2. npools \in Nat /\ \A u \in Threads : cur[u] \in Nat
    BY DEF Pool
  <2> QED
    BY <1>6, <2>1, <2>2 DEF InitChain, InNew, Building
<1>7. ASSUME NEW t \in Threads, AllocateNext(t) \/ FreeNext(t) PROVE CurInv'
  <2>1. size[cur[t]] # 0 /\ pc[t] \in {"allocate", "free"}
    BY <1>7 DEF AllocateNext, FreeNext, InRange
  <2>2. NextPool(cur[t]) <= npools
    BY <2>1, NextIsPool DEF Pool
  <2> QED
    BY <1>7, <2>1, <2>2 DEF AllocateNext, FreeNext, InNew, Building
<1>8. ASSUME NEW t \in Threads, AllocateTake(t) PROVE CurInv'
  <2>1. \A u \in Threads : pc[u] \notin Building
    BY <1>8 DEF AllocateTake, LockInv, Inside, Building
  <2>2. 1 <= npools
    BY DEF Pool
  <2> QED
    BY <1>8, <2>1, <2>2 DEF AllocateTake, Return, InNew, Building
<1>9. ASSUME NEW t \in Threads, FreeHere(t) PROVE CurInv'
  <2>1. \A u \in Threads : pc[u] \notin Building
    BY <1>9 DEF FreeHere, LockInv, Inside, Building
  <2>2. 1 <= npools
    BY DEF Pool
  <2> QED
    BY <1>9, <2>1, <2>2 DEF FreeHere, Return, InNew, Building
<1>10. CASE InjectStart \/ InjectVisit
  BY <1>10 DEF InjectStart, InjectVisit, threadVars
<1>11. QED
  BY <1>1, <1>2, <1>3, <1>4, <1>5, <1>6, <1>7, <1>8, <1>9, <1>10
  DEF Next, ThreadStep

-----------------------------------------------------------------------------
(* What the steps do to the addresses a thread holds                       *)

(* A step that keeps owned, and keeps pc and ptr of the threads that are   *)
(* deleting, keeps what every thread holds.                                *)
LEMMA HeldSame ==
  ASSUME UNCHANGED owned, NEW u,
         pc'[u] \in InDelete <=> pc[u] \in InDelete,
         pc[u] \in InDelete => ptr'[u] = ptr[u]
  PROVE  Held(u)' = Held(u)
BY DEF Held, AddressOf

(* The steps of new and delete other than the two that touch the bit map,  *)
(* and the calls other than Give, change no thread's holdings.             *)
LEMMA HeldQuiet ==
  ASSUME IInv, NEW t \in Threads,
         \/ \E sz \in Sizes : New(t, sz)
         \/ NewLock(t) \/ InitSize(t) \/ InitMap(t) \/ InitFill(t)
         \/ InitChain(t) \/ AllocateNext(t) \/ DeleteLock(t) \/ FreeNext(t)
  PROVE  \A u \in Threads : Held(u)' = Held(u)
<1> SUFFICES ASSUME NEW u \in Threads
             PROVE  Held(u)' = Held(u)
  OBVIOUS
<1>1. UNCHANGED owned /\ UNCHANGED ptr
  BY DEF New, NewLock, InitSize, InitMap, InitFill, InitChain, AllocateNext,
         DeleteLock, FreeNext
<1>2. pc'[u] \in InDelete <=> pc[u] \in InDelete
  BY DEF New, NewLock, InitSize, InitMap, InitFill, InitChain, AllocateNext,
         DeleteLock, FreeNext, Goto, InDelete, IInv, TypeOK
<1>3. QED
  BY <1>1, <1>2, HeldSame

(* new adds the address it returns to the caller's holdings.               *)
LEMMA HeldTake ==
  ASSUME IInv, NEW t \in Threads, AllocateTake(t)
  PROVE  /\ Held(t)' = Held(t) \cup {<<cur[t], FirstFree(cur[t])>>}
         /\ \A u \in Threads : u # t => Held(u)' = Held(u)
<1> DEFINE o == [pool |-> cur[t], entry |-> FirstFree(cur[t]), want |-> want[t]]
<1>1. owned' = [owned EXCEPT ![t] = @ \cup {o}]
  BY DEF AllocateTake
<1>2. AddressOf(o) = <<cur[t], FirstFree(cur[t])>>
  BY DEF AddressOf
<1>3. pc[t] \notin InDelete /\ pc'[t] \notin InDelete
  BY DEF AllocateTake, Return, Goto, InDelete, IInv, TypeOK
<1> HIDE DEF o
<1>4. owned'[t] = owned[t] \cup {o}
  BY <1>1 DEF IInv, TypeOK
<1>5. Held(t)' = Held(t) \cup {AddressOf(o)}
  BY <1>3, <1>4 DEF Held, AddressOf
<1>6. ASSUME NEW u \in Threads, u # t PROVE Held(u)' = Held(u)
  <2>1. owned'[u] = owned[u] /\ pc'[u] = pc[u] /\ ptr'[u] = ptr[u]
    BY <1>1, <1>6 DEF AllocateTake, Return, Goto, IInv, TypeOK
  <2> QED
    BY <2>1 DEF Held, AddressOf
<1>7. QED
  BY <1>2, <1>5, <1>6

(* delete drops the deleted address, and only that, once its bit is set.   *)
LEMMA HeldFree ==
  ASSUME IInv, NEW t \in Threads, FreeHere(t), fate' = "running"
  PROVE  /\ Held(t)' = Held(t) \ {ptr[t]}
         /\ \A u \in Threads : u # t => Held(u)' = Held(u)
<1>1. UNCHANGED owned /\ Return(t)
  BY DEF FreeHere, Die
<1>2. pc[t] \in InDelete /\ pc'[t] \notin InDelete
  BY <1>1 DEF FreeHere, Return, Goto, InDelete, IInv, TypeOK
<1>3. \A o \in owned[t] : AddressOf(o) # ptr[t]
  BY <1>2 DEF IInv, PtrNotOwned
<1>4. Held(t)' = Held(t) \ {ptr[t]}
  BY <1>1, <1>2, <1>3 DEF Held, AddressOf
<1>5. ASSUME NEW u \in Threads, u # t PROVE Held(u)' = Held(u)
  <2>1. pc'[u] = pc[u] /\ ptr'[u] = ptr[u]
    BY <1>1, <1>5 DEF Return, Goto, IInv, TypeOK
  <2> QED
    BY <1>1, <2>1 DEF Held, AddressOf
<1>6. QED
  BY <1>4, <1>5

(* A delete that has not got the mutex yet still holds the address.        *)
LEMMA HeldDelete ==
  ASSUME IInv, NEW t \in Threads, Delete(t)
  PROVE  \A u \in Threads : Held(u)' = Held(u)
<1>1. PICK o \in owned[t] : /\ ptr' = [ptr EXCEPT ![t] = <<o.pool, o.entry>>]
                            /\ owned' = [owned EXCEPT ![t] = @ \ {o}]
  BY DEF Delete
<1>2. pc[t] \notin InDelete /\ pc'[t] \in InDelete
  BY DEF Delete, Goto, InDelete, IInv, TypeOK
<1>3. ptr'[t] = AddressOf(o) /\ owned'[t] = owned[t] \ {o}
  BY <1>1 DEF IInv, TypeOK, AddressOf
<1>4. Held(t)' = Held(t)
  BY <1>2, <1>3 DEF Held, AddressOf
<1>5. ASSUME NEW u \in Threads, u # t PROVE Held(u)' = Held(u)
  <2>1. owned'[u] = owned[u] /\ pc'[u] = pc[u] /\ ptr'[u] = ptr[u]
    BY <1>1, <1>5 DEF Delete, Goto, IInv, TypeOK
  <2> QED
    BY <2>1 DEF Held, AddressOf
<1>6. QED
  BY <1>4, <1>5

(* Handing an object over moves its address from one thread to the other.  *)
LEMMA HeldGive ==
  ASSUME IInv, NEW t \in Threads, NEW u \in Threads, Give(t, u)
  PROVE  \E o \in owned[t] :
           /\ owned'[t] = owned[t] \ {o} /\ owned'[u] = owned[u] \cup {o}
           /\ Held(t)' = Held(t) \ {AddressOf(o)}
           /\ Held(u)' = Held(u) \cup {AddressOf(o)}
           /\ AddressOf(o) \in Held(t)
           /\ \A v \in Threads : v # t /\ v # u =>
                 Held(v)' = Held(v) /\ owned'[v] = owned[v]
<1>1. PICK o \in owned[t] :
         owned' = [owned EXCEPT ![t] = @ \ {o}, ![u] = @ \cup {o}]
  BY DEF Give
<1>2. t # u /\ pc[t] \notin InDelete /\ pc[u] \notin InDelete /\ UNCHANGED <<pc, ptr>>
  BY DEF Give, InDelete
<1>3. owned'[t] = owned[t] \ {o} /\ owned'[u] = owned[u] \cup {o}
  BY <1>1, <1>2 DEF IInv, TypeOK
<1>4. \A q \in owned[t] : AddressOf(q) = AddressOf(o) => q = o
  BY DEF IInv, NoAliasing
<1>5. /\ Held(t)' = Held(t) \ {AddressOf(o)}
      /\ Held(u)' = Held(u) \cup {AddressOf(o)}
      /\ AddressOf(o) \in Held(t)
  <2>1. Held(t) = {AddressOf(q) : q \in owned[t]}
    BY <1>2 DEF Held
  <2>2. Held(u) = {AddressOf(q) : q \in owned[u]}
    BY <1>2 DEF Held
  <2>3. Held(t)' = {AddressOf(q) : q \in owned[t] \ {o}}
    BY <1>2, <1>3 DEF Held, AddressOf
  <2>4. Held(u)' = {AddressOf(q) : q \in owned[u] \cup {o}}
    BY <1>2, <1>3 DEF Held, AddressOf
  <2> QED
    BY <1>4, <2>1, <2>2, <2>3, <2>4
<1>6. \A v \in Threads : v # t /\ v # u =>
        Held(v)' = Held(v) /\ owned'[v] = owned[v]
  BY <1>1, <1>2 DEF Held, AddressOf, IInv, TypeOK
<1>7. QED
  BY <1>3, <1>5, <1>6

-----------------------------------------------------------------------------
(* What the steps do to the bit maps                                       *)

(* A thread that finds a matching slab with a free entry is on a complete  *)
(* slab, and no thread holds the entry it is about to take.                *)
LEMMA TakeIsFresh ==
  ASSUME IInv, NEW t \in Threads, AllocateTake(t)
  PROVE  LET a == <<cur[t], FirstFree(cur[t])>>
         IN  /\ a \in Address /\ cur[t] < npools
             /\ FirstFree(cur[t]) \in free[cur[t]]
             /\ \A u \in Threads : a \notin Held(u)
<1> DEFINE e == FirstFree(cur[t])
<1>1. cur[t] \in Pool /\ e \in free[cur[t]] /\ e \in Entry
  BY FirstFreeIsFree DEF AllocateTake, IInv, TypeOK
<1>2. cur[t] < npools
  BY NextIsPool DEF AllocateTake, IInv
<1> HIDE DEF e
<1>3. <<cur[t], e>> \in Address /\ <<cur[t], e>> \notin Used
  BY <1>1 DEF Address, Used
<1>4. \A u \in Threads : <<cur[t], e>> \notin Held(u)
  BY <1>3 DEF IInv, MapExact
<1>5. QED
  BY <1>1, <1>2, <1>3, <1>4 DEF e

(* An object being deleted is in a complete slab and its bit is clear.     *)
LEMMA PtrIsUsed ==
  ASSUME IInv, NEW t \in Threads, pc[t] \in InDelete
  PROVE  /\ ptr[t] \in Address /\ ptr[t][1] \in Pool
         /\ ptr[t] \in Held(t)
         /\ ptr[t][1] < npools /\ ptr[t][2] \notin free[ptr[t][1]]
<1>1. ptr[t] \in Address /\ ptr[t] \in Held(t)
  BY DEF IInv, TypeOK, Held
<1>2. ptr[t] \in Used
  BY <1>1 DEF IInv, MapExact
<1>3. QED
  BY <1>1, <1>2 DEF Used, Address

(* Entries marked in use are exactly the objects held.                     *)
LEMMA MapStep ==
  ASSUME IInv, [Next]_vars
  PROVE  MapExact'
<1>1. ASSUME Used' = Used, \A u \in Threads : Held(u)' = Held(u)
      PROVE  MapExact'
  BY <1>1 DEF IInv, MapExact
<1>2. CASE UNCHANGED vars
  BY <1>2 DEF IInv, MapExact, vars, Used, Held, AddressOf
<1>3. ASSUME NEW t \in Threads,
             \/ \E sz \in Sizes : New(t, sz)
             \/ NewLock(t) \/ InitSize(t) \/ InitMap(t)
             \/ AllocateNext(t) \/ DeleteLock(t) \/ FreeNext(t)
      PROVE  MapExact'
  <2>1. UNCHANGED <<free, npools>>
    BY <1>3 DEF New, NewLock, InitSize, InitMap, AllocateNext, DeleteLock, FreeNext
  <2>2. Used' = Used
    BY <2>1 DEF Used
  <2> QED
    BY <1>1, <1>3, <2>2, HeldQuiet
<1>4. ASSUME NEW t \in Threads, InitFill(t) PROVE MapExact'
  <2>1. cur[t] = npools /\ npools' = npools
        /\ free' = [free EXCEPT ![cur[t]] = Entry]
    BY <1>4 DEF InitFill, IInv, CurInv, Building
  <2>2. Used' = Used
    BY <2>1 DEF Used, IInv, TypeOK, Pool, Address
  <2> QED
    BY <1>1, <1>4, <2>2, HeldQuiet
<1>5. ASSUME NEW t \in Threads, InitChain(t) PROVE MapExact'
  <2>1. free[npools] = Entry /\ UNCHANGED free /\ npools' \in {npools, npools + 1}
    BY <1>5 DEF InitChain, IInv, CurInv
  <2>2. Used' = Used
    BY <2>1 DEF Used, IInv, TypeOK, Pool, Address
  <2> QED
    BY <1>1, <1>5, <2>2, HeldQuiet
<1>6. ASSUME NEW t \in Threads, Delete(t) PROVE MapExact'
  <2>1. Used' = Used
    BY <1>6 DEF Delete, Used
  <2> QED
    BY <1>1, <1>6, <2>1, HeldDelete
<1>7. ASSUME NEW t \in Threads, NEW u \in Threads, Give(t, u) PROVE MapExact'
  <2>1. Used' = Used
    BY <1>7 DEF Give, Used
  <2>2. \A a : (\E v \in Threads : a \in Held(v)') <=> (\E v \in Threads : a \in Held(v))
    <3>1. PICK o \in owned[t] :
             /\ Held(t)' = Held(t) \ {AddressOf(o)}
             /\ Held(u)' = Held(u) \cup {AddressOf(o)}
             /\ AddressOf(o) \in Held(t)
             /\ \A v \in Threads : v # t /\ v # u => Held(v)' = Held(v)
      BY <1>7, HeldGive
    <3> QED
      BY <3>1
  <2> QED
    BY <2>1, <2>2 DEF IInv, MapExact
<1>8. ASSUME NEW t \in Threads, AllocateTake(t) PROVE MapExact'
  <2> DEFINE e == FirstFree(cur[t])
  <2>1. <<cur[t], e>> \in Address /\ cur[t] < npools /\ e \in free[cur[t]]
    BY <1>8, TakeIsFresh
  <2>2. free' = [free EXCEPT ![cur[t]] = @ \ {e}] /\ npools' = npools
    BY <1>8 DEF AllocateTake, ClearBit
  <2>3. Held(t)' = Held(t) \cup {<<cur[t], e>>}
        /\ \A u \in Threads : u # t => Held(u)' = Held(u)
    BY <1>8, HeldTake
  <2> HIDE DEF e
  <2>4. Used' = Used \cup {<<cur[t], e>>}
    BY <2>1, <2>2 DEF Used, IInv, TypeOK, Address
  <2> QED
    BY <2>3, <2>4 DEF IInv, MapExact
<1>9. ASSUME NEW t \in Threads, FreeHere(t), fate = "running" PROVE MapExact'
  <2>1. CASE UNCHANGED <<free, pc, ptr>>
    BY <1>9, <2>1 DEF FreeHere, IInv, MapExact, Used, Held, AddressOf
  <2>2. CASE fate' = "running" /\ free' = SetBit(cur[t], ptr[t][2]) /\ size[cur[t]] # 0
    <3>1. pc[t] \in InDelete /\ cur[t] = ptr[t][1] /\ npools' = npools
      BY <1>9, <2>2 DEF FreeHere, InRange, InDelete
    <3>2. ptr[t] \in Address
      BY <3>1, PtrIsUsed
    <3> DEFINE e == ptr[t][2]
    <3>3. ptr[t] = <<cur[t], e>> /\ cur[t] \in Pool /\ e \in Entry
      BY <3>1, <3>2 DEF Address
    <3>4. free' = [free EXCEPT ![cur[t]] = @ \cup {e}]
      BY <2>2 DEF SetBit
    <3> HIDE DEF e
    <3>5. Used' = Used \ {ptr[t]}
      BY <3>1, <3>3, <3>4 DEF Used, IInv, TypeOK, Address
    <3>6. /\ Held(t)' = Held(t) \ {ptr[t]}
          /\ \A u \in Threads : u # t => Held(u)' = Held(u)
      BY <1>9, <2>2, HeldFree
    <3>7. \A u \in Threads : u # t => ptr[t] \notin Held(u)
      BY <3>1, PtrIsUsed DEF IInv, NoAliasing
    <3> QED
      BY <3>5, <3>6, <3>7 DEF IInv, MapExact
  <2>3. CASE fate' # "running"
    BY <1>9, <2>1, <2>3 DEF FreeHere, Die
  <2> QED
    BY <1>9, <2>1, <2>2, <2>3 DEF FreeHere
<1>10. CASE InjectStart \/ InjectVisit
  BY <1>10 DEF InjectStart, InjectVisit, threadVars, IInv, MapExact, Used, Held,
               AddressOf
<1>11. QED
  BY <1>2, <1>3, <1>4, <1>5, <1>6, <1>7, <1>8, <1>9, <1>10
  DEF Next, ThreadStep, Call

-----------------------------------------------------------------------------
(* Objects                                                                 *)

(* No two live objects share an address, and the one being deleted is not  *)
(* among those held.                                                       *)
LEMMA AliasStep ==
  ASSUME IInv, [Next]_vars
  PROVE  NoAliasing' /\ PtrNotOwned'
<1>1. ASSUME UNCHANGED owned, \A u \in Threads : Held(u)' = Held(u)
      PROVE  NoAliasing'
  BY <1>1 DEF IInv, NoAliasing, AddressOf
<1>2. CASE UNCHANGED vars
  BY <1>2 DEF IInv, NoAliasing, PtrNotOwned, vars, Held, AddressOf
<1>3. ASSUME NEW t \in Threads,
             \/ \E sz \in Sizes : New(t, sz)
             \/ NewLock(t) \/ InitSize(t) \/ InitMap(t) \/ InitFill(t)
             \/ InitChain(t) \/ AllocateNext(t) \/ DeleteLock(t) \/ FreeNext(t)
      PROVE  NoAliasing' /\ PtrNotOwned'
  <2>1. UNCHANGED <<owned, ptr>>
    BY <1>3 DEF New, NewLock, InitSize, InitMap, InitFill, InitChain,
                AllocateNext, DeleteLock, FreeNext
  <2>2. \A u \in Threads : pc'[u] \in InDelete => pc[u] \in InDelete
    BY <1>3 DEF New, NewLock, InitSize, InitMap, InitFill, InitChain,
         AllocateNext, DeleteLock, FreeNext, Goto, InDelete, IInv, TypeOK
  <2>3. PtrNotOwned'
    BY <2>1, <2>2 DEF IInv, PtrNotOwned, AddressOf
  <2> QED
    BY <1>1, <1>3, <2>1, <2>3, HeldQuiet
<1>4. ASSUME NEW t \in Threads, Delete(t) PROVE NoAliasing' /\ PtrNotOwned'
  <2>1. PICK o \in owned[t] : /\ ptr' = [ptr EXCEPT ![t] = <<o.pool, o.entry>>]
                              /\ owned' = [owned EXCEPT ![t] = @ \ {o}]
    BY <1>4 DEF Delete
  <2>2. ptr'[t] = AddressOf(o) /\ owned'[t] = owned[t] \ {o}
    BY <2>1 DEF IInv, TypeOK, AddressOf
  <2>3. \A u \in Threads : u # t =>
          ptr'[u] = ptr[u] /\ owned'[u] = owned[u] /\ pc'[u] = pc[u]
    BY <1>4, <2>1 DEF Delete, Goto, IInv, TypeOK
  <2>4. NoAliasing'
    BY <1>4, <2>2, <2>3, HeldDelete DEF IInv, NoAliasing, AddressOf
  <2>5. \A q \in owned'[t] : AddressOf(q) # ptr'[t]
    BY <2>2 DEF IInv, NoAliasing
  <2>6. PtrNotOwned'
    BY <2>3, <2>5 DEF IInv, PtrNotOwned, AddressOf
  <2> QED
    BY <2>4, <2>6
<1>5. ASSUME NEW t \in Threads, NEW u \in Threads, Give(t, u)
      PROVE  NoAliasing' /\ PtrNotOwned'
  <2>1. PICK o \in owned[t] :
           /\ owned'[t] = owned[t] \ {o} /\ owned'[u] = owned[u] \cup {o}
           /\ Held(t)' = Held(t) \ {AddressOf(o)}
           /\ Held(u)' = Held(u) \cup {AddressOf(o)}
           /\ AddressOf(o) \in Held(t)
           /\ \A v \in Threads : v # t /\ v # u =>
                 Held(v)' = Held(v) /\ owned'[v] = owned[v]
    BY <1>5, HeldGive
  <2>2. t # u /\ UNCHANGED <<pc, ptr>>
        /\ pc[t] \notin InDelete /\ pc[u] \notin InDelete
    BY <1>5 DEF Give, InDelete
  <2>3. Held(t) \cap Held(u) = {}
    BY <2>2 DEF IInv, NoAliasing
  <2>4. \A v, w \in Threads : v # w => Held(v)' \cap Held(w)' = {}
    BY <2>1, <2>2 DEF IInv, NoAliasing
  <2>5. \A q \in owned[u] : AddressOf(q) # AddressOf(o)
    BY <2>1, <2>3 DEF Held
  <2>6. \A v \in Threads : \A q, r \in owned'[v] : AddressOf(q) = AddressOf(r) => q = r
    BY <2>1, <2>2, <2>5 DEF IInv, NoAliasing
  <2>7. NoAliasing'
    BY <2>4, <2>6 DEF NoAliasing, AddressOf
  <2>8. PtrNotOwned'
    BY <2>1, <2>2 DEF IInv, PtrNotOwned, AddressOf
  <2> QED
    BY <2>7, <2>8
<1>6. ASSUME NEW t \in Threads, AllocateTake(t)
      PROVE  NoAliasing' /\ PtrNotOwned'
  <2> DEFINE e == FirstFree(cur[t])
  <2> DEFINE o == [pool |-> cur[t], entry |-> e, want |-> want[t]]
  <2>1. owned' = [owned EXCEPT ![t] = @ \cup {o}]
    BY <1>6 DEF AllocateTake
  <2>2. AddressOf(o) = <<cur[t], e>>
    BY DEF AddressOf
  <2>3. \A u \in Threads : AddressOf(o) \notin Held(u)
    BY <1>6, <2>2, TakeIsFresh
  <2>4. Held(t)' = Held(t) \cup {AddressOf(o)}
        /\ \A u \in Threads : u # t => Held(u)' = Held(u)
    BY <1>6, <2>2, HeldTake
  <2> HIDE DEF o, e
  <2>5. owned'[t] = owned[t] \cup {o}
        /\ \A u \in Threads : u # t => owned'[u] = owned[u]
    BY <2>1 DEF IInv, TypeOK
  <2>6. \A v, w \in Threads : v # w => Held(v)' \cap Held(w)' = {}
    BY <2>3, <2>4 DEF IInv, NoAliasing
  <2>7. \A q \in owned[t] : AddressOf(q) # AddressOf(o)
    BY <2>3 DEF Held
  <2>8. \A v \in Threads : \A q, r \in owned'[v] : AddressOf(q) = AddressOf(r) => q = r
    BY <2>5, <2>7 DEF IInv, NoAliasing
  <2>9. NoAliasing'
    BY <2>6, <2>8 DEF NoAliasing, AddressOf
  <2>10. pc'[t] \notin InDelete
         /\ \A u \in Threads : u # t => pc'[u] = pc[u] /\ ptr'[u] = ptr[u]
    BY <1>6 DEF AllocateTake, Return, Goto, InDelete, IInv, TypeOK
  <2>11. PtrNotOwned'
    BY <2>5, <2>10 DEF IInv, PtrNotOwned, AddressOf
  <2> QED
    BY <2>9, <2>11
<1>7. ASSUME NEW t \in Threads, FreeHere(t), fate = "running"
      PROVE  NoAliasing' /\ PtrNotOwned'
  <2>1. CASE UNCHANGED <<owned, pc, ptr>>
    BY <2>1 DEF IInv, NoAliasing, PtrNotOwned, Held, AddressOf
  <2>2. CASE fate' = "running" /\ Return(t)
    <3>1. UNCHANGED owned
      BY <1>7 DEF FreeHere
    <3>2. \A u \in Threads : Held(u)' \subseteq Held(u)
      BY <1>7, <2>2, HeldFree
    <3>3. NoAliasing'
      BY <3>1, <3>2 DEF IInv, NoAliasing, AddressOf
    <3>4. pc'[t] \notin InDelete
          /\ \A u \in Threads : u # t => pc'[u] = pc[u] /\ ptr'[u] = ptr[u]
      BY <2>2 DEF Return, Goto, InDelete, IInv, TypeOK
    <3>5. PtrNotOwned'
      BY <3>1, <3>4 DEF IInv, PtrNotOwned, AddressOf
    <3> QED
      BY <3>3, <3>5
  <2> QED
    BY <1>7, <2>1, <2>2 DEF FreeHere
<1>8. CASE InjectStart \/ InjectVisit
  BY <1>8 DEF InjectStart, InjectVisit, threadVars, IInv, NoAliasing, PtrNotOwned,
              Held, AddressOf
<1>9. QED
  BY <1>2, <1>3, <1>4, <1>5, <1>6, <1>7, <1>8 DEF Next, ThreadStep, Call

(* Objects live in complete slabs of the size asked for.                   *)
LEMMA FitsStep ==
  ASSUME IInv, [Next]_vars
  PROVE  ObjectFits'
<1> USE DEF IInv, TypeOK, ObjectFits
<1>1. CASE UNCHANGED vars
  BY <1>1 DEF vars
<1>2. ASSUME NEW t \in Threads,
             \/ \E sz \in Sizes : New(t, sz)
             \/ NewLock(t) \/ InitMap(t) \/ InitFill(t)
             \/ AllocateNext(t) \/ DeleteLock(t) \/ FreeNext(t) \/ FreeHere(t)
      PROVE  ObjectFits'
  BY <1>2 DEF New, NewLock, InitMap, InitFill, AllocateNext, DeleteLock,
              FreeNext, FreeHere
<1>3. ASSUME NEW t \in Threads, InitSize(t) PROVE ObjectFits'
  <2>1. \A u \in Threads : \A o \in owned[u] : o.pool # cur[t]
    BY <1>3 DEF InitSize, ChainInv, Object
  <2> QED
    BY <1>3, <2>1 DEF InitSize, Object
<1>4. ASSUME NEW t \in Threads, InitChain(t) PROVE ObjectFits'
  BY <1>4 DEF InitChain, Object, Pool
<1>5. ASSUME NEW t \in Threads, Delete(t) PROVE ObjectFits'
  BY <1>5 DEF Delete
<1>6. ASSUME NEW t \in Threads, NEW u \in Threads, Give(t, u) PROVE ObjectFits'
  BY <1>6 DEF Give
<1>7. ASSUME NEW t \in Threads, AllocateTake(t) PROVE ObjectFits'
  <2>1. cur[t] < npools /\ size[cur[t]] = want[t]
    BY <1>7, TakeIsFresh DEF AllocateTake, Serves
  <2> QED
    BY <1>7, <2>1 DEF AllocateTake
<1>8. CASE InjectStart \/ InjectVisit
  BY <1>8 DEF InjectStart, InjectVisit, threadVars
<1>9. QED
  BY <1>1, <1>2, <1>3, <1>4, <1>5, <1>6, <1>7, <1>8 DEF Next, ThreadStep, Call

-----------------------------------------------------------------------------
(* The walk of delete                                                      *)

(* In the object's own slab, when its size fits, free() stops.             *)
LEMMA StopsAtOwnSlab ==
  ASSUME IInv, NEW t \in Threads, pc[t] = "free",
         Fits(size[ptr[t][1]]), cur[t] = ptr[t][1]
  PROVE  InRange(cur[t], ptr[t])
<1>1. /\ ptr[t] \in Address /\ ptr[t][1] \in Pool /\ ptr[t][2] \in Entry
      /\ ptr[t][1] < npools
  BY PtrIsUsed DEF InDelete, Address
<1>2. size[ptr[t][1]] \in Sizes
  BY <1>1 DEF IInv, TypeOK, ChainInv
<1>3. ptr[t][2] * size[ptr[t][1]] < Length(size[ptr[t][1]])
  BY <1>1, <1>2, OwnEntryInRange
<1>4. QED
  BY <1>3 DEF InRange

(* free() does not walk past the slab of an object whose size fits.        *)
LEMMA FreeWalkStep ==
  ASSUME IInv, [Next]_vars
  PROVE  FreeWalkInv'
<1> USE DEF FreeWalkInv, Goto
<1>1. CASE UNCHANGED vars
  BY <1>1 DEF vars, IInv
<1>2. ASSUME NEW t \in Threads, Call(t) PROVE FreeWalkInv'
  BY <1>2 DEF Call, New, Delete, Give, IInv, TypeOK
<1>3. ASSUME NEW t \in Threads,
             NewLock(t) \/ InitMap(t) \/ InitFill(t) \/ InitChain(t)
      PROVE  FreeWalkInv'
  BY <1>3 DEF NewLock, InitMap, InitFill, InitChain, IInv, TypeOK
<1>4. ASSUME NEW t \in Threads, InitSize(t) PROVE FreeWalkInv'
  <2>1. \A u \in Threads : pc[u] = "free" => size'[ptr[u][1]] = size[ptr[u][1]]
    BY <1>4, PtrIsUsed DEF InitSize, InDelete, IInv, TypeOK, ChainInv
  <2> QED
    BY <1>4, <2>1 DEF InitSize, IInv, TypeOK, Fits
<1>5. ASSUME NEW t \in Threads, AllocateNext(t) PROVE FreeWalkInv'
  BY <1>5 DEF AllocateNext, IInv, TypeOK
<1>6. ASSUME NEW t \in Threads, AllocateTake(t) PROVE FreeWalkInv'
  BY <1>6 DEF AllocateTake, Return, IInv, TypeOK
<1>7. ASSUME NEW t \in Threads, DeleteLock(t) PROVE FreeWalkInv'
  <2>1. cur[t] = 1
    BY <1>7 DEF DeleteLock, IInv, OutsideAtHeap, Inside, Building
  <2> QED
    BY <1>7, <2>1 DEF DeleteLock, IInv, TypeOK, Address, Pool
<1>8. ASSUME NEW t \in Threads, FreeNext(t) PROVE FreeWalkInv'
  <2>1. Fits(size[ptr[t][1]]) => cur[t] # ptr[t][1]
    BY <1>8, StopsAtOwnSlab DEF FreeNext
  <2>2. cur[t] \in Nat /\ ptr[t][1] \in Nat
    BY DEF IInv, TypeOK, Address, Pool
  <2>3. NextPool(cur[t]) \in {0, cur[t] + 1}
    BY DEF NextPool
  <2> QED
    BY <1>8, <2>1, <2>2, <2>3 DEF FreeNext, IInv, TypeOK
<1>9. ASSUME NEW t \in Threads, FreeHere(t) PROVE FreeWalkInv'
  BY <1>9 DEF FreeHere, Return, IInv, TypeOK
<1>10. CASE InjectStart \/ InjectVisit
  BY <1>10 DEF InjectStart, InjectVisit, threadVars, IInv
<1>11. QED
  BY <1>1, <1>2, <1>3, <1>4, <1>5, <1>6, <1>7, <1>8, <1>9, <1>10
  DEF Next, ThreadStep

(* Every call starts at the primary pool.                                  *)
LEMMA OutsideStep ==
  ASSUME IInv, [Next]_vars
  PROVE  OutsideAtHeap'
<1> USE DEF IInv, TypeOK, OutsideAtHeap, Inside, Building, Goto
<1>1. CASE UNCHANGED vars
  BY <1>1 DEF vars
<1>2. ASSUME NEW t \in Threads, Call(t) PROVE OutsideAtHeap'
  BY <1>2 DEF Call, New, Delete, Give
<1>3. ASSUME NEW t \in Threads,
             \/ NewLock(t) \/ InitSize(t) \/ InitMap(t) \/ InitFill(t)
             \/ InitChain(t) \/ AllocateNext(t) \/ DeleteLock(t) \/ FreeNext(t)
      PROVE  OutsideAtHeap'
  BY <1>3 DEF NewLock, InitSize, InitMap, InitFill, InitChain, AllocateNext,
              DeleteLock, FreeNext
<1>4. ASSUME NEW t \in Threads, AllocateTake(t) \/ FreeHere(t) PROVE OutsideAtHeap'
  BY <1>4 DEF AllocateTake, FreeHere, Return
<1>5. CASE InjectStart \/ InjectVisit
  BY <1>5 DEF InjectStart, InjectVisit, threadVars
<1>6. QED
  BY <1>1, <1>2, <1>3, <1>4, <1>5 DEF Next, ThreadStep

(* The allocator kills the process only over an oversized object.          *)
LEMMA CrashStep ==
  ASSUME IInv, [Next]_vars
  PROVE  CrashOnlyOversized'
<1> USE DEF CrashOnlyOversized, Die
<1>1. CASE UNCHANGED vars
  BY <1>1 DEF vars, IInv
<1> SUFFICES ASSUME Next PROVE CrashOnlyOversized'
  BY <1>1
<1>2. fate = "running"
  BY DEF Next
<1>3. ASSUME UNCHANGED fate PROVE CrashOnlyOversized'
  BY <1>2, <1>3
<1>4. ASSUME NEW t \in Threads, Call(t) PROVE CrashOnlyOversized'
  BY <1>3, <1>4 DEF Call, New, Delete, Give
<1>5. ASSUME NEW t \in Threads,
             \/ NewLock(t) \/ InitSize(t) \/ InitFill(t) \/ AllocateTake(t)
             \/ DeleteLock(t)
      PROVE  CrashOnlyOversized'
  BY <1>3, <1>5 DEF NewLock, InitSize, InitFill, AllocateTake, DeleteLock
<1>6. ASSUME NEW t \in Threads, InitMap(t) \/ InitChain(t)
      PROVE  CrashOnlyOversized'
  BY <1>2, <1>6 DEF InitMap, InitChain
<1>7. ASSUME NEW t \in Threads, AllocateNext(t) PROVE CrashOnlyOversized'
  <2>1. NextPool(cur[t]) # 0
    BY <1>7, NextIsPool DEF AllocateNext, Pool, IInv
  <2> QED
    BY <1>2, <1>7, <2>1 DEF AllocateNext
<1>8. ASSUME NEW t \in Threads, FreeNext(t) PROVE CrashOnlyOversized'
  <2>1. NextPool(cur[t]) # 0
    BY <1>8, NextIsPool DEF FreeNext, InRange, Pool, IInv
  <2> QED
    BY <1>2, <1>8, <2>1 DEF FreeNext
<1>9. ASSUME NEW t \in Threads, FreeHere(t) PROVE CrashOnlyOversized'
  <2>1. pc[t] = "free" /\ InRange(cur[t], ptr[t])
    BY <1>9 DEF FreeHere
  <2>2. ptr[t][1] \in Pool /\ ptr[t][1] < npools /\ ptr[t][2] \notin free[ptr[t][1]]
    BY <2>1, PtrIsUsed DEF InDelete
  <2>3. CASE size[cur[t]] = 0
    <3>1. cur[t] = npools
      BY <2>3 DEF IInv, TypeOK, ChainInv, CurInv, Pool
    <3>2. ~Fits(size[ptr[t][1]])
      <4>1. ~(cur[t] <= ptr[t][1])
        BY <2>2, <3>1 DEF IInv, TypeOK, Pool
      <4>2. FreeWalkInv
        BY DEF IInv
      <4> QED
        BY <2>1, <4>1, <4>2 DEF FreeWalkInv
    <3>3. fate' = "sigfpe" /\ UNCHANGED <<pc, ptr, size>>
      BY <1>9, <2>3 DEF FreeHere
    <3> QED
      BY <2>1, <3>2, <3>3 DEF Fits
  <2>4. CASE size[cur[t]] # 0
    <3>1. cur[t] = ptr[t][1]
      BY <2>1, <2>4 DEF InRange
    <3> QED
      BY <1>3, <1>9, <2>2, <2>4, <3>1 DEF FreeHere
  <2> QED
    BY <2>3, <2>4
<1>10. CASE InjectStart \/ InjectVisit
  BY <1>3, <1>10 DEF InjectStart, InjectVisit
<1>11. QED
  BY <1>4, <1>5, <1>6, <1>7, <1>8, <1>9, <1>10 DEF Next, ThreadStep

-----------------------------------------------------------------------------
(* The statistics walk                                                     *)

(* inject reports each slab once, in order, and misses no complete one.    *)
LEMMA InjectStep ==
  ASSUME IInv, [Next]_vars
  PROVE  WalkInv' /\ InjectOncePerSlab'
<1>1. npools \in Nat /\ walk.at \in Nat /\ walk.full \in Nat
      /\ walk.seen \in Seq(Pool \X Sizes)
  BY DEF IInv, TypeOK, Pool
<1>2. \A i \in 1 .. Len(walk.seen) :
        i \in Pool /\ walk.seen[i] = <<i, size[i]>> /\ size[i] # 0
  BY <1>1 DEF IInv, InjectOncePerSlab
<1>3. ASSUME UNCHANGED walk, npools' \in {npools, npools + 1},
             \A p \in Pool : size[p] # 0 => size'[p] = size[p]
      PROVE  WalkInv' /\ InjectOncePerSlab'
  <2>1. WalkInv'
    BY <1>1, <1>3 DEF IInv, WalkInv
  <2>2. InjectOncePerSlab'
    BY <1>1, <1>2, <1>3 DEF IInv, InjectOncePerSlab
  <2> QED
    BY <2>1, <2>2
<1>4. CASE UNCHANGED vars
  BY <1>3, <1>4 DEF vars
<1>5. ASSUME NEW t \in Threads, Call(t) PROVE WalkInv' /\ InjectOncePerSlab'
  BY <1>3, <1>5 DEF Call, New, Delete, Give
<1>6. ASSUME NEW t \in Threads, ThreadStep(t) PROVE WalkInv' /\ InjectOncePerSlab'
  <2>1. UNCHANGED walk
    BY <1>6 DEF ThreadStep, NewLock, InitSize, InitMap, InitFill, InitChain,
                AllocateNext, AllocateTake, DeleteLock, FreeNext, FreeHere
  <2>2. npools' \in {npools, npools + 1}
    BY <1>6 DEF ThreadStep, NewLock, InitSize, InitMap, InitFill, InitChain,
                AllocateNext, AllocateTake, DeleteLock, FreeNext, FreeHere
  <2>3. \A p \in Pool : size[p] # 0 => size'[p] = size[p]
    BY <1>6 DEF ThreadStep, NewLock, InitSize, InitMap, InitFill, InitChain,
                AllocateNext, AllocateTake, DeleteLock, FreeNext, FreeHere,
                IInv, TypeOK
  <2> QED
    BY <1>3, <2>1, <2>2, <2>3
<1>7. CASE InjectStart
  <2>1. walk'.at = 1 /\ walk'.full = npools - 1 /\ walk'.seen = <<>>
        /\ UNCHANGED <<size, npools>>
    BY <1>7 DEF InjectStart
  <2> QED
    BY <2>1, <1>1 DEF WalkInv, InjectOncePerSlab, IInv, TypeOK, Pool
<1>8. CASE InjectVisit
  <2>1. walk.at \in Pool /\ Len(walk.seen) = walk.at - 1 /\ walk.at <= npools
        /\ walk.full < npools
    BY <1>8 DEF InjectVisit, IInv, WalkInv, TypeOK
  <2>2. CASE size[walk.at] = 0
    <3>1. walk.at = npools
      BY <1>1, <2>1, <2>2 DEF IInv, ChainInv
    <3>2. walk'.at = 0 /\ walk'.full = walk.full /\ walk'.seen = walk.seen
          /\ UNCHANGED size
      BY <1>8, <2>2 DEF InjectVisit, IInv, TypeOK
    <3> QED
      BY <1>1, <1>2, <2>1, <3>1, <3>2 DEF WalkInv, InjectOncePerSlab
  <2>3. CASE size[walk.at] # 0
    <3> DEFINE v == <<walk.at, size[walk.at]>>
    <3>1. /\ walk'.at = NextPool(walk.at) /\ walk'.full = walk.full
          /\ walk'.seen = Append(walk.seen, v)
          /\ UNCHANGED <<size, npools>>
      BY <1>8, <2>3 DEF InjectVisit, IInv, TypeOK
    <3>2. v \in Pool \X Sizes
      BY <2>1, <2>3 DEF IInv, TypeOK
    <3>3. Len(walk'.seen) = walk.at
      BY <1>1, <2>1, <3>1, <3>2
    <3>4. \A i \in 1 .. Len(walk'.seen) : walk'.seen[i] = <<i, size[i]>>
      BY <1>1, <1>2, <2>1, <3>1, <3>2, <3>3
    <3>5. NextPool(walk.at) = walk.at + 1 \/ (NextPool(walk.at) = 0 /\ walk.at = npools)
      BY <1>1, <2>1 DEF NextPool
    <3>6. NextPool(walk.at) # 0 => walk.at + 1 <= npools /\ NextPool(walk.at) = walk.at + 1
      BY <1>1, <2>1 DEF NextPool
    <3>7. WalkInv'
      BY <1>1, <2>1, <3>1, <3>3, <3>6 DEF WalkInv
    <3>8. InjectOncePerSlab'
      BY <1>1, <2>1, <3>1, <3>3, <3>4, <3>5 DEF InjectOncePerSlab
    <3> QED
      BY <3>7, <3>8
  <2> QED
    BY <2>2, <2>3
<1>9. QED
  BY <1>4, <1>5, <1>6, <1>7, <1>8 DEF Next

-----------------------------------------------------------------------------
(* The theorems                                                            *)

(* IInv holds initially: an empty chain and no objects.                    *)
LEMMA InitIInv == Init => IInv
<1> SUFFICES ASSUME Init PROVE IInv
  OBVIOUS
<1> USE DEF Init
<1>1. TypeOK
  BY DEF TypeOK, Pool, Address, Entry, PCs, Fates
<1>2. LockInv /\ ChainInv /\ CurInv /\ FreeWalkInv /\ PtrNotOwned /\ OutsideAtHeap
  BY DEF LockInv, ChainInv, CurInv, FreeWalkInv, PtrNotOwned, OutsideAtHeap,
         Inside, Building, InNew, InDelete, Pool
<1>3. \A t \in Threads : Held(t) = {}
  BY DEF Held, InDelete
<1>4. Used = {}
  BY DEF Used, Address, Pool
<1>5. NoAliasing /\ MapExact /\ ObjectFits
  BY <1>3, <1>4 DEF NoAliasing, MapExact, ObjectFits
<1>6. WalkInv /\ CrashOnlyOversized /\ InjectOncePerSlab
  BY DEF WalkInv, CrashOnlyOversized, InjectOncePerSlab
<1>7. QED
  BY <1>1, <1>2, <1>5, <1>6 DEF IInv

(* IInv is an invariant of the allocator.                                  *)
THEOREM Invariance == Spec => []IInv
<1>1. IInv /\ [Next]_vars => IInv'
  BY TypeStep, LockStep, ChainStep, CurStep, FreeWalkStep, OutsideStep, AliasStep,
     MapStep, FitsStep, CrashStep, InjectStep DEF IInv
<1>2. QED
  BY InitIInv, <1>1, PTL DEF Spec

(* Type correctness of the allocator's state: no thread and no statistics  *)
(* walk ever stands outside the chain of pools.                            *)
THEOREM TypeCorrect == Spec => []TypeOK
BY Invariance, PTL DEF IInv

(* Two live objects never share an address.                                *)
THEOREM NoAliasingThm == Spec => []NoAliasing
BY Invariance, PTL DEF IInv

(* The bit maps mark exactly the live objects.                             *)
THEOREM MapExactThm == Spec => []MapExact
BY Invariance, PTL DEF IInv

(* Objects lie in complete slabs of the size that was asked for.           *)
THEOREM ObjectFitsThm == Spec => []ObjectFits
BY Invariance, PTL DEF IInv

(* Only objects too large for a 32 bit region length kill the process.     *)
THEOREM CrashThm == Spec => []CrashOnlyOversized
BY Invariance, PTL DEF IInv

(* inject, without the lock, reports each slab once and misses none.       *)
THEOREM InjectThm == Spec => []InjectOncePerSlab
BY Invariance, PTL DEF IInv

-----------------------------------------------------------------------------
(* The pools implement the abstract heap                                   *)

(* What a thread holds is an address of the pools.                         *)
LEMMA HeldIsAddress == ASSUME IInv, NEW t \in Threads PROVE Held(t) \subseteq Address
<1>1. \A o \in owned[t] : AddressOf(o) \in Address
  BY DEF IInv, TypeOK, Object, AddressOf, Address
<1>2. ptr[t] \in Address
  BY DEF IInv, TypeOK
<1> QED
  BY <1>1, <1>2 DEF Held

(* Every step of the pools is one of the heap, or one it does not see.     *)
LEMMA HeapStep ==
  ASSUME IInv, [Next]_vars
  PROVE  [AbstractHeap!Next]_[a \in Address |-> {t \in Threads : a \in Held(t)}]
<1> DEFINE H == [a \in Address |-> {t \in Threads : a \in Held(t)}]
<1>1. ASSUME \A u \in Threads : Held(u)' = Held(u) PROVE UNCHANGED H
  BY <1>1
<1>2. CASE UNCHANGED vars
  BY <1>1, <1>2 DEF vars, Held, AddressOf
<1>3. ASSUME NEW t \in Threads, AllocateTake(t) PROVE AbstractHeap!Next
  <2> DEFINE a == <<cur[t], FirstFree(cur[t])>>
  <2>1. a \in Address /\ \A u \in Threads : a \notin Held(u)
    BY <1>3, TakeIsFresh
  <2>2. Held(t)' = Held(t) \cup {a} /\ \A u \in Threads : u # t => Held(u)' = Held(u)
    BY <1>3, HeldTake
  <2> HIDE DEF a
  <2>3. H[a] = {}
    BY <2>1
  <2>4. H' = [H EXCEPT ![a] = {t}]
    BY <2>1, <2>2
  <2>5. AbstractHeap!New(t, a)
    BY <2>3, <2>4 DEF AbstractHeap!New
  <2> QED
    BY <2>1, <2>5 DEF AbstractHeap!Next
<1>4. ASSUME NEW t \in Threads, FreeHere(t), fate' = "running" PROVE AbstractHeap!Next
  <2>1. Held(t)' = Held(t) \ {ptr[t]} /\ \A u \in Threads : u # t => Held(u)' = Held(u)
    BY <1>4, HeldFree
  <2>2. ptr[t] \in Address /\ ptr[t] \in Held(t)
    BY <1>4, PtrIsUsed DEF FreeHere, InDelete
  <2>3. t \in H[ptr[t]]
    BY <2>2
  <2>4. H' = [H EXCEPT ![ptr[t]] = @ \ {t}]
    BY <2>1, <2>2
  <2>5. AbstractHeap!Delete(t, ptr[t])
    BY <2>3, <2>4 DEF AbstractHeap!Delete
  <2> QED
    BY <2>2, <2>5 DEF AbstractHeap!Next
<1>5. ASSUME NEW t \in Threads, NEW u \in Threads, Give(t, u) PROVE AbstractHeap!Next
  <2>1. PICK o \in owned[t] :
           /\ Held(t)' = Held(t) \ {AddressOf(o)}
           /\ Held(u)' = Held(u) \cup {AddressOf(o)}
           /\ AddressOf(o) \in Held(t)
           /\ \A v \in Threads : v # t /\ v # u => Held(v)' = Held(v)
    BY <1>5, HeldGive
  <2> DEFINE a == AddressOf(o)
  <2>2. a \in Address /\ t # u
    BY <1>5, <2>1, HeldIsAddress DEF Give
  <2> HIDE DEF a
  <2>3. t \in H[a]
    BY <2>1, <2>2 DEF a
  <2>4. H' = [H EXCEPT ![a] = (@ \ {t}) \cup {u}]
    BY <2>1, <2>2 DEF a
  <2>5. AbstractHeap!Give(t, u, a)
    BY <2>3, <2>4 DEF AbstractHeap!Give
  <2> QED
    BY <2>2, <2>5 DEF AbstractHeap!Next
<1>6. ASSUME NEW t \in Threads, FreeHere(t), fate' # "running", fate = "running"
      PROVE  UNCHANGED H
  <2>1. UNCHANGED <<owned, pc, ptr>>
    BY <1>6 DEF FreeHere
  <2> QED
    BY <1>1, <2>1 DEF Held, AddressOf
<1>7. CASE InjectStart \/ InjectVisit
  BY <1>1, <1>7 DEF InjectStart, InjectVisit, threadVars, Held, AddressOf
<1>8. ASSUME NEW t \in Threads,
             \/ \E sz \in Sizes : New(t, sz)
             \/ NewLock(t) \/ InitSize(t) \/ InitMap(t) \/ InitFill(t)
             \/ InitChain(t) \/ AllocateNext(t) \/ DeleteLock(t) \/ FreeNext(t)
             \/ Delete(t)
      PROVE  UNCHANGED H
  BY <1>1, <1>8, HeldQuiet, HeldDelete
<1> QED
  BY <1>2, <1>3, <1>4, <1>5, <1>6, <1>7, <1>8 DEF Next, ThreadStep, Call

(***************************************************************************)
(* For any number of threads, pools and sizes the pools implement the      *)
(* abstract heap: new hands out an address nobody holds, and an address is *)
(* given up only by its holder, in the step of free() that sets the bit.   *)
(***************************************************************************)
THEOREM ImplementsHeapThm == Spec => ImplementsHeap
<1>1. Init => AbstractHeap!Init
  <2> SUFFICES ASSUME Init PROVE AbstractHeap!Init
    OBVIOUS
  <2>1. \A t \in Threads : Held(t) = {}
    BY DEF Init, Held, InDelete
  <2> QED
    BY <2>1 DEF AbstractHeap!Init
<1> QED
  BY <1>1, Invariance, HeapStep, PTL DEF Spec, ImplementsHeap, AbstractHeap!Spec

=============================================================================
