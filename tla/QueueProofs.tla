---------------------------- MODULE QueueProofs ----------------------------
(***************************************************************************)
(* Proofs about Queue for any number of messages: its types for any        *)
(* producers, and that it is a FIFO for one.  With two producers allocate  *)
(* may take the sentinel of the freelist, and the queue is no FIFO.        *)
(*                                                                         *)
(* Messages are numbered as they are sent, and an entry keeps the number   *)
(* it carried last, so the numbers say where it is: the ring of freelist   *)
(* has the entries from Taken + 1 to Freed, the ring of head those from    *)
(* Removed + 1 to Published, newest first.  Ring says that of the links.   *)
(***************************************************************************)
EXTENDS Queue, WellFoundedInduction, TLAPS

OneProducer == \A s, t \in Producers : s = t

(* One when the producer is at one of the labels of S.                     *)
Producing(S) == IF \E t \in Producers : pc[t] \in S THEN 1 ELSE 0

(* How many entries have been taken out of and put into either ring.       *)
Taken     == sent - made + Producing({"fill"})
Freed     == IF pc[Owner] = "recycle" THEN data - 1 ELSE data
Removed   == IF pc[Owner] = "data" THEN data + 1 ELSE data
Published == sent - Producing({"link", "publish"})
Linked    == sent - Producing({"link"})

(* The entry x carries message v.                                          *)
Holds(msg, mk, x, v) == x \in 1 .. mk /\ msg[x] = v

(***************************************************************************)
(* The ring of s holds the messages from lo + 1 to hi, the newest next to  *)
(* s; those up to top are linked but for the last link.                    *)
(***************************************************************************)
Ring(nx, pv, msg, mk, s, lo, hi, top) ==
  /\ lo <= hi /\ hi <= top
  /\ IF lo = hi THEN nx[s] = s ELSE Holds(msg, mk, nx[s], hi)
  /\ IF lo = top THEN pv[s] = s ELSE Holds(msg, mk, pv[s], lo + 1)
  /\ \A v \in lo + 1 .. top : \E e \in 1 .. mk : msg[e] = v
  /\ \A e \in 1 .. mk : lo < msg[e] /\ msg[e] <= top =>
       /\ IF msg[e] = lo + 1 THEN nx[e] = s ELSE Holds(msg, mk, nx[e], msg[e] - 1)
       /\ IF msg[e] = top THEN pv[e] = s ELSE Holds(msg, mk, pv[e], msg[e] + 1)

Labels == {"idle", "take", "fill", "link", "publish", "signal", "lock", "check",
           "sleep", "asleep", "unlock", "remove", "data", "recycle", "depth"}

(* With one producer the sentinels never leave their rings.                *)
Shape ==
  /\ next \in [Cells -> Cells] /\ previous \in [Cells -> Cells]
  /\ message \in [Cells -> 0 .. MaxMessages] /\ made \in 0 .. MaxMessages
  /\ lock \in [Sentinels -> Threads \cup {None}]
  /\ messages_lock \in {Owner, None}
  /\ entry \in [Threads -> Entries \cup {NULL}]
  /\ sent \in 0 .. MaxMessages /\ data \in 0 .. MaxMessages
  /\ dot \in Cells

Typed == Shape /\ pc \in [Threads -> Labels] /\ depth \in Nat /\ size \in Nat

(* The entries carry different messages.                                   *)
Numbered ==
  /\ made <= sent
  /\ \A e \in 1 .. made : message[e] \in 1 .. sent
  /\ \A e, f \in 1 .. made : message[e] = message[f] => e = f

FreeRing == Ring(next, previous, message, made, freelist, Taken, Freed, data)
LiveRing == Ring(next, previous, message, made, head, Removed, Published, Linked)

(* What the producer and the owner know where they are.                    *)
AtProducer(t) ==
  /\ pc[t] = "take" => Taken < Freed
  /\ pc[t] \in {"take", "fill"} => sent < MaxMessages
  /\ pc[t] = "fill" => Holds(message, made, entry[t], Taken)
  /\ pc[t] \in {"link", "publish"} => Holds(message, made, entry[t], sent)
  /\ pc[t] = "publish" => lock[head] = t

AtOwner ==
  /\ pc[Owner] \in {"unlock", "remove"} => Removed < Published
  /\ pc[Owner] = "data" => Holds(message, made, entry[Owner], data + 1)
  /\ pc[Owner] = "recycle" => Holds(message, made, entry[Owner], data)
                              /\ lock[freelist] = Owner

(* depth() has counted the entries newer than dot.                         *)
Walk ==
  pc[Owner] = "depth" =>
    IF dot = head THEN depth = size
    ELSE /\ dot \in 1 .. made /\ Removed < message[dot] /\ message[dot] <= Published
         /\ depth + (message[dot] - Removed) = size

IInv ==
  /\ Typed /\ Numbered /\ FreeRing /\ LiveRing
  /\ \A t \in Producers : AtProducer(t)
  /\ AtOwner /\ Walk

-----------------------------------------------------------------------------
(* Links of cells, and entries that carry different messages.              *)
Cellular(nx, pv, msg, mk) ==
  /\ nx \in [Cells -> Cells] /\ pv \in [Cells -> Cells]
  /\ msg \in [Cells -> Nat] /\ mk \in 0 .. MaxMessages
  /\ \A e, f \in 1 .. mk : msg[e] = msg[f] => e = f

(* The entries made are cells, and no sentinel is one of them.             *)
LEMMA CellsOf ==
  ASSUME NEW mk \in 0 .. MaxMessages
  PROVE  /\ \A e \in 1 .. mk : e \in Cells /\ e \in Entries /\ e # head /\ e # freelist
         /\ head \in Cells /\ freelist \in Cells /\ head # freelist
         /\ NULL \notin Cells /\ head \notin Entries /\ freelist \notin Entries
         /\ \A s \in Sentinels : s \in Cells /\ s \notin 1 .. mk
         /\ mk \in Nat /\ mk <= MaxMessages
BY QueueAssumption DEF Cells, Sentinels, Entries, head, freelist, NULL

(* insert links an entry with the next message into the ring of s.         *)
LEMMA RingLink ==
  ASSUME NEW nx, NEW pv, NEW msg, NEW mk, Cellular(nx, pv, msg, mk),
         NEW s \in Sentinels, NEW lo \in Nat, NEW hi \in Nat,
         Ring(nx, pv, msg, mk, s, lo, hi, hi),
         NEW e, Holds(msg, mk, e, hi + 1)
  PROVE  Ring([nx EXCEPT ![e] = nx[s]], [pv EXCEPT ![e] = s, ![nx[s]] = e],
              msg, mk, s, lo, hi, hi + 1)
<1> DEFINE n == [nx EXCEPT ![e] = nx[s]]
           p == [pv EXCEPT ![e] = s, ![nx[s]] = e]
<1>1. /\ e \in 1 .. mk /\ msg[e] = hi + 1 /\ e \in Cells /\ s \in Cells /\ s \notin 1 .. mk
      /\ mk \in Nat /\ nx[s] \in Cells /\ nx[s] # e /\ 1 .. mk \subseteq Cells
      /\ \A c \in 1 .. mk : msg[c] \in Nat
  BY CellsOf DEF Cellular, Holds, Ring
<1>2. n[e] = nx[s] /\ \A c \in Cells : c # e => n[c] = nx[c]
  BY <1>1 DEF Cellular
<1>3. p[nx[s]] = e /\ p[e] = s /\ \A c \in Cells : c # e /\ c # nx[s] => p[c] = pv[c]
  BY <1>1 DEF Cellular
<1> HIDE DEF n, p
<1>4. IF lo = hi THEN n[s] = s ELSE Holds(msg, mk, n[s], hi)
  BY <1>1, <1>2 DEF Ring
<1>5. Holds(msg, mk, p[s], lo + 1)
  <2>1. CASE lo = hi
    BY <2>1, <1>1, <1>3 DEF Ring, Holds
  <2>2. CASE lo # hi
    BY <2>2, <1>1, <1>3 DEF Ring, Holds
  <2> QED
    BY <2>1, <2>2
<1>6. \A v \in lo + 1 .. hi + 1 : \E c \in 1 .. mk : msg[c] = v
  <2> TAKE v \in lo + 1 .. hi + 1
  <2>1. CASE v = hi + 1
    BY <2>1, <1>1
  <2>2. CASE v # hi + 1
    BY <2>2 DEF Ring
  <2> QED
    BY <2>1, <2>2
<1>7. ASSUME NEW c \in 1 .. mk, lo < msg[c], msg[c] <= hi + 1
      PROVE  /\ IF msg[c] = lo + 1 THEN n[c] = s ELSE Holds(msg, mk, n[c], msg[c] - 1)
             /\ IF msg[c] = hi + 1 THEN p[c] = s ELSE Holds(msg, mk, p[c], msg[c] + 1)
  <2>1. CASE c = e
    BY <2>1, <1>1, <1>2, <1>3 DEF Ring, Holds
  <2>2. CASE c # e
    <3>1. msg[c] # hi + 1 /\ msg[c] <= hi
      BY <2>2, <1>1, <1>7 DEF Cellular
    <3>2. n[c] = nx[c] /\ IF msg[c] = lo + 1 THEN n[c] = s ELSE Holds(msg, mk, n[c], msg[c] - 1)
      BY <3>1, <2>2, <1>1, <1>2, <1>7 DEF Ring
    <3>3. CASE c = nx[s]
      <4>1. lo # hi /\ msg[c] = hi
        BY <3>3, <1>1 DEF Ring, Holds
      <4> QED
        BY <4>1, <3>1, <3>2, <3>3, <1>1, <1>3 DEF Holds
    <3>4. CASE c # nx[s]
      <4>1. p[c] = pv[c] /\ msg[c] # hi
        <5>1. lo # hi /\ Holds(msg, mk, nx[s], hi)
          BY <3>1, <1>7, <1>1 DEF Ring
        <5> QED
          BY <5>1, <3>4, <2>2, <1>1, <1>3 DEF Holds, Cellular
      <4> QED
        BY <4>1, <3>1, <3>2, <1>7 DEF Ring
    <3> QED
      BY <3>3, <3>4
  <2> QED
    BY <2>1, <2>2
<1>8. lo <= hi /\ hi <= hi + 1 /\ lo # hi + 1
  BY DEF Ring
<1>9. Ring(n, p, msg, mk, s, lo, hi, hi + 1)
  BY <1>4, <1>5, <1>6, <1>7, <1>8 DEF Ring
<1> QED
  BY <1>9 DEF n, p

(* The last link makes it the newest entry of the ring.                    *)
LEMMA RingPublish ==
  ASSUME NEW nx, NEW pv, NEW msg, NEW mk, Cellular(nx, pv, msg, mk),
         NEW s \in Sentinels, NEW lo \in Nat, NEW hi \in Nat,
         Ring(nx, pv, msg, mk, s, lo, hi, hi + 1),
         NEW e, Holds(msg, mk, e, hi + 1)
  PROVE  Ring([nx EXCEPT ![s] = e], pv, msg, mk, s, lo, hi + 1, hi + 1)
<1> DEFINE n == [nx EXCEPT ![s] = e]
<1>1. s \in Cells /\ s \notin 1 .. mk /\ 1 .. mk \subseteq Cells
  BY CellsOf DEF Cellular
<1>2. n[s] = e /\ \A c \in 1 .. mk : n[c] = nx[c]
  BY <1>1 DEF Cellular
<1> HIDE DEF n
<1>3. lo # hi + 1 /\ lo <= hi + 1
  BY DEF Ring
<1> QED
  BY <1>2, <1>3 DEF Ring, n

(* remove takes the oldest entry out of a ring that is not empty.          *)
LEMMA RingRemove ==
  ASSUME NEW nx, NEW pv, NEW msg, NEW mk, Cellular(nx, pv, msg, mk),
         NEW s \in Sentinels, NEW lo \in Nat, NEW hi \in Nat, lo < hi,
         Ring(nx, pv, msg, mk, s, lo, hi, hi)
  PROVE  /\ Holds(msg, mk, pv[s], lo + 1)
         /\ Ring([nx EXCEPT ![pv[pv[s]]] = s], [pv EXCEPT ![s] = pv[pv[s]]],
                 msg, mk, s, lo + 1, hi, hi)
<1> DEFINE e == pv[s]
           q == pv[e]
           n == [nx EXCEPT ![q] = s]
           p == [pv EXCEPT ![s] = q]
<1>1. /\ s \in Cells /\ s \notin 1 .. mk /\ 1 .. mk \subseteq Cells
      /\ \A c \in 1 .. mk : msg[c] \in Nat
  BY CellsOf DEF Cellular
<1>2. Holds(msg, mk, e, lo + 1)
  BY DEF Ring
<1>3. e \in 1 .. mk /\ msg[e] = lo + 1 /\ e \in Cells /\ e # s
  BY <1>1, <1>2 DEF Holds
<1>4. IF hi = lo + 1 THEN q = s ELSE Holds(msg, mk, q, lo + 2)
  BY <1>3 DEF Ring
<1>5. q \in Cells /\ q # e
  BY <1>1, <1>3, <1>4 DEF Holds
<1>6. n[q] = s /\ \A c \in Cells : c # q => n[c] = nx[c]
  BY <1>5 DEF Cellular
<1>7. p[s] = q /\ \A c \in Cells : c # s => p[c] = pv[c]
  BY <1>1 DEF Cellular
<1> HIDE DEF n, p, q, e
<1>8. IF lo + 1 = hi THEN n[s] = s ELSE Holds(msg, mk, n[s], hi)
  BY <1>1, <1>4, <1>6 DEF Ring, Holds
<1>9. IF lo + 1 = hi THEN p[s] = s ELSE Holds(msg, mk, p[s], (lo + 1) + 1)
  BY <1>4, <1>7 DEF Holds
<1>10. \A v \in (lo + 1) + 1 .. hi : \E c \in 1 .. mk : msg[c] = v
  BY DEF Ring
<1>11. ASSUME NEW c \in 1 .. mk, lo + 1 < msg[c], msg[c] <= hi
       PROVE  /\ IF msg[c] = (lo + 1) + 1 THEN n[c] = s ELSE Holds(msg, mk, n[c], msg[c] - 1)
              /\ IF msg[c] = hi THEN p[c] = s ELSE Holds(msg, mk, p[c], msg[c] + 1)
  <2>1. lo + 1 # hi /\ Holds(msg, mk, q, lo + 2) /\ msg[c] \in Nat
    BY <1>1, <1>4, <1>11
  <2>2. c # s /\ c \in Cells /\ p[c] = pv[c]
    BY <1>1, <1>7
  <2>3. msg[c] = lo + 2 <=> c = q
    BY <2>1 DEF Holds, Cellular
  <2>4. CASE c = q
    BY <2>1, <2>2, <2>3, <2>4, <1>6, <1>11 DEF Ring
  <2>5. CASE c # q
    <3>1. n[c] = nx[c] /\ msg[c] # lo + 2 /\ msg[c] # lo + 1
      BY <2>1, <2>2, <2>3, <2>5, <1>6, <1>11
    <3> QED
      BY <3>1, <2>1, <2>2, <1>11 DEF Ring
  <2> QED
    BY <2>4, <2>5
<1> QED
  BY <1>2, <1>8, <1>9, <1>10, <1>11 DEF Ring, n, p, q, e

(* What leaves the cells of a ring alone leaves the ring as it is.         *)
LEMMA RingSame ==
  ASSUME NEW nx, NEW pv, NEW msg, NEW mk \in Nat, NEW s, NEW lo, NEW hi, NEW top,
         Ring(nx, pv, msg, mk, s, lo, hi, top),
         NEW n, NEW p, NEW m, NEW k \in Nat, mk <= k,
         n[s] = nx[s], p[s] = pv[s],
         \A e \in 1 .. mk : lo < msg[e] /\ msg[e] <= top =>
            n[e] = nx[e] /\ p[e] = pv[e] /\ m[e] = msg[e],
         \A e \in 1 .. k : lo < m[e] /\ m[e] <= top => e \in 1 .. mk /\ m[e] = msg[e],
         lo \in Int, hi \in Int, top \in Int, \A e \in 1 .. mk : msg[e] \in Int
  PROVE  Ring(n, p, m, k, s, lo, hi, top)
<1>1. ASSUME NEW x, NEW v \in Int, lo < v, v <= top, Holds(msg, mk, x, v) PROVE Holds(m, k, x, v)
  BY <1>1 DEF Holds
<1>2. IF lo = hi THEN n[s] = s ELSE Holds(m, k, n[s], hi)
  BY <1>1 DEF Ring
<1>3. IF lo = top THEN p[s] = s ELSE Holds(m, k, p[s], lo + 1)
  BY <1>1 DEF Ring
<1>4. \A v \in lo + 1 .. top : \E e \in 1 .. k : m[e] = v
  <2> TAKE v \in lo + 1 .. top
  <2>1. PICK e \in 1 .. mk : msg[e] = v
    BY DEF Ring
  <2> QED
    BY <2>1
<1>5. ASSUME NEW e \in 1 .. k, lo < m[e], m[e] <= top
      PROVE  /\ IF m[e] = lo + 1 THEN n[e] = s ELSE Holds(m, k, n[e], m[e] - 1)
             /\ IF m[e] = top THEN p[e] = s ELSE Holds(m, k, p[e], m[e] + 1)
  <2>1. e \in 1 .. mk /\ m[e] = msg[e] /\ n[e] = nx[e] /\ p[e] = pv[e]
    BY <1>5
  <2>2. m[e] \in lo + 1 .. top
    BY <1>5, <2>1
  <2> QED
    BY <1>1, <1>5, <2>1, <2>2 DEF Ring
<1> QED
  BY <1>2, <1>3, <1>4, <1>5 DEF Ring

-----------------------------------------------------------------------------
(* A set of numbers that is not empty has a least one.                     *)
LEMMA LeastNat ==
  ASSUME NEW T, T \subseteq Nat, T # {}
  PROVE  \E x \in T : \A y \in T : x <= y
<1> DEFINE R == OpToRel(<, Nat)
<1>1. IsWellFoundedOn(R, Nat)
  BY NatLessThanWellFounded
<1>2. \A x, y \in Nat : y < x => <<y, x>> \in R
  BY DEF OpToRel
<1> HIDE DEF R
<1>3. PICK x \in T : \A y \in T : ~(<<y, x>> \in R)
  BY <1>1, WFMin
<1>4. \A y \in T : ~(y < x)
  BY <1>2, <1>3
<1> QED
  BY <1>4

(* After is the function that its equation determines.                     *)
LEMMA AfterIs ==
  ASSUME NEW f,
         f = [n \in Nat |-> IF n = 0 THEN next[head]
                            ELSE IF f[n - 1] = head THEN head ELSE next[f[n - 1]]]
  PROVE  After = f
<1> DEFINE Eqn(g) == g = [n \in Nat |-> IF n = 0 THEN next[head]
                               ELSE IF g[n - 1] = head THEN head ELSE next[g[n - 1]]]
<1>1. After = CHOOSE g : Eqn(g)
  BY DEF After
<1>2. Eqn(f)
  OBVIOUS
<1>3. Eqn(After)
  <2> HIDE DEF Eqn
  <2> QED
    BY <1>1, <1>2
<1>4. \A n \in Nat : After[n] = IF n = 0 THEN next[head]
                                ELSE IF After[n - 1] = head THEN head ELSE next[After[n - 1]]
  BY <1>3
<1>5. \A n \in Nat : f[n] = IF n = 0 THEN next[head]
                            ELSE IF f[n - 1] = head THEN head ELSE next[f[n - 1]]
  BY <1>2
<1> DEFINE T == {n \in Nat : After[n] # f[n]}
<1>6. T = {}
  <2> SUFFICES ASSUME T # {} PROVE FALSE
    OBVIOUS
  <2>1. PICK n \in T : \A m \in T : n <= m
    BY LeastNat
  <2>2. n \in Nat /\ After[n] # f[n]
    BY <2>1
  <2>3. CASE n = 0
    BY <1>4, <1>5, <2>2, <2>3
  <2>4. CASE n # 0
    <3>1. n - 1 \in Nat /\ n - 1 \notin T
      BY <2>1, <2>2, <2>4
    <3>2. After[n - 1] = f[n - 1]
      BY <3>1
    <3> QED
      BY <1>4, <1>5, <2>2, <2>4, <3>2
  <2> QED
    BY <2>3, <2>4
<1>7. \A n \in Nat : After[n] = f[n]
  BY <1>6
<1>8. DOMAIN After = Nat /\ DOMAIN f = Nat
  BY <1>2, <1>3
<1>9. After = [n \in Nat |-> After[n]] /\ f = [n \in Nat |-> f[n]]
  BY <1>2, <1>3, <1>8
<1> QED
  BY <1>7, <1>9

(* The walk of the ring of head meets its messages, newest first.          *)
LEMMA LengthIs ==
  ASSUME Shape, NEW lo \in Nat, NEW hi \in Nat, NEW top \in Int, hi <= MaxMessages,
         Ring(next, previous, message, made, head, lo, hi, top),
         \A e, f \in 1 .. made : message[e] = message[f] => e = f
  PROVE  /\ Length = hi - lo
         /\ \A k \in 0 .. (hi - lo) - 1 : message[After[k]] = hi - k
<1> DEFINE L == hi - lo
           E(v) == CHOOSE e \in 1 .. made : message[e] = v
           f == [n \in Nat |-> IF n < L THEN E(hi - n) ELSE head]
<1>1. /\ L \in Nat /\ L <= MaxMessages /\ top \in Int /\ hi <= top
      /\ made \in Nat /\ head \notin 1 .. made
  BY QueueAssumption, CellsOf DEF Ring, Shape
<1>2. ASSUME NEW v \in lo + 1 .. hi PROVE E(v) \in 1 .. made /\ message[E(v)] = v
  <2>1. \E e \in 1 .. made : message[e] = v
    BY <1>1 DEF Ring
  <2> QED
    BY <2>1
<1>3. \A x, v : Holds(message, made, x, v) /\ v \in lo + 1 .. hi => x = E(v)
  BY <1>2 DEF Holds
<1>4. \A n \in Nat : n < L => f[n] = E(hi - n) /\ hi - n \in lo + 1 .. hi
  BY <1>1
<1>5. \A n \in Nat : ~(n < L) => f[n] = head
  OBVIOUS
<1> HIDE DEF E, f
<1>6. ASSUME NEW n \in Nat
      PROVE  f[n] = IF n = 0 THEN next[head]
                    ELSE IF f[n - 1] = head THEN head ELSE next[f[n - 1]]
  <2>1. CASE n = 0
    <3>1. CASE L = 0
      BY <2>1, <3>1, <1>5 DEF Ring
    <3>2. CASE L # 0
      <4>1. Holds(message, made, next[head], hi) /\ hi \in lo + 1 .. hi
        BY <3>2, <1>1 DEF Ring
      <4> QED
        BY <2>1, <3>2, <4>1, <1>1, <1>3, <1>4
    <3> QED
      BY <3>1, <3>2
  <2>2. CASE n # 0 /\ ~(n - 1 < L)
    BY <2>2, <1>1, <1>5
  <2>3. CASE n # 0 /\ n - 1 < L
    <3> DEFINE e == f[n - 1]
               v == hi - (n - 1)
    <3>1. n - 1 \in Nat /\ e = E(v) /\ v \in lo + 1 .. hi
      BY <2>3, <1>4
    <3>2. e \in 1 .. made /\ message[e] = v /\ e # head
      BY <3>1, <1>1, <1>2
    <3>3. lo < message[e] /\ message[e] <= top
      BY <3>1, <3>2, <1>1
    <3>4. IF v = lo + 1 THEN next[e] = head ELSE Holds(message, made, next[e], v - 1)
      BY <3>2, <3>3 DEF Ring
    <3>5. CASE n < L
      <4>1. v - 1 = hi - n /\ hi - n \in lo + 1 .. hi /\ v # lo + 1
        BY <3>5, <2>3, <1>1
      <4>2. next[e] = E(hi - n)
        BY <4>1, <3>4, <1>3
      <4> QED
        BY <4>2, <3>5, <3>2, <2>3, <1>4
    <3>6. CASE ~(n < L)
      <4>1. v = lo + 1
        BY <3>6, <2>3, <1>1
      <4> QED
        BY <4>1, <3>6, <3>2, <3>4, <2>3, <1>5
    <3> QED
      BY <3>5, <3>6
  <2> QED
    BY <2>1, <2>2, <2>3
<1>7. f = [n \in Nat |-> IF n = 0 THEN next[head]
                         ELSE IF f[n - 1] = head THEN head ELSE next[f[n - 1]]]
  <2>1. f = [n \in Nat |-> f[n]]
    BY DEF f
  <2> QED
    BY <1>6, <2>1
<1>8. After = f
  BY <1>7, AfterIs
<1>9. \A k \in 0 .. L - 1 : After[k] # head /\ message[After[k]] = hi - k
  BY <1>1, <1>2, <1>4, <1>8
<1>10. After[L] = head
  BY <1>1, <1>5, <1>8
<1>11. ASSUME NEW n \in 0 .. MaxMessages + 1, n = MaxMessages + 1 \/ After[n] = head,
              \A m \in 0 .. n - 1 : After[m] # head
       PROVE  n = L
  <2>1. ~(n < L)
    BY <1>1, <1>9, <1>11, QueueAssumption
  <2>2. ~(L < n)
    BY <1>1, <1>10, <1>11
  <2> QED
    BY <1>1, <2>1, <2>2, QueueAssumption
<1>12. /\ L \in 0 .. MaxMessages + 1 /\ (L = MaxMessages + 1 \/ After[L] = head)
       /\ \A m \in 0 .. L - 1 : After[m] # head
  BY <1>1, <1>9, <1>10, QueueAssumption
<1>13. Length = L
  <2> DEFINE P(n) == /\ n = MaxMessages + 1 \/ After[n] = head
                     /\ \A m \in 0 .. n - 1 : After[m] # head
  <2>1. Length = CHOOSE n \in 0 .. MaxMessages + 1 : P(n)
    BY DEF Length
  <2>2. P(L) /\ \A n \in 0 .. MaxMessages + 1 : P(n) => n = L
    BY <1>11, <1>12
  <2> HIDE DEF P
  <2> QED
    BY <2>1, <2>2, <1>12
<1> QED
  BY <1>9, <1>13

-----------------------------------------------------------------------------
(* The counts are in order.                                                *)
LEMMA Counts ==
  ASSUME IInv
  PROVE  /\ Taken \in Nat /\ Freed \in Nat /\ Removed \in Nat
         /\ Published \in Nat /\ Linked \in Nat /\ data \in Nat /\ sent \in Nat
         /\ made \in Nat /\ MaxMessages \in Nat
         /\ Taken <= Freed /\ Freed <= data /\ data <= Removed
         /\ Removed <= Published /\ Published <= Linked /\ Linked <= sent
         /\ sent <= MaxMessages /\ made <= sent
<1>1. /\ data \in Nat /\ sent \in Nat /\ made \in Nat /\ MaxMessages \in Nat
      /\ made <= sent /\ sent <= MaxMessages
  BY QueueAssumption DEF IInv, Typed, Shape, Numbered
<1>2. \A S : Producing(S) \in {0, 1}
  BY DEF Producing
<1>3. Taken \in Nat /\ Published \in Int /\ Linked \in Int /\ Linked <= sent
  BY <1>1, <1>2 DEF Taken, Published, Linked
<1>4. Freed \in Int /\ Freed <= data /\ Removed \in Nat /\ data <= Removed
  BY <1>1 DEF Freed, Removed
<1>5. Taken <= Freed /\ Removed <= Published /\ Published <= Linked
  BY DEF IInv, FreeRing, LiveRing, Ring
<1> QED
  BY <1>1, <1>3, <1>4, <1>5

(* With one producer, where it is decides the counts.                      *)
LEMMA CountsAt ==
  ASSUME OneProducer, NEW t \in Producers
  PROVE  /\ Taken = sent - made + (IF pc[t] = "fill" THEN 1 ELSE 0)
         /\ Published = sent - (IF pc[t] \in {"link", "publish"} THEN 1 ELSE 0)
         /\ Linked = sent - (IF pc[t] = "link" THEN 1 ELSE 0)
         /\ Taken' = sent' - made' + (IF pc'[t] = "fill" THEN 1 ELSE 0)
         /\ Published' = sent' - (IF pc'[t] \in {"link", "publish"} THEN 1 ELSE 0)
         /\ Linked' = sent' - (IF pc'[t] = "link" THEN 1 ELSE 0)
<1>1. \A S : Producing(S) = IF pc[t] \in S THEN 1 ELSE 0
  BY DEF Producing, OneProducer
<1>2. /\ Producing({"fill"})' = IF pc'[t] \in {"fill"} THEN 1 ELSE 0
      /\ Producing({"link", "publish"})' = IF pc'[t] \in {"link", "publish"} THEN 1 ELSE 0
      /\ Producing({"link"})' = IF pc'[t] \in {"link"} THEN 1 ELSE 0
  BY DEF Producing, OneProducer
<1> QED
  BY <1>1, <1>2 DEF Taken, Published, Linked

(* The steps of the owner leave the producer's counts alone.               *)
LEMMA CountsKept ==
  ASSUME \A t \in Producers : pc'[t] = pc[t], made' = made, sent' = sent
  PROVE  Taken' = Taken /\ Published' = Published /\ Linked' = Linked
<1>1. /\ Producing({"fill"})' = Producing({"fill"})
      /\ Producing({"link", "publish"})' = Producing({"link", "publish"})
      /\ Producing({"link"})' = Producing({"link"})
  BY DEF Producing
<1> QED
  BY <1>1 DEF Taken, Published, Linked

LEMMA OwnerApart == Owner \in Threads /\ \A t \in Producers : t \in Threads /\ t # Owner /\ t # None
BY OwnerAssumption DEF Threads

LEMMA Cellulars ==
  ASSUME IInv
  PROVE  Cellular(next, previous, message, made)
BY QueueAssumption DEF IInv, Typed, Shape, Numbered, Cellular

(* A step of the producer leaves what the owner knows true.                *)
LEMMA OwnerKept ==
  ASSUME IInv, pc'[Owner] = pc[Owner] \/ (pc[Owner] = "asleep" /\ pc'[Owner] = "lock"),
         entry'[Owner] = entry[Owner], lock'[freelist] = lock[freelist],
         UNCHANGED <<data, dot, depth, size>>, made' \in Nat, made <= made',
         Published' \in Nat, Published <= Published',
         \A e \in 1 .. made : Taken < message[e] => message'[e] = message[e]
  PROVE  AtOwner' /\ Walk'
<1>1. Removed' = Removed
  BY DEF Removed
<1> USE Counts
<1>2. \A e \in 1 .. made : e \in 1 .. made' /\ message[e] \in Nat
  BY DEF IInv, Numbered
<1>3. pc[Owner] = "recycle" => Taken < data
  BY DEF Freed
<1>4. pc'[Owner] \in {"unlock", "remove"} => Removed' < Published'
  BY <1>1 DEF IInv, AtOwner
<1>5. pc'[Owner] = "data" => Holds(message', made', entry'[Owner], data' + 1)
  BY <1>2 DEF IInv, AtOwner, Holds
<1>6. pc'[Owner] = "recycle" =>
        Holds(message', made', entry'[Owner], data') /\ lock'[freelist] = Owner
  BY <1>2, <1>3 DEF IInv, AtOwner, Holds
<1>7. Walk'
  <2> SUFFICES ASSUME pc[Owner] = "depth", dot # head
               PROVE  /\ dot \in 1 .. made'
                      /\ Removed < message'[dot] /\ message'[dot] <= Published'
                      /\ depth + (message'[dot] - Removed) = size
    BY <1>1 DEF Walk, IInv
  <2>1. /\ dot \in 1 .. made /\ Removed < message[dot] /\ message[dot] <= Published
        /\ depth + (message[dot] - Removed) = size
    BY DEF Walk, IInv
  <2>2. message'[dot] = message[dot]
    BY <1>2, <2>1
  <2> QED
    BY <2>1, <2>2, <1>2
<1> QED
  BY <1>4, <1>5, <1>6, <1>7 DEF AtOwner

(* A step of the owner leaves what the producer knows true.                *)
LEMMA ProducersKept ==
  ASSUME IInv, \A t \in Producers : pc'[t] = pc[t] /\ entry'[t] = entry[t],
         UNCHANGED <<message, made, sent>>, lock'[head] = lock[head],
         Freed' \in Int, Freed <= Freed'
  PROVE  \A t \in Producers : AtProducer(t)'
<1>1. Taken' = Taken
  BY CountsKept
<1>2. Taken \in Nat /\ Freed \in Nat
  BY Counts
<1> QED
  BY <1>1, <1>2 DEF IInv, AtProducer

(* Nothing happens to the rings.                                           *)
LEMMA RingsKept ==
  ASSUME IInv, UNCHANGED <<next, previous, message, made, sent, data>>,
         Taken' = Taken, Freed' = Freed, Removed' = Removed,
         Published' = Published, Linked' = Linked
  PROVE  Numbered' /\ FreeRing' /\ LiveRing'
BY DEF IInv, Numbered, FreeRing, LiveRing, Ring, Holds

-----------------------------------------------------------------------------
(* The producer                                                            *)

(* allocate makes an entry when the freelist is empty.                     *)
LEMMA AllocateNewStep ==
  ASSUME OneProducer, IInv, NEW t \in Producers, Allocate(t), Empty(freelist)
  PROVE  IInv'
<1> USE OwnerApart, Counts
<1>1. /\ pc[t] = "idle" /\ sent < MaxMessages /\ pc' = [pc EXCEPT ![t] = "link"]
      /\ made' = made + 1 /\ sent' = sent + 1 /\ entry' = [entry EXCEPT ![t] = made + 1]
      /\ message' = [message EXCEPT ![made + 1] = sent + 1]
      /\ UNCHANGED <<next, previous, lock, messages_lock, data, dot, depth, size>>
  BY DEF Allocate, Go, links
<1>2. /\ pc \in [Threads -> Labels] /\ entry \in [Threads -> Entries \cup {NULL}]
      /\ message \in [Cells -> 0 .. MaxMessages] /\ made + 1 \in Entries /\ made + 1 \in Cells
      /\ \A e \in 1 .. made : e \in Cells /\ message[e] \in 1 .. sent
  BY <1>1, CellsOf DEF IInv, Typed, Shape, Numbered, Entries, Cells
<1>3. /\ pc'[t] = "link" /\ entry'[t] = made + 1 /\ message'[made + 1] = sent + 1
      /\ \A u \in Threads : u # t => pc'[u] = pc[u] /\ entry'[u] = entry[u]
      /\ \A e \in 1 .. made : message'[e] = message[e]
  BY <1>1, <1>2
<1>4. /\ Taken' = Taken /\ Published' = Published /\ Linked' = Linked
      /\ Freed' = Freed /\ Removed' = Removed /\ Published = sent
  BY <1>1, <1>3, CountsAt DEF Freed, Removed
<1>5. Typed'
  BY <1>1, <1>2 DEF IInv, Typed, Shape, Labels
<1>6. Numbered'
  BY <1>1, <1>2, <1>3 DEF IInv, Numbered
<1>7. FreeRing'
  <2>1. Ring(next, previous, message, made, freelist, Taken, Freed, data)
    BY DEF IInv, FreeRing
  <2>2. \A e \in 1 .. made' : Taken < message'[e] /\ message'[e] <= data =>
          e \in 1 .. made /\ message'[e] = message[e]
    BY <1>1, <1>2, <1>3
  <2>3. /\ made \in Nat /\ made' \in Nat /\ made <= made'
        /\ \A e \in 1 .. made : message'[e] = message[e] /\ message[e] \in Int
        /\ Taken \in Int /\ Freed \in Int /\ data \in Int
    BY <1>1, <1>2, <1>3
  <2>4. Ring(next, previous, message', made', freelist, Taken, Freed, data)
    BY ONLY <2>1, <2>2, <2>3, RingSame
  <2> QED
    BY <2>4, <1>1, <1>4 DEF FreeRing
<1>8. LiveRing'
  <2>1. Ring(next, previous, message, made, head, Removed, Published, Linked)
    BY DEF IInv, LiveRing
  <2>2. \A e \in 1 .. made' : Removed < message'[e] /\ message'[e] <= Linked =>
          e \in 1 .. made /\ message'[e] = message[e]
    BY <1>1, <1>2, <1>3
  <2>3. /\ made \in Nat /\ made' \in Nat /\ made <= made'
        /\ \A e \in 1 .. made : message'[e] = message[e] /\ message[e] \in Int
        /\ Removed \in Int /\ Published \in Int /\ Linked \in Int
    BY <1>1, <1>2, <1>3
  <2>4. Ring(next, previous, message', made', head, Removed, Published, Linked)
    BY ONLY <2>1, <2>2, <2>3, RingSame
  <2> QED
    BY <2>4, <1>1, <1>4 DEF LiveRing
<1>9. \A u \in Producers : AtProducer(u)'
  BY <1>1, <1>3 DEF AtProducer, OneProducer, Holds
<1>10. AtOwner' /\ Walk'
  BY <1>1, <1>3, <1>4, OwnerKept
<1> QED
  BY <1>5, <1>6, <1>7, <1>8, <1>9, <1>10 DEF IInv

(* It turns to the freelist when that is not empty.                        *)
LEMMA AllocateOldStep ==
  ASSUME OneProducer, IInv, NEW t \in Producers, Allocate(t), ~Empty(freelist)
  PROVE  IInv'
<1> USE OwnerApart, Counts
<1>1. /\ pc[t] = "idle" /\ sent < MaxMessages /\ pc' = [pc EXCEPT ![t] = "take"]
      /\ UNCHANGED <<made, sent, entry, message, next, previous, lock, messages_lock,
                    data, dot, depth, size>>
  BY DEF Allocate, Go, links
<1>2. pc'[t] = "take" /\ \A u \in Threads : u # t => pc'[u] = pc[u]
  BY <1>1 DEF IInv, Typed
<1>3. /\ Taken' = Taken /\ Published' = Published /\ Linked' = Linked
      /\ Freed' = Freed /\ Removed' = Removed
  BY <1>1, <1>2, CountsAt DEF Freed, Removed
<1>4. Typed'
  BY <1>1 DEF IInv, Typed, Shape, Labels
<1>5. Numbered' /\ FreeRing' /\ LiveRing'
  BY <1>1, <1>3, RingsKept
<1>6. Taken # Freed
  BY DEF IInv, FreeRing, Ring, Empty
<1>7. \A u \in Producers : AtProducer(u)'
  BY <1>1, <1>2, <1>3, <1>6 DEF AtProducer, OneProducer
<1>8. AtOwner' /\ Walk'
  BY <1>1, <1>2, <1>3, OwnerKept
<1> QED
  BY <1>4, <1>5, <1>7, <1>8 DEF IInv

(* allocate takes the oldest entry of the freelist.                        *)
LEMMA TakeStep ==
  ASSUME OneProducer, IInv, NEW t \in Producers, Take(t)
  PROVE  IInv'
<1> USE OwnerApart, Counts
<1> DEFINE e == previous[freelist]
           q == previous[e]
<1>1. /\ pc[t] = "take" /\ pc' = [pc EXCEPT ![t] = "fill"]
      /\ lock[freelist] = None /\ entry' = [entry EXCEPT ![t] = e]
      /\ previous' = [previous EXCEPT ![freelist] = q] /\ next' = [next EXCEPT ![q] = freelist]
      /\ UNCHANGED <<message, made, lock, messages_lock, sent, data, dot, depth, size>>
  BY DEF Take, Go, Remove
<1>2. pc'[t] = "fill" /\ \A u \in Threads : u # t => pc'[u] = pc[u]
  BY <1>1 DEF IInv, Typed
<1>3. /\ Taken' = Taken + 1 /\ Published' = Published /\ Linked' = Linked
      /\ Freed' = Freed /\ Removed' = Removed
  BY <1>1, <1>2, CountsAt DEF Freed, Removed
<1>4. Freed = data
  BY <1>1 DEF IInv, AtOwner, Freed, Owner, None
<1>5. Taken < Freed
  BY <1>1 DEF IInv, AtProducer
<1>6. freelist \in Sentinels /\ Cellular(next, previous, message, made)
  BY Cellulars DEF Sentinels
<1>7. /\ Holds(message, made, e, Taken + 1)
      /\ Ring(next', previous', message, made, freelist, Taken + 1, Freed, data)
  BY <1>1, <1>4, <1>5, <1>6, RingRemove DEF IInv, FreeRing
<1>8. FreeRing'
  BY <1>1, <1>3, <1>7 DEF FreeRing
<1>9. /\ e \in 1 .. made /\ e \in Entries /\ message[e] = Taken + 1
      /\ head # freelist /\ freelist \in Cells /\ head \in Cells /\ freelist \notin 1 .. made
      /\ \A c \in 1 .. made : c \in Cells /\ c # head /\ message[c] \in 1 .. sent
  BY <1>6, <1>7, CellsOf DEF Holds, Cellular, IInv, Numbered
<1>10. q = freelist \/ (q \in 1 .. made /\ message[q] = Taken + 2 /\ Taken + 2 <= data)
  BY <1>4, <1>9 DEF IInv, FreeRing, Ring, Holds
<1>11. next'[head] = next[head] /\ previous'[head] = previous[head]
  BY <1>1, <1>6, <1>9, <1>10 DEF Cellular
<1>12. \A c \in 1 .. made : Removed < message[c] => next'[c] = next[c] /\ previous'[c] = previous[c]
  BY <1>1, <1>6, <1>9, <1>10 DEF Cellular
<1>13. LiveRing'
  <2>1. Ring(next, previous, message, made, head, Removed, Published, Linked)
    BY DEF IInv, LiveRing
  <2>2. Ring(next', previous', message, made, head, Removed, Published, Linked)
    BY <2>1, <1>9, <1>11, <1>12, RingSame
  <2> QED
    BY <2>2, <1>1, <1>3 DEF LiveRing
<1>14. Typed'
  BY <1>1, <1>9, <1>10 DEF IInv, Typed, Shape, Labels
<1>15. Numbered'
  BY <1>1 DEF IInv, Numbered
<1>16. entry'[t] = e /\ entry'[Owner] = entry[Owner]
  BY <1>1 DEF IInv, Typed, Shape
<1>17. \A u \in Producers : AtProducer(u)'
  <2>1. sent < MaxMessages
    BY <1>1 DEF IInv, AtProducer
  <2> QED
    BY <1>1, <1>2, <1>3, <1>7, <1>16, <2>1 DEF AtProducer, OneProducer
<1>18. AtOwner' /\ Walk'
  BY <1>1, <1>2, <1>3, <1>16, OwnerKept
<1> QED
  BY <1>8, <1>13, <1>14, <1>15, <1>17, <1>18 DEF IInv

(* It gives the entry its message.                                         *)
LEMMA FillStep ==
  ASSUME OneProducer, IInv, NEW t \in Producers, Fill(t)
  PROVE  IInv'
<1> USE OwnerApart, Counts
<1> DEFINE e == entry[t]
<1>1. /\ pc[t] = "fill" /\ pc' = [pc EXCEPT ![t] = "link"] /\ sent' = sent + 1
      /\ message' = [message EXCEPT ![e] = sent + 1]
      /\ UNCHANGED <<next, previous, made, lock, messages_lock, entry, data, dot, depth, size>>
  BY DEF Fill, Go, links
<1>2. pc'[t] = "link" /\ \A u \in Threads : u # t => pc'[u] = pc[u]
  BY <1>1 DEF IInv, Typed
<1>3. /\ Taken' = Taken /\ Published' = Published /\ Linked' = Linked
      /\ Freed' = Freed /\ Removed' = Removed /\ Published = sent /\ made >= 1
  <2>1. e \in 1 .. made
    BY <1>1 DEF IInv, AtProducer, Holds
  <2> QED
    BY <1>1, <1>2, <2>1, CountsAt DEF Freed, Removed
<1>4. e \in 1 .. made /\ message[e] = Taken
  BY <1>1 DEF IInv, AtProducer, Holds
<1>5. \A c \in 1 .. made : c \in Cells /\ message[c] \in 1 .. sent
  BY CellsOf DEF IInv, Typed, Shape, Numbered
<1>6. message'[e] = sent + 1 /\ \A c \in 1 .. made : c # e => message'[c] = message[c]
  BY <1>1, <1>4, <1>5 DEF IInv, Typed, Shape
<1>7. sent + 1 <= MaxMessages
  BY <1>1 DEF IInv, AtProducer
<1>8. Typed'
  <2>1. message \in [Cells -> 0 .. MaxMessages] /\ sent + 1 \in 0 .. MaxMessages
    BY <1>7 DEF IInv, Typed, Shape
  <2>2. message' \in [Cells -> 0 .. MaxMessages]
    BY <1>1, <2>1
  <2> QED
    BY <1>1, <2>1, <2>2 DEF IInv, Typed, Shape, Labels
<1>9. Numbered'
  BY <1>1, <1>4, <1>5, <1>6 DEF IInv, Numbered
<1>10. FreeRing'
  <2>1. Ring(next, previous, message, made, freelist, Taken, Freed, data)
    BY DEF IInv, FreeRing
  <2>2. \A c \in 1 .. made : Taken < message'[c] /\ message'[c] <= data => message'[c] = message[c]
    BY <1>6
  <2>3. Ring(next, previous, message', made, freelist, Taken, Freed, data)
    BY <2>1, <2>2, <1>4, <1>5, <1>6, RingSame
  <2> QED
    BY <2>3, <1>1, <1>3 DEF FreeRing
<1>11. LiveRing'
  <2>1. Ring(next, previous, message, made, head, Removed, Published, Linked)
    BY DEF IInv, LiveRing
  <2>2. \A c \in 1 .. made : Removed < message'[c] /\ message'[c] <= Linked =>
          message'[c] = message[c]
    BY <1>6
  <2>3. Ring(next, previous, message', made, head, Removed, Published, Linked)
    BY <2>1, <2>2, <1>4, <1>5, <1>6, RingSame
  <2> QED
    BY <2>3, <1>1, <1>3 DEF LiveRing
<1>12. \A u \in Producers : AtProducer(u)'
  BY <1>1, <1>2, <1>4, <1>6 DEF AtProducer, OneProducer, Holds
<1>13. AtOwner' /\ Walk'
  BY <1>1, <1>2, <1>3, <1>4, <1>6, OwnerKept
<1> QED
  BY <1>8, <1>9, <1>10, <1>11, <1>12, <1>13 DEF IInv

(* insert links the entry into the ring of head.                           *)
LEMMA LinkStep ==
  ASSUME OneProducer, IInv, NEW t \in Producers, Link(t)
  PROVE  IInv'
<1> USE OwnerApart, Counts
<1> DEFINE e == entry[t]
           q == next[head]
<1>1. /\ pc[t] = "link" /\ pc' = [pc EXCEPT ![t] = "publish"]
      /\ lock' = [lock EXCEPT ![head] = t] /\ next' = [next EXCEPT ![e] = q]
      /\ previous' = [previous EXCEPT ![e] = head, ![q] = e]
      /\ UNCHANGED <<message, made, messages_lock, entry, sent, data, dot, depth, size>>
  BY DEF Link, Go, InsertLink
<1>2. pc'[t] = "publish" /\ \A u \in Threads : u # t => pc'[u] = pc[u]
  BY <1>1 DEF IInv, Typed
<1>3. /\ Taken' = Taken /\ Published' = Published /\ Linked' = Linked + 1
      /\ Freed' = Freed /\ Removed' = Removed /\ Linked = Published /\ sent = Published + 1
  BY <1>1, <1>2, CountsAt DEF Freed, Removed
<1>4. e \in 1 .. made /\ message[e] = sent /\ Holds(message, made, e, Published + 1)
  BY <1>1, <1>3 DEF IInv, AtProducer, Holds
<1>5. head \in Sentinels /\ freelist \in Sentinels /\ Cellular(next, previous, message, made)
  BY Cellulars DEF Sentinels
<1>6. Ring(next', previous', message, made, head, Removed, Published, Published + 1)
  <2>1. Ring(next, previous, message, made, head, Removed, Published, Published)
    BY <1>3 DEF IInv, LiveRing
  <2> QED
    BY <2>1, <1>1, <1>4, <1>5, RingLink
<1>7. LiveRing'
  BY <1>1, <1>3, <1>6 DEF LiveRing
<1>8. /\ head # freelist /\ freelist \in Cells /\ head \in Cells /\ freelist \notin 1 .. made
      /\ \A c \in 1 .. made : c \in Cells /\ c # head /\ message[c] \in 1 .. sent
      /\ q \in Cells /\ e \in Cells /\ e \in Entries
  BY <1>4, <1>5, CellsOf DEF Cellular, IInv, Numbered
<1>9. q = head \/ (q \in 1 .. made /\ message[q] = Published /\ Removed < Published)
  BY DEF IInv, LiveRing, Ring, Holds
<1>10. next'[freelist] = next[freelist] /\ previous'[freelist] = previous[freelist]
  BY <1>1, <1>4, <1>5, <1>8, <1>9 DEF Cellular
<1>11. \A c \in 1 .. made : message[c] <= data => next'[c] = next[c] /\ previous'[c] = previous[c]
  <2> TAKE c \in 1 .. made
  <2> HAVE message[c] <= data
  <2>1. c # e /\ c # q /\ c \in Cells
    BY <1>3, <1>4, <1>8, <1>9
  <2> QED
    BY <2>1, <1>1, <1>5, <1>8 DEF Cellular
<1>12. FreeRing'
  <2>1. Ring(next, previous, message, made, freelist, Taken, Freed, data)
    BY DEF IInv, FreeRing
  <2>2. Ring(next', previous', message, made, freelist, Taken, Freed, data)
    BY <2>1, <1>8, <1>10, <1>11, RingSame
  <2> QED
    BY <2>2, <1>1, <1>3 DEF FreeRing
<1>13. Typed'
  BY <1>1, <1>5, <1>8 DEF IInv, Typed, Shape, Labels
<1>14. Numbered'
  BY <1>1 DEF IInv, Numbered
<1>15. lock'[head] = t /\ lock'[freelist] = lock[freelist]
  BY <1>1, <1>5, <1>8 DEF IInv, Typed, Shape
<1>16. \A u \in Producers : AtProducer(u)'
  BY <1>1, <1>2, <1>4, <1>15 DEF AtProducer, OneProducer, Holds
<1>17. AtOwner' /\ Walk'
  BY <1>1, <1>2, <1>3, <1>15, OwnerKept
<1> QED
  BY <1>7, <1>12, <1>13, <1>14, <1>16, <1>17 DEF IInv

(* The entry becomes the newest.                                           *)
LEMMA PublishStep ==
  ASSUME OneProducer, IInv, NEW t \in Producers, Publish(t)
  PROVE  IInv'
<1> USE OwnerApart, Counts
<1> DEFINE e == entry[t]
<1>1. /\ pc[t] = "publish" /\ pc' = [pc EXCEPT ![t] = "signal"]
      /\ lock' = [lock EXCEPT ![head] = None] /\ next' = [next EXCEPT ![head] = e]
      /\ entry' = [entry EXCEPT ![t] = NULL]
      /\ UNCHANGED <<previous, message, made, messages_lock, sent, data, dot, depth, size>>
  BY DEF Publish, Go, InsertPublish
<1>2. pc'[t] = "signal" /\ \A u \in Threads : u # t => pc'[u] = pc[u] /\ entry'[u] = entry[u]
  BY <1>1 DEF IInv, Typed, Shape
<1>3. /\ Taken' = Taken /\ Published' = Published + 1 /\ Linked' = Linked
      /\ Freed' = Freed /\ Removed' = Removed /\ Linked = Published + 1 /\ sent = Published + 1
  BY <1>1, <1>2, CountsAt DEF Freed, Removed
<1>4. e \in 1 .. made /\ Holds(message, made, e, Published + 1)
  BY <1>1, <1>3 DEF IInv, AtProducer, Holds
<1>5. head \in Sentinels /\ freelist \in Sentinels /\ Cellular(next, previous, message, made)
  BY Cellulars DEF Sentinels
<1>6. LiveRing'
  <2>1. Ring(next, previous, message, made, head, Removed, Published, Published + 1)
    BY <1>3 DEF IInv, LiveRing
  <2>2. Ring(next', previous, message, made, head, Removed, Published + 1, Published + 1)
    BY <2>1, <1>1, <1>4, <1>5, RingPublish
  <2> QED
    BY <2>2, <1>1, <1>3 DEF LiveRing
<1>7. /\ head # freelist /\ freelist \in Cells /\ head \in Cells /\ e \in Cells
      /\ \A c \in 1 .. made : c \in Cells /\ c # head /\ message[c] \in 1 .. sent
  BY <1>4, <1>5, CellsOf DEF Cellular, IInv, Numbered
<1>8. next'[freelist] = next[freelist] /\ \A c \in 1 .. made : next'[c] = next[c]
  BY <1>1, <1>5, <1>7 DEF Cellular
<1>9. FreeRing'
  <2>1. Ring(next, previous, message, made, freelist, Taken, Freed, data)
    BY DEF IInv, FreeRing
  <2>2. Ring(next', previous, message, made, freelist, Taken, Freed, data)
    BY <2>1, <1>7, <1>8, RingSame
  <2> QED
    BY <2>2, <1>1, <1>3 DEF FreeRing
<1>10. Typed'
  BY <1>1, <1>5, <1>7 DEF IInv, Typed, Shape, Labels
<1>11. Numbered'
  BY <1>1 DEF IInv, Numbered
<1>12. lock'[freelist] = lock[freelist]
  BY <1>1, <1>5, <1>7 DEF IInv, Typed, Shape
<1>13. \A u \in Producers : AtProducer(u)'
  BY <1>2 DEF AtProducer, OneProducer
<1>14. AtOwner' /\ Walk'
  BY <1>1, <1>2, <1>3, <1>12, OwnerKept
<1> QED
  BY <1>6, <1>9, <1>10, <1>11, <1>13, <1>14 DEF IInv

(* The signal wakes the owner.                                             *)
LEMMA SignalStep ==
  ASSUME OneProducer, IInv, NEW t \in Producers, Signal(t)
  PROVE  IInv'
<1> USE OwnerApart, Counts
<1>1. /\ pc[t] = "signal"
      /\ pc' = [pc EXCEPT ![t] = "idle", ![Owner] = IF @ = "asleep" THEN "lock" ELSE @]
      /\ UNCHANGED <<next, previous, message, made, lock, messages_lock, entry,
                    sent, data, dot, depth, size>>
  BY DEF Signal, links
<1>2. pc'[t] = "idle" /\ pc'[Owner] = IF pc[Owner] = "asleep" THEN "lock" ELSE pc[Owner]
  BY <1>1 DEF IInv, Typed
<1>3. /\ Taken' = Taken /\ Published' = Published /\ Linked' = Linked
      /\ Freed' = Freed /\ Removed' = Removed
  <2>1. Taken' = Taken /\ Published' = Published /\ Linked' = Linked
    BY <1>1, <1>2, CountsAt
  <2>2. Freed' = Freed /\ Removed' = Removed
    BY <1>1, <1>2 DEF Freed, Removed
  <2> QED
    BY <2>1, <2>2
<1>4. Typed'
  <2>1. pc' \in [Threads -> Labels]
    BY <1>1 DEF IInv, Typed, Labels
  <2> QED
    BY <1>1, <2>1 DEF IInv, Typed, Shape
<1>5. Numbered' /\ FreeRing' /\ LiveRing'
  BY <1>1, <1>3, RingsKept
<1>6. \A u \in Producers : AtProducer(u)'
  BY <1>2 DEF AtProducer, OneProducer
<1>7. AtOwner' /\ Walk'
  BY <1>1, <1>2, <1>3, OwnerKept
<1> QED
  BY <1>4, <1>5, <1>6, <1>7 DEF IInv

-----------------------------------------------------------------------------
(* The owner                                                               *)

(* wait() and the end of depth() leave the rings alone; the owner goes on  *)
(* to remove only after it has seen that the ring of head is not empty.    *)
LEMMA WaitStep ==
  ASSUME IInv,
         Wait \/ WaitLock \/ WaitCheck \/ WaitSleep \/ Spurious \/ WaitUnlock \/ DepthEnd
  PROVE  IInv'
<1> USE OwnerApart, Counts
<1>1. /\ UNCHANGED <<next, previous, message, made, lock, entry, sent, data, dot, depth, size>>
      /\ messages_lock' \in {messages_lock, Owner, None}
  BY DEF Wait, WaitLock, WaitCheck, WaitSleep, Spurious, WaitUnlock, DepthEnd, Same, links
<1>2. PICK to \in {"idle", "lock", "check", "sleep", "unlock", "asleep", "remove"} :
        /\ pc' = [pc EXCEPT ![Owner] = to]
        /\ pc[Owner] \notin {"data", "recycle"}
        /\ to \in {"unlock", "remove"} => pc[Owner] = "unlock" \/ next[head] # head
  BY DEF Wait, WaitLock, WaitCheck, WaitSleep, Spurious, WaitUnlock, DepthEnd, Go, Empty
<1>3. pc'[Owner] = to /\ \A t \in Producers : pc'[t] = pc[t]
  BY <1>2 DEF IInv, Typed
<1>4. Taken' = Taken /\ Published' = Published /\ Linked' = Linked
  BY <1>1, <1>3, CountsKept
<1>5. Freed' = Freed /\ Removed' = Removed
  BY <1>1, <1>2, <1>3 DEF Freed, Removed
<1>6. Typed'
  BY <1>1, <1>2 DEF IInv, Typed, Shape, Labels
<1>7. Numbered' /\ FreeRing' /\ LiveRing'
  BY <1>1, <1>4, <1>5, RingsKept
<1>8. \A t \in Producers : AtProducer(t)'
  BY <1>1, <1>3, <1>5, ProducersKept
<1>9. to \in {"unlock", "remove"} => Removed < Published
  <2>1. next[head] # head => Removed # Published
    BY DEF IInv, LiveRing, Ring
  <2> QED
    BY <2>1, <1>2 DEF IInv, AtOwner
<1>10. AtOwner' /\ Walk'
  BY <1>2, <1>3, <1>4, <1>5, <1>9 DEF AtOwner, Walk
<1> QED
  BY <1>6, <1>7, <1>8, <1>10 DEF IInv

(* dequeue takes the oldest message.                                       *)
LEMMA DequeueRemoveStep ==
  ASSUME OneProducer, IInv, DequeueRemove
  PROVE  IInv'
<1> USE OwnerApart, Counts
<1> DEFINE e == previous[head]
           q == previous[e]
<1>1. /\ pc[Owner] = "remove" /\ pc' = [pc EXCEPT ![Owner] = "data"]
      /\ lock[head] = None /\ entry' = [entry EXCEPT ![Owner] = e]
      /\ previous' = [previous EXCEPT ![head] = q] /\ next' = [next EXCEPT ![q] = head]
      /\ UNCHANGED <<message, made, lock, messages_lock, sent, data, dot, depth, size>>
  BY DEF DequeueRemove, Go, Remove
<1>2. /\ pc'[Owner] = "data" /\ entry'[Owner] = e
      /\ \A t \in Producers : pc'[t] = pc[t] /\ entry'[t] = entry[t]
  BY <1>1 DEF IInv, Typed, Shape
<1>3. Taken' = Taken /\ Published' = Published /\ Linked' = Linked
  BY <1>1, <1>2, CountsKept
<1>4. Freed' = Freed /\ Removed' = Removed + 1 /\ Removed = data
  BY <1>1, <1>2 DEF Freed, Removed
<1>5. Published = Linked
  <2>1. \A t \in Producers : pc[t] # "publish"
    BY <1>1 DEF IInv, AtProducer
  <2>2. Producing({"link", "publish"}) = Producing({"link"})
    BY <2>1 DEF Producing
  <2> QED
    BY <2>2 DEF Published, Linked
<1>6. Removed < Published
  BY <1>1 DEF IInv, AtOwner
<1>7. head \in Sentinels /\ Cellular(next, previous, message, made)
  BY Cellulars DEF Sentinels
<1>8. /\ Holds(message, made, e, Removed + 1)
      /\ Ring(next', previous', message, made, head, Removed + 1, Published, Published)
  <2>1. Ring(next, previous, message, made, head, Removed, Published, Published)
    BY <1>5 DEF IInv, LiveRing
  <2> QED
    BY <2>1, <1>1, <1>6, <1>7, RingRemove
<1>9. LiveRing'
  BY <1>1, <1>3, <1>4, <1>5, <1>8 DEF LiveRing
<1>10. /\ e \in 1 .. made /\ e \in Entries /\ message[e] = Removed + 1
       /\ head # freelist /\ freelist \in Cells /\ head \in Cells /\ freelist \notin 1 .. made
       /\ \A c \in 1 .. made : c \in Cells /\ c # head /\ message[c] \in 1 .. sent
  BY <1>7, <1>8, CellsOf DEF Holds, Cellular, IInv, Numbered
<1>11. q = head \/ (q \in 1 .. made /\ message[q] = Removed + 2)
  BY <1>5, <1>6, <1>10 DEF IInv, LiveRing, Ring, Holds
<1>12. next'[freelist] = next[freelist] /\ previous'[freelist] = previous[freelist]
  BY <1>1, <1>7, <1>10, <1>11 DEF Cellular
<1>13. \A c \in 1 .. made : message[c] <= data => next'[c] = next[c] /\ previous'[c] = previous[c]
  BY <1>1, <1>7, <1>10, <1>11 DEF Cellular
<1>14. FreeRing'
  <2>1. Ring(next, previous, message, made, freelist, Taken, Freed, data)
    BY DEF IInv, FreeRing
  <2>2. Ring(next', previous', message, made, freelist, Taken, Freed, data)
    BY <2>1, <1>10, <1>12, <1>13, RingSame
  <2> QED
    BY <2>2, <1>1, <1>3, <1>4 DEF FreeRing
<1>15. Typed'
  BY <1>1, <1>10, <1>11 DEF IInv, Typed, Shape, Labels
<1>16. Numbered'
  BY <1>1 DEF IInv, Numbered
<1>17. \A t \in Producers : AtProducer(t)'
  BY <1>1, <1>2, <1>4, ProducersKept
<1>18. AtOwner' /\ Walk'
  BY <1>1, <1>2, <1>4, <1>8 DEF AtOwner, Walk
<1> QED
  BY <1>9, <1>14, <1>15, <1>16, <1>17, <1>18 DEF IInv

(* It reads the message and links the entry into the freelist.             *)
LEMMA DequeueLinkStep ==
  ASSUME OneProducer, IInv, DequeueLink
  PROVE  IInv'
<1> USE OwnerApart, Counts
<1> DEFINE e == entry[Owner]
           q == next[freelist]
<1>1. /\ pc[Owner] = "data" /\ pc' = [pc EXCEPT ![Owner] = "recycle"]
      /\ lock' = [lock EXCEPT ![freelist] = Owner] /\ next' = [next EXCEPT ![e] = q]
      /\ previous' = [previous EXCEPT ![e] = freelist, ![q] = e]
      /\ data' = message[e]
      /\ UNCHANGED <<message, made, messages_lock, entry, sent, dot, depth, size>>
  BY DEF DequeueLink, Go, InsertLink
<1>2. pc'[Owner] = "recycle" /\ \A t \in Producers : pc'[t] = pc[t] /\ entry'[t] = entry[t]
  BY <1>1 DEF IInv, Typed
<1>3. Taken' = Taken /\ Published' = Published /\ Linked' = Linked
  BY <1>1, <1>2, CountsKept
<1>4. e \in 1 .. made /\ message[e] = data + 1 /\ Holds(message, made, e, data + 1)
  BY <1>1 DEF IInv, AtOwner, Holds
<1>5. Freed' = Freed /\ Freed = data /\ Removed' = Removed /\ Removed = data + 1 /\ data' = data + 1
  BY <1>1, <1>2, <1>4 DEF Freed, Removed
<1>6. head \in Sentinels /\ freelist \in Sentinels /\ Cellular(next, previous, message, made)
  BY Cellulars DEF Sentinels
<1>7. Ring(next', previous', message, made, freelist, Taken, data, data + 1)
  <2>1. Ring(next, previous, message, made, freelist, Taken, data, data)
    BY <1>5 DEF IInv, FreeRing
  <2> QED
    BY <2>1, <1>1, <1>4, <1>6, RingLink
<1>8. FreeRing'
  BY <1>1, <1>3, <1>5, <1>7 DEF FreeRing
<1>9. /\ head # freelist /\ freelist \in Cells /\ head \in Cells /\ head \notin 1 .. made
      /\ \A c \in 1 .. made : c \in Cells /\ c # freelist /\ message[c] \in 1 .. sent
      /\ q \in Cells /\ e \in Cells /\ e \in Entries
  BY <1>4, <1>6, CellsOf DEF Cellular, IInv, Numbered
<1>10. q = freelist \/ (q \in 1 .. made /\ message[q] = data)
  BY <1>5 DEF IInv, FreeRing, Ring, Holds
<1>11. next'[head] = next[head] /\ previous'[head] = previous[head]
  BY <1>1, <1>4, <1>6, <1>9, <1>10 DEF Cellular
<1>12. \A c \in 1 .. made : Removed < message[c] => next'[c] = next[c] /\ previous'[c] = previous[c]
  <2> TAKE c \in 1 .. made
  <2> HAVE Removed < message[c]
  <2>1. c # e /\ c # q /\ c \in Cells
    BY <1>4, <1>5, <1>9, <1>10
  <2> QED
    BY <2>1, <1>1, <1>6, <1>9 DEF Cellular
<1>13. LiveRing'
  <2>1. Ring(next, previous, message, made, head, Removed, Published, Linked)
    BY DEF IInv, LiveRing
  <2>2. Ring(next', previous', message, made, head, Removed, Published, Linked)
    BY <2>1, <1>9, <1>11, <1>12, RingSame
  <2> QED
    BY <2>2, <1>1, <1>3, <1>5 DEF LiveRing
<1>14. Typed'
  <2>1. data' \in 0 .. MaxMessages
    BY <1>5
  <2>2. next' \in [Cells -> Cells] /\ previous' \in [Cells -> Cells]
    BY <1>1, <1>6, <1>9 DEF Cellular
  <2> QED
    BY <1>1, <2>1, <2>2 DEF IInv, Typed, Shape, Labels
<1>15. Numbered'
  BY <1>1 DEF IInv, Numbered
<1>16. lock'[freelist] = Owner /\ lock'[head] = lock[head]
  BY <1>1, <1>6, <1>9 DEF IInv, Typed, Shape
<1>17. \A t \in Producers : AtProducer(t)'
  BY <1>1, <1>2, <1>5, <1>16, ProducersKept
<1>18. AtOwner' /\ Walk'
  BY <1>1, <1>2, <1>4, <1>16 DEF AtOwner, Walk, Holds
<1> QED
  BY <1>8, <1>13, <1>14, <1>15, <1>17, <1>18 DEF IInv

(* The entry is free.                                                      *)
LEMMA DequeuePublishStep ==
  ASSUME OneProducer, IInv, DequeuePublish
  PROVE  IInv'
<1> USE OwnerApart, Counts
<1> DEFINE e == entry[Owner]
<1>1. /\ pc[Owner] = "recycle" /\ pc' = [pc EXCEPT ![Owner] = "idle"]
      /\ lock' = [lock EXCEPT ![freelist] = None] /\ next' = [next EXCEPT ![freelist] = e]
      /\ entry' = [entry EXCEPT ![Owner] = NULL]
      /\ UNCHANGED <<previous, message, made, messages_lock, sent, data, dot, depth, size>>
  BY DEF DequeuePublish, Go, InsertPublish
<1>2. pc'[Owner] = "idle" /\ \A t \in Producers : pc'[t] = pc[t] /\ entry'[t] = entry[t]
  BY <1>1 DEF IInv, Typed, Shape
<1>3. Taken' = Taken /\ Published' = Published /\ Linked' = Linked
  BY <1>1, <1>2, CountsKept
<1>4. Freed' = Freed + 1 /\ data = Freed + 1 /\ Removed' = Removed
  BY <1>1, <1>2 DEF Freed, Removed
<1>5. e \in 1 .. made /\ Holds(message, made, e, Freed + 1)
  BY <1>1, <1>4 DEF IInv, AtOwner, Holds
<1>6. head \in Sentinels /\ freelist \in Sentinels /\ Cellular(next, previous, message, made)
  BY Cellulars DEF Sentinels
<1>7. FreeRing'
  <2>1. Ring(next, previous, message, made, freelist, Taken, Freed, Freed + 1)
    BY <1>4 DEF IInv, FreeRing
  <2>2. Ring(next', previous, message, made, freelist, Taken, Freed + 1, Freed + 1)
    BY <2>1, <1>1, <1>5, <1>6, RingPublish
  <2> QED
    BY <2>2, <1>1, <1>3, <1>4 DEF FreeRing
<1>8. /\ head # freelist /\ freelist \in Cells /\ head \in Cells /\ e \in Cells
      /\ \A c \in 1 .. made : c \in Cells /\ c # freelist /\ message[c] \in 1 .. sent
  BY <1>5, <1>6, CellsOf DEF Cellular, IInv, Numbered
<1>9. next'[head] = next[head] /\ \A c \in 1 .. made : next'[c] = next[c]
  BY <1>1, <1>6, <1>8 DEF Cellular
<1>10. LiveRing'
  <2>1. Ring(next, previous, message, made, head, Removed, Published, Linked)
    BY DEF IInv, LiveRing
  <2>2. /\ \A c \in 1 .. made : message[c] \in Int
        /\ Removed \in Int /\ Published \in Int /\ Linked \in Int /\ made \in Nat /\ made <= made
    BY <1>8
  <2>3. Ring(next', previous, message, made, head, Removed, Published, Linked)
    BY ONLY <2>1, <2>2, <1>9, RingSame
  <2> QED
    BY <2>3, <1>1, <1>3, <1>4 DEF LiveRing
<1>11. Typed'
  BY <1>1, <1>6, <1>8 DEF IInv, Typed, Shape, Labels
<1>12. Numbered'
  BY <1>1 DEF IInv, Numbered
<1>13. lock'[head] = lock[head]
  BY <1>1, <1>6, <1>8 DEF IInv, Typed, Shape
<1>14. \A t \in Producers : AtProducer(t)'
  BY <1>1, <1>2, <1>4, <1>13, ProducersKept
<1>15. AtOwner' /\ Walk'
  BY <1>2 DEF AtOwner, Walk
<1> QED
  BY <1>7, <1>10, <1>11, <1>12, <1>14, <1>15 DEF IInv

(* depth() begins at the newest entry.                                     *)
LEMMA DepthStartStep ==
  ASSUME IInv, DepthStart
  PROVE  IInv'
<1> USE OwnerApart, Counts
<1>1. /\ pc[Owner] = "idle" /\ pc' = [pc EXCEPT ![Owner] = "depth"]
      /\ messages_lock' = Owner /\ dot' = next[head] /\ depth' = 0 /\ size' = Length
      /\ UNCHANGED <<next, previous, message, made, lock, entry, sent, data>>
  BY DEF DepthStart, Go, links
<1>2. pc'[Owner] = "depth" /\ \A t \in Producers : pc'[t] = pc[t]
  BY <1>1 DEF IInv, Typed
<1>3. Taken' = Taken /\ Published' = Published /\ Linked' = Linked
  BY <1>1, <1>2, CountsKept
<1>4. Freed' = Freed /\ Removed' = Removed
  BY <1>1, <1>2 DEF Freed, Removed
<1>5. Length = Published - Removed
  BY LengthIs DEF IInv, Typed, LiveRing, Numbered
<1>6. Typed'
  <2>1. next[head] \in Cells
    BY Cellulars, CellsOf DEF Cellular
  <2>2. size' \in Nat
    BY <1>1, <1>5
  <2> QED
    BY <1>1, <2>1, <2>2 DEF IInv, Typed, Shape, Labels
<1>7. Numbered' /\ FreeRing' /\ LiveRing'
  BY <1>1, <1>3, <1>4, RingsKept
<1>8. \A t \in Producers : AtProducer(t)'
  BY <1>1, <1>2, <1>4, ProducersKept
<1>9. AtOwner'
  BY <1>2 DEF AtOwner
<1>10. Walk'
  <2>1. head \notin 1 .. made
    BY CellsOf DEF IInv, Typed, Shape
  <2>2. IF Removed = Published THEN next[head] = head
        ELSE next[head] \in 1 .. made /\ message[next[head]] = Published
    BY DEF IInv, LiveRing, Ring, Holds
  <2> QED
    BY <1>1, <1>3, <1>4, <1>5, <2>1, <2>2 DEF Walk
<1> QED
  BY <1>6, <1>7, <1>8, <1>9, <1>10 DEF IInv

(* depth() moves to the next older entry, whatever arrives meanwhile.      *)
LEMMA DepthStepStep ==
  ASSUME IInv, DepthStep
  PROVE  IInv'
<1> USE OwnerApart, Counts
<1>1. /\ pc[Owner] = "depth" /\ dot # head /\ depth' = depth + 1 /\ dot' = next[dot]
      /\ UNCHANGED <<next, previous, message, made, lock, messages_lock, pc, entry,
                    sent, data, size>>
  BY DEF DepthStep, links
<1>2. Taken' = Taken /\ Published' = Published /\ Linked' = Linked
  BY <1>1, CountsKept
<1>3. Freed' = Freed /\ Removed' = Removed
  BY <1>1 DEF Freed, Removed
<1>4. Typed'
  <2>1. next[dot] \in Cells /\ depth + 1 \in Nat
    BY DEF IInv, Typed, Shape
  <2> QED
    BY <1>1, <2>1 DEF IInv, Typed, Shape
<1>5. Numbered' /\ FreeRing' /\ LiveRing'
  BY <1>1, <1>2, <1>3, RingsKept
<1>6. \A t \in Producers : AtProducer(t)'
  BY <1>1, <1>3, ProducersKept
<1>7. AtOwner'
  BY <1>1 DEF AtOwner
<1>8. Walk'
  <2>1. /\ dot \in 1 .. made /\ Removed < message[dot] /\ message[dot] <= Published
        /\ depth + (message[dot] - Removed) = size /\ message[dot] \in Nat
    BY <1>1 DEF IInv, Walk, Numbered
  <2>2. IF message[dot] = Removed + 1 THEN next[dot] = head
        ELSE next[dot] \in 1 .. made /\ message[next[dot]] = message[dot] - 1
    BY <2>1 DEF IInv, LiveRing, Ring, Holds
  <2>3. head \notin 1 .. made /\ depth \in Nat /\ size \in Nat
    BY CellsOf DEF IInv, Typed, Shape
  <2>4. CASE message[dot] = Removed + 1
    BY <1>1, <1>3, <2>1, <2>2, <2>3, <2>4 DEF Walk
  <2>5. CASE message[dot] # Removed + 1
    <3>1. /\ dot' \in 1 .. made /\ message[dot'] = message[dot] - 1 /\ dot' # head
          /\ Removed < message[dot'] /\ message[dot'] <= Published
          /\ (depth + 1) + (message[dot'] - Removed) = size
      BY <1>1, <2>1, <2>2, <2>3, <2>5
    <3> QED
      BY <1>1, <1>2, <1>3, <3>1 DEF Walk
  <2> QED
    BY <2>4, <2>5
<1> QED
  BY <1>4, <1>5, <1>6, <1>7, <1>8 DEF IInv

-----------------------------------------------------------------------------
(* Both rings are empty at first.                                          *)
LEMMA InitIInv == Init => IInv
<1> SUFFICES ASSUME Init PROVE IInv
  OBVIOUS
<1>1. /\ 0 \in 0 .. MaxMessages /\ head \in Cells /\ freelist \in Cells
      /\ head \in Sentinels /\ freelist \in Sentinels /\ 1 .. 0 = {}
  BY QueueAssumption, CellsOf DEF Sentinels
<1>2. /\ \A t \in Threads : pc[t] = "idle"
      /\ made = 0 /\ sent = 0 /\ data = 0
      /\ next[head] = head /\ previous[head] = head
      /\ next[freelist] = freelist /\ previous[freelist] = freelist
  BY <1>1 DEF Init
<1>3. Taken = 0 /\ Freed = 0 /\ Removed = 0 /\ Published = 0 /\ Linked = 0
  <2>1. /\ Producing({"fill"}) = 0 /\ Producing({"link", "publish"}) = 0
        /\ Producing({"link"}) = 0
    BY <1>2, OwnerApart DEF Producing
  <2> QED
    BY <1>2, <2>1, OwnerApart DEF Taken, Freed, Removed, Published, Linked
<1>4. Typed
  BY <1>1 DEF Init, Typed, Shape, Labels
<1>5. Numbered
  BY <1>2 DEF Numbered
<1>6. FreeRing /\ LiveRing
  BY <1>2, <1>3 DEF FreeRing, LiveRing, Ring
<1>7. (\A t \in Producers : AtProducer(t)) /\ AtOwner /\ Walk
  BY <1>2, OwnerApart DEF AtProducer, AtOwner, Walk
<1> QED
  BY <1>4, <1>5, <1>6, <1>7 DEF IInv

LEMMA StutterIInv == ASSUME IInv, UNCHANGED vars PROVE IInv'
BY DEF IInv, vars, Typed, Shape, Numbered, FreeRing, LiveRing, Ring, Holds, AtProducer, AtOwner,
       Walk, Taken, Freed, Removed, Published, Linked, Producing

LEMMA NextIInv ==
  ASSUME OneProducer, IInv, [Next]_vars
  PROVE  IInv'
<1>1. ASSUME NEW t \in Producers, Produce(t) PROVE IInv'
  <2>1. CASE Allocate(t)
    BY <2>1, AllocateNewStep, AllocateOldStep
  <2> QED
    BY <1>1, <2>1, TakeStep, FillStep, LinkStep, PublishStep, SignalStep DEF Produce
<1>2. CASE Consume \/ Spurious
  BY <1>2, WaitStep, DequeueRemoveStep, DequeueLinkStep, DequeuePublishStep,
     DepthStepStep DEF Consume
<1>3. CASE DepthStart
  BY <1>3, DepthStartStep
<1>4. CASE UNCHANGED vars
  BY <1>4, StutterIInv
<1> QED
  BY <1>1, <1>2, <1>3, <1>4 DEF Next

(* The rings keep their shape and depth() keeps its count, in every state. *)
LEMMA Invariance == OneProducer => (Spec => []IInv)
<1> SUFFICES ASSUME OneProducer PROVE Spec => []IInv
  OBVIOUS
<1>1. IInv /\ [Next]_vars => IInv'
  BY NextIInv
<1> QED
  BY InitIInv, <1>1, PTL DEF Spec

(***************************************************************************)
(* The types need no condition on the producers: a thread that is about to *)
(* use its entry has one, be it the sentinel.                              *)
(***************************************************************************)
InHand == {"fill", "link", "publish", "data", "recycle"}
TypeInv ==
  /\ TypeOK
  /\ pc \in [Threads -> Labels]
  /\ \A t \in Threads : pc[t] \in InHand => entry[t] \in Cells

(* insert and remove lead from cells to cells.                             *)
LEMMA LinksType ==
  ASSUME TypeInv, NEW t \in Threads, NEW s \in Sentinels, NEW e \in Cells,
         InsertLink(t, s, e) \/ InsertPublish(t, s, e)
  PROVE  /\ next' \in [Cells -> Cells] /\ previous' \in [Cells -> Cells]
         /\ lock' \in [Sentinels -> Threads \cup {None}]
<1>1. s \in Cells /\ next[s] \in Cells
  BY DEF TypeInv, TypeOK, Cells
<1> QED
  BY <1>1 DEF TypeInv, TypeOK, InsertLink, InsertPublish

(* remove hands out a cell, and leads from cells to cells.                 *)
LEMMA RemoveType ==
  ASSUME TypeInv, NEW t \in Threads, NEW s \in Sentinels, Remove(t, s)
  PROVE  /\ next' \in [Cells -> Cells] /\ previous' \in [Cells -> Cells]
         /\ entry' \in [Threads -> Cells \cup {NULL}] /\ entry'[t] \in Cells
         /\ \A u \in Threads \ {t} : entry'[u] = entry[u]
         /\ lock' = lock
<1>1. s \in Cells /\ previous[s] \in Cells /\ previous[previous[s]] \in Cells
  BY DEF TypeInv, TypeOK, Cells
<1> QED
  BY <1>1 DEF TypeInv, TypeOK, Remove

(* A step of a producer keeps the types.                                   *)
LEMMA ProduceType == ASSUME TypeInv, NEW t \in Producers, Produce(t) PROVE TypeInv'
<1>0. t \in Threads /\ Owner \in Threads /\ t # Owner /\ head \in Sentinels /\ freelist \in Sentinels
  BY OwnerAssumption DEF Threads, Sentinels
<1>1. CASE Allocate(t) /\ Empty(freelist)
  <2>1. /\ sent < MaxMessages /\ Go(t, "idle", "link")
        /\ made' = made + 1 /\ sent' = sent + 1
        /\ entry' = [entry EXCEPT ![t] = made + 1]
        /\ message' = [message EXCEPT ![made + 1] = sent + 1]
        /\ UNCHANGED <<next, previous, lock, messages_lock, data, dot>>
    BY <1>1 DEF Allocate, links
  <2>2. made + 1 \in 1 .. MaxMessages
    BY <2>1, QueueAssumption DEF TypeInv, TypeOK
  <2>3. made + 1 \in Cells
    BY <2>2 DEF Cells, Entries
  <2>a. sent' \in Nat /\ made' \in 0 .. MaxMessages /\ made' <= sent'
    BY <2>1, <2>2 DEF TypeInv, TypeOK
  <2>b. message' \in [Cells -> Nat]
    <3>1. sent + 1 \in Nat
      BY DEF TypeInv, TypeOK
    <3> QED
      BY <2>1, <3>1 DEF TypeInv, TypeOK
  <2>c. entry' \in [Threads -> Cells \cup {NULL}]
    BY <2>1, <2>3 DEF TypeInv, TypeOK
  <2>4. TypeOK'
    BY <2>1, <2>a, <2>b, <2>c DEF TypeInv, TypeOK
  <2>5. pc' \in [Threads -> Labels]
    BY <1>0, <2>1 DEF TypeInv, Go, Labels
  <2>6. \A u \in Threads : pc'[u] \in InHand => entry'[u] \in Cells
    BY <1>0, <2>1, <2>3 DEF TypeInv, TypeOK, Go
  <2> QED
    BY <2>4, <2>5, <2>6 DEF TypeInv
<1>2. CASE Allocate(t) /\ ~Empty(freelist)
  <2>1. /\ Go(t, "idle", "take")
        /\ UNCHANGED <<next, previous, message, made, lock, messages_lock, entry, sent, data, dot>>
    BY <1>2 DEF Allocate, links
  <2>2. TypeOK'
    BY <2>1 DEF TypeInv, TypeOK
  <2> QED
    BY <1>0, <2>1, <2>2 DEF TypeInv, Go, Labels, InHand
<1>3. CASE Take(t)
  <2>1. /\ Go(t, "take", "fill") /\ Remove(t, freelist)
        /\ UNCHANGED <<message, made, messages_lock, sent, data, dot>>
    BY <1>3 DEF Take
  <2>2. /\ next' \in [Cells -> Cells] /\ previous' \in [Cells -> Cells]
        /\ entry' \in [Threads -> Cells \cup {NULL}] /\ entry'[t] \in Cells
        /\ \A u \in Threads \ {t} : entry'[u] = entry[u]
        /\ lock' = lock
    BY <1>0, <2>1, RemoveType
  <2>3. TypeOK'
    BY <2>1, <2>2 DEF TypeInv, TypeOK
  <2> QED
    BY <1>0, <2>1, <2>2, <2>3 DEF TypeInv, Go, Labels
<1>4. CASE Fill(t)
  <2>1. /\ Go(t, "fill", "link") /\ sent' = sent + 1
        /\ message' = [message EXCEPT ![entry[t]] = sent + 1]
        /\ UNCHANGED <<next, previous, made, lock, messages_lock, entry, data, dot>>
    BY <1>4 DEF Fill, links
  <2>2. entry[t] \in Cells
    BY <1>0, <2>1 DEF TypeInv, Go, InHand
  <2>3. TypeOK'
    BY <2>1, <2>2 DEF TypeInv, TypeOK
  <2> QED
    BY <1>0, <2>1, <2>2, <2>3 DEF TypeInv, Go, Labels
<1>5. CASE Link(t)
  <2>1. /\ Go(t, "link", "publish") /\ InsertLink(t, head, entry[t])
        /\ UNCHANGED <<message, made, messages_lock, entry, sent, data, dot>>
    BY <1>5 DEF Link
  <2>2. entry[t] \in Cells
    BY <1>0, <2>1 DEF TypeInv, Go, InHand
  <2>3. /\ next' \in [Cells -> Cells] /\ previous' \in [Cells -> Cells]
        /\ lock' \in [Sentinels -> Threads \cup {None}]
    BY <1>0, <2>1, <2>2, LinksType
  <2>4. TypeOK'
    BY <2>1, <2>3 DEF TypeInv, TypeOK
  <2> QED
    BY <1>0, <2>1, <2>2, <2>4 DEF TypeInv, Go, Labels
<1>6. CASE Publish(t)
  <2>1. /\ Go(t, "publish", "signal") /\ InsertPublish(t, head, entry[t])
        /\ entry' = [entry EXCEPT ![t] = NULL]
        /\ UNCHANGED <<message, made, messages_lock, sent, data, dot>>
    BY <1>6 DEF Publish
  <2>2. entry[t] \in Cells
    BY <1>0, <2>1 DEF TypeInv, Go, InHand
  <2>3. /\ next' \in [Cells -> Cells] /\ previous' \in [Cells -> Cells]
        /\ lock' \in [Sentinels -> Threads \cup {None}]
    BY <1>0, <2>1, <2>2, LinksType
  <2>4. TypeOK'
    BY <2>1, <2>3 DEF TypeInv, TypeOK
  <2> QED
    BY <1>0, <2>1, <2>4 DEF TypeInv, TypeOK, Go, Labels, InHand
<1>7. CASE Signal(t)
  <2>1. /\ pc' = [pc EXCEPT ![t] = "idle", ![Owner] = IF @ = "asleep" THEN "lock" ELSE @]
        /\ UNCHANGED <<next, previous, message, made, lock, messages_lock, entry, sent, data, dot>>
    BY <1>7 DEF Signal, links
  <2>2. TypeOK'
    BY <2>1 DEF TypeInv, TypeOK
  <2> QED
    BY <1>0, <2>1, <2>2 DEF TypeInv, Labels, InHand
<1> QED
  BY <1>1, <1>2, <1>3, <1>4, <1>5, <1>6, <1>7 DEF Produce

(* A step of the owner keeps the types.                                    *)
LEMMA ConsumeType == ASSUME TypeInv, Consume \/ Spurious \/ DepthStart PROVE TypeInv'
<1>0. Owner \in Threads /\ head \in Sentinels /\ freelist \in Sentinels /\ head \in Cells
  BY DEF Threads, Sentinels, Cells
<1>1. CASE Wait \/ WaitLock \/ WaitCheck \/ WaitSleep \/ WaitUnlock \/ Spurious
  <2>1. /\ \E l \in Labels \ InHand : pc' = [pc EXCEPT ![Owner] = l]
        /\ UNCHANGED <<next, previous, message, made, lock, entry, sent, data, dot>>
        /\ messages_lock' \in {Owner, None}
    BY <1>1 DEF Wait, WaitLock, WaitCheck, WaitSleep, WaitUnlock, Spurious, Go, Same, links,
                Labels, InHand, TypeInv, TypeOK
  <2>2. TypeOK'
    BY <2>1 DEF TypeInv, TypeOK
  <2> QED
    BY <1>0, <2>1, <2>2 DEF TypeInv
<1>2. CASE DequeueRemove
  <2>1. /\ Go(Owner, "remove", "data") /\ Remove(Owner, head)
        /\ UNCHANGED <<message, made, messages_lock, sent, data, dot>>
    BY <1>2 DEF DequeueRemove
  <2>2. /\ next' \in [Cells -> Cells] /\ previous' \in [Cells -> Cells]
        /\ entry' \in [Threads -> Cells \cup {NULL}] /\ entry'[Owner] \in Cells
        /\ \A u \in Threads \ {Owner} : entry'[u] = entry[u]
        /\ lock' = lock
    BY <1>0, <2>1, RemoveType
  <2>3. TypeOK'
    BY <2>1, <2>2 DEF TypeInv, TypeOK
  <2> QED
    BY <1>0, <2>1, <2>2, <2>3 DEF TypeInv, Go, Labels
<1>3. CASE DequeueLink
  <2>1. /\ Go(Owner, "data", "recycle") /\ InsertLink(Owner, freelist, entry[Owner])
        /\ data' = message[entry[Owner]]
        /\ UNCHANGED <<message, made, messages_lock, entry, sent, dot>>
    BY <1>3 DEF DequeueLink
  <2>2. entry[Owner] \in Cells
    BY <1>0, <2>1 DEF TypeInv, Go, InHand
  <2>3. /\ next' \in [Cells -> Cells] /\ previous' \in [Cells -> Cells]
        /\ lock' \in [Sentinels -> Threads \cup {None}]
    BY <1>0, <2>1, <2>2, LinksType
  <2>4. TypeOK'
    BY <2>1, <2>2, <2>3 DEF TypeInv, TypeOK
  <2> QED
    BY <1>0, <2>1, <2>2, <2>4 DEF TypeInv, Go, Labels
<1>4. CASE DequeuePublish
  <2>1. /\ Go(Owner, "recycle", "idle") /\ InsertPublish(Owner, freelist, entry[Owner])
        /\ entry' = [entry EXCEPT ![Owner] = NULL]
        /\ UNCHANGED <<message, made, messages_lock, sent, data, dot>>
    BY <1>4 DEF DequeuePublish
  <2>2. entry[Owner] \in Cells
    BY <1>0, <2>1 DEF TypeInv, Go, InHand
  <2>3. /\ next' \in [Cells -> Cells] /\ previous' \in [Cells -> Cells]
        /\ lock' \in [Sentinels -> Threads \cup {None}]
    BY <1>0, <2>1, <2>2, LinksType
  <2>4. TypeOK'
    BY <2>1, <2>3 DEF TypeInv, TypeOK
  <2> QED
    BY <1>0, <2>1, <2>4 DEF TypeInv, TypeOK, Go, Labels, InHand
<1>5. CASE DepthStart \/ DepthStep \/ DepthEnd
  <2>1. /\ pc' = pc \/ \E l \in Labels \ InHand : pc' = [pc EXCEPT ![Owner] = l]
        /\ UNCHANGED <<next, previous, message, made, lock, entry, sent, data>>
        /\ messages_lock' \in {Owner, None}
        /\ dot' \in Cells
    BY <1>0, <1>5 DEF DepthStart, DepthStep, DepthEnd, Go, Same, links, Labels, InHand, TypeInv, TypeOK
  <2>2. TypeOK'
    BY <2>1 DEF TypeInv, TypeOK
  <2> QED
    BY <1>0, <2>1, <2>2 DEF TypeInv
<1> QED
  BY <1>1, <1>2, <1>3, <1>4, <1>5 DEF Consume

(***************************************************************************)
(* However many threads enqueue, no link of a cell ever becomes NULL: the  *)
(* rings can be walked, even when allocate has taken a sentinel.           *)
(***************************************************************************)
THEOREM TypeCorrect == Spec => []TypeOK
<1>1. Init => TypeInv
  <2> SUFFICES ASSUME Init PROVE TypeInv
    OBVIOUS
  <2>1. head \in Cells /\ 0 \in 0 .. MaxMessages
    BY QueueAssumption DEF Cells, Sentinels
  <2>2. TypeOK
    BY <2>1 DEF Init, TypeOK
  <2> QED
    BY <2>2 DEF Init, TypeInv, Labels, InHand
<1>2. TypeInv /\ [Next]_vars => TypeInv'
  <2> SUFFICES ASSUME TypeInv, [Next]_vars PROVE TypeInv'
    OBVIOUS
  <2>1. CASE UNCHANGED vars
    BY <2>1 DEF vars, TypeInv, TypeOK
  <2>2. ASSUME NEW t \in Producers, Produce(t) PROVE TypeInv'
    BY <2>2, ProduceType
  <2>3. CASE Consume \/ Spurious \/ DepthStart
    BY <2>3, ConsumeType
  <2> QED
    BY <2>1, <2>2, <2>3 DEF Next
<1>3. TypeInv => TypeOK
  BY DEF TypeInv
<1> QED
  BY <1>1, <1>2, <1>3, PTL DEF Spec

(***************************************************************************)
(* For one producer and any number of messages, depth() asked by the owner *)
(* returns what was there when it began.                                   *)
(***************************************************************************)
THEOREM DepthExactThm == OneProducer => (Spec => []DepthExact)
<1>1. IInv => DepthExact
  BY DEF IInv, Walk, DepthExact
<1> QED
  BY Invariance, <1>1, PTL

-----------------------------------------------------------------------------
(* The messages from r + 1 to r + n.                                       *)
Span(r, n) == [k \in 1 .. n |-> r + k]

(* Seen from outside: the messages between the last one removed and the    *)
(* last one published, oldest first.                                       *)
Seen == queue = Span(Removed, Published - Removed) /\ out = Removed

LEMMA IInvSeen == IInv => Seen
<1> SUFFICES ASSUME IInv PROVE Seen
  OBVIOUS
<1> USE Counts
<1>1. /\ Length = Published - Removed
      /\ \A k \in 0 .. (Published - Removed) - 1 : message[After[k]] = Published - k
  BY LengthIs DEF IInv, Typed, LiveRing, Numbered
<1>2. \A k \in 1 .. Length : message[After[Length - k]] = Removed + k
  <2> TAKE k \in 1 .. Length
  <2>1. Length - k \in 0 .. (Published - Removed) - 1 /\ Published - (Length - k) = Removed + k
    BY <1>1
  <2> QED
    BY <1>1, <2>1
<1>3. queue = Span(Removed, Published - Removed)
  BY <1>1, <1>2 DEF queue, Span
<1>4. out = Removed
  BY DEF out, Removed, IInv, AtOwner, Holds
<1> QED
  BY <1>3, <1>4 DEF Seen

LEMMA IInvSeenNext == IInv' => Seen'
BY IInvSeen, PTL

(* Enqueue and Dequeue on such a sequence.                                 *)
LEMMA SpanAppends ==
  ASSUME NEW r \in Nat, NEW n \in Nat
  PROVE  /\ Span(r, n + 1) = Append(Span(r, n), (r + n) + 1)
         /\ IF Span(r, n) = <<>> THEN n = 0
            ELSE n # 0 /\ Span(r, n)[Len(Span(r, n))] = r + n
<1>1. Span(r, n) \in Seq(Nat) /\ Len(Span(r, n)) = n
  BY DEF Span
<1> QED
  BY <1>1 DEF Span

LEMMA SpanTails ==
  ASSUME NEW r \in Nat, NEW n \in Nat, n # 0
  PROVE  /\ Span(r, n) # <<>> /\ Head(Span(r, n)) = r + 1
         /\ Span(r + 1, n - 1) = Tail(Span(r, n))
<1>1. Span(r, n) \in Seq(Nat) /\ Len(Span(r, n)) = n
  BY DEF Span
<1> QED
  BY <1>1 DEF Span

(* Publish adds a message, DequeueRemove takes one, the rest changes none. *)
LEMMA CountsStep ==
  ASSUME OneProducer, IInv, [Next]_vars
  PROVE  \/ Published' = Published + 1 /\ Removed' = Removed
         \/ Published' = Published /\ Removed' = Removed + 1 /\ Removed < Published
         \/ Published' = Published /\ Removed' = Removed
<1> USE OwnerApart, Counts
<1>1. pc \in [Threads -> Labels]
  BY DEF IInv, Typed
<1>2. ASSUME NEW t \in Producers, Produce(t)
      PROVE  \/ Published' = Published + 1 /\ Removed' = Removed
             \/ Published' = Published /\ Removed' = Removed
  <2>1. Removed' = Removed
    BY <1>1, <1>2 DEF Produce, Allocate, Take, Fill, Link, Publish, Signal, Go, Removed
  <2>2. CASE Publish(t)
    <3>1. pc[t] = "publish" /\ pc'[t] = "signal" /\ sent' = sent
      BY <1>1, <2>2 DEF Publish, Go
    <3> QED
      BY <2>1, <3>1, CountsAt
  <2>3. CASE Allocate(t) \/ Fill(t)
    <3>1. \/ pc[t] \in {"idle", "fill"} /\ pc'[t] = "link" /\ sent' = sent + 1
          \/ pc[t] = "idle" /\ pc'[t] = "take" /\ sent' = sent
      BY <1>1, <2>3 DEF Allocate, Fill, Go
    <3> QED
      BY <2>1, <3>1, CountsAt
  <2>4. CASE Take(t) \/ Link(t) \/ Signal(t)
    <3>1. sent' = sent /\ (pc[t] \in {"link", "publish"} <=> pc'[t] \in {"link", "publish"})
      BY <1>1, <2>4 DEF Take, Link, Signal, Go
    <3> QED
      BY <2>1, <3>1, CountsAt
  <2> QED
    BY <1>2, <2>2, <2>3, <2>4 DEF Produce
<1>3. ASSUME Consume \/ Spurious \/ DepthStart
      PROVE  \/ Published' = Published /\ Removed' = Removed + 1 /\ Removed < Published
             \/ Published' = Published /\ Removed' = Removed
  <2>1. (\A t \in Producers : pc'[t] = pc[t]) /\ made' = made /\ sent' = sent
    BY <1>1, <1>3 DEF Consume, Spurious, DepthStart, Wait, WaitLock, WaitCheck, WaitSleep,
      WaitUnlock, DequeueRemove, DequeueLink, DequeuePublish, DepthStep, DepthEnd, Same, Go
  <2>2. Published' = Published
    BY <2>1, CountsKept
  <2>3. CASE DequeueRemove
    <3>1. pc[Owner] = "remove" /\ pc'[Owner] = "data" /\ data' = data
      BY <1>1, <2>3 DEF DequeueRemove, Go
    <3> QED
      BY <2>2, <3>1 DEF Removed, IInv, AtOwner
  <2>4. CASE DequeueLink
    <3>1. pc[Owner] = "data" /\ pc'[Owner] = "recycle" /\ data' = data + 1
      BY <1>1, <2>4 DEF DequeueLink, Go, IInv, AtOwner, Holds
    <3> QED
      BY <2>2, <3>1 DEF Removed
  <2>5. CASE ~DequeueRemove /\ ~DequeueLink
    <3>1. data' = data /\ pc[Owner] # "data" /\ pc'[Owner] # "data"
      BY <1>1, <1>3, <2>5 DEF Consume, Spurious, DepthStart, Wait, WaitLock, WaitCheck, WaitSleep,
        WaitUnlock, DequeuePublish, DepthStep, DepthEnd, Same, Go
    <3> QED
      BY <2>2, <3>1 DEF Removed
  <2> QED
    BY <2>3, <2>4, <2>5
<1>4. CASE UNCHANGED vars
  BY <1>4 DEF vars, Published, Removed, Producing
<1> QED
  BY <1>2, <1>3, <1>4 DEF Next

LEMMA FifoStep ==
  ASSUME OneProducer, IInv, [Next]_vars
  PROVE  [F!Enqueue \/ F!Dequeue]_<<queue, out>>
<1> USE Counts
<1> DEFINE r == Removed
           n == Published - Removed
<1>1. queue = Span(r, n) /\ out = r /\ r \in Nat /\ n \in Nat
  BY IInvSeen DEF Seen
<1>2. queue' = Span(Removed', Published' - Removed') /\ out' = Removed'
  BY NextIInv, IInvSeenNext DEF Seen
<1> HIDE DEF r, n
<1>3. CASE Published' = Published + 1 /\ Removed' = Removed
  <2>1. Removed' = r /\ Published' - Removed' = n + 1
    BY <1>3 DEF r, n
  <2>2. queue' = Span(r, n + 1) /\ out' = r
    BY <1>2, <2>1
  <2>3. F!Newest = r + n
    <3>1. CASE queue = <<>>
      <4>1. n = 0
        BY <1>1, <3>1, SpanAppends
      <4>2. F!Newest = out
        BY <3>1 DEF F!Newest
      <4> QED
        BY <1>1, <4>1, <4>2
    <3>2. CASE queue # <<>>
      <4>1. Span(r, n)[Len(Span(r, n))] = r + n
        BY <1>1, <3>2, SpanAppends
      <4> QED
        BY <1>1, <3>2, <4>1 DEF F!Newest
    <3> QED
      BY <3>1, <3>2
  <2>4. F!Enqueue
    BY <1>1, <2>2, <2>3, SpanAppends DEF F!Enqueue
  <2> QED
    BY <2>4
<1>4. CASE Published' = Published /\ Removed' = Removed + 1 /\ Removed < Published
  <2>1. Removed' = r + 1 /\ Published' - Removed' = n - 1 /\ n # 0
    BY <1>4 DEF r, n
  <2>2. queue' = Span(r + 1, n - 1) /\ out' = r + 1
    BY <1>2, <2>1
  <2>3. F!Dequeue
    BY <1>1, <2>1, <2>2, SpanTails DEF F!Dequeue
  <2> QED
    BY <2>3
<1>5. CASE Published' = Published /\ Removed' = Removed
  BY <1>1, <1>2, <1>5 DEF r, n
<1> QED
  BY <1>3, <1>4, <1>5, CountsStep

(***************************************************************************)
(* For one producer and any number of messages the rings are a FIFO: every *)
(* step of enqueue, dequeue and allocate puts the next message in, takes   *)
(* the oldest one out, or shows nothing.                                   *)
(***************************************************************************)
THEOREM ImplementsFifoThm == OneProducer => (Spec => ImplementsFifo)
<1> SUFFICES ASSUME OneProducer PROVE Spec => ImplementsFifo
  OBVIOUS
<1>1. Init => F!Init
  <2> SUFFICES ASSUME Init PROVE F!Init
    OBVIOUS
  <2>1. queue = Span(Removed, Published - Removed) /\ out = Removed
    BY InitIInv, IInvSeen DEF Seen
  <2>2. Removed = 0 /\ Published = 0
    <3>1. Producing({"link", "publish"}) = 0
      BY OwnerApart DEF Init, Producing
    <3> QED
      BY <3>1, OwnerApart DEF Init, Removed, Published
  <2> QED
    BY <2>1, <2>2 DEF Span, F!Init
<1>2. IInv /\ [Next]_vars => [F!Enqueue \/ F!Dequeue]_<<queue, out>>
  BY FifoStep
<1>3. Spec => []IInv
  BY Invariance
<1> QED
  BY <1>1, <1>2, <1>3, PTL DEF Spec, ImplementsFifo, F!Spec

=============================================================================
