--------------------------- MODULE ChannelProofs ---------------------------
(***************************************************************************)
(* Proofs about Channel, for any number of processes, services and         *)
(* requests and any capacity of the queues.                                *)
(*                                                                         *)
(* The invariants build on each other: Typed (TypeOK and the Shape of the  *)
(* records) is inductive by itself; Ordered adds InOrder and that requests *)
(* are numbered as they are made (Unsent); Answering adds that each        *)
(* pending request is stale or one its process waits for (Fresh), and      *)
(* gives AnswerMatches.  When pids are not used again Awaited says that    *)
(* none is stale (Awaits), and Counted that each command under way is in   *)
(* one place, a message or a service at work (Tokens): by counting,        *)
(* ReplyNeverBlocks.                                                       *)
(***************************************************************************)
EXTENDS Channel, WellFoundedInduction, SequenceTheorems, FiniteSetTheorems, TLAPS

(* The names of the services differ in the first four bytes, so that each  *)
(* has a queue of its own.                                                 *)
DistinctKeys == \A s, t \in Services : service_key(s) = service_key(t) => s = t

-----------------------------------------------------------------------------
(* Queues                                                                  *)

(* A pid is not the type of requests.                                      *)
LEMMA RequestIsNoPid == Request \notin Procs /\ Pids \cap Services = {}
BY ChannelAssumption DEF Request, Procs, Pids

(* The messages of a queue have numbers.                                   *)
LEMMA MessageIds ==
  ASSUME NEW q \in Seq(Message), NEW i \in 1 .. Len(q)
  PROVE  q[i] \in Message /\ q[i].id \in Nat
<1>1. q[i] \in Message
  OBVIOUS
<1> QED
  BY <1>1 DEF Message, Ids

(* Queue r is q without message i, and f gives the old place of each       *)
(* message of r.                                                           *)
Shift(q, r, i, f) ==
  /\ f \in [1 .. Len(q) - 1 -> (1 .. Len(q)) \ {i}]
  /\ \A j \in 1 .. Len(q) - 1 : r[j] = q[f[j]]
  /\ \A j, l \in 1 .. Len(q) - 1 : j < l => f[j] < f[l]
  /\ \A o \in (1 .. Len(q)) \ {i} : \E j \in 1 .. Len(q) - 1 : f[j] = o

(* msgrcv closes the gap.                                                  *)
LEMMA RemoveShift ==
  ASSUME NEW q \in Seq(Message), NEW i \in 1 .. Len(q)
  PROVE  /\ RemoveAt(q, i) \in Seq(Message)
         /\ Len(RemoveAt(q, i)) = Len(q) - 1
         /\ \E f : Shift(q, RemoveAt(q, i), i, f)
<1> DEFINE n == Len(q)
           a == SubSeq(q, 1, i - 1)
           b == SubSeq(q, i + 1, n)
           f == [j \in 1 .. n - 1 |-> IF j < i THEN j ELSE j + 1]
<1>1. n \in Nat /\ i \in Nat /\ 1 <= i /\ i <= n
  OBVIOUS
<1>2. /\ a \in Seq(Message) /\ Len(a) = i - 1
      /\ \A j \in 1 .. i - 1 : a[j] = q[j]
  BY <1>1
<1>3. /\ b \in Seq(Message) /\ Len(b) = n - i
      /\ \A j \in 1 .. n - i : b[j] = q[i + j]
  BY <1>1
<1> HIDE DEF a, b
<1>4. /\ a \o b \in Seq(Message) /\ Len(a \o b) = n - 1
      /\ \A j \in 1 .. n - 1 : (a \o b)[j] = IF j <= i - 1 THEN a[j] ELSE b[j - (i - 1)]
  <2>1. /\ a \o b \in Seq(Message) /\ Len(a \o b) = Len(a) + Len(b)
        /\ \A j \in 1 .. Len(a) + Len(b) :
             (a \o b)[j] = IF j <= Len(a) THEN a[j] ELSE b[j - Len(a)]
    BY <1>2, <1>3, ConcatProperties
  <2>2. Len(a) + Len(b) = n - 1
    BY <1>1, <1>2, <1>3
  <2> QED
    BY <1>2, <2>1, <2>2
<1>5. RemoveAt(q, i) = a \o b
  BY DEF RemoveAt, a, b
<1>6. f \in [1 .. n - 1 -> (1 .. n) \ {i}]
  BY <1>1
<1>7. ASSUME NEW j \in 1 .. n - 1 PROVE (a \o b)[j] = q[f[j]]
  <2>1. CASE j < i
    <3>1. j \in 1 .. i - 1 /\ f[j] = j
      BY <1>1, <2>1
    <3> QED
      BY <1>2, <1>4, <3>1
  <2>2. CASE ~(j < i)
    <3>1. j - (i - 1) \in 1 .. n - i /\ f[j] = j + 1 /\ ~(j <= i - 1)
      BY <1>1, <2>2
    <3>2. i + (j - (i - 1)) = j + 1
      BY <1>1
    <3>3. b[j - (i - 1)] = q[i + (j - (i - 1))]
      BY <1>3, <3>1
    <3>4. b[j - (i - 1)] = q[j + 1]
      BY <3>2, <3>3
    <3> QED
      BY <1>4, <3>1, <3>4
  <2> QED
    BY <2>1, <2>2
<1>8. \A j, l \in 1 .. n - 1 : j < l => f[j] < f[l]
  BY <1>1
<1>9. ASSUME NEW o \in (1 .. n) \ {i} PROVE \E j \in 1 .. n - 1 : f[j] = o
  <2>1. CASE o < i
    <3>1. o \in 1 .. n - 1 /\ f[o] = o
      BY <1>1, <2>1
    <3> QED
      BY <3>1
  <2>2. CASE o > i
    <3>1. o - 1 \in 1 .. n - 1 /\ f[o - 1] = o
      BY <1>1, <2>2
    <3> QED
      BY <3>1
  <2> QED
    BY <1>1, <2>1, <2>2
<1> HIDE DEF f
<1>10. Shift(q, a \o b, i, f)
  BY <1>6, <1>7, <1>8, <1>9 DEF Shift
<1> QED
  BY <1>4, <1>5, <1>10

(* What is left in r of the requests and replies of p in q when message i  *)
(* is taken: they keep their order.                                        *)
Left(q, r, i, p) ==
  /\ {r[j].id : j \in Replies(r, p) \cup Requests(r, p)} =
       {q[o].id : o \in (Replies(q, p) \cup Requests(q, p)) \ {i}}
  /\ \A j, l \in Replies(r, p) : j < l => r[j].id < r[l].id
  /\ \A j, l \in Requests(r, p) : j < l => r[j].id < r[l].id
  /\ \A j \in Replies(r, p) : \A l \in Requests(r, p) : r[j].id < r[l].id
  /\ \A j \in Replies(r, p) : \E o \in Replies(q, p) \ {i} : r[j].id = q[o].id
  /\ \A j \in Requests(r, p) : \E o \in Requests(q, p) \ {i} : r[j].id = q[o].id

LEMMA RemoveKeeps ==
  ASSUME NEW q \in Seq(Message), NEW i \in 1 .. Len(q), NEW p \in Procs,
         NEW h, NEW P, InTurn(q, h, P, p), NEW r, r = RemoveAt(q, i)
  PROVE  Left(q, r, i, p)
<1>1. r \in Seq(Message) /\ Len(r) = Len(q) - 1
  BY RemoveShift
<1>2. PICK f : Shift(q, r, i, f)
  BY RemoveShift
<1>3. \A j \in Replies(r, p) : f[j] \in Replies(q, p) \ {i} /\ r[j] = q[f[j]]
  BY <1>1, <1>2 DEF Replies, Shift
<1>4. \A j \in Requests(r, p) : f[j] \in Requests(q, p) \ {i} /\ r[j] = q[f[j]]
  BY <1>1, <1>2 DEF Requests, Shift
<1>5. ASSUME NEW o \in Replies(q, p) \ {i} PROVE \E j \in Replies(r, p) : r[j] = q[o]
  <2>1. PICK j \in 1 .. Len(q) - 1 : f[j] = o
    BY <1>2 DEF Shift, Replies
  <2>2. r[j] = q[o] /\ j \in 1 .. Len(r)
    BY <1>1, <1>2, <2>1 DEF Shift
  <2> QED
    BY <2>2 DEF Replies
<1>6. ASSUME NEW o \in Requests(q, p) \ {i} PROVE \E j \in Requests(r, p) : r[j] = q[o]
  <2>1. PICK j \in 1 .. Len(q) - 1 : f[j] = o
    BY <1>2 DEF Shift, Requests
  <2>2. r[j] = q[o] /\ j \in 1 .. Len(r)
    BY <1>1, <1>2, <2>1 DEF Shift
  <2> QED
    BY <2>2 DEF Requests
<1>7. {r[j].id : j \in Replies(r, p) \cup Requests(r, p)} =
              {q[o].id : o \in (Replies(q, p) \cup Requests(q, p)) \ {i}}
  BY <1>3, <1>4, <1>5, <1>6
<1>8. \A j, l \in Replies(r, p) \cup Requests(r, p) : j < l => f[j] < f[l]
  BY <1>1, <1>2 DEF Replies, Requests, Shift
<1>9. /\ \A j, l \in Replies(r, p) : j < l => r[j].id < r[l].id
      /\ \A j, l \in Requests(r, p) : j < l => r[j].id < r[l].id
      /\ \A j \in Replies(r, p) : \A l \in Requests(r, p) : r[j].id < r[l].id
  BY <1>3, <1>4, <1>8 DEF InTurn
<1> QED
  BY <1>3, <1>4, <1>7, <1>9 DEF Left

(* A message that is neither a reply to p nor a request of p is taken.     *)
LEMMA RemoveOther ==
  ASSUME NEW q \in Seq(Message), NEW i \in 1 .. Len(q), NEW p \in Procs,
         NEW h, NEW P, InTurn(q, h, P, p), i \notin Replies(q, p), i \notin Requests(q, p)
  PROVE  InTurn(RemoveAt(q, i), h, P, p)
<1> DEFINE r == RemoveAt(q, i)
<1>1. r = RemoveAt(q, i)
  OBVIOUS
<1> HIDE DEF r
<1>2. (Replies(q, p) \cup Requests(q, p)) \ {i} = Replies(q, p) \cup Requests(q, p)
  OBVIOUS
<1>3. Left(q, r, i, p)
  BY <1>1, RemoveKeeps
<1>4. InTurn(r, h, P, p)
  BY <1>2, <1>3 DEF InTurn, Left
<1> QED
  BY <1>1, <1>4

(* p takes its first reply.                                                *)
LEMMA RemoveReply ==
  ASSUME NEW q \in Seq(Message), NEW p \in Procs, NEW i \in Replies(q, p),
         NEW h, NEW P, InTurn(q, h, P, p), \A j \in Replies(q, p) : i <= j
  PROVE  InTurn(RemoveAt(q, i), h, P \ {q[i].id}, p)
<1> DEFINE r == RemoveAt(q, i)
<1>1. r = RemoveAt(q, i) /\ i \in 1 .. Len(q)
  BY DEF Replies
<1> HIDE DEF r
<1>2. i \notin Requests(q, p)
  BY RequestIsNoPid DEF Replies, Requests
<1>3. \A j \in Replies(q, p) \cup Requests(q, p) : q[j].id \in Int
  BY MessageIds DEF Replies, Requests
<1>4. \A j \in (Replies(q, p) \cup Requests(q, p)) \ {i} : q[j].id # q[i].id
  <2>1. ASSUME NEW j \in Replies(q, p), j # i PROVE q[i].id < q[j].id
    <3>1. i < j
      BY <2>1 DEF Replies
    <3> QED
      BY <3>1 DEF InTurn
  <2>2. ASSUME NEW j \in Requests(q, p) PROVE q[i].id < q[j].id
    BY DEF InTurn
  <2> QED
    BY <1>3, <2>1, <2>2
<1>5. q[i].id \notin h
  <2>1. \A x \in h : q[i].id < x
    BY DEF InTurn
  <2> QED
    BY <1>3, <2>1
<1>6. P \ {q[i].id} = {q[j].id : j \in (Replies(q, p) \cup Requests(q, p)) \ {i}} \cup h
  BY <1>4, <1>5 DEF InTurn
<1>7. Left(q, r, i, p)
  BY <1>1, RemoveKeeps
<1>8. InTurn(r, h, P \ {q[i].id}, p)
  BY <1>6, <1>7 DEF InTurn, Left
<1> QED
  BY <1>1, <1>8

(* A service takes the first request of p.                                 *)
LEMMA RemoveRequest ==
  ASSUME NEW q \in Seq(Message), NEW p \in Procs, NEW i \in Requests(q, p),
         NEW P, InTurn(q, {}, P, p), \A j \in Requests(q, p) : i <= j
  PROVE  InTurn(RemoveAt(q, i), {q[i].id}, P, p)
<1> DEFINE r == RemoveAt(q, i)
<1>1. r = RemoveAt(q, i) /\ i \in 1 .. Len(q)
  BY DEF Requests
<1> HIDE DEF r
<1>2. P = {q[j].id : j \in (Replies(q, p) \cup Requests(q, p)) \ {i}} \cup {q[i].id}
  BY DEF InTurn
<1>3. \A j \in Replies(q, p) \ {i} : q[j].id < q[i].id
  BY DEF InTurn
<1>4. ASSUME NEW j \in Requests(q, p) \ {i} PROVE q[i].id < q[j].id
  <2>1. i < j
    BY DEF Requests
  <2> QED
    BY <2>1 DEF InTurn
<1>5. Left(q, r, i, p)
  BY <1>1, RemoveKeeps
<1>6. InTurn(r, {q[i].id}, P, p)
  BY <1>2, <1>3, <1>4, <1>5 DEF InTurn, Left
<1> QED
  BY <1>1, <1>6

(* msgsnd puts a message last.                                             *)
LEMMA AppendPlaces ==
  ASSUME NEW q \in Seq(Message), NEW m \in Message, NEW p \in Procs
  PROVE  /\ Append(q, m) \in Seq(Message) /\ Len(Append(q, m)) = Len(q) + 1
         /\ \A i \in 1 .. Len(q) : Append(q, m)[i] = q[i]
         /\ Append(q, m)[Len(q) + 1] = m
         /\ Replies(Append(q, m), p) =
              IF m.dst = p THEN Replies(q, p) \cup {Len(q) + 1} ELSE Replies(q, p)
         /\ Requests(Append(q, m), p) =
              IF m.dst = Request /\ m.src = p
                THEN Requests(q, p) \cup {Len(q) + 1} ELSE Requests(q, p)
<1>1. /\ Append(q, m) \in Seq(Message) /\ Len(Append(q, m)) = Len(q) + 1
      /\ \A i \in 1 .. Len(q) : Append(q, m)[i] = q[i]
      /\ Append(q, m)[Len(q) + 1] = m
  BY AppendProperties
<1>2. Len(q) \in Nat /\ 1 .. Len(q) + 1 = (1 .. Len(q)) \cup {Len(q) + 1}
  OBVIOUS
<1>3. Len(q) + 1 \notin 1 .. Len(q)
  BY <1>2
<1>4. Replies(Append(q, m), p) = IF m.dst = p THEN Replies(q, p) \cup {Len(q) + 1} ELSE Replies(q, p)
  BY <1>1, <1>2, <1>3 DEF Replies
<1>5. Requests(Append(q, m), p) =
        IF m.dst = Request /\ m.src = p
          THEN Requests(q, p) \cup {Len(q) + 1} ELSE Requests(q, p)
  BY <1>1, <1>2, <1>3 DEF Requests
<1> QED
  BY <1>1, <1>4, <1>5

(* A message that is neither a reply to p nor a request of p is sent.      *)
LEMMA AppendOther ==
  ASSUME NEW q \in Seq(Message), NEW m \in Message, NEW p \in Procs,
         m.dst # p, m.dst # Request \/ m.src # p,
         NEW h, NEW P, InTurn(q, h, P, p)
  PROVE  InTurn(Append(q, m), h, P, p)
<1>1. Replies(Append(q, m), p) = Replies(q, p) /\ Requests(Append(q, m), p) = Requests(q, p)
  BY AppendPlaces
<1>2. \A i \in Replies(q, p) \cup Requests(q, p) : Append(q, m)[i] = q[i]
  BY AppendPlaces DEF Replies, Requests
<1> QED
  BY <1>1, <1>2 DEF InTurn

(* p sends a request with a number above those of its pending ones.        *)
LEMMA AppendRequest ==
  ASSUME NEW q \in Seq(Message), NEW m \in Message, NEW p \in Procs,
         m.dst = Request, m.src = p,
         NEW h, NEW P, InTurn(q, h, P, p), \A x \in P : x < m.id
  PROVE  InTurn(Append(q, m), h, P \cup {m.id}, p)
<1> DEFINE n == Len(q) + 1
           r == Append(q, m)
<1>1. Replies(r, p) = Replies(q, p) /\ Requests(r, p) = Requests(q, p) \cup {n}
  BY AppendPlaces, RequestIsNoPid
<1>2. /\ \A i \in Replies(q, p) \cup Requests(q, p) : r[i] = q[i] /\ i < n
      /\ r[n] = m
  BY AppendPlaces DEF Replies, Requests
<1>3. \A i \in Replies(q, p) \cup Requests(q, p) : q[i].id < m.id /\ i \in Nat
  BY DEF InTurn, Replies, Requests
<1>4. \A x \in h : x < m.id
  BY DEF InTurn
<1>6. n \in Nat
  OBVIOUS
<1> HIDE DEF n, r
<1>5. P \cup {m.id} = {r[i].id : i \in Replies(r, p) \cup Requests(r, p)} \cup h
  <2>1. P = {q[i].id : i \in Replies(q, p) \cup Requests(q, p)} \cup h
    BY DEF InTurn
  <2> QED
    BY <1>1, <1>2, <2>1
<1>7. \A i, j \in Requests(r, p) : i < j => r[i].id < r[j].id
  BY <1>1, <1>2, <1>3, <1>6 DEF InTurn
<1>8. /\ \A i, j \in Replies(r, p) : i < j => r[i].id < r[j].id
      /\ \A i \in Replies(r, p) : \A j \in Requests(r, p) : r[i].id < r[j].id
      /\ \A i \in Replies(r, p) : \A x \in h : r[i].id < x
  BY <1>1, <1>2, <1>3 DEF InTurn
<1>9. \A x \in h : \A j \in Requests(r, p) : x < r[j].id
  BY <1>1, <1>2, <1>4 DEF InTurn
<1>10. \A x, y \in h : x = y
  BY DEF InTurn
<1>11. InTurn(r, h, P \cup {m.id}, p)
  BY <1>5, <1>7, <1>8, <1>9, <1>10 DEF InTurn
<1> QED
  BY <1>11 DEF r

(* The service answers the request of p it has in hand.                    *)
LEMMA AppendReply ==
  ASSUME NEW q \in Seq(Message), NEW m \in Message, NEW p \in Procs,
         m.dst = p, NEW P, InTurn(q, {m.id}, P, p)
  PROVE  InTurn(Append(q, m), {}, P, p)
<1> DEFINE n == Len(q) + 1
           r == Append(q, m)
<1>1. Requests(r, p) = Requests(q, p) /\ Replies(r, p) = Replies(q, p) \cup {n}
  BY AppendPlaces, RequestIsNoPid
<1>2. /\ \A i \in Replies(q, p) \cup Requests(q, p) : r[i] = q[i] /\ i < n /\ i \in Nat
      /\ r[n] = m
  BY AppendPlaces DEF Replies, Requests
<1>3. n \in Nat
  OBVIOUS
<1>4. /\ \A i \in Replies(q, p) : q[i].id < m.id
      /\ \A i \in Requests(q, p) : m.id < q[i].id
  BY DEF InTurn
<1> HIDE DEF n, r
<1>5. P = {r[i].id : i \in Replies(r, p) \cup Requests(r, p)} \cup {}
  <2>1. P = {q[i].id : i \in Replies(q, p) \cup Requests(q, p)} \cup {m.id}
    BY DEF InTurn
  <2> QED
    BY <1>1, <1>2, <2>1
<1>6. \A i, j \in Replies(r, p) : i < j => r[i].id < r[j].id
  BY <1>1, <1>2, <1>3, <1>4 DEF InTurn
<1>7. /\ \A i, j \in Requests(r, p) : i < j => r[i].id < r[j].id
      /\ \A i \in Replies(r, p) : \A j \in Requests(r, p) : r[i].id < r[j].id
  BY <1>1, <1>2, <1>4 DEF InTurn
<1>8. InTurn(r, {}, P, p)
  BY <1>5, <1>6, <1>7 DEF InTurn
<1> QED
  BY <1>8 DEF r

(* The service drops the request of p it has in hand.                      *)
LEMMA DropHand ==
  ASSUME NEW q \in Seq(Message), NEW p \in Procs, NEW x \in Int, NEW P, InTurn(q, {x}, P, p)
  PROVE  InTurn(q, {}, P \ {x}, p)
<1>1. \A i \in Replies(q, p) \cup Requests(q, p) : q[i].id \in Int
  BY MessageIds DEF Replies, Requests
<1>3. \A i \in Replies(q, p) \cup Requests(q, p) : q[i].id # x
  BY <1>1 DEF InTurn
<1>2. P \ {x} = {q[i].id : i \in Replies(q, p) \cup Requests(q, p)} \cup {}
  BY <1>3 DEF InTurn
<1> QED
  BY <1>2 DEF InTurn

(* The same with P the pending requests, of which those in L were lost.    *)
Turn(q, h, P, L, p) == InTurn(q, h, P \ L, p) /\ L \subseteq P

LEMMA TurnRemoveOther ==
  ASSUME NEW q \in Seq(Message), NEW i \in 1 .. Len(q), NEW p \in Procs, NEW h, NEW P, NEW L,
         Turn(q, h, P, L, p), i \notin Replies(q, p), i \notin Requests(q, p)
  PROVE  Turn(RemoveAt(q, i), h, P, L, p)
BY RemoveOther DEF Turn

LEMMA TurnRemoveReply ==
  ASSUME NEW q \in Seq(Message), NEW p \in Procs, NEW i \in Replies(q, p), NEW h, NEW P, NEW L,
         Turn(q, h, P, L, p), \A j \in Replies(q, p) : i <= j
  PROVE  Turn(RemoveAt(q, i), h, P \ {q[i].id}, L, p) /\ q[i].id \in P
<1>1. InTurn(q, h, P \ L, p) /\ L \subseteq P
  BY DEF Turn
<1>2. q[i].id \in P \ L
  BY <1>1 DEF InTurn
<1>3. InTurn(RemoveAt(q, i), h, (P \ L) \ {q[i].id}, p)
  BY <1>1, RemoveReply
<1>4. (P \ L) \ {q[i].id} = (P \ {q[i].id}) \ L
  OBVIOUS
<1> QED
  BY <1>1, <1>2, <1>3, <1>4 DEF Turn

LEMMA TurnRemoveRequest ==
  ASSUME NEW q \in Seq(Message), NEW p \in Procs, NEW i \in Requests(q, p), NEW P, NEW L,
         Turn(q, {}, P, L, p), \A j \in Requests(q, p) : i <= j
  PROVE  Turn(RemoveAt(q, i), {q[i].id}, P, L, p)
BY RemoveRequest DEF Turn

LEMMA TurnAppendOther ==
  ASSUME NEW q \in Seq(Message), NEW m \in Message, NEW p \in Procs,
         m.dst # p, m.dst # Request \/ m.src # p, NEW h, NEW P, NEW L, Turn(q, h, P, L, p)
  PROVE  Turn(Append(q, m), h, P, L, p)
BY AppendOther DEF Turn

LEMMA TurnAppendRequest ==
  ASSUME NEW q \in Seq(Message), NEW m \in Message, NEW p \in Procs,
         m.dst = Request, m.src = p, NEW h, NEW P, NEW L, Turn(q, h, P, L, p),
         \A x \in P : x < m.id
  PROVE  Turn(Append(q, m), h, P \cup {m.id}, L, p)
<1>1. InTurn(q, h, P \ L, p) /\ L \subseteq P
  BY DEF Turn
<1>2. m.id \notin P
  BY DEF Message, Ids
<1>3. \A x \in P \ L : x < m.id
  OBVIOUS
<1>4. InTurn(Append(q, m), h, (P \ L) \cup {m.id}, p)
  BY <1>1, <1>3, AppendRequest
<1>5. (P \ L) \cup {m.id} = (P \cup {m.id}) \ L
  BY <1>1, <1>2
<1> QED
  BY <1>1, <1>4, <1>5 DEF Turn

LEMMA TurnAppendReply ==
  ASSUME NEW q \in Seq(Message), NEW m \in Message, NEW p \in Procs,
         m.dst = p, NEW P, NEW L, Turn(q, {m.id}, P, L, p)
  PROVE  Turn(Append(q, m), {}, P, L, p)
BY AppendReply DEF Turn

LEMMA TurnDropHand ==
  ASSUME NEW q \in Seq(Message), NEW p \in Procs, NEW x \in Int, NEW P, NEW L,
         Turn(q, {x}, P, L, p)
  PROVE  Turn(q, {}, P \ {x}, L, p)
<1>1. InTurn(q, {x}, P \ L, p) /\ L \subseteq P
  BY DEF Turn
<1>2. x \in P \ L
  BY <1>1 DEF InTurn
<1>3. InTurn(q, {}, (P \ L) \ {x}, p)
  BY <1>1, DropHand
<1>4. (P \ L) \ {x} = (P \ {x}) \ L
  OBVIOUS
<1> QED
  BY <1>1, <1>2, <1>3, <1>4 DEF Turn

(* The service crashes with the request of p in hand.                      *)
LEMMA TurnLoseHand ==
  ASSUME NEW q \in Seq(Message), NEW p \in Procs, NEW x \in Int, NEW P, NEW L,
         Turn(q, {x}, P, L, p)
  PROVE  Turn(q, {}, P, L \cup {x}, p)
<1>1. InTurn(q, {x}, P \ L, p) /\ L \subseteq P
  BY DEF Turn
<1>2. x \in P
  BY <1>1 DEF InTurn
<1>3. InTurn(q, {}, (P \ L) \ {x}, p)
  BY <1>1, DropHand
<1>4. (P \ L) \ {x} = P \ (L \cup {x})
  OBVIOUS
<1> QED
  BY <1>1, <1>2, <1>3, <1>4 DEF Turn

-----------------------------------------------------------------------------
(* The shape of the state                                                  *)

(* What is known of a client and of a service from where it is.            *)
PShape(r, p) ==
  /\ r.st \in {"send", "receive", "poll"} => r.to \in Services
  /\ r.st = "send" => r.op \in {"send", "ask", "tell"} /\ r.id \in Ids
  /\ r.op = "tell" => p \in Children
  /\ r.st = "poll" => r.op = "tell"

SShape(v) ==
  /\ v.msg = Null <=> v.st \in {"down", "receive"}
  /\ v.st \in {"asksend", "askreceive"} => v.to \in Services /\ v.ask \in Ids /\ Calls # {}

Shape ==
  /\ \A p \in Pids : PShape(proc[p], p)
  /\ \A s \in Services : SShape(svc[s])

(* The type invariant is inductive together with the shape.                *)
Typed == TypeOK /\ Shape

LEMMA KeyOf == \A s \in Services : service_key(s) \in Keys
BY ChannelAssumption DEF service_key

LEMMA LeastNat ==
  ASSUME NEW T, T \subseteq Nat, T # {}
  PROVE  \E x \in T : \A y \in T : x <= y
<1> DEFINE R == OpToRel(<, Nat)
<1>1. IsWellFoundedOn(R, Nat)
  BY NatLessThanWellFounded
<1>2. \A x, y \in Nat : y < x => <<y, x>> \in R
  BY DEF OpToRel
<1> HIDE DEF R
<1>3. PICK x \in T : \A y \in T : ~(<<y, x>> \in R)
  BY <1>1, WFMin
<1>4. \A y \in T : ~(y < x)
  BY <1>2, <1>3
<1> QED
  BY <1>4

(* msgrcv finds the first message of the type.                             *)
LEMMA FirstOfIsFirst ==
  ASSUME NEW k, NEW type, Waiting(k, type) # {}
  PROVE  /\ FirstOf(k, type) \in Waiting(k, type)
         /\ \A j \in Waiting(k, type) : FirstOf(k, type) <= j
<1>1. Waiting(k, type) \subseteq Nat
  BY DEF Waiting
<1>2. \E i \in Waiting(k, type) : \A j \in Waiting(k, type) : i <= j
  BY <1>1, LeastNat
<1> QED
  BY <1>2 DEF FirstOf

(* The values a process or a service is given.                             *)
LEMMA Values ==
  /\ Idle \in ProcType /\ Idle.st = "idle" /\ Idle.op = "none"
  /\ Dead \in ProcType /\ Dead.st = "none" /\ Dead.op = "none"
  /\ Zombie \in ProcType /\ Zombie.st = "zombie" /\ Zombie.op = "none"
  /\ Ready \in SvcType /\ Ready.st = "receive" /\ Ready.msg = Null
  /\ Down \in SvcType /\ Down.st = "down" /\ Down.msg = Null
<1>1. 0 \in 0 .. MaxRequests /\ 0 \in 0 .. TimeLimit - 1
  BY ChannelAssumption
<1>2. Idle \in ProcType /\ Idle.st = "idle" /\ Idle.op = "none"
  BY <1>1 DEF Idle, ProcType
<1>3. Dead \in ProcType /\ Dead.st = "none" /\ Dead.op = "none"
  BY <1>1 DEF Idle, Dead, ProcType
<1>4. Zombie \in ProcType /\ Zombie.st = "zombie" /\ Zombie.op = "none"
  BY <1>1 DEF Idle, Zombie, ProcType
<1>5. Ready \in SvcType /\ Ready.st = "receive" /\ Ready.msg = Null
  BY <1>1 DEF Ready, SvcType
<1>6. Down \in SvcType /\ Down.st = "down" /\ Down.msg = Null
  BY <1>1 DEF Ready, Down, SvcType
<1> QED
  BY <1>2, <1>3, <1>4, <1>5, <1>6

LEMMA ValuesShape ==
  /\ \A p : PShape(Idle, p) /\ PShape(Dead, p) /\ PShape(Zombie, p)
  /\ SShape(Ready) /\ SShape(Down)
BY Values DEF PShape, SShape

(* A process changes as a whole, and stays well shaped.                    *)
LEMMA ProcUpdate ==
  ASSUME Typed, NEW p \in Pids, NEW v \in ProcType, PShape(v, p),
         proc' = [proc EXCEPT ![p] = v]
  PROVE  proc' \in [Pids -> ProcType] /\ \A q \in Pids : PShape(proc'[q], q)
<1>1. proc \in [Pids -> ProcType] /\ \A q \in Pids : PShape(proc[q], q)
  BY DEF Typed, TypeOK, Shape
<1>2. proc' \in [Pids -> ProcType]
  BY <1>1
<1>3. ASSUME NEW q \in Pids PROVE PShape(proc'[q], q)
  BY <1>1
<1> QED
  BY <1>2, <1>3

LEMMA SvcUpdate ==
  ASSUME Typed, NEW s \in Services, NEW v \in SvcType, SShape(v),
         svc' = [svc EXCEPT ![s] = v]
  PROVE  svc' \in [Services -> SvcType] /\ \A t \in Services : SShape(svc'[t])
<1>1. svc \in [Services -> SvcType] /\ \A t \in Services : SShape(svc[t])
  BY DEF Typed, TypeOK, Shape
<1>2. svc' \in [Services -> SvcType]
  BY <1>1
<1>3. ASSUME NEW t \in Services PROVE SShape(svc'[t])
  BY <1>1
<1> QED
  BY <1>2, <1>3

(* The queues and the history after msgsnd and msgrcv.                     *)
QueuesTyped ==
  /\ queue \in [Keys -> Seq(Message)]
  /\ \A k \in Keys : Len(queue[k]) <= Capacity
  /\ pending \in [Keys -> [Procs -> SUBSET Ids]]

(* And the rest of the history.                                            *)
HistoryTyped ==
  /\ lost \in [Keys -> [Procs -> SUBSET Ids]]
  /\ stale \in [Pids -> 0 .. MaxRequests]

LEMMA SendTyped ==
  ASSUME TypeOK, NEW k \in Keys, NEW m \in Message, Room(k),
         queue' = [queue EXCEPT ![k] = Append(@, m)]
  PROVE  queue' \in [Keys -> Seq(Message)] /\ \A l \in Keys : Len(queue'[l]) <= Capacity
<1>1. queue \in [Keys -> Seq(Message)] /\ \A l \in Keys : Len(queue[l]) <= Capacity
  BY DEF TypeOK
<1>2. Append(queue[k], m) \in Seq(Message) /\ Len(Append(queue[k], m)) = Len(queue[k]) + 1
  BY <1>1, AppendProperties
<1>3. Len(queue[k]) + 1 <= Capacity
  BY <1>1, ChannelAssumption DEF Room
<1> QED
  BY <1>1, <1>2, <1>3

LEMMA TakeTyped ==
  ASSUME TypeOK, NEW k \in Keys, NEW type, Waiting(k, type) # {},
         queue' = [queue EXCEPT ![k] = Take(k, type)]
  PROVE  /\ queue' \in [Keys -> Seq(Message)] /\ \A l \in Keys : Len(queue'[l]) <= Capacity
         /\ FirstOf(k, type) \in 1 .. Len(queue[k])
         /\ queue[k][FirstOf(k, type)] \in Message
         /\ queue[k][FirstOf(k, type)].dst = type
<1>1. queue \in [Keys -> Seq(Message)] /\ \A l \in Keys : Len(queue[l]) <= Capacity
  BY DEF TypeOK
<1>2. FirstOf(k, type) \in 1 .. Len(queue[k]) /\ queue[k][FirstOf(k, type)].dst = type
  BY FirstOfIsFirst DEF Waiting
<1>3. Take(k, type) \in Seq(Message) /\ Len(Take(k, type)) = Len(queue[k]) - 1
  BY <1>1, <1>2, RemoveShift DEF Take
<1>4. Len(queue[k]) - 1 <= Capacity
  BY <1>1, ChannelAssumption
<1>5. queue[k][FirstOf(k, type)] \in Message
  BY <1>1, <1>2, MessageIds
<1> QED
  BY <1>1, <1>2, <1>3, <1>4, <1>5

LEMMA SendRequestTyped ==
  ASSUME TypeOK, NEW p \in Procs, NEW s \in Services, NEW id \in Ids, SendRequest(p, s, id)
  PROVE  QueuesTyped'
<1> DEFINE k == service_key(s)
           m == [dst |-> Request, src |-> p, id |-> id, to |-> s]
<1>1. k \in Keys /\ m \in Message
  BY KeyOf DEF Message
<1>2. Room(k) /\ queue' = [queue EXCEPT ![k] = Append(@, m)]
  BY DEF SendRequest
<1>3. queue' \in [Keys -> Seq(Message)] /\ \A l \in Keys : Len(queue'[l]) <= Capacity
  BY <1>1, <1>2, SendTyped
<1>4. pending' \in [Keys -> [Procs -> SUBSET Ids]]
  BY <1>1 DEF SendRequest, TypeOK
<1> QED
  BY <1>3, <1>4 DEF QueuesTyped

LEMMA ReceiveReplyTyped ==
  ASSUME TypeOK, NEW p \in Procs, NEW s \in Services, ReceiveReply(p, s)
  PROVE  QueuesTyped'
<1> DEFINE k == service_key(s)
<1>1. k \in Keys
  BY KeyOf
<1>2. Waiting(k, p) # {} /\ queue' = [queue EXCEPT ![k] = Take(k, p)]
  BY DEF ReceiveReply
<1>3. queue' \in [Keys -> Seq(Message)] /\ \A l \in Keys : Len(queue'[l]) <= Capacity
  BY <1>1, <1>2, TakeTyped
<1>4. pending' \in [Keys -> [Procs -> SUBSET Ids]]
  BY <1>1 DEF ReceiveReply, TypeOK
<1> QED
  BY <1>3, <1>4 DEF QueuesTyped

(* The records the actions make.                                           *)
SendRec(op, s, id) == [Idle EXCEPT !.st = "send", !.op = op, !.to = s, !.id = id]
ReceiveRec(s)      == [Idle EXCEPT !.st = "receive", !.op = "receive", !.to = s]
Moved(r, st)       == [r EXCEPT !.st = st]
Took(r, m)         == [r EXCEPT !.st = "check", !.msg = m]
Asks(r, id, t)     == [r EXCEPT !.st = "asksend", !.ask = id, !.to = t]
Answered(r)        == [r EXCEPT !.st = "reply", !.ask = 0, !.to = Null]

(* A process that enters msgsnd or msgrcv.                                 *)
LEMMA Sending ==
  ASSUME NEW op \in {"send", "ask", "tell"}, NEW s \in Services, NEW id \in Ids
  PROVE  /\ SendRec(op, s, id) \in ProcType /\ SendRec(op, s, id).st = "send"
         /\ SendRec(op, s, id).op = op /\ SendRec(op, s, id).to = s /\ SendRec(op, s, id).id = id
<1>1. id \in 0 .. MaxRequests /\ 0 \in 0 .. TimeLimit - 1
  BY ChannelAssumption DEF Ids
<1> QED
  BY <1>1 DEF Idle, ProcType, SendRec

LEMMA Receiving ==
  ASSUME NEW s \in Services
  PROVE  /\ ReceiveRec(s) \in ProcType /\ ReceiveRec(s).st = "receive"
         /\ ReceiveRec(s).op = "receive" /\ ReceiveRec(s).to = s
<1>1. 0 \in 0 .. MaxRequests /\ 0 \in 0 .. TimeLimit - 1
  BY ChannelAssumption
<1> QED
  BY <1>1 DEF Idle, ProcType, ReceiveRec

(* What the command does after its msgsnd.                                 *)
LEMMA Sent ==
  ASSUME Typed, NEW p \in Pids, proc[p].st = "send"
  PROVE  /\ AfterSend(p) \in ProcType /\ PShape(AfterSend(p), p)
         /\ \/ /\ proc[p].op = "send"
               /\ AfterSend(p).st = "idle" /\ AfterSend(p).op = "none"
            \/ /\ proc[p].op \in {"ask", "tell"} /\ AfterSend(p).op = proc[p].op
               /\ AfterSend(p).st \in {"receive", "poll"}
               /\ AfterSend(p).id = proc[p].id /\ AfterSend(p).to = proc[p].to
<1>1. proc[p] \in ProcType /\ PShape(proc[p], p)
  BY DEF Typed, TypeOK, Shape
<1>2. proc[p].op \in {"send", "ask", "tell"} /\ proc[p].to \in Services
  BY <1>1 DEF PShape
<1>3. CASE proc[p].op = "send"
  <2>1. AfterSend(p) = Idle
    BY <1>3 DEF AfterSend
  <2> QED
    BY <1>3, <2>1, Values, ValuesShape
<1>4. CASE proc[p].op = "ask"
  <2>1. AfterSend(p) = [proc[p] EXCEPT !.st = "receive"]
    BY <1>4 DEF AfterSend
  <2>2. /\ AfterSend(p) \in ProcType /\ AfterSend(p).st = "receive" /\ AfterSend(p).op = "ask"
        /\ AfterSend(p).to = proc[p].to /\ AfterSend(p).id = proc[p].id
    BY <1>1, <1>4, <2>1 DEF ProcType
  <2>3. PShape(AfterSend(p), p)
    BY <1>2, <2>2 DEF PShape
  <2> QED
    BY <1>4, <2>2, <2>3
<1>5. CASE proc[p].op = "tell"
  <2>1. AfterSend(p) = [proc[p] EXCEPT !.st = "poll"]
    BY <1>5 DEF AfterSend
  <2>2. /\ AfterSend(p) \in ProcType /\ AfterSend(p).st = "poll" /\ AfterSend(p).op = "tell"
        /\ AfterSend(p).to = proc[p].to /\ AfterSend(p).id = proc[p].id
    BY <1>1, <1>5, <2>1 DEF ProcType
  <2>3. PShape(AfterSend(p), p)
    BY <1>1, <1>2, <1>5, <2>2 DEF PShape
  <2> QED
    BY <1>5, <2>2, <2>3
<1> QED
  BY <1>2, <1>3, <1>4, <1>5

(* An exited child is gone or a zombie.                                    *)
LEMMA ExitedIs ==
  ASSUME NEW c
  PROVE  /\ Exited(c) \in ProcType /\ PShape(Exited(c), c) /\ Exited(c).op = "none"
         /\ Exited(c).st \in {"none", "zombie"}
         /\ parent[c] # Null => Exited(c).st = "zombie"
BY Values, ValuesShape DEF Exited

(* A poll finds nothing.                                                   *)
PollNext(c) == IF Again(c) THEN [proc[c] EXCEPT !.elapsed = Elapsed(c)] ELSE Exited(c)

LEMMA PollNextIs ==
  ASSUME Typed, NEW c \in Pids, proc[c].st = "poll"
  PROVE  /\ PollNext(c) \in ProcType /\ PShape(PollNext(c), c)
         /\ \/ /\ PollNext(c).st = "poll" /\ PollNext(c).op = proc[c].op
               /\ PollNext(c).id = proc[c].id /\ PollNext(c).to = proc[c].to
            \/ PollNext(c) = Exited(c)
<1>1. proc[c] \in ProcType /\ PShape(proc[c], c)
  BY DEF Typed, TypeOK, Shape
<1>2. CASE Again(c)
  <2>1. PollNext(c) = [proc[c] EXCEPT !.elapsed = Elapsed(c)]
    BY <1>2 DEF PollNext
  <2>2. Elapsed(c) \in 0 .. TimeLimit - 1
    BY <1>1, <1>2, ChannelAssumption DEF Again, Elapsed, ProcType
  <2>3. /\ PollNext(c) \in ProcType /\ PollNext(c).st = "poll" /\ PollNext(c).op = proc[c].op
        /\ PollNext(c).id = proc[c].id /\ PollNext(c).to = proc[c].to
    BY <1>1, <2>1, <2>2 DEF ProcType
  <2>4. PShape(PollNext(c), c)
    BY <1>1, <2>3 DEF PShape
  <2> QED
    BY <2>3, <2>4
<1>3. CASE ~Again(c)
  BY <1>3, ExitedIs DEF PollNext
<1> QED
  BY <1>2, <1>3

(* A service that takes a request, or goes on with the one it has in hand. *)
LEMMA SvcTakes ==
  ASSUME Typed, NEW s \in Services, NEW m \in Message
  PROVE  /\ Took(svc[s], m) \in SvcType /\ SShape(Took(svc[s], m))
         /\ Took(svc[s], m).st = "check" /\ Took(svc[s], m).msg = m
<1>1. svc[s] \in SvcType
  BY DEF Typed, TypeOK
<1>2. Took(svc[s], m) \in SvcType /\ Took(svc[s], m).st = "check" /\ Took(svc[s], m).msg = m
  BY <1>1 DEF SvcType, Took
<1> QED
  BY <1>2, NullAssumption DEF SShape

LEMMA SvcInHand ==
  ASSUME Typed, NEW s \in Services, svc[s].st \notin {"down", "receive"}
  PROVE  svc[s].msg \in Message /\ svc[s].msg # Null
<1>1. svc[s] \in SvcType /\ SShape(svc[s])
  BY DEF Typed, TypeOK, Shape
<1>2. svc[s].msg # Null
  BY <1>1 DEF SShape
<1> QED
  BY <1>1, <1>2 DEF SvcType

LEMMA SvcGoesOn ==
  ASSUME Typed, NEW s \in Services, svc[s].st \notin {"down", "receive"},
         NEW st \in {"eval", "reply"}
  PROVE  /\ Moved(svc[s], st) \in SvcType /\ SShape(Moved(svc[s], st))
         /\ Moved(svc[s], st).st = st /\ Moved(svc[s], st).msg = svc[s].msg
<1>1. svc[s] \in SvcType
  BY DEF Typed, TypeOK
<1>2. /\ Moved(svc[s], st) \in SvcType
      /\ Moved(svc[s], st).st = st /\ Moved(svc[s], st).msg = svc[s].msg
  BY <1>1 DEF SvcType, Moved
<1> QED
  BY <1>2, SvcInHand DEF SShape

LEMMA SvcAsks ==
  ASSUME Typed, NEW s \in Services, svc[s].st \notin {"down", "receive"},
         NEW t \in Services, NEW id \in Ids, Calls # {}
  PROVE  /\ Asks(svc[s], id, t) \in SvcType /\ SShape(Asks(svc[s], id, t))
         /\ Asks(svc[s], id, t).st = "asksend" /\ Asks(svc[s], id, t).msg = svc[s].msg
         /\ Asks(svc[s], id, t).ask = id /\ Asks(svc[s], id, t).to = t
<1>1. svc[s] \in SvcType /\ Ids \subseteq 0 .. MaxRequests
  BY DEF Typed, TypeOK, Ids
<1>2. /\ Asks(svc[s], id, t) \in SvcType
      /\ Asks(svc[s], id, t).st = "asksend" /\ Asks(svc[s], id, t).msg = svc[s].msg
      /\ Asks(svc[s], id, t).ask = id /\ Asks(svc[s], id, t).to = t
  BY <1>1 DEF SvcType, Asks
<1> QED
  BY <1>2, SvcInHand DEF SShape

LEMMA SvcAnswered ==
  ASSUME Typed, NEW s \in Services, svc[s].st \notin {"down", "receive"}
  PROVE  /\ Answered(svc[s]) \in SvcType /\ SShape(Answered(svc[s]))
         /\ Answered(svc[s]).st = "reply" /\ Answered(svc[s]).msg = svc[s].msg
<1>1. svc[s] \in SvcType /\ 0 \in 0 .. MaxRequests
  BY ChannelAssumption DEF Typed, TypeOK
<1>2. /\ Answered(svc[s]) \in SvcType
      /\ Answered(svc[s]).st = "reply" /\ Answered(svc[s]).msg = svc[s].msg
  BY <1>1 DEF SvcType, Answered
<1> QED
  BY <1>2, SvcInHand DEF SShape

(* The ask of a service that has sent it.                                  *)
LEMMA SvcWaits ==
  ASSUME Typed, NEW s \in Services, svc[s].st = "asksend", NEW v, v = Moved(svc[s], "askreceive")
  PROVE  /\ v \in SvcType /\ SShape(v) /\ v.st = "askreceive" /\ v.msg = svc[s].msg
         /\ v.ask = svc[s].ask /\ v.to = svc[s].to
<1>1. svc[s] \in SvcType /\ SShape(svc[s])
  BY DEF Typed, TypeOK, Shape
<1>2. /\ v \in SvcType /\ v.st = "askreceive" /\ v.msg = svc[s].msg
      /\ v.ask = svc[s].ask /\ v.to = svc[s].to
  BY <1>1 DEF SvcType, Moved
<1> QED
  BY <1>1, <1>2 DEF SShape

LEMMA TypedParts ==
  ASSUME QueuesTyped',
         proc' \in [Pids -> ProcType], \A p \in Pids : PShape(proc'[p], p),
         parent' \in [Children -> Pids \cup {Null}],
         svc' \in [Services -> SvcType], \A s \in Services : SShape(svc'[s]),
         nreq' \in 0 .. MaxRequests, HistoryTyped'
  PROVE  Typed'
BY DEF Typed, TypeOK, Shape, QueuesTyped, HistoryTyped

LEMMA NewRequestIs ==
  ASSUME TypeOK, NEW id \in Ids, NewRequest(id)
  PROVE  nreq' = id /\ nreq' = nreq + 1 /\ nreq' \in 0 .. MaxRequests
BY ChannelAssumption DEF TypeOK, NewRequest, Ids

(* The history keeps its type.                                             *)
LEMMA StaleTyped ==
  ASSUME TypeOK, lost' = lost, NEW p, NEW x \in 0 .. MaxRequests,
         stale' = stale \/ stale' = [stale EXCEPT ![p] = x]
  PROVE  HistoryTyped'
<1>1. lost \in [Keys -> [Procs -> SUBSET Ids]] /\ stale \in [Pids -> 0 .. MaxRequests]
  BY DEF TypeOK
<1>2. stale' \in [Pids -> 0 .. MaxRequests]
  BY <1>1
<1> QED
  BY <1>1, <1>2 DEF HistoryTyped

LEMMA StepHistory == Typed /\ Next => HistoryTyped'
<1> SUFFICES ASSUME Typed, Next PROVE HistoryTyped'
  OBVIOUS
<1>1. TypeOK /\ nreq \in 0 .. MaxRequests /\ Ids \subseteq 0 .. MaxRequests
  BY DEF Typed, TypeOK, Ids
<1>2. ASSUME NEW p \in Pids, ClientStep(p) \/ Kill(p) \/ Start(p) PROVE HistoryTyped'
  <2>1. lost' = lost /\ (stale' = stale \/ stale' = [stale EXCEPT ![p] = nreq])
    BY <1>2 DEF ClientStep, Msgsnd, Msgrcv, PollReply, PollSleep, Mistaken, Kill, Start
  <2> QED
    BY <1>1, <2>1, StaleTyped
<1>3. ASSUME NEW p \in Pids, NEW c \in Children, Reap(p, c) PROVE HistoryTyped'
  BY <1>1, <1>3, StaleTyped DEF Reap
<1>4. ASSUME NEW p \in Pids, NEW s \in Services,
             \/ CallSend(p, s) \/ CallReceive(p, s)
             \/ \E c \in Children : CallTell(p, c, s)
      PROVE  HistoryTyped'
  <2>1. CASE CallSend(p, s)
    <3>1. PICK id \in Ids : lost' = lost /\ (stale' = stale \/ stale' = [stale EXCEPT ![p] = id])
      BY <2>1 DEF CallSend
    <3> QED
      BY <1>1, <3>1, StaleTyped
  <2>2. CASE CallReceive(p, s)
    BY <1>1, <2>2, StaleTyped DEF CallReceive
  <2>3. ASSUME NEW c \in Children, CallTell(p, c, s) PROVE HistoryTyped'
    <3>1. lost' = lost /\ stale' = [stale EXCEPT ![c] = nreq]
      BY <2>3 DEF CallTell
    <3> QED
      BY <1>1, <3>1, StaleTyped
  <2> QED
    BY <1>4, <2>1, <2>2, <2>3
<1>5. ASSUME NEW s \in Services,
             \/ ServiceStep(s) \/ SvcCrash(s)
             \/ \E t \in Services : SvcAsk(s, t)
      PROVE  HistoryTyped'
  <2>1. CASE SvcCrash(s)
    <3>1. /\ lost \in [Keys -> [Procs -> SUBSET Ids]] /\ svc[s] \in SvcType
          /\ stale \in [Pids -> 0 .. MaxRequests] /\ stale' = stale
      BY <1>1, <2>1 DEF TypeOK, SvcCrash
    <3>2. CASE svc[s].msg = Null
      BY <2>1, <3>1, <3>2 DEF SvcCrash, HistoryTyped
    <3>3. CASE svc[s].msg # Null
      <4>1. svc[s].msg.id \in Ids
        BY <3>1, <3>3 DEF SvcType, Message
      <4>2. lost' = [lost EXCEPT ![service_key(s)][svc[s].msg.src] = @ \cup {svc[s].msg.id}]
        BY <2>1, <3>3 DEF SvcCrash
      <4>3. lost' \in [Keys -> [Procs -> SUBSET Ids]]
        BY <3>1, <4>1, <4>2
      <4> QED
        BY <3>1, <4>3 DEF HistoryTyped
    <3> QED
      BY <3>2, <3>3
  <2>2. CASE ~SvcCrash(s)
    <3>1. lost' = lost /\ stale' = stale
      BY <1>5, <2>2 DEF ServiceStep, SvcReceive, SvcCheck, SvcEval, SvcAskSend, SvcAskReceive,
                        SvcReply, SvcStart, SvcAsk
    <3> QED
      BY <1>1, <3>1, StaleTyped
  <2> QED
    BY <2>1, <2>2
<1> QED
  BY <1>2, <1>3, <1>4, <1>5 DEF Next

(* Every action of a client keeps the types and the shape.                 *)
LEMMA ClientTyped ==
  ASSUME Typed, HistoryTyped', NEW p \in Pids, ClientStep(p) \/ Kill(p) \/ Start(p)
  PROVE  Typed'
<1>1. /\ QueuesTyped /\ proc \in [Pids -> ProcType] /\ \A q \in Pids : PShape(proc[q], q)
      /\ parent \in [Children -> Pids \cup {Null}] /\ svc \in [Services -> SvcType]
      /\ (\A s \in Services : SShape(svc[s])) /\ nreq \in 0 .. MaxRequests /\ TypeOK
  BY DEF Typed, TypeOK, Shape, QueuesTyped
<1>2. p \in Procs /\ proc[p] \in ProcType /\ PShape(proc[p], p)
  BY <1>1 DEF Procs
<1>3. CASE Msgsnd(p)
  <2>1. proc[p].to \in Services /\ proc[p].id \in Ids
    BY <1>2, <1>3 DEF Msgsnd, PShape
  <2>2. QueuesTyped'
    BY <1>1, <1>2, <1>3, <2>1, SendRequestTyped DEF Msgsnd
  <2>3. proc' \in [Pids -> ProcType] /\ \A q \in Pids : PShape(proc'[q], q)
    BY <1>3, Sent, ProcUpdate DEF Msgsnd
  <2>4. parent' = parent /\ svc' = svc /\ nreq' = nreq
    BY <1>3 DEF Msgsnd
  <2> QED
    BY <1>1, <2>2, <2>3, <2>4, TypedParts
<1>4. CASE Msgrcv(p)
  <2>1. proc[p].to \in Services
    BY <1>2, <1>4 DEF Msgrcv, PShape
  <2>2. QueuesTyped'
    BY <1>1, <1>2, <1>4, <2>1, ReceiveReplyTyped DEF Msgrcv
  <2>3. proc' \in [Pids -> ProcType] /\ \A q \in Pids : PShape(proc'[q], q)
    BY <1>4, Values, ValuesShape, ProcUpdate DEF Msgrcv
  <2>4. parent' = parent /\ svc' = svc /\ nreq' = nreq
    BY <1>4 DEF Msgrcv
  <2> QED
    BY <1>1, <2>2, <2>3, <2>4, TypedParts
<1>5. CASE PollReply(p)
  <2>1. proc[p].to \in Services
    BY <1>2, <1>5 DEF PollReply, PShape
  <2>2. QueuesTyped'
    BY <1>1, <1>2, <1>5, <2>1, ReceiveReplyTyped DEF PollReply
  <2>3. proc' \in [Pids -> ProcType] /\ \A q \in Pids : PShape(proc'[q], q)
    BY <1>5, ExitedIs, ProcUpdate DEF PollReply
  <2>4. parent' = parent /\ svc' = svc /\ nreq' = nreq
    BY <1>5 DEF PollReply
  <2> QED
    BY <1>1, <2>2, <2>3, <2>4, TypedParts
<1>6. CASE PollSleep(p)
  <2>1. proc' = [proc EXCEPT ![p] = PollNext(p)]
    BY <1>1, <1>6 DEF PollSleep, PollNext
  <2>2. proc' \in [Pids -> ProcType] /\ \A q \in Pids : PShape(proc'[q], q)
    BY <1>6, <2>1, PollNextIs, ProcUpdate DEF PollSleep
  <2>3. QueuesTyped' /\ parent' = parent /\ svc' = svc /\ nreq' = nreq
    BY <1>1, <1>6 DEF PollSleep, QueuesTyped
  <2> QED
    BY <1>1, <2>2, <2>3, TypedParts
<1>7. CASE Kill(p)
  <2>1. QueuesTyped' /\ svc' = svc /\ nreq' = nreq
    BY <1>1, <1>7 DEF Kill, QueuesTyped
  <2>2. parent' \in [Children -> Pids \cup {Null}]
    BY <1>1, <1>7 DEF Kill
  <2>3. ASSUME NEW q \in Pids PROVE proc'[q] \in {Exited(p), Dead, proc[q]} /\ (proc'[q] = Exited(p) => q = p \/ proc'[q] \in {Dead, proc[q]})
    BY <1>7 DEF Kill
  <2>4. ASSUME NEW q \in Pids PROVE proc'[q] \in ProcType /\ PShape(proc'[q], q)
    BY <1>1, <2>3, ExitedIs, Values, ValuesShape
  <2>5. proc' = [q \in Pids |-> proc'[q]]
    BY <1>7 DEF Kill
  <2>6. proc' \in [Pids -> ProcType] /\ \A q \in Pids : PShape(proc'[q], q)
    BY <2>4, <2>5
  <2> QED
    BY <1>1, <2>1, <2>2, <2>6, TypedParts
<1>8. CASE Start(p)
  <2>1. QueuesTyped' /\ svc' = svc /\ nreq' = nreq
    BY <1>1, <1>8 DEF Start, QueuesTyped
  <2>2. parent' \in [Children -> Pids \cup {Null}]
    BY <1>1, <1>8 DEF Start
  <2>3. proc' \in [Pids -> ProcType] /\ \A q \in Pids : PShape(proc'[q], q)
    BY <1>8, Values, ValuesShape, ProcUpdate DEF Start
  <2> QED
    BY <1>1, <2>1, <2>2, <2>3, TypedParts
<1> QED
  BY <1>3, <1>4, <1>5, <1>6, <1>7, <1>8 DEF ClientStep

LEMMA CallTyped ==
  ASSUME Typed, HistoryTyped', NEW p \in Pids, NEW s \in Services,
         \/ CallSend(p, s) \/ CallReceive(p, s)
         \/ \E c \in Children : CallTell(p, c, s)
  PROVE  Typed'
<1>1. /\ QueuesTyped /\ proc \in [Pids -> ProcType] /\ \A q \in Pids : PShape(proc[q], q)
      /\ parent \in [Children -> Pids \cup {Null}] /\ svc \in [Services -> SvcType]
      /\ (\A t \in Services : SShape(svc[t])) /\ nreq \in 0 .. MaxRequests /\ TypeOK
  BY DEF Typed, TypeOK, Shape, QueuesTyped
<1>2. CASE CallSend(p, s)
  <2>1. PICK op \in Ops \cap {"send", "ask"}, id \in Ids :
          /\ NewRequest(id)
          /\ proc' = [proc EXCEPT ![p] = SendRec(op, s, id)]
    BY <1>2 DEF CallSend, SendRec
  <2>2. PICK v : v = SendRec(op, s, id)
    OBVIOUS
  <2>3. v \in ProcType /\ v.st = "send" /\ v.op = op /\ v.to = s /\ v.id = id
    BY <2>2, Sending
  <2>4. PShape(v, p)
    BY <2>3 DEF PShape
  <2>5. proc' \in [Pids -> ProcType] /\ \A q \in Pids : PShape(proc'[q], q)
    BY <2>1, <2>2, <2>3, <2>4, ProcUpdate
  <2>6. nreq' \in 0 .. MaxRequests
    BY <1>1, <2>1, NewRequestIs
  <2>7. QueuesTyped' /\ parent' = parent /\ svc' = svc
    BY <1>1, <1>2 DEF CallSend, QueuesTyped
  <2> QED
    BY <1>1, <2>5, <2>6, <2>7, TypedParts
<1>3. CASE CallReceive(p, s)
  <2>1. proc' = [proc EXCEPT ![p] = ReceiveRec(s)]
    BY <1>3 DEF CallReceive, ReceiveRec
  <2>2. PICK v : v = ReceiveRec(s)
    OBVIOUS
  <2>3. v \in ProcType /\ v.st = "receive" /\ v.op = "receive" /\ v.to = s
    BY <2>2, Receiving
  <2>4. PShape(v, p)
    BY <2>3 DEF PShape
  <2>5. proc' \in [Pids -> ProcType] /\ \A q \in Pids : PShape(proc'[q], q)
    BY <2>1, <2>2, <2>3, <2>4, ProcUpdate
  <2>6. QueuesTyped' /\ parent' = parent /\ svc' = svc /\ nreq' = nreq
    BY <1>1, <1>3 DEF CallReceive, QueuesTyped
  <2> QED
    BY <1>1, <2>5, <2>6, TypedParts
<1>4. ASSUME NEW c \in Children, CallTell(p, c, s) PROVE Typed'
  <2>1. PICK id \in Ids :
          /\ NewRequest(id)
          /\ proc' = [proc EXCEPT ![c] = SendRec("tell", s, id)]
    BY <1>4 DEF CallTell, SendRec
  <2>2. PICK v : v = SendRec("tell", s, id)
    OBVIOUS
  <2>3. v \in ProcType /\ v.st = "send" /\ v.op = "tell" /\ v.to = s /\ v.id = id
    BY <2>2, Sending
  <2>4. PShape(v, c) /\ c \in Pids
    BY <2>3 DEF PShape, Pids
  <2>5. proc' \in [Pids -> ProcType] /\ \A q \in Pids : PShape(proc'[q], q)
    BY <2>1, <2>2, <2>3, <2>4, ProcUpdate
  <2>6. nreq' \in 0 .. MaxRequests
    BY <1>1, <2>1, NewRequestIs
  <2>7. QueuesTyped' /\ svc' = svc /\ parent' \in [Children -> Pids \cup {Null}]
    BY <1>1, <1>4 DEF CallTell, QueuesTyped
  <2> QED
    BY <1>1, <2>5, <2>6, <2>7, TypedParts
<1> QED
  BY <1>2, <1>3, <1>4

LEMMA ReapTyped ==
  ASSUME Typed, HistoryTyped', NEW p \in Pids, NEW c \in Children, Reap(p, c)
  PROVE  Typed'
<1>1. /\ QueuesTyped /\ parent \in [Children -> Pids \cup {Null}] /\ svc \in [Services -> SvcType]
      /\ (\A t \in Services : SShape(svc[t])) /\ nreq \in 0 .. MaxRequests /\ c \in Pids
  BY DEF Typed, TypeOK, Shape, QueuesTyped, Pids
<1>2. /\ proc' = [proc EXCEPT ![c] = Dead] /\ parent' = [parent EXCEPT ![c] = Null]
      /\ UNCHANGED <<queue, svc, nreq, pending>>
  BY DEF Reap
<1>3. proc' \in [Pids -> ProcType] /\ \A q \in Pids : PShape(proc'[q], q)
  BY <1>1, <1>2, Values, ValuesShape, ProcUpdate
<1>4. QueuesTyped' /\ parent' \in [Children -> Pids \cup {Null}]
  BY <1>1, <1>2 DEF QueuesTyped
<1> QED
  BY <1>1, <1>2, <1>3, <1>4, TypedParts

LEMMA ServiceTyped ==
  ASSUME Typed, HistoryTyped', NEW s \in Services,
         \/ ServiceStep(s) \/ SvcCrash(s)
         \/ \E t \in Services : SvcAsk(s, t)
  PROVE  Typed'
<1>1. /\ QueuesTyped /\ proc \in [Pids -> ProcType] /\ \A q \in Pids : PShape(proc[q], q)
      /\ parent \in [Children -> Pids \cup {Null}] /\ svc \in [Services -> SvcType]
      /\ (\A t \in Services : SShape(svc[t])) /\ nreq \in 0 .. MaxRequests /\ TypeOK
  BY DEF Typed, TypeOK, Shape, QueuesTyped
<1> DEFINE k == service_key(s)
           SvcsTyped == svc' \in [Services -> SvcType] /\ \A t \in Services : SShape(svc'[t])
<1>2. k \in Keys /\ s \in Procs /\ svc[s] \in SvcType /\ SShape(svc[s])
  BY <1>1, KeyOf DEF Procs
<1>3. CASE SvcReceive(s)
  <2>1. /\ Waiting(k, Request) # {} /\ queue' = [queue EXCEPT ![k] = Take(k, Request)]
        /\ svc' = [svc EXCEPT ![s] = Took(svc[s], queue[k][FirstOf(k, Request)])]
        /\ UNCHANGED <<proc, parent, nreq, pending>>
    BY <1>1, <1>3 DEF SvcReceive, Took
  <2>2. QueuesTyped' /\ queue[k][FirstOf(k, Request)] \in Message
    BY <1>1, <1>2, <2>1, TakeTyped DEF QueuesTyped
  <2>3. SvcsTyped
    BY <2>1, <2>2, SvcTakes, SvcUpdate
  <2> QED
    BY <1>1, <2>1, <2>2, <2>3, TypedParts
<1>4. CASE SvcCheck(s)
  <2>1. svc[s].st = "check" /\ UNCHANGED <<queue, proc, parent, nreq>>
    BY <1>4 DEF SvcCheck
  <2>2. CASE svc' = [svc EXCEPT ![s] = Moved(svc[s], "eval")] /\ pending' = pending
    <3>1. SvcsTyped
      BY <2>1, <2>2, SvcGoesOn, SvcUpdate
    <3>2. QueuesTyped'
      BY <1>1, <2>1, <2>2 DEF QueuesTyped
    <3> QED
      BY <1>1, <2>1, <3>1, <3>2, TypedParts
  <2>3. CASE /\ svc' = [svc EXCEPT ![s] = Ready]
             /\ pending' = [pending EXCEPT ![k][svc[s].msg.src] = @ \ {svc[s].msg.id}]
    <3>1. SvcsTyped
      BY <2>3, Values, ValuesShape, SvcUpdate
    <3>2. pending' \in [Keys -> [Procs -> SUBSET Ids]]
      BY <1>1, <1>2, <2>3 DEF QueuesTyped
    <3>3. QueuesTyped'
      BY <1>1, <2>1, <3>2 DEF QueuesTyped
    <3> QED
      BY <1>1, <2>1, <3>1, <3>3, TypedParts
  <2> QED
    BY <1>1, <1>4, <2>2, <2>3 DEF SvcCheck, Moved
<1>5. CASE SvcEval(s)
  <2>1. svc' = [svc EXCEPT ![s] = Moved(svc[s], "reply")]
    BY <1>1, <1>5 DEF SvcEval, Moved
  <2>2. SvcsTyped
    BY <1>5, <2>1, SvcGoesOn, SvcUpdate DEF SvcEval
  <2>3. QueuesTyped' /\ UNCHANGED <<proc, parent, nreq>>
    BY <1>1, <1>5 DEF SvcEval, QueuesTyped
  <2> QED
    BY <1>1, <2>2, <2>3, TypedParts
<1>6. ASSUME NEW t \in Services, SvcAsk(s, t) PROVE Typed'
  <2>1. PICK id \in Ids :
          /\ NewRequest(id)
          /\ svc' = [svc EXCEPT ![s] = Asks(svc[s], id, t)]
    BY <1>1, <1>6 DEF SvcAsk, Asks
  <2>2. SvcsTyped
    BY <1>6, <2>1, SvcAsks, SvcUpdate DEF SvcAsk
  <2>3. QueuesTyped' /\ UNCHANGED <<proc, parent>>
    BY <1>1, <1>6 DEF SvcAsk, QueuesTyped
  <2>4. nreq' \in 0 .. MaxRequests
    BY <1>1, <2>1, NewRequestIs
  <2> QED
    BY <1>1, <2>2, <2>3, <2>4, TypedParts
<1>7. CASE SvcAskSend(s)
  <2>1. svc' = [svc EXCEPT ![s] = Moved(svc[s], "askreceive")]
    BY <1>1, <1>7 DEF SvcAskSend, Moved
  <2>2. SvcsTyped
    BY <1>7, <2>1, SvcWaits, SvcUpdate DEF SvcAskSend
  <2>3. svc[s].to \in Services /\ svc[s].ask \in Ids
    BY <1>2, <1>7 DEF SvcAskSend, SShape
  <2>4. QueuesTyped'
    BY <1>1, <1>2, <1>7, <2>3, SendRequestTyped DEF SvcAskSend, Moved
  <2>5. UNCHANGED <<proc, parent, nreq>>
    BY <1>7 DEF SvcAskSend, Moved
  <2> QED
    BY <1>1, <2>2, <2>4, <2>5, TypedParts
<1>8. CASE SvcAskReceive(s)
  <2>1. svc' = [svc EXCEPT ![s] = Answered(svc[s])]
    BY <1>1, <1>8 DEF SvcAskReceive, Answered
  <2>2. SvcsTyped
    BY <1>8, <2>1, SvcAnswered, SvcUpdate DEF SvcAskReceive
  <2>3. svc[s].to \in Services
    BY <1>2, <1>8 DEF SvcAskReceive, SShape
  <2>4. QueuesTyped'
    BY <1>1, <1>2, <1>8, <2>3, ReceiveReplyTyped DEF SvcAskReceive, Answered
  <2>5. UNCHANGED <<proc, parent, nreq>>
    BY <1>8 DEF SvcAskReceive, Answered
  <2> QED
    BY <1>1, <2>2, <2>4, <2>5, TypedParts
<1>9. CASE SvcReply(s)
  <2> DEFINE r == [dst |-> svc[s].msg.src, src |-> s, id |-> svc[s].msg.id, to |-> s]
  <2>1. r \in Message
    BY <1>2, <1>9, SvcInHand DEF SvcReply, Message
  <2>2. /\ Room(k) /\ queue' = [queue EXCEPT ![k] = Append(@, r)]
        /\ svc' = [svc EXCEPT ![s] = Ready] /\ UNCHANGED <<proc, parent, nreq, pending>>
    BY <1>9 DEF SvcReply
  <2> HIDE DEF r
  <2>3. QueuesTyped'
    BY <1>1, <1>2, <2>1, <2>2, SendTyped DEF QueuesTyped
  <2>4. SvcsTyped
    BY <2>2, Values, ValuesShape, SvcUpdate
  <2> QED
    BY <1>1, <2>2, <2>3, <2>4, TypedParts
<1>10. CASE SvcCrash(s)
  <2>1. QueuesTyped'
    BY <1>1, <1>2, <1>10 DEF SvcCrash, QueuesTyped
  <2>2. svc' = [svc EXCEPT ![s] = Down] /\ UNCHANGED <<proc, parent, nreq>>
    BY <1>10 DEF SvcCrash
  <2>3. SvcsTyped
    BY <2>2, Values, ValuesShape, SvcUpdate
  <2> QED
    BY <1>1, <2>1, <2>2, <2>3, TypedParts
<1>11. CASE SvcStart(s)
  <2>1. QueuesTyped' /\ svc' = [svc EXCEPT ![s] = Ready] /\ UNCHANGED <<proc, parent, nreq>>
    BY <1>1, <1>11 DEF SvcStart, QueuesTyped
  <2>2. SvcsTyped
    BY <2>1, Values, ValuesShape, SvcUpdate
  <2> QED
    BY <1>1, <2>1, <2>2, TypedParts
<1> QED
  BY <1>3, <1>4, <1>5, <1>6, <1>7, <1>8, <1>9, <1>10, <1>11 DEF ServiceStep

LEMMA InitTyped == Init => Typed
<1> SUFFICES ASSUME Init PROVE Typed
  OBVIOUS
<1>1. QueuesTyped
  <2>1. <<>> \in Seq(Message) /\ Len(<<>>) = 0
    OBVIOUS
  <2> QED
    BY <2>1, ChannelAssumption DEF Init, QueuesTyped
<1>2. proc \in [Pids -> ProcType] /\ \A p \in Pids : PShape(proc[p], p)
  BY Values, ValuesShape DEF Init
<1>3. svc \in [Services -> SvcType] /\ \A s \in Services : SShape(svc[s])
  BY Values, ValuesShape DEF Init
<1>4. parent \in [Children -> Pids \cup {Null}] /\ nreq \in 0 .. MaxRequests
  BY ChannelAssumption DEF Init
<1>5. HistoryTyped
  BY ChannelAssumption DEF Init, HistoryTyped
<1> QED
  BY <1>1, <1>2, <1>3, <1>4, <1>5 DEF Typed, TypeOK, Shape, QueuesTyped, HistoryTyped

LEMMA StepTyped == Typed /\ [Next]_vars => Typed'
<1> SUFFICES ASSUME Typed, [Next]_vars PROVE Typed'
  OBVIOUS
<1>1. CASE UNCHANGED vars
  BY <1>1 DEF vars, Typed, TypeOK, Shape
<1>2. CASE Next
  BY <1>2, StepHistory, ClientTyped, CallTyped, ReapTyped, ServiceTyped DEF Next
<1> QED
  BY <1>1, <1>2

(* In every reachable state of Channel the queues hold at most Capacity    *)
(* messages, each from a process and of a service, and a tell that polls   *)
(* has seconds left.                                                       *)
THEOREM TypeCorrect == Spec => []TypeOK
<1>1. Spec => []Typed
  BY InitTyped, StepTyped, PTL DEF Spec
<1>2. Typed => TypeOK
  BY DEF Typed
<1> QED
  BY <1>1, <1>2, PTL

-----------------------------------------------------------------------------
(* Requests are lost only in a crash, none is answered twice or overtaken  *)

(* Requests are numbered as they are made: one that is not yet on a queue  *)
(* comes after all the pending ones of its process.                        *)
Unsent ==
  /\ \A k \in Keys, q \in Procs : \A x \in pending[k][q] : x <= nreq
  /\ \A p \in Pids : proc[p].st = "send" =>
       proc[p].id <= nreq /\ \A k \in Keys : \A x \in pending[k][p] : x < proc[p].id
  /\ \A s \in Services : svc[s].st = "asksend" =>
       svc[s].ask <= nreq /\ \A k \in Keys : \A x \in pending[k][s] : x < svc[s].ask

(* Process p is owed the answer to x on queue k, and no longer.            *)
Owe(k, p, x)   == [pending EXCEPT ![k][p] = @ \cup {x}]
Forgo(k, p, x) == [pending EXCEPT ![k][p] = @ \ {x}]

LEMMA PendingAdds ==
  ASSUME TypeOK, NEW k \in Keys, NEW p \in Procs, NEW x, pending' = Owe(k, p, x)
  PROVE  /\ \A l \in Keys, q \in Procs : l # k \/ q # p => pending'[l][q] = pending[l][q]
         /\ pending'[k][p] = pending[k][p] \cup {x}
<1>1. pending \in [Keys -> [Procs -> SUBSET Ids]]
  BY DEF TypeOK
<1> QED
  BY <1>1 DEF Owe

LEMMA PendingDrops ==
  ASSUME TypeOK, NEW k \in Keys, NEW p \in Procs, NEW x, pending' = Forgo(k, p, x)
  PROVE  /\ \A l \in Keys, q \in Procs : l # k \/ q # p => pending'[l][q] = pending[l][q]
         /\ pending'[k][p] = pending[k][p] \ {x}
<1>1. pending \in [Keys -> [Procs -> SUBSET Ids]]
  BY DEF TypeOK
<1> QED
  BY <1>1 DEF Forgo

(* Requests are answered, or nothing happens to them.                      *)
LEMMA UnsentShrinks ==
  ASSUME Unsent, nreq' = nreq,
         \A k \in Keys, q \in Procs : pending'[k][q] \subseteq pending[k][q],
         \A p \in Pids : proc'[p].st = "send" => proc[p].st = "send" /\ proc'[p].id = proc[p].id,
         \A s \in Services : svc'[s].st = "asksend" => svc[s].st = "asksend" /\ svc'[s].ask = svc[s].ask
  PROVE  Unsent'
<1>1. \A k \in Keys, q \in Procs : \A x \in pending'[k][q] : x <= nreq'
  BY DEF Unsent
<1>2. \A p \in Pids : proc'[p].st = "send" =>
        proc'[p].id <= nreq' /\ \A k \in Keys : \A x \in pending'[k][p] : x < proc'[p].id
  BY DEF Unsent, Procs
<1>3. \A s \in Services : svc'[s].st = "asksend" =>
        svc'[s].ask <= nreq' /\ \A k \in Keys : \A x \in pending'[k][s] : x < svc'[s].ask
  BY DEF Unsent, Procs
<1> QED
  BY <1>1, <1>2, <1>3 DEF Unsent

(* A request is made.                                                      *)
LEMMA UnsentNew ==
  ASSUME Typed, Unsent, nreq' = nreq + 1, pending' = pending,
         \A p \in Pids : proc'[p].st = "send" =>
           (proc[p].st = "send" /\ proc'[p].id = proc[p].id) \/ proc'[p].id = nreq',
         \A s \in Services : svc'[s].st = "asksend" =>
           (svc[s].st = "asksend" /\ svc'[s].ask = svc[s].ask) \/ svc'[s].ask = nreq'
  PROVE  Unsent'
<1>1. nreq \in Nat /\ \A k \in Keys, q \in Procs : pending[k][q] \subseteq Nat
  BY ChannelAssumption DEF Typed, TypeOK, Ids
<1>2. \A p \in Pids : proc[p].id \in Nat
  BY DEF Typed, TypeOK, ProcType
<1>3. \A s \in Services : svc[s].ask \in Nat
  BY DEF Typed, TypeOK, SvcType
<1>4. \A k \in Keys, q \in Procs : \A x \in pending[k][q] : x < nreq' /\ x <= nreq'
  BY <1>1 DEF Unsent
<1>5. ASSUME NEW p \in Pids, proc'[p].st = "send"
      PROVE  proc'[p].id <= nreq' /\ \A k \in Keys : \A x \in pending'[k][p] : x < proc'[p].id
  <2>1. p \in Procs
    BY DEF Procs
  <2>2. CASE proc'[p].id = nreq'
    BY <1>1, <1>4, <2>1, <2>2
  <2>3. CASE proc[p].st = "send" /\ proc'[p].id = proc[p].id
    <3>1. proc[p].id <= nreq /\ \A k \in Keys : \A x \in pending[k][p] : x < proc[p].id
      BY <2>3 DEF Unsent
    <3> QED
      BY <1>1, <1>2, <2>3, <3>1
  <2> QED
    BY <1>5, <2>2, <2>3
<1>6. ASSUME NEW s \in Services, svc'[s].st = "asksend"
      PROVE  svc'[s].ask <= nreq' /\ \A k \in Keys : \A x \in pending'[k][s] : x < svc'[s].ask
  <2>1. s \in Procs
    BY DEF Procs
  <2>2. CASE svc'[s].ask = nreq'
    BY <1>1, <1>4, <2>1, <2>2
  <2>3. CASE svc[s].st = "asksend" /\ svc'[s].ask = svc[s].ask
    <3>1. svc[s].ask <= nreq /\ \A k \in Keys : \A x \in pending[k][s] : x < svc[s].ask
      BY <2>3 DEF Unsent
    <3> QED
      BY <1>1, <1>3, <2>3, <3>1
  <2> QED
    BY <1>6, <2>2, <2>3
<1> QED
  BY <1>4, <1>5, <1>6 DEF Unsent

(* Process c has put its request on a queue.                               *)
LEMMA UnsentSend ==
  ASSUME Typed, Unsent, nreq' = nreq, NEW c \in Procs, NEW t \in Services, NEW id \in Ids,
         id <= nreq, SendRequest(c, t, id),
         \A p \in Pids : proc'[p].st = "send" =>
           p # c /\ proc[p].st = "send" /\ proc'[p].id = proc[p].id,
         \A s \in Services : svc'[s].st = "asksend" =>
           s # c /\ svc[s].st = "asksend" /\ svc'[s].ask = svc[s].ask
  PROVE  Unsent'
<1>1. service_key(t) \in Keys /\ pending' = Owe(service_key(t), c, id)
  BY KeyOf DEF SendRequest, Owe
<1>2. \A k \in Keys, q \in Procs : q # c => pending'[k][q] = pending[k][q]
  BY <1>1, PendingAdds DEF Typed
<1>3. \A k \in Keys : pending'[k][c] \subseteq pending[k][c] \cup {id}
  BY <1>1, PendingAdds DEF Typed
<1>4. \A k \in Keys, q \in Procs : \A x \in pending'[k][q] : x <= nreq'
  BY <1>2, <1>3 DEF Unsent
<1>5. \A p \in Pids : proc'[p].st = "send" =>
        proc'[p].id <= nreq' /\ \A k \in Keys : \A x \in pending'[k][p] : x < proc'[p].id
  BY <1>2 DEF Unsent, Procs
<1>6. \A s \in Services : svc'[s].st = "asksend" =>
        svc'[s].ask <= nreq' /\ \A k \in Keys : \A x \in pending'[k][s] : x < svc'[s].ask
  BY <1>2 DEF Unsent, Procs
<1> QED
  BY <1>4, <1>5, <1>6 DEF Unsent

(* The numbers of the requests of p on queue k that services v have in     *)
(* hand: at most one of them when no two services share the queue.         *)
Hand(v, k, p) ==
  {v[s].msg.id : s \in {t \in Services : service_key(t) = k /\ v[t].msg # Null /\ v[t].msg.src = p}}
HandOf(r, p) == IF r.msg # Null /\ r.msg.src = p THEN {r.msg.id} ELSE {}

LEMMA HandIs ==
  ASSUME DistinctKeys, NEW v, NEW s \in Services, NEW p
  PROVE  Hand(v, service_key(s), p) = HandOf(v[s], p)
BY DEF Hand, HandOf, DistinctKeys

LEMMA HandOther ==
  ASSUME NEW v, NEW w, NEW s \in Services, \A t \in Services \ {s} : w[t] = v[t],
         NEW k, k # service_key(s), NEW p
  PROVE  Hand(w, k, p) = Hand(v, k, p)
BY DEF Hand

LEMMA HandSame ==
  ASSUME NEW v, NEW w, \A t \in Services : w[t].msg = v[t].msg, NEW k, NEW p
  PROVE  Hand(w, k, p) = Hand(v, k, p)
BY DEF Hand

(* InOrder, and what is lost was pending.                                  *)
Kept == InOrder /\ \A k \in Keys, p \in Procs : lost[k][p] \subseteq pending[k][p]

LEMMA KeptIs ==
  /\ Kept <=> \A k \in Keys, p \in Procs :
               Turn(queue[k], Hand(svc, k, p), pending[k][p], lost[k][p], p)
  /\ Kept' <=> \A k \in Keys, p \in Procs :
                Turn(queue'[k], Hand(svc', k, p), pending'[k][p], lost'[k][p], p)
<1>1. /\ InOrder <=> \A k \in Keys, p \in Procs :
           InTurn(queue[k], Hand(svc, k, p), pending[k][p] \ lost[k][p], p)
      /\ InOrder' <=> \A k \in Keys, p \in Procs :
           InTurn(queue'[k], Hand(svc', k, p), pending'[k][p] \ lost'[k][p], p)
  BY DEF InOrder, InHand, Hand, InTurn, Replies, Requests
<1>2. /\ Kept <=> InOrder /\ \A k \in Keys, p \in Procs : lost[k][p] \subseteq pending[k][p]
      /\ Kept' <=> InOrder' /\ \A k \in Keys, p \in Procs : lost'[k][p] \subseteq pending'[k][p]
  BY DEF Kept
<1> QED
  BY ONLY <1>1, <1>2 DEF Turn

(* The requests that services have in hand stay as they are.               *)
SameHands == \A s \in Services : svc'[s].msg = svc[s].msg

LEMMA QuietInOrder ==
  ASSUME Kept, SameHands, queue' = queue, pending' = pending, lost' = lost
  PROVE  Kept'
<1>1. \A k \in Keys, p \in Procs : Hand(svc', k, p) = Hand(svc, k, p)
  BY HandSame DEF SameHands
<1> QED
  BY <1>1, KeptIs

LEMMA SendInOrder ==
  ASSUME Typed, Kept, SameHands, lost' = lost, NEW c \in Procs, NEW t \in Services, NEW id \in Ids,
         SendRequest(c, t, id), \A k \in Keys : \A x \in pending[k][c] : x < id
  PROVE  Kept'
<1> DEFINE l == service_key(t)
           m == [dst |-> Request, src |-> c, id |-> id, to |-> t]
<1>1. /\ queue \in [Keys -> Seq(Message)] /\ TypeOK /\ l \in Keys /\ m \in Message
      /\ m.dst = Request /\ m.src = c /\ m.id = id
  BY KeyOf DEF Typed, TypeOK, Message
<1>2. /\ queue' = [queue EXCEPT ![l] = Append(@, m)]
      /\ pending' = Owe(l, c, id)
  BY DEF SendRequest, Owe
<1> HIDE DEF m, l
<1>3. ASSUME NEW k \in Keys, NEW p \in Procs
      PROVE  Turn(queue'[k], Hand(svc', k, p), pending'[k][p], lost'[k][p], p)
  <2>1. Turn(queue[k], Hand(svc, k, p), pending[k][p], lost[k][p], p) /\ Hand(svc', k, p) = Hand(svc, k, p)
    BY KeptIs, HandSame DEF SameHands
  <2>2. CASE k # l
    <3>1. queue'[k] = queue[k] /\ pending'[k][p] = pending[k][p]
      BY <1>1, <1>2, <2>2, PendingAdds
    <3> QED
      BY <2>1, <3>1
  <2>3. CASE k = l /\ p # c
    <3>1. queue'[k] = Append(queue[k], m) /\ pending'[k][p] = pending[k][p]
      BY <1>1, <1>2, <2>3, PendingAdds
    <3>2. Turn(Append(queue[k], m), Hand(svc, k, p), pending[k][p], lost[k][p], p)
      BY <1>1, <2>1, <2>3, TurnAppendOther, RequestIsNoPid
    <3> QED
      BY <2>1, <3>1, <3>2
  <2>4. CASE k = l /\ p = c
    <3>1. queue'[k] = Append(queue[k], m) /\ pending'[k][p] = pending[k][p] \cup {m.id}
      BY <1>1, <1>2, <2>4, PendingAdds
    <3>2. Turn(Append(queue[k], m), Hand(svc, k, p), pending[k][p] \cup {m.id}, lost[k][p], p)
      BY <1>1, <2>1, <2>4, TurnAppendRequest
    <3> QED
      BY <2>1, <3>1, <3>2
  <2> QED
    BY <2>2, <2>3, <2>4
<1> QED
  BY <1>3, KeptIs

(* Where msgrcv looks for a reply of p.                                    *)
LEMMA WaitingReplies == \A k, p : Waiting(k, p) = Replies(queue[k], p)
BY DEF Waiting, Replies

LEMMA ReceiveInOrder ==
  ASSUME Typed, Kept, SameHands, lost' = lost, NEW c \in Procs, NEW t \in Services, ReceiveReply(c, t)
  PROVE  Kept'
<1> DEFINE l == service_key(t)
           i == FirstOf(l, c)
<1>1. queue \in [Keys -> Seq(Message)] /\ TypeOK /\ l \in Keys
  BY KeyOf DEF Typed, TypeOK
<1>2. /\ queue' = [queue EXCEPT ![l] = RemoveAt(queue[l], i)]
      /\ pending' = Forgo(l, c, queue[l][i].id)
  BY DEF ReceiveReply, Take, Forgo
<1>3. i \in Replies(queue[l], c) /\ \A j \in Replies(queue[l], c) : i <= j
  BY FirstOfIsFirst, WaitingReplies DEF ReceiveReply
<1>4. i \in 1 .. Len(queue[l]) /\ queue[l][i].dst = c
  BY <1>3 DEF Replies
<1> HIDE DEF i, l
<1>5. ASSUME NEW k \in Keys, NEW p \in Procs
      PROVE  Turn(queue'[k], Hand(svc', k, p), pending'[k][p], lost'[k][p], p)
  <2>1. Turn(queue[k], Hand(svc, k, p), pending[k][p], lost[k][p], p) /\ Hand(svc', k, p) = Hand(svc, k, p)
    BY KeptIs, HandSame DEF SameHands
  <2>2. CASE k # l
    <3>1. queue'[k] = queue[k] /\ pending'[k][p] = pending[k][p]
      BY <1>1, <1>2, <2>2, PendingDrops
    <3> QED
      BY <2>1, <3>1
  <2>3. CASE k = l /\ p # c
    <3>1. queue'[k] = RemoveAt(queue[k], i) /\ pending'[k][p] = pending[k][p]
      BY <1>1, <1>2, <2>3, PendingDrops
    <3>2. i \notin Replies(queue[k], p) /\ i \notin Requests(queue[k], p)
      BY <1>4, <2>3, RequestIsNoPid DEF Replies, Requests
    <3>3. Turn(RemoveAt(queue[k], i), Hand(svc, k, p), pending[k][p], lost[k][p], p)
      BY <1>1, <1>4, <2>1, <2>3, <3>2, TurnRemoveOther
    <3> QED
      BY <2>1, <3>1, <3>3
  <2>4. CASE k = l /\ p = c
    <3>1. queue'[k] = RemoveAt(queue[k], i) /\ pending'[k][p] = pending[k][p] \ {queue[k][i].id}
      BY <1>1, <1>2, <2>4, PendingDrops
    <3>2. Turn(RemoveAt(queue[k], i), Hand(svc, k, p), pending[k][p] \ {queue[k][i].id}, lost[k][p], p)
      BY <1>1, <1>3, <2>1, <2>4, TurnRemoveReply
    <3> QED
      BY <2>1, <3>1, <3>2
  <2> QED
    BY <2>2, <2>3, <2>4
<1> QED
  BY <1>5, KeptIs

(* The service of queue l takes the first request there.                   *)
LEMMA SvcReceiveInOrder ==
  ASSUME DistinctKeys, Typed, Kept, NEW s \in Services, SvcReceive(s)
  PROVE  Kept'
<1> DEFINE l == service_key(s)
           i == FirstOf(l, Request)
           m == queue[l][i]
<1>1. /\ queue \in [Keys -> Seq(Message)] /\ TypeOK /\ l \in Keys
      /\ svc \in [Services -> SvcType] /\ SShape(svc[s])
  BY KeyOf DEF Typed, TypeOK, Shape
<1>2. /\ queue' = [queue EXCEPT ![l] = RemoveAt(queue[l], i)] /\ pending' = pending /\ lost' = lost
      /\ svc' = [svc EXCEPT ![s] = Took(svc[s], m)]
      /\ svc[s].st = "receive" /\ Waiting(l, Request) # {}
  BY <1>1 DEF SvcReceive, Take, Took
<1>3. i \in Waiting(l, Request) /\ \A j \in Waiting(l, Request) : i <= j
  BY <1>2, FirstOfIsFirst
<1>4. i \in 1 .. Len(queue[l]) /\ m.dst = Request
  BY <1>3 DEF Waiting
<1>5. m \in Message /\ m.src \in Procs
  BY <1>1, <1>4, MessageIds DEF Message
<1>6. svc[s].msg = Null
  BY <1>1, <1>2 DEF SShape
<1>7. svc'[s].msg = m /\ \A t \in Services \ {s} : svc'[t] = svc[t]
  BY <1>1, <1>2 DEF SvcType, Took
<1>8. m # Null
  BY <1>5, NullAssumption
<1>9. m = queue[l][i] /\ l = service_key(s)
  OBVIOUS
<1> HIDE DEF i, l, m
<1>10. ASSUME NEW k \in Keys, NEW p \in Procs
       PROVE  Turn(queue'[k], Hand(svc', k, p), pending'[k][p], lost'[k][p], p)
  <2>1. Turn(queue[k], Hand(svc, k, p), pending[k][p], lost[k][p], p)
    BY KeptIs
  <2>2. CASE k # l
    <3>1. queue'[k] = queue[k]
      BY <1>1, <1>2, <2>2
    <3>2. Hand(svc', k, p) = Hand(svc, k, p)
      BY <1>7, <1>9, <2>2, HandOther
    <3> QED
      BY <1>2, <2>1, <3>1, <3>2
  <2>3. CASE k = l
    <3>1. Hand(svc, k, p) = {}
      BY <1>6, <1>9, <2>3, HandIs DEF HandOf
    <3>2. Hand(svc', k, p) = HandOf(svc'[s], p)
      BY <1>9, <2>3, HandIs
    <3>3. queue'[k] = RemoveAt(queue[k], i)
      BY <1>1, <1>2, <2>3
    <3>4. CASE p = m.src
      <4>1. Hand(svc', k, p) = {queue[k][i].id}
        BY <1>7, <1>8, <1>9, <2>3, <3>2, <3>4 DEF HandOf
      <4>2. i \in Requests(queue[k], p) /\ Requests(queue[k], p) \subseteq Waiting(k, Request)
        BY <1>4, <1>9, <2>3, <3>4 DEF Requests, Waiting
      <4>3. Turn(RemoveAt(queue[k], i), {queue[k][i].id}, pending[k][p], lost[k][p], p)
        BY <1>1, <1>3, <2>1, <2>3, <3>1, <4>2, TurnRemoveRequest
      <4> QED
        BY <1>2, <3>3, <4>1, <4>3
    <3>5. CASE p # m.src
      <4>1. Hand(svc', k, p) = {}
        BY <1>7, <3>2, <3>5 DEF HandOf
      <4>2. i \notin Replies(queue[k], p) /\ i \notin Requests(queue[k], p)
        BY <1>4, <1>9, <2>3, <3>5, RequestIsNoPid DEF Replies, Requests
      <4>3. Turn(RemoveAt(queue[k], i), {}, pending[k][p], lost[k][p], p)
        BY <1>1, <1>4, <2>1, <2>3, <3>1, <4>2, TurnRemoveOther
      <4> QED
        BY <1>2, <3>3, <4>1, <4>3
    <3> QED
      BY <3>4, <3>5
  <2> QED
    BY <2>2, <2>3
<1> QED
  BY <1>10, KeptIs

LEMMA SvcReplyInOrder ==
  ASSUME DistinctKeys, Typed, Kept, NEW s \in Services, SvcReply(s)
  PROVE  Kept'
<1> DEFINE l == service_key(s)
           m == svc[s].msg
           r == [dst |-> m.src, src |-> s, id |-> m.id, to |-> s]
<1>1. /\ queue \in [Keys -> Seq(Message)] /\ TypeOK /\ l \in Keys
      /\ svc \in [Services -> SvcType] /\ SShape(svc[s])
  BY KeyOf DEF Typed, TypeOK, Shape
<1>2. /\ queue' = [queue EXCEPT ![l] = Append(@, r)] /\ pending' = pending /\ lost' = lost
      /\ svc' = [svc EXCEPT ![s] = Ready] /\ svc[s].st = "reply"
  BY DEF SvcReply
<1>3. m \in Message /\ m # Null
  BY <1>2, SvcInHand
<1>4. m.src \in Procs /\ m.id \in Ids /\ s \in Procs
  BY <1>3 DEF Message, Procs
<1>5. r \in Message /\ r.dst = m.src /\ r.id = m.id
  BY <1>4 DEF Message
<1>6. svc'[s].msg = Null /\ \A t \in Services \ {s} : svc'[t] = svc[t]
  BY <1>1, <1>2, Values
<1>7. m = svc[s].msg /\ l = service_key(s)
  OBVIOUS
<1> HIDE DEF l, m, r
<1>8. ASSUME NEW k \in Keys, NEW p \in Procs
      PROVE  Turn(queue'[k], Hand(svc', k, p), pending'[k][p], lost'[k][p], p)
  <2>1. Turn(queue[k], Hand(svc, k, p), pending[k][p], lost[k][p], p)
    BY KeptIs
  <2>2. CASE k # l
    <3>1. queue'[k] = queue[k]
      BY <1>1, <1>2, <2>2
    <3>2. Hand(svc', k, p) = Hand(svc, k, p)
      BY <1>6, <1>7, <2>2, HandOther
    <3> QED
      BY <1>2, <2>1, <3>1, <3>2
  <2>3. CASE k = l
    <3>1. Hand(svc', k, p) = {}
      BY <1>6, <1>7, <2>3, HandIs DEF HandOf
    <3>2. Hand(svc, k, p) = HandOf(svc[s], p)
      BY <1>7, <2>3, HandIs
    <3>3. queue'[k] = Append(queue[k], r)
      BY <1>1, <1>2, <2>3
    <3>4. CASE p = m.src
      <4>1. Hand(svc, k, p) = {r.id}
        BY <1>3, <1>5, <1>7, <3>2, <3>4 DEF HandOf
      <4>2. Turn(Append(queue[k], r), {}, pending[k][p], lost[k][p], p)
        BY <1>1, <1>5, <2>1, <3>4, <4>1, TurnAppendReply
      <4> QED
        BY <1>2, <3>1, <3>3, <4>2
    <3>5. CASE p # m.src
      <4>1. Hand(svc, k, p) = {}
        BY <1>7, <3>2, <3>5 DEF HandOf
      <4>2. r.dst # p /\ r.dst # Request
        BY <1>4, <1>5, <3>5, RequestIsNoPid
      <4>3. Turn(Append(queue[k], r), {}, pending[k][p], lost[k][p], p)
        BY <1>1, <1>5, <2>1, <4>1, <4>2, TurnAppendOther
      <4> QED
        BY <1>2, <3>1, <3>3, <4>3
    <3> QED
      BY <3>4, <3>5
  <2> QED
    BY <2>2, <2>3
<1> QED
  BY <1>8, KeptIs

(* A service drops the request it has in hand.                             *)
LEMMA DropInOrder ==
  ASSUME DistinctKeys, Typed, Kept, NEW s \in Services, svc[s].msg \in Message,
         queue' = queue, lost' = lost, NEW v, v \in {Ready, Down}, svc' = [svc EXCEPT ![s] = v],
         pending' = Forgo(service_key(s), svc[s].msg.src, svc[s].msg.id)
  PROVE  Kept'
<1> DEFINE l == service_key(s)
           m == svc[s].msg
<1>1. queue \in [Keys -> Seq(Message)] /\ TypeOK /\ l \in Keys /\ svc \in [Services -> SvcType]
  BY KeyOf DEF Typed, TypeOK
<1>2. m \in Message /\ m # Null /\ m.src \in Procs
  BY NullAssumption DEF Message
<1>3. m.id \in Int
  BY DEF Message, Ids
<1>4. svc'[s].msg = Null /\ \A t \in Services \ {s} : svc'[t] = svc[t]
  BY <1>1, Values
<1>5. m = svc[s].msg /\ l = service_key(s)
  OBVIOUS
<1> HIDE DEF l, m
<1>6. ASSUME NEW k \in Keys, NEW p \in Procs
      PROVE  Turn(queue'[k], Hand(svc', k, p), pending'[k][p], lost'[k][p], p)
  <2>1. Turn(queue[k], Hand(svc, k, p), pending[k][p], lost[k][p], p)
    BY KeptIs
  <2>2. CASE k # l
    <3>1. pending'[k][p] = pending[k][p]
      BY <1>1, <1>2, <1>5, <2>2, PendingDrops
    <3>2. k # service_key(s) /\ \A t \in Services \ {s} : svc'[t] = svc[t]
      BY <1>4, <1>5, <2>2
    <3>3. Hand(svc', k, p) = Hand(svc, k, p)
      BY ONLY <3>2, HandOther
    <3> QED
      BY <2>1, <3>1, <3>3
  <2>3. CASE k = l
    <3>1. Hand(svc', k, p) = {}
      BY <1>4, <1>5, <2>3, HandIs DEF HandOf
    <3>2. Hand(svc, k, p) = HandOf(svc[s], p)
      BY <1>5, <2>3, HandIs
    <3>3. CASE p = m.src
      <4>1. Hand(svc, k, p) = {m.id}
        BY <1>2, <1>5, <3>2, <3>3 DEF HandOf
      <4>2. pending'[k][p] = pending[k][p] \ {m.id}
        BY <1>1, <1>2, <1>5, <2>3, <3>3, PendingDrops
      <4>3. Turn(queue[k], {}, pending[k][p] \ {m.id}, lost[k][p], p)
        BY <1>1, <1>3, <2>1, <4>1, TurnDropHand
      <4> QED
        BY <3>1, <4>2, <4>3
    <3>4. CASE p # m.src
      <4>1. Hand(svc, k, p) = {}
        BY <1>5, <3>2, <3>4 DEF HandOf
      <4>2. pending'[k][p] = pending[k][p]
        BY <1>1, <1>2, <1>5, <3>4, PendingDrops
      <4> QED
        BY <2>1, <3>1, <4>1, <4>2
    <3> QED
      BY <3>3, <3>4
  <2> QED
    BY <2>2, <2>3
<1> QED
  BY <1>6, KeptIs

(* A service crashes with the request it has in hand.                      *)
LEMMA LoseInOrder ==
  ASSUME DistinctKeys, Typed, Kept, NEW s \in Services, svc[s].msg \in Message,
         queue' = queue, pending' = pending, svc' = [svc EXCEPT ![s] = Down],
         lost' = [lost EXCEPT ![service_key(s)][svc[s].msg.src] = @ \cup {svc[s].msg.id}]
  PROVE  Kept'
<1> DEFINE l == service_key(s)
           m == svc[s].msg
<1>1. /\ queue \in [Keys -> Seq(Message)] /\ TypeOK /\ l \in Keys /\ svc \in [Services -> SvcType]
      /\ lost \in [Keys -> [Procs -> SUBSET Ids]]
  BY KeyOf DEF Typed, TypeOK
<1>2. m \in Message /\ m # Null /\ m.src \in Procs
  BY NullAssumption DEF Message
<1>3. m.id \in Int
  BY DEF Message, Ids
<1>4. svc'[s].msg = Null /\ \A t \in Services \ {s} : svc'[t] = svc[t]
  BY <1>1, Values
<1>5. m = svc[s].msg /\ l = service_key(s)
  OBVIOUS
<1>6. /\ \A k \in Keys, p \in Procs : k # l \/ p # m.src => lost'[k][p] = lost[k][p]
      /\ lost'[l][m.src] = lost[l][m.src] \cup {m.id}
  BY <1>1, <1>2
<1> HIDE DEF l, m
<1>7. ASSUME NEW k \in Keys, NEW p \in Procs
      PROVE  Turn(queue'[k], Hand(svc', k, p), pending'[k][p], lost'[k][p], p)
  <2>1. Turn(queue[k], Hand(svc, k, p), pending[k][p], lost[k][p], p)
    BY KeptIs
  <2>2. CASE k # l
    <3>1. lost'[k][p] = lost[k][p]
      BY <1>6, <2>2
    <3>2. k # service_key(s) /\ \A t \in Services \ {s} : svc'[t] = svc[t]
      BY <1>4, <1>5, <2>2
    <3>3. Hand(svc', k, p) = Hand(svc, k, p)
      BY ONLY <3>2, HandOther
    <3> QED
      BY <2>1, <3>1, <3>3
  <2>3. CASE k = l
    <3>1. Hand(svc', k, p) = {}
      BY <1>4, <1>5, <2>3, HandIs DEF HandOf
    <3>2. Hand(svc, k, p) = HandOf(svc[s], p)
      BY <1>5, <2>3, HandIs
    <3>3. CASE p = m.src
      <4>1. Hand(svc, k, p) = {m.id}
        BY <1>2, <1>5, <3>2, <3>3 DEF HandOf
      <4>2. lost'[k][p] = lost[k][p] \cup {m.id}
        BY <1>6, <2>3, <3>3
      <4>3. Turn(queue[k], {}, pending[k][p], lost[k][p] \cup {m.id}, p)
        BY <1>1, <1>3, <2>1, <4>1, TurnLoseHand
      <4> QED
        BY <3>1, <4>2, <4>3
    <3>4. CASE p # m.src
      <4>1. Hand(svc, k, p) = {}
        BY <1>5, <3>2, <3>4 DEF HandOf
      <4>2. lost'[k][p] = lost[k][p]
        BY <1>6, <3>4
      <4> QED
        BY <2>1, <3>1, <4>1, <4>2
    <3> QED
      BY <3>3, <3>4
  <2> QED
    BY <2>2, <2>3
<1> QED
  BY <1>7, KeptIs

(* Who is about to send, after one process or service has moved.           *)
ClientSenders(c) ==
  \A p \in Pids : proc'[p].st = "send" => p # c /\ proc[p].st = "send" /\ proc'[p].id = proc[p].id
ServiceSenders(c) ==
  \A s \in Services : svc'[s].st = "asksend" =>
    s # c /\ svc[s].st = "asksend" /\ svc'[s].ask = svc[s].ask

LEMMA ProcMoves ==
  ASSUME Typed, NEW c \in Pids, NEW v, proc' = [proc EXCEPT ![c] = v]
  PROVE  /\ proc'[c] = v /\ \A p \in Pids \ {c} : proc'[p] = proc[p]
         /\ v.st # "send" => ClientSenders(c)
<1>1. proc'[c] = v /\ \A p \in Pids \ {c} : proc'[p] = proc[p]
  BY DEF Typed, TypeOK
<1> QED
  BY <1>1 DEF ClientSenders

LEMMA ServiceMoves ==
  ASSUME Typed, NEW c \in Services, NEW v, svc' = [svc EXCEPT ![c] = v]
  PROVE  /\ svc'[c] = v /\ \A s \in Services \ {c} : svc'[s] = svc[s]
         /\ v.st # "asksend" => ServiceSenders(c)
         /\ v.msg = svc[c].msg => SameHands
<1>1. svc'[c] = v /\ \A s \in Services \ {c} : svc'[s] = svc[s]
  BY DEF Typed, TypeOK
<1> QED
  BY <1>1 DEF ServiceSenders, SameHands

(* Nobody is about to send that was not before.                            *)
LEMMA UnsentKept ==
  ASSUME Typed, Unsent, NEW c, nreq' = nreq,
         proc' = proc \/ ClientSenders(c), svc' = svc \/ ServiceSenders(c),
         \/ pending' = pending
         \/ \E k \in Keys, p \in Procs : \E x : pending' = Forgo(k, p, x)
  PROVE  Unsent'
<1>1. \A k \in Keys, q \in Procs : pending'[k][q] \subseteq pending[k][q]
  <2>1. CASE pending' = pending
    BY <2>1
  <2>2. ASSUME NEW k \in Keys, NEW p \in Procs, NEW x,
               pending' = Forgo(k, p, x)
        PROVE  \A l \in Keys, q \in Procs : pending'[l][q] \subseteq pending[l][q]
    <3>1. /\ \A l \in Keys, q \in Procs : l # k \/ q # p => pending'[l][q] = pending[l][q]
          /\ pending'[k][p] = pending[k][p] \ {x}
      BY <2>2, PendingDrops DEF Typed
    <3> QED
      BY <3>1
  <2> QED
    BY <2>1, <2>2
<1>2. \A p \in Pids : proc'[p].st = "send" => proc[p].st = "send" /\ proc'[p].id = proc[p].id
  BY DEF ClientSenders
<1>3. \A s \in Services : svc'[s].st = "asksend" => svc[s].st = "asksend" /\ svc'[s].ask = svc[s].ask
  BY DEF ServiceSenders
<1> QED
  BY <1>1, <1>2, <1>3, UnsentShrinks

LEMMA UnsentReceive ==
  ASSUME Typed, Unsent, NEW c \in Procs, NEW t \in Services, ReceiveReply(c, t), nreq' = nreq,
         proc' = proc \/ ClientSenders(c), svc' = svc \/ ServiceSenders(c)
  PROVE  Unsent'
<1>1. service_key(t) \in Keys
  BY KeyOf
<1>2. \E k \in Keys, p \in Procs : \E x : pending' = Forgo(k, p, x)
  BY <1>1 DEF ReceiveReply, Forgo
<1> QED
  BY <1>2, UnsentKept

(* The inductive invariant of InOrder.                                  *)
Ordered == Typed /\ Unsent /\ Kept

LEMMA ClientOrdered ==
  ASSUME Ordered, NEW p \in Pids, ClientStep(p) \/ Kill(p) \/ Start(p)
  PROVE  Unsent' /\ Kept'
<1>1. Typed /\ Unsent /\ Kept /\ p \in Procs /\ proc[p] \in ProcType /\ PShape(proc[p], p)
  BY DEF Ordered, Procs, Typed, TypeOK, Shape
<1>2. p \notin Services
  BY RequestIsNoPid
<1>3. svc' = svc /\ SameHands /\ lost' = lost
  BY DEF ClientStep, Msgsnd, Msgrcv, PollReply, PollSleep, Kill, Start, SameHands
<1>4. nreq' = nreq
  BY DEF ClientStep, Msgsnd, Msgrcv, PollReply, PollSleep, Kill, Start
<1>5. CASE Msgsnd(p)
  <2>1. /\ proc[p].st = "send" /\ SendRequest(p, proc[p].to, proc[p].id)
        /\ proc' = [proc EXCEPT ![p] = AfterSend(p)]
    BY <1>5 DEF Msgsnd
  <2>2. proc[p].to \in Services /\ proc[p].id \in Ids
    BY <1>1, <2>1 DEF PShape
  <2>3. proc[p].id <= nreq /\ \A k \in Keys : \A x \in pending[k][p] : x < proc[p].id
    BY <1>1, <2>1 DEF Unsent
  <2>4. AfterSend(p).st # "send"
    BY <1>1, <2>1, Sent
  <2>5. ClientSenders(p)
    BY <1>1, <2>1, <2>4, ProcMoves
  <2>6. Kept'
    BY <1>1, <1>3, <2>1, <2>2, <2>3, SendInOrder
  <2>7. Unsent'
    BY <1>1, <1>2, <1>3, <1>4, <2>1, <2>2, <2>3, <2>5, UnsentSend DEF ClientSenders
  <2> QED
    BY <2>6, <2>7
<1>6. CASE Msgrcv(p)
  <2>1. proc[p].to \in Services /\ ReceiveReply(p, proc[p].to)
    BY <1>1, <1>6 DEF PShape, Msgrcv
  <2>2. ClientSenders(p)
    BY <1>1, <1>6, ProcMoves, Values DEF Msgrcv
  <2> QED
    BY <1>1, <1>3, <1>4, <2>1, <2>2, ReceiveInOrder, UnsentReceive
<1>7. CASE PollReply(p)
  <2>1. proc[p].to \in Services /\ ReceiveReply(p, proc[p].to)
    BY <1>1, <1>7 DEF PShape, PollReply
  <2>2. Exited(p).st # "send"
    BY ExitedIs
  <2>3. ClientSenders(p)
    BY <1>1, <1>7, <2>2, ProcMoves DEF PollReply
  <2> QED
    BY <1>1, <1>3, <1>4, <2>1, <2>3, ReceiveInOrder, UnsentReceive
<1>8. CASE PollSleep(p)
  <2>1. /\ proc' = [proc EXCEPT ![p] = PollNext(p)] /\ proc[p].st = "poll"
        /\ queue' = queue /\ pending' = pending
    BY <1>1, <1>8 DEF PollSleep, PollNext, Typed, TypeOK
  <2>2. PollNext(p).st # "send"
    BY <1>1, <2>1, PollNextIs, ExitedIs
  <2>3. ClientSenders(p)
    BY <1>1, <2>1, <2>2, ProcMoves
  <2> QED
    BY <1>1, <1>3, <1>4, <2>1, <2>3, QuietInOrder, UnsentKept
<1>9. CASE Kill(p)
  <2>1. queue' = queue /\ pending' = pending
    BY <1>9 DEF Kill
  <2>2. ASSUME NEW q \in Pids
        PROVE  proc'[q] \in {Exited(p), Dead, proc[q]} /\ (q = p => proc'[q] \in {Exited(p), Dead})
    BY <1>9 DEF Kill
  <2>3. Exited(p).st # "send" /\ Dead.st # "send"
    BY ExitedIs, Values
  <2>4. ClientSenders(p)
    BY <2>2, <2>3 DEF ClientSenders
  <2> QED
    BY <1>1, <1>3, <1>4, <2>1, <2>4, QuietInOrder, UnsentKept
<1>10. CASE Start(p)
  <2>1. queue' = queue /\ pending' = pending
    BY <1>10 DEF Start
  <2>2. ClientSenders(p)
    BY <1>1, <1>10, ProcMoves, Values DEF Start
  <2> QED
    BY <1>1, <1>3, <1>4, <2>1, <2>2, QuietInOrder, UnsentKept
<1> QED
  BY <1>5, <1>6, <1>7, <1>8, <1>9, <1>10 DEF ClientStep

LEMMA CallOrdered ==
  ASSUME Ordered, NEW p \in Pids, NEW s \in Services,
         \/ CallSend(p, s) \/ CallReceive(p, s)
         \/ \E c \in Children : CallTell(p, c, s)
  PROVE  Unsent' /\ Kept'
<1>1. Typed /\ Unsent /\ Kept /\ TypeOK
  BY DEF Ordered, Typed
<1>2. svc' = svc /\ SameHands /\ queue' = queue /\ pending' = pending /\ lost' = lost
  BY DEF CallSend, CallReceive, CallTell, SameHands
<1>3. Kept'
  BY <1>1, <1>2, QuietInOrder
<1>4. ASSUME NEW c \in Pids, NEW id \in Ids, NewRequest(id),
             NEW op \in {"send", "ask", "tell"},
             proc' = [proc EXCEPT ![c] = SendRec(op, s, id)]
      PROVE  Unsent'
  <2>1. nreq' = id /\ nreq' = nreq + 1
    BY <1>1, <1>4, NewRequestIs
  <2>2. PICK v : v = SendRec(op, s, id)
    OBVIOUS
  <2>3. v.id = id
    BY <2>2, Sending
  <2>4. proc'[c] = v /\ \A q \in Pids \ {c} : proc'[q] = proc[q]
    BY <1>1, <1>4, <2>2, ProcMoves
  <2> QED
    BY <1>1, <1>2, <2>1, <2>3, <2>4, UnsentNew
<1>5. CASE CallSend(p, s)
  BY <1>3, <1>4, <1>5 DEF CallSend, SendRec
<1>6. CASE CallReceive(p, s)
  <2>1. PICK v : v = ReceiveRec(s)
    OBVIOUS
  <2>2. v.st = "receive"
    BY <2>1, Receiving
  <2>3. ClientSenders(p) /\ nreq' = nreq
    BY <1>1, <1>6, <2>1, <2>2, ProcMoves DEF CallReceive, ReceiveRec
  <2> QED
    BY <1>1, <1>2, <1>3, <2>3, UnsentKept
<1>7. ASSUME NEW c \in Children, CallTell(p, c, s) PROVE Unsent'
  <2>1. c \in Pids
    BY DEF Pids
  <2> QED
    BY <1>4, <1>7, <2>1 DEF CallTell, SendRec
<1> QED
  BY <1>3, <1>5, <1>6, <1>7

LEMMA ReapOrdered ==
  ASSUME Ordered, NEW p \in Pids, NEW c \in Children, Reap(p, c)
  PROVE  Unsent' /\ Kept'
<1>1. Typed /\ Unsent /\ Kept /\ c \in Pids
  BY DEF Ordered, Pids
<1>2. svc' = svc /\ SameHands /\ queue' = queue /\ pending' = pending /\ lost' = lost /\ nreq' = nreq
  BY DEF Reap, SameHands
<1>3. ClientSenders(c)
  BY <1>1, ProcMoves, Values DEF Reap
<1> QED
  BY <1>1, <1>2, <1>3, QuietInOrder, UnsentKept

LEMMA ServiceOrdered ==
  ASSUME DistinctKeys, Ordered, NEW s \in Services,
         \/ ServiceStep(s) \/ SvcCrash(s)
         \/ \E t \in Services : SvcAsk(s, t)
  PROVE  Unsent' /\ Kept'
<1>1. /\ Typed /\ Unsent /\ Kept /\ TypeOK
      /\ svc \in [Services -> SvcType] /\ SShape(svc[s])
  BY DEF Ordered, Typed, TypeOK, Shape
<1>2. s \in Procs /\ s \notin Pids /\ service_key(s) \in Keys
  BY RequestIsNoPid, KeyOf DEF Procs
<1>3. proc' = proc
  BY DEF ServiceStep, SvcReceive, SvcCheck, SvcEval, SvcAskSend, SvcAskReceive, SvcReply,
         SvcStart, SvcCrash, SvcAsk
<1>4. CASE SvcReceive(s)
  <2>1. PICK m : svc' = [svc EXCEPT ![s] = Took(svc[s], m)]
    BY <1>1, <1>4 DEF SvcReceive, Took
  <2>2. Took(svc[s], m).st = "check"
    BY <1>1 DEF SvcType, Took
  <2>3. ServiceSenders(s)
    BY <1>1, <2>1, <2>2, ServiceMoves
  <2>4. nreq' = nreq /\ pending' = pending
    BY <1>4 DEF SvcReceive, Took
  <2> QED
    BY <1>1, <1>3, <1>4, <2>3, <2>4, SvcReceiveInOrder, UnsentKept
<1>5. CASE SvcCheck(s)
  <2>1. svc[s].st = "check" /\ svc[s].msg \in Message
    BY <1>1, <1>5, SvcInHand DEF SvcCheck
  <2>2. svc[s].msg.src \in Procs /\ queue' = queue /\ nreq' = nreq /\ lost' = lost
    BY <1>5, <2>1 DEF Message, SvcCheck
  <2>3. CASE Alive(svc[s].msg.src)
    <3>1. svc' = [svc EXCEPT ![s] = Moved(svc[s], "eval")] /\ pending' = pending
      BY <1>1, <1>5, <2>3 DEF SvcCheck, Moved
    <3>2. ServiceSenders(s) /\ SameHands
      BY <1>1, <2>1, <3>1, SvcGoesOn, ServiceMoves
    <3> QED
      BY <1>1, <1>3, <2>2, <3>1, <3>2, QuietInOrder, UnsentKept
  <2>4. CASE ~Alive(svc[s].msg.src)
    <3>1. /\ svc' = [svc EXCEPT ![s] = Ready]
          /\ pending' = Forgo(service_key(s), svc[s].msg.src, svc[s].msg.id)
      BY <1>5, <2>4 DEF SvcCheck, Forgo
    <3>2. ServiceSenders(s)
      BY <1>1, <3>1, Values, ServiceMoves
    <3>3. Kept'
      BY <1>1, <2>1, <2>2, <3>1, DropInOrder
    <3>4. \E k \in Keys, p \in Procs : \E x : pending' = Forgo(k, p, x)
      BY <1>2, <2>2, <3>1
    <3>5. Unsent'
      BY <1>1, <1>3, <2>2, <3>2, <3>4, UnsentKept
    <3> QED
      BY <3>3, <3>5
  <2> QED
    BY <2>3, <2>4
<1>6. CASE SvcEval(s)
  <2>1. /\ svc' = [svc EXCEPT ![s] = Moved(svc[s], "reply")]
        /\ svc[s].st = "eval" /\ queue' = queue /\ pending' = pending /\ nreq' = nreq
        /\ lost' = lost
    BY <1>1, <1>6 DEF SvcEval, Moved
  <2>2. ServiceSenders(s) /\ SameHands
    BY <1>1, <2>1, SvcGoesOn, ServiceMoves
  <2> QED
    BY <1>1, <1>3, <2>1, <2>2, QuietInOrder, UnsentKept
<1>7. ASSUME NEW t \in Services, SvcAsk(s, t) PROVE Unsent' /\ Kept'
  <2>1. PICK id \in Ids :
          /\ NewRequest(id)
          /\ svc' = [svc EXCEPT ![s] = Asks(svc[s], id, t)]
    BY <1>1, <1>7 DEF SvcAsk, Asks
  <2>2. svc[s].st = "eval" /\ queue' = queue /\ pending' = pending /\ lost' = lost /\ Calls # {}
    BY <1>7 DEF SvcAsk, Asks
  <2>3. PICK v : v = Asks(svc[s], id, t)
    OBVIOUS
  <2>4. v.ask = id /\ v.msg = svc[s].msg
    BY <1>1, <2>2, <2>3, SvcAsks
  <2>5. svc'[s] = v /\ (\A u \in Services \ {s} : svc'[u] = svc[u]) /\ SameHands
    BY <1>1, <2>1, <2>3, <2>4, ServiceMoves
  <2>6. nreq' = id /\ nreq' = nreq + 1
    BY <1>1, <2>1, NewRequestIs
  <2>7. Unsent'
    BY <1>1, <1>3, <2>2, <2>4, <2>5, <2>6, UnsentNew
  <2> QED
    BY <1>1, <2>2, <2>5, <2>7, QuietInOrder
<1>8. CASE SvcAskSend(s)
  <2>1. /\ svc' = [svc EXCEPT ![s] = Moved(svc[s], "askreceive")]
        /\ svc[s].st = "asksend" /\ SendRequest(s, svc[s].to, svc[s].ask) /\ nreq' = nreq
        /\ lost' = lost
    BY <1>1, <1>8 DEF SvcAskSend, Moved
  <2>2. ServiceSenders(s) /\ SameHands
    <3>1. PICK v : v = Moved(svc[s], "askreceive")
      OBVIOUS
    <3>2. v.st = "askreceive" /\ v.msg = svc[s].msg
      BY <1>1, <2>1, <3>1, SvcWaits
    <3> QED
      BY <1>1, <2>1, <3>1, <3>2, ServiceMoves
  <2>3. svc[s].to \in Services /\ svc[s].ask \in Ids
    BY <1>1, <2>1 DEF SShape
  <2>4. svc[s].ask <= nreq /\ \A k \in Keys : \A x \in pending[k][s] : x < svc[s].ask
    BY <1>1, <2>1 DEF Unsent
  <2>5. Kept'
    BY <1>1, <1>2, <2>1, <2>2, <2>3, <2>4, SendInOrder
  <2>6. Unsent'
    BY <1>1, <1>2, <1>3, <2>1, <2>2, <2>3, <2>4, UnsentSend DEF ServiceSenders
  <2> QED
    BY <2>5, <2>6
<1>9. CASE SvcAskReceive(s)
  <2>1. /\ svc' = [svc EXCEPT ![s] = Answered(svc[s])]
        /\ svc[s].st = "askreceive" /\ ReceiveReply(s, svc[s].to) /\ nreq' = nreq
        /\ lost' = lost
    BY <1>1, <1>9 DEF SvcAskReceive, Answered
  <2>2. svc[s].to \in Services
    BY <1>1, <2>1 DEF SShape
  <2>3. PICK v : v = Answered(svc[s])
    OBVIOUS
  <2>4. v.st = "reply" /\ v.msg = svc[s].msg
    BY <1>1, <2>1, <2>3, SvcAnswered
  <2>5. ServiceSenders(s) /\ SameHands
    BY <1>1, <2>1, <2>3, <2>4, ServiceMoves
  <2> QED
    BY <1>1, <1>2, <1>3, <2>1, <2>2, <2>5, ReceiveInOrder, UnsentReceive
<1>10. CASE SvcReply(s)
  <2>1. svc' = [svc EXCEPT ![s] = Ready] /\ nreq' = nreq /\ pending' = pending
    BY <1>10 DEF SvcReply
  <2>2. ServiceSenders(s)
    BY <1>1, <2>1, Values, ServiceMoves
  <2> QED
    BY <1>1, <1>3, <1>10, <2>1, <2>2, SvcReplyInOrder, UnsentKept
<1>11. CASE SvcCrash(s)
  <2>1. svc' = [svc EXCEPT ![s] = Down] /\ nreq' = nreq /\ queue' = queue /\ pending' = pending
    BY <1>11 DEF SvcCrash
  <2>2. ServiceSenders(s)
    BY <1>1, <2>1, Values, ServiceMoves
  <2>3. Unsent'
    BY <1>1, <1>3, <2>1, <2>2, UnsentKept
  <2>4. CASE svc[s].msg = Null
    <3>1. lost' = lost
      BY <1>11, <2>4 DEF SvcCrash
    <3>2. SameHands
      BY <1>1, <2>1, <2>4, Values, ServiceMoves
    <3> QED
      BY <1>1, <2>1, <2>3, <3>1, <3>2, QuietInOrder
  <2>5. CASE svc[s].msg # Null
    <3>1. svc[s].msg \in Message
      BY <1>1, <2>5 DEF SvcType
    <3>2. lost' = [lost EXCEPT ![service_key(s)][svc[s].msg.src] = @ \cup {svc[s].msg.id}]
      BY <1>11, <2>5 DEF SvcCrash
    <3> QED
      BY <1>1, <2>1, <2>3, <3>1, <3>2, LoseInOrder
  <2> QED
    BY <2>4, <2>5
<1>12. CASE SvcStart(s)
  <2>1. /\ svc' = [svc EXCEPT ![s] = Ready] /\ svc[s].st = "down"
        /\ queue' = queue /\ pending' = pending /\ nreq' = nreq /\ lost' = lost
    BY <1>12 DEF SvcStart
  <2>2. svc[s].msg = Null
    BY <1>1, <2>1 DEF SShape
  <2>3. ServiceSenders(s) /\ SameHands
    BY <1>1, <2>1, <2>2, Values, ServiceMoves
  <2> QED
    BY <1>1, <1>3, <2>1, <2>3, QuietInOrder, UnsentKept
<1> QED
  BY <1>4, <1>5, <1>6, <1>7, <1>8, <1>9, <1>10, <1>11, <1>12 DEF ServiceStep

LEMMA InitOrdered == Init => Ordered
<1> SUFFICES ASSUME Init PROVE Unsent /\ Kept
  BY InitTyped DEF Ordered
<1>1. Unsent
  BY Values DEF Init, Unsent, Procs
<1>2. ASSUME NEW k \in Keys, NEW p \in Procs
      PROVE  Turn(queue[k], Hand(svc, k, p), pending[k][p], lost[k][p], p)
  <2>1. queue[k] = <<>> /\ pending[k][p] = {} /\ lost[k][p] = {} /\ Hand(svc, k, p) = {}
    BY Values DEF Init, Hand
  <2>2. Replies(<<>>, p) = {} /\ Requests(<<>>, p) = {}
    BY DEF Replies, Requests
  <2> QED
    BY <2>1, <2>2 DEF Turn, InTurn
<1> QED
  BY <1>1, <1>2, KeptIs

LEMMA StepOrdered == DistinctKeys /\ Ordered /\ [Next]_vars => Ordered'
<1> SUFFICES ASSUME DistinctKeys, Ordered, [Next]_vars PROVE Ordered'
  OBVIOUS
<1>1. Typed'
  BY StepTyped DEF Ordered
<1>2. CASE UNCHANGED vars
  <2>1. Unsent' /\ SameHands /\ queue' = queue /\ pending' = pending /\ lost' = lost
    BY <1>2 DEF vars, Ordered, Unsent, SameHands
  <2> QED
    BY <1>1, <2>1, QuietInOrder DEF Ordered
<1>3. CASE Next
  <2>1. Unsent' /\ Kept'
    BY <1>3, ClientOrdered, CallOrdered, ReapOrdered, ServiceOrdered DEF Next
  <2> QED
    BY <1>1, <2>1 DEF Ordered
<1> QED
  BY <1>2, <1>3

(* When every service has a queue of its own, InOrder holds whatever       *)
(* happens: sends without receives, several shells and tells at once,      *)
(* kills, pids used again, crashes of services and services that ask each  *)
(* other.                                                                  *)
THEOREM InOrderThm == DistinctKeys => (Spec => []InOrder)
<1> SUFFICES ASSUME DistinctKeys PROVE Spec => []InOrder
  OBVIOUS
<1>1. Ordered /\ [Next]_vars => Ordered'
  BY StepOrdered
<1>2. Spec => []Ordered
  BY InitOrdered, <1>1, PTL DEF Spec
<1>3. Ordered => InOrder
  BY DEF Ordered, Kept
<1> QED
  BY <1>2, <1>3, PTL

-----------------------------------------------------------------------------
(* A reply is the one its addressee waits for, or stale                    *)

(* The process a message belongs to: who asked.                            *)
Client(m) == IF m.dst = Request THEN m.src ELSE m.dst

LEMMA ClientIsProc == \A m \in Message : Client(m) \in Procs
BY DEF Client, Message

(* What is on a queue or in hand is pending.                               *)
LEMMA MessageIsPending ==
  ASSUME Ordered
  PROVE  /\ \A k \in Keys : \A i \in 1 .. Len(queue[k]) :
              /\ queue[k][i] \in Message
              /\ queue[k][i].id \in pending[k][Client(queue[k][i])]
         /\ \A s \in Services : svc[s].msg # Null =>
              /\ svc[s].msg \in Message
              /\ svc[s].msg.id \in pending[service_key(s)][svc[s].msg.src]
<1>1. queue \in [Keys -> Seq(Message)] /\ svc \in [Services -> SvcType]
  BY DEF Ordered, Typed, TypeOK
<1>2. ASSUME NEW k \in Keys, NEW i \in 1 .. Len(queue[k])
      PROVE  queue[k][i] \in Message /\ queue[k][i].id \in pending[k][Client(queue[k][i])]
  <2> DEFINE p == Client(queue[k][i])
  <2>1. queue[k][i] \in Message
    BY <1>1, MessageIds
  <2>2. p \in Procs
    BY <2>1, ClientIsProc
  <2>3. Turn(queue[k], Hand(svc, k, p), pending[k][p], lost[k][p], p)
    BY <2>2, KeptIs DEF Ordered
  <2>4. i \in Replies(queue[k], p) \cup Requests(queue[k], p)
    BY DEF Client, Replies, Requests
  <2> HIDE DEF p
  <2>5. queue[k][i].id \in pending[k][p]
    BY <2>3, <2>4 DEF Turn, InTurn
  <2> QED
    BY <2>1, <2>5 DEF p
<1>3. ASSUME NEW s \in Services, svc[s].msg # Null
      PROVE  /\ svc[s].msg \in Message
             /\ svc[s].msg.id \in pending[service_key(s)][svc[s].msg.src]
  <2> DEFINE p == svc[s].msg.src
             k == service_key(s)
  <2>1. svc[s].msg \in Message
    BY <1>1, <1>3 DEF SvcType
  <2>2. p \in Procs /\ k \in Keys
    BY <2>1, KeyOf DEF Message
  <2>3. Turn(queue[k], Hand(svc, k, p), pending[k][p], lost[k][p], p)
    BY <2>2, KeptIs DEF Ordered
  <2>4. svc[s].msg.id \in Hand(svc, k, p)
    BY <1>3 DEF Hand
  <2> QED
    BY <2>1, <2>3, <2>4 DEF Turn, InTurn
<1> QED
  BY <1>2, <1>3

(* The reply that is received is to a pending request.                     *)
LEMMA ReceivedIsPending ==
  ASSUME Ordered, NEW c \in Procs, NEW t \in Services, ReceiveReply(c, t)
  PROVE  /\ service_key(t) \in Keys
         /\ \E x \in pending[service_key(t)][c] : pending' = Forgo(service_key(t), c, x)
<1> DEFINE k == service_key(t)
           i == FirstOf(k, c)
<1>1. k \in Keys /\ TypeOK
  BY KeyOf DEF Ordered, Typed
<1>2. i \in Replies(queue[k], c)
  BY FirstOfIsFirst, WaitingReplies DEF ReceiveReply
<1>3. Turn(queue[k], Hand(svc, k, c), pending[k][c], lost[k][c], c)
  BY <1>1, KeptIs DEF Ordered
<1>4. queue[k][i].id \in pending[k][c]
  BY <1>2, <1>3 DEF Turn, InTurn
<1>5. pending' = Forgo(k, c, queue[k][i].id)
  BY DEF ReceiveReply, Forgo
<1> QED
  BY <1>1, <1>4, <1>5

(* Of the requests P under the pid of r on queue k, r waits for those      *)
(* above n, or it has exited.                                              *)
Claims(r, P, k, n) ==
  \A x \in P : \/ x <= n
               \/ r.st \in {"receive", "poll"} /\ r.id = x /\ service_key(r.to) = k
               \/ r.st \in {"none", "zombie"}

Claimed(p) ==
  /\ stale[p] <= nreq
  /\ proc[p].st = "send" /\ proc[p].op = "send" => proc[p].id <= stale[p]
  /\ \A k \in Keys : Claims(proc[p], pending[k][p], k, stale[p])

Fresh == \A p \in Pids : Claimed(p)

(* The inductive invariant of AnswerMatches.                               *)
Answering == Ordered /\ Fresh

(* Process c has moved; of the others some were reaped.                    *)
LEMMA FreshMoves ==
  ASSUME Typed, Fresh, nreq' \in Nat, nreq <= nreq', NEW c,
         \A p \in Pids \ {c} : /\ proc'[p] = proc[p] \/ proc'[p].st \in {"none", "zombie"}
                               /\ stale'[p] = stale[p]
                               /\ \A k \in Keys : pending'[k][p] \subseteq pending[k][p],
         c \in Pids => Claimed(c)'
  PROVE  Fresh'
<1> SUFFICES ASSUME NEW p \in Pids \ {c} PROVE Claimed(p)'
  BY DEF Fresh
<1>1. Claimed(p) /\ stale[p] \in Nat /\ nreq \in Nat
  BY DEF Fresh, Typed, TypeOK
<1>2. stale'[p] = stale[p] /\ stale[p] <= nreq'
  BY <1>1 DEF Claimed
<1>3. CASE proc'[p] = proc[p]
  BY <1>1, <1>2, <1>3 DEF Claimed, Claims
<1>4. CASE proc'[p].st \in {"none", "zombie"}
  BY <1>2, <1>4 DEF Claimed, Claims
<1> QED
  BY <1>3, <1>4

(* All that was asked under pid p is stale, or has exited askers.          *)
LEMMA ClaimedAll ==
  ASSUME Ordered', NEW p \in Pids, stale'[p] \in Nat, stale'[p] <= nreq',
         \/ proc'[p].st # "send" /\ stale'[p] = nreq'
         \/ proc'[p].st \in {"none", "zombie"}
  PROVE  Claimed(p)'
<1>1. CASE proc'[p].st # "send" /\ stale'[p] = nreq'
  <2>1. p \in Procs
    BY DEF Procs
  <2>2. \A k \in Keys : \A x \in pending'[k][p] : x <= nreq'
    BY <2>1 DEF Ordered, Unsent
  <2> QED
    BY <1>1, <2>2 DEF Claimed, Claims
<1>2. CASE proc'[p].st \in {"none", "zombie"}
  BY <1>2 DEF Claimed, Claims
<1> QED
  BY <1>1, <1>2

(* A process that is between commands has only stale requests.             *)
LEMMA StaleOnly ==
  ASSUME Fresh, NEW p \in Pids, proc[p].st \in {"idle", "send"}
  PROVE  \A k \in Keys : \A x \in pending[k][p] : x <= stale[p]
BY DEF Fresh, Claimed, Claims

LEMMA ClientFresh ==
  ASSUME Answering, Ordered', NEW p \in Pids, ClientStep(p) \/ Kill(p) \/ Start(p)
  PROVE  Fresh'
<1>1. /\ Typed /\ TypeOK /\ Ordered /\ Unsent /\ Fresh /\ p \in Procs /\ proc \in [Pids -> ProcType]
      /\ proc[p] \in ProcType /\ PShape(proc[p], p) /\ stale \in [Pids -> 0 .. MaxRequests]
      /\ nreq \in Nat /\ stale[p] \in Nat /\ stale[p] <= nreq
  <2>1. Typed /\ TypeOK /\ Ordered /\ Unsent /\ Fresh
    BY DEF Answering, Ordered, Typed
  <2>2. stale[p] <= nreq
    BY <2>1 DEF Fresh, Claimed
  <2>3. nreq \in Nat /\ stale \in [Pids -> 0 .. MaxRequests] /\ proc \in [Pids -> ProcType]
    BY <2>1 DEF TypeOK
  <2>4. PShape(proc[p], p) /\ p \in Procs
    BY <2>1 DEF Typed, Shape, Procs
  <2> QED
    BY <2>1, <2>2, <2>3, <2>4
<1>2. nreq' = nreq
  BY DEF ClientStep, Msgsnd, Msgrcv, PollReply, PollSleep, Kill, Start
<1>3. Pids \subseteq Procs
  BY DEF Procs
<1>4. CASE Msgsnd(p)
  <2>1. /\ proc[p].st = "send" /\ SendRequest(p, proc[p].to, proc[p].id) /\ stale' = stale
        /\ proc' = [proc EXCEPT ![p] = AfterSend(p)]
    BY <1>4 DEF Msgsnd
  <2>2. proc[p].to \in Services /\ service_key(proc[p].to) \in Keys
    BY <1>1, <2>1, KeyOf DEF PShape
  <2>3. pending' = Owe(service_key(proc[p].to), p, proc[p].id)
    BY <2>1 DEF SendRequest, Owe
  <2>4. /\ \A l \in Keys, q \in Procs : l # service_key(proc[p].to) \/ q # p => pending'[l][q] = pending[l][q]
        /\ pending'[service_key(proc[p].to)][p] = pending[service_key(proc[p].to)][p] \cup {proc[p].id}
    BY <1>1, <2>2, <2>3, PendingAdds
  <2>5. PICK v : v = AfterSend(p)
    OBVIOUS
  <2>6. proc'[p] = v /\ \A q \in Pids \ {p} : proc'[q] = proc[q]
    BY <1>1, <2>1, <2>5, ProcMoves
  <2>7. \A k \in Keys : \A x \in pending[k][p] : x <= stale[p]
    BY <1>1, <2>1, StaleOnly
  <2>8. v.st # "send" /\ (proc[p].op # "send" => /\ v.st \in {"receive", "poll"}
                                                /\ v.id = proc[p].id /\ v.to = proc[p].to)
    BY <1>1, <2>1, <2>5, Sent
  <2>9. proc[p].op = "send" => proc[p].id <= stale[p]
    BY <1>1, <2>1 DEF Fresh, Claimed
  <2>10. ASSUME NEW k \in Keys PROVE Claims(v, pending'[k][p], k, stale[p])
    <3>1. \A x \in pending'[k][p] :
            x \in pending[k][p] \/ (x = proc[p].id /\ k = service_key(proc[p].to))
      BY <1>1, <2>4
    <3> QED
      BY <2>7, <2>8, <2>9, <3>1 DEF Claims
  <2>11. Claimed(p)'
    BY <1>1, <1>2, <2>1, <2>6, <2>8, <2>10 DEF Claimed, Claims
  <2>12. \A q \in Pids \ {p} : \A k \in Keys : pending'[k][q] \subseteq pending[k][q]
    BY <1>3, <2>4
  <2> QED
    BY <1>1, <1>2, <2>1, <2>6, <2>11, <2>12, FreshMoves
<1>5. ASSUME NEW v, ReceiveReply(p, proc[p].to), Mistaken(p), proc[p].st \in {"receive", "poll"},
             proc' = [proc EXCEPT ![p] = v], v.st # "send"
      PROVE  Fresh'
  <2> DEFINE k == service_key(proc[p].to)
             x == queue[k][FirstOf(k, p)].id
  <2>1. proc[p].to \in Services /\ k \in Keys
    BY <1>1, <1>5, KeyOf DEF PShape
  <2>2. pending' = Forgo(k, p, x) /\ stale' = IF x = proc[p].id THEN stale ELSE [stale EXCEPT ![p] = nreq]
    BY <1>5 DEF ReceiveReply, Forgo, Mistaken
  <2>3. k = service_key(proc[p].to)
    OBVIOUS
  <2> HIDE DEF x, k
  <2>4. /\ \A l \in Keys, q \in Procs : l # k \/ q # p => pending'[l][q] = pending[l][q]
        /\ pending'[k][p] = pending[k][p] \ {x}
    BY <1>1, <2>1, <2>2, PendingDrops
  <2>5. proc'[p] = v /\ \A q \in Pids \ {p} : proc'[q] = proc[q]
    BY <1>1, <1>5, ProcMoves
  <2>6. \A q \in Pids \ {p} : stale'[q] = stale[q]
    BY <1>1, <2>2
  <2>7. \A q \in Pids \ {p} : \A l \in Keys : pending'[l][q] \subseteq pending[l][q]
    BY <1>3, <2>4
  <2>8. Claimed(p)'
    <3>1. CASE x = proc[p].id
      <4>1. \A l \in Keys : Claims(proc[p], pending[l][p], l, stale[p])
        BY <1>1 DEF Fresh, Claimed
      <4>2. ASSUME NEW l \in Keys, NEW y \in pending'[l][p] PROVE y <= stale[p]
        <5>1. y \in pending[l][p] /\ ~(y = x /\ l = k)
          BY <1>1, <2>4
        <5> QED
          BY <1>5, <2>3, <3>1, <4>1, <5>1 DEF Claims
      <4>3. stale'[p] = stale[p]
        BY <2>2, <3>1
      <4> QED
        BY <1>1, <1>2, <1>5, <2>5, <4>2, <4>3 DEF Claimed, Claims
    <3>2. CASE x # proc[p].id
      <4>1. stale'[p] = nreq
        BY <1>1, <2>2, <3>2
      <4> QED
        BY <1>1, <1>2, <1>5, <2>5, <4>1, ClaimedAll
    <3> QED
      BY <3>1, <3>2
  <2> QED
    BY <1>1, <1>2, <2>5, <2>6, <2>7, <2>8, FreshMoves
<1>6. CASE Msgrcv(p)
  BY <1>5, <1>6, Values DEF Msgrcv
<1>7. CASE PollReply(p)
  <2>1. Exited(p).st # "send"
    BY ExitedIs
  <2> QED
    BY <1>5, <1>7, <2>1 DEF PollReply
<1>8. CASE PollSleep(p)
  <2>1. /\ proc' = [proc EXCEPT ![p] = PollNext(p)] /\ proc[p].st = "poll" /\ pending' = pending
        /\ stale' = stale
    BY <1>1, <1>8 DEF PollSleep, PollNext
  <2>2. PICK v : v = PollNext(p)
    OBVIOUS
  <2>3. proc'[p] = v /\ \A q \in Pids \ {p} : proc'[q] = proc[q]
    BY <1>1, <2>1, <2>2, ProcMoves
  <2>4. \/ v.st = "poll" /\ v.op = proc[p].op /\ v.id = proc[p].id /\ v.to = proc[p].to
        \/ v.st \in {"none", "zombie"}
    BY <1>1, <2>1, <2>2, PollNextIs, ExitedIs
  <2>5. Claimed(p)'
    BY <1>1, <1>2, <2>1, <2>3, <2>4 DEF Fresh, Claimed, Claims
  <2> QED
    BY <1>1, <1>2, <2>1, <2>3, <2>5, FreshMoves
<1>9. CASE Kill(p)
  <2>1. pending' = pending /\ stale' = stale
    BY <1>9 DEF Kill
  <2>2. ASSUME NEW q \in Pids
        PROVE  proc'[q] \in {Exited(p), Dead, proc[q]} /\ (q = p => proc'[q] \in {Exited(p), Dead})
    BY <1>9 DEF Kill
  <2>3. Exited(p).st \in {"none", "zombie"} /\ Dead.st = "none"
    BY ExitedIs, Values
  <2>4. proc'[p].st \in {"none", "zombie"}
    BY <2>2, <2>3
  <2>5. \A q \in Pids \ {p} : proc'[q] = proc[q] \/ proc'[q].st \in {"none", "zombie"}
    BY <2>2, <2>3
  <2>6. Claimed(p)'
    BY <1>1, <1>2, <2>1, <2>4, ClaimedAll
  <2> QED
    BY <1>1, <1>2, <2>1, <2>5, <2>6, FreshMoves
<1>10. CASE Start(p)
  <2>1. pending' = pending /\ stale' = [stale EXCEPT ![p] = nreq] /\ proc' = [proc EXCEPT ![p] = Idle]
    BY <1>10 DEF Start
  <2>2. proc'[p].st = "idle" /\ \A q \in Pids \ {p} : proc'[q] = proc[q]
    BY <1>1, <2>1, ProcMoves, Values
  <2>3. stale'[p] = nreq /\ \A q \in Pids \ {p} : stale'[q] = stale[q]
    BY <1>1, <2>1
  <2>4. Claimed(p)'
    BY <1>1, <1>2, <2>2, <2>3, ClaimedAll
  <2> QED
    BY <1>1, <1>2, <2>1, <2>2, <2>3, <2>4, FreshMoves
<1> QED
  BY <1>4, <1>6, <1>7, <1>8, <1>9, <1>10 DEF ClientStep

LEMMA CallFresh ==
  ASSUME Answering, Ordered', NEW p \in Pids, NEW s \in Services,
         \/ CallSend(p, s) \/ CallReceive(p, s)
         \/ \E c \in Children : CallTell(p, c, s)
  PROVE  Fresh'
<1>1. /\ Typed /\ TypeOK /\ Unsent /\ Fresh /\ stale \in [Pids -> 0 .. MaxRequests] /\ nreq \in Nat
      /\ \A q \in Pids : stale[q] \in Nat /\ stale[q] <= nreq
  BY DEF Answering, Ordered, Typed, TypeOK, Fresh, Claimed
<1>2. pending' = pending
  BY DEF CallSend, CallReceive, CallTell
<1>3. CASE CallSend(p, s)
  <2>1. PICK op \in Ops \cap {"send", "ask"}, id \in Ids :
          /\ NewRequest(id) /\ proc' = [proc EXCEPT ![p] = SendRec(op, s, id)]
          /\ stale' = IF op = "send" THEN [stale EXCEPT ![p] = id] ELSE stale
    BY <1>3 DEF CallSend, SendRec
  <2>2. nreq' = id /\ nreq' = nreq + 1 /\ proc[p].st = "idle"
    BY <1>1, <1>3, <2>1, NewRequestIs DEF CallSend
  <2>3. PICK v : v = SendRec(op, s, id)
    OBVIOUS
  <2>4. v.st = "send" /\ v.op = op /\ v.id = id
    BY <2>3, Sending
  <2>5. proc'[p] = v /\ \A q \in Pids \ {p} : proc'[q] = proc[q]
    BY <1>1, <2>1, <2>3, ProcMoves
  <2>6. \A k \in Keys : \A x \in pending[k][p] : x <= stale[p] /\ x \in Nat
    BY <1>1, <2>2, StaleOnly DEF TypeOK, Ids, Procs
  <2>7. /\ \A q \in Pids \ {p} : stale'[q] = stale[q]
        /\ IF op = "send" THEN stale'[p] = nreq' ELSE stale'[p] = stale[p]
    BY <1>1, <2>1, <2>2
  <2>8. stale'[p] \in Nat /\ stale[p] <= stale'[p] /\ stale'[p] <= nreq'
    BY <1>1, <2>2, <2>7
  <2>9. \A k \in Keys : \A x \in pending'[k][p] : x <= stale'[p]
    BY <1>1, <1>2, <2>6, <2>8
  <2>10. op = "send" => id <= stale'[p]
    BY <1>1, <2>2, <2>7
  <2>11. Claimed(p)'
    BY <2>4, <2>5, <2>8, <2>9, <2>10 DEF Claimed, Claims
  <2>12. nreq' \in Nat /\ nreq <= nreq'
    BY <1>1, <2>2
  <2> QED
    BY <1>1, <1>2, <2>5, <2>7, <2>11, <2>12, FreshMoves
<1>4. CASE CallReceive(p, s)
  <2>1. /\ proc' = [proc EXCEPT ![p] = ReceiveRec(s)] /\ proc[p].st = "idle"
        /\ nreq' = nreq /\ stale' = stale
    BY <1>4 DEF CallReceive, ReceiveRec
  <2>2. PICK v : v = ReceiveRec(s)
    OBVIOUS
  <2>3. v.st = "receive"
    BY <2>2, Receiving
  <2>4. proc'[p] = v /\ \A q \in Pids \ {p} : proc'[q] = proc[q]
    BY <1>1, <2>1, <2>2, ProcMoves
  <2>5. \A k \in Keys : \A x \in pending[k][p] : x <= stale[p]
    BY <1>1, <2>1, StaleOnly
  <2>6. Claimed(p)'
    BY <1>1, <1>2, <2>1, <2>3, <2>4, <2>5 DEF Claimed, Claims
  <2> QED
    BY <1>1, <1>2, <2>1, <2>4, <2>6, FreshMoves
<1>5. ASSUME NEW c \in Children, CallTell(p, c, s) PROVE Fresh'
  <2>1. PICK id \in Ids :
          NewRequest(id) /\ proc' = [proc EXCEPT ![c] = SendRec("tell", s, id)]
    BY <1>5 DEF CallTell, SendRec
  <2>2. nreq' = id /\ nreq' = nreq + 1 /\ c \in Pids /\ stale' = [stale EXCEPT ![c] = nreq]
    BY <1>1, <1>5, <2>1, NewRequestIs DEF CallTell, Pids
  <2>3. PICK v : v = SendRec("tell", s, id)
    OBVIOUS
  <2>4. v.st = "send" /\ v.op = "tell"
    BY <2>3, Sending
  <2>5. proc'[c] = v /\ \A q \in Pids \ {c} : proc'[q] = proc[q]
    BY <1>1, <2>1, <2>2, <2>3, ProcMoves
  <2>6. stale'[c] = nreq /\ \A q \in Pids \ {c} : stale'[q] = stale[q]
    BY <1>1, <2>2
  <2>7. nreq' \in Nat /\ nreq <= nreq'
    BY <1>1, <2>2
  <2>8. \A k \in Keys : \A x \in pending[k][c] : x <= nreq
    BY <1>1, <2>2 DEF Unsent, Procs
  <2>9. Claimed(c)'
    BY <1>2, <2>4, <2>5, <2>6, <2>7, <2>8 DEF Claimed, Claims
  <2> QED
    BY <1>1, <1>2, <2>5, <2>6, <2>7, <2>9, FreshMoves
<1> QED
  BY <1>3, <1>4, <1>5

LEMMA ReapFresh ==
  ASSUME Answering, Ordered', NEW p \in Pids, NEW c \in Children, Reap(p, c)
  PROVE  Fresh'
<1>1. /\ Typed /\ Fresh /\ c \in Pids /\ nreq \in Nat /\ stale[c] \in Nat /\ stale[c] <= nreq
  BY DEF Answering, Ordered, Typed, TypeOK, Fresh, Claimed, Pids
<1>2. proc' = [proc EXCEPT ![c] = Dead] /\ pending' = pending /\ stale' = stale /\ nreq' = nreq
  BY DEF Reap
<1>3. proc'[c].st = "none" /\ \A q \in Pids \ {c} : proc'[q] = proc[q]
  BY <1>1, <1>2, ProcMoves, Values
<1>4. Claimed(c)'
  BY <1>1, <1>2, <1>3, ClaimedAll
<1> QED
  BY <1>1, <1>2, <1>3, <1>4, FreshMoves

LEMMA ServiceFresh ==
  ASSUME Answering, NEW s \in Services,
         \/ ServiceStep(s) \/ SvcCrash(s)
         \/ \E t \in Services : SvcAsk(s, t)
  PROVE  Fresh'
<1>1. /\ Typed /\ TypeOK /\ Fresh /\ SShape(svc[s]) /\ nreq \in Nat /\ s \notin Pids
      /\ service_key(s) \in Keys /\ s \in Procs /\ Pids \subseteq Procs
  <2>1. Typed /\ TypeOK /\ Fresh /\ SShape(svc[s]) /\ nreq \in Nat
    BY DEF Answering, Ordered, Typed, TypeOK, Shape
  <2> QED
    BY <2>1, RequestIsNoPid, KeyOf DEF Procs
<1>2. proc' = proc /\ stale' = stale
  BY DEF ServiceStep, SvcReceive, SvcCheck, SvcEval, SvcAskSend, SvcAskReceive, SvcReply,
         SvcStart, SvcCrash, SvcAsk
<1>3. ASSUME nreq' \in Nat, nreq <= nreq',
             \A q \in Pids : \A k \in Keys : pending'[k][q] \subseteq pending[k][q]
      PROVE  Fresh'
  BY <1>1, <1>2, <1>3, FreshMoves
<1>4. CASE SvcAskSend(s)
  <2>1. SendRequest(s, svc[s].to, svc[s].ask) /\ svc[s].st = "asksend" /\ nreq' = nreq
    BY <1>4 DEF SvcAskSend
  <2>2. service_key(svc[s].to) \in Keys
    BY <1>1, <2>1, KeyOf DEF SShape
  <2>3. pending' = Owe(service_key(svc[s].to), s, svc[s].ask)
    BY <2>1 DEF SendRequest, Owe
  <2>4. \A q \in Pids : \A k \in Keys : pending'[k][q] \subseteq pending[k][q]
    BY <1>1, <2>2, <2>3, PendingAdds
  <2> QED
    BY <1>1, <1>3, <2>1, <2>4
<1>5. CASE SvcAskReceive(s)
  <2>1. ReceiveReply(s, svc[s].to) /\ svc[s].st = "askreceive" /\ nreq' = nreq
    BY <1>5 DEF SvcAskReceive
  <2>2. service_key(svc[s].to) \in Keys
    BY <1>1, <2>1, KeyOf DEF SShape
  <2>3. \E x : pending' = Forgo(service_key(svc[s].to), s, x)
    BY <2>1 DEF ReceiveReply, Forgo
  <2>4. \A q \in Pids : \A k \in Keys : pending'[k][q] \subseteq pending[k][q]
    BY <1>1, <2>2, <2>3, PendingDrops
  <2> QED
    BY <1>1, <1>3, <2>1, <2>4
<1>6. CASE SvcCheck(s)
  <2>1. svc[s].st = "check" /\ nreq' = nreq
    BY <1>6 DEF SvcCheck
  <2>2. svc[s].msg.src \in Procs
    BY <1>1, <2>1, SvcInHand DEF Message
  <2>3. pending' = pending \/ pending' = Forgo(service_key(s), svc[s].msg.src, svc[s].msg.id)
    BY <1>6 DEF SvcCheck, Forgo
  <2>4. ASSUME NEW q \in Pids, NEW k \in Keys PROVE pending'[k][q] \subseteq pending[k][q]
    <3>1. CASE pending' = pending
      BY <3>1
    <3>2. CASE pending' = Forgo(service_key(s), svc[s].msg.src, svc[s].msg.id)
      <4>1. /\ \A l \in Keys, u \in Procs :
                 l # service_key(s) \/ u # svc[s].msg.src => pending'[l][u] = pending[l][u]
            /\ pending'[service_key(s)][svc[s].msg.src] =
                 pending[service_key(s)][svc[s].msg.src] \ {svc[s].msg.id}
        BY <1>1, <2>2, <3>2, PendingDrops
      <4> QED
        BY <1>1, <4>1
    <3> QED
      BY <2>3, <3>1, <3>2
  <2> QED
    BY <1>1, <1>3, <2>1, <2>4
<1>7. ASSUME NEW t \in Services, SvcAsk(s, t) PROVE Fresh'
  <2>1. nreq' = nreq + 1 /\ pending' = pending
    BY <1>7 DEF SvcAsk, NewRequest
  <2> QED
    BY <1>1, <1>3, <2>1
<1>8. CASE SvcReceive(s) \/ SvcEval(s) \/ SvcReply(s) \/ SvcStart(s) \/ SvcCrash(s)
  <2>1. nreq' = nreq /\ pending' = pending
    BY <1>8 DEF SvcReceive, SvcEval, SvcReply, SvcStart, SvcCrash
  <2> QED
    BY <1>1, <1>3, <2>1
<1> QED
  BY <1>4, <1>5, <1>6, <1>7, <1>8 DEF ServiceStep

LEMMA StepAnswering == DistinctKeys /\ Answering /\ [Next]_vars => Answering'
<1> SUFFICES ASSUME DistinctKeys, Answering, [Next]_vars PROVE Answering'
  OBVIOUS
<1>1. Ordered'
  BY StepOrdered DEF Answering
<1>2. CASE UNCHANGED vars
  BY <1>1, <1>2 DEF vars, Answering, Fresh, Claimed, Claims
<1>3. CASE Next
  <2>1. Fresh'
    BY <1>1, <1>3, ClientFresh, CallFresh, ReapFresh, ServiceFresh DEF Next
  <2> QED
    BY <1>1, <2>1 DEF Answering
<1> QED
  BY <1>2, <1>3

(* When services do not share a queue, AnswerMatches holds whatever        *)
(* happens, kills, pids used again, children that are reaped, sends        *)
(* without receives, crashes of services and tells that give up included:  *)
(* a reply that is not stale answers the question its addressee waits      *)
(* with.                                                                   *)
THEOREM AnswerMatchesThm == DistinctKeys => (Spec => []AnswerMatches)
<1> SUFFICES ASSUME DistinctKeys PROVE Spec => []AnswerMatches
  OBVIOUS
<1>1. Answering /\ [Next]_vars => Answering'
  BY StepAnswering
<1>2. Init => Answering
  <2> SUFFICES ASSUME Init PROVE Fresh
    BY InitOrdered DEF Answering
  <2>1. \A p \in Pids : proc[p].st # "send" /\ stale[p] = 0 /\ \A k \in Keys : pending[k][p] = {}
    BY Values DEF Init, Procs
  <2>2. nreq = 0
    BY DEF Init
  <2> QED
    BY <2>1, <2>2 DEF Fresh, Claimed, Claims
<1>3. Spec => []Answering
  BY <1>1, <1>2, PTL DEF Spec
<1>4. Answering => AnswerMatches
  <2> SUFFICES ASSUME Answering, NEW k \in Keys, NEW i \in 1 .. Len(queue[k]),
                      queue[k][i].dst \in Pids, queue[k][i].id > stale[queue[k][i].dst]
               PROVE  LET m == queue[k][i]
                      IN  \/ proc[m.dst].st \in {"receive", "poll"} /\ proc[m.dst].id = m.id
                          \/ proc[m.dst].st \in {"none", "zombie"}
    BY DEF AnswerMatches
  <2> DEFINE p == queue[k][i].dst
  <2>1. queue[k][i].id \in pending[k][Client(queue[k][i])] /\ queue[k][i] \in Message
    BY MessageIsPending DEF Answering
  <2>2. Client(queue[k][i]) = p /\ p \in Pids
    BY RequestIsNoPid DEF Client, Procs
  <2>3. Claims(proc[p], pending[k][p], k, stale[p])
    BY <2>2 DEF Answering, Fresh, Claimed
  <2>4. queue[k][i].id \in Nat /\ stale[p] \in Nat
    BY <2>1, <2>2 DEF Message, Ids, Answering, Ordered, Typed, TypeOK
  <2>5. ~(queue[k][i].id <= stale[p])
    BY <2>4
  <2> QED
    BY <2>1, <2>2, <2>3, <2>5 DEF Claims
<1> QED
  BY <1>3, <1>4, PTL

-----------------------------------------------------------------------------
(* A process has one request at a time                                     *)

(* The clients of a service use ask and tell, which send one request and   *)
(* wait for its reply, and no pid is used again: none is killed, and no    *)
(* shell waits for its children.                                           *)
OneAtATime == ~MayKill /\ Ops \cap {"send", "wait"} = {}

(* Of the requests P of a process on queue k, it waits for each.           *)
ClientWaits(r, P, k) ==
  \A x \in P : \/ r.st \in {"receive", "poll"} /\ r.id = x /\ service_key(r.to) = k
               \/ r.st = "zombie"
ServiceWaits(r, P, k) ==
  \A x \in P : r.st = "askreceive" /\ r.ask = x /\ service_key(r.to) = k

(* A child of tell has a parent, so it stays a zombie when it gives up.    *)
Commands ==
  \A p \in Pids : /\ proc[p].op # "send"
                  /\ proc[p].op = "tell" => p \in Children /\ parent[p] # Null

Awaits ==
  /\ Commands
  /\ \A p \in Pids, k \in Keys : ClientWaits(proc[p], pending[k][p], k)
  /\ \A s \in Services, k \in Keys : ServiceWaits(svc[s], pending[k][s], k)

Awaited == Ordered /\ Awaits

(* So a client that has received waits for nothing more.                   *)
LEMMA ReceivedAll ==
  ASSUME Ordered, NEW c \in Procs, NEW t \in Services, ReceiveReply(c, t), NEW y,
         \A k \in Keys : \A x \in pending[k][c] : x = y /\ k = service_key(t)
  PROVE  /\ \A k \in Keys : pending'[k][c] = {}
         /\ \A k \in Keys, q \in Procs \ {c} : pending'[k][q] = pending[k][q]
<1>1. TypeOK /\ service_key(t) \in Keys
  BY KeyOf DEF Ordered, Typed
<1>2. PICK x \in pending[service_key(t)][c] : pending' = Forgo(service_key(t), c, x)
  BY ReceivedIsPending
<1>3. /\ \A l \in Keys, q \in Procs : l # service_key(t) \/ q # c => pending'[l][q] = pending[l][q]
      /\ pending'[service_key(t)][c] = pending[service_key(t)][c] \ {x}
  BY <1>1, <1>2, PendingDrops
<1>4. x = y
  BY <1>1, <1>2
<1>5. ASSUME NEW k \in Keys PROVE pending'[k][c] = {}
  <2>1. CASE k = service_key(t)
    BY <1>3, <1>4, <2>1
  <2>2. CASE k # service_key(t)
    BY <1>3, <2>2
  <2> QED
    BY <2>1, <2>2
<1> QED
  BY <1>3, <1>5

(* Process c puts a request on a queue: it has no other.                   *)
LEMMA SentOnly ==
  ASSUME Ordered, NEW c \in Procs, NEW t \in Services, NEW id, SendRequest(c, t, id),
         \A k \in Keys : pending[k][c] = {}
  PROVE  /\ \A k \in Keys : pending'[k][c] = IF k = service_key(t) THEN {id} ELSE {}
         /\ \A k \in Keys, q \in Procs \ {c} : pending'[k][q] = pending[k][q]
<1>1. TypeOK /\ service_key(t) \in Keys
  BY KeyOf DEF Ordered, Typed
<1>2. pending' = Owe(service_key(t), c, id)
  BY DEF SendRequest, Owe
<1>3. /\ \A l \in Keys, q \in Procs : l # service_key(t) \/ q # c => pending'[l][q] = pending[l][q]
      /\ pending'[service_key(t)][c] = pending[service_key(t)][c] \cup {id}
  BY <1>1, <1>2, PendingAdds
<1>4. ASSUME NEW k \in Keys
      PROVE  pending'[k][c] = IF k = service_key(t) THEN {id} ELSE {}
  <2>1. CASE k = service_key(t)
    BY <1>3, <2>1
  <2>2. CASE k # service_key(t)
    BY <1>3, <2>2
  <2> QED
    BY <2>1, <2>2
<1> QED
  BY <1>3, <1>4

(* A client has moved, the others and their requests stay.                 *)
LEMMA AwaitsClient ==
  ASSUME Awaits, NEW c \in Pids, NEW v, svc' = svc,
         proc'[c] = v, \A p \in Pids \ {c} : proc'[p] = proc[p],
         \A p \in Children \ {c} : parent'[p] = parent[p],
         v.op # "send", v.op = "tell" => c \in Children /\ parent'[c] # Null,
         \A k \in Keys, q \in Procs \ {c} : pending'[k][q] = pending[k][q],
         \A k \in Keys : ClientWaits(v, pending'[k][c], k)
  PROVE  Awaits'
<1>1. ASSUME NEW p \in Pids
      PROVE  proc'[p].op # "send" /\ (proc'[p].op = "tell" => p \in Children /\ parent'[p] # Null)
  BY DEF Awaits, Commands
<1>2. ASSUME NEW p \in Pids, NEW k \in Keys PROVE ClientWaits(proc'[p], pending'[k][p], k)
  <2>1. CASE p = c
    BY <2>1
  <2>2. CASE p # c
    <3>1. proc'[p] = proc[p] /\ pending'[k][p] = pending[k][p]
      BY <2>2 DEF Procs
    <3> QED
      BY <3>1 DEF Awaits
  <2> QED
    BY <2>1, <2>2
<1>3. ASSUME NEW s \in Services, NEW k \in Keys PROVE ServiceWaits(svc'[s], pending'[k][s], k)
  <2>1. s \in Procs \ {c}
    BY RequestIsNoPid DEF Procs
  <2> QED
    BY <2>1 DEF Awaits
<1> QED
  BY <1>1, <1>2, <1>3 DEF Awaits, Commands, ClientWaits, ServiceWaits

(* A service has moved; clients are owed no more than before.              *)
LEMMA AwaitsService ==
  ASSUME Awaits, NEW s \in Services, NEW v, proc' = proc, parent' = parent,
         svc'[s] = v, \A t \in Services \ {s} : svc'[t] = svc[t],
         \A k \in Keys, q \in Procs \ {s} : pending'[k][q] \subseteq pending[k][q],
         \A k \in Keys : ServiceWaits(v, pending'[k][s], k)
  PROVE  Awaits'
<1>1. Commands'
  BY DEF Awaits, Commands
<1>2. ASSUME NEW p \in Pids, NEW k \in Keys PROVE ClientWaits(proc'[p], pending'[k][p], k)
  <2>1. p \in Procs \ {s}
    BY RequestIsNoPid DEF Procs
  <2>2. pending'[k][p] \subseteq pending[k][p]
    BY <2>1
  <2>3. ClientWaits(proc[p], pending[k][p], k)
    BY DEF Awaits
  <2> QED
    BY <2>2, <2>3 DEF ClientWaits
<1>3. ASSUME NEW t \in Services, NEW k \in Keys PROVE ServiceWaits(svc'[t], pending'[k][t], k)
  <2>1. CASE t = s
    BY <2>1
  <2>2. CASE t # s
    <3>1. svc'[t] = svc[t] /\ pending'[k][t] \subseteq pending[k][t]
      BY <2>2 DEF Procs
    <3>2. ServiceWaits(svc[t], pending[k][t], k)
      BY DEF Awaits
    <3> QED
      BY <3>1, <3>2 DEF ServiceWaits
  <2> QED
    BY <2>1, <2>2
<1> QED
  BY <1>1, <1>2, <1>3 DEF Awaits, ClientWaits, ServiceWaits

LEMMA NoneWaits == \A r, k : ClientWaits(r, {}, k) /\ ServiceWaits(r, {}, k)
BY DEF ClientWaits, ServiceWaits

(* Who waits for nothing is owed nothing.                                  *)
LEMMA IdleOwedNothing ==
  ASSUME Awaits, NEW p \in Pids, proc[p].st \notin {"receive", "poll", "zombie"}
  PROVE  \A k \in Keys : pending[k][p] = {}
BY DEF Awaits, ClientWaits

LEMMA BusyOwedNothing ==
  ASSUME Awaits, NEW s \in Services, svc[s].st # "askreceive"
  PROVE  \A k \in Keys : pending[k][s] = {}
BY DEF Awaits, ServiceWaits

LEMMA ClientAwaits ==
  ASSUME OneAtATime, Awaited, NEW p \in Pids, ClientStep(p) \/ Kill(p) \/ Start(p)
  PROVE  Awaits'
<1>1. /\ Ordered /\ Typed /\ Awaits /\ p \in Procs /\ proc \in [Pids -> ProcType]
      /\ proc[p] \in ProcType /\ PShape(proc[p], p)
  BY DEF Awaited, Ordered, Procs, Typed, TypeOK, Shape
<1>2. ClientStep(p)
  BY DEF OneAtATime, Kill, Start
<1>3. parent' = parent /\ svc' = svc
  BY <1>2 DEF ClientStep, Msgsnd, Msgrcv, PollReply, PollSleep
<1>4. proc[p].op # "send" /\ (proc[p].op = "tell" => p \in Children /\ parent[p] # Null)
  BY <1>1 DEF Awaits, Commands
<1>5. CASE Msgsnd(p)
  <2>1. /\ proc[p].st = "send" /\ SendRequest(p, proc[p].to, proc[p].id)
        /\ proc' = [proc EXCEPT ![p] = AfterSend(p)]
    BY <1>5 DEF Msgsnd
  <2>2. proc[p].to \in Services
    BY <1>1, <2>1 DEF PShape
  <2>3. PICK v : v = AfterSend(p)
    OBVIOUS
  <2>4. v.op = proc[p].op /\ v.st \in {"receive", "poll"} /\ v.id = proc[p].id /\ v.to = proc[p].to
    BY <1>1, <1>4, <2>1, <2>3, Sent
  <2>5. \A k \in Keys : pending[k][p] = {}
    BY <1>1, <2>1, IdleOwedNothing
  <2>6. /\ \A k \in Keys : pending'[k][p] = IF k = service_key(proc[p].to) THEN {proc[p].id} ELSE {}
        /\ \A k \in Keys, q \in Procs \ {p} : pending'[k][q] = pending[k][q]
    BY <1>1, <2>1, <2>2, <2>5, SentOnly
  <2>7. \A k \in Keys : ClientWaits(v, pending'[k][p], k)
    BY <2>4, <2>6 DEF ClientWaits
  <2>8. proc'[p] = v /\ \A q \in Pids \ {p} : proc'[q] = proc[q]
    BY <1>1, <2>1, <2>3, ProcMoves
  <2> QED
    BY <1>1, <1>3, <1>4, <2>4, <2>6, <2>7, <2>8, AwaitsClient
<1>6. ASSUME NEW v, ReceiveReply(p, proc[p].to), proc[p].st \in {"receive", "poll"},
             proc' = [proc EXCEPT ![p] = v], v.op = "none"
      PROVE  Awaits'
  <2>1. proc[p].to \in Services
    BY <1>1, <1>6 DEF PShape
  <2>2. \A k \in Keys : \A x \in pending[k][p] : x = proc[p].id /\ k = service_key(proc[p].to)
    BY <1>1, <1>6 DEF Awaits, ClientWaits
  <2>3. /\ \A k \in Keys : pending'[k][p] = {}
        /\ \A k \in Keys, q \in Procs \ {p} : pending'[k][q] = pending[k][q]
    BY <1>1, <1>6, <2>1, <2>2, ReceivedAll
  <2>4. proc'[p] = v /\ \A q \in Pids \ {p} : proc'[q] = proc[q]
    BY <1>1, <1>6, ProcMoves
  <2>5. \A k \in Keys : ClientWaits(v, pending'[k][p], k)
    BY <2>3, NoneWaits
  <2> QED
    BY <1>1, <1>3, <1>6, <2>3, <2>4, <2>5, AwaitsClient
<1>7. CASE Msgrcv(p)
  BY <1>6, <1>7, Values DEF Msgrcv
<1>8. CASE PollReply(p)
  <2>1. Exited(p).op = "none"
    BY ExitedIs
  <2> QED
    BY <1>6, <1>8, <2>1 DEF PollReply
<1>9. CASE PollSleep(p)
  <2>1. proc' = [proc EXCEPT ![p] = PollNext(p)] /\ proc[p].st = "poll" /\ pending' = pending
    BY <1>1, <1>9 DEF PollSleep, PollNext
  <2>2. PICK v : v = PollNext(p)
    OBVIOUS
  <2>3. proc'[p] = v /\ \A q \in Pids \ {p} : proc'[q] = proc[q]
    BY <1>1, <2>1, <2>2, ProcMoves
  <2>4. proc[p].op = "tell"
    BY <1>1, <2>1 DEF PShape
  <2>5. \/ v.st = "poll" /\ v.op = "tell" /\ v.id = proc[p].id /\ v.to = proc[p].to
        \/ v.st = "zombie" /\ v.op = "none"
    BY <1>1, <1>4, <2>1, <2>2, <2>4, PollNextIs, ExitedIs
  <2>6. \A k \in Keys : ClientWaits(proc[p], pending[k][p], k)
    BY <1>1 DEF Awaits
  <2>7. \A k \in Keys : ClientWaits(v, pending'[k][p], k)
    BY <2>1, <2>5, <2>6 DEF ClientWaits
  <2> QED
    BY <1>1, <1>3, <1>4, <2>1, <2>3, <2>4, <2>5, <2>7, AwaitsClient
<1> QED
  BY <1>2, <1>5, <1>7, <1>8, <1>9 DEF ClientStep

LEMMA CallAwaits ==
  ASSUME OneAtATime, Awaited, NEW p \in Pids, NEW s \in Services,
         \/ CallSend(p, s) \/ CallReceive(p, s)
         \/ \E c \in Children : CallTell(p, c, s)
  PROVE  Awaits'
<1>1. Typed /\ Awaits /\ p \in Procs /\ parent \in [Children -> Pids \cup {Null}]
  BY DEF Awaited, Ordered, Typed, TypeOK, Procs
<1>2. svc' = svc /\ pending' = pending
  BY DEF CallSend, CallReceive, CallTell
<1>3. ASSUME NEW c \in Pids, NEW v, proc' = [proc EXCEPT ![c] = v], v.op # "send",
             v.op = "tell" => c \in Children /\ parent'[c] # Null,
             proc[c].st \in {"idle", "none"}, \A q \in Children \ {c} : parent'[q] = parent[q]
      PROVE  Awaits'
  <2>1. \A k \in Keys : pending'[k][c] = {}
    BY <1>1, <1>2, <1>3, IdleOwedNothing
  <2>2. \A k \in Keys : ClientWaits(v, pending'[k][c], k)
    BY <2>1, NoneWaits
  <2>3. proc'[c] = v /\ \A q \in Pids \ {c} : proc'[q] = proc[q]
    BY <1>1, <1>3, ProcMoves
  <2> QED
    BY <1>1, <1>2, <1>3, <2>2, <2>3, AwaitsClient
<1>4. CASE CallSend(p, s)
  <2>1. PICK op \in Ops \cap {"send", "ask"}, id \in Ids :
          proc' = [proc EXCEPT ![p] = SendRec(op, s, id)]
    BY <1>4 DEF CallSend, SendRec
  <2>2. op = "ask"
    BY DEF OneAtATime
  <2>3. SendRec(op, s, id).op = "ask"
    BY <2>2, Sending
  <2>4. proc[p].st = "idle" /\ parent' = parent
    BY <1>4 DEF CallSend
  <2> QED
    BY <1>3, <2>1, <2>3, <2>4
<1>5. CASE CallReceive(p, s)
  <2>1. proc' = [proc EXCEPT ![p] = ReceiveRec(s)] /\ proc[p].st = "idle" /\ parent' = parent
    BY <1>5 DEF CallReceive, ReceiveRec
  <2>2. ReceiveRec(s).op = "receive"
    BY Receiving
  <2> QED
    BY <1>3, <2>1, <2>2
<1>6. ASSUME NEW c \in Children, CallTell(p, c, s) PROVE Awaits'
  <2>1. PICK id \in Ids : proc' = [proc EXCEPT ![c] = SendRec("tell", s, id)]
    BY <1>6 DEF CallTell, SendRec
  <2>2. SendRec("tell", s, id).op = "tell"
    BY Sending
  <2>3. parent' = [parent EXCEPT ![c] = p] /\ proc[c].st = "none" /\ c \in Pids
    BY <1>6 DEF CallTell, Pids
  <2>4. p # Null
    BY ChannelAssumption DEF Pids
  <2>5. parent'[c] = p /\ \A q \in Children \ {c} : parent'[q] = parent[q]
    BY <1>1, <2>3
  <2> QED
    BY <1>3, <2>1, <2>2, <2>3, <2>4, <2>5
<1> QED
  BY <1>4, <1>5, <1>6

LEMMA ServiceAwaits ==
  ASSUME Awaited, NEW s \in Services,
         \/ ServiceStep(s) \/ SvcCrash(s)
         \/ \E t \in Services : SvcAsk(s, t)
  PROVE  Awaits'
<1>1. /\ Ordered /\ Typed /\ TypeOK /\ Awaits /\ s \in Procs
      /\ svc \in [Services -> SvcType] /\ SShape(svc[s])
  BY DEF Awaited, Ordered, Typed, TypeOK, Shape, Procs
<1>2. proc' = proc /\ parent' = parent
  BY DEF ServiceStep, SvcReceive, SvcCheck, SvcEval, SvcAskSend, SvcAskReceive, SvcReply,
         SvcStart, SvcCrash, SvcAsk
<1>3. ASSUME svc[s].st # "askreceive", NEW v, svc' = [svc EXCEPT ![s] = v],
             \/ pending' = pending
             \/ \E k \in Keys, q \in Procs : \E x : pending' = Forgo(k, q, x)
      PROVE  Awaits'
  <2>1. \A l \in Keys, q \in Procs : pending'[l][q] \subseteq pending[l][q]
    <3>1. CASE pending' = pending
      BY <3>1
    <3>2. ASSUME NEW k \in Keys, NEW p \in Procs, NEW x, pending' = Forgo(k, p, x)
          PROVE  \A l \in Keys, q \in Procs : pending'[l][q] \subseteq pending[l][q]
      <4>1. /\ \A l \in Keys, q \in Procs : l # k \/ q # p => pending'[l][q] = pending[l][q]
            /\ pending'[k][p] = pending[k][p] \ {x}
        BY <1>1, <3>2, PendingDrops
      <4> QED
        BY <4>1
    <3> QED
      BY <1>3, <3>1, <3>2
  <2>2. \A k \in Keys : pending[k][s] = {}
    BY <1>1, <1>3, BusyOwedNothing
  <2>3. \A k \in Keys : pending'[k][s] = {}
    BY <1>1, <2>1, <2>2
  <2>4. \A k \in Keys : ServiceWaits(v, pending'[k][s], k)
    BY <2>3, NoneWaits
  <2>5. svc'[s] = v /\ \A t \in Services \ {s} : svc'[t] = svc[t]
    BY <1>1, <1>3, ServiceMoves
  <2> QED
    BY <1>1, <1>2, <2>1, <2>4, <2>5, AwaitsService
<1>4. CASE SvcReceive(s)
  BY <1>1, <1>3, <1>4 DEF SvcReceive
<1>5. CASE SvcCheck(s)
  <2>1. svc[s].st = "check" /\ service_key(s) \in Keys
    BY <1>5, KeyOf DEF SvcCheck
  <2>2. svc[s].msg.src \in Procs
    BY <1>1, <2>1, SvcInHand DEF Message
  <2>3. CASE Alive(svc[s].msg.src)
    BY <1>1, <1>3, <1>5, <2>1, <2>3 DEF SvcCheck
  <2>4. CASE ~Alive(svc[s].msg.src)
    <3>1. /\ svc' = [svc EXCEPT ![s] = Ready]
          /\ pending' = Forgo(service_key(s), svc[s].msg.src, svc[s].msg.id)
      BY <1>5, <2>4 DEF SvcCheck, Forgo
    <3> QED
      BY <1>3, <2>1, <2>2, <3>1
  <2> QED
    BY <2>3, <2>4
<1>6. CASE SvcEval(s)
  BY <1>1, <1>3, <1>6 DEF SvcEval
<1>7. ASSUME NEW t \in Services, SvcAsk(s, t) PROVE Awaits'
  BY <1>1, <1>3, <1>7 DEF SvcAsk
<1>8. CASE SvcAskSend(s)
  <2>1. /\ svc' = [svc EXCEPT ![s] = Moved(svc[s], "askreceive")]
        /\ svc[s].st = "asksend" /\ SendRequest(s, svc[s].to, svc[s].ask)
    BY <1>1, <1>8 DEF SvcAskSend, Moved
  <2>2. svc[s].to \in Services
    BY <1>1, <2>1 DEF SShape
  <2>3. PICK v : v = Moved(svc[s], "askreceive")
    OBVIOUS
  <2>4. v.st = "askreceive" /\ v.ask = svc[s].ask /\ v.to = svc[s].to
    BY <1>1, <2>1, <2>3, SvcWaits
  <2>5. \A k \in Keys : pending[k][s] = {}
    BY <1>1, <2>1, BusyOwedNothing
  <2>6. /\ \A k \in Keys : pending'[k][s] = IF k = service_key(svc[s].to) THEN {svc[s].ask} ELSE {}
        /\ \A k \in Keys, q \in Procs \ {s} : pending'[k][q] = pending[k][q]
    BY <1>1, <2>1, <2>2, <2>5, SentOnly
  <2>7. \A k \in Keys : ServiceWaits(v, pending'[k][s], k)
    BY <2>4, <2>6 DEF ServiceWaits
  <2>8. svc'[s] = v /\ \A t \in Services \ {s} : svc'[t] = svc[t]
    BY <1>1, <2>1, <2>3, ServiceMoves
  <2> QED
    BY <1>1, <1>2, <2>6, <2>7, <2>8, AwaitsService
<1>9. CASE SvcAskReceive(s)
  <2>1. /\ svc' = [svc EXCEPT ![s] = Answered(svc[s])]
        /\ svc[s].st = "askreceive" /\ ReceiveReply(s, svc[s].to)
    BY <1>1, <1>9 DEF SvcAskReceive, Answered
  <2>2. svc[s].to \in Services
    BY <1>1, <2>1 DEF SShape
  <2>3. \A k \in Keys : \A x \in pending[k][s] : x = svc[s].ask /\ k = service_key(svc[s].to)
    BY <1>1 DEF Awaits, ServiceWaits
  <2>4. /\ \A k \in Keys : pending'[k][s] = {}
        /\ \A k \in Keys, q \in Procs \ {s} : pending'[k][q] = pending[k][q]
    BY <1>1, <2>1, <2>2, <2>3, ReceivedAll
  <2>5. PICK v : v = Answered(svc[s])
    OBVIOUS
  <2>6. svc'[s] = v /\ \A t \in Services \ {s} : svc'[t] = svc[t]
    BY <1>1, <2>1, <2>5, ServiceMoves
  <2>7. \A k \in Keys : ServiceWaits(v, pending'[k][s], k)
    BY <2>4, NoneWaits
  <2> QED
    BY <1>1, <1>2, <2>4, <2>6, <2>7, AwaitsService
<1>10. CASE SvcReply(s)
  BY <1>1, <1>3, <1>10 DEF SvcReply
<1>11. CASE SvcCrash(s)
  <2>1. svc[s].st # "askreceive"
    BY <1>1, <1>11, ChannelAssumption DEF SvcCrash, SShape
  <2> QED
    BY <1>3, <1>11, <2>1 DEF SvcCrash
<1>12. CASE SvcStart(s)
  BY <1>1, <1>3, <1>12 DEF SvcStart
<1> QED
  BY <1>4, <1>5, <1>6, <1>7, <1>8, <1>9, <1>10, <1>11, <1>12 DEF ServiceStep

LEMMA InitAwaited == Init => Awaited
<1> SUFFICES ASSUME Init PROVE Awaits
  BY InitOrdered DEF Awaited
<1>1. Commands
  BY Values DEF Init, Commands
<1>2. \A k \in Keys, q \in Procs : pending[k][q] = {}
  BY DEF Init
<1> QED
  BY <1>1, <1>2, NoneWaits DEF Awaits, Procs

LEMMA StepAwaited == DistinctKeys /\ OneAtATime /\ Awaited /\ [Next]_vars => Awaited'
<1> SUFFICES ASSUME DistinctKeys, OneAtATime, Awaited, [Next]_vars PROVE Awaited'
  OBVIOUS
<1>1. Ordered'
  BY StepOrdered DEF Awaited
<1>2. CASE UNCHANGED vars
  BY <1>1, <1>2 DEF vars, Awaited, Awaits, Commands, ClientWaits, ServiceWaits
<1>3. CASE Next
  <2>1. Awaits'
    BY <1>3, ClientAwaits, CallAwaits, ServiceAwaits DEF Next, Reap, OneAtATime
  <2> QED
    BY <1>1, <2>1 DEF Awaited
<1> QED
  BY <1>2, <1>3

-----------------------------------------------------------------------------
(* A reply always finds room                                               *)

(* Who has an ask or a tell under way, given up ones included, and which   *)
(* services work on a request now rather than wait for another service.    *)
Busy(c)   == {p \in Pids : c[p].st \in {"receive", "poll", "zombie"}}
Active(v) == {s \in Services : v[s].st \in {"check", "eval", "asksend", "reply"}}

(* R[p] is the shell or child whose command, through services that ask     *)
(* services, p works for.                                                  *)
Chain(R, v) ==
  /\ \A p \in Pids : R[p] = p
  /\ \A s \in Services : v[s].msg # Null => R[s] = R[v[s].msg.src]

(* Each command is in one place only: a message on one of the queues Q or  *)
(* one of the services A; the commands are those of processes in B.        *)
Apart(R, Q, A, B) ==
  /\ \A k, l \in Keys : \A i \in 1 .. Len(Q[k]), j \in 1 .. Len(Q[l]) :
       R[Client(Q[k][i])] = R[Client(Q[l][j])] => k = l /\ i = j
  /\ \A s, t \in A : R[s] = R[t] => s = t
  /\ \A k \in Keys : \A i \in 1 .. Len(Q[k]) : \A s \in A : R[Client(Q[k][i])] # R[s]
  /\ \A k \in Keys : \A i \in 1 .. Len(Q[k]) : R[Client(Q[k][i])] \in B
  /\ \A s \in A : R[s] \in B

Tokens ==
  \E R \in [Procs -> Pids] : Chain(R, svc) /\ Apart(R, queue, Active(svc), Busy(proc))

(* Some services are done, and the commands that remain stay busy.         *)
LEMMA ApartLess ==
  ASSUME NEW R, NEW Q, NEW A, NEW B, Apart(R, Q, A, B), NEW C \in SUBSET A, NEW D, B \subseteq D
  PROVE  Apart(R, Q, C, D)
BY DEF Apart

(* A message is sent for a command that is nowhere else any more.          *)
LEMMA ApartAppend ==
  ASSUME NEW R, NEW Q \in [Keys -> Seq(Message)], NEW A, NEW B, Apart(R, Q, A, B),
         NEW k \in Keys, NEW m \in Message, NEW P, P = [Q EXCEPT ![k] = Append(@, m)],
         R[Client(m)] \in B,
         \A s \in A : R[s] # R[Client(m)],
         \A l \in Keys : \A i \in 1 .. Len(Q[l]) : R[Client(Q[l][i])] # R[Client(m)]
  PROVE  Apart(R, P, A, B)
<1> DEFINE n == Len(Q[k]) + 1
<1>1. Q[k] \in Seq(Message) /\ Len(Q[k]) \in Nat
  OBVIOUS
<1>2. /\ P[k] = Append(Q[k], m) /\ Len(P[k]) = n /\ P[k][n] = m
      /\ \A i \in 1 .. Len(Q[k]) : P[k][i] = Q[k][i]
  BY <1>1, AppendProperties
<1>3. \A l \in Keys : l # k => P[l] = Q[l]
  OBVIOUS
<1>4. n \in 1 .. Len(P[k]) /\ \A i \in 1 .. Len(P[k]) : i # n => i \in 1 .. Len(Q[k])
  BY <1>1, <1>2
<1> HIDE DEF n
<1>5. ASSUME NEW l \in Keys, NEW i \in 1 .. Len(P[l])
      PROVE  \/ l = k /\ i = n /\ P[l][i] = m
             \/ (l # k \/ i # n) /\ i \in 1 .. Len(Q[l]) /\ P[l][i] = Q[l][i]
  BY <1>2, <1>3, <1>4
<1>6. ASSUME NEW l \in Keys, NEW o \in Keys, NEW i \in 1 .. Len(P[l]), NEW j \in 1 .. Len(P[o]),
             R[Client(P[l][i])] = R[Client(P[o][j])]
      PROVE  l = o /\ i = j
  <2>1. CASE l = k /\ i = n /\ P[l][i] = m
    <3>1. CASE o = k /\ j = n
      BY <2>1, <3>1
    <3>2. CASE j \in 1 .. Len(Q[o]) /\ P[o][j] = Q[o][j]
      BY <1>6, <2>1, <3>2
    <3> QED
      BY <1>5, <3>1, <3>2
  <2>2. CASE i \in 1 .. Len(Q[l]) /\ P[l][i] = Q[l][i]
    <3>1. CASE o = k /\ j = n /\ P[o][j] = m
      BY <1>6, <2>2, <3>1
    <3>2. CASE j \in 1 .. Len(Q[o]) /\ P[o][j] = Q[o][j]
      BY <1>6, <2>2, <3>2 DEF Apart
    <3> QED
      BY <1>5, <3>1, <3>2
  <2> QED
    BY <1>5, <2>1, <2>2
<1>7. ASSUME NEW l \in Keys, NEW i \in 1 .. Len(P[l])
      PROVE  R[Client(P[l][i])] \in B /\ \A s \in A : R[Client(P[l][i])] # R[s]
  BY <1>5 DEF Apart
<1> QED
  BY <1>6, <1>7 DEF Apart

(* A message is received: its command is with services A + S, or over.     *)
LEMMA ApartRemove ==
  ASSUME NEW R, NEW Q \in [Keys -> Seq(Message)], NEW A, NEW B, Apart(R, Q, A, B),
         NEW k \in Keys, NEW i \in 1 .. Len(Q[k]),
         NEW P, P = [Q EXCEPT ![k] = RemoveAt(Q[k], i)],
         NEW S, \A s, t \in S : s = t, \A s \in S : R[s] = R[Client(Q[k][i])],
         NEW D, \A b \in B : b \in D \/ (S = {} /\ b = R[Client(Q[k][i])])
  PROVE  Apart(R, P, A \cup S, D)
<1> DEFINE r == R[Client(Q[k][i])]
           x == RemoveAt(Q[k], i)
<1>1. Q[k] \in Seq(Message)
  OBVIOUS
<1>2. Len(x) = Len(Q[k]) - 1 /\ \E f : Shift(Q[k], x, i, f)
  BY <1>1, RemoveShift
<1>3. P[k] = x /\ \A l \in Keys : l # k => P[l] = Q[l]
  OBVIOUS
<1> HIDE DEF x
<1>4. PICK f : Shift(Q[k], x, i, f)
  BY <1>2
<1>5. \A j \in 1 .. Len(x) : f[j] \in (1 .. Len(Q[k])) \ {i} /\ x[j] = Q[k][f[j]]
  BY <1>2, <1>4 DEF Shift
<1>6. \A j, j2 \in 1 .. Len(x) : f[j] = f[j2] => j = j2
  <2>1. \A j, j2 \in 1 .. Len(x) : j < j2 => f[j] < f[j2]
    BY <1>2, <1>4 DEF Shift
  <2>2. \A j \in 1 .. Len(x) : f[j] \in Int
    BY <1>5
  <2>3. \A j \in 1 .. Len(x) : j \in Int
    OBVIOUS
  <2> QED
    BY <2>1, <2>2, <2>3
<1> DEFINE old(l, j) == IF l = k THEN f[j] ELSE j
<1>7. ASSUME NEW l \in Keys, NEW j \in 1 .. Len(P[l])
      PROVE  /\ old(l, j) \in 1 .. Len(Q[l]) /\ P[l][j] = Q[l][old(l, j)]
             /\ ~(l = k /\ old(l, j) = i)
  BY <1>3, <1>5
<1>8. ASSUME NEW l \in Keys, NEW j \in 1 .. Len(P[l]), NEW j2 \in 1 .. Len(P[l]),
             old(l, j) = old(l, j2)
      PROVE  j = j2
  BY <1>3, <1>6, <1>8
<1> HIDE DEF old
<1>9. ASSUME NEW l \in Keys, NEW o \in Keys, NEW j \in 1 .. Len(P[l]), NEW j2 \in 1 .. Len(P[o]),
             R[Client(P[l][j])] = R[Client(P[o][j2])]
      PROVE  l = o /\ j = j2
  <2>1. /\ old(l, j) \in 1 .. Len(Q[l]) /\ P[l][j] = Q[l][old(l, j)]
        /\ old(o, j2) \in 1 .. Len(Q[o]) /\ P[o][j2] = Q[o][old(o, j2)]
    BY <1>7
  <2>2. l = o /\ old(l, j) = old(o, j2)
    BY <1>9, <2>1 DEF Apart
  <2> QED
    BY <1>8, <2>2
<1>10. ASSUME NEW l \in Keys, NEW j \in 1 .. Len(P[l])
       PROVE  /\ R[Client(P[l][j])] # r /\ R[Client(P[l][j])] \in D
              /\ \A s \in A \cup S : R[Client(P[l][j])] # R[s]
  <2>1. /\ old(l, j) \in 1 .. Len(Q[l]) /\ P[l][j] = Q[l][old(l, j)]
        /\ ~(l = k /\ old(l, j) = i)
    BY <1>7
  <2>2. R[Client(P[l][j])] # r
    BY <2>1 DEF Apart
  <2>3. R[Client(P[l][j])] \in B /\ \A s \in A : R[Client(P[l][j])] # R[s]
    BY <2>1 DEF Apart
  <2> QED
    BY <2>2, <2>3
<1>11. r \in B /\ \A s \in A : R[s] # r /\ R[s] \in B
  BY DEF Apart
<1>12. \A s \in A \cup S : R[s] \in D
  <2>1. \A s \in A : R[s] \in D
    BY <1>11
  <2>2. ASSUME NEW s \in S PROVE R[s] \in D
    BY <1>11
  <2> QED
    BY <2>1, <2>2
<1>13. ASSUME NEW s \in A \cup S, NEW t \in A \cup S, R[s] = R[t] PROVE s = t
  <2>1. CASE s \in A /\ t \in A
    BY <1>13, <2>1 DEF Apart
  <2>2. CASE s \in S /\ t \in S
    BY <2>2
  <2>3. CASE s \in A /\ t \in S
    BY <1>11, <1>13, <2>3
  <2>4. CASE s \in S /\ t \in A
    BY <1>11, <1>13, <2>4
  <2> QED
    BY <2>1, <2>2, <2>3, <2>4
<1> QED
  BY <1>9, <1>10, <1>12, <1>13 DEF Apart

Counted == Awaited /\ Tokens

(* No message moves, nobody starts to work and nobody's wait is over.      *)
LEMMA TokensQuiet ==
  ASSUME Tokens, queue' = queue, Active(svc') \subseteq Active(svc), Busy(proc) \subseteq Busy(proc'),
         \A s \in Services : svc'[s].msg # Null => svc'[s].msg = svc[s].msg
  PROVE  Tokens'
<1>1. PICK R \in [Procs -> Pids] : Chain(R, svc) /\ Apart(R, queue, Active(svc), Busy(proc))
  BY DEF Tokens
<1>2. Chain(R, svc')
  BY <1>1 DEF Chain
<1>3. Apart(R, queue', Active(svc'), Busy(proc'))
  BY <1>1, ApartLess
<1> QED
  BY <1>2, <1>3 DEF Tokens

LEMMA TokensMsgsnd ==
  ASSUME Counted, NEW p \in Pids, Msgsnd(p)
  PROVE  Tokens'
<1>1. /\ Typed /\ Awaits /\ p \in Procs /\ PShape(proc[p], p)
      /\ queue \in [Keys -> Seq(Message)] /\ proc \in [Pids -> ProcType]
  BY DEF Counted, Awaited, Ordered, Typed, TypeOK, Shape, Procs
<1>2. PICK R \in [Procs -> Pids] : Chain(R, svc) /\ Apart(R, queue, Active(svc), Busy(proc))
  BY DEF Counted, Tokens
<1> DEFINE k == service_key(proc[p].to)
           m == [dst |-> Request, src |-> p, id |-> proc[p].id, to |-> proc[p].to]
<1>3. proc[p].st = "send" /\ svc' = svc /\ proc' = [proc EXCEPT ![p] = AfterSend(p)]
  BY DEF Msgsnd
<1>4. proc[p].to \in Services /\ proc[p].id \in Ids /\ proc[p].op # "send"
  BY <1>1, <1>3 DEF PShape, Awaits, Commands
<1>5. k \in Keys /\ m \in Message
  BY <1>1, <1>4, KeyOf DEF Message
<1>6. queue' = [queue EXCEPT ![k] = Append(@, m)]
  BY DEF Msgsnd, SendRequest
<1>7. Client(m) = p
  BY DEF Client
<1>8. R[p] = p
  BY <1>2 DEF Chain
<1> HIDE DEF k, m
<1>9. AfterSend(p).st \in {"receive", "poll"}
  BY <1>1, <1>3, <1>4, Sent
<1>10. proc'[p] = AfterSend(p) /\ \A q \in Pids \ {p} : proc'[q] = proc[q]
  BY <1>1, <1>3, ProcMoves
<1>11. p \notin Busy(proc) /\ p \in Busy(proc') /\ Busy(proc) \subseteq Busy(proc')
  BY <1>3, <1>9, <1>10 DEF Busy
<1>12. Apart(R, queue, Active(svc), Busy(proc'))
  BY <1>2, <1>11, ApartLess
<1>13. \A s \in Active(svc) : R[s] # p
  BY <1>2, <1>11 DEF Apart
<1>14. \A l \in Keys : \A i \in 1 .. Len(queue[l]) : R[Client(queue[l][i])] # p
  BY <1>2, <1>11 DEF Apart
<1>15. /\ R[Client(m)] \in Busy(proc') /\ \A s \in Active(svc) : R[s] # R[Client(m)]
       /\ \A l \in Keys : \A i \in 1 .. Len(queue[l]) : R[Client(queue[l][i])] # R[Client(m)]
  BY <1>7, <1>8, <1>11, <1>13, <1>14
<1>16. Apart(R, queue', Active(svc), Busy(proc'))
  BY <1>1, <1>5, <1>6, <1>12, <1>15, ApartAppend
<1> QED
  BY <1>2, <1>3, <1>16 DEF Tokens

(* A command of process p returns with its reply.                          *)
LEMMA TokensReceive ==
  ASSUME Counted, NEW p \in Pids, NEW t \in Services, ReceiveReply(p, t), svc' = svc,
         NEW v, proc' = [proc EXCEPT ![p] = v]
  PROVE  Tokens'
<1>1. TypeOK /\ queue \in [Keys -> Seq(Message)] /\ proc \in [Pids -> ProcType] /\ p \in Procs
  BY DEF Counted, Awaited, Ordered, Typed, TypeOK, Procs
<1>2. PICK R \in [Procs -> Pids] : Chain(R, svc) /\ Apart(R, queue, Active(svc), Busy(proc))
  BY DEF Counted, Tokens
<1> DEFINE k == service_key(t)
           i == FirstOf(k, p)
<1>3. k \in Keys /\ queue' = [queue EXCEPT ![k] = RemoveAt(queue[k], i)]
  BY KeyOf DEF ReceiveReply, Take
<1>4. i \in 1 .. Len(queue[k]) /\ queue[k][i].dst = p
  BY FirstOfIsFirst DEF ReceiveReply, Waiting
<1> HIDE DEF k, i
<1>5. Client(queue[k][i]) = p /\ R[p] = p
  BY <1>1, <1>2, <1>4, RequestIsNoPid DEF Client, Chain
<1>6. \A b \in Busy(proc) : b \in Busy(proc') \/ b = p
  BY <1>1 DEF Busy
<1>7. PICK S : S = {}
  OBVIOUS
<1>8. /\ \A b \in Busy(proc) : b \in Busy(proc') \/ (S = {} /\ b = R[Client(queue[k][i])])
      /\ \A s \in S : R[s] = R[Client(queue[k][i])]
      /\ \A s, u \in S : s = u
  BY <1>5, <1>6, <1>7
<1>9. Apart(R, queue', Active(svc) \cup S, Busy(proc'))
  BY <1>1, <1>2, <1>3, <1>4, <1>8, ApartRemove
<1>10. Active(svc) \cup S = Active(svc)
  BY <1>7
<1> QED
  BY <1>2, <1>9, <1>10 DEF Tokens

(* A service works for whom the request it takes is from; nobody works for *)
(* that service at the time.                                               *)
LEMMA TokensSvcReceive ==
  ASSUME Counted, NEW s \in Services, SvcReceive(s)
  PROVE  Tokens'
<1>1. /\ Ordered /\ Typed /\ Awaits /\ s \in Procs /\ svc \in [Services -> SvcType]
      /\ queue \in [Keys -> Seq(Message)]
  BY DEF Counted, Awaited, Ordered, Typed, TypeOK, Procs
<1>2. PICK R \in [Procs -> Pids] : Chain(R, svc) /\ Apart(R, queue, Active(svc), Busy(proc))
  BY DEF Counted, Tokens
<1> DEFINE k == service_key(s)
           i == FirstOf(k, Request)
           m == queue[k][i]
           Z == [R EXCEPT ![s] = R[m.src]]
<1>3. /\ k \in Keys /\ queue' = [queue EXCEPT ![k] = RemoveAt(queue[k], i)]
      /\ svc[s].st = "receive" /\ svc' = [svc EXCEPT ![s] = Took(svc[s], m)] /\ proc' = proc
  BY <1>1, KeyOf DEF SvcReceive, Take, Took
<1>4. i \in 1 .. Len(queue[k]) /\ m.dst = Request
  BY FirstOfIsFirst DEF SvcReceive, Waiting
<1>5. \A l \in Keys : pending[l][s] = {}
  BY <1>1, <1>3, BusyOwedNothing
<1>6. \A l \in Keys : \A j \in 1 .. Len(queue[l]) :
        queue[l][j] \in Message /\ Client(queue[l][j]) # s
  BY <1>1, <1>5, MessageIsPending
<1>7. \A t \in Services : svc[t].msg # Null => svc[t].msg \in Message /\ svc[t].msg.src # s
  BY <1>1, <1>5, KeyOf, MessageIsPending
<1>8. m = queue[k][i]
  OBVIOUS
<1> HIDE DEF k, i, m
<1>9. m \in Message /\ Client(m) = m.src /\ m.src # s /\ m.src \in Procs
  BY <1>3, <1>4, <1>6, <1>8 DEF Client, Message
<1>10. /\ Z \in [Procs -> Pids] /\ Z[s] = R[m.src] /\ \A q \in Procs : q # s => Z[q] = R[q]
  BY <1>1, <1>9
<1> HIDE DEF Z
<1>11. svc'[s] = Took(svc[s], m) /\ \A t \in Services \ {s} : svc'[t] = svc[t]
  BY <1>1, <1>3, ServiceMoves
<1>12. svc'[s].msg = m /\ svc'[s].st = "check"
  BY <1>1, <1>9, <1>11, SvcTakes
<1>13. Chain(Z, svc')
  <2>1. ASSUME NEW p \in Pids PROVE Z[p] = p
    <3>1. p # s /\ p \in Procs
      BY RequestIsNoPid DEF Procs
    <3> QED
      BY <1>2, <1>10, <3>1 DEF Chain
  <2>2. ASSUME NEW t \in Services, svc'[t].msg # Null PROVE Z[t] = Z[svc'[t].msg.src]
    <3>1. CASE t = s
      BY <1>9, <1>10, <1>12, <3>1
    <3>2. CASE t # s
      <4>1. svc'[t] = svc[t] /\ t \in Procs
        BY <1>11, <3>2 DEF Procs
      <4>2. svc[t].msg.src # s /\ svc[t].msg.src \in Procs
        BY <1>7, <2>2, <4>1 DEF Message
      <4>3. R[t] = R[svc[t].msg.src]
        BY <1>2, <2>2, <4>1 DEF Chain
      <4> QED
        BY <1>10, <3>2, <4>1, <4>2, <4>3
    <3> QED
      BY <3>1, <3>2
  <2> QED
    BY <2>1, <2>2 DEF Chain
<1>14. s \notin Active(svc) /\ Active(svc) \subseteq Procs
  BY <1>3 DEF Active, Procs
<1>15. \A t \in Active(svc) : Z[t] = R[t]
  BY <1>10, <1>14
<1>16. \A l \in Keys : \A j \in 1 .. Len(queue[l]) : Z[Client(queue[l][j])] = R[Client(queue[l][j])]
  BY <1>6, <1>10, ClientIsProc
<1>17. Apart(Z, queue, Active(svc), Busy(proc))
  BY <1>2, <1>15, <1>16 DEF Apart
<1>18. Active(svc') = Active(svc) \cup {s}
  BY <1>11, <1>12 DEF Active
<1>19. Z[s] = Z[Client(queue[k][i])]
  BY <1>8, <1>9, <1>10
<1>20. Apart(Z, queue', Active(svc) \cup {s}, Busy(proc'))
  <2>1. \A t \in {s} : Z[t] = Z[Client(queue[k][i])]
    BY <1>19
  <2>2. \A b \in Busy(proc) : b \in Busy(proc') \/ ({s} = {} /\ b = Z[Client(queue[k][i])])
    BY <1>3
  <2>3. \A t, u \in {s} : t = u
    OBVIOUS
  <2> QED
    BY <1>1, <1>3, <1>4, <1>17, <2>1, <2>2, <2>3, ApartRemove
<1> QED
  BY <1>10, <1>13, <1>18, <1>20 DEF Tokens

LEMMA TokensSvcAskSend ==
  ASSUME Counted, NEW s \in Services, SvcAskSend(s)
  PROVE  Tokens'
<1>1. /\ Typed /\ s \in Procs /\ queue \in [Keys -> Seq(Message)] /\ SShape(svc[s])
      /\ svc \in [Services -> SvcType]
  BY DEF Counted, Awaited, Ordered, Typed, TypeOK, Shape, Procs
<1>2. PICK R \in [Procs -> Pids] : Chain(R, svc) /\ Apart(R, queue, Active(svc), Busy(proc))
  BY DEF Counted, Tokens
<1> DEFINE k == service_key(svc[s].to)
           m == [dst |-> Request, src |-> s, id |-> svc[s].ask, to |-> svc[s].to]
<1>3. /\ svc[s].st = "asksend" /\ proc' = proc
      /\ svc' = [svc EXCEPT ![s] = Moved(svc[s], "askreceive")]
  BY <1>1 DEF SvcAskSend, Moved
<1>4. svc[s].to \in Services /\ svc[s].ask \in Ids
  BY <1>1, <1>3 DEF SShape
<1>5. k \in Keys /\ m \in Message
  BY <1>1, <1>4, KeyOf DEF Message
<1>6. queue' = [queue EXCEPT ![k] = Append(@, m)]
  BY DEF SvcAskSend, SendRequest
<1>7. Client(m) = s
  BY DEF Client
<1> HIDE DEF k, m
<1>8. PICK v : v = Moved(svc[s], "askreceive")
  OBVIOUS
<1>9. v.st = "askreceive" /\ v.msg = svc[s].msg
  BY <1>1, <1>3, <1>8, SvcWaits
<1>10. svc'[s] = v /\ (\A t \in Services \ {s} : svc'[t] = svc[t]) /\ SameHands
  BY <1>1, <1>3, <1>8, <1>9, ServiceMoves
<1>11. s \in Active(svc) /\ Active(svc') = Active(svc) \ {s}
  BY <1>3, <1>9, <1>10 DEF Active
<1>12. Chain(R, svc')
  BY <1>2, <1>10 DEF Chain, SameHands
<1>13. Apart(R, queue, Active(svc'), Busy(proc'))
  BY <1>2, <1>3, <1>11, ApartLess
<1>14. R[Client(m)] \in Busy(proc') /\ \A t \in Active(svc') : R[t] # R[Client(m)]
  BY <1>2, <1>3, <1>7, <1>11 DEF Apart
<1>15. \A l \in Keys : \A i \in 1 .. Len(queue[l]) : R[Client(queue[l][i])] # R[Client(m)]
  BY <1>2, <1>7, <1>11 DEF Apart
<1>16. Apart(R, queue', Active(svc'), Busy(proc'))
  BY <1>1, <1>5, <1>6, <1>13, <1>14, <1>15, ApartAppend
<1> QED
  BY <1>12, <1>16 DEF Tokens

LEMMA TokensSvcAskReceive ==
  ASSUME Counted, NEW s \in Services, SvcAskReceive(s)
  PROVE  Tokens'
<1>1. /\ Typed /\ s \in Procs /\ queue \in [Keys -> Seq(Message)] /\ SShape(svc[s])
      /\ svc \in [Services -> SvcType]
  BY DEF Counted, Awaited, Ordered, Typed, TypeOK, Shape, Procs
<1>2. PICK R \in [Procs -> Pids] : Chain(R, svc) /\ Apart(R, queue, Active(svc), Busy(proc))
  BY DEF Counted, Tokens
<1> DEFINE k == service_key(svc[s].to)
           i == FirstOf(k, s)
<1>3. /\ svc[s].st = "askreceive" /\ proc' = proc
      /\ svc' = [svc EXCEPT ![s] = Answered(svc[s])]
  BY <1>1 DEF SvcAskReceive, Answered
<1>4. k \in Keys
  BY <1>1, <1>3, KeyOf DEF SShape
<1>5. queue' = [queue EXCEPT ![k] = RemoveAt(queue[k], i)]
  BY DEF SvcAskReceive, ReceiveReply, Take
<1>6. i \in 1 .. Len(queue[k]) /\ queue[k][i].dst = s
  BY FirstOfIsFirst DEF SvcAskReceive, ReceiveReply, Waiting
<1> HIDE DEF k, i
<1>7. Client(queue[k][i]) = s
  BY <1>1, <1>6, RequestIsNoPid DEF Client
<1>8. PICK v : v = Answered(svc[s])
  OBVIOUS
<1>9. v.st = "reply" /\ v.msg = svc[s].msg
  BY <1>1, <1>3, <1>8, SvcAnswered
<1>10. svc'[s] = v /\ (\A t \in Services \ {s} : svc'[t] = svc[t]) /\ SameHands
  BY <1>1, <1>3, <1>8, <1>9, ServiceMoves
<1>11. Active(svc') = Active(svc) \cup {s}
  BY <1>9, <1>10 DEF Active
<1>12. Chain(R, svc')
  BY <1>2, <1>10 DEF Chain, SameHands
<1>13. Apart(R, queue', Active(svc) \cup {s}, Busy(proc'))
  <2>1. PICK S : S = {s}
    OBVIOUS
  <2>2. /\ \A b \in Busy(proc) : b \in Busy(proc') \/ (S = {} /\ b = R[Client(queue[k][i])])
        /\ \A t \in S : R[t] = R[Client(queue[k][i])]
        /\ \A t, u \in S : t = u
    BY <1>3, <1>7, <2>1
  <2>3. Apart(R, queue', Active(svc) \cup S, Busy(proc'))
    BY <1>1, <1>2, <1>4, <1>5, <1>6, <2>2, ApartRemove
  <2> QED
    BY <2>1, <2>3
<1> QED
  BY <1>11, <1>12, <1>13 DEF Tokens

LEMMA TokensSvcReply ==
  ASSUME Counted, NEW s \in Services, SvcReply(s)
  PROVE  Tokens'
<1>1. /\ Typed /\ s \in Procs /\ queue \in [Keys -> Seq(Message)] /\ svc \in [Services -> SvcType]
  BY DEF Counted, Awaited, Ordered, Typed, TypeOK, Procs
<1>2. PICK R \in [Procs -> Pids] : Chain(R, svc) /\ Apart(R, queue, Active(svc), Busy(proc))
  BY DEF Counted, Tokens
<1> DEFINE k == service_key(s)
           m == svc[s].msg
           r == [dst |-> m.src, src |-> s, id |-> m.id, to |-> s]
<1>3. /\ svc[s].st = "reply" /\ proc' = proc /\ svc' = [svc EXCEPT ![s] = Ready]
      /\ queue' = [queue EXCEPT ![k] = Append(@, r)]
  BY DEF SvcReply
<1>4. m \in Message /\ m # Null
  BY <1>1, <1>3, SvcInHand
<1>5. m.src \in Procs /\ k \in Keys /\ r \in Message
  BY <1>1, <1>4, KeyOf DEF Message
<1>6. Client(r) = m.src
  BY <1>5, RequestIsNoPid DEF Client
<1>7. R[s] = R[m.src]
  BY <1>2, <1>4 DEF Chain
<1> HIDE DEF k, m, r
<1>8. svc'[s] = Ready /\ \A t \in Services \ {s} : svc'[t] = svc[t]
  BY <1>1, <1>3, ServiceMoves
<1>9. s \in Active(svc) /\ Active(svc') = Active(svc) \ {s}
  BY <1>3, <1>8, Values DEF Active
<1>10. Chain(R, svc')
  BY <1>2, <1>8, Values DEF Chain
<1>11. Apart(R, queue, Active(svc'), Busy(proc'))
  BY <1>2, <1>3, <1>9, ApartLess
<1>12. R[Client(r)] \in Busy(proc') /\ \A t \in Active(svc') : R[t] # R[Client(r)]
  BY <1>2, <1>3, <1>6, <1>7, <1>9 DEF Apart
<1>13. \A l \in Keys : \A i \in 1 .. Len(queue[l]) : R[Client(queue[l][i])] # R[Client(r)]
  BY <1>2, <1>6, <1>7, <1>9 DEF Apart
<1>14. Apart(R, queue', Active(svc'), Busy(proc'))
  BY <1>1, <1>3, <1>5, <1>11, <1>12, <1>13, ApartAppend
<1> QED
  BY <1>10, <1>14 DEF Tokens

LEMMA StepTokens ==
  ASSUME OneAtATime, Counted, Next
  PROVE  Tokens'
<1>1. Typed /\ Awaits /\ Tokens /\ proc \in [Pids -> ProcType] /\ svc \in [Services -> SvcType]
  BY DEF Counted, Awaited, Ordered, Typed, TypeOK
<1>2. ASSUME NEW c \in Pids, NEW v, proc' = [proc EXCEPT ![c] = v], queue' = queue, svc' = svc,
             c \notin Busy(proc) \/ v.st \in {"receive", "poll", "zombie"}
      PROVE  Tokens'
  <2>1. proc'[c] = v /\ \A q \in Pids \ {c} : proc'[q] = proc[q]
    BY <1>1, <1>2, ProcMoves
  <2>2. Busy(proc) \subseteq Busy(proc')
    BY <1>2, <2>1 DEF Busy
  <2> QED
    BY <1>1, <1>2, <2>2, TokensQuiet
<1>3. ASSUME NEW p \in Pids, ClientStep(p) \/ Kill(p) \/ Start(p) PROVE Tokens'
  <2>1. ClientStep(p) /\ PShape(proc[p], p)
    BY <1>1, <1>3 DEF OneAtATime, Kill, Start, Typed, Shape
  <2>2. CASE Msgsnd(p)
    BY <2>2, TokensMsgsnd
  <2>3. CASE Msgrcv(p)
    <3>1. proc[p].to \in Services
      BY <2>1, <2>3 DEF PShape, Msgrcv
    <3> QED
      BY <2>3, <3>1, TokensReceive DEF Msgrcv
  <2>4. CASE PollReply(p)
    <3>1. proc[p].to \in Services
      BY <2>1, <2>4 DEF PShape, PollReply
    <3> QED
      BY <2>4, <3>1, TokensReceive DEF PollReply
  <2>5. CASE PollSleep(p)
    <3>1. /\ proc' = [proc EXCEPT ![p] = PollNext(p)] /\ proc[p].st = "poll"
          /\ queue' = queue /\ svc' = svc
      BY <1>1, <2>5 DEF PollSleep, PollNext
    <3>2. proc[p].op = "tell" /\ parent[p] # Null
      BY <1>1, <2>1, <3>1 DEF PShape, Awaits, Commands
    <3>3. PollNext(p).st \in {"poll", "zombie"}
      BY <1>1, <3>1, <3>2, PollNextIs, ExitedIs
    <3> QED
      BY <1>2, <3>1, <3>3
  <2> QED
    BY <2>1, <2>2, <2>3, <2>4, <2>5 DEF ClientStep
<1>4. ASSUME NEW p \in Pids, NEW s \in Services,
             \/ CallSend(p, s) \/ CallReceive(p, s)
             \/ \E c \in Children : CallTell(p, c, s)
      PROVE  Tokens'
  <2>1. ASSUME NEW c \in Pids, NEW v, proc' = [proc EXCEPT ![c] = v], queue' = queue, svc' = svc,
               proc[c].st \in {"idle", "none"}
        PROVE  Tokens'
    BY <1>2, <2>1 DEF Busy
  <2>2. CASE CallSend(p, s)
    BY <2>1, <2>2 DEF CallSend
  <2>3. CASE CallReceive(p, s)
    BY <2>1, <2>3 DEF CallReceive
  <2>4. ASSUME NEW c \in Children, CallTell(p, c, s) PROVE Tokens'
    <3>1. c \in Pids
      BY DEF Pids
    <3> QED
      BY <2>1, <2>4, <3>1 DEF CallTell
  <2> QED
    BY <1>4, <2>2, <2>3, <2>4
<1>5. ASSUME NEW s \in Services, NEW v, svc' = [svc EXCEPT ![s] = v], queue' = queue, proc' = proc,
             s \in Active(svc) \/ v.st \in {"down", "receive"},
             v.msg = Null \/ v.msg = svc[s].msg
      PROVE  Tokens'
  <2>1. svc'[s] = v /\ \A t \in Services \ {s} : svc'[t] = svc[t]
    BY <1>1, <1>5, ServiceMoves
  <2>2. Active(svc') \subseteq Active(svc)
    BY <1>5, <2>1 DEF Active
  <2>3. \A t \in Services : svc'[t].msg # Null => svc'[t].msg = svc[t].msg
    BY <1>5, <2>1
  <2>4. Busy(proc) \subseteq Busy(proc')
    BY <1>5
  <2> QED
    BY <1>1, <1>5, <2>2, <2>3, <2>4, TokensQuiet
<1>6. ASSUME NEW s \in Services,
             \/ ServiceStep(s) \/ SvcCrash(s)
             \/ \E t \in Services : SvcAsk(s, t)
      PROVE  Tokens'
  <2>1. CASE SvcReceive(s)
    BY <2>1, TokensSvcReceive
  <2>2. CASE SvcAskSend(s)
    BY <2>2, TokensSvcAskSend
  <2>3. CASE SvcAskReceive(s)
    BY <2>3, TokensSvcAskReceive
  <2>4. CASE SvcReply(s)
    BY <2>4, TokensSvcReply
  <2>5. CASE SvcCheck(s)
    <3>1. svc[s].st = "check" /\ s \in Active(svc) /\ queue' = queue /\ proc' = proc
      BY <2>5 DEF SvcCheck, Active
    <3>2. CASE svc' = [svc EXCEPT ![s] = Moved(svc[s], "eval")]
      <4>1. Moved(svc[s], "eval").msg = svc[s].msg
        BY <1>1, <3>1, SvcGoesOn
      <4> QED
        BY <1>5, <3>1, <3>2, <4>1
    <3>3. CASE svc' = [svc EXCEPT ![s] = Ready]
      BY <1>5, <3>1, <3>3, Values
    <3> QED
      BY <1>1, <2>5, <3>2, <3>3 DEF SvcCheck, Moved
  <2>6. CASE SvcEval(s)
    <3>1. /\ svc[s].st = "eval" /\ s \in Active(svc) /\ queue' = queue /\ proc' = proc
          /\ svc' = [svc EXCEPT ![s] = Moved(svc[s], "reply")]
      BY <1>1, <2>6 DEF SvcEval, Active, Moved
    <3>2. Moved(svc[s], "reply").msg = svc[s].msg
      BY <1>1, <3>1, SvcGoesOn
    <3> QED
      BY <1>5, <3>1, <3>2
  <2>7. ASSUME NEW t \in Services, SvcAsk(s, t) PROVE Tokens'
    <3>1. PICK id \in Ids : svc' = [svc EXCEPT ![s] = Asks(svc[s], id, t)]
      BY <1>1, <2>7 DEF SvcAsk, Asks
    <3>2. /\ svc[s].st = "eval" /\ s \in Active(svc) /\ queue' = queue /\ proc' = proc
          /\ Calls # {}
      BY <2>7 DEF SvcAsk, Active
    <3>3. Asks(svc[s], id, t).msg = svc[s].msg
      BY <1>1, <3>2, SvcAsks
    <3> QED
      BY <1>5, <3>1, <3>2, <3>3
  <2>8. CASE SvcCrash(s)
    BY <1>5, <2>8, Values DEF SvcCrash
  <2>9. CASE SvcStart(s)
    BY <1>5, <2>9, Values DEF SvcStart
  <2> QED
    BY <1>6, <2>1, <2>2, <2>3, <2>4, <2>5, <2>6, <2>7, <2>8, <2>9 DEF ServiceStep
<1> QED
  BY <1>3, <1>4, <1>6 DEF Next, Reap, OneAtATime

LEMMA InitCounted == Pids # {} /\ Init => Counted
<1> SUFFICES ASSUME Pids # {}, Init PROVE Tokens
  BY InitAwaited DEF Counted
<1>1. PICK p \in Pids : TRUE
  OBVIOUS
<1> DEFINE R == [q \in Procs |-> IF q \in Pids THEN q ELSE p]
<1>2. R \in [Procs -> Pids] /\ \A q \in Pids : R[q] = q
  BY DEF Procs
<1>3. \A s \in Services : svc[s].msg = Null /\ svc[s].st = "receive"
  BY Values DEF Init
<1>4. \A k \in Keys : queue[k] = <<>>
  BY DEF Init
<1> HIDE DEF R
<1>5. Chain(R, svc)
  BY <1>2, <1>3 DEF Chain
<1>6. Active(svc) = {}
  BY <1>3 DEF Active
<1>7. Apart(R, queue, Active(svc), Busy(proc))
  BY <1>4, <1>6 DEF Apart
<1> QED
  BY <1>2, <1>5, <1>7 DEF Tokens

LEMMA StepCounted == DistinctKeys /\ OneAtATime /\ Counted /\ [Next]_vars => Counted'
<1> SUFFICES ASSUME DistinctKeys, OneAtATime, Counted, [Next]_vars PROVE Counted'
  OBVIOUS
<1>1. Awaited'
  BY StepAwaited DEF Counted
<1>2. CASE UNCHANGED vars
  <2>1. queue' = queue /\ svc' = svc /\ proc' = proc
    BY <1>2 DEF vars
  <2>2. Tokens'
    BY <2>1, TokensQuiet DEF Counted
  <2> QED
    BY <1>1, <2>2 DEF Counted
<1>3. CASE Next
  BY <1>1, <1>3, StepTokens DEF Counted
<1> QED
  BY <1>2, <1>3

(* A queue holds as many messages as there are processes.                  *)
RoomForAll == Pids # {} /\ IsFiniteSet(Pids) /\ Cardinality(Pids) <= Capacity

(* A service with a request in hand and a queue of distinct commands, all  *)
(* other than its own: there are fewer of them than processes.             *)
LEMMA ReplyHasRoom ==
  ASSUME RoomForAll, Counted,
         NEW s \in Services, svc[s].st = "reply"
  PROVE  Room(service_key(s))
<1> DEFINE k == service_key(s)
           n == Len(queue[k])
<1>1. PICK R \in [Procs -> Pids] : Chain(R, svc) /\ Apart(R, queue, Active(svc), Busy(proc))
  BY DEF Counted, Tokens
<1>2. k \in Keys /\ s \in Active(svc) /\ s \in Procs
  BY KeyOf DEF Active, Procs
<1>3. queue[k] \in Seq(Message) /\ n \in Nat
  BY <1>2 DEF Counted, Awaited, Ordered, Typed, TypeOK
<1> DEFINE T == Pids \ {R[s]}
           f == [i \in 1 .. n |-> R[Client(queue[k][i])]]
<1>4. ASSUME NEW i \in 1 .. n PROVE R[Client(queue[k][i])] \in T
  <2>1. queue[k][i] \in Message
    BY <1>3, MessageIds
  <2>2. R[Client(queue[k][i])] \in Pids
    BY <2>1, ClientIsProc
  <2>3. R[Client(queue[k][i])] # R[s]
    BY <1>1, <1>2 DEF Apart
  <2> QED
    BY <2>2, <2>3
<1>5. \A i, j \in 1 .. n : R[Client(queue[k][i])] = R[Client(queue[k][j])] => i = j
  BY <1>1, <1>2 DEF Apart
<1>6. f \in Injection(1 .. n, T)
  <2> HIDE DEF T, n, k
  <2>1. f \in [1 .. n -> T]
    BY <1>4
  <2>2. \A i, j \in 1 .. n : f[i] = f[j] => i = j
    BY <1>5
  <2> HIDE DEF f
  <2> QED
    BY <2>1, <2>2 DEF Injection, IsInjective
<1>7. IsFiniteSet(T) /\ Cardinality(T) = Cardinality(Pids) - 1
  <2>1. R[s] \in Pids
    BY <1>2
  <2> QED
    BY <2>1, FS_RemoveElement DEF RoomForAll
<1>8. Cardinality(1 .. n) <= Cardinality(T)
  <2> HIDE DEF f, T, n
  <2> QED
    BY <1>6, <1>7, FS_Injection
<1>9. Cardinality(1 .. n) = n
  <2> HIDE DEF n
  <2>1. Cardinality(1 .. n) = IF 1 > n THEN 0 ELSE n - 1 + 1
    BY <1>3, FS_Interval
  <2> QED
    BY <1>3, <2>1
<1>10. Cardinality(Pids) \in Nat
  BY FS_CardinalityType DEF RoomForAll
<1>11. n < Capacity
  <2> HIDE DEF n, T
  <2> QED
    BY <1>3, <1>7, <1>8, <1>9, <1>10, ChannelAssumption DEF RoomForAll
<1> QED
  BY <1>11 DEF Room

(* When a queue holds as many messages as there are pids, shells use only  *)
(* ask, tell and receive, no pid is used again (no process is killed and   *)
(* no child waited for) and services do not share a queue, a service that is about to reply finds room, however services    *)
(* ask each other and crash, and however many tells have given up.         *)
THEOREM ReplyNeverBlocksThm ==
  DistinctKeys /\ OneAtATime /\ RoomForAll => (Spec => []ReplyNeverBlocks)
<1> SUFFICES ASSUME DistinctKeys, OneAtATime, RoomForAll PROVE Spec => []ReplyNeverBlocks
  OBVIOUS
<1>1. Init => Counted
  BY InitCounted DEF RoomForAll
<1>2. Counted /\ [Next]_vars => Counted'
  BY StepCounted
<1>3. Spec => []Counted
  BY <1>1, <1>2, PTL DEF Spec
<1>4. Counted => ReplyNeverBlocks
  BY ReplyHasRoom DEF ReplyNeverBlocks
<1> QED
  BY <1>3, <1>4, PTL

=============================================================================
