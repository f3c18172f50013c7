------------------------- MODULE LinkMonitorProofs -------------------------
(***************************************************************************)
(* The safety of the link monitor for every set of links, every size of    *)
(* the receive buffer and every choice of the bounce times.                *)
(***************************************************************************)
EXTENDS LinkMonitor, TLAPS

(* What the history of a link leaves behind: a DelLink in the buffer, a    *)
(* lost one and the removed flag all mean that the link is gone.           *)
Announced(q) == {i \in Index : \E n \in 1 .. Len(q) : q[n].type = "DelLink" /\ q[n].index = i}
Gone ==
  /\ \A i \in Announced(queue) : link[i] = "gone" /\ i \notin lost
  /\ \A i \in lost : link[i] = "gone"
  /\ \A i \in Index : iface[i].removed => iface[i].known /\ link[i] = "gone" /\ i \notin lost
  /\ \A i \in Index : addr[i] = "set" => Present(i)

(* The object of link f may be bounced: its round goes on, or a new one    *)
(* may begin.                                                              *)
Rested(f) == f.attempts = 0 => f.since >= Reattempt
MayBounce(f) == f.attempts < Attempts /\ (f.attempts = 0 \/ f.since >= Interval)

Bounces ==
  /\ \A i \in Index : Rested(iface[i])
  /\ pc = "repair" => MayBounce(iface[cur])

IInv == TypeOK /\ Gone /\ Bounces

USE LinkMonitorAssumption

-----------------------------------------------------------------------------
(* Facts about the operators on an Interface object.                       *)

(* What update and Follow leave alone.                                     *)
Kept(f, g) == g.attempts = f.attempts /\ g.since = f.since /\ g.removed = f.removed /\ g.known = f.known

LEMMA NoInterfaceType == NoInterface \in Interface /\ Rested(NoInterface) /\ ~NoInterface.removed
BY DEF NoInterface, Interface, LongestWait, Rested

LEMMA UpdateKeeps ==
  ASSUME NEW f \in Interface, NEW b \in BOOLEAN, NEW c \in BOOLEAN
  PROVE  update(f, b, c) \in Interface /\ Kept(f, update(f, b, c))
BY DEF update, Interface, Kept

LEMMA ProcessedKeeps ==
  ASSUME NEW f \in Interface
  PROVE  processed(f) \in Interface /\ Kept(f, processed(f))
BY DEF processed, Interface, Kept

LEMMA FollowKeeps ==
  ASSUME NEW f \in Interface, NEW b \in BOOLEAN, NEW c \in BOOLEAN
  PROVE  Follow(f, b, c) \in Interface /\ Kept(f, Follow(f, b, c))
<1> DEFINE g == update(f, b, c)
<1>1. g \in Interface /\ Kept(f, g)
  BY UpdateKeeps
<1>2. processed(g) \in Interface /\ Kept(g, processed(g))
  BY <1>1, ProcessedKeeps
<1> QED
  BY <1>1, <1>2 DEF Follow, Kept

(* bounce_expired: the reset of the counter, and what a repair may rely on.*)
LEMMA ResetKeeps ==
  ASSUME NEW f \in Interface, Rested(f)
  PROVE  /\ ResetAttempts(f) \in Interface /\ Rested(ResetAttempts(f))
         /\ ResetAttempts(f).removed = f.removed
         /\ bounce_expired(f) => MayBounce(ResetAttempts(f))
         /\ ResetAttempts(f).attempts <= f.attempts
BY DEF ResetAttempts, Interface, Rested, MayBounce, bounce_expired, LongestWait

LEMMA BouncedType ==
  ASSUME NEW f \in Interface, f.attempts < Attempts
  PROVE  /\ bounced(f) \in Interface /\ Rested(bounced(f))
         /\ bounced(f).removed = f.removed
<1>1. f.attempts + 1 \in 0 .. Attempts /\ 0 \in 0 .. LongestWait
  BY DEF Interface, LongestWait
<1>2. bounced(f).attempts = f.attempts + 1 /\ bounced(f).removed = f.removed
  BY DEF bounced, Interface
<1>3. bounced(f) \in Interface
  BY <1>1 DEF bounced, Interface
<1>4. Rested(bounced(f))
  BY <1>2 DEF Rested, Interface
<1> QED
  BY <1>2, <1>3, <1>4

-----------------------------------------------------------------------------
(* Facts about the receive buffer.                                         *)
AllMessages == Messages \cup Answers
Buffer(q) == q \in Seq(AllMessages) /\ Len(q) <= Room

LEMMA MessageType ==
  ASSUME NEW i \in Index, NEW b \in BOOLEAN, NEW t \in {"NewLink", "DelLink", "DelPort", "DelAddress"}
  PROVE  Message(t, i, b) \in Messages /\ Message(t, i, b).type = t /\ Message(t, i, b).index = i
BY DEF Message, Messages

LEMMA AppendBuffer ==
  ASSUME NEW q, Buffer(q), Len(q) < Room, NEW m \in AllMessages, m.type # "DelLink"
  PROVE  Buffer(Append(q, m)) /\ Announced(Append(q, m)) \subseteq Announced(q)
<1>1. Buffer(Append(q, m))
  BY DEF Buffer
<1>2. ASSUME NEW n \in 1 .. Len(Append(q, m)), Append(q, m)[n].type = "DelLink"
      PROVE  n \in 1 .. Len(q) /\ Append(q, m)[n] = q[n]
  BY <1>2 DEF Buffer
<1> QED
  BY <1>1, <1>2 DEF Announced

LEMMA TailBuffer ==
  ASSUME NEW q, Buffer(q), q # <<>>
  PROVE  /\ Buffer(Tail(q)) /\ Announced(Tail(q)) \subseteq Announced(q)
         /\ Head(q) \in AllMessages /\ Head(q) = q[1] /\ 1 \in 1 .. Len(q)
<1>1. Buffer(Tail(q)) /\ Head(q) \in AllMessages /\ Head(q) = q[1] /\ 1 \in 1 .. Len(q)
  BY DEF Buffer
<1>2. ASSUME NEW n \in 1 .. Len(Tail(q))
      PROVE  n + 1 \in 1 .. Len(q) /\ Tail(q)[n] = q[n + 1]
  BY <1>2 DEF Buffer
<1> QED
  BY <1>1, <1>2 DEF Announced

(* An announcement of something else than a DelLink.                       *)
LEMMA AnnounceOther ==
  ASSUME Buffer(queue), NEW ms \in Seq(Messages), Announce(ms),
         \A n \in 1 .. Len(ms) : ms[n].type # "DelLink"
  PROVE  Buffer(queue') /\ Announced(queue') \subseteq Announced(queue) /\ lost' = lost
<1>1. CASE Len(queue) + Len(ms) <= Room /\ queue' = queue \o ms /\ UNCHANGED lost
  <2>1. ms \in Seq(AllMessages)
    BY DEF AllMessages
  <2>2. Buffer(queue')
    BY <1>1, <2>1 DEF Buffer
  <2>3. ASSUME NEW n \in 1 .. Len(queue'), queue'[n].type = "DelLink"
        PROVE  n \in 1 .. Len(queue) /\ queue'[n] = queue[n]
    <3>1. n \in 1 .. Len(queue) \/ (n - Len(queue) \in 1 .. Len(ms) /\ queue'[n] = ms[n - Len(queue)])
      BY <1>1, <2>1 DEF Buffer
    <3> QED
      BY <1>1, <2>1, <2>3, <3>1 DEF Buffer
  <2> QED
    BY <1>1, <2>2, <2>3 DEF Announced
<1>2. CASE UNCHANGED queue /\ lost' = lost \cup
             {i \in Index : \E n \in DOMAIN ms : ms[n] = Message("DelLink", i, FALSE)}
  <2>1. ASSUME NEW i \in Index, NEW n \in DOMAIN ms PROVE ms[n] # Message("DelLink", i, FALSE)
    BY DEF Message
  <2> QED
    BY <1>2, <2>1
<1> QED
  BY <1>1, <1>2 DEF Announce

(* The announcement of the removal of i.                                   *)
LEMMA AnnounceRemoval ==
  ASSUME Buffer(queue), NEW i \in Index, Announce(<<Message("DelLink", i, FALSE)>>)
  PROVE  /\ Buffer(queue')
         /\ \/ Announced(queue') \subseteq Announced(queue) \cup {i} /\ lost' = lost
            \/ queue' = queue /\ lost' = lost \cup {i}
<1> DEFINE m == Message("DelLink", i, FALSE)
<1>0. m \in Messages /\ m.type = "DelLink" /\ m.index = i
  BY MessageType
<1>a. ASSUME NEW j \in Index, m = Message("DelLink", j, FALSE) PROVE j = i
  <2>1. Message("DelLink", j, FALSE).index = j
    BY DEF Message
  <2> HIDE DEF m
  <2> QED
    BY <1>a, <1>0, <2>1
<1>c. m = Message("DelLink", i, FALSE)
  OBVIOUS
<1>b. Announce(<<m>>)
  OBVIOUS
<1> HIDE DEF m
<1>1. CASE Len(queue) + Len(<<m>>) <= Room /\ queue' = queue \o <<m>> /\ UNCHANGED lost
  <2>1. queue' \in Seq(AllMessages) /\ Len(queue') = Len(queue) + 1
    BY <1>0, <1>1 DEF Buffer, AllMessages
  <2>2. Buffer(queue')
    BY <1>1, <2>1 DEF Buffer
  <2>3. ASSUME NEW n \in 1 .. Len(queue')
        PROVE  queue'[n] = m \/ (n \in 1 .. Len(queue) /\ queue'[n] = queue[n])
    BY <1>1, <2>1 DEF Buffer
  <2> QED
    BY <1>0, <1>1, <2>2, <2>3 DEF Announced
<1>2. CASE UNCHANGED queue /\ lost' = lost \cup
             {j \in Index : \E n \in DOMAIN <<m>> : <<m>>[n] = Message("DelLink", j, FALSE)}
  <2>1. {j \in Index : \E n \in DOMAIN <<m>> : <<m>>[n] = Message("DelLink", j, FALSE)} = {i}
    <3>1. DOMAIN <<m>> = {1} /\ <<m>>[1] = m
      OBVIOUS
    <3> QED
      BY <3>1, <1>a, <1>c
  <2> QED
    BY <1>2, <2>1
<1> QED
  BY <1>1, <1>2, <1>b DEF Announce

-----------------------------------------------------------------------------
(* How the parts of the invariant carry over to the next state.            *)
LEMMA TypeParts ==
  ASSUME TypeOK
  PROVE  /\ Buffer(queue) /\ \A i \in Index : iface[i] \in Interface /\ carrier(i) \in BOOLEAN
         /\ cur \in Index
BY DEF TypeOK, Buffer, AllMessages, carrier

LEMMA GoneKept ==
  ASSUME IInv, lost' = lost, Announced(queue') \subseteq Announced(queue),
         \A i \in Index : link[i] = "gone" => link'[i] = "gone",
         \A i \in Index : iface'[i].removed => iface'[i].known /\ (iface[i].removed \/ i \in Announced(queue)),
         \A i \in Index : addr'[i] = "set" => link'[i] \in {"down", "up"}
  PROVE  Gone'
BY DEF IInv, TypeOK, Gone, Present, Announced

LEMMA SetType ==
  ASSUME iface \in [Index -> Interface], NEW i \in Index, NEW f \in Interface, Set(i, f)
  PROVE  /\ iface' \in [Index -> Interface] /\ iface'[i] = f
         /\ \A j \in Index \ {i} : iface'[j] = iface[j]
BY DEF Set

LEMMA Delivered ==
  ASSUME IInv, NEW i \in Index, NEW t \in {"NewLink", "DelLink", "DelPort", "DelAddress"}, Deliver(t, i)
  PROVE  /\ Head(queue).lower \in BOOLEAN
         /\ Buffer(queue') /\ Announced(queue') \subseteq Announced(queue)
         /\ lost' = lost /\ dump' = dump /\ cur' = i
         /\ t = "DelLink" => i \in Announced(queue)
<1>1. Buffer(queue)
  BY TypeParts DEF IInv
<1>2. queue # <<>> /\ queue' = Tail(queue)
  BY DEF Deliver, Take
<1>3. Head(queue) \in AllMessages /\ Head(queue) = queue[1] /\ 1 \in 1 .. Len(queue)
  BY <1>1, <1>2, TailBuffer
<1>4. Head(queue) \in Messages
  BY <1>3 DEF AllMessages, Answers, Deliver
<1> QED
  BY <1>1, <1>2, <1>3, <1>4, TailBuffer DEF Deliver, Take, Messages, Announced

-----------------------------------------------------------------------------
(* A link as LinkLife sees it, for steps that leave it alone.              *)
LEMMA LifeStutters ==
  ASSUME NEW i \in Index, link'[i] = link[i], addr'[i] = addr[i], lost' = lost,
         iface'[i].removed = iface[i].removed
  PROVE  OfLink(i)!Step
BY DEF OfLink!Step, OfLink!life

LifeStep == \A j \in Index : OfLink(j)!Step

LEMMA InitIInv == ASSUME Init PROVE IInv /\ \A i \in Index : OfLink(i)!Begin
<1>1. TypeOK
  <2>1. queue \in Seq(Messages \cup Answers) /\ Len(queue) <= Room
    BY DEF Init
  <2>2. dump \in [on : BOOLEAN, todo : SUBSET Index]
    BY DEF Init, NoDump
  <2> QED
    BY <2>1, <2>2, NoInterfaceType DEF Init, TypeOK
<1>2. Gone
  BY NoInterfaceType DEF Init, Gone, Announced
<1>3. Bounces
  BY NoInterfaceType DEF Init, Bounces
<1>4. \A i \in Index : OfLink(i)!Begin
  BY DEF Init, NoInterface, OfLink!Begin
<1> QED
  BY <1>1, <1>2, <1>3, <1>4 DEF IInv

-----------------------------------------------------------------------------
(* The kernel.                                                             *)

(* A link appears.                                                        *)
LEMMA AppearStep ==
  ASSUME IInv, NEW i \in Index, Appear(i) PROVE IInv' /\ LifeStep
<1>0. PICK to \in {"down", "up"} :
        /\ link[i] = "none" /\ Change(i, to) /\ Announce(<<Message("NewLink", i, to = "up")>>)
        /\ UNCHANGED addr
  BY DEF Appear
<1> DEFINE m == Message("NewLink", i, to = "up")
<1>a. m \in Messages /\ m.type # "DelLink" /\ Announce(<<m>>)
  BY <1>0 DEF Message, Messages
<1>b. Buffer(queue') /\ Announced(queue') \subseteq Announced(queue) /\ lost' = lost
  <2> HIDE DEF m
  <2>1. <<m>> \in Seq(Messages) /\ \A n \in 1 .. Len(<<m>>) : <<m>>[n].type # "DelLink"
    BY <1>a
  <2> QED
    BY <1>a, <2>1, AnnounceOther, TypeParts DEF IInv
<1>c. /\ link' = [link EXCEPT ![i] = to] /\ UNCHANGED <<kind, addr, sentinel, dump, iface, pc, cur>>
      /\ link[i] # "gone"
  BY <1>0 DEF Change, monitor, Present
<1> HIDE DEF m
<1>1. TypeOK'
  BY <1>b, <1>c DEF IInv, TypeOK, Buffer, AllMessages
<1>2. Gone'
  BY <1>b, <1>c, GoneKept DEF IInv, TypeOK, Gone, Present
<1>3. Bounces'
  BY <1>c DEF IInv, Bounces
<1>4. LifeStep
  <2>1. ASSUME NEW j \in Index PROVE (link'[j] = "gone") <=> (link[j] = "gone")
    BY <1>c DEF IInv, TypeOK
  <2> QED
    BY <1>b, <1>c, <2>1 DEF LifeStep, OfLink!Step, OfLink!life
<1> QED
  BY <1>1, <1>2, <1>3, <1>4 DEF IInv

(* A carrier changes.                                                     *)
LEMMA CarrierStep ==
  ASSUME IInv, NEW i \in Index, Carrier(i) PROVE IInv' /\ LifeStep
<1>0. PICK to \in {"down", "up"} :
        /\ Present(i) /\ Change(i, to) /\ Announce(<<Message("NewLink", i, to = "up")>>)
        /\ UNCHANGED addr
  BY DEF Carrier
<1> DEFINE m == Message("NewLink", i, to = "up")
<1>a. m \in Messages /\ m.type # "DelLink" /\ Announce(<<m>>)
  BY <1>0 DEF Message, Messages
<1>b. Buffer(queue') /\ Announced(queue') \subseteq Announced(queue) /\ lost' = lost
  <2> HIDE DEF m
  <2>1. <<m>> \in Seq(Messages) /\ \A n \in 1 .. Len(<<m>>) : <<m>>[n].type # "DelLink"
    BY <1>a
  <2> QED
    BY <1>a, <2>1, AnnounceOther, TypeParts DEF IInv
<1>c. /\ link' = [link EXCEPT ![i] = to] /\ UNCHANGED <<kind, addr, sentinel, dump, iface, pc, cur>>
      /\ link[i] # "gone"
  BY <1>0 DEF Change, monitor, Present
<1> HIDE DEF m
<1>1. TypeOK'
  BY <1>b, <1>c DEF IInv, TypeOK, Buffer, AllMessages
<1>2. Gone'
  BY <1>b, <1>c, GoneKept DEF IInv, TypeOK, Gone, Present
<1>3. Bounces'
  BY <1>c DEF IInv, Bounces
<1>4. LifeStep
  <2>1. ASSUME NEW j \in Index PROVE (link'[j] = "gone") <=> (link[j] = "gone")
    BY <1>c DEF IInv, TypeOK
  <2> QED
    BY <1>b, <1>c, <2>1 DEF LifeStep, OfLink!Step, OfLink!life
<1> QED
  BY <1>1, <1>2, <1>3, <1>4 DEF IInv

(* A link leaves a bridge.                                                *)
LEMMA LeaveBridgeStep ==
  ASSUME IInv, NEW i \in Index, LeaveBridge(i) PROVE IInv' /\ LifeStep
<1> DEFINE m == Message("DelPort", i, carrier(i))
<1>a. m \in Messages /\ m.type # "DelLink" /\ Announce(<<m>>)
  BY DEF LeaveBridge, Message, Messages, carrier
<1>b. Buffer(queue') /\ Announced(queue') \subseteq Announced(queue) /\ lost' = lost
  <2> HIDE DEF m
  <2>1. <<m>> \in Seq(Messages) /\ \A n \in 1 .. Len(<<m>>) : <<m>>[n].type # "DelLink"
    BY <1>a
  <2> QED
    BY <1>a, <2>1, AnnounceOther, TypeParts DEF IInv
<1>c. UNCHANGED <<kind, link, addr, sentinel, dump, iface, pc, cur>>
  BY DEF LeaveBridge, kernel, monitor
<1> HIDE DEF m
<1>1. TypeOK'
  BY <1>b, <1>c DEF IInv, TypeOK, Buffer, AllMessages
<1>2. Gone'
  BY <1>b, <1>c, GoneKept DEF IInv, TypeOK, Gone, Present
<1>3. Bounces'
  BY <1>c DEF IInv, Bounces
<1>4. LifeStep
  BY <1>b, <1>c, LifeStutters DEF LifeStep
<1> QED
  BY <1>1, <1>2, <1>3, <1>4 DEF IInv

(* A link leaves the system: the Vanish of LinkLife.                      *)
LEMMA DisappearStep ==
  ASSUME IInv, NEW i \in Index, Disappear(i) PROVE IInv' /\ LifeStep
<1>a. /\ Present(i) /\ Announce(<<Message("DelLink", i, FALSE)>>)
      /\ link' = [link EXCEPT ![i] = "gone"] /\ addr' = [addr EXCEPT ![i] = "never"]
      /\ UNCHANGED <<kind, sentinel, dump, iface, pc, cur>>
  BY DEF Disappear, Change, monitor
<1>b. /\ Buffer(queue')
      /\ \/ Announced(queue') \subseteq Announced(queue) \cup {i} /\ lost' = lost
         \/ queue' = queue /\ lost' = lost \cup {i}
  BY <1>a, AnnounceRemoval, TypeParts DEF IInv
<1>c. link[i] # "gone" /\ link'[i] = "gone" /\ addr'[i] = "never"
  BY <1>a DEF IInv, TypeOK, Present
<1>d. \A j \in Index \ {i} : link'[j] = link[j] /\ addr'[j] = addr[j]
  BY <1>a DEF IInv, TypeOK
<1>e. i \notin lost /\ ~iface[i].removed /\ i \notin Announced(queue)
  BY <1>c DEF IInv, Gone
<1>1. TypeOK'
  BY <1>a, <1>b DEF IInv, TypeOK, Buffer, AllMessages
<1>2. Gone'
  <2>1. \A j \in Announced(queue') : link'[j] = "gone" /\ j \notin lost'
    BY <1>b, <1>c, <1>d, <1>e DEF IInv, Gone, Announced
  <2>2. \A j \in lost' : link'[j] = "gone"
    BY <1>b, <1>c, <1>d DEF IInv, TypeOK, Gone
  <2>3. \A j \in Index : iface'[j].removed => iface'[j].known /\ link'[j] = "gone" /\ j \notin lost'
    BY <1>a, <1>b, <1>c, <1>d, <1>e DEF IInv, Gone
  <2>4. \A j \in Index : addr'[j] = "set" => Present(j)'
    BY <1>c, <1>d DEF IInv, Gone, Present
  <2> QED
    BY <2>1, <2>2, <2>3, <2>4 DEF Gone
<1>3. Bounces'
  BY <1>a DEF IInv, Bounces
<1>4. LifeStep
  <2>1. OfLink(i)!Vanish
    BY <1>a, <1>b, <1>c, <1>e DEF OfLink!Vanish
  <2>2. ASSUME NEW j \in Index \ {i} PROVE OfLink(j)!Step
    <3>1. j \in lost' <=> j \in lost
      BY <1>b
    <3> QED
      BY <1>a, <1>d, <3>1 DEF OfLink!Step, OfLink!life
  <2> QED
    BY <2>1, <2>2 DEF LifeStep, OfLink!Step
<1> QED
  BY <1>1, <1>2, <1>3, <1>4 DEF IInv

(* An address is taken away: an Assign of LinkLife.                       *)
LEMMA LoseAddressStep ==
  ASSUME IInv, NEW i \in Index, LoseAddress(i) PROVE IInv' /\ LifeStep
<1> DEFINE m == Message("DelAddress", i, FALSE)
<1>a. m \in Messages /\ m.type # "DelLink" /\ Announce(<<m>>)
  BY DEF LoseAddress, Message, Messages
<1>b. Buffer(queue') /\ Announced(queue') \subseteq Announced(queue) /\ lost' = lost
  <2> HIDE DEF m
  <2>1. <<m>> \in Seq(Messages) /\ \A n \in 1 .. Len(<<m>>) : <<m>>[n].type # "DelLink"
    BY <1>a
  <2> QED
    BY <1>a, <2>1, AnnounceOther, TypeParts DEF IInv
<1>c. /\ addr[i] = "set" /\ addr' = [addr EXCEPT ![i] = "removed"]
      /\ UNCHANGED <<kind, link, sentinel, dump, iface, pc, cur>>
  BY DEF LoseAddress, monitor
<1> HIDE DEF m
<1>d. addr'[i] = "removed" /\ \A j \in Index \ {i} : addr'[j] = addr[j]
  BY <1>c DEF IInv, TypeOK
<1>1. TypeOK'
  BY <1>b, <1>c DEF IInv, TypeOK, Buffer, AllMessages
<1>2. Gone'
  BY <1>b, <1>c, <1>d, GoneKept DEF IInv, TypeOK, Gone, Present
<1>3. Bounces'
  BY <1>c DEF IInv, Bounces
<1>4. LifeStep
  <2>1. OfLink(i)!Assign
    BY <1>b, <1>c, <1>d DEF OfLink!Assign, IInv, Gone, Present
  <2>2. ASSUME NEW j \in Index \ {i} PROVE OfLink(j)!Step
    BY <1>b, <1>c, <1>d, LifeStutters
  <2> QED
    BY <2>1, <2>2 DEF LifeStep, OfLink!Step
<1> QED
  BY <1>1, <1>2, <1>3, <1>4 DEF IInv

(* The operator, the probe and the steps of the monitor that change none   *)
(* of the links and objects.                                               *)
LEMMA QuietStep ==
  ASSUME IInv, UNCHANGED <<kind, link, addr, iface, lost>>,
         Buffer(queue'), Announced(queue') \subseteq Announced(queue),
         sentinel' \in [Index -> {"no", "fault", "quiesce"}],
         dump' \in [on : BOOLEAN, todo : SUBSET Index], cur' = cur,
         pc' \in {"receive", "sleep", "exists", "bring_up", "sockets", "exited"} \/ pc' = pc
  PROVE  IInv' /\ LifeStep
<1>1. TypeOK'
  BY DEF IInv, TypeOK, Buffer, AllMessages
<1>2. Gone'
  BY GoneKept DEF IInv, Gone, Present
<1>3. Bounces'
  BY DEF IInv, Bounces
<1>4. LifeStep
  BY LifeStutters DEF LifeStep
<1> QED
  BY <1>1, <1>2, <1>3, <1>4 DEF IInv

LEMMA OperatorStep == ASSUME IInv, NEW i \in Index, Operator(i) PROVE IInv' /\ LifeStep
<1>1. sentinel' \in [Index -> {"no", "fault", "quiesce"}]
  BY DEF Operator, IInv, TypeOK
<1>2. UNCHANGED <<kind, link, addr, queue, lost, dump, iface, pc, cur>>
  BY DEF Operator, socket, monitor
<1> QED
  BY <1>1, <1>2, QuietStep, TypeParts DEF IInv, TypeOK

LEMMA ProbeStep == ASSUME IInv, Probe PROVE IInv' /\ LifeStep
<1>1. dump' \in [on : BOOLEAN, todo : SUBSET Index]
  BY DEF Probe
<1>2. UNCHANGED <<kind, link, addr, sentinel, queue, lost, iface, pc, cur>>
  BY DEF Probe, kernel, socket, monitor
<1> QED
  BY <1>1, <1>2, QuietStep, TypeParts DEF IInv, TypeOK

LEMMA ProbeRefusedStep == ASSUME IInv, ProbeRefused PROVE IInv' /\ LifeStep
<1>1. UNCHANGED <<kind, link, addr, sentinel, dump, lost, iface, pc, cur>>
  BY DEF ProbeRefused, kernel, monitor
<1>2. [type |-> "Error"] \in AllMessages
  BY DEF AllMessages, Answers
<1>3. Buffer(queue') /\ Announced(queue') \subseteq Announced(queue)
  BY <1>2, AppendBuffer, TypeParts DEF ProbeRefused, IInv
<1> QED
  BY <1>1, <1>3, QuietStep DEF IInv, TypeOK

LEMMA DumpStep == ASSUME IInv, Dump PROVE IInv' /\ LifeStep
<1>1. UNCHANGED <<kind, link, addr, sentinel, lost, iface, pc, cur>>
  BY DEF Dump, kernel, monitor
<1>2. dump' \in [on : BOOLEAN, todo : SUBSET Index]
  <2>1. dump \in [on : BOOLEAN, todo : SUBSET Index]
    BY DEF IInv, TypeOK
  <2>2. ASSUME NEW i, dump' = [dump EXCEPT !.todo = @ \ {i}]
        PROVE  dump' \in [on : BOOLEAN, todo : SUBSET Index]
    BY <2>1, <2>2
  <2>3. ASSUME dump' = NoDump PROVE dump' \in [on : BOOLEAN, todo : SUBSET Index]
    BY <2>3 DEF NoDump
  <2> QED
    BY <2>2, <2>3 DEF Dump
<1>3. Buffer(queue') /\ Announced(queue') \subseteq Announced(queue)
  <2>1. CASE queue' = Append(queue, [type |-> "Done"])
    <3>1. [type |-> "Done"] \in AllMessages
      BY DEF AllMessages, Answers
    <3> QED
      BY <2>1, <3>1, AppendBuffer, TypeParts DEF Dump, IInv
  <2>2. CASE \E i \in dump.todo : queue' = Append(queue, Message("NewLink", i, carrier(i)))
    <3>1. PICK i \in dump.todo : queue' = Append(queue, Message("NewLink", i, carrier(i)))
      BY <2>2
    <3>2. i \in Index
      BY DEF IInv, TypeOK
    <3>3. /\ Message("NewLink", i, carrier(i)) \in AllMessages
          /\ Message("NewLink", i, carrier(i)).type # "DelLink"
      BY <3>2 DEF Message, Messages, AllMessages, carrier
    <3> QED
      BY <3>1, <3>3, AppendBuffer, TypeParts DEF Dump, IInv
  <2>3. CASE queue' = queue
    BY <2>3, TypeParts DEF IInv
  <2> QED
    BY <2>1, <2>2, <2>3 DEF Dump
<1>4. sentinel' \in [Index -> {"no", "fault", "quiesce"}]
  BY <1>1 DEF IInv, TypeOK
<1> QED
  BY <1>1, <1>2, <1>3, <1>4, QuietStep

LEMMA ReceiveEndStep == ASSUME IInv, ReceiveEnd PROVE IInv' /\ LifeStep
<1>1. UNCHANGED <<kind, link, addr, sentinel, lost, dump, iface, cur>> /\ pc' = "sleep"
  BY DEF ReceiveEnd, Take, kernel
<1>2. Buffer(queue') /\ Announced(queue') \subseteq Announced(queue)
  BY TailBuffer, TypeParts DEF ReceiveEnd, Take, IInv
<1> QED
  BY <1>1, <1>2, QuietStep DEF IInv, TypeOK

LEMMA WaitingStep == ASSUME IInv, Wake \/ Exists \/ CreateSockets PROVE IInv' /\ LifeStep
<1>1. UNCHANGED <<kind, link, addr, sentinel, queue, lost, dump, iface, cur>>
  BY DEF Wake, Exists, CreateSockets, kernel, socket
<1>2. pc' \in {"receive", "bring_up", "exited"}
  BY DEF Wake, Exists, CreateSockets
<1> QED
  BY <1>1, <1>2, QuietStep, TypeParts DEF IInv, TypeOK

-----------------------------------------------------------------------------
(* configure_addresses: nothing, or an Assign of LinkLife.                 *)
LEMMA Configured ==
  ASSUME IInv, NEW i \in Index, configure_addresses(i) \/ UNCHANGED addr,
         link' = link, iface' = iface, lost' = lost
  PROVE  /\ addr' \in [Index -> {"never", "set", "removed"}]
         /\ \A j \in Index : addr'[j] = "set" => link'[j] \in {"down", "up"}
         /\ LifeStep
<1>1. CASE addr' = addr
  BY <1>1, LifeStutters DEF IInv, TypeOK, Gone, Present, LifeStep
<1>2. CASE Present(i) /\ addr' = [addr EXCEPT ![i] = "set"]
  <2>1. addr'[i] = "set" /\ \A j \in Index \ {i} : addr'[j] = addr[j]
    BY <1>2 DEF IInv, TypeOK
  <2>2. OfLink(i)!Step
    <3>1. CASE addr[i] = "set"
      BY <2>1, <3>1, LifeStutters
    <3>2. CASE addr[i] # "set"
      <4>1. OfLink(i)!Assign
        BY <1>2, <2>1, <3>2 DEF OfLink!Assign, Present
      <4> QED
        BY <4>1 DEF OfLink!Step
    <3> QED
      BY <3>1, <3>2
  <2>3. LifeStep
    BY <2>1, <2>2, LifeStutters DEF LifeStep
  <2> QED
    BY <1>2, <2>1, <2>3 DEF IInv, TypeOK, Gone, Present
<1> QED
  BY <1>1, <1>2 DEF configure_addresses

LEMMA BringUpStep == ASSUME IInv, BringUp PROVE IInv' /\ LifeStep
<1>a. /\ configure_addresses(cur) \/ UNCHANGED addr
      /\ UNCHANGED <<kind, link, sentinel, queue, lost, dump, iface, cur>> /\ pc' = "sockets"
  BY DEF BringUp, socket
<1>b. cur \in Index
  BY DEF IInv, TypeOK
<1>c. /\ addr' \in [Index -> {"never", "set", "removed"}] /\ LifeStep
      /\ \A j \in Index : addr'[j] = "set" => link'[j] \in {"down", "up"}
  BY <1>a, <1>b, Configured
<1>1. TypeOK'
  BY <1>a, <1>c DEF IInv, TypeOK
<1>2. Gone'
  BY <1>a, <1>c, GoneKept DEF IInv, Gone
<1>3. Bounces'
  BY <1>a DEF IInv, Bounces
<1> QED
  BY <1>1, <1>2, <1>3, <1>c DEF IInv

LEMMA AddressRemovedStep == ASSUME IInv, NEW i \in Index, AddressRemoved(i) PROVE IInv' /\ LifeStep
<1>a. /\ configure_addresses(i) \/ UNCHANGED addr
      /\ UNCHANGED <<kind, link, sentinel, iface, pc>> /\ pc = "receive"
  BY DEF AddressRemoved, Deliver
<1>b. /\ Buffer(queue') /\ Announced(queue') \subseteq Announced(queue)
      /\ lost' = lost /\ dump' = dump /\ cur' = i
  BY Delivered DEF AddressRemoved
<1>c. /\ addr' \in [Index -> {"never", "set", "removed"}] /\ LifeStep
      /\ \A j \in Index : addr'[j] = "set" => link'[j] \in {"down", "up"}
  BY <1>a, <1>b, Configured
<1>1. TypeOK'
  BY <1>a, <1>b, <1>c DEF IInv, TypeOK, Buffer, AllMessages
<1>2. Gone'
  BY <1>a, <1>b, <1>c, GoneKept DEF IInv, Gone
<1>3. Bounces'
  BY <1>a DEF IInv, Bounces
<1> QED
  BY <1>1, <1>2, <1>3, <1>c DEF IInv

-----------------------------------------------------------------------------
(* The handlers that replace the object of one link by f.                  *)
LEMMA ReplaceStep ==
  ASSUME IInv, NEW i \in Index, NEW f \in Interface, Set(i, f), Rested(f),
         UNCHANGED <<kind, link, addr, sentinel, lost, dump>>,
         Buffer(queue'), Announced(queue') \subseteq Announced(queue), cur' = i,
         pc' \in {"receive", "exists", "repair"}, pc' = "repair" => MayBounce(f),
         f.removed => f.known, iface[i].removed => f.removed,
         f.removed => iface[i].removed \/ i \in Announced(queue)
  PROVE  IInv' /\ LifeStep
<1>a. /\ iface' \in [Index -> Interface] /\ iface'[i] = f
      /\ \A j \in Index \ {i} : iface'[j] = iface[j]
  BY SetType DEF IInv, TypeOK
<1>1. TypeOK'
  BY <1>a DEF IInv, TypeOK, Buffer, AllMessages
<1>2. Gone'
  BY <1>a, GoneKept DEF IInv, Gone, Present
<1>3. Bounces'
  BY <1>a DEF IInv, Bounces
<1>4. LifeStep
  <2>1. CASE f.removed <=> iface[i].removed
    <3>1. f.removed = iface[i].removed
      BY <2>1 DEF IInv, TypeOK, Interface
    <3> QED
      BY <1>a, <3>1, LifeStutters DEF LifeStep
  <2>2. CASE f.removed /\ ~iface[i].removed /\ i \in Announced(queue)
    <3>1. link[i] = "gone" /\ i \notin lost
      BY <2>2 DEF IInv, Gone
    <3>2. f.removed = TRUE
      BY <2>2 DEF Interface
    <3>3. OfLink(i)!Remove
      BY <1>a, <2>2, <3>1, <3>2 DEF OfLink!Remove
    <3> QED
      BY <1>a, <3>3, LifeStutters DEF LifeStep, OfLink!Step
  <2> QED
    BY <2>1, <2>2
<1> QED
  BY <1>1, <1>2, <1>3, <1>4 DEF IInv

LEMMA NewInterfaceStep == ASSUME IInv, NEW i \in Index, NewInterface(i) PROVE IInv' /\ LifeStep
<1> DEFINE f == update(NoInterface, Head(queue).lower, carrier(i))
           g == IF is_physical(i) THEN processed(f) ELSE f
           h == [g EXCEPT !.known = TRUE]
<1>1. /\ Head(queue).lower \in BOOLEAN
      /\ Buffer(queue') /\ Announced(queue') \subseteq Announced(queue)
      /\ lost' = lost /\ dump' = dump /\ cur' = i
  BY Delivered DEF NewInterface
<1>2. f \in Interface /\ Kept(NoInterface, f)
  BY <1>1, NoInterfaceType, UpdateKeeps, TypeParts DEF IInv
<1>3. g \in Interface /\ Kept(NoInterface, g)
  <2> HIDE DEF f
  <2> QED
    BY <1>2, ProcessedKeeps DEF Kept
<1>4. Set(i, h) /\ pc' = "exists" /\ UNCHANGED <<kind, link, addr, sentinel>>
  BY DEF NewInterface, kernel
<1>5. h \in Interface /\ h.removed = FALSE /\ Rested(h)
  <2> HIDE DEF g
  <2> QED
    BY <1>3, NoInterfaceType DEF Interface, Kept, Rested, NoInterface
<1>6. ~iface[i].known
  BY DEF NewInterface
<1> HIDE DEF h
<1> QED
  BY <1>1, <1>4, <1>5, <1>6, ReplaceStep DEF IInv, Gone


LEMMA LinkStateStep == ASSUME IInv, NEW i \in Index, LinkState(i) PROVE IInv' /\ LifeStep
<1> DEFINE f == Follow(iface[i], Head(queue).lower, carrier(i))
           g == IF f.link THEN f ELSE ResetAttempts(f)
<1>1. /\ Head(queue).lower \in BOOLEAN
      /\ Buffer(queue') /\ Announced(queue') \subseteq Announced(queue)
      /\ lost' = lost /\ dump' = dump /\ cur' = i
  BY Delivered DEF LinkState
<1>2. f \in Interface /\ Kept(iface[i], f)
  BY <1>1, FollowKeeps, TypeParts DEF IInv
<1>3. Set(i, g) /\ iface[i].known /\ UNCHANGED <<kind, link, addr, sentinel>>
  BY DEF LinkState, kernel
<1>4. pc' \in {"receive", "repair"} /\ (pc' = "repair" => ~f.link /\ bounce_expired(f))
  BY DEF LinkState, link_requires_repair
<1> HIDE DEF f
<1>5. Rested(f)
  BY <1>2 DEF IInv, Bounces, Rested, Kept
<1>6. /\ g \in Interface /\ Rested(g) /\ g.removed = iface[i].removed
      /\ pc' = "repair" => MayBounce(g)
  BY <1>2, <1>4, <1>5, ResetKeeps DEF Kept
<1>7. g.known
  BY <1>2, <1>3 DEF Kept, ResetAttempts, Interface
<1> HIDE DEF g
<1> QED
  BY <1>1, <1>3, <1>4, <1>6, <1>7, ReplaceStep

LEMMA LinkRemovedStep == ASSUME IInv, NEW i \in Index, LinkRemoved(i) PROVE IInv' /\ LifeStep
<1> DEFINE f == Follow(iface[i], Head(queue).lower, carrier(i))
           g(t) == [f EXCEPT !.removed = @ \/ LeftSystem(t)]
<1>0. PICK t \in {"DelLink", "DelPort"} :
        /\ Deliver(t, i)
        /\ IF iface[i].known THEN Set(i, g(t)) ELSE UNCHANGED iface
        /\ UNCHANGED <<kernel, pc>>
  BY DEF LinkRemoved
<1>1. /\ Head(queue).lower \in BOOLEAN
      /\ Buffer(queue') /\ Announced(queue') \subseteq Announced(queue)
      /\ lost' = lost /\ dump' = dump /\ cur' = i
      /\ t = "DelLink" => i \in Announced(queue)
  BY <1>0, Delivered
<1>2. UNCHANGED <<kind, link, addr, sentinel, pc>> /\ pc = "receive"
  BY <1>0 DEF kernel, Deliver
<1>3. CASE ~iface[i].known
  <2>1. iface' = iface
    BY <1>0, <1>3
  <2>2. TypeOK'
    BY <1>1, <1>2, <2>1 DEF IInv, TypeOK, Buffer, AllMessages
  <2>3. Gone'
    BY <1>1, <1>2, <2>1, GoneKept DEF IInv, Gone, Present
  <2>4. Bounces'
    BY <1>2, <2>1 DEF IInv, Bounces
  <2>5. LifeStep
    BY <1>1, <1>2, <2>1, LifeStutters DEF LifeStep
  <2> QED
    BY <2>2, <2>3, <2>4, <2>5 DEF IInv
<1>4. CASE iface[i].known
  <2>1. f \in Interface /\ Kept(iface[i], f)
    BY <1>1, FollowKeeps, TypeParts DEF IInv
  <2> HIDE DEF f
  <2>2. Set(i, g(t))
    BY <1>0, <1>4
  <2>3. /\ g(t) \in Interface /\ g(t).known /\ Rested(g(t))
        /\ g(t).removed = (iface[i].removed \/ t = "DelLink")
    BY <1>4, <2>1 DEF IInv, Bounces, Interface, Kept, Rested, LeftSystem
  <2> HIDE DEF g
  <2> QED
    BY <1>1, <1>2, <2>2, <2>3, ReplaceStep
<1> QED
  BY <1>3, <1>4

LEMMA RepairStep == ASSUME IInv, Repair PROVE IInv' /\ LifeStep
<1>0. UNCHANGED <<kind, link, addr, sentinel, dump, cur>> /\ pc' = "receive"
  BY DEF Repair, kernel
<1>1. CASE UNCHANGED <<iface, socket>>
  BY <1>0, <1>1, QuietStep, TypeParts DEF socket, IInv, TypeOK
<1>2. CASE /\ Set(cur, bounced(iface[cur]))
           /\ UNCHANGED socket \/ Announce(<<Message("NewLink", cur, FALSE), Message("NewLink", cur, carrier(cur))>>)
  <2>1. cur \in Index /\ iface[cur] \in Interface /\ iface[cur].attempts < Attempts
    BY TypeParts DEF IInv, Bounces, MayBounce, Repair
  <2>2. /\ bounced(iface[cur]) \in Interface /\ Rested(bounced(iface[cur]))
        /\ bounced(iface[cur]).removed = iface[cur].removed
    BY <2>1, BouncedType
  <2>3. bounced(iface[cur]).known = iface[cur].known
    BY <2>1 DEF bounced, Interface
  <2>4. Buffer(queue') /\ Announced(queue') \subseteq Announced(queue) /\ lost' = lost
    <3> DEFINE m1 == Message("NewLink", cur, FALSE)
               m2 == Message("NewLink", cur, carrier(cur))
    <3>1. m1 \in Messages /\ m2 \in Messages /\ m1.type # "DelLink" /\ m2.type # "DelLink"
      BY <2>1 DEF Message, Messages, carrier
    <3>2. UNCHANGED socket \/ Announce(<<m1, m2>>)
      BY <1>2
    <3> HIDE DEF m1, m2
    <3>3. <<m1, m2>> \in Seq(Messages) /\ \A n \in 1 .. Len(<<m1, m2>>) : <<m1, m2>>[n].type # "DelLink"
      BY <3>1
    <3> QED
      BY <3>2, <3>3, AnnounceOther, TypeParts DEF socket, IInv
  <2> QED
    BY <1>0, <1>2, <2>1, <2>2, <2>3, <2>4, ReplaceStep DEF IInv, Gone
<1> QED
  BY <1>1, <1>2 DEF Repair

LEMMA TickStep == ASSUME IInv, Tick PROVE IInv' /\ LifeStep
<1>0. UNCHANGED <<kind, link, addr, sentinel, queue, lost, dump, pc, cur>>
  BY DEF Tick, kernel, socket
<1>1. ASSUME NEW i \in Index
      PROVE  /\ iface'[i] \in Interface /\ iface'[i].removed = iface[i].removed
             /\ iface'[i].known = iface[i].known
             /\ iface'[i].attempts = iface[i].attempts /\ iface'[i].since >= iface[i].since
  BY TypeParts DEF Tick, IInv, Interface, LongestWait
<1>2. iface' \in [Index -> Interface]
  BY <1>1 DEF Tick
<1>3. TypeOK'
  BY <1>0, <1>2 DEF IInv, TypeOK
<1>4. Gone'
  BY <1>0, <1>1, GoneKept DEF IInv, Gone, Present
<1>5. Bounces'
  BY <1>0, <1>1 DEF IInv, TypeOK, Bounces, Rested, MayBounce, Interface
<1>6. LifeStep
  BY <1>0, <1>1, LifeStutters DEF LifeStep
<1> QED
  BY <1>3, <1>4, <1>5, <1>6 DEF IInv

LEMMA NextStep == ASSUME IInv, [Next]_vars PROVE IInv' /\ LifeStep
<1>1. CASE Environment
  BY <1>1, AppearStep, CarrierStep, DisappearStep, LeaveBridgeStep, LoseAddressStep, OperatorStep
     DEF Environment
<1>2. CASE Handle
  BY <1>2, ReceiveEndStep, WaitingStep, BringUpStep, RepairStep, NewInterfaceStep, LinkStateStep,
     LinkRemovedStep, AddressRemovedStep DEF Handle
<1>3. CASE Probe \/ ProbeRefused \/ Dump \/ Tick
  BY <1>3, ProbeStep, ProbeRefusedStep, DumpStep, TickStep
<1>4. CASE UNCHANGED vars
  <2>1. UNCHANGED <<kind, link, addr, sentinel, queue, lost, dump, iface, pc, cur>>
    BY <1>4 DEF vars
  <2> QED
    BY <2>1, QuietStep, TypeParts DEF IInv, TypeOK
<1> QED
  BY <1>1, <1>2, <1>3, <1>4 DEF Next

-----------------------------------------------------------------------------
(* The inductive invariant holds in every behaviour of the monitor.        *)
THEOREM InductiveInvariant == Spec => []IInv
BY InitIInv, NextStep, PTL DEF Spec

(* The buffer stays within its bound, objects stay well formed and no link *)
(* is bounced more than link_bounce_attempts times in a round.             *)
THEOREM TypeCorrect == Spec => []TypeOK
<1>1. IInv => TypeOK
  BY DEF IInv
<1> QED
  BY <1>1, InductiveInvariant, PTL

(* Every link the monitor keeps lives as LinkLife says, which is what the  *)
(* threads that bind its socket rely on.                                   *)
THEOREM ImplementsLifeThm == Spec => ImplementsLife
<1>1. IInv /\ [Next]_vars => \A i \in Index : OfLink(i)!Step
  BY NextStep DEF LifeStep
<1>2. Init => \A i \in Index : OfLink(i)!Begin
  BY InitIInv
<1> QED
  BY <1>1, <1>2, InductiveInvariant, PTL DEF Spec, ImplementsLife

-----------------------------------------------------------------------------
(* Only a repair counts a bounce.                                          *)
Spaced == \A i \in Index : iface'[i].attempts > iface[i].attempts =>
  iface[i].since >= IF iface[i].attempts = 0 THEN Reattempt ELSE Interval

LEMMA ReplaceSpaced ==
  ASSUME IInv, NEW i \in Index, NEW f \in Interface, Set(i, f), f.attempts <= iface[i].attempts
  PROVE  Spaced
<1>1. iface'[i] = f /\ \A j \in Index \ {i} : iface'[j] = iface[j]
  BY SetType DEF IInv, TypeOK
<1>2. \A j \in Index : iface[j].attempts \in Nat
  BY TypeParts DEF IInv, Interface
<1>3. f.attempts \in Nat
  BY DEF Interface
<1>4. ASSUME NEW j \in Index, iface'[j].attempts > iface[j].attempts PROVE FALSE
  BY <1>1, <1>2, <1>3, <1>4
<1> QED
  BY <1>4 DEF Spaced

LEMMA NextSpaced == ASSUME IInv, [Next]_vars PROVE Spaced
<1>0. ASSUME iface' = iface PROVE Spaced
  BY <1>0, TypeParts DEF Spaced, IInv, Interface
<1>1. CASE \E i \in Index : NewInterface(i)
  <2>1. PICK i \in Index : NewInterface(i)
    BY <1>1
  <2> DEFINE f == update(NoInterface, Head(queue).lower, carrier(i))
             g == IF is_physical(i) THEN processed(f) ELSE f
             h == [g EXCEPT !.known = TRUE]
  <2>2. Head(queue).lower \in BOOLEAN
    BY <2>1, Delivered DEF NewInterface
  <2>3. f \in Interface /\ Kept(NoInterface, f)
    BY <2>2, NoInterfaceType, UpdateKeeps, TypeParts DEF IInv
  <2>4. g \in Interface /\ Kept(NoInterface, g)
    <3> HIDE DEF f
    <3> QED
      BY <2>3, ProcessedKeeps DEF Kept
  <2>5. Set(i, h)
    BY <2>1 DEF NewInterface
  <2>6. h \in Interface /\ h.attempts = 0
    <3> HIDE DEF g
    <3> QED
      BY <2>4 DEF Interface, Kept, NoInterface
  <2>7. h.attempts <= iface[i].attempts
    BY <2>6, TypeParts DEF IInv, Interface
  <2> HIDE DEF h
  <2> QED
    BY <2>5, <2>6, <2>7, ReplaceSpaced
<1>2. CASE \E i \in Index : LinkState(i)
  <2>1. PICK i \in Index : LinkState(i)
    BY <1>2
  <2> DEFINE f == Follow(iface[i], Head(queue).lower, carrier(i))
             g == IF f.link THEN f ELSE ResetAttempts(f)
  <2>2. Head(queue).lower \in BOOLEAN
    BY <2>1, Delivered DEF LinkState
  <2>3. f \in Interface /\ Kept(iface[i], f)
    BY <2>2, FollowKeeps, TypeParts DEF IInv
  <2>4. Set(i, g)
    BY <2>1 DEF LinkState
  <2> HIDE DEF f
  <2>5. Rested(f)
    BY <2>3 DEF IInv, Bounces, Rested, Kept
  <2>6. g \in Interface /\ g.attempts <= iface[i].attempts
    BY <2>3, <2>5, ResetKeeps DEF Kept, Interface
  <2> HIDE DEF g
  <2> QED
    BY <2>4, <2>6, ReplaceSpaced
<1>3. CASE \E i \in Index : LinkRemoved(i)
  <2>1. PICK i \in Index, t \in {"DelLink", "DelPort"} :
          /\ Deliver(t, i)
          /\ \/ iface' = iface
             \/ Set(i, [Follow(iface[i], Head(queue).lower, carrier(i)) EXCEPT !.removed = @ \/ LeftSystem(t)])
    BY <1>3 DEF LinkRemoved
  <2> DEFINE f == Follow(iface[i], Head(queue).lower, carrier(i))
             g == [f EXCEPT !.removed = @ \/ LeftSystem(t)]
  <2>2. Head(queue).lower \in BOOLEAN
    BY <2>1, Delivered
  <2>3. f \in Interface /\ Kept(iface[i], f)
    BY <2>2, FollowKeeps, TypeParts DEF IInv
  <2>4. iface' = iface \/ Set(i, g)
    BY <2>1
  <2> HIDE DEF f
  <2>5. g \in Interface /\ g.attempts = f.attempts
    BY <2>3 DEF Interface, LeftSystem
  <2>6. g.attempts <= iface[i].attempts
    BY <2>3, <2>5 DEF Kept, Interface
  <2> HIDE DEF g
  <2> QED
    BY <1>0, <2>4, <2>5, <2>6, ReplaceSpaced
<1>4. CASE Repair
  <2>1. cur \in Index /\ iface[cur] \in Interface /\ MayBounce(iface[cur]) /\ Rested(iface[cur])
    BY <1>4, TypeParts DEF IInv, Bounces, Repair
  <2>2. CASE iface' = iface
    BY <1>0, <2>2
  <2>3. CASE Set(cur, bounced(iface[cur]))
    <3>1. \A j \in Index \ {cur} : iface'[j] = iface[j]
      BY <2>1, <2>3, BouncedType, SetType DEF IInv, TypeOK, MayBounce
    <3>2. iface[cur].since >= IF iface[cur].attempts = 0 THEN Reattempt ELSE Interval
      BY <2>1 DEF MayBounce, Rested
    <3>3. \A j \in Index : ~(iface[j].attempts > iface[j].attempts)
      BY TypeParts DEF IInv, Interface
    <3> QED
      BY <3>1, <3>2, <3>3 DEF Spaced
  <2> QED
    BY <1>4, <2>2, <2>3 DEF Repair
<1>5. CASE Tick
  <2>1. ASSUME NEW i \in Index PROVE ~(iface'[i].attempts > iface[i].attempts)
    BY <1>5, TypeParts DEF Tick, IInv, Interface
  <2> QED
    BY <2>1 DEF Spaced
<1>6. CASE \/ Environment \/ Probe \/ ProbeRefused \/ Dump \/ UNCHANGED vars
           \/ ReceiveEnd \/ Wake \/ Exists \/ BringUp \/ CreateSockets
           \/ \E i \in Index : AddressRemoved(i)
  <2>1. iface' = iface
    BY <1>6 DEF Environment, Appear, Carrier, Disappear, Change, LeaveBridge, LoseAddress, Operator,
       Probe, ProbeRefused, Dump, ReceiveEnd, Wake, Exists, BringUp, CreateSockets, AddressRemoved,
       monitor, vars
  <2> QED
    BY <1>0, <2>1
<1> QED
  BY <1>1, <1>2, <1>3, <1>4, <1>5, <1>6 DEF Next, Handle

(* bounce_expired, bounce_link: within a round the bounces of a link are   *)
(* at least link_bounce_interval apart, and a new round begins at least    *)
(* link_bounce_reattempt after the last bounce.                            *)
THEOREM BounceSpacingThm == Spec => BounceSpacing
<1>1. IInv /\ [Next]_vars => Spaced
  BY NextSpaced
<1> QED
  BY <1>1, InductiveInvariant, PTL DEF Spec, BounceSpacing, Spaced

=============================================================================
