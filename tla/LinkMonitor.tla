---------------------------- MODULE LinkMonitor ----------------------------
(***************************************************************************)
(* The link monitor: the thread that reads link events from a netlink      *)
(* route socket (NetLink.cc) and keeps the table of interfaces             *)
(* (Network::Monitor of Network.cc with Interface.cc).  The main loop of   *)
(* netmgr asks the kernel for all links again and again (probe).           *)
(*                                                                         *)
(* The kernel is external: links appear, lose and get their carrier, leave *)
(* a bridge and disappear, and every change is announced to the socket.    *)
(* Other traffic may have filled its buffer: then the announcement is lost *)
(* and the next recvmsg fails with ENOBUFS, which receive logs before it   *)
(* reads on.  An index is not used again.                                  *)
(*                                                                         *)
(* Abstractions: of the interface flags only IFF_LOWER_UP is kept; times   *)
(* are the seconds since the last bounce, up to the longest wait that      *)
(* matters; messages that change nothing (NewAddress, routes, neighbours), *)
(* the events sent to other programs and the restarts of ntpd are left     *)
(* out.                                                                    *)
(***************************************************************************)
EXTENDS Naturals, Sequences

CONSTANTS
  Index,      \* the indexes of the links
  Room,       \* bound: messages that concern links in the receive buffer
  Interval,   \* link_bounce_interval
  Attempts,   \* link_bounce_attempts
  Reattempt,  \* link_bounce_reattempt
  Factories   \* the types of messages routeFactories has an entry for

ASSUME LinkMonitorAssumption ==
  /\ Room \in Nat \ {0} /\ Attempts \in Nat \ {0}
  /\ Interval \in Nat \ {0} /\ Reattempt \in Nat \ {0}

LongestWait == IF Interval < Reattempt THEN Reattempt ELSE Interval

(* "private" is a physical link of the private network that is not a sync  *)
(* link; those are "physical" like the links of no special use.            *)
Kinds == {"physical", "private", "bridge", "other"}
Messages == [type : {"NewLink", "DelLink", "DelPort", "DelAddress"}, index : Index, lower : BOOLEAN]
Answers  == [type : {"Done", "Error"}]

VARIABLES
  kind,      \* kind[i]: what sysfs says of link i
  link,      \* link[i]: "none" before it appears, "down", "up", "gone"
  addr,      \* addr[i]: its primary address is "never" set, "set", "removed"
  sentinel,  \* sentinel[i]: the file that holds back repairs of i, or "no"
  queue,     \* the receive buffer of the route socket
  lost,      \* history: the links whose DelLink found the buffer full
  dump,      \* the links a dump has still to report
  iface,     \* iface[i]: the Interface object of i
  pc, cur    \* the monitor thread and the interface it is working on

kernel  == <<kind, link, addr, sentinel>>
socket  == <<queue, lost>>
monitor == <<iface, pc, cur>>
vars == <<kind, link, addr, sentinel, queue, lost, dump, iface, pc, cur>>

(* The Interface object: link is IFF_LOWER_UP in last_flags, processed the *)
(* same in last_processed_flags; since stands for last_bounce, and for     *)
(* last_bounce_reattempt, which is read only after both were set at once.  *)
Interface == [known : BOOLEAN, link : BOOLEAN, processed : BOOLEAN, unknown : BOOLEAN,
              previous : BOOLEAN, removed : BOOLEAN,
              attempts : 0 .. Attempts, since : 0 .. LongestWait]
NoInterface == [known |-> FALSE, link |-> FALSE, processed |-> FALSE, unknown |-> TRUE,
                previous |-> FALSE, removed |-> FALSE,
                attempts |-> 0, since |-> LongestWait]

NoDump == [on |-> FALSE, todo |-> {}]
Present(i) == link[i] \in {"down", "up"}

(* sysfs shows nothing of a link that is gone.                             *)
carrier(i)     == link[i] = "up"
is_physical(i) == Present(i) /\ kind[i] \in {"physical", "private"}

Init ==
  /\ kind \in [Index -> Kinds]
  /\ link = [i \in Index |-> "none"] /\ addr = [i \in Index |-> "never"]
  /\ sentinel = [i \in Index |-> "no"]
  /\ queue = <<>> /\ lost = {} /\ dump = NoDump
  /\ iface = [i \in Index |-> NoInterface]
  /\ pc = "receive" /\ cur \in Index

-----------------------------------------------------------------------------
Message(t, i, b) == [type |-> t, index |-> i, lower |-> b]

(* The kernel announces messages ms, or finds the buffer full.             *)
Announce(ms) ==
  \/ /\ Len(queue) + Len(ms) <= Room
     /\ queue' = queue \o ms
     /\ UNCHANGED lost
  \/ /\ lost' = lost \cup {i \in Index : \E n \in DOMAIN ms : ms[n] = Message("DelLink", i, FALSE)}
     /\ UNCHANGED queue

(* Nothing is looked at any more once netmgr has called _exit.             *)
running == pc # "exited"

Change(i, to) ==
  /\ running
  /\ link' = [link EXCEPT ![i] = to]
  /\ UNCHANGED <<kind, sentinel, dump, monitor>>

Appear(i) == \E to \in {"down", "up"} :
  /\ link[i] = "none" /\ Change(i, to)
  /\ Announce(<<Message("NewLink", i, to = "up")>>)
  /\ UNCHANGED addr

Carrier(i) == \E to \in {"down", "up"} :
  /\ Present(i) /\ link[i] # to /\ Change(i, to)
  /\ Announce(<<Message("NewLink", i, to = "up")>>)
  /\ UNCHANGED addr

Disappear(i) ==
  /\ Present(i) /\ Change(i, "gone")
  /\ Announce(<<Message("DelLink", i, FALSE)>>)
  /\ addr' = [addr EXCEPT ![i] = "never"]

(* A link leaves a bridge: DelLink of family AF_BRIDGE.                    *)
LeaveBridge(i) ==
  /\ running /\ Present(i) /\ kind[i] # "bridge"
  /\ Announce(<<Message("DelPort", i, carrier(i))>>)
  /\ UNCHANGED <<kernel, dump, monitor>>

LoseAddress(i) ==
  /\ running /\ addr[i] = "set"
  /\ addr' = [addr EXCEPT ![i] = "removed"]
  /\ Announce(<<Message("DelAddress", i, FALSE)>>)
  /\ UNCHANGED <<kind, link, sentinel, dump, monitor>>

(* /var/run/interface/<name>.fault and /tmp/<name>.quiesce                 *)
Operator(i) == \E s \in {"no", "fault", "quiesce"} :
  /\ running /\ sentinel[i] # s
  /\ sentinel' = [sentinel EXCEPT ![i] = s]
  /\ UNCHANGED <<kind, link, addr, socket, dump, monitor>>

-----------------------------------------------------------------------------
(* probe sends GetLink, from the main thread.  The kernel refuses a second *)
(* dump while one is running; the answer ends receive like any error.      *)
Probe ==
  /\ running /\ ~dump.on
  /\ dump' = [on |-> TRUE, todo |-> {i \in Index : Present(i)}]
  /\ UNCHANGED <<kernel, socket, monitor>>

ProbeRefused ==
  /\ running /\ dump.on /\ Len(queue) < Room
  /\ queue' = Append(queue, [type |-> "Error"])
  /\ UNCHANGED <<kernel, lost, dump, monitor>>

(* A dump waits for room in the buffer; nothing of it is lost.             *)
Dump ==
  /\ running /\ dump.on /\ Len(queue) < Room
  /\ \/ \E i \in dump.todo :
          /\ dump' = [dump EXCEPT !.todo = @ \ {i}]
          /\ queue' = IF Present(i) THEN Append(queue, Message("NewLink", i, carrier(i))) ELSE queue
     \/ /\ dump.todo = {} /\ dump' = NoDump
        /\ queue' = Append(queue, [type |-> "Done"])
  /\ UNCHANGED <<kernel, lost, monitor>>

-----------------------------------------------------------------------------
(* Interface::update: the carrier is read again, but when it has not       *)
(* changed the bit of the message stays.                                   *)
update(f, b, c) ==
  LET differs == (IF f.unknown THEN ~c ELSE f.previous) # c
  IN [f EXCEPT !.link = IF differs THEN c ELSE b, !.previous = c]

link_changed(f, b, c) ==
  LET differs == (IF f.unknown THEN ~c ELSE f.previous) # c
  IN differs \/ update(f, b, c).link # f.processed

(* linkUp and linkDown                                                     *)
processed(f) == [f EXCEPT !.processed = f.link, !.unknown = FALSE]

Follow(f, b, c) ==
  IF link_changed(f, b, c) THEN processed(update(f, b, c)) ELSE update(f, b, c)

(* bounce_expired, and the reset of bounce_attempts in it                  *)
bounce_expired(f) ==
  IF f.attempts >= Attempts THEN f.since >= Reattempt ELSE f.since >= Interval
ResetAttemptsLost(f) == f
ResetAttemptsAlways(f) == [f EXCEPT !.attempts = 0]
ResetAttempts(f) ==
  IF f.attempts >= Attempts /\ f.since >= Reattempt THEN [f EXCEPT !.attempts = 0] ELSE f

(* bounce_link remembers when it last took the link down and up.           *)
bounced(f) == [f EXCEPT !.attempts = @ + 1, !.since = 0]

-----------------------------------------------------------------------------
Set(i, f) == iface' = [iface EXCEPT ![i] = f]
Take == queue' = Tail(queue) /\ UNCHANGED <<lost, dump>>

(* The end of a dump, an error and a message without a factory make        *)
(* receive return; run sleeps a second and calls it again.                 *)
ReceiveEnd ==
  /\ pc = "receive" /\ queue # <<>> /\ Take
  /\ Head(queue).type \notin Factories
  /\ pc' = "sleep"
  /\ UNCHANGED <<kernel, iface, cur>>

Wake ==
  /\ pc = "sleep" /\ pc' = "receive"
  /\ UNCHANGED <<kernel, socket, dump, iface, cur>>

(* A message of type t for i is at the head and is delivered.              *)
Deliver(t, i) ==
  /\ pc = "receive" /\ queue # <<>>
  /\ Head(queue).type = t /\ t \in Factories /\ Head(queue).index = i
  /\ Take /\ cur' = i

(* receive( NewLink ) of an unknown link: the object is made and, for a    *)
(* physical link, told its state at once.                                  *)
NewInterface(i) ==
  LET f == update(NoInterface, Head(queue).lower, carrier(i)) IN
  /\ Deliver("NewLink", i) /\ ~iface[i].known
  /\ Set(i, [IF is_physical(i) THEN processed(f) ELSE f EXCEPT !.known = TRUE])
  /\ pc' = "exists"
  /\ UNCHANGED kernel

(* What sysfs does not show is left alone.  A bridge is given ten seconds  *)
(* to show up there as one.                                                *)
Exists ==
  /\ pc = "exists"
  /\ \/ Present(cur) /\ kind[cur] # "other" /\ pc' = "bring_up"
     \/ ~is_physical(cur) /\ pc' = "receive"
  /\ UNCHANGED <<kernel, socket, dump, iface, cur>>

(* configure_addresses: errors are logged.                                 *)
configure_addresses(i) ==
  addr' = IF Present(i) THEN [addr EXCEPT ![i] = "set"] ELSE addr

BringUp ==
  /\ pc = "bring_up" /\ pc' = "sockets"
  /\ IF sentinel[cur] = "fault" THEN UNCHANGED addr ELSE configure_addresses(cur)
  /\ UNCHANGED <<kind, link, sentinel, socket, dump, iface, cur>>

(* create_sockets: IPV6_MULTICAST_IF of a link that is gone fails, and     *)
(* that ends netmgr.                                                       *)
CreateSockets ==
  /\ pc = "sockets" /\ pc' = IF Present(cur) THEN "receive" ELSE "exited"
  /\ UNCHANGED <<kernel, socket, dump, iface, cur>>

(* receive( NewLink ) of a known link.  The links of the private network   *)
(* are not repaired.                                                       *)
link_requires_repair(i, f) ==
  ~f.link /\ bounce_expired(f) /\ is_physical(i) /\ kind[i] # "private"

LinkState(i) ==
  LET f == Follow(iface[i], Head(queue).lower, carrier(i)) IN
  /\ Deliver("NewLink", i) /\ iface[i].known
  /\ Set(i, IF f.link THEN f ELSE ResetAttempts(f))
  /\ pc' = IF link_requires_repair(i, f) THEN "repair" ELSE "receive"
  /\ UNCHANGED kernel

(* repair_link, unless one of the sentinel files is there: the link goes   *)
(* down and up again.                                                      *)
Repair ==
  /\ pc = "repair" /\ pc' = "receive"
  /\ IF sentinel[cur] # "no" THEN UNCHANGED <<iface, socket>>
     ELSE /\ Set(cur, bounced(iface[cur]))
          /\ IF Present(cur) THEN Announce(<<Message("NewLink", cur, FALSE),
                                             Message("NewLink", cur, carrier(cur))>>)
             ELSE UNCHANGED socket
  /\ UNCHANGED <<kernel, dump, cur>>

(* receive( DelLink ): a link that only left a bridge stays; one that left *)
(* the system has the change mask 0xFFFFFFFF.                              *)
LeftSystemAny(t) == TRUE
LeftSystemNever(t) == FALSE
LeftSystem(t) == t = "DelLink"

LinkRemoved(i) == \E t \in {"DelLink", "DelPort"} :
  LET f == Follow(iface[i], Head(queue).lower, carrier(i)) IN
  /\ Deliver(t, i)
  /\ IF iface[i].known THEN Set(i, [f EXCEPT !.removed = @ \/ LeftSystem(t)]) ELSE UNCHANGED iface
  /\ UNCHANGED <<kernel, pc>>

(* receive( DelAddress ): the primary address of a known link is set again.*)
AddressRemoved(i) ==
  /\ Deliver("DelAddress", i)
  /\ IF iface[i].known THEN configure_addresses(i) ELSE UNCHANGED addr
  /\ UNCHANGED <<kind, link, sentinel, iface, pc>>

Tick ==
  /\ running
  /\ iface' = [i \in Index |-> [iface[i] EXCEPT !.since = IF @ < LongestWait THEN @ + 1 ELSE @]]
  /\ UNCHANGED <<kernel, socket, dump, pc, cur>>

-----------------------------------------------------------------------------
Environment == \E i \in Index :
  Appear(i) \/ Carrier(i) \/ Disappear(i) \/ LeaveBridge(i) \/ LoseAddress(i) \/ Operator(i)

Handle ==
  \/ ReceiveEnd \/ Wake \/ Exists \/ BringUp \/ CreateSockets \/ Repair
  \/ \E i \in Index : NewInterface(i) \/ LinkState(i) \/ LinkRemoved(i) \/ AddressRemoved(i)

Next == Environment \/ Handle \/ Probe \/ ProbeRefused \/ Dump \/ Tick

Spec == Init /\ [][Next]_vars

(* The monitor thread runs, and the kernel reports ENOBUFS only once       *)
(* before it returns what the buffer holds.  The main loop comes back to   *)
(* probe, the kernel goes on with a dump when it finds room, time passes.  *)
Fairness == WF_vars(Handle) /\ WF_vars(Probe) /\ SF_vars(Dump) /\ WF_vars(Tick)
FairSpec == Spec /\ Fairness

-----------------------------------------------------------------------------
TypeOK ==
  /\ kind \in [Index -> Kinds] /\ link \in [Index -> {"none", "down", "up", "gone"}]
  /\ addr \in [Index -> {"never", "set", "removed"}]
  /\ sentinel \in [Index -> {"no", "fault", "quiesce"}]
  /\ queue \in Seq(Messages \cup Answers) /\ Len(queue) <= Room
  /\ lost \subseteq Index
  /\ dump \in [on : BOOLEAN, todo : SUBSET Index]
  /\ iface \in [Index -> Interface] /\ cur \in Index
  /\ pc \in {"receive", "sleep", "exists", "bring_up", "sockets", "repair", "exited"}

(* The listener and the main loop may rely on LinkLife: an interface is    *)
(* marked removed only after its link left the system and only by the      *)
(* announcement of that, never when it left a bridge.                      *)
OfLink(i) == INSTANCE LinkLife WITH
  present  <- link[i] # "gone",
  assigned <- addr[i] = "set",
  removed  <- iface[i].removed,
  notice   <- IF iface[i].removed THEN "read" ELSE IF i \in lost THEN "lost"
              ELSE IF link[i] = "gone" THEN "queued" ELSE "none"
ImplementsLife ==
  /\ \A i \in Index : OfLink(i)!Begin
  /\ [][\A i \in Index : OfLink(i)!Step]_vars

(* bounce_expired, bounce_link: within a round the bounces of a link are   *)
(* link_bounce_interval apart, and a new round waits the longer            *)
(* link_bounce_reattempt, although a bounce is itself announced by         *)
(* messages that find the link down.                                       *)
BounceSpacing == [][\A i \in Index : iface'[i].attempts > iface[i].attempts =>
  iface[i].since >= IF iface[i].attempts = 0 THEN Reattempt ELSE Interval]_vars

(* receive( DelLink ): a known link that leaves the system is marked       *)
(* removed, unless its announcement was lost: a probe does not tell.       *)
RemovalNoticed == \A i \in Index : link[i] = "gone" /\ iface[i].known ~>
  iface[i].removed \/ i \in lost \/ ~running

(* run, probe, receive: "process each response by calling the monitor      *)
(* object's receive callback interface.  This callback will popoulate the  *)
(* Interface table." (Network.cc:1087): a link that stays has an Interface *)
(* object in the end.  The table of factories that RouteSocket::receive    *)
(* reads (NetLink.cc:60) is never filled, and without a factory it returns.*)
LinksPopulated == \A i \in Index : <>[](Present(i) /\ running) => <>iface[i].known

=============================================================================
