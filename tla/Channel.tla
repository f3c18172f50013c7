------------------------------ MODULE Channel ------------------------------
(***************************************************************************)
(* Remote command evaluation over SYSV message queues: Channel.cc (both    *)
(* ends of a queue), the Tcl command of a ChannelClient (TCL_Channel.cc:   *)
(* send, receive, ask, tell) and the loop of a service (Service::run).     *)
(*                                                                         *)
(* There is one queue per key, shared by both directions: a request has    *)
(* message type 1, a reply has the pid of the asker as its type, and the   *)
(* kernel limits the queue as a whole.  All sends block while the queue is *)
(* full.  A queue outlives the processes that use it.                      *)
(*                                                                         *)
(* Abstractions: a request is a number, a reply carries the number of the  *)
(* request it answers; message text, result codes and truncation are left  *)
(* out.  A service that asks another one while it evaluates a request is a *)
(* client too (Calls).                                                     *)
(***************************************************************************)
EXTENDS Integers, FiniteSets, Sequences, SequencesExt

CONSTANTS
  Shells,       \* processes that run a Tcl shell from the start
  Children,     \* pids a fork can return
  Services,     \* service processes, each with one Channel thread
  Keys,         \* queue keys
  Name,         \* Name[s]: the name of s, its first four bytes apart
  Ops,          \* the commands the shells use: Channel's, and Process::wait
  Calls,        \* <<s, t>>: a command of s may ask service t
  MayKill,      \* shells may be killed, and their pids used again
  MayCrash,     \* services may crash and be restarted
  Capacity,     \* messages a queue holds
  TimeLimit,    \* seconds a tell waits for its reply (60 in the code)
  MaxRequests,  \* bound: requests sent in one behaviour
  Null

ASSUME ChannelAssumption ==
  /\ \A s \in Services : Name[s].first4 \in Keys
  /\ \A s, t \in Services : s # t => Name[s] # Name[t]
  /\ Ops \subseteq {"send", "receive", "ask", "tell", "wait"}
  /\ Calls \subseteq Services \X Services
  /\ Capacity \in Nat \ {0} /\ TimeLimit \in Nat \ {0} /\ MaxRequests \in Nat
  /\ MayKill \in BOOLEAN /\ MayCrash \in BOOLEAN
  /\ MayCrash => Calls = {}   \* a restarted service has another pid
  /\ (Shells \cup Children) \cap Services = {}
  /\ "request" \notin Shells \cup Children \cup Services   \* 1 is the pid of init
  /\ Null \notin Shells \cup Children \cup Services

(* The key of a service's queue is the first word of its name.            *)
service_key(s) == Name[s].first4

Pids    == Shells \cup Children
Procs   == Pids \cup Services
Request == "request"                     \* message type 1
Ids     == 1 .. MaxRequests
Message == [dst : Procs \cup {Request}, src : Procs, id : Ids, to : Services]

ASSUME NullAssumption == Null \notin Message

VARIABLES
  queue,     \* queue[k]: the messages of the queue with key k
  proc,      \* proc[p]: what client process p is doing
  parent,    \* parent[c]: the shell that forked child c
  svc,       \* svc[s]: the request service s is working on, and how far
  nreq,      \* requests made so far
  pending,   \* history: pending[k][p], the requests of p that were neither
             \* answered nor ignored because p was dead
  lost,      \* history: lost[k][p], those of them that a service had in hand
             \* when it crashed
  stale      \* history: the requests under pid p that its process does not
             \* wait for are those up to number stale[p]

vars == <<queue, proc, parent, svc, nreq, pending, lost, stale>>

Idle   == [st |-> "idle", op |-> "none", to |-> Null, id |-> 0, elapsed |-> 0]
Dead   == [Idle EXCEPT !.st = "none"]
Zombie == [Idle EXCEPT !.st = "zombie"]
Ready  == [st |-> "receive", msg |-> Null, ask |-> 0, to |-> Null]
Down   == [Ready EXCEPT !.st = "down"]

Init ==
  /\ queue   = [k \in Keys |-> <<>>]
  /\ proc    = [p \in Pids |-> IF p \in Shells THEN Idle ELSE Dead]
  /\ parent  = [c \in Children |-> Null]
  /\ svc     = [s \in Services |-> Ready]
  /\ nreq    = 0
  /\ pending = [k \in Keys |-> [p \in Procs |-> {}]]
  /\ lost    = [k \in Keys |-> [p \in Procs |-> {}]]
  /\ stale   = [p \in Pids |-> 0]

-----------------------------------------------------------------------------
(* msgsnd and msgrcv                                                       *)

Room(k) == Len(queue[k]) < Capacity

(* msgrcv by type takes the first message of that type.                    *)
Waiting(k, type) == {i \in 1 .. Len(queue[k]) : queue[k][i].dst = type}
FirstOfLIFO(k, type) ==
  CHOOSE i \in Waiting(k, type) : \A j \in Waiting(k, type) : i >= j
FirstOf(k, type) ==
  CHOOSE i \in Waiting(k, type) : \A j \in Waiting(k, type) : i <= j
Take(k, type) == RemoveAt(queue[k], FirstOf(k, type))

(* ChannelClient::send puts a request of p for service s on its queue.     *)
SendRequest(p, s, id) ==
  LET k == service_key(s)
  IN /\ Room(k)
     /\ queue' = [queue EXCEPT ![k] =
          Append(@, [dst |-> Request, src |-> p, id |-> id, to |-> s])]
     /\ pending' = [pending EXCEPT ![k][p] = @ \cup {id}]

(* ChannelClient::receive takes the first reply to p on the queue of s.    *)
ReceiveReply(p, s) ==
  LET k == service_key(s)
  IN /\ Waiting(k, p) # {}
     /\ queue' = [queue EXCEPT ![k] = Take(k, p)]
     /\ pending' = [pending EXCEPT ![k][p] = @ \ {queue[k][FirstOf(k, p)].id}]

(* The answer to another question: p goes on, and its own reply is still   *)
(* to come.                                                                *)
Mistaken(p) ==
  stale' = IF queue[service_key(proc[p].to)][FirstOf(service_key(proc[p].to), p)].id = proc[p].id
             THEN stale ELSE [stale EXCEPT ![p] = nreq]

NewRequest(id) ==
  /\ nreq < MaxRequests
  /\ id = nreq + 1
  /\ nreq' = id

-----------------------------------------------------------------------------
(* The Channel commands of a shell                                         *)

(* channel->send( request ): enter msgsnd.                                 *)
CallSend(p, s) ==
  /\ proc[p].st = "idle"
  /\ \E op \in Ops \cap {"send", "ask"}, id \in Ids :
       /\ NewRequest(id)
       /\ proc' = [proc EXCEPT ![p] =
            [Idle EXCEPT !.st = "send", !.op = op, !.to = s, !.id = id]]
       /\ stale' = IF op = "send" THEN [stale EXCEPT ![p] = id] ELSE stale
  /\ UNCHANGED <<queue, parent, svc, pending, lost>>

CallReceive(p, s) ==
  /\ proc[p].st = "idle"
  /\ "receive" \in Ops
  /\ proc' = [proc EXCEPT ![p] = [Idle EXCEPT !.st = "receive", !.op = "receive", !.to = s]]
  /\ UNCHANGED <<queue, parent, svc, nreq, pending, lost, stale>>

(* tell forks: the parent returns at once, the child sends.                *)
CallTell(p, c, s) ==
  /\ proc[p].st = "idle"
  /\ "tell" \in Ops
  /\ proc[c].st = "none"
  /\ \E id \in Ids :
       /\ NewRequest(id)
       /\ proc' = [proc EXCEPT ![c] =
            [Idle EXCEPT !.st = "send", !.op = "tell", !.to = s, !.id = id]]
  /\ parent' = [parent EXCEPT ![c] = p]
  /\ stale' = [stale EXCEPT ![c] = nreq]
  /\ UNCHANGED <<queue, svc, pending, lost>>

(* What the command does once msgsnd has returned.                         *)
AfterSendNoReceive(p) == IF proc[p].op = "tell" THEN [proc[p] EXCEPT !.st = "poll"] ELSE Idle
AfterSend(p) ==
  CASE proc[p].op = "send" -> Idle
    [] proc[p].op = "ask"  -> [proc[p] EXCEPT !.st = "receive"]
    [] proc[p].op = "tell" -> [proc[p] EXCEPT !.st = "poll"]

Msgsnd(p) ==
  /\ proc[p].st = "send"
  /\ SendRequest(p, proc[p].to, proc[p].id)
  /\ proc' = [proc EXCEPT ![p] = AfterSend(p)]
  /\ UNCHANGED <<parent, svc, nreq, lost, stale>>

(* The blocking receive of ask and receive.                                *)
Msgrcv(p) ==
  /\ proc[p].st = "receive"
  /\ ReceiveReply(p, proc[p].to)
  /\ Mistaken(p)
  /\ proc' = [proc EXCEPT ![p] = Idle]
  /\ UNCHANGED <<parent, svc, nreq, lost>>

(* A child that has _exit()ed stays a zombie while its parent lives and    *)
(* does not wait for it.                                                   *)
Exited(c) == IF parent[c] = Null THEN Dead ELSE Zombie

PollReply(c) ==
  /\ proc[c].st = "poll"
  /\ ReceiveReply(c, proc[c].to)
  /\ Mistaken(c)
  /\ proc' = [proc EXCEPT ![c] = Exited(c)]
  /\ UNCHANGED <<parent, svc, nreq, lost>>

(* while ( ++elapsed < time_limit )                                        *)
ElapsedStuck(c) == proc[c].elapsed
Elapsed(c) == proc[c].elapsed + 1
AgainOnceMore(c) == Elapsed(c) <= TimeLimit
Again(c) == Elapsed(c) < TimeLimit

(* Nothing there: sleep a second, give up when the limit is reached.       *)
PollSleep(c) ==
  /\ proc[c].st = "poll"
  /\ Waiting(service_key(proc[c].to), c) = {}
  /\ proc' = [proc EXCEPT ![c] =
       IF Again(c) THEN [@ EXCEPT !.elapsed = Elapsed(c)] ELSE Exited(c)]
  /\ UNCHANGED <<queue, parent, svc, nreq, pending, lost, stale>>

(* Process::wait reaps a child that has exited: its pid is free.           *)
Reap(p, c) ==
  /\ proc[p].st = "idle"
  /\ "wait" \in Ops
  /\ parent[c] = p /\ proc[c].st = "zombie"
  /\ proc' = [proc EXCEPT ![c] = Dead]
  /\ parent' = [parent EXCEPT ![c] = Null]
  /\ UNCHANGED <<queue, svc, nreq, pending, lost, stale>>

(* A process dies in any state; init adopts and reaps its children.        *)
Kill(p) ==
  LET orphans == {c \in Children : parent[c] = p}
  IN /\ MayKill
     /\ proc[p].st \notin {"none", "zombie"}
     /\ proc' = [q \in Pids |->
          CASE q = p -> IF p \in Children THEN Exited(p) ELSE Dead
            [] q \in orphans /\ proc[q].st = "zombie" -> Dead
            [] OTHER -> proc[q]]
     /\ parent' = [c \in Children |-> IF c \in orphans THEN Null ELSE parent[c]]
     /\ UNCHANGED <<queue, svc, nreq, pending, lost, stale>>

(* The pid is used again by another shell.                                 *)
Start(p) ==
  /\ MayKill
  /\ proc[p].st = "none"
  /\ proc' = [proc EXCEPT ![p] = Idle]
  /\ parent' = [c \in Children |-> IF c = p THEN Null ELSE parent[c]]
  /\ stale' = [stale EXCEPT ![p] = nreq]
  /\ UNCHANGED <<queue, svc, nreq, pending, lost>>

-----------------------------------------------------------------------------
(* Service::run                                                            *)

(* kill( sender, 0 ): true for a zombie as well.                           *)
AliveShells(p) == p \notin Services /\ proc[p].st # "none"
Alive(p) == IF p \in Services THEN svc[p].st # "down" ELSE proc[p].st # "none"

SvcReceive(s) ==
  LET k == service_key(s)
  IN /\ svc[s].st = "receive"
     /\ Waiting(k, Request) # {}
     /\ svc' = [svc EXCEPT ![s] =
          [@ EXCEPT !.st = "check", !.msg = queue[k][FirstOf(k, Request)]]]
     /\ queue' = [queue EXCEPT ![k] = Take(k, Request)]
     /\ UNCHANGED <<proc, parent, nreq, pending, lost, stale>>

(* The client is dead: ignore the message.                                 *)
SvcCheck(s) ==
  LET m == svc[s].msg
      k == service_key(s)
  IN /\ svc[s].st = "check"
     /\ IF Alive(m.src)
          THEN svc' = [svc EXCEPT ![s].st = "eval"] /\ UNCHANGED pending
          ELSE /\ svc' = [svc EXCEPT ![s] = Ready]
               /\ pending' = [pending EXCEPT ![k][m.src] = @ \ {m.id}]
     /\ UNCHANGED <<queue, proc, parent, nreq, lost, stale>>

(* Tcl_EvalEx returns; the reply is ready.                                 *)
SvcEval(s) ==
  /\ svc[s].st = "eval"
  /\ svc' = [svc EXCEPT ![s].st = "reply"]
  /\ UNCHANGED <<queue, proc, parent, nreq, pending, lost, stale>>

(* The command being evaluated asks another service.                       *)
SvcAsk(s, t) ==
  /\ svc[s].st = "eval"
  /\ <<s, t>> \in Calls
  /\ \E id \in Ids :
       /\ NewRequest(id)
       /\ svc' = [svc EXCEPT ![s] = [@ EXCEPT !.st = "asksend", !.ask = id, !.to = t]]
  /\ UNCHANGED <<queue, proc, parent, pending, lost, stale>>

SvcAskSend(s) ==
  /\ svc[s].st = "asksend"
  /\ SendRequest(s, svc[s].to, svc[s].ask)
  /\ svc' = [svc EXCEPT ![s].st = "askreceive"]
  /\ UNCHANGED <<proc, parent, nreq, lost, stale>>

SvcAskReceive(s) ==
  /\ svc[s].st = "askreceive"
  /\ ReceiveReply(s, svc[s].to)
  /\ svc' = [svc EXCEPT ![s] = [@ EXCEPT !.st = "reply", !.ask = 0, !.to = Null]]
  /\ UNCHANGED <<proc, parent, nreq, lost, stale>>

(* Channel::send blocks while the queue is full.                           *)
SvcReply(s) ==
  LET m == svc[s].msg
      k == service_key(s)
  IN /\ svc[s].st = "reply"
     /\ Room(k)
     /\ queue' = [queue EXCEPT ![k] =
          Append(@, [dst |-> m.src, src |-> s, id |-> m.id, to |-> s])]
     /\ svc' = [svc EXCEPT ![s] = Ready]
     /\ UNCHANGED <<proc, parent, nreq, pending, lost, stale>>

(* The message in hand is gone with the process that read it.              *)
SvcCrash(s) ==
  /\ MayCrash
  /\ svc[s].st # "down"
  /\ svc' = [svc EXCEPT ![s] = Down]
  /\ lost' = IF svc[s].msg = Null THEN lost
             ELSE [lost EXCEPT ![service_key(s)][svc[s].msg.src] = @ \cup {svc[s].msg.id}]
  /\ UNCHANGED <<queue, proc, parent, nreq, pending, stale>>

SvcStart(s) ==
  /\ svc[s].st = "down"
  /\ svc' = [svc EXCEPT ![s] = Ready]
  /\ UNCHANGED <<queue, proc, parent, nreq, pending, lost, stale>>

-----------------------------------------------------------------------------
ClientStep(p) == Msgsnd(p) \/ Msgrcv(p) \/ PollReply(p) \/ PollSleep(p)

ServiceStep(s) ==
  \/ SvcReceive(s) \/ SvcCheck(s) \/ SvcEval(s)
  \/ SvcAskSend(s) \/ SvcAskReceive(s) \/ SvcReply(s) \/ SvcStart(s)

Next ==
  \/ \E p \in Pids : ClientStep(p) \/ Kill(p) \/ Start(p)
  \/ \E p \in Pids, c \in Children : Reap(p, c)
  \/ \E p \in Pids, s \in Services :
       \/ CallSend(p, s) \/ CallReceive(p, s)
       \/ \E c \in Children : CallTell(p, c, s)
  \/ \E s \in Services :
       \/ ServiceStep(s) \/ SvcCrash(s)
       \/ \E t \in Services : SvcAsk(s, t)

(* A process that can run runs: the kernel wakes blocked senders and       *)
(* receivers, and commands finish.                                         *)
Fairness ==
  /\ \A p \in Pids : WF_vars(ClientStep(p))
  /\ \A s \in Services : WF_vars(ServiceStep(s))

Spec == Init /\ [][Next]_vars
FairSpec == Spec /\ Fairness

-----------------------------------------------------------------------------
(* Properties                                                              *)

ProcType == [st : {"none", "zombie", "idle", "send", "receive", "poll"},
             op : {"none", "send", "receive", "ask", "tell"},
             to : Services \cup {Null}, id : 0 .. MaxRequests,
             elapsed : 0 .. TimeLimit - 1]
SvcType  == [st : {"down", "receive", "check", "eval", "asksend", "askreceive", "reply"},
             msg : Message \cup {Null}, ask : 0 .. MaxRequests, to : Services \cup {Null}]

(* The shape of the state; a queue never holds more than its limit, and a  *)
(* tell that is still polling has seconds left of its 60.                  *)
TypeOK ==
  /\ queue \in [Keys -> Seq(Message)]
  /\ \A k \in Keys : Len(queue[k]) <= Capacity
  /\ proc \in [Pids -> ProcType]
  /\ parent \in [Children -> Pids \cup {Null}]
  /\ svc \in [Services -> SvcType]
  /\ nreq \in 0 .. MaxRequests
  /\ pending \in [Keys -> [Procs -> SUBSET Ids]]
  /\ lost \in [Keys -> [Procs -> SUBSET Ids]]
  /\ stale \in [Pids -> 0 .. MaxRequests]

(* Where in queue q the replies to p and the requests of p are.            *)
Replies(q, p)  == {i \in 1 .. Len(q) : q[i].dst = p}
Requests(q, p) == {i \in 1 .. Len(q) : q[i].dst = Request /\ q[i].src = p}

(* With queue q and the requests of p that services have in hand, p is     *)
(* owed the answers to the requests in owed: no more, none twice, and the  *)
(* older ones first (a process numbers its requests as it makes them).     *)
InTurn(q, hand, owed, p) ==
  /\ owed = {q[i].id : i \in Replies(q, p) \cup Requests(q, p)} \cup hand
  /\ \A x, y \in hand : x = y
  /\ \A i, j \in Replies(q, p) : i < j => q[i].id < q[j].id
  /\ \A i, j \in Requests(q, p) : i < j => q[i].id < q[j].id
  /\ \A i \in Replies(q, p) : \A j \in Requests(q, p) : q[i].id < q[j].id
  /\ \A i \in Replies(q, p) : \A x \in hand : q[i].id < x
  /\ \A x \in hand : \A j \in Requests(q, p) : x < q[j].id

InHand(k, p) == {s \in Services : service_key(s) = k /\ svc[s].msg # Null /\ svc[s].msg.src = p}

(***************************************************************************)
(* One queue, two directions, dead clients, reused pids and service        *)
(* crashes: a request is lost only when the one service that had it in     *)
(* hand crashed, and none is answered twice or overtaken.  The others p is *)
(* owed are, in order, the replies waiting for it, the request the service *)
(* has in hand and its requests still queued.                              *)
(***************************************************************************)
InOrder ==
  \A k \in Keys, p \in Procs :
    InTurn(queue[k], {svc[s].msg.id : s \in InHand(k, p)}, pending[k][p] \ lost[k][p], p)

(***************************************************************************)
(* A reply on a queue is the one its addressee is waiting for, or nobody   *)
(* will take it for his own (the addressee has exited), or it is stale: a  *)
(* reply to an earlier process of that pid, to a send, or the one an       *)
(* earlier stale reply was taken for.  So ask and tell return the answer   *)
(* to another question only after a reused pid or a send without receive,  *)
(* whatever is killed, reaped, restarted or late.                          *)
(***************************************************************************)
AnswerMatches ==
  \A k \in Keys : \A i \in 1 .. Len(queue[k]) :
    LET m == queue[k][i]
    IN m.dst \in Pids /\ m.id > stale[m.dst] =>
         \/ proc[m.dst].st \in {"receive", "poll"} /\ proc[m.dst].id = m.id
         \/ proc[m.dst].st \in {"none", "zombie"}

(***************************************************************************)
(* When pids are not used again and there are no sends without receive,    *)
(* and no more asks and tells at a time, tells that gave up                *)
(* before their reply included, than the queue holds messages, a service   *)
(* never blocks in msgsnd: it cannot be stuck behind requests that only it *)
(* could remove, with every client waiting for it.                         *)
(***************************************************************************)
ReplyNeverBlocks ==
  \A s \in Services : svc[s].st = "reply" => Room(service_key(s))

(***************************************************************************)
(* Under the same conditions, and when services do not ask each other in a *)
(* circle, every ask returns.                                              *)
(***************************************************************************)
AskReturns ==
  \A p \in Shells : proc[p].st # "idle" ~> proc[p].st = "idle"

(***************************************************************************)
(* A process forked by tell stops polling, with or without a reply, also  *)
(* when the service has died with the request in hand.                     *)
(***************************************************************************)
TellEnds ==
  \A c \in Children : proc[c].st = "poll" ~> proc[c].st # "poll"

=============================================================================
