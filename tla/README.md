# RedX in TLA+

RedX is a Tcl shell with commands for Linux system management, and the classes
behind those commands: an allocator, remote command evaluation between
processes, and a network manager (`netmgr`). This directory holds TLA+ modules
that model the parts of it that carry state and are hard to test, TLC
configurations that check them on small instances, and TLAPS proofs of the most
important results for every instance. Source paths below are relative to `src/`.

## 1. Inventory

| component | source | state | operations | hard because | correct when |
|---|---|---|---|---|---|
| Slab allocator | `Allocator.cc` | chain of slabs, bit map per slab, one mutex | `operator new`, `operator delete`, `Allocator::inject` | threads; `inject` takes no mutex; `mmap` fails; 32 bit length of a region | no two live objects share an address, maps are exact, only an oversized object can kill the process |
| Channel | `Channel.cc`, `TCL_Channel.cc` | one System V queue per service for both directions | `send`, `receive`, `ask`, `tell` (forks) | processes die, pids are reused, the queue is bounded, tells time out | requests are answered at most once and in order, to the process that asked; only a crash of the service loses one; asks and tells end |
| Service loop | `Service.cc` | the request in hand | receive, test that the client lives, evaluate, reply | a command may ask another service; crash between receive and reply | as above |
| Node table and partner cache | `NetworkMonitor.cc`, `Neighbor.cc` | array of nodes under a mutex, file `partner-cache` | `intern_node`, `remove_node`, `clear_partners`, `save_cache`, `load_cache` | pointers used after the unlock, partner flag written without the lock, crash while saving | one slot per id, a reused slot passes nothing on, a cached id was a partner and a save finds the partner there is |
| Neighbour table | `Interface.cc` | array of peers | `intern_neighbor`, `remove_neighbor`, `Peer::node` | the same | the same |
| Hosts table | `NetworkMonitor.cc` | `hosts.tmp`, `hosts`, `hosts.1` | `mkfile`, `update_hosts` | death, power failure and full disk between two calls | the table is whole, does not go missing once it is on the disk, and the old one is kept |
| Device names | `Linux/LinuxNetworkMonitor.cc` | `.tmp`, `58-net-rename.rules` | `persist_interface_configuration` | the same, and the stdio buffer | the rules are whole and do not go missing once they are on the disk |
| Inbox of a thread | `Queue.h` | two rings of entries, three mutexes, a condition variable | `enqueue`, `dequeue`, `wait`, `empty`, `depth` | tests without a lock, a signal under another mutex than the ring's | first in, first out; no wake-up is lost |
| Link monitor | `Network.cc`, `Linux/NetLink.cc` | table of interfaces, receive buffer of a route socket | `run`, `receive` of NewLink, DelLink, DelAddress, `bring_up`, `probe` | announcements are lost (`ENOBUFS`), arrive late, probes are refused, the link vanishes in the middle of a handler | every link that stays has an object; only a link that left the system is removed, and that is noticed |
| Interface | `Interface.cc`, `Linux/LinuxInterface.cc` | flags, carrier, bounce counters and times | `update`, `linkUp`, `linkDown`, `bounce_expired`, `bounce_link`, `configure_addresses`, `create_sockets` | a bounce causes the events that lead to the next one; carrier and message may disagree | bounces keep their distance |
| ICMPv6 socket | `ICMPv6.cc`, `Interface.cc` | address structure, `bind_completed` | `bind`, `send`, `icmp_socket`, `advertise` | two threads bind; the structure is filled before the lock; bind is retried until the link is gone | bound once, to the primary address; retries end |
| Shared networks | `SharedNetwork.cc` | access and configuration of a network | `set_access`, start-up of netmgr | assignment in a condition, 30 second wait | not modelled |
| Threads | `Thread.cc` | list of threads | add, stop | unsynchronised list, cancellation inside a lock | not modelled |

How they interact: the Tcl shell and every service are processes that share
nothing but message queues (Channel). netmgr is such a service; besides its
service thread it runs `Monitor::run`, which loads the partner cache, follows
kernel link events and keeps the map of interfaces. `update_hosts` and
`persist_interface_configuration` are methods of the monitor that write the hosts
and rules files; nothing in the repository calls them. The monitor starts a
listener thread per interface; the listeners, whose code is not in the
repository, ask the interface for a bound ICMPv6 socket and call into the node
and neighbour tables. The main loop of netmgr advertises through the same sockets
and asks the kernel for all links (`probe`). All threads allocate through the slab
allocator. Queue.h is the inbox each Thread has; nothing in the repository
enqueues yet.

Components left out: Tcl command wrappers, the shell, bridges, containers, Xen
and firmware access are argument conversion around single system calls; UUID,
NetLink and ICMPv6 layouts are encodings; Darwin ports are stubs; CLIPS,
linenoise and `reference/` are third party. `PROJECT.json` lists them all with
their reasons.

## 2. Modules

| module | models | extends or instantiates |
|---|---|---|
| `Heap` | what `new` and `delete` promise: fresh addresses | |
| `MemPool` | `Allocator.cc` | `AbstractHeap == INSTANCE Heap` |
| `MemPoolProofs` | theorems on MemPool | MemPool |
| `Channel` | `Channel.cc`, `TCL_Channel.cc`, loop of `Service.cc` | |
| `ChannelProofs` | theorems on Channel | Channel |
| `NodeTable` | node and neighbour tables, partner cache | |
| `NodeTableProofs` | theorems on NodeTable | NodeTable |
| `FileSystem` | the kernel's files (external) | |
| `HostsFile` | `mkfile`, `update_hosts` | FileSystem |
| `HostsFileProofs` | theorems on HostsFile | HostsFile |
| `RulesFile` | `persist_interface_configuration` | FileSystem |
| `RulesFileProofs` | theorems on RulesFile | RulesFile |
| `Fifo` | what a queue promises | |
| `Queue` | `Queue.h` at the level of pointers | `F == INSTANCE Fifo` |
| `QueueProofs` | theorems on Queue | Queue |
| `LinkLife` | what the users of an Interface may assume of its link | |
| `LinkMonitor` | the monitor thread, `RouteSocket::receive` and the Interface objects | `OfLink(i) == INSTANCE LinkLife` |
| `LinkMonitorProofs` | theorems on LinkMonitor | LinkMonitor |
| `IcmpSocket` | the ICMPv6 socket of one interface, the main loop and the listener | LinkLife |
| `IcmpSocketProofs` | theorems on IcmpSocket | IcmpSocket |
| `MC...` | the instances TLC checks | |

Operators whose name says what is wrong with them (`SetBitForgotten`,
`FsyncForgotten`, `InternNodeNoSearch`, ...) stand before the definition they
distort. No specification uses them: they are the plausible mistakes each
property is shown to notice (`mutants` in `PROJECT.json`).

### MemPool

`new` and `delete` hold one mutex from lock to unlock, so their walks over the
chain interleave only with `inject`, which takes none. Therefore `initialize`
is three steps (`InitMap`, `InitFill`, `InitChain`), split where `inject` can
see the difference, and the walk is one step per slab. An address is a pair of
slab and entry, the bit map a set of free entries. `Length` keeps the width of
`uint32_t length`: it is `count * size` modulo `Word`. An exception nobody
catches, a division by zero or a bad pointer ends the process (`fate`). `Give`
is a caller that hands an object to another thread.

### Channel

A queue is a sequence of messages; a request has type "request", a reply the
pid of its addressee. `msgsnd` waits for room, `msgrcv` takes the first message
of its type. A shell is idle, sending, receiving or polling; `tell` forks a
child that polls once a second and exits when its limit is reached. The child
stays a zombie until its parent waits for it (`Reap`, the Tcl command
`Process::wait`) or dies; then its pid is free. `Kill` and `Start` model deaths
and reused pids. A service takes a request, tests whether the sender lives,
evaluates (perhaps asking another service) and replies. Three variables are
history. `pending` has the requests of each process that are still owed an
answer; a crash of the service does not change it. `lost` has those of them a
service had in hand when it crashed. `stale[p]` is the number up to which
requests made under pid `p` are none that the present process waits for: those of
an earlier process, of a bare `send`, and the one whose place an answer to
another question took (`Mistaken`). Requests are numbered as they are made, so
the order of a process's requests is that of their numbers. Message text is left
out; failed system calls are too. The key of a queue is the first four bytes of
the service's name, as in the code; `Name` keeps them apart from the rest.

### NodeTable

Scans that only touch fields the mutex protects are one step under the lock
(`InternNode`). The scans of `save_cache` and `clear_partners` take one step
per slot, since the partner flag is written without the lock. What a caller
does with the returned pointer after the unlock is a step of its own
(`InsertOrdinal`, `PeerNode`, `LoadPartner`). `save_cache` truncates the file
when it opens it, and its line reaches the file at `fclose`. `load_cache` after
an unsuccessful `fscanf` uses whatever was on the stack: any id. `remove_node`
and `remove_neighbor` take away a slot whatever pointers other threads hold to
it, as in the code; the write that follows then reaches another node. The history
variable `strayed` has the slots last removed in this way, `meant` the id for
which the ordinal and the partner flag of a slot were set, `sees` the threads in
`save_cache` that had a partner to find when they took the mutex. An ordinal is
an `int` in the command and a `uint8_t` in the node (`UInt8`).

### FileSystem, HostsFile, RulesFile

The file system is a journalled one with delayed data: `hist` is the sequence
of directories a power failure may bring back, in order, `disk[i]` the contents
inode `i` may then have. `fsync` leaves one content, nothing but `Commit`
shortens `hist`. A record (or line) is the number of the call that wrote it, so
a mixed or partial file is visible. Each system call of `update_hosts` and
`persist_interface_configuration` is an action; `Crash` is the death of netmgr
between two of them (with the stdio buffer), `PowerFailure` that of the
machine. When `DiskFills`, a write that makes a file longer may fail, and so may
`unlink`, `link` and `rename`; `update_hosts` goes on after each of these.
`refused` is a history variable: this save was refused its `unlink` or `link`.
`update_hosts` writes over the zero records `mkfile` has put there, which is why
a write within the table cannot fail for lack of space. An `fsync` that fails is
not modelled; `update_hosts` does not look at its result, and after one a power
failure could leave a table that is not whole.

### Queue

The sentinels `head` and `freelist` and the entries are numbers; `next` and
`previous` are the links. `remove` is one step under its ring's mutex, `insert`
two (`InsertLink`, `InsertPublish`), since readers without the mutex follow
`next`. `wait` tests `empty` under `messages_lock`, which `insert` does not
hold; the signal afterwards does hold it. One thread owns the queue. An entry in
a thread's hands may be the sentinel: with two producers `allocate` does hand it
out.

### LinkMonitor

The model follows `Network.cc`, the complete former monitor. The port in
`Linux/LinuxNetworkMonitor.cc` has the same handlers, but `update` is disabled
in it (`Interface.cc:262`) and NewLink makes its object with a constructor that
leaves the counters uninitialised; it is not yet a program to model.

The kernel is external: a link appears, loses and gets its carrier, leaves a
bridge, loses its address, disappears, and each change is announced to the route
socket or lost because other traffic has filled the buffer. A probe starts a
dump, which reports the present links one by one as there is room and ends with
`NLMSG_DONE`; a second one is refused with an error. Both answers make `receive`
return, and `run` sleeps before it calls it again. A handler is cut into steps
where the kernel can change under it: NewLink of an unknown link is
`NewInterface` (object, first state), `Exists` (is it still there, is it a bridge
or physical), `BringUp` (address) and `CreateSockets`, where a link that has
vanished ends netmgr; of a known link it is `LinkState` and perhaps `Repair`.

Of the flags only IFF_LOWER_UP is kept (`link`, `processed`), with the carrier
state `update` compares (`unknown`, `previous`). `since` is the time since the
last bounce; `last_bounce_reattempt` needs no variable, being read only after
both were set at once. Left out: NewAddress, route and neighbour messages (they
only log or restart ntpd), topology clean-up, the manager's list and log lines.
`lost` is a history variable: the links whose DelLink got lost. `Factories` are
the message types `receive` finds a factory for. In the program there is none
(finding 1, run `link_table`); the run `link_monitor` is about the handlers, and
gives them the table that `NetLink_Module` makes.

### LinkLife and IcmpSocket

`LinkLife` is the interface between the two: the address comes and goes, the
link leaves for good, its announcement is queued or lost, and only when it is
read the object is marked removed. `LinkMonitor` implements it for each link
(ImplementsLife, proved); `IcmpSocket` extends it, so what is shown there holds
with the real monitor in its place. That the announcement is read in the end,
which `IcmpSocket` assumes as fairness, is RemovalNoticed of `LinkMonitor`.

`bind` tests `bind_completed`, clears and fills `binding` field by field, and
only then takes the lock, tests again and calls the kernel. One step per store,
one for the locked part. `binding` is the set of fields that are filled in:
without an address the kernel binds to any address, with a link-local one and no
scope it refuses. `raced` is a history variable: both threads were in `bind` at
once; only WholeUnlessRaced is qualified by it.

## 3. Runs

`tlc -config X.cfg MC...`; every run ends within two to three minutes. Deadlock
checking is off where the program may come to rest (all requests made, all
saves done, the process dead) and on for `queue`.

| run | checks | shows |
|---|---|---|
| `mempool` | TypeOK, NoAliasing, MapExact, ObjectFits, CrashOnlyOversized, InjectOncePerSlab, ImplementsHeap, MutexReleased | two threads, two size classes, slabs filling up, `mmap` failing, `inject` walking unlocked |
| `channel` | TypeOK, InOrder, AnswerMatches, TellEnds | every command of a ChannelClient and `Process::wait` under kills, reused pids and service crashes |
| `channel_ask` | ReplyNeverBlocks, AskReturns | shells that ask and tell, a service that asks another, tells that give up before their reply |
| `node_table` | TypeOK, UniqueEntries, NothingInherited, CacheHoldsPartner, SaveFindsPartner | three ids for two slots, discovery, removal also of slots in use, `save_cache` and `clear_partners` against each other, crash and restart anywhere |
| `node_table_load` | LoadsSavedPartner, violated | `load_cache` after a crash inside `save_cache` |
| `hosts_file` | TypeOK, HostsWhole, HostsStay, BackupKept | death and power failure between any two system calls of three saves, any of which may fail for a full disk |
| `rules_file` | RulesWholeIfSpared, RulesStay | the same for three calls of `persist_interface_configuration` |
| `rules_file_power` | RulesWhole, violated | the same file after a power failure |
| `queue` | TypeOK, DepthExact, ImplementsFifo, Delivered | one producer and the owner on the pointers of `Queue.h` |
| `link_monitor` | TypeOK, BounceSpacing, ImplementsLife, RemovalNoticed | the handlers, given a filled table of factories: one link of each kind under lost and late announcements, refused probes, sentinel files and a vanishing link |
| `link_table` | LinksPopulated, violated | the same monitor with the empty table `receive` reads |
| `icmp_socket` | WholeUnlessRaced, BindingSettles, BoundOnce, ListenerReleased, ListenerServed | main loop and listener binding one socket while the link lives as LinkLife allows |

What the properties say:

- **NoAliasing, MapExact, ObjectFits**: live objects have distinct addresses,
  the bit maps mark them and nothing else, each lies in a complete slab of the
  size asked for. **ImplementsHeap** is the same seen by the callers: the chain
  is a refinement of Heap.
- **CrashOnlyOversized**: only the deletion of an object whose region length
  wraps in 32 bits (8 MiB and more, for 512 entries) ends in a division by zero
  or an exception other than `bad_alloc`.
- **InjectOncePerSlab**: the unlocked walk sees each complete slab once.
- **MutexReleased**: whoever holds the allocator's mutex lets go of it, or the
  process ends.
- **InOrder**: what a process is owed is, in order, the replies waiting for it,
  the request a service has in hand and its requests still queued, but for those
  a service had in hand when it crashed. Those are lost for good, and no other
  is lost, doubled or overtaken.
- **AnswerMatches**: a reply on a queue is the one its addressee waits for, or
  the addressee has exited, or it is stale in the sense given above. So an ask or
  tell returns the answer to another question only after its pid was used before
  or a `send` was made without its `receive`, whatever is killed, reaped or late.
- **ReplyNeverBlocks, AskReturns**: with at most as many asks and tells at a
  time as the queue holds messages, and no circle of services, a service never
  waits to send and every ask returns. **TellEnds**: a tell that has sent its
  request stops polling, also when the service died with it in hand.
- **UniqueEntries**: one valid slot per id and address.
- **NothingInherited**: ordinal and partner flag of a node were given to that
  node, also when its slot had another one before. Slots removed under a thread
  that holds their pointer are excepted until they are removed again: such a
  thread does write into the wrong node.
- **CacheHoldsPartner, SaveFindsPartner**: an id in `partner-cache` was a
  partner, stale pointers or not; a `save_cache` that truncated the file while
  there was a partner in the table finds one to write.
- **HostsWhole**: `hosts` and `hosts.1` hold the table of one save.
  **HostsStay**: a step other than a power failure never takes `hosts` away, and
  once a directory with `hosts` has reached the disk no power failure does
  either; before that it may bring back the time without a table.
  **BackupKept**: a step that replaces `hosts` leaves the old one as `hosts.1`,
  unless this save was refused its `unlink` or `link`, which `update_hosts` logs
  at most, or a power failure brings an earlier directory back.
- **RulesWholeIfSpared, RulesStay**: death of netmgr alone never leaves a
  partial rules file; the rules file stays in the sense of HostsStay.
- **ImplementsFifo, DepthExact, Delivered**: the rings are one FIFO; `depth`,
  asked by the owner, counts what was there when it began; each message sent is
  dequeued.
- **RemovalNoticed**: a known link that leaves the system is marked removed,
  unless its DelLink was lost: no probe makes up for that.
- **ImplementsLife**: see LinkLife above. A link that only left a bridge is never
  marked.
- **BounceSpacing**: bounces of a link are `link_bounce_interval` apart, rounds
  `link_bounce_reattempt`, although each bounce causes messages that find the
  link down.
- **WholeUnlessRaced, BindingSettles, BoundOnce**: outside a race the socket is
  bound to the primary address and sends with its scope; after a race the
  structure that `send` reads is whole again; the socket is bound at most once.
  During a race the socket may be bound to all addresses: this is what filling
  the structure before the lock costs.
- **ListenerReleased, ListenerServed**: the listener of a link that left stops
  retrying, unless the DelLink was lost; once the address stays, it gets its
  socket. One race, or any number that comes to an end, does not excuse it; only
  if both threads are in `bind` together again and again may it go on without,
  and TLC has a behaviour in which they clear the structure for each other
  forever.

### Bounds

| run | bounds | why they are enough |
|---|---|---|
| `mempool` | 2 threads, sizes 1 and 3, `Count` 2, `Word` 5, `MaxPools` 3 | two slabs are in use behind each other in either order, both of one size too, one more request meets the failing `mmap`; regions of size 3 have length 6, which wraps, those of size 1 do not. The theorems cover every other choice |
| `channel` | 1 shell, 1 pid for children, queue of 2, 4 requests, 2 polls | the queue fills while a reply is pending, both pids are used again by shells, the child's after a kill and after a `wait`; a stale reply is taken and its own reply by the next command. The theorems cover any number of processes |
| `channel_ask` | 2 shells, 1 child, 2 services, queue of 3, 4 requests, 2 polls | three processes compete for a queue that holds three messages, and there are more requests than it holds |
| `node_table` | 2 threads, 3 ids, 2 node slots, 1 peer, ordinal 256 | the table is full, slots are reused by other ids, two threads look for one id with a free slot left, a slot is removed and reused under a pointer; 256 wraps to 0. States that differ only in fields nothing reads any more are one (`View`); ids are interchangeable (symmetry). More peers are left to the theorems |
| `hosts_file` | 3 saves, up to 3 records, a table of 2, 3 inodes | hosts, hosts.1 and hosts.tmp exist together and a save goes past the reserved table |
| `rules_file` | 3 calls, up to 3 lines (4 in `rules_file_power`), buffer of 2 | the buffer is flushed both by a line and by `fclose` |
| `queue` | 1 producer, 5 messages | entries are reused from the freelist while others wait |
| `link_monitor` | 1 link of any kind, a buffer of 2 messages about it, interval 1, 2 attempts, reattempt 2 | links share nothing but the buffer and the thread, and what other links do to those is that any announcement may be lost and a dump may wait; two messages are what a bounce sends at once; `link_bounce_attempts` is 2 in the code and the two times differ, unlike its defaults, to tell them apart. The theorems cover any set of links |
| `icmp_socket` | none | the model is finite |

Two bounds restrict the claim rather than the instance. With two producers
`allocate`, which tests the freelist without its mutex, can hand out the
sentinel (TLC finds it after one message was sent and received), and a thread
other than the owner that asks for `depth` can be led into the freelist;
ImplementsFifo, DepthExact and Delivered are for one producer and the owner
asking. TypeOK is proved for any number of producers.

### Fairness

Weak fairness of each process or thread whose next step is possible: the kernel
runs what can run and wakes blocked senders and receivers. In MemPool the
thread inside the mutex, in Channel each client and service step (so commands
end), in Queue each producer and the owner's operations. Mutexes are not assumed
to be fair. Queue also assumes, strongly, that its owner comes back to `wait`
however often it asks for the depth: that is what a thread's loop does. In
LinkMonitor the monitor thread (the kernel reports `ENOBUFS` once and then
returns what the buffer holds), the probe, which the main loop of netmgr repeats
every ten rounds, and time; strongly, the dump: the kernel goes on with it when
the reader makes room, however often other messages take that room again. In
IcmpSocket the main loop, the listener and the monitor reading a queued DelLink.
Nothing
is assumed about calls being made, processes being killed, or journal commits.

## 4. Findings

1. The constructor of the monitor (`Network.cc:1086`) says that the answers to its
   GetLink request reach its receive callback, which "will popoulate the
   Interface table". `routeFactories` is defined in an anonymous namespace in both
   `Linux/NetLink.cc:60` and `Linux/TCL_NetLink.cc:64`, and `NetLink_Module` fills
   the second. The receive loop reads the first, so it returns at every message
   and no Interface object is made (`link_table`).
2. `load_cache` "simply loads the previous saved value"
   (`NetworkMonitor.cc:321`); from an empty file, which `save_cache` leaves when
   there is no partner or netmgr dies before `fclose`, it makes an
   uninitialised id the partner (`node_table_load`).
3. `persist_interface_configuration` calls `fdatasync` while its lines are still
   in the stdio buffer (`Linux/LinuxNetworkMonitor.cc:445`); a power failure
   after the rename can leave the rules file empty (`rules_file_power`).

Seen while modelling and not the subject of a run: the key of a queue is the first
four bytes of the service's name (`Channel.cc:106`), so services whose names begin
alike read each other's requests, although `Channel.h:57` says all requests of a
client "go to this service"; InOrder and AnswerMatches are stated for services
with different keys. `TCL_Interface.cc:47` links Tcl variables to its own copies
of the bounce parameters, which `Interface.cc` never reads.

## 5. Proofs

For every value of the constants that satisfies the modules' named assumptions
(`MemPoolAssumption`, `ChannelAssumption`, `NullAssumption`,
`NodeTableAssumption`, `FileSystemAssumption`, `HostsFileAssumption`,
`RulesFileAssumption`, `LinkMonitorAssumption`: sizes and counts are positive
naturals, special values lie outside the sets they are not part of). A
condition under which a property holds is a hypothesis of its theorem.

**MemPoolProofs**: TypeOK, NoAliasing, MapExact, ObjectFits, CrashOnlyOversized
and InjectOncePerSlab are invariants. None is inductive alone. `IInv` (in
MemPool) adds: who is between lock and unlock holds the mutex (LockInv); the
initialised pools are exactly those before the last, except while one is being
built (ChainInv); where the walks of `new` and `delete` stand (CurInv,
OutsideAtHeap) and that a walking `delete` has not passed the slab of its
object, unless that one is oversized (FreeWalkInv); the object being deleted
belongs to nobody (PtrNotOwned); the state of the unlocked walk (WalkInv). One
lemma per conjunct shows that every action keeps it. From the same invariant
ImplementsHeap follows step by step: taking an entry is a step of Heap with an
address nobody holds, giving it back frees it, everything else leaves the
callers' view alone.

**ChannelProofs**: four theorems, for any number of shells, children, services
and requests and any queue limit. TypeOK needs the shape of the records (Shape:
who sends or receives has a service to talk to, a service has a request in hand
exactly when it is past `receive`).
InOrder holds when no two services share a queue (DistinctKeys), with every
command, kills, reaped and reused pids and crashes allowed. Its inductive
invariant adds Unsent: a request that is made and not yet sent has a number above
all those its process is owed, lost ones included. The lemmas are about one
queue: what taking or putting a message does to InTurn for the process it belongs
to, and that it does nothing to the others.
AnswerMatches holds under the same condition only. Its invariant (Fresh) says of
every pid that each pending request under it is up to `stale`, or is the one its
process waits for on that queue, or its process has exited; InOrder is needed to
know that what is received is pending.
ReplyNeverBlocks holds when no pid is used again, there is no bare `send`
(OneAtATime) and a queue holds as many messages as there are pids (RoomForAll):
then Awaits says that every pending request is the one its process waits for, or
the process is a zombie. Services that ask services make this more than counting
clients. Tokens says that there is a map from every process to the shell or
child it works for, such that each command under way is in one place: a message
on some queue or a service at work. A full queue and a service about to reply to
it would be more commands than pids.

**NodeTableProofs**: TypeOK (in four parts: nodes, peers, threads, the rest),
UniqueEntries, NothingInherited, CacheHoldsPartner and SaveFindsPartner, none of
them under a condition. `UseInv` for NothingInherited says that a pointer into a
slot that has not strayed still names the node it was taken for (PointersHold), and that a free slot never carries the partner flag, since
`Node::uuid` resets the ordinal only. `CacheInv` adds to CacheHoldsPartner that
the id `save_cache` carries from its scan to the file was a partner's and that
the partners of the table are among those ever known. For SaveFindsPartner,
`ScanOK` says that a scan holds the mutex and that one that had a partner to find
has found one or has one ahead of it: the flag is set without the mutex, but
cleared only under it.

**HostsFileProofs**: TypeOK, HostsWhole, HostsStay and the action property
BackupKept. `IInv` says that in every directory that may come back `hosts.tmp`
shares no inode with `hosts` or `hosts.1` (Apart), that the files those two
name have reached the disk and are whole tables of a finished save (Settled),
and what the file being written looks like at each step (Ready, Control).
HostsStay rests on `rename` replacing a name in one step of `hist`: StayOrder says
that in `hist` a directory with `hosts` is followed by directories with `hosts`
only, and StepKeeps what one step adds to or takes from `hist`. BackupKept needs
from Control that after an `unlink` that was not refused there is no `hosts.1`.

**RulesFileProofs**: RulesWholeIfSpared and RulesStay, with an invariant of the
same kind: what the temporary file and the stdio buffer hold at each step
(Ready, Control) and that the file named by the rules is the whole one of a
finished call, as long as the machine has not lost power (Settled).

**LinkMonitorProofs**: TypeOK, the action property BounceSpacing and the
refinement ImplementsLife, for any set of links. `IInv` adds Gone (a DelLink in
the buffer, a lost one and the removed flag all mean that the link is gone, and
at most one of the last two holds) and Bounces (an object whose counter is 0
has rested for `link_bounce_reattempt`; when `Repair` runs, the attempt is due).
Without Bounces the type of `attempts` is not inductive: `Repair` increments a
counter that `bounce_expired` looked at one step earlier. For the refinement,
one lemma per action shows that each link takes a step of LinkLife or none.

**IcmpSocketProofs**: WholeUnlessRaced, BindingSettles and BoundOnce. `IInv`
adds that `bind_completed` is set exactly when the kernel has bound the socket
(CompletedExact), what the structure holds at each step of a thread that is
alone (Alone), and that a field that is missing is owed by a thread that is
still to fill it (Owed), which is why the structure settles after a race.

**QueueProofs**: TypeOK for any number of producers; DepthExact and ImplementsFifo
for one producer (OneProducer; with two, `allocate` may take the sentinel of the
freelist), where no sentinel ever leaves its ring (Shape). All are for
any number of messages. The messages are numbered as they are sent and an entry
keeps the number it carried last, so the numbers say where an entry is: the
freelist has those from Taken + 1 to Freed, the ring of head those from
Removed + 1 to Published. `Ring` says that of `next` and `previous`, with the
one entry that `insert` has linked but not published. `IInv` adds that entries
carry different numbers, what a thread holds in hand, that who goes on to
remove has left something to remove (AtProducer, AtOwner), and that `depth` has
counted the entries newer than `dot` (Walk). Lemmas say what linking,
publishing and removing do to a ring and that a step on one ring leaves the
other alone. `After`, a recursive function, is shown to be the walk of the ring
by giving that walk explicitly and comparing the two at their first difference.

Only model-checked: liveness (MutexReleased, TellEnds, AskReturns, Delivered,
RemovalNoticed, ListenerReleased, ListenerServed),
which is beyond the prover. Every invariant, action property and refinement the
passing runs check is also a theorem.

## 6. Not modelled, and the plan

Of the repository's 196,000 lines about 163,000 are the vendored CLIPS shell and
the third party sources in `reference/`; of the rest, most are Tcl wrappers,
encodings and single system calls, for which a model would say what the code
says. The modules cover what has state that several threads, processes or
crashes can get at, which is a small share of the lines.

- The JSON scanner, keys, lists, trees, UUIDs and packet layouts are sequential
  conversions: their control is the format itself.
- The walk over the `std::map` of interfaces during an insertion
  (`NetworkMonitor.cc:111`) is undefined behaviour of the container; any claim
  after it would rest on nothing.
- NetLink sequence numbers (`Linux/NetLink.cc:322`) are counted without a lock,
  but no code reads them back.
- Failed `msgrcv` calls in Channel, and cancellation of a thread inside a lock:
  nothing in the repository sends the signals or makes the calls.

Done, in this order: MemPool with Heap, Channel, NodeTable, HostsFile and
RulesFile on FileSystem, Queue with Fifo, LinkMonitor with LinkLife, IcmpSocket
on LinkLife.

Next:

1. `SharedNetworks`: `set_access` and the start-up of netmgr.
2. `ThreadList`.
3. The port in `Linux/LinuxNetworkMonitor.cc`, when `update` has its kernel
   generic form.
