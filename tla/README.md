# Formal models of cs2620-s26-psets

TLA+ modules, TLC configurations and TLAPS proofs for the code of this
repository: a coroutine library (`src/cotamer`) and the distributed programs
that run on it (`src/pset2`: Chandra-Toueg consensus; `src/pset3`: Pancy, a
versioned key-value service, its clients and its replication; `src/examples`: a
note server), and the RPC game of `src/pset1`.

Every definition is translated from the source; `PROJECT.json` maps each to its
file and lines. Definitions named `Wrong...` are mistakes that the code could
have made and does not make. They are used nowhere; each one, put in the place of
the definition it imitates, violates the property that `PROJECT.json` names
("mutants"), which shows that the property says something about the code.

To check everything: `tlc -config X.cfg M` for each run of `PROJECT.json`, and
`tlapm M.tla` for the modules named `...Proofs`.

## 1. The system

### Cotamer (`src/cotamer`)

| component | state | operations | interacts with |
|---|---|---|---|
| driver (event loop) `cotamer.cc`, `cotamer_impl.hh` | queues `asap_`, `timed_`, `migrate_` (other threads' events), `guard_count_`, `keepalives_`, `clearing_`, the atomic `df_` lock word and `wakefd_` | `loop`, `asap`, `at`, `keepalive`, `driver_guard`, `clear`, `migrate_asap` | events push coroutines to it, from any thread; `watch_fds` blocks |
| events, quorums `cotamer_impl.hh` | listeners, flags, reference count, members of a quorum | `trigger`, `any`, `all`, `attempt`, `first` | drivers, tasks |
| tasks `cotamer_impl.hh`, `cotamer.cc` | coroutine, value, resolution point, forwarded task | start, `co_await`, `resolve`, `forward`, detach, destroy | events |
| mutex `cotamer.hh`, `cotamer.cc` | the word `latch_`, the queue `waiters_` | `lock`, `lock_shared`, `try_*`, `unlock*`, and a waiter that gives up | events of coroutines on several drivers |
| descriptors `io.cc`, `io.hh` | `fd_body` (count, drivers, lock), watch lists with epochs, kernel registrations | open, copy, drop, close, watch, `watch_fds`; read, write, connect, listen | driver, kernel, other drivers' threads |
| HTTP, curl | parser, tickets (two mutexes), receive buffer; sockets, watches and timer of libcurl | send, receive, parse a URL; callbacks | descriptors, tasks, mutex |
| timer heap, circular integers, small vector | arrays | push, pop, cull | driver, events |

Hard: threads trigger events of a driver that is about to block or to return;
coroutines are cancelled between an event and their resumption; the mutex's fast
paths race with its queue; a task that takes a message must not be resumed for a race
that is already lost; a descriptor's number is reused while drivers, the kernel and
libcurl still name the old file; the kernel moves part of a message and then fails.

### Consensus (`src/pset2`)

N `server`s run Chandra-Toueg consensus over a simulated network
(`netsim.hh`: a port per process with a queue, a link per pair with a random
delay, so that messages overtake each other). A round has a leader `round % N`;
the phases are PREPARE, PROPOSE, ACK, DECIDE. A server that waits for a proposal
also waits for a 1.5 s failure detector and cancels the `receive`
(`cot::attempt`). `receive` stashes messages of later rounds and phases and
drops those of earlier rounds. Nancy receives a majority of DECIDEs and compares
them. `ctstubborn.cc` is a variant with servers that do not follow the protocol.

Hard: late and early messages, false suspicions, the cancelled `receive`, late
DECIDEs; agreement over any number of rounds.

### Pancy (`src/pset3`, again over another simulator in `src/pset3-altnet`)

| component | state | operations |
|---|---|---|
| database `pancydb.*` | `next_version_`, `map_`, `recent_removes_` | `process_req` (get, put, cas, remove with a version to match), `diff` |
| lock-sequence clients `lockseq_model.*`, `client_model.*` | coroutine per client: phase, serial, the group's values, the lock's version | lock (cas), write (put), clear (remove), unlock (remove), each repeated on timeout under the same serial |
| simulator `netsim.hh` | ports, channels (FIFO, lossy), versions | send, receive, disconnect |
| services `pt-single.cc`, `pt-backup.cc`, `pt-paxos.cc` | database(s), serials, expected serial, pending acknowledgement | forward, acknowledge, retry, take over |

Hard: responses lost or late, old copies of a request processed after a newer
one, a primary that fails between its backup's acknowledgement and its response,
stale acknowledgements that cause more copies.

### RPC game (`src/pset1`)

A client that sends numbered gRPC calls; a server whose handler threads process them in
the order of their serials, under a mutex and a condition variable, and hash both
streams; the checksums at the end are read without the mutex.

### Examples (`src/examples`)

A note server, `jsond`, over HTTP with pipelining, and over UDP with one datagram each
way, and their clients.

Hard: which response belongs to which call when calls are pipelined, writes stop in the
middle and either side may close; datagrams lost or late.

## 2. Modules

| module | models | uses |
|---|---|---|
| `Consensus` | what consensus promises: each server decides at most once, all alike | |
| `CTConsensus` | `server::consensus`, the network, the failure detector, Nancy | implements `Consensus` |
| `CTStubborn` | `ctstubborn.cc`: no stash, and servers that cling to their color | extends `CTConsensus` |
| `Mailbox` | what `consensus()` relies on: `receive` returns a wanted message or a DECIDE, none is lost while it can still be wanted | |
| `StashReceive` | `server::receive`, `port::receive`, the stash, cancellation | implements `Mailbox` |
| `PancyDB` | the database as operators | |
| `PancyReplicas` | two databases fed from one log, and `diff` | `PancyDB` |
| `LockSeq` | clients, lossy channels, one server | instance of `PancyDB` |
| `PrimaryBackup` | both replicas of `pset3/pt-backup.cc`, any clients | |
| `NetLink` | a channel of `pset3/netsim.hh` that is disconnected and connected again, ports with several receivers | |
| `AltNet`, `AltBackup` | `pset3-altnet`: request and reply channels, clients with redirections, both replicas | |
| `CotMutex` | `cotamer::mutex` | |
| `DriverLoop` | `driver::loop` and the wake-up between threads | |
| `EventQuorum` | `event_body`, `quorum_event_body`, `event_handle`, shared by threads | |
| `TaskResolve` | tasks: await, resolution points, `forward`, `attempt`, `first` | |
| `FdWatch` | `fd_body`, `fd_event_set`, the batches of epoll, close across drivers | |
| `IoLoops` | `read`, `write`, `writev`, `sendmsg`, `recvmsg` | |
| `Dial` | lookups in a thread, `tcp_connect`, `tcp_listen_all` and their like | |
| `TimerQueue` | what the driver expects of its timers | |
| `TimerHeap` | `timer_heap` and `circular_int` | implements `TimerQueue` |
| `CurlDriver` | the callbacks and tasks around libcurl's multi interface | |
| `HttpConn` | one HTTP connection: `http_parser` at both ends, `rpc` and `handle_connection` | `NotesDB` |
| `UrlInfo` | `http_message::make_info`: the URL's fields and parameters, and their cache | |
| `NotesDB`, `UdpNotes` | `jsond.cc`'s `handle`; the server and client over UDP | |
| `RpcGame` | client, handler threads and server of `pset1` | |
| `Waits`, `Replicas`, `Sources`, `Services` | no code of their own: programs that share a run, side by side, and that are proved about | `TaskResolve`, `StashReceive`; `CTStubborn`, `AltBackup`, `PancyReplicas`; `NetLink`, `FdWatch`, `CurlDriver`, `Dial`; `DriverLoop`, `HttpConn`, `UdpNotes`, `RpcGame` |
| `...Proofs` | theorems about the module of that name | that module, TLAPS |
| `MC...` | instances for the checks | those modules |

How state and actions correspond to the code:

**CTConsensus.** Per server: `pc` (where the coroutine `consensus()` is
suspended), `round`, `color`, `colorRound`, `decided`, and `heard`/`acked`,
the servers counted by `received_prepare`, `total` and `positive`. `net` is
everything sent and not yet received; since a receive can take any message of it
that the server wants, link delays need no further state. `Unread` drops from
`net` what `receive` would drop when it found it (messages of earlier rounds).
`Prepare`, `ReceivePrepare`, `Propose`, `ReceivePropose`, `Suspect`, `ReceiveAck`,
`CountAcks`, `ReceiveDecide`, `Announce` are the segments of `consensus()` between
two awaits. `NancyReceive` and `NancyStop` are `nancy()`; an error or an approval
ends the program (`Cleared`). `votes` and `proposals` are history.

`CTConsensus` takes a message from the network in one step. That this is what
`receive` amounts to, with its stash, its size read before an await and its
cancellation, is the claim of `StashReceive`, for one server: `ScanStash` is
the loop over the stash, `ScanPort` and `Suspend` the loop over the port,
`Cancel` is `attempt` whose timer won.

**CTStubborn.** The same program without a stash: `Discard` takes a message that is not
wanted. `stubborn` is the set of servers with the flag; each step that the marked lines
change has a counterpart here, the others are shared. A stubborn leader counts PREPAREs
and ignores their colors, so that agreement cannot be expected where somebody is stubborn: there
the claim is that a stubborn server keeps its color, and agreement is claimed where nobody is,
though messages are lost.

**PancyDB, PancyReplicas.** `After(db, r)` and `Answer(db, r)` are `process_req`;
`Diff` is `pancydb::diff`. A database is a record (`next`, `map`, `removes`).
`PancyReplicas` applies a sequence of requests to a leader and later to a
follower, which may skip one: `diff` has to tell a follower that is behind from
one that is wrong.

**LockSeq.** `pc[c]` is the phase, `Send`, `Timeout`, and the four `...Answer`
operators are what the coroutine does with the response of each phase.
`inbox` is a FIFO of requests with their serials, `answers[c]` holds the
responses under the client's current serial (others are skipped by
`receive_response`). `Serve` is the server's loop over `DB!After`.

**PrimaryBackup.** One action per await of `primary()` and `backup()`.
`primarydb` and `backupdb` are the sequences of requests processed, since
`process_req` is a function of them; a response is identified by the position of
its request. `received` and `responses` are history.

**NetLink.** `air` holds the coroutines of `send_after` that wait, each with the version it
read; `Arrive` is what one does when it wakes. A receiver is idle, looks at the queue,
waits for the port's event or has been woken by it (`receivable_` is triggered once for
all that wait and armed again by the next to wait).

**AltNet, AltBackup.** A channel pair is a client, a replica and the port that replies go to;
`FindChannel` and `Register` are the registry. `TryAgain` is a client's choice after a
timeout. In `BackupServe` both receives of `first` may have taken a message, of which the
client's is dropped. Databases are sequences of requests, as in `PrimaryBackup`. `floor` and
`accepted` are history: the newest position that any client had accepted when a request began.

**CotMutex.** A request goes through `new, locking, waiting, granted, held,
releasing, unlocking, done`, or is `gone` (cancelled while it waited), or `lost`
(cancelled after it was given the lock). `seen[r]` is the word an `unlock` has
loaded. The latch excludes everybody but those who cancel: `Walk` is one
iteration of `notify_locked`, which is why it is an action.

**DriverLoop.** `pc` is the place in `loop()`: import migrated events, run asap
events, test for exit, compute the timeout, publish `wakefd_` and look again,
block, drain, run timers. `thread[t]` is another thread's place in
`trigger_unlock`, `migrate_asap` and `migrate_wake`; `hold[t]` says whether the coroutine
that awaits its event is held by a guard, a keepalive or nothing.

**EventQuorum.** `event[b]` and `quorum[q]` are the fields of the two body
classes (`none` is the flag `ef_empty_members` as the last `unlock` stored it),
`held[p][b]` the handles of a thread, `stack[p]` the calls it is inside. Two
stack frames of the code that hold no lock between them are two steps: between
`Deref`, which reads the flags, and `SoftDeref` or `HardDeref` any other thread may
run; so may it between two members in `CullMember`, though the quorum stays locked.
`called` and `deletes` are history.

**TaskResolve.** `task[t]` has the promise's fields (`resolving_`, `forwarded_`, the
awaiter) and the place where the coroutine is suspended; `stack` is the C++ stack of
coroutines and of calls of `resolve()`, whose three places are the actions `ResolveLoop`,
`ResolveForwarded`, `ResolveAgain`. `Look` and `Take` are `receive_with_id` before and after
its resolution point; `consumed` is history. `Forwarders` is the chain of awaiters that
`resolution_point` and `active_awaiter` climb, and `Below` what a frame owns, both as sets.

**FdWatch.** `body[b]` is an `fd_body`, `rec[t]` the driver's `fdrec` for the one number that
all bodies get, `kern[t]` what its kernel notifier has registered, `batch[t]` an event that the
kernel has reported and `watch_fds` not yet dispatched. `op[t]` is a call that has been begun:
`Subtract` is the second atomic step of `deref`, `CloseLocked`, `Tell` and `NotifyClose` are
the parts of a close with and without the body's lock. `Watched` is `fd_event_set::watch`,
`Update` is `pop_update` with `apply_fd_update`, `Wait` and `Dispatch` are `watch_fds`.

**IoLoops.** Bytes are numbered; `moved` is what the kernel has transferred, in order. `iov`,
`iovcnt`, `iovcopy` and `mh` are the code's: `Advance` is `update_iovec`, with its copy made at
the first part that is moved in part. **Dial.** `res` is the state shared with the lookup's
thread: `found`, `freed` the address list, `open` the sockets, `f` the one being tried.

**TimerHeap.** `es` is the array; an element has a time, the order (a `circular_int` of 4 bits,
not 32, so that it wraps around) and a number that says how many were inserted up to it,
which is what the order stands for. `Insert` includes the cull of a large heap.

**CurlDriver.** `inside` is the call of libcurl that is under way, within which `SocketCb`,
`OpenSocket`, `CloseSocket` and `TimerCb` happen in any order that libcurl's documentation allows.
`fds`, `watches`, `current`, `expiry`, `next` are the driver's members; `curl`, `want` and `opened`
are libcurl's own view.

**HttpConn.** `writers` and `readers` are the queues of the client's `m_[1]` and `m_[0]`, a ticket
being a place in the second. A message is two parts, `cin` and `sin` are the parsers' receive
buffers. `sends` are the responses of the server that are under way. **NotesDB.** `Handle` is
`handle` over what it looks at in a request. **UdpNotes.** `air` is the network, `serving[s]` the
response that a listening coroutine has to send. **UrlInfo.** `Params` and `Fields` are the two
halves of `make_info`, loop by loop; `Ask` is a call that needs the parameters, `SetUrl` one that
changes the URL.

**RpcGame.** `handler[c]` is the handler thread of c's call: waiting for its turn under the mutex,
between taking the turn and the reply, or inside Done between the two checksums.

## 3. Runs

A run whose module is `MC...` checks several systems that have nothing to do with each
other: the variable `on` is chosen initially and never changes, all but the chosen system
stay in their initial state, and the state space is the sum of theirs.

| run | instance | distinct states | shows |
|---|---|---|---|
| `ct` | N = 3, 2 colors, 1 suspicion | 6.8 * 10^5 | agreement, locking, decisions backed by majorities, each server counted once, Nancy, who approves at last; `CTConsensus` implements `Consensus` |
| `receive` | stash: any of 5 messages, 3 rounds; tasks: `attempt(first(receive(), receive()), timeout)` or a lone `receive()`, 3 messages, 2 timeouts | 1.3 * 10^5 | no message is lost, repeated or overlooked, whatever is cancelled; no coroutine is resumed twice or before what it awaits is done; `StashReceive` implements `Mailbox`; a receive ends if its message is sent |
| `replicas` | diff: 2 keys, 2 values, 1 remembered remove, versions below 6; altnet: 2 clients, 2 serials each, 3 sends, 1 loss, 1 early timeout; stubborn: N = 3, at most one stubborn, 1 suspicion, 2 rounds | 8.7 * 10^5 | `diff` finds every difference at equal versions and never a false one; the clients of `pset3-altnet` see one history through the takeover; losing messages instead of stashing them costs no agreement, and a stubborn server keeps its color |
| `lockseq` | 2 clients, 2 sequences of up to 3 values, 2 losses, 1 early timeout | 4.0 * 10^5 | a client in its write or clear phase has the lock; no late request of an earlier sequence takes effect; the group always passes the check the program runs; a sequence that got its lock ends |
| `backup` | 2 requests, 4 sends, 2 losses, 2 early retries; quorums: 2 threads, q1 of e1 and e2, q2 of q1 and e1, 1 copied handle | 6.1 * 10^5 | exactly once, durability over takeover, the assertion, no storm of copies; a body is deleted once, last and at last; quorums trigger when they should; no wait or spin without end |
| `mutex` | 4 requests of any kind | 3.9 * 10^5 | exclusion, no lost wakeup, no barging; waiters are served |
| `sources` | fd: 2 threads, 2 bodies, 2 watches, 1 copy; curl: 2 sockets, 3 files, 3 timers; heap: 10 insertions of 2 times, 4-bit order; io: 6 vectors, 2 waits; link: 2 ports, 2 receivers, 3 sends, 2 changes; dial: 3 addresses | 1.1 * 10^6 | what tasks wait for reaches them: see the module |
| `services` | loop: 2 threads, quota 2, 2 posts, 1 clear, 2 loops; HTTP: 2 coroutines, 2 calls each, 3 parts in a socket; UDP: 2 clients, 2 calls, 1 loss; RPC: 3 clients, 2 calls each; URLs of up to 7 characters | 2.5 * 10^5 | no wakeup lost, guarded coroutines run, the loop returns; responses meet their callers; checksums agree; every HTTP call ends, and every RPC call unless its serial has passed; URLs mean what they should |
| `lockseq_contention`, `driver_quota`, `quorum_delete`, `fd_last_ref` | see section 6 | | a violation each |

The bounds and why they are enough. N = 3 is the smallest number that
`ctconsensus` accepts (N > 2); majorities are two of three, one suspicion makes a
round fail with a proposal on its way, so that two leaders propose, and the
rounds that follow are bounded by the suspicions alone. Two colors are all that
agreement can tell apart. Three rounds and two types let a message be early, on
time and late in `StashReceive`. One remembered remove and four changes fill and
overflow `recent_removes_`. In `LockSeq` two losses and one early timeout give a
lost request, a lost response and a copy that is processed late; two sequences,
of one client or of two, of which the second is shorter by one or two values,
give the clear phase a value to remove and one more behind a remove whose answer
was lost. In `PrimaryBackup`
two losses lose a request and its retry, or an acknowledgement; two early
retries leave two copies on their way. In `AltBackup` three sends, one loss, one early timeout and two
serials give a stale reply under a new serial and a request that both replicas get. Four
requests for the mutex are a holder
that unlocks, two in the queue and one on a fast path. A quota of two lets the
asap loop stop early. In the quorums the event e1 belongs to q2 twice, directly and
through q1: its two listeners are informed one after the other, the second after
the first may have triggered q2, and culling q2 may drop the last handle to q1; one
copied handle lets both threads drop the same quorum while a member triggers.
In `TaskResolve` three messages and two timeouts let the race be lost with one child past
its resolution point and the message be received again by the other path. In `FdWatch` a
second body that gets the number of the first is what the epochs are for. In `TimerHeap` the
array has three levels, a cull (`CullSize` 8) can leave a hole under another parent, and orders begin
at 12 of 16, so that they wrap around in every long run. In `NetLink` two changes are a
disconnection and a reconnection with a message in the air. In `HttpConn` three parts are less than
two messages, so that a write blocks with the other side's write blocked. Three RPC clients
are one that is killed and two that take each other's serials.
`TypeOK` of the modules with proofs is proved and not in
their runs. For those modules the theorems remove the bounds.

Deadlock is checked in `ct`. The others stop where
the program has nothing left to do (every request made, all clients done or
waiting, `loop()` returned, or a bound reached).

Symmetry (of the two clients of `AltBackup`) is used in `replicas` only, which checks no
liveness and no action property.

Each property has at least one mutant; a property that is the conjunction of several parts
has one for each part that a different mistake would break.

## 4. Fairness

* `CTConsensus`: each server and Nancy keep taking steps that need no timeout. The
  event loop resumes every coroutine whose event triggered, and every link
  delivers. No timer is assumed to fire; only finitely many do, which is the
  eventual accuracy that the algorithm requires of its failure detector
  (with a fixed 1.5 s timeout and delays that average far less, the program has it).
* `StashReceive`: links deliver; a `receive` that can go on goes on. `Cancel` and
  `Advance` are not fair.
* `TaskResolve`: the thread executes what is on its stack, and a coroutine whose event
  has triggered is resumed. Neither a message nor a timeout has to come.
* `LockSeq`: the server serves; a client goes on with an answer or a timeout
  (its timer always fires). No one has to begin a sequence.
* `PrimaryBackup`: each replica goes on when it has a message or a timeout of the
  primary's 1 s timer. The takeover is not assumed: the 5 s timer starts again at
  every message.
* `CotMutex`: threads run and drivers resume coroutines; holders unlock. Nobody has to ask, or to give up.
* `EventQuorum`: a thread goes on with a call it is inside. Weak fairness is enough
  for the spin locks, since calls are few and each holds a lock for a bounded time.
* `DriverLoop`: the loop runs, weakly. Strong fairness for a timer that is found
  due again and again, and for another thread that may acquire the driver's
  spin lock again and again: the operating system schedules it, and the driver
  holds that lock for a few instructions only. The one-hour timeout of a driver
  that waits for other threads is not fair: wakeups must not depend on it.
* `RpcGame`: clients and handler threads run, the server shuts down and exits when it can.
  Killing a client is not fair.
* `HttpConn`: the coroutines on both sides run when the socket lets them; nobody has to
  make a call or to hang up.

The other modules have safety properties only, and no fairness. The run `receive` has one weak
fairness for all tasks and the run `services` one for the RPC game, whose bounded instances never
come back to a state.

## 5. Proofs

For every number of servers, colors and suspicions (`CTAssumption`: N > 2,
`NoColor` is no color):

* `CTConsensusProofs`: `TypeOK`, `Agreement`, `Validity`, `Locking` (its parts `Locked`,
  `DecisionBacked`, `ColorOnlyAdvances`), `NancyNeverErrs`, and that `CTConsensus`
  implements `Consensus`. None of these is inductive. `IInv` adds what ties the
  messages to the history: a server votes at most once in a round and for the one
  proposal of that round's leader (`VoteInv`, `ProposalInv`), a PREPARE or an
  ACK on its way tells what its sender had accepted or answered when it sent it
  (`MessageInv`), a server's phase tells what it has decided and proposed (`PhaseInv`), and
  those a leader has counted have moved on and accepted nothing since (`CountInv`). The heart is that
  no leader proposes a color other than one chosen before. Its majority of
  PREPAREs meets the majority that accepted; the PREPARE of a server in both
  carries a round not lower than the chosen one, so the newest color among
  those heard was accepted at or after that round, and by induction over
  rounds, kept in the invariant as a statement about all proposals, is the chosen
  one. For `CountedOnce`, `OnceInv` adds that a server sends its PREPARE and its ACK of
  a round once, and only before it has left the phase (`SentOnce`), so that a leader that has
  taken one finds no other of that sender (`HeardOnce`): the counters count servers.
* `PrimaryBackupProofs`, for any set of requests and any number of sends, losses and
  retries: `TypeOK`, `ExactlyOnce`, `Durable`, `Copies` (`AssertHolds` and `NoStorm`). `IInv` adds that
  the serials on their way are sorted and end at the current one (`Sorted`),
  that each copy carries the request received under its serial (`InFlight`), and
  how many copies there can be (`Counts`, `NoStorm`).
* `CotMutexProofs`, for any set of coroutines: `TypeOK`, `Exclusion`, `Orderly` (`NoLostWakeup`
  and `NoBarging`). `IInv` adds that the word counts the holders exactly (`Counts`), that
  the queue holds each waiting request once (`Queue`), what a walk under the
  latch has already established (`Walks`), and what the word says of the queue when
  the latch is free (`Unlatched`): without it a fast path could take the lock
  past a waiter.
* `ServicesProofs`, for the driver, any finite set of threads, any quota and any number of
  posts: `TypeOK`, `HandedOver` (`NoLostWake`, `QueuedOnce`). `IInv` adds `Published`: from the
  second look at the queue on, `wakefd_` is visible to every thread that pushes. `Queued` says that
  a thread's event has exactly one place in one of the two queues from its push until its coroutine
  runs, and none before and after.
* `SourcesProofs`, for the links, any ports and receivers and any number of messages and of
  changes of versions: `Delivers` (`NoCrossing`, `Ordered`, `NobodyWaits`). `IInv` adds that what is
  in the air is strictly ordered and has the present version only if it may still arrive (`InAir`),
  that what reached a port was sent before all that is in the air (`Behind`), and that where a
  receiver waits the event is not triggered and the queue is empty (`Waiting`).
* `SourcesProofs`, for descriptors, any finite set of threads and any number of bodies, copies and
  watches: `FdServed` (`RightFile`, `Registered`, `ClosedAtRest`, `KernelClean`, `DeletedLast`).
  `FdInv` adds that a body's count is that of its holders and of those who have yet to subtract
  (`Count`), so that who closes as the last reference is alone; that drivers and bodies know each
  other, and a body has the number until its file is closed (`File`, `Owned`); that each live
  watch is in one driver's list (`Lists`); that what the kernel has is of the driver's epoch, and
  is all that is waited for unless the driver is dirty (`Known`); that an event whose epoch is still
  the driver's is about its body (`Event`); and that a driver of a closed body has been told or
  is about to be (`Told`). Nothing is assumed of which of two droppers closes: the theorem is about
  the code with the flaw that `fd_last_ref` shows.
* `SourcesProofs`, for libcurl's driver, any sockets and transfers: `CurlServed` (`Attended`,
  `TaskAlive`, `TimerKept`). `CurlInv` says of each moment within a call of libcurl what these say
  of the moments between calls: only the task on the stack may be left with nothing to
  watch (`SocketKept`, `OnStack`), and of a timeout that libcurl has given up only an earlier
  number is armed (`Timer`).
* `SourcesProofs`, for connections, any number of addresses: `Dialed` (`Released`, `Usable`).
  `DialInv` adds what thread and coroutine know of each other by the state they share
  (`Lookups`), and that the addresses before the present one are those that failed or are bound
  (`Tried`).
* `ReplicasProofs`, for the stubborn variant: `StubbornSafe` (`PliantAgreement` and `Stubbornness`).
  Where nobody is stubborn, every step is one of `CTConsensus` or the loss of a message, and the
  `IInv` above outlasts losses, since it says what a message tells and never that one is there.
* `ReplicasProofs`, for the replicas of `AltBackup`, any clients (0 and 1 are replicas, -1 is none)
  and any number of requests, copies, losses and retries: `Replicated` (`Linearizable` and
  `PrimaryFollows`). `AltInv` adds that what is forwarded is the entry of the primary's log of that
  serial, the log being its database and the request it works on (`LogInv`); that the backup has
  applied a prefix of this log, from the primary's database up to `primarySerial`, and nothing
  else until it serves (`FollowInv`); that every response on its way names a place of the backup's
  database that holds its request (`ResponseInv`); and that a client's present request stands only
  behind what had been accepted when it began (`FloorInv`), since no copy of it existed before
  (`KnownInv`). The acknowledgement that the primary waits for is then its own serial, so that
  what it answers the backup has applied, and the takeover loses nothing that anybody was told.
* `ReplicasProofs`, for `diff`, any keys, values and requests, any skew and any positive number of
  removes that are remembered: `DiffExact` (`NoFalseAlarm`, `ZeroSkewIsExact`,
  `VersionsIdentifyWrites`). `DbOk` says that a database's versions were handed out, each for one key,
  and that its removes are sorted and of keys that were there. `DiffInv` adds the databases through
  which the leader went from where the follower is (`History`), and that the leader follows each
  of them (`Follows`): a key is as it was then, or was put since, or was removed since, and then its
  latest remove is the first of that key that is remembered, unless all of that key are
  forgotten and the oldest remembered is later than the follower. These are the cases of `diff`.
* `LockSeqProofs`, for any clients (at least one, as `nclients_` is; `Empty` is no client's
  value), any length and number of sequences, and any losses and early timeouts: `TypeOK`,
  `LockRespected` (`HoldsLock`, `NoLateWrites`, `ThrowsOnlyInPhase1`), `AcceptedByCheck`. The
  first invariant, `Respected`, is about the lock: the requests of a client are served in the
  order of their serials (`OrderInv`), so that once one serial is answered no copy of an
  earlier one is left (`AnswerInv`); an unlock names a version that has passed unless it is the
  holder's own (`RequestInv`), and what a first attempt finds is what its client left
  (`UntriedInv`). The second, `InShape`, is about the values: the holder's prefix and behind it the
  rest of the previous sequence (`ShapeInv`), of which every remove takes the first or finds
  nothing (`PlaceInv`, `NumberInv`, `FreshInv`).
* `ServicesProofs`, for the RPC game, any set of clients and any number of calls: `Agreed`
  (`NoMismatch` and `ChecksumAlone`). Its invariant adds that at most one client owns the server's
  hashes, the one whose serial 1 was processed, and that they are that client's own up to the
  call under way (`OwnInv`); all others wait with serial 1 for ever. Then whoever asks for the
  checksums is the owner and has no call under way (`Quiet`).
* `ServicesProofs`, for the note server, any coroutines, requests, number of calls, capacity of a
  socket, UDP clients and losses: `Paired` (`Paired`, `FailsUnhandled` and `SameNote` of `HttpConn`,
  `UdpPaired` of `UdpNotes`). The queue of those who wait for the read lock is the pairing:
  `HttpInv` says that it is, in order, the calls whose responses the client's parser has or the
  socket holds, then those the server is writing or has handled, then those whose requests are in the
  server's parser or in the other socket, of which the last may still be on its way out. What
  failed on either side is behind all that was handled (`FailedOk`), and each id has the author that
  it got when it was created (`NotesOk`). Over UDP, a call has at most one datagram or one
  response under way, which carries its tag (`UdpInv`).
* `WaitsProofs`, for tasks, any tree of sources, wraps and races and any number of messages and
  timeouts: `NothingLostHolds`, `SoundResumeHolds`. Of a state, `Inv` says what a record and
  those of a task's children tell of each other (`Records`): a task exists where its parent's
  coroutine has called it, has an awaiter where that is suspended for it, and is `resolving` only
  when done, at a resolution point or forwarding. It says what frames may stand on the C++ stack
  above one another (`Stacked`), and that a coroutine that runs, one that `resolve()` drives and one
  whose forwarded task is done while it waits each have their frame there (`Framed`), so that no one
  else resumes them. And a task below a race gets beyond a resolution point, or is
  done, only once the race has chosen the child it belongs to (`Raced`): what a race destroys holds
  no message, whichever children and events it has. `TasksInvariance` adds `NothingLost` itself.
* `WaitsProofs`, for `StashReceive`, any messages, types and rounds: `ImplementsMailbox`. `StashInv`
  adds that no message is in two places (`Apart`), that of the stash only the first `stashLeft`
  entries can still hold something the present call wants (`Examined`), and that a suspended
  receive has none left to examine (`Asleep`). Under the mapping of `mail` to what queue and stash
  hold and can still be wanted, a step that returns a message is `Mailbox`'s receive of it, the
  delivery of one its arrival, and every other a stutter.

Assumed are the `ASSUME`s of the modules only, which the runs evaluate. Most say what kind of
value a constant is. `TreeAssumption` says that frames own each other as a tree, which C++ sees to.
`ForwardAssumption` is about the program that uses tasks: wraps under a race say `forward`, as
netsim's `receive` does, and outside of races a task that forwards does not forward one that
forwards; section 6 says what happens otherwise. `NotesAssumption` says what the note
server's clients may ask for, and that a UDP client has one socket of the server for its peer.

Only model-checked: all liveness (`EventuallyApproved`, `ReceiveEnds`, both `WaitEnds`,
`CallsReturn`, `SequenceEnds`, `WaitersServed`, `GuardedRuns`, `LoopReturns`, `CallsEnd`), and all
properties of `EventQuorum`, `IoLoops`, `TimerHeap` and `UrlInfo`.
TLAPS does not prove liveness under fairness; `IoLoops`' vectors, `TimerHeap`'s
culls and `UrlInfo` are folds and recursions over data.

## 6. Where code and words disagree

* **`lockseq_contention`**: `lockseq_model.cc:88` throws when the lock is held by
  another client, where the comments around it say "delay then retry"; the test is
  inverted. With two clients for one group the loser's coroutine ends.
* **`driver_quota`**: `cotamer.cc:116` leaves the loop without asking whether `asap_`
  is empty; the asap loop before it runs 4096 events at most. With 4097
  coroutines ready and nothing else pending, `loop()` returns and one never runs.
* **`quorum_delete`**: `hard_deref` (`cotamer_impl.hh:671`) gives up its reference
  under the lock and unlocks afterwards; `~event_handle` (836) deletes without a
  look at the lock when the flags, which may have changed since the first thread
  chose `hard_deref`, say that the quorum has no members. Two threads are enough: one
  drops its handle to `any(a, b)`, the other triggers a. The store of `unlock` is
  the only late access (`DeletedLast`), and the `backup` run goes on as if it fell
  on memory not yet used again.
* **`fd_last_ref`**: `fd_body::deref` (`cotamer_impl.hh:125`) loads the count and then
  subtracts. Two threads that drop the last two references both load 2: the count
  ends at 0 and nobody closes the file, where the header says that the last reference does.

Each of the other properties in the same module is stated and checked with the
code as it is, flaw included. What follows has no run of its own:

* `clear()` (`cotamer_impl.hh:1426`) resets the count of guards while the guard of a
  coroutine that waits for another thread still exists; `GuardedRuns` and
  `LoopReturns` are therefore stated for behaviours without a `clear()`.
* `forward()` matters: with `Forwarding = {}` `NothingLost` is violated. The `receive()` of
  `pset3/netsim.hh:218` has it. That of `pset3-altnet/netsim.hh:125` has not, so that the
  comment at 117 ("to ensure our return value will be used") holds for `receive_from()` only;
  `AltBackup` lets a message be dropped there.* `prepare_awaiter` (`cotamer_impl.hh:1045-1055`) says "Awaitee can be resolving only if awaitee is
  blocked at a resolution point, but awaitee was subject to `cotamer::forward()`". With a `forward`
  around a `forward` the awaitee may be resolving because it passes on another's point. Let a
  coroutine wait for an event, then `co_await forward(C())`, where C does `co_await forward(R())` and R
  stops at a resolution point: C is resumed although R is not done, and reads a value that is not
  there (`std::bad_variant_access`). `SoundResume` is violated in such an instance; no
  program of the repository is one, and `ForwardAssumption` excludes them.
* A watch begun on a body that another thread closes meanwhile may never trigger
  (`io.cc:118`); `FdWatch` stops there (`late`), and its properties are about programs
  that do not. `close` uses the drivers it has copied after it unlocks, so that drivers
  must outlive the bodies they watch.
* A message that is cleared and reused keeps the text of its old headers
  (`http.cc:201` clears `hpairs_` and not `headers_`), and the copy constructor
  (`http.hh:308`) copies the text and not `hpairs_`. `send_response_chunk` (`http.cc:648`)
  writes the length of a chunk in decimal where HTTP has it in hexadecimal. An error of a
  send is not reported: the receive that follows fails.
* `make_info` never sets `info_url`, so the fields are split again at each call; and
  `s2 - s >= 2` (`http.cc:308`) lets an escape's second digit be looked for at the end of the
  query, where there is none (`Parsed` holds).
* A PUT with a good title and a bad body (`jsond.cc:198-209`) is refused and has changed
  the title. `SameNote` and `Paired` hold all the same.
* A second RPC client, which numbers its calls from 1 again, waits for ever, and so does the server's
  shutdown (`Concludes` in `CallsEnd`). A UDP client whose datagram is lost waits for ever.
* In both `pt-backup.cc`, every client's message that the backup redirects starts the
  takeover's 5 s timer again: with a client that keeps asking, it may never take over.

## 7. Not modelled

* Time. Timers fire at any moment; what depends on durations (that a takeover
  comes after failure, that suspicion is rare) is a bound or an assumption.
* Memory order. Atomic operations are taken in one total order. `mutex` and
  `df_` use acquire and release on one word each, `wakefd_` sequential
  consistency, which is what their protocols need. `~event_handle` reads `flags_`
  relaxed; an older value can only lack `ef_empty_members` and lead to the locked way.
* `interest{}` in quorums, which adds members late; detached tasks, and tasks of several
  drivers.
* `loop()` in poll mode and in virtual time, the destruction of a driver, and what the wake-up
  descriptor shares with other descriptors (`FdWatch` lets every wait end, `DriverLoop` says when).
* `accept`, pipes, `set_nonblocking` and its like; a failure of `fcntl` or `setsockopt` in `Dial`.
* HTTP headers, bodies and chunks, the formatting of responses; connections that are reset with
  data on their way. llhttp and libcurl are external and may do what their interface allows.
* Duplicated datagrams in `UdpNotes`; the duplicates of the other networks are retries.
* The `-B` option of `pt-backup` (a deliberate error) and `pt-paxos.cc` (the
  starting point of an exercise, with no protocol in it).
* `ping.cc`, `consensusvis.py`, `utils`, containers, `httpd.cc` and the client over libcurl
  (its driver is `CurlDriver`); the runtime that `pset2` carries, an earlier and
  single-threaded copy of Cotamer.

## 8. Plan

Done, in order of importance: `CTConsensus` and `StashReceive`; `PancyDB`, `LockSeq`,
`PrimaryBackup`; `CotMutex`, `DriverLoop`, `EventQuorum`; `TaskResolve`, `FdWatch`, `AltBackup`;
`CTStubborn`, `RpcGame`, `NetLink`, `TimerHeap`; `IoLoops`, `Dial`, `HttpConn`, `CurlDriver`,
`UdpNotes`, `UrlInfo`. Next:

1. Proofs of `EventQuorum`'s deletions and quorums.
2. `accept` and `tcp_accept` beside `Dial`; HTTP headers, bodies and chunks in `HttpConn`.
3. Members that join a quorum late, and a `forward` around a `forward`.
4. `loop()` in poll mode and in virtual time.
5. The runtime of `pset2`, as a second implementation of what `TaskResolve` checks.
