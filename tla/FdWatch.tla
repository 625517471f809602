------------------------------ MODULE FdWatch ------------------------------
(***************************************************************************)
(* Cotamer file descriptors: the reference-counted fd_body that threads    *)
(* share (cotamer_impl.hh), the fd_event_set in which each thread's driver *)
(* keeps its watches (event_handle.hh), and the batches of epoll (io.cc).  *)
(* Closing a descriptor that other drivers watch is a protocol: the file   *)
(* stays open until each has dropped it from its kernel notifier.          *)
(*                                                                         *)
(* All bodies get the same number from the system, one after the other, so *)
(* that everything keyed by the number meets its reuse.  Atomic steps are  *)
(* those of fd_body's spin lock and of its count; between them the threads *)
(* interleave.  Drivers live as long as the program.  That a blocked       *)
(* driver is woken is DriverLoop's business: here waiting always ends.     *)
(*                                                                         *)
(* Once a thread has begun to watch a body that another thread closed      *)
(* under its hands (late), the code is lost and the model stops.           *)
(***************************************************************************)
EXTENDS Integers, FiniteSets

CONSTANTS Thread,     \* each with its driver
          MaxBodies,  \* bound: descriptors that are opened
          MaxCopies,  \* bound: copies of references
          MaxWatches  \* bound: calls of file_event()

Body == 1..MaxBodies
NoBody == 0
Mask == {"read", "write"}
Watch == 1..MaxWatches

VARIABLES
  os,     \* the body whose file has the number
  body,   \* body[b]: fd_body
  held,   \* held[t]: the bodies t has a strong reference to
  copies, \* copies made
  op,     \* op[t]: the fd operation t is in
  phase,  \* phase[t]: t's loop runs coroutines, is in epoll_wait, in a batch of
          \* events or about to import notifications: "run", "wait", "batch", "import"
  rec,    \* rec[t]: the driver's fdrec for the number
  watch,  \* watch[w]: the w-th watchrec
  kern,   \* kern[t]: what epoll knows, and fdctl_ says it knows
  batch,  \* batch[t]: the event of the batch about the number
  closes, \* the threads with an entry in migrate_fd_close_
  late

threadVars == <<held, op, phase>>
driverVars == <<rec, watch, kern>>
vars == <<os, body, copies, threadVars, driverVars, batch, closes, late>>

None == [at |-> "none", body |-> NoBody, mask |-> {}, who |-> {}]
Unborn == [state |-> "unborn", fd |-> FALSE, base |-> FALSE, ref |-> 0, drivers |-> {}]
Opened == [state |-> "live", fd |-> TRUE, base |-> TRUE, ref |-> 1, drivers |-> {}]

NewWatch == [state |-> "unused", body |-> NoBody, mask |-> {}]
Done == [NewWatch EXCEPT !.state = "done"]

EmptyEpoch == 0
UserEpoch == 2
NewRec == [body |-> NoBody, epoch |-> EmptyEpoch, list |-> {}, dirty |-> FALSE]

Unregistered == [mask |-> {}, epoch |-> EmptyEpoch, file |-> NoBody]

Init ==
  /\ os = NoBody /\ body = [b \in Body |-> Unborn]
  /\ held = [t \in Thread |-> {}] /\ copies = 0
  /\ op = [t \in Thread |-> None]
  /\ phase = [t \in Thread |-> "run"]
  /\ rec = [t \in Thread |-> NewRec]
  /\ watch = [w \in Watch |-> NewWatch]
  /\ kern = [t \in Thread |-> Unregistered]
  /\ batch = [t \in Thread |-> Unregistered]
  /\ closes = {}
  /\ late = FALSE

\* A coroutine of t runs, perhaps one that an earlier event of a batch resumed.
CanRun(t) == phase[t] \in {"run", "batch"} /\ op[t] = None

Enter(t, o) == op' = [op EXCEPT ![t] = o]

-----------------------------------------------------------------------------
Open(t, b) ==
  /\ CanRun(t) /\ os = NoBody
  /\ body[b].state = "unborn" /\ \A c \in 1..(b - 1) : body[c].state # "unborn"
  /\ os' = b
  /\ body' = [body EXCEPT ![b] = Opened]
  /\ held' = [held EXCEPT ![t] = @ \cup {b}]
  /\ UNCHANGED <<copies, op, phase, driverVars, batch, closes, late>>

\* The copy constructor; u gets the copy.
Copy(t, u, b) ==
  /\ CanRun(t) /\ b \in held[t] /\ b \notin held[u]
  /\ copies < MaxCopies /\ copies' = copies + 1
  /\ body' = [body EXCEPT ![b].ref = @ + 1]
  /\ held' = [held EXCEPT ![u] = @ \cup {b}]
  /\ UNCHANGED <<os, op, phase, driverVars, batch, closes, late>>

\* ~fd and deref(): load the count, then close or subtract.
Drop(t, b) ==
  /\ CanRun(t) /\ b \in held[t]
  /\ held' = [held EXCEPT ![t] = @ \ {b}]
  /\ Enter(t, [None EXCEPT !.at = IF body[b].ref = 1 THEN "deref" ELSE "subtract", !.body = b])
  /\ UNCHANGED <<copies, os, body, phase, driverVars, batch, closes, late>>

Subtract(t) ==
  /\ op[t].at = "subtract"
  /\ body' = [body EXCEPT ![op[t].body].ref = @ - 1]
  /\ Enter(t, None)
  /\ UNCHANGED <<copies, os, held, phase, driverVars, batch, closes, late>>

\* fd::close().  It does nothing to a body that is closed.
Close(t, b) ==
  /\ CanRun(t) /\ b \in held[t] /\ body[b].fd
  /\ Enter(t, [None EXCEPT !.at = "close", !.body = b])
  /\ UNCHANGED <<copies, os, body, held, phase, driverVars, batch, closes, late>>

\* Wrong: the file is closed at once, whoever watches it.
WrongCloseNow(x) == x.fd /\ x.base
\* fd_body::close: is the file closed here?  Otherwise by the last remove_listener.
CloseNow(x) == x.fd /\ x.base /\ x.drivers = {}

\* Wrong: only the first driver in the list is told.
WrongToTell(x) == IF x.fd /\ x.drivers # {} THEN {CHOOSE t \in x.drivers : TRUE} ELSE {}
\* The drivers to notify: those that watch, on the first close.
ToTell(x) == IF x.fd THEN x.drivers ELSE {}

\* Wrong: the drivers in the list are forgotten.
WrongDeletable(x, last) == last
\* fd_body::close: does the closing thread delete the body?  Otherwise the last
\* remove_listener does.
Deletable(x, last) == last /\ x.drivers = {}

\* The critical section of fd_body::close, the ::close and the delete after it.
CloseLocked(t) ==
  LET b == op[t].body
      x == body[b]
      last == op[t].at = "deref" IN
  /\ op[t].at \in {"deref", "close"}
  /\ body' = [body EXCEPT ![b] =
       [x EXCEPT !.fd = FALSE, !.base = @ /\ ~CloseNow(x),
                 !.ref = IF last THEN @ - 1 ELSE @,
                 !.state = IF Deletable(x, last) THEN "deleted" ELSE @]]
  /\ os' = IF CloseNow(x) THEN NoBody ELSE os
  /\ Enter(t, IF ToTell(x) = {} THEN None ELSE [None EXCEPT !.at = "tell", !.who = ToTell(x)])
  /\ UNCHANGED <<copies, held, phase, driverVars, batch, closes, late>>

\* fd_body::remove_listener, which closes the file and deletes the body after the last.
RemoveListener(t, b) ==
  LET rest == body[b].drivers \ {t} IN
  /\ body' = [body EXCEPT ![b] =
       [body[b] EXCEPT !.drivers = rest, !.base = @ /\ rest # {},
                 !.state = IF rest = {} /\ body[b].ref = 0 THEN "deleted" ELSE @]]
  /\ os' = IF rest = {} /\ body[b].base THEN NoBody ELSE os

\* Wrong: the epoch stays.
WrongClosedRec(r) == [NewRec EXCEPT !.epoch = r.epoch, !.dirty = TRUE]
\* fd_event_set::fd_close: what is left of an fdrec.
ClosedRec(r) == [NewRec EXCEPT !.epoch = r.epoch + 1, !.dirty = TRUE]

\* driver::notify_close: trigger all watches, leave the kernel notifier, then
\* the body.
NotifyClose(t) ==
  LET b == rec[t].body IN
  IF b # NoBody /\ ~body[b].fd
  THEN /\ watch' = [w \in Watch |-> IF w \in rec[t].list THEN Done ELSE watch[w]]
       /\ rec' = [rec EXCEPT ![t] = ClosedRec(@)]
       /\ kern' = [kern EXCEPT ![t] = Unregistered]
       /\ RemoveListener(t, b)
  ELSE UNCHANGED <<os, body, driverVars>>

\* The rest of fd_body::close: tell this thread's driver, or another's.
Tell(t, u) ==
  /\ op[t].at = "tell" /\ u \in op[t].who
  /\ Enter(t, IF op[t].who = {u} THEN None ELSE [op[t] EXCEPT !.who = @ \ {u}])
  /\ IF u = t THEN NotifyClose(t) /\ UNCHANGED closes
     ELSE closes' = closes \cup {u} /\ UNCHANGED <<os, body, driverVars>>
  /\ UNCHANGED <<copies, held, phase, batch, late>>

-----------------------------------------------------------------------------
\* file_event(): load the number, then watch(), which registers the driver with
\* the body unless it is.
FileEvent(t, b, m) ==
  /\ CanRun(t) /\ b \in held[t] /\ body[b].fd
  /\ Cardinality({w \in Watch : watch[w].state = "unused"})
       > Cardinality({u \in Thread : op[u].at = "watch"})
  /\ Enter(t, [None EXCEPT !.at = "watch", !.body = b, !.mask = {m}])
  /\ UNCHANGED <<copies, os, body, held, phase, driverVars, batch, closes, late>>

\* Wrong: the kernel notifier is not brought up to date for a known descriptor.
WrongWatched(r, b, w) == [r EXCEPT !.body = b, !.list = @ \cup {w}, !.dirty = @ \/ r.list = {}]
Watched(r, b, w) == [r EXCEPT !.body = b, !.list = @ \cup {w}, !.dirty = TRUE]

NextWatch == CHOOSE w \in Watch : watch[w].state = "unused"

AddWatch(t) ==
  LET b == op[t].body IN
  /\ op[t].at = "watch"
  /\ late' = (~body[b].fd /\ rec[t].body # b)
  /\ watch' = [watch EXCEPT ![NextWatch] = [state |-> "on", body |-> b, mask |-> op[t].mask]]
  /\ rec' = [rec EXCEPT ![t] = Watched(@, b, NextWatch)]
  /\ body' = [body EXCEPT ![b].drivers = @ \cup {t}]
  /\ Enter(t, None)
  /\ UNCHANGED <<copies, os, held, phase, kern, batch, closes>>

\* The coroutine that awaits a watch is cancelled: its event is empty.
Cancel(t, w) ==
  /\ CanRun(t) /\ w \in rec[t].list /\ watch[w].state = "on"
  /\ watch' = [watch EXCEPT ![w] = [@ EXCEPT !.state = "empty", !.mask = {}]]
  /\ UNCHANGED <<copies, os, body, threadVars, rec, kern, batch, closes, late>>

-----------------------------------------------------------------------------
\* watch_list_mask(): what the live watches of a driver wait for.
Interest(t) == UNION {watch[w].mask : w \in {v \in rec[t].list : watch[v].state = "on"}}

\* pop_update(): the epoch to register with, and the one to go on with.
EpochFor(t) == IF Interest(t) # {} /\ rec[t].epoch < UserEpoch THEN UserEpoch ELSE rec[t].epoch
EpochAfter(t) == IF Interest(t) = {} THEN rec[t].epoch + 1 ELSE EpochFor(t)

\* driver::apply_fd_update and fd_batch::add: EPOLL_CTL_ADD, MOD or DEL.
Registration(t) ==
  IF Interest(t) = kern[t].mask THEN kern[t]
  ELSE IF Interest(t) = {} THEN Unregistered
  ELSE [mask |-> Interest(t), epoch |-> EpochFor(t),
        file |-> IF kern[t].mask = {} THEN os ELSE kern[t].file]

Update(t) ==
  /\ phase[t] = "run" /\ op[t] = None
  /\ IF rec[t].dirty
     THEN /\ rec' = [rec EXCEPT ![t] = [@ EXCEPT !.dirty = FALSE, !.epoch = EpochAfter(t)]]
          /\ kern' = [kern EXCEPT ![t] = Registration(t)]
     ELSE UNCHANGED <<rec, kern>>
  /\ phase' = [phase EXCEPT ![t] = "wait"]
  /\ UNCHANGED <<copies, os, body, held, op, watch, batch, closes, late>>

\* mask_in(): readiness that was asked for, or a hangup, which counts as all.
Ready(t) == (SUBSET kern[t].mask \ {{}}) \cup {Mask}

\* watch_fds(): epoll_wait returns an event, or none about the number.
Wait(t) ==
  /\ phase[t] = "wait"
  /\ \/ phase' = [phase EXCEPT ![t] = "import"] /\ UNCHANGED batch
     \/ /\ kern[t].mask # {}
        /\ \E m \in Ready(t) : batch' = [batch EXCEPT ![t] = [kern[t] EXCEPT !.mask = m]]
        /\ phase' = [phase EXCEPT ![t] = "batch"]
  /\ UNCHANGED <<copies, os, body, held, op, driverVars, closes, late>>

\* take_watch_list(): the watches an event of the batch detaches.  They are
\* triggered one by one, and the coroutines that run in between cannot reach
\* them: one step.
Taken(t) ==
  IF batch[t].epoch # EmptyEpoch /\ batch[t].epoch # rec[t].epoch THEN {}
  ELSE {w \in rec[t].list : watch[w].mask \cap batch[t].mask # {} \/ watch[w].state = "empty"}

Dispatch(t) ==
  /\ phase[t] = "batch" /\ op[t] = None
  /\ rec' = [rec EXCEPT ![t] =
                [rec[t] EXCEPT !.list = @ \ Taken(t), !.dirty = @ \/ Taken(t) # {}]]
  /\ watch' = [w \in Watch |-> IF w \in Taken(t) THEN Done ELSE watch[w]]
  /\ batch' = [batch EXCEPT ![t] = Unregistered]
  /\ phase' = [phase EXCEPT ![t] = "import"]
  /\ UNCHANGED <<copies, os, body, held, op, kern, closes, late>>

\* finish_migrate(): the close notifications of other threads.
Import(t) ==
  /\ phase[t] = "import"
  /\ phase' = [phase EXCEPT ![t] = "run"]
  /\ closes' = closes \ {t}
  /\ IF t \in closes THEN NotifyClose(t) ELSE UNCHANGED <<os, body, driverVars>>
  /\ UNCHANGED <<copies, held, op, batch, late>>

Operate(t) ==
  \/ \E b \in Body : Open(t, b) \/ Drop(t, b) \/ Close(t, b)
  \/ \E b \in Body, m \in Mask : FileEvent(t, b, m)
  \/ \E b \in Body, u \in Thread : Copy(t, u, b)
  \/ \E w \in Watch : Cancel(t, w)

Go(t) ==
  \/ Subtract(t) \/ CloseLocked(t) \/ AddWatch(t) \/ (\E u \in Thread : Tell(t, u))
  \/ Update(t) \/ Wait(t) \/ Dispatch(t) \/ Import(t)

Next == ~late /\ \E t \in Thread : Operate(t) \/ Go(t)

Spec == Init /\ [][Next]_vars
-----------------------------------------------------------------------------

\* A kernel event wakes only coroutines that watch the file it is about.  The
\* number comes back as soon as it is closed, perhaps by a callback of the same
\* batch, and epochs tell the uses apart (fd_event_set's "detect stale kernel
\* notifications").
RightFile ==
  \A t \in Thread : phase[t] = "batch" =>
    \A w \in Taken(t) : watch[w].body = batch[t].file

\* What fd_body::close promises itself: the file stays open while a driver has
\* it in its kernel notifier, and an fdrec never meets another body under its
\* number (watch()'s "This should not happen").
KernelClean ==
  late \/ \A t \in Thread :
    /\ kern[t].mask # {} => os = kern[t].file /\ os = rec[t].body
    /\ rec[t].body # NoBody => os = rec[t].body /\ t \in body[os].drivers
    /\ op[t].at = "watch" => rec[t].body \in {NoBody, op[t].body} \/ ~body[op[t].body].fd

\* A driver that waits has asked the kernel, with the epoch it will look for,
\* for everything its live watches wait for: no update is forgotten, however
\* watches come, fire, are cancelled and start again.
Registered ==
  \A t \in Thread : phase[t] = "wait" /\ Interest(t) # {} =>
    Interest(t) \subseteq kern[t].mask /\ kern[t].epoch = rec[t].epoch

\* The body is deleted once nobody can reach it: no reference, no driver, no
\* operation of any thread.
DeletedLast ==
  \A b \in Body : body[b].state = "deleted" =>
    /\ ~body[b].base
    /\ \A t \in Thread : b \notin held[t] /\ rec[t].body # b
    /\ \A t \in Thread : op[t].body = b => op[t].at = "none"

\* close() wakes everybody: when the threads have come to rest, a closed body
\* has no watch that anybody waits for, on any thread, and the system has got
\* its number back ("the fd is closed and all associated events are triggered").
ClosedAtRest ==
  (~late /\ closes = {} /\ \A t \in Thread : op[t] = None /\ phase[t] = "wait") =>
    \A b \in Body : body[b].state = "live" /\ ~body[b].fd =>
      /\ os # b
      /\ \A w \in Watch : watch[w].body = b => watch[w].state # "on"

\* What fd_body's comment says: "When the last strong ref drops, the fd is
\* closed" -- false, if two threads drop the last two references at once.
LastRefCloses ==
  \A b \in Body : body[b].state = "live" /\ body[b].ref = 0 => ~body[b].fd
=============================================================================
