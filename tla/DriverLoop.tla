----------------------------- MODULE DriverLoop -----------------------------
(***************************************************************************)
(* driver::loop() of cotamer/cotamer.cc: how the event loop of one thread  *)
(* runs its asap events and timers, blocks, is woken by other threads that *)
(* trigger events its coroutines await, and decides that it is done.       *)
(*                                                                         *)
(* Each member of Thread is another thread that triggers one event; one    *)
(* coroutine of this driver awaits it.  The other coroutines are Local:    *)
(* they await asap events and timers and may post more of them.  The clock *)
(* is the real one (in virtual time the driver never blocks), a timer may  *)
(* be found due at any pass, and no file descriptor is watched but the     *)
(* one that wakes the driver.                                              *)
(*                                                                         *)
(* Atomic variables are read and written in one order, as seq_cst would.   *)
(***************************************************************************)
EXTENDS Integers, Sequences, FiniteSets

CONSTANTS Thread, Local, NoThread,
          AsapQuota,  \* asap_quota, 0x1000 in the code
          Posted,     \* coroutines waiting for asap events at first
          MaxPosts,   \* bound: asap events and timers posted later
          MaxClears,  \* bound: calls of clear()
          MaxLoops    \* bound: calls of loop()

ASSUME DriverAssumption ==
  /\ Local \notin Thread /\ NoThread \notin Thread
  /\ IsFiniteSet(Thread)
  /\ AsapQuota \in Nat \ {0} /\ MaxLoops \in Nat \ {0}
  /\ Posted \in Nat /\ MaxPosts \in Nat /\ MaxClears \in Nat

VARIABLES
  pc,            \* where loop() is
  quota,         \* n, in the asap loop
  asap,          \* asap_: Local, or the thread whose event it is
  timers,        \* how many events are in timed_
  guards,        \* guard_count_
  keepalives,    \* keepalives_
  clearing,      \* clearing_
  lock,          \* df_lock: the thread that has set it
  migrate,       \* migrate_; df_nonempty says whether there are any
  wakefd,        \* wakefd_ is set
  eventfd,       \* the event descriptor has been written
  thread,        \* thread[t]: where t is in event_body::trigger_unlock
  hold,          \* hold[t]: what keeps the loop for the coroutine that awaits t
  posts, clears, loops  \* counters for the bounds

driverVars == <<quota, asap, timers, guards, keepalives, clearing, hold>>
wakeVars == <<lock, migrate, wakefd, eventfd, thread>>
boundVars == <<posts, clears, loops>>
vars == <<pc, driverVars, wakeVars, boundVars>>

\* "none": nothing; "run": the coroutine has run, or was destroyed.
Hold == {"guard", "keepalive", "none", "run"}
Guarded(h) == {t \in Thread : h[t] = "guard"}

Init ==
  /\ pc = "import" /\ quota = 0
  /\ asap = [i \in 1..Posted |-> Local]
  /\ timers = 0 /\ clearing = FALSE
  /\ hold \in [Thread -> Hold \ {"run"}]
  /\ guards = Cardinality(Guarded(hold))
  /\ keepalives = {t \in Thread : hold[t] = "keepalive"}
  /\ lock = NoThread /\ migrate = <<>>
  /\ wakefd = FALSE /\ eventfd = FALSE
  /\ thread = [t \in Thread |-> "idle"]
  /\ posts = 0 /\ clears = 0 /\ loops = 1

-----------------------------------------------------------------------------
\* Another thread triggers its event.  First the event is marked triggered.
Trigger(t) ==
  /\ thread[t] = "idle"
  /\ thread' = [thread EXCEPT ![t] = "triggered"]
  /\ UNCHANGED <<pc, driverVars, lock, migrate, wakefd, eventfd, boundVars>>

\* migrate_asap(): lock, append, unlock with df_nonempty.
Lock(t) ==
  /\ thread[t] = "triggered" /\ lock = NoThread
  /\ lock' = t
  /\ thread' = [thread EXCEPT ![t] = "locked"]
  /\ UNCHANGED <<pc, driverVars, migrate, wakefd, eventfd, boundVars>>

Push(t) ==
  /\ thread[t] = "locked"
  /\ migrate' = Append(migrate, t)
  /\ lock' = NoThread
  /\ thread' = [thread EXCEPT ![t] = "pushed"]
  /\ UNCHANGED <<pc, driverVars, wakefd, eventfd, boundVars>>

\* migrate_wake(): load wakefd_, then write to it.
WakeLoad(t) ==
  /\ thread[t] = "pushed"
  /\ thread' = [thread EXCEPT ![t] = IF wakefd THEN "waking" ELSE "done"]
  /\ UNCHANGED <<pc, driverVars, lock, migrate, wakefd, eventfd, boundVars>>

WakeWrite(t) ==
  /\ thread[t] = "waking"
  /\ eventfd' = TRUE
  /\ thread' = [thread EXCEPT ![t] = "done"]
  /\ UNCHANGED <<pc, driverVars, lock, migrate, wakefd, boundVars>>

-----------------------------------------------------------------------------
\* lock_ is not zero.
Busy == lock # NoThread \/ migrate # <<>>

\* finish_migrate(), when it has the lock, swaps migrate_ with an empty vector.
WrongEmptied == migrate
Emptied == <<>>

Import ==
  /\ pc = "import" /\ lock = NoThread
  /\ asap' = asap \o migrate
  /\ migrate' = Emptied
  /\ pc' = "asap" /\ quota' = AsapQuota
  /\ UNCHANGED <<timers, guards, keepalives, clearing, hold, lock, wakefd,
                 eventfd, thread, boundVars>>

\* What a coroutine of this driver may do when it runs.
Quiet == UNCHANGED <<timers, clearing, posts, clears>> /\ asap' = Tail(asap)
PostAsap ==
  /\ posts < MaxPosts /\ posts' = posts + 1
  /\ asap' = Append(Tail(asap), Local)
  /\ UNCHANGED <<timers, clearing, clears>>
PostTimer ==
  /\ posts < MaxPosts /\ posts' = posts + 1
  /\ timers' = timers + 1
  /\ asap' = Tail(asap)
  /\ UNCHANGED <<clearing, clears>>
Clear ==
  /\ clears < MaxClears /\ clears' = clears + 1
  /\ clearing' = TRUE
  /\ asap' = Tail(asap)
  /\ UNCHANGED <<timers, posts>>

\* One turn of the asap loop.  While clearing, a coroutine throws instead.
RunLocal ==
  /\ pc = "asap" /\ quota > 0 /\ asap # <<>> /\ Head(asap) = Local
  /\ \/ Quiet
     \/ ~clearing /\ (PostAsap \/ PostTimer \/ Clear)
  /\ quota' = quota - 1
  /\ UNCHANGED <<pc, guards, keepalives, hold, wakeVars, loops>>

\* The coroutine that awaits t's event ends, and with it its driver_guard.
GuardsWithout(t) ==
  IF hold[t] = "guard" /\ ~clearing THEN guards - 1 ELSE guards

RunMigrated(t) ==
  /\ pc = "asap" /\ quota > 0 /\ asap # <<>> /\ Head(asap) = t
  /\ asap' = Tail(asap)
  /\ hold' = [hold EXCEPT ![t] = "run"]
  /\ guards' = GuardsWithout(t)
  /\ quota' = quota - 1
  /\ UNCHANGED <<pc, timers, keepalives, clearing, wakeVars, boundVars>>

\* The end of the asap loop, dead keepalives, and process_clearing().
Triggered(t) == thread[t] # "idle"
WrongAlive == keepalives
Alive == IF \A t \in keepalives : Triggered(t) THEN {} ELSE keepalives

Cull ==
  /\ pc = "asap" /\ (quota = 0 \/ asap = <<>>)
  /\ IF clearing
     THEN keepalives' = {} /\ guards' = 0 /\ timers' = 0
     ELSE keepalives' = Alive /\ UNCHANGED <<guards, timers>>
  /\ pc' = "test"
  /\ UNCHANGED <<quota, asap, clearing, hold, wakeVars, boundVars>>

\* Exit if nothing to do.
WrongIdle == timers = 0 /\ ~Busy /\ keepalives = {}
Idle == timers = 0 /\ ~Busy /\ guards = 0 /\ keepalives = {}

Exit ==
  /\ pc = "test" /\ Idle
  /\ pc' = "returned"
  /\ clearing' = FALSE
  /\ UNCHANGED <<quota, asap, timers, guards, keepalives, hold, wakeVars, boundVars>>

\* Else compute the timeout; with a zero timeout nothing blocks.
Stay ==
  /\ pc = "test" /\ ~Idle
  /\ pc' = IF asap # <<>> \/ clearing THEN "timers" ELSE "timeout"
  /\ UNCHANGED <<driverVars, wakeVars, boundVars>>

Timeout ==
  /\ pc = "timeout"
  /\ pc' = IF Busy THEN "timers" ELSE "watch"
  /\ UNCHANGED <<driverVars, wakeVars, boundVars>>

\* watch_fds(): publish wakefd_, then look at lock_ again, then block.
Watch ==
  /\ pc = "watch"
  /\ wakefd' = TRUE
  /\ pc' = "recheck"
  /\ UNCHANGED <<driverVars, lock, migrate, eventfd, thread, boundVars>>

WrongMustPoll == FALSE
MustPoll == Busy

Recheck ==
  /\ pc = "recheck"
  /\ pc' = IF ~MustPoll THEN "blocked" ELSE IF eventfd THEN "drain" ELSE "awake"
  /\ UNCHANGED <<driverVars, wakeVars, boundVars>>

\* The kernel wakes the driver: the descriptor was written, or time is up.
Woken ==
  /\ pc = "blocked"
  /\ \/ eventfd /\ pc' = "drain"
     \/ ~eventfd /\ timers > 0 /\ pc' = "awake"
  /\ UNCHANGED <<driverVars, wakeVars, boundVars>>

\* With no timer the timeout is one hour.
HourPasses ==
  /\ pc = "blocked" /\ ~eventfd /\ timers = 0
  /\ pc' = "awake"
  /\ UNCHANGED <<driverVars, wakeVars, boundVars>>

Unwatch ==
  /\ pc \in {"awake", "drain"}
  /\ wakefd' = FALSE
  /\ eventfd' = (eventfd /\ pc = "awake")
  /\ pc' = "timers"
  /\ UNCHANGED <<driverVars, lock, migrate, thread, boundVars>>

\* Is there a timer to be due?
Due == timers > 0

\* Timers that are due; their coroutines may post asap events.
FireTimer ==
  /\ pc = "timers" /\ Due
  /\ timers' = timers - 1
  /\ \/ UNCHANGED <<asap, posts>>
     \/ /\ ~clearing /\ posts < MaxPosts /\ posts' = posts + 1
        /\ asap' = Append(asap, Local)
  /\ UNCHANGED <<pc, quota, guards, keepalives, clearing, hold, wakeVars, clears, loops>>

EndPass ==
  /\ pc = "timers"
  /\ pc' = "import"
  /\ UNCHANGED <<driverVars, wakeVars, boundVars>>

\* The program calls loop() again.
CallAgain ==
  /\ pc = "returned" /\ loops < MaxLoops
  /\ loops' = loops + 1
  /\ pc' = "import"
  /\ UNCHANGED <<driverVars, wakeVars, posts, clears>>

ThreadStep(t) == Lock(t) \/ Push(t) \/ WakeLoad(t) \/ WakeWrite(t)

LoopStep ==
  \/ Import \/ RunLocal \/ Cull \/ Exit \/ Stay \/ Timeout \/ Watch \/ Recheck
  \/ Woken \/ Unwatch \/ EndPass
  \/ \E t \in Thread : RunMigrated(t)

Next ==
  \/ LoopStep \/ FireTimer \/ HourPasses \/ CallAgain
  \/ \E t \in Thread : Trigger(t) \/ ThreadStep(t)

Spec == Init /\ [][Next]_vars

\* Threads run, a timer comes to be due.  Nobody has to trigger an event, to
\* call loop() again, or to wait for an hour.
Fairness ==
  /\ WF_vars(LoopStep) /\ SF_vars(FireTimer)
  /\ \A t \in Thread : SF_vars(ThreadStep(t))
FairSpec == Spec /\ Fairness

-----------------------------------------------------------------------------
TypeOK ==
  /\ pc \in {"import", "asap", "test", "timeout", "watch", "recheck", "blocked",
             "drain", "awake", "timers", "returned"}
  /\ quota \in 0..AsapQuota
  /\ asap \in Seq(Thread \cup {Local}) /\ migrate \in Seq(Thread)
  /\ timers \in 0..MaxPosts /\ guards \in Int
  /\ keepalives \subseteq Thread /\ clearing \in BOOLEAN
  /\ lock \in Thread \cup {NoThread}
  /\ wakefd \in BOOLEAN /\ eventfd \in BOOLEAN
  /\ thread \in [Thread -> {"idle", "triggered", "locked", "pushed", "waking", "done"}]
  /\ hold \in [Thread -> Hold]
  /\ posts \in 0..MaxPosts /\ clears \in 0..MaxClears /\ loops \in 1..MaxLoops

\* No wakeup is lost: the driver does not sit blocked while an event migrated
\* to it, unless the descriptor is written or a thread is about to write it.
NoLostWake ==
  pc = "blocked" /\ migrate # <<>> =>
    eventfd \/ \E t \in Thread : thread[t] \in {"pushed", "waking"}

\* An event that migrated is not lost or run twice: until its coroutine runs
\* it is queued exactly once, whatever the thread and the driver do meanwhile.
QueuedOnce ==
  LET queue == asap \o migrate IN
  \A t \in Thread :
    Cardinality({i \in 1..Len(queue) : queue[i] = t}) =
      IF thread[t] \in {"pushed", "waking", "done"} /\ hold[t] # "run" THEN 1 ELSE 0

\* What another thread triggers for a coroutine of this driver reaches it once, and
\* wakes it.
HandedOver == NoLostWake /\ QueuedOnce

\* A coroutine that holds a driver_guard runs after its event is triggered,
\* unless clear() took the guards away.
GuardedRuns ==
  <>[](\A t \in Thread : hold[t] = "guard" /\ Triggered(t) => clears > 0)

\* Once the other threads are done, loop() returns.  After a clear() it may
\* not: a coroutine that waits for another thread outlives clear(), which sets the
\* count of guards to 0, and its guard is subtracted from that.
LoopReturns ==
  (\A t \in Thread : thread[t] = "done") ~> pc = "returned" \/ clears > 0

\* cotamer.hh: "run event loop until quiescent"; pset2/COTAMER.md: "runs until
\* there's nothing left to do - no outstanding asap events".
NothingLeft == pc = "returned" => asap = <<>>
=============================================================================
