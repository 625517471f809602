------------------------------ MODULE CotMutex ------------------------------
(***************************************************************************)
(* cotamer::mutex, the shared/exclusive lock of coroutines that may run on *)
(* the drivers of several threads (cotamer/cotamer.hh and cotamer.cc).     *)
(* Its word latch_ holds a latch bit, two bits that say what the first     *)
(* waiter wants, and the locks held; waiters_ is the queue of events.      *)
(*                                                                         *)
(* A member of Request is one request for the lock by one coroutine, with  *)
(* its event.  A slow operation owns the latch while it walks the queue,   *)
(* in steps: coroutines give up meanwhile (attempt() lost to a timeout, a  *)
(* task destroyed), which the latch does not exclude.  The fast paths are  *)
(* a load of the word and a compare-exchange with what was loaded.         *)
(*                                                                         *)
(* While the latch bit is set nobody else reads the rest of the word, so   *)
(* excl and shared stand for the latch owner's local copy as well.         *)
(***************************************************************************)
EXTENDS Integers, Sequences, FiniteSets

CONSTANTS Request, NoRequest

ASSUME MutexAssumption == NoRequest \notin Request

VARIABLES
  kind,          \* kind[r]: "excl" or "shared", what r asks for
  state,         \* state[r]: how far r has come
  seen,          \* seen[r]: the word r's unlock loaded, while it needs it
  owner, phase,  \* the request whose operation owns the latch, and where it is
  next,          \* mf_next_excl and mf_next_shared
  excl, shared,  \* mf_lock_excl, and the number of mf_lock_shared added
  waiters        \* waiters_

vars == <<kind, state, seen, owner, phase, next, excl, shared, waiters>>

State == {"new",        \* has not asked
          "locking",    \* in lock_impl
          "waiting",    \* its event is in waiters_
          "gone",       \* gave up: nobody listens to its event any more
          "granted",    \* was given the lock, its coroutine has yet to resume
          "held",       \* holds the lock
          "lost",       \* was given the lock, but no coroutine is there to unlock
          "releasing",  \* in unlock, has loaded the word
          "unlocking",  \* in unlock_impl, before the latch
          "unlocked",   \* in unlock_impl, no longer holds the lock
          "done"}

\* The word, as another thread loads it.
Word == [latch |-> owner # NoRequest, next |-> next, excl |-> excl, shared |-> shared]
Unlocked == [latch |-> FALSE, next |-> "none", excl |-> FALSE, shared |-> 0]

Init ==
  /\ kind \in [Request -> {"excl", "shared"}]
  /\ state = [r \in Request |-> "new"]
  /\ seen = [r \in Request |-> Unlocked]
  /\ owner = NoRequest /\ phase = "walk" /\ next = "none"
  /\ excl = FALSE /\ shared = 0
  /\ waiters = <<>>

-----------------------------------------------------------------------------
\* Wrong: allow() looks at the exclusive bit alone.
WrongAllow(k) == ~excl

\* allow(): may a lock of kind k be added to those held?
Allow(k) == ~excl /\ (k = "excl" => shared = 0)

Add(r) == IF kind[r] = "excl" THEN excl' = TRUE /\ UNCHANGED shared
                              ELSE shared' = shared + 1 /\ UNCHANGED excl

Drop(r) == IF kind[r] = "excl" THEN excl' = FALSE /\ UNCHANGED shared
                               ELSE shared' = shared - 1 /\ UNCHANGED excl

Become(r, s) == state' = [state EXCEPT ![r] = s]

\* lock() and lock_shared().
Lock(r) ==
  /\ state[r] = "new"
  /\ Become(r, "locking")
  /\ UNCHANGED <<kind, seen, owner, phase, next, excl, shared, waiters>>

\* Wrong: try_lock_shared looks at the locks alone, not at the waiters.
WrongTry(k) == owner = NoRequest /\ ~excl /\ (k = "excl" => shared = 0 /\ next = "none")

\* try_lock() and try_lock_shared(), when they succeed: else nothing changes.
TryAllows(k) ==
  /\ owner = NoRequest /\ next = "none" /\ ~excl
  /\ k = "excl" => shared = 0

TryLock(r) ==
  /\ state[r] = "new" /\ TryAllows(kind[r])
  /\ Become(r, "held")
  /\ Add(r)
  /\ UNCHANGED <<kind, seen, owner, phase, next, waiters>>

\* The load of unlock() and unlock_shared().
Unlock(r) ==
  /\ state[r] = "held"
  /\ Become(r, "releasing")
  /\ seen' = [seen EXCEPT ![r] = Word]
  /\ UNCHANGED <<kind, owner, phase, next, excl, shared, waiters>>

\* Wrong: unlock_shared forgets that it may be the last of several holders.
WrongFast(k, w) == ~w.latch /\ (k = "excl" => w.next = "none") /\ w.next # "shared"

\* Does the word w let a lock of kind k be dropped without the latch?
Fast(k, w) ==
  /\ ~w.latch
  /\ IF k = "excl" THEN w.next = "none"
     ELSE w.next # "shared" /\ (w.next = "excl" => w.shared >= 2)

\* The compare-exchange succeeds.
UnlockFast(r) ==
  /\ state[r] = "releasing" /\ Fast(kind[r], seen[r]) /\ Word = seen[r]
  /\ Become(r, "done")
  /\ Drop(r)
  /\ seen' = [seen EXCEPT ![r] = Unlocked]
  /\ UNCHANGED <<kind, owner, phase, next, waiters>>

\* The word forbids it, or the compare-exchange fails: unlock_impl.
UnlockSlow(r) ==
  /\ state[r] = "releasing" /\ ~(Fast(kind[r], seen[r]) /\ Word = seen[r])
  /\ Become(r, "unlocking")
  /\ seen' = [seen EXCEPT ![r] = Unlocked]
  /\ UNCHANGED <<kind, owner, phase, next, excl, shared, waiters>>

\* latch(), in lock_impl and, with the lock dropped, in unlock_impl.
Latch(r) ==
  /\ owner = NoRequest
  /\ owner' = r
  /\ \/ state[r] = "locking" /\ UNCHANGED <<state, excl, shared>>
     \/ state[r] = "unlocking" /\ Become(r, "unlocked") /\ Drop(r)
  /\ UNCHANGED <<kind, seen, phase, next, waiters>>

-----------------------------------------------------------------------------
\* notify_locked(): the walk along the queue, by the owner of the latch.
Walking == owner # NoRequest /\ phase = "walk"
Front == Head(waiters)

\* empty(): the front waiter has given up.
WalkSkip ==
  /\ Walking /\ waiters # <<>>
  /\ state[Front] = "gone"
  /\ waiters' = Tail(waiters)
  /\ UNCHANGED <<kind, state, seen, owner, phase, next, excl, shared>>

WalkAllow ==
  /\ Walking /\ waiters # <<>>
  /\ state[Front] # "gone" /\ Allow(kind[Front])
  /\ phase' = "trigger"
  /\ UNCHANGED <<kind, state, seen, owner, next, excl, shared, waiters>>

\* trigger() succeeds whether or not the waiter has given up since.
WalkTrigger ==
  /\ phase = "trigger"
  /\ Become(Front, IF state[Front] = "gone" THEN "lost" ELSE "granted")
  /\ Add(Front)
  /\ waiters' = Tail(waiters)
  /\ phase' = "walk"
  /\ UNCHANGED <<kind, seen, owner, next>>

WalkEnds ==
  /\ Walking
  /\ waiters # <<>> => state[Front] # "gone" /\ ~Allow(kind[Front])

\* Wrong: unlatch forgets the bits for the first waiter.
WrongUnlatch(q) == owner' = NoRequest /\ next' = "none" /\ waiters' = q

\* unlatch(): the word says what the first waiter of queue q wants.
Unlatch(q) ==
  /\ owner' = NoRequest
  /\ next' = IF q = <<>> THEN "none" ELSE kind[Head(q)]
  /\ waiters' = q

\* The end of lock_impl: take the lock or queue for it.
LockTake(r) ==
  /\ WalkEnds /\ owner = r /\ state[r] = "locking"
  /\ waiters = <<>> /\ Allow(kind[r])
  /\ Become(r, "granted")
  /\ Add(r)
  /\ Unlatch(waiters)
  /\ UNCHANGED <<kind, seen, phase>>

LockQueue(r) ==
  /\ WalkEnds /\ owner = r /\ state[r] = "locking"
  /\ ~(waiters = <<>> /\ Allow(kind[r]))
  /\ Become(r, "waiting")
  /\ Unlatch(Append(waiters, r))
  /\ UNCHANGED <<kind, seen, phase, excl, shared>>

\* The end of unlock_impl.
UnlockEnds(r) ==
  /\ WalkEnds /\ owner = r /\ state[r] = "unlocked"
  /\ Become(r, "done")
  /\ Unlatch(waiters)
  /\ UNCHANGED <<kind, seen, phase, excl, shared>>

-----------------------------------------------------------------------------
\* The coroutine resumes with the lock (task_mutex_event_awaiter::await_resume).
Resume(r) ==
  /\ state[r] = "granted"
  /\ Become(r, "held")
  /\ UNCHANGED <<kind, seen, owner, phase, next, excl, shared, waiters>>

\* The coroutine is destroyed while it waits, or attempt() no longer waits.
GiveUp(r) ==
  /\ state[r] = "waiting"
  /\ Become(r, "gone")
  /\ UNCHANGED <<kind, seen, owner, phase, next, excl, shared, waiters>>

\* The coroutine is destroyed between the grant and its resumption.  A lock
\* object that was given the lock through its notify flag unlocks it later;
\* a bare mutex_event does not.
Abandon(r) ==
  /\ state[r] = "granted"
  /\ \E s \in {"held", "lost"} : Become(r, s)
  /\ UNCHANGED <<kind, seen, owner, phase, next, excl, shared, waiters>>

Walk == WalkSkip \/ WalkAllow \/ WalkTrigger

Own(r) ==
  \/ Unlock(r) \/ UnlockFast(r) \/ UnlockSlow(r) \/ Latch(r)
  \/ LockTake(r) \/ LockQueue(r) \/ UnlockEnds(r) \/ Resume(r)

Next ==
  \/ Walk
  \/ \E r \in Request : Lock(r) \/ TryLock(r) \/ Own(r) \/ GiveUp(r) \/ Abandon(r)

Spec == Init /\ [][Next]_vars

\* Threads run, a coroutine that was given the lock is resumed by its driver,
\* and those who hold the lock unlock it.  Nobody has to ask or to give up.
Fairness == WF_vars(Walk) /\ \A r \in Request : WF_vars(Own(r))
FairSpec == Spec /\ Fairness

-----------------------------------------------------------------------------
Has(r) == state[r] \in {"granted", "held", "lost", "releasing", "unlocking"}
SharedHolders == {r \in Request : Has(r) /\ kind[r] = "shared"}

TypeOK ==
  /\ kind \in [Request -> {"excl", "shared"}]
  /\ state \in [Request -> State]
  /\ seen \in [Request -> [latch : BOOLEAN, next : {"none", "excl", "shared"},
                           excl : BOOLEAN, shared : Nat]]
  /\ owner \in Request \cup {NoRequest}
  /\ phase \in {"walk", "trigger"}
  /\ next \in {"none", "excl", "shared"}
  /\ excl \in BOOLEAN /\ shared \in Nat
  /\ waiters \in Seq(Request)

\* Of two requests that have the lock at once, neither is exclusive: whatever
\* the interleaving of fast paths, walks and waiters that give up.
Exclusion ==
  \A r, s \in Request :
    r # s /\ Has(r) /\ Has(s) => kind[r] = "shared" /\ kind[s] = "shared"

\* The word tells the truth to the fast paths: it counts the locks held.
WordExact ==
  /\ excl <=> \E r \in Request : Has(r) /\ kind[r] = "excl"
  /\ shared = Cardinality(SharedHolders)

\* No wakeup is lost: when nobody owns the latch, a queue means that the lock
\* is held, so that an unlock will walk the queue, and the first waiter, if it
\* still waits, is one that could not be given the lock.
NoLostWakeup ==
  owner = NoRequest /\ waiters # <<>> =>
    /\ \E r \in Request : Has(r)
    /\ state[Front] = "waiting" => ~Allow(kind[Front])

\* No barging: a request comes to have the lock only as the first of the queue
\* or when there is no queue.  Neither try_lock nor a shared lock that could
\* join the shared locks held overtakes a waiter.
NoBarging ==
  [][\A r \in Request :
       ~Has(r) /\ Has(r)' => waiters = <<>> \/ r = Front]_vars

\* The queue is served: by the operation that frees the lock, and from its front.
Orderly == []NoLostWakeup /\ NoBarging

\* A waiter gets the lock or gives up, unless a lock was given to a coroutine
\* that was no longer there, and which nobody unlocks.
WaitersServed ==
  \A r \in Request :
    state[r] = "waiting" ~>
      state[r] # "waiting" \/ \E s \in Request : state[s] = "lost"

=============================================================================
