--------------------------- MODULE CotMutexProofs ---------------------------
(***************************************************************************)
(* Theorems about the mutex of cotamer, for any number of requests.        *)
(*                                                                         *)
(* Exclusion is not inductive: the fast paths decide by the word, so the   *)
(* word must count the locks (Counts); the walk decides by the queue, so   *)
(* the queue must hold each request once and only while it has no lock     *)
(* (Queue); and what was checked before trigger() must still hold at       *)
(* trigger() (Walks).  Unlatched says what the owner of the latch leaves   *)
(* behind, which is what lets the fast paths ignore the queue.             *)
(***************************************************************************)
EXTENDS CotMutex, FiniteSetTheorems, TLAPS

HoldsExcl(r) == Has(r) /\ kind[r] = "excl"

Counts ==
  /\ IsFiniteSet(SharedHolders)
  /\ shared = Cardinality(SharedHolders)
  /\ excl <=> \E r \in Request : HoldsExcl(r)
  /\ \A r, s \in Request : HoldsExcl(r) /\ HoldsExcl(s) => r = s
  /\ excl => shared = 0

Queue ==
  /\ \A i \in 1..Len(waiters) : state[waiters[i]] \in {"waiting", "gone"}
  /\ \A i, j \in 1..Len(waiters) : waiters[i] = waiters[j] => i = j

Walks ==
  /\ owner # NoRequest => state[owner] \in {"locking", "unlocked"}
  /\ phase = "trigger" =>
       owner # NoRequest /\ waiters # <<>> /\ Allow(kind[Front])

Unlatched ==
  owner = NoRequest =>
    /\ next = IF waiters = <<>> THEN "none" ELSE kind[Front]
    /\ waiters # <<>> => excl \/ shared # 0
    /\ waiters # <<>> /\ state[Front] = "waiting" => ~Allow(kind[Front])

IInv == TypeOK /\ Counts /\ Queue /\ Walks /\ Unlatched

-----------------------------------------------------------------------------
\* A step that leaves the holders and the word alone leaves the counts right.
LEMMA KeepCounts ==
  ASSUME Counts, UNCHANGED <<kind, excl, shared>>,
         \A s \in Request : Has(s)' <=> Has(s)
  PROVE  Counts'
<1>1. SharedHolders' = SharedHolders
  BY DEF SharedHolders
<1>2. \A s \in Request : HoldsExcl(s)' <=> HoldsExcl(s)
  BY DEF HoldsExcl
<1> QED
  BY <1>1, <1>2 DEF Counts

\* Adding a lock that allow() allows to the word counts one more holder.
LEMMA GainCounts ==
  ASSUME TypeOK, Counts, NEW r \in Request, UNCHANGED kind,
         ~Has(r), Has(r)', Allow(kind[r]), Add(r),
         \A s \in Request \ {r} : Has(s)' <=> Has(s)
  PROVE  Counts'
<1>1. CASE kind[r] = "excl"
  <2>1. SharedHolders' = SharedHolders
    BY <1>1 DEF SharedHolders
  <2>2. \A s \in Request : HoldsExcl(s)' <=> s = r
    BY <1>1 DEF HoldsExcl, Counts, Allow
  <2>3. excl' = TRUE /\ shared' = 0 /\ shared = 0
    BY <1>1 DEF Add, Allow, TypeOK
  <2> QED
    BY <2>1, <2>2, <2>3 DEF Counts
<1>2. CASE kind[r] = "shared"
  <2>1. SharedHolders' = SharedHolders \cup {r} /\ r \notin SharedHolders
    BY <1>2 DEF SharedHolders
  <2>2. IsFiniteSet(SharedHolders') /\ Cardinality(SharedHolders') = shared + 1
    BY <2>1, FS_AddElement DEF Counts
  <2>3. \A s \in Request : HoldsExcl(s)' <=> HoldsExcl(s)
    BY <1>2 DEF HoldsExcl
  <2>4. excl' = excl /\ excl = FALSE /\ shared' = shared + 1
    BY <1>2 DEF Add, Allow, TypeOK
  <2> QED
    BY <2>2, <2>3, <2>4 DEF Counts
<1> QED
  BY <1>1, <1>2 DEF TypeOK

\* Taking a holder's lock off the word counts one holder less.
LEMMA LoseCounts ==
  ASSUME TypeOK, Counts, NEW r \in Request, UNCHANGED kind,
         Has(r), ~Has(r)', Drop(r),
         \A s \in Request \ {r} : Has(s)' <=> Has(s)
  PROVE  Counts' /\ shared' \in Nat /\ excl' \in BOOLEAN
<1>1. CASE kind[r] = "excl"
  <2>1. SharedHolders' = SharedHolders
    BY <1>1 DEF SharedHolders
  <2>2. HoldsExcl(r)
    BY <1>1 DEF HoldsExcl
  <2>3. \A s \in Request : ~HoldsExcl(s)'
    BY <2>2 DEF HoldsExcl, Counts
  <2>4. excl' = FALSE /\ shared' = shared
    BY <1>1 DEF Drop
  <2> QED
    BY <2>1, <2>3, <2>4 DEF Counts, TypeOK
<1>2. CASE kind[r] = "shared"
  <2>1. SharedHolders' = SharedHolders \ {r} /\ r \in SharedHolders
    BY <1>2 DEF SharedHolders
  <2>2. IsFiniteSet(SharedHolders') /\ Cardinality(SharedHolders') = shared - 1
    BY <2>1, FS_RemoveElement DEF Counts
  <2>3. \A s \in Request : HoldsExcl(s)' <=> HoldsExcl(s)
    BY <1>2 DEF HoldsExcl
  <2>4. shared # 0
    BY <2>1, FS_EmptySet DEF Counts
  <2>5. excl' = excl /\ excl = FALSE /\ shared' = shared - 1
    BY <1>2, <2>4 DEF Drop, Counts, TypeOK
  <2>6. shared' \in Nat
    BY <2>4, <2>5 DEF TypeOK
  <2> QED
    BY <2>2, <2>3, <2>5, <2>6 DEF Counts
<1> QED
  BY <1>1, <1>2 DEF TypeOK

-----------------------------------------------------------------------------
\* The initial state satisfies the inductive invariant.
LEMMA InitInv == Init => IInv
<1> SUFFICES ASSUME Init PROVE IInv
  OBVIOUS
<1>a. state \in [Request -> State]
  BY DEF Init, State
<1>b. seen \in [Request -> [latch : BOOLEAN, next : {"none", "excl", "shared"},
                           excl : BOOLEAN, shared : Nat]]
  BY DEF Init, Unlocked
<1>c. waiters \in Seq(Request) /\ owner \in Request \cup {NoRequest}
  BY DEF Init
<1>d. phase \in {"walk", "trigger"} /\ next \in {"none", "excl", "shared"}
      /\ excl \in BOOLEAN /\ shared \in Nat
  BY DEF Init
<1>e. kind \in [Request -> {"excl", "shared"}]
  BY DEF Init
<1>1. TypeOK
  BY <1>a, <1>b, <1>c, <1>d, <1>e DEF TypeOK
<1>2. SharedHolders = {} /\ \A r \in Request : ~HoldsExcl(r)
  BY DEF Init, SharedHolders, HoldsExcl, Has
<1>3. Counts
  BY <1>2, FS_EmptySet DEF Init, Counts
<1>4. Queue /\ Walks /\ Unlatched
  BY DEF Init, Queue, Walks, Unlatched
<1> QED
  BY <1>1, <1>3, <1>4 DEF IInv

-----------------------------------------------------------------------------
\* Changing only r's state, from outside the queue and without gaining or
\* losing the lock, and to a state that r's operation may have.
LEMMA QuietStep ==
  ASSUME IInv, NEW r \in Request, NEW s \in State, Become(r, s),
         UNCHANGED <<kind, owner, phase, next, excl, shared, waiters>>,
         seen' \in [Request -> [latch : BOOLEAN, next : {"none", "excl", "shared"},
                               excl : BOOLEAN, shared : Nat]],
         Has(r)' <=> Has(r),
         state[r] \in {"waiting", "gone"} => s = "gone",
         r = owner => s \in {"locking", "unlocked"}
  PROVE  IInv'
<1> USE DEF IInv
<1>1. state' = [state EXCEPT ![r] = s] /\ state' \in [Request -> State]
  BY DEF Become, TypeOK
<1>2. TypeOK'
  BY <1>1 DEF TypeOK
<1>3. \A q \in Request : Has(q)' <=> Has(q)
  BY <1>1 DEF Has, TypeOK
<1>4. Counts'
  BY <1>3, KeepCounts
<1>5. \A i \in 1..Len(waiters) : waiters[i] \in Request
  BY DEF TypeOK
<1>6. Queue'
  BY <1>1, <1>5 DEF Queue, TypeOK
<1>7. Walks'
  BY <1>1 DEF Walks, Front, Allow, TypeOK
<1>8. waiters # <<>> => Front = waiters[1] /\ 1 \in 1..Len(waiters) /\ Front \in Request
  BY DEF Front, TypeOK
<1>9. waiters # <<>> /\ state'[Front] = "waiting" => state[Front] = "waiting"
  BY <1>1, <1>8 DEF Queue, TypeOK
<1>10. Unlatched'
  BY <1>9 DEF Unlatched, Front, Allow
<1> QED
  BY <1>2, <1>4, <1>6, <1>7, <1>10

LEMMA AddTypes ==
  ASSUME TypeOK, NEW r \in Request, Add(r)
  PROVE  excl' \in BOOLEAN /\ shared' \in Nat
<1>1. CASE kind[r] = "excl"
  <2>1. excl' = TRUE /\ shared' = shared
    BY <1>1 DEF Add
  <2> QED
    BY <2>1 DEF TypeOK
<1>2. CASE kind[r] # "excl"
  <2>1. excl' = excl /\ shared' = shared + 1
    BY <1>2 DEF Add
  <2> QED
    BY <2>1 DEF TypeOK
<1> QED
  BY <1>1, <1>2

\* The steps that only move a request along.
LEMMA QuietSteps ==
  ASSUME IInv, NEW r \in Request,
         Lock(r) \/ Unlock(r) \/ UnlockSlow(r) \/ Resume(r) \/ GiveUp(r) \/ Abandon(r)
  PROVE  IInv'
<1> DEFINE Words == [latch : BOOLEAN, next : {"none", "excl", "shared"},
                     excl : BOOLEAN, shared : Nat]
<1>1. seen \in [Request -> Words] /\ Word \in Words /\ Unlocked \in Words
  BY DEF IInv, TypeOK, Word, Unlocked
<1>2. r = owner => state[r] \in {"locking", "unlocked"}
  BY MutexAssumption DEF IInv, Walks
<1>3. state \in [Request -> State]
  BY DEF IInv, TypeOK
<1>4. CASE Lock(r)
  <2>1. Become(r, "locking") /\ state[r] = "new" /\ seen' \in [Request -> Words]
    BY <1>1, <1>4 DEF Lock
  <2>2. Has(r)' <=> Has(r)
    BY <2>1, <1>3 DEF Has, Become
  <2> QED
    BY <2>1, <2>2, <1>2, <1>4, QuietStep DEF Lock, State
<1>5. CASE Unlock(r)
  <2>1. Become(r, "releasing") /\ state[r] = "held" /\ seen' \in [Request -> Words]
    BY <1>1, <1>5 DEF Unlock
  <2>2. Has(r)' <=> Has(r)
    BY <2>1, <1>3 DEF Has, Become
  <2> QED
    BY <2>1, <2>2, <1>2, <1>5, QuietStep DEF Unlock, State
<1>6. CASE UnlockSlow(r)
  <2>1. Become(r, "unlocking") /\ state[r] = "releasing" /\ seen' \in [Request -> Words]
    BY <1>1, <1>6 DEF UnlockSlow
  <2>2. Has(r)' <=> Has(r)
    BY <2>1, <1>3 DEF Has, Become
  <2> QED
    BY <2>1, <2>2, <1>2, <1>6, QuietStep DEF UnlockSlow, State
<1>7. CASE Resume(r) \/ Abandon(r)
  <2>1. PICK s \in {"held", "lost"} : Become(r, s)
    BY <1>7 DEF Resume, Abandon
  <2>2. state[r] = "granted" /\ seen' \in [Request -> Words]
    BY <1>1, <1>7 DEF Resume, Abandon
  <2>3. Has(r)' <=> Has(r)
    BY <2>1, <2>2, <1>3 DEF Has, Become
  <2> QED
    BY <2>1, <2>2, <2>3, <1>2, <1>7, QuietStep DEF Resume, Abandon, State
<1>8. CASE GiveUp(r)
  <2>1. Become(r, "gone") /\ state[r] = "waiting" /\ seen' \in [Request -> Words]
    BY <1>1, <1>8 DEF GiveUp
  <2>2. Has(r)' <=> Has(r)
    BY <2>1, <1>3 DEF Has, Become
  <2> QED
    BY <2>1, <2>2, <1>2, <1>8, QuietStep DEF GiveUp, State
<1> QED
  BY <1>4, <1>5, <1>6, <1>7, <1>8

\* try_lock takes the lock only when nobody waits: the bits for the first
\* waiter say so.
LEMMA TryLockStep ==
  ASSUME IInv, NEW r \in Request, TryLock(r)
  PROVE  IInv'
<1> USE DEF IInv
<1>1. owner = NoRequest /\ waiters = <<>> /\ Allow(kind[r])
  BY DEF TryLock, TryAllows, Unlatched, Allow, TypeOK, Front
<1>2. state' = [state EXCEPT ![r] = "held"] /\ state[r] = "new"
  BY DEF TryLock, Become
<1>3. Has(r)' /\ ~Has(r) /\ \A s \in Request \ {r} : Has(s)' <=> Has(s)
  BY <1>2 DEF Has, TypeOK
<1>4. Counts'
  BY <1>1, <1>3, GainCounts DEF TryLock
<1>5. state' \in [Request -> State]
  BY <1>2 DEF TypeOK, State
<1>6. excl' \in BOOLEAN /\ shared' \in Nat
  BY AddTypes DEF TryLock
<1>7. TypeOK'
  BY <1>5, <1>6 DEF TypeOK, TryLock
<1>8. Queue' /\ Walks' /\ Unlatched'
  BY <1>1, <1>2 DEF TryLock, Queue, Walks, Unlatched
<1> QED
  BY <1>4, <1>7, <1>8

\* unlock without the latch: nobody waits, or only for an exclusive lock that
\* other shared locks still exclude.
LEMMA UnlockFastStep ==
  ASSUME IInv, NEW r \in Request, UnlockFast(r)
  PROVE  IInv'
<1> USE DEF IInv
<1>0. Fast(kind[r], Word)
  BY DEF UnlockFast
<1>1. owner = NoRequest /\ Fast(kind[r], Word)
  BY <1>0 DEF Word, Fast
<1>2. state' = [state EXCEPT ![r] = "done"] /\ state[r] = "releasing"
  BY DEF UnlockFast, Become
<1>3. Has(r) /\ ~Has(r)' /\ \A s \in Request \ {r} : Has(s)' <=> Has(s)
  BY <1>2 DEF Has, TypeOK
<1>4. Counts' /\ shared' \in Nat /\ excl' \in BOOLEAN
  BY <1>3, LoseCounts DEF UnlockFast
<1>5. state' \in [Request -> State]
  BY <1>2 DEF TypeOK, State
<1>6. seen' \in [Request -> [latch : BOOLEAN, next : {"none", "excl", "shared"},
                             excl : BOOLEAN, shared : Nat]]
  BY DEF UnlockFast, TypeOK, Unlocked
<1>7. TypeOK'
  BY <1>4, <1>5, <1>6 DEF TypeOK, UnlockFast
<1>8. waiters # <<>> => Front = waiters[1] /\ 1 \in 1..Len(waiters) /\ Front \in Request
  BY DEF Front, TypeOK
<1>9. waiters # <<>> =>
        kind[r] = "shared" /\ kind[Front] = "excl" /\ shared' # 0
  BY <1>1, <1>8 DEF Fast, Word, Unlatched, UnlockFast, Drop, TypeOK
<1>10. \A i \in 1..Len(waiters) : waiters[i] # r
  BY <1>2 DEF Queue
<1>11. Queue'
  BY <1>2, <1>10 DEF UnlockFast, Queue, TypeOK
<1>12. Walks'
  BY <1>1 DEF UnlockFast, Walks
<1>13. Unlatched'
  BY <1>1, <1>9 DEF UnlockFast, Unlatched, Allow, Front
<1> QED
  BY <1>4, <1>7, <1>11, <1>12, <1>13

\* Taking the latch, in lock_impl or, dropping the lock, in unlock_impl.
LEMMA LatchStep ==
  ASSUME IInv, NEW r \in Request, Latch(r)
  PROVE  IInv'
<1> USE DEF IInv
<1>1. owner = NoRequest /\ owner' = r /\ r # NoRequest /\ phase = "walk"
  BY MutexAssumption DEF Latch, Walks, TypeOK
<1>2. \A i \in 1..Len(waiters) : waiters[i] \in Request
  BY DEF TypeOK
<1>3. CASE state[r] = "locking" /\ UNCHANGED <<state, excl, shared>>
  <2>1. \A s \in Request : Has(s)' <=> Has(s)
    BY <1>3 DEF Has
  <2>2. Counts'
    BY <1>3, <2>1, KeepCounts DEF Latch
  <2>3. TypeOK'
    BY <1>1, <1>3 DEF TypeOK, Latch
  <2>4. Queue' /\ Walks' /\ Unlatched'
    BY <1>1, <1>3 DEF Latch, Queue, Walks, Unlatched
  <2> QED
    BY <2>2, <2>3, <2>4
<1>4. CASE state[r] = "unlocking" /\ Become(r, "unlocked") /\ Drop(r)
  <2>1. state' = [state EXCEPT ![r] = "unlocked"]
    BY <1>4 DEF Become
  <2>2. Has(r) /\ ~Has(r)' /\ \A s \in Request \ {r} : Has(s)' <=> Has(s)
    BY <1>4, <2>1 DEF Has, TypeOK
  <2>3. Counts' /\ shared' \in Nat /\ excl' \in BOOLEAN
    BY <1>4, <2>2, LoseCounts DEF Latch
  <2>4. state' \in [Request -> State]
    BY <2>1 DEF TypeOK, State
  <2>5. TypeOK'
    BY <1>1, <2>3, <2>4 DEF TypeOK, Latch
  <2>6. Queue'
    BY <1>2, <1>4, <2>1 DEF Latch, Queue, TypeOK
  <2>7. Walks' /\ Unlatched'
    BY <1>1, <2>1 DEF Latch, Walks, Unlatched, TypeOK
  <2> QED
    BY <2>3, <2>5, <2>6, <2>7
<1> QED
  BY <1>3, <1>4 DEF Latch

\* The queue without its first element.
LEMMA TailQueue ==
  ASSUME TypeOK, Queue, waiters # <<>>
  PROVE  /\ Front \in Request /\ Front = waiters[1] /\ 1 \in 1..Len(waiters)
         /\ Tail(waiters) \in Seq(Request)
         /\ \A i \in 1..Len(Tail(waiters)) :
              /\ Tail(waiters)[i] = waiters[i + 1] /\ i + 1 \in 1..Len(waiters)
              /\ Tail(waiters)[i] # Front
         /\ \A i, j \in 1..Len(Tail(waiters)) :
              Tail(waiters)[i] = Tail(waiters)[j] => i = j
<1>1. waiters \in Seq(Request) /\ Len(waiters) \in Nat /\ Len(waiters) > 0
  BY DEF TypeOK
<1>2. Front \in Request /\ Front = waiters[1] /\ 1 \in 1..Len(waiters)
  BY <1>1 DEF Front
<1>3. Tail(waiters) \in Seq(Request) /\ Len(Tail(waiters)) = Len(waiters) - 1
  BY <1>1
<1>4. \A i \in 1..Len(Tail(waiters)) :
        Tail(waiters)[i] = waiters[i + 1] /\ i + 1 \in 1..Len(waiters) /\ i + 1 # 1
  BY <1>1, <1>3
<1>5. \A i \in 1..Len(Tail(waiters)) : Tail(waiters)[i] # Front
  BY <1>2, <1>4 DEF Queue
<1>6. ASSUME NEW i \in 1..Len(Tail(waiters)), NEW j \in 1..Len(Tail(waiters)),
             Tail(waiters)[i] = Tail(waiters)[j]
      PROVE  i = j
  <2>1. waiters[i + 1] = waiters[j + 1]
    BY <1>4, <1>6
  <2>2. i + 1 = j + 1
    BY <1>4, <2>1 DEF Queue
  <2> QED
    BY <2>2, <1>3, <1>1
<1> QED
  BY <1>2, <1>3, <1>4, <1>5, <1>6

\* The walk along the queue.
LEMMA WalkStep ==
  ASSUME IInv, Walk
  PROVE  IInv'
<1> USE DEF IInv
<1>1. CASE WalkSkip
  <2>1. \A s \in Request : Has(s)' <=> Has(s)
    BY <1>1 DEF Has, WalkSkip
  <2>2. Counts'
    BY <1>1, <2>1, KeepCounts DEF WalkSkip
  <2>3. TypeOK'
    BY <1>1, TailQueue DEF TypeOK, WalkSkip
  <2>4. Queue'
    BY <1>1, TailQueue DEF Queue, WalkSkip
  <2>5. Walks' /\ Unlatched'
    BY <1>1 DEF WalkSkip, Walking, Walks, Unlatched
  <2> QED
    BY <2>2, <2>3, <2>4, <2>5
<1>2. CASE WalkAllow
  <2>1. \A s \in Request : Has(s)' <=> Has(s)
    BY <1>2 DEF Has, WalkAllow
  <2>2. Counts'
    BY <1>2, <2>1, KeepCounts DEF WalkAllow
  <2>3. TypeOK' /\ Queue'
    BY <1>2 DEF TypeOK, Queue, WalkAllow
  <2>4. Walks' /\ Unlatched'
    BY <1>2 DEF WalkAllow, Walking, Walks, Unlatched, Front, Allow
  <2> QED
    BY <2>2, <2>3, <2>4
<1>3. CASE WalkTrigger
  <2>1. waiters # <<>> /\ Allow(kind[Front]) /\ owner # NoRequest
    BY <1>3 DEF WalkTrigger, Walks
  <2>2. Front \in Request /\ state[Front] \in {"waiting", "gone"}
    BY <2>1, TailQueue DEF Queue
  <2>3. PICK f \in Request : f = Front
    BY <2>2
  <2>4. PICK s \in {"lost", "granted"} : state' = [state EXCEPT ![f] = s]
    BY <1>3, <2>3 DEF WalkTrigger, Become
  <2>5. ~Has(f) /\ Has(f)' /\ \A q \in Request \ {f} : Has(q)' <=> Has(q)
    BY <2>2, <2>3, <2>4 DEF Has, TypeOK
  <2>6. Allow(kind[f]) /\ Add(f) /\ UNCHANGED kind
    BY <1>3, <2>1, <2>3 DEF WalkTrigger
  <2>7. Counts'
    BY <2>5, <2>6, GainCounts
  <2>8. state' \in [Request -> State]
    BY <2>4 DEF TypeOK, State
  <2>9. TypeOK'
    BY <1>3, <2>1, <2>6, <2>8, AddTypes, TailQueue DEF TypeOK, WalkTrigger
  <2>10. \A i \in 1..Len(waiters') :
           waiters'[i] # f /\ waiters'[i] \in Request
           /\ state[waiters'[i]] \in {"waiting", "gone"}
    BY <1>3, <2>1, <2>3, TailQueue DEF WalkTrigger, Queue, TypeOK
  <2>11. Queue'
    BY <1>3, <2>1, <2>4, <2>10, TailQueue DEF Queue, WalkTrigger, TypeOK
  <2>12. owner' = owner /\ phase' = "walk"
    BY <1>3 DEF WalkTrigger
  <2>13. state[owner] \in {"locking", "unlocked"} /\ owner # f
    BY <2>1, <2>2, <2>3 DEF Walks
  <2>14. Walks' /\ Unlatched'
    BY <2>1, <2>4, <2>12, <2>13 DEF Walks, Unlatched, TypeOK
  <2> QED
    BY <2>7, <2>9, <2>11, <2>14
<1> QED
  BY <1>1, <1>2, <1>3 DEF Walk

\* The end of lock_impl and of unlock_impl.
LEMMA EndStep ==
  ASSUME IInv, NEW r \in Request, LockTake(r) \/ LockQueue(r) \/ UnlockEnds(r)
  PROVE  IInv'
<1> USE DEF IInv
<1>1. owner = r /\ owner' = NoRequest /\ phase' = "walk" /\ UNCHANGED <<kind, seen>>
  BY DEF LockTake, LockQueue, UnlockEnds, WalkEnds, Walking, Unlatch
<1>2. waiters # <<>> => state[Front] # "gone" /\ ~Allow(kind[Front])
  BY DEF LockTake, LockQueue, UnlockEnds, WalkEnds
<1>3. state[r] \in {"locking", "unlocked"} /\ \A i \in 1..Len(waiters) : waiters[i] # r
  BY <1>1 DEF LockTake, LockQueue, UnlockEnds, Queue
<1>4. waiters \in Seq(Request) /\ \A i \in 1..Len(waiters) : waiters[i] \in Request
  BY DEF TypeOK
<1>5. CASE LockTake(r)
  <2>1. state' = [state EXCEPT ![r] = "granted"] /\ waiters = <<>> /\ waiters' = <<>>
        /\ next' = "none"
    BY <1>5 DEF LockTake, Become, Unlatch
  <2>2. ~Has(r) /\ Has(r)' /\ \A q \in Request \ {r} : Has(q)' <=> Has(q)
    BY <1>3, <2>1 DEF Has, TypeOK
  <2>3. Counts'
    BY <1>5, <2>2, GainCounts DEF LockTake
  <2>4. state' \in [Request -> State]
    BY <2>1 DEF TypeOK, State
  <2>5. TypeOK'
    BY <1>1, <1>5, <2>1, <2>4, AddTypes DEF TypeOK, LockTake
  <2>6. Queue' /\ Walks' /\ Unlatched'
    BY <1>1, <2>1 DEF Queue, Walks, Unlatched
  <2> QED
    BY <2>3, <2>5, <2>6
<1>6. CASE LockQueue(r)
  <2>1. state' = [state EXCEPT ![r] = "waiting"] /\ waiters' = Append(waiters, r)
        /\ next' = kind[Head(waiters')]
        /\ UNCHANGED <<excl, shared>> /\ (waiters = <<>> => ~Allow(kind[r]))
    BY <1>4, <1>6 DEF LockQueue, Become, Unlatch
  <2>2. \A q \in Request : Has(q)' <=> Has(q)
    BY <1>3, <2>1 DEF Has, TypeOK
  <2>3. Counts'
    BY <1>1, <2>1, <2>2, KeepCounts
  <2>4. waiters' \in Seq(Request) /\ Len(waiters') = Len(waiters) + 1
        /\ waiters' # <<>> /\ Front' = waiters'[1]
        /\ \A i \in 1..Len(waiters') :
             waiters'[i] = IF i = Len(waiters) + 1 THEN r ELSE waiters[i]
    BY <1>4, <2>1 DEF Front
  <2>5. state' \in [Request -> State]
    BY <2>1 DEF TypeOK, State
  <2>6. next' \in {"none", "excl", "shared"}
    BY <1>4, <2>1, <2>4 DEF TypeOK
  <2>7. TypeOK'
    BY <1>1, <2>1, <2>4, <2>5, <2>6 DEF TypeOK
  <2>8. Queue'
    BY <1>3, <1>4, <2>1, <2>4 DEF Queue, TypeOK
  <2>9. Front' = (IF waiters = <<>> THEN r ELSE Front) /\ ~Allow(kind[Front'])
    BY <1>2, <1>4, <2>1, <2>4 DEF Front
  <2>10. excl \/ shared # 0
    BY <2>9 DEF Allow
  <2>11. Unlatched'
    BY <1>1, <2>1, <2>4, <2>9, <2>10 DEF Unlatched, Allow, Front
  <2>12. Walks'
    BY <1>1 DEF Walks
  <2> QED
    BY <2>3, <2>7, <2>8, <2>11, <2>12
<1>7. CASE UnlockEnds(r)
  <2>1. state' = [state EXCEPT ![r] = "done"] /\ UNCHANGED <<excl, shared, waiters>>
        /\ next' = IF waiters = <<>> THEN "none" ELSE kind[Front]
    BY <1>7 DEF UnlockEnds, Become, Unlatch, Front
  <2>2. state[r] = "unlocked"
    BY <1>7 DEF UnlockEnds
  <2>3. \A q \in Request : Has(q)' <=> Has(q)
    BY <2>1, <2>2 DEF Has, TypeOK
  <2>4. Counts'
    BY <1>1, <2>1, <2>3, KeepCounts
  <2>5. state' \in [Request -> State]
    BY <2>1 DEF TypeOK, State
  <2>6. waiters # <<>> => Front \in Request
    BY <1>4 DEF Front
  <2>7. next' \in {"none", "excl", "shared"}
    BY <2>1, <2>6 DEF TypeOK
  <2>8. TypeOK'
    BY <1>1, <2>1, <2>5, <2>7 DEF TypeOK
  <2>9. Queue'
    BY <1>3, <1>4, <2>1 DEF Queue, TypeOK
  <2>10. waiters # <<>> => excl \/ shared # 0
    BY <1>2 DEF Allow
  <2>11. Walks' /\ Unlatched'
    BY <1>1, <1>2, <2>1, <2>10 DEF Walks, Unlatched, Front, Allow
  <2> QED
    BY <2>4, <2>8, <2>9, <2>11
<1> QED
  BY <1>5, <1>6, <1>7

-----------------------------------------------------------------------------
\* The inductive invariant holds in every reachable state of the mutex.
THEOREM Invariance == Spec => []IInv
<1>1. ASSUME IInv, [Next]_vars PROVE IInv'
  <2>1. CASE Walk
    BY <1>1, <2>1, WalkStep
  <2>2. ASSUME NEW r \in Request, Lock(r) \/ TryLock(r) \/ Own(r) \/ GiveUp(r) \/ Abandon(r)
        PROVE  IInv'
    BY <1>1, <2>2, QuietSteps, TryLockStep, UnlockFastStep, LatchStep, EndStep DEF Own
  <2>3. CASE UNCHANGED vars
    <3>1. \A q \in Request : Has(q)' <=> Has(q)
      BY <2>3 DEF Has, vars
    <3>2. Counts'
      BY <1>1, <2>3, <3>1, KeepCounts DEF IInv, vars
    <3>3. TypeOK' /\ Queue' /\ Walks' /\ Unlatched'
      BY <1>1, <2>3 DEF IInv, TypeOK, Queue, Walks, Unlatched, Front, Allow, vars
    <3> QED
      BY <3>2, <3>3 DEF IInv
  <2> QED
    BY <1>1, <2>1, <2>2, <2>3 DEF Next
<1> QED
  BY InitInv, <1>1, PTL DEF Spec

\* The variables keep their types; the count in the word never goes below zero.
THEOREM TypeCorrect == Spec => []TypeOK
<1>1. IInv => TypeOK
  BY DEF IInv
<1> QED
  BY Invariance, <1>1, PTL

\* Two requests have the lock at once only if both are shared, for any number
\* of requests and any interleaving of the fast and the slow paths.
THEOREM ExclusionHolds == Spec => []Exclusion
<1>1. ASSUME IInv PROVE Exclusion
  <2>1. ASSUME NEW r \in Request, NEW s \in Request, r # s, Has(r), Has(s),
               kind[r] = "excl"
        PROVE  FALSE
    <3>1. HoldsExcl(r) /\ excl /\ shared = 0
      BY <1>1, <2>1 DEF IInv, Counts, HoldsExcl
    <3>2. SharedHolders = {}
      BY <1>1, <3>1, FS_EmptySet DEF IInv, Counts
    <3>3. HoldsExcl(s)
      BY <1>1, <2>1, <3>2 DEF SharedHolders, HoldsExcl, IInv, TypeOK
    <3> QED
      BY <1>1, <2>1, <3>1, <3>3 DEF IInv, Counts
  <2> QED
    BY <1>1, <2>1 DEF Exclusion, IInv, TypeOK
<1> QED
  BY Invariance, <1>1, PTL

\* Whenever nobody owns the latch, a queue implies a holder whose unlock will
\* walk it, and a first waiter that could not be given the lock.
THEOREM NoLostWakeupHolds == Spec => []NoLostWakeup
<1>1. ASSUME IInv, owner = NoRequest, waiters # <<>>
      PROVE  (\E r \in Request : Has(r)) /\ (state[Front] = "waiting" => ~Allow(kind[Front]))
  <2>1. excl \/ SharedHolders # {}
    BY <1>1, FS_EmptySet DEF IInv, Unlatched, Counts
  <2>2. \E r \in Request : Has(r)
    BY <1>1, <2>1 DEF IInv, Counts, HoldsExcl, SharedHolders
  <2> QED
    BY <1>1, <2>2 DEF IInv, Unlatched
<1>2. IInv => NoLostWakeup
  BY <1>1 DEF NoLostWakeup
<1> QED
  BY Invariance, <1>2, PTL

\* No step gives the lock to a request that is not the first of the queue
\* while there is a queue.
THEOREM NoBargingHolds == Spec => NoBarging
<1> DEFINE Fair == \A r \in Request : ~Has(r) /\ Has(r)' => waiters = <<>> \/ r = Front
<1>1. ASSUME IInv, Next PROVE Fair
  <2> SUFFICES ASSUME NEW r \in Request, ~Has(r), Has(r)', waiters # <<>>
               PROVE  r = Front
    OBVIOUS
  <2>1. CASE Walk
    BY <1>1, <2>1 DEF Walk, WalkSkip, WalkAllow, WalkTrigger, Become, Has, IInv, TypeOK
  <2>2. ASSUME NEW q \in Request, Lock(q) \/ TryLock(q) \/ Own(q) \/ GiveUp(q) \/ Abandon(q)
        PROVE  FALSE
    <3>1. ~TryLock(q)
      BY <1>1 DEF TryLock, TryAllows, IInv, Unlatched, TypeOK, Front
    <3>2. ~LockTake(q)
      BY DEF LockTake
    <3>3. CASE Lock(q) \/ Unlock(q) \/ UnlockFast(q) \/ UnlockSlow(q)
      BY <1>1, <3>3 DEF Lock, Unlock, UnlockFast, UnlockSlow, Become, Has, IInv, TypeOK
    <3>4. CASE Latch(q)
      BY <1>1, <3>4 DEF Latch, Become, Has, IInv, TypeOK
    <3>5. CASE LockQueue(q) \/ UnlockEnds(q) \/ Resume(q)
      BY <1>1, <3>5 DEF LockQueue, UnlockEnds, Resume, Become, Has, IInv, TypeOK
    <3>6. CASE GiveUp(q) \/ Abandon(q)
      BY <1>1, <3>6 DEF GiveUp, Abandon, Become, Has, IInv, TypeOK
    <3> QED
      BY <2>2, <3>1, <3>2, <3>3, <3>4, <3>5, <3>6 DEF Own
  <2> QED
    BY <1>1, <2>1, <2>2 DEF Next
<1>2. IInv /\ [Next]_vars => [Fair]_vars
  BY <1>1
<1> QED
  BY Invariance, <1>2, PTL DEF Spec, NoBarging

\* The queue is served by the operation that frees the lock, and from its front.
THEOREM OrderlyHolds == Spec => Orderly
  BY NoLostWakeupHolds, NoBargingHolds, PTL DEF Orderly
=============================================================================
