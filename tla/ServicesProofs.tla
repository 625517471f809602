-------------------------- MODULE ServicesProofs ----------------------------
(***************************************************************************)
(* Theorems about the programs of Services: the event loop, for any number *)
(* of threads and any quota; the checksums of the RPC game, which agree    *)
(* for any set of clients and any number of calls; and the note server,    *)
(* whose responses are paired with their callers over HTTP, for any        *)
(* coroutines, requests and sizes of sockets, and over UDP, for any        *)
(* clients, sockets and losses.                                            *)
(***************************************************************************)
EXTENDS Services, FiniteSetTheorems, SequenceTheorems, TLAPS

(***************************************************************************)
(* The event loop.  That no wakeup is lost rests on one fact about the     *)
(* program counter: wakefd_ is published exactly from before the driver    *)
(* looks at lock_ for the last time until after it has left the kernel.    *)
(* That each event runs once: that it is in one of the two queues, once,   *)
(* from the push until it runs.                                            *)
(***************************************************************************)

Published == wakefd <=> pc \in {"recheck", "blocked", "drain", "awake"}

IInv == TypeOK /\ timers <= posts /\ Published /\ NoLostWake

\* The initial state satisfies the inductive invariant.
LEMMA InitInv == Init => IInv
<1> SUFFICES ASSUME Init PROVE IInv
  OBVIOUS
<1>1. guards \in Int
  <2>1. Guarded(hold) \subseteq Thread
    BY DEF Guarded
  <2> QED
    BY <2>1, DriverAssumption, FS_Subset, FS_CardinalityType DEF Init
<1>2. asap \in Seq(Thread \cup {Local}) /\ migrate \in Seq(Thread)
  BY DriverAssumption DEF Init
<1>3. hold \in [Thread -> Hold]
  BY DEF Init, Hold
<1>a. thread \in [Thread -> {"idle", "triggered", "locked", "pushed", "waking", "done"}]
  BY DEF Init
<1>b. quota \in 0..AsapQuota /\ timers \in 0..MaxPosts /\ posts \in 0..MaxPosts
      /\ clears \in 0..MaxClears /\ loops \in 1..MaxLoops
  BY DriverAssumption DEF Init
<1>c. keepalives \subseteq Thread /\ lock \in Thread \cup {NoThread}
  BY DEF Init
<1>4. TypeOK
  BY <1>1, <1>2, <1>3, <1>a, <1>b, <1>c DEF Init, TypeOK
<1>5. timers <= posts /\ Published /\ NoLostWake
  BY DEF Init, Published, NoLostWake
<1> QED
  BY <1>4, <1>5 DEF IInv

-----------------------------------------------------------------------------
\* The steps of another thread.  A thread that pushes while the driver blocks
\* finds wakefd_ set, and so writes to it.
LEMMA ThreadSteps ==
  ASSUME IInv, NEW t \in Thread, Trigger(t) \/ ThreadStep(t)
  PROVE  IInv'
<1> USE DEF IInv
<1>1. UNCHANGED <<pc, driverVars, wakefd, boundVars>>
  BY DEF Trigger, ThreadStep, Lock, Push, WakeLoad, WakeWrite
<1>2. thread' \in [Thread -> {"idle", "triggered", "locked", "pushed", "waking", "done"}]
  BY DEF Trigger, ThreadStep, Lock, Push, WakeLoad, WakeWrite, TypeOK
<1>3. lock' \in Thread \cup {NoThread} /\ eventfd' \in BOOLEAN
  BY DEF Trigger, ThreadStep, Lock, Push, WakeLoad, WakeWrite, TypeOK
<1>4. migrate' \in Seq(Thread)
  <2>1. migrate \in Seq(Thread) /\ Append(migrate, t) \in Seq(Thread)
    BY DEF TypeOK
  <2>2. migrate' \in {migrate, Append(migrate, t)}
    BY DEF Trigger, ThreadStep, Lock, Push, WakeLoad, WakeWrite
  <2> QED
    BY <2>1, <2>2
<1>5. TypeOK'
  BY <1>1, <1>2, <1>3, <1>4 DEF TypeOK, driverVars, boundVars
<1>6. timers' <= posts' /\ Published'
  BY <1>1 DEF Published, driverVars, boundVars
<1>7. NoLostWake'
  <2> SUFFICES ASSUME pc = "blocked", migrate' # <<>>
               PROVE  eventfd' \/ \E s \in Thread : thread'[s] \in {"pushed", "waking"}
    BY <1>1 DEF NoLostWake
  <2>1. wakefd
    BY DEF Published
  <2>2. CASE Push(t)
    BY <2>2 DEF Push, TypeOK
  <2>3. CASE WakeWrite(t)
    BY <2>3 DEF WakeWrite
  <2>4. ASSUME Trigger(t) \/ Lock(t) \/ WakeLoad(t)
        PROVE  eventfd' \/ \E s \in Thread : thread'[s] \in {"pushed", "waking"}
    <3>1. migrate' = migrate /\ eventfd' = eventfd
      BY <2>4 DEF Trigger, Lock, WakeLoad
    <3>2. \A s \in Thread :
            thread[s] \in {"pushed", "waking"} => thread'[s] \in {"pushed", "waking"}
      BY <2>1, <2>4 DEF Trigger, Lock, WakeLoad, TypeOK
    <3> QED
      BY <3>1, <3>2 DEF NoLostWake
  <2> QED
    BY <2>2, <2>3, <2>4 DEF ThreadStep
<1> QED
  BY <1>5, <1>6, <1>7

\* The steps in which the driver runs coroutines or looks after its queues:
\* it is not about to block.
LEMMA QueueSteps ==
  ASSUME IInv,
         \/ Import \/ RunLocal \/ Cull \/ FireTimer
         \/ \E t \in Thread : RunMigrated(t)
  PROVE  IInv'
<1> USE DEF IInv
<1> USE DriverAssumption
<1>1. CASE Import
  <2>1. asap' \in Seq(Thread \cup {Local}) /\ migrate' \in Seq(Thread) /\ quota' \in 0..AsapQuota
    <3>1. migrate \in Seq(Thread \cup {Local})
      BY DEF TypeOK
    <3> QED
      BY <1>1, <3>1 DEF Import, TypeOK, Emptied
  <2>2. TypeOK'
    BY <1>1, <2>1 DEF Import, TypeOK, boundVars
  <2> QED
    BY <1>1, <2>2 DEF Import, Published, NoLostWake, boundVars
<1>2. CASE RunLocal
  <2>1. asap # <<>> /\ quota' = quota - 1 /\ quota > 0 /\ pc = "asap" /\ pc' = "asap"
    BY <1>2 DEF RunLocal
  <2>2. Tail(asap) \in Seq(Thread \cup {Local})
    BY <2>1 DEF TypeOK
  <2>3. asap' \in Seq(Thread \cup {Local})
    <3>1. Append(Tail(asap), Local) \in Seq(Thread \cup {Local})
      BY <2>2
    <3>2. asap' \in {Tail(asap), Append(Tail(asap), Local)}
      BY <1>2 DEF RunLocal, Quiet, PostAsap, PostTimer, Clear
    <3> QED
      BY <2>2, <3>1, <3>2
  <2>4. /\ timers' \in 0..MaxPosts /\ posts' \in 0..MaxPosts /\ timers' <= posts'
        /\ clearing' \in BOOLEAN /\ clears' \in 0..MaxClears
    <3>1. CASE Quiet
      BY <3>1 DEF Quiet, TypeOK
    <3>2. CASE PostAsap
      BY <3>2 DEF PostAsap, TypeOK
    <3>3. CASE PostTimer
      BY <3>3 DEF PostTimer, TypeOK
    <3>4. CASE Clear
      BY <3>4 DEF Clear, TypeOK
    <3> QED
      BY <1>2, <3>1, <3>2, <3>3, <3>4 DEF RunLocal
  <2>5. TypeOK'
    BY <1>2, <2>1, <2>3, <2>4 DEF RunLocal, TypeOK, wakeVars
  <2> QED
    BY <1>2, <2>1, <2>4, <2>5 DEF RunLocal, Published, NoLostWake, wakeVars
<1>3. CASE Cull
  <2>1. /\ keepalives' \subseteq Thread /\ guards' \in Int
        /\ timers' \in 0..MaxPosts /\ timers' <= posts'
    BY <1>3 DEF Cull, Alive, TypeOK, boundVars
  <2>2. TypeOK'
    BY <1>3, <2>1 DEF Cull, TypeOK, wakeVars, boundVars
  <2> QED
    BY <1>3, <2>1, <2>2 DEF Cull, Published, NoLostWake, wakeVars
<1>4. CASE FireTimer
  <2>1. asap' \in Seq(Thread \cup {Local})
    <3>1. Append(asap, Local) \in Seq(Thread \cup {Local})
      BY DEF TypeOK
    <3>2. asap' \in {asap, Append(asap, Local)}
      BY <1>4 DEF FireTimer
    <3> QED
      BY <3>1, <3>2 DEF TypeOK
  <2>2. timers' \in 0..MaxPosts /\ posts' \in 0..MaxPosts /\ timers' <= posts'
    BY <1>4 DEF FireTimer, Due, TypeOK
  <2>3. TypeOK'
    BY <1>4, <2>1, <2>2 DEF FireTimer, TypeOK, wakeVars
  <2> QED
    BY <1>4, <2>2, <2>3 DEF FireTimer, Published, NoLostWake, wakeVars
<1>5. ASSUME NEW t \in Thread, RunMigrated(t) PROVE IInv'
  <2>1. asap # <<>> /\ quota' = quota - 1 /\ quota > 0 /\ pc = "asap" /\ pc' = "asap"
    BY <1>5 DEF RunMigrated
  <2>2. asap' \in Seq(Thread \cup {Local})
    BY <1>5, <2>1 DEF RunMigrated, TypeOK
  <2>3. hold' \in [Thread -> Hold] /\ guards' \in Int
    BY <1>5 DEF RunMigrated, GuardsWithout, TypeOK, Hold
  <2>4. TypeOK'
    BY <1>5, <2>1, <2>2, <2>3 DEF RunMigrated, TypeOK, wakeVars, boundVars
  <2> QED
    BY <1>5, <2>1, <2>4 DEF RunMigrated, Published, NoLostWake, wakeVars, boundVars
<1> QED
  BY <1>1, <1>2, <1>3, <1>4, <1>5

\* The steps around blocking.  The driver blocks only after it has found lock_
\* zero with wakefd_ published.
LEMMA BlockSteps ==
  ASSUME IInv,
         \/ Exit \/ Stay \/ Timeout \/ Watch \/ Recheck \/ Woken \/ HourPasses
         \/ Unwatch \/ EndPass \/ CallAgain
  PROVE  IInv'
<1> USE DEF IInv
<1>a. pc' \in {"import", "asap", "test", "timeout", "watch", "recheck", "blocked",
               "drain", "awake", "timers", "returned"}
  BY DEF Exit, Stay, Timeout, Watch, Recheck, Woken, HourPasses, Unwatch, EndPass, CallAgain
<1>b. clearing' \in BOOLEAN /\ wakefd' \in BOOLEAN
  BY DEF Exit, Stay, Timeout, Watch, Recheck, Woken, HourPasses, Unwatch, EndPass,
     CallAgain, TypeOK, driverVars, wakeVars
<1>c. eventfd' \in BOOLEAN
  BY DEF Exit, Stay, Timeout, Watch, Recheck, Woken, HourPasses, Unwatch, EndPass,
     CallAgain, TypeOK, wakeVars
<1>d. loops' \in 1..MaxLoops
  BY DriverAssumption DEF Exit, Stay, Timeout, Watch, Recheck, Woken, HourPasses, Unwatch,
     EndPass, CallAgain, TypeOK, boundVars
<1>1. /\ pc' \in {"import", "asap", "test", "timeout", "watch", "recheck", "blocked",
                  "drain", "awake", "timers", "returned"}
      /\ clearing' \in BOOLEAN /\ wakefd' \in BOOLEAN /\ eventfd' \in BOOLEAN
      /\ loops' \in 1..MaxLoops
  BY <1>a, <1>b, <1>c, <1>d
<1>2. UNCHANGED <<quota, asap, timers, guards, keepalives, hold, lock, migrate, thread,
                  posts, clears>>
  BY DEF Exit, Stay, Timeout, Watch, Recheck, Woken, HourPasses, Unwatch, EndPass,
     CallAgain, driverVars, wakeVars, boundVars
<1>3. TypeOK'
  BY <1>1, <1>2 DEF TypeOK
<1>4. Published'
  BY DEF Published, Exit, Stay, Timeout, Watch, Recheck, Woken, HourPasses, Unwatch,
     EndPass, CallAgain, driverVars, wakeVars, boundVars
<1>5. NoLostWake'
  <2>1. pc' = "blocked" => Recheck /\ migrate' = <<>>
    BY <1>2 DEF Exit, Stay, Timeout, Watch, Recheck, Woken, HourPasses, Unwatch,
       EndPass, CallAgain, MustPoll, Busy
  <2> QED
    BY <2>1 DEF NoLostWake
<1> QED
  BY <1>2, <1>3, <1>4, <1>5

-----------------------------------------------------------------------------
\* An event is in a queue, and there once.
Among(s, t) == \E i \in 1..Len(s) : s[i] = t
Single(s, t) == \A i, j \in 1..Len(s) : s[i] = t /\ s[j] = t => i = j

\* The event of t has been pushed and its coroutine has yet to run.
Pending(t) == thread[t] \in {"pushed", "waking", "done"} /\ hold[t] # "run"

\* It is then in one of the two queues, once, and otherwise in none.
Queued(t) ==
  /\ Single(asap, t) /\ Single(migrate, t)
  /\ ~(Among(asap, t) /\ Among(migrate, t))
  /\ Among(asap, t) \/ Among(migrate, t) <=> Pending(t)
  /\ hold[t] = "run" => thread[t] \in {"pushed", "waking", "done"}

\* Something else is appended.
LEMMA AppendOther ==
  ASSUME NEW S, NEW s \in Seq(S), NEW x \in S, NEW t, x # t
  PROVE  /\ Among(Append(s, x), t) <=> Among(s, t)
         /\ Single(s, t) => Single(Append(s, x), t)
<1>1. /\ Len(s) \in Nat /\ Len(Append(s, x)) = Len(s) + 1 /\ Append(s, x)[Len(s) + 1] = x
      /\ \A i \in 1..Len(s) : Append(s, x)[i] = s[i]
  OBVIOUS
<1> QED
  BY <1>1 DEF Among, Single

\* The event itself is appended.
LEMMA AppendNew ==
  ASSUME NEW S, NEW s \in Seq(S), NEW t \in S, ~Among(s, t)
  PROVE  Among(Append(s, t), t) /\ Single(Append(s, t), t)
<1>1. /\ Len(s) \in Nat /\ Len(Append(s, t)) = Len(s) + 1 /\ Append(s, t)[Len(s) + 1] = t
      /\ \A i \in 1..Len(s) : Append(s, t)[i] = s[i]
  OBVIOUS
<1> QED
  BY <1>1 DEF Among, Single

\* The first element is taken.
LEMMA TakeFirst ==
  ASSUME NEW S, NEW s \in Seq(S), s # <<>>, NEW t
  PROVE  /\ Head(s) # t => (Among(Tail(s), t) <=> Among(s, t))
         /\ Single(s, t) => Single(Tail(s), t) /\ (Head(s) = t => Among(s, t) /\ ~Among(Tail(s), t))
<1>1. /\ Len(s) \in Nat /\ Len(s) > 0 /\ Len(Tail(s)) = Len(s) - 1 /\ Head(s) = s[1]
      /\ \A i \in 1..Len(s) - 1 : Tail(s)[i] = s[i + 1] /\ i + 1 \in 1..Len(s)
  OBVIOUS
<1>2. \A i \in 1..Len(Tail(s)) : i \in 1..Len(s) - 1
  BY <1>1
<1>3. 1 \in 1..Len(s)
  BY <1>1
<1>4. ASSUME Head(s) # t PROVE Among(Tail(s), t) <=> Among(s, t)
  <2>1. ASSUME NEW i \in 1..Len(s), s[i] = t PROVE Among(Tail(s), t)
    <3>1. i # 1 /\ i - 1 \in 1..Len(s) - 1
      BY <1>1, <1>4, <2>1
    <3>2. Tail(s)[i - 1] = s[i]
      BY <1>1, <3>1
    <3> QED
      BY <1>1, <2>1, <3>1, <3>2 DEF Among
  <2>2. ASSUME NEW i \in 1..Len(Tail(s)), Tail(s)[i] = t PROVE Among(s, t)
    BY <1>1, <1>2, <2>2 DEF Among
  <2> QED
    BY <2>1, <2>2 DEF Among
<1>5. ASSUME Single(s, t)
      PROVE  Single(Tail(s), t) /\ (Head(s) = t => Among(s, t) /\ ~Among(Tail(s), t))
  <2>1. ASSUME NEW i \in 1..Len(Tail(s)), NEW j \in 1..Len(Tail(s)), Tail(s)[i] = t, Tail(s)[j] = t
        PROVE  i = j
    <3>1. /\ s[i + 1] = t /\ s[j + 1] = t /\ i + 1 \in 1..Len(s) /\ j + 1 \in 1..Len(s)
          /\ i \in Int /\ j \in Int
      BY <1>1, <1>2, <2>1
    <3>2. i + 1 = j + 1
      BY <1>5, <3>1 DEF Single
    <3> QED
      BY <3>1, <3>2
  <2>2. ASSUME Head(s) = t, NEW i \in 1..Len(Tail(s)) PROVE Tail(s)[i] # t
    <3>1. Tail(s)[i] = s[i + 1] /\ i + 1 \in 1..Len(s) /\ i + 1 # 1
      BY <1>1, <1>2
    <3> QED
      BY <1>1, <1>3, <1>5, <2>2, <3>1 DEF Single
  <2> QED
    BY <1>1, <1>3, <2>1, <2>2 DEF Single, Among
<1> QED
  BY <1>4, <1>5

\* One queue is appended to the other.
LEMMA Joined ==
  ASSUME NEW S, NEW s \in Seq(S), NEW u \in Seq(S), NEW t
  PROVE  /\ Among(s \o u, t) <=> Among(s, t) \/ Among(u, t)
         /\ Single(s, t) /\ Single(u, t) /\ ~(Among(s, t) /\ Among(u, t)) => Single(s \o u, t)
<1>1. /\ Len(s) \in Nat /\ Len(u) \in Nat /\ Len(s \o u) = Len(s) + Len(u)
      /\ \A i \in 1..Len(s) : (s \o u)[i] = s[i]
      /\ \A i \in 1..Len(u) : (s \o u)[Len(s) + i] = u[i]
  OBVIOUS
<1>2. \A i \in 1..Len(s \o u) : i \in 1..Len(s) \/ (i - Len(s) \in 1..Len(u) /\ i = Len(s) + (i - Len(s)))
  BY <1>1
<1>3. ASSUME NEW i \in 1..Len(s \o u)
      PROVE  (s \o u)[i] = IF i \in 1..Len(s) THEN s[i] ELSE u[i - Len(s)]
  BY <1>1, <1>2
<1>4. Among(s \o u, t) <=> Among(s, t) \/ Among(u, t)
  <2>1. ASSUME NEW i \in 1..Len(s \o u), (s \o u)[i] = t PROVE Among(s, t) \/ Among(u, t)
    BY <1>2, <1>3, <2>1 DEF Among
  <2>2. ASSUME NEW i \in 1..Len(s), s[i] = t PROVE Among(s \o u, t)
    <3>1. i \in 1..Len(s \o u)
      BY <1>1
    <3> QED
      BY <1>1, <2>2, <3>1 DEF Among
  <2>3. ASSUME NEW i \in 1..Len(u), u[i] = t PROVE Among(s \o u, t)
    <3>1. Len(s) + i \in 1..Len(s \o u)
      BY <1>1
    <3> QED
      BY <1>1, <2>3, <3>1 DEF Among
  <2> QED
    BY <2>1, <2>2, <2>3 DEF Among
<1>5. ASSUME Single(s, t), Single(u, t), ~(Among(s, t) /\ Among(u, t)),
             NEW i \in 1..Len(s \o u), NEW j \in 1..Len(s \o u), (s \o u)[i] = t, (s \o u)[j] = t
      PROVE  i = j
  <2>1. CASE i \in 1..Len(s) /\ j \in 1..Len(s)
    BY <1>1, <1>5, <2>1 DEF Single
  <2>2. CASE i \notin 1..Len(s) /\ j \notin 1..Len(s)
    <3>1. /\ i - Len(s) \in 1..Len(u) /\ j - Len(s) \in 1..Len(u)
          /\ u[i - Len(s)] = t /\ u[j - Len(s)] = t /\ i \in Int /\ j \in Int
      BY <1>2, <1>3, <1>5, <2>2
    <3>2. i - Len(s) = j - Len(s)
      BY <1>5, <3>1 DEF Single
    <3> QED
      BY <1>1, <3>1, <3>2
  <2>3. CASE i \in 1..Len(s) /\ j \notin 1..Len(s)
    BY <1>1, <1>2, <1>3, <1>5, <2>3 DEF Among
  <2>4. CASE i \notin 1..Len(s) /\ j \in 1..Len(s)
    BY <1>1, <1>2, <1>3, <1>5, <2>4 DEF Among
  <2> QED
    BY <2>1, <2>2, <2>3, <2>4
<1> QED
  BY <1>4, <1>5 DEF Single

\* Nothing is queued at first.
LEMMA QueuedInit ==
  ASSUME Init, NEW t \in Thread
  PROVE  Queued(t)
<1>1. /\ migrate = <<>> /\ thread[t] = "idle" /\ hold[t] # "run"
      /\ \A i \in 1..Len(asap) : asap[i] # t
  BY DriverAssumption DEF Init
<1> QED
  BY <1>1 DEF Queued, Among, Single, Pending

\* An event is pushed once, runs once, and is in a queue in between.
LEMMA QueuedStep ==
  ASSUME IInv, [Next]_vars, NEW t \in Thread, Queued(t)
  PROVE  Queued(t)'
<1>1. /\ asap \in Seq(Thread \cup {Local}) /\ migrate \in Seq(Thread) /\ Local # t
      /\ thread \in [Thread -> {"idle", "triggered", "locked", "pushed", "waking", "done"}]
      /\ hold \in [Thread -> Hold]
  BY DriverAssumption DEF IInv, TypeOK
<1>2. ASSUME UNCHANGED <<asap, migrate, hold>>,
             thread'[t] \in {"pushed", "waking", "done"} <=> thread[t] \in {"pushed", "waking", "done"}
      PROVE  Queued(t)'
  BY <1>2 DEF Queued, Pending, Among, Single
<1>3. ASSUME UNCHANGED <<migrate, hold, thread>>, Among(asap', t) <=> Among(asap, t),
             Single(asap, t) => Single(asap', t)
      PROVE  Queued(t)'
  BY <1>3 DEF Queued, Pending, Among, Single
<1>4. CASE UNCHANGED vars
  BY <1>2, <1>4 DEF vars, driverVars, wakeVars
<1>5. ASSUME \/ Cull \/ Exit \/ Stay \/ Timeout \/ Watch \/ Recheck \/ Woken \/ HourPasses
             \/ Unwatch \/ EndPass \/ CallAgain
      PROVE  Queued(t)'
  <2>1. UNCHANGED <<asap, migrate, hold, thread>>
    BY <1>5 DEF Cull, Exit, Stay, Timeout, Watch, Recheck, Woken, HourPasses, Unwatch, EndPass,
                CallAgain, driverVars, wakeVars
  <2> QED
    BY <1>2, <2>1
<1>6. ASSUME NEW u \in Thread, Trigger(u) \/ Lock(u) \/ WakeLoad(u) \/ WakeWrite(u)
      PROVE  Queued(t)'
  <2>1. UNCHANGED <<asap, migrate, hold>>
    BY <1>6 DEF Trigger, Lock, WakeLoad, WakeWrite, driverVars
  <2>2. thread'[t] \in {"pushed", "waking", "done"} <=> thread[t] \in {"pushed", "waking", "done"}
    BY <1>1, <1>6 DEF Trigger, Lock, WakeLoad, WakeWrite
  <2> QED
    BY <1>2, <2>1, <2>2
<1>7. ASSUME NEW u \in Thread, Push(u)
      PROVE  Queued(t)'
  <2>1. /\ UNCHANGED <<asap, hold>> /\ migrate' = Append(migrate, u)
        /\ thread[u] = "locked" /\ thread' = [thread EXCEPT ![u] = "pushed"]
    BY <1>7 DEF Push, driverVars
  <2>2. CASE u # t
    <3>1. thread'[t] = thread[t] /\ (Among(migrate', t) <=> Among(migrate, t))
          /\ (Single(migrate, t) => Single(migrate', t))
      BY <1>1, <2>1, <2>2, AppendOther
    <3>2. asap' = asap /\ hold' = hold
      BY <2>1
    <3> QED
      BY <3>1, <3>2 DEF Queued, Pending, Among, Single
  <2>3. CASE u = t
    <3>1. thread'[t] = "pushed" /\ ~Pending(t) /\ hold[t] # "run"
      BY <1>1, <2>1, <2>3 DEF Pending, Queued
    <3>2. Among(migrate', t) /\ Single(migrate', t)
      BY <1>1, <2>1, <2>3, <3>1, AppendNew DEF Queued
    <3>3. asap' = asap /\ hold' = hold
      BY <2>1
    <3> QED
      BY <3>1, <3>2, <3>3 DEF Queued, Pending, Among, Single
  <2> QED
    BY <2>2, <2>3
<1>8. CASE Import
  <2>1. asap' = asap \o migrate /\ migrate' = <<>> /\ UNCHANGED <<hold, thread>>
    BY <1>8 DEF Import, Emptied
  <2>2. migrate \in Seq(Thread \cup {Local})
    BY <1>1
  <2>3. /\ Among(asap', t) <=> Among(asap, t) \/ Among(migrate, t)
        /\ Single(asap', t)
    BY <1>1, <2>1, <2>2, Joined DEF Queued
  <2>4. ~Among(migrate', t) /\ Single(migrate', t)
    BY <2>1 DEF Among, Single
  <2> QED
    BY <2>1, <2>3, <2>4 DEF Queued, Pending, Among, Single
<1>9. CASE RunLocal
  <2>1. /\ asap # <<>> /\ Head(asap) = Local /\ UNCHANGED <<migrate, hold, thread>>
        /\ asap' \in {Tail(asap), Append(Tail(asap), Local)}
    BY <1>9 DEF RunLocal, Quiet, PostAsap, PostTimer, Clear, wakeVars
  <2>2. /\ Tail(asap) \in Seq(Thread \cup {Local})
        /\ Among(Tail(asap), t) <=> Among(asap, t)
        /\ Single(asap, t) => Single(Tail(asap), t)
    BY <1>1, <2>1, TakeFirst
  <2>3. /\ Among(Append(Tail(asap), Local), t) <=> Among(asap, t)
        /\ Single(asap, t) => Single(Append(Tail(asap), Local), t)
    <3>1. PICK s \in Seq(Thread \cup {Local}) : s = Tail(asap)
      BY <2>2
    <3>2. /\ Among(Append(s, Local), t) <=> Among(s, t)
          /\ Single(s, t) => Single(Append(s, Local), t)
      BY <1>1, AppendOther
    <3> QED
      BY <2>2, <3>1, <3>2
  <2> QED
    BY <1>3, <2>1, <2>2, <2>3
<1>10. CASE FireTimer
  <2>1. asap' \in {asap, Append(asap, Local)} /\ UNCHANGED <<migrate, hold, thread>>
    BY <1>10 DEF FireTimer, wakeVars
  <2>2. /\ Among(Append(asap, Local), t) <=> Among(asap, t)
        /\ Single(asap, t) => Single(Append(asap, Local), t)
    BY <1>1, AppendOther
  <2> QED
    BY <1>3, <2>1, <2>2
<1>11. ASSUME NEW u \in Thread, RunMigrated(u)
       PROVE  Queued(t)'
  <2>1. /\ asap # <<>> /\ Head(asap) = u /\ asap' = Tail(asap)
        /\ hold' = [hold EXCEPT ![u] = "run"] /\ UNCHANGED <<migrate, thread>>
    BY <1>11 DEF RunMigrated, wakeVars
  <2>2. Single(asap', t)
    BY <1>1, <2>1, TakeFirst DEF Queued
  <2>3. CASE u # t
    <3>1. hold'[t] = hold[t] /\ (Among(asap', t) <=> Among(asap, t))
      BY <1>1, <2>1, <2>3, TakeFirst
    <3>2. migrate' = migrate /\ thread' = thread
      BY <2>1
    <3> QED
      BY <2>2, <3>1, <3>2 DEF Queued, Pending, Among, Single
  <2>4. CASE u = t
    <3>1. hold'[t] = "run" /\ Among(asap, t) /\ ~Among(asap', t)
      BY <1>1, <2>1, <2>4, TakeFirst DEF Queued
    <3>2. migrate' = migrate /\ thread' = thread
      BY <2>1
    <3> QED
      BY <2>2, <3>1, <3>2 DEF Queued, Pending, Among, Single
  <2> QED
    BY <2>3, <2>4
<1> QED
  BY <1>4, <1>5, <1>6, <1>7, <1>8, <1>9, <1>10, <1>11 DEF Next, LoopStep, ThreadStep

\* What is queued once counts one.
LEMMA QueuedCount ==
  ASSUME TypeOK, \A t \in Thread : Queued(t)
  PROVE  QueuedOnce
<1> DEFINE queue == asap \o migrate
           Places(t) == {i \in 1..Len(queue) : queue[i] = t}
<1> SUFFICES ASSUME NEW t \in Thread
             PROVE  Cardinality(Places(t)) = IF Pending(t) THEN 1 ELSE 0
  BY DEF QueuedOnce, Pending
<1>1. asap \in Seq(Thread \cup {Local}) /\ migrate \in Seq(Thread \cup {Local})
  BY DEF TypeOK
<1>2. (Among(queue, t) <=> Pending(t)) /\ Single(queue, t)
  BY <1>1, Joined DEF Queued
<1>3. CASE Pending(t)
  <2>1. PICK i \in 1..Len(queue) : queue[i] = t
    BY <1>2, <1>3 DEF Among
  <2>2. Places(t) = {i}
    BY <1>2, <2>1 DEF Single
  <2>3. Cardinality({i}) = 1
    BY FS_Singleton
  <2> QED
    BY <1>3, <2>2, <2>3
<1>4. CASE ~Pending(t)
  <2>1. Places(t) = {}
    BY <1>2, <1>4 DEF Among
  <2> QED
    BY <1>4, <2>1, FS_EmptySet
<1> QED
  BY <1>3, <1>4

-----------------------------------------------------------------------------
\* The inductive invariant holds in every reachable state of the loop.
THEOREM Invariance == Spec => []IInv
<1>1. ASSUME IInv, [Next]_vars PROVE IInv'
  <2>1. CASE Next
    BY <1>1, <2>1, ThreadSteps, QueueSteps, BlockSteps DEF Next, LoopStep
  <2>2. CASE UNCHANGED vars
    BY <1>1, <2>2 DEF IInv, TypeOK, Published, NoLostWake, vars, driverVars, wakeVars,
       boundVars
  <2> QED
    BY <1>1, <2>1, <2>2
<1> QED
  BY InitInv, <1>1, PTL DEF Spec

\* The variables keep their types, the timer count never below zero.
THEOREM TypeCorrect == Spec => []TypeOK
<1>1. IInv => TypeOK
  BY DEF IInv
<1> QED
  BY Invariance, <1>1, PTL

\* What another thread triggers wakes the driver, and runs once: until then it is queued
\* exactly once.
THEOREM HandedOverHolds == Spec => []HandedOver
<1> DEFINE QInv == \A t \in Thread : Queued(t)
<1>1. Init => QInv
  BY QueuedInit
<1>2. IInv /\ QInv /\ [Next]_vars => QInv'
  BY QueuedStep
<1>3. IInv /\ QInv => HandedOver
  BY QueuedCount DEF HandedOver, IInv
<1> QED
  BY Invariance, <1>1, <1>2, <1>3, PTL DEF Spec

-----------------------------------------------------------------------------
(***************************************************************************)
(* The RPC game.                                                           *)
(***************************************************************************)

Lines == Client \X Nat
Values == Lines \X Nat
Hashes == [requests : Seq(Lines), responses : Seq(Values)]

HashTypes ==
  /\ sentHash \in [Client -> Seq(Lines)] /\ gotHash \in [Client -> Seq(Values)]
  /\ serverHash \in Hashes /\ response \in [Client -> Hashes]
  /\ verdict \in [Client -> {"none", "match", "mismatch"}]

\* Where a client is says where its handler is.
PlaceOf(c) ==
  /\ rpc_pc[c] = "off" => handler[c] = "none" /\ serial[c] = 1
  /\ rpc_pc[c] \in {"run", "verdict"} => handler[c] = "none"
  /\ rpc_pc[c] = "wait" => handler[c] \in {"try", "turn", "replied"} /\ serial[c] > 1
  /\ rpc_pc[c] = "finish" => handler[c] \in {"done", "halfdone", "replied"}
  /\ rpc_pc[c] = "finish" \/ handler[c] \in {"done", "halfdone"} => ~Game!More(c)
  /\ handler[c] \in {"try", "turn"} => serial[c] > 1
  /\ serial[c] > 1 => 1 <= N

\* What a client has hashed before its first call is processed.
BeforeFirst(c) ==
  /\ serial[c] = 1 => sentHash[c] = <<>> /\ gotHash[c] = <<>>
  /\ serial[c] = 2 /\ handler[c] = "try" => sentHash[c] = <<Game!Line(c, 1)>> /\ gotHash[c] = <<>>

\* The first call of client c was processed, or is now.
Own(c) == serial[c] > 2 \/ (serial[c] = 2 /\ handler[c] # "try")

\* Then c's calls are all that the server has hashed, up to the one under way.
OwnerOf(c) ==
  /\ wantSerial = (IF handler[c] = "try" THEN serial[c] - 1 ELSE serial[c])
  /\ rpc_pc[c] # "dead" =>
       /\ sentHash[c] = IF handler[c] \in {"try", "turn"}
                        THEN Append(serverHash.requests, Game!Line(c, Game!RequestSerial(c)))
                        ELSE serverHash.requests
       /\ serverHash.responses = IF rpc_pc[c] = "wait" /\ handler[c] = "replied"
                                 THEN gotHash[c] \o response[c].responses
                                 ELSE gotHash[c]

OwnInv ==
  /\ \A c, d \in Client : Own(c) /\ Own(d) => c = d
  /\ (\A c \in Client : ~Own(c)) => wantSerial = 1 /\ serverHash = Game!NoHashes
  /\ \A c \in Client : Own(c) => OwnerOf(c)

\* What Done has answered so far.
FinishOf(c) ==
  rpc_pc[c] # "dead" =>
    /\ handler[c] = "halfdone" => response[c].requests = sentHash[c]
    /\ rpc_pc[c] = "finish" /\ handler[c] = "replied" =>
         response[c] = [requests |-> sentHash[c], responses |-> gotHash[c]]

\* Whoever could send has asked for the checksums, or there are no calls.
Over ==
  \/ ~(1 <= N)
  \/ \E c \in Client : /\ Own(c) /\ rpc_pc[c] \in {"finish", "verdict", "dead"}
                       /\ handler[c] \notin {"try", "turn"}

GameInv ==
  /\ Game!TypeOK /\ HashTypes /\ Game!NoMismatch /\ OwnInv
  /\ \A c \in Client : PlaceOf(c) /\ BeforeFirst(c) /\ FinishOf(c)
  /\ done => Over

-----------------------------------------------------------------------------
\* The invariant holds initially.
LEMMA GameInit == Game!Init => GameInv
<1> SUFFICES ASSUME Game!Init PROVE GameInv
  OBVIOUS
<1> USE DEF Game!Init
<1>1. Game!TypeOK
  <2>1. /\ rpc_pc \in [Client -> {"off", "run", "wait", "finish", "verdict", "dead"}]
        /\ serial \in [Client -> Nat \ {0}]
        /\ handler \in [Client -> {"none", "try", "turn", "done", "halfdone", "replied"}]
    OBVIOUS
  <2>2. wantSerial = 1 /\ count = 0 /\ done = FALSE /\ server = "up"
    OBVIOUS
  <2> HIDE DEF Game!Init
  <2>3. wantSerial \in Nat \ {0} /\ count \in Nat
    BY <2>2
  <2>4. done \in BOOLEAN
    BY <2>2, Zenon
  <2> QED
    BY <2>1, <2>2, <2>3, <2>4 DEF Game!TypeOK
<1>2. HashTypes
  BY DEF HashTypes, Hashes, Game!NoHashes
<1>3. /\ ~done /\ wantSerial = 1 /\ serverHash = Game!NoHashes
      /\ \A c \in Client : /\ rpc_pc[c] = "off" /\ serial[c] = 1 /\ handler[c] = "none"
                           /\ sentHash[c] = <<>> /\ gotHash[c] = <<>> /\ verdict[c] = "none"
  OBVIOUS
<1> HIDE DEF Game!Init
<1>4. Game!NoMismatch /\ \A c \in Client : ~Own(c) /\ PlaceOf(c) /\ BeforeFirst(c) /\ FinishOf(c)
  BY <1>3 DEF Game!NoMismatch, Own, PlaceOf, BeforeFirst, FinishOf
<1> QED
  BY <1>1, <1>2, <1>3, <1>4 DEF GameInv, OwnInv

\* Every step keeps the types.
LEMMA GameTypeStep == Game!TypeOK /\ [Game!Next]_Game!vars => Game!TypeOK'
<1> SUFFICES ASSUME Game!TypeOK, [Game!Next]_Game!vars PROVE Game!TypeOK'
  OBVIOUS
<1> USE DEF Game!TypeOK, Game!clientVars, Game!serverVars
<1>1. ASSUME NEW c \in Client, Game!Connect(c) \/ Game!Finish(c) \/ Game!RecvTry(c) PROVE Game!TypeOK'
  BY <1>1 DEF Game!Connect, Game!Finish, Game!RecvTry
<1>2. ASSUME NEW c \in Client, Game!SendTry(c) PROVE Game!TypeOK'
  <2>1. serial' \in [Client -> Nat \ {0}]
    BY <1>2 DEF Game!SendTry
  <2> QED
    BY <1>2, <2>1 DEF Game!SendTry
<1>3. ASSUME NEW c \in Client, Game!Compare(c) \/ Game!Refused(c) \/ Game!Kill(c) PROVE Game!TypeOK'
  BY <1>3 DEF Game!Compare, Game!Refused, Game!Kill
<1>4. ASSUME NEW c \in Client, Game!TakeTurn(c) \/ Game!Process(c) PROVE Game!TypeOK'
  <2>1. wantSerial' \in Nat \ {0} /\ count' \in Nat
    BY <1>4 DEF Game!TakeTurn, Game!Process, Game!NextSerial
  <2> QED
    BY <1>4, <2>1 DEF Game!TakeTurn, Game!Process
<1>5. ASSUME NEW c \in Client, Game!ChecksumRequests(c) \/ Game!ChecksumResponses(c) \/ Game!DropReply(c)
      PROVE  Game!TypeOK'
  BY <1>5 DEF Game!ChecksumRequests, Game!ChecksumResponses, Game!DropReply
<1>6. ASSUME Game!Shutdown \/ Game!Exit \/ UNCHANGED Game!vars PROVE Game!TypeOK'
  BY <1>6 DEF Game!Shutdown, Game!Exit, Game!vars
<1> QED
  BY <1>1, <1>2, <1>3, <1>4, <1>5, <1>6 DEF Game!Next, Game!ClientStep, Game!Handle

\* And so does every step keep the types of hashes, responses and verdicts.
LEMMA HashStep == Game!TypeOK /\ HashTypes /\ [Game!Next]_Game!vars => HashTypes'
<1> SUFFICES ASSUME Game!TypeOK, HashTypes, [Game!Next]_Game!vars PROVE HashTypes'
  OBVIOUS
<1> USE DEF HashTypes, Game!clientVars, Game!serverVars
<1>1. ASSUME UNCHANGED <<sentHash, gotHash, serverHash, response, verdict>> PROVE HashTypes'
  BY <1>1
<1>2. ASSUME NEW c \in Client, Game!SendTry(c) PROVE HashTypes'
  <2>1. Game!Line(c, serial[c]) \in Lines
    BY DEF Game!TypeOK, Game!Line, Lines
  <2> QED
    BY <1>2, <2>1 DEF Game!SendTry
<1>3. ASSUME NEW c \in Client, Game!RecvTry(c) PROVE HashTypes'
  <2>1. response[c].responses \in Seq(Values) /\ gotHash[c] \in Seq(Values)
    BY DEF Hashes
  <2>2. gotHash[c] \o response[c].responses \in Seq(Values)
    BY <2>1
  <2> QED
    BY <1>3, <2>2 DEF Game!RecvTry
<1>4. ASSUME NEW c \in Client, Game!Process(c) PROVE HashTypes'
  <2> DEFINE line == Game!Line(c, Game!RequestSerial(c))
  <2>1. serial[c] - 1 \in Nat /\ count \in Nat
    BY DEF Game!TypeOK
  <2>2. line \in Lines
    BY <2>1 DEF Game!Line, Lines, Game!RequestSerial
  <2>3. Game!Value(line) \in Values
    BY <2>1, <2>2 DEF Game!Value, Values
  <2>4. <<Game!Value(line)>> \in Seq(Values)
    BY <2>3
  <2>5. serverHash' = [requests |-> Append(serverHash.requests, line),
                       responses |-> Append(serverHash.responses, Game!Value(line))]
    BY <1>4 DEF Game!Process, Game!Hashed
  <2>6. serverHash' \in Hashes
    <3>1. serverHash.requests \in Seq(Lines) /\ serverHash.responses \in Seq(Values)
      BY DEF Hashes
    <3>2. /\ Append(serverHash.requests, line) \in Seq(Lines)
          /\ Append(serverHash.responses, Game!Value(line)) \in Seq(Values)
      BY <2>2, <2>3, <3>1
    <3> QED
      BY <2>5, <3>2 DEF Hashes
  <2>7. response' \in [Client -> Hashes]
    BY <1>4, <2>4 DEF Game!Process, Hashes
  <2> QED
    BY <1>4, <2>6, <2>7 DEF Game!Process
<1>5. ASSUME NEW c \in Client, Game!ChecksumRequests(c) \/ Game!ChecksumResponses(c) PROVE HashTypes'
  <2>1. response' \in [Client -> Hashes]
    <3>1. /\ serverHash.requests \in Seq(Lines) /\ serverHash.responses \in Seq(Values)
          /\ response[c].requests \in Seq(Lines) /\ response[c].responses \in Seq(Values)
      BY DEF Hashes
    <3>2. /\ [response[c] EXCEPT !.requests = serverHash.requests] \in Hashes
          /\ [response[c] EXCEPT !.responses = serverHash.responses] \in Hashes
      BY <3>1 DEF Hashes
    <3> QED
      BY <1>5, <3>2 DEF Game!ChecksumRequests, Game!ChecksumResponses
  <2> QED
    BY <1>5, <2>1 DEF Game!ChecksumRequests, Game!ChecksumResponses
<1>8. ASSUME NEW c \in Client, Game!Compare(c) PROVE HashTypes'
  BY <1>8 DEF Game!Compare
<1>6. ASSUME NEW c \in Client, \/ Game!Connect(c) \/ Game!Finish(c) \/ Game!Refused(c) \/ Game!Kill(c)
                               \/ Game!TakeTurn(c) \/ Game!DropReply(c)
      PROVE  HashTypes'
  BY <1>1, <1>6 DEF Game!Connect, Game!Finish, Game!Refused, Game!Kill, Game!TakeTurn, Game!DropReply
<1>7. ASSUME Game!Shutdown \/ Game!Exit \/ UNCHANGED Game!vars PROVE HashTypes'
  BY <1>1, <1>7 DEF Game!Shutdown, Game!Exit, Game!vars
<1> QED
  BY <1>2, <1>3, <1>4, <1>5, <1>6, <1>7, <1>8 DEF Game!Next, Game!ClientStep, Game!Handle

-----------------------------------------------------------------------------
\* A step of another client leaves d as it is.
Same(d) ==
  /\ rpc_pc'[d] = rpc_pc[d] /\ serial'[d] = serial[d] /\ verdict'[d] = verdict[d]
  /\ sentHash'[d] = sentHash[d] /\ gotHash'[d] = gotHash[d]
  /\ handler'[d] = handler[d] /\ response'[d] = response[d]

\* Whatever client c or its handler does.
LEMMA OthersStay ==
  ASSUME Game!TypeOK, HashTypes, NEW c \in Client, Game!ClientStep(c) \/ Game!Kill(c) \/ Game!Handle(c),
         NEW d \in Client, d # c
  PROVE  Same(d)
<1> USE DEF Game!clientVars, Game!serverVars, Same
<1>1. ASSUME Game!Connect(c) \/ Game!Finish(c) \/ Game!SendTry(c) PROVE Same(d)
  BY <1>1 DEF Game!Connect, Game!Finish, Game!SendTry, Game!TypeOK, HashTypes
<1>2. ASSUME Game!RecvTry(c) \/ Game!Refused(c) \/ Game!Kill(c) PROVE Same(d)
  BY <1>2 DEF Game!RecvTry, Game!Refused, Game!Kill, Game!TypeOK, HashTypes
<1>5. ASSUME Game!Compare(c) PROVE Same(d)
  BY <1>5 DEF Game!Compare, Game!TypeOK, HashTypes
<1>3. ASSUME Game!TakeTurn(c) \/ Game!Process(c) PROVE Same(d)
  BY <1>3 DEF Game!TakeTurn, Game!Process, Game!TypeOK, HashTypes
<1>4. ASSUME Game!ChecksumRequests(c) \/ Game!ChecksumResponses(c) \/ Game!DropReply(c) PROVE Same(d)
  BY <1>4 DEF Game!ChecksumRequests, Game!ChecksumResponses, Game!DropReply, Game!TypeOK, HashTypes
<1> QED
  BY <1>1, <1>2, <1>3, <1>4, <1>5 DEF Game!ClientStep, Game!Handle

\* A step of c's that processes nothing keeps the invariant if it keeps it for c.
LEMMA KeepsInv ==
  ASSUME GameInv, Game!TypeOK', HashTypes', NEW c \in Client, \A d \in Client : d # c => Same(d),
         wantSerial' = wantSerial, serverHash' = serverHash,
         Own(c)' <=> Own(c), PlaceOf(c)', BeforeFirst(c)', FinishOf(c)', Own(c) => OwnerOf(c)',
         verdict'[c] # "mismatch",
         rpc_pc[c] \in {"finish", "verdict", "dead"} /\ handler[c] \notin {"try", "turn"} =>
           rpc_pc'[c] \in {"finish", "verdict", "dead"} /\ handler'[c] \notin {"try", "turn"},
         done' => done \/ Over
  PROVE  GameInv'
<1> USE DEF GameInv
<1>1. ASSUME NEW d \in Client, d # c
      PROVE  /\ Own(d)' <=> Own(d)
             /\ PlaceOf(d)' /\ BeforeFirst(d)' /\ FinishOf(d)' /\ verdict'[d] # "mismatch"
             /\ OwnerOf(d) => OwnerOf(d)'
  <2>1. Same(d) /\ PlaceOf(d) /\ BeforeFirst(d) /\ FinishOf(d) /\ verdict[d] # "mismatch"
    BY <1>1 DEF Game!NoMismatch
  <2> HIDE DEF GameInv
  <2>2. (Own(d)' <=> Own(d)) /\ PlaceOf(d)' /\ verdict'[d] # "mismatch"
    BY <2>1 DEF Same, Own, PlaceOf, Game!More
  <2>3. BeforeFirst(d)' /\ FinishOf(d)'
    BY <2>1 DEF Same, BeforeFirst, FinishOf, Game!Line
  <2>4. OwnerOf(d) => OwnerOf(d)'
    BY <2>1 DEF Same, OwnerOf, Game!Line, Game!RequestSerial
  <2> QED
    BY <2>2, <2>3, <2>4
<1>2. \A d \in Client : Own(d)' <=> Own(d)
  BY <1>1
<1>3. OwnInv'
  BY <1>1, <1>2 DEF OwnInv
<1>4. Game!NoMismatch' /\ \A d \in Client : PlaceOf(d)' /\ BeforeFirst(d)' /\ FinishOf(d)'
  BY <1>1 DEF Game!NoMismatch
<1>5. Over => Over'
  BY <1>2 DEF Over, Same
<1>6. done' => Over'
  BY <1>5
<1> HIDE DEF GameInv
<1> QED
  BY <1>3, <1>4, <1>6 DEF GameInv

\* Who has asked for the checksums has made all calls, or there are none.
LEMMA Asked ==
  ASSUME GameInv, NEW c \in Client,
         \/ rpc_pc[c] = "run" /\ ~Game!More(c)
         \/ handler[c] \in {"done", "halfdone"}
         \/ rpc_pc[c] = "finish"
  PROVE  \/ /\ Own(c) /\ handler[c] \notin {"try", "turn"}
         \/ ~(1 <= N) /\ serial[c] = 1 /\ \A d \in Client : ~Own(d)
<1>1. PlaceOf(c) /\ serial[c] \in Nat \ {0}
  BY DEF GameInv, Game!TypeOK
<1>2. ~Game!More(c) /\ handler[c] \notin {"try", "turn"}
  BY <1>1 DEF PlaceOf
<1>3. CASE serial[c] = 1
  <2>1. ~(1 <= N)
    BY <1>2, <1>3 DEF Game!More
  <2>2. ASSUME NEW d \in Client PROVE ~Own(d)
    <3>1. ~(serial[d] > 1) /\ serial[d] \in Nat
      BY <2>1 DEF GameInv, PlaceOf, Game!TypeOK
    <3> QED
      BY <3>1 DEF Own
  <2> QED
    BY <1>3, <2>1, <2>2
<1>4. CASE serial[c] # 1
  BY <1>1, <1>2, <1>4 DEF Own
<1> QED
  BY <1>3, <1>4

\* While a call is processed or may be, nobody else has had one processed, and nobody has
\* asked for the checksums.
LEMMA Alone ==
  ASSUME GameInv, NEW c \in Client, handler[c] = "turn" \/ (handler[c] = "try" /\ Game!MyTurn(c))
  PROVE  /\ 1 <= N /\ serial[c] > 1 /\ ~done
         /\ \A d \in Client : Own(d) => d = c
         /\ \A d \in Client : handler[d] \notin {"done", "halfdone"}
<1>1. serial[c] \in Nat /\ serial[c] > 1 /\ 1 <= N
  BY DEF GameInv, Game!TypeOK, PlaceOf
<1>2. ASSUME NEW d \in Client, Own(d) PROVE d = c
  <2>1. CASE Own(c)
    BY <1>2, <2>1 DEF GameInv, OwnInv
  <2>2. CASE ~Own(c)
    <3>1. handler[c] = "try" /\ serial[c] = 2 /\ wantSerial = 1
      BY <1>1, <2>2 DEF Own, Game!MyTurn, Game!RequestSerial
    <3>2. OwnerOf(d) /\ serial[d] \in Nat
      BY <1>2 DEF GameInv, OwnInv, Game!TypeOK
    <3>3. serial[d] > 2 \/ (serial[d] = 2 /\ handler[d] # "try")
      BY <1>2 DEF Own
    <3>4. wantSerial = (IF handler[d] = "try" THEN serial[d] - 1 ELSE serial[d])
      BY <3>2 DEF OwnerOf
    <3> QED
      BY <3>1, <3>2, <3>3, <3>4
  <2> QED
    BY <2>1, <2>2
<1>3. ~Over
  BY <1>1, <1>2 DEF Over
<1>4. ASSUME NEW d \in Client, handler[d] \in {"done", "halfdone"} PROVE FALSE
  <2>1. Own(d) /\ handler[d] \notin {"try", "turn"}
    BY <1>1, <1>4, Asked
  <2> QED
    BY <1>2, <1>4, <2>1
<1> QED
  BY <1>1, <1>2, <1>3, <1>4 DEF GameInv

\* Steps of the server alone, and stuttering ones, keep the invariant.
LEMMA Unmoved ==
  ASSUME GameInv, Game!TypeOK', UNCHANGED <<Game!clientVars, handler, response, Game!serverVars>>
  PROVE  GameInv'
<1>1. HashTypes' /\ Game!NoMismatch' /\ (done => Over)'
  BY DEF GameInv, HashTypes, Game!NoMismatch, Over, Own, Game!clientVars, Game!serverVars
<1>2. OwnInv'
  BY DEF GameInv, OwnInv, Own, OwnerOf, Game!RequestSerial, Game!clientVars, Game!serverVars
<1>3. \A c \in Client : (PlaceOf(c) /\ BeforeFirst(c) /\ FinishOf(c))'
  BY DEF GameInv, PlaceOf, BeforeFirst, FinishOf, Game!More, Game!clientVars, Game!serverVars
<1> QED
  BY <1>1, <1>2, <1>3 DEF GameInv

\* A step of the client keeps the invariant.
LEMMA ClientKeeps ==
  ASSUME N \in Nat, GameInv, Game!TypeOK', HashTypes', NEW c \in Client, Game!ClientStep(c) \/ Game!Kill(c)
  PROVE  GameInv'
<1> USE DEF Game!clientVars, Game!serverVars
<1>1. /\ rpc_pc[c] \in {"off", "run", "wait", "finish", "verdict", "dead"}
      /\ serial[c] \in Nat \ {0}
      /\ PlaceOf(c) /\ BeforeFirst(c) /\ FinishOf(c) /\ (Own(c) => OwnerOf(c))
      /\ verdict[c] # "mismatch"
  BY DEF GameInv, Game!TypeOK, OwnInv, Game!NoMismatch
<1>2. \A d \in Client : d # c => Same(d)
  BY OthersStay DEF GameInv
<1>9. Game!TypeOK /\ HashTypes
  BY DEF GameInv
<1>3. wantSerial' = wantSerial /\ serverHash' = serverHash /\ done' = done
  BY DEF Game!ClientStep, Game!Connect, Game!SendTry, Game!RecvTry, Game!Finish, Game!Compare, Game!Refused, Game!Kill
<1>4. ASSUME Game!Connect(c) \/ Game!Refused(c) \/ Game!Kill(c) PROVE GameInv'
  <2>1. /\ handler'[c] = handler[c] /\ serial'[c] = serial[c] /\ verdict'[c] = verdict[c]
        /\ sentHash'[c] = sentHash[c] /\ gotHash'[c] = gotHash[c]
        /\ response'[c] = response[c]
        /\ \/ rpc_pc'[c] = "run" /\ rpc_pc[c] = "off"
           \/ rpc_pc'[c] = "dead" /\ rpc_pc[c] \in {"run", "wait", "finish"}
    BY <1>4, <1>9 DEF Game!Connect, Game!Refused, Game!Kill, Game!TypeOK
  <2>2. PlaceOf(c)' /\ (Own(c)' <=> Own(c))
    BY <1>1, <2>1 DEF PlaceOf, Own, Game!More
  <2>3. BeforeFirst(c)' /\ FinishOf(c)'
    BY <1>1, <2>1 DEF BeforeFirst, FinishOf, Game!Line
  <2>4. Own(c) => OwnerOf(c)'
    BY <1>1, <1>3, <2>1 DEF OwnerOf, PlaceOf, Game!RequestSerial, Game!Line, Own
  <2> QED
    BY <1>1, <1>2, <1>3, <2>1, <2>2, <2>3, <2>4, KeepsInv
<1>5. ASSUME Game!SendTry(c) PROVE GameInv'
  <2>1. /\ rpc_pc[c] = "run" /\ rpc_pc'[c] = "wait" /\ handler'[c] = "try" /\ Game!More(c)
        /\ serial'[c] = serial[c] + 1 /\ verdict'[c] = verdict[c]
        /\ sentHash'[c] = Append(sentHash[c], Game!Line(c, serial[c])) /\ gotHash'[c] = gotHash[c]
    BY <1>5, <1>9 DEF Game!SendTry, Game!TypeOK, HashTypes
  <2>2. PlaceOf(c)' /\ (Own(c)' <=> Own(c))
    BY <1>1, <2>1 DEF PlaceOf, Own, Game!More
  <2>3. BeforeFirst(c)' /\ FinishOf(c)'
    <3>1. serial'[c] # 1 /\ (serial'[c] = 2 => serial[c] = 1)
      BY <1>1, <2>1
    <3>2. ASSUME serial[c] = 1
          PROVE  sentHash'[c] = <<Game!Line(c, 1)>> /\ gotHash'[c] = <<>>
      <4>1. sentHash[c] = <<>> /\ gotHash[c] = <<>>
        BY <1>1, <3>2 DEF BeforeFirst
      <4>2. Append(<<>>, Game!Line(c, 1)) = <<Game!Line(c, 1)>>
        OBVIOUS
      <4> QED
        BY <2>1, <3>2, <4>1, <4>2
    <3> QED
      BY <2>1, <3>1, <3>2 DEF BeforeFirst, FinishOf, Game!Line
  <2>4. Own(c) => OwnerOf(c)'
    BY <1>1, <1>3, <2>1 DEF OwnerOf, PlaceOf, Game!RequestSerial, Game!Line
  <2>5. rpc_pc[c] = "run" /\ verdict'[c] # "mismatch" /\ done' = done
    BY <1>1, <1>3, <2>1
  <2> QED
    BY <1>2, <1>3, <2>2, <2>3, <2>4, <2>5, KeepsInv
<1>6. ASSUME Game!RecvTry(c) PROVE GameInv'
  <2>1. /\ rpc_pc[c] = "wait" /\ handler[c] = "replied" /\ rpc_pc'[c] = "run" /\ handler'[c] = "none"
        /\ serial'[c] = serial[c] /\ verdict'[c] = verdict[c]
        /\ sentHash'[c] = sentHash[c] /\ gotHash'[c] = gotHash[c] \o response[c].responses
    BY <1>6, <1>9 DEF Game!RecvTry, Game!TypeOK, HashTypes
  <2>2. PlaceOf(c)' /\ (Own(c)' <=> Own(c))
    BY <1>1, <2>1 DEF PlaceOf, Own, Game!More
  <2>3. BeforeFirst(c)' /\ FinishOf(c)'
    BY <1>1, <2>1 DEF BeforeFirst, FinishOf, PlaceOf
  <2>4. Own(c) => OwnerOf(c)'
    BY <1>1, <1>3, <2>1 DEF OwnerOf
  <2> QED
    BY <1>1, <1>2, <1>3, <2>1, <2>2, <2>3, <2>4, KeepsInv
<1>7. ASSUME Game!Finish(c) PROVE GameInv'
  <2>1. /\ rpc_pc[c] = "run" /\ rpc_pc'[c] = "finish" /\ handler'[c] = "done" /\ ~Game!More(c)
        /\ serial'[c] = serial[c] /\ verdict'[c] = verdict[c]
        /\ sentHash'[c] = sentHash[c] /\ gotHash'[c] = gotHash[c]
    BY <1>7, <1>9 DEF Game!Finish, Game!TypeOK, HashTypes
  <2>2. PlaceOf(c)' /\ (Own(c)' <=> Own(c))
    BY <1>1, <2>1 DEF PlaceOf, Own, Game!More
  <2>3. BeforeFirst(c)' /\ FinishOf(c)'
    BY <1>1, <2>1 DEF BeforeFirst, FinishOf
  <2>4. Own(c) => OwnerOf(c)'
    BY <1>1, <1>3, <2>1 DEF OwnerOf, PlaceOf
  <2> QED
    BY <1>1, <1>2, <1>3, <2>1, <2>2, <2>3, <2>4, KeepsInv
<1>8. ASSUME Game!Compare(c) PROVE GameInv'
  <2>1. /\ rpc_pc[c] = "finish" /\ handler[c] = "replied" /\ rpc_pc'[c] = "verdict"
        /\ handler'[c] = "none" /\ serial'[c] = serial[c]
        /\ sentHash'[c] = sentHash[c] /\ gotHash'[c] = gotHash[c]
    BY <1>8, <1>9 DEF Game!Compare, Game!TypeOK, HashTypes
  <2>2. verdict'[c] # "mismatch"
    BY <1>1, <1>8, <1>9, <2>1 DEF Game!Compare, HashTypes, FinishOf
  <2>3. PlaceOf(c)' /\ (Own(c)' <=> Own(c))
    BY <1>1, <2>1 DEF PlaceOf, Own, Game!More
  <2>4. BeforeFirst(c)' /\ FinishOf(c)'
    BY <1>1, <2>1 DEF BeforeFirst, FinishOf
  <2>5. Own(c) => OwnerOf(c)'
    BY <1>1, <1>3, <2>1 DEF OwnerOf
  <2> QED
    BY <1>1, <1>2, <1>3, <2>1, <2>2, <2>3, <2>4, <2>5, KeepsInv
<1> QED
  BY <1>4, <1>5, <1>6, <1>7, <1>8 DEF Game!ClientStep

\* A step of Done's handler keeps the invariant, and so does a dropped reply.
LEMMA DoneKeeps ==
  ASSUME N \in Nat, GameInv, Game!TypeOK', HashTypes', NEW c \in Client,
         Game!ChecksumRequests(c) \/ Game!ChecksumResponses(c) \/ Game!DropReply(c)
  PROVE  GameInv'
<1> USE DEF Game!clientVars, Game!serverVars
<1>1. /\ rpc_pc[c] \in {"off", "run", "wait", "finish", "verdict", "dead"}
      /\ serial[c] \in Nat \ {0}
      /\ PlaceOf(c) /\ BeforeFirst(c) /\ FinishOf(c) /\ (Own(c) => OwnerOf(c))
      /\ verdict[c] # "mismatch"
  BY DEF GameInv, Game!TypeOK, OwnInv, Game!NoMismatch
<1>2. \A d \in Client : d # c => Same(d)
  BY OthersStay DEF GameInv, Game!Handle
<1>3. Game!TypeOK /\ HashTypes
  BY DEF GameInv
<1>4. /\ wantSerial' = wantSerial /\ serverHash' = serverHash
      /\ rpc_pc' = rpc_pc /\ serial' = serial /\ verdict' = verdict
      /\ sentHash' = sentHash /\ gotHash' = gotHash
  BY DEF Game!ChecksumRequests, Game!ChecksumResponses, Game!DropReply
<1>5. ASSUME Game!DropReply(c) PROVE GameInv'
  <2>1. handler[c] = "replied" /\ handler'[c] = "none" /\ rpc_pc[c] = "dead" /\ done' = done
    BY <1>5, <1>3 DEF Game!DropReply, Game!TypeOK
  <2>2. PlaceOf(c)' /\ (Own(c)' <=> Own(c)) /\ BeforeFirst(c)' /\ FinishOf(c)'
    BY <1>1, <1>4, <2>1 DEF PlaceOf, Own, Game!More, BeforeFirst, FinishOf
  <2>3. Own(c) => OwnerOf(c)'
    BY <1>1, <1>4, <2>1 DEF OwnerOf
  <2> QED
    BY <1>1, <1>2, <1>4, <2>1, <2>2, <2>3, KeepsInv
<1>6. ASSUME Game!ChecksumRequests(c) \/ Game!ChecksumResponses(c) PROVE GameInv'
  <2>1. /\ handler[c] \in {"done", "halfdone"} /\ handler'[c] \in {"halfdone", "replied"}
        /\ handler'[c] = "halfdone" <=> handler[c] = "done"
        /\ done' => done \/ handler[c] = "done"
    BY <1>3, <1>6 DEF Game!ChecksumRequests, Game!ChecksumResponses, Game!TypeOK
  <2>2. rpc_pc[c] \in {"finish", "dead"}
    BY <1>1, <2>1 DEF PlaceOf
  <2>3. \/ Own(c)
        \/ ~(1 <= N) /\ serial[c] = 1 /\ \A d \in Client : ~Own(d)
    BY <2>1, Asked
  <2>4. PlaceOf(c)' /\ (Own(c)' <=> Own(c)) /\ BeforeFirst(c)'
    BY <1>1, <1>4, <2>1 DEF PlaceOf, Own, Game!More, BeforeFirst
  <2>5. Own(c) => OwnerOf(c)'
    BY <1>1, <1>4, <2>1, <2>2 DEF OwnerOf
  <2>6. rpc_pc[c] # "dead" => serverHash.requests = sentHash[c] /\ serverHash.responses = gotHash[c]
    <3>1. CASE Own(c)
      BY <1>1, <2>1, <2>2, <3>1 DEF OwnerOf
    <3>2. CASE ~Own(c)
      <4>1. serverHash = Game!NoHashes
        BY <2>3, <3>2 DEF GameInv, OwnInv
      <4> QED
        BY <1>1, <2>3, <3>2, <4>1 DEF Game!NoHashes, BeforeFirst
    <3> QED
      BY <3>1, <3>2
  <2>7. FinishOf(c)'
    <3>1. CASE Game!ChecksumRequests(c)
      <4>1. handler'[c] = "halfdone" /\ response'[c].requests = serverHash.requests
        BY <1>3, <3>1 DEF Game!ChecksumRequests, Game!TypeOK, HashTypes, Hashes
      <4> QED
        BY <1>4, <2>6, <4>1 DEF FinishOf
    <3>2. CASE Game!ChecksumResponses(c)
      <4>1. /\ handler[c] = "halfdone" /\ handler'[c] = "replied"
            /\ response'[c].responses = serverHash.responses
            /\ response'[c].requests = response[c].requests
        BY <1>3, <3>2 DEF Game!ChecksumResponses, Game!TypeOK, HashTypes, Hashes
      <4>2. response'[c] \in Hashes
        BY DEF HashTypes
      <4>3. response'[c] = [requests |-> response[c].requests,
                            responses |-> serverHash.responses]
        BY <4>1, <4>2 DEF Hashes
      <4> QED
        BY <1>1, <1>4, <2>6, <4>1, <4>3 DEF FinishOf
    <3> QED
      BY <1>6, <3>1, <3>2
  <2>8. done' => done \/ Over
    BY <2>1, <2>2, <2>3, Asked DEF Over
  <2> QED
    BY <1>1, <1>2, <1>4, <2>1, <2>2, <2>4, <2>5, <2>7, <2>8, KeepsInv
<1> QED
  BY <1>5, <1>6

\* A call that takes its turn, or is processed, keeps the invariant: its client is then the
\* only one whose calls ever are.
LEMMA TryKeeps ==
  ASSUME N \in Nat, GameInv, Game!TypeOK', HashTypes', NEW c \in Client, Game!TakeTurn(c) \/ Game!Process(c)
  PROVE  GameInv'
<1> USE DEF Game!clientVars, Game!serverVars
<1>1. /\ rpc_pc[c] \in {"off", "run", "wait", "finish", "verdict", "dead"}
      /\ serial[c] \in Nat \ {0} /\ wantSerial \in Nat
      /\ PlaceOf(c) /\ BeforeFirst(c) /\ (Own(c) => OwnerOf(c)) /\ Game!TypeOK /\ HashTypes
  BY DEF GameInv, Game!TypeOK, OwnInv
<1>2. \A d \in Client : d # c => Same(d)
  BY OthersStay DEF GameInv, Game!Handle
<1>3. /\ rpc_pc' = rpc_pc /\ serial' = serial /\ verdict' = verdict /\ done' = done
      /\ sentHash' = sentHash /\ gotHash' = gotHash
  BY DEF Game!TakeTurn, Game!Process
<1>4. handler[c] = "turn" \/ (handler[c] = "try" /\ Game!MyTurn(c))
  BY DEF Game!TakeTurn, Game!Process
<1>5. /\ serial[c] > 1 /\ ~done /\ \A d \in Client : Own(d) => d = c
  BY <1>4, Alone
<1>6. handler'[c] \in {"turn", "replied"} /\ rpc_pc[c] \in {"wait", "dead"}
  BY <1>1, <1>4 DEF Game!TakeTurn, Game!Process, Game!TypeOK, PlaceOf
<1>7. OwnerOf(c)'
  <2>1. CASE Game!TakeTurn(c)
    <3>1. /\ handler[c] = "try" /\ handler'[c] = "turn" /\ serverHash' = serverHash
          /\ wantSerial' = wantSerial + 1 /\ serial[c] - 1 = wantSerial
      BY <1>1, <2>1 DEF Game!TakeTurn, Game!TypeOK, Game!NextSerial, Game!MyTurn, Game!RequestSerial
    <3>2. wantSerial' = serial[c]
      BY <1>1, <3>1
    <3>3. rpc_pc[c] # "dead" =>
            /\ sentHash[c] = Append(serverHash.requests, Game!Line(c, Game!RequestSerial(c)))
            /\ serverHash.responses = gotHash[c]
      <4>1. CASE Own(c)
        BY <1>1, <3>1, <4>1 DEF OwnerOf
      <4>2. CASE ~Own(c)
        <5>1. serverHash = Game!NoHashes /\ serial[c] = 2
          BY <1>1, <1>5, <4>2 DEF GameInv, OwnInv, Own
        <5>2. sentHash[c] = <<Game!Line(c, 1)>> /\ gotHash[c] = <<>>
          BY <1>1, <3>1, <5>1 DEF BeforeFirst
        <5>3. Game!RequestSerial(c) = 1
          BY <5>1 DEF Game!RequestSerial
        <5>4. serverHash.requests = <<>> /\ serverHash.responses = <<>>
          BY <5>1 DEF Game!NoHashes
        <5>5. Append(<<>>, Game!Line(c, 1)) = <<Game!Line(c, 1)>>
          OBVIOUS
        <5> QED
          BY <5>2, <5>3, <5>4, <5>5
      <4> QED
        BY <4>1, <4>2
    <3> QED
      BY <1>3, <3>1, <3>2, <3>3 DEF OwnerOf, Game!RequestSerial
  <2>2. CASE Game!Process(c)
    <3> DEFINE line == Game!Line(c, Game!RequestSerial(c))
               v == Game!Value(line)
    <3>1. /\ handler[c] = "turn" /\ handler'[c] = "replied" /\ wantSerial' = wantSerial
          /\ serverHash' = Game!Hashed(serverHash, line)
          /\ response'[c].responses = <<v>>
      BY <1>1, <2>2 DEF Game!Process, Game!TypeOK, HashTypes, Hashes
    <3>2. OwnerOf(c)
      BY <1>1, <1>5, <3>1 DEF Own
    <3>3. /\ serverHash'.requests = Append(serverHash.requests, line)
          /\ serverHash'.responses = Append(serverHash.responses, v)
      BY <3>1 DEF Game!Hashed
    <3>4. rpc_pc[c] # "dead" => /\ sentHash[c] = Append(serverHash.requests, line)
                            /\ serverHash.responses = gotHash[c]
      BY <3>1, <3>2 DEF OwnerOf
    <3>5. gotHash[c] \in Seq(Values)
      BY <1>1 DEF HashTypes
    <3>6. Append(gotHash[c], v) = gotHash[c] \o <<v>>
      <4> HIDE DEF v
      <4> QED
        BY <3>5
    <3>7. wantSerial = serial[c]
      BY <3>1, <3>2 DEF OwnerOf
    <3> HIDE DEF v, line
    <3> QED
      BY <1>3, <1>6, <3>1, <3>3, <3>4, <3>6, <3>7 DEF OwnerOf
  <2> QED
    BY <2>1, <2>2
<1>8. Own(c)' /\ \A d \in Client : Own(d)' => d = c
  <2>1. Own(c)'
    BY <1>1, <1>3, <1>5, <1>6 DEF Own
  <2>2. ASSUME NEW d \in Client, d # c PROVE ~Own(d)'
    BY <1>2, <1>5, <2>2 DEF Same, Own
  <2> QED
    BY <2>1, <2>2
<1>9. OwnInv'
  BY <1>7, <1>8 DEF OwnInv
<1>10. ASSUME NEW d \in Client PROVE PlaceOf(d)' /\ BeforeFirst(d)' /\ FinishOf(d)'
  <2>1. CASE d = c
    BY <1>1, <1>3, <1>6, <2>1, <1>5 DEF PlaceOf, BeforeFirst, FinishOf, Game!More
  <2>2. CASE d # c
    <3>1. Same(d) /\ PlaceOf(d) /\ BeforeFirst(d) /\ FinishOf(d)
      BY <1>2, <2>2 DEF GameInv
    <3> QED
      BY <3>1 DEF Same, PlaceOf, BeforeFirst, FinishOf, Game!More, Game!Line
  <2> QED
    BY <2>1, <2>2
<1>11. Game!NoMismatch'
  BY <1>3 DEF GameInv, Game!NoMismatch
<1> QED
  BY <1>3, <1>5, <1>9, <1>10, <1>11 DEF GameInv

-----------------------------------------------------------------------------
\* The invariant gives both parts of Agreed.
LEMMA InvAgreed == GameInv => Agreed
<1> SUFFICES ASSUME GameInv PROVE Game!ChecksumAlone
  BY DEF GameInv, Agreed, Game!Agreed
<1> QED
  BY Alone DEF Game!ChecksumAlone

\* Every step keeps it.
LEMMA GameStep == N \in Nat /\ GameInv /\ [Game!Next]_Game!vars => GameInv'
<1> SUFFICES ASSUME N \in Nat, GameInv, [Game!Next]_Game!vars PROVE GameInv'
  OBVIOUS
<1>1. Game!TypeOK' /\ HashTypes'
  BY GameTypeStep, HashStep DEF GameInv
<1>2. ASSUME NEW c \in Client, Game!ClientStep(c) \/ Game!Kill(c) PROVE GameInv'
  BY <1>1, <1>2, ClientKeeps
<1>3. ASSUME NEW c \in Client, Game!Handle(c) PROVE GameInv'
  BY <1>1, <1>3, DoneKeeps, TryKeeps DEF Game!Handle
<1>4. ASSUME Game!Shutdown \/ Game!Exit \/ UNCHANGED Game!vars PROVE GameInv'
  <2>1. UNCHANGED <<Game!clientVars, handler, response, Game!serverVars>>
    BY <1>4 DEF Game!Shutdown, Game!Exit, Game!vars
  <2> QED
    BY <1>1, <2>1, Unmoved
<1> QED
  BY <1>2, <1>3, <1>4 DEF Game!Next

\* For any number of clients and calls, no client that gets a verdict sees a mismatch, and no
\* checksum is computed beside a call that is processed or has its turn.
THEOREM AgreedHolds == Game!Spec => []Agreed
<1>1. Game!Init => GameInv
  BY GameInit
<1>2. GameInv /\ [Game!Next]_Game!vars => GameInv'
  BY GameStep, CallsAssumption
<1>3. GameInv => Agreed
  BY InvAgreed
<1> QED
  BY <1>1, <1>2, <1>3, PTL DEF Game!Spec

-----------------------------------------------------------------------------
(***************************************************************************)
(* The HTTP connection.  A read may end within a message and several       *)
(* messages may be in one buffer, so first: which messages a sequence of   *)
(* parts holds, and that a turn of receive() takes the first.              *)
(***************************************************************************)

\* The ends of messages on a connection, in their order: s holds the messages of m.
Holds(s, m) ==
  \E at \in [1 .. Len(m) -> 1 .. Len(s)] :
    /\ \A k \in 1 .. Len(m) : s[at[k]].end /\ s[at[k]].msg = m[k]
    /\ \A j, k \in 1 .. Len(m) : j < k => at[j] < at[k]
    /\ \A i \in 1 .. Len(s) : s[i].end => \E k \in 1 .. Len(m) : at[k] = i

Parts(M) == [msg : M, end : BOOLEAN]

\* Nothing holds no message.
LEMMA HoldsNone == Holds(<<>>, <<>>)
<1> DEFINE at == [k \in {} |-> 0]
<1>1. 1 .. Len(<<>>) = {}
  OBVIOUS
<1>2. at \in [{} -> {}]
  OBVIOUS
<1> HIDE DEF at
<1>3. \E f \in [{} -> {}] : TRUE
  BY <1>2
<1> QED
  BY <1>1, <1>3 DEF Holds

\* A part that ends a message adds it.
LEMMA HoldsEnd ==
  ASSUME NEW M, NEW s \in Seq(Parts(M)), NEW m \in Seq(M), Holds(s, m),
         NEW p \in Parts(M), p.end
  PROVE  Holds(Append(s, p), Append(m, p.msg))
<1> DEFINE t == Append(s, p)
           n == Append(m, p.msg)
<1>1. PICK at \in [1 .. Len(m) -> 1 .. Len(s)] :
        /\ \A k \in 1 .. Len(m) : s[at[k]].end /\ s[at[k]].msg = m[k]
        /\ \A j, k \in 1 .. Len(m) : j < k => at[j] < at[k]
        /\ \A i \in 1 .. Len(s) : s[i].end => \E k \in 1 .. Len(m) : at[k] = i
  BY DEF Holds
<1>2. /\ p.msg \in M
      /\ Len(t) = Len(s) + 1 /\ t[Len(s) + 1] = p /\ \A i \in 1 .. Len(s) : t[i] = s[i]
      /\ Len(n) = Len(m) + 1 /\ n[Len(m) + 1] = p.msg /\ \A i \in 1 .. Len(m) : n[i] = m[i]
      /\ Len(s) \in Nat /\ Len(m) \in Nat
  BY DEF Parts
<1> HIDE DEF t, n
<1> DEFINE to == [k \in 1 .. Len(n) |-> IF k = Len(m) + 1 THEN Len(s) + 1 ELSE at[k]]
<1>3. to \in [1 .. Len(n) -> 1 .. Len(t)] /\ \A k \in 1 .. Len(m) : to[k] = at[k]
  BY <1>2
<1>4. to[Len(m) + 1] = Len(s) + 1
  BY <1>2
<1> HIDE DEF to
<1>5. \A k \in 1 .. Len(n) : t[to[k]].end /\ t[to[k]].msg = n[k]
  <2> TAKE k \in 1 .. Len(n)
  <2>1. CASE k = Len(m) + 1
    BY <1>2, <1>4, <2>1
  <2>2. CASE k \in 1 .. Len(m)
    <3>1. at[k] \in 1 .. Len(s) /\ s[at[k]].end /\ s[at[k]].msg = m[k]
      BY <1>1, <2>2
    <3> QED
      BY <1>2, <1>3, <2>2, <3>1
  <2> QED
    BY <1>2, <2>1, <2>2
<1>6. ASSUME NEW j \in 1 .. Len(n), NEW k \in 1 .. Len(n), j < k PROVE to[j] < to[k]
  <2>1. j \in 1 .. Len(m) /\ to[j] = at[j] /\ at[j] \in 1 .. Len(s)
    BY <1>1, <1>2, <1>3, <1>6
  <2>2. CASE k = Len(m) + 1
    BY <1>2, <1>4, <2>1, <2>2
  <2>3. CASE k \in 1 .. Len(m)
    <3>1. to[k] = at[k] /\ at[j] < at[k]
      BY <1>1, <1>3, <1>6, <2>1, <2>3
    <3> QED
      BY <2>1, <3>1
  <2> QED
    BY <1>2, <2>2, <2>3
<1>7. \A i \in 1 .. Len(t) : t[i].end => \E k \in 1 .. Len(n) : to[k] = i
  <2> TAKE i \in 1 .. Len(t)
  <2>1. CASE i = Len(s) + 1
    BY <1>2, <1>4, <2>1
  <2>2. CASE i \in 1 .. Len(s)
    <3>1. SUFFICES ASSUME t[i].end PROVE \E k \in 1 .. Len(n) : to[k] = i
      OBVIOUS
    <3>2. PICK k \in 1 .. Len(m) : at[k] = i
      BY <1>1, <1>2, <2>2, <3>1
    <3>3. k \in 1 .. Len(n) /\ to[k] = i
      BY <1>2, <1>3, <3>2
    <3> QED
      BY <3>3
  <2> QED
    BY <1>2, <2>1, <2>2
<1>8. Holds(t, n)
  BY <1>3, <1>5, <1>6, <1>7 DEF Holds
<1> QED
  BY <1>8 DEF t, n

\* A part that ends none adds none.
LEMMA HoldsPart ==
  ASSUME NEW M, NEW s \in Seq(Parts(M)), NEW m \in Seq(M), Holds(s, m),
         NEW p \in Parts(M), ~p.end
  PROVE  Holds(Append(s, p), m)
<1> DEFINE t == Append(s, p)
<1>1. PICK at \in [1 .. Len(m) -> 1 .. Len(s)] :
        /\ \A k \in 1 .. Len(m) : s[at[k]].end /\ s[at[k]].msg = m[k]
        /\ \A j, k \in 1 .. Len(m) : j < k => at[j] < at[k]
        /\ \A i \in 1 .. Len(s) : s[i].end => \E k \in 1 .. Len(m) : at[k] = i
  BY DEF Holds
<1>2. /\ Len(t) = Len(s) + 1 /\ t[Len(s) + 1] = p /\ \A i \in 1 .. Len(s) : t[i] = s[i]
      /\ Len(s) \in Nat /\ Len(m) \in Nat
  OBVIOUS
<1> HIDE DEF t
<1>3. at \in [1 .. Len(m) -> 1 .. Len(t)] /\ \A k \in 1 .. Len(m) : at[k] \in 1 .. Len(s)
  BY <1>2
<1>4. \A k \in 1 .. Len(m) : t[at[k]].end /\ t[at[k]].msg = m[k]
  BY <1>1, <1>2, <1>3
<1>5. \A i \in 1 .. Len(t) : t[i].end => \E k \in 1 .. Len(m) : at[k] = i
  BY <1>1, <1>2
<1>6. Holds(t, m)
  BY <1>1, <1>3, <1>4, <1>5 DEF Holds
<1> QED
  BY <1>6 DEF t

\* If there is an end, there is a first one.
LEMMA HoldsFirst ==
  ASSUME NEW M, NEW s \in Seq(Parts(M)), NEW m \in Seq(M), Holds(s, m),
         NEW i \in 1 .. Len(s), s[i].end
  PROVE  \E f \in 1 .. i : s[f].end /\ \A j \in 1 .. f - 1 : ~s[j].end
<1>1. PICK at \in [1 .. Len(m) -> 1 .. Len(s)] :
        /\ \A k \in 1 .. Len(m) : s[at[k]].end /\ s[at[k]].msg = m[k]
        /\ \A j, k \in 1 .. Len(m) : j < k => at[j] < at[k]
        /\ \A j \in 1 .. Len(s) : s[j].end => \E k \in 1 .. Len(m) : at[k] = j
  BY DEF Holds
<1>2. PICK k0 \in 1 .. Len(m) : at[k0] = i
  BY <1>1
<1>3. 1 \in 1 .. Len(m) /\ at[1] \in 1 .. Len(s) /\ i \in Int
  BY <1>2
<1>4. \A k \in 1 .. Len(m) : at[1] <= at[k] /\ at[k] \in Int
  <2> TAKE k \in 1 .. Len(m)
  <2>1. k = 1 \/ at[1] < at[k]
    BY <1>1, <1>3
  <2>2. at[k] \in 1 .. Len(s)
    OBVIOUS
  <2> QED
    BY <1>3, <2>1, <2>2
<1>5. at[1] \in 1 .. i /\ s[at[1]].end
  BY <1>1, <1>2, <1>3, <1>4
<1>6. ASSUME NEW j \in 1 .. at[1] - 1 PROVE ~s[j].end
  <2>1. j \in 1 .. Len(s) /\ j < at[1]
    BY <1>3
  <2> QED
    BY <1>1, <1>4, <2>1
<1> QED
  BY <1>5, <1>6

\* What is read up to the end of a message is the first message.
LEMMA HoldsCut ==
  ASSUME NEW M, NEW s \in Seq(Parts(M)), NEW m \in Seq(M), Holds(s, m),
         NEW c \in 1 .. Len(s), s[c].end, \A i \in 1 .. c - 1 : ~s[i].end
  PROVE  m # <<>> /\ s[c].msg = Head(m) /\ Holds(SubSeq(s, c + 1, Len(s)), Tail(m))
<1> DEFINE t == SubSeq(s, c + 1, Len(s))
           n == Tail(m)
<1>1. PICK at \in [1 .. Len(m) -> 1 .. Len(s)] :
        /\ \A k \in 1 .. Len(m) : s[at[k]].end /\ s[at[k]].msg = m[k]
        /\ \A j, k \in 1 .. Len(m) : j < k => at[j] < at[k]
        /\ \A i \in 1 .. Len(s) : s[i].end => \E k \in 1 .. Len(m) : at[k] = i
  BY DEF Holds
<1>2. PICK k0 \in 1 .. Len(m) : at[k0] = c
  BY <1>1
<1>3. m # <<>> /\ Len(m) \in Nat /\ Len(s) \in Nat /\ c \in Int /\ 1 \in 1 .. Len(m)
  BY <1>2
<1>4. at[1] = c
  <2>1. at[1] \in 1 .. Len(s) /\ s[at[1]].end
    BY <1>1, <1>3
  <2>2. ~(at[1] < c)
    BY <2>1, <1>3
  <2>3. k0 = 1 \/ at[1] < at[k0]
    BY <1>1, <1>3
  <2> QED
    BY <1>2, <2>2, <2>3
<1>5. s[c].msg = Head(m)
  BY <1>1, <1>3, <1>4
<1>6. Len(t) = Len(s) - c /\ \A i \in 1 .. Len(s) - c : t[i] = s[i + c]
  BY <1>3
<1>7. Len(n) = Len(m) - 1 /\ \A i \in 1 .. Len(m) - 1 : n[i] = m[i + 1]
  BY <1>3
<1> HIDE DEF t, n
<1> DEFINE to == [k \in 1 .. Len(n) |-> at[k + 1] - c]
<1>8. \A k \in 1 .. Len(n) : k + 1 \in 1 .. Len(m) /\ at[k + 1] > c /\ at[k + 1] \in 1 .. Len(s)
  BY <1>1, <1>3, <1>4, <1>7
<1>9. to \in [1 .. Len(n) -> 1 .. Len(t)] /\ \A k \in 1 .. Len(n) : to[k] = at[k + 1] - c
  BY <1>3, <1>6, <1>8
<1> HIDE DEF to
<1>10. \A k \in 1 .. Len(n) : t[to[k]].end /\ t[to[k]].msg = n[k]
  <2> TAKE k \in 1 .. Len(n)
  <2>1. to[k] + c = at[k + 1] /\ to[k] \in 1 .. Len(s) - c
    <3>1. at[k + 1] \in 1 .. Len(s) /\ to[k] = at[k + 1] - c /\ to[k] \in 1 .. Len(t)
      BY <1>8, <1>9
    <3>2. at[k + 1] \in Int
      BY <3>1
    <3> QED
      BY <1>3, <1>6, <3>1, <3>2
  <2>2. t[to[k]] = s[at[k + 1]] /\ n[k] = m[k + 1]
    BY <1>3, <1>6, <1>7, <2>1
  <2> QED
    BY <1>1, <1>8, <2>2
<1>11. \A j, k \in 1 .. Len(n) : j < k => to[j] < to[k]
  BY <1>1, <1>3, <1>7, <1>8, <1>9
<1>12. \A i \in 1 .. Len(t) : t[i].end => \E k \in 1 .. Len(n) : to[k] = i
  <2> SUFFICES ASSUME NEW i \in 1 .. Len(t), t[i].end PROVE \E k \in 1 .. Len(n) : to[k] = i
    OBVIOUS
  <2>1. i + c \in 1 .. Len(s) /\ s[i + c].end
    BY <1>3, <1>6
  <2>2. PICK k \in 1 .. Len(m) : at[k] = i + c
    BY <1>1, <2>1
  <2>3. k # 1
    BY <1>3, <1>4, <1>6, <2>2
  <2>4. k - 1 \in 1 .. Len(n) /\ (k - 1) + 1 = k
    BY <1>3, <1>7, <2>3
  <2>5. to[k - 1] = at[k] - c
    BY <1>9, <2>4
  <2>6. to[k - 1] = i
    BY <1>3, <1>6, <2>2, <2>5
  <2> QED
    BY <2>4, <2>6
<1>13. Holds(t, n)
  BY <1>9, <1>10, <1>11, <1>12 DEF Holds
<1> QED
  BY <1>3, <1>5, <1>13 DEF t, n

\* What is read without the end of a message leaves the messages.
LEMMA HoldsSkip ==
  ASSUME NEW M, NEW s \in Seq(Parts(M)), NEW m \in Seq(M), Holds(s, m),
         NEW c \in 0 .. Len(s), \A i \in 1 .. c : ~s[i].end
  PROVE  Holds(SubSeq(s, c + 1, Len(s)), m)
<1> DEFINE t == SubSeq(s, c + 1, Len(s))
<1>1. PICK at \in [1 .. Len(m) -> 1 .. Len(s)] :
        /\ \A k \in 1 .. Len(m) : s[at[k]].end /\ s[at[k]].msg = m[k]
        /\ \A j, k \in 1 .. Len(m) : j < k => at[j] < at[k]
        /\ \A i \in 1 .. Len(s) : s[i].end => \E k \in 1 .. Len(m) : at[k] = i
  BY DEF Holds
<1>2. Len(m) \in Nat /\ Len(s) \in Nat /\ c \in Nat
  OBVIOUS
<1>3. Len(t) = Len(s) - c /\ \A i \in 1 .. Len(s) - c : t[i] = s[i + c]
  BY <1>2
<1> HIDE DEF t
<1> DEFINE to == [k \in 1 .. Len(m) |-> at[k] - c]
<1>4. \A k \in 1 .. Len(m) : at[k] > c /\ at[k] \in 1 .. Len(s)
  BY <1>1, <1>2
<1>5. to \in [1 .. Len(m) -> 1 .. Len(t)] /\ \A k \in 1 .. Len(m) : to[k] = at[k] - c
  BY <1>2, <1>3, <1>4
<1> HIDE DEF to
<1>6. \A k \in 1 .. Len(m) : t[to[k]].end /\ t[to[k]].msg = m[k]
  <2> TAKE k \in 1 .. Len(m)
  <2>1. to[k] + c = at[k] /\ to[k] \in 1 .. Len(s) - c
    BY <1>2, <1>3, <1>4, <1>5
  <2>2. t[to[k]] = s[at[k]]
    BY <1>3, <2>1
  <2> QED
    BY <1>1, <2>2
<1>7. \A j, k \in 1 .. Len(m) : j < k => to[j] < to[k]
  BY <1>1, <1>2, <1>4, <1>5
<1>8. \A i \in 1 .. Len(t) : t[i].end => \E k \in 1 .. Len(m) : to[k] = i
  <2> SUFFICES ASSUME NEW i \in 1 .. Len(t), t[i].end PROVE \E k \in 1 .. Len(m) : to[k] = i
    OBVIOUS
  <2>1. i + c \in 1 .. Len(s) /\ s[i + c].end
    BY <1>2, <1>3
  <2>2. PICK k \in 1 .. Len(m) : at[k] = i + c
    BY <1>1, <2>1
  <2> QED
    BY <1>2, <1>3, <1>5, <2>2
<1>9. Holds(t, m)
  BY <1>5, <1>6, <1>7, <1>8 DEF Holds
<1> QED
  BY <1>9 DEF t
\* A sequence after another.
LEMMA Concatenated ==
  ASSUME NEW X, NEW s \in Seq(X), NEW t \in Seq(X)
  PROVE  /\ s \o t \in Seq(X) /\ Len(s \o t) = Len(s) + Len(t)
         /\ \A i \in 1 .. Len(s \o t) : (s \o t)[i] = IF i <= Len(s) THEN s[i] ELSE t[i - Len(s)]
OBVIOUS

\* What is left of a sequence after its first c.
LEMMA After ==
  ASSUME NEW X, NEW s \in Seq(X), NEW c \in 0 .. Len(s)
  PROVE  /\ SubSeq(s, c + 1, Len(s)) \in Seq(X) /\ Len(SubSeq(s, c + 1, Len(s))) = Len(s) - c
         /\ \A i \in 1 .. Len(s) - c : SubSeq(s, c + 1, Len(s))[i] = s[i + c]
<1> DEFINE t == SubSeq(s, c + 1, Len(s))
<1>1. Len(s) \in Nat /\ c \in Nat
  OBVIOUS
<1>2. /\ t \in Seq(X) /\ Len(t) = Len(s) - c
      /\ \A i \in 1 .. Len(t) : t[i] = s[(c + 1) + i - 1]
  BY SubSeqProperties
<1> HIDE DEF t
<1>3. \A i \in 1 .. Len(s) - c : t[i] = s[i + c]
  <2> SUFFICES ASSUME NEW i \in 1 .. Len(s) - c PROVE t[i] = s[i + c]
    OBVIOUS
  <2>1. (c + 1) + i - 1 = i + c
    BY <1>1
  <2> QED
    BY <1>2, <2>1
<1> QED
  BY <1>2, <1>3 DEF t

\* A turn of receive()'s loop takes the first message, or leaves the messages as they are.
TakesOne(in, socket, n, m) ==
  LET buf == Http!Executed(in, socket, n)
      rest == Http!Unconsumed(buf) \o Http!Rest(socket, n) IN
  IF Http!Completes(buf)
  THEN /\ m # <<>> /\ buf[Http!Consumed(buf)].msg = Head(m)
       /\ Holds(rest, Tail(m))
  ELSE Holds(rest, m)

\* So it does, however the parts were read, for llhttp pauses after each message.
LEMMA Reads ==
  ASSUME NEW M, NEW in \in Seq(Parts(M)), NEW socket \in Seq(Parts(M)), NEW m \in Seq(M),
         Holds(in \o socket, m), NEW n \in Http!ReadSizes(in, socket)
  PROVE  /\ TakesOne(in, socket, n, m)
         /\ Http!Unconsumed(Http!Executed(in, socket, n)) \in Seq(Parts(M))
         /\ Http!Rest(socket, n) \in Seq(Parts(M))
         /\ Http!Completes(Http!Executed(in, socket, n)) =>
              Http!Executed(in, socket, n)[Http!Consumed(Http!Executed(in, socket, n))].msg \in M
<1> DEFINE buf == Http!Executed(in, socket, n)
           s == in \o socket
           c == Http!Consumed(buf)
           left == Http!Unconsumed(buf)
           rest == Http!Rest(socket, n)
<1>1. n \in 0 .. Len(socket) /\ (in = <<>> => n > 0) /\ n \in Nat
  BY DEF Http!ReadSizes
<1>2. /\ s \in Seq(Parts(M)) /\ Len(s) = Len(in) + Len(socket) /\ Len(s) \in Nat
      /\ Len(in) \in Nat /\ Len(socket) \in Nat
  OBVIOUS
<1>0. \A i \in 1 .. Len(s) : s[i] = IF i <= Len(in) THEN in[i] ELSE socket[i - Len(in)]
  OBVIOUS
<1>3. /\ buf \in Seq(Parts(M)) /\ Len(buf) = Len(in) + n /\ buf # <<>>
      /\ \A i \in 1 .. Len(buf) : buf[i] = s[i]
  <2> DEFINE cut == SubSeq(socket, 1, n)
  <2>1. cut \in Seq(Parts(M)) /\ Len(cut) = n /\ \A i \in 1 .. n : cut[i] = socket[i]
    BY <1>1
  <2>2. buf = in \o cut
    BY DEF Http!Executed
  <2> HIDE DEF cut, buf, s
  <2>3. buf \in Seq(Parts(M)) /\ Len(buf) = Len(in) + n
    BY <2>1, <2>2, ConcatProperties
  <2>4. ASSUME NEW i \in 1 .. Len(buf) PROVE buf[i] = s[i]
    <3>1. i \in 1 .. Len(s) /\ i \in Int
      BY <1>1, <1>2, <2>3
    <3>2. CASE i <= Len(in)
      BY <1>0, <1>2, <2>1, <2>2, <2>3, <3>1, <3>2
    <3>3. CASE ~(i <= Len(in))
      <4>1. buf[i] = cut[i - Len(in)] /\ i - Len(in) \in 1 .. n
        BY <1>1, <1>2, <2>1, <2>2, <2>3, <3>1, <3>3
      <4> QED
        BY <1>0, <2>1, <3>1, <3>3, <4>1
    <3> QED
      BY <3>2, <3>3
  <2>5. buf # <<>>
    <3>1. in # <<>> => Len(in) > 0
      OBVIOUS
    <3> QED
      BY <1>1, <1>2, <2>3, <3>1
  <2> QED
    BY <2>3, <2>4, <2>5
<1> HIDE DEF buf, s
<1>4. /\ c \in 1 .. Len(buf) /\ \A i \in 1 .. c - 1 : ~buf[i].end
      /\ ~buf[c].end => c = Len(buf)
  <2>1. CASE \E i \in DOMAIN buf : buf[i].end
    <3> DEFINE First(i) == buf[i].end /\ \A j \in 1 .. i - 1 : ~buf[j].end
    <3>1. \E i \in DOMAIN buf : First(i)
      <4>1. PICK i \in 1 .. Len(buf) : buf[i].end
        BY <1>3, <2>1
      <4>2. i \in 1 .. Len(s) /\ s[i].end
        BY <1>1, <1>2, <1>3, <4>1
      <4>3. PICK f \in 1 .. i : s[f].end /\ \A j \in 1 .. f - 1 : ~s[j].end
        BY <1>2, <4>2, HoldsFirst DEF s
      <4>4. f \in 1 .. Len(buf) /\ \A j \in 1 .. f - 1 : j \in 1 .. Len(buf)
        BY <1>3, <4>1
      <4>5. First(f) /\ f \in DOMAIN buf
        BY <1>3, <4>3, <4>4
      <4> QED
        BY <4>5
    <3>2. c = CHOOSE i \in DOMAIN buf : First(i)
      BY <2>1 DEF Http!Consumed
    <3>3. c \in DOMAIN buf /\ First(c)
      <4> HIDE DEF First
      <4> QED
        BY <3>1, <3>2
    <3> QED
      BY <1>3, <3>3
  <2>2. CASE ~\E i \in DOMAIN buf : buf[i].end
    <3>1. c = Len(buf)
      BY <2>2 DEF Http!Consumed
    <3>2. DOMAIN buf = 1 .. Len(buf) /\ Len(buf) \in Nat /\ Len(buf) > 0
      BY <1>3
    <3> QED
      BY <2>2, <3>1, <3>2
  <2> QED
    BY <2>1, <2>2
<1> HIDE DEF c
<1>5. left \o rest = SubSeq(s, c + 1, Len(s)) /\ left \in Seq(Parts(M)) /\ rest \in Seq(Parts(M))
  <2>1. left = SubSeq(buf, c + 1, Len(buf)) /\ rest = SubSeq(socket, n + 1, Len(socket))
    BY DEF Http!Unconsumed, Http!Rest, c
  <2>2. /\ left \in Seq(Parts(M)) /\ Len(left) = Len(buf) - c
        /\ \A i \in 1 .. Len(buf) - c : left[i] = buf[i + c]
    BY <1>3, <1>4, <2>1
  <2>3. /\ rest \in Seq(Parts(M)) /\ Len(rest) = Len(socket) - n
        /\ \A i \in 1 .. Len(socket) - n : rest[i] = socket[i + n]
    BY <1>1, <1>2, <2>1
  <2> DEFINE t == SubSeq(s, c + 1, Len(s))
             both == left \o rest
  <2>4. t \in Seq(Parts(M)) /\ Len(t) = Len(s) - c /\ \A i \in 1 .. Len(s) - c : t[i] = s[i + c]
    <3>1. c \in 0 .. Len(s) /\ s \in Seq(Parts(M))
      BY <1>1, <1>2, <1>3, <1>4
    <3> QED
      BY <3>1, After
  <2> HIDE DEF left, rest, t
  <2>5. /\ both \in Seq(Parts(M)) /\ Len(both) = Len(left) + Len(rest)
        /\ \A i \in 1 .. Len(both) : both[i] = IF i <= Len(left) THEN left[i] ELSE rest[i - Len(left)]
    <3>1. left \in Seq(Parts(M)) /\ rest \in Seq(Parts(M))
      BY <2>2, <2>3
    <3> QED
      BY <3>1, Concatenated
  <2> HIDE DEF both
  <2>6. Len(both) = Len(t) /\ Len(t) \in Nat
    <3>1. c \in Int /\ n \in Int /\ Len(in) \in Int /\ Len(socket) \in Int /\ Len(t) \in Nat
      BY <1>1, <1>2, <1>3, <1>4, <2>4
    <3>2. Len(both) = (Len(in) + n - c) + (Len(socket) - n)
      BY <1>3, <2>2, <2>3, <2>5, <3>1
    <3> QED
      BY <1>2, <2>4, <3>1, <3>2
  <2>7. ASSUME NEW i \in 1 .. Len(t) PROVE both[i] = t[i]
    <3>1. i \in Int /\ c \in Int /\ t[i] = s[i + c] /\ i + c \in 1 .. Len(s)
      BY <1>2, <1>3, <1>4, <2>4
    <3>2. CASE i <= Len(left)
      <4>1. both[i] = left[i] /\ i \in 1 .. Len(buf) - c
        BY <2>2, <2>5, <2>6, <3>1, <3>2, <1>3, <1>4
      <4>2. left[i] = buf[i + c] /\ i + c \in 1 .. Len(buf)
        BY <2>2, <4>1, <3>1, <1>3, <1>4
      <4> QED
        BY <1>3, <3>1, <4>1, <4>2
    <3>3. CASE ~(i <= Len(left))
      <4> DEFINE j == i - Len(left)
      <4>0. /\ Len(left) = Len(in) + n - c /\ Len(t) = Len(in) + Len(socket) - c
            /\ Len(left) \in Int
        BY <1>1, <1>2, <1>3, <1>4, <2>2, <2>4
      <4>1. both[i] = rest[j]
        BY <2>5, <2>6, <3>3
      <4>5. i <= Len(t) /\ i >= 1 /\ c \in Int /\ n \in Int /\ n >= 0
        BY <1>1, <2>6, <3>1
      <4>6. j \in 1 .. Len(socket) - n
        BY <1>2, <3>1, <3>3, <4>0, <4>5
      <4>2. j + n = i + c - Len(in)
        BY <1>2, <3>1, <4>0, <4>5
      <4>3. i + c > Len(in)
        BY <1>2, <3>1, <3>3, <4>0, <4>5
      <4>7. ~(i + c <= Len(in))
        BY <1>2, <3>1, <4>3
      <4>4. s[i + c] = socket[i + c - Len(in)]
        BY <1>0, <3>1, <4>7
      <4> QED
        BY <2>3, <3>1, <4>1, <4>2, <4>4, <4>6
    <3> QED
      BY <3>2, <3>3
  <2>8. both = t
    BY <2>4, <2>5, <2>6, <2>7, SeqEqual
  <2> QED
    BY <2>2, <2>3, <2>8 DEF both, t
<1>6. c \in 1 .. Len(s) /\ s[c] = buf[c] /\ \A i \in 1 .. c - 1 : ~s[i].end
  BY <1>1, <1>2, <1>3, <1>4
<1>7. Http!Completes(buf) <=> buf[c].end
  BY <1>3 DEF Http!Completes, c
<1>8. CASE buf[c].end
  <2>1. m # <<>> /\ s[c].msg = Head(m) /\ Holds(SubSeq(s, c + 1, Len(s)), Tail(m))
    BY <1>2, <1>6, <1>8, HoldsCut DEF s
  <2>2. TakesOne(in, socket, n, m)
    BY <1>5, <1>6, <1>7, <1>8, <2>1 DEF TakesOne, buf, c
  <2>3. buf[c] \in Parts(M)
    BY <1>3, <1>4
  <2>4. buf[c].msg \in M
    BY <2>3 DEF Parts
  <2> QED
    BY <1>5, <2>2, <2>4 DEF buf, c
<1>9. CASE ~buf[c].end
  <2>1. \A i \in 1 .. c : ~s[i].end
    BY <1>2, <1>4, <1>6, <1>9
  <2>2. c \in 0 .. Len(s)
    BY <1>2, <1>6
  <2>3. Holds(SubSeq(s, c + 1, Len(s)), m)
    BY <1>2, <2>1, <2>2, HoldsSkip DEF s
  <2>4. TakesOne(in, socket, n, m)
    BY <1>5, <1>7, <1>9, <2>3 DEF TakesOne, buf
  <2> QED
    BY <1>5, <1>7, <1>9, <2>4 DEF buf
<1> QED
  BY <1>8, <1>9

-----------------------------------------------------------------------------
(***************************************************************************)
(* The notes.  An id is signed by the request that created the note; to    *)
(* every id given out belongs one author for ever, and what any response   *)
(* shows of the id is by that author.                                      *)
(***************************************************************************)

Tags == Rpc \X Nat
Authors == [Nat -> Tags \cup {<<>>}]
Note == [title : Text, body : Text, by : Tags]
NoteMaps == UNION {[D -> Note] : D \in SUBSET Nat}
Database == [notes : NoteMaps, next : Nat]
Shown == [status : Nat, notes : NoteMaps]

\* The notes are by their authors, and of ids that were given out.
By(author, notes, next) ==
  \A id \in DOMAIN notes : id < next /\ notes[id].by = author[id]

\* The response and the database that a request leaves are.
Right(author, effect) ==
  /\ effect.db \in Database /\ effect.response \in Shown
  /\ By(author, effect.db.notes, effect.db.next)
  /\ By(author, effect.response.notes, effect.db.next)

\* A map of notes is a function on its domain.
LEMMA MapsAre ==
  \A f : f \in NoteMaps <=> f \in [DOMAIN f -> Note] /\ DOMAIN f \subseteq Nat
  BY DEF NoteMaps

\* A response shows what the database has.
LEMMA ShowsRight ==
  ASSUME NEW author, NEW base \in Database, By(author, base.notes, base.next),
         NEW ids \in SUBSET DOMAIN base.notes, NEW status \in Nat
  PROVE  /\ Http!Shows(status, base, ids) \in Shown
         /\ By(author, Http!Shows(status, base, ids).notes, base.next)
<1> DEFINE shows == [id \in ids |-> base.notes[id]]
<1>1. base.notes \in [DOMAIN base.notes -> Note] /\ DOMAIN base.notes \subseteq Nat
  BY MapsAre DEF Database
<1>2. shows \in [ids -> Note] /\ DOMAIN shows = ids /\ ids \subseteq Nat
  BY <1>1
<1>3. shows \in NoteMaps
  BY <1>2, MapsAre
<1>4. By(author, shows, base.next)
  BY <1>2 DEF By
<1> HIDE DEF shows
<1>5. Http!Shows(status, base, ids) = [status |-> status, notes |-> shows]
  BY DEF Http!Shows, shows
<1> QED
  BY <1>3, <1>4, <1>5 DEF Shown

\* A refusal shows nothing and leaves the database.
LEMMA RefuseRight ==
  ASSUME NEW author, NEW base \in Database, By(author, base.notes, base.next), NEW status \in Nat
  PROVE  Right(author, Http!Refuse(status, base)) /\ Http!Refuse(status, base).db = base
<1> DEFINE shows == [id \in {} |-> Http!NoNotes.notes[id]]
<1>1. shows \in [{} -> Note] /\ DOMAIN shows = {}
  OBVIOUS
<1>2. shows \in NoteMaps
  BY <1>1, MapsAre
<1>3. By(author, shows, base.next)
  BY <1>1 DEF By
<1> HIDE DEF shows
<1>4. Http!Refuse(status, base) = [response |-> [status |-> status, notes |-> shows], db |-> base]
  BY DEF Http!Refuse, Http!Effect, Http!Error, Http!Shows, shows
<1> QED
  BY <1>2, <1>3, <1>4 DEF Right, Shown

\* An effect whose parts are right is.
LEMMA EffectRight ==
  ASSUME NEW author, NEW base \in Database, By(author, base.notes, base.next),
         NEW ids \in SUBSET DOMAIN base.notes, NEW status \in Nat
  PROVE  /\ Right(author, Http!Effect(Http!Shows(status, base, ids), base))
         /\ Http!Effect(Http!Shows(status, base, ids), base).db = base
<1> DEFINE shows == Http!Shows(status, base, ids)
<1>1. shows \in Shown /\ By(author, shows.notes, base.next)
  BY ShowsRight
<1> HIDE DEF shows
<1>2. Http!Effect(shows, base).response = shows /\ Http!Effect(shows, base).db = base
  BY DEF Http!Effect
<1> QED
  BY <1>1, <1>2 DEF Right, shows

\* A change of a note keeps its author.
LEMMA ChangeRight ==
  ASSUME NEW author, NEW base \in Database, By(author, base.notes, base.next),
         NEW id \in DOMAIN base.notes, NEW note \in Note, note.by = author[id]
  PROVE  /\ Http!Change(base, id, note) \in Database
         /\ Http!Change(base, id, note).next = base.next
         /\ Http!Change(base, id, note).notes[id] = note
         /\ DOMAIN Http!Change(base, id, note).notes = DOMAIN base.notes
         /\ By(author, Http!Change(base, id, note).notes, base.next)
<1> DEFINE now == [base.notes EXCEPT ![id] = note]
<1>1. base.notes \in [DOMAIN base.notes -> Note] /\ DOMAIN base.notes \subseteq Nat
  BY MapsAre DEF Database
<1>2. now \in [DOMAIN base.notes -> Note] /\ DOMAIN now = DOMAIN base.notes /\ now[id] = note
  BY <1>1
<1>3. now \in NoteMaps
  BY <1>1, <1>2, MapsAre
<1>4. By(author, now, base.next)
  BY <1>1, <1>2 DEF By
<1>5. Http!Change(base, id, note) = [base EXCEPT !.notes = now]
  BY DEF Http!Change, Database
<1> HIDE DEF now
<1>6. [base EXCEPT !.notes = now] = [notes |-> now, next |-> base.next]
  BY DEF Database
<1> QED
  BY <1>2, <1>3, <1>4, <1>5, <1>6 DEF Database

\* PUT keeps the authors.
LEMMA PutRight ==
  ASSUME NEW author, NEW base \in Database, By(author, base.notes, base.next),
         NEW req \in Http!NoteRequest, req.id \in DOMAIN base.notes
  PROVE  Right(author, Http!Put(req, base)) /\ Http!Put(req, base).db.next = base.next
<1> DEFINE id == req.id
           note == base.notes[id]
           title == Http!Field(req.title, note.title)
           titled == Http!Change(base, id, [note EXCEPT !.title = title])
           note2 == titled.notes[id]
           body == Http!Field(req.body, note2.body)
           last == Http!Change(titled, id, [note2 EXCEPT !.body = body])
<1>1. base.notes \in [DOMAIN base.notes -> Note] /\ DOMAIN base.notes \subseteq Nat
  BY MapsAre DEF Database
<1>2. note \in Note /\ note.by = author[id]
  BY <1>1 DEF By
<1>3. CASE ~req.well \/ req.title = NotText
  <2>1. Http!Put(req, base) = Http!Refuse(400, base)
    BY <1>3 DEF Http!Put
  <2> QED
    BY <2>1, RefuseRight
<1>4. CASE ~(~req.well \/ req.title = NotText)
  <2> HIDE DEF id, note
  <2>1. req.title \in Http!Content /\ req.body \in Http!Content
    BY DEF Http!NoteRequest
  <2>2. title \in Text
    BY <1>2, <1>4, <2>1 DEF Http!Field, Http!Content, Note
  <2> HIDE DEF title
  <2>3. [note EXCEPT !.title = title] \in Note /\ [note EXCEPT !.title = title].by = author[id]
    BY <1>2, <2>2 DEF Note
  <2>4. /\ titled \in Database /\ titled.next = base.next /\ id \in DOMAIN titled.notes
        /\ note2 \in Note /\ note2.by = author[id] /\ By(author, titled.notes, titled.next)
    <3> DEFINE new == [note EXCEPT !.title = title]
    <3> HIDE DEF new
    <3>1. new \in Note /\ new.by = author[id] /\ id \in DOMAIN base.notes
      BY <2>3 DEF new, id
    <3> DEFINE t == Http!Change(base, id, new)
    <3>2. /\ t \in Database /\ t.next = base.next /\ t.notes[id] = new
          /\ DOMAIN t.notes = DOMAIN base.notes /\ By(author, t.notes, base.next)
      BY <3>1, ChangeRight
    <3>3. titled = t
      BY DEF new
    <3> HIDE DEF t, titled
    <3> QED
      BY <3>1, <3>2, <3>3
  <2> HIDE DEF titled, note2
  <2>5. CASE req.body = NotText
    <3>1. Http!Put(req, base) = Http!Refuse(400, titled)
      BY <1>4, <2>5 DEF Http!Put, titled, title, note, id
    <3> QED
      BY <2>4, <3>1, RefuseRight
  <2>6. CASE req.body # NotText
    <3>1. body \in Text
      BY <2>1, <2>4, <2>6 DEF Http!Field, Http!Content, Note
    <3> HIDE DEF body
    <3> DEFINE new == [note2 EXCEPT !.body = body]
    <3>2. new \in Note /\ new.by = author[id]
      BY <2>4, <3>1 DEF Note
    <3> HIDE DEF new
    <3>3. /\ last \in Database /\ last.next = base.next /\ id \in DOMAIN last.notes
          /\ By(author, last.notes, last.next)
      <4> DEFINE t == Http!Change(titled, id, new)
      <4>1. /\ t \in Database /\ t.next = titled.next
            /\ DOMAIN t.notes = DOMAIN titled.notes /\ By(author, t.notes, titled.next)
        BY <2>4, <3>2, ChangeRight
      <4>2. last = t
        BY DEF new
      <4> HIDE DEF t, last
      <4> QED
        BY <2>4, <4>1, <4>2
    <3> HIDE DEF last
    <3>4. Http!Put(req, base) = Http!Effect(Http!Shows(200, last, {id}), last)
      BY <1>4, <2>6 DEF Http!Put, last, body, note2, titled, title, note, id
    <3>5. {id} \in SUBSET DOMAIN last.notes
      BY <3>3
    <3> QED
      BY <3>3, <3>4, <3>5, EffectRight
  <2> QED
    BY <2>5, <2>6
<1> QED
  BY <1>3, <1>4

\* What is asked of one note keeps the authors.
LEMMA PerNoteRight ==
  ASSUME NEW author, NEW base \in Database, By(author, base.notes, base.next),
         NEW req \in Http!NoteRequest
  PROVE  Right(author, Http!PerNote(req, base)) /\ Http!PerNote(req, base).db.next = base.next
<1> DEFINE found == req.id \in DOMAIN base.notes
           erased == Http!Erase(base, req.id)
<1>1. CASE req.method = "GET" /\ found
  <2>1. Http!PerNote(req, base) = Http!Effect(Http!Shows(200, base, {req.id}), base)
    BY <1>1 DEF Http!PerNote
  <2>2. {req.id} \in SUBSET DOMAIN base.notes
    BY <1>1
  <2> QED
    BY <2>1, <2>2, EffectRight
<1>2. CASE req.method = "PUT" /\ found
  <2>1. Http!PerNote(req, base) = Http!Put(req, base)
    BY <1>2 DEF Http!PerNote
  <2> QED
    BY <1>2, <2>1, PutRight
<1>3. CASE req.method = "DELETE" /\ found
  <2>1. Http!PerNote(req, base) = Http!Effect(Http!Shows(200, base, {}), erased)
    BY <1>3 DEF Http!PerNote
  <2>2. Http!Shows(200, base, {}) \in Shown /\ By(author, Http!Shows(200, base, {}).notes, base.next)
    BY ShowsRight
  <2>3. erased \in Database /\ erased.next = base.next /\ By(author, erased.notes, base.next)
    <3> DEFINE rest == [i \in DOMAIN base.notes \ {req.id} |-> base.notes[i]]
    <3>1. base.notes \in [DOMAIN base.notes -> Note] /\ DOMAIN base.notes \subseteq Nat
      BY MapsAre DEF Database
    <3>2. rest \in [DOMAIN rest -> Note] /\ DOMAIN rest = DOMAIN base.notes \ {req.id}
      BY <3>1
    <3>3. rest \in NoteMaps /\ By(author, rest, base.next)
      BY <3>1, <3>2, MapsAre DEF By
    <3> HIDE DEF rest
    <3>4. erased = [notes |-> rest, next |-> base.next]
      BY DEF Http!Erase, Database, rest
    <3> QED
      BY <3>3, <3>4 DEF Database
  <2> DEFINE shows == Http!Shows(200, base, {})
  <2> HIDE DEF shows, erased
  <2>4. Http!Effect(shows, erased).response = shows /\ Http!Effect(shows, erased).db = erased
    BY DEF Http!Effect
  <2> QED
    BY <2>1, <2>2, <2>3, <2>4 DEF Right, shows
<1>4. CASE req.method \in {"GET", "PUT", "DELETE"} /\ ~found
  <2>1. Http!PerNote(req, base) = Http!Refuse(404, base)
    BY <1>4 DEF Http!PerNote
  <2> QED
    BY <2>1, RefuseRight
<1>5. CASE req.method \notin {"GET", "PUT", "DELETE"}
  <2>1. Http!PerNote(req, base) = Http!Refuse(405, base)
    BY <1>5 DEF Http!PerNote
  <2> QED
    BY <2>1, RefuseRight
<1> QED
  BY <1>1, <1>2, <1>3, <1>4, <1>5

\* What a request does to the authors: a new id may have one.
Signs(author, next, effect) ==
  \E then \in Authors :
    /\ \A id \in Nat : id < next => then[id] = author[id]
    /\ next <= effect.db.next /\ Right(then, effect)

\* POST /notes takes an id that was never given out, and signs it.
LEMMA CollectionRight ==
  ASSUME NEW author \in Authors, NEW base \in Database, By(author, base.notes, base.next),
         NEW req \in Http!NoteRequest, NEW tag \in Tags
  PROVE  Signs(author, base.next, Http!Collection(req, tag, base))
<1>0. base.next \in Nat
  BY DEF Database
<1>1. CASE req.method = "GET"
  <2>1. Http!Collection(req, tag, base) = Http!Effect(Http!Shows(200, base, DOMAIN base.notes), base)
    BY <1>1 DEF Http!Collection
  <2>2. Right(author, Http!Collection(req, tag, base)) /\ Http!Collection(req, tag, base).db = base
    BY <2>1, EffectRight
  <2> QED
    BY <1>0, <2>2 DEF Signs
<1>2. CASE req.method = "POST" /\ req.well /\ req.title \in Text /\ req.body \in Text
  <2> DEFINE note == [title |-> req.title, body |-> req.body, by |-> tag]
             id == base.next
             new == Http!Create(base, note)
             then == [author EXCEPT ![id] = tag]
             notes == [i \in DOMAIN base.notes \cup {id} |-> IF i = id THEN note ELSE base.notes[i]]
  <2>1. Http!Collection(req, tag, base) = Http!Effect(Http!Shows(201, new, {id}), new)
    BY <1>2 DEF Http!Collection, Http!NextId
  <2>2. base.notes \in [DOMAIN base.notes -> Note] /\ DOMAIN base.notes \subseteq Nat
    BY MapsAre DEF Database
  <2>3. note \in Note /\ note.by = tag
    BY <1>2 DEF Note
  <2> HIDE DEF note
  <2>4. /\ notes \in [DOMAIN notes -> Note] /\ DOMAIN notes = DOMAIN base.notes \cup {id}
        /\ \A i \in DOMAIN base.notes : i # id => notes[i] = base.notes[i]
        /\ notes[id] = note
    BY <2>2, <2>3
  <2>5. notes \in NoteMaps
    BY <1>0, <2>2, <2>4, MapsAre
  <2>6. then \in Authors /\ then[id] = tag /\ \A i \in Nat : i < id => then[i] = author[i]
    BY <1>0 DEF Authors
  <2>7. new = [notes |-> notes, next |-> id + 1]
    BY DEF Http!Create, Http!NextId
  <2> HIDE DEF notes, then, new
  <2>8. By(then, notes, id + 1)
    <3> SUFFICES ASSUME NEW i \in DOMAIN notes PROVE i < id + 1 /\ notes[i].by = then[i]
      BY DEF By
    <3>1. CASE i = id
      BY <1>0, <2>3, <2>4, <2>6, <3>1
    <3>2. CASE i # id
      <4>1. i \in DOMAIN base.notes /\ i < id /\ i \in Nat /\ base.notes[i].by = author[i]
        BY <2>2, <2>4, <3>2 DEF By
      <4> QED
        BY <1>0, <2>4, <2>6, <3>2, <4>1
    <3> QED
      BY <3>1, <3>2
  <2>9. new \in Database /\ By(then, new.notes, new.next) /\ {id} \in SUBSET DOMAIN new.notes
    BY <1>0, <2>4, <2>5, <2>7, <2>8 DEF Database
  <2>10. Right(then, Http!Collection(req, tag, base)) /\ Http!Collection(req, tag, base).db = new
    BY <2>1, <2>9, EffectRight
  <2>11. id <= new.next
    BY <1>0, <2>7
  <2> QED
    BY <2>6, <2>10, <2>11 DEF Signs
<1>3. CASE req.method # "GET" /\ ~(req.method = "POST" /\ req.well /\ req.title \in Text /\ req.body \in Text)
  <2>1. PICK status \in Nat : Http!Collection(req, tag, base) = Http!Refuse(status, base)
    <3>1. CASE req.method = "POST"
      BY <1>3, <3>1 DEF Http!Collection
    <3>2. CASE req.method # "POST"
      BY <1>3, <3>2 DEF Http!Collection
    <3> QED
      BY <3>1, <3>2
  <2>2. Right(author, Http!Collection(req, tag, base)) /\ Http!Collection(req, tag, base).db = base
    BY <2>1, RefuseRight
  <2> QED
    BY <1>0, <2>2 DEF Signs
<1> QED
  BY <1>1, <1>2, <1>3

\* handle() keeps the authors of all ids given out before.
LEMMA HandleRight ==
  ASSUME NEW author \in Authors, NEW base \in Database, By(author, base.notes, base.next),
         NEW req \in Http!NoteRequest, NEW tag \in Tags
  PROVE  Signs(author, base.next, Http!Handle(req, tag, base))
<1>0. base.next \in Nat
  BY DEF Database
<1>1. CASE req.path = "/notes"
  <2>1. Http!Handle(req, tag, base) = Http!Collection(req, tag, base)
    BY <1>1 DEF Http!Handle
  <2> QED
    BY <2>1, CollectionRight
<1>2. CASE req.path = "/notes/<id>"
  <2>1. Http!Handle(req, tag, base) = Http!PerNote(req, base)
    BY <1>2 DEF Http!Handle
  <2>2. Right(author, Http!Handle(req, tag, base)) /\ Http!Handle(req, tag, base).db.next = base.next
    BY <2>1, PerNoteRight
  <2> QED
    BY <1>0, <2>2 DEF Signs
<1>3. CASE req.path = "/stats" /\ req.method = "GET"
  <2>1. Http!Handle(req, tag, base) = Http!Effect(Http!Shows(200, base, DOMAIN base.notes), base)
    BY <1>3 DEF Http!Handle
  <2>2. Right(author, Http!Handle(req, tag, base)) /\ Http!Handle(req, tag, base).db = base
    BY <2>1, EffectRight
  <2> QED
    BY <1>0, <2>2 DEF Signs
<1>4. CASE /\ req.path # "/notes" /\ req.path # "/notes/<id>"
           /\ ~(req.path = "/stats" /\ req.method = "GET")
  <2>1. Http!Handle(req, tag, base) = Http!Refuse(404, base)
    BY <1>4 DEF Http!Handle
  <2>2. Right(author, Http!Handle(req, tag, base)) /\ Http!Handle(req, tag, base).db = base
    BY <2>1, RefuseRight
  <2> QED
    BY <1>0, <2>2 DEF Signs
<1> QED
  BY <1>1, <1>2, <1>3, <1>4

-----------------------------------------------------------------------------
(***************************************************************************)
(* The invariant of the connection.  The queue of the read lock is the     *)
(* pairing: its first holders wait for the answers in the client's buffer  *)
(* and socket, the next for those that the server sends, the next for the  *)
(* requests in the server's buffer and socket, and the last perhaps for    *)
(* the request that is being written.  It breaks when either side closes,  *)
(* and what is left of it then says that a call that fails was not         *)
(* handled.                                                                *)
(***************************************************************************)

Req == [ask : Http!NoteRequest, tag : Tags, close : BOOLEAN]
Resp == [to : Tags, status : Nat, notes : NoteMaps]

HttpTypes ==
  /\ conn_pc \in [Rpc -> {"idle", "lock", "send", "receive", "failed"}]
  /\ asked \in [Rpc -> Seq(Req)] /\ got \in [Rpc -> Seq(Resp)]
  /\ writers \in Seq(Rpc) /\ readers \in Seq(Rpc) /\ sent \in [Rpc -> 0 .. 2]
  /\ c2s \in Seq(Parts(Req)) /\ sin \in Seq(Parts(Req))
  /\ s2c \in Seq(Parts(Resp)) /\ cin \in Seq(Parts(Resp))
  /\ conn_server \in {"receive", "drain", "closed"}
  /\ sends \in Seq(Resp) /\ written \in {0, 1}
  /\ handled \in SUBSET Tags /\ client \in {"open", "closed"} /\ db \in Database

\* The call that r makes, or made last.
CallOf(r) == <<r, Len(asked[r])>>

Singly(s) == \A i, j \in 1 .. Len(s) : s[i] = s[j] => i = j
In(r, s) == \E i \in 1 .. Len(s) : s[i] = r

\* A caller has the responses to all its calls but the one that it waits for, and waits for
\* the locks where it should.
CallerOk(r) ==
  /\ Len(got[r]) = IF conn_pc[r] = "idle" THEN Len(asked[r]) ELSE Len(asked[r]) - 1
  /\ \A k \in 1 .. Len(asked[r]) : asked[r][k].tag = <<r, k>>
  /\ \A k \in 1 .. Len(got[r]) : got[r][k].to = <<r, k>>
  /\ In(r, writers) <=> conn_pc[r] \in {"lock", "send"}
  /\ In(r, readers) <=> conn_pc[r] \in {"send", "receive"}
  /\ conn_pc[r] = "send" => writers[1] = r /\ readers[Len(readers)] = r /\ sent[r] \in {0, 1}

Locks == Singly(writers) /\ Singly(readers) /\ \A r \in Rpc : CallerOk(r)

\* What was handled was asked; what waits for the lock was not handled.
HandledOf(r) ==
  /\ \A k \in Nat : <<r, k>> \in handled => k <= Len(asked[r])
  /\ conn_pc[r] = "lock" => CallOf(r) \notin handled
HandledOk == client = "open" => \A r \in Rpc : HandledOf(r)

\* What failed was not handled, and never will be.
FailedOk ==
  /\ \A r \in Rpc : conn_pc[r] = "failed" => CallOf(r) \notin handled /\ conn_server = "closed"
  /\ conn_server = "closed" => sends = <<>>

Sending == \E r \in Rpc : conn_pc[r] = "send"

\* The first readers wait for the answers on their way.
Answered(a) ==
  /\ Len(a) + Len(sends) <= Len(readers)
  /\ \A i \in 1 .. Len(a) : a[i].to = CallOf(readers[i])
  /\ \A i \in 1 .. Len(sends) : sends[i].to = CallOf(readers[Len(a) + i])
  /\ \A i \in 1 .. Len(readers) : i > Len(a) + Len(sends) => CallOf(readers[i]) \notin handled

\* The others for those to the requests on their way, the last perhaps being sent.
Asking(a, q) ==
  /\ Sending => Len(a) + Len(sends) + Len(q) + 1 = Len(readers)
  /\ ~Sending => Len(a) + Len(sends) + Len(q) = Len(readers)
  /\ \A i \in 1 .. Len(q) : q[i].tag = CallOf(readers[Len(a) + Len(sends) + i])

Pipe(a, q) ==
  /\ Holds(cin \o s2c, a) /\ Holds(sin \o c2s, q)
  /\ client = "open" => Answered(a) /\ (conn_server # "closed" => Asking(a, q))

PipeOk == \E a \in Seq(Resp), q \in Seq(Req) : Pipe(a, q)

\* All responses show notes by their authors.
NotesBy(author) ==
  /\ By(author, db.notes, db.next)
  /\ \A r \in Rpc : \A k \in 1 .. Len(got[r]) : By(author, got[r][k].notes, db.next)
  /\ \A i \in 1 .. Len(cin) : By(author, cin[i].msg.notes, db.next)
  /\ \A i \in 1 .. Len(s2c) : By(author, s2c[i].msg.notes, db.next)
  /\ \A i \in 1 .. Len(sends) : By(author, sends[i].notes, db.next)
NotesOk == \E author \in Authors : NotesBy(author)

HttpInv == HttpTypes /\ Locks /\ HandledOk /\ FailedOk /\ PipeOk /\ NotesOk

-----------------------------------------------------------------------------
\* The tail of a sequence.
LEMMA TailOf ==
  ASSUME NEW X, NEW s \in Seq(X), s # <<>>
  PROVE  /\ Tail(s) \in Seq(X) /\ Head(s) \in X /\ Head(s) = s[1]
         /\ Len(Tail(s)) = Len(s) - 1 /\ Len(s) \in Nat /\ Len(s) >= 1
         /\ \A i \in 1 .. Len(s) - 1 : Tail(s)[i] = s[i + 1]
  OBVIOUS

\* A sequence with one more element.
LEMMA AppendTo ==
  ASSUME NEW X, NEW s \in Seq(X), NEW e \in X
  PROVE  /\ Append(s, e) \in Seq(X) /\ Len(Append(s, e)) = Len(s) + 1 /\ Len(s) \in Nat
         /\ Append(s, e)[Len(s) + 1] = e
         /\ \A i \in 1 .. Len(s) : Append(s, e)[i] = s[i]
  OBVIOUS

\* What is sent goes to the end of what is on its way.
LEMMA JoinAppend ==
  ASSUME NEW X, NEW s \in Seq(X), NEW t \in Seq(X), NEW e \in X
  PROVE  s \o Append(t, e) = Append(s \o t, e)
  OBVIOUS

\* The first leaves the queue of a lock.
LEMMA InTail ==
  ASSUME NEW X, NEW s \in Seq(X), s # <<>>, Singly(s)
  PROVE  /\ Singly(Tail(s))
         /\ \A x : In(x, Tail(s)) <=> In(x, s) /\ x # s[1]
<1> DEFINE t == Tail(s)
<1>1. /\ Len(t) = Len(s) - 1 /\ Len(s) \in Nat /\ Len(s) >= 1
      /\ \A i \in 1 .. Len(s) - 1 : t[i] = s[i + 1]
  BY TailOf
<1> HIDE DEF t
<1>2. Singly(t)
  <2> SUFFICES ASSUME NEW i \in 1 .. Len(t), NEW j \in 1 .. Len(t), t[i] = t[j] PROVE i = j
    BY DEF Singly
  <2>1. i + 1 \in 1 .. Len(s) /\ j + 1 \in 1 .. Len(s) /\ s[i + 1] = s[j + 1]
    BY <1>1
  <2>2. i + 1 = j + 1
    BY <2>1 DEF Singly
  <2> QED
    BY <1>1, <2>2
<1>3. ASSUME NEW x, In(x, t) PROVE In(x, s) /\ x # s[1]
  <2>1. PICK i \in 1 .. Len(t) : t[i] = x
    BY <1>3 DEF In
  <2>2. i + 1 \in 1 .. Len(s) /\ s[i + 1] = x /\ i + 1 # 1 /\ 1 \in 1 .. Len(s)
    BY <1>1, <2>1
  <2> QED
    BY <2>2 DEF In, Singly
<1>4. ASSUME NEW x, In(x, s), x # s[1] PROVE In(x, t)
  <2>1. PICK i \in 1 .. Len(s) : s[i] = x
    BY <1>4 DEF In
  <2>2. i # 1 /\ i \in Int
    BY <1>4, <2>1
  <2>3. i - 1 \in 1 .. Len(t) /\ (i - 1) + 1 = i
    BY <1>1, <2>2
  <2>4. t[i - 1] = x
    BY <1>1, <2>1, <2>3
  <2> QED
    BY <2>3, <2>4 DEF In
<1> QED
  BY <1>2, <1>3, <1>4 DEF t

\* One joins the queue of a lock.
LEMMA InAppend ==
  ASSUME NEW X, NEW s \in Seq(X), NEW e \in X
  PROVE  /\ Singly(s) /\ ~In(e, s) => Singly(Append(s, e))
         /\ \A x : In(x, Append(s, e)) <=> In(x, s) \/ x = e
<1> DEFINE t == Append(s, e)
<1>1. /\ Len(t) = Len(s) + 1 /\ Len(s) \in Nat /\ t[Len(s) + 1] = e
      /\ \A i \in 1 .. Len(s) : t[i] = s[i]
  BY AppendTo
<1> HIDE DEF t
<1>2. ASSUME Singly(s), ~In(e, s) PROVE Singly(t)
  <2> SUFFICES ASSUME NEW i \in 1 .. Len(t), NEW j \in 1 .. Len(t), t[i] = t[j] PROVE i = j
    BY DEF Singly
  <2>1. \A k \in 1 .. Len(s) : t[k] = s[k] /\ s[k] # e
    BY <1>1, <1>2 DEF In
  <2>2. i \in 1 .. Len(s) \/ i = Len(s) + 1
    BY <1>1
  <2>3. j \in 1 .. Len(s) \/ j = Len(s) + 1
    BY <1>1
  <2>4. CASE i \in 1 .. Len(s) /\ j \in 1 .. Len(s)
    BY <1>2, <2>1, <2>4 DEF Singly
  <2> QED
    BY <1>1, <2>1, <2>2, <2>3, <2>4
<1>3. ASSUME NEW x, In(x, t) PROVE In(x, s) \/ x = e
  <2>1. PICK i \in 1 .. Len(t) : t[i] = x
    BY <1>3 DEF In
  <2>2. i \in 1 .. Len(s) \/ i = Len(s) + 1
    BY <1>1
  <2> QED
    BY <1>1, <2>1, <2>2 DEF In
<1>4. ASSUME NEW x, In(x, s) \/ x = e PROVE In(x, t)
  <2>1. Len(s) + 1 \in 1 .. Len(t)
    BY <1>1
  <2>2. CASE x = e
    BY <1>1, <2>1, <2>2 DEF In
  <2>3. CASE In(x, s)
    <3>1. PICK i \in 1 .. Len(s) : s[i] = x
      BY <2>3 DEF In
    <3>2. i \in 1 .. Len(t) /\ t[i] = x
      BY <1>1, <3>1
    <3> QED
      BY <3>2 DEF In
  <2> QED
    BY <1>4, <2>2, <2>3
<1> QED
  BY <1>2, <1>3, <1>4 DEF t

\* No part holds no message.
LEMMA HoldsNothing ==
  ASSUME NEW M, NEW m \in Seq(M), Holds(<<>>, m)
  PROVE  m = <<>>
<1>1. PICK at \in [1 .. Len(m) -> 1 .. Len(<<>>)] : TRUE
  BY DEF Holds
<1>2. 1 .. Len(<<>>) = {}
  OBVIOUS
<1>3. 1 \notin 1 .. Len(m)
  BY <1>1, <1>2
<1> QED
  BY <1>3

\* The invariant holds when the connection opens.
LEMMA HttpInit == Http!Init => HttpInv
<1> SUFFICES ASSUME Http!Init PROVE HttpInv
  OBVIOUS
<1> USE DEF Http!Init
<1>1. Http!NoNotes \in Database /\ DOMAIN Http!NoNotes.notes = {}
  <2> DEFINE none == [id \in {} |-> 0]
  <2>1. none \in [{} -> Note] /\ DOMAIN none = {}
    OBVIOUS
  <2>2. none \in NoteMaps
    BY <2>1, MapsAre
  <2> HIDE DEF none
  <2>3. Http!NoNotes = [notes |-> none, next |-> 1]
    BY DEF Http!NoNotes, none
  <2> QED
    BY <2>1, <2>2, <2>3 DEF Database
<1>2. HttpTypes
  BY <1>1 DEF HttpTypes
<1>3. Locks
  <2>1. Len(<<>>) = 0 /\ 1 .. 0 = {}
    OBVIOUS
  <2> QED
    BY <2>1 DEF Locks, CallerOk, Singly, In
<1>4. HandledOk /\ FailedOk
  BY DEF HandledOk, HandledOf, FailedOk
<1>5. PipeOk
  <2>1. Holds(cin \o s2c, <<>>) /\ Holds(sin \o c2s, <<>>)
    BY HoldsNone
  <2>2. ~Sending
    BY DEF Sending
  <2>3. Answered(<<>>)
    BY DEF Answered
  <2>4. Asking(<<>>, <<>>)
    BY <2>2 DEF Asking
  <2>5. <<>> \in Seq(Resp) /\ <<>> \in Seq(Req)
    OBVIOUS
  <2> QED
    BY <2>1, <2>3, <2>4, <2>5 DEF PipeOk, Pipe
<1>6. NotesOk
  <2>1. [id \in Nat |-> <<>>] \in Authors
    BY DEF Authors
  <2>2. \A author : NotesBy(author)
    BY <1>1 DEF NotesBy, By
  <2> QED
    BY <2>1, <2>2 DEF NotesOk
<1> QED
  BY <1>2, <1>3, <1>4, <1>5, <1>6 DEF HttpInv

\* Steps that move no response keep the authors.
LEMMA NotesSame ==
  ASSUME NotesOk, UNCHANGED <<db, cin, s2c, sends, got>>
  PROVE  NotesOk'
BY DEF NotesOk, NotesBy

\* No reader's call changes and nothing moves.
CallsStay == \A i \in 1 .. Len(readers) : CallOf(readers[i])' = CallOf(readers[i])

\* Steps that move nothing and change no reader's call keep the pipe.
LEMMA PipeSame ==
  ASSUME HttpTypes, PipeOk, UNCHANGED <<cin, s2c, sin, c2s, readers, sends, handled, conn_server>>,
         client' = "open" => client = "open", Sending' <=> Sending, CallsStay
  PROVE  PipeOk'
<1>1. PICK a \in Seq(Resp), q \in Seq(Req) : Pipe(a, q)
  BY DEF PipeOk
<1>2. ASSUME client = "open" PROVE Answered(a)'
  <2>1. Answered(a) /\ Len(a) \in Nat /\ Len(readers) \in Nat /\ Len(sends) \in Nat
    BY <1>1, <1>2 DEF Pipe, HttpTypes
  <2>2. \A i \in 1 .. Len(a) : i \in 1 .. Len(readers)
    BY <2>1 DEF Answered
  <2>3. \A i \in 1 .. Len(sends) : Len(a) + i \in 1 .. Len(readers)
    BY <2>1 DEF Answered
  <2> QED
    BY <2>1, <2>2, <2>3 DEF Answered, CallsStay
<1>3. ASSUME client = "open", conn_server # "closed" PROVE Asking(a, q)'
  <2>1. Asking(a, q) /\ Len(a) \in Nat /\ Len(readers) \in Nat /\ Len(sends) \in Nat /\ Len(q) \in Nat
    BY <1>1, <1>3 DEF Pipe, HttpTypes
  <2>2. \A i \in 1 .. Len(q) : Len(a) + Len(sends) + i \in 1 .. Len(readers)
    BY <2>1 DEF Asking
  <2> QED
    BY <2>1, <2>2 DEF Asking, CallsStay
<1>4. Pipe(a, q)'
  BY <1>1, <1>2, <1>3 DEF Pipe
<1> QED
  BY <1>4 DEF PipeOk

\* rpc() asks and joins the queue of the write lock.
LEMMA CallKeeps ==
  ASSUME HttpInv, NEW r \in Rpc, NEW req \in HttpAsk[r], NEW close \in BOOLEAN,
         Http!Call(r, req, close)
  PROVE  HttpInv'
<1> DEFINE m == [ask |-> req, tag |-> <<r, Len(asked[r]) + 1>>, close |-> close]
<1>0. HttpTypes /\ Locks /\ HandledOk /\ FailedOk /\ PipeOk /\ NotesOk
  BY DEF HttpInv
<1>1. /\ asked' = [asked EXCEPT ![r] = Append(asked[r], m)]
      /\ writers' = Append(writers, r) /\ conn_pc' = [conn_pc EXCEPT ![r] = "lock"]
      /\ conn_pc[r] = "idle" /\ client = "open"
      /\ UNCHANGED <<got, readers, sent, cin, handled, conn_server, sends, written, sin, db,
                     c2s, s2c, client>>
  BY <1>0 DEF Http!Call, Http!serverVars, HttpTypes
<1>2. m \in Req /\ m.tag = <<r, Len(asked[r]) + 1>> /\ asked[r] \in Seq(Req) /\ got[r] \in Seq(Resp)
  <2>1. req \in Http!NoteRequest
    BY NotesAssumption
  <2>2. asked[r] \in Seq(Req) /\ got[r] \in Seq(Resp) /\ <<r, Len(asked[r]) + 1>> \in Tags
    BY <1>0 DEF Tags, HttpTypes
  <2>3. m \in Req /\ m.tag = <<r, Len(asked[r]) + 1>>
    BY <2>1, <2>2 DEF Req
  <2> QED
    BY <2>2, <2>3
<1> HIDE DEF m
<1>3. /\ asked'[r] = Append(asked[r], m) /\ conn_pc'[r] = "lock"
      /\ \A s \in Rpc : s # r => asked'[s] = asked[s] /\ conn_pc'[s] = conn_pc[s]
      /\ Len(asked'[r]) = Len(asked[r]) + 1 /\ Len(asked[r]) \in Nat
      /\ asked'[r][Len(asked[r]) + 1] = m
      /\ \A k \in 1 .. Len(asked[r]) : asked'[r][k] = asked[r][k]
  <2>1. asked'[r] = Append(asked[r], m) /\ conn_pc'[r] = "lock"
    BY <1>0, <1>1 DEF HttpTypes
  <2>2. \A s \in Rpc : s # r => asked'[s] = asked[s] /\ conn_pc'[s] = conn_pc[s]
    BY <1>0, <1>1 DEF HttpTypes
  <2> QED
    BY <1>2, <2>1, <2>2, AppendTo
<1>4. HttpTypes'
  <2>1. asked' \in [Rpc -> Seq(Req)]
    BY <1>0, <1>1, <1>2, AppendTo DEF HttpTypes
  <2> QED
    BY <1>0, <1>1, <2>1 DEF HttpTypes
<1>5. CallerOk(r) /\ ~In(r, writers) /\ ~In(r, readers)
  BY <1>0, <1>1 DEF Locks, CallerOk
<1>6. /\ Singly(writers') /\ \A s \in Rpc : In(s, writers') <=> In(s, writers) \/ s = r
      /\ writers # <<>> => writers'[1] = writers[1]
  BY <1>0, <1>1, <1>5, InAppend DEF HttpTypes, Locks
<1>7. CallerOk(r)'
  <2>1. Len(got'[r]) = Len(asked'[r]) - 1
    BY <1>1, <1>2, <1>3, <1>5 DEF CallerOk
  <2>2. ASSUME NEW k \in 1 .. Len(asked'[r]) PROVE asked'[r][k].tag = <<r, k>>
    <3>1. k \in 1 .. Len(asked[r]) \/ k = Len(asked[r]) + 1
      BY <1>3
    <3> QED
      BY <1>2, <1>3, <1>5, <3>1 DEF CallerOk
  <2> QED
    BY <1>1, <1>3, <1>5, <1>6, <2>1, <2>2 DEF CallerOk
<1>8. ASSUME NEW s \in Rpc, s # r PROVE CallerOk(s)'
  <2>1. CallerOk(s) /\ asked'[s] = asked[s] /\ conn_pc'[s] = conn_pc[s]
    BY <1>0, <1>3, <1>8 DEF Locks
  <2>2. conn_pc[s] = "send" => writers # <<>>
    BY <2>1 DEF CallerOk, In
  <2> QED
    BY <1>1, <1>6, <1>8, <2>1, <2>2 DEF CallerOk
<1>9. Locks'
  BY <1>0, <1>1, <1>6, <1>7, <1>8 DEF Locks
<1>10. HandledOk'
  <2>1. HandledOf(r) /\ ~(Len(asked[r]) + 1 <= Len(asked[r]))
    BY <1>0, <1>1, <1>3 DEF HandledOk
  <2>2. HandledOf(r)'
    BY <1>1, <1>3, <2>1 DEF HandledOf, CallOf
  <2>3. ASSUME NEW s \in Rpc, s # r PROVE HandledOf(s)'
    <3>1. HandledOf(s) /\ asked'[s] = asked[s] /\ conn_pc'[s] = conn_pc[s]
      BY <1>0, <1>1, <1>3, <2>3 DEF HandledOk
    <3> QED
      BY <1>1, <3>1 DEF HandledOf, CallOf
  <2> QED
    BY <2>2, <2>3 DEF HandledOk
<1>11. FailedOk'
  BY <1>0, <1>1, <1>3 DEF FailedOk, CallOf
<1>12. PipeOk'
  <2>1. CallsStay
    <3> SUFFICES ASSUME NEW i \in 1 .. Len(readers) PROVE CallOf(readers[i])' = CallOf(readers[i])
      BY DEF CallsStay
    <3>1. readers[i] # r /\ readers[i] \in Rpc
      BY <1>0, <1>5 DEF In, HttpTypes
    <3> QED
      BY <1>1, <1>3, <3>1 DEF CallOf
  <2>2. Sending' <=> Sending
    BY <1>1, <1>3 DEF Sending
  <2> QED
    BY <1>0, <1>1, <2>1, <2>2, PipeSame
<1>13. NotesOk'
  BY <1>0, <1>1, NotesSame
<1> QED
  BY <1>4, <1>9, <1>10, <1>11, <1>12, <1>13 DEF HttpInv

\* send_request has the write lock and takes its read ticket: the last of the readers.
LEMMA TakeTicketKeeps ==
  ASSUME HttpInv, NEW r \in Rpc, client = "open", Http!TakeTicket(r)
  PROVE  HttpInv'
<1>0. HttpTypes /\ Locks /\ HandledOk /\ FailedOk /\ PipeOk /\ NotesOk
  BY DEF HttpInv
<1>1. /\ readers' = Append(readers, r) /\ sent' = [sent EXCEPT ![r] = 0]
      /\ conn_pc' = [conn_pc EXCEPT ![r] = "send"]
      /\ conn_pc[r] = "lock" /\ Head(writers) = r
      /\ UNCHANGED <<asked, got, writers, cin, handled, conn_server, sends, written, sin, db,
                     c2s, s2c, client>>
  BY DEF Http!TakeTicket, Http!Queued, Http!serverVars
<1>2. /\ conn_pc'[r] = "send" /\ sent'[r] = 0
      /\ \A s \in Rpc : s # r => conn_pc'[s] = conn_pc[s] /\ sent'[s] = sent[s]
  BY <1>0, <1>1 DEF HttpTypes
<1>3. HttpTypes'
  BY <1>0, <1>1, AppendTo DEF HttpTypes
<1>4. CallerOk(r) /\ In(r, writers) /\ ~In(r, readers) /\ writers # <<>> /\ writers[1] = r
  <2>1. CallerOk(r) /\ In(r, writers) /\ ~In(r, readers)
    BY <1>0, <1>1 DEF Locks, CallerOk
  <2> QED
    BY <1>0, <1>1, <2>1 DEF In, HttpTypes
<1>5. \A s \in Rpc : conn_pc[s] # "send"
  <2> SUFFICES ASSUME NEW s \in Rpc, conn_pc[s] = "send" PROVE FALSE
    OBVIOUS
  <2>1. writers[1] = s
    BY <1>0 DEF Locks, CallerOk
  <2> QED
    BY <1>1, <1>4, <2>1
<1>6. /\ Singly(readers') /\ \A s \in Rpc : In(s, readers') <=> In(s, readers) \/ s = r
      /\ Len(readers') = Len(readers) + 1 /\ readers'[Len(readers')] = r /\ Len(readers) \in Nat
      /\ \A i \in 1 .. Len(readers) : readers'[i] = readers[i]
  <2>1. readers \in Seq(Rpc) /\ Singly(readers)
    BY <1>0 DEF HttpTypes, Locks
  <2> QED
    BY <1>1, <1>4, <2>1, InAppend, AppendTo
<1>7. CallerOk(r)'
  BY <1>1, <1>2, <1>4, <1>6 DEF CallerOk
<1>8. ASSUME NEW s \in Rpc, s # r PROVE CallerOk(s)'
  <2>1. CallerOk(s) /\ conn_pc'[s] = conn_pc[s] /\ conn_pc[s] # "send"
    BY <1>0, <1>2, <1>5, <1>8 DEF Locks
  <2> QED
    BY <1>1, <1>6, <1>8, <2>1 DEF CallerOk
<1>9. Locks'
  BY <1>0, <1>1, <1>6, <1>7, <1>8 DEF Locks
<1>10. HandledOk'
  BY <1>0, <1>1, <1>2 DEF HandledOk, HandledOf, CallOf
<1>11. FailedOk'
  BY <1>0, <1>1, <1>2 DEF FailedOk, CallOf
<1>12. PipeOk'
  <2>1. PICK a \in Seq(Resp), q \in Seq(Req) : Pipe(a, q)
    BY <1>0 DEF PipeOk
  <2>2. Len(a) \in Nat /\ Len(q) \in Nat /\ Len(sends) \in Nat /\ Answered(a)
    BY <1>0, <2>1 DEF Pipe, HttpTypes
  <2>3. CallOf(r) \notin handled
    BY <1>0, <1>1 DEF HandledOk, HandledOf
  <2>4. Answered(a)'
    <3>1. \A i \in 1 .. Len(readers) : CallOf(readers[i])' = CallOf(readers[i])
      BY <1>1, <1>6 DEF CallOf
    <3>2. ASSUME NEW i \in 1 .. Len(readers'), i > Len(a) + Len(sends)
          PROVE  CallOf(readers[i])' \notin handled'
      <4>1. CASE i \in 1 .. Len(readers)
        BY <1>1, <2>2, <3>1, <3>2, <4>1 DEF Answered
      <4>2. CASE i = Len(readers')
        BY <1>1, <1>6, <2>3, <4>2 DEF CallOf
      <4> QED
        BY <1>6, <4>1, <4>2
    <3>3. \A i \in 1 .. Len(a) : i \in 1 .. Len(readers)
      BY <1>6, <2>2 DEF Answered
    <3>4. \A i \in 1 .. Len(sends) : Len(a) + i \in 1 .. Len(readers)
      BY <1>6, <2>2 DEF Answered
    <3>5. Len(a) + Len(sends) <= Len(readers')
      BY <1>6, <2>2 DEF Answered
    <3> QED
      BY <1>1, <2>2, <3>1, <3>2, <3>3, <3>4, <3>5 DEF Answered
  <2>5. ASSUME conn_server # "closed" PROVE Asking(a, q)'
    <3>1. Asking(a, q) /\ ~Sending /\ Sending'
      BY <1>2, <1>5, <2>1, <2>5 DEF Pipe, Sending
    <3>2. Len(a) + Len(sends) + Len(q) = Len(readers)
      BY <3>1 DEF Asking
    <3>3. ASSUME NEW i \in 1 .. Len(q)
          PROVE  q[i].tag = CallOf(readers[Len(a) + Len(sends) + i])'
      <4>1. Len(a) + Len(sends) + i \in 1 .. Len(readers)
        BY <2>2, <3>2
      <4>2. q[i].tag = CallOf(readers[Len(a) + Len(sends) + i])
        BY <3>1 DEF Asking
      <4> QED
        BY <1>1, <1>6, <4>1, <4>2 DEF CallOf
    <3> QED
      BY <1>1, <1>6, <2>2, <3>1, <3>2, <3>3 DEF Asking
  <2>6. Pipe(a, q)'
    BY <1>1, <2>1, <2>4, <2>5 DEF Pipe
  <2> QED
    BY <2>6 DEF PipeOk
<1>13. NotesOk'
  BY <1>0, <1>1, NotesSame
<1> QED
  BY <1>3, <1>9, <1>10, <1>11, <1>12, <1>13 DEF HttpInv

\* A part of a request is written: the last reader asks.
LEMMA SendRequestKeeps ==
  ASSUME HttpInv, NEW r \in Rpc, client = "open", Http!SendRequest(r)
  PROVE  HttpInv'
<1>m. PICK m : m = asked[r][Len(asked[r])]
  OBVIOUS
<1>p. PICK p : p = Http!Part(m, sent[r] + 1)
  OBVIOUS
<1>0. HttpTypes /\ Locks /\ HandledOk /\ FailedOk /\ PipeOk /\ NotesOk
  BY DEF HttpInv
<1>1. /\ conn_pc[r] = "send"
      /\ \/ /\ conn_server # "closed" /\ c2s' = Append(c2s, p)
            /\ sent' = [sent EXCEPT ![r] = sent[r] + 1]
         \/ conn_server = "closed" /\ c2s' = c2s /\ sent' = [sent EXCEPT ![r] = 2]
      /\ IF sent'[r] = 2
         THEN writers' = Tail(writers) /\ conn_pc' = [conn_pc EXCEPT ![r] = "receive"]
         ELSE UNCHANGED <<writers, conn_pc>>
      /\ UNCHANGED <<asked, got, readers, cin, handled, conn_server, sends, written, sin, db,
                     s2c, client>>
  BY <1>0, <1>m, <1>p DEF Http!SendRequest, Http!serverVars, HttpTypes
<1>2. /\ CallerOk(r) /\ In(r, writers) /\ In(r, readers) /\ writers # <<>> /\ writers[1] = r
      /\ readers[Len(readers)] = r /\ sent[r] \in {0, 1} /\ Singly(writers) /\ Singly(readers)
  <2>1. CallerOk(r) /\ In(r, writers) /\ In(r, readers)
    BY <1>0, <1>1 DEF Locks, CallerOk
  <2>2. writers[1] = r /\ readers[Len(readers)] = r /\ sent[r] \in {0, 1}
    BY <1>1, <2>1 DEF CallerOk
  <2>3. writers \in Seq(Rpc) /\ \E i \in 1 .. Len(writers) : writers[i] = r
    BY <1>0, <2>1 DEF HttpTypes, In
  <2>4. writers # <<>>
    BY <2>3
  <2>5. Singly(writers) /\ Singly(readers)
    BY <1>0 DEF Locks
  <2> QED
    BY <2>1, <2>2, <2>4, <2>5
<1>3. m \in Req /\ m.tag = CallOf(r) /\ Len(asked[r]) \in Nat
  <2>1. asked[r] \in Seq(Req) /\ got[r] \in Seq(Resp)
    BY <1>0 DEF HttpTypes
  <2>2. Len(got[r]) = Len(asked[r]) - 1 /\ Len(got[r]) \in Nat /\ Len(asked[r]) \in Nat
    BY <1>1, <1>2, <2>1 DEF CallerOk
  <2>3. Len(asked[r]) \in 1 .. Len(asked[r])
    BY <2>2
  <2> QED
    BY <1>2, <1>m, <2>1, <2>2, <2>3 DEF CallerOk, CallOf
<1>4. p \in Parts(Req) /\ p.msg = m /\ (p.end <=> sent[r] = 1)
  <2>1. p = [msg |-> m, end |-> sent[r] + 1 = 2]
    BY <1>p DEF Http!Part
  <2>2. p.msg = m /\ p.end = (sent[r] + 1 = 2)
    BY <2>1
  <2>3. sent[r] + 1 = 2 <=> sent[r] = 1
    BY <1>2
  <2>4. (sent[r] + 1 = 2) \in BOOLEAN
    OBVIOUS
  <2> QED
    BY <1>3, <2>1, <2>2, <2>3, <2>4 DEF Parts
<1>5. \A s \in Rpc : s # r => conn_pc[s] # "send" /\ conn_pc'[s] = conn_pc[s] /\ sent'[s] = sent[s]
  <2> SUFFICES ASSUME NEW s \in Rpc, s # r
               PROVE  conn_pc[s] # "send" /\ conn_pc'[s] = conn_pc[s] /\ sent'[s] = sent[s]
    OBVIOUS
  <2>1. conn_pc[s] = "send" => writers[1] = s
    BY <1>0 DEF Locks, CallerOk
  <2>2. conn_pc'[s] = conn_pc[s] /\ sent'[s] = sent[s]
    BY <1>0, <1>1 DEF HttpTypes
  <2> QED
    BY <1>2, <2>1, <2>2
<1>6. sent'[r] \in {1, 2} /\ (sent'[r] = 1 => conn_server # "closed" /\ sent[r] = 0)
  BY <1>0, <1>1, <1>2 DEF HttpTypes
<1>7. HttpTypes'
  <2>1. sent' \in [Rpc -> 0 .. 2]
    <3>1. sent[r] + 1 \in 0 .. 2 /\ 2 \in 0 .. 2
      BY <1>2
    <3> QED
      BY <1>0, <1>1, <3>1 DEF HttpTypes
  <2>2. writers' \in Seq(Rpc)
    <3>1. writers \in Seq(Rpc) /\ Tail(writers) \in Seq(Rpc)
      BY <1>0, <1>2, TailOf DEF HttpTypes
    <3> QED
      BY <1>1, <3>1
  <2>4. conn_pc' \in [Rpc -> {"idle", "lock", "send", "receive", "failed"}]
    BY <1>0, <1>1 DEF HttpTypes
  <2>3. c2s' \in Seq(Parts(Req))
    <3>1. c2s \in Seq(Parts(Req)) /\ Append(c2s, p) \in Seq(Parts(Req))
      BY <1>0, <1>4, AppendTo DEF HttpTypes
    <3> QED
      BY <1>1, <3>1
  <2> QED
    BY <1>0, <1>1, <2>1, <2>2, <2>3, <2>4 DEF HttpTypes
<1>8. Locks'
  <2>1. CASE sent'[r] = 2
    <3>1. writers' = Tail(writers) /\ conn_pc'[r] = "receive"
      BY <1>0, <1>1, <2>1 DEF HttpTypes
    <3>2. Singly(writers') /\ \A s \in Rpc : In(s, writers') <=> In(s, writers) /\ s # r
      BY <1>0, <1>2, <3>1, InTail DEF HttpTypes
    <3>3. CallerOk(r)'
      BY <1>1, <1>2, <3>1, <3>2 DEF CallerOk
    <3>4. ASSUME NEW s \in Rpc, s # r PROVE CallerOk(s)'
      <4>1. CallerOk(s) /\ conn_pc'[s] = conn_pc[s] /\ conn_pc[s] # "send"
        BY <1>0, <1>5, <3>4 DEF Locks
      <4> QED
        BY <1>1, <3>2, <3>4, <4>1 DEF CallerOk
    <3> QED
      BY <1>1, <1>2, <3>2, <3>3, <3>4 DEF Locks
  <2>2. CASE sent'[r] = 1
    <3>1. UNCHANGED <<writers, conn_pc>>
      BY <1>1, <2>2
    <3>2. ASSUME NEW s \in Rpc PROVE CallerOk(s)'
      <4>1. CallerOk(s) /\ (conn_pc[s] = "send" => s = r)
        BY <1>0, <1>5 DEF Locks
      <4> QED
        BY <1>1, <2>2, <3>1, <4>1 DEF CallerOk
    <3> QED
      BY <1>1, <1>2, <3>1, <3>2 DEF Locks
  <2> QED
    BY <1>6, <2>1, <2>2
<1>9. \A s \in Rpc : (conn_pc'[s] = "lock" => conn_pc[s] = "lock")
                     /\ (conn_pc'[s] = "failed" => conn_pc[s] = "failed")
  BY <1>0, <1>1, <1>5 DEF HttpTypes
<1>10. HandledOk' /\ FailedOk'
  BY <1>0, <1>1, <1>9 DEF HandledOk, HandledOf, FailedOk, CallOf
<1>11. PipeOk'
  <2>1. PICK a \in Seq(Resp), q \in Seq(Req) : Pipe(a, q)
    BY <1>0 DEF PipeOk
  <2>2. Answered(a)'
    BY <1>1, <2>1 DEF Pipe, Answered, CallOf
  <2>3. /\ Len(a) \in Nat /\ Len(q) \in Nat /\ Len(sends) \in Nat /\ Len(readers) \in Nat
        /\ sin \in Seq(Parts(Req)) /\ c2s \in Seq(Parts(Req)) /\ sin \o c2s \in Seq(Parts(Req))
    BY <1>0, ConcatProperties DEF HttpTypes
  <2>4. CASE conn_server = "closed"
    <3>1. Pipe(a, q)'
      BY <1>1, <2>1, <2>2, <2>4 DEF Pipe
    <3> QED
      BY <3>1 DEF PipeOk
  <2>5. CASE conn_server # "closed" /\ sent[r] = 0
    <3>1. sent'[r] = 1 /\ UNCHANGED conn_pc /\ c2s' = Append(c2s, p)
      BY <1>0, <1>1, <2>5 DEF HttpTypes
    <3>2. Holds(sin \o c2s, q)'
      <4>1. sin' \o c2s' = Append(sin \o c2s, p)
        BY <1>1, <1>4, <2>3, <3>1, JoinAppend
      <4> QED
        <5>1. Holds(Append(sin \o c2s, p), q)
          <6>1. Holds(sin \o c2s, q) /\ ~p.end
            BY <1>4, <2>1, <2>5 DEF Pipe
          <6> QED
            BY <1>4, <2>3, <6>1, HoldsPart
        <5> QED
          BY <4>1, <5>1
    <3>3. Asking(a, q)'
      BY <1>1, <2>1, <2>5, <3>1 DEF Pipe, Asking, Sending, CallOf
    <3>4. Pipe(a, q)'
      BY <1>1, <2>1, <2>2, <3>2, <3>3 DEF Pipe
    <3> QED
      BY <3>4 DEF PipeOk
  <2>6. CASE conn_server # "closed" /\ sent[r] = 1
    <3> DEFINE n == Append(q, m)
    <3>1. sent'[r] = 2 /\ conn_pc'[r] = "receive" /\ c2s' = Append(c2s, p)
      BY <1>0, <1>1, <2>6 DEF HttpTypes
    <3>2. Holds(sin \o c2s, n)'
      <4>1. sin' \o c2s' = Append(sin \o c2s, p)
        BY <1>1, <1>4, <2>3, <3>1, JoinAppend
      <4> QED
        <5>1. Holds(Append(sin \o c2s, p), n)
          <6>1. Holds(sin \o c2s, q) /\ p.end
            BY <1>4, <2>1, <2>6 DEF Pipe
          <6>2. Holds(Append(sin \o c2s, p), Append(q, p.msg))
            BY <1>4, <2>3, <6>1, HoldsEnd
          <6> QED
            BY <1>4, <6>2
        <5> QED
          BY <4>1, <5>1
    <3>3. /\ n \in Seq(Req) /\ Len(n) = Len(q) + 1 /\ n[Len(q) + 1] = m
          /\ \A i \in 1 .. Len(q) : n[i] = q[i]
      BY <1>3, AppendTo
    <3> HIDE DEF n
    <3>4. Asking(a, q) /\ Sending /\ ~Sending'
      BY <1>1, <1>5, <2>1, <2>6, <3>1 DEF Pipe, Sending
    <3>5. Len(a) + Len(sends) + Len(q) + 1 = Len(readers)
      BY <3>4 DEF Asking
    <3>6. ASSUME NEW i \in 1 .. Len(n)
          PROVE  n[i].tag = CallOf(readers[Len(a) + Len(sends) + i])'
      <4>1. CASE i \in 1 .. Len(q)
        BY <1>1, <3>3, <3>4, <4>1 DEF Asking, CallOf
      <4>2. CASE i = Len(q) + 1
        <5>1. Len(a) + Len(sends) + i = Len(readers)
          BY <2>3, <3>5, <4>2
        <5>3. readers[Len(a) + Len(sends) + i] = r
          BY <1>2, <5>1
        <5>2. CallOf(readers[Len(a) + Len(sends) + i])' = CallOf(r)
          BY <1>1, <5>3 DEF CallOf
        <5> QED
          BY <1>3, <3>3, <4>2, <5>2
      <4> QED
        BY <2>3, <3>3, <4>1, <4>2
    <3>7. Asking(a, n)'
      <4>1. Len(a) + Len(sends') + Len(n) = Len(readers')
        BY <1>1, <2>3, <3>3, <3>5
      <4>2. \A i \in 1 .. Len(n) : n[i].tag = CallOf(readers[Len(a) + Len(sends) + i])'
        BY <3>6
      <4> QED
        BY <1>1, <3>4, <4>1, <4>2 DEF Asking
    <3>8. Pipe(a, n)'
      BY <1>1, <2>1, <2>2, <3>2, <3>7 DEF Pipe
    <3> QED
      <4>1. n \in Seq(Req) /\ a \in Seq(Resp)
        BY <2>1, <3>3
      <4> QED
        BY <3>8, <4>1 DEF PipeOk
  <2> QED
    BY <1>2, <2>4, <2>5, <2>6
<1>12. NotesOk'
  BY <1>0, <1>1, NotesSame
<1> QED
  BY <1>7, <1>8, <1>10, <1>11, <1>12 DEF HttpInv

\* The client ends: nothing is promised of its pipe any more.
LEMMA HangUpKeeps ==
  ASSUME HttpInv, Http!HangUp
  PROVE  HttpInv'
<1>0. HttpTypes /\ Locks /\ HandledOk /\ FailedOk /\ PipeOk /\ NotesOk
  BY DEF HttpInv
<1>1. /\ client' = "closed"
      /\ UNCHANGED <<conn_pc, asked, got, writers, readers, sent, cin, handled, conn_server, sends,
                     written, sin, db, c2s, s2c>>
  BY DEF Http!HangUp, Http!clientVars, Http!serverVars
<1>2. HttpTypes' /\ Locks'
  BY <1>0, <1>1 DEF HttpTypes, Locks, CallerOk
<1>3. HandledOk' /\ FailedOk'
  BY <1>0, <1>1 DEF HandledOk, FailedOk, CallOf
<1>4. PipeOk'
  BY <1>0, <1>1 DEF PipeOk, Pipe
<1>5. NotesOk'
  BY <1>0, <1>1, NotesSame
<1> QED
  BY <1>2, <1>3, <1>4, <1>5 DEF HttpInv

\* The first reader has its response, or fails.
LEMMA ReaderLeaves ==
  ASSUME HttpTypes, Locks, NEW r \in Rpc, Http!Reading(r), readers' = Tail(readers),
         NEW there \in {"idle", "failed"}, conn_pc' = [conn_pc EXCEPT ![r] = there],
         UNCHANGED <<asked, writers, sent>>,
         \A s \in Rpc : s # r => got'[s] = got[s],
         Len(got'[r]) = IF there = "idle" THEN Len(asked[r]) ELSE Len(asked[r]) - 1,
         \A k \in 1 .. Len(got'[r]) : got'[r][k].to = <<r, k>>
  PROVE  /\ Locks' /\ conn_pc[r] = "receive" /\ readers # <<>> /\ readers[1] = r
         /\ conn_pc'[r] = there /\ \A s \in Rpc : s # r => conn_pc'[s] = conn_pc[s]
         /\ \A i \in 1 .. Len(readers) - 1 : readers'[i] = readers[i + 1]
         /\ Len(readers') = Len(readers) - 1 /\ Len(readers) \in Nat /\ readers' \in Seq(Rpc)
<1>1. conn_pc[r] = "receive" /\ Head(readers) = r
  BY DEF Http!Reading
<1>2. CallerOk(r) /\ In(r, readers) /\ ~In(r, writers)
  BY <1>1 DEF Locks, CallerOk
<1>3. readers # <<>> /\ readers[1] = r
  BY <1>1, <1>2 DEF In, HttpTypes
<1>4. conn_pc'[r] = there /\ \A s \in Rpc : s # r => conn_pc'[s] = conn_pc[s]
  BY DEF HttpTypes
<1>5. /\ \A i \in 1 .. Len(readers) - 1 : readers'[i] = readers[i + 1]
      /\ Len(readers') = Len(readers) - 1 /\ Len(readers) \in Nat /\ readers' \in Seq(Rpc)
  BY <1>3, TailOf DEF HttpTypes
<1>6. Singly(readers') /\ \A s \in Rpc : In(s, readers') <=> In(s, readers) /\ s # r
  BY <1>3, InTail DEF HttpTypes, Locks
<1>7. CallerOk(r)'
  BY <1>2, <1>4, <1>6 DEF CallerOk
<1>8. ASSUME NEW s \in Rpc, s # r PROVE CallerOk(s)'
  <2>1. CallerOk(s) /\ conn_pc'[s] = conn_pc[s] /\ got'[s] = got[s]
    BY <1>4, <1>8 DEF Locks
  <2>2. ASSUME conn_pc[s] = "send" PROVE readers'[Len(readers')] = s
    <3>1. readers[Len(readers)] = s
      BY <2>1, <2>2 DEF CallerOk
    <3>2. Len(readers) - 1 \in 1 .. Len(readers) - 1
      BY <1>3, <1>5, <1>8, <3>1
    <3> QED
      BY <1>5, <3>1, <3>2
  <2> QED
    BY <1>6, <1>8, <2>1, <2>2 DEF CallerOk
<1>9. Locks'
  BY <1>6, <1>7, <1>8 DEF Locks
<1> QED
  BY <1>1, <1>3, <1>4, <1>5, <1>9

\* Responses whose notes are by their authors.
Signed(author, next) == {x \in Resp : By(author, x.notes, next)}

\* Responses signed are a sequence of signed ones.
LEMMA SignedSeq ==
  ASSUME NEW author, NEW next, NEW s \in Seq(Resp)
  PROVE  (\A i \in 1 .. Len(s) : By(author, s[i].notes, next)) <=> s \in Seq(Signed(author, next))
<1> DEFINE G == Signed(author, next)
<1>1. \A x \in Resp : x \in G <=> By(author, x.notes, next)
  BY DEF Signed
<1>2. \A i \in 1 .. Len(s) : s[i] \in Resp
  OBVIOUS
<1>3. G \subseteq Resp
  BY DEF Signed
<1> HIDE DEF G
<1>4. (\A i \in 1 .. Len(s) : By(author, s[i].notes, next)) <=> \A i \in 1 .. Len(s) : s[i] \in G
  BY <1>1, <1>2
<1>5. (\A i \in 1 .. Len(s) : s[i] \in G) <=> s \in Seq(G)
  OBVIOUS
<1> QED
  BY <1>4, <1>5 DEF G

\* So are their parts.
LEMMA SignedParts ==
  ASSUME NEW author, NEW next, NEW s \in Seq(Parts(Resp))
  PROVE  (\A i \in 1 .. Len(s) : By(author, s[i].msg.notes, next))
           <=> s \in Seq(Parts(Signed(author, next)))
<1> DEFINE G == Signed(author, next)
<1>1. \A x \in Parts(Resp) : x \in Parts(G) <=> By(author, x.msg.notes, next)
  BY DEF Signed, Parts
<1>2. \A i \in 1 .. Len(s) : s[i] \in Parts(Resp)
  OBVIOUS
<1> HIDE DEF G
<1>4. (\A i \in 1 .. Len(s) : By(author, s[i].msg.notes, next))
        <=> \A i \in 1 .. Len(s) : s[i] \in Parts(G)
  BY <1>1, <1>2
<1>5. (\A i \in 1 .. Len(s) : s[i] \in Parts(G)) <=> s \in Seq(Parts(G))
  OBVIOUS
<1> QED
  BY <1>4, <1>5 DEF G

\* What sequences of parts hold is of the kind that the parts are.
LEMMA HoldsSuch ==
  ASSUME NEW M, NEW G, NEW s \in Seq(Parts(G)), NEW m \in Seq(M), Holds(s, m)
  PROVE  m \in Seq(G)
<1>1. PICK at \in [1 .. Len(m) -> 1 .. Len(s)] : \A k \in 1 .. Len(m) : s[at[k]].msg = m[k]
  BY DEF Holds
<1>2. \A i \in 1 .. Len(s) : s[i].msg \in G
  <2>1. \A x \in Parts(G) : x.msg \in G
    BY DEF Parts
  <2> QED
    BY <2>1
<1>3. \A k \in 1 .. Len(m) : at[k] \in 1 .. Len(s)
  BY <1>1
<1>4. \A k \in 1 .. Len(m) : m[k] \in G
  BY <1>1, <1>2, <1>3
<1> QED
  BY <1>4

\* A read of the client keeps the authors.
LEMMA NotesRead ==
  ASSUME HttpTypes, HttpTypes', NotesOk, NEW a \in Seq(Resp), Holds(cin \o s2c, a),
         NEW n \in Http!ReadSizes(cin, s2c), NEW buf, buf = Http!Executed(cin, s2c, n),
         cin' = Http!Unconsumed(buf), s2c' = Http!Rest(s2c, n), UNCHANGED <<db, sends>>,
         NEW r \in Rpc,
         \/ got' = got
         \/ /\ Http!Completes(buf)
            /\ got' = [got EXCEPT ![r] = Append(got[r], buf[Http!Consumed(buf)].msg)]
  PROVE  NotesOk'
<1>1. PICK author \in Authors : NotesBy(author)
  BY DEF NotesOk
<1> DEFINE G == Signed(author, db.next)
<1>2. cin \in Seq(Parts(G)) /\ s2c \in Seq(Parts(G))
  BY <1>1, SignedParts DEF NotesBy, HttpTypes
<1> HIDE DEF G
<1>3. cin \o s2c \in Seq(Parts(G))
  BY <1>2, ConcatProperties
<1>4. a \in Seq(G)
  BY <1>3, HoldsSuch
<1>5. /\ Http!Unconsumed(buf) \in Seq(Parts(G)) /\ Http!Rest(s2c, n) \in Seq(Parts(G))
      /\ Http!Completes(buf) => buf[Http!Consumed(buf)].msg \in G
  BY <1>2, <1>4, Reads
<1>6. ASSUME NEW s \in Rpc PROVE got'[s] \in Seq(G)
  <2>1. got[s] \in Seq(Resp) /\ \A k \in 1 .. Len(got[s]) : By(author, got[s][k].notes, db.next)
    BY <1>1 DEF HttpTypes, NotesBy
  <2>2. got[s] \in Seq(G)
    BY <2>1, SignedSeq DEF G
  <2>3. CASE got' = got
    BY <2>2, <2>3
  <2>4. CASE got' # got
    <3>1. got'[s] = IF s = r THEN Append(got[s], buf[Http!Consumed(buf)].msg) ELSE got[s]
      BY <2>4 DEF HttpTypes
    <3>2. buf[Http!Consumed(buf)].msg \in G
      BY <1>5, <2>4
    <3> QED
      BY <2>2, <3>1, <3>2, AppendTo
  <2> QED
    BY <2>3, <2>4
<1>7. NotesBy(author)'
  <2>1. \A i \in 1 .. Len(cin') : By(author, cin'[i].msg.notes, db.next)
    BY <1>5, SignedParts DEF HttpTypes, G
  <2>2. \A i \in 1 .. Len(s2c') : By(author, s2c'[i].msg.notes, db.next)
    BY <1>5, SignedParts DEF HttpTypes, G
  <2>3. ASSUME NEW s \in Rpc PROVE \A k \in 1 .. Len(got'[s]) : By(author, got'[s][k].notes, db.next)
    <3>1. got'[s] \in Seq(Resp)
      BY DEF HttpTypes
    <3> QED
      BY <1>6, <3>1, SignedSeq DEF G
  <2>4. By(author, db.notes, db.next) /\ \A i \in 1 .. Len(sends) : By(author, sends[i].notes, db.next)
    BY <1>1 DEF NotesBy
  <2> QED
    BY <2>1, <2>2, <2>3, <2>4 DEF NotesBy
<1> QED
  BY <1>7 DEF NotesOk

\* The pipe when the first reader has left: as is, or without the first answer.
FirstLeaves(a) ==
  /\ a # <<>> /\ readers # <<>> /\ readers' = Tail(readers)
  /\ UNCHANGED <<asked, sends, handled>>

\* When the first reader has left, the others wait for the answers but the first.
LEMMA PipeLeaves ==
  ASSUME HttpTypes, NEW a \in Seq(Resp), Answered(a), FirstLeaves(a)
  PROVE  /\ Answered(Tail(a))'
         /\ \A q \in Seq(Req) : Asking(a, q) /\ (Sending' <=> Sending) => Asking(Tail(a), q)'
<1> DEFINE t == Tail(a)
<1>1. /\ t \in Seq(Resp) /\ Len(t) = Len(a) - 1 /\ Len(a) \in Nat /\ Len(a) >= 1
      /\ \A i \in 1 .. Len(a) - 1 : t[i] = a[i + 1]
  BY TailOf DEF FirstLeaves
<1>2. /\ Len(readers') = Len(readers) - 1 /\ Len(readers) \in Nat /\ Len(readers) >= 1
      /\ \A i \in 1 .. Len(readers) - 1 : readers'[i] = readers[i + 1]
  BY TailOf DEF HttpTypes, FirstLeaves
<1>3. Len(sends) \in Nat
  BY DEF HttpTypes
<1>4. \A s \in Rpc : CallOf(s)' = CallOf(s)
  BY DEF CallOf, FirstLeaves
<1>6. \A i \in 1 .. Len(readers) - 1 : CallOf(readers[i])' = CallOf(readers[i + 1])
  BY <1>2 DEF CallOf, FirstLeaves
<1> HIDE DEF t
<1>5. /\ Len(t) = Len(a) - 1 /\ Len(a) \in Nat /\ Len(t) \in Int
      /\ Len(readers') = Len(readers) - 1 /\ Len(readers) \in Nat /\ Len(sends) \in Nat
  BY <1>1, <1>2, <1>3
<1>7. Len(a) + Len(sends) <= Len(readers)
  BY DEF Answered
<1>8. ASSUME NEW i \in 1 .. Len(t) PROVE t[i].to = CallOf(readers[i])'
  <2>1. i \in 1 .. Len(a) - 1 /\ i \in 1 .. Len(readers) - 1 /\ i + 1 \in 1 .. Len(a)
    BY <1>1, <1>3, <1>2, <1>7
  <2> QED
    BY <1>1, <1>6, <2>1 DEF Answered, FirstLeaves
<1>9. ASSUME NEW i \in 1 .. Len(sends) PROVE sends[i].to = CallOf(readers[Len(t) + i])'
  <2>1. Len(t) + i \in 1 .. Len(readers) - 1 /\ Len(t) + i + 1 = Len(a) + i
    BY <1>1, <1>2, <1>3, <1>7
  <2>2. CallOf(readers[Len(t) + i])' = CallOf(readers[Len(a) + i])
    BY <1>6, <2>1
  <2> QED
    BY <2>2 DEF Answered, FirstLeaves
<1>10. ASSUME NEW i \in 1 .. Len(readers'), i > Len(t) + Len(sends)
       PROVE  CallOf(readers[i])' \notin handled
  <2>1. i \in 1 .. Len(readers) - 1 /\ i + 1 \in 1 .. Len(readers) /\ i + 1 > Len(a) + Len(sends)
    BY <1>1, <1>2, <1>3, <1>10
  <2> QED
    BY <1>6, <2>1 DEF Answered, FirstLeaves
<1>11. Answered(t)'
  <2>1. Len(t) + Len(sends') <= Len(readers')
    BY <1>5, <1>7 DEF FirstLeaves
  <2> QED
    BY <2>1, <1>8, <1>9, <1>10 DEF Answered, FirstLeaves
<1>12. ASSUME NEW q \in Seq(Req), Asking(a, q), Sending' <=> Sending PROVE Asking(t, q)'
  <2>1. Len(q) \in Nat
    BY <1>12
  <2>2. \/ Sending /\ Len(a) + Len(sends) + Len(q) + 1 = Len(readers)
        \/ ~Sending /\ Len(a) + Len(sends) + Len(q) = Len(readers)
    BY <1>12 DEF Asking, FirstLeaves, Sending
  <2>3. Len(a) + Len(sends) + Len(q) <= Len(readers)
    <3>1. \/ Len(a) + Len(sends) + Len(q) + 1 = Len(readers)
          \/ Len(a) + Len(sends) + Len(q) = Len(readers)
      BY <2>2
    <3> QED
      BY <1>5, <2>1, <3>1
  <2>4. /\ Len(a) + Len(sends) + Len(q) + 1 = Len(readers)
           => Len(t) + Len(sends) + Len(q) + 1 = Len(readers')
        /\ Len(a) + Len(sends) + Len(q) = Len(readers)
           => Len(t) + Len(sends) + Len(q) = Len(readers')
    BY <1>5, <2>1
  <2>5. ASSUME NEW i \in 1 .. Len(q) PROVE q[i].tag = CallOf(readers[Len(t) + Len(sends) + i])'
    <3>1. /\ Len(t) + Len(sends) + i \in 1 .. Len(readers) - 1
          /\ Len(t) + Len(sends) + i + 1 = Len(a) + Len(sends) + i
      BY <1>5, <2>1, <2>3
    <3>2. CallOf(readers[Len(t) + Len(sends) + i])' = CallOf(readers[Len(a) + Len(sends) + i])
      <4>1. PICK j \in 1 .. Len(readers) - 1 :
              j = Len(t) + Len(sends) + i /\ j + 1 = Len(a) + Len(sends) + i
        BY <3>1
      <4>2. CallOf(readers[j])' = CallOf(readers[j + 1])
        BY <1>6
      <4>3. Len(t) + Len(sends') + i = j
        BY <4>1 DEF FirstLeaves
      <4> QED
        BY <4>1, <4>2, <4>3
    <3> QED
      BY <1>12, <3>2 DEF Asking, FirstLeaves
  <2> QED
    <3>1. \/ Sending' /\ Len(t) + Len(sends') + Len(q) + 1 = Len(readers')
          \/ ~Sending' /\ Len(t) + Len(sends') + Len(q) = Len(readers')
      BY <1>12, <2>2, <2>4 DEF FirstLeaves
    <3> QED
      BY <2>5, <3>1 DEF Asking, FirstLeaves
<1> QED
  BY <1>11, <1>12 DEF t

\* receive() reads, and perhaps returns a response: that of the first reader.
LEMMA ReceiveResponseKeeps ==
  ASSUME HttpInv, NEW r \in Rpc, client = "open", Http!ReceiveResponse(r)
  PROVE  HttpInv'
<1>0. HttpTypes /\ Locks /\ HandledOk /\ FailedOk /\ PipeOk /\ NotesOk
  BY DEF HttpInv
<1>1. Http!Reading(r) /\ UNCHANGED <<asked, writers, sent, handled, conn_server, sends, written, sin,
                                     db, c2s, client>>
  BY DEF Http!ReceiveResponse, Http!serverVars
<1>2. PICK n \in Http!ReadSizes(cin, s2c) :
        LET buf == Http!Executed(cin, s2c, n) IN
        /\ cin' = Http!Unconsumed(buf) /\ s2c' = Http!Rest(s2c, n)
        /\ IF Http!Completes(buf)
           THEN /\ got' = [got EXCEPT ![r] = Append(@, buf[Http!Consumed(buf)].msg)]
                /\ conn_pc' = [conn_pc EXCEPT ![r] = "idle"]
                /\ readers' = Tail(readers)
           ELSE UNCHANGED <<got, conn_pc, readers>>
  BY DEF Http!ReceiveResponse
<1>3. PICK buf : buf = Http!Executed(cin, s2c, n)
  OBVIOUS
<1>m. PICK m : m = buf[Http!Consumed(buf)].msg
  OBVIOUS
<1>4. cin' = Http!Unconsumed(buf) /\ s2c' = Http!Rest(s2c, n)
  BY <1>2, <1>3
<1>5. /\ Http!Completes(buf) => /\ got' = [got EXCEPT ![r] = Append(got[r], m)]
                                /\ conn_pc' = [conn_pc EXCEPT ![r] = "idle"]
                                /\ readers' = Tail(readers)
      /\ ~Http!Completes(buf) => UNCHANGED <<got, conn_pc, readers>>
  BY <1>0, <1>2, <1>3, <1>m DEF HttpTypes
<1>6. PICK a \in Seq(Resp), q \in Seq(Req) : Pipe(a, q)
  BY <1>0 DEF PipeOk
<1>7. /\ Holds(cin \o s2c, a) /\ Holds(sin \o c2s, q) /\ Answered(a)
      /\ conn_server # "closed" => Asking(a, q)
  BY <1>6 DEF Pipe
<1>8. /\ TakesOne(cin, s2c, n, a) /\ cin' \in Seq(Parts(Resp)) /\ s2c' \in Seq(Parts(Resp))
      /\ Http!Completes(buf) => m \in Resp
  <2>1. cin \in Seq(Parts(Resp)) /\ s2c \in Seq(Parts(Resp))
    BY <1>0 DEF HttpTypes
  <2> QED
    BY <1>3, <1>4, <1>7, <1>m, <2>1, Reads
<1>9. IF Http!Completes(buf) THEN a # <<>> /\ m = Head(a) /\ Holds(cin' \o s2c', Tail(a))
      ELSE Holds(cin' \o s2c', a)
  BY <1>3, <1>4, <1>8, <1>m DEF TakesOne
<1>10. HttpTypes' => NotesOk'
  <2>1. \/ got' = got
        \/ /\ Http!Completes(buf)
           /\ got' = [got EXCEPT ![r] = Append(got[r], buf[Http!Consumed(buf)].msg)]
    <3>1. CASE Http!Completes(buf)
      BY <1>5, <1>m, <3>1
    <3>2. CASE ~Http!Completes(buf)
      BY <1>5, <3>2
    <3> QED
      BY <3>1, <3>2
  <2> QED
    BY <1>0, <1>1, <1>3, <1>4, <1>7, <2>1, NotesRead
<1>11. CASE ~Http!Completes(buf)
  <2>1. HttpTypes'
    BY <1>0, <1>1, <1>5, <1>8, <1>11 DEF HttpTypes
  <2>2. Locks' /\ HandledOk' /\ FailedOk'
    BY <1>0, <1>1, <1>5, <1>11 DEF Locks, CallerOk, HandledOk, HandledOf, FailedOk, CallOf
  <2>3. Answered(a)' /\ (conn_server' # "closed" => Asking(a, q)')
    BY <1>1, <1>5, <1>7, <1>11 DEF Answered, Asking, Sending, CallOf
  <2>4. Pipe(a, q)'
    BY <1>1, <1>7, <1>9, <1>11, <2>3 DEF Pipe
  <2>5. PipeOk'
    BY <2>4 DEF PipeOk
  <2> QED
    BY <1>10, <2>1, <2>2, <2>5 DEF HttpInv
<1>12. CASE Http!Completes(buf)
  <2>1. /\ got' = [got EXCEPT ![r] = Append(got[r], m)] /\ m \in Resp
        /\ conn_pc' = [conn_pc EXCEPT ![r] = "idle"] /\ readers' = Tail(readers)
        /\ a # <<>> /\ m = Head(a) /\ Holds(cin' \o s2c', Tail(a))
    BY <1>5, <1>8, <1>9, <1>12
  <2>2. conn_pc[r] = "receive" /\ CallerOk(r) /\ readers # <<>> /\ readers[1] = r
    <3>1. conn_pc[r] = "receive" /\ Head(readers) = r
      BY <1>1 DEF Http!Reading
    <3>2. CallerOk(r) /\ In(r, readers)
      BY <1>0, <3>1 DEF Locks, CallerOk
    <3>3. readers # <<>>
      BY <3>2 DEF In
    <3> QED
      BY <1>0, <3>1, <3>2, <3>3 DEF HttpTypes
  <2>3. m.to = CallOf(r)
    <3>1. a[1] = m /\ 1 \in 1 .. Len(a)
      BY <2>1, TailOf
    <3> QED
      BY <1>7, <2>2, <3>1 DEF Answered
  <2>4. /\ got'[r] = Append(got[r], m) /\ \A s \in Rpc : s # r => got'[s] = got[s]
        /\ got[r] \in Seq(Resp) /\ asked[r] \in Seq(Req)
    BY <1>0, <2>1 DEF HttpTypes
  <2>5. /\ Len(got'[r]) = Len(asked[r]) /\ Len(got[r]) = Len(asked[r]) - 1
        /\ Len(got[r]) \in Nat /\ Len(asked[r]) \in Nat /\ got'[r][Len(got[r]) + 1] = m
        /\ \A k \in 1 .. Len(got[r]) : got'[r][k] = got[r][k]
    BY <2>1, <2>2, <2>4, AppendTo DEF CallerOk
  <2>6. ASSUME NEW k \in 1 .. Len(got'[r]) PROVE got'[r][k].to = <<r, k>>
    <3>1. k \in 1 .. Len(got[r]) \/ k = Len(got[r]) + 1
      BY <2>5
    <3>2. CASE k \in 1 .. Len(got[r])
      BY <2>2, <2>5, <3>2 DEF CallerOk
    <3>3. CASE k = Len(got[r]) + 1
      BY <2>3, <2>5, <3>3 DEF CallOf
    <3> QED
      BY <3>1, <3>2, <3>3
  <2>7. /\ Locks' /\ conn_pc'[r] = "idle" /\ \A s \in Rpc : s # r => conn_pc'[s] = conn_pc[s]
        /\ readers' \in Seq(Rpc)
    BY <1>0, <1>1, <2>1, <2>4, <2>5, <2>6, ReaderLeaves
  <2>8. HttpTypes'
    <3>1. got' \in [Rpc -> Seq(Resp)]
      BY <1>0, <2>1, <2>4, AppendTo DEF HttpTypes
    <3>2. conn_pc' \in [Rpc -> {"idle", "lock", "send", "receive", "failed"}]
      BY <1>0, <2>1 DEF HttpTypes
    <3> QED
      BY <1>0, <1>1, <1>8, <2>7, <3>1, <3>2 DEF HttpTypes
  <2>9. HandledOk' /\ FailedOk'
    <3>1. \A s \in Rpc : (conn_pc'[s] = "lock" => conn_pc[s] = "lock")
                         /\ (conn_pc'[s] = "failed" => conn_pc[s] = "failed")
      BY <2>7
    <3> QED
      BY <1>0, <1>1, <3>1 DEF HandledOk, HandledOf, FailedOk, CallOf
  <2>10. Sending' <=> Sending
    BY <2>2, <2>7 DEF Sending
  <2>11. Answered(Tail(a))' /\ (conn_server # "closed" => Asking(Tail(a), q)')
    <3>1. FirstLeaves(a)
      BY <1>1, <2>1, <2>2 DEF FirstLeaves
    <3> QED
      BY <1>0, <1>7, <2>10, <3>1, PipeLeaves
  <2>12. Pipe(Tail(a), q)'
    BY <1>1, <1>7, <2>1, <2>11 DEF Pipe
  <2>13. PipeOk'
    <3>1. Tail(a) \in Seq(Resp)
      BY <2>1, TailOf
    <3> QED
      BY <2>12, <3>1 DEF PipeOk
  <2> QED
    BY <1>10, <2>7, <2>8, <2>9, <2>13 DEF HttpInv
<1> QED
  BY <1>11, <1>12

\* receive() fails: the server has closed and sent all that it handled, so the call was not.
LEMMA ReceiveEndKeeps ==
  ASSUME HttpInv, NEW r \in Rpc, client = "open", Http!ReceiveEnd(r)
  PROVE  HttpInv'
<1>0. HttpTypes /\ Locks /\ HandledOk /\ FailedOk /\ PipeOk /\ NotesOk
  BY DEF HttpInv
<1>1. /\ Http!Reading(r) /\ cin = <<>> /\ s2c = <<>> /\ conn_server = "closed"
      /\ conn_pc' = [conn_pc EXCEPT ![r] = "failed"] /\ readers' = Tail(readers)
      /\ UNCHANGED <<asked, got, writers, sent, cin, handled, conn_server, sends, written, sin, db,
                     c2s, s2c, client>>
  BY DEF Http!ReceiveEnd, Http!serverVars
<1>2. PICK a \in Seq(Resp), q \in Seq(Req) : Pipe(a, q)
  BY <1>0 DEF PipeOk
<1>3. a = <<>> /\ sends = <<>>
  <2>1. cin \o s2c = <<>> /\ Holds(cin \o s2c, a)
    BY <1>1, <1>2 DEF Pipe
  <2> QED
    BY <1>0, <1>1, <2>1, HoldsNothing DEF FailedOk
<1>4. CallerOk(r) /\ conn_pc[r] = "receive"
  BY <1>0, <1>1 DEF Locks, CallerOk, Http!Reading
<1>5. /\ Len(got'[r]) = Len(asked[r]) - 1 /\ \A k \in 1 .. Len(got'[r]) : got'[r][k].to = <<r, k>>
  BY <1>1, <1>4 DEF CallerOk
<1>6. /\ Locks' /\ readers # <<>> /\ readers[1] = r
      /\ conn_pc'[r] = "failed" /\ \A s \in Rpc : s # r => conn_pc'[s] = conn_pc[s]
      /\ \A i \in 1 .. Len(readers) - 1 : readers'[i] = readers[i + 1]
      /\ Len(readers') = Len(readers) - 1 /\ Len(readers) \in Nat /\ readers' \in Seq(Rpc)
  BY <1>0, <1>1, <1>5, ReaderLeaves
<1>7. HttpTypes'
  <2>1. conn_pc' \in [Rpc -> {"idle", "lock", "send", "receive", "failed"}]
    BY <1>0, <1>1 DEF HttpTypes
  <2> QED
    BY <1>0, <1>1, <1>6, <2>1 DEF HttpTypes
<1>8. HandledOk'
  BY <1>0, <1>1, <1>6 DEF HandledOk, HandledOf, CallOf
<1>9. \A i \in 1 .. Len(readers) : CallOf(readers[i]) \notin handled
  <2>1. Answered(a) /\ Len(a) = 0 /\ Len(sends) = 0
    BY <1>1, <1>2, <1>3 DEF Pipe, Http!Reading
  <2> QED
    BY <2>1, <1>6 DEF Answered
<1>10. FailedOk'
  <2>1. CallOf(r) \notin handled
    <3>1. Len(readers) >= 1
      BY <1>0, <1>6 DEF HttpTypes
    <3> QED
      BY <1>6, <1>9, <3>1
  <2> QED
    BY <1>0, <1>1, <1>6, <2>1 DEF FailedOk, CallOf
<1>11. PipeOk'
  <2>1. Answered(a)'
    <3>1. Len(a) = 0 /\ Len(sends) = 0
      BY <1>3
    <3>2. \A i \in 1 .. Len(readers') : CallOf(readers[i])' \notin handled
      <4> SUFFICES ASSUME NEW i \in 1 .. Len(readers') PROVE CallOf(readers[i])' \notin handled
        OBVIOUS
      <4>1. i \in 1 .. Len(readers) - 1 /\ i + 1 \in 1 .. Len(readers)
        BY <1>6
      <4>2. CallOf(readers[i])' = CallOf(readers[i + 1])
        BY <1>1, <1>6, <4>1 DEF CallOf
      <4> QED
        BY <1>9, <4>1, <4>2
    <3>3. Len(readers') \in Nat
      BY <1>6
    <3> QED
      BY <1>1, <3>1, <3>2, <3>3 DEF Answered
  <2>2. Pipe(a, q)'
    BY <1>1, <1>2, <2>1 DEF Pipe
  <2> QED
    BY <2>2 DEF PipeOk
<1>12. NotesOk'
  BY <1>0, <1>1, NotesSame
<1> QED
  BY <1>6, <1>7, <1>8, <1>10, <1>11, <1>12 DEF HttpInv

\* The server sees that the client has gone.
LEMMA ServerReceiveEndKeeps ==
  ASSUME HttpInv, Http!ServerReceiveEnd
  PROVE  HttpInv'
<1>0. HttpTypes /\ Locks /\ HandledOk /\ FailedOk /\ PipeOk /\ NotesOk
  BY DEF HttpInv
<1>1. /\ conn_server = "receive" /\ client = "closed" /\ conn_server' = "drain"
      /\ UNCHANGED <<conn_pc, asked, got, writers, readers, sent, cin, handled, sends, written, sin,
                     db, c2s, s2c, client>>
  BY DEF Http!ServerReceiveEnd, Http!clientVars
<1>2. HttpTypes' /\ Locks'
  BY <1>0, <1>1 DEF HttpTypes, Locks, CallerOk
<1>3. HandledOk' /\ FailedOk'
  BY <1>0, <1>1 DEF HandledOk, HandledOf, FailedOk, CallOf
<1>4. PipeOk'
  BY <1>0, <1>1 DEF PipeOk, Pipe
<1>5. NotesOk'
  BY <1>0, <1>1, NotesSame
<1> QED
  BY <1>2, <1>3, <1>4, <1>5 DEF HttpInv

\* The server closes after its sends.
LEMMA ServerCloseKeeps ==
  ASSUME HttpInv, Http!ServerClose
  PROVE  HttpInv'
<1>0. HttpTypes /\ Locks /\ HandledOk /\ FailedOk /\ PipeOk /\ NotesOk
  BY DEF HttpInv
<1>1. /\ conn_server = "drain" /\ sends = <<>> /\ conn_server' = "closed"
      /\ UNCHANGED <<conn_pc, asked, got, writers, readers, sent, cin, handled, sends, written, sin,
                     db, c2s, s2c, client>>
  BY DEF Http!ServerClose, Http!SendsResolved, Http!clientVars
<1>2. HttpTypes' /\ Locks'
  BY <1>0, <1>1 DEF HttpTypes, Locks, CallerOk
<1>3. HandledOk' /\ FailedOk'
  BY <1>0, <1>1 DEF HandledOk, HandledOf, FailedOk, CallOf
<1>4. PipeOk'
  <2>1. PICK a \in Seq(Resp), q \in Seq(Req) : Pipe(a, q)
    BY <1>0 DEF PipeOk
  <2>2. Answered(a)' <=> Answered(a)
    BY <1>1 DEF Answered, CallOf
  <2>3. Pipe(a, q)'
    BY <1>1, <2>1, <2>2 DEF Pipe
  <2> QED
    BY <2>3 DEF PipeOk
<1>5. NotesOk'
  BY <1>0, <1>1, NotesSame
<1> QED
  BY <1>2, <1>3, <1>4, <1>5 DEF HttpInv

FirstSent(a, b) ==
  /\ sends # <<>> /\ b = Append(a, Head(sends)) /\ sends' = Tail(sends)
  /\ UNCHANGED <<asked, readers, handled, conn_pc>>

\* The first response has been sent: its caller is the first of those who wait for the server's.
LEMMA PipeSends ==
  ASSUME HttpTypes, NEW a \in Seq(Resp), Answered(a), NEW b, FirstSent(a, b)
  PROVE  /\ b \in Seq(Resp) /\ Answered(b)'
         /\ \A q \in Seq(Req) : Asking(a, q) => Asking(b, q)'
<1>1. /\ b \in Seq(Resp) /\ Len(b) = Len(a) + 1 /\ Len(a) \in Nat /\ b[Len(a) + 1] = sends[1]
      /\ \A i \in 1 .. Len(a) : b[i] = a[i]
  <2>1. Head(sends) \in Resp /\ Head(sends) = sends[1]
    BY TailOf DEF HttpTypes, FirstSent
  <2> QED
    BY <2>1, AppendTo DEF FirstSent
<1>2. /\ Len(sends') = Len(sends) - 1 /\ Len(sends) \in Nat /\ Len(sends) >= 1
      /\ \A i \in 1 .. Len(sends) - 1 : sends'[i] = sends[i + 1]
  BY TailOf DEF HttpTypes, FirstSent
<1>3. /\ Len(b) = Len(a) + 1 /\ Len(a) \in Nat /\ Len(sends') = Len(sends) - 1
      /\ Len(sends) \in Nat /\ Len(sends) >= 1 /\ Len(readers) \in Nat
  BY <1>1, <1>2 DEF HttpTypes
<1>4. readers' = readers /\ handled' = handled /\ (Sending' <=> Sending)
      /\ \A s : CallOf(s)' = CallOf(s)
  BY DEF FirstSent, CallOf, Sending
<1>5. Len(a) + Len(sends) <= Len(readers)
  BY DEF Answered
<1>6. ASSUME NEW i \in 1 .. Len(b) PROVE b[i].to = CallOf(readers[i])'
  <2>1. i \in 1 .. Len(a) \/ i = Len(a) + 1
    BY <1>3
  <2>2. CASE i \in 1 .. Len(a)
    BY <1>1, <1>4, <2>2 DEF Answered, CallOf, FirstSent
  <2>3. CASE i = Len(a) + 1
    <3>1. sends[1].to = CallOf(readers[Len(a) + 1])
      BY <1>3 DEF Answered
    <3> QED
      BY <1>1, <2>3, <3>1 DEF CallOf, FirstSent
  <2> QED
    BY <2>1, <2>2, <2>3
<1>7. ASSUME NEW i \in 1 .. Len(sends') PROVE sends'[i].to = CallOf(readers[Len(b) + i])'
  <2>1. i \in 1 .. Len(sends) - 1 /\ i + 1 \in 1 .. Len(sends) /\ Len(a) + (i + 1) = Len(b) + i
    BY <1>3
  <2>2. sends[i + 1].to = CallOf(readers[Len(a) + (i + 1)])
    BY <2>1 DEF Answered
  <2>3. sends'[i] = sends[i + 1]
    BY <1>2, <2>1
  <2> QED
    BY <2>1, <2>2, <2>3 DEF CallOf, FirstSent
<1>8. ASSUME NEW i \in 1 .. Len(readers'), i > Len(b) + Len(sends') PROVE CallOf(readers[i])' \notin handled'
  <2>1. i \in 1 .. Len(readers) /\ i > Len(a) + Len(sends)
    BY <1>3, <1>4, <1>8
  <2>2. CallOf(readers[i]) \notin handled
    BY <2>1 DEF Answered
  <2> QED
    BY <2>2 DEF CallOf, FirstSent
<1>9. Answered(b)'
  <2>1. Len(b) + Len(sends') <= Len(readers')
    BY <1>3, <1>4, <1>5
  <2> QED
    BY <1>6, <1>7, <1>8, <2>1 DEF Answered
<1>10. ASSUME NEW q \in Seq(Req), Asking(a, q) PROVE Asking(b, q)'
  <2>1. Len(b) + Len(sends') = Len(a) + Len(sends)
    BY <1>3
  <2>2. ASSUME NEW i \in 1 .. Len(q) PROVE q[i].tag = CallOf(readers[Len(b) + Len(sends) + i])'
    <3>1. Len(b) + Len(sends') + i = Len(a) + Len(sends) + i
      BY <2>1
    <3>2. q[i].tag = CallOf(readers[Len(a) + Len(sends) + i])
      BY <1>10 DEF Asking
    <3> QED
      BY <3>1, <3>2 DEF CallOf, FirstSent
  <2>3. /\ Sending => Len(b) + Len(sends') + Len(q) + 1 = Len(readers)
        /\ ~Sending => Len(b) + Len(sends') + Len(q) = Len(readers)
    BY <1>10, <2>1 DEF Asking
  <2> QED
    BY <1>4, <2>2, <2>3 DEF Asking
<1> QED
  BY <1>1, <1>9, <1>10

\* The server writes a part of the first response.
LEMMA ServerSendKeeps ==
  ASSUME HttpInv, Http!ServerSend
  PROVE  HttpInv'
<1>0. HttpTypes /\ Locks /\ HandledOk /\ FailedOk /\ PipeOk /\ NotesOk
  BY DEF HttpInv
<1>m. PICK m : m = Head(sends)
  OBVIOUS
<1>p. PICK p : p = Http!Part(m, written + 1)
  OBVIOUS
<1>1. /\ sends # <<>> /\ conn_server # "closed"
      /\ UNCHANGED <<conn_pc, asked, got, writers, readers, sent, cin, handled, conn_server, sin,
                     db, c2s, client>>
  BY DEF Http!ServerSend, Http!clientVars
<1>2. \/ /\ client = "open" /\ s2c' = Append(s2c, p)
         /\ IF written = 1 THEN written' = 0 /\ sends' = Tail(sends)
            ELSE written' = 1 /\ sends' = sends
      \/ client = "closed" /\ written' = 0 /\ sends' = Tail(sends) /\ s2c' = s2c
  BY <1>m, <1>p DEF Http!ServerSend
<1>3. /\ m \in Resp /\ m = sends[1] /\ Tail(sends) \in Seq(Resp)
      /\ \A i \in 1 .. Len(sends) - 1 : Tail(sends)[i] = sends[i + 1]
      /\ Len(Tail(sends)) = Len(sends) - 1 /\ Len(sends) \in Nat /\ Len(sends) >= 1
  BY <1>0, <1>1, <1>m, TailOf DEF HttpTypes
<1>4. p \in Parts(Resp) /\ p.msg = m /\ (p.end <=> written = 1)
  <2>1. p = [msg |-> m, end |-> written + 1 = 2]
    BY <1>p DEF Http!Part
  <2>2. p.msg = m /\ p.end = (written + 1 = 2)
    BY <2>1
  <2>3. written + 1 = 2 <=> written = 1
    BY <1>0 DEF HttpTypes
  <2>4. (written + 1 = 2) \in BOOLEAN
    OBVIOUS
  <2> QED
    BY <1>3, <2>1, <2>2, <2>3, <2>4 DEF Parts
<1>5. HttpTypes'
  <2>1. written' \in {0, 1} /\ sends' \in Seq(Resp)
    BY <1>0, <1>2, <1>3 DEF HttpTypes
  <2>2. s2c' \in Seq(Parts(Resp))
    <3>1. s2c \in Seq(Parts(Resp)) /\ Append(s2c, p) \in Seq(Parts(Resp))
      BY <1>0, <1>4, AppendTo DEF HttpTypes
    <3> QED
      BY <1>2, <3>1
  <2> QED
    BY <1>0, <1>1, <2>1, <2>2 DEF HttpTypes
<1>6. Locks' /\ HandledOk' /\ FailedOk'
  BY <1>0, <1>1 DEF Locks, CallerOk, HandledOk, HandledOf, FailedOk, CallOf
<1>7. PipeOk'
  <2>1. PICK a \in Seq(Resp), q \in Seq(Req) : Pipe(a, q)
    BY <1>0 DEF PipeOk
  <2>2. /\ cin \in Seq(Parts(Resp)) /\ s2c \in Seq(Parts(Resp)) /\ cin \o s2c \in Seq(Parts(Resp))
        /\ Holds(cin \o s2c, a) /\ Holds(sin \o c2s, q)
    BY <1>0, <2>1, ConcatProperties DEF HttpTypes, Pipe
  <2>3. client = "open" => Answered(a) /\ Asking(a, q)
    BY <1>1, <2>1 DEF Pipe
  <2>4. CASE client # "open"
    <3>1. Pipe(a, q)'
      BY <1>1, <1>2, <2>2, <2>4 DEF Pipe
    <3> QED
      BY <3>1 DEF PipeOk
  <2>5. CASE client = "open" /\ written # 1
    <3>1. Holds(cin' \o s2c', a)
      <4>1. cin' \o s2c' = Append(cin \o s2c, p)
        <5>1. s2c' = Append(s2c, p) /\ cin' = cin
          BY <1>1, <1>2, <2>5
        <5>2. cin \o Append(s2c, p) = Append(cin \o s2c, p)
          BY <1>4, <2>2, JoinAppend
        <5> QED
          BY <5>1, <5>2
      <4>2. Holds(Append(cin \o s2c, p), a)
        <5>1. ~p.end
          BY <1>4, <2>5
        <5> QED
          BY <1>4, <2>2, <5>1, HoldsPart
      <4> QED
        BY <4>1, <4>2
    <3>2. Answered(a)' /\ Asking(a, q)'
      BY <1>1, <1>2, <2>3, <2>5 DEF Answered, Asking, Sending, CallOf
    <3>3. Pipe(a, q)'
      BY <1>1, <2>2, <3>1, <3>2 DEF Pipe
    <3> QED
      BY <3>3 DEF PipeOk
  <2>6. CASE client = "open" /\ written = 1
    <3>1. PICK b : b = Append(a, m)
      OBVIOUS
    <3>2. Holds(cin' \o s2c', b)
      <4>1. cin' \o s2c' = Append(cin \o s2c, p)
        <5>1. s2c' = Append(s2c, p) /\ cin' = cin
          BY <1>1, <1>2, <2>6
        <5>2. cin \o Append(s2c, p) = Append(cin \o s2c, p)
          BY <1>4, <2>2, JoinAppend
        <5> QED
          BY <5>1, <5>2
      <4>2. Holds(Append(cin \o s2c, p), Append(a, p.msg))
        <5>1. p.end
          BY <1>4, <2>6
        <5> QED
          BY <1>4, <2>2, <5>1, HoldsEnd
      <4> QED
        BY <1>4, <3>1, <4>1, <4>2
    <3>3. FirstSent(a, b)
      BY <1>1, <1>2, <1>m, <2>6, <3>1 DEF FirstSent
    <3>4. b \in Seq(Resp) /\ Answered(b)' /\ Asking(b, q)'
      BY <1>0, <2>3, <2>6, <3>3, PipeSends
    <3>5. Pipe(b, q)'
      BY <1>1, <2>2, <3>2, <3>4 DEF Pipe
    <3> QED
      BY <3>4, <3>5 DEF PipeOk
  <2> QED
    BY <2>4, <2>5, <2>6
<1>8. NotesOk'
  <2>1. PICK author \in Authors : NotesBy(author)
    BY <1>0 DEF NotesOk
  <2> DEFINE G == Signed(author, db.next)
  <2>2. s2c \in Seq(Parts(G)) /\ sends \in Seq(G)
    BY <1>0, <2>1, SignedParts, SignedSeq DEF NotesBy, HttpTypes
  <2> HIDE DEF G
  <2>3. m \in G /\ sends' \in Seq(G)
    BY <1>1, <1>2, <1>m, <2>2, TailOf
  <2>4. s2c' \in Seq(Parts(G))
    <3>1. p \in Parts(G)
      BY <1>4, <2>3 DEF Parts
    <3> QED
      BY <1>2, <2>2, <3>1, AppendTo
  <2>5. \A i \in 1 .. Len(s2c') : By(author, s2c'[i].msg.notes, db.next)
    BY <1>5, <2>4, SignedParts DEF HttpTypes, G
  <2>6. \A i \in 1 .. Len(sends') : By(author, sends'[i].notes, db.next)
    BY <1>5, <2>3, SignedSeq DEF HttpTypes, G
  <2>7. NotesBy(author)'
    BY <1>1, <2>1, <2>5, <2>6 DEF NotesBy
  <2> QED
    BY <2>7 DEF NotesOk
<1> QED
  BY <1>5, <1>6, <1>7, <1>8 DEF HttpInv

FirstHandled(q, x) ==
  /\ q # <<>> /\ sends' = Append(sends, x) /\ x.to = Head(q).tag
  /\ handled' = handled \cup {Head(q).tag}
  /\ UNCHANGED <<asked, readers, conn_pc>>

\* The first of those who wait for requests on their way becomes the last of those who wait
\* for the server to send.
LEMMA PipeHandles ==
  ASSUME HttpTypes, Singly(readers), NEW a \in Seq(Resp), NEW q \in Seq(Req), Answered(a), Asking(a, q),
         NEW x \in Resp, FirstHandled(q, x)
  PROVE  /\ Answered(a)' /\ Asking(a, Tail(q))'
         /\ \E i \in 1 .. Len(readers) : Head(q).tag = CallOf(readers[i])
<1> DEFINE t == Tail(q)
           here == Len(a) + Len(sends) + 1
<1>1. /\ t \in Seq(Req) /\ Len(t) = Len(q) - 1 /\ Len(q) \in Nat /\ Len(q) >= 1
      /\ Head(q) = q[1] /\ \A i \in 1 .. Len(q) - 1 : t[i] = q[i + 1]
  BY TailOf DEF FirstHandled
<1>2. /\ sends' \in Seq(Resp) /\ Len(sends') = Len(sends) + 1 /\ Len(sends) \in Nat
      /\ sends'[Len(sends) + 1] = x /\ \A i \in 1 .. Len(sends) : sends'[i] = sends[i]
  BY AppendTo DEF HttpTypes, FirstHandled
<1> HIDE DEF t
<1>3. /\ Len(t) = Len(q) - 1 /\ Len(q) \in Nat /\ Len(q) >= 1 /\ Len(sends') = Len(sends) + 1
      /\ Len(sends) \in Nat /\ Len(a) \in Nat /\ Len(readers) \in Nat
  BY <1>1, <1>2 DEF HttpTypes
<1>4. readers' = readers /\ (Sending' <=> Sending) /\ x.to = q[1].tag
      /\ handled' = handled \cup {q[1].tag}
  BY <1>1 DEF FirstHandled, Sending
<1>5. here \in 1 .. Len(readers)
  <2>1. \/ Len(a) + Len(sends) + Len(q) + 1 = Len(readers)
        \/ Len(a) + Len(sends) + Len(q) = Len(readers)
    BY DEF Asking, Sending
  <2> QED
    BY <1>3, <2>1
<1>6. q[1].tag = CallOf(readers[here])
  BY <1>3 DEF Asking
<1> HIDE DEF here
<1>7. here = Len(a) + Len(sends) + 1 /\ here \in Nat
  BY <1>3 DEF here
<1>8. \A i \in 1 .. Len(readers) : CallOf(readers[i])' = CallOf(readers[i])
  BY DEF CallOf, FirstHandled
<1>9. ASSUME NEW i \in 1 .. Len(a) PROVE a[i].to = CallOf(readers[i])'
  BY DEF Answered, CallOf, FirstHandled
<1>10. ASSUME NEW i \in 1 .. Len(sends') PROVE sends'[i].to = CallOf(readers[Len(a) + i])'
  <2>1. i \in 1 .. Len(sends) \/ i = Len(sends) + 1
    BY <1>3
  <2>2. CASE i \in 1 .. Len(sends)
    <3>1. sends[i].to = CallOf(readers[Len(a) + i])
      BY <2>2 DEF Answered
    <3> QED
      BY <1>2, <2>2, <3>1 DEF CallOf, FirstHandled
  <2>3. CASE i = Len(sends) + 1
    <3>1. Len(a) + i = here
      BY <1>3, <1>7, <2>3
    <3>2. sends'[i].to = CallOf(readers[here])
      BY <1>2, <1>4, <1>6, <2>3
    <3> QED
      BY <3>1, <3>2 DEF CallOf, FirstHandled
  <2> QED
    BY <2>1, <2>2, <2>3
<1>11. ASSUME NEW i \in 1 .. Len(readers), i > Len(a) + Len(sends')
       PROVE  CallOf(readers[i]) \notin handled'
  <2>1. i > Len(a) + Len(sends) /\ i # here
    BY <1>3, <1>7, <1>11
  <2>2. CallOf(readers[i]) \notin handled
    BY <2>1 DEF Answered
  <2>3. readers[i] # readers[here]
    BY <1>5, <2>1 DEF Singly
  <2>4. CallOf(readers[i]) # CallOf(readers[here])
    BY <2>3 DEF CallOf
  <2> QED
    BY <1>4, <1>6, <2>2, <2>4
<1>12. Answered(a)'
  <2>1. Len(a) + Len(sends') <= Len(readers)
    BY <1>3, <1>5, <1>7
  <2>2. \A i \in 1 .. Len(readers) : i > Len(a) + Len(sends') => CallOf(readers[i])' \notin handled'
    BY <1>8, <1>11
  <2> QED
    BY <1>4, <1>9, <1>10, <2>1, <2>2 DEF Answered
<1>13. Asking(a, t)'
  <2>1. Len(a) + Len(sends') + Len(t) = Len(a) + Len(sends) + Len(q)
    BY <1>3
  <2>2. /\ Sending => Len(a) + Len(sends') + Len(t) + 1 = Len(readers)
        /\ ~Sending => Len(a) + Len(sends') + Len(t) = Len(readers)
    BY <2>1 DEF Asking
  <2>3. ASSUME NEW i \in 1 .. Len(t) PROVE t[i].tag = CallOf(readers[Len(a) + Len(sends) + i])'
    <3>1. i \in 1 .. Len(q) - 1 /\ i + 1 \in 1 .. Len(q)
          /\ Len(a) + Len(sends') + i = Len(a) + Len(sends) + (i + 1)
      BY <1>3
    <3>2. q[i + 1].tag = CallOf(readers[Len(a) + Len(sends) + (i + 1)])
      BY <3>1 DEF Asking
    <3>3. t[i] = q[i + 1]
      BY <1>1, <3>1
    <3> QED
      BY <3>1, <3>2, <3>3 DEF CallOf, FirstHandled
  <2> QED
    BY <1>4, <2>2, <2>3 DEF Asking
<1> QED
  BY <1>1, <1>5, <1>6, <1>12, <1>13 DEF t

SameUntil(author, then, next) == \A id \in Nat : id < next => then[id] = author[id]

\* What a response shows stays by its authors when notes are created.
LEMMA LaterSigned ==
  ASSUME NEW author, NEW then, NEW next \in Nat, NEW later \in Nat, next <= later,
         SameUntil(author, then, next)
  PROVE  /\ Signed(author, next) \subseteq Signed(then, later)
         /\ Parts(Signed(author, next)) \subseteq Parts(Signed(then, later))
<1>1. ASSUME NEW x \in Resp, By(author, x.notes, next) PROVE By(then, x.notes, later)
  <2>1. x.notes \in NoteMaps
    BY DEF Resp
  <2>2. DOMAIN x.notes \subseteq Nat
    BY <2>1, MapsAre
  <2> SUFFICES ASSUME NEW id \in DOMAIN x.notes PROVE id < later /\ x.notes[id].by = then[id]
    BY DEF By
  <2>3. id \in Nat /\ id < next /\ x.notes[id].by = author[id]
    BY <1>1, <2>2 DEF By
  <2> QED
    BY <2>3 DEF SameUntil
<1>2. Signed(author, next) \subseteq Signed(then, later)
  BY <1>1 DEF Signed
<1> QED
  BY <1>2 DEF Parts

\* A sequence over a set is one over a wider set.
LEMMA SeqWider ==
  ASSUME NEW A, NEW B, A \subseteq B, NEW s \in Seq(A)
  PROVE  s \in Seq(B)
<1>1. \A i \in 1 .. Len(s) : s[i] \in B
  OBVIOUS
<1> QED
  BY <1>1

\* What was signed stays so when a request is handled.
LEMMA NotesHandled ==
  ASSUME HttpTypes, HttpTypes', NotesOk, NEW req \in Http!NoteRequest, NEW tag \in Tags,
         NEW effect, effect = Http!Handle(req, tag, db),
         NEW x \in Resp, x.notes = effect.response.notes, sends' = Append(sends, x), db' = effect.db,
         UNCHANGED <<got, cin, s2c>>
  PROVE  NotesOk'
<1>1. PICK author \in Authors : NotesBy(author)
  BY DEF NotesOk
<1>2. By(author, db.notes, db.next) /\ db \in Database /\ db.next \in Nat
  BY <1>1 DEF NotesBy, HttpTypes, Database
<1>3. Signs(author, db.next, effect)
  BY <1>2, HandleRight
<1>4. PICK then \in Authors :
        /\ \A id \in Nat : id < db.next => then[id] = author[id]
        /\ db.next <= effect.db.next /\ Right(then, effect)
  BY <1>3 DEF Signs
<1>5. /\ effect.db.next \in Nat /\ By(then, effect.db.notes, effect.db.next)
      /\ By(then, x.notes, effect.db.next)
  BY <1>4 DEF Right, Database
<1> DEFINE G == Signed(author, db.next)
           L == Signed(then, effect.db.next)
<1>6. /\ cin \in Seq(Parts(G)) /\ s2c \in Seq(Parts(G)) /\ sends \in Seq(G)
      /\ \A r \in Rpc : got[r] \in Seq(G)
  <2>1. \A r \in Rpc : got[r] \in Seq(Resp)
    BY DEF HttpTypes
  <2>2. \A r \in Rpc : got[r] \in Seq(G)
    BY <1>1, <2>1, SignedSeq DEF NotesBy
  <2> QED
    BY <1>1, <2>2, SignedParts, SignedSeq DEF NotesBy, HttpTypes
<1>7. G \subseteq L /\ Parts(G) \subseteq Parts(L)
  <2>1. db.next <= effect.db.next /\ SameUntil(author, then, db.next)
    BY <1>4 DEF SameUntil
  <2>2. db.next \in Nat /\ effect.db.next \in Nat
    BY <1>2, <1>5
  <2> QED
    BY <2>1, <2>2, LaterSigned
<1>8. x \in L
  BY <1>5 DEF Signed
<1> HIDE DEF G, L
<1>9. cin \in Seq(Parts(L)) /\ s2c \in Seq(Parts(L)) /\ \A r \in Rpc : got[r] \in Seq(L)
  BY <1>6, <1>7, SeqWider
<1>10. sends' \in Seq(L)
  <2>1. sends \in Seq(L)
    BY <1>6, <1>7, SeqWider
  <2> QED
    BY <1>8, <2>1, AppendTo
<1>11. NotesBy(then)'
  <2>1. \A i \in 1 .. Len(cin) : By(then, cin[i].msg.notes, effect.db.next)
    BY <1>9, SignedParts DEF HttpTypes, L
  <2>2. \A i \in 1 .. Len(s2c) : By(then, s2c[i].msg.notes, effect.db.next)
    BY <1>9, SignedParts DEF HttpTypes, L
  <2>3. \A i \in 1 .. Len(sends') : By(then, sends'[i].notes, effect.db.next)
    BY <1>10, SignedSeq DEF HttpTypes, L
  <2>4. ASSUME NEW r \in Rpc PROVE \A k \in 1 .. Len(got[r]) : By(then, got[r][k].notes, effect.db.next)
    <3>1. got[r] \in Seq(Resp)
      BY DEF HttpTypes
    <3> QED
      BY <1>9, <3>1, SignedSeq DEF L
  <2> QED
    BY <1>5, <2>1, <2>2, <2>3, <2>4 DEF NotesBy
<1> QED
  BY <1>11 DEF NotesOk

\* handle_connection reads, and perhaps handles a request: the first of those on their way.
LEMMA ServerReceiveKeeps ==
  ASSUME HttpInv, Http!ServerReceive
  PROVE  HttpInv'
<1>0. HttpTypes /\ Locks /\ HandledOk /\ FailedOk /\ PipeOk /\ NotesOk
  BY DEF HttpInv
<1>1. conn_server = "receive" /\ UNCHANGED <<conn_pc, asked, got, writers, readers, sent, cin,
                                             written, s2c, client>>
  BY DEF Http!ServerReceive, Http!clientVars
<1>2. PICK n \in Http!ReadSizes(sin, c2s) :
        LET buf == Http!Executed(sin, c2s, n)
            req == buf[Http!Consumed(buf)].msg
            effect == Http!Handle(req.ask, req.tag, db) IN
        /\ sin' = Http!Unconsumed(buf) /\ c2s' = Http!Rest(c2s, n)
        /\ IF Http!Completes(buf)
           THEN /\ db' = effect.db
                /\ sends' = Append(sends, Http!Answer(req, effect.response))
                /\ handled' = handled \cup {req.tag}
                /\ conn_server' = IF req.close THEN "drain" ELSE conn_server
           ELSE UNCHANGED <<db, sends, handled, conn_server>>
  BY DEF Http!ServerReceive
<1>3. PICK buf : buf = Http!Executed(sin, c2s, n)
  OBVIOUS
<1>m. PICK m : m = buf[Http!Consumed(buf)].msg
  OBVIOUS
<1>e. PICK effect : effect = Http!Handle(m.ask, m.tag, db)
  OBVIOUS
<1>x. PICK x : x = Http!Answer(m, effect.response)
  OBVIOUS
<1>4. sin' = Http!Unconsumed(buf) /\ c2s' = Http!Rest(c2s, n)
  BY <1>2, <1>3
<1>5. /\ Http!Completes(buf) => /\ db' = effect.db /\ sends' = Append(sends, x)
                                /\ handled' = handled \cup {m.tag}
                                /\ conn_server' \in {"drain", "receive"}
      /\ ~Http!Completes(buf) => UNCHANGED <<db, sends, handled, conn_server>>
  BY <1>1, <1>2, <1>3, <1>m, <1>e, <1>x
<1>6. PICK a \in Seq(Resp), q \in Seq(Req) : Pipe(a, q)
  BY <1>0 DEF PipeOk
<1>7. /\ Holds(cin \o s2c, a) /\ Holds(sin \o c2s, q)
      /\ client = "open" => Answered(a) /\ Asking(a, q)
  BY <1>1, <1>6 DEF Pipe
<1>8. /\ TakesOne(sin, c2s, n, q) /\ sin' \in Seq(Parts(Req)) /\ c2s' \in Seq(Parts(Req))
      /\ Http!Completes(buf) => m \in Req
  <2>1. sin \in Seq(Parts(Req)) /\ c2s \in Seq(Parts(Req))
    BY <1>0 DEF HttpTypes
  <2> QED
    BY <1>3, <1>4, <1>7, <1>m, <2>1, Reads
<1>9. IF Http!Completes(buf) THEN q # <<>> /\ m = Head(q) /\ Holds(sin' \o c2s', Tail(q))
      ELSE Holds(sin' \o c2s', q)
  BY <1>3, <1>4, <1>8, <1>m DEF TakesOne
<1>10. Locks'
  BY <1>0, <1>1 DEF Locks, CallerOk
<1>11. CASE ~Http!Completes(buf)
  <2>1. HttpTypes'
    BY <1>0, <1>1, <1>5, <1>8, <1>11 DEF HttpTypes
  <2>2. HandledOk' /\ FailedOk'
    BY <1>0, <1>1, <1>5, <1>11 DEF HandledOk, HandledOf, FailedOk, CallOf
  <2>3. client = "open" => Answered(a)' /\ Asking(a, q)'
    BY <1>1, <1>5, <1>7, <1>11 DEF Answered, Asking, Sending, CallOf
  <2>4. Pipe(a, q)'
    BY <1>1, <1>7, <1>9, <1>11, <2>3 DEF Pipe
  <2>5. PipeOk'
    BY <2>4 DEF PipeOk
  <2>6. NotesOk'
    BY <1>0, <1>1, <1>5, <1>11, NotesSame
  <2> QED
    BY <1>10, <2>1, <2>2, <2>5, <2>6 DEF HttpInv
<1>12. CASE Http!Completes(buf)
  <2>1. /\ db' = effect.db /\ sends' = Append(sends, x) /\ handled' = handled \cup {m.tag}
        /\ conn_server' \in {"drain", "receive"} /\ m \in Req
        /\ q # <<>> /\ m = Head(q) /\ Holds(sin' \o c2s', Tail(q))
    BY <1>5, <1>8, <1>9, <1>12
  <2>2. m.ask \in Http!NoteRequest /\ m.tag \in Tags
    BY <2>1 DEF Req
  <2>3. PICK author \in Authors : NotesBy(author)
    BY <1>0 DEF NotesOk
  <2>4. effect.db \in Database /\ effect.response \in Shown
    <3>1. By(author, db.notes, db.next) /\ db \in Database
      BY <1>0, <2>3 DEF NotesBy, HttpTypes
    <3>2. Signs(author, db.next, effect)
      BY <1>e, <2>2, <3>1, HandleRight
    <3> QED
      BY <3>2 DEF Signs, Right
  <2>5. x \in Resp /\ x.to = m.tag /\ x.notes = effect.response.notes
    <3>1. x = [to |-> m.tag, status |-> effect.response.status, notes |-> effect.response.notes]
      BY <1>x DEF Http!Answer
    <3> QED
      BY <2>2, <2>4, <3>1 DEF Resp, Shown
  <2>6. HttpTypes'
    <3>1. sends' \in Seq(Resp)
      BY <1>0, <2>1, <2>5, AppendTo DEF HttpTypes
    <3>2. handled' \in SUBSET Tags
      BY <1>0, <2>1, <2>2 DEF HttpTypes
    <3> QED
      BY <1>0, <1>1, <1>8, <2>1, <2>4, <3>1, <3>2 DEF HttpTypes
  <2>7. NotesOk'
    BY <1>0, <1>1, <1>e, <2>1, <2>2, <2>5, <2>6, NotesHandled
  <2>8. FailedOk'
    BY <1>0, <1>1, <2>1 DEF FailedOk
  <2>9. ASSUME client = "open"
        PROVE  /\ Answered(a)' /\ Asking(a, Tail(q))'
               /\ \E i \in 1 .. Len(readers) : m.tag = CallOf(readers[i])
    <3>1. FirstHandled(q, x)
      BY <1>1, <2>1, <2>5 DEF FirstHandled
    <3> QED
      BY <1>0, <1>7, <2>1, <2>5, <2>9, <3>1, PipeHandles DEF Locks
  <2>10. PipeOk'
    <3>1. Tail(q) \in Seq(Req)
      BY <2>1, TailOf
    <3>2. PICK t \in Seq(Req) : t = Tail(q)
      BY <3>1
    <3>3. Pipe(a, t)'
      BY <1>1, <1>7, <2>1, <2>9, <3>2 DEF Pipe
    <3> QED
      BY <3>3 DEF PipeOk
  <2>11. HandledOk'
    <3> SUFFICES ASSUME client = "open", NEW s \in Rpc PROVE HandledOf(s)'
      BY <1>1 DEF HandledOk
    <3>1. PICK i \in 1 .. Len(readers) : m.tag = CallOf(readers[i])
      BY <2>9
    <3>2. readers[i] \in Rpc /\ In(readers[i], readers)
      BY <1>0 DEF HttpTypes, In
    <3>3. HandledOf(s) /\ (conn_pc[readers[i]] # "lock")
      BY <1>0, <3>2 DEF HandledOk, Locks, CallerOk
    <3>4. Len(asked[s]) \in Nat
      BY <1>0 DEF HttpTypes
    <3>5. ASSUME NEW k \in Nat, <<s, k>> \in handled' PROVE k <= Len(asked[s])
      <4>1. <<s, k>> \in handled \/ <<s, k>> = CallOf(readers[i])
        BY <2>1, <3>1, <3>5
      <4> QED
        BY <3>3, <3>4, <4>1 DEF HandledOf, CallOf
    <3>6. ASSUME conn_pc[s] = "lock" PROVE CallOf(s) \notin handled'
      <4>1. CallOf(s) # CallOf(readers[i])
        BY <3>3, <3>6 DEF CallOf
      <4> QED
        BY <2>1, <3>1, <3>3, <3>6, <4>1 DEF HandledOf
    <3> QED
      BY <1>1, <3>5, <3>6 DEF HandledOf, CallOf
  <2> QED
    BY <1>10, <2>6, <2>7, <2>8, <2>10, <2>11 DEF HttpInv
<1> QED
  BY <1>11, <1>12

-----------------------------------------------------------------------------
\* Every step of the connection keeps the invariant.
LEMMA HttpStep == HttpInv /\ [Http!Next]_Http!vars => HttpInv'
<1> SUFFICES ASSUME HttpInv, [Http!Next]_Http!vars PROVE HttpInv'
  OBVIOUS
<1>1. CASE Http!ServerStep
  BY <1>1, ServerReceiveKeeps, ServerReceiveEndKeeps, ServerSendKeeps, ServerCloseKeeps
     DEF Http!ServerStep
<1>2. CASE Http!HangUp
  BY <1>2, HangUpKeeps
<1>3. ASSUME NEW r \in Rpc, Http!Calls(r) PROVE HttpInv'
  <2>1. PICK req \in HttpAsk[r], close \in BOOLEAN : Http!Call(r, req, close)
    BY <1>3 DEF Http!Calls
  <2> QED
    BY <2>1, CallKeeps
<1>4. ASSUME NEW r \in Rpc, Http!ClientStep(r) PROVE HttpInv'
  <2>1. /\ client = "open"
        /\ Http!TakeTicket(r) \/ Http!SendRequest(r) \/ Http!ReceiveResponse(r) \/ Http!ReceiveEnd(r)
    BY <1>4 DEF Http!ClientStep
  <2> QED
    BY <2>1, TakeTicketKeeps, SendRequestKeeps, ReceiveResponseKeeps, ReceiveEndKeeps
<1>5. CASE UNCHANGED Http!vars
  <2>1. UNCHANGED <<conn_pc, asked, got, writers, readers, sent, cin, handled, conn_server, sends,
                    written, sin, db, c2s, s2c, client>>
    BY <1>5 DEF Http!vars, Http!clientVars, Http!serverVars
  <2>2. HttpTypes /\ Locks /\ HandledOk /\ FailedOk /\ PipeOk /\ NotesOk
    BY DEF HttpInv
  <2>3. HttpTypes' /\ Locks'
    BY <2>1, <2>2 DEF HttpTypes, Locks, CallerOk
  <2>4. HandledOk' /\ FailedOk'
    BY <2>1, <2>2 DEF HandledOk, HandledOf, FailedOk, CallOf
  <2>5. NotesOk'
    BY <2>1, <2>2, NotesSame
  <2>6. PipeOk'
    <3>1. CallsStay /\ (Sending' <=> Sending)
      BY <2>1 DEF CallsStay, CallOf, Sending
    <3> QED
      BY <2>1, <2>2, <3>1, PipeSame
  <2> QED
    BY <2>3, <2>4, <2>5, <2>6 DEF HttpInv
<1> QED
  BY <1>1, <1>2, <1>3, <1>4, <1>5 DEF Http!Next

\* What is checked follows.
LEMMA HttpInvImplies ==
  ASSUME HttpInv
  PROVE  Http!Paired /\ Http!FailsUnhandled /\ Http!SameNote
<1>0. HttpTypes /\ Locks /\ HandledOk /\ FailedOk /\ PipeOk /\ NotesOk
  BY DEF HttpInv
<1>1. \A r \in Rpc : DOMAIN got[r] = 1 .. Len(got[r])
  BY <1>0 DEF HttpTypes
<1>2. Http!Paired
  BY <1>0, <1>1 DEF Http!Paired, Locks, CallerOk
<1>3. Http!FailsUnhandled
  BY <1>0 DEF Http!FailsUnhandled, FailedOk, CallOf
<1>4. Http!SameNote
  <2>1. PICK author \in Authors : NotesBy(author)
    BY <1>0 DEF NotesOk
  <2>2. \A r \in Rpc : \A k \in DOMAIN got[r] : \A id \in DOMAIN got[r][k].notes :
          got[r][k].notes[id].by = author[id]
    BY <1>1, <2>1 DEF NotesBy, By
  <2> QED
    BY <2>2 DEF Http!SameNote
<1> QED
  BY <1>2, <1>3, <1>4

-----------------------------------------------------------------------------
(***************************************************************************)
(* The notes over UDP.  Of each call one datagram at most is on its way,   *)
(* the request or its reply, or the server has it; a client that waits for *)
(* nothing has none.  So the reply that comes is the one that was asked.   *)
(***************************************************************************)

\* p waits for a reply; its request; and a reply to it.
InCall(p) == waiting[p] # Udp!NoRequest
Datagram(p) == [from |-> p, to |-> Home[p], req |-> waiting[p]]
TagHandled(tag) == \E h \in udp_handled : h.tag = tag
IsReply(d, p) ==
  /\ InCall(p) /\ d = [to |-> p, tag |-> waiting[p].tag, response |-> d.response]
  /\ [tag |-> waiting[p].tag, response |-> d.response] \in udp_handled
IsRequest(d, p) == InCall(p) /\ d = Datagram(p) /\ ~TagHandled(waiting[p].tag)

UdpTypes ==
  /\ udp_calls \in [Peer -> Nat] /\ waiting = [p \in Peer |-> waiting[p]]
  /\ serving = [s \in Socket |-> serving[s]]

\* A client's request has a new tag; and what is on its way is its request, or the reply to it,
\* once.
TagsOk == \A p \in Peer : InCall(p) => waiting[p].tag = <<p, udp_calls[p]>>
AirOk == \A d \in air : \E p \in Peer : IsRequest(d, p) \/ IsReply(d, p)
ServingOk ==
  \A s \in Socket : serving[s] # Udp!NoReply =>
    serving[s] \notin air /\ \E p \in Peer : IsReply(serving[s], p) /\ s = Home[p]

\* Each request was handled once at most, and none before it was asked.
HandledOnce == \A h, k \in udp_handled : h.tag = k.tag => h = k
HandledAsked == \A h \in udp_handled : \E p \in Peer, k \in Nat : h.tag = <<p, k>> /\ k <= udp_calls[p]
AnswersOk ==
  \A a \in answers : a.tag = a.reply.tag /\ [tag |-> a.tag, response |-> a.reply.response] \in udp_handled

UdpInv == UdpTypes /\ TagsOk /\ AirOk /\ ServingOk /\ HandledOnce /\ HandledAsked /\ AnswersOk

\* The invariant holds when the clients and the server start.
LEMMA UdpInit == Udp!Init => UdpInv
<1> SUFFICES ASSUME Udp!Init PROVE UdpInv
  OBVIOUS
<1>1. UdpTypes
  BY DEF Udp!Init, UdpTypes
<1>2. TagsOk /\ AirOk /\ ServingOk /\ HandledOnce /\ HandledAsked /\ AnswersOk
  BY DEF Udp!Init, TagsOk, InCall, AirOk, ServingOk, HandledOnce, HandledAsked, AnswersOk
<1> QED
  BY <1>1, <1>2 DEF UdpInv

\* Replies to a client that waits are the same.
LEMMA OneReply ==
  ASSUME HandledOnce, NEW p, NEW d, NEW e, IsReply(d, p), IsReply(e, p)
  PROVE  d = e
<1>1. d.response = e.response
  <2> DEFINE h == [tag |-> waiting[p].tag, response |-> d.response]
             k == [tag |-> waiting[p].tag, response |-> e.response]
  <2>1. h \in udp_handled /\ k \in udp_handled /\ h.tag = k.tag
    BY DEF IsReply
  <2>2. h = k
    BY <2>1 DEF HandledOnce
  <2>3. h.response = d.response /\ k.response = e.response
    OBVIOUS
  <2> QED
    BY <2>2, <2>3
<1> QED
  BY <1>1 DEF IsReply

\* What is on its way to or from a client that does not wait: nothing.
LEMMA WhoseDatagram ==
  ASSUME NEW d, NEW p \in Peer
  PROVE  /\ IsReply(d, p) => d.to = p /\ d.to \notin Socket /\ TagHandled(waiting[p].tag)
         /\ IsRequest(d, p) => d.to = Home[p] /\ d.to \in Socket /\ d.from = p /\ d.req = waiting[p]
                          /\ d.to \notin Peer
<1>1. ASSUME IsReply(d, p)
      PROVE  d.to = p /\ d.to \notin Socket /\ TagHandled(waiting[p].tag)
  <2>1. d.to = p
    BY <1>1 DEF IsReply
  <2>2. TagHandled(waiting[p].tag)
    <3> DEFINE h == [tag |-> waiting[p].tag, response |-> d.response]
    <3>1. h \in udp_handled /\ h.tag = waiting[p].tag
      BY <1>1 DEF IsReply
    <3> QED
      BY <3>1 DEF TagHandled
  <2> QED
    BY <2>1, <2>2, NotesAssumption
<1>2. ASSUME IsRequest(d, p)
      PROVE  d.to = Home[p] /\ d.to \in Socket /\ d.from = p /\ d.req = waiting[p] /\ d.to \notin Peer
  <2>1. d = [from |-> p, to |-> Home[p], req |-> waiting[p]]
    BY <1>2 DEF IsRequest, Datagram
  <2>2. Home[p] \in Socket /\ Home[p] \notin Peer
    BY NotesAssumption
  <2> QED
    BY <2>1, <2>2
<1> QED
  BY <1>1, <1>2

\* rpc() sends a request: nothing else of its client is on its way.
LEMMA UdpRequestKeeps ==
  ASSUME UdpInv, NEW p \in Peer, NEW ask \in UdpAsk, Udp!Request(p, ask)
  PROVE  UdpInv'
<1> USE DEF UdpInv
<1>r. PICK req : req = [ask |-> ask, tag |-> <<p, udp_calls[p] + 1>>]
  OBVIOUS
<1>d. PICK new : new = [from |-> p, to |-> Home[p], req |-> req]
  OBVIOUS
<1>1. /\ ~InCall(p) /\ udp_calls' = [udp_calls EXCEPT ![p] = udp_calls[p] + 1]
      /\ waiting' = [waiting EXCEPT ![p] = req] /\ air' = air \cup {new}
      /\ UNCHANGED <<answers, serving, udp_handled, lost, udp_db>>
  <2>1. udp_calls' = [udp_calls EXCEPT ![p] = udp_calls[p] + 1] /\ udp_calls'[p] = udp_calls[p] + 1
    BY DEF Udp!Request, UdpTypes
  <2> QED
    BY <1>r, <1>d, <2>1 DEF Udp!Request, InCall
<1>2. UdpTypes'
  BY <1>1 DEF UdpTypes
<1>3. /\ waiting'[p] = req /\ udp_calls'[p] = udp_calls[p] + 1 /\ udp_calls[p] \in Nat
      /\ \A q \in Peer : q # p => waiting'[q] = waiting[q] /\ udp_calls'[q] = udp_calls[q]
  BY <1>1 DEF UdpTypes
<1>4. InCall(p)' /\ req.tag = <<p, udp_calls[p] + 1>>
  <2>1. req.tag = <<p, udp_calls[p] + 1>>
    BY <1>r
  <2>2. Udp!NoRequest.tag = <<>>
    BY DEF Udp!NoRequest
  <2>3. <<p, udp_calls[p] + 1>> # <<>>
    OBVIOUS
  <2> QED
    BY <1>3, <2>1, <2>2, <2>3 DEF InCall, Udp!NoRequest
<1>5. \A q \in Peer : \A d : IsReply(d, q) => q # p /\ IsReply(d, q)'
  BY <1>1, <1>3 DEF IsReply, InCall
<1>6. \A q \in Peer : \A d : IsRequest(d, q) => q # p /\ IsRequest(d, q)'
  BY <1>1, <1>3 DEF IsRequest, Datagram, InCall, TagHandled
<1>7. TagsOk'
  BY <1>3, <1>4 DEF TagsOk, InCall
<1>8. HandledAsked'
  <2> SUFFICES ASSUME NEW h \in udp_handled
               PROVE  \E q \in Peer, k \in Nat : h.tag = <<q, k>> /\ k <= udp_calls'[q]
    BY <1>1 DEF HandledAsked
  <2>1. PICK q \in Peer, k \in Nat : h.tag = <<q, k>> /\ k <= udp_calls[q]
    BY DEF HandledAsked
  <2>2. k <= udp_calls'[q]
    <3>1. udp_calls[q] \in Nat
      BY DEF UdpTypes
    <3> QED
      BY <1>3, <2>1, <3>1
  <2> QED
    BY <2>1, <2>2
<1>9. IsRequest(new, p)'
  <2>1. ~TagHandled(req.tag)
    <3> SUFFICES ASSUME NEW h \in udp_handled, h.tag = <<p, udp_calls[p] + 1>> PROVE FALSE
      BY <1>4 DEF TagHandled
    <3>1. PICK q \in Peer, k \in Nat : h.tag = <<q, k>> /\ k <= udp_calls[q]
      BY DEF HandledAsked
    <3>2. q = p /\ k = udp_calls[p] + 1
      BY <3>1
    <3> QED
      BY <1>3, <3>1, <3>2
  <2> QED
    BY <1>1, <1>3, <1>4, <1>d, <2>1 DEF IsRequest, Datagram, TagHandled
<1>10. AirOk'
  <2> SUFFICES ASSUME NEW d \in air' PROVE \E q \in Peer : IsRequest(d, q)' \/ IsReply(d, q)'
    BY DEF AirOk
  <2>1. CASE d = new
    BY <1>9, <2>1
  <2>2. CASE d \in air
    BY <1>5, <1>6, <2>2 DEF AirOk
  <2> QED
    BY <1>1, <2>1, <2>2
<1>11. ServingOk'
  <2> SUFFICES ASSUME NEW s \in Socket, serving[s] # Udp!NoReply
               PROVE  serving[s] \notin air' /\ \E q \in Peer : IsReply(serving[s], q)' /\ s = Home[q]
    BY <1>1 DEF ServingOk
  <2>1. serving[s] \notin air
    BY DEF ServingOk
  <2>2. PICK q \in Peer : IsReply(serving[s], q) /\ s = Home[q]
    BY DEF ServingOk
  <2>3. serving[s].to \notin Socket
    BY <2>2, WhoseDatagram
  <2>4. new.to \in Socket
    BY <1>d, NotesAssumption
  <2>5. IsReply(serving[s], q)'
    <3>1. \A d : IsReply(d, q) => IsReply(d, q)'
      BY <1>5
    <3>2. serving' = serving
      BY <1>1
    <3> QED
      BY <1>1, <1>3, <1>5, <2>2 DEF IsReply, InCall
  <2> QED
    BY <1>1, <2>1, <2>2, <2>3, <2>4, <2>5
<1>12. HandledOnce' /\ AnswersOk'
  BY <1>1 DEF HandledOnce, AnswersOk
<1> QED
  BY <1>2, <1>7, <1>8, <1>10, <1>11, <1>12

\* A datagram is lost.
LEMMA LoseKeeps ==
  ASSUME UdpInv, NEW d \in air, Udp!Lose(d)
  PROVE  UdpInv'
<1> USE DEF UdpInv
<1>1. /\ air' = air \ {d}
      /\ UNCHANGED <<udp_calls, waiting, answers, serving, udp_handled, udp_db>>
  BY DEF Udp!Lose, Udp!peerVars
<1>2. \A p, e : (IsRequest(e, p)' <=> IsRequest(e, p)) /\ (IsReply(e, p)' <=> IsReply(e, p))
  BY <1>1 DEF IsRequest, IsReply, Datagram, InCall, TagHandled
<1>3. UdpTypes' /\ TagsOk' /\ HandledOnce' /\ HandledAsked' /\ AnswersOk'
  BY <1>1 DEF UdpTypes, TagsOk, InCall, HandledOnce, HandledAsked, AnswersOk
<1>4. AirOk'
  BY <1>1, <1>2 DEF AirOk
<1>5. ServingOk'
  BY <1>1 DEF ServingOk, IsReply, InCall
<1> QED
  BY <1>3, <1>4, <1>5

\* sendto sends the reply or loses it.
LEMMA ReplyKeeps ==
  ASSUME UdpInv, NEW s \in Socket, Udp!Reply(s)
  PROVE  UdpInv'
<1> USE DEF UdpInv
<1>r. PICK r : r = serving[s]
  OBVIOUS
<1>1. /\ r # Udp!NoReply /\ serving' = [serving EXCEPT ![s] = Udp!NoReply]
      /\ air' = air \cup {r} \/ air' = air
      /\ UNCHANGED <<udp_calls, waiting, answers, udp_handled, udp_db>>
  BY <1>r DEF Udp!Reply, Udp!peerVars
<1>2. serving'[s] = Udp!NoReply /\ \A t \in Socket : t # s => serving'[t] = serving[t]
  BY <1>1 DEF UdpTypes
<1>3. \A p, e : (IsRequest(e, p)' <=> IsRequest(e, p)) /\ (IsReply(e, p)' <=> IsReply(e, p))
  BY <1>1 DEF IsRequest, IsReply, Datagram, InCall, TagHandled
<1>4. UdpTypes'
  BY <1>1 DEF UdpTypes
<1>5. TagsOk' /\ HandledOnce' /\ HandledAsked' /\ AnswersOk'
  BY <1>1 DEF TagsOk, InCall, HandledOnce, HandledAsked, AnswersOk
<1>6. PICK p \in Peer : IsReply(r, p) /\ s = Home[p]
  BY <1>r, <1>1 DEF ServingOk
<1>7. AirOk'
  <2> SUFFICES ASSUME NEW d \in air' PROVE \E q \in Peer : IsRequest(d, q)' \/ IsReply(d, q)'
    BY DEF AirOk
  <2>1. CASE d = r
    BY <1>3, <1>6, <2>1
  <2>2. CASE d \in air
    BY <1>3, <2>2 DEF AirOk
  <2> QED
    BY <1>1, <2>1, <2>2
<1>8. ServingOk'
  <2> SUFFICES ASSUME NEW t \in Socket, serving'[t] # Udp!NoReply
               PROVE  /\ serving'[t] \notin air'
                      /\ \E q \in Peer : IsReply(serving[t], q)' /\ t = Home[q]
    BY DEF ServingOk
  <2>1. t # s /\ serving'[t] = serving[t]
    BY <1>2
  <2>2. serving[t] \notin air
    BY <2>1 DEF ServingOk
  <2>3. PICK q \in Peer : IsReply(serving[t], q) /\ t = Home[q]
    BY <2>1 DEF ServingOk
  <2>4. serving[t] # r
    <3>1. r.to = p /\ serving[t].to = q /\ p # q
      BY <1>6, <2>1, <2>3, WhoseDatagram
    <3> QED
      BY <3>1
  <2>5. IsReply(serving[t], q)'
    <3>1. IsReply(serving'[t], q)
      BY <2>1, <2>3
    <3> QED
      BY <1>1, <3>1 DEF IsReply, InCall
  <2> QED
    BY <1>1, <2>1, <2>2, <2>3, <2>4, <2>5
<1> QED
  BY <1>4, <1>5, <1>7, <1>8

\* The server takes a request, which nobody has handled, and starts to reply.
LEMMA ServeKeeps ==
  ASSUME UdpInv, NEW d \in air, NEW s \in Socket, Udp!Serve(s, d)
  PROVE  UdpInv'
<1> USE DEF UdpInv
<1>x. PICK x : x = Udp!Processed(d.req).response
  OBVIOUS
<1>r. PICK r : r = [to |-> d.from, tag |-> d.req.tag, response |-> x]
  OBVIOUS
<1>h. PICK h : h = [tag |-> d.req.tag, response |-> x]
  OBVIOUS
<1>1. /\ d.to = s /\ serving[s] = Udp!NoReply /\ serving' = [serving EXCEPT ![s] = r]
      /\ udp_handled' = udp_handled \cup {h} /\ air' = air \ {d}
      /\ UNCHANGED <<udp_calls, waiting, answers>>
  BY <1>x, <1>r, <1>h DEF Udp!Serve, Udp!Source, Udp!peerVars
<1>2. serving'[s] = r /\ \A t \in Socket : t # s => serving'[t] = serving[t]
  BY <1>1 DEF UdpTypes
<1>3. PICK p \in Peer : IsRequest(d, p)
  <2>1. PICK p \in Peer : IsRequest(d, p) \/ IsReply(d, p)
    BY DEF AirOk
  <2>2. ~IsReply(d, p)
    BY <1>1, WhoseDatagram
  <2> QED
    BY <2>1, <2>2
<1>4. /\ InCall(p) /\ s = Home[p] /\ d.from = p /\ d.req = waiting[p] /\ ~TagHandled(waiting[p].tag)
      /\ waiting[p].tag = <<p, udp_calls[p]>>
  BY <1>1, <1>3, WhoseDatagram DEF IsRequest, TagsOk
<1>5. /\ r = [to |-> p, tag |-> waiting[p].tag, response |-> x]
      /\ h = [tag |-> waiting[p].tag, response |-> x] /\ r.response = x /\ h.tag = waiting[p].tag
      /\ h.response = x /\ r.to = p
  BY <1>4, <1>r, <1>h
<1>6. \A q, e : IsReply(e, q) => IsReply(e, q)'
  BY <1>1 DEF IsReply, InCall
<1>7. IsReply(r, p)'
  BY <1>1, <1>4, <1>5 DEF IsReply, InCall
<1>8. ASSUME NEW q \in Peer, NEW e, IsRequest(e, q), e # d PROVE IsRequest(e, q)'
  <2>1. q # p
    BY <1>3, <1>8 DEF IsRequest
  <2>2. waiting[q].tag # waiting[p].tag
    BY <1>4, <1>8, <2>1 DEF TagsOk, IsRequest
  <2> QED
    BY <1>1, <1>5, <1>8, <2>2 DEF IsRequest, Datagram, InCall, TagHandled
<1>9. UdpTypes'
  BY <1>1 DEF UdpTypes
<1>10. TagsOk'
  BY <1>1 DEF TagsOk, InCall
<1>11. HandledOnce'
  <2>1. \A k \in udp_handled : k.tag # h.tag
    BY <1>4, <1>5 DEF TagHandled
  <2> QED
    BY <1>1, <2>1 DEF HandledOnce
<1>12. HandledAsked'
  <2>1. udp_calls[p] \in Nat /\ h.tag = <<p, udp_calls[p]>>
    BY <1>4, <1>5 DEF UdpTypes
  <2> QED
    BY <1>1, <2>1 DEF HandledAsked
<1>13. AnswersOk'
  BY <1>1 DEF AnswersOk
<1>14. AirOk'
  <2> SUFFICES ASSUME NEW e \in air, e # d PROVE \E q \in Peer : IsRequest(e, q)' \/ IsReply(e, q)'
    BY <1>1 DEF AirOk
  <2> QED
    BY <1>6, <1>8 DEF AirOk
<1>15. r \notin air
  <2> SUFFICES ASSUME r \in air PROVE FALSE
    OBVIOUS
  <2>1. PICK q \in Peer : IsRequest(r, q) \/ IsReply(r, q)
    BY DEF AirOk
  <2>2. r.to = p /\ p \notin Socket
    BY <1>5, NotesAssumption
  <2>3. IsReply(r, q) /\ q = p
    BY <2>1, <2>2, WhoseDatagram
  <2> QED
    BY <1>4, <2>3, WhoseDatagram
<1>16. ServingOk'
  <2> SUFFICES ASSUME NEW t \in Socket, serving'[t] # Udp!NoReply
               PROVE  /\ serving'[t] \notin air'
                      /\ \E q \in Peer : IsReply(serving[t], q)' /\ t = Home[q]
    BY DEF ServingOk
  <2>1. CASE t = s
    <3>1. serving'[t] = r
      BY <1>2, <2>1
    <3> QED
      BY <1>1, <1>4, <1>7, <1>15, <2>1, <3>1
  <2>2. CASE t # s
    <3>1. serving'[t] = serving[t]
      BY <1>2, <2>2
    <3>2. serving[t] \notin air
      BY <3>1 DEF ServingOk
    <3>3. PICK q \in Peer : IsReply(serving[t], q) /\ t = Home[q]
      BY <3>1 DEF ServingOk
    <3>4. IsReply(serving[t], q)'
      <4>1. IsReply(serving'[t], q)
        BY <3>1, <3>3
      <4> QED
        BY <1>1, <4>1 DEF IsReply, InCall
    <3> QED
      BY <1>1, <3>1, <3>2, <3>3, <3>4
  <2> QED
    BY <2>1, <2>2
<1> QED
  BY <1>9, <1>10, <1>11, <1>12, <1>13, <1>14, <1>16

\* recv takes the reply: the only datagram of its client.
LEMMA ReceiveKeeps ==
  ASSUME UdpInv, NEW d \in air, NEW p \in Peer, Udp!Receive(p, d)
  PROVE  UdpInv'
<1> USE DEF UdpInv
<1>a. PICK a : a = [tag |-> waiting[p].tag, reply |-> d]
  OBVIOUS
<1>1. /\ d.to = p /\ InCall(p) /\ answers' = answers \cup {a}
      /\ waiting' = [waiting EXCEPT ![p] = Udp!NoRequest] /\ air' = air \ {d}
      /\ UNCHANGED <<udp_calls, serving, udp_handled, udp_db>>
  BY <1>a DEF Udp!Receive, InCall
<1>2. waiting'[p] = Udp!NoRequest /\ \A q \in Peer : q # p => waiting'[q] = waiting[q]
  BY <1>1 DEF UdpTypes
<1>3. IsReply(d, p)
  <2>1. PICK q \in Peer : IsRequest(d, q) \/ IsReply(d, q)
    BY DEF AirOk
  <2> QED
    BY <1>1, <2>1, WhoseDatagram
<1>4. ASSUME NEW e, NEW q \in Peer, q # p
      PROVE  (IsReply(e, q) => IsReply(e, q)') /\ (IsRequest(e, q) => IsRequest(e, q)')
  BY <1>1, <1>2, <1>4 DEF IsReply, IsRequest, Datagram, InCall, TagHandled
<1>5. UdpTypes'
  BY <1>1 DEF UdpTypes
<1>6. TagsOk'
  BY <1>1, <1>2 DEF TagsOk, InCall
<1>7. HandledOnce' /\ HandledAsked'
  BY <1>1 DEF HandledOnce, HandledAsked
<1>8. AnswersOk'
  <2>1. d.tag = waiting[p].tag /\ [tag |-> waiting[p].tag, response |-> d.response] \in udp_handled
    <3>1. d = [to |-> p, tag |-> waiting[p].tag, response |-> d.response]
      BY <1>3 DEF IsReply
    <3>2. [to |-> p, tag |-> waiting[p].tag, response |-> d.response].tag = waiting[p].tag
      OBVIOUS
    <3> QED
      BY <1>3, <3>1, <3>2 DEF IsReply
  <2>2. a.tag = waiting[p].tag /\ a.reply = d
    BY <1>a
  <2> QED
    BY <1>1, <2>1, <2>2 DEF AnswersOk
<1>9. AirOk'
  <2> SUFFICES ASSUME NEW e \in air, e # d PROVE \E q \in Peer : IsRequest(e, q)' \/ IsReply(e, q)'
    BY <1>1 DEF AirOk
  <2>1. PICK q \in Peer : IsRequest(e, q) \/ IsReply(e, q)
    BY DEF AirOk
  <2>2. q # p
    <3>1. ASSUME q = p, IsRequest(e, p) PROVE FALSE
      BY <1>3, <3>1, WhoseDatagram DEF IsRequest
    <3>2. ASSUME q = p, IsReply(e, p) PROVE FALSE
      BY <1>3, <3>2, OneReply
    <3> QED
      BY <2>1, <3>1, <3>2
  <2> QED
    BY <1>4, <2>1, <2>2
<1>10. ServingOk'
  <2> SUFFICES ASSUME NEW t \in Socket, serving[t] # Udp!NoReply
               PROVE  serving[t] \notin air' /\ \E q \in Peer : IsReply(serving[t], q)' /\ t = Home[q]
    BY <1>1 DEF ServingOk
  <2>1. serving[t] \notin air
    BY DEF ServingOk
  <2>2. PICK q \in Peer : IsReply(serving[t], q) /\ t = Home[q]
    BY DEF ServingOk
  <2>3. q # p
    BY <1>3, <2>1, <2>2, OneReply
  <2>4. IsReply(serving[t], q)'
    BY <1>1, <1>2, <2>2, <2>3 DEF IsReply, InCall
  <2> QED
    BY <1>1, <2>1, <2>2, <2>4
<1> QED
  BY <1>5, <1>6, <1>7, <1>8, <1>9, <1>10

\* Every step of the UDP server and its clients keeps the invariant.
LEMMA UdpStep == UdpInv /\ [Udp!Next]_Udp!vars => UdpInv'
<1> SUFFICES ASSUME UdpInv, [Udp!Next]_Udp!vars PROVE UdpInv'
  OBVIOUS
<1>1. CASE UNCHANGED Udp!vars
  <2>1. UNCHANGED <<udp_calls, waiting, answers, air, serving, udp_handled>>
    BY <1>1 DEF Udp!vars, Udp!peerVars
  <2>2. UdpTypes' /\ TagsOk' /\ HandledOnce' /\ HandledAsked' /\ AnswersOk'
    BY <2>1 DEF UdpInv, UdpTypes, TagsOk, InCall, HandledOnce, HandledAsked, AnswersOk
  <2>3. \A p, e : (IsRequest(e, p)' <=> IsRequest(e, p)) /\ (IsReply(e, p)' <=> IsReply(e, p))
    BY <2>1 DEF IsRequest, IsReply, Datagram, InCall, TagHandled
  <2>4. AirOk'
    BY <2>1, <2>3 DEF UdpInv, AirOk
  <2>5. ServingOk'
    BY <2>1 DEF UdpInv, ServingOk, IsReply, InCall
  <2> QED
    BY <2>2, <2>4, <2>5 DEF UdpInv
<1>2. CASE Udp!Next
  BY <1>2, UdpRequestKeeps, LoseKeeps, ServeKeeps, ReceiveKeeps, ReplyKeeps DEF Udp!Next
<1> QED
  BY <1>1, <1>2

\* What is checked follows.
LEMMA UdpInvImplies == UdpInv => Udp!UdpPaired
BY DEF UdpInv, AnswersOk, HandledOnce, Udp!UdpPaired

-----------------------------------------------------------------------------
(***************************************************************************)
(* What the note server's clients rely on, over HTTP and over UDP.         *)
(***************************************************************************)
\* The inductive invariant of a connection, which says whose the requests and the responses in
\* both sockets and both buffers are, holds always.
THEOREM HttpInvariance == Http!Spec => []HttpInv
<1>1. Http!Init => HttpInv
  BY HttpInit
<1>2. HttpInv /\ [Http!Next]_Http!vars => HttpInv'
  BY HttpStep
<1> QED
  BY <1>1, <1>2, PTL DEF Http!Spec

\* The inductive invariant of the UDP server, which says that at most one datagram of each
\* client's call is on its way, holds always.
THEOREM UdpInvariance == Udp!Spec => []UdpInv
<1>1. Udp!Init => UdpInv
  BY UdpInit
<1>2. UdpInv /\ [Udp!Next]_Udp!vars => UdpInv'
  BY UdpStep
<1> QED
  BY <1>1, <1>2, PTL DEF Udp!Spec

\* jsond.cc, jsond-client.cc, udp-jsond.cc: each response goes to the caller that asked, a call
\* that fails was not handled, an id that was given out never stands for another note, and a
\* UDP client takes a reply only for the request that it answers.
THEOREM PairedHolds == Http!Spec /\ Udp!Spec => []Paired
<1>1. HttpInv /\ UdpInv => Paired
  BY HttpInvImplies, UdpInvImplies DEF Paired
<1> QED
  BY <1>1, HttpInvariance, UdpInvariance, PTL
=============================================================================
