---------------------------- MODULE TaskResolve ----------------------------
(***************************************************************************)
(* Tasks of one driver: co_await of tasks, resolution points               *)
(* (co_await resolve{}), forward(), attempt() and first(), as              *)
(* task_promise_base and the awaiters of cotamer_impl.hh do them.          *)
(*                                                                         *)
(* A task that changes something outside itself, such as a receive() that  *)
(* takes a message, stops at a resolution point until somebody is certain  *)
(* to use its value.  Tasks form a tree: a Source is a netsim              *)
(* receive_with_id(), a Wrap awaits its child, plainly or with forward(),  *)
(* a Race is attempt() or first() over its children, and the Root awaits   *)
(* one of its children, then any of them again.                            *)
(*                                                                         *)
(* There is one thread.  stack is its C++ stack: <<"run", t>> a coroutine  *)
(* that executes, and three places inside t.resolve(): "loop" at the top   *)
(* of its loop, "fwd" in the call for the forwarded task, "after" in the   *)
(* call of the coroutine.  ret is what the last resolve() returned.        *)
(* Detached tasks and other drivers are not here.                          *)
(***************************************************************************)
EXTENDS Integers, Sequences, FiniteSets, SequencesExt

CONSTANTS
  Source, Wrap, Race, Root,
  Kids,           \* Kids[t]: the children of t, in order
  Forwarding,     \* the wraps that say forward(child)
  Cancellable,    \* the races that have an event next to their tasks
  Port, PortOf,   \* PortOf[s]: the port that source s receives from
  MaxItems, MaxTimeouts

Task == Source \cup Wrap \cup Race \cup {Root}

Parent(t) == CHOOSE u \in Task : t \in ToSet(Kids[u])

\* t and everything its frame owns: what is in every set that has t and its members' children.
Below ==
  [t \in Task |-> {x \in Task : \A S \in SUBSET Task :
     t \in S /\ (\A u \in S : ToSet(Kids[u]) \subseteq S) => x \in S}]

\* The frames own each other as a tree; sources own nothing, and the root owns all.
ASSUME TreeAssumption ==
  /\ Root \notin Source \cup Wrap \cup Race
  /\ Source \cap Wrap = {} /\ Source \cap Race = {} /\ Wrap \cap Race = {}
  /\ Kids \in [Task -> Seq(Task \ {Root})] /\ \A s \in Source : Kids[s] = <<>>
  /\ \A t, u \in Task : \A i \in 1 .. Len(Kids[t]), j \in 1 .. Len(Kids[u]) :
       Kids[t][i] = Kids[u][j] => t = u /\ i = j
  /\ Below[Root] = Task
  /\ Forwarding \subseteq Wrap /\ Cancellable \subseteq Race
  /\ PortOf \in [Source -> Port] /\ MaxItems \in Nat /\ MaxTimeouts \in Nat

\* What the program has to keep to.  A wrap under attempt() or first() says forward(), or it
\* would be resumed where it is not certain of being used.  And a task that forwards does not
\* forward one that forwards, unless under a race: prepare_awaiter takes an awaitee that is
\* resolving for one that is blocked at a resolution point, which it need not be when it has
\* only passed on another's.
ASSUME ForwardAssumption ==
  /\ \A r \in Race : Below[r] \cap Wrap \subseteq Forwarding
  /\ \A t \in Forwarding : \A i \in 1 .. Len(Kids[t]) :
       Kids[t][i] \in Forwarding => \E r \in Race : t \in Below[r]

VARIABLES
  task,       \* task[t]: the promise of t and where its coroutine is
  queue,      \* queue[p]: the port's messages
  stack, ret,
  cancelled,  \* the races whose event has triggered
  sent, timeouts,
  consumed    \* the messages that the root or a rival was given

vars == <<task, queue, stack, ret, cancelled, sent, timeouts, consumed>>

\* "none" is no coroutine; asleep, woken, resolve and child are suspensions.
Absent == [at |-> "none", resolving |-> FALSE, forwarded |-> FALSE, driven |-> FALSE,
           awaiter |-> "none", forward |-> FALSE, value |-> 0, index |-> 1]
Fresh == [Absent EXCEPT !.at = "start"]

Init ==
  /\ task = [t \in Task |-> IF t = Root THEN Fresh ELSE Absent]
  /\ queue = [p \in Port |-> <<>>]
  /\ stack = <<<<"run", Root>>>> /\ ret = FALSE
  /\ cancelled = {} /\ sent = 0 /\ timeouts = 0 /\ consumed = {}

-----------------------------------------------------------------------------
\* The child that t awaits.
Child(t) == Kids[t][task[t].index]

Running(t, at) == stack # <<>> /\ Head(stack) = <<"run", t>> /\ task[t].at = at
In(place, t) == stack # <<>> /\ Head(stack) = <<place, t>>
Run(t) == <<"run", t>>
\* The innermost frame becomes the given ones.
Become(frames) == stack' = frames \o Tail(stack)

\* The task that awaits x forwards its resolution points.
Forwards(T, x) == T[x].awaiter = "task" /\ T[Parent(x)].forward
\* t, and up the tree each task that awaits and forwards another of them.
Forwarders(T, t) ==
  {x \in Task : t \in Below[x] /\ \A y \in Below[x] \ {x} : t \in Below[y] => Forwards(T, y)}

\* active_awaiter: the first awaiter up the tree that forwards nothing.
Active(T, t) == \A x \in Forwarders(T, t) : T[x].awaiter = "task"

\* Wrong: a resolution point is told to the next task only.
WrongResolvable(T, t) ==
  LET r == IF T[t].awaiter = "event" THEN {Parent(t)} ELSE {}
  IN [x \in Task |-> [T[x] EXCEPT !.resolving = @ \/ x = t,
                                  !.at = IF x \in r /\ @ = "asleep" THEN "woken" ELSE @]]

\* resolution_point: t is resolvable, and so is each that forwards it; a race is woken.
Resolvable(T, t) ==
  LET chain == Forwarders(T, t)
      woken == {Parent(x) : x \in {y \in chain : T[y].awaiter = "event"}} \cap Race
  IN [x \in Task |-> [T[x] EXCEPT !.resolving = @ \/ x \in chain,
                                  !.at = IF x \in woken /\ @ = "asleep" THEN "woken" ELSE @]]

\* ~task of the tasks in S and of all their frames own.
Without(T, S) ==
  LET gone == UNION {Below[t] : t \in S} IN [x \in Task |-> IF x \in gone THEN Absent ELSE T[x]]

\* Where a coroutine goes on when it is resumed.
Onward(t, at) ==
  CASE at = "child" -> "got"
    [] at = "resolve" -> IF t \in Race THEN "find" ELSE "take"
    [] OTHER -> at
Resumed(T, t) == [T EXCEPT ![t].at = Onward(t, @)]

\* Wrong: the task does not wait to be awaited.
WrongAwaitResolve(t) == task' = [task EXCEPT ![t].at = Onward(t, "resolve")] /\ UNCHANGED stack

\* co_await resolve{}: the task goes on if its value is awaited by somebody active.
AwaitResolve(t) ==
  IF Active(task, t)
  THEN task' = [task EXCEPT ![t].at = Onward(t, "resolve")] /\ UNCHANGED stack
  ELSE /\ task' = Resolvable([task EXCEPT ![t].at = "resolve"], t)
       /\ Become(<<>>)

\* Wrong: the awaiter goes on although resolve() will resume it.
WrongFinish(T, t, v) ==
  LET done == Resolvable([T EXCEPT ![t].at = "done", ![t].value = v], t) IN
  IF T[t].awaiter = "task"
  THEN task' = Resumed(done, Parent(t)) /\ Become(<<Run(Parent(t))>>)
  ELSE task' = done /\ Become(<<>>)

\* co_return and final_suspend in the state T: the awaiter goes on, unless resolve() drives t.
Finish(T, t, v) ==
  LET done == Resolvable([T EXCEPT ![t].at = "done", ![t].value = v], t) IN
  IF T[t].awaiter = "task" /\ ~T[t].driven
  THEN task' = Resumed(done, Parent(t)) /\ Become(<<Run(Parent(t))>>)
  ELSE task' = done /\ Become(<<>>)

\* A coroutine runs as soon as it is called.
Call(T, t, c) == task' = [T EXCEPT ![c] = Fresh] /\ Become(<<Run(c), Run(t)>>)

-----------------------------------------------------------------------------
\* receive_with_id: wait for a message, then for somebody to give it to.
Look(s) ==
  /\ s \in Source /\ (Running(s, "start") \/ Running(s, "look"))
  /\ IF queue[PortOf[s]] = <<>>
     THEN task' = [task EXCEPT ![s].at = "asleep"] /\ Become(<<>>)
     ELSE AwaitResolve(s)
  /\ UNCHANGED <<queue, ret, cancelled, sent, timeouts, consumed>>

Take(s) ==
  /\ Running(s, "take")
  /\ IF queue[PortOf[s]] = <<>>
     THEN task' = [task EXCEPT ![s].at = "look"] /\ UNCHANGED <<stack, queue>>
     ELSE /\ Finish(task, s, Head(queue[PortOf[s]]))
          /\ queue' = [queue EXCEPT ![PortOf[s]] = Tail(@)]
  /\ UNCHANGED <<ret, cancelled, sent, timeouts, consumed>>

-----------------------------------------------------------------------------
Awaits(t) == t \in Wrap \cup {Root}

\* A coroutine may wait for an event of its own first, as send_after does.
Pause(t) ==
  /\ t \in Wrap /\ Running(t, "start") /\ task[t].index = 1
  /\ task' = [task EXCEPT ![t].at = "asleep", ![t].index = 0]
  /\ Become(<<>>)
  /\ UNCHANGED <<queue, ret, cancelled, sent, timeouts, consumed>>

CallChild(t) ==
  /\ Awaits(t) /\ Running(t, "start")
  /\ \E i \in 1..Len(Kids[t]) :
       Call([task EXCEPT ![t].at = "called", ![t].index = i], t, Kids[t][i])
  /\ UNCHANGED <<queue, ret, cancelled, sent, timeouts, consumed>>

\* forward() and await_ready.
AwaitChild(t) ==
  LET c == Child(t) IN
  /\ Awaits(t) /\ Running(t, "called")
  /\ task' = [task EXCEPT ![t].at = "asked",
                          ![c].forwarded = t \in Forwarding /\ task[c].at # "done"]
  /\ Become(<<<<"loop", c>>, Run(t)>>)
  /\ UNCHANGED <<queue, ret, cancelled, sent, timeouts, consumed>>

\* prepare_awaiter: t is recorded; a resolution point passed on, or passed if t is active.
PrepareAwaiter(t) ==
  LET c == Child(t)
      linked == [task EXCEPT ![t].at = "child", ![t].forward = @ \/ task[c].forwarded,
                             ![c].awaiter = "task", ![c].forwarded = FALSE] IN
  /\ Running(t, "asked") /\ ~ret
  /\ IF task[c].resolving /\ Active(linked, c)
     THEN /\ task' = Resumed([linked EXCEPT ![c].resolving = FALSE], c)
          /\ Become(<<Run(c)>>)
     ELSE /\ task' = IF task[c].resolving THEN Resolvable(linked, t) ELSE linked
          /\ Become(<<>>)
  /\ UNCHANGED <<queue, ret, cancelled, sent, timeouts, consumed>>

\* clear_awaiter, and the child's end.
Unlinked(t) ==
  IF task[Child(t)].awaiter = "task" /\ task[t].forward
  THEN [task EXCEPT ![t].forward = FALSE, ![t].resolving = FALSE] ELSE task

AwaitResume(t) ==
  LET v == task[Child(t)].value
      T == Without(Unlinked(t), {Child(t)}) IN
  /\ Running(t, "got") \/ (Running(t, "asked") /\ ret)
  /\ IF t = Root
     THEN task' = [T EXCEPT ![t].at = "start"] /\ consumed' = consumed \cup ({v} \ {0}) /\ UNCHANGED stack
     ELSE Finish(T, t, v) /\ UNCHANGED consumed
  /\ UNCHANGED <<queue, ret, cancelled, sent, timeouts>>

-----------------------------------------------------------------------------
\* attempt() and first(): the tasks start as they are passed; then the loop begins.
CallNext(r) ==
  /\ r \in Race /\ Running(r, "start")
  /\ IF task[r].index <= Len(Kids[r])
     THEN Call([task EXCEPT ![r].index = @ + 1], r, Kids[r][task[r].index]) /\ UNCHANGED cancelled
     ELSE /\ task' = [task EXCEPT ![r].at = "point"]
          /\ cancelled' = cancelled \ {r}
          /\ UNCHANGED stack
  /\ UNCHANGED <<queue, ret, sent, timeouts, consumed>>

\* clear_awaiter_s, then co_await resolve{}.
RacePoint(r) ==
  /\ Running(r, "point")
  /\ LET T == [x \in Task |-> IF x \in ToSet(Kids[r]) THEN [task[x] EXCEPT !.awaiter = "none"]
                              ELSE IF x = r THEN [task[x] EXCEPT !.index = 1] ELSE task[x]] IN
     IF Active(T, r)
     THEN task' = [T EXCEPT ![r].at = "find"] /\ UNCHANGED stack
     ELSE task' = Resolvable([T EXCEPT ![r].at = "resolve"], r) /\ Become(<<>>)
  /\ UNCHANGED <<queue, ret, cancelled, sent, timeouts, consumed>>

\* find_resolved: the tasks in order.
Find(r) ==
  /\ Running(r, "find") /\ task[r].index <= Len(Kids[r])
  /\ task' = [task EXCEPT ![r].at = "found"]
  /\ Become(<<<<"loop", Kids[r][task[r].index]>>, Run(r)>>)
  /\ UNCHANGED <<queue, ret, cancelled, sent, timeouts, consumed>>

\* The first that resolved is the value; the others are destroyed with the frame.
Found(r) ==
  /\ Running(r, "found")
  /\ IF ret
     THEN Finish(Without(task, ToSet(Kids[r])), r, task[Kids[r][task[r].index]].value)
     ELSE task' = [task EXCEPT ![r].at = "find", ![r].index = @ + 1] /\ UNCHANGED stack
  /\ UNCHANGED <<queue, ret, cancelled, sent, timeouts, consumed>>

\* None resolved: nullopt if the event has triggered, else wait for any of them.
NoneFound(r) ==
  /\ Running(r, "find") /\ task[r].index > Len(Kids[r])
  /\ IF r \in cancelled
     THEN Finish(Without(task, ToSet(Kids[r])), r, 0)
     ELSE /\ task' = [x \in Task |-> IF x = r THEN [task[x] EXCEPT !.at = "asleep"]
                        ELSE IF x \in ToSet(Kids[r]) THEN [task[x] EXCEPT !.awaiter = "event"]
                        ELSE task[x]]
          /\ Become(<<>>)
  /\ UNCHANGED <<queue, ret, cancelled, sent, timeouts, consumed>>

\* The event of an attempt() triggers, a timer as a rule.
Timeout(r) ==
  /\ stack = <<>> /\ timeouts < MaxTimeouts
  /\ r \in Cancellable \ cancelled /\ task[r].at \notin {"none", "done"}
  /\ timeouts' = timeouts + 1
  /\ cancelled' = cancelled \cup {r}
  /\ task' = [task EXCEPT ![r].at = IF @ = "asleep" THEN "woken" ELSE @]
  /\ UNCHANGED <<queue, stack, ret, sent, consumed>>

-----------------------------------------------------------------------------
\* task_promise_base::resolve.
ResolveLoop(t) ==
  /\ In("loop", t)
  /\ IF task[t].at = "done" \/ ~task[t].resolving \/ task[t].forwarded
     THEN ret' = (task[t].at = "done") /\ Become(<<>>) /\ UNCHANGED task
     ELSE /\ UNCHANGED ret
          /\ IF task[t].forward
             THEN /\ task' = [task EXCEPT ![t].resolving = FALSE]
                  /\ Become(<<<<"loop", Child(t)>>, <<"fwd", t>>>>)
             ELSE /\ task' = Resumed([task EXCEPT ![t].resolving = FALSE, ![t].driven = TRUE], t)
                  /\ Become(<<Run(t), <<"after", t>>>>)
  /\ UNCHANGED <<queue, cancelled, sent, timeouts, consumed>>

\* The forwarded task resolved: so may this one.
ResolveForwarded(t) ==
  /\ In("fwd", t)
  /\ IF ret
     THEN /\ task' = Resumed([task EXCEPT ![t].driven = TRUE], t)
          /\ Become(<<Run(t), <<"after", t>>>>)
     ELSE UNCHANGED task /\ Become(<<<<"loop", t>>>>)
  /\ UNCHANGED <<queue, ret, cancelled, sent, timeouts, consumed>>

ResolveAgain(t) ==
  /\ In("after", t)
  /\ task' = [task EXCEPT ![t].driven = FALSE]
  /\ Become(<<<<"loop", t>>>>)
  /\ UNCHANGED <<queue, ret, cancelled, sent, timeouts, consumed>>

-----------------------------------------------------------------------------
\* send_after: the message is recorded, and whoever waits at the port is woken.
Deliver(p) ==
  /\ stack = <<>> /\ sent < MaxItems
  /\ sent' = sent + 1
  /\ queue' = [queue EXCEPT ![p] = Append(@, sent')]
  /\ task' = [t \in Task |-> IF t \in Source /\ PortOf[t] = p /\ task[t].at = "asleep"
                             THEN [task[t] EXCEPT !.at = "woken"] ELSE task[t]]
  /\ UNCHANGED <<stack, ret, cancelled, timeouts, consumed>>

\* The event that t waits for before anything else triggers.
PauseOver(t) ==
  /\ t \in Wrap /\ stack = <<>> /\ task[t].at = "asleep"
  /\ task' = [task EXCEPT ![t].at = "woken"]
  /\ UNCHANGED <<queue, stack, ret, cancelled, sent, timeouts, consumed>>

\* Another coroutine of the program receives from the same port.
Rival(p) ==
  /\ stack = <<>> /\ queue[p] # <<>>
  /\ queue' = [queue EXCEPT ![p] = Tail(@)]
  /\ consumed' = consumed \cup {Head(queue[p])}
  /\ UNCHANGED <<task, stack, ret, cancelled, sent, timeouts>>

\* The driver resumes a coroutine whose event has triggered.
Resume(t) ==
  /\ stack = <<>> /\ task[t].at = "woken"
  /\ task' = [task EXCEPT ![t].at = CASE t \in Race -> "point" [] t \in Wrap -> "start" [] OTHER -> "look"]
  /\ stack' = <<Run(t)>>
  /\ UNCHANGED <<queue, ret, cancelled, sent, timeouts, consumed>>

\* The innermost frame goes on.
Execute ==
  /\ stack # <<>>
  /\ LET t == Head(stack)[2] IN
     \/ Look(t) \/ Take(t)
     \/ Pause(t) \/ CallChild(t) \/ AwaitChild(t) \/ PrepareAwaiter(t) \/ AwaitResume(t)
     \/ CallNext(t) \/ RacePoint(t) \/ Find(t) \/ Found(t) \/ NoneFound(t)
     \/ ResolveLoop(t) \/ ResolveForwarded(t) \/ ResolveAgain(t)

Next ==
  \/ Execute
  \/ \E t \in Task : Resume(t)
  \/ \E t \in Wrap : PauseOver(t)
  \/ \E r \in Race : Timeout(r)
  \/ \E p \in Port : Deliver(p) \/ Rival(p)

\* The thread runs and the driver resumes what is ready; timers and senders are free.
Fairness == WF_vars(Execute) /\ \A t \in Task : WF_vars(Resume(t))

Spec == Init /\ [][Next]_vars /\ Fairness

-----------------------------------------------------------------------------
\* A message that was taken from its port is on its way to the root: cancellation never
\* drops it, which is what the resolution point in receive_with_id() is for.
NothingLost ==
  \A m \in 1..sent :
    \/ m \in consumed
    \/ \E p \in Port : m \in ToSet(queue[p])
    \/ \E t \in Task : task[t].at = "done" /\ task[t].value = m

\* No coroutine is resumed while it runs, after it was destroyed, or before what it awaits is done.
SoundResume ==
  /\ \A i, j \in 1..Len(stack) : stack[i] = stack[j] /\ stack[i][1] = "run" => i = j
  /\ \A i \in 1..Len(stack) : task[stack[i][2]].at # "none"
  /\ \A t \in Task : task[t].at = "got" => task[Child(t)].at = "done"

\* A receive() does not wait for ever while its port holds a message: no resolution point
\* is forgotten on its way up through forward(), attempt() and first().
ReceiveEnds ==
  \A s \in Source :
    (queue[PortOf[s]] # <<>> /\ task[s].at # "none") ~> (queue[PortOf[s]] = <<>> \/ task[s].at = "none")
=============================================================================
