---------------------------- MODULE EventQuorum ----------------------------
(***************************************************************************)
(* Events and quorum events (any(), all()) of cotamer shared by threads:   *)
(* event_body, quorum_event_body and event_handle in cotamer_impl.hh.      *)
(* An event is triggered once; its listeners are the quorums it belongs    *)
(* to.  A quorum counts its triggered members, triggers when enough have,  *)
(* and is deleted with its last handle, or later, by the member that was   *)
(* still triggering then.                                                  *)
(*                                                                         *)
(* A Member is one argument of one any() or all(): Child[m] is the event,  *)
(* Parent[m] the quorum.  A thread's stack holds the calls it is inside,   *)
(* innermost first, because triggering a member triggers its quorum, and   *)
(* culling a member may drop the last handle to it.  What a thread does    *)
(* under an event's spin lock (ef_lock) to that event alone is one step;   *)
(* each look at another event and each change to a reference count that is *)
(* not under a lock is a step of its own.                                  *)
(*                                                                         *)
(* Coroutines that wait for an event are in DriverLoop.  Not here:         *)
(* interest{}, which adds a member to a quorum already made.               *)
(***************************************************************************)
EXTENDS Integers, Sequences, FiniteSets, Functions

CONSTANTS
  Thread,
  Plain,        \* events made by event()
  Quorum,       \* events made by any() and all()
  Member, Child, Parent,
  Handles,      \* Handles[p][e]: handles to the plain event e that thread p starts with
  MaxShares     \* bound on the handles copied to another thread

Body == Plain \cup Quorum
MembersOf(q) == {m \in Member : Parent[m] = q}

VARIABLES
  event,    \* event[b]: the event_body of b
  quorum,   \* quorum[q]: what a quorum_event_body adds; needed = 0 until it is made
  held,     \* held[p][b]: the handles to b that thread p owns
  stack,    \* stack[p]: the calls thread p is inside
  shares

vars == <<event, quorum, held, stack, shares>>

\* Every handle that exists at the start is counted.
Init ==
  /\ event = [b \in Body |->
       [locked |-> FALSE, triggered |-> FALSE, listeners |-> {}, called |-> FALSE, deletes |-> 0,
        refs |-> IF b \in Plain THEN SumFunction([p \in Thread |-> Handles[p][b]]) ELSE 0]]
  /\ quorum = [q \in Quorum |-> [needed |-> 0, count |-> 0, members |-> {}, none |-> TRUE]]
  /\ held = [p \in Thread |-> [b \in Body |-> IF b \in Plain THEN Handles[p][b] ELSE 0]]
  /\ stack = [p \in Thread |-> <<>>]
  /\ shares = 0

-----------------------------------------------------------------------------
\* A call: at says where it is, todo the members it has yet to look at.
Call(at, b, todo) == [at |-> at, body |-> b, todo |-> todo]
Idle(p) == stack[p] = <<>>
In(p, at) == ~Idle(p) /\ Head(stack[p]).at = at
Here(p) == Head(stack[p]).body
Todo(p) == Head(stack[p]).todo

Start(p, call) == stack' = [stack EXCEPT ![p] = <<call>>]
\* The innermost call becomes the given ones, or returns.
Continue(p, calls) == stack' = [stack EXCEPT ![p] = calls \o Tail(@)]
Return(p) == Continue(p, <<>>)

Made(b) == b \in Plain \/ quorum[b].needed # 0
\* The flag ef_empty_members as unlock stores it.
Unlocked(q) == [quorum[q] EXCEPT !.none = (quorum[q].members = {})]
\* delete: whoever still uses the body does so after its end.
Deleted(b) == [event[b] EXCEPT !.refs = 0, !.deletes = @ + 1]

\* What quorum_event_body::make is given are the handles of the thread that calls it.
Make(p, q, n) ==
  LET Taken(b) == Cardinality({m \in MembersOf(q) : Child[m] = b}) IN
  /\ Idle(p) /\ ~Made(q)
  /\ n \in 1..Cardinality(MembersOf(q))
  /\ \A b \in Body : Taken(b) <= held[p][b]
  /\ held' = [held EXCEPT ![p] = [b \in Body |-> IF b = q THEN 1 ELSE @[b] - Taken(b)]]
  /\ event' = [event EXCEPT ![q].refs = 1, ![q].locked = TRUE]
  /\ quorum' = [quorum EXCEPT ![q].needed = n]
  /\ Start(p, Call("adding", q, MembersOf(q)))
  /\ UNCHANGED shares

\* add_member: an event that has triggered is counted and its handle dropped.
AddMember(p) ==
  /\ In(p, "adding")
  /\ \E m \in Todo(p) :
       LET q == Here(p)
           c == Child[m]
           rest == Call("adding", q, Todo(p) \ {m}) IN
       \/ /\ event[c].triggered
          /\ quorum' = [quorum EXCEPT ![q].count = @ + 1]
          /\ Continue(p, <<Call("deref", c, {}), rest>>)
          /\ UNCHANGED event
       \/ /\ ~event[c].triggered /\ ~event[c].locked
          /\ event' = [event EXCEPT ![c].listeners = @ \cup {m}]
          /\ quorum' = [quorum EXCEPT ![q].members = @ \cup {m}]
          /\ Continue(p, <<rest>>)
  /\ UNCHANGED <<held, shares>>

\* Wrong: one too many.
WrongReached(q) == ~event[q].triggered /\ quorum[q].count > quorum[q].needed

Reached(q) == ~event[q].triggered /\ quorum[q].count >= quorum[q].needed

\* seal.
Seal(p) ==
  LET q == Here(p) IN
  /\ In(p, "adding") /\ Todo(p) = {}
  /\ IF Reached(q)
     THEN /\ event' = [event EXCEPT ![q].refs = @ + 1]
          /\ Continue(p, <<Call("triggering", q, quorum[q].members)>>)
          /\ UNCHANGED quorum
     ELSE /\ event' = [event EXCEPT ![q].locked = FALSE]
          /\ quorum' = [quorum EXCEPT ![q] = Unlocked(q)]
          /\ Return(p)
  /\ UNCHANGED <<held, shares>>

\* A handle is copied to another thread.
Share(p, r, b) ==
  /\ Idle(p) /\ p # r /\ shares < MaxShares
  /\ held[p][b] > 0
  /\ held' = [held EXCEPT ![r][b] = @ + 1]
  /\ event' = [event EXCEPT ![b].refs = @ + 1]
  /\ shares' = shares + 1
  /\ UNCHANGED <<quorum, stack>>

-----------------------------------------------------------------------------
\* event::trigger; one that has triggered is left alone, and not modelled.
Trigger(p, b) ==
  /\ Idle(p) /\ held[p][b] > 0
  /\ ~event[b].triggered
  /\ event' = [event EXCEPT ![b].called = TRUE]
  /\ Start(p, Call("trigger", b, {}))
  /\ UNCHANGED <<quorum, held, shares>>

\* untriggered_lock, and trigger_unlock up to its look at the members: a quorum
\* holds a reference to itself until the end.
Lock(p) ==
  LET b == Here(p) IN
  /\ In(p, "trigger")
  /\ \/ /\ event[b].triggered
        /\ Return(p)
        /\ UNCHANGED event
     \/ /\ ~event[b].triggered /\ ~event[b].locked
        /\ event' = [event EXCEPT ![b].locked = TRUE,
                                  ![b].refs = IF b \in Quorum THEN @ + 1 ELSE @]
        /\ Continue(p, <<Call("triggering", b, IF b \in Quorum THEN quorum[b].members ELSE {})>>)
  /\ UNCHANGED <<quorum, held, shares>>

\* cull_members, for trigger_unlock and hard_deref: members that have triggered
\* will remove themselves.
CullMember(p) ==
  /\ In(p, "triggering") \/ In(p, "dying")
  /\ \E m \in Todo(p) :
       LET c == Child[m]
           rest == [Head(stack[p]) EXCEPT !.todo = @ \ {m}] IN
       \/ /\ event[c].triggered
          /\ Continue(p, <<rest>>)
          /\ UNCHANGED <<event, quorum>>
       \/ /\ ~event[c].triggered /\ ~event[c].locked
          /\ event' = [event EXCEPT ![c].listeners = @ \ {m}]
          /\ quorum' = [quorum EXCEPT ![Here(p)].members = @ \ {m}]
          /\ Continue(p, <<Call("deref", c, {}), rest>>)
  /\ UNCHANGED <<held, shares>>

\* Wrong: the lock is kept while the quorums are informed.
WrongTriggered(b) == [event[b] EXCEPT !.triggered = TRUE, !.listeners = {}]

Triggered(b) == [event[b] EXCEPT !.triggered = TRUE, !.locked = FALSE, !.listeners = {}]

\* trigger_unlock: takes the listeners, unlocks, ...
Mark(p) ==
  LET b == Here(p) IN
  /\ In(p, "triggering") /\ Todo(p) = {}
  /\ event' = [event EXCEPT ![b] = Triggered(b)]
  /\ quorum' = IF b \in Quorum THEN [quorum EXCEPT ![b] = Unlocked(b)] ELSE quorum
  /\ Continue(p, <<Call("informing", b, event[b].listeners)>>)
  /\ UNCHANGED <<held, shares>>

\* ... informs the quorums, one after the other, and drops its own reference.
Inform(p) ==
  LET b == Here(p) IN
  /\ In(p, "informing")
  /\ \/ \E m \in Todo(p) :
          Continue(p, <<Call("member", Parent[m], {m}), Call("informing", b, Todo(p) \ {m})>>)
     \/ Todo(p) = {} /\ Continue(p, IF b \in Quorum THEN <<Call("deref", b, {})>> ELSE <<>>)
  /\ UNCHANGED <<event, quorum, held, shares>>

\* trigger_member: finds the member (see DeletedLast), removes it, ...
TriggerMember(p) ==
  LET q == Here(p)
      m == CHOOSE x \in Todo(p) : TRUE IN
  /\ In(p, "member") /\ ~event[q].locked
  /\ event' = [event EXCEPT ![q].locked = TRUE]
  /\ quorum' = [quorum EXCEPT ![q].members = @ \ {m}, ![q].count = @ + 1]
  /\ Continue(p, <<Call("deref", Child[m], {}), Call("deciding", q, {})>>)
  /\ UNCHANGED <<held, shares>>

\* Wrong: the handles are not asked for; and nobody deletes after the last handle.
WrongAbandonedHeld(q) == quorum[q].members = {}
WrongAbandonedNever(q) == FALSE

Abandoned(q) == quorum[q].members = {} /\ event[q].refs = 0

\* ... and triggers, deletes or unlocks the quorum.
Decide(p) ==
  LET q == Here(p) IN
  /\ In(p, "deciding")
  /\ \/ /\ Reached(q)
        /\ event' = [event EXCEPT ![q].refs = @ + 1]
        /\ Continue(p, <<Call("triggering", q, quorum[q].members)>>)
        /\ UNCHANGED quorum
     \/ /\ ~Reached(q) /\ Abandoned(q)
        /\ event' = [event EXCEPT ![q] = Deleted(q)]
        /\ Return(p)
        /\ UNCHANGED quorum
     \/ /\ ~Reached(q) /\ ~Abandoned(q)
        /\ event' = [event EXCEPT ![q].locked = FALSE]
        /\ quorum' = [quorum EXCEPT ![q] = Unlocked(q)]
        /\ Return(p)
  /\ UNCHANGED <<held, shares>>

-----------------------------------------------------------------------------
\* A thread drops a handle.
Drop(p, b) ==
  /\ Idle(p) /\ held[p][b] > 0
  /\ held' = [held EXCEPT ![p][b] = @ - 1]
  /\ Start(p, Call("deref", b, {}))
  /\ UNCHANGED <<event, quorum, shares>>

\* ~event_handle: the flags, without the lock, choose between two ways.
Deref(p) ==
  LET b == Here(p) IN
  /\ In(p, "deref")
  /\ Continue(p, <<Call(IF b \in Quorum /\ ~quorum[b].none THEN "hard" ELSE "soft", b, {})>>)
  /\ UNCHANGED <<event, quorum, held, shares>>

\* The last of these deletes, whatever the lock says.
SoftDeref(p) ==
  LET b == Here(p) IN
  /\ In(p, "soft")
  /\ event' = [event EXCEPT ![b] = IF @.refs = 1 THEN Deleted(b) ELSE [@ EXCEPT !.refs = @ - 1]]
  /\ Return(p)
  /\ UNCHANGED <<quorum, held, shares>>

\* hard_deref: the reference is given up under the lock.
HardDeref(p) ==
  LET q == Here(p) IN
  /\ In(p, "hard") /\ ~event[q].locked
  /\ event' = [event EXCEPT ![q].locked = TRUE, ![q].refs = @ - 1]
  /\ Continue(p, <<IF event[q].refs # 1 THEN Call("unlocking", q, {})
                   ELSE Call("dying", q, IF event[q].triggered THEN {} ELSE quorum[q].members)>>)
  /\ UNCHANGED <<quorum, held, shares>>

\* Another handle exists, or did: the store of unlock may come after its end.
UnlockShared(p) ==
  LET q == Here(p) IN
  /\ In(p, "unlocking")
  /\ event' = [event EXCEPT ![q].locked = FALSE]
  /\ Return(p)
  /\ UNCHANGED <<quorum, held, shares>>

\* Deletes, or leaves that to the last member that is still triggering.
Die(p) ==
  LET q == Here(p) IN
  /\ In(p, "dying") /\ Todo(p) = {}
  /\ IF quorum[q].members = {}
     THEN event' = [event EXCEPT ![q] = Deleted(q)] /\ UNCHANGED quorum
     ELSE /\ event' = [event EXCEPT ![q].locked = FALSE]
          /\ quorum' = [quorum EXCEPT ![q] = Unlocked(q)]
  /\ Return(p)
  /\ UNCHANGED <<held, shares>>

-----------------------------------------------------------------------------
\* The steps of a call that has begun.
Step(p) == \/ AddMember(p) \/ Seal(p)
           \/ Lock(p) \/ CullMember(p) \/ Mark(p) \/ Inform(p)
           \/ TriggerMember(p) \/ Decide(p)
           \/ Deref(p) \/ SoftDeref(p) \/ HardDeref(p) \/ UnlockShared(p) \/ Die(p)

Begin(p) == \/ \E q \in Quorum : \E n \in 1..Cardinality(Member) : Make(p, q, n)
            \/ \E b \in Body : Trigger(p, b) \/ Drop(p, b)
            \/ \E r \in Thread, b \in Body : Share(p, r, b)

Next == \E p \in Thread : Step(p) \/ Begin(p)

Spec == Init /\ [][Next]_vars

\* A thread goes on with what it has begun; it need not begin anything.
FairSpec == Spec /\ \A p \in Thread : WF_vars(Step(p))

-----------------------------------------------------------------------------
Calls(p) == {stack[p][i] : i \in DOMAIN stack[p]}
Quiet == \A p \in Thread : Idle(p)
\* No thread and no quorum holds a handle to b.
Unheld(b) == /\ \A p \in Thread : held[p][b] = 0
             /\ \A m \in Member : Child[m] = b => m \notin quorum[Parent[m]].members

\* A body is deleted once, by its last user (hard_deref, trigger_member,
\* ~event_handle): no handle, member or listener still leads to it, and no call of
\* any thread but one that has only the lock left to give back.  Until a member that
\* triggers has informed its quorum, the quorum lists it, and so is not deleted.
DeletedLast ==
  /\ \A b \in Body : event[b].deletes > 0 =>
       /\ event[b].deletes = 1 /\ event[b].listeners = {}
       /\ Unheld(b)
       /\ b \in Quorum => /\ quorum[b].members = {}
                          /\ \A c \in Body : event[c].listeners \cap MembersOf(b) = {}
       /\ \A p \in Thread : \A c \in Calls(p) : c.body = b => c.at = "unlocking"
  /\ \A p \in Thread : \A c \in Calls(p) :
       c.at \in {"informing", "member"} => \A m \in c.todo : m \in quorum[Parent[m]].members

\* When no thread is inside a call, every body to which no handle is left has been
\* deleted: one that hard_deref left to its members is deleted by them.
NothingLeaks ==
  Quiet => \A b \in Body : Made(b) /\ Unheld(b) => event[b].deletes > 0

\* any() and all(): when no thread is inside a call, a quorum has triggered if and
\* only if trigger() was called for it or enough of its members have triggered, also
\* those that did so while make() was running or while another thread was culling.
QuorumExact ==
  Quiet => \A q \in Quorum : Made(q) /\ event[q].deletes = 0 =>
    (event[q].triggered <=>
       \/ event[q].called
       \/ Cardinality({m \in MembersOf(q) : event[Child[m]].triggered}) >= quorum[q].needed)

\* Members lock their quorum and quorums their members, and no thread spins for ever.
CallsReturn == \A p \in Thread : []<>Idle(p)

\* Wrong, in ~event_handle: "Event bodies can be accessed concurrently from multiple
\* threads", and reference counts ensure "everything works out".
NoUseAfterDelete ==
  \A p \in Thread : \A c \in Calls(p) : event[c.body].deletes = 0
=============================================================================
