------------------------------ MODULE NetLink ------------------------------
(***************************************************************************)
(* A channel of pset3/netsim.hh that is connected, disconnected and        *)
(* connected again while messages are on their way, and ports at which     *)
(* several coroutines receive and are cancelled.                           *)
(*                                                                         *)
(* Every message takes link_delay_, so send_after's coroutines wake in the *)
(* order they were started.                                                *)
(***************************************************************************)
EXTENDS Integers, SequencesExt

CONSTANTS Port, Receiver, Nowhere,
          MaxSends,   \* bound: messages sent
          MaxChanges  \* bound: calls of connect and disconnect

VARIABLES
  destination,  \* destination_: a port, or Nowhere
  version,      \* destination_version_
  sends,        \* how many messages were sent: each is named by its number
  air,          \* the coroutines of send_after: message and version, in order
  messageq,     \* messageq_ of each port
  triggered,    \* receivable_ of each port has been triggered
  receiver,     \* receiver[r]: the port it receives from and where it stands
  standing,     \* history: messages sent since the channel last changed
  taken         \* history: what receivers took from each port, in order

linkVars == <<destination, version, sends, air, standing>>
portVars == <<messageq, triggered, receiver, taken>>
vars == <<linkVars, portVars>>

Idle == [at |-> Nowhere, state |-> "idle"]

Init ==
  /\ destination \in Port /\ version = 0 /\ sends = 0 /\ air = <<>>
  /\ standing = {}
  /\ messageq = [p \in Port |-> <<>>] /\ triggered = [p \in Port |-> FALSE]
  /\ receiver = [r \in Receiver |-> Idle]
  /\ taken = [p \in Port |-> <<>>]

\* connect(p), or disconnect() with p = Nowhere.
Change(p) ==
  /\ version < MaxChanges
  /\ destination' = p /\ version' = version + 1 /\ standing' = {}
  /\ UNCHANGED <<sends, air, portVars>>

\* send: nothing is sent when disconnected, nor when a coin says it is lost.
Send ==
  /\ sends < MaxSends
  /\ sends' = sends + 1
  /\ \/ /\ destination # Nowhere
        /\ air' = Append(air, [m |-> sends', version |-> version])
        /\ standing' = standing \cup {sends'}
     \/ UNCHANGED <<air, standing>>
  /\ UNCHANGED <<destination, version, portVars>>

\* Wrong: only a channel that is still disconnected drops a message.
WrongStale(w) == destination = Nowhere
\* What send_after tests after its delay.
Stale(w) == destination = Nowhere \/ w.version # version

\* event::trigger wakes all that wait at the port.
Woken(p) ==
  [r \in Receiver |-> IF receiver[r] = [at |-> p, state |-> "wait"]
                      THEN [at |-> p, state |-> "delay"] ELSE receiver[r]]

\* The rest of send_after.
Arrive ==
  /\ air # <<>> /\ air' = Tail(air)
  /\ IF Stale(Head(air)) THEN UNCHANGED portVars
     ELSE /\ messageq' = [messageq EXCEPT ![destination] = Append(@, Head(air).m)]
          /\ triggered' = [triggered EXCEPT ![destination] = TRUE]
          /\ receiver' = Woken(destination)
          /\ UNCHANGED taken
  /\ UNCHANGED <<destination, version, sends, standing>>

\* Wrong: every receiver makes an event of its own.
WrongRearms(p) == TRUE
\* arm() makes a new event only in place of one that was triggered.
Rearms(p) == triggered[p]

\* arm() and wait: whoever waits for an event that is replaced is forgotten.
Wait(r, p) ==
  /\ triggered' = [triggered EXCEPT ![p] = FALSE]
  /\ receiver' = [q \in Receiver |->
                    IF q = r THEN [at |-> p, state |-> "wait"]
                    ELSE IF Rearms(p) /\ receiver[q] = [at |-> p, state |-> "wait"]
                    THEN [at |-> p, state |-> "forgotten"] ELSE receiver[q]]

\* The test of messageq_ at the head of the inner loop.
Look(r, p) ==
  IF messageq[p] = <<>> THEN Wait(r, p)
  ELSE /\ receiver' = [receiver EXCEPT ![r] = [at |-> p, state |-> "resolve"]]
       /\ UNCHANGED triggered

Receive(r, p) ==
  /\ receiver[r] = Idle
  /\ Look(r, p) /\ UNCHANGED <<messageq, taken, linkVars>>

\* receive_delay_ is over.
Delayed(r) ==
  /\ receiver[r].state = "delay"
  /\ Look(r, receiver[r].at) /\ UNCHANGED <<messageq, taken, linkVars>>

\* Wrong: the message is copied, not moved out of the queue.
WrongPopFront(q) == q
PopFront(q) == Tail(q)

\* co_await resolve{} goes on; another receiver may have taken the message.
Take(r) ==
  LET p == receiver[r].at IN
  /\ receiver[r].state = "resolve"
  /\ IF messageq[p] = <<>> THEN Wait(r, p) /\ UNCHANGED <<messageq, taken>>
     ELSE /\ taken' = [taken EXCEPT ![p] = Append(@, Head(messageq[p]))]
          /\ messageq' = [messageq EXCEPT ![p] = PopFront(@)]
          /\ receiver' = [receiver EXCEPT ![r] = Idle]
          /\ UNCHANGED triggered
  /\ UNCHANGED linkVars

\* The task is destroyed where it is suspended.
Cancel(r) ==
  /\ receiver[r] # Idle
  /\ receiver' = [receiver EXCEPT ![r] = Idle]
  /\ UNCHANGED <<messageq, triggered, taken, linkVars>>

Next ==
  \/ \E p \in Port \cup {Nowhere} : Change(p)
  \/ Send \/ Arrive
  \/ \E r \in Receiver : \/ \E p \in Port : Receive(r, p)
                         \/ Delayed(r) \/ Take(r) \/ Cancel(r)
Spec == Init /\ [][Next]_vars

-----------------------------------------------------------------------------
\* Messages that reached a port, taken or not.
Reached(p) == taken[p] \o messageq[p]

\* What reaches a port was sent since the last connect or disconnect, also when the channel
\* was connected again to the same port while it was on its way.
NoCrossing ==
  [][\A p \in Port : Reached(p)' # Reached(p) =>
       \E m \in standing : Reached(p)' = Append(Reached(p), m)]_vars

Ordered == \A p \in Port : \A i, j \in DOMAIN Reached(p) : i < j => Reached(p)[i] < Reached(p)[j]
NobodyWaits ==
  \A r \in Receiver : receiver[r].state \in {"wait", "forgotten"} => messageq[receiver[r].at] = <<>>

(***************************************************************************)
(* No message crosses a change of the channel.  A port hands out the       *)
(* messages in the order they were sent, each once; and whoever waits at a *)
(* port with a message in it has been woken, though receivers share one    *)
(* event and come, go and take each other's messages.                      *)
(***************************************************************************)
Delivers == [](Ordered /\ NobodyWaits) /\ NoCrossing
=============================================================================
