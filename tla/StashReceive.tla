---------------------------- MODULE StashReceive ----------------------------
(***************************************************************************)
(* server::receive(mt) of pset2/ctconsensus.cc in detail, for one server:  *)
(* the port's message queue (port::receive, channel::send_after of         *)
(* pset2/netsim.hh), the stash it keeps for later rounds, and the number   *)
(* of stash entries a call still has to look at.  The caller, consensus(), *)
(* is reduced to what receive depends on: it waits for any type, may give  *)
(* up a wait that is suspended (attempt's timeout), and moves to the next  *)
(* round between two calls.                                                *)
(***************************************************************************)
EXTENDS Naturals, Sequences, SequencesExt

CONSTANTS Messages,   \* the messages that may be sent to this server, all different
          Types,      \* the types consensus() waits for
          NoType,     \* consensus() is not in receive
          MaxRound    \* bound: rounds the caller goes through

VARIABLES
  sent,       \* the messages that are sent to this server, sooner or later
  wire,       \* of those, the ones whose link delay is not over
  queue,      \* messageq_ of the port
  stash,      \* stash_
  stashLeft,  \* stash_size, the local variable of receive
  suspended,  \* port::receive awaits receiver_event_
  round,      \* round_
  want,       \* the parameter mt, NoType outside receive
  decided,    \* decided_
  taken       \* messages receive has returned

vars == <<sent, wire, queue, stash, stashLeft, suspended, round, want, decided, taken>>

Init == /\ sent \in SUBSET Messages /\ wire = sent
        /\ queue = <<>> /\ stash = <<>> /\ stashLeft = 0 /\ suspended = FALSE
        /\ round = 1 /\ want = NoType /\ decided = FALSE /\ taken = {}

\* The link delay is over: queue the message and trigger receiver_event_.
\* The suspended receive resumes at a later step of the event loop.
Deliver(m) ==
  /\ m \in wire
  /\ wire' = wire \ {m}
  /\ queue' = Append(queue, m)
  /\ UNCHANGED <<sent, stash, stashLeft, suspended, round, want, decided, taken>>

\* Definitions named Wrong... are mistakes the code could have made; nothing
\* uses them.  Each shows that some property below notices the mistake.
WrongStashSizeZero == 0
WrongStashSizeOneMore == Len(stash) + 1
StashSize == Len(stash)

\* consensus() calls receive(mt), which notes the size of the stash.
Call(mt) ==
  /\ want = NoType /\ ~decided
  /\ want' = mt
  /\ stashLeft' = StashSize
  /\ UNCHANGED <<sent, wire, queue, stash, suspended, round, decided, taken>>

\* An unwanted message is kept for the current or a later round.
WrongKeepsLater(m) == m.round > round
Keeps(m) == m.round >= round

\* The rest of one turn of the loop, for message m: a DECIDE decides, an
\* unwanted message is stashed (behind `rest`) or dropped, a wanted one is
\* returned.
Examine(m, rest) ==
  \/ /\ m.type = "decide"
     /\ decided' = TRUE /\ want' = NoType
     /\ stash' = rest
     /\ UNCHANGED taken
  \/ /\ m.type # "decide" /\ (m.type # want \/ m.round # round)
     /\ stash' = IF Keeps(m) THEN Append(rest, m) ELSE rest
     /\ UNCHANGED <<decided, want, taken>>
  \/ /\ m.type = want /\ m.round = round
     /\ taken' = taken \cup {m} /\ want' = NoType
     /\ stash' = rest
     /\ UNCHANGED decided

\* What pop_stash leaves.
WrongPopNothing == stash
PopStash == Tail(stash)

\* A turn that takes its message from the front of the stash.
ScanStash ==
  /\ want # NoType /\ stashLeft > 0
  /\ stashLeft' = stashLeft - 1
  /\ Examine(Head(stash), PopStash)
  /\ UNCHANGED <<sent, wire, queue, suspended, round>>

\* A turn that takes its message from the port, after a suspension or not.
ScanPort ==
  /\ want # NoType /\ stashLeft = 0 /\ queue # <<>>
  /\ queue' = Tail(queue)
  /\ suspended' = FALSE
  /\ Examine(Head(queue), stash)
  /\ UNCHANGED <<sent, wire, stashLeft, round>>

\* The queue is empty: port::receive suspends on a fresh event.
Suspend ==
  /\ want # NoType /\ stashLeft = 0 /\ queue = <<>> /\ ~suspended
  /\ suspended' = TRUE
  /\ UNCHANGED <<sent, wire, queue, stash, stashLeft, round, want, decided, taken>>

\* attempt's timeout destroys the suspended receive, even one whose event
\* has triggered and which has not resumed yet.
Cancel ==
  /\ want # NoType /\ suspended
  /\ want' = NoType /\ suspended' = FALSE
  /\ UNCHANGED <<sent, wire, queue, stash, stashLeft, round, decided, taken>>

\* consensus() enters its next round.
Advance ==
  /\ want = NoType /\ ~decided
  /\ round < MaxRound
  /\ round' = round + 1
  /\ UNCHANGED <<sent, wire, queue, stash, stashLeft, suspended, want, decided, taken>>

\* A server that has decided never calls receive again; one that is through
\* with its last modelled round stays idle.
Idle == want = NoType /\ (decided \/ round = MaxRound) /\ UNCHANGED vars

Next == \/ \E m \in Messages : Deliver(m)
        \/ \E mt \in Types : Call(mt)
        \/ ScanStash \/ ScanPort \/ Suspend \/ Cancel \/ Advance
        \/ Idle

\* Links deliver, and the event loop resumes a receive it can resume.
Fairness == /\ \A m \in Messages : WF_vars(Deliver(m))
            /\ WF_vars(ScanStash) /\ WF_vars(ScanPort)

Spec == Init /\ [][Next]_vars
FairSpec == Spec /\ Fairness
-----------------------------------------------------------------------------
Wanted(m) == m.type = want /\ m.round = round

TypeOK ==
  /\ sent \subseteq Messages /\ wire \subseteq sent /\ taken \subseteq Messages
  /\ queue \in Seq(Messages) /\ stash \in Seq(Messages)
  /\ stashLeft \in 0 .. Len(stash)
  /\ round \in 1 .. MaxRound
  /\ want \in Types \cup {NoType}
  /\ suspended \in BOOLEAN /\ decided \in BOOLEAN

\* receive goes to sleep only if no message it waits for is left behind in
\* the stash: a wanted message there would never wake it.
NoneOverlooked == suspended => \A m \in ToSet(stash) : ~Wanted(m)

\* No message is in two places, nor twice in one: nothing is returned, or
\* counted by consensus(), a second time.
NoDuplicates ==
  LET all == queue \o stash
  IN  /\ IsInjective(all)
      /\ wire \cap ToSet(all) = {} /\ taken \cap (wire \cup ToSet(all)) = {}

\* The queue and the stash, without messages of past rounds, are the mailbox.
MailboxView == INSTANCE Mailbox WITH
  mail <- {m \in ToSet(queue \o stash) : m.type = "decide" \/ m.round >= round},
  arrived <- sent \ wire

\* receive loses, invents and reorders across rounds nothing: it implements
\* the mailbox, also when its wait is cancelled and the next call starts over.
ImplementsMailbox == MailboxView!Spec

\* A wait for a message that was sent ends, unless the caller gives it up: again and again
\* there is no such wait.
WaitEnds == []<>~(\E m \in sent \ taken : Wanted(m))
=============================================================================
