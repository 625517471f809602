-------------------------------- MODULE Waits --------------------------------
(***************************************************************************)
(* Waits: the two ways in which the repository makes a receive that may be *)
(* given up, the resolution points of Cotamer's tasks and the stash of the *)
(* consensus servers.  `on` says which of them the run is about; the other *)
(* stays as it begins.                                                     *)
(***************************************************************************)
EXTENDS TaskResolve

CONSTANTS Messages, Types, NoType, MaxRound
VARIABLES on,
          s_sent, wire, s_queue, stash, stashLeft, suspended, round, want, decided, taken

Stash == INSTANCE StashReceive WITH sent <- s_sent, queue <- s_queue
stashVars == <<s_sent, wire, s_queue, stash, stashLeft, suspended, round, want, decided, taken>>
allVars == <<on, vars, stashVars>>

MCInit == /\ Init /\ Stash!Init
          /\ on \in {"tasks", "stash"}
          /\ on # "stash" => s_sent = {}

InTasks(A) == on = "tasks" /\ A /\ UNCHANGED <<on, stashVars>>
InStash(A) == on = "stash" /\ A /\ UNCHANGED <<on, vars>>
MCNext == InTasks(Next) \/ InStash(Stash!Next)
\* The tasks of a bounded instance never come back to a state they have left, so that one weak
\* fairness is as good as one for each of them.
MCSpec ==
  /\ MCInit /\ [][MCNext]_allVars
  /\ WF_allVars(InTasks(Execute \/ \E t \in Task : Resume(t)))
  /\ Stash!Fairness

\* What the caller of receive and its messages have to be.
ASSUME StashAssumption ==
  /\ NoType \notin Types /\ MaxRound \in Nat \ {0} /\ \A m \in Messages : m.round \in Nat

\* The stash and the port's queue are a mailbox, whatever is cancelled; no message is in
\* both, and none that is wanted is left in the stash.
ImplementsMailbox ==
  Stash!ImplementsMailbox /\ [](Stash!NoDuplicates /\ Stash!NoneOverlooked /\ Stash!TypeOK)
\* A receive ends if what it wants was sent.
WaitEnds == Stash!WaitEnds
=============================================================================
