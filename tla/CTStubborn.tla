----------------------------- MODULE CTStubborn -----------------------------
(***************************************************************************)
(* pset2/ctstubborn.cc: the consensus of CTConsensus without a stash, in   *)
(* which some servers are stubborn.  A message that is not wanted when it  *)
(* is taken from the port is lost, and with it perhaps a whole round; a    *)
(* stubborn server clings to the color it started with.                    *)
(*                                                                         *)
(* The two programs share their text but for the lines marked STUBBORN and *)
(* receive(), and this module shares the steps in which they do not differ.*)
(***************************************************************************)
EXTENDS CTConsensus

CONSTANT MaxRound  \* bound: rounds that a server begins

VARIABLE stubborn  \* the servers with stubborn_ set

stubbornVars == <<vars, stubborn>>

StubbornInit == Init /\ stubborn \in SUBSET Server

\* Wrong: decisions are accepted from everybody.
WrongRefuses(i, m) == i \in stubborn /\ m.type # "decide" /\ m.color # color[i]
\* The test between the STUBBORN marks.
Refuses(i, m) == i \in stubborn /\ m.color # color[i]

\* What a server waits for in receive(mt).
Awaited(i) == CASE pc[i] = "prepares" -> "prepare"
                [] pc[i] = "propose" -> "propose"
                [] pc[i] = "acks" -> "ack"
                [] OTHER -> "nothing"

\* receive drops what it was not called for, of any round.
Ignores(i, m) == m.type # Awaited(i) \/ m.round # round[i]

Discard(i, m) ==
  /\ Receiving(i) /\ m \in net /\ m.dst = i
  /\ IF m.type = "decide" THEN Refuses(i, m) ELSE Ignores(i, m)
  /\ net' = Consume(m)
  /\ UNCHANGED <<initial, serverVars, suspicions, nancyVars, historyVars>>

\* Phase 2: a PREPARE is counted before it is refused.
RefusePrepare(i, m) ==
  /\ pc[i] = "prepares" /\ Receiving(i) /\ Wants(i, "prepare", m) /\ Refuses(i, m)
  /\ net' = Consume(m)
  /\ heard' = [heard EXCEPT ![i] = @ \cup {m.src}]
  /\ UNCHANGED <<initial, pc, round, color, colorRound, decided, acked, suspicions, nancyVars,
                 historyVars>>

\* Phase 4: the proposal is treated as a timeout.
RefuseProposal(i, m) ==
  /\ pc[i] = "propose" /\ Wants(i, "propose", m) /\ Refuses(i, m)
  /\ LeavePhase4(i, FALSE, Consume(m))
  /\ UNCHANGED <<initial, color, colorRound, decided, suspicions, nancyVars, historyVars>>

Obey(i, m) ==
  /\ ~Refuses(i, m)
  /\ ReceivePrepare(i, m) \/ ReceivePropose(i, m) \/ ReceiveDecide(i, m)

StubbornReceive(i) ==
  \E m \in net : \/ Discard(i, m) \/ RefusePrepare(i, m) \/ RefuseProposal(i, m)
                 \/ Obey(i, m) \/ ReceiveAck(i, m)

StubbornStep(i) ==
  /\ verdict = "waiting"
  /\ \/ Prepare(i) /\ round[i] <= MaxRound
     \/ Propose(i) \/ CountAcks(i) \/ Announce(i) \/ Suspect(i)
     \/ StubbornReceive(i)

StubbornNext ==
  /\ \/ \E i \in Server : StubbornStep(i)
     \/ NancyStep \/ Cleared
  /\ UNCHANGED stubborn
StubbornSpec == StubbornInit /\ [][StubbornNext]_stubbornVars

-----------------------------------------------------------------------------
(***************************************************************************)
(* Losing messages costs no safety: without a stash, servers that are not  *)
(* stubborn still agree, and Nancy finds nothing wrong.                    *)
(***************************************************************************)
PliantAgreement == stubborn = {} => Agreement /\ verdict # "error"

(***************************************************************************)
(* A stubborn server acknowledges and decides no color but the one it      *)
(* started with, whatever the others propose, decide and tell it.          *)
(***************************************************************************)
Stubbornness ==
  \A i \in stubborn : /\ color[i] = initial[i]
                      /\ \A v \in votes : v[1] = i => v[3] = initial[i]
                      /\ \A m \in net : m.type = "decide" /\ m.src = i => m.color = initial[i]

\* The pliant agree, and the stubborn never give up their color.
StubbornSafe == PliantAgreement /\ Stubbornness
=============================================================================
