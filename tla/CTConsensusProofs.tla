------------------------- MODULE CTConsensusProofs -------------------------
(***************************************************************************)
(* Proofs about CTConsensus for every number of servers, every set of      *)
(* colors and every number of suspicions.                                  *)
(***************************************************************************)
EXTENDS CTConsensus, FiniteSetTheorems, TLAPS

\* One-line helpers of the actions, expanded everywhere.
USE DEF Consume, Adopts, Succeeds, DecidedColor, Audience

\* Some majority accepted c in a round in which it was proposed.
Backed(c) == \E p \in proposals : p[2] = c /\ Chosen(p[1], c)

Input(c) == \E j \in Server : c = initial[j]

\* c is a server's initial color or was proposed in round cr.
HoldsProposal(c, cr) == cr = 0 \/ <<cr, c>> \in proposals

\* Server i accepted nothing between rounds lo and hi.
NoVoteBetween(i, lo, hi) ==
  \A v \in votes : v[1] = i => v[2] <= lo \/ v[2] >= hi

\* In every round before r a majority has moved on without accepting, and
\* will never accept, any color but c.
SafeAt(r, c) ==
  \A s \in 1 .. (r - 1) : \E Q \in Quorum :
    \A i \in Q : /\ round[i] > s
                 /\ \A v \in votes : v[1] = i /\ v[2] = s => v[3] = c

\* Where a server is suspended says what it has done in its round.
PhaseOf(i) ==
  /\ decided[i] <=> pc[i] \in {"decide", "done"}
  /\ pc[i] \in {"prepares", "acks"} => i = Leader(round[i])
  /\ colorRound[i] <= round[i]
  /\ pc[i] \in {"prepare", "prepares", "propose"} => colorRound[i] < round[i]
  /\ ~decided[i] => HoldsProposal(color[i], colorRound[i])
  /\ pc[i] \in {"propose", "acks"} /\ i = Leader(round[i])
       => <<round[i], color[i]>> \in proposals
  /\ decided[i] => Backed(color[i])
  /\ Input(color[i])

PhaseInv == \A i \in Server : PhaseOf(i)

\* What each message promises about its sender and the past.
MessageOf(m) ==
  /\ m.dst = Nancy => m.type = "decide"
  /\ m.type = "prepare" =>
       /\ m.round <= round[m.src] /\ m.colorRound < m.round
       /\ HoldsProposal(m.color, m.colorRound)
       /\ NoVoteBetween(m.src, m.colorRound, m.round)
       /\ Input(m.color)
  /\ m.type = "propose" => <<m.round, m.color>> \in proposals
  /\ m.type = "ack" /\ m.ack =>
       \E v \in votes : v[1] = m.src /\ v[2] = m.round
  /\ m.type = "decide" => Backed(m.color)

MessageInv == \A m \in net : MessageOf(m)

VoteInv ==
  \A v \in votes : /\ <<v[2], v[3]>> \in proposals
                   /\ v[2] <= colorRound[v[1]]

ProposalInv ==
  \A p \in proposals :
    /\ p[1] > 0
    /\ p[1] <= round[Leader(p[1])]
    /\ p[1] = round[Leader(p[1])] =>
         pc[Leader(p[1])] \notin {"prepare", "prepares"}
    /\ Input(p[2])
    /\ SafeAt(p[1], p[2])
    /\ \A q \in proposals : p[1] = q[1] => p[2] = q[2]

\* What the leader's counts stand for.
CountOf(i) ==
  /\ pc[i] = "prepares" =>
       \A j \in heard[i] : /\ round[j] >= round[i]
                           /\ NoVoteBetween(j, colorRound[i], round[i])
  /\ pc[i] = "acks" =>
       \A j \in acked[i] : \E v \in votes : v[1] = j /\ v[2] = round[i]

CountInv == \A i \in Server : CountOf(i)

NancyInv == /\ consensus # NoColor => Backed(consensus)
            /\ verdict # "error"

IInv == /\ TypeOK /\ PhaseInv /\ MessageInv /\ VoteInv /\ ProposalInv
        /\ CountInv /\ NancyInv
-----------------------------------------------------------------------------
\* Every round has a leader among the servers (round_ % N_).
LEMMA LeaderInServer == \A r \in Nat : Leader(r) \in Server
BY CTAssumption DEF Leader, Server

\* There are N servers.
LEMMA ServerCardinality == IsFiniteSet(Server) /\ Cardinality(Server) = N
BY FS_Interval, CTAssumption DEF Server

\* Two quorums have a server in common.
LEMMA QuorumsMeet ==
  ASSUME NEW P \in Quorum, NEW Q \in Quorum
  PROVE  P \cap Q # {}
<1>0. P \in SUBSET Server /\ Q \in SUBSET Server
  BY DEF Quorum
<1>1. /\ IsFiniteSet(P) /\ IsFiniteSet(Q) /\ IsFiniteSet(P \cup Q)
      /\ Cardinality(P \cup Q) <= N
  BY <1>0, ServerCardinality, FS_Subset
<1>2. Cardinality(P \cup Q)
        = Cardinality(P) + Cardinality(Q) - Cardinality(P \cap Q)
  BY <1>1, FS_Union
<1>3. SUFFICES ASSUME P \cap Q = {} PROVE FALSE
  OBVIOUS
<1>4. Cardinality(P \cap Q) = 0
  BY <1>3, FS_EmptySet
<1>5. Cardinality(P) \in Nat /\ Cardinality(Q) \in Nat
  BY <1>1, FS_CardinalityType
<1> QED
  BY <1>1, <1>2, <1>4, <1>5, CTAssumption DEF Quorum

\* More than N/2 servers are a quorum.
LEMMA MajorityIsQuorum ==
  ASSUME NEW Q \in SUBSET Server, Majority(Q) PROVE Q \in Quorum
<1>1. Cardinality(Q) \in Nat
  BY ServerCardinality, FS_Subset, FS_CardinalityType
<1> QED
  BY <1>1, CTAssumption DEF Majority, Quorum

-----------------------------------------------------------------------------
\* The messages the servers send are messages, and what is left unread of
\* a set of messages is part of it.
LEMMA MessageTypes ==
  /\ \A i \in Server, r \in Nat, c \in Color, cr \in Nat :
       PrepareMessage(i, r, c, cr) \in Message
  /\ \A i \in Server, j \in Server, r \in Nat, c \in Color :
       ProposeMessage(i, j, r, c) \in Message
  /\ \A i \in Server, r \in Nat, ok \in BOOLEAN :
       AckMessage(i, r, ok) \in Message
  /\ \A i \in Server, j \in Server \cup {Nancy}, c \in Color :
       DecideMessage(i, j, c) \in Message
BY LeaderInServer DEF Message, PrepareMessage, ProposeMessage, AckMessage,
   DecideMessage

LEMMA UnreadSubset == \A S, rounds : Unread(S, rounds) \subseteq S
BY DEF Unread

-----------------------------------------------------------------------------
\* One step of Next, split into the actions of the servers and of Nancy.
LEMMA NextCases ==
  ASSUME Next
  PROVE  \/ \E i \in Server : \/ Prepare(i) \/ Propose(i) \/ CountAcks(i)
                              \/ Announce(i) \/ Suspect(i)
                              \/ \E m \in net :
                                   \/ ReceivePrepare(i, m)
                                   \/ ReceivePropose(i, m)
                                   \/ ReceiveAck(i, m) \/ ReceiveDecide(i, m)
         \/ NancyStop \/ \E m \in net : NancyReceive(m)
         \/ UNCHANGED vars
BY DEF Next, ServerStep, Receive, Timeout, NancyStep, Cleared

LEMMA TypeInit == Init => TypeOK
BY CTAssumption DEF Init, TypeOK

\* Leaving Phase 4 keeps the types of what it changes.
LEMMA LeavePhase4Type ==
  ASSUME TypeOK, NEW i \in Server, NEW ok \in BOOLEAN, NEW mail \in SUBSET net,
         LeavePhase4(i, ok, mail)
  PROVE  /\ pc' \in [Server -> {"prepare", "prepares", "propose", "acks",
                                "decide", "done"}]
         /\ round' \in [Server -> Nat \ {0}]
         /\ heard' \in [Server -> SUBSET Server]
         /\ acked' \in [Server -> SUBSET Server]
         /\ net' \subseteq net \cup {AckMessage(i, round[i], ok)}
         /\ net' \subseteq Message
<1>1. net' \subseteq net \cup {AckMessage(i, round[i], ok)}
  BY UnreadSubset DEF LeavePhase4
<1>2. AckMessage(i, round[i], ok) \in Message
  BY MessageTypes DEF TypeOK
<1>3. round' \in [Server -> Nat \ {0}]
  <2>1. round[i] \in Nat /\ round[i] + 1 \in Nat \ {0}
    BY DEF TypeOK
  <2> QED
    BY <2>1 DEF LeavePhase4, TypeOK
<1> QED
  BY <1>1, <1>2, <1>3 DEF LeavePhase4, TypeOK

LEMMA TypeStep == TypeOK /\ [Next]_vars => TypeOK'
<1> SUFFICES ASSUME TypeOK, [Next]_vars PROVE TypeOK'
  OBVIOUS
<1> USE DEF TypeOK, nancyVars, historyVars, serverVars
<1>1. ASSUME NEW i \in Server, Prepare(i) PROVE TypeOK'
  BY <1>1, MessageTypes, UnreadSubset DEF Prepare
<1>2. ASSUME NEW i \in Server, Propose(i) PROVE TypeOK'
  <2>1. {ProposeMessage(i, j, round[i], color[i]) : j \in Server} \subseteq Message
    <3>1. round[i] \in Nat /\ color[i] \in Color
      OBVIOUS
    <3>2. \A j \in Server : ProposeMessage(i, j, round[i], color[i]) \in Message
      BY <3>1, MessageTypes
    <3> HIDE DEF TypeOK
    <3> QED
      BY <3>2
  <2>2. net' \subseteq Message
    BY <1>2, <2>1, UnreadSubset DEF Propose
  <2> QED
    BY <1>2, <2>2 DEF Propose
<1>3. ASSUME NEW i \in Server, CountAcks(i) PROVE TypeOK'
  <2>1. net' \subseteq Message
    BY <1>3, UnreadSubset DEF CountAcks
  <2>2. round' \in [Server -> Nat \ {0}]
    <3>1. round[i] \in Nat /\ round[i] + 1 \in Nat \ {0}
      OBVIOUS
    <3> QED
      BY <1>3, <3>1 DEF CountAcks
  <2> QED
    BY <1>3, <2>1, <2>2 DEF CountAcks
<1>4. ASSUME NEW i \in Server, Announce(i) PROVE TypeOK'
  <2>1. {DecideMessage(i, j, color[i]) : j \in (Server \cup {Nancy}) \ {i}}
          \subseteq Message
    <3>1. color[i] \in Color
      OBVIOUS
    <3>2. \A j \in Server \cup {Nancy} : DecideMessage(i, j, color[i]) \in Message
      BY <3>1, MessageTypes
    <3> HIDE DEF TypeOK
    <3> QED
      BY <3>2
  <2> QED
    BY <1>4, <2>1 DEF Announce
<1>5. ASSUME NEW i \in Server, Suspect(i) PROVE TypeOK'
  <2>1. suspicions' \in 0 .. MaxSuspicions
    BY <1>5, CTAssumption DEF Suspect
  <2>2. LeavePhase4(i, FALSE, net)
    BY <1>5 DEF Suspect
  <2> QED
    BY <1>5, <2>1, <2>2, LeavePhase4Type DEF Suspect
<1>6. ASSUME NEW i \in Server, NEW m \in net, ReceivePrepare(i, m) PROVE TypeOK'
  <2>1. m \in Message /\ m.color \in Color
    BY <1>6 DEF ReceivePrepare, Wants, Message
  <2>2. net' \subseteq Message /\ m.src \in Server /\ m.colorRound \in Nat
    BY <1>6, <2>1 DEF ReceivePrepare, Message
  <2> QED
    BY <1>6, <2>1, <2>2 DEF ReceivePrepare
<1>7. ASSUME NEW i \in Server, NEW m \in net, ReceivePropose(i, m) PROVE TypeOK'
  <2>1. m.color \in Color
    BY <1>7 DEF ReceivePropose, Wants, Message
  <2>2. LeavePhase4(i, TRUE, net \ {m})
    BY <1>7 DEF ReceivePropose
  <2>3. votes' \subseteq Server \X Nat \X Color
    BY <1>7, <2>1 DEF ReceivePropose
  <2>4. net \ {m} \in SUBSET net
    OBVIOUS
  <2>5. /\ color' \in [Server -> Color]
        /\ colorRound' \in [Server -> Nat]
    BY <1>7, <2>1 DEF ReceivePropose
  <2> QED
    BY <1>7, <2>2, <2>3, <2>4, <2>5, LeavePhase4Type DEF ReceivePropose
<1>8. ASSUME NEW i \in Server, NEW m \in net, ReceiveAck(i, m) PROVE TypeOK'
  <2>1. net' \subseteq Message /\ m.src \in Server
    BY <1>8 DEF ReceiveAck, Message
  <2> QED
    BY <1>8, <2>1 DEF ReceiveAck
<1>9. ASSUME NEW i \in Server, NEW m \in net, ReceiveDecide(i, m) PROVE TypeOK'
  <2>1. net' \subseteq Message /\ m.color \in Color
    BY <1>9 DEF ReceiveDecide, Message
  <2> QED
    BY <1>9, <2>1 DEF ReceiveDecide
<1>10. ASSUME NEW m \in net, NancyReceive(m) PROVE TypeOK'
  BY <1>10 DEF NancyReceive, Unacceptable
<1>11. ASSUME NancyStop PROVE TypeOK'
  BY <1>11 DEF NancyStop
<1>12. ASSUME UNCHANGED vars PROVE TypeOK'
  BY <1>12 DEF vars
<1> QED
  BY <1>1, <1>2, <1>3, <1>4, <1>5, <1>6, <1>7, <1>8, <1>9, <1>10, <1>11,
     <1>12, NextCases

\* Every variable keeps its type, for any number of servers.
THEOREM TypeCorrect == Spec => []TypeOK
BY TypeInit, TypeStep, PTL DEF Spec
-----------------------------------------------------------------------------
\* What every step keeps or only adds to; the one new vote a step can cast
\* is in the voter's current round.
LEMMA Monotone ==
  ASSUME TypeOK, [Next]_vars
  PROVE  /\ initial' = initial
         /\ votes \subseteq votes' /\ proposals \subseteq proposals'
         /\ \A i \in Server : round[i] <= round'[i]
         /\ \A v \in votes' \ votes : v[1] \in Server /\ v[2] = round[v[1]]
<1> USE DEF TypeOK, nancyVars, historyVars, serverVars
<1>1. ASSUME NEW i \in Server, NEW ok \in BOOLEAN, NEW mail,
             LeavePhase4(i, ok, mail)
      PROVE  \A j \in Server : round[j] <= round'[j]
  BY <1>1 DEF LeavePhase4
<1>2. ASSUME NEW i \in Server, NEW m \in net, ReceivePropose(i, m)
      PROVE  \A v \in votes' \ votes : v[1] \in Server /\ v[2] = round[v[1]]
  BY <1>2 DEF ReceivePropose
<1>3. ASSUME NEW i \in Server, NEW m \in net, ReceivePropose(i, m)
      PROVE  \A j \in Server : round[j] <= round'[j]
  BY <1>1, <1>3 DEF ReceivePropose
<1>4. ASSUME NEW i \in Server, Suspect(i)
      PROVE  \A j \in Server : round[j] <= round'[j]
  BY <1>1, <1>4 DEF Suspect
<1>5. ASSUME NEW i \in Server, CountAcks(i)
      PROVE  \A j \in Server : round[j] <= round'[j]
  BY <1>5 DEF CountAcks
<1>6. \A i \in Server : round[i] <= round[i]
  OBVIOUS
<1>7. initial' = initial /\ votes \subseteq votes' /\ proposals \subseteq proposals'
  BY NextCases DEF vars, Prepare, Propose, CountAcks, Announce, Suspect,
     ReceivePrepare, ReceivePropose, ReceiveAck, ReceiveDecide, NancyStop,
     NancyReceive
<1>8. \A v \in votes' \ votes : v[1] \in Server /\ v[2] = round[v[1]]
  BY <1>2, NextCases DEF vars, Prepare, Propose, CountAcks, Announce, Suspect,
     ReceivePrepare, ReceiveAck, ReceiveDecide, NancyStop, NancyReceive
<1>9. \A j \in Server : round[j] <= round'[j]
  BY <1>3, <1>4, <1>5, <1>6, NextCases DEF vars, Prepare, Propose, Announce,
     ReceivePrepare, ReceiveAck, ReceiveDecide, NancyStop, NancyReceive
<1> QED
  BY <1>7, <1>8, <1>9

\* The facts the invariant is made of are stable: once true, a step cannot
\* falsify them.
LEMMA Stable ==
  ASSUME TypeOK, TypeOK', [Next]_vars
  PROVE  /\ \A c : Input(c) => Input(c)'
         /\ \A c, cr : HoldsProposal(c, cr) => HoldsProposal(c, cr)'
         /\ \A r, c : Chosen(r, c) => Chosen(r, c)'
         /\ \A c : Backed(c) => Backed(c)'
         /\ \A i \in Server, lo, hi \in Nat :
              NoVoteBetween(i, lo, hi) /\ round[i] >= hi => NoVoteBetween(i, lo, hi)'
         /\ \A c : \A r \in Nat : SafeAt(r, c) => SafeAt(r, c)'
<1>1. \A c : Input(c) => Input(c)'
  BY Monotone DEF Input
<1>2. \A c, cr : HoldsProposal(c, cr) => HoldsProposal(c, cr)'
  BY Monotone DEF HoldsProposal
<1>3. \A r, c : Chosen(r, c) => Chosen(r, c)'
  BY Monotone DEF Chosen
<1>4. \A c : Backed(c) => Backed(c)'
  BY <1>3, Monotone DEF Backed
<1>5. ASSUME NEW i \in Server, NEW lo \in Nat, NEW hi \in Nat,
             NoVoteBetween(i, lo, hi), round[i] >= hi
      PROVE  NoVoteBetween(i, lo, hi)'
  BY <1>5, Monotone DEF NoVoteBetween, TypeOK
<1>6. ASSUME NEW r \in Nat, NEW c, SafeAt(r, c)
      PROVE  SafeAt(r, c)'
  <2> SUFFICES ASSUME NEW s \in 1 .. (r - 1)
               PROVE  \E Q \in Quorum :
                        \A i \in Q : /\ round'[i] > s
                                     /\ \A v \in votes' :
                                          v[1] = i /\ v[2] = s => v[3] = c
    BY DEF SafeAt
  <2>1. PICK Q \in Quorum :
          \A i \in Q : /\ round[i] > s
                       /\ \A v \in votes : v[1] = i /\ v[2] = s => v[3] = c
    BY <1>6 DEF SafeAt
  <2>2. ASSUME NEW i \in Q
        PROVE  /\ round'[i] > s
               /\ \A v \in votes' : v[1] = i /\ v[2] = s => v[3] = c
    <3>1. i \in Server /\ round[i] \in Nat /\ round'[i] \in Nat /\ round[i] > s
      BY <2>1 DEF TypeOK, Quorum
    <3> QED
      BY <2>1, <3>1, Monotone
  <2> QED
    BY <2>1, <2>2
<1> QED
  BY <1>1, <1>2, <1>3, <1>4, <1>5, <1>6
-----------------------------------------------------------------------------
LEMMA PhaseInit == Init => PhaseInv
BY DEF Init, PhaseInv, PhaseOf, HoldsProposal, Input

\* A server a step leaves alone is still where it was.
LEMMA PhaseUntouched ==
  ASSUME TypeOK, TypeOK', [Next]_vars, NEW i \in Server, PhaseOf(i),
         pc'[i] = pc[i], round'[i] = round[i], color'[i] = color[i],
         colorRound'[i] = colorRound[i], decided'[i] = decided[i]
  PROVE  PhaseOf(i)'
<1>1. proposals \subseteq proposals'
  BY Monotone
<1>2. Input(color[i])' /\ (decided[i] => Backed(color[i])')
  BY Stable DEF PhaseOf
<1>3. HoldsProposal(color[i], colorRound[i]) => HoldsProposal(color[i], colorRound[i])'
  BY Stable
<1> QED
  BY <1>1, <1>2, <1>3 DEF PhaseOf, Backed, Input, HoldsProposal

\* The leader that counts a majority of positive ACKs holds the color that
\* this majority accepted.
LEMMA AckedIsBacked ==
  ASSUME IInv, NEW i \in Server, pc[i] = "acks", Majority(acked[i])
  PROVE  Backed(color[i])
<1> USE DEF IInv
<1>1. acked[i] \in SUBSET Server /\ round[i] \in Nat
  BY DEF TypeOK
<1>2. <<round[i], color[i]>> \in proposals
  BY DEF PhaseInv, PhaseOf
<1>3. ASSUME NEW j \in acked[i] PROVE <<j, round[i], color[i]>> \in votes
  <2>1. PICK v \in votes : v[1] = j /\ v[2] = round[i]
    BY DEF CountInv, CountOf
  <2>2. <<v[2], v[3]>> \in proposals
    BY DEF VoteInv
  <2>3. v[3] = color[i]
    BY <1>2, <2>1, <2>2 DEF ProposalInv
  <2>4. v = <<v[1], v[2], v[3]>>
    BY DEF TypeOK
  <2> QED
    BY <2>1, <2>3, <2>4
<1>4. Chosen(round[i], color[i])
  BY <1>1, <1>3, MajorityIsQuorum DEF Chosen
<1> QED
  BY <1>2, <1>4 DEF Backed

LEMMA PhaseStep == IInv /\ TypeOK' /\ [Next]_vars => PhaseInv'
<1> SUFFICES ASSUME IInv, TypeOK', [Next]_vars PROVE PhaseInv'
  OBVIOUS
<1> USE DEF IInv, nancyVars, historyVars, serverVars
<1>0. ASSUME NEW j \in Server,
             pc'[j] = pc[j], round'[j] = round[j], color'[j] = color[j],
             colorRound'[j] = colorRound[j], decided'[j] = decided[j]
      PROVE  PhaseOf(j)'
  BY <1>0, PhaseUntouched DEF PhaseInv
<1>1. ASSUME NEW i \in Server, Prepare(i) PROVE PhaseInv'
  <2>1. PhaseOf(i)'
    BY <1>1, Stable DEF Prepare, PhaseInv, PhaseOf, TypeOK, HoldsProposal, Input, Backed
  <2> QED
    BY <1>0, <1>1, <2>1 DEF Prepare, PhaseInv, TypeOK
<1>2. ASSUME NEW i \in Server, Propose(i) PROVE PhaseInv'
  <2>1. PhaseOf(i)'
    BY <1>2 DEF Propose, PhaseInv, PhaseOf, TypeOK, HoldsProposal, Input
  <2> QED
    BY <1>0, <1>2, <2>1 DEF Propose, PhaseInv, TypeOK
<1>3. ASSUME NEW i \in Server, CountAcks(i) PROVE PhaseInv'
  <2>1. /\ pc[i] = "acks" /\ ~decided[i]
        /\ HoldsProposal(color[i], colorRound[i])
        /\ Input(color[i]) /\ colorRound[i] <= round[i]
        /\ round[i] \in Nat /\ colorRound[i] \in Nat
    BY <1>3 DEF CountAcks, PhaseInv, PhaseOf, TypeOK
  <2>2. color' = color /\ colorRound' = colorRound
    BY <1>3 DEF CountAcks
  <2>3. HoldsProposal(color[i], colorRound[i])' /\ Input(color[i])'
    BY <2>1, <2>2, Stable DEF HoldsProposal, Input
  <2>4. CASE Majority(acked[i])
    <3>1. Backed(color[i])'
      BY <2>1, <2>2, <2>4, AckedIsBacked, Stable DEF Backed
    <3> QED
      BY <1>3, <2>1, <2>2, <2>3, <2>4, <3>1, <1>0
      DEF CountAcks, PhaseInv, PhaseOf, TypeOK
  <2>5. CASE ~Majority(acked[i])
    BY <1>3, <2>1, <2>2, <2>3, <2>5, <1>0
    DEF CountAcks, PhaseInv, PhaseOf, TypeOK
  <2> QED
    BY <2>4, <2>5
<1>4. ASSUME NEW i \in Server, Announce(i) PROVE PhaseInv'
  <2>1. PhaseOf(i)'
    <3>1. Backed(color[i]) => Backed(color[i])'
      BY <1>4, Stable DEF Announce, Backed
    <3>2. Input(color[i])' /\ (HoldsProposal(color[i], colorRound[i])
                                 => HoldsProposal(color[i], colorRound[i])')
      BY <1>4, Stable DEF Announce, PhaseInv, PhaseOf, Input, HoldsProposal
    <3> QED
      BY <1>4, <3>1, <3>2 DEF Announce, PhaseInv, PhaseOf, TypeOK
  <2> QED
    BY <1>0, <1>4, <2>1 DEF Announce, PhaseInv, TypeOK
<1>5. ASSUME NEW i \in Server, Suspect(i) PROVE PhaseInv'
  <2>1. /\ pc[i] = "propose" /\ LeavePhase4(i, FALSE, net)
        /\ color' = color /\ colorRound' = colorRound /\ decided' = decided
        /\ proposals' = proposals
    BY <1>5 DEF Suspect
  <2>2. PhaseOf(i)'
    <3>1. /\ ~decided[i] /\ HoldsProposal(color[i], colorRound[i])
          /\ Input(color[i]) /\ colorRound[i] < round[i]
          /\ i = Leader(round[i]) => <<round[i], color[i]>> \in proposals
          /\ round[i] \in Nat /\ colorRound[i] \in Nat
      BY <2>1 DEF PhaseInv, PhaseOf, TypeOK
    <3>2. HoldsProposal(color[i], colorRound[i])' /\ Input(color[i])'
      BY <2>1, <3>1, Stable DEF HoldsProposal, Input
    <3> QED
      BY <2>1, <3>1, <3>2 DEF LeavePhase4, PhaseOf, TypeOK
  <2> QED
    BY <1>0, <2>1, <2>2 DEF LeavePhase4, PhaseInv, TypeOK
<1>6. ASSUME NEW i \in Server, NEW m \in net, ReceivePrepare(i, m) PROVE PhaseInv'
  <2>1. /\ m.colorRound < round[i] /\ HoldsProposal(m.color, m.colorRound)
        /\ Input(m.color) /\ m.colorRound \in Nat
    BY <1>6 DEF ReceivePrepare, Wants, MessageInv, MessageOf, TypeOK, Message
  <2>2. PhaseOf(i)'
    <3>1. /\ pc' = pc /\ round' = round /\ decided' = decided
          /\ proposals' = proposals /\ initial' = initial
          /\ pc[i] = "prepares" /\ ~decided[i]
      BY <1>6 DEF ReceivePrepare, PhaseInv, PhaseOf
    <3>2. /\ PhaseOf(i) /\ round[i] \in Nat /\ colorRound[i] \in Nat
      BY DEF PhaseInv, TypeOK
    <3>3. CASE m.colorRound > colorRound[i]
      <4>1. color'[i] = m.color /\ colorRound'[i] = m.colorRound
        BY <1>6, <3>3 DEF ReceivePrepare, TypeOK
      <4> QED
        BY <2>1, <3>1, <3>2, <4>1 DEF PhaseOf, HoldsProposal, Input
    <3>4. CASE ~(m.colorRound > colorRound[i])
      <4>1. color' = color /\ colorRound' = colorRound
        BY <1>6, <3>4 DEF ReceivePrepare
      <4> QED
        BY <3>1, <3>2, <4>1 DEF PhaseOf, HoldsProposal, Input
    <3> QED
      BY <3>3, <3>4
  <2> QED
    BY <1>0, <1>6, <2>2 DEF ReceivePrepare, PhaseInv, TypeOK
<1>7. ASSUME NEW i \in Server, NEW m \in net, ReceivePropose(i, m) PROVE PhaseInv'
  <2>1. /\ pc[i] = "propose" /\ LeavePhase4(i, TRUE, net \ {m})
        /\ color' = [color EXCEPT ![i] = m.color]
        /\ colorRound' = [colorRound EXCEPT ![i] = round[i]]
        /\ decided' = decided /\ proposals' = proposals /\ initial' = initial
    BY <1>7 DEF ReceivePropose
  <2>2. <<round[i], m.color>> \in proposals /\ Input(m.color)
    BY <1>7 DEF ReceivePropose, Wants, MessageInv, MessageOf, ProposalInv
  <2>3. PhaseOf(i)'
    <3>1. ~decided[i] /\ round[i] \in Nat
      BY <2>1 DEF PhaseInv, PhaseOf, TypeOK
    <3>2. color'[i] = m.color /\ colorRound'[i] = round[i] /\ ~decided'[i]
      BY <2>1, <3>1 DEF TypeOK
    <3>3. Input(color[i])' /\ HoldsProposal(color[i], colorRound[i])'
      BY <2>1, <2>2, <3>2 DEF Input, HoldsProposal
    <3> QED
      BY <2>1, <2>2, <3>1, <3>2, <3>3 DEF LeavePhase4, PhaseOf, TypeOK
  <2> QED
    BY <1>0, <2>1, <2>3 DEF LeavePhase4, PhaseInv, TypeOK
<1>8. ASSUME NEW i \in Server, NEW m \in net, ReceiveAck(i, m) PROVE PhaseInv'
  BY <1>0, <1>8 DEF ReceiveAck, PhaseInv
<1>9. ASSUME NEW i \in Server, NEW m \in net, ReceiveDecide(i, m) PROVE PhaseInv'
  <2>1. Backed(m.color)
    BY <1>9 DEF ReceiveDecide, MessageInv, MessageOf
  <2>2. Input(m.color)
    BY <2>1 DEF Backed, ProposalInv
  <2>3. /\ color'[i] = m.color /\ decided'[i] /\ pc'[i] = "decide"
        /\ round' = round /\ colorRound' = colorRound
    BY <1>9 DEF ReceiveDecide, TypeOK
  <2>4. Backed(color[i])' /\ Input(color[i])'
    BY <2>1, <2>2, <2>3, Stable DEF Backed, Input
  <2>5. PhaseOf(i)'
    BY <2>3, <2>4 DEF PhaseInv, PhaseOf
  <2> QED
    BY <1>0, <1>9, <2>5 DEF ReceiveDecide, PhaseInv, TypeOK
<1>10. ASSUME NEW m \in net, NancyReceive(m) PROVE PhaseInv'
  BY <1>0, <1>10 DEF NancyReceive, PhaseInv
<1>11. ASSUME NancyStop PROVE PhaseInv'
  BY <1>0, <1>11 DEF NancyStop, PhaseInv
<1>12. ASSUME UNCHANGED vars PROVE PhaseInv'
  BY <1>0, <1>12 DEF vars, PhaseInv
<1> QED
  BY <1>1, <1>2, <1>3, <1>4, <1>5, <1>6, <1>7, <1>8, <1>9, <1>10, <1>11,
     <1>12, NextCases
-----------------------------------------------------------------------------
\* A promise once made is kept by every step.
LEMMA MessageKept ==
  ASSUME TypeOK, TypeOK', [Next]_vars, NEW m \in Message, MessageOf(m)
  PROVE  MessageOf(m)'
<1>1. /\ m.src \in Server /\ m.round \in Nat /\ m.colorRound \in Nat
      /\ round[m.src] \in Nat /\ round'[m.src] \in Nat
  BY DEF Message, TypeOK
<1>2. m.type = "prepare" =>
        /\ m.round <= round'[m.src] /\ m.colorRound < m.round
        /\ HoldsProposal(m.color, m.colorRound)'
        /\ NoVoteBetween(m.src, m.colorRound, m.round)'
        /\ Input(m.color)'
  <2> SUFFICES ASSUME m.type = "prepare"
               PROVE  /\ m.round <= round'[m.src] /\ m.colorRound < m.round
                      /\ HoldsProposal(m.color, m.colorRound)'
                      /\ NoVoteBetween(m.src, m.colorRound, m.round)'
                      /\ Input(m.color)'
    OBVIOUS
  <2>1. /\ m.round <= round[m.src] /\ m.colorRound < m.round
        /\ HoldsProposal(m.color, m.colorRound) /\ Input(m.color)
        /\ NoVoteBetween(m.src, m.colorRound, m.round)
    BY DEF MessageOf
  <2>2. round[m.src] <= round'[m.src]
    BY <1>1, Monotone
  <2> QED
    BY <1>1, <2>1, <2>2, Stable
<1>3. m.type = "decide" => Backed(m.color)'
  BY Stable DEF MessageOf
<1> QED
  BY <1>2, <1>3, Monotone DEF MessageOf

LEMMA MessageInit == Init => MessageInv
BY DEF Init, MessageInv

LEMMA MessageStep == IInv /\ TypeOK' /\ [Next]_vars => MessageInv'
<1> SUFFICES ASSUME IInv, TypeOK', [Next]_vars PROVE MessageInv'
  OBVIOUS
<1> USE DEF IInv, nancyVars, historyVars, serverVars
<1>0. ASSUME NEW m \in net PROVE MessageOf(m)'
  BY <1>0, MessageKept DEF MessageInv, TypeOK
<1>13. \A j \in Server : j # Nancy
  BY CTAssumption DEF Server, Nancy
<1>1. ASSUME NEW i \in Server, Prepare(i) PROVE MessageInv'
  <2> DEFINE new == PrepareMessage(i, round[i], color[i], colorRound[i])
  <2>1. net' \subseteq net \cup {new}
    BY <1>1, UnreadSubset DEF Prepare
  <2>2. /\ round' = round /\ round[i] \in Nat /\ colorRound[i] \in Nat
        /\ colorRound[i] < round[i] /\ HoldsProposal(color[i], colorRound[i])
        /\ Input(color[i])
    BY <1>1 DEF Prepare, PhaseInv, PhaseOf, TypeOK
  <2>3. NoVoteBetween(i, colorRound[i], round[i])
    BY DEF NoVoteBetween, VoteInv
  <2>4. /\ new.dst # Nancy /\ new.type = "prepare" /\ new.src = i
        /\ new.round = round[i] /\ new.colorRound = colorRound[i]
        /\ new.color = color[i]
    BY <1>13, <2>2, LeaderInServer DEF PrepareMessage
  <2>5. MessageOf(new)
    BY <2>2, <2>3, <2>4 DEF MessageOf
  <2>6. new \in Message
    BY MessageTypes, <2>2 DEF TypeOK
  <2>7. ASSUME NEW m, m = new PROVE MessageOf(m)'
    BY <2>5, <2>6, <2>7, MessageKept
  <2> QED
    BY <1>0, <2>1, <2>7 DEF MessageInv
<1>2. ASSUME NEW i \in Server, Propose(i) PROVE MessageInv'
  <2>1. net' \subseteq net \cup
          {ProposeMessage(i, j, round[i], color[i]) : j \in Server}
    BY <1>2, UnreadSubset DEF Propose
  <2>2. proposals' = proposals \cup {<<round[i], color[i]>>}
    BY <1>2 DEF Propose
  <2>3. ASSUME NEW m, NEW j \in Server,
               m = ProposeMessage(i, j, round[i], color[i])
        PROVE  MessageOf(m)'
    <3>1. /\ m.dst # Nancy /\ m.type = "propose"
          /\ m.round = round[i] /\ m.color = color[i]
      BY <1>13, <2>3 DEF ProposeMessage
    <3> QED
      BY <2>2, <3>1 DEF MessageOf
  <2> QED
    BY <1>0, <2>1, <2>3 DEF MessageInv
<1>3. ASSUME NEW i \in Server, CountAcks(i) PROVE MessageInv'
  BY <1>0, <1>3, UnreadSubset DEF CountAcks, MessageInv
<1>4. ASSUME NEW i \in Server, Announce(i) PROVE MessageInv'
  <2>1. Backed(color[i])
    BY <1>4 DEF Announce, PhaseInv, PhaseOf
  <2>2. Backed(color[i]) => \A j : MessageOf(DecideMessage(i, j, color[i]))
    BY DEF DecideMessage, MessageOf
  <2>3. ASSUME NEW m, NEW j \in Server \cup {Nancy},
               m = DecideMessage(i, j, color[i])
        PROVE  MessageOf(m)'
    BY <2>1, <2>2, <2>3, MessageTypes, MessageKept DEF TypeOK
  <2> QED
    BY <1>0, <1>4, <2>3 DEF Announce, MessageInv
<1>5. ASSUME NEW i \in Server, Suspect(i) PROVE MessageInv'
  <2> DEFINE new == AckMessage(i, round[i], FALSE)
  <2>1. net' \subseteq net \cup {new}
    BY <1>5, UnreadSubset DEF Suspect, LeavePhase4
  <2>2. new.dst # Nancy /\ new.type = "ack" /\ ~new.ack
    BY <1>13, LeaderInServer DEF AckMessage, TypeOK
  <2>3. ASSUME NEW m, m = new PROVE MessageOf(m)'
    BY <2>2, <2>3 DEF MessageOf
  <2> QED
    BY <1>0, <2>1, <2>3 DEF MessageInv
<1>6. ASSUME NEW i \in Server, NEW m \in net, ReceivePrepare(i, m) PROVE MessageInv'
  BY <1>0, <1>6 DEF ReceivePrepare, MessageInv
<1>7. ASSUME NEW i \in Server, NEW m \in net, ReceivePropose(i, m) PROVE MessageInv'
  <2> DEFINE new == AckMessage(i, round[i], TRUE)
  <2>1. net' \subseteq net \cup {new}
    BY <1>7, UnreadSubset DEF ReceivePropose, LeavePhase4
  <2>2. new.dst # Nancy /\ new.type = "ack" /\ new.src = i /\ new.round = round[i]
    BY <1>13, LeaderInServer DEF AckMessage, TypeOK
  <2>3. votes' = votes \cup {<<i, round[i], m.color>>}
    BY <1>7 DEF ReceivePropose
  <2>4. ASSUME NEW n, n = new PROVE MessageOf(n)'
    <3>1. /\ n.dst # Nancy /\ n.type = "ack"
          /\ n.src = i /\ n.round = round[i]
      BY <2>2, <2>4
    <3>2. \E v \in votes' : v[1] = n.src /\ v[2] = n.round
      <4>1. <<i, round[i], m.color>> \in votes'
        BY <2>3
      <4> QED
        BY <3>1, <4>1
    <3> QED
      BY <3>1, <3>2 DEF MessageOf
  <2> QED
    BY <1>0, <2>1, <2>4 DEF MessageInv
<1>8. ASSUME NEW i \in Server, NEW m \in net, ReceiveAck(i, m) PROVE MessageInv'
  BY <1>0, <1>8 DEF ReceiveAck, MessageInv
<1>9. ASSUME NEW i \in Server, NEW m \in net, ReceiveDecide(i, m) PROVE MessageInv'
  BY <1>0, <1>9 DEF ReceiveDecide, MessageInv
<1>10. ASSUME NEW m \in net, NancyReceive(m) PROVE MessageInv'
  BY <1>0, <1>10 DEF NancyReceive, MessageInv
<1>11. ASSUME NancyStop PROVE MessageInv'
  BY <1>0, <1>11 DEF NancyStop, MessageInv
<1>12. ASSUME UNCHANGED vars PROVE MessageInv'
  BY <1>0, <1>12 DEF vars, MessageInv
<1> QED
  BY <1>1, <1>2, <1>3, <1>4, <1>5, <1>6, <1>7, <1>8, <1>9, <1>10, <1>11,
     <1>12, NextCases
-----------------------------------------------------------------------------
LEMMA VoteInit == Init => VoteInv
BY DEF Init, VoteInv

LEMMA VoteStep == IInv /\ TypeOK' /\ [Next]_vars => VoteInv'
<1> SUFFICES ASSUME IInv, TypeOK', [Next]_vars PROVE VoteInv'
  OBVIOUS
<1> USE DEF IInv, nancyVars, historyVars, serverVars
<1>1. ASSUME votes' = votes,
             \A j \in Server : colorRound[j] <= colorRound'[j]
      PROVE  VoteInv'
  <2>1. ASSUME NEW v \in votes
        PROVE  <<v[2], v[3]>> \in proposals' /\ v[2] <= colorRound'[v[1]]
    <3>1. /\ v[1] \in Server /\ v[2] \in Nat
          /\ colorRound[v[1]] \in Nat /\ colorRound'[v[1]] \in Nat
      BY DEF TypeOK
    <3>2. <<v[2], v[3]>> \in proposals /\ v[2] <= colorRound[v[1]]
      BY DEF VoteInv
    <3> QED
      BY <1>1, <3>1, <3>2, Monotone
  <2> QED
    BY <1>1, <2>1 DEF VoteInv
<1>2. \A j \in Server : colorRound[j] <= colorRound[j]
  BY DEF TypeOK
<1>3. ASSUME NEW i \in Server, NEW m \in net, ReceivePrepare(i, m) PROVE VoteInv'
  <2>1. \A j \in Server : colorRound[j] <= colorRound'[j]
    BY <1>2, <1>3 DEF ReceivePrepare, TypeOK, Message
  <2> QED
    BY <1>1, <1>3, <2>1 DEF ReceivePrepare
<1>4. ASSUME NEW i \in Server, NEW m \in net, ReceivePropose(i, m) PROVE VoteInv'
  <2>1. /\ votes' = votes \cup {<<i, round[i], m.color>>}
        /\ colorRound' = [colorRound EXCEPT ![i] = round[i]]
        /\ proposals' = proposals /\ <<round[i], m.color>> \in proposals
        /\ colorRound[i] < round[i]
    BY <1>4 DEF ReceivePropose, Wants, MessageInv, MessageOf, PhaseInv, PhaseOf
  <2>2. ASSUME NEW v \in votes
        PROVE  <<v[2], v[3]>> \in proposals' /\ v[2] <= colorRound'[v[1]]
    <3>1. /\ v[1] \in Server /\ v[2] \in Nat /\ round[i] \in Nat
          /\ colorRound[v[1]] \in Nat /\ colorRound'[v[1]] \in Nat
      BY DEF TypeOK
    <3>2. <<v[2], v[3]>> \in proposals /\ v[2] <= colorRound[v[1]]
      BY DEF VoteInv
    <3> QED
      BY <2>1, <3>1, <3>2 DEF TypeOK
  <2>3. <<round[i], m.color>> \in proposals' /\ round[i] <= colorRound'[i]
    BY <2>1 DEF TypeOK
  <2>4. ASSUME NEW v, v = <<i, round[i], m.color>>
        PROVE  <<v[2], v[3]>> \in proposals' /\ v[2] <= colorRound'[v[1]]
    <3>1. v[1] = i /\ v[2] = round[i] /\ v[3] = m.color
      BY <2>4
    <3> QED
      BY <2>3, <3>1
  <2> QED
    BY <2>1, <2>2, <2>4 DEF VoteInv
<1> QED
  BY <1>1, <1>2, <1>3, <1>4, NextCases DEF vars, Prepare, Propose, CountAcks,
     Announce, Suspect, ReceiveAck, ReceiveDecide, NancyStop, NancyReceive

-----------------------------------------------------------------------------
LEMMA ProposalInit == Init => ProposalInv
BY DEF Init, ProposalInv

\* The locking argument: the color the leader holds after a majority of
\* PREPAREs is safe to propose.
LEMMA LeaderColorIsSafe ==
  ASSUME IInv, NEW i \in Server, pc[i] = "prepares", Majority(heard[i])
  PROVE  SafeAt(round[i], color[i])
<1> USE DEF IInv
<1> DEFINE cr == colorRound[i]
<1>1. /\ round[i] \in Nat /\ cr \in Nat /\ cr < round[i]
      /\ HoldsProposal(color[i], cr)
      /\ heard[i] \in SUBSET Server /\ heard[i] \in Quorum
  BY MajorityIsQuorum DEF TypeOK, PhaseInv, PhaseOf
<1>2. \A j \in heard[i] : round[j] >= round[i] /\ NoVoteBetween(j, cr, round[i])
  BY DEF CountInv, CountOf
<1> SUFFICES ASSUME NEW s \in 1 .. (round[i] - 1)
             PROVE  \E Q \in Quorum :
                      \A j \in Q : /\ round[j] > s
                                   /\ \A v \in votes : v[1] = j /\ v[2] = s
                                        => v[3] = color[i]
  BY DEF SafeAt
<1>3. CASE s > cr
  <2>1. ASSUME NEW j \in heard[i]
        PROVE  round[j] > s /\ \A v \in votes : v[1] = j => v[2] # s
    <3>1. j \in Server /\ round[j] \in Nat /\ votes \subseteq Server \X Nat \X Color
      BY <1>1 DEF TypeOK
    <3> QED
      BY <1>1, <1>2, <1>3, <3>1 DEF NoVoteBetween
  <2> QED
    BY <1>1, <2>1
<1>4. CASE s = cr
  <2>1. <<cr, color[i]>> \in proposals
    BY <1>1, <1>4 DEF HoldsProposal
  <2>2. ASSUME NEW j \in heard[i] PROVE round[j] > s
    BY <1>1, <1>2, <1>4 DEF TypeOK
  <2>3. ASSUME NEW v \in votes, v[2] = s PROVE v[3] = color[i]
    BY <1>4, <2>1, <2>3 DEF VoteInv, ProposalInv
  <2> QED
    BY <1>1, <2>2, <2>3
<1>5. CASE s < cr
  <2>1. SafeAt(cr, color[i])
    BY <1>1, <1>5 DEF HoldsProposal, ProposalInv
  <2>2. s \in 1 .. (cr - 1)
    BY <1>1, <1>5
  <2> QED
    BY <2>1, <2>2 DEF SafeAt
<1> QED
  BY <1>1, <1>3, <1>4, <1>5

\* A server past Phase 3 of its round is back in Phase 1 only in a later one.
LEMMA PhaseAdvances ==
  ASSUME TypeOK, [Next]_vars, NEW j \in Server
  PROVE  \/ round'[j] > round[j]
         \/ /\ round'[j] = round[j]
            /\ pc[j] \notin {"prepare", "prepares"} =>
                 pc'[j] \notin {"prepare", "prepares"}
<1> USE DEF TypeOK, nancyVars, historyVars, serverVars
<1> DEFINE Advances == \/ round'[j] > round[j]
                       \/ /\ round'[j] = round[j]
                          /\ pc[j] \notin {"prepare", "prepares"} =>
                               pc'[j] \notin {"prepare", "prepares"}
<1>1. ASSUME NEW i \in Server, NEW ok \in BOOLEAN, NEW mail,
             LeavePhase4(i, ok, mail)
      PROVE  Advances
  <2>1. round[i] + 1 > round[i]
    OBVIOUS
  <2> QED
    BY <1>1, <2>1 DEF LeavePhase4
<1>2. ASSUME NEW i \in Server, NEW m \in net, ReceivePropose(i, m) PROVE Advances
  BY <1>1, <1>2 DEF ReceivePropose
<1>3. ASSUME NEW i \in Server, Suspect(i) PROVE Advances
  BY <1>1, <1>3 DEF Suspect
<1>4. ASSUME NEW i \in Server, CountAcks(i) PROVE Advances
  BY <1>4 DEF CountAcks
<1>5. ASSUME NEW i \in Server, Prepare(i) PROVE Advances
  BY <1>5 DEF Prepare
<1>6. ASSUME NEW i \in Server, Propose(i) PROVE Advances
  BY <1>6 DEF Propose
<1>7. ASSUME NEW i \in Server, Announce(i) PROVE Advances
  BY <1>7 DEF Announce
<1>8. ASSUME NEW i \in Server, NEW m \in net, ReceiveDecide(i, m) PROVE Advances
  BY <1>8 DEF ReceiveDecide
<1> QED
  BY <1>2, <1>3, <1>4, <1>5, <1>6, <1>7, <1>8, NextCases
  DEF vars, ReceivePrepare, ReceiveAck, NancyStop, NancyReceive

LEMMA ProposalStep == IInv /\ TypeOK' /\ [Next]_vars => ProposalInv'
<1> SUFFICES ASSUME IInv, TypeOK', [Next]_vars PROVE ProposalInv'
  OBVIOUS
<1> USE DEF IInv, nancyVars, historyVars, serverVars
<1>1. ASSUME NEW p \in proposals
      PROVE  /\ p[1] > 0
             /\ p[1] <= round'[Leader(p[1])]
             /\ p[1] = round'[Leader(p[1])] =>
                  pc'[Leader(p[1])] \notin {"prepare", "prepares"}
             /\ Input(p[2])'
             /\ SafeAt(p[1], p[2])'
  <2>1. p[1] \in Nat /\ Leader(p[1]) \in Server
    BY LeaderInServer DEF TypeOK
  <2>2. /\ p[1] > 0
        /\ p[1] <= round[Leader(p[1])]
        /\ p[1] = round[Leader(p[1])] =>
             pc[Leader(p[1])] \notin {"prepare", "prepares"}
        /\ Input(p[2]) /\ SafeAt(p[1], p[2])
    BY DEF ProposalInv
  <2>3. round[Leader(p[1])] \in Nat /\ round'[Leader(p[1])] \in Nat
    BY <2>1 DEF TypeOK
  <2> QED
    BY <2>1, <2>2, <2>3, Stable, PhaseAdvances
<1>2. CASE proposals' = proposals
  BY <1>1, <1>2 DEF ProposalInv
<1>3. ASSUME NEW i \in Server, Propose(i) PROVE ProposalInv'
  <2> DEFINE new == <<round[i], color[i]>>
  <2>1. /\ proposals' = proposals \cup {new} /\ pc[i] = "prepares"
        /\ Majority(heard[i]) /\ pc'[i] = "propose" /\ round' = round
        /\ i = Leader(round[i]) /\ round[i] \in Nat \ {0}
        /\ Input(color[i])
    BY <1>3 DEF Propose, PhaseInv, PhaseOf, TypeOK
  <2>2. \A p \in proposals : p[1] # round[i]
    BY <2>1 DEF ProposalInv
  <2>3. ASSUME NEW p, p = new
        PROVE  /\ p[1] > 0
               /\ p[1] <= round'[Leader(p[1])]
               /\ p[1] = round'[Leader(p[1])] =>
                    pc'[Leader(p[1])] \notin {"prepare", "prepares"}
               /\ Input(p[2])'
               /\ SafeAt(p[1], p[2])'
    <3>1. p[1] = round[i] /\ p[2] = color[i]
      BY <2>3
    <3>2. SafeAt(p[1], p[2]) /\ p[1] \in Nat
      BY <2>1, <3>1, LeaderColorIsSafe
    <3>3. Input(p[2])' /\ SafeAt(p[1], p[2])'
      BY <2>1, <3>1, <3>2, Stable
    <3> QED
      BY <2>1, <3>1, <3>3
  <2>4. \A p, q \in proposals' : p[1] = q[1] => p[2] = q[2]
    <3>1. new[1] = round[i]
      OBVIOUS
    <3>2. \A p, q \in proposals : p[1] = q[1] => p[2] = q[2]
      BY DEF ProposalInv
    <3> QED
      BY <2>1, <2>2, <3>1, <3>2
  <2> QED
    BY <1>1, <2>1, <2>3, <2>4 DEF ProposalInv
<1> QED
  BY <1>2, <1>3, NextCases DEF vars, Prepare, CountAcks, Announce, Suspect,
     ReceivePrepare, ReceivePropose, ReceiveAck, ReceiveDecide, NancyStop,
     NancyReceive

-----------------------------------------------------------------------------
LEMMA CountInit == Init => CountInv
BY DEF Init, CountInv, CountOf

\* The counts of a server a step leaves alone still stand for the same.
LEMMA CountUntouched ==
  ASSUME TypeOK, TypeOK', [Next]_vars, NEW i \in Server, CountOf(i),
         pc'[i] = pc[i], round'[i] = round[i], colorRound'[i] = colorRound[i],
         heard'[i] = heard[i], acked'[i] = acked[i]
  PROVE  CountOf(i)'
<1>1. ASSUME pc[i] = "prepares", NEW j \in heard[i]
      PROVE  /\ round'[j] >= round'[i]
             /\ \A v \in votes' : v[1] = j => v[2] <= colorRound'[i]
                                              \/ v[2] >= round'[i]
  <2>1. /\ j \in Server /\ round[j] \in Nat /\ round'[j] \in Nat
        /\ round[i] \in Nat /\ colorRound[i] \in Nat
    BY DEF TypeOK
  <2>2. round[j] >= round[i] /\ NoVoteBetween(j, colorRound[i], round[i])
    BY <1>1 DEF CountOf
  <2>3. round[j] <= round'[j]
    BY <2>1, Monotone
  <2>4. \A v \in votes' \ votes : v[1] = j => v[2] >= round[i]
    BY <2>1, <2>2, Monotone
  <2> QED
    BY <2>1, <2>2, <2>3, <2>4 DEF NoVoteBetween
<1>2. ASSUME pc[i] = "acks", NEW j \in acked[i]
      PROVE  \E v \in votes' : v[1] = j /\ v[2] = round'[i]
  BY <1>2, Monotone DEF CountOf
<1> QED
  BY <1>1, <1>2 DEF CountOf, NoVoteBetween

LEMMA CountStep == IInv /\ TypeOK' /\ [Next]_vars => CountInv'
<1> SUFFICES ASSUME IInv, TypeOK', [Next]_vars PROVE CountInv'
  OBVIOUS
<1> USE DEF IInv, nancyVars, historyVars, serverVars
<1>0. ASSUME NEW j \in Server,
             pc'[j] = pc[j], round'[j] = round[j],
             colorRound'[j] = colorRound[j], heard'[j] = heard[j],
             acked'[j] = acked[j]
      PROVE  CountOf(j)'
  BY <1>0, CountUntouched DEF CountInv
<1>1. ASSUME NEW i \in Server, Prepare(i) PROVE CountInv'
  <2>1. pc'[i] # "acks" /\ heard'[i] = {}
    BY <1>1 DEF Prepare, TypeOK
  <2> QED
    BY <1>0, <1>1, <2>1 DEF Prepare, CountInv, CountOf, TypeOK
<1>2. ASSUME NEW i \in Server, Propose(i) PROVE CountInv'
  BY <1>0, <1>2 DEF Propose, CountInv, CountOf, TypeOK
<1>3. ASSUME NEW i \in Server, CountAcks(i) PROVE CountInv'
  BY <1>0, <1>3 DEF CountAcks, CountInv, CountOf, TypeOK
<1>4. ASSUME NEW i \in Server, Announce(i) PROVE CountInv'
  BY <1>0, <1>4 DEF Announce, CountInv, CountOf, TypeOK
<1>5. ASSUME NEW i \in Server, NEW ok \in BOOLEAN, NEW mail,
             LeavePhase4(i, ok, mail),
             \A j \in Server \ {i} : colorRound'[j] = colorRound[j]
      PROVE  CountInv'
  <2>1. pc'[i] # "prepares" /\ (pc'[i] = "acks" => acked'[i] = {})
    BY <1>5 DEF LeavePhase4, TypeOK
  <2>2. CountOf(i)'
    BY <2>1 DEF CountOf
  <2>3. ASSUME NEW j \in Server \ {i} PROVE CountOf(j)'
    <3>1. /\ pc'[j] = pc[j] /\ round'[j] = round[j]
          /\ heard'[j] = heard[j] /\ acked'[j] = acked[j]
      BY <1>5 DEF LeavePhase4, TypeOK
    <3> QED
      BY <1>0, <1>5, <3>1
  <2> QED
    BY <2>2, <2>3 DEF CountInv
<1>6. ASSUME NEW i \in Server, Suspect(i) PROVE CountInv'
  BY <1>5, <1>6 DEF Suspect
<1>7. ASSUME NEW i \in Server, NEW m \in net, ReceivePropose(i, m) PROVE CountInv'
  <2>1. \A j \in Server \ {i} : colorRound'[j] = colorRound[j]
    BY <1>7 DEF ReceivePropose, TypeOK
  <2> QED
    BY <1>5, <1>7, <2>1 DEF ReceivePropose
<1>8. ASSUME NEW i \in Server, NEW m \in net, ReceivePrepare(i, m) PROVE CountInv'
  <2>1. /\ pc[i] = "prepares" /\ pc' = pc /\ round' = round /\ votes' = votes
        /\ heard' = [heard EXCEPT ![i] = @ \cup {m.src}] /\ acked' = acked
    BY <1>8 DEF ReceivePrepare
  <2>2. /\ m.src \in Server /\ m.colorRound \in Nat /\ round[i] \in Nat
        /\ colorRound[i] \in Nat /\ colorRound'[i] \in Nat
    BY DEF TypeOK, Message
  <2>3. colorRound[i] <= colorRound'[i] /\ m.colorRound <= colorRound'[i]
    BY <1>8, <2>2 DEF ReceivePrepare, TypeOK
  <2>4. /\ round[m.src] >= round[i]
        /\ NoVoteBetween(m.src, m.colorRound, round[i])
    BY <1>8, <2>2 DEF ReceivePrepare, Wants, MessageInv, MessageOf, TypeOK
  <2>5. ASSUME NEW j \in heard'[i]
        PROVE  /\ round[j] >= round[i]
               /\ \A v \in votes : v[1] = j => v[2] <= colorRound'[i]
                                               \/ v[2] >= round[i]
    <3>0. \A v \in votes : v[2] \in Nat
      BY DEF TypeOK
    <3>1. CASE j \in heard[i]
      BY <2>1, <2>2, <2>3, <3>0, <3>1 DEF CountInv, CountOf, NoVoteBetween
    <3>2. CASE j = m.src
      BY <2>2, <2>3, <2>4, <3>0, <3>2 DEF NoVoteBetween
    <3> QED
      BY <2>1, <3>1, <3>2 DEF TypeOK
  <2>6. CountOf(i)'
    BY <2>1, <2>5 DEF CountOf, NoVoteBetween
  <2> QED
    BY <1>0, <1>8, <2>6 DEF ReceivePrepare, CountInv, TypeOK
<1>9. ASSUME NEW i \in Server, NEW m \in net, ReceiveAck(i, m) PROVE CountInv'
  <2>1. /\ pc[i] = "acks" /\ pc' = pc /\ round' = round /\ votes' = votes
        /\ acked' = [acked EXCEPT ![i] = IF m.ack THEN @ \cup {m.src} ELSE @]
        /\ m.type = "ack" /\ m.round = round[i]
    BY <1>9 DEF ReceiveAck, Wants
  <2>2. m.ack => \E v \in votes : v[1] = m.src /\ v[2] = round[i]
    BY <2>1 DEF MessageInv, MessageOf
  <2>3. \A j \in acked[i] : \E v \in votes : v[1] = j /\ v[2] = round[i]
    BY <2>1 DEF CountInv, CountOf
  <2>4. \A j \in acked'[i] : \E v \in votes : v[1] = j /\ v[2] = round[i]
    BY <2>1, <2>2, <2>3 DEF TypeOK
  <2>5. CountOf(i)'
    BY <2>1, <2>4 DEF CountOf
  <2> QED
    BY <1>0, <1>9, <2>5 DEF ReceiveAck, CountInv, TypeOK
<1>10. ASSUME NEW i \in Server, NEW m \in net, ReceiveDecide(i, m) PROVE CountInv'
  BY <1>0, <1>10 DEF ReceiveDecide, CountInv, CountOf, TypeOK
<1>11. ASSUME NEW m \in net, NancyReceive(m) PROVE CountInv'
  BY <1>0, <1>11 DEF NancyReceive, CountInv
<1>12. ASSUME NancyStop PROVE CountInv'
  BY <1>0, <1>12 DEF NancyStop, CountInv
<1>13. ASSUME UNCHANGED vars PROVE CountInv'
  BY <1>0, <1>13 DEF vars, CountInv
<1> QED
  BY <1>1, <1>2, <1>3, <1>4, <1>6, <1>7, <1>8, <1>9, <1>10, <1>11,
     <1>12, <1>13, NextCases
-----------------------------------------------------------------------------
\* What a majority accepted stays the only color of later rounds.
LEMMA ChosenIsLocked == IInv => Locked
<1> SUFFICES ASSUME IInv, NEW p \in proposals, NEW q \in proposals,
                    Chosen(p[1], p[2]), q[1] >= p[1]
             PROVE  q[2] = p[2]
  BY DEF Locked
<1> USE DEF IInv
<1>1. p[1] \in Nat /\ q[1] \in Nat /\ p[1] > 0
  BY DEF TypeOK, ProposalInv
<1>2. CASE q[1] = p[1]
  BY <1>2 DEF ProposalInv
<1>3. CASE q[1] > p[1]
  <2>1. PICK P \in Quorum : \A i \in P : <<i, p[1], p[2]>> \in votes
    BY DEF Chosen
  <2>2. SafeAt(q[1], q[2]) /\ p[1] \in 1 .. (q[1] - 1)
    BY <1>1, <1>3 DEF ProposalInv
  <2>3. PICK Q \in Quorum :
          \A i \in Q : \A v \in votes : v[1] = i /\ v[2] = p[1] => v[3] = q[2]
    BY <2>2 DEF SafeAt
  <2>4. PICK i \in P : i \in Q
    BY <2>1, <2>3, QuorumsMeet
  <2>5. <<i, p[1], p[2]>> \in votes
    BY <2>1
  <2> QED
    BY <2>3, <2>4, <2>5
<1> QED
  BY <1>1, <1>2, <1>3

LEMMA BackedAgree ==
  ASSUME IInv, NEW c, NEW d, Backed(c), Backed(d) PROVE c = d
<1>1. PICK p \in proposals : p[2] = c /\ Chosen(p[1], c)
  BY DEF Backed
<1>2. PICK q \in proposals : q[2] = d /\ Chosen(q[1], d)
  BY DEF Backed
<1>3. p[1] \in Nat /\ q[1] \in Nat
  BY DEF IInv, TypeOK
<1>4. q[1] >= p[1] \/ p[1] >= q[1]
  BY <1>3
<1> QED
  BY <1>1, <1>2, <1>4, ChosenIsLocked DEF Locked

LEMMA NancyInit == Init => NancyInv
BY DEF Init, NancyInv

LEMMA NancyStepInv == IInv /\ TypeOK' /\ [Next]_vars => NancyInv'
<1> SUFFICES ASSUME IInv, TypeOK', [Next]_vars PROVE NancyInv'
  OBVIOUS
<1> USE DEF IInv, nancyVars, historyVars, serverVars
<1>1. CASE consensus' = consensus /\ (verdict' = verdict \/ verdict' = "approved")
  BY <1>1, Stable DEF NancyInv, Backed
<1>2. ASSUME NEW m \in net, NancyReceive(m) PROVE NancyInv'
  <2>1. m.dst = Nancy /\ m.type = "decide" /\ Backed(m.color) /\ m.color \in Color
    BY <1>2 DEF NancyReceive, MessageInv, MessageOf, TypeOK, Message
  <2>2. Input(m.color)
    BY <2>1 DEF Backed, ProposalInv
  <2>3. \A c \in Color : initial = [i \in Server |-> c] => m.color = c
    BY <2>2 DEF Input
  <2>4. consensus # NoColor => m.color = consensus
    BY <2>1, BackedAgree DEF NancyInv
  <2>5. ~Unacceptable(m)
    BY <2>1, <2>3, <2>4 DEF Unacceptable
  <2>6. consensus' = m.color /\ verdict' = verdict
    BY <1>2, <2>5 DEF NancyReceive
  <2>7. Backed(m.color)'
    BY <2>1, Stable
  <2> QED
    BY <2>6, <2>7 DEF NancyInv, Backed
<1>3. ASSUME NEW i \in Server,
             Prepare(i) \/ Propose(i) \/ CountAcks(i) \/ Announce(i) \/ Suspect(i)
      PROVE  consensus' = consensus /\ verdict' = verdict
  BY <1>3 DEF Prepare, Propose, CountAcks, Announce, Suspect
<1>4. ASSUME NEW i \in Server, NEW m \in net,
             \/ ReceivePrepare(i, m) \/ ReceivePropose(i, m)
             \/ ReceiveAck(i, m) \/ ReceiveDecide(i, m)
      PROVE  consensus' = consensus /\ verdict' = verdict
  BY <1>4 DEF ReceivePrepare, ReceivePropose, ReceiveAck, ReceiveDecide
<1>5. ASSUME NancyStop PROVE consensus' = consensus /\ verdict' = "approved"
  BY <1>5 DEF NancyStop
<1>6. ASSUME UNCHANGED vars PROVE consensus' = consensus /\ verdict' = verdict
  BY <1>6 DEF vars
<1> QED
  BY <1>1, <1>2, <1>3, <1>4, <1>5, <1>6, NextCases

-----------------------------------------------------------------------------
\* The inductive invariant holds initially.
LEMMA IInvInit == Init => IInv
BY TypeInit, PhaseInit, MessageInit, VoteInit, ProposalInit, CountInit, NancyInit DEF IInv

\* Every step keeps it.
LEMMA IInvStep == IInv /\ [Next]_vars => IInv'
BY TypeStep, PhaseStep, MessageStep, VoteStep, ProposalStep, CountStep, NancyStepInv DEF IInv

\* IInv is an inductive invariant.
THEOREM Invariance == Spec => []IInv
BY IInvInit, IInvStep, PTL DEF Spec

LEMMA IInvAgreement == IInv => Agreement
BY BackedAgree DEF IInv, PhaseInv, PhaseOf, Agreement

LEMMA IInvValidity == IInv => Validity
BY DEF IInv, PhaseInv, PhaseOf, Input, Validity

\* No two servers decide differently (ctconsensus.cc:212-214).
THEOREM AgreementHolds == Spec => []Agreement
BY Invariance, IInvAgreement, PTL

\* Every decision is some server's initial color.
THEOREM ValidityHolds == Spec => []Validity
BY Invariance, IInvValidity, PTL

\* A color a majority accepted is the only one proposed from then on.
THEOREM LockedHolds == Spec => []Locked
BY Invariance, ChosenIsLocked, PTL

\* Every decision and every DECIDE names a color a majority accepted.
THEOREM DecisionBackedHolds == Spec => []DecisionBacked
<1>1. IInv => DecisionBacked
  BY DEF IInv, PhaseInv, PhaseOf, MessageInv, MessageOf, Backed, DecisionBacked
<1> QED
  BY <1>1, Invariance, PTL

\* Nancy never prints an error.
THEOREM NancyNeverErrsHolds == Spec => []NancyNeverErrs
<1>1. IInv => NancyNeverErrs
  BY DEF IInv, NancyInv, NancyNeverErrs
<1> QED
  BY <1>1, Invariance, PTL
-----------------------------------------------------------------------------
\* The accepted round of a server never goes back, and its color changes
\* only together with a later accepted round or a decision.
THEOREM ColorOnlyAdvancesHolds == Spec => ColorOnlyAdvances
<1> DEFINE Advances == \A j \in Server :
             /\ colorRound'[j] >= colorRound[j]
             /\ color'[j] # color[j] => colorRound'[j] > colorRound[j] \/ decided'[j]
<1>1. IInv /\ [Next]_vars => Advances
  <2> SUFFICES ASSUME IInv, [Next]_vars PROVE Advances
    OBVIOUS
  <2> USE DEF IInv, nancyVars, historyVars, serverVars
  <2>1. \A j \in Server : colorRound[j] \in Nat
    BY DEF TypeOK
  <2>2. ASSUME color' = color, colorRound' = colorRound PROVE Advances
    BY <2>1, <2>2
  <2>3. ASSUME NEW i \in Server, NEW m \in net, ReceivePrepare(i, m) PROVE Advances
    BY <2>1, <2>3 DEF ReceivePrepare, TypeOK, Message
  <2>4. ASSUME NEW i \in Server, NEW m \in net, ReceivePropose(i, m) PROVE Advances
    <3>1. colorRound[i] < round[i] /\ round[i] \in Nat
      BY <2>4 DEF ReceivePropose, PhaseInv, PhaseOf, TypeOK
    <3> QED
      BY <2>1, <2>4, <3>1 DEF ReceivePropose, TypeOK
  <2>5. ASSUME NEW i \in Server, NEW m \in net, ReceiveDecide(i, m) PROVE Advances
    BY <2>1, <2>5 DEF ReceiveDecide, TypeOK
  <2>6. ASSUME NEW i \in Server,
               Prepare(i) \/ Propose(i) \/ CountAcks(i) \/ Announce(i) \/ Suspect(i)
        PROVE  Advances
    BY <2>2, <2>6 DEF Prepare, Propose, CountAcks, Announce, Suspect
  <2>7. ASSUME NEW i \in Server, NEW m \in net, ReceiveAck(i, m) PROVE Advances
    BY <2>2, <2>7 DEF ReceiveAck
  <2>8. ASSUME NEW m \in net, NancyReceive(m) PROVE Advances
    BY <2>2, <2>8 DEF NancyReceive
  <2>9. ASSUME NancyStop \/ UNCHANGED vars PROVE Advances
    BY <2>2, <2>9 DEF NancyStop, vars
  <2> QED
    BY <2>3, <2>4, <2>5, <2>6, <2>7, <2>8, <2>9, NextCases
<1>2. IInv /\ [Next]_vars =>
        [\A i \in Server :
           /\ colorRound'[i] >= colorRound[i]
           /\ color'[i] # color[i] => colorRound'[i] > colorRound[i] \/ decided'[i]]_vars
  BY <1>1
<1> QED
  BY <1>2, Invariance, PTL DEF Spec, ColorOnlyAdvances

\* Colors lock: what a majority accepted is all that is proposed and decided ever after,
\* and no server goes back.
THEOREM LockingHolds == Spec => Locking
  BY LockedHolds, DecisionBackedHolds, ColorOnlyAdvancesHolds, PTL DEF Locking

-----------------------------------------------------------------------------
\* A step changes the decision of at most one server, which had none; the
\* others keep theirs.
LEMMA OneDecides ==
  ASSUME IInv, TypeOK', [Next]_vars
  PROVE  \/ Decision' = Decision
         \/ \E i \in Server : /\ ~decided[i] /\ decided'[i]
                              /\ \A j \in Server \ {i} :
                                   /\ decided'[j] = decided[j]
                                   /\ color'[j] = color[j]
<1> USE DEF IInv, nancyVars, historyVars, serverVars
<1>1. ASSUME NEW i \in Server, ~decided[i], decided' = decided,
             \A j \in Server \ {i} : color'[j] = color[j]
      PROVE  Decision' = Decision
  BY <1>1 DEF Decision, TypeOK
<1>2. ASSUME decided' = decided, color' = color PROVE Decision' = Decision
  BY <1>2 DEF Decision
<1>3. ASSUME NEW i \in Server, NEW m \in net, ReceivePrepare(i, m)
      PROVE  Decision' = Decision
  <2>1. /\ ~decided[i] /\ decided' = decided
        /\ \A j \in Server \ {i} : color'[j] = color[j]
    <3>1. pc[i] = "prepares" /\ decided' = decided
      BY <1>3 DEF ReceivePrepare
    <3>2. ~decided[i]
      BY <3>1 DEF PhaseInv, PhaseOf
    <3>3. \A j \in Server \ {i} : color'[j] = color[j]
      BY <1>3 DEF ReceivePrepare, TypeOK
    <3> QED
      BY <3>1, <3>2, <3>3
  <2> QED
    BY <1>1, <2>1
<1>4. ASSUME NEW i \in Server, NEW m \in net, ReceivePropose(i, m)
      PROVE  Decision' = Decision
  <2>1. /\ ~decided[i] /\ decided' = decided
        /\ \A j \in Server \ {i} : color'[j] = color[j]
    BY <1>4 DEF ReceivePropose, PhaseInv, PhaseOf, TypeOK
  <2> QED
    BY <1>1, <2>1
<1>5. ASSUME NEW i \in Server, NEW m \in net, ReceiveDecide(i, m)
      PROVE  /\ ~decided[i] /\ decided'[i]
             /\ \A j \in Server \ {i} :
                  decided'[j] = decided[j] /\ color'[j] = color[j]
  <2>1. pc[i] \in {"prepares", "acks", "propose"}
    BY <1>5 DEF ReceiveDecide, Receiving
  <2>2. ~decided[i]
    BY <2>1 DEF PhaseInv, PhaseOf
  <2> QED
    BY <1>5, <2>2 DEF ReceiveDecide, TypeOK
<1>6. ASSUME NEW i \in Server, CountAcks(i)
      PROVE  \/ Decision' = Decision
             \/ /\ ~decided[i] /\ decided'[i]
                /\ \A j \in Server \ {i} :
                     decided'[j] = decided[j] /\ color'[j] = color[j]
  <2>1. ~decided[i]
    BY <1>6 DEF CountAcks, PhaseInv, PhaseOf
  <2>2. CASE Majority(acked[i])
    BY <1>6, <2>1, <2>2 DEF CountAcks, TypeOK
  <2>3. CASE ~Majority(acked[i])
    BY <1>2, <1>6, <2>3 DEF CountAcks
  <2> QED
    BY <2>2, <2>3
<1>7. ASSUME NEW i \in Server, Prepare(i) \/ Propose(i) \/ Announce(i) \/ Suspect(i)
      PROVE  decided' = decided /\ color' = color
  BY <1>7 DEF Prepare, Propose, Announce, Suspect
<1>8. ASSUME NEW i \in Server, NEW m \in net, ReceiveAck(i, m)
      PROVE  decided' = decided /\ color' = color
  BY <1>8 DEF ReceiveAck
<1>9. ASSUME NEW m \in net, NancyReceive(m)
      PROVE  decided' = decided /\ color' = color
  BY <1>9 DEF NancyReceive
<1>10. ASSUME NancyStop \/ UNCHANGED vars
       PROVE  decided' = decided /\ color' = color
  BY <1>10 DEF NancyStop, vars
<1> QED
  BY <1>2, <1>3, <1>4, <1>5, <1>6, <1>7, <1>8, <1>9, <1>10, NextCases

\* The servers implement Consensus: every step that decides is one of its
\* Decide steps, every other step leaves the decisions alone.
THEOREM Refinement == Spec => ImplementsConsensus
<1>1. Init => Abstract!Init
  BY DEF Init, Abstract!Init, Decision
<1>2. IInv' => Agreement'
  BY IInvAgreement, PTL
<1>3. IInv /\ IInv' /\ [Next]_vars => [Abstract!Next]_(Abstract!consensusVars)
  <2> SUFFICES ASSUME IInv, IInv', [Next]_vars
               PROVE  [Abstract!Next]_(Abstract!consensusVars)
    OBVIOUS
  <2>1. initial' = initial
    BY Monotone DEF IInv
  <2>2. CASE Decision' = Decision
    BY <2>1, <2>2 DEF Abstract!consensusVars
  <2>3. ASSUME NEW i \in Server, ~decided[i], decided'[i],
               \A j \in Server \ {i} : decided'[j] = decided[j] /\ color'[j] = color[j]
        PROVE  Abstract!Decide(i, color'[i])
    <3>1. Decision' = [Decision EXCEPT ![i] = color'[i]]
      BY <2>3 DEF Decision
    <3>2. Decision[i] = NoColor
      BY <2>3 DEF Decision
    <3>3. color'[i] \in {initial[j] : j \in Server}
      BY <2>1, <2>3 DEF IInv, PhaseInv, PhaseOf, Input
    <3>4. ASSUME NEW j \in Server PROVE Decision[j] \in {NoColor, color'[i]}
      <4>1. CASE ~decided[j]
        BY <4>1 DEF Decision
      <4>2. CASE decided[j]
        <5>1. decided'[j] /\ color'[j] = color[j]
          BY <2>3, <4>2
        <5>2. color'[i] = color'[j]
          BY <1>2, <2>3, <5>1 DEF Agreement
        <5> QED
          BY <4>2, <5>1, <5>2 DEF Decision
      <4> QED
        BY <4>1, <4>2
    <3> QED
      BY <2>1, <3>1, <3>2, <3>3, <3>4 DEF Abstract!Decide
  <2>4. ASSUME NEW i \in Server PROVE color'[i] \in Color
    BY DEF IInv, TypeOK
  <2> QED
    BY <2>2, <2>3, <2>4, OneDecides DEF Abstract!Next, IInv
<1> QED
  BY <1>1, <1>3, Invariance, PTL DEF Spec, ImplementsConsensus, Abstract!Spec
-----------------------------------------------------------------------------
(***************************************************************************)
(* The counters of Phases 2 and 5 count servers: no server is counted      *)
(* twice in a round.                                                       *)
(***************************************************************************)

\* Messages that are counted, and where a server has not yet sent its own of the round.
Counted == {"prepare", "ack"}
Before(mt) == IF mt = "prepare" THEN {"prepare"} ELSE {"prepare", "prepares", "propose"}

\* Server j has sent its message of type mt of round r.
Past(j, r, mt) == round[j] > r \/ (round[j] = r /\ pc[j] \notin Before(mt))

\* Servers send one PREPARE and one ACK a round.
SentOnce ==
  /\ \A m \in net : m.type \in Counted => Past(m.src, m.round, m.type)
  /\ \A m, n \in net : /\ m.type \in Counted /\ n.type = m.type
                       /\ n.src = m.src /\ n.round = m.round
                       => n = m

\* Whom a leader has counted, it has no further message from to count.
HeardOf(i, mt) ==
  \A j \in heard[i] : /\ Past(j, round[i], mt)
                      /\ \A m \in net : Wants(i, mt, m) => m.src # j
HeardOnce == \A i \in Server : /\ pc[i] = "prepares" => HeardOf(i, "prepare")
                               /\ pc[i] = "acks" => HeardOf(i, "ack")

OnceInv == TypeOK /\ SentOnce /\ HeardOnce

\* What is sent in a step had not been sent before, and is one message.
NewlySent ==
  /\ \A m \in net' \ net : m.type \in Counted =>
       ~Past(m.src, m.round, m.type) /\ Past(m.src, m.round, m.type)'
  /\ \A m, n \in net' \ net : m.type \in Counted /\ n.type \in Counted => m = n

\* A step that counts nothing for server i.
CountsNothing(i) ==
  \/ pc'[i] \notin {"prepares", "acks"}
  \/ heard'[i] = {}
  \/ pc'[i] = pc[i] /\ round'[i] = round[i] /\ heard'[i] = heard[i]

\* What a server has sent stays sent.
LEMMA PastStays ==
  ASSUME TypeOK, TypeOK', [Next]_vars, NEW j \in Server, NEW r \in Nat, NEW mt \in Counted,
         Past(j, r, mt)
  PROVE  Past(j, r, mt)'
<1> USE DEF TypeOK, nancyVars, historyVars, serverVars
<1>1. round[j] \in Nat /\ round'[j] \in Nat
  OBVIOUS
<1>2. ASSUME pc'[j] = pc[j], round'[j] = round[j] PROVE Past(j, r, mt)'
  BY <1>2 DEF Past
<1>3. ASSUME round'[j] = round[j] + 1 PROVE Past(j, r, mt)'
  BY <1>1, <1>3 DEF Past
<1>4. ASSUME round'[j] = round[j], pc'[j] \notin Before(mt) PROVE Past(j, r, mt)'
  BY <1>1, <1>4 DEF Past
<1>5. ASSUME round'[j] = round[j], pc[j] \in Before(mt) PROVE Past(j, r, mt)'
  BY <1>1, <1>5 DEF Past
<1>6. ASSUME NEW i \in Server, Prepare(i) \/ Propose(i) PROVE Past(j, r, mt)'
  <2>1. CASE j # i
    BY <1>2, <1>6, <2>1 DEF Prepare, Propose
  <2>2. CASE j = i
    <3>1. round'[j] = round[j]
      BY <1>6 DEF Prepare, Propose
    <3>2. CASE mt = "prepare"
      <4>1. pc'[j] # "prepare"
        BY <1>6, <2>2 DEF Prepare, Propose
      <4> QED
        BY <1>4, <3>1, <3>2, <4>1 DEF Before
    <3>3. CASE mt = "ack"
      <4>1. pc[j] \in {"prepare", "prepares"}
        BY <1>6, <2>2 DEF Prepare, Propose
      <4> QED
        BY <1>5, <3>1, <3>3, <4>1 DEF Before
    <3> QED
      BY <3>2, <3>3 DEF Counted
  <2> QED
    BY <2>1, <2>2
<1>7. ASSUME NEW i \in Server, NEW ok \in BOOLEAN, NEW mail, LeavePhase4(i, ok, mail)
      PROVE  Past(j, r, mt)'
  <2>1. CASE j # i
    BY <1>2, <1>7, <2>1 DEF LeavePhase4
  <2>2. CASE j = i /\ i = Leader(round[i])
    <3>1. round'[j] = round[j] /\ pc'[j] = "acks"
      BY <1>7, <2>2 DEF LeavePhase4
    <3> QED
      BY <1>4, <3>1 DEF Before
  <2>3. CASE j = i /\ i # Leader(round[i])
    BY <1>3, <1>7, <2>3 DEF LeavePhase4
  <2> QED
    BY <2>1, <2>2, <2>3
<1>8. ASSUME NEW i \in Server, Suspect(i) PROVE Past(j, r, mt)'
  BY <1>7, <1>8 DEF Suspect
<1>9. ASSUME NEW i \in Server, NEW m \in net, ReceivePropose(i, m) PROVE Past(j, r, mt)'
  BY <1>7, <1>9 DEF ReceivePropose
<1>10. ASSUME NEW i \in Server, CountAcks(i) PROVE Past(j, r, mt)'
  <2>1. CASE j # i
    BY <1>2, <1>10, <2>1 DEF CountAcks
  <2>2. CASE j = i /\ Succeeds(i)
    <3>1. round'[j] = round[j] /\ pc'[j] = "decide"
      BY <1>10, <2>2 DEF CountAcks
    <3> QED
      BY <1>4, <3>1 DEF Before
  <2>3. CASE j = i /\ ~Succeeds(i)
    BY <1>3, <1>10, <2>3 DEF CountAcks
  <2> QED
    BY <2>1, <2>2, <2>3
<1>11. ASSUME NEW i \in Server, Announce(i) \/ \E m \in net : ReceiveDecide(i, m)
       PROVE  Past(j, r, mt)'
  <2>1. round'[j] = round[j] /\ (j # i => pc'[j] = pc[j])
        /\ (j = i => pc'[j] \in {"decide", "done"})
    BY <1>11 DEF Announce, ReceiveDecide
  <2> QED
    BY <1>2, <1>4, <2>1 DEF Before
<1>12. ASSUME NEW i \in Server, NEW m \in net, ReceivePrepare(i, m) \/ ReceiveAck(i, m)
       PROVE  Past(j, r, mt)'
  BY <1>2, <1>12 DEF ReceivePrepare, ReceiveAck
<1>13. ASSUME NancyStop \/ UNCHANGED vars \/ \E m \in net : NancyReceive(m)
       PROVE  Past(j, r, mt)'
  BY <1>2, <1>13 DEF NancyStop, NancyReceive, vars
<1> QED
  BY <1>6, <1>8, <1>9, <1>10, <1>11, <1>12, <1>13, NextCases

\* A step that sends what was not sent keeps SentOnce.
LEMMA SentKept ==
  ASSUME OnceInv, TypeOK', [Next]_vars, NewlySent
  PROVE  SentOnce'
<1>1. ASSUME NEW m \in net', m.type \in Counted PROVE Past(m.src, m.round, m.type)'
  <2>1. CASE m \in net
    BY <1>1, <2>1, PastStays DEF OnceInv, SentOnce, TypeOK, Message
  <2>2. CASE m \notin net
    BY <1>1, <2>2 DEF NewlySent
  <2> QED
    BY <2>1, <2>2
<1>2. ASSUME NEW m \in net', NEW n \in net', m.type \in Counted, n.type = m.type,
             n.src = m.src, n.round = m.round
      PROVE  n = m
  <2>1. CASE m \in net /\ n \in net
    BY <1>2, <2>1 DEF OnceInv, SentOnce
  <2>2. CASE m \in net /\ n \notin net
    BY <1>2, <2>2 DEF OnceInv, SentOnce, NewlySent
  <2>3. CASE m \notin net /\ n \in net
    BY <1>2, <2>3 DEF OnceInv, SentOnce, NewlySent
  <2>4. CASE m \notin net /\ n \notin net
    BY <1>2, <2>4 DEF NewlySent
  <2> QED
    BY <2>1, <2>2, <2>3, <2>4
<1> QED
  BY <1>1, <1>2 DEF SentOnce

\* A step that counts nothing for i keeps what i has counted.
LEMMA HeardKept ==
  ASSUME OnceInv, TypeOK', [Next]_vars, NewlySent, NEW i \in Server, CountsNothing(i)
  PROVE  /\ pc'[i] = "prepares" => HeardOf(i, "prepare")'
         /\ pc'[i] = "acks" => HeardOf(i, "ack")'
<1>1. ASSUME heard'[i] = {} PROVE HeardOf(i, "prepare")' /\ HeardOf(i, "ack")'
  BY <1>1 DEF HeardOf
<1>2. ASSUME NEW mt \in Counted, HeardOf(i, mt), round'[i] = round[i], heard'[i] = heard[i]
      PROVE  HeardOf(i, mt)'
  <2> SUFFICES ASSUME NEW j \in heard[i]
               PROVE  /\ Past(j, round[i], mt)'
                      /\ \A m \in net' : /\ m.dst = i /\ m.type = mt /\ m.round = round[i]
                                         => m.src # j
    BY <1>2 DEF HeardOf, Wants, Past
  <2>1. j \in Server /\ round[i] \in Nat /\ Past(j, round[i], mt)
    BY <1>2 DEF OnceInv, TypeOK, HeardOf
  <2>2. Past(j, round[i], mt)'
    <3> DEFINE r == round[i]
    <3>1. Past(j, r, mt)'
      BY <1>2, <2>1, PastStays DEF OnceInv, Past
    <3> QED
      BY <1>2, <3>1 DEF Past
  <2>3. ASSUME NEW m \in net', m.dst = i, m.type = mt, m.round = round[i] PROVE m.src # j
    <3>1. CASE m \in net
      BY <1>2, <2>3, <3>1 DEF HeardOf, Wants
    <3>2. CASE m \notin net
      BY <2>1, <2>3, <3>2 DEF NewlySent
    <3> QED
      BY <3>1, <3>2
  <2> QED
    BY <2>2, <2>3
<1> QED
  BY <1>1, <1>2 DEF CountsNothing, OnceInv, HeardOnce, Counted
-----------------------------------------------------------------------------
\* A server that leaves Phase 4 sends its first ACK of the round, and counts
\* from nothing.
LEMMA LeavePhase4Once ==
  ASSUME TypeOK, NEW i \in Server, pc[i] = "propose", NEW ok \in BOOLEAN,
         NEW mail \in SUBSET net, LeavePhase4(i, ok, mail)
  PROVE  NewlySent /\ \A j \in Server : CountsNothing(j)
<1>1. net' \ net \subseteq {AckMessage(i, round[i], ok)}
  BY UnreadSubset DEF LeavePhase4
<1>2. round[i] \in Nat /\ pc'[i] \in {"acks", "prepare"}
      /\ (pc'[i] = "acks" => round'[i] = round[i])
      /\ (pc'[i] = "prepare" => round'[i] = round[i] + 1)
  BY DEF LeavePhase4, TypeOK
<1>3. ASSUME NEW r \in Nat, r = round[i]
      PROVE  ~Past(i, r, "ack") /\ Past(i, r, "ack")'
  BY <1>2, <1>3 DEF Past, Before
<1>4. NewlySent
  <2>1. ASSUME NEW m \in net' \ net
        PROVE  m = AckMessage(i, round[i], ok)
    BY <1>1, <2>1
  <2>2. ASSUME NEW m \in net' \ net
        PROVE  ~Past(m.src, m.round, m.type) /\ Past(m.src, m.round, m.type)'
    <3>1. m.src = i /\ m.round = round[i] /\ m.type = "ack"
      BY <2>1 DEF AckMessage
    <3>2. ~Past(i, m.round, "ack") /\ Past(i, m.round, "ack")'
      BY <1>2, <1>3, <3>1
    <3> QED
      BY <3>1, <3>2 DEF Past
  <2> QED
    BY <2>1, <2>2 DEF NewlySent
<1>5. ASSUME NEW j \in Server PROVE CountsNothing(j)
  <2>1. CASE j = i
    BY <2>1 DEF LeavePhase4, CountsNothing, TypeOK
  <2>2. CASE j # i
    BY <2>2 DEF LeavePhase4, CountsNothing, TypeOK
  <2> QED
    BY <2>1, <2>2
<1> QED
  BY <1>4, <1>5

\* Every step sends at most one message to be counted, and only for a phase
\* its sender has not been through.
LEMMA StepNewlySent ==
  ASSUME TypeOK, [Next]_vars
  PROVE  NewlySent
<1>1. ASSUME net' \subseteq net PROVE NewlySent
  BY <1>1 DEF NewlySent
<1>2. ASSUME NEW i \in Server, Prepare(i) PROVE NewlySent
  <2> DEFINE p == PrepareMessage(i, round[i], color[i], colorRound[i])
  <2>1. \A m \in net' \ net : m = p
    BY <1>2, UnreadSubset DEF Prepare
  <2>2. p.src = i /\ p.round = round[i] /\ p.type = "prepare"
    BY DEF PrepareMessage
  <2> HIDE DEF p
  <2>3. ASSUME NEW r \in Nat, r = round[i]
        PROVE  ~Past(i, r, "prepare") /\ Past(i, r, "prepare")'
    BY <1>2, <2>3 DEF Prepare, Past, Before, TypeOK
  <2>4. ASSUME NEW m \in net' \ net
        PROVE  ~Past(m.src, m.round, m.type) /\ Past(m.src, m.round, m.type)'
    <3>1. m.src = i /\ m.round = round[i] /\ m.type = "prepare"
      BY <2>1, <2>2
    <3>2. ~Past(i, m.round, "prepare") /\ Past(i, m.round, "prepare")'
      BY <2>3, <3>1 DEF TypeOK
    <3> QED
      BY <3>1, <3>2 DEF Past
  <2> QED
    BY <2>1, <2>4 DEF NewlySent
<1>3. ASSUME NEW i \in Server, Propose(i) PROVE NewlySent
  <2>1. \A m \in net' \ net : m.type = "propose"
    BY <1>3, UnreadSubset DEF Propose, ProposeMessage
  <2> QED
    BY <2>1 DEF NewlySent, Counted
<1>4. ASSUME NEW i \in Server, Announce(i) PROVE NewlySent
  <2>1. \A m \in net' \ net : m.type = "decide"
    BY <1>4 DEF Announce, DecideMessage
  <2> QED
    BY <2>1 DEF NewlySent, Counted
<1>5. ASSUME NEW i \in Server, CountAcks(i) PROVE NewlySent
  BY <1>1, <1>5, UnreadSubset DEF CountAcks
<1>6. ASSUME NEW i \in Server, Suspect(i) PROVE NewlySent
  BY <1>6, LeavePhase4Once DEF Suspect
<1>7. ASSUME NEW i \in Server, NEW m \in net, ReceivePropose(i, m) PROVE NewlySent
  BY <1>7, LeavePhase4Once DEF ReceivePropose
<1>8. ASSUME NEW i \in Server, NEW m \in net,
             ReceivePrepare(i, m) \/ ReceiveAck(i, m) \/ ReceiveDecide(i, m)
      PROVE  NewlySent
  BY <1>1, <1>8 DEF ReceivePrepare, ReceiveAck, ReceiveDecide
<1>9. ASSUME NancyStop \/ UNCHANGED vars \/ \E m \in net : NancyReceive(m)
      PROVE  NewlySent
  BY <1>1, <1>9 DEF NancyStop, NancyReceive, vars
<1> QED
  BY <1>2, <1>3, <1>4, <1>5, <1>6, <1>7, <1>8, <1>9, NextCases

\* Counting a message m in a phase: no other message of its sender is left
\* to count.
LEMMA CountedKept ==
  ASSUME OnceInv, TypeOK', NEW i \in Server, NEW mt \in Counted, NEW m \in net,
         Wants(i, mt, m), HeardOf(i, mt),
         net' = net \ {m}, heard' = [heard EXCEPT ![i] = @ \cup {m.src}],
         pc' = pc, round' = round
  PROVE  HeardOf(i, mt)'
<1>1. m.src \in Server /\ m.type = mt /\ m.round = round[i]
  BY DEF OnceInv, TypeOK, Message, Wants
<1>2. Past(m.src, round[i], mt)
  BY <1>1 DEF OnceInv, SentOnce
<1>3. \A n \in net' : Wants(i, mt, n) => n.src # m.src
  BY <1>1 DEF OnceInv, SentOnce, Wants
<1>4. heard'[i] = heard[i] \cup {m.src}
  BY DEF OnceInv, TypeOK
<1>5. ASSUME NEW j \in heard'[i]
      PROVE  Past(j, round[i], mt) /\ \A n \in net' : Wants(i, mt, n) => n.src # j
  BY <1>2, <1>3, <1>4, <1>5 DEF HeardOf
<1> QED
  BY <1>5 DEF HeardOf, Wants, Past

\* Every step keeps what the leaders have counted.
LEMMA HeardOnceStep ==
  ASSUME OnceInv, TypeOK', [Next]_vars, NewlySent
  PROVE  HeardOnce'
<1> SUFFICES ASSUME NEW k \in Server
             PROVE  /\ pc'[k] = "prepares" => HeardOf(k, "prepare")'
                    /\ pc'[k] = "acks" => HeardOf(k, "ack")'
  BY DEF HeardOnce
<1> DEFINE Goal == /\ pc'[k] = "prepares" => HeardOf(k, "prepare")'
                   /\ pc'[k] = "acks" => HeardOf(k, "ack")'
<1>1. ASSUME CountsNothing(k) PROVE Goal
  BY <1>1, HeardKept
<1>2. ASSUME NEW i \in Server, Prepare(i) PROVE CountsNothing(k)
  <2>1. CASE k = i
    BY <1>2, <2>1 DEF Prepare, CountsNothing, OnceInv, TypeOK
  <2>2. CASE k # i
    BY <1>2, <2>2 DEF Prepare, CountsNothing, OnceInv, TypeOK
  <2> QED
    BY <2>1, <2>2
<1>3. ASSUME NEW i \in Server, Propose(i) \/ CountAcks(i) \/ Announce(i)
      PROVE  CountsNothing(k)
  <2>1. CASE k = i
    <3>1. pc'[i] \in {"propose", "decide", "prepare", "done"}
      BY <1>3 DEF Propose, CountAcks, Announce, OnceInv, TypeOK
    <3> QED
      BY <2>1, <3>1 DEF CountsNothing
  <2>2. CASE k # i
    BY <1>3, <2>2 DEF Propose, CountAcks, Announce, CountsNothing, OnceInv, TypeOK
  <2> QED
    BY <2>1, <2>2
<1>4. ASSUME NEW i \in Server, Suspect(i) PROVE CountsNothing(k)
  BY <1>4, LeavePhase4Once DEF Suspect, OnceInv
<1>5. ASSUME NEW i \in Server, NEW m \in net, ReceivePropose(i, m)
      PROVE  CountsNothing(k)
  BY <1>5, LeavePhase4Once DEF ReceivePropose, OnceInv
<1>6. ASSUME NEW i \in Server, NEW m \in net, ReceiveDecide(i, m)
      PROVE  CountsNothing(k)
  <2>1. CASE k = i
    BY <1>6, <2>1 DEF ReceiveDecide, CountsNothing, OnceInv, TypeOK
  <2>2. CASE k # i
    BY <1>6, <2>2 DEF ReceiveDecide, CountsNothing, OnceInv, TypeOK
  <2> QED
    BY <2>1, <2>2
<1>7. ASSUME NEW i \in Server, NEW m \in net, ReceivePrepare(i, m) PROVE Goal
  <2>1. CASE k = i
    <3>1. pc[i] = "prepares" /\ HeardOf(i, "prepare")
      BY <1>7 DEF ReceivePrepare, OnceInv, HeardOnce
    <3>2. HeardOf(i, "prepare")'
      BY <1>7, <3>1, CountedKept DEF ReceivePrepare, Counted
    <3> QED
      BY <1>7, <2>1, <3>1, <3>2 DEF ReceivePrepare
  <2>2. CASE k # i
    BY <1>1, <1>7, <2>2 DEF ReceivePrepare, CountsNothing, OnceInv, TypeOK
  <2> QED
    BY <2>1, <2>2
<1>8. ASSUME NEW i \in Server, NEW m \in net, ReceiveAck(i, m) PROVE Goal
  <2>1. CASE k = i
    <3>1. pc[i] = "acks" /\ HeardOf(i, "ack")
      BY <1>8 DEF ReceiveAck, OnceInv, HeardOnce
    <3>2. HeardOf(i, "ack")'
      BY <1>8, <3>1, CountedKept DEF ReceiveAck, Counted
    <3> QED
      BY <1>8, <2>1, <3>1, <3>2 DEF ReceiveAck
  <2>2. CASE k # i
    BY <1>1, <1>8, <2>2 DEF ReceiveAck, CountsNothing, OnceInv, TypeOK
  <2> QED
    BY <2>1, <2>2
<1>9. ASSUME NancyStop \/ UNCHANGED vars \/ \E m \in net : NancyReceive(m)
      PROVE  CountsNothing(k)
  BY <1>9 DEF NancyStop, NancyReceive, vars, serverVars, CountsNothing
<1> QED
  BY <1>1, <1>2, <1>3, <1>4, <1>5, <1>6, <1>7, <1>8, <1>9, NextCases

-----------------------------------------------------------------------------
\* Nobody has sent or counted anything at first.
LEMMA OnceInit == Init => OnceInv
BY TypeInit DEF Init, OnceInv, SentOnce, HeardOnce

\* Every step of the consensus keeps the counts exact.
LEMMA OnceStep == OnceInv /\ [Next]_vars => OnceInv'
<1> SUFFICES ASSUME OnceInv, [Next]_vars PROVE OnceInv'
  OBVIOUS
<1>1. TypeOK'
  BY TypeStep DEF OnceInv
<1>2. NewlySent
  BY StepNewlySent DEF OnceInv
<1> QED
  BY <1>1, <1>2, SentKept, HeardOnceStep DEF OnceInv

\* A leader that has counted a server's PREPARE or ACK of its round never
\* finds another one of that server's in the network, for any number of
\* servers and suspicions: received_prepare and total count servers.
THEOREM CountedOnceHolds == Spec => []CountedOnce
<1>1. OnceInv => CountedOnce
  BY DEF OnceInv, HeardOnce, HeardOf, CountedOnce
<1> QED
  BY <1>1, OnceInit, OnceStep, PTL DEF Spec
=============================================================================
