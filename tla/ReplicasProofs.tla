--------------------------- MODULE ReplicasProofs ---------------------------
(***************************************************************************)
(* Theorems about Replicas: of the stubborn consensus, for any number of   *)
(* servers, colors, suspicions and rounds and any set of stubborn servers; *)
(* of the primary and the backup of pset3-altnet, for any clients and any  *)
(* number of requests, copies, losses and retries; and of diff, for any    *)
(* keys, values and requests and any number of removes remembered.         *)
(***************************************************************************)
EXTENDS Replicas, CTConsensusProofs, SequenceTheorems, WellFoundedInduction

-----------------------------------------------------------------------------
\* The stubborn consensus.

\* What a stubborn server holds, has accepted and announces is what it began with.
SInv ==
  /\ TypeOK /\ stubborn \subseteq Server /\ Stubbornness
  /\ stubborn = {} => IInv

-----------------------------------------------------------------------------
\* The invariant of the consensus speaks of messages that are on their way and asks for
\* none to be: it outlasts the loss of any of them.
LEMMA LossKeeps ==
  ASSUME IInv, net' \subseteq net,
         UNCHANGED <<initial, serverVars, suspicions, nancyVars, historyVars>>
  PROVE  IInv'
<1> USE DEF serverVars, nancyVars, historyVars
<1>1. TypeOK'
  BY DEF IInv, TypeOK
<1>2. PhaseInv'
  BY DEF IInv, PhaseInv, PhaseOf, HoldsProposal, Backed, Chosen, Input
<1>3. MessageInv'
  BY DEF IInv, MessageInv, MessageOf, HoldsProposal, NoVoteBetween, Backed, Chosen, Input
<1>4. VoteInv' /\ CountInv'
  BY DEF IInv, VoteInv, CountInv, CountOf, NoVoteBetween
<1>5. ProposalInv'
  BY DEF IInv, ProposalInv, SafeAt, Input
<1>6. NancyInv'
  BY DEF IInv, NancyInv, Backed, Chosen
<1> QED
  BY <1>1, <1>2, <1>3, <1>4, <1>5, <1>6 DEF IInv

\* Nobody refuses anything where nobody is stubborn: every step is one of the consensus,
\* or a loss.
LEMMA PliantStep ==
  ASSUME IInv, stubborn = {}, [StubbornNext]_stubbornVars
  PROVE  IInv' /\ stubborn' = {}
<1>1. ASSUME NEW i \in Server, StubbornStep(i) PROVE [Next]_vars \/ \E m \in net : Discard(i, m)
  <2>1. ASSUME NEW m \in net, \/ Discard(i, m) \/ RefusePrepare(i, m) \/ RefuseProposal(i, m)
                              \/ Obey(i, m) \/ ReceiveAck(i, m)
        PROVE  Discard(i, m) \/ Receive(i)
    BY <2>1 DEF RefusePrepare, RefuseProposal, Refuses, Obey, Receive
  <2>2. verdict = "waiting"
    BY <1>1 DEF StubbornStep
  <2>3. StubbornReceive(i) => [Next]_vars \/ \E m \in net : Discard(i, m)
    BY <2>1, <2>2 DEF StubbornReceive, Next, ServerStep
  <2>4. Suspect(i) => Next
    BY <2>2 DEF Next, Timeout
  <2>5. Prepare(i) \/ Propose(i) \/ CountAcks(i) \/ Announce(i) => Next
    BY <2>2 DEF Next, ServerStep
  <2> QED
    BY <1>1, <2>3, <2>4, <2>5 DEF StubbornStep
<1>2. ASSUME NEW i \in Server, NEW m \in net, Discard(i, m) PROVE IInv'
  <2>1. net' \subseteq net /\ UNCHANGED <<initial, serverVars, suspicions, nancyVars, historyVars>>
    BY <1>2 DEF Discard, Consume
  <2> QED
    BY <2>1, LossKeeps
<1>3. [Next]_vars => IInv'
  BY IInvStep
<1>4. CASE UNCHANGED stubbornVars
  BY <1>3, <1>4 DEF stubbornVars
<1>5. CASE StubbornNext
  BY <1>1, <1>2, <1>3, <1>5 DEF StubbornNext, Next
<1> QED
  BY <1>4, <1>5 DEF StubbornNext, stubbornVars

-----------------------------------------------------------------------------
\* Whoever is stubborn or not, the variables keep their types and a stubborn server its color.
LEMMA StubbornStepKeeps ==
  ASSUME TypeOK, stubborn \subseteq Server, Stubbornness, [StubbornNext]_stubbornVars
  PROVE  TypeOK' /\ Stubbornness'
<1> USE DEF serverVars, nancyVars, historyVars
<1> DEFINE Keeps == TypeOK' /\ Stubbornness'
<1>0. stubborn' = stubborn
  BY DEF StubbornNext, stubbornVars
\* A step that changes no color and casts no vote, and sends no DECIDE.
<1>1. ASSUME UNCHANGED <<initial, color, votes>>,
             \A m \in net' : m.type = "decide" => m \in net
      PROVE  Stubbornness'
  BY <1>0, <1>1 DEF Stubbornness
<1>2. ASSUME NEW i \in Server, \/ Prepare(i) \/ Propose(i) \/ CountAcks(i) \/ Suspect(i)
      PROVE  Stubbornness'
  <2>1. UNCHANGED <<initial, color, votes>>
    BY <1>2 DEF Prepare, Propose, CountAcks, Suspect
  <2>2. \A m \in net' : m.type = "decide" => m \in net
    BY <1>2, UnreadSubset DEF Prepare, Propose, CountAcks, Suspect, LeavePhase4,
                              PrepareMessage, ProposeMessage, AckMessage
  <2> QED
    BY <1>1, <2>1, <2>2
<1>3. ASSUME NEW i \in Server, Announce(i) PROVE Stubbornness'
  <2>1. UNCHANGED <<initial, color, votes>>
    BY <1>3 DEF Announce
  <2>2. ASSUME NEW m \in net', m.type = "decide", m \notin net
        PROVE  m.src = i /\ m.color = color[i]
    BY <1>3, <2>2 DEF Announce, DecideMessage
  <2> QED
    BY <1>0, <2>1, <2>2 DEF Stubbornness
\* What a server obeys does not change a stubborn one.
<1>4. ASSUME NEW i \in Server, NEW m \in net, Obey(i, m)
      PROVE  Stubbornness'
  <2>1. i \in stubborn => m.color = color[i]
    BY <1>4 DEF Obey, Refuses
  <2>2. \A x \in net' : x.type = "decide" => x \in net
    BY <1>4, UnreadSubset DEF Obey, ReceivePrepare, ReceivePropose, ReceiveDecide, LeavePhase4,
                              AckMessage, Consume
  <2>3. /\ initial' = initial
        /\ color' = color \/ color' = [color EXCEPT ![i] = m.color]
        /\ votes' = votes \/ votes' = votes \cup {<<i, round[i], m.color>>}
    BY <1>4 DEF Obey, ReceivePrepare, ReceivePropose, ReceiveDecide, DecidedColor
  <2>4. \A j \in stubborn : color'[j] = color[j]
    BY <2>1, <2>3 DEF TypeOK
  <2>5. \A j \in stubborn : \A v \in votes' : v[1] = j => v[3] = initial[j]
    BY <2>1, <2>3 DEF Stubbornness
  <2> QED
    BY <1>0, <2>2, <2>3, <2>4, <2>5 DEF Stubbornness
<1>5. ASSUME NEW i \in Server, NEW m \in net, Discard(i, m) PROVE Keeps
  <2>1. TypeOK'
    BY <1>5 DEF Discard, Consume, TypeOK
  <2> QED
    BY <1>1, <1>5, <2>1 DEF Discard, Consume
<1>6. ASSUME NEW i \in Server, NEW m \in net, RefusePrepare(i, m) PROVE Keeps
  <2>1. m.src \in Server
    BY DEF TypeOK, Message
  <2>2. TypeOK'
    BY <1>6, <2>1 DEF RefusePrepare, Consume, TypeOK
  <2> QED
    BY <1>1, <1>6, <2>2 DEF RefusePrepare, Consume
<1>7. ASSUME NEW i \in Server, NEW m \in net, RefuseProposal(i, m) PROVE Keeps
  <2>1. LeavePhase4(i, FALSE, net \ {m}) /\ net \ {m} \in SUBSET net
    BY <1>7 DEF RefuseProposal, Consume
  <2>2. TypeOK'
    BY <1>7, <2>1, LeavePhase4Type DEF RefuseProposal, TypeOK
  <2>3. \A x \in net' : x.type = "decide" => x \in net
    BY <2>1, UnreadSubset DEF LeavePhase4, AckMessage
  <2> QED
    BY <1>1, <1>7, <2>2, <2>3 DEF RefuseProposal
<1>8. ASSUME NEW i \in Server, NEW m \in net, ReceiveAck(i, m) PROVE Stubbornness'
  BY <1>1, <1>8 DEF ReceiveAck, Consume
<1>9. ASSUME NancyStep \/ Cleared \/ UNCHANGED vars PROVE Stubbornness'
  BY <1>1, <1>9 DEF NancyStep, NancyStop, NancyReceive, Cleared, vars, Consume
<1>10. [Next]_vars => TypeOK'
  BY TypeStep
<1>11. ASSUME NEW i \in Server, StubbornStep(i) PROVE Keeps
  <2>1. verdict = "waiting"
    BY <1>11 DEF StubbornStep
  <2>2. Prepare(i) \/ Propose(i) \/ CountAcks(i) \/ Announce(i) \/ Suspect(i) => Next
    BY <2>1 DEF Next, ServerStep, Timeout
  <2>3. \A m \in net : Obey(i, m) \/ ReceiveAck(i, m) => Next
    BY <2>1 DEF Next, ServerStep, Receive, Obey
  <2>4. StubbornReceive(i) => Keeps
    BY <1>4, <1>5, <1>6, <1>7, <1>8, <1>10, <2>3 DEF StubbornReceive
  <2> QED
    BY <1>2, <1>3, <1>10, <1>11, <2>2, <2>4 DEF StubbornStep
<1>12. NancyStep \/ Cleared => Keeps
  BY <1>9, <1>10 DEF Next
<1>13. UNCHANGED stubbornVars => Keeps
  BY <1>9, <1>10 DEF stubbornVars
<1> QED
  BY <1>11, <1>12, <1>13 DEF StubbornNext

-----------------------------------------------------------------------------
\* Losses and stubborn servers' steps keep the invariant too.
LEMMA StubbornInvariance == StubbornSpec => []SInv
<1>1. StubbornInit => SInv
  <2>1. StubbornInit => IInv /\ stubborn \subseteq Server
    BY IInvInit DEF StubbornInit
  <2>2. StubbornInit => Stubbornness
    BY DEF StubbornInit, Init, Stubbornness
  <2> QED
    BY <2>1, <2>2 DEF SInv, IInv
<1>2. SInv /\ [StubbornNext]_stubbornVars => SInv'
  BY PliantStep, StubbornStepKeeps DEF SInv, StubbornNext, stubbornVars
<1> QED
  BY <1>1, <1>2, PTL DEF StubbornSpec

(***************************************************************************)
(* Where nobody is stubborn, servers that drop what they do not want agree *)
(* and Nancy finds nothing wrong; a stubborn server keeps its color.       *)
(***************************************************************************)
THEOREM StubbornSafeHolds == StubbornSpec => []StubbornSafe
<1>1. SInv => StubbornSafe
  BY IInvAgreement DEF SInv, IInv, NancyInv, StubbornSafe, PliantAgreement
<1> QED
  BY <1>1, StubbornInvariance, PTL

-----------------------------------------------------------------------------
\* The primary, the backup and their clients.

Request == [client : Client, serial : Nat]
Answer == [serial : Nat, position : Nat, redirect : Replica \cup {-1}]
Forwarded == [serial : Nat, req : Request]
AtMostOne(S) == {<<>>} \cup {<<x>> : x \in S}
Elems(s) == {s[i] : i \in 1 .. Len(s)}

ClientTypes ==
  /\ alt_pc \in [Client -> {"off", "idle", "send", "wait"}]
  /\ leader \in [Client -> Replica] /\ serial \in [Client -> Nat] /\ floor \in [Client -> Nat]
  /\ DOMAIN pairs \subseteq Client \X Replica
  /\ \A x \in DOMAIN pairs : pairs[x].replyTo = x[1]
  /\ \A c \in Client : alt_pc[c] # "off" => {c} \X Replica \subseteq DOMAIN pairs
NetTypes == requests \in [Replica -> Seq(Request)] /\ responses \in [Client -> Seq(Answer)]
ReplicaTypes ==
  /\ p2b \in Seq(Forwarded) /\ b2p \in Seq(Nat)
  /\ primarySerial \in Nat /\ working \in AtMostOne(Request) /\ primarydb \in Seq(Request)
  /\ expected \in Nat /\ fromPrimary \in AtMostOne(Forwarded) /\ fromClient \in AtMostOne(Request)
  /\ serving \in BOOLEAN /\ backupdb \in Seq(Request)
AltTypes == ClientTypes /\ NetTypes /\ ReplicaTypes

\* The requests that the primary has taken, of which it works on the last.
Log(i) == IF i <= Len(primarydb) THEN primarydb[i] ELSE working[1]

\* What is on its way was asked for by its client.
Known(q) == q.serial <= serial[q.client] /\ alt_pc[q.client] # "off"
KnownInv ==
  /\ \A r \in Replica : \A q \in Elems(requests[r]) : Known(q)
  /\ \A q \in Elems(working) \cup Elems(fromClient) \cup Elems(backupdb) : Known(q)
  /\ \A f \in Elems(p2b) \cup Elems(fromPrimary) : Known(f.req)

\* What is forwarded is what the primary has taken under that serial.
LogInv ==
  /\ primarySerial = Len(primarydb) + Len(working)
  /\ \A f \in Elems(p2b) \cup Elems(fromPrimary) :
       f.serial \in 1 .. primarySerial /\ f.req = Log(f.serial)
  /\ \A a \in Elems(b2p) : a <= expected

\* The backup has applied a prefix of it, and nothing else before it took over.
FollowInv ==
  /\ expected \in Len(primarydb) .. primarySerial /\ expected <= Len(backupdb)
  /\ \A i \in 1 .. expected : backupdb[i] = Log(i)
  /\ ~serving => Len(backupdb) = expected
  /\ serving => fromPrimary = <<>> /\ fromClient = <<>>

\* A response tells where its request is in the surviving database.
Told(c, m) ==
  m.redirect = -1 => /\ m.position \in 1 .. Len(backupdb)
                     /\ backupdb[m.position] = [client |-> c, serial |-> m.serial]
ResponseInv == \A c \in Client : \A m \in Elems(responses[c]) : Told(c, m)

\* A request was processed behind all that had been accepted when it began.
Behind(i) ==
  LET q == backupdb[i] IN q.serial = serial[q.client] => i > floor[q.client]
FloorInv == /\ \A c \in Client : floor[c] <= Len(backupdb)
            /\ \A i \in 1 .. Len(backupdb) : Behind(i)

Linear(a) == a.position \in (a.after + 1) .. Len(backupdb) /\ backupdb[a.position] = a.req
AcceptedInv == \A a \in accepted : a.position \in Nat /\ a.after \in Nat /\ Linear(a)

AltInv == AltTypes /\ KnownInv /\ LogInv /\ FollowInv /\ ResponseInv /\ FloorInv /\ AcceptedInv

-----------------------------------------------------------------------------
\* A sequence with one more element.
LEMMA Added ==
  ASSUME NEW S, NEW s \in Seq(S), NEW x \in S
  PROVE  /\ Append(s, x) \in Seq(S) /\ Len(s) \in Nat /\ Len(Append(s, x)) = Len(s) + 1
         /\ \A i \in 1 .. Len(s) : Append(s, x)[i] = s[i]
         /\ Append(s, x)[Len(s) + 1] = x
         /\ Elems(Append(s, x)) = Elems(s) \cup {x}
<1> DEFINE a == Append(s, x)
           k == Len(s)
<1>1. /\ a \in Seq(S) /\ k \in Nat /\ Len(a) = k + 1 /\ a[k + 1] = x
      /\ \A i \in 1 .. k : a[i] = s[i]
  OBVIOUS
<1>2. \A y : y \in Elems(a) <=> \E i \in 1 .. k + 1 : y = a[i]
  BY <1>1 DEF Elems
<1>3. \A y : y \in Elems(s) <=> \E i \in 1 .. k : y = s[i]
  BY DEF Elems
<1> HIDE DEF a, k
<1>4. \A y : (\E i \in 1 .. k + 1 : y = a[i]) <=> y = x \/ \E i \in 1 .. k : y = s[i]
  BY <1>1
<1> QED
  BY <1>1, <1>2, <1>3, <1>4 DEF a, k

\* A sequence without its first element.
LEMMA Popped ==
  ASSUME NEW S, NEW s \in Seq(S), s # <<>>
  PROVE  /\ Tail(s) \in Seq(S) /\ Head(s) \in S /\ Head(s) \in Elems(s)
         /\ Elems(Tail(s)) \subseteq Elems(s)
<1>1. /\ Tail(s) \in Seq(S) /\ Head(s) \in S /\ Head(s) = s[1] /\ Len(s) \in Nat /\ Len(s) > 0
      /\ Len(Tail(s)) = Len(s) - 1
      /\ \A i \in 1 .. Len(s) - 1 : Tail(s)[i] = s[i + 1]
  OBVIOUS
<1> DEFINE t == Tail(s)
           k == Len(s)
<1>2. k \in Nat /\ k > 0 /\ Len(t) = k - 1 /\ \A i \in 1 .. k - 1 : t[i] = s[i + 1]
  BY <1>1
<1> HIDE DEF t, k
<1>3. 1 \in 1 .. k /\ \A i \in 1 .. k - 1 : i + 1 \in 1 .. k
  BY <1>2
<1>4. Elems(t) \subseteq Elems(s)
  BY <1>2, <1>3 DEF Elems, k
<1> QED
  BY <1>1, <1>3, <1>4 DEF Elems, t, k

\* The elements of a sequence, and of one with at most one element.
LEMMA Elements ==
  ASSUME NEW S
  PROVE  /\ \A s \in Seq(S) : Elems(s) \subseteq S /\ Len(s) \in Nat /\ \A i \in 1 .. Len(s) : s[i] \in Elems(s)
         /\ Elems(<<>>) = {} /\ Len(<<>>) = 0
         /\ \A x \in S : /\ Elems(<<x>>) = {x} /\ Len(<<x>>) = 1 /\ <<x>>[1] = x /\ <<x>> # <<>>
                         /\ <<x>> \in AtMostOne(S)
         /\ <<>> \in AtMostOne(S)
         /\ \A w \in AtMostOne(S) :
              w # <<>> => Len(w) = 1 /\ w[1] \in S /\ w = <<w[1]>> /\ Elems(w) = {w[1]}
<1>1. ASSUME NEW s \in Seq(S)
      PROVE  Elems(s) \subseteq S /\ Len(s) \in Nat /\ \A i \in 1 .. Len(s) : s[i] \in Elems(s)
  <2>1. \A i \in 1 .. Len(s) : s[i] \in S
    OBVIOUS
  <2> QED
    BY <2>1 DEF Elems
<1>2. Elems(<<>>) = {} /\ Len(<<>>) = 0 /\ <<>> \in AtMostOne(S)
  BY DEF Elems, AtMostOne
<1>3. ASSUME NEW x \in S
      PROVE  Elems(<<x>>) = {x} /\ Len(<<x>>) = 1 /\ <<x>>[1] = x /\ <<x>> # <<>> /\ <<x>> \in AtMostOne(S)
  <2>1. Len(<<x>>) = 1 /\ <<x>>[1] = x /\ <<x>> # <<>> /\ 1 .. 1 = {1}
    OBVIOUS
  <2> QED
    BY <2>1 DEF Elems, AtMostOne
<1>4. ASSUME NEW w \in AtMostOne(S), w # <<>>
      PROVE  Len(w) = 1 /\ w[1] \in S /\ w = <<w[1]>> /\ Elems(w) = {w[1]}
  <2>1. PICK x \in S : w = <<x>>
    BY <1>4 DEF AtMostOne
  <2> QED
    BY <1>3, <2>1
<1> QED
  BY <1>1, <1>2, <1>3, <1>4

\* The two replicas of pt-backup are among the replicas.
LEMMA TwoReplicas == 0 \in Replica /\ 1 \in Replica /\ -1 \notin Replica
BY ReplicaAssumption

\* What the types say of lengths and of the places that hold one element at most.
LEMMA Lengths ==
  ASSUME ReplicaTypes
  PROVE  /\ Len(primarydb) \in Nat /\ Len(backupdb) \in Nat /\ Len(working) \in {0, 1}
         /\ working = <<>> => Len(working) = 0 /\ Elems(working) = {}
         /\ working # <<>> => /\ Len(working) = 1 /\ working[1] \in Request
                              /\ Elems(working) = {working[1]}
         /\ fromPrimary # <<>> => fromPrimary[1] \in Forwarded /\ Elems(fromPrimary) = {fromPrimary[1]}
         /\ fromClient # <<>> => fromClient[1] \in Request /\ Elems(fromClient) = {fromClient[1]}
         /\ \A i \in 1 .. Len(backupdb) : backupdb[i] \in Request /\ backupdb[i] \in Elems(backupdb)
<1>1. /\ primarydb \in Seq(Request) /\ backupdb \in Seq(Request) /\ working \in AtMostOne(Request)
      /\ fromPrimary \in AtMostOne(Forwarded) /\ fromClient \in AtMostOne(Request)
  BY DEF ReplicaTypes
<1>2. Elems(<<>>) = {} /\ Len(<<>>) = 0
  BY Elements
<1>3. working # <<>> => /\ Len(working) = 1 /\ working[1] \in Request
                        /\ Elems(working) = {working[1]}
  BY <1>1, Elements
<1>4. fromPrimary # <<>> => fromPrimary[1] \in Forwarded /\ Elems(fromPrimary) = {fromPrimary[1]}
  BY <1>1, Elements
<1>5. fromClient # <<>> => fromClient[1] \in Request /\ Elems(fromClient) = {fromClient[1]}
  BY <1>1, Elements
<1>6. Len(primarydb) \in Nat /\ Len(backupdb) \in Nat
  BY <1>1
<1>7. \A i \in 1 .. Len(backupdb) : backupdb[i] \in Request /\ backupdb[i] \in Elems(backupdb)
  <2>1. Elems(backupdb) \subseteq Request /\ \A i \in 1 .. Len(backupdb) : backupdb[i] \in Elems(backupdb)
    BY <1>1, Elements
  <2> QED
    BY <2>1
<1>8. working = <<>> => Len(working) = 0 /\ Elems(working) = {}
  BY <1>2
<1> QED
  BY <1>3, <1>4, <1>5, <1>6, <1>7, <1>8

\* The requests that stay where they are.
LEMMA Places ==
  ASSUME AltTypes
  PROVE  /\ \A r \in Replica : requests[r] \in Seq(Request) /\ Elems(requests[r]) \subseteq Request
         /\ \A c \in Client : responses[c] \in Seq(Answer) /\ Elems(responses[c]) \subseteq Answer
         /\ Elems(working) \subseteq Request /\ Elems(fromClient) \subseteq Request
         /\ Elems(backupdb) \subseteq Request
         /\ Elems(p2b) \subseteq Forwarded /\ Elems(fromPrimary) \subseteq Forwarded
         /\ \A f \in Forwarded : f.req \in Request /\ f.serial \in Nat
         /\ Elems(b2p) \subseteq Nat
<1>1. /\ \A r \in Replica : requests[r] \in Seq(Request)
      /\ \A c \in Client : responses[c] \in Seq(Answer)
      /\ p2b \in Seq(Forwarded) /\ b2p \in Seq(Nat) /\ backupdb \in Seq(Request)
  BY DEF AltTypes, NetTypes, ReplicaTypes
<1>2. /\ \A r \in Replica : Elems(requests[r]) \subseteq Request
      /\ \A c \in Client : Elems(responses[c]) \subseteq Answer
      /\ Elems(p2b) \subseteq Forwarded /\ Elems(b2p) \subseteq Nat /\ Elems(backupdb) \subseteq Request
  BY <1>1, Elements
<1>3. Elems(working) \subseteq Request /\ Elems(fromClient) \subseteq Request
  <2>1. working \in AtMostOne(Request) /\ fromClient \in AtMostOne(Request)
    BY DEF AltTypes, ReplicaTypes
  <2> QED
    BY <2>1, Elements
<1>4. Elems(fromPrimary) \subseteq Forwarded
  <2>1. fromPrimary \in AtMostOne(Forwarded)
    BY DEF AltTypes, ReplicaTypes
  <2> QED
    BY <2>1, Elements
<1>5. \A f \in Forwarded : f.req \in Request /\ f.serial \in Nat
  BY DEF Forwarded
<1> QED
  BY <1>1, <1>2, <1>3, <1>4, <1>5

\* A request that is known stays known while clients only go on.
LEMMA KnownKept ==
  ASSUME AltTypes, ClientTypes',
         \A d \in Client : serial[d] <= serial'[d] /\ (alt_pc[d] # "off" => alt_pc'[d] # "off")
  PROVE  \A q \in Request : Known(q) => Known(q)'
<1> SUFFICES ASSUME NEW q \in Request, Known(q) PROVE Known(q)'
  OBVIOUS
<1>1. q.client \in Client /\ q.serial \in Nat
  BY DEF Request
<1>2. serial[q.client] \in Nat /\ serial'[q.client] \in Nat
  BY <1>1 DEF AltTypes, ClientTypes
<1> QED
  BY <1>1, <1>2 DEF Known

\* What a step of a client leaves alone, and what it may change.
LEMMA ClientFrame ==
  ASSUME AltInv, ClientTypes', NetTypes', AcceptedInv',
         UNCHANGED <<p2b, b2p, primarySerial, working, primarydb, expected, fromPrimary, fromClient,
                     serving, backupdb>>,
         \A d \in Client : serial[d] <= serial'[d] /\ (alt_pc[d] # "off" => alt_pc'[d] # "off"),
         \A r \in Replica : \A q \in Elems(requests'[r]) :
           q \in Elems(requests[r]) \/ (q.serial <= serial'[q.client] /\ alt_pc'[q.client] # "off"),
         \A d \in Client : Elems(responses'[d]) \subseteq Elems(responses[d]),
         \A d \in Client : floor'[d] <= Len(backupdb),
         \A d \in Client : (serial'[d] = serial[d] /\ floor'[d] = floor[d]) \/ serial'[d] > serial[d]
  PROVE  AltInv'
<1>1. AltTypes'
  BY DEF AltInv, AltTypes, ReplicaTypes
<1>2. \A q \in Request : Known(q) => Known(q)'
  BY KnownKept DEF AltInv
<1>3. KnownInv'
  <2>1. \A r \in Replica : \A q \in Elems(requests'[r]) : Known(q)'
    BY <1>2, Places DEF AltInv, KnownInv, Known
  <2>2. /\ \A q \in Elems(working) \cup Elems(fromClient) \cup Elems(backupdb) : Known(q)'
        /\ \A f \in Elems(p2b) \cup Elems(fromPrimary) : Known(f.req)'
    BY <1>2, Places DEF AltInv, KnownInv
  <2>3. /\ Elems(working)' = Elems(working) /\ Elems(fromClient)' = Elems(fromClient)
        /\ Elems(backupdb)' = Elems(backupdb) /\ Elems(p2b)' = Elems(p2b)
        /\ Elems(fromPrimary)' = Elems(fromPrimary)
    BY DEF Elems
  <2> QED
    BY <2>1, <2>2, <2>3 DEF KnownInv
<1>4. LogInv' /\ FollowInv'
  BY DEF AltInv, LogInv, FollowInv, Log, Elems
<1>5. ResponseInv'
  BY DEF AltInv, ResponseInv, Told
<1>6. FloorInv'
  <2>1. ASSUME NEW i \in 1 .. Len(backupdb) PROVE Behind(i)'
    <3> DEFINE q == backupdb[i]
    <3>1. q \in Request /\ Known(q) /\ q.client \in Client /\ q.serial \in Nat
      BY Lengths DEF AltInv, AltTypes, KnownInv, Request
    <3>2. serial[q.client] \in Nat /\ serial'[q.client] \in Nat /\ q.serial <= serial[q.client]
      BY <3>1 DEF AltInv, AltTypes, ClientTypes, Known
    <3>3. q.serial = serial[q.client] => i > floor[q.client]
      BY DEF AltInv, FloorInv, Behind
    <3>4. (serial'[q.client] = serial[q.client] /\ floor'[q.client] = floor[q.client])
          \/ serial'[q.client] > serial[q.client]
      BY <3>1
    <3> HIDE DEF q
    <3>5. q.serial = serial'[q.client] => i > floor'[q.client]
      BY <3>2, <3>3, <3>4
    <3> QED
      BY <3>5 DEF Behind, q
  <2> QED
    BY <2>1 DEF FloorInv
<1> QED
  BY <1>1, <1>3, <1>4, <1>5, <1>6 DEF AltInv

\* An invariant of what was accepted that holds while neither it nor the database changes.
LEMMA AcceptedKept ==
  ASSUME AcceptedInv, UNCHANGED <<accepted, backupdb>>
  PROVE  AcceptedInv'
BY DEF AcceptedInv, Linear

\* A client registers.
LEMMA RegisterKeeps ==
  ASSUME AltInv, NEW c \in Client, Alt!Register(c),
         UNCHANGED <<p2b, b2p, primarySerial, working, primarydb, expected, fromPrimary, fromClient,
                     serving, backupdb>>
  PROVE  AltInv'
<1>1. /\ alt_pc[c] = "off" /\ alt_pc' = [alt_pc EXCEPT ![c] = "idle"]
      /\ \E r \in Replica : leader' = [leader EXCEPT ![c] = r]
      /\ pairs' = [x \in DOMAIN pairs \cup ({c} \X Replica) |->
                     IF x \in DOMAIN pairs THEN pairs[x] ELSE Alt!NewPair(c)]
      /\ UNCHANGED <<requests, responses, serial, floor, accepted>>
  BY DEF Alt!Register, Alt!FindChannel
<1>2. ClientTypes'
  <2>1. alt_pc' \in [Client -> {"off", "idle", "send", "wait"}] /\ leader' \in [Client -> Replica]
    BY <1>1 DEF AltInv, AltTypes, ClientTypes
  <2>2. DOMAIN pairs' = DOMAIN pairs \cup ({c} \X Replica)
    BY <1>1
  <2>3. \A x \in DOMAIN pairs' : pairs'[x].replyTo = x[1]
    <3>1. Alt!NewPair(c).replyTo = c
      BY DEF Alt!NewPair
    <3>2. \A x \in {c} \X Replica : x[1] = c
      OBVIOUS
    <3> QED
      BY <1>1, <2>2, <3>1, <3>2 DEF AltInv, AltTypes, ClientTypes
  <2>4. \A d \in Client : alt_pc'[d] # "off" => {d} \X Replica \subseteq DOMAIN pairs'
    BY <1>1, <2>2 DEF AltInv, AltTypes, ClientTypes
  <2>5. DOMAIN pairs' \subseteq Client \X Replica
    BY <2>2 DEF AltInv, AltTypes, ClientTypes
  <2> QED
    BY <1>1, <2>1, <2>3, <2>4, <2>5 DEF AltInv, AltTypes, ClientTypes
<1>3. NetTypes' /\ AcceptedInv'
  BY <1>1, AcceptedKept DEF AltInv, AltTypes, NetTypes
<1>4. \A d \in Client : serial[d] <= serial'[d] /\ (alt_pc[d] # "off" => alt_pc'[d] # "off")
  BY <1>1 DEF AltInv, AltTypes, ClientTypes
<1>5. \A d \in Client : floor'[d] <= Len(backupdb)
  BY <1>1 DEF AltInv, FloorInv
<1> QED
  BY <1>1, <1>2, <1>3, <1>4, <1>5, ClientFrame

\* A client begins its next request, behind all that was accepted.
LEMMA BeginKeeps ==
  ASSUME AltInv, NEW c \in Client, Alt!Begin(c),
         UNCHANGED <<p2b, b2p, primarySerial, working, primarydb, expected, fromPrimary, fromClient,
                     serving, backupdb>>
  PROVE  AltInv'
<1>1. PICK p \in {a.position : a \in accepted} \cup {0} :
        /\ alt_pc[c] = "idle" /\ alt_pc' = [alt_pc EXCEPT ![c] = "send"]
        /\ serial' = [serial EXCEPT ![c] = @ + 1]
        /\ floor' = [floor EXCEPT ![c] = p]
        /\ UNCHANGED <<leader, pairs, requests, responses, accepted>>
  BY DEF Alt!Begin, Alt!netVars
<1>2. p \in Nat /\ p <= Len(backupdb)
  <2>1. \A a \in accepted : /\ a.position \in Nat /\ a.after \in Nat
                            /\ a.position \in (a.after + 1) .. Len(backupdb)
    BY DEF AltInv, AcceptedInv, Linear
  <2>2. Len(backupdb) \in Nat
    BY Lengths DEF AltInv, AltTypes
  <2> QED
    BY <2>1, <2>2
<1>3. ClientTypes'
  <2>1. serial' \in [Client -> Nat] /\ floor' \in [Client -> Nat]
    BY <1>1, <1>2 DEF AltInv, AltTypes, ClientTypes
  <2> QED
    BY <1>1, <2>1 DEF AltInv, AltTypes, ClientTypes
<1>4. NetTypes' /\ AcceptedInv'
  BY <1>1, AcceptedKept DEF AltInv, AltTypes, NetTypes
<1>5. \A d \in Client : serial[d] <= serial'[d] /\ (alt_pc[d] # "off" => alt_pc'[d] # "off")
  BY <1>1 DEF AltInv, AltTypes, ClientTypes
<1>6. \A d \in Client : floor'[d] <= Len(backupdb)
  BY <1>1, <1>2 DEF AltInv, FloorInv, AltTypes, ClientTypes
<1>7. \A d \in Client : (serial'[d] = serial[d] /\ floor'[d] = floor[d]) \/ serial'[d] > serial[d]
  BY <1>1 DEF AltInv, AltTypes, ClientTypes
<1> QED
  BY <1>1, <1>3, <1>4, <1>5, <1>6, <1>7, ClientFrame

\* A client that sends, waits, gives up or is redirected: its request stays what it is.
LEMMA SameRequest ==
  ASSUME AltInv, NEW c \in Client, NetTypes',
         UNCHANGED <<p2b, b2p, primarySerial, working, primarydb, expected, fromPrimary, fromClient,
                     serving, backupdb>>,
         UNCHANGED <<pairs, serial, floor>>,
         \A r \in Replica : \A q \in Elems(requests'[r]) :
           q \in Elems(requests[r]) \/ (q.client = c /\ q.serial = serial[c]),
         \A d \in Client : Elems(responses'[d]) \subseteq Elems(responses[d]),
         alt_pc[c] # "off",
         alt_pc' = alt_pc \/ \E p \in {"idle", "send", "wait"} : alt_pc' = [alt_pc EXCEPT ![c] = p],
         leader' = leader \/ \E r \in Replica : leader' = [leader EXCEPT ![c] = r],
         AcceptedInv'
  PROVE  AltInv'
<1>1. ClientTypes'
  <2>1. leader' \in [Client -> Replica]
    BY DEF AltInv, AltTypes, ClientTypes
  <2>2. /\ alt_pc' \in [Client -> {"off", "idle", "send", "wait"}]
        /\ \A d \in Client : alt_pc[d] = "off" <=> alt_pc'[d] = "off"
    BY DEF AltInv, AltTypes, ClientTypes
  <2> QED
    BY <2>1, <2>2 DEF AltInv, AltTypes, ClientTypes
<1>2. \A d \in Client : serial[d] <= serial'[d] /\ (alt_pc[d] # "off" => alt_pc'[d] # "off")
  BY DEF AltInv, AltTypes, ClientTypes
<1>3. \A r \in Replica : \A q \in Elems(requests'[r]) :
        q \in Elems(requests[r]) \/ (q.serial <= serial'[q.client] /\ alt_pc'[q.client] # "off")
  BY <1>2 DEF AltInv, AltTypes, ClientTypes
<1>4. \A d \in Client : floor'[d] <= Len(backupdb)
  BY DEF AltInv, FloorInv
<1> QED
  BY <1>1, <1>2, <1>3, <1>4, ClientFrame

\* A client sends a copy of its request.
LEMMA SendKeeps ==
  ASSUME AltInv, NEW c \in Client, Alt!Send(c),
         UNCHANGED <<p2b, b2p, primarySerial, working, primarydb, expected, fromPrimary, fromClient,
                     serving, backupdb>>
  PROVE  AltInv'
<1> DEFINE q == [client |-> c, serial |-> serial[c]]
<1>1. /\ alt_pc[c] = "send" /\ alt_pc' = [alt_pc EXCEPT ![c] = "wait"]
      /\ \/ requests' = [requests EXCEPT ![leader[c]] = Append(@, q)]
         \/ UNCHANGED requests
      /\ UNCHANGED <<pairs, responses, leader, serial, floor, accepted>>
  BY DEF Alt!Send
<1>2. q \in Request /\ q.client = c /\ q.serial = serial[c] /\ leader[c] \in Replica
  BY DEF AltInv, AltTypes, ClientTypes, Request
<1> HIDE DEF q
<1>3. \A r \in Replica : requests'[r] = requests[r] \/ requests'[r] = Append(requests[r], q)
  BY <1>1, <1>2 DEF AltInv, AltTypes, NetTypes
<1>4. \A r \in Replica : /\ Append(requests[r], q) \in Seq(Request)
                         /\ Elems(Append(requests[r], q)) = Elems(requests[r]) \cup {q}
  BY <1>2, Added DEF AltInv, AltTypes, NetTypes
<1>5. NetTypes'
  BY <1>1, <1>2, <1>4 DEF AltInv, AltTypes, NetTypes
<1>6. \A r \in Replica : \A x \in Elems(requests'[r]) :
        x \in Elems(requests[r]) \/ (x.client = c /\ x.serial = serial[c])
  <2> SUFFICES ASSUME NEW r \in Replica, NEW x \in Elems(requests'[r])
               PROVE  x \in Elems(requests[r]) \/ (x.client = c /\ x.serial = serial[c])
    OBVIOUS
  <2>1. CASE requests'[r] = requests[r]
    BY <2>1
  <2>2. CASE requests'[r] = Append(requests[r], q)
    <3>1. x \in Elems(requests[r]) \cup {q}
      BY <1>4, <2>2
    <3> QED
      BY <1>2, <3>1
  <2> QED
    BY <1>3, <2>1, <2>2
<1>7. AcceptedInv'
  BY <1>1, AcceptedKept DEF AltInv
<1> QED
  BY <1>1, <1>5, <1>6, <1>7, SameRequest

\* The wait times out, and the client tries again.
LEMMA TimeoutKeeps ==
  ASSUME AltInv, NEW c \in Client, Alt!Timeout(c),
         UNCHANGED <<p2b, b2p, primarySerial, working, primarydb, expected, fromPrimary, fromClient,
                     serving, backupdb>>
  PROVE  AltInv'
<1>1. leader[c] \in Replica
  BY DEF AltInv, AltTypes, ClientTypes
<1>2. /\ alt_pc[c] = "wait" /\ alt_pc' = [alt_pc EXCEPT ![c] = "send"]
      /\ \E r \in Replica : leader' = [leader EXCEPT ![c] = r]
      /\ UNCHANGED <<pairs, requests, responses, serial, floor, accepted>>
  BY <1>1 DEF Alt!Timeout, Alt!TryAgain, Alt!netVars
<1>3. NetTypes' /\ AcceptedInv'
  BY <1>2, AcceptedKept DEF AltInv, AltTypes, NetTypes
<1> QED
  BY <1>2, <1>3, SameRequest

\* A client takes a response: an old one, a redirection, or the one it accepts.
LEMMA ReceiveKeeps ==
  ASSUME AltInv, NEW c \in Client, Alt!Receive(c),
         UNCHANGED <<p2b, b2p, primarySerial, working, primarydb, expected, fromPrimary, fromClient,
                     serving, backupdb>>
  PROVE  AltInv'
<1> DEFINE m == Head(responses[c])
<1>1. /\ alt_pc[c] = "wait" /\ responses[c] # <<>>
      /\ responses' = [responses EXCEPT ![c] = Tail(@)] /\ UNCHANGED <<pairs, requests>>
  BY DEF Alt!Receive
<1>2. /\ responses[c] \in Seq(Answer) /\ Tail(responses[c]) \in Seq(Answer)
      /\ m \in Answer /\ m \in Elems(responses[c])
      /\ Elems(Tail(responses[c])) \subseteq Elems(responses[c])
  BY <1>1, Popped DEF AltInv, AltTypes, NetTypes
<1>3. NetTypes' /\ \A d \in Client : Elems(responses'[d]) \subseteq Elems(responses[d])
  BY <1>1, <1>2 DEF AltInv, AltTypes, NetTypes
<1>4. CASE UNCHANGED <<alt_pc, leader, serial, floor, accepted>>
  <2>1. AcceptedInv'
    BY <1>4, AcceptedKept DEF AltInv
  <2> QED
    BY <1>1, <1>3, <1>4, <2>1, SameRequest
<1>5. CASE m.redirect \in Replica /\ Alt!TryAgain(c, m.redirect)
  <2>1. /\ alt_pc' = [alt_pc EXCEPT ![c] = "send"]
        /\ \E r \in Replica : leader' = [leader EXCEPT ![c] = r]
        /\ UNCHANGED <<serial, floor, accepted>>
    BY <1>5 DEF Alt!TryAgain
  <2>2. AcceptedInv'
    BY <2>1, AcceptedKept DEF AltInv
  <2> QED
    BY <1>1, <1>3, <2>1, <2>2, SameRequest
<1>6. CASE /\ m.serial = serial[c] /\ m.redirect \notin Replica
           /\ alt_pc' = [alt_pc EXCEPT ![c] = "idle"]
           /\ accepted' = accepted \cup {[req |-> [client |-> c, serial |-> serial[c]],
                                          position |-> m.position, after |-> floor[c]]}
           /\ UNCHANGED <<leader, serial, floor>>
  <2> DEFINE q == [client |-> c, serial |-> serial[c]]
             a == [req |-> q, position |-> m.position, after |-> floor[c]]
  <2>1. m.redirect = -1 /\ m.position \in Nat
    BY <1>2, <1>6 DEF Answer
  <2>2. m.position \in 1 .. Len(backupdb) /\ backupdb[m.position] = q
    BY <1>2, <1>6, <2>1 DEF AltInv, ResponseInv, Told
  <2>3. q.client = c /\ q.serial = serial[c]
    OBVIOUS
  <2>4. m.position > floor[c]
    BY <2>2, <2>3 DEF AltInv, FloorInv, Behind
  <2>5. floor[c] \in Nat /\ Len(backupdb) \in Nat
    BY Lengths DEF AltInv, AltTypes, ClientTypes
  <2>6. a.req = q /\ a.position = m.position /\ a.after = floor[c]
    OBVIOUS
  <2>7. accepted' = accepted \cup {a}
    BY <1>6
  <2> HIDE DEF a, q, m
  <2>8. a.position \in Nat /\ a.after \in Nat /\ Linear(a)
    BY <2>1, <2>2, <2>4, <2>5, <2>6 DEF Linear
  <2>9. AcceptedInv'
    BY <2>7, <2>8 DEF AltInv, AcceptedInv, Linear
  <2> QED
    BY <1>1, <1>3, <1>6, <2>9, SameRequest
<1> QED
  BY <1>4, <1>5, <1>6 DEF Alt!Receive, Alt!Stale, Alt!clientVars

\* The steps of the clients.
LEMMA ClientKeeps ==
  ASSUME AltInv, NEW c \in Client, Alt!Client_(c)
  PROVE  AltInv'
BY RegisterKeeps, BeginKeeps, SendKeeps, TimeoutKeeps, ReceiveKeeps
DEF Alt!Client_, Alt!ClientStep, Alt!primaryVars, Alt!backupVars

\* What a step of a replica leaves alone, and what it may change.
LEMMA ServerFrame ==
  ASSUME AltInv, NetTypes', ReplicaTypes', LogInv', FollowInv',
         UNCHANGED <<alt_pc, leader, serial, floor, accepted>>,
         DOMAIN pairs' = DOMAIN pairs,
         \A x \in DOMAIN pairs : pairs'[x].replyTo = pairs[x].replyTo,
         \A r \in Replica : Elems(requests'[r]) \subseteq Elems(requests[r]),
         \A q \in Elems(working') \cup Elems(fromClient') : Known(q),
         \A f \in Elems(p2b') \cup Elems(fromPrimary') : Known(f.req),
         \A c \in Client : \A m \in Elems(responses'[c]) :
           m \in Elems(responses[c]) \/ Told(c, m)',
         backupdb' = backupdb
           \/ \E q \in Request : Known(q) /\ backupdb' = Append(backupdb, q)
  PROVE  AltInv'
<1> DEFINE n == Len(backupdb)
<1>1. AltTypes'
  BY DEF AltInv, AltTypes, ClientTypes
<1>2. \A q : Known(q)' <=> Known(q)
  BY DEF Known
<1> DEFINE Grows(d) == /\ n \in Nat /\ Len(d) \in Nat /\ n <= Len(d)
                       /\ \A i \in 1 .. n : d[i] = backupdb[i]
                       /\ \A i \in 1 .. Len(d) : i \in 1 .. n \/ i = n + 1
                       /\ \A q \in Elems(d) : q \in Elems(backupdb) \/ Known(q)
<1>3. Grows(backupdb')
  <2>1. backupdb \in Seq(Request)
    BY DEF AltInv, AltTypes, ReplicaTypes
  <2>2. CASE backupdb' = backupdb
    BY <2>1, <2>2
  <2>3. ASSUME NEW q \in Request, Known(q), backupdb' = Append(backupdb, q)
        PROVE  Grows(backupdb')
    BY <2>1, <2>3, Added
  <2> QED
    BY <2>2, <2>3
<1>4. KnownInv'
  <2>1. /\ \A r \in Replica : \A q \in Elems(requests'[r]) : Known(q)
        /\ \A q \in Elems(backupdb') : Known(q)
    BY <1>3 DEF AltInv, KnownInv
  <2>2. /\ Elems(working)' = Elems(working') /\ Elems(fromClient)' = Elems(fromClient')
        /\ Elems(backupdb)' = Elems(backupdb') /\ Elems(p2b)' = Elems(p2b')
        /\ Elems(fromPrimary)' = Elems(fromPrimary')
        /\ \A r : Elems(requests[r])' = Elems(requests'[r])
    BY DEF Elems
  <2> QED
    BY <1>2, <2>1, <2>2 DEF KnownInv
<1>5. ResponseInv'
  <2> SUFFICES ASSUME NEW c \in Client, NEW m \in Elems(responses'[c]) PROVE Told(c, m)'
    BY DEF ResponseInv, Elems
  <2>1. CASE m \in Elems(responses[c])
    <3>1. Told(c, m)
      BY <2>1 DEF AltInv, ResponseInv
    <3>2. \A i \in 1 .. n : i \in 1 .. Len(backupdb)'
      BY <1>3
    <3> QED
      BY <1>3, <3>1, <3>2 DEF Told
  <2> QED
    BY <2>1
<1>6. FloorInv'
  <2>1. \A c \in Client : floor[c] \in Nat /\ floor[c] <= n
    BY DEF AltInv, FloorInv, AltTypes, ClientTypes
  <2>2. ASSUME NEW i \in 1 .. Len(backupdb)' PROVE Behind(i)'
    <3>1. CASE i \in 1 .. n
      BY <1>3, <3>1 DEF AltInv, FloorInv, Behind
    <3>2. CASE i = n + 1
      <4>1. backupdb'[i] \in Request
        BY <1>1 DEF AltTypes, ReplicaTypes
      <4>2. backupdb'[i].client \in Client
        BY <4>1 DEF Request
      <4>3. floor[backupdb'[i].client] < i
        BY <1>3, <2>1, <3>2, <4>2
      <4> QED
        BY <4>3 DEF Behind
    <3> QED
      BY <1>3, <3>1, <3>2
  <2>3. \A c \in Client : floor'[c] <= Len(backupdb)'
    BY <1>3, <2>1
  <2> QED
    BY <2>2, <2>3 DEF FloorInv
<1>7. AcceptedInv'
  BY <1>3 DEF AltInv, AcceptedInv, Linear
<1> QED
  BY <1>1, <1>4, <1>5, <1>6, <1>7 DEF AltInv

\* A request on its way to be answered has a client, and a channel to it.
LEMMA Asker ==
  ASSUME AltInv, NEW q \in Request, Known(q)
  PROVE  /\ q.client \in Client /\ q.serial \in Nat
         /\ \A r \in Replica : pairs[<<q.client, r>>].replyTo = q.client
<1>1. q.client \in Client /\ q.serial \in Nat /\ alt_pc[q.client] # "off"
  BY DEF Request, Known
<1>2. \A r \in Replica : <<q.client, r>> \in DOMAIN pairs
  BY <1>1 DEF AltInv, AltTypes, ClientTypes
<1>3. \A r \in Replica : <<q.client, r>>[1] = q.client
  OBVIOUS
<1> QED
  BY <1>1, <1>2, <1>3 DEF AltInv, AltTypes, ClientTypes

\* The reply goes to the client that asked, or is lost.
LEMMA Replies ==
  ASSUME AltInv, NEW q \in Request, Known(q), NEW r \in Replica, NEW m \in Answer,
         Alt!Reply(q.client, r, m)
  PROVE  /\ responses' \in [Client -> Seq(Answer)]
         /\ \A d \in Client : \A x \in Elems(responses'[d]) :
              x \in Elems(responses[d]) \/ (d = q.client /\ x = m)
<1> DEFINE c == q.client
<1>1. c \in Client /\ pairs[<<c, r>>].replyTo = c
  BY Asker
<1>2. responses' = responses \/ responses' = [responses EXCEPT ![c] = Append(@, m)]
  BY <1>1 DEF Alt!Reply
<1>3. responses \in [Client -> Seq(Answer)]
  BY DEF AltInv, AltTypes, NetTypes
<1> HIDE DEF c
<1>4. /\ Append(responses[c], m) \in Seq(Answer)
      /\ Elems(Append(responses[c], m)) = Elems(responses[c]) \cup {m}
  BY <1>1, <1>3, Added
<1>5. responses' \in [Client -> Seq(Answer)]
  BY <1>1, <1>2, <1>3, <1>4
<1>6. \A d \in Client : responses'[d] = responses[d]
                        \/ (d = c /\ responses'[d] = Append(responses[d], m))
  BY <1>1, <1>2, <1>3
<1>7. ASSUME NEW d \in Client, NEW x \in Elems(responses'[d])
      PROVE  x \in Elems(responses[d]) \/ (d = c /\ x = m)
  <2>1. CASE responses'[d] = responses[d]
    BY <2>1
  <2>2. CASE d = c /\ responses'[d] = Append(responses[d], m)
    <3>1. x \in Elems(responses[c]) \cup {m}
      BY <1>4, <2>2
    <3> QED
      BY <2>2, <3>1
  <2> QED
    BY <1>6, <2>1, <2>2
<1> QED
  BY <1>5, <1>7 DEF c

\* The primary forwards a request, or the message is lost.
LEMMA Forwards ==
  ASSUME AltInv, NEW s \in Nat, NEW q \in Request, Alt!Forward(s, q)
  PROVE  /\ p2b' \in Seq(Forwarded)
         /\ \A f \in Elems(p2b') : f \in Elems(p2b) \/ (f.serial = s /\ f.req = q)
<1> DEFINE f == [serial |-> s, req |-> q]
<1>1. p2b' = p2b \/ p2b' = Append(p2b, f)
  BY DEF Alt!Forward
<1>2. f \in Forwarded /\ f.serial = s /\ f.req = q
  BY DEF Forwarded
<1>3. p2b \in Seq(Forwarded)
  BY DEF AltInv, AltTypes, ReplicaTypes
<1> HIDE DEF f
<1>4. Append(p2b, f) \in Seq(Forwarded) /\ Elems(Append(p2b, f)) = Elems(p2b) \cup {f}
  BY <1>2, <1>3, Added
<1> QED
  BY <1>1, <1>2, <1>3, <1>4

\* The oldest request at a replica is taken from its port.
LEMMA Taken ==
  ASSUME AltInv, NEW r \in Replica, requests[r] # <<>>,
         requests' = [requests EXCEPT ![r] = Tail(@)]
  PROVE  /\ Head(requests[r]) \in Request /\ Known(Head(requests[r]))
         /\ requests' \in [Replica -> Seq(Request)]
         /\ \A s \in Replica : Elems(requests'[s]) \subseteq Elems(requests[s])
<1>1. requests \in [Replica -> Seq(Request)]
  BY DEF AltInv, AltTypes, NetTypes
<1>2. /\ Tail(requests[r]) \in Seq(Request) /\ Head(requests[r]) \in Request
      /\ Head(requests[r]) \in Elems(requests[r])
      /\ Elems(Tail(requests[r])) \subseteq Elems(requests[r])
  BY <1>1, Popped
<1>3. Known(Head(requests[r]))
  BY <1>2 DEF AltInv, KnownInv
<1> QED
  BY <1>1, <1>2, <1>3

\* The log only grows, so what was forwarded still agrees with it.
LEMMA LogFrame ==
  ASSUME AltInv, ReplicaTypes',
         primarySerial' = Len(primarydb') + Len(working'), primarySerial <= primarySerial',
         \A i \in 1 .. primarySerial : Log(i)' = Log(i),
         \A f \in Elems(p2b') \cup Elems(fromPrimary') :
           \/ f \in Elems(p2b) \cup Elems(fromPrimary)
           \/ f.serial \in 1 .. primarySerial' /\ f.req = Log(f.serial)',
         \A a \in Elems(b2p') : a <= expected'
  PROVE  LogInv'
<1>1. /\ Elems(p2b)' = Elems(p2b') /\ Elems(fromPrimary)' = Elems(fromPrimary')
      /\ Elems(b2p)' = Elems(b2p') /\ Len(primarydb)' = Len(primarydb') /\ Len(working)' = Len(working')
  BY DEF Elems
<1>2. \A f \in Elems(p2b) \cup Elems(fromPrimary) :
        f.serial \in 1 .. primarySerial' /\ f.req = Log(f.serial)'
  <2>1. \A f \in Elems(p2b) \cup Elems(fromPrimary) :
          f.serial \in 1 .. primarySerial /\ f.req = Log(f.serial)
    BY DEF AltInv, LogInv
  <2>2. primarySerial \in Nat /\ primarySerial' \in Nat
    BY DEF AltInv, AltTypes, ReplicaTypes
  <2> QED
    BY <2>1, <2>2
<1> QED
  BY <1>1, <1>2 DEF LogInv

\* The backup still follows the primary after a step of the primary.
LEMMA FollowFrame ==
  ASSUME AltInv, ReplicaTypes', UNCHANGED <<expected, fromPrimary, fromClient, serving, backupdb>>,
         Len(primarydb') <= expected, primarySerial <= primarySerial',
         \A i \in 1 .. primarySerial : Log(i)' = Log(i)
  PROVE  FollowInv'
<1>1. /\ expected \in Nat /\ primarySerial \in Nat /\ primarySerial' \in Nat
      /\ Len(primarydb') \in Nat /\ expected <= primarySerial
  <2>1. primarydb' \in Seq(Request) /\ primarySerial' \in Nat
    BY DEF ReplicaTypes
  <2> QED
    BY <2>1 DEF AltInv, AltTypes, ReplicaTypes, FollowInv
<1>2. expected' \in Len(primarydb)' .. primarySerial'
  BY <1>1
<1>3. \A i \in 1 .. expected : backupdb[i] = Log(i)'
  BY <1>1 DEF AltInv, FollowInv
<1> QED
  BY <1>2, <1>3 DEF AltInv, FollowInv

\* The log stays as it is when the primary does nothing.
LEMMA LogKept ==
  ASSUME UNCHANGED <<working, primarydb>>
  PROVE  \A i : Log(i)' = Log(i)
BY DEF Log

\* The primary takes a request and forwards it.
LEMMA PrimaryReceiveKeeps ==
  ASSUME AltInv, Alt!PrimaryReceive
  PROVE  AltInv'
<1> DEFINE q == Head(requests[0])
<1>1. /\ working = <<>> /\ requests[0] # <<>>
      /\ requests' = [requests EXCEPT ![0] = Tail(@)] /\ working' = <<q>>
      /\ primarySerial' = primarySerial + 1 /\ Alt!Forward(primarySerial + 1, q)
      /\ UNCHANGED <<alt_pc, leader, serial, floor, accepted, pairs, responses, b2p, primarydb,
                     expected, fromPrimary, fromClient, serving, backupdb>>
  BY DEF Alt!PrimaryReceive, Alt!clientVars, Alt!backupVars
<1>2. /\ q \in Request /\ Known(q) /\ requests' \in [Replica -> Seq(Request)]
      /\ \A r \in Replica : Elems(requests'[r]) \subseteq Elems(requests[r])
  BY <1>1, Taken, TwoReplicas
<1> HIDE DEF q
<1>3. primarySerial \in Nat /\ primarySerial = Len(primarydb) /\ Len(primarydb) <= expected
  BY <1>1, Lengths DEF AltInv, AltTypes, ReplicaTypes, LogInv, FollowInv
<1>4. /\ p2b' \in Seq(Forwarded)
      /\ \A f \in Elems(p2b') : f \in Elems(p2b) \/ (f.serial = primarySerial + 1 /\ f.req = q)
  BY <1>1, <1>2, <1>3, Forwards
<1>5. /\ working' \in AtMostOne(Request) /\ Elems(working') = {q} /\ Len(working') = 1
      /\ working'[1] = q
  BY <1>1, <1>2, Elements
<1>6. NetTypes' /\ ReplicaTypes'
  BY <1>1, <1>2, <1>3, <1>4, <1>5 DEF AltInv, AltTypes, NetTypes, ReplicaTypes
<1>7. \A i \in 1 .. primarySerial : Log(i)' = Log(i)
  BY <1>1, <1>3 DEF Log
<1>8. LogInv'
  <2>1. primarySerial' = Len(primarydb') + Len(working') /\ primarySerial <= primarySerial'
    BY <1>1, <1>3, <1>5
  <2>2. \A f \in Elems(p2b') \cup Elems(fromPrimary') :
          \/ f \in Elems(p2b) \cup Elems(fromPrimary)
          \/ f.serial \in 1 .. primarySerial' /\ f.req = Log(f.serial)'
    <3>1. primarySerial + 1 \in 1 .. primarySerial'
      BY <1>1, <1>3
    <3>2. \A i : i = primarySerial + 1 => Log(i)' = q
      BY <1>1, <1>3, <1>5 DEF Log
    <3> QED
      BY <1>1, <1>4, <3>1, <3>2
  <2>3. \A a \in Elems(b2p') : a <= expected'
    BY <1>1 DEF AltInv, LogInv
  <2> QED
    BY <1>6, <1>7, <2>1, <2>2, <2>3, LogFrame
<1>9. FollowInv'
  <2>1. Len(primarydb') <= expected /\ primarySerial <= primarySerial'
    BY <1>1, <1>3
  <2> QED
    BY <1>1, <1>6, <1>7, <2>1, FollowFrame
<1>10. /\ \A x \in Elems(working') \cup Elems(fromClient') : Known(x)
       /\ \A f \in Elems(p2b') \cup Elems(fromPrimary') : Known(f.req)
  BY <1>1, <1>2, <1>4, <1>5 DEF AltInv, KnownInv
<1> QED
  BY <1>1, <1>2, <1>6, <1>8, <1>9, <1>10, ServerFrame

\* The primary forwards its request again: on a stale acknowledgement, or on none.
LEMMA ForwardAgain ==
  ASSUME AltInv, working # <<>>, Alt!Forward(primarySerial, working[1]),
         b2p' \in Seq(Nat), Elems(b2p') \subseteq Elems(b2p),
         UNCHANGED <<alt_pc, leader, serial, floor, accepted, pairs, requests, responses, primarySerial,
                     working, primarydb, expected, fromPrimary, fromClient, serving, backupdb>>
  PROVE  AltInv'
<1>1. /\ working[1] \in Request /\ Known(working[1]) /\ primarySerial \in Nat
      /\ primarySerial = Len(primarydb) + 1 /\ Len(primarydb) \in Nat
  <2>1. Len(working) = 1 /\ working[1] \in Request /\ Elems(working) = {working[1]} /\ Len(primarydb) \in Nat
    BY Lengths DEF AltInv, AltTypes
  <2> QED
    BY <2>1 DEF AltInv, AltTypes, ReplicaTypes, LogInv, KnownInv
<1>2. /\ p2b' \in Seq(Forwarded)
      /\ \A f \in Elems(p2b') : f \in Elems(p2b) \/ (f.serial = primarySerial /\ f.req = working[1])
  BY <1>1, Forwards
<1>3. NetTypes' /\ ReplicaTypes'
  BY <1>2 DEF AltInv, AltTypes, NetTypes, ReplicaTypes
<1>4. (\A i : Log(i)' = Log(i)) /\ Log(primarySerial) = working[1]
  <2>1. Log(primarySerial) = working[1]
    BY <1>1 DEF Log
  <2> QED
    BY <2>1, LogKept
<1>5. LogInv'
  <2>1. primarySerial' = Len(primarydb') + Len(working') /\ primarySerial <= primarySerial'
    BY <1>1 DEF AltInv, LogInv
  <2>2. \A f \in Elems(p2b') \cup Elems(fromPrimary') :
          \/ f \in Elems(p2b) \cup Elems(fromPrimary)
          \/ f.serial \in 1 .. primarySerial' /\ f.req = Log(f.serial)'
    <3>1. primarySerial \in 1 .. primarySerial'
      BY <1>1
    <3> QED
      BY <1>2, <1>4, <3>1
  <2>3. \A a \in Elems(b2p') : a <= expected'
    BY DEF AltInv, LogInv
  <2> QED
    BY <1>3, <1>4, <2>1, <2>2, <2>3, LogFrame
<1>6. FollowInv'
  <2>1. Len(primarydb') <= expected /\ primarySerial <= primarySerial'
    BY <1>1 DEF AltInv, FollowInv, AltTypes, ReplicaTypes
  <2> QED
    BY <1>3, <1>4, <2>1, FollowFrame
<1>7. /\ \A x \in Elems(working') \cup Elems(fromClient') : Known(x)
      /\ \A f \in Elems(p2b') \cup Elems(fromPrimary') : Known(f.req)
  BY <1>1, <1>2 DEF AltInv, KnownInv
<1> QED
  BY <1>3, <1>5, <1>6, <1>7, ServerFrame

\* The primary processes the request that the backup has acknowledged, and responds.
LEMMA ConfirmKeeps ==
  ASSUME AltInv, working # <<>>, b2p # <<>>, Head(b2p) = primarySerial,
         b2p' = Tail(b2p), primarydb' = Append(primarydb, working[1]), working' = <<>>,
         Alt!Reply(working[1].client, 0, Alt!Response(working[1].serial, Len(primarydb) + 1)),
         UNCHANGED <<alt_pc, leader, serial, floor, accepted, pairs, requests, p2b, primarySerial,
                     expected, fromPrimary, fromClient, serving, backupdb>>
  PROVE  AltInv'
<1> DEFINE q == working[1]
           n == Len(primarydb)
           m == Alt!Response(q.serial, n + 1)
<1>1. /\ q \in Request /\ Known(q) /\ n \in Nat /\ primarySerial = n + 1 /\ Len(backupdb) \in Nat
      /\ primarydb \in Seq(Request)
  <2>1. Len(working) = 1 /\ q \in Request /\ Elems(working) = {q} /\ n \in Nat /\ Len(backupdb) \in Nat
    BY Lengths DEF AltInv, AltTypes
  <2> QED
    BY <2>1 DEF AltInv, AltTypes, ReplicaTypes, LogInv, KnownInv
<1>2. b2p' \in Seq(Nat) /\ Head(b2p) \in Elems(b2p) /\ Elems(b2p') \subseteq Elems(b2p)
  BY Popped DEF AltInv, AltTypes, ReplicaTypes
<1>3. expected = n + 1 /\ n + 1 \in 1 .. Len(backupdb) /\ backupdb[n + 1] = q
  <2>1. Head(b2p) <= expected
    BY <1>2 DEF AltInv, LogInv
  <2>2. expected \in Nat /\ expected \in n .. primarySerial /\ expected <= Len(backupdb)
    BY DEF AltInv, AltTypes, ReplicaTypes, FollowInv
  <2>3. expected = n + 1 /\ n + 1 \in 1 .. expected /\ n + 1 \in 1 .. Len(backupdb)
    BY <1>1, <2>1, <2>2
  <2>4. Log(n + 1) = q
    BY <1>1 DEF Log
  <2> QED
    BY <2>3, <2>4 DEF AltInv, FollowInv
<1>4. m \in Answer /\ m.serial = q.serial /\ m.position = n + 1
  BY <1>1, Asker DEF Answer, Alt!Response
<1>5. /\ responses' \in [Client -> Seq(Answer)]
      /\ \A d \in Client : \A x \in Elems(responses'[d]) :
           x \in Elems(responses[d]) \/ (d = q.client /\ x = m)
  BY <1>1, <1>4, TwoReplicas, Replies
<1>6. /\ primarydb' \in Seq(Request) /\ Len(primarydb') = n + 1 /\ primarydb'[n + 1] = q
      /\ \A i \in 1 .. n : primarydb'[i] = primarydb[i]
  BY <1>1, Added
<1>7. working' \in AtMostOne(Request) /\ Elems(working') = {} /\ Len(working') = 0
  BY Elements
<1>8. NetTypes' /\ ReplicaTypes'
  BY <1>2, <1>5, <1>6, <1>7 DEF AltInv, AltTypes, NetTypes, ReplicaTypes
<1>9. \A i \in 1 .. primarySerial : Log(i)' = Log(i)
  <2>1. ASSUME NEW i \in 1 .. n + 1 PROVE primarydb'[i] = IF i <= n THEN primarydb[i] ELSE q
    <3>1. i \in 1 .. n \/ i = n + 1
      BY <1>1
    <3> HIDE DEF n, q
    <3> QED
      BY <1>1, <1>6, <3>1
  <2>2. \A i \in 1 .. n + 1 : i <= Len(primarydb')
    BY <1>1, <1>6
  <2> QED
    BY <1>1, <2>1, <2>2 DEF Log
<1>10. LogInv'
  <2>1. primarySerial' = Len(primarydb') + Len(working') /\ primarySerial <= primarySerial'
    BY <1>1, <1>6, <1>7
  <2>2. \A a \in Elems(b2p') : a <= expected'
    BY <1>2 DEF AltInv, LogInv
  <2> QED
    BY <1>8, <1>9, <2>1, <2>2, LogFrame
<1>11. FollowInv'
  <2>1. Len(primarydb') <= expected /\ primarySerial <= primarySerial'
    BY <1>1, <1>3, <1>6
  <2> QED
    BY <1>8, <1>9, <2>1, FollowFrame
<1>12. \A d \in Client : \A x \in Elems(responses'[d]) : x \in Elems(responses[d]) \/ Told(d, x)'
  <2>1. q = [client |-> q.client, serial |-> q.serial]
    BY <1>1 DEF Request
  <2>2. \A d, x : d = q.client /\ x = m => Told(d, x)'
    BY <1>3, <1>4, <2>1 DEF Told
  <2> QED
    BY <1>5, <2>2
<1>13. /\ \A x \in Elems(working') \cup Elems(fromClient') : Known(x)
       /\ \A f \in Elems(p2b') \cup Elems(fromPrimary') : Known(f.req)
  BY <1>7 DEF AltInv, KnownInv
<1> QED
  BY <1>8, <1>10, <1>11, <1>12, <1>13, ServerFrame

\* An acknowledgement comes to the primary.
LEMMA PrimaryAckKeeps ==
  ASSUME AltInv, Alt!PrimaryAck
  PROVE  AltInv'
<1>1. /\ working # <<>> /\ b2p # <<>> /\ b2p' = Tail(b2p)
      /\ UNCHANGED <<alt_pc, leader, serial, floor, accepted, pairs, requests, primarySerial,
                     expected, fromPrimary, fromClient, serving, backupdb>>
  BY DEF Alt!PrimaryAck, Alt!clientVars, Alt!backupVars
<1>2. CASE Alt!Confirms(Head(b2p))
  <2>1. /\ Head(b2p) = primarySerial /\ primarydb' = Append(primarydb, working[1]) /\ working' = <<>>
        /\ Alt!Reply(working[1].client, 0, Alt!Response(working[1].serial, Len(primarydb) + 1))
        /\ UNCHANGED p2b
    BY <1>2 DEF Alt!PrimaryAck, Alt!Confirms
  <2> QED
    BY <1>1, <2>1, ConfirmKeeps
<1>3. CASE ~Alt!Confirms(Head(b2p))
  <2>1. Alt!Forward(primarySerial, working[1]) /\ UNCHANGED <<primarydb, working, responses>>
    BY <1>3 DEF Alt!PrimaryAck
  <2>2. b2p' \in Seq(Nat) /\ Elems(b2p') \subseteq Elems(b2p)
    BY <1>1, Popped DEF AltInv, AltTypes, ReplicaTypes
  <2> QED
    BY <1>1, <2>1, <2>2, ForwardAgain
<1> QED
  BY <1>2, <1>3

\* No acknowledgement came in time.
LEMMA PrimaryTimeoutKeeps ==
  ASSUME AltInv, Alt!PrimaryTimeout
  PROVE  AltInv'
<1>1. /\ working # <<>> /\ Alt!Forward(primarySerial, working[1])
      /\ UNCHANGED <<alt_pc, leader, serial, floor, accepted, pairs, requests, responses, b2p,
                     primarySerial, working, primarydb, expected, fromPrimary, fromClient, serving,
                     backupdb>>
  BY DEF Alt!PrimaryTimeout, Alt!clientVars, Alt!primaryVars, Alt!backupVars
<1>2. b2p' \in Seq(Nat) /\ Elems(b2p') \subseteq Elems(b2p)
  BY <1>1 DEF AltInv, AltTypes, ReplicaTypes
<1> QED
  BY <1>1, <1>2, ForwardAgain

\* A step of the backup, or of the test: the primary does nothing and nothing new is forwarded.
LEMMA BackupFrame ==
  ASSUME AltInv, NetTypes', ReplicaTypes', FollowInv',
         UNCHANGED <<alt_pc, leader, serial, floor, accepted, primarySerial, working, primarydb>>,
         DOMAIN pairs' = DOMAIN pairs,
         \A x \in DOMAIN pairs : pairs'[x].replyTo = pairs[x].replyTo,
         \A r \in Replica : Elems(requests'[r]) \subseteq Elems(requests[r]),
         \A q \in Elems(fromClient') : Known(q),
         Elems(p2b') \cup Elems(fromPrimary') \subseteq Elems(p2b) \cup Elems(fromPrimary),
         \A a \in Elems(b2p') : a <= expected',
         \A c \in Client : \A m \in Elems(responses'[c]) :
           m \in Elems(responses[c]) \/ Told(c, m)',
         backupdb' = backupdb
           \/ \E q \in Request : Known(q) /\ backupdb' = Append(backupdb, q)
  PROVE  AltInv'
<1>1. LogInv'
  <2>1. primarySerial' = Len(primarydb') + Len(working') /\ primarySerial <= primarySerial'
    BY DEF AltInv, AltTypes, ReplicaTypes, LogInv
  <2>2. \A i \in 1 .. primarySerial : Log(i)' = Log(i)
    BY LogKept
  <2> QED
    BY <2>1, <2>2, LogFrame
<1>2. /\ \A q \in Elems(working') \cup Elems(fromClient') : Known(q)
      /\ \A f \in Elems(p2b') \cup Elems(fromPrimary') : Known(f.req)
  BY DEF AltInv, KnownInv
<1> QED
  BY <1>1, <1>2, ServerFrame

\* The backup's receives take a message, or their messages are dropped: it still follows.
LEMMA BackupWaits ==
  ASSUME AltInv, UNCHANGED <<primarySerial, working, primarydb, expected, backupdb>>,
         ~serving' \/ (fromPrimary' = <<>> /\ fromClient' = <<>>), serving => serving'
  PROVE  FollowInv'
<1>1. \A i : Log(i)' = Log(i)
  BY LogKept
<1> QED
  BY <1>1 DEF AltInv, FollowInv

\* The primary's messages are lost from now on.
LEMMA FailPrimaryKeeps ==
  ASSUME AltInv, Alt!FailPrimary
  PROVE  AltInv'
<1>1. /\ pairs' = [x \in DOMAIN pairs |-> IF x \in Alt!ResponseChannels(0)
                                          THEN [pairs[x] EXCEPT !.response = "all"] ELSE pairs[x]]
      /\ UNCHANGED <<alt_pc, leader, serial, floor, accepted, requests, responses, p2b, b2p, primarySerial,
                     working, primarydb, expected, fromPrimary, fromClient, serving, backupdb>>
  BY DEF Alt!FailPrimary, Alt!clientVars, Alt!primaryVars, Alt!backupVars
<1>2. DOMAIN pairs' = DOMAIN pairs /\ \A x \in DOMAIN pairs : pairs'[x].replyTo = pairs[x].replyTo
  BY <1>1
<1>3. NetTypes' /\ ReplicaTypes'
  BY <1>1 DEF AltInv, AltTypes, NetTypes, ReplicaTypes
<1>4. FollowInv'
  BY <1>1, BackupWaits DEF AltInv, FollowInv
<1> QED
  BY <1>1, <1>2, <1>3, <1>4, BackupFrame DEF AltInv, KnownInv, LogInv

\* The backup's receive from the primary takes a message.
LEMMA TakePrimaryKeeps ==
  ASSUME AltInv, Alt!TakePrimary
  PROVE  AltInv'
<1>1. /\ ~serving /\ p2b # <<>> /\ fromPrimary' = <<Head(p2b)>> /\ p2b' = Tail(p2b)
      /\ UNCHANGED <<alt_pc, leader, serial, floor, accepted, pairs, requests, responses, b2p, primarySerial,
                     working, primarydb, expected, fromClient, serving, backupdb>>
  BY DEF Alt!TakePrimary, Alt!altNetVars, Alt!netVars, Alt!clientVars, Alt!primaryVars
<1>2. /\ p2b' \in Seq(Forwarded) /\ Head(p2b) \in Forwarded /\ Head(p2b) \in Elems(p2b)
      /\ Elems(p2b') \subseteq Elems(p2b)
  BY <1>1, Popped DEF AltInv, AltTypes, ReplicaTypes
<1>3. fromPrimary' \in AtMostOne(Forwarded) /\ Elems(fromPrimary') = {Head(p2b)}
  BY <1>1, <1>2, Elements
<1>4. NetTypes' /\ ReplicaTypes'
  BY <1>1, <1>2, <1>3 DEF AltInv, AltTypes, NetTypes, ReplicaTypes
<1>5. FollowInv'
  BY <1>1, BackupWaits
<1> QED
  BY <1>1, <1>2, <1>3, <1>4, <1>5, BackupFrame DEF AltInv, KnownInv, LogInv

\* The backup's receive from the clients takes a message.
LEMMA TakeClientKeeps ==
  ASSUME AltInv, Alt!TakeClient
  PROVE  AltInv'
<1> DEFINE q == Head(requests[1])
<1>1. /\ ~serving /\ requests[1] # <<>> /\ fromClient' = <<q>>
      /\ requests' = [requests EXCEPT ![1] = Tail(@)]
      /\ UNCHANGED <<alt_pc, leader, serial, floor, accepted, pairs, responses, p2b, b2p, primarySerial,
                     working, primarydb, expected, fromPrimary, serving, backupdb>>
  BY DEF Alt!TakeClient, Alt!clientVars, Alt!primaryVars
<1>2. /\ q \in Request /\ Known(q) /\ requests' \in [Replica -> Seq(Request)]
      /\ \A r \in Replica : Elems(requests'[r]) \subseteq Elems(requests[r])
  BY <1>1, Taken, TwoReplicas
<1> HIDE DEF q
<1>3. fromClient' \in AtMostOne(Request) /\ Elems(fromClient') = {q}
  BY <1>1, <1>2, Elements
<1>4. NetTypes' /\ ReplicaTypes'
  BY <1>1, <1>2, <1>3 DEF AltInv, AltTypes, NetTypes, ReplicaTypes
<1>5. FollowInv'
  BY <1>1, BackupWaits
<1> QED
  BY <1>1, <1>2, <1>3, <1>4, <1>5, BackupFrame DEF AltInv, KnownInv, LogInv

\* The backup takes over.
LEMMA BackupTimeoutKeeps ==
  ASSUME AltInv, Alt!BackupTimeout
  PROVE  AltInv'
<1>1. /\ fromPrimary = <<>> /\ fromClient = <<>> /\ serving' = TRUE
      /\ UNCHANGED <<alt_pc, leader, serial, floor, accepted, pairs, requests, responses, p2b, b2p,
                     primarySerial, working, primarydb, expected, fromPrimary, fromClient, backupdb>>
  BY DEF Alt!BackupTimeout, Alt!altNetVars, Alt!netVars, Alt!clientVars, Alt!primaryVars
<1>2. NetTypes' /\ ReplicaTypes'
  BY <1>1 DEF AltInv, AltTypes, NetTypes, ReplicaTypes
<1>3. FollowInv'
  BY <1>1, BackupWaits
<1> QED
  BY <1>1, <1>2, <1>3, BackupFrame DEF AltInv, KnownInv, LogInv

\* The backup redirects a client.
LEMMA BackupRedirectKeeps ==
  ASSUME AltInv, Alt!BackupRedirect
  PROVE  AltInv'
<1> DEFINE q == fromClient[1]
           m == Alt!Redirection(q.serial, 0)
<1>1. /\ fromPrimary = <<>> /\ fromClient # <<>> /\ fromClient' = <<>> /\ Alt!Reply(q.client, 1, m)
      /\ UNCHANGED <<alt_pc, leader, serial, floor, accepted, pairs, requests, p2b, b2p, primarySerial,
                     working, primarydb, expected, fromPrimary, serving, backupdb>>
  BY DEF Alt!BackupRedirect, Alt!clientVars, Alt!primaryVars
<1>2. q \in Request /\ Known(q)
  <2>1. q \in Request /\ Elems(fromClient) = {q}
    BY <1>1, Lengths DEF AltInv, AltTypes
  <2> QED
    BY <2>1 DEF AltInv, KnownInv
<1>3. m \in Answer /\ m.redirect = 0
  BY <1>2, Asker, TwoReplicas DEF Answer, Alt!Redirection
<1>4. /\ responses' \in [Client -> Seq(Answer)]
      /\ \A d \in Client : \A x \in Elems(responses'[d]) :
           x \in Elems(responses[d]) \/ (d = q.client /\ x = m)
  BY <1>1, <1>2, <1>3, TwoReplicas, Replies
<1>5. fromClient' \in AtMostOne(Request) /\ Elems(fromClient') = {}
  BY <1>1, Elements
<1>6. NetTypes' /\ ReplicaTypes'
  BY <1>1, <1>4, <1>5 DEF AltInv, AltTypes, NetTypes, ReplicaTypes
<1>7. FollowInv'
  BY <1>1, BackupWaits DEF AltInv, FollowInv
<1>8. \A d \in Client : \A x \in Elems(responses'[d]) : x \in Elems(responses[d]) \/ Told(d, x)'
  <2>1. \A d, x : x = m => Told(d, x)'
    BY <1>3 DEF Told
  <2> QED
    BY <1>4, <2>1
<1> QED
  BY <1>1, <1>5, <1>6, <1>7, <1>8, BackupFrame DEF AltInv, KnownInv, LogInv

\* The backup applies what the primary forwarded, if it is the next, and acknowledges.
LEMMA BackupApplyKeeps ==
  ASSUME AltInv, Alt!BackupApply
  PROVE  AltInv'
<1> DEFINE f == fromPrimary[1]
<1>1. /\ fromPrimary # <<>> /\ fromPrimary' = <<>> /\ fromClient' = <<>>
      /\ \/ f.serial = expected + 1 /\ expected' = expected + 1 /\ backupdb' = Append(backupdb, f.req)
         \/ UNCHANGED <<expected, backupdb>>
      /\ b2p' = b2p \/ b2p' = Append(b2p, expected')
      /\ UNCHANGED <<alt_pc, leader, serial, floor, accepted, pairs, requests, responses, p2b,
                     primarySerial, working, primarydb, serving>>
  BY DEF Alt!BackupApply, Alt!IsNew, Alt!clientVars, Alt!primaryVars
<1>2. /\ f.req \in Request /\ Known(f.req)
      /\ f.serial \in 1 .. primarySerial /\ f.req = Log(f.serial)
  <2>1. f \in Forwarded /\ Elems(fromPrimary) = {f}
    BY <1>1, Lengths DEF AltInv, AltTypes
  <2> QED
    BY <2>1 DEF AltInv, KnownInv, LogInv, Forwarded
<1> HIDE DEF f
<1>3. ~serving /\ Len(backupdb) = expected
  BY <1>1 DEF AltInv, FollowInv
<1>4. /\ expected \in Nat /\ primarySerial \in Nat /\ Len(primarydb) \in Nat
      /\ expected \in Len(primarydb) .. primarySerial
      /\ \A i \in 1 .. expected : backupdb[i] = Log(i)
      /\ b2p \in Seq(Nat) /\ backupdb \in Seq(Request)
  BY DEF AltInv, AltTypes, ReplicaTypes, FollowInv
<1>5. expected' \in Nat /\ expected <= expected'
  BY <1>1, <1>4
<1>6. b2p' \in Seq(Nat) /\ \A a \in Elems(b2p') : a <= expected'
  <2>1. \A a \in Elems(b2p) : a \in Nat /\ a <= expected
    BY Places DEF AltInv, LogInv
  <2>2. Append(b2p, expected') \in Seq(Nat) /\ Elems(Append(b2p, expected')) = Elems(b2p) \cup {expected'}
    BY <1>4, <1>5, Added
  <2>3. \A a \in Elems(b2p) \cup {expected'} : a <= expected'
    BY <1>4, <1>5, <2>1
  <2> QED
    BY <1>1, <1>4, <2>2, <2>3
<1>7. /\ backupdb' \in Seq(Request) /\ Len(backupdb') = expected'
      /\ expected' \in Len(primarydb) .. primarySerial
      /\ \A i \in 1 .. expected' : backupdb'[i] = Log(i)
  <2>1. CASE UNCHANGED <<expected, backupdb>>
    BY <1>3, <1>4, <2>1
  <2>2. CASE f.serial = expected + 1 /\ expected' = expected + 1 /\ backupdb' = Append(backupdb, f.req)
    <3>1. /\ backupdb' \in Seq(Request) /\ Len(backupdb') = expected + 1
          /\ backupdb'[expected + 1] = f.req
          /\ \A i \in 1 .. expected : backupdb'[i] = backupdb[i]
      BY <1>2, <1>3, <1>4, <2>2, Added
    <3>2. expected + 1 \in Len(primarydb) .. primarySerial
      BY <1>2, <1>4, <2>2
    <3>3. \A i \in 1 .. expected + 1 : i \in 1 .. expected \/ i = expected + 1
      BY <1>4
    <3>4. backupdb'[expected + 1] = Log(expected + 1)
      BY <1>2, <2>2, <3>1
    <3> QED
      BY <1>4, <2>2, <3>1, <3>2, <3>3, <3>4
  <2> QED
    BY <1>1, <2>1, <2>2
<1>8. /\ fromPrimary' \in AtMostOne(Forwarded) /\ Elems(fromPrimary') = {}
      /\ fromClient' \in AtMostOne(Request) /\ Elems(fromClient') = {}
  BY <1>1, Elements
<1>9. NetTypes' /\ ReplicaTypes'
  BY <1>1, <1>5, <1>6, <1>7, <1>8 DEF AltInv, AltTypes, NetTypes, ReplicaTypes
<1>10. FollowInv'
  <2>1. \A i : Log(i)' = Log(i)
    BY <1>1, LogKept
  <2>2. expected' \in Len(primarydb)' .. primarySerial' /\ expected' <= Len(backupdb)'
    BY <1>1, <1>5, <1>7
  <2> QED
    BY <1>1, <1>3, <1>7, <2>1, <2>2 DEF FollowInv
<1>11. backupdb' = backupdb \/ \E q \in Request : Known(q) /\ backupdb' = Append(backupdb, q)
  BY <1>1, <1>2
<1> QED
  BY <1>1, <1>6, <1>8, <1>9, <1>10, <1>11, BackupFrame DEF AltInv, LogInv

\* The backup serves a client itself.
LEMMA BackupServeKeeps ==
  ASSUME AltInv, Alt!BackupServe
  PROVE  AltInv'
<1> DEFINE q == Head(requests[1])
           n == Len(backupdb)
           m == Alt!Response(q.serial, n + 1)
<1>1. /\ serving /\ requests[1] # <<>> /\ requests' = [requests EXCEPT ![1] = Tail(@)]
      /\ backupdb' = Append(backupdb, q) /\ Alt!Reply(q.client, 1, m)
      /\ UNCHANGED <<alt_pc, leader, serial, floor, accepted, pairs, p2b, b2p, primarySerial, working,
                     primarydb, expected, fromPrimary, fromClient, serving>>
  BY DEF Alt!BackupServe, Alt!clientVars, Alt!primaryVars
<1>2. /\ q \in Request /\ Known(q) /\ requests' \in [Replica -> Seq(Request)]
      /\ \A r \in Replica : Elems(requests'[r]) \subseteq Elems(requests[r])
  BY <1>1, Taken, TwoReplicas
<1> HIDE DEF q
<1>3. /\ n \in Nat /\ backupdb' \in Seq(Request) /\ Len(backupdb') = n + 1 /\ backupdb'[n + 1] = q
      /\ \A i \in 1 .. n : backupdb'[i] = backupdb[i]
  BY <1>1, <1>2, Added DEF AltInv, AltTypes, ReplicaTypes
<1>4. m \in Answer /\ m.serial = q.serial /\ m.position = n + 1
  BY <1>2, <1>3, Asker DEF Answer, Alt!Response
<1> HIDE DEF m
<1>5. /\ responses' \in [Client -> Seq(Answer)]
      /\ \A d \in Client : \A x \in Elems(responses'[d]) :
           x \in Elems(responses[d]) \/ (d = q.client /\ x = m)
  BY <1>1, <1>2, <1>4, TwoReplicas, Replies
<1>6. NetTypes' /\ ReplicaTypes'
  BY <1>1, <1>2, <1>3, <1>5 DEF AltInv, AltTypes, NetTypes, ReplicaTypes
<1>7. FollowInv'
  <2>1. \A i : Log(i)' = Log(i)
    BY <1>1, LogKept
  <2>2. /\ expected \in Nat /\ expected \in Len(primarydb) .. primarySerial /\ expected <= n
        /\ \A i \in 1 .. expected : backupdb[i] = Log(i)
    BY DEF AltInv, AltTypes, ReplicaTypes, FollowInv
  <2>3. expected <= Len(backupdb') /\ \A i \in 1 .. expected : i \in 1 .. n
    BY <1>3, <2>2
  <2> QED
    BY <1>1, <1>3, <2>1, <2>2, <2>3 DEF AltInv, FollowInv
<1>8. \A d \in Client : \A x \in Elems(responses'[d]) : x \in Elems(responses[d]) \/ Told(d, x)'
  <2>1. q = [client |-> q.client, serial |-> q.serial]
    BY <1>2 DEF Request
  <2>2. n + 1 \in 1 .. Len(backupdb')
    BY <1>3
  <2>3. \A d, x : d = q.client /\ x = m => Told(d, x)'
    BY <1>3, <1>4, <2>1, <2>2 DEF Told
  <2> QED
    BY <1>5, <2>3
<1> QED
  BY <1>1, <1>2, <1>6, <1>7, <1>8, BackupFrame DEF AltInv, KnownInv, LogInv

-----------------------------------------------------------------------------
\* The invariant holds at the start.
LEMMA AltBegins == Alt!Init => AltInv
<1> SUFFICES ASSUME Alt!Init PROVE AltInv
  OBVIOUS
<1>1. /\ pairs = <<>> /\ requests = [r \in Replica |-> <<>>] /\ responses = [c \in Client |-> <<>>]
      /\ alt_pc = [c \in Client |-> "off"] /\ leader = [c \in Client |-> 0]
      /\ serial = [c \in Client |-> 0] /\ floor = [c \in Client |-> 0] /\ accepted = {}
      /\ p2b = <<>> /\ b2p = <<>> /\ primarySerial = 0 /\ working = <<>> /\ primarydb = <<>>
      /\ expected = 0 /\ fromPrimary = <<>> /\ fromClient = <<>> /\ serving = FALSE /\ backupdb = <<>>
  BY DEF Alt!Init, Alt!NetInit
<1>2. Elems(<<>>) = {} /\ Len(<<>>) = 0 /\ (\A S : <<>> \in AtMostOne(S) /\ <<>> \in Seq(S))
  BY Elements DEF AtMostOne
<1>3. AltTypes
  <2>1. DOMAIN <<>> = {}
    OBVIOUS
  <2> QED
    BY <1>1, <1>2, <2>1, TwoReplicas DEF AltTypes, ClientTypes, NetTypes, ReplicaTypes
<1>4. KnownInv /\ LogInv /\ FollowInv
  BY <1>1, <1>2 DEF KnownInv, LogInv, FollowInv
<1>5. ResponseInv /\ FloorInv /\ AcceptedInv
  BY <1>1, <1>2 DEF ResponseInv, FloorInv, AcceptedInv
<1> QED
  BY <1>3, <1>4, <1>5 DEF AltInv

\* Every step keeps it.
LEMMA AltKeeps == AltInv /\ [Alt!Next]_(Alt!vars) => AltInv'
<1> SUFFICES ASSUME AltInv, [Alt!Next]_(Alt!vars) PROVE AltInv'
  OBVIOUS
<1>1. CASE UNCHANGED Alt!vars
  <2>1. UNCHANGED <<alt_pc, leader, serial, floor, accepted, pairs, requests, responses, p2b, b2p,
                    primarySerial, working, primarydb, expected, fromPrimary, fromClient, serving, backupdb>>
    BY <1>1 DEF Alt!vars, Alt!altNetVars, Alt!clientVars, Alt!netVars, Alt!primaryVars, Alt!backupVars
  <2>2. NetTypes' /\ ReplicaTypes'
    BY <2>1 DEF AltInv, AltTypes, NetTypes, ReplicaTypes
  <2>3. FollowInv'
    BY <2>1, BackupWaits DEF AltInv, FollowInv
  <2> QED
    BY <2>1, <2>2, <2>3, BackupFrame DEF AltInv, KnownInv, LogInv
<1>2. CASE Alt!Next
  BY <1>2, ClientKeeps, PrimaryReceiveKeeps, PrimaryAckKeeps, PrimaryTimeoutKeeps, FailPrimaryKeeps,
     TakePrimaryKeeps, TakeClientKeeps, BackupApplyKeeps, BackupRedirectKeeps, BackupTimeoutKeeps,
     BackupServeKeeps DEF Alt!Next
<1> QED
  BY <1>1, <1>2

\* The databases of the primary and the backup, what is on its way between them and to the
\* clients, and what the clients have accepted always fit together.
THEOREM AltInvariance == Alt!Spec => []AltInv
BY AltBegins, AltKeeps, PTL DEF Alt!Spec

\* Clients see one database, through losses, retries, redirections and the takeover.
THEOREM ReplicatedHolds == Alt!Spec => []Replicated
<1>1. AltInv => Replicated
  <2> SUFFICES ASSUME AltInv PROVE Replicated
    OBVIOUS
  <2>1. Alt!Linearizable
    BY DEF AltInv, AcceptedInv, Linear, Alt!Linearizable
  <2>2. ASSUME NEW i \in 1 .. Len(primarydb) PROVE i <= expected /\ primarydb[i] = backupdb[i]
    <3>1. Len(primarydb) \in Nat
      BY Lengths DEF AltInv, AltTypes
    <3>2. expected \in Nat /\ Len(primarydb) <= expected
      BY <3>1 DEF AltInv, AltTypes, ReplicaTypes, FollowInv
    <3>3. i \in 1 .. expected /\ i <= expected /\ Log(i) = primarydb[i]
      BY <3>1, <3>2 DEF Log
    <3> QED
      BY <3>3 DEF AltInv, FollowInv
  <2>3. Alt!PrimaryFollows
    BY <2>2 DEF Alt!PrimaryFollows
  <2> QED
    BY <2>1, <2>3 DEF Replicated
<1> QED
  BY <1>1, AltInvariance, PTL

-----------------------------------------------------------------------------
\* The databases that diff compares.

\* A set of indices that is not empty has a least one: the segments up to its elements are
\* well-founded.
LEMMA MinOf ==
  ASSUME NEW n \in Nat, NEW S \in SUBSET (1 .. n), S # {}
  PROVE  Pancy!Min(S) \in S /\ \A y \in S : Pancy!Min(S) <= y
<1> DEFINE T == {1 .. i : i \in S}
<1>1. IsFiniteSet(1 .. n)
  BY FS_Interval
<1>2. IsWellFoundedOn(StrictSubsetOrdering(1 .. n), SUBSET (1 .. n))
  BY <1>1, FS_StrictSubsetOrderingWellFounded, FS_FiniteSubsetsOfFinite
<1>3. T \subseteq SUBSET (1 .. n) /\ T # {}
  <2>1. \A i \in S : 1 .. i \in SUBSET (1 .. n)
    OBVIOUS
  <2> QED
    BY <2>1
<1>4. PICK t \in T : \A u \in T : <<u, t>> \notin StrictSubsetOrdering(1 .. n)
  BY <1>2, <1>3, WFMin
<1>5. PICK x \in S : t = 1 .. x
  BY <1>4
<1>6. \A y \in S : x <= y
  <2> SUFFICES ASSUME NEW y \in S, y < x PROVE FALSE
    OBVIOUS
  <2>1. 1 .. y \in T /\ 1 .. y \in SUBSET (1 .. n) /\ 1 .. x \in SUBSET (1 .. n)
    OBVIOUS
  <2>2. 1 .. y \subseteq 1 .. x /\ 1 .. y # 1 .. x
    <3>1. x \in 1 .. x /\ x \notin 1 .. y
      OBVIOUS
    <3> QED
      BY <3>1
  <2>3. <<1 .. y, 1 .. x>> \in StrictSubsetOrdering(1 .. n)
    BY <2>1, <2>2 DEF StrictSubsetOrdering
  <2> QED
    BY <1>4, <1>5, <2>1, <2>3
<1> QED
  BY <1>5, <1>6 DEF Pancy!Min

\* A database holds versions that it has handed out, each for one key, and its removes are
\* of keys that were there, the latest first.
DbMap(db) ==
  /\ \A k \in Key : db.map[k].version < db.next
  /\ \A j, k \in Key : j # k /\ db.map[j].version # 0 => db.map[j].version # db.map[k].version
DbRemoves(db) ==
  /\ Len(db.removes) <= MaxRemoves
  /\ \A i \in 1 .. Len(db.removes) :
       db.removes[i].version < db.next /\ db.removes[i].vv.version \in 1 .. db.removes[i].version - 1
  /\ \A i, j \in 1 .. Len(db.removes) : i < j => db.removes[j].version < db.removes[i].version
DbOk(db) == db \in Pancy!Database /\ DbMap(db) /\ DbRemoves(db)

\* What is known of the parts of a database.
LEMMA DbParts ==
  ASSUME NEW db \in Pancy!Database
  PROVE  /\ db = [next |-> db.next, map |-> db.map, removes |-> db.removes]
         /\ db.next \in Nat \ {0} /\ db.map \in [Key -> Pancy!VV]
         /\ db.removes \in Seq(Pancy!Removed) /\ Len(db.removes) \in Nat
         /\ \A k \in Key : db.map[k].version \in Nat
         /\ \A k \in Key : db.map[k].version = 0 <=> db.map[k] = Pancy!NonexistentVV
         /\ \A i \in 1 .. Len(db.removes) :
              /\ db.removes[i].vv \in Pancy!VV /\ db.removes[i].vv.version \in Nat
              /\ db.removes[i].version \in Nat /\ db.removes[i].key \in Key
<1>1. db = [next |-> db.next, map |-> db.map, removes |-> db.removes]
      /\ db.next \in Nat \ {0} /\ db.map \in [Key -> Pancy!VV] /\ db.removes \in Seq(Pancy!Removed)
  BY DEF Pancy!Database
<1>2. \A vv \in Pancy!VV : vv.version \in Nat /\ (vv.version = 0 <=> vv = Pancy!NonexistentVV)
  BY DEF Pancy!VV, Pancy!NonexistentVV
<1>3. \A i \in 1 .. Len(db.removes) : db.removes[i] \in Pancy!Removed
  BY <1>1
<1>4. \A rr \in Pancy!Removed : rr.vv \in Pancy!VV /\ rr.version \in Nat /\ rr.key \in Key
  BY DEF Pancy!Removed
<1> QED
  BY <1>1, <1>2, <1>3, <1>4

\* The records after one that is put before them, of which the last may be forgotten.
LEMMA KeptIs ==
  ASSUME NEW db, DbOk(db), NEW rr \in Pancy!Removed
  PROVE  LET new == Pancy!Kept(<<rr>> \o db.removes)
             n == Len(db.removes)
         IN  /\ new \in Seq(Pancy!Removed)
             /\ Len(new) = IF n = MaxRemoves THEN n ELSE n + 1
             /\ new[1] = rr /\ 1 \in 1 .. Len(new)
             /\ \A i \in 2 .. Len(new) : i - 1 \in 1 .. n /\ new[i] = db.removes[i - 1]
<1> DEFINE old == db.removes
           n == Len(old)
           long == <<rr>> \o old
<1>1. /\ old \in Seq(Pancy!Removed) /\ n \in Nat /\ n <= MaxRemoves /\ MaxRemoves \in Nat \ {0}
  BY DbParts, PancyAssumption DEF DbOk, DbRemoves
<1>2. /\ long \in Seq(Pancy!Removed) /\ Len(long) = n + 1 /\ long[1] = rr
      /\ \A i \in 2 .. n + 1 : long[i] = old[i - 1]
  BY <1>1
<1> HIDE DEF long, old
<1>3. CASE n = MaxRemoves
  <2>1. Pancy!Kept(long) = SubSeq(long, 1, MaxRemoves)
    BY <1>1, <1>2, <1>3 DEF Pancy!Kept
  <2>2. /\ SubSeq(long, 1, MaxRemoves) \in Seq(Pancy!Removed)
        /\ Len(SubSeq(long, 1, MaxRemoves)) = MaxRemoves
        /\ \A i \in 1 .. MaxRemoves : SubSeq(long, 1, MaxRemoves)[i] = long[i]
    BY <1>1, <1>2, <1>3
  <2>3. /\ Pancy!Kept(long) \in Seq(Pancy!Removed)
        /\ Len(Pancy!Kept(long)) = IF n = MaxRemoves THEN n ELSE n + 1
        /\ Pancy!Kept(long)[1] = rr /\ 1 \in 1 .. Len(Pancy!Kept(long))
        /\ \A i \in 2 .. Len(Pancy!Kept(long)) : i - 1 \in 1 .. n /\ Pancy!Kept(long)[i] = old[i - 1]
    BY <1>1, <1>2, <1>3, <2>1, <2>2
  <2> QED
    BY <2>3 DEF long, old
<1>4. CASE n # MaxRemoves
  <2>1. Pancy!Kept(long) = long
    BY <1>1, <1>2, <1>4 DEF Pancy!Kept
  <2>2. /\ Pancy!Kept(long) \in Seq(Pancy!Removed)
        /\ Len(Pancy!Kept(long)) = IF n = MaxRemoves THEN n ELSE n + 1
        /\ Pancy!Kept(long)[1] = rr /\ 1 \in 1 .. Len(Pancy!Kept(long))
        /\ \A i \in 2 .. Len(Pancy!Kept(long)) : i - 1 \in 1 .. n /\ Pancy!Kept(long)[i] = old[i - 1]
    BY <1>1, <1>2, <1>4, <2>1
  <2> QED
    BY <2>2 DEF long, old
<1> QED
  BY <1>3, <1>4

\* What a remove changes.
LEMMA EraseIs ==
  ASSUME NEW db, DbOk(db), NEW k \in Key, Pancy!Present(db, k)
  PROVE  LET new == Pancy!Erase(db, k)
             n == Len(db.removes)
         IN  /\ new \in Pancy!Database /\ new.next = db.next + 1
             /\ new.map = [db.map EXCEPT ![k] = Pancy!NonexistentVV]
             /\ Len(new.removes) = IF n = MaxRemoves THEN n ELSE n + 1
             /\ new.removes[1] = [key |-> k, vv |-> db.map[k], version |-> db.next]
             /\ 1 \in 1 .. Len(new.removes)
             /\ \A i \in 2 .. Len(new.removes) : i - 1 \in 1 .. n /\ new.removes[i] = db.removes[i - 1]
<1> DEFINE rr == [key |-> k, vv |-> db.map[k], version |-> db.next]
<1>1. rr \in Pancy!Removed /\ db.next \in Nat \ {0} /\ db.map \in [Key -> Pancy!VV]
  BY DbParts DEF DbOk, Pancy!Removed
<1> HIDE DEF rr
<1>2. Pancy!Erase(db, k) = [next |-> db.next + 1, map |-> [db.map EXCEPT ![k] = Pancy!NonexistentVV],
                            removes |-> Pancy!Kept(<<rr>> \o db.removes)]
  BY DEF Pancy!Erase, rr
<1>3. Pancy!Kept(<<rr>> \o db.removes) \in Seq(Pancy!Removed)
  BY <1>1, KeptIs
<1>4. [db.map EXCEPT ![k] = Pancy!NonexistentVV] \in [Key -> Pancy!VV]
  BY <1>1 DEF Pancy!VV
<1> QED
  BY <1>1, <1>2, <1>3, <1>4, KeptIs DEF Pancy!Database, rr

\* What a put changes.
LEMMA StoreIs ==
  ASSUME NEW db, DbOk(db), NEW k \in Key, NEW v \in Value
  PROVE  LET new == Pancy!Store(db, k, v)
         IN  /\ new \in Pancy!Database /\ new.next = db.next + 1 /\ new.removes = db.removes
             /\ new.map = [db.map EXCEPT ![k] = [value |-> v, version |-> db.next]]
<1>1. /\ db.next \in Nat \ {0} /\ db.map \in [Key -> Pancy!VV] /\ db.removes \in Seq(Pancy!Removed)
  BY DbParts DEF DbOk
<1>2. [value |-> v, version |-> db.next] \in Pancy!VV
  BY <1>1 DEF Pancy!VV
<1> QED
  BY <1>1, <1>2 DEF Pancy!Store, Pancy!Database

\* What a request does.
LEMMA AfterIs ==
  ASSUME NEW db, NEW r \in Pancy!Request
  PROVE  /\ r.key \in Key
         /\ \/ Pancy!After(db, r) = db /\ ~Pancy!Accepted(db, r)
            \/ /\ Pancy!Accepted(db, r) /\ Pancy!Present(db, r.key)
               /\ Pancy!After(db, r) = Pancy!Erase(db, r.key)
            \/ Pancy!Accepted(db, r) /\ r.value \in Value
               /\ Pancy!After(db, r) = Pancy!Store(db, r.key, r.value)
BY DEF Pancy!Request, Pancy!After, Pancy!Accepted

\* A put keeps what DbOk says.
LEMMA StoreOk ==
  ASSUME NEW db, DbOk(db), NEW k \in Key, NEW v \in Value
  PROVE  DbOk(Pancy!Store(db, k, v))
<1> DEFINE new == Pancy!Store(db, k, v)
<1>1. /\ new \in Pancy!Database /\ new.next = db.next + 1 /\ new.removes = db.removes
      /\ new.map = [db.map EXCEPT ![k] = [value |-> v, version |-> db.next]]
  BY StoreIs
<1>2. /\ db.next \in Nat \ {0} /\ db.map \in [Key -> Pancy!VV] /\ DbMap(db) /\ DbRemoves(db)
      /\ \A j \in Key : db.map[j].version \in Nat
      /\ \A i \in 1 .. Len(db.removes) : db.removes[i].version \in Nat
  BY DbParts DEF DbOk
<1> HIDE DEF new
<1>3. \A j \in Key : new.map[j].version = IF j = k THEN db.next ELSE db.map[j].version
  BY <1>1, <1>2
<1>4. DbMap(new)
  BY <1>1, <1>2, <1>3 DEF DbMap
<1>5. DbRemoves(new)
  BY <1>1, <1>2 DEF DbRemoves
<1> QED
  BY <1>1, <1>4, <1>5 DEF DbOk, new

\* A remove keeps it.
LEMMA EraseOk ==
  ASSUME NEW db, DbOk(db), NEW k \in Key, Pancy!Present(db, k)
  PROVE  DbOk(Pancy!Erase(db, k))
<1> DEFINE new == Pancy!Erase(db, k)
           n == Len(db.removes)
<1>1. /\ new \in Pancy!Database /\ new.next = db.next + 1
      /\ new.map = [db.map EXCEPT ![k] = Pancy!NonexistentVV]
      /\ Len(new.removes) = IF n = MaxRemoves THEN n ELSE n + 1
      /\ new.removes[1] = [key |-> k, vv |-> db.map[k], version |-> db.next]
      /\ \A i \in 2 .. Len(new.removes) : i - 1 \in 1 .. n /\ new.removes[i] = db.removes[i - 1]
  BY EraseIs
<1>2. /\ db.next \in Nat \ {0} /\ db.map \in [Key -> Pancy!VV] /\ DbMap(db) /\ DbRemoves(db)
      /\ n \in Nat /\ MaxRemoves \in Nat \ {0}
      /\ \A j \in Key : db.map[j].version \in Nat
      /\ \A i \in 1 .. n : db.removes[i].version \in Nat /\ db.removes[i].vv.version \in Nat
      /\ db.map[k].version # 0
  BY DbParts, PancyAssumption DEF DbOk, Pancy!Present
<1> HIDE DEF new
<1>3. \A j \in Key : new.map[j].version = IF j = k THEN 0 ELSE db.map[j].version
  BY <1>1, <1>2 DEF Pancy!NonexistentVV
<1>4. DbMap(new)
  BY <1>1, <1>2, <1>3 DEF DbMap
<1>5. new.removes[1].version = db.next /\ new.removes[1].vv.version \in 1 .. db.next - 1
  BY <1>1, <1>2 DEF DbMap
<1>6. Len(new.removes) <= MaxRemoves
  BY <1>1, <1>2 DEF DbRemoves
<1>7. \A i \in 1 .. Len(new.removes) :
        new.removes[i].version < new.next /\ new.removes[i].vv.version \in 1 .. new.removes[i].version - 1
  <2> SUFFICES ASSUME NEW i \in 1 .. Len(new.removes)
               PROVE  /\ new.removes[i].version < new.next
                      /\ new.removes[i].vv.version \in 1 .. new.removes[i].version - 1
    OBVIOUS
  <2>1. CASE i = 1
    BY <1>1, <1>2, <1>5, <2>1
  <2>2. CASE i # 1
    <3>1. i - 1 \in 1 .. n /\ new.removes[i] = db.removes[i - 1]
      BY <1>1, <1>2, <2>2
    <3> QED
      BY <1>1, <1>2, <3>1 DEF DbRemoves
  <2> QED
    BY <2>1, <2>2
<1>8. \A i, j \in 1 .. Len(new.removes) : i < j => new.removes[j].version < new.removes[i].version
  <2> SUFFICES ASSUME NEW i \in 1 .. Len(new.removes), NEW j \in 1 .. Len(new.removes), i < j
               PROVE  new.removes[j].version < new.removes[i].version
    OBVIOUS
  <2>1. j - 1 \in 1 .. n /\ new.removes[j] = db.removes[j - 1]
    BY <1>1, <1>2
  <2>2. CASE i = 1
    BY <1>2, <1>5, <2>1, <2>2 DEF DbRemoves
  <2>3. CASE i # 1
    <3>1. i - 1 \in 1 .. n /\ new.removes[i] = db.removes[i - 1]
      <4>1. i \in 2 .. Len(new.removes)
        BY <2>3
      <4> QED
        BY <1>1, <4>1
    <3> QED
      BY <1>2, <2>1, <3>1 DEF DbRemoves
  <2> QED
    BY <2>2, <2>3
<1> QED
  BY <1>1, <1>4, <1>6, <1>7, <1>8 DEF DbOk, DbRemoves, new

\* A request leaves a database that is one.
LEMMA AfterOk ==
  ASSUME NEW db, DbOk(db), NEW r \in Pancy!Request
  PROVE  DbOk(Pancy!After(db, r))
BY AfterIs, StoreOk, EraseOk

-----------------------------------------------------------------------------
(***************************************************************************)
(* What a database a that has gone on from b says of a key: it is as it    *)
(* was in b, or was put since, or was removed since.  The remove is the    *)
(* latest of the key that a remembers, or a has forgotten all of the key.  *)
(***************************************************************************)
RemovedAt(b, a, k, i) ==
  /\ a.removes[i].key = k /\ a.removes[i].version >= b.next
  /\ a.removes[i].vv = b.map[k] \/ a.removes[i].vv.version >= b.next
  /\ \A j \in 1 .. i - 1 : a.removes[j].key # k
Forgotten(b, a, k) ==
  /\ Len(a.removes) = MaxRemoves /\ a.removes[MaxRemoves].version > b.next
  /\ \A i \in 1 .. MaxRemoves : a.removes[i].key # k
Since(b, a, k) ==
  \/ a.map[k] = b.map[k]
  \/ a.map[k].version >= b.next
  \/ /\ a.map[k].version = 0
     /\ Forgotten(b, a, k) \/ \E i \in 1 .. Len(a.removes) : RemovedAt(b, a, k, i)
Follows(b, a) == b.next <= a.next /\ \A k \in Key : Since(b, a, k)

\* A put keeps that a follows b.
LEMMA StoreFollows ==
  ASSUME NEW a, DbOk(a), NEW b, DbOk(b), Follows(b, a), NEW k \in Key, NEW v \in Value
  PROVE  Follows(b, Pancy!Store(a, k, v))
<1> DEFINE new == Pancy!Store(a, k, v)
<1>1. /\ new.next = a.next + 1 /\ new.removes = a.removes
      /\ new.map = [a.map EXCEPT ![k] = [value |-> v, version |-> a.next]]
  BY StoreIs
<1>2. a.next \in Nat /\ b.next \in Nat /\ a.map \in [Key -> Pancy!VV]
  BY DbParts DEF DbOk
<1> HIDE DEF new
<1>3. \A j \in Key : Since(b, new, j)
  <2> SUFFICES ASSUME NEW j \in Key PROVE Since(b, new, j)
    OBVIOUS
  <2>1. CASE j = k
    BY <1>1, <1>2, <2>1 DEF Since, Follows
  <2>2. CASE j # k
    <3>1. new.map[j] = a.map[j] /\ Since(b, a, j)
      BY <1>1, <1>2, <2>2 DEF Follows
    <3> QED
      BY <1>1, <3>1 DEF Since, Forgotten, RemovedAt
  <2> QED
    BY <2>1, <2>2
<1> QED
  BY <1>1, <1>2, <1>3 DEF Follows, new

\* So does a remove: it is the latest of its key, and what it makes a forget of another key
\* is the oldest.
LEMMA EraseFollows ==
  ASSUME NEW a, DbOk(a), NEW b, DbOk(b), Follows(b, a), NEW k \in Key, Pancy!Present(a, k)
  PROVE  Follows(b, Pancy!Erase(a, k))
<1> DEFINE new == Pancy!Erase(a, k)
           n == Len(a.removes)
<1>0. b.next \in Nat
  BY DbParts DEF DbOk
<1>1. /\ new.next = a.next + 1
      /\ new.map = [a.map EXCEPT ![k] = Pancy!NonexistentVV]
      /\ Len(new.removes) = IF n = MaxRemoves THEN n ELSE n + 1
      /\ new.removes[1] = [key |-> k, vv |-> a.map[k], version |-> a.next]
      /\ 1 \in 1 .. Len(new.removes)
      /\ \A i \in 2 .. Len(new.removes) : i - 1 \in 1 .. n /\ new.removes[i] = a.removes[i - 1]
  BY EraseIs
<1>2. /\ a.next \in Nat /\ b.next \in Nat /\ a.map \in [Key -> Pancy!VV]
      /\ b.map \in [Key -> Pancy!VV] /\ n \in Nat /\ MaxRemoves \in Nat \ {0} /\ n <= MaxRemoves
      /\ \A j \in Key : a.map[j].version \in Nat /\ b.map[j].version \in Nat
      /\ \A i \in 1 .. n : a.removes[i].version \in Nat /\ a.removes[i].version < a.next
      /\ \A i, j \in 1 .. n : i < j => a.removes[j].version < a.removes[i].version
      /\ a.map[k].version # 0 /\ b.next <= a.next
  BY DbParts, PancyAssumption DEF DbOk, DbRemoves, Pancy!Present, Follows
<1> HIDE DEF new
<1>3. ASSUME NEW j \in Key, j = k PROVE Since(b, new, j)
  <2>1. a.map[k] = b.map[k] \/ a.map[k].version >= b.next
    BY <1>2 DEF Follows, Since
  <2>2. RemovedAt(b, new, k, 1)
    BY <1>1, <1>2, <2>1 DEF RemovedAt
  <2>3. new.map[k].version = 0
    BY <1>1, <1>2 DEF Pancy!NonexistentVV
  <2> QED
    BY <1>1, <1>3, <2>2, <2>3 DEF Since
<1>4. ASSUME NEW j \in Key, j # k PROVE Since(b, new, j)
  <2>1. new.map[j] = a.map[j] /\ Since(b, a, j)
    BY <1>1, <1>2, <1>4 DEF Follows
  <2>2. CASE a.map[j] = b.map[j] \/ a.map[j].version >= b.next
    BY <2>1, <2>2 DEF Since
  <2>3. CASE a.map[j].version = 0 /\ Forgotten(b, a, j)
    <3>1. n = MaxRemoves /\ Len(new.removes) = MaxRemoves
      BY <1>1, <2>3 DEF Forgotten
    <3>2. ASSUME NEW i \in 1 .. MaxRemoves PROVE new.removes[i].key # j
      <4>1. CASE i = 1
        BY <1>1, <1>4, <4>1
      <4>2. CASE i # 1
        <5>1. i - 1 \in 1 .. MaxRemoves /\ new.removes[i] = a.removes[i - 1]
          BY <1>1, <1>2, <3>1, <4>2
        <5> QED
          BY <2>3, <5>1 DEF Forgotten
      <4> QED
        BY <4>1, <4>2
    <3>3. new.removes[MaxRemoves].version > b.next
      <4>1. a.removes[MaxRemoves].version > b.next /\ MaxRemoves \in 1 .. n
        BY <1>2, <2>3, <3>1 DEF Forgotten
      <4>2. CASE MaxRemoves = 1
        BY <1>1, <1>2, <4>1, <4>2
      <4>3. CASE MaxRemoves # 1
        <5>1. MaxRemoves - 1 \in 1 .. n /\ new.removes[MaxRemoves] = a.removes[MaxRemoves - 1]
          BY <1>1, <1>2, <3>1, <4>3
        <5>2. a.removes[MaxRemoves].version < a.removes[MaxRemoves - 1].version
          BY <1>2, <4>1, <5>1
        <5>3. a.removes[MaxRemoves].version \in Nat /\ a.removes[MaxRemoves - 1].version \in Nat
          BY <1>2, <4>1, <5>1
        <5> QED
          BY <1>0, <4>1, <5>1, <5>2, <5>3
      <4> QED
        BY <4>2, <4>3
    <3>4. Forgotten(b, new, j)
      BY <3>1, <3>2, <3>3 DEF Forgotten
    <3> QED
      BY <2>1, <2>3, <3>4 DEF Since
  <2>4. ASSUME a.map[j].version = 0, NEW i \in 1 .. n, RemovedAt(b, a, j, i) PROVE Since(b, new, j)
    <3>1. CASE i + 1 \in 1 .. Len(new.removes)
      <4>1. new.removes[i + 1] = a.removes[i]
        <5>1. i + 1 \in 2 .. Len(new.removes) /\ (i + 1) - 1 = i
          BY <1>2, <3>1
        <5> QED
          BY <1>1, <5>1
      <4>2. ASSUME NEW l \in 1 .. i PROVE new.removes[l].key # j
        <5>1. CASE l = 1
          BY <1>1, <1>4, <5>1
        <5>2. CASE l # 1
          <6>1. l - 1 \in 1 .. i - 1 /\ l \in 2 .. Len(new.removes)
            BY <1>1, <1>2, <3>1, <5>2
          <6>2. new.removes[l] = a.removes[l - 1]
            BY <1>1, <6>1
          <6> QED
            BY <2>4, <6>1, <6>2 DEF RemovedAt
        <5> QED
          BY <5>1, <5>2
      <4>3. 1 .. (i + 1) - 1 = 1 .. i
        BY <1>2
      <4>4. RemovedAt(b, new, j, i + 1)
        BY <2>4, <4>1, <4>2, <4>3 DEF RemovedAt
      <4> QED
        BY <2>1, <2>4, <3>1, <4>4 DEF Since
    <3>2. CASE i + 1 \notin 1 .. Len(new.removes)
      <4>1. i = n /\ n = MaxRemoves /\ Len(new.removes) = MaxRemoves
        BY <1>1, <1>2, <3>2
      <4>2. ASSUME NEW l \in 1 .. MaxRemoves PROVE new.removes[l].key # j
        <5>1. CASE l = 1
          BY <1>1, <1>4, <5>1
        <5>2. CASE l # 1
          <6>1. l - 1 \in 1 .. i - 1 /\ new.removes[l] = a.removes[l - 1]
            BY <1>1, <1>2, <4>1, <5>2
          <6> QED
            BY <2>4, <6>1 DEF RemovedAt
        <5> QED
          BY <5>1, <5>2
      <4>3. new.removes[MaxRemoves].version > b.next
        <5>1. a.removes[n].version >= b.next /\ n \in 1 .. n
          BY <1>2, <2>4, <4>1 DEF RemovedAt
        <5>2. CASE MaxRemoves = 1
          <6>1. new.removes[MaxRemoves].version = a.next
            BY <1>1, <5>2
          <6> QED
            BY <1>2, <5>1, <6>1
        <5>3. CASE MaxRemoves # 1
          <6>1. n - 1 \in 1 .. n /\ new.removes[MaxRemoves] = a.removes[n - 1]
            BY <1>1, <1>2, <4>1, <5>3
          <6>2. a.removes[n].version < a.removes[n - 1].version
            <7>1. n - 1 < n
              BY <1>2
            <7> QED
              BY <1>2, <5>1, <6>1, <7>1
          <6>3. a.removes[n].version \in Nat /\ a.removes[n - 1].version \in Nat
            BY <1>2, <5>1, <6>1
          <6> QED
            BY <1>0, <5>1, <6>1, <6>2, <6>3
        <5> QED
          BY <5>2, <5>3
      <4>4. Forgotten(b, new, j)
        BY <4>1, <4>2, <4>3 DEF Forgotten
      <4> QED
        BY <2>1, <2>4, <4>4 DEF Since
    <3> QED
      BY <3>1, <3>2
  <2> QED
    BY <2>1, <2>2, <2>3, <2>4 DEF Since
<1> QED
  BY <1>1, <1>2, <1>3, <1>4 DEF Follows, new

\* So does any request.
LEMMA AfterFollows ==
  ASSUME NEW a, DbOk(a), NEW b, DbOk(b), Follows(b, a), NEW r \in Pancy!Request
  PROVE  Follows(b, Pancy!After(a, r))
BY AfterIs, StoreFollows, EraseFollows

\* What is accepted gets a version.
LEMMA AfterNext ==
  ASSUME NEW db, DbOk(db), NEW r \in Pancy!Request
  PROVE  /\ Pancy!Accepted(db, r) => Pancy!After(db, r).next = db.next + 1
         /\ ~Pancy!Accepted(db, r) => Pancy!After(db, r) = db
<1>1. CASE ~Pancy!Accepted(db, r)
  BY <1>1, AfterIs
<1>2. CASE Pancy!Accepted(db, r)
  <2>1. \/ Pancy!Present(db, r.key) /\ Pancy!After(db, r) = Pancy!Erase(db, r.key)
        \/ r.value \in Value /\ Pancy!After(db, r) = Pancy!Store(db, r.key, r.value)
    BY <1>2, AfterIs
  <2>2. r.key \in Key
    BY AfterIs
  <2>3. Pancy!Present(db, r.key) => Pancy!Erase(db, r.key).next = db.next + 1
    BY <2>2, EraseIs
  <2>4. r.value \in Value => Pancy!Store(db, r.key, r.value).next = db.next + 1
    BY <2>2, StoreIs
  <2> QED
    BY <1>2, <2>1, <2>3, <2>4
<1> QED
  BY <1>1, <1>2

-----------------------------------------------------------------------------
\* A remove of k that diff looks for.
Hit(db, k, min, i) == db.removes[i].key = k /\ db.removes[i].version >= min

\* find_recent_remove finds the first one, if there is one.
LEMMA RecentIs ==
  ASSUME NEW db, DbOk(db), NEW k, NEW min
  PROVE  \/ /\ \A i \in 1 .. Len(db.removes) : ~Hit(db, k, min, i)
            /\ Pancy!RecentRemove(db, k, min) = Pancy!NonexistentVV
         \/ \E i \in 1 .. Len(db.removes) :
              /\ Hit(db, k, min, i) /\ \A j \in 1 .. i - 1 : ~Hit(db, k, min, j)
              /\ Pancy!RecentRemove(db, k, min) = db.removes[i].vv
<1> DEFINE n == Len(db.removes)
           hits == {i \in 1 .. n : db.removes[i].key = k /\ db.removes[i].version >= min}
<1>1. n \in Nat
  BY DbParts DEF DbOk
<1>2. Pancy!RecentRemove(db, k, min) =
        IF hits = {} THEN Pancy!NonexistentVV ELSE db.removes[Pancy!Min(hits)].vv
  BY DEF Pancy!RecentRemove
<1>3. \A i \in 1 .. n : i \in hits <=> Hit(db, k, min, i)
  BY DEF Hit
<1>4. hits \in SUBSET (1 .. n)
  OBVIOUS
<1> HIDE DEF n, hits
<1>5. CASE hits = {}
  BY <1>2, <1>3, <1>5 DEF n
<1>6. CASE hits # {}
  <2> DEFINE i == Pancy!Min(hits)
  <2>1. i \in hits /\ \A j \in hits : i <= j
    BY <1>1, <1>4, <1>6, MinOf
  <2> HIDE DEF i
  <2>2. i \in 1 .. n
    BY <1>4, <2>1
  <2>3. \A j \in 1 .. i - 1 : ~Hit(db, k, min, j)
    <3> SUFFICES ASSUME NEW j \in 1 .. i - 1 PROVE j \notin hits /\ j \in 1 .. n
      BY <1>3
    <3> QED
      BY <1>1, <2>1, <2>2
  <2>4. Pancy!RecentRemove(db, k, min) = db.removes[i].vv
    BY <1>2, <1>6 DEF i
  <2> QED
    BY <1>3, <2>1, <2>2, <2>3, <2>4 DEF n
<1> QED
  BY <1>5, <1>6

\* Without skew it finds none.
LEMMA NoneRecent ==
  ASSUME NEW db, DbOk(db), NEW k, NEW min \in Int, db.next <= min
  PROVE  Pancy!RecentRemove(db, k, min) = Pancy!NonexistentVV
<1>1. \A i \in 1 .. Len(db.removes) : db.removes[i].version < db.next /\ db.removes[i].version \in Nat
  BY DbParts DEF DbOk, DbRemoves
<1>2. db.next \in Nat
  BY DbParts DEF DbOk
<1>3. \A i \in 1 .. Len(db.removes) : ~Hit(db, k, min, i)
  BY <1>1, <1>2 DEF Hit
<1> QED
  BY <1>3, RecentIs

\* A key at which diff reports an error, in terms of what it looks at.
Bad(avv, bvv, min, complete) ==
  /\ ~(avv.version > 0 /\ bvv.version = 0 /\ avv.version >= min)
  /\ ~(avv.version = 0 /\ ~complete)
  /\ \/ avv.version = 0 \/ bvv.version = 0
     \/ avv.version < bvv.version
     \/ avv.version > bvv.version /\ avv.version < min
     \/ avv.version = bvv.version /\ avv.value # bvv.value
Seen(db, k, min) == IF Pancy!Present(db, k) THEN db.map[k] ELSE Pancy!RecentRemove(db, k, min)

LEMMA DifferIs ==
  ASSUME NEW a, NEW b, NEW k, NEW skew
  PROVE  Pancy!Differ(a, b, k, skew) <=>
           LET min == a.next - skew IN
           /\ Pancy!Present(a, k) \/ Pancy!Present(b, k)
           /\ Bad(Seen(a, k, min), Seen(b, k, min), min, Pancy!RemovesComplete(a, min))
BY DEF Pancy!Differ, Pancy!MinVersion, Bad, Seen

\* diff accepts what follows within the skew.
LEMMA NoDiffer ==
  ASSUME NEW a, DbOk(a), NEW b, DbOk(b), Follows(b, a), NEW skew \in Int, a.next - skew <= b.next,
         NEW k \in Key
  PROVE  ~Pancy!Differ(a, b, k, skew)
<1> DEFINE min == a.next - skew
           avv == Seen(a, k, min)
           bvv == Seen(b, k, min)
           complete == Pancy!RemovesComplete(a, min)
<1>1. /\ a.next \in Nat /\ b.next \in Nat \ {0} /\ MaxRemoves \in Nat \ {0} /\ min \in Int /\ min <= b.next
      /\ a.map[k].version \in Nat /\ b.map[k].version \in Nat
      /\ a.map[k].version < a.next /\ b.map[k].version < b.next
  BY DbParts, PancyAssumption DEF DbOk, DbMap
<1>2. /\ \A i \in 1 .. Len(a.removes) :
           /\ a.removes[i].vv.version \in 1 .. a.removes[i].version - 1
           /\ a.removes[i].version \in Nat /\ a.removes[i].vv.version \in Nat
      /\ \A i \in 1 .. Len(b.removes) :
           /\ b.removes[i].vv.version \in 1 .. b.removes[i].version - 1
           /\ b.removes[i].version \in Nat /\ b.removes[i].version < b.next
      /\ Len(a.removes) \in Nat
  BY DbParts DEF DbOk, DbRemoves
<1>3. Pancy!NonexistentVV.version = 0
  BY DEF Pancy!NonexistentVV
<1> SUFFICES ASSUME Pancy!Present(a, k) \/ Pancy!Present(b, k), Bad(avv, bvv, min, complete)
             PROVE  FALSE
  BY DifferIs
<1> HIDE DEF min, avv, bvv, complete
<1>4. bvv.version \in Nat /\ bvv.version < b.next
  <2>1. CASE Pancy!Present(b, k)
    BY <1>1, <2>1 DEF bvv, Seen
  <2>2. CASE ~Pancy!Present(b, k)
    <3>1. bvv = Pancy!RecentRemove(b, k, min)
      BY <2>2 DEF bvv, Seen
    <3>2. CASE bvv = Pancy!NonexistentVV
      BY <1>1, <1>3, <3>2
    <3>3. ASSUME NEW i \in 1 .. Len(b.removes), bvv = b.removes[i].vv PROVE bvv.version \in Nat /\ bvv.version < b.next
      <4>1. /\ b.removes[i].vv.version \in 1 .. b.removes[i].version - 1
            /\ b.removes[i].version \in Nat /\ b.removes[i].version < b.next
        BY <1>2
      <4> QED
        BY <1>1, <3>3, <4>1
    <3> QED
      BY <3>1, <3>2, <3>3, RecentIs
  <2> QED
    BY <2>1, <2>2
<1>5. CASE a.map[k].version >= b.next
  <2>1. avv = a.map[k] /\ avv.version >= b.next
    BY <1>1, <1>5 DEF avv, Seen, Pancy!Present
  <2> QED
    BY <1>1, <1>4, <2>1 DEF Bad
<1>6. CASE a.map[k] = b.map[k]
  <2>1. avv = a.map[k] /\ bvv = a.map[k] /\ a.map[k].version # 0
    BY <1>6 DEF avv, bvv, Seen, Pancy!Present
  <2> QED
    BY <1>1, <2>1 DEF Bad
<1>7. CASE a.map[k].version = 0 /\ Forgotten(b, a, k)
  <2>1. \A i \in 1 .. Len(a.removes) : ~Hit(a, k, min, i)
    BY <1>7 DEF Forgotten, Hit
  <2>2. avv = Pancy!NonexistentVV
    BY <1>7, <2>1, RecentIs DEF avv, Seen, Pancy!Present
  <2>3. ~complete
    <3>1. Len(a.removes) = MaxRemoves /\ a.removes[MaxRemoves].version > b.next
          /\ a.removes[MaxRemoves].version \in Nat
      BY <1>1, <1>2, <1>7 DEF Forgotten
    <3> QED
      BY <1>1, <3>1 DEF complete, Pancy!RemovesComplete, Pancy!Last
  <2> QED
    BY <1>3, <2>2, <2>3 DEF Bad
<1>8. ASSUME a.map[k].version = 0, NEW i \in 1 .. Len(a.removes), RemovedAt(b, a, k, i) PROVE FALSE
  <2>1. Hit(a, k, min, i)
    BY <1>1, <1>2, <1>8 DEF Hit, RemovedAt
  <2>2. PICK h \in 1 .. Len(a.removes) :
          /\ Hit(a, k, min, h) /\ \A j \in 1 .. h - 1 : ~Hit(a, k, min, j)
          /\ Pancy!RecentRemove(a, k, min) = a.removes[h].vv
    BY <2>1, RecentIs
  <2>3. h = i
    <3>1. ~(h < i)
      BY <1>8, <2>2 DEF RemovedAt, Hit
    <3>2. ~(i < h)
      BY <2>1, <2>2
    <3> QED
      BY <3>1, <3>2
  <2>4. avv = a.removes[i].vv
    BY <1>8, <2>2, <2>3 DEF avv, Seen, Pancy!Present
  <2>5. avv.version \in Nat /\ avv.version > 0 /\ (avv = b.map[k] \/ avv.version >= b.next)
    BY <1>2, <1>8, <2>4 DEF RemovedAt
  <2>6. bvv = b.map[k]
    BY <1>8 DEF bvv, Seen, Pancy!Present
  <2>7. CASE avv = b.map[k]
    BY <2>5, <2>6, <2>7 DEF Bad
  <2>8. CASE avv.version >= b.next
    BY <1>1, <1>4, <2>5, <2>8 DEF Bad
  <2> QED
    BY <2>5, <2>7, <2>8
<1> QED
  BY <1>5, <1>6, <1>7, <1>8 DEF Follows, Since

\* In either direction.
LEMMA NoAlarm ==
  ASSUME NEW a, DbOk(a), NEW b, DbOk(b), Follows(b, a), a.next = b.next => a = b,
         NEW skew \in Int, a.next - skew <= b.next
  PROVE  Pancy!Diff(a, b, skew) = {} /\ Pancy!Diff(b, a, skew) = {}
<1>1. a.next \in Nat /\ b.next \in Nat /\ b.next <= a.next
  BY DbParts DEF DbOk, Follows
<1>2. \A k \in Key : ~Pancy!Differ(a, b, k, skew)
  BY NoDiffer
<1>3. CASE a = b
  BY <1>1, <1>2, <1>3 DEF Pancy!Diff
<1>4. CASE b.next < a.next
  BY <1>1, <1>2, <1>4 DEF Pancy!Diff
<1> QED
  BY <1>1, <1>3, <1>4

\* Without skew diff tells all that differs.
LEMMA ZeroDiffer ==
  ASSUME NEW a, DbOk(a), NEW b, DbOk(b), b.next <= a.next, NEW k \in Key
  PROVE  Pancy!Differ(a, b, k, 0) <=> a.map[k] # b.map[k]
<1> DEFINE min == a.next - 0
           complete == Pancy!RemovesComplete(a, min)
           p == a.map[k]
           q == b.map[k]
<1>1. /\ a.next \in Nat /\ b.next \in Nat /\ MaxRemoves \in Nat \ {0} /\ min = a.next
      /\ p.version \in Nat /\ q.version \in Nat /\ p.version < a.next /\ q.version < b.next
      /\ p \in Pancy!VV /\ q \in Pancy!VV
      /\ (p.version = 0 <=> p = Pancy!NonexistentVV) /\ (q.version = 0 <=> q = Pancy!NonexistentVV)
      /\ Len(a.removes) \in Nat /\ Len(a.removes) <= MaxRemoves
      /\ \A i \in 1 .. Len(a.removes) : a.removes[i].version \in Nat /\ a.removes[i].version < a.next
  BY DbParts, PancyAssumption DEF DbOk, DbMap, DbRemoves
<1>2. Seen(a, k, min) = p
  BY <1>1, NoneRecent DEF Seen, Pancy!Present
<1>3. Seen(b, k, min) = q
  BY <1>1, NoneRecent DEF Seen, Pancy!Present
<1>4. complete
  <2>1. Len(a.removes) = MaxRemoves => a.removes[Len(a.removes)].version <= a.next
    BY <1>1
  <2> QED
    BY <1>1, <2>1 DEF Pancy!RemovesComplete, Pancy!Last
<1>5. Pancy!Differ(a, b, k, 0) <=>
        /\ Pancy!Present(a, k) \/ Pancy!Present(b, k)
        /\ Bad(p, q, min, complete)
  BY <1>2, <1>3, DifferIs
<1>6. p = q <=> p.version = q.version /\ p.value = q.value
  BY <1>1 DEF Pancy!VV, Pancy!NonexistentVV
<1> HIDE DEF min, complete
<1>7. Bad(p, q, min, complete) <=>
        p.version = 0 \/ q.version = 0 \/ p.version # q.version \/ p.value # q.value
  BY <1>1, <1>4 DEF Bad
<1> QED
  BY <1>1, <1>5, <1>6, <1>7 DEF Pancy!Present

LEMMA ZeroExact ==
  ASSUME NEW a, DbOk(a), NEW b, DbOk(b)
  PROVE  Pancy!Diff(a, b, 0) = {} <=> a.map = b.map
<1>1. a.next \in Nat /\ b.next \in Nat /\ a.map \in [Key -> Pancy!VV] /\ b.map \in [Key -> Pancy!VV]
  BY DbParts DEF DbOk
<1>2. a.map = b.map <=> \A k \in Key : a.map[k] = b.map[k]
  BY <1>1
<1>3. CASE a.next < b.next
  <2>1. Pancy!Diff(a, b, 0) = {k \in Key : Pancy!Differ(b, a, k, 0)}
    BY <1>3 DEF Pancy!Diff
  <2>2. \A k \in Key : Pancy!Differ(b, a, k, 0) <=> a.map[k] # b.map[k]
    BY <1>1, <1>3, ZeroDiffer
  <2> QED
    BY <1>2, <2>1, <2>2
<1>4. CASE ~(a.next < b.next)
  <2>1. Pancy!Diff(a, b, 0) = {k \in Key : Pancy!Differ(a, b, k, 0)}
    BY <1>4 DEF Pancy!Diff
  <2>2. \A k \in Key : Pancy!Differ(a, b, k, 0) <=> a.map[k] # b.map[k]
    BY <1>1, <1>4, ZeroDiffer
  <2> QED
    BY <1>2, <2>1, <2>2
<1> QED
  BY <1>3, <1>4

-----------------------------------------------------------------------------
\* The databases through which the leader went from where the follower is.
History(h) ==
  LET n == Len(pending) IN
  /\ h[0] = follower /\ h[n] = lead
  /\ \A i \in 0 .. n : DbOk(h[i]) /\ Follows(h[i], lead) /\ h[i].next = follower.next + i
  /\ \A i \in 0 .. n - 1 : Pancy!After(h[i], pending[i + 1]) = h[i + 1]

DiffInv ==
  /\ DbOk(lead) /\ DbOk(follower)
  /\ pending \in Seq(Pancy!Request) /\ skipped \in BOOLEAN
  /\ ~skipped => \E h : History(h)

\* Nothing happened yet.
LEMMA DiffInit ==
  ASSUME Pancy!Init
  PROVE  DiffInv
<1>1. lead = Pancy!NewDB /\ follower = Pancy!NewDB /\ pending = <<>> /\ skipped = FALSE
  BY DEF Pancy!Init
<1>2. DbOk(Pancy!NewDB)
  <2>1. [k \in Key |-> Pancy!NonexistentVV] \in [Key -> Pancy!VV]
    BY DEF Pancy!VV
  <2> QED
    BY <2>1, PancyAssumption
    DEF DbOk, DbMap, DbRemoves, Pancy!NewDB, Pancy!Database, Pancy!NonexistentVV
<1>3. Follows(Pancy!NewDB, Pancy!NewDB) /\ Pancy!NewDB.next = 1
  BY DEF Follows, Since, Pancy!NewDB
<1>4. History([i \in {0} |-> lead])
  BY <1>1, <1>2, <1>3 DEF History
<1> QED
  BY <1>1, <1>2, <1>4 DEF DiffInv

\* A database follows itself.
LEMMA FollowsItself ==
  ASSUME NEW db, DbOk(db)
  PROVE  Follows(db, db)
BY DbParts DEF DbOk, Follows, Since

\* The leader goes on: so does its history.
LEMMA LeadStep ==
  ASSUME DiffInv, NEW r \in Requests, Pancy!Lead(r)
  PROVE  DiffInv'
<1>1. r \in Pancy!Request /\ lead' = Pancy!After(lead, r) /\ follower' = follower /\ skipped' = skipped
  BY PancyAssumption DEF Pancy!Lead
<1>2. DbOk(lead')
  BY <1>1, AfterOk DEF DiffInv
<1>3. CASE ~Pancy!Accepted(lead, r)
  <2>1. lead' = lead /\ pending' = pending
    BY <1>1, <1>3, AfterNext DEF Pancy!Lead, DiffInv
  <2> QED
    BY <1>1, <2>1 DEF DiffInv, History
<1>4. CASE Pancy!Accepted(lead, r)
  <2>1. pending' = Append(pending, r) /\ lead'.next = lead.next + 1
    BY <1>1, <1>4, AfterNext DEF Pancy!Lead, DiffInv
  <2> DEFINE n == Len(pending)
  <2>2. /\ pending' \in Seq(Pancy!Request) /\ n \in Nat /\ Len(pending') = n + 1
        /\ pending'[n + 1] = r /\ \A i \in 1 .. n : pending'[i] = pending[i]
    BY <1>1, <2>1 DEF DiffInv
  <2>3. ASSUME NEW h, History(h) PROVE \E g : History(g)'
    <3>0. PICK g : g = [i \in 0 .. n + 1 |-> IF i = n + 1 THEN lead' ELSE h[i]]
      OBVIOUS
    <3>1. g[n + 1] = lead' /\ \A i \in 0 .. n : g[i] = h[i]
      BY <2>2, <3>0
    <3>2. follower.next \in Nat /\ lead.next = follower.next + n /\ h[n] = lead /\ h[0] = follower
      <4>1. n \in 0 .. n
        BY <2>2
      <4>2. h[n].next = follower.next + n /\ h[n] = lead /\ h[0] = follower
        BY <2>3, <4>1 DEF History
      <4>3. follower.next \in Nat
        BY DbParts DEF DiffInv, DbOk
      <4> QED
        BY <4>2, <4>3
    <3>3. ASSUME NEW i \in 0 .. n + 1
          PROVE  DbOk(g[i]) /\ Follows(g[i], lead') /\ g[i].next = follower.next + i
      <4>1. CASE i = n + 1
        BY <1>2, <2>1, <2>2, <3>1, <3>2, <4>1, FollowsItself
      <4>2. CASE i # n + 1
        <5>1. i \in 0 .. n /\ g[i] = h[i]
          BY <2>2, <3>1, <4>2
        <5>2. DbOk(h[i]) /\ Follows(h[i], lead) /\ h[i].next = follower.next + i
          BY <2>3, <5>1 DEF History
        <5> QED
          BY <1>1, <5>1, <5>2, AfterFollows DEF DiffInv
      <4> QED
        BY <4>1, <4>2
    <3>4. ASSUME NEW i \in 0 .. n PROVE Pancy!After(g[i], pending'[i + 1]) = g[i + 1]
      <4>1. CASE i = n
        BY <1>1, <2>2, <3>1, <3>2, <4>1
      <4>2. CASE i # n
        <5>1. i \in 0 .. n - 1 /\ i + 1 \in 0 .. n /\ i + 1 \in 1 .. n
          BY <2>2, <4>2
        <5> QED
          BY <2>2, <2>3, <3>1, <5>1 DEF History
      <4> QED
        BY <4>1, <4>2
    <3>5. (n + 1) - 1 = n /\ 0 \in 0 .. n
      BY <2>2
    <3>6. History(g)'
      BY <1>1, <2>2, <3>1, <3>2, <3>3, <3>4, <3>5 DEF History
    <3> QED
      BY <3>6
  <2> QED
    BY <1>1, <1>2, <2>2, <2>3 DEF DiffInv
<1> QED
  BY <1>3, <1>4

\* The follower takes the next step of it.
LEMMA FollowStep ==
  ASSUME DiffInv, Pancy!Follow
  PROVE  DiffInv'
<1> DEFINE n == Len(pending)
<1>1. /\ pending # <<>> /\ follower' = Pancy!After(follower, Head(pending))
      /\ pending' = Tail(pending) /\ lead' = lead /\ skipped' = skipped
  BY DEF Pancy!Follow
<1>2. /\ n \in Nat \ {0} /\ pending' \in Seq(Pancy!Request) /\ Len(pending') = n - 1
      /\ Head(pending) = pending[1] /\ pending[1] \in Pancy!Request
      /\ \A i \in 1 .. n - 1 : pending'[i] = pending[i + 1]
  BY <1>1 DEF DiffInv
<1>3. DbOk(follower') /\ DbOk(lead')
  BY <1>1, <1>2, AfterOk DEF DiffInv
<1>4. ASSUME NEW h, History(h) PROVE \E g : History(g)'
  <2>0. PICK g : g = [i \in 0 .. n - 1 |-> h[i + 1]]
    OBVIOUS
  <2>1. \A i \in 0 .. n - 1 : g[i] = h[i + 1]
    BY <2>0
  <2>2. /\ h[0] = follower /\ h[n] = lead /\ Pancy!After(h[0], pending[0 + 1]) = h[0 + 1]
        /\ \A i \in 0 .. n : DbOk(h[i]) /\ Follows(h[i], lead) /\ h[i].next = follower.next + i
        /\ \A i \in 0 .. n - 1 : Pancy!After(h[i], pending[i + 1]) = h[i + 1]
    <3>1. 0 \in 0 .. n - 1
      BY <1>2
    <3> QED
      BY <1>4, <3>1 DEF History
  <2>3. g[0] = follower' /\ g[n - 1] = lead'
    <3>1. 0 \in 0 .. n - 1 /\ n - 1 \in 0 .. n - 1 /\ (n - 1) + 1 = n
      BY <1>2
    <3> QED
      BY <1>1, <1>2, <2>1, <2>2, <3>1
  <2>4. follower'.next = follower.next + 1 /\ follower.next \in Nat
    <3>1. 1 \in 0 .. n
      BY <1>2
    <3> QED
      BY <1>1, <1>2, <2>2, <3>1, DbParts DEF DiffInv, DbOk
  <2>5. ASSUME NEW i \in 0 .. n - 1
        PROVE  DbOk(g[i]) /\ Follows(g[i], lead') /\ g[i].next = follower'.next + i
    <3>1. i + 1 \in 0 .. n
      BY <1>2
    <3> QED
      <4>1. DbOk(h[i + 1]) /\ Follows(h[i + 1], lead) /\ h[i + 1].next = follower.next + (i + 1)
        BY <2>2, <3>1
      <4>2. follower.next + (i + 1) = (follower.next + 1) + i
        BY <2>4
      <4> QED
        BY <1>1, <2>1, <2>4, <4>1, <4>2
  <2>6. ASSUME NEW i \in 0 .. (n - 1) - 1 PROVE Pancy!After(g[i], pending'[i + 1]) = g[i + 1]
    <3>1. i + 1 \in 1 .. n - 1 /\ i + 1 \in 0 .. n - 1 /\ i \in 0 .. n - 1
      BY <1>2
    <3> QED
      BY <1>2, <2>1, <2>2, <3>1
  <2>7. History(g)'
    BY <1>2, <2>3, <2>5, <2>6 DEF History
  <2> QED
    BY <2>7
<1> QED
  BY <1>1, <1>2, <1>3, <1>4 DEF DiffInv

\* Every step keeps the invariant.
LEMMA DiffStep ==
  ASSUME DiffInv, [Pancy!Next]_pancyVars
  PROVE  DiffInv'
<1>1. CASE \E r \in Requests : Pancy!Lead(r)
  BY <1>1, LeadStep
<1>2. CASE Pancy!Follow
  BY <1>2, FollowStep
<1>3. CASE Pancy!Skip
  BY <1>3 DEF DiffInv, Pancy!Skip
<1>4. CASE UNCHANGED pancyVars
  BY <1>4 DEF DiffInv, History, pancyVars
<1> QED
  BY <1>1, <1>2, <1>3, <1>4 DEF Pancy!Next

\* What it says of diff.
LEMMA DiffInvExact ==
  ASSUME DiffInv
  PROVE  DiffExact
<1>1. Pancy!VersionsIdentifyWrites
  BY DEF DiffInv, DbOk, DbMap, Pancy!VersionsIdentifyWrites, Pancy!Present
<1>2. Pancy!ZeroSkewIsExact
  BY ZeroExact DEF DiffInv, Pancy!ZeroSkewIsExact
<1>3. ASSUME ~skipped, NEW skew \in (lead.next - follower.next) .. MaxVersion
      PROVE  Pancy!Diff(lead, follower, skew) = {} /\ Pancy!Diff(follower, lead, skew) = {}
  <2>1. PICK h : History(h)
    BY <1>3 DEF DiffInv
  <2>2. Len(pending) \in Nat /\ lead.next \in Nat /\ follower.next \in Nat
    BY DbParts DEF DiffInv, DbOk
  <2>3. /\ h[0] = follower /\ h[Len(pending)] = lead /\ Follows(follower, lead)
        /\ lead.next = follower.next + Len(pending)
    BY <2>1, <2>2 DEF History
  <2>4. lead.next = follower.next => lead = follower
    <3>1. lead.next = follower.next => Len(pending) = 0
      BY <2>2, <2>3
    <3> QED
      BY <2>3, <3>1
  <2>5. skew \in Int /\ lead.next - skew <= follower.next
    BY <2>2
  <2> QED
    BY <2>3, <2>4, <2>5, NoAlarm DEF DiffInv
<1> QED
  BY <1>1, <1>2, <1>3 DEF DiffExact, Pancy!NoFalseAlarm

\* The invariant of the two databases holds always.
THEOREM DiffInvariance == Pancy!Spec => []DiffInv
<1>1. Pancy!Init => DiffInv
  BY DiffInit
<1>2. DiffInv /\ [Pancy!Next]_pancyVars => DiffInv'
  BY DiffStep
<1> QED
  BY <1>1, <1>2, PTL DEF Pancy!Spec, Pancy!vars, pancyVars

\* diff reports no follower that only lags, with any skew of at least its lag, and, with
\* none, exactly the databases that differ.
THEOREM DiffExactHolds == Pancy!Spec => []DiffExact
BY DiffInvariance, DiffInvExact, PTL
=============================================================================
