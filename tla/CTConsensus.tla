---------------------------- MODULE CTConsensus ----------------------------
(***************************************************************************)
(* The Chandra-Toueg consensus servers of pset2/ctconsensus.cc, the        *)
(* simulated network they talk over (pset2/netsim.hh) and Nancy, the       *)
(* observer that checks their decisions.                                   *)
(*                                                                         *)
(* Time is abstracted away: a message in `net` may arrive at any moment    *)
(* and in any order, which includes the fixed 20ms of channel::send; the   *)
(* failure detector's timer may fire at any moment, at most MaxSuspicions  *)
(* times in a run (a bound of the model, any natural number: it is what    *)
(* makes the detector eventually accurate).  One send to a list of         *)
(* servers is one step: the sender reads no state between two sends, and   *)
(* each copy may still be delayed on its own.                              *)
(***************************************************************************)
EXTENDS Integers, FiniteSets

CONSTANTS N,             \* number of servers (option -n)
          Color,         \* the colors a server can start with
          NoColor,       \* the empty color of an ACK
          MaxSuspicions  \* how often the failure detectors may fire

ASSUME CTAssumption == /\ N \in Nat /\ N > 2
                       /\ NoColor \notin Color
                       /\ MaxSuspicions \in Nat

Server == 0 .. (N - 1)
Nancy == -1

Leader(r) == r % N

\* Definitions named Wrong... are mistakes the code could have made; nothing
\* uses them.  Each shows that some property below notices the mistake.
\* The loops of Phases 2 and 5 end when their counter exceeds N/2.
WrongMajorityOrHalf(S) == Cardinality(S) >= N \div 2
Majority(S) == Cardinality(S) > N \div 2

VARIABLES
  initial,      \* initial[i]: the color try_one_seed drew for server i
  pc,           \* pc[i]: where consensus() of server i is suspended
  round,        \* round_
  color,        \* color_
  colorRound,   \* color_round_
  decided,      \* decided_
  heard,        \* heard[i]: whose PREPARE or ACK the current count includes
  acked,        \* acked[i]: those of heard[i] whose ACK was positive
  net,          \* messages sent and not yet received
  suspicions,   \* how often a failure detector has fired
  received,     \* nancy: DECIDEs received
  consensus,    \* nancy: the color of the last one
  verdict,      \* nancy: "waiting", "approved" or "error"
  votes,        \* history: <<i, r, c>> once i accepts color c in round r
  proposals     \* history: <<r, c>> once the leader of r proposes c

serverVars == <<pc, round, color, colorRound, decided, heard, acked>>
nancyVars == <<received, consensus, verdict>>
historyVars == <<votes, proposals>>
vars == <<initial, serverVars, net, suspicions, nancyVars, historyVars>>

(***************************************************************************)
(* Messages.  The code's message names neither sender nor receiver; here   *)
(* they tell two equal messages on different channels apart.               *)
(***************************************************************************)
Message ==
  {m \in [type : {"prepare", "propose", "ack", "decide"},
          src : Server, dst : Server \cup {Nancy}, round : Nat,
          color : Color \cup {NoColor}, colorRound : Nat, ack : BOOLEAN] :
     m.type # "ack" => m.color \in Color}

PrepareMessage(i, r, c, cr) ==
  [type |-> "prepare", src |-> i, dst |-> Leader(r), round |-> r,
   color |-> c, colorRound |-> cr, ack |-> FALSE]
ProposeMessage(i, j, r, c) ==
  [type |-> "propose", src |-> i, dst |-> j, round |-> r,
   color |-> c, colorRound |-> 0, ack |-> FALSE]
AckMessage(i, r, ok) ==
  [type |-> "ack", src |-> i, dst |-> Leader(r), round |-> r,
   color |-> NoColor, colorRound |-> 0, ack |-> ok]
DecideMessage(i, j, c) ==
  [type |-> "decide", src |-> i, dst |-> j, round |-> 0,
   color |-> c, colorRound |-> 0, ack |-> FALSE]

(***************************************************************************)
(* receive(mt): the module StashReceive shows that the port's queue and    *)
(* the stash together are a mailbox from which a wanted message can be     *)
(* taken whenever it has arrived.  So `net` holds a message until it is    *)
(* wanted, and loses it when its round is over for its receiver.           *)
(***************************************************************************)
Receiving(i) == \/ pc[i] \in {"prepares", "acks"} /\ ~Majority(heard[i])
                \/ pc[i] = "propose"

Wants(i, mt, m) == m \in net /\ m.dst = i /\ m.type = mt /\ m.round = round[i]

\* The message m leaves the port.
WrongConsumeNothing(m) == net
Consume(m) == net \ {m}

\* What is left of S once messages of past rounds are dropped.
WrongUnreadNoFuture(S, rounds) ==
  {m \in S : m.type = "decide" \/ m.round = rounds[m.dst]}
Unread(S, rounds) == {m \in S : \/ m.type = "decide"
                                \/ m.round >= rounds[m.dst]}

-----------------------------------------------------------------------------
Init ==
  /\ initial \in [Server -> Color]
  /\ pc = [i \in Server |-> "prepare"]
  /\ round = [i \in Server |-> 1]
  /\ color = initial
  /\ colorRound = [i \in Server |-> 0]
  /\ decided = [i \in Server |-> FALSE]
  /\ heard = [i \in Server |-> {}]
  /\ acked = [i \in Server |-> {}]
  /\ net = {}
  /\ suspicions = 0
  /\ received = 0 /\ consensus = NoColor /\ verdict = "waiting"
  /\ votes = {} /\ proposals = {}

\* Phase 1: send PREPARE to the round's leader.
Prepare(i) ==
  /\ pc[i] = "prepare"
  /\ net' = Unread(net \cup {PrepareMessage(i, round[i], color[i],
                                           colorRound[i])}, round)
  /\ pc' = [pc EXCEPT ![i] = IF i = Leader(round[i]) THEN "prepares"
                                                      ELSE "propose"]
  /\ heard' = [heard EXCEPT ![i] = {}]
  /\ UNCHANGED <<initial, round, color, colorRound, decided, acked,
                 suspicions, nancyVars, historyVars>>

\* Phase 2: the leader counts a PREPARE and adopts its color if that color
\* was accepted in a later round than its own.
WrongAdoptsNothing(i, m) == FALSE
WrongAdoptsLast(i, m) == TRUE
Adopts(i, m) == m.colorRound > colorRound[i]

ReceivePrepare(i, m) ==
  /\ pc[i] = "prepares" /\ Receiving(i) /\ Wants(i, "prepare", m)
  /\ net' = Consume(m)
  /\ heard' = [heard EXCEPT ![i] = @ \cup {m.src}]
  /\ IF Adopts(i, m)
     THEN /\ color' = [color EXCEPT ![i] = m.color]
          /\ colorRound' = [colorRound EXCEPT ![i] = m.colorRound]
     ELSE UNCHANGED <<color, colorRound>>
  /\ UNCHANGED <<initial, pc, round, decided, acked, suspicions, nancyVars,
                 historyVars>>

\* Phase 3: with a majority of PREPAREs, the leader sends PROPOSE to every
\* server, itself included.
Propose(i) ==
  /\ pc[i] = "prepares" /\ Majority(heard[i])
  /\ net' = Unread(net \cup {ProposeMessage(i, j, round[i], color[i])
                               : j \in Server}, round)
  /\ proposals' = proposals \cup {<<round[i], color[i]>>}
  /\ pc' = [pc EXCEPT ![i] = "propose"]
  /\ UNCHANGED <<initial, round, color, colorRound, decided, heard, acked,
                 suspicions, nancyVars, votes>>

\* Phase 4 ends with an ACK.  The leader goes on to count ACKs; the others
\* are in the next round, which they start 10ms later.
LeavePhase4(i, ok, mail) ==
  /\ IF i = Leader(round[i])
     THEN /\ pc' = [pc EXCEPT ![i] = "acks"]
          /\ heard' = [heard EXCEPT ![i] = {}]
          /\ acked' = [acked EXCEPT ![i] = {}]
          /\ UNCHANGED round
     ELSE /\ pc' = [pc EXCEPT ![i] = "prepare"]
          /\ round' = [round EXCEPT ![i] = @ + 1]
          /\ UNCHANGED <<heard, acked>>
  /\ net' = Unread(mail \cup {AckMessage(i, round[i], ok)}, round')

\* attempt(receive(m_propose), failure_detector) returns the proposal:
\* accept its color.
ReceivePropose(i, m) ==
  /\ pc[i] = "propose" /\ Wants(i, "propose", m)
  /\ color' = [color EXCEPT ![i] = m.color]
  /\ colorRound' = [colorRound EXCEPT ![i] = round[i]]
  /\ votes' = votes \cup {<<i, round[i], m.color>>}
  /\ LeavePhase4(i, TRUE, Consume(m))
  /\ UNCHANGED <<initial, decided, suspicions, nancyVars, proposals>>

\* attempt returns nullopt: the failure detector's timer went off before
\* the proposal arrived.
Suspect(i) ==
  /\ pc[i] = "propose"
  /\ suspicions < MaxSuspicions
  /\ suspicions' = suspicions + 1
  /\ LeavePhase4(i, FALSE, net)
  /\ UNCHANGED <<initial, color, colorRound, decided, nancyVars, historyVars>>

\* Phase 5: the leader counts an ACK, and separately a positive one.
ReceiveAck(i, m) ==
  /\ pc[i] = "acks" /\ Receiving(i) /\ Wants(i, "ack", m)
  /\ net' = Consume(m)
  /\ heard' = [heard EXCEPT ![i] = @ \cup {m.src}]
  /\ acked' = [acked EXCEPT ![i] = IF m.ack THEN @ \cup {m.src} ELSE @]
  /\ UNCHANGED <<initial, pc, round, color, colorRound, decided, suspicions,
                 nancyVars, historyVars>>

\* Enough ACKs were positive.
WrongSucceedsOnTotal(i) == Majority(heard[i])
Succeeds(i) == Majority(acked[i])

\* The end of Phase 5: decide if the majority that answered accepted, else
\* Phase 6, the next round.
CountAcks(i) ==
  /\ pc[i] = "acks" /\ Majority(heard[i])
  /\ IF Succeeds(i)
     THEN /\ decided' = [decided EXCEPT ![i] = TRUE]
          /\ pc' = [pc EXCEPT ![i] = "decide"]
          /\ UNCHANGED round
     ELSE /\ pc' = [pc EXCEPT ![i] = "prepare"]
          /\ round' = [round EXCEPT ![i] = @ + 1]
          /\ UNCHANGED decided
  /\ net' = Unread(net, round')
  /\ UNCHANGED <<initial, color, colorRound, heard, acked, suspicions,
                 nancyVars, historyVars>>

\* color_ after a DECIDE.
WrongColorKept(i, m) == color[i]
WrongColorUnset(i, m) == NoColor
DecidedColor(i, m) == m.color

\* receive gets a DECIDE: adopt its color and decide.  The faked messages
\* receive then returns only lead consensus() out of its loop.
ReceiveDecide(i, m) ==
  /\ Receiving(i)
  /\ m \in net /\ m.dst = i /\ m.type = "decide"
  /\ net' = Consume(m)
  /\ color' = [color EXCEPT ![i] = DecidedColor(i, m)]
  /\ decided' = [decided EXCEPT ![i] = TRUE]
  /\ pc' = [pc EXCEPT ![i] = "decide"]
  /\ UNCHANGED <<initial, round, colorRound, heard, acked, suspicions,
                 nancyVars, historyVars>>

\* Who is told of a decision.
Audience(i) == (Server \cup {Nancy}) \ {i}

\* After the loop: send DECIDE to Nancy and to every other server.
Announce(i) ==
  /\ pc[i] = "decide"
  /\ net' = net \cup {DecideMessage(i, j, color[i]) : j \in Audience(i)}
  /\ pc' = [pc EXCEPT ![i] = "done"]
  /\ UNCHANGED <<initial, round, color, colorRound, decided, heard, acked,
                 suspicions, nancyVars, historyVars>>

-----------------------------------------------------------------------------
\* try_one_seed requires the consensus color when all servers start alike.
Unacceptable(m) ==
  \/ m.type # "decide" \/ m.color \notin Color
  \/ \E c \in Color : initial = [i \in Server |-> c] /\ m.color # c
  \/ consensus # NoColor /\ m.color # consensus

\* nancy() receives a message and validates it.
NancyReceive(m) ==
  /\ m \in net /\ m.dst = Nancy
  /\ net' = Consume(m)
  /\ IF Unacceptable(m)
     THEN verdict' = "error" /\ UNCHANGED <<received, consensus>>
     ELSE /\ consensus' = m.color
          /\ received' = received + 1
          /\ UNCHANGED verdict
  /\ UNCHANGED <<initial, serverVars, suspicions, historyVars>>

\* The stopper, set once more than N/2 DECIDEs were received, goes off.
NancyStop ==
  /\ received > N \div 2
  /\ verdict' = "approved"
  /\ UNCHANGED <<initial, serverVars, net, suspicions, received, consensus,
                 historyVars>>

\* cot::clear() has cancelled every task; nothing runs any more.
Cleared == verdict # "waiting" /\ UNCHANGED vars

Receive(i) == \E m \in net :
                \/ ReceivePrepare(i, m) \/ ReceivePropose(i, m)
                \/ ReceiveAck(i, m) \/ ReceiveDecide(i, m)

\* The steps of server i that need no timeout.
ServerStep(i) == /\ verdict = "waiting"
                 /\ \/ Prepare(i) \/ Propose(i) \/ CountAcks(i) \/ Announce(i)
                    \/ Receive(i)

NancyStep == /\ verdict = "waiting"
             /\ NancyStop \/ \E m \in net : NancyReceive(m)

Timeout(i) == verdict = "waiting" /\ Suspect(i)

Next == \/ \E i \in Server : ServerStep(i) \/ Timeout(i)
        \/ NancyStep
        \/ Cleared

Spec == Init /\ [][Next]_vars

\* The event loop runs every coroutine whose event has triggered, and every
\* message sent is delivered: each server and Nancy keep taking steps.
\* Nothing makes a failure detector fire.
Fairness == (\A i \in Server : WF_vars(ServerStep(i))) /\ WF_vars(NancyStep)

FairSpec == Spec /\ Fairness
-----------------------------------------------------------------------------
TypeOK ==
  /\ initial \in [Server -> Color]
  /\ pc \in [Server -> {"prepare", "prepares", "propose", "acks", "decide",
                        "done"}]
  /\ round \in [Server -> Nat \ {0}]
  /\ color \in [Server -> Color]
  /\ colorRound \in [Server -> Nat]
  /\ decided \in [Server -> BOOLEAN]
  /\ heard \in [Server -> SUBSET Server]
  /\ acked \in [Server -> SUBSET Server]
  /\ net \subseteq Message
  /\ suspicions \in 0 .. MaxSuspicions
  /\ received \in Nat
  /\ consensus \in Color \cup {NoColor}
  /\ verdict \in {"waiting", "approved", "error"}
  /\ votes \subseteq Server \X Nat \X Color
  /\ proposals \subseteq Nat \X Color

\* The sets of servers any two of which have a member in common.
Quorum == {Q \in SUBSET Server : 2 * Cardinality(Q) > N}

\* A majority accepted c in round r: c can be decided.
Chosen(r, c) == \E Q \in Quorum : \A i \in Q : <<i, r, c>> \in votes

\* Servers that have left the loop with a decision hold the same color,
\* however suspicions and late messages interleaved their rounds.
Agreement == \A i, j \in Server : decided[i] /\ decided[j] => color[i] = color[j]

\* A color is decided only if some server was started with it.
Validity == \A i \in Server : decided[i] => \E j \in Server : color[i] = initial[j]

\* The locking argument of Phase 2: once a majority accepted a color, no
\* leader of a later round proposes another one, although the leader hears
\* only some majority and some of those hold colors of older rounds.
Locked == \A p, q \in proposals :
            Chosen(p[1], p[2]) /\ q[1] >= p[1] => q[2] = p[2]

\* A decision, and every DECIDE on its way, names a color that a majority
\* accepted in one single round.
DecisionBacked ==
  LET Backed(c) == \E p \in proposals : p[2] = c /\ Chosen(p[1], c)
  IN  /\ \A i \in Server : decided[i] => Backed(color[i])
      /\ \A m \in net : m.type = "decide" => Backed(m.color)

\* The counters received_prepare and total count servers, not messages: no
\* message of the phase is still to come from a server already counted.
CountedOnce ==
  \A i \in Server : /\ pc[i] = "prepares" =>
                          \A m \in net : Wants(i, "prepare", m) => m.src \notin heard[i]
                    /\ pc[i] = "acks" =>
                          \A m \in net : Wants(i, "ack", m) => m.src \notin heard[i]

\* Nancy never reports an error: every message she gets is a DECIDE for the
\* color all of them agree on and the initial colors allow.
NancyNeverErrs == verdict # "error"

\* A server's accepted round never goes back, and it gives up a color only
\* for one accepted in a later round or for a decision.
ColorOnlyAdvances ==
  [][\A i \in Server :
       /\ colorRound'[i] >= colorRound[i]
       /\ color'[i] # color[i] => colorRound'[i] > colorRound[i] \/ decided'[i]]_vars

\* How colors lock: what a majority accepted is proposed ever after, decisions are
\* among it, and a server never goes back.
Locking == [](Locked /\ DecisionBacked) /\ ColorOnlyAdvances

\* What the servers decide, as the abstract specification sees it.
Decision == [i \in Server |-> IF decided[i] THEN color[i] ELSE NoColor]
Abstract == INSTANCE Consensus WITH decision <- Decision

\* Every run implements Consensus: one decision each, all alike.
ImplementsConsensus == Abstract!Spec

\* With finitely many suspicions, Nancy eventually approves.
EventuallyApproved == <>(verdict = "approved")
=============================================================================
