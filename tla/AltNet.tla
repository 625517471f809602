------------------------------- MODULE AltNet -------------------------------
(***************************************************************************)
(* The network and the clients of pset3-altnet: netsim.hh, where a         *)
(* registry pairs each client's request channel to a replica with the      *)
(* reply channel back, and client_model.hh with the retries of             *)
(* lockseq_model.cc.  What the replicas do is in a module that extends     *)
(* this one.                                                               *)
(*                                                                         *)
(* What a client asks for is left out: a request is its client and serial, *)
(* a response the serial and the position at which the request was         *)
(* processed, or a redirection.  Equal delays keep the messages to a port  *)
(* in order.  MaxSerial, MaxSends, MaxLosses bound the model, not the code.*)
(***************************************************************************)
EXTENDS Integers, Sequences

CONSTANTS Client, Replica,
          MaxSerial,  \* bound: requests of a client
          MaxSends,   \* bound: copies the clients send
          MaxLosses   \* bound: messages the channels drop by chance

VARIABLES
  pairs,      \* pairs[<<c, r>>]: channels_ of r's port, a channel_pair for each client
  requests,   \* requests[r]: messageq_ of r's port
  responses,  \* responses[c]: messageq_ of c's response port
  pc,         \* pc[c]: "off", "idle", "send" or "wait"
  leader, serial, tries,  \* leader[c] and the locals of client c; tries modulo 3
  floor,      \* history: floor[c]: the last position accepted before c's request began
  accepted,   \* history: the responses the clients accepted
  sends, losses  \* counters for the bounds

clientVars == <<pc, leader, serial, tries, floor, accepted>>
netVars == <<pairs, requests, responses, losses>>
altNetVars == <<clientVars, netVars, sends>>

NetInit ==
  /\ pairs = <<>>
  /\ requests = [r \in Replica |-> <<>>] /\ responses = [c \in Client |-> <<>>]
  /\ pc = [c \in Client |-> "off"]
  /\ leader = [c \in Client |-> 0] /\ serial = [c \in Client |-> 0]
  /\ tries = [c \in Client |-> 0] /\ floor = [c \in Client |-> 0]
  /\ accepted = {} /\ sends = 0 /\ losses = 0

\* Definitions named Wrong... are mistakes the code could have made; nothing
\* uses them.  Each shows that some property notices the mistake.

\* network::find_channel, for c and each of the replicas R: the request channel and the reply
\* channel are made together.
NewPair(c) == [request |-> "default", response |-> "default", replyTo |-> c]
FindChannel(P, c, R) ==
  [x \in DOMAIN P \cup ({c} \X R) |-> IF x \in DOMAIN P THEN P[x] ELSE NewPair(c)]

\* network::find_response_channel, as far as the port has met the client.
ResponseChannels(r) == {x \in DOMAIN pairs : x[2] = r}

\* channel::send: dropped by chance, or always if the channel's loss was set to 1.
Lost(loss) == \/ loss = "default" /\ losses < MaxLosses /\ losses' = losses + 1
              \/ loss = "all" /\ UNCHANGED losses
Sent(loss) == loss = "default" /\ UNCHANGED losses

\* receive_with_channel: the reply channel is the one paired with the source.
Reply(c, r, m) ==
  LET pair == pairs[<<c, r>>]
  IN  \/ /\ Sent(pair.response)
         /\ responses' = [responses EXCEPT ![pair.replyTo] = Append(@, m)]
      \/ Lost(pair.response) /\ UNCHANGED responses

Redirection(s, l) == [serial |-> s, position |-> 0, redirect |-> l]
Response(s, p) == [serial |-> s, position |-> p, redirect |-> -1]

-----------------------------------------------------------------------------
\* set_nclients: the clients register one by one, and with each replica.
Register(c) ==
  /\ pc[c] = "off"
  /\ pairs' = FindChannel(pairs, c, Replica)
  /\ \E r \in Replica : leader' = [leader EXCEPT ![c] = r]
  /\ pc' = [pc EXCEPT ![c] = "idle"]
  /\ UNCHANGED <<requests, responses, serial, tries, floor, accepted, sends, losses>>

\* A phase of client() begins: a new serial.
Begin(c) ==
  /\ pc[c] = "idle" /\ serial[c] < MaxSerial
  /\ \A d \in Client : pc[d] # "off"
  /\ pc' = [pc EXCEPT ![c] = "send"]
  /\ serial' = [serial EXCEPT ![c] = @ + 1]
  /\ tries' = [tries EXCEPT ![c] = 0]
  /\ \E p \in {a.position : a \in accepted} \cup {0} :
       (\A a \in accepted : a.position <= p) /\ floor' = [floor EXCEPT ![c] = p]
  /\ UNCHANGED <<leader, accepted, netVars, sends>>

\* send_request to the replica the client takes for the leader.
Send(c) ==
  /\ pc[c] = "send" /\ sends < MaxSends
  /\ sends' = sends + 1
  /\ pc' = [pc EXCEPT ![c] = "wait"]
  /\ \/ /\ Sent(pairs[<<c, leader[c]>>].request)
        /\ requests' = [requests EXCEPT ![leader[c]] =
                          Append(@, [client |-> c, serial |-> serial[c]])]
     \/ Lost(pairs[<<c, leader[c]>>].request) /\ UNCHANGED requests
  /\ UNCHANGED <<pairs, responses, leader, serial, tries, floor, accepted>>

\* No response: try again, at every third failure with a replica picked at random.
TryAgain(c, believed) ==
  /\ pc' = [pc EXCEPT ![c] = "send"]
  /\ tries' = [tries EXCEPT ![c] = (@ + 1) % 3]
  /\ \E r \in IF tries[c] = 2 THEN Replica ELSE {believed} : leader' = [leader EXCEPT ![c] = r]
  /\ UNCHANGED <<serial, floor, accepted>>

\* attempt returns nullopt: the timer went off, perhaps just before the response.
Timeout(c) ==
  /\ pc[c] = "wait"
  /\ TryAgain(c, leader[c])
  /\ UNCHANGED <<netVars, sends>>

\* A response to another request than the present one is dropped.
WrongStale(c, m) == FALSE
Stale(c, m) == m.serial # serial[c]

\* receive_response.
Receive(c) ==
  /\ pc[c] = "wait" /\ responses[c] # <<>>
  /\ responses' = [responses EXCEPT ![c] = Tail(@)]
  /\ LET m == Head(responses[c])
     IN  \/ Stale(c, m) /\ UNCHANGED clientVars
         \/ ~Stale(c, m) /\ m.redirect \in Replica /\ TryAgain(c, m.redirect)
         \/ /\ ~Stale(c, m) /\ m.redirect \notin Replica
            /\ pc' = [pc EXCEPT ![c] = "idle"]
            /\ accepted' = accepted \cup {[req |-> [client |-> c, serial |-> serial[c]],
                                           position |-> m.position, after |-> floor[c]]}
            /\ UNCHANGED <<leader, serial, tries, floor>>
  /\ UNCHANGED <<pairs, requests, losses, sends>>

ClientStep(c) == Register(c) \/ Begin(c) \/ Send(c) \/ Timeout(c) \/ Receive(c)
=============================================================================
