------------------------------ MODULE UdpNotes ------------------------------
(***************************************************************************)
(* The note server over UDP (examples/udp-jsond.cc) and the rpc() of its   *)
(* client: one datagram each way, with neither an identifier nor a retry.  *)
(*                                                                         *)
(* The server listens on one socket for each address of its name, with a   *)
(* coroutine for each; a client is a connected socket, on which one rpc    *)
(* follows the other.  The network loses datagrams, at most MaxLosses, and *)
(* delivers them in any order.  A send waits while the socket is full.     *)
(***************************************************************************)
EXTENDS NotesDB

CONSTANTS Peer,      \* the clients' sockets
          Socket,    \* the server's
          Home,      \* Home[p]: the server's socket that p's is connected to
          Ask,       \* what the clients ask for
          MaxCalls,  \* bound: rpcs of each client
          MaxLosses  \* bound: datagrams that are lost

VARIABLES
  calls,    \* calls[p]: rpcs begun by p
  waiting,  \* waiting[p]: the request whose reply p waits for, or NoRequest
  air,      \* datagrams on their way
  serving,  \* serving[s]: the reply that the coroutine of s sends, or NoReply
  answers,  \* history: pairs of request and reply, as the clients saw them
  handled,  \* history: the requests handled and their replies
  lost,     \* datagrams lost
  udp_db

peerVars == <<calls, waiting, answers>>
vars == <<peerVars, air, serving, handled, lost, udp_db>>

NoRequest == [tag |-> <<>>]
NoReply == [to |-> "nobody"]

Init ==
  /\ calls = [p \in Peer |-> 0] /\ waiting = [p \in Peer |-> NoRequest]
  /\ air = {} /\ serving = [s \in Socket |-> NoReply]
  /\ answers = {} /\ handled = {} /\ lost = 0 /\ udp_db = NoNotes

\* rpc() sends its request to the socket it is connected to.
Request(p, ask) ==
  /\ waiting[p] = NoRequest /\ calls[p] < MaxCalls
  /\ calls' = [calls EXCEPT ![p] = @ + 1]
  /\ LET req == [ask |-> ask, tag |-> <<p, calls'[p]>>]
     IN  /\ waiting' = [waiting EXCEPT ![p] = req]
         /\ air' = air \cup {[from |-> p, to |-> Home[p], req |-> req]}
  /\ UNCHANGED <<answers, serving, handled, lost, udp_db>>

\* A datagram is lost.
Lose(d) ==
  /\ d \in air /\ lost < MaxLosses
  /\ lost' = lost + 1 /\ air' = air \ {d}
  /\ UNCHANGED <<peerVars, serving, handled, udp_db>>

\* Wrong: the address of the client that called last.
WrongSource(d) == CHOOSE p \in Peer : \A q \in Peer : calls[q] <= calls[p]
\* src, as recvfrom filled it in.
Source(d) == d.from

\* process_datagram: a payload that does not parse, as if its path were "?", is answered
\* as one that is refused.
Processed(req) ==
  IF req.ask.path = "?" THEN Refuse(400, udp_db) ELSE Handle(req.ask, req.tag, udp_db)

\* serve: recvfrom, process_datagram and the start of sendto.
Serve(s, d) ==
  /\ d \in air /\ d.to = s /\ serving[s] = NoReply
  /\ LET effect == Processed(d.req)
         reply == [to |-> Source(d), tag |-> d.req.tag, response |-> effect.response]
     IN  /\ serving' = [serving EXCEPT ![s] = reply]
         /\ udp_db' = effect.db
         /\ handled' = handled \cup {[tag |-> d.req.tag, response |-> effect.response]}
  /\ air' = air \ {d}
  /\ UNCHANGED <<peerVars, lost>>

\* sendto returns, perhaps with an error that is only logged.
Reply(s) ==
  /\ serving[s] # NoReply
  /\ serving' = [serving EXCEPT ![s] = NoReply]
  /\ \/ air' = air \cup {serving[s]} /\ UNCHANGED lost
     \/ lost < MaxLosses /\ lost' = lost + 1 /\ UNCHANGED air
  /\ UNCHANGED <<peerVars, handled, udp_db>>

\* recv, on a connected socket: whatever has come is the reply.
Receive(p, d) ==
  /\ d \in air /\ d.to = p /\ waiting[p] # NoRequest
  /\ answers' = answers \cup {[tag |-> waiting[p].tag, reply |-> d]}
  /\ waiting' = [waiting EXCEPT ![p] = NoRequest]
  /\ air' = air \ {d}
  /\ UNCHANGED <<calls, serving, handled, lost, udp_db>>

Next ==
  \/ \E p \in Peer, ask \in Ask : Request(p, ask)
  \/ \E d \in air : \/ Lose(d)
                    \/ \E s \in Socket : Serve(s, d)
                    \/ \E p \in Peer : Receive(p, d)
  \/ \E s \in Socket : Reply(s)
Spec == Init /\ [][Next]_vars

-----------------------------------------------------------------------------
(***************************************************************************)
(* Although datagrams bear no identifier, a client takes a reply only for  *)
(* the request it answers, and each request is handled once at most: rpc() *)
(* never sends a second datagram while the first may still be answered.    *)
(***************************************************************************)
UdpPaired ==
  /\ \A a \in answers : /\ a.tag = a.reply.tag
                        /\ [tag |-> a.tag, response |-> a.reply.response] \in handled
  /\ \A h, k \in handled : h.tag = k.tag => h = k
=============================================================================
