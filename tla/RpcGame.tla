------------------------------- MODULE RpcGame -------------------------------
(***************************************************************************)
(* The RPC game of pset1: clients that send numbered calls one at a time,  *)
(* and a server whose handler threads process them in the order of their   *)
(* serials under a mutex and a condition variable.  Both sides hash all    *)
(* requests and all responses; a client that is done asks for the server's *)
(* hashes and compares.  A hash is the sequence of what went into it.      *)
(*                                                                         *)
(* Every client process numbers its calls from 1.  A process may be killed *)
(* at any moment; the handler of its call goes on.  gRPC, external, calls  *)
(* a handler for each request and fails the calls of a server that shuts   *)
(* down, and Shutdown() waits for the handlers that run.                   *)
(***************************************************************************)
EXTENDS Integers, Sequences

CONSTANTS Client,  \* the client processes, a restarted one being another
          N        \* rpcg-client -n: the calls of a client, a natural number

VARIABLES
  pc,           \* pc[c]: "off", "run", "wait", "finish", "verdict" or "dead"
  serial,       \* serial[c]: _serial
  sentHash, gotHash,  \* c's _ctx[client_type] and _ctx[server_type]
  verdict,      \* verdict[c]: what finish() printed
  handler,      \* handler[c]: where the handler of c's call is
  response,     \* response[c]: what it answers
  wantSerial, count, serverHash, done,  \* _want_serial, _count, _ctx, _done of the server
  server        \* "up", "closing" in Shutdown(), "exited"

clientVars == <<pc, serial, sentHash, gotHash, verdict>>
serverVars == <<wantSerial, count, serverHash, done>>
vars == <<clientVars, handler, response, serverVars, server>>

NoHashes == [requests |-> <<>>, responses |-> <<>>]

Init ==
  /\ pc = [c \in Client |-> "off"] /\ serial = [c \in Client |-> 1]
  /\ sentHash = [c \in Client |-> <<>>] /\ gotHash = [c \in Client |-> <<>>]
  /\ verdict = [c \in Client |-> "none"]
  /\ handler = [c \in Client |-> "none"]
  /\ response = [c \in Client |-> NoHashes]
  /\ wantSerial = 1 /\ count = 0 /\ done = FALSE
  /\ serverHash = NoHashes
  /\ server = "up"

-----------------------------------------------------------------------------
Connect(c) ==
  /\ pc[c] = "off" /\ pc' = [pc EXCEPT ![c] = "run"]
  /\ UNCHANGED <<serial, sentHash, gotHash, verdict, handler, response, serverVars, server>>

\* The input line of a client's n-th call.
Line(c, n) == <<c, n>>

More(c) == serial[c] <= N

\* run and send_try: hash the line, send it under the next serial and wait.
SendTry(c) ==
  /\ pc[c] = "run" /\ More(c) /\ server = "up"
  /\ sentHash' = [sentHash EXCEPT ![c] = Append(@, Line(c, serial[c]))]
  /\ serial' = [serial EXCEPT ![c] = @ + 1]
  /\ pc' = [pc EXCEPT ![c] = "wait"]
  /\ handler' = [handler EXCEPT ![c] = "try"]
  /\ UNCHANGED <<gotHash, verdict, response, serverVars, server>>

\* The response comes: hash it.
RecvTry(c) ==
  /\ pc[c] = "wait" /\ handler[c] = "replied"
  /\ gotHash' = [gotHash EXCEPT ![c] = @ \o response[c].responses]
  /\ pc' = [pc EXCEPT ![c] = "run"]
  /\ handler' = [handler EXCEPT ![c] = "none"]
  /\ UNCHANGED <<serial, sentHash, verdict, response, serverVars, server>>

\* All calls are answered: ask for the checksums.
Finish(c) ==
  /\ pc[c] = "run" /\ ~More(c) /\ server = "up"
  /\ pc' = [pc EXCEPT ![c] = "finish"]
  /\ handler' = [handler EXCEPT ![c] = "done"]
  /\ UNCHANGED <<serial, sentHash, gotHash, verdict, response, serverVars, server>>

Compare(c) ==
  /\ pc[c] = "finish" /\ handler[c] = "replied"
  /\ verdict' = [verdict EXCEPT ![c] =
       IF response[c] = [requests |-> sentHash[c], responses |-> gotHash[c]]
       THEN "match" ELSE "mismatch"]
  /\ pc' = [pc EXCEPT ![c] = "verdict"]
  /\ handler' = [handler EXCEPT ![c] = "none"]
  /\ UNCHANGED <<serial, sentHash, gotHash, response, serverVars, server>>

\* A call to a server that shuts down fails and the client exits.
Refused(c) ==
  /\ pc[c] = "run" /\ server # "up"
  /\ pc' = [pc EXCEPT ![c] = "dead"]
  /\ UNCHANGED <<serial, sentHash, gotHash, verdict, handler, response, serverVars, server>>

Kill(c) ==
  /\ pc[c] \in {"run", "wait", "finish"}
  /\ pc' = [pc EXCEPT ![c] = "dead"]
  /\ UNCHANGED <<serial, sentHash, gotHash, verdict, handler, response, serverVars, server>>

-----------------------------------------------------------------------------
\* The serial of the request that c's handler was called with.
RequestSerial(c) == serial[c] - 1

\* Wrong: whichever call comes first is processed.
WrongMyTurn(c) == TRUE
MyTurn(c) == RequestSerial(c) = wantSerial

\* Wrong: the turn is never passed on.
WrongNextSerial == wantSerial
NextSerial == wantSerial + 1

\* process_try: wait for the mutex and the turn, then take it.
TakeTurn(c) ==
  /\ handler[c] = "try" /\ \A d \in Client : handler[d] # "turn"
  /\ MyTurn(c)
  /\ wantSerial' = NextSerial
  /\ handler' = [handler EXCEPT ![c] = "turn"]
  /\ UNCHANGED <<clientVars, response, count, serverHash, done, server>>

\* The answer to a line depends on how many were answered before it.
Value(line) == <<line, count>>

\* Wrong: the response is not hashed with the requests.
WrongHashed(h, line) == [h EXCEPT !.requests = Append(@, line)]
Hashed(h, line) == [requests |-> Append(h.requests, line),
                    responses |-> Append(h.responses, Value(line))]

\* Hash the request, compute the response and hash it; unlock and reply.
Process(c) ==
  LET line == Line(c, RequestSerial(c)) IN
  /\ handler[c] = "turn"
  /\ response' = [response EXCEPT ![c].responses = <<Value(line)>>]
  /\ count' = count + 1
  /\ serverHash' = Hashed(serverHash, line)
  /\ handler' = [handler EXCEPT ![c] = "replied"]
  /\ UNCHANGED <<clientVars, wantSerial, done, server>>

\* Done: checksum twice, without the mutex.
ChecksumRequests(c) ==
  /\ handler[c] = "done"
  /\ done' = TRUE
  /\ response' = [response EXCEPT ![c].requests = serverHash.requests]
  /\ handler' = [handler EXCEPT ![c] = "halfdone"]
  /\ UNCHANGED <<clientVars, wantSerial, count, serverHash, server>>

ChecksumResponses(c) ==
  /\ handler[c] = "halfdone"
  /\ response' = [response EXCEPT ![c].responses = serverHash.responses]
  /\ handler' = [handler EXCEPT ![c] = "replied"]
  /\ UNCHANGED <<clientVars, serverVars, server>>

\* The thread that Done started calls Shutdown().
Shutdown ==
  /\ server = "up" /\ done /\ \A c \in Client : handler[c] \notin {"done", "halfdone"}
  /\ server' = "closing"
  /\ UNCHANGED <<clientVars, handler, response, serverVars>>

\* A killed client's response is dropped with its connection.
DropReply(c) ==
  /\ handler[c] = "replied" /\ pc[c] = "dead"
  /\ handler' = [handler EXCEPT ![c] = "none"]
  /\ UNCHANGED <<clientVars, response, serverVars, server>>

\* Shutdown() and Wait() return when no handler runs.
Exit ==
  /\ server = "closing" /\ \A c \in Client : handler[c] \in {"none", "replied"}
  /\ server' = "exited"
  /\ UNCHANGED <<clientVars, handler, response, serverVars>>

ClientStep(c) == Connect(c) \/ SendTry(c) \/ RecvTry(c) \/ Finish(c) \/ Compare(c) \/ Refused(c)
Handle(c) == TakeTurn(c) \/ Process(c) \/ ChecksumRequests(c) \/ ChecksumResponses(c) \/ DropReply(c)

Next == (\E c \in Client : ClientStep(c) \/ Kill(c) \/ Handle(c)) \/ Shutdown \/ Exit

\* Processes and handler threads run; nobody has to kill a client.
Fairness ==
  /\ WF_vars(Shutdown) /\ WF_vars(Exit)
  /\ \A c \in Client : WF_vars(ClientStep(c)) /\ WF_vars(Handle(c))

Spec == Init /\ [][Next]_vars /\ Fairness
-----------------------------------------------------------------------------
TypeOK ==
  /\ pc \in [Client -> {"off", "run", "wait", "finish", "verdict", "dead"}]
  /\ serial \in [Client -> Nat \ {0}]
  /\ handler \in [Client -> {"none", "try", "turn", "done", "halfdone", "replied"}]
  /\ wantSerial \in Nat \ {0} /\ count \in Nat /\ done \in BOOLEAN
  /\ server \in {"up", "closing", "exited"}

\* A client that gets its verdict always sees a match, whatever other clients ran beside it
\* or were killed before it: no two clients' calls are ever mixed in the server's hashes.
NoMismatch == \A c \in Client : verdict[c] # "mismatch"

\* checksum, which takes no lock, never runs beside process_try, and process_try's
\* assertion that nobody has asked for a checksum holds.
ChecksumAlone ==
  (done \/ \E c \in Client : handler[c] \in {"done", "halfdone"})
    => \A c \in Client : ~(handler[c] = "turn" \/ (handler[c] = "try" /\ MyTurn(c)))

\* Both sides agree on the calls and their order, and the checksums are of all of them.
Agreed == NoMismatch /\ ChecksumAlone

\* A call whose serial has passed, to another client, waits for ever.
Stuck(c) == handler[c] = "try" /\ RequestSerial(c) < wantSerial

\* In the end every client has its verdict, or was killed or refused, or has such a call: no
\* call waits for a serial that is yet to come.  And a server that shuts down has exited,
\* unless a call is stuck.
Concludes ==
  <>[](/\ \A c \in Client : pc[c] \in {"off", "verdict", "dead"} \/ Stuck(c)
       /\ server = "closing" => \E c \in Client : Stuck(c))
=============================================================================
