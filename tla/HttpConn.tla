----------------------------- MODULE HttpConn -----------------------------
(***************************************************************************)
(* One HTTP connection: the coroutines of a client that share a parser     *)
(* (http.cc; rpc() of examples/jsond-client.cc) and the server's           *)
(* handle_connection (examples/jsond.cc), which pipelines.                 *)
(*                                                                         *)
(* A message is two parts on the wire, so that a read may end within one   *)
(* and a write may stop between them; a socket holds Capacity parts.  A    *)
(* coroutine resumes the one that awaits it directly, so that nothing runs *)
(* between the end of receive() and the rpc's look at ok().  The network   *)
(* delivers what was sent before a close.                                  *)
(***************************************************************************)
EXTENDS NotesDB, Sequences

CONSTANTS Rpc,       \* the client's coroutines, each with one call after the other
          Request,   \* what each may ask for: [method, path, id, well, title, body]
          MaxCalls,  \* bound: calls of each
          Capacity   \* parts that a socket buffers, at least one

VARIABLES
  pc,        \* pc[r]: "idle", "lock", "send", "receive" or "failed"
  asked,     \* asked[r]: the requests of r, the last one perhaps under way
  got,       \* got[r]: the responses to them
  writers,   \* the client's m_[1]: its holder and those that wait
  readers,   \* the client's m_[0]
  sent,      \* sent[r]: parts of r's request on the wire
  c2s, s2c,  \* the sockets
  cin, sin,  \* receive_buffer_ of the two parsers
  server,    \* handle_connection: "receive", "drain" its sends, or "closed"
  sends,     \* the server's m_[1]: responses whose send() has not ended
  written,   \* parts of the first of them on the wire
  handled,   \* history: the requests handled
  client,    \* the client's end of the connection: "open" or "closed"
  db

clientVars == <<pc, asked, got, writers, readers, sent, cin>>
serverVars == <<handled, server, sends, written, sin, db>>
vars == <<clientVars, serverVars, c2s, s2c, client>>

Part(m, i) == [msg |-> m, end |-> i = 2]

Init ==
  /\ pc = [r \in Rpc |-> "idle"]
  /\ asked = [r \in Rpc |-> <<>>] /\ got = [r \in Rpc |-> <<>>]
  /\ writers = <<>> /\ readers = <<>> /\ sent = [r \in Rpc |-> 0]
  /\ c2s = <<>> /\ s2c = <<>> /\ cin = <<>> /\ sin = <<>>
  /\ server = "receive" /\ sends = <<>> /\ written = 0 /\ client = "open"
  /\ db = NoNotes /\ handled = {}

-----------------------------------------------------------------------------
\* rpc() builds a request, the last one perhaps with "Connection: close", and
\* calls send_request, which waits for the write lock.
Call(r, req, close) ==
  /\ pc[r] = "idle" /\ client = "open" /\ Len(asked[r]) < MaxCalls
  /\ close => Len(asked[r]) + 1 = MaxCalls
  /\ asked' = [asked EXCEPT ![r] =
       Append(@, [ask |-> req, tag |-> <<r, Len(asked[r]) + 1>>, close |-> close])]
  /\ writers' = Append(writers, r)
  /\ pc' = [pc EXCEPT ![r] = "lock"]
  /\ UNCHANGED <<got, readers, sent, cin, serverVars, c2s, s2c, client>>

\* Wrong: the ticket goes to the front.
WrongQueued(q, r) == <<r>> \o q
\* m_[0].lock(): a ticket, good when those before it are used.
Queued(q, r) == Append(q, r)

\* send_request has the write lock and obtains its read ticket.
TakeTicket(r) ==
  /\ pc[r] = "lock" /\ Head(writers) = r
  /\ readers' = Queued(readers, r)
  /\ sent' = [sent EXCEPT ![r] = 0]
  /\ pc' = [pc EXCEPT ![r] = "send"]
  /\ UNCHANGED <<asked, got, writers, cin, serverVars, c2s, s2c, client>>

\* sendv_all of the client writes a part, or fails, unnoticed, because the
\* server has closed.  Then the lock is released and the rpc awaits its ticket.
SendRequest(r) ==
  /\ pc[r] = "send"
  /\ \/ /\ server # "closed" /\ Len(c2s) < Capacity
        /\ c2s' = Append(c2s, Part(asked[r][Len(asked[r])], sent[r] + 1))
        /\ sent' = [sent EXCEPT ![r] = @ + 1]
     \/ /\ server = "closed"
        /\ sent' = [sent EXCEPT ![r] = 2]
        /\ UNCHANGED c2s
  /\ IF sent'[r] = 2
     THEN writers' = Tail(writers) /\ pc' = [pc EXCEPT ![r] = "receive"]
     ELSE UNCHANGED <<writers, pc>>
  /\ UNCHANGED <<asked, got, readers, cin, serverVars, s2c, client>>

\* llhttp_execute: how much of buf it consumes, which pauses after a message.
Consumed(buf) ==
  IF \E i \in DOMAIN buf : buf[i].end
  THEN CHOOSE i \in DOMAIN buf : buf[i].end /\ \A j \in 1..(i - 1) : ~buf[j].end
  ELSE Len(buf)

\* Wrong: what was read beyond the message is dropped.
WrongUnconsumed(buf) == <<>>
\* What receive() keeps in receive_buffer_.
Unconsumed(buf) == SubSeq(buf, Consumed(buf) + 1, Len(buf))

\* One turn of receive()'s loop executes the buffer, or else what a read gives.
ReadSizes(in, socket) == IF in # <<>> THEN {0} ELSE 1..Len(socket)
Executed(in, socket, n) == in \o SubSeq(socket, 1, n)
Completes(buf) == buf # <<>> /\ buf[Consumed(buf)].end
Rest(socket, n) == SubSeq(socket, n + 1, Len(socket))

\* The holder of the first ticket is in receive().
Reading(r) == pc[r] = "receive" /\ client = "open" /\ Head(readers) = r

ReceiveResponse(r) ==
  /\ Reading(r)
  /\ \E n \in ReadSizes(cin, s2c) :
       LET buf == Executed(cin, s2c, n) IN
       /\ cin' = Unconsumed(buf) /\ s2c' = Rest(s2c, n)
       /\ IF Completes(buf)
          THEN /\ got' = [got EXCEPT ![r] = Append(@, buf[Consumed(buf)].msg)]
               /\ pc' = [pc EXCEPT ![r] = "idle"]
               /\ readers' = Tail(readers)
          ELSE UNCHANGED <<got, pc, readers>>
  /\ UNCHANGED <<asked, writers, sent, serverVars, c2s, client>>

\* Nothing comes any more: HPE_CLOSED_CONNECTION, and rpc() throws.
ReceiveEnd(r) ==
  /\ Reading(r) /\ cin = <<>> /\ s2c = <<>> /\ server = "closed"
  /\ pc' = [pc EXCEPT ![r] = "failed"]
  /\ readers' = Tail(readers)
  /\ UNCHANGED <<asked, got, writers, sent, cin, serverVars, c2s, s2c, client>>

\* The client process ends, whatever is under way.
HangUp ==
  /\ client = "open" /\ client' = "closed"
  /\ UNCHANGED <<clientVars, serverVars, c2s, s2c>>

-----------------------------------------------------------------------------
Answer(req, response) == [to |-> req.tag, status |-> response.status, notes |-> response.notes]

\* handle_connection receives a request, handles it and starts to send the
\* response; after a request with "Connection: close" it leaves its loop.
ServerReceive ==
  /\ server = "receive"
  /\ \E n \in ReadSizes(sin, c2s) :
       LET buf == Executed(sin, c2s, n)
           req == buf[Consumed(buf)].msg
           effect == Handle(req.ask, req.tag, db) IN
       /\ sin' = Unconsumed(buf) /\ c2s' = Rest(c2s, n)
       /\ IF Completes(buf)
          THEN /\ db' = effect.db
               /\ sends' = Append(sends, Answer(req, effect.response))
               /\ handled' = handled \cup {req.tag}
               /\ server' = IF req.close THEN "drain" ELSE server
          ELSE UNCHANGED <<db, sends, handled, server>>
  /\ UNCHANGED <<clientVars, written, s2c, client>>

\* The client has gone: receive() ends with an error.
ServerReceiveEnd ==
  /\ server = "receive" /\ sin = <<>> /\ c2s = <<>> /\ client = "closed"
  /\ server' = "drain"
  /\ UNCHANGED <<clientVars, handled, sends, written, sin, db, c2s, s2c, client>>

\* sendv_all of the first response writes a part, or fails because the client
\* has gone.
ServerSend ==
  /\ sends # <<>> /\ server # "closed"
  /\ \/ /\ client = "open" /\ Len(s2c) < Capacity
        /\ s2c' = Append(s2c, Part(Head(sends), written + 1))
        /\ IF written = 1 THEN written' = 0 /\ sends' = Tail(sends)
           ELSE written' = 1 /\ UNCHANGED sends
     \/ /\ client = "closed"
        /\ written' = 0 /\ sends' = Tail(sends)
        /\ UNCHANGED s2c
  /\ UNCHANGED <<clientVars, handled, server, sin, db, c2s, client>>

\* Wrong: nobody awaits `sends`.
WrongSendsResolved == TRUE
\* co_await sends.
SendsResolved == sends = <<>>

\* handle_connection returns: the parser and the descriptor go with its frame.
ServerClose ==
  /\ server = "drain" /\ SendsResolved
  /\ server' = "closed"
  /\ UNCHANGED <<clientVars, handled, sends, written, sin, db, c2s, s2c, client>>

Calls(r) == \E req \in Request[r], close \in BOOLEAN : Call(r, req, close)
ClientStep(r) ==
  client = "open" /\ (TakeTicket(r) \/ SendRequest(r) \/ ReceiveResponse(r) \/ ReceiveEnd(r))
ServerStep == ServerReceive \/ ServerReceiveEnd \/ ServerSend \/ ServerClose

Next == ServerStep \/ HangUp \/ \E r \in Rpc : Calls(r) \/ ClientStep(r)

\* The loops on both sides run what is ready; nobody has to call or hang up.
Fairness == WF_vars(ServerReceive \/ ServerReceiveEnd \/ ServerClose) /\ WF_vars(ServerSend)
            /\ \A r \in Rpc : WF_vars(ClientStep(r))
Spec == Init /\ [][Next]_vars /\ Fairness
-----------------------------------------------------------------------------
\* "the ticket returned by send_request keeps each response paired with its
\* caller" (jsond-client.cc), however requests are pipelined and parts are read.
Paired == \A r \in Rpc : \A k \in DOMAIN got[r] : got[r][k].to = <<r, k>>

\* A call that fails has not been handled: the server sends what it has to say
\* before it closes, and no reader takes or drops a response of another.
FailsUnhandled == \A r \in Rpc : pc[r] = "failed" => <<r, Len(asked[r])>> \notin handled

\* "a deleted id will never later resolve to a different note" (notes_db).
SameNote ==
  LET Responses == UNION {{got[r][k] : k \in DOMAIN got[r]} : r \in Rpc} IN
  \A a, b \in Responses : \A id \in DOMAIN a.notes \cap DOMAIN b.notes :
    a.notes[id].by = b.notes[id].by

\* In the end every call has returned or failed, and once the client has closed the
\* server's coroutine has ended too.
CallsEnd ==
  <>[](/\ client = "open" => \A r \in Rpc : pc[r] \in {"idle", "failed"}
       /\ client = "closed" => server = "closed")
=============================================================================
