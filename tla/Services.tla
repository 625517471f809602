------------------------------ MODULE Services ------------------------------
(***************************************************************************)
(* The event loop of one thread, and services whose calls are answered:    *)
(* the note server over HTTP and over UDP, and the RPC game of pset1.      *)
(***************************************************************************)
EXTENDS DriverLoop

CONSTANTS Rpc, HttpAsk, MaxCalls, Capacity, Text, Absent, NotText,   \* of HttpConn
          Peer, Socket, Home, UdpAsk, UdpMaxCalls, MaxLosses,        \* of UdpNotes
          Client, N                                                  \* of RpcGame

VARIABLES
  conn_pc, conn_server, asked, got, writers, readers, sent, c2s, s2c, cin, sin,
  sends, written, handled, client, db,
  udp_calls, waiting, air, serving, answers, udp_handled, lost, udp_db,
  rpc_pc, serial, sentHash, gotHash, verdict, handler, response,
  wantSerial, count, serverHash, done, server

Http == INSTANCE HttpConn WITH Request <- HttpAsk, pc <- conn_pc, server <- conn_server
connVars == <<conn_pc, conn_server, asked, got, writers, readers, sent, c2s, s2c, cin, sin,
              sends, written, handled, client, db>>

Udp == INSTANCE UdpNotes WITH
  Ask <- UdpAsk, MaxCalls <- UdpMaxCalls, calls <- udp_calls, handled <- udp_handled
udpVars == <<udp_calls, waiting, air, serving, answers, udp_handled, lost, udp_db>>

Game == INSTANCE RpcGame WITH pc <- rpc_pc
gameVars == <<rpc_pc, serial, sentHash, gotHash, verdict, handler, response,
              wantSerial, count, serverHash, done, server>>

\* What the clients of the note server ask for; a UDP client is connected to one of the
\* server's sockets, and has one of its own.
ASSUME NotesAssumption ==
  /\ HttpAsk \in [Rpc -> SUBSET Http!NoteRequest]
  /\ UdpAsk \subseteq Udp!NoteRequest
  /\ Home \in [Peer -> Socket] /\ Peer \cap Socket = {}
\* The calls of a client of the RPC game.
ASSUME CallsAssumption == N \in Nat

\* Responses are paired with their callers, over HTTP and over UDP, a call that fails was
\* not handled, and an id stands for one note for ever.
Paired == Http!Paired /\ Http!FailsUnhandled /\ Http!SameNote /\ Udp!UdpPaired
\* Both sides of the RPC game agree on the calls and their order.
Agreed == Game!Agreed
\* Every HTTP call ends, and the server after it; and every RPC client concludes, or its
\* call's serial has passed, and the server exits after them.
CallsEnd == Http!CallsEnd /\ Game!Concludes
=============================================================================
