-------------------------------- MODULE Dial --------------------------------
(***************************************************************************)
(* The coroutines of io.cc that turn a name into sockets: tcp_listen_all,  *)
(* udp_listen_all, tcp_connect and udp_connect, with connect of io.hh.     *)
(* Each looks the name up in a thread of its own, which shares the result  *)
(* with it, then tries the addresses in turn.  It may be destroyed         *)
(* wherever it is suspended, and the thread runs on.                       *)
(*                                                                         *)
(* A socket is named by its address.  fcntl and setsockopt do not fail.    *)
(***************************************************************************)
EXTENDS Integers, FiniteSets

CONSTANT MaxAddresses  \* bound: addresses that a name has

VARIABLES
  op,        \* "connect" or "listen", and max, 0 being no limit
  pc,        \* "lookup", "try", "connecting", "returned", "threw" or "destroyed"
  thread,    \* getaddrinfo_thread is "running", has "triggered" notifier, or is "gone"
  res,       \* the addrinfo: "unset", "none", or "list"
  found,     \* how many addresses the list has
  ai,        \* the address that is next
  open,      \* sockets that are open
  f, result, \* what the coroutine holds: f, and the fd_list; what it returned
  failed,    \* history: addresses that failed
  error,     \* last_err: the address it is of, 0 being none; -1 that of the lookup
  freed      \* history: how often freeaddrinfo was called

vars == <<op, pc, thread, res, found, ai, open, f, result, failed, error, freed>>
socketVars == <<open, f, result, failed, error>>

Init ==
  /\ op \in {[kind |-> "connect", max |-> 1]} \cup [kind : {"listen"}, max : 0 .. 2]
  /\ pc = "lookup" /\ thread = "running" /\ res = "unset" /\ found = 0 /\ ai = 1
  /\ open = {} /\ f = {} /\ result = {} /\ failed = {} /\ error = 0
  /\ freed = 0

Ended == pc \in {"returned", "threw", "destroyed"}

\* Wrong: whichever of the two ends frees the list.
WrongFree(gone, ended) == IF ended /\ res = "list" THEN freed + 1 ELSE freed
\* ~getaddrinfo_value, when neither the thread nor the coroutine holds it any more.
Free(gone, ended) == IF gone /\ ended /\ res = "list" THEN freed + 1 ELSE freed

\* getaddrinfo_thread: no colon, an error, or one address or more.
Lookup ==
  /\ thread = "running" /\ thread' = "triggered"
  /\ \/ res' = "none" /\ UNCHANGED found
     \/ res' = "list" /\ found' \in 1 .. MaxAddresses
  /\ UNCHANGED <<op, pc, ai, socketVars, freed>>

\* The thread ends, and its share of the result with it.
ThreadEnds ==
  /\ thread = "triggered" /\ thread' = "gone"
  /\ freed' = Free(Ended, TRUE)
  /\ UNCHANGED <<op, pc, res, found, ai, socketVars>>

\* The coroutine ends: what it holds and does not return is closed.
End(how, returned) ==
  /\ pc' = how /\ result' = returned /\ f' = {}
  /\ open' = returned
  /\ freed' = Free(thread = "gone", TRUE)
  /\ UNCHANGED <<op, thread, res, found, ai>>

\* notifier has been triggered.
Resume ==
  /\ pc = "lookup" /\ res # "unset"
  /\ IF res = "none" THEN End("threw", {}) /\ error' = -1 /\ UNCHANGED failed
     ELSE pc' = "try" /\ UNCHANGED <<op, thread, res, found, ai, socketVars, freed>>

\* An address fails, and the loop goes on with the next.
Fail(still) ==
  /\ failed' = failed \cup {ai} /\ error' = ai /\ ai' = ai + 1
  /\ open' = still /\ f' = {} /\ pc' = "try"
  /\ UNCHANGED <<op, thread, res, found, result, freed>>

\* Wrong: the socket that could not be bound stays open.
WrongClosed(a) == open \cup {a}
\* ::close, or the destructor of f.
Closed(a) == open \ {a}

\* socket(), bind() or listen() fails.
Refused == pc = "try" /\ ai <= found /\ Fail(Closed(ai))

Listen ==
  /\ pc = "try" /\ ai <= found /\ op.kind = "listen"
  /\ IF op.max # 0 /\ Cardinality(result) + 1 = op.max
     THEN End("returned", result \cup {ai}) /\ UNCHANGED <<failed, error>>
     ELSE /\ open' = open \cup {ai} /\ result' = result \cup {ai} /\ ai' = ai + 1
          /\ UNCHANGED <<op, pc, thread, res, found, f, failed, error, freed>>

\* connect: at once, or EINPROGRESS.
Connect ==
  /\ pc = "try" /\ ai <= found /\ op.kind = "connect"
  /\ \/ End("returned", {ai}) /\ UNCHANGED <<failed, error>>
     \/ /\ pc' = "connecting" /\ open' = open \cup {ai} /\ f' = {ai}
        /\ UNCHANGED <<op, thread, res, found, ai, result, failed, error, freed>>

\* Wrong: SO_ERROR is not asked for.
WrongConnected(ok) == TRUE
\* The descriptor is writable: SO_ERROR tells whether it is connected.
Connected(ok) == ok

Writable(ok) ==
  /\ pc = "connecting"
  /\ IF Connected(ok) THEN End("returned", f) /\ error' = error
                           /\ failed' = IF ok THEN failed ELSE failed \cup f
     ELSE Fail(Closed(ai))

\* No address is left: return what there is, else throw.
Exhausted ==
  /\ pc = "try" /\ ai > found
  /\ IF result # {} THEN End("returned", result) ELSE End("threw", {})
  /\ UNCHANGED <<failed, error>>

\* The task is destroyed where it is suspended.
Destroy == pc \in {"lookup", "connecting"} /\ End("destroyed", {}) /\ UNCHANGED <<failed, error>>

Next == Lookup \/ ThreadEnds \/ Resume \/ Refused \/ Listen \/ Connect
        \/ (\E ok \in BOOLEAN : Writable(ok)) \/ Exhausted \/ Destroy
Spec == Init /\ [][Next]_vars

-----------------------------------------------------------------------------
(***************************************************************************)
(* Nothing leaks and nothing is freed early: a socket is open only while   *)
(* the coroutine or its caller has it, and the list of addresses is freed  *)
(* once, after both who use it have ended, whichever ends first.           *)
(***************************************************************************)
Released ==
  /\ open = f \cup result
  /\ freed <= 1 /\ (freed = 1 => Ended /\ thread = "gone")
  /\ Ended /\ thread = "gone" => (freed = 1 <=> res = "list")

(***************************************************************************)
(* What is returned is usable: no socket of an address that failed; and an *)
(* exception means that no address was left to try.                        *)
(***************************************************************************)
Usable ==
  /\ pc = "returned" => result # {} /\ result \cap failed = {}
  /\ pc = "threw" => error = -1 \/ failed = 1 .. found
=============================================================================
