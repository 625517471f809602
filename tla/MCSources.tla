----------------------------- MODULE MCSources -----------------------------
(***************************************************************************)
(* The sources of events, the timers, and the reads and writes of a        *)
(* descriptor, each from its own beginning.  `on` says which of them the   *)
(* run is about; the others stay as they begin.                            *)
(***************************************************************************)
EXTENDS Sources

VARIABLES
  on,
  es, last,
  call, caller, iovcopy, iov, iovcnt, mh, n, io_pc, moved, controls, stopped, io_result, waits

\* Orders that wrap around, and culls with one element left to fill.
Heap == INSTANCE TimerHeap WITH
  Time <- {1, 2}, Arity <- 4, Width <- 16, CullSize <- 8, MaxSize <- 9, First <- 12, Insertions <- 10
\* Empty parts first, in between and last, and an empty message.
Io == INSTANCE IoLoops WITH
  pc <- io_pc, result <- io_result, MaxWaits <- 2,
  Lengths <- {<<3>>, <<0>>, <<1, 2>>, <<2, 0, 2>>, <<2, 3, 1>>, <<1, 2, 0>>}

fdVars == <<os, body, held, copies, op, phase, rec, watch, kern, batch, closes, late>>
curlVars == <<fetch, inside, current, fds, watches, curl, expiry, next, want, opened, asked>>
heapVars == <<es, last>>
ioVars == <<call, caller, iovcopy, iov, iovcnt, mh, n, io_pc, moved, controls, stopped, io_result, waits>>
dialVars == <<dial_op, dial_pc, thread, res, found, ai, open, f, result, failed, error, freed>>

MCInit ==
  /\ Init /\ Fd!Init /\ Curl!Init /\ Heap!Init /\ Io!Init /\ Dialing!Init
  /\ on \in {"fd", "curl", "heap", "io", "link", "dial"}
  /\ on # "io" => call = CHOOSE c \in Io!Call : TRUE
  /\ on # "dial" => dial_op.kind = "connect"
  /\ on # "link" => destination = CHOOSE p \in Port : TRUE

MCNext ==
  \/ on = "fd" /\ Fd!Next /\ UNCHANGED <<on, vars, curlVars, heapVars, ioVars, dialVars>>
  \/ on = "curl" /\ Curl!Next /\ UNCHANGED <<on, vars, fdVars, heapVars, ioVars, dialVars>>
  \/ on = "heap" /\ Heap!Next /\ UNCHANGED <<on, vars, fdVars, curlVars, ioVars, dialVars>>
  \/ on = "io" /\ Io!Next /\ UNCHANGED <<on, vars, fdVars, curlVars, heapVars, dialVars>>
  \/ on = "link" /\ Next /\ UNCHANGED <<on, fdVars, curlVars, heapVars, ioVars, dialVars>>
  \/ on = "dial" /\ Dialing!Next /\ UNCHANGED <<on, vars, fdVars, curlVars, heapVars, ioVars>>
MCSpec == MCInit /\ [][MCNext]_<<on, vars, fdVars, curlVars, heapVars, ioVars, dialVars>>

\* The heap is a queue by time and insertion.
ImplementsQueue == Heap!ImplementsQueue
\* Bytes move once and in order, and the caller is told how many.
Transferred == Io!InOrder /\ Io!Reported
=============================================================================
