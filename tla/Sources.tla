------------------------------ MODULE Sources ------------------------------
(***************************************************************************)
(* What Cotamer's tasks wait for, and what brings it: descriptors and      *)
(* their drivers, libcurl's sockets, the making of connections, and the    *)
(* links of the simulated network; and what each of them promises.         *)
(***************************************************************************)
EXTENDS NetLink, FiniteSets

CONSTANTS
  Thread, MaxBodies, MaxCopies, MaxWatches,  \* of FdWatch
  Socket, Easy, MaxFiles, MaxTimers,         \* of CurlDriver
  MaxAddresses                               \* of Dial

ASSUME ThreadsFinite == IsFiniteSet(Thread)
ASSUME WatchesBounded == MaxWatches \in Nat
\* The kernel gives sockets the numbers of free descriptors; here 0 is CURL_SOCKET_BAD.
ASSUME SocketNumbers == Socket \subseteq Nat \ {0}

VARIABLES
  os, body, held, copies, op, phase, rec, watch, kern, batch, closes, late,
  fetch, inside, current, fds, watches, curl, expiry, next, want, opened, asked,
  dial_op, dial_pc, thread, res, found, ai, open, f, result, failed, error, freed

Fd == INSTANCE FdWatch
Curl == INSTANCE CurlDriver
Dialing == INSTANCE Dial WITH op <- dial_op, pc <- dial_pc

\* Watches of descriptors: events reach the file's own, a driver that waits is registered
\* for all it waits for, close() wakes everybody, and the last to leave deletes the body.
FdServed ==
  Fd!RightFile /\ Fd!Registered /\ Fd!ClosedAtRest /\ Fd!KernelClean /\ Fd!DeletedLast
\* Sockets and the timer are attended to as libcurl last asked, and no task is
\* destroyed under its own feet.
CurlServed == Curl!Attended /\ Curl!TaskAlive /\ Curl!TimerKept
\* Sockets and addresses are released once, and what is returned is usable.
Dialed == Dialing!Released /\ Dialing!Usable
=============================================================================
