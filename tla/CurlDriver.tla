---------------------------- MODULE CurlDriver ----------------------------
(***************************************************************************)
(* The driver of libcurl's multi interface (curl.cc): sockets that libcurl *)
(* opens, watches and closes through callbacks, which it calls from within *)
(* the driver's own calls of libcurl; one coroutine for each watched       *)
(* socket and one for the timer; and the coroutines of curl_fetch.         *)
(*                                                                         *)
(* libcurl is external: within any call it makes any callbacks that its    *)
(* contract allows, for the sockets it has.  Everything runs in one        *)
(* thread, and a triggered event resumes its coroutine only later.  A      *)
(* descriptor's number is free again when the last cotamer::fd is gone.    *)
(***************************************************************************)
EXTENDS Integers, FiniteSets

CONSTANTS Socket,     \* the numbers that the kernel gives to sockets
          Easy,       \* easy handles, one for each curl_fetch
          MaxFiles,   \* bound: sockets opened
          MaxTimers   \* bound: timeouts asked for

VARIABLES
  fetch,    \* fetch[e]: "idle", "running", "complete" in libcurl, or "done"
  inside,   \* who is in a call of libcurl: "watch", "timer", "user" or "nobody"
  current,  \* current_socket_, NoSocket being CURL_SOCKET_BAD
  fds,      \* fds_: the file of each socket that libcurl has, else NoFile
  watches,  \* watches_: the state of each watched socket and its task, else NoWatch
  curl,     \* libcurl: the file and the mask it last asked for each socket
  expiry,   \* expiry_: the timeout it is for and how it stands
  next,     \* next_timeout_
  want,     \* libcurl: the timeout it waits for
  opened, asked  \* how many files and timeouts there have been

socketVars == <<fds, watches, curl, opened>>
timerVars == <<expiry, next, want, asked>>
vars == <<fetch, inside, current, socketVars, timerVars>>

NoFile == 0
NoSocket == 0
NoTimeout == 0
Mask == {"in", "out"}
NoWatch == [mask |-> "none", file |-> NoFile, awaits |-> "none", ev |-> "none"]
Unknown == [file |-> NoFile, mask |-> "none"]
Never == [for |-> NoTimeout, state |-> "waiting"]

Init ==
  /\ fetch = [e \in Easy |-> "idle"]
  /\ inside = "nobody" /\ current = NoSocket
  /\ fds = [s \in Socket |-> NoFile] /\ watches = [s \in Socket |-> NoWatch]
  /\ curl = [s \in Socket |-> Unknown]
  /\ expiry = Never /\ next = NoTimeout /\ want = NoTimeout
  /\ opened = 0 /\ asked = 0

Calling == inside # "nobody"
Watched(s) == watches[s] # NoWatch

-----------------------------------------------------------------------------
\* Wrong: erasing it from fds_ closes a socket whatever its task holds.
WrongFree(s) == fds[s] = NoFile
\* No fd refers to a socket of this number.
Free(s) == fds[s] = NoFile /\ ~Watched(s)

\* opensocket_cb: the kernel gives the least number that is free.
OpenSocket(s) ==
  /\ Calling /\ opened < MaxFiles
  /\ Free(s) /\ \A t \in Socket : Free(t) => s <= t
  /\ opened' = opened + 1
  /\ fds' = [fds EXCEPT ![s] = opened']
  /\ curl' = [curl EXCEPT ![s].file = opened']
  /\ UNCHANGED <<fetch, inside, current, watches, timerVars>>

\* closesocket_cb, always after POLL_REMOVE.
CloseSocket(s) ==
  /\ Calling /\ curl[s].file # NoFile /\ curl[s].mask = "none"
  /\ fds' = [fds EXCEPT ![s] = NoFile]
  /\ curl' = [curl EXCEPT ![s] = Unknown]
  /\ UNCHANGED <<fetch, inside, current, watches, opened, timerVars>>

\* Wrong: the task that is on the stack is destroyed as well.
WrongErases(s, mask) == mask = "none"
\* POLL_REMOVE ("none") of a socket whose task is not on the stack.
Erases(s, mask) == mask = "none" /\ s # current

\* watch_task installs a file_event for the mask.
Installed(w) == [w EXCEPT !.awaits = w.mask, !.ev = "waiting"]

\* Wrong: the task is not poked.
WrongPoked(w) == w
\* ev.trigger(), without user flags, unless it is triggered.
Poked(w) == [w EXCEPT !.ev = IF @ = "waiting" THEN "poked" ELSE @]

\* socket_cb.
SocketCallback(s, mask) ==
  /\ Calling /\ curl[s].file # NoFile /\ curl[s].mask # mask
  /\ curl' = [curl EXCEPT ![s].mask = mask]
  /\ watches' = [watches EXCEPT ![s] =
       IF Erases(s, mask) THEN NoWatch
       ELSE IF Watched(s) THEN Poked([@ EXCEPT !.mask = mask])
       ELSE IF mask # "none" /\ fds[s] # NoFile
       THEN Installed([@ EXCEPT !.mask = mask, !.file = fds[s]])
       ELSE @]
  /\ UNCHANGED <<fetch, inside, current, fds, opened, timerVars>>

\* Wrong: a timeout that comes when expiry_ has triggered is forgotten.
WrongNextTimeout(t) == IF expiry.state = "waiting" THEN t ELSE next
NextTimeout(t) == t

\* timer_cb: a new timeout, or none any more.
TimerCallback ==
  /\ Calling
  /\ \E t \in {NoTimeout, asked + 1} :
       /\ t <= MaxTimers /\ t # want
       /\ want' = t /\ asked' = IF t = NoTimeout THEN asked ELSE t
       /\ next' = NextTimeout(t)
       /\ expiry' = [expiry EXCEPT !.state = IF @ = "waiting" THEN "poked" ELSE @]
  /\ UNCHANGED <<fetch, inside, current, socketVars>>

\* A transfer ends, in curl_multi_socket_action only.
Complete(e) ==
  /\ inside \in {"watch", "timer"} /\ fetch[e] = "running"
  /\ fetch' = [fetch EXCEPT ![e] = "complete"]
  /\ UNCHANGED <<inside, current, socketVars, timerVars>>

-----------------------------------------------------------------------------
\* curl_fetch adds its handle.
Fetch(e) ==
  /\ ~Calling /\ fetch[e] = "idle"
  /\ fetch' = [fetch EXCEPT ![e] = "running"] /\ inside' = "user"
  /\ UNCHANGED <<current, socketVars, timerVars>>

\* curl_fetch resumes, or is destroyed while it waits: easy_guard removes the handle.
EndFetch(e) ==
  /\ ~Calling /\ fetch[e] \in {"running", "done"}
  /\ fetch' = [fetch EXCEPT ![e] = "idle"] /\ inside' = "user"
  /\ UNCHANGED <<current, socketVars, timerVars>>

UserReturn ==
  /\ inside = "user" /\ inside' = "nobody"
  /\ UNCHANGED <<fetch, current, socketVars, timerVars>>

\* curl_reset between fetches.  curl_multi_cleanup removes and closes all sockets.
Reset ==
  /\ ~Calling /\ \A e \in Easy : fetch[e] = "idle"
  /\ fds' = [s \in Socket |-> NoFile] /\ watches' = [s \in Socket |-> NoWatch]
  /\ curl' = [s \in Socket |-> Unknown]
  /\ expiry' = Never /\ next' = NoTimeout /\ want' = NoTimeout
  /\ UNCHANGED <<fetch, inside, current, opened, asked>>

\* process_multi wakes the fetches whose transfers are complete.
ProcessMulti == fetch' = [e \in Easy |-> IF fetch[e] = "complete" THEN "done" ELSE fetch[e]]

-----------------------------------------------------------------------------
\* The kernel reports a watched socket.
Ready(s) ==
  /\ ~Calling /\ watches[s].ev = "waiting"
  /\ watches' = [watches EXCEPT ![s].ev = "ready"]
  /\ UNCHANGED <<fetch, inside, current, fds, curl, opened, timerVars>>

\* watch_task's loop: wait again, or leave and erase itself.
Loop(w) == IF w.mask = "none" THEN NoWatch ELSE Installed(w)

\* watch_task resumes after a change of its mask.
Rewatch(s) ==
  /\ ~Calling /\ watches[s].ev = "poked"
  /\ watches' = [watches EXCEPT ![s] = Loop(@)]
  /\ UNCHANGED <<fetch, inside, current, fds, curl, opened, timerVars>>

\* watch_task resumes because its socket is ready.
SocketAction(s) ==
  /\ ~Calling /\ watches[s].ev = "ready"
  /\ current' = s /\ inside' = "watch"
  /\ UNCHANGED <<fetch, socketVars, timerVars>>

SocketReturn(s) ==
  /\ inside = "watch" /\ current = s
  /\ current' = NoSocket /\ inside' = "nobody"
  /\ ProcessMulti
  /\ watches' = [watches EXCEPT ![s] = Loop(@)]
  /\ UNCHANGED <<fds, curl, opened, timerVars>>

\* Time passes.
Expire ==
  /\ ~Calling /\ expiry.state = "waiting" /\ expiry.for # NoTimeout
  /\ expiry' = [expiry EXCEPT !.state = "fired"]
  /\ UNCHANGED <<fetch, inside, current, socketVars, next, want, asked>>

\* timer_task's loop arms the timer for the next timeout.
Arm == expiry' = [for |-> next, state |-> "waiting"] /\ next' = NoTimeout

\* timer_task resumes after timer_cb.
Rearm ==
  /\ ~Calling /\ expiry.state = "poked"
  /\ Arm
  /\ UNCHANGED <<fetch, inside, current, socketVars, want, asked>>

\* timer_task resumes because the time has come.  libcurl no longer waits for it.
TimerAction ==
  /\ ~Calling /\ expiry.state = "fired"
  /\ inside' = "timer"
  /\ want' = IF want = expiry.for THEN NoTimeout ELSE want
  /\ UNCHANGED <<fetch, current, socketVars, expiry, next, asked>>

TimerReturn ==
  /\ inside = "timer" /\ inside' = "nobody"
  /\ ProcessMulti /\ Arm
  /\ UNCHANGED <<current, socketVars, want, asked>>

Callback ==
  \/ TimerCallback
  \/ \E e \in Easy : Complete(e)
  \/ \E s \in Socket : OpenSocket(s) \/ CloseSocket(s)
                       \/ \E mask \in Mask \cup {"none"} : SocketCallback(s, mask)
User == UserReturn \/ Reset \/ \E e \in Easy : Fetch(e) \/ EndFetch(e)
Task == Rearm \/ TimerAction \/ TimerReturn
        \/ \E s \in Socket : Rewatch(s) \/ SocketAction(s) \/ SocketReturn(s)
Kernel == Expire \/ \E s \in Socket : Ready(s)

Next == Callback \/ User \/ Task \/ Kernel
Spec == Init /\ [][Next]_vars
-----------------------------------------------------------------------------
\* A socket is watched if and only if libcurl asked for it, as the file that libcurl
\* means, and for what it last asked for, or else its task is about to look; however the
\* callbacks come within calls from the socket's own task, and numbers are used again.
Attended ==
  ~Calling => \A s \in Socket :
    LET w == watches[s] IN
    /\ w.mask = curl[s].mask
    /\ Watched(s) => w.file = curl[s].file /\ (w.ev = "waiting" => w.awaits = w.mask)

\* A task that is on the stack has not been destroyed: "avoid destroying the coroutine on
\* its own stack" (current_socket_).
TaskAlive == \A s \in Socket : inside = "watch" /\ current = s => Watched(s)

\* libcurl's timer is the one it asked for last, armed or about to be; no timeout that it
\* gave up is armed.
TimerKept ==
  ~Calling =>
    \/ expiry.state = "waiting" /\ expiry.for = want
    \/ expiry.state = "fired" /\ (next = want \/ (expiry.for = want /\ next = NoTimeout))
    \/ expiry.state = "poked" /\ next = want
=============================================================================
