------------------------------ MODULE IoLoops ------------------------------
(***************************************************************************)
(* The coroutines of io.hh and io.cc that move a message through a         *)
(* descriptor: read, write and their _once forms, and writev, sendmsg and  *)
(* recvmsg, on which send, recv and the rest are built.  Each calls the    *)
(* kernel until enough has moved, suspending while it is not ready.        *)
(*                                                                         *)
(* The message's bytes are numbered 1 .. Total in the order of the         *)
(* caller's vector.  The kernel moves any part of what it is given.        *)
(***************************************************************************)
EXTENDS Integers, SequencesExt

CONSTANTS Lengths,  \* the vectors to try: sequences of iov_len
          MaxWaits  \* bound: how often a call is told to wait

VARIABLES
  call,      \* the operation and whether it is to move all
  caller,    \* the vector of the caller: records of iov_base and iov_len
  iovcopy,   \* iovcopy
  iov,       \* which vector iov is in, and the index it is at
  iovcnt,    \* iovcnt, or msg_iovlen
  mh,        \* "caller" or "mhx": the header given to the kernel
  n,         \* nr, or nw
  pc,        \* "kernel", "wait" or "done"
  moved,     \* history: the bytes the kernel moved
  controls,  \* history: successful calls that passed name and control data
  stopped,   \* history: the kernel's last answer ended the call early
  result,    \* the bytes it returns, or Error
  waits

vars == <<call, caller, iovcopy, iov, iovcnt, mh, n, pc, moved, controls, stopped, result, waits>>

Error == -1

Sum(lens) == FoldSeq(+, 0, lens)
Vector(lens) == [i \in DOMAIN lens |->
                   [base |-> Sum(SubSeq(lens, 1, i - 1)), len |-> lens[i]]]
LenOf(v) == Sum([i \in DOMAIN v |-> v[i].len])
Bytes(v) == FlattenSeq([i \in DOMAIN v |-> [k \in 1 .. v[i].len |-> v[i].base + k]])

Array == IF iov.in = "copy" THEN iovcopy ELSE caller
View == SubSeq(Array, iov.at, iov.at + iovcnt - 1)

\* read and write have one buffer; send and recv make a vector of it.
Call == {c \in [op : {"plain", "writev", "message"}, all : BOOLEAN, lens : Lengths] :
           /\ c.op = "plain" => Len(c.lens) = 1
           /\ c.op = "writev" => c.all}

Init ==
  /\ call \in Call /\ caller = Vector(call.lens)
  /\ iovcopy = <<>> /\ iov = [in |-> "caller", at |-> 1] /\ iovcnt = Len(caller)
  /\ mh = "caller" /\ n = 0 /\ pc = "kernel"
  /\ moved = <<>> /\ controls = 0 /\ stopped = FALSE /\ result = 0 /\ waits = 0

Total == LenOf(Vector(call.lens))

\* What the kernel is asked to move: p + nr for read and write, else the view.
Offered == IF call.op = "plain" THEN [k \in 1 .. Total - n |-> n + k] ELSE Bytes(View)

\* The entries that r bytes use up: the loop of update_iovec and msghdr_done.
Used(v, r) == Max({k \in 0 .. Len(v) : LenOf(SubSeq(v, 1, k)) <= r})

\* Wrong: the rest of an entry keeps its base.
WrongAdvance(e, r) == [e EXCEPT !.len = @ - r]
Advance(e, r) == [base |-> e.base + r, len |-> e.len - r]

\* Wrong: the entry is changed where it is, in the caller's vector.
WrongCopies == FALSE
\* The caller's entries are not written: the first time, what is left is copied.
Copies == iovcopy = <<>>

\* update_iovec: iov and iovcnt after r bytes.
UpdateIovec(r) ==
  LET k == Used(View, r)
      rest == r - LenOf(SubSeq(View, 1, k))
      left == SubSeq(View, k + 1, iovcnt)
  IN  /\ iovcnt' = iovcnt - k
      /\ IF rest = 0 THEN iov' = [iov EXCEPT !.at = @ + k] /\ UNCHANGED <<caller, iovcopy>>
         ELSE IF Copies
         THEN /\ iovcopy' = [left EXCEPT ![1] = Advance(@, rest)]
              /\ iov' = [in |-> "copy", at |-> 1]
              /\ UNCHANGED caller
         ELSE LET entries == [Array EXCEPT ![iov.at + k] = Advance(@, rest)]
              IN  /\ iov' = [iov EXCEPT !.at = @ + k]
                  /\ iovcopy' = IF iov.in = "copy" THEN entries ELSE iovcopy
                  /\ caller' = IF iov.in = "copy" THEN caller ELSE entries

Return(value) == pc' = "done" /\ result' = value

\* Wrong: the header with the name and the control data is used again.
WrongHeader == mh
\* The header of the calls that follow a success has a vector only.
Header == "mhx"

\* After r bytes the loops of read and write, of writev, and of sendmsg and recvmsg end.
PlainEnds(r) == ~call.all \/ n + r = Total
WritevEnds(r) == Used(View, r) = iovcnt
MessageEnds(r) == ~call.all \/ Used(View, r) = iovcnt
Enough(r) ==
  r = 0 \/ CASE call.op = "plain" -> PlainEnds(r)
             [] call.op = "writev" -> WritevEnds(r)
             [] call.op = "message" -> MessageEnds(r)

\* The kernel moves r bytes, or answers 0: the end of the stream, or r = 0.
Moves(r) ==
  /\ pc = "kernel"
  /\ moved' = moved \o SubSeq(Offered, 1, r)
  /\ n' = n + r
  /\ controls' = controls + (IF call.op = "message" /\ mh = "caller" THEN 1 ELSE 0)
  /\ stopped' = (r = 0)
  /\ IF Enough(r)
     THEN Return(n') /\ UNCHANGED <<caller, iovcopy, iov, iovcnt, mh>>
     ELSE /\ mh' = IF call.op = "message" THEN Header ELSE mh
          /\ IF call.op = "plain" THEN UNCHANGED <<caller, iovcopy, iov, iovcnt>>
             ELSE UpdateIovec(r)
          /\ UNCHANGED <<pc, result>>
  /\ UNCHANGED <<call, waits>>

\* EAGAIN or EINTR: wait for the descriptor.
Again ==
  /\ pc = "kernel" /\ waits < MaxWaits
  /\ pc' = "wait" /\ waits' = waits + 1
  /\ UNCHANGED <<call, caller, iovcopy, iov, iovcnt, mh, n, moved, controls, stopped, result>>

\* The descriptor is ready, or closed: try again.
Ready ==
  /\ pc = "wait" /\ pc' = "kernel"
  /\ UNCHANGED <<call, caller, iovcopy, iov, iovcnt, mh, n, moved, controls, stopped, result, waits>>

\* Wrong: the error is returned though bytes have moved.
WrongFailure == Error
\* What a call returns when the kernel fails.
Failure == IF n > 0 THEN n ELSE Error

Fails ==
  /\ pc = "kernel"
  /\ Return(Failure) /\ stopped' = TRUE
  /\ UNCHANGED <<call, caller, iovcopy, iov, iovcnt, mh, n, moved, controls, waits>>

Next ==
  \/ \E r \in 0 .. Len(Offered) : Moves(r)
  \/ Again \/ Ready \/ Fails
Spec == Init /\ [][Next]_vars

-----------------------------------------------------------------------------
(***************************************************************************)
(* The bytes that moved are a prefix of the message, each once and in      *)
(* order, and the kernel is always asked for all of the rest, whatever     *)
(* entries the parts ended in; and the caller's vector, which is const to  *)
(* writev and sendmsg, is never written, though both cast that away.       *)
(***************************************************************************)
InOrder ==
  /\ moved = [k \in 1 .. Len(moved) |-> k]
  /\ pc # "done" => Offered = [k \in 1 .. Total - Len(moved) |-> Len(moved) + k]
  /\ caller = Vector(call.lens)

(***************************************************************************)
(* What a call returns is what moved, and an error only if nothing did; it *)
(* returns with less than it was to move only if the kernel said so, and   *)
(* passes the message's name and control data to the kernel at most once   *)
(* successfully.                                                           *)
(***************************************************************************)
Reported ==
  /\ pc = "done" => /\ result = Len(moved) \/ (result = Error /\ moved = <<>>)
                    /\ call.all /\ ~stopped => result = Total
  /\ controls <= 1
=============================================================================
