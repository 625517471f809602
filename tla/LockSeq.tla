------------------------------ MODULE LockSeq ------------------------------
(***************************************************************************)
(* The lock-sequence clients of pset3/lockseq_model.cc, one group of keys, *)
(* over a single Pancy server (pset3/pt-single.cc) and lossy channels      *)
(* (pset3/netsim.hh).  A client locks the group with cas, puts a sequence  *)
(* of values, removes what is left of a longer previous sequence, and      *)
(* unlocks with a remove that names the version of its lock.  A request is *)
(* sent again, under the same serial, when its response does not come in   *)
(* time; nothing withdraws the earlier copies.                             *)
(*                                                                         *)
(* Groups share no key, so one stands for all.  Time is abstracted away: a *)
(* timeout may come at any moment, also when the answer is on its way.     *)
(* MaxSequences, MaxLosses and MaxEarly bound the model, not the code.     *)
(***************************************************************************)
EXTENDS Integers, Sequences, SequencesExt

CONSTANTS Client,
          MaxLength,     \* max_sequence_length_
          MaxSequences,  \* bound: sequences the clients write
          MaxLosses,     \* bound: messages the channels drop
          MaxEarly,      \* bound: timeouts while the answer may still come
          Empty          \* the empty string

ASSUME LockSeqAssumption == /\ Client # {}
                            /\ {MaxLength, MaxSequences} \subseteq Nat \ {0}
                            /\ {MaxLosses, MaxEarly} \subseteq Nat

\* make_lock_key and make_value_key
Index == 0 .. (MaxLength - 1)
LockKey == -1
\* The value of a client's s-th sequence: its id and a random string.
Value == Client \X (1 .. MaxSequences)
ASSUME EmptyIsNoValue == Empty \notin Value

DB == INSTANCE PancyDB WITH Key <- Index \cup {LockKey}, MaxRemoves <- 0

VARIABLES
  pc,        \* pc[c]: the phase, "idle" between sequences, "threw" for ever
  asking,    \* asking[c]: in attempt(receive_response(..), after(..))
  retried,   \* retried[c]: tries > 0
  serial,    \* serial[c]
  sequence,  \* sequence[c]: how many sequences c has begun
  nvalues, n, lockVersion,   \* the locals of client()
  inbox,     \* requests sent and not yet processed, in order
  answers,   \* answers[c]: responses to c's serial, in order
  db,        \* db_ of the server
  begun, losses, early  \* counters for the bounds: sequences, lost messages, timeouts

clientVars == <<pc, asking, retried, serial, sequence, nvalues, n, lockVersion>>
vars == <<clientVars, inbox, answers, db, begun, losses, early>>

MyValue(c) == <<c, sequence[c]>>

\* The request of the phase a client is in.
Ask(type, key, c, expected, match) ==
  [type |-> type, key |-> key, value |-> MyValue(c), expected |-> expected,
   match |-> match, client |-> c, serial |-> serial[c]]

\* Definitions named Wrong... are mistakes the code could have made; nothing
\* uses them.  Each shows that some property below notices the mistake.
WrongUnlockMatchAny(c) == DB!AnyVersion
UnlockMatch(c) == lockVersion[c]

RequestOf(c) ==
  CASE pc[c] = "lock"   -> Ask("cas", LockKey, c, Empty, DB!AnyVersion)
    [] pc[c] = "write"  -> Ask("put", n[c], c, Empty, DB!AnyVersion)
    [] pc[c] = "clear"  -> Ask("remove", n[c], c, Empty, DB!AnyVersion)
    [] pc[c] = "unlock" -> Ask("remove", LockKey, c, Empty, UnlockMatch(c))

Phase == {"lock", "write", "clear", "unlock"}

-----------------------------------------------------------------------------
Init ==
  /\ pc = [c \in Client |-> "idle"]
  /\ asking = [c \in Client |-> FALSE] /\ retried = [c \in Client |-> FALSE]
  /\ serial = [c \in Client |-> 0] /\ sequence = [c \in Client |-> 0]
  /\ nvalues = [c \in Client |-> 0] /\ n = [c \in Client |-> 0]
  /\ lockVersion = [c \in Client |-> 0]
  /\ inbox = <<>> /\ answers = [c \in Client |-> <<>>]
  /\ db = DB!NewDB
  /\ begun = 0 /\ losses = 0 /\ early = 0

\* Pick a value and a length for the next sequence.
Begin(c, k) ==
  /\ pc[c] = "idle" /\ begun < MaxSequences /\ begun' = begun + 1
  /\ pc' = [pc EXCEPT ![c] = "lock"]
  /\ sequence' = [sequence EXCEPT ![c] = @ + 1]
  /\ nvalues' = [nvalues EXCEPT ![c] = k]
  /\ n' = [n EXCEPT ![c] = 0]
  /\ lockVersion' = [lockVersion EXCEPT ![c] = 0]
  /\ serial' = [serial EXCEPT ![c] = @ + 1]
  /\ retried' = [retried EXCEPT ![c] = FALSE]
  /\ UNCHANGED <<asking, inbox, answers, db, losses, early>>

\* channel::send drops the message with probability loss_.
Lose == losses < MaxLosses /\ losses' = losses + 1
Keep == losses' = losses

\* send_request, then wait for the response.
Send(c) ==
  /\ pc[c] \in Phase /\ ~asking[c]
  /\ asking' = [asking EXCEPT ![c] = TRUE]
  /\ \/ Keep /\ inbox' = Append(inbox, RequestOf(c))
     \/ Lose /\ UNCHANGED inbox
  /\ UNCHANGED <<pc, retried, serial, sequence, nvalues, n, lockVersion,
                 answers, db, begun, early>>

\* An answer to c's request is on its way, or will be.
Pending(c) == \/ answers[c] # <<>>
              \/ \E r \in ToSet(inbox) : r.client = c /\ r.serial = serial[c]

\* attempt returns nullopt: the timer went off; try again.
Timeout(c) ==
  /\ asking[c]
  /\ IF Pending(c) THEN early < MaxEarly /\ early' = early + 1 ELSE UNCHANGED early
  /\ asking' = [asking EXCEPT ![c] = FALSE]
  /\ retried' = [retried EXCEPT ![c] = TRUE]
  /\ UNCHANGED <<pc, serial, sequence, nvalues, n, lockVersion, inbox, answers,
                 db, begun, losses>>

\* pt_single_instance::run: apply the next request and respond.  A response
\* to a serial its client has moved past is never used: receive_response
\* erases it.
WrongLast(q) == Len(q)
First(q) == 1

Serve ==
  /\ inbox # <<>>
  /\ LET r == inbox[First(inbox)]
         c == r.client
     IN  /\ db' = DB!After(db, r)
         /\ inbox' = RemoveAt(inbox, First(inbox))
         /\ \/ /\ Keep
               /\ answers' = IF r.serial = serial[c] /\ pc[c] \in Phase
                             THEN [answers EXCEPT ![c] = Append(@, DB!Response(db, r))]
                             ELSE answers
            \/ Lose /\ UNCHANGED answers
  /\ UNCHANGED <<clientVars, begun, early>>

-----------------------------------------------------------------------------
\* The client goes on to phase p with the counter at m.  A new request gets
\* a new serial, which no answer received so far bears.
GoOn(c, p, m) ==
  /\ pc' = [pc EXCEPT ![c] = p]
  /\ n' = [n EXCEPT ![c] = m]
  /\ serial' = IF p = "idle" THEN serial ELSE [serial EXCEPT ![c] = @ + 1]
  /\ retried' = [retried EXCEPT ![c] = FALSE]
  /\ asking' = [asking EXCEPT ![c] = FALSE]
  /\ answers' = [answers EXCEPT ![c] = <<>>]

\* The exception ends the client's coroutine.
Throw(c) ==
  /\ pc' = [pc EXCEPT ![c] = "threw"]
  /\ asking' = [asking EXCEPT ![c] = FALSE]
  /\ answers' = [answers EXCEPT ![c] = <<>>]
  /\ UNCHANGED <<n, serial, retried, lockVersion>>

\* The response is an earlier attempt's success, whose reply was lost.
WrongMineAlready(c, a) == FALSE
MineAlready(c, a) == a.actual = MyValue(c) /\ retried[c]

\* The lock's value starts with c's own key.
WaitingForSelf(c, a) == a.actual # Empty /\ a.actual[1] = c

\* Phase 1.  A cas that finds another client's value throws; only one that
\* finds a value of this very client waits and tries again.
LockAnswer(c, a) ==
  IF a.errcode = "ok" \/ MineAlready(c, a)
  THEN GoOn(c, "write", 0) /\ lockVersion' = [lockVersion EXCEPT ![c] = a.version]
  ELSE IF ~WaitingForSelf(c, a) THEN Throw(c)
  ELSE /\ asking' = [asking EXCEPT ![c] = FALSE]
       /\ retried' = [retried EXCEPT ![c] = TRUE]
       /\ answers' = [answers EXCEPT ![c] = Tail(@)]
       /\ UNCHANGED <<pc, serial, n, lockVersion>>

\* The loop of Phase 3 goes on behind key n.
WrongMoreToClear(c) == n[c] < MaxLength
MoreToClear(c) == n[c] + 1 < MaxLength

\* Phase 2.
WriteAnswer(c, a) ==
  IF a.errcode # "ok" THEN Throw(c)
  ELSE /\ GoOn(c, IF n[c] + 1 < nvalues[c] THEN "write"
                  ELSE IF MoreToClear(c) THEN "clear" ELSE "unlock", n[c] + 1)
       /\ UNCHANGED lockVersion

\* Phase 3 stops at the first key that was never there.
WrongStopsAtAbsent(c) == TRUE
StopsAtAbsent(c) == ~retried[c]

ClearAnswer(c, a) ==
  IF a.errcode \notin {"ok", "not_found"} THEN Throw(c)
  ELSE /\ IF a.errcode = "not_found" /\ StopsAtAbsent(c)
          THEN GoOn(c, "unlock", n[c])
          ELSE GoOn(c, IF MoreToClear(c) THEN "clear" ELSE "unlock", n[c] + 1)
       /\ UNCHANGED lockVersion

\* Phase 4.  Any response is a success, except to the first request.
WrongUnlockFails(c, a) == a.errcode # "ok"
UnlockFails(c, a) == a.errcode # "ok" /\ ~retried[c]

UnlockAnswer(c, a) ==
  IF UnlockFails(c, a) THEN Throw(c)
  ELSE GoOn(c, "idle", 0) /\ UNCHANGED lockVersion

\* receive_response returns the first response that bears the serial.
Answer(c) ==
  /\ asking[c] /\ answers[c] # <<>>
  /\ LET a == Head(answers[c])
     IN  \/ pc[c] = "lock" /\ LockAnswer(c, a)
         \/ pc[c] = "write" /\ WriteAnswer(c, a)
         \/ pc[c] = "clear" /\ ClearAnswer(c, a)
         \/ pc[c] = "unlock" /\ UnlockAnswer(c, a)
  /\ UNCHANGED <<sequence, nvalues, inbox, db, begun, losses, early>>

ClientStep(c) == Send(c) \/ Timeout(c) \/ Answer(c)

Next == \/ \E c \in Client : ClientStep(c) \/ \E k \in 1 .. MaxLength : Begin(c, k)
        \/ Serve

\* A client that waits goes on when its answer or its timer comes, and the
\* server processes what it receives.
Fairness == WF_vars(Serve) /\ \A c \in Client : WF_vars(ClientStep(c))

Spec == Init /\ [][Next]_vars
FairSpec == Spec /\ Fairness
-----------------------------------------------------------------------------
Sent == [type : {"cas", "put", "remove"}, key : Index \cup {LockKey}, value : Value,
         expected : {Empty}, match : Nat \cup {DB!AnyVersion}, client : Client, serial : Nat]
Answered == [errcode : {"ok", "no_match", "not_found"}, actual : Value \cup {Empty}, version : Nat]

TypeOK ==
  /\ pc \in [Client -> Phase \cup {"idle", "threw"}]
  /\ asking \in [Client -> BOOLEAN] /\ retried \in [Client -> BOOLEAN]
  /\ serial \in [Client -> Nat] /\ sequence \in [Client -> 0 .. begun]
  /\ nvalues \in [Client -> 0 .. MaxLength] /\ n \in [Client -> 0 .. MaxLength]
  /\ lockVersion \in [Client -> Nat]
  /\ \A c \in Client :
       /\ pc[c] \in {"write", "clear"} => n[c] \in Index
       /\ pc[c] # "idle" => sequence[c] > 0 /\ nvalues[c] > 0
  /\ inbox \in Seq(Sent) /\ answers \in [Client -> Seq(Answered)]
  /\ db \in [next : Nat \ {0}, map : [Index \cup {LockKey} -> DB!VV], removes : {<<>>}]
  /\ begun \in 0 .. MaxSequences /\ losses \in 0 .. MaxLosses /\ early \in 0 .. MaxEarly

\* A client that writes or clears, or has yet to ask for the unlock, holds
\* the lock under the version it will unlock, whatever copies of earlier
\* requests are still on their way: two clients never work on the group at
\* once.
HoldsLock ==
  \A c \in Client :
    \/ pc[c] \in {"write", "clear"}
    \/ pc[c] = "unlock" /\ ~asking[c] /\ ~retried[c]
    => db.map[LockKey] = [value |-> MyValue(c), version |-> lockVersion[c]]

\* No copy of a put or remove outlives its client's lock: all those still on
\* their way come from the lock's present holder and sequence.
NoLateWrites ==
  \A i \in DOMAIN inbox :
    inbox[i].key # LockKey => db.map[LockKey].value = inbox[i].value

\* lockseq_model::check accepts the database of the group at every moment:
\* values of one sequence without a gap; under a lock, first those of the
\* holder and behind a gap the rest of the previous sequence.
Written == {i \in Index : DB!Present(db, i)}
Run(first, last, v) == \A i \in first .. last : i \in Written /\ db.map[i].value = v
AcceptedByCheck ==
  LET lock == db.map[LockKey].value
  IN  \E a, b, e \in 0 .. MaxLength :
        /\ a <= b /\ b <= e /\ Written = (0 .. (a - 1)) \cup (b .. (e - 1))
        /\ lock = Empty => a = 0 /\ b = 0
        /\ Run(0, a - 1, lock)
        /\ \E v \in Value : Run(b, e - 1, v)

\* The errors that Phases 2, 3 and 4 throw never occur: a client gives up
\* only while it tries to lock.
ThrowsOnlyInPhase1 ==
  [][\A c \in Client : pc'[c] = "threw" => pc[c] \in {"lock", "threw"}]_vars

\* A client has the lock while it writes, nothing it sent is written after it gave the
\* lock back, and only locking fails.
LockRespected == [](HoldsLock /\ NoLateWrites) /\ ThrowsOnlyInPhase1

\* A client that obtained the lock finishes its sequence, whatever is lost.
SequenceEnds == \A c \in Client : pc[c] = "write" ~> pc[c] = "idle"

\* "Obtain lock with compare-and-swap loop": a client that finds the lock
\* taken keeps trying.
KeepsTrying == \A c \in Client : pc[c] # "threw"
=============================================================================
