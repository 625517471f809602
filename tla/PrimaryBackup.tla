--------------------------- MODULE PrimaryBackup ---------------------------
(***************************************************************************)
(* The primary-backup Pancy service of pset3/pt-backup.cc over the lossy   *)
(* first-in first-out channels of pset3/netsim.hh.  The primary forwards   *)
(* every request under a serial number, again each second and at each      *)
(* stale acknowledgement, until the backup acknowledges that serial; only  *)
(* then does it apply the request and respond.  A backup that has heard    *)
(* nothing for 5 seconds serves clients itself.                            *)
(*                                                                         *)
(* A database is the sequence of requests it has processed: process_req    *)
(* (module PancyDB) is a function of it, so a response is identified by    *)
(* the position at which its request was processed.  The clients are any   *)
(* that send requests, and send them again, to either replica.  Timers may *)
(* fire at any moment; MaxSends, MaxLosses and MaxEarly bound the model.   *)
(***************************************************************************)
EXTENDS Integers, Sequences

CONSTANTS Request,
          MaxSends,   \* bound: messages the clients send
          MaxLosses,  \* bound: messages the channels drop
          MaxEarly    \* bound: retries while an acknowledgement may come

ASSUME PrimaryBackupAssumption == {MaxSends, MaxLosses, MaxEarly} \subseteq Nat

VARIABLES
  c2p, c2b,      \* requests on their way to the primary and to the backup
  p2b,           \* <<serial, request>> pairs on their way to the backup
  b2p,           \* acknowledgements on their way to the primary
  serial,        \* primary: serial
  waiting,       \* primary: in the inner loop, waiting for the backup
  primarydb,     \* primarydb_, as the sequence of requests processed
  expected,      \* backup: expected_serial
  serving,       \* backup: past the timeout, in the second loop
  backupdb,      \* backupdb_, as the sequence of requests processed
  failed,        \* fail_primary_after has silenced the primary
  received,      \* history: the requests the primary took from its port
  responses,     \* history: <<request, position>> of the responses sent
  sends, losses, early   \* counters for the bounds

primaryVars == <<serial, waiting, primarydb, received>>
backupVars == <<expected, serving, backupdb>>
vars == <<c2p, c2b, p2b, b2p, primaryVars, backupVars, failed, responses,
          sends, losses, early>>

Init ==
  /\ c2p = <<>> /\ c2b = <<>> /\ p2b = <<>> /\ b2p = <<>>
  /\ serial = 0 /\ waiting = FALSE /\ primarydb = <<>>
  /\ expected = 0 /\ serving = FALSE /\ backupdb = <<>>
  /\ failed = FALSE
  /\ received = <<>> /\ responses = {}
  /\ sends = 0 /\ losses = 0 /\ early = 0

\* channel::send drops a message with probability loss_.
Lose == losses < MaxLosses /\ losses' = losses + 1
Keep == UNCHANGED losses

\* A failed primary loses all it sends.
PrimaryLoses == IF failed THEN Keep ELSE Lose

ClientSend(r) ==
  /\ sends < MaxSends /\ sends' = sends + 1
  /\ \/ Keep /\ c2p' = Append(c2p, r) /\ UNCHANGED c2b
     \/ Keep /\ c2b' = Append(c2b, r) /\ UNCHANGED c2p
     \/ Lose /\ UNCHANGED <<c2p, c2b>>
  /\ UNCHANGED <<p2b, b2p, primaryVars, backupVars, failed, responses, early>>

Forward(s, r) == \/ ~failed /\ Keep /\ p2b' = Append(p2b, <<s, r>>)
                 \/ PrimaryLoses /\ UNCHANGED p2b

\* Definitions named Wrong... are mistakes the code could have made; nothing
\* uses them.  Each shows that some property below notices the mistake.

\* primary: obtain a request, give it a serial and forward it.
PrimaryReceive ==
  /\ ~waiting /\ c2p # <<>>
  /\ c2p' = Tail(c2p)
  /\ waiting' = TRUE
  /\ serial' = serial + 1
  /\ received' = Append(received, Head(c2p))
  /\ Forward(serial + 1, Head(c2p))
  /\ UNCHANGED <<c2b, b2p, primarydb, backupVars, failed, responses, sends, early>>

WrongNoResend == UNCHANGED <<p2b, losses>>
Resend == Forward(serial, received[serial])

\* The backup acknowledged the request the primary waits for.
WrongConfirms(ack) == TRUE
Confirms(ack) == ack = serial

\* Process the request and respond.
Process ==
  /\ waiting' = FALSE
  /\ primarydb' = Append(primarydb, received[serial])
  /\ \/ /\ ~failed /\ Keep
        /\ responses' = responses \cup {<<received[serial], Len(primarydb) + 1>>}
     \/ PrimaryLoses /\ UNCHANGED responses
  /\ UNCHANGED p2b

\* Each attempt to receive takes one acknowledgement from the port.
WrongUnread == b2p
Unread == Tail(b2p)

PrimaryAck ==
  /\ waiting /\ b2p # <<>>
  /\ b2p' = Unread
  /\ IF Confirms(Head(b2p)) THEN Process
     ELSE Resend /\ UNCHANGED <<waiting, primarydb, responses>>
  /\ UNCHANGED <<c2p, c2b, serial, received, backupVars, failed, sends, early>>

\* attempt returns nullopt after a second.  A copy of the request or an
\* acknowledgement may still be on its way.
PrimaryTimeout ==
  /\ waiting
  /\ IF p2b = <<>> /\ b2p = <<>> THEN UNCHANGED early
                                 ELSE early < MaxEarly /\ early' = early + 1
  /\ Resend
  /\ UNCHANGED <<c2p, c2b, b2p, primaryVars, backupVars, failed, responses, sends>>

\* fail_primary_after: the primary runs on, but nothing it sends arrives.
PrimaryFails ==
  /\ ~failed /\ failed' = TRUE
  /\ UNCHANGED <<c2p, c2b, p2b, b2p, primaryVars, backupVars, responses, sends,
                 losses, early>>

-----------------------------------------------------------------------------
\* The message bears the first serial the backup has not applied.
WrongIsNew(s) == TRUE
IsNew(s) == s = expected + 1

\* backup: apply the request unless it is a copy, and acknowledge.
BackupReceive ==
  /\ ~serving /\ p2b # <<>>
  /\ p2b' = Tail(p2b)
  /\ IF IsNew(Head(p2b)[1])
     THEN expected' = expected + 1 /\ backupdb' = Append(backupdb, Head(p2b)[2])
     ELSE UNCHANGED <<expected, backupdb>>
  /\ \/ Keep /\ b2p' = Append(b2p, expected')
     \/ Lose /\ UNCHANGED b2p
  /\ UNCHANGED <<c2p, c2b, primaryVars, serving, failed, responses, sends, early>>

\* A client is told to turn to the primary.
BackupRedirect ==
  /\ ~serving /\ c2b # <<>>
  /\ c2b' = Tail(c2b)
  /\ UNCHANGED <<c2p, p2b, b2p, primaryVars, backupVars, failed, responses, sends,
                 losses, early>>

BackupTimeout ==
  /\ ~serving /\ serving' = TRUE
  /\ UNCHANGED <<c2p, c2b, p2b, b2p, primaryVars, expected, backupdb, failed,
                 responses, sends, losses, early>>

BackupServe ==
  /\ serving /\ c2b # <<>>
  /\ c2b' = Tail(c2b)
  /\ backupdb' = Append(backupdb, Head(c2b))
  /\ \/ Keep /\ responses' = responses \cup {<<Head(c2b), Len(backupdb) + 1>>}
     \/ Lose /\ UNCHANGED responses
  /\ UNCHANGED <<c2p, p2b, b2p, primaryVars, expected, serving, failed, sends, early>>

Next == \/ \E r \in Request : ClientSend(r)
        \/ PrimaryReceive \/ PrimaryAck \/ PrimaryTimeout \/ PrimaryFails
        \/ BackupReceive \/ BackupRedirect \/ BackupTimeout \/ BackupServe

Spec == Init /\ [][Next]_vars

\* Both replicas run on, and take a message or a timeout whenever there is one.
FairSpec == /\ Spec
            /\ WF_vars(PrimaryReceive \/ PrimaryAck \/ PrimaryTimeout)
            /\ WF_vars(BackupReceive \/ BackupRedirect \/ BackupServe)
-----------------------------------------------------------------------------
TypeOK ==
  /\ c2p \in Seq(Request) /\ c2b \in Seq(Request)
  /\ p2b \in Seq((1 .. serial) \X Request) /\ b2p \in Seq(0 .. expected)
  /\ serial \in Nat /\ waiting \in BOOLEAN /\ primarydb \in Seq(Request)
  /\ expected \in Nat /\ serving \in BOOLEAN /\ backupdb \in Seq(Request)
  /\ failed \in BOOLEAN
  /\ received \in Seq(Request) /\ responses \subseteq Request \X Nat
  /\ sends \in Nat /\ losses \in Nat /\ early \in Nat

\* Whatever is lost, sent twice or acknowledged late, the backup has applied
\* a prefix of the requests the primary received, each once and in order,
\* and the primary a prefix of those, also after a takeover: the primary
\* never applies a request the backup did not apply before it took over.
ExactlyOnce ==
  /\ Len(primarydb) <= expected /\ expected <= Len(received)
  /\ expected <= Len(backupdb) /\ (~serving => expected = Len(backupdb))
  /\ \A i \in 1 .. expected : backupdb[i] = received[i]
  /\ \A i \in 1 .. Len(primarydb) : primarydb[i] = received[i]

\* No response is ever lost with the primary: each was computed from a state
\* of the backup's database, the one before its request was applied there.
Durable == \A x \in responses : x[2] \in 1 .. Len(backupdb) /\ backupdb[x[2]] = x[1]

\* The backup's assertion: a message that is not new bears the last serial.
AssertHolds ==
  ~serving /\ p2b # <<>> /\ ~(Head(p2b)[1] = expected + 1) => Head(p2b)[1] = expected

\* A retry whose predecessor's answer arrives after all leaves one copy too
\* many in the loop for ever, since each stale acknowledgement is answered
\* with another copy; but copies never multiply.
NoStorm == Len(p2b) + Len(b2p) <= early + (IF waiting THEN 1 ELSE 0)

\* What stale acknowledgements and retries bring about: copies, but not many, and none
\* that the backup's assertion would stumble on.
Copies == AssertHolds /\ NoStorm

\* The primary does not wait for ever, unless it failed or the backup took
\* over: retries make up for every loss.
WaitEnds == waiting ~> (~waiting \/ failed \/ serving)
=============================================================================
