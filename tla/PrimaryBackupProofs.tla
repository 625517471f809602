------------------------ MODULE PrimaryBackupProofs ------------------------
(***************************************************************************)
(* Proofs about the primary-backup service, for any requests, any number   *)
(* of messages, losses and premature retries.                              *)
(***************************************************************************)
EXTENDS PrimaryBackup, TLAPS

LEMMA AppendFacts ==
  ASSUME NEW S, NEW s \in Seq(S), NEW e \in S
  PROVE  /\ Append(s, e) \in Seq(S)
         /\ Len(Append(s, e)) = Len(s) + 1
         /\ \A i \in 1 .. Len(s) : Append(s, e)[i] = s[i]
         /\ Append(s, e)[Len(s) + 1] = e
  OBVIOUS

LEMMA TailFacts ==
  ASSUME NEW S, NEW s \in Seq(S), s # <<>>
  PROVE  /\ Len(s) \in Nat \ {0}
         /\ Head(s) \in S /\ Head(s) = s[1]
         /\ Tail(s) \in Seq(S)
         /\ Len(Tail(s)) = Len(s) - 1
         /\ \A i \in 1 .. (Len(s) - 1) : Tail(s)[i] = s[i + 1]
  OBVIOUS

LEMMA ElementFacts ==
  ASSUME NEW S, NEW s \in Seq(S)
  PROVE  /\ Len(s) \in Nat
         /\ \A i \in 1 .. Len(s) : s[i] \in S
  OBVIOUS

LEMMA WidenSeq ==
  ASSUME NEW S, NEW T, S \subseteq T, NEW s \in Seq(S)
  PROVE  s \in Seq(T)
<1>1. s = [i \in 1 .. Len(s) |-> s[i]]
  OBVIOUS
<1>2. \A i \in 1 .. Len(s) : s[i] \in T
  OBVIOUS
<1> QED BY <1>1, <1>2
-----------------------------------------------------------------------------
(***************************************************************************)
(* The inductive invariant.  What is in flight to the backup bears, in     *)
(* order, the last serial the backup applied or the one after it; so a     *)
(* message that is not new is a copy of the last one, and a new one is the *)
(* request received under that serial.                                     *)
(***************************************************************************)
Counts == /\ Len(received) = serial
          /\ Len(primarydb) = serial - (IF waiting THEN 1 ELSE 0)

InFlight == \A i \in 1 .. Len(p2b) :
              expected <= p2b[i][1] /\ p2b[i][2] = received[p2b[i][1]]

Sorted == \A i, j \in 1 .. Len(p2b) : i <= j => p2b[i][1] <= p2b[j][1]

IInv == TypeOK /\ ExactlyOnce /\ Durable /\ Counts /\ InFlight /\ Sorted /\ NoStorm

\* What the invariant says of the serials alone.
LEMMA SerialBounds ==
  ASSUME TypeOK, ExactlyOnce, Counts
  PROVE  /\ expected <= serial /\ serial <= expected + 1
         /\ waiting => serial > 0 /\ Len(primarydb) = serial - 1
         /\ ~waiting => serial = expected /\ Len(primarydb) = serial
         /\ waiting => received[serial] \in Request
  BY DEF TypeOK, ExactlyOnce, Counts

LEMMA InitIInv == Init => IInv
<1> SUFFICES ASSUME Init PROVE IInv
  OBVIOUS
<1>1. TypeOK
  <2>1. \A S : <<>> \in Seq(S)
    OBVIOUS
  <2> QED BY <2>1 DEF Init, TypeOK
<1>2. ExactlyOnce /\ Durable /\ Counts
  <2>1. Len(<<>>) = 0 /\ 1 .. 0 = {}
    OBVIOUS
  <2>2. ExactlyOnce
    BY <2>1 DEF Init, ExactlyOnce
  <2>3. Durable
    BY DEF Init, Durable
  <2>4. Counts
    <3>1. ~waiting /\ Len(received) = 0 /\ Len(primarydb) = 0 /\ serial = 0
      BY <2>1 DEF Init
    <3>2. (IF waiting THEN 1 ELSE 0) = 0
      BY <3>1
    <3>3. Len(primarydb) = serial - 0
      BY <3>1
    <3> QED BY <3>1, <3>2, <3>3 DEF Counts
  <2> QED BY <2>2, <2>3, <2>4
<1>3. InFlight /\ Sorted /\ NoStorm
  BY DEF Init, InFlight, Sorted, NoStorm
<1> QED BY <1>1, <1>2, <1>3 DEF IInv

\* Forwarding a request under a serial that is not older than any in flight
\* keeps what is in flight sorted and typed.
LEMMA ForwardKeeps ==
  ASSUME NEW s \in Nat, NEW r \in Request, Forward(s, r),
         p2b \in Seq((1 .. serial) \X Request), serial \in Nat, serial' \in Nat,
         losses \in Nat, MaxLosses \in Nat,
         serial <= serial', 1 <= s, serial <= s, s <= serial', Sorted
  PROVE  /\ p2b' \in Seq((1 .. serial') \X Request)
         /\ Sorted'
         /\ Len(p2b') \in {Len(p2b), Len(p2b) + 1}
         /\ \A i \in 1 .. Len(p2b') : \/ i \in 1 .. Len(p2b) /\ p2b'[i] = p2b[i]
                                      \/ p2b'[i] = <<s, r>>
         /\ losses' \in Nat
<1> DEFINE S == (1 .. serial') \X Request
<1>1. p2b \in Seq(S)
  <2>1. (1 .. serial) \X Request \subseteq S
    OBVIOUS
  <2> QED BY <2>1, WidenSeq
<1>2. losses' \in Nat
  BY DEF Forward, PrimaryLoses, Keep, Lose
<1>3. CASE p2b' = p2b
  BY <1>1, <1>2, <1>3, ElementFacts DEF Sorted
<1>4. CASE p2b' = Append(p2b, <<s, r>>)
  <2>1. <<s, r>> \in S
    OBVIOUS
  <2>2. /\ p2b' \in Seq(S) /\ Len(p2b') = Len(p2b) + 1
        /\ \A i \in 1 .. Len(p2b) : p2b'[i] = p2b[i]
        /\ p2b'[Len(p2b) + 1] = <<s, r>>
    BY <1>1, <1>4, <2>1, AppendFacts
  <2>3. Len(p2b) \in Nat /\ \A i \in 1 .. Len(p2b) : p2b[i][1] \in 1 .. serial
    BY ElementFacts
  <2>4. \A i \in 1 .. Len(p2b') : \/ i \in 1 .. Len(p2b) /\ p2b'[i] = p2b[i]
                                  \/ i = Len(p2b) + 1 /\ p2b'[i] = <<s, r>>
    <3> TAKE i \in 1 .. Len(p2b')
    <3>1. i \in 1 .. Len(p2b) \/ i = Len(p2b) + 1
      BY <2>2, <2>3
    <3> QED BY <3>1, <2>2
  <2>5. Sorted'
    <3> SUFFICES ASSUME NEW i \in 1 .. Len(p2b'), NEW j \in 1 .. Len(p2b'), i <= j
                 PROVE  p2b'[i][1] <= p2b'[j][1]
      BY DEF Sorted
    <3>1. CASE j \in 1 .. Len(p2b)
      <4>1. i \in 1 .. Len(p2b)
        BY <3>1, <2>2, <2>3
      <4>2. p2b'[i] = p2b[i] /\ p2b'[j] = p2b[j]
        BY <4>1, <3>1, <2>2
      <4> QED BY <4>1, <4>2, <3>1 DEF Sorted
    <3>2. CASE j = Len(p2b) + 1 /\ i = j
      BY <3>2, <2>2
    <3>3. CASE j = Len(p2b) + 1 /\ i \in 1 .. Len(p2b)
      <4>1. p2b'[i] = p2b[i] /\ p2b[i][1] \in 1 .. serial
        BY <3>3, <2>2, <2>3
      <4>2. p2b'[j] = <<s, r>>
        BY <3>3, <2>2
      <4>3. p2b'[j][1] = s
        BY <4>2
      <4> QED BY <4>1, <4>3
    <3> QED BY <3>1, <3>2, <3>3, <2>2, <2>3
  <2> QED BY <1>2, <2>2, <2>4, <2>5
<1> QED BY <1>3, <1>4 DEF Forward

\* A response sent for the request the primary processes, or lost.
LEMMA ProcessFacts ==
  ASSUME Process, losses \in Nat, MaxLosses \in Nat
  PROVE  /\ losses' \in Nat
         /\ responses' \in {responses, responses \cup {<<received[serial], Len(primarydb) + 1>>}}
  BY DEF Process, PrimaryLoses, Keep, Lose

\* The actions that touch neither database, nor serial, nor what is in flight
\* to the backup.
LEMMA NoChange ==
  ASSUME IInv, UNCHANGED <<p2b, b2p, primaryVars, expected, backupdb, responses>>,
         serving' \in BOOLEAN, ~serving' => ~serving,
         c2p' \in Seq(Request), c2b' \in Seq(Request), failed' \in BOOLEAN,
         sends' \in Nat, losses' \in Nat, early' \in Nat, early <= early'
  PROVE  IInv'
<1>1. TypeOK'
  BY DEF IInv, TypeOK, primaryVars
<1>2. ExactlyOnce' /\ Durable' /\ Counts'
  BY DEF IInv, ExactlyOnce, Durable, Counts, primaryVars
<1>3. InFlight' /\ Sorted'
  BY DEF IInv, InFlight, Sorted, primaryVars
<1>4. NoStorm'
  <2>1. Len(p2b) \in Nat /\ Len(b2p) \in Nat
    BY ElementFacts DEF IInv, TypeOK
  <2> QED BY <2>1 DEF IInv, TypeOK, NoStorm, primaryVars
<1> QED BY <1>1, <1>2, <1>3, <1>4 DEF IInv

LEMMA Bounds == MaxSends \in Nat /\ MaxLosses \in Nat /\ MaxEarly \in Nat
  BY PrimaryBackupAssumption DEF PrimaryBackupAssumption

\* The actions of the clients, the failure, and the backup's redirections
\* and timeout.
LEMMA QuietSteps ==
  ASSUME IInv, \/ \E r \in Request : ClientSend(r)
               \/ PrimaryFails \/ BackupRedirect \/ BackupTimeout \/ UNCHANGED vars
  PROVE  IInv'
<1> USE Bounds
<1>1. ASSUME NEW r \in Request, ClientSend(r) PROVE IInv'
  <2>1. c2p' \in Seq(Request) /\ c2b' \in Seq(Request)
    <3>1. c2p \in Seq(Request) /\ c2b \in Seq(Request)
      BY DEF IInv, TypeOK
    <3>2. Append(c2p, r) \in Seq(Request) /\ Append(c2b, r) \in Seq(Request)
      BY <3>1, AppendFacts
    <3> QED BY <1>1, <3>1, <3>2 DEF ClientSend
  <2>2. sends' \in Nat /\ losses' \in Nat
    BY <1>1 DEF ClientSend, Keep, Lose, IInv, TypeOK
  <2> QED BY <1>1, <2>1, <2>2, NoChange DEF ClientSend, IInv, TypeOK, backupVars
<1>2. CASE PrimaryFails
  BY <1>2, NoChange DEF PrimaryFails, IInv, TypeOK, backupVars
<1>3. CASE BackupRedirect
  <2>1. c2b' \in Seq(Request)
    BY <1>3, TailFacts DEF BackupRedirect, IInv, TypeOK
  <2> QED BY <1>3, <2>1, NoChange DEF BackupRedirect, IInv, TypeOK, backupVars
<1>4. CASE BackupTimeout
  BY <1>4, NoChange DEF BackupTimeout, IInv, TypeOK
<1>5. CASE UNCHANGED vars
  BY <1>5, NoChange DEF vars, IInv, TypeOK, backupVars
<1> QED BY <1>1, <1>2, <1>3, <1>4, <1>5

\* A request forwarded, or forwarded again, under the serial the primary now
\* waits for.
LEMMA ForwardInFlight ==
  ASSUME InFlight, Sorted, TypeOK, NEW s \in Nat, NEW r \in Request, Forward(s, r),
         1 <= s, serial <= s, s = serial', expected' = expected, expected <= s,
         \A i \in 1 .. serial : received'[i] = received[i], received'[s] = r
  PROVE  /\ InFlight' /\ Sorted' /\ p2b' \in Seq((1 .. serial') \X Request)
         /\ Len(p2b') \in {Len(p2b), Len(p2b) + 1} /\ losses' \in Nat
<1>1. /\ p2b \in Seq((1 .. serial) \X Request) /\ serial \in Nat /\ losses \in Nat
      /\ serial' \in Nat /\ MaxLosses \in Nat /\ serial <= serial' /\ s <= serial'
  BY Bounds DEF TypeOK
<1>2. /\ p2b' \in Seq((1 .. serial') \X Request) /\ Sorted' /\ losses' \in Nat
      /\ Len(p2b') \in {Len(p2b), Len(p2b) + 1}
      /\ \A i \in 1 .. Len(p2b') : \/ i \in 1 .. Len(p2b) /\ p2b'[i] = p2b[i]
                                   \/ p2b'[i] = <<s, r>>
  BY <1>1, ForwardKeeps, Zenon
<1>3. \A i \in 1 .. Len(p2b) : p2b[i][1] \in 1 .. serial
  BY <1>1, ElementFacts
<1>4. InFlight'
  <2> SUFFICES ASSUME NEW i \in 1 .. Len(p2b')
               PROVE  expected' <= p2b'[i][1] /\ p2b'[i][2] = received'[p2b'[i][1]]
    BY DEF InFlight
  <2>1. CASE i \in 1 .. Len(p2b) /\ p2b'[i] = p2b[i]
    BY <2>1, <1>3 DEF InFlight
  <2>2. CASE p2b'[i] = <<s, r>>
    BY <2>2
  <2> QED BY <2>1, <2>2, <1>2
<1> QED BY <1>2, <1>4

LEMMA PrimaryReceiveStep ==
  ASSUME IInv, PrimaryReceive
  PROVE  IInv'
<1> DEFINE r == Head(c2p)
<1>1. /\ r \in Request /\ c2p' \in Seq(Request)
  BY TailFacts DEF PrimaryReceive, IInv, TypeOK
<1>2. /\ serial = expected /\ Len(primarydb) = serial /\ serial \in Nat
      /\ Len(received) = serial
  BY SerialBounds DEF PrimaryReceive, IInv, Counts, TypeOK
<1>3. /\ received' \in Seq(Request) /\ Len(received') = serial + 1
      /\ \A i \in 1 .. serial : received'[i] = received[i]
      /\ received'[serial + 1] = r
  BY <1>1, <1>2, AppendFacts DEF PrimaryReceive, IInv, TypeOK
<1>4. /\ InFlight' /\ Sorted' /\ p2b' \in Seq((1 .. serial') \X Request)
      /\ Len(p2b') \in {Len(p2b), Len(p2b) + 1} /\ losses' \in Nat
  <2>1. /\ Forward(serial + 1, r) /\ serial + 1 \in Nat /\ 1 <= serial + 1
        /\ serial' = serial + 1 /\ expected' = expected /\ expected <= serial + 1
    BY <1>2 DEF PrimaryReceive, backupVars
  <2> QED BY <2>1, <1>1, <1>2, <1>3, ForwardInFlight DEF IInv
<1>5. TypeOK'
  BY <1>1, <1>2, <1>3, <1>4 DEF PrimaryReceive, IInv, TypeOK, backupVars
<1>6. ExactlyOnce'
  BY <1>2, <1>3 DEF PrimaryReceive, IInv, ExactlyOnce, TypeOK, backupVars
<1>7. Durable' /\ Counts'
  BY <1>2, <1>3 DEF PrimaryReceive, IInv, Durable, Counts, backupVars
<1>8. NoStorm'
  <2>1. Len(p2b) \in Nat /\ Len(b2p) \in Nat /\ early \in Nat
    BY ElementFacts DEF IInv, TypeOK
  <2>2. Len(p2b) + Len(b2p) <= early
    <3>1. (IF waiting THEN 1 ELSE 0) = 0
      BY DEF PrimaryReceive
    <3>2. early + 0 = early
      BY <2>1
    <3> QED BY <3>1, <3>2 DEF IInv, NoStorm
  <2>3. waiting' /\ early' = early /\ b2p' = b2p
    BY DEF PrimaryReceive
  <2>4. Len(p2b') + Len(b2p') <= early' + 1
    BY <2>1, <2>2, <2>3, <1>4
  <2> QED BY <2>3, <2>4 DEF NoStorm
<1> QED BY <1>4, <1>5, <1>6, <1>7, <1>8 DEF IInv

\* A copy of the request goes out again.
LEMMA ResendKeeps ==
  ASSUME IInv, waiting, Resend, UNCHANGED <<serial, expected, received>>
  PROVE  /\ InFlight' /\ Sorted' /\ p2b' \in Seq((1 .. serial') \X Request)
         /\ Len(p2b') \in {Len(p2b), Len(p2b) + 1} /\ losses' \in Nat
<1>1. /\ serial \in Nat /\ 1 <= serial /\ expected <= serial
      /\ received[serial] \in Request
  BY SerialBounds DEF IInv, TypeOK
<1>2. Forward(serial, received[serial])
  BY DEF Resend
<1>3. /\ serial <= serial /\ serial = serial' /\ received'[serial] = received[serial]
      /\ \A i \in 1 .. serial : received'[i] = received[i]
  BY <1>1
<1> QED BY <1>1, <1>2, <1>3, ForwardInFlight DEF IInv

LEMMA PrimaryTimeoutStep ==
  ASSUME IInv, PrimaryTimeout
  PROVE  IInv'
<1>1. /\ InFlight' /\ Sorted' /\ p2b' \in Seq((1 .. serial') \X Request)
      /\ Len(p2b') \in {Len(p2b), Len(p2b) + 1} /\ losses' \in Nat
  BY ResendKeeps DEF PrimaryTimeout, primaryVars, backupVars
<1>2. early' \in Nat /\ (early' = early \/ early' = early + 1)
  BY DEF PrimaryTimeout, IInv, TypeOK
<1>3. TypeOK'
  BY <1>1, <1>2 DEF PrimaryTimeout, IInv, TypeOK, primaryVars, backupVars
<1>4. ExactlyOnce' /\ Durable' /\ Counts'
  BY DEF PrimaryTimeout, IInv, ExactlyOnce, Durable, Counts, primaryVars, backupVars
<1>5. NoStorm'
  <2>1. Len(p2b) \in Nat /\ Len(b2p) \in Nat /\ early \in Nat
    BY ElementFacts DEF IInv, TypeOK
  <2>2. waiting /\ waiting' /\ b2p' = b2p
    BY DEF PrimaryTimeout, primaryVars
  <2>3. Len(p2b) + Len(b2p) <= early + 1
    BY <2>2 DEF IInv, NoStorm
  <2>4. CASE p2b = <<>> /\ b2p = <<>>
    <3>1. Len(p2b) = 0 /\ Len(b2p) = 0
      BY <2>4
    <3> QED BY <3>1, <2>1, <2>2, <1>1, <1>2 DEF NoStorm
  <2>5. CASE ~(p2b = <<>> /\ b2p = <<>>)
    <3>1. early' = early + 1
      BY <2>5 DEF PrimaryTimeout
    <3> QED BY <3>1, <2>1, <2>2, <2>3, <1>1 DEF NoStorm
  <2> QED BY <2>4, <2>5
<1> QED BY <1>1, <1>3, <1>4, <1>5 DEF IInv

LEMMA PrimaryAckStep ==
  ASSUME IInv, PrimaryAck
  PROVE  IInv'
<1>1. /\ b2p' \in Seq(0 .. expected) /\ Len(b2p') = Len(b2p) - 1
      /\ Head(b2p) \in 0 .. expected /\ Len(b2p) \in Nat
  BY TailFacts DEF PrimaryAck, Unread, IInv, TypeOK
<1>2. /\ waiting /\ early \in Nat /\ Len(p2b) \in Nat
      /\ Len(p2b) + Len(b2p) <= early + 1
  BY ElementFacts DEF PrimaryAck, IInv, NoStorm, TypeOK
<1>3. CASE ~Confirms(Head(b2p))
  <2>1. Resend /\ UNCHANGED <<waiting, primarydb, responses>>
    BY <1>3 DEF PrimaryAck
  <2>2. /\ InFlight' /\ Sorted' /\ p2b' \in Seq((1 .. serial') \X Request)
        /\ Len(p2b') \in {Len(p2b), Len(p2b) + 1} /\ losses' \in Nat
    BY <2>1, <1>2, ResendKeeps DEF PrimaryAck, backupVars
  <2>3. TypeOK'
    BY <1>1, <2>1, <2>2 DEF PrimaryAck, IInv, TypeOK, backupVars
  <2>4. ExactlyOnce' /\ Durable' /\ Counts'
    BY <2>1 DEF PrimaryAck, IInv, ExactlyOnce, Durable, Counts, backupVars
  <2>5. NoStorm'
    BY <1>1, <1>2, <2>1, <2>2 DEF PrimaryAck, NoStorm
  <2> QED BY <2>2, <2>3, <2>4, <2>5 DEF IInv
<1>4. CASE Confirms(Head(b2p))
  <2>1. Process
    BY <1>4 DEF PrimaryAck
  <2>2. /\ serial = expected /\ serial \in Nat /\ 1 <= serial
        /\ Len(primarydb) = serial - 1 /\ received[serial] \in Request
    BY <1>1, <1>2, <1>4, SerialBounds DEF Confirms, IInv, TypeOK
  <2>3. /\ ~waiting' /\ p2b' = p2b
        /\ UNCHANGED <<serial, received, early, expected, serving, backupdb>>
    BY <2>1 DEF PrimaryAck, Process, backupVars
  <2>4. /\ losses' \in Nat
        /\ responses' \in {responses, responses \cup {<<received[serial], serial>>}}
    BY <2>1, <2>2, ProcessFacts, Bounds DEF IInv, TypeOK
  <2>5. /\ primarydb' \in Seq(Request) /\ Len(primarydb') = serial
        /\ \A i \in 1 .. (serial - 1) : primarydb'[i] = primarydb[i]
        /\ primarydb'[serial] = received[serial]
    <3>1. primarydb \in Seq(Request) /\ primarydb' = Append(primarydb, received[serial])
      BY <2>1 DEF Process, IInv, TypeOK
    <3> QED BY <3>1, <2>2, AppendFacts
  <2>6. TypeOK'
    <3>1. /\ c2p' \in Seq(Request) /\ c2b' \in Seq(Request) /\ failed' \in BOOLEAN
          /\ sends' \in Nat /\ waiting' \in BOOLEAN
      BY <2>1 DEF PrimaryAck, Process, IInv, TypeOK
    <3>2. <<received[serial], serial>> \in Request \X Nat
      BY <2>2
    <3>3. responses' \subseteq Request \X Nat
      BY <3>2, <2>4 DEF IInv, TypeOK
    <3> QED BY <3>1, <3>3, <1>1, <2>3, <2>4, <2>5 DEF IInv, TypeOK
  <2>7. ExactlyOnce'
    BY <2>2, <2>3, <2>5 DEF IInv, ExactlyOnce, TypeOK
  <2>8. Durable'
    <3>1. serial \in 1 .. Len(backupdb) /\ backupdb[serial] = received[serial]
      BY <2>2 DEF IInv, ExactlyOnce, TypeOK
    <3> SUFFICES ASSUME NEW x \in responses'
                 PROVE  x[2] \in 1 .. Len(backupdb) /\ backupdb[x[2]] = x[1]
      BY <2>3 DEF Durable
    <3>2. CASE x \in responses
      BY <3>2 DEF IInv, Durable
    <3>3. CASE x = <<received[serial], serial>>
      BY <3>1, <3>3
    <3> QED BY <3>2, <3>3, <2>4
  <2>9. Counts'
    BY <2>2, <2>3, <2>5 DEF IInv, Counts
  <2>10. InFlight' /\ Sorted'
    BY <2>3 DEF IInv, InFlight, Sorted
  <2>11. NoStorm'
    BY <1>1, <1>2, <2>3 DEF NoStorm
  <2> QED BY <2>6, <2>7, <2>8, <2>9, <2>10, <2>11 DEF IInv
<1> QED BY <1>3, <1>4

\* The backup takes the head of what is in flight.
LEMMA HeadInFlight ==
  ASSUME IInv, p2b # <<>>
  PROVE  /\ Len(p2b) \in Nat \ {0}
         /\ Head(p2b)[1] \in {expected, expected + 1}
         /\ 1 <= Head(p2b)[1] /\ Head(p2b)[1] <= serial
         /\ Head(p2b)[2] \in Request
         /\ Head(p2b)[2] = received[Head(p2b)[1]]
         /\ \A i \in 1 .. Len(p2b) : Head(p2b)[1] <= p2b[i][1]
<1>1. /\ p2b \in Seq((1 .. serial) \X Request)
      /\ serial \in Nat /\ expected \in Nat /\ serial <= expected + 1
  BY SerialBounds DEF IInv, TypeOK
<1>2. /\ Len(p2b) \in Nat \ {0} /\ Head(p2b) = p2b[1]
      /\ Head(p2b) \in (1 .. serial) \X Request
  BY <1>1, TailFacts
<1>3. 1 \in 1 .. Len(p2b)
  BY <1>2
<1>4. expected <= p2b[1][1] /\ p2b[1][2] = received[p2b[1][1]]
  BY <1>3 DEF IInv, InFlight
<1>5. \A i \in 1 .. Len(p2b) : p2b[1][1] <= p2b[i][1]
  BY <1>2, <1>3 DEF IInv, Sorted
<1>6. Head(p2b)[1] \in 1 .. serial /\ Head(p2b)[2] \in Request
  BY <1>2
<1>7. Head(p2b)[1] \in {expected, expected + 1}
  BY <1>1, <1>2, <1>4, <1>6
<1> QED BY <1>1, <1>2, <1>4, <1>5, <1>6, <1>7

LEMMA BackupReceiveStep ==
  ASSUME IInv, BackupReceive
  PROVE  IInv'
<1> DEFINE m == Head(p2b)
<1>1. p2b # <<>> /\ ~serving /\ p2b' = Tail(p2b)
  BY DEF BackupReceive
<1>2. /\ Len(p2b) \in Nat \ {0} /\ m[1] \in {expected, expected + 1}
      /\ 1 <= m[1] /\ m[1] <= serial
      /\ m[2] \in Request /\ m[2] = received[m[1]]
      /\ \A i \in 1 .. Len(p2b) : m[1] <= p2b[i][1]
  BY <1>1, HeadInFlight
<1>3. /\ p2b' \in Seq((1 .. serial) \X Request) /\ Len(p2b') = Len(p2b) - 1
      /\ \A i \in 1 .. Len(p2b') : i + 1 \in 1 .. Len(p2b) /\ p2b'[i] = p2b[i + 1]
  <2>1. p2b \in Seq((1 .. serial) \X Request)
    BY DEF IInv, TypeOK
  <2>2. /\ p2b' \in Seq((1 .. serial) \X Request) /\ Len(p2b') = Len(p2b) - 1
        /\ \A i \in 1 .. (Len(p2b) - 1) : p2b'[i] = p2b[i + 1]
    BY <1>1, <2>1, TailFacts
  <2> QED BY <2>2, <1>2
<1>4. /\ expected' = m[1]
      /\ \/ m[1] = expected + 1 /\ backupdb' = Append(backupdb, m[2])
         \/ m[1] = expected /\ backupdb' = backupdb
  BY <1>2 DEF BackupReceive, IsNew
<1>5. /\ expected \in Nat /\ expected' \in Nat /\ expected <= expected'
      /\ serial \in Nat /\ expected' <= serial /\ backupdb \in Seq(Request)
      /\ Len(backupdb) = expected /\ Len(received) = serial
      /\ Len(primarydb) <= expected /\ Len(primarydb) \in Nat
  BY <1>1, <1>2, <1>4 DEF IInv, TypeOK, ExactlyOnce, Counts
<1>6. /\ backupdb' \in Seq(Request) /\ Len(backupdb') = expected'
      /\ \A i \in 1 .. Len(backupdb) : backupdb'[i] = backupdb[i]
      /\ \A i \in 1 .. expected' : backupdb'[i] = received[i]
  <2>1. \A i \in 1 .. expected : backupdb[i] = received[i]
    BY DEF IInv, ExactlyOnce
  <2>2. CASE m[1] = expected + 1 /\ backupdb' = Append(backupdb, m[2])
    <3>1. /\ backupdb' \in Seq(Request) /\ Len(backupdb') = expected + 1
          /\ \A i \in 1 .. expected : backupdb'[i] = backupdb[i]
          /\ backupdb'[expected + 1] = m[2]
      BY <2>2, <1>2, <1>5, AppendFacts
    <3>2. \A i \in 1 .. (expected + 1) : backupdb'[i] = received[i]
      <4> TAKE i \in 1 .. (expected + 1)
      <4>1. i \in 1 .. expected \/ i = expected + 1
        BY <1>5
      <4> QED BY <4>1, <3>1, <2>1, <2>2, <1>2
    <3> QED BY <3>1, <3>2, <2>2, <1>4, <1>5
  <2>3. CASE m[1] = expected /\ backupdb' = backupdb
    BY <2>1, <2>3, <1>4, <1>5
  <2> QED BY <2>2, <2>3, <1>4
<1>7. UNCHANGED <<c2p, c2b, primaryVars, serving, failed, responses, sends, early>>
  BY DEF BackupReceive
<1>8. /\ b2p' \in Seq(0 .. expected') /\ Len(b2p') \in {Len(b2p), Len(b2p) + 1}
      /\ Len(b2p) \in Nat /\ losses' \in Nat
  <2>1. b2p \in Seq(0 .. expected')
    <3>1. 0 .. expected \subseteq 0 .. expected'
      BY <1>5
    <3> QED BY <3>1, WidenSeq DEF IInv, TypeOK
  <2>2. expected' \in 0 .. expected'
    BY <1>5
  <2>3. \/ b2p' = Append(b2p, expected') /\ losses' = losses
        \/ b2p' = b2p /\ losses' = losses + 1
    BY DEF BackupReceive, Keep, Lose
  <2>4. losses' \in Nat
    BY <2>3 DEF IInv, TypeOK
  <2>5. /\ Append(b2p, expected') \in Seq(0 .. expected')
        /\ Len(Append(b2p, expected')) = Len(b2p) + 1 /\ Len(b2p) \in Nat
    BY <2>1, <2>2, AppendFacts, ElementFacts
  <2> QED BY <2>1, <2>3, <2>4, <2>5
<1>9. TypeOK'
  BY <1>3, <1>5, <1>6, <1>7, <1>8 DEF IInv, TypeOK, primaryVars
<1>10. ExactlyOnce'
  BY <1>1, <1>5, <1>6, <1>7 DEF IInv, ExactlyOnce, primaryVars
<1>11. Durable'
  BY <1>4, <1>5, <1>6, <1>7 DEF IInv, Durable
<1>12. Counts'
  BY <1>7 DEF IInv, Counts, primaryVars
<1>13. InFlight'
  BY <1>2, <1>3, <1>4, <1>7 DEF IInv, InFlight, primaryVars
<1>14. Sorted'
  <2> SUFFICES ASSUME NEW i \in 1 .. Len(p2b'), NEW j \in 1 .. Len(p2b'), i <= j
               PROVE  p2b'[i][1] <= p2b'[j][1]
    BY DEF Sorted
  <2>1. i + 1 \in 1 .. Len(p2b) /\ j + 1 \in 1 .. Len(p2b) /\ i + 1 <= j + 1
    BY <1>3
  <2> QED BY <2>1, <1>3 DEF IInv, Sorted
<1>15. NoStorm'
  <2>1. waiting' = waiting /\ early' = early
    BY <1>7 DEF primaryVars
  <2>2. Len(p2b') + Len(b2p') <= Len(p2b) + Len(b2p)
    BY <1>2, <1>3, <1>8
  <2>3. early \in Nat /\ Len(p2b') \in Nat /\ Len(b2p') \in Nat
    BY <1>2, <1>3, <1>8 DEF IInv, TypeOK
  <2>4. (IF waiting THEN 1 ELSE 0) \in Nat
    OBVIOUS
  <2> QED BY <2>1, <2>2, <2>3, <2>4, <1>2, <1>8 DEF IInv, NoStorm
<1> QED BY <1>9, <1>10, <1>11, <1>12, <1>13, <1>14, <1>15 DEF IInv

LEMMA BackupServeStep ==
  ASSUME IInv, BackupServe
  PROVE  IInv'
<1> DEFINE r == Head(c2b)
<1>1. r \in Request /\ c2b' \in Seq(Request)
  BY TailFacts DEF BackupServe, IInv, TypeOK
<1>2. /\ backupdb' \in Seq(Request) /\ Len(backupdb') = Len(backupdb) + 1
      /\ Len(backupdb) \in Nat
      /\ \A i \in 1 .. Len(backupdb) : backupdb'[i] = backupdb[i]
      /\ backupdb'[Len(backupdb) + 1] = r
  BY <1>1, AppendFacts, ElementFacts DEF BackupServe, IInv, TypeOK
<1>3. /\ serving /\ serving'
      /\ UNCHANGED <<c2p, p2b, b2p, primaryVars, expected, failed, sends, early>>
  BY DEF BackupServe
<1>4. /\ losses' \in Nat
      /\ responses' \in {responses, responses \cup {<<r, Len(backupdb) + 1>>}}
  BY Bounds DEF BackupServe, Keep, Lose, IInv, TypeOK
<1>5. TypeOK'
  <2>1. <<r, Len(backupdb) + 1>> \in Request \X Nat
    BY <1>1, <1>2
  <2>2. responses' \subseteq Request \X Nat
    BY <2>1, <1>4 DEF IInv, TypeOK
  <2>3. serving' \in BOOLEAN
    BY DEF BackupServe, IInv, TypeOK
  <2> QED BY <2>2, <2>3, <1>1, <1>2, <1>3, <1>4 DEF IInv, TypeOK, primaryVars
<1>6. ExactlyOnce'
  BY <1>2, <1>3 DEF IInv, ExactlyOnce, TypeOK, primaryVars
<1>7. Durable'
  <2> SUFFICES ASSUME NEW x \in responses'
               PROVE  x[2] \in 1 .. Len(backupdb') /\ backupdb'[x[2]] = x[1]
    BY DEF Durable
  <2>1. CASE x \in responses
    BY <2>1, <1>2 DEF IInv, Durable
  <2>2. CASE x = <<r, Len(backupdb) + 1>>
    BY <2>2, <1>2
  <2> QED BY <2>1, <2>2, <1>4
<1>8. Counts' /\ NoStorm'
  BY <1>3 DEF IInv, Counts, NoStorm, primaryVars
<1>9. InFlight' /\ Sorted'
  BY <1>3 DEF IInv, InFlight, Sorted, primaryVars
<1> QED BY <1>5, <1>6, <1>7, <1>8, <1>9 DEF IInv

LEMMA StepIInv == IInv /\ [Next]_vars => IInv'
<1> SUFFICES ASSUME IInv, [Next]_vars PROVE IInv'
  OBVIOUS
<1>1. CASE \/ \E r \in Request : ClientSend(r)
           \/ PrimaryFails \/ BackupRedirect \/ BackupTimeout \/ UNCHANGED vars
  BY <1>1, QuietSteps
<1>2. CASE PrimaryReceive
  BY <1>2, PrimaryReceiveStep
<1>3. CASE PrimaryAck
  BY <1>3, PrimaryAckStep
<1>4. CASE PrimaryTimeout
  BY <1>4, PrimaryTimeoutStep
<1>5. CASE BackupReceive
  BY <1>5, BackupReceiveStep
<1>6. CASE BackupServe
  BY <1>6, BackupServeStep
<1> QED BY <1>1, <1>2, <1>3, <1>4, <1>5, <1>6 DEF Next

\* The inductive invariant holds in every reachable state.
THEOREM Invariance == Spec => []IInv
  BY InitIInv, StepIInv, PTL DEF Spec

-----------------------------------------------------------------------------
\* Every variable keeps its type.
THEOREM TypeCorrect == Spec => []TypeOK
<1>1. IInv => TypeOK
  BY DEF IInv
<1> QED BY <1>1, Invariance, PTL

\* The backup applies what the primary received, each request once and in
\* order, and the primary never applies what the backup did not.
THEOREM ExactlyOnceHolds == Spec => []ExactlyOnce
<1>1. IInv => ExactlyOnce
  BY DEF IInv
<1> QED BY <1>1, Invariance, PTL

\* Every response ever sent was computed from a state of the backup.
THEOREM DurableHolds == Spec => []Durable
<1>1. IInv => Durable
  BY DEF IInv
<1> QED BY <1>1, Invariance, PTL

\* Copies in flight are at most as many as premature retries.
THEOREM NoStormHolds == Spec => []NoStorm
<1>1. IInv => NoStorm
  BY DEF IInv
<1> QED BY <1>1, Invariance, PTL

\* The assertion of the backup's loop never fails.
THEOREM AssertNeverFails == Spec => []AssertHolds
<1>1. IInv => AssertHolds
  BY HeadInFlight DEF AssertHolds
<1> QED BY <1>1, Invariance, PTL

\* Copies of a request neither multiply nor make the backup's assertion fail.
THEOREM CopiesHold == Spec => []Copies
<1>1. AssertHolds /\ NoStorm => Copies
  BY DEF Copies
<1> QED BY <1>1, AssertNeverFails, NoStormHolds, PTL
=============================================================================
