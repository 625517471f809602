----------------------------- MODULE AltBackup -----------------------------
(***************************************************************************)
(* The primary-backup service of pset3-altnet/pt-backup.cc with its        *)
(* clients.  As in pset3, the primary forwards each request under a serial *)
(* until the backup acknowledges it, then processes it and responds.  What *)
(* is new are the clients, which find the replica that serves by           *)
(* redirections and at random, the reply channels, and receives that are   *)
(* not forwarded: first() in the backup lets both its receives take a      *)
(* message and drops the client's when the primary's has come too.         *)
(*                                                                         *)
(* A database is the sequence of the requests it has processed.            *)
(***************************************************************************)
EXTENDS AltNet

CONSTANT MaxEarly   \* bound: retries while an acknowledgement may come

VARIABLES
  p2b, b2p,       \* forwarded requests and acknowledgements on their way, in order
  p2bLoss,        \* loss of p2b_channel_
  primarySerial,  \* primary: serial
  working,        \* primary: <<>>, or <<req>> while it waits for the backup
  primarydb,
  expected,       \* backup: expected_serial
  fromPrimary, fromClient,  \* backup: what the two receives in first() have taken
  serving,        \* backup: past the timeout
  backupdb,
  early           \* counter for the bound

primaryVars == <<primarySerial, working, primarydb>>
backupVars == <<expected, fromPrimary, fromClient, serving, backupdb>>
vars == <<altNetVars, p2b, b2p, p2bLoss, primaryVars, backupVars, early>>

Init ==
  /\ NetInit
  /\ p2b = <<>> /\ b2p = <<>> /\ p2bLoss = "default"
  /\ primarySerial = 0 /\ working = <<>> /\ primarydb = <<>>
  /\ expected = 0 /\ fromPrimary = <<>> /\ fromClient = <<>>
  /\ serving = FALSE /\ backupdb = <<>> /\ early = 0

Client_(c) ==
  ClientStep(c) /\ UNCHANGED <<p2b, b2p, p2bLoss, primaryVars, backupVars, early>>

Forward(s, m) == \/ Sent(p2bLoss) /\ p2b' = Append(p2b, [serial |-> s, req |-> m])
                 \/ Lost(p2bLoss) /\ UNCHANGED p2b

\* primary: obtain a request and forward it.
PrimaryReceive ==
  /\ working = <<>> /\ requests[0] # <<>>
  /\ requests' = [requests EXCEPT ![0] = Tail(@)]
  /\ working' = <<Head(requests[0])>>
  /\ primarySerial' = primarySerial + 1
  /\ Forward(primarySerial + 1, Head(requests[0]))
  /\ UNCHANGED <<clientVars, pairs, responses, sends, b2p, p2bLoss, primarydb, backupVars, early>>

\* Wrong: any acknowledgement will do.
WrongConfirms(ack) == TRUE
Confirms(ack) == ack = primarySerial

\* The acknowledgement came: process the request and respond; a stale one: forward again.
PrimaryAck ==
  /\ working # <<>> /\ b2p # <<>>
  /\ b2p' = Tail(b2p)
  /\ IF Confirms(Head(b2p))
     THEN /\ primarydb' = Append(primarydb, working[1])
          /\ working' = <<>>
          /\ Reply(working[1].client, 0, Response(working[1].serial, Len(primarydb) + 1))
          /\ UNCHANGED p2b
     ELSE Forward(primarySerial, working[1]) /\ UNCHANGED <<primarydb, working, responses>>
  /\ UNCHANGED <<clientVars, pairs, requests, sends, p2bLoss, primarySerial, backupVars, early>>

PrimaryTimeout ==
  /\ working # <<>> /\ early < MaxEarly
  /\ early' = early + 1
  /\ Forward(primarySerial, working[1])
  /\ UNCHANGED <<clientVars, pairs, requests, responses, sends, b2p, p2bLoss, primaryVars, backupVars>>

-----------------------------------------------------------------------------
\* The receives that first() waits for take their messages on their own.
TakePrimary ==
  /\ ~serving /\ fromPrimary = <<>> /\ p2b # <<>>
  /\ fromPrimary' = <<Head(p2b)>> /\ p2b' = Tail(p2b)
  /\ UNCHANGED <<altNetVars, b2p, p2bLoss, primaryVars, expected, fromClient, serving, backupdb, early>>

TakeClient ==
  /\ ~serving /\ fromClient = <<>> /\ requests[1] # <<>>
  /\ fromClient' = <<Head(requests[1])>>
  /\ requests' = [requests EXCEPT ![1] = Tail(@)]
  /\ UNCHANGED <<clientVars, pairs, responses, losses, sends, p2b, b2p, p2bLoss, primaryVars,
                 expected, fromPrimary, serving, backupdb, early>>

\* first() returned the primary's message, and has dropped a client's.
WrongIsNew(s) == TRUE
IsNew(s) == s = expected + 1

BackupApply ==
  /\ fromPrimary # <<>>
  /\ fromPrimary' = <<>> /\ fromClient' = <<>>
  /\ IF IsNew(fromPrimary[1].serial)
     THEN expected' = expected + 1 /\ backupdb' = Append(backupdb, fromPrimary[1].req)
     ELSE UNCHANGED <<expected, backupdb>>
  /\ \/ Sent("default") /\ b2p' = Append(b2p, expected')
     \/ Lost("default") /\ UNCHANGED b2p
  /\ UNCHANGED <<clientVars, pairs, requests, responses, sends, p2b, p2bLoss, primaryVars, serving, early>>

\* It returned a client's: redirect the client to the primary.
BackupRedirect ==
  /\ fromPrimary = <<>> /\ fromClient # <<>>
  /\ fromClient' = <<>>
  /\ Reply(fromClient[1].client, 1, Redirection(fromClient[1].serial, 0))
  /\ UNCHANGED <<clientVars, pairs, requests, sends, p2b, b2p, p2bLoss, primaryVars,
                 expected, fromPrimary, serving, backupdb, early>>

\* Neither for 5 seconds: the primary has failed, or its messages were lost.
BackupTimeout ==
  /\ ~serving /\ fromPrimary = <<>> /\ fromClient = <<>>
  /\ serving' = TRUE
  /\ UNCHANGED <<altNetVars, p2b, b2p, p2bLoss, primaryVars, expected, fromPrimary, fromClient,
                 backupdb, early>>

BackupServe ==
  /\ serving /\ requests[1] # <<>>
  /\ requests' = [requests EXCEPT ![1] = Tail(@)]
  /\ backupdb' = Append(backupdb, Head(requests[1]))
  /\ Reply(Head(requests[1]).client, 1, Response(Head(requests[1]).serial, Len(backupdb) + 1))
  /\ UNCHANGED <<clientVars, pairs, sends, p2b, b2p, p2bLoss, primaryVars, expected, fromPrimary,
                 fromClient, serving, early>>

\* fail_primary_after: what the primary sends is lost from now on.
FailPrimary ==
  /\ p2bLoss = "default" /\ p2bLoss' = "all"
  /\ pairs' = [x \in DOMAIN pairs |-> IF x \in ResponseChannels(0)
                                      THEN [pairs[x] EXCEPT !.response = "all"] ELSE pairs[x]]
  /\ UNCHANGED <<clientVars, requests, responses, losses, sends, p2b, b2p, primaryVars, backupVars, early>>

Next ==
  \/ \E c \in Client : Client_(c)
  \/ PrimaryReceive \/ PrimaryAck \/ PrimaryTimeout \/ FailPrimary
  \/ TakePrimary \/ TakeClient
  \/ BackupApply \/ BackupRedirect \/ BackupTimeout \/ BackupServe

Spec == Init /\ [][Next]_vars
-----------------------------------------------------------------------------
\* The service is linearizable for its clients, through losses, retries, redirections and
\* the takeover: a response that a client accepts is to this client's own request, was
\* computed at a place that the surviving database agrees with, and after every response
\* that anybody had accepted when the request began.
Linearizable ==
  \A a \in accepted :
    /\ a.position \in (a.after + 1) .. Len(backupdb)
    /\ backupdb[a.position] = a.req

\* What the primary has processed, the backup had processed before it took over, at the
\* same place.
PrimaryFollows ==
  \A i \in 1 .. Len(primarydb) : i <= expected /\ primarydb[i] = backupdb[i]
=============================================================================
