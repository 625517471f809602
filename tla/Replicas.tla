------------------------------ MODULE Replicas ------------------------------
(***************************************************************************)
(* Three programs in which copies must agree: the stubborn consensus, the  *)
(* primary and the backup of pset3-altnet with their clients, and the      *)
(* databases that diff compares.                                           *)
(***************************************************************************)
EXTENDS CTStubborn

CONSTANTS Client, Replica, MaxSerial, MaxSends, MaxLosses, MaxEarly,   \* of AltBackup
          Key, Value, Empty, MaxRemoves, Requests, MaxVersion            \* of PancyReplicas

VARIABLES
  pairs, requests, responses, alt_pc, leader, serial, tries, floor, accepted, sends, losses,
  p2b, b2p, p2bLoss, primarySerial, working, primarydb, expected, fromPrimary, fromClient,
  serving, backupdb, early,
  lead, follower, pending, skipped

\* The primary is replica 0, the backup 1; a response that is no redirection names none.
ASSUME ReplicaAssumption == {0, 1} \subseteq Replica /\ -1 \notin Replica

Alt == INSTANCE AltBackup WITH pc <- alt_pc
altVars == <<pairs, requests, responses, alt_pc, leader, serial, tries, floor, accepted, sends, losses,
             p2b, b2p, p2bLoss, primarySerial, working, primarydb, expected, fromPrimary, fromClient,
             serving, backupdb, early>>

Pancy == INSTANCE PancyReplicas WITH leader <- lead
pancyVars == <<lead, follower, pending, skipped>>

\* Requests are requests; max_recent_removes is 100.
ASSUME PancyAssumption == Requests \subseteq Pancy!Request /\ MaxRemoves \in Nat \ {0}

\* Clients see one database, through the takeover too.
Replicated == Alt!Linearizable /\ Alt!PrimaryFollows
\* diff reports no follower that only lags and, without skew, exactly the databases that
\* differ; versions tell the writes apart.
DiffExact == Pancy!NoFalseAlarm /\ Pancy!ZeroSkewIsExact /\ Pancy!VersionsIdentifyWrites
=============================================================================
