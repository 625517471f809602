------------------------------ MODULE MCBackup ------------------------------
(***************************************************************************)
(* Two programs in which something is kept until nobody needs it: the      *)
(* requests the primary of pt-backup.cc keeps until its backup has them,   *)
(* and the events that cotamer's threads share.  `on` says which of them   *)
(* the run is about; the other one stays as it begins.                     *)
(***************************************************************************)
EXTENDS PrimaryBackup

CONSTANTS t1, t2, e1, e2, q1, q2

VARIABLES on, event, quorum, held, stack, shares

\* q1 == any(e1, e2) or all(e1, e2); then q2 == any(q1, e1) or all(q1, e1).
Quorums == INSTANCE EventQuorum WITH
  Thread <- {t1, t2}, Plain <- {e1, e2}, Quorum <- {q1, q2},
  Member <- 1 .. 4, Child <- <<e1, e2, q1, e1>>, Parent <- <<q1, q1, q2, q2>>,
  \* t1 has what the quorums take; t2 can trigger e1.
  Handles <- [p \in {t1, t2} |-> [e \in {e1, e2} |->
    IF p = t1 THEN IF e = e1 THEN 2 ELSE 1 ELSE IF e = e1 THEN 1 ELSE 0]],
  MaxShares <- 1

quorumVars == <<event, quorum, held, stack, shares>>

MCInit == Init /\ Quorums!Init /\ on \in {"backup", "quorum"}

InBackup(A) == on = "backup" /\ A /\ UNCHANGED <<on, quorumVars>>
InQuorum(A) == on = "quorum" /\ A /\ UNCHANGED <<on, vars>>

MCNext == InBackup(Next) \/ InQuorum(Quorums!Next)

allVars == <<on, vars, quorumVars>>
MCFairness ==
  /\ WF_allVars(InBackup(PrimaryReceive \/ PrimaryAck \/ PrimaryTimeout))
  /\ WF_allVars(InBackup(BackupReceive \/ BackupRedirect \/ BackupServe))
  /\ \A p \in {t1, t2} : WF_allVars(InQuorum(Quorums!Step(p)))
MCSpec == MCInit /\ [][MCNext]_allVars /\ MCFairness

\* A body is deleted once, by its last user, and none is left behind.
DeletedLast == Quorums!DeletedLast /\ Quorums!NothingLeaks
\* A quorum has triggered if and only if enough of its members have.
QuorumExact == Quorums!QuorumExact
\* No thread spins for ever in a call on an event.
CallsReturn == Quorums!CallsReturn
=============================================================================
