--------------------------- MODULE PancyReplicas ---------------------------
(***************************************************************************)
(* Two pancydb databases fed from one sequence of requests, as the         *)
(* replicas of pset3 are: the follower applies the leader's requests       *)
(* later.  A faulty follower may also skip one, so that pancydb::diff has  *)
(* something to find.                                                      *)
(***************************************************************************)
EXTENDS PancyDB

CONSTANTS Requests,    \* the requests clients send
          MaxVersion   \* bound: the leader stops at this version

VARIABLES leader, follower,  \* the two databases
          pending,           \* requests the follower has not applied yet
          skipped            \* the follower skipped one

vars == <<leader, follower, pending, skipped>>

Init == /\ leader = NewDB /\ follower = NewDB
        /\ pending = <<>> /\ skipped = FALSE

Lead(r) == /\ leader.next < MaxVersion
           /\ leader' = After(leader, r)
           /\ pending' = IF Accepted(leader, r) THEN Append(pending, r) ELSE pending
           /\ UNCHANGED <<follower, skipped>>

Follow == /\ pending # <<>>
          /\ follower' = After(follower, Head(pending))
          /\ pending' = Tail(pending)
          /\ UNCHANGED <<leader, skipped>>

Skip == /\ pending # <<>> /\ ~skipped
        /\ pending' = Tail(pending)
        /\ skipped' = TRUE
        /\ UNCHANGED <<leader, follower>>

Next == (\E r \in Requests : Lead(r)) \/ Follow \/ Skip

Spec == Init /\ [][Next]_vars
-----------------------------------------------------------------------------
\* No two keys were written by the same operation, and a database only holds
\* versions it has handed out: a version identifies a write, which is what
\* the conditional requests of the lock clients rely on.
VersionsIdentifyWrites ==
  \A db \in {leader, follower} :
    /\ \A k \in Key : db.map[k].version < db.next
    /\ \A j, k \in Key : Present(db, j) /\ db.map[j].version = db.map[k].version
                           => j = k

\* diff never raises a false alarm: a follower that merely lags is accepted
\* with every skew of at least its lag, also after keys were removed, put
\* back, and removes were evicted from recent_removes_.
NoFalseAlarm ==
  ~skipped => \A skew \in (leader.next - follower.next) .. MaxVersion :
                 Diff(leader, follower, skew) = {} /\ Diff(follower, leader, skew) = {}

\* With no skew allowed, diff reports exactly the databases that differ.
ZeroSkewIsExact == Diff(leader, follower, 0) = {} <=> leader.map = follower.map
=============================================================================
