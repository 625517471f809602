--------------------------- MODULE MCEventQuorum ---------------------------
EXTENDS EventQuorum
CONSTANTS t1, t2, e1, e2, q1, q2
\* q1 == any(e1, e2) or all(e1, e2); then q2 == any(q1, e1) or all(q1, e1).
MCChild == <<e1, e2, q1, e1>>
MCParent == <<q1, q1, q2, q2>>
\* t1 has what the quorums take; t2 can trigger e1.
MCHandles == [p \in Thread |-> [e \in Plain |->
  IF p = t1 THEN IF e = e1 THEN 2 ELSE 1 ELSE IF e = e1 THEN 1 ELSE 0]]
=============================================================================
