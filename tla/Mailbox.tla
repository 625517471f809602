------------------------------ MODULE Mailbox ------------------------------
(***************************************************************************)
(* What receive(mt) of pset2/ctconsensus.cc promises its caller: a mailbox *)
(* from which the wanted messages of the current round can be taken, each  *)
(* exactly once, whenever they arrived.  A message of a later round waits  *)
(* for its round; only messages of past rounds are lost.  A DECIDE ends    *)
(* everything.  CTConsensus is written over this mailbox; StashReceive     *)
(* shows that the port's queue and the stash implement it.                 *)
(***************************************************************************)
EXTENDS Naturals

CONSTANTS Messages,  \* the messages that may arrive, with type and round
          Types,     \* the types a caller may wait for
          NoType     \* nobody is waiting

VARIABLES mail,      \* messages that arrived and can still be wanted
          arrived,   \* messages that ever arrived: none arrives twice
          round, want, decided,
          taken      \* the messages receive has returned

mailVars == <<mail, arrived, round, want, decided, taken>>

Current(S, r) == {m \in S : m.type = "decide" \/ m.round >= r}

Init == /\ mail = {} /\ arrived = {} /\ taken = {}
        /\ round = 1 /\ want = NoType /\ decided = FALSE

Arrive(m) == /\ m \notin arrived
             /\ arrived' = arrived \cup {m}
             /\ mail' = mail \cup Current({m}, round)
             /\ UNCHANGED <<round, want, decided, taken>>

Call(mt) == /\ want = NoType /\ ~decided
            /\ want' = mt
            /\ UNCHANGED <<mail, arrived, round, decided, taken>>

Return(m) == /\ want # NoType
             /\ m \in mail /\ m.type = want /\ m.round = round
             /\ want' = NoType
             /\ mail' = mail \ {m} /\ taken' = taken \cup {m}
             /\ UNCHANGED <<arrived, round, decided>>

Decide(m) == /\ want # NoType
             /\ m \in mail /\ m.type = "decide"
             /\ mail' = mail \ {m} /\ want' = NoType /\ decided' = TRUE
             /\ UNCHANGED <<arrived, round, taken>>

Cancel == /\ want # NoType
          /\ want' = NoType
          /\ UNCHANGED <<mail, arrived, round, decided, taken>>

Advance == /\ want = NoType /\ ~decided
           /\ round' = round + 1
           /\ mail' = Current(mail, round')
           /\ UNCHANGED <<arrived, want, decided, taken>>

Next == \/ \E m \in Messages : Arrive(m) \/ Return(m) \/ Decide(m)
        \/ \E mt \in Types : Call(mt)
        \/ Cancel \/ Advance

Spec == Init /\ [][Next]_mailVars
=============================================================================
