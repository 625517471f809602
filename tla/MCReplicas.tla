----------------------------- MODULE MCReplicas -----------------------------
(***************************************************************************)
(* The instance of Replicas that is checked.  `on` says which of its       *)
(* programs the run is about; the others stay as they begin.               *)
(***************************************************************************)
EXTENDS Replicas, TLC

CONSTANTS c0, c1,      \* the clients
          FirstColor

VARIABLE on

TwoClients == {c0, c1}
Alike == Permutations(TwoClients)

\* Puts with and without a version to match, a cas on an absent key, removes.
AnyVersion == -1
Modify(t, k, v, e, m) ==
  [type |-> t, key |-> k, value |-> v, expected |-> e, match |-> m]
MCRequests ==
  {Modify("put", k, v, Empty, m) : k \in Key, v \in Value, m \in {AnyVersion, 2}}
  \cup {Modify("cas", k, v, Empty, AnyVersion) : k \in Key, v \in Value}
  \cup {Modify("remove", k, v, Empty, m) : k \in Key, v \in {CHOOSE w \in Value : TRUE},
                                          m \in {AnyVersion, 1}}
  \cup {Modify("get", k, v, Empty, AnyVersion) : k \in Key, v \in {CHOOSE w \in Value : TRUE}}

\* No definition tells one color from another; at most one server is stubborn, against
\* the others.
MCInit ==
  /\ StubbornInit /\ Alt!Init /\ Pancy!Init
  /\ initial[0] = FirstColor /\ Cardinality(stubborn) <= 1
  /\ \A i \in stubborn, j \in Server : i # j => initial[i] # initial[j]
  /\ on \in {"backup", "diff", "stubborn"}
  /\ on # "stubborn" => stubborn = {} /\ initial = [i \in Server |-> FirstColor]

MCNext ==
  \/ on = "backup" /\ Alt!Next /\ UNCHANGED <<on, pancyVars, stubbornVars>>
  \/ on = "diff" /\ Pancy!Next /\ UNCHANGED <<on, altVars, stubbornVars>>
  \/ on = "stubborn" /\ StubbornNext /\ UNCHANGED <<on, altVars, pancyVars>>
MCSpec == MCInit /\ [][MCNext]_<<on, altVars, pancyVars, stubbornVars>>
=============================================================================
