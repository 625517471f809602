----------------------------- MODULE Consensus -----------------------------
(***************************************************************************)
(* What the Chandra-Toueg servers of pset2/ctconsensus.cc promise, without *)
(* rounds, leaders or messages: each server starts with a color and        *)
(* decides at most once, every decision is some server's initial color,    *)
(* and no two servers decide differently.  pset2/ctconsensus.cc:212-214    *)
(* states the two conditions that Nancy, the observer, validates.          *)
(***************************************************************************)
CONSTANTS Server, Color, NoColor

VARIABLES initial,   \* initial[i]: the color server i was started with
          decision   \* decision[i]: the color i decided, NoColor before

consensusVars == <<initial, decision>>

Init == /\ initial \in [Server -> Color]
        /\ decision = [i \in Server |-> NoColor]

\* Server i decides a color somebody started with, the one already decided
\* by anybody else if there is one.
Decide(i, c) == /\ decision[i] = NoColor
                /\ c \in {initial[j] : j \in Server}
                /\ \A j \in Server : decision[j] \in {NoColor, c}
                /\ decision' = [decision EXCEPT ![i] = c]
                /\ UNCHANGED initial

Next == \E i \in Server, c \in Color : Decide(i, c)

Spec == Init /\ [][Next]_consensusVars
=============================================================================
