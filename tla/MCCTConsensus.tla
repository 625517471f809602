--------------------------- MODULE MCCTConsensus ---------------------------
EXTENDS CTConsensus
CONSTANT FirstColor
\* No definition tells one color from another: server 0 starts with FirstColor.
MCInit == Init /\ initial[0] = FirstColor
MCSpec == MCInit /\ [][Next]_vars /\ Fairness
=============================================================================
