-------------------------- MODULE MCNadeoLookups --------------------------
EXTENDS NadeoLookups, TLC

CONSTANTS t1, t2, t3, k1, k2, g1, g2, g3, g4, a1

\* Both keys are one player's.
MCAccountOf == [k \in {k1, k2} |-> a1]
=============================================================================
