--------------------------- MODULE MCHatUnlocks ---------------------------
EXTENDS HatUnlocks

CONSTANTS h1, h2, h3, m1, m2, t1, t2

\* Two hats on one map, so that siblings drain together, and one on another.
MCMapOf == [h \in {h1, h2, h3} |-> IF h = h3 THEN m2 ELSE m1]
=============================================================================
