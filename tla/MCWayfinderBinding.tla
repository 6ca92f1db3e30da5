------------------------ MODULE MCWayfinderBinding ------------------------
EXTENDS WayfinderBinding, TLC

CONSTANTS u1, u2, m1, s1, s2, h1, j1, j2, easy, hard

\* u1 made the map; each player owns a spec, and u2's is the one a team map's
\* comment would name.
MCOwner == [s \in {s1, s2} |-> IF s = s1 THEN u1 ELSE u2]

MCNadeoAuthor == [m \in {m1} |-> u1]

\* u1 meets the easy criterion only.
MCEarned == {<<u1, easy>>}

\* The hat with either criterion, or a spec without it.
MCCatalogs == {[h \in {h1} |-> c] : c \in {easy, hard, Nil}}

JobSymmetry == Permutations({j1, j2})

-----------------------------------------------------------------------------
(* Authority: binding a map that is unbound or carries a legacy binding.   *)

AuthorityStarts ==
    [k \in Kinds |-> CASE k \in {"bind", "comment", "recheck", "delete"} -> 1
                       [] OTHER -> 0]

\* The map has no comment yet, or one naming the spec that is not the author's.
AuthorityInit ==
    /\ TablesInit \/ TablesLegacyInit
    /\ \A s \in Specs : spec[s].hats[h1] = easy
    /\ Idle
    /\ comment[m1] \in {s2, Nil}

AuthoritySpec == AuthorityInit /\ [][Next]_vars /\ Fairness

-----------------------------------------------------------------------------
(* Hats: players unlock, wear and show the hats of a map already bound.    *)

HatsStarts ==
    [k \in Kinds |-> CASE k \in {"equip", "move"} -> 2
                       [] k \in {"bind", "comment", "recheck", "unlock"} -> 1
                       [] OTHER -> 0]

\* The plugin server alone, without the API process.
GhostStarts == [HatsStarts EXCEPT !["recheck"] = 0]

\* The map is bound to the author's spec; the other one has the hat or not.
HatsInit ==
    /\ TablesBoundInit
    /\ spec[s1].hats[h1] = easy
    /\ spec[s2].alive /\ spec[s2].hats[h1] # hard
    /\ Idle

HatsSpec == HatsInit /\ [][Next]_vars
=============================================================================
