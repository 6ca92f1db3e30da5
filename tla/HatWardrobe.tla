---------------------------- MODULE HatWardrobe ----------------------------
(***************************************************************************)
(* What the hats of Wayfinder maps promise: what a map offers, who has     *)
(* unlocked it and who wears it.  There is no request, job, lock, spec row *)
(* or proof that travels here; WayfinderBinding implements this            *)
(* specification.                                                          *)
(***************************************************************************)
CONSTANTS Users, Maps, Slugs, Criteria, Earned, Legacy, Nil

VARIABLES
    live,      \* the maps whose hats can be unlocked, put on and seen
    catalog,   \* the hats on each map, with what record each demands
    unlocked,  \* what was proved for an unlock
    worn       \* the hat each player wears on each map

vars == <<live, catalog, unlocked, worn>>

Init ==
    /\ live \subseteq Maps
    /\ catalog \in [Maps -> [Slugs -> Criteria \cup {Nil}]]
    /\ unlocked \in [Users \X Maps \X Slugs -> Criteria \cup {Legacy, Nil}]
    /\ worn \in [Maps -> [Users -> Slugs \cup {Nil}]]
    /\ \A u \in Users, m \in Maps, h \in Slugs :
        /\ unlocked[<<u, m, h>>] \in Criteria => <<u, unlocked[<<u, m, h>>]>> \in Earned
        /\ worn[m][u] = h => catalog[m][h] # Nil /\ unlocked[<<u, m, h>>] # Nil

\* Another catalog comes to a map.  Hats it lacks come off, or all do; nobody
\* puts one on.
Stock(m, hats, all) ==
    /\ live' = live \cup {m}
    /\ catalog' = [catalog EXCEPT ![m] = hats]
    /\ worn' = [worn EXCEPT ![m] =
           [u \in Users |-> IF @[u] # Nil /\ (all \/ hats[@[u]] = Nil) THEN Nil ELSE @[u]]]
    /\ UNCHANGED unlocked

\* What the maps were stocked from has changed.
Close(outdated) ==
    /\ live' = live \ outdated
    /\ UNCHANGED <<catalog, unlocked, worn>>

\* A hat is unlocked once, by meeting what the map demands for it at that
\* moment, and for good.
Unlock(u, m, h) ==
    /\ m \in live
    /\ <<u, catalog[m][h]>> \in Earned
    /\ unlocked[<<u, m, h>>] = Nil
    /\ unlocked' = [unlocked EXCEPT ![<<u, m, h>>] = catalog[m][h]]
    /\ UNCHANGED <<live, catalog, worn>>

Wear(u, m, h) ==
    /\ m \in live
    /\ catalog[m][h] # Nil
    /\ unlocked[<<u, m, h>>] # Nil
    /\ worn' = [worn EXCEPT ![m][u] = h]
    /\ UNCHANGED <<live, catalog, unlocked>>

TakeOff(u, m) ==
    /\ worn' = [worn EXCEPT ![m][u] = Nil]
    /\ UNCHANGED <<live, catalog, unlocked>>

Next ==
    \/ \E outdated \in SUBSET Maps : Close(outdated)
    \/ \E m \in Maps, hats \in [Slugs -> Criteria \cup {Nil}], all \in BOOLEAN : Stock(m, hats, all)
    \/ \E u \in Users, m \in Maps : TakeOff(u, m) \/ \E h \in Slugs : Unlock(u, m, h) \/ Wear(u, m, h)

Spec == Init /\ [][Next]_vars
=============================================================================
