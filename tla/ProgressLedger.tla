--------------------------- MODULE ProgressLedger ---------------------------
(***************************************************************************)
(* What the reports of a map's collectibles and minigames promise: each    *)
(* counts as a whole, at one moment, and is judged by what the map has at  *)
(* that moment and by what the player has done until then.  There is no    *)
(* connection, transaction, lock or statement here; PlayerProgress         *)
(* implements this specification.                                          *)
(***************************************************************************)
EXTENDS Integers

CONSTANTS Users, Slugs, Times

Sources == {"zone", "grant"}

Keys == Users \X Slugs

VARIABLES
    offer,      \* the map's items, the ways to collect them, and its games with their order
    unlocked,   \* who has unlocked what
    collected,  \* who has collected what
    first,      \* how a player collected an item the first time, or "none"
    best,       \* a player's row at a game
    finished    \* the player's finishes there, each with the order it was made under

vars == <<offer, unlocked, collected, first, best, finished>>

Offers == [items : SUBSET Slugs, paths : SUBSET (Slugs \X Sources),
           games : SUBSET (Slugs \X BOOLEAN)]

\* What was collected before first collections were put on record has none.
Init ==
    /\ offer = [items |-> {}, paths |-> {}, games |-> {}]
    /\ unlocked \in SUBSET Keys /\ collected \in SUBSET unlocked
    /\ first = [key \in Keys |-> "none"]
    /\ best = [key \in Keys |-> [score |-> 0, finishes |-> 0, attempts |-> 0]]
    /\ finished = [key \in Keys |-> {}]

\* Another spec, or another content of it, comes to the map; what players have
\* done stays.
Rebind ==
    /\ offer' \in Offers
    /\ UNCHANGED <<unlocked, collected, first, best, finished>>

Unlock(u, k) ==
    /\ k \in offer.items
    /\ unlocked' = unlocked \cup {<<u, k>>}
    /\ UNCHANGED <<offer, collected, first, best, finished>>

\* The first collection is the one on record.
Collect(u, k, source) ==
    /\ k \in offer.items
    /\ <<k, source>> \in offer.paths
    /\ unlocked' = unlocked \cup {<<u, k>>}
    /\ collected' = collected \cup {<<u, k>>}
    /\ first' = [first EXCEPT ![<<u, k>>] = IF <<u, k>> \in collected THEN @ ELSE source]
    /\ UNCHANGED <<offer, best, finished>>

\* A run at a game that was given up or lost.
Attempt(u, k) ==
    /\ \E lower \in BOOLEAN : <<k, lower>> \in offer.games
    /\ best' = [best EXCEPT ![<<u, k>>].attempts = @ + 1]
    /\ UNCHANGED <<offer, unlocked, collected, first, finished>>

Beats(time, lower, row) ==
    \/ row.finishes = 0
    \/ IF lower THEN time < row.score ELSE time > row.score

Finish(u, k, lower, time) ==
    /\ <<k, lower>> \in offer.games
    /\ time >= 0
    /\ best' = [best EXCEPT ![<<u, k>>] =
           [score |-> IF Beats(time, lower, @) THEN time ELSE @.score,
            finishes |-> @.finishes + 1,
            attempts |-> @.attempts + 1]]
    /\ finished' = [finished EXCEPT ![<<u, k>>] = @ \cup {<<time, lower>>}]
    /\ UNCHANGED <<offer, unlocked, collected, first>>

Next ==
    \/ Rebind
    \/ \E u \in Users, k \in Slugs :
           \/ Unlock(u, k)
           \/ \E source \in Sources : Collect(u, k, source)
           \/ Attempt(u, k)
           \/ \E lower \in BOOLEAN, time \in Times : Finish(u, k, lower, time)

Spec == Init /\ [][Next]_vars
=============================================================================
