------------------------- MODULE MCPlayerProgress -------------------------
(* Two specs and three contents: the first two share both slugs, one by    *)
(* default and one written, but differ in the item's path and in the       *)
(* game's order; the third gives its default slug to two items.            *)
EXTENDS PlayerProgress, TLC
CONSTANTS first, second, doubled

MCContents == {first, second, doubled}

Item(slug, pickup, collect, zone) ==
    [slug |-> slug, pickup |-> pickup, collect |-> collect, zone |-> zone]

MCCollectibles ==
    (first :> <<Item(Nil, "none", "yes", FALSE)>>) @@
    (second :> <<Item(Nil, "none", "no", FALSE), Item(<<"Collectible", 1>>, "none", "none", FALSE)>>) @@
    (doubled :> <<Item(Nil, "grant", "none", FALSE), Item(<<"Collectible", 1>>, "zone", "none", TRUE)>>)

MCGames ==
    (first :> <<[slug |-> Nil, kind |-> "Sprint"]>>) @@
    (second :> <<[slug |-> <<"Sprint", 1>>, kind |-> "Survival"]>>) @@
    (doubled :> <<>>)

MCSlugs == {<<"Collectible", 1>>, <<"Sprint", 1>>}

\* The item may be collected since before the log.
MCOldRows == Users \X {<<"Collectible", 1>>}

MCTimes == {-1, 0, 1}

TaskSymmetry == Permutations(Tasks)
=============================================================================
