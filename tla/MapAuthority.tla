---------------------------- MODULE MapAuthority ----------------------------
(***************************************************************************)
(* What the binding of Wayfinder maps promises: which spec a map's hats    *)
(* are trusted under.  There is no request, lock, transaction or second    *)
(* process here; WayfinderBinding implements this specification.           *)
(***************************************************************************)
CONSTANTS Maps, Specs, Owner, NadeoAuthor, Nil

VARIABLES
    authority,  \* the spec each map is verified under, or Nil
    endorsed    \* the specs each map's published comment has named

vars == <<authority, endorsed>>

MadeBy(m, s) == Owner[s] = NadeoAuthor[m]

Init ==
    /\ authority \in [Maps -> Specs \cup {Nil}]
    /\ \A m \in Maps : authority[m] # Nil => MadeBy(m, authority[m])
    /\ endorsed \in [Maps -> SUBSET Specs]

\* The map's author claims an unclaimed map.
Claim(m, s) ==
    /\ authority[m] = Nil
    /\ MadeBy(m, s)
    /\ authority' = [authority EXCEPT ![m] = s]
    /\ UNCHANGED endorsed

\* The map's comment, which only its author can publish, decides, whatever the
\* map was verified under before.
Follow(m, s) ==
    /\ s \in endorsed[m]
    /\ authority' = [authority EXCEPT ![m] = s]
    /\ UNCHANGED endorsed

Endorse(m, s) ==
    /\ endorsed' = [endorsed EXCEPT ![m] = @ \cup {s}]
    /\ UNCHANGED authority

Next == \E m \in Maps, s \in Specs : Claim(m, s) \/ Follow(m, s) \/ Endorse(m, s)

Spec == Init /\ [][Next]_vars
=============================================================================
