-------------------------- MODULE WayfinderTables --------------------------
(***************************************************************************)
(* The tables behind the Wayfinder maps and the transactions on them, from *)
(* src/src/queries/{listed_maps,hats,custom_map_aux_specs}.rs and          *)
(* migrations 20260823101500 and 20260825130000.                           *)
(*                                                                         *)
(* A spec's (updated_at, spec_hash) pair is one revision number.  Of the   *)
(* catalogs a spec carries only the hats are kept: which slugs it has and  *)
(* what record each demands.  hat_catalog is always rewritten from the     *)
(* spec in the transaction that reads it, so it is not a variable.         *)
(***************************************************************************)
EXTENDS Naturals

CONSTANTS
    Users,
    Maps,
    Specs,      \* custom_map_aux_specs ids; the sequence never reuses one
    Slugs,
    Criteria,   \* what a hat's record_uids/finish_this_map demand
    Catalogs,   \* the hat catalogs mappers upload
    Owner,      \* custom_map_aux_specs.user_id
    NadeoAuthor,\* the author Nadeo names for a map
    Earned,     \* pairs of a user and a criterion Nadeo's records satisfy
    MaxRev,     \* bound: revisions of a spec
    Legacy,     \* the evidence of an unlock older than verification
    Nil         \* SQL NULL, no row

ASSUME TablesAssumption ==
    /\ Owner \in [Specs -> Users]
    /\ NadeoAuthor \in [Maps -> Users]
    /\ Catalogs \subseteq [Slugs -> Criteria \cup {Nil}]
    /\ Earned \subseteq Users \X Criteria
    /\ MaxRev \in Nat \ {0}
    /\ Nil \notin Users \cup Maps \cup Specs \cup Slugs \cup Criteria
    /\ Legacy \notin Criteria \cup {Nil}

VARIABLES
    spec,       \* custom_map_aux_specs
    bind,       \* map_listing_bind
    onMap,      \* hat_on_map: the catalog materialized for each map
    unlocked,   \* hat_unlock, with the criterion that was proved
    equipped    \* hat_equipped

tables == <<spec, bind, onMap, unlocked, equipped>>

NoBinding == [spec |-> Nil, author |-> Nil, mat |-> 0]

NoCatalog == [h \in Slugs |-> Nil]

SpecRows == [rev : 0 .. MaxRev, alive : BOOLEAN, hats : Catalogs \cup {NoCatalog}]

NoSpecRow == [rev |-> 0, alive |-> FALSE, hats |-> NoCatalog]

TablesTypeOK ==
    /\ spec \in [Specs -> SpecRows]
    /\ bind \in [Maps -> [spec : Specs \cup {Nil}, author : Users \cup {Nil},
                          mat : 0 .. MaxRev]]
    /\ onMap \in [Maps -> Catalogs \cup {NoCatalog}]
    /\ unlocked \in [Users \X Maps \X Slugs -> Criteria \cup {Legacy, Nil}]
    /\ equipped \in [Maps -> [Users -> Slugs \cup {Nil}]]

-----------------------------------------------------------------------------
(* Predicates the queries repeat.                                          *)

Bound(m) == bind[m].spec # Nil

\* author_verified_at IS NOT NULL AND verified_author_id = s.user_id
Verified(m) == Bound(m) /\ bind[m].author = Owner[bind[m].spec]

\* Verified, and the snapshot materialized is the spec's current one.
Usable(m) == Verified(m) /\ bind[m].mat = spec[bind[m].spec].rev

\* resolve_bound_spec, lock_materialized_spec: the client's id is only a hint.
UsableFor(m, s) == Usable(m) /\ bind[m].spec = s

\* equipped_push_entry
PushEntry(u, m) ==
    LET h == equipped[m][u]
    IN  IF h # Nil /\ Usable(m) /\ onMap[m][h] # Nil /\ unlocked[<<u, m, h>>] # Nil
        THEN {<<u, h>>}
        ELSE {}

Wearers(m) == {u \in Users : equipped[m][u] # Nil}

\* Those whose hat a catalog does not have.
Unmatched(m, hats) == {u \in Wearers(m) : hats[equipped[m][u]] = Nil}

-----------------------------------------------------------------------------
(* Transactions.                                                           *)

\* Databases a server may start on: some specs are uploaded, and
SpecsUploaded ==
    spec \in [Specs -> {NoSpecRow} \cup {[rev |-> 1, alive |-> TRUE, hats |-> c] : c \in Catalogs}]

\* no map is bound;
TablesInit ==
    /\ SpecsUploaded
    /\ bind = [m \in Maps |-> NoBinding]
    /\ onMap = [m \in Maps |-> NoCatalog]
    /\ unlocked = [k \in Users \X Maps \X Slugs |-> Nil]
    /\ equipped = [m \in Maps |-> [u \in Users |-> Nil]]

\* or one map carries a binding that predates verification (migration
\* 20260825130000 leaves it unverified), with the rows and a hat of that time;
TablesLegacyInit ==
    /\ SpecsUploaded
    /\ \E s \in Specs, m \in Maps, u \in Users, h \in Slugs :
        /\ spec[s].hats[h] # Nil
        /\ bind = [n \in Maps |-> IF n = m THEN [NoBinding EXCEPT !.spec = s] ELSE NoBinding]
        /\ onMap = [n \in Maps |-> IF n = m THEN spec[s].hats ELSE NoCatalog]
        /\ unlocked = [k \in Users \X Maps \X Slugs |-> IF k = <<u, m, h>> THEN Legacy ELSE Nil]
        /\ equipped = [n \in Maps |-> [v \in Users |-> IF n = m /\ v = u THEN h ELSE Nil]]

\* or one map's author has bound it and its hats are unlocked by some who
\* earned them.
TablesBoundInit ==
    /\ SpecsUploaded
    /\ \E s \in Specs, m \in Maps, proved \in SUBSET Earned :
        /\ spec[s].alive /\ Owner[s] = NadeoAuthor[m]
        /\ bind = [n \in Maps |-> IF n = m THEN [spec |-> s, author |-> Owner[s], mat |-> 1]
                                  ELSE NoBinding]
        /\ onMap = [n \in Maps |-> IF n = m THEN spec[s].hats ELSE NoCatalog]
        /\ unlocked = [k \in Users \X Maps \X Slugs |->
              IF k[2] = m /\ <<k[1], spec[s].hats[k[3]]>> \in proved
              THEN spec[s].hats[k[3]] ELSE Nil]
        /\ equipped = [n \in Maps |-> [u \in Users |-> Nil]]

\* Mutant: updated_at keeps its value on a conflict.
UpsertInPlace(s, c) ==
    /\ spec' = [spec EXCEPT ![s] = [rev |-> IF @.rev = 0 THEN 1 ELSE @.rev,
                                    alive |-> TRUE, hats |-> c]]
    /\ UNCHANGED <<bind, onMap, unlocked, equipped>>

\* upsert_spec_and_catalogs: the id's first upload or a change of a live one.
Upsert(s, c) ==
    /\ spec[s].rev = 0 \/ spec[s].alive
    /\ spec[s].rev < MaxRev
    /\ spec' = [spec EXCEPT ![s] = [rev |-> @.rev + 1, alive |-> TRUE, hats |-> c]]
    /\ UNCHANGED <<bind, onMap, unlocked, equipped>>

\* Mutant: hats are only taken off when purging.
TakenOffByPurge(m, src, purge) == IF purge THEN Wearers(m) ELSE {}

\* purge_map_equipment, and the unmatched delete of bind_map_from_catalog.
TakenOff(m, src, purge) == IF purge THEN Wearers(m) ELSE Unmatched(m, src.hats)

\* Mutant: the parameters of the binding's UPDATE are swapped.
MaterializeSwapped(m, s, src, purge) ==
    /\ bind' = [bind EXCEPT ![m] = [spec |-> s, author |-> s, mat |-> src.rev]]
    /\ onMap' = [onMap EXCEPT ![m] = src.hats]
    /\ UNCHANGED <<spec, unlocked, equipped>>

\* Mutant: only the INSERT records who verified the binding.
MaterializeUnsigned(m, s, src, purge) ==
    /\ bind' = [bind EXCEPT ![m] = [spec |-> s, author |-> IF Bound(m) THEN Nil ELSE Owner[s],
                                    mat |-> src.rev]]
    /\ onMap' = [onMap EXCEPT ![m] = src.hats]
    /\ UNCHANGED <<spec, unlocked, equipped>>

\* What commit_authoritative_bind and commit_comment_bind both end with: the
\* map's rows are replaced from the spec row the transaction locked (src), the
\* hats of TakenOff come off, and the snapshot is recorded.
Materialize(m, s, src, purge) ==
    /\ bind' = [bind EXCEPT ![m] = [spec |-> s, author |-> Owner[s], mat |-> src.rev]]
    /\ onMap' = [onMap EXCEPT ![m] = src.hats]
    /\ equipped' = [equipped EXCEPT ![m] =
           [u \in Users |-> IF u \in TakenOff(m, src, purge) THEN Nil ELSE @[u]]]
    /\ UNCHANGED <<spec, unlocked>>

\* Mutant: the foreign key does not restrict.
DeleteAnyway(s) ==
    /\ spec' = [spec EXCEPT ![s].alive = FALSE]
    /\ UNCHANGED <<bind, onMap, unlocked, equipped>>

\* delete_spec, refused by ON DELETE RESTRICT while a map is bound.
Delete(s) ==
    /\ \A m \in Maps : bind[m].spec # s
    /\ spec' = [spec EXCEPT ![s].alive = FALSE]
    /\ UNCHANGED <<bind, onMap, unlocked, equipped>>

Equip(u, m, h) ==
    /\ equipped' = [equipped EXCEPT ![m][u] = h]
    /\ UNCHANGED <<spec, bind, onMap, unlocked>>

\* The insert at the end of report_unlock, ON CONFLICT DO NOTHING.
GrantHat(u, m, h) ==
    /\ unlocked' = [unlocked EXCEPT ![<<u, m, h>>] = IF @ = Nil THEN onMap[m][h] ELSE @]
    /\ UNCHANGED <<spec, bind, onMap, equipped>>

-----------------------------------------------------------------------------
(* Properties of the tables.                                               *)

\* The foreign key: no binding outlives its spec.
BindingHasSpec == \A m \in Maps : Bound(m) => spec[bind[m].spec].alive

\* A usable binding's rows are exactly the current source spec's hats: no
\* upload slips between reading the spec and recording the snapshot.
UsableMatchesSource ==
    \A m \in Maps : Usable(m) => onMap[m] = spec[bind[m].spec].hats

\* Each unlock was proved against the criterion its catalog row had when the
\* unlock was committed, although the proof runs outside the transaction.
UnlocksWereEarned ==
    \A u \in Users, m \in Maps, h \in Slugs :
        unlocked[<<u, m, h>>] \in Criteria => <<u, unlocked[<<u, m, h>>]>> \in Earned
=============================================================================
