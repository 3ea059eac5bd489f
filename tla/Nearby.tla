-------------------------------- MODULE Nearby --------------------------------
(***************************************************************************)
(* The markets, hospitals and schools near a listing                       *)
(* (property/src/properties/nearby): looked up at a map provider when the  *)
(* listing is placed or its tags change, behind the answer, and stored     *)
(* with it.                                                                *)
(*                                                                         *)
(* What is around a place does not change.  Distances, and the order of    *)
(* the places found, are left out.                                         *)
(***************************************************************************)
EXTENDS Integers, FiniteSets

CONSTANTS
    Spots,       \* where the listing can be
    Categories,  \* NEARBY_CATEGORIES
    Around,      \* <<category, spot>>: there is one within the radius
    Lookups,     \* changes of the listing, each looking up once
    Readers,     \* people opening its page
    FirstTags,   \* what the listing was created with
    Nowhere

ASSUME NearbyAssumption ==
    FirstTags \subseteq Categories /\ \A p \in SUBSET Around : p # Nowhere

VARIABLES
    home,        \* the listing's place, tags and status
    stored,      \* property_nearby_places
    searched,    \* nearby_searched_at is set
    lookup,      \* each change, then the lookup behind it
    flipped,     \* its status was written, the page is still to be dropped
    page,        \* the nearby places on the cached page of the listing
    reader,      \* what each reader found, and is about to cache
    lookupLost,  \* a lookup or a drop failed, or its instance stopped
    editsMet,    \* an edit of the tags wrote over another
    late,        \* the page that is cached was read before the last drop
    missed       \* since the last drop, places were saved as of a hidden
                 \* listing that had been published meanwhile

(* The last four only remember.                                            *)
nearbyHistory == <<lookupLost, editsMet, late, missed>>
pageVars == <<page, reader, late, missed>>
nearbyVars == <<home, stored, searched, lookup, flipped, page, reader, nearbyHistory>>

Target == [place : Spots \cup {Nowhere}, tags : SUBSET Categories]
Idle == [step |-> "new"]
Done == [step |-> "done"]
TargetOf(listing) == [place |-> listing.place, tags |-> listing.tags]
PlacesOf(target) == {<<c, target.place>> : c \in target.tags} \cap Around

(* active: the listing was public, as read with the target.                *)
Lookup(step, target, active) == [step |-> step, target |-> target, active |-> active]
Steps == {"edit", "changed", "edited", "target", "find", "save", "commit", "show"}

Away == [step |-> "away"]
NotFound == [step |-> "load"]
Found(places, overtaken) == [step |-> "store", places |-> places, overtaken |-> overtaken]

NearbyTypeOK ==
    /\ home \in [place : Spots \cup {Nowhere}, tags : SUBSET Categories, active : BOOLEAN]
    /\ stored \subseteq Around /\ searched \in BOOLEAN
    /\ lookup \in [Lookups -> {Idle, Done} \cup [step : Steps, target : Target, active : BOOLEAN]]
    /\ page \in (SUBSET Around) \cup {Nowhere}
    /\ reader \in [Readers -> {Away, NotFound}
                   \cup [step : {"store"}, places : SUBSET Around, overtaken : BOOLEAN]]
    /\ flipped \in BOOLEAN /\ lookupLost \in BOOLEAN /\ editsMet \in BOOLEAN
    /\ late \in BOOLEAN /\ missed \in BOOLEAN

NearbyInit ==
    /\ home = [place |-> Nowhere, tags |-> FirstTags, active |-> TRUE]
    /\ stored = {} /\ searched = FALSE
    /\ lookup = [l \in Lookups |-> Idle]
    /\ flipped = FALSE
    /\ page = Nowhere /\ reader = [r \in Readers |-> Away]
    /\ lookupLost = FALSE /\ editsMet = FALSE /\ late = FALSE /\ missed = FALSE

-----------------------------------------------------------------------------
(* The page of the listing: cached under one key, without a version.       *)

(* A fault: the page stays.                                                *)
PageStays == page

PageDropped == Nowhere

(* Whoever has read already will cache what they read.                     *)
DropPage ==
    /\ page' = PageDropped
    /\ reader' = [r \in Readers |-> IF reader[r].step = "store" THEN Found(reader[r].places, TRUE)
                                     ELSE reader[r]]
    /\ late' = FALSE /\ missed' = FALSE

LookUpPage(r) ==
    /\ reader[r] = Away /\ page = Nowhere
    /\ reader' = [reader EXCEPT ![r] = NotFound]
    /\ UNCHANGED <<home, stored, searched, lookup, flipped, page, nearbyHistory>>

LoadPage(r) ==
    /\ reader[r] = NotFound
    /\ reader' = [reader EXCEPT ![r] = IF home.active THEN Found(stored, FALSE) ELSE Away]
    /\ UNCHANGED <<home, stored, searched, lookup, flipped, page, nearbyHistory>>

StorePage(r) ==
    /\ reader[r].step = "store"
    /\ page' = reader[r].places /\ late' = reader[r].overtaken
    /\ reader' = [reader EXCEPT ![r] = Away]
    /\ UNCHANGED <<home, stored, searched, lookup, flipped, lookupLost, editsMet, missed>>

-----------------------------------------------------------------------------
(* Changes of the listing.  Each reads it, writes the row and then drops   *)
(* the page.                                                               *)

BeginEdit(l) ==
    /\ lookup[l] = Idle
    /\ lookup' = [lookup EXCEPT ![l] = Lookup("edit", TargetOf(home), home.active)]
    /\ UNCHANGED <<home, stored, searched, flipped, page, reader, nearbyHistory>>

(* The pin is put somewhere.                                               *)
LocationChanged(l, x) ==
    /\ lookup[l].step = "edit"
    /\ home' = [home EXCEPT !.place = x]
    /\ lookup' = [lookup EXCEPT ![l].step = "changed"]
    /\ UNCHANGED <<stored, searched, flipped, page, reader, nearbyHistory>>

(* Only other categories are looked up again.                              *)
KeywordsChanged(l, tags) ==
    /\ lookup[l].step = "edit"
    /\ home' = [home EXCEPT !.tags = tags]
    /\ lookup' = [lookup EXCEPT ![l].step = IF tags # lookup[l].target.tags THEN "changed" ELSE "edited"]
    /\ editsMet' = (editsMet \/ home.tags # lookup[l].target.tags)
    /\ UNCHANGED <<stored, searched, flipped, page, reader, lookupLost, late, missed>>

(* The page goes if the listing was public when it was read; a lookup      *)
(* starts.                                                                 *)
RefreshPublicView(l) ==
    /\ lookup[l].step \in {"changed", "edited"}
    /\ IF lookup[l].active THEN DropPage ELSE UNCHANGED pageVars
    /\ lookup' = [lookup EXCEPT ![l] = IF @.step = "changed" THEN Lookup("target", @.target, FALSE) ELSE Done]
    /\ UNCHANGED <<home, stored, searched, flipped, lookupLost, editsMet>>

(* Published or taken off.                                                 *)
(* Bound: one change of the status at a time (others: Listings).           *)
StatusChanged ==
    /\ ~flipped
    /\ home' = [home EXCEPT !.active = ~@]
    /\ flipped' = TRUE
    /\ UNCHANGED <<stored, searched, lookup, page, reader, nearbyHistory>>

StatusRefreshed ==
    /\ flipped /\ flipped' = FALSE
    /\ \/ DropPage /\ UNCHANGED lookupLost
       \/ lookupLost' = TRUE /\ UNCHANGED pageVars
    /\ UNCHANGED <<home, stored, searched, lookup, editsMet>>

-----------------------------------------------------------------------------
(* refresh.                                                                *)

(* Nothing is asked of the provider for a listing without tags.            *)
CurrentTarget(l) ==
    /\ lookup[l].step = "target"
    /\ lookup' = [lookup EXCEPT ![l] =
                    IF home.place = Nowhere THEN Done
                    ELSE Lookup(IF home.tags = {} THEN "save" ELSE "find", TargetOf(home), FALSE)]
    /\ UNCHANGED <<home, stored, searched, flipped, page, reader, nearbyHistory>>

(* Without road distances the places are still worth showing.              *)
FindNearest(l) ==
    /\ lookup[l].step = "find"
    /\ \/ lookup' = [lookup EXCEPT ![l].step = "save"] /\ UNCHANGED lookupLost
       \/ lookup' = [lookup EXCEPT ![l] = Done] /\ lookupLost' = TRUE
    /\ UNCHANGED <<home, stored, searched, flipped, page, reader, editsMet, late, missed>>

(* A fault: it is still where it was.                                      *)
SamePlace(l) == home.place = lookup[l].target.place

StillCurrent(l) == TargetOf(home) = lookup[l].target

(* The transaction of save, under the listing's lock, reads the listing... *)
ReadCurrent(l) ==
    /\ lookup[l].step = "save"
    /\ \A k \in Lookups : lookup[k].step # "commit"
    /\ lookup' = [lookup EXCEPT ![l] =
                    IF StillCurrent(l) THEN Lookup("commit", @.target, home.active) ELSE Done]
    /\ UNCHANGED <<home, stored, searched, flipped, page, reader, nearbyHistory>>

(* ...and writes: who moves, edits or publishes it does not take the lock. *)
Save(l) ==
    /\ lookup[l].step = "commit"
    /\ stored' = PlacesOf(lookup[l].target)
    /\ searched' = (lookup[l].target.tags # {})
    /\ lookup' = [lookup EXCEPT ![l] = IF @.active THEN Lookup("show", @.target, FALSE) ELSE Done]
    /\ missed' = (missed \/ (home.active /\ ~lookup[l].active))
    /\ UNCHANGED <<home, flipped, page, reader, lookupLost, editsMet, late>>

DetailChanged(l) ==
    /\ lookup[l].step = "show"
    /\ DropPage
    /\ lookup' = [lookup EXCEPT ![l] = Done]
    /\ UNCHANGED <<home, stored, searched, flipped, lookupLost, editsMet>>

(* It fails or the instance stops: nobody drops the page or looks up again.*)
LookupLost(l) ==
    /\ lookup[l].step \in Steps \ {"edit"}
    /\ lookup' = [lookup EXCEPT ![l] = Done]
    /\ lookupLost' = TRUE
    /\ UNCHANGED <<home, stored, searched, flipped, page, reader, editsMet, late, missed>>

NearbyNext ==
    \/ \E l \in Lookups :
         \/ BeginEdit(l) \/ RefreshPublicView(l)
         \/ CurrentTarget(l) \/ FindNearest(l) \/ ReadCurrent(l) \/ Save(l) \/ DetailChanged(l)
         \/ LookupLost(l)
         \/ \E x \in Spots : LocationChanged(l, x)
         \/ \E tags \in SUBSET Categories : KeywordsChanged(l, tags)
    \/ StatusChanged \/ StatusRefreshed
    \/ \E r \in Readers : LookUpPage(r) \/ LoadPage(r) \/ StorePage(r)

-----------------------------------------------------------------------------
Settled == ~flipped /\ \A l \in Lookups : lookup[l].step \in {"new", "edit", "done"}

(* "Replaces the stored places, unless the listing moved or was re-tagged  *)
(* while looking (a newer lookup then writes)" (save): when the lookups    *)
(* are done, the places are those around where the listing is now, for the *)
(* tags it has now, in whatever order they ran and although it moves while *)
(* one of them writes, unless one was lost or an edit wrote over another.  *)
NearbyIsOfHere ==
    Settled /\ ~lookupLost /\ ~editsMet /\ home.place # Nowhere =>
      stored = PlacesOf(TargetOf(home)) /\ searched = (home.tags # {})

(* The page that is cached shows what is stored once lookups are done      *)
(* (detailChanged), though they save while the listing is published, taken *)
(* off, moved or read; unless one was lost, whoever cached the page had    *)
(* read it before it was last dropped, or the listing was published while  *)
(* places were being saved for a hidden one, which drops nothing.          *)
PageShowsNearby == Settled /\ ~lookupLost /\ ~late /\ ~missed => page \in {Nowhere, stored}

(* What is near a listing is stored and shown for where it is.             *)
NearbyIsRight == NearbyIsOfHere /\ PageShowsNearby

(* Refuted, each by what its guard excuses above: the page follows what is *)
(* stored, whoever reads it meanwhile; and whoever publishes it meanwhile. *)
LateReaderShowsNearby == Settled /\ ~lookupLost /\ ~missed => page \in {Nowhere, stored}
PublishedShowsNearby == Settled /\ ~lookupLost /\ ~late => page \in {Nowhere, stored}

=============================================================================
