-------------------------------- MODULE Alerts --------------------------------
(***************************************************************************)
(* Who is told of what happens to a listing (property/src/alerts,          *)
(* property/src/search/saved): the owner's followers, those whose saved    *)
(* search would show it, and those who saved it.  The listeners run behind *)
(* the request that caused the event, at their own pace; one that fails is *)
(* logged and nobody tries again.                                          *)
(***************************************************************************)
EXTENDS Listings

CONSTANTS
    Searches,     \* ids of saved searches
    Followers,    \* of the owner, as the user service says
    MaxSearches,  \* MAX_SAVED_SEARCHES
    FirstSearches \* bound: what the searches look for, by mix

VARIABLES
    search,     \* saved_searches, by id
    saved,      \* those that are there
    used,       \* ids that were given
    alerting,   \* those with alerts on
    saving,     \* requests that counted their user's searches
    matched,    \* saved_search_matches; a removed search never matches again
    followed,   \* followers_notified_at is set
    dropRecent, \* price_drop_notified_at is less than a day ago
    told,       \* how many pushes each person was sent, by what about
    drops,      \* pushes of price drops within a day
    asOf,       \* matched, as the listing was announced; None: it changed since
    failed      \* a push or a listener failed

(* The last four only remember.                                            *)
searchVars == <<search, saved, used, alerting, saving>>
claims == <<matched, followed, dropRecent>>
alertHistory == <<told, drops, asOf, failed>>
alertVars == <<searchVars, claims, alertHistory>>

Filter == [user : People, min : Int, max : Int, type : Types \cup {None},
           minPrice : Nat, maxPrice : Nat, minSize : Nat, maxSize : Nat,
           keywords : SUBSET {"pool"}]
About == {"new", "match", "drop", "sold"}
Happening == [to : {"followers", "searches", "savers"}, about : About, by : Requests,
              step : {"new", "tell", "match", "claim", "push"},
              row : Listing \cup {None}, hits : SUBSET Searches]

ASSUME AlertsAssumption ==
    /\ IsFiniteSet(Searches) /\ MaxSearches \in Nat
    /\ Followers \subseteq People \ {Owner}   \* nobody follows themself
    /\ \A m \in Mixes : FirstSearches[m] \subseteq [Searches -> Filter]

AlertsTypeOK ==
    /\ search \in [Searches -> Filter] /\ events \subseteq Happening
    /\ alerting \subseteq saved /\ saved \subseteq used /\ used \subseteq Searches
    /\ saving \subseteq used \ saved /\ matched \subseteq used
    /\ followed \in BOOLEAN /\ dropRecent \in BOOLEAN
    /\ told \in [About -> [People -> Nat]]

AlertsInit ==
    /\ search \in FirstSearches[mix]
    /\ saved = (IF "save" \in mix THEN {} ELSE Searches) /\ used = saved /\ alerting = saved
    /\ saving = {}
    /\ matched = {} /\ followed = IsOnMap(listing) /\ dropRecent = FALSE
    /\ told = [a \in About |-> [u \in People |->
                 IF a = "new" /\ followed /\ u \in Followers THEN 1 ELSE 0]]
    /\ drops = 0 /\ failed = FALSE
    /\ asOf = None

(* The rest of what changes when a listing is written or announced.  An    *)
(* announcement that meets another is not looked at.                       *)
Remember ==
    LET Of(some) == \E e \in some : e.to = "searches"
    IN  asOf' = IF listing' # listing \/ hidden' # hidden THEN None
                ELSE IF "match" \in mix /\ Of(events' \ events)
                THEN (IF Of(events) THEN None ELSE matched)
                ELSE asOf

Unlistened == <<listing, hidden, cacheVars, engaged, req, mix, history>>
Drop(e) == events' = events \ {e}
Goes(e, step) == events' = (events \ {e}) \cup {[e EXCEPT !.step = step]}

(* The notification service may not answer; what it was sent in other      *)
(* calls stands.                                                           *)
Push(about, users) ==
    \E sent \in IF "fail" \in mix THEN SUBSET users ELSE {users} :
      /\ told' = [told EXCEPT ![about] = [u \in People |-> @[u] + IF u \in sent THEN 1 ELSE 0]]
      /\ failed' = (failed \/ sent # users)

Breaks(e) ==
    /\ "fail" \in mix
    /\ e.step # "new"
    /\ Drop(e)
    /\ failed' = TRUE
    /\ UNCHANGED <<Unlistened, searchVars, claims, told, drops, asOf>>

-----------------------------------------------------------------------------
(* Followers.                                                              *)

(* A fault: somebody looked whether they had been told.                    *)
ClaimUnchecked(e) == Published

Claimable(e) == Published /\ ~followed

ClaimFollowers(e) ==
    /\ e.to = "followers" /\ e.step = "new"
    /\ IF Claimable(e) THEN followed' = TRUE /\ Goes(e, "tell")
       ELSE Drop(e) /\ UNCHANGED followed
    /\ UNCHANGED <<Unlistened, searchVars, matched, dropRecent, alertHistory>>

TellFollowers(e) ==
    /\ e.to = "followers" /\ e.step = "tell"
    /\ Push("new", Followers)
    /\ Drop(e)
    /\ UNCHANGED <<Unlistened, searchVars, claims, drops, asOf>>

-----------------------------------------------------------------------------
(* Saved searches.                                                         *)

ReadListing(e) ==
    /\ e.to = "searches" /\ e.step = "new"
    /\ IF Published /\ listing.place # None
       THEN events' = (events \ {e}) \cup {[e EXCEPT !.step = "match", !.row = listing]}
       ELSE Drop(e)
    /\ UNCHANGED <<Unlistened, alertVars>>

MatchingSearches(e) ==
    /\ e.to = "searches" /\ e.step = "match"
    /\ LET hits == {s \in alerting : search[s].user # Owner /\ MatchesSearch(e.row, search[s])}
       IN  IF hits = {} THEN Drop(e)
           ELSE events' = (events \ {e}) \cup
                             {[e EXCEPT !.step = "claim", !.row = None, !.hits = hits]}
    /\ UNCHANGED <<Unlistened, alertVars>>

(* A fault: whoever matches is told.                                       *)
AllHits(hits) == hits

Fresh(hits) == hits \ matched

(* A search removed meanwhile breaks the whole insert.                     *)
ClaimNew(e) ==
    /\ e.to = "searches" /\ e.step = "claim"
    /\ IF e.hits \subseteq saved
       THEN /\ matched' = matched \cup e.hits
            /\ events' = (events \ {e}) \cup {[e EXCEPT !.step = "push", !.hits = Fresh(@)]}
            /\ UNCHANGED failed
       ELSE Drop(e) /\ failed' = TRUE /\ UNCHANGED matched
    /\ UNCHANGED <<Unlistened, searchVars, followed, dropRecent, told, drops, asOf>>

PushMatches(e) ==
    /\ e.to = "searches" /\ e.step = "push"
    /\ Push("match", {search[s].user : s \in e.hits})
    /\ Drop(e)
    /\ UNCHANGED <<Unlistened, searchVars, claims, drops, asOf>>

CountSearches(s) ==
    /\ "save" \in mix
    /\ s \notin used
    /\ Cardinality({t \in saved : search[t].user = search[s].user}) < MaxSearches
    /\ used' = used \cup {s} /\ saving' = saving \cup {s}
    /\ UNCHANGED <<Unlistened, events, search, saved, alerting, claims, alertHistory>>

SaveSearch(s) ==
    /\ s \in saving
    /\ saving' = saving \ {s} /\ saved' = saved \cup {s}
    /\ alerting' \in {alerting, alerting \cup {s}}
    /\ asOf' = None
    /\ UNCHANGED <<Unlistened, events, search, used, claims, told, drops, failed>>

(* Bound: alerts are switched in one direction.                            *)
SwitchAlerts(s) ==
    /\ "save" \in mix
    /\ s \in saved \ alerting /\ alerting' = alerting \cup {s}
    /\ asOf' = None
    /\ UNCHANGED <<Unlistened, events, search, saved, used, saving, claims, told, drops, failed>>

(* A fault: its alerts stay.                                               *)
RemoveRowOnly(s) ==
    /\ "unsave" \in mix
    /\ s \in saved
    /\ saved' = saved \ {s}
    /\ UNCHANGED <<Unlistened, events, search, used, alerting, saving, claims, alertHistory>>

RemoveSearch(s) ==
    /\ "unsave" \in mix
    /\ s \in saved
    /\ saved' = saved \ {s} /\ alerting' = alerting \ {s}
    /\ asOf' = None
    /\ UNCHANGED <<Unlistened, events, search, used, saving, claims, told, drops, failed>>

-----------------------------------------------------------------------------
(* Those who saved the listing.                                            *)

(* A fault: every drop is told.                                            *)
EveryDrop == listing.status = "Active"

DropClaimable == listing.status = "Active" /\ ~dropRecent

ClaimDrop(e) ==
    /\ e.about = "drop" /\ e.step = "new"
    /\ IF DropClaimable THEN /\ dropRecent' = TRUE /\ drops' = drops + 1
                             /\ Goes(e, "tell")
       ELSE Drop(e) /\ UNCHANGED <<dropRecent, drops>>
    /\ UNCHANGED <<Unlistened, searchVars, matched, followed, told, asOf, failed>>

(* A fault: the owner may have saved it too.                               *)
AllSavers == engaged["favorite"]

Savers == engaged["favorite"] \ {Owner}

TellSavers(e) ==
    /\ e.to = "savers" /\ e.step = IF e.about = "drop" THEN "tell" ELSE "new"
    /\ Push(e.about, Savers)
    /\ Drop(e)
    /\ UNCHANGED <<Unlistened, searchVars, claims, drops, asOf>>

DayPasses ==
    /\ dropRecent
    /\ dropRecent' = FALSE /\ drops' = 0
    /\ UNCHANGED <<Unlistened, events, searchVars, matched, followed, told, asOf, failed>>

(* Bound: where a cached answer is looked at the listeners do not act.     *)
AlertsNext ==
    \/ \E e \in IF "look" \in mix THEN {} ELSE events :
                         \/ ClaimFollowers(e) \/ TellFollowers(e)
                         \/ ReadListing(e) \/ MatchingSearches(e) \/ ClaimNew(e) \/ PushMatches(e)
                         \/ ClaimDrop(e) \/ TellSavers(e) \/ Breaks(e)
    \/ \E s \in Searches : \/ CountSearches(s) \/ SaveSearch(s) \/ SwitchAlerts(s)
                           \/ RemoveSearch(s)
    \/ DayPasses

-----------------------------------------------------------------------------
(* "When a listing first goes on the map, tells everyone following its     *)
(* owner.  Once per listing" (FollowerAlerts): however often it goes live, *)
(* by however many requests at once.                                       *)
FollowersToldOnce == \A u \in People : told["new"][u] <= 1

(* And they are told: whichever request put it on the map, when all is     *)
(* done, unless something failed or the owner was hidden.                  *)
FollowersHear ==
    /\ InFlight = {} /\ events = {}
    /\ IsOnMap(listing) /\ "hide" \notin mix /\ ~failed
    => \A u \in Followers : told["new"][u] = 1

(* "Tells everyone whose saved search would show it on the map"            *)
(* (SavedSearchMatcher): if nothing changed since it was announced, the    *)
(* searches alerted are those whose map shows the listing.                 *)
AlertedAsOnMap ==
    /\ InFlight = {} /\ events = {} /\ ~failed
    /\ asOf # None
    => \A s \in alerting \ asOf :
         s \in matched <=> Published /\ search[s].user # Owner /\ OnMapOf(listing, search[s])

(* "Each search alerts about a listing once, even if it is unpublished and *)
(* published again" (SavedSearchMatcher).                                  *)
EachSearchOnce ==
    \A u \in People :
      told["match"][u] <= Cardinality({s \in matched : search[s].user = u})

(* "Each person gets one push per listing however many of their searches   *)
(* match" (SavedSearchMatcher).                                            *)
OnePushPerPerson == \A u \in People : told["match"][u] <= 1

(* "A row of small cuts in an afternoon is one notification"               *)
(* (listingPriceDropped).                                                  *)
OneDropADay == drops <= 1

(* "The owner is never told" (SavedListingAlerts, SavedSearchMatcher),     *)
(* though the owner may save the listing, or a search that finds it.       *)
OwnerIsNeverTold == \A a \in About : told[a][Owner] = 0

(* Whichever listeners meet, followers, searches and price drops do not    *)
(* tell twice.  Two searches of one person, and two sales, may.            *)
NoAlertTwice == FollowersToldOnce /\ EachSearchOnce /\ OneDropADay /\ OwnerIsNeverTold

(* And whoever is waiting for such a listing is told: it is announced, and *)
(* followers and matching searches are alerted (listing-changes.service).  *)
OnTheMapIsHeard == OnTheMapIsAnnounced /\ FollowersHear /\ AlertedAsOnMap

=============================================================================
