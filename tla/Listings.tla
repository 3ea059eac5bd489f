------------------------------- MODULE Listings -------------------------------
(***************************************************************************)
(* A listing of the property service (property/src/properties): what its   *)
(* owner and the payment service do to it, what the public sees of it      *)
(* through the cache, what others do with it, and the events it gives off. *)
(*                                                                         *)
(* One listing: listings do not touch one another.  Each action is one     *)
(* call to the database or to Redis with the code up to the next await.    *)
(* A request is a record in "req", used once; a text or a date is told     *)
(* apart by the request that wrote it.  The read replica is up to date,    *)
(* and a cached answer does not expire.                                    *)
(***************************************************************************)
EXTENDS MapSearch

CONSTANTS
    Requests, Readers,
    Owner, People,  \* everybody with an account
    Boxes,          \* bound: the maps that are looked at
    Prices,         \* what a buyer pays, each more than 1% below the next
    Mixes,          \* bound: the sets of operations that meet
    FirstListings   \* bound: what the listing may be at first, by mix


VARIABLES
    listing,    \* the row in properties
    hidden,     \* users.deactivated_at of the owner is set
    looked,     \* bound: which cached answer is looked at
    cached,     \* that answer under its current version
    reading,    \* those who found nothing there
    engaged,    \* property_likes, _favorites, _views, _leads, _contacts
    req,
    events,     \* what listeners were told of and are not done with
    mix,        \* bound: which operations meet
    owed,       \* it came on the map and nothing was announced since
    crossed,    \* a request wrote after another had changed what it read
    misread,    \* since the answer was last outdated, a request wrote that
                \* had read another status or place
    lost,       \* Redis did not count the version up
    late        \* the page was stored by a reader the deletion overtook

(* The last five only remember.                                            *)
history == <<owed, crossed, misread, lost, late>>
cacheVars == <<looked, cached, reading>>
listingVars == <<listing, hidden, cacheVars, engaged, req, events, mix, history>>

(* "New": not created yet.                                                 *)
Statuses == {"New", "Draft", "Pending", "Active", "Expired", "Sold", "Deleted"}
Kinds == {"like", "favorite", "view", "lead", "contact"}

Keys == {[of |-> o, box |-> None] : o \in {"page", "text", "owner", "positions"}}
          \cup {[of |-> "map", box |-> WidenToGrid(b)] : b \in Boxes}

Listing == [status : Statuses, place : Positions \cup {None},
            text : Requests \cup {None}, date : Requests \cup {None, "first"},
            price : Prices, was : Prices \cup {0},    \* previous_price
            type : Types, landSize : Nat, buildingSize : Nat, keywords : SUBSET {"pool"}]

(* A listing marked as dropped costs less than before, and has no details  *)
(* of another type.                                                        *)
IsConsistent(row) ==
    /\ row.was # 0 => row.price < row.was
    /\ \A f \in Fields \ FieldsOf[row.type] : row[f] = 0

ASSUME ListingsAssumption ==
    /\ Owner \in People /\ Prices \subseteq Nat \ {0}
    /\ Boxes \subseteq [min : Int, max : Int]
    /\ \A m \in Mixes : \A row \in FirstListings[m] :
         row \in Listing /\ IsConsistent(row) /\ (row.status = "New" => row.date = None)

Face == [text : Requests \cup {None}, price : Prices \cup {0}, place : Positions \cup {None}]
Absent == [text |-> None, price |-> 0, place |-> None]
Reader == [step : {"load", "store"}, value : Face, current : BOOLEAN]

(* The columns that are given, over those of a row: TLC's @@, of which the *)
(* prover knows nothing.                                                   *)
Over(columns, row) ==
    [c \in DOMAIN columns \cup DOMAIN row |-> IF c \in DOMAIN columns THEN columns[c] ELSE row[c]]

Asked(op, step, who, data) ==
    [op |-> op, step |-> step, who |-> who, data |-> data,
     before |-> listing, after |-> listing, stale |-> FALSE]

Unused == [step |-> "unused"]
Done == [step |-> "done"]

(* Bound: "once" and "pair" say how many requests are made.                *)
Free(r) ==
    LET made == Cardinality({q \in Requests : req[q] # Unused})
    IN  req[r] = Unused /\ ("once" \in mix => made < 1) /\ ("pair" \in mix => made < 2)

At(r, step) == req[r].step = step
InFlight == {r \in Requests : req[r].step \notin {"unused", "done"}}

ListingsTypeOK ==
    /\ listing \in Listing /\ hidden \in BOOLEAN
    /\ looked \in Keys /\ cached \in Face \cup {None}
    /\ reading \in [Readers -> Reader \cup {None}]
    /\ engaged \in [Kinds -> SUBSET People]
    /\ \A r \in InFlight : /\ req[r].before \in Listing /\ req[r].after \in Listing
                           /\ req[r].who \in People /\ req[r].stale \in BOOLEAN

ListingsInit ==
    /\ mix \in Mixes
    /\ listing \in FirstListings[mix]
    /\ hidden = FALSE
    /\ looked \in IF "look" \in mix THEN Keys ELSE {k \in Keys : k.of = "page"}
    /\ cached = None
    /\ reading = [d \in Readers |-> None]
    /\ engaged = [k \in Kinds |-> {}]
    /\ req = [r \in Requests |-> Unused]
    /\ events = {}
    /\ owed = FALSE /\ crossed = FALSE /\ misread = FALSE /\ lost = FALSE /\ late = FALSE

-----------------------------------------------------------------------------
Published == listing.status = "Active" /\ ~hidden
IsOnMap(row) == row.status = "Active" /\ row.place # None

Shown == [text |-> listing.text, price |-> listing.price, place |-> listing.place]

(* What an answer says when it is read now.                                *)
Now(key) ==
    IF Published /\ CASE key.of = "map" -> InBox(listing.place, key.box)
                      [] key.of = "positions" -> listing.place # None
                      [] OTHER -> TRUE
    THEN Shown ELSE Absent

-----------------------------------------------------------------------------
(* The rules of a listing's statuses.                                      *)

CanPublish(status) == status \in {"Draft", "Expired"}
CanMarkSold(status) == status = "Active"
CanRelist(status) == status \in {"Sold", "Expired"}
DatesAnew(status) == status \in {"Sold", "Expired"}

(* A fault: going live is always news.                                     *)
AlwaysNew(r, row) == r

PublishedAtGoingLive(r, row) == IF row.date = None \/ DatesAnew(row.status) THEN r ELSE row.date

GoesActive(r) == [status |-> "Active", date |-> PublishedAtGoingLive(r, listing)]

ClearedFieldsFor(type) == [f \in Fields \ FieldsOf[type] |-> 0]

(* A fault: the mark stays when the price is back.                         *)
MarkedForGood(row, price) ==
    IF row.status = "Active" /\ price < row.price THEN [was |-> row.price] ELSE <<>>

PriceDropColumns(row, price) ==
    IF row.status = "Active" /\ price < row.price THEN [was |-> row.price]
    ELSE IF row.was # 0 /\ price >= row.was THEN [was |-> 0] ELSE <<>>

-----------------------------------------------------------------------------
(* What the owner asks for: the row is read and what will be written is    *)
(* worked out from it.                                                     *)

(* Each is written by one update, whatever the row is by then.             *)
Begin(r, op, data) ==
    /\ op \in mix
    /\ Free(r)
    /\ listing.status \notin {"New", "Deleted"}
    /\ req' = [req EXCEPT ![r] = Asked(op, "write", Owner, data)]
    /\ UNCHANGED <<listing, hidden, cacheVars, engaged, events, mix, history>>

Create(r) ==
    /\ "create" \in mix
    /\ Free(r)
    /\ listing.status = "New"
    /\ \E data \in {[status |-> "Draft"], [status |-> "Active", date |-> r]} :
         req' = [req EXCEPT ![r] = Asked("create", "write", Owner,
                                         Over(data, ClearedFieldsFor(listing.type)))]
    /\ UNCHANGED <<listing, hidden, cacheVars, engaged, events, mix, history>>

Update(r) ==
    \/ Begin(r, "text", Over([text |-> r], ClearedFieldsFor(listing.type)))
    \/ \E p \in Prices : Begin(r, "price", Over([price |-> p], PriceDropColumns(listing, p)))
    \/ \E t \in Types : Begin(r, "type", Over([type |-> t], ClearedFieldsFor(t)))
    \/ Begin(r, "size", Over(ClearedFieldsFor(listing.type), [buildingSize |-> 2]))

(* A boundary too small to have a centre leaves the pin where it is.       *)
Move(r) ==
    \/ \E x \in Positions : Begin(r, "move", [place |-> x])
    \/ Begin(r, "boundary", [text |-> r])

SetStatus(r) ==
    \/ Begin(r, "remove", [status |-> "Deleted"])
    \/ Begin(r, "unpublish", [status |-> "Draft"])
    \/ CanPublish(listing.status) /\ Begin(r, "publish", GoesActive(r))
    \/ CanMarkSold(listing.status) /\ Begin(r, "sell", [status |-> "Sold"])
    \/ CanRelist(listing.status) /\ Begin(r, "relist", GoesActive(r))

(* The payment service parks the listing while a payment is awaited.       *)
BeginPublish(r) ==
    /\ CanPublish(listing.status)
    /\ Begin(r, "park", IF DatesAnew(listing.status) THEN [status |-> "Pending", date |-> None]
                        ELSE [status |-> "Pending"])

-----------------------------------------------------------------------------
(* The row changes.  Requests that have read it read something else.       *)
Unwritten == {"write", "thumb", "insert", "takeOff"}

Changes(row, stale) ==
    /\ listing' = row
    /\ owed' = (IsOnMap(row) /\ (owed \/ ~IsOnMap(listing)))
    /\ crossed' = (crossed \/ stale)

Others(r, mine) ==
    [q \in Requests |->
       IF q = r THEN mine
       ELSE IF req[q].step \in Unwritten THEN [req[q] EXCEPT !.stale = TRUE] ELSE req[q]]

(* What it will outdate is worked out from what it read.                   *)
SawAnother(request) ==
    request.before.status # listing.status \/ request.before.place # listing.place

Write(r) ==
    /\ At(r, "write")
    /\ misread' = (misread \/ SawAnother(req[r]))
    /\ LET row == Over(req[r].data, listing)
       IN  /\ Changes(row, req[r].stale)
           /\ req' = Others(r, IF req[r].op = "park" THEN Done
                               ELSE [req[r] EXCEPT !.step = "after", !.after = row,
                                                   !.data = <<>>, !.stale = FALSE])
    /\ UNCHANGED <<hidden, cacheVars, engaged, events, mix, lost, late>>

(* A payment was settled.  The listing goes live if it is still waiting,   *)
(* dated if it has no date, in a second update if it has one; its row is   *)
(* read again for the cache.                                               *)
SettlePublish(r) ==
    /\ "settle" \in mix
    /\ Free(r)
    /\ IF listing.status = "Pending" /\ listing.date = None
       THEN /\ Changes([listing EXCEPT !.status = "Active", !.date = r], FALSE)
            /\ req' = Others(r, Asked("settle", "row", Owner, <<>>))
       ELSE /\ req' = [req EXCEPT ![r] = Asked("settle", "second", Owner, <<>>)]
            /\ UNCHANGED <<listing, owed, crossed>>
    /\ UNCHANGED <<hidden, cacheVars, engaged, events, mix, misread, lost, late>>

GoLive(r) ==
    /\ At(r, "second")
    /\ IF listing.status = "Pending"
       THEN /\ Changes([listing EXCEPT !.status = "Active"], FALSE)
            /\ req' = Others(r, [req[r] EXCEPT !.step = "row"])
       ELSE /\ req' = [req EXCEPT ![r] = Done]
            /\ UNCHANGED <<listing, owed, crossed>>
    /\ UNCHANGED <<hidden, cacheVars, engaged, events, mix, misread, lost, late>>

(* The user service hid the owner's account, or shows it again, and says   *)
(* so: its published listings are read.                                    *)
VisibilityChanged(r) ==
    /\ "hide" \in mix
    /\ Free(r)
    /\ hidden' = ~hidden
    /\ req' = [req EXCEPT ![r] = Asked("account", "row", Owner, <<>>)]
    /\ UNCHANGED <<listing, cacheVars, engaged, events, mix, history>>

ReadRow(r) ==
    /\ At(r, "row")
    /\ req' = [req EXCEPT ![r] =
                 IF @.op = "account" /\ listing.status # "Active" THEN Done
                 ELSE [@ EXCEPT !.step = "after", !.before = listing, !.after = listing]]
    /\ UNCHANGED <<listing, hidden, cacheVars, engaged, events, mix, history>>

(* A payment did not come off.                                             *)
ReleasePending(r) ==
    /\ "settle" \in mix
    /\ Free(r)
    /\ listing.status = "Pending"
    /\ \E status \in {"Draft", "Expired"} :
         Changes([listing EXCEPT !.status = status], FALSE)
    /\ req' = Others(r, Done)
    /\ UNCHANGED <<hidden, cacheVars, engaged, events, mix, misread, lost, late>>

-----------------------------------------------------------------------------
(* The change is made known.                                               *)

StatusesOf(request) ==
    CASE request.op \in {"settle", "account"} -> {"Active"}
      [] request.op \in {"create", "publish", "relist", "unpublish", "sell", "remove"} ->
           {request.before.status, request.after.status}
      [] OTHER -> {request.before.status}

(* A fault: where it was is forgotten.                                     *)
OnlyWhereItIs(request) == CellOf(request.after.place)

CellsOf(request) ==
    CellOf(request.after.place)
      \cup IF request.op \in {"move", "boundary"} THEN CellOf(request.before.place) ELSE {}

(* Whether the version of the answer is counted up, or the page dropped.   *)
Outdates(request) ==
    /\ "Active" \in StatusesOf(request)
    /\ looked.of = "map" /\ ~IsWide(looked.box) =>
         CellsOf(request) \cap CellsIn(looked.box) # {}

(* A fault: where the listing was when the request read it.                *)
WasThere(request) ==
    request.after.status = "Active" /\ request.before.place # None
      /\ ~IsOnMap(request.before)

CameOnMap(request) == IsOnMap(request.after) /\ ~IsOnMap(request.before)

IsNews(request) ==
    \/ request.op = "settle"
    \/ request.op \notin {"account", "text", "price", "type", "size", "confirm", "takeOff"} /\ CameOnMap(request)

Event(r, to, about) ==
    [to |-> to, about |-> about, by |-> r, step |-> "new", row |-> None, hits |-> {}]

Emitted(r) ==
    LET asked == req[r]
    IN  (IF IsNews(asked) THEN {Event(r, "followers", "new"), Event(r, "searches", "new")} ELSE {})
          \cup (IF asked.op = "price" /\ asked.before.status = "Active"
                     /\ asked.after.price < asked.before.price
                THEN {Event(r, "savers", "drop")} ELSE {})
          \cup (IF asked.op = "sell" /\ asked.before.status = "Active"
                THEN {Event(r, "savers", "sold")} ELSE {})

(* The cached answers are outdated; the events follow.  Who takes photos   *)
(* off goes on to their files.                                             *)
Outdate(r) ==
    /\ IF Outdates(req[r])
       THEN \/ /\ cached' = None
               /\ reading' = [d \in Readers |->
                                IF reading[d] = None \/ looked.of = "page" THEN reading[d]
                                ELSE [reading[d] EXCEPT !.current = FALSE]]
               /\ misread' = FALSE /\ lost' = FALSE
               /\ late' = \E d \in Readers : /\ looked.of = "page" /\ reading[d] # None
                                             /\ reading[d].step = "store"
                                             /\ reading[d].value # Now(looked)
            \/ /\ "redis" \in mix
               /\ lost' = TRUE
               /\ UNCHANGED <<cached, reading, misread, late>>
       ELSE UNCHANGED <<cached, reading, misread, lost, late>>

Announce(r) ==
    /\ At(r, "after")
    /\ Outdate(r)
    /\ events' = events \cup Emitted(r)
    /\ owed' = (owed /\ ~IsNews(req[r]))
    /\ req' = [req EXCEPT ![r] = IF @.op = "takeOff" THEN [@ EXCEPT !.step = "still"] ELSE Done]
    /\ UNCHANGED <<listing, hidden, looked, engaged, mix, crossed>>

-----------------------------------------------------------------------------
(* A reader finds nothing under the current version, asks the database,    *)
(* and stores the answer under the version it had read.                    *)

Miss(d) ==
    /\ {"look", "page"} \cap mix # {}
    /\ cached = None
    /\ reading[d] = None
    /\ reading' = [reading EXCEPT ![d] = [step |-> "load", value |-> Absent, current |-> TRUE]]
    /\ UNCHANGED <<listing, hidden, looked, cached, engaged, req, events, mix, history>>

(* A page that is not published is not found, which is not stored.         *)
Load(d) ==
    /\ reading[d] # None /\ reading[d].step = "load"
    /\ reading' = [reading EXCEPT ![d] =
                     IF ~reading[d].current \/ (looked.of = "page" /\ ~Published) THEN None
                     ELSE [@ EXCEPT !.step = "store", !.value = Now(looked)]]
    /\ UNCHANGED <<listing, hidden, looked, cached, engaged, req, events, mix, history>>

Store(d) ==
    /\ reading[d] # None /\ reading[d].step = "store"
    /\ cached' = IF reading[d].current THEN reading[d].value ELSE cached
    /\ reading' = [reading EXCEPT ![d] = None]
    /\ UNCHANGED <<listing, hidden, looked, engaged, req, events, mix, history>>

-----------------------------------------------------------------------------
(* What others do with a published listing.                                *)

VisibleOwnerId(r, who, kind) ==
    /\ "engage" \in mix
    /\ Free(r)
    /\ Published
    /\ kind \in {"view", "lead"} => who # Owner
    /\ req' = [req EXCEPT ![r] = Asked(kind, "engage", who, <<>>)]
    /\ UNCHANGED <<listing, hidden, cacheVars, engaged, events, mix, history>>

(* Too many leads or messages are refused.                                 *)
Insert(r) ==
    /\ At(r, "engage")
    /\ \/ engaged' = [engaged EXCEPT ![req[r].op] = @ \cup {req[r].who}]
       \/ req[r].op \in {"lead", "contact"} /\ UNCHANGED engaged
    /\ req' = [req EXCEPT ![r] = Done]
    /\ UNCHANGED <<listing, hidden, cacheVars, events, mix, history>>

TakeBack(who, kind) ==
    /\ "engage" \in mix
    /\ kind \in {"like", "favorite"} /\ who \in engaged[kind]
    /\ engaged' = [engaged EXCEPT ![kind] = @ \ {who}]
    /\ UNCHANGED <<listing, hidden, cacheVars, req, events, mix, history>>

ListingsNext ==
    \/ \E r \in Requests :
         \/ Create(r) \/ Update(r) \/ Move(r) \/ SetStatus(r) \/ Write(r)
         \/ BeginPublish(r) \/ SettlePublish(r) \/ GoLive(r) \/ ReleasePending(r)
         \/ VisibilityChanged(r) \/ ReadRow(r) \/ Announce(r) \/ Insert(r)
         \/ \E who \in People, kind \in Kinds : VisibleOwnerId(r, who, kind)
    \/ \E who \in People, kind \in Kinds : TakeBack(who, kind)
    \/ \E d \in Readers : Miss(d) \/ Load(d) \/ Store(d)

-----------------------------------------------------------------------------
(* "The public can now find the listing on the map, and could not before"  *)
(* (announceIfNowOnMap): whichever step of whichever request brought it    *)
(* there, when all are done somebody has announced it.                     *)
OnTheMapIsAnnounced == InFlight = {} /\ IsOnMap(listing) => ~owed

(* "Unpublishing cannot push a listing back to the top of the feed"        *)
(* (published-at.ts): its date changes only when it was off the market, if *)
(* no request wrote over another.                                          *)
DateStands ==
    listing'.date # listing.date =>
        listing.date = None \/ DatesAnew(listing.status) \/ crossed'

(* A row agrees with itself (priceDropColumns, clearedFieldsFor), if no    *)
(* request wrote over another.                                             *)
RowIsConsistent == ~crossed => IsConsistent(listing)

(* What a listing says of itself is right after every step (it is at       *)
(* first: it has no price before this one, and no details).                *)
ListingStaysSound == [][RowIsConsistent' /\ DateStands]_listingVars

(* With every change made known, an answer under the current version says  *)
(* what is stored (PublicPropertyCache.changed), whichever cells a map     *)
(* shows and whatever requests overlap; unless, since it was last          *)
(* outdated, a request wrote that had read another status or place (two    *)
(* moves, or an edit of what was a draft and is published meanwhile) or    *)
(* Redis failed; or it is the listing's page, and who cached it had read   *)
(* it before it was dropped.                                               *)
AllKnown == \A r \in InFlight : req[r].step \notin {"after", "row"}
CachedIsCurrent ==
    AllKnown /\ ~misread /\ ~lost /\ ~late => cached \in {None, Now(looked)}

(* Refuted: "The next reader gets fresh data instead of waiting for the    *)
(* expiry" (changed), also of the listing's own page, and "Drops the       *)
(* cached public copies when the public could see this listing before or   *)
(* can see it now" (refreshPublicView), whatever the request had read.     *)
PageIsFresh == AllKnown /\ ~misread /\ ~lost => cached \in {None, Now(looked)}
SeenIsOutdated == AllKnown /\ ~lost /\ ~late => cached \in {None, Now(looked)}

=============================================================================
