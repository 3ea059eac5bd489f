----------------------------- MODULE SearchIndex -----------------------------
(***************************************************************************)
(* The search engine kept in step with the database                        *)
(* (property/src/search/index): each change of a listing is written to it, *)
(* every instance rebuilds it every night, and a search reads from the     *)
(* database what the engine found (text-search.service.ts).                *)
(*                                                                         *)
(* One owner with a few listings; every listing matches the text.  The     *)
(* engine carries out writes in the order it accepted them: they are       *)
(* written at once here.  Its two indexes are filled one after the other   *)
(* and take the place of the old ones together: they are one here, with    *)
(* the owner at 0.  Two rebuilds never start in the same millisecond.      *)
(***************************************************************************)
EXTENDS Integers, FiniteSets

CONSTANTS
    Ids,         \* of the listings: 1..n, in the order a rebuild reads them
    Instances,   \* of the property service
    Finders,     \* who search
    MaxChanges,  \* bound: changes of the database
    MaxFailures, \* bound: requests the engine fails, crashes
    Mixes,       \* bound: what meets
    Running,     \* bound: the instances that run, by mix
    FirstActive, \* bound: the listings that are published at first, by mix
    None

ASSUME IndexAssumption ==
    /\ MaxChanges \in Nat
    /\ IsFiniteSet(Ids) /\ Ids = 1..Cardinality(Ids)
    /\ \A ids \in SUBSET Ids : ids # None
    /\ \A i \in Instances : i \notin Nat /\ i \notin {"live", "answer"}
    /\ \A m \in Mixes : Running[m] \subseteq Instances

VARIABLES
    row,      \* the rows in properties, and the owner's users.deactivated_at
    made,     \* the changes of them, counted
    syncs,    \* what listingChanged is doing, wherever
    live,     \* the index that is searched: what it says, and read when
    temp,     \* the index an instance fills
    noted,    \* changedDuringReindex
    rebuild,  \* how far an instance is with rebuilding
    answer,   \* the cached answer to the text under its current version
    finding,  \* those who found nothing there
    mix,      \* bound: what meets
    failures,
    astray,   \* may have missed a change: the index, one being filled, the answer
    foreign,  \* an instance did not note a change another's rebuild missed
    litter    \* a temporary index could not be deleted

(* The last four only remember.                                            *)
database == <<row, made>>
index == <<live, temp, noted, rebuild>>
found == <<answer, finding>>
indexHistory == <<failures, astray, foreign, litter>>
indexVars == <<database, syncs, index, found, mix, indexHistory>>

Owner == 0
Keys == Ids \cup {Owner}
Entry == [doc : Nat, at : Nat]   \* 0: no document
Index == [Keys -> Entry]
Sync == [by : Nat \cup Instances, on : Instances, id : Ids, key : Keys,
         step : {"outdate", "read", "write"}, doc : Nat, at : Nat]
Rebuild == [step : {"none", "people", "swap", "delete"}] \cup
           [step : {"fill"}, after : Nat] \cup [step : {"replay"}, todo : SUBSET Ids]
Finding == [ids : SUBSET Ids, step : {"read", "store"}, current : BOOLEAN]
Empty == [k \in Keys |-> [doc |-> 0, at |-> 0]]

IsSearchable(id) == row.active[id] /\ ~row.hidden

(* The text of a listing is told apart by the change that wrote it.        *)
ListingDocument(id) == IF IsSearchable(id) THEN row.text[id] ELSE 0
PublisherDocument == IF row.hidden THEN 0 ELSE Cardinality({id \in Ids : row.active[id]})
Document(k) == IF k = Owner THEN PublisherDocument ELSE ListingDocument(k)

Rebuilding == {i \in Instances : rebuild[i].step \in {"fill", "people", "swap"}}

IndexTypeOK ==
    /\ row \in [active : [Ids -> BOOLEAN], text : [Ids -> Nat], hidden : BOOLEAN]
    /\ made \in Nat /\ mix \in Mixes
    /\ syncs \subseteq Sync
    /\ live \in Index /\ temp \in [Instances -> Index \cup {None}]
    /\ noted \in [Instances -> (SUBSET Ids) \cup {None}]
    /\ rebuild \in [Instances -> Rebuild]
    /\ \A i \in Instances : noted[i] # None <=> rebuild[i].step \in {"fill", "people", "swap", "delete"}
    /\ answer \in (SUBSET Ids) \cup {None} /\ finding \in [Finders -> Finding \cup {None}]

IndexInit ==
    /\ mix \in Mixes
    /\ \E first \in FirstActive[mix] :
         row = [active |-> [id \in Ids |-> id \in first], text |-> [id \in Ids |-> 1], hidden |-> FALSE]
    /\ made = 0
    /\ syncs = {}
    /\ live = (IF "empty" \in mix THEN Empty ELSE [k \in Keys |-> [doc |-> Document(k), at |-> 0]])
    /\ temp = [i \in Instances |-> None]
    /\ noted = temp
    /\ rebuild = [i \in Instances |-> [step |-> "none"]]
    /\ answer = None /\ finding = [d \in Finders |-> None]
    /\ failures = 0 /\ foreign = FALSE /\ litter = FALSE
    /\ astray = IF \E k \in Keys : live[k].doc # Document(k) THEN {"live"} ELSE {}

-----------------------------------------------------------------------------
(* The database changes, and an instance is told of each listing it        *)
(* concerns.                                                               *)

(* Bound: where nobody searches the cache is not looked at.                *)
First == IF "find" \in mix THEN "outdate" ELSE "read"

Changed(who, i, ids) ==
    {[by |-> who, on |-> i, id |-> id, key |-> id, step |-> First, doc |-> 0, at |-> 0] : id \in ids}

(* Edited while it is published, published, or taken off.                  *)
ChangeListing(i, id) ==
    /\ made < IF "once" \in mix THEN 1 ELSE MaxChanges
    /\ \/ "edit" \in mix /\ row.active[id] /\ row' = [row EXCEPT !.text[id] = made + 2]
       \/ "publish" \in mix /\ row' = [row EXCEPT !.active[id] = ~@]
    /\ made' = made + 1
    /\ syncs' = syncs \cup Changed(made + 1, i, {id})
    /\ UNCHANGED <<index, found, mix, indexHistory>>

(* The owner was hidden, or is shown again: what is published is read.     *)
ChangeVisibility(i) ==
    /\ "hide" \in mix
    /\ made < IF "once" \in mix THEN 1 ELSE MaxChanges
    /\ row' = [row EXCEPT !.hidden = ~@]
    /\ made' = made + 1
    /\ syncs' = syncs \cup Changed(made + 1, i, {id \in Ids : row.active[id]})
    /\ UNCHANGED <<index, found, mix, indexHistory>>

-----------------------------------------------------------------------------
(* listingChanged: the listing is read and written, then its owner.        *)

Missed == astray' = astray \cup {"live"} \cup Rebuilding

OutdateText(s) ==
    /\ s \in syncs /\ s.step = "outdate"
    /\ syncs' = (syncs \ {s}) \cup {[s EXCEPT !.step = "read"]}
    /\ answer' = None
    /\ finding' = [d \in Finders |-> IF finding[d] = None THEN None
                                     ELSE [finding[d] EXCEPT !.current = FALSE]]
    /\ astray' = astray \ {"answer"}
    /\ UNCHANGED <<database, index, mix, failures, foreign, litter>>

(* What the first read of a change leaves behind for a rebuild.            *)
Note(s) ==
    IF s.key = Owner \/ s.by \in Instances THEN UNCHANGED <<noted, foreign>>
    ELSE /\ noted' = [noted EXCEPT ![s.on] = IF @ = None THEN None ELSE @ \cup {s.id}]
         /\ foreign' = (foreign \/ (Rebuilding \ {s.on} # {}))

ReadForIndex(s) ==
    /\ s \in syncs /\ s.step = "read"
    /\ Note(s)
    /\ syncs' = (syncs \ {s}) \cup {[s EXCEPT !.step = "write", !.doc = Document(s.key), !.at = made]}
    /\ UNCHANGED <<database, live, temp, rebuild, found, mix, failures, astray, litter>>

(* Written over what was read later, it is out of date.                    *)
WriteToIndex(s) ==
    /\ s \in syncs /\ s.step = "write"
    /\ live' = [live EXCEPT ![s.key] = [doc |-> s.doc, at |-> s.at]]
    /\ IF s.at < live[s.key].at THEN Missed ELSE UNCHANGED astray
    /\ syncs' = (syncs \ {s}) \cup
         (IF s.key = Owner THEN {} ELSE {[s EXCEPT !.key = Owner, !.step = "read", !.doc = 0, !.at = 0]})
    /\ UNCHANGED <<database, temp, noted, rebuild, found, mix, failures, foreign, litter>>

(* The engine does not take it: that is logged.                            *)
WriteFails(s) ==
    /\ "down" \in mix /\ failures < MaxFailures
    /\ s \in syncs /\ s.step = "write"
    /\ syncs' = syncs \ {s}
    /\ failures' = failures + 1
    /\ Missed
    /\ rebuild' = IF s.by \in Instances THEN [rebuild EXCEPT ![s.by] = [step |-> "none"]] ELSE rebuild
    /\ UNCHANGED <<database, live, temp, noted, found, mix, foreign, litter>>

-----------------------------------------------------------------------------
(* reindexAll.                                                             *)

NewMap == {}

Reindex(i) ==
    /\ "rebuild" \in mix
    /\ rebuild[i].step = "none"
    /\ rebuild' = [rebuild EXCEPT ![i] = [step |-> "fill", after |-> 0]]
    /\ noted' = [noted EXCEPT ![i] = NewMap]
    /\ temp' = [temp EXCEPT ![i] = Empty]
    /\ astray' = astray \ {i}
    /\ UNCHANGED <<database, syncs, live, found, mix, failures, foreign, litter>>

(* A fault: the first is skipped like a cursor.                            *)
BeyondNext(after) == {id \in Ids : id > after + 1 /\ IsSearchable(id)}

Beyond(after) == {id \in Ids : id > after /\ IsSearchable(id)}

(* A page of what is published: those it passed over are not.  Batches are *)
(* of one listing.                                                         *)
Fill(i) ==
    /\ rebuild[i].step = "fill"
    /\ LET after == rebuild[i].after
           rest == Beyond(after)
           last == IF rest = {} THEN Cardinality(Ids) ELSE CHOOSE id \in rest : \A x \in rest : id <= x
       IN  /\ temp' = [temp EXCEPT ![i] =
                         [k \in Keys |-> IF k > after /\ k <= last
                                         THEN [doc |-> IF k \in rest THEN Document(k) ELSE 0, at |-> made]
                                         ELSE @[k]]]
           /\ rebuild' = [rebuild EXCEPT ![i] = IF rest = {} THEN [step |-> "people"]
                                                ELSE [step |-> "fill", after |-> last]]
    /\ UNCHANGED <<database, syncs, live, noted, found, mix, indexHistory>>

FillPublishers(i) ==
    /\ rebuild[i].step = "people"
    /\ temp' = [temp EXCEPT ![i][Owner] = [doc |-> Document(Owner), at |-> made]]
    /\ rebuild' = [rebuild EXCEPT ![i] = [step |-> "swap"]]
    /\ UNCHANGED <<database, syncs, live, noted, found, mix, indexHistory>>

SwapIndexes(i) ==
    /\ rebuild[i].step = "swap"
    /\ live' = temp[i] /\ temp' = [temp EXCEPT ![i] = live]
    /\ rebuild' = [rebuild EXCEPT ![i] = [step |-> "delete"]]
    /\ astray' = (astray \ {i, "live"}) \cup (IF i \in astray THEN {"live"} ELSE {})
    /\ UNCHANGED <<database, syncs, noted, found, mix, failures, foreign, litter>>

(* A fault: only what was put in place is cleaned up after.                *)
GivesUp == [step |-> "replay", todo |-> {}]

AfterFailure == [step |-> "delete"]

RebuildFails(i) ==
    /\ "down" \in mix /\ failures < MaxFailures
    /\ i \in Rebuilding
    /\ rebuild' = [rebuild EXCEPT ![i] = AfterFailure]
    /\ failures' = failures + 1
    /\ UNCHANGED <<database, syncs, live, temp, noted, found, mix, astray, foreign, litter>>

(* A fault: nothing is applied again.                                      *)
NothingMissed(i) == {}

ChangedMeanwhile(i) == noted[i]

DeleteQuietly(i) ==
    /\ rebuild[i].step = "delete"
    /\ \/ temp' = [temp EXCEPT ![i] = None] /\ UNCHANGED <<failures, litter>>
       \/ /\ "down" \in mix /\ failures < MaxFailures
          /\ failures' = failures + 1 /\ litter' = TRUE
          /\ UNCHANGED temp
    /\ rebuild' = [rebuild EXCEPT ![i] = [step |-> "replay", todo |-> ChangedMeanwhile(i)]]
    /\ noted' = [noted EXCEPT ![i] = None]
    /\ UNCHANGED <<database, syncs, live, found, mix, astray, foreign>>

(* One after the other; the first to fail ends it.                         *)
ApplyAgain(i) ==
    /\ rebuild[i].step = "replay"
    /\ \A s \in syncs : s.by # i
    /\ IF rebuild[i].todo = {}
       THEN rebuild' = [rebuild EXCEPT ![i] = [step |-> "none"]] /\ UNCHANGED syncs
       ELSE \E id \in rebuild[i].todo :
              /\ syncs' = syncs \cup {[s EXCEPT !.step = "read"] : s \in Changed(i, i, {id})}
              /\ rebuild' = [rebuild EXCEPT ![i].todo = @ \ {id}]
    /\ UNCHANGED <<database, live, temp, noted, found, mix, indexHistory>>

(* An instance stops; it is started again.                                 *)
Restart(i) ==
    /\ "crash" \in mix /\ failures < MaxFailures
    /\ rebuild[i].step # "none" \/ \E s \in syncs : s.on = i
    /\ syncs' = {s \in syncs : s.on # i}
    /\ rebuild' = [rebuild EXCEPT ![i] = [step |-> "none"]]
    /\ noted' = [noted EXCEPT ![i] = None]
    /\ failures' = failures + 1 /\ litter' = TRUE
    /\ astray' = astray \cup {"live"} \cup Rebuilding
         \cup (IF \E s \in syncs : s.on = i /\ s.step = "outdate" THEN {"answer"} ELSE {})
    /\ UNCHANGED <<database, live, temp, found, mix, foreign>>

-----------------------------------------------------------------------------
(* A search of the text.                                                   *)

(* The engine answers, or the database when it does not.  The ids are kept *)
(* with the version that was read.                                         *)
FindListings(d) ==
    /\ "find" \in mix
    /\ answer = None /\ finding[d] = None
    /\ \E ids \in {{id \in Ids : live[id].doc # 0}, {id \in Ids : IsSearchable(id)}} :
         finding' = [finding EXCEPT ![d] = [ids |-> ids, step |-> "read", current |-> TRUE]]
    /\ UNCHANGED <<database, syncs, index, answer, mix, indexHistory>>

(* A fault: as the engine has them.                                        *)
AllOf(ids) == ids

ByIds(ids) == {id \in ids : IsSearchable(id)}

(* A short answer to Khmer text is filled up from the database.            *)
ReadFound(d) ==
    /\ finding[d] # None /\ finding[d].step = "read"
    /\ \E ids \in {ByIds(finding[d].ids), ByIds(finding[d].ids) \cup {id \in Ids : IsSearchable(id)}} :
         finding' = [finding EXCEPT ![d] = [@ EXCEPT !.ids = ids, !.step = "store"]]
    /\ UNCHANGED <<database, syncs, index, answer, mix, indexHistory>>

StoreFound(d) ==
    /\ finding[d] # None /\ finding[d].step = "store"
    /\ answer' = IF finding[d].current THEN finding[d].ids ELSE answer
    /\ finding' = [finding EXCEPT ![d] = None]
    /\ UNCHANGED <<database, syncs, index, mix, indexHistory>>

-----------------------------------------------------------------------------
SyncStep(s) == OutdateText(s) \/ ReadForIndex(s) \/ WriteToIndex(s)
RebuildStep(i) ==
    \/ Reindex(i) \/ Fill(i) \/ FillPublishers(i) \/ SwapIndexes(i) \/ DeleteQuietly(i)
    \/ ApplyAgain(i)

IndexNext ==
    \/ \E i \in Running[mix] :
         ChangeVisibility(i) \/ \E id \in Ids : ChangeListing(i, id)
    \/ \E s \in syncs : SyncStep(s) \/ WriteFails(s)
    \/ \E i \in Running[mix] : RebuildStep(i) \/ RebuildFails(i) \/ Restart(i)
    \/ \E d \in Finders : FindListings(d) \/ ReadFound(d) \/ StoreFound(d)

(* Writes are carried out, and "every instance" rebuilds "every night"     *)
(* (SearchReindexSchedule), whatever became of the night before.           *)
IndexFairness ==
    /\ WF_indexVars(\E s \in syncs : SyncStep(s))
    /\ \A i \in Instances : WF_indexVars(i \in Running[mix] /\ RebuildStep(i))

-----------------------------------------------------------------------------
OnItsWay(k) ==
    \/ \E s \in syncs : IF s.step = "write" /\ s.key = k THEN s.doc = Document(k)
                        ELSE s.key = k \/ k = Owner
    \/ \E i \in Instances :
         \/ noted[i] # None /\ (IF k = Owner THEN noted[i] # {} ELSE k \in noted[i])
         \/ rebuild[i].step = "replay" /\ (IF k = Owner THEN rebuild[i].todo # {} ELSE k \in rebuild[i].todo)

(* "Keeps the search engine in step with the database" (SearchIndexSync):  *)
(* whenever the index says something else than the database, a change is   *)
(* on its way, also while it is rebuilt, unless one was lost since or      *)
(* overtaken, or was made on another instance during a rebuild.            *)
IndexFollows ==
    "live" \notin astray /\ ~foreign => \A k \in Keys : live[k].doc = Document(k) \/ OnItsWay(k)

(* "The snapshot may predate a change made while it was taken, so those    *)
(* changes are applied again once it is in place" (reindexAll), and "two   *)
(* at once only cost time" (SearchReindexSchedule): on whichever instance. *)
ChangesAreAppliedAgain ==
    "live" \notin astray => \A k \in Keys : live[k].doc = Document(k) \/ OnItsWay(k)

(* "Either way they go" (replaceAll): no temporary index stays, unless it  *)
(* could not be deleted, or an instance stopped.                           *)
NothingIsLeft == litter \/ \A i \in Instances : rebuild[i].step \in {"none", "replay"} => temp[i] = None

(* "Only what is published now can appear" (TextSearchService): a cached   *)
(* answer holds nothing that is not, once the change was made known,       *)
(* "however stale the engine", unless an instance stopped before it did.   *)
FoundIsPublished ==
    answer # None /\ "answer" \notin astray /\ (\A s \in syncs : s.step # "outdate") =>
      \A id \in answer : IsSearchable(id)

(* What can be found follows what is published, and rebuilding it leaves   *)
(* nothing behind.                                                         *)
SearchIsInStep == IndexFollows /\ NothingIsLeft /\ FoundIsPublished

(* The rebuild "repairs any change the engine missed"                      *)
(* (SearchReindexSchedule): if changes and failures end, the index is what *)
(* the database says, and stays so.                                        *)
EndsUpRight == "rebuild" \in mix => <>[](\A k \in Keys : live[k].doc = Document(k))

=============================================================================
