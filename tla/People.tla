------------------------------- MODULE People -------------------------------
(***************************************************************************)
(* The user service: who blocks, follows and reports whom, profiles and    *)
(* their pictures, and the copies of all this that Redis keeps.            *)
(*                                                                         *)
(* A request is a record in "req", used once.  Each action is one call to  *)
(* the database, to Redis or to the storage of files, with the code up to  *)
(* the next await.                                                         *)
(***************************************************************************)
EXTENDS Integers, FiniteSets, Sequences

CONSTANTS
    Users,
    Pictures,      \* places in the bucket avatars a picture may be uploaded to
    Names,         \* usernames
    Requests,      \* requests, each sent once
    Reports,       \* reports that may be made
    MaxFollowing,  \* MAX_FOLLOWING
    Mixes,         \* bound: the sets of operations that are sent together
    None

ASSUME PeopleAssumption ==
    /\ MaxFollowing \in Nat
    /\ Mixes \subseteq SUBSET STRING
    /\ None \notin Users \cup Pictures \cup Names
    /\ {"google", "newGoogle"} \cap (Pictures \cup {None}) = {}

VARIABLES
    profile,   \* users: the columns others see
    blocks,    \* user_blocks
    follows,   \* follows
    reports,   \* reports
    cache,     \* Redis, through JsonCache
    given,     \* whom a place to upload to was given
    files,     \* the bucket avatars
    req,
    confirmed, \* how often a picture was asked to be used
    erased,    \* whose files were erased
    crossed    \* follows stored after a check that the block came too late for

(* confirmed, erased and crossed only remember, as does the field late.    *)
vars == <<profile, blocks, follows, reports, cache, given, files, req,
          confirmed, erased, crossed>>

tables == <<profile, blocks, follows, reports>>
history == <<confirmed, erased, crossed>>

(* A picture that Google serves, and the one that replaces it there.       *)
GooglePhotos == {"google", "newGoogle"}
Avatars == Pictures \cup GooglePhotos \cup {None}

Keys == {"blocks", "following", "profile"} \X Users

Steps == {"lookup", "load", "store", "blocked", "room", "insert", "forget", "previous",
          "update", "sync", "removeFile", "open", "done"}

Operations == {"readBlocks", "readFollowing", "readProfile", "block", "unblock", "follow",
               "unfollow", "updateProfile", "visibilityChanged", "useUpload", "useGooglePhoto",
               "removeAvatar", "googleSignIn", "erase", "report", "review"}

(* What is cached: people, or one profile.                                 *)
Values == SUBSET (Users \cup ((Names \cup {None}) \X BOOLEAN \X Avatars))

Request == [op : Operations, step : Steps, who : Users, other : Users \cup {None},
            picture : Avatars, name : Names \cup {None},
            previous : Avatars,        \* the picture that was replaced
            answer : Values,           \* what was cached or loaded
            drop : Seq(Keys),          \* keys still to be deleted, in this order
            clear : BOOLEAN]           \* no block was to be seen in the answer

ASSUME NoneIsNoRequest == None \notin Request

Report == [by : Users, about : Users, status : {"open", "resolved", "dismissed"},
           reviewer : Users \cup {None}]

TypeOK ==
    /\ profile \in [Users -> [name : Names \cup {None}, named : BOOLEAN,
                              avatar : Avatars, hidden : BOOLEAN]]
    /\ blocks \subseteq Users \X Users
    /\ follows \subseteq Users \X Users
    /\ reports \in [Reports -> Report \cup {None}]
    /\ \A k \in Keys : cache[k] = None \/ cache[k] \in [value : Values, late : BOOLEAN]
    /\ given \in [Pictures -> Users \cup {None}]
    /\ files \subseteq Pictures
    /\ req \in [Requests -> Request \cup {None}]
    /\ confirmed \in [Pictures -> Nat]
    /\ erased \subseteq Users
    /\ crossed \subseteq Users \X Users
    /\ \A u, v \in Users : profile[u].name = profile[v].name => u = v \/ profile[u].name = None

Init ==
    /\ profile = [u \in Users |-> [name |-> None, named |-> FALSE, avatar |-> None,
                                    hidden |-> FALSE]]
    /\ blocks = {} /\ follows = {}
    /\ reports = [i \in Reports |-> None]
    /\ cache = [k \in Keys |-> None]
    /\ given = [p \in Pictures |-> None]
    /\ files = {}
    /\ req = [r \in Requests |-> None]
    /\ confirmed = [p \in Pictures |-> 0]
    /\ erased = {} /\ crossed = {}

-----------------------------------------------------------------------------
Sent(op, step, u, v) ==
    [op |-> op, step |-> step, who |-> u, other |-> v, picture |-> None, name |-> None,
     previous |-> None, answer |-> {}, drop |-> <<>>, clear |-> FALSE]

(* Bound: op is sent together with what was sent.                          *)
Mixed(op) ==
    \E M \in Mixes : /\ op \in M
                     /\ \A q \in {x \in Requests : req[x] # None} : req[q].op \in M
                     /\ "useUpload" \in M \/ \A p \in Pictures : given[p] = None

Free(r, op) == req[r] = None /\ Mixed(op)

At(r, step) == req[r] # None /\ req[r].step = step

Done(r) == Sent(req[r].op, "done", req[r].who, None)
Goto(r, step) == req' = [req EXCEPT ![r] = IF step = "done" THEN Done(r)
                                           ELSE [@ EXCEPT !.step = step]]

(* Tables written, then the keys to be deleted.                            *)
Forget(r, keys) == req' = [req EXCEPT ![r].step = "forget", ![r].drop = keys]

Blocked(u, v) == <<u, v>> \in blocks \/ <<v, u>> \in blocks
Visible(u) == ~profile[u].hidden

-----------------------------------------------------------------------------
(* JsonCache.remember: looked up, loaded if missing, and stored.           *)

RelatedIds(u) == {v \in Users : Blocked(u, v)}
FollowingIds(u) == {v \in Users : <<u, v>> \in follows}
PublicProfile(u) == {<<profile[u].name, profile[u].named, profile[u].avatar>>}

Loaded(k) == CASE k[1] = "blocks" -> RelatedIds(k[2])
               [] k[1] = "following" -> FollowingIds(k[2])
               [] k[1] = "profile" -> PublicProfile(k[2])

(* What a request remembers: a follow asks for the blocks of its viewer.   *)
KeyOf(q) == CASE q.op \in {"follow", "readBlocks"} -> <<"blocks", q.who>>
              [] q.op = "readFollowing" -> <<"following", q.who>>
              [] q.op = "readProfile" -> <<"profile", q.who>>

Current(k, value) == value = Loaded(k) /\ (k[1] = "profile" => Visible(k[2]))

(* A request has yet to delete k.                                          *)
ToBeForgotten(k) ==
    \E r \in Requests : At(r, "forget") /\ \E i \in DOMAIN req[r].drop : req[r].drop[i] = k

(* A request that reads only is over with the answer; follow goes on.      *)
Answered(q, value, clear) ==
    IF q.op = "follow" THEN [q EXCEPT !.step = "blocked", !.answer = value, !.clear = clear]
    ELSE Sent(q.op, "done", q.who, None)

(* A copy may show no block because there is none, because the request     *)
(* that blocks has not deleted it yet, or because it is late.              *)
Lookup(r) ==
    /\ At(r, "lookup")
    /\ LET q == req[r]
           k == KeyOf(q)
       IN  req' = [req EXCEPT ![r] =
             IF cache[k] = None THEN [q EXCEPT !.step = "load"]
             ELSE Answered(q, cache[k].value, \/ ~Blocked(q.who, q.other)
                                              \/ ToBeForgotten(k)
                                              \/ cache[k].late)]
    /\ UNCHANGED <<tables, cache, given, files, history>>

(* A hidden account is not found, and nothing is stored.                   *)
Load(r) ==
    /\ At(r, "load")
    /\ IF req[r].op = "readProfile" /\ ~Visible(req[r].who) THEN Goto(r, "done")
       ELSE req' = [req EXCEPT ![r].step = "store", ![r].answer = Loaded(KeyOf(req[r])),
                               ![r].clear = req[r].op = "follow"
                                            /\ ~Blocked(req[r].who, req[r].other)]
    /\ UNCHANGED <<tables, cache, given, files, history>>

(* The value is stored, or Redis does not answer and the write is skipped. *)
(* It is late if it is out of date by now.                                 *)
Store(r) ==
    /\ At(r, "store")
    /\ LET k == KeyOf(req[r])
       IN  \/ cache' = [cache EXCEPT ![k] = [value |-> req[r].answer,
                                             late |-> ~Current(k, req[r].answer)]]
           \/ UNCHANGED cache
    /\ req' = [req EXCEPT ![r] = Answered(@, @.answer, req[r].clear)]
    /\ UNCHANGED <<tables, given, files, history>>

(* One key is deleted.  If Redis does not answer the entry stays until it  *)
(* expires, and counts as late.                                            *)
ForgetKey(r) ==
    /\ At(r, "forget")
    /\ req[r].drop # <<>>
    /\ LET k == Head(req[r].drop)
       IN  \/ cache' = [cache EXCEPT ![k] = None]
           \/ /\ cache[k] # None
              /\ cache' = [cache EXCEPT ![k].late = TRUE]
    /\ req' = [req EXCEPT ![r].drop = Tail(@)]
    /\ UNCHANGED <<tables, given, files, history>>

Forgotten(r) ==
    /\ At(r, "forget")
    /\ req[r].drop = <<>>
    /\ Goto(r, IF req[r].op \in {"useUpload", "useGooglePhoto", "removeAvatar"}
               THEN "removeFile" ELSE "done")
    /\ UNCHANGED <<tables, cache, given, files, history>>

Expire(k) ==
    /\ cache[k] # None
    /\ cache' = [cache EXCEPT ![k] = None]
    /\ UNCHANGED <<tables, given, files, req, history>>

Read(r, op, u) ==
    /\ Free(r, op)
    /\ req' = [req EXCEPT ![r] = Sent(op, "lookup", u, None)]
    /\ UNCHANGED <<tables, cache, given, files, history>>

CacheNext(r) ==
    \/ \E op \in {"readBlocks", "readFollowing", "readProfile"}, u \in Users : Read(r, op, u)
    \/ Lookup(r) \/ Load(r) \/ Store(r) \/ ForgetKey(r) \/ Forgotten(r)

-----------------------------------------------------------------------------
(* Blocks and follows.                                                     *)

(* A fault: only the blocker's copies are dropped.                         *)
BothKeysOfBlocker(u, v) == <<<<"blocks", u>>, <<"following", u>>>>

BothKeys(u, v) ==
    <<<<"blocks", u>>, <<"following", u>>, <<"blocks", v>>, <<"following", v>>>>

(* A fault: the follows stay.                                              *)
UnfollowedOneWay(u, v) == follows \ {<<u, v>>}

Unfollowed(u, v) == follows \ {<<u, v>>, <<v, u>>}

(* One transaction: the block, and no follows either way.                  *)
Block(r, u, v) ==
    /\ Free(r, "block")
    /\ u # v
    /\ blocks' = blocks \cup {<<u, v>>}
    /\ follows' = Unfollowed(u, v)
    /\ crossed' = crossed \ {<<u, v>>, <<v, u>>}
    /\ req' = [req EXCEPT ![r] = [Sent("block", "forget", u, v) EXCEPT !.drop = BothKeys(u, v)]]
    /\ UNCHANGED <<profile, reports, cache, given, files, confirmed, erased>>

Unblock(r, u, v) ==
    /\ Free(r, "unblock")
    /\ u # v
    /\ blocks' = blocks \ {<<u, v>>}
    /\ req' = [req EXCEPT ![r] = [Sent("unblock", "forget", u, v) EXCEPT !.drop = BothKeys(u, v)]]
    /\ UNCHANGED <<profile, follows, reports, cache, given, files, history>>

Follow(r, u, v) ==
    /\ Free(r, "follow")
    /\ u # v
    /\ req' = [req EXCEPT ![r] = Sent("follow", IF Visible(v) THEN "lookup" ELSE "done", u, v)]
    /\ UNCHANGED <<tables, cache, given, files, history>>

(* Whether either blocked the other, and whether it is followed already.   *)
IsFollowing(r) ==
    /\ At(r, "blocked")
    /\ Goto(r, IF \/ req[r].other \in req[r].answer
                  \/ <<req[r].who, req[r].other>> \in follows
               THEN "done" ELSE "room")
    /\ UNCHANGED <<tables, cache, given, files, history>>

RequireRoomToFollow(r) ==
    /\ At(r, "room")
    /\ Goto(r, IF Cardinality(FollowingIds(req[r].who)) >= MaxFollowing
               THEN "done" ELSE "insert")
    /\ UNCHANGED <<tables, cache, given, files, history>>

InsertFollow(r) ==
    /\ At(r, "insert")
    /\ LET pair == <<req[r].who, req[r].other>>
       IN  /\ follows' = follows \cup {pair}
           /\ crossed' = IF req[r].clear THEN crossed \cup {pair} ELSE crossed
    /\ Forget(r, << <<"following", req[r].who>> >>)
    /\ UNCHANGED <<profile, blocks, reports, cache, given, files, confirmed, erased>>

Unfollow(r, u, v) ==
    /\ Free(r, "unfollow")
    /\ u # v
    /\ follows' = follows \ {<<u, v>>}
    /\ crossed' = crossed \ {<<u, v>>}
    /\ req' = [req EXCEPT ![r] = [Sent("unfollow", "forget", u, v)
                                    EXCEPT !.drop = << <<"following", u>> >>]]
    /\ UNCHANGED <<profile, blocks, reports, cache, given, files, confirmed, erased>>

BlockRequests(r) == \E u, v \in Users : Block(r, u, v) \/ Unblock(r, u, v)

FollowRequests(r) ==
    \/ \E u, v \in Users : Follow(r, u, v) \/ Unfollow(r, u, v)
    \/ IsFollowing(r) \/ RequireRoomToFollow(r) \/ InsertFollow(r)

-----------------------------------------------------------------------------
(* Profiles and pictures.                                                  *)

(* A fault: the index is not unique.                                       *)
UpdateProfileOfTwo(r, u, n) ==
    /\ Free(r, "updateProfile")
    /\ profile' = [profile EXCEPT ![u].name = n]
    /\ req' = [req EXCEPT ![r] = [Sent("updateProfile", "forget", u, None)
                                    EXCEPT !.drop = << <<"profile", u>> >>]]
    /\ UNCHANGED <<blocks, follows, reports, cache, given, files, history>>

(* The unique index refuses a username somebody else has.                  *)
UpdateProfile(r, u, n) ==
    /\ Free(r, "updateProfile")
    /\ IF \E v \in Users \ {u} : profile[v].name = n
       THEN /\ req' = [req EXCEPT ![r] = Sent("updateProfile", "done", u, None)]
            /\ UNCHANGED profile
       ELSE /\ profile' = [profile EXCEPT ![u].name = n]
            /\ req' = [req EXCEPT ![r] = [Sent("updateProfile", "forget", u, None)
                                            EXCEPT !.drop = << <<"profile", u>> >>]]
    /\ UNCHANGED <<blocks, follows, reports, cache, given, files, history>>

(* The authentication service hid or showed the account, and says so.  If  *)
(* the call does not get through, the copies wait until they expire.       *)
VisibilityChanged(r, u) ==
    /\ Free(r, "visibilityChanged")
    /\ profile' = [profile EXCEPT ![u].hidden = ~@]
    /\ req' = [req EXCEPT ![r] = [Sent("visibilityChanged", "forget", u, None)
                                    EXCEPT !.drop = << <<"profile", u>> >>]]
    /\ UNCHANGED <<blocks, follows, reports, cache, given, files, history>>

CreateUpload(u, p) ==
    /\ Mixed("useUpload")
    /\ given[p] = None
    /\ given' = [given EXCEPT ![p] = u]
    /\ UNCHANGED <<tables, cache, files, req, history>>

(* The app uploads the picture, once, whenever it likes.                   *)
Upload(p) ==
    /\ given[p] # None
    /\ p \notin files
    /\ confirmed[p] = 0
    /\ files' = files \cup {p}
    /\ UNCHANGED <<tables, cache, given, req, history>>

UseUpload(r, u, p) ==
    /\ Free(r, "useUpload")
    /\ req' = [req EXCEPT ![r] = [Sent("useUpload", IF given[p] = u /\ p \in files
                                                    THEN "previous" ELSE "done", u, None)
                                    EXCEPT !.picture = IF given[p] = u /\ p \in files
                                                       THEN p ELSE None]]
    /\ confirmed' = [confirmed EXCEPT ![p] = IF given[p] = u /\ p \in files THEN @ + 1 ELSE @]
    /\ UNCHANGED <<tables, cache, given, files, erased, crossed>>

UseGooglePhoto(r, u, photo) ==
    /\ Free(r, "useGooglePhoto")
    /\ req' = [req EXCEPT ![r] = [Sent("useGooglePhoto", "previous", u, None)
                                    EXCEPT !.picture = photo]]
    /\ UNCHANGED <<tables, cache, given, files, history>>

RemoveAvatar(r, u) ==
    /\ Free(r, "removeAvatar")
    /\ req' = [req EXCEPT ![r] = Sent("removeAvatar", "previous", u, None)]
    /\ UNCHANGED <<tables, cache, given, files, history>>

(* The authentication service signs u in with Google, and reads the row: a *)
(* picture of Google's is to be the one that Google serves now, and an     *)
(* account without a name gets that of its Google account.                 *)
GoogleSignIn(r, u, photo) ==
    /\ Free(r, "googleSignIn")
    /\ LET synced == profile[u].avatar \in GooglePhotos /\ profile[u].avatar # photo
       IN  req' = [req EXCEPT ![r] =
             IF synced \/ ~profile[u].named
             THEN [Sent("googleSignIn", "sync", u, None)
                     EXCEPT !.picture = IF synced THEN photo ELSE None]
             ELSE Sent("googleSignIn", "done", u, None)]
    /\ UNCHANGED <<tables, cache, given, files, history>>

Synced(row, photo) ==
    [row EXCEPT !.named = TRUE, !.avatar = IF photo = None THEN row.avatar ELSE photo]

(* It writes the row and deletes no key: "a name or photo set by Google    *)
(* sign-in (another service) cannot clear it" (users.service.ts).          *)
SyncProfile(r) ==
    /\ At(r, "sync")
    /\ LET u == req[r].who
           k == <<"profile", u>>
       IN  /\ profile' = [profile EXCEPT ![u] = Synced(@, req[r].picture)]
           /\ cache' = [cache EXCEPT ![k] = IF @ = None THEN None ELSE [@ EXCEPT !.late = TRUE]]
    /\ Goto(r, "done")
    /\ UNCHANGED <<blocks, follows, reports, given, files, history>>

ReadPrevious(r) ==
    /\ At(r, "previous")
    /\ req' = [req EXCEPT ![r].step = "update", ![r].previous = profile[req[r].who].avatar]
    /\ UNCHANGED <<tables, cache, given, files, history>>

(* A fault: the previous picture is read once the new one is there.        *)
ReplaceThenRead(r) ==
    /\ At(r, "update")
    /\ profile' = [profile EXCEPT ![req[r].who].avatar = req[r].picture]
    /\ req' = [req EXCEPT ![r].step = "forget", ![r].drop = << <<"profile", req[r].who>> >>,
                          ![r].previous = req[r].picture]
    /\ UNCHANGED <<blocks, follows, reports, cache, given, files, history>>

Replace(r) ==
    /\ At(r, "update")
    /\ profile' = [profile EXCEPT ![req[r].who].avatar = req[r].picture]
    /\ Forget(r, << <<"profile", req[r].who>> >>)
    /\ UNCHANGED <<blocks, follows, reports, cache, given, files, history>>

(* A leftover file is not worth failing for.                               *)
RemoveUploadedFile(r) ==
    /\ At(r, "removeFile")
    /\ \/ files' = files \ {req[r].previous}
       \/ UNCHANGED files
    /\ Goto(r, "done")
    /\ UNCHANGED <<tables, cache, given, history>>

(* The account is to be deleted: three services erase at once, each all or *)
(* some of its files, and the copies are dropped if all confirm.           *)
EraseFiles(r, u) ==
    /\ Free(r, "erase")
    /\ \E gone \in SUBSET {p \in Pictures : given[p] = u}, others \in BOOLEAN :
         /\ files' = files \ gone
         /\ req' = [req EXCEPT ![r] =
              IF others /\ gone = {p \in Pictures : given[p] = u}
              THEN [Sent("erase", "forget", u, None) EXCEPT !.drop = << <<"profile", u>> >>]
              ELSE Sent("erase", "done", u, None)]
    /\ erased' = erased \cup {u}
    /\ UNCHANGED <<tables, cache, given, confirmed, crossed>>

Profiles(r) ==
    \/ \E u \in Users :
         \/ \E n \in Names : UpdateProfile(r, u, n)
         \/ \E p \in Pictures : UseUpload(r, u, p)
         \/ \E photo \in GooglePhotos : UseGooglePhoto(r, u, photo) \/ GoogleSignIn(r, u, photo)
         \/ RemoveAvatar(r, u) \/ VisibilityChanged(r, u) \/ EraseFiles(r, u)
    \/ ReadPrevious(r) \/ Replace(r) \/ RemoveUploadedFile(r) \/ SyncProfile(r)

-----------------------------------------------------------------------------
(* Reports.                                                                *)

OpenReport(u, v) == {i \in Reports : /\ reports[i] # None
                                     /\ reports[i].by = u /\ reports[i].about = v
                                     /\ reports[i].status = "open"}

(* The index refuses a second open one, and the open one is answered.      *)
CreateReport(r, u, v) ==
    /\ Free(r, "report")
    /\ u # v
    /\ IF OpenReport(u, v) = {}
       THEN \E i \in Reports :
              /\ reports[i] = None
              /\ reports' = [reports EXCEPT ![i] = [by |-> u, about |-> v, status |-> "open",
                                                    reviewer |-> None]]
              /\ req' = [req EXCEPT ![r] = Sent("report", "done", u, v)]
       ELSE /\ req' = [req EXCEPT ![r] = Sent("report", "open", u, v)]
            /\ UNCHANGED reports
    /\ UNCHANGED <<profile, blocks, follows, cache, given, files, history>>

ReadOpenReport(r) ==
    /\ At(r, "open")
    /\ Goto(r, "done")
    /\ UNCHANGED <<tables, cache, given, files, history>>

(* One conditional update: of two reviews the second changes nothing.      *)
Review(r, admin, i, outcome) ==
    /\ Free(r, "review")
    /\ reports' = IF reports[i] # None /\ reports[i].status = "open"
                  THEN [reports EXCEPT ![i].status = outcome, ![i].reviewer = admin]
                  ELSE reports
    /\ req' = [req EXCEPT ![r] = Sent("review", "done", admin, None)]
    /\ UNCHANGED <<profile, blocks, follows, cache, given, files, history>>

Reporting(r) ==
    \/ \E u, v \in Users : CreateReport(r, u, v)
    \/ ReadOpenReport(r)
    \/ \E admin \in Users, i \in Reports, outcome \in {"resolved", "dismissed"} :
         Review(r, admin, i, outcome)

-----------------------------------------------------------------------------
Next ==
    \/ \E r \in Requests : CacheNext(r) \/ BlockRequests(r) \/ FollowRequests(r) \/ Profiles(r) \/ Reporting(r)
    \/ \E k \in Keys : Expire(k)
    \/ \E u \in Users, p \in Pictures : CreateUpload(u, p)
    \/ \E p \in Pictures : Upload(p)

Spec == Init /\ [][Next]_vars

-----------------------------------------------------------------------------
(* Properties.                                                             *)

(* A cached copy is what the database says, unless a request that changed  *)
(* the database has yet to delete it, or it is late (JsonCache): Redis     *)
(* missed its deletion, a reader that had loaded it before a change stored *)
(* it after, or a sign-in with Google changed the profile it copies.       *)
CachedIsCurrent ==
    \A k \in Keys :
        cache[k] # None /\ ~cache[k].late => Current(k, cache[k].value) \/ ToBeForgotten(k)

(* A block ends the follows of both, and nobody follows across it but by a *)
(* request whose check could not see it: that was answered before the      *)
(* block, or from a copy of the blocked ids that the request that blocks   *)
(* had still to delete, or from a late one (follows.service.ts).           *)
NoFollowAcrossBlock ==
    \A pair \in follows : Blocked(pair[1], pair[2]) => pair \in crossed

(* "Two people where either has blocked the other cannot follow each       *)
(* other" (follows.service.ts): refuted by each of the three.              *)
NoFollowWhileBlocked == \A pair \in follows : ~Blocked(pair[1], pair[2])

(* A copy says what the row says once nobody has to delete it: refuted by  *)
(* a reader that loaded before the change.                                 *)
CopyIsFresh ==
    \A k \in Keys : cache[k] # None => Current(k, cache[k].value) \/ ToBeForgotten(k)

(* A profile names a picture that is there, if it was confirmed once and   *)
(* the account's files are not erased (avatar.service.ts).                 *)
PictureIsThere ==
    \A u \in Users : LET p == profile[u].avatar IN
        p \in Pictures /\ confirmed[p] <= 1 /\ u \notin erased => p \in files

(* "The picture that was just replaced is of no use to anyone"             *)
(* (avatar.service.ts): what is removed is not the picture in use.         *)
OnlyReplacedIsRemoved ==
    \A u \in Users : LET p == profile[u].avatar IN
        p \in Pictures /\ u \notin erased => p \in files

=============================================================================
