---------------------------- MODULE PeopleProofs ----------------------------
(***************************************************************************)
(* Proofs about People for any number of people, requests and copies.      *)
(***************************************************************************)
EXTENDS People, TLAPS

(* A record with the fields of a request, whatever their values.           *)
IsRequest(q) ==
    q \in [op : {q.op}, step : {q.step}, who : {q.who}, other : {q.other},
           picture : {q.picture}, name : {q.name}, previous : {q.previous},
           answer : {q.answer}, drop : {q.drop}, clear : {q.clear}]

(* What a follow knows on its way to the insert: from the answer on, that  *)
(* nobody blocked anybody when it was given, or else that it says so.      *)
Knows(q) ==
    /\ IsRequest(q)
    /\ q.op = "follow" /\ q.step \in {"lookup", "load", "store", "blocked"} => q.other \in Users
    /\ q.op = "follow" /\ q.step \in {"store", "blocked"} => q.clear \/ q.other \in q.answer
    /\ q.step \in {"blocked", "room", "insert"} => q.op = "follow"
    /\ q.step \in {"room", "insert"} => q.clear

FollowsAreCrossed ==
    /\ req = [r \in Requests |-> req[r]]
    /\ \A r \in Requests : req[r] # None => Knows(req[r])
    /\ follows \subseteq crossed

LEMMA SentKnows ==
    ASSUME NEW op, NEW step, NEW u, NEW v,
           step \notin {"store", "blocked", "room", "insert"},
           op = "follow" /\ step \in {"lookup", "load"} => v \in Users
    PROVE  Knows(Sent(op, step, u, v))
BY DEF Sent, Knows, IsRequest

(* One request changes, and every follow that is there stays accounted for.*)
LEMMA OneKnows ==
    ASSUME FollowsAreCrossed, NEW r \in Requests, NEW new, new # None => Knows(new),
           req' = [req EXCEPT ![r] = new],
           follows' \subseteq crossed'
    PROVE  FollowsAreCrossed'
BY DEF FollowsAreCrossed

LEMMA GotoKnows ==
    ASSUME FollowsAreCrossed, NEW r \in Requests, req[r] # None, NEW step, Goto(r, step),
           step \notin {"lookup", "load", "store", "blocked"},
           step \in {"room", "insert"} => req[r].op = "follow" /\ req[r].clear,
           follows' \subseteq crossed'
    PROVE  FollowsAreCrossed'
<1>1. Knows(req[r])
  BY DEF FollowsAreCrossed
<1>2. CASE step = "done"
  <2> DEFINE new == Done(r)
  <2>1. Knows(new)
    BY SentKnows DEF Done
  <2>2. req' = [req EXCEPT ![r] = new]
    BY <1>2 DEF Goto
  <2> HIDE DEF new
  <2> QED
    BY <2>1, <2>2, OneKnows
<1>3. CASE step # "done"
  <2> DEFINE new == [req[r] EXCEPT !.step = step]
  <2>1. Knows(new)
    BY <1>1 DEF Knows, IsRequest
  <2>2. req' = [req EXCEPT ![r] = new]
    BY <1>3 DEF Goto
  <2> HIDE DEF new
  <2> QED
    BY <2>1, <2>2, OneKnows
<1> QED
  BY <1>2, <1>3

(* A request that is sent, perhaps with keys to delete or a picture.       *)
LEMMA SentStays ==
    ASSUME FollowsAreCrossed, NEW r \in Requests, NEW op, NEW step, NEW u, NEW v,
           step \notin {"store", "blocked", "room", "insert"},
           op = "follow" /\ step \in {"lookup", "load"} => v \in Users,
           req' = [req EXCEPT ![r] = Sent(op, step, u, v)],
           follows' \subseteq crossed'
    PROVE  FollowsAreCrossed'
<1>1. Knows(Sent(op, step, u, v))
  BY SentKnows
<1> QED
  BY <1>1, OneKnows

LEMMA SentForgets ==
    ASSUME FollowsAreCrossed, NEW r \in Requests, NEW op, NEW u, NEW v, NEW keys,
           req' = [req EXCEPT ![r] = [Sent(op, "forget", u, v) EXCEPT !.drop = keys]],
           follows' \subseteq crossed'
    PROVE  FollowsAreCrossed'
<1> DEFINE sent == Sent(op, "forget", u, v)
           new == [sent EXCEPT !.drop = keys]
<1>1. Knows(sent) /\ sent.step = "forget"
  BY SentKnows DEF Sent
<1> HIDE DEF sent
<1>2. Knows(new)
  BY <1>1 DEF Knows, IsRequest
<1>3. req' = [req EXCEPT ![r] = new]
  BY DEF sent
<1> HIDE DEF new
<1> QED
  BY <1>2, <1>3, OneKnows

LEMMA SentWithPicture ==
    ASSUME FollowsAreCrossed, NEW r \in Requests, NEW op, NEW u, NEW p,
           NEW step \in {"previous", "sync", "done"},
           req' = [req EXCEPT ![r] = [Sent(op, step, u, None) EXCEPT !.picture = p]],
           follows' \subseteq crossed'
    PROVE  FollowsAreCrossed'
<1> DEFINE sent == Sent(op, step, u, None)
           new == [sent EXCEPT !.picture = p]
<1>1. Knows(sent) /\ sent.step = step
  BY SentKnows DEF Sent
<1> HIDE DEF sent
<1>2. Knows(new)
  BY <1>1 DEF Knows, IsRequest
<1>3. req' = [req EXCEPT ![r] = new]
  BY DEF sent
<1> HIDE DEF new
<1> QED
  BY <1>2, <1>3, OneKnows

-----------------------------------------------------------------------------
(* The blocks a follow is answered with show the other person, or it says  *)
(* that no block was to be seen.                                           *)
LEMMA AnswerKnows ==
    ASSUME NEW q, Knows(q), NEW value, NEW clear \in BOOLEAN,
           q.op = "follow" => q.other \in Users /\ (clear \/ q.other \in value)
    PROVE  Knows(Answered(q, value, clear))
<1>1. CASE q.op = "follow"
  <2> DEFINE new == [q EXCEPT !.step = "blocked", !.answer = value, !.clear = clear]
  <2>1. Answered(q, value, clear) = new
    BY <1>1 DEF Answered
  <2>2. /\ IsRequest(new) /\ new.op = "follow" /\ new.step = "blocked"
        /\ new.other = q.other /\ new.answer = value /\ new.clear = clear
    BY <1>1 DEF Knows, IsRequest
  <2> HIDE DEF new
  <2>3. Knows(new)
    BY <1>1, <2>2 DEF Knows
  <2> QED
    BY <2>1, <2>3
<1>2. CASE q.op # "follow"
  BY <1>2, SentKnows DEF Answered
<1> QED
  BY <1>1, <1>2

LEMMA CacheKeeps ==
    ASSUME TypeOK, CachedIsCurrent, FollowsAreCrossed, NEW r \in Requests, CacheNext(r)
    PROVE  FollowsAreCrossed'
<1>0. follows' \subseteq crossed'
  BY DEF CacheNext, Read, Lookup, Load, Store, ForgetKey, Forgotten, tables, history,
         FollowsAreCrossed
<1>k. ASSUME NEW q, q.op = "follow"
      PROVE  Loaded(KeyOf(q)) = RelatedIds(q.who)
  BY <1>k DEF Loaded, KeyOf
<1>1. ASSUME NEW op \in {"readBlocks", "readFollowing", "readProfile"}, NEW u \in Users,
             Read(r, op, u)
      PROVE  FollowsAreCrossed'
  <2>1. req' = [req EXCEPT ![r] = Sent(op, "lookup", u, None)]
    BY <1>1 DEF Read
  <2>2. op # "follow"
    OBVIOUS
  <2>3. Knows(Sent(op, "lookup", u, None))
    BY <2>2, SentKnows
  <2> QED
    BY <1>0, <2>1, <2>3, OneKnows
<1>2. CASE Lookup(r)
  <2>1. req[r] # None /\ req[r].step = "lookup" /\ Knows(req[r])
    BY <1>2 DEF Lookup, At, FollowsAreCrossed
  <2> DEFINE key == KeyOf(req[r])
             entry == cache[key]
  <2>2. CASE entry = None
    <3> DEFINE new == [req[r] EXCEPT !.step = "load"]
    <3>1. Knows(new)
      BY <2>1 DEF Knows, IsRequest
    <3>2. req' = [req EXCEPT ![r] = new]
      BY <1>2, <2>2 DEF Lookup
    <3> HIDE DEF new
    <3> QED
      BY <1>0, <3>1, <3>2, OneKnows
  <2>3. CASE entry # None
    <3> DEFINE clear == \/ ~Blocked(req[r].who, req[r].other)
                        \/ ToBeForgotten(key) \/ entry.late
               new == Answered(req[r], entry.value, clear)
    <3>1. req' = [req EXCEPT ![r] = new]
      BY <1>2, <2>3 DEF Lookup
    <3>2. ASSUME req[r].op = "follow", ~clear PROVE req[r].other \in entry.value
      <4>1. req[r] \in Request /\ req[r].other \in Users
        BY <2>1, <3>2 DEF TypeOK, Knows
      <4>2. key = <<"blocks", req[r].who>> /\ key \in Keys
        BY <3>2, <4>1 DEF KeyOf, Keys, Request
      <4>3. Current(key, entry.value)
        BY <2>3, <3>2, <4>2 DEF CachedIsCurrent
      <4>4. entry.value = RelatedIds(req[r].who)
        BY <1>k, <3>2, <4>3 DEF Current
      <4> QED
        BY <3>2, <4>1, <4>4 DEF RelatedIds
    <3>3. req[r].op = "follow" =>
             req[r].other \in Users /\ (clear \/ req[r].other \in entry.value)
      BY <2>1, <3>2 DEF Knows
    <3>4. clear \in BOOLEAN
      OBVIOUS
    <3> HIDE DEF clear, entry
    <3>5. Knows(new)
      BY <2>1, <3>3, <3>4, AnswerKnows
    <3> HIDE DEF new
    <3> QED
      BY <1>0, <3>1, <3>5, OneKnows
  <2> QED
    BY <2>2, <2>3
<1>3. CASE Load(r)
  <2>1. req[r] # None /\ req[r].step = "load" /\ Knows(req[r])
    BY <1>3 DEF Load, At, FollowsAreCrossed
  <2>2. CASE Goto(r, "done")
    BY <1>0, <2>1, <2>2, GotoKnows
  <2>3. CASE ~Goto(r, "done")
    <3> DEFINE answer == Loaded(KeyOf(req[r]))
               clear == req[r].op = "follow" /\ ~Blocked(req[r].who, req[r].other)
               new == [req[r] EXCEPT !.step = "store", !.answer = answer, !.clear = clear]
    <3>1. req' = [req EXCEPT ![r] = new]
      BY <1>3, <2>3 DEF Load
    <3>2. req[r].op = "follow" => req[r].other \in Users /\ (clear \/ req[r].other \in answer)
      BY <1>k, <2>1 DEF Knows, RelatedIds
    <3> HIDE DEF clear, answer
    <3>3. Knows(new)
      BY <2>1, <3>2 DEF Knows, IsRequest
    <3> HIDE DEF new
    <3> QED
      BY <1>0, <3>1, <3>3, OneKnows
  <2> QED
    BY <2>2, <2>3
<1>4. CASE Store(r)
  <2>1. req[r] # None /\ req[r].step = "store" /\ Knows(req[r])
    BY <1>4 DEF Store, At, FollowsAreCrossed
  <2> DEFINE new == Answered(req[r], req[r].answer, req[r].clear)
  <2>2. req' = [req EXCEPT ![r] = new]
    BY <1>4 DEF Store
  <2>3. req[r].op = "follow" =>
          req[r].other \in Users /\ (req[r].clear \/ req[r].other \in req[r].answer)
    BY <2>1 DEF Knows
  <2>4. Knows(new)
    <3>1. req[r].clear \in BOOLEAN
      BY <2>1 DEF TypeOK, Request
    <3> QED
      BY <2>1, <2>3, <3>1, AnswerKnows
  <2> HIDE DEF new
  <2> QED
    BY <1>0, <2>2, <2>4, OneKnows
<1>5. CASE ForgetKey(r)
  <2>1. req[r] # None /\ req[r].step = "forget" /\ Knows(req[r])
    BY <1>5 DEF ForgetKey, At, FollowsAreCrossed
  <2> DEFINE new == [req[r] EXCEPT !.drop = Tail(@)]
  <2>2. Knows(new)
    BY <2>1 DEF Knows, IsRequest
  <2>3. req' = [req EXCEPT ![r] = new]
    BY <1>5 DEF ForgetKey
  <2> HIDE DEF new
  <2> QED
    BY <1>0, <2>2, <2>3, OneKnows
<1>6. CASE Forgotten(r)
  <2>1. req[r] # None
    BY <1>6 DEF Forgotten, At
  <2>2. PICK step \in {"removeFile", "done"} : Goto(r, step)
    BY <1>6 DEF Forgotten
  <2> QED
    BY <1>0, <2>1, <2>2, GotoKnows
<1> QED
  BY <1>1, <1>2, <1>3, <1>4, <1>5, <1>6 DEF CacheNext

-----------------------------------------------------------------------------
LEMMA BlocksKeep ==
    ASSUME FollowsAreCrossed, NEW r \in Requests, BlockRequests(r)
    PROVE  FollowsAreCrossed'
<1>1. ASSUME NEW u, NEW v, Block(r, u, v)
      PROVE  FollowsAreCrossed'
  <2>1. follows' \subseteq crossed'
    BY <1>1 DEF Block, Unfollowed, FollowsAreCrossed
  <2> QED
    BY <1>1, <2>1, SentForgets DEF Block
<1>2. ASSUME NEW u, NEW v, Unblock(r, u, v)
      PROVE  FollowsAreCrossed'
  <2>1. follows' \subseteq crossed'
    BY <1>2 DEF Unblock, history, FollowsAreCrossed
  <2> QED
    BY <1>2, <2>1, SentForgets DEF Unblock
<1> QED
  BY <1>1, <1>2 DEF BlockRequests

LEMMA FollowsKeep ==
    ASSUME FollowsAreCrossed, NEW r \in Requests, FollowRequests(r)
    PROVE  FollowsAreCrossed'
<1>1. ASSUME NEW u \in Users, NEW v \in Users, Follow(r, u, v)
      PROVE  FollowsAreCrossed'
  <2> DEFINE step == IF Visible(v) THEN "lookup" ELSE "done"
  <2>1. req' = [req EXCEPT ![r] = Sent("follow", step, u, v)]
    BY <1>1 DEF Follow
  <2>2. follows' \subseteq crossed'
    BY <1>1 DEF Follow, tables, history, FollowsAreCrossed
  <2>3. step \in {"lookup", "done"}
    OBVIOUS
  <2> HIDE DEF step
  <2> QED
    BY <2>1, <2>2, <2>3, SentStays
<1>2. ASSUME NEW u, NEW v, Unfollow(r, u, v)
      PROVE  FollowsAreCrossed'
  <2>1. follows' \subseteq crossed'
    BY <1>2 DEF Unfollow, FollowsAreCrossed
  <2> QED
    BY <1>2, <2>1, SentForgets DEF Unfollow
<1>5. CASE RequireRoomToFollow(r)
  <2>1. req[r] # None /\ req[r].step = "room" /\ Knows(req[r])
    BY <1>5 DEF RequireRoomToFollow, At, FollowsAreCrossed
  <2>2. follows' \subseteq crossed'
    BY <1>5 DEF RequireRoomToFollow, tables, history, FollowsAreCrossed
  <2>3. Goto(r, "done") \/ Goto(r, "insert")
    BY <1>5 DEF RequireRoomToFollow
  <2>4. req[r].op = "follow" /\ req[r].clear
    BY <2>1 DEF Knows
  <2> QED
    BY <2>1, <2>2, <2>3, <2>4, GotoKnows
<1>3. CASE IsFollowing(r)
  <2>1. req[r] # None /\ req[r].step = "blocked" /\ Knows(req[r])
    BY <1>3 DEF IsFollowing, At, FollowsAreCrossed
  <2>2. follows' \subseteq crossed'
    BY <1>3 DEF IsFollowing, tables, history, FollowsAreCrossed
  <2>3. \/ Goto(r, "done")
        \/ req[r].other \notin req[r].answer /\ Goto(r, "room")
    BY <1>3 DEF IsFollowing
  <2>4. req[r].op = "follow" /\ (req[r].other \notin req[r].answer => req[r].clear)
    BY <2>1 DEF Knows
  <2> QED
    BY <2>1, <2>2, <2>3, <2>4, GotoKnows
<1>4. CASE InsertFollow(r)
  <2>1. req[r] # None /\ req[r].step = "insert" /\ Knows(req[r])
    BY <1>4 DEF InsertFollow, At, FollowsAreCrossed
  <2>2. follows' \subseteq crossed'
    BY <1>4, <2>1 DEF InsertFollow, FollowsAreCrossed, Knows
  <2> DEFINE keys == << <<"following", req[r].who>> >>
             new == [req[r] EXCEPT !.step = "forget", !.drop = keys]
  <2>3. req' = [req EXCEPT ![r] = new]
    BY <1>4 DEF InsertFollow, Forget
  <2> HIDE DEF keys
  <2>4. Knows(new)
    BY <2>1 DEF Knows, IsRequest
  <2> HIDE DEF new
  <2> QED
    BY <2>2, <2>3, <2>4, OneKnows
<1> QED
  BY <1>1, <1>2, <1>3, <1>4, <1>5 DEF FollowRequests

LEMMA ProfilesKeep ==
    ASSUME FollowsAreCrossed, NEW r \in Requests, Profiles(r)
    PROVE  FollowsAreCrossed'
<1>0. follows' \subseteq crossed'
  BY DEF Profiles, UpdateProfile, UseUpload, UseGooglePhoto, RemoveAvatar, GoogleSignIn,
         VisibilityChanged, EraseFiles, ReadPrevious, Replace, RemoveUploadedFile, SyncProfile,
         tables, history, FollowsAreCrossed
<1>1. ASSUME NEW u, NEW n, UpdateProfile(r, u, n)
      PROVE  FollowsAreCrossed'
  <2>1. \/ req' = [req EXCEPT ![r] = Sent("updateProfile", "done", u, None)]
        \/ req' = [req EXCEPT ![r] = [Sent("updateProfile", "forget", u, None)
                                        EXCEPT !.drop = << <<"profile", u>> >>]]
    BY <1>1 DEF UpdateProfile
  <2>2. CASE req' = [req EXCEPT ![r] = Sent("updateProfile", "done", u, None)]
    BY <1>0, <2>2, SentStays
  <2>3. CASE req' = [req EXCEPT ![r] = [Sent("updateProfile", "forget", u, None)
                                          EXCEPT !.drop = << <<"profile", u>> >>]]
    BY <1>0, <2>3, SentForgets
  <2> QED
    BY <2>1, <2>2, <2>3
<1>2. ASSUME NEW u, NEW p, UseUpload(r, u, p)
      PROVE  FollowsAreCrossed'
  <2> DEFINE step == IF given[p] = u /\ p \in files THEN "previous" ELSE "done"
             picture == IF given[p] = u /\ p \in files THEN p ELSE None
  <2>1. req' = [req EXCEPT ![r] = [Sent("useUpload", step, u, None) EXCEPT !.picture = picture]]
    BY <1>2 DEF UseUpload
  <2>2. step \in {"previous", "done"}
    OBVIOUS
  <2> HIDE DEF step, picture
  <2> QED
    BY <1>0, <2>1, <2>2, SentWithPicture
<1>3. ASSUME NEW u, RemoveAvatar(r, u)
      PROVE  FollowsAreCrossed'
  BY <1>0, <1>3, SentStays DEF RemoveAvatar
<1>9. ASSUME NEW u, NEW photo, UseGooglePhoto(r, u, photo)
      PROVE  FollowsAreCrossed'
  BY <1>0, <1>9, SentWithPicture DEF UseGooglePhoto
<1>10. ASSUME NEW u, NEW photo, GoogleSignIn(r, u, photo)
       PROVE  FollowsAreCrossed'
  <2> DEFINE synced == profile[u].avatar \in GooglePhotos /\ profile[u].avatar # photo
             picture == IF synced THEN photo ELSE None
  <2>1. \/ req' = [req EXCEPT ![r] = Sent("googleSignIn", "done", u, None)]
        \/ req' = [req EXCEPT ![r] = [Sent("googleSignIn", "sync", u, None)
                                        EXCEPT !.picture = picture]]
    BY <1>10 DEF GoogleSignIn
  <2> HIDE DEF picture
  <2>2. CASE req' = [req EXCEPT ![r] = Sent("googleSignIn", "done", u, None)]
    BY <1>0, <2>2, SentStays
  <2>3. CASE req' = [req EXCEPT ![r] = [Sent("googleSignIn", "sync", u, None)
                                          EXCEPT !.picture = picture]]
    BY <1>0, <2>3, SentWithPicture
  <2> QED
    BY <2>1, <2>2, <2>3
<1>11. CASE SyncProfile(r)
  BY <1>0, <1>11, GotoKnows DEF SyncProfile, At
<1>4. ASSUME NEW u, VisibilityChanged(r, u)
      PROVE  FollowsAreCrossed'
  BY <1>0, <1>4, SentForgets DEF VisibilityChanged
<1>5. ASSUME NEW u, EraseFiles(r, u)
      PROVE  FollowsAreCrossed'
  BY <1>0, <1>5, SentStays, SentForgets DEF EraseFiles
<1>6. CASE ReadPrevious(r)
  <2>1. req[r] # None /\ Knows(req[r])
    BY <1>6 DEF ReadPrevious, At, FollowsAreCrossed
  <2> DEFINE avatar == profile[req[r].who].avatar
             new == [req[r] EXCEPT !.step = "update", !.previous = avatar]
  <2>2. req' = [req EXCEPT ![r] = new]
    BY <1>6 DEF ReadPrevious
  <2> HIDE DEF avatar
  <2>3. Knows(new)
    BY <2>1 DEF Knows, IsRequest
  <2> HIDE DEF new
  <2> QED
    BY <1>0, <2>2, <2>3, OneKnows
<1>7. CASE Replace(r)
  <2>1. req[r] # None /\ Knows(req[r])
    BY <1>7 DEF Replace, At, FollowsAreCrossed
  <2> DEFINE keys == << <<"profile", req[r].who>> >>
             new == [req[r] EXCEPT !.step = "forget", !.drop = keys]
  <2>2. req' = [req EXCEPT ![r] = new]
    BY <1>7 DEF Replace, Forget
  <2> HIDE DEF keys
  <2>3. Knows(new)
    BY <2>1 DEF Knows, IsRequest
  <2> HIDE DEF new
  <2> QED
    BY <1>0, <2>2, <2>3, OneKnows
<1>8. CASE RemoveUploadedFile(r)
  BY <1>0, <1>8, GotoKnows DEF RemoveUploadedFile, At
<1> QED
  BY <1>1, <1>2, <1>3, <1>4, <1>5, <1>6, <1>7, <1>8, <1>9, <1>10, <1>11 DEF Profiles

LEMMA ReportsKeep ==
    ASSUME FollowsAreCrossed, NEW r \in Requests, Reporting(r)
    PROVE  FollowsAreCrossed'
<1>0. follows' \subseteq crossed'
  BY DEF Reporting, CreateReport, ReadOpenReport, Review, tables, history, FollowsAreCrossed
<1>1. ASSUME NEW u, NEW v, CreateReport(r, u, v)
      PROVE  FollowsAreCrossed'
  BY <1>0, <1>1, SentStays DEF CreateReport
<1>2. CASE ReadOpenReport(r)
  BY <1>0, <1>2, GotoKnows DEF ReadOpenReport, At
<1>3. ASSUME NEW admin, NEW i, NEW outcome, Review(r, admin, i, outcome)
      PROVE  FollowsAreCrossed'
  BY <1>0, <1>3, SentStays DEF Review
<1> QED
  BY <1>1, <1>2, <1>3 DEF Reporting

-----------------------------------------------------------------------------
(* Types, which need to know how far a request has come.                   *)

Asking == {"follow", "readBlocks", "readFollowing", "readProfile"}

Sound(q) ==
    /\ q \in Request
    /\ q.step \in {"lookup", "load", "store"} => q.op \in Asking
    /\ q.step = "blocked" => q.op = "follow"
    /\ q.step \in {"room", "insert"}
         \/ (q.op = "follow" /\ q.step \in {"lookup", "load", "store", "blocked"})
          => q.other \in Users

Requested ==
    /\ req \in [Requests -> Request \cup {None}]
    /\ \A r \in Requests : req[r] # None => Sound(req[r])

(* A row of users.                                                         *)
Row == [name : Names \cup {None}, named : BOOLEAN, avatar : Avatars, hidden : BOOLEAN]
USE DEF Row

Typed == TypeOK /\ Requested /\ cache = [k \in Keys |-> cache[k]]

LEMMA OneRequest ==
    ASSUME Requested, NEW r \in Requests, NEW new, Sound(new), req' = [req EXCEPT ![r] = new]
    PROVE  Requested'
BY DEF Requested, Sound

LEMMA SentIsSound ==
    ASSUME NEW op \in Operations, NEW step \in Steps, NEW u \in Users, NEW v \in Users \cup {None},
           step \in {"lookup", "load", "store"} => op \in Asking,
           step \notin {"blocked", "room", "insert"},
           op = "follow" /\ step \in {"lookup", "load", "store"} => v \in Users
    PROVE  /\ Sound(Sent(op, step, u, v))
           /\ \A keys \in Seq(Keys) : Sound([Sent(op, step, u, v) EXCEPT !.drop = keys])
           /\ \A p \in Avatars : Sound([Sent(op, step, u, v) EXCEPT !.picture = p])
<1>1. <<>> \in Seq(Keys) /\ {} \in Values /\ None \in Avatars
  BY DEF Values, Avatars
<1> QED
  BY <1>1 DEF Sent, Sound, Request

LEMMA DropsAreKeys ==
    ASSUME NEW u \in Users, NEW v \in Users
    PROVE  /\ BothKeys(u, v) \in Seq(Keys)
           /\ << <<"following", u>> >> \in Seq(Keys)
           /\ << <<"profile", u>> >> \in Seq(Keys)
<1>1. /\ <<"blocks", u>> \in Keys /\ <<"following", u>> \in Keys /\ <<"profile", u>> \in Keys
      /\ <<"blocks", v>> \in Keys /\ <<"following", v>> \in Keys
  BY DEF Keys
<1> QED
  BY <1>1 DEF BothKeys

(* A request that goes on stays what it was.                               *)
LEMMA GotoIsSound ==
    ASSUME Requested, NEW r \in Requests, req[r] # None, NEW step \in Steps, Goto(r, step),
           step \notin {"lookup", "load", "store", "blocked"},
           step \in {"room", "insert"} => req[r].other \in Users
    PROVE  Requested'
<1>1. Sound(req[r]) /\ req[r] \in Request
  BY DEF Requested, Sound
<1>2. CASE step = "done"
  <2>1. Sound(Done(r))
    <3>1. req[r].op \in Operations /\ req[r].who \in Users /\ "done" \in Steps
      BY <1>1 DEF Request, Steps
    <3> QED
      BY <3>1, SentIsSound DEF Done
  <2> QED
    BY <1>2, <2>1, OneRequest DEF Goto
<1>3. CASE step # "done"
  <2>1. Sound([req[r] EXCEPT !.step = step])
    BY <1>1 DEF Sound, Request
  <2> QED
    BY <1>3, <2>1, OneRequest DEF Goto
<1> QED
  BY <1>2, <1>3

LEMMA CacheIsTyped ==
    ASSUME Typed, NEW r \in Requests, CacheNext(r)
    PROVE  Requested' /\ TypeOK' /\ cache' = [k \in Keys |-> cache'[k]]
<1> USE DEF Typed
<1>0. TypeOK /\ Requested
  OBVIOUS
<1>t. ASSUME Requested', UNCHANGED <<tables, given, files, history>>,
             cache' = [k \in Keys |-> cache'[k]],
             \A k \in Keys : cache'[k] = None \/ cache'[k] \in [value : Values, late : BOOLEAN]
      PROVE  Requested' /\ TypeOK' /\ cache' = [k \in Keys |-> cache'[k]]
  BY <1>t DEF TypeOK, tables, history, Requested
<1>k. ASSUME req[r] # None, req[r].step \in {"lookup", "load", "store"}
      PROVE  KeyOf(req[r]) \in Keys
  BY <1>k DEF Requested, Sound, Request, Asking, KeyOf, Keys
<1>v. ASSUME NEW k \in Keys
      PROVE  Loaded(k) \in Values
  <2>1. k[2] \in Users /\ k[1] \in {"blocks", "following", "profile"}
    BY <1>v DEF Keys
  <2>2. RelatedIds(k[2]) \in Values /\ FollowingIds(k[2]) \in Values
    BY DEF RelatedIds, FollowingIds, Values
  <2>3. PublicProfile(k[2]) \in Values
    BY <2>1 DEF PublicProfile, Values, TypeOK
  <2> QED
    BY <2>1, <2>2, <2>3 DEF Loaded
<1>a. ASSUME req[r] # None, req[r].step \in {"lookup", "store"}, NEW value \in Values,
             NEW clear \in BOOLEAN
      PROVE  Sound(Answered(req[r], value, clear))
  <2>1. Sound(req[r]) /\ req[r] \in Request
    BY <1>a DEF Requested, Sound
  <2>2. CASE req[r].op = "follow"
    <3> DEFINE new == [req[r] EXCEPT !.step = "blocked", !.answer = value, !.clear = clear]
    <3>1. Answered(req[r], value, clear) = new
      BY <2>2 DEF Answered
    <3>3. Sound(new)
      BY <1>a, <2>1, <2>2 DEF Sound, Request, Steps
    <3> QED
      BY <3>1, <3>3
  <2>3. CASE req[r].op # "follow"
    <3>1. req[r].op \in Operations /\ req[r].who \in Users /\ "done" \in Steps
      BY <2>1 DEF Request, Steps
    <3> QED
      BY <2>3, <3>1, SentIsSound DEF Answered
  <2> QED
    BY <2>2, <2>3
<1>1. ASSUME NEW op \in {"readBlocks", "readFollowing", "readProfile"}, NEW u \in Users,
             Read(r, op, u)
      PROVE  Requested' /\ TypeOK' /\ cache' = [k \in Keys |-> cache'[k]]
  <2>0. op \in Operations /\ op \in Asking /\ op # "follow" /\ "lookup" \in Steps
    BY DEF Operations, Asking, Steps
  <2>1. Sound(Sent(op, "lookup", u, None))
    BY <2>0, SentIsSound
  <2>2. Requested'
    BY <1>1, <2>1, OneRequest DEF Read
  <2> QED
    BY <1>1, <1>t, <2>2 DEF Read, TypeOK
<1>2. CASE Lookup(r)
  <2>1. req[r] # None /\ req[r].step = "lookup" /\ Sound(req[r]) /\ KeyOf(req[r]) \in Keys
    BY <1>2, <1>k DEF Lookup, At, Requested
  <2> DEFINE entry == cache[KeyOf(req[r])]
  <2>2. CASE entry = None
    <3>1. Sound([req[r] EXCEPT !.step = "load"])
      BY <2>1 DEF Sound, Request, Steps
    <3>2. Requested'
      BY <1>2, <2>2, <3>1, OneRequest DEF Lookup
    <3> QED
      BY <1>2, <1>t, <3>2 DEF Lookup, TypeOK
  <2>3. CASE entry # None
    <3> DEFINE clear == \/ ~Blocked(req[r].who, req[r].other)
                        \/ ToBeForgotten(KeyOf(req[r])) \/ entry.late
    <3>1. entry.value \in Values /\ entry.late \in BOOLEAN
      BY <2>1, <2>3 DEF TypeOK
    <3>2. req' = [req EXCEPT ![r] = Answered(req[r], entry.value, clear)]
      BY <1>2, <2>3 DEF Lookup
    <3>3. clear \in BOOLEAN
      BY <3>1
    <3> HIDE DEF clear
    <3>4. Sound(Answered(req[r], entry.value, clear))
      BY <1>a, <2>1, <3>1, <3>3
    <3>5. Requested'
      BY <3>2, <3>4, OneRequest
    <3> QED
      BY <1>2, <1>t, <3>5 DEF Lookup, TypeOK
  <2> QED
    BY <2>2, <2>3
<1>3. CASE Load(r)
  <2>1. req[r] # None /\ req[r].step = "load" /\ Sound(req[r]) /\ KeyOf(req[r]) \in Keys
    BY <1>3, <1>k DEF Load, At, Requested
  <2>2. CASE Goto(r, "done")
    <3>1. Requested'
      BY <2>1, <2>2, GotoIsSound DEF Steps
    <3> QED
      BY <1>3, <1>t, <3>1 DEF Load, TypeOK
  <2>3. CASE ~Goto(r, "done")
    <3> DEFINE answer == Loaded(KeyOf(req[r]))
               clear == req[r].op = "follow" /\ ~Blocked(req[r].who, req[r].other)
               new == [req[r] EXCEPT !.step = "store", !.answer = answer, !.clear = clear]
    <3>1. req' = [req EXCEPT ![r] = new]
      BY <1>3, <2>3 DEF Load
    <3>2. answer \in Values /\ clear \in BOOLEAN
      BY <1>v, <2>1
    <3> HIDE DEF answer, clear
    <3>3. Sound(new)
      BY <2>1, <3>2 DEF Sound, Request, Steps
    <3>4. Requested'
      BY <3>1, <3>3, OneRequest
    <3> QED
      BY <1>3, <1>t, <3>4 DEF Load, TypeOK
  <2> QED
    BY <2>2, <2>3
<1>4. CASE Store(r)
  <2>1. req[r] # None /\ req[r].step = "store" /\ Sound(req[r]) /\ KeyOf(req[r]) \in Keys
    BY <1>4, <1>k DEF Store, At, Requested
  <2>2. req[r].answer \in Values /\ req[r].clear \in BOOLEAN
    BY <2>1 DEF Sound, Request
  <2>3. Requested'
    BY <1>4, <1>a, <2>1, <2>2, OneRequest DEF Store
  <2> DEFINE k == KeyOf(req[r])
             late == ~Current(k, req[r].answer)
  <2>4. CASE cache' = [cache EXCEPT ![k] = [value |-> req[r].answer, late |-> late]]
    <3>1. late \in BOOLEAN
      OBVIOUS
    <3> HIDE DEF late
    <3>2. [value |-> req[r].answer, late |-> late] \in [value : Values, late : BOOLEAN]
      BY <2>2, <3>1
    <3> HIDE DEF k
    <3> QED
      BY <1>4, <1>t, <2>3, <2>4, <3>2 DEF Store, TypeOK
  <2>5. CASE UNCHANGED cache
    BY <1>4, <1>t, <2>3, <2>5 DEF Store, TypeOK
  <2> QED
    BY <1>4, <2>4, <2>5 DEF Store
<1>5. CASE ForgetKey(r)
  <2>1. req[r] # None /\ req[r].step = "forget" /\ Sound(req[r]) /\ req[r].drop # <<>>
    BY <1>5 DEF ForgetKey, At, Requested
  <2>2. req[r].drop \in Seq(Keys)
    BY <2>1 DEF Sound, Request
  <2>3. Head(req[r].drop) \in Keys /\ Tail(req[r].drop) \in Seq(Keys)
    BY <2>1, <2>2
  <2>4. Sound([req[r] EXCEPT !.drop = Tail(@)])
    BY <2>1, <2>3 DEF Sound, Request
  <2>5. Requested'
    BY <1>5, <2>4, OneRequest DEF ForgetKey
  <2> DEFINE k == Head(req[r].drop)
  <2>8. k \in Keys /\ UNCHANGED <<tables, given, files, history>>
    BY <1>5, <2>3 DEF ForgetKey
  <2>9. \A j \in Keys : cache[j] = None \/ cache[j] \in [value : Values, late : BOOLEAN]
    BY DEF TypeOK
  <2>6. CASE cache' = [cache EXCEPT ![k] = None]
    <3> HIDE DEF k
    <3> QED
      BY <1>t, <2>5, <2>6, <2>8, <2>9
  <2>7. CASE cache[k] # None /\ cache' = [cache EXCEPT ![k].late = TRUE]
    <3>1. [cache[k] EXCEPT !.late = TRUE] \in [value : Values, late : BOOLEAN]
      BY <2>3, <2>7 DEF TypeOK
    <3>2. cache' = [cache EXCEPT ![k] = [cache[k] EXCEPT !.late = TRUE]]
      BY <2>7
    <3> HIDE DEF k
    <3> QED
      BY <1>t, <2>5, <2>8, <2>9, <3>1, <3>2
  <2> QED
    BY <1>5, <2>6, <2>7 DEF ForgetKey
<1>6. CASE Forgotten(r)
  <2>1. req[r] # None
    BY <1>6 DEF Forgotten, At
  <2>2. PICK step \in {"removeFile", "done"} : Goto(r, step)
    BY <1>6 DEF Forgotten
  <2>3. Requested'
    BY <2>1, <2>2, GotoIsSound DEF Steps
  <2> QED
    BY <1>6, <1>t, <2>3 DEF Forgotten, TypeOK
<1> QED
  BY <1>1, <1>2, <1>3, <1>4, <1>5, <1>6 DEF CacheNext

(* A request on blocks, follows or a profile, one that reports, and what   *)
(* nobody asked for.                                                       *)
LEMMA PeopleAreTyped ==
    ASSUME Typed, NEW r \in Requests, BlockRequests(r) \/ FollowRequests(r) \/ Reporting(r)
    PROVE  Requested' /\ TypeOK' /\ UNCHANGED cache
<1> USE DEF Typed
<1>0. TypeOK /\ Requested
  OBVIOUS
<1>1. ASSUME NEW u \in Users, NEW v \in Users, Block(r, u, v)
      PROVE  Requested' /\ TypeOK' /\ UNCHANGED cache
  <2>0. BothKeys(u, v) \in Seq(Keys) /\ "block" \in Operations /\ "forget" \in Steps
    BY DropsAreKeys DEF Operations, Steps
  <2>1. Sound([Sent("block", "forget", u, v) EXCEPT !.drop = BothKeys(u, v)])
    BY <2>0, SentIsSound
  <2>2. Requested'
    BY <1>1, <2>1, OneRequest DEF Block
  <2> QED
    BY <1>1, <2>2 DEF Block, Unfollowed, TypeOK, Requested
<1>2. ASSUME NEW u \in Users, NEW v \in Users, Unblock(r, u, v)
      PROVE  Requested' /\ TypeOK' /\ UNCHANGED cache
  <2>0. BothKeys(u, v) \in Seq(Keys) /\ "unblock" \in Operations /\ "forget" \in Steps
    BY DropsAreKeys DEF Operations, Steps
  <2>1. Sound([Sent("unblock", "forget", u, v) EXCEPT !.drop = BothKeys(u, v)])
    BY <2>0, SentIsSound
  <2>2. Requested'
    BY <1>2, <2>1, OneRequest DEF Unblock
  <2> QED
    BY <1>2, <2>2 DEF Unblock, history, TypeOK, Requested
<1>3. ASSUME NEW u \in Users, NEW v \in Users, Follow(r, u, v)
      PROVE  Requested' /\ TypeOK' /\ UNCHANGED cache
  <2> DEFINE step == IF Visible(v) THEN "lookup" ELSE "done"
  <2>1. step \in {"lookup", "done"} /\ step \in Steps
    BY DEF Steps
  <2>2. req' = [req EXCEPT ![r] = Sent("follow", step, u, v)]
    BY <1>3 DEF Follow
  <2> HIDE DEF step
  <2>3. Requested'
    BY <2>1, <2>2, SentIsSound, OneRequest DEF Operations, Asking
  <2> QED
    BY <1>3, <2>3 DEF Follow, tables, history, TypeOK, Requested
<1>4. ASSUME NEW u \in Users, NEW v \in Users, Unfollow(r, u, v)
      PROVE  Requested' /\ TypeOK' /\ UNCHANGED cache
  <2>0. << <<"following", u>> >> \in Seq(Keys) /\ "unfollow" \in Operations /\ "forget" \in Steps
    BY DropsAreKeys DEF Operations, Steps
  <2>s. Sound([Sent("unfollow", "forget", u, v) EXCEPT !.drop = << <<"following", u>> >>])
    BY <2>0, SentIsSound
  <2>1. Requested'
    BY <1>4, <2>s, OneRequest DEF Unfollow
  <2> QED
    BY <1>4, <2>1 DEF Unfollow, TypeOK, Requested
<1>10. CASE IsFollowing(r)
  <2>1. req[r] # None /\ req[r].step = "blocked" /\ Sound(req[r])
    BY <1>10 DEF IsFollowing, At, Requested
  <2>2. PICK step \in {"done", "room"} : Goto(r, step)
    BY <1>10 DEF IsFollowing
  <2>3. Requested'
    BY <2>1, <2>2, GotoIsSound DEF Steps, Sound
  <2> QED
    BY <1>10, <2>3 DEF IsFollowing, tables, history, TypeOK, Requested
<1>5. CASE RequireRoomToFollow(r)
  <2>1. req[r] # None /\ req[r].step = "room" /\ Sound(req[r])
    BY <1>5 DEF RequireRoomToFollow, At, Requested
  <2>2. PICK step \in {"done", "insert"} : Goto(r, step)
    BY <1>5 DEF RequireRoomToFollow
  <2>3. Requested'
    BY <2>1, <2>2, GotoIsSound DEF Steps, Sound
  <2> QED
    BY <1>5, <2>3 DEF RequireRoomToFollow, tables, history, TypeOK, Requested
<1>6. CASE InsertFollow(r)
  <2>1. req[r] # None /\ Sound(req[r]) /\ req[r].who \in Users /\ req[r].other \in Users
    BY <1>6 DEF InsertFollow, At, Requested, Sound, Request
  <2> DEFINE keys == << <<"following", req[r].who>> >>
             new == [req[r] EXCEPT !.step = "forget", !.drop = keys]
  <2>2. req' = [req EXCEPT ![r] = new]
    BY <1>6 DEF InsertFollow, Forget
  <2>3. keys \in Seq(Keys)
    BY <2>1, DropsAreKeys
  <2> HIDE DEF keys
  <2>4. Sound(new)
    BY <2>1, <2>3 DEF Sound, Request, Steps
  <2>5. Requested'
    BY <2>2, <2>4, OneRequest
  <2> QED
    BY <1>6, <2>1, <2>5 DEF InsertFollow, TypeOK, Requested
<1>7. ASSUME NEW u \in Users, NEW v \in Users, CreateReport(r, u, v)
      PROVE  Requested' /\ TypeOK' /\ UNCHANGED cache
  <2>1. Requested'
    BY <1>7, SentIsSound, OneRequest DEF CreateReport, Operations, Steps
  <2>2. [by |-> u, about |-> v, status |-> "open", reviewer |-> None] \in Report
    BY DEF Report
  <2>3. reports' \in [Reports -> Report \cup {None}]
    BY <1>7, <2>2 DEF CreateReport, TypeOK
  <2> QED
    BY <1>7, <2>1, <2>3 DEF CreateReport, history, TypeOK, Requested
<1>8. CASE ReadOpenReport(r)
  <2>1. Requested'
    BY <1>8, GotoIsSound DEF ReadOpenReport, At, Steps
  <2> QED
    BY <1>8, <2>1 DEF ReadOpenReport, tables, history, TypeOK, Requested
<1>9. ASSUME NEW admin \in Users, NEW i \in Reports, NEW outcome \in {"resolved", "dismissed"},
             Review(r, admin, i, outcome)
      PROVE  Requested' /\ TypeOK' /\ UNCHANGED cache
  <2>1. Requested'
    BY <1>9, SentIsSound, OneRequest DEF Review, Operations, Steps
  <2>2. reports[i] # None => reports[i] \in Report
    BY DEF TypeOK
  <2>3. reports' \in [Reports -> Report \cup {None}]
    <3>1. CASE reports[i] # None /\ reports[i].status = "open"
      <4>1. [reports[i] EXCEPT !.status = outcome, !.reviewer = admin] \in Report
        BY <2>2, <3>1 DEF Report
      <4>2. reports' = [reports EXCEPT ![i] = [reports[i] EXCEPT !.status = outcome,
                                                                !.reviewer = admin]]
        BY <1>9, <3>1 DEF Review
      <4> QED
        BY <4>1, <4>2 DEF TypeOK
    <3>2. CASE ~(reports[i] # None /\ reports[i].status = "open")
      BY <1>9, <3>2 DEF Review, TypeOK
    <3> QED
      BY <3>1, <3>2
  <2> QED
    BY <1>9, <2>1, <2>3 DEF Review, history, TypeOK, Requested
<1> QED
  BY <1>1, <1>2, <1>3, <1>4, <1>5, <1>6, <1>7, <1>8, <1>9, <1>10
     DEF BlockRequests, FollowRequests, Reporting

LEMMA ProfilesAreTyped ==
    ASSUME Typed, NEW r \in Requests, Profiles(r), ~SyncProfile(r)
    PROVE  Requested' /\ TypeOK' /\ UNCHANGED cache
<1> USE DEF Typed
<1>0. TypeOK /\ Requested
  OBVIOUS
<1>1. ASSUME NEW u \in Users, NEW n \in Names, UpdateProfile(r, u, n)
      PROVE  Requested' /\ TypeOK' /\ UNCHANGED cache
  <2>0. /\ << <<"profile", u>> >> \in Seq(Keys) /\ "updateProfile" \in Operations
        /\ "forget" \in Steps /\ "done" \in Steps
    BY DropsAreKeys DEF Operations, Steps
  <2>s. /\ Sound(Sent("updateProfile", "done", u, None))
        /\ Sound([Sent("updateProfile", "forget", u, None) EXCEPT !.drop = << <<"profile", u>> >>])
    BY <2>0, SentIsSound
  <2>1. Requested'
    BY <1>1, <2>s, OneRequest DEF UpdateProfile
  <2>2. CASE \E v \in Users \ {u} : profile[v].name = n
    BY <1>1, <2>1, <2>2 DEF UpdateProfile, history, TypeOK, Requested
  <2>3. CASE ~\E v \in Users \ {u} : profile[v].name = n
    <3>1. profile[u] \in Row
      BY DEF TypeOK
    <3>2. /\ [profile[u] EXCEPT !.name = n]
               \in Row
          /\ [profile[u] EXCEPT !.name = n].name = n
      BY <3>1
    <3>3. profile' = [profile EXCEPT ![u] = [profile[u] EXCEPT !.name = n]]
      BY <1>1, <2>3 DEF UpdateProfile
    <3>4. \A v, w \in Users : profile'[v].name = profile'[w].name
                                 => v = w \/ profile'[v].name = None
      BY <2>3, <3>2, <3>3 DEF TypeOK
    <3>5. profile' \in [Users -> Row]
      BY <3>2, <3>3 DEF TypeOK
    <3> QED
      BY <1>1, <2>1, <3>4, <3>5 DEF UpdateProfile, history, TypeOK, Requested
  <2> QED
    BY <2>2, <2>3
<1>2. ASSUME NEW u \in Users, NEW p \in Pictures, UseUpload(r, u, p)
      PROVE  Requested' /\ TypeOK' /\ UNCHANGED cache
  <2> DEFINE step == IF given[p] = u /\ p \in files THEN "previous" ELSE "done"
             picture == IF given[p] = u /\ p \in files THEN p ELSE None
  <2>1. /\ "useUpload" \in Operations /\ step \in {"previous", "done"} /\ step \in Steps
        /\ picture \in Avatars
    BY DEF Operations, Steps, Avatars
  <2>2. req' = [req EXCEPT ![r] = [Sent("useUpload", step, u, None) EXCEPT !.picture = picture]]
    BY <1>2 DEF UseUpload
  <2> HIDE DEF step, picture
  <2>3. Sound([Sent("useUpload", step, u, None) EXCEPT !.picture = picture])
    BY <2>1, SentIsSound
  <2>4. Requested'
    BY <2>2, <2>3, OneRequest
  <2>5. confirmed' \in [Pictures -> Nat]
    BY <1>2 DEF UseUpload, TypeOK
  <2> QED
    BY <1>2, <2>4, <2>5 DEF UseUpload, tables, TypeOK, Requested
<1>3. ASSUME NEW u \in Users, RemoveAvatar(r, u)
      PROVE  Requested' /\ TypeOK' /\ UNCHANGED cache
  <2>1. Requested'
    BY <1>3, SentIsSound, OneRequest DEF RemoveAvatar, Operations, Steps
  <2> QED
    BY <1>3, <2>1 DEF RemoveAvatar, tables, history, TypeOK, Requested
<1>9. ASSUME NEW u \in Users, NEW photo \in GooglePhotos, UseGooglePhoto(r, u, photo)
      PROVE  Requested' /\ TypeOK' /\ UNCHANGED cache
  <2>1. /\ "useGooglePhoto" \in Operations /\ "previous" \in Steps /\ photo \in Avatars
    BY DEF Operations, Steps, Avatars
  <2>2. Requested'
    BY <1>9, <2>1, SentIsSound, OneRequest DEF UseGooglePhoto
  <2> QED
    BY <1>9, <2>2 DEF UseGooglePhoto, tables, history, TypeOK, Requested
<1>10. ASSUME NEW u \in Users, NEW photo \in GooglePhotos, GoogleSignIn(r, u, photo)
       PROVE  Requested' /\ TypeOK' /\ UNCHANGED cache
  <2> DEFINE synced == profile[u].avatar \in GooglePhotos /\ profile[u].avatar # photo
             picture == IF synced THEN photo ELSE None
  <2>1. \/ req' = [req EXCEPT ![r] = Sent("googleSignIn", "done", u, None)]
        \/ req' = [req EXCEPT ![r] = [Sent("googleSignIn", "sync", u, None)
                                        EXCEPT !.picture = picture]]
    BY <1>10 DEF GoogleSignIn
  <2>2. /\ "googleSignIn" \in Operations /\ "sync" \in Steps /\ "done" \in Steps
        /\ picture \in Avatars
    BY DEF Operations, Steps, Avatars
  <2> HIDE DEF picture
  <2>3. Requested'
    BY <2>1, <2>2, SentIsSound, OneRequest
  <2> QED
    BY <1>10, <2>3 DEF GoogleSignIn, tables, history, TypeOK, Requested
<1>4. ASSUME NEW u \in Users, VisibilityChanged(r, u)
      PROVE  Requested' /\ TypeOK' /\ UNCHANGED cache
  <2>1. Requested'
    BY <1>4, SentIsSound, DropsAreKeys, OneRequest DEF VisibilityChanged, Operations, Steps
  <2>2. profile[u] \in Row
    BY DEF TypeOK
  <2>3. /\ [profile[u] EXCEPT !.hidden = ~@]
             \in Row
        /\ [profile[u] EXCEPT !.hidden = ~@].name = profile[u].name
    BY <2>2
  <2>4. profile' = [profile EXCEPT ![u] = [profile[u] EXCEPT !.hidden = ~@]]
    BY <1>4 DEF VisibilityChanged
  <2>5. profile' \in [Users -> Row]
    BY <2>3, <2>4 DEF TypeOK
  <2>6. \A v \in Users : profile'[v].name = profile[v].name
    BY <2>3, <2>4 DEF TypeOK
  <2>7. UNCHANGED <<blocks, follows, reports, cache, given, files, history>>
    BY <1>4 DEF VisibilityChanged
  <2> QED
    BY <2>1, <2>5, <2>6, <2>7 DEF history, TypeOK, Requested
<1>5. ASSUME NEW u \in Users, EraseFiles(r, u)
      PROVE  Requested' /\ TypeOK' /\ UNCHANGED cache
  <2>0. /\ << <<"profile", u>> >> \in Seq(Keys) /\ "erase" \in Operations
        /\ "forget" \in Steps /\ "done" \in Steps
    BY DropsAreKeys DEF Operations, Steps
  <2>s. /\ Sound(Sent("erase", "done", u, None))
        /\ Sound([Sent("erase", "forget", u, None) EXCEPT !.drop = << <<"profile", u>> >>])
    BY <2>0, SentIsSound
  <2>1. Requested'
    BY <1>5, <2>s, OneRequest DEF EraseFiles
  <2> QED
    BY <1>5, <2>1 DEF EraseFiles, tables, TypeOK, Requested
<1>6. CASE ReadPrevious(r)
  <2>1. req[r] # None /\ Sound(req[r]) /\ req[r].who \in Users
    BY <1>6 DEF ReadPrevious, At, Requested, Sound, Request
  <2> DEFINE avatar == profile[req[r].who].avatar
             new == [req[r] EXCEPT !.step = "update", !.previous = avatar]
  <2>2. req' = [req EXCEPT ![r] = new]
    BY <1>6 DEF ReadPrevious
  <2>3. avatar \in Avatars
    BY <2>1 DEF TypeOK
  <2> HIDE DEF avatar
  <2>4. Sound(new)
    BY <2>1, <2>3 DEF Sound, Request, Steps
  <2>5. Requested'
    BY <2>2, <2>4, OneRequest
  <2> QED
    BY <1>6, <2>5 DEF ReadPrevious, tables, history, TypeOK, Requested
<1>7. CASE Replace(r)
  <2>1. /\ req[r] # None /\ Sound(req[r])
        /\ req[r].who \in Users /\ req[r].picture \in Avatars
    BY <1>7 DEF Replace, At, Requested, Sound, Request
  <2> DEFINE keys == << <<"profile", req[r].who>> >>
             new == [req[r] EXCEPT !.step = "forget", !.drop = keys]
             u == req[r].who
             row == [profile[u] EXCEPT !.avatar = req[r].picture]
  <2>2. req' = [req EXCEPT ![r] = new]
    BY <1>7 DEF Replace, Forget
  <2>3. keys \in Seq(Keys)
    BY <2>1, DropsAreKeys
  <2> HIDE DEF keys
  <2>4. Sound(new)
    BY <2>1, <2>3 DEF Sound, Request, Steps
  <2>5. Requested'
    BY <2>2, <2>4, OneRequest
  <2>6. profile[u] \in Row
    BY <2>1 DEF TypeOK
  <2>7. /\ row \in Row
        /\ row.name = profile[u].name
    BY <2>1, <2>6
  <2>8. profile' = [profile EXCEPT ![u] = row]
    BY <1>7 DEF Replace
  <2> HIDE DEF row
  <2> QED
    BY <1>7, <2>1, <2>5, <2>7, <2>8 DEF Replace, history, TypeOK, Requested
<1>8. CASE RemoveUploadedFile(r)
  <2>1. Requested'
    BY <1>8, GotoIsSound DEF RemoveUploadedFile, At, Steps
  <2> QED
    BY <1>8, <2>1 DEF RemoveUploadedFile, tables, history, TypeOK, Requested
<1> QED
  BY <1>1, <1>2, <1>3, <1>4, <1>5, <1>6, <1>7, <1>8, <1>9, <1>10 DEF Profiles

(* What a sign-in with Google leaves of a row.                             *)
LEMMA RowIsSynced ==
    ASSUME NEW row \in Row, NEW photo \in Avatars
    PROVE  /\ Synced(row, photo) \in Row
           /\ Synced(row, photo).name = row.name
           /\ Synced(row, photo).hidden = row.hidden
           /\ Synced(row, photo).avatar = IF photo = None THEN row.avatar ELSE photo
<1>1. PICK avatar : avatar = IF photo = None THEN row.avatar ELSE photo
  OBVIOUS
<1>2. Synced(row, photo) = [row EXCEPT !.named = TRUE, !.avatar = avatar]
  BY <1>1 DEF Synced
<1>3. avatar \in Avatars
  BY <1>1 DEF Row
<1> QED
  BY <1>1, <1>2, <1>3 DEF Row

LEMMA SyncIsTyped ==
    ASSUME Typed, NEW r \in Requests, SyncProfile(r)
    PROVE  Requested' /\ TypeOK' /\ cache' = [k \in Keys |-> cache'[k]]
<1>1. /\ req[r] # None /\ Requested /\ req[r] \in Request
      /\ req[r].picture \in Avatars /\ req[r].who \in Users
  BY DEF SyncProfile, At, Typed, Requested, Sound, Request
<1>2. Requested'
  BY <1>1, GotoIsSound DEF SyncProfile, Steps
<1>u. PICK u \in Users : u = req[r].who
  BY <1>1
<1>3. PICK row : row = Synced(profile[u], req[r].picture)
  OBVIOUS
<1>4. profile[u] \in Row /\ profile \in [Users -> Row]
  BY DEF Typed, TypeOK, Row
<1>5. row \in Row /\ row.name = profile[u].name
  BY <1>1, <1>3, <1>4, RowIsSynced
<1>6. profile' = [profile EXCEPT ![u] = row]
  BY <1>u, <1>3 DEF SyncProfile
<1>7. profile' \in [Users -> Row]
  BY <1>4, <1>5, <1>6
<1>8. \A v, w \in Users : profile'[v].name = profile'[w].name => v = w \/ profile'[v].name = None
  BY <1>4, <1>5, <1>6 DEF Typed, TypeOK
<1>k. PICK k : k = <<"profile", u>>
  OBVIOUS
<1>9. cache' = [cache EXCEPT ![k] = IF cache[k] = None THEN None ELSE [cache[k] EXCEPT !.late = TRUE]]
  BY <1>u, <1>k DEF SyncProfile
<1>10. cache' = [h \in Keys |-> cache'[h]]
  BY <1>9 DEF Typed
<1>11. k \in Keys
  BY <1>k DEF Keys
<1>12. \A h \in Keys : cache'[h] = None \/ cache'[h] \in [value : Values, late : BOOLEAN]
  <2>1. cache[k] # None => [cache[k] EXCEPT !.late = TRUE] \in [value : Values, late : BOOLEAN]
    BY <1>11 DEF Typed, TypeOK
  <2>2. \A h \in Keys \ {k} : cache'[h] = cache[h]
    BY <1>9 DEF Typed
  <2>3. cache'[k] = None \/ cache'[k] \in [value : Values, late : BOOLEAN]
    BY <1>9, <1>11, <2>1 DEF Typed
  <2> QED
    BY <2>2, <2>3 DEF Typed, TypeOK
<1>13. UNCHANGED <<blocks, follows, reports, given, files, history>>
  BY DEF SyncProfile
<1> QED
  BY <1>2, <1>7, <1>8, <1>10, <1>12, <1>13 DEF Typed, TypeOK, Row, history, Requested

LEMMA StaysTyped == Typed /\ [Next]_vars => Typed'
<1> SUFFICES ASSUME Typed, [Next]_vars PROVE Typed'
  OBVIOUS
<1>1. ASSUME NEW r \in Requests, CacheNext(r) PROVE Typed'
  BY <1>1, CacheIsTyped DEF Typed
<1>2. ASSUME NEW r \in Requests,
             BlockRequests(r) \/ FollowRequests(r) \/ Profiles(r) \/ Reporting(r)
      PROVE  Typed'
  <2>1. CASE SyncProfile(r)
    BY <2>1, SyncIsTyped DEF Typed
  <2>2. CASE ~SyncProfile(r)
    BY <1>2, <2>2, PeopleAreTyped, ProfilesAreTyped DEF Typed
  <2> QED
    BY <2>1, <2>2
<1>3. ASSUME NEW k \in Keys, Expire(k) PROVE Typed'
  BY <1>3 DEF Expire, tables, history, Typed, TypeOK, Requested
<1>4. ASSUME NEW u \in Users, NEW p \in Pictures, CreateUpload(u, p) PROVE Typed'
  BY <1>4 DEF CreateUpload, tables, history, Typed, TypeOK, Requested
<1>5. ASSUME NEW p \in Pictures, Upload(p) PROVE Typed'
  BY <1>5 DEF Upload, tables, history, Typed, TypeOK, Requested
<1>6. CASE UNCHANGED vars
  BY <1>6 DEF vars, Typed, TypeOK, Requested
<1> QED
  BY <1>1, <1>2, <1>3, <1>4, <1>5, <1>6 DEF Next

LEMMA InitTyped == Init => Typed
<1> SUFFICES ASSUME Init PROVE Typed
  OBVIOUS
<1>1. TypeOK
  <2>1. profile = [u \in Users |-> [name |-> None, named |-> FALSE, avatar |-> None,
                                     hidden |-> FALSE]]
    BY DEF Init
  <2>2. profile \in [Users -> Row]
    BY <2>1 DEF Avatars
  <2>3. \A u, v \in Users : profile[u].name = profile[v].name => u = v \/ profile[u].name = None
    BY <2>1
  <2>4. \A k \in Keys : cache[k] = None
    BY DEF Init
  <2>5. confirmed \in [Pictures -> Nat] /\ erased = {} /\ crossed = {}
    BY DEF Init
  <2> QED
    BY <2>2, <2>3, <2>4, <2>5 DEF Init, TypeOK
<1>2. Requested /\ cache = [k \in Keys |-> cache[k]]
  BY DEF Init, Requested
<1> QED
  BY <1>1, <1>2 DEF Typed

(* Rows, copies and requests have their types, and no two users the same   *)
(* name (ProfileService.update and its unique index).                      *)
THEOREM TypeInvariant == Spec => []TypeOK
<1>1. Typed => TypeOK
  BY DEF Typed
<1> QED
  BY <1>1, InitTyped, StaysTyped, PTL DEF Spec

-----------------------------------------------------------------------------
(* Copies in Redis.                                                        *)

CopyIsRight(k) == cache[k] # None /\ ~cache[k].late => Current(k, cache[k].value) \/ ToBeForgotten(k)

(* What the copy under a key is a copy of.                                 *)
SameRows(k) == \A value : Current(k, value) => Current(k, value)'

(* A copy stays right if nobody stores another, what it is a copy of stays *)
(* and whoever has yet to delete it still does.                            *)
LEMMA CopyStaysRight ==
    ASSUME CachedIsCurrent, NEW k \in Keys, cache'[k] = cache[k], SameRows(k),
           ToBeForgotten(k) => ToBeForgotten(k)'
    PROVE  CopyIsRight(k)'
BY DEF CachedIsCurrent, CopyIsRight, SameRows, ToBeForgotten

(* A request that is not at "forget" may change as it likes ...            *)
LEMMA OthersDrop ==
    ASSUME Requested, NEW r \in Requests, ~At(r, "forget"), NEW new,
           req' = [req EXCEPT ![r] = new], NEW k
    PROVE  ToBeForgotten(k) => ToBeForgotten(k)'
BY DEF Requested, ToBeForgotten, At

(* ... and one that is drops its keys.                                     *)
LEMMA DropsIts ==
    ASSUME Requested, NEW r \in Requests, NEW new \in Request, new.step = "forget",
           req' = [req EXCEPT ![r] = new], NEW i \in DOMAIN new.drop
    PROVE  ToBeForgotten(new.drop[i])'
BY NoneIsNoRequest DEF Requested, ToBeForgotten, At

LEMMA RowsStay ==
    ASSUME UNCHANGED <<profile, blocks, follows>>, NEW k
    PROVE  SameRows(k)
BY DEF SameRows, Current, Loaded, RelatedIds, Blocked, FollowingIds, PublicProfile, Visible

(* Sent or on its way, a request that changes no rows and no copies.       *)
LEMMA NoRowsNoCopies ==
    ASSUME Typed, CachedIsCurrent, NEW r \in Requests, ~At(r, "forget"), NEW new,
           req' = [req EXCEPT ![r] = new], UNCHANGED <<profile, blocks, follows, cache>>
    PROVE  CachedIsCurrent'
<1>1. ASSUME NEW k \in Keys PROVE CopyIsRight(k)'
  <2>1. ToBeForgotten(k) => ToBeForgotten(k)'
    BY OthersDrop DEF Typed
  <2> QED
    BY <2>1, RowsStay, CopyStaysRight
<1> QED
  BY <1>1 DEF CachedIsCurrent, CopyIsRight, ToBeForgotten

LEMMA GotoNotForget ==
    ASSUME Typed, CachedIsCurrent, NEW r \in Requests, ~At(r, "forget"), NEW step, Goto(r, step),
           UNCHANGED <<profile, blocks, follows, cache>>
    PROVE  CachedIsCurrent'
<1>1. PICK new : req' = [req EXCEPT ![r] = new]
  BY DEF Goto
<1> QED
  BY <1>1, NoRowsNoCopies

(* A request that writes rows goes on to delete the copies of them.        *)
LEMMA RowsThenForget ==
    ASSUME Typed, CachedIsCurrent, NEW r \in Requests, ~At(r, "forget"), NEW new \in Request,
           new.step = "forget", req' = [req EXCEPT ![r] = new], UNCHANGED cache,
           \A k \in Keys : SameRows(k) \/ \E i \in DOMAIN new.drop : new.drop[i] = k
    PROVE  CachedIsCurrent'
<1>1. ASSUME NEW k \in Keys, SameRows(k) PROVE CopyIsRight(k)'
  <2>1. ToBeForgotten(k) => ToBeForgotten(k)'
    BY OthersDrop DEF Typed
  <2> QED
    BY <1>1, <2>1, CopyStaysRight
<1>2. ASSUME NEW k \in Keys, NEW i \in DOMAIN new.drop, new.drop[i] = k PROVE CopyIsRight(k)'
  <2>1. ToBeForgotten(k)'
    BY <1>2, DropsIts DEF Typed
  <2> QED
    BY <2>1 DEF CopyIsRight
<1>3. \A k \in Keys : CopyIsRight(k)'
  BY <1>1, <1>2
<1> QED
  BY <1>3 DEF CachedIsCurrent, CopyIsRight, ToBeForgotten

LEMMA CacheIsCurrent ==
    ASSUME Typed, CachedIsCurrent, NEW r \in Requests, CacheNext(r)
    PROVE  CachedIsCurrent'
<1>0. Requested /\ UNCHANGED <<profile, blocks, follows>>
  BY DEF CacheNext, Read, Lookup, Load, Store, ForgetKey, Forgotten, tables, Typed
<1>1. ASSUME NEW op, NEW u, Read(r, op, u) PROVE CachedIsCurrent'
  BY <1>0, <1>1, NoRowsNoCopies DEF Read, Free, At
<1>2. CASE Lookup(r)
  <2>1. PICK new : req' = [req EXCEPT ![r] = new]
    BY <1>2 DEF Lookup
  <2> QED
    BY <1>0, <1>2, <2>1, NoRowsNoCopies DEF Lookup, At
<1>3. CASE Load(r)
  <2>1. PICK new : req' = [req EXCEPT ![r] = new]
    <3>1. CASE Goto(r, "done")
      BY <3>1 DEF Goto
    <3>2. CASE ~Goto(r, "done")
      BY <1>3, <3>2 DEF Load
    <3> QED
      BY <3>1, <3>2
  <2> QED
    BY <1>0, <1>3, <2>1, NoRowsNoCopies DEF Load, At
<1>4. CASE Store(r)
  <2>1. PICK new : req' = [req EXCEPT ![r] = new]
    BY <1>4 DEF Store
  <2>2. ~At(r, "forget")
    BY <1>4 DEF Store, At
  <2>k. PICK h, value : h = KeyOf(req[r]) /\ value = req[r].answer
    OBVIOUS
  <2>3. CASE cache' = [cache EXCEPT ![h] = [value |-> value, late |-> ~Current(h, value)]]
    <3>1. ASSUME NEW k \in Keys PROVE CopyIsRight(k)'
      <4>1. CASE k = h
        <5>1. cache'[k] = [value |-> value, late |-> ~Current(k, value)]
          BY <2>3, <4>1 DEF Typed
        <5>2. ~cache'[k].late => Current(k, value)'
          <6>1. Current(k, value) => Current(k, value)'
            BY <1>0, RowsStay DEF SameRows
          <6>2. CASE Current(k, value)
            BY <6>1, <6>2
          <6>3. CASE ~Current(k, value)
            <7>1. (~Current(k, value)) = TRUE
              BY <6>3
            <7>2. cache'[k] = [value |-> value, late |-> TRUE]
              BY <5>1, <7>1
            <7> QED
              BY <7>2
          <6> QED
            BY <6>2, <6>3
        <5> QED
          BY <5>1, <5>2 DEF CopyIsRight
      <4>2. CASE k # h
        <5>1. cache'[k] = cache[k]
          BY <2>3, <4>2 DEF Typed
        <5>2. ToBeForgotten(k) => ToBeForgotten(k)'
          BY <1>0, <2>1, <2>2, OthersDrop
        <5> QED
          BY <1>0, <5>1, <5>2, RowsStay, CopyStaysRight
      <4> QED
        BY <4>1, <4>2
    <3> QED
      BY <3>1 DEF CachedIsCurrent, CopyIsRight, ToBeForgotten
  <2>4. CASE UNCHANGED cache
    BY <1>0, <2>1, <2>2, <2>4, NoRowsNoCopies
  <2> QED
    BY <1>4, <2>k, <2>3, <2>4 DEF Store
<1>5. CASE ForgetKey(r)
  <2>1. /\ req[r] # None /\ req[r] \in Request /\ req[r].step = "forget"
        /\ req[r].drop # <<>> /\ req[r].drop \in Seq(Keys)
    BY <1>0, <1>5 DEF ForgetKey, At, Requested, Sound, Request
  <2>h. PICK h \in Keys : h = Head(req[r].drop)
    BY <2>1
  <2> DEFINE new == [req[r] EXCEPT !.drop = Tail(@)]
  <2>2. req' = [req EXCEPT ![r] = new]
    BY <1>5 DEF ForgetKey
  <2>3. new \in Request /\ new.step = "forget" /\ new.drop = Tail(req[r].drop)
    BY <2>1 DEF Request
  <2> HIDE DEF new
  <2>4. CopyIsRight(h)'
    <3>2. cache[h] # None => cache[h] \in [value : Values, late : BOOLEAN]
      BY DEF Typed, TypeOK
    <3>3. CASE cache' = [cache EXCEPT ![h] = None]
      BY <3>3 DEF CopyIsRight, Typed
    <3>4. CASE cache[h] # None /\ cache' = [cache EXCEPT ![h].late = TRUE]
      <4>1. cache'[h] = [cache[h] EXCEPT !.late = TRUE]
        BY <3>4 DEF Typed
      <4>2. cache'[h].late
        BY <3>2, <3>4, <4>1
      <4> QED
        BY <4>2 DEF CopyIsRight
    <3> QED
      BY <1>5, <2>h, <3>3, <3>4 DEF ForgetKey
  <2>5. ASSUME NEW k \in Keys, k # h PROVE CopyIsRight(k)'
    <3>1. cache'[k] = cache[k]
      BY <1>5, <2>h, <2>5 DEF ForgetKey, Typed
    <3>2. ASSUME NEW s \in Requests, At(s, "forget"), NEW i \in DOMAIN req[s].drop,
                 req[s].drop[i] = k
          PROVE  ToBeForgotten(k)'
      <4>1. CASE s # r
        BY <1>0, <2>2, <3>2, <4>1 DEF ToBeForgotten, At, Requested
      <4>2. CASE s = r
        <5>1. i \in 2 .. Len(req[r].drop)
          BY <2>1, <2>h, <2>5, <3>2, <4>2
        <5>2. i - 1 \in DOMAIN new.drop /\ new.drop[i - 1] = k
          BY <2>1, <2>3, <3>2, <4>2, <5>1
        <5> QED
          BY <1>0, <2>2, <2>3, <5>2, DropsIts
      <4> QED
        BY <4>1, <4>2
    <3>3. ToBeForgotten(k) => ToBeForgotten(k)'
      BY <3>2 DEF ToBeForgotten
    <3> QED
      BY <1>0, <3>1, <3>3, RowsStay, CopyStaysRight
  <2>6. \A k \in Keys : CopyIsRight(k)'
    BY <2>4, <2>5
  <2> QED
    BY <2>6 DEF CachedIsCurrent, CopyIsRight, ToBeForgotten
<1>6. CASE Forgotten(r)
  <2>1. At(r, "forget") /\ req[r].drop = <<>> /\ UNCHANGED cache
    BY <1>6 DEF Forgotten
  <2>2. PICK new : req' = [req EXCEPT ![r] = new]
    BY <1>6 DEF Forgotten, Goto
  <2>3. ASSUME NEW k \in Keys PROVE CopyIsRight(k)'
    <3>1. ToBeForgotten(k) => ToBeForgotten(k)'
      BY <1>0, <2>1, <2>2 DEF ToBeForgotten, At, Requested
    <3> QED
      BY <1>0, <2>1, <3>1, RowsStay, CopyStaysRight
  <2> QED
    BY <2>3 DEF CachedIsCurrent, CopyIsRight, ToBeForgotten
<1> QED
  BY <1>1, <1>2, <1>3, <1>4, <1>5, <1>6 DEF CacheNext

LEMMA RowsAreForgotten ==
    ASSUME Typed, CachedIsCurrent, NEW r \in Requests, BlockRequests(r) \/ FollowRequests(r)
    PROVE  CachedIsCurrent'
<1>0. Requested
  BY DEF Typed
<1>f. "forget" \in Steps /\ "block" \in Operations /\ "unblock" \in Operations
      /\ "unfollow" \in Operations
  BY DEF Steps, Operations
<1>d. ASSUME NEW op \in Operations, NEW u \in Users, NEW v \in Users, NEW keys \in Seq(Keys)
      PROVE  /\ [Sent(op, "forget", u, v) EXCEPT !.drop = keys] \in Request
             /\ [Sent(op, "forget", u, v) EXCEPT !.drop = keys].step = "forget"
             /\ [Sent(op, "forget", u, v) EXCEPT !.drop = keys].drop = keys
  <2>1. Sound([Sent(op, "forget", u, v) EXCEPT !.drop = keys])
    BY <1>f, SentIsSound
  <2> QED
    BY <2>1 DEF Sound, Sent
<1>s. ASSUME NEW u \in Users, NEW v \in Users, NEW k \in Keys,
             k \notin {<<"blocks", u>>, <<"blocks", v>>}, UNCHANGED profile,
             k # <<"following", u>>,
             follows' = follows \/ k # <<"following", v>>,
             \A pair \in Users \X Users : pair \notin {<<u, v>>, <<v, u>>} =>
                (pair \in blocks <=> pair \in blocks') /\ (pair \in follows <=> pair \in follows')
      PROVE  SameRows(k)
  <2>1. CASE k[1] = "blocks"
    <3>1. k[2] \in Users \ {u, v}
      BY <1>s, <2>1 DEF Keys
    <3>2. RelatedIds(k[2]) = RelatedIds(k[2])'
      BY <1>s, <3>1 DEF RelatedIds, Blocked
    <3> QED
      BY <2>1, <3>2 DEF SameRows, Current, Loaded
  <2>2. CASE k[1] = "following"
    <3>1. k[2] \in Users \ {u} /\ (follows' = follows \/ k[2] # v)
      BY <1>s, <2>2 DEF Keys
    <3>2. FollowingIds(k[2]) = FollowingIds(k[2])'
      BY <1>s, <3>1 DEF FollowingIds
    <3> QED
      BY <2>2, <3>2 DEF SameRows, Current, Loaded
  <2>3. CASE k[1] = "profile"
    BY <1>s, <2>3 DEF SameRows, Current, Loaded, PublicProfile, Visible
  <2> QED
    BY <2>1, <2>2, <2>3 DEF Keys
<1>b. ASSUME NEW u, NEW v
      PROVE  \A k \in {<<"blocks", u>>, <<"following", u>>, <<"blocks", v>>, <<"following", v>>} :
                \E i \in DOMAIN BothKeys(u, v) : BothKeys(u, v)[i] = k
  <2> DEFINE keys == BothKeys(u, v)
  <2>1. /\ DOMAIN keys = 1 .. 4
        /\ keys[1] = <<"blocks", u>> /\ keys[2] = <<"following", u>>
        /\ keys[3] = <<"blocks", v>> /\ keys[4] = <<"following", v>>
    BY DEF BothKeys
  <2>2. 1 \in 1 .. 4 /\ 2 \in 1 .. 4 /\ 3 \in 1 .. 4 /\ 4 \in 1 .. 4
    OBVIOUS
  <2> HIDE DEF keys
  <2>3. ASSUME NEW k \in {<<"blocks", u>>, <<"following", u>>, <<"blocks", v>>, <<"following", v>>}
        PROVE  \E i \in DOMAIN keys : keys[i] = k
    <3>1. keys[1] = k \/ keys[2] = k \/ keys[3] = k \/ keys[4] = k
      BY <2>1, <2>3
    <3> QED
      BY <2>1, <2>2, <3>1
  <2> QED
    BY <2>3 DEF keys
<1>1. ASSUME NEW u \in Users, NEW v \in Users, Block(r, u, v) PROVE CachedIsCurrent'
  <2> DEFINE keys == BothKeys(u, v)
             new == [Sent("block", "forget", u, v) EXCEPT !.drop = keys]
  <2>0. \A pair \in Users \X Users : pair \notin {<<u, v>>, <<v, u>>} =>
           (pair \in blocks <=> pair \in blocks') /\ (pair \in follows <=> pair \in follows')
    BY <1>1 DEF Block, Unfollowed
  <2>a. UNCHANGED <<profile, cache>> /\ req' = [req EXCEPT ![r] = new]
    BY <1>1 DEF Block
  <2>s. ASSUME NEW k \in Keys, k \notin {<<"blocks", u>>, <<"following", u>>,
                                       <<"blocks", v>>, <<"following", v>>}
        PROVE  SameRows(k)
    BY <1>s, <2>0, <2>a, <2>s
  <2>1. ASSUME NEW k \in Keys
        PROVE  SameRows(k) \/ \E i \in DOMAIN keys : keys[i] = k
    <3>1. CASE k \in {<<"blocks", u>>, <<"following", u>>, <<"blocks", v>>, <<"following", v>>}
      <4>1. \A j \in {<<"blocks", u>>, <<"following", u>>, <<"blocks", v>>, <<"following", v>>} :
               \E i \in DOMAIN keys : keys[i] = j
        BY <1>b
      <4> HIDE DEF keys
      <4> QED
        BY <3>1, <4>1
    <3>2. CASE k \notin {<<"blocks", u>>, <<"following", u>>, <<"blocks", v>>, <<"following", v>>}
      BY <2>s, <3>2
    <3> QED
      BY <3>1, <3>2
  <2>2. BothKeys(u, v) \in Seq(Keys) /\ ~At(r, "forget")
    BY <1>1, DropsAreKeys DEF Block, Free, At
  <2>3. new \in Request /\ new.step = "forget" /\ new.drop = keys
    BY <1>d, <1>f, <2>2
  <2> HIDE DEF new, keys
  <2> QED
    BY <2>1, <2>2, <2>3, <2>a, RowsThenForget
<1>2. ASSUME NEW u \in Users, NEW v \in Users, Unblock(r, u, v) PROVE CachedIsCurrent'
  <2> DEFINE keys == BothKeys(u, v)
             new == [Sent("unblock", "forget", u, v) EXCEPT !.drop = keys]
  <2>0. \A pair \in Users \X Users : pair \notin {<<u, v>>, <<v, u>>} =>
           (pair \in blocks <=> pair \in blocks') /\ (pair \in follows <=> pair \in follows')
    BY <1>2 DEF Unblock
  <2>a. UNCHANGED <<profile, cache>> /\ req' = [req EXCEPT ![r] = new]
    BY <1>2 DEF Unblock
  <2>s. ASSUME NEW k \in Keys, k \notin {<<"blocks", u>>, <<"following", u>>,
                                       <<"blocks", v>>, <<"following", v>>}
        PROVE  SameRows(k)
    BY <1>s, <2>0, <2>a, <2>s
  <2>1. ASSUME NEW k \in Keys
        PROVE  SameRows(k) \/ \E i \in DOMAIN keys : keys[i] = k
    <3>1. CASE k \in {<<"blocks", u>>, <<"following", u>>, <<"blocks", v>>, <<"following", v>>}
      <4>1. \A j \in {<<"blocks", u>>, <<"following", u>>, <<"blocks", v>>, <<"following", v>>} :
               \E i \in DOMAIN keys : keys[i] = j
        BY <1>b
      <4> HIDE DEF keys
      <4> QED
        BY <3>1, <4>1
    <3>2. CASE k \notin {<<"blocks", u>>, <<"following", u>>, <<"blocks", v>>, <<"following", v>>}
      BY <2>s, <3>2
    <3> QED
      BY <3>1, <3>2
  <2>2. BothKeys(u, v) \in Seq(Keys) /\ ~At(r, "forget")
    BY <1>2, DropsAreKeys DEF Unblock, Free, At
  <2>3. new \in Request /\ new.step = "forget" /\ new.drop = keys
    BY <1>d, <1>f, <2>2
  <2> HIDE DEF new, keys
  <2> QED
    BY <2>1, <2>2, <2>3, <2>a, RowsThenForget
<1>3. ASSUME NEW u, NEW v, Follow(r, u, v) PROVE CachedIsCurrent'
  BY <1>3, NoRowsNoCopies DEF Follow, Free, At, tables
<1>t. ASSUME NEW u \in Users, NEW k \in Keys, k # <<"following", u>>, UNCHANGED <<profile, blocks>>,
             \A w \in Users \ {u}, v \in Users : <<w, v>> \in follows <=> <<w, v>> \in follows'
      PROVE  SameRows(k)
  <2>1. CASE k[1] = "following"
    <3>1. k[2] \in Users \ {u}
      BY <1>t, <2>1 DEF Keys
    <3>2. FollowingIds(k[2]) = FollowingIds(k[2])'
      BY <1>t, <3>1 DEF FollowingIds
    <3> QED
      BY <2>1, <3>2 DEF SameRows, Current, Loaded
  <2>2. CASE k[1] # "following"
    BY <1>t, <2>2 DEF SameRows, Current, Loaded, RelatedIds, Blocked, PublicProfile, Visible, Keys
  <2> QED
    BY <2>1, <2>2
<1>4. ASSUME NEW u \in Users, NEW v \in Users, Unfollow(r, u, v) PROVE CachedIsCurrent'
  <2> DEFINE keys == << <<"following", u>> >>
  <2>1. \A k \in Keys : SameRows(k) \/ \E i \in DOMAIN keys : keys[i] = k
    <3>1. 1 \in DOMAIN keys /\ keys[1] = <<"following", u>>
      OBVIOUS
    <3>2. \A w \in Users \ {u}, x \in Users : <<w, x>> \in follows <=> <<w, x>> \in follows'
      BY <1>4 DEF Unfollow
    <3> QED
      BY <1>4, <1>t, <3>1, <3>2 DEF Unfollow
  <2>2. keys \in Seq(Keys) /\ ~At(r, "forget")
    BY <1>4, DropsAreKeys DEF Unfollow, Free, At
  <2> DEFINE new == [Sent("unfollow", "forget", u, v) EXCEPT !.drop = keys]
  <2>3. req' = [req EXCEPT ![r] = new]
    BY <1>4 DEF Unfollow
  <2>4. UNCHANGED cache
    BY <1>4 DEF Unfollow
  <2> HIDE DEF keys
  <2>5. new \in Request /\ new.step = "forget" /\ new.drop = keys
    BY <1>d, <1>f, <2>2
  <2> HIDE DEF new
  <2> QED
    BY <2>1, <2>2, <2>3, <2>4, <2>5, RowsThenForget
<1>5. CASE RequireRoomToFollow(r)
  BY <1>5, GotoNotForget DEF RequireRoomToFollow, At, tables
<1>7. CASE IsFollowing(r)
  BY <1>7, GotoNotForget DEF IsFollowing, At, tables
<1>6. CASE InsertFollow(r)
  <2>1. ~At(r, "forget") /\ req[r] \in Request /\ req[r].who \in Users /\ req[r].other \in Users
    BY <1>0, <1>6 DEF InsertFollow, At, Requested, Sound, Request
  <2>u. PICK u \in Users : u = req[r].who
    BY <2>1
  <2> DEFINE keys == << <<"following", u>> >>
             new == [req[r] EXCEPT !.step = "forget", !.drop = keys]
  <2>2. \A k \in Keys : SameRows(k) \/ \E i \in DOMAIN keys : keys[i] = k
    <3>1. 1 \in DOMAIN keys /\ keys[1] = <<"following", u>>
      OBVIOUS
    <3>2. \A w \in Users \ {u}, x \in Users : <<w, x>> \in follows <=> <<w, x>> \in follows'
      BY <1>6, <2>u DEF InsertFollow
    <3> QED
      BY <1>6, <1>t, <3>1, <3>2 DEF InsertFollow
  <2>3. keys \in Seq(Keys)
    BY DropsAreKeys
  <2>4. req' = [req EXCEPT ![r] = new]
    BY <1>6, <2>u DEF InsertFollow, Forget
  <2>5. UNCHANGED cache
    BY <1>6 DEF InsertFollow
  <2> HIDE DEF keys
  <2>6. new \in Request /\ new.step = "forget" /\ new.drop = keys
    BY <1>f, <2>1, <2>3 DEF Request
  <2> HIDE DEF new
  <2> QED
    BY <2>1, <2>2, <2>4, <2>5, <2>6, RowsThenForget
<1> QED
  BY <1>1, <1>2, <1>3, <1>4, <1>5, <1>6, <1>7 DEF BlockRequests, FollowRequests

(* What is written to a user's row leaves the copies of other rows right.  *)
LEMMA OtherRows ==
    ASSUME Typed, NEW u \in Users, NEW row, profile' = [profile EXCEPT ![u] = row],
           UNCHANGED <<blocks, follows>>, NEW k \in Keys, k # <<"profile", u>>
    PROVE  SameRows(k)
<1>1. CASE k[1] = "profile"
  <2>1. k[2] \in Users \ {u}
    BY <1>1 DEF Keys
  <2>2. profile'[k[2]] = profile[k[2]]
    BY <2>1 DEF Typed, TypeOK
  <2> QED
    BY <1>1, <2>2 DEF SameRows, Current, Loaded, PublicProfile, Visible
<1>2. CASE k[1] # "profile"
  BY <1>2 DEF SameRows, Current, Loaded, RelatedIds, Blocked, FollowingIds, Keys
<1> QED
  BY <1>1, <1>2

(* A sign-in with Google makes the copy of the row late.                   *)
LEMMA SyncIsLate ==
    ASSUME Typed, CachedIsCurrent, NEW r \in Requests, SyncProfile(r)
    PROVE  CachedIsCurrent'
<1>1. ~At(r, "forget") /\ req[r] \in Request /\ Requested
  BY DEF SyncProfile, At, Typed, Requested, Sound
<1>u. PICK u \in Users : u = req[r].who
  BY <1>1 DEF Request
<1>2. PICK row : profile' = [profile EXCEPT ![u] = row]
  BY <1>u DEF SyncProfile
<1>3. PICK new : req' = [req EXCEPT ![r] = new]
  BY DEF SyncProfile, Goto
<1>h. PICK h \in Keys : h = <<"profile", u>>
  BY DEF Keys
<1>4. cache' = [cache EXCEPT ![h] = IF cache[h] = None THEN None ELSE [cache[h] EXCEPT !.late = TRUE]]
  BY <1>u, <1>h DEF SyncProfile
<1>5. CopyIsRight(h)'
  <2>1. cache[h] # None => [cache[h] EXCEPT !.late = TRUE].late
    BY DEF Typed, TypeOK
  <2>2. cache'[h] = IF cache[h] = None THEN None ELSE [cache[h] EXCEPT !.late = TRUE]
    BY <1>4 DEF Typed
  <2> QED
    BY <2>1, <2>2 DEF CopyIsRight
<1>6. ASSUME NEW k \in Keys, k # h PROVE CopyIsRight(k)'
  <2>1. cache'[k] = cache[k]
    BY <1>4, <1>6 DEF Typed
  <2>2. ToBeForgotten(k) => ToBeForgotten(k)'
    BY <1>1, <1>3, OthersDrop
  <2>3. UNCHANGED <<blocks, follows>>
    BY DEF SyncProfile
  <2>4. SameRows(k)
    BY <1>2, <1>6, <1>h, <2>3, OtherRows
  <2> QED
    BY <2>1, <2>2, <2>4, CopyStaysRight
<1>7. \A k \in Keys : CopyIsRight(k)'
  BY <1>5, <1>6
<1> QED
  BY <1>7 DEF CachedIsCurrent, CopyIsRight, ToBeForgotten

(* What is written to a user's row is dropped from the copies of it.       *)
LEMMA RowOfOne ==
    ASSUME Typed, CachedIsCurrent, NEW r \in Requests, ~At(r, "forget"), NEW new \in Request,
           NEW u \in Users, NEW row,
           new.step = "forget", new.drop = << <<"profile", u>> >>,
           req' = [req EXCEPT ![r] = new],
           profile' = [profile EXCEPT ![u] = row],
           UNCHANGED <<blocks, follows, cache>>
    PROVE  CachedIsCurrent'
<1>1. ASSUME NEW k \in Keys, k # <<"profile", u>> PROVE SameRows(k)
  BY <1>1, OtherRows
<1>2. 1 \in DOMAIN new.drop /\ new.drop[1] = <<"profile", u>>
  OBVIOUS
<1>3. \A k \in Keys : SameRows(k) \/ \E i \in DOMAIN new.drop : new.drop[i] = k
  BY <1>1, <1>2
<1> QED
  BY <1>3, RowsThenForget

LEMMA ProfilesAreForgotten ==
    ASSUME Typed, CachedIsCurrent, NEW r \in Requests, Profiles(r) \/ Reporting(r)
    PROVE  CachedIsCurrent'
<1>0. Requested
  BY DEF Typed
<1>d. ASSUME NEW op \in Operations, NEW u \in Users
      PROVE  /\ [Sent(op, "forget", u, None) EXCEPT !.drop = << <<"profile", u>> >>] \in Request
             /\ [Sent(op, "forget", u, None) EXCEPT !.drop = << <<"profile", u>> >>].step = "forget"
             /\ [Sent(op, "forget", u, None) EXCEPT !.drop = << <<"profile", u>> >>].drop
                   = << <<"profile", u>> >>
  <2>0. "forget" \in Steps /\ << <<"profile", u>> >> \in Seq(Keys)
    BY DropsAreKeys DEF Steps
  <2>1. Sound([Sent(op, "forget", u, None) EXCEPT !.drop = << <<"profile", u>> >>])
    BY <2>0, SentIsSound
  <2> QED
    BY <2>1 DEF Sound, Sent
<1>1. ASSUME NEW u \in Users, NEW n, UpdateProfile(r, u, n) PROVE CachedIsCurrent'
  <2>1. ~At(r, "forget") /\ UNCHANGED <<blocks, follows, cache>> /\ "updateProfile" \in Operations
    BY <1>1 DEF UpdateProfile, Free, At, Operations
  <2>2. CASE UNCHANGED profile /\ req' = [req EXCEPT ![r] = Sent("updateProfile", "done", u, None)]
    BY <2>1, <2>2, NoRowsNoCopies
  <2>3. CASE /\ profile' = [profile EXCEPT ![u] = [profile[u] EXCEPT !.name = n]]
             /\ req' = [req EXCEPT ![r] = [Sent("updateProfile", "forget", u, None)
                                             EXCEPT !.drop = << <<"profile", u>> >>]]
    BY <1>d, <2>1, <2>3, RowOfOne
  <2> QED
    BY <1>1, <2>2, <2>3 DEF UpdateProfile
<1>2. ASSUME NEW u, NEW p, UseUpload(r, u, p) PROVE CachedIsCurrent'
  BY <1>2, NoRowsNoCopies DEF UseUpload, Free, At, tables
<1>3. ASSUME NEW u, RemoveAvatar(r, u) PROVE CachedIsCurrent'
  BY <1>3, NoRowsNoCopies DEF RemoveAvatar, Free, At, tables
<1>10. ASSUME NEW u, NEW photo, UseGooglePhoto(r, u, photo) PROVE CachedIsCurrent'
  BY <1>10, NoRowsNoCopies DEF UseGooglePhoto, Free, At, tables
<1>11. ASSUME NEW u, NEW photo, GoogleSignIn(r, u, photo) PROVE CachedIsCurrent'
  <2>1. PICK new : req' = [req EXCEPT ![r] = new]
    BY <1>11 DEF GoogleSignIn
  <2> QED
    BY <1>11, <2>1, NoRowsNoCopies DEF GoogleSignIn, Free, At, tables
<1>12. CASE SyncProfile(r)
  BY <1>12, SyncIsLate
<1>4. ASSUME NEW u \in Users, VisibilityChanged(r, u) PROVE CachedIsCurrent'
  <2>1. /\ ~At(r, "forget") /\ UNCHANGED <<blocks, follows, cache>>
        /\ "visibilityChanged" \in Operations
        /\ profile' = [profile EXCEPT ![u] = [profile[u] EXCEPT !.hidden = ~@]]
        /\ req' = [req EXCEPT ![r] = [Sent("visibilityChanged", "forget", u, None)
                                        EXCEPT !.drop = << <<"profile", u>> >>]]
    BY <1>4 DEF VisibilityChanged, Free, At, Operations
  <2> QED
    BY <1>d, <2>1, RowOfOne
<1>5. ASSUME NEW u, EraseFiles(r, u) PROVE CachedIsCurrent'
  <2>1. ~At(r, "forget") /\ UNCHANGED <<profile, blocks, follows, cache>>
    BY <1>5 DEF EraseFiles, Free, At, tables
  <2>2. PICK new : req' = [req EXCEPT ![r] = new]
    BY <1>5 DEF EraseFiles
  <2> QED
    BY <2>1, <2>2, NoRowsNoCopies
<1>6. CASE ReadPrevious(r)
  <2>1. PICK new : req' = [req EXCEPT ![r] = new]
    BY <1>6 DEF ReadPrevious
  <2> QED
    BY <1>6, <2>1, NoRowsNoCopies DEF ReadPrevious, At, tables
<1>7. CASE Replace(r)
  <2>1. ~At(r, "forget") /\ req[r] \in Request /\ req[r].who \in Users
    BY <1>0, <1>7 DEF Replace, At, Requested, Sound, Request
  <2>u. PICK u \in Users : u = req[r].who
    BY <2>1
  <2> DEFINE keys == << <<"profile", u>> >>
             new == [req[r] EXCEPT !.step = "forget", !.drop = keys]
  <2>2. /\ profile' = [profile EXCEPT ![u] = [profile[u] EXCEPT !.avatar = req[r].picture]]
        /\ req' = [req EXCEPT ![r] = new]
        /\ UNCHANGED <<blocks, follows, cache>>
    BY <1>7, <2>u DEF Replace, Forget
  <2>3. keys \in Seq(Keys)
    BY DropsAreKeys
  <2>4. new \in Request /\ new.step = "forget" /\ new.drop = keys
    BY <2>1, <2>3 DEF Request, Steps
  <2> HIDE DEF new
  <2> QED
    BY <2>1, <2>2, <2>4, RowOfOne
<1>8. CASE RemoveUploadedFile(r)
  BY <1>8, GotoNotForget DEF RemoveUploadedFile, At, tables
<1>9. CASE Reporting(r)
  <2>1. ~At(r, "forget") /\ UNCHANGED <<profile, blocks, follows, cache>>
    BY <1>9 DEF Reporting, CreateReport, ReadOpenReport, Review, Free, At, tables
  <2>2. PICK new : req' = [req EXCEPT ![r] = new]
    BY <1>9 DEF Reporting, CreateReport, ReadOpenReport, Review, Goto
  <2> QED
    BY <2>1, <2>2, NoRowsNoCopies
<1> QED
  BY <1>1, <1>2, <1>3, <1>4, <1>5, <1>6, <1>7, <1>8, <1>9, <1>10, <1>11, <1>12 DEF Profiles

(* Every copy that readers may be given is the row as it is, or somebody   *)
(* is on the way to delete it; readers that store what they loaded before  *)
(* a change, and deletions Redis does not answer, mark their copy late     *)
(* (JsonCache.remember, UserCache).                                        *)
THEOREM CopiesAreCurrent == Spec => []CachedIsCurrent
<1>1. Init => CachedIsCurrent
  BY DEF Init, CachedIsCurrent
<1>2. Typed /\ CachedIsCurrent /\ [Next]_vars => CachedIsCurrent'
  <2> SUFFICES ASSUME Typed, CachedIsCurrent, [Next]_vars PROVE CachedIsCurrent'
    OBVIOUS
  <2>0. ASSUME UNCHANGED <<profile, blocks, follows, req>>,
               \A k \in Keys : cache'[k] = cache[k] \/ cache'[k] = None
        PROVE  CachedIsCurrent'
    <3>1. ASSUME NEW k \in Keys PROVE CopyIsRight(k)'
      <4>1. ToBeForgotten(k) => ToBeForgotten(k)'
        BY <2>0 DEF ToBeForgotten, At
      <4>2. cache'[k] = None => CopyIsRight(k)'
        BY DEF CopyIsRight
      <4> QED
        BY <2>0, <4>1, <4>2, RowsStay, CopyStaysRight
    <3> QED
      BY <3>1 DEF CachedIsCurrent, CopyIsRight, ToBeForgotten
  <2>1. ASSUME NEW r \in Requests, CacheNext(r) PROVE CachedIsCurrent'
    BY <2>1, CacheIsCurrent
  <2>2. ASSUME NEW r \in Requests,
               BlockRequests(r) \/ FollowRequests(r) \/ Profiles(r) \/ Reporting(r)
        PROVE  CachedIsCurrent'
    BY <2>2, RowsAreForgotten, ProfilesAreForgotten
  <2>3. ASSUME NEW k \in Keys, Expire(k) PROVE CachedIsCurrent'
    BY <2>0, <2>3 DEF Expire, tables, Typed
  <2>4. ASSUME NEW u, NEW p, CreateUpload(u, p) \/ Upload(p) PROVE CachedIsCurrent'
    BY <2>0, <2>4 DEF CreateUpload, Upload, tables
  <2>5. CASE UNCHANGED vars
    BY <2>0, <2>5 DEF vars
  <2> QED
    BY <2>1, <2>2, <2>3, <2>4, <2>5 DEF Next
<1> QED
  BY <1>1, <1>2, InitTyped, StaysTyped, PTL DEF Spec

(* A block ends the follows of both, and who follows across it asked       *)
(* before it, or was answered from a copy that was yet to be deleted or    *)
(* late (FollowsService.follow, BlocksService.block).                      *)
THEOREM BlocksEndFollows == Spec => []NoFollowAcrossBlock
<1>1. Init => FollowsAreCrossed
  BY DEF Init, FollowsAreCrossed
<1>2. TypeOK /\ CachedIsCurrent /\ FollowsAreCrossed /\ [Next]_vars => FollowsAreCrossed'
  <2> SUFFICES ASSUME TypeOK, CachedIsCurrent, FollowsAreCrossed, [Next]_vars
               PROVE  FollowsAreCrossed'
    OBVIOUS
  <2>1. ASSUME req' = req, follows' = follows, crossed' = crossed
        PROVE  FollowsAreCrossed'
    BY <2>1 DEF FollowsAreCrossed
  <2>2. ASSUME NEW k, Expire(k)
        PROVE  FollowsAreCrossed'
    BY <2>1, <2>2 DEF Expire, tables, history
  <2>3. ASSUME NEW u, NEW p, CreateUpload(u, p) \/ Upload(p)
        PROVE  FollowsAreCrossed'
    BY <2>1, <2>3 DEF CreateUpload, Upload, tables, history
  <2>4. CASE UNCHANGED vars
    BY <2>1, <2>4 DEF vars
  <2> QED
    BY <2>2, <2>3, <2>4, CacheKeeps, BlocksKeep, FollowsKeep, ProfilesKeep, ReportsKeep DEF Next
<1>3. FollowsAreCrossed => NoFollowAcrossBlock
  BY DEF FollowsAreCrossed, NoFollowAcrossBlock
<1> QED
  BY <1>1, <1>2, <1>3, TypeInvariant, CopiesAreCurrent, PTL DEF Spec

-----------------------------------------------------------------------------
(* Pictures.                                                               *)

Mine(p, u) == given[p] = u /\ confirmed[p] >= 1

(* A picture in a profile was given to its owner and asked to be used.     *)
Worn == \A u \in Users : LET p == profile[u].avatar IN p \in Pictures => Mine(p, u)

(* So were those a request is to set, or has replaced.                     *)
Held(q) ==
    /\ q.picture \in Pictures => Mine(q.picture, q.who)
    /\ q.previous \in Pictures => Mine(q.previous, q.who)
    /\ q.step \in {"lookup", "load", "store", "blocked", "room", "insert", "sync"} =>
          q.picture \notin Pictures /\ q.previous \notin Pictures

(* r is to set p, and nobody asked for p again.                            *)
ToSet(r, p) ==
    /\ req[r] # None /\ req[r].step \in {"previous", "update"}
    /\ req[r].picture = p /\ confirmed[p] <= 1

(* r has replaced p, and nobody asked for p again.                         *)
HasReplaced(r, p) ==
    /\ req[r] # None /\ req[r].step \in {"forget", "removeFile"}
    /\ req[r].previous = p /\ confirmed[p] <= 1

NobodyWears(p) == \A u \in Users : profile[u].avatar # p

(* A picture about to be set is there, was nowhere yet and is set by one.  *)
Unused(r, p) ==
    /\ NobodyWears(p)
    /\ \A s \in Requests : req[s] # None => req[s].previous # p
    /\ \A s \in Requests : ToSet(s, p) => s = r
    /\ req[r].who \notin erased => p \in files

PicturesAreHeld ==
    /\ Worn
    /\ \A r \in Requests : req[r] # None => Held(req[r])
    /\ \A r \in Requests, p \in Pictures : ToSet(r, p) => Unused(r, p)
    /\ \A r \in Requests, p \in Pictures : HasReplaced(r, p) => NobodyWears(p)

Pictured == PicturesAreHeld /\ PictureIsThere

(* No picture is set, replaced, asked for or removed.                      *)
LEMMA NoPicture ==
    ASSUME Typed, Pictured, NEW r \in Requests, NEW new,
           req' = [req EXCEPT ![r] = new],
           new.picture \notin Pictures, new.previous \notin Pictures,
           \A u \in Users : \/ profile'[u].avatar = profile[u].avatar
                           \/ profile'[u].avatar \notin Pictures,
           UNCHANGED <<given, confirmed>>, erased \subseteq erased',
           \A p \in Pictures : p \in files => p \in files' \/ given[p] \in erased'
    PROVE  Pictured'
<1>1. Worn'
  BY DEF Pictured, PicturesAreHeld, Worn, Mine
<1>2. ASSUME NEW s \in Requests, req'[s] # None PROVE Held(req[s])'
  <2>1. CASE s = r
    BY <2>1 DEF Held, Typed, Requested
  <2>2. CASE s # r
    BY <1>2, <2>2 DEF Held, Mine, Pictured, PicturesAreHeld, Typed, Requested
  <2> QED
    BY <2>1, <2>2
<1>3. ASSUME NEW s \in Requests, NEW p \in Pictures, ToSet(s, p)' PROVE Unused(s, p)'
  <2>1. s # r /\ req'[s] = req[s] /\ ToSet(s, p)
    BY <1>3 DEF ToSet, Typed, Requested
  <2>2. Unused(s, p) /\ Mine(p, req[s].who)
    BY <2>1 DEF Pictured, PicturesAreHeld, ToSet, Held
  <2> QED
    BY <2>1, <2>2 DEF Unused, NobodyWears, ToSet, Mine, Typed, Requested
<1>4. ASSUME NEW s \in Requests, NEW p \in Pictures, HasReplaced(s, p)' PROVE NobodyWears(p)'
  <2>1. HasReplaced(s, p)
    BY <1>4 DEF HasReplaced, Typed, Requested
  <2> QED
    BY <2>1 DEF Pictured, PicturesAreHeld, NobodyWears
<1>5. PictureIsThere'
  BY DEF Pictured, PicturesAreHeld, Worn, Mine, PictureIsThere
<1> QED
  BY <1>1, <1>2, <1>3, <1>4, <1>5 DEF Pictured, PicturesAreHeld

(* A request past its change of a picture goes on.                         *)
LEMMA SamePicture ==
    ASSUME Typed, Pictured, NEW r \in Requests, req[r] # None, NEW new,
           req' = [req EXCEPT ![r] = new],
           new.picture = req[r].picture, new.previous = req[r].previous, new.who = req[r].who,
           req[r].step \in {"forget", "removeFile"}, new.step \in {"forget", "removeFile"},
           UNCHANGED <<profile, given, confirmed, erased, files>>
    PROVE  Pictured'
<1>1. Worn'
  BY DEF Pictured, PicturesAreHeld, Worn, Mine
<1>2. ASSUME NEW s \in Requests, req'[s] # None PROVE Held(req[s])'
  BY <1>2 DEF Held, Mine, Pictured, PicturesAreHeld, Typed, Requested
<1>3. ASSUME NEW s \in Requests, NEW p \in Pictures, ToSet(s, p)' PROVE Unused(s, p)'
  <2>1. s # r /\ req'[s] = req[s] /\ ToSet(s, p)
    BY <1>3 DEF ToSet, Typed, Requested
  <2>2. Unused(s, p)
    BY <2>1 DEF Pictured, PicturesAreHeld
  <2> QED
    BY <2>1, <2>2 DEF Unused, NobodyWears, ToSet, Typed, Requested
<1>4. ASSUME NEW s \in Requests, NEW p \in Pictures, HasReplaced(s, p)' PROVE NobodyWears(p)'
  <2>1. HasReplaced(s, p)
    BY <1>4 DEF HasReplaced, Typed, Requested
  <2> QED
    BY <2>1 DEF Pictured, PicturesAreHeld, NobodyWears
<1>5. PictureIsThere'
  BY DEF Pictured, PictureIsThere
<1> QED
  BY <1>1, <1>2, <1>3, <1>4, <1>5 DEF Pictured, PicturesAreHeld

LEMMA DoneHasNoPicture ==
    ASSUME Typed, Pictured, NEW r \in Requests, Goto(r, "done"),
           UNCHANGED <<profile, given, confirmed, erased, files>>
    PROVE  Pictured'
<1>1. req' = [req EXCEPT ![r] = Done(r)]
  BY DEF Goto
<1>2. Done(r).picture \notin Pictures /\ Done(r).previous \notin Pictures
  BY PeopleAssumption DEF Done, Sent
<1> QED
  BY <1>1, <1>2, NoPicture DEF Typed, TypeOK

LEMMA CacheKeepsPictures ==
    ASSUME Typed, Pictured, NEW r \in Requests, CacheNext(r)
    PROVE  Pictured'
<1>0. /\ UNCHANGED <<profile, given, confirmed, erased, files>>
      /\ \A u \in Users : profile'[u].avatar = profile[u].avatar
  BY DEF CacheNext, Read, Lookup, Load, Store, ForgetKey, Forgotten, tables, history
<1>a. ASSUME req[r] # None, req[r].step \in {"lookup", "load", "store"}
      PROVE  /\ req[r] \in Request
             /\ req[r].picture \notin Pictures /\ req[r].previous \notin Pictures
             /\ \A value, clear : /\ Answered(req[r], value, clear).picture \notin Pictures
                                  /\ Answered(req[r], value, clear).previous \notin Pictures
  <2>1. /\ req[r] \in Request
        /\ req[r].picture \notin Pictures /\ req[r].previous \notin Pictures
    BY <1>a DEF Typed, Requested, Sound, Pictured, PicturesAreHeld, Held
  <2>2. ASSUME NEW value, NEW clear
        PROVE  /\ Answered(req[r], value, clear).picture \notin Pictures
               /\ Answered(req[r], value, clear).previous \notin Pictures
    <3>1. CASE req[r].op = "follow"
      <4>1. Answered(req[r], value, clear)
               = [req[r] EXCEPT !.step = "blocked", !.answer = value, !.clear = clear]
        BY <3>1 DEF Answered
      <4> QED
        BY <2>1, <4>1 DEF Request
    <3>2. CASE req[r].op # "follow"
      BY <3>2, PeopleAssumption DEF Answered, Sent
    <3> QED
      BY <3>1, <3>2
  <2> QED
    BY <2>1, <2>2
<1>1. ASSUME NEW op, NEW u, Read(r, op, u) PROVE Pictured'
  <2>1. /\ Sent(op, "lookup", u, None).picture \notin Pictures
        /\ Sent(op, "lookup", u, None).previous \notin Pictures
    BY PeopleAssumption DEF Sent
  <2> QED
    BY <1>0, <1>1, <2>1, NoPicture DEF Read
<1>2. CASE Lookup(r)
  <2>1. req[r] # None /\ req[r].step = "lookup"
    BY <1>2 DEF Lookup, At
  <2> DEFINE entry == cache[KeyOf(req[r])]
             clear == \/ ~Blocked(req[r].who, req[r].other)
                      \/ ToBeForgotten(KeyOf(req[r])) \/ entry.late
  <2>2. CASE entry = None
    <3> DEFINE new == [req[r] EXCEPT !.step = "load"]
    <3>1. new.picture \notin Pictures /\ new.previous \notin Pictures
      BY <1>a, <2>1 DEF Request
    <3>2. req' = [req EXCEPT ![r] = new]
      BY <1>2, <2>2 DEF Lookup
    <3> HIDE DEF new
    <3> QED
      BY <1>0, <3>1, <3>2, NoPicture
  <2>3. CASE entry # None
    <3>1. req' = [req EXCEPT ![r] = Answered(req[r], entry.value, clear)]
      BY <1>2, <2>3 DEF Lookup
    <3> HIDE DEF entry, clear
    <3> QED
      BY <1>0, <1>a, <2>1, <3>1, NoPicture
  <2> QED
    BY <2>2, <2>3
<1>3. CASE Load(r)
  <2>1. req[r] # None /\ req[r].step = "load"
    BY <1>3 DEF Load, At
  <2>2. CASE Goto(r, "done")
    BY <1>0, <2>2, DoneHasNoPicture
  <2>3. CASE ~Goto(r, "done")
    <3> DEFINE answer == Loaded(KeyOf(req[r]))
               clear == req[r].op = "follow" /\ ~Blocked(req[r].who, req[r].other)
               new == [req[r] EXCEPT !.step = "store", !.answer = answer, !.clear = clear]
    <3>1. req' = [req EXCEPT ![r] = new]
      BY <1>3, <2>3 DEF Load
    <3> HIDE DEF answer, clear
    <3>2. new.picture \notin Pictures /\ new.previous \notin Pictures
      BY <1>a, <2>1 DEF Request
    <3> HIDE DEF new
    <3> QED
      BY <1>0, <3>1, <3>2, NoPicture
  <2> QED
    BY <2>2, <2>3
<1>4. CASE Store(r)
  BY <1>0, <1>4, <1>a, NoPicture DEF Store, At
<1>5. CASE ForgetKey(r)
  <2>1. req[r] # None /\ req[r].step = "forget" /\ req[r] \in Request
    BY <1>5 DEF ForgetKey, At, Typed, Requested, Sound
  <2> DEFINE new == [req[r] EXCEPT !.drop = Tail(@)]
  <2>2. req' = [req EXCEPT ![r] = new]
    BY <1>5 DEF ForgetKey
  <2>3. /\ new.picture = req[r].picture /\ new.previous = req[r].previous
        /\ new.who = req[r].who /\ new.step = "forget"
    BY <2>1 DEF Request
  <2> HIDE DEF new
  <2> QED
    BY <1>0, <2>1, <2>2, <2>3, SamePicture
<1>6. CASE Forgotten(r)
  <2>1. CASE Goto(r, "done")
    BY <1>0, <2>1, DoneHasNoPicture
  <2>2. CASE Goto(r, "removeFile")
    <3>1. req[r] # None /\ req[r].step = "forget" /\ req[r] \in Request
      BY <1>6 DEF Forgotten, At, Typed, Requested, Sound
    <3> DEFINE new == [req[r] EXCEPT !.step = "removeFile"]
    <3>2. req' = [req EXCEPT ![r] = new]
      BY <2>2 DEF Goto
    <3>3. /\ new.picture = req[r].picture /\ new.previous = req[r].previous
          /\ new.who = req[r].who /\ new.step = "removeFile"
      BY <3>1 DEF Request
    <3> HIDE DEF new
    <3> QED
      BY <1>0, <3>1, <3>2, <3>3, SamePicture
  <2> QED
    BY <1>6, <2>1, <2>2 DEF Forgotten
<1> QED
  BY <1>1, <1>2, <1>3, <1>4, <1>5, <1>6 DEF CacheNext

(* Blocks, follows, reports and names leave pictures alone.                *)
LEMMA OthersKeepPictures ==
    ASSUME Typed, Pictured, NEW r \in Requests,
           BlockRequests(r) \/ FollowRequests(r) \/ Reporting(r)
    PROVE  Pictured'
<1>0. /\ UNCHANGED <<profile, given, confirmed, erased, files>>
      /\ \A u \in Users : profile'[u].avatar = profile[u].avatar
  BY DEF BlockRequests, Block, Unblock, FollowRequests, Follow, Unfollow, IsFollowing,
         RequireRoomToFollow, InsertFollow, Reporting, CreateReport, ReadOpenReport, Review, tables, history
<1>s. ASSUME NEW op, NEW step, NEW u, NEW v, NEW keys
      PROVE  /\ Sent(op, step, u, v).picture \notin Pictures
             /\ Sent(op, step, u, v).previous \notin Pictures
             /\ [Sent(op, step, u, v) EXCEPT !.drop = keys].picture \notin Pictures
             /\ [Sent(op, step, u, v) EXCEPT !.drop = keys].previous \notin Pictures
  BY PeopleAssumption DEF Sent
<1>1. ASSUME NEW u, NEW v, Block(r, u, v) PROVE Pictured'
  BY <1>0, <1>1, <1>s, NoPicture DEF Block
<1>2. ASSUME NEW u, NEW v, Unblock(r, u, v) PROVE Pictured'
  BY <1>0, <1>2, <1>s, NoPicture DEF Unblock
<1>3. ASSUME NEW u, NEW v, Follow(r, u, v) PROVE Pictured'
  BY <1>0, <1>3, <1>s, NoPicture DEF Follow
<1>4. ASSUME NEW u, NEW v, Unfollow(r, u, v) PROVE Pictured'
  BY <1>0, <1>4, <1>s, NoPicture DEF Unfollow
<1>8. CASE IsFollowing(r)
  <2>1. CASE Goto(r, "done")
    BY <1>0, <2>1, DoneHasNoPicture
  <2>2. CASE Goto(r, "room")
    <3> DEFINE new == [req[r] EXCEPT !.step = "room"]
    <3>1. req[r] # None /\ req[r].step = "blocked" /\ req[r] \in Request /\ Held(req[r])
      BY <1>8 DEF IsFollowing, At, Typed, Requested, Sound, Pictured, PicturesAreHeld
    <3>2. req' = [req EXCEPT ![r] = new]
      BY <2>2 DEF Goto
    <3>3. new.picture \notin Pictures /\ new.previous \notin Pictures
      BY <3>1 DEF Request, Held
    <3> HIDE DEF new
    <3> QED
      BY <1>0, <3>2, <3>3, NoPicture
  <2> QED
    BY <1>8, <2>1, <2>2 DEF IsFollowing
<1>5. CASE RequireRoomToFollow(r)
  <2>1. CASE Goto(r, "done")
    BY <1>0, <2>1, DoneHasNoPicture
  <2>2. CASE Goto(r, "insert")
    <3> DEFINE new == [req[r] EXCEPT !.step = "insert"]
    <3>1. req[r] # None /\ req[r].step = "room" /\ req[r] \in Request /\ Held(req[r])
      BY <1>5 DEF RequireRoomToFollow, At, Typed, Requested, Sound, Pictured, PicturesAreHeld
    <3>2. req' = [req EXCEPT ![r] = new]
      BY <2>2 DEF Goto
    <3>3. new.picture \notin Pictures /\ new.previous \notin Pictures
      BY <3>1 DEF Request, Held
    <3> HIDE DEF new
    <3> QED
      BY <1>0, <3>2, <3>3, NoPicture
  <2> QED
    BY <1>5, <2>1, <2>2 DEF RequireRoomToFollow
<1>6. CASE InsertFollow(r)
  <2> DEFINE keys == << <<"following", req[r].who>> >>
             new == [req[r] EXCEPT !.step = "forget", !.drop = keys]
  <2>1. req[r] # None /\ req[r].step = "insert" /\ req[r] \in Request /\ Held(req[r])
    BY <1>6 DEF InsertFollow, At, Typed, Requested, Sound, Pictured, PicturesAreHeld
  <2>2. req' = [req EXCEPT ![r] = new]
    BY <1>6 DEF InsertFollow, Forget
  <2> HIDE DEF keys
  <2>3. new.picture \notin Pictures /\ new.previous \notin Pictures
    BY <2>1 DEF Request, Held
  <2> HIDE DEF new
  <2> QED
    BY <1>0, <2>2, <2>3, NoPicture
<1>7. CASE Reporting(r)
  <2>1. ASSUME NEW u, NEW v, CreateReport(r, u, v) PROVE Pictured'
    BY <1>0, <1>s, <2>1, NoPicture DEF CreateReport
  <2>2. ASSUME ReadOpenReport(r) PROVE Pictured'
    BY <1>0, <2>2, DoneHasNoPicture DEF ReadOpenReport
  <2>3. ASSUME NEW admin, NEW i, NEW outcome, Review(r, admin, i, outcome) PROVE Pictured'
    BY <1>0, <1>s, <2>3, NoPicture DEF Review
  <2> QED
    BY <1>7, <2>1, <2>2, <2>3 DEF Reporting
<1> QED
  BY <1>1, <1>2, <1>3, <1>4, <1>5, <1>6, <1>7, <1>8 DEF BlockRequests, FollowRequests

(* PUT /users/me/avatar with a picture that is there.                      *)
LEMMA UploadIsUsed ==
    ASSUME Typed, Pictured, NEW r \in Requests, NEW u \in Users, NEW p \in Pictures, UseUpload(r, u, p)
    PROVE  Pictured'
<1> DEFINE there == given[p] = u /\ p \in files
<1>0. UNCHANGED <<profile, given, erased, files>> /\ Requested
  BY DEF UseUpload, tables, Typed
<1>1. CASE ~there
  <2> DEFINE new == [Sent("useUpload", "done", u, None) EXCEPT !.picture = None]
  <2>1. req' = [req EXCEPT ![r] = new] /\ UNCHANGED confirmed
    BY <1>1 DEF UseUpload, Typed, TypeOK
  <2>2. new.picture \notin Pictures /\ new.previous \notin Pictures
    BY PeopleAssumption DEF Sent
  <2> HIDE DEF new
  <2> QED
    BY <1>0, <2>1, <2>2, NoPicture
<1>2. CASE there
  <2> DEFINE new == [Sent("useUpload", "previous", u, None) EXCEPT !.picture = p]
  <2>1. /\ req' = [req EXCEPT ![r] = new]
        /\ confirmed' = [confirmed EXCEPT ![p] = confirmed[p] + 1]
    BY <1>2 DEF UseUpload
  <2>2. /\ new.picture = p /\ new.previous = None /\ new.who = u /\ new.step = "previous"
        /\ None \notin Pictures
    BY PeopleAssumption DEF Sent
  <2> HIDE DEF new
  <2>3. \A q \in Pictures : confirmed'[q] >= confirmed[q] /\ confirmed'[q] \in Nat /\ confirmed[q] \in Nat
    BY <2>1 DEF Typed, TypeOK
  <2>4. \A q \in Pictures : \A v : Mine(q, v) => Mine(q, v)'
    BY <1>0, <2>3 DEF Mine
  <2>5. Mine(p, u)'
    BY <1>0, <1>2, <2>1 DEF Mine, Typed, TypeOK
  <2>6. Worn' /\ PictureIsThere'
    BY <1>0, <2>3, <2>4 DEF Worn, PictureIsThere, Pictured, PicturesAreHeld
  <2>7. ASSUME NEW s \in Requests, req'[s] # None PROVE Held(req[s])'
    <3>1. CASE s = r
      BY <1>0, <2>1, <2>2, <2>5, <3>1 DEF Held, Requested
    <3>2. CASE s # r
      <4>1. req'[s] = req[s] /\ Held(req[s])
        BY <1>0, <2>1, <2>7, <3>2 DEF Requested, Pictured, PicturesAreHeld
      <4> QED
        BY <2>4, <4>1 DEF Held
    <3> QED
      BY <3>1, <3>2
  <2>8. ASSUME confirmed'[p] <= 1
        PROVE  /\ NobodyWears(p)
               /\ \A s \in Requests : req[s] # None => req[s].previous # p /\ req[s].picture # p
    <3>1. ~(confirmed[p] >= 1)
      BY <2>1, <2>3, <2>8 DEF Typed, TypeOK
    <3> QED
      BY <3>1 DEF Pictured, PicturesAreHeld, Worn, Held, Mine, NobodyWears
  <2>9. ASSUME NEW s \in Requests, NEW q \in Pictures, ToSet(s, q)' PROVE Unused(s, q)'
    <3>1. CASE q = p
      <4>1. s = r
        BY <1>0, <2>1, <2>8, <2>9, <3>1 DEF ToSet, Requested
      <4>2. \A x \in Requests : ToSet(x, q)' => x = r
        BY <1>0, <2>1, <2>8, <3>1 DEF ToSet, Requested
      <4>3. \A x \in Requests : req'[x] # None => req'[x].previous # q
        BY <1>0, <2>1, <2>2, <2>8, <2>9, <3>1 DEF ToSet, Requested
      <4> QED
        BY <1>0, <1>2, <2>8, <2>9, <3>1, <4>1, <4>2, <4>3 DEF Unused, NobodyWears, ToSet
    <3>2. CASE q # p
      <4>1. s # r /\ req'[s] = req[s] /\ confirmed'[q] = confirmed[q] /\ ToSet(s, q)
        BY <1>0, <2>1, <2>2, <2>9, <3>2 DEF ToSet, Requested, Typed, TypeOK
      <4>2. Unused(s, q)
        BY <4>1 DEF Pictured, PicturesAreHeld
      <4>3. \A x \in Requests : ToSet(x, q)' => x # r /\ ToSet(x, q)
        BY <1>0, <2>1, <2>2, <3>2, <4>1 DEF ToSet, Requested
      <4>4. \A x \in Requests : req'[x] # None => req'[x].previous # q
        BY <1>0, <2>1, <2>2, <4>2 DEF Unused, Requested
      <4> QED
        BY <1>0, <4>1, <4>2, <4>3, <4>4 DEF Unused, NobodyWears
    <3> QED
      BY <3>1, <3>2
  <2>10. ASSUME NEW s \in Requests, NEW q \in Pictures, HasReplaced(s, q)' PROVE NobodyWears(q)'
    <3>1. HasReplaced(s, q)
      BY <1>0, <2>1, <2>2, <2>3, <2>10 DEF HasReplaced, Requested
    <3> QED
      BY <1>0, <3>1 DEF Pictured, PicturesAreHeld, NobodyWears
  <2> QED
    BY <2>6, <2>7, <2>9, <2>10 DEF Pictured, PicturesAreHeld
<1> QED
  BY <1>1, <1>2

(* The picture that is to be replaced.                                     *)
LEMMA PreviousIsRead ==
    ASSUME Typed, Pictured, NEW r \in Requests, ReadPrevious(r)
    PROVE  Pictured'
<1>0. /\ UNCHANGED <<profile, given, confirmed, erased, files>> /\ Requested
      /\ req[r] # None /\ req[r].step = "previous" /\ req[r] \in Request /\ req[r].who \in Users
      /\ Held(req[r])
  BY DEF ReadPrevious, At, tables, history, Typed, Requested, Sound, Request, Pictured,
         PicturesAreHeld
<1>a. PICK avatar : avatar = profile[req[r].who].avatar
  OBVIOUS
<1> DEFINE new == [req[r] EXCEPT !.step = "update", !.previous = avatar]
<1>1. req' = [req EXCEPT ![r] = new]
  BY <1>a DEF ReadPrevious
<1>2. /\ new.picture = req[r].picture /\ new.previous = avatar /\ new.who = req[r].who
      /\ new.step = "update"
  BY <1>0 DEF Request
<1> HIDE DEF new
<1>3. Worn' /\ PictureIsThere'
  BY <1>0 DEF Worn, Mine, PictureIsThere, Pictured, PicturesAreHeld
<1>4. avatar \in Pictures => Mine(avatar, req[r].who)
  BY <1>0, <1>a DEF Worn, Pictured, PicturesAreHeld
<1>5. ASSUME NEW s \in Requests, req'[s] # None PROVE Held(req[s])'
  <2>1. CASE s = r
    BY <1>0, <1>1, <1>2, <1>4, <2>1 DEF Held, Mine, Requested
  <2>2. CASE s # r
    BY <1>0, <1>1, <1>5, <2>2 DEF Held, Mine, Requested, Pictured, PicturesAreHeld
  <2> QED
    BY <2>1, <2>2
<1>6. ASSUME NEW s \in Requests, NEW p \in Pictures, ToSet(s, p)' PROVE Unused(s, p)'
  <2>1. \A x \in Requests : ToSet(x, p)' => ToSet(x, p)
    BY <1>0, <1>1, <1>2 DEF ToSet, Requested
  <2>2. Unused(s, p)
    BY <1>6, <2>1 DEF Pictured, PicturesAreHeld
  <2>3. avatar # p
    BY <1>0, <1>a, <2>2 DEF Unused, NobodyWears
  <2>4. \A x \in Requests : req'[x] # None => req'[x].previous # p
    BY <1>0, <1>1, <1>2, <2>2, <2>3 DEF Unused, Requested
  <2>5. req'[s].who = req[s].who
    BY <1>0, <1>1, <1>2 DEF Requested
  <2> QED
    BY <1>0, <2>1, <2>2, <2>4, <2>5 DEF Unused, NobodyWears
<1>7. ASSUME NEW s \in Requests, NEW p \in Pictures, HasReplaced(s, p)' PROVE NobodyWears(p)'
  <2>1. HasReplaced(s, p)
    BY <1>0, <1>1, <1>2, <1>7 DEF HasReplaced, Requested
  <2> QED
    BY <1>0, <2>1 DEF Pictured, PicturesAreHeld, NobodyWears
<1> QED
  BY <1>3, <1>5, <1>6, <1>7 DEF Pictured, PicturesAreHeld

(* One picture for another.                                                *)
LEMMA PictureIsReplaced ==
    ASSUME Typed, Pictured, NEW r \in Requests, Replace(r)
    PROVE  Pictured'
<1>0. /\ UNCHANGED <<given, confirmed, erased, files>> /\ Requested
      /\ req[r] # None /\ req[r].step = "update" /\ req[r] \in Request
      /\ Held(req[r])
  BY DEF Replace, At, history, Typed, Requested, Sound, Request, Pictured, PicturesAreHeld
<1>u. PICK u \in Users : u = req[r].who
  BY <1>0 DEF Request
<1>v. PICK picture : picture = req[r].picture
  OBVIOUS
<1>a. picture = req[r].picture /\ u = req[r].who
  BY <1>u, <1>v
<1> DEFINE keys == << <<"profile", u>> >>
           new == [req[r] EXCEPT !.step = "forget", !.drop = keys]
<1>1. req' = [req EXCEPT ![r] = new]
  BY <1>a DEF Replace, Forget
<1> HIDE DEF keys
<1>2. /\ new.picture = picture /\ new.previous = req[r].previous /\ new.who = u
      /\ new.step = "forget"
  BY <1>0, <1>a DEF Request
<1> HIDE DEF new
<1>p. /\ profile'[u].avatar = picture
      /\ \A v \in Users \ {u} : profile'[v] = profile[v]
  <2>1. profile[u] \in Row
    BY DEF Typed, TypeOK
  <2>2. profile' = [profile EXCEPT ![u] = [profile[u] EXCEPT !.avatar = picture]]
    BY <1>a DEF Replace
  <2> QED
    BY <2>1, <2>2 DEF Typed, TypeOK
<1>3. Worn'
  BY <1>0, <1>a, <1>p DEF Worn, Held, Mine, Pictured, PicturesAreHeld
<1>4. ASSUME NEW p \in Pictures, picture = p, confirmed[p] <= 1 PROVE ToSet(r, p) /\ Unused(r, p)
  BY <1>0, <1>4, <1>a DEF ToSet, Pictured, PicturesAreHeld
<1>5. ASSUME NEW s \in Requests, req'[s] # None PROVE Held(req[s])'
  <2>1. CASE s = r
    BY <1>0, <1>1, <1>2, <1>a, <2>1 DEF Held, Mine, Requested
  <2>2. CASE s # r
    BY <1>0, <1>1, <1>5, <2>2 DEF Held, Mine, Requested, Pictured, PicturesAreHeld
  <2> QED
    BY <2>1, <2>2
<1>6. ASSUME NEW s \in Requests, NEW p \in Pictures, ToSet(s, p)' PROVE Unused(s, p)'
  <2>1. \A x \in Requests : ToSet(x, p)' => x # r /\ ToSet(x, p) /\ req'[x] = req[x]
    BY <1>0, <1>1, <1>2 DEF ToSet, Requested
  <2>2. Unused(s, p) /\ s # r
    BY <1>6, <2>1 DEF Pictured, PicturesAreHeld
  <2>3. picture # p
    BY <1>4, <1>6, <2>1, <2>2 DEF Unused, ToSet
  <2>4. \A x \in Requests : req'[x] # None => req'[x].previous # p
    BY <1>0, <1>1, <1>2, <2>2 DEF Unused, Requested
  <2>5. NobodyWears(p)'
    BY <1>p, <2>2, <2>3 DEF Unused, NobodyWears
  <2> QED
    BY <1>0, <1>6, <2>1, <2>2, <2>4, <2>5 DEF Unused
<1>7. ASSUME NEW s \in Requests, NEW p \in Pictures, HasReplaced(s, p)' PROVE NobodyWears(p)'
  <2>0. confirmed[p] <= 1 /\ req[s] # None /\ req[s].previous = p
    BY <1>0, <1>1, <1>2, <1>7 DEF HasReplaced, Requested
  <2>1. picture # p
    BY <1>4, <2>0 DEF Unused
  <2>2. CASE s = r
    <3>1. Mine(p, u)
      BY <1>0, <1>a, <2>0, <2>2 DEF Held
    <3>2. \A v \in Users \ {u} : profile[v].avatar # p
      BY <3>1 DEF Mine, Worn, Pictured, PicturesAreHeld
    <3> QED
      BY <1>p, <2>1, <3>2 DEF NobodyWears
  <2>3. CASE s # r
    <3>1. HasReplaced(s, p)
      BY <1>0, <1>1, <1>7, <2>3 DEF HasReplaced, Requested
    <3>2. NobodyWears(p)
      BY <3>1 DEF Pictured, PicturesAreHeld
    <3> QED
      BY <1>p, <2>1, <3>2 DEF NobodyWears
  <2> QED
    BY <2>2, <2>3
<1>8. PictureIsThere'
  <2>1. picture \in Pictures /\ confirmed[picture] <= 1 /\ u \notin erased => picture \in files
    BY <1>4, <1>a DEF Unused
  <2> QED
    BY <1>0, <1>p, <2>1 DEF PictureIsThere, Pictured
<1> QED
  BY <1>3, <1>5, <1>6, <1>7, <1>8 DEF Pictured, PicturesAreHeld

(* The file of the picture that was replaced goes.                         *)
LEMMA FileIsRemoved ==
    ASSUME Typed, Pictured, NEW r \in Requests, RemoveUploadedFile(r)
    PROVE  Pictured'
<1>0. /\ UNCHANGED <<profile, given, confirmed, erased>> /\ Requested
      /\ req[r] # None /\ req[r].step = "removeFile"
  BY DEF RemoveUploadedFile, At, tables, history, Typed
<1>1. req' = [req EXCEPT ![r] = Done(r)]
  BY DEF RemoveUploadedFile, Goto
<1>2. Done(r).picture \notin Pictures /\ Done(r).previous \notin Pictures /\ Done(r).step = "done"
  BY PeopleAssumption DEF Done, Sent
<1>3. \A p \in Pictures : p # req[r].previous => (p \in files' <=> p \in files)
  BY DEF RemoveUploadedFile
<1>4. Worn'
  BY <1>0 DEF Worn, Mine, Pictured, PicturesAreHeld
<1>5. ASSUME NEW s \in Requests, req'[s] # None PROVE Held(req[s])'
  <2>1. CASE s = r
    BY <1>0, <1>1, <1>2, <2>1 DEF Held, Requested
  <2>2. CASE s # r
    BY <1>0, <1>1, <1>5, <2>2 DEF Held, Mine, Requested, Pictured, PicturesAreHeld
  <2> QED
    BY <2>1, <2>2
<1>6. ASSUME NEW s \in Requests, NEW p \in Pictures, ToSet(s, p)' PROVE Unused(s, p)'
  <2>1. \A x \in Requests : ToSet(x, p)' => x # r /\ ToSet(x, p) /\ req'[x] = req[x]
    BY <1>0, <1>1, <1>2 DEF ToSet, Requested
  <2>2. Unused(s, p) /\ s # r
    BY <1>6, <2>1 DEF Pictured, PicturesAreHeld
  <2>3. p # req[r].previous
    BY <1>0, <2>2 DEF Unused
  <2>4. \A x \in Requests : req'[x] # None => req'[x].previous # p
    BY <1>0, <1>1, <1>2, <2>2 DEF Unused, Requested
  <2> QED
    BY <1>0, <1>3, <1>6, <2>1, <2>2, <2>3, <2>4 DEF Unused, NobodyWears
<1>7. ASSUME NEW s \in Requests, NEW p \in Pictures, HasReplaced(s, p)' PROVE NobodyWears(p)'
  <2>1. HasReplaced(s, p)
    BY <1>0, <1>1, <1>2, <1>7 DEF HasReplaced, Requested
  <2> QED
    BY <1>0, <2>1 DEF Pictured, PicturesAreHeld, NobodyWears
<1>8. PictureIsThere'
  <2>1. ASSUME NEW u \in Users, profile[u].avatar = req[r].previous,
               profile[u].avatar \in Pictures, confirmed[profile[u].avatar] <= 1
        PROVE  FALSE
    BY <1>0, <2>1 DEF HasReplaced, NobodyWears, Pictured, PicturesAreHeld
  <2> QED
    BY <1>0, <1>3, <2>1 DEF PictureIsThere, Pictured
<1> QED
  BY <1>4, <1>5, <1>6, <1>7, <1>8 DEF Pictured, PicturesAreHeld

LEMMA ProfilesKeepPictures ==
    ASSUME Typed, Pictured, NEW r \in Requests, Profiles(r)
    PROVE  Pictured'
<1>s. ASSUME NEW op, NEW step, NEW u, NEW v, NEW keys
      PROVE  /\ Sent(op, step, u, v).picture \notin Pictures
             /\ Sent(op, step, u, v).previous \notin Pictures
             /\ [Sent(op, step, u, v) EXCEPT !.drop = keys].picture \notin Pictures
             /\ [Sent(op, step, u, v) EXCEPT !.drop = keys].previous \notin Pictures
  BY PeopleAssumption DEF Sent
<1>r. \A u \in Users :
         profile[u] \in Row
  BY DEF Typed, TypeOK, Row
<1>1. ASSUME NEW u \in Users, NEW n, UpdateProfile(r, u, n) PROVE Pictured'
  <2>1. \A v \in Users : profile'[v].avatar = profile[v].avatar
    <3>1. CASE UNCHANGED profile
      BY <3>1
    <3>2. CASE profile' = [profile EXCEPT ![u] = [profile[u] EXCEPT !.name = n]]
      BY <1>r, <3>2 DEF Typed, TypeOK
    <3> QED
      BY <1>1, <3>1, <3>2 DEF UpdateProfile
  <2>2. UNCHANGED <<given, confirmed, erased, files>>
    BY <1>1 DEF UpdateProfile, history
  <2>3. PICK new : /\ req' = [req EXCEPT ![r] = new]
                   /\ new.picture \notin Pictures /\ new.previous \notin Pictures
    <3>1. CASE req' = [req EXCEPT ![r] = Sent("updateProfile", "done", u, None)]
      BY <1>s, <3>1
    <3>2. CASE req' = [req EXCEPT ![r] = [Sent("updateProfile", "forget", u, None)
                                            EXCEPT !.drop = << <<"profile", u>> >>]]
      BY <1>s, <3>2
    <3> QED
      BY <1>1, <3>1, <3>2 DEF UpdateProfile
  <2> QED
    BY <2>1, <2>2, <2>3, NoPicture
<1>p. \A photo \in GooglePhotos : photo \notin Pictures
  BY PeopleAssumption DEF GooglePhotos
<1>2. ASSUME NEW u, RemoveAvatar(r, u) PROVE Pictured'
  BY <1>2, <1>s, NoPicture DEF RemoveAvatar, tables, history
<1>5. ASSUME NEW u, NEW photo \in GooglePhotos, UseGooglePhoto(r, u, photo) PROVE Pictured'
  <2> DEFINE new == [Sent("useGooglePhoto", "previous", u, None) EXCEPT !.picture = photo]
  <2>1. req' = [req EXCEPT ![r] = new]
    BY <1>5 DEF UseGooglePhoto
  <2>2. new.picture \notin Pictures /\ new.previous \notin Pictures
    BY <1>p, PeopleAssumption DEF Sent
  <2> HIDE DEF new
  <2> QED
    BY <1>5, <2>1, <2>2, NoPicture DEF UseGooglePhoto, tables, history
<1>6. ASSUME NEW u, NEW photo \in GooglePhotos, GoogleSignIn(r, u, photo) PROVE Pictured'
  <2> DEFINE synced == profile[u].avatar \in GooglePhotos /\ profile[u].avatar # photo
             picture == IF synced THEN photo ELSE None
             new == [Sent("googleSignIn", "sync", u, None) EXCEPT !.picture = picture]
  <2>1. picture \notin Pictures
    BY <1>p, PeopleAssumption
  <2>2. \/ req' = [req EXCEPT ![r] = Sent("googleSignIn", "done", u, None)]
        \/ req' = [req EXCEPT ![r] = new]
    BY <1>6 DEF GoogleSignIn
  <2> HIDE DEF picture
  <2>3. new.picture \notin Pictures /\ new.previous \notin Pictures
    BY <2>1, PeopleAssumption DEF Sent
  <2> HIDE DEF new
  <2> QED
    BY <1>6, <1>s, <2>2, <2>3, NoPicture DEF GoogleSignIn, tables, history
<1>7. CASE SyncProfile(r)
  <2>1. /\ req[r] # None /\ req[r].step = "sync" /\ req[r] \in Request /\ Held(req[r])
    BY <1>7 DEF SyncProfile, At, Typed, Requested, Sound, Pictured, PicturesAreHeld
  <2>2. req[r].picture \notin Pictures /\ req[r].picture \in Avatars /\ req[r].who \in Users
    BY <2>1 DEF Held, Request
  <2>u. PICK u \in Users : u = req[r].who
    BY <2>2
  <2>3. PICK row : row = Synced(profile[u], req[r].picture)
    OBVIOUS
  <2>4. row.avatar = profile[u].avatar \/ row.avatar \notin Pictures
    BY <1>r, <2>2, <2>3, RowIsSynced
  <2>5. profile' = [profile EXCEPT ![u] = row]
    BY <1>7, <2>u, <2>3 DEF SyncProfile
  <2>6. \A v \in Users : profile'[v].avatar = profile[v].avatar \/ profile'[v].avatar \notin Pictures
    BY <2>4, <2>5 DEF Typed, TypeOK
  <2>7. req' = [req EXCEPT ![r] = Done(r)]
    BY <1>7 DEF SyncProfile, Goto
  <2>8. Done(r).picture \notin Pictures /\ Done(r).previous \notin Pictures
    BY PeopleAssumption DEF Done, Sent
  <2>9. UNCHANGED <<given, files, history>>
    BY <1>7 DEF SyncProfile
  <2> QED
    BY <2>6, <2>7, <2>8, <2>9, NoPicture DEF history
<1>3. ASSUME NEW u \in Users, VisibilityChanged(r, u) PROVE Pictured'
  <2>1. \A v \in Users : profile'[v].avatar = profile[v].avatar
    <3>1. profile' = [profile EXCEPT ![u] = [profile[u] EXCEPT !.hidden = ~@]]
      BY <1>3 DEF VisibilityChanged
    <3> QED
      BY <1>r, <3>1 DEF Typed, TypeOK
  <2> QED
    BY <1>3, <1>s, <2>1, NoPicture DEF VisibilityChanged, history
<1>4. ASSUME NEW u \in Users, EraseFiles(r, u) PROVE Pictured'
  <2>1. /\ UNCHANGED <<profile, given, confirmed>> /\ erased' = erased \cup {u}
        /\ \A p \in Pictures : p \in files => p \in files' \/ given[p] \in erased'
    BY <1>4 DEF EraseFiles, tables
  <2>2. PICK new : /\ req' = [req EXCEPT ![r] = new]
                   /\ new.picture \notin Pictures /\ new.previous \notin Pictures
    <3>1. CASE req' = [req EXCEPT ![r] = Sent("erase", "done", u, None)]
      BY <1>s, <3>1
    <3>2. CASE req' = [req EXCEPT ![r] = [Sent("erase", "forget", u, None)
                                            EXCEPT !.drop = << <<"profile", u>> >>]]
      BY <1>s, <3>2
    <3> QED
      BY <1>4, <3>1, <3>2 DEF EraseFiles
  <2> QED
    BY <2>1, <2>2, NoPicture
<1> QED
  BY <1>1, <1>2, <1>3, <1>4, <1>5, <1>6, <1>7, UploadIsUsed, PreviousIsRead, PictureIsReplaced, FileIsRemoved
     DEF Profiles

(* A picture a profile names is there as long as the app asked for it once *)
(* and nobody erased the account's files, whatever requests of the same    *)
(* account interleave (AvatarService.useUpload, replace, remove).          *)
THEOREM PicturesAreThere == Spec => []PictureIsThere
<1>1. Init => Pictured
  <2> SUFFICES ASSUME Init PROVE Pictured
    OBVIOUS
  <2>1. \A u \in Users : profile[u].avatar \notin Pictures
    BY PeopleAssumption DEF Init
  <2> QED
    BY <2>1 DEF Init, Pictured, PicturesAreHeld, Worn, ToSet, HasReplaced, PictureIsThere
<1>2. Typed /\ Pictured /\ [Next]_vars => Pictured'
  <2> SUFFICES ASSUME Typed, Pictured, [Next]_vars PROVE Pictured'
    OBVIOUS
  <2>0. ASSUME UNCHANGED <<profile, req, confirmed, erased>>, files \subseteq files',
               \A p \in Pictures, u \in Users : given[p] = u => given'[p] = u
        PROVE  Pictured'
    <3>1. Worn' /\ PictureIsThere'
      BY <2>0 DEF Pictured, PicturesAreHeld, Worn, Mine, PictureIsThere
    <3>2. ASSUME NEW s \in Requests, req'[s] # None PROVE Held(req[s])'
      <4>1. Held(req[s]) /\ req[s].who \in Users
        BY <2>0, <3>2 DEF Pictured, PicturesAreHeld, Typed, Requested, Sound, Request
      <4> QED
        BY <2>0, <4>1 DEF Held, Mine
    <3>3. ASSUME NEW s \in Requests, NEW p \in Pictures, ToSet(s, p)' PROVE Unused(s, p)'
      BY <2>0, <3>3 DEF ToSet, Unused, NobodyWears, Pictured, PicturesAreHeld
    <3>4. ASSUME NEW s \in Requests, NEW p \in Pictures, HasReplaced(s, p)'
          PROVE  NobodyWears(p)'
      BY <2>0, <3>4 DEF HasReplaced, NobodyWears, Pictured, PicturesAreHeld
    <3> QED
      BY <3>1, <3>2, <3>3, <3>4 DEF Pictured, PicturesAreHeld
  <2>1. ASSUME NEW r \in Requests, CacheNext(r) PROVE Pictured'
    BY <2>1, CacheKeepsPictures
  <2>2. ASSUME NEW r \in Requests,
               BlockRequests(r) \/ FollowRequests(r) \/ Profiles(r) \/ Reporting(r)
        PROVE  Pictured'
    BY <2>2, OthersKeepPictures, ProfilesKeepPictures
  <2>3. ASSUME NEW k \in Keys, Expire(k) PROVE Pictured'
    BY <2>0, <2>3 DEF Expire, tables, history
  <2>4. ASSUME NEW u \in Users, NEW p \in Pictures, CreateUpload(u, p) PROVE Pictured'
    <3>1. \A q \in Pictures, v \in Users : given[q] = v => given'[q] = v
      BY <2>4, PeopleAssumption DEF CreateUpload, Typed, TypeOK
    <3> QED
      BY <2>0, <2>4, <3>1 DEF CreateUpload, tables, history
  <2>5. ASSUME NEW p \in Pictures, Upload(p) PROVE Pictured'
    BY <2>0, <2>5 DEF Upload, tables, history
  <2>6. CASE UNCHANGED vars
    BY <2>0, <2>6 DEF vars
  <2> QED
    BY <2>1, <2>2, <2>3, <2>4, <2>5, <2>6 DEF Next
<1>3. Pictured => PictureIsThere
  BY DEF Pictured
<1> QED
  BY <1>1, <1>2, <1>3, InitTyped, StaysTyped, PTL DEF Spec
=============================================================================
