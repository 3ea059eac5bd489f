---------------------------- MODULE Notification ----------------------------
(***************************************************************************)
(* Pushes (notification/src): the devices an account can be reached on,    *)
(* the sign-outs that forget them, promotions to everyone, and the pushes  *)
(* other services ask for.                                                 *)
(*                                                                         *)
(* A request is a record in "req", used once; a record in "run" sends one  *)
(* promotion.  Each action is one call to the database or to Firebase with *)
(* the code up to the next await.                                          *)
(***************************************************************************)
EXTENDS Integers, FiniteSets

CONSTANTS
    Users,
    Sessions,     \* signed-in devices; a token from before sessions has Nil
    AccountOf,      \* whose session
    Tokens,       \* Firebase tokens
    Android,      \* those of Android phones
    Ids,          \* ids of rows, in their order; 0 is before them all
    Promotions,
    Instances,    \* of this service
    Requests, Runs,
    MaxDevices,   \* MAX_DEVICES_PER_USER
    PageSize,     \* PushSender.maxBatch
    Mixes,        \* bound: the sets of operations that meet
    FirstRows,    \* bound: what is registered at first where devices do not register freely
    Nil

Row == [id : Ids, user : Users, session : Sessions \cup {Nil}]
Promotion == [status : {"queued", "sending", "sent", "failed"}, sent : Nat, failed : Nat]
Request == [op : {"register", "signIn", "ring", "stop"},
            step : {"upsert", "find", "forget", "warn", "targets", "deliver", "done"},
            user : Users, session : Sessions \cup {Nil}, token : Tokens \cup {Nil},
            ids : SUBSET Ids,      \* rows to forget
            to : SUBSET Tokens]    \* targets that were read
Run == [in : Instances, promo : Promotions, step : {"claim", "page", "deliver", "forget", "count", "finish", "done"},
        after : Nat, page : SUBSET Ids, gone : SUBSET Ids, full : BOOLEAN, sent : Nat, failed : Nat]

(* A token has one row, and an id is of one row.                           *)
Table == {rows \in [Tokens -> Row \cup {Nil}] :
            \A t, x \in Tokens : t # x /\ rows[t] # Nil /\ rows[x] # Nil => rows[t].id # rows[x].id}

ASSUME NotificationAssumption ==
    /\ AccountOf \in [Sessions -> Users]
    /\ Android \subseteq Tokens
    /\ Ids \subseteq Nat \ {0} /\ IsFiniteSet(Ids)
    /\ MaxDevices \in Nat \ {0} /\ PageSize \in Nat \ {0}
    /\ \A rows \in FirstRows : rows \in Table
    /\ Nil \notin Sessions \cup Users \cup Tokens \cup Row \cup Promotion \cup Request \cup Run

VARIABLES
    device,   \* push_devices by token
    newer,    \* by token, those that were updated after it
    spent,    \* ids that were given, never given again
    off,      \* who turned promotions off
    hidden,   \* users.deactivated_at is set
    revoked,  \* sessions:revoked
    unheard,  \* sign-outs that were published and not yet heard
    promo,    \* promotions
    req, run,
    mix,      \* bound: which operations meet
    phone,    \* what each phone shows of the call: "quiet", "rings", "missed"
    aCall,    \* the call: "none", "rings", "ended", "unanswered"
    pushed,   \* how often each row was sent each promotion
    audience, \* rows that could be sent it ever since it was begun
    warned,   \* tokens that were told of the new sign-in, or could not be
    late,     \* tokens registered by a session that was signed out meanwhile
    missed,   \* sessions whose sign-out was lost or not carried out
    latest,   \* what each account registered last and did not remove
    touched,  \* tokens registered again while they were about to be dropped
    apart     \* the call's pushes overtook each other, or did not reach a phone

(* What history holds only remembers.                                      *)
table == <<device, newer, spent>>
accounts == <<off, hidden, revoked, unheard>>
history == <<pushed, audience, warned, late, missed, latest, touched, apart>>
sending == <<promo, run>>
calling == <<phone, aCall>>
pushVars == <<table, accounts, sending, calling, req, mix, history>>

(* The devices that are registered.                                        *)
There == {t \in Tokens : device[t] # Nil}

PushTypeOK ==
    /\ device \in Table
    /\ newer \in [Tokens -> SUBSET Tokens]
    /\ \A t \in Tokens : device[t] = Nil => newer[t] = {}
    /\ \A t \in Tokens : t \notin newer[t] /\ \A x \in newer[t] : device[x] # Nil /\ newer[x] \subseteq newer[t]
    /\ \A t, x \in There : t = x \/ x \in newer[t] \/ t \in newer[x]
    /\ spent \subseteq Ids /\ off \subseteq Users /\ hidden \subseteq Users
    /\ unheard \subseteq revoked /\ revoked \subseteq Sessions
    /\ promo \in [Promotions -> Promotion \cup {Nil}]
    /\ req \in [Requests -> Request \cup {Nil}] /\ run \in [Runs -> Run \cup {Nil}]
    /\ phone \in [Tokens -> {"quiet", "rings", "missed"}]
    /\ aCall \in {"none", "rings", "ended", "unanswered"}

PushInit ==
    /\ mix \in Mixes
    /\ IF "register" \in mix THEN device = [t \in Tokens |-> Nil] ELSE device \in FirstRows
    /\ spent = {device[t].id : t \in There}
    /\ newer = [t \in Tokens |-> {x \in There : t \in There /\ device[x].id > device[t].id}]
    /\ off = {} /\ hidden = {} /\ revoked = {} /\ unheard = {}
    /\ promo = [p \in Promotions |-> Nil]
    /\ req = [r \in Requests |-> Nil] /\ run = [k \in Runs |-> Nil]
    /\ phone = [t \in Tokens |-> "quiet"] /\ aCall = "none"
    /\ pushed = [p \in Promotions |-> [i \in Ids |-> 0]]
    /\ audience = [p \in Promotions |-> {}]
    /\ warned = {} /\ late = {} /\ missed = {} /\ touched = {} /\ apart = {}
    /\ latest = [u \in Users |-> Nil]

-----------------------------------------------------------------------------
Asked(op, step, u, s, t) ==
    [op |-> op, step |-> step, user |-> u, session |-> s, token |-> t, ids |-> {}, to |-> {}]
Reached(r, step) == req[r] # Nil /\ req[r].step = step
Answered(r) == Asked(req[r].op, "done", req[r].user, Nil, Nil)

Of(op) == {r \in {x \in Requests : req[x] # Nil} : req[r].op = op}

RowsOf(u) == {t \in There : device[t].user = u}

(* Rows are deleted; a promotion need not reach them any more.             *)
Delete(gone) ==
    /\ device' = [t \in Tokens |-> IF t \in gone THEN Nil ELSE device[t]]
    /\ newer' = [t \in Tokens |-> IF t \in gone THEN {} ELSE newer[t] \ gone]
    /\ audience' = [p \in Promotions |-> audience[p] \ {device[t].id : t \in gone}]

(* They were deleted on purpose.                                           *)
NotLatest(gone) == latest' = [u \in Users |-> IF latest[u] \in gone THEN Nil ELSE latest[u]]

-----------------------------------------------------------------------------
(* Devices.                                                                *)

(* The gateway lets the session pass; a device may be registered again.    *)
(* Bound: "once" lets one device register; with "signOut" all have one.    *)
Register(r, u, s, t) ==
    /\ "register" \in mix \/ ("once" \in mix /\ Of("register") = {})
    /\ req[r] = Nil
    /\ IF s = Nil THEN "signOut" \notin mix ELSE AccountOf[s] = u /\ s \notin revoked
    /\ req' = [req EXCEPT ![r] = Asked("register", "upsert", u, s, t)]
    /\ UNCHANGED <<table, accounts, sending, calling, mix, history>>

(* A fault: a device that is known stays as old as it was.                 *)
OldPlace(t) == [x \in Tokens |-> IF device[x] = Nil THEN {} ELSE newer[x] \cup {t}]

(* It is the one updated last.                                             *)
Place(t) == [x \in Tokens |-> IF x = t \/ device[x] = Nil THEN {} ELSE newer[x] \cup {t}]

(* Rows get random ids; bound: in their order, with "register".            *)
Upsert(r) ==
    /\ Reached(r, "upsert")
    /\ LET t == req[r].token
           u == req[r].user
           s == req[r].session
       IN  /\ \E i \in Ids :
                /\ IF device[t] # Nil THEN i = device[t].id
                   ELSE i \notin spent /\ ("once" \in mix \/ \A j \in Ids \ spent : i <= j)
                /\ device' = [device EXCEPT ![t] = [id |-> i, user |-> u, session |-> s]]
                /\ spent' = spent \cup {i}
           /\ newer' = Place(t)
           /\ late' = IF s \in revoked THEN late \cup {t} ELSE late \ {t}
           /\ latest' = [v \in Users |-> IF v = u THEN t ELSE IF latest[v] = t THEN Nil ELSE latest[v]]
           /\ touched' = IF device[t] # Nil /\ \E q \in {x \in Requests : req[x] # Nil} : device[t].id \in req[q].ids
                          THEN touched \cup {t} ELSE touched
           /\ audience' = IF u \in off \cup hidden
                           THEN [p \in Promotions |-> audience[p] \ {device'[t].id}] ELSE audience
    /\ req' = [req EXCEPT ![r].step = "find"]
    /\ UNCHANGED <<accounts, sending, calling, mix, pushed, warned, missed, apart>>

(* A fault: the newest are dropped.                                        *)
BeyondLimitOldestFirst(mine) == {t \in mine : Cardinality({x \in mine : t \in newer[x]}) >= MaxDevices}

(* updated_at DESC, SKIP MaxDevices                                        *)
BeyondLimit(mine) == {t \in mine : Cardinality(mine \cap newer[t]) >= MaxDevices}

FindOldestBeyondLimit(r) ==
    /\ Reached(r, "find")
    /\ LET extra == BeyondLimit(RowsOf(req[r].user))
       IN  req' = [req EXCEPT ![r] = IF extra = {} THEN Answered(r)
                     ELSE [@ EXCEPT !.step = "forget", !.ids = {device[t].id : t \in extra}]]
    /\ UNCHANGED <<table, accounts, sending, calling, mix, history>>

Forget(r) ==
    /\ Reached(r, "forget")
    /\ Delete({t \in There : device[t].id \in req[r].ids})
    /\ req' = [req EXCEPT ![r] = Answered(r)]
    /\ UNCHANGED <<spent, accounts, sending, calling, mix, pushed, warned, late, missed, latest, touched, apart>>

(* Only the owner can.                                                     *)
Unregister(u, t) ==
    /\ "unregister" \in mix
    /\ t \in RowsOf(u)
    /\ Delete({t}) /\ NotLatest({t})
    /\ UNCHANGED <<spent, accounts, sending, calling, req, mix, pushed, warned, late, missed, touched, apart>>

SignOut(s) ==
    /\ "signOut" \in mix
    /\ s \notin revoked
    /\ revoked' = revoked \cup {s}
    /\ unheard' = unheard \cup {s}
    /\ UNCHANGED <<table, off, hidden, sending, calling, req, mix, history>>

(* A fault: one device of the session.                                     *)
OneOfSession(s) ==
    LET its == {t \in There : device[t].session = s}
    IN  IF its = {} THEN {} ELSE {CHOOSE t \in its : TRUE}

OfSession(s) == {t \in There : device[t].session = s}

(* The service hears of it, if Redis is there, and the database answers.   *)
ForgetSession(s) ==
    /\ s \in unheard
    /\ unheard' = unheard \ {s}
    /\ \/ /\ Delete(OfSession(s)) /\ NotLatest(OfSession(s))
          /\ UNCHANGED missed
       \/ /\ missed' = missed \cup {s}
          /\ UNCHANGED <<device, newer, audience, latest>>
    /\ UNCHANGED <<spent, off, hidden, revoked, sending, calling, req, mix, pushed, warned, late,
                   touched, apart>>

(* Promotions are turned off or on, an account is hidden or shown.         *)
Switch(u) ==
    /\ "switch" \in mix
    /\ \/ /\ off' = IF u \in off THEN off \ {u} ELSE off \cup {u}
          /\ UNCHANGED hidden
       \/ /\ hidden' = IF u \in hidden THEN hidden \ {u} ELSE hidden \cup {u}
          /\ UNCHANGED off
    /\ audience' = [p \in Promotions |-> audience[p] \ {device[t].id : t \in RowsOf(u)}]
    /\ UNCHANGED <<table, revoked, unheard, sending, calling, req, mix, pushed, warned, late, missed,
                   latest, touched, apart>>

Devices ==
    \/ \E r \in Requests :
         \/ \E u \in Users, s \in Sessions \cup {Nil}, t \in Tokens : Register(r, u, s, t)
         \/ Upsert(r) \/ FindOldestBeyondLimit(r) \/ Forget(r)
    \/ \E u \in Users : Switch(u) \/ \E t \in Tokens : Unregister(u, t)
    \/ \E s \in Sessions : SignOut(s) \/ ForgetSession(s)

-----------------------------------------------------------------------------
(* Promotions.                                                             *)

NewRun(i, p) ==
    [in |-> i, promo |-> p, step |-> "claim", after |-> 0, page |-> {}, gone |-> {}, full |-> TRUE,
     sent |-> 0, failed |-> 0]

(* The row is there and a run is begun, or the service stops in between.   *)
Create(k, i, p) ==
    /\ "promotion" \in mix
    /\ run[k] = Nil
    /\ promo[p] = Nil
    /\ promo' = [promo EXCEPT ![p] = [status |-> "queued", sent |-> 0, failed |-> 0]]
    /\ run' = [run EXCEPT ![k] = NewRun(i, p)] \/ UNCHANGED run
    /\ UNCHANGED <<table, accounts, calling, req, mix, history>>

(* The service starts, and finds what is queued.                           *)
ResumeQueued(k, i, p) ==
    /\ run[k] = Nil
    /\ promo[p] # Nil /\ promo[p].status = "queued"
    /\ run' = [run EXCEPT ![k] = NewRun(i, p)]
    /\ UNCHANGED <<table, accounts, promo, calling, req, mix, history>>

(* A fault: whatever its status.                                           *)
ClaimableAlways(p) == TRUE

Claimable(p) == promo[p].status = "queued"

Running(k, step) == run[k] # Nil /\ run[k].step = step
Ended(k) == [NewRun(run[k].in, run[k].promo) EXCEPT !.step = "done"]

(* The rows of those who are sent promotions.                              *)
Allowed == {device[t].id : t \in {x \in There : device[x].user \notin off \cup hidden}}

ClaimPromotion(k) ==
    /\ Running(k, "claim")
    /\ LET p == run[k].promo
       IN  IF Claimable(p)
           THEN /\ promo' = [promo EXCEPT ![p].status = "sending"]
                /\ run' = [run EXCEPT ![k].step = "page"]
                /\ audience' = [audience EXCEPT ![p] = Allowed]
           ELSE /\ run' = [run EXCEPT ![k] = Ended(k)]
                /\ UNCHANGED <<promo, audience>>
    /\ UNCHANGED <<table, accounts, calling, req, mix, pushed, warned, late, missed, latest, touched, apart>>

(* A fault: as many are skipped as were read.                              *)
ReadByCount(all, k) == {i \in all : Cardinality({j \in all : j < i}) >= run[k].sent + run[k].failed}

ReadAfter(all, k) == {i \in all : i > run[k].after}

(* ORDER BY id, TAKE PageSize                                              *)
FirstOf(rest) == {i \in rest : Cardinality({j \in rest : j < i}) < PageSize}

(* The next page.                                                          *)
ReadPage(k) ==
    /\ Running(k, "page")
    /\ LET rest == ReadAfter(Allowed, k)
           page == FirstOf(rest)
       IN  run' = [run EXCEPT ![k] = [@ EXCEPT !.page = page, !.full = Cardinality(page) = PageSize,
                     !.after = IF page = {} THEN run[k].after ELSE CHOOSE i \in page : \A j \in page : j <= i,
                     !.step = IF page = {} THEN "finish" ELSE "deliver"]]
    /\ UNCHANGED <<table, accounts, promo, calling, req, mix, history>>

(* A fault: the counts of the last page.                                   *)
OfLastPage(before, now) == now

Total(before, now) == before + now

(* Firebase answers for each: sent, failed, or gone; an outage fails all.  *)
Outcomes(page) ==
    {x \in [failed : SUBSET page, gone : SUBSET page] : x.gone \subseteq x.failed}

Deliver(k) ==
    /\ Running(k, "deliver")
    /\ \E answer \in Outcomes(run[k].page) :
         run' = [run EXCEPT ![k].sent = Total(@, Cardinality(run[k].page \ answer.failed)),
                   ![k].failed = Total(@, Cardinality(answer.failed)), ![k].gone = answer.gone,
                   ![k].step = "forget"]
    /\ pushed' = [pushed EXCEPT ![run[k].promo] =
                    [i \in Ids |-> IF i \in run[k].page THEN @[i] + 1 ELSE @[i]]]
    /\ UNCHANGED <<table, accounts, promo, calling, req, mix, audience, warned, late, missed, latest, touched,
                   apart>>

(* Those that are gone are forgotten.                                      *)
ForgetGone(k) ==
    /\ Running(k, "forget")
    /\ LET gone == {t \in There : device[t].id \in run[k].gone}
       IN  Delete(gone) /\ NotLatest(gone)
    /\ run' = [run EXCEPT ![k].step = "count", ![k].gone = {}]
    /\ UNCHANGED <<spent, accounts, promo, calling, req, mix, pushed, warned, late, missed, touched, apart>>

(* Then the counts are written.                                            *)
CountPage(k) ==
    /\ Running(k, "count")
    /\ promo' = [promo EXCEPT ![run[k].promo].sent = run[k].sent, ![run[k].promo].failed = run[k].failed]
    /\ run' = [run EXCEPT ![k].step = IF run[k].full THEN "page" ELSE "finish", ![k].page = {}]
    /\ UNCHANGED <<table, accounts, calling, req, mix, history>>

Finish(k) ==
    /\ Running(k, "finish")
    /\ promo' = [promo EXCEPT ![run[k].promo].status = "sent"]
    /\ run' = [run EXCEPT ![k] = Ended(k)]
    /\ UNCHANGED <<table, accounts, calling, req, mix, history>>

(* A query throws: the promotion failed, if that can be written.           *)
Fail(k) ==
    /\ run[k] # Nil /\ run[k].step \in {"claim", "page", "deliver", "forget", "count", "finish"}
    /\ IF run[k].step = "claim" THEN UNCHANGED promo
       ELSE promo' = [promo EXCEPT ![run[k].promo].status = "failed"] \/ UNCHANGED promo
    /\ run' = [run EXCEPT ![k] = Ended(k)]
    /\ UNCHANGED <<table, accounts, calling, req, mix, history>>

(* An instance stops, and all it was sending with it.                      *)
Crash(i) ==
    /\ "promotion" \in mix
    /\ \E k \in Runs : run[k] # Nil /\ run[k].in = i /\ run[k].step # "done"
    /\ run' = [k \in Runs |-> IF run[k] # Nil /\ run[k].in = i THEN Ended(k) ELSE run[k]]
    /\ UNCHANGED <<table, accounts, promo, calling, req, mix, history>>

Promote ==
    \/ \E k \in Runs :
         \/ \E i \in Instances, p \in Promotions :
              ResumeQueued(k, i, p) \/ Create(k, i, p)
         \/ ClaimPromotion(k) \/ ReadPage(k) \/ Deliver(k) \/ ForgetGone(k) \/ CountPage(k)
         \/ Finish(k) \/ Fail(k)
    \/ \E i \in Instances : Crash(i)

-----------------------------------------------------------------------------
(* What other services ask for.                                            *)

(* A fault: a row without a session is left out too.                       *)
OthersWithSession(t, s) == device[t].session \notin {s, Nil}

Others(t, s) == s = Nil \/ device[t].session = Nil \/ device[t].session # s

TargetsOf(u, s) == {t \in RowsOf(u) : u \notin hidden /\ Others(t, s)}

(* A new device signed in: the others are warned.                          *)
NotifySignIn(r, s) ==
    /\ "signIn" \in mix
    /\ req[r] = Nil
    /\ Of("signIn") = {}
    /\ req' = [req EXCEPT ![r] = [Asked("signIn", "warn", AccountOf[s], s, Nil)
                                    EXCEPT !.to = TargetsOf(AccountOf[s], s)]]
    /\ warned' = {t \in Tokens : device[t] = Nil \/ device[t].user # AccountOf[s]
                                 \/ AccountOf[s] \in hidden \/ device[t].session = s}
    /\ UNCHANGED <<table, accounts, sending, calling, mix, pushed, audience, late, missed, latest,
                   touched, apart>>

WarnTargets(r) ==
    /\ Reached(r, "warn")
    /\ warned' = warned \cup req[r].to
    /\ req' = [req EXCEPT ![r] = Answered(r)]
    /\ UNCHANGED <<table, accounts, sending, calling, mix, pushed, audience, late, missed, latest,
                   touched, apart>>

(* Someone calls u, and the call ends; chat asks for a push each time and  *)
(* waits for neither.                                                      *)
CallRinging(r, u) ==
    /\ "call" \in mix
    /\ aCall = "none" /\ req[r] = Nil
    /\ aCall' = "rings"
    /\ req' = [req EXCEPT ![r] = Asked("ring", "targets", u, Nil, Nil)]
    /\ UNCHANGED <<table, accounts, sending, phone, mix, history>>

CallEnded(r, u) ==
    /\ aCall = "rings" /\ req[r] = Nil
    /\ \E q \in Of("ring") : req[q].user = u
    /\ \E how \in {"ended", "unanswered"} : aCall' = how
    /\ req' = [req EXCEPT ![r] = Asked("stop", "targets", u, Nil, Nil)]
    /\ apart' = IF \E q \in Of("ring") : req[q].step # "done" THEN Tokens ELSE apart
    /\ UNCHANGED <<table, accounts, sending, phone, mix, pushed, audience, warned, late, missed, latest, touched>>

ReadTargets(r) ==
    /\ Reached(r, "targets")
    /\ req' = [req EXCEPT ![r].step = "deliver", ![r].to = TargetsOf(req[r].user, Nil)]
    /\ UNCHANGED <<table, accounts, sending, calling, mix, history>>

(* A fault: only a call that was missed needs a word.                      *)
NothingToSay(t) == aCall # "unanswered"

NoPush(t) == t \notin Android /\ aCall # "unanswered"

(* A push stops the ringing on Android; elsewhere a missed call replaces   *)
(* the notification.  Each push may fail on its own.                       *)
DeliverCall(r) ==
    /\ Reached(r, "deliver")
    /\ LET stop == req[r].op = "stop"
       IN  \E failed \in SUBSET req[r].to :
             /\ phone' = [t \in Tokens |->
                  IF t \notin req[r].to \ failed THEN phone[t]
                  ELSE IF ~stop THEN "rings"
                  ELSE IF NoPush(t) THEN phone[t]
                  ELSE IF aCall = "unanswered" THEN "missed" ELSE "quiet"]
             /\ apart' = IF stop THEN apart \cup failed \cup (Tokens \ req[r].to) ELSE apart
    /\ req' = [req EXCEPT ![r] = Answered(r)]
    /\ UNCHANGED <<table, accounts, sending, aCall, mix, pushed, audience, warned, late, missed, latest, touched>>

(* timeToLiveSeconds, and the app's own limit                              *)
RingingTimesOut(t) ==
    /\ phone[t] = "rings"
    /\ phone' = [phone EXCEPT ![t] = "quiet"]
    /\ UNCHANGED <<table, accounts, sending, aCall, req, mix, history>>

Notices ==
    \/ \E r \in Requests :
         \/ \E s \in Sessions : NotifySignIn(r, s)
         \/ \E u \in Users : CallRinging(r, u) \/ CallEnded(r, u)
         \/ WarnTargets(r) \/ ReadTargets(r) \/ DeliverCall(r)
    \/ \E t \in Tokens : RingingTimesOut(t)

PushNext == Devices \/ Promote \/ Notices

PushSpec == PushInit /\ [][PushNext]_pushVars

-----------------------------------------------------------------------------
(* Properties.                                                             *)

(* "A signed-out device must not keep showing the account's notifications" *)
(* (push-devices.service.ts): a session that was signed out has no device, *)
(* or the service is about to hear of it, unless Redis or the database did *)
(* not answer, or it registered just then.                                 *)
SignedOutIsForgotten ==
    \A t \in Tokens :
        device[t] # Nil /\ device[t].session \in revoked \ missed =>
            device[t].session \in unheard \/ t \in late

(* Past the limit the oldest are dropped: what an account registered last  *)
(* still reaches it, unless it was about to be dropped when it registered. *)
NewestIsReachable ==
    \A u \in Users :
        latest[u] # Nil /\ latest[u] \notin touched =>
            device[latest[u]] # Nil /\ device[latest[u]].user = u

(* "two instances (or a repeated start) never send it twice"               *)
(* (promotion-sender.ts): no device is sent a promotion twice, however     *)
(* often the service stops and starts.                                     *)
PromotionOnce == \A p \in Promotions, i \in Ids : pushed[p][i] <= 1

(* "a page is never skipped or read twice while devices come and go"       *)
(* (push-devices.service.ts): a promotion that is sent was sent to every   *)
(* device that was there, of an account that allowed it, all the while.    *)
AudienceIsReached ==
    \A p \in Promotions :
        promo[p] # Nil /\ promo[p].status = "sent" => \A i \in audience[p] : pushed[p][i] = 1

(* What the admin is told of a promotion that is sent is what happened.    *)
CountsAddUp ==
    \A p \in Promotions :
        promo[p] # Nil /\ promo[p].status = "sent" =>
            promo[p].sent + promo[p].failed = Cardinality({i \in Ids : pushed[p][i] > 0})

(* A promotion reaches everyone it is for, once, and says so.              *)
PromotionReachesAll == PromotionOnce /\ AudienceIsReached /\ CountsAddUp

(* A new sign-in is told to every other device of the account, those from  *)
(* before sessions too (sign-in-alert-notifier.ts).                        *)
OthersAreWarned ==
    (\E r \in Of("signIn") : req[r].step = "done") => warned = Tokens

(* An Android phone that was reached does not ring on for a call that is   *)
(* over, unless the two pushes were under way at once (call.push.ts).      *)
RingingStops ==
    \A t \in Android \ apart :
        /\ aCall \in {"ended", "unanswered"}
        /\ \A r \in Of("ring") \cup Of("stop") : req[r].step = "done"
        => phone[t] # "rings"

(* What a push is for reaches the devices it is for.                       *)
PushesReach == NewestIsReachable /\ OthersAreWarned /\ RingingStops

=============================================================================
