-------------------------------- MODULE Calls --------------------------------
(***************************************************************************)
(* One-to-one voice calls of the chat service: the live-call keys in       *)
(* Redis, shared by every instance (chat/src/calls/call.store.ts), the     *)
(* rules over them (calls.service.ts), the connections that come and go    *)
(* (calls.gateway.ts), and the call_logs rows.                             *)
(*                                                                         *)
(* A handler is one event being served: "invite", "accept", "decline",     *)
(* "hangup", a closed connection, a ring timer going off.  Each action is  *)
(* one Redis command (a multi is one) or one statement, with the code up   *)
(* to the next await.                                                      *)
(***************************************************************************)
EXTENDS Naturals, FiniteSets

CONSTANTS
    People,
    Sockets,      \* connections, one per device
    CallIds,      \* chosen by the caller's app
    Handlers,     \* events served at once
    None,         \* null
    OwnerOf,      \* whose connection a socket is
    CallerOf,     \* who invites with a call id
    CalleeOf,     \* and whom
    Retried,      \* call ids whose invite the app may send again
    Crashes       \* whether an instance may die

ASSUME CallsAssumption ==
    /\ OwnerOf \in [Sockets -> People]
    /\ CallerOf \in [CallIds -> People]
    /\ CalleeOf \in [CallIds -> People]
    /\ Retried \subseteq CallIds
    /\ Crashes \in BOOLEAN
    /\ None \notin People \cup Sockets \cup CallIds

VARIABLES
    call,      \* call:<id>
    busy,      \* call:busy:<person>
    bound,     \* call:socket:<socket>
    closed,    \* connections that are gone
    timers,    \* calls whose ring timer runs, on the instance that served the invite
    log,       \* call_logs
    handler,   \* the events being served
    ends       \* how often listeners were told that a call ended, up to 2

vars == <<call, busy, bound, closed, timers, log, handler, ends>>

Reasons == {"ended", "declined", "missed", "cancelled", "disconnected"}

LiveCall == [status : {"none", "ringing", "active"},
             callerSocket : Sockets \cup {None},
             calleeSocket : Sockets \cup {None}]

NoCall == [status |-> "none", callerSocket |-> None, calleeSocket |-> None]

LogRow == [status : {"none", "ringing", "active", "ended"},
           endReason : Reasons \cup {None}]

Steps == {"idle", "claimCaller", "claimCallee", "unclaim", "store", "log",
          "bind", "logAnswer", "lookup", "finish", "release", "logEnd", "announce"}

Handler == [step : Steps,
            id : CallIds \cup {None},
            socket : Sockets \cup {None},   \* the connection the event came from
            read : LiveCall,                \* the call as it was read
            reason : Reasons \cup {None},   \* None: a failed invite, ended unannounced
            held : SUBSET {"caller", "callee", "callerSocket", "calleeSocket"}]

Idle == [step |-> "idle", id |-> None, socket |-> None, read |-> NoCall,
         reason |-> None, held |-> {}]

TypeOK ==
    /\ call \in [CallIds -> LiveCall]
    /\ busy \in [People -> CallIds \cup {None}]
    /\ bound \in [Sockets -> CallIds \cup {None}]
    /\ closed \in SUBSET Sockets
    /\ timers \in SUBSET CallIds
    /\ log \in [CallIds -> LogRow]
    /\ handler \in [Handlers -> Handler]
    /\ ends \in [CallIds -> 0 .. 2]

Init ==
    /\ call = [c \in CallIds |-> NoCall]
    /\ busy = [p \in People |-> None]
    /\ bound = [s \in Sockets |-> None]
    /\ closed = {}
    /\ timers = {}
    /\ log = [c \in CallIds |-> [status |-> "none", endReason |-> None]]
    /\ handler = [h \in Handlers |-> Idle]
    /\ ends = [c \in CallIds |-> 0]

-----------------------------------------------------------------------------
Goto(h, step) == handler' = [handler EXCEPT ![h] = [@ EXCEPT !.step = step]]
Done(h) == handler' = [handler EXCEPT ![h] = Idle]
At(h, step) == handler[h].step = step

Unattended(c) == \A h \in Handlers : handler[h].id # c
Exists(c) == call[c].status # "none"
HasKeys(c) == \/ Exists(c)
              \/ \E p \in People : busy[p] = c
              \/ \E s \in Sockets : bound[s] = c

(* Nothing is left of any invite with this id.                             *)
Unused(c) == Unattended(c) /\ ~HasKeys(c) /\ log[c].status = "none" /\ ends[c] = 0

PartyOf(c, s) == OwnerOf[s] \in {CallerOf[c], CalleeOf[c]}

-----------------------------------------------------------------------------
(* call:invite.  The lookups of both people and of blocks come first and   *)
(* only refuse.                                                            *)
BeginInvite(h, c, s) ==
    /\ At(h, "idle")
    /\ s \notin closed
    /\ OwnerOf[s] = CallerOf[c]
    /\ CallerOf[c] # CalleeOf[c]
    /\ c \in Retried \/ Unused(c)
    /\ handler' = [handler EXCEPT ![h] =
                     [Idle EXCEPT !.step = "claimCaller", !.id = c, !.socket = s,
                        !.read = [status |-> "ringing", callerSocket |-> s,
                                  calleeSocket |-> None]]]
    /\ UNCHANGED <<call, busy, bound, closed, timers, log, ends>>

(* SET ... NX on the caller's busy key, then on the callee's.              *)
Claim(h, step, person, next, otherwise) ==
    /\ At(h, step)
    /\ \/ /\ busy[person] = None
          /\ busy' = [busy EXCEPT ![person] = handler[h].id]
          /\ Goto(h, next)
       \/ /\ busy[person] # None
          /\ UNCHANGED busy
          /\ IF otherwise = "idle" THEN Done(h) ELSE Goto(h, otherwise)
    /\ UNCHANGED <<call, bound, closed, timers, log, ends>>

ClaimCaller(h) ==
    At(h, "claimCaller") /\ Claim(h, "claimCaller", CallerOf[handler[h].id], "claimCallee", "idle")

ClaimCallee(h) ==
    At(h, "claimCallee") /\ Claim(h, "claimCallee", CalleeOf[handler[h].id], "store", "unclaim")

(* DELETE_IF_EQUAL on a busy key.                                          *)
BusyWithout(person, c) ==
    IF busy[person] = c THEN [busy EXCEPT ![person] = None] ELSE busy

Unclaim(h) ==
    /\ At(h, "unclaim")
    /\ busy' = BusyWithout(CallerOf[handler[h].id], handler[h].id)
    /\ Done(h)
    /\ UNCHANGED <<call, bound, closed, timers, log, ends>>

StoreCall(h) ==
    LET c == handler[h].id
        s == handler[h].socket
    IN  /\ At(h, "store")
        /\ call' = [call EXCEPT ![c] = handler[h].read]
        /\ bound' = [bound EXCEPT ![s] = c]
        /\ Goto(h, "log")
        /\ UNCHANGED <<busy, closed, timers, log, ends>>

(* A fault: a call that could not be logged is not taken back.             *)
LogInviteOrNot(h) ==
    LET c == handler[h].id
    IN  /\ At(h, "log")
        /\ \/ /\ log[c].status = "none"
              /\ log' = [log EXCEPT ![c] = [@ EXCEPT !.status = "ringing"]]
              /\ timers' = timers \cup {c}
           \/ UNCHANGED <<log, timers>>
        /\ Done(h)
        /\ UNCHANGED <<call, busy, bound, closed, ends>>

(* call_logs.create; then the callee is told and the timer set.  A second  *)
(* row of the same id, or a failing database, takes the call back.         *)
LogInvite(h) ==
    LET c == handler[h].id
    IN  /\ At(h, "log")
        /\ \/ /\ log[c].status = "none"
              /\ log' = [log EXCEPT ![c] = [@ EXCEPT !.status = "ringing"]]
              /\ timers' = timers \cup {c}
              /\ Done(h)
           \/ Goto(h, "finish") /\ UNCHANGED <<log, timers>>
        /\ UNCHANGED <<call, busy, bound, closed, ends>>

-----------------------------------------------------------------------------
(* call:accept on connection s.  The callee knows of the call once it was  *)
(* announced, which is after it was logged.                                *)
BeginAccept(h, c, s) ==
    /\ At(h, "idle")
    /\ s \notin closed
    /\ OwnerOf[s] = CalleeOf[c]
    /\ log[c].status # "none"
    /\ call[c].status = "ringing"
    /\ handler' = [handler EXCEPT ![h] =
                     [Idle EXCEPT !.step = "bind", !.id = c, !.socket = s,
                                  !.read = call[c]]]
    /\ UNCHANGED <<call, busy, bound, closed, timers, log, ends>>

(* A fault: the call is set whether or not it is still there (no XX).      *)
BindAnswerAnyway(h) ==
    LET c == handler[h].id
        answered == [handler[h].read EXCEPT !.status = "active",
                                            !.calleeSocket = handler[h].socket]
    IN  /\ At(h, "bind")
        /\ call' = [call EXCEPT ![c] = answered]
        /\ bound' = [s \in Sockets |->
                       IF s \in {answered.callerSocket, answered.calleeSocket}
                       THEN c ELSE bound[s]]
        /\ timers' = timers \ {c}
        /\ Goto(h, "logAnswer")
        /\ UNCHANGED <<busy, closed, log, ends>>

(* CallStore.update: the call is set only if it is still there (XX), the   *)
(* socket keys in any case.  Then the ring timer is cleared, if it runs on *)
(* this instance.                                                          *)
BindAnswer(h) ==
    LET c == handler[h].id
        answered == [handler[h].read EXCEPT !.status = "active",
                                            !.calleeSocket = handler[h].socket]
    IN  /\ At(h, "bind")
        /\ call' = IF Exists(c) THEN [call EXCEPT ![c] = answered] ELSE call
        /\ bound' = [s \in Sockets |->
                       IF s \in {answered.callerSocket, answered.calleeSocket}
                       THEN c ELSE bound[s]]
        /\ timers' \in {timers, timers \ {c}}
        /\ Goto(h, "logAnswer")
        /\ UNCHANGED <<busy, closed, log, ends>>

(* The row becomes active (a failure is only logged), the callee's other   *)
(* phones stop ringing and the accept is answered "ok".                    *)
LogAnswer(h) ==
    LET c == handler[h].id
    IN  /\ At(h, "logAnswer")
        /\ log' \in {log, [log EXCEPT ![c] = [@ EXCEPT !.status = "active"]]}
        /\ Done(h)
        /\ UNCHANGED <<call, busy, bound, closed, timers, ends>>

-----------------------------------------------------------------------------
(* Ending.  Every way reads the call first and ends what it read.          *)

EndWhatWasRead(h, c, s, reason) ==
    handler' = [handler EXCEPT ![h] =
                  [Idle EXCEPT !.step = "finish", !.id = c, !.socket = s,
                               !.read = call[c], !.reason = reason]]

(* call:hangup by either person, and call:decline by the callee.           *)
BeginHangUp(h, c, s) ==
    /\ At(h, "idle")
    /\ s \notin closed
    /\ Exists(c)
    /\ PartyOf(c, s)
    /\ OwnerOf[s] = CalleeOf[c] => log[c].status # "none"
    /\ EndWhatWasRead(h, c, s,
         IF call[c].status = "active" THEN "ended"
         ELSE IF OwnerOf[s] = CallerOf[c] THEN "cancelled" ELSE "declined")
    /\ UNCHANGED <<call, busy, bound, closed, timers, log, ends>>

RingTimedOut(h, c) ==
    /\ At(h, "idle")
    /\ c \in timers
    /\ timers' = timers \ {c}
    /\ IF call[c].status = "ringing"
       THEN EndWhatWasRead(h, c, None, "missed")
       ELSE UNCHANGED handler
    /\ UNCHANGED <<call, busy, bound, closed, log, ends>>

(* A connection closes; the call it is bound to is looked up ...           *)
SocketGone(h, s) ==
    /\ At(h, "idle")
    /\ s \notin closed
    /\ closed' = closed \cup {s}
    /\ IF bound[s] = None THEN UNCHANGED handler
       ELSE handler' = [handler EXCEPT ![h] =
                          [Idle EXCEPT !.step = "lookup", !.id = bound[s], !.socket = s]]
    /\ UNCHANGED <<call, busy, bound, timers, log, ends>>

(* ... then read, and ended unless another device may still answer it.     *)
EndCallOfSocket(h) ==
    LET c == handler[h].id
        s == handler[h].socket
    IN  /\ At(h, "lookup")
        /\ IF call[c].status = "active" THEN EndWhatWasRead(h, c, s, "disconnected")
           ELSE IF call[c].status = "ringing" /\ call[c].callerSocket = s
           THEN EndWhatWasRead(h, c, s, "cancelled")
           ELSE Done(h)
        /\ UNCHANGED <<call, busy, bound, closed, timers, log, ends>>

-----------------------------------------------------------------------------
(* A fault: every handler that ends a call goes on, as if it deleted it.   *)
FinishCallAlways(h) ==
    /\ At(h, "finish")
    /\ call' = [call EXCEPT ![handler[h].id] = NoCall]
    /\ Goto(h, "release")
    /\ UNCHANGED <<busy, bound, closed, timers, log, ends>>

(* CallStore.finish: only the handler that deletes the call goes on.       *)
FinishCall(h) ==
    LET c == handler[h].id
        keys == {"caller", "callee", "callerSocket"}
                  \cup IF handler[h].read.calleeSocket = None THEN {} ELSE {"calleeSocket"}
    IN  /\ At(h, "finish")
        /\ \/ /\ Exists(c)
              /\ call' = [call EXCEPT ![c] = NoCall]
              /\ handler' = [handler EXCEPT ![h] = [@ EXCEPT !.step = "release", !.held = keys]]
           \/ ~Exists(c) /\ Done(h) /\ UNCHANGED call
        /\ UNCHANGED <<busy, bound, closed, timers, log, ends>>

BoundWithout(s, c) ==
    IF bound[s] = c THEN [bound EXCEPT ![s] = None] ELSE bound

(* One DELETE_IF_EQUAL of those sent together.                             *)
ReleaseKey(h, k) ==
    LET c == handler[h].id
        read == handler[h].read
    IN  /\ At(h, "release")
        /\ k \in handler[h].held
        /\ busy' = CASE k = "caller" -> BusyWithout(CallerOf[c], c)
                     [] k = "callee" -> BusyWithout(CalleeOf[c], c)
                     [] OTHER -> busy
        /\ bound' = CASE k = "callerSocket" -> BoundWithout(read.callerSocket, c)
                      [] k = "calleeSocket" -> BoundWithout(read.calleeSocket, c)
                      [] OTHER -> bound
        /\ handler' = [handler EXCEPT ![h] = [@ EXCEPT !.held = handler[h].held \ {k}]]
        /\ UNCHANGED <<call, closed, timers, log, ends>>

(* A fault: the end goes on without the releases, which are lost.          *)
ReleasedEarly(h) ==
    /\ At(h, "release")
    /\ IF handler[h].reason = None
       THEN Done(h) /\ UNCHANGED timers
       ELSE Goto(h, "logEnd") /\ timers' = timers \ {handler[h].id}
    /\ UNCHANGED <<call, busy, bound, closed, log, ends>>

(* All released: a failed invite is answered, an ended call recorded.      *)
Released(h) ==
    LET c == handler[h].id
    IN  /\ At(h, "release")
        /\ handler[h].held = {}
        /\ IF handler[h].reason = None
           THEN Done(h) /\ UNCHANGED timers
           ELSE Goto(h, "logEnd") /\ timers' \in {timers, timers \ {c}}
        /\ UNCHANGED <<call, busy, bound, closed, log, ends>>

(* The row is ended; without a row, or a database, that is only logged.    *)
LogEnd(h) ==
    LET c == handler[h].id
        row == [status |-> "ended", endReason |-> handler[h].reason]
    IN  /\ At(h, "logEnd")
        /\ log' \in {log} \cup
             IF log[c].status = "none" THEN {} ELSE {[log EXCEPT ![c] = row]}
        /\ Goto(h, "announce")
        /\ UNCHANGED <<call, busy, bound, closed, timers, ends>>

(* call:ended goes to both, the callee on every device.                    *)
AnnounceEnd(h) ==
    LET c == handler[h].id
    IN  /\ At(h, "announce")
        /\ ends' = [ends EXCEPT ![c] = IF @ = 2 THEN 2 ELSE @ + 1]
        /\ Done(h)
        /\ UNCHANGED <<call, busy, bound, closed, timers, log>>

-----------------------------------------------------------------------------
(* An instance dies: the handlers it served and the timers it kept are     *)
(* gone.  Which of them it is depends on where they ran.                   *)
LoseHandler(h) ==
    /\ Crashes
    /\ ~At(h, "idle")
    /\ Done(h)
    /\ UNCHANGED <<call, busy, bound, closed, timers, log, ends>>

LoseTimer(c) ==
    /\ Crashes
    /\ c \in timers
    /\ timers' = timers \ {c}
    /\ UNCHANGED <<call, busy, bound, closed, log, handler, ends>>

(* The keys of a call were set together with one time to live, 60 s while  *)
(* it rings and 4 h once it is answered, and run out together.  The ring   *)
(* timer (45 s) and the end it starts are sooner than that, and so are the *)
(* rest of the invite that claims the keys and of their release.           *)
Occupied(c) == \E h \in Handlers :
    /\ handler[h].id = c
    /\ \/ handler[h].step \in {"claimCallee", "unclaim", "store", "log", "release"}
       \/ handler[h].step = "finish" /\ handler[h].reason \in {None, "missed"}

(* A fault: only the call has a time to live, the busy keys have none.     *)
ExpireCall(c) ==
    /\ HasKeys(c)
    /\ c \notin timers
    /\ ~Occupied(c)
    /\ call' = [call EXCEPT ![c] = NoCall]
    /\ UNCHANGED <<busy, bound, closed, timers, log, handler, ends>>

Expire(c) ==
    /\ HasKeys(c)
    /\ c \notin timers
    /\ ~Occupied(c)
    /\ call' = [call EXCEPT ![c] = NoCall]
    /\ busy' = [p \in People |-> IF busy[p] = c THEN None ELSE busy[p]]
    /\ bound' = [s \in Sockets |-> IF bound[s] = c THEN None ELSE bound[s]]
    /\ UNCHANGED <<closed, timers, log, handler, ends>>

(* What a handler does on its own once begun.                              *)
Proceed(h) ==
    \/ ClaimCaller(h)
    \/ ClaimCallee(h)
    \/ Unclaim(h)
    \/ StoreCall(h)
    \/ LogInvite(h)
    \/ BindAnswer(h)
    \/ LogAnswer(h)
    \/ EndCallOfSocket(h)
    \/ FinishCall(h)
    \/ \E k \in {"caller", "callee", "callerSocket", "calleeSocket"} : ReleaseKey(h, k)
    \/ Released(h)
    \/ LogEnd(h)
    \/ AnnounceEnd(h)

Next ==
    \/ \E h \in Handlers :
          \/ Proceed(h)
          \/ \E c \in CallIds, s \in Sockets : BeginInvite(h, c, s)
          \/ \E c \in CallIds, s \in Sockets : BeginAccept(h, c, s)
          \/ \E c \in CallIds, s \in Sockets : BeginHangUp(h, c, s)
          \/ \E c \in CallIds : RingTimedOut(h, c)
          \/ \E s \in Sockets : SocketGone(h, s)
          \/ LoseHandler(h)
    \/ \E c \in CallIds : LoseTimer(c) \/ Expire(c)

Spec == Init /\ [][Next]_vars

(* A handler that has begun goes on, a timer that runs goes off, and a key *)
(* with a time to live runs out.  That the last two are strong is for the  *)
(* model's sake: here a timer waits for a free handler and a call can be   *)
(* attended to again and again, time waits for neither.                    *)
FairSpec ==
    /\ Spec
    /\ \A h \in Handlers : WF_vars(Proceed(h))
    /\ \A c \in CallIds : SF_vars(\E h \in Handlers : RingTimedOut(h, c))
    /\ \A c \in CallIds : SF_vars(Expire(c))

-----------------------------------------------------------------------------
(* Safety.                                                                 *)

(* "One call per person at a time", however invites, answers, endings,     *)
(* crashes and expiries of several calls interleave.                       *)
OneCallPerPerson ==
    \A c, d \in CallIds :
        Exists(c) /\ Exists(d) /\ c # d =>
            {CallerOf[c], CalleeOf[c]} \cap {CallerOf[d], CalleeOf[d]} = {}

(* Calls does what CallLines promises: no answer, end, retry or key that    *)
(* expires, however late it comes, brings a call back or joins two.        *)
Line == [c \in CallIds |-> call[c].status]

Lines == INSTANCE CallLines WITH line <- Line

ImplementsLines == Lines!Spec

(* "Ends once, however many ways it is ended at the same time."  An invite *)
(* sent again after the end claims the id anew, and is taken back then.    *)
EndedOnce == \A c \in CallIds \ Retried : ends[c] <= 1

(* While no instance dies, nobody stays busy with a call that is over once *)
(* the handlers at work are done.                                          *)
NobodyLeftBusy ==
    ~Crashes => \A p \in People : busy[p] # None =>
        Exists(busy[p]) \/ ~Unattended(busy[p])

(* While no instance dies, a call that rings and that no handler is        *)
(* working on has a timer that will stop it.                               *)
RingingHasTimer ==
    ~Crashes => \A c \in CallIds :
        /\ c \notin Retried
        /\ call[c].status = "ringing"
        /\ Unattended(c)
        => c \in timers

(* "A forgotten call cannot keep anyone busy for ever": whatever dies,     *)
(* everyone is free of any one call some day.                              *)
NobodyBusyForEver ==
    \A p \in People, c \in CallIds : busy[p] = c ~> busy[p] # c

=============================================================================
