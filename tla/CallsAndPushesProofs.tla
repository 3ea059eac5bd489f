------------------------ MODULE CallsAndPushesProofs ------------------------
(***************************************************************************)
(* What holds of Calls for any number of people, devices, calls and        *)
(* handlers, with invites sent again or not and instances dying or not;    *)
(* and of Notification, which chat asks for a push when a call rings and   *)
(* when it ends, for any number of accounts, sessions, devices, promotions,*)
(* runs and requests.                                                      *)
(***************************************************************************)
EXTENDS Calls, Notification, FiniteSetTheorems, WellFoundedInduction, TLAPS

-----------------------------------------------------------------------------
(* Calls: type correctness.                                                *)

(* A handler that has begun works on a call.                               *)
Attending == \A h \in Handlers : handler[h].step # "idle" => handler[h].id \in CallIds

(* Nothing is under way at the start.                                      *)
LEMMA InitTyped == Init => TypeOK /\ Attending
<1> SUFFICES ASSUME Init PROVE TypeOK /\ Attending
  OBVIOUS
<1> USE DEF Init
<1>1. NoCall \in LiveCall
  BY DEF NoCall, LiveCall
<1>2. Idle \in Handler /\ Idle.step = "idle"
  BY <1>1 DEF Idle, Handler, Steps
<1>3. [status |-> "none", endReason |-> None] \in LogRow
  BY DEF LogRow
<1>4. TypeOK
  BY <1>1, <1>2, <1>3 DEF TypeOK
<1>5. Attending
  BY <1>2 DEF Attending
<1> QED
  BY <1>4, <1>5

(* One handler changes, and what it may touch keeps its type.              *)
LEMMA HandlerChanges ==
    ASSUME TypeOK, Attending, NEW h \in Handlers, NEW new \in Handler,
           handler' = [handler EXCEPT ![h] = new],
           new.step # "idle" => new.id \in CallIds,
           call' \in [CallIds -> LiveCall],
           busy' \in [People -> CallIds \cup {None}],
           bound' \in [Sockets -> CallIds \cup {None}],
           closed' \in SUBSET Sockets,
           timers' \in SUBSET CallIds,
           log' \in [CallIds -> LogRow],
           ends' \in [CallIds -> 0 .. 2]
    PROVE  TypeOK' /\ Attending'
<1>1. TypeOK'
  BY DEF TypeOK
<1>2. Attending'
  BY DEF TypeOK, Attending
<1> QED
  BY <1>1, <1>2

(* A handler that only moves on.                                           *)
LEMMA MovesOn ==
    ASSUME NEW old \in Handler, NEW step \in Steps
    PROVE  /\ [old EXCEPT !.step = step] \in Handler
           /\ [old EXCEPT !.step = step].step = step
           /\ [old EXCEPT !.step = step].id = old.id
           /\ [old EXCEPT !.step = step].held = old.held
BY DEF Handler

(* Done and Goto keep the type.                                            *)
LEMMA DoneOrGoto ==
    ASSUME TypeOK, Attending, NEW h \in Handlers,
           \/ Done(h)
           \/ \E step \in Steps : Goto(h, step) /\ ~At(h, "idle"),
           call' \in [CallIds -> LiveCall],
           busy' \in [People -> CallIds \cup {None}],
           bound' \in [Sockets -> CallIds \cup {None}],
           closed' \in SUBSET Sockets,
           timers' \in SUBSET CallIds,
           log' \in [CallIds -> LogRow],
           ends' \in [CallIds -> 0 .. 2]
    PROVE  TypeOK' /\ Attending'
<1>1. CASE Done(h)
  <2>1. Idle \in Handler /\ Idle.step = "idle"
    BY DEF Idle, Handler, NoCall, LiveCall, Steps
  <2> QED
    BY <1>1, <2>1, HandlerChanges DEF Done
<1>2. ASSUME NEW step \in Steps, Goto(h, step), ~At(h, "idle")
      PROVE  TypeOK' /\ Attending'
  <2>1. handler[h] \in Handler
    BY DEF TypeOK
  <2>2. handler[h].id \in CallIds
    BY <1>2 DEF At, Attending
  <2> QED
    BY <1>2, <2>1, <2>2, MovesOn, HandlerChanges DEF Goto
<1> QED
  BY <1>1, <1>2

(* A handler that ends the call it read.                                   *)
LEMMA EndsWhatWasRead ==
    ASSUME TypeOK, NEW h \in Handlers, NEW c \in CallIds, NEW s \in Sockets \cup {None},
           NEW reason \in Reasons
    PROVE  [Idle EXCEPT !.step = "finish", !.id = c, !.socket = s,
                        !.read = call[c], !.reason = reason] \in Handler
<1>1. call[c] \in LiveCall
  BY DEF TypeOK
<1> QED
  BY <1>1 DEF Idle, Handler, Steps

(* Every way to begin keeps the type.                                      *)
LEMMA BeginsTyped ==
    ASSUME TypeOK, Attending, NEW h \in Handlers,
           \/ \E c \in CallIds, s \in Sockets :
                 BeginInvite(h, c, s) \/ BeginAccept(h, c, s) \/ BeginHangUp(h, c, s)
           \/ \E c \in CallIds : RingTimedOut(h, c)
           \/ \E s \in Sockets : SocketGone(h, s)
           \/ EndCallOfSocket(h)
    PROVE  TypeOK' /\ Attending'
<1>0. /\ call \in [CallIds -> LiveCall]
      /\ busy \in [People -> CallIds \cup {None}]
      /\ bound \in [Sockets -> CallIds \cup {None}]
      /\ closed \in SUBSET Sockets
      /\ timers \in SUBSET CallIds
      /\ log \in [CallIds -> LogRow]
      /\ ends \in [CallIds -> 0 .. 2]
  BY DEF TypeOK
<1>1. ASSUME NEW c \in CallIds, NEW s \in Sockets, BeginInvite(h, c, s)
      PROVE  TypeOK' /\ Attending'
  <2> DEFINE ringing == [status |-> "ringing", callerSocket |-> s, calleeSocket |-> None]
             new == [Idle EXCEPT !.step = "claimCaller", !.id = c, !.socket = s, !.read = ringing]
  <2>1. ringing \in LiveCall
    BY DEF LiveCall
  <2>2. new \in Handler /\ new.id = c
    BY <2>1 DEF Idle, Handler, Steps
  <2>3. handler' = [handler EXCEPT ![h] = new]
    BY <1>1 DEF BeginInvite
  <2> HIDE DEF new
  <2> QED
    BY <1>0, <1>1, <2>2, <2>3, HandlerChanges DEF BeginInvite
<1>2. ASSUME NEW c \in CallIds, NEW s \in Sockets, BeginAccept(h, c, s)
      PROVE  TypeOK' /\ Attending'
  <2>1. call[c] \in LiveCall
    BY <1>0
  <2>2. /\ [Idle EXCEPT !.step = "bind", !.id = c, !.socket = s, !.read = call[c]] \in Handler
        /\ [Idle EXCEPT !.step = "bind", !.id = c, !.socket = s, !.read = call[c]].id = c
    BY <2>1 DEF Idle, Handler, Steps
  <2> QED
    BY <1>0, <1>2, <2>2, HandlerChanges DEF BeginAccept
<1>3. ASSUME NEW c \in CallIds, NEW s \in Sockets \cup {None}, NEW reason \in Reasons,
             EndWhatWasRead(h, c, s, reason),
             UNCHANGED <<call, busy, bound, closed, log, ends>>, timers' \in SUBSET CallIds
      PROVE  TypeOK' /\ Attending'
  <2>1. [Idle EXCEPT !.step = "finish", !.id = c, !.socket = s,
                     !.read = call[c], !.reason = reason].id = c
    BY DEF Idle
  <2> QED
    BY <1>0, <1>3, <2>1, EndsWhatWasRead, HandlerChanges DEF EndWhatWasRead
<1>4. ASSUME NEW c \in CallIds, NEW s \in Sockets, BeginHangUp(h, c, s)
      PROVE  TypeOK' /\ Attending'
  <2>1. PICK reason \in Reasons : EndWhatWasRead(h, c, s, reason)
    BY <1>4 DEF BeginHangUp, Reasons
  <2> QED
    BY <1>0, <1>3, <1>4, <2>1 DEF BeginHangUp
<1>5. ASSUME NEW c \in CallIds, RingTimedOut(h, c) PROVE TypeOK' /\ Attending'
  <2>1. CASE call[c].status = "ringing"
    BY <1>0, <1>3, <1>5, <2>1 DEF RingTimedOut, Reasons
  <2>2. CASE call[c].status # "ringing"
    BY <1>5, <2>2 DEF RingTimedOut, TypeOK, Attending
  <2> QED
    BY <2>1, <2>2
<1>6. ASSUME NEW s \in Sockets, SocketGone(h, s) PROVE TypeOK' /\ Attending'
  <2>1. closed' \in SUBSET Sockets
    BY <1>0, <1>6 DEF SocketGone
  <2>2. CASE bound[s] = None
    BY <1>6, <2>1, <2>2 DEF SocketGone, TypeOK, Attending
  <2>3. CASE bound[s] # None
    <3> DEFINE new == [Idle EXCEPT !.step = "lookup", !.id = bound[s], !.socket = s]
    <3>1. bound[s] \in CallIds
      BY <1>0, <2>3
    <3>2. new \in Handler /\ new.id = bound[s]
      BY <3>1 DEF Idle, Handler, NoCall, LiveCall, Steps
    <3>3. handler' = [handler EXCEPT ![h] = new]
      BY <1>6, <2>3 DEF SocketGone
    <3> HIDE DEF new
    <3> QED
      BY <1>0, <1>6, <2>1, <3>1, <3>2, <3>3, HandlerChanges DEF SocketGone
  <2> QED
    BY <2>2, <2>3
<1>7. CASE EndCallOfSocket(h)
  <2>1. handler[h].id \in CallIds /\ handler[h].socket \in Sockets \cup {None}
    BY <1>7 DEF EndCallOfSocket, At, Attending, TypeOK, Handler
  <2>2. CASE Done(h)
    BY <1>0, <1>7, <2>2, DoneOrGoto DEF EndCallOfSocket
  <2>3. CASE ~Done(h)
    BY <1>0, <1>3, <1>7, <2>1, <2>3 DEF EndCallOfSocket, Reasons
  <2> QED
    BY <2>2, <2>3
<1> QED
  BY <1>1, <1>2, <1>4, <1>5, <1>6, <1>7

(* Every step of a handler that has begun keeps the type.                  *)
LEMMA ProceedTyped ==
    ASSUME TypeOK, Attending, NEW h \in Handlers, Proceed(h)
    PROVE  TypeOK' /\ Attending'
<1>0. /\ call \in [CallIds -> LiveCall]
      /\ busy \in [People -> CallIds \cup {None}]
      /\ bound \in [Sockets -> CallIds \cup {None}]
      /\ closed \in SUBSET Sockets
      /\ timers \in SUBSET CallIds
      /\ log \in [CallIds -> LogRow]
      /\ ends \in [CallIds -> 0 .. 2]
      /\ handler[h] \in Handler
  BY DEF TypeOK
<1>i. ~At(h, "idle") => handler[h].id \in CallIds
  BY DEF At, Attending
<1> USE CallsAssumption
<1>1. ASSUME NEW person \in People, NEW step \in {"claimCaller", "claimCallee"},
             NEW next \in {"claimCallee", "store"}, NEW otherwise \in {"idle", "unclaim"},
             Claim(h, step, person, next, otherwise)
      PROVE  TypeOK' /\ Attending'
  <2>1. handler[h].id \in CallIds /\ ~At(h, "idle")
    BY <1>1, <1>i DEF Claim, At
  <2>2. busy' \in [People -> CallIds \cup {None}]
    BY <1>0, <1>1, <2>1 DEF Claim
  <2>3. Done(h) \/ \E to \in Steps : Goto(h, to)
    BY <1>1 DEF Claim, Steps
  <2> QED
    BY <1>0, <1>1, <2>1, <2>2, <2>3, DoneOrGoto DEF Claim
<1>2. CASE ClaimCaller(h)
  <2>1. CallerOf[handler[h].id] \in People
    BY <1>2, <1>i DEF ClaimCaller, At
  <2> QED
    BY <1>1, <1>2, <2>1 DEF ClaimCaller
<1>3. CASE ClaimCallee(h)
  <2>1. CalleeOf[handler[h].id] \in People
    BY <1>3, <1>i DEF ClaimCallee, At
  <2> QED
    BY <1>1, <1>3, <2>1 DEF ClaimCallee
<1>4. CASE Unclaim(h)
  <2>1. busy' \in [People -> CallIds \cup {None}]
    BY <1>0, <1>4 DEF Unclaim, BusyWithout
  <2> QED
    BY <1>0, <1>4, <2>1, DoneOrGoto DEF Unclaim
<1>5. CASE StoreCall(h)
  <2>1. handler[h].id \in CallIds /\ ~At(h, "idle") /\ handler[h].read \in LiveCall
    BY <1>0, <1>5, <1>i DEF StoreCall, At, Handler
  <2>2. call' \in [CallIds -> LiveCall] /\ bound' \in [Sockets -> CallIds \cup {None}]
    BY <1>0, <1>5, <2>1 DEF StoreCall
  <2>3. "log" \in Steps
    BY DEF Steps
  <2> QED
    BY <1>0, <1>5, <2>1, <2>2, <2>3, DoneOrGoto DEF StoreCall
<1>6. CASE LogInvite(h)
  <2> DEFINE c == handler[h].id
  <2>1. c \in CallIds /\ ~At(h, "idle")
    BY <1>6, <1>i DEF LogInvite, At
  <2>2. [log[c] EXCEPT !.status = "ringing"] \in LogRow
    BY <1>0, <2>1 DEF LogRow
  <2>3. log' \in [CallIds -> LogRow] /\ timers' \in SUBSET CallIds
    BY <1>0, <1>6, <2>1, <2>2 DEF LogInvite
  <2>4. Done(h) \/ \E to \in Steps : Goto(h, to)
    BY <1>6 DEF LogInvite, Steps
  <2> QED
    BY <1>0, <1>6, <2>1, <2>3, <2>4, DoneOrGoto DEF LogInvite
<1>7. CASE BindAnswer(h)
  <2> DEFINE c == handler[h].id
             answered == [handler[h].read EXCEPT !.status = "active",
                                                 !.calleeSocket = handler[h].socket]
  <2>1. /\ c \in CallIds /\ ~At(h, "idle")
        /\ handler[h].read \in LiveCall /\ handler[h].socket \in Sockets \cup {None}
    BY <1>0, <1>7, <1>i DEF BindAnswer, At, Handler
  <2>2. answered \in LiveCall
    BY <2>1 DEF LiveCall
  <2>3. call' \in [CallIds -> LiveCall]
    BY <1>0, <1>7, <2>1, <2>2 DEF BindAnswer
  <2>4. /\ bound' \in [Sockets -> CallIds \cup {None}]
        /\ timers' \in SUBSET CallIds
    BY <1>0, <1>7, <2>1 DEF BindAnswer
  <2>5. "logAnswer" \in Steps /\ Goto(h, "logAnswer")
    BY <1>7 DEF BindAnswer, Steps
  <2>6. UNCHANGED <<busy, closed, log, ends>>
    BY <1>7 DEF BindAnswer
  <2> HIDE DEF c, answered
  <2> QED
    BY <1>0, <2>1, <2>3, <2>4, <2>5, <2>6, DoneOrGoto
<1>8. CASE LogAnswer(h)
  <2> DEFINE c == handler[h].id
  <2>1. c \in CallIds
    BY <1>8, <1>i DEF LogAnswer, At
  <2>2. [log[c] EXCEPT !.status = "active"] \in LogRow
    BY <1>0, <2>1 DEF LogRow
  <2>3. log' \in [CallIds -> LogRow]
    BY <1>0, <1>8, <2>1, <2>2 DEF LogAnswer
  <2> QED
    BY <1>0, <1>8, <2>3, DoneOrGoto DEF LogAnswer
<1>9. CASE FinishCall(h)
  <2>1. handler[h].id \in CallIds /\ NoCall \in LiveCall
    BY <1>9, <1>i DEF FinishCall, At, NoCall, LiveCall
  <2>2. call' \in [CallIds -> LiveCall]
    BY <1>0, <1>9, <2>1 DEF FinishCall
  <2>3. CASE Done(h)
    BY <1>0, <1>9, <2>2, <2>3, DoneOrGoto DEF FinishCall
  <2>4. CASE ~Done(h)
    <3>1. PICK keys \in SUBSET {"caller", "callee", "callerSocket", "calleeSocket"} :
             handler' = [handler EXCEPT ![h] = [handler[h] EXCEPT !.step = "release", !.held = keys]]
      BY <1>9, <2>4 DEF FinishCall
    <3>2. /\ [handler[h] EXCEPT !.step = "release", !.held = keys] \in Handler
          /\ [handler[h] EXCEPT !.step = "release", !.held = keys].id = handler[h].id
      BY <1>0 DEF Handler, Steps
    <3>3. UNCHANGED <<busy, bound, closed, timers, log, ends>>
      BY <1>9 DEF FinishCall
    <3> QED
      BY <1>0, <2>1, <2>2, <3>1, <3>2, <3>3, HandlerChanges
  <2> QED
    BY <2>3, <2>4
<1>10. ASSUME NEW k \in {"caller", "callee", "callerSocket", "calleeSocket"}, ReleaseKey(h, k)
       PROVE  TypeOK' /\ Attending'
  <2>1. handler[h].id \in CallIds
    BY <1>10, <1>i DEF ReleaseKey, At
  <2>2. busy' \in [People -> CallIds \cup {None}]
    BY <1>0, <1>10 DEF ReleaseKey, BusyWithout
  <2>3. bound' \in [Sockets -> CallIds \cup {None}]
    BY <1>0, <1>10 DEF ReleaseKey, BoundWithout
  <2>4. /\ [handler[h] EXCEPT !.held = handler[h].held \ {k}] \in Handler
        /\ [handler[h] EXCEPT !.held = handler[h].held \ {k}].id = handler[h].id
    BY <1>0 DEF Handler
  <2>5. UNCHANGED <<call, closed, timers, log, ends>>
    BY <1>10 DEF ReleaseKey
  <2>6. handler' = [handler EXCEPT ![h] = [handler[h] EXCEPT !.held = handler[h].held \ {k}]]
    BY <1>10 DEF ReleaseKey
  <2> QED
    BY <1>0, <2>1, <2>2, <2>3, <2>4, <2>5, <2>6, HandlerChanges
<1>11. CASE Released(h)
  <2>1. Done(h) \/ \E to \in Steps : Goto(h, to)
    BY <1>11 DEF Released, Steps
  <2>2. timers' \in SUBSET CallIds /\ ~At(h, "idle")
    BY <1>0, <1>11 DEF Released, At
  <2> QED
    BY <1>0, <1>11, <2>1, <2>2, DoneOrGoto DEF Released
<1>12. CASE LogEnd(h)
  <2>1. handler[h].id \in CallIds /\ ~At(h, "idle") /\ handler[h].reason \in Reasons \cup {None}
    BY <1>0, <1>12, <1>i DEF LogEnd, At, Handler
  <2>2. [status |-> "ended", endReason |-> handler[h].reason] \in LogRow
    BY <2>1 DEF LogRow
  <2>3. log' \in [CallIds -> LogRow]
    BY <1>0, <1>12, <2>1, <2>2 DEF LogEnd
  <2>4. "announce" \in Steps /\ Goto(h, "announce")
    BY <1>12 DEF LogEnd, Steps
  <2> QED
    BY <1>0, <1>12, <2>1, <2>3, <2>4, DoneOrGoto DEF LogEnd
<1>13. CASE AnnounceEnd(h)
  <2>1. ends' \in [CallIds -> 0 .. 2]
    <3>1. handler[h].id \in CallIds
      BY <1>13, <1>i DEF AnnounceEnd, At
    <3>2. ends[handler[h].id] \in 0 .. 2
      BY <1>0, <3>1
    <3>3. (IF ends[handler[h].id] = 2 THEN 2 ELSE ends[handler[h].id] + 1) \in 0 .. 2
      BY <3>2
    <3> QED
      BY <1>0, <1>13, <3>3 DEF AnnounceEnd
  <2> QED
    BY <1>0, <1>13, <2>1, DoneOrGoto DEF AnnounceEnd
<1>14. CASE EndCallOfSocket(h)
  BY <1>14, BeginsTyped
<1> QED
  BY <1>2, <1>3, <1>4, <1>5, <1>6, <1>7, <1>8, <1>9, <1>10, <1>11, <1>12, <1>13, <1>14 DEF Proceed

(* Every step keeps the type.                                              *)
LEMMA NextTyped == TypeOK /\ Attending /\ [Next]_vars => TypeOK' /\ Attending'
<1> SUFFICES ASSUME TypeOK, Attending, [Next]_vars PROVE TypeOK' /\ Attending'
  OBVIOUS
<1>1. CASE UNCHANGED vars
  BY <1>1 DEF vars, TypeOK, Attending
<1>2. ASSUME NEW h \in Handlers, LoseHandler(h) PROVE TypeOK' /\ Attending'
  BY <1>2, DoneOrGoto DEF LoseHandler, TypeOK
<1>3. ASSUME NEW c \in CallIds, LoseTimer(c) PROVE TypeOK' /\ Attending'
  BY <1>3 DEF LoseTimer, TypeOK, Attending
<1>4. ASSUME NEW c \in CallIds, Expire(c) PROVE TypeOK' /\ Attending'
  <2>1. NoCall \in LiveCall
    BY DEF NoCall, LiveCall
  <2> QED
    BY <1>4, <2>1 DEF Expire, TypeOK, Attending
<1> QED
  BY <1>1, <1>2, <1>3, <1>4, BeginsTyped, ProceedTyped DEF Next

(* Every state of Calls is well typed: the keys in Redis, the rows, and    *)
(* what handlers hold across an await.                                     *)
THEOREM TypeInvariant == Spec => [](TypeOK /\ Attending)
BY InitTyped, NextTyped, PTL DEF Spec

-----------------------------------------------------------------------------
(* One call per person.                                                    *)

Ends == {"caller", "callee"}

PersonOf(c, k) == IF k = "caller" THEN CallerOf[c] ELSE CalleeOf[c]

(* Handler h is between claiming a busy key for call c and storing the     *)
(* call, or between deleting the call and releasing the key.               *)
Holds(h, c, k) ==
    /\ handler[h].id = c
    /\ \/ k = "caller" /\ handler[h].step \in {"claimCallee", "unclaim", "store"}
       \/ k = "callee" /\ handler[h].step = "store"
       \/ handler[h].step = "release" /\ k \in handler[h].held

(* The busy keys of a call belong to the call while it lives, and before   *)
(* and after that to one handler.                                          *)
Claimed ==
    \A c \in CallIds, k \in Ends :
        /\ Exists(c) => /\ busy[PersonOf(c, k)] = c
                        /\ \A h \in Handlers : ~Holds(h, c, k)
        /\ \A h \in Handlers : Holds(h, c, k) =>
              /\ busy[PersonOf(c, k)] = c
              /\ \A g \in Handlers \ {h} : ~Holds(g, c, k)

(* Nobody calls themself.                                                  *)
Apart ==
    /\ \A c \in CallIds : Exists(c) => CallerOf[c] # CalleeOf[c]
    /\ \A h \in Handlers : handler[h].step \notin {"idle", "lookup"} =>
          CallerOf[handler[h].id] # CalleeOf[handler[h].id]

(* A step that moves no busy key, creates no call and gives no handler     *)
(* anything to hold.                                                       *)
LEMMA NothingClaimed ==
    ASSUME Claimed, busy' = busy,
           \A c \in CallIds : Exists(c)' => Exists(c),
           \A h \in Handlers, c \in CallIds, k \in Ends : Holds(h, c, k)' => Holds(h, c, k)
    PROVE  Claimed'
<1>1. ASSUME NEW c \in CallIds, NEW k \in Ends, Exists(c)'
      PROVE  busy'[PersonOf(c, k)] = c /\ \A h \in Handlers : ~Holds(h, c, k)'
  BY <1>1 DEF Claimed
<1>2. ASSUME NEW c \in CallIds, NEW k \in Ends, NEW h \in Handlers, Holds(h, c, k)'
      PROVE  busy'[PersonOf(c, k)] = c /\ \A g \in Handlers \ {h} : ~Holds(g, c, k)'
  BY <1>2 DEF Claimed
<1> QED
  BY <1>1, <1>2 DEF Claimed, PersonOf

(* A handler that is done, or goes on to a step that holds nothing new.    *)
LEMMA HoldsNothingNew ==
    ASSUME TypeOK, Claimed, NEW h \in Handlers, busy' = busy,
           \A c \in CallIds : Exists(c)' => Exists(c),
           \A g \in Handlers \ {h} : handler'[g] = handler[g],
           handler'[h].step \notin {"claimCallee", "unclaim", "store", "release"}
    PROVE  Claimed'
BY NothingClaimed DEF Holds

(* Where a handler begins nothing is claimed, and a call it will end is    *)
(* one between two people.                                                 *)
LEMMA BeginsClaimed ==
    ASSUME TypeOK, Claimed, Apart, NEW h \in Handlers,
           \/ \E c \in CallIds, s \in Sockets :
                 BeginInvite(h, c, s) \/ BeginAccept(h, c, s) \/ BeginHangUp(h, c, s)
           \/ \E c \in CallIds : RingTimedOut(h, c)
           \/ \E s \in Sockets : SocketGone(h, s)
           \/ EndCallOfSocket(h) /\ handler[h].id \in CallIds
    PROVE  Claimed' /\ Apart'
<1>0. handler \in [Handlers -> Handler]
  BY DEF TypeOK
<1>1. ASSUME NEW new, handler' = [handler EXCEPT ![h] = new],
             new.step \notin {"claimCallee", "unclaim", "store", "release"},
             new.step \notin {"idle", "lookup"} => CallerOf[new.id] # CalleeOf[new.id],
             UNCHANGED <<call, busy>>
      PROVE  Claimed' /\ Apart'
  <2>1. handler'[h] = new /\ \A g \in Handlers \ {h} : handler'[g] = handler[g]
    BY <1>0, <1>1
  <2>2. Claimed'
    BY <1>1, <2>1, HoldsNothingNew DEF Exists
  <2>3. Apart'
    BY <1>1, <2>1 DEF Apart, Exists
  <2> QED
    BY <2>2, <2>3
<1>2. ASSUME NEW c \in CallIds, NEW s, NEW reason, EndWhatWasRead(h, c, s, reason),
             Exists(c), UNCHANGED <<call, busy>>
      PROVE  Claimed' /\ Apart'
  <2>1. /\ [Idle EXCEPT !.step = "finish", !.id = c, !.socket = s,
                        !.read = call[c], !.reason = reason].id = c
        /\ [Idle EXCEPT !.step = "finish", !.id = c, !.socket = s,
                        !.read = call[c], !.reason = reason].step = "finish"
    BY DEF Idle
  <2>2. CallerOf[c] # CalleeOf[c]
    BY <1>2 DEF Apart
  <2> QED
    BY <1>1, <1>2, <2>1, <2>2 DEF EndWhatWasRead
<1>3. ASSUME UNCHANGED <<call, busy, handler>> PROVE Claimed' /\ Apart'
  BY <1>3 DEF Claimed, Holds, Exists, PersonOf, Apart
<1>4. ASSUME NEW c \in CallIds, NEW s \in Sockets, BeginInvite(h, c, s)
      PROVE  Claimed' /\ Apart'
  <2> DEFINE new == [Idle EXCEPT !.step = "claimCaller", !.id = c, !.socket = s,
                        !.read = [status |-> "ringing", callerSocket |-> s,
                                  calleeSocket |-> None]]
  <2>1. new.step = "claimCaller" /\ new.id = c
    BY DEF Idle
  <2>2. handler' = [handler EXCEPT ![h] = new]
    BY <1>4 DEF BeginInvite
  <2> HIDE DEF new
  <2> QED
    BY <1>1, <1>4, <2>1, <2>2 DEF BeginInvite
<1>5. ASSUME NEW c \in CallIds, NEW s \in Sockets, BeginAccept(h, c, s)
      PROVE  Claimed' /\ Apart'
  <2> DEFINE new == [Idle EXCEPT !.step = "bind", !.id = c, !.socket = s, !.read = call[c]]
  <2>1. new.step = "bind" /\ new.id = c
    BY DEF Idle
  <2>2. handler' = [handler EXCEPT ![h] = new]
    BY <1>5 DEF BeginAccept
  <2>3. CallerOf[c] # CalleeOf[c]
    BY <1>5 DEF BeginAccept, Apart, Exists
  <2> HIDE DEF new
  <2> QED
    BY <1>1, <1>5, <2>1, <2>2, <2>3 DEF BeginAccept
<1>6. ASSUME NEW c \in CallIds, NEW s \in Sockets, BeginHangUp(h, c, s)
      PROVE  Claimed' /\ Apart'
  BY <1>2, <1>6 DEF BeginHangUp
<1>7. ASSUME NEW c \in CallIds, RingTimedOut(h, c) PROVE Claimed' /\ Apart'
  <2>1. CASE call[c].status = "ringing"
    BY <1>2, <1>7, <2>1 DEF RingTimedOut, Exists
  <2>2. CASE call[c].status # "ringing"
    BY <1>3, <1>7, <2>2 DEF RingTimedOut
  <2> QED
    BY <2>1, <2>2
<1>8. ASSUME NEW s \in Sockets, SocketGone(h, s) PROVE Claimed' /\ Apart'
  <2>1. CASE bound[s] = None
    BY <1>3, <1>8, <2>1 DEF SocketGone
  <2>2. CASE bound[s] # None
    <3> DEFINE new == [Idle EXCEPT !.step = "lookup", !.id = bound[s], !.socket = s]
    <3>1. new.step = "lookup"
      BY DEF Idle
    <3>2. handler' = [handler EXCEPT ![h] = new]
      BY <1>8, <2>2 DEF SocketGone
    <3> HIDE DEF new
    <3> QED
      BY <1>1, <1>8, <3>1, <3>2 DEF SocketGone
  <2> QED
    BY <2>1, <2>2
<1>9. ASSUME EndCallOfSocket(h), handler[h].id \in CallIds PROVE Claimed' /\ Apart'
  <2>1. CASE Done(h)
    <3>1. Idle.step = "idle"
      BY DEF Idle
    <3> QED
      BY <1>1, <1>9, <2>1, <3>1 DEF EndCallOfSocket, Done
  <2>2. CASE ~Done(h)
    BY <1>2, <1>9, <2>2 DEF EndCallOfSocket, Exists
  <2> QED
    BY <2>1, <2>2
<1> QED
  BY <1>4, <1>5, <1>6, <1>7, <1>8, <1>9

(* A handler that is done, or goes on with its call.                       *)
LEMMA StaysApart ==
    ASSUME Apart, NEW h \in Handlers,
           \A c \in CallIds : Exists(c)' => Exists(c) \/ CallerOf[c] # CalleeOf[c],
           \A g \in Handlers \ {h} : handler'[g] = handler[g],
           \/ handler'[h].step = "idle"
           \/ handler'[h].id = handler[h].id /\ handler[h].step \notin {"idle", "lookup"}
    PROVE  Apart'
BY DEF Apart

(* What Done and Goto do to the handlers.                                  *)
LEMMA HandlerAfter ==
    ASSUME TypeOK, NEW h \in Handlers
    PROVE  /\ Done(h) => /\ \A g \in Handlers \ {h} : handler'[g] = handler[g]
                         /\ handler'[h].step = "idle"
           /\ \A step \in Steps : Goto(h, step) =>
                 /\ \A g \in Handlers \ {h} : handler'[g] = handler[g]
                 /\ handler'[h].step = step
                 /\ handler'[h].id = handler[h].id
                 /\ handler'[h].held = handler[h].held
<1>1. handler \in [Handlers -> Handler] /\ handler[h] \in Handler
  BY DEF TypeOK
<1>2. Idle.step = "idle"
  BY DEF Idle
<1>3. ASSUME Done(h)
      PROVE  /\ \A g \in Handlers \ {h} : handler'[g] = handler[g]
             /\ handler'[h].step = "idle"
  BY <1>1, <1>2, <1>3 DEF Done
<1>4. ASSUME NEW step \in Steps, Goto(h, step)
      PROVE  /\ \A g \in Handlers \ {h} : handler'[g] = handler[g]
             /\ handler'[h].step = step
             /\ handler'[h].id = handler[h].id
             /\ handler'[h].held = handler[h].held
  <2>1. handler' = [handler EXCEPT ![h] = [handler[h] EXCEPT !.step = step]]
    BY <1>4 DEF Goto
  <2> QED
    BY <1>1, <2>1, MovesOn
<1> QED
  BY <1>3, <1>4

(* Winning a busy key: it was free, so no call and no other handler had it.*)
LEMMA WinsKey ==
    ASSUME TypeOK, Claimed, NEW h \in Handlers, NEW c \in CallIds, NEW key \in Ends,
           busy[PersonOf(c, key)] = None,
           busy' = [busy EXCEPT ![PersonOf(c, key)] = c],
           UNCHANGED call,
           \A g \in Handlers \ {h} : handler'[g] = handler[g],
           \A d \in CallIds, k \in Ends :
              Holds(h, d, k)' => Holds(h, d, k) \/ (d = c /\ k = key)
    PROVE  Claimed'
<1>1. None \notin CallIds /\ \A d \in CallIds, k \in Ends : PersonOf(d, k) \in People
  BY CallsAssumption DEF PersonOf
<1>2. \A d \in CallIds, k \in Ends :
         PersonOf(d, k) # PersonOf(c, key) => busy'[PersonOf(d, k)] = busy[PersonOf(d, k)]
  BY <1>1 DEF TypeOK
<1>3. busy'[PersonOf(c, key)] = c
  BY <1>1 DEF TypeOK
<1>4. ASSUME NEW d \in CallIds, NEW k \in Ends, NEW g \in Handlers,
             Exists(d) \/ Holds(g, d, k)
      PROVE  PersonOf(d, k) # PersonOf(c, key)
  BY <1>1, <1>4 DEF Claimed
<1>5. ASSUME NEW d \in CallIds, NEW k \in Ends, NEW g \in Handlers, Holds(g, d, k)'
      PROVE  Holds(g, d, k) \/ (g = h /\ d = c /\ k = key)
  BY <1>5 DEF Holds
<1>6. ASSUME NEW d \in CallIds, NEW k \in Ends, Exists(d)'
      PROVE  busy'[PersonOf(d, k)] = d /\ \A g \in Handlers : ~Holds(g, d, k)'
  <2>1. Exists(d)
    BY <1>6 DEF Exists
  <2>2. PersonOf(d, k) # PersonOf(c, key)
    BY <1>4, <2>1
  <2> QED
    BY <1>2, <1>5, <2>1, <2>2 DEF Claimed
<1>7. ASSUME NEW d \in CallIds, NEW k \in Ends, NEW g \in Handlers, Holds(g, d, k)'
      PROVE  /\ busy'[PersonOf(d, k)] = d
             /\ \A f \in Handlers \ {g} : ~Holds(f, d, k)'
  <2>1. CASE Holds(g, d, k)
    <3>1. PersonOf(d, k) # PersonOf(c, key)
      BY <1>4, <2>1
    <3> QED
      BY <1>2, <1>5, <2>1, <3>1 DEF Claimed
  <2>2. CASE ~Holds(g, d, k)
    <3>1. g = h /\ d = c /\ k = key
      BY <1>5, <1>7, <2>2
    <3>2. \A f \in Handlers : ~Holds(f, c, key)
      BY <1>4
    <3> QED
      BY <1>3, <1>5, <3>1, <3>2
  <2> QED
    BY <2>1, <2>2
<1>8. \A d \in CallIds, k \in Ends : PersonOf(d, k)' = PersonOf(d, k)
  BY DEF PersonOf
<1> QED
  BY <1>6, <1>7, <1>8 DEF Claimed

(* Giving back a key that one handler holds, and no longer holds then.     *)
LEMMA FreesKey ==
    ASSUME TypeOK, Claimed, NEW h \in Handlers, NEW c \in CallIds, NEW key \in Ends,
           CallerOf[c] # CalleeOf[c],
           Holds(h, c, key),
           busy' = [busy EXCEPT ![PersonOf(c, key)] = None],
           UNCHANGED call,
           \A g \in Handlers \ {h} : handler'[g] = handler[g],
           \A d \in CallIds, k \in Ends :
              Holds(h, d, k)' => Holds(h, d, k) /\ ~(d = c /\ k = key)
    PROVE  Claimed'
<1>1. \A d \in CallIds, k \in Ends : PersonOf(d, k) \in People
  BY CallsAssumption DEF PersonOf
<1>2. \A d \in CallIds, k \in Ends :
         PersonOf(d, k) # PersonOf(c, key) => busy'[PersonOf(d, k)] = busy[PersonOf(d, k)]
  BY <1>1 DEF TypeOK
<1>3. busy[PersonOf(c, key)] = c /\ ~Exists(c) /\ \A g \in Handlers \ {h} : ~Holds(g, c, key)
  BY DEF Claimed
<1>4. ASSUME NEW d \in CallIds, NEW k \in Ends, NEW g \in Handlers, Holds(g, d, k)'
      PROVE  Holds(g, d, k) /\ ~(d = c /\ k = key)
  BY <1>3, <1>4 DEF Holds
<1>5. \A k \in Ends : k # key => PersonOf(c, k) # PersonOf(c, key)
  BY DEF PersonOf, Ends
<1>6. ASSUME NEW d \in CallIds, NEW k \in Ends, busy[PersonOf(d, k)] = d, ~(d = c /\ k = key)
      PROVE  busy'[PersonOf(d, k)] = d
  BY <1>2, <1>3, <1>5, <1>6
<1>7. ASSUME NEW d \in CallIds, NEW k \in Ends, Exists(d)'
      PROVE  busy'[PersonOf(d, k)] = d /\ \A g \in Handlers : ~Holds(g, d, k)'
  <2>1. Exists(d)
    BY <1>7 DEF Exists
  <2> QED
    BY <1>3, <1>4, <1>6, <2>1 DEF Claimed
<1>8. ASSUME NEW d \in CallIds, NEW k \in Ends, NEW g \in Handlers, Holds(g, d, k)'
      PROVE  /\ busy'[PersonOf(d, k)] = d
             /\ \A f \in Handlers \ {g} : ~Holds(f, d, k)'
  BY <1>4, <1>6, <1>8 DEF Claimed
<1>9. \A d \in CallIds, k \in Ends : PersonOf(d, k)' = PersonOf(d, k)
  BY DEF PersonOf
<1> QED
  BY <1>7, <1>8, <1>9 DEF Claimed

(* Every step of a handler that has begun keeps the claims.                *)
LEMMA ProceedClaimed ==
    ASSUME TypeOK, Attending, Claimed, Apart, NEW h \in Handlers, Proceed(h)
    PROVE  Claimed' /\ Apart'
<1> DEFINE c == handler[h].id
<1>0. handler[h] \in Handler /\ busy \in [People -> CallIds \cup {None}]
  BY DEF TypeOK
<1>i. ~At(h, "idle") => c \in CallIds
  BY DEF At, Attending
<1>a. ~At(h, "idle") /\ ~At(h, "lookup") => CallerOf[c] # CalleeOf[c]
  BY DEF At, Apart
<1>s. {"idle", "claimCallee", "unclaim", "store", "log", "logAnswer", "finish", "release",
       "logEnd", "announce"} \subseteq Steps
  BY DEF Steps
<1>p. PersonOf(c, "caller") = CallerOf[c] /\ PersonOf(c, "callee") = CalleeOf[c]
  BY DEF PersonOf
<1>e. "caller" \in Ends /\ "callee" \in Ends
  BY DEF Ends
<1>1. CASE ClaimCaller(h)
  <2>1. /\ c \in CallIds /\ ~At(h, "lookup") /\ ~At(h, "idle") /\ handler[h].step = "claimCaller"
        /\ UNCHANGED call
    BY <1>1, <1>i DEF ClaimCaller, Claim, At
  <2>2. CASE busy[CallerOf[c]] = None
    <3>1. Goto(h, "claimCallee") /\ busy' = [busy EXCEPT ![CallerOf[c]] = c]
      BY <1>1, <2>2 DEF ClaimCaller, Claim
    <3>2. /\ \A g \in Handlers \ {h} : handler'[g] = handler[g]
          /\ handler'[h].step = "claimCallee" /\ handler'[h].id = c
      BY <1>s, <3>1, HandlerAfter
    <3>3. \A d \in CallIds, k \in Ends : Holds(h, d, k)' => d = c /\ k = "caller"
      BY <3>2 DEF Holds
    <3>4. Claimed'
      BY <1>e, <1>p, <2>1, <2>2, <3>1, <3>2, <3>3, WinsKey
    <3>5. Apart'
      BY <2>1, <3>2, StaysApart DEF At, Exists
    <3> QED
      BY <3>4, <3>5
  <2>3. CASE busy[CallerOf[c]] # None
    <3>1. Done(h) /\ busy' = busy
      BY <1>1, <2>3 DEF ClaimCaller, Claim
    <3>2. Claimed'
      BY <2>1, <3>1, HandlerAfter, HoldsNothingNew DEF Exists
    <3>3. Apart'
      BY <2>1, <3>1, HandlerAfter, StaysApart DEF Exists
    <3> QED
      BY <3>2, <3>3
  <2> QED
    BY <2>2, <2>3
<1>2. CASE ClaimCallee(h)
  <2>1. /\ c \in CallIds /\ ~At(h, "lookup") /\ ~At(h, "idle") /\ handler[h].step = "claimCallee"
        /\ UNCHANGED call
    BY <1>2, <1>i DEF ClaimCallee, Claim, At
  <2>2. CASE busy[CalleeOf[c]] = None
    <3>1. Goto(h, "store") /\ busy' = [busy EXCEPT ![CalleeOf[c]] = c]
      BY <1>2, <2>2 DEF ClaimCallee, Claim
    <3>2. /\ \A g \in Handlers \ {h} : handler'[g] = handler[g]
          /\ handler'[h].step = "store" /\ handler'[h].id = c
      BY <1>s, <3>1, HandlerAfter
    <3>3. \A d \in CallIds, k \in Ends :
             Holds(h, d, k)' => Holds(h, d, k) \/ (d = c /\ k = "callee")
      BY <2>1, <3>2 DEF Holds
    <3>4. Claimed'
      BY <1>e, <1>p, <2>1, <2>2, <3>1, <3>2, <3>3, WinsKey
    <3>5. Apart'
      BY <2>1, <3>2, StaysApart DEF At, Exists
    <3> QED
      BY <3>4, <3>5
  <2>3. CASE busy[CalleeOf[c]] # None
    <3>1. Goto(h, "unclaim") /\ busy' = busy
      BY <1>2, <2>3 DEF ClaimCallee, Claim
    <3>2. /\ \A g \in Handlers \ {h} : handler'[g] = handler[g]
          /\ handler'[h].step = "unclaim" /\ handler'[h].id = c
      BY <1>s, <3>1, HandlerAfter
    <3>3. \A g \in Handlers, d \in CallIds, k \in Ends : Holds(g, d, k)' => Holds(g, d, k)
      BY <2>1, <3>2 DEF Holds
    <3>4. Claimed'
      BY <2>1, <3>1, <3>3, NothingClaimed DEF Exists
    <3>5. Apart'
      BY <2>1, <3>2, StaysApart DEF At, Exists
    <3> QED
      BY <3>4, <3>5
  <2> QED
    BY <2>2, <2>3
<1>3. CASE Unclaim(h)
  <2>1. /\ c \in CallIds /\ handler[h].step = "unclaim" /\ CallerOf[c] # CalleeOf[c]
        /\ Done(h) /\ UNCHANGED call
    BY <1>3, <1>i, <1>a DEF Unclaim, At
  <2>2. Holds(h, c, "caller")
    BY <2>1 DEF Holds
  <2>3. busy' = [busy EXCEPT ![CallerOf[c]] = None]
    BY <1>3, <1>e, <1>p, <2>1, <2>2 DEF Unclaim, BusyWithout, Claimed
  <2>4. /\ \A g \in Handlers \ {h} : handler'[g] = handler[g]
        /\ handler'[h].step = "idle"
    BY <2>1, HandlerAfter
  <2>5. \A d \in CallIds, k \in Ends : ~Holds(h, d, k)'
    BY <2>4 DEF Holds
  <2>6. Claimed'
    BY <1>e, <1>p, <2>1, <2>2, <2>3, <2>4, <2>5, FreesKey
  <2>7. Apart'
    BY <2>1, <2>4, StaysApart DEF Exists
  <2> QED
    BY <2>6, <2>7
<1>4. CASE StoreCall(h)
  <2>1. /\ c \in CallIds /\ handler[h].step = "store" /\ CallerOf[c] # CalleeOf[c]
        /\ Goto(h, "log") /\ busy' = busy /\ ~At(h, "idle") /\ ~At(h, "lookup")
    BY <1>4, <1>i, <1>a DEF StoreCall, At
  <2>2. \A d \in CallIds : Exists(d)' => Exists(d) \/ d = c
    BY <1>4 DEF StoreCall, Exists, TypeOK
  <2>3. /\ \A g \in Handlers \ {h} : handler'[g] = handler[g]
        /\ handler'[h].step = "log" /\ handler'[h].id = c
    BY <1>s, <2>1, HandlerAfter
  <2>4. \A k \in Ends : Holds(h, c, k)
    BY <2>1 DEF Holds, Ends
  <2>5. \A g \in Handlers, d \in CallIds, k \in Ends : Holds(g, d, k)' => g # h /\ Holds(g, d, k)
    BY <2>3 DEF Holds
  <2>6. ASSUME NEW d \in CallIds, NEW k \in Ends, Exists(d)'
        PROVE  busy'[PersonOf(d, k)] = d /\ \A g \in Handlers : ~Holds(g, d, k)'
    <3>1. CASE Exists(d)
      BY <2>1, <2>5, <3>1 DEF Claimed
    <3>2. CASE d = c
      BY <2>1, <2>4, <2>5, <3>2 DEF Claimed
    <3> QED
      BY <2>2, <2>6, <3>1, <3>2
  <2>7. ASSUME NEW d \in CallIds, NEW k \in Ends, NEW g \in Handlers, Holds(g, d, k)'
        PROVE  /\ busy'[PersonOf(d, k)] = d
               /\ \A f \in Handlers \ {g} : ~Holds(f, d, k)'
    BY <2>1, <2>5, <2>7 DEF Claimed
  <2>8. \A d \in CallIds, k \in Ends : PersonOf(d, k)' = PersonOf(d, k)
    BY DEF PersonOf
  <2>9. Claimed'
    BY <2>6, <2>7, <2>8 DEF Claimed
  <2>10. Apart'
    BY <2>1, <2>2, <2>3, StaysApart DEF At
  <2> QED
    BY <2>9, <2>10
<1>5. ASSUME Done(h) \/ \E step \in {"finish", "log", "logAnswer", "logEnd", "announce"} : Goto(h, step),
             ~At(h, "idle"), ~At(h, "lookup"), busy' = busy,
             \A d \in CallIds : Exists(d)' => Exists(d)
      PROVE  Claimed' /\ Apart'
  <2>1. /\ \A g \in Handlers \ {h} : handler'[g] = handler[g]
        /\ handler'[h].step \notin {"claimCallee", "unclaim", "store", "release"}
        /\ handler'[h].step = "idle" \/ handler'[h].id = c
    BY <1>5, <1>s, HandlerAfter
  <2>2. Claimed'
    BY <1>5, <2>1, HoldsNothingNew
  <2>3. Apart'
    BY <1>5, <2>1, StaysApart DEF At
  <2> QED
    BY <2>2, <2>3
<1>6. CASE LogInvite(h)
  BY <1>5, <1>6 DEF LogInvite, At, Exists
<1>7. CASE BindAnswer(h)
  <2>1. \A d \in CallIds : Exists(d)' => Exists(d)
    BY <1>7 DEF BindAnswer, Exists, TypeOK
  <2> QED
    BY <1>5, <1>7, <2>1 DEF BindAnswer, At
<1>8. CASE LogAnswer(h) \/ LogEnd(h) \/ AnnounceEnd(h) \/ Released(h)
  BY <1>5, <1>8 DEF LogAnswer, LogEnd, AnnounceEnd, Released, At, Exists
<1>9. CASE FinishCall(h)
  <2>1. /\ c \in CallIds /\ handler[h].step = "finish" /\ CallerOf[c] # CalleeOf[c]
        /\ busy' = busy /\ ~At(h, "idle") /\ ~At(h, "lookup")
    BY <1>9, <1>i, <1>a DEF FinishCall, At
  <2>2. CASE ~Exists(c)
    BY <1>5, <1>9, <2>1, <2>2 DEF FinishCall, Exists
  <2>3. CASE Exists(c)
    <3>1. PICK keys : handler' = [handler EXCEPT ![h] =
                                    [handler[h] EXCEPT !.step = "release", !.held = keys]]
      BY <1>9, <2>3 DEF FinishCall
    <3>2. call' = [call EXCEPT ![c] = NoCall] /\ NoCall.status = "none"
      BY <1>9, <2>3 DEF FinishCall, NoCall
    <3>3. /\ \A g \in Handlers \ {h} : handler'[g] = handler[g]
          /\ handler'[h].id = c
      BY <1>0, <3>1 DEF TypeOK, Handler
    <3>4. \A d \in CallIds : Exists(d)' => Exists(d) /\ d # c
      BY <2>1, <3>2 DEF Exists, TypeOK
    <3>5. \A g \in Handlers, d \in CallIds, k \in Ends :
             Holds(g, d, k)' => Holds(g, d, k) \/ (g = h /\ d = c)
      BY <3>3 DEF Holds
    <3>6. \A g \in Handlers, k \in Ends : ~Holds(g, c, k)
      BY <2>1, <2>3 DEF Claimed
    <3>7. ASSUME NEW d \in CallIds, NEW k \in Ends, Exists(d)'
          PROVE  busy'[PersonOf(d, k)] = d /\ \A g \in Handlers : ~Holds(g, d, k)'
      BY <2>1, <3>4, <3>5, <3>7 DEF Claimed
    <3>8. ASSUME NEW d \in CallIds, NEW k \in Ends, NEW g \in Handlers, Holds(g, d, k)'
          PROVE  /\ busy'[PersonOf(d, k)] = d
                 /\ \A f \in Handlers \ {g} : ~Holds(f, d, k)'
      <4>1. CASE d = c
        BY <2>1, <2>3, <3>5, <3>6, <3>8, <4>1 DEF Claimed
      <4>2. CASE d # c
        BY <2>1, <3>5, <3>8, <4>2 DEF Claimed
      <4> QED
        BY <4>1, <4>2
    <3>9. \A d \in CallIds, k \in Ends : PersonOf(d, k)' = PersonOf(d, k)
      BY DEF PersonOf
    <3>10. Claimed'
      BY <3>7, <3>8, <3>9 DEF Claimed
    <3>11. Apart'
      BY <2>1, <3>3, <3>4, StaysApart DEF At
    <3> QED
      BY <3>10, <3>11
  <2> QED
    BY <2>2, <2>3
<1>10. ASSUME NEW key \in {"caller", "callee", "callerSocket", "calleeSocket"}, ReleaseKey(h, key)
       PROVE  Claimed' /\ Apart'
  <2>1. /\ c \in CallIds /\ handler[h].step = "release" /\ CallerOf[c] # CalleeOf[c]
        /\ UNCHANGED call /\ key \in handler[h].held
    BY <1>10, <1>i, <1>a DEF ReleaseKey, At
  <2>2. handler' = [handler EXCEPT ![h] = [handler[h] EXCEPT !.held = handler[h].held \ {key}]]
    BY <1>10 DEF ReleaseKey
  <2>3. /\ \A g \in Handlers \ {h} : handler'[g] = handler[g]
        /\ handler'[h].id = c /\ handler'[h].step = "release"
        /\ handler'[h].held = handler[h].held \ {key}
    BY <1>0, <2>1, <2>2 DEF TypeOK, Handler
  <2>4. \A d \in CallIds, k \in Ends : Holds(h, d, k)' => Holds(h, d, k) /\ ~(d = c /\ k = key)
    BY <2>1, <2>3 DEF Holds
  <2>5. Apart'
    BY <2>1, <2>3, StaysApart DEF Exists
  <2>6. CASE key \in Ends
    <3>1. Holds(h, c, key) /\ busy[PersonOf(c, key)] = c
      BY <2>1, <2>6 DEF Holds, Claimed
    <3>2. busy' = [busy EXCEPT ![PersonOf(c, key)] = None]
      BY <1>10, <2>6, <3>1 DEF ReleaseKey, BusyWithout, PersonOf, Ends
    <3> QED
      BY <2>1, <2>3, <2>4, <2>5, <2>6, <3>1, <3>2, FreesKey
  <2>7. CASE key \notin Ends
    <3>1. busy' = busy
      BY <1>10, <2>7 DEF ReleaseKey, Ends
    <3>2. \A g \in Handlers, d \in CallIds, k \in Ends : Holds(g, d, k)' => Holds(g, d, k)
      BY <2>3, <2>4 DEF Holds
    <3> QED
      BY <2>1, <2>5, <3>1, <3>2, NothingClaimed DEF Exists
  <2> QED
    BY <2>6, <2>7
<1>11. CASE EndCallOfSocket(h)
  BY <1>11, <1>i, BeginsClaimed DEF EndCallOfSocket, At
<1> QED
  BY <1>1, <1>2, <1>3, <1>4, <1>6, <1>7, <1>8, <1>9, <1>10, <1>11 DEF Proceed

(* The keys of a call expire together, and not while a handler holds one.  *)
LEMMA ExpireClaimed ==
    ASSUME TypeOK, Claimed, Apart, NEW c \in CallIds, Expire(c)
    PROVE  Claimed' /\ Apart'
<1>1. \A h \in Handlers, k \in Ends : ~Holds(h, c, k)
  BY DEF Expire, Occupied, Holds
<1>2. \A d \in CallIds : Exists(d)' => Exists(d) /\ d # c
  BY DEF Expire, Exists, NoCall, TypeOK
<1>3. \A d \in CallIds, k \in Ends :
         d # c /\ busy[PersonOf(d, k)] = d => busy'[PersonOf(d, k)] = d
  <2>1. \A d \in CallIds, k \in Ends : PersonOf(d, k) \in People
    BY CallsAssumption DEF PersonOf
  <2>2. \A p \in People : busy[p] # c => busy'[p] = busy[p]
    BY DEF Expire
  <2> QED
    BY <2>1, <2>2
<1>4. \A h \in Handlers, d \in CallIds, k \in Ends : Holds(h, d, k)' = Holds(h, d, k)
  BY DEF Expire, Holds
<1>5. ASSUME NEW d \in CallIds, NEW k \in Ends, Exists(d)'
      PROVE  busy'[PersonOf(d, k)] = d /\ \A g \in Handlers : ~Holds(g, d, k)'
  BY <1>2, <1>3, <1>4, <1>5 DEF Claimed
<1>6. ASSUME NEW d \in CallIds, NEW k \in Ends, NEW g \in Handlers, Holds(g, d, k)'
      PROVE  /\ busy'[PersonOf(d, k)] = d
             /\ \A f \in Handlers \ {g} : ~Holds(f, d, k)'
  BY <1>1, <1>3, <1>4, <1>6 DEF Claimed
<1>7. \A d \in CallIds, k \in Ends : PersonOf(d, k)' = PersonOf(d, k)
  BY DEF PersonOf
<1>8. Claimed'
  BY <1>5, <1>6, <1>7 DEF Claimed
<1>9. Apart'
  BY <1>2 DEF Expire, Apart
<1> QED
  BY <1>8, <1>9

(* The busy keys of a call are its own in every reachable state.           *)
LEMMA KeysAreClaimed == Spec => [](Claimed /\ Apart)
<1>1. Init => Claimed /\ Apart
  <2> SUFFICES ASSUME Init PROVE Claimed /\ Apart
    OBVIOUS
  <2>1. \A h \in Handlers : handler[h].step = "idle"
    BY DEF Init, Idle
  <2>2. \A c \in CallIds : ~Exists(c)
    BY DEF Init, Exists, NoCall
  <2> QED
    BY <2>1, <2>2 DEF Claimed, Apart, Holds
<1>2. TypeOK /\ Attending /\ Claimed /\ Apart /\ [Next]_vars => Claimed' /\ Apart'
  <2> SUFFICES ASSUME TypeOK, Attending, Claimed, Apart, [Next]_vars PROVE Claimed' /\ Apart'
    OBVIOUS
  <2>1. ASSUME UNCHANGED <<call, busy, handler>> PROVE Claimed' /\ Apart'
    BY <2>1 DEF Claimed, Apart, Holds, Exists, PersonOf
  <2>2. ASSUME NEW h \in Handlers, LoseHandler(h) PROVE Claimed' /\ Apart'
    <3>1. /\ Done(h) /\ busy' = busy
          /\ \A c \in CallIds : Exists(c)' => Exists(c)
      BY <2>2 DEF LoseHandler, Exists
    <3> QED
      BY <3>1, HandlerAfter, HoldsNothingNew, StaysApart
  <2>3. ASSUME NEW c \in CallIds, LoseTimer(c) PROVE Claimed' /\ Apart'
    BY <2>1, <2>3 DEF LoseTimer
  <2>4. CASE UNCHANGED vars
    BY <2>1, <2>4 DEF vars
  <2> QED
    BY <2>2, <2>3, <2>4, BeginsClaimed, ProceedClaimed, ExpireClaimed DEF Next
<1> QED
  BY <1>1, <1>2, TypeInvariant, PTL DEF Spec

(* "One call per person at a time", for any calls, invites sent again,     *)
(* late answers, instances that die and keys that expire: the claims of    *)
(* call.store.ts keep two live calls from sharing a person.                *)
THEOREM OneCallEach == Spec => []OneCallPerPerson
<1>1. Claimed => OneCallPerPerson
  <2> SUFFICES ASSUME Claimed, NEW c \in CallIds, NEW d \in CallIds,
                      Exists(c), Exists(d), c # d
               PROVE  {CallerOf[c], CalleeOf[c]} \cap {CallerOf[d], CalleeOf[d]} = {}
    BY DEF OneCallPerPerson
  <2>1. /\ busy[CallerOf[c]] = c /\ busy[CalleeOf[c]] = c
        /\ busy[CallerOf[d]] = d /\ busy[CalleeOf[d]] = d
    BY DEF Claimed, PersonOf, Ends
  <2> QED
    BY <2>1
<1> QED
  BY <1>1, KeysAreClaimed, PTL

-----------------------------------------------------------------------------
(* What steps do to the handlers.                                          *)

(* Handler h may change, the others do not.                                *)
OnlyHandler(h) == \A g \in Handlers \ {h} : handler'[g] = handler[g]

LEMMA SetsHandler ==
    ASSUME TypeOK, NEW h \in Handlers, NEW new, handler' = [handler EXCEPT ![h] = new]
    PROVE  OnlyHandler(h) /\ handler'[h] = new
  BY DEF TypeOK, OnlyHandler

LEMMA DoneIsIdle ==
    ASSUME TypeOK, NEW h \in Handlers, Done(h)
    PROVE  OnlyHandler(h) /\ handler'[h].step = "idle"
  BY HandlerAfter DEF OnlyHandler

LEMMA GoesTo ==
    ASSUME TypeOK, NEW h \in Handlers, NEW step \in Steps, Goto(h, step)
    PROVE  /\ OnlyHandler(h)
           /\ handler'[h].step = step
           /\ handler'[h].id = handler[h].id
           /\ handler'[h].held = handler[h].held
           /\ handler'[h].read = handler[h].read
<1>1. handler[h] \in Handler /\ handler' = [handler EXCEPT ![h] = [handler[h] EXCEPT !.step = step]]
  BY DEF TypeOK, Goto
<1>2. [handler[h] EXCEPT !.step = step].read = handler[h].read
  BY <1>1 DEF Handler
<1> QED
  BY <1>1, <1>2, SetsHandler, HandlerAfter DEF OnlyHandler

(* An event that is no invite: nothing moves but the handler, which comes  *)
(* to end or to answer the call it read, and a timer that goes off.        *)
LEMMA Begins ==
    ASSUME TypeOK, NEW h \in Handlers,
           \/ \E c \in CallIds, s \in Sockets : BeginAccept(h, c, s) \/ BeginHangUp(h, c, s)
           \/ \E c \in CallIds : RingTimedOut(h, c)
           \/ \E s \in Sockets : SocketGone(h, s)
           \/ EndCallOfSocket(h)
    PROVE  /\ UNCHANGED <<call, busy, ends>>
           /\ OnlyHandler(h)
           /\ handler[h].step \in {"idle", "lookup"}
           /\ handler'[h].step \in {"idle", "lookup", "bind", "finish"}
           /\ \A c \in timers \ timers' :
                call[c].status = "ringing" => handler'[h].id = c /\ handler'[h].step = "finish"
<1>1. ASSUME NEW c, NEW s, NEW reason, EndWhatWasRead(h, c, s, reason)
      PROVE  OnlyHandler(h) /\ handler'[h].step = "finish" /\ handler'[h].id = c
  <2> DEFINE new == [Idle EXCEPT !.step = "finish", !.id = c, !.socket = s,
                                 !.read = call[c], !.reason = reason]
  <2>1. new.step = "finish" /\ new.id = c
    BY DEF Idle
  <2>2. handler' = [handler EXCEPT ![h] = new]
    BY <1>1 DEF EndWhatWasRead
  <2> HIDE DEF new
  <2> QED
    BY <2>1, <2>2, SetsHandler
<1>2. ASSUME NEW c \in CallIds, NEW s \in Sockets, BeginAccept(h, c, s)
      PROVE  /\ OnlyHandler(h) /\ handler'[h].step = "bind" /\ At(h, "idle")
             /\ UNCHANGED <<call, busy, ends, timers>>
  <2> DEFINE new == [Idle EXCEPT !.step = "bind", !.id = c, !.socket = s, !.read = call[c]]
  <2>1. new.step = "bind"
    BY DEF Idle
  <2>2. handler' = [handler EXCEPT ![h] = new]
    BY <1>2 DEF BeginAccept
  <2> HIDE DEF new
  <2> QED
    BY <1>2, <2>1, <2>2, SetsHandler DEF BeginAccept
<1>3. ASSUME NEW c \in CallIds, NEW s \in Sockets, BeginHangUp(h, c, s)
      PROVE  /\ OnlyHandler(h) /\ handler'[h].step = "finish" /\ At(h, "idle")
             /\ UNCHANGED <<call, busy, ends, timers>>
  BY <1>1, <1>3 DEF BeginHangUp
<1>4. ASSUME NEW c \in CallIds, RingTimedOut(h, c)
      PROVE  /\ OnlyHandler(h) /\ At(h, "idle")
             /\ handler'[h].step \in {"idle", "finish"}
             /\ UNCHANGED <<call, busy, ends>>
             /\ timers' = timers \ {c}
             /\ call[c].status = "ringing" => handler'[h].id = c /\ handler'[h].step = "finish"
  BY <1>1, <1>4 DEF RingTimedOut, OnlyHandler, At
<1>5. ASSUME NEW s \in Sockets, SocketGone(h, s)
      PROVE  /\ OnlyHandler(h) /\ At(h, "idle")
             /\ handler'[h].step \in {"idle", "lookup"}
             /\ UNCHANGED <<call, busy, ends, timers>>
  <2> DEFINE new == [Idle EXCEPT !.step = "lookup", !.id = bound[s], !.socket = s]
  <2>1. new.step = "lookup"
    BY DEF Idle
  <2>2. handler' = handler \/ handler' = [handler EXCEPT ![h] = new]
    BY <1>5 DEF SocketGone
  <2> HIDE DEF new
  <2> QED
    BY <1>5, <2>1, <2>2, SetsHandler DEF SocketGone, OnlyHandler, At
<1>6. ASSUME EndCallOfSocket(h)
      PROVE  /\ OnlyHandler(h) /\ At(h, "lookup")
             /\ handler'[h].step \in {"idle", "finish"}
             /\ UNCHANGED <<call, busy, ends, timers>>
  BY <1>1, <1>6, DoneIsIdle DEF EndCallOfSocket
<1> QED
  BY <1>2, <1>3, <1>4, <1>5, <1>6 DEF At

(* An invite begins.                                                       *)
LEMMA BeginsInvite ==
    ASSUME TypeOK, NEW h \in Handlers, NEW c \in CallIds, NEW s \in Sockets, BeginInvite(h, c, s)
    PROVE  /\ UNCHANGED <<call, busy, ends, timers>>
           /\ OnlyHandler(h)
           /\ handler[h].step = "idle"
           /\ handler'[h].step = "claimCaller" /\ handler'[h].id = c
           /\ c \in Retried \/ Unused(c)
<1> DEFINE new == [Idle EXCEPT !.step = "claimCaller", !.id = c, !.socket = s,
                      !.read = [status |-> "ringing", callerSocket |-> s, calleeSocket |-> None]]
<1>1. new.step = "claimCaller" /\ new.id = c
  BY DEF Idle
<1>2. handler' = [handler EXCEPT ![h] = new]
  BY DEF BeginInvite
<1> HIDE DEF new
<1> QED
  BY <1>1, <1>2, SetsHandler DEF BeginInvite, At

(* The call is deleted and the handler that did it has the keys to give    *)
(* back, or there was none and it is done.                                 *)
LEMMA Finishes ==
    ASSUME TypeOK, Attending, NEW h \in Handlers, FinishCall(h)
    PROVE  /\ OnlyHandler(h) /\ handler[h].step = "finish"
           /\ UNCHANGED <<busy, ends, timers>>
           /\ \/ ~Exists(handler[h].id) /\ handler'[h].step = "idle" /\ UNCHANGED call
              \/ /\ Exists(handler[h].id)
                 /\ \A d \in CallIds : call'[d] = IF d = handler[h].id THEN NoCall ELSE call[d]
                 /\ handler'[h].step = "release"
                 /\ handler'[h].id = handler[h].id
                 /\ Ends \subseteq handler'[h].held
<1>1. handler[h].step = "finish" /\ UNCHANGED <<busy, ends, timers>>
  BY DEF FinishCall, At
<1>2. CASE ~Exists(handler[h].id) /\ Done(h) /\ UNCHANGED call
  BY <1>1, <1>2, DoneIsIdle
<1>3. CASE ~(~Exists(handler[h].id) /\ Done(h) /\ UNCHANGED call)
  <2> DEFINE keys == {"caller", "callee", "callerSocket"}
                       \cup IF handler[h].read.calleeSocket = None THEN {} ELSE {"calleeSocket"}
             new == [handler[h] EXCEPT !.step = "release", !.held = keys]
  <2>1. /\ Exists(handler[h].id)
        /\ call' = [call EXCEPT ![handler[h].id] = NoCall]
        /\ handler' = [handler EXCEPT ![h] = new]
    BY <1>3 DEF FinishCall
  <2>2. new.step = "release" /\ new.id = handler[h].id /\ new.held = keys
    <3>1. handler[h] \in Handler
      BY DEF TypeOK
    <3> HIDE DEF keys
    <3> QED
      BY <3>1 DEF Handler
  <2>3. Ends \subseteq keys
    BY DEF Ends
  <2> HIDE DEF new, keys
  <2>4. OnlyHandler(h) /\ handler'[h] = new
    BY <2>1, SetsHandler
  <2>5. \A d \in CallIds : call'[d] = IF d = handler[h].id THEN NoCall ELSE call[d]
    BY <2>1 DEF TypeOK
  <2> QED
    BY <1>1, <2>1, <2>2, <2>3, <2>4, <2>5
<1> QED
  BY <1>2, <1>3

LEMMA ReleasesKey ==
    ASSUME TypeOK, Attending, NEW h \in Handlers, NEW k, ReleaseKey(h, k)
    PROVE  /\ OnlyHandler(h)
           /\ UNCHANGED <<call, ends, timers>>
           /\ handler[h].step = "release" /\ handler'[h].step = "release"
           /\ handler'[h].id = handler[h].id
           /\ handler'[h].held = handler[h].held \ {k}
<1> DEFINE left == handler[h].held \ {k}
           new == [handler[h] EXCEPT !.held = left]
<1>1. /\ handler' = [handler EXCEPT ![h] = new] /\ handler[h].step = "release"
      /\ UNCHANGED <<call, ends, timers>>
  BY DEF ReleaseKey, At
<1>2. new.step = handler[h].step /\ new.id = handler[h].id /\ new.held = left
  <2>1. handler[h] \in Handler
    BY DEF TypeOK
  <2> HIDE DEF left
  <2> QED
    BY <2>1 DEF Handler
<1> HIDE DEF new
<1> QED
  BY <1>1, <1>2, SetsHandler

-----------------------------------------------------------------------------
(* A call ends once.                                                       *)

(* The steps of an invite that has not stored its call, and those of an    *)
(* end that has deleted it.                                                *)
LifeSteps == {"claimCaller", "claimCallee", "unclaim", "store", "release", "logEnd", "announce"}

Carries(h, c) == handler[h].id = c /\ handler[h].step \in LifeSteps

(* The one life of a call id is with the invite, in the key of the call,   *)
(* with the handler that deleted it, or over.                              *)
OneLife ==
    \A c \in CallIds \ Retried :
        /\ ends[c] <= 1
        /\ Exists(c) => ends[c] = 0 /\ \A h \in Handlers : ~Carries(h, c)
        /\ \A h \in Handlers : Carries(h, c) =>
              /\ ends[c] = 0
              /\ \A g \in Handlers \ {h} : ~Carries(g, c)

(* A step that gives no call a second life.                                *)
LEMMA NoNewLife ==
    ASSUME OneLife, NEW h \in Handlers, OnlyHandler(h), ends' = ends,
           \A c \in CallIds : Exists(c)' => Exists(c),
           \/ handler'[h].step \notin LifeSteps
           \/ handler'[h].id = handler[h].id /\ handler[h].step \in LifeSteps
    PROVE  OneLife'
<1>1. \A g \in Handlers, c \in CallIds : Carries(g, c)' => Carries(g, c)
  BY DEF OnlyHandler, Carries
<1>2. ASSUME NEW c \in CallIds \ Retried
      PROVE  /\ ends'[c] <= 1
             /\ Exists(c)' => ends'[c] = 0 /\ \A g \in Handlers : ~Carries(g, c)'
             /\ \A g \in Handlers : Carries(g, c)' =>
                  /\ ends'[c] = 0
                  /\ \A f \in Handlers \ {g} : ~Carries(f, c)'
  BY <1>1 DEF OneLife
<1> QED
  BY <1>2 DEF OneLife

LEMMA ProceedLivesOnce ==
    ASSUME TypeOK, Attending, OneLife, NEW h \in Handlers, Proceed(h)
    PROVE  OneLife'
<1> DEFINE c == handler[h].id
<1>0. ~At(h, "idle") => c \in CallIds
  BY DEF At, Attending
<1>1. CASE ClaimCaller(h) \/ ClaimCallee(h) \/ Unclaim(h) \/ Released(h) \/ LogEnd(h)
  <2>1. UNCHANGED <<call, ends>> /\ handler[h].step \in LifeSteps
    BY <1>1 DEF ClaimCaller, ClaimCallee, Claim, Unclaim, Released, LogEnd, At, LifeSteps
  <2>2. Done(h) \/ \E step \in Steps : Goto(h, step)
    BY <1>1 DEF ClaimCaller, ClaimCallee, Claim, Unclaim, Released, LogEnd, Steps
  <2>3. /\ OnlyHandler(h)
        /\ handler'[h].step \notin LifeSteps \/ handler'[h].id = handler[h].id
    BY <2>2, DoneIsIdle, GoesTo DEF LifeSteps
  <2> QED
    BY <2>1, <2>3, NoNewLife DEF Exists
<1>2. CASE LogInvite(h) \/ BindAnswer(h) \/ LogAnswer(h)
  <2>1. UNCHANGED ends /\ \A d \in CallIds : Exists(d)' => Exists(d)
    BY <1>2 DEF LogInvite, BindAnswer, LogAnswer, Exists, TypeOK
  <2>2. Done(h) \/ \E step \in {"finish", "logAnswer"} : Goto(h, step)
    BY <1>2 DEF LogInvite, BindAnswer, LogAnswer
  <2>3. OnlyHandler(h) /\ handler'[h].step \in {"idle", "finish", "logAnswer"}
    BY <2>2, DoneIsIdle, GoesTo DEF Steps
  <2> QED
    BY <2>1, <2>3, NoNewLife DEF LifeSteps
<1>3. CASE EndCallOfSocket(h)
  BY <1>3, Begins, NoNewLife DEF Exists, LifeSteps
<1>4. CASE StoreCall(h)
  <2>1. c \in CallIds /\ Carries(h, c) /\ UNCHANGED ends
    BY <1>0, <1>4 DEF StoreCall, At, Carries, LifeSteps
  <2>2. OnlyHandler(h) /\ handler'[h].step = "log"
    BY <1>4, GoesTo DEF StoreCall, Steps
  <2>3. \A d \in CallIds : d # c => (Exists(d)' <=> Exists(d))
    BY <1>4 DEF StoreCall, Exists, TypeOK
  <2>4. \A g \in Handlers, d \in CallIds : Carries(g, d)' => Carries(g, d) /\ g # h
    BY <2>2 DEF OnlyHandler, Carries, LifeSteps
  <2>5. ASSUME NEW d \in CallIds \ Retried
        PROVE  /\ ends'[d] <= 1
               /\ Exists(d)' => ends'[d] = 0 /\ \A g \in Handlers : ~Carries(g, d)'
               /\ \A g \in Handlers : Carries(g, d)' =>
                    /\ ends'[d] = 0
                    /\ \A f \in Handlers \ {g} : ~Carries(f, d)'
    <3>1. CASE d = c
      BY <2>1, <2>4, <3>1 DEF OneLife
    <3>2. CASE d # c
      BY <2>1, <2>3, <2>4, <3>2 DEF OneLife
    <3> QED
      BY <3>1, <3>2
  <2> QED
    BY <2>5 DEF OneLife
<1>5. CASE FinishCall(h)
  <2>1. CASE ~Exists(c)
    BY <1>5, <2>1, Finishes, NoNewLife DEF Exists, LifeSteps
  <2>2. CASE Exists(c)
    <3>1. /\ OnlyHandler(h) /\ UNCHANGED ends /\ c \in CallIds
          /\ handler'[h].id = c /\ handler'[h].step = "release"
      BY <1>0, <1>5, <2>2, Finishes DEF FinishCall, At
    <3>2. \A d \in CallIds : Exists(d)' => Exists(d) /\ d # c
      BY <1>5, <2>2, Finishes DEF Exists, NoCall
    <3>3. \A g \in Handlers, d \in CallIds : Carries(g, d)' => Carries(g, d) \/ (g = h /\ d = c)
      BY <3>1 DEF OnlyHandler, Carries
    <3>4. ASSUME NEW d \in CallIds \ Retried
          PROVE  /\ ends'[d] <= 1
                 /\ Exists(d)' => ends'[d] = 0 /\ \A g \in Handlers : ~Carries(g, d)'
                 /\ \A g \in Handlers : Carries(g, d)' =>
                      /\ ends'[d] = 0
                      /\ \A f \in Handlers \ {g} : ~Carries(f, d)'
      <4>1. CASE d = c
        BY <2>2, <3>1, <3>2, <3>3, <4>1 DEF OneLife
      <4>2. CASE d # c
        BY <3>1, <3>2, <3>3, <4>2 DEF OneLife
      <4> QED
        BY <4>1, <4>2
    <3> QED
      BY <3>4 DEF OneLife
  <2> QED
    BY <2>1, <2>2
<1>6. ASSUME NEW k, ReleaseKey(h, k) PROVE OneLife'
  BY <1>6, ReleasesKey, NoNewLife DEF Exists, LifeSteps
<1>7. CASE AnnounceEnd(h)
  <2>1. c \in CallIds /\ Carries(h, c) /\ UNCHANGED call
    BY <1>0, <1>7 DEF AnnounceEnd, At, Carries, LifeSteps
  <2>2. OnlyHandler(h) /\ handler'[h].step = "idle"
    BY <1>7, DoneIsIdle DEF AnnounceEnd
  <2>3. \A g \in Handlers, d \in CallIds : Carries(g, d)' => Carries(g, d) /\ g # h
    BY <2>2 DEF OnlyHandler, Carries, LifeSteps
  <2>4. /\ \A d \in CallIds : d # c => ends'[d] = ends[d]
        /\ ends[c] = 0 => ends'[c] = 1
    BY <1>7, <2>1 DEF AnnounceEnd, TypeOK
  <2>5. ASSUME NEW d \in CallIds \ Retried
        PROVE  /\ ends'[d] <= 1
               /\ Exists(d)' => ends'[d] = 0 /\ \A g \in Handlers : ~Carries(g, d)'
               /\ \A g \in Handlers : Carries(g, d)' =>
                    /\ ends'[d] = 0
                    /\ \A f \in Handlers \ {g} : ~Carries(f, d)'
    <3>1. CASE d = c
      BY <2>1, <2>3, <2>4, <3>1 DEF OneLife, Exists
    <3>2. CASE d # c
      BY <2>1, <2>3, <2>4, <3>2 DEF OneLife, Exists
    <3> QED
      BY <3>1, <3>2
  <2> QED
    BY <2>5 DEF OneLife
<1> QED
  BY <1>1, <1>2, <1>3, <1>4, <1>5, <1>6, <1>7 DEF Proceed

LEMMA NextLivesOnce ==
    ASSUME TypeOK, Attending, OneLife, [Next]_vars
    PROVE  OneLife'
<1>1. ASSUME UNCHANGED <<call, handler, ends>> PROVE OneLife'
  BY <1>1 DEF OneLife, Exists, Carries
<1>2. ASSUME NEW h \in Handlers, NEW c \in CallIds, NEW s \in Sockets, BeginInvite(h, c, s)
      PROVE  OneLife'
  <2>1. /\ UNCHANGED <<call, ends>> /\ OnlyHandler(h)
        /\ handler'[h].step = "claimCaller" /\ handler'[h].id = c
        /\ c \in Retried \/ Unused(c)
    BY <1>2, BeginsInvite
  <2>2. \A g \in Handlers, d \in CallIds : Carries(g, d)' => Carries(g, d) \/ (g = h /\ d = c)
    BY <2>1 DEF OnlyHandler, Carries
  <2>3. Unused(c) => ends[c] = 0 /\ ~Exists(c) /\ \A g \in Handlers : ~Carries(g, c)
    BY DEF Unused, Unattended, HasKeys, Carries
  <2>4. ASSUME NEW d \in CallIds \ Retried
        PROVE  /\ ends'[d] <= 1
               /\ Exists(d)' => ends'[d] = 0 /\ \A g \in Handlers : ~Carries(g, d)'
               /\ \A g \in Handlers : Carries(g, d)' =>
                    /\ ends'[d] = 0
                    /\ \A f \in Handlers \ {g} : ~Carries(f, d)'
    <3>1. CASE d = c
      BY <2>1, <2>2, <2>3, <3>1 DEF Exists
    <3>2. CASE d # c
      BY <2>1, <2>2, <3>2 DEF OneLife, Exists
    <3> QED
      BY <3>1, <3>2
  <2> QED
    BY <2>4 DEF OneLife
<1>3. ASSUME NEW h \in Handlers,
             \/ \E c \in CallIds, s \in Sockets : BeginAccept(h, c, s) \/ BeginHangUp(h, c, s)
             \/ \E c \in CallIds : RingTimedOut(h, c)
             \/ \E s \in Sockets : SocketGone(h, s)
      PROVE  OneLife'
  <2>1. /\ UNCHANGED <<call, ends>> /\ OnlyHandler(h)
        /\ handler'[h].step \in {"idle", "lookup", "bind", "finish"}
    BY <1>3, Begins
  <2> QED
    BY <2>1, NoNewLife DEF Exists, LifeSteps
<1>4. ASSUME NEW h \in Handlers, LoseHandler(h) PROVE OneLife'
  <2>1. UNCHANGED <<call, ends>> /\ OnlyHandler(h) /\ handler'[h].step = "idle"
    BY <1>4, DoneIsIdle DEF LoseHandler
  <2> QED
    BY <2>1, NoNewLife DEF Exists, LifeSteps
<1>5. ASSUME NEW c \in CallIds, Expire(c) PROVE OneLife'
  <2>1. \A d \in CallIds : Exists(d)' => Exists(d)
    BY <1>5 DEF Expire, Exists, NoCall, TypeOK
  <2>2. \A g \in Handlers, d \in CallIds : Carries(g, d)' <=> Carries(g, d)
    BY <1>5 DEF Expire, Carries
  <2> QED
    BY <1>5, <2>1, <2>2 DEF Expire, OneLife
<1>6. ASSUME NEW c \in CallIds, LoseTimer(c) PROVE OneLife'
  BY <1>1, <1>6 DEF LoseTimer
<1>7. CASE UNCHANGED vars
  BY <1>1, <1>7 DEF vars
<1> QED
  BY <1>2, <1>3, <1>4, <1>5, <1>6, <1>7, ProceedLivesOnce DEF Next

LEMMA InitLivesOnce == ASSUME Init PROVE OneLife
  BY DEF Init, OneLife, Exists, NoCall, Carries, Idle, LifeSteps

(* "Ends once, however many ways it is ended at the same time": hang-ups,  *)
(* timers, closed connections and failed invites of a call whose invite is *)
(* sent once make one announcement (call.store.ts, finish).                *)
THEOREM CallEndsOnce == Spec => []EndedOnce
<1>1. OneLife => EndedOnce
  BY DEF OneLife, EndedOnce
<1> QED
  BY <1>1, InitLivesOnce, NextLivesOnce, TypeInvariant, PTL DEF Spec

-----------------------------------------------------------------------------
(* Nobody is left busy.                                                    *)

(* While no instance dies, a busy key is that of a person in a live call,  *)
(* or some handler will give it back or store the call.                    *)
KeyIsOwned(p, c) ==
    \E k \in Ends : /\ p = PersonOf(c, k)
                    /\ Exists(c) \/ \E h \in Handlers : Holds(h, c, k)

Owned == ~Crashes => \A p \in People, c \in CallIds : busy[p] = c => KeyIsOwned(p, c)

(* Keys only go, the calls stay, and what the handler held it still holds, *)
(* but for keys that are gone.                                             *)
LEMMA StaysOwned ==
    ASSUME TypeOK, Owned, NEW h \in Handlers, OnlyHandler(h),
           \A p \in People : busy'[p] \in {busy[p], None},
           \A p \in People, c \in CallIds : busy'[p] = c /\ Exists(c) => Exists(c)',
           \A c \in CallIds, k \in Ends :
              Holds(h, c, k) => Holds(h, c, k)' \/ busy'[PersonOf(c, k)] # c
    PROVE  Owned'
<1>1. ASSUME ~Crashes, NEW p \in People, NEW c \in CallIds, busy'[p] = c
      PROVE  KeyIsOwned(p, c)'
  <2>1. busy[p] = c
    BY <1>1, CallsAssumption
  <2>2. PICK k \in Ends : /\ p = PersonOf(c, k)
                          /\ Exists(c) \/ \E g \in Handlers : Holds(g, c, k)
    BY <1>1, <2>1 DEF Owned, KeyIsOwned
  <2>3. ASSUME NEW g \in Handlers, Holds(g, c, k) PROVE Holds(g, c, k)'
    BY <1>1, <2>2, <2>3 DEF OnlyHandler, Holds
  <2> QED
    BY <1>1, <2>2, <2>3 DEF KeyIsOwned, PersonOf
<1> QED
  BY <1>1 DEF Owned

(* A busy key is claimed by a handler that holds what it held.             *)
LEMMA ClaimsOwned ==
    ASSUME TypeOK, Owned, NEW h \in Handlers, OnlyHandler(h), UNCHANGED call,
           NEW c \in CallIds, NEW key \in Ends, Holds(h, c, key)',
           busy' = [busy EXCEPT ![PersonOf(c, key)] = c],
           \A d \in CallIds, k \in Ends : Holds(h, d, k) => Holds(h, d, k)'
    PROVE  Owned'
<1>0. PersonOf(c, key) \in People
  BY CallsAssumption DEF PersonOf
<1>1. ASSUME ~Crashes, NEW p \in People, NEW d \in CallIds, busy'[p] = d
      PROVE  KeyIsOwned(p, d)'
  <2>1. CASE p = PersonOf(c, key)
    <3>1. d = c
      BY <1>0, <1>1, <2>1 DEF TypeOK
    <3> QED
      BY <2>1, <3>1 DEF KeyIsOwned, PersonOf
  <2>2. CASE p # PersonOf(c, key)
    <3>1. busy[p] = d
      BY <1>0, <1>1, <2>2 DEF TypeOK
    <3>2. PICK k \in Ends : /\ p = PersonOf(d, k)
                            /\ Exists(d) \/ \E g \in Handlers : Holds(g, d, k)
      BY <1>1, <3>1 DEF Owned, KeyIsOwned
    <3>3. ASSUME NEW g \in Handlers, Holds(g, d, k) PROVE Holds(g, d, k)'
      BY <3>3 DEF OnlyHandler, Holds
    <3> QED
      BY <3>2, <3>3 DEF KeyIsOwned, PersonOf, Exists
  <2> QED
    BY <2>1, <2>2
<1> QED
  BY <1>1 DEF Owned

(* An invite that has yet to store its call carries one that rings.        *)
InvitesRing ==
    \A h \in Handlers :
        handler[h].step \in {"claimCaller", "claimCallee", "store"} =>
            handler[h].read.status = "ringing"

LEMMA InitRings == ASSUME Init PROVE InvitesRing
  BY DEF Init, InvitesRing, Idle

LEMMA NextRings ==
    ASSUME TypeOK, Attending, InvitesRing, [Next]_vars
    PROVE  InvitesRing'
<1>1. ASSUME UNCHANGED handler PROVE InvitesRing'
  BY <1>1 DEF InvitesRing
<1>2. ASSUME NEW h \in Handlers, OnlyHandler(h),
             \/ handler'[h].step \notin {"claimCaller", "claimCallee", "store"}
             \/ /\ handler'[h].read = handler[h].read
                /\ handler[h].step \in {"claimCaller", "claimCallee", "store"}
      PROVE  InvitesRing'
  BY <1>2 DEF InvitesRing, OnlyHandler
<1>3. ASSUME NEW h \in Handlers, NEW c \in CallIds, NEW s \in Sockets, BeginInvite(h, c, s)
      PROVE  InvitesRing'
  <2> DEFINE ringing == [status |-> "ringing", callerSocket |-> s, calleeSocket |-> None]
             new == [Idle EXCEPT !.step = "claimCaller", !.id = c, !.socket = s, !.read = ringing]
  <2>1. new.read.status = "ringing"
    BY DEF Idle
  <2>2. handler' = [handler EXCEPT ![h] = new]
    BY <1>3 DEF BeginInvite
  <2> HIDE DEF new
  <2> QED
    BY <2>1, <2>2, SetsHandler DEF InvitesRing, OnlyHandler
<1>4. ASSUME NEW h \in Handlers,
             \/ \E c \in CallIds, s \in Sockets : BeginAccept(h, c, s) \/ BeginHangUp(h, c, s)
             \/ \E c \in CallIds : RingTimedOut(h, c)
             \/ \E s \in Sockets : SocketGone(h, s)
             \/ EndCallOfSocket(h)
      PROVE  InvitesRing'
  <2>1. OnlyHandler(h) /\ handler'[h].step \in {"idle", "lookup", "bind", "finish"}
    BY <1>4, Begins
  <2> QED
    BY <1>2, <2>1
<1>5. ASSUME NEW h \in Handlers, Done(h) PROVE InvitesRing'
  BY <1>2, <1>5, DoneIsIdle
<1>6. ASSUME NEW h \in Handlers, NEW step \in Steps, Goto(h, step),
             step \in {"claimCallee", "store"} => handler[h].step \in {"claimCaller", "claimCallee"},
             step # "claimCaller"
      PROVE  InvitesRing'
  BY <1>2, <1>6, GoesTo
<1>7. ASSUME NEW h \in Handlers, Proceed(h) PROVE InvitesRing'
  <2>1. CASE ClaimCaller(h)
    BY <1>5, <1>6, <2>1 DEF ClaimCaller, Claim, At, Steps
  <2>2. CASE ClaimCallee(h)
    BY <1>5, <1>6, <2>2 DEF ClaimCallee, Claim, At, Steps
  <2>3. CASE \/ Unclaim(h) \/ StoreCall(h) \/ LogInvite(h) \/ BindAnswer(h) \/ LogAnswer(h)
             \/ Released(h) \/ LogEnd(h) \/ AnnounceEnd(h)
    <3>1. Done(h) \/ \E step \in {"log", "finish", "logAnswer", "logEnd", "announce"} : Goto(h, step)
      BY <2>3 DEF Unclaim, StoreCall, LogInvite, BindAnswer, LogAnswer, Released, LogEnd, AnnounceEnd
    <3> QED
      BY <1>5, <1>6, <3>1 DEF Steps
  <2>4. CASE FinishCall(h)
    BY <1>2, <2>4, Finishes
  <2>5. ASSUME NEW k, ReleaseKey(h, k) PROVE InvitesRing'
    BY <1>2, <2>5, ReleasesKey
  <2> QED
    BY <1>4, <1>7, <2>1, <2>2, <2>3, <2>4, <2>5 DEF Proceed
<1> QED
  BY <1>1, <1>3, <1>4, <1>5, <1>7 DEF Next, LoseHandler, LoseTimer, Expire, vars

LEMMA ProceedOwned ==
    ASSUME TypeOK, Attending, InvitesRing, Owned, NEW h \in Handlers, Proceed(h)
    PROVE  Owned'
<1>c. PICK c : c = handler[h].id
  OBVIOUS
<1> USE <1>c
<1>0. ~At(h, "idle") => c \in CallIds
  BY DEF At, Attending
<1>p. /\ PersonOf(c, "caller") = CallerOf[c] /\ PersonOf(c, "callee") = CalleeOf[c]
      /\ "caller" \in Ends /\ "callee" \in Ends
  BY DEF PersonOf, Ends
<1>1. CASE ClaimCaller(h)
  <2>1. c \in CallIds /\ handler[h].step = "claimCaller" /\ UNCHANGED call
    BY <1>0, <1>1 DEF ClaimCaller, Claim, At
  <2>2. CASE busy[CallerOf[c]] = None
    <3>1. Goto(h, "claimCallee") /\ busy' = [busy EXCEPT ![CallerOf[c]] = c]
      BY <1>1, <2>2 DEF ClaimCaller, Claim
    <3>2. OnlyHandler(h) /\ handler'[h].step = "claimCallee" /\ handler'[h].id = c
      BY <3>1, GoesTo DEF Steps
    <3>3. Holds(h, c, "caller")' /\ \A d \in CallIds, k \in Ends : ~Holds(h, d, k)
      BY <2>1, <3>2 DEF Holds
    <3> QED
      BY <1>p, <2>1, <3>1, <3>2, <3>3, ClaimsOwned
  <2>3. CASE busy[CallerOf[c]] # None
    <3>1. Done(h) /\ UNCHANGED busy
      BY <1>1, <2>3 DEF ClaimCaller, Claim
    <3>2. \A d \in CallIds, k \in Ends : ~Holds(h, d, k)
      BY <2>1 DEF Holds
    <3> QED
      BY <2>1, <3>1, <3>2, DoneIsIdle, StaysOwned DEF Exists
  <2> QED
    BY <2>2, <2>3
<1>2. CASE ClaimCallee(h)
  <2>1. c \in CallIds /\ handler[h].step = "claimCallee" /\ UNCHANGED call
    BY <1>0, <1>2 DEF ClaimCallee, Claim, At
  <2>2. CASE busy[CalleeOf[c]] = None
    <3>1. Goto(h, "store") /\ busy' = [busy EXCEPT ![CalleeOf[c]] = c]
      BY <1>2, <2>2 DEF ClaimCallee, Claim
    <3>2. OnlyHandler(h) /\ handler'[h].step = "store" /\ handler'[h].id = c
      BY <3>1, GoesTo DEF Steps
    <3>3. /\ Holds(h, c, "callee")'
          /\ \A d \in CallIds, k \in Ends : Holds(h, d, k) => Holds(h, d, k)'
      BY <2>1, <3>2 DEF Holds
    <3> QED
      BY <1>p, <2>1, <3>1, <3>2, <3>3, ClaimsOwned
  <2>3. CASE busy[CalleeOf[c]] # None
    <3>1. Goto(h, "unclaim") /\ UNCHANGED busy
      BY <1>2, <2>3 DEF ClaimCallee, Claim
    <3>2. OnlyHandler(h) /\ handler'[h].step = "unclaim" /\ handler'[h].id = c
      BY <3>1, GoesTo DEF Steps
    <3>3. \A d \in CallIds, k \in Ends : Holds(h, d, k) => Holds(h, d, k)'
      BY <2>1, <3>2 DEF Holds
    <3> QED
      BY <2>1, <3>1, <3>2, <3>3, StaysOwned DEF Exists
  <2> QED
    BY <2>2, <2>3
<1>3. CASE Unclaim(h)
  <2>1. /\ c \in CallIds /\ handler[h].step = "unclaim" /\ UNCHANGED call
        /\ busy' = BusyWithout(CallerOf[c], c) /\ Done(h)
    BY <1>0, <1>3 DEF Unclaim, At
  <2>2. CallerOf[c] \in People /\ None \notin CallIds
    BY <2>1, CallsAssumption
  <2>3. /\ \A p \in People : busy'[p] \in {busy[p], None}
        /\ busy'[CallerOf[c]] # c
    BY <2>1, <2>2 DEF BusyWithout, TypeOK
  <2>4. \A d \in CallIds, k \in Ends : Holds(h, d, k) => d = c /\ k = "caller"
    BY <2>1 DEF Holds
  <2> QED
    BY <1>p, <2>1, <2>3, <2>4, DoneIsIdle, StaysOwned DEF Exists
<1>4. CASE StoreCall(h)
  <2>1. c \in CallIds /\ handler[h].step = "store" /\ UNCHANGED busy
    BY <1>0, <1>4 DEF StoreCall, At
  <2>2. /\ call'[c] = handler[h].read /\ \A d \in CallIds : d # c => call'[d] = call[d]
        /\ OnlyHandler(h)
    BY <1>4, <2>1, GoesTo DEF StoreCall, Steps, TypeOK
  <2>3. Exists(c)' /\ \A d \in CallIds : Exists(d) => Exists(d)'
    BY <2>1, <2>2 DEF InvitesRing, Exists
  <2>4. ASSUME ~Crashes, NEW p \in People, NEW d \in CallIds, busy[p] = d
        PROVE  KeyIsOwned(p, d)'
    <3>1. PICK k \in Ends : /\ p = PersonOf(d, k)
                            /\ Exists(d) \/ \E g \in Handlers : Holds(g, d, k)
      BY <2>4 DEF Owned, KeyIsOwned
    <3>2. ASSUME NEW g \in Handlers, Holds(g, d, k) PROVE Exists(d)' \/ Holds(g, d, k)'
      <4>1. CASE g = h
        BY <2>1, <2>3, <3>2, <4>1 DEF Holds
      <4>2. CASE g # h
        BY <2>2, <3>2, <4>2 DEF Holds, OnlyHandler
      <4> QED
        BY <4>1, <4>2
    <3> QED
      BY <2>3, <3>1, <3>2 DEF KeyIsOwned, PersonOf
  <2> QED
    BY <2>1, <2>4 DEF Owned
<1>5. CASE LogInvite(h) \/ BindAnswer(h) \/ LogAnswer(h) \/ LogEnd(h) \/ AnnounceEnd(h) \/ Released(h)
  <2>1. /\ UNCHANGED busy /\ \A d \in CallIds : Exists(d) => Exists(d)'
        /\ \A k \in Ends : ~Holds(h, c, k)
    <3>1. CASE BindAnswer(h)
      <4>1. handler[h].read \in LiveCall /\ handler[h].step = "bind" /\ UNCHANGED busy
        BY <3>1 DEF BindAnswer, At, TypeOK, Handler
      <4> DEFINE answered == [handler[h].read EXCEPT !.status = "active",
                                                     !.calleeSocket = handler[h].socket]
      <4>2. answered.status = "active"
        BY <4>1 DEF LiveCall
      <4>3. call' = call \/ call' = [call EXCEPT ![c] = answered]
        BY <3>1 DEF BindAnswer
      <4> HIDE DEF answered
      <4> QED
        BY <4>1, <4>2, <4>3 DEF Exists, TypeOK, Holds
    <3>2. CASE ~BindAnswer(h)
      BY <1>5, <3>2 DEF LogInvite, LogAnswer, LogEnd, AnnounceEnd, Released, At, Holds, Exists
    <3> QED
      BY <3>1, <3>2
  <2>2. Done(h) \/ \E step \in Steps : Goto(h, step)
    BY <1>5 DEF LogInvite, BindAnswer, LogAnswer, LogEnd, AnnounceEnd, Released, Steps
  <2>3. OnlyHandler(h)
    BY <2>2, DoneIsIdle, GoesTo
  <2>4. \A d \in CallIds, k \in Ends : ~Holds(h, d, k)
    BY <2>1 DEF Holds
  <2> QED
    BY <2>1, <2>3, <2>4, StaysOwned
<1>6. CASE EndCallOfSocket(h)
  BY <1>6, Begins, StaysOwned DEF Exists, Holds
<1>7. CASE FinishCall(h)
  <2>1. c \in CallIds /\ handler[h].step = "finish" /\ OnlyHandler(h) /\ UNCHANGED busy
    BY <1>0, <1>7, Finishes DEF FinishCall, At
  <2>2. \A d \in CallIds, k \in Ends : ~Holds(h, d, k)
    BY <2>1 DEF Holds
  <2>3. CASE UNCHANGED call
    BY <2>1, <2>2, <2>3, StaysOwned DEF Exists
  <2>4. CASE ~UNCHANGED call
    <3>1. /\ \A d \in CallIds : d # c => (Exists(d) => Exists(d)')
          /\ \A k \in Ends : Holds(h, c, k)'
      BY <1>7, <2>4, Finishes DEF Exists, Holds
    <3>2. ASSUME ~Crashes, NEW p \in People, NEW d \in CallIds, busy[p] = d
          PROVE  KeyIsOwned(p, d)'
      <4>1. PICK k \in Ends : /\ p = PersonOf(d, k)
                              /\ Exists(d) \/ \E g \in Handlers : Holds(g, d, k)
        BY <3>2 DEF Owned, KeyIsOwned
      <4>2. CASE d = c
        BY <3>1, <4>1, <4>2 DEF KeyIsOwned, PersonOf
      <4>3. CASE d # c
        <5>1. ASSUME NEW g \in Handlers, Holds(g, d, k) PROVE Holds(g, d, k)'
          BY <2>1, <2>2, <5>1 DEF OnlyHandler, Holds
        <5> QED
          BY <3>1, <4>1, <4>3, <5>1 DEF KeyIsOwned, PersonOf
      <4> QED
        BY <4>2, <4>3
    <3> QED
      BY <2>1, <3>2 DEF Owned
  <2> QED
    BY <2>3, <2>4
<1>8. ASSUME NEW k \in {"caller", "callee", "callerSocket", "calleeSocket"}, ReleaseKey(h, k)
      PROVE  Owned'
  <2>1. /\ c \in CallIds /\ OnlyHandler(h) /\ UNCHANGED call
        /\ handler[h].step = "release" /\ handler'[h].step = "release"
        /\ handler'[h].id = c /\ handler'[h].held = handler[h].held \ {k}
    BY <1>0, <1>8, ReleasesKey DEF ReleaseKey, At
  <2>2. None \notin CallIds /\ CallerOf[c] \in People /\ CalleeOf[c] \in People
    BY <2>1, CallsAssumption
  <2>3. /\ \A p \in People : busy'[p] \in {busy[p], None}
        /\ k \in Ends => busy'[PersonOf(c, k)] # c
    BY <1>8, <2>1, <2>2 DEF ReleaseKey, BusyWithout, TypeOK, PersonOf, Ends
  <2>4. \A d \in CallIds, j \in Ends : Holds(h, d, j) => Holds(h, d, j)' \/ (d = c /\ j = k)
    BY <2>1 DEF Holds
  <2> QED
    BY <2>1, <2>3, <2>4, StaysOwned DEF Exists
<1> QED
  BY <1>1, <1>2, <1>3, <1>4, <1>5, <1>6, <1>7, <1>8 DEF Proceed

LEMMA NextOwned ==
    ASSUME TypeOK, Attending, InvitesRing, Owned, [Next]_vars
    PROVE  Owned'
<1>1. ASSUME UNCHANGED <<call, busy, handler>> PROVE Owned'
  BY <1>1 DEF Owned, KeyIsOwned, PersonOf, Exists, Holds
<1>2. ASSUME NEW h \in Handlers, NEW c \in CallIds, NEW s \in Sockets, BeginInvite(h, c, s)
      PROVE  Owned'
  BY <1>2, BeginsInvite, StaysOwned DEF Exists, Holds
<1>3. ASSUME NEW h \in Handlers,
             \/ \E c \in CallIds, s \in Sockets : BeginAccept(h, c, s) \/ BeginHangUp(h, c, s)
             \/ \E c \in CallIds : RingTimedOut(h, c)
             \/ \E s \in Sockets : SocketGone(h, s)
      PROVE  Owned'
  <2>1. UNCHANGED <<call, busy>> /\ OnlyHandler(h) /\ handler[h].step \in {"idle", "lookup"}
    BY <1>3, Begins
  <2> QED
    BY <2>1, StaysOwned DEF Exists, Holds
<1>4. ASSUME NEW h \in Handlers, LoseHandler(h) PROVE Owned'
  BY <1>4 DEF LoseHandler, Owned
<1>5. ASSUME NEW c \in CallIds, Expire(c) PROVE Owned'
  <2>1. ASSUME ~Crashes, NEW p \in People, NEW d \in CallIds, busy'[p] = d
        PROVE  KeyIsOwned(p, d)'
    <3>1. busy[p] = d /\ d # c
      BY <1>5, <2>1, CallsAssumption DEF Expire
    <3>2. call'[d] = call[d] /\ UNCHANGED handler
      BY <1>5, <3>1 DEF Expire, TypeOK
    <3> QED
      BY <2>1, <3>1, <3>2 DEF Owned, KeyIsOwned, PersonOf, Exists, Holds
  <2> QED
    BY <2>1 DEF Owned
<1>6. ASSUME NEW c \in CallIds, LoseTimer(c) PROVE Owned'
  BY <1>1, <1>6 DEF LoseTimer
<1>7. CASE UNCHANGED vars
  BY <1>1, <1>7 DEF vars
<1> QED
  BY <1>2, <1>3, <1>4, <1>5, <1>6, <1>7, ProceedOwned DEF Next

(* While no instance dies, nobody stays busy with a call that is over once *)
(* the handlers at work are done, for any calls and handlers: every way    *)
(* out of an invite or a call gives the keys back (call.store.ts).         *)
THEOREM NobodyStaysBusy == Spec => []NobodyLeftBusy
<1>1. Init => Owned
  BY CallsAssumption DEF Init, Owned
<1>2. TypeOK /\ Owned => NobodyLeftBusy
  <2>1. ASSUME TypeOK, Owned, ~Crashes, NEW p \in People, busy[p] # None
        PROVE  Exists(busy[p]) \/ ~Unattended(busy[p])
    <3>1. PICK c \in CallIds : c = busy[p]
      BY <2>1, CallsAssumption DEF TypeOK
    <3> QED
      BY <2>1, <3>1 DEF Owned, KeyIsOwned, Holds, Unattended
  <2> QED
    BY <2>1 DEF NobodyLeftBusy
<1> QED
  BY <1>1, <1>2, NextOwned, InitRings, NextRings, TypeInvariant, PTL DEF Spec

-----------------------------------------------------------------------------
(* What rings stops ringing.                                               *)

(* While no instance dies, a call that rings has a timer, or a handler     *)
(* that is about to set it or to end the call.                             *)
Timed ==
    ~Crashes => \A c \in CallIds \ Retried :
        call[c].status = "ringing" =>
            c \in timers \/ \E h \in Handlers : /\ handler[h].id = c
                                                /\ handler[h].step \in {"log", "finish"}

(* No call starts to ring, and neither a timer nor a handler that stops a  *)
(* ringing one is lost.                                                    *)
LEMMA StaysTimed ==
    ASSUME Timed, NEW h \in Handlers, OnlyHandler(h),
           \A c \in CallIds : call'[c].status = "ringing" => call[c].status = "ringing",
           \A c \in CallIds \ Retried :
              call'[c].status = "ringing" =>
                \/ c \in timers'
                \/ handler'[h].id = c /\ handler'[h].step = "finish"
                \/ /\ c \notin timers
                   /\ ~(handler[h].id = c /\ handler[h].step \in {"log", "finish"})
    PROVE  Timed'
  BY DEF Timed, OnlyHandler

LEMMA ProceedTimed ==
    ASSUME TypeOK, Attending, OneLife, Timed, NEW h \in Handlers, Proceed(h)
    PROVE  Timed'
<1> DEFINE c == handler[h].id
<1>0. ~At(h, "idle") => c \in CallIds
  BY DEF At, Attending
<1>1. CASE ClaimCaller(h) \/ ClaimCallee(h) \/ Unclaim(h) \/ LogAnswer(h) \/ LogEnd(h) \/ AnnounceEnd(h)
  <2>1. /\ UNCHANGED <<call, timers>>
        /\ handler[h].step \notin {"log", "finish"}
        /\ Done(h) \/ \E step \in Steps : Goto(h, step)
    BY <1>1 DEF ClaimCaller, ClaimCallee, Claim, Unclaim, LogAnswer, LogEnd, AnnounceEnd, At, Steps
  <2>2. OnlyHandler(h)
    BY <2>1, DoneIsIdle, GoesTo
  <2> QED
    BY <2>1, <2>2, StaysTimed
<1>2. CASE Released(h)
  <2>1. /\ UNCHANGED call /\ timers \ timers' \subseteq {c} /\ handler[h].step = "release"
        /\ Done(h) \/ \E step \in Steps : Goto(h, step)
    BY <1>2 DEF Released, At, Steps
  <2>2. OnlyHandler(h)
    BY <2>1, DoneIsIdle, GoesTo
  <2>3. c \in CallIds \ Retried => call[c].status # "ringing"
    BY <2>1 DEF OneLife, Carries, LifeSteps, Exists
  <2> QED
    BY <2>1, <2>2, <2>3, StaysTimed
<1>3. CASE StoreCall(h)
  <2>1. c \in CallIds /\ UNCHANGED timers /\ \A d \in CallIds : d # c => call'[d] = call[d]
    BY <1>0, <1>3 DEF StoreCall, At, TypeOK
  <2>2. OnlyHandler(h) /\ handler'[h].step = "log" /\ handler'[h].id = c /\ handler[h].step = "store"
    BY <1>3, GoesTo DEF StoreCall, Steps, At
  <2>3. ASSUME ~Crashes, NEW d \in CallIds \ Retried, call'[d].status = "ringing"
        PROVE  d \in timers' \/ \E g \in Handlers : /\ handler'[g].id = d
                                                    /\ handler'[g].step \in {"log", "finish"}
    <3>1. CASE d = c
      BY <2>2, <3>1
    <3>2. CASE d # c
      BY <2>1, <2>2, <2>3, <3>2 DEF Timed, OnlyHandler
    <3> QED
      BY <3>1, <3>2
  <2> QED
    BY <2>3 DEF Timed
<1>4. CASE LogInvite(h)
  <2>1. /\ UNCHANGED call /\ c \in CallIds
        /\ timers \subseteq timers'
        /\ (Done(h) /\ c \in timers') \/ Goto(h, "finish")
    BY <1>0, <1>4 DEF LogInvite, At
  <2>2. OnlyHandler(h)
    BY <2>1, DoneIsIdle, GoesTo DEF Steps
  <2>3. c \in timers' \/ (handler'[h].id = c /\ handler'[h].step = "finish")
    BY <2>1, GoesTo DEF Steps
  <2> QED
    BY <2>1, <2>2, <2>3, StaysTimed
<1>5. CASE BindAnswer(h)
  <2> DEFINE answered == [handler[h].read EXCEPT !.status = "active",
                                                 !.calleeSocket = handler[h].socket]
  <2>1. handler[h].read \in LiveCall /\ handler[h].step = "bind" /\ c \in CallIds
    BY <1>0, <1>5 DEF BindAnswer, At, TypeOK, Handler
  <2>2. answered.status = "active"
    BY <2>1 DEF LiveCall
  <2>3. /\ call' = IF Exists(c) THEN [call EXCEPT ![c] = answered] ELSE call
        /\ timers' \in {timers, timers \ {c}}
    BY <1>5 DEF BindAnswer
  <2> HIDE DEF answered
  <2>4. call'[c].status # "ringing" /\ \A d \in CallIds : d # c => call'[d] = call[d]
    BY <2>1, <2>2, <2>3 DEF Exists, TypeOK
  <2>5. OnlyHandler(h)
    BY <1>5, GoesTo DEF BindAnswer, Steps
  <2> QED
    BY <2>1, <2>3, <2>4, <2>5, StaysTimed
<1>6. CASE EndCallOfSocket(h)
  <2>1. UNCHANGED <<call, timers>> /\ OnlyHandler(h) /\ handler[h].step = "lookup"
    BY <1>6, Begins DEF EndCallOfSocket, At
  <2> QED
    BY <2>1, StaysTimed
<1>7. CASE FinishCall(h)
  <2>1. c \in CallIds /\ OnlyHandler(h) /\ UNCHANGED timers
    BY <1>0, <1>7, Finishes DEF FinishCall, At
  <2>2. call'[c].status # "ringing" /\ \A d \in CallIds : d # c => call'[d] = call[d]
    BY <1>7, <2>1, Finishes DEF Exists, NoCall
  <2> QED
    BY <2>1, <2>2, StaysTimed
<1>8. ASSUME NEW k, ReleaseKey(h, k) PROVE Timed'
  <2>1. UNCHANGED <<call, timers>> /\ OnlyHandler(h) /\ handler[h].step = "release"
    BY <1>8, ReleasesKey
  <2> QED
    BY <2>1, StaysTimed
<1> QED
  BY <1>1, <1>2, <1>3, <1>4, <1>5, <1>6, <1>7, <1>8 DEF Proceed

LEMMA NextTimed ==
    ASSUME TypeOK, Attending, OneLife, Timed, [Next]_vars
    PROVE  Timed'
<1>1. ASSUME UNCHANGED <<call, timers, handler>> PROVE Timed'
  BY <1>1 DEF Timed
<1>2. ASSUME NEW h \in Handlers, NEW c \in CallIds, NEW s \in Sockets, BeginInvite(h, c, s)
      PROVE  Timed'
  BY <1>2, BeginsInvite, StaysTimed
<1>3. ASSUME NEW h \in Handlers,
             \/ \E c \in CallIds, s \in Sockets : BeginAccept(h, c, s) \/ BeginHangUp(h, c, s)
             \/ \E c \in CallIds : RingTimedOut(h, c)
             \/ \E s \in Sockets : SocketGone(h, s)
      PROVE  Timed'
  <2>1. /\ UNCHANGED call /\ OnlyHandler(h) /\ handler[h].step \in {"idle", "lookup"}
        /\ \A c \in timers \ timers' :
             call[c].status = "ringing" => handler'[h].id = c /\ handler'[h].step = "finish"
    BY <1>3, Begins
  <2> QED
    BY <2>1, StaysTimed
<1>4. ASSUME Crashes PROVE Timed'
  BY <1>4 DEF Timed
<1>5. ASSUME NEW c \in CallIds, Expire(c) PROVE Timed'
  <2>1. /\ UNCHANGED <<timers, handler>>
        /\ \A d \in CallIds : call'[d].status = "ringing" => call[d].status = "ringing"
    BY <1>5 DEF Expire, NoCall, TypeOK
  <2> QED
    BY <2>1 DEF Timed
<1>6. CASE UNCHANGED vars
  BY <1>1, <1>6 DEF vars
<1> QED
  BY <1>2, <1>3, <1>4, <1>5, <1>6, ProceedTimed DEF Next, LoseHandler, LoseTimer

(* While no instance dies, a call that rings and that no handler works on  *)
(* has a timer that will stop it, for any calls, handlers and answers:     *)
(* only an answer or an end clears it (calls.service.ts).                  *)
THEOREM RingingIsTimed == Spec => []RingingHasTimer
<1>1. Init => Timed
  BY DEF Init, Timed, NoCall
<1>2. Timed => RingingHasTimer
  BY DEF Timed, RingingHasTimer, Unattended
<1> QED
  BY <1>1, <1>2, NextTimed, InitLivesOnce, NextLivesOnce, TypeInvariant, PTL DEF Spec

-----------------------------------------------------------------------------
(* Calls implements CallLines.                                             *)

(* The line of one call moves with its key.                                *)
LEMMA LineMoves ==
    ASSUME TypeOK, NEW c \in CallIds, NEW new \in LiveCall,
           call' = [call EXCEPT ![c] = new]
    PROVE  Line' = [Line EXCEPT ![c] = new.status]
BY DEF TypeOK, Line

(* An invite that stores its call makes it ring: it is not there yet, and  *)
(* neither person is in another, since both busy keys are its own.         *)
LEMMA StoredRings ==
    ASSUME TypeOK, Attending, Claimed, Apart, InvitesRing,
           NEW h \in Handlers, StoreCall(h)
    PROVE  Lines!Ring(handler[h].id)
<1> DEFINE c == handler[h].id
<1>1. c \in CallIds /\ handler[h].read \in LiveCall /\ handler[h].read.status = "ringing"
  BY DEF StoreCall, At, Attending, InvitesRing, TypeOK, Handler
<1>2. Holds(h, c, "caller") /\ Holds(h, c, "callee")
  BY DEF StoreCall, At, Holds
<1>3. /\ busy[CallerOf[c]] = c /\ busy[CalleeOf[c]] = c
      /\ ~Exists(c)
  BY <1>1, <1>2 DEF Claimed, PersonOf, Ends
<1>4. CallerOf[c] # CalleeOf[c]
  BY DEF StoreCall, At, Apart
<1>5. \A d \in CallIds : Exists(d) => busy[CallerOf[d]] = d /\ busy[CalleeOf[d]] = d
  BY DEF Claimed, PersonOf, Ends
<1>6. \A d \in CallIds : Line[d] # "none" <=> Exists(d)
  BY DEF Line, Exists
<1>7. \A d \in CallIds : Line[d] # "none" =>
         {CallerOf[c], CalleeOf[c]} \cap {CallerOf[d], CalleeOf[d]} = {}
  BY <1>3, <1>5, <1>6
<1>8. Line' = [Line EXCEPT ![c] = "ringing"]
  BY <1>1, LineMoves DEF StoreCall
<1> QED
  BY <1>1, <1>3, <1>4, <1>6, <1>7, <1>8 DEF Lines!Ring, Lines!PeopleIn

(* An accept makes a call active that still rings, leaves one active that  *)
(* is, and does nothing to one that is over.                               *)
LEMMA BoundAnswers ==
    ASSUME TypeOK, Attending, NEW h \in Handlers, BindAnswer(h)
    PROVE  Lines!Answer(handler[h].id) \/ UNCHANGED Line
<1> DEFINE c == handler[h].id
           answered == [handler[h].read EXCEPT !.status = "active",
                                               !.calleeSocket = handler[h].socket]
<1>1. c \in CallIds /\ handler[h].read \in LiveCall
  BY DEF BindAnswer, At, Attending, TypeOK, Handler
<1>2. answered \in LiveCall /\ answered.status = "active"
  BY <1>1 DEF LiveCall, TypeOK, Handler
<1>3. call' = IF Exists(c) THEN [call EXCEPT ![c] = answered] ELSE call
  BY DEF BindAnswer
<1> HIDE DEF c, answered
<1>4. CASE ~Exists(c)
  BY <1>3, <1>4 DEF Line
<1>5. CASE Exists(c)
  <2>1. Line' = [Line EXCEPT ![c] = "active"]
    BY <1>1, <1>2, <1>3, <1>5, LineMoves
  <2>2. Line[c] \in {"ringing", "active"}
    BY <1>1, <1>5 DEF Line, Exists, TypeOK, LiveCall
  <2>3. CASE Line[c] = "ringing"
    BY <2>1, <2>3 DEF Lines!Answer, c
  <2>4. CASE Line[c] = "active"
    BY <1>1, <2>1, <2>4 DEF Line
  <2> QED
    BY <2>2, <2>3, <2>4
<1> QED
  BY <1>4, <1>5

(* A call whose key is deleted, or runs out, is over.                      *)
LEMMA GoneIsOver ==
    ASSUME TypeOK, NEW c \in CallIds, call' = [call EXCEPT ![c] = NoCall]
    PROVE  Lines!End(c) \/ UNCHANGED Line
<1>1. NoCall \in LiveCall /\ NoCall.status = "none"
  BY DEF NoCall, LiveCall
<1>2. Line' = [Line EXCEPT ![c] = "none"]
  BY <1>1, LineMoves
<1>3. CASE Line[c] = "none"
  BY <1>2, <1>3 DEF Line
<1>4. CASE Line[c] # "none"
  BY <1>2, <1>4 DEF Lines!End
<1> QED
  BY <1>3, <1>4

(* Every other step leaves the calls as they are.                          *)
LEMMA StepImplementsLines ==
    ASSUME TypeOK, Attending, Claimed, Apart, InvitesRing, [Next]_vars
    PROVE  [Lines!Next]_Line
<1>1. ASSUME UNCHANGED call PROVE [Lines!Next]_Line
  BY <1>1 DEF Line
<1>2. ASSUME NEW h \in Handlers, Proceed(h) PROVE [Lines!Next]_Line
  <2>1. CASE \/ ClaimCaller(h) \/ ClaimCallee(h) \/ Unclaim(h) \/ LogInvite(h)
             \/ LogAnswer(h) \/ EndCallOfSocket(h)
             \/ \E k \in {"caller", "callee", "callerSocket", "calleeSocket"} : ReleaseKey(h, k)
             \/ Released(h) \/ LogEnd(h) \/ AnnounceEnd(h)
    BY <1>1, <2>1 DEF ClaimCaller, ClaimCallee, Claim, Unclaim, LogInvite, LogAnswer,
                      EndCallOfSocket, ReleaseKey, Released, LogEnd, AnnounceEnd
  <2>2. CASE StoreCall(h)
    <3>1. handler[h].id \in CallIds
      BY <2>2 DEF StoreCall, At, Attending
    <3> QED
      BY <2>2, <3>1, StoredRings DEF Lines!Next
  <2>3. CASE BindAnswer(h)
    <3>1. handler[h].id \in CallIds
      BY <2>3 DEF BindAnswer, At, Attending
    <3> QED
      BY <2>3, <3>1, BoundAnswers DEF Lines!Next
  <2>4. CASE FinishCall(h)
    <3>1. handler[h].id \in CallIds
      BY <2>4 DEF FinishCall, At, Attending
    <3>2. UNCHANGED call \/ call' = [call EXCEPT ![handler[h].id] = NoCall]
      BY <2>4 DEF FinishCall
    <3> QED
      BY <1>1, <3>1, <3>2, GoneIsOver DEF Lines!Next
  <2> QED
    BY <1>2, <2>1, <2>2, <2>3, <2>4 DEF Proceed
<1>3. ASSUME NEW h \in Handlers,
             \/ \E c \in CallIds, s \in Sockets :
                   BeginInvite(h, c, s) \/ BeginAccept(h, c, s) \/ BeginHangUp(h, c, s)
             \/ \E c \in CallIds : RingTimedOut(h, c)
             \/ \E s \in Sockets : SocketGone(h, s)
             \/ LoseHandler(h)
      PROVE  [Lines!Next]_Line
  <2>1. ASSUME NEW c \in CallIds, NEW s \in Sockets,
               BeginInvite(h, c, s) \/ BeginAccept(h, c, s) \/ BeginHangUp(h, c, s)
        PROVE  UNCHANGED call
    BY <2>1 DEF BeginInvite, BeginAccept, BeginHangUp
  <2>2. ASSUME NEW c \in CallIds, RingTimedOut(h, c) PROVE UNCHANGED call
    BY <2>2 DEF RingTimedOut
  <2>3. ASSUME NEW s \in Sockets, SocketGone(h, s) PROVE UNCHANGED call
    BY <2>3 DEF SocketGone
  <2>4. CASE LoseHandler(h)
    BY <1>1, <2>4 DEF LoseHandler
  <2> QED
    BY <1>1, <1>3, <2>1, <2>2, <2>3, <2>4
<1>4. ASSUME NEW c \in CallIds, LoseTimer(c) PROVE [Lines!Next]_Line
  BY <1>1, <1>4 DEF LoseTimer
<1>5. ASSUME NEW c \in CallIds, Expire(c) PROVE [Lines!Next]_Line
  BY <1>5, GoneIsOver DEF Expire, Lines!Next
<1>6. CASE UNCHANGED vars
  BY <1>1, <1>6 DEF vars
<1> QED
  BY <1>2, <1>3, <1>4, <1>5, <1>6 DEF Next

(* Whatever interleaves, is sent again, comes late, dies or expires, a     *)
(* call rings only between two people who are in no call, is answered only *)
(* while it rings, and is not brought back by an answer that lost to an    *)
(* end: what SET ... XX and the busy keys of call.store.ts are for.        *)
THEOREM CallsImplementLines == Spec => ImplementsLines
<1>1. Init => Lines!Init
  BY DEF Init, Lines!Init, Line, NoCall
<1>2. Init => InvitesRing
  BY InitRings
<1>3. TypeOK /\ Attending /\ InvitesRing /\ [Next]_vars => InvitesRing'
  BY NextRings
<1>4. TypeOK /\ Attending /\ Claimed /\ Apart /\ InvitesRing /\ [Next]_vars => [Lines!Next]_Line
  BY StepImplementsLines
<1> QED
  BY <1>1, <1>2, <1>3, <1>4, TypeInvariant, KeysAreClaimed, PTL
     DEF Spec, ImplementsLines, Lines!Spec

-----------------------------------------------------------------------------
(* Notification: what steps change.                                        *)

(* The table of devices changes when one registers or some are deleted.    *)
LEMMA TableMoves ==
    ASSUME [PushNext]_pushVars
    PROVE  \/ UNCHANGED table
           \/ \E r \in Requests : Upsert(r)
           \/ (\E gone \in SUBSET There : Delete(gone)) /\ UNCHANGED spent
<1>1. CASE UNCHANGED pushVars
  BY <1>1 DEF pushVars
<1>2. CASE Devices
  <2>1. ASSUME NEW r \in Requests, NEW u \in Users, NEW s \in Sessions \cup {Nil}, NEW t \in Tokens,
               Register(r, u, s, t)
        PROVE  UNCHANGED table
    BY <2>1 DEF Register
  <2>2. ASSUME NEW r \in Requests, FindOldestBeyondLimit(r) PROVE UNCHANGED table
    BY <2>2 DEF FindOldestBeyondLimit
  <2>3. ASSUME NEW r \in Requests, Forget(r)
        PROVE  (\E gone \in SUBSET There : Delete(gone)) /\ UNCHANGED spent
    BY <2>3 DEF Forget
  <2>4. ASSUME NEW u \in Users, Switch(u) PROVE UNCHANGED table
    BY <2>4 DEF Switch
  <2>5. ASSUME NEW u \in Users, NEW t \in Tokens, Unregister(u, t)
        PROVE  (\E gone \in SUBSET There : Delete(gone)) /\ UNCHANGED spent
    <3>1. {t} \in SUBSET There /\ Delete({t})
      BY <2>5 DEF Unregister, RowsOf
    <3> QED BY <2>5, <3>1 DEF Unregister
  <2>6. ASSUME NEW s \in Sessions, SignOut(s) PROVE UNCHANGED table
    BY <2>6 DEF SignOut
  <2>7. ASSUME NEW s \in Sessions, ForgetSession(s)
        PROVE  \/ UNCHANGED table
               \/ (\E gone \in SUBSET There : Delete(gone)) /\ UNCHANGED spent
    BY <2>7 DEF ForgetSession, OfSession, table
  <2> QED BY <1>2, <2>1, <2>2, <2>3, <2>4, <2>5, <2>6, <2>7 DEF Devices
<1>3. CASE Promote
  <2>1. ASSUME NEW k \in Runs, ForgetGone(k)
        PROVE  (\E gone \in SUBSET There : Delete(gone)) /\ UNCHANGED spent
    BY <2>1 DEF ForgetGone
  <2>2. ASSUME NEW k \in Runs, NEW i \in Instances, NEW p \in Promotions, ResumeQueued(k, i, p) \/ Create(k, i, p)
        PROVE  UNCHANGED table
    BY <2>2 DEF ResumeQueued, Create
  <2>3. ASSUME NEW k \in Runs,
               ClaimPromotion(k) \/ ReadPage(k) \/ Deliver(k) \/ CountPage(k) \/ Finish(k) \/ Fail(k)
        PROVE  UNCHANGED table
    BY <2>3 DEF ClaimPromotion, ReadPage, Deliver, CountPage, Finish, Fail
  <2>4. ASSUME NEW i \in Instances, Crash(i) PROVE UNCHANGED table
    BY <2>4 DEF Crash
  <2> QED BY <1>3, <2>1, <2>2, <2>3, <2>4 DEF Promote
<1>4. CASE Notices
  <2>1. ASSUME NEW r \in Requests, NEW s \in Sessions, NotifySignIn(r, s) PROVE UNCHANGED table
    BY <2>1 DEF NotifySignIn
  <2>2. ASSUME NEW r \in Requests, NEW u \in Users, CallRinging(r, u) \/ CallEnded(r, u) PROVE UNCHANGED table
    BY <2>2 DEF CallRinging, CallEnded
  <2>3. ASSUME NEW r \in Requests, WarnTargets(r) \/ ReadTargets(r) \/ DeliverCall(r) PROVE UNCHANGED table
    BY <2>3 DEF WarnTargets, ReadTargets, DeliverCall
  <2>4. ASSUME NEW t \in Tokens, RingingTimesOut(t) PROVE UNCHANGED table
    BY <2>4 DEF RingingTimesOut
  <2> QED BY <1>4, <2>1, <2>2, <2>3, <2>4 DEF Notices
<1> QED BY <1>1, <1>2, <1>3, <1>4 DEF PushNext

(* The promotions and their runs change only when they are sent.           *)
LEMMA SendingMoves ==
    ASSUME [PushNext]_pushVars
    PROVE  Promote \/ UNCHANGED <<promo, run, pushed>>
<1>1. CASE UNCHANGED pushVars
  BY <1>1 DEF pushVars, sending, history
<1>2. CASE Devices
  <2>1. ASSUME NEW r \in Requests, NEW u \in Users, NEW s \in Sessions \cup {Nil}, NEW t \in Tokens,
               Register(r, u, s, t)
        PROVE  UNCHANGED <<promo, run, pushed>>
    BY <2>1 DEF Register, sending, history
  <2>2. ASSUME NEW r \in Requests, Upsert(r) \/ FindOldestBeyondLimit(r) \/ Forget(r)
        PROVE  UNCHANGED <<promo, run, pushed>>
    BY <2>2 DEF Upsert, FindOldestBeyondLimit, Forget, sending, history
  <2>3. ASSUME NEW u \in Users, Switch(u) \/ \E t \in Tokens : Unregister(u, t)
        PROVE  UNCHANGED <<promo, run, pushed>>
    BY <2>3 DEF Switch, Unregister, sending
  <2>4. ASSUME NEW s \in Sessions, SignOut(s) \/ ForgetSession(s)
        PROVE  UNCHANGED <<promo, run, pushed>>
    BY <2>4 DEF SignOut, ForgetSession, sending, history
  <2> QED BY <1>2, <2>1, <2>2, <2>3, <2>4 DEF Devices
<1>3. CASE Notices
  <2>1. ASSUME NEW r \in Requests, NEW s \in Sessions, NotifySignIn(r, s)
        PROVE  UNCHANGED <<promo, run, pushed>>
    BY <2>1 DEF NotifySignIn, sending
  <2>2. ASSUME NEW r \in Requests, NEW u \in Users, CallRinging(r, u) \/ CallEnded(r, u)
        PROVE  UNCHANGED <<promo, run, pushed>>
    BY <2>2 DEF CallRinging, CallEnded, sending, history
  <2>3. ASSUME NEW r \in Requests, WarnTargets(r) \/ ReadTargets(r) \/ DeliverCall(r)
        PROVE  UNCHANGED <<promo, run, pushed>>
    BY <2>3 DEF WarnTargets, ReadTargets, DeliverCall, sending, history
  <2>4. ASSUME NEW t \in Tokens, RingingTimesOut(t) PROVE UNCHANGED <<promo, run, pushed>>
    BY <2>4 DEF RingingTimesOut, sending, history
  <2> QED BY <1>3, <2>1, <2>2, <2>3, <2>4 DEF Notices
<1> QED BY <1>1, <1>2, <1>3 DEF PushNext

-----------------------------------------------------------------------------
(* Type correctness.                                                       *)

(* A device has one row, and an id that was given out; of two devices one  *)
(* was updated later.                                                      *)
DevicesTyped ==
    /\ device \in Table
    /\ newer \in [Tokens -> SUBSET Tokens]
    /\ \A t \in Tokens : device[t] = Nil => newer[t] = {}
    /\ \A t \in Tokens : t \notin newer[t] /\ \A x \in newer[t] : device[x] # Nil /\ newer[x] \subseteq newer[t]
    /\ \A t, x \in There : t = x \/ x \in newer[t] \/ t \in newer[x]
    /\ spent \subseteq Ids
    /\ \A t \in There : device[t].id \in spent

(* What a request may be at, by what it is for.                            *)
StepsOf(op) ==
    IF op = "register" THEN {"upsert", "find", "forget", "done"}
    ELSE IF op = "signIn" THEN {"warn", "done"}
    ELSE {"targets", "deliver", "done"}

(* A request forgets rows there were.                                      *)
RequestsTyped ==
    /\ req \in [Requests -> Request \cup {Nil}]
    /\ \A r \in Requests : req[r] # Nil =>
          /\ req[r].ids \subseteq spent
          /\ req[r].step \in StepsOf(req[r].op)
          /\ req[r].step = "upsert" => req[r].token \in Tokens

(* A run sends a promotion there is.                                       *)
SendingTyped ==
    /\ promo \in [Promotions -> Promotion \cup {Nil}]
    /\ run \in [Runs -> Run \cup {Nil}]
    /\ \A k \in Runs : run[k] # Nil => promo[run[k].promo] # Nil
    /\ pushed \in [Promotions -> [Ids -> Nat]]

AccountsTyped ==
    /\ off \subseteq Users /\ hidden \subseteq Users
    /\ unheard \subseteq revoked /\ revoked \subseteq Sessions

CallTyped ==
    /\ phone \in [Tokens -> {"quiet", "rings", "missed"}]
    /\ aCall \in {"none", "rings", "ended", "unanswered"}

PushTyped == DevicesTyped /\ RequestsTyped /\ SendingTyped /\ AccountsTyped /\ CallTyped

LEMMA TypedIsTypeOK == PushTyped => PushTypeOK
  BY DEF PushTyped, PushTypeOK, DevicesTyped, RequestsTyped, SendingTyped, AccountsTyped, CallTyped

(* At first devices were updated in the order of their ids.                *)
LEMMA InitPushTyped == PushInit => PushTyped
<1> SUFFICES ASSUME PushInit PROVE PushTyped
  OBVIOUS
<1> USE NotificationAssumption
<1>1. device \in Table
  <2>1. CASE device = [t \in Tokens |-> Nil]
    BY <2>1 DEF Table
  <2> QED BY <2>1 DEF PushInit
<1>2. \A t \in There : device[t] \in Row
  BY <1>1 DEF There, Table
<1>3. \A t \in There : device[t].id \in Ids /\ device[t].id \in Nat
  BY <1>2 DEF Row
<1>4. \A t, x \in There : device[t].id = device[x].id => t = x
  BY <1>1 DEF Table, There
<1>5. \A t \in Tokens : newer[t] = {x \in There : t \in There /\ device[x].id > device[t].id}
  BY DEF PushInit
<1>6. newer \in [Tokens -> SUBSET Tokens]
  BY DEF PushInit, There
<1>7. \A t \in Tokens : device[t] = Nil => newer[t] = {}
  BY <1>5 DEF There
<1>8. ASSUME NEW t \in Tokens
      PROVE  t \notin newer[t] /\ \A x \in newer[t] : device[x] # Nil /\ newer[x] \subseteq newer[t]
  BY <1>3, <1>5 DEF There
<1>9. ASSUME NEW t \in There, NEW x \in There PROVE t = x \/ x \in newer[t] \/ t \in newer[x]
  <2>1. t \in Tokens /\ x \in Tokens
    BY DEF There
  <2>2. device[t].id > device[x].id \/ device[x].id > device[t].id \/ device[t].id = device[x].id
    BY <1>3
  <2> QED BY <2>1, <2>2, <1>4, <1>5
<1>10. DevicesTyped
  BY <1>1, <1>3, <1>6, <1>7, <1>8, <1>9 DEF DevicesTyped, PushInit
<1>11. RequestsTyped /\ SendingTyped /\ AccountsTyped /\ CallTyped
  BY DEF PushInit, RequestsTyped, SendingTyped, AccountsTyped, CallTyped
<1> QED BY <1>10, <1>11 DEF PushTyped

(* Devices that are deleted leave the order of the others.                 *)
LEMMA DeleteTyped ==
    ASSUME DevicesTyped, NEW gone, Delete(gone), UNCHANGED spent
    PROVE  DevicesTyped'
<1>1. \A t \in Tokens : device'[t] = IF t \in gone THEN Nil ELSE device[t]
  BY DEF Delete
<1>2. \A t \in Tokens : newer'[t] = IF t \in gone THEN {} ELSE newer[t] \ gone
  BY DEF Delete
<1>3. There' = There \ gone
  BY <1>1 DEF There
<1>4. \A t \in Tokens : newer[t] \subseteq Tokens
  BY DEF DevicesTyped
<1>5. device' \in Table
  <2>1. device' \in [Tokens -> Row \cup {Nil}]
    BY DEF Delete, DevicesTyped, Table
  <2> QED BY <1>1, <2>1 DEF DevicesTyped, Table
<1>6. newer' \in [Tokens -> SUBSET Tokens]
  <2>1. newer' = [t \in Tokens |-> IF t \in gone THEN {} ELSE newer[t] \ gone]
    BY DEF Delete
  <2> QED BY <1>4, <2>1
<1>7. ASSUME NEW t \in Tokens, device'[t] = Nil PROVE newer'[t] = {}
  <2>1. CASE t \in gone
    BY <1>2, <2>1
  <2>2. CASE t \notin gone
    <3>1. device[t] = Nil
      BY <1>1, <1>7, <2>2
    <3>2. newer[t] = {}
      BY <3>1 DEF DevicesTyped
    <3> QED BY <1>2, <2>2, <3>2
  <2> QED BY <2>1, <2>2
<1>8. ASSUME NEW t \in Tokens PROVE t \notin newer'[t]
  BY <1>2 DEF DevicesTyped
<1>9. ASSUME NEW t \in Tokens, NEW x \in newer'[t] PROVE device'[x] # Nil /\ newer'[x] \subseteq newer'[t]
  <2>1. t \notin gone /\ x \in newer[t] /\ x \notin gone /\ x \in Tokens
    BY <1>2, <1>4, <1>9
  <2>2. device[x] # Nil /\ newer[x] \subseteq newer[t]
    BY <2>1 DEF DevicesTyped
  <2> QED BY <1>1, <1>2, <2>1, <2>2
<1>10. ASSUME NEW t \in There \ gone, NEW x \in There \ gone PROVE t = x \/ x \in newer'[t] \/ t \in newer'[x]
  <2>1. t \in Tokens /\ x \in Tokens
    BY DEF There
  <2>2. t = x \/ x \in newer[t] \/ t \in newer[x]
    BY DEF DevicesTyped
  <2> QED BY <1>2, <2>1, <2>2
<1>11. \A t \in There \ gone : device'[t].id \in spent'
  BY <1>1 DEF There, DevicesTyped
<1> QED BY <1>3, <1>5, <1>6, <1>7, <1>8, <1>9, <1>10, <1>11 DEF DevicesTyped

(* A token that was written is the newest, under an id of its own.         *)
LEMMA UpsertTyped ==
    ASSUME DevicesTyped, RequestsTyped, NEW r \in Requests, Upsert(r)
    PROVE  DevicesTyped'
<1> USE NotificationAssumption
<1> DEFINE t == req[r].token
           u == req[r].user
           s == req[r].session
<1>1. t \in Tokens /\ u \in Users /\ s \in Sessions \cup {Nil}
  BY DEF Upsert, Reached, RequestsTyped, Request
<1> HIDE DEF t, u, s
<1>2. PICK i \in Ids :
        /\ IF device[t] # Nil THEN i = device[t].id ELSE i \notin spent
        /\ device' = [device EXCEPT ![t] = [id |-> i, user |-> u, session |-> s]]
        /\ spent' = spent \cup {i}
  BY DEF Upsert, t, u, s
<1>3. newer' = Place(t)
  BY DEF Upsert, t
<1>4. \A x \in Tokens : newer'[x] = IF x = t \/ device[x] = Nil THEN {} ELSE newer[x] \cup {t}
  BY <1>3 DEF Place
<1>5. [id |-> i, user |-> u, session |-> s] \in Row
  BY <1>1 DEF Row
<1>6. [id |-> i, user |-> u, session |-> s] # Nil
  BY <1>5
<1>7. device \in [Tokens -> Row \cup {Nil}]
  BY DEF DevicesTyped, Table
<1>8. \A x \in Tokens : device'[x] = IF x = t THEN [id |-> i, user |-> u, session |-> s] ELSE device[x]
  BY <1>2, <1>7
<1>9. There' = There \cup {t}
  BY <1>1, <1>6, <1>8 DEF There
<1>10. \A x \in There : x # t => device[x].id # i
  BY <1>1, <1>2 DEF DevicesTyped, Table, There
<1>11. device' \in Table
  <2>1. device' \in [Tokens -> Row \cup {Nil}]
    BY <1>2, <1>5, <1>7
  <2>2. device'[t].id = i
    BY <1>1, <1>8
  <2>3. ASSUME NEW x \in Tokens, NEW y \in Tokens, x # y, device'[x] # Nil, device'[y] # Nil
        PROVE  device'[x].id # device'[y].id
    BY <1>8, <1>10, <2>2, <2>3 DEF DevicesTyped, Table, There
  <2> QED BY <2>1, <2>3 DEF Table
<1>12. \A x \in Tokens : newer[x] \subseteq Tokens
  BY DEF DevicesTyped
<1>13. newer' \in [Tokens -> SUBSET Tokens]
  BY <1>1, <1>3, <1>12 DEF Place
<1>14. \A x \in Tokens : device'[x] = Nil => newer'[x] = {}
  BY <1>4, <1>6, <1>8
<1>15. ASSUME NEW x \in Tokens PROVE x \notin newer'[x]
  <2>1. x \notin newer[x]
    BY DEF DevicesTyped
  <2> QED BY <1>4, <2>1
<1>16. ASSUME NEW x \in Tokens, NEW y \in newer'[x] PROVE device'[y] # Nil /\ newer'[y] \subseteq newer'[x]
  <2>1. x # t /\ device[x] # Nil /\ y \in newer[x] \cup {t} /\ y \in Tokens
    BY <1>1, <1>4, <1>12, <1>16
  <2>2. CASE y = t
    BY <1>1, <1>4, <1>6, <1>8, <2>2
  <2>3. CASE y # t
    <3>1. device[y] # Nil /\ newer[y] \subseteq newer[x]
      BY <2>1, <2>3 DEF DevicesTyped
    <3> QED BY <1>4, <1>8, <2>1, <2>3, <3>1
  <2> QED BY <2>2, <2>3
<1>17. ASSUME NEW x \in There \cup {t}, NEW y \in There \cup {t} PROVE x = y \/ y \in newer'[x] \/ x \in newer'[y]
  <2>1. x \in Tokens /\ y \in Tokens /\ (x # t => device[x] # Nil) /\ (y # t => device[y] # Nil)
    BY <1>1 DEF There
  <2>2. CASE x = t \/ y = t
    BY <1>4, <2>1, <2>2
  <2>3. CASE x # t /\ y # t
    <3>1. x = y \/ y \in newer[x] \/ x \in newer[y]
      BY <2>3 DEF DevicesTyped
    <3> QED BY <1>4, <2>1, <2>3, <3>1
  <2> QED BY <2>2, <2>3
<1>18. \A x \in There \cup {t} : device'[x].id \in spent'
  <2>1. device'[t].id = i
    BY <1>1, <1>8
  <2> QED BY <1>2, <1>8, <2>1 DEF There, DevicesTyped
<1>19. spent' \subseteq Ids
  BY <1>2 DEF DevicesTyped
<1> QED BY <1>9, <1>11, <1>13, <1>14, <1>15, <1>16, <1>17, <1>18, <1>19 DEF DevicesTyped

(* The table stays sound, and no id that was given is given back.          *)
LEMMA DevicesStayTyped ==
    ASSUME DevicesTyped, RequestsTyped, [PushNext]_pushVars
    PROVE  DevicesTyped' /\ spent \subseteq spent'
<1>1. CASE UNCHANGED table
  BY <1>1 DEF table, DevicesTyped, There
<1>2. CASE \E r \in Requests : Upsert(r)
  BY <1>2, UpsertTyped DEF Upsert
<1>3. CASE (\E gone \in SUBSET There : Delete(gone)) /\ UNCHANGED spent
  BY <1>3, DeleteTyped
<1> QED BY <1>1, <1>2, <1>3, TableMoves

(* A request as it is sent.                                                *)
LEMMA AskedIsRequest ==
    ASSUME NEW op \in {"register", "signIn", "ring", "stop"}, NEW step \in StepsOf(op), NEW u \in Users,
           NEW s \in Sessions \cup {Nil}, NEW t \in Tokens \cup {Nil}
    PROVE  /\ Asked(op, step, u, s, t) \in Request
           /\ Asked(op, step, u, s, t).op = op
           /\ Asked(op, step, u, s, t).step = step
           /\ Asked(op, step, u, s, t).ids = {}
           /\ Asked(op, step, u, s, t).to = {}
           /\ Asked(op, step, u, s, t).user = u
           /\ Asked(op, step, u, s, t).token = t
<1>1. step \in {"upsert", "find", "forget", "warn", "targets", "deliver", "done"}
  BY DEF StepsOf
<1> QED BY <1>1 DEF Asked, Request

(* What req says of one request is changed, and nothing of the others.     *)
LEMMA RequestSet ==
    ASSUME RequestsTyped, spent \subseteq spent', NEW r \in Requests, NEW q \in Request,
           req' = [req EXCEPT ![r] = q],
           q.ids \subseteq spent', q.step \in StepsOf(q.op), q.step = "upsert" => q.token \in Tokens
    PROVE  RequestsTyped'
  BY DEF RequestsTyped

(* It is over.                                                             *)
LEMMA AnsweredIsRequest ==
    ASSUME RequestsTyped, NEW r \in Requests, req[r] # Nil
    PROVE  /\ Answered(r) \in Request
           /\ Answered(r).op = req[r].op /\ Answered(r).step = "done" /\ Answered(r).ids = {}
           /\ Answered(r).user = req[r].user
<1>1. req[r] \in Request
  BY DEF RequestsTyped
<1>2. req[r].op \in {"register", "signIn", "ring", "stop"} /\ req[r].user \in Users
  BY <1>1 DEF Request
<1> QED BY <1>2 DEF Answered, Asked, Request

(* A step of a request.                                                    *)
LEMMA RequestMoves ==
    ASSUME [PushNext]_pushVars
    PROVE  \/ UNCHANGED req
           \/ \E r \in Requests :
                \/ \E u \in Users, s \in Sessions \cup {Nil}, t \in Tokens : Register(r, u, s, t)
                \/ Upsert(r) \/ FindOldestBeyondLimit(r) \/ Forget(r)
                \/ \E s \in Sessions : NotifySignIn(r, s)
                \/ \E u \in Users : CallRinging(r, u) \/ CallEnded(r, u)
                \/ WarnTargets(r) \/ ReadTargets(r) \/ DeliverCall(r)
<1>1. CASE UNCHANGED pushVars
  BY <1>1 DEF pushVars
<1>2. CASE Devices
  <2>1. ASSUME NEW u \in Users, Switch(u) \/ \E t \in Tokens : Unregister(u, t) PROVE UNCHANGED req
    BY <2>1 DEF Switch, Unregister
  <2>2. ASSUME NEW s \in Sessions, SignOut(s) \/ ForgetSession(s) PROVE UNCHANGED req
    BY <2>2 DEF SignOut, ForgetSession
  <2> QED BY <1>2, <2>1, <2>2 DEF Devices
<1>3. CASE Promote
  <2>1. ASSUME NEW k \in Runs, NEW i \in Instances, NEW p \in Promotions, ResumeQueued(k, i, p) \/ Create(k, i, p)
        PROVE  UNCHANGED req
    BY <2>1 DEF ResumeQueued, Create
  <2>2. ASSUME NEW k \in Runs,
               \/ ClaimPromotion(k) \/ ReadPage(k) \/ Deliver(k) \/ ForgetGone(k) \/ CountPage(k)
               \/ Finish(k) \/ Fail(k)
        PROVE  UNCHANGED req
    BY <2>2 DEF ClaimPromotion, ReadPage, Deliver, ForgetGone, CountPage, Finish, Fail
  <2>3. ASSUME NEW i \in Instances, Crash(i) PROVE UNCHANGED req
    BY <2>3 DEF Crash
  <2> QED BY <1>3, <2>1, <2>2, <2>3 DEF Promote
<1>4. CASE Notices
  <2>1. ASSUME NEW t \in Tokens, RingingTimesOut(t) PROVE UNCHANGED req
    BY <2>1 DEF RingingTimesOut
  <2> QED BY <1>4, <2>1 DEF Notices
<1> QED BY <1>1, <1>2, <1>3, <1>4 DEF PushNext

(* Each request stays at a step of what it is for.                         *)
LEMMA RequestsStayTyped ==
    ASSUME PushTyped, [PushNext]_pushVars
    PROVE  RequestsTyped'
<1> USE NotificationAssumption
<1>0. RequestsTyped /\ DevicesTyped /\ spent \subseteq spent'
  BY DevicesStayTyped DEF PushTyped
<1>1. CASE UNCHANGED req
  BY <1>0, <1>1 DEF RequestsTyped
<1>2. ASSUME NEW r \in Requests, NEW u \in Users, NEW s \in Sessions \cup {Nil}, NEW t \in Tokens,
             Register(r, u, s, t)
      PROVE  RequestsTyped'
  <2> DEFINE q == Asked("register", "upsert", u, s, t)
  <2>1. q \in Request /\ q.ids = {} /\ q.step = "upsert" /\ q.op = "register" /\ q.token = t
    BY AskedIsRequest DEF StepsOf
  <2>2. req' = [req EXCEPT ![r] = q]
    BY <1>2 DEF Register
  <2>3. q.step \in StepsOf(q.op)
    BY <2>1 DEF StepsOf
  <2> HIDE DEF q
  <2> QED BY <1>0, <2>1, <2>2, <2>3, RequestSet
<1>3. ASSUME NEW r \in Requests, Upsert(r) PROVE RequestsTyped'
  <2>1. req[r] \in Request /\ req[r].ids \subseteq spent /\ req[r].step = "upsert" /\ req[r].step \in StepsOf(req[r].op)
    BY <1>0, <1>3 DEF RequestsTyped, Upsert, Reached
  <2>2. req[r].op = "register"
    BY <2>1 DEF StepsOf, Request
  <2> DEFINE q == [req[r] EXCEPT !.step = "find"]
  <2>3. q \in Request /\ q.ids = req[r].ids /\ q.step = "find" /\ q.op = "register"
    BY <2>1, <2>2 DEF Request
  <2>4. req' = [req EXCEPT ![r] = q]
    BY <1>3 DEF Upsert
  <2>5. q.step \in StepsOf(q.op) /\ q.step # "upsert"
    BY <2>3 DEF StepsOf
  <2>6. q.ids \subseteq spent'
    BY <1>0, <2>1, <2>3
  <2> HIDE DEF q
  <2> QED BY <1>0, <2>3, <2>4, <2>5, <2>6, RequestSet
<1>4. ASSUME NEW r \in Requests, FindOldestBeyondLimit(r) PROVE RequestsTyped'
  <2> DEFINE extra == BeyondLimit(RowsOf(req[r].user))
             q == [req[r] EXCEPT !.step = "forget", !.ids = {device[t].id : t \in extra}]
  <2>1. req[r] # Nil /\ req[r] \in Request /\ req[r].step = "find" /\ req[r].step \in StepsOf(req[r].op)
    BY <1>0, <1>4 DEF RequestsTyped, FindOldestBeyondLimit, Reached
  <2>2. req[r].op = "register"
    BY <2>1 DEF StepsOf, Request
  <2>3. extra \subseteq There
    BY DEF BeyondLimit, RowsOf
  <2>4. {device[t].id : t \in extra} \subseteq spent
    BY <1>0, <2>3 DEF DevicesTyped
  <2>5. {device[t].id : t \in extra} \subseteq Ids
    BY <1>0, <2>4 DEF DevicesTyped
  <2>6. q \in Request /\ q.ids \subseteq spent /\ q.step = "forget" /\ q.op = "register"
    BY <2>1, <2>2, <2>4, <2>5 DEF Request
  <2>7. req' = [req EXCEPT ![r] = IF extra = {} THEN Answered(r) ELSE q]
    BY <1>4 DEF FindOldestBeyondLimit
  <2>8. q.step \in StepsOf(q.op) /\ q.step # "upsert" /\ q.ids \subseteq spent'
    BY <1>0, <2>6 DEF StepsOf
  <2>9. /\ Answered(r) \in Request /\ Answered(r).ids = {} /\ Answered(r).step = "done"
        /\ Answered(r).step \in StepsOf(Answered(r).op)
    BY <1>0, <2>1, AnsweredIsRequest DEF StepsOf
  <2> HIDE DEF q, extra
  <2>10. CASE extra = {}
    BY <1>0, <2>7, <2>9, <2>10, RequestSet
  <2>11. CASE extra # {}
    BY <1>0, <2>6, <2>7, <2>8, <2>11, RequestSet
  <2> QED BY <2>10, <2>11
<1>5. ASSUME NEW r \in Requests, req[r] # Nil, req' = [req EXCEPT ![r] = Answered(r)] PROVE RequestsTyped'
  <2>1. /\ Answered(r) \in Request /\ Answered(r).ids = {} /\ Answered(r).step = "done"
        /\ Answered(r).step \in StepsOf(Answered(r).op)
    BY <1>0, <1>5, AnsweredIsRequest DEF StepsOf
  <2> QED BY <1>0, <1>5, <2>1, RequestSet
<1>6. ASSUME NEW r \in Requests, Forget(r) \/ WarnTargets(r) \/ DeliverCall(r) PROVE RequestsTyped'
  BY <1>5, <1>6 DEF Forget, WarnTargets, DeliverCall, Reached
<1>7. ASSUME NEW r \in Requests, NEW s \in Sessions, NotifySignIn(r, s) PROVE RequestsTyped'
  <2> DEFINE a == Asked("signIn", "warn", AccountOf[s], s, Nil)
             q == [a EXCEPT !.to = TargetsOf(AccountOf[s], s)]
  <2>1. a \in Request /\ a.ids = {} /\ a.step = "warn" /\ a.op = "signIn"
    BY AskedIsRequest DEF StepsOf
  <2>2. TargetsOf(AccountOf[s], s) \subseteq Tokens
    BY DEF TargetsOf, RowsOf, There
  <2>3. req' = [req EXCEPT ![r] = q]
    BY <1>7 DEF NotifySignIn
  <2> HIDE DEF a
  <2>4. q \in Request /\ q.ids = {} /\ q.step = "warn" /\ q.op = "signIn"
    BY <2>1, <2>2 DEF Request
  <2>5. q.step \in StepsOf(q.op)
    BY <2>4 DEF StepsOf
  <2> HIDE DEF q
  <2> QED BY <1>0, <2>3, <2>4, <2>5, RequestSet
<1>8. ASSUME NEW r \in Requests, NEW u \in Users, NEW op \in {"ring", "stop"},
             req' = [req EXCEPT ![r] = Asked(op, "targets", u, Nil, Nil)]
      PROVE  RequestsTyped'
  <2> DEFINE q == Asked(op, "targets", u, Nil, Nil)
  <2>1. "targets" \in StepsOf(op)
    BY DEF StepsOf
  <2>2. q \in Request /\ q.ids = {} /\ q.step = "targets" /\ q.op = op
    BY <2>1, AskedIsRequest
  <2>3. req' = [req EXCEPT ![r] = q]
    BY <1>8
  <2> HIDE DEF q
  <2> QED BY <1>0, <2>1, <2>2, <2>3, RequestSet
<1>9. ASSUME NEW r \in Requests, NEW u \in Users, CallRinging(r, u) \/ CallEnded(r, u) PROVE RequestsTyped'
  BY <1>8, <1>9 DEF CallRinging, CallEnded
<1>10. ASSUME NEW r \in Requests, ReadTargets(r) PROVE RequestsTyped'
  <2>1. req[r] \in Request /\ req[r].ids \subseteq spent /\ req[r].step = "targets" /\ req[r].step \in StepsOf(req[r].op)
    BY <1>0, <1>10 DEF RequestsTyped, ReadTargets, Reached
  <2>2. req[r].op \in {"ring", "stop"}
    BY <2>1 DEF StepsOf, Request
  <2>3. TargetsOf(req[r].user, Nil) \subseteq Tokens
    BY DEF TargetsOf, RowsOf, There
  <2> DEFINE q == [req[r] EXCEPT !.step = "deliver", !.to = TargetsOf(req[r].user, Nil)]
  <2>4. req' = [req EXCEPT ![r] = q]
    BY <1>10 DEF ReadTargets
  <2>5. q \in Request /\ q.ids = req[r].ids /\ q.step = "deliver" /\ q.op = req[r].op
    BY <2>1, <2>3 DEF Request
  <2>6. q.step \in StepsOf(q.op) /\ q.ids \subseteq spent'
    BY <1>0, <2>1, <2>2, <2>5 DEF StepsOf
  <2> HIDE DEF q
  <2> QED BY <1>0, <2>4, <2>5, <2>6, RequestSet
<1> QED BY <1>1, <1>2, <1>3, <1>4, <1>6, <1>7, <1>9, <1>10, RequestMoves

(* A run as it is begun, and as it ends.                                   *)
LEMMA NewRunIsRun ==
    ASSUME NEW i \in Instances, NEW p \in Promotions
    PROVE  /\ NewRun(i, p) \in Run
           /\ NewRun(i, p).step = "claim" /\ NewRun(i, p).promo = p /\ NewRun(i, p).in = i
           /\ NewRun(i, p).sent = 0 /\ NewRun(i, p).failed = 0 /\ NewRun(i, p).after = 0
           /\ NewRun(i, p).page = {} /\ NewRun(i, p).full = TRUE
  BY DEF NewRun, Run

(* A run that ended is still of its promotion.                             *)
LEMMA EndedIsRun ==
    ASSUME NEW k \in Runs, run[k] \in Run
    PROVE  Ended(k) \in Run /\ Ended(k).step = "done" /\ Ended(k).promo = run[k].promo
<1>1. run[k].in \in Instances /\ run[k].promo \in Promotions
  BY DEF Run
<1> DEFINE n == NewRun(run[k].in, run[k].promo)
<1>2. n \in Run /\ n.promo = run[k].promo
  BY <1>1, NewRunIsRun
<1> HIDE DEF n
<1>3. [n EXCEPT !.step = "done"] \in Run /\ [n EXCEPT !.step = "done"].step = "done"
      /\ [n EXCEPT !.step = "done"].promo = n.promo
  BY <1>2 DEF Run
<1> QED BY <1>2, <1>3 DEF Ended, n

(* Ids are numbers, and there are finitely many.                           *)
LEMMA IdsAreFinite ==
    ASSUME NEW S \in SUBSET Ids
    PROVE  IsFiniteSet(S) /\ Cardinality(S) \in Nat /\ S \subseteq Nat \ {0}
  BY NotificationAssumption, FS_Subset, FS_CardinalityType

(* Some ids have a first, and a last: the one with the fewest after it.    *)
LEMMA FirstId ==
    ASSUME NEW S \in SUBSET Nat, S # {}
    PROVE  \E i \in S : \A j \in S : i <= j
<1> DEFINE R == OpToRel(<, Nat)
<1>1. PICK i \in S : \A j \in S : <<j, i>> \notin R
  <2> HIDE DEF R
  <2> QED BY NatLessThanWellFounded, WFMin DEF R
<1>2. \A j \in S : ~(j < i)
  BY <1>1 DEF OpToRel
<1> QED BY <1>2

(* Some ids have a last one too.                                           *)
LEMMA LastId ==
    ASSUME NEW S \in SUBSET Ids, S # {}
    PROVE  /\ (CHOOSE i \in S : \A j \in S : j <= i) \in S
           /\ \A j \in S : j <= (CHOOSE i \in S : \A j2 \in S : j2 <= i)
<1> DEFINE After(i) == {j \in S : j > i}
           Sizes == {Cardinality(After(i)) : i \in S}
<1>1. S \subseteq Nat
  BY IdsAreFinite
<1>2. \A i \in S : IsFiniteSet(After(i)) /\ Cardinality(After(i)) \in Nat
  <2> TAKE i \in S
  <2>1. After(i) \in SUBSET Ids
    OBVIOUS
  <2> HIDE DEF After
  <2> QED BY <2>1, IdsAreFinite
<1>3. PICK n \in Sizes : \A m \in Sizes : n <= m
  <2>1. Sizes \in SUBSET Nat /\ Sizes # {}
    BY <1>2
  <2> HIDE DEF Sizes
  <2> QED BY <2>1, FirstId
<1>4. PICK i \in S : n = Cardinality(After(i))
  OBVIOUS
<1>5. \A j \in S : j <= i
  <2>1. SUFFICES ASSUME NEW j \in S, ~(j <= i) PROVE FALSE
    OBVIOUS
  <2>2. j \in After(i) /\ j \notin After(j) /\ After(j) \in SUBSET After(i)
    <3>1. i \in Nat /\ j \in Nat /\ j > i
      BY <1>1, <2>1
    <3>2. ASSUME NEW x \in S, x > j PROVE x > i
      BY <1>1, <3>1, <3>2
    <3>3. ~(j > j)
      BY <3>1
    <3> QED BY <3>1, <3>2, <3>3
  <2>3. Cardinality(After(i)) <= Cardinality(After(j))
    BY <1>3, <1>4
  <2> HIDE DEF After
  <2>4. Cardinality(After(j)) <= Cardinality(After(i)) /\ (Cardinality(After(i)) = Cardinality(After(j)) => After(i) = After(j))
    BY <1>2, <2>2, FS_Subset
  <2> QED BY <1>2, <2>2, <2>3, <2>4
<1>6. \E x \in S : \A j \in S : j <= x
  BY <1>5
<1> QED BY <1>6

(* A page is the first of what is left: those before one of it are of it,  *)
(* it is empty only when nothing is left, and a short one is all of it.    *)
LEMMA PageIsFirst ==
    ASSUME NEW S \in SUBSET Ids
    PROVE  /\ FirstOf(S) \subseteq S
           /\ \A i \in FirstOf(S), j \in S : j < i => j \in FirstOf(S)
           /\ FirstOf(S) = {} => S = {}
           /\ Cardinality(FirstOf(S)) # PageSize => FirstOf(S) = S
<1> DEFINE Before(i) == {j \in S : j < i}
           page == FirstOf(S)
<1>1. S \subseteq Nat /\ PageSize \in Nat /\ PageSize > 0
  BY IdsAreFinite, NotificationAssumption
<1>2. \A i \in S : Before(i) \in SUBSET S /\ IsFiniteSet(Before(i)) /\ Cardinality(Before(i)) \in Nat
  <2> TAKE i \in S
  <2>1. Before(i) \in SUBSET Ids /\ Before(i) \in SUBSET S
    OBVIOUS
  <2> HIDE DEF Before
  <2> QED BY <2>1, IdsAreFinite
<1>3. \A i \in S : i \in page <=> Cardinality(Before(i)) < PageSize
  BY DEF FirstOf
<1>4. page \subseteq S
  BY DEF FirstOf
<1> HIDE DEF page
<1>5. ASSUME NEW i \in page, NEW j \in S, j < i PROVE j \in page
  <2>1. i \in S /\ Before(j) \in SUBSET Before(i)
    <3>1. i \in S /\ i \in Nat /\ j \in Nat
      BY <1>1, <1>4
    <3>2. ASSUME NEW x \in S, x < j PROVE x < i
      BY <1>1, <1>5, <3>1, <3>2
    <3> QED BY <3>1, <3>2
  <2> HIDE DEF Before
  <2>2. Cardinality(Before(j)) <= Cardinality(Before(i))
    BY <1>2, <2>1, FS_Subset
  <2> QED BY <1>1, <1>2, <1>3, <2>1, <2>2
<1>6. ASSUME S # {} PROVE page # {}
  <2>1. PICK i \in S : \A j \in S : i <= j
    BY <1>1, <1>6, FirstId
  <2>2. Before(i) = {}
    <3>1. ASSUME NEW j \in S PROVE ~(j < i)
      BY <1>1, <2>1
    <3> QED BY <3>1
  <2> HIDE DEF Before
  <2>3. Cardinality(Before(i)) = 0
    BY <2>2, FS_EmptySet
  <2> QED BY <1>1, <1>3, <2>3
<1>7. ASSUME page # S PROVE Cardinality(page) = PageSize
  <2>1. PICK y \in S \ page : \A j \in S \ page : y <= j
    BY <1>1, <1>4, <1>7, FirstId
  <2>2. page = Before(y)
    <3>1. ASSUME NEW j \in S, j < y PROVE j \in page
      BY <1>1, <2>1, <3>1
    <3>2. ASSUME NEW j \in page PROVE j < y
      <4>1. j \in S /\ j # y /\ ~(y < j)
        BY <1>4, <1>5, <2>1
      <4> QED BY <1>1, <2>1, <4>1
    <3> QED BY <1>4, <3>1, <3>2
  <2>3. page # {} /\ page \in SUBSET Ids
    BY <1>4, <1>6, <2>1
  <2>4. PICK m \in page : \A j \in page : j <= m
    BY <2>3, LastId
  <2>5. m \in S /\ page \ {m} \in SUBSET Before(m)
    <3>1. m \in S /\ m \in Nat
      BY <1>1, <1>4
    <3>2. ASSUME NEW j \in page \ {m} PROVE j \in S /\ j < m
      BY <1>1, <1>4, <2>4, <3>1
    <3> QED BY <3>1, <3>2
  <2> HIDE DEF Before
  <2>6. Cardinality(page) >= PageSize /\ IsFiniteSet(page) /\ Cardinality(page) \in Nat
    <3>1. y \in S /\ y \notin page
      BY <2>1
    <3>2. Cardinality(Before(y)) \in Nat /\ ~(Cardinality(Before(y)) < PageSize) /\ IsFiniteSet(Before(y))
      BY <1>2, <1>3, <3>1
    <3> QED BY <1>1, <2>2, <3>2
  <2>7. Cardinality(page \ {m}) <= Cardinality(Before(m)) /\ Cardinality(page \ {m}) = Cardinality(page) - 1
    BY <1>2, <2>4, <2>5, <2>6, FS_Subset, FS_RemoveElement
  <2>8. Cardinality(Before(m)) < PageSize /\ Cardinality(Before(m)) \in Nat
    BY <1>2, <1>3, <2>4, <2>5
  <2>9. Cardinality(page) - 1 < PageSize
    BY <1>1, <2>6, <2>7, <2>8
  <2> QED BY <1>1, <2>6, <2>9
<1> QED BY <1>4, <1>5, <1>6, <1>7 DEF page

(* Promotions go to rows there are.                                        *)
LEMMA AllowedAreIds == ASSUME DevicesTyped PROVE Allowed \in SUBSET Ids
  BY DEF Allowed, DevicesTyped, Table, There, Row

(* What run says of one run is changed, and nothing of the others.         *)
LEMMA RunSet ==
    ASSUME SendingTyped, NEW k \in Runs, NEW x \in Run, run' = [run EXCEPT ![k] = x],
           promo' \in [Promotions -> Promotion \cup {Nil}], \A p \in Promotions : promo[p] # Nil => promo'[p] # Nil,
           promo'[x.promo] # Nil, pushed' \in [Promotions -> [Ids -> Nat]]
    PROVE  SendingTyped'
<1>1. run' \in [Runs -> Run \cup {Nil}]
  BY DEF SendingTyped
<1>2. ASSUME NEW l \in Runs, run'[l] # Nil PROVE promo'[run'[l].promo] # Nil
  <2>1. CASE l = k
    BY <2>1 DEF SendingTyped
  <2>2. CASE l # k
    <3>1. run'[l] = run[l] /\ run[l] \in Run
      BY <1>2, <2>2 DEF SendingTyped
    <3>2. run[l].promo \in Promotions /\ promo[run[l].promo] # Nil
      BY <1>2, <3>1 DEF SendingTyped, Run
    <3> QED BY <3>1, <3>2
  <2> QED BY <2>1, <2>2
<1> QED BY <1>1, <1>2 DEF SendingTyped

(* A promotion's row is written.                                           *)
LEMMA PromoSet ==
    ASSUME SendingTyped, NEW p \in Promotions, NEW x \in Promotion, promo' = [promo EXCEPT ![p] = x]
    PROVE  /\ promo' \in [Promotions -> Promotion \cup {Nil}]
           /\ \A q \in Promotions : promo[q] # Nil => promo'[q] # Nil
           /\ promo'[p] = x
           /\ \A q \in Promotions : q # p => promo'[q] = promo[q]
  BY NotificationAssumption DEF SendingTyped

(* A run that is under way.                                                *)
LEMMA RunIsRun ==
    ASSUME SendingTyped, NEW k \in Runs, run[k] # Nil
    PROVE  /\ run[k] \in Run
           /\ run[k].promo \in Promotions
           /\ promo[run[k].promo] \in Promotion
           /\ run[k].page \in SUBSET Ids
           /\ run[k].sent \in Nat /\ run[k].failed \in Nat /\ run[k].after \in Nat
  BY DEF SendingTyped, Run

(* Promotions and their runs stay what they should be.                     *)
LEMMA SendingStaysTyped ==
    ASSUME PushTyped, [PushNext]_pushVars
    PROVE  SendingTyped'
<1> USE NotificationAssumption
<1>0. SendingTyped /\ promo \in [Promotions -> Promotion \cup {Nil}] /\ pushed \in [Promotions -> [Ids -> Nat]]
      /\ run \in [Runs -> Run \cup {Nil}]
  BY DEF PushTyped, SendingTyped
<1>1. CASE UNCHANGED <<promo, run, pushed>>
  BY <1>0, <1>1 DEF SendingTyped
<1>2. ASSUME NEW k \in Runs, NEW i \in Instances, NEW p \in Promotions, ResumeQueued(k, i, p)
      PROVE  SendingTyped'
  <2>1. run' = [run EXCEPT ![k] = NewRun(i, p)] /\ promo' = promo /\ pushed' = pushed /\ promo[p] # Nil
    BY <1>2 DEF ResumeQueued, history
  <2>2. NewRun(i, p) \in Run /\ NewRun(i, p).promo = p
    BY DEF NewRun, Run
  <2> QED BY <1>0, <2>1, <2>2, RunSet
<1>3. ASSUME NEW k \in Runs, NEW i \in Instances, NEW p \in Promotions, Create(k, i, p)
      PROVE  SendingTyped'
  <2> DEFINE x == [status |-> "queued", sent |-> 0, failed |-> 0]
  <2>1. promo' = [promo EXCEPT ![p] = x] /\ pushed' = pushed
    BY <1>3 DEF Create, history
  <2>2. x \in Promotion
    BY DEF Promotion
  <2> HIDE DEF x
  <2>3. /\ promo' \in [Promotions -> Promotion \cup {Nil}]
        /\ \A q \in Promotions : promo[q] # Nil => promo'[q] # Nil
        /\ promo'[p] # Nil
    BY <1>0, <2>1, <2>2, PromoSet
  <2>4. CASE run' = [run EXCEPT ![k] = NewRun(i, p)]
    <3>1. NewRun(i, p) \in Run /\ NewRun(i, p).promo = p
      BY DEF NewRun, Run
    <3> QED BY <1>0, <2>1, <2>3, <2>4, <3>1, RunSet
  <2>5. CASE UNCHANGED run
    <3>1. ASSUME NEW l \in Runs, run[l] # Nil PROVE promo'[run[l].promo] # Nil
      BY <1>0, <2>3, <3>1, RunIsRun
    <3> QED BY <1>0, <2>1, <2>3, <2>5, <3>1 DEF SendingTyped
  <2> QED BY <1>3, <2>4, <2>5 DEF Create
<1>4. ASSUME NEW k \in Runs, run[k] # Nil, run' = [run EXCEPT ![k] = Ended(k)], UNCHANGED pushed,
             promo' \in [Promotions -> Promotion \cup {Nil}], \A q \in Promotions : promo[q] # Nil => promo'[q] # Nil
      PROVE  SendingTyped'
  <2>1. run[k] \in Run /\ run[k].promo \in Promotions /\ promo[run[k].promo] # Nil
    BY <1>0, <1>4, RunIsRun DEF SendingTyped
  <2>2. Ended(k) \in Run /\ Ended(k).promo = run[k].promo
    BY <2>1, EndedIsRun
  <2> QED BY <1>0, <1>4, <2>1, <2>2, RunSet
<1>5. ASSUME NEW k \in Runs, run[k] # Nil, NEW status \in {"sending", "sent", "failed"},
             promo' = [promo EXCEPT ![run[k].promo].status = status]
      PROVE  /\ promo' \in [Promotions -> Promotion \cup {Nil}]
             /\ \A q \in Promotions : promo[q] # Nil => promo'[q] # Nil
  <2>1. run[k].promo \in Promotions /\ promo[run[k].promo] \in Promotion
    BY <1>0, <1>5, RunIsRun
  <2>2. [promo[run[k].promo] EXCEPT !.status = status] \in Promotion
    BY <2>1 DEF Promotion
  <2>3. promo' = [promo EXCEPT ![run[k].promo] = [promo[run[k].promo] EXCEPT !.status = status]]
    BY <1>5
  <2> QED BY <1>0, <2>1, <2>2, <2>3, PromoSet
<1>6. ASSUME NEW k \in Runs, ClaimPromotion(k) PROVE SendingTyped'
  <2> DEFINE p == run[k].promo
             x == [run[k] EXCEPT !.step = "page"]
  <2>1. run[k] # Nil /\ UNCHANGED pushed
    BY <1>6 DEF ClaimPromotion, Running
  <2>2. run[k] \in Run /\ p \in Promotions /\ promo[p] # Nil
    BY <1>0, <2>1, RunIsRun DEF SendingTyped
  <2>3. CASE Claimable(p)
    <3>1. x \in Run /\ x.promo = p
      BY <2>2 DEF Run
    <3>2. run' = [run EXCEPT ![k] = x]
      BY <1>6, <2>3 DEF ClaimPromotion
    <3>3. /\ promo' \in [Promotions -> Promotion \cup {Nil}]
          /\ \A q \in Promotions : promo[q] # Nil => promo'[q] # Nil
      BY <1>5, <1>6, <2>1, <2>3 DEF ClaimPromotion
    <3>4. promo'[x.promo] # Nil
      BY <2>2, <3>1, <3>3
    <3> HIDE DEF x
    <3> QED BY <1>0, <2>1, <3>1, <3>2, <3>3, <3>4, RunSet
  <2>4. CASE ~Claimable(p)
    BY <1>0, <1>4, <1>6, <2>1, <2>4 DEF ClaimPromotion
  <2> QED BY <2>3, <2>4
<1>7. ASSUME NEW k \in Runs, run[k] # Nil, NEW x \in Run, x.promo = run[k].promo,
             run' = [run EXCEPT ![k] = x], UNCHANGED promo, pushed' \in [Promotions -> [Ids -> Nat]]
      PROVE  SendingTyped'
  <2>1. promo[x.promo] # Nil
    BY <1>0, <1>7 DEF SendingTyped
  <2> QED BY <1>0, <1>7, <2>1, RunSet
<1>8. ASSUME NEW k \in Runs, ReadPage(k) PROVE SendingTyped'
  <2> DEFINE page == FirstOf(ReadAfter(Allowed, k))
             last == CHOOSE i \in page : \A j \in page : j <= i
             x == [run[k] EXCEPT !.page = page, !.full = Cardinality(page) = PageSize,
                     !.after = IF page = {} THEN run[k].after ELSE last,
                     !.step = IF page = {} THEN "finish" ELSE "deliver"]
  <2>1. run[k] # Nil /\ UNCHANGED <<promo, pushed>>
    BY <1>8 DEF ReadPage, Running, history
  <2>2. run[k] \in Run
    BY <1>0, <2>1, RunIsRun
  <2>3. page \in SUBSET Ids
    BY AllowedAreIds DEF FirstOf, ReadAfter, PushTyped
  <2>4. page # {} => last \in Nat
    BY <2>3, LastId
  <2>5. run' = [run EXCEPT ![k] = x]
    BY <1>8 DEF ReadPage
  <2> HIDE DEF page, last
  <2>6. x \in Run /\ x.promo = run[k].promo
    <3>1. (IF page = {} THEN run[k].after ELSE last) \in Nat
      BY <2>2, <2>4 DEF Run
    <3>2. (IF page = {} THEN "finish" ELSE "deliver") \in {"finish", "deliver"}
      OBVIOUS
    <3>3. (Cardinality(page) = PageSize) \in BOOLEAN
      OBVIOUS
    <3> QED BY <2>2, <2>3, <3>1, <3>2, <3>3 DEF Run
  <2> HIDE DEF x
  <2> QED BY <1>0, <1>7, <2>1, <2>5, <2>6
<1>9. ASSUME NEW k \in Runs, Deliver(k) PROVE SendingTyped'
  <2>1. run[k] # Nil /\ UNCHANGED promo
    BY <1>9 DEF Deliver, Running
  <2>2. run[k] \in Run /\ run[k].page \in SUBSET Ids /\ run[k].sent \in Nat /\ run[k].failed \in Nat
    BY <1>0, <2>1, RunIsRun
  <2>3. PICK answer \in Outcomes(run[k].page) :
          run' = [run EXCEPT ![k].sent = Total(@, Cardinality(run[k].page \ answer.failed)),
                   ![k].failed = Total(@, Cardinality(answer.failed)), ![k].gone = answer.gone,
                   ![k].step = "forget"]
    BY <1>9 DEF Deliver
  <2> DEFINE s == Total(run[k].sent, Cardinality(run[k].page \ answer.failed))
             f == Total(run[k].failed, Cardinality(answer.failed))
             x == [run[k] EXCEPT !.sent = s, !.failed = f, !.gone = answer.gone, !.step = "forget"]
  <2>4. run' = [run EXCEPT ![k] = x]
    BY <2>3
  <2>5. answer.failed \in SUBSET run[k].page /\ answer.gone \in SUBSET run[k].page
    BY DEF Outcomes
  <2>6. Cardinality(run[k].page \ answer.failed) \in Nat /\ Cardinality(answer.failed) \in Nat
    BY <2>2, <2>5, IdsAreFinite
  <2>7. s \in Nat /\ f \in Nat
    BY <2>2, <2>6 DEF Total
  <2> HIDE DEF s, f
  <2>8. x \in Run /\ x.promo = run[k].promo
    BY <2>2, <2>5, <2>7 DEF Run
  <2> HIDE DEF x
  <2>9. pushed' \in [Promotions -> [Ids -> Nat]]
    <3> DEFINE p == run[k].promo
               after == [i \in Ids |-> IF i \in run[k].page THEN pushed[p][i] + 1 ELSE pushed[p][i]]
    <3>1. p \in Promotions
      BY <1>0, <2>1, RunIsRun
    <3>2. after \in [Ids -> Nat]
      BY <1>0, <3>1
    <3>3. pushed' = [pushed EXCEPT ![p] = after]
      BY <1>0, <1>9, <3>1 DEF Deliver
    <3> HIDE DEF after
    <3> QED BY <1>0, <3>1, <3>2, <3>3
  <2> QED BY <1>0, <1>7, <2>1, <2>4, <2>8, <2>9
<1>10. ASSUME NEW k \in Runs, CountPage(k) PROVE SendingTyped'
  <2> DEFINE p == run[k].promo
             row == [promo[p] EXCEPT !.sent = run[k].sent, !.failed = run[k].failed]
             x == [run[k] EXCEPT !.step = IF run[k].full THEN "page" ELSE "finish", !.page = {}]
  <2>1. run[k] # Nil /\ UNCHANGED pushed
    BY <1>10 DEF CountPage, Running, history
  <2>2. run[k] \in Run /\ p \in Promotions /\ promo[p] \in Promotion
    BY <1>0, <2>1, RunIsRun
  <2>3. row \in Promotion
    BY <2>2 DEF Promotion, Run
  <2>4. promo' = [promo EXCEPT ![p] = row]
    BY <1>10 DEF CountPage
  <2>5. run' = [run EXCEPT ![k] = x]
    BY <1>10 DEF CountPage
  <2>6. x \in Run /\ x.promo = p
    BY <2>2 DEF Run
  <2> HIDE DEF row, x
  <2>7. /\ promo' \in [Promotions -> Promotion \cup {Nil}]
        /\ \A q \in Promotions : promo[q] # Nil => promo'[q] # Nil
        /\ promo'[p] # Nil
    BY <1>0, <2>2, <2>3, <2>4, PromoSet
  <2> QED BY <1>0, <2>1, <2>2, <2>5, <2>6, <2>7, RunSet
<1>11. ASSUME NEW k \in Runs, Finish(k) \/ Fail(k) PROVE SendingTyped'
  <2>1. run[k] # Nil /\ UNCHANGED pushed /\ run' = [run EXCEPT ![k] = Ended(k)]
    BY <1>11 DEF Finish, Fail, Running, history
  <2>2. UNCHANGED promo \/ \E status \in {"sending", "sent", "failed"} : promo' = [promo EXCEPT ![run[k].promo].status = status]
    BY <1>11 DEF Finish, Fail
  <2>3. /\ promo' \in [Promotions -> Promotion \cup {Nil}]
        /\ \A q \in Promotions : promo[q] # Nil => promo'[q] # Nil
    BY <1>0, <1>5, <2>1, <2>2
  <2> QED BY <1>4, <2>1, <2>3
<1>12. ASSUME NEW i \in Instances, Crash(i) PROVE SendingTyped'
  <2>1. UNCHANGED <<promo, pushed>> /\ run' = [k \in Runs |-> IF run[k] # Nil /\ run[k].in = i THEN Ended(k) ELSE run[k]]
    BY <1>12 DEF Crash, history
  <2>2. ASSUME NEW k \in Runs, run[k] # Nil PROVE Ended(k) \in Run /\ Ended(k).promo = run[k].promo
    BY <1>0, <2>2, RunIsRun, EndedIsRun
  <2>3. run' \in [Runs -> Run \cup {Nil}]
    BY <1>0, <2>1, <2>2
  <2>4. ASSUME NEW k \in Runs, run'[k] # Nil PROVE promo'[run'[k].promo] # Nil
    <3>1. run[k] # Nil /\ run'[k].promo = run[k].promo
      BY <2>1, <2>2, <2>4
    <3> QED BY <1>0, <2>1, <3>1 DEF SendingTyped
  <2> QED BY <1>0, <2>1, <2>3, <2>4 DEF SendingTyped
<1>13. ASSUME NEW k \in Runs, ForgetGone(k) PROVE SendingTyped'
  <2> DEFINE x == [run[k] EXCEPT !.step = "count", !.gone = {}]
  <2>1. run[k] # Nil /\ UNCHANGED <<promo, pushed>> /\ run' = [run EXCEPT ![k] = x]
    BY <1>13 DEF ForgetGone, Running
  <2>2. run[k] \in Run /\ x \in Run /\ x.promo = run[k].promo
    BY <1>0, <2>1, RunIsRun DEF Run
  <2> HIDE DEF x
  <2> QED BY <1>0, <1>7, <2>1, <2>2
<1> QED BY <1>1, <1>2, <1>3, <1>6, <1>8, <1>9, <1>10, <1>11, <1>12, <1>13, SendingMoves DEF Promote

(* Accounts change when something is switched, or a device is signed out.  *)
LEMMA AccountMoves ==
    ASSUME [PushNext]_pushVars
    PROVE  /\ UNCHANGED <<off, hidden>> \/ \E u \in Users : Switch(u)
           /\ UNCHANGED <<revoked, unheard>> \/ \E s \in Sessions : SignOut(s) \/ ForgetSession(s)
<1>1. CASE UNCHANGED pushVars
  BY <1>1 DEF pushVars, accounts
<1>2. CASE Devices
  <2>1. ASSUME NEW r \in Requests, NEW u \in Users, NEW s \in Sessions \cup {Nil}, NEW t \in Tokens,
               Register(r, u, s, t)
        PROVE  UNCHANGED accounts
    BY <2>1 DEF Register
  <2>2. ASSUME NEW r \in Requests, Upsert(r) \/ FindOldestBeyondLimit(r) \/ Forget(r) PROVE UNCHANGED accounts
    BY <2>2 DEF Upsert, FindOldestBeyondLimit, Forget
  <2>3. ASSUME NEW u \in Users, Switch(u) PROVE UNCHANGED <<revoked, unheard>>
    BY <2>3 DEF Switch
  <2>4. ASSUME NEW u \in Users, NEW t \in Tokens, Unregister(u, t) PROVE UNCHANGED accounts
    BY <2>4 DEF Unregister
  <2>5. ASSUME NEW s \in Sessions, SignOut(s) \/ ForgetSession(s) PROVE UNCHANGED <<off, hidden>>
    BY <2>5 DEF SignOut, ForgetSession
  <2> QED BY <1>2, <2>1, <2>2, <2>3, <2>4, <2>5 DEF Devices, accounts
<1>3. CASE Promote
  <2>1. ASSUME NEW k \in Runs, NEW i \in Instances, NEW p \in Promotions, ResumeQueued(k, i, p) \/ Create(k, i, p)
        PROVE  UNCHANGED accounts
    BY <2>1 DEF ResumeQueued, Create
  <2>2. ASSUME NEW k \in Runs,
               \/ ClaimPromotion(k) \/ ReadPage(k) \/ Deliver(k) \/ ForgetGone(k) \/ CountPage(k)
               \/ Finish(k) \/ Fail(k)
        PROVE  UNCHANGED accounts
    BY <2>2 DEF ClaimPromotion, ReadPage, Deliver, ForgetGone, CountPage, Finish, Fail
  <2>3. ASSUME NEW i \in Instances, Crash(i) PROVE UNCHANGED accounts
    BY <2>3 DEF Crash
  <2> QED BY <1>3, <2>1, <2>2, <2>3 DEF Promote, accounts
<1>4. CASE Notices
  <2>1. ASSUME NEW r \in Requests, NEW s \in Sessions, NotifySignIn(r, s) PROVE UNCHANGED accounts
    BY <2>1 DEF NotifySignIn
  <2>2. ASSUME NEW r \in Requests, NEW u \in Users, CallRinging(r, u) \/ CallEnded(r, u) PROVE UNCHANGED accounts
    BY <2>2 DEF CallRinging, CallEnded
  <2>3. ASSUME NEW r \in Requests, WarnTargets(r) \/ ReadTargets(r) \/ DeliverCall(r) PROVE UNCHANGED accounts
    BY <2>3 DEF WarnTargets, ReadTargets, DeliverCall
  <2>4. ASSUME NEW t \in Tokens, RingingTimesOut(t) PROVE UNCHANGED accounts
    BY <2>4 DEF RingingTimesOut
  <2> QED BY <1>4, <2>1, <2>2, <2>3, <2>4 DEF Notices, accounts
<1> QED BY <1>1, <1>2, <1>3, <1>4 DEF PushNext

(* What phones show, and the call, change when it is pushed.               *)
LEMMA CallMoves ==
    ASSUME [PushNext]_pushVars
    PROVE  \/ UNCHANGED <<phone, aCall, apart>>
           \/ \E r \in Requests :
                (\E u \in Users : CallRinging(r, u) \/ CallEnded(r, u)) \/ DeliverCall(r)
           \/ \E t \in Tokens : RingingTimesOut(t)
<1>1. CASE UNCHANGED pushVars
  BY <1>1 DEF pushVars, calling, history
<1>2. CASE Devices
  <2>1. ASSUME NEW r \in Requests, NEW u \in Users, NEW s \in Sessions \cup {Nil}, NEW t \in Tokens,
               Register(r, u, s, t)
        PROVE  UNCHANGED <<phone, aCall, apart>>
    BY <2>1 DEF Register, calling, history
  <2>2. ASSUME NEW r \in Requests, Upsert(r) \/ FindOldestBeyondLimit(r) \/ Forget(r)
        PROVE  UNCHANGED <<phone, aCall, apart>>
    BY <2>2 DEF Upsert, FindOldestBeyondLimit, Forget, calling, history
  <2>3. ASSUME NEW u \in Users, Switch(u) \/ \E t \in Tokens : Unregister(u, t)
        PROVE  UNCHANGED <<phone, aCall, apart>>
    BY <2>3 DEF Switch, Unregister, calling
  <2>4. ASSUME NEW s \in Sessions, SignOut(s) \/ ForgetSession(s) PROVE UNCHANGED <<phone, aCall, apart>>
    BY <2>4 DEF SignOut, ForgetSession, calling, history
  <2> QED BY <1>2, <2>1, <2>2, <2>3, <2>4 DEF Devices
<1>3. CASE Promote
  <2>1. ASSUME NEW k \in Runs, NEW i \in Instances, NEW p \in Promotions, ResumeQueued(k, i, p) \/ Create(k, i, p)
        PROVE  UNCHANGED <<phone, aCall, apart>>
    BY <2>1 DEF ResumeQueued, Create, calling, history
  <2>2. ASSUME NEW k \in Runs,
               \/ ClaimPromotion(k) \/ ReadPage(k) \/ Deliver(k) \/ ForgetGone(k) \/ CountPage(k)
               \/ Finish(k) \/ Fail(k)
        PROVE  UNCHANGED <<phone, aCall, apart>>
    BY <2>2 DEF ClaimPromotion, ReadPage, Deliver, ForgetGone, CountPage, Finish, Fail, calling, history
  <2>3. ASSUME NEW i \in Instances, Crash(i) PROVE UNCHANGED <<phone, aCall, apart>>
    BY <2>3 DEF Crash, calling, history
  <2> QED BY <1>3, <2>1, <2>2, <2>3 DEF Promote
<1>4. CASE Notices
  <2>1. ASSUME NEW r \in Requests, NEW s \in Sessions, NotifySignIn(r, s) PROVE UNCHANGED <<phone, aCall, apart>>
    BY <2>1 DEF NotifySignIn, calling
  <2>2. ASSUME NEW r \in Requests, WarnTargets(r) \/ ReadTargets(r) PROVE UNCHANGED <<phone, aCall, apart>>
    BY <2>2 DEF WarnTargets, ReadTargets, calling, history
  <2> QED BY <1>4, <2>1, <2>2 DEF Notices
<1> QED BY <1>1, <1>2, <1>3, <1>4 DEF PushNext

(* Accounts and the list of sign-outs stay sound.                          *)
LEMMA AccountsStayTyped ==
    ASSUME AccountsTyped, [PushNext]_pushVars
    PROVE  AccountsTyped'
<1>1. off' \subseteq Users /\ hidden' \subseteq Users
  BY AccountMoves DEF AccountsTyped, Switch
<1>2. CASE UNCHANGED <<revoked, unheard>>
  BY <1>1, <1>2 DEF AccountsTyped
<1>3. ASSUME NEW s \in Sessions, SignOut(s) \/ ForgetSession(s) PROVE AccountsTyped'
  BY <1>1, <1>3 DEF AccountsTyped, SignOut, ForgetSession
<1> QED BY <1>2, <1>3, AccountMoves

(* So do the phones and the call.                                          *)
LEMMA CallStaysTyped ==
    ASSUME CallTyped, [PushNext]_pushVars
    PROVE  CallTyped'
<1>1. CASE UNCHANGED <<phone, aCall, apart>>
  BY <1>1 DEF CallTyped
<1>2. ASSUME NEW r \in Requests, NEW u \in Users, CallRinging(r, u) \/ CallEnded(r, u) PROVE CallTyped'
  BY <1>2 DEF CallRinging, CallEnded, CallTyped
<1>3. ASSUME NEW r \in Requests, DeliverCall(r) PROVE CallTyped'
  BY <1>3 DEF DeliverCall, CallTyped
<1>4. ASSUME NEW t \in Tokens, RingingTimesOut(t) PROVE CallTyped'
  BY <1>4 DEF RingingTimesOut, calling, CallTyped
<1> QED BY <1>1, <1>2, <1>3, <1>4, CallMoves

(* All of this is inductive.                                               *)
LEMMA NextPushTyped == PushTyped /\ [PushNext]_pushVars => PushTyped'
  BY DevicesStayTyped, RequestsStayTyped, SendingStaysTyped, AccountsStayTyped, CallStaysTyped DEF PushTyped

(* Devices, requests, promotions and runs are what they should be; a       *)
(* token has one row, an id is of one row, and of two devices one was      *)
(* registered later (push_devices, push-devices.service.ts).               *)
THEOREM PushTypeInvariant == PushSpec => [](PushTypeOK /\ PushTyped)
<1>1. PushSpec => []PushTyped
  BY InitPushTyped, NextPushTyped, PTL DEF PushSpec
<1> QED BY <1>1, TypedIsTypeOK, PTL

-----------------------------------------------------------------------------
(* A device that was signed out.                                           *)

(* A device is signed in by its registration alone.                        *)
LEMMA SessionMoves ==
    ASSUME [PushNext]_pushVars
    PROVE  \/ \E r \in Requests : Upsert(r)
           \/ \E s \in Sessions : SignOut(s) \/ ForgetSession(s)
           \/ /\ UNCHANGED <<revoked, unheard, missed, late>>
              /\ UNCHANGED device \/ \E gone : Delete(gone)
<1>1. CASE UNCHANGED pushVars
  BY <1>1 DEF pushVars, accounts, history, table
<1>2. CASE Devices
  <2>1. ASSUME NEW r \in Requests, NEW u \in Users, NEW s \in Sessions \cup {Nil}, NEW t \in Tokens,
               Register(r, u, s, t)
        PROVE  UNCHANGED <<revoked, unheard, missed, late, device>>
    BY <2>1 DEF Register, accounts, history, table
  <2>2. ASSUME NEW r \in Requests, FindOldestBeyondLimit(r)
        PROVE  UNCHANGED <<revoked, unheard, missed, late, device>>
    BY <2>2 DEF FindOldestBeyondLimit, accounts, history, table
  <2>3. ASSUME NEW r \in Requests, Forget(r)
        PROVE  UNCHANGED <<revoked, unheard, missed, late>> /\ \E gone : Delete(gone)
    BY <2>3 DEF Forget, accounts
  <2>4. ASSUME NEW u \in Users, Switch(u)
        PROVE  UNCHANGED <<revoked, unheard, missed, late, device>>
    BY <2>4 DEF Switch, table
  <2>5. ASSUME NEW u \in Users, NEW t \in Tokens, Unregister(u, t)
        PROVE  UNCHANGED <<revoked, unheard, missed, late>> /\ \E gone : Delete(gone)
    BY <2>5 DEF Unregister, accounts
  <2> QED BY <1>2, <2>1, <2>2, <2>3, <2>4, <2>5 DEF Devices
<1>3. CASE Promote
  <2>1. ASSUME NEW k \in Runs, ForgetGone(k)
        PROVE  UNCHANGED <<revoked, unheard, missed, late>> /\ \E gone : Delete(gone)
    BY <2>1 DEF ForgetGone, accounts
  <2>2. ASSUME NEW k \in Runs, NEW i \in Instances, NEW p \in Promotions, ResumeQueued(k, i, p) \/ Create(k, i, p)
        PROVE  UNCHANGED <<revoked, unheard, missed, late, device>>
    BY <2>2 DEF ResumeQueued, Create, accounts, history, table
  <2>3. ASSUME NEW k \in Runs,
               ClaimPromotion(k) \/ ReadPage(k) \/ Deliver(k) \/ CountPage(k) \/ Finish(k) \/ Fail(k)
        PROVE  UNCHANGED <<revoked, unheard, missed, late, device>>
    BY <2>3 DEF ClaimPromotion, ReadPage, Deliver, CountPage, Finish, Fail, accounts, history, table
  <2>4. ASSUME NEW i \in Instances, Crash(i)
        PROVE  UNCHANGED <<revoked, unheard, missed, late, device>>
    BY <2>4 DEF Crash, accounts, history, table
  <2> QED BY <1>3, <2>1, <2>2, <2>3, <2>4 DEF Promote
<1>4. CASE Notices
  <2>1. ASSUME NEW r \in Requests, NEW s \in Sessions, NotifySignIn(r, s)
        PROVE  UNCHANGED <<revoked, unheard, missed, late, device>>
    BY <2>1 DEF NotifySignIn, accounts, table
  <2>2. ASSUME NEW r \in Requests, NEW u \in Users, CallRinging(r, u) \/ CallEnded(r, u)
        PROVE  UNCHANGED <<revoked, unheard, missed, late, device>>
    BY <2>2 DEF CallRinging, CallEnded, accounts, history, table
  <2>3. ASSUME NEW r \in Requests, WarnTargets(r) \/ ReadTargets(r) \/ DeliverCall(r)
        PROVE  UNCHANGED <<revoked, unheard, missed, late, device>>
    BY <2>3 DEF WarnTargets, ReadTargets, DeliverCall, accounts, history, table
  <2>4. ASSUME NEW t \in Tokens, RingingTimesOut(t)
        PROVE  UNCHANGED <<revoked, unheard, missed, late, device>>
    BY <2>4 DEF RingingTimesOut, accounts, history, table
  <2> QED BY <1>4, <2>1, <2>2, <2>3, <2>4 DEF Notices
<1> QED BY <1>1, <1>2, <1>3, <1>4 DEF PushNext

(* No step leaves a device behind for a session that was signed out.       *)
LEMMA NextForgotten ==
    ASSUME PushTyped, SignedOutIsForgotten, [PushNext]_pushVars
    PROVE  SignedOutIsForgotten'
<1> USE NotificationAssumption
<1>1. ASSUME UNCHANGED <<revoked, unheard, missed, late>>, UNCHANGED device \/ \E gone : Delete(gone)
      PROVE  SignedOutIsForgotten'
  <2>1. \A t \in Tokens : device'[t] # Nil => device'[t] = device[t]
    BY <1>1 DEF Delete
  <2> QED BY <1>1, <2>1 DEF SignedOutIsForgotten
<1>2. ASSUME NEW r \in Requests, Upsert(r) PROVE SignedOutIsForgotten'
  <2> DEFINE t == req[r].token
             s == req[r].session
  <2>1. PICK i \in Ids : device' = [device EXCEPT ![t] = [id |-> i, user |-> req[r].user, session |-> s]]
    BY <1>2 DEF Upsert
  <2>2. late' = (IF s \in revoked THEN late \cup {t} ELSE late \ {t}) /\ UNCHANGED <<revoked, unheard, missed>>
    BY <1>2 DEF Upsert, accounts
  <2>3. device \in [Tokens -> Row \cup {Nil}]
    BY DEF PushTyped, DevicesTyped, Table
  <2> HIDE DEF s, t
  <2>4. ASSUME NEW x \in Tokens, device'[x] # Nil, device'[x].session \in revoked' \ missed'
        PROVE  device'[x].session \in unheard' \/ x \in late'
    <3>1. CASE x = t
      BY <2>1, <2>2, <2>3, <2>4, <3>1
    <3>2. CASE x # t
      <4>1. device'[x] = device[x]
        BY <2>1, <2>3, <3>2
      <4>2. device[x].session \in unheard \/ x \in late
        BY <2>2, <2>4, <4>1 DEF SignedOutIsForgotten
      <4> QED BY <2>2, <3>2, <4>1, <4>2
    <3> QED BY <3>1, <3>2
  <2> QED BY <2>4 DEF SignedOutIsForgotten
<1>3. ASSUME NEW s \in Sessions, SignOut(s) PROVE SignedOutIsForgotten'
  BY <1>3 DEF SignOut, table, history, SignedOutIsForgotten
<1>4. ASSUME NEW s \in Sessions, ForgetSession(s) PROVE SignedOutIsForgotten'
  <2>1. unheard' = unheard \ {s} /\ UNCHANGED <<revoked, late>> /\ missed \subseteq missed'
    BY <1>4 DEF ForgetSession
  <2>2. \A t \in Tokens : device'[t] # Nil => device'[t] = device[t]
    BY <1>4 DEF ForgetSession, Delete
  <2>3. ASSUME NEW t \in Tokens, device'[t] # Nil, device'[t].session = s PROVE s \in missed'
    <3>1. device[t] # Nil /\ device[t].session = s
      BY <2>2, <2>3
    <3>2. t \in OfSession(s)
      BY <3>1 DEF OfSession, There
    <3> QED BY <1>4, <2>3, <3>2 DEF ForgetSession, Delete
  <2> QED BY <2>1, <2>2, <2>3 DEF SignedOutIsForgotten
<1> QED BY <1>1, <1>2, <1>3, <1>4, SessionMoves

(* A session that was signed out has no device left once the service heard *)
(* of it and the database answered, unless it registered just then         *)
(* (forgetSession, session-sign-out.listener.ts).                          *)
THEOREM SignedOutForgotten == PushSpec => []SignedOutIsForgotten
<1>1. PushInit => SignedOutIsForgotten
  BY DEF PushInit, SignedOutIsForgotten
<1>2. PushTyped /\ SignedOutIsForgotten /\ [PushNext]_pushVars => SignedOutIsForgotten'
  BY NextForgotten
<1>3. PushSpec => []PushTyped
  BY PushTypeInvariant, PTL
<1> QED BY <1>1, <1>2, <1>3, PTL DEF PushSpec

-----------------------------------------------------------------------------
(* Promotions: who is sent one.                                            *)

(* Who a promotion was begun for and has been there, allowing it, ever     *)
(* since would be sent it now.                                             *)
AudienceIsAllowed == audience \in [Promotions -> SUBSET Allowed]

(* The audience changes when it is read, and when rows or accounts do.     *)
LEMMA AudienceMoves ==
    ASSUME [PushNext]_pushVars
    PROVE  \/ \E r \in Requests : Upsert(r)
           \/ \E k \in Runs : ClaimPromotion(k)
           \/ \E u \in Users : Switch(u)
           \/ UNCHANGED <<off, hidden>> /\ \E gone : Delete(gone)
           \/ UNCHANGED <<off, hidden, device, audience>>
<1>1. CASE UNCHANGED pushVars
  BY <1>1 DEF pushVars, accounts, history, table
<1>2. CASE Devices
  <2>1. ASSUME NEW r \in Requests, NEW u \in Users, NEW s \in Sessions \cup {Nil}, NEW t \in Tokens,
               Register(r, u, s, t)
        PROVE  UNCHANGED <<off, hidden, device, audience>>
    BY <2>1 DEF Register, accounts, history, table
  <2>2. ASSUME NEW r \in Requests, FindOldestBeyondLimit(r)
        PROVE  UNCHANGED <<off, hidden, device, audience>>
    BY <2>2 DEF FindOldestBeyondLimit, accounts, history, table
  <2>3. ASSUME NEW r \in Requests, Forget(r)
        PROVE  UNCHANGED <<off, hidden>> /\ \E gone : Delete(gone)
    BY <2>3 DEF Forget, accounts
  <2>4. ASSUME NEW u \in Users, NEW t \in Tokens, Unregister(u, t)
        PROVE  UNCHANGED <<off, hidden>> /\ \E gone : Delete(gone)
    BY <2>4 DEF Unregister, accounts
  <2>5. ASSUME NEW s \in Sessions, SignOut(s)
        PROVE  UNCHANGED <<off, hidden, device, audience>>
    BY <2>5 DEF SignOut, history, table
  <2>6. ASSUME NEW s \in Sessions, ForgetSession(s)
        PROVE  \/ UNCHANGED <<off, hidden>> /\ \E gone : Delete(gone)
               \/ UNCHANGED <<off, hidden, device, audience>>
    BY <2>6 DEF ForgetSession
  <2> QED BY <1>2, <2>1, <2>2, <2>3, <2>4, <2>5, <2>6 DEF Devices
<1>3. CASE Promote
  <2>1. ASSUME NEW k \in Runs, ForgetGone(k)
        PROVE  UNCHANGED <<off, hidden>> /\ \E gone : Delete(gone)
    BY <2>1 DEF ForgetGone, accounts
  <2>2. ASSUME NEW k \in Runs, NEW i \in Instances, NEW p \in Promotions, ResumeQueued(k, i, p) \/ Create(k, i, p)
        PROVE  UNCHANGED <<off, hidden, device, audience>>
    BY <2>2 DEF ResumeQueued, Create, accounts, history, table
  <2>3. ASSUME NEW k \in Runs, ReadPage(k) \/ Deliver(k) \/ CountPage(k) \/ Finish(k) \/ Fail(k)
        PROVE  UNCHANGED <<off, hidden, device, audience>>
    BY <2>3 DEF ReadPage, Deliver, CountPage, Finish, Fail, accounts, history, table
  <2>4. ASSUME NEW i \in Instances, Crash(i)
        PROVE  UNCHANGED <<off, hidden, device, audience>>
    BY <2>4 DEF Crash, accounts, history, table
  <2> QED BY <1>3, <2>1, <2>2, <2>3, <2>4 DEF Promote
<1>4. CASE Notices
  <2>1. ASSUME NEW r \in Requests, NEW s \in Sessions, NotifySignIn(r, s)
        PROVE  UNCHANGED <<off, hidden, device, audience>>
    BY <2>1 DEF NotifySignIn, accounts, table
  <2>2. ASSUME NEW r \in Requests, NEW u \in Users, CallRinging(r, u) \/ CallEnded(r, u)
        PROVE  UNCHANGED <<off, hidden, device, audience>>
    BY <2>2 DEF CallRinging, CallEnded, accounts, history, table
  <2>3. ASSUME NEW r \in Requests, WarnTargets(r) \/ ReadTargets(r) \/ DeliverCall(r)
        PROVE  UNCHANGED <<off, hidden, device, audience>>
    BY <2>3 DEF WarnTargets, ReadTargets, DeliverCall, accounts, history, table
  <2>4. ASSUME NEW t \in Tokens, RingingTimesOut(t)
        PROVE  UNCHANGED <<off, hidden, device, audience>>
    BY <2>4 DEF RingingTimesOut, accounts, history, table
  <2> QED BY <1>4, <2>1, <2>2, <2>3, <2>4 DEF Notices
<1> QED BY <1>1, <1>2, <1>3, <1>4 DEF PushNext

(* It only shrinks, but when a promotion is begun.                         *)
LEMMA NextAudience ==
    ASSUME PushTyped, AudienceIsAllowed, [PushNext]_pushVars
    PROVE  /\ AudienceIsAllowed'
           /\ (\E k \in Runs : ClaimPromotion(k)) \/ \A p \in Promotions : audience'[p] \subseteq audience[p]
<1>0. /\ audience \in [Promotions -> SUBSET Allowed]
      /\ device \in [Tokens -> Row \cup {Nil}]
      /\ \A i \in Allowed : \E t \in There : i = device[t].id /\ device[t].user \notin off \cup hidden
      /\ \A t \in There : device[t].user \notin off \cup hidden => device[t].id \in Allowed
  BY DEF AudienceIsAllowed, PushTyped, DevicesTyped, Table, Allowed
<1>1. ASSUME audience' = [p \in Promotions |-> audience'[p]],
             \A p \in Promotions : audience'[p] \subseteq audience[p],
             ASSUME NEW p \in Promotions, NEW i \in audience'[p], NEW t \in There,
                    i = device[t].id, device[t].user \notin off \cup hidden
             PROVE  \E x \in There' : i = device'[x].id /\ device'[x].user \notin off' \cup hidden'
      PROVE  AudienceIsAllowed' /\ \A p \in Promotions : audience'[p] \subseteq audience[p]
  <2>1. ASSUME NEW p \in Promotions, NEW i \in audience'[p] PROVE i \in Allowed'
    <3>1. i \in Allowed
      BY <1>0, <1>1
    <3>2. PICK t \in There : i = device[t].id /\ device[t].user \notin off \cup hidden
      BY <1>0, <3>1
    <3>3. \E x \in There' : i = device'[x].id /\ device'[x].user \notin off' \cup hidden'
      BY <1>1, <3>2
    <3> QED BY <3>3 DEF Allowed
  <2> QED BY <1>1, <2>1 DEF AudienceIsAllowed
<1>2. CASE UNCHANGED <<off, hidden, device, audience>>
  BY <1>2 DEF AudienceIsAllowed, Allowed, There
<1>3. ASSUME NEW gone, Delete(gone), UNCHANGED <<off, hidden>>
      PROVE  AudienceIsAllowed' /\ \A p \in Promotions : audience'[p] \subseteq audience[p]
  <2>1. audience' = [p \in Promotions |-> audience[p] \ {device[t].id : t \in gone}]
    BY <1>3 DEF Delete
  <2>2. ASSUME NEW p \in Promotions, NEW i \in audience'[p], NEW t \in There,
               i = device[t].id, device[t].user \notin off \cup hidden
        PROVE  \E x \in There' : i = device'[x].id /\ device'[x].user \notin off' \cup hidden'
    <3>1. t \notin gone
      BY <2>1, <2>2
    <3>2. device'[t] = device[t] /\ t \in There'
      BY <1>3, <3>1 DEF Delete, There
    <3> QED BY <1>3, <2>2, <3>2
  <2>3. audience' = [p \in Promotions |-> audience'[p]] /\ \A p \in Promotions : audience'[p] \subseteq audience[p]
    BY <2>1
  <2> QED BY <1>1, <2>2, <2>3
<1>4. ASSUME NEW u \in Users, Switch(u)
      PROVE  AudienceIsAllowed' /\ \A p \in Promotions : audience'[p] \subseteq audience[p]
  <2>1. audience' = [p \in Promotions |-> audience[p] \ {device[t].id : t \in RowsOf(u)}]
    BY <1>4 DEF Switch
  <2>2. ASSUME NEW p \in Promotions, NEW i \in audience'[p], NEW t \in There,
               i = device[t].id, device[t].user \notin off \cup hidden
        PROVE  \E x \in There' : i = device'[x].id /\ device'[x].user \notin off' \cup hidden'
    <3>1. t \notin RowsOf(u)
      BY <2>1, <2>2
    <3>2. device[t].user # u
      BY <3>1 DEF RowsOf
    <3>3. device' = device /\ There' = There
      BY <1>4 DEF Switch, table, There
    <3>4. device[t].user \notin off' \cup hidden'
      BY <1>4, <2>2, <3>2 DEF Switch
    <3> QED BY <2>2, <3>3, <3>4
  <2>3. audience' = [p \in Promotions |-> audience'[p]] /\ \A p \in Promotions : audience'[p] \subseteq audience[p]
    BY <2>1
  <2> QED BY <1>1, <2>2, <2>3
<1>5. ASSUME NEW k \in Runs, ClaimPromotion(k) PROVE AudienceIsAllowed'
  <2>1. UNCHANGED <<device, off, hidden>>
    BY <1>5 DEF ClaimPromotion, table, accounts
  <2>2. Allowed' = Allowed
    BY <2>1 DEF Allowed, There
  <2>3. audience' = [audience EXCEPT ![run[k].promo] = Allowed] \/ audience' = audience
    BY <1>5 DEF ClaimPromotion
  <2> QED BY <1>0, <2>2, <2>3 DEF AudienceIsAllowed
<1>6. ASSUME NEW r \in Requests, Upsert(r)
      PROVE  AudienceIsAllowed' /\ \A p \in Promotions : audience'[p] \subseteq audience[p]
  <2> DEFINE t == req[r].token
             u == req[r].user
  <2>1. t \in Tokens
    BY <1>6 DEF Upsert, Reached, PushTyped, RequestsTyped
  <2>2. PICK i \in Ids : /\ device[t] # Nil => i = device[t].id
                         /\ device' = [device EXCEPT ![t] = [id |-> i, user |-> u, session |-> req[r].session]]
    BY <1>6 DEF Upsert
  <2>3. /\ audience' = IF u \in off \cup hidden THEN [p \in Promotions |-> audience[p] \ {device'[t].id}] ELSE audience
        /\ UNCHANGED <<off, hidden>>
    BY <1>6 DEF Upsert, accounts
  <2>4. [id |-> i, user |-> u, session |-> req[r].session] \in Row
    BY <1>6, <2>2 DEF Upsert, Reached, PushTyped, RequestsTyped, Request, Row
  <2>5. [id |-> i, user |-> u, session |-> req[r].session] # Nil
    BY <2>4, NotificationAssumption
  <2> HIDE DEF t, u
  <2>6. device'[t].id = i /\ device'[t].user = u /\ t \in There'
    BY <1>0, <2>1, <2>2, <2>5 DEF There
  <2>7. ASSUME NEW p \in Promotions, NEW j \in audience'[p], NEW x \in There,
               j = device[x].id, device[x].user \notin off \cup hidden
        PROVE  \E y \in There' : j = device'[y].id /\ device'[y].user \notin off' \cup hidden'
    <3>1. CASE x = t
      <4>1. j = i
        BY <2>2, <2>7, <3>1 DEF There
      <4>2. u \notin off \cup hidden
        BY <2>3, <2>6, <2>7, <4>1
      <4> QED BY <2>3, <2>6, <4>1, <4>2
    <3>2. CASE x # t
      <4>1. device'[x] = device[x] /\ x \in There'
        BY <1>0, <2>2, <3>2 DEF There
      <4> QED BY <2>3, <2>7, <4>1
    <3> QED BY <3>1, <3>2
  <2>8. audience' = [p \in Promotions |-> audience'[p]] /\ \A p \in Promotions : audience'[p] \subseteq audience[p]
    BY <1>0, <2>3
  <2> QED BY <1>1, <2>7, <2>8
<1> QED BY <1>2, <1>3, <1>4, <1>5, <1>6, AudienceMoves

-----------------------------------------------------------------------------
(* Promotions: what was sent.                                              *)

SentBy(p) == {i \in Ids : pushed[p][i] > 0}

(* A run that claimed its promotion, and is not over.                      *)
Sends(k) == run[k] # Nil /\ run[k].step \in {"page", "deliver", "forget", "count", "finish"}

Due(k) == IF run[k].step = "deliver" THEN run[k].page ELSE {}

(* It was sent to those up to "after" that still are of its audience, but  *)
(* for a page that is about to be; a short page is the last.               *)
PageByPage(k) ==
    /\ \A i \in SentBy(run[k].promo) : i <= run[k].after /\ i \notin Due(k)
    /\ \A i \in run[k].page : i <= run[k].after
    /\ \A i \in audience[run[k].promo] : i <= run[k].after => i \in SentBy(run[k].promo) \cup Due(k)
    /\ ~run[k].full \/ run[k].step = "finish" => \A i \in audience[run[k].promo] : i <= run[k].after

(* It counts whom it was sent to, and writes the counts page by page.      *)
Counts(k) ==
    /\ run[k].sent + run[k].failed = Cardinality(SentBy(run[k].promo))
    /\ run[k].step \notin {"forget", "count"} =>
          promo[run[k].promo].sent = run[k].sent /\ promo[run[k].promo].failed = run[k].failed

RunOK(k) ==
    /\ run[k] # Nil /\ run[k].step = "claim" => run[k] = NewRun(run[k].in, run[k].promo)
    /\ Sends(k) => promo[run[k].promo].status = "sending" /\ PageByPage(k) /\ Counts(k)

PromotionOK(p) ==
    /\ \A i \in Ids : pushed[p][i] <= 1
    /\ promo[p] = Nil \/ promo[p].status = "queued" =>
          SentBy(p) = {} /\ (promo[p] # Nil => promo[p].sent = 0 /\ promo[p].failed = 0)
    /\ promo[p] # Nil /\ promo[p].status = "sent" =>
          audience[p] \subseteq SentBy(p) /\ promo[p].sent + promo[p].failed = Cardinality(SentBy(p))

(* One run at most sends a promotion, and says what it sent.               *)
PromotionInv ==
    /\ AudienceIsAllowed
    /\ \A k \in Runs : RunOK(k)
    /\ \A p \in Promotions : PromotionOK(p)
    /\ \A k, l \in Runs : Sends(k) /\ Sends(l) /\ run[k].promo = run[l].promo => k = l

(* That is all that is asked of promotions.                                *)
LEMMA PromotionInvReaches == PushTyped /\ PromotionInv => PromotionReachesAll
<1> SUFFICES ASSUME PushTyped, PromotionInv PROVE PromotionReachesAll
  OBVIOUS
<1>1. PromotionOnce
  BY DEF PromotionOnce, PromotionInv, PromotionOK
<1>2. ASSUME NEW p \in Promotions, promo[p] # Nil, promo[p].status = "sent", NEW i \in audience[p]
      PROVE  pushed[p][i] = 1
  <2>1. i \in Ids /\ pushed[p][i] > 0 /\ pushed[p][i] <= 1
    BY <1>2 DEF PromotionInv, PromotionOK, SentBy
  <2>2. pushed[p][i] \in Nat
    BY <2>1 DEF PushTyped, SendingTyped
  <2> QED BY <2>1, <2>2
<1>3. CountsAddUp
  BY DEF CountsAddUp, PromotionInv, PromotionOK, SentBy
<1> QED BY <1>1, <1>2, <1>3 DEF PromotionReachesAll, AudienceIsReached

(* No promotion is there at first.                                         *)
LEMMA InitPromotionInv == PushInit => PromotionInv
<1> SUFFICES ASSUME PushInit PROVE PromotionInv
  OBVIOUS
<1>1. AudienceIsAllowed
  BY DEF PushInit, AudienceIsAllowed
<1>2. ASSUME NEW p \in Promotions PROVE PromotionOK(p)
  BY DEF PushInit, PromotionOK, SentBy
<1>3. \A k \in Runs : run[k] = Nil
  BY DEF PushInit
<1> QED BY <1>1, <1>2, <1>3 DEF PromotionInv, RunOK, Sends

(* What a run may rely on is left alone.                                   *)
LEMMA RunStays ==
    ASSUME NEW k \in Runs, RunOK(k), run'[k] = run[k],
           Sends(k) => /\ promo'[run[k].promo] = promo[run[k].promo]
                       /\ pushed'[run[k].promo] = pushed[run[k].promo]
                       /\ audience'[run[k].promo] \subseteq audience[run[k].promo]
    PROVE  RunOK(k)' /\ (Sends(k)' <=> Sends(k))
<1>1. Sends(k)' <=> Sends(k)
  BY DEF Sends
<1>2. ASSUME Sends(k) PROVE (PageByPage(k) /\ Counts(k))'
  <2>1. SentBy(run[k].promo)' = SentBy(run[k].promo) /\ Due(k)' = Due(k)
    BY <1>2 DEF SentBy, Due
  <2>2. PageByPage(k)'
    BY <1>2, <2>1 DEF RunOK, PageByPage
  <2>3. Counts(k)'
    BY <1>2, <2>1 DEF RunOK, Counts
  <2> QED BY <2>2, <2>3
<1> QED BY <1>1, <1>2 DEF RunOK

(* A promotion that no step is about stays right.                          *)
LEMMA PromotionStays ==
    ASSUME NEW p \in Promotions, PromotionOK(p), promo'[p] = promo[p], pushed'[p] = pushed[p],
           audience'[p] \subseteq audience[p]
    PROVE  PromotionOK(p)'
<1>1. SentBy(p)' = SentBy(p)
  BY DEF SentBy
<1> QED BY <1>1 DEF PromotionOK

(* A step of one run, for one promotion.                                   *)
LEMMA OneRunSteps ==
    ASSUME PromotionInv, AudienceIsAllowed', NEW k \in Runs, NEW p \in Promotions,
           \A l \in Runs : l # k => run'[l] = run[l] /\ (Sends(l) => run[l].promo \in Promotions \ {p}),
           \A q \in Promotions : q # p => promo'[q] = promo[q] /\ pushed'[q] = pushed[q] /\ audience'[q] \subseteq audience[q],
           RunOK(k)', PromotionOK(p)', Sends(k)' => run'[k].promo = p
    PROVE  PromotionInv'
<1>1. ASSUME NEW l \in Runs, l # k PROVE RunOK(l)' /\ (Sends(l)' <=> Sends(l))
  <2>1. RunOK(l)
    BY DEF PromotionInv
  <2> QED BY <1>1, <2>1, RunStays
<1>2. \A l \in Runs : RunOK(l)'
  BY <1>1
<1>3. ASSUME NEW q \in Promotions PROVE PromotionOK(q)'
  <2>1. PromotionOK(q)
    BY DEF PromotionInv
  <2> QED BY <2>1, PromotionStays
<1>4. ASSUME NEW l \in Runs, NEW m \in Runs, Sends(l)', Sends(m)', run'[l].promo = run'[m].promo PROVE l = m
  <2>1. CASE l = k \/ m = k
    BY <1>1, <1>4, <2>1
  <2>2. CASE l # k /\ m # k
    BY <1>1, <1>4, <2>2 DEF PromotionInv
  <2> QED BY <2>1, <2>2
<1> QED BY <1>2, <1>3, <1>4 DEF PromotionInv

(* A run that is over holds nothing.                                       *)
LEMMA OverIsOK ==
    ASSUME SendingTyped, NEW k \in Runs, run[k] # Nil, run'[k] = Ended(k)
    PROVE  RunOK(k)' /\ ~Sends(k)'
<1>1. Ended(k).step = "done"
  BY RunIsRun, EndedIsRun
<1> QED BY <1>1 DEF RunOK, Sends

(* Runs end, and nothing else changes.                                     *)
LEMMA SomeRunEnds ==
    ASSUME PushTyped, PromotionInv, AudienceIsAllowed', UNCHANGED <<promo, pushed, audience>>,
           \A k \in Runs : run'[k] = run[k] \/ (run[k] # Nil /\ run'[k] = Ended(k))
    PROVE  PromotionInv'
<1>1. ASSUME NEW k \in Runs PROVE RunOK(k)' /\ (Sends(k)' => Sends(k) /\ run'[k] = run[k])
  <2>1. RunOK(k)
    BY DEF PromotionInv
  <2>2. CASE run'[k] = run[k]
    BY <2>1, <2>2, RunStays
  <2>3. CASE run[k] # Nil /\ run'[k] = Ended(k)
    BY <2>3, OverIsOK DEF PushTyped
  <2> QED BY <2>2, <2>3
<1>2. ASSUME NEW p \in Promotions PROVE PromotionOK(p)'
  <2>1. PromotionOK(p)
    BY DEF PromotionInv
  <2> QED BY <2>1, PromotionStays
<1>3. ASSUME NEW k \in Runs, NEW l \in Runs, Sends(k)', Sends(l)', run'[k].promo = run'[l].promo PROVE k = l
  BY <1>1, <1>3 DEF PromotionInv
<1> QED BY <1>1, <1>2, <1>3 DEF PromotionInv

(* What is run for the promotion of a run that sends is that run.          *)
LEMMA Alone ==
    ASSUME SendingTyped, PromotionInv, NEW k \in Runs, Sends(k)
    PROVE  /\ run[k] \in Run /\ run[k].promo \in Promotions
           /\ promo[run[k].promo] \in Promotion /\ promo[run[k].promo].status = "sending"
           /\ RunOK(k) /\ PromotionOK(run[k].promo)
           /\ \A l \in Runs : l # k /\ Sends(l) => run[l].promo \in Promotions \ {run[k].promo}
<1>1. run[k] \in Run /\ run[k].promo \in Promotions /\ promo[run[k].promo] \in Promotion
  BY RunIsRun DEF Sends
<1>2. RunOK(k) /\ PromotionOK(run[k].promo)
  BY <1>1 DEF PromotionInv
<1>3. promo[run[k].promo].status = "sending"
  BY <1>2 DEF RunOK
<1>4. \A l \in Runs : l # k /\ Sends(l) => run[l].promo \in Promotions /\ run[l].promo # run[k].promo
  BY RunIsRun DEF PromotionInv, Sends
<1> QED BY <1>1, <1>2, <1>3, <1>4

(* A promotion is begun, or taken up again.                                *)
LEMMA BeginsOK ==
    ASSUME PushTyped, PromotionInv, AudienceIsAllowed', NEW k \in Runs, NEW i \in Instances, NEW p \in Promotions,
           ResumeQueued(k, i, p) \/ Create(k, i, p)
    PROVE  PromotionInv'
<1> USE NotificationAssumption
<1>1. /\ SendingTyped /\ RunOK(k) /\ PromotionOK(p)
      /\ run \in [Runs -> Run \cup {Nil}] /\ promo \in [Promotions -> Promotion \cup {Nil}]
  BY DEF PushTyped, SendingTyped, PromotionInv
<1>2. /\ run[k] = Nil /\ UNCHANGED <<pushed, audience>>
      /\ run' = [run EXCEPT ![k] = NewRun(i, p)] \/ UNCHANGED run
  BY DEF ResumeQueued, Create, history
<1>3. \/ UNCHANGED promo /\ promo[p] # Nil /\ promo[p].status = "queued"
      \/ promo[p] = Nil /\ promo' = [promo EXCEPT ![p] = [status |-> "queued", sent |-> 0, failed |-> 0]]
  BY DEF ResumeQueued, Create
<1>4. \A l \in Runs : l # k => run'[l] = run[l]
  BY <1>1, <1>2
<1>5. ASSUME NEW l \in Runs, Sends(l) PROVE run[l].promo \in Promotions \ {p}
  <2>1. promo[run[l].promo].status = "sending" /\ promo[run[l].promo] # Nil
    BY <1>1, <1>5, Alone, RunIsRun
  <2> QED BY <1>1, <1>3, <1>5, <2>1, Alone
<1>6. \A q \in Promotions : q # p => promo'[q] = promo[q] /\ pushed'[q] = pushed[q] /\ audience'[q] \subseteq audience[q]
  BY <1>1, <1>2, <1>3
<1>7. RunOK(k)' /\ ~Sends(k)'
  <2>1. CASE run' = [run EXCEPT ![k] = NewRun(i, p)]
    <3>1. run'[k] = NewRun(i, p)
      BY <1>1, <2>1
    <3>2. NewRun(i, p).step = "claim" /\ NewRun(i, p).in = i /\ NewRun(i, p).promo = p
      BY DEF NewRun
    <3>3. RunOK(k)' <=> /\ run'[k] # Nil /\ run'[k].step = "claim" => run'[k] = NewRun(run'[k].in, run'[k].promo)
                        /\ Sends(k)' => (promo[run[k].promo].status = "sending" /\ PageByPage(k) /\ Counts(k))'
      BY DEF RunOK
    <3>4. Sends(k)' <=> run'[k] # Nil /\ run'[k].step \in {"page", "deliver", "forget", "count", "finish"}
      BY DEF Sends
    <3> QED BY <3>1, <3>2, <3>3, <3>4
  <2>2. CASE UNCHANGED run
    BY <1>2, <2>2 DEF RunOK, Sends
  <2> QED BY <1>2, <2>1, <2>2
<1>8. PromotionOK(p)'
  <2>1. SentBy(p)' = SentBy(p) /\ pushed'[p] = pushed[p]
    BY <1>2 DEF SentBy
  <2>2. CASE UNCHANGED promo /\ promo[p] # Nil /\ promo[p].status = "queued"
    BY <1>1, <1>2, <2>2, PromotionStays
  <2>3. CASE promo[p] = Nil /\ promo' = [promo EXCEPT ![p] = [status |-> "queued", sent |-> 0, failed |-> 0]]
    <3>1. promo'[p] = [status |-> "queued", sent |-> 0, failed |-> 0] /\ SentBy(p) = {}
      BY <1>1, <2>3 DEF PromotionOK
    <3>2. promo'[p].status = "queued" /\ promo'[p].sent = 0 /\ promo'[p].failed = 0
      BY <3>1
    <3> QED BY <1>1, <2>1, <3>1, <3>2 DEF PromotionOK
  <2> QED BY <1>3, <2>2, <2>3
<1> QED BY <1>4, <1>5, <1>6, <1>7, <1>8, OneRunSteps

(* One run claims a promotion; whoever comes later finds it claimed.       *)
LEMMA ClaimsOK ==
    ASSUME PushTyped, PromotionInv, AudienceIsAllowed', NEW k \in Runs, ClaimPromotion(k)
    PROVE  PromotionInv'
<1> USE NotificationAssumption
<1>1. /\ SendingTyped /\ run \in [Runs -> Run \cup {Nil}] /\ promo \in [Promotions -> Promotion \cup {Nil}]
      /\ audience \in [Promotions -> SUBSET Allowed]
  BY DEF PushTyped, SendingTyped, PromotionInv, AudienceIsAllowed
<1>2. run[k] # Nil /\ run[k].step = "claim" /\ UNCHANGED pushed
  BY DEF ClaimPromotion, Running
<1>p. PICK p \in Promotions : p = run[k].promo
  BY <1>1, <1>2, RunIsRun
<1>3. run[k] \in Run /\ promo[p] \in Promotion /\ RunOK(k) /\ PromotionOK(p)
  BY <1>1, <1>2, <1>p, RunIsRun DEF PromotionInv
<1>4. CASE Claimable(p)
  <2>1. /\ promo' = [promo EXCEPT ![p].status = "sending"]
        /\ run' = [run EXCEPT ![k].step = "page"]
        /\ audience' = [audience EXCEPT ![p] = Allowed]
    BY <1>4, <1>p DEF ClaimPromotion
  <2>2. ASSUME NEW l \in Runs, Sends(l) PROVE run[l].promo \in Promotions \ {p}
    <3>1. promo[run[l].promo].status = "sending"
      BY <1>1, <2>2, Alone
    <3> QED BY <1>1, <1>4, <2>2, <3>1, Alone DEF Claimable
  <2>3. SentBy(p) = {} /\ promo[p].sent = 0 /\ promo[p].failed = 0
    BY <1>1, <1>3, <1>4 DEF PromotionOK, Claimable
  <2>4. SentBy(p)' = {} /\ \A i \in Ids : pushed'[p][i] <= 1
    BY <1>2, <1>3, <2>3 DEF SentBy, PromotionOK
  <2>5. promo'[p].status = "sending" /\ promo'[p].sent = 0 /\ promo'[p].failed = 0 /\ promo'[p] # Nil
    <3>1. promo'[p] = [promo[p] EXCEPT !.status = "sending"]
      BY <1>1, <1>3, <2>1
    <3>2. [promo[p] EXCEPT !.status = "sending"] \in Promotion
      BY <1>3 DEF Promotion
    <3> QED BY <1>3, <2>3, <3>1, <3>2 DEF Promotion
  <2>6. /\ run'[k] # Nil /\ run'[k].step = "page" /\ run'[k].promo = p /\ run'[k].page = {} /\ run'[k].after = 0
        /\ run'[k].full = TRUE /\ run'[k].sent = 0 /\ run'[k].failed = 0
    <3>1. run[k] = NewRun(run[k].in, run[k].promo)
      BY <1>2, <1>3 DEF RunOK
    <3>2. run[k].page = {} /\ run[k].after = 0 /\ run[k].full = TRUE /\ run[k].sent = 0 /\ run[k].failed = 0
      BY <3>1 DEF NewRun
    <3>3. run'[k] = [run[k] EXCEPT !.step = "page"]
      BY <1>1, <2>1
    <3>4. [run[k] EXCEPT !.step = "page"] \in Run
      BY <1>3 DEF Run
    <3>5. /\ run'[k].step = "page" /\ run'[k].promo = p /\ run'[k].page = run[k].page /\ run'[k].after = run[k].after
          /\ run'[k].full = run[k].full /\ run'[k].sent = run[k].sent /\ run'[k].failed = run[k].failed
      BY <1>3, <1>p, <3>3 DEF Run
    <3> QED BY <3>2, <3>3, <3>4, <3>5
  <2>7. \A i \in audience'[p] : ~(i <= 0)
    <3>1. audience'[p] = Allowed /\ Allowed \in SUBSET Ids
      BY <1>1, <2>1, AllowedAreIds DEF PushTyped
    <3>2. Allowed \subseteq Nat \ {0}
      BY <3>1, IdsAreFinite
    <3>3. \A i \in Nat \ {0} : ~(i <= 0)
      OBVIOUS
    <3> QED BY <3>1, <3>2, <3>3
  <2>8. PageByPage(k)'
    BY <2>4, <2>6, <2>7 DEF PageByPage, Due
  <2>9. Counts(k)'
    <3>1. SentBy(run[k].promo)' = {}
      BY <2>4, <2>6
    <3>2. Cardinality(SentBy(run[k].promo)') = 0
      BY <3>1, FS_EmptySet
    <3> QED BY <2>5, <2>6, <3>2 DEF Counts
  <2>10. RunOK(k)'
    BY <2>5, <2>6, <2>8, <2>9 DEF RunOK
  <2>11. PromotionOK(p)'
    BY <2>4, <2>5 DEF PromotionOK
  <2>12. \A l \in Runs : l # k => run'[l] = run[l]
    BY <1>1, <2>1
  <2>13. \A q \in Promotions : q # p => promo'[q] = promo[q] /\ pushed'[q] = pushed[q] /\ audience'[q] \subseteq audience[q]
    BY <1>1, <1>2, <2>1
  <2> QED BY <2>2, <2>6, <2>10, <2>11, <2>12, <2>13, OneRunSteps
<1>5. CASE ~Claimable(p)
  <2>1. run' = [run EXCEPT ![k] = Ended(k)] /\ UNCHANGED <<promo, audience>>
    BY <1>5, <1>p DEF ClaimPromotion
  <2>2. \A l \in Runs : run'[l] = run[l] \/ (run[l] # Nil /\ run'[l] = Ended(l))
    BY <1>1, <1>2, <2>1
  <2> QED BY <1>2, <2>1, <2>2, SomeRunEnds
<1> QED BY <1>4, <1>5

(* The next page holds nobody it was sent to, and leaves nobody out.       *)
LEMMA ReadsOK ==
    ASSUME PushTyped, PromotionInv, AudienceIsAllowed', NEW k \in Runs, ReadPage(k)
    PROVE  PromotionInv'
<1>1. /\ SendingTyped /\ run \in [Runs -> Run \cup {Nil}]
      /\ audience \in [Promotions -> SUBSET Allowed]
  BY DEF PushTyped, SendingTyped, PromotionInv, AudienceIsAllowed
<1>2. run[k] # Nil /\ run[k].step = "page" /\ UNCHANGED <<promo, pushed, audience>> /\ Sends(k)
  BY DEF ReadPage, Running, history, Sends
<1>3. PICK p \in Promotions : p = run[k].promo
  BY <1>1, <1>2, Alone
<1>4. /\ run[k] \in Run /\ promo[p] # Nil /\ promo[p].status = "sending"
      /\ PageByPage(k) /\ Counts(k) /\ PromotionOK(p)
      /\ \A l \in Runs : l # k /\ Sends(l) => run[l].promo \in Promotions \ {p}
  BY <1>1, <1>2, <1>3, Alone, RunIsRun DEF RunOK, SendingTyped
<1>5. PICK rest : rest = ReadAfter(Allowed, k)
  OBVIOUS
<1>6. PICK page : page = FirstOf(rest)
  OBVIOUS
<1>7. rest \in SUBSET Ids /\ \A i \in Allowed : i \in rest <=> i > run[k].after
  BY <1>5, AllowedAreIds DEF ReadAfter, PushTyped
<1>8. /\ page \subseteq rest
      /\ \A i \in page, j \in rest : j < i => j \in page
      /\ page = {} => rest = {}
      /\ Cardinality(page) # PageSize => page = rest
  BY <1>6, <1>7, PageIsFirst
<1>9. PICK last : last = CHOOSE i \in page : \A j \in page : j <= i
  OBVIOUS
<1>10. page # {} => last \in page /\ \A j \in page : j <= last
  BY <1>7, <1>8, <1>9, LastId
<1>11. PICK after : after = IF page = {} THEN run[k].after ELSE last
  OBVIOUS
<1>12. run' = [run EXCEPT ![k] = [run[k] EXCEPT !.page = page, !.full = Cardinality(page) = PageSize, !.after = after,
                                    !.step = IF page = {} THEN "finish" ELSE "deliver"]]
  BY <1>5, <1>6, <1>9, <1>11 DEF ReadPage
<1>13. /\ run'[k].promo = p /\ run'[k].page = page /\ run'[k].full = (Cardinality(page) = PageSize)
       /\ run'[k].after = after /\ run'[k].step = (IF page = {} THEN "finish" ELSE "deliver")
       /\ run'[k].sent = run[k].sent /\ run'[k].failed = run[k].failed
  BY <1>1, <1>3, <1>4, <1>12 DEF Run
<1>14. Allowed \subseteq Nat /\ run[k].after \in Nat /\ (page # {} => last \in Nat) /\ Allowed \subseteq Ids
  BY <1>1, <1>2, <1>7, <1>8, <1>10, RunIsRun, AllowedAreIds, IdsAreFinite DEF PushTyped
<1>15. SentBy(p)' = SentBy(p) /\ audience'[p] = audience[p] /\ audience[p] \subseteq Allowed /\ Due(k)' = page
  <2>1. SentBy(p)' = SentBy(p) /\ audience'[p] = audience[p] /\ audience[p] \subseteq Allowed
    BY <1>1, <1>2 DEF SentBy
  <2>2. Due(k)' = page
    BY <1>13 DEF Due
  <2> QED BY <2>1, <2>2
<1>16. /\ \A i \in SentBy(p) : i <= run[k].after
       /\ \A i \in audience[p] : i <= run[k].after => i \in SentBy(p)
       /\ SentBy(p) \subseteq Nat
  <2>1. Due(k) = {}
    BY <1>2 DEF Due
  <2>2. SentBy(p) \in SUBSET Ids
    BY DEF SentBy
  <2> QED BY <1>3, <1>4, <2>1, <2>2, IdsAreFinite DEF PageByPage
<1>17. run[k].after <= after /\ \A i \in page : i > run[k].after /\ i <= after
  <2>1. ASSUME NEW i \in page PROVE i > run[k].after /\ i <= last
    <3>1. i \in rest
      BY <1>8
    <3> QED BY <1>5, <1>10, <3>1 DEF ReadAfter
  <2>2. CASE page = {}
    BY <1>11, <1>14, <2>2
  <2>3. CASE page # {}
    BY <1>10, <1>11, <1>14, <2>1, <2>3
  <2> QED BY <2>2, <2>3
<1>18. after \in Nat
  BY <1>11, <1>14
<1>19. \A i \in SentBy(p) : i <= after /\ i \notin page
  <2>1. ASSUME NEW i \in SentBy(p) PROVE i <= after /\ i \notin page
    <3>1. i <= run[k].after /\ i \in Nat
      BY <1>16
    <3>2. i <= after
      BY <1>14, <1>17, <1>18, <3>1
    <3>3. ~(i > run[k].after)
      BY <1>14, <3>1
    <3> QED BY <1>17, <3>2, <3>3
  <2> QED BY <2>1
<1>20. ASSUME NEW i \in audience[p], i <= after PROVE i \in SentBy(p) \cup page
  <2>1. i \in Allowed /\ i \in Nat
    BY <1>14, <1>15
  <2>2. CASE i <= run[k].after
    BY <1>16, <2>2
  <2>3. CASE i > run[k].after
    <3>1. i \in rest
      BY <1>7, <2>1, <2>3
    <3>2. page # {} /\ last \in page /\ i <= last /\ last \in Nat
      BY <1>8, <1>10, <1>11, <1>14, <1>20, <3>1
    <3>3. CASE i = last
      BY <3>2, <3>3
    <3>4. CASE i < last
      BY <1>8, <3>1, <3>2, <3>4
    <3> QED BY <2>1, <3>2, <3>3, <3>4
  <2> QED BY <1>14, <2>1, <2>2, <2>3
<1>21. ASSUME NEW i \in audience[p], page = {} \/ Cardinality(page) # PageSize PROVE i <= after
  <2>1. page = rest
    BY <1>8, <1>21
  <2>2. i \in Allowed /\ i \in Nat
    BY <1>14, <1>15
  <2>3. CASE i > run[k].after
    <3>1. i \in page
      BY <1>7, <2>1, <2>2, <2>3
    <3> QED BY <1>17, <3>1
  <2>4. CASE ~(i > run[k].after)
    BY <1>14, <1>17, <1>18, <2>2, <2>4
  <2> QED BY <2>3, <2>4
<1>22. PageByPage(k)'
  <2>1. ~run'[k].full \/ run'[k].step = "finish" => page = {} \/ Cardinality(page) # PageSize
    BY <1>13
  <2>2. SentBy(run[k].promo)' = SentBy(p) /\ audience'[run'[k].promo] = audience[p]
    BY <1>13, <1>15
  <2> QED BY <1>13, <1>15, <1>17, <1>19, <1>20, <1>21, <2>1, <2>2 DEF PageByPage
<1>23. Counts(k)'
  <2>1. SentBy(run[k].promo)' = SentBy(p)
    BY <1>13, <1>15
  <2>2. run[k].sent + run[k].failed = Cardinality(SentBy(p)) /\ promo[p].sent = run[k].sent /\ promo[p].failed = run[k].failed
    BY <1>2, <1>3, <1>4 DEF Counts
  <2> QED BY <1>2, <1>13, <2>1, <2>2 DEF Counts
<1>24. RunOK(k)'
  BY <1>2, <1>4, <1>13, <1>22, <1>23 DEF RunOK
<1>25. PromotionOK(p)'
  BY <1>2, <1>4, PromotionStays
<1>26. \A l \in Runs : l # k => run'[l] = run[l]
  BY <1>1, <1>12
<1> QED BY <1>2, <1>4, <1>13, <1>24, <1>25, <1>26, OneRunSteps

(* What Firebase says of each of a page adds up to the page.               *)
LEMMA PageAddsUp ==
    ASSUME NEW page \in SUBSET Ids, NEW before \in SUBSET Ids, before \cap page = {}, NEW failed \in SUBSET page
    PROVE  Cardinality(before \cup page) = Cardinality(before) + Cardinality(page \ failed) + Cardinality(failed)
<1>1. IsFiniteSet(page) /\ IsFiniteSet(before) /\ IsFiniteSet(failed) /\ IsFiniteSet(page \ failed)
  <2>1. failed \in SUBSET Ids /\ page \ failed \in SUBSET Ids
    OBVIOUS
  <2> QED BY <2>1, IdsAreFinite
<1>2. /\ Cardinality(page) \in Nat /\ Cardinality(before) \in Nat
      /\ Cardinality(failed) \in Nat /\ Cardinality(page \ failed) \in Nat
  BY <1>1, FS_CardinalityType
<1>3. Cardinality(before \cup page) = Cardinality(before) + Cardinality(page) - Cardinality(before \cap page)
  BY <1>1, FS_Union
<1>4. Cardinality(before \cap page) = 0
  BY FS_EmptySet
<1>5. Cardinality(page) = Cardinality(page \ failed) + Cardinality(failed)
  <2>1. (page \ failed) \cup failed = page /\ (page \ failed) \cap failed = {}
    OBVIOUS
  <2>2. Cardinality((page \ failed) \cup failed) = Cardinality(page \ failed) + Cardinality(failed)
                                                     - Cardinality((page \ failed) \cap failed)
    BY <1>1, FS_Union
  <2>3. Cardinality((page \ failed) \cap failed) = 0
    BY <2>1, FS_EmptySet
  <2> QED BY <1>2, <2>1, <2>2, <2>3
<1> QED BY <1>2, <1>3, <1>4, <1>5

(* A page is sent, to each of it once.                                     *)
LEMMA DeliversOK ==
    ASSUME PushTyped, PromotionInv, AudienceIsAllowed', NEW k \in Runs, Deliver(k)
    PROVE  PromotionInv'
<1>1. /\ SendingTyped /\ run \in [Runs -> Run \cup {Nil}] /\ pushed \in [Promotions -> [Ids -> Nat]]
      /\ audience \in [Promotions -> SUBSET Allowed]
  BY DEF PushTyped, SendingTyped, PromotionInv, AudienceIsAllowed
<1>2. run[k] # Nil /\ run[k].step = "deliver" /\ UNCHANGED <<promo, audience>> /\ Sends(k)
  BY DEF Deliver, Running, Sends
<1>3. PICK p \in Promotions : p = run[k].promo
  BY <1>1, <1>2, Alone
<1>4. /\ run[k] \in Run /\ promo[p] # Nil /\ promo[p].status = "sending"
      /\ PageByPage(k) /\ Counts(k) /\ PromotionOK(p)
      /\ \A l \in Runs : l # k /\ Sends(l) => run[l].promo \in Promotions \ {p}
  BY <1>1, <1>2, <1>3, Alone, RunIsRun DEF RunOK, SendingTyped
<1>5. PICK page \in SUBSET Ids : page = run[k].page
  BY <1>4 DEF Run
<1>6. PICK answer \in Outcomes(page) :
        run' = [run EXCEPT ![k].sent = Total(@, Cardinality(page \ answer.failed)),
                 ![k].failed = Total(@, Cardinality(answer.failed)), ![k].gone = answer.gone,
                 ![k].step = "forget"]
  BY <1>5 DEF Deliver
<1>7. PICK failed \in SUBSET page : failed = answer.failed
  BY DEF Outcomes
<1>8. /\ run[k].sent \in Nat /\ run[k].failed \in Nat
      /\ Cardinality(page \ failed) \in Nat /\ Cardinality(failed) \in Nat
  <2>1. page \ failed \in SUBSET Ids /\ failed \in SUBSET Ids
    OBVIOUS
  <2> QED BY <1>4, <2>1, IdsAreFinite DEF Run
<1>9. /\ run'[k] # Nil /\ run'[k].promo = p /\ run'[k].step = "forget" /\ run'[k].page = page
      /\ run'[k].after = run[k].after /\ run'[k].full = run[k].full
      /\ run'[k].sent = run[k].sent + Cardinality(page \ failed)
      /\ run'[k].failed = run[k].failed + Cardinality(failed)
  <2>1. PICK s \in Nat : s = run[k].sent + Cardinality(page \ failed)
    BY <1>8
  <2>2. PICK f \in Nat : f = run[k].failed + Cardinality(failed)
    BY <1>8
  <2>3. answer.gone \in SUBSET Ids
    BY DEF Outcomes
  <2>4. run'[k] = [run[k] EXCEPT !.sent = s, !.failed = f, !.gone = answer.gone, !.step = "forget"]
    BY <1>1, <1>6, <1>7, <2>1, <2>2 DEF Total
  <2>5. [run[k] EXCEPT !.sent = s, !.failed = f, !.gone = answer.gone, !.step = "forget"] \in Run
    BY <1>4, <2>1, <2>2, <2>3 DEF Run
  <2>6. run'[k] # Nil
    BY <2>4, <2>5, NotificationAssumption
  <2>7. /\ run'[k].promo = run[k].promo /\ run'[k].step = "forget" /\ run'[k].page = run[k].page
        /\ run'[k].after = run[k].after /\ run'[k].full = run[k].full
        /\ run'[k].sent = s /\ run'[k].failed = f
    BY <1>4, <2>4 DEF Run
  <2> QED BY <1>3, <1>5, <2>1, <2>2, <2>6, <2>7
<1>10. /\ \A q \in Promotions : q # p => pushed'[q] = pushed[q]
       /\ \A i \in Ids : pushed'[p][i] = IF i \in page THEN pushed[p][i] + 1 ELSE pushed[p][i]
  BY <1>1, <1>3, <1>5 DEF Deliver
<1>11. \A i \in Ids : pushed[p][i] \in Nat
  BY <1>1
<1>12. Due(k) = page
  BY <1>2, <1>5 DEF Due
<1>13. SentBy(p) \cap page = {} /\ SentBy(p) \in SUBSET Ids
  BY <1>3, <1>4, <1>12 DEF PageByPage, SentBy
<1>14. ASSUME NEW i \in Ids
       PROVE  pushed'[p][i] <= 1 /\ (pushed'[p][i] > 0 <=> i \in SentBy(p) \cup page)
  <2>1. CASE i \in page
    <3>1. pushed[p][i] = 0
      BY <1>11, <1>13, <2>1 DEF SentBy
    <3> QED BY <1>10, <2>1, <3>1
  <2>2. CASE i \notin page
    BY <1>4, <1>10, <2>2 DEF PromotionOK, SentBy
  <2> QED BY <2>1, <2>2
<1>15. SentBy(p)' = SentBy(p) \cup page
  <2>1. SentBy(p)' = {i \in Ids : pushed'[p][i] > 0}
    BY DEF SentBy
  <2> QED BY <1>13, <1>14, <2>1
<1>16. SentBy(run[k].promo)' = SentBy(p) \cup page /\ Due(k)' = {}
  <2>1. SentBy(run[k].promo)' = SentBy(p)'
    BY <1>9
  <2>2. Due(k)' = {}
    BY <1>9 DEF Due
  <2> QED BY <1>15, <2>1, <2>2
<1>17. PageByPage(k)'
  <2>1. /\ \A i \in SentBy(p) : i <= run[k].after
        /\ \A i \in page : i <= run[k].after
        /\ \A i \in audience[p] : i <= run[k].after => i \in SentBy(p) \cup page
        /\ ~run[k].full => \A i \in audience[p] : i <= run[k].after
    BY <1>3, <1>4, <1>5, <1>12 DEF PageByPage
  <2>2. audience'[run'[k].promo] = audience[p]
    BY <1>2, <1>9
  <2> QED BY <1>9, <1>16, <2>1, <2>2 DEF PageByPage
<1>18. Counts(k)'
  <2>1. run[k].sent + run[k].failed = Cardinality(SentBy(p))
    BY <1>3, <1>4 DEF Counts
  <2>2. Cardinality(SentBy(p) \cup page) = Cardinality(SentBy(p)) + Cardinality(page \ failed) + Cardinality(failed)
    BY <1>13, PageAddsUp
  <2>3. run'[k].sent + run'[k].failed = Cardinality(SentBy(p) \cup page)
    BY <1>8, <1>9, <2>1, <2>2
  <2> QED BY <1>9, <1>16, <2>3 DEF Counts
<1>19. RunOK(k)'
  BY <1>2, <1>4, <1>9, <1>17, <1>18 DEF RunOK
<1>20. PromotionOK(p)'
  BY <1>2, <1>4, <1>14 DEF PromotionOK
<1>21. \A l \in Runs : l # k => run'[l] = run[l]
  BY <1>1, <1>6
<1> QED BY <1>2, <1>4, <1>9, <1>10, <1>19, <1>20, <1>21, OneRunSteps

(* Who is gone is forgotten.                                               *)
LEMMA ForgetsOK ==
    ASSUME PushTyped, PromotionInv, AudienceIsAllowed', \A p \in Promotions : audience'[p] \subseteq audience[p],
           NEW k \in Runs, ForgetGone(k)
    PROVE  PromotionInv'
<1>1. /\ SendingTyped /\ run \in [Runs -> Run \cup {Nil}] /\ promo \in [Promotions -> Promotion \cup {Nil}]
  BY DEF PushTyped, SendingTyped
<1>2. /\ run[k] # Nil /\ run[k].step = "forget" /\ UNCHANGED <<promo, pushed>> /\ Sends(k)
      /\ run' = [run EXCEPT ![k].step = "count", ![k].gone = {}]
  BY DEF ForgetGone, Running, Sends
<1>3. PICK p \in Promotions : p = run[k].promo
  BY <1>1, <1>2, Alone
<1>4. /\ run[k] \in Run /\ promo[p].status = "sending"
      /\ PageByPage(k) /\ Counts(k) /\ PromotionOK(p)
      /\ \A l \in Runs : l # k /\ Sends(l) => run[l].promo \in Promotions \ {p}
  BY <1>1, <1>2, <1>3, Alone DEF RunOK
<1>5. /\ run'[k] # Nil /\ run'[k].promo = p /\ run'[k].step = "count"
      /\ run'[k].page = run[k].page /\ run'[k].after = run[k].after /\ run'[k].full = run[k].full
      /\ run'[k].sent = run[k].sent /\ run'[k].failed = run[k].failed
  <2>1. run'[k] = [run[k] EXCEPT !.step = "count", !.gone = {}]
    BY <1>1, <1>2
  <2>2. run'[k] \in Run
    BY <1>4, <2>1 DEF Run
  <2> QED BY <1>3, <1>4, <2>1, <2>2, NotificationAssumption DEF Run
<1>6. SentBy(p)' = SentBy(p) /\ SentBy(run[k].promo)' = SentBy(p) /\ Due(k)' = {} /\ Due(k) = {}
  <2>1. SentBy(p)' = SentBy(p)
    BY <1>2 DEF SentBy
  <2>2. SentBy(run[k].promo)' = SentBy(p)'
    BY <1>5
  <2>3. Due(k)' = {} /\ Due(k) = {}
    BY <1>2, <1>5 DEF Due
  <2> QED BY <2>1, <2>2, <2>3
<1>7. PageByPage(k)'
  <2>1. /\ \A i \in SentBy(p) : i <= run[k].after
        /\ \A i \in run[k].page : i <= run[k].after
        /\ \A i \in audience[p] : i <= run[k].after => i \in SentBy(p)
        /\ ~run[k].full => \A i \in audience[p] : i <= run[k].after
    BY <1>3, <1>4, <1>6 DEF PageByPage
  <2>2. audience'[run'[k].promo] \subseteq audience[p]
    BY <1>5
  <2> QED BY <1>5, <1>6, <2>1, <2>2 DEF PageByPage
<1>8. Counts(k)'
  BY <1>3, <1>4, <1>5, <1>6 DEF Counts
<1>9. RunOK(k)'
  <2>1. promo'[run'[k].promo].status = "sending" /\ run'[k].step # "claim"
    BY <1>2, <1>4, <1>5
  <2> QED BY <1>7, <1>8, <2>1 DEF RunOK
<1>10. PromotionOK(p)'
  BY <1>2, <1>4, PromotionStays
<1>11. \A l \in Runs : l # k => run'[l] = run[l]
  BY <1>1, <1>2
<1>12. \A q \in Promotions : q # p => promo'[q] = promo[q] /\ pushed'[q] = pushed[q] /\ audience'[q] \subseteq audience[q]
  BY <1>2
<1> QED BY <1>4, <1>5, <1>9, <1>10, <1>11, <1>12, OneRunSteps

(* The counts of a page are written.                                       *)
LEMMA CountsOK ==
    ASSUME PushTyped, PromotionInv, AudienceIsAllowed', \A p \in Promotions : audience'[p] \subseteq audience[p],
           NEW k \in Runs, CountPage(k)
    PROVE  PromotionInv'
<1>1. /\ SendingTyped /\ run \in [Runs -> Run \cup {Nil}] /\ promo \in [Promotions -> Promotion \cup {Nil}]
  BY DEF PushTyped, SendingTyped
<1>2. run[k] # Nil /\ run[k].step = "count" /\ UNCHANGED pushed /\ Sends(k)
  BY DEF CountPage, Running, Sends, history
<1>3. PICK p \in Promotions : p = run[k].promo
  BY <1>1, <1>2, Alone
<1>4. /\ run[k] \in Run /\ promo[p] \in Promotion /\ promo[p].status = "sending"
      /\ PageByPage(k) /\ Counts(k) /\ PromotionOK(p)
      /\ \A l \in Runs : l # k /\ Sends(l) => run[l].promo \in Promotions \ {p}
  BY <1>1, <1>2, <1>3, Alone DEF RunOK
<1>5. /\ promo' = [promo EXCEPT ![p].sent = run[k].sent, ![p].failed = run[k].failed]
      /\ run' = [run EXCEPT ![k].step = IF run[k].full THEN "page" ELSE "finish", ![k].page = {}]
  BY <1>3 DEF CountPage
<1>6. /\ promo'[p] # Nil /\ promo'[p].status = "sending"
      /\ promo'[p].sent = run[k].sent /\ promo'[p].failed = run[k].failed
  <2>1. promo'[p] = [promo[p] EXCEPT !.sent = run[k].sent, !.failed = run[k].failed]
    BY <1>1, <1>5
  <2>2. promo'[p] \in Promotion
    BY <1>4, <2>1 DEF Promotion, Run
  <2> QED BY <1>4, <2>1, <2>2, NotificationAssumption DEF Promotion
<1>7. /\ run'[k] # Nil /\ run'[k].promo = p /\ run'[k].step = (IF run[k].full THEN "page" ELSE "finish")
      /\ run'[k].page = {} /\ run'[k].after = run[k].after /\ run'[k].full = run[k].full
      /\ run'[k].sent = run[k].sent /\ run'[k].failed = run[k].failed
  <2>1. PICK step \in {"page", "finish"} : step = IF run[k].full THEN "page" ELSE "finish"
    OBVIOUS
  <2>2. run'[k] = [run[k] EXCEPT !.step = step, !.page = {}]
    BY <1>1, <1>5, <2>1
  <2>3. run'[k] \in Run
    BY <1>4, <2>2 DEF Run
  <2>4. /\ run'[k].promo = run[k].promo /\ run'[k].step = step
        /\ run'[k].page = {} /\ run'[k].after = run[k].after /\ run'[k].full = run[k].full
        /\ run'[k].sent = run[k].sent /\ run'[k].failed = run[k].failed
    BY <1>4, <2>2 DEF Run
  <2> QED BY <1>3, <2>1, <2>3, <2>4, NotificationAssumption
<1>8. SentBy(p)' = SentBy(p) /\ SentBy(run[k].promo)' = SentBy(p) /\ Due(k)' = {} /\ Due(k) = {}
  <2>1. SentBy(p)' = SentBy(p)
    BY <1>2 DEF SentBy
  <2>2. SentBy(run[k].promo)' = SentBy(p)'
    BY <1>7
  <2>3. Due(k)' = {}
    BY <1>7 DEF Due
  <2>4. Due(k) = {}
    BY <1>2 DEF Due
  <2> QED BY <2>1, <2>2, <2>3, <2>4
<1>9. PageByPage(k)'
  <2>1. /\ \A i \in SentBy(p) : i <= run[k].after
        /\ \A i \in audience[p] : i <= run[k].after => i \in SentBy(p)
        /\ ~run[k].full => \A i \in audience[p] : i <= run[k].after
    BY <1>3, <1>4, <1>8 DEF PageByPage
  <2>2. audience'[run'[k].promo] \subseteq audience[p]
    BY <1>7
  <2>3. run'[k].step = "finish" => ~run'[k].full
    BY <1>7
  <2> QED BY <1>7, <1>8, <2>1, <2>2, <2>3 DEF PageByPage
<1>10. Counts(k)'
  <2>1. run[k].sent + run[k].failed = Cardinality(SentBy(p))
    BY <1>3, <1>4 DEF Counts
  <2>2. promo'[run'[k].promo].sent = run'[k].sent /\ promo'[run'[k].promo].failed = run'[k].failed
    BY <1>6, <1>7
  <2> QED BY <1>7, <1>8, <2>1, <2>2 DEF Counts
<1>11. RunOK(k)'
  <2>1. promo'[run'[k].promo].status = "sending" /\ run'[k].step # "claim"
    BY <1>6, <1>7
  <2> QED BY <1>9, <1>10, <2>1 DEF RunOK
<1>12. PromotionOK(p)'
  BY <1>2, <1>4, <1>6 DEF PromotionOK
<1>13. \A l \in Runs : l # k => run'[l] = run[l]
  BY <1>1, <1>5
<1>14. \A q \in Promotions : q # p => promo'[q] = promo[q] /\ pushed'[q] = pushed[q] /\ audience'[q] \subseteq audience[q]
  BY <1>1, <1>2, <1>5
<1> QED BY <1>4, <1>7, <1>11, <1>12, <1>13, <1>14, OneRunSteps

(* A run that ends, with what it says of its promotion.                    *)
LEMMA EndsOK ==
    ASSUME PushTyped, PromotionInv, AudienceIsAllowed', NEW k \in Runs, Sends(k), UNCHANGED <<pushed, audience>>,
           run' = [run EXCEPT ![k] = Ended(k)], NEW status \in {"sent", "failed"},
           promo' = [promo EXCEPT ![run[k].promo].status = status], status = "sent" => run[k].step = "finish"
    PROVE  PromotionInv'
<1>1. /\ SendingTyped /\ run \in [Runs -> Run \cup {Nil}] /\ promo \in [Promotions -> Promotion \cup {Nil}]
      /\ audience \in [Promotions -> SUBSET Allowed]
  BY DEF PushTyped, SendingTyped, PromotionInv, AudienceIsAllowed
<1>2. run[k] # Nil
  BY DEF Sends
<1>3. PICK p \in Promotions : p = run[k].promo
  BY <1>1, Alone
<1>4. /\ promo[p] \in Promotion /\ PageByPage(k) /\ Counts(k) /\ PromotionOK(p)
      /\ \A l \in Runs : l # k /\ Sends(l) => run[l].promo \in Promotions \ {p}
  BY <1>1, <1>3, Alone DEF RunOK
<1>5. promo'[p] # Nil /\ promo'[p].status = status /\ promo'[p].sent = promo[p].sent /\ promo'[p].failed = promo[p].failed
  <2>1. promo'[p] = [promo[p] EXCEPT !.status = status]
    BY <1>1, <1>3
  <2>2. promo'[p] \in Promotion
    BY <1>4, <2>1 DEF Promotion
  <2> QED BY <1>4, <2>1, <2>2, NotificationAssumption DEF Promotion
<1>6. SentBy(p)' = SentBy(p)
  BY DEF SentBy
<1>7. ASSUME status = "sent"
      PROVE  audience[p] \subseteq SentBy(p) /\ promo[p].sent + promo[p].failed = Cardinality(SentBy(p))
  <2>1. Due(k) = {} /\ run[k].step = "finish"
    BY <1>7 DEF Due
  <2>2. audience[p] \subseteq SentBy(p)
    BY <1>3, <1>4, <2>1 DEF PageByPage
  <2>3. promo[p].sent + promo[p].failed = Cardinality(SentBy(p))
    BY <1>3, <1>4, <2>1 DEF Counts
  <2> QED BY <2>2, <2>3
<1>8. PromotionOK(p)'
  BY <1>4, <1>5, <1>6, <1>7 DEF PromotionOK
<1>9. RunOK(k)' /\ ~Sends(k)'
  BY <1>1, <1>2, OverIsOK
<1>10. \A l \in Runs : l # k => run'[l] = run[l]
  BY <1>1
<1>11. \A q \in Promotions : q # p => promo'[q] = promo[q] /\ pushed'[q] = pushed[q] /\ audience'[q] \subseteq audience[q]
  BY <1>1, <1>3
<1> QED BY <1>4, <1>8, <1>9, <1>10, <1>11, OneRunSteps

(* After the last page everyone was sent it.                               *)
LEMMA FinishesOK ==
    ASSUME PushTyped, PromotionInv, AudienceIsAllowed', NEW k \in Runs, Finish(k)
    PROVE  PromotionInv'
<1>1. /\ Sends(k) /\ run[k].step = "finish" /\ UNCHANGED <<pushed, audience>>
      /\ run' = [run EXCEPT ![k] = Ended(k)] /\ promo' = [promo EXCEPT ![run[k].promo].status = "sent"]
  BY DEF Finish, Running, Sends, history
<1> QED BY <1>1, EndsOK

(* A run that fails says so, or nothing.                                   *)
LEMMA FailsOK ==
    ASSUME PushTyped, PromotionInv, AudienceIsAllowed', NEW k \in Runs, Fail(k)
    PROVE  PromotionInv'
<1>1. /\ run[k] # Nil /\ run' = [run EXCEPT ![k] = Ended(k)] /\ UNCHANGED <<pushed, audience>>
      /\ run \in [Runs -> Run \cup {Nil}]
  BY DEF Fail, history, PushTyped, SendingTyped
<1>2. CASE UNCHANGED promo
  <2>1. \A l \in Runs : run'[l] = run[l] \/ (run[l] # Nil /\ run'[l] = Ended(l))
    BY <1>1
  <2> QED BY <1>1, <1>2, <2>1, SomeRunEnds
<1>3. CASE run[k].step # "claim" /\ promo' = [promo EXCEPT ![run[k].promo].status = "failed"]
  <2>1. Sends(k)
    BY <1>1, <1>3 DEF Fail, Sends
  <2> QED BY <1>1, <1>3, <2>1, EndsOK
<1> QED BY <1>2, <1>3 DEF Fail

(* What is known of promotions is inductive.                               *)
LEMMA NextPromotionInv ==
    ASSUME PushTyped, PromotionInv, [PushNext]_pushVars
    PROVE  PromotionInv'
<1>1. AudienceIsAllowed' /\ ((\E k \in Runs : ClaimPromotion(k)) \/ \A p \in Promotions : audience'[p] \subseteq audience[p])
  BY NextAudience DEF PromotionInv
<1>2. CASE \E k \in Runs : ClaimPromotion(k)
  BY <1>1, <1>2, ClaimsOK
<1>3. CASE \A p \in Promotions : audience'[p] \subseteq audience[p]
  <2>1. CASE UNCHANGED <<promo, run, pushed>>
    <3>1. ASSUME NEW k \in Runs PROVE RunOK(k)' /\ (Sends(k)' <=> Sends(k))
      <4>1. RunOK(k) /\ (Sends(k) => run[k].promo \in Promotions)
        BY RunIsRun DEF PromotionInv, PushTyped, Sends
      <4> QED BY <1>3, <2>1, <4>1, RunStays
    <3>2. ASSUME NEW p \in Promotions PROVE PromotionOK(p)'
      <4>1. PromotionOK(p)
        BY DEF PromotionInv
      <4> QED BY <1>3, <2>1, <4>1, PromotionStays
    <3> QED BY <1>1, <2>1, <3>1, <3>2 DEF PromotionInv
  <2>2. ASSUME NEW k \in Runs, NEW i \in Instances, NEW p \in Promotions, ResumeQueued(k, i, p) \/ Create(k, i, p)
        PROVE  PromotionInv'
    BY <1>1, <2>2, BeginsOK
  <2>3. ASSUME NEW k \in Runs,
               ReadPage(k) \/ Deliver(k) \/ ForgetGone(k) \/ CountPage(k) \/ Finish(k) \/ Fail(k)
        PROVE  PromotionInv'
    BY <1>1, <1>3, <2>3, ReadsOK, DeliversOK, ForgetsOK, CountsOK, FinishesOK, FailsOK
  <2>4. ASSUME NEW i \in Instances, Crash(i) PROVE PromotionInv'
    <3>1. UNCHANGED <<promo, pushed, audience>>
      BY <2>4 DEF Crash, history
    <3>2. \A k \in Runs : run'[k] = run[k] \/ (run[k] # Nil /\ run'[k] = Ended(k))
      BY <2>4 DEF Crash
    <3> QED BY <1>1, <3>1, <3>2, SomeRunEnds
  <2> QED BY <1>2, <2>1, <2>2, <2>3, <2>4, SendingMoves DEF Promote
<1> QED BY <1>1, <1>2, <1>3

(* "two instances (or a repeated start) never send it twice", and "a page  *)
(* is never skipped or read twice while devices come and go": a promotion  *)
(* reaches each device it is for once, and its counts say so.              *)
THEOREM PromotionsReachAll == PushSpec => []PromotionReachesAll
<1>1. PushInit => PushTyped /\ PromotionInv
  BY InitPushTyped, InitPromotionInv
<1>2. PushTyped /\ PromotionInv /\ [PushNext]_pushVars => (PushTyped /\ PromotionInv)'
  BY NextPushTyped, NextPromotionInv
<1>3. PushTyped /\ PromotionInv => PromotionReachesAll
  BY PromotionInvReaches
<1> QED BY <1>1, <1>2, <1>3, PTL DEF PushSpec

-----------------------------------------------------------------------------
(* Requests: each is about its own.                                        *)

(* A step of requests for "ops", and of no others.                         *)
OnlyAbout(ops) ==
    \A r \in Requests : req'[r] = req[r] \/ /\ req[r] = Nil \/ req[r].op \in ops
                                            /\ req'[r] # Nil /\ req'[r].op \in ops

(* It gives rows to forget to none.                                        *)
IdsKept ==
    \A r \in Requests : req'[r] # Nil => req'[r].ids = {} \/ (req[r] # Nil /\ req'[r].ids = req[r].ids)

(* Requests for other things are as before.                                *)
LEMMA OthersAsBefore ==
    ASSUME NEW ops, OnlyAbout(ops), NEW op, op \notin ops
    PROVE  Of(op)' = Of(op) /\ \A r \in Of(op) : req'[r] = req[r]
<1>1. ASSUME NEW r \in Requests
      PROVE  /\ req'[r] # Nil /\ req'[r].op = op <=> req[r] # Nil /\ req[r].op = op
             /\ req[r] # Nil /\ req[r].op = op => req'[r] = req[r]
  BY DEF OnlyAbout
<1>2. Of(op)' = {r \in {x \in Requests : req'[x] # Nil} : req'[r].op = op}
  BY DEF Of
<1> QED BY <1>1, <1>2 DEF Of

(* What is asked anew, and what goes on.                                   *)
LEMMA AskedAnew ==
    ASSUME RequestsTyped, NEW r \in Requests, NEW q \in Request, req' = [req EXCEPT ![r] = q],
           req[r] = Nil \/ req[r].op = q.op
    PROVE  /\ OnlyAbout({q.op}) /\ req'[r] = q
           /\ q.ids = {} \/ (req[r] # Nil /\ q.ids = req[r].ids) => IdsKept
<1>1. req'[r] = q /\ q # Nil /\ \A x \in Requests : x # r => req'[x] = req[x]
  BY NotificationAssumption DEF RequestsTyped
<1> QED BY <1>1 DEF OnlyAbout, IdsKept

(* A request that is answered forgets nothing any more.                    *)
LEMMA AnsweredNow ==
    ASSUME RequestsTyped, NEW r \in Requests, req[r] # Nil, req' = [req EXCEPT ![r] = Answered(r)]
    PROVE  OnlyAbout({req[r].op}) /\ IdsKept /\ req'[r] = Answered(r)
  BY AskedAnew, AnsweredIsRequest

(* A device is about to be registered.                                     *)
LEMMA RegisterAsks ==
    ASSUME RequestsTyped, NEW r \in Requests, NEW u \in Users, NEW s \in Sessions \cup {Nil}, NEW t \in Tokens,
           Register(r, u, s, t)
    PROVE  OnlyAbout({"register"}) /\ IdsKept
<1>1. PICK q : q = Asked("register", "upsert", u, s, t)
  OBVIOUS
<1>2. q \in Request /\ q.op = "register" /\ q.ids = {}
  BY <1>1, AskedIsRequest DEF StepsOf
<1> QED BY <1>1, <1>2, AskedAnew DEF Register

(* It was, and those beyond the limit are to be found.                     *)
LEMMA UpsertAsks ==
    ASSUME RequestsTyped, NEW r \in Requests, Upsert(r)
    PROVE  OnlyAbout({"register"}) /\ IdsKept
<1>1. req[r] \in Request /\ req[r] # Nil /\ req[r].step = "upsert" /\ req[r].step \in StepsOf(req[r].op)
  BY DEF RequestsTyped, Upsert, Reached
<1>2. req[r].op = "register"
  BY <1>1 DEF StepsOf, Request
<1>3. PICK q : q = [req[r] EXCEPT !.step = "find"]
  OBVIOUS
<1>4. q \in Request /\ q.op = "register" /\ q.ids = req[r].ids
  BY <1>1, <1>2, <1>3 DEF Request
<1>5. req' = [req EXCEPT ![r] = q]
  BY <1>3 DEF Upsert
<1> QED BY <1>1, <1>2, <1>4, <1>5, AskedAnew

(* Those it found are to be forgotten.                                     *)
LEMMA FindAsks ==
    ASSUME PushTyped, NEW r \in Requests, FindOldestBeyondLimit(r)
    PROVE  /\ OnlyAbout({"register"})
           /\ \A q \in Requests : q # r => req'[q] = req[q]
           /\ req'[r] # Nil
           /\ req'[r].ids \subseteq {device[t].id : t \in BeyondLimit(RowsOf(req[r].user))}
<1>0. RequestsTyped /\ DevicesTyped
  BY DEF PushTyped
<1>1. req[r] \in Request /\ req[r] # Nil /\ req[r].step = "find" /\ req[r].step \in StepsOf(req[r].op)
  BY <1>0 DEF RequestsTyped, FindOldestBeyondLimit, Reached
<1>2. req[r].op = "register"
  BY <1>1 DEF StepsOf, Request
<1>3. PICK ids : ids = {device[t].id : t \in BeyondLimit(RowsOf(req[r].user))}
  OBVIOUS
<1>4. ids \in SUBSET Ids
  <2>1. BeyondLimit(RowsOf(req[r].user)) \subseteq There
    BY DEF BeyondLimit, RowsOf
  <2>2. \A t \in There : device[t].id \in Ids
    BY <1>0 DEF There, DevicesTyped, Table, Row
  <2> QED BY <1>3, <2>1, <2>2
<1>5. PICK q : q = [req[r] EXCEPT !.step = "forget", !.ids = ids]
  OBVIOUS
<1>6. q \in Request /\ q.op = "register" /\ q.ids = ids
  BY <1>1, <1>2, <1>4, <1>5 DEF Request
<1>7. req' = [req EXCEPT ![r] = Answered(r)] \/ req' = [req EXCEPT ![r] = q]
  BY <1>3, <1>5 DEF FindOldestBeyondLimit
<1>8. Answered(r) \in Request /\ Answered(r).op = "register" /\ Answered(r).ids = {}
  BY <1>0, <1>1, <1>2, AnsweredIsRequest
<1>9. \A x \in Requests : x # r => req'[x] = req[x]
  BY <1>0, <1>7 DEF RequestsTyped
<1>10. PICK a \in {q, Answered(r)} : req' = [req EXCEPT ![r] = a]
  BY <1>7
<1>11. a \in Request /\ a.op = "register" /\ a.ids \subseteq ids
  BY <1>6, <1>8
<1>12. OnlyAbout({"register"}) /\ req'[r] = a
  BY <1>0, <1>2, <1>10, <1>11, AskedAnew
<1> QED BY <1>3, <1>9, <1>11, <1>12, NotificationAssumption

(* They are forgotten.                                                     *)
LEMMA ForgetAsks ==
    ASSUME RequestsTyped, NEW r \in Requests, Forget(r)
    PROVE  OnlyAbout({"register"}) /\ IdsKept
<1>1. req[r] \in Request /\ req[r] # Nil /\ req[r].step = "forget" /\ req[r].step \in StepsOf(req[r].op)
  BY DEF RequestsTyped, Forget, Reached
<1>2. req[r].op = "register"
  BY <1>1 DEF StepsOf, Request
<1> QED BY <1>1, <1>2, AnsweredNow DEF Forget

(* A sign-in is about to be told to the other devices.                     *)
LEMMA SignInAsks ==
    ASSUME RequestsTyped, NEW r \in Requests, NEW s \in Sessions, NotifySignIn(r, s)
    PROVE  /\ OnlyAbout({"signIn"}) /\ IdsKept
           /\ req'[r] # Nil /\ req'[r].op = "signIn" /\ req'[r].step = "warn"
           /\ req'[r].to = TargetsOf(AccountOf[s], s)
           /\ \A q \in Requests : q # r => req'[q] = req[q]
<1> USE NotificationAssumption
<1>1. PICK a : a = Asked("signIn", "warn", AccountOf[s], s, Nil)
  OBVIOUS
<1>2. a \in Request /\ a.op = "signIn" /\ a.ids = {} /\ a.step = "warn"
  BY <1>1, AskedIsRequest DEF StepsOf
<1>3. PICK to \in SUBSET Tokens : to = TargetsOf(AccountOf[s], s)
  BY DEF TargetsOf, RowsOf, There
<1>4. PICK q : q = [a EXCEPT !.to = to]
  OBVIOUS
<1>5. q \in Request /\ q.op = "signIn" /\ q.ids = {} /\ q.step = "warn" /\ q.to = to
  BY <1>2, <1>3, <1>4 DEF Request
<1>6. req[r] = Nil /\ req' = [req EXCEPT ![r] = q]
  BY <1>1, <1>3, <1>4 DEF NotifySignIn
<1>7. OnlyAbout({"signIn"}) /\ IdsKept /\ req'[r] = q
  BY <1>5, <1>6, AskedAnew
<1> QED BY <1>3, <1>5, <1>6, <1>7 DEF RequestsTyped

(* It was told.                                                            *)
LEMMA WarnAsks ==
    ASSUME RequestsTyped, NEW r \in Requests, WarnTargets(r)
    PROVE  /\ OnlyAbout({"signIn"}) /\ IdsKept /\ req[r] # Nil /\ req[r].op = "signIn" /\ req[r].step = "warn"
           /\ req'[r] # Nil /\ req'[r].step = "done" /\ req'[r].op = "signIn"
           /\ \A q \in Requests : q # r => req'[q] = req[q]
<1>1. req[r] \in Request /\ req[r] # Nil /\ req[r].step = "warn" /\ req[r].step \in StepsOf(req[r].op)
  BY DEF RequestsTyped, WarnTargets, Reached
<1>2. req[r].op = "signIn"
  BY <1>1 DEF StepsOf, Request
<1>3. req' = [req EXCEPT ![r] = Answered(r)]
  BY DEF WarnTargets
<1>4. OnlyAbout({"signIn"}) /\ IdsKept /\ req'[r] = Answered(r)
  BY <1>1, <1>2, <1>3, AnsweredNow
<1>5. Answered(r) \in Request /\ Answered(r).step = "done" /\ Answered(r).op = "signIn"
  BY <1>1, <1>2, AnsweredIsRequest
<1> QED BY <1>1, <1>2, <1>3, <1>4, <1>5, NotificationAssumption DEF RequestsTyped

(* A push of the call is asked for.                                        *)
LEMMA CallAsks ==
    ASSUME RequestsTyped, NEW r \in Requests, NEW u \in Users, NEW op \in {"ring", "stop"},
           req[r] = Nil, req' = [req EXCEPT ![r] = Asked(op, "targets", u, Nil, Nil)]
    PROVE  /\ OnlyAbout({op}) /\ IdsKept /\ req'[r] # Nil /\ req'[r].op = op /\ req'[r].step = "targets"
           /\ \A q \in Requests : q # r => req'[q] = req[q]
<1>1. "targets" \in StepsOf(op)
  BY DEF StepsOf
<1>2. PICK q : q = Asked(op, "targets", u, Nil, Nil)
  OBVIOUS
<1>3. q \in Request /\ q.op = op /\ q.ids = {} /\ q.step = "targets"
  <2>1. op \in {"register", "signIn", "ring", "stop"}
    OBVIOUS
  <2>2. /\ Asked(op, "targets", u, Nil, Nil) \in Request /\ Asked(op, "targets", u, Nil, Nil).op = op
        /\ Asked(op, "targets", u, Nil, Nil).ids = {} /\ Asked(op, "targets", u, Nil, Nil).step = "targets"
    BY DEF Asked, Request
  <2> QED BY <1>2, <2>2
<1>4. OnlyAbout({op}) /\ IdsKept /\ req'[r] = q
  BY <1>2, <1>3, AskedAnew
<1> QED BY <1>3, <1>4, NotificationAssumption DEF RequestsTyped

(* Whom a push of the call reaches was read.                               *)
LEMMA TargetsAsk ==
    ASSUME RequestsTyped, NEW r \in Requests, ReadTargets(r)
    PROVE  /\ OnlyAbout({req[r].op}) /\ req[r].op \in {"ring", "stop"} /\ IdsKept
           /\ req[r] # Nil /\ req[r].step = "targets"
           /\ req'[r] # Nil /\ req'[r].op = req[r].op /\ req'[r].step = "deliver"
           /\ \A q \in Requests : q # r => req'[q] = req[q]
<1>1. req[r] \in Request /\ req[r] # Nil /\ req[r].step = "targets" /\ req[r].step \in StepsOf(req[r].op)
  BY DEF RequestsTyped, ReadTargets, Reached
<1>2. req[r].op \in {"ring", "stop"}
  BY <1>1 DEF StepsOf, Request
<1>3. PICK to \in SUBSET Tokens : to = TargetsOf(req[r].user, Nil)
  BY DEF TargetsOf, RowsOf, There
<1>4. PICK q : q = [req[r] EXCEPT !.step = "deliver", !.to = to]
  OBVIOUS
<1>5. q \in Request /\ q.op = req[r].op /\ q.ids = req[r].ids /\ q.step = "deliver"
  BY <1>1, <1>3, <1>4 DEF Request
<1>6. req' = [req EXCEPT ![r] = q]
  BY <1>3, <1>4 DEF ReadTargets
<1>7. OnlyAbout({req[r].op}) /\ IdsKept /\ req'[r] = q
  BY <1>1, <1>5, <1>6, AskedAnew
<1> QED BY <1>1, <1>2, <1>5, <1>6, <1>7, NotificationAssumption DEF RequestsTyped

(* It was sent.                                                            *)
LEMMA DeliverAsks ==
    ASSUME RequestsTyped, NEW r \in Requests, DeliverCall(r)
    PROVE  /\ OnlyAbout({req[r].op}) /\ req[r].op \in {"ring", "stop"} /\ IdsKept
           /\ req[r] # Nil /\ req[r].step = "deliver"
           /\ req'[r] # Nil /\ req'[r].op = req[r].op /\ req'[r].step = "done"
           /\ \A q \in Requests : q # r => req'[q] = req[q]
<1>1. req[r] \in Request /\ req[r] # Nil /\ req[r].step = "deliver" /\ req[r].step \in StepsOf(req[r].op)
  BY DEF RequestsTyped, DeliverCall, Reached
<1>2. req[r].op \in {"ring", "stop"}
  BY <1>1 DEF StepsOf, Request
<1>3. req' = [req EXCEPT ![r] = Answered(r)]
  BY DEF DeliverCall
<1>4. OnlyAbout({req[r].op}) /\ IdsKept /\ req'[r] = Answered(r)
  BY <1>1, <1>3, AnsweredNow
<1>5. Answered(r) \in Request /\ Answered(r).step = "done" /\ Answered(r).op = req[r].op
  BY <1>1, AnsweredIsRequest
<1> QED BY <1>1, <1>2, <1>3, <1>4, <1>5, NotificationAssumption DEF RequestsTyped

(* Only a registration that looks past the limit has rows to forget.       *)
LEMMA IdsMove ==
    ASSUME PushTyped, [PushNext]_pushVars
    PROVE  IdsKept \/ \E r \in Requests : FindOldestBeyondLimit(r)
<1>1. RequestsTyped
  BY DEF PushTyped
<1>2. CASE UNCHANGED req
  BY <1>2 DEF IdsKept
<1>3. ASSUME NEW r \in Requests, NEW u \in Users, CallRinging(r, u) \/ CallEnded(r, u) PROVE IdsKept
  <2>1. req[r] = Nil /\ \E op \in {"ring", "stop"} : req' = [req EXCEPT ![r] = Asked(op, "targets", u, Nil, Nil)]
    BY <1>3 DEF CallRinging, CallEnded
  <2> QED BY <1>1, <2>1, CallAsks
<1> QED BY <1>1, <1>2, <1>3, RequestMoves, RegisterAsks, UpsertAsks, ForgetAsks, SignInAsks, WarnAsks, TargetsAsk, DeliverAsks

-----------------------------------------------------------------------------
(* What was registered last is kept.                                       *)

LastOf(u) == device[latest[u]]

(* What an account registered last is its newest device, and no request is *)
(* about to forget it.                                                     *)
LatestIsKept ==
    /\ latest \in [Users -> Tokens \cup {Nil}]
    /\ \A u \in Users : latest[u] # Nil /\ latest[u] \notin touched =>
          /\ latest[u] \in RowsOf(u)
          /\ RowsOf(u) \cap newer[latest[u]] = {}
          /\ \A r \in Requests : req[r] # Nil => LastOf(u).id \notin req[r].ids

(* What is kept reaches its account.                                       *)
LEMMA LatestIsReachable == LatestIsKept => NewestIsReachable
  BY DEF LatestIsKept, NewestIsReachable, RowsOf, There

(* It changes when one registers, or what is removed was it.               *)
LEMMA LatestMoves ==
    ASSUME [PushNext]_pushVars
    PROVE  \/ UNCHANGED <<device, newer, latest, touched>>
           \/ \E r \in Requests : Upsert(r)
           \/ \E r \in Requests : Forget(r)
           \/ (\E gone : Delete(gone) /\ NotLatest(gone)) /\ UNCHANGED <<req, touched>>
<1>1. CASE UNCHANGED pushVars
  BY <1>1 DEF pushVars, table, history
<1>2. CASE Devices
  <2>1. ASSUME NEW r \in Requests, NEW u \in Users, NEW s \in Sessions \cup {Nil}, NEW t \in Tokens,
               Register(r, u, s, t)
        PROVE  UNCHANGED <<device, newer, latest, touched>>
    BY <2>1 DEF Register, table, history
  <2>2. ASSUME NEW r \in Requests, FindOldestBeyondLimit(r)
        PROVE  UNCHANGED <<device, newer, latest, touched>>
    BY <2>2 DEF FindOldestBeyondLimit, table, history
  <2>3. ASSUME NEW u \in Users, Switch(u) PROVE UNCHANGED <<device, newer, latest, touched>>
    BY <2>3 DEF Switch, table
  <2>4. ASSUME NEW u \in Users, NEW t \in Tokens, Unregister(u, t)
        PROVE  (\E gone : Delete(gone) /\ NotLatest(gone)) /\ UNCHANGED <<req, touched>>
    BY <2>4 DEF Unregister
  <2>5. ASSUME NEW s \in Sessions, SignOut(s) PROVE UNCHANGED <<device, newer, latest, touched>>
    BY <2>5 DEF SignOut, table, history
  <2>6. ASSUME NEW s \in Sessions, ForgetSession(s)
        PROVE  \/ UNCHANGED <<device, newer, latest, touched>>
               \/ (\E gone : Delete(gone) /\ NotLatest(gone)) /\ UNCHANGED <<req, touched>>
    BY <2>6 DEF ForgetSession
  <2> QED BY <1>2, <2>1, <2>2, <2>3, <2>4, <2>5, <2>6 DEF Devices
<1>3. CASE Promote
  <2>1. ASSUME NEW k \in Runs, ForgetGone(k)
        PROVE  (\E gone : Delete(gone) /\ NotLatest(gone)) /\ UNCHANGED <<req, touched>>
    BY <2>1 DEF ForgetGone
  <2>2. ASSUME NEW k \in Runs, NEW i \in Instances, NEW p \in Promotions, ResumeQueued(k, i, p) \/ Create(k, i, p)
        PROVE  UNCHANGED <<device, newer, latest, touched>>
    BY <2>2 DEF ResumeQueued, Create, table, history
  <2>3. ASSUME NEW k \in Runs,
               ClaimPromotion(k) \/ ReadPage(k) \/ Deliver(k) \/ CountPage(k) \/ Finish(k) \/ Fail(k)
        PROVE  UNCHANGED <<device, newer, latest, touched>>
    BY <2>3 DEF ClaimPromotion, ReadPage, Deliver, CountPage, Finish, Fail, table, history
  <2>4. ASSUME NEW i \in Instances, Crash(i) PROVE UNCHANGED <<device, newer, latest, touched>>
    BY <2>4 DEF Crash, table, history
  <2> QED BY <1>3, <2>1, <2>2, <2>3, <2>4 DEF Promote
<1>4. CASE Notices
  <2>1. ASSUME NEW r \in Requests, NEW s \in Sessions, NotifySignIn(r, s)
        PROVE  UNCHANGED <<device, newer, latest, touched>>
    BY <2>1 DEF NotifySignIn, table
  <2>2. ASSUME NEW r \in Requests, NEW u \in Users, CallRinging(r, u) \/ CallEnded(r, u)
        PROVE  UNCHANGED <<device, newer, latest, touched>>
    BY <2>2 DEF CallRinging, CallEnded, table, history
  <2>3. ASSUME NEW r \in Requests, WarnTargets(r) \/ ReadTargets(r) \/ DeliverCall(r)
        PROVE  UNCHANGED <<device, newer, latest, touched>>
    BY <2>3 DEF WarnTargets, ReadTargets, DeliverCall, table, history
  <2>4. ASSUME NEW t \in Tokens, RingingTimesOut(t)
        PROVE  UNCHANGED <<device, newer, latest, touched>>
    BY <2>4 DEF RingingTimesOut, table, history
  <2> QED BY <1>4, <2>1, <2>2, <2>3, <2>4 DEF Notices
<1> QED BY <1>1, <1>2, <1>3, <1>4 DEF PushNext

(* Other devices are removed.                                              *)
LEMMA LatestSurvives ==
    ASSUME PushTyped, LatestIsKept, IdsKept, NEW gone, Delete(gone), UNCHANGED touched,
           latest' \in [Users -> Tokens \cup {Nil}],
           \A u \in Users : latest'[u] # Nil => latest'[u] = latest[u] /\ (latest[u] \notin touched => latest[u] \notin gone)
    PROVE  LatestIsKept'
<1>1. ASSUME NEW u \in Users, latest'[u] # Nil, latest'[u] \notin touched'
      PROVE  /\ latest'[u] \in RowsOf(u)'
             /\ RowsOf(u)' \cap newer'[latest'[u]] = {}
             /\ \A r \in Requests : req'[r] # Nil => LastOf(u)'.id \notin req'[r].ids
  <2>1. PICK t : t = latest[u]
    OBVIOUS
  <2>2. /\ latest'[u] = t /\ t \in Tokens /\ t \notin gone
        /\ t \in RowsOf(u) /\ RowsOf(u) \cap newer[t] = {}
        /\ \A r \in Requests : req[r] # Nil => device[t].id \notin req[r].ids
    BY <1>1, <2>1 DEF LatestIsKept, LastOf
  <2>3. device'[t] = device[t] /\ newer'[t] \subseteq newer[t]
    BY <2>2 DEF Delete
  <2>4. RowsOf(u)' = RowsOf(u) \ gone
    <3>1. There' = There \ gone
      BY DEF Delete, There
    <3>2. \A x \in There \ gone : device'[x] = device[x]
      BY DEF Delete, There
    <3> QED BY <3>1, <3>2 DEF RowsOf
  <2>5. LastOf(u)' = device[t]
    BY <2>2, <2>3 DEF LastOf
  <2>6. \A r \in Requests : req'[r] # Nil => device[t].id \notin req'[r].ids
    BY <2>2 DEF IdsKept
  <2>7. t \in RowsOf(u)' /\ RowsOf(u)' \cap newer'[t] = {}
    BY <2>2, <2>3, <2>4
  <2> QED BY <2>2, <2>5, <2>6, <2>7
<1> QED BY <1>1 DEF LatestIsKept

(* What is registered is the newest, with an id that no request forgets.   *)
LEMMA LatestUpserted ==
    ASSUME PushTyped, LatestIsKept, NEW r \in Requests, Upsert(r)
    PROVE  LatestIsKept'
<1> USE NotificationAssumption
<1>0. /\ RequestsTyped /\ DevicesTyped /\ device \in [Tokens -> Row \cup {Nil}]
      /\ latest \in [Users -> Tokens \cup {Nil}]
  BY DEF PushTyped, DevicesTyped, Table, LatestIsKept
<1>1. PICK t \in Tokens : t = req[r].token
  BY <1>0 DEF Upsert, Reached, RequestsTyped
<1>2. PICK u \in Users : u = req[r].user
  BY <1>0 DEF Upsert, Reached, RequestsTyped, Request
<1>3. PICK s \in Sessions \cup {Nil} : s = req[r].session
  BY <1>0 DEF Upsert, Reached, RequestsTyped, Request
<1>4. PICK i \in Ids : /\ IF device[t] # Nil THEN i = device[t].id ELSE i \notin spent
                       /\ device' = [device EXCEPT ![t] = [id |-> i, user |-> u, session |-> s]]
  BY <1>1, <1>2, <1>3 DEF Upsert
<1>5. /\ newer' = Place(t)
      /\ latest' = [v \in Users |-> IF v = u THEN t ELSE IF latest[v] = t THEN Nil ELSE latest[v]]
      /\ touched' = IF device[t] # Nil /\ \E q \in {x \in Requests : req[x] # Nil} : device[t].id \in req[q].ids
                     THEN touched \cup {t} ELSE touched
  BY <1>1, <1>2 DEF Upsert
<1>6. [id |-> i, user |-> u, session |-> s] \in Row /\ [id |-> i, user |-> u, session |-> s] # Nil
  <2>1. [id |-> i, user |-> u, session |-> s] \in Row
    BY DEF Row
  <2> QED BY <2>1
<1>7. device'[t].id = i /\ device'[t].user = u /\ device'[t] # Nil
  BY <1>0, <1>4, <1>6
<1>8. \A x \in Tokens : x # t => device'[x] = device[x] /\ newer'[x] \subseteq newer[x] \cup {t}
  BY <1>0, <1>4, <1>5 DEF Place
<1>9. newer'[t] = {}
  BY <1>5 DEF Place
<1>10. IdsKept
  BY <1>0, UpsertAsks
<1>11. ASSUME latest'[u] \notin touched'
       PROVE  /\ latest'[u] = t /\ t \in RowsOf(u)' /\ RowsOf(u)' \cap newer'[t] = {}
              /\ \A q \in Requests : req'[q] # Nil => LastOf(u)'.id \notin req'[q].ids
  <2>1. latest'[u] = t
    BY <1>5
  <2>2. t \in RowsOf(u)'
    BY <1>7 DEF RowsOf, There
  <2>3. LastOf(u)' = device'[t]
    BY <2>1 DEF LastOf
  <2>4. ASSUME NEW q \in Requests, req[q] # Nil PROVE i \notin req[q].ids
    <3>1. CASE device[t] = Nil
      BY <1>0, <1>4, <2>4, <3>1 DEF RequestsTyped
    <3>2. CASE device[t] # Nil
      BY <1>4, <1>5, <1>11, <2>1, <2>4, <3>2
    <3> QED BY <3>1, <3>2
  <2>5. \A q \in Requests : req'[q] # Nil => i \notin req'[q].ids
    BY <1>10, <2>4 DEF IdsKept
  <2> QED BY <1>7, <1>9, <2>1, <2>2, <2>3, <2>5
<1>12. ASSUME NEW v \in Users, v # u, latest'[v] # Nil, latest'[v] \notin touched'
       PROVE  /\ latest'[v] \in RowsOf(v)'
              /\ RowsOf(v)' \cap newer'[latest'[v]] = {}
              /\ \A q \in Requests : req'[q] # Nil => LastOf(v)'.id \notin req'[q].ids
  <2>1. PICK x : x = latest[v]
    OBVIOUS
  <2>2. latest'[v] = x /\ x # t /\ x \in Tokens /\ x \notin touched
    BY <1>0, <1>5, <1>12, <2>1
  <2>3. /\ x \in RowsOf(v) /\ RowsOf(v) \cap newer[x] = {}
        /\ \A q \in Requests : req[q] # Nil => device[x].id \notin req[q].ids
    BY <2>1, <2>2 DEF LatestIsKept, LastOf
  <2>4. device'[x] = device[x] /\ newer'[x] \subseteq newer[x] \cup {t}
    BY <1>8, <2>2
  <2>5. RowsOf(v)' \subseteq RowsOf(v) /\ t \notin RowsOf(v)' /\ x \in RowsOf(v)'
    <3>1. RowsOf(v)' = {y \in {z \in Tokens : device'[z] # Nil} : device'[y].user = v}
      BY DEF RowsOf, There
    <3> QED BY <1>7, <1>8, <1>12, <2>2, <2>3, <3>1 DEF RowsOf, There
  <2>6. LastOf(v)' = device[x]
    BY <2>2, <2>4 DEF LastOf
  <2>7. \A q \in Requests : req'[q] # Nil => device[x].id \notin req'[q].ids
    BY <1>10, <2>3 DEF IdsKept
  <2>8. RowsOf(v)' \cap newer'[x] = {}
    BY <2>3, <2>4, <2>5
  <2> QED BY <2>2, <2>5, <2>6, <2>7, <2>8
<1>13. latest' \in [Users -> Tokens \cup {Nil}]
  BY <1>0, <1>5
<1> QED BY <1>11, <1>12, <1>13 DEF LatestIsKept

(* The newest of an account is not beyond the limit.                       *)
LEMMA NewestIsWithin ==
    ASSUME NEW mine, NEW t, mine \cap newer[t] = {}
    PROVE  t \notin BeyondLimit(mine)
<1>1. Cardinality(mine \cap newer[t]) = 0
  BY FS_EmptySet
<1> QED BY <1>1, NotificationAssumption DEF BeyondLimit

(* A search past the limit does not find what was registered last.         *)
LEMMA LatestNotFound ==
    ASSUME PushTyped, LatestIsKept, NEW r \in Requests, FindOldestBeyondLimit(r)
    PROVE  LatestIsKept'
<1>1. UNCHANGED <<device, newer, latest, touched>>
  BY DEF FindOldestBeyondLimit, table, history
<1>2. /\ \A q \in Requests : q # r => req'[q] = req[q]
      /\ req'[r].ids \subseteq {device[t].id : t \in BeyondLimit(RowsOf(req[r].user))}
  BY FindAsks
<1>3. ASSUME NEW u \in Users, latest[u] # Nil, latest[u] \notin touched
      PROVE  /\ latest[u] \in RowsOf(u) /\ RowsOf(u) \cap newer[latest[u]] = {}
             /\ \A q \in Requests : req'[q] # Nil => LastOf(u).id \notin req'[q].ids
  <2>1. PICK t : t = latest[u]
    OBVIOUS
  <2>2. /\ t \in RowsOf(u) /\ RowsOf(u) \cap newer[t] = {}
        /\ \A q \in Requests : req[q] # Nil => device[t].id \notin req[q].ids
    BY <1>3, <2>1 DEF LatestIsKept, LastOf
  <2>3. t \notin BeyondLimit(RowsOf(req[r].user))
    <3>1. CASE req[r].user = u
      BY <2>2, <3>1, NewestIsWithin
    <3>2. CASE req[r].user # u
      BY <2>2, <3>2 DEF BeyondLimit, RowsOf
    <3> QED BY <3>1, <3>2
  <2>4. \A x \in There : device[x].id = device[t].id => x = t
    BY <2>2 DEF PushTyped, DevicesTyped, Table, There, RowsOf
  <2>5. device[t].id \notin req'[r].ids
    <3>1. BeyondLimit(RowsOf(req[r].user)) \subseteq There
      BY DEF BeyondLimit, RowsOf
    <3> QED BY <1>2, <2>3, <2>4, <3>1
  <2>6. \A q \in Requests : req'[q] # Nil => device[t].id \notin req'[q].ids
    BY <1>2, <2>2, <2>5
  <2> QED BY <2>1, <2>2, <2>6 DEF LastOf
<1>4. \A u \in Users : RowsOf(u)' = RowsOf(u) /\ LastOf(u)' = LastOf(u)
  BY <1>1 DEF RowsOf, There, LastOf
<1> QED BY <1>1, <1>3, <1>4 DEF LatestIsKept

(* What was registered last stays, until it is removed on purpose.         *)
LEMMA NextLatest ==
    ASSUME PushTyped, LatestIsKept, [PushNext]_pushVars
    PROVE  LatestIsKept'
<1>0. latest \in [Users -> Tokens \cup {Nil}] /\ RequestsTyped
  BY DEF LatestIsKept, PushTyped
<1>1. CASE UNCHANGED <<device, newer, latest, touched>> /\ IdsKept
  <2>1. \A u \in Users : RowsOf(u)' = RowsOf(u) /\ LastOf(u)' = LastOf(u)
    BY <1>1 DEF RowsOf, There, LastOf
  <2>2. ASSUME NEW u \in Users, latest[u] # Nil, latest[u] \notin touched
        PROVE  \A q \in Requests : req'[q] # Nil => LastOf(u).id \notin req'[q].ids
    BY <1>1, <2>2 DEF LatestIsKept, IdsKept
  <2> QED BY <1>1, <2>1, <2>2 DEF LatestIsKept
<1>2. ASSUME NEW r \in Requests, Forget(r) PROVE LatestIsKept'
  <2>1. PICK gone : gone = {t \in There : device[t].id \in req[r].ids}
    OBVIOUS
  <2>2. Delete(gone) /\ UNCHANGED <<latest, touched>> /\ req[r] # Nil
    BY <1>2, <2>1 DEF Forget, Reached
  <2>3. \A u \in Users : latest[u] # Nil /\ latest[u] \notin touched => latest[u] \notin gone
    BY <2>1, <2>2 DEF LatestIsKept, LastOf
  <2>4. IdsKept
    BY <1>0, <1>2, ForgetAsks
  <2> QED BY <1>0, <2>2, <2>3, <2>4, LatestSurvives
<1>3. ASSUME NEW gone, Delete(gone), NotLatest(gone), UNCHANGED <<req, touched>> PROVE LatestIsKept'
  <2>1. IdsKept
    BY <1>3 DEF IdsKept
  <2>2. latest' = [u \in Users |-> IF latest[u] \in gone THEN Nil ELSE latest[u]]
    BY <1>3 DEF NotLatest
  <2>3. latest' \in [Users -> Tokens \cup {Nil}]
    BY <1>0, <2>2
  <2>4. \A u \in Users : latest'[u] # Nil => latest'[u] = latest[u] /\ (latest[u] \notin touched => latest[u] \notin gone)
    BY <2>2
  <2> QED BY <1>3, <2>1, <2>3, <2>4, LatestSurvives
<1>4. ASSUME NEW r \in Requests, FindOldestBeyondLimit(r) PROVE LatestIsKept'
  BY <1>4, LatestNotFound
<1>5. ASSUME NEW r \in Requests, Upsert(r) PROVE LatestIsKept'
  BY <1>5, LatestUpserted
<1> QED BY <1>1, <1>2, <1>3, <1>4, <1>5, LatestMoves, IdsMove

-----------------------------------------------------------------------------
(* Who is warned of a new sign-in.                                         *)

(* One sign-in is told, to whom it need not be told already or was.        *)
Warning ==
    /\ \A r, q \in Of("signIn") : r = q
    /\ \A r \in Of("signIn") : IF req[r].step = "done" THEN warned = Tokens ELSE warned \cup req[r].to = Tokens

(* Once the sign-in was told, all the others know.                         *)
LEMMA WarningWarns == Warning => OthersAreWarned
  BY DEF Warning, OthersAreWarned

(* Only a sign-in changes who was told of one.                             *)
LEMMA WarnedMoves ==
    ASSUME [PushNext]_pushVars
    PROVE  UNCHANGED warned \/ \E r \in Requests : WarnTargets(r) \/ \E s \in Sessions : NotifySignIn(r, s)
<1>1. CASE UNCHANGED pushVars
  BY <1>1 DEF pushVars, history
<1>2. CASE Devices
  <2>1. ASSUME NEW r \in Requests, NEW u \in Users, NEW s \in Sessions \cup {Nil}, NEW t \in Tokens,
               Register(r, u, s, t)
        PROVE  UNCHANGED warned
    BY <2>1 DEF Register, history
  <2>2. ASSUME NEW r \in Requests, Upsert(r) \/ FindOldestBeyondLimit(r) \/ Forget(r) PROVE UNCHANGED warned
    BY <2>2 DEF Upsert, FindOldestBeyondLimit, Forget, history
  <2>3. ASSUME NEW u \in Users, Switch(u) \/ \E t \in Tokens : Unregister(u, t) PROVE UNCHANGED warned
    BY <2>3 DEF Switch, Unregister
  <2>4. ASSUME NEW s \in Sessions, SignOut(s) \/ ForgetSession(s) PROVE UNCHANGED warned
    BY <2>4 DEF SignOut, ForgetSession, history
  <2> QED BY <1>2, <2>1, <2>2, <2>3, <2>4 DEF Devices
<1>3. CASE Promote
  <2>1. ASSUME NEW k \in Runs, NEW i \in Instances, NEW p \in Promotions, ResumeQueued(k, i, p) \/ Create(k, i, p)
        PROVE  UNCHANGED warned
    BY <2>1 DEF ResumeQueued, Create, history
  <2>2. ASSUME NEW k \in Runs,
               \/ ClaimPromotion(k) \/ ReadPage(k) \/ Deliver(k) \/ ForgetGone(k) \/ CountPage(k)
               \/ Finish(k) \/ Fail(k)
        PROVE  UNCHANGED warned
    BY <2>2 DEF ClaimPromotion, ReadPage, Deliver, ForgetGone, CountPage, Finish, Fail, history
  <2>3. ASSUME NEW i \in Instances, Crash(i) PROVE UNCHANGED warned
    BY <2>3 DEF Crash, history
  <2> QED BY <1>3, <2>1, <2>2, <2>3 DEF Promote
<1>4. CASE Notices
  <2>1. ASSUME NEW r \in Requests, NEW u \in Users, CallRinging(r, u) \/ CallEnded(r, u) PROVE UNCHANGED warned
    BY <2>1 DEF CallRinging, CallEnded, history
  <2>2. ASSUME NEW r \in Requests, ReadTargets(r) \/ DeliverCall(r) PROVE UNCHANGED warned
    BY <2>2 DEF ReadTargets, DeliverCall, history
  <2>3. ASSUME NEW t \in Tokens, RingingTimesOut(t) PROVE UNCHANGED warned
    BY <2>3 DEF RingingTimesOut, history
  <2> QED BY <1>4, <2>1, <2>2, <2>3 DEF Notices
<1> QED BY <1>1, <1>2, <1>3, <1>4 DEF PushNext

(* A step about other things leaves it as it is.                           *)
LEMMA WarningStays ==
    ASSUME Warning, NEW ops, OnlyAbout(ops), "signIn" \notin ops, UNCHANGED warned
    PROVE  Warning'
<1>1. Of("signIn")' = Of("signIn") /\ \A r \in Of("signIn") : req'[r] = req[r]
  BY OthersAsBefore
<1> QED BY <1>1 DEF Warning

(* No step takes anyone out who is still to be told.                       *)
LEMMA NextWarning ==
    ASSUME PushTyped, Warning, [PushNext]_pushVars
    PROVE  Warning'
<1>0. RequestsTyped
  BY DEF PushTyped
<1>1. ASSUME NEW r \in Requests, NEW s \in Sessions, NotifySignIn(r, s) PROVE Warning'
  <2>1. /\ OnlyAbout({"signIn"})
        /\ req'[r] # Nil /\ req'[r].op = "signIn" /\ req'[r].step = "warn"
        /\ req'[r].to = TargetsOf(AccountOf[s], s)
        /\ \A q \in Requests : q # r => req'[q] = req[q]
    BY <1>0, <1>1, SignInAsks
  <2>2. Of("signIn")' = {r}
    <3>1. Of("signIn") = {}
      BY <1>1 DEF NotifySignIn
    <3>2. Of("signIn")' = {q \in {x \in Requests : req'[x] # Nil} : req'[q].op = "signIn"}
      BY DEF Of
    <3>3. \A q \in Requests : q # r => ~(req'[q] # Nil /\ req'[q].op = "signIn")
      BY <2>1, <3>1 DEF Of
    <3> QED BY <2>1, <3>2, <3>3
  <2>3. warned' \cup TargetsOf(AccountOf[s], s) = Tokens
    <3>1. warned' = {t \in Tokens : device[t] = Nil \/ device[t].user # AccountOf[s]
                                     \/ AccountOf[s] \in hidden \/ device[t].session = s}
      BY <1>1 DEF NotifySignIn
    <3>2. TargetsOf(AccountOf[s], s) \subseteq Tokens
      BY DEF TargetsOf, RowsOf, There
    <3>3. ASSUME NEW t \in Tokens, t \notin warned' PROVE t \in TargetsOf(AccountOf[s], s)
      BY <3>1, <3>3 DEF TargetsOf, RowsOf, There, Others
    <3> QED BY <3>1, <3>2, <3>3
  <2> QED BY <2>1, <2>2, <2>3 DEF Warning
<1>2. ASSUME NEW r \in Requests, WarnTargets(r) PROVE Warning'
  <2>1. /\ req[r] # Nil /\ req[r].op = "signIn" /\ req[r].step = "warn"
        /\ req'[r] # Nil /\ req'[r].op = "signIn" /\ req'[r].step = "done"
        /\ \A q \in Requests : q # r => req'[q] = req[q]
    BY <1>0, <1>2, WarnAsks
  <2>2. Of("signIn") = {r}
    BY <2>1 DEF Of, Warning
  <2>3. Of("signIn")' = {r}
    <3>1. Of("signIn")' = {q \in {x \in Requests : req'[x] # Nil} : req'[q].op = "signIn"}
      BY DEF Of
    <3>2. \A q \in Requests : q # r => ~(req'[q] # Nil /\ req'[q].op = "signIn")
      BY <2>1, <2>2 DEF Of
    <3> QED BY <2>1, <3>1, <3>2
  <2>4. warned' = Tokens
    BY <1>2, <2>1, <2>2 DEF WarnTargets, Warning
  <2> QED BY <2>1, <2>3, <2>4 DEF Warning
<1>3. CASE UNCHANGED warned
  <2>1. CASE UNCHANGED req
    BY <1>3, <2>1 DEF Warning, Of
  <2>2. ASSUME NEW r \in Requests, NEW u \in Users, NEW s \in Sessions \cup {Nil}, NEW t \in Tokens, Register(r, u, s, t)
        PROVE  Warning'
    BY <1>0, <1>3, <2>2, RegisterAsks, WarningStays
  <2>3. ASSUME NEW r \in Requests, Upsert(r) \/ FindOldestBeyondLimit(r) \/ Forget(r) PROVE Warning'
    BY <1>0, <1>3, <2>3, UpsertAsks, FindAsks, ForgetAsks, WarningStays
  <2>4. ASSUME NEW r \in Requests, NEW u \in Users, CallRinging(r, u) \/ CallEnded(r, u) PROVE Warning'
    <3>1. PICK op \in {"ring", "stop"} : req[r] = Nil /\ req' = [req EXCEPT ![r] = Asked(op, "targets", u, Nil, Nil)]
      BY <2>4 DEF CallRinging, CallEnded
    <3>2. OnlyAbout({op})
      BY <1>0, <3>1, CallAsks
    <3> QED BY <1>3, <3>2, WarningStays
  <2>5. ASSUME NEW r \in Requests, ReadTargets(r) \/ DeliverCall(r) PROVE Warning'
    <3>1. OnlyAbout({req[r].op}) /\ req[r].op \in {"ring", "stop"}
      BY <1>0, <2>5, TargetsAsk, DeliverAsks
    <3> QED BY <1>3, <3>1, WarningStays
  <2> QED BY <1>1, <1>2, <2>1, <2>2, <2>3, <2>4, <2>5, RequestMoves
<1> QED BY <1>1, <1>2, <1>3, WarnedMoves

-----------------------------------------------------------------------------
(* The pushes of a call.                                                   *)

Over == aCall \in {"ended", "unanswered"}

(* When a call is over, one push says so, and the phones that it and the   *)
(* one before it reached in order are told to ring before to stop.         *)
OneCall ==
    /\ Of("stop") # {} <=> Over
    /\ \A r, q \in Of("stop") : r = q
    /\ \A t \in Android \ apart : Over =>
          /\ \A r \in Of("ring") : req[r].step = "done"
          /\ (\A r \in Of("stop") : req[r].step = "done") => phone[t] # "rings"

(* A phone that was reached in order does not ring on.                     *)
LEMMA OneCallStops == OneCall => RingingStops
  BY DEF OneCall, RingingStops, Over

(* A step about other things leaves it as it is, though a phone may stop.  *)
LEMMA OneCallStays ==
    ASSUME OneCall, NEW ops, OnlyAbout(ops), "ring" \notin ops, "stop" \notin ops,
           UNCHANGED <<aCall, apart>>, \A t \in Tokens : phone'[t] = phone[t] \/ phone'[t] # "rings"
    PROVE  OneCall'
<1>1. /\ Of("ring")' = Of("ring") /\ \A r \in Of("ring") : req'[r] = req[r]
      /\ Of("stop")' = Of("stop") /\ \A r \in Of("stop") : req'[r] = req[r]
  BY OthersAsBefore
<1>2. Over' <=> Over
  BY DEF Over
<1>3. \A t \in Android : t \in Tokens
  BY NotificationAssumption
<1> QED BY <1>1, <1>2, <1>3 DEF OneCall

(* A push that is not over stays one, or is over.                          *)
LEMMA CallGoesOn ==
    ASSUME RequestsTyped, NEW r \in Requests, ReadTargets(r) \/ DeliverCall(r)
    PROVE  /\ req[r].op \in {"ring", "stop"} /\ r \in Of(req[r].op) /\ req[r].step # "done"
           /\ Of("ring")' = Of("ring") /\ Of("stop")' = Of("stop")
           /\ \A q \in Requests : q # r => req'[q] = req[q]
           /\ ReadTargets(r) => req'[r].step = "deliver"
<1>1. /\ req[r] # Nil /\ req[r].op \in {"ring", "stop"} /\ req[r].step # "done"
      /\ req'[r] # Nil /\ req'[r].op = req[r].op
      /\ \A q \in Requests : q # r => req'[q] = req[q]
      /\ ReadTargets(r) => req'[r].step = "deliver"
  BY TargetsAsk, DeliverAsks
<1>2. ASSUME NEW op PROVE Of(op)' = Of(op)
  <2>1. Of(op)' = {q \in {x \in Requests : req'[x] # Nil} : req'[q].op = op}
    BY DEF Of
  <2>2. \A q \in Requests : req'[q] # Nil /\ req'[q].op = op <=> req[q] # Nil /\ req[q].op = op
    BY <1>1
  <2> QED BY <2>1, <2>2 DEF Of
<1>3. r \in Of(req[r].op)
  BY <1>1 DEF Of
<1> QED BY <1>1, <1>2, <1>3

(* The pushes of a call stay in order, or apart.                           *)
LEMMA NextOneCall ==
    ASSUME PushTyped, OneCall, [PushNext]_pushVars
    PROVE  OneCall'
<1>0. RequestsTyped
  BY DEF PushTyped
<1>1. ASSUME NEW r \in Requests, NEW u \in Users, CallRinging(r, u) PROVE OneCall'
  <2>1. req[r] = Nil /\ req' = [req EXCEPT ![r] = Asked("ring", "targets", u, Nil, Nil)] /\ aCall = "none" /\ aCall' = "rings"
    BY <1>1 DEF CallRinging
  <2>2. OnlyAbout({"ring"})
    BY <1>0, <2>1, CallAsks
  <2>3. Of("stop")' = Of("stop")
    BY <2>2, OthersAsBefore
  <2>4. ~Over /\ ~Over'
    BY <2>1 DEF Over
  <2> QED BY <2>3, <2>4 DEF OneCall
<1>2. ASSUME NEW r \in Requests, NEW u \in Users, CallEnded(r, u) PROVE OneCall'
  <2>1. /\ req[r] = Nil /\ req' = [req EXCEPT ![r] = Asked("stop", "targets", u, Nil, Nil)]
        /\ aCall = "rings" /\ aCall' \in {"ended", "unanswered"}
        /\ apart' = IF \E q \in Of("ring") : req[q].step # "done" THEN Tokens ELSE apart
    BY <1>2 DEF CallEnded
  <2>2. /\ OnlyAbout({"stop"}) /\ req'[r] # Nil /\ req'[r].op = "stop" /\ req'[r].step = "targets"
        /\ \A q \in Requests : q # r => req'[q] = req[q]
    BY <1>0, <2>1, CallAsks
  <2>3. Of("ring")' = Of("ring") /\ \A q \in Of("ring") : req'[q] = req[q]
    BY <2>2, OthersAsBefore
  <2>4. ~Over /\ Over'
    BY <2>1 DEF Over
  <2>5. Of("stop")' = {r}
    <3>1. Of("stop") = {}
      BY <2>4 DEF OneCall
    <3>2. Of("stop")' = {q \in {x \in Requests : req'[x] # Nil} : req'[q].op = "stop"}
      BY DEF Of
    <3>3. \A q \in Requests : q # r => ~(req'[q] # Nil /\ req'[q].op = "stop")
      BY <2>2, <3>1 DEF Of
    <3> QED BY <2>2, <3>2, <3>3
  <2>6. \A t \in Android \ apart' : \A q \in Of("ring") : req[q].step = "done"
    BY <2>1, NotificationAssumption
  <2> QED BY <2>2, <2>3, <2>4, <2>5, <2>6 DEF OneCall
<1>3. ASSUME NEW r \in Requests, ReadTargets(r) PROVE OneCall'
  <2>1. UNCHANGED <<phone, aCall, apart>>
    BY <1>3 DEF ReadTargets, calling, history
  <2>2. /\ req[r].op \in {"ring", "stop"} /\ r \in Of(req[r].op) /\ req[r].step # "done" /\ req'[r].step = "deliver"
        /\ Of("ring")' = Of("ring") /\ Of("stop")' = Of("stop")
        /\ \A q \in Requests : q # r => req'[q] = req[q]
    BY <1>0, <1>3, CallGoesOn
  <2>3. Over' <=> Over
    BY <2>1 DEF Over
  <2>4. ASSUME NEW t \in Android \ apart, Over
        PROVE  /\ \A q \in Of("ring") : req'[q].step = "done"
               /\ (\A q \in Of("stop") : req'[q].step = "done") => phone[t] # "rings"
    <3>1. \A q \in Of("ring") : req[q].step = "done"
      BY <2>4 DEF OneCall
    <3>2. req[r].op = "stop" /\ r \notin Of("ring")
      BY <2>2, <3>1
    <3>3. \A q \in Of("ring") : req'[q] = req[q]
      BY <2>2, <3>2 DEF Of
    <3> QED BY <2>2, <3>1, <3>2, <3>3
  <2> QED BY <2>1, <2>2, <2>3, <2>4 DEF OneCall
<1>4. ASSUME NEW r \in Requests, DeliverCall(r) PROVE OneCall'
  <2>1. PICK failed \in SUBSET req[r].to :
          /\ phone' = [t \in Tokens |->
               IF t \notin req[r].to \ failed THEN phone[t]
               ELSE IF req[r].op # "stop" THEN "rings"
               ELSE IF NoPush(t) THEN phone[t]
               ELSE IF aCall = "unanswered" THEN "missed" ELSE "quiet"]
          /\ apart' = IF req[r].op = "stop" THEN apart \cup failed \cup (Tokens \ req[r].to) ELSE apart
    BY <1>4 DEF DeliverCall
  <2>2. /\ req[r].op \in {"ring", "stop"} /\ r \in Of(req[r].op) /\ req[r].step # "done"
        /\ Of("ring")' = Of("ring") /\ Of("stop")' = Of("stop")
        /\ \A q \in Requests : q # r => req'[q] = req[q]
    BY <1>0, <1>4, CallGoesOn
  <2>3. Over' <=> Over
    BY <1>4 DEF DeliverCall, Over
  <2>4. ASSUME NEW t \in Android \ apart', Over
        PROVE  /\ \A q \in Of("ring") : req'[q].step = "done"
               /\ phone'[t] # "rings"
    <3>1. t \in Android \ apart /\ t \in Tokens
      BY <2>1, <2>4, NotificationAssumption
    <3>2. \A q \in Of("ring") : req[q].step = "done"
      BY <2>4, <3>1 DEF OneCall
    <3>3. req[r].op = "stop" /\ r \notin Of("ring")
      BY <2>2, <3>2
    <3>4. \A q \in Of("ring") : req'[q] = req[q]
      BY <2>2, <3>3 DEF Of
    <3>5. t \in req[r].to \ failed
      BY <2>1, <2>4, <3>1, <3>3
    <3>6. ~NoPush(t)
      BY <3>1 DEF NoPush
    <3> QED BY <2>1, <3>1, <3>2, <3>3, <3>4, <3>5, <3>6
  <2> QED BY <2>2, <2>3, <2>4 DEF OneCall
<1>5. ASSUME NEW t \in Tokens, RingingTimesOut(t) PROVE OneCall'
  <2>1. UNCHANGED <<req, aCall, apart>> /\ phone' = [phone EXCEPT ![t] = "quiet"]
    BY <1>5 DEF RingingTimesOut, history
  <2>2. OnlyAbout({})
    BY <2>1 DEF OnlyAbout
  <2>3. \A x \in Tokens : phone'[x] = phone[x] \/ phone'[x] # "rings"
    BY <2>1 DEF PushTyped, CallTyped
  <2> QED BY <2>1, <2>2, <2>3, OneCallStays
<1>6. CASE UNCHANGED <<phone, aCall, apart>>
  <2>1. CASE UNCHANGED req
    <3>1. OnlyAbout({})
      BY <2>1 DEF OnlyAbout
    <3> QED BY <1>6, <3>1, OneCallStays
  <2>2. ASSUME NEW r \in Requests, NEW u \in Users, NEW s \in Sessions \cup {Nil}, NEW t \in Tokens, Register(r, u, s, t)
        PROVE  OneCall'
    BY <1>0, <1>6, <2>2, RegisterAsks, OneCallStays
  <2>3. ASSUME NEW r \in Requests, Upsert(r) \/ FindOldestBeyondLimit(r) \/ Forget(r) PROVE OneCall'
    BY <1>0, <1>6, <2>3, UpsertAsks, FindAsks, ForgetAsks, OneCallStays
  <2>4. ASSUME NEW r \in Requests, WarnTargets(r) \/ \E s \in Sessions : NotifySignIn(r, s) PROVE OneCall'
    BY <1>0, <1>6, <2>4, WarnAsks, SignInAsks, OneCallStays
  <2> QED BY <1>1, <1>2, <1>3, <1>4, <2>1, <2>2, <2>3, <2>4, RequestMoves
<1> QED BY <1>1, <1>2, <1>4, <1>5, <1>6, CallMoves

(* Devices are kept to the newest, a new sign-in is told to all others,    *)
(* and a phone does not ring on: what a push is for reaches the devices it *)
(* is for (push-devices.service.ts, sign-in-alert-notifier.ts,             *)
(* call.push.ts).                                                          *)
THEOREM PushesReachDevices == PushSpec => []PushesReach
<1> DEFINE Inv == PushTyped /\ LatestIsKept /\ Warning /\ OneCall
<1>1. ASSUME PushInit PROVE Inv
  <2>1. LatestIsKept
    BY <1>1 DEF PushInit, LatestIsKept
  <2>2. Of("signIn") = {} /\ Of("stop") = {}
    BY <1>1 DEF PushInit, Of
  <2>3. ~Over
    BY <1>1 DEF PushInit, Over
  <2>4. Warning /\ OneCall
    BY <2>2, <2>3 DEF Warning, OneCall
  <2> QED BY <1>1, <2>1, <2>4, InitPushTyped
<1>2. Inv /\ [PushNext]_pushVars => Inv'
  BY NextPushTyped, NextLatest, NextWarning, NextOneCall
<1>3. Inv => PushesReach
  BY LatestIsReachable, WarningWarns, OneCallStops DEF PushesReach
<1> QED BY <1>1, <1>2, <1>3, PTL DEF PushSpec
=============================================================================
