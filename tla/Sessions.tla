------------------------------ MODULE Sessions ------------------------------
(***************************************************************************)
(* Sessions of the authentication service: every request that issues,      *)
(* rotates or revokes refresh tokens, as the sequence of database and      *)
(* Redis calls it makes, interleaved with every other request of every     *)
(* instance; and the Redis list that cuts off access tokens.               *)
(*                                                                         *)
(* A request is a record in "req": the step it will take next and the      *)
(* locals it carries over its awaits.  Each action is one call to the      *)
(* database or to Redis together with the code that runs up to the next    *)
(* await.                                                                  *)
(***************************************************************************)
EXTENDS RefreshTokens

CONSTANTS
    Requests,          \* requests in flight at once
    LegacyTokens,      \* tokens issued before sessions existed: no session id
    AccessTTL,         \* ACCESS_TOKEN_TTL_SECONDS, in ticks
    EstablishedAfter,  \* ESTABLISHED_AFTER_MS, in ticks
    MaxTime,           \* bound on the clock
    RedisFails         \* whether a call to Redis may fail

ASSUME SessionsAssumption ==
    /\ LegacyTokens \subseteq Jtis
    /\ AccessTTL \in Nat \ {0}
    /\ EstablishedAfter \in Nat
    /\ MaxTime \in Nat
    /\ RedisFails \in BOOLEAN

VARIABLES
    now,           \* the clock
    tokens,        \* refresh_tokens
    revokedUntil,  \* Redis sessions:revoked:<sid>: when the entry expires, 0 if none
    accessUntil,   \* when the last access token issued to a session expires, 0 if none
    req,           \* the requests in flight
    cut            \* the sessions whose usable token an answered sign-out revoked

(* cut only remembers: nothing the program does reads it.                  *)
vars == <<now, tokens, revokedUntil, accessUntil, req, cut>>

Steps == {"idle", "checkActive", "revoke", "findUser", "insert",
          "endSession", "endAll", "cutOff"}

Request == [step : Steps,
            user : Users \cup {None},
            jti : Jtis \cup {None},          \* the refresh token presented
            session : SessionIds \cup {None},
            at : Nat,                        \* when the access token was signed
            ended : SUBSET SessionIds,       \* sessions whose token it revoked
            todo : SUBSET SessionIds]        \* sessions still to be cut off

Idle == [step |-> "idle", user |-> None, jti |-> None, session |-> None,
         at |-> 0, ended |-> {}, todo |-> {}]

TypeOK ==
    /\ now \in Nat
    /\ tokens \in Table
    /\ revokedUntil \in [SessionIds -> Nat]
    /\ accessUntil \in [SessionIds -> Nat]
    /\ req \in [Requests -> Request]
    /\ cut \in SUBSET SessionIds

-----------------------------------------------------------------------------
Legacy(u) == [NoRow EXCEPT !.state = "active", !.user = u]

Init ==
    /\ now = 0
    /\ tokens \in {T \in [Jtis -> {NoRow} \cup {Legacy(u) : u \in Users}] :
                     \A j \in Jtis : Issued(T, j) <=> j \in LegacyTokens}
    /\ revokedUntil = [s \in SessionIds |-> 0]
    /\ accessUntil = [s \in SessionIds |-> 0]
    /\ req = [r \in Requests |-> Idle]
    /\ cut = {}

-----------------------------------------------------------------------------
(* What a caller must be to get in.                                        *)

(* The gateway, or the service's own strategy on /auth routes.  With Redis *)
(* unreachable the list cannot be read and nobody is refused.              *)
Accepted(s) ==
    /\ accessUntil[s] > now
    /\ revokedUntil[s] <= now \/ RedisFails

OwnerOf(s) == {tokens[j].user : j \in {k \in Jtis : tokens[k].session = s}}

Established(u, s) ==
    \E j \in SessionTokens(tokens, u) :
        /\ tokens[j].session = s
        /\ tokens[j].started + EstablishedAfter <= now

-----------------------------------------------------------------------------
(* Steps of a request.                                                     *)

Goto(r, step) == req' = [req EXCEPT ![r].step = step]
Done(r) == req' = [req EXCEPT ![r] = Idle]

(* POST /auth/refresh: the signature is checked and the row read.  A token *)
(* that has no row, or another hash, is refused and changes nothing.       *)
BeginRefresh(r, j) ==
    /\ req[r].step = "idle"
    /\ Issued(tokens, j)
    /\ req' = [req EXCEPT ![r] =
                 [Idle EXCEPT !.step = IF Active(tokens, j) THEN "revoke"
                                       ELSE IF tokens[j].session = None THEN "endAll"
                                       ELSE "checkActive",
                              !.user = tokens[j].user,
                              !.jti = j,
                              !.session = tokens[j].session]]
    /\ UNCHANGED <<now, tokens, revokedUntil, accessUntil, cut>>

(* A revoked token is presented: its device was signed out, or, if its     *)
(* session has a usable token, it is taken for stolen.                     *)
RejectRevokedToken(r) ==
    /\ req[r].step = "checkActive"
    /\ IF HasActiveToken(tokens, req[r].session) THEN Goto(r, "endAll") ELSE Done(r)
    /\ UNCHANGED <<now, tokens, revokedUntil, accessUntil, cut>>

(* A fault: how many rows the update changed is not looked at.             *)
RevokeOldTokenUnchecked(r) ==
    /\ req[r].step = "revoke"
    /\ tokens' = RevokeRows(tokens, {req[r].jti})
    /\ Goto(r, "findUser")
    /\ UNCHANGED <<now, revokedUntil, accessUntil, cut>>

(* revokeIfActive: only the request that finds the row active goes on; any *)
(* other, and one whose update failed, ends every session of the user.     *)
RevokeOldToken(r) ==
    /\ req[r].step = "revoke"
    /\ \/ /\ Active(tokens, req[r].jti)
          /\ tokens' = RevokeRows(tokens, {req[r].jti})
          /\ Goto(r, "findUser")
       \/ /\ ~Active(tokens, req[r].jti)
          /\ UNCHANGED tokens
          /\ Goto(r, "endAll")
       \/ /\ tokens' \in {tokens, RevokeRows(tokens, {req[r].jti})}
          /\ Goto(r, "endAll")
    /\ UNCHANGED <<now, revokedUntil, accessUntil, cut>>

(* The user is found and the pair signed; the row is not written yet.      *)
FindUser(r) ==
    /\ req[r].step = "findUser"
    /\ req' = [req EXCEPT ![r] = [@ EXCEPT !.step = "insert", !.at = now]]
    /\ UNCHANGED <<now, tokens, revokedUntil, accessUntil, cut>>

(* A sign-in whose credentials were proven: a pair is signed for a new     *)
(* session.  (Reactivating the account belongs to the account service.)    *)
BeginSignIn(r, u) ==
    /\ req[r].step = "idle"
    /\ req' = [req EXCEPT ![r] =
                 [Idle EXCEPT !.step = "insert", !.user = u, !.at = now]]
    /\ UNCHANGED <<now, tokens, revokedUntil, accessUntil, cut>>

(* A fault: a renewed token starts a session of its own.                   *)
SessionOfNewAlways(r, s) == FreshSession(tokens, s)

(* The session of the token being issued: its predecessor's, or a new one. *)
SessionOfNew(r, s) ==
    IF req[r].session # None THEN s = req[r].session ELSE FreshSession(tokens, s)

StartOfNew(r) == IF req[r].jti = None THEN req[r].at ELSE tokens[req[r].jti].started

(* The new row is stored and the pair answered.                       *)
InsertToken(r, j, s) ==
    /\ req[r].step = "insert"
    /\ ~Issued(tokens, j)
    /\ SessionOfNew(r, s)
    /\ tokens' = InsertRow(tokens, j, req[r].user, s, StartOfNew(r), req[r].jti)
    /\ accessUntil' = [accessUntil EXCEPT ![s] = req[r].at + AccessTTL]
    /\ Done(r)
    /\ UNCHANGED <<now, revokedUntil, cut>>

-----------------------------------------------------------------------------
(* Sign-outs.  Each revokes in the database first and cuts off in Redis    *)
(* afterwards, one session at a time.                                      *)

CutOffNext(r, ended, todo) ==
    req' = [req EXCEPT ![r] =
              [Idle EXCEPT !.step = "cutOff", !.ended = ended, !.todo = todo]]

(* POST /auth/logout: whatever token the device holds, revoked or not.     *)
Logout(r, j) ==
    LET device == {tokens[j].session} \ {None}
    IN  /\ req[r].step = "idle"
        /\ Issued(tokens, j)
        /\ tokens' = RevokeRows(tokens, {j})
        /\ CutOffNext(r, IF Active(tokens, j) THEN device ELSE {}, device)
        /\ UNCHANGED <<now, revokedUntil, accessUntil, cut>>

(* DELETE /auth/sessions/:id by the device of session c.                   *)
BeginRevokeSession(r, c, s) ==
    /\ req[r].step = "idle"
    /\ Accepted(c)
    /\ \E u \in OwnerOf(c) :
          /\ s = c \/ Established(u, c)
          /\ req' = [req EXCEPT ![r] = [Idle EXCEPT !.step = "endSession",
                                                    !.user = u, !.session = s]]
    /\ UNCHANGED <<now, tokens, revokedUntil, accessUntil, cut>>

(* A session without a usable token is answered "not found".          *)
EndSession(r) ==
    LET ended == ActiveOfSession(tokens, req[r].user, req[r].session)
        s == req[r].session
    IN  /\ req[r].step = "endSession"
        /\ tokens' = RevokeRows(tokens, ended)
        /\ IF ended = {} THEN Done(r) ELSE CutOffNext(r, {s}, {s})
        /\ UNCHANGED <<now, revokedUntil, accessUntil, cut>>

(* POST /auth/logout-all by the device of session c.                       *)
BeginLogoutAll(r, c) ==
    /\ req[r].step = "idle"
    /\ Accepted(c)
    /\ \E u \in OwnerOf(c) :
          /\ Established(u, c)
          /\ req' = [req EXCEPT ![r] = [Idle EXCEPT !.step = "endAll", !.user = u]]
    /\ UNCHANGED <<now, tokens, revokedUntil, accessUntil, cut>>

(* Every usable token of the user is revoked in one update.                *)
EndAll(r) ==
    LET ended == ActiveOfUser(tokens, req[r].user, None)
    IN  /\ req[r].step = "endAll"
        /\ tokens' = RevokeRows(tokens, ended)
        /\ CutOffNext(r, SessionsOf(tokens, ended), SessionsOf(tokens, ended))
        /\ UNCHANGED <<now, revokedUntil, accessUntil, cut>>

(* A fault: the entry may expire before an access token issued just now.   *)
CutOffBriefly(r, s) ==
    /\ req[r].step = "cutOff"
    /\ s \in req[r].todo
    /\ revokedUntil' = [revokedUntil EXCEPT ![s] = now + AccessTTL - 1]
    /\ req' = [req EXCEPT ![r].todo = @ \ {s}]
    /\ UNCHANGED <<now, tokens, accessUntil, cut>>

(* RevokedSessionStore.add, one session of its loop; a failure is logged   *)
(* and the loop goes on.                                                   *)
CutOff(r, s) ==
    /\ req[r].step = "cutOff"
    /\ s \in req[r].todo
    /\ \/ revokedUntil' = [revokedUntil EXCEPT ![s] = now + AccessTTL]
       \/ RedisFails /\ UNCHANGED revokedUntil
    /\ req' = [req EXCEPT ![r].todo = @ \ {s}]
    /\ UNCHANGED <<now, tokens, accessUntil, cut>>

(* The request is answered.                                                *)
Answer(r) ==
    /\ req[r].step = "cutOff"
    /\ req[r].todo = {}
    /\ cut' = cut \cup req[r].ended
    /\ Done(r)
    /\ UNCHANGED <<now, tokens, revokedUntil, accessUntil>>

-----------------------------------------------------------------------------
(* The call a request waits for fails, or its process dies: it makes none  *)
(* of its later calls.                                                     *)
Fail(r) ==
    /\ req[r].step # "idle"
    /\ Done(r)
    /\ UNCHANGED <<now, tokens, revokedUntil, accessUntil, cut>>

Tick ==
    /\ now < MaxTime
    /\ now' = now + 1
    /\ UNCHANGED <<tokens, revokedUntil, accessUntil, req, cut>>

Next ==
    \/ Tick
    \/ \E r \in Requests :
          \/ \E j \in Jtis : BeginRefresh(r, j)
          \/ RejectRevokedToken(r)
          \/ RevokeOldToken(r)
          \/ FindUser(r)
          \/ \E u \in Users : BeginSignIn(r, u)
          \/ \E j \in Jtis, s \in SessionIds : InsertToken(r, j, s)
          \/ \E j \in Jtis : Logout(r, j)
          \/ \E c \in SessionIds, s \in SessionIds : BeginRevokeSession(r, c, s)
          \/ EndSession(r)
          \/ \E c \in SessionIds : BeginLogoutAll(r, c)
          \/ EndAll(r)
          \/ \E s \in SessionIds : CutOff(r, s)
          \/ Answer(r)
          \/ Fail(r)

Spec == Init /\ [][Next]_vars

-----------------------------------------------------------------------------
(* What the properties speak of.                                           *)

(* r is between revoking a token and storing its replacement.              *)
Renewing(r) == req[r].step \in {"findUser", "insert"} /\ req[r].jti # None

(* The usable tokens of session s, and the requests about to add one.      *)
Live(s) == {j \in Jtis : Active(tokens, j) /\ tokens[j].session = s}
Pending(s) == {r \in Requests : Renewing(r) /\ req[r].session = s}

(* Nothing can renew session s any more.                                   *)
Over(s) == ~FreshSession(tokens, s) /\ Live(s) = {} /\ Pending(s) = {}

-----------------------------------------------------------------------------
(* Safety.                                                                 *)

(* "All the tokens it was given over time share a session_id, and at most  *)
(* one of them is not revoked": refresh, replay, sign-out and failures in  *)
(* any interleaving never leave a session two usable tokens.               *)
AtMostOneUsableToken == \A s \in SessionIds : \A j, k \in Live(s) : j = k

(* "The old token can never be used again": however many requests present  *)
(* a token at once, at most one pair is ever issued in exchange for it,    *)
(* for tokens without a session as well.                                   *)
ExchangedOnce ==
    \A j, k \in Jtis : /\ Issued(tokens, j) /\ Issued(tokens, k)
                       /\ tokens[j].replaces = tokens[k].replaces
                       /\ tokens[j].replaces # None
                       => j = k

(* A session whose usable token a sign-out revoked stays out for good once *)
(* the sign-out is answered: it has no usable token and none on its way,   *)
(* and with Redis reachable every access token it was ever given is        *)
(* refused until it expires.                                               *)
CutSessionsStayOut ==
    \A s \in cut : Over(s) /\ (RedisFails \/ ~Accepted(s))

(* A session is started once, renewed by one request at a time, and never  *)
(* comes back once it is over, whatever interleaves.                       *)
Phase(s) ==
    IF FreshSession(tokens, s) THEN "unused"
    ELSE IF Live(s) # {} THEN "live"
    ELSE IF Pending(s) # {} THEN "renewing"
    ELSE "over"

Phases == [s \in SessionIds |-> Phase(s)]

Chain == INSTANCE SessionChain WITH phase <- Phases

ImplementsChain == Chain!Spec

=============================================================================
