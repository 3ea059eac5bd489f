------------------------------ MODULE Accounts ------------------------------
(***************************************************************************)
(* One account of the authentication service: the requests that create it, *)
(* sign in to it, change or reset its password, switch it off and delete   *)
(* it, each as the calls it makes to the database, Redis and Firebase.     *)
(*                                                                         *)
(* A request is a record in "req", used once: the step it takes next and   *)
(* what it carries over its awaits, above all the row it read.  Ending the *)
(* sessions of an account is one update of their usable tokens, and misses *)
(* a session between its old token and its new one; module Sessions has    *)
(* the other calls of a renewal and of a sign-out.                         *)
(* A tick of the clock is five minutes and no run lasts a day: a session   *)
(* is established if it was there at the start, and never becomes so.      *)
(***************************************************************************)
EXTENDS Integers, FiniteSetsExt

CONSTANTS
    Requests,    \* requests, each sent once
    Sids,        \* ids of sessions
    MaxCodes,    \* bound on the reset codes issued; they are numbered in order
    Points,      \* attempts a limiter allows in a window
    CodeTTL,     \* OTP_TTL_MINUTES, in ticks
    MaxTime,     \* bound on the clock
    Mixes,       \* bound: the sets of operations that are sent together
    None

Limiters == {"login", "resetCooldown", "otp", "otpPerDay", "identityProof"}

ASSUME AccountsAssumption ==
    /\ MaxCodes \in Nat
    /\ Points \in [Limiters -> Nat]
    /\ CodeTTL \in Nat
    /\ MaxTime \in Nat
    /\ Mixes \subseteq SUBSET STRING
    /\ None \notin Sids

VARIABLES
    now,       \* the clock
    row,       \* the row of users
    passwords, \* how many passwords were ever chosen
    sess,      \* its sessions
    codes,     \* password_reset_otps, by number
    tries,     \* Redis limit:auth:*: attempts in the current window
    kept,      \* what is stored outside the database: files, the Google record
    req,       \* requests
    guesses,   \* how often a code was compared with what somebody typed
    resets     \* how many passwords were set with a code

(* guesses and resets only remember, as do late, spared and missed.        *)
vars == <<now, row, passwords, sess, codes, tries, kept, req, guesses, resets>>

Codes == 1..MaxCodes

(* A password is its number; 0 is the hash of random bytes nobody typed.   *)
UserRecord == [state : {"none", "active", "hidden", "gone"}, pw : Nat,
               google : BOOLEAN, email : BOOLEAN]

Session == [state : {"free", "live", "renewing", "ended"}, old : BOOLEAN, pw : Nat,
            late : BOOLEAN, spared : BOOLEAN,
            missed : BOOLEAN]            \* the sessions ended while it was renewed

(* A device that is signed in: while it renews it has its access token.    *)
SignedIn == {"live", "renewing"}

Otp == [issued : BOOLEAN, used : BOOLEAN, until : Nat, mailed : BOOLEAN]

Ops == {"register", "login", "google", "change", "create", "addEmail",
        "deactivate", "delete", "forgot", "verifyOtp", "reset"}

Steps == {"find", "insertUser", "link", "reactivate", "issue", "clear",
          "require", "verify", "write", "erase", "putBack", "endSessions",
          "deleteGoogle", "deleteCodes", "deleteRow",
          "invalidate", "store", "mail", "match", "claim", "done"}

Request == [op : Ops, step : Steps, dead : BOOLEAN,
            caller : Sids \cup {None},   \* the session of the caller
            typed : Nat,                 \* the password or the code typed
            user : UserRecord,           \* the row as it was read
            code : Codes \cup {0},
            late : BOOLEAN]              \* the row changed since it was read

ASSUME NoneIsNoRequest == None \notin Request

TypeOK ==
    /\ now \in Nat
    /\ row \in UserRecord
    /\ passwords \in Nat
    /\ sess \in [Sids -> Session]
    /\ codes \in [Codes -> Otp]
    /\ tries \in [Limiters -> [used : Nat, since : Nat]]
    /\ kept \in [files : BOOLEAN, google : BOOLEAN]
    /\ req \in [Requests -> Request \cup {None}]
    /\ guesses \in [Codes -> Nat]
    /\ resets \in [Codes -> Nat]
    /\ \A r \in Requests : req[r] # None /\ req[r].step \in {"putBack", "issue"} =>
         req[r].user.state \in {"active", "hidden"}

NoSession == [state |-> "free", old |-> FALSE, pw |-> 0, late |-> FALSE,
              spared |-> FALSE, missed |-> FALSE]
NoUser == [state |-> "none", pw |-> 0, google |-> FALSE, email |-> FALSE]

(* Nothing, or an account with a password of its own, a Google identity or *)
(* both, in use on at most one phone that has been signed in for a day,    *)
(* perhaps with a reset code just sent.                                    *)
Init ==
    /\ now = 0
    /\ row \in {NoUser} \cup
         {u \in [state : {"active"}, pw : {0, 1}, google : BOOLEAN, email : BOOLEAN] :
            u.pw = 0 => u.google /\ u.email}
    /\ passwords = 1
    /\ sess \in {S \in [Sids -> {NoSession,
                                 [NoSession EXCEPT !.state = "live", !.old = TRUE,
                                                   !.pw = row.pw]}] :
                   /\ Cardinality({s \in Sids : S[s].state = "live"}) <= 1
                   /\ row = NoUser => \A s \in Sids : S[s] = NoSession}
    /\ codes \in {C \in [Codes -> [issued : BOOLEAN, used : {FALSE}, until : {0, CodeTTL},
                               mailed : BOOLEAN]] :
                   /\ \A c \in Codes : C[c].issued => c = 1 /\ row.email /\ ~row.google
                   /\ \A c \in Codes : C[c].until = IF C[c].issued THEN CodeTTL ELSE 0
                   /\ \A c \in Codes : C[c].mailed = C[c].issued}
    /\ tries = [l \in Limiters |-> [used |-> 0, since |-> 0]]
    /\ kept = [files |-> TRUE, google |-> row.google]
    /\ req = [r \in Requests |-> None]
    /\ guesses = [c \in Codes |-> 0]
    /\ resets = [c \in Codes |-> 0]

-----------------------------------------------------------------------------
(* Attempt limits: so many in a window that starts with the first.         *)

Duration == [login |-> 3, resetCooldown |-> 1, otp |-> 3, otpPerDay |-> 288,
             identityProof |-> 3]

(* A code is valid for ten minutes, less than the window for typing codes. *)
ASSUME CodeEndsWithinAWindow == CodeTTL <= Duration["otp"]

Consumed(t, l) ==
    IF t[l].used = 0 \/ now >= t[l].since + Duration[l]
    THEN [t EXCEPT ![l] = [used |-> 1, since |-> now]]
    ELSE [t EXCEPT ![l].used = @ + 1]

Allowed(t, l) == Consumed(t, l)[l].used <= Points[l]

(* A fault: the short window is not counted.                               *)
CountOtpAttemptOfDay(t) == Consumed(t, "otpPerDay")

CountOtpAttempt(t) ==
    IF Allowed(t, "otp") THEN Consumed(Consumed(t, "otp"), "otpPerDay")
    ELSE Consumed(t, "otp")

OtpAllowed(t) == Allowed(t, "otp") /\ Allowed(t, "otpPerDay")

-----------------------------------------------------------------------------
(* Requests.                                                               *)

Sent(op, step) == [op |-> op, step |-> step, dead |-> FALSE, caller |-> None,
                   typed |-> 0, user |-> NoUser, code |-> 0, late |-> FALSE]

(* op is among what this behaviour mixes.                                  *)
Mixed(op) ==
    \E M \in Mixes : /\ op \in M
                     /\ \A q \in {x \in Requests : req[x] # None} : req[q].op \in M

(* r is not sent yet.                                                      *)
Free(r, op) == req[r] = None /\ Mixed(op)

At(r, step) == /\ req[r] # None
               /\ req[r].step = step
               /\ ~req[r].dead
(* A request that is over, or has only its tries to clear, carries nothing.*)
Goto(r, step) ==
    req' = [req EXCEPT ![r] = IF step \in {"clear", "done"} THEN Sent(@.op, step)
                              ELSE [@ EXCEPT !.step = step]]

(* A fault: the row is looked at and not kept.                             *)
ReadNothing(r, step) == req' = [req EXCEPT ![r].step = step]

Read(r, step) == req' = [req EXCEPT ![r].step = step, ![r].user = row]

Exists == row.state \in {"active", "hidden"}

(* The row is written by r: sign-ins that read it before are late.         *)
Outdated(R, r) ==
    [q \in Requests |->
       IF /\ R[q] # None /\ q # r
          /\ R[q].op \in {"login", "google"} /\ R[q].step \notin {"find", "clear", "done"}
       THEN [R[q] EXCEPT !.late = TRUE] ELSE R[q]]

(* revokeAllForUser, keeping the session "but": a session whose old token  *)
(* is revoked and whose new one is not inserted yet has no row to update.  *)
Ended(S, but) ==
    [s \in Sids |->
       IF S[s].state = "live" /\ s # but THEN [S[s] EXCEPT !.state = "ended"]
       ELSE IF S[s].state = "renewing" /\ s # but THEN [S[s] EXCEPT !.missed = TRUE]
       ELSE S[s]]

Spared(S, who) ==
    [s \in Sids |-> IF s \in who /\ S[s].state \in SignedIn
                    THEN [S[s] EXCEPT !.spared = TRUE] ELSE S[s]]

-----------------------------------------------------------------------------
(* Creating an account and signing in to it.                               *)

Register(r) ==
    /\ Free(r, "register")
    /\ req' = [req EXCEPT ![r] = Sent("register", IF row = NoUser THEN "insertUser"
                                                  ELSE "done")]
    /\ UNCHANGED <<now, row, passwords, sess, codes, tries, kept, guesses, resets>>

(* The row is inserted; a unique index refuses a second one.               *)
InsertUser(r) ==
    /\ At(r, "insertUser")
    /\ LET google == req[r].op = "google"
           taken == row # NoUser
       IN  /\ row' = IF taken THEN row
                     ELSE [state |-> "active", pw |-> IF google THEN 0 ELSE 1,
                           google |-> google, email |-> TRUE]
           /\ kept' = IF taken \/ ~google THEN kept ELSE [kept EXCEPT !.google = TRUE]
           /\ IF taken \/ ~google THEN Goto(r, "done")
              ELSE req' = [req EXCEPT ![r].step = "reactivate", ![r].user = row']
    /\ UNCHANGED <<now, passwords, sess, codes, tries, guesses, resets>>

Login(r, p) ==
    /\ Free(r, "login")
    /\ tries' = Consumed(tries, "login")
    /\ req' = [req EXCEPT ![r] =
                 [Sent("login", IF Allowed(tries, "login") THEN "find" ELSE "done")
                    EXCEPT !.typed = p]]
    /\ UNCHANGED <<now, row, passwords, sess, codes, kept, guesses, resets>>

FindByIdentifier(r) ==
    /\ At(r, "find")
    /\ req[r].op = "login"
    /\ IF Exists /\ row.pw = req[r].typed THEN Read(r, "reactivate") ELSE Goto(r, "done")
    /\ UNCHANGED <<now, row, passwords, sess, codes, tries, kept, guesses, resets>>

(* Sign-in with Google.  An account with the same verified email or phone  *)
(* is linked; with no account at all one is created.                       *)
FirebaseLogin(r, trusted) ==
    /\ Free(r, "google")
    /\ req' = [req EXCEPT ![r] =
                 [Sent("google", IF Exists /\ row.google THEN "reactivate"
                                 ELSE IF Exists /\ trusted THEN "link"
                                 ELSE IF row = NoUser THEN "insertUser"
                                 ELSE "done") EXCEPT !.user = row]]
    /\ UNCHANGED <<now, row, passwords, sess, codes, tries, kept, guesses, resets>>

(* Linking drops the password, which anybody may have chosen.              *)
LinkExistingAccount(r) ==
    /\ At(r, "link")
    /\ row' = IF Exists THEN [row EXCEPT !.pw = 0, !.google = TRUE] ELSE row
    /\ kept' = [kept EXCEPT !.google = TRUE]
    /\ req' = [Outdated(req, r) EXCEPT ![r].step = "endSessions",
                                    ![r].user = [@ EXCEPT !.pw = 0, !.google = TRUE]]
    /\ UNCHANGED <<now, passwords, sess, codes, tries, guesses, resets>>

(* A fault: a sign-in does not bring a hidden account back.                *)
IssueOnly(r) ==
    /\ At(r, "reactivate")
    /\ Goto(r, "issue")
    /\ UNCHANGED <<now, row, passwords, sess, codes, tries, kept, guesses, resets>>

(* Every sign-in ends alike: an account that was read as hidden is shown   *)
(* again, and a session starts.                                            *)
Reactivate(r) ==
    /\ At(r, "reactivate")
    /\ row' = IF req[r].user.state = "hidden" /\ Exists
              THEN [row EXCEPT !.state = "active"] ELSE row
    /\ Goto(r, "issue")
    /\ UNCHANGED <<now, passwords, sess, codes, tries, kept, guesses, resets>>

(* A token of an account that is gone is refused by the foreign key.       *)
IssueToken(r) ==
    /\ At(r, "issue")
    /\ IF Exists
       THEN \E s \in {t \in Sids : sess[t].state = "free"} :
              sess' = [sess EXCEPT ![s] = [@ EXCEPT !.state = "live",
                                                    !.pw = req[r].user.pw,
                                                    !.late = req[r].late]]
       ELSE UNCHANGED sess
    /\ Goto(r, IF req[r].op = "login" /\ Exists THEN "clear" ELSE "done")
    /\ UNCHANGED <<now, row, passwords, codes, tries, kept, guesses, resets>>

(* Only failures count: success forgets the attempts.                      *)
ClearTries(r) ==
    /\ At(r, "clear")
    /\ tries' = [tries EXCEPT ![IF req[r].op = "login" THEN "login" ELSE "identityProof"] =
                   [used |-> 0, since |-> 0]]
    /\ Goto(r, "done")
    /\ UNCHANGED <<now, row, passwords, sess, codes, kept, guesses, resets>>

SignInNext(r) ==
    \/ Register(r) \/ InsertUser(r)
    \/ \E p \in 1..passwords : Login(r, p)
    \/ FindByIdentifier(r)
    \/ \E trusted \in BOOLEAN : FirebaseLogin(r, trusted)
    \/ LinkExistingAccount(r) \/ Reactivate(r) \/ IssueToken(r) \/ ClearTries(r)

(* A device exchanges its refresh token: the old one is revoked first.     *)
(* Bound: only beside a request that will end the sessions.                *)
BeginRenewal(s) ==
    /\ sess[s].state = "live"
    /\ Mixed("renew")
    /\ \E r \in Requests : req[r] # None /\ req[r].step \in {"write", "link", "endSessions"}
    /\ sess' = [sess EXCEPT ![s].state = "renewing"]
    /\ UNCHANGED <<now, row, passwords, codes, tries, kept, req, guesses, resets>>

(* The new one is inserted for any account that is there: nobody looks     *)
(* whether the sessions were ended since.  It may never come to that.      *)
FinishRenewal(s) ==
    /\ sess[s].state = "renewing"
    /\ sess' = [sess EXCEPT ![s].state = IF Exists THEN "live" ELSE "ended"]
    /\ UNCHANGED <<now, row, passwords, codes, tries, kept, req, guesses, resets>>

-----------------------------------------------------------------------------
(* What the owner does while signed in.                                    *)

(* Behind the access token: tries are limited, then the caller's device    *)
(* must be established, except to create a password.                       *)
AccountRequest(r, op, s, p) ==
    /\ Free(r, op)
    /\ sess[s].state \in SignedIn
    /\ tries' = Consumed(tries, "identityProof")
    /\ req' = [req EXCEPT ![r] =
                 [Sent(op, IF ~Allowed(tries, "identityProof") THEN "done"
                           ELSE IF op = "create" THEN "verify" ELSE "require")
                    EXCEPT !.caller = s, !.typed = p]]
    /\ UNCHANGED <<now, row, passwords, sess, codes, kept, guesses, resets>>

Require(r) ==
    /\ At(r, "require")
    /\ Goto(r, IF sess[req[r].caller].state = "live" /\ sess[req[r].caller].old
               THEN "verify" ELSE "done")
    /\ UNCHANGED <<now, row, passwords, sess, codes, tries, kept, guesses, resets>>

(* The password again, or a fresh Google sign-in (typed = 0).              *)
Proven(u, op, p) ==
    /\ u.state \in {"active", "hidden"}
    /\ IF p = 0 THEN u.google /\ op \in {"create", "deactivate", "delete"}
       ELSE u.pw = p /\ op # "create"

Verify(r) ==
    /\ At(r, "verify")
    /\ IF Proven(row, req[r].op, req[r].typed) /\ ~(req[r].op = "addEmail" /\ row.email)
       THEN Read(r, "write") ELSE Goto(r, "done")
    /\ UNCHANGED <<now, row, passwords, sess, codes, tries, kept, guesses, resets>>

(* The update each operation makes to the row.                             *)
Patched(op) ==
    CASE op \in {"change", "create", "reset"} -> [row EXCEPT !.pw = passwords + 1]
      [] op = "addEmail" -> [row EXCEPT !.email = TRUE]
      [] op \in {"deactivate", "delete"} -> [row EXCEPT !.state = "hidden"]

(* A fault: a change of password leaves the other devices signed in.       *)
AfterWriteOthersStay(op) ==
    CASE op \in {"create", "addEmail", "change"} -> "clear"
      [] op = "delete" -> "erase"
      [] OTHER -> "endSessions"

AfterWrite(op) ==
    CASE op \in {"create", "addEmail"} -> "clear"
      [] op = "delete" -> "erase"
      [] OTHER -> "endSessions"

WriteUser(r) ==
    /\ At(r, "write")
    /\ LET op == req[r].op
           sets == op \in {"change", "create", "reset"}
       IN  /\ row' = IF Exists THEN Patched(op) ELSE row
           /\ passwords' = IF sets THEN passwords + 1 ELSE passwords
           /\ sess' = CASE op = "create" -> Spared(sess, Sids)
                        [] op = "change" -> Spared(sess, {req[r].caller})
                        [] OTHER -> sess
           /\ resets' = IF op = "reset" THEN [resets EXCEPT ![req[r].code] = @ + 1]
                        ELSE resets
           /\ req' = [IF op = "addEmail" THEN req ELSE Outdated(req, r)
                        EXCEPT ![r].step = AfterWrite(op), ![r].typed = 0]
    /\ UNCHANGED <<now, codes, tries, kept, guesses>>

EndAllSessions(r) ==
    /\ At(r, "endSessions")
    /\ sess' = Ended(sess, IF req[r].op = "change" THEN req[r].caller ELSE None)
    /\ Goto(r, CASE req[r].op = "google" -> "reactivate"
                 [] req[r].op = "delete" -> "deleteGoogle"
                 [] req[r].op = "reset" -> "done"
                 [] OTHER -> "clear")
    /\ UNCHANGED <<now, row, passwords, codes, tries, kept, guesses, resets>>

OwnerRequests(r) ==
    \/ \E op \in {"change", "create", "addEmail", "deactivate", "delete"},
          s \in Sids, p \in 0..passwords : AccountRequest(r, op, s, p)
    \/ Require(r) \/ Verify(r) \/ WriteUser(r) \/ EndAllSessions(r)

-----------------------------------------------------------------------------
(* Deletion: hidden, files, sessions, Google record, codes, row.           *)

(* A fault: files that were not erased do not stop the deletion.           *)
EraseFilesAnyway(r) ==
    /\ At(r, "erase")
    /\ \E confirmed \in BOOLEAN :
         kept' = IF confirmed THEN [kept EXCEPT !.files = FALSE] ELSE kept
    /\ Goto(r, "endSessions")
    /\ UNCHANGED <<now, row, passwords, sess, codes, tries, guesses, resets>>

(* The user service confirms that every file is gone, or the account is    *)
(* put back as it was read.                                                *)
EraseFiles(r) ==
    /\ At(r, "erase")
    /\ \E confirmed \in BOOLEAN :
         /\ kept' = IF confirmed THEN [kept EXCEPT !.files = FALSE] ELSE kept
         /\ Goto(r, IF confirmed THEN "endSessions" ELSE "putBack")
    /\ UNCHANGED <<now, row, passwords, sess, codes, tries, guesses, resets>>

PutBack(r) ==
    /\ At(r, "putBack")
    /\ row' = IF Exists THEN [row EXCEPT !.state = req[r].user.state] ELSE row
    /\ sess' = IF req[r].user.state = "hidden" THEN Spared(sess, Sids) ELSE sess
    /\ req' = [Outdated(req, r) EXCEPT ![r] = Sent("delete", "done")]
    /\ UNCHANGED <<now, passwords, codes, tries, kept, guesses, resets>>

DeleteGoogle(r) ==
    /\ At(r, "deleteGoogle")
    /\ kept' = IF req[r].user.google THEN [kept EXCEPT !.google = FALSE] ELSE kept
    /\ Goto(r, "deleteCodes")
    /\ UNCHANGED <<now, row, passwords, sess, codes, tries, guesses, resets>>

DeleteCodes(r) ==
    /\ At(r, "deleteCodes")
    /\ codes' = IF req[r].user.email
                THEN [c \in Codes |-> [codes[c] EXCEPT !.used = TRUE]] ELSE codes
    /\ Goto(r, "deleteRow")
    /\ UNCHANGED <<now, row, passwords, sess, tries, kept, guesses, resets>>

(* The database deletes the sessions with the row.                         *)
DeleteRow(r) ==
    /\ At(r, "deleteRow")
    /\ row' = [row EXCEPT !.state = "gone"]
    /\ sess' = Ended(sess, None)
    /\ Goto(r, "clear")
    /\ UNCHANGED <<now, passwords, codes, tries, kept, guesses, resets>>

Deletion(r) ==
    EraseFiles(r) \/ PutBack(r) \/ DeleteGoogle(r) \/ DeleteCodes(r) \/ DeleteRow(r)

-----------------------------------------------------------------------------
(* Forgotten passwords.                                                    *)

(* The reply is the same for every address; the code is issued after it.   *)
ForgotPassword(r) ==
    /\ Free(r, "forgot")
    /\ tries' = Consumed(tries, "resetCooldown")
    /\ req' = [req EXCEPT ![r] =
                 Sent("forgot", IF Allowed(tries, "resetCooldown") /\ Exists /\ row.email
                                THEN "invalidate" ELSE "done")]
    /\ UNCHANGED <<now, row, passwords, sess, codes, kept, guesses, resets>>

InvalidateAllFor(r) ==
    /\ At(r, "invalidate")
    /\ codes' = [c \in Codes |-> IF codes[c].issued THEN [codes[c] EXCEPT !.used = TRUE]
                                 ELSE codes[c]]
    /\ Goto(r, "store")
    /\ UNCHANGED <<now, row, passwords, sess, tries, kept, guesses, resets>>

CreateOtp(r) ==
    /\ At(r, "store")
    /\ \E c \in Codes :
         /\ ~codes[c].issued
         /\ \A d \in 1..(c - 1) : codes[d].issued
         /\ codes' = [codes EXCEPT ![c] = [issued |-> TRUE, used |-> FALSE,
                                           until |-> now + CodeTTL, mailed |-> FALSE]]
         /\ req' = [req EXCEPT ![r].step = "mail", ![r].code = c]
    /\ UNCHANGED <<now, row, passwords, sess, tries, kept, guesses, resets>>

(* Brevo, then Resend, then SMTP: the first that is set up and takes the   *)
(* mail.  Whatever becomes of it, the code stays.                          *)
Delivered(takes) == "Brevo" \in takes \/ "Resend" \in takes \/ "SMTP" \in takes

SendOtp(r) ==
    /\ At(r, "mail")
    /\ \E takes \in SUBSET {"Brevo", "Resend", "SMTP"} :
         codes' = [codes EXCEPT ![req[r].code].mailed = Delivered(takes)]
    /\ Goto(r, "done")
    /\ UNCHANGED <<now, row, passwords, sess, tries, kept, guesses, resets>>

(* Somebody types a code that was mailed, or a wrong one (0).              *)
TypeCode(r, op, c) ==
    /\ Free(r, op)
    /\ tries' = CountOtpAttempt(tries)
    /\ req' = [req EXCEPT ![r] = [Sent(op, IF OtpAllowed(tries) THEN "match" ELSE "done")
                                    EXCEPT !.typed = c]]
    /\ UNCHANGED <<now, row, passwords, sess, codes, kept, guesses, resets>>

ActiveCodes == {c \in Codes : codes[c].issued /\ ~codes[c].used /\ codes[c].until >= now}

(* findLatestActive, then the comparison                                   *)
FindMatchingOtp(r) ==
    /\ At(r, "match")
    /\ IF ActiveCodes = {}
       THEN /\ Goto(r, "done")
            /\ UNCHANGED guesses
       ELSE LET newest == Max(ActiveCodes)
            IN  /\ guesses' = [guesses EXCEPT ![newest] = @ + 1]
                /\ IF req[r].typed = newest /\ req[r].op = "reset"
                   THEN req' = [req EXCEPT ![r].step = "claim", ![r].code = newest]
                   ELSE Goto(r, "done")
    /\ UNCHANGED <<now, row, passwords, sess, codes, tries, kept, resets>>

(* A fault: whether the code was still unused is not looked at.            *)
ClaimOtpUnchecked(r) ==
    /\ At(r, "claim")
    /\ codes' = [codes EXCEPT ![req[r].code].used = TRUE]
    /\ Goto(r, IF Exists /\ row.email THEN "write" ELSE "done")
    /\ UNCHANGED <<now, row, passwords, sess, tries, kept, guesses, resets>>

(* Used up in one conditional update, before the password changes.         *)
ClaimOtp(r) ==
    /\ At(r, "claim")
    /\ IF Exists /\ row.email /\ ~codes[req[r].code].used
       THEN /\ codes' = [codes EXCEPT ![req[r].code].used = TRUE]
            /\ Goto(r, "write")
       ELSE /\ Goto(r, "done")
            /\ UNCHANGED codes
    /\ UNCHANGED <<now, row, passwords, sess, tries, kept, guesses, resets>>

PasswordReset(r) ==
    \/ ForgotPassword(r) \/ InvalidateAllFor(r) \/ CreateOtp(r) \/ SendOtp(r)
    \/ \E op \in {"verifyOtp", "reset"}, c \in {0} \cup {d \in Codes : codes[d].mailed} :
         TypeCode(r, op, c)
    \/ FindMatchingOtp(r) \/ ClaimOtp(r)

-----------------------------------------------------------------------------
(* A call fails, or the instance goes down: the request stops where it is. *)
Stop(r) ==
    /\ req[r] # None
    /\ req[r].step \in {"write", "endSessions", "deleteGoogle", "deleteRow"}
    /\ ~req[r].dead
    /\ req' = [req EXCEPT ![r] = [Sent(@.op, @.step) EXCEPT !.dead = TRUE]]
    /\ UNCHANGED <<now, row, passwords, sess, codes, tries, kept, guesses, resets>>

(* Time matters once codes are asked for and typed.  A code is compared    *)
(* within five minutes of the attempt that was counted for it.             *)
Tick ==
    /\ now < MaxTime
    /\ \A r \in Requests : ~At(r, "match")
    /\ \E r \in Requests : req[r] # None /\ req[r].op \in {"forgot", "verifyOtp", "reset"}
    /\ now' = now + 1
    /\ UNCHANGED <<row, passwords, sess, codes, tries, kept, req, guesses, resets>>

Next == \/ \E r \in Requests : \/ SignInNext(r) \/ OwnerRequests(r) \/ Deletion(r)
                               \/ PasswordReset(r) \/ Stop(r)
        \/ \E s \in Sids : BeginRenewal(s) \/ FinishRenewal(s)
        \/ Tick

Spec == Init /\ [][Next]_vars

-----------------------------------------------------------------------------
(* Properties.                                                             *)

Underway(ops, steps) ==
    \E r \in Requests : req[r] # None /\ req[r].op \in ops /\ req[r].step \in steps

(* A code sets one password, also when two resets send it at once: it is   *)
(* claimed in one conditional update (password-reset.service.ts).          *)
OneResetPerCode == \A c \in Codes : resets[c] <= 1

(* Signed in, and none of those who are left signed in by a sign-out: a    *)
(* sign-in that had read the row before it was written (late), a session   *)
(* that was between its old refresh token and its new one when the         *)
(* sessions were ended (missed), and a device that the change of password, *)
(* its creation or the undo of a deletion spares (spared).                 *)
LeftIn(s) ==
    /\ sess[s].state \in SignedIn
    /\ ~sess[s].late /\ ~sess[s].missed /\ ~sess[s].spared

(* Who signed in with a password that has been changed, reset or dropped   *)
(* by linking since is signed out, once the request that did it has ended  *)
(* the sessions, but for those LeftIn excepts.                             *)
OldPasswordIsOut ==
    \A s \in Sids :
        LeftIn(s) /\ sess[s].pw # 0 /\ sess[s].pw # row.pw =>
            Underway({"change", "reset", "google"}, {"endSessions"})

(* A hidden account has nobody signed in, but for those LeftIn excepts,    *)
(* once the deactivation or deletion has ended the sessions.               *)
HiddenIsSignedOut ==
    row.state = "hidden" =>
        \A s \in Sids :
            LeftIn(s) => Underway({"deactivate", "delete"}, {"erase", "putBack", "endSessions"})

(* "Every other device is signed out: whoever else knew the old password   *)
(* is gone" (account.service.ts): refuted by a device that renews its      *)
(* session meanwhile, and goes on renewing it.                             *)
EveryOldPasswordIsOut ==
    \A s \in Sids :
        /\ sess[s].state = "live" /\ sess[s].pw # 0 /\ sess[s].pw # row.pw
        /\ ~sess[s].late /\ ~sess[s].spared
        => Underway({"change", "reset", "google"}, {"endSessions"})

(* "No row is deleted yet: show the account again so its owner can retry"  *)
(* (account.service.ts): deletions that all failed leave it shown.         *)
FailedDeletionShowsAgain ==
    /\ \A r \in Requests : req[r] # None => req[r].op = "delete" /\ req[r].step = "done"
    /\ kept.files
    => row.state # "hidden"

(* A row is deleted only after its files: a deletion that fails half-way   *)
(* leaves an account, never files of nobody (AccountService.delete).       *)
NoFilesOfNobody == row.state = "gone" => ~kept.files

(* Whoever hides the account leaves nobody signed in, but those excepted   *)
(* above, and whoever deletes it no files.                                 *)
LeavingIsComplete == HiddenIsSignedOut /\ NoFilesOfNobody

(* Codes are tried at most twice the window's allowance: a code lives      *)
(* shorter than a window, so it sees at most two (attempt-limiter.ts).     *)
FewGuessesPerCode == \A c \in Codes : guesses[c] <= 2 * Points["otp"]

(* A code sent by email is worth one password and a few guesses.           *)
CodesHold == OneResetPerCode /\ FewGuessesPerCode

=============================================================================
