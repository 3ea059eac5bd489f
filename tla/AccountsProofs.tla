--------------------------- MODULE AccountsProofs ---------------------------
(***************************************************************************)
(* Proofs about Accounts for any number of requests, sessions and codes,   *)
(* any limits and times to live, and any operations sent together.         *)
(***************************************************************************)
EXTENDS Accounts, FiniteSetTheorems, WellFoundedInduction, TLAPS

(* The newest of some codes is one of them.                                *)
LEMMA NewestIsOne ==
    ASSUME NEW S \in SUBSET Codes, S # {}
    PROVE  Max(S) \in S
<1>0. MaxCodes \in Nat /\ \A c \in S : c \in Int /\ 1 <= c /\ c <= MaxCodes
  BY AccountsAssumption DEF Codes
<1> DEFINE R == OpToRel(<, Nat)
           T == {MaxCodes - c : c \in S}
<1>1. T \subseteq Nat /\ T # {}
  <2>1. \A c \in S : MaxCodes - c \in Nat
    BY <1>0
  <2>2. PICK c \in S : TRUE
    OBVIOUS
  <2>3. MaxCodes - c \in T
    OBVIOUS
  <2> QED
    BY <2>1, <2>3
<1>2. PICK x \in T : \A y \in T : <<y, x>> \notin R
  <2> HIDE DEF R, T
  <2> QED
    BY <1>1, NatLessThanWellFounded, WFMin DEF R
<1>3. PICK c \in S : x = MaxCodes - c
  BY <1>2
<1>4. ASSUME NEW d \in S
      PROVE  c >= d
  <2>1. MaxCodes - d \in T /\ MaxCodes - d \in Nat /\ x \in Nat
    BY <1>1
  <2>2. ~(MaxCodes - d < x)
    BY <1>2, <2>1 DEF OpToRel
  <2> QED
    BY <1>0, <1>3, <2>2
<1>5. \E k \in S : \A d \in S : k >= d
  BY <1>4
<1> QED
  BY <1>5 DEF Max

-----------------------------------------------------------------------------
OwnerOps == {"change", "create", "addEmail", "deactivate", "delete"}

(* Which operations take which steps, and what they carry by then.         *)
ShapeOf(q) ==
    /\ q.step = "find" => q.op = "login"
    /\ q.step = "insertUser" => q.op \in {"register", "google"}
    /\ q.step = "link" => q.op = "google"
    /\ q.step \in {"reactivate", "issue"} => q.op \in {"login", "google"}
    /\ q.step \in {"require", "verify"} => q.op \in OwnerOps
    /\ q.step = "write" => q.op \in OwnerOps \cup {"reset"}
    /\ q.step = "endSessions" =>
         q.op \in {"google", "change", "reset", "deactivate", "delete"}
    /\ q.step \in {"erase", "putBack", "deleteGoogle", "deleteCodes", "deleteRow"} =>
         q.op = "delete"
    /\ q.step = "claim" => q.op = "reset"
    /\ q.dead => q.step \in {"write", "endSessions", "deleteGoogle", "deleteRow"}
    /\ ~q.dead =>
         /\ q.op \in OwnerOps /\ q.step \in {"require", "verify", "write"}
              => q.caller \in Sids
         /\ q.op = "change" /\ q.step = "endSessions" => q.caller \in Sids
         /\ q.step \in {"claim", "mail"} => q.code \in Codes
         /\ q.op = "reset" /\ q.step = "write" => q.code \in Codes
         /\ \/ q.step \in {"link", "reactivate", "issue", "erase", "putBack"}
            \/ q.op \in OwnerOps /\ q.step = "write"
            \/ q.op = "google" /\ q.step = "endSessions"
            => q.user.state \in {"active", "hidden"}

Shape == \A r \in Requests : req[r] # None => ShapeOf(req[r])

LEMMA SentIs ==
    ASSUME NEW op \in Ops, NEW step \in Steps
    PROVE  /\ Sent(op, step) \in Request
           /\ Sent(op, step).op = op /\ Sent(op, step).step = step
           /\ ~Sent(op, step).dead /\ ~Sent(op, step).late
           /\ Sent(op, step).user = NoUser /\ Sent(op, step).code = 0
           /\ Sent(op, step).caller = None
BY AccountsAssumption DEF Sent, Request, NoUser, UserRecord, Codes

(* One request changes.                                                    *)
LEMMA ReplaceOne ==
    ASSUME TypeOK, Shape, NEW r \in Requests, NEW new \in Request, ShapeOf(new),
           req' = [req EXCEPT ![r] = new]
    PROVE  req' \in [Requests -> Request \cup {None}] /\ Shape'
BY DEF TypeOK, Shape

(* The row is written by r: others that read it turn late, and no more.    *)
Same(p, q) == /\ p.op = q.op /\ p.step = q.step /\ p.dead = q.dead
              /\ p.caller = q.caller /\ p.typed = q.typed /\ p.user = q.user
              /\ p.code = q.code

LEMMA OutdatedIs ==
    ASSUME TypeOK, NEW r \in Requests
    PROVE  /\ Outdated(req, r) \in [Requests -> Request \cup {None}]
           /\ Outdated(req, r)[r] = req[r]
           /\ \A q \in Requests :
                /\ Outdated(req, r)[q] = None <=> req[q] = None
                /\ req[q] # None =>
                     /\ Same(Outdated(req, r)[q], req[q])
                     /\ req[q].late => Outdated(req, r)[q].late
                     /\ /\ q # r /\ req[q].op \in {"login", "google"}
                        /\ req[q].step \notin {"find", "clear", "done"}
                        => Outdated(req, r)[q].late
<1> SUFFICES ASSUME NEW q \in Requests
             PROVE  LET o == Outdated(req, r)[q] IN
                /\ o \in Request \cup {None}
                /\ q = r => o = req[r]
                /\ o = None <=> req[q] = None
                /\ req[q] # None =>
                     /\ Same(o, req[q])
                     /\ req[q].late => o.late
                     /\ /\ q # r /\ req[q].op \in {"login", "google"}
                        /\ req[q].step \notin {"find", "clear", "done"}
                        => o.late
  BY DEF Outdated
<1>1. CASE req[q] = None
  BY <1>1 DEF Outdated
<1>2. CASE req[q] # None
  <2>1. req[q] \in Request
    BY <1>2 DEF TypeOK
  <2> DEFINE o == Outdated(req, r)[q]
  <2>2. o = req[q] \/ o = [req[q] EXCEPT !.late = TRUE]
    BY DEF Outdated
  <2>3. /\ q # r /\ req[q].op \in {"login", "google"}
        /\ req[q].step \notin {"find", "clear", "done"}
        => o = [req[q] EXCEPT !.late = TRUE]
    BY <1>2 DEF Outdated
  <2>4. q = r => o = req[r]
    BY DEF Outdated
  <2> HIDE DEF o
  <2>5. o \in Request /\ Same(o, req[q])
    BY <2>1, <2>2 DEF Request, Same
  <2>6. o = [req[q] EXCEPT !.late = TRUE] => o.late
    BY <2>1 DEF Request
  <2>7. o # None
    BY <2>5, NoneIsNoRequest
  <2> QED
    BY <1>2, <2>2, <2>3, <2>4, <2>5, <2>6, <2>7 DEF o
<1> QED
  BY <1>1, <1>2

(* A request takes its next step; what it carried is dropped at the end.   *)
LEMMA GotoIs ==
    ASSUME TypeOK, NEW r \in Requests, req[r] # None, ~req[r].dead,
           NEW step \in Steps, Goto(r, step)
    PROVE  \E new \in Request :
              /\ req' = [req EXCEPT ![r] = new]
              /\ new.op = req[r].op /\ new.step = step /\ ~new.dead
              /\ IF step \in {"clear", "done"} THEN ~new.late
                 ELSE /\ new.caller = req[r].caller /\ new.user = req[r].user
                      /\ new.code = req[r].code /\ new.late = req[r].late
<1>1. req[r] \in Request /\ req[r].op \in Ops
  BY DEF TypeOK, Request
<1> DEFINE new == IF step \in {"clear", "done"} THEN Sent(req[r].op, step)
                  ELSE [req[r] EXCEPT !.step = step]
<1>2. req' = [req EXCEPT ![r] = new]
  BY DEF Goto
<1>3. CASE step \in {"clear", "done"}
  BY <1>1, <1>2, <1>3, SentIs
<1>4. CASE step \notin {"clear", "done"}
  <2> DEFINE after == [req[r] EXCEPT !.step = step]
  <2>1. /\ after \in Request
        /\ after.op = req[r].op /\ after.step = step
        /\ ~after.dead /\ after.caller = req[r].caller
        /\ after.user = req[r].user /\ after.code = req[r].code
        /\ after.late = req[r].late
    BY <1>1 DEF Request
  <2>2. req' = [req EXCEPT ![r] = after]
    BY <1>2, <1>4
  <2> HIDE DEF after
  <2> QED
    BY <1>4, <2>1, <2>2
<1> QED
  BY <1>3, <1>4

(* Such a step keeps the shape if the next step is one of its operation's  *)
(* and needs nothing that the request does not carry.                      *)
LEMMA GotoKeeps ==
    ASSUME TypeOK, Shape, NEW r \in Requests, req[r] # None, ~req[r].dead,
           NEW step \in Steps, Goto(r, step),
           \A new : /\ new.op = req[r].op /\ new.step = step /\ ~new.dead
                    /\ step \notin {"clear", "done"} =>
                         /\ new.caller = req[r].caller /\ new.user = req[r].user
                         /\ new.code = req[r].code
                    => ShapeOf(new)
    PROVE  req' \in [Requests -> Request \cup {None}] /\ Shape'
BY GotoIs, ReplaceOne

LEMMA OutdatedKeeps ==
    ASSUME TypeOK, Shape, NEW r \in Requests, NEW new \in Request, ShapeOf(new),
           req' = [Outdated(req, r) EXCEPT ![r] = new]
    PROVE  req' \in [Requests -> Request \cup {None}] /\ Shape'
<1>1. req' \in [Requests -> Request \cup {None}]
  BY OutdatedIs
<1>2. ASSUME NEW q \in Requests, req'[q] # None
      PROVE  ShapeOf(req'[q])
  <2>1. CASE q = r
    BY <2>1, OutdatedIs
  <2>2. CASE q # r
    <3>1. req[q] # None /\ Same(req'[q], req[q])
      BY <1>2, <2>2, OutdatedIs
    <3>2. ShapeOf(req[q])
      BY <3>1 DEF Shape
    <3> QED
      BY <3>1, <3>2 DEF Same, ShapeOf
  <2> QED
    BY <2>1, <2>2
<1> QED
  BY <1>1, <1>2 DEF Shape

LEMMA EndedType ==
    ASSUME NEW S \in [Sids -> Session], NEW but
    PROVE  Ended(S, but) \in [Sids -> Session]
BY DEF Ended, Session

LEMMA SparedType ==
    ASSUME NEW S \in [Sids -> Session], NEW who
    PROVE  Spared(S, who) \in [Sids -> Session]
BY DEF Spared, Session

LEMMA ConsumedType ==
    ASSUME now \in Nat, NEW t \in [Limiters -> [used : Nat, since : Nat]], NEW l \in Limiters
    PROVE  Consumed(t, l) \in [Limiters -> [used : Nat, since : Nat]]
BY DEF Consumed

LEMMA CountOtpAttemptType ==
    ASSUME now \in Nat, NEW t \in [Limiters -> [used : Nat, since : Nat]]
    PROVE  CountOtpAttempt(t) \in [Limiters -> [used : Nat, since : Nat]]
<1>1. {"otp", "otpPerDay"} \subseteq Limiters
  BY DEF Limiters
<1> QED
  BY <1>1, ConsumedType DEF CountOtpAttempt

-----------------------------------------------------------------------------
TypedStep == TypeOK' /\ Shape'

LEMMA SignInTyped ==
    ASSUME TypeOK, Shape, NEW r \in Requests, SignInNext(r)
    PROVE  TypedStep
<1> USE DEF TypeOK
<1>0. {"login", "resetCooldown", "identityProof"} \subseteq Limiters
  BY DEF Limiters
<1>a. /\ {"insertUser", "link", "reactivate", "issue", "clear", "done", "find", "endSessions"} \subseteq Steps
      /\ {"register", "login", "google"} \subseteq Ops
  BY DEF Steps, Ops
<1>r. row \in UserRecord
  OBVIOUS
<1>b. ASSUME req' \in [Requests -> Request \cup {None}], Shape'
      PROVE  \A q \in Requests : req'[q] # None /\ req'[q].step \in {"putBack", "issue"} =>
                req'[q].user.state \in {"active", "hidden"}
  BY <1>b DEF Shape, ShapeOf
<1>1. CASE Register(r)
  <2> DEFINE step == IF row = NoUser THEN "insertUser" ELSE "done"
             new == Sent("register", step)
  <2>2. req' = [req EXCEPT ![r] = new] /\ step \in {"insertUser", "done"}
    BY <1>1 DEF Register
  <2> HIDE DEF step
  <2>1. new \in Request /\ new.op = "register" /\ new.step = step /\ ~new.dead
    BY <1>a, <2>2, SentIs
  <2> HIDE DEF new
  <2>3. ShapeOf(new)
    BY <2>1, <2>2 DEF ShapeOf, OwnerOps
  <2>4. req' \in [Requests -> Request \cup {None}] /\ Shape'
    BY <2>1, <2>2, <2>3, ReplaceOne
  <2> QED
    BY <1>1, <1>b, <2>4 DEF Register, TypedStep
<1>2. CASE InsertUser(r)
  <2>0. req[r] # None /\ req[r] \in Request /\ req[r].step = "insertUser" /\ ~req[r].dead
    BY <1>2 DEF InsertUser, At
  <2>1. req[r].op \in {"register", "google"}
    BY <2>0 DEF Shape, ShapeOf
  <2> DEFINE born == [state |-> "active", pw |-> IF req[r].op = "google" THEN 0 ELSE 1,
                      google |-> req[r].op = "google", email |-> TRUE]
  <2>2. born \in UserRecord /\ born.state = "active"
    BY DEF UserRecord
  <2>3. row' = row \/ row' = born
    BY <1>2 DEF InsertUser
  <2>4. CASE Goto(r, "done")
    <3>1. \A new : new.op = req[r].op /\ new.step = "done" /\ ~new.dead => ShapeOf(new)
      BY <2>1 DEF ShapeOf, OwnerOps
    <3>2. req' \in [Requests -> Request \cup {None}] /\ Shape'
      BY <1>a, <2>0, <2>4, <3>1, GotoKeeps
    <3>3. row' \in UserRecord
      BY <2>2, <2>3
    <3> QED
      BY <1>2, <1>b, <3>2, <3>3 DEF InsertUser, TypedStep
  <2>5. CASE ~Goto(r, "done")
    <3>1. row' = born /\ req[r].op = "google" /\ req' = [req EXCEPT ![r].step = "reactivate", ![r].user = row']
      BY <1>2, <2>1, <2>5 DEF InsertUser
    <3> HIDE DEF born
    <3> DEFINE new == [req[r] EXCEPT !.step = "reactivate", !.user = born]
    <3>2. new \in Request /\ new.op = "google" /\ new.step = "reactivate" /\ ~new.dead
            /\ new.user.state = "active"
      BY <1>a, <2>0, <2>2, <3>1 DEF Request
    <3>3. req' = [req EXCEPT ![r] = new]
      BY <3>1
    <3> HIDE DEF new
    <3>4. ShapeOf(new)
      BY <3>2 DEF ShapeOf, OwnerOps
    <3>5. req' \in [Requests -> Request \cup {None}] /\ Shape'
      BY <3>2, <3>3, <3>4, ReplaceOne
    <3> QED
      BY <1>2, <1>b, <2>2, <3>1, <3>5 DEF InsertUser, TypedStep
  <2> QED
    BY <2>4, <2>5
<1>3. ASSUME NEW p \in 1..passwords, Login(r, p)
      PROVE  TypedStep
  <2> DEFINE step == IF Allowed(tries, "login") THEN "find" ELSE "done"
             sent == Sent("login", step)
             new == [sent EXCEPT !.typed = p]
  <2>0. p \in Nat /\ step \in {"find", "done"}
    OBVIOUS
  <2>2. req' = [req EXCEPT ![r] = new]
    BY <1>3 DEF Login
  <2> HIDE DEF step
  <2>1. sent \in Request /\ sent.op = "login" /\ sent.step = step /\ ~sent.dead
    <3>1. step \in Steps
      BY <1>a, <2>0
    <3> QED
      BY <1>a, <3>1, SentIs
  <2> HIDE DEF sent
  <2>3. new \in Request /\ new.op = "login" /\ new.step = step /\ ~new.dead
    BY <2>0, <2>1 DEF Request
  <2> HIDE DEF new
  <2>4. ShapeOf(new)
    BY <2>0, <2>3 DEF ShapeOf, OwnerOps
  <2>5. req' \in [Requests -> Request \cup {None}] /\ Shape'
    BY <2>2, <2>3, <2>4, ReplaceOne
  <2>6. tries' \in [Limiters -> [used : Nat, since : Nat]]
    BY <1>0, <1>3, ConsumedType DEF Login
  <2> QED
    BY <1>3, <1>b, <2>5, <2>6 DEF Login, TypedStep
<1>4. CASE FindByIdentifier(r)
  <2>0. req[r] # None /\ req[r] \in Request /\ req[r].op = "login" /\ ~req[r].dead
    BY <1>4 DEF FindByIdentifier, At
  <2>1. CASE Goto(r, "done")
    <3>1. \A new : new.op = "login" /\ new.step = "done" /\ ~new.dead => ShapeOf(new)
      BY DEF ShapeOf, OwnerOps
    <3>2. req' \in [Requests -> Request \cup {None}] /\ Shape'
      BY <1>a, <2>0, <2>1, <3>1, GotoKeeps
    <3> QED
      BY <1>4, <1>b, <3>2 DEF FindByIdentifier, TypedStep
  <2>2. CASE Exists /\ Read(r, "reactivate")
    <3> DEFINE new == [req[r] EXCEPT !.step = "reactivate", !.user = row]
    <3>1. new \in Request /\ new.op = "login" /\ new.step = "reactivate" /\ ~new.dead
            /\ new.user = row
      BY <1>a, <1>r, <2>0 DEF Request
    <3>2. req' = [req EXCEPT ![r] = new]
      BY <2>2 DEF Read
    <3> HIDE DEF new
    <3>3. ShapeOf(new)
      BY <2>2, <3>1 DEF ShapeOf, OwnerOps, Exists
    <3>4. req' \in [Requests -> Request \cup {None}] /\ Shape'
      BY <3>1, <3>2, <3>3, ReplaceOne
    <3> QED
      BY <1>4, <1>b, <3>4 DEF FindByIdentifier, TypedStep
  <2> QED
    BY <1>4, <2>1, <2>2 DEF FindByIdentifier
<1>5. ASSUME NEW trusted \in BOOLEAN, FirebaseLogin(r, trusted)
      PROVE  TypedStep
  <2> DEFINE step == IF Exists /\ row.google THEN "reactivate"
                     ELSE IF Exists /\ trusted THEN "link"
                     ELSE IF row = NoUser THEN "insertUser"
                     ELSE "done"
             sent == Sent("google", step)
             new == [sent EXCEPT !.user = row]
  <2>0. /\ step \in {"reactivate", "link", "insertUser", "done"}
        /\ step \in {"reactivate", "link"} => Exists
    OBVIOUS
  <2>2. req' = [req EXCEPT ![r] = new]
    BY <1>5 DEF FirebaseLogin
  <2> HIDE DEF step
  <2>1. sent \in Request /\ sent.op = "google" /\ sent.step = step /\ ~sent.dead
    <3>1. step \in Steps
      BY <1>a, <2>0
    <3> QED
      BY <1>a, <3>1, SentIs
  <2> HIDE DEF sent
  <2>3. new \in Request /\ new.op = "google" /\ new.step = step /\ ~new.dead
          /\ new.user = row
    BY <1>r, <2>0, <2>1 DEF Request
  <2> HIDE DEF new
  <2>4. ShapeOf(new)
    BY <2>0, <2>3 DEF ShapeOf, OwnerOps, Exists
  <2>5. req' \in [Requests -> Request \cup {None}] /\ Shape'
    BY <2>2, <2>3, <2>4, ReplaceOne
  <2> QED
    BY <1>5, <1>b, <2>5 DEF FirebaseLogin, TypedStep
<1>6. CASE LinkExistingAccount(r)
  <2>0. req[r] # None /\ req[r] \in Request /\ req[r].step = "link" /\ ~req[r].dead
    BY <1>6 DEF LinkExistingAccount, At
  <2>1. req[r].op = "google" /\ req[r].user.state \in {"active", "hidden"}
    BY <2>0 DEF Shape, ShapeOf
  <2>2. row' \in UserRecord
    BY <1>6 DEF LinkExistingAccount, UserRecord
  <2> DEFINE user == [req[r].user EXCEPT !.pw = 0, !.google = TRUE]
             new == [req[r] EXCEPT !.step = "endSessions", !.user = user]
  <2>3. user \in UserRecord /\ user.state = req[r].user.state
    <3>1. req[r].user \in UserRecord
      BY <2>0 DEF Request
    <3> QED
      BY <3>1 DEF UserRecord
  <2>4. req' = [Outdated(req, r) EXCEPT ![r] = new]
    BY <1>6, OutdatedIs DEF LinkExistingAccount
  <2> HIDE DEF user
  <2>5. new \in Request /\ new.op = "google" /\ new.step = "endSessions" /\ ~new.dead
          /\ new.user = user
    BY <1>a, <2>0, <2>1, <2>3 DEF Request
  <2> HIDE DEF new
  <2>6. ShapeOf(new)
    BY <2>1, <2>3, <2>5 DEF ShapeOf, OwnerOps
  <2>7. req' \in [Requests -> Request \cup {None}] /\ Shape'
    BY <2>4, <2>5, <2>6, OutdatedKeeps
  <2> QED
    BY <1>6, <1>b, <2>2, <2>7 DEF LinkExistingAccount, TypedStep
<1>7. CASE Reactivate(r)
  <2>0. req[r] # None /\ req[r].step = "reactivate" /\ ~req[r].dead /\ Goto(r, "issue")
    BY <1>7 DEF Reactivate, At
  <2>1. req[r].op \in {"login", "google"} /\ req[r].user.state \in {"active", "hidden"}
    BY <2>0 DEF Shape, ShapeOf
  <2>2. ASSUME NEW new, new.op = req[r].op, new.step = "issue", ~new.dead,
               new.user = req[r].user
        PROVE  ShapeOf(new)
    BY <2>1, <2>2 DEF ShapeOf, OwnerOps
  <2>3. req' \in [Requests -> Request \cup {None}] /\ Shape'
    BY <1>a, <2>0, <2>2, GotoKeeps
  <2>4. row' \in UserRecord
    BY <1>7 DEF Reactivate, UserRecord
  <2> QED
    BY <1>7, <1>b, <2>3, <2>4 DEF Reactivate, TypedStep
<1>8. CASE IssueToken(r)
  <2>0. req[r] # None /\ req[r] \in Request /\ req[r].step = "issue" /\ ~req[r].dead
    BY <1>8 DEF IssueToken, At
  <2>1. req[r].user.pw \in Nat /\ req[r].late \in BOOLEAN /\ req[r].op \in {"login", "google"}
    BY <2>0 DEF Request, UserRecord, Shape, ShapeOf
  <2>2. sess' \in [Sids -> Session]
    <3>1. CASE UNCHANGED sess
      BY <3>1
    <3>2. ASSUME NEW s \in Sids,
                 sess' = [sess EXCEPT ![s] = [@ EXCEPT !.state = "live",
                                                       !.pw = req[r].user.pw,
                                                       !.late = req[r].late]]
          PROVE  sess' \in [Sids -> Session]
      BY <2>1, <3>2 DEF Session
    <3> QED
      BY <1>8, <3>1, <3>2 DEF IssueToken
  <2>3. PICK step \in {"clear", "done"} : Goto(r, step)
    BY <1>8 DEF IssueToken
  <2>4. \A new : new.op = req[r].op /\ new.step = step /\ ~new.dead => ShapeOf(new)
    BY <2>1, <2>3 DEF ShapeOf, OwnerOps
  <2>5. req' \in [Requests -> Request \cup {None}] /\ Shape'
    BY <1>a, <2>0, <2>3, <2>4, GotoKeeps
  <2> QED
    BY <1>8, <1>b, <2>2, <2>5 DEF IssueToken, TypedStep
<1>9. CASE ClearTries(r)
  <2>0. req[r] # None /\ ~req[r].dead /\ Goto(r, "done") /\ req[r].op \in Ops
    BY <1>9 DEF ClearTries, At, Request
  <2>1. \A new : new.op = req[r].op /\ new.step = "done" /\ ~new.dead => ShapeOf(new)
    BY DEF ShapeOf, OwnerOps
  <2>2. req' \in [Requests -> Request \cup {None}] /\ Shape'
    BY <1>a, <2>0, <2>1, GotoKeeps
  <2>3. tries' \in [Limiters -> [used : Nat, since : Nat]]
    BY <1>9 DEF ClearTries
  <2> QED
    BY <1>9, <1>b, <2>2, <2>3 DEF ClearTries, TypedStep
<1> QED
  BY <1>1, <1>2, <1>3, <1>4, <1>5, <1>6, <1>7, <1>8, <1>9 DEF SignInNext

LEMMA OwnerTyped ==
    ASSUME TypeOK, Shape, NEW r \in Requests, OwnerRequests(r)
    PROVE  TypedStep
<1> USE DEF TypeOK
<1>0. "identityProof" \in Limiters
  BY DEF Limiters
<1>a. /\ {"done", "verify", "require", "write", "clear", "erase", "endSessions",
          "deleteGoogle", "reactivate"} \subseteq Steps
      /\ OwnerOps \subseteq Ops
  BY DEF Steps, Ops, OwnerOps
<1>b. ASSUME req' \in [Requests -> Request \cup {None}], Shape'
      PROVE  \A q \in Requests : req'[q] # None /\ req'[q].step \in {"putBack", "issue"} =>
                req'[q].user.state \in {"active", "hidden"}
  BY <1>b DEF Shape, ShapeOf
<1>1. ASSUME NEW op \in OwnerOps, NEW s \in Sids, NEW p \in 0..passwords,
             AccountRequest(r, op, s, p)
      PROVE  TypedStep
  <2> DEFINE step == IF ~Allowed(tries, "identityProof") THEN "done"
                     ELSE IF op = "create" THEN "verify" ELSE "require"
             sent == Sent(op, step)
             new == [sent EXCEPT !.caller = s, !.typed = p]
  <2>0. p \in Nat /\ step \in {"done", "verify", "require"}
    OBVIOUS
  <2>1. req' = [req EXCEPT ![r] = new]
    BY <1>1 DEF AccountRequest
  <2> HIDE DEF step
  <2>2. sent \in Request /\ sent.op = op /\ sent.step = step /\ ~sent.dead
    <3>1. step \in Steps /\ op \in Ops
      BY <1>a, <2>0
    <3> QED
      BY <3>1, SentIs
  <2> HIDE DEF sent
  <2>3. new \in Request /\ new.op = op /\ new.step = step /\ ~new.dead /\ new.caller = s
    BY <2>0, <2>2 DEF Request
  <2> HIDE DEF new
  <2>4. ShapeOf(new)
    BY <2>0, <2>3 DEF ShapeOf, OwnerOps
  <2>5. req' \in [Requests -> Request \cup {None}] /\ Shape'
    BY <2>1, <2>3, <2>4, ReplaceOne
  <2>6. tries' \in [Limiters -> [used : Nat, since : Nat]]
    BY <1>0, <1>1, ConsumedType DEF AccountRequest
  <2> QED
    BY <1>1, <1>b, <2>5, <2>6 DEF AccountRequest, TypedStep
<1>2. CASE Require(r)
  <2>0. req[r] # None /\ req[r].step = "require" /\ ~req[r].dead
    BY <1>2 DEF Require, At
  <2>1. req[r].op \in OwnerOps /\ req[r].caller \in Sids
    BY <2>0 DEF Shape, ShapeOf
  <2>2. PICK step \in {"verify", "done"} : Goto(r, step)
    BY <1>2 DEF Require
  <2>3. ASSUME NEW new, new.op = req[r].op, new.step = step, ~new.dead,
               step \notin {"clear", "done"} => new.caller = req[r].caller
        PROVE  ShapeOf(new)
    BY <2>1, <2>2, <2>3 DEF ShapeOf, OwnerOps
  <2>4. req' \in [Requests -> Request \cup {None}] /\ Shape'
    BY <1>a, <2>0, <2>2, <2>3, GotoKeeps
  <2> QED
    BY <1>2, <1>b, <2>4 DEF Require, TypedStep
<1>3. CASE Verify(r)
  <2>0. req[r] # None /\ req[r] \in Request /\ req[r].step = "verify" /\ ~req[r].dead
    BY <1>3 DEF Verify, At
  <2>1. req[r].op \in OwnerOps /\ req[r].caller \in Sids
    BY <2>0 DEF Shape, ShapeOf
  <2>2. CASE Goto(r, "done")
    <3>1. ASSUME NEW new, new.op = req[r].op, new.step = "done", ~new.dead
          PROVE  ShapeOf(new)
      BY <2>1, <3>1 DEF ShapeOf, OwnerOps
    <3>2. req' \in [Requests -> Request \cup {None}] /\ Shape'
      BY <1>a, <2>0, <2>2, <3>1, GotoKeeps
    <3> QED
      BY <1>3, <1>b, <3>2 DEF Verify, TypedStep
  <2>3. CASE row.state \in {"active", "hidden"} /\ Read(r, "write")
    <3> DEFINE new == [req[r] EXCEPT !.step = "write", !.user = row]
    <3>1. /\ new \in Request /\ new.op = req[r].op /\ new.step = "write"
          /\ ~new.dead /\ new.user = row /\ new.caller = req[r].caller
      BY <1>a, <2>0 DEF Request
    <3>2. req' = [req EXCEPT ![r] = new]
      BY <2>3 DEF Read
    <3> HIDE DEF new
    <3>3. ShapeOf(new)
      BY <2>1, <2>3, <3>1 DEF ShapeOf, OwnerOps
    <3>4. req' \in [Requests -> Request \cup {None}] /\ Shape'
      BY <3>1, <3>2, <3>3, ReplaceOne
    <3> QED
      BY <1>3, <1>b, <3>4 DEF Verify, TypedStep
  <2> QED
    BY <1>3, <2>2, <2>3 DEF Verify, Proven
<1>4. CASE WriteUser(r)
  <2>0. req[r] # None /\ req[r] \in Request /\ req[r].step = "write" /\ ~req[r].dead
    BY <1>4 DEF WriteUser, At
  <2>1. req[r].op \in OwnerOps \cup {"reset"}
    BY <2>0 DEF Shape, ShapeOf
  <2>2. row' \in UserRecord
    <3>1. Patched(req[r].op) \in UserRecord
      <4>1. /\ [row EXCEPT !.pw = passwords + 1] \in UserRecord
            /\ [row EXCEPT !.email = TRUE] \in UserRecord
            /\ [row EXCEPT !.state = "hidden"] \in UserRecord
        <5>1. row \in UserRecord /\ passwords + 1 \in Nat
          OBVIOUS
        <5>2. [row EXCEPT !.pw = passwords + 1] \in UserRecord
          BY ONLY <5>1 DEF UserRecord
        <5>3. [row EXCEPT !.email = TRUE] \in UserRecord
          BY ONLY <5>1 DEF UserRecord
        <5>4. [row EXCEPT !.state = "hidden"] \in UserRecord
          BY ONLY <5>1 DEF UserRecord
        <5> QED
          BY <5>2, <5>3, <5>4
      <4>2. CASE req[r].op \in {"change", "create", "reset"}
        BY <4>1, <4>2 DEF Patched
      <4>3. CASE req[r].op = "addEmail"
        BY <4>1, <4>3 DEF Patched
      <4>4. CASE req[r].op \in {"deactivate", "delete"}
        BY <4>1, <4>4 DEF Patched
      <4> QED
        BY <2>1, <4>2, <4>3, <4>4 DEF OwnerOps
    <3> QED
      BY <1>4, <3>1 DEF WriteUser
  <2>3. passwords' \in Nat
    BY <1>4 DEF WriteUser
  <2>4. sess' \in [Sids -> Session]
    <3>1. sess' = sess \/ \E who : sess' = Spared(sess, who)
      BY <1>4 DEF WriteUser
    <3> QED
      BY <3>1, SparedType
  <2>5. resets' \in [Codes -> Nat]
    <3>1. resets' = resets \/ \E c : resets' = [resets EXCEPT ![c] = @ + 1]
      BY <1>4 DEF WriteUser
    <3> QED
      BY <3>1
  <2> DEFINE step == AfterWrite(req[r].op)
             new == [req[r] EXCEPT !.step = step, !.typed = 0]
  <2>6. /\ step \in {"clear", "erase", "endSessions"}
        /\ step = "erase" => req[r].op = "delete"
        /\ step = "endSessions" => req[r].op \in {"change", "reset", "deactivate"}
    BY <2>1 DEF AfterWrite, OwnerOps
  <2>7. \/ req' = [req EXCEPT ![r] = new]
        \/ req' = [Outdated(req, r) EXCEPT ![r] = new]
    BY <1>4, OutdatedIs DEF WriteUser
  <2> HIDE DEF step
  <2>8. /\ new \in Request /\ new.op = req[r].op /\ new.step = step /\ ~new.dead
        /\ new.user = req[r].user /\ new.caller = req[r].caller
    BY <1>a, <2>0, <2>6 DEF Request
  <2> HIDE DEF new
  <2>9. ShapeOf(new)
    <3>1. ShapeOf(req[r])
      BY <2>0 DEF Shape
    <3> QED
      BY <2>0, <2>1, <2>6, <2>8, <3>1 DEF ShapeOf, OwnerOps
  <2>10. req' \in [Requests -> Request \cup {None}] /\ Shape'
    BY <2>7, <2>8, <2>9, ReplaceOne, OutdatedKeeps
  <2> QED
    BY <1>4, <1>b, <2>2, <2>3, <2>4, <2>5, <2>10 DEF WriteUser, TypedStep
<1>5. CASE EndAllSessions(r)
  <2>0. req[r] # None /\ req[r].step = "endSessions" /\ ~req[r].dead
    BY <1>5 DEF EndAllSessions, At
  <2>1. ShapeOf(req[r])
    BY <2>0 DEF Shape
  <2>2. PICK step \in {"reactivate", "deleteGoogle", "done", "clear"} :
           /\ Goto(r, step)
           /\ step = "reactivate" => req[r].op = "google"
           /\ step = "deleteGoogle" => req[r].op = "delete"
    BY <1>5 DEF EndAllSessions
  <2>3. ASSUME NEW new, new.op = req[r].op, new.step = step, ~new.dead,
               step \notin {"clear", "done"} => new.user = req[r].user
        PROVE  ShapeOf(new)
    BY <2>0, <2>1, <2>2, <2>3 DEF ShapeOf, OwnerOps
  <2>4. req' \in [Requests -> Request \cup {None}] /\ Shape'
    BY <1>a, <2>0, <2>2, <2>3, GotoKeeps
  <2>5. sess' \in [Sids -> Session]
    BY <1>5, EndedType DEF EndAllSessions
  <2> QED
    BY <1>5, <1>b, <2>4, <2>5 DEF EndAllSessions, TypedStep
<1> QED
  BY <1>1, <1>2, <1>3, <1>4, <1>5 DEF OwnerRequests, OwnerOps

LEMMA DeletionTyped ==
    ASSUME TypeOK, Shape, NEW r \in Requests, Deletion(r)
    PROVE  TypedStep
<1> USE DEF TypeOK
<1>a. /\ {"done", "endSessions", "putBack", "deleteCodes", "deleteRow", "clear"} \subseteq Steps
      /\ "delete" \in Ops
  BY DEF Steps, Ops
<1>b. ASSUME req' \in [Requests -> Request \cup {None}], Shape'
      PROVE  \A q \in Requests : req'[q] # None /\ req'[q].step \in {"putBack", "issue"} =>
                req'[q].user.state \in {"active", "hidden"}
  BY <1>b DEF Shape, ShapeOf
<1>c. ASSUME req[r] # None, ~req[r].dead, req[r].step \in {"erase", "deleteGoogle", "deleteCodes", "deleteRow"},
             NEW step \in {"endSessions", "putBack", "deleteCodes", "deleteRow", "clear"},
             Goto(r, step), step = "putBack" => req[r].step = "erase"
      PROVE  req' \in [Requests -> Request \cup {None}] /\ Shape'
  <2>1. ShapeOf(req[r])
    BY <1>c DEF Shape
  <2>2. ASSUME NEW new, new.op = req[r].op, new.step = step, ~new.dead,
               step \notin {"clear", "done"} => new.user = req[r].user
        PROVE  ShapeOf(new)
    BY <1>c, <2>1, <2>2 DEF ShapeOf, OwnerOps
  <2> QED
    BY <1>a, <1>c, <2>2, GotoKeeps
<1>1. CASE EraseFiles(r)
  <2>1. req' \in [Requests -> Request \cup {None}] /\ Shape'
    BY <1>1, <1>c DEF EraseFiles, At
  <2>2. kept' \in [files : BOOLEAN, google : BOOLEAN]
    BY <1>1 DEF EraseFiles
  <2> QED
    BY <1>1, <1>b, <2>1, <2>2 DEF EraseFiles, TypedStep
<1>2. CASE PutBack(r)
  <2>1. req[r] # None /\ req[r].user.state \in {"active", "hidden"}
    BY <1>2 DEF PutBack, At
  <2>2. row' \in UserRecord
    BY <1>2, <2>1 DEF PutBack, UserRecord
  <2>3. sess' \in [Sids -> Session]
    BY <1>2, SparedType DEF PutBack
  <2> DEFINE new == Sent("delete", "done")
  <2>4. new \in Request /\ new.op = "delete" /\ new.step = "done" /\ ~new.dead
    BY <1>a, SentIs
  <2>5. req' = [Outdated(req, r) EXCEPT ![r] = new]
    BY <1>2 DEF PutBack
  <2> HIDE DEF new
  <2>6. ShapeOf(new)
    BY <2>4 DEF ShapeOf, OwnerOps
  <2>7. req' \in [Requests -> Request \cup {None}] /\ Shape'
    BY <2>4, <2>5, <2>6, OutdatedKeeps
  <2> QED
    BY <1>2, <1>b, <2>2, <2>3, <2>7 DEF PutBack, TypedStep
<1>3. CASE DeleteGoogle(r)
  <2>1. req' \in [Requests -> Request \cup {None}] /\ Shape'
    BY <1>3, <1>c DEF DeleteGoogle, At
  <2>2. kept' \in [files : BOOLEAN, google : BOOLEAN]
    BY <1>3 DEF DeleteGoogle
  <2> QED
    BY <1>3, <1>b, <2>1, <2>2 DEF DeleteGoogle, TypedStep
<1>4. CASE DeleteCodes(r)
  <2>1. req' \in [Requests -> Request \cup {None}] /\ Shape'
    BY <1>4, <1>c DEF DeleteCodes, At
  <2>2. codes' \in [Codes -> Otp]
    BY <1>4 DEF DeleteCodes, Otp
  <2> QED
    BY <1>4, <1>b, <2>1, <2>2 DEF DeleteCodes, TypedStep
<1>5. CASE DeleteRow(r)
  <2>1. req' \in [Requests -> Request \cup {None}] /\ Shape'
    BY <1>5, <1>c DEF DeleteRow, At
  <2>2. row' \in UserRecord /\ sess' \in [Sids -> Session]
    BY <1>5, EndedType DEF DeleteRow, UserRecord
  <2> QED
    BY <1>5, <1>b, <2>1, <2>2 DEF DeleteRow, TypedStep
<1> QED
  BY <1>1, <1>2, <1>3, <1>4, <1>5 DEF Deletion

LEMMA ResetTyped ==
    ASSUME TypeOK, Shape, NEW r \in Requests, PasswordReset(r)
    PROVE  TypedStep
<1> USE DEF TypeOK
<1>0. "resetCooldown" \in Limiters
  BY DEF Limiters
<1>a. /\ {"done", "invalidate", "store", "mail", "match", "claim", "write"} \subseteq Steps
      /\ {"forgot", "verifyOtp", "reset"} \subseteq Ops
  BY DEF Steps, Ops
<1>b. ASSUME req' \in [Requests -> Request \cup {None}], Shape'
      PROVE  \A q \in Requests : req'[q] # None /\ req'[q].step \in {"putBack", "issue"} =>
                req'[q].user.state \in {"active", "hidden"}
  BY <1>b DEF Shape, ShapeOf
<1>c. ASSUME NEW step \in {"done", "store", "mail", "match"}, req[r] # None, ~req[r].dead,
             step \in {"done", "store", "match"}, Goto(r, step)
      PROVE  req' \in [Requests -> Request \cup {None}] /\ Shape'
  <2>1. ASSUME NEW new, new.op = req[r].op, new.step = step, ~new.dead
        PROVE  ShapeOf(new)
    BY <1>c, <2>1 DEF ShapeOf, OwnerOps
  <2> QED
    BY <1>a, <1>c, <2>1, GotoKeeps
<1>d. now \in Nat /\ now + CodeTTL \in Nat
  BY AccountsAssumption
<1>1. CASE ForgotPassword(r)
  <2> DEFINE step == IF Allowed(tries, "resetCooldown") /\ Exists /\ row.email
                     THEN "invalidate" ELSE "done"
             new == Sent("forgot", step)
  <2>1. req' = [req EXCEPT ![r] = new] /\ step \in {"invalidate", "done"}
    BY <1>1 DEF ForgotPassword
  <2> HIDE DEF step
  <2>2. new \in Request /\ new.op = "forgot" /\ new.step = step /\ ~new.dead
    BY <1>a, <2>1, SentIs
  <2> HIDE DEF new
  <2>3. ShapeOf(new)
    BY <2>1, <2>2 DEF ShapeOf, OwnerOps
  <2>4. req' \in [Requests -> Request \cup {None}] /\ Shape'
    BY <2>1, <2>2, <2>3, ReplaceOne
  <2>5. tries' \in [Limiters -> [used : Nat, since : Nat]]
    BY <1>0, <1>1, ConsumedType DEF ForgotPassword
  <2> QED
    BY <1>1, <1>b, <2>4, <2>5 DEF ForgotPassword, TypedStep
<1>2. CASE InvalidateAllFor(r)
  <2>1. req' \in [Requests -> Request \cup {None}] /\ Shape'
    BY <1>2, <1>c DEF InvalidateAllFor, At
  <2>2. codes' \in [Codes -> Otp]
    BY <1>2 DEF InvalidateAllFor, Otp
  <2> QED
    BY <1>2, <1>b, <2>1, <2>2 DEF InvalidateAllFor, TypedStep
<1>3. CASE CreateOtp(r)
  <2>0. req[r] # None /\ req[r] \in Request /\ req[r].step = "store" /\ ~req[r].dead
    BY <1>3 DEF CreateOtp, At
  <2>1. PICK c \in Codes :
           /\ codes' = [codes EXCEPT ![c] = [issued |-> TRUE, used |-> FALSE,
                                             until |-> now + CodeTTL, mailed |-> FALSE]]
           /\ req' = [req EXCEPT ![r].step = "mail", ![r].code = c]
    BY <1>3 DEF CreateOtp
  <2>2. codes' \in [Codes -> Otp]
    BY <1>d, <2>1 DEF Otp
  <2> DEFINE new == [req[r] EXCEPT !.step = "mail", !.code = c]
  <2>3. /\ new \in Request /\ new.op = req[r].op /\ new.step = "mail" /\ ~new.dead
        /\ new.code = c
    BY <1>a, <2>0 DEF Request
  <2>4. req' = [req EXCEPT ![r] = new]
    BY <2>1
  <2> HIDE DEF new
  <2>5. ShapeOf(new)
    BY <2>3 DEF ShapeOf, OwnerOps
  <2>6. req' \in [Requests -> Request \cup {None}] /\ Shape'
    BY <2>3, <2>4, <2>5, ReplaceOne
  <2> QED
    BY <1>3, <1>b, <2>2, <2>6 DEF CreateOtp, TypedStep
<1>4. CASE SendOtp(r)
  <2>1. req' \in [Requests -> Request \cup {None}] /\ Shape'
    BY <1>4, <1>c DEF SendOtp, At
  <2>2. PICK takes : codes' = [codes EXCEPT ![req[r].code].mailed = Delivered(takes)]
    BY <1>4 DEF SendOtp
  <2>3. Delivered(takes) \in BOOLEAN
    BY DEF Delivered
  <2>4. codes' \in [Codes -> Otp]
    BY <2>2, <2>3 DEF Otp
  <2> QED
    BY <1>4, <1>b, <2>1, <2>4 DEF SendOtp, TypedStep
<1>5. ASSUME NEW op \in {"verifyOtp", "reset"},
             NEW c \in {0} \cup {d \in Codes : codes[d].mailed}, TypeCode(r, op, c)
      PROVE  TypedStep
  <2> DEFINE step == IF OtpAllowed(tries) THEN "match" ELSE "done"
             sent == Sent(op, step)
             new == [sent EXCEPT !.typed = c]
  <2>0. c \in Nat /\ step \in {"match", "done"}
    BY DEF Codes
  <2>1. req' = [req EXCEPT ![r] = new]
    BY <1>5 DEF TypeCode
  <2> HIDE DEF step
  <2>2. sent \in Request /\ sent.op = op /\ sent.step = step /\ ~sent.dead
    BY <1>a, <2>0, SentIs
  <2> HIDE DEF sent
  <2>3. new \in Request /\ new.op = op /\ new.step = step /\ ~new.dead
    BY <2>0, <2>2 DEF Request
  <2> HIDE DEF new
  <2>4. ShapeOf(new)
    BY <2>0, <2>3 DEF ShapeOf, OwnerOps
  <2>5. req' \in [Requests -> Request \cup {None}] /\ Shape'
    BY <2>1, <2>3, <2>4, ReplaceOne
  <2>6. tries' \in [Limiters -> [used : Nat, since : Nat]]
    BY <1>5, CountOtpAttemptType DEF TypeCode
  <2> QED
    BY <1>5, <1>b, <2>5, <2>6 DEF TypeCode, TypedStep
<1>6. CASE FindMatchingOtp(r)
  <2>0. req[r] # None /\ req[r] \in Request /\ ~req[r].dead
    BY <1>6 DEF FindMatchingOtp, At
  <2> DEFINE newest == Max(ActiveCodes)
  <2>1. ActiveCodes # {} => newest \in Codes
    <3>1. ActiveCodes \in SUBSET Codes
      BY DEF ActiveCodes
    <3> QED
      BY <3>1, NewestIsOne
  <2>2. guesses' \in [Codes -> Nat]
    <3>1. guesses' = guesses \/ \E c : guesses' = [guesses EXCEPT ![c] = @ + 1]
      BY <1>6 DEF FindMatchingOtp
    <3> QED
      BY <3>1
  <2>3. \/ Goto(r, "done")
        \/ /\ ActiveCodes # {} /\ req[r].op = "reset"
           /\ req' = [req EXCEPT ![r].step = "claim", ![r].code = newest]
    BY <1>6 DEF FindMatchingOtp
  <2> HIDE DEF newest
  <2>4. CASE Goto(r, "done")
    BY <1>6, <1>b, <1>c, <2>0, <2>2, <2>4 DEF FindMatchingOtp, TypedStep
  <2>5. CASE /\ newest \in Codes /\ req[r].op = "reset"
             /\ req' = [req EXCEPT ![r].step = "claim", ![r].code = newest]
    <3> DEFINE new == [req[r] EXCEPT !.step = "claim", !.code = newest]
    <3>1. /\ new \in Request /\ new.op = "reset" /\ new.step = "claim" /\ ~new.dead
          /\ new.code = newest
      BY <1>a, <2>0, <2>5 DEF Request
    <3>2. req' = [req EXCEPT ![r] = new]
      BY <2>5
    <3> HIDE DEF new
    <3>3. ShapeOf(new)
      BY <2>5, <3>1 DEF ShapeOf, OwnerOps
    <3>4. req' \in [Requests -> Request \cup {None}] /\ Shape'
      BY <3>1, <3>2, <3>3, ReplaceOne
    <3> QED
      BY <1>6, <1>b, <2>2, <3>4 DEF FindMatchingOtp, TypedStep
  <2> QED
    BY <2>1, <2>3, <2>4, <2>5
<1>7. CASE ClaimOtp(r)
  <2>0. req[r] # None /\ req[r].step = "claim" /\ ~req[r].dead
    BY <1>7 DEF ClaimOtp, At
  <2>1. req[r].op = "reset" /\ req[r].code \in Codes
    BY <2>0 DEF Shape, ShapeOf
  <2>2. codes' \in [Codes -> Otp]
    <3>1. codes' = codes \/ codes' = [codes EXCEPT ![req[r].code].used = TRUE]
      BY <1>7 DEF ClaimOtp
    <3>2. CASE codes' = codes
      BY <3>2
    <3>3. CASE codes' = [codes EXCEPT ![req[r].code].used = TRUE]
      <4> DEFINE c == req[r].code
                 otp == [codes[c] EXCEPT !.used = TRUE]
      <4>1. otp \in Otp
        BY <2>1 DEF Otp
      <4>2. codes' = [codes EXCEPT ![c] = otp]
        BY <3>3
      <4> HIDE DEF otp
      <4> QED
        BY <4>1, <4>2
    <3> QED
      BY <3>1, <3>2, <3>3
  <2>3. PICK step \in {"write", "done"} : Goto(r, step)
    BY <1>7 DEF ClaimOtp
  <2>4. ASSUME NEW new, new.op = req[r].op, new.step = step, ~new.dead,
               step \notin {"clear", "done"} => new.code = req[r].code
        PROVE  ShapeOf(new)
    BY <2>1, <2>3, <2>4 DEF ShapeOf, OwnerOps
  <2>5. req' \in [Requests -> Request \cup {None}] /\ Shape'
    BY <1>a, <2>0, <2>3, <2>4, GotoKeeps
  <2> QED
    BY <1>7, <1>b, <2>2, <2>5 DEF ClaimOtp, TypedStep
<1> QED
  BY <1>1, <1>2, <1>3, <1>4, <1>5, <1>6, <1>7 DEF PasswordReset

LEMMA StopIs ==
    ASSUME TypeOK, NEW r \in Requests, Stop(r)
    PROVE  \E new \in Request :
              /\ req' = [req EXCEPT ![r] = new]
              /\ new.dead /\ ~new.late
              /\ new.op = req[r].op /\ new.step = req[r].step
<1>1. req[r] \in Request /\ req[r].op \in Ops /\ req[r].step \in Steps
  BY DEF Stop, TypeOK, Request
<1> DEFINE sent == Sent(req[r].op, req[r].step)
           new == [sent EXCEPT !.dead = TRUE]
<1>2. sent \in Request /\ sent.op = req[r].op /\ sent.step = req[r].step /\ ~sent.late
  BY <1>1, SentIs
<1>3. req' = [req EXCEPT ![r] = new]
  BY DEF Stop
<1> HIDE DEF sent
<1>4. /\ new \in Request /\ new.dead /\ ~new.late
      /\ new.op = req[r].op /\ new.step = req[r].step
  BY <1>2 DEF Request
<1> HIDE DEF new
<1> QED
  BY <1>3, <1>4

(* Every variable keeps its type, and a request the shape of its           *)
(* operation.                                                              *)
THEOREM TypeInvariant == Spec => [](TypeOK /\ Shape)
<1>1. Init => TypeOK /\ Shape
  <2> SUFFICES ASSUME Init PROVE TypeOK /\ Shape
    OBVIOUS
  <2>1. \A r \in Requests : req[r] = None
    BY DEF Init
  <2>2. row \in UserRecord
    <3>1. NoUser \in UserRecord
      BY DEF NoUser, UserRecord
    <3>2. [state : {"active"}, pw : {0, 1}, google : BOOLEAN, email : BOOLEAN]
            \subseteq UserRecord
      BY DEF UserRecord
    <3> QED
      BY <3>1, <3>2 DEF Init
  <2>3. sess \in [Sids -> Session]
    <3>1. row.pw \in Nat
      BY <2>2 DEF UserRecord
    <3>2. NoSession \in Session
      BY DEF NoSession, Session
    <3>3. [NoSession EXCEPT !.state = "live", !.old = TRUE, !.pw = row.pw] \in Session
      BY <3>1, <3>2 DEF Session
    <3> QED
      BY <3>2, <3>3 DEF Init
  <2>4. codes \in [Codes -> Otp]
    <3> DEFINE First == [issued : BOOLEAN, used : {FALSE}, until : {0, CodeTTL},
                         mailed : BOOLEAN]
    <3>1. First \subseteq Otp
      <4>1. {0, CodeTTL} \subseteq Nat
        BY AccountsAssumption
      <4>2. ASSUME NEW o \in First
            PROVE  o \in Otp
        BY ONLY <4>1, <4>2 DEF Otp
      <4> QED
        BY <4>2
    <3>2. codes \in [Codes -> First]
      BY DEF Init
    <3> HIDE DEF First
    <3> QED
      BY <3>1, <3>2
  <2>5. kept \in [files : BOOLEAN, google : BOOLEAN]
    BY <2>2 DEF Init, UserRecord
  <2> QED
    BY <2>1, <2>2, <2>3, <2>4, <2>5 DEF Init, TypeOK, Shape
<1>2. TypeOK /\ Shape /\ [Next]_vars => TypeOK' /\ Shape'
  <2> SUFFICES ASSUME TypeOK, Shape, [Next]_vars PROVE TypedStep
    BY DEF TypedStep
  <2>1. ASSUME NEW r \in Requests, Stop(r)
        PROVE  TypedStep
    <3>1. PICK new \in Request : /\ req' = [req EXCEPT ![r] = new]
                                 /\ new.dead
                                 /\ new.op = req[r].op /\ new.step = req[r].step
      BY <2>1, StopIs
    <3>2. ShapeOf(req[r]) /\ req[r].step \in {"write", "endSessions", "deleteGoogle", "deleteRow"}
      BY <2>1 DEF Stop, Shape
    <3>3. ShapeOf(new)
      BY <3>1, <3>2 DEF ShapeOf, OwnerOps
    <3>4. req' \in [Requests -> Request \cup {None}] /\ Shape'
      BY <3>1, <3>3, ReplaceOne
    <3>5. \A q \in Requests : req'[q] # None /\ req'[q].step \in {"putBack", "issue"} =>
             req'[q].user.state \in {"active", "hidden"}
      BY <3>4 DEF Shape, ShapeOf
    <3> QED
      BY <2>1, <3>4, <3>5 DEF Stop, TypeOK, TypedStep
  <2>2. CASE Tick
    BY <2>2 DEF Tick, TypeOK, Shape, TypedStep
  <2>4. ASSUME NEW s \in Sids, BeginRenewal(s) \/ FinishRenewal(s)
        PROVE  TypedStep
    <3>1. sess' \in [Sids -> Session]
      <4>1. PICK state \in {"live", "renewing", "ended"} : sess' = [sess EXCEPT ![s].state = state]
        BY <2>4 DEF BeginRenewal, FinishRenewal
      <4> QED
        BY <4>1 DEF TypeOK, Session
    <3>2. UNCHANGED <<now, row, passwords, codes, tries, kept, req, guesses, resets>>
      BY <2>4 DEF BeginRenewal, FinishRenewal
    <3> QED
      BY <3>1, <3>2 DEF TypeOK, Shape, TypedStep
  <2>3. CASE UNCHANGED vars
    BY <2>3 DEF vars, TypeOK, Shape, TypedStep
  <2> QED
    BY <2>1, <2>2, <2>3, <2>4, SignInTyped, OwnerTyped, DeletionTyped, ResetTyped DEF Next
<1> QED
  BY <1>1, <1>2, PTL DEF Spec

-----------------------------------------------------------------------------
(* What a request relies on, from what it read to what it writes: a        *)
(* sign-in that is not late carries the row as it is, a change of password *)
(* spares its own session, a deletion goes on only without files.          *)
Carries(q, R, S, K) ==
    /\ q.op \in {"login", "google"} /\ ~q.late /\ ~q.dead =>
         /\ q.step \in {"endSessions", "reactivate", "issue"} => q.user.pw \in {0, R.pw}
         /\ q.step \in {"link", "endSessions", "reactivate"} /\ R.state = "hidden"
              => q.user.state = "hidden"
         /\ q.step = "issue" => R.state # "hidden"
    /\ q.op = "change" /\ ~q.dead =>
         /\ q.step \in {"require", "verify", "write"} => S[q.caller].state # "free"
         /\ q.step = "endSessions" =>
              S[q.caller].state # "free" /\ (S[q.caller].state \in SignedIn => S[q.caller].spared)
    /\ q.op = "delete" /\ q.step \in {"endSessions", "deleteGoogle", "deleteCodes", "deleteRow"}
         => ~K.files

Safe ==
    /\ \A r \in Requests : req[r] # None => Carries(req[r], row, sess, kept)
    /\ OldPasswordIsOut
    /\ HiddenIsSignedOut
    /\ NoFilesOfNobody

(* At these steps a request relies on nothing.                             *)
LEMMA CarriesNothing ==
    ASSUME NEW q, NEW R, NEW S, NEW K,
           q.step \in {"find", "insertUser", "clear", "done", "erase", "putBack",
                      "invalidate", "store", "mail", "match", "claim"}
    PROVE  Carries(q, R, S, K)
BY DEF Carries

(* A step of one request that writes neither the row nor a session nor a   *)
(* file, and is not the end of what the properties wait for.               *)
LEMMA QuietKeeps ==
    ASSUME TypeOK, Safe, NEW r \in Requests, NEW new, Carries(new, row, sess, kept),
           req' = [req EXCEPT ![r] = new],
           UNCHANGED <<row, sess, kept>>,
           \/ req[r] = None
           \/ req[r].step \notin {"endSessions", "erase", "putBack"}
           \/ new # None /\ new.op = req[r].op /\ new.step = req[r].step
    PROVE  Safe'
<1>1. \A q \in Requests : req'[q] # None => Carries(req'[q], row', sess', kept')
  BY DEF Safe, TypeOK
<1>2. ASSUME Underway({"change", "reset", "google"}, {"endSessions"})
      PROVE  Underway({"change", "reset", "google"}, {"endSessions"})'
  BY <1>2 DEF Underway, TypeOK
<1>3. ASSUME Underway({"deactivate", "delete"}, {"erase", "putBack", "endSessions"})
      PROVE  Underway({"deactivate", "delete"}, {"erase", "putBack", "endSessions"})'
  BY <1>3 DEF Underway, TypeOK
<1> QED
  BY <1>1, <1>2, <1>3 DEF Safe, OldPasswordIsOut, HiddenIsSignedOut, NoFilesOfNobody, LeftIn

LEMMA QuietGoto ==
    ASSUME TypeOK, Safe, NEW r \in Requests, req[r] # None, ~req[r].dead,
           req[r].step \notin {"endSessions", "erase", "putBack"},
           NEW step \in Steps, Goto(r, step),
           step \in {"clear", "done", "invalidate", "store", "mail", "match", "claim"},
           UNCHANGED <<row, sess, kept>>
    PROVE  Safe'
BY GotoIs, QuietKeeps, CarriesNothing

LEMMA SignInSafe ==
    ASSUME TypeOK, Shape, Safe, NEW r \in Requests, SignInNext(r)
    PROVE  Safe'
<1>a. {"clear", "done", "issue"} \subseteq Steps
  BY DEF Steps
<1>1. CASE Register(r)
  <2> DEFINE new == Sent("register", IF row = NoUser THEN "insertUser" ELSE "done")
  <2>1. req' = [req EXCEPT ![r] = new] /\ req[r] = None
    BY <1>1 DEF Register, Free
  <2>2. new.step \in {"insertUser", "done"}
    BY DEF Sent
  <2> HIDE DEF new
  <2>3. Carries(new, row, sess, kept)
    BY <2>2, CarriesNothing
  <2> QED
    BY <1>1, <2>1, <2>3, QuietKeeps DEF Register
<1>2. CASE InsertUser(r)
  <2>0. req[r] # None /\ req[r] \in Request /\ req[r].step = "insertUser" /\ ~req[r].dead
    BY <1>2 DEF InsertUser, At, TypeOK
  <2>1. CASE row # NoUser
    BY <1>2, <1>a, <2>0, <2>1, QuietGoto DEF InsertUser
  <2>2. CASE row = NoUser
    <3>1. /\ row'.state = "active" /\ row.pw = 0 /\ sess' = sess
          /\ kept'.files = kept.files
      BY <1>2, <2>2 DEF InsertUser, NoUser, TypeOK
    <3>2. PICK new : /\ req' = [req EXCEPT ![r] = new]
                     /\ \/ new.step = "done"
                        \/ /\ new.op = "google" /\ new.step = "reactivate"
                           /\ new.user = row' /\ row'.pw = 0
      <4>1. CASE Goto(r, "done")
        BY <1>a, <2>0, <4>1, GotoIs DEF TypeOK
      <4>2. CASE ~Goto(r, "done")
        <5>1. /\ req[r].op = "google" /\ row'.pw = 0
              /\ req' = [req EXCEPT ![r].step = "reactivate", ![r].user = row']
          BY <1>2, <2>2, <4>2 DEF InsertUser
        <5> DEFINE new == [req[r] EXCEPT !.step = "reactivate", !.user = row']
        <5>2. new.op = "google" /\ new.step = "reactivate" /\ new.user = row'
          BY <2>0, <5>1 DEF Request
        <5>3. req' = [req EXCEPT ![r] = new]
          BY <5>1
        <5> HIDE DEF new
        <5> QED
          BY <5>1, <5>2, <5>3
      <4> QED
        BY <4>1, <4>2
    <3>3. \A q \in Requests : req'[q] # None => Carries(req'[q], row', sess', kept')
      BY <3>1, <3>2 DEF Safe, Carries, TypeOK
    <3>4. ASSUME Underway({"change", "reset", "google"}, {"endSessions"})
          PROVE  Underway({"change", "reset", "google"}, {"endSessions"})'
      BY <2>0, <3>2, <3>4 DEF Underway, TypeOK
    <3> QED
      BY <3>1, <3>3, <3>4 DEF Safe, OldPasswordIsOut, HiddenIsSignedOut, NoFilesOfNobody, LeftIn
  <2> QED
    BY <2>1, <2>2
<1>3. ASSUME NEW p, Login(r, p)
      PROVE  Safe'
  <2> DEFINE sent == Sent("login", IF Allowed(tries, "login") THEN "find" ELSE "done")
             new == [sent EXCEPT !.typed = p]
  <2>1. req' = [req EXCEPT ![r] = new] /\ req[r] = None
    BY <1>3 DEF Login, Free
  <2>2. new.step \in {"find", "done"}
    BY DEF Sent
  <2> HIDE DEF new
  <2>3. Carries(new, row, sess, kept)
    BY <2>2, CarriesNothing
  <2> QED
    BY <1>3, <2>1, <2>3, QuietKeeps DEF Login
<1>4. CASE FindByIdentifier(r)
  <2>0. req[r] # None /\ req[r] \in Request /\ req[r].op = "login" /\ req[r].step = "find" /\ ~req[r].dead
    BY <1>4 DEF FindByIdentifier, At, TypeOK
  <2>1. CASE Goto(r, "done")
    BY <1>4, <1>a, <2>0, <2>1, QuietGoto DEF FindByIdentifier
  <2>2. CASE Read(r, "reactivate")
    <3> DEFINE new == [req[r] EXCEPT !.step = "reactivate", !.user = row]
    <3>1. new.op = "login" /\ new.step = "reactivate" /\ new.user = row
      BY <2>0 DEF Request
    <3>2. req' = [req EXCEPT ![r] = new]
      BY <2>2 DEF Read
    <3> HIDE DEF new
    <3>3. Carries(new, row, sess, kept)
      BY <3>1 DEF Carries
    <3> QED
      BY <1>4, <2>0, <3>2, <3>3, QuietKeeps DEF FindByIdentifier
  <2> QED
    BY <1>4, <2>1, <2>2 DEF FindByIdentifier
<1>5. ASSUME NEW trusted \in BOOLEAN, FirebaseLogin(r, trusted)
      PROVE  Safe'
  <2> DEFINE step == IF Exists /\ row.google THEN "reactivate"
                     ELSE IF Exists /\ trusted THEN "link"
                     ELSE IF row = NoUser THEN "insertUser"
                     ELSE "done"
             new == [Sent("google", step) EXCEPT !.user = row]
  <2>0. step \in {"reactivate", "link", "insertUser", "done"}
    OBVIOUS
  <2>1. req' = [req EXCEPT ![r] = new] /\ req[r] = None
    BY <1>5 DEF FirebaseLogin, Free
  <2> HIDE DEF step
  <2>2. new.op = "google" /\ new.step = step /\ new.user = row
    BY DEF Sent
  <2> HIDE DEF new
  <2>3. Carries(new, row, sess, kept)
    BY <2>0, <2>2 DEF Carries
  <2> QED
    BY <1>5, <2>1, <2>3, QuietKeeps DEF FirebaseLogin
<1>6. CASE LinkExistingAccount(r)
  <2>0. req[r] # None /\ req[r] \in Request /\ req[r].step = "link" /\ ~req[r].dead
    BY <1>6 DEF LinkExistingAccount, At, TypeOK
  <2>1. req[r].op = "google" /\ req[r].user \in UserRecord
    BY <2>0 DEF Shape, ShapeOf, Request
  <2> DEFINE user == [req[r].user EXCEPT !.pw = 0, !.google = TRUE]
             new == [req[r] EXCEPT !.step = "endSessions", !.user = user]
  <2>2. user.state = req[r].user.state /\ user.pw = 0
    BY <2>1 DEF UserRecord
  <2>3. req' = [Outdated(req, r) EXCEPT ![r] = new]
    BY <1>6, OutdatedIs DEF LinkExistingAccount
  <2> HIDE DEF user
  <2>4. /\ new.op = "google" /\ new.step = "endSessions" /\ new.user = user
        /\ new.late = req[r].late /\ new # None
    <3>1. new \in Request
      BY <2>0, <2>1, <2>2 DEF user, Request, UserRecord, Steps
    <3> QED
      BY <2>0, <2>1, <3>1, NoneIsNoRequest DEF Request
  <2>5. /\ row'.state = row.state /\ row'.pw \in {row.pw, 0}
        /\ sess' = sess /\ kept'.files = kept.files
    BY <1>6 DEF LinkExistingAccount, TypeOK, UserRecord
  <2> HIDE DEF new
  <2>6. req'[r] = new
    BY <2>3, OutdatedIs
  <2>7. \A q \in Requests \ {r} :
           /\ req'[q] = None <=> req[q] = None
           /\ req[q] # None => Same(req'[q], req[q]) /\ (req[q].late => req'[q].late)
                              /\ (/\ req[q].op \in {"login", "google"}
                                  /\ req[q].step \notin {"find", "clear", "done"}
                                  => req'[q].late)
    BY <2>3, OutdatedIs
  <2>8. Carries(new, row', sess', kept')
    BY <2>0, <2>1, <2>2, <2>4, <2>5 DEF Safe, Carries
  <2>9. ASSUME NEW q \in Requests \ {r}, req[q] # None
        PROVE  Carries(req'[q], row', sess', kept')
    <3>1. Carries(req[q], row, sess, kept)
      BY <2>9 DEF Safe
    <3> QED
      BY <2>5, <2>7, <2>9, <3>1 DEF Carries, Same
  <2>10. Underway({"change", "reset", "google"}, {"endSessions"})'
    BY <2>4, <2>6 DEF Underway
  <2>11. ASSUME Underway({"deactivate", "delete"}, {"erase", "putBack", "endSessions"})
         PROVE  Underway({"deactivate", "delete"}, {"erase", "putBack", "endSessions"})'
    BY <2>0, <2>7, <2>11 DEF Underway, Same
  <2> QED
    BY <2>5, <2>6, <2>7, <2>8, <2>9, <2>10, <2>11
    DEF Safe, OldPasswordIsOut, HiddenIsSignedOut, NoFilesOfNobody, LeftIn
<1>7. CASE Reactivate(r)
  <2>0. req[r] # None /\ req[r].step = "reactivate" /\ ~req[r].dead /\ Goto(r, "issue")
    BY <1>7 DEF Reactivate, At
  <2>1. PICK new : /\ req' = [req EXCEPT ![r] = new]
                   /\ new.op = req[r].op /\ new.step = "issue"
                   /\ new.user = req[r].user /\ new.late = req[r].late
    BY <1>a, <2>0, GotoIs
  <2>2. /\ row'.pw = row.pw /\ row'.state \in {row.state, "active"}
        /\ req[r].user.state = "hidden" => row'.state # "hidden"
        /\ sess' = sess /\ kept' = kept
    BY <1>7 DEF Reactivate, Exists, TypeOK, UserRecord
  <2>3. Carries(req[r], row, sess, kept) /\ req[r].op \in {"login", "google"}
    BY <2>0 DEF Safe, Shape, ShapeOf
  <2>4. Carries(new, row', sess', kept')
    BY <2>0, <2>1, <2>2, <2>3 DEF Carries
  <2>5. ASSUME NEW q \in Requests \ {r}, req[q] # None
        PROVE  Carries(req'[q], row', sess', kept')
    <3>1. Carries(req[q], row, sess, kept) /\ req'[q] = req[q]
      BY <2>1, <2>5 DEF Safe
    <3> QED
      BY <2>2, <3>1 DEF Carries
  <2>6. \A q \in Requests \ {r} : req'[q] = req[q]
    BY <2>1
  <2>7. req'[r] = new
    BY <2>1 DEF TypeOK
  <2>8. ASSUME Underway({"change", "reset", "google"}, {"endSessions"})
        PROVE  Underway({"change", "reset", "google"}, {"endSessions"})'
    BY <2>0, <2>6, <2>8 DEF Underway
  <2>9. ASSUME Underway({"deactivate", "delete"}, {"erase", "putBack", "endSessions"})
        PROVE  Underway({"deactivate", "delete"}, {"erase", "putBack", "endSessions"})'
    BY <2>0, <2>6, <2>9 DEF Underway
  <2> QED
    BY <2>2, <2>4, <2>5, <2>6, <2>7, <2>8, <2>9
    DEF Safe, OldPasswordIsOut, HiddenIsSignedOut, NoFilesOfNobody, LeftIn
<1>8. CASE IssueToken(r)
  <2>0. req[r] # None /\ req[r] \in Request /\ req[r].step = "issue" /\ ~req[r].dead
    BY <1>8 DEF IssueToken, At, TypeOK
  <2>1. PICK step \in {"clear", "done"} : Goto(r, step)
    BY <1>8 DEF IssueToken
  <2>2. CASE UNCHANGED sess
    BY <1>8, <1>a, <2>0, <2>1, <2>2, QuietGoto DEF IssueToken
  <2>3. ASSUME NEW s \in Sids, sess[s].state = "free",
               sess' = [sess EXCEPT ![s] = [@ EXCEPT !.state = "live",
                                                     !.pw = req[r].user.pw,
                                                     !.late = req[r].late]]
        PROVE  Safe'
    <3>1. /\ sess'[s].state = "live" /\ sess'[s].pw = req[r].user.pw
          /\ sess'[s].late = req[r].late
          /\ \A t \in Sids \ {s} : sess'[t] = sess[t]
          /\ row' = row /\ kept' = kept
      BY <1>8, <2>3 DEF IssueToken, TypeOK, Session
    <3>2. PICK new : req' = [req EXCEPT ![r] = new] /\ new.step \in {"clear", "done"}
      BY <1>a, <2>0, <2>1, GotoIs
    <3>3. Carries(req[r], row, sess, kept) /\ req[r].op \in {"login", "google"}
      BY <2>0 DEF Safe, Shape, ShapeOf
    <3>4. ~req[r].late => req[r].user.pw \in {0, row.pw} /\ row.state # "hidden"
      BY <2>0, <3>3 DEF Carries
    <3>5. \A q \in Requests \ {r} : req'[q] = req[q]
      BY <3>2
    <3>6. req'[r] = new
      BY <3>2 DEF TypeOK
    <3>7. ASSUME NEW q \in Requests \ {r}, req[q] # None
          PROVE  Carries(req'[q], row', sess', kept')
      <4>1. Carries(req[q], row, sess, kept) /\ ShapeOf(req[q])
        BY <3>7 DEF Safe, Shape
      <4>2. /\ req[q].op = "change" /\ ~req[q].dead
            /\ req[q].step \in {"require", "verify", "write", "endSessions"}
            => sess'[req[q].caller] = sess[req[q].caller]
        BY <2>3, <3>1, <4>1 DEF Carries, ShapeOf, OwnerOps
      <4> QED
        BY <3>1, <3>5, <4>1, <4>2 DEF Carries
    <3>8. ASSUME Underway({"change", "reset", "google"}, {"endSessions"})
          PROVE  Underway({"change", "reset", "google"}, {"endSessions"})'
      BY <2>0, <3>5, <3>8 DEF Underway
    <3>9. ASSUME Underway({"deactivate", "delete"}, {"erase", "putBack", "endSessions"})
          PROVE  Underway({"deactivate", "delete"}, {"erase", "putBack", "endSessions"})'
      BY <2>0, <3>5, <3>9 DEF Underway
    <3>10. Carries(new, row', sess', kept')
      BY <3>2, CarriesNothing
    <3>11. OldPasswordIsOut'
      BY <3>1, <3>4, <3>8 DEF Safe, OldPasswordIsOut, LeftIn
    <3>12. HiddenIsSignedOut'
      BY <3>1, <3>4, <3>9 DEF Safe, HiddenIsSignedOut, LeftIn, SignedIn
    <3> QED
      BY <3>1, <3>5, <3>6, <3>7, <3>10, <3>11, <3>12 DEF Safe, NoFilesOfNobody
  <2> QED
    BY <1>8, <2>2, <2>3 DEF IssueToken
<1>9. CASE ClearTries(r)
  BY <1>9, <1>a, QuietGoto DEF ClearTries, At
<1> QED
  BY <1>1, <1>2, <1>3, <1>4, <1>5, <1>6, <1>7, <1>8, <1>9 DEF SignInNext

LEMMA OwnerSafe ==
    ASSUME TypeOK, Shape, Safe, NEW r \in Requests, OwnerRequests(r)
    PROVE  Safe'
<1>a. {"clear", "done", "verify", "reactivate", "deleteGoogle"} \subseteq Steps
  BY DEF Steps
<1>1. ASSUME NEW op \in OwnerOps, NEW s \in Sids, NEW p, AccountRequest(r, op, s, p)
      PROVE  Safe'
  <2> DEFINE step == IF ~Allowed(tries, "identityProof") THEN "done"
                     ELSE IF op = "create" THEN "verify" ELSE "require"
             new == [Sent(op, step) EXCEPT !.caller = s, !.typed = p]
  <2>0. step \in {"done", "verify", "require"}
    OBVIOUS
  <2>1. req' = [req EXCEPT ![r] = new] /\ req[r] = None
    BY <1>1 DEF AccountRequest, Free
  <2> HIDE DEF step
  <2>2. new.op = op /\ new.step = step /\ new.caller = s
    BY DEF Sent
  <2> HIDE DEF new
  <2>3. sess[s].state # "free"
    BY <1>1 DEF AccountRequest, SignedIn
  <2>4. Carries(new, row, sess, kept)
    BY <2>0, <2>2, <2>3 DEF Carries, OwnerOps
  <2> QED
    BY <1>1, <2>1, <2>4, QuietKeeps DEF AccountRequest
<1>2. CASE Require(r)
  <2>0. req[r] # None /\ req[r].step = "require" /\ ~req[r].dead
    BY <1>2 DEF Require, At
  <2>1. PICK step \in {"verify", "done"} : Goto(r, step)
    BY <1>2 DEF Require
  <2>2. PICK new : /\ req' = [req EXCEPT ![r] = new]
                   /\ new.op = req[r].op /\ new.step = step /\ ~new.dead
                   /\ step = "verify" => new.caller = req[r].caller
    BY <1>a, <2>0, <2>1, GotoIs
  <2>3. Carries(req[r], row, sess, kept) /\ req[r].op \in OwnerOps
    BY <2>0 DEF Safe, Shape, ShapeOf
  <2>4. Carries(new, row, sess, kept)
    BY <2>0, <2>2, <2>3 DEF Carries, OwnerOps
  <2> QED
    BY <1>2, <2>0, <2>2, <2>4, QuietKeeps DEF Require
<1>3. CASE Verify(r)
  <2>0. req[r] # None /\ req[r] \in Request /\ req[r].step = "verify" /\ ~req[r].dead
    BY <1>3 DEF Verify, At, TypeOK
  <2>1. CASE Goto(r, "done")
    BY <1>3, <1>a, <2>0, <2>1, QuietGoto DEF Verify
  <2>2. CASE Read(r, "write")
    <3> DEFINE new == [req[r] EXCEPT !.step = "write", !.user = row]
    <3>1. /\ new.op = req[r].op /\ new.step = "write" /\ new.caller = req[r].caller
          /\ ~new.dead
      BY <2>0 DEF Request
    <3>2. req' = [req EXCEPT ![r] = new]
      BY <2>2 DEF Read
    <3> HIDE DEF new
    <3>3. Carries(req[r], row, sess, kept) /\ req[r].op \in OwnerOps
      BY <2>0 DEF Safe, Shape, ShapeOf
    <3>4. Carries(new, row, sess, kept)
      BY <2>0, <3>1, <3>3 DEF Carries, OwnerOps
    <3> QED
      BY <1>3, <2>0, <3>2, <3>4, QuietKeeps DEF Verify
  <2> QED
    BY <1>3, <2>1, <2>2 DEF Verify
<1>4. CASE WriteUser(r)
  <2>0. req[r] # None /\ req[r] \in Request /\ req[r].step = "write" /\ ~req[r].dead
    BY <1>4 DEF WriteUser, At, TypeOK
  <2>1. ShapeOf(req[r]) /\ Carries(req[r], row, sess, kept)
    BY <2>0 DEF Shape, Safe
  <2>2. PICK op \in OwnerOps \cup {"reset"} : op = req[r].op
    BY <2>0, <2>1 DEF ShapeOf
  <2>3. /\ op = "addEmail" => row'.pw = row.pw /\ row'.state = row.state
        /\ op \in {"deactivate", "delete"} => row'.pw = row.pw /\ row'.state \in {row.state, "hidden"}
        /\ op \in {"change", "create", "reset"} => row'.state = row.state
        /\ row.state = "gone" <=> row'.state = "gone"
    <3>1. \/ row' = row
          \/ Exists /\ row' = Patched(op)
      BY <1>4, <2>2 DEF WriteUser
    <3>2. CASE op = "addEmail"
      BY <3>1, <3>2 DEF Patched, TypeOK, UserRecord
    <3>3. CASE op \in {"deactivate", "delete"}
      BY <3>1, <3>3 DEF Patched, TypeOK, UserRecord, Exists
    <3>4. CASE op \in {"change", "create", "reset"}
      BY <3>1, <3>4 DEF Patched, TypeOK, UserRecord
    <3> QED
      BY <3>2, <3>3, <3>4 DEF OwnerOps
  <2>4. /\ \A s \in Sids : /\ sess'[s].state = sess[s].state /\ sess'[s].pw = sess[s].pw
                           /\ sess'[s].late = sess[s].late /\ sess'[s].missed = sess[s].missed
                           /\ sess[s].spared => sess'[s].spared
        /\ op = "create" => \A s \in Sids : sess[s].state \in SignedIn => sess'[s].spared
        /\ op = "change" => (sess[req[r].caller].state \in SignedIn => sess'[req[r].caller].spared)
    <3>1. CASE op = "create"
      <4>1. sess' = Spared(sess, Sids)
        BY <1>4, <2>2, <3>1 DEF WriteUser
      <4> QED
        BY <3>1, <4>1 DEF Spared, TypeOK, Session
    <3>2. CASE op = "change"
      <4>1. sess' = Spared(sess, {req[r].caller})
        BY <1>4, <2>2, <3>2 DEF WriteUser
      <4>2. req[r].caller \in Sids
        BY <2>0, <2>1, <2>2, <3>2 DEF ShapeOf, OwnerOps
      <4> QED
        BY <3>2, <4>1, <4>2 DEF Spared, TypeOK, Session
    <3>3. CASE op \notin {"create", "change"}
      BY <1>4, <2>2, <3>3 DEF WriteUser
    <3> QED
      BY <3>1, <3>2, <3>3
  <2> DEFINE step == AfterWrite(op)
             new == [req[r] EXCEPT !.step = step, !.typed = 0]
  <2>5. /\ op \in {"create", "addEmail"} => step = "clear"
        /\ op = "delete" => step = "erase"
        /\ op \in {"change", "reset", "deactivate"} => step = "endSessions"
    BY DEF AfterWrite
  <2>6. IF op = "addEmail" THEN req' = [req EXCEPT ![r] = new]
        ELSE req' = [Outdated(req, r) EXCEPT ![r] = new]
    <3>1. CASE op = "addEmail"
      BY <1>4, <2>2, <3>1 DEF WriteUser, TypeOK
    <3>2. CASE op # "addEmail"
      BY <1>4, <2>2, <3>2, OutdatedIs DEF WriteUser, TypeOK
    <3> QED
      BY <3>1, <3>2
  <2> HIDE DEF step
  <2>7. /\ new.op = op /\ new.step = step /\ new.caller = req[r].caller /\ ~new.dead
        /\ new # None
    <3>1. new \in Request
      BY <2>0, <2>2, <2>5 DEF Request, Steps, OwnerOps
    <3> QED
      BY <2>0, <2>2, <3>1, NoneIsNoRequest DEF Request
  <2> HIDE DEF new
  <2>8. req'[r] = new
    BY <2>6, OutdatedIs DEF TypeOK
  <2>9. \A q \in Requests \ {r} :
           /\ req'[q] = None <=> req[q] = None
           /\ req[q] # None => Same(req'[q], req[q]) /\ (req[q].late => req'[q].late)
                              /\ (/\ op # "addEmail"
                                  /\ req[q].op \in {"login", "google"}
                                  /\ req[q].step \notin {"find", "clear", "done"}
                                  => req'[q].late)
    <3>1. CASE op = "addEmail"
      BY <2>6, <3>1 DEF Same, TypeOK
    <3>2. CASE op # "addEmail"
      BY <2>6, <3>2, OutdatedIs
    <3> QED
      BY <3>1, <3>2
  <2>10. kept' = kept
    BY <1>4 DEF WriteUser
  <2>11. Carries(new, row', sess', kept')
    BY <2>0, <2>1, <2>2, <2>4, <2>5, <2>7 DEF Carries, ShapeOf, OwnerOps
  <2>12. ASSUME NEW q \in Requests \ {r}, req[q] # None
         PROVE  Carries(req'[q], row', sess', kept')
    <3>1. Carries(req[q], row, sess, kept) /\ ShapeOf(req[q])
      BY <2>12 DEF Safe, Shape
    <3>2. Same(req'[q], req[q]) /\ (req[q].late => req'[q].late)
      BY <2>9, <2>12
    <3>3. req[q].op = "change" => Carries(req'[q], row', sess', kept')
      BY <2>4, <3>1, <3>2 DEF Carries, Same, ShapeOf, OwnerOps
    <3>4. req[q].op = "delete" => Carries(req'[q], row', sess', kept')
      BY <2>10, <3>1, <3>2 DEF Carries, Same
    <3>5. req[q].op \in {"login", "google"} => Carries(req'[q], row', sess', kept')
      BY <2>3, <2>9, <2>12, <3>1, <3>2 DEF Carries, Same
    <3> QED
      BY <3>2, <3>3, <3>4, <3>5 DEF Carries, Same
  <2>13. ASSUME Underway({"change", "reset", "google"}, {"endSessions"})
         PROVE  Underway({"change", "reset", "google"}, {"endSessions"})'
    BY <2>0, <2>9, <2>13 DEF Underway, Same
  <2>14. ASSUME Underway({"deactivate", "delete"}, {"erase", "putBack", "endSessions"})
         PROVE  Underway({"deactivate", "delete"}, {"erase", "putBack", "endSessions"})'
    BY <2>0, <2>9, <2>14 DEF Underway, Same
  <2>15. op \in {"change", "reset"} => Underway({"change", "reset", "google"}, {"endSessions"})'
    BY <2>5, <2>7, <2>8 DEF Underway
  <2>16. op \in {"deactivate", "delete"} =>
           Underway({"deactivate", "delete"}, {"erase", "putBack", "endSessions"})'
    BY <2>5, <2>7, <2>8 DEF Underway
  <2>17. OldPasswordIsOut'
    BY <2>3, <2>4, <2>13, <2>15 DEF Safe, OldPasswordIsOut, LeftIn, OwnerOps
  <2>18. HiddenIsSignedOut'
    BY <2>3, <2>4, <2>14, <2>16 DEF Safe, HiddenIsSignedOut, LeftIn, OwnerOps
  <2>19. NoFilesOfNobody'
    BY <2>3, <2>10 DEF Safe, NoFilesOfNobody
  <2> QED
    BY <2>8, <2>9, <2>11, <2>12, <2>17, <2>18, <2>19 DEF Safe
<1>5. CASE EndAllSessions(r)
  <2>0. req[r] # None /\ req[r].step = "endSessions" /\ ~req[r].dead
    BY <1>5 DEF EndAllSessions, At
  <2>1. ShapeOf(req[r]) /\ Carries(req[r], row, sess, kept)
    BY <2>0 DEF Shape, Safe
  <2>2. PICK step \in {"reactivate", "deleteGoogle", "done", "clear"} :
           /\ Goto(r, step)
           /\ step = "reactivate" => req[r].op = "google"
           /\ step = "deleteGoogle" => req[r].op = "delete"
    BY <1>5 DEF EndAllSessions
  <2>3. PICK new : /\ req' = [req EXCEPT ![r] = new]
                   /\ new.op = req[r].op /\ new.step = step /\ ~new.dead
                   /\ step \notin {"clear", "done"} =>
                        new.user = req[r].user /\ new.late = req[r].late
    BY <1>a, <2>0, <2>2, GotoIs
  <2>4. row' = row /\ kept' = kept
    BY <1>5 DEF EndAllSessions
  <2>5. /\ \A s \in Sids : /\ sess'[s].state = sess[s].state \/ sess'[s].state = "ended"
                           /\ sess'[s].pw = sess[s].pw /\ sess'[s].late = sess[s].late
                           /\ sess'[s].spared = sess[s].spared
        /\ \A s \in Sids : sess'[s].state \in SignedIn =>
              \/ sess'[s].missed
              \/ req[r].op = "change" /\ s = req[r].caller
    BY <1>5, AccountsAssumption DEF EndAllSessions, Ended, TypeOK, Session, SignedIn
  <2>6. Carries(new, row', sess', kept')
    BY <2>0, <2>1, <2>2, <2>3, <2>4 DEF Carries
  <2>7. ASSUME NEW q \in Requests \ {r}, req[q] # None
        PROVE  Carries(req'[q], row', sess', kept')
    <3>1. Carries(req[q], row, sess, kept) /\ ShapeOf(req[q])
      BY <2>7 DEF Safe, Shape
    <3>2. req'[q] = req[q]
      BY <2>3
    <3>3. /\ req[q].op = "change" /\ ~req[q].dead
          /\ req[q].step \in {"require", "verify", "write", "endSessions"}
          => req[q].caller \in Sids
      BY <3>1 DEF ShapeOf, OwnerOps
    <3> QED
      BY <2>4, <2>5, <3>1, <3>2, <3>3 DEF Carries, SignedIn
  <2>8. \A q \in Requests \ {r} : req'[q] = req[q]
    BY <2>3
  <2>9. req'[r] = new
    BY <2>3 DEF TypeOK
  <2>10. \A s \in Sids : sess'[s].state \in SignedIn => sess'[s].spared \/ sess'[s].missed
    <3>1. SUFFICES ASSUME NEW s \in Sids, sess'[s].state \in SignedIn, ~sess'[s].missed
                   PROVE  sess'[s].spared
      OBVIOUS
    <3>2. req[r].op = "change" /\ s = req[r].caller /\ sess[s].state \in SignedIn
      BY <2>5, <3>1 DEF SignedIn
    <3>3. sess[s].spared
      BY <2>0, <2>1, <3>2 DEF Carries
    <3> QED
      BY <2>5, <3>3
  <2> QED
    BY <2>4, <2>6, <2>7, <2>8, <2>9, <2>10
    DEF Safe, OldPasswordIsOut, HiddenIsSignedOut, NoFilesOfNobody, LeftIn
<1> QED
  BY <1>1, <1>2, <1>3, <1>4, <1>5 DEF OwnerRequests, OwnerOps

LEMMA DeletionSafe ==
    ASSUME TypeOK, Shape, Safe, NEW r \in Requests, Deletion(r)
    PROVE  Safe'
<1>a. {"endSessions", "putBack", "deleteCodes", "deleteRow", "clear", "done"} \subseteq Steps
  BY DEF Steps
<1>1. CASE EraseFiles(r)
  <2>0. req[r] # None /\ req[r].step = "erase" /\ ~req[r].dead
    BY <1>1 DEF EraseFiles, At
  <2>1. ShapeOf(req[r]) /\ req[r].op = "delete"
    BY <2>0 DEF Shape, ShapeOf
  <2>2. PICK step \in {"endSessions", "putBack"} :
           /\ Goto(r, step)
           /\ step = "endSessions" => ~kept'.files
           /\ kept.files = FALSE => ~kept'.files
    BY <1>1 DEF EraseFiles, TypeOK
  <2>3. PICK new : /\ req' = [req EXCEPT ![r] = new]
                   /\ new.op = "delete" /\ new.step = step /\ ~new.dead
    BY <1>a, <2>0, <2>1, <2>2, GotoIs
  <2>4. row' = row /\ sess' = sess
    BY <1>1 DEF EraseFiles
  <2>5. req'[r] = new /\ \A q \in Requests \ {r} : req'[q] = req[q]
    BY <2>3 DEF TypeOK
  <2>6. new # None
    BY <1>a, <2>0, <2>2, <2>5, GotoIs, NoneIsNoRequest DEF TypeOK
  <2>7. Carries(new, row', sess', kept')
    BY <2>2, <2>3 DEF Carries
  <2>8. ASSUME NEW q \in Requests \ {r}, req[q] # None
        PROVE  Carries(req'[q], row', sess', kept')
    <3>1. Carries(req[q], row, sess, kept) /\ kept.files \in BOOLEAN
      BY <2>8 DEF Safe, TypeOK
    <3> QED
      BY <2>2, <2>4, <2>5, <3>1 DEF Carries
  <2>9. ASSUME Underway({"change", "reset", "google"}, {"endSessions"})
        PROVE  Underway({"change", "reset", "google"}, {"endSessions"})'
    BY <2>0, <2>5, <2>9 DEF Underway
  <2>10. Underway({"deactivate", "delete"}, {"erase", "putBack", "endSessions"})'
    BY <2>2, <2>3, <2>5, <2>6 DEF Underway
  <2>11. NoFilesOfNobody'
    BY <2>2, <2>4 DEF Safe, NoFilesOfNobody, TypeOK
  <2> QED
    BY <2>4, <2>5, <2>7, <2>8, <2>9, <2>10, <2>11 DEF Safe, OldPasswordIsOut, HiddenIsSignedOut, LeftIn
<1>2. CASE PutBack(r)
  <2>0. /\ req[r] # None /\ req[r].step = "putBack" /\ ~req[r].dead
        /\ req[r].user.state \in {"active", "hidden"}
    BY <1>2 DEF PutBack, At, TypeOK
  <2> DEFINE new == Sent("delete", "done")
  <2>1. req' = [Outdated(req, r) EXCEPT ![r] = new]
    BY <1>2 DEF PutBack
  <2>2. new.step = "done" /\ new.op = "delete"
    BY DEF Sent
  <2> HIDE DEF new
  <2>3. /\ row'.pw = row.pw
        /\ row'.state = "gone" <=> row.state = "gone"
        /\ row'.state = "hidden" => req[r].user.state = "hidden"
    BY <1>2, <2>0 DEF PutBack, Exists, TypeOK, UserRecord
  <2>4. /\ \A s \in Sids : /\ sess'[s].state = sess[s].state /\ sess'[s].pw = sess[s].pw
                           /\ sess'[s].late = sess[s].late /\ sess'[s].missed = sess[s].missed
                           /\ sess[s].spared => sess'[s].spared
        /\ req[r].user.state = "hidden" =>
             \A s \in Sids : sess[s].state \in SignedIn => sess'[s].spared
    <3>1. CASE req[r].user.state = "hidden"
      <4>1. sess' = Spared(sess, Sids)
        BY <1>2, <3>1 DEF PutBack
      <4> QED
        BY <4>1 DEF Spared, TypeOK, Session
    <3>2. CASE req[r].user.state # "hidden"
      BY <1>2, <3>2 DEF PutBack
    <3> QED
      BY <3>1, <3>2
  <2>5. req'[r] = new /\ kept' = kept
    BY <1>2, <2>1, OutdatedIs DEF PutBack
  <2>6. \A q \in Requests \ {r} :
           /\ req'[q] = None <=> req[q] = None
           /\ req[q] # None => Same(req'[q], req[q]) /\ (req[q].late => req'[q].late)
                              /\ (/\ req[q].op \in {"login", "google"}
                                  /\ req[q].step \notin {"find", "clear", "done"}
                                  => req'[q].late)
    BY <2>1, OutdatedIs
  <2>7. Carries(new, row', sess', kept')
    BY <2>2, CarriesNothing
  <2>8. ASSUME NEW q \in Requests \ {r}, req[q] # None
        PROVE  Carries(req'[q], row', sess', kept')
    <3>1. Carries(req[q], row, sess, kept) /\ ShapeOf(req[q])
      BY <2>8 DEF Safe, Shape
    <3>2. Same(req'[q], req[q]) /\ (req[q].late => req'[q].late)
      BY <2>6, <2>8
    <3>3. req[q].op = "change" => Carries(req'[q], row', sess', kept')
      BY <2>4, <3>1, <3>2 DEF Carries, Same, ShapeOf, OwnerOps
    <3>4. req[q].op = "delete" => Carries(req'[q], row', sess', kept')
      BY <2>5, <3>1, <3>2 DEF Carries, Same
    <3>5. req[q].op \in {"login", "google"} => Carries(req'[q], row', sess', kept')
      BY <2>6, <2>8, <3>1, <3>2 DEF Carries, Same
    <3> QED
      BY <3>2, <3>3, <3>4, <3>5 DEF Carries, Same
  <2>9. ASSUME Underway({"change", "reset", "google"}, {"endSessions"})
        PROVE  Underway({"change", "reset", "google"}, {"endSessions"})'
    BY <2>0, <2>6, <2>9 DEF Underway, Same
  <2>10. OldPasswordIsOut'
    BY <2>3, <2>4, <2>9 DEF Safe, OldPasswordIsOut, LeftIn
  <2>11. HiddenIsSignedOut'
    BY <2>3, <2>4 DEF HiddenIsSignedOut, LeftIn
  <2>12. NoFilesOfNobody'
    BY <2>3, <2>5 DEF Safe, NoFilesOfNobody
  <2> QED
    BY <2>5, <2>6, <2>7, <2>8, <2>10, <2>11, <2>12 DEF Safe
<1>3. CASE DeleteGoogle(r)
  <2>0. req[r] # None /\ req[r].step = "deleteGoogle" /\ ~req[r].dead
    BY <1>3 DEF DeleteGoogle, At
  <2>1. Goto(r, "deleteCodes") /\ row' = row /\ sess' = sess /\ kept'.files = kept.files
    BY <1>3 DEF DeleteGoogle, TypeOK
  <2>2. Carries(req[r], row, sess, kept) /\ req[r].op = "delete"
    BY <2>0 DEF Safe, Shape, ShapeOf
  <2>3. PICK new : /\ req' = [req EXCEPT ![r] = new]
                   /\ new.op = "delete" /\ new.step = "deleteCodes"
    BY <1>a, <2>0, <2>1, <2>2, GotoIs
  <2>4. req'[r] = new /\ \A q \in Requests \ {r} : req'[q] = req[q]
    BY <2>3 DEF TypeOK
  <2>5. Carries(new, row', sess', kept')
    BY <2>0, <2>1, <2>2, <2>3 DEF Carries
  <2>6. ASSUME NEW q \in Requests \ {r}, req[q] # None
        PROVE  Carries(req'[q], row', sess', kept')
    <3>1. Carries(req[q], row, sess, kept)
      BY <2>6 DEF Safe
    <3> QED
      BY <2>1, <2>4, <3>1 DEF Carries
  <2>7. ASSUME Underway({"change", "reset", "google"}, {"endSessions"})
        PROVE  Underway({"change", "reset", "google"}, {"endSessions"})'
    BY <2>0, <2>4, <2>7 DEF Underway
  <2>8. ASSUME Underway({"deactivate", "delete"}, {"erase", "putBack", "endSessions"})
        PROVE  Underway({"deactivate", "delete"}, {"erase", "putBack", "endSessions"})'
    BY <2>0, <2>4, <2>8 DEF Underway
  <2> QED
    BY <2>1, <2>4, <2>5, <2>6, <2>7, <2>8
    DEF Safe, OldPasswordIsOut, HiddenIsSignedOut, NoFilesOfNobody, LeftIn
<1>4. CASE DeleteCodes(r)
  <2>0. req[r] # None /\ req[r].step = "deleteCodes" /\ ~req[r].dead /\ Goto(r, "deleteRow")
    BY <1>4 DEF DeleteCodes, At
  <2>1. Carries(req[r], row, sess, kept) /\ req[r].op = "delete"
    BY <2>0 DEF Safe, Shape, ShapeOf
  <2>2. PICK new : /\ req' = [req EXCEPT ![r] = new]
                   /\ new.op = "delete" /\ new.step = "deleteRow"
    BY <1>a, <2>0, <2>1, GotoIs
  <2>3. Carries(new, row, sess, kept)
    BY <2>0, <2>1, <2>2 DEF Carries
  <2> QED
    BY <1>4, <2>0, <2>2, <2>3, QuietKeeps DEF DeleteCodes
<1>5. CASE DeleteRow(r)
  <2>0. req[r] # None /\ req[r].step = "deleteRow" /\ ~req[r].dead /\ Goto(r, "clear")
    BY <1>5 DEF DeleteRow, At
  <2>1. ~kept.files
    BY <2>0 DEF Safe, Carries, Shape, ShapeOf
  <2>2. PICK new : req' = [req EXCEPT ![r] = new] /\ new.step = "clear"
    BY <1>a, <2>0, GotoIs
  <2>3. req'[r] = new /\ \A q \in Requests \ {r} : req'[q] = req[q]
    BY <2>2 DEF TypeOK
  <2>4. row'.pw = row.pw /\ row'.state = "gone" /\ kept' = kept
    BY <1>5 DEF DeleteRow, TypeOK, UserRecord
  <2>5. \A s \in Sids : /\ sess'[s].state \in {sess[s].state, "ended"}
                        /\ sess'[s].state \in SignedIn => sess'[s].missed
                        /\ sess'[s].spared = sess[s].spared
                        /\ sess'[s].state = "free" <=> sess[s].state = "free"
    BY <1>5, AccountsAssumption DEF DeleteRow, Ended, TypeOK, Session, SignedIn
  <2>6. Carries(new, row', sess', kept')
    BY <2>2, CarriesNothing
  <2>7. ASSUME NEW q \in Requests \ {r}, req[q] # None
        PROVE  Carries(req'[q], row', sess', kept')
    <3>1. Carries(req[q], row, sess, kept) /\ ShapeOf(req[q])
      BY <2>7 DEF Safe, Shape
    <3>2. req[q].op = "change" => Carries(req[q], row', sess', kept')
      BY <2>5, <3>1 DEF Carries, ShapeOf, OwnerOps, SignedIn
    <3> QED
      BY <2>3, <2>4, <3>1, <3>2 DEF Carries
  <2>8. OldPasswordIsOut'
    BY <2>5 DEF OldPasswordIsOut, LeftIn
  <2>9. HiddenIsSignedOut'
    BY <2>4 DEF HiddenIsSignedOut
  <2>10. NoFilesOfNobody'
    BY <2>1, <2>4 DEF NoFilesOfNobody
  <2> QED
    BY <2>3, <2>6, <2>7, <2>8, <2>9, <2>10 DEF Safe
<1> QED
  BY <1>1, <1>2, <1>3, <1>4, <1>5 DEF Deletion

LEMMA ResetSafe ==
    ASSUME TypeOK, Shape, Safe, NEW r \in Requests, PasswordReset(r)
    PROVE  Safe'
<1>a. {"done", "store", "mail", "match", "claim", "write"} \subseteq Steps
  BY DEF Steps
<1>1. CASE ForgotPassword(r)
  <2> DEFINE new == Sent("forgot", IF Allowed(tries, "resetCooldown") /\ Exists /\ row.email
                                   THEN "invalidate" ELSE "done")
  <2>1. req' = [req EXCEPT ![r] = new] /\ req[r] = None
    BY <1>1 DEF ForgotPassword, Free
  <2>2. new.step \in {"invalidate", "done"}
    BY DEF Sent
  <2> HIDE DEF new
  <2>3. Carries(new, row, sess, kept)
    BY <2>2, CarriesNothing
  <2> QED
    BY <1>1, <2>1, <2>2, <2>3, QuietKeeps DEF ForgotPassword
<1>2. CASE InvalidateAllFor(r)
  BY <1>2, <1>a, QuietGoto DEF InvalidateAllFor, At
<1>3. CASE CreateOtp(r)
  <2>0. req[r] # None /\ req[r] \in Request /\ req[r].step = "store"
    BY <1>3 DEF CreateOtp, At, TypeOK
  <2>1. PICK c \in Codes : req' = [req EXCEPT ![r].step = "mail", ![r].code = c]
    BY <1>3 DEF CreateOtp
  <2> DEFINE new == [req[r] EXCEPT !.step = "mail", !.code = c]
  <2>2. req' = [req EXCEPT ![r] = new] /\ new.step = "mail"
    BY <2>0, <2>1 DEF Request
  <2> HIDE DEF new
  <2>3. Carries(new, row, sess, kept)
    BY <2>2, CarriesNothing
  <2> QED
    BY <1>3, <2>0, <2>2, <2>3, QuietKeeps DEF CreateOtp
<1>4. CASE SendOtp(r)
  BY <1>4, <1>a, QuietGoto DEF SendOtp, At
<1>5. ASSUME NEW op, NEW c, TypeCode(r, op, c)
      PROVE  Safe'
  <2> DEFINE sent == Sent(op, IF OtpAllowed(tries) THEN "match" ELSE "done")
             new == [sent EXCEPT !.typed = c]
  <2>1. req' = [req EXCEPT ![r] = new] /\ req[r] = None
    BY <1>5 DEF TypeCode, Free
  <2>2. new.step \in {"match", "done"}
    BY DEF Sent
  <2> HIDE DEF new
  <2>3. Carries(new, row, sess, kept)
    BY <2>2, CarriesNothing
  <2> QED
    BY <1>5, <2>1, <2>2, <2>3, QuietKeeps DEF TypeCode
<1>6. CASE FindMatchingOtp(r)
  <2>0. req[r] # None /\ req[r] \in Request /\ req[r].step = "match" /\ ~req[r].dead
    BY <1>6 DEF FindMatchingOtp, At, TypeOK
  <2>1. CASE Goto(r, "done")
    BY <1>6, <1>a, <2>0, <2>1, QuietGoto DEF FindMatchingOtp
  <2>2. ASSUME NEW c, req' = [req EXCEPT ![r].step = "claim", ![r].code = c]
        PROVE  Safe'
    <3> DEFINE new == [req[r] EXCEPT !.step = "claim", !.code = c]
    <3>1. req' = [req EXCEPT ![r] = new] /\ new.step = "claim"
      BY <2>0, <2>2 DEF Request
    <3> HIDE DEF new
    <3>2. Carries(new, row, sess, kept)
      BY <3>1, CarriesNothing
    <3> QED
      BY <1>6, <2>0, <3>1, <3>2, QuietKeeps DEF FindMatchingOtp
  <2> QED
    BY <1>6, <2>1, <2>2 DEF FindMatchingOtp
<1>7. CASE ClaimOtp(r)
  <2>0. req[r] # None /\ req[r].step = "claim" /\ ~req[r].dead
    BY <1>7 DEF ClaimOtp, At
  <2>1. req[r].op = "reset"
    BY <2>0 DEF Shape, ShapeOf
  <2>2. PICK step \in {"write", "done"} : Goto(r, step)
    BY <1>7 DEF ClaimOtp
  <2>3. PICK new : req' = [req EXCEPT ![r] = new] /\ new.op = "reset" /\ new.step = step
    BY <1>a, <2>0, <2>1, <2>2, GotoIs
  <2>4. Carries(new, row, sess, kept)
    BY <2>3 DEF Carries
  <2> QED
    BY <1>7, <2>0, <2>3, <2>4, QuietKeeps DEF ClaimOtp
<1> QED
  BY <1>1, <1>2, <1>3, <1>4, <1>5, <1>6, <1>7 DEF PasswordReset

LEMMA StopSafe ==
    ASSUME TypeOK, Safe, NEW r \in Requests, Stop(r)
    PROVE  Safe'
<1>1. PICK new \in Request : /\ req' = [req EXCEPT ![r] = new]
                             /\ new.dead
                             /\ new.op = req[r].op /\ new.step = req[r].step
  BY StopIs
<1>2. Carries(req[r], row, sess, kept)
  BY DEF Stop, Safe
<1>3. Carries(new, row, sess, kept)
  BY <1>1, <1>2 DEF Carries
<1>4. new # None
  BY NoneIsNoRequest
<1> QED
  BY <1>1, <1>3, <1>4, QuietKeeps DEF Stop

(* A device that renews its session is signed in before and after.         *)
LEMMA RenewalSafe ==
    ASSUME TypeOK, Shape, Safe, NEW s \in Sids, BeginRenewal(s) \/ FinishRenewal(s)
    PROVE  Safe'
<1>1. row' = row /\ kept' = kept /\ req' = req
  BY DEF BeginRenewal, FinishRenewal
<1>2. PICK state \in {"live", "renewing", "ended"} :
         sess' = [sess EXCEPT ![s].state = state] /\ sess[s].state \in SignedIn
  BY DEF BeginRenewal, FinishRenewal, SignedIn
<1>3. \A t \in Sids : /\ sess'[t].state \in SignedIn => sess[t].state \in SignedIn
                      /\ sess'[t].state = "free" <=> sess[t].state = "free"
                      /\ sess'[t].pw = sess[t].pw /\ sess'[t].late = sess[t].late
                      /\ sess'[t].missed = sess[t].missed /\ sess'[t].spared = sess[t].spared
  BY <1>2 DEF TypeOK, Session, SignedIn
<1>4. ASSUME NEW q \in Requests, req[q] # None
      PROVE  Carries(req'[q], row', sess', kept')
  <2>1. Carries(req[q], row, sess, kept) /\ ShapeOf(req[q])
    BY <1>4 DEF Safe, Shape
  <2> QED
    BY <1>1, <1>3, <2>1 DEF Carries, ShapeOf, OwnerOps
<1>5. \A t \in Sids : LeftIn(t)' => LeftIn(t)
  BY <1>3 DEF LeftIn
<1> QED
  BY <1>1, <1>3, <1>4, <1>5 DEF Safe, OldPasswordIsOut, HiddenIsSignedOut, NoFilesOfNobody, Underway

LEMMA StaysSafe == Spec => []Safe
<1>1. Init => Safe
  <2> SUFFICES ASSUME Init PROVE Safe
    OBVIOUS
  <2>1. \A r \in Requests : req[r] = None
    BY DEF Init
  <2>2. row.state \in {"none", "active"}
    BY DEF Init, NoUser
  <2>3. \A s \in Sids : sess[s].state \in SignedIn => sess[s].pw = row.pw
    <3> DEFINE live == [NoSession EXCEPT !.state = "live", !.old = TRUE, !.pw = row.pw]
    <3>1. NoSession.state \notin SignedIn /\ live.pw = row.pw
      BY DEF NoSession, SignedIn
    <3>2. sess \in [Sids -> {NoSession, live}]
      BY DEF Init
    <3> HIDE DEF live
    <3> QED
      BY <3>1, <3>2
  <2> QED
    BY <2>1, <2>2, <2>3 DEF Safe, OldPasswordIsOut, HiddenIsSignedOut, NoFilesOfNobody, LeftIn
<1>2. TypeOK /\ Shape /\ Safe /\ [Next]_vars => Safe'
  <2> SUFFICES ASSUME TypeOK, Shape, Safe, [Next]_vars PROVE Safe'
    OBVIOUS
  <2>1. ASSUME row' = row, sess' = sess, kept' = kept, req' = req
        PROVE  Safe'
    BY <2>1 DEF Safe, OldPasswordIsOut, HiddenIsSignedOut, NoFilesOfNobody, LeftIn, Underway
  <2>2. CASE Tick
    BY <2>1, <2>2 DEF Tick
  <2>3. CASE UNCHANGED vars
    BY <2>1, <2>3 DEF vars
  <2>4. ASSUME NEW s \in Sids, BeginRenewal(s) \/ FinishRenewal(s)
        PROVE  Safe'
    BY <2>4, RenewalSafe
  <2> QED
    BY <2>2, <2>3, <2>4, SignInSafe, OwnerSafe, DeletionSafe, ResetSafe, StopSafe DEF Next
<1> QED
  BY <1>1, <1>2, TypeInvariant, PTL DEF Spec

(* Once a password is changed, reset or dropped and the request that did   *)
(* it is past ending the sessions, no session of the old password is left  *)
(* (AccountService.changePassword, PasswordResetService.resetPassword,     *)
(* FirebaseAuthService.linkExistingAccount).                               *)
THEOREM OldPasswordsAreOut == Spec => []OldPasswordIsOut
BY StaysSafe, PTL DEF Safe

(* A hidden account has nobody signed in once the sessions are ended, and  *)
(* a deleted row leaves no files (AccountService.deactivate, delete).      *)
THEOREM LeavingCompletes == Spec => []LeavingIsComplete
<1>1. Safe => LeavingIsComplete
  BY DEF Safe, LeavingIsComplete
<1> QED
  BY <1>1, StaysSafe, PTL

-----------------------------------------------------------------------------
(* A code that was claimed stays used and has one writer.                  *)
Writes(r) == /\ req[r] # None /\ req[r].op = "reset" /\ req[r].step = "write"
             /\ ~req[r].dead

Claimed ==
    /\ \A r \in Requests : At(r, "claim") => codes[req[r].code].issued
    /\ \A r \in Requests : Writes(r) =>
         /\ codes[req[r].code].issued /\ codes[req[r].code].used
         /\ resets[req[r].code] = 0
    /\ \A r, q \in Requests : Writes(r) /\ Writes(q) /\ r # q => req[r].code # req[q].code
    /\ \A c \in Codes : ~codes[c].issued \/ ~codes[c].used => resets[c] = 0
    /\ OneResetPerCode

(* Steps that claim no code and set no password with one.                  *)
Idle(q) == q.step # "claim" /\ (q.op = "reset" /\ ~q.dead => q.step # "write")

LEMMA ClaimsLast ==
    ASSUME TypeOK, Claimed, NEW r \in Requests, Idle(req'[r]),
           \A q \in Requests \ {r} : /\ req'[q] = None <=> req[q] = None
                                     /\ req[q] # None => Same(req'[q], req[q]),
           \A c \in Codes : codes[c].issued =>
              codes'[c].issued /\ (codes[c].used => codes'[c].used),
           \A q \in Requests : req[q] # None /\ req[q].step \in {"claim", "write"}
              /\ req[q].op = "reset" /\ ~req[q].dead => req[q].code \in Codes,
           \A q \in Requests : req[q] # None /\ req[q].step = "claim"
              => req[q].op = "reset",
           resets' = resets
    PROVE  Claimed'
<1>1. \A q \in Requests : Writes(q)' => /\ q # r /\ Writes(q) /\ req'[q].code = req[q].code
                                        /\ req[q].code \in Codes
  BY DEF Writes, Same, Idle
<1>2. \A q \in Requests : At(q, "claim")' =>
         At(q, "claim") /\ req'[q].code = req[q].code /\ req[q].code \in Codes
  BY DEF At, Same, Idle
<1>3. \A q \in Requests : At(q, "claim")' => codes'[req'[q].code].issued
  BY <1>2 DEF Claimed
<1>4. \A q \in Requests : Writes(q)' =>
         /\ codes'[req'[q].code].issued /\ codes'[req'[q].code].used
         /\ resets'[req'[q].code] = 0
  BY <1>1 DEF Claimed
<1>5. \A p, q \in Requests : Writes(p)' /\ Writes(q)' /\ p # q => req'[p].code # req'[q].code
  BY <1>1 DEF Claimed
<1>6. \A c \in Codes : ~codes'[c].issued \/ ~codes'[c].used => resets'[c] = 0
  BY DEF Claimed
<1> QED
  BY <1>3, <1>4, <1>5, <1>6 DEF Claimed, OneResetPerCode

(* The same, for a step that replaces one request.                         *)
LEMMA ClaimsStay ==
    ASSUME TypeOK, Shape, Claimed, NEW r \in Requests, NEW new, Idle(new),
           \/ req' = [req EXCEPT ![r] = new]
           \/ req' = [Outdated(req, r) EXCEPT ![r] = new],
           \A c \in Codes : codes[c].issued =>
              codes'[c].issued /\ (codes[c].used => codes'[c].used),
           resets' = resets
    PROVE  Claimed'
<1>1. req'[r] = new
  BY OutdatedIs DEF TypeOK
<1>2. \A q \in Requests \ {r} : /\ req'[q] = None <=> req[q] = None
                                /\ req[q] # None => Same(req'[q], req[q])
  <2>1. CASE req' = [req EXCEPT ![r] = new]
    BY <2>1 DEF Same, TypeOK
  <2>2. CASE req' = [Outdated(req, r) EXCEPT ![r] = new]
    BY <2>2, OutdatedIs
  <2> QED
    BY <2>1, <2>2
<1>3. \A q \in Requests :
        /\ req[q] # None /\ req[q].step \in {"claim", "write"}
           /\ req[q].op = "reset" /\ ~req[q].dead => req[q].code \in Codes
        /\ req[q] # None /\ req[q].step = "claim" => req[q].op = "reset"
  BY DEF Shape, ShapeOf
<1> QED
  BY <1>1, <1>2, <1>3, ClaimsLast

LEMMA ClaimsGoto ==
    ASSUME TypeOK, Shape, Claimed, NEW r \in Requests, req[r] # None, ~req[r].dead,
           NEW step \in Steps, Goto(r, step), step \notin {"claim", "write"},
           \A c \in Codes : codes[c].issued =>
              codes'[c].issued /\ (codes[c].used => codes'[c].used),
           resets' = resets
    PROVE  Claimed'
<1>1. PICK new : req' = [req EXCEPT ![r] = new] /\ new.step = step
  BY GotoIs
<1>2. Idle(new)
  BY <1>1 DEF Idle
<1> QED
  BY <1>1, <1>2, ClaimsStay

LEMMA SignInClaims ==
    ASSUME TypeOK, Shape, Claimed, NEW r \in Requests, SignInNext(r)
    PROVE  Claimed'
<1>a. {"clear", "done", "issue"} \subseteq Steps
  BY DEF Steps
<1>b. codes' = codes /\ resets' = resets
  BY DEF SignInNext, Register, InsertUser, Login, FindByIdentifier, FirebaseLogin,
         LinkExistingAccount, Reactivate, IssueToken, ClearTries
<1>c. ASSUME req[r] # None, ~req[r].dead, NEW step \in {"clear", "done", "issue"}, Goto(r, step)
      PROVE  Claimed'
  BY <1>a, <1>b, <1>c, ClaimsGoto
<1>1. CASE Register(r)
  <2> DEFINE new == Sent("register", IF row = NoUser THEN "insertUser" ELSE "done")
  <2>1. req' = [req EXCEPT ![r] = new]
    BY <1>1 DEF Register
  <2>2. Idle(new)
    BY DEF Sent, Idle
  <2> HIDE DEF new
  <2> QED
    BY <1>b, <2>1, <2>2, ClaimsStay
<1>2. CASE InsertUser(r)
  <2>0. req[r] # None /\ req[r] \in Request /\ ~req[r].dead
    BY <1>2 DEF InsertUser, At, TypeOK
  <2>1. CASE Goto(r, "done")
    BY <1>c, <2>0, <2>1
  <2>2. CASE req' = [req EXCEPT ![r].step = "reactivate", ![r].user = row']
    <3> DEFINE new == [req[r] EXCEPT !.step = "reactivate", !.user = row']
    <3>1. req' = [req EXCEPT ![r] = new]
      BY <2>2
    <3>2. Idle(new)
      BY <2>0 DEF Request, Idle
    <3> HIDE DEF new
    <3> QED
      BY <1>b, <3>1, <3>2, ClaimsStay
  <2> QED
    BY <1>2, <2>1, <2>2 DEF InsertUser
<1>3. ASSUME NEW p, Login(r, p)
      PROVE  Claimed'
  <2> DEFINE sent == Sent("login", IF Allowed(tries, "login") THEN "find" ELSE "done")
             new == [sent EXCEPT !.typed = p]
  <2>1. req' = [req EXCEPT ![r] = new]
    BY <1>3 DEF Login
  <2>2. Idle(new)
    BY DEF Sent, Idle
  <2> HIDE DEF new
  <2> QED
    BY <1>b, <2>1, <2>2, ClaimsStay
<1>4. CASE FindByIdentifier(r)
  <2>0. req[r] # None /\ req[r] \in Request /\ ~req[r].dead
    BY <1>4 DEF FindByIdentifier, At, TypeOK
  <2>1. CASE Goto(r, "done")
    BY <1>c, <2>0, <2>1
  <2>2. CASE Read(r, "reactivate")
    <3> DEFINE new == [req[r] EXCEPT !.step = "reactivate", !.user = row]
    <3>1. req' = [req EXCEPT ![r] = new]
      BY <2>2 DEF Read
    <3>2. Idle(new)
      BY <2>0 DEF Request, Idle
    <3> HIDE DEF new
    <3> QED
      BY <1>b, <3>1, <3>2, ClaimsStay
  <2> QED
    BY <1>4, <2>1, <2>2 DEF FindByIdentifier
<1>5. ASSUME NEW trusted \in BOOLEAN, FirebaseLogin(r, trusted)
      PROVE  Claimed'
  <2> DEFINE step == IF Exists /\ row.google THEN "reactivate"
                     ELSE IF Exists /\ trusted THEN "link"
                     ELSE IF row = NoUser THEN "insertUser"
                     ELSE "done"
             new == [Sent("google", step) EXCEPT !.user = row]
  <2>0. step \in {"reactivate", "link", "insertUser", "done"}
    OBVIOUS
  <2>1. req' = [req EXCEPT ![r] = new]
    BY <1>5 DEF FirebaseLogin
  <2> HIDE DEF step
  <2>2. Idle(new)
    BY <2>0 DEF Sent, Idle
  <2> HIDE DEF new
  <2> QED
    BY <1>b, <2>1, <2>2, ClaimsStay
<1>6. CASE LinkExistingAccount(r)
  <2>0. req[r] # None /\ req[r] \in Request
    BY <1>6 DEF LinkExistingAccount, At, TypeOK
  <2> DEFINE user == [req[r].user EXCEPT !.pw = 0, !.google = TRUE]
             new == [req[r] EXCEPT !.step = "endSessions", !.user = user]
  <2>1. req' = [Outdated(req, r) EXCEPT ![r] = new]
    BY <1>6, OutdatedIs DEF LinkExistingAccount
  <2> HIDE DEF user
  <2>2. Idle(new)
    BY <2>0 DEF Request, Idle
  <2> HIDE DEF new
  <2> QED
    BY <1>b, <2>1, <2>2, ClaimsStay
<1>7. CASE Reactivate(r)
  BY <1>7, <1>c DEF Reactivate, At
<1>8. CASE IssueToken(r)
  BY <1>8, <1>c DEF IssueToken, At
<1>9. CASE ClearTries(r)
  BY <1>9, <1>c DEF ClearTries, At
<1> QED
  BY <1>1, <1>2, <1>3, <1>4, <1>5, <1>6, <1>7, <1>8, <1>9 DEF SignInNext

LEMMA OwnerClaims ==
    ASSUME TypeOK, Shape, Claimed, NEW r \in Requests, OwnerRequests(r)
    PROVE  Claimed'
<1>a. {"clear", "done", "verify", "reactivate", "deleteGoogle"} \subseteq Steps
  BY DEF Steps
<1>1. ASSUME NEW op \in OwnerOps, NEW s, NEW p, AccountRequest(r, op, s, p)
      PROVE  Claimed'
  <2> DEFINE step == IF ~Allowed(tries, "identityProof") THEN "done"
                     ELSE IF op = "create" THEN "verify" ELSE "require"
             new == [Sent(op, step) EXCEPT !.caller = s, !.typed = p]
  <2>0. step \in {"done", "verify", "require"}
    OBVIOUS
  <2>1. req' = [req EXCEPT ![r] = new] /\ codes' = codes /\ resets' = resets
    BY <1>1 DEF AccountRequest
  <2> HIDE DEF step
  <2>2. Idle(new)
    BY <2>0 DEF Sent, Idle
  <2> HIDE DEF new
  <2> QED
    BY <2>1, <2>2, ClaimsStay
<1>2. CASE Require(r)
  <2>1. PICK step \in {"verify", "done"} : Goto(r, step)
    BY <1>2 DEF Require
  <2> QED
    BY <1>2, <1>a, <2>1, ClaimsGoto DEF Require, At
<1>3. CASE Verify(r)
  <2>0. req[r] # None /\ req[r] \in Request /\ req[r].step = "verify" /\ ~req[r].dead
    BY <1>3 DEF Verify, At, TypeOK
  <2>1. codes' = codes /\ resets' = resets /\ req[r].op \in OwnerOps
    BY <1>3, <2>0 DEF Verify, Shape, ShapeOf
  <2>2. CASE Goto(r, "done")
    BY <1>a, <2>0, <2>1, <2>2, ClaimsGoto
  <2>3. CASE Read(r, "write")
    <3> DEFINE new == [req[r] EXCEPT !.step = "write", !.user = row]
    <3>1. req' = [req EXCEPT ![r] = new]
      BY <2>3 DEF Read
    <3>2. Idle(new)
      BY <2>0, <2>1 DEF Request, Idle, OwnerOps
    <3> HIDE DEF new
    <3> QED
      BY <2>1, <3>1, <3>2, ClaimsStay
  <2> QED
    BY <1>3, <2>2, <2>3 DEF Verify
<1>4. CASE WriteUser(r)
  <2>0. req[r] # None /\ req[r] \in Request /\ req[r].step = "write" /\ ~req[r].dead
    BY <1>4 DEF WriteUser, At, TypeOK
  <2> DEFINE op == req[r].op
             step == AfterWrite(op)
             new == [req[r] EXCEPT !.step = step, !.typed = 0]
  <2>1. step \in {"clear", "erase", "endSessions"}
    BY DEF AfterWrite
  <2>2. req' = [req EXCEPT ![r] = new] \/ req' = [Outdated(req, r) EXCEPT ![r] = new]
    <3>1. CASE op = "addEmail"
      BY <1>4, <3>1 DEF WriteUser, TypeOK
    <3>2. CASE op # "addEmail"
      BY <1>4, <3>2, OutdatedIs DEF WriteUser, TypeOK
    <3> QED
      BY <3>1, <3>2
  <2>3. codes' = codes
    BY <1>4 DEF WriteUser
  <2> HIDE DEF step
  <2>4. Idle(new)
    BY <2>0, <2>1 DEF Request, Idle
  <2> HIDE DEF new
  <2>5. CASE op # "reset"
    BY <1>4, <2>2, <2>3, <2>4, <2>5, ClaimsStay DEF WriteUser
  <2>6. CASE op = "reset"
    <3> DEFINE c == req[r].code
    <3>1. resets' = [resets EXCEPT ![c] = @ + 1]
      BY <1>4, <2>6 DEF WriteUser
    <3>2. /\ Writes(r) /\ c \in Codes
          /\ codes[c].issued /\ codes[c].used /\ resets[c] = 0
      BY <2>0, <2>6 DEF Writes, Claimed, Shape, ShapeOf
    <3>3. resets'[c] = 1 /\ \A d \in Codes \ {c} : resets'[d] = resets[d]
      BY <3>1, <3>2 DEF TypeOK
    <3>4. /\ req'[r] = new
          /\ \A q \in Requests \ {r} : /\ req'[q] = None <=> req[q] = None
                                       /\ req[q] # None => Same(req'[q], req[q])
      <4>1. CASE req' = [req EXCEPT ![r] = new]
        BY <4>1 DEF Same, TypeOK
      <4>2. CASE req' = [Outdated(req, r) EXCEPT ![r] = new]
        BY <4>2, OutdatedIs
      <4> QED
        BY <2>2, <4>1, <4>2
    <3>5. \A q \in Requests : Writes(q)' =>
             /\ q # r /\ Writes(q) /\ req'[q].code = req[q].code
             /\ req[q].code \in Codes \ {c}
      <4>1. ASSUME NEW q \in Requests, Writes(q)'
            PROVE  q # r /\ Writes(q) /\ req'[q].code = req[q].code
        BY <2>4, <3>4, <4>1 DEF Writes, Same, Idle
      <4>2. ASSUME NEW q \in Requests, q # r, Writes(q)
            PROVE  req[q].code \in Codes \ {c}
        BY <3>2, <4>2 DEF Claimed, Writes, Shape, ShapeOf
      <4> QED
        BY <4>1, <4>2
    <3>6. \A q \in Requests : At(q, "claim")' => At(q, "claim") /\ req'[q].code = req[q].code
      BY <2>4, <3>4 DEF At, Same, Idle
    <3>7. \A q \in Requests : Writes(q)' =>
             /\ codes'[req'[q].code].issued /\ codes'[req'[q].code].used
             /\ resets'[req'[q].code] = 0
      BY <2>3, <3>3, <3>5 DEF Claimed
    <3>8. \A p, q \in Requests : Writes(p)' /\ Writes(q)' /\ p # q =>
             req'[p].code # req'[q].code
      BY <3>5 DEF Claimed
    <3>9. \A d \in Codes : ~codes'[d].issued \/ ~codes'[d].used => resets'[d] = 0
      BY <2>3, <3>2, <3>3 DEF Claimed
    <3>10. OneResetPerCode'
      BY <3>3 DEF Claimed, OneResetPerCode
    <3>11. \A q \in Requests : At(q, "claim")' => codes'[req'[q].code].issued
      BY <2>3, <3>6 DEF Claimed
    <3> QED
      BY <3>7, <3>8, <3>9, <3>10, <3>11 DEF Claimed
  <2> QED
    BY <2>5, <2>6
<1>5. CASE EndAllSessions(r)
  <2>1. PICK step \in {"reactivate", "deleteGoogle", "done", "clear"} : Goto(r, step)
    BY <1>5 DEF EndAllSessions
  <2> QED
    BY <1>5, <1>a, <2>1, ClaimsGoto DEF EndAllSessions, At
<1> QED
  BY <1>1, <1>2, <1>3, <1>4, <1>5 DEF OwnerRequests, OwnerOps

LEMMA DeletionClaims ==
    ASSUME TypeOK, Shape, Claimed, NEW r \in Requests, Deletion(r)
    PROVE  Claimed'
<1>a. {"endSessions", "putBack", "deleteCodes", "deleteRow", "clear"} \subseteq Steps
  BY DEF Steps
<1>1. CASE PutBack(r)
  <2> DEFINE new == Sent("delete", "done")
  <2>1. /\ req' = [Outdated(req, r) EXCEPT ![r] = new]
        /\ codes' = codes /\ resets' = resets
    BY <1>1 DEF PutBack
  <2>2. Idle(new)
    BY DEF Sent, Idle
  <2> HIDE DEF new
  <2> QED
    BY <2>1, <2>2, ClaimsStay
<1>2. CASE EraseFiles(r) \/ DeleteGoogle(r) \/ DeleteCodes(r) \/ DeleteRow(r)
  <2>1. PICK step \in {"endSessions", "putBack", "deleteCodes", "deleteRow", "clear"} :
           Goto(r, step)
    BY <1>2 DEF EraseFiles, DeleteGoogle, DeleteCodes, DeleteRow
  <2>2. req[r] # None /\ ~req[r].dead /\ resets' = resets
    BY <1>2 DEF EraseFiles, DeleteGoogle, DeleteCodes, DeleteRow, At
  <2>3. \A c \in Codes : codes[c].issued =>
           codes'[c].issued /\ (codes[c].used => codes'[c].used)
    <3>1. codes' = codes \/ codes' = [c \in Codes |-> [codes[c] EXCEPT !.used = TRUE]]
      BY <1>2 DEF EraseFiles, DeleteGoogle, DeleteCodes, DeleteRow
    <3>2. \A c \in Codes : /\ [codes[c] EXCEPT !.used = TRUE].issued = codes[c].issued
                           /\ [codes[c] EXCEPT !.used = TRUE].used
      BY DEF TypeOK, Otp
    <3> QED
      BY <3>1, <3>2
  <2> QED
    BY <1>a, <2>1, <2>2, <2>3, ClaimsGoto
<1> QED
  BY <1>1, <1>2 DEF Deletion

LEMMA ResetClaims ==
    ASSUME TypeOK, Shape, Claimed, NEW r \in Requests, PasswordReset(r)
    PROVE  Claimed'
<1>a. {"done", "store", "mail", "match", "claim", "write"} \subseteq Steps
  BY DEF Steps
<1>1. CASE ForgotPassword(r)
  <2> DEFINE new == Sent("forgot", IF Allowed(tries, "resetCooldown") /\ Exists /\ row.email
                                   THEN "invalidate" ELSE "done")
  <2>1. req' = [req EXCEPT ![r] = new] /\ codes' = codes /\ resets' = resets
    BY <1>1 DEF ForgotPassword
  <2>2. Idle(new)
    BY DEF Sent, Idle
  <2> HIDE DEF new
  <2> QED
    BY <2>1, <2>2, ClaimsStay
<1>2. CASE InvalidateAllFor(r)
  <2>1. Goto(r, "store") /\ req[r] # None /\ ~req[r].dead /\ resets' = resets
    BY <1>2 DEF InvalidateAllFor, At
  <2>2. \A c \in Codes : codes[c].issued =>
           codes'[c].issued /\ (codes[c].used => codes'[c].used)
    BY <1>2 DEF InvalidateAllFor, TypeOK, Otp
  <2> QED
    BY <1>a, <2>1, <2>2, ClaimsGoto
<1>3. CASE CreateOtp(r)
  <2>0. req[r] # None /\ req[r] \in Request /\ req[r].step = "store" /\ resets' = resets
    BY <1>3 DEF CreateOtp, At, TypeOK
  <2>1. PICK c \in Codes :
           /\ ~codes[c].issued
           /\ codes' = [codes EXCEPT ![c] = [issued |-> TRUE, used |-> FALSE,
                                             until |-> now + CodeTTL, mailed |-> FALSE]]
           /\ req' = [req EXCEPT ![r].step = "mail", ![r].code = c]
    BY <1>3 DEF CreateOtp
  <2> DEFINE new == [req[r] EXCEPT !.step = "mail", !.code = c]
  <2>2. req' = [req EXCEPT ![r] = new]
    BY <2>1
  <2>3. Idle(new)
    BY <2>0 DEF Request, Idle
  <2> HIDE DEF new
  <2>4. \A d \in Codes : codes[d].issued =>
           codes'[d].issued /\ (codes[d].used => codes'[d].used)
    BY <2>1 DEF TypeOK
  <2> QED
    BY <2>0, <2>2, <2>3, <2>4, ClaimsStay
<1>4. CASE SendOtp(r)
  <2>1. Goto(r, "done") /\ req[r] # None /\ ~req[r].dead /\ resets' = resets
    BY <1>4 DEF SendOtp, At
  <2>2. PICK mailed : codes' = [codes EXCEPT ![req[r].code].mailed = mailed]
    BY <1>4 DEF SendOtp
  <2>3. \A c \in Codes : codes'[c].issued = codes[c].issued /\ codes'[c].used = codes[c].used
    BY <2>2 DEF TypeOK, Otp
  <2> QED
    BY <1>a, <2>1, <2>3, ClaimsGoto
<1>5. ASSUME NEW op, NEW c, TypeCode(r, op, c)
      PROVE  Claimed'
  <2> DEFINE sent == Sent(op, IF OtpAllowed(tries) THEN "match" ELSE "done")
             new == [sent EXCEPT !.typed = c]
  <2>1. req' = [req EXCEPT ![r] = new] /\ codes' = codes /\ resets' = resets
    BY <1>5 DEF TypeCode
  <2>2. Idle(new)
    BY DEF Sent, Idle
  <2> HIDE DEF new
  <2> QED
    BY <2>1, <2>2, ClaimsStay
<1>6. CASE FindMatchingOtp(r)
  <2>0. req[r] # None /\ req[r] \in Request /\ req[r].step = "match" /\ ~req[r].dead
    BY <1>6 DEF FindMatchingOtp, At, TypeOK
  <2>1. codes' = codes /\ resets' = resets
    BY <1>6 DEF FindMatchingOtp
  <2> DEFINE newest == Max(ActiveCodes)
  <2>2. ActiveCodes # {} => newest \in Codes /\ codes[newest].issued
    <3>1. ActiveCodes \in SUBSET Codes /\ \A c \in ActiveCodes : codes[c].issued
      BY DEF ActiveCodes
    <3> QED
      BY <3>1, NewestIsOne
  <2>3. \/ Goto(r, "done")
        \/ /\ ActiveCodes # {} /\ req[r].op = "reset"
           /\ req' = [req EXCEPT ![r].step = "claim", ![r].code = newest]
    BY <1>6 DEF FindMatchingOtp
  <2> HIDE DEF newest
  <2>4. CASE Goto(r, "done")
    BY <1>a, <2>0, <2>1, <2>4, ClaimsGoto
  <2>5. CASE /\ newest \in Codes /\ codes[newest].issued
             /\ req' = [req EXCEPT ![r].step = "claim", ![r].code = newest]
    <3> DEFINE new == [req[r] EXCEPT !.step = "claim", !.code = newest]
    <3>1. new.step = "claim" /\ new.code = newest
      BY <2>0 DEF Request
    <3>2. req' = [req EXCEPT ![r] = new]
      BY <2>5
    <3> HIDE DEF new
    <3>3. req'[r] = new /\ \A q \in Requests \ {r} : req'[q] = req[q]
      BY <3>2 DEF TypeOK
    <3>4. \A q \in Requests : Writes(q)' => Writes(q) /\ req'[q] = req[q]
      BY <3>1, <3>3 DEF Writes
    <3>5. \A q \in Requests : At(q, "claim")' => codes'[req'[q].code].issued
      BY <2>1, <2>5, <3>1, <3>3 DEF At, Claimed
    <3>6. \A q \in Requests : Writes(q)' =>
             /\ codes'[req'[q].code].issued /\ codes'[req'[q].code].used
             /\ resets'[req'[q].code] = 0
      BY <2>1, <3>4 DEF Claimed
    <3>7. \A p, q \in Requests : Writes(p)' /\ Writes(q)' /\ p # q =>
             req'[p].code # req'[q].code
      BY <3>4 DEF Claimed
    <3> QED
      BY <2>1, <3>5, <3>6, <3>7 DEF Claimed, OneResetPerCode
  <2> QED
    BY <2>2, <2>3, <2>4, <2>5
<1>7. CASE ClaimOtp(r)
  <2>0. /\ req[r] # None /\ req[r].step = "claim" /\ ~req[r].dead /\ At(r, "claim")
        /\ req[r].op = "reset" /\ req[r].code \in Codes
    BY <1>7 DEF ClaimOtp, At, Shape, ShapeOf
  <2> DEFINE c == req[r].code
  <2>1. resets' = resets /\ codes[c].issued
    BY <1>7, <2>0 DEF ClaimOtp, Claimed
  <2>2. CASE Goto(r, "done") /\ codes' = codes
    BY <1>a, <2>0, <2>1, <2>2, ClaimsGoto
  <2>3. CASE ~codes[c].used /\ codes' = [codes EXCEPT ![c].used = TRUE] /\ Goto(r, "write")
    <3>1. /\ codes'[c].used /\ codes'[c].issued
          /\ \A d \in Codes \ {c} : codes'[d] = codes[d]
      BY <2>0, <2>1, <2>3 DEF TypeOK, Otp
    <3>2. PICK new : req' = [req EXCEPT ![r] = new] /\ new.step = "write" /\ new.code = c
      BY <1>a, <2>0, <2>3, GotoIs
    <3>3. req'[r] = new /\ \A q \in Requests \ {r} : req'[q] = req[q]
      BY <3>2 DEF TypeOK
    <3>4. resets[c] = 0
      BY <2>0, <2>3 DEF Claimed
    <3>5. \A q \in Requests \ {r} : Writes(q)' =>
             Writes(q) /\ req'[q] = req[q] /\ req[q].code \in Codes \ {c}
      <4>1. ASSUME NEW q \in Requests \ {r}, Writes(q)'
            PROVE  Writes(q) /\ req'[q] = req[q]
        BY <3>3, <4>1 DEF Writes
      <4>2. ASSUME NEW q \in Requests \ {r}, Writes(q)
            PROVE  req[q].code \in Codes \ {c}
        BY <2>3, <4>2 DEF Claimed, Writes, Shape, ShapeOf
      <4> QED
        BY <4>1, <4>2
    <3>6. \A q \in Requests : At(q, "claim")' => codes'[req'[q].code].issued
      <4>1. ASSUME NEW q \in Requests, At(q, "claim")'
            PROVE  q # r /\ At(q, "claim") /\ req'[q] = req[q]
        BY <3>2, <3>3, <4>1 DEF At
      <4>2. ASSUME NEW q \in Requests, At(q, "claim")
            PROVE  req[q].code \in Codes /\ codes[req[q].code].issued
        BY <4>2 DEF At, Claimed, Shape, ShapeOf
      <4> QED
        BY <3>1, <4>1, <4>2
    <3>7. \A q \in Requests : Writes(q)' =>
             /\ codes'[req'[q].code].issued /\ codes'[req'[q].code].used
             /\ resets'[req'[q].code] = 0
      BY <2>1, <3>1, <3>2, <3>3, <3>4, <3>5 DEF Claimed
    <3>8. \A p, q \in Requests : Writes(p)' /\ Writes(q)' /\ p # q =>
             req'[p].code # req'[q].code
      BY <3>2, <3>3, <3>5 DEF Claimed
    <3>9. \A d \in Codes : ~codes'[d].issued \/ ~codes'[d].used => resets'[d] = 0
      BY <2>1, <3>1 DEF Claimed
    <3> QED
      BY <2>1, <3>6, <3>7, <3>8, <3>9 DEF Claimed, OneResetPerCode
  <2> QED
    BY <1>7, <2>2, <2>3 DEF ClaimOtp
<1> QED
  BY <1>1, <1>2, <1>3, <1>4, <1>5, <1>6, <1>7 DEF PasswordReset

(* A code sets one password, however many resets send it at once           *)
(* (PasswordResetService.resetPassword claims it in one update).           *)
THEOREM CodesResetOnce == Spec => []OneResetPerCode
<1>1. Init => Claimed
  BY DEF Init, Claimed, Writes, At, OneResetPerCode
<1>2. TypeOK /\ Shape /\ Claimed /\ [Next]_vars => Claimed'
  <2> SUFFICES ASSUME TypeOK, Shape, Claimed, [Next]_vars PROVE Claimed'
    OBVIOUS
  <2>1. ASSUME codes' = codes, resets' = resets, req' = req
        PROVE  Claimed'
    BY <2>1 DEF Claimed, Writes, At, OneResetPerCode
  <2>2. CASE Tick
    BY <2>1, <2>2 DEF Tick
  <2>3. CASE UNCHANGED vars
    BY <2>1, <2>3 DEF vars
  <2>4. ASSUME NEW r \in Requests, Stop(r)
        PROVE  Claimed'
    <3>1. PICK new \in Request : /\ req' = [req EXCEPT ![r] = new]
                                 /\ new.dead /\ new.step = req[r].step
      BY <2>4, StopIs
    <3>2. Idle(new) /\ codes' = codes /\ resets' = resets
      BY <2>4, <3>1 DEF Stop, Idle
    <3> QED
      BY <3>1, <3>2, ClaimsStay
  <2>5. ASSUME NEW s \in Sids, BeginRenewal(s) \/ FinishRenewal(s)
        PROVE  Claimed'
    BY <2>1, <2>5 DEF BeginRenewal, FinishRenewal
  <2> QED
    BY <2>2, <2>3, <2>4, <2>5, SignInClaims, OwnerClaims, DeletionClaims, ResetClaims DEF Next
<1> QED
  BY <1>1, <1>2, TypeInvariant, PTL DEF Spec, Claimed

-----------------------------------------------------------------------------
(* How often a code is compared.  Whoever is about to compare was counted  *)
(* in the window that is running.  A code that is younger than this window *)
(* was only compared in it; an older one, in one window before it as well. *)

Matching == {r \in Requests : At(r, "match")}
Pending == Cardinality(Matching)

Window == tries["otp"].since
Used == tries["otp"].used

Live(c) == codes[c].issued /\ codes[c].until >= now

(* c was issued when the running window had started.                       *)
Younger(c) == Window + CodeTTL <= codes[c].until

PendingIsCounted ==
    /\ IsFiniteSet(Matching)
    /\ Window <= now
    /\ Pending <= Used /\ Pending <= Points["otp"]
    /\ Matching # {} => now < Window + 3 /\ Used >= 1

CodeIsCounted(c) ==
    /\ ~codes[c].issued => guesses[c] = 0
    /\ codes[c].issued => codes[c].until <= now + CodeTTL
    /\ guesses[c] > 0 => Used >= 1 /\ codes[c].until < Window + 3 + CodeTTL
    /\ Live(c) /\ Younger(c) =>
          guesses[c] + Pending <= Used /\ guesses[c] + Pending <= Points["otp"]
    /\ Live(c) /\ ~Younger(c) =>
          /\ guesses[c] + Pending <= Points["otp"] + Used
          /\ guesses[c] + Pending <= 2 * Points["otp"]
    /\ guesses[c] <= 2 * Points["otp"]

Counted == PendingIsCounted /\ \A c \in Codes : CodeIsCounted(c)

LEMMA Numbers ==
    ASSUME TypeOK
    PROVE  /\ now \in Nat /\ Window \in Nat /\ Used \in Nat /\ Points["otp"] \in Nat
           /\ CodeTTL \in Nat /\ CodeTTL <= 3 /\ Duration["otp"] = 3
           /\ \A c \in Codes : guesses[c] \in Nat /\ codes[c] \in Otp /\ codes[c].until \in Nat
           /\ IsFiniteSet(Matching) => Pending \in Nat
<1>1. "otp" \in Limiters
  BY DEF Limiters
<1>2. Window \in Nat /\ Used \in Nat /\ Points["otp"] \in Nat
  BY <1>1, AccountsAssumption DEF TypeOK, Window, Used
<1>3. Duration["otp"] = 3
  BY DEF Duration
<1>4. \A c \in Codes : guesses[c] \in Nat /\ codes[c] \in Otp /\ codes[c].until \in Nat
  BY DEF TypeOK, Otp
<1>5. IsFiniteSet(Matching) => Pending \in Nat
  BY FS_CardinalityType DEF Pending
<1> QED
  BY <1>2, <1>3, <1>4, <1>5, AccountsAssumption, CodeEndsWithinAWindow DEF TypeOK

(* Nobody else sets out to compare, and codes and counts stay.             *)
LEMMA CountsStay ==
    ASSUME TypeOK, Counted, Matching' \subseteq Matching, guesses' = guesses,
           tries'["otp"] = tries["otp"], now' = now,
           \A c \in Codes : codes'[c].issued = codes[c].issued /\ codes'[c].until = codes[c].until
    PROVE  Counted'
<1>1. /\ IsFiniteSet(Matching') /\ Cardinality(Matching') <= Cardinality(Matching)
      /\ IsFiniteSet(Matching)
  BY FS_Subset DEF Counted, PendingIsCounted
<1>2. Pending' <= Pending /\ Pending' \in Nat /\ Pending \in Nat
  BY <1>1, FS_CardinalityType DEF Pending
<1>3. Window' = Window /\ Used' = Used
  BY DEF Window, Used
<1>4. PendingIsCounted'
  BY <1>1, <1>2, <1>3, Numbers DEF Counted, PendingIsCounted
<1>5. ASSUME NEW c \in Codes PROVE CodeIsCounted(c)'
  <2>1. CodeIsCounted(c)
    BY DEF Counted
  <2> QED
    BY <1>2, <1>3, <2>1, Numbers DEF CodeIsCounted, Live, Younger
<1> QED
  BY <1>4, <1>5 DEF Counted

(* r takes a step that is not towards a comparison.                        *)
Elsewhere(r) ==
    /\ req'[r].step # "match"
    /\ \A q \in Requests \ {r} : /\ req'[q] = None <=> req[q] = None
                                 /\ req[q] # None => Same(req'[q], req[q])

LEMMA NobodyMatches ==
    ASSUME NEW r \in Requests, Elsewhere(r)
    PROVE  Matching' \subseteq Matching
BY DEF Elsewhere, Matching, At, Same

LEMMA ReplacedElsewhere ==
    ASSUME TypeOK, NEW r \in Requests, NEW new, new.step # "match",
           \/ req' = [req EXCEPT ![r] = new]
           \/ req' = [Outdated(req, r) EXCEPT ![r] = new]
    PROVE  Elsewhere(r)
<1>1. CASE req' = [req EXCEPT ![r] = new]
  BY <1>1 DEF Elsewhere, Same, TypeOK
<1>2. CASE req' = [Outdated(req, r) EXCEPT ![r] = new]
  BY <1>2, OutdatedIs DEF Elsewhere
<1> QED
  BY <1>1, <1>2

LEMMA GoneElsewhere ==
    ASSUME TypeOK, NEW r \in Requests, req[r] # None, ~req[r].dead,
           NEW step \in Steps \ {"match"}, Goto(r, step)
    PROVE  Elsewhere(r)
<1>1. PICK new : req' = [req EXCEPT ![r] = new] /\ new.step = step
  BY GotoIs
<1> QED
  BY <1>1, ReplacedElsewhere

LEMMA SignInElsewhere ==
    ASSUME TypeOK, NEW r \in Requests, SignInNext(r)
    PROVE  Elsewhere(r)
<1>a. {"clear", "done", "issue"} \subseteq Steps \ {"match"}
  BY DEF Steps
<1>1. CASE Register(r)
  <2> DEFINE new == Sent("register", IF row = NoUser THEN "insertUser" ELSE "done")
  <2>1. req' = [req EXCEPT ![r] = new] /\ new.step # "match"
    BY <1>1 DEF Register, Sent
  <2> QED
    BY <2>1, ReplacedElsewhere
<1>2. CASE InsertUser(r)
  <2>0. req[r] # None /\ req[r] \in Request /\ ~req[r].dead
    BY <1>2 DEF InsertUser, At, TypeOK
  <2>1. CASE Goto(r, "done")
    BY <1>a, <2>0, <2>1, GoneElsewhere
  <2>2. CASE req' = [req EXCEPT ![r].step = "reactivate", ![r].user = row']
    <3> DEFINE new == [req[r] EXCEPT !.step = "reactivate", !.user = row']
    <3>1. req' = [req EXCEPT ![r] = new] /\ new.step # "match"
      BY <2>0, <2>2 DEF Request
    <3> QED
      BY <3>1, ReplacedElsewhere
  <2> QED
    BY <1>2, <2>1, <2>2 DEF InsertUser
<1>3. ASSUME NEW p, Login(r, p) PROVE Elsewhere(r)
  <2> DEFINE sent == Sent("login", IF Allowed(tries, "login") THEN "find" ELSE "done")
             new == [sent EXCEPT !.typed = p]
  <2>1. req' = [req EXCEPT ![r] = new] /\ new.step # "match"
    BY <1>3 DEF Login, Sent
  <2> QED
    BY <2>1, ReplacedElsewhere
<1>4. CASE FindByIdentifier(r)
  <2>0. req[r] # None /\ req[r] \in Request /\ ~req[r].dead
    BY <1>4 DEF FindByIdentifier, At, TypeOK
  <2>1. CASE Goto(r, "done")
    BY <1>a, <2>0, <2>1, GoneElsewhere
  <2>2. CASE Read(r, "reactivate")
    <3> DEFINE new == [req[r] EXCEPT !.step = "reactivate", !.user = row]
    <3>1. req' = [req EXCEPT ![r] = new] /\ new.step # "match"
      BY <2>0, <2>2 DEF Read, Request
    <3> QED
      BY <3>1, ReplacedElsewhere
  <2> QED
    BY <1>4, <2>1, <2>2 DEF FindByIdentifier
<1>5. ASSUME NEW trusted \in BOOLEAN, FirebaseLogin(r, trusted) PROVE Elsewhere(r)
  <2> DEFINE step == IF Exists /\ row.google THEN "reactivate"
                     ELSE IF Exists /\ trusted THEN "link"
                     ELSE IF row = NoUser THEN "insertUser"
                     ELSE "done"
             new == [Sent("google", step) EXCEPT !.user = row]
  <2>1. req' = [req EXCEPT ![r] = new]
    BY <1>5 DEF FirebaseLogin
  <2>2. step # "match"
    OBVIOUS
  <2> HIDE DEF step
  <2>3. new.step # "match"
    BY <2>2 DEF Sent
  <2> QED
    BY <2>1, <2>3, ReplacedElsewhere
<1>6. CASE LinkExistingAccount(r)
  <2>0. req[r] # None /\ req[r] \in Request
    BY <1>6 DEF LinkExistingAccount, At, TypeOK
  <2> DEFINE user == [req[r].user EXCEPT !.pw = 0, !.google = TRUE]
             new == [req[r] EXCEPT !.step = "endSessions", !.user = user]
  <2>1. req' = [Outdated(req, r) EXCEPT ![r] = new]
    BY <1>6, OutdatedIs DEF LinkExistingAccount
  <2> HIDE DEF user
  <2>2. new.step # "match"
    BY <2>0 DEF Request
  <2> QED
    BY <2>1, <2>2, ReplacedElsewhere
<1>7. CASE Reactivate(r)
  BY <1>7, <1>a, GoneElsewhere DEF Reactivate, At
<1>8. CASE IssueToken(r)
  <2>1. Goto(r, IF req[r].op = "login" /\ Exists THEN "clear" ELSE "done")
    BY <1>8, Zenon DEF IssueToken
  <2>2. PICK step \in {"clear", "done"} : Goto(r, step)
    BY <2>1
  <2>3. req[r] # None /\ ~req[r].dead
    BY <1>8, Zenon DEF IssueToken, At
  <2> QED
    BY <1>a, <2>2, <2>3, GoneElsewhere
<1>9. CASE ClearTries(r)
  BY <1>9, <1>a, GoneElsewhere DEF ClearTries, At
<1> QED
  BY <1>1, <1>2, <1>3, <1>4, <1>5, <1>6, <1>7, <1>8, <1>9 DEF SignInNext

LEMMA OwnerElsewhere ==
    ASSUME TypeOK, NEW r \in Requests, OwnerRequests(r)
    PROVE  Elsewhere(r)
<1>a. {"clear", "done", "verify", "reactivate", "deleteGoogle"} \subseteq Steps \ {"match"}
  BY DEF Steps
<1>1. ASSUME NEW op \in OwnerOps, NEW s, NEW p, AccountRequest(r, op, s, p)
      PROVE  Elsewhere(r)
  <2> DEFINE step == IF ~Allowed(tries, "identityProof") THEN "done"
                     ELSE IF op = "create" THEN "verify" ELSE "require"
             new == [Sent(op, step) EXCEPT !.caller = s, !.typed = p]
  <2>1. req' = [req EXCEPT ![r] = new]
    BY <1>1 DEF AccountRequest
  <2>2. step # "match"
    OBVIOUS
  <2> HIDE DEF step
  <2>3. new.step # "match"
    BY <2>2 DEF Sent
  <2> QED
    BY <2>1, <2>3, ReplacedElsewhere
<1>2. CASE Require(r)
  <2>1. PICK step \in {"verify", "done"} : Goto(r, step)
    BY <1>2 DEF Require
  <2> QED
    BY <1>2, <1>a, <2>1, GoneElsewhere DEF Require, At
<1>3. CASE Verify(r)
  <2>0. req[r] # None /\ req[r] \in Request /\ ~req[r].dead
    BY <1>3 DEF Verify, At, TypeOK
  <2>1. CASE Goto(r, "done")
    BY <1>a, <2>0, <2>1, GoneElsewhere
  <2>2. CASE Read(r, "write")
    <3> DEFINE new == [req[r] EXCEPT !.step = "write", !.user = row]
    <3>1. req' = [req EXCEPT ![r] = new] /\ new.step # "match"
      BY <2>0, <2>2 DEF Read, Request
    <3> QED
      BY <3>1, ReplacedElsewhere
  <2> QED
    BY <1>3, <2>1, <2>2 DEF Verify
<1>4. CASE WriteUser(r)
  <2>0. req[r] # None /\ req[r] \in Request
    BY <1>4 DEF WriteUser, At, TypeOK
  <2> DEFINE op == req[r].op
             step == AfterWrite(op)
             new == [req[r] EXCEPT !.step = step, !.typed = 0]
  <2>1. step # "match"
    BY DEF AfterWrite
  <2>2. req' = [req EXCEPT ![r] = new] \/ req' = [Outdated(req, r) EXCEPT ![r] = new]
    <3>1. CASE op = "addEmail"
      BY <1>4, <3>1 DEF WriteUser, TypeOK
    <3>2. CASE op # "addEmail"
      BY <1>4, <3>2, OutdatedIs DEF WriteUser, TypeOK
    <3> QED
      BY <3>1, <3>2
  <2> HIDE DEF step
  <2>3. new.step # "match"
    BY <2>0, <2>1 DEF Request
  <2> QED
    BY <2>2, <2>3, ReplacedElsewhere
<1>5. CASE EndAllSessions(r)
  <2>1. PICK step \in {"reactivate", "deleteGoogle", "done", "clear"} : Goto(r, step)
    BY <1>5 DEF EndAllSessions
  <2> QED
    BY <1>5, <1>a, <2>1, GoneElsewhere DEF EndAllSessions, At
<1> QED
  BY <1>1, <1>2, <1>3, <1>4, <1>5 DEF OwnerRequests, OwnerOps

LEMMA DeletionElsewhere ==
    ASSUME TypeOK, NEW r \in Requests, Deletion(r)
    PROVE  Elsewhere(r)
<1>a. {"endSessions", "putBack", "deleteCodes", "deleteRow", "clear"} \subseteq Steps \ {"match"}
  BY DEF Steps
<1>1. CASE PutBack(r)
  <2> DEFINE new == Sent("delete", "done")
  <2>1. req' = [Outdated(req, r) EXCEPT ![r] = new] /\ new.step # "match"
    BY <1>1 DEF PutBack, Sent
  <2> QED
    BY <2>1, ReplacedElsewhere
<1>2. CASE EraseFiles(r) \/ DeleteGoogle(r) \/ DeleteCodes(r) \/ DeleteRow(r)
  <2>1. PICK step \in {"endSessions", "putBack", "deleteCodes", "deleteRow", "clear"} :
           Goto(r, step)
    BY <1>2 DEF EraseFiles, DeleteGoogle, DeleteCodes, DeleteRow
  <2>2. req[r] # None /\ ~req[r].dead
    BY <1>2 DEF EraseFiles, DeleteGoogle, DeleteCodes, DeleteRow, At
  <2> QED
    BY <1>a, <2>1, <2>2, GoneElsewhere
<1> QED
  BY <1>1, <1>2 DEF Deletion

(* What is not about codes leaves their windows and their counts alone.    *)
Aside ==
    /\ guesses' = guesses /\ now' = now
    /\ \/ UNCHANGED tries
       \/ tries' = Consumed(tries, "login") \/ tries' = Consumed(tries, "identityProof")
       \/ \E l \in {"login", "identityProof"} :
            tries' = [tries EXCEPT ![l] = [used |-> 0, since |-> 0]]
    /\ \/ UNCHANGED codes
       \/ codes' = [c \in Codes |-> [codes[c] EXCEPT !.used = TRUE]]

LEMMA OthersAside ==
    ASSUME NEW r \in Requests, SignInNext(r) \/ OwnerRequests(r) \/ Deletion(r)
    PROVE  Aside
<1>1. CASE ClearTries(r)
  <2>1. PICK l \in {"login", "identityProof"} :
           tries' = [tries EXCEPT ![l] = [used |-> 0, since |-> 0]]
    BY <1>1 DEF ClearTries
  <2> QED
    BY <1>1, <2>1 DEF ClearTries, Aside
<1>2. ASSUME NEW p, Login(r, p) PROVE Aside
  BY <1>2 DEF Login, Aside
<1>3. ASSUME NEW trusted, FirebaseLogin(r, trusted) PROVE Aside
  BY <1>3 DEF FirebaseLogin, Aside
<1>4. CASE Register(r) \/ InsertUser(r) \/ FindByIdentifier(r) \/ LinkExistingAccount(r)
             \/ Reactivate(r) \/ IssueToken(r)
  <2>1. guesses' = guesses /\ now' = now /\ UNCHANGED tries /\ UNCHANGED codes
    BY <1>4, Zenon DEF Register, InsertUser, FindByIdentifier, LinkExistingAccount,
                       Reactivate, IssueToken
  <2> QED
    BY <2>1 DEF Aside
<1>5. ASSUME NEW op, NEW s, NEW p, AccountRequest(r, op, s, p) PROVE Aside
  BY <1>5 DEF AccountRequest, Aside
<1>6. CASE Require(r) \/ Verify(r) \/ WriteUser(r) \/ EndAllSessions(r)
  <2>1. guesses' = guesses /\ now' = now /\ UNCHANGED tries /\ UNCHANGED codes
    BY <1>6, Zenon DEF Require, Verify, WriteUser, EndAllSessions
  <2> QED
    BY <2>1 DEF Aside
<1>7. CASE DeleteCodes(r)
  BY <1>7 DEF DeleteCodes, Aside
<1>8. CASE EraseFiles(r) \/ PutBack(r) \/ DeleteGoogle(r) \/ DeleteRow(r)
  <2>1. guesses' = guesses /\ now' = now /\ UNCHANGED tries /\ UNCHANGED codes
    BY <1>8, Zenon DEF EraseFiles, PutBack, DeleteGoogle, DeleteRow
  <2> QED
    BY <2>1 DEF Aside
<1> QED
  BY <1>1, <1>2, <1>3, <1>4, <1>5, <1>6, <1>7, <1>8
     DEF SignInNext, OwnerRequests, Deletion

LEMMA OthersCount ==
    ASSUME TypeOK, Counted, NEW r \in Requests,
           SignInNext(r) \/ OwnerRequests(r) \/ Deletion(r)
    PROVE  Counted'
<1>0. \A l \in Limiters \ {"otp"} : Consumed(tries, l)["otp"] = tries["otp"]
  BY DEF Consumed, TypeOK, Limiters
<1>1. "login" \in Limiters \ {"otp"} /\ "identityProof" \in Limiters \ {"otp"}
  BY DEF Limiters
<1>2. Aside
  BY OthersAside
<1>3. tries'["otp"] = tries["otp"]
  BY <1>0, <1>1, <1>2 DEF Aside, TypeOK, Limiters
<1>4. \A c \in Codes : codes'[c].issued = codes[c].issued /\ codes'[c].until = codes[c].until
  BY <1>2 DEF Aside, TypeOK, Otp
<1>5. Elsewhere(r)
  BY SignInElsewhere, OwnerElsewhere, DeletionElsewhere
<1>6. Matching' \subseteq Matching
  BY <1>5, NobodyMatches
<1> QED
  BY <1>2, <1>3, <1>4, <1>6, CountsStay DEF Aside

(* An attempt is counted before a code is compared.                        *)
LEMMA AttemptCounts ==
    ASSUME TypeOK, Counted, NEW r \in Requests, Matching' \subseteq Matching \cup {r},
           r \in Matching' => OtpAllowed(tries),
           UNCHANGED <<codes, guesses, now>>, tries' = CountOtpAttempt(tries)
    PROVE  Counted'
<1>0. "otp" \in Limiters /\ "otpPerDay" \in Limiters
  BY DEF Limiters
<1>1. PendingIsCounted /\ IsFiniteSet(Matching) /\ Pending \in Nat
  BY Numbers DEF Counted, PendingIsCounted
<1>2. IsFiniteSet(Matching \cup {r}) /\ Cardinality(Matching \cup {r}) <= Pending + 1
  <2>1. /\ IsFiniteSet(Matching \cup {r})
        /\ Cardinality(Matching \cup {r}) =
              IF r \in Matching THEN Cardinality(Matching) ELSE Cardinality(Matching) + 1
    BY <1>1, FS_AddElement, Zenon
  <2> DEFINE more == Cardinality(Matching \cup {r})
  <2>2. more = Pending \/ more = Pending + 1
    BY <2>1 DEF Pending
  <2> HIDE DEF more
  <2>3. more <= Pending + 1
    BY <1>1, <2>2
  <2> QED
    BY <2>1, <2>3 DEF more
<1>3. IsFiniteSet(Matching') /\ Pending' \in Nat /\ Pending' <= Pending + 1
  BY <1>1, <1>2, FS_Subset, FS_CardinalityType DEF Pending
<1>4. r \notin Matching' => Pending' <= Pending
  <2>1. r \notin Matching' => Matching' \subseteq Matching
    OBVIOUS
  <2> QED
    BY <1>1, <2>1, FS_Subset DEF Pending
<1>5. tries'["otp"] = Consumed(tries, "otp")["otp"]
  BY <1>0 DEF CountOtpAttempt, Consumed, TypeOK
<1>6. r \in Matching' => Used' <= Points["otp"]
  BY <1>5 DEF OtpAllowed, Allowed, Used
<1>7. CASE Used = 0 \/ now >= Window + Duration["otp"]
  <2>1. Window' = now /\ Used' = 1
    BY <1>0, <1>5, <1>7 DEF Consumed, Window, Used, TypeOK
  <2>2. Matching = {}
    BY <1>1, <1>7, Numbers DEF PendingIsCounted
  <2>3. Pending = 0
    BY <2>2, FS_EmptySet DEF Pending
  <2>4. Pending' <= 1 /\ (Pending' = 1 => Points["otp"] >= 1) /\ now < now + 3
    BY <1>3, <1>4, <1>6, <2>1, <2>3, Numbers
  <2>5. PendingIsCounted'
    BY <1>3, <2>1, <2>4, Numbers DEF PendingIsCounted
  <2>6. ASSUME NEW c \in Codes PROVE CodeIsCounted(c)'
    <3>1. CodeIsCounted(c)
      BY DEF Counted
    <3>2. guesses[c] > 0 => Window + 3 <= now /\ codes[c].until < now + CodeTTL
      BY <1>7, <3>1, Numbers DEF CodeIsCounted
    <3>3. Live(c) /\ guesses[c] > 0 => Younger(c)
      BY <3>2, Numbers DEF Live, Younger
    <3>4. Live(c) => guesses[c] <= Points["otp"]
      BY <1>3, <2>3, <3>1, <3>3, Numbers DEF CodeIsCounted
    <3>5. Younger(c)' => guesses[c] = 0
      BY <2>1, <3>2, Numbers DEF Younger
    <3>6. Live(c)' <=> Live(c)
      BY DEF Live
    <3> QED
      BY <1>3, <2>1, <2>4, <3>1, <3>2, <3>4, <3>5, <3>6, Numbers DEF CodeIsCounted
  <2> QED
    BY <2>5, <2>6 DEF Counted
<1>8. CASE ~(Used = 0 \/ now >= Window + Duration["otp"])
  <2>1. Window' = Window /\ Used' = Used + 1
    BY <1>0, <1>5, <1>8 DEF Consumed, Window, Used, TypeOK
  <2>2. Pending' = Pending + 1 => Used + 1 <= Points["otp"]
    BY <1>1, <1>3, <1>4, <1>6, <2>1
  <2>3. PendingIsCounted'
    BY <1>1, <1>3, <1>8, <2>1, <2>2, Numbers DEF PendingIsCounted
  <2>4. ASSUME NEW c \in Codes PROVE CodeIsCounted(c)'
    <3>1. CodeIsCounted(c)
      BY DEF Counted
    <3>2. (Live(c)' <=> Live(c)) /\ (Younger(c)' <=> Younger(c))
      BY <2>1 DEF Live, Younger
    <3> QED
      BY <1>1, <1>3, <2>1, <2>2, <3>1, <3>2, Numbers DEF CodeIsCounted
  <2> QED
    BY <2>3, <2>4 DEF Counted
<1> QED
  BY <1>7, <1>8

LEMMA ResetCounts ==
    ASSUME TypeOK, Counted, NEW r \in Requests, PasswordReset(r)
    PROVE  Counted'
<1>a. {"done", "store", "mail", "claim", "write"} \subseteq Steps \ {"match"}
  BY DEF Steps
<1>1. CASE ForgotPassword(r)
  <2> DEFINE new == Sent("forgot", IF Allowed(tries, "resetCooldown") /\ Exists /\ row.email
                                   THEN "invalidate" ELSE "done")
  <2>1. req' = [req EXCEPT ![r] = new] /\ UNCHANGED <<now, codes, guesses>>
    BY <1>1 DEF ForgotPassword
  <2>2. new.step # "match"
    BY DEF Sent
  <2> HIDE DEF new
  <2>3. Elsewhere(r)
    BY <2>1, <2>2, ReplacedElsewhere
  <2>4. tries'["otp"] = tries["otp"]
    BY <1>1 DEF ForgotPassword, Consumed, TypeOK, Limiters
  <2> QED
    BY <2>1, <2>3, <2>4, NobodyMatches, CountsStay
<1>2. CASE InvalidateAllFor(r)
  <2>1. Goto(r, "store") /\ req[r] # None /\ ~req[r].dead /\ UNCHANGED <<now, tries, guesses>>
    BY <1>2 DEF InvalidateAllFor, At
  <2>2. \A c \in Codes : codes'[c].issued = codes[c].issued /\ codes'[c].until = codes[c].until
    BY <1>2 DEF InvalidateAllFor, TypeOK, Otp
  <2>3. Elsewhere(r)
    BY <1>a, <2>1, GoneElsewhere
  <2> QED
    BY <2>1, <2>2, <2>3, NobodyMatches, CountsStay
<1>3. CASE CreateOtp(r)
  <2>0. req[r] # None /\ req[r] \in Request /\ UNCHANGED <<now, tries, guesses>>
    BY <1>3 DEF CreateOtp, At, TypeOK
  <2>1. PICK c \in Codes :
           /\ ~codes[c].issued
           /\ codes' = [codes EXCEPT ![c] = [issued |-> TRUE, used |-> FALSE,
                                             until |-> now + CodeTTL, mailed |-> FALSE]]
           /\ req' = [req EXCEPT ![r].step = "mail", ![r].code = c]
    BY <1>3 DEF CreateOtp
  <2> DEFINE new == [req[r] EXCEPT !.step = "mail", !.code = c]
  <2>2. req' = [req EXCEPT ![r] = new] /\ new.step # "match"
    BY <2>0, <2>1 DEF Request
  <2> HIDE DEF new
  <2>3. Matching' \subseteq Matching
    BY <2>2, ReplacedElsewhere, NobodyMatches
  <2>4. /\ IsFiniteSet(Matching') /\ IsFiniteSet(Matching)
        /\ Cardinality(Matching') <= Cardinality(Matching)
    BY <2>3, FS_Subset DEF Counted, PendingIsCounted
  <2>5. Pending' <= Pending /\ Pending' \in Nat /\ Pending \in Nat
    BY <2>4, FS_CardinalityType DEF Pending
  <2>6. Window' = Window /\ Used' = Used
    BY <2>0 DEF Window, Used
  <2>7. PendingIsCounted /\ PendingIsCounted'
    BY <2>0, <2>3, <2>4, <2>5, <2>6, Numbers DEF Counted, PendingIsCounted
  <2>8. ASSUME NEW d \in Codes PROVE CodeIsCounted(d)'
    <3>1. CodeIsCounted(d)
      BY DEF Counted
    <3>2. CASE d = c
      <4>1. codes'[d].issued /\ codes'[d].until = now + CodeTTL
        BY <2>1, <3>2 DEF TypeOK
      <4>2. guesses'[d] = 0 /\ Younger(d)'
        BY <2>0, <2>1, <2>6, <2>7, <3>1, <3>2, <4>1, Numbers
           DEF CodeIsCounted, Younger, PendingIsCounted
      <4> QED
        BY <2>0, <2>5, <2>6, <2>7, <4>1, <4>2, Numbers DEF CodeIsCounted, PendingIsCounted
    <3>3. CASE d # c
      <4>1. codes'[d] = codes[d]
        BY <2>1, <3>3 DEF TypeOK
      <4>2. (Live(d)' <=> Live(d)) /\ (Younger(d)' <=> Younger(d))
        BY <2>0, <2>6, <4>1 DEF Live, Younger
      <4> QED
        BY <2>0, <2>5, <2>6, <3>1, <4>1, <4>2, Numbers DEF CodeIsCounted
    <3> QED
      BY <3>2, <3>3
  <2> QED
    BY <2>7, <2>8 DEF Counted
<1>4. CASE SendOtp(r)
  <2>1. Goto(r, "done") /\ req[r] # None /\ ~req[r].dead /\ UNCHANGED <<now, tries, guesses>>
    BY <1>4 DEF SendOtp, At
  <2>2. PICK mailed : codes' = [codes EXCEPT ![req[r].code].mailed = mailed]
    BY <1>4 DEF SendOtp
  <2>3. \A c \in Codes : codes'[c].issued = codes[c].issued /\ codes'[c].until = codes[c].until
    BY <2>2 DEF TypeOK, Otp
  <2>4. Elsewhere(r)
    BY <1>a, <2>1, GoneElsewhere
  <2> QED
    BY <2>1, <2>3, <2>4, NobodyMatches, CountsStay
<1>5. ASSUME NEW op, NEW c, TypeCode(r, op, c)
      PROVE  Counted'
  <2> DEFINE step == IF OtpAllowed(tries) THEN "match" ELSE "done"
             sent == Sent(op, step)
             new == [sent EXCEPT !.typed = c]
  <2>1. req' = [req EXCEPT ![r] = new]
    BY <1>5 DEF TypeCode
  <2>2. tries' = CountOtpAttempt(tries) /\ UNCHANGED <<now, codes, guesses>>
    BY <1>5 DEF TypeCode
  <2>3. new.step = "match" => OtpAllowed(tries)
    BY DEF Sent
  <2> HIDE DEF new
  <2>4. req'[r] = new /\ \A q \in Requests \ {r} : req'[q] = req[q]
    BY <2>1 DEF TypeOK
  <2>5. Matching' \subseteq Matching \cup {r}
    BY <2>4 DEF Matching, At
  <2>6. r \in Matching' => OtpAllowed(tries)
    BY <2>3, <2>4 DEF Matching, At
  <2> QED
    BY <2>2, <2>5, <2>6, AttemptCounts
<1>6. CASE FindMatchingOtp(r)
  <2>0. /\ req[r] # None /\ req[r] \in Request /\ ~req[r].dead /\ r \in Matching
        /\ UNCHANGED <<now, tries, codes>>
    BY <1>6 DEF FindMatchingOtp, At, TypeOK, Matching
  <2> DEFINE newest == Max(ActiveCodes)
  <2>1. ActiveCodes # {} => newest \in ActiveCodes
    <3>1. ActiveCodes \in SUBSET Codes
      BY DEF ActiveCodes
    <3> QED
      BY <3>1, NewestIsOne
  <2>2. \/ Goto(r, "done")
        \/ req' = [req EXCEPT ![r].step = "claim", ![r].code = newest]
    BY <1>6 DEF FindMatchingOtp
  <2>3. \/ UNCHANGED guesses
        \/ ActiveCodes # {} /\ guesses' = [guesses EXCEPT ![newest] = @ + 1]
    BY <1>6 DEF FindMatchingOtp
  <2> HIDE DEF newest
  <2>4. Elsewhere(r)
    <3>1. CASE Goto(r, "done")
      BY <1>a, <2>0, <3>1, GoneElsewhere
    <3>2. CASE req' = [req EXCEPT ![r].step = "claim", ![r].code = newest]
      <4> DEFINE new == [req[r] EXCEPT !.step = "claim", !.code = newest]
      <4>1. req' = [req EXCEPT ![r] = new] /\ new.step # "match"
        BY <2>0, <3>2 DEF Request
      <4> HIDE DEF new
      <4> QED
        BY <4>1, ReplacedElsewhere
    <3> QED
      BY <2>2, <3>1, <3>2
  <2>5. CASE UNCHANGED guesses
    BY <2>0, <2>4, <2>5, NobodyMatches, CountsStay
  <2>6. CASE newest \in ActiveCodes /\ guesses' = [guesses EXCEPT ![newest] = @ + 1]
    <3>1. Matching' \subseteq Matching \ {r}
      BY <2>4, NobodyMatches DEF Elsewhere, Matching, At
    <3>2. PendingIsCounted /\ IsFiniteSet(Matching) /\ Pending \in Nat
      BY Numbers DEF Counted, PendingIsCounted
    <3>3. IsFiniteSet(Matching \ {r}) /\ Cardinality(Matching \ {r}) = Pending - 1
      BY <2>0, <3>2, FS_RemoveElement DEF Pending
    <3>4. IsFiniteSet(Matching') /\ Pending' \in Nat /\ Pending' + 1 <= Pending
      BY <3>1, <3>2, <3>3, FS_Subset, FS_CardinalityType DEF Pending
    <3>5. Window' = Window /\ Used' = Used
      BY <2>0 DEF Window, Used
    <3>6. now < Window + 3 /\ Used >= 1
      BY <2>0, <3>2 DEF PendingIsCounted
    <3>p. Pending \in Nat /\ Pending' \in Nat /\ Pending' + 1 <= Pending
      BY <3>2, <3>4
    <3>n. /\ now \in Nat /\ Window \in Nat /\ Used \in Nat /\ Points["otp"] \in Nat /\ CodeTTL \in Nat
      BY Numbers
    <3>7. PendingIsCounted'
      <4>1. Pending <= Used /\ Pending <= Points["otp"] /\ Window <= now
        BY <3>2 DEF PendingIsCounted
      <4>2. Window' <= now' /\ (Matching' # {} => now' < Window' + 3 /\ Used' >= 1)
        BY <2>0, <3>5, <3>6, <4>1
      <4>3. Pending' <= Used' /\ Pending' <= Points["otp"]
        BY <3>5, <3>n, <3>p, <4>1 DEF Pending
      <4> QED
        BY <3>4, <4>2, <4>3 DEF PendingIsCounted
    <3>8. ASSUME NEW d \in Codes PROVE CodeIsCounted(d)'
      <4>1. CodeIsCounted(d)
        BY DEF Counted
      <4>2. (Live(d)' <=> Live(d)) /\ (Younger(d)' <=> Younger(d))
        BY <2>0, <3>5 DEF Live, Younger
      <4>3. CASE d = newest
        <5>1. guesses'[d] = guesses[d] + 1 /\ Live(d)
          BY <2>6, <4>3 DEF TypeOK, ActiveCodes, Live
        <5>2. /\ guesses[d] \in Nat /\ codes[d].until \in Nat /\ codes'[d] = codes[d] /\ now' = now
          BY <2>0, Numbers
        <5>3. codes[d].issued /\ codes[d].until >= now
          BY <5>1 DEF Live
        <5>4. codes[d].until < Window + 3 + CodeTTL
          BY <3>6, <3>n, <4>1, <5>2, <5>3 DEF CodeIsCounted
        <5>5. Younger(d) =>
                guesses[d] + 1 + Pending' <= Used /\ guesses[d] + 1 + Pending' <= Points["otp"]
          BY <3>n, <3>p, <4>1, <5>1, <5>2 DEF CodeIsCounted, Pending
        <5>6. ~Younger(d) => /\ guesses[d] + 1 + Pending' <= Points["otp"] + Used
                             /\ guesses[d] + 1 + Pending' <= 2 * Points["otp"]
          BY <3>n, <3>p, <4>1, <5>1, <5>2 DEF CodeIsCounted, Pending
        <5>7. guesses[d] + 1 <= 2 * Points["otp"]
          BY <3>n, <3>p, <5>2, <5>5, <5>6
        <5> QED
          BY <3>5, <3>6, <4>1, <4>2, <5>1, <5>2, <5>3, <5>4, <5>5, <5>6, <5>7 DEF CodeIsCounted
      <4>4. CASE d # newest
        <5>1. guesses'[d] = guesses[d]
          BY <2>6, <4>4 DEF TypeOK
        <5>2. guesses[d] \in Nat /\ codes'[d] = codes[d] /\ now' = now
          BY <2>0, Numbers
        <5>3. Live(d) /\ Younger(d) =>
                guesses[d] + Pending' <= Used /\ guesses[d] + Pending' <= Points["otp"]
          BY <3>n, <3>p, <4>1, <5>2 DEF CodeIsCounted, Pending
        <5>4. Live(d) /\ ~Younger(d) => /\ guesses[d] + Pending' <= Points["otp"] + Used
                                       /\ guesses[d] + Pending' <= 2 * Points["otp"]
          BY <3>n, <3>p, <4>1, <5>2 DEF CodeIsCounted, Pending
        <5> QED
          BY <3>5, <4>1, <4>2, <5>1, <5>2, <5>3, <5>4 DEF CodeIsCounted
      <4> QED
        BY <4>3, <4>4
    <3> QED
      BY <3>7, <3>8 DEF Counted
  <2> QED
    BY <2>1, <2>3, <2>5, <2>6
<1>7. CASE ClaimOtp(r)
  <2>1. req[r] # None /\ ~req[r].dead /\ UNCHANGED <<now, tries, guesses>>
    BY <1>7 DEF ClaimOtp, At
  <2>2. PICK step \in {"write", "done"} : Goto(r, step)
    BY <1>7 DEF ClaimOtp
  <2>3. UNCHANGED codes \/ codes' = [codes EXCEPT ![req[r].code].used = TRUE]
    BY <1>7 DEF ClaimOtp
  <2>4. \A c \in Codes : codes'[c].issued = codes[c].issued /\ codes'[c].until = codes[c].until
    BY <2>3 DEF TypeOK, Otp
  <2>5. Elsewhere(r)
    BY <1>a, <2>1, <2>2, GoneElsewhere
  <2> QED
    BY <2>1, <2>4, <2>5, NobodyMatches, CountsStay
<1> QED
  BY <1>1, <1>2, <1>3, <1>4, <1>5, <1>6, <1>7 DEF PasswordReset

(* No code is compared more often than twice the allowance of a window.    *)
LEMMA StaysCounted == Spec => []Counted
<1>1. Init => Counted
  <2> SUFFICES ASSUME Init PROVE Counted
    OBVIOUS
  <2>1. Matching = {} /\ IsFiniteSet(Matching) /\ Pending = 0
    <3>1. Matching = {}
      BY DEF Init, Matching, At
    <3> QED
      BY <3>1, FS_EmptySet DEF Pending
  <2>2. Window = 0 /\ Used = 0 /\ now = 0 /\ \A c \in Codes : guesses[c] = 0
    <3>1. "otp" \in Limiters
      BY DEF Limiters
    <3> QED
      BY <3>1 DEF Init, Window, Used
  <2>3. \A c \in Codes : codes[c].until \in {0, CodeTTL}
    BY DEF Init
  <2>4. Points["otp"] \in Nat /\ CodeTTL \in Nat
    BY AccountsAssumption DEF Limiters
  <2>5. PendingIsCounted
    BY <2>1, <2>2, <2>4 DEF PendingIsCounted
  <2>6. \A c \in Codes : CodeIsCounted(c)
    BY <2>1, <2>2, <2>3, <2>4 DEF CodeIsCounted
  <2> QED
    BY <2>5, <2>6 DEF Counted
<1>2. TypeOK /\ Counted /\ [Next]_vars => Counted'
  <2> SUFFICES ASSUME TypeOK, Counted, [Next]_vars PROVE Counted'
    OBVIOUS
  <2>1. CASE Tick
    <3>1. Matching = {} /\ Matching' = {} /\ now' = now + 1 /\ UNCHANGED <<codes, guesses, tries>>
      BY <2>1 DEF Tick, Matching, At
    <3>2. Pending = 0 /\ Pending' = 0 /\ IsFiniteSet(Matching')
      BY <3>1, FS_EmptySet DEF Pending
    <3>3. Window' = Window /\ Used' = Used
      BY <3>1 DEF Window, Used
    <3>4. PendingIsCounted'
      BY <3>1, <3>2, <3>3, Numbers DEF Counted, PendingIsCounted
    <3>5. ASSUME NEW c \in Codes PROVE CodeIsCounted(c)'
      <4>1. CodeIsCounted(c)
        BY DEF Counted
      <4>2. (Live(c)' => Live(c)) /\ (Younger(c)' <=> Younger(c))
        BY <3>1, <3>3, Numbers DEF Live, Younger
      <4> QED
        BY <3>1, <3>2, <3>3, <4>1, <4>2, Numbers DEF CodeIsCounted
    <3> QED
      BY <3>4, <3>5 DEF Counted
  <2>2. CASE UNCHANGED vars
    <3>1. UNCHANGED <<now, codes, guesses, tries, req>>
      BY <2>2 DEF vars
    <3>2. Matching' \subseteq Matching
      BY <3>1 DEF Matching, At
    <3> QED
      BY <3>1, <3>2, CountsStay
  <2>3. ASSUME NEW r \in Requests, Stop(r) PROVE Counted'
    <3>1. UNCHANGED <<now, codes, guesses, tries>>
      BY <2>3 DEF Stop
    <3>2. PICK new \in Request : req' = [req EXCEPT ![r] = new] /\ new.step = req[r].step
      BY <2>3, StopIs
    <3>3. new.step # "match"
      BY <2>3, <3>2 DEF Stop
    <3> QED
      BY <3>1, <3>2, <3>3, ReplacedElsewhere, NobodyMatches, CountsStay
  <2>4. ASSUME NEW s \in Sids, BeginRenewal(s) \/ FinishRenewal(s) PROVE Counted'
    <3>1. UNCHANGED <<now, codes, guesses, tries, req>>
      BY <2>4 DEF BeginRenewal, FinishRenewal
    <3>2. Matching' \subseteq Matching
      BY <3>1 DEF Matching, At
    <3> QED
      BY <3>1, <3>2, CountsStay
  <2> QED
    BY <2>1, <2>2, <2>3, <2>4, OthersCount, ResetCounts DEF Next
<1> QED
  BY <1>1, <1>2, TypeInvariant, PTL DEF Spec

(* A code sent by email sets one password, and is compared with what is    *)
(* typed at most twice as often as a window allows (attempt-limiter.ts).   *)
THEOREM CodesAreHeld == Spec => []CodesHold
<1>1. TypeOK /\ Counted => FewGuessesPerCode
  BY Numbers DEF Counted, CodeIsCounted, FewGuessesPerCode
<1> QED
  BY <1>1, StaysCounted, CodesResetOnce, TypeInvariant, PTL DEF CodesHold
=============================================================================
