--------------------------- MODULE SessionsProofs ---------------------------
(***************************************************************************)
(* Proofs about Sessions for any number of users, sessions, tokens and     *)
(* requests, any times to live and any failures.                           *)
(***************************************************************************)
EXTENDS Sessions, TLAPS

-----------------------------------------------------------------------------
(* The table operators keep the table a table.                             *)

LEMMA RevokeRowsType ==
    ASSUME NEW T \in Table, NEW J
    PROVE  RevokeRows(T, J) \in Table
BY DEF RevokeRows, Table, Row

LEMMA InsertRowType ==
    ASSUME NEW T \in Table, NEW j \in Jtis, NEW u \in Users \cup {None},
           NEW s \in SessionIds \cup {None}, NEW at \in Nat,
           NEW old \in Jtis \cup {None}
    PROVE  InsertRow(T, j, u, s, at, old) \in Table
BY DEF InsertRow, Table, Row

LEMMA IdleType == Idle \in Request
BY DEF Idle, Request, Steps

(* A step that uses the presented token has one; a sign-in carries no      *)
(* session; ending a session names one.                                    *)
Presents ==
    \A r \in Requests :
        /\ req[r].step \in {"revoke", "findUser"} => req[r].jti # None
        /\ req[r].step = "insert" /\ req[r].jti = None => req[r].session = None
        /\ req[r].step = "endSession" => req[r].session # None

(* Replacing the record of one request by a well-formed one.               *)
LEMMA ReplaceRequest ==
    ASSUME TypeOK, Presents, NEW r \in Requests, NEW new \in Request,
           new.step \in {"revoke", "findUser"} => new.jti # None,
           new.step = "insert" /\ new.jti = None => new.session = None,
           new.step = "endSession" => new.session # None,
           req' = [req EXCEPT ![r] = new]
    PROVE  req' \in [Requests -> Request] /\ Presents'
BY DEF TypeOK, Presents

(* A request that goes on to cut sessions off is a request, and presents   *)
(* nothing any more.                                                       *)
LEMMA CutOffNextType ==
    ASSUME TypeOK, Presents, NEW r \in Requests,
           NEW ended \in SUBSET SessionIds, NEW todo \in SUBSET SessionIds,
           CutOffNext(r, ended, todo)
    PROVE  req' \in [Requests -> Request] /\ Presents'
<1> DEFINE new == [Idle EXCEPT !.step = "cutOff", !.ended = ended, !.todo = todo]
<1>1. new \in Request /\ new.step = "cutOff"
  BY DEF Idle, Request, Steps
<1>2. req' = [req EXCEPT ![r] = new]
  BY DEF CutOffNext
<1> HIDE DEF new
<1> QED
  BY <1>1, <1>2 DEF TypeOK, Presents

LEMMA SessionsOfType ==
    ASSUME NEW T \in Table, NEW J \in SUBSET Jtis
    PROVE  SessionsOf(T, J) \in SUBSET SessionIds
BY DEF SessionsOf, Table, Row

-----------------------------------------------------------------------------
(* Every variable keeps its type.                                          *)
THEOREM TypeInvariant == Spec => [](TypeOK /\ Presents)
<1> USE SessionsAssumption, NoneIsNull
<1>1. Init => TypeOK /\ Presents
  <2> SUFFICES ASSUME Init PROVE TypeOK /\ Presents
    OBVIOUS
  <2>1. tokens \in Table
    <3>1. NoRow \in Row
      BY DEF NoRow, Row
    <3>2. \A u \in Users : Legacy(u) \in Row
      BY <3>1 DEF Legacy, NoRow, Row
    <3> QED
      BY <3>1, <3>2 DEF Init, Table
  <2> QED
    BY <2>1, IdleType DEF Init, TypeOK, Presents, Idle
<1>2. TypeOK /\ Presents /\ [Next]_vars => TypeOK' /\ Presents'
  <2> SUFFICES ASSUME TypeOK, Presents, [Next]_vars PROVE TypeOK' /\ Presents'
    OBVIOUS
  <2> USE DEF TypeOK
  <2>1. CASE Tick
    BY <2>1 DEF Tick, Presents
  <2>2. ASSUME NEW r \in Requests, NEW j \in Jtis, BeginRefresh(r, j)
        PROVE  TypeOK' /\ Presents'
    <3>1. tokens[j].user \in Users \cup {None} /\ tokens[j].session \in SessionIds \cup {None}
      BY DEF Table, Row
    <3>2. j # None
      OBVIOUS
    <3> DEFINE step == IF Active(tokens, j) THEN "revoke"
                       ELSE IF tokens[j].session = None THEN "endAll"
                       ELSE "checkActive"
               new == [Idle EXCEPT !.step = step, !.user = tokens[j].user,
                                   !.jti = j, !.session = tokens[j].session]
    <3>3. step \in {"revoke", "endAll", "checkActive"}
      OBVIOUS
    <3>4. req' = [req EXCEPT ![r] = new]
      BY <2>2 DEF BeginRefresh
    <3> HIDE DEF step
    <3>5. new \in Request /\ new.step = step /\ new.jti = j
      BY <3>1, <3>3 DEF Idle, Request, Steps
    <3> HIDE DEF new
    <3>6. req' \in [Requests -> Request] /\ Presents'
      BY <3>2, <3>3, <3>4, <3>5, ReplaceRequest
    <3> QED
      BY <2>2, <3>6 DEF BeginRefresh
  <2>3. ASSUME NEW r \in Requests, RejectRevokedToken(r)
        PROVE  TypeOK' /\ Presents'
    BY <2>3, IdleType DEF RejectRevokedToken, Goto, Done, Presents, Idle, Request, Steps
  <2>4. ASSUME NEW r \in Requests, RevokeOldToken(r)
        PROVE  TypeOK' /\ Presents'
    <3>1. tokens' \in Table
      BY <2>4, RevokeRowsType DEF RevokeOldToken
    <3> QED
      BY <2>4, <3>1 DEF RevokeOldToken, Goto, Presents, Request, Steps
  <2>5. ASSUME NEW r \in Requests, FindUser(r)
        PROVE  TypeOK' /\ Presents'
    <3> DEFINE new == [req[r] EXCEPT !.step = "insert", !.at = now]
    <3>a. req[r] \in Request /\ now \in Nat
      OBVIOUS
    <3>1. new \in Request /\ new.step = "insert" /\ new.jti = req[r].jti
      BY <3>a DEF Request, Steps
    <3>2. req[r].jti # None
      BY <2>5 DEF FindUser, Presents
    <3>3. req' = [req EXCEPT ![r] = new]
      BY <2>5 DEF FindUser
    <3> HIDE DEF new
    <3>4. req' \in [Requests -> Request] /\ Presents'
      BY <3>1, <3>2, <3>3, ReplaceRequest
    <3> QED
      BY <2>5, <3>4 DEF FindUser
  <2>6. ASSUME NEW r \in Requests, NEW u \in Users, BeginSignIn(r, u)
        PROVE  TypeOK' /\ Presents'
    BY <2>6 DEF BeginSignIn, Presents, Idle, Request, Steps
  <2>7. ASSUME NEW r \in Requests, NEW j \in Jtis, NEW s \in SessionIds, InsertToken(r, j, s)
        PROVE  TypeOK' /\ Presents'
    <3>1. StartOfNew(r) \in Nat
      BY DEF StartOfNew, Request, Table, Row
    <3>2. req[r].user \in Users \cup {None} /\ req[r].jti \in Jtis \cup {None} /\ req[r].at \in Nat
      BY DEF Request
    <3>3. tokens' \in Table
      BY <2>7, <3>1, <3>2, InsertRowType DEF InsertToken
    <3>4. accessUntil' \in [SessionIds -> Nat]
      BY <2>7, <3>2 DEF InsertToken
    <3>5. req' \in [Requests -> Request] /\ Presents'
      BY <2>7, IdleType DEF InsertToken, Done, Presents, Idle
    <3> QED
      BY <2>7, <3>3, <3>4, <3>5 DEF InsertToken
  <2>8. ASSUME NEW r \in Requests, NEW j \in Jtis, Logout(r, j)
        PROVE  TypeOK' /\ Presents'
    <3>1. tokens' \in Table
      BY <2>8, RevokeRowsType DEF Logout
    <3>2. {tokens[j].session} \ {None} \in SUBSET SessionIds
      BY DEF Table, Row
    <3> QED
      BY <2>8, <3>1, <3>2, CutOffNextType DEF Logout
  <2>9. ASSUME NEW r \in Requests, NEW c \in SessionIds, NEW s \in SessionIds,
               BeginRevokeSession(r, c, s)
        PROVE  TypeOK' /\ Presents'
    <3>1. OwnerOf(c) \subseteq Users \cup {None}
      BY DEF OwnerOf, Table, Row
    <3>2. PICK u \in OwnerOf(c) :
             req' = [req EXCEPT ![r] = [Idle EXCEPT !.step = "endSession",
                                                    !.user = u, !.session = s]]
      BY <2>9 DEF BeginRevokeSession
    <3> DEFINE new == [Idle EXCEPT !.step = "endSession", !.user = u, !.session = s]
    <3>3. new \in Request /\ new.step = "endSession" /\ new.session # None
      BY <3>1, <3>2 DEF Idle, Request, Steps
    <3> HIDE DEF new
    <3>4. req' \in [Requests -> Request] /\ Presents'
      BY <3>2, <3>3, ReplaceRequest DEF new
    <3> QED
      BY <2>9, <3>4 DEF BeginRevokeSession
  <2>10. ASSUME NEW r \in Requests, EndSession(r)
         PROVE  TypeOK' /\ Presents'
    <3>1. tokens' \in Table
      BY <2>10, RevokeRowsType DEF EndSession
    <3>2. {req[r].session} \in SUBSET SessionIds
      BY <2>10 DEF Presents, Request, EndSession
    <3>3. CASE CutOffNext(r, {req[r].session}, {req[r].session})
      BY <2>10, <3>1, <3>2, <3>3, CutOffNextType DEF EndSession
    <3>4. CASE Done(r)
      BY <2>10, <3>1, <3>4, IdleType DEF EndSession, Done, Presents, Idle
    <3> QED
      BY <2>10, <3>3, <3>4 DEF EndSession
  <2>11. ASSUME NEW r \in Requests, NEW c \in SessionIds, BeginLogoutAll(r, c)
         PROVE  TypeOK' /\ Presents'
    <3>1. OwnerOf(c) \subseteq Users \cup {None}
      BY DEF OwnerOf, Table, Row
    <3>2. PICK u \in OwnerOf(c) :
             req' = [req EXCEPT ![r] = [Idle EXCEPT !.step = "endAll", !.user = u]]
      BY <2>11 DEF BeginLogoutAll
    <3> DEFINE new == [Idle EXCEPT !.step = "endAll", !.user = u]
    <3>3. new \in Request /\ new.step = "endAll"
      BY <3>1, <3>2 DEF Idle, Request, Steps
    <3> HIDE DEF new
    <3>4. req' \in [Requests -> Request] /\ Presents'
      BY <3>2, <3>3, ReplaceRequest DEF new
    <3> QED
      BY <2>11, <3>4 DEF BeginLogoutAll
  <2>12. ASSUME NEW r \in Requests, EndAll(r)
         PROVE  TypeOK' /\ Presents'
    <3> DEFINE ended == ActiveOfUser(tokens, req[r].user, None)
    <3>1. tokens' \in Table
      BY <2>12, RevokeRowsType DEF EndAll
    <3>2. SessionsOf(tokens, ended) \in SUBSET SessionIds
      BY SessionsOfType DEF ActiveOfUser
    <3> QED
      BY <2>12, <3>1, <3>2, CutOffNextType DEF EndAll
  <2>13. ASSUME NEW r \in Requests, NEW s \in SessionIds, CutOff(r, s)
         PROVE  TypeOK' /\ Presents'
    BY <2>13 DEF CutOff, Presents, Request, Steps
  <2>14. ASSUME NEW r \in Requests, Answer(r) \/ Fail(r)
         PROVE  TypeOK' /\ Presents'
    BY <2>14, IdleType DEF Answer, Fail, Done, Presents, Idle, Request
  <2>15. CASE UNCHANGED vars
    BY <2>15 DEF vars, Presents
  <2> QED
    BY <2>1, <2>2, <2>3, <2>4, <2>5, <2>6, <2>7, <2>8, <2>9, <2>10, <2>11,
       <2>12, <2>13, <2>14, <2>15 DEF Next
<1> QED
  BY <1>1, <1>2, PTL DEF Spec

-----------------------------------------------------------------------------
(* What any step does to the rows and to the requests that are renewing.   *)

(* Rows keep their session and what they replaced; none becomes usable.    *)
OnlyRevokes ==
    \A k \in Jtis : /\ tokens'[k].session = tokens[k].session
                    /\ tokens'[k].replaces = tokens[k].replaces
                    /\ Active(tokens', k) => Active(tokens, k)
                    /\ Issued(tokens', k) <=> Issued(tokens, k)

(* Request r presents the token it presented before, or a stored one.      *)
PresentsStored(r) ==
    req'[r].jti # None =>
        \/ req'[r].jti = req[r].jti /\ req'[r].session = req[r].session
        \/ /\ Issued(tokens, req'[r].jti)
           /\ req'[r].session = tokens[req'[r].jti].session

(* No request starts to renew.                                             *)
StartsNoRenewal(r) ==
    Renewing(r)' => /\ Renewing(r)
                    /\ req'[r].jti = req[r].jti
                    /\ req'[r].session = req[r].session

(* Every renewal goes on, or one request alone changes and no row does.    *)
KeepsRenewals ==
    \A r \in Requests : Renewing(r) => Renewing(r)' /\ req'[r].session = req[r].session

AbandonsOne ==
    /\ UNCHANGED tokens
    /\ \E r \in Requests : \A q \in Requests : q # r => req'[q] = req[q]

QuietStep ==
    /\ OnlyRevokes
    /\ \A r \in Requests : PresentsStored(r) /\ StartsNoRenewal(r)
    /\ KeepsRenewals \/ AbandonsOne

(* The one request that wins the presented token.                          *)
Wins(r) ==
    /\ req[r].step = "revoke"
    /\ Active(tokens, req[r].jti)
    /\ tokens' = RevokeRows(tokens, {req[r].jti})
    /\ req' = [req EXCEPT ![r].step = "findUser"]

(* A request that presents a token presents a stored one, of its session,  *)
(* and has revoked it when it is renewing.                                 *)
Linked ==
    \A r \in Requests :
        req[r].jti # None =>
            /\ Issued(tokens, req[r].jti)
            /\ tokens[req[r].jti].session = req[r].session
            /\ Renewing(r) => ~Active(tokens, req[r].jti)

LEMMA RevokeRowsOnlyRevokes ==
    ASSUME TypeOK, NEW J \in SUBSET Jtis, \A j \in J : Issued(tokens, j),
           tokens' = RevokeRows(tokens, J)
    PROVE  OnlyRevokes
BY DEF TypeOK, Table, Row, RevokeRows, OnlyRevokes, Active, Issued

(* One request changes, to a record that presents nothing.                 *)
LEMMA PresentsNothing ==
    ASSUME TypeOK, NEW r \in Requests, NEW new, new.jti = None,
           req' = [req EXCEPT ![r] = new]
    PROVE  /\ \A q \in Requests : PresentsStored(q) /\ StartsNoRenewal(q)
           /\ ~Renewing(r) => KeepsRenewals
           /\ UNCHANGED tokens => AbandonsOne
BY DEF TypeOK, PresentsStored, StartsNoRenewal, KeepsRenewals, AbandonsOne, Renewing

LEMMA StepShape ==
    ASSUME TypeOK, Presents, Linked, [Next]_vars
    PROVE  \/ QuietStep
           \/ \E r \in Requests : Wins(r)
           \/ \E r \in Requests, j \in Jtis, s \in SessionIds : InsertToken(r, j, s)
<1> USE NoneIsNull
<1> USE DEF TypeOK
<1>0. /\ Idle.jti = None
      /\ \A e, t : [Idle EXCEPT !.step = "cutOff", !.ended = e, !.todo = t].jti = None
  BY DEF Idle
<1>a. UNCHANGED tokens => OnlyRevokes
  BY DEF OnlyRevokes
<1>1. CASE Tick
  BY <1>1, <1>a DEF Tick, QuietStep, KeepsRenewals, PresentsStored, StartsNoRenewal, Renewing
<1>2. ASSUME NEW r \in Requests, NEW j \in Jtis, BeginRefresh(r, j)
      PROVE  QuietStep
  <2> DEFINE step == IF Active(tokens, j) THEN "revoke"
                     ELSE IF tokens[j].session = None THEN "endAll"
                     ELSE "checkActive"
             new == [Idle EXCEPT !.step = step, !.user = tokens[j].user,
                                 !.jti = j, !.session = tokens[j].session]
  <2>1. step \notin {"findUser", "insert"}
    OBVIOUS
  <2>2. req' = [req EXCEPT ![r] = new]
    BY <1>2 DEF BeginRefresh
  <2> HIDE DEF step
  <2>3. new.step = step /\ new.jti = j /\ new.session = tokens[j].session
    BY DEF Idle
  <2> HIDE DEF new
  <2>4. Issued(tokens, j) /\ UNCHANGED tokens /\ req[r].step = "idle"
    BY <1>2 DEF BeginRefresh
  <2> QED
    BY <1>a, <2>1, <2>2, <2>3, <2>4
    DEF QuietStep, KeepsRenewals, PresentsStored, StartsNoRenewal, Renewing
<1>3. ASSUME NEW r \in Requests, RejectRevokedToken(r)
      PROVE  QuietStep
  <2>1. OnlyRevokes
    BY <1>3, <1>a DEF RejectRevokedToken
  <2>2. CASE Goto(r, "endAll")
    BY <1>3, <2>1, <2>2
    DEF RejectRevokedToken, Goto, QuietStep, KeepsRenewals, PresentsStored, StartsNoRenewal, Renewing
  <2>3. CASE Done(r)
    BY <1>0, <1>3, <2>1, <2>3, PresentsNothing
    DEF RejectRevokedToken, Done, Renewing, QuietStep
  <2> QED
    BY <1>3, <2>2, <2>3 DEF RejectRevokedToken
<1>4. ASSUME NEW r \in Requests, RevokeOldToken(r)
      PROVE  QuietStep \/ Wins(r)
  <2>1. req[r].jti \in Jtis /\ Issued(tokens, req[r].jti)
    BY <1>4 DEF RevokeOldToken, Presents, Linked, Request
  <2>2. CASE Wins(r)
    BY <2>2
  <2>3. CASE Goto(r, "endAll") /\ tokens' \in {tokens, RevokeRows(tokens, {req[r].jti})}
    <3>1. OnlyRevokes
      BY <2>1, <2>3, <1>a, RevokeRowsOnlyRevokes
    <3> QED
      BY <1>4, <2>3, <3>1
      DEF RevokeOldToken, Goto, QuietStep, KeepsRenewals, PresentsStored, StartsNoRenewal, Renewing
  <2> QED
    BY <1>4, <2>2, <2>3 DEF RevokeOldToken, Wins, Goto
<1>5. ASSUME NEW r \in Requests, FindUser(r)
      PROVE  QuietStep
  <2> DEFINE new == [req[r] EXCEPT !.step = "insert", !.at = now]
  <2>1. req[r] \in Request
    OBVIOUS
  <2>2. new.step = "insert" /\ new.jti = req[r].jti /\ new.session = req[r].session
    BY <2>1 DEF Request
  <2>3. req' = [req EXCEPT ![r] = new] /\ UNCHANGED tokens /\ req[r].step = "findUser"
    BY <1>5 DEF FindUser
  <2> HIDE DEF new
  <2> QED
    BY <1>a, <2>2, <2>3 DEF QuietStep, KeepsRenewals, PresentsStored, StartsNoRenewal, Renewing
<1>6. ASSUME NEW r \in Requests, NEW u \in Users, BeginSignIn(r, u)
      PROVE  QuietStep
  <2> DEFINE new == [Idle EXCEPT !.step = "insert", !.user = u, !.at = now]
  <2>1. new.jti = None
    BY DEF Idle
  <2>2. req' = [req EXCEPT ![r] = new] /\ UNCHANGED tokens
    BY <1>6 DEF BeginSignIn
  <2> HIDE DEF new
  <2> QED
    BY <1>a, <2>1, <2>2, PresentsNothing DEF QuietStep
<1>7. ASSUME NEW r \in Requests, NEW j \in Jtis, Logout(r, j)
      PROVE  QuietStep
  <2>1. OnlyRevokes
    BY <1>7, RevokeRowsOnlyRevokes DEF Logout
  <2> QED
    BY <1>7, <1>0, <2>1, PresentsNothing DEF Logout, CutOffNext, Renewing, QuietStep
<1>8. ASSUME NEW r \in Requests, NEW c \in SessionIds, NEW s \in SessionIds,
             BeginRevokeSession(r, c, s)
      PROVE  QuietStep
  <2>1. PICK u \in OwnerOf(c) :
           req' = [req EXCEPT ![r] = [Idle EXCEPT !.step = "endSession",
                                                  !.user = u, !.session = s]]
    BY <1>8 DEF BeginRevokeSession
  <2>2. [Idle EXCEPT !.step = "endSession", !.user = u, !.session = s].jti = None
    BY DEF Idle
  <2> QED
    BY <1>8, <1>a, <2>1, <2>2, PresentsNothing DEF BeginRevokeSession, QuietStep
<1>9. ASSUME NEW r \in Requests, EndSession(r)
      PROVE  QuietStep
  <2>1. OnlyRevokes
    BY <1>9, RevokeRowsOnlyRevokes DEF EndSession, ActiveOfSession, Active, Issued
  <2> QED
    BY <1>9, <1>0, <2>1, PresentsNothing DEF EndSession, CutOffNext, Done, Renewing, QuietStep
<1>10. ASSUME NEW r \in Requests, NEW c \in SessionIds, BeginLogoutAll(r, c)
       PROVE  QuietStep
  <2>1. PICK u \in OwnerOf(c) :
           req' = [req EXCEPT ![r] = [Idle EXCEPT !.step = "endAll", !.user = u]]
    BY <1>10 DEF BeginLogoutAll
  <2>2. [Idle EXCEPT !.step = "endAll", !.user = u].jti = None
    BY DEF Idle
  <2> QED
    BY <1>10, <1>a, <2>1, <2>2, PresentsNothing DEF BeginLogoutAll, QuietStep
<1>11. ASSUME NEW r \in Requests, EndAll(r)
       PROVE  QuietStep
  <2>1. OnlyRevokes
    BY <1>11, RevokeRowsOnlyRevokes DEF EndAll, ActiveOfUser, Active, Issued
  <2> QED
    BY <1>11, <1>0, <2>1, PresentsNothing DEF EndAll, CutOffNext, Renewing, QuietStep
<1>12. ASSUME NEW r \in Requests, NEW s \in SessionIds, CutOff(r, s)
       PROVE  QuietStep
  BY <1>12, <1>a DEF CutOff, QuietStep, KeepsRenewals, PresentsStored, StartsNoRenewal, Renewing
<1>13. ASSUME NEW r \in Requests, Answer(r) \/ Fail(r)
       PROVE  QuietStep
  BY <1>13, <1>0, <1>a, PresentsNothing DEF Answer, Fail, Done, QuietStep
<1>14. CASE UNCHANGED vars
  BY <1>14, <1>a DEF vars, QuietStep, KeepsRenewals, PresentsStored, StartsNoRenewal, Renewing
<1> QED
  BY <1>1, <1>2, <1>3, <1>4, <1>5, <1>6, <1>7, <1>8, <1>9, <1>10, <1>11,
     <1>12, <1>13, <1>14 DEF Next

LEMMA LinkedInductive ==
    ASSUME TypeOK, TypeOK', Presents, Linked, [Next]_vars
    PROVE  Linked'
<1> USE NoneIsNull
<1>1. CASE QuietStep
  <2> SUFFICES ASSUME NEW r \in Requests, req'[r].jti # None
               PROVE  /\ Issued(tokens', req'[r].jti)
                      /\ tokens'[req'[r].jti].session = req'[r].session
                      /\ Renewing(r)' => ~Active(tokens', req'[r].jti)
    BY DEF Linked
  <2>1. req'[r].jti \in Jtis /\ Issued(tokens, req'[r].jti)
          /\ tokens[req'[r].jti].session = req'[r].session
    <3>1. req'[r].jti \in Jtis
      BY DEF TypeOK, Request
    <3> QED
      BY <1>1, <3>1 DEF QuietStep, PresentsStored, Linked
  <2>2. Renewing(r)' => ~Active(tokens, req'[r].jti)
    BY <1>1 DEF QuietStep, StartsNoRenewal, Linked
  <2> QED
    BY <1>1, <2>1, <2>2 DEF QuietStep, OnlyRevokes
<1>2. ASSUME NEW r \in Requests, Wins(r)
      PROVE  Linked'
  <2>1. \A k \in Jtis : /\ tokens'[k].session = tokens[k].session
                        /\ Issued(tokens, k) => Issued(tokens', k)
                        /\ Active(tokens', k) => Active(tokens, k) /\ k # req[r].jti
    BY <1>2 DEF Wins, TypeOK, Table, Row, RevokeRows, Issued, Active
  <2>2. \A q \in Requests : req'[q].jti = req[q].jti /\ req'[q].session = req[q].session
    BY <1>2 DEF Wins, TypeOK, Request
  <2>3. \A q \in Requests : q # r => (Renewing(q)' <=> Renewing(q))
    BY <1>2 DEF Wins, TypeOK, Renewing
  <2> QED
    BY <2>1, <2>2, <2>3 DEF TypeOK, Request, Linked
<1>3. ASSUME NEW r \in Requests, NEW j \in Jtis, NEW s \in SessionIds, InsertToken(r, j, s)
      PROVE  Linked'
  <2>1. \A k \in Jtis : k # j => tokens'[k] = tokens[k]
    BY <1>3 DEF InsertToken, InsertRow, TypeOK, Table
  <2>2. ~Issued(tokens, j) /\ req' = [req EXCEPT ![r] = Idle] /\ Idle.jti = None
    BY <1>3 DEF InsertToken, Done, Idle
  <2> QED
    BY <2>1, <2>2 DEF TypeOK, Request, Linked, Renewing, Issued, Active
<1> QED
  BY <1>1, <1>2, <1>3, StepShape

-----------------------------------------------------------------------------
(* A session has one holder at most: a usable token, or a request that     *)
(* revoked it and has not stored the next one yet.  Neither half is        *)
(* inductive alone: it is the request in flight that must be unique for    *)
(* the token it stores to be.                                              *)
OneHolder ==
    \A s \in SessionIds :
        /\ \A j, k \in Live(s) : j = k
        /\ \A q, r \in Pending(s) : q = r
        /\ Live(s) = {} \/ Pending(s) = {}

LEMMA OneHolderInductive ==
    ASSUME TypeOK, Presents, Linked, OneHolder, [Next]_vars
    PROVE  OneHolder'
<1> USE NoneIsNull
<1>1. CASE QuietStep
  <2>1. ASSUME NEW s \in SessionIds
        PROVE  Live(s)' \subseteq Live(s) /\ Pending(s)' \subseteq Pending(s)
    BY <1>1 DEF QuietStep, OnlyRevokes, StartsNoRenewal, Live, Pending
  <2> QED
    BY <2>1 DEF OneHolder
<1>2. ASSUME NEW r \in Requests, Wins(r)
      PROVE  OneHolder'
  <2>1. req[r].jti \in Jtis /\ tokens[req[r].jti].session = req[r].session
    BY <1>2 DEF Wins, Presents, Linked, TypeOK, Request
  <2>2. ASSUME NEW s \in SessionIds
        PROVE  Live(s)' = Live(s) \ {req[r].jti}
    BY <1>2, <2>1 DEF Wins, Live, TypeOK, Table, Row, RevokeRows, Active
  <2>3. ASSUME NEW s \in SessionIds
        PROVE  Pending(s)' = IF s = req[r].session THEN Pending(s) \cup {r} ELSE Pending(s)
    BY <1>2, <2>1 DEF Wins, Pending, Renewing, TypeOK, Request
  <2>4. req[r].session \in SessionIds => req[r].jti \in Live(req[r].session)
    BY <1>2, <2>1 DEF Wins, Live
  <2>5. ASSUME NEW s \in SessionIds, s = req[r].session
        PROVE  Live(s)' = {} /\ Pending(s)' = {r}
    <3>1. Live(s) = {req[r].jti} /\ Pending(s) = {}
      BY <2>4, <2>5 DEF OneHolder
    <3> QED
      BY <2>2, <2>3, <2>5, <3>1
  <2>6. ASSUME NEW s \in SessionIds, s # req[r].session
        PROVE  Live(s)' \subseteq Live(s) /\ Pending(s)' = Pending(s)
    BY <2>2, <2>3, <2>6
  <2> QED
    BY <2>5, <2>6 DEF OneHolder
<1>3. ASSUME NEW r \in Requests, NEW j \in Jtis, NEW s \in SessionIds, InsertToken(r, j, s)
      PROVE  OneHolder'
  <2>1. ASSUME NEW t \in SessionIds
        PROVE  Live(t)' = IF t = s THEN Live(t) \cup {j} ELSE Live(t)
    BY <1>3 DEF InsertToken, InsertRow, Live, TypeOK, Table, Active, Issued
  <2>2. ASSUME NEW t \in SessionIds
        PROVE  Pending(t)' = Pending(t) \ {r}
    BY <1>3 DEF InsertToken, Done, Idle, Pending, Renewing, TypeOK
  <2>3. Live(s) = {} /\ Pending(s) \subseteq {r}
    <3>1. CASE req[r].session # None
      <4>1. s = req[r].session /\ Renewing(r)
        BY <1>3, <3>1 DEF InsertToken, SessionOfNew, Presents, Renewing
      <4> QED
        BY <4>1 DEF OneHolder, Pending
    <3>2. CASE req[r].session = None
      <4>1. FreshSession(tokens, s)
        BY <1>3, <3>2 DEF InsertToken, SessionOfNew
      <4>2. Live(s) = {}
        BY <4>1 DEF FreshSession, Live, Active, Issued
      <4>3. Pending(s) = {}
        BY <4>1 DEF FreshSession, Pending, Linked, Renewing, TypeOK, Request
      <4> QED
        BY <4>2, <4>3
    <3> QED
      BY <3>1, <3>2
  <2>4. Live(s)' = {j} /\ Pending(s)' = {}
    BY <2>1, <2>2, <2>3
  <2> QED
    BY <2>1, <2>2, <2>4 DEF OneHolder
<1> QED
  BY <1>1, <1>2, <1>3, StepShape

(* No session ever has two usable tokens, however many requests rotate,    *)
(* replay, revoke or fail at once.                                         *)
THEOREM OneUsableToken == Spec => []AtMostOneUsableToken
<1>1. Init => Linked /\ OneHolder
  <2> SUFFICES ASSUME Init PROVE Linked /\ OneHolder
    OBVIOUS
  <2>1. \A r \in Requests : req[r].jti = None /\ req[r].step = "idle"
    BY DEF Init, Idle
  <2>2. \A j \in Jtis : tokens[j].session = None
    <3>1. NoRow.session = None /\ \A u \in Users : Legacy(u).session = None
      BY DEF NoRow, Legacy
    <3> QED
      BY <3>1 DEF Init
  <2>3. \A s \in SessionIds : Live(s) = {} /\ Pending(s) = {}
    BY <2>1, <2>2, NoneIsNull DEF Live, Pending, Renewing
  <2> QED
    BY <2>1, <2>3 DEF Linked, OneHolder
<1>2. /\ TypeOK /\ Presents /\ (TypeOK /\ Presents)' /\ Linked /\ OneHolder
      /\ [Next]_vars
      => (Linked /\ OneHolder)'
  BY LinkedInductive, OneHolderInductive
<1>3. OneHolder => AtMostOneUsableToken
  BY DEF OneHolder, AtMostOneUsableToken
<1> QED
  BY <1>1, <1>2, <1>3, TypeInvariant, PTL DEF Spec

-----------------------------------------------------------------------------
(* Why a token is exchanged once: a token that was exchanged, or is being  *)
(* exchanged, is not usable, and the two exclude each other.               *)
Spent ==
    /\ \A j \in Jtis : tokens[j].replaces # None =>
          /\ Issued(tokens, j)
          /\ Issued(tokens, tokens[j].replaces)
          /\ ~Active(tokens, tokens[j].replaces)
    /\ \A r \in Requests : Renewing(r) =>
          \A j \in Jtis : tokens[j].replaces # req[r].jti
    /\ \A q, r \in Requests :
          Renewing(q) /\ Renewing(r) /\ req[q].jti = req[r].jti => q = r
    /\ \A j, k \in Jtis :
          tokens[j].replaces = tokens[k].replaces /\ tokens[j].replaces # None => j = k

LEMMA SpentInductive ==
    ASSUME TypeOK, Presents, Linked, Spent, [Next]_vars
    PROVE  Spent'
<1> USE NoneIsNull
<1>0. /\ \A j \in Jtis : tokens[j].replaces \in Jtis \cup {None}
      /\ \A r \in Requests : req[r].jti \in Jtis \cup {None}
  BY DEF TypeOK, Table, Row, Request
<1>1. CASE QuietStep
  BY <1>0, <1>1 DEF QuietStep, OnlyRevokes, StartsNoRenewal, Spent
<1>2. ASSUME NEW r \in Requests, Wins(r)
      PROVE  Spent'
  <2>1. req[r].jti \in Jtis /\ Active(tokens, req[r].jti)
    BY <1>2 DEF Wins, Presents, TypeOK, Request
  <2>2. \A k \in Jtis : /\ tokens'[k].replaces = tokens[k].replaces
                        /\ Issued(tokens, k) => Issued(tokens', k)
                        /\ Active(tokens', k) => Active(tokens, k)
    BY <1>2 DEF Wins, TypeOK, Table, Row, RevokeRows, Issued, Active
  <2>3. \A q \in Requests : /\ req'[q].jti = req[q].jti
                            /\ q # r => (Renewing(q)' <=> Renewing(q))
    BY <1>2 DEF Wins, TypeOK, Request, Renewing
  <2>4. \A q \in Requests : Renewing(q) => req[q].jti # req[r].jti
    BY <2>1 DEF Linked, Renewing
  <2>5. \A k \in Jtis : tokens[k].replaces # req[r].jti
    BY <2>1 DEF Spent
  <2> QED
    BY <1>0, <2>1, <2>2, <2>3, <2>4, <2>5 DEF Spent
<1>3. ASSUME NEW r \in Requests, NEW j \in Jtis, NEW s \in SessionIds, InsertToken(r, j, s)
      PROVE  Spent'
  <2>1. \A k \in Jtis : k # j => tokens'[k] = tokens[k]
    BY <1>3 DEF InsertToken, InsertRow, TypeOK, Table
  <2>2. tokens'[j].replaces = req[r].jti /\ Issued(tokens', j) /\ ~Issued(tokens, j)
    BY <1>3 DEF InsertToken, InsertRow, TypeOK, Table, Issued
  <2>3. req' = [req EXCEPT ![r] = Idle] /\ req[r].step = "insert"
    BY <1>3 DEF InsertToken, Done
  <2>4. \A q \in Requests : Renewing(q)' => q # r /\ Renewing(q) /\ req'[q].jti = req[q].jti
    BY <2>3 DEF TypeOK, Renewing, Idle
  <2>5. req[r].jti # None =>
          /\ Renewing(r)
          /\ req[r].jti # j
          /\ Issued(tokens, req[r].jti)
          /\ ~Active(tokens, req[r].jti)
    BY <2>2, <2>3 DEF Linked, Renewing
  <2>6. \A k \in Jtis : k # j => tokens[k].replaces # j
    BY <2>2, NoneIsNull DEF Spent
  <2>7. ASSUME NEW k \in Jtis, tokens'[k].replaces # None
        PROVE  /\ Issued(tokens', k)
               /\ Issued(tokens', tokens'[k].replaces)
               /\ ~Active(tokens', tokens'[k].replaces)
    BY <1>0, <2>1, <2>2, <2>5, <2>6, <2>7 DEF Spent, Issued, Active
  <2>8. ASSUME NEW q \in Requests, Renewing(q)', NEW k \in Jtis
        PROVE  tokens'[k].replaces # req'[q].jti
    BY <2>1, <2>2, <2>4, <2>5, <2>8 DEF Spent, Renewing
  <2>9. ASSUME NEW k \in Jtis, NEW l \in Jtis,
               tokens'[k].replaces = tokens'[l].replaces, tokens'[k].replaces # None
        PROVE  k = l
    BY <2>1, <2>2, <2>5, <2>9 DEF Spent
  <2> QED
    BY <2>4, <2>7, <2>8, <2>9 DEF Spent
<1> QED
  BY <1>1, <1>2, <1>3, StepShape

(* A refresh token is exchanged for one pair at most, whether it has a     *)
(* session or dates from before sessions existed.                          *)
THEOREM TokenExchangedOnce == Spec => []ExchangedOnce
<1>1. Init => Linked /\ Spent
  <2> SUFFICES ASSUME Init PROVE Linked /\ Spent
    OBVIOUS
  <2>1. \A r \in Requests : req[r].jti = None /\ req[r].step = "idle"
    BY DEF Init, Idle
  <2>2. \A j \in Jtis : tokens[j].replaces = None
    <3>1. NoRow.replaces = None /\ \A u \in Users : Legacy(u).replaces = None
      BY DEF NoRow, Legacy
    <3> QED
      BY <3>1 DEF Init
  <2> QED
    BY <2>1, <2>2 DEF Linked, Spent, Renewing
<1>2. /\ TypeOK /\ Presents /\ (TypeOK /\ Presents)' /\ Linked /\ Spent
      /\ [Next]_vars
      => (Linked /\ Spent)'
  BY LinkedInductive, SpentInductive
<1>3. Spent => ExchangedOnce
  BY DEF Spent, ExchangedOnce
<1> QED
  BY <1>1, <1>2, <1>3, TypeInvariant, PTL DEF Spec

-----------------------------------------------------------------------------
(* Sessions implements SessionChain.                                       *)

LEMMA StepImplementsChain ==
    ASSUME TypeOK, Presents, Linked, OneHolder, OneHolder', [Next]_vars
    PROVE  [Chain!Next]_Phases
<1> USE NoneIsNull
<1>0. \A s \in SessionIds : Phases[s] = Phase(s) /\ Phases'[s] = Phase(s)'
  BY DEF Phases
<1>a. ASSUME \A s \in SessionIds : Phase(s)' = Phase(s)
      PROVE  UNCHANGED Phases
  BY <1>a DEF Phases
<1>b. ASSUME NEW s \in SessionIds, \A t \in SessionIds \ {s} : Phase(t)' = Phase(t)
      PROVE  Phases' = [Phases EXCEPT ![s] = Phase(s)']
  BY <1>b DEF Phases
<1>c. \A s \in SessionIds : ~FreshSession(tokens, s) \/ (Live(s) = {} /\ Pending(s) = {})
  BY DEF FreshSession, Live, Pending, Linked, Renewing, TypeOK, Request, Active, Issued
<1>1. CASE QuietStep
  <2>1. ASSUME NEW s \in SessionIds
        PROVE  FreshSession(tokens, s)' <=> FreshSession(tokens, s)
    BY <1>1 DEF QuietStep, OnlyRevokes, FreshSession
  <2>2. ASSUME NEW s \in SessionIds
        PROVE  Live(s)' \subseteq Live(s) /\ Pending(s)' \subseteq Pending(s)
    BY <1>1 DEF QuietStep, OnlyRevokes, StartsNoRenewal, Live, Pending
  <2>3. CASE KeepsRenewals
    <3>1. ASSUME NEW s \in SessionIds
          PROVE  Pending(s)' = Pending(s)
      BY <2>2, <2>3 DEF KeepsRenewals, Pending
    <3> DEFINE S == {s \in SessionIds : Phase(s) = "live" /\ Phase(s)' # "live"}
    <3>2. ASSUME NEW s \in SessionIds
          PROVE  Phase(s)' = IF s \in S THEN "over" ELSE Phase(s)
      BY <2>1, <2>2, <3>1, <1>c DEF Phase, OneHolder
    <3>3. Chain!SignOut(S)
      BY <1>0, <3>2 DEF Chain!SignOut, Phases
    <3> QED
      BY <3>3 DEF Chain!Next
  <2>4. CASE AbandonsOne
    <3>1. PICK r \in Requests : \A q \in Requests : q # r => req'[q] = req[q]
      BY <2>4 DEF AbandonsOne
    <3>2. ASSUME NEW s \in SessionIds
          PROVE  /\ Live(s)' = Live(s)
                 /\ Pending(s)' # Pending(s) => s = req[r].session /\ Pending(s) = {r}
                                                /\ Pending(s)' = {}
      <4>1. Live(s)' = Live(s)
        BY <2>4 DEF AbandonsOne, Live
      <4>2. \A q \in Requests : q # r => (q \in Pending(s)' <=> q \in Pending(s))
        BY <3>1 DEF Pending, Renewing
      <4>3. Pending(s)' # Pending(s) => r \in Pending(s) /\ Pending(s)' = Pending(s) \ {r}
        BY <2>2, <4>2 DEF Pending
      <4> QED
        BY <4>1, <4>3 DEF OneHolder, Pending
    <3>3. ASSUME NEW s \in SessionIds, s # req[r].session
          PROVE  Phase(s)' = Phase(s)
      BY <2>1, <3>2, <3>3 DEF Phase
    <3>4. ASSUME NEW s \in SessionIds
          PROVE  \/ Phase(s)' = Phase(s)
                 \/ Phase(s) = "renewing" /\ Phase(s)' = "over"
      BY <2>1, <3>2, <1>c DEF Phase, OneHolder
    <3>5. CASE \A s \in SessionIds : Phase(s)' = Phase(s)
      BY <1>a, <3>5
    <3>6. CASE \E s \in SessionIds : Phase(s)' # Phase(s)
      <4>1. PICK s \in SessionIds : Phase(s)' # Phase(s)
        BY <3>6
      <4>2. \A t \in SessionIds \ {s} : Phase(t)' = Phase(t)
        BY <3>3, <4>1
      <4>3. Chain!Abandon(s)
        BY <1>0, <1>b, <3>4, <4>1, <4>2 DEF Chain!Abandon, Chain!Move
      <4> QED
        BY <4>3 DEF Chain!Next
    <3> QED
      BY <3>5, <3>6
  <2> QED
    BY <1>1, <2>3, <2>4 DEF QuietStep
<1>2. ASSUME NEW r \in Requests, Wins(r)
      PROVE  [Chain!Next]_Phases
  <2>1. /\ req[r].jti \in Jtis
        /\ tokens[req[r].jti].session = req[r].session
        /\ Active(tokens, req[r].jti)
    BY <1>2 DEF Wins, Presents, Linked, TypeOK, Request
  <2>2. \A k \in Jtis : /\ tokens'[k].session = tokens[k].session
                        /\ Issued(tokens', k) <=> Issued(tokens, k)
                        /\ Active(tokens', k) <=> Active(tokens, k) /\ k # req[r].jti
    BY <1>2, <2>1 DEF Wins, TypeOK, Table, Row, RevokeRows, Issued, Active
  <2>3. \A q \in Requests : /\ req'[q].jti = req[q].jti
                            /\ req'[q].session = req[q].session
                            /\ Renewing(q)' <=> Renewing(q) \/ q = r
    BY <1>2, <2>1 DEF Wins, TypeOK, Request, Renewing
  <2>4. ASSUME NEW s \in SessionIds
        PROVE  /\ FreshSession(tokens, s)' <=> FreshSession(tokens, s)
               /\ s # req[r].session => Live(s)' = Live(s) /\ Pending(s)' = Pending(s)
    BY <2>1, <2>2, <2>3 DEF FreshSession, Live, Pending
  <2>5. ASSUME NEW s \in SessionIds, s # req[r].session
        PROVE  Phase(s)' = Phase(s)
    BY <2>4, <2>5 DEF Phase
  <2>6. CASE req[r].session \notin SessionIds
    BY <1>a, <2>5, <2>6
  <2>7. ASSUME NEW s \in SessionIds, s = req[r].session
        PROVE  Chain!Renew(s)
    <3>1. Phase(s) = "live"
      BY <2>1, <2>7, <1>c DEF Phase, Live
    <3>2. r \in Pending(s)'
      BY <2>3, <2>7 DEF Pending
    <3>3. Phase(s)' = "renewing"
      BY <2>4, <3>1, <3>2 DEF Phase, OneHolder
    <3> QED
      BY <1>0, <1>b, <2>5, <2>7, <3>1, <3>3 DEF Chain!Renew, Chain!Move
  <2> QED
    BY <2>6, <2>7 DEF Chain!Next
<1>3. ASSUME NEW r \in Requests, NEW j \in Jtis, NEW s \in SessionIds, InsertToken(r, j, s)
      PROVE  [Chain!Next]_Phases
  <2>1. /\ \A k \in Jtis : k # j => tokens'[k] = tokens[k]
        /\ tokens'[j].session = s /\ Active(tokens', j) /\ Issued(tokens', j)
        /\ ~Issued(tokens, j)
    BY <1>3 DEF InsertToken, InsertRow, TypeOK, Table, Active, Issued
  <2>2. req' = [req EXCEPT ![r] = Idle] /\ req[r].step = "insert"
    BY <1>3 DEF InsertToken, Done
  <2>3. \A q \in Requests : Renewing(q)' <=> Renewing(q) /\ q # r
    BY <2>2 DEF TypeOK, Renewing, Idle
  <2>4. req[r].session # None => req[r].session = s /\ Renewing(r)
    BY <1>3, <2>2 DEF InsertToken, SessionOfNew, Presents, Renewing
  <2>5. ASSUME NEW t \in SessionIds, t # s
        PROVE  Phase(t)' = Phase(t)
    <3>1. FreshSession(tokens, t)' <=> FreshSession(tokens, t)
      BY <2>1, <2>5 DEF FreshSession, Issued
    <3>2. Live(t)' = Live(t)
      BY <2>1, <2>5 DEF Live, Active, Issued
    <3>3. Pending(t)' = Pending(t)
      BY <2>2, <2>3, <2>4, <2>5 DEF Pending, TypeOK
    <3> QED
      BY <3>1, <3>2, <3>3 DEF Phase
  <2>6. Phase(s)' = "live"
    <3>1. j \in Live(s)' /\ ~FreshSession(tokens, s)'
      BY <2>1 DEF Live, FreshSession
    <3> QED
      BY <3>1 DEF Phase
  <2>7. CASE req[r].session # None
    <3>1. Phase(s) = "renewing"
      BY <1>c, <2>4, <2>7 DEF Phase, OneHolder, Pending
    <3>2. Chain!Renewed(s)
      BY <1>0, <1>b, <2>5, <2>6, <3>1 DEF Chain!Renewed, Chain!Move
    <3> QED
      BY <3>2 DEF Chain!Next
  <2>8. CASE req[r].session = None
    <3>1. Phase(s) = "unused"
      BY <1>3, <2>8 DEF InsertToken, SessionOfNew, Phase
    <3>2. Chain!Start(s)
      BY <1>0, <1>b, <2>5, <2>6, <3>1 DEF Chain!Start, Chain!Move
    <3> QED
      BY <3>2 DEF Chain!Next
  <2> QED
    BY <2>7, <2>8
<1> QED
  BY <1>1, <1>2, <1>3, StepShape

(* Whatever interleaves, a session is started once, renewed by one request *)
(* at a time, and never comes back once it is over.                        *)
THEOREM SessionsImplementChain == Spec => ImplementsChain
<1>1. Init => Linked /\ OneHolder /\ Chain!Init
  <2> SUFFICES ASSUME Init PROVE Linked /\ OneHolder /\ Chain!Init
    OBVIOUS
  <2>1. \A r \in Requests : req[r].jti = None /\ req[r].step = "idle"
    BY DEF Init, Idle
  <2>2. \A j \in Jtis : tokens[j].session = None
    <3>1. NoRow.session = None /\ \A u \in Users : Legacy(u).session = None
      BY DEF NoRow, Legacy
    <3> QED
      BY <3>1 DEF Init
  <2>3. \A s \in SessionIds : Live(s) = {} /\ Pending(s) = {} /\ FreshSession(tokens, s)
    BY <2>1, <2>2, NoneIsNull DEF Live, Pending, Renewing, FreshSession
  <2>4. Linked /\ OneHolder
    BY <2>1, <2>3 DEF Linked, OneHolder
  <2>5. Chain!Init
    BY <2>3 DEF Chain!Init, Phases, Phase
  <2> QED
    BY <2>4, <2>5
<1>2. /\ TypeOK /\ Presents /\ (TypeOK /\ Presents)' /\ Linked /\ OneHolder
      /\ [Next]_vars
      => (Linked /\ OneHolder)' /\ [Chain!Next]_Phases
  BY LinkedInductive, OneHolderInductive, StepImplementsChain
<1> QED
  BY <1>1, <1>2, TypeInvariant, PTL DEF Spec, ImplementsChain, Chain!Spec

(* A request that is cutting sessions off goes on with the same ones.      *)
GoesOn(r) ==
    req'[r].step = "cutOff" => /\ req[r].step = "cutOff"
                               /\ req'[r].ended = req[r].ended
                               /\ req'[r].todo = req[r].todo

(* An access token that is about to be issued was signed before this step, *)
(* or is signed now.                                                       *)
SignsNow(r) ==
    req'[r].step = "insert" => \/ req[r].step = "insert" /\ req'[r].at = req[r].at
                               \/ req'[r].at = now

(* Nothing is signed out or cut off; an access token may be issued.        *)
IssuesAtMost ==
    /\ \A r \in Requests : GoesOn(r) /\ SignsNow(r)
    /\ now' \in {now, now + 1}
    /\ UNCHANGED <<revokedUntil, cut>>
    /\ \/ UNCHANGED accessUntil
       \/ \E r \in Requests, j \in Jtis, s \in SessionIds : InsertToken(r, j, s)

(* Request r revokes rows: the sessions it ends had a usable one, and are  *)
(* all to be cut off.                                                      *)
SignsOut(r) ==
    /\ \E J \in SUBSET Jtis, ended \in SUBSET SessionIds, todo \in SUBSET SessionIds :
          /\ tokens' = RevokeRows(tokens, J)
          /\ CutOffNext(r, ended, todo)
          /\ ended \subseteq todo
          /\ \A s \in ended : \E j \in J : Active(tokens, j) /\ tokens[j].session = s
    /\ UNCHANGED <<now, revokedUntil, accessUntil, cut>>

-----------------------------------------------------------------------------
(* What any step does to the sessions that were signed out.                *)

LEMMA IdleGoesOn ==
    ASSUME TypeOK, NEW r \in Requests, NEW new, new.step # "cutOff",
           new.step = "insert" => new.at = now,
           req' = [req EXCEPT ![r] = new]
    PROVE  \A q \in Requests : GoesOn(q) /\ SignsNow(q)
BY DEF TypeOK, GoesOn, SignsNow

LEMMA CutShape ==
    ASSUME TypeOK, Presents, [Next]_vars
    PROVE  \/ IssuesAtMost
           \/ \E r \in Requests : SignsOut(r) \/ Answer(r)
           \/ \E r \in Requests, s \in SessionIds : CutOff(r, s)
<1> USE NoneIsNull
<1>0. Idle.step \notin {"cutOff", "insert"}
  BY DEF Idle
<1>1. CASE Tick \/ UNCHANGED vars
  BY <1>1 DEF Tick, vars, IssuesAtMost, GoesOn, SignsNow
<1>2. ASSUME NEW r \in Requests, NEW j \in Jtis, BeginRefresh(r, j)
      PROVE  IssuesAtMost
  <2> DEFINE step == IF Active(tokens, j) THEN "revoke"
                     ELSE IF tokens[j].session = None THEN "endAll"
                     ELSE "checkActive"
             new == [Idle EXCEPT !.step = step, !.user = tokens[j].user,
                                 !.jti = j, !.session = tokens[j].session]
  <2>1. step \notin {"cutOff", "insert"}
    OBVIOUS
  <2>2. req' = [req EXCEPT ![r] = new]
    BY <1>2 DEF BeginRefresh
  <2> HIDE DEF step
  <2>3. new.step = step
    BY DEF Idle
  <2> HIDE DEF new
  <2> QED
    BY <1>2, <2>1, <2>2, <2>3, IdleGoesOn DEF BeginRefresh, IssuesAtMost
<1>3. ASSUME NEW r \in Requests, RejectRevokedToken(r) \/ RevokeOldToken(r)
      PROVE  IssuesAtMost
  <2>1. CASE Goto(r, "endAll") \/ Goto(r, "findUser")
    <3>1. \A q \in Requests : GoesOn(q) /\ SignsNow(q)
      BY <2>1 DEF Goto, TypeOK, Request, GoesOn, SignsNow
    <3> QED
      BY <1>3, <3>1 DEF RejectRevokedToken, RevokeOldToken, IssuesAtMost
  <2>2. CASE Done(r)
    BY <1>0, <1>3, <2>2, IdleGoesOn DEF RejectRevokedToken, RevokeOldToken, Done, IssuesAtMost
  <2> QED
    BY <1>3, <2>1, <2>2 DEF RejectRevokedToken, RevokeOldToken
<1>4. ASSUME NEW r \in Requests, FindUser(r)
      PROVE  IssuesAtMost
  <2> DEFINE new == [req[r] EXCEPT !.step = "insert", !.at = now]
  <2>1. new.step = "insert" /\ new.at = now
    BY DEF TypeOK, Request
  <2>2. req' = [req EXCEPT ![r] = new]
    BY <1>4 DEF FindUser
  <2> HIDE DEF new
  <2> QED
    BY <1>4, <2>1, <2>2, IdleGoesOn DEF FindUser, IssuesAtMost
<1>5. ASSUME NEW r \in Requests, NEW u \in Users, BeginSignIn(r, u)
      PROVE  IssuesAtMost
  <2> DEFINE new == [Idle EXCEPT !.step = "insert", !.user = u, !.at = now]
  <2>1. new.step = "insert" /\ new.at = now
    BY DEF Idle
  <2>2. req' = [req EXCEPT ![r] = new]
    BY <1>5 DEF BeginSignIn
  <2> HIDE DEF new
  <2> QED
    BY <1>5, <2>1, <2>2, IdleGoesOn DEF BeginSignIn, IssuesAtMost
<1>6. ASSUME NEW r \in Requests, NEW j \in Jtis, NEW s \in SessionIds, InsertToken(r, j, s)
      PROVE  IssuesAtMost
  BY <1>0, <1>6, IdleGoesOn DEF InsertToken, Done, IssuesAtMost
<1>7. ASSUME NEW r \in Requests, NEW c \in SessionIds, NEW s \in SessionIds,
             BeginRevokeSession(r, c, s)
      PROVE  IssuesAtMost
  <2>1. PICK u \in OwnerOf(c) :
           req' = [req EXCEPT ![r] = [Idle EXCEPT !.step = "endSession",
                                                  !.user = u, !.session = s]]
    BY <1>7 DEF BeginRevokeSession
  <2>2. [Idle EXCEPT !.step = "endSession", !.user = u, !.session = s].step = "endSession"
    BY DEF Idle
  <2> QED
    BY <1>7, <2>1, <2>2, IdleGoesOn DEF BeginRevokeSession, IssuesAtMost
<1>8. ASSUME NEW r \in Requests, NEW c \in SessionIds, BeginLogoutAll(r, c)
      PROVE  IssuesAtMost
  <2>1. PICK u \in OwnerOf(c) :
           req' = [req EXCEPT ![r] = [Idle EXCEPT !.step = "endAll", !.user = u]]
    BY <1>8 DEF BeginLogoutAll
  <2>2. [Idle EXCEPT !.step = "endAll", !.user = u].step = "endAll"
    BY DEF Idle
  <2> QED
    BY <1>8, <2>1, <2>2, IdleGoesOn DEF BeginLogoutAll, IssuesAtMost
<1>9. ASSUME NEW r \in Requests, NEW j \in Jtis, Logout(r, j)
      PROVE  SignsOut(r)
  <2> DEFINE device == {tokens[j].session} \ {None}
             ended == IF Active(tokens, j) THEN device ELSE {}
  <2>1. device \in SUBSET SessionIds /\ ended \subseteq device
    BY DEF TypeOK, Table, Row
  <2>2. \A s \in ended : \E k \in {j} : Active(tokens, k) /\ tokens[k].session = s
    OBVIOUS
  <2>3. tokens' = RevokeRows(tokens, {j}) /\ CutOffNext(r, ended, device)
    BY <1>9 DEF Logout
  <2> HIDE DEF device, ended
  <2> QED
    BY <1>9, <2>1, <2>2, <2>3 DEF Logout, SignsOut
<1>10. ASSUME NEW r \in Requests, EndSession(r)
       PROVE  SignsOut(r) \/ IssuesAtMost
  <2> DEFINE ended == ActiveOfSession(tokens, req[r].user, req[r].session)
  <2>1. CASE ended = {}
    BY <1>0, <1>10, <2>1, IdleGoesOn DEF EndSession, Done, IssuesAtMost
  <2>2. CASE ended # {}
    <3>1. req[r].session \in SessionIds
      BY <1>10 DEF EndSession, Presents, TypeOK, Request
    <3>2. PICK j \in ended : TRUE
      BY <2>2
    <3>3. ended \in SUBSET Jtis /\ j \in ended
          /\ Active(tokens, j) /\ tokens[j].session = req[r].session
      BY <3>2 DEF ActiveOfSession
    <3>4. /\ tokens' = RevokeRows(tokens, ended)
          /\ CutOffNext(r, {req[r].session}, {req[r].session})
      BY <1>10, <2>2 DEF EndSession
    <3>5. /\ {req[r].session} \in SUBSET SessionIds
          /\ \A s \in {req[r].session} :
                \E k \in ended : Active(tokens, k) /\ tokens[k].session = s
      BY <3>1, <3>3
    <3>6. UNCHANGED <<now, revokedUntil, accessUntil, cut>>
      BY <1>10 DEF EndSession
    <3> HIDE DEF ended
    <3> QED
      BY <3>3, <3>4, <3>5, <3>6 DEF SignsOut
  <2> QED
    BY <2>1, <2>2
<1>11. ASSUME NEW r \in Requests, EndAll(r)
       PROVE  SignsOut(r)
  <2> DEFINE ended == ActiveOfUser(tokens, req[r].user, None)
  <2>1. ended \in SUBSET Jtis /\ \A j \in ended : Active(tokens, j)
    BY DEF ActiveOfUser
  <2>2. /\ tokens' = RevokeRows(tokens, ended)
        /\ CutOffNext(r, SessionsOf(tokens, ended), SessionsOf(tokens, ended))
    BY <1>11 DEF EndAll
  <2> HIDE DEF ended
  <2>3. SessionsOf(tokens, ended) \in SUBSET SessionIds
    BY <2>1, SessionsOfType DEF TypeOK
  <2>4. \A s \in SessionsOf(tokens, ended) : \E j \in ended : tokens[j].session = s
    BY DEF SessionsOf
  <2> QED
    BY <1>11, <2>1, <2>2, <2>3, <2>4 DEF EndAll, SignsOut
<1>12. ASSUME NEW r \in Requests, Fail(r)
       PROVE  IssuesAtMost
  BY <1>0, <1>12, IdleGoesOn DEF Fail, Done, IssuesAtMost
<1> QED
  BY <1>1, <1>2, <1>3, <1>4, <1>5, <1>6, <1>7, <1>8, <1>9, <1>10, <1>11, <1>12 DEF Next

-----------------------------------------------------------------------------
(* A session that is over stays over: nobody holds what would renew it.    *)
LEMMA OverStays ==
    ASSUME TypeOK, Presents, Linked, [Next]_vars, NEW s \in SessionIds, Over(s)
    PROVE  Over(s)'
<1> USE NoneIsNull
<1>1. CASE QuietStep
  BY <1>1 DEF QuietStep, OnlyRevokes, StartsNoRenewal, Over, FreshSession, Live, Pending
<1>2. ASSUME NEW r \in Requests, Wins(r)
      PROVE  Over(s)'
  <2>1. /\ req[r].jti \in Jtis
        /\ tokens[req[r].jti].session = req[r].session
        /\ Active(tokens, req[r].jti)
    BY <1>2 DEF Wins, Presents, Linked, TypeOK, Request
  <2>2. s # req[r].session
    BY <2>1 DEF Over, Live
  <2>3. \A k \in Jtis : /\ tokens'[k].session = tokens[k].session
                        /\ Issued(tokens', k) <=> Issued(tokens, k)
                        /\ Active(tokens', k) => Active(tokens, k)
    BY <1>2, <2>1 DEF Wins, TypeOK, Table, Row, RevokeRows, Issued, Active
  <2>4. \A q \in Requests : /\ req'[q].session = req[q].session
                            /\ Renewing(q)' => Renewing(q) \/ q = r
    BY <1>2 DEF Wins, TypeOK, Request, Renewing
  <2> QED
    BY <2>2, <2>3, <2>4 DEF Over, FreshSession, Live, Pending
<1>3. ASSUME NEW r \in Requests, NEW j \in Jtis, NEW t \in SessionIds, InsertToken(r, j, t)
      PROVE  Over(s)'
  <2>1. /\ \A k \in Jtis : k # j => tokens'[k] = tokens[k]
        /\ tokens'[j].session = t
        /\ ~Issued(tokens, j)
    BY <1>3 DEF InsertToken, InsertRow, TypeOK, Table
  <2>2. s # t
    BY <1>3 DEF InsertToken, SessionOfNew, Presents, Over, Pending, Renewing
  <2>3. req' = [req EXCEPT ![r] = Idle]
    BY <1>3 DEF InsertToken, Done
  <2>4. \A q \in Requests : Renewing(q)' => Renewing(q) /\ req'[q] = req[q]
    BY <2>3 DEF TypeOK, Renewing, Idle
  <2> QED
    BY <2>1, <2>2, <2>4 DEF Over, FreshSession, Live, Pending, Issued, Active
<1> QED
  BY <1>1, <1>2, <1>3, StepShape

(* Revoking the usable token of a session ends it: by OneHolder there is   *)
(* no other, and nobody is between two of its tokens.                      *)
LEMMA RevokedIsOver ==
    ASSUME TypeOK, OneHolder, NEW r \in Requests, NEW J \in SUBSET Jtis,
           NEW ended, NEW todo,
           tokens' = RevokeRows(tokens, J), CutOffNext(r, ended, todo),
           NEW j \in J, Active(tokens, j),
           NEW s \in SessionIds, tokens[j].session = s
    PROVE  Over(s)'
<1>1. Live(s) = {j} /\ Pending(s) = {}
  BY DEF OneHolder, Live
<1>2. \A k \in Jtis : /\ tokens'[k].session = tokens[k].session
                      /\ Issued(tokens, k) => Issued(tokens', k)
                      /\ Active(tokens', k) => Active(tokens, k) /\ k \notin J
  BY DEF TypeOK, Table, Row, RevokeRows, Issued, Active
<1>3. \A q \in Requests : Renewing(q)' => Renewing(q) /\ req'[q].session = req[q].session
  BY DEF CutOffNext, TypeOK, Renewing, Idle
<1>4. Issued(tokens, j)
  BY DEF Issued, Active
<1> QED
  BY <1>1, <1>2, <1>3, <1>4 DEF Over, FreshSession, Live, Pending

-----------------------------------------------------------------------------
(* The sessions a sign-out ended are over, from the update that ended them *)
(* on: also before the sign-out is answered.                               *)
StaysOver ==
    /\ cut \in SUBSET SessionIds
    /\ \A s \in cut : Over(s)
    /\ \A r \in Requests : req[r].step = "cutOff" => \A s \in req[r].ended : Over(s)

LEMMA StaysOverInductive ==
    ASSUME TypeOK, TypeOK', Presents, Linked, OneHolder, StaysOver, [Next]_vars
    PROVE  StaysOver'
<1>1. \A s \in SessionIds : Over(s) => Over(s)'
  BY OverStays
<1>2. \A r \in Requests : req[r].ended \in SUBSET SessionIds
  BY DEF TypeOK, Request
<1>3. CASE IssuesAtMost
  BY <1>1, <1>2, <1>3 DEF IssuesAtMost, GoesOn, StaysOver
<1>4. ASSUME NEW r \in Requests, SignsOut(r)
      PROVE  StaysOver'
  <2>1. PICK J \in SUBSET Jtis, ended \in SUBSET SessionIds, todo \in SUBSET SessionIds :
           /\ tokens' = RevokeRows(tokens, J)
           /\ CutOffNext(r, ended, todo)
           /\ \A s \in ended : \E j \in J : Active(tokens, j) /\ tokens[j].session = s
    BY <1>4 DEF SignsOut
  <2>2. \A s \in ended : Over(s)'
    BY <2>1, RevokedIsOver
  <2>3. req'[r].ended = ended /\ \A q \in Requests : q # r => req'[q] = req[q]
    BY <2>1 DEF CutOffNext, Idle, TypeOK
  <2> QED
    BY <1>1, <1>2, <1>4, <2>2, <2>3 DEF SignsOut, StaysOver
<1>5. ASSUME NEW r \in Requests, Answer(r)
      PROVE  StaysOver'
  <2>1. cut' = cut \cup req[r].ended /\ req[r].step = "cutOff"
    BY <1>5 DEF Answer
  <2>2. \A q \in Requests : req'[q].step = "cutOff" => req'[q] = req[q]
    BY <1>5 DEF Answer, Done, Idle, TypeOK
  <2> QED
    BY <1>1, <1>2, <2>1, <2>2 DEF StaysOver
<1>6. ASSUME NEW r \in Requests, NEW s \in SessionIds, CutOff(r, s)
      PROVE  StaysOver'
  <2>1. \A q \in Requests : req'[q].step = req[q].step /\ req'[q].ended = req[q].ended
    BY <1>6 DEF CutOff, TypeOK, Request
  <2>2. cut' = cut
    BY <1>6 DEF CutOff
  <2> QED
    BY <1>1, <1>2, <2>1, <2>2 DEF StaysOver
<1> QED
  BY <1>3, <1>4, <1>5, <1>6, CutShape

-----------------------------------------------------------------------------
(* No access token lives longer from now than a whole time to live.        *)
Dated ==
    /\ \A r \in Requests : req[r].step = "insert" => req[r].at <= now
    /\ \A s \in SessionIds : accessUntil[s] <= now + AccessTTL

LEMMA DatedInductive ==
    ASSUME TypeOK, TypeOK', Presents, Dated, [Next]_vars
    PROVE  Dated'
<1> USE SessionsAssumption DEF TypeOK
<1>0. now <= now' /\ now' \in Nat
  BY CutShape DEF IssuesAtMost, SignsOut, Answer, CutOff
<1>1. \A r \in Requests : SignsNow(r)
  <2>0. ASSUME NEW q \in Requests, NEW new, new.step # "insert", req' = [req EXCEPT ![q] = new]
        PROVE  \A r \in Requests : SignsNow(r)
    BY <2>0 DEF SignsNow
  <2>1. ASSUME NEW q \in Requests, SignsOut(q) \/ Answer(q)
        PROVE  \A r \in Requests : SignsNow(r)
    <3>1. /\ Idle.step # "insert"
          /\ \A e, t : [Idle EXCEPT !.step = "cutOff", !.ended = e, !.todo = t].step # "insert"
      BY DEF Idle
    <3>2. CASE Answer(q)
      BY <2>0, <3>1, <3>2 DEF Answer, Done
    <3>3. CASE SignsOut(q)
      <4>1. PICK ended \in SUBSET SessionIds, todo \in SUBSET SessionIds :
               CutOffNext(q, ended, todo)
        BY <3>3 DEF SignsOut
      <4> DEFINE new == [Idle EXCEPT !.step = "cutOff", !.ended = ended, !.todo = todo]
      <4>2. new.step # "insert" /\ req' = [req EXCEPT ![q] = new]
        BY <3>1, <4>1 DEF CutOffNext
      <4> HIDE DEF new
      <4> QED
        BY <2>0, <4>2
    <3> QED
      BY <2>1, <3>2, <3>3
  <2>2. ASSUME NEW q \in Requests, NEW s \in SessionIds, CutOff(q, s)
        PROVE  \A r \in Requests : SignsNow(r)
    BY <2>2 DEF CutOff, Request, SignsNow
  <2> QED
    BY <2>1, <2>2, CutShape DEF IssuesAtMost
<1>2. \A r \in Requests : req'[r].step = "insert" => req'[r].at <= now'
  <2> SUFFICES ASSUME NEW r \in Requests, req'[r].step = "insert"
               PROVE  req'[r].at <= now'
    OBVIOUS
  <2>1. req[r].at \in Nat
    BY DEF Request
  <2> QED
    BY <1>0, <1>1, <2>1 DEF Dated, SignsNow
<1>3. CASE UNCHANGED accessUntil
  BY <1>0, <1>2, <1>3 DEF Dated
<1>4. ASSUME NEW r \in Requests, NEW j \in Jtis, NEW s \in SessionIds, InsertToken(r, j, s)
      PROVE  Dated'
  <2>1. req[r].at <= now /\ req[r].at \in Nat
    BY <1>4 DEF InsertToken, Dated, Request
  <2>2. accessUntil' = [accessUntil EXCEPT ![s] = req[r].at + AccessTTL]
    BY <1>4 DEF InsertToken
  <2> QED
    BY <1>0, <1>2, <2>1, <2>2 DEF Dated
<1>5. UNCHANGED accessUntil \/ \E r \in Requests, j \in Jtis, s \in SessionIds : InsertToken(r, j, s)
  BY CutShape DEF IssuesAtMost, SignsOut, Answer, CutOff
<1> QED
  BY <1>3, <1>4, <1>5

-----------------------------------------------------------------------------
(* With Redis reachable, a session that was cut off is refused for as long *)
(* as any access token it was given lives.                                 *)
Listed ==
    ~RedisFails =>
        /\ \A s \in cut : accessUntil[s] <= revokedUntil[s]
        /\ \A r \in Requests : req[r].step = "cutOff" =>
              \A s \in req[r].ended \ req[r].todo : accessUntil[s] <= revokedUntil[s]

(* A session that is over is given no access token.                        *)
LEMMA NoneForOver ==
    ASSUME TypeOK, Presents, NEW s \in SessionIds, Over(s),
           NEW r \in Requests, NEW j \in Jtis, NEW t \in SessionIds, InsertToken(r, j, t)
    PROVE  accessUntil'[s] = accessUntil[s]
<1>1. s # t
  BY NoneIsNull DEF InsertToken, SessionOfNew, Presents, Over, Pending, Renewing
<1> QED
  BY <1>1 DEF InsertToken, TypeOK

LEMMA ListedInductive ==
    ASSUME TypeOK, TypeOK', Presents, Dated, StaysOver, Listed, [Next]_vars
    PROVE  Listed'
<1> SUFFICES ASSUME ~RedisFails PROVE Listed'
  BY DEF Listed
<1> USE SessionsAssumption DEF TypeOK
<1>0. \A r \in Requests : req[r].ended \in SUBSET SessionIds
  BY DEF Request
<1>1. CASE IssuesAtMost
  <2>1. \A s \in SessionIds : Over(s) => accessUntil'[s] = accessUntil[s]
    BY <1>1, NoneForOver DEF IssuesAtMost
  <2> QED
    BY <1>0, <1>1, <2>1 DEF IssuesAtMost, GoesOn, StaysOver, Listed
<1>2. ASSUME NEW r \in Requests, SignsOut(r)
      PROVE  Listed'
  <2>1. PICK J \in SUBSET Jtis, ended \in SUBSET SessionIds, todo \in SUBSET SessionIds :
           CutOffNext(r, ended, todo) /\ ended \subseteq todo
    BY <1>2 DEF SignsOut
  <2>2. /\ req'[r].ended \ req'[r].todo = {}
        /\ \A q \in Requests : q # r => req'[q] = req[q]
    BY <2>1 DEF CutOffNext, Idle
  <2> QED
    BY <1>2, <2>2 DEF SignsOut, Listed
<1>3. ASSUME NEW r \in Requests, Answer(r)
      PROVE  Listed'
  <2>1. \A q \in Requests : req'[q].step = "cutOff" => req'[q] = req[q]
    BY <1>3 DEF Answer, Done, Idle
  <2> QED
    BY <1>3, <2>1 DEF Answer, Listed
<1>4. ASSUME NEW r \in Requests, NEW s \in SessionIds, CutOff(r, s)
      PROVE  Listed'
  <2>1. /\ revokedUntil' = [revokedUntil EXCEPT ![s] = now + AccessTTL]
        /\ UNCHANGED <<accessUntil, cut>>
    BY <1>4 DEF CutOff
  <2>2. \A q \in Requests : /\ req'[q].step = req[q].step
                            /\ req'[q].ended = req[q].ended
                            /\ req[q].todo \ {s} \subseteq req'[q].todo
    BY <1>4 DEF CutOff, Request
  <2>3. \A t \in SessionIds : accessUntil[t] <= revokedUntil[t] => accessUntil'[t] <= revokedUntil'[t]
    BY <2>1 DEF Dated
  <2>4. accessUntil'[s] <= revokedUntil'[s]
    BY <2>1 DEF Dated
  <2> QED
    BY <1>0, <2>1, <2>2, <2>3, <2>4 DEF StaysOver, Listed
<1> QED
  BY <1>1, <1>2, <1>3, <1>4, CutShape

-----------------------------------------------------------------------------
(* A session whose usable token a sign-out revoked is out for good once    *)
(* the sign-out is answered: no request in flight brings it back, and with *)
(* Redis reachable no access token it was given is accepted again.         *)
THEOREM SignedOutStaysOut == Spec => []CutSessionsStayOut
<1>1. Init => Linked /\ OneHolder /\ StaysOver /\ Dated /\ Listed
  <2> SUFFICES ASSUME Init PROVE Linked /\ OneHolder /\ StaysOver /\ Dated /\ Listed
    OBVIOUS
  <2>1. \A r \in Requests : req[r].jti = None /\ req[r].step = "idle"
    BY DEF Init, Idle
  <2>2. \A j \in Jtis : tokens[j].session = None
    <3>1. NoRow.session = None /\ \A u \in Users : Legacy(u).session = None
      BY DEF NoRow, Legacy
    <3> QED
      BY <3>1 DEF Init
  <2>3. \A s \in SessionIds : Live(s) = {} /\ Pending(s) = {}
    BY <2>1, <2>2, NoneIsNull DEF Live, Pending, Renewing
  <2>4. Dated
    BY <2>1, SessionsAssumption DEF Init, Dated
  <2> QED
    BY <2>1, <2>3, <2>4 DEF Init, Linked, OneHolder, StaysOver, Listed
<1>2. /\ TypeOK /\ Presents /\ (TypeOK /\ Presents)'
      /\ Linked /\ OneHolder /\ StaysOver /\ Dated /\ Listed
      /\ [Next]_vars
      => (Linked /\ OneHolder /\ StaysOver /\ Dated /\ Listed)'
  BY LinkedInductive, OneHolderInductive, StaysOverInductive, DatedInductive, ListedInductive
<1>3. TypeOK /\ StaysOver /\ Listed => CutSessionsStayOut
  BY DEF TypeOK, StaysOver, Listed, CutSessionsStayOut, Accepted
<1> QED
  BY <1>1, <1>2, <1>3, TypeInvariant, PTL DEF Spec

=============================================================================
