--------------------------- MODULE RefreshTokens ---------------------------
(***************************************************************************)
(* The refresh_tokens table of the authentication service and what its     *)
(* repository does to it in one statement each                             *)
(* (authentication/src/auth/sessions/refresh-token.repository.ts).         *)
(*                                                                         *)
(* A row is named by its jti.  The columns that only describe the device   *)
(* (hash, name, platform, address, location) decide nothing and are left   *)
(* out, as is expires_at: a token lives 30 days, far longer than anything  *)
(* else here.  "started" is session_started_at.                            *)
(***************************************************************************)
EXTENDS Naturals, FiniteSets

CONSTANTS
    Users,       \* accounts
    SessionIds,  \* session ids that can be drawn (randomUUID)
    Jtis,        \* token ids that can be drawn (randomUUID)
    None         \* null

ASSUME NoneIsNull == None \notin Users \cup SessionIds \cup Jtis

(* A column "replaces" that the table does not have: the token a refresh   *)
(* exchanged for this one.  Nothing the program does depends on it.        *)
Row == [state : {"absent", "active", "revoked"},
        user : Users \cup {None},
        session : SessionIds \cup {None},
        started : Nat,
        replaces : Jtis \cup {None}]

Table == [Jtis -> Row]

NoRow == [state |-> "absent", user |-> None, session |-> None,
          started |-> 0, replaces |-> None]

Issued(T, j) == T[j].state # "absent"
Active(T, j) == T[j].state = "active"

-----------------------------------------------------------------------------
(* Writes.                                                                 *)

InsertRow(T, j, u, s, at, old) ==
    [T EXCEPT ![j] = [state |-> "active", user |-> u, session |-> s,
                      started |-> at, replaces |-> old]]

RevokeRows(T, J) ==
    [j \in Jtis |-> IF j \in J THEN [T[j] EXCEPT !.state = "revoked"] ELSE T[j]]

(* The rows two of the updates select; each updates no others.             *)
ActiveOfUser(T, u, keep) ==
    {j \in Jtis : /\ Active(T, j)
                  /\ T[j].user = u
                  /\ keep # None => T[j].session # keep}

ActiveOfSession(T, u, s) ==
    {j \in Jtis : Active(T, j) /\ T[j].user = u /\ T[j].session = s}

-----------------------------------------------------------------------------
(* Reads.                                                                  *)

HasActiveToken(T, s) == \E j \in Jtis : Active(T, j) /\ T[j].session = s

SessionTokens(T, u) ==
    {j \in Jtis : Active(T, j) /\ T[j].user = u /\ T[j].session # None}

SessionsOf(T, J) == {T[j].session : j \in J} \ {None}

(* A session id nobody has been given yet.                                 *)
FreshSession(T, s) == \A j \in Jtis : Issued(T, j) => T[j].session # s
=============================================================================
