-------------------------- MODULE SessionPromises --------------------------
(***************************************************************************)
(* Sessions with a memory of what its sign-outs promised: for every        *)
(* sign-out request, the sessions its caller is told are signed out,       *)
(* whether or not the request revoked a token of theirs.                   *)
(***************************************************************************)
EXTENDS Sessions

VARIABLES
    promise,   \* what each request in flight will have promised when answered
    signedOut  \* <<way, session>>: sign-outs answered with success

pvars == <<vars, promise, signedOut>>

TokensOfUser(u) == {j \in Jtis : Issued(tokens, j) /\ tokens[j].user = u}

(* A logout covers its device's session; a sign-out of all sessions covers *)
(* every session the user has, those between two tokens included.          *)
Promised(r) ==
    CASE req[r].step = "idle" /\ req'[r].step = "cutOff" ->
            {"logout"} \X req'[r].todo
      [] req[r].step = "endAll" /\ req'[r].step = "cutOff" ->
            {"endAll"} \X SessionsOf(tokens, TokensOfUser(req[r].user))
      [] req'[r].step = "idle" -> {}
      [] OTHER -> promise[r]

PInit ==
    /\ Init
    /\ promise = [r \in Requests |-> {}]
    /\ signedOut = {}

PNext ==
    /\ Next
    /\ promise' = [r \in Requests |-> Promised(r)]
    /\ signedOut' = signedOut \cup UNION {promise[r] : r \in {q \in Requests : Answer(q)}}

PSpec == PInit /\ [][PNext]_pvars

-----------------------------------------------------------------------------
(* "Signs every device out, the caller's included": after an answered      *)
(* sign-out of all sessions no session the user had then has a usable      *)
(* token.                                                                  *)
EverySessionSignedOut ==
    \A s \in SessionIds : <<"endAll", s>> \in signedOut => Live(s) = {}

(* "Signs out the device that holds this refresh token": after an answered *)
(* logout the device's session has no usable token.                        *)
LoggedOutDeviceNeverRenews ==
    \A s \in SessionIds : <<"logout", s>> \in signedOut => Live(s) = {}

(* "If the session has no usable token, the device was simply signed out": *)
(* a device told so has a session that is over.                            *)
ToldSignedOutIsSignedOut ==
    \A r \in Requests :
        req[r].step = "checkActive" /\ ~HasActiveToken(tokens, req[r].session)
            => Over(req[r].session)

(* "A token of a session that was signed out is simply refused": no token  *)
(* of a session that is over makes a refresh sign every session out.       *)
OverSessionIsOnlyRefused ==
    [][\A r \in Requests :
          req[r].jti # None /\ req[r].session # None
              /\ req[r].step # "endAll" /\ req'[r].step = "endAll"
          => ~Over(req[r].session)]_vars
=============================================================================
