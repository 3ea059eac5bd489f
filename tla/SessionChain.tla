---------------------------- MODULE SessionChain ----------------------------
(***************************************************************************)
(* What the authentication service promises of a session: it is started    *)
(* once, is renewed by one request at a time, and once it is over nothing  *)
(* ever brings it back.                                                    *)
(***************************************************************************)
CONSTANT SessionIds

VARIABLE phase  \* "unused", "live", "renewing" (between two tokens) or "over"

Init == phase \in [SessionIds -> {"unused"}]

Move(s, from, to) == phase[s] = from /\ phase' = [phase EXCEPT ![s] = to]

Start(s) == Move(s, "unused", "live")
Renew(s) == Move(s, "live", "renewing")
Renewed(s) == Move(s, "renewing", "live")
Abandon(s) == Move(s, "renewing", "over")

(* Any number of live sessions are signed out together.                    *)
SignOut(S) ==
    /\ \A s \in S : phase[s] = "live"
    /\ phase' = [s \in SessionIds |-> IF s \in S THEN "over" ELSE phase[s]]

Next ==
    \/ \E s \in SessionIds : Start(s) \/ Renew(s) \/ Renewed(s) \/ Abandon(s)
    \/ \E S \in SUBSET SessionIds : SignOut(S)

Spec == Init /\ [][Next]_phase
=============================================================================
