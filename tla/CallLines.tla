----------------------------- MODULE CallLines -----------------------------
(***************************************************************************)
(* What chat promises of voice calls, without keys, connections, timers    *)
(* and handlers: a call starts ringing only between two people who are in  *)
(* no call, is answered only while it rings, is never taken back to        *)
(* ringing, and comes back after it is over in no other way than by        *)
(* ringing anew.                                                           *)
(***************************************************************************)
CONSTANTS CallIds, CallerOf, CalleeOf

VARIABLE line  \* per call: "none", "ringing" or "active"

PeopleIn(c) == {CallerOf[c], CalleeOf[c]}

Init == line = [c \in CallIds |-> "none"]

Ring(c) ==
    /\ line[c] = "none"
    /\ CallerOf[c] # CalleeOf[c]
    /\ \A d \in CallIds : line[d] # "none" => PeopleIn(c) \cap PeopleIn(d) = {}
    /\ line' = [line EXCEPT ![c] = "ringing"]

Answer(c) ==
    /\ line[c] = "ringing"
    /\ line' = [line EXCEPT ![c] = "active"]

End(c) ==
    /\ line[c] # "none"
    /\ line' = [line EXCEPT ![c] = "none"]

Next == \E c \in CallIds : Ring(c) \/ Answer(c) \/ End(c)

Spec == Init /\ [][Next]_line
=============================================================================
