-------------------------------- MODULE Search --------------------------------
(***************************************************************************)
(* Finding listings: the search index, the places near a listing, and what *)
(* a person searched for.  They do not meet: one of them acts at a time.   *)
(***************************************************************************)
EXTENDS SearchIndex, Nearby, SearchHistory

vars == <<indexVars, nearbyVars, historyVars>>

TypeOK == IndexTypeOK /\ NearbyTypeOK /\ HistoryTypeOK

Init == IndexInit /\ NearbyInit /\ HistoryInit

(* Bound: the mix says which.                                              *)
Next ==
    \/ mix \cap {"nearby", "history"} = {} /\ IndexNext /\ UNCHANGED <<nearbyVars, historyVars>>
    \/ "nearby" \in mix /\ NearbyNext /\ UNCHANGED <<indexVars, historyVars>>
    \/ "history" \in mix /\ HistoryNext /\ UNCHANGED <<indexVars, nearbyVars>>

Spec == Init /\ [][Next]_vars /\ IndexFairness

=============================================================================
