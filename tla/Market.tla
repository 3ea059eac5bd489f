-------------------------------- MODULE Market --------------------------------
(***************************************************************************)
(* A listing with its photos and the alerts it causes.                     *)
(***************************************************************************)
EXTENDS Photos, Alerts

vars == <<listingVars, photoVars, alertVars>>

TypeOK == ListingsTypeOK /\ PhotosTypeOK /\ AlertsTypeOK

Init == ListingsInit /\ PhotosInit /\ AlertsInit

Next ==
    \/ ListingsNext /\ Remember /\ UNCHANGED <<photoVars, searchVars, claims, told, drops, failed>>
    \/ PhotosNext /\ Remember /\ UNCHANGED <<searchVars, claims, told, drops, failed>>
    \/ AlertsNext /\ UNCHANGED photoVars

Spec == Init /\ [][Next]_vars

=============================================================================
