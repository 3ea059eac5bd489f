------------------------- MODULE PublishingPromises -------------------------
(***************************************************************************)
(* Publishing with a memory of whether anything came between a payment and *)
(* its listing that the program does not answer for: the owner changing    *)
(* the listing, or a webhook whose switch was neither settled nor undone.  *)
(***************************************************************************)
EXTENDS Publishing

VARIABLE alone

pvars == <<vars, alone>>

(* The process died, or the database was gone when the switch was undone,  *)
(* before the property service was through.                                *)
SwitchIsLeft ==
    \E w \in Webhooks :
        Settling(w) /\ webhook[w].call # "answered" /\ Answer503(w) /\ UNCHANGED tx

PInit == Init /\ alone = TRUE

PNext ==
    /\ Next
    /\ alone' = (alone /\ UNCHANGED request /\ ~SwitchIsLeft)

PSpec == PInit /\ [][PNext]_pvars

-----------------------------------------------------------------------------
(* "A paid listing is never left unpublished behind a transaction that     *)
(* looks settled": as long as nobody else touches the listing and no       *)
(* switch is left half way, calls that break off, come late or are sent    *)
(* again never leave a transaction in Success whose listing was not live.  *)
PaidAloneIsPublished ==
    \A k \in Checkouts :
        /\ alone
        /\ \A l \in Checkouts \ {k} : checkout[l].step = "new"
        /\ tx[k] = "Success"
        /\ ~Working(k)
        => k \in shown
=============================================================================
