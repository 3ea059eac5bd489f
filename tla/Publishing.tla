----------------------------- MODULE Publishing -----------------------------
(***************************************************************************)
(* Paying to publish a listing: the checkout and the webhook of the        *)
(* payment service, the calls it makes to the property service, and what   *)
(* the owner does to the same listing meanwhile                            *)
(* (payment/src/payments, property/src/properties).                        *)
(*                                                                         *)
(* One listing and its payments: listings do not touch one another.  Each  *)
(* action is one database statement or one call, with the code up to the   *)
(* next await.  The published date is only told apart from its absence.    *)
(***************************************************************************)
EXTENDS Naturals, FiniteSets

CONSTANTS
    Checkouts,   \* checkout requests, each with the transaction it records
    Webhooks,    \* webhooks of the provider served at once
    Requests,    \* requests of the owner served at once
    None,
    Failures     \* what may go wrong

ASSUME PublishingAssumption ==
    /\ Failures \subseteq {"call", "create", "undo", "crash"}
    /\ None \notin {"Pending", "Success", "Failed", "SUCCESS", "FAILED"}

VARIABLES
    listing,   \* status and whether published_at is set
    checkout,  \* the checkout requests
    tx,        \* payment_transactions.status
    verdict,   \* how the provider says a payment ended
    acked,     \* payments whose webhook was answered 200
    webhook,   \* the webhooks being served
    request,   \* the status each request of the owner is about to write
    shown      \* paid transactions whose listing has been live since

(* shown only remembers.                                                   *)
vars == <<listing, checkout, tx, verdict, acked, webhook, request, shown>>

PropertyStatus == {"Draft", "Pending", "Active", "Expired", "Sold", "Deleted"}

Listing == [status : PropertyStatus, dated : BOOLEAN]

Checkout == [step : {"new", "park", "record", "revert", "done"},
             before : PropertyStatus \cup {None},
             left : BOOLEAN]    \* the payment service no longer waits

(* step: what the payment service does next.  call: how far the property   *)
(* service is with the call it was sent, which may outlive the webhook.    *)
Webhook == [step : {"idle", "switch", "settle", "undo"},
            id : Checkouts \cup {None},
            call : {"none", "sent", "second", "answered"}]

NewCheckout == [step |-> "new", before |-> None, left |-> FALSE]
IdleWebhook == [step |-> "idle", id |-> None, call |-> "none"]

TypeOK ==
    /\ listing \in Listing
    /\ checkout \in [Checkouts -> Checkout]
    /\ tx \in [Checkouts -> {None, "Pending", "Success", "Failed"}]
    /\ verdict \in [Checkouts -> {None, "SUCCESS", "FAILED"}]
    /\ acked \in SUBSET Checkouts
    /\ webhook \in [Webhooks -> Webhook]
    /\ request \in [Requests -> PropertyStatus \cup {None}]
    /\ shown \in SUBSET Checkouts

(* The app creates a listing live, or as a draft.                          *)
Init ==
    /\ listing \in {[status |-> "Draft", dated |-> FALSE],
                    [status |-> "Active", dated |-> TRUE]}
    /\ checkout = [k \in Checkouts |-> NewCheckout]
    /\ tx = [k \in Checkouts |-> None]
    /\ verdict = [k \in Checkouts |-> None]
    /\ acked = {}
    /\ webhook = [w \in Webhooks |-> IdleWebhook]
    /\ request = [o \in Requests |-> None]
    /\ shown = {}

-----------------------------------------------------------------------------
(* The rules of a listing's statuses.                                      *)

CanPublish(status) == status \in {"Draft", "Expired"}
CanMarkSold(status) == status = "Active"
CanRelist(status) == status \in {"Sold", "Expired"}
DatesAnew(status) == status \in {"Sold", "Expired"}

(* UPDATE ... WHERE status = 'Pending'.                                    *)
FromPending(status) ==
    listing' = IF listing.status = "Pending" THEN [listing EXCEPT !.status = status]
               ELSE listing

-----------------------------------------------------------------------------
(* POST /payments/checkout.                                                *)

CheckoutGoes(k, step) == checkout' = [checkout EXCEPT ![k] = [@ EXCEPT !.step = step]]

(* begin-publish reads the listing and checks its status ...               *)
BeginPublish(k) ==
    /\ checkout[k].step = "new"
    /\ CanPublish(listing.status)
    /\ checkout' = [checkout EXCEPT ![k] =
                      [NewCheckout EXCEPT !.step = "park", !.before = listing.status]]
    /\ UNCHANGED <<listing, tx, verdict, acked, webhook, request>>

(* ... and parks it, whatever its status is by now.                        *)
Park(k) ==
    /\ checkout[k].step = "park"
    /\ listing' = [status |-> "Pending",
                   dated |-> listing.dated /\ ~DatesAnew(checkout[k].before)]
    /\ CheckoutGoes(k, IF checkout[k].left THEN "done" ELSE "record")
    /\ UNCHANGED <<tx, verdict, acked, webhook, request>>

(* The call breaks off: the property service goes on with it, or not.      *)
LeaveBegin(k) ==
    /\ "call" \in Failures
    /\ checkout[k].step = "park"
    /\ \/ checkout' = [checkout EXCEPT ![k] = [@ EXCEPT !.left = TRUE]]
       \/ CheckoutGoes(k, "done")
    /\ UNCHANGED <<listing, tx, verdict, acked, webhook, request>>

(* The transaction is recorded and the app told where to pay; if it cannot *)
(* be recorded the listing is given back.                                  *)
RecordTransaction(k) ==
    /\ checkout[k].step = "record"
    /\ \/ /\ tx' = [tx EXCEPT ![k] = "Pending"]
          /\ CheckoutGoes(k, "done")
       \/ /\ "create" \in Failures
          /\ CheckoutGoes(k, "revert")
          /\ UNCHANGED tx
    /\ UNCHANGED <<listing, verdict, acked, webhook, request>>

RevertPublish(k) ==
    /\ checkout[k].step = "revert"
    /\ \/ FromPending(checkout[k].before)
       \/ "call" \in Failures /\ UNCHANGED listing
    /\ CheckoutGoes(k, "done")
    /\ UNCHANGED <<tx, verdict, acked, webhook, request>>

CheckoutDies(k) ==
    /\ "crash" \in Failures
    /\ checkout[k].step \in {"park", "record", "revert"}
    /\ CheckoutGoes(k, "done")
    /\ UNCHANGED <<listing, tx, verdict, acked, webhook, request>>

-----------------------------------------------------------------------------
(* The provider: it takes the money, or not, and sends its webhook until   *)
(* it is answered 200, also while an earlier one is still being served.    *)

Pay(k, result) ==
    /\ tx[k] = "Pending"
    /\ verdict[k] = None
    /\ verdict' = [verdict EXCEPT ![k] = result]
    /\ UNCHANGED <<listing, checkout, tx, acked, webhook, request>>

-----------------------------------------------------------------------------
(* POST /payments/webhook.                                                 *)

Final(k) == IF verdict[k] = "SUCCESS" THEN "Success" ELSE "Failed"

(* The transaction is read; one that is settled is answered at once.       *)
Handle(w, k) ==
    /\ webhook[w] = IdleWebhook
    /\ verdict[k] # None
    /\ k \notin acked
    /\ IF tx[k] = "Pending"
       THEN /\ webhook' = [webhook EXCEPT ![w] = [IdleWebhook EXCEPT !.step = "switch", !.id = k]]
            /\ UNCHANGED acked
       ELSE acked' = acked \cup {k} /\ UNCHANGED webhook
    /\ UNCHANGED <<listing, checkout, tx, verdict, request>>

(* A fault: the switch does not ask for a Pending transaction.             *)
SwitchAnyway(w) ==
    LET k == webhook[w].id
    IN  /\ webhook[w].step = "switch"
        /\ tx' = [tx EXCEPT ![k] = Final(k)]
        /\ webhook' = [webhook EXCEPT ![w] = [@ EXCEPT !.step = "settle", !.call = "sent"]]
        /\ UNCHANGED <<listing, checkout, verdict, acked, request>>

(* UPDATE ... WHERE status = 'Pending': the one that changes it goes on.   *)
Switch(w) ==
    LET k == webhook[w].id
    IN  /\ webhook[w].step = "switch"
        /\ IF tx[k] = "Pending"
           THEN /\ tx' = [tx EXCEPT ![k] = Final(k)]
                /\ webhook' = [webhook EXCEPT ![w] =
                                 [@ EXCEPT !.step = "settle", !.call = "sent"]]
                /\ UNCHANGED acked
           ELSE /\ webhook' = [webhook EXCEPT ![w] = IdleWebhook]
                /\ acked' = acked \cup {k}
                /\ UNCHANGED tx
        /\ UNCHANGED <<listing, checkout, verdict, request>>

(* The property service has done what it was asked; if the payment service *)
(* no longer waits for it that is the end of it.                           *)
CallDone(w) ==
    webhook' = [webhook EXCEPT ![w] =
                  IF @.step = "idle" THEN IdleWebhook ELSE [@ EXCEPT !.call = "answered"]]

(* settle-publish 'Active', first update: a Pending listing without a date *)
(* goes live and is dated ...                                              *)
GoLiveDated(w) ==
    /\ webhook[w].call = "sent"
    /\ verdict[webhook[w].id] = "SUCCESS"
    /\ IF listing.status = "Pending" /\ ~listing.dated
       THEN /\ listing' = [status |-> "Active", dated |-> TRUE]
            /\ CallDone(w)
       ELSE /\ webhook' = [webhook EXCEPT ![w] = [@ EXCEPT !.call = "second"]]
            /\ UNCHANGED listing
    /\ UNCHANGED <<checkout, tx, verdict, acked, request>>

(* ... second update: a Pending listing goes live.                         *)
GoLive(w) ==
    /\ webhook[w].call = "second"
    /\ FromPending("Active")
    /\ CallDone(w)
    /\ UNCHANGED <<checkout, tx, verdict, acked, request>>

(* settle-publish 'Draft'.                                                 *)
Release(w) ==
    /\ webhook[w].call = "sent"
    /\ verdict[webhook[w].id] = "FAILED"
    /\ FromPending("Draft")
    /\ CallDone(w)
    /\ UNCHANGED <<checkout, tx, verdict, acked, request>>

Settled(w) ==
    /\ webhook[w].step = "settle"
    /\ webhook[w].call = "answered"
    /\ acked' = acked \cup {webhook[w].id}
    /\ webhook' = [webhook EXCEPT ![w] = IdleWebhook]
    /\ UNCHANGED <<listing, checkout, tx, verdict, request>>

(* A fault: a call that breaks off is taken for one that went through.     *)
CallBreaksUnnoticed(w) ==
    /\ "call" \in Failures
    /\ webhook[w].step = "settle"
    /\ acked' = acked \cup {webhook[w].id}
    /\ webhook' = [webhook EXCEPT ![w] = IdleWebhook]
    /\ UNCHANGED <<listing, checkout, tx, verdict, request>>

(* The call does not arrive, breaks off while the property service goes on *)
(* with it, or its answer is lost: the switch is to be undone.             *)
CallBreaks(w) ==
    /\ "call" \in Failures
    /\ webhook[w].step = "settle"
    /\ \E call \in {webhook[w].call, "none"} \ {"answered"} :
          webhook' = [webhook EXCEPT ![w] = [@ EXCEPT !.step = "undo", !.call = call]]
    /\ UNCHANGED <<listing, checkout, tx, verdict, acked, request>>

(* The webhook is answered 503.                                            *)
Answer503(w) ==
    webhook' = [webhook EXCEPT ![w] =
                  IF @.call = "none" \/ @.call = "answered" THEN IdleWebhook
                  ELSE [@ EXCEPT !.step = "idle"]]

Undo(w) ==
    LET k == webhook[w].id
    IN  /\ webhook[w].step = "undo"
        /\ \/ tx' = IF tx[k] = Final(k) THEN [tx EXCEPT ![k] = "Pending"] ELSE tx
           \/ "undo" \in Failures /\ UNCHANGED tx
        /\ Answer503(w)
        /\ UNCHANGED <<listing, checkout, verdict, acked, request>>

WebhookDies(w) ==
    /\ "crash" \in Failures
    /\ webhook[w].step # "idle"
    /\ Answer503(w)
    /\ UNCHANGED <<listing, checkout, tx, verdict, acked, request>>

-----------------------------------------------------------------------------
(* The owner: every request reads the listing, decides, and then writes.   *)

Allowed(to) ==
    CASE to = "Active" -> CanPublish(listing.status) \/ CanRelist(listing.status)
      [] to = "Sold" -> CanMarkSold(listing.status)
      [] to \in {"Draft", "Deleted"} -> listing.status # "Deleted"

BeginSetStatus(o, to) ==
    /\ request[o] = None
    /\ Allowed(to)
    /\ request' = [request EXCEPT ![o] = to]
    /\ UNCHANGED <<listing, checkout, tx, verdict, acked, webhook>>

(* Going live dates the listing, at the latest.                            *)
SetStatus(o) ==
    /\ request[o] # None
    /\ listing' = [status |-> request[o],
                   dated |-> listing.dated \/ request[o] = "Active"]
    /\ request' = [request EXCEPT ![o] = None]
    /\ UNCHANGED <<checkout, tx, verdict, acked, webhook>>

(* Nothing in the program expires a listing; whoever does, does it to one  *)
(* that is live.                                                           *)
Expire ==
    /\ Requests # {}
    /\ listing.status = "Active"
    /\ listing' = [listing EXCEPT !.status = "Expired"]
    /\ UNCHANGED <<checkout, tx, verdict, acked, webhook, request>>

-----------------------------------------------------------------------------
Proceed(w) ==
    Switch(w) \/ GoLiveDated(w) \/ GoLive(w) \/ Release(w) \/ Settled(w) \/ Undo(w)

CheckoutStep(k) ==
    \/ BeginPublish(k)
    \/ Park(k)
    \/ LeaveBegin(k)
    \/ RecordTransaction(k)
    \/ RevertPublish(k)
    \/ CheckoutDies(k)

WebhookStep(w) ==
    \/ \E k \in Checkouts : Handle(w, k)
    \/ Proceed(w)
    \/ CallBreaks(w)
    \/ WebhookDies(w)

OwnerStep(o) ==
    \/ \E to \in {"Active", "Sold", "Draft", "Deleted"} : BeginSetStatus(o, to)
    \/ SetStatus(o)

Step ==
    \/ \E k \in Checkouts : CheckoutStep(k)
    \/ \E k \in Checkouts, result \in {"SUCCESS", "FAILED"} : Pay(k, result)
    \/ \E w \in Webhooks : WebhookStep(w)
    \/ \E o \in Requests : OwnerStep(o)
    \/ Expire

Next ==
    /\ Step
    /\ shown' = IF listing'.status # "Active" THEN shown
                ELSE shown \cup {k \in Checkouts : verdict'[k] = "SUCCESS"}

Spec == Init /\ [][Next]_vars

(* A webhook being served, and a call it made, goes on; the provider sends *)
(* again until it is answered; and calls do not break off for ever.        *)
FairSpec ==
    /\ Spec
    /\ \A w \in Webhooks : WF_vars(Proceed(w) /\ Next)
    /\ \A k \in Checkouts : SF_vars((\E w \in Webhooks : Handle(w, k)) /\ Next)
    /\ \A w \in Webhooks : SF_vars((GoLiveDated(w) \/ GoLive(w) \/ Release(w)) /\ Next)

-----------------------------------------------------------------------------
(* A webhook of payment k is being served; webhook w has won the switch.   *)
Working(k) == \E w \in Webhooks : webhook[w].id = k /\ webhook[w].step # "idle"
Settling(w) == webhook[w].step \in {"settle", "undo"}

(* "Only one concurrent webhook can win the switch", and while it settles  *)
(* or undoes it nobody else changes the transaction, although a switch     *)
(* that is undone can be won again.                                        *)
OneWebhookSettles ==
    \A v, w \in Webhooks :
        Settling(v) => /\ tx[webhook[v].id] = Final(webhook[v].id)
                       /\ Settling(w) /\ v # w => webhook[v].id # webhook[w].id

(* "A paid listing is never left unpublished behind a transaction that     *)
(* looks settled": once no webhook of it is being served, a transaction in *)
(* Success has had its listing live.                                       *)
PaidIsPublished ==
    \A k \in Checkouts : tx[k] = "Success" /\ ~Working(k) => k \in shown

(* "The provider sends it again": a listing that is paid for goes live.    *)
PaidGoesLive ==
    \A k \in Checkouts : verdict[k] = "SUCCESS" ~> k \in shown

(* "A paid Pending listing goes live, dated now when it has no date."      *)
LiveIsDated == listing.status = "Active" => listing.dated
=============================================================================
