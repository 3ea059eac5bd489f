-------------------------- MODULE PublishingProofs --------------------------
(***************************************************************************)
(* What holds of Publishing for any number of checkouts, webhooks and      *)
(* requests of the owner, whatever fails.                                  *)
(***************************************************************************)
EXTENDS PublishingPromises, TLAPS

(* A checkout under way knows the status the listing had, and nothing was  *)
(* recorded or paid for it; a webhook under way has a payment that ended.  *)
Remembered ==
    /\ \A k \in Checkouts :
          /\ checkout[k].step \in {"park", "record", "revert"}
                => checkout[k].before \in PropertyStatus
          /\ checkout[k].step # "done" => tx[k] = None /\ verdict[k] = None
    /\ \A w \in Webhooks : webhook[w].step # "idle" =>
          webhook[w].id \in Checkouts /\ verdict[webhook[w].id] # None

(* Nothing is under way at the start.                                      *)
LEMMA InitRemembered == Init => TypeOK /\ Remembered
<1> SUFFICES ASSUME Init PROVE TypeOK /\ Remembered
  OBVIOUS
<1> USE DEF Init
<1>1. listing \in Listing
  <2>1. CASE listing = [status |-> "Draft", dated |-> FALSE]
    BY <2>1 DEF Listing, PropertyStatus
  <2>2. CASE listing = [status |-> "Active", dated |-> TRUE]
    BY <2>2 DEF Listing, PropertyStatus
  <2> QED
    BY <2>1, <2>2
<1>2. NewCheckout \in Checkout /\ NewCheckout.step = "new"
  BY DEF NewCheckout, Checkout
<1>3. IdleWebhook \in Webhook /\ IdleWebhook.step = "idle"
  BY DEF IdleWebhook, Webhook
<1>4. TypeOK
  BY <1>1, <1>2, <1>3 DEF TypeOK
<1>5. Remembered
  BY <1>2, <1>3 DEF Remembered
<1> QED
  BY <1>4, <1>5

(* One checkout changes, and nothing it may touch leaves the invariant.    *)
LEMMA CheckoutChanges ==
    ASSUME TypeOK, Remembered, NEW k \in Checkouts, NEW new \in Checkout,
           checkout' = [checkout EXCEPT ![k] = new],
           new.step \in {"park", "record", "revert"} => new.before \in PropertyStatus,
           new.step # "done" => tx'[k] = None /\ verdict[k] = None,
           \A j \in Checkouts \ {k} : tx'[j] = tx[j],
           listing' \in Listing,
           tx' \in [Checkouts -> {None, "Pending", "Success", "Failed"}],
           UNCHANGED <<verdict, acked, webhook, request>>,
           shown' \in SUBSET Checkouts
    PROVE  TypeOK' /\ Remembered'
<1>1. TypeOK'
  BY DEF TypeOK
<1>2. Remembered'
  BY DEF TypeOK, Remembered
<1> QED
  BY <1>1, <1>2

(* POST /payments/checkout and begin-publish keep the invariant.           *)
LEMMA CheckoutKeeps ==
    ASSUME TypeOK, Remembered, NEW k \in Checkouts, CheckoutStep(k),
           shown' \in SUBSET Checkouts
    PROVE  TypeOK' /\ Remembered'
<1> DEFINE Goes(step) == [checkout[k] EXCEPT !.step = step]
<1>0. /\ checkout[k] \in Checkout /\ listing \in Listing
      /\ tx \in [Checkouts -> {None, "Pending", "Success", "Failed"}]
  BY DEF TypeOK
<1>1. CASE BeginPublish(k)
  <2>1. [NewCheckout EXCEPT !.step = "park", !.before = listing.status] \in Checkout
    BY <1>0 DEF NewCheckout, Checkout, Listing
  <2> QED
    BY <1>0, <1>1, <2>1, CheckoutChanges DEF BeginPublish, NewCheckout, Listing, Remembered
<1>2. CASE Park(k)
  <2>1. PICK step \in {"done", "record"} : checkout' = [checkout EXCEPT ![k] = Goes(step)]
    BY <1>2 DEF Park, CheckoutGoes
  <2>2. Goes(step) \in Checkout /\ Goes(step).step = step /\ Goes(step).before = checkout[k].before
    BY <1>0 DEF Checkout
  <2>3. listing' \in Listing
    BY <1>0, <1>2 DEF Park, Listing, PropertyStatus
  <2> QED
    BY <1>0, <1>2, <2>1, <2>2, <2>3, CheckoutChanges DEF Park, Remembered
<1>3. CASE LeaveBegin(k)
  <2>1. CASE checkout' = [checkout EXCEPT ![k] = [@ EXCEPT !.left = TRUE]]
    <3>1. /\ [checkout[k] EXCEPT !.left = TRUE] \in Checkout
          /\ [checkout[k] EXCEPT !.left = TRUE].step = checkout[k].step
          /\ [checkout[k] EXCEPT !.left = TRUE].before = checkout[k].before
      BY <1>0 DEF Checkout
    <3> QED
      BY <1>0, <1>3, <2>1, <3>1, CheckoutChanges DEF LeaveBegin, Remembered
  <2>2. CASE CheckoutGoes(k, "done")
    <3>1. Goes("done") \in Checkout /\ Goes("done").step = "done"
      BY <1>0 DEF Checkout
    <3> QED
      BY <1>0, <1>3, <2>2, <3>1, CheckoutChanges DEF LeaveBegin, CheckoutGoes
  <2> QED
    BY <1>3, <2>1, <2>2 DEF LeaveBegin
<1>4. CASE RecordTransaction(k)
  <2>1. PICK step \in {"done", "revert"} :
           /\ checkout' = [checkout EXCEPT ![k] = Goes(step)]
           /\ \/ step = "done" /\ tx' = [tx EXCEPT ![k] = "Pending"]
              \/ step = "revert" /\ tx' = tx
    BY <1>4 DEF RecordTransaction, CheckoutGoes
  <2>2. Goes(step) \in Checkout /\ Goes(step).step = step /\ Goes(step).before = checkout[k].before
    BY <1>0 DEF Checkout
  <2>3. tx' \in [Checkouts -> {None, "Pending", "Success", "Failed"}]
    BY <1>0, <2>1
  <2>4. tx[k] = None /\ verdict[k] = None
    BY <1>4 DEF RecordTransaction, Remembered
  <2>5. \A j \in Checkouts \ {k} : tx'[j] = tx[j]
    BY <1>0, <2>1
  <2>6. step # "done" => tx'[k] = None
    BY <2>1, <2>4
  <2>7. checkout[k].before \in PropertyStatus
    BY <1>4 DEF RecordTransaction, Remembered
  <2>8. UNCHANGED <<listing, verdict, acked, webhook, request>>
    BY <1>4 DEF RecordTransaction
  <2> HIDE DEF Goes
  <2> QED
    BY <1>0, <2>1, <2>2, <2>3, <2>4, <2>5, <2>6, <2>7, <2>8, CheckoutChanges
<1>5. CASE RevertPublish(k)
  <2>1. Goes("done") \in Checkout /\ Goes("done").step = "done"
    BY <1>0 DEF Checkout
  <2>2. checkout[k].before \in PropertyStatus
    BY <1>5 DEF RevertPublish, Remembered
  <2>3. listing' \in Listing
    BY <1>0, <1>5, <2>2 DEF RevertPublish, FromPending, Listing
  <2> QED
    BY <1>0, <1>5, <2>1, <2>3, CheckoutChanges DEF RevertPublish, CheckoutGoes
<1>6. CASE CheckoutDies(k)
  <2>1. Goes("done") \in Checkout /\ Goes("done").step = "done"
    BY <1>0 DEF Checkout
  <2> QED
    BY <1>0, <1>6, <2>1, CheckoutChanges DEF CheckoutDies, CheckoutGoes
<1> QED
  BY <1>1, <1>2, <1>3, <1>4, <1>5, <1>6 DEF CheckoutStep

(* One webhook changes: it is idle, or it has the payment it had.          *)
LEMMA WebhookChanges ==
    ASSUME TypeOK, Remembered, NEW w \in Webhooks, NEW new \in Webhook,
           webhook' = [webhook EXCEPT ![w] = new],
           new.step # "idle" => new.id \in Checkouts /\ verdict[new.id] # None,
           tx' \in [Checkouts -> {None, "Pending", "Success", "Failed"}],
           \A k \in Checkouts : tx[k] = None /\ verdict[k] = None => tx'[k] = None,
           listing' \in Listing,
           acked' \in SUBSET Checkouts,
           UNCHANGED <<checkout, verdict, request>>,
           shown' \in SUBSET Checkouts
    PROVE  TypeOK' /\ Remembered'
<1>1. TypeOK'
  BY DEF TypeOK
<1>2. Remembered'
  BY DEF TypeOK, Remembered
<1> QED
  BY <1>1, <1>2

(* A webhook that goes on keeps its payment.                               *)
LEMMA Moved ==
    ASSUME NEW hook \in Webhook, NEW step \in {"idle", "switch", "settle", "undo"},
           NEW call \in {"none", "sent", "second", "answered"}
    PROVE  /\ [hook EXCEPT !.step = step, !.call = call] \in Webhook
           /\ [hook EXCEPT !.step = step, !.call = call].id = hook.id
BY DEF Webhook

(* POST /payments/webhook and settle-publish keep the invariant.           *)
LEMMA WebhookKeeps ==
    ASSUME TypeOK, Remembered, NEW w \in Webhooks, WebhookStep(w),
           shown' \in SUBSET Checkouts
    PROVE  TypeOK' /\ Remembered'
<1>0. /\ webhook[w] \in Webhook /\ listing \in Listing /\ acked \in SUBSET Checkouts
      /\ tx \in [Checkouts -> {None, "Pending", "Success", "Failed"}]
      /\ verdict \in [Checkouts -> {None, "SUCCESS", "FAILED"}]
      /\ webhook \in [Webhooks -> Webhook]
  BY DEF TypeOK
<1>i. IdleWebhook \in Webhook /\ IdleWebhook.step = "idle"
  BY DEF IdleWebhook, Webhook
<1>s. /\ webhook[w].step # "idle" => webhook[w].id \in Checkouts /\ verdict[webhook[w].id] # None
  BY DEF Remembered
<1>1. ASSUME NEW k \in Checkouts, Handle(w, k) PROVE TypeOK' /\ Remembered'
  <2>1. CASE tx[k] = "Pending"
    <3>1. /\ [IdleWebhook EXCEPT !.step = "switch", !.id = k] \in Webhook
          /\ [IdleWebhook EXCEPT !.step = "switch", !.id = k].id = k
      BY DEF IdleWebhook, Webhook
    <3> QED
      BY <1>0, <1>1, <2>1, <3>1, WebhookChanges DEF Handle
  <2>2. CASE tx[k] # "Pending"
    BY <1>0, <1>1, <2>2 DEF Handle, TypeOK, Remembered
  <2> QED
    BY <2>1, <2>2
<1>2. CASE Switch(w)
  <2> DEFINE k == webhook[w].id
  <2>1. k \in Checkouts /\ verdict[k] # None
    BY <1>2, <1>s DEF Switch
  <2>2. CASE tx[k] = "Pending"
    <3>1. tx' = [tx EXCEPT ![k] = Final(k)] /\ Final(k) \in {"Success", "Failed"}
      BY <1>2, <2>2 DEF Switch, Final
    <3>2. webhook' = [webhook EXCEPT ![w] = [webhook[w] EXCEPT !.step = "settle", !.call = "sent"]]
      BY <1>2, <2>2 DEF Switch
    <3>3. UNCHANGED <<listing, checkout, verdict, acked, request>>
      BY <1>2, <2>2 DEF Switch
    <3>4. /\ [webhook[w] EXCEPT !.step = "settle", !.call = "sent"] \in Webhook
          /\ [webhook[w] EXCEPT !.step = "settle", !.call = "sent"].id = k
      BY <1>0, Moved
    <3>5. tx' \in [Checkouts -> {None, "Pending", "Success", "Failed"}]
      BY <1>0, <2>1, <3>1
    <3>6. \A j \in Checkouts : tx[j] = None /\ verdict[j] = None => tx'[j] = None
      BY <1>0, <2>1, <3>1
    <3> QED
      BY <1>0, <2>1, <3>2, <3>3, <3>4, <3>5, <3>6, WebhookChanges
  <2>3. CASE tx[k] # "Pending"
    BY <1>0, <1>2, <1>i, <2>1, <2>3, WebhookChanges DEF Switch
  <2> QED
    BY <2>2, <2>3
<1>d. ASSUME CallDone(w)
      PROVE  \E new \in Webhook :
                /\ webhook' = [webhook EXCEPT ![w] = new]
                /\ new.step # "idle" => new.id = webhook[w].id /\ webhook[w].step # "idle"
  <2>1. CASE webhook[w].step = "idle"
    BY <1>d, <1>i, <2>1 DEF CallDone
  <2>2. CASE webhook[w].step # "idle"
    <3>1. webhook' = [webhook EXCEPT ![w] = [webhook[w] EXCEPT !.call = "answered"]]
      BY <1>d, <2>2 DEF CallDone
    <3>2. /\ [webhook[w] EXCEPT !.call = "answered"] \in Webhook
          /\ [webhook[w] EXCEPT !.call = "answered"].id = webhook[w].id
      BY <1>0 DEF Webhook
    <3> QED
      BY <2>2, <3>1, <3>2
  <2> QED
    BY <2>1, <2>2
<1>f. ASSUME NEW status \in PropertyStatus, FromPending(status) PROVE listing' \in Listing
  BY <1>0, <1>f DEF FromPending, Listing, PropertyStatus
<1>3. CASE GoLiveDated(w)
  <2>1. CASE listing.status = "Pending" /\ ~listing.dated
    <3>1. listing' = [status |-> "Active", dated |-> TRUE]
      BY <1>3, <2>1 DEF GoLiveDated
    <3>2. listing' \in Listing
      BY <3>1 DEF Listing, PropertyStatus
    <3> QED
      BY <1>0, <1>3, <1>d, <1>s, <2>1, <3>2, WebhookChanges DEF GoLiveDated
  <2>2. CASE ~(listing.status = "Pending" /\ ~listing.dated)
    <3>1. /\ [webhook[w] EXCEPT !.call = "second"] \in Webhook
          /\ [webhook[w] EXCEPT !.call = "second"].id = webhook[w].id
          /\ [webhook[w] EXCEPT !.call = "second"].step = webhook[w].step
      BY <1>0 DEF Webhook
    <3> QED
      BY <1>0, <1>3, <1>s, <2>2, <3>1, WebhookChanges DEF GoLiveDated
  <2> QED
    BY <2>1, <2>2
<1>4. CASE GoLive(w)
  <2>1. listing' \in Listing
    BY <1>4, <1>f DEF GoLive, PropertyStatus
  <2> QED
    BY <1>0, <1>4, <1>d, <1>s, <2>1, WebhookChanges DEF GoLive
<1>5. CASE Release(w)
  <2>1. listing' \in Listing
    BY <1>5, <1>f DEF Release, PropertyStatus
  <2> QED
    BY <1>0, <1>5, <1>d, <1>s, <2>1, WebhookChanges DEF Release
<1>6. CASE Settled(w)
  BY <1>0, <1>6, <1>i, <1>s, WebhookChanges DEF Settled
<1>a. ASSUME Answer503(w)
      PROVE  \E new \in Webhook : webhook' = [webhook EXCEPT ![w] = new] /\ new.step = "idle"
  <2>1. /\ [webhook[w] EXCEPT !.step = "idle"] \in Webhook
        /\ [webhook[w] EXCEPT !.step = "idle"].step = "idle"
    BY <1>0 DEF Webhook
  <2> QED
    BY <1>a, <1>i, <2>1 DEF Answer503
<1>7. CASE Undo(w)
  <2>1. webhook[w].id \in Checkouts /\ verdict[webhook[w].id] # None
    BY <1>7, <1>s DEF Undo
  <2>2. tx' \in {tx, [tx EXCEPT ![webhook[w].id] = "Pending"]}
    BY <1>7 DEF Undo
  <2>3. tx' \in [Checkouts -> {None, "Pending", "Success", "Failed"}]
    BY <1>0, <2>2
  <2>4. \A k \in Checkouts : tx[k] = None /\ verdict[k] = None => tx'[k] = None
    BY <1>0, <2>1, <2>2
  <2> QED
    BY <1>0, <1>7, <1>a, <2>3, <2>4, WebhookChanges DEF Undo
<1>8. CASE CallBreaks(w)
  <2>1. PICK call \in {webhook[w].call, "none"} :
           webhook' = [webhook EXCEPT ![w] = [webhook[w] EXCEPT !.step = "undo", !.call = call]]
    BY <1>8 DEF CallBreaks
  <2>2. call \in {"none", "sent", "second", "answered"}
    BY <1>0 DEF Webhook
  <2>3. UNCHANGED <<listing, checkout, tx, verdict, acked, request>> /\ webhook[w].step # "idle"
    BY <1>8 DEF CallBreaks
  <2>4. /\ [webhook[w] EXCEPT !.step = "undo", !.call = call] \in Webhook
        /\ [webhook[w] EXCEPT !.step = "undo", !.call = call].id = webhook[w].id
    BY <1>0, <2>2, Moved
  <2> QED
    BY <1>0, <1>s, <2>1, <2>3, <2>4, WebhookChanges
<1>9. CASE WebhookDies(w)
  BY <1>0, <1>9, <1>a, WebhookChanges DEF WebhookDies
<1> QED
  BY <1>1, <1>2, <1>3, <1>4, <1>5, <1>6, <1>7, <1>8, <1>9 DEF WebhookStep, Proceed

(* Every step keeps the invariant.                                         *)
LEMMA Keeps == TypeOK /\ Remembered /\ [Next]_vars => TypeOK' /\ Remembered'
<1> SUFFICES ASSUME TypeOK, Remembered, [Next]_vars PROVE TypeOK' /\ Remembered'
  OBVIOUS
<1>1. CASE UNCHANGED vars
  BY <1>1 DEF vars, TypeOK, Remembered
<1>2. CASE Next
  <2>1. shown' \in SUBSET Checkouts
    BY <1>2 DEF Next, TypeOK
  <2>2. ASSUME NEW k \in Checkouts, NEW result \in {"SUCCESS", "FAILED"}, Pay(k, result)
        PROVE  TypeOK' /\ Remembered'
    <3>1. TypeOK'
      BY <2>1, <2>2 DEF Pay, TypeOK
    <3>2. checkout[k].step = "done"
      BY <2>2, PublishingAssumption DEF Pay, Remembered
    <3>3. Remembered'
      BY <2>2, <3>2, PublishingAssumption DEF Pay, TypeOK, Remembered
    <3> QED
      BY <3>1, <3>3
  <2>3. ASSUME listing' \in Listing, request' \in [Requests -> PropertyStatus \cup {None}],
               UNCHANGED <<checkout, tx, verdict, acked, webhook>>
        PROVE  TypeOK' /\ Remembered'
    BY <2>1, <2>3 DEF TypeOK, Remembered
  <2>4. ASSUME NEW o \in Requests, OwnerStep(o) PROVE TypeOK' /\ Remembered'
    <3>1. ASSUME NEW to \in {"Active", "Sold", "Draft", "Deleted"}, BeginSetStatus(o, to)
          PROVE  TypeOK' /\ Remembered'
      BY <2>3, <3>1 DEF BeginSetStatus, TypeOK, PropertyStatus
    <3>2. CASE SetStatus(o)
      <4>1. request[o] \in PropertyStatus /\ listing.dated \in BOOLEAN
        BY <3>2 DEF SetStatus, TypeOK, Listing
      <4>2. listing' \in Listing
        BY <3>2, <4>1 DEF SetStatus, Listing
      <4> QED
        BY <2>3, <3>2, <4>2 DEF SetStatus, TypeOK
    <3> QED
      BY <2>4, <3>1, <3>2 DEF OwnerStep
  <2>5. CASE Expire
    BY <2>3, <2>5 DEF Expire, TypeOK, Listing, PropertyStatus
  <2> QED
    BY <1>2, <2>1, <2>2, <2>4, <2>5, CheckoutKeeps, WebhookKeeps DEF Next, Step
<1> QED
  BY <1>1, <1>2

(* Every state of Publishing is well typed: what the payment and property  *)
(* services write to their tables, and what they hold across a call.       *)
THEOREM TypeInvariant == Spec => [](TypeOK /\ Remembered)
BY InitRemembered, Keeps, PTL DEF Spec

-----------------------------------------------------------------------------
(* The switch of a transaction is held by one webhook.                     *)

(* Only the winner of the switch begins to settle, when nobody does, and   *)
(* only it takes the transaction out of its final status again.            *)
LEMMA SettlesOneByOne ==
    ASSUME TypeOK, Remembered, OneWebhookSettles, Next
    PROVE  OneWebhookSettles'
<1>1. ASSUME UNCHANGED <<tx, verdict, webhook>>
      PROVE  OneWebhookSettles'
  BY <1>1 DEF OneWebhookSettles, Settling, Final
<1>2. ASSUME NEW k \in Checkouts, RecordTransaction(k) PROVE OneWebhookSettles'
  <2>1. verdict[k] = None
    BY <1>2 DEF RecordTransaction, Remembered
  <2>2. \A w \in Webhooks : Settling(w) => webhook[w].id \in Checkouts \ {k}
    BY <2>1 DEF Settling, Remembered
  <2>3. \A j \in Checkouts \ {k} : tx'[j] = tx[j]
    BY <1>2 DEF RecordTransaction, TypeOK
  <2> QED
    BY <1>2, <2>2, <2>3 DEF RecordTransaction, OneWebhookSettles, Settling, Final
<1>3. ASSUME NEW k \in Checkouts, NEW result \in {"SUCCESS", "FAILED"}, Pay(k, result)
      PROVE  OneWebhookSettles'
  <2>1. \A w \in Webhooks : Settling(w) => webhook[w].id \in Checkouts \ {k}
    BY <1>3 DEF Pay, Settling, Remembered
  <2>2. \A j \in Checkouts \ {k} : verdict'[j] = verdict[j]
    BY <1>3 DEF Pay, TypeOK
  <2> QED
    BY <1>3, <2>1, <2>2 DEF Pay, OneWebhookSettles, Settling, Final
<1>4. ASSUME NEW w \in Webhooks, UNCHANGED <<tx, verdict>>,
             \A v \in Webhooks \ {w} : webhook'[v] = webhook[v],
             Settling(w)' => Settling(w) /\ webhook'[w].id = webhook[w].id
      PROVE  OneWebhookSettles'
  <2>1. \A v \in Webhooks : Settling(v)' => Settling(v) /\ webhook'[v].id = webhook[v].id
    BY <1>4 DEF Settling
  <2> QED
    BY <1>4, <2>1 DEF OneWebhookSettles, Final
<1>5. ASSUME NEW w \in Webhooks, WebhookStep(w) PROVE OneWebhookSettles'
  <2>0. webhook \in [Webhooks -> Webhook] /\ webhook[w] \in Webhook
    BY DEF TypeOK
  <2>1. ASSUME NEW k \in Checkouts, Handle(w, k) PROVE OneWebhookSettles'
    <3>1. webhook'[w].step \in {"idle", "switch"}
      <4>1. CASE tx[k] = "Pending"
        BY <2>0, <2>1, <4>1 DEF Handle, IdleWebhook
      <4>2. CASE tx[k] # "Pending"
        BY <2>0, <2>1, <4>2 DEF Handle, IdleWebhook
      <4> QED
        BY <4>1, <4>2
    <3>2. \A v \in Webhooks \ {w} : webhook'[v] = webhook[v]
      BY <2>0, <2>1 DEF Handle
    <3> QED
      BY <1>4, <2>1, <3>1, <3>2 DEF Handle, Settling
  <2>2. CASE Switch(w)
    <3> DEFINE k == webhook[w].id
    <3>1. CASE tx[k] # "Pending"
      BY <1>4, <2>0, <2>2, <3>1 DEF Switch, Settling, IdleWebhook
    <3>2. CASE tx[k] = "Pending"
      <4>1. k \in Checkouts /\ Final(k) # "Pending"
        BY <2>2 DEF Switch, Final, Remembered
      <4>2. \A v \in Webhooks : Settling(v) => webhook[v].id # k
        <5> SUFFICES ASSUME NEW v \in Webhooks, Settling(v), webhook[v].id = k PROVE FALSE
          OBVIOUS
        <5>1. tx[k] = Final(k)
          BY DEF OneWebhookSettles
        <5> QED
          BY <3>2, <4>1, <5>1
      <4>3. \A v \in Webhooks : Settling(v) => webhook[v].id \in Checkouts
        BY DEF Settling, Remembered
      <4>4. /\ \A v \in Webhooks \ {w} : webhook'[v] = webhook[v]
            /\ webhook'[w].id = k
            /\ verdict' = verdict
            /\ tx' = [tx EXCEPT ![k] = Final(k)]
        BY <2>0, <2>2, <3>2 DEF Switch, Webhook
      <4>5. tx'[k] = Final(k) /\ \A j \in Checkouts \ {k} : tx'[j] = tx[j]
        BY <4>1, <4>4 DEF TypeOK
      <4>6. \A j \in Checkouts : Final(j)' = Final(j)
        BY <4>4 DEF Final
      <4>7. \A v \in Webhooks \ {w} : Settling(v)' = Settling(v)
        BY <4>4 DEF Settling
      <4> HIDE DEF k
      <4> SUFFICES ASSUME NEW u \in Webhooks, NEW v \in Webhooks, Settling(u)'
                   PROVE  /\ (tx[webhook[u].id] = Final(webhook[u].id))'
                          /\ Settling(v)' /\ u # v => webhook'[u].id # webhook'[v].id
        BY DEF OneWebhookSettles
      <4>8. CASE u = w
        <5>1. webhook'[v].id # k \/ v = w \/ ~Settling(v)'
          BY <4>2, <4>4, <4>7
        <5> QED
          BY <4>1, <4>4, <4>5, <4>6, <4>8, <5>1
      <4>9. CASE u # w
        <5>1. Settling(u) /\ webhook'[u] = webhook[u] /\ webhook[u].id \in Checkouts \ {k}
          BY <4>2, <4>3, <4>4, <4>7, <4>9
        <5>2. tx[webhook[u].id] = Final(webhook[u].id)
          BY <5>1 DEF OneWebhookSettles
        <5>3. (tx[webhook[u].id] = Final(webhook[u].id))'
          BY <4>5, <4>6, <5>1, <5>2
        <5>4. Settling(v)' /\ u # v => webhook'[u].id # webhook'[v].id
          BY <4>4, <4>7, <5>1 DEF OneWebhookSettles
        <5> QED
          BY <5>3, <5>4
      <4> QED
        BY <4>8, <4>9
    <3> QED
      BY <3>1, <3>2
  <2>3. CASE GoLiveDated(w) \/ GoLive(w) \/ Release(w)
    <3>1. /\ UNCHANGED <<tx, verdict>>
          /\ \A v \in Webhooks \ {w} : webhook'[v] = webhook[v]
      BY <2>0, <2>3 DEF GoLiveDated, GoLive, Release, CallDone
    <3>2. Settling(w)' => Settling(w) /\ webhook'[w].id = webhook[w].id
      BY <2>0, <2>3 DEF GoLiveDated, GoLive, Release, CallDone, Settling, IdleWebhook, Webhook
    <3> QED
      BY <1>4, <3>1, <3>2
  <2>4. CASE Settled(w)
    BY <1>4, <2>0, <2>4 DEF Settled, Settling, IdleWebhook
  <2>5. CASE CallBreaks(w)
    <3>1. /\ UNCHANGED <<tx, verdict>>
          /\ \A v \in Webhooks \ {w} : webhook'[v] = webhook[v]
          /\ webhook'[w].id = webhook[w].id /\ Settling(w)
      BY <2>0, <2>5 DEF CallBreaks, Webhook, Settling
    <3> QED
      BY <1>4, <3>1
  <2>6. CASE WebhookDies(w)
    <3>1. ~Settling(w)'
      BY <2>0, <2>6 DEF WebhookDies, Answer503, Settling, IdleWebhook, Webhook
    <3> QED
      BY <1>4, <2>0, <2>6, <3>1 DEF WebhookDies, Answer503
  <2>7. CASE Undo(w)
    <3> DEFINE k == webhook[w].id
    <3>1. ~Settling(w)'
      BY <2>0, <2>7 DEF Undo, Answer503, Settling, IdleWebhook, Webhook
    <3>2. \A v \in Webhooks \ {w} : webhook'[v] = webhook[v]
      BY <2>0, <2>7 DEF Undo, Answer503
    <3>3. Settling(w) /\ verdict' = verdict
      BY <2>7 DEF Undo, Settling
    <3>4. \A j \in Checkouts \ {k} : tx'[j] = tx[j]
      BY <2>7 DEF Undo, TypeOK
    <3>5. \A v \in Webhooks : Settling(v)' => v # w /\ Settling(v) /\ webhook[v].id \in Checkouts
      BY <3>1, <3>2 DEF Settling, Remembered
    <3>6. \A v \in Webhooks : Settling(v)' => webhook[v].id \in Checkouts \ {k}
      BY <3>3, <3>5 DEF OneWebhookSettles
    <3> QED
      BY <3>2, <3>3, <3>4, <3>5, <3>6 DEF OneWebhookSettles, Final
  <2> QED
    BY <1>5, <2>1, <2>2, <2>3, <2>4, <2>5, <2>6, <2>7 DEF WebhookStep, Proceed
<1>6. ASSUME NEW k \in Checkouts, CheckoutStep(k) PROVE OneWebhookSettles'
  BY <1>1, <1>2, <1>6
     DEF CheckoutStep, BeginPublish, Park, LeaveBegin, RevertPublish, CheckoutDies
<1>7. ASSUME NEW o \in Requests, OwnerStep(o) PROVE OneWebhookSettles'
  BY <1>1, <1>7 DEF OwnerStep, BeginSetStatus, SetStatus
<1>8. CASE Expire
  BY <1>1, <1>8 DEF Expire
<1> QED
  BY <1>3, <1>5, <1>6, <1>7, <1>8 DEF Next, Step

(* "Only one concurrent webhook can win the switch": however webhooks of   *)
(* any number of payments, undone switches, lost calls and crashes         *)
(* interleave, a transaction is settled by one webhook at a time.          *)
THEOREM OneSwitch == Spec => []OneWebhookSettles
<1>1. Init => OneWebhookSettles
  BY DEF Init, OneWebhookSettles, Settling, IdleWebhook
<1>2. TypeOK /\ Remembered /\ OneWebhookSettles /\ [Next]_vars => OneWebhookSettles'
  <2>1. OneWebhookSettles /\ UNCHANGED vars => OneWebhookSettles'
    BY DEF vars, OneWebhookSettles, Settling, Final
  <2> QED
    BY <2>1, SettlesOneByOne
<1> QED
  BY <1>1, <1>2, TypeInvariant, PTL DEF Spec

-----------------------------------------------------------------------------
(* What is paid for is published, as long as nobody else comes between.    *)

(* A call that was made is for a payment that ended; a transaction in      *)
(* Success is one the provider took the money of, and a payment that ended *)
(* has a transaction.                                                      *)
CallIsPaid(w) ==
    webhook[w].call # "none" => webhook[w].id \in Checkouts /\ verdict[webhook[w].id] # None

TxFollows(k) ==
    /\ tx[k] = "Success" => verdict[k] = "SUCCESS"
    /\ verdict[k] # None => tx[k] # None

Called == (\A w \in Webhooks : CallIsPaid(w)) /\ (\A k \in Checkouts : TxFollows(k))

(* No other checkout has begun.                                            *)
Lone(k) == alone /\ \A l \in Checkouts \ {k} : checkout[l].step = "new"

(* From the moment its checkout has parked the listing until it was live,  *)
(* the listing waits, unless the payment fails ...                         *)
Waits(k) ==
    checkout[k].step = "record" \/ (tx[k] # None /\ verdict[k] # "FAILED")
        => listing.status = "Pending" \/ k \in shown

(* ... a call that was answered has made it live ...                       *)
AnsweredIsShown(k) ==
    verdict[k] = "SUCCESS" =>
        \A w \in Webhooks : webhook[w].id = k /\ webhook[w].call = "answered" => k \in shown

(* ... and until it was live a webhook answers for the transaction.        *)
HasSettler(k) ==
    tx[k] = "Success" /\ k \notin shown => \E w \in Webhooks : Settling(w) /\ webhook[w].id = k

PaidStands(k) == Waits(k) /\ AnsweredIsShown(k) /\ HasSettler(k)

PaidAlone == \A k \in Checkouts : Lone(k) => PaidStands(k)

(* A checkout or a webhook step leaves a transaction and its call as they  *)
(* should be.                                                              *)
LEMMA CalledKeeps ==
    ASSUME TypeOK, Remembered, OneWebhookSettles, Called, Next
    PROVE  Called'
<1> USE PublishingAssumption
<1>1. ASSUME UNCHANGED <<tx, verdict, webhook>>
      PROVE  Called'
  BY <1>1 DEF Called, CallIsPaid, TxFollows
<1>2. ASSUME NEW k \in Checkouts, CheckoutStep(k) PROVE Called'
  <2>1. CASE RecordTransaction(k)
    BY <2>1 DEF RecordTransaction, Called, CallIsPaid, TxFollows, TypeOK
  <2> QED
    BY <1>1, <1>2, <2>1 DEF CheckoutStep, BeginPublish, Park, LeaveBegin, RevertPublish, CheckoutDies
<1>3. ASSUME NEW k \in Checkouts, NEW result \in {"SUCCESS", "FAILED"}, Pay(k, result)
      PROVE  Called'
  BY <1>3 DEF Pay, Called, CallIsPaid, TxFollows, TypeOK
<1>4. ASSUME NEW w \in Webhooks, WebhookStep(w) PROVE Called'
  <2>0. webhook \in [Webhooks -> Webhook] /\ webhook[w] \in Webhook
    BY DEF TypeOK
  <2>1. ASSUME UNCHANGED <<tx, verdict>>,
               \A v \in Webhooks \ {w} : webhook'[v] = webhook[v],
               webhook'[w].call # "none" =>
                  webhook'[w].id \in Checkouts /\ verdict[webhook'[w].id] # None
        PROVE  Called'
    BY <2>1 DEF Called, CallIsPaid, TxFollows
  <2>2. webhook[w].step # "idle" \/ webhook[w].call # "none" =>
           webhook[w].id \in Checkouts /\ verdict[webhook[w].id] # None
    BY DEF Remembered, Called, CallIsPaid, TxFollows
  <2>3. ASSUME NEW k \in Checkouts, Handle(w, k) PROVE Called'
    <3>1. webhook'[w].call = "none"
      <4>1. CASE tx[k] = "Pending"
        BY <2>0, <2>3, <4>1 DEF Handle, IdleWebhook
      <4>2. CASE tx[k] # "Pending"
        BY <2>3, <4>2 DEF Handle, IdleWebhook
      <4> QED
        BY <4>1, <4>2
    <3> QED
      BY <2>0, <2>1, <2>3, <3>1 DEF Handle
  <2>4. CASE Switch(w)
    <3> DEFINE k == webhook[w].id
    <3>1. k \in Checkouts /\ verdict[k] # None
      BY <2>2, <2>4 DEF Switch
    <3>2. CASE tx[k] = "Pending"
      <4>0. webhook' = [webhook EXCEPT ![w] = [webhook[w] EXCEPT !.step = "settle", !.call = "sent"]]
        BY <2>4, <3>2 DEF Switch
      <4>1. /\ \A v \in Webhooks \ {w} : webhook'[v] = webhook[v]
            /\ webhook'[w].id = k
            /\ tx' = [tx EXCEPT ![k] = Final(k)] /\ verdict' = verdict
        BY <2>0, <2>4, <3>2, <4>0, Moved DEF Switch
      <4>2. ASSUME NEW j \in Checkouts PROVE TxFollows(j)'
        BY <3>1, <4>1 DEF Called, TxFollows, TypeOK, Final
      <4> HIDE DEF k
      <4> QED
        <5>1. ASSUME NEW v \in Webhooks PROVE CallIsPaid(v)'
          BY <3>1, <4>1 DEF Called, CallIsPaid
        <5> QED
          BY <4>2, <5>1 DEF Called
    <3>3. CASE tx[k] # "Pending"
      <4>1. webhook'[w].call = "none"
        BY <2>0, <2>4, <3>3 DEF Switch, IdleWebhook
      <4> QED
        BY <2>0, <2>1, <2>4, <3>3, <4>1 DEF Switch
    <3> QED
      BY <3>2, <3>3
  <2>5. CASE GoLiveDated(w) \/ GoLive(w) \/ Release(w)
    <3>1. webhook[w].call # "none" /\ UNCHANGED <<tx, verdict>>
      BY <2>5 DEF GoLiveDated, GoLive, Release
    <3>2. \A v \in Webhooks \ {w} : webhook'[v] = webhook[v]
      BY <2>0, <2>5 DEF GoLiveDated, GoLive, Release, CallDone
    <3>3. webhook'[w].call # "none" => webhook'[w].id = webhook[w].id
      BY <2>0, <2>5 DEF GoLiveDated, GoLive, Release, CallDone, IdleWebhook, Webhook
    <3> QED
      BY <2>1, <2>2, <3>1, <3>2, <3>3
  <2>6. CASE Settled(w)
    BY <2>0, <2>1, <2>6 DEF Settled, IdleWebhook
  <2>7. CASE CallBreaks(w)
    <3>1. webhook'[w].id = webhook[w].id /\ webhook[w].step # "idle"
      BY <2>0, <2>7 DEF CallBreaks, Webhook
    <3> QED
      BY <2>0, <2>1, <2>2, <2>7, <3>1 DEF CallBreaks
  <2>8. CASE Undo(w) \/ WebhookDies(w)
    <3>1. /\ \A v \in Webhooks \ {w} : webhook'[v] = webhook[v]
          /\ webhook'[w].call # "none" => webhook'[w].id = webhook[w].id
      BY <2>0, <2>8 DEF Undo, WebhookDies, Answer503, IdleWebhook, Webhook
    <3>2. verdict' = verdict /\ webhook[w].step # "idle"
      BY <2>8 DEF Undo, WebhookDies
    <3>3. \A k \in Checkouts : /\ tx'[k] = "Success" => tx[k] = "Success"
                               /\ tx[k] # None => tx'[k] # None
      BY <2>2, <2>8, <3>2 DEF Undo, WebhookDies, TypeOK
    <3> QED
      <4>1. ASSUME NEW v \in Webhooks PROVE CallIsPaid(v)'
        BY <2>2, <3>1, <3>2 DEF Called, CallIsPaid
      <4>2. ASSUME NEW k \in Checkouts PROVE TxFollows(k)'
        <5>1. TxFollows(k)
          BY DEF Called
        <5> QED
          BY <3>2, <3>3, <5>1 DEF TxFollows
      <4> QED
        BY <4>1, <4>2 DEF Called
  <2> QED
    BY <1>4, <2>3, <2>4, <2>5, <2>6, <2>7, <2>8 DEF WebhookStep, Proceed
<1>5. ASSUME NEW o \in Requests, OwnerStep(o) PROVE Called'
  BY <1>1, <1>5 DEF OwnerStep, BeginSetStatus, SetStatus
<1>6. CASE Expire
  BY <1>1, <1>6 DEF Expire
<1> QED
  BY <1>2, <1>3, <1>4, <1>5, <1>6 DEF Next, Step

(* A checkout's step is its own, and it has begun.                         *)
LEMMA CheckoutIsOne ==
    ASSUME TypeOK, NEW j \in Checkouts, CheckoutStep(j)
    PROVE  /\ checkout \in [Checkouts -> Checkout]
           /\ checkout'[j].step # "new"
           /\ \A l \in Checkouts \ {j} : checkout'[l] = checkout[l]
           /\ checkout'[j].step = "record" => Park(j)
<1>0. checkout \in [Checkouts -> Checkout]
  BY DEF TypeOK
<1>a. checkout[j] \in Checkout
  BY <1>0
<1>1. CASE BeginPublish(j)
  BY <1>0, <1>a, <1>1 DEF BeginPublish, NewCheckout, Checkout
<1>2. ASSUME NEW step \in {"record", "revert", "done"}, CheckoutGoes(j, step),
             step = "record" => Park(j)
      PROVE  /\ checkout'[j].step # "new" /\ \A l \in Checkouts \ {j} : checkout'[l] = checkout[l]
             /\ checkout'[j].step = "record" => Park(j)
  BY <1>0, <1>a, <1>2 DEF CheckoutGoes, Checkout
<1>3. CASE LeaveBegin(j)
  <2>1. CASE checkout' = [checkout EXCEPT ![j] = [@ EXCEPT !.left = TRUE]]
    BY <1>0, <1>a, <1>3, <2>1 DEF LeaveBegin, Checkout
  <2> QED
    BY <1>0, <1>2, <1>3, <2>1 DEF LeaveBegin
<1>4. CASE Park(j)
  BY <1>0, <1>2, <1>4 DEF Park
<1>5. CASE RecordTransaction(j) \/ RevertPublish(j) \/ CheckoutDies(j)
  BY <1>0, <1>2, <1>5 DEF RecordTransaction, RevertPublish, CheckoutDies
<1> QED
  BY <1>1, <1>3, <1>4, <1>5 DEF CheckoutStep

(* A checkout that begins, goes on: only k's can while k is alone.         *)
LEMMA CheckoutStands ==
    ASSUME TypeOK, Remembered, NEW k \in Checkouts, Lone(k)', PaidStands(k),
           alone, NEW j \in Checkouts, CheckoutStep(j), shown \subseteq shown'
    PROVE  PaidStands(k)' /\ Lone(k)
<1> USE PublishingAssumption
<1>0. checkout \in [Checkouts -> Checkout] /\ tx \in [Checkouts -> {None, "Pending", "Success", "Failed"}]
  BY DEF TypeOK
<1>1. /\ checkout'[j].step # "new" /\ \A l \in Checkouts \ {j} : checkout'[l] = checkout[l]
      /\ checkout'[j].step = "record" => Park(j)
  BY CheckoutIsOne
<1>2. j = k
  BY <1>1 DEF Lone
<1>3. /\ checkout[k].step # "done"
      /\ verdict' = verdict /\ webhook' = webhook
  BY <1>2 DEF CheckoutStep, BeginPublish, Park, LeaveBegin, RecordTransaction, RevertPublish,
             CheckoutDies
<1>4. tx[k] = None /\ verdict[k] = None
  BY <1>3 DEF Remembered
<1>5. CASE Park(k)
  <2>1. listing'.status = "Pending" /\ tx' = tx
    BY <1>5 DEF Park
  <2> QED
    BY <1>1, <1>2, <1>3, <1>4, <2>1 DEF PaidStands, Waits, AnsweredIsShown, HasSettler, Lone
<1>6. CASE RecordTransaction(k)
  <2>1. /\ listing' = listing /\ tx'[k] \in {None, "Pending"}
        /\ checkout[k].step = "record"
    BY <1>0, <1>4, <1>6 DEF RecordTransaction
  <2> QED
    BY <1>1, <1>2, <1>3, <1>4, <2>1 DEF PaidStands, Waits, AnsweredIsShown, HasSettler, Lone
<1>7. CASE ~Park(k) /\ ~RecordTransaction(k)
  <2>1. tx' = tx /\ checkout'[k].step # "record"
    BY <1>1, <1>2, <1>7 DEF CheckoutStep, BeginPublish, LeaveBegin, RevertPublish, CheckoutDies
  <2> QED
    BY <1>1, <1>2, <1>3, <1>4, <2>1 DEF PaidStands, Waits, AnsweredIsShown, HasSettler, Lone
<1> QED
  BY <1>5, <1>6, <1>7

(* A webhook, or a call it made, goes on: it is for k's payment, as no     *)
(* other was made.                                                         *)
LEMMA WebhookStands ==
    ASSUME TypeOK, Remembered, OneWebhookSettles, Called,
           NEW k \in Checkouts, Lone(k), PaidStands(k), ~SwitchIsLeft,
           NEW w \in Webhooks, WebhookStep(w), Next
    PROVE  PaidStands(k)'
<1> USE PublishingAssumption
<1>0. /\ webhook \in [Webhooks -> Webhook] /\ webhook[w] \in Webhook
      /\ tx \in [Checkouts -> {None, "Pending", "Success", "Failed"}]
      /\ verdict \in [Checkouts -> {None, "SUCCESS", "FAILED"}]
      /\ checkout' = checkout /\ verdict' = verdict
  BY DEF TypeOK, WebhookStep, Proceed, Handle, Switch, GoLiveDated, GoLive, Release, Settled, Undo,
         CallBreaks, WebhookDies
<1>1. \A j \in Checkouts : verdict[j] # None => j = k
  BY DEF Lone, Remembered
<1>2. webhook[w].step # "idle" \/ webhook[w].call # "none" => webhook[w].id = k /\ verdict[k] # None
  BY <1>1 DEF Remembered, Called, CallIsPaid, TxFollows
<1>3. shown \subseteq shown' /\ (listing'.status = "Active" /\ verdict[k] = "SUCCESS" => k \in shown')
  BY <1>0 DEF Next
<1>4. tx[k] = "Success" => verdict[k] = "SUCCESS"
  BY DEF Called, CallIsPaid, TxFollows
<1>5. ASSUME UNCHANGED <<listing, tx>>, NEW new,
             webhook' = [webhook EXCEPT ![w] = new],
             new.call = "answered" => webhook[w].call = "answered" /\ webhook[w].id = new.id,
             Settling(w) /\ tx[k] = "Success" =>
                (new.step \in {"settle", "undo"} /\ new.id = webhook[w].id) \/ k \in shown
      PROVE  PaidStands(k)'
  <2>1. Waits(k)' /\ AnsweredIsShown(k)'
    BY <1>0, <1>3, <1>5 DEF PaidStands, Waits, AnsweredIsShown
  <2>2. HasSettler(k)'
    <3>1. SUFFICES ASSUME tx[k] = "Success", k \notin shown'
                   PROVE  \E v \in Webhooks : Settling(v)' /\ webhook'[v].id = k
      BY <1>5 DEF HasSettler
    <3>2. PICK v \in Webhooks : Settling(v) /\ webhook[v].id = k
      BY <1>3, <3>1 DEF PaidStands, HasSettler
    <3>3. Settling(v)' /\ webhook'[v].id = k
      BY <1>0, <1>3, <1>5, <3>1, <3>2 DEF Settling
    <3> QED
      BY <3>3
  <2> QED
    BY <2>1, <2>2 DEF PaidStands
<1>6. ASSUME NEW j \in Checkouts, Handle(w, j) PROVE PaidStands(k)'
  <2>1. CASE tx[j] = "Pending"
    <3>1. webhook' = [webhook EXCEPT ![w] = [IdleWebhook EXCEPT !.step = "switch", !.id = j]]
      BY <1>6, <2>1 DEF Handle
    <3>2. /\ [IdleWebhook EXCEPT !.step = "switch", !.id = j].call = "none"
          /\ ~Settling(w) /\ UNCHANGED <<listing, tx>>
      BY <1>6 DEF Handle, IdleWebhook, Settling
    <3> QED
      BY <1>5, <3>1, <3>2
  <2>2. CASE tx[j] # "Pending"
    BY <1>0, <1>3, <1>6, <2>2
       DEF Handle, PaidStands, Waits, AnsweredIsShown, HasSettler, Settling
  <2> QED
    BY <2>1, <2>2
<1>7. CASE Switch(w)
  <2>0. webhook[w].id = k /\ verdict[k] # None
    BY <1>2, <1>7 DEF Switch
  <2>1. CASE tx[k] = "Pending"
    <3>1. /\ webhook' = [webhook EXCEPT ![w] = [webhook[w] EXCEPT !.step = "settle", !.call = "sent"]]
          /\ listing' = listing
          /\ tx' = [tx EXCEPT ![k] = Final(k)]
      BY <1>7, <2>0, <2>1 DEF Switch
    <3>2. webhook'[w].id = k /\ webhook'[w].step = "settle" /\ webhook'[w].call = "sent"
      BY <1>0, <2>0, <3>1 DEF Webhook
    <3>3. \A v \in Webhooks \ {w} : webhook'[v] = webhook[v]
      BY <1>0, <3>1
    <3>4. HasSettler(k)'
      BY <3>2 DEF HasSettler, Settling
    <3>5. AnsweredIsShown(k)'
      BY <1>0, <1>3, <3>2, <3>3 DEF PaidStands, AnsweredIsShown
    <3>6. Waits(k)'
      BY <1>0, <1>3, <2>1, <3>1 DEF PaidStands, Waits
    <3> QED
      BY <3>4, <3>5, <3>6 DEF PaidStands
  <2>2. CASE tx[k] # "Pending"
    <3>1. webhook' = [webhook EXCEPT ![w] = IdleWebhook] /\ UNCHANGED <<listing, tx>> /\ ~Settling(w)
      BY <1>7, <2>0, <2>2 DEF Switch, Settling
    <3> QED
      BY <1>5, <3>1 DEF IdleWebhook
  <2> QED
    BY <2>1, <2>2
<1>8. CASE Settled(w)
  <2>1. webhook[w].id = k /\ verdict[k] # None
    BY <1>2, <1>8 DEF Settled
  <2>2. tx[k] = "Success" => k \in shown
    BY <1>4, <1>8, <2>1 DEF Settled, PaidStands, AnsweredIsShown
  <2>3. webhook' = [webhook EXCEPT ![w] = IdleWebhook] /\ UNCHANGED <<listing, tx>>
    BY <1>8 DEF Settled
  <2> QED
    BY <1>5, <2>2, <2>3 DEF IdleWebhook
<1>9. CASE CallBreaks(w)
  <2>1. PICK call \in {webhook[w].call, "none"} \ {"answered"} :
           webhook' = [webhook EXCEPT ![w] = [webhook[w] EXCEPT !.step = "undo", !.call = call]]
    BY <1>9 DEF CallBreaks
  <2>2. /\ [webhook[w] EXCEPT !.step = "undo", !.call = call].id = webhook[w].id
        /\ [webhook[w] EXCEPT !.step = "undo", !.call = call].step = "undo"
        /\ [webhook[w] EXCEPT !.step = "undo", !.call = call].call = call
    BY <1>0 DEF Webhook
  <2>3. UNCHANGED <<listing, tx>>
    BY <1>9 DEF CallBreaks
  <2> QED
    BY <1>5, <2>1, <2>2, <2>3
<1>10. CASE Undo(w) \/ WebhookDies(w)
  <2>1. /\ webhook[w].id = k /\ verdict[k] # None /\ listing' = listing /\ Answer503(w)
    BY <1>2, <1>10 DEF Undo, WebhookDies
  <2>2. PICK new : /\ webhook' = [webhook EXCEPT ![w] = new]
                   /\ new.call = "answered" => webhook[w].call = "answered" /\ webhook[w].id = new.id
    <3>1. CASE webhook[w].call = "none" \/ webhook[w].call = "answered"
      <4>1. webhook' = [webhook EXCEPT ![w] = IdleWebhook]
        BY <2>1, <3>1 DEF Answer503
      <4>2. IdleWebhook.call = "none"
        BY DEF IdleWebhook
      <4> QED
        BY <4>1, <4>2
    <3>2. CASE ~(webhook[w].call = "none" \/ webhook[w].call = "answered")
      <4>1. [webhook[w] EXCEPT !.step = "idle"].call = webhook[w].call
        BY <1>0 DEF Webhook
      <4> QED
        BY <2>1, <3>2, <4>1 DEF Answer503
    <3> QED
      BY <3>1, <3>2
  <2>3. CASE tx' = tx
    <3>1. Settling(w) /\ tx[k] = "Success" => k \in shown
      BY <1>4, <2>1, <2>3 DEF SwitchIsLeft, PaidStands, AnsweredIsShown
    <3> QED
      BY <1>5, <2>1, <2>2, <2>3, <3>1
  <2>4. CASE tx' # tx
    <3>1. tx[k] = Final(k) /\ tx' = [tx EXCEPT ![k] = "Pending"]
      BY <1>10, <2>1, <2>4 DEF Undo, WebhookDies
    <3>2. tx'[k] = "Pending" /\ tx[k] # None
      BY <1>0, <3>1 DEF Final
    <3>3. HasSettler(k)' /\ Waits(k)'
      BY <1>0, <1>3, <2>1, <3>2 DEF HasSettler, PaidStands, Waits
    <3>4. AnsweredIsShown(k)'
      BY <1>0, <1>3, <2>2 DEF PaidStands, AnsweredIsShown
    <3> QED
      BY <3>3, <3>4 DEF PaidStands
  <2> QED
    BY <2>3, <2>4
<1>11. CASE GoLiveDated(w) \/ GoLive(w) \/ Release(w)
  <2>1. webhook[w].id = k /\ verdict[k] # None /\ tx' = tx
    BY <1>2, <1>11 DEF GoLiveDated, GoLive, Release
  <2>2. \A v \in Webhooks : webhook'[v].step = webhook[v].step /\ (webhook'[v].id = webhook[v].id \/ ~Settling(v))
    <3>1. CASE webhook' = [webhook EXCEPT ![w] = [webhook[w] EXCEPT !.call = "second"]]
      BY <1>0, <3>1 DEF Webhook
    <3>2. CASE CallDone(w)
      <4>1. CASE webhook[w].step = "idle"
        BY <1>0, <3>2, <4>1 DEF CallDone, IdleWebhook, Settling
      <4>2. CASE webhook[w].step # "idle"
        <5>1. webhook' = [webhook EXCEPT ![w] = [webhook[w] EXCEPT !.call = "answered"]]
          BY <3>2, <4>2 DEF CallDone
        <5> QED
          BY <1>0, <5>1 DEF Webhook
      <4> QED
        BY <4>1, <4>2
    <3> QED
      BY <1>11, <3>1, <3>2 DEF GoLiveDated, GoLive, Release
  <2>3. HasSettler(k)'
    <3>1. SUFFICES ASSUME tx[k] = "Success", k \notin shown'
                   PROVE  \E v \in Webhooks : Settling(v)' /\ webhook'[v].id = k
      BY <2>1 DEF HasSettler
    <3>2. PICK v \in Webhooks : Settling(v) /\ webhook[v].id = k
      BY <1>3, <3>1 DEF PaidStands, HasSettler
    <3>3. Settling(v)' /\ webhook'[v].id = k
      BY <2>2, <3>2 DEF Settling
    <3> QED
      BY <3>3
  <2>4. CASE verdict[k] = "FAILED"
    BY <1>0, <2>3, <2>4 DEF PaidStands, Waits, AnsweredIsShown, Lone, Remembered
  <2>5. CASE verdict[k] = "SUCCESS"
    <3>1. CASE k \in shown'
      BY <2>3, <3>1 DEF PaidStands, Waits, AnsweredIsShown
    <3>2. CASE k \notin shown'
      <4>1. listing.status = "Pending" /\ listing'.status # "Active" /\ k \notin shown
        BY <1>3, <2>1, <2>5, <3>2 DEF PaidStands, Waits, Called, CallIsPaid, TxFollows
      <4>2. /\ listing' = listing
            /\ webhook' = [webhook EXCEPT ![w] = [webhook[w] EXCEPT !.call = "second"]]
        <5>1. CASE GoLiveDated(w)
          BY <4>1, <5>1 DEF GoLiveDated
        <5>2. ~GoLive(w)
          BY <4>1 DEF GoLive, FromPending, TypeOK, Listing
        <5> QED
          BY <1>11, <2>1, <2>5, <5>1, <5>2 DEF Release
      <4>3. \A v \in Webhooks : webhook'[v].call = "answered" => webhook'[v] = webhook[v]
        BY <1>0, <4>2 DEF Webhook
      <4>4. Waits(k)' /\ AnsweredIsShown(k)'
        BY <1>0, <2>5, <4>1, <4>2, <4>3 DEF PaidStands, Waits, AnsweredIsShown
      <4> QED
        BY <2>3, <4>4 DEF PaidStands
    <3> QED
      BY <3>1, <3>2
  <2> QED
    BY <1>0, <2>1, <2>4, <2>5
<1> QED
  BY <1>6, <1>7, <1>8, <1>9, <1>10, <1>11 DEF WebhookStep, Proceed

(* Every step keeps what a payment was promised.                           *)
LEMMA PaidAloneKeeps ==
    ASSUME TypeOK, Remembered, OneWebhookSettles, Called, PaidAlone, PNext
    PROVE  PaidAlone'
<1> USE PublishingAssumption
<1> SUFFICES ASSUME NEW k \in Checkouts, Lone(k)' PROVE PaidStands(k)'
  BY DEF PaidAlone
<1>0. /\ alone /\ request' = request /\ ~SwitchIsLeft /\ Next
      /\ shown' = IF listing'.status # "Active" THEN shown
                  ELSE shown \cup {j \in Checkouts : verdict'[j] = "SUCCESS"}
  BY DEF PNext, Next, Lone
<1>1. shown \subseteq shown'
  BY <1>0
<1>2. Lone(k) => PaidStands(k)
  BY DEF PaidAlone
<1>3. checkout' = checkout => Lone(k)
  BY <1>0 DEF Lone
<1>4. ASSUME NEW j \in Checkouts, CheckoutStep(j) PROVE PaidStands(k)'
  <2>1. checkout \in [Checkouts -> Checkout] /\ \A l \in Checkouts \ {j} : checkout'[l] = checkout[l]
    BY <1>4, CheckoutIsOne
  <2>2. checkout'[j].step # "new"
    BY <1>4, CheckoutIsOne
  <2>3. Lone(k)
    BY <1>0, <2>1, <2>2 DEF Lone
  <2> QED
    BY <1>0, <1>1, <1>2, <1>4, <2>3, CheckoutStands
<1>5. ASSUME NEW j \in Checkouts, NEW result \in {"SUCCESS", "FAILED"}, Pay(j, result)
      PROVE  PaidStands(k)'
  <2>1. /\ UNCHANGED <<listing, checkout, tx, webhook>> /\ tx[j] = "Pending" /\ verdict[j] = None
        /\ verdict' = [verdict EXCEPT ![j] = result]
    BY <1>5 DEF Pay
  <2>2. Lone(k) /\ PaidStands(k)
    BY <1>2, <1>3, <2>1
  <2>3. j = k
    BY <2>1, <2>2 DEF Lone, Remembered
  <2>4. \A w \in Webhooks : webhook[w].call # "none" => webhook[w].id # k
    BY <2>1, <2>3 DEF Called, CallIsPaid, TxFollows
  <2> QED
    BY <1>1, <2>1, <2>2, <2>3, <2>4 DEF PaidStands, Waits, AnsweredIsShown, HasSettler
<1>6. ASSUME NEW w \in Webhooks, WebhookStep(w) PROVE PaidStands(k)'
  <2>1. checkout' = checkout
    BY <1>6 DEF WebhookStep, Proceed, Handle, Switch, GoLiveDated, GoLive, Release, Settled, Undo,
                CallBreaks, WebhookDies
  <2> QED
    BY <1>0, <1>2, <1>3, <1>6, <2>1, WebhookStands
<1>7. ASSUME UNCHANGED <<listing, checkout, tx, verdict, webhook>> PROVE PaidStands(k)'
  BY <1>1, <1>2, <1>3, <1>7 DEF PaidStands, Waits, AnsweredIsShown, HasSettler, Settling
<1>8. ASSUME NEW o \in Requests, OwnerStep(o) PROVE PaidStands(k)'
  <2>1. ~SetStatus(o)
    BY <1>0 DEF SetStatus, TypeOK
  <2> QED
    BY <1>7, <1>8, <2>1 DEF OwnerStep, BeginSetStatus
<1>9. CASE Expire
  <2>1. /\ UNCHANGED <<checkout, tx, verdict, webhook>>
        /\ listing.status = "Active"
    BY <1>9 DEF Expire
  <2> QED
    BY <1>1, <1>2, <1>3, <2>1 DEF PaidStands, Waits, AnsweredIsShown, HasSettler, Settling
<1> QED
  BY <1>0, <1>4, <1>5, <1>6, <1>8, <1>9 DEF Next, Step

(* "A paid listing is never left unpublished behind a transaction that     *)
(* looks settled": if a listing has one checkout, its owner asked nothing  *)
(* else of it and no webhook left its switch half way, a transaction in    *)
(* Success that no webhook works on has had its listing live; whatever     *)
(* calls broke off, came late or were sent again.  For any number of       *)
(* webhooks.                                                               *)
THEOREM PaidGoesPublic == PSpec => []PaidAloneIsPublished
<1> DEFINE Inv == /\ TypeOK /\ Remembered /\ OneWebhookSettles
                  /\ Called /\ PaidAlone
<1>1. PInit => Inv
  <2> SUFFICES ASSUME PInit PROVE Called /\ PaidAlone /\ OneWebhookSettles
    BY InitRemembered DEF PInit
  <2>1. /\ \A k \in Checkouts : /\ tx[k] = None /\ verdict[k] = None
                                /\ checkout[k].step = "new"
        /\ \A w \in Webhooks : webhook[w].step = "idle" /\ webhook[w].call = "none"
    BY DEF PInit, Init, NewCheckout, IdleWebhook
  <2>2. Called /\ OneWebhookSettles
    BY <2>1, PublishingAssumption DEF Called, CallIsPaid, TxFollows, OneWebhookSettles, Settling
  <2>3. PaidAlone
    BY <2>1, PublishingAssumption DEF PaidAlone, PaidStands, Waits, AnsweredIsShown, HasSettler
  <2> QED
    BY <2>2, <2>3
<1>2. Inv /\ [PNext]_pvars => Inv'
  <2> SUFFICES ASSUME Inv, [PNext]_pvars PROVE Inv'
    OBVIOUS
  <2>1. CASE UNCHANGED pvars
    BY <2>1 DEF pvars, vars, TypeOK, Remembered, OneWebhookSettles, Settling, Final,
                Called, CallIsPaid, TxFollows,
                PaidAlone, Lone, PaidStands, Waits, AnsweredIsShown, HasSettler
  <2>2. CASE PNext
    BY <2>2, Keeps, SettlesOneByOne, CalledKeeps, PaidAloneKeeps DEF PNext
  <2> QED
    BY <2>1, <2>2
<1>3. Inv => PaidAloneIsPublished
  BY DEF PaidAloneIsPublished, PaidAlone, Lone, PaidStands, HasSettler, Working, Settling
<1> QED
  BY <1>1, <1>2, <1>3, PTL DEF PSpec
=============================================================================
