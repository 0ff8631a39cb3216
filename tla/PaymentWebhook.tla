---------------------------- MODULE PaymentWebhook ----------------------------
(***************************************************************************)
(* PayDunya's invoices: their creation at checkout under an idempotency    *)
(* key, PayDunya's notifications (IPN) of what becomes of them, and the    *)
(* confirmation of an invoice when the customer returns to the shop.       *)
(*                                                                         *)
(* A member of Req is a slot for one HTTP request at a time; each await of *)
(* a handler that another request can come before ends a step.  PayDunya   *)
(* is external: it repeats a notification until the webhook has answered   *)
(* 200, so that several requests may handle the same one.  What settling   *)
(* an order moves is the matter of OrderPayment; here it is counted.       *)
(***************************************************************************)
EXTENDS Integers

CONSTANTS
    Req,        \* slots for concurrent requests
    Order,      \* orders to pay
    Invoice,    \* PayDunya's invoices, by their token
    Key,        \* idempotency keys the clients send with a checkout
    None,       \* null
    MaxMoves,   \* bound: what other handlers do to the orders
    MaxFaults   \* bound: requests that die, and records that are not saved

\* Of Order.status: ONWARD is what follows PAID (SHIPPING, DELIVERED).
OrderStatus == {"PENDING", "PAID", "ONWARD", "CANCELLED"}

\* Whatever PayDunya says of an invoice that is not paid is "pending" here, and the
\* two replies to a payment, success and already paid, are one.
Outcome == {"pending", "completed"}
Reply == {"ignored", "order_paid"}

Job == [op: {"none", "checkout", "ipn", "confirm"}, invoice: Invoice \cup {None},
        said: Outcome, order: Order \cup {None}, key: Key \cup {None}, reply: Reply]
NoJob == [op |-> "none", invoice |-> None, said |-> "pending", order |-> None, key |-> None,
          reply |-> "ignored"]

ASSUME WebhookAssumption ==
    /\ None \notin Invoice \cup Order \cup Key \cup Reply
    /\ MaxMoves \in Nat /\ MaxFaults \in Nat

VARIABLES
    status,   \* Order.status
    owner,    \* the order each invoice is for (its custom_data), None before it exists
    outcome,  \* what has become of the invoice at PayDunya
    wire,     \* notifications PayDunya has not had a 200 for: invoice and outcome
    record,   \* IdempotencyKey rows paydunya_webhook_<token>: the reply, or None
    keyed,    \* IdempotencyKey rows of checkouts: the invoice replied, or None
    pc,       \* where each request is
    job,      \* what it was asked, and its reply so far
    moves, faults,
    credits,  \* history: how often the seller was credited for each order
    settled,  \* history: the orders that have been PAID
    keyOf,    \* history: the key each invoice was created under
    masked,   \* history: invoices whose payment was taken for an older notification
    loose     \* history: keys used twice at once, or whose record was lost

externalVars == <<outcome, wire>>
recordVars == <<record, keyed>>
requestVars == <<pc, job>>
boundVars == <<moves, faults>>
historyVars == <<credits, settled, keyOf, masked, loose>>
vars == <<status, owner, externalVars, recordVars, requestVars, boundVars, historyVars>>

At(r, where) == pc[r] = where

Go(r, where) == pc' = [pc EXCEPT ![r] = where] /\ UNCHANGED job

Finish(r) ==
    /\ pc' = [pc EXCEPT ![r] = "idle"]
    /\ job' = [job EXCEPT ![r] = NoJob]

\* Variant: the webhook answers 200 whatever has happened.
Swallowed(r) == wire \ {<<job[r].invoice, job[r].said>>}

\* No 200: PayDunya will repeat the notification.
Unanswered(r) == wire

\* The request dies with what it has written so far, on an error or as the server stops.
Fail(r) ==
    /\ ~At(r, "idle")
    /\ faults < MaxFaults
    /\ faults' = faults + 1
    /\ Finish(r)
    /\ loose' = IF job[r].op = "checkout" THEN loose \cup ({job[r].key} \ {None}) ELSE loose
    /\ wire' = Unanswered(r)
    /\ UNCHANGED <<status, owner, outcome, recordVars, moves, credits, settled, keyOf, masked>>

-----------------------------------------------------------------------------
(* createCheckoutTransaction *)

\* No invoice is recorded under the key; without a key, none is looked for.
KeyFree(k) == k \in Key => keyed[k] = None

Payable(o) == status[o] \notin {"PAID", "CANCELLED"}

\* The key and the order are read.
StartCheckout(r, o, k) ==
    /\ At(r, "idle")
    /\ KeyFree(k) /\ Payable(o)
    /\ \E i \in Invoice : owner[i] = None
    /\ pc' = [pc EXCEPT ![r] = "invoicing"]
    /\ job' = [job EXCEPT ![r] = [NoJob EXCEPT !.op = "checkout", !.order = o, !.key = k]]
    /\ loose' = IF k # None /\ \E q \in Req : job[q].op = "checkout" /\ job[q].key = k
                  THEN loose \cup {k} ELSE loose
    /\ UNCHANGED <<status, owner, externalVars, recordVars, boundVars, credits, settled,
                   keyOf, masked>>

\* PayDunya makes the invoice, or refuses.
CreateInvoice(r) ==
    /\ At(r, "invoicing")
    /\ \E i \in Invoice :
         /\ owner[i] = None
         /\ owner' = [owner EXCEPT ![i] = job[r].order]
         /\ keyOf' = [keyOf EXCEPT ![i] = job[r].key]
         /\ IF job[r].key = None THEN Finish(r)
              ELSE /\ pc' = [pc EXCEPT ![r] = "keeping"]
                   /\ job' = [job EXCEPT ![r].invoice = i]
    /\ UNCHANGED <<status, externalVars, recordVars, boundVars, credits, settled, masked,
                   loose>>

InvoiceRefused(r) ==
    /\ At(r, "invoicing")
    /\ Finish(r)
    /\ UNCHANGED <<status, owner, externalVars, recordVars, boundVars, historyVars>>

\* The answer is recorded under the key, and sent.
KeepInvoice(r) ==
    /\ At(r, "keeping")
    /\ keyed' = [keyed EXCEPT ![job[r].key] = job[r].invoice]
    /\ Finish(r)
    /\ UNCHANGED <<status, owner, externalVars, record, boundVars, historyVars>>

-----------------------------------------------------------------------------
(* handleWebhook *)

\* Variant: any notification settles.
AnyEvent(s) == TRUE

IsPayment(s) == s = "completed"

\* A notification that is authentic.  What is recorded under the token answers it;
\* only a payment goes on to be settled.
Receive(r, i, s) ==
    /\ At(r, "idle")
    /\ <<i, s>> \in wire
    /\ IF record[i] # None
         THEN /\ wire' = wire \ {<<i, s>>}
              /\ masked' = IF s = "completed" /\ record[i] = "ignored"
                             THEN masked \cup {i} ELSE masked
              /\ UNCHANGED requestVars
         ELSE /\ pc' = [pc EXCEPT ![r] = IF IsPayment(s) THEN "settling" ELSE "saving"]
              /\ job' = [job EXCEPT ![r] = [NoJob EXCEPT !.op = "ipn", !.invoice = i,
                                                    !.said = s]]
              /\ UNCHANGED <<wire, masked>>
    /\ UNCHANGED <<status, owner, outcome, recordVars, boundVars, credits, settled, keyOf,
                   loose>>

\* The reply is recorded under the token; a record that cannot be saved is only logged.
SaveRecord(r) ==
    /\ At(r, "saving")
    /\ record' = [record EXCEPT ![job[r].invoice] = job[r].reply]
    /\ Go(r, "answering")
    /\ UNCHANGED <<status, owner, externalVars, keyed, boundVars, historyVars>>

LoseRecord(r) ==
    /\ \/ At(r, "saving") /\ Go(r, "answering") /\ UNCHANGED loose
       \/ At(r, "keeping") /\ Finish(r) /\ loose' = loose \cup {job[r].key}
    /\ faults < MaxFaults
    /\ faults' = faults + 1
    /\ UNCHANGED <<status, owner, externalVars, recordVars, moves, credits, settled, keyOf,
                   masked>>

\* PayDunya has the 200.
Answer(r) ==
    /\ At(r, "answering")
    /\ wire' = wire \ {<<job[r].invoice, job[r].said>>}
    /\ Finish(r)
    /\ UNCHANGED <<status, owner, outcome, recordVars, boundVars, historyVars>>

-----------------------------------------------------------------------------
(* confirmTransactionByToken *)

\* What PayDunya answers of the invoice.
ConfirmedPaid(i) == outcome[i] = "completed"

\* PayDunya is asked about the invoice, and no record is looked up.
Confirm(r, i) ==
    /\ At(r, "idle")
    /\ owner[i] # None /\ ConfirmedPaid(i)
    /\ pc' = [pc EXCEPT ![r] = "settling"]
    /\ job' = [job EXCEPT ![r] = [NoJob EXCEPT !.op = "confirm", !.invoice = i]]
    /\ UNCHANGED <<status, owner, externalVars, recordVars, boundVars, historyVars>>

-----------------------------------------------------------------------------
(* settlePaidOrderViaPayDunya *)

SettlementReply == "order_paid"

\* What is left to do after the settlement: to record the webhook's reply.
Settled(r) ==
    IF job[r].op = "ipn"
      THEN /\ pc' = [pc EXCEPT ![r] = "saving"]
           /\ job' = [job EXCEPT ![r].reply = SettlementReply]
      ELSE Finish(r)

ReadOrder(r) ==
    /\ At(r, "settling")
    /\ IF status[owner[job[r].invoice]] = "PAID" THEN Settled(r)
                                                 ELSE Go(r, "paying")
    /\ UNCHANGED <<status, owner, externalVars, recordVars, boundVars, historyVars>>

\* Variant: the order's status is not looked at again.
PaysAnyway(o) == TRUE

\* The condition of the updateMany.
Unpaid(o) == status[o] # "PAID"

\* The transaction; the reply is the same when it has found the order PAID.
Pay(r) ==
    /\ At(r, "paying")
    /\ LET o == owner[job[r].invoice] IN
         IF Unpaid(o)
           THEN /\ status' = [status EXCEPT ![o] = "PAID"]
                /\ credits' = [credits EXCEPT ![o] = @ + 1]
                /\ settled' = settled \cup {o}
           ELSE UNCHANGED <<status, credits, settled>>
    /\ Settled(r)
    /\ UNCHANGED <<owner, externalVars, recordVars, boundVars, keyOf, masked, loose>>

-----------------------------------------------------------------------------
(* What other handlers do to the orders, and time to the records *)

\* updateStatus, the cancellations, and the webhook's fellow confirmPayment.
MoveOrder(o, s) ==
    /\ moves < MaxMoves
    /\ moves' = moves + 1
    /\ s # status[o] /\ s # "PENDING" /\ (s = "PAID" => status[o] = "PENDING")
    /\ status' = [status EXCEPT ![o] = s]
    /\ settled' = IF s = "PAID" THEN settled \cup {o} ELSE settled
    /\ UNCHANGED <<owner, externalVars, recordVars, requestVars, faults, credits, keyOf,
                   masked, loose>>

\* A record is a day old.
ExpireReply(i) ==
    /\ record[i] # None
    /\ record' = [record EXCEPT ![i] = None]
    /\ UNCHANGED <<status, owner, externalVars, keyed, requestVars, boundVars, historyVars>>

ExpireKey(k) ==
    /\ keyed[k] # None
    /\ keyed' = [keyed EXCEPT ![k] = None]
    /\ loose' = loose \cup {k}
    /\ UNCHANGED <<status, owner, externalVars, record, requestVars, boundVars, credits,
                   settled, keyOf, masked>>

(* PayDunya *)

\* The customer pays the invoice.
PayInvoice(i) ==
    /\ owner[i] # None /\ outcome[i] = "pending"
    /\ outcome' = [outcome EXCEPT ![i] = "completed"]
    /\ wire' = wire \cup {<<i, "completed">>}
    /\ UNCHANGED <<status, owner, recordVars, requestVars, boundVars, historyVars>>

\* A notification that the invoice is not paid.
NotifyPending(i) ==
    /\ owner[i] # None /\ outcome[i] = "pending"
    /\ wire' = wire \cup {<<i, "pending">>}
    /\ UNCHANGED <<status, owner, outcome, recordVars, requestVars, boundVars, historyVars>>

-----------------------------------------------------------------------------

Init ==
    /\ status = [o \in Order |-> "PENDING"]
    /\ owner = [i \in Invoice |-> None]
    /\ outcome = [i \in Invoice |-> "pending"]
    /\ wire = {}
    /\ record = [i \in Invoice |-> None]
    /\ keyed = [k \in Key |-> None]
    /\ pc = [r \in Req |-> "idle"]
    /\ job = [r \in Req |-> NoJob]
    /\ moves = 0
    /\ faults = 0
    /\ credits = [o \in Order |-> 0]
    /\ settled = {}
    /\ keyOf = [i \in Invoice |-> None]
    /\ masked = {}
    /\ loose = {}

\* A request goes on.
Work(r) ==
    \/ CreateInvoice(r)
    \/ InvoiceRefused(r)
    \/ KeepInvoice(r)
    \/ SaveRecord(r)
    \/ Answer(r)
    \/ ReadOrder(r)
    \/ Pay(r)

Next ==
    \/ \E r \in Req, o \in Order, k \in Key \cup {None} : StartCheckout(r, o, k)
    \/ \E r \in Req, i \in Invoice, s \in Outcome : Receive(r, i, s)
    \/ \E r \in Req, i \in Invoice : Confirm(r, i)
    \/ \E r \in Req : Work(r)
    \/ \E r \in Req : LoseRecord(r)
    \/ \E r \in Req : Fail(r)
    \/ \E o \in Order, s \in OrderStatus : MoveOrder(o, s)
    \/ \E i \in Invoice : ExpireReply(i)
    \/ \E k \in Key : ExpireKey(k)
    \/ \E i \in Invoice : PayInvoice(i) \/ NotifyPending(i)

\* The server works its requests off, and PayDunya repeats the notification of a
\* payment until it is answered.
Fairness ==
    /\ \A r \in Req : WF_vars(Work(r))
    /\ \A i \in Invoice : SF_vars(\E r \in Req : Receive(r, i, "completed"))

Safety == Init /\ [][Next]_vars

Spec == Safety /\ Fairness

-----------------------------------------------------------------------------
(* Properties *)

\* Types.
TypeOK ==
    /\ status \in [Order -> OrderStatus]
    /\ owner \in [Invoice -> Order \cup {None}]
    /\ outcome \in [Invoice -> Outcome]
    /\ wire \in SUBSET (Invoice \X Outcome)
    /\ record \in [Invoice -> Reply \cup {None}]
    /\ keyed \in [Key -> Invoice \cup {None}]
    /\ pc \in [Req -> {"idle", "invoicing", "keeping", "settling", "paying", "saving",
                       "answering"}]
    /\ job \in [Req -> Job]
    /\ moves \in Nat /\ faults \in Nat
    /\ credits \in [Order -> Nat]
    /\ settled \in SUBSET Order
    /\ keyOf \in [Invoice -> Key \cup {None}]
    /\ masked \in SUBSET Invoice
    /\ loose \in SUBSET Key

\* handleWebhook records that an order is paid only once it has been, and only of an
\* invoice that was paid: a crash before the settlement leaves no such record.
RecordTruthful ==
    \A i \in Invoice : record[i] = "order_paid" =>
        outcome[i] = "completed" /\ owner[i] \in settled

\* PayDunya keeps repeating the notification of a payment until the order has been PAID,
\* unless the reply to an older notification of the invoice was taken for its reply.
NotificationKept ==
    \A i \in Invoice : outcome[i] = "completed" =>
        owner[i] \in settled \/ i \in masked \/ <<i, "completed">> \in wire

\* createCheckoutTransaction makes one invoice for a key, unless two requests used it at
\* the same time, or its record was lost or is a day old.
InvoicePerKey ==
    \A i, j \in Invoice : keyOf[i] = keyOf[j] /\ keyOf[i] # None => i = j \/ keyOf[i] \in loose

\* What the records of PayDunya's notifications and of the checkouts are relied on for.
RecordsHold ==
    /\ RecordTruthful
    /\ NotificationKept
    /\ InvoicePerKey

\* The orders, as the sellers see them.
Orders == INSTANCE PaidOrders
    WITH due <- {o \in Order : \E i \in Invoice : owner[i] = o /\ outcome[i] = "completed"},
         paid <- {o \in Order : status[o] = "PAID"}

\* Whatever is notified, confirmed, repeated or raced, a credit comes with an entry into
\* PAID and with an invoice somebody has paid.
SettledOnce == Orders!Spec

\* The order of a paid invoice is PAID in the end, unless the reply to an older
\* notification was taken for the reply to the payment.
PaidInvoiceSettles ==
    \A i \in Invoice :
        outcome[i] = "completed" ~> (owner[i] \in settled \/ i \in masked)

-----------------------------------------------------------------------------
(* The inductive invariant behind these properties *)

\* What is known of an invoice.
InvoiceInv(i) ==
    /\ owner[i] = None => outcome[i] = "pending" /\ keyOf[i] = None /\ record[i] = None
    /\ \A s \in Outcome : <<i, s>> \in wire =>
          owner[i] # None /\ (s = "completed" => outcome[i] = "completed")

\* A checkout that has this key is under way.
Using(r, k) == job[r].op = "checkout" /\ job[r].key = k

\* What is known of a request.
RequestInv(r) ==
    LET i == job[r].invoice IN
      /\ At(r, "idle") <=> job[r].op = "none"
      /\ job[r].op = "checkout" <=> pc[r] \in {"invoicing", "keeping"}
      /\ At(r, "invoicing") => job[r].order # None
      /\ At(r, "keeping") => i # None /\ job[r].key # None /\ keyOf[i] = job[r].key
      /\ job[r].op \in {"ipn", "confirm"} => i # None /\ owner[i] # None
      /\ pc[r] \in {"settling", "paying"} => outcome[i] = "completed"
      /\ pc[r] \in {"saving", "answering"} =>
            /\ job[r].op = "ipn"
            /\ job[r].reply = "ignored" => job[r].said = "pending"
            /\ job[r].reply # "ignored" => outcome[i] = "completed" /\ owner[i] \in settled
      /\ job[r].op = "ipn" /\ job[r].said = "pending" => pc[r] \in {"saving", "answering"}

\* Whoever has made an invoice under a key has recorded it, or is about to.
KeyInv(k) ==
    k \in loose \/
        /\ \A i \in Invoice : keyOf[i] = k =>
              keyed[k] = i \/ \E r \in Req : At(r, "keeping") /\ Using(r, k) /\ job[r].invoice = i
        /\ \A q, r \in Req : Using(q, k) /\ Using(r, k) => q = r
        /\ \A r \in Req, i \in Invoice : At(r, "invoicing") /\ Using(r, k) => keyOf[i] # k

IInv ==
    /\ TypeOK
    /\ RecordTruthful
    /\ NotificationKept
    /\ InvoicePerKey
    /\ \A o \in Order : status[o] = "PAID" => o \in settled
    /\ \A i \in Invoice : InvoiceInv(i)
    /\ \A r \in Req : RequestInv(r)
    /\ \A k \in Key : KeyInv(k)
=============================================================================
