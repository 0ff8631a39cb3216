--------------------------- MODULE StoreCheckout ---------------------------
(***************************************************************************)
(* A customer's browser against the API: the cart, the drawer that places  *)
(* an order and takes its payment, the record of orders the browser keeps, *)
(* and the server's table of idempotency keys.                             *)
(*                                                                         *)
(* The drawer may be closed and opened again while a request is out; the   *)
(* handler waiting for the answer then writes into the new opening.  An    *)
(* answer may be cut (fetch throws, which the client takes for a shop      *)
(* without network) or become an error of a gateway (an ApiError), before  *)
(* or after the server has done the work, and the work may come later.     *)
(*                                                                         *)
(* Openings draw the keys 1, 2, ...; orders have the ids 1 .. MaxOrders,   *)
(* records made in the browser alone the ids above.                        *)
(***************************************************************************)
EXTENDS Integers

CONSTANTS
    Item,      \* lines a customer may put into the cart, each once
    Slot,      \* requests under way at a time
    MaxOpens,  \* bound: openings of the drawer
    MaxOrders, \* bound: orders the server commits
    MaxLocal,  \* bound: orders recorded without the server
    MaxAsked,  \* bound: orders and payments the customer confirms
    MaxFaults, \* bound: what the network, the server and others may do
    None,      \* no order, no record
    Invoice    \* a record that holds the answer of create-transaction

Key == 1..MaxOpens
Order == 1..MaxOrders
Local == (MaxOrders + 1)..(MaxOrders + MaxLocal)
Id == Order \cup Local

ASSUME BoundAssumption ==
    {MaxOpens, MaxOrders, MaxLocal, MaxAsked, MaxFaults} \subseteq Nat
ASSUME NoneAssumption == None # Invoice /\ {None, Invoice} \cap Id = {}

VARIABLES
    open,      \* isOpen
    step,      \* the step the drawer shows
    placing,   \* the buttons are disabled
    placed,    \* placedOrder
    key,       \* checkoutKeyRef, 0 before the first opening
    cart,      \* lines
    history,   \* customerStore's orders: "absent", "pending", ...
    flight,    \* the requests under way, and the timer before a payment
    status,    \* Order.status, "NONE" before the order is committed
    content,   \* the items of an order or of a browser's record
    record,    \* IdempotencyKey: whose answer a key repeats
    saving,    \* records being saved, not awaited
    asked,     \* how often the customer has confirmed an order or a payment
    faults,    \* how much of that has happened
    wanted,    \* history: items put into the cart
    given,     \* history: items taken out, or come while an order was out
    again,     \* history: items that may be bought again, see BoughtOnce
    paidEver,  \* history: orders that have been PAID
    offline,   \* history: orders recorded as paid without the server
    mistaken   \* history: orders whose invoice was answered by an order

drawer == <<open, step, placing, placed, key>>
server == <<status, content, record, saving>>
past == <<wanted, given, again, paidEver, offline, mistaken>>
storeVars == <<drawer, cart, history, flight, server, asked, faults, past>>

-----------------------------------------------------------------------------
(* Requests *)

\* live: a handler of the page waits for the answer.
Flights ==
    [what: {"none", "profile", "order", "invoice", "timer", "pay", "paying"},
     key: Key \cup {0}, items: SUBSET Item, id: Id \cup {None},
     method: {"PAYDUNYA", "OTHER"}, live: BOOLEAN,
     reply: {"none", "ok", "url", "unpaid", "error", "cut"}]

Idle == [what |-> "none", key |-> 0, items |-> {}, id |-> None,
         method |-> "OTHER", reply |-> "none", live |-> FALSE]

\* A handler of the page sends it and waits.
NewRequest(what, k, items, id, method) ==
    [what |-> what, key |-> k, items |-> items, id |-> id,
     method |-> method, reply |-> "none", live |-> TRUE]

\* The bounds.
Asks == asked < MaxAsked /\ asked' = asked + 1
Trouble == faults < MaxFaults /\ faults' = faults + 1

Free(f) == flight[f].what = "none"
Sent(f, what) == flight[f].what = what /\ flight[f].reply = "none"
Answered(f, what) == flight[f].what = what /\ flight[f].reply # "none"
Done(f) == flight' = [flight EXCEPT ![f] = Idle]

\* The server answers; nobody hears the answer to a page that is gone.
Answer(f, reply, id) ==
    flight' = [flight EXCEPT ![f] =
                 IF @.live THEN [@ EXCEPT !.reply = reply, !.id = id] ELSE Idle]

\* An order of these items is out, or is being prepared.
Ordering(f) == flight[f].what \in {"profile", "order"}
Awaited == \E f \in Slot : flight[f].live /\ Ordering(f)
Out == UNION {flight[f].items : f \in {g \in Slot : Ordering(g)}}
\* The items of the server's orders.
Bought == UNION {content[o] : o \in Order}

-----------------------------------------------------------------------------
(* The drawer and the cart *)

\* The effect of an opening: everything starts again, with a new key.  What
\* was asked before and has not been answered may be asked again.
Restarted(start, lines, busy) ==
    /\ key < MaxOpens
    /\ open' = TRUE /\ step' = start
    /\ placing' = busy /\ placed' = None
    /\ key' = key + 1
    /\ again' = again \cup Out \cup (lines \cap Bought)

\* Variant: the buttons stay as they were.
OpenedAsLeft(start, lines) == Restarted(start, lines, placing)
Opened(start, lines) == Restarted(start, lines, FALSE)

OpenCart(start) ==
    /\ ~open
    /\ Opened(start, cart)
    /\ UNCHANGED <<cart, history, flight, server, asked, faults, wanted, given, paidEver,
                   offline, mistaken>>

\* Closing clears the timers; requests go on.
WithoutTimers == [f \in Slot |-> IF flight[f].what = "timer" THEN Idle ELSE flight[f]]

CloseCart ==
    /\ open
    /\ open' = FALSE
    /\ flight' = WithoutTimers
    /\ UNCHANGED <<step, placing, placed, key, cart, history, server, asked, faults, past>>

CloseAndReset ==
    /\ open /\ step = "done"
    /\ open' = FALSE /\ step' = "cart" /\ placed' = None
    /\ flight' = WithoutTimers
    /\ UNCHANGED <<placing, key, cart, history, server, asked, faults, past>>

\* The page goes: localStorage keeps the cart and the history.
LeavePage ==
    /\ open' = FALSE /\ step' = "cart" /\ placing' = FALSE /\ placed' = None
    /\ flight' = [f \in Slot |->
                    IF \E w \in {"order", "invoice", "pay", "paying"} : Sent(f, w)
                      THEN [flight[f] EXCEPT !.live = FALSE] ELSE Idle]
    /\ UNCHANGED <<key, cart, history>>

Reload ==
    /\ Trouble
    /\ LeavePage
    /\ UNCHANGED <<asked, server, past>>

ShowStep(from, to) ==
    /\ open /\ step = from
    /\ step' = to
    /\ UNCHANGED <<asked, open, placing, placed, key, cart, history, flight, server,
                   faults, past>>

GoCheckout == cart # {} /\ ShowStep("cart", "checkout")
\* One of the two buttons that go back to the cart is never disabled.
BackToCart == ShowStep("checkout", "cart")
BackToCheckout == ~placing /\ ShowStep("payment", "checkout")

\* The open drawer covers the page and its products.
Add(i) ==
    /\ ~open /\ i \notin wanted
    /\ cart' = cart \cup {i}
    /\ wanted' = wanted \cup {i}
    /\ given' = IF Awaited THEN given \cup {i} ELSE given
    /\ UNCHANGED <<drawer, history, flight, server, asked, faults, again, paidEver, offline,
                   mistaken>>

\* A negotiated offer is bought at once: its product, when it has loaded, takes
\* the place of the cart, whether or not the drawer has been opened meanwhile.
BuyNow(i) ==
    /\ i \notin wanted
    /\ cart' = {i}
    /\ wanted' = wanted \cup {i}
    /\ given' = given \cup cart \cup (IF open \/ Awaited THEN {i} ELSE {})
    /\ IF open THEN UNCHANGED <<drawer, again>> ELSE Opened("checkout", {i})
    /\ UNCHANGED <<history, flight, server, asked, faults, paidEver, offline, mistaken>>

Remove(i) ==
    /\ open /\ step = "cart" /\ i \in cart
    /\ cart' = cart \ {i}
    /\ given' = given \cup {i}
    /\ UNCHANGED <<drawer, history, flight, server, asked, faults, wanted, again, paidEver,
                   offline, mistaken>>

-----------------------------------------------------------------------------
(* Placing the order *)

\* The lines are taken now.  The key is read when the order is sent, which is
\* after the customer's profile has been saved if he has ticked that, and at
\* once if he has not.
ConfirmOrder(f) ==
    /\ open /\ step = "checkout" /\ ~placing /\ Free(f)
    /\ placing' = TRUE
    /\ flight' = [flight EXCEPT ![f] =
                    NewRequest("profile", 0, cart, None, "OTHER")]
    /\ Asks
    /\ UNCHANGED <<open, step, placed, key, cart, history, server, faults, past>>

SendOrder(f) ==
    /\ Sent(f, "profile")
    /\ flight' = [flight EXCEPT ![f] = NewRequest("order", key, @.items, None, "OTHER")]
    /\ UNCHANGED <<drawer, cart, history, server, asked, faults, past>>

\* Variant: the answer is saved and never looked for.
NotReplayed(k) == FALSE
\* getRecord: the key alone, whatever the path the record was saved for.
Replayed(k) == record[k] # None

\* The record of the key is repeated.  An invoice is no order: the browser
\* fails to convert it, and takes that for the network.
RepeatOrder(f) ==
    /\ Sent(f, "order") /\ flight[f].items # {}
    /\ LET k == flight[f].key IN
         /\ Replayed(k)
         /\ IF record[k] = Invoice THEN Answer(f, "cut", None) ELSE Answer(f, "ok", record[k])
    /\ UNCHANGED <<drawer, cart, history, server, asked, faults, past>>

\* No items, no stock, ...
RefuseOrder(f) ==
    /\ Sent(f, "order")
    /\ \/ flight[f].items = {} /\ UNCHANGED faults
       \/ ~Replayed(flight[f].key) /\ Trouble
    /\ Answer(f, "error", None)
    /\ UNCHANGED <<asked, drawer, cart, history, server, past>>

CreateOrder(f) ==
    /\ Sent(f, "order") /\ flight[f].items # {}
    /\ LET k == flight[f].key IN
       \E o \in Order :
         /\ ~Replayed(k)
         /\ status[o] = "NONE" /\ \A p \in 1..(o - 1) : status[p] # "NONE"
         /\ status' = [status EXCEPT ![o] = "PENDING"]
         /\ content' = [content EXCEPT ![o] = flight[f].items]
         /\ saving' = saving \cup {<<k, o>>}
         /\ again' = again \cup UNION {content[s[2]] : s \in {t \in saving : t[1] = k}}
         /\ Answer(f, "ok", o)
    /\ UNCHANGED <<asked, drawer, cart, history, record, faults, wanted, given, paidEver, offline,
                   mistaken>>

\* An upsert: an order that was recorded for the key meanwhile is forgotten.
SaveRecord(s) ==
    /\ saving' = saving \ {s}
    /\ record' = [record EXCEPT ![s[1]] = s[2]]
    /\ again' = again \cup UNION {content[o] : o \in Order \cap {record[s[1]]}}
    /\ UNCHANGED <<asked, drawer, cart, history, flight, status, content, faults, wanted, given,
                   paidEver, offline, mistaken>>

\* The save fails, which is swallowed, or the record expires.
LoseRecord ==
    /\ Trouble
    /\ \/ \E s \in saving :
            /\ saving' = saving \ {s}
            /\ again' = again \cup content[s[2]]
            /\ UNCHANGED record
       \/ \E k \in Key :
            /\ record[k] # None
            /\ record' = [record EXCEPT ![k] = None]
            /\ again' = again \cup UNION {content[o] : o \in Order \cap {record[k]}}
            /\ UNCHANGED saving
    /\ UNCHANGED <<asked, drawer, cart, history, flight, status, content, wanted, given, paidEver,
                   offline, mistaken>>

\* Variant: whatever the answer.
EmptiedAnyway(reply) == TRUE
\* The cart is emptied once the order is known, or recorded without network.
Emptied(reply) == reply \in {"ok", "cut"}

\* The order the browser goes on with: the server's, or one of its own.
Remembers(f, d) ==
    \/ /\ flight[f].reply = "ok" /\ d = flight[f].id
       /\ UNCHANGED content
    \/ /\ flight[f].reply = "cut"
       /\ d \in Local /\ history[d] = "absent"
       /\ \A e \in Local : e < d => history[e] # "absent"
       /\ content' = [content EXCEPT ![d] = flight[f].items]

ReceiveOrder(f) ==
    /\ Answered(f, "order")
    /\ \/ \E d \in Id :
            /\ Remembers(f, d)
            /\ history' = [history EXCEPT ![d] = "pending"]
            /\ placed' = d /\ step' = "payment"
       \/ /\ flight[f].reply = "error"
          /\ UNCHANGED <<history, content, placed, step>>
    /\ cart' = IF Emptied(flight[f].reply) THEN {} ELSE cart
    /\ placing' = FALSE
    /\ Done(f)
    /\ UNCHANGED <<asked, open, key, status, record, saving, faults, past>>

-----------------------------------------------------------------------------
(* Paying *)

\* Variant: the step alone is looked at.
CanPayAnyway == ~placing
CanPay == placed # None /\ ~placing

RunPayment(f, method) ==
    /\ open /\ step = "payment" /\ CanPay /\ Free(f)
    /\ placing' = TRUE
    /\ step' = IF method = "PAYDUNYA" THEN step ELSE "processing"
    /\ flight' = [flight EXCEPT ![f] =
                    NewRequest("invoice", key, {}, placed, method)]
    /\ Asks
    /\ UNCHANGED <<open, placed, key, cart, history, server, faults, past>>

\* create-transaction looks the key up as create does, and the key of the
\* drawer is the one of the order.
RepeatInvoice(f) ==
    /\ Sent(f, "invoice")
    /\ LET k == flight[f].key IN
         /\ Replayed(k)
         /\ mistaken' = IF record[k] = Invoice THEN mistaken ELSE mistaken \cup {flight[f].id}
         /\ Answer(f, IF record[k] = Invoice THEN "url" ELSE "ok", flight[f].id)
    /\ UNCHANGED <<drawer, cart, history, server, asked, faults, wanted, given, again, paidEver,
                   offline>>

\* The invoice of a PENDING order; its record is awaited.
CreateInvoice(f) ==
    /\ Sent(f, "invoice")
    /\ ~Replayed(flight[f].key)
    /\ flight[f].id \in Order /\ status[flight[f].id] = "PENDING"
    /\ record' = [record EXCEPT ![flight[f].key] = Invoice]
    /\ Answer(f, "url", flight[f].id)
    /\ UNCHANGED <<asked, drawer, cart, history, status, content, saving, faults, past>>

\* Unknown, paid or cancelled, or PayDunya refuses.
RefuseInvoice(f) ==
    /\ Sent(f, "invoice")
    /\ ~Replayed(flight[f].key)
    /\ LET d == flight[f].id IN
         IF d \in Order /\ status[d] = "PENDING" THEN Trouble ELSE UNCHANGED faults
    /\ Answer(f, "error", flight[f].id)
    /\ UNCHANGED <<asked, drawer, cart, history, server, past>>

\* The customer is sent to PayDunya and comes back to a new page.
GoToPayDunya(f) ==
    /\ Answered(f, "invoice") /\ flight[f].reply = "url"
    /\ LeavePage
    /\ UNCHANGED <<server, asked, faults, past>>

\* No url: PayDunya's own button is done, or shows the error; the other
\* methods go on with the simulation, even after an error.
ReceiveInvoice(f) ==
    /\ Answered(f, "invoice") /\ flight[f].reply # "url"
    /\ \/ /\ flight[f].method = "PAYDUNYA" /\ flight[f].reply = "ok"
          /\ placed' = flight[f].id /\ step' = "done" /\ placing' = FALSE
          /\ Done(f)
       \/ /\ flight[f].method = "PAYDUNYA" /\ flight[f].reply # "ok"
          /\ placing' = FALSE
          /\ Done(f)
          /\ UNCHANGED <<placed, step>>
       \/ /\ flight[f].method = "OTHER"
          /\ flight' = [flight EXCEPT ![f] =
                          NewRequest("timer", 0, {}, @.id, "OTHER")]
          /\ UNCHANGED <<placed, step, placing>>
    /\ UNCHANGED <<open, key, cart, history, server, asked, faults, past>>

FireTimer(f) ==
    /\ Sent(f, "timer")
    /\ flight' = [flight EXCEPT ![f] = [@ EXCEPT !.what = "pay"]]
    /\ UNCHANGED <<drawer, cart, history, server, asked, faults, past>>

\* confirmPayment reads the order: PAID is answered, PENDING goes on, anything
\* else is refused.
ReadPay(f) ==
    /\ Sent(f, "pay")
    /\ LET d == flight[f].id IN
       \/ /\ d \in Order /\ status[d] = "PENDING"
          /\ flight' = [flight EXCEPT ![f] = [@ EXCEPT !.what = "paying"]]
       \/ /\ d \in Order /\ status[d] = "PAID"
          /\ Answer(f, "ok", d)
       \/ /\ d \in Order => status[d] \notin {"PENDING", "PAID"}
          /\ Answer(f, "error", d)
    /\ UNCHANGED <<drawer, cart, history, server, asked, faults, past>>

\* Its transaction: from PENDING only; an order that has changed since is
\* answered as it is.
CommitPay(f) ==
    /\ Sent(f, "paying")
    /\ LET d == flight[f].id IN
         /\ status' = IF status[d] = "PENDING" THEN [status EXCEPT ![d] = "PAID"] ELSE status
         /\ paidEver' = IF status[d] = "PENDING" THEN paidEver \cup {d} ELSE paidEver
         /\ Answer(f, IF status[d] = "CANCELLED" THEN "unpaid" ELSE "ok", d)
    /\ UNCHANGED <<drawer, cart, history, content, record, saving, asked, faults, wanted, given,
                   again, offline, mistaken>>

\* Variant: every failure is taken for the network.
BelievedAnyway(reply) == TRUE
\* An ApiError is shown; without an answer the order is recorded as paid.
Believed(reply) == reply \in {"ok", "unpaid", "cut"}

ReceivePay(f) ==
    /\ Answered(f, "pay") \/ Answered(f, "paying")
    /\ LET d == flight[f].id
           reply == flight[f].reply IN
       /\ offline' = IF reply = "cut" THEN offline \cup {d} ELSE offline
       /\ \/ /\ Believed(reply)
             /\ history' = [history EXCEPT ![d] = IF reply = "unpaid" THEN "cancelled" ELSE "paid"]
             /\ placed' = d /\ step' = "done"
          \/ /\ ~Believed(reply)
             /\ step' = "payment"
             /\ UNCHANGED <<history, placed>>
    /\ placing' = FALSE
    /\ Done(f)
    /\ UNCHANGED <<open, key, cart, server, asked, faults, wanted, given, again, paidEver,
                   mistaken>>

-----------------------------------------------------------------------------
(* The network and the others *)

\* The page is told that its request failed.  The request never arrives, or
\* the answer is lost, or (at g) the server gets to it later.
FailFlight(f, how) ==
    /\ Trouble
    /\ flight[f].what \in {"order", "invoice", "pay", "paying"} /\ flight[f].live
    /\ flight[f].reply \notin {"error", "cut"}
    /\ LET id == IF flight[f].what = "order" THEN None ELSE flight[f].id
           failed == [flight EXCEPT ![f] = [@ EXCEPT !.reply = how, !.id = id]] IN
         \/ flight' = failed
         \/ /\ flight[f].reply = "none"
            /\ \E g \in Slot :
                 /\ Free(g)
                 /\ flight' = [failed EXCEPT ![g] = [flight[f] EXCEPT !.live = FALSE]]
    /\ UNCHANGED <<asked, drawer, cart, history, server, past>>

\* PayDunya's webhook or the seller; a cancellation.
Elsewhere(o) ==
    /\ Trouble
    /\ \/ /\ status[o] = "PENDING"
          /\ status' = [status EXCEPT ![o] = "PAID"]
          /\ paidEver' = paidEver \cup {o}
       \/ /\ status[o] \in {"PENDING", "PAID"}
          /\ status' = [status EXCEPT ![o] = "CANCELLED"]
          /\ UNCHANGED paidEver
    /\ UNCHANGED <<asked, drawer, cart, history, flight, content, record, saving, wanted, given,
                   again, offline, mistaken>>

-----------------------------------------------------------------------------
StoreInit ==
    /\ open = FALSE /\ step = "cart" /\ placing = FALSE /\ placed = None /\ key = 0
    /\ cart = {}
    /\ history = [d \in Id |-> "absent"]
    /\ flight = [f \in Slot |-> Idle]
    /\ status = [o \in Order |-> "NONE"]
    /\ content = [d \in Id |-> {}]
    /\ record = [k \in Key |-> None]
    /\ saving = {}
    /\ asked = 0 /\ faults = 0
    /\ wanted = {} /\ given = {} /\ again = {}
    /\ paidEver = {} /\ offline = {} /\ mistaken = {}

StoreNext ==
    \/ \E start \in {"cart", "checkout"} : OpenCart(start)
    \/ CloseCart \/ CloseAndReset \/ Reload
    \/ GoCheckout \/ BackToCart \/ BackToCheckout
    \/ \E i \in Item : Add(i) \/ BuyNow(i) \/ Remove(i)
    \/ \E f \in Slot :
         \/ ConfirmOrder(f) \/ SendOrder(f) \/ RepeatOrder(f) \/ RefuseOrder(f) \/ CreateOrder(f)
         \/ ReceiveOrder(f)
         \/ \E method \in {"PAYDUNYA", "OTHER"} : RunPayment(f, method)
         \/ RepeatInvoice(f) \/ CreateInvoice(f) \/ RefuseInvoice(f)
         \/ GoToPayDunya(f) \/ ReceiveInvoice(f)
         \/ FireTimer(f) \/ ReadPay(f) \/ CommitPay(f) \/ ReceivePay(f)
         \/ \E how \in {"error", "cut"} : FailFlight(f, how)
    \/ \E s \in saving : SaveRecord(s)
    \/ LoseRecord
    \/ \E o \in Order : Elsewhere(o)

StoreSpec == StoreInit /\ [][StoreNext]_storeVars

-----------------------------------------------------------------------------
(* What a customer may count on *)

DrawerOK ==
    /\ open \in BOOLEAN /\ placing \in BOOLEAN
    /\ step \in {"cart", "checkout", "payment", "processing", "done"}
    /\ placed \in Id \cup {None} /\ key \in Key \cup {0} /\ cart \subseteq Item
    /\ history \in [Id -> {"absent", "pending", "paid", "cancelled"}]

RequestsOK ==
    /\ flight \in [Slot -> Flights]
    /\ \A f \in Slot :
         flight[f].what \in {"invoice", "timer", "pay", "paying"} => flight[f].id \in Id

ServerOK ==
    /\ status \in [Order -> {"NONE", "PENDING", "PAID", "CANCELLED"}]
    /\ content \in [Id -> SUBSET Item]
    /\ record \in [Key -> Order \cup {None, Invoice}] /\ saving \subseteq Key \X Order

PastOK ==
    /\ asked \in 0..MaxAsked /\ faults \in 0..MaxFaults
    /\ wanted \subseteq Item /\ given \subseteq wanted /\ again \subseteq Item
    /\ paidEver \subseteq Order /\ offline \subseteq Id /\ mistaken \subseteq Id

\* Types; and a payment under way is the payment of an order, although an
\* answer to an earlier opening can show the step of payment before there is one.
StoreTypeOK == DrawerOK /\ RequestsOK /\ ServerOK /\ PastOK

\* Sending again never buys again: no item is in two orders, unless a new key
\* was drawn while an order of it was out or unheard, or the server's record
\* of the key was lost, overwritten or not there yet.
BoughtOnce ==
    \A o, p \in Order : o # p => content[o] \cap content[p] \subseteq again

\* Nothing put into the cart gets lost: it is still there, or was taken out,
\* or is in an order the browser remembers; what came into the cart while an
\* order was out goes with clear().
CartServed ==
    wanted \subseteq cart \cup given
                     \cup UNION {content[d] : d \in {e \in Id : history[e] # "absent"}}

\* An order is recorded as paid only if it has been PAID, or the server could
\* not be reached; "Paiement confirme" is shown of such an order, or because
\* its invoice was answered by an order, or because it was cancelled while it
\* was being paid, which is answered and recorded as it is.
ShownPaid ==
    /\ \A d \in Id : history[d] = "paid" => d \in paidEver \cup offline
    /\ open /\ step = "done" /\ placed # None
         => placed \in paidEver \cup offline \cup mistaken
                         \cup {d \in Id : history[d] = "cancelled"}

\* The disabled buttons and the waiting screen of an open drawer belong to a
\* request whose answer will end them.
NotStuck ==
    open /\ (placing \/ step = "processing") => \E f \in Slot : flight[f].live

\* getRecord's comment: an answer recorded "pour ce chemin", so that a request
\* for an invoice is never answered by an order.
AnswersOfPath == mistaken = {}

-----------------------------------------------------------------------------
(* The inductive invariant *)

\* A request that waits for its answer or was abandoned by its page, and what
\* its answer says.
FlightInv(f) ==
    LET r == flight[f] IN
    /\ r.live \/ r.reply = "none"
    /\ r.what = "none" => ~r.live
    /\ r.what = "profile" => r.live /\ r.reply = "none" /\ key # 0
    /\ r.what \in {"order", "invoice"} => r.key \in 1..key
    /\ r.what = "order" => /\ r.reply \in {"none", "ok", "error", "cut"}
                           /\ r.reply = "ok" => r.id \in Order
    /\ r.what = "invoice" /\ r.reply = "ok" => r.id \in mistaken
    /\ r.what = "timer" => r.live /\ r.reply = "none"
    /\ r.what \in {"pay", "paying"} /\ r.reply = "ok" => r.id \in paidEver
    /\ r.what = "paying" => r.id \in Order /\ status[r.id] # "NONE"

\* A key that was never drawn has no record.
KeysInv ==
    /\ open => key # 0
    /\ \A s \in saving : s[1] <= key
    /\ \A k \in Key : record[k] # None => k <= key

\* What was bought was wanted.
WantedInv ==
    /\ cart \subseteq wanted /\ \A f \in Slot : flight[f].items \subseteq wanted
    /\ \A d \in Id : content[d] \subseteq wanted

OrdersInv ==
    \A o \in Order : /\ status[o] = "NONE" => content[o] = {}
                     /\ status[o] = "PAID" => o \in paidEver

LedgerInv == KeysInv /\ WantedInv /\ OrdersInv

\* An order that can still be created, and the key it will have been sent with.
Undecided(f) == Sent(f, "profile") \/ Sent(f, "order")
KeyOf(f) == IF flight[f].what = "profile" THEN key ELSE flight[f].key
\* The server will repeat order p to whoever sends key k, or is about to.
Answers(k, p) == <<k, p>> \in saving \/ record[k] = p

\* What is in two orders, in an order and in a request, or in two requests, may
\* be bought again, or its key keeps it from being bought twice.
OnceInv ==
    /\ BoughtOnce
    /\ \A f \in Slot : Undecided(f) =>
          /\ \A p \in Order : \/ flight[f].items \cap content[p] \subseteq again
                              \/ Answers(KeyOf(f), p)
          /\ \A g \in Slot : Undecided(g) =>
                \/ flight[f].items \cap flight[g].items \subseteq again
                \/ KeyOf(f) = KeyOf(g)
          /\ open => cart \cap flight[f].items \subseteq again \/ KeyOf(f) = key
    /\ open => \A p \in Order : cart \cap content[p] \subseteq again \/ Answers(key, p)

\* What need not be in the cart any more.
Served == given \cup UNION {content[d] : d \in {e \in Id : history[e] # "absent"}}
\* An answer to key k may empty the cart.
Heard(k) == (open /\ key = k) \/ \E f \in Slot : flight[f].live /\ Ordering(f) /\ KeyOf(f) = k

\* Whatever is answered to an order serves all that was wanted.
ServedInv ==
    /\ CartServed
    /\ \A f \in Slot :
         /\ flight[f].live /\ Ordering(f) => wanted \subseteq flight[f].items \cup Served
         /\ flight[f].what = "order" /\ flight[f].reply = "ok"
              => wanted \subseteq content[flight[f].id] \cup Served
         /\ Sent(f, "order") /\ Heard(flight[f].key)
              => wanted \subseteq flight[f].items \cup Served
    /\ \A k \in Key, p \in Order :
         Answers(k, p) /\ Heard(k) => wanted \subseteq content[p] \cup Served

\* The waiting screen belongs to a payment that will leave it.
ScreenInv ==
    /\ open /\ placing => \E f \in Slot : flight[f].live
    /\ open /\ step = "processing" =>
         \E f \in Slot : /\ flight[f].live /\ flight[f].method = "OTHER"
                         /\ flight[f].what \in {"invoice", "timer", "pay", "paying"}

StoreInv ==
    /\ StoreTypeOK /\ LedgerInv /\ OnceInv /\ ServedInv /\ ShownPaid /\ ScreenInv
    /\ \A f \in Slot : FlightInv(f)
=============================================================================
