# ZennShop (Afrique_os): a TLA+ model of the money and delivery flows

The repository is a multi-boutique marketplace for West Africa: a NestJS backend
over PostgreSQL (`backend/src`, Prisma), and a Next.js client. This directory models
the backend's own logic: what happens to an order, to the seller's money, to the
stock and to the parcel when many people and one payment provider act on them at
the same time. Of the client it models the one part that keeps state and decides what
was done: the cart and the checkout.

## 1. Inventory

Every service is stateless; its state is rows of one PostgreSQL database. Node runs
one handler at a time between awaits, but every database call is an await, there may
be several instances, and nothing holds a row between a handler's first read and its
transaction. Components therefore interact through shared rows. The unit of
concurrency is the HTTP request; the unit of atomicity is a `$transaction` or a single
write, at READ COMMITTED (the default of PostgreSQL; no isolation level is set).

| component | state (tables) | operations that change it | interacts with | what is hard | what makes it correct |
|---|---|---|---|---|---|
| orders (`orders.service.ts`) | Order, OrderItem, Product.stock, Variant.stock, User.pointsBalance, Boutique.balance, SettlementAllocation | create, updateStatus, confirmPayment, cancelByCustomer, creditSellerForPaidOrder | paydunya and admin act on the same rows; refunds and delivery on the allocations | checks made on a row read before the transaction; three copies of the crediting | one credit for each entry into PAID; a cancellation gives back what was taken, once; no overselling |
| paydunya | IdempotencyKey, Order, Boutique.balance | createCheckoutTransaction, handleWebhook, confirmTransactionByToken | PayDunya (external) calls back, late, more than once | IPN races the return URL; a crash between settling and recording | a paid invoice is settled in the end, and credited once |
| refunds | RefundRequest, SettlementAllocation, Boutique.balance | createRequest, vendorReply, adminDecide | holds the escrow of orders; debits sellers | three actors, unlocked checks | a decision is final; at most what was credited is taken back |
| boutiques: wallet | Boutique.balance, WithdrawalRequest | requestWithdrawal | everything that credits or debits | held amount summed before the debit | no double spending; held money stays |
| boutiques: plans and shops | Boutique.plan, Subscription, TeamMember | create, subscribePlan, activateUserSubscription, update, verification, team | the plan decides the commission; paydunya and admin change it too | count-then-create limits; shops read before they are written | within the plan's limit; one plan for all shops, paid for or given |
| admin | Order (through orders and directly), Boutique, User, Subscription, logs | setOrderStatus, cancelOrder, reviews, settings | orders | unconditional writes | an admin cancellation mirrors the customer's |
| delivery: shipments and settlement | Shipment, DeliveryLeg, HandoverEvidence, SettlementAllocation, DeliveryDispute, balances | createOrGetShipmentForOrder, dispatchShipment, recordHandoverEvidence, verify..., acceptProductConformity, the conformity sweep, payout approval, disputes | orders, refunds, wallet, messaging | timers, disputes against releases, repeated verification | a courier is paid once, after verification; a disputed allocation is not released |
| delivery: couriers and missions | CourierProfile, AgencyMembership, DeliveryMission | attach, detach, acceptPublicMission, assignMissionByAgency | shipments | exclusive membership, contended claims | one courier per mission, one agency per courier |
| delivery: quotes, geography | reference data | seeds, settings | shipments | - | - |
| idempotency | IdempotencyKey | getRecord, saveRecord | orders.create, paydunya | saved after the effect; failures swallowed | a retry repeats the answer, not the effect |
| auth | User.refreshTokenHash, OtpCode | login, refresh, logout, OTP issue and use, password changes | guards | rotation races, code reuse | one use per code, one live refresh token |
| messaging | Conversation, Message, ShipmentConversationAccess | startConversation, addMessage, WebSocket gateway | delivery revokes rights | right read before the write | no message after revocation |
| products | Product, Variant | create, update, remove | orders decrement the stock | absolute stock writes | no lost decrement |
| notifications, users, categories, brands, newsletter | one row per operation | create, read, update, delete | - | - | - |
| frontend: cart and checkout (`CartDrawer.tsx`, `CartProvider.tsx`, `customerStore.ts`) | the drawer, its key; the cart and the record of orders in localStorage | open, confirmOrder, runPayment, close, reload, a negotiated purchase | orders.create, create-transaction and confirmPayment, through the network | handlers of an earlier opening; requests whose fate is unknown | nothing bought twice, nothing lost, nothing shown as paid that is not |
| rest of the frontend, dashboard, search, mail, guards, crypto | none the API relies on | queries, I/O | - | - | - |

The hazards of this code, each at its line and with the property that watches it (or
why none does), are listed in `PROJECT.json`.

## 2. The modules

| module | question | abstract specification |
|---|---|---|
| `OrderPayment` | the money of an order, between its customer, seller, admin and PayDunya | - |
| `OrderPlacement` | placing and cancelling: stock and points, row by row, with retries and deadlocks | `PlacementLedger` (refined) |
| `ShipmentPreparation` | a shipment prepared while its order is being paid | - |
| `DeliverySettlement` | from the proof of delivery to the release of the money | - |
| `DeliveryMissions` | dispatches, couriers, agencies, hand-overs, the delivery chat | `MissionClaims` (refined) |
| `PaymentWebhook` | PayDunya's notifications, the return URL, checkout keys | `PaidOrders` (refined) |
| `SellerPlan` | a seller's shops, plan and subscriptions | - |
| `AccountSession` | codes, passwords, refresh tokens of one account | - |
| `StoreCheckout` | a customer's browser, the network, and the keys of the server | - |

Each `M` has an instance `MC_M` for TLC. The theorems are in `M_proofs`, but those about
ShipmentPreparation and SellerPlan, which the seller drives, share `Seller_proofs`, and those about
AccountSession and StoreCheckout, which the customer drives, `Customer_proofs`. `ShipmentPreparation`
and `StoreCheckout` therefore name their formulas apart from those of the others: `PrepInit`,
`PrepNext`, `PrepSpec`, `PrepTypeOK`, `PrepInv`; `StoreInit`, `StoreNext`, `StoreSpec`,
`StoreTypeOK`, `StoreInv`. `Sums` holds the lemmas about sums over finite sets on which the proofs
about points and stock rest. The
modules were written in the order of the table: money first, then stock, parcels, the provider,
plans, sessions, and the client on top of them. They meet in
the rows they share, and each models what the others do to its rows: OrderPayment's
payments and cancellations appear in ShipmentPreparation, which says how the escrow
allocation they rely on comes to be, and in DeliverySettlement, which starts where
ShipmentPreparation ends; PaymentWebhook drives the settlement whose money is in
OrderPayment; the plan of SellerPlan is OrderPayment's commission rate. StoreCheckout puts a
browser before the calls of OrderPlacement, PaymentWebhook and OrderPayment, each of which it
keeps short, for what it adds is what the browser makes of their answers.

All are written in one manner, to be proved about as well as checked: constants with named
assumptions, one action for each operation, invariants as conjunctions of named parts, no
recursion. A handler that reads and later writes is two or more steps, with what it read kept in
between, so that anything may commit there; a transaction is one step where its statements decide
on nothing that others can change, and several where they do. A request may die between steps
(`Fail`, or an action named after it). Variables marked *history* are read by no guard of the
code: they count what happened, or note that two requests overlapped. That note is what many
properties turn on: the code promises something and keeps it *except* in a race, and the property
says precisely which race. The exceptions are real: without them the property fails.

## 3. OrderPayment

`OrderPayment.tla` models one boutique's orders after they are placed.

**Requests.** A member of `Req` is one HTTP request. `Read(r)` is what a handler does
before its transaction: it reads the rows, checks them and keeps what it saw in `seen`
and `heldSeen`. One of the commit actions then runs the transaction on what was *seen*
and on what the rows have *become*. A request whose check fails changes nothing and is
simply not admitted. A request runs once: the number of requests is the bound on what
can happen.

| module | code |
|---|---|
| `Admits`, `Read` | the reads and early returns at the top of each handler |
| `PayIfPending`, `ConfirmPayment` | `orders.service.ts` confirmPayment: `updateMany` from PENDING, credit if a row changed |
| `UpdateStatus` | updateStatus (seller, and admin through setOrderStatus): PAID as above, any other target written by id |
| `SettlePaidOrder` | `paydunya.service.ts` settlePaidOrderViaPayDunya, for the IPN and for the return URL: `updateMany` where the status is not PAID |
| `CreditSeller` | creditSellerForPaidOrder and its copy in paydunya: commission, balance, allocation, shipment, cashback, referral |
| `CancelByCustomer` | conditional transition; debit, allocation and points decided on the row read before; restock |
| `CancelOrder` | `admin.service.ts` cancelOrder: unconditional write, gross total taken back |
| `CreateRequest`, `VendorReply`, `AdminDecide` | `refunds.service.ts` |
| `Read`, `CountHeld`, `RequestWithdrawal` | `boutiques.service.ts` requestWithdrawal: the balance it reads, then the held sum and the check, then the conditional debit |
| `CreateCheckout`, `PayInvoice`, `ActivatePlan` | the checkout invoice, the customer paying it (external), the owner's plan |

**Abstractions.** Amounts are integers in hundredths of a franc. `toFixed(2)` rounds to
the nearest hundredth, and a tie either way. The lines of an order are one unit that
leaves and returns to stock (`restocked` counts how often). Variables from `credits`
on are history: they count what the code does and are read by no guard. `WHATSAPP_CONFIRMED`
is in the enumeration but no code sets it. A shipment exists from the start or not at
all, with the allocation createOrGetShipmentForOrder quotes; the delivery statuses an
allocation reaches later are DeliverySettlement's. The boutique stays ACTIVE. Ownership
checks, mails, notifications and audit logs are left out. Transactions are atomic, except
requestWithdrawal's, whose two reads and debit are three steps, because READ COMMITTED
lets others commit in between and the code's comment claims that it does not matter. A payment's
transaction reads the allocation before it writes it, too; DeliverySettlement, which has the
handlers that could move the allocation in between, splits it. `since` is history: what has become of
the held money since a withdrawal's first read.

**`bypassed`.** Two writes ignore the order's current status: PayDunya's settlement of an order
that is not PENDING, and the admin's cancellation. Several properties hold of an order unless one
of these has happened to it, and fail after it; section 6 says how. `bypassed` marks exactly these
two.

## 4. OrderPlacement

`OrderPlacement.tla` models how orders take stock and points. Here a transaction is not one
step, because its statements lock rows one after the other: `create` a customer's points,
then for each line the product and the variant; `update` the variants, then their product.
`db` is what is committed, `dirty` what the holder of a row's lock has written, `holder` the
lock. A second writer waits, then sees the committed value, as READ COMMITTED does. A
conditional `updateMany` reads and writes in one step, under the lock. Inserting an order's
lines locks the product and variant they point to against deletion only (`KeyShared`:
foreign keys take KEY SHARE, a stock update NO KEY UPDATE).

A member of `Placing` is one POST and names the order it would create; a retry is another
member whose cart has the same key. `Cancelling`, `Updating` and `Removing` are the other
calls. Each call runs once; `pc` says where it is.

| action | code |
|---|---|
| `LookUp`, `SaveRecord`, `Expire` | getRecord before anything else; saveRecord after the answer, not awaited, failures swallowed; a record an hour old counts for nothing |
| `CheckStock` | create's reads of products and variants and its check of each line, no lock |
| `Insert`, `TakePoints`, `TakeProduct`, `TakeVariant`, `CommitOrder` | its transaction, one statement each |
| `Pay` | the change of status of a payment: confirmPayment's of a PENDING order, and PayDunya's of a CANCELLED one too (the rest is OrderPayment's) |
| `CancelRead` | cancelByCustomer's read and checks |
| `CancelStatus` to `CancelCommit` | its transaction: conditional status, lines as they are now, points if the order was *read* as paid, products and variants |
| `UpdateStart`, `DeleteVariants`, `UpdateProduct`, `UpdateCommit` | `products.service.ts` update |
| `Remove` | remove: one statement and its cascades |
| `Abandon` | a transaction that PostgreSQL picks to end a deadlock, that Prisma closes after 5 s, or whose server stops |

**Abstractions.** Prices, texts and visibility are left out (points are capped by the price
before the cart is given). create's unlocked checks happen at one step. A cancellation's
writes to the boutique and the allocation are OrderPayment's and are skipped here. The admin's
cancellation is in OrderPayment only. New variants are there when the update commits, with
the stock `Opening` gives them. An update that changes the name also changes the slug, which
is part of a unique index, so that PostgreSQL locks the product more strongly; the model does
not wait there and so allows more. `lost`, `overlap`, `returned` (how often a cancellation gave
a row back) and `revived` (how often an order was paid when it was cancelled) are history. The
`orderItem.findMany` of a cancellation asks for no order; the model takes the one of insertion, and the
property about deadlocks allows any.

**`PlacementLedger`** is the abstract specification: placing takes everything an order needs
or nothing, at one instant and only of what exists; cancelling gives back what still exists;
an edit touches one product. It knows neither transactions nor locks nor rollbacks.
`ImplementsLedger` maps its `stock` to `db` and what an order takes to the sum of its lines, so
that committing is the only step that shows.

## 5. The other modules

### ShipmentPreparation

`createOrGetShipmentForOrder` looks for the order's shipment (`StartPreparation`), reads the
order and quotes (`ReadOrder`), and in a transaction writes the shipment, looks for the
seller's allocation (`FindAllocation`) and creates it or attaches it (`CommitPreparation`).
Payments (`StartPayment`, `FindEscrow`, `FindShipment`, `CommitPayment`) look for the allocation and
the shipment from inside theirs. `Shipment.orderId` and the allocation's order are not unique in
the schema and READ COMMITTED shows each statement what is committed, so every query
is a step. A payment locks the order's row with its first update, so that two payments never
overlap; a preparation locks nothing. Statuses after READY_FOR_DISPATCH are not looked at.
Each request, a member of `Call`, is made once and its rows bear its name; `met` remembers who
overlapped whom, and `payers` which requests were payments that committed.

### DeliverySettlement

One shipment, the seller's allocation and those of the carriers.

| action | code (`delivery.service.ts` unless said) |
|---|---|
| `Start` | the reads and checks at the top of a handler; `snap` is what it has read |
| `RejectCode`, `LockEnds` | a wrong code: the counter written is the one read plus one; 15 minutes pass |
| `LoadDelivery`, `VerifyDelivery` | finalizeVerifiedDelivery: reads the allocations in its transaction, without a lock, and moves those it has seen not on hold; code consumed, carriers credited |
| `GoOnToAccept` | the link's `acceptProductConformity` |
| `AcceptConformity`, `WindowEnds`, `ReleaseAfterWindow` | acceptance; the 24 h window; the sweep, which writes by id what it has read |
| `ApprovePayout`, `OpenDispute`, `ResolveDispute` | the admin's payout, disputes and their resolution |
| `RecordHandover`, `EngageCarrier` | hand-overs and dispatch or claim, which write the shipment's status whatever it is |
| `LoadPayment`, `ConfirmPayment` | a payment's transaction (`orders.service.ts` creditSellerForPaidOrder and its copy in `paydunya.service.ts`): it takes the order's and the shop's row, reads the seller's allocation without a lock, and later writes back the status it read; PayDunya's does so for any order that is not PAID |
| `CancelByCustomer`, `CreateRequest`, `DecideRefund` | what cancellation and refunds do to the allocations |

`OPEN` stands for the statuses before the delivery is verified. openDispute, resolveDisputeByAdmin
and recordHandoverEvidence check nothing before their transaction and are one step. While a payment
is between its read and its write (`PaymentUnderWay`) it holds the rows of the order and of the
shop, so that whoever writes one of them waits: verification, a pickup, a debit, a cancellation,
another payment. A dispute, a refund request, an acceptance, the sweep and a payout write the
allocation only, and do not wait. Amounts are
left out: credits and debits are counted. `twice` holds the calls two requests have served at the
same time.

### DeliveryMissions

The missions of one shipment, the profiles and memberships of couriers, and the chat
between courier and customer. `Start` is what `dispatchShipment`, `acceptPublicMission`,
`assignMissionByAgency`, `attachCourierToAgency`, `detachCourierFromAgency`,
`finalizeVerifiedDelivery` and `sendShipmentChatMessage` check first; `Dispatch`, `AcceptPublic`,
`AssignByAgency`, `Attach`, `Detach`, `VerifyDelivery` and `SendMessage` are their writes, with
`CheckMissions` and `CheckShipment` where there is a second check in between. `RecordHandover`,
`RecordPassage` and `VerifyCourier` (the admin's) are one step. The conditional `updateMany` of a
claim is `PublicClaimable` or `AgencyClaimable`. The agencies' own verification and the candidates
of a dispatch are left out. `doubled`, `revived`, `raced`, `torn`, `parted` and `overtaken` note the
races. `MissionClaims` is what a customer sees: a mission is claimed by one courier, once, the
chat opens with the claim and closes with the delivery.

### PaymentWebhook

`wire` holds the notifications PayDunya sends until it has a 200; a notification can be received
any number of times, by several requests. `Receive` is the look-up of the record and the branch on
the event, `ReadOrder` and `Pay` the settlement, `SaveRecord` or `LoseRecord` the record under the
token, `Answer` the 200. `Confirm` is the return URL, which asks PayDunya and keeps no record.
`StartCheckout`, `CreateInvoice`, `InvoiceRefused`, `KeepInvoice` are `createCheckoutTransaction`
with its key. `Fail` is an error or a stop of the server between any two of them; `ExpireReply`
and `ExpireKey` let a day pass; `MoveOrder` is what else changes the order. `MaxMoves` and
`MaxFaults` bound how often. `ONWARD` stands for SHIPPING and DELIVERED. `PaidOrders` is the
sellers' view: an order becomes PAID by a settlement somebody has paid for, or because its seller
says so.

### SellerPlan

One seller: `StartCreate`, `InsertShop` (`boutiques.service.ts` create: count, then insert),
`Subscribe`, `PayBill`, `StartSettle` and `StartDirect` (subscribePlan, PayDunya's notification,
the direct payment), `Activate` (the transaction both end in, on the shops read before it),
`StartEdit`, `Edit` (the admin's `updateSubscription`). pro counts for starter where shops are
limited. `BusinessShops` stands for the 3 of the code.

### AccountSession

One account: `StartIssue`, `CreateCode` (issueOtp invalidates the older codes, then creates one),
`StartCode`, `WrongCode`, `ConsumeCode` (a code is checked, its attempts counted, then marked used),
`ResetPassword`, `Register`, `StartChange`, `ChangePassword`, `StartLogin`, `StartRefresh`,
`SignTokens` (the session's hash is written after the tokens are signed), `Logout`,
`SetUserStatus`. Tokens are numbers; those signed in the same second for the same account are
the same, for they carry no identifier. `MaxTries` is OTP_MAX_ATTEMPTS.

### StoreCheckout

One browser, whose drawer is opened, closed and opened again (`key` counts the openings), up
to two requests at a time, and as much of the server as they meet.

| action | code |
|---|---|
| `OpenCart`, `Opened` | the effect of an opening in `CartDrawer.tsx`: a new key, first step, buttons enabled |
| `CloseCart`, `CloseAndReset` | closing, which clears the timers but aborts no request |
| `GoCheckout`, `BackToCart`, `BackToCheckout`, `Add`, `Remove`, `BuyNow` | the steps, the cart (`CartProvider.tsx`), and a negotiated offer, which replaces the cart when its product has loaded |
| `ConfirmOrder`, `SendOrder`, `ReceiveOrder` | confirmOrder: lines taken, profile saved, key read and order sent, then placeCustomerOrder's record and `clear()` |
| `CreateOrder`, `RepeatOrder`, `RefuseOrder`, `SaveRecord`, `LoseRecord` | `orders.service.ts` create as its key sees it, and the record under the key |
| `RunPayment`, `ReceiveInvoice`, `GoToPayDunya` | runPayment: the invoice is asked for with the key of the drawer |
| `CreateInvoice`, `RepeatInvoice`, `RefuseInvoice` | `paydunya.service.ts` createCheckoutTransaction |
| `FireTimer`, `ReadPay`, `CommitPay`, `ReceivePay` | the simulated payment: the last timer, confirmPayment, payCustomerOrder |
| `NewRequest`, `FailFlight` | `http.ts` apiFetch: a request; an answer that is an error or none, of a request the server has served, will serve, or never gets |
| `Reload`, `LeavePage` | the page goes, and what is in localStorage stays |
| `Elsewhere` | a webhook, a seller or a cancellation moves the order |

`ReceiveOrder`, `ReceiveInvoice` and `ReceivePay` write into the drawer as it is when the answer
comes, whichever opening that is. `ConfirmOrder` passes through the saving of the profile, which
may be over at once: the code skips it when the box is not ticked. What an answer is not (an order
where an invoice is expected, or the reverse) is followed into the client: an invoice has no
items, its conversion throws, and that is taken for a shop without network.

**Abstractions.** A line of the cart is an item put in once; quantities, prices, the form and its
checks, the delivery pack, and the messages are left out. `mode: sandbox_mock`, which exists
while PayDunya is not configured, is left out, and so are shops without an id, whose orders are
all recorded in the browser. The parcel's creation, sent along with the order and not waited for,
is ShipmentPreparation's. Statuses after PAID do not matter here. `given`, `again`, `offline`,
`mistaken` are history and are the exceptions of the properties; `wanted` and `paidEver`
are history too. The record of a key is an upsert: what it overwrites can be ordered again
(`SaveRecord`, `again`). `asked` and `faults` only count against the bounds.

## 6. What is checked

| run | instance | shows |
|---|---|---|
| `orders` | one order with points, an account and a referrer: every call of every kind, with the payment of a second order and withdrawals; four requests, requests symmetric; the plan goes from starter to business | `CreditPerPaidEntry`, `CancelDebitCovered`, `OnceUnlessBypassed`, `EscrowKept`, `PointsReconcile`, `HeldMoneyStays` |
| `placement_retry` | three POSTs (one a retry with the same key, one by another call of the same account whose lines come in the other order), two cancellations of the first; payments, of cancelled orders too | `NeverNegative`, `StockMatchesOrders`, `KeysHonoured` |
| `placement_edit` | two orders of one account (one lists its line twice) and a cancellation, an update that replaces the variants, one that sets the stock, a removal | `ImplementsLedger`, `OnlyCrossingCallsStick` |
| `settlement` | one carrier, one try for a code, every call: code, link, acceptance, conformity, sweep, hand-overs, payout, refund, payments, cancellation, one dispute; two requests at a time, three in all | `SellerReleaseEarned`, `CarriersPaid`, `PayoutPerRelease`, `CodeHolds`, `IInv`, `HoldRespected` |
| `missions` | two missions, two couriers, two agencies, two requests at a time, five in all, all symmetric | `OneActiveMission`, `RosterKept`, `MessagesInMission`, `ClaimedOnce` |
| `webhook` | one order, two invoices, one key, two requests at a time, one other move of the order, one fault | `RecordsHold`, `SettledOnce` |
| `webhook_live` | one order, one invoice, one key, two requests at a time, one move, two faults, under fairness | `PaidInvoiceSettles` |
| `plan` | three shops, one invoice, a limit of two shops for business, two requests at a time, four in all | `ShopLimit`, `PlansAgree`, `IInv`, `CancelledStays` |
| `session` | two tries for a code, two codes, two requests at a time, seven in all | `CodesHold`, `RefreshOnce`, `SessionsRevoked` |
| `preparation` | four requests, each a preparation or a payment | `PreparedOnce`, `ReadyWhenPaid`, `EscrowReached` |
| `checkout` | two items, two openings, two requests at a time, two orders and one without network, three confirmations, one fault | `StoreInv`, `BoughtOnce`, `CartServed`, `ShownPaid`, `NotStuck` |
| `v_key_crosses_paths` | the same | ends in a counterexample to `AnswersOfPath` |

Some of these are conjunctions of named parts, which the modules state and comment one by one and
the theorems prove one by one:

| property | parts |
|---|---|
| `EscrowKept` (OrderPayment) | `EscrowMatchesBill`, `PaidMoneyHeld`, `ApprovedRefundClosesEscrow` |
| `KeysHonoured` (OrderPlacement) | `AnswersArePlaced`, `DuplicatesOverlap` |
| `CarriersPaid`, `CodeHolds` (DeliverySettlement) | `CarrierPaidForDelivery`, `NoCarrierForgotten`; `CodeServesOnce`, `TriesBounded` |
| `RosterKept` (DeliveryMissions) | `OneAgency`, `MembersLeavePool`, `AgencyMissionByMember` |
| `RecordsHold` (PaymentWebhook) | `RecordTruthful`, `NotificationKept`, `InvoicePerKey` |
| `CodesHold`, `SessionsRevoked` (AccountSession) | `OneLiveCode`, `CodeServesOnce`, `TriesBounded`; `SessionOfPassword`, `BlockedOut` |
| `PreparedOnce`, `EscrowReached` (ShipmentPreparation) | `OneShipment`, `OneAllocation`; `EscrowIsBilled`, `EscrowFollowsShipment` |

`IInv` is the inductive invariant of a module. It contains the type invariant `TypeOK`, and
`RefundTakesMoney` (DeliverySettlement), `RowMatchesShop` and `PlanEarned` (SellerPlan) as
conjuncts, and implies `AllocatedOnce` (DeliveryMissions): the theorems of section 7 derive them.
It was an invariant of a run of every module while the proofs were sought; now that they are there,
only the runs whose `IInv` has a part that is a property in itself still evaluate it. `StoreInv` is
that of StoreCheckout, with `StoreTypeOK`; it stays an invariant of its run, because it speaks of
every answer still to come, which no other property does.

**Bounds.** A race needs two requests, and what a race leaves behind needs a third to be
visible; slots for two requests that are used again give both. In `orders` and `preparation`
each request is made once and four are enough for a payment, a cancellation and a refund, or
for two preparations and two payments, to be open at once. `MaxCalls` is what it takes to verify,
hold, release and pay out, or to claim, deliver, attach and detach, with one more call to
interfere. In `settlement` it is smaller, for all calls are there at once; its properties are
proved for every number of calls. In `checkout` two openings are an answer that comes to the wrong
one, three confirmations are an order, a second one and a payment, and one fault is one lost
answer; two orders are what it takes to buy something twice. `Seen`, its VIEW, leaves out the
step and the order a closed drawer last showed: no action reads them before an opening resets
them. Amounts in `orders` are chosen so that the commission is whole at one rate and points
matter; the opening balance covers one withdrawal, so that a withdrawal and a refund compete. In
OrderPlacement three orders want more of the variant's two items and of the four points than
there are. `StockMatchesOrders` is checked where the seller edits nothing, for an absolute stock
makes it meaningless; where he does, `ImplementsLedger` says what is still true. Instances whose
requests are used up stop, hence `CHECK_DEADLOCK FALSE` where it is said. Every property has
been seen to fail when one definition is changed to a plausible error (`mutants`, in
`PROJECT.json`).

**Deadlocks.** PostgreSQL ends a deadlock by failing one of its transactions, and Prisma any
transaction after five seconds (`Abandon`), so that calls are answered whatever order they lock
rows in. `OnlyCrossingCallsStick` therefore asks when such a circle can form at all, from the
locks the model's transactions hold and the statement each is at: only where two orders or cancellations
list the same rows in crossing orders, or an edit that replaces variants takes part. Points, an
order's own row, a line listed twice, and an edit that sends no variants never take part in one on
their own account, and nobody waits for a call that has ended. Both exceptions are real:
without either, TLC finds the circle.

**Fairness.** One property needs it. `PaidInvoiceSettles` (`webhook_live`): a request under way
goes on (weak fairness of `Work(r)`), and PayDunya repeats the notification of a payment until it
is answered with 200 (strong fairness of `Receive`: a slot is not always free). The latter is an
assumption about PayDunya; the code relies on it. The property excepts the payments whose
notification is `masked`, see below; it does not say that the money of an order cancelled in the
meantime goes anywhere.

### What the comments promise and the interleavings break

`v_key_crosses_paths` is the trace of one. "Vérifie si une clé d'idempotence a déjà été enregistrée
pour ce chemin" (idempotency.service.ts:16), but the path is only logged: the record is found by
its key. The drawer sends one key to create the order and, once that is recorded, to ask for its
invoice (CartDrawer 267 and 343), which is therefore answered by the order, has no checkoutUrl,
and was never made. With the method PayDunya the drawer ends in "Paiement confirmé" and the order
stays PENDING; with the others it goes on to the simulation, which marks the order PAID although
nothing was charged. The others below are where the exceptions of the properties come from, or are
said by the shape of the actions; each can be seen by dropping the exception.

* Checkout. Closing the drawer while an order is out and opening it again draws a new key and
  enables the button: the same lines are bought twice (`again`). `clear()` runs after the answer
  and takes what has come into the cart meanwhile, and a negotiated offer empties the cart without
  asking (`given`). An order or a payment whose answer is lost is recorded as made without network,
  even if the server has served it (`offline`). confirmPayment answers an order that was cancelled
  while it was being paid with 200, and the drawer is titled "Paiement confirmé" (`ShownPaid`). A
  negotiated offer that loads while the drawer is open fills a cart that another order then clears.
* Placement. "Un retry réseau renvoie la même commande" (orders 241), but the retry can look its
  key up before the first call has recorded its answer, for the record is not awaited (orders 243):
  `DuplicatesOverlap` says that two orders of one key were in flight together or the record was lost.
* Orders. A status checked and then written by id can overwrite a cancellation (orders 374,
  against 321). A settlement credits an order that was PAID and has been shipped again, for its
  condition is *not PAID* (paydunya 633, against 631): `bypassed`. It pays a cancelled order too,
  which can then be cancelled once more, and its stock and points come back a second time (orders
  611-616 and 670-682): `revived`, in `StockMatchesOrders`. The admin's cancellation is not
  conditional and restocks, and debits the gross amount, whatever has happened since its check
  (admin 837, against orders 609): `bypassed`. A payment that commits between a cancellation's
  read and its transaction leaves a cancelled order with its credit (orders 637, against 633). A
  refund asked before a cancellation and approved after it debits the seller again (refunds 134).
  A withdrawal's two reads are guarded twice, by its check against the balance it read and by the
  conditional debit; more held money alone, or less free money alone, is caught, but a payment and
  another debit, both between its reads and its debit, let held money out (boutiques 139, against
  134): `since`. An invoice paid after a cancellation makes the order PAID with its allocation
  still CANCELLED (paydunya 701).
* Preparation. Two preparations make two shipments and two allocations (`OneShipment`,
  `OneAllocation`); a payment that commits during a preparation leaves the shipment waiting for
  payment (`ReadyWhenPaid`), or an allocation without shipment, which no verification will
  find, for it looks allocations up through the shipment (`EscrowFollowsShipment`).
* Settlement. The sweep's last write is by id: it releases what was put on hold since its read
  (delivery 2478, against 2429-2430). A payment writes back the status it read, also over a hold
  or a payout (orders 1209-1228, paydunya 687-706), and PayDunya's settlement pays orders that are
  on their way, delivered or cancelled (paydunya 631-633): what it had read before the hold is the
  exception of `HoldRespected`, and the release it repeats counts in `PayoutPerRelease`. The link
  can be used again, which credits the carriers again: `paid` is bounded by `verified`, not by
  one. deliveryCodeExpiresAt is never checked. Two wrong codes at once count for one, and a stale
  count clears a lock (`twice`). A dispute resolved for the buyer debits the seller even when it
  was about the delivery only, and an approved refund debits him once more. The carriers keep
  their credit when their allocation is refunded.
* Missions. Two dispatches at once make two active missions; a hand-over revives a completed
  one (`revived`); offered missions can be claimed after the delivery; nothing cancels a mission,
  although dispatchShipment's error says to. A courier attached by two agencies at once
  is a member of both (`torn`).
* Webhook. A pending or cancelled notification that was recorded under the token answers the
  completed one for a day (`masked`). Keys are global to all customers. Two checkouts with one
  key at once make two invoices (`loose`).
* Plans. Two openings at once pass the limit (`crowded`). Activation misses a shop opened after its
  read (`missed`, `apart`). Each confirmation of a payment starts its period again, and an older
  token sets an older plan. The admin's stale write undoes a cancellation, although no
  transition leaves CANCELLED (`overtaken`). A direct payment activates a plan that costs
  something without an invoice.
* Sessions. Two exchanges of a refresh token both succeed, and one of the answers is dead
  (`forked`). A session signed on an account read before it was blocked or its password changed
  survives (`stray`). Two issues at once leave two live codes (`crossed`). A reset that dies after
  marking the code used leaves the old password and no code.

## 7. What is proved

TLAPS proves, for every value of the constants under the assumptions named in each module,
that its specification keeps its inductive invariant, for each of the nine modules and,
from it, type correctness and every property of the table in section 6 but
`PaidInvoiceSettles` and `OnlyCrossingCallsStick`. `PROJECT.json` names the theorems. The
properties are not inductive: what a request writes depends on rows read any number of steps ago.
Every invariant therefore says what is *still* true of what each running request has read, however
stale, or which race has been noted if it is not. The proofs have one lemma for each action and,
under it, one step for each part of the invariant the action can disturb.

**Assumptions.** The constants have their types, and sentinel values are none of the real ones.
Orders, shops and POSTs are finitely many (`OrderAssumption`, `PlanAssumption`,
`FiniteAssumption`), or there would be no sum or count of them. `VariantAssumption` of OrderPlacement:
a variant on a line is one of the line's product, which `create` checks (orders 93-95); the variants
an edit inserts are new rows, and of the product it edits (products 174-189). `StockReconciled` has
one hypothesis more, that no edit writes a stock: one that does sets the stock to a number, and
the property, which reconciles the stock with the orders, means nothing then. Edits that replace
variants and removals of products are not excluded.

* **OrderPayment.** An order never returns to PENDING, a request for refund never
  disappears, a row seen PAID has a bill, and as long as the order is not bypassed that bill is
  the one still on the row (`ReqInv`); a PENDING order has not been credited, fee and net of a bill
  sum to the gross, so that what a cancellation computes is what was credited (`OrderInv`).
  `PointsReconciled` needs no more than the types: every step credits or returns the points of one
  order at most (`EveryStepPoints`), and one term of one sum, or one of each for its buyer and
  the referrer, grows by just that. `HeldMoneySafe` needs, of each withdrawal
  between its reads and its debit, two inequalities (`WithdrawalInv`): unless more was held since, no
  order has more held than was read, so that the conditional debit leaves enough; unless less was
  free since, the balance still covers the amount and all that is held now, as it did when it was
  checked. One of the two is enough; a race that breaks both is the exception.
* **OrderPlacement.** What a holder has written is never negative either, and the
  loop is at one of the order's lines. `DuplicatesOverlap` speaks of committed orders; it is
  preserved because two calls know of each other from the moment the second begins (`KeyInv`),
  and a call that begins after a commit finds the record, finds the call still about to save it
  and notes that, or the record was lost. `PlaceInv` ties the committed order to the position of
  its call, `CancelInv` keeps a cancellation's order committed.
  `TxInv` is what a transaction in the middle of its statements has done (`Transactions`): in each
  row it has locked, `dirty` differs from `db` by exactly what the lines behind it ask for
  (`Moved`), a sum over those lines, so that the same row on two lines counts twice; an order that is
  being cancelled is locked and not cancelled yet; the rows of an order being placed cannot be
  deleted under it; and what an edit is to insert is in no order. What a cancellation gives back counts
  when it commits, with the order's row locked and not cancelled (`ReturnsEarned`). At the commit, all lines are
  behind: `StockReconciled` follows, and `LedgerImplemented`, where every other step stutters. What is
  left to show of the sums is that a line more adds what it asks for, and a commit the
  demand of one order.
* **Sums.** `SumFunctionOnSet` of the module Functions is a recursive function over the subsets of
  its set, chosen element by chosen element. Its value does not depend on the set it is defined for
  (`AddsAgree`), hence the sum is that of one element and of the rest (`SumStep`), whichever element
  it is. The induction over finite subsets is by the set of the subsets for which
  the fact holds (`SubsetInduction`), from the well-foundedness of strict inclusion.
* **ShipmentPreparation.** `MetInv`: overlap is symmetric and whoever runs now has met whoever
  else does. `RowInv`: whoever wrote an allocation or a shipment is past its commit. `CallInv`: a
  request that has found no shipment, or no allocation, has met everyone who has written one
  since. Payments never overlap, because the order's row is locked; so whoever meets the
  creator of a second allocation is, or meets, a preparation.
* **DeliverySettlement.** `MoneyInv`: what the allocations say is earned. `PayoutInv`: an
  approval under way counts as a payout already, so that a second one is admitted only by a
  new release or by an overlap. `CodeInv` and `TriesInv` do the same for verifications and
  guesses under way.
* **DeliveryMissions.** `ReqInv` says what each request's checks still mean; `PairInv` which two
  requests cannot both be under way unless the race was noted; `MissionInv` what a mission's
  row, allocation and chat say of each other. `Claimed` is the refinement, step by step.
* **PaymentWebhook.** `RequestInv`: a request past the settlement has an order that has been PAID.
  `InvoiceInv`: a notification on the wire says *completed* only of an invoice somebody paid.
  `KeyInv`: whoever made an invoice under a key has recorded it, or is about to, or the key is
  loose. `Settlements` is the refinement of PaidOrders.
* **SellerPlan, AccountSession.** `RequestInv`: the shops, rows, codes and tokens a request has read
  are those there now, or it has been overtaken. In AccountSession a token
  that is being exchanged has not been exchanged and nobody else is exchanging it (`TokenInv`), and
  the same goes for a code being tried (`CodeInv`), unless the race has been noted (`forked`,
  `shared`).

* **StoreCheckout.** `FlightInv`: what each request waits for, and what its answer may say.
  `KeysInv`: nothing bears a key that was not drawn yet. `OnceInv`, for `BoughtOnce`: whatever two
  orders, an order and a request that can still create one, or two such requests have in common is in
  `again`, or one key will keep the second from being created, its record being there or about
  to be. `ServedInv`, for `CartServed`: an answer empties the whole cart, so every answer
  that may still come must settle everything that was wanted: the items sent, the content of the
  order a key would repeat, and what is recorded or taken out already cover it. `ScreenInv`, for
  `NotStuck`: the waiting screen belongs to a request of the simulated payment, whose answer
  replaces it; a redirection to PayDunya does not leave it behind.

Only model-checked: `PaidInvoiceSettles`, which is liveness under fairness, and
`OnlyCrossingCallsStick`, which speaks of all sets of waiting calls.
`AnswersOfPath` is false.

## 8. Not modelled, and why

Queries (dashboard, search, catalogue, admin analytics), single-row edits behind a guard
(profiles, categories, brands, team, newsletter, notifications, registration and verification of
partners, moderation, settings), mails and their templates, the cipher, request filters, webhook
signatures, geography and quotes: they keep no state that the flows above depend on, or their one
write has nothing to race with. Messages between customers and shops are append-only. Social
logins make or link an account and then sign a session as login does. The rest of the frontend,
most of the repository's lines, is pages, dashboards, forms, translations and styles: it renders
what it is answered, and its requests are the calls of the modules. This is why the modules cover a
small share of the repository's lines although they cover the handlers that move money, stock,
parcels and sessions, and the client that decides whether an order was made.
