---------------------------- MODULE OrderPayment ----------------------------
(***************************************************************************)
(* The money side of an order: how one boutique's orders become PAID, are  *)
(* cancelled or refunded, and what each of these does to the seller's      *)
(* balance, the escrow allocation, the stock and the loyalty points.       *)
(*                                                                         *)
(* Every handler of the backend has the same two phases.  It first reads   *)
(* rows and checks them, with no lock held; then, after an await, it runs  *)
(* one database transaction or one write.  Any number of other handlers    *)
(* may commit in between, so what the second phase uses of the first is    *)
(* stale.  A member of Req is one HTTP request: Read(r) is its first       *)
(* phase, and one of the commit actions its second.  A request whose check *)
(* fails answers an error and changes nothing: it is simply not admitted.  *)
(*                                                                         *)
(* A transaction is one atomic step, except that of requestWithdrawal:     *)
(* READ COMMITTED, PostgreSQL's default and the one used here, keeps       *)
(* nothing it has read from changing before its conditional update.        *)
(*                                                                         *)
(* Money is counted in hundredths of a franc (the columns are DECIMAL(.,2) *)
(* and commissions are rounded to 2 decimals), points in francs.           *)
(***************************************************************************)
EXTENDS Integers, FiniteSets, Functions

CONSTANTS
    Order,           \* the orders of the boutique
    Req,             \* HTTP requests; each runs one call of Calls, once
    Calls,           \* the API calls that may be made, a subset of AllCalls
    User,            \* accounts
    NoUser,          \* orders placed without an account
    Buyer,           \* Order -> User or NoUser: order.userId
    Referrer,        \* User -> User or NoUser: user.referredById
    Total,           \* Order -> order.total, what the buyer pays
    PointsUsed,      \* Order -> order.pointsUsed, in francs
    QuotedNet,       \* Order -> net of the allocation created with a shipment
    Plans,           \* the plan slugs the owner may buy
    OpeningBalance,  \* the boutique's balance before these orders
    NoBill,          \* commission columns still null
    NoCall           \* a request that is not running

Status == {"PENDING", "PAID", "SHIPPING", "DELIVERED", "CANCELLED"}
SellerTargets == Status \ {"PENDING"}
AllocStatus == {"NONE", "PENDING_PAYMENT", "AWAITING_DELIVERY_VERIFICATION",
                "ON_HOLD_DISPUTE", "REFUNDED", "CANCELLED"}
RefundStatus == {"NONE", "PENDING", "VENDOR_REPLIED", "APPROVED", "REJECTED"}
ShipmentStatus == {"NONE", "AWAITING_PREPARATION", "READY_FOR_DISPATCH"}
InvoiceStatus == {"none", "pending", "completed"}

\* What may become of the held money between a withdrawal's reads and its debit.
Changes == {"more held", "less free"}

Bill == [fee: Nat, net: Nat]
OrderRow == [status: Status, bill: Bill \cup {NoBill}]

AllCalls ==
         [op: {"confirmPayment", "cancelByCustomer", "cancelOrder",
               "settlePaidOrder", "createRequest", "vendorReply"},
          order: Order]
    \cup [op: {"updateStatus"}, order: Order, target: SellerTargets]
    \cup [op: {"adminDecide"}, order: Order, action: {"APPROVE", "REJECT"}]
    \cup [op: {"requestWithdrawal"}, amount: Nat]

ASSUME CallsAssumption == Calls \subseteq AllCalls
ASSUME OrderAssumption ==
    /\ IsFiniteSet(Order)
    /\ Total \in [Order -> Nat]
    /\ PointsUsed \in [Order -> Nat]
    /\ QuotedNet \in [Order -> Nat]
    /\ Buyer \in [Order -> User \cup {NoUser}]
    /\ Referrer \in [User -> User \cup {NoUser}]
ASSUME ConstantAssumption ==
    /\ NoUser \notin User
    /\ NoBill \notin Bill
    /\ NoCall \notin AllCalls
    /\ OpeningBalance \in Nat
    /\ Plans \subseteq {"starter", "pro", "business", "enterprise"}

VARIABLES
    status,     \* Order.status
    bill,       \* Order.commissionAmount and netAmount
    alloc,      \* the seller's SettlementAllocation of the order
    shipment,   \* Shipment.status, as far as payment moves it
    refund,     \* RefundRequest.status
    balance,    \* Boutique.balance
    withdrawn,  \* sum of the WithdrawalRequest rows
    points,     \* User.pointsBalance, relative to its opening value
    plan,       \* the best plan among the owner's boutiques
    invoice,    \* the PayDunya checkout invoice of the order
    pc,         \* where each request is
    call,       \* what a running request was asked
    seen,       \* the order row its first phase read
    balanceSeen, \* the balance a withdrawal's first phase read ...
    heldSeen,   \* ... and then the held allocations
    since,      \* history: what became of the held money since a withdrawal read
    credits,    \* history: times the seller was credited for the order
    exits,      \* history: times the order left PAID
    credited,   \* history: money credited to the seller for the order
    debited,    \* history: money taken back from the seller by cancellations
    refunded,   \* history: money taken back from the seller by refunds
    cancelDebits, \* history: customer cancellations that took money back
    restocked,  \* history: times the order's lines went back to stock
    returned,   \* history: times the points spent on it were given back
    bypassed    \* history: rewritten whatever its current status was

orderVars == <<status, exits>>
creditVars == <<bill, alloc, shipment, credits, credited>>
debitVars == <<debited, refunded, cancelDebits>>
returnVars == <<restocked, returned>>
otherVars == <<refund, withdrawn, plan, invoice>>
dbVars == <<orderVars, creditVars, balance, points, debitVars, returnVars,
            otherVars, bypassed>>
reqVars == <<pc, call, seen, balanceSeen, heldSeen, since>>
vars == <<dbVars, reqVars>>

-----------------------------------------------------------------------------
(* Amounts *)

Gross(o) == Total[o] + 100 * PointsUsed[o]

\* Commission rate in tenths of a percent: 5.0, 2.0 and 1.5 percent.
Rate(p) == IF p = "enterprise" THEN 15 ELSE IF p = "business" THEN 20 ELSE 50

\* toFixed(2) of gross * rate / 100: the nearest hundredth; which of the two at
\* a tie depends on the binary fraction, so either may come out.
Commission(gross, rate) ==
    LET low == (gross * rate) \div 1000
    IN  {fee \in {low, low + 1} : 1000 * fee - gross * rate \in -500 .. 500}

\* 0.5 percent of the gross amount, in whole points.
PointsEarned(o) == Gross(o) \div 20000

HeldStatus == {"AWAITING_DELIVERY_VERIFICATION", "ON_HOLD_DISPUTE"}
HeldNet == [o \in Order |->
                IF alloc[o].status \in HeldStatus THEN alloc[o].net ELSE 0]

-----------------------------------------------------------------------------
(* Effects shared by several handlers *)

SetStatus(o, s) ==
    /\ status' = [status EXCEPT ![o] = s]
    /\ exits' = [exits EXCEPT ![o] =
                    @ + (IF status[o] = "PAID" /\ s # "PAID" THEN 1 ELSE 0)]

\* Variant: the referrer's bonus is forgotten.
BuyerOnly(o) ==
    points' = [u \in User |->
        points[u] + (IF u = Buyer[o] THEN PointsEarned(o) ELSE 0)]

\* Points go to the order's account, if it has one, and to its referrer.
AwardPoints(o) ==
    points' = [u \in User |->
        points[u] + (IF u = Buyer[o] THEN PointsEarned(o) ELSE 0)
                  + (IF Buyer[o] \in User /\ u = Referrer[Buyer[o]]
                       THEN PointsEarned(o) ELSE 0)]

\* Variant: an allocation waiting for payment goes on waiting.
EscrowOnCreation(a, net) ==
    [status |-> IF a.status = "NONE" THEN "AWAITING_DELIVERY_VERIFICATION"
                                     ELSE a.status,
     net |-> net]

\* The escrow allocation once the seller is credited net: one waiting for payment
\* starts to await the delivery, any other keeps its status.
Escrow(a, net) ==
    [status |-> IF a.status \in {"NONE", "PENDING_PAYMENT"}
                  THEN "AWAITING_DELIVERY_VERIFICATION" ELSE a.status,
     net |-> net]

\* What a transition to PAID does besides the status: the commission of the
\* plan at that time, the net on the balance, the escrow allocation, the
\* shipment waiting for payment, cashback and referral bonus.
CreditSeller(o) ==
    /\ \E fee \in Commission(Gross(o), Rate(plan)) :
         LET net == Gross(o) - fee IN
         /\ bill' = [bill EXCEPT ![o] = [fee |-> fee, net |-> net]]
         /\ balance' = balance + net
         /\ credited' = [credited EXCEPT ![o] = @ + net]
         /\ alloc' = [alloc EXCEPT ![o] = Escrow(@, net)]
    /\ shipment' = [shipment EXCEPT ![o] =
                IF @ = "AWAITING_PREPARATION" THEN "READY_FOR_DISPATCH" ELSE @]
    /\ AwardPoints(o)
    /\ credits' = [credits EXCEPT ![o] = @ + 1]

\* The points spent on an order go back to the account that spent them.
ReturnPoints(o) ==
    IF Buyer[o] \in User /\ PointsUsed[o] > 0
      THEN /\ points' = [points EXCEPT ![Buyer[o]] = @ + PointsUsed[o]]
           /\ returned' = [returned EXCEPT ![o] = @ + 1]
      ELSE UNCHANGED <<points, returned>>

\* A cancellation takes money back from the seller.
Debit(o, amount) ==
    /\ balance' = balance - amount
    /\ debited' = [debited EXCEPT ![o] = @ + amount]

\* An approved refund does.
DebitRefund(o, amount) ==
    /\ balance' = balance - amount
    /\ refunded' = [refunded EXCEPT ![o] = @ + amount]

\* The seller's allocation of the order changes status.
MoveAlloc(o, s) == alloc' = [alloc EXCEPT ![o].status = s]

\* The order's lines go back to stock.
Restock(o) == restocked' = [restocked EXCEPT ![o] = @ + 1]

-----------------------------------------------------------------------------
(* First phase of a request: the row it reads, the checks it makes on it *)

\* validTransitions of updateStatus.  The seller's form always sends the
\* courier's contact that SHIPPING requires.
ValidTransition(from, to) ==
    \/ from = "PENDING" /\ to \in SellerTargets
    \/ from = "PAID" /\ to \in {"SHIPPING", "DELIVERED", "CANCELLED"}
    \/ from = "SHIPPING" /\ to \in {"DELIVERED", "CANCELLED"}

Admits(c) ==
    \/ /\ c.op = "confirmPayment"
       /\ status[c.order] = "PENDING"
    \/ /\ c.op = "updateStatus"
       /\ ValidTransition(status[c.order], c.target)
    \/ /\ c.op \in {"cancelByCustomer", "cancelOrder"}
       /\ status[c.order] \in {"PENDING", "PAID"}
    \/ /\ c.op = "settlePaidOrder"
       /\ invoice[c.order] = "completed"
       /\ status[c.order] # "PAID"
    \/ /\ c.op = "createRequest"
       /\ Buyer[c.order] \in User
       /\ status[c.order] \in {"PAID", "DELIVERED"}
       /\ refund[c.order] = "NONE"
    \/ /\ c.op = "vendorReply"
       /\ refund[c.order] = "PENDING"
    \/ /\ c.op = "adminDecide"
       /\ refund[c.order] \in {"PENDING", "VENDOR_REPLIED"}
    \/ /\ c.op = "requestWithdrawal"
       /\ c.amount >= 50000

\* What a request that is not running remembers.
BlankRow == [status |-> "PENDING", bill |-> NoBill]
NothingHeld == [o \in Order |-> 0]

\* Calls whose second phase still uses the row that the first has read.
UsesRow(c) == c.op \in {"cancelByCustomer", "cancelOrder", "adminDecide"}
RowRead(c) == IF UsesRow(c) THEN [status |-> status[c.order], bill |-> bill[c.order]]
                            ELSE BlankRow

Read(r) ==
    /\ pc[r] = "idle"
    /\ \E c \in Calls :
         /\ Admits(c)
         /\ call' = [call EXCEPT ![r] = c]
         /\ IF c.op = "requestWithdrawal"
              THEN /\ balanceSeen' = [balanceSeen EXCEPT ![r] = balance]
                   /\ pc' = [pc EXCEPT ![r] = "counting"]
                   /\ UNCHANGED seen
              ELSE /\ seen' = [seen EXCEPT ![r] = RowRead(c)]
                   /\ pc' = [pc EXCEPT ![r] = "running"]
                   /\ UNCHANGED balanceSeen
    /\ UNCHANGED <<dbVars, heldSeen, since>>

\* Request r answers; what it had read is gone.
Answer(r) ==
    /\ pc' = [pc EXCEPT ![r] = "done"]
    /\ call' = [call EXCEPT ![r] = NoCall]
    /\ seen' = [seen EXCEPT ![r] = BlankRow]
    /\ balanceSeen' = [balanceSeen EXCEPT ![r] = 0]
    /\ heldSeen' = [heldSeen EXCEPT ![r] = NothingHeld]

\* A withdrawal reads the held allocations after the balance, and goes on if what
\* it makes available suffices.
CountHeld(r) ==
    /\ pc[r] = "counting"
    /\ IF call[r].amount + SumFunction(HeldNet) <= balanceSeen[r]
         THEN /\ heldSeen' = [heldSeen EXCEPT ![r] = HeldNet]
              /\ pc' = [pc EXCEPT ![r] = "running"]
              /\ UNCHANGED <<call, seen, balanceSeen, since>>
         ELSE Answer(r) /\ since' = [since EXCEPT ![r] = {}]
    /\ UNCHANGED dbVars

-----------------------------------------------------------------------------
(* Second phase: one transaction, on what the first phase saw *)

Finish(r, op) ==
    /\ pc[r] = "running"
    /\ call[r].op = op
    /\ Answer(r)

\* For the history: what a commit means to the withdrawals that have read.
Withdrawing(r) == pc[r] \in {"counting", "running"} /\ call[r].op = "requestWithdrawal"
Credited == credits' # credits
Taken == debited' # debited \/ refunded' # refunded \/ withdrawn' # withdrawn
UnpaidHeld == \E o \in Order : alloc[o].status = "PENDING_PAYMENT"
                              /\ alloc'[o].status = "ON_HOLD_DISPUTE"
Notice(r) ==
    since' = [q \in Req |->
        IF q = r \/ ~Withdrawing(q) THEN {}
        ELSE since[q] \cup (IF Credited \/ UnpaidHeld THEN {"more held"} ELSE {})
                      \cup (IF Taken \/ UnpaidHeld THEN {"less free"} ELSE {})]

\* Variant: the number of rows the update changed is not looked at.
CreditAnyway(o) ==
    IF status[o] = "PENDING"
      THEN /\ SetStatus(o, "PAID")
           /\ CreditSeller(o)
           /\ UNCHANGED <<debitVars, returnVars, otherVars, bypassed>>
      ELSE /\ CreditSeller(o)
           /\ UNCHANGED <<orderVars, debitVars, returnVars, otherVars, bypassed>>

\* updateMany({status: PENDING} -> PAID): whoever changes the row credits.
PayIfPending(o) ==
    IF status[o] = "PENDING"
      THEN /\ SetStatus(o, "PAID")
           /\ CreditSeller(o)
           /\ UNCHANGED <<debitVars, returnVars, otherVars, bypassed>>
      ELSE UNCHANGED dbVars

\* The client confirms the payment.
ConfirmPayment(r) ==
    /\ Finish(r, "confirmPayment")
    /\ PayIfPending(call[r].order)
    /\ Notice(r)

\* The seller or the admin sets a status.  PAID is a conditional update that
\* credits; every other target is written whatever the status has become.
UpdateStatus(r) ==
    /\ Finish(r, "updateStatus")
    /\ IF call[r].target = "PAID"
         THEN PayIfPending(call[r].order)
         ELSE /\ SetStatus(call[r].order, call[r].target)
              /\ UNCHANGED <<creditVars, balance, points, debitVars,
                             returnVars, otherVars, bypassed>>
    /\ Notice(r)

\* PayDunya says the invoice is paid (webhook or return URL): the row changes
\* unless it is already PAID.
SettlePaidOrder(r) ==
    /\ Finish(r, "settlePaidOrder")
    /\ LET o == call[r].order IN
         IF status[o] # "PAID"
           THEN /\ SetStatus(o, "PAID")
                /\ CreditSeller(o)
                /\ bypassed' = [bypassed EXCEPT ![o] = @ \/ status[o] # "PENDING"]
                /\ UNCHANGED <<debitVars, returnVars, otherVars>>
           ELSE UNCHANGED dbVars
    /\ Notice(r)

\* Variant: the status is written by id only.
CancelUnchecked(o) == TRUE

\* The conditional update of a customer cancellation.
StillCancellable(o) == status[o] \in {"PENDING", "PAID"}

\* Variant: the commission is not deducted.
WholeGross(o, row) == Gross(o)

\* What a cancellation takes back, from the row read before: gross - commission.
CreditedAmount(o, row) ==
    IF row.bill # NoBill THEN Gross(o) - row.bill.fee ELSE Total[o]

\* The customer cancels.  The status changes only from PENDING or PAID; whether
\* money goes back, and how much, is decided on the row read before.
CancelByCustomer(r) ==
    /\ Finish(r, "cancelByCustomer")
    /\ LET o == call[r].order
            row == seen[r] IN
         IF StillCancellable(o)
           THEN /\ SetStatus(o, "CANCELLED")
                /\ Restock(o)
                /\ IF row.status = "PAID"
                     THEN /\ Debit(o, CreditedAmount(o, row))
                          /\ cancelDebits' = [cancelDebits EXCEPT ![o] = @ + 1]
                          /\ MoveAlloc(o, IF alloc[o].status = "NONE" THEN "NONE"
                                                                     ELSE "CANCELLED")
                          /\ ReturnPoints(o)
                     ELSE UNCHANGED <<balance, debited, cancelDebits, alloc, points,
                                      returned>>
                /\ UNCHANGED <<bill, shipment, credits, credited, refunded, otherVars,
                               bypassed>>
           ELSE UNCHANGED dbVars
    /\ Notice(r)

\* The admin cancels: the same, but the status is written unconditionally, the
\* whole total is taken back and the allocation is left alone.
CancelOrder(r) ==
    /\ Finish(r, "cancelOrder")
    /\ LET o == call[r].order IN
         /\ SetStatus(o, "CANCELLED")
         /\ Restock(o)
         /\ bypassed' = [bypassed EXCEPT ![o] = TRUE]
         /\ IF seen[r].status = "PAID"
              THEN Debit(o, Total[o]) /\ ReturnPoints(o)
              ELSE UNCHANGED <<balance, debited, points, returned>>
         /\ UNCHANGED <<creditVars, refunded, cancelDebits, otherVars>>
    /\ Notice(r)

\* Allocations not yet paid out, of those this module knows.
Holdable == {"PENDING_PAYMENT", "AWAITING_DELIVERY_VERIFICATION"}

\* The buyer asks for a refund: the row is unique per order, and whatever
\* escrow is not yet paid out is put on hold.
CreateRequest(r) ==
    /\ Finish(r, "createRequest")
    /\ LET o == call[r].order IN
         IF refund[o] = "NONE"
           THEN /\ refund' = [refund EXCEPT ![o] = "PENDING"]
                /\ MoveAlloc(o, IF alloc[o].status \in Holdable
                                  THEN "ON_HOLD_DISPUTE" ELSE alloc[o].status)
                /\ UNCHANGED <<orderVars, bill, shipment, credits, credited,
                               balance, points, debitVars, returnVars,
                               withdrawn, plan, invoice, bypassed>>
           ELSE UNCHANGED dbVars
    /\ Notice(r)

VendorReply(r) ==
    /\ Finish(r, "vendorReply")
    /\ refund' = [refund EXCEPT ![call[r].order] = "VENDOR_REPLIED"]
    /\ UNCHANGED <<orderVars, creditVars, balance, points, debitVars, returnVars,
                   withdrawn, plan, invoice, bypassed>>
    /\ Notice(r)

\* The allocations an approval refunds.
Refundable(a) == a.status \notin {"NONE", "REFUNDED"}

\* The admin decides.  An approval takes back the allocation's net, or, when no
\* allocation is left to refund, the net of the order row read before.
AdminDecide(r) ==
    /\ Finish(r, "adminDecide")
    /\ LET o == call[r].order
            approve == call[r].action = "APPROVE" IN
         /\ refund' = [refund EXCEPT ![o] = IF approve THEN "APPROVED" ELSE "REJECTED"]
         /\ \/ /\ approve /\ Refundable(alloc[o])
               /\ MoveAlloc(o, "REFUNDED")
               /\ DebitRefund(o, alloc[o].net)
            \/ /\ approve /\ ~Refundable(alloc[o]) /\ seen[r].bill # NoBill
               /\ DebitRefund(o, seen[r].bill.net)
               /\ UNCHANGED alloc
            \/ /\ ~approve \/ (~Refundable(alloc[o]) /\ seen[r].bill = NoBill)
               /\ UNCHANGED <<alloc, balance, refunded>>
    /\ UNCHANGED <<orderVars, bill, shipment, credits, credited, points,
                   debited, cancelDebits, returnVars, withdrawn, plan, invoice, bypassed>>
    /\ Notice(r)

\* Variant: the debit is conditional on the balance alone.
AffordableFromBalance(amount, held) == balance >= amount

\* The conditional debit of a withdrawal: against the balance as it is now and
\* the held amount as it was.
Affordable(amount, held) == balance >= amount + SumFunction(held)

RequestWithdrawal(r) ==
    /\ Finish(r, "requestWithdrawal")
    /\ LET amount == call[r].amount IN
         IF Affordable(amount, heldSeen[r])
           THEN /\ balance' = balance - amount
                /\ withdrawn' = withdrawn + amount
                /\ UNCHANGED <<orderVars, creditVars, points, debitVars, returnVars,
                               refund, plan, invoice, bypassed>>
           ELSE UNCHANGED dbVars
    /\ Notice(r)

-----------------------------------------------------------------------------
(* The world around the orders *)

\* createCheckoutTransaction: an invoice for any order that is not PAID and not
\* CANCELLED.
CreateCheckout(o) ==
    /\ status[o] \notin {"PAID", "CANCELLED"}
    /\ invoice[o] = "none"
    /\ invoice' = [invoice EXCEPT ![o] = "pending"]
    /\ UNCHANGED <<orderVars, creditVars, balance, points, debitVars, returnVars,
                   refund, withdrawn, plan, bypassed, reqVars>>

\* The customer pays the invoice on PayDunya's page, however late.
PayInvoice(o) ==
    /\ invoice[o] = "pending"
    /\ invoice' = [invoice EXCEPT ![o] = "completed"]
    /\ UNCHANGED <<orderVars, creditVars, balance, points, debitVars, returnVars,
                   refund, withdrawn, plan, bypassed, reqVars>>

\* The owner's boutiques all get the plan that was bought.
ActivatePlan(p) ==
    /\ plan' = p
    /\ UNCHANGED <<orderVars, creditVars, balance, points, debitVars, returnVars,
                   refund, withdrawn, invoice, bypassed, reqVars>>

-----------------------------------------------------------------------------

\* Orders as they are placed; the shipment of some has been prepared already,
\* and with it an allocation that waits for payment.
Init ==
    /\ status = [o \in Order |-> "PENDING"]
    /\ bill = [o \in Order |-> NoBill]
    /\ shipment \in [Order -> {"NONE", "AWAITING_PREPARATION"}]
    /\ alloc = [o \in Order |->
            IF shipment[o] = "NONE"
              THEN [status |-> "NONE", net |-> 0]
              ELSE [status |-> "PENDING_PAYMENT", net |-> QuotedNet[o]]]
    /\ refund = [o \in Order |-> "NONE"]
    /\ balance = OpeningBalance
    /\ withdrawn = 0
    /\ points = [u \in User |-> 0]
    /\ plan = "starter"
    /\ invoice = [o \in Order |-> "none"]
    /\ pc = [r \in Req |-> "idle"]
    /\ call = [r \in Req |-> NoCall]
    /\ seen = [r \in Req |-> BlankRow]
    /\ balanceSeen = [r \in Req |-> 0]
    /\ heldSeen = [r \in Req |-> NothingHeld]
    /\ since = [r \in Req |-> {}]
    /\ credits = [o \in Order |-> 0]
    /\ exits = [o \in Order |-> 0]
    /\ credited = [o \in Order |-> 0]
    /\ debited = [o \in Order |-> 0]
    /\ refunded = [o \in Order |-> 0]
    /\ cancelDebits = [o \in Order |-> 0]
    /\ restocked = [o \in Order |-> 0]
    /\ returned = [o \in Order |-> 0]
    /\ bypassed = [o \in Order |-> FALSE]

Commit(r) ==
    \/ ConfirmPayment(r)
    \/ UpdateStatus(r)
    \/ SettlePaidOrder(r)
    \/ CancelByCustomer(r)
    \/ CancelOrder(r)
    \/ CreateRequest(r)
    \/ VendorReply(r)
    \/ AdminDecide(r)
    \/ RequestWithdrawal(r)

Next ==
    \/ \E r \in Req : Read(r) \/ CountHeld(r) \/ Commit(r)
    \/ \E o \in Order : CreateCheckout(o) \/ PayInvoice(o)
    \/ \E p \in Plans : ActivatePlan(p)

Spec == Init /\ [][Next]_vars

-----------------------------------------------------------------------------
(* Properties *)

\* What the requests remember.
RequestTypes ==
    /\ pc \in [Req -> {"idle", "counting", "running", "done"}]
    /\ call \in [Req -> Calls \cup {NoCall}]
    /\ \A r \in Req : pc[r] \in {"counting", "running"} => call[r] \in Calls
    /\ seen \in [Req -> OrderRow]
    /\ balanceSeen \in [Req -> Int]
    /\ heldSeen \in [Req -> [Order -> Nat]]
    /\ since \in [Req -> SUBSET Changes]

\* Types.
TypeOK ==
    /\ status \in [Order -> Status]
    /\ bill \in [Order -> Bill \cup {NoBill}]
    /\ alloc \in [Order -> [status: AllocStatus, net: Nat]]
    /\ shipment \in [Order -> ShipmentStatus]
    /\ refund \in [Order -> RefundStatus]
    /\ balance \in Int
    /\ withdrawn \in Nat
    /\ points \in [User -> Nat]
    /\ plan \in Plans \cup {"starter"}
    /\ invoice \in [Order -> InvoiceStatus]
    /\ credits \in [Order -> Nat]
    /\ exits \in [Order -> Nat]
    /\ credited \in [Order -> Nat]
    /\ debited \in [Order -> Int]
    /\ refunded \in [Order -> Nat]
    /\ cancelDebits \in [Order -> Nat]
    /\ restocked \in [Order -> Nat]
    /\ returned \in [Order -> Nat]
    /\ bypassed \in [Order -> BOOLEAN]
    /\ RequestTypes

\* A seller is credited exactly once each time an order enters PAID, whichever
\* of the client, the seller, the admin and PayDunya report the payment and in
\* whatever order their requests commit.
CreditPerPaidEntry ==
    \A o \in Order : credits[o] = exits[o] + (IF status[o] = "PAID" THEN 1 ELSE 0)

\* A customer cancellation takes money back only by taking the order out of
\* PAID: never twice for one credit, and never while the order stays paid.
CancelDebitCovered ==
    \A o \in Order :
        cancelDebits[o] + (IF status[o] = "PAID" THEN 1 ELSE 0) <= credits[o]

\* Unless PayDunya settles an order that is not PENDING or the admin cancels it,
\* an order is credited, put back to stock and given its points back at most
\* once, however many confirmations and cancellations race; and what a
\* cancellation takes back is what was credited.
OnceUnlessBypassed ==
    \A o \in Order : ~bypassed[o] =>
        /\ credits[o] <= 1
        /\ restocked[o] <= 1
        /\ returned[o] <= cancelDebits[o]
        /\ debited[o] = IF cancelDebits[o] > 0 THEN credited[o] ELSE 0

\* The commission recorded on the order and the escrow allocation always speak
\* of the same, last credit: a refund takes back what was paid in.
EscrowMatchesBill ==
    \A o \in Order :
        /\ credits[o] > 0 <=> bill[o] # NoBill
        /\ credits[o] > 0 => /\ alloc[o].status \notin {"NONE", "PENDING_PAYMENT"}
                             /\ alloc[o].net = bill[o].net

\* The money of a paid order is in escrow or refunded, never free to withdraw.
PaidMoneyHeld ==
    \A o \in Order : ~bypassed[o] /\ status[o] = "PAID" =>
        alloc[o].status \in HeldStatus \cup {"REFUNDED"}

\* Once a refund is approved nothing of the order stays in escrow: the net is
\* either taken back or was never there.
ApprovedRefundClosesEscrow ==
    \A o \in Order : ~bypassed[o] /\ refund[o] = "APPROVED" =>
        alloc[o].status \in {"NONE", "REFUNDED", "CANCELLED"}

\* What the escrow of an order is worth is what the order owes its seller, from
\* its first payment to its last refund.
EscrowKept ==
    /\ EscrowMatchesBill
    /\ PaidMoneyHeld
    /\ ApprovedRefundClosesEscrow

\* Every point of an account is accounted for by cashbacks, referral bonuses and
\* returned points of orders: one cashback and one bonus for each credit.
PointsReconcile ==
    \A u \in User :
        points[u] =
            SumFunctionOnSet([o \in Order |-> credits[o] * PointsEarned(o)
                                              + returned[o] * PointsUsed[o]],
                             {o \in Order : Buyer[o] = u})
          + SumFunctionOnSet([o \in Order |-> credits[o] * PointsEarned(o)],
                             {o \in Order : Buyer[o] \in User /\ Referrer[Buyer[o]] = u})

\* A withdrawal leaves on the balance all the money that is held at that moment,
\* although it compares with the held amount it had read (requestWithdrawal) ...
\* unless since then both more was held, by a payment or by the dispute of an
\* order never paid, and less was free, by a debit or by such a dispute: either
\* alone is caught, by the check on the balance read or by the conditional debit.
HeldMoneyStays ==
    [][\A r \in Req : Withdrawing(r) /\ withdrawn' # withdrawn /\ pc'[r] = "done"
          => \/ balance' >= SumFunction(HeldNet')
             \/ since[r] = Changes]_vars

-----------------------------------------------------------------------------
(* The inductive invariant behind these properties *)

\* What holds of an order, whatever requests are running.
OrderInv(o) ==
    /\ credits[o] = exits[o] + (IF status[o] = "PAID" THEN 1 ELSE 0)
    /\ cancelDebits[o] <= exits[o]
    /\ status[o] = "PENDING" =>
        /\ credits[o] = 0 /\ credited[o] = 0
        /\ debited[o] = 0 /\ restocked[o] = 0 /\ returned[o] = 0
        /\ refund[o] = "NONE"
        /\ alloc[o].status \in {"NONE", "PENDING_PAYMENT"}
    /\ bill[o] # NoBill => bill[o].fee + bill[o].net = Gross(o)
    /\ credits[o] > 0 <=> bill[o] # NoBill
    /\ credits[o] > 0 => /\ alloc[o].status \notin {"NONE", "PENDING_PAYMENT"}
                         /\ alloc[o].net = bill[o].net
    /\ ~bypassed[o] =>
        /\ credits[o] <= 1
        /\ credited[o] = IF credits[o] > 0 THEN bill[o].net ELSE 0
        /\ restocked[o] <= 1
        /\ restocked[o] > 0 => status[o] \notin {"PENDING", "PAID"}
        /\ returned[o] <= cancelDebits[o]
        /\ debited[o] = IF cancelDebits[o] > 0 THEN credited[o] ELSE 0
        /\ status[o] = "PAID" => alloc[o].status \in HeldStatus \cup {"REFUNDED"}
        /\ refund[o] = "APPROVED" =>
              alloc[o].status \in {"NONE", "REFUNDED", "CANCELLED"}

\* What still holds of the row a running request has read, however stale: an
\* order never returns to PENDING, a refund request never disappears, and the
\* bill of an order that is not bypassed is written once.
ReqInv(r) ==
    /\ pc[r] = "counting" => call[r].op = "requestWithdrawal"
    /\ pc[r] = "running" /\ call[r].op # "requestWithdrawal" =>
        LET o == call[r].order
            row == seen[r]
        IN  /\ row.status # "PENDING" => status[o] # "PENDING"
            /\ row.status = "PAID" => row.bill # NoBill
            /\ row.bill # NoBill =>
                  /\ row.bill.fee + row.bill.net = Gross(o)
                  /\ ~bypassed[o] => row.bill = bill[o]
            /\ call[r].op = "createRequest" => status[o] # "PENDING"
            /\ call[r].op \in {"vendorReply", "adminDecide"} => refund[o] # "NONE"

\* Why every request keeps the properties above, from whatever it has read.
IInv ==
    /\ TypeOK
    /\ \A o \in Order : OrderInv(o)
    /\ \A r \in Req : ReqInv(r)

=============================================================================
