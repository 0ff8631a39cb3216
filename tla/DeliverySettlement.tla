-------------------------- MODULE DeliverySettlement --------------------------
(***************************************************************************)
(* One shipment from its preparation to the release of the money: the      *)
(* proof of delivery by the buyer's code or link, what it does to the      *)
(* seller's and the carriers' settlement allocations, the conformity       *)
(* window, disputes, refund requests and the admin's payouts.              *)
(*                                                                         *)
(* A member of Req is a slot for one HTTP request at a time.  Start(r) is  *)
(* what a handler reads and checks before its write: the write that        *)
(* follows may find everything changed.  A handler that checks nothing     *)
(* before its transaction (openDispute, resolveDisputeByAdmin,             *)
(* recordHandoverEvidence) is one step.  finalizeVerifiedDelivery and the  *)
(* order's payment read the allocations inside their transaction, but take *)
(* no lock on them, and decide on that read: LoadDelivery and              *)
(* VerifyDelivery, LoadPayment and ConfirmPayment.                         *)
(***************************************************************************)
EXTENDS Integers

CONSTANTS
    Req,       \* slots for concurrent requests
    Carrier,   \* allocation rows of carriers, one for each mission given to one
    Seller,    \* the seller's allocation row
    Dispute,   \* disputes the buyer may open
    Calls,     \* the API calls that may be made, a subset of AllCalls
    MaxCalls,  \* bound: requests and resolutions in one behaviour
    MaxTries,  \* MAX_DELIVERY_CODE_ATTEMPTS
    NoCall     \* a slot that is not in use

Beneficiary == Carrier \cup {Seller}

OrderStatus == {"PENDING", "PAID", "SHIPPING", "DELIVERED", "CANCELLED"}
\* OPEN stands for every status before the delivery is verified.
ShipmentStatus == {"OPEN", "DELIVERED_VERIFIED", "BUYER_ACCEPTED", "UNDER_REVIEW"}
SettlementStatus ==
    {"NONE", "PENDING_PAYMENT", "AWAITING_DELIVERY_VERIFICATION",
     "AWAITING_BUYER_CONFORMITY", "ELIGIBLE_FOR_RELEASE", "ON_HOLD_DISPUTE",
     "RELEASED_TO_WALLET", "REFUNDED", "CANCELLED"}
DisputeStatus == {"NONE", "OPEN", "RESOLVED"}
\* PENDING stands for VENDOR_REPLIED too: the seller's answer moves no money.
RefundStatus == {"NONE", "PENDING", "APPROVED", "REJECTED"}

Verified == {"DELIVERED_VERIFIED", "BUYER_ACCEPTED"}
Releasable == {"ELIGIBLE_FOR_RELEASE", "RELEASED_TO_WALLET"}

DisputeScope == {"PRODUCT_ONLY", "DELIVERY_ONLY", "BOTH"}
Outcome == {"RESOLVED_REFUND_BUYER", "RESOLVED_RELEASE_SELLER",
            "RESOLVED_RELEASE_COURIER", "RESOLVED_SPLIT", "REJECTED"}

RightCode == [op |-> "code", right |-> TRUE]
WrongCode == [op |-> "code", right |-> FALSE]
PayoutCall(b) == [op |-> "payout", of |-> b]
AcceptCall == [op |-> "acceptConformity"]

AllCalls ==
         {RightCode, WrongCode}
    \cup {PayoutCall(b) : b \in Beneficiary}
    \cup [op: {"guest"}, accept: BOOLEAN]
    \cup [op: {"decideRefund"}, approve: BOOLEAN]
    \cup [op: {"acceptConformity", "sweep", "createRequest", "cancelByCustomer",
               "confirmPayment", "settlePaidOrder"}]

ASSUME SettlementAssumption ==
    /\ Seller \notin Carrier
    /\ Calls \subseteq AllCalls
    /\ NoCall \notin AllCalls
    /\ MaxCalls \in Nat
    /\ MaxTries \in Nat \ {0}

VARIABLES
    order,      \* Order.status
    ship,       \* Shipment.status
    code,       \* Shipment.deliveryCodeHash is set
    attempts,   \* Shipment.deliveryCodeAttempts
    locked,     \* Shipment.deliveryCodeLockedUntil is in the future
    alloc,      \* SettlementAllocation.status of each beneficiary
    due,        \* the seller's eligibleForReleaseAt is past
    dispute,    \* DeliveryDispute.status
    refund,     \* RefundRequest.status
    billed,     \* Order.netAmount is set: the order has been paid
    stage,      \* where each request is
    call,       \* what it was asked
    snap,       \* what it has read
    calls,      \* requests and resolutions so far
    verified,   \* history: times the delivery was verified
    byCode,     \* history: of these, by the buyer's code
    paid,       \* history: times each carrier's balance was credited
    debits,     \* history: times the seller's balance was debited
    guesses,    \* history: wrong codes answered
    unlocks,    \* history: lockouts that have run out
    freed,      \* history: times an allocation became eligible
    payouts,    \* history: payouts approved for an allocation
    arbitrated, \* history: allocations a resolution has released
    late,       \* history: carriers engaged while a verification was under way
    twice       \* history: calls two requests were serving at the same time

requestVars == <<stage, call, snap>>
codeVars == <<code, attempts, locked, guesses, unlocks>>
allocVars == <<alloc, freed>>
disputeVars == <<dispute, arbitrated>>
refundVars == <<refund, billed>>
verifyVars == <<verified, byCode, paid, late>>
vars == <<order, ship, codeVars, allocVars, due, disputeVars, refundVars, requestVars,
          calls, verifyVars, debits, payouts, twice>>

-----------------------------------------------------------------------------
(* Helpers *)

\* Every write of allocations; freed counts the ones that become eligible.
SetAllocs(new) ==
    /\ alloc' = new
    /\ freed' = [b \in Beneficiary |->
            freed[b] + (IF new[b] = "ELIGIBLE_FOR_RELEASE"
                            /\ alloc[b] # "ELIGIBLE_FOR_RELEASE" THEN 1 ELSE 0)]

SetAlloc(b, s) == SetAllocs([alloc EXCEPT ![b] = s])

Nothing == [b \in Beneficiary |-> "NONE"]
BlankSnap == [alloc |-> Nothing, attempts |-> 0, paid |-> FALSE]

Running(r, op) == stage[r] = "checked" /\ call[r].op = op

\* The request answers.
Finish(r) ==
    /\ stage' = [stage EXCEPT ![r] = "idle"]
    /\ call' = [call EXCEPT ![r] = NoCall]
    /\ snap' = [snap EXCEPT ![r] = BlankSnap]

Verifies(c) == c.op = "guest" \/ c = RightCode
Pays(c) == c.op \in {"confirmPayment", "settlePaidOrder"}

\* A payment's transaction holds the rows of the order and of the shop: whoever
\* writes one of them waits for it.
PaymentUnderWay == \E r \in Req : stage[r] = "paying"

\* What the sweep skips, but for the shipment under review.
Contested ==
    \/ \E d \in Dispute : dispute[d] = "OPEN"
    \/ refund \in {"PENDING", "APPROVED"}

-----------------------------------------------------------------------------
(* What each handler checks on what it reads first *)

\* verifyDeliveryByBuyerCode.
CodeAdmitted == ship \notin Verified /\ ~locked /\ code

\* Variant: conformity may be accepted before the delivery is verified.
ConformityAnyTime == TRUE

\* acceptProductConformity.
ConformityAdmitted == ship \in Verified

\* Variant: only what is already paid out is refused.
NotYetPaidOut(b) == alloc[b] \notin {"NONE", "RELEASED_TO_WALLET"}

\* adminApproveSettlementPayout.
PayoutAdmitted(b) == alloc[b] = "ELIGIBLE_FOR_RELEASE"

\* processEligibleSellerSettlementsAfterConformityWindow.
SweepAdmitted ==
    /\ alloc[Seller] = "AWAITING_BUYER_CONFORMITY"
    /\ due
    /\ ~Contested
    /\ ship # "UNDER_REVIEW"

\* PayDunya's settlement takes any order that is not PAID, whatever has become of
\* it; the client and the seller report the payment of a PENDING one.
Payable(c) ==
    IF c.op = "settlePaidOrder" THEN order # "PAID" ELSE order = "PENDING"

Admits(c) ==
    \/ c.op = "code" /\ CodeAdmitted
    \/ c.op = "guest"
    \/ c.op = "acceptConformity" /\ ConformityAdmitted
    \/ c.op = "payout" /\ PayoutAdmitted(c.of)
    \/ c.op = "sweep" /\ SweepAdmitted
    \/ c.op = "createRequest" /\ order \in {"PAID", "DELIVERED"} /\ refund = "NONE"
    \/ c.op = "decideRefund" /\ refund = "PENDING"
    \/ c.op = "cancelByCustomer" /\ order \in {"PENDING", "PAID"}
    \/ Pays(c) /\ Payable(c)

\* The part of what it reads that the handler uses, or that a property compares
\* with what the handler writes.
Seen(c) ==
    [alloc |-> IF c.op = "sweep" THEN [Nothing EXCEPT ![Seller] = alloc[Seller]]
               ELSE IF c.op = "payout" THEN [Nothing EXCEPT ![c.of] = alloc[c.of]]
               ELSE Nothing,
     attempts |-> IF c = WrongCode THEN attempts ELSE 0,
     paid |-> c.op = "cancelByCustomer" /\ order = "PAID"]

Start(r) ==
    /\ stage[r] = "idle"
    /\ calls < MaxCalls
    /\ \E c \in Calls :
         /\ Admits(c)
         /\ call' = [call EXCEPT ![r] = c]
         /\ snap' = [snap EXCEPT ![r] = Seen(c)]
         /\ twice' = IF \E q \in Req : call[q] = c THEN twice \cup {c} ELSE twice
    /\ stage' = [stage EXCEPT ![r] = "checked"]
    /\ calls' = calls + 1
    /\ UNCHANGED <<order, ship, codeVars, allocVars, due, disputeVars, refundVars,
                   verifyVars, debits, payouts>>

\* A request dies before it writes: the database or the process fails.  Each
\* handler writes in one transaction or one statement, so nothing is left.
Fail(r) ==
    /\ stage[r] # "idle"
    /\ Finish(r)
    /\ UNCHANGED <<order, ship, codeVars, allocVars, due, disputeVars, refundVars, calls,
                   verifyVars, debits, payouts, twice>>

-----------------------------------------------------------------------------
(* Proof of delivery *)

\* Variant: failed attempts are not written back.
AttemptsLost(seen) == attempts

\* The counter a wrong code writes: one more than was read.
AttemptsAfter(seen) == seen + 1

\* A wrong code.
RejectCode(r) ==
    /\ stage[r] = "checked"
    /\ call[r] = WrongCode
    /\ attempts' = AttemptsAfter(snap[r].attempts)
    /\ locked' = (AttemptsAfter(snap[r].attempts) >= MaxTries)
    /\ guesses' = guesses + 1
    /\ Finish(r)
    /\ UNCHANGED <<order, ship, code, unlocks, allocVars, due, disputeVars, refundVars,
                   calls, verifyVars, debits, payouts, twice>>

\* 15 minutes have passed since the lockout.
LockEnds ==
    /\ locked
    /\ locked' = FALSE
    /\ unlocks' = unlocks + 1
    /\ UNCHANGED <<order, ship, code, attempts, guesses, allocVars, due, disputeVars,
                   refundVars, requestVars, calls, verifyVars, debits, payouts, twice>>

\* The transaction of finalizeVerifiedDelivery reads the allocations.
LoadDelivery(r) ==
    /\ stage[r] = "checked"
    /\ Verifies(call[r])
    /\ stage' = [stage EXCEPT ![r] = "loaded"]
    /\ snap' = [snap EXCEPT ![r].alloc = alloc]
    /\ UNCHANGED <<order, ship, codeVars, allocVars, due, disputeVars, refundVars, call,
                   calls, verifyVars, debits, payouts, twice>>

\* The allocations the verification moves, by the status it has read.
MovedByDelivery(s) == s \notin {"NONE", "ON_HOLD_DISPUTE"}

\* deliveryCodeHash after the verification.
CodeConsumed == FALSE

\* The status of the seller's allocation after the verification.
SellerDelivered == "AWAITING_BUYER_CONFORMITY"

\* What becomes of the allocations: the carriers' are eligible at once, the
\* seller's waits for the buyer's acceptance or the end of the window.
AllocsDelivered(seen) ==
    [b \in Beneficiary |->
        IF ~MovedByDelivery(seen[b]) THEN alloc[b]
        ELSE IF b = Seller THEN SellerDelivered
        ELSE "ELIGIBLE_FOR_RELEASE"]

\* ... and writes.  A buyer who confirmed conformity in the same call goes on
\* to acceptProductConformity.
VerifyDelivery(r) ==
    /\ stage[r] = "loaded"
    /\ ~PaymentUnderWay
    /\ LET seen == snap[r].alloc IN
         /\ SetAllocs(AllocsDelivered(seen))
         /\ due' = (due /\ ~MovedByDelivery(seen[Seller]))
         /\ paid' = [k \in Carrier |->
                        paid[k] + (IF MovedByDelivery(seen[k]) THEN 1 ELSE 0)]
    /\ order' = "DELIVERED"
    /\ ship' = "DELIVERED_VERIFIED"
    /\ code' = CodeConsumed
    /\ verified' = verified + 1
    /\ byCode' = byCode + (IF call[r].op = "code" THEN 1 ELSE 0)
    /\ IF call[r].op = "guest" /\ call[r].accept
         THEN /\ stage' = [stage EXCEPT ![r] = "verified"]
              /\ snap' = [snap EXCEPT ![r] = BlankSnap]
              /\ UNCHANGED call
         ELSE Finish(r)
    /\ UNCHANGED <<attempts, locked, guesses, unlocks, disputeVars, refundVars, calls,
                   late, debits, payouts, twice>>

\* acceptProductConformity reads the shipment again; an error is answered when
\* it is not verified any more.
GoOnToAccept(r) ==
    /\ stage[r] = "verified"
    /\ IF ConformityAdmitted
         THEN /\ stage' = [stage EXCEPT ![r] = "checked"]
              /\ call' = [call EXCEPT ![r] = AcceptCall]
              /\ UNCHANGED snap
         ELSE Finish(r)
    /\ UNCHANGED <<order, ship, codeVars, allocVars, due, disputeVars, refundVars, calls,
                   verifyVars, debits, payouts, twice>>

\* A handover is recorded, whatever the shipment has become: a pickup also puts
\* the order back to SHIPPING.  A dispatch that engages nobody yet (to the public
\* pool, or to the seller's own courier) reopens the shipment in the same way.
RecordHandover(pickup) ==
    /\ pickup => ~PaymentUnderWay
    /\ ship' = "OPEN"
    /\ order' = IF pickup THEN "SHIPPING" ELSE order
    /\ UNCHANGED <<codeVars, allocVars, due, disputeVars, refundVars, requestVars, calls,
                   verifyVars, debits, payouts, twice>>

\* Variant: the shipment's status is left alone.
ShipmentKept == ship

\* Shipment.status once a carrier is engaged.
ShipmentEngaged == "OPEN"

\* A mission is given to an agency, or accepted by an independent courier: its
\* allocation is created.  The order was not PENDING when the mission was
\* dispatched, and never is again; what became of the shipment is not looked at.
EngageCarrier(k) ==
    /\ alloc[k] = "NONE"
    /\ order # "PENDING"
    /\ SetAlloc(k, "AWAITING_DELIVERY_VERIFICATION")
    /\ ship' = ShipmentEngaged
    /\ late' = IF \E r \in Req : stage[r] = "loaded"
                                 \/ Running(r, "acceptConformity")
                 THEN late \cup {k} ELSE late
    /\ UNCHANGED <<order, codeVars, due, disputeVars, refundVars, requestVars, calls,
                   verified, byCode, paid, debits, payouts, twice>>

-----------------------------------------------------------------------------
(* Release of the seller's money, and payouts *)

\* Variant: the buyer's acceptance also releases what is on hold.
AcceptReleasesAll == TRUE

\* The condition of acceptProductConformity's updateMany.
AcceptReleases == alloc[Seller] # "ON_HOLD_DISPUTE"

AcceptConformity(r) ==
    /\ Running(r, "acceptConformity")
    /\ ship' = "BUYER_ACCEPTED"
    /\ SetAlloc(Seller, IF AcceptReleases THEN "ELIGIBLE_FOR_RELEASE" ELSE alloc[Seller])
    /\ Finish(r)
    /\ UNCHANGED <<order, codeVars, due, disputeVars, refundVars, calls, verifyVars,
                   debits, payouts, twice>>

\* The conformity window ends.
WindowEnds ==
    /\ alloc[Seller] = "AWAITING_BUYER_CONFORMITY"
    /\ ~due
    /\ due' = TRUE
    /\ UNCHANGED <<order, ship, codeVars, allocVars, disputeVars, refundVars, requestVars,
                   calls, verifyVars, debits, payouts, twice>>

\* The sweep writes the row it has read by its id.
ReleaseAfterWindow(r) ==
    /\ Running(r, "sweep")
    /\ SetAlloc(Seller, "ELIGIBLE_FOR_RELEASE")
    /\ Finish(r)
    /\ UNCHANGED <<order, ship, codeVars, due, disputeVars, refundVars, calls, verifyVars,
                   debits, payouts, twice>>

\* So does the admin's approval of a payout.
ApprovePayout(r) ==
    /\ Running(r, "payout")
    /\ SetAlloc(call[r].of, "RELEASED_TO_WALLET")
    /\ payouts' = [payouts EXCEPT ![call[r].of] = @ + 1]
    /\ Finish(r)
    /\ UNCHANGED <<order, ship, codeVars, due, disputeVars, refundVars, calls, verifyVars,
                   debits, twice>>

-----------------------------------------------------------------------------
(* Disputes *)

\* The allocations a dispute of this scope is about.
Concerned(scope) ==
    CASE scope = "PRODUCT_ONLY" -> {Seller}
      [] scope = "DELIVERY_ONLY" -> Carrier
      [] scope = "BOTH" -> Beneficiary

\* The buyer opens a dispute: the allocations in its scope are frozen whatever
\* their status.
OpenDispute(d, scope) ==
    /\ dispute[d] = "NONE"
    /\ dispute' = [dispute EXCEPT ![d] = "OPEN"]
    /\ SetAllocs([b \in Beneficiary |->
            IF b \in Concerned(scope) /\ alloc[b] # "NONE" THEN "ON_HOLD_DISPUTE"
                                                           ELSE alloc[b]])
    /\ ship' = "UNDER_REVIEW"
    /\ UNCHANGED <<order, codeVars, due, arbitrated, refundVars, requestVars, calls,
                   verifyVars, debits, payouts, twice>>

OnHold == {b \in Beneficiary : alloc[b] = "ON_HOLD_DISPUTE"}

\* The seller's allocation is looked up before the update, on hold or not.
DebitedByDispute == alloc[Seller] # "REFUNDED"

\* The admin decides: again, if a first decision has been made already.
ResolveDispute(d, outcome) ==
    /\ dispute[d] # "NONE"
    /\ calls < MaxCalls
    /\ calls' = calls + 1
    /\ dispute' = [dispute EXCEPT ![d] = "RESOLVED"]
    /\ \/ /\ outcome = "RESOLVED_REFUND_BUYER"
          /\ SetAllocs([b \in Beneficiary |-> IF b \in OnHold THEN "REFUNDED" ELSE alloc[b]])
          /\ DebitedByDispute => ~PaymentUnderWay
          /\ debits' = debits + (IF DebitedByDispute THEN 1 ELSE 0)
          /\ UNCHANGED arbitrated
       \/ /\ outcome \in {"RESOLVED_RELEASE_SELLER", "REJECTED"}
          /\ SetAllocs([b \in Beneficiary |->
                            IF b \in OnHold THEN "ELIGIBLE_FOR_RELEASE" ELSE alloc[b]])
          /\ arbitrated' = arbitrated \cup OnHold
          /\ UNCHANGED debits
       \/ /\ outcome = "RESOLVED_RELEASE_COURIER"
          /\ LET rows == {k \in Carrier : alloc[k] # "NONE"} IN
               /\ SetAllocs([b \in Beneficiary |->
                                IF b \in rows THEN "ELIGIBLE_FOR_RELEASE" ELSE alloc[b]])
               /\ arbitrated' = arbitrated \cup rows
          /\ UNCHANGED debits
       \/ /\ outcome = "RESOLVED_SPLIT"
          /\ UNCHANGED <<allocVars, arbitrated, debits>>
    /\ UNCHANGED <<order, ship, codeVars, due, refundVars, requestVars, verifyVars, payouts,
                   twice>>

-----------------------------------------------------------------------------
(* The order's payment, cancellation and refund, as far as they move           *)
(* allocations; OrderPayment has their other effects.                          *)

\* The payment's transaction: the conditional update of the order, the net on the
\* shop's balance, and the read of the seller's allocation.  Nothing of it shows
\* before it commits.
LoadPayment(r) ==
    /\ stage[r] = "checked"
    /\ Pays(call[r])
    /\ IF Payable(call[r])
         THEN /\ ~PaymentUnderWay
              /\ stage' = [stage EXCEPT ![r] = "paying"]
              /\ snap' = [snap EXCEPT ![r].alloc[Seller] = alloc[Seller]]
              /\ UNCHANGED call
         ELSE Finish(r)
    /\ UNCHANGED <<order, ship, codeVars, allocVars, due, disputeVars, refundVars, calls,
                   verifyVars, debits, payouts, twice>>

\* The status a payment writes: an allocation waiting for payment awaits the
\* delivery, any other gets back the status that was read.
StatusOncePaid(seen) ==
    IF seen = "PENDING_PAYMENT" THEN "AWAITING_DELIVERY_VERIFICATION" ELSE seen

\* ... and writes, whatever the allocation has become, and commits.
ConfirmPayment(r) ==
    /\ stage[r] = "paying"
    /\ order' = "PAID"
    /\ billed' = TRUE
    /\ SetAlloc(Seller, StatusOncePaid(snap[r].alloc[Seller]))
    /\ Finish(r)
    /\ UNCHANGED <<ship, codeVars, due, disputeVars, refund, calls, verifyVars, debits,
                   payouts, twice>>

\* The customer cancels: the update is conditional, but what it does to the
\* money depends on the row read before, and it closes every allocation.
CancelByCustomer(r) ==
    /\ Running(r, "cancelByCustomer")
    /\ Finish(r)
    /\ IF order \in {"PENDING", "PAID"}
         THEN /\ ~PaymentUnderWay
              /\ order' = "CANCELLED"
              /\ IF snap[r].paid
                   THEN /\ SetAllocs([b \in Beneficiary |->
                                IF alloc[b] = "NONE" THEN "NONE" ELSE "CANCELLED"])
                        /\ debits' = debits + 1
                   ELSE UNCHANGED <<allocVars, debits>>
         ELSE UNCHANGED <<order, allocVars, debits>>
    /\ UNCHANGED <<ship, codeVars, due, disputeVars, refundVars, calls, verifyVars, payouts,
                   twice>>

Holdable == {"PENDING_PAYMENT", "AWAITING_DELIVERY_VERIFICATION",
             "AWAITING_BUYER_CONFORMITY", "ELIGIBLE_FOR_RELEASE"}

\* The buyer asks for a refund: what the seller has not been paid out is frozen.
CreateRequest(r) ==
    /\ Running(r, "createRequest")
    /\ Finish(r)
    /\ IF refund = "NONE"
         THEN /\ refund' = "PENDING"
              /\ SetAlloc(Seller, IF alloc[Seller] \in Holdable
                                    THEN "ON_HOLD_DISPUTE" ELSE alloc[Seller])
         ELSE UNCHANGED <<refund, allocVars>>
    /\ UNCHANGED <<order, ship, codeVars, due, disputeVars, billed, calls, verifyVars,
                   debits, payouts, twice>>

DebitedByRefund == alloc[Seller] # "REFUNDED" \/ billed

\* The admin decides on it.  An approval refunds the seller's allocation, or,
\* when it is refunded already, debits the order's net amount once more.
DecideRefund(r) ==
    /\ Running(r, "decideRefund")
    /\ Finish(r)
    /\ IF call[r].approve
         THEN /\ refund' = "APPROVED"
              /\ SetAlloc(Seller, "REFUNDED")
              /\ DebitedByRefund => ~PaymentUnderWay
              /\ debits' = debits + (IF DebitedByRefund THEN 1 ELSE 0)
         ELSE /\ refund' = "REJECTED"
              /\ UNCHANGED <<allocVars, debits>>
    /\ UNCHANGED <<order, ship, codeVars, due, disputeVars, billed, calls, verifyVars,
                   payouts, twice>>

-----------------------------------------------------------------------------

\* A shipment as createOrGetShipmentForOrder leaves it.
Init ==
    /\ order \in {"PENDING", "PAID"}
    /\ ship = "OPEN"
    /\ code = TRUE
    /\ attempts = 0
    /\ locked = FALSE
    /\ alloc = [b \in Beneficiary |->
            IF b # Seller THEN "NONE"
            ELSE IF order = "PAID" THEN "AWAITING_DELIVERY_VERIFICATION"
            ELSE "PENDING_PAYMENT"]
    /\ due = FALSE
    /\ dispute = [d \in Dispute |-> "NONE"]
    /\ refund = "NONE"
    /\ billed = (order = "PAID")
    /\ stage = [r \in Req |-> "idle"]
    /\ call = [r \in Req |-> NoCall]
    /\ snap = [r \in Req |-> BlankSnap]
    /\ calls = 0
    /\ verified = 0
    /\ byCode = 0
    /\ paid = [k \in Carrier |-> 0]
    /\ debits = 0
    /\ guesses = 0
    /\ unlocks = 0
    /\ freed = [b \in Beneficiary |-> 0]
    /\ payouts = [b \in Beneficiary |-> 0]
    /\ arbitrated = {}
    /\ late = {}
    /\ twice = {}

Request(r) ==
    \/ Start(r)
    \/ Fail(r)
    \/ RejectCode(r)
    \/ LoadDelivery(r)
    \/ VerifyDelivery(r)
    \/ GoOnToAccept(r)
    \/ AcceptConformity(r)
    \/ ReleaseAfterWindow(r)
    \/ ApprovePayout(r)
    \/ LoadPayment(r)
    \/ ConfirmPayment(r)
    \/ CancelByCustomer(r)
    \/ CreateRequest(r)
    \/ DecideRefund(r)

Next ==
    \/ \E r \in Req : Request(r)
    \/ \E d \in Dispute :
         \/ \E scope \in DisputeScope : OpenDispute(d, scope)
         \/ \E outcome \in Outcome : ResolveDispute(d, outcome)
    \/ \E pickup \in BOOLEAN : RecordHandover(pickup)
    \/ \E k \in Carrier : EngageCarrier(k)
    \/ LockEnds
    \/ WindowEnds

Spec == Init /\ [][Next]_vars

-----------------------------------------------------------------------------
(* Properties *)

\* Types.
TypeOK ==
    /\ order \in OrderStatus
    /\ ship \in ShipmentStatus
    /\ code \in BOOLEAN
    /\ attempts \in Nat
    /\ locked \in BOOLEAN
    /\ alloc \in [Beneficiary -> SettlementStatus]
    /\ due \in BOOLEAN
    /\ dispute \in [Dispute -> DisputeStatus]
    /\ refund \in RefundStatus
    /\ billed \in BOOLEAN
    /\ stage \in [Req -> {"idle", "checked", "loaded", "verified", "paying"}]
    /\ call \in [Req -> AllCalls \cup {NoCall}]
    /\ \A r \in Req : stage[r] # "idle" => call[r] \in AllCalls
    /\ snap \in [Req -> [alloc: [Beneficiary -> SettlementStatus], attempts: Nat,
                         paid: BOOLEAN]]
    /\ calls \in Nat
    /\ verified \in Nat
    /\ byCode \in Nat
    /\ paid \in [Carrier -> Nat]
    /\ debits \in Nat
    /\ guesses \in Nat
    /\ unlocks \in Nat
    /\ freed \in [Beneficiary -> Nat]
    /\ payouts \in [Beneficiary -> Nat]
    /\ arbitrated \in SUBSET Beneficiary
    /\ late \in SUBSET Carrier
    /\ twice \in SUBSET AllCalls

\* However verifications, acceptances, sweeps, disputes and payouts interleave,
\* the seller's money is released only after a verified delivery, or by an
\* arbitration.
SellerReleaseEarned ==
    alloc[Seller] \in Releasable => verified > 0 \/ Seller \in arbitrated

\* A carrier's balance is credited at most once for each verification, and an
\* allocation he may be paid out of has been credited, or was released by an
\* arbitration.
CarrierPaidForDelivery ==
    \A k \in Carrier :
        /\ paid[k] <= verified
        /\ alloc[k] \in Releasable => paid[k] > 0 \/ k \in arbitrated

\* No carrier's allocation is left waiting once the delivery is verified, unless
\* he was engaged while that was being written.
NoCarrierForgotten ==
    ship \in Verified =>
        \A k \in Carrier : alloc[k] = "AWAITING_DELIVERY_VERIFICATION" => k \in late

\* Every carrier of a verified delivery is paid for it, and none otherwise.
CarriersPaid ==
    /\ CarrierPaidForDelivery
    /\ NoCarrierForgotten

\* An allocation is paid out at most once each time it becomes eligible, unless
\* two approvals of it were being served at the same time.
PayoutPerRelease ==
    \A b \in Beneficiary : PayoutCall(b) \notin twice => payouts[b] <= freed[b]

\* The buyer's code verifies one delivery, unless two checks of it were being
\* served at the same time.
CodeServesOnce == RightCode \notin twice => byCode <= 1

\* A code can be guessed MaxTries times, and once more after each lockout, unless
\* two wrong codes were being served at the same time.
TriesBounded == WrongCode \notin twice => guesses <= MaxTries + unlocks

\* What the buyer's delivery code promises: one use, and few guesses.
CodeHolds ==
    /\ CodeServesOnce
    /\ TriesBounded

\* A refunded allocation has been taken back from the seller's balance, by
\* whichever of the refund request and the dispute refunded it.
RefundTakesMoney == alloc[Seller] = "REFUNDED" => debits > 0

\* The statuses from which the money goes on to a payout.
OnItsWay == Releasable \cup {"PENDING_PAYMENT", "AWAITING_DELIVERY_VERIFICATION",
                             "AWAITING_BUYER_CONFORMITY"}

\* What a step may do to an allocation on hold.
HoldKept(b) ==
    alloc[b] = "ON_HOLD_DISPUTE" /\ alloc'[b] \in OnItsWay
        => \/ b \in arbitrated'
           \/ \E r \in Req : /\ stage[r] # "idle" /\ stage'[r] # stage[r]
                             /\ snap[r].alloc[b] \notin {"NONE", "ON_HOLD_DISPUTE"}

KeepsHolds == \A b \in Beneficiary : HoldKept(b)

\* What is on hold is set on its way to a payout again only by an arbitration, or
\* by a request that had read the allocation before it was put on hold: no
\* acceptance, verification, sweep, payout or payment that has seen the hold
\* moves it.
HoldRespected == [][KeepsHolds]_vars

-----------------------------------------------------------------------------
(* The inductive invariant behind these properties *)

\* What entitles a beneficiary to a payout.
Earned(b) ==
    \/ b \in arbitrated
    \/ IF b = Seller THEN verified > 0 ELSE paid[b] > 0

\* The allocations and what has happened to the shipment.
MoneyInv ==
    /\ ship \in Verified => verified > 0
    /\ alloc[Seller] = "AWAITING_BUYER_CONFORMITY" => verified > 0
    /\ \A b \in Beneficiary : alloc[b] \in Releasable => Earned(b)
    /\ \A k \in Carrier : paid[k] <= verified /\ alloc[k] # "AWAITING_BUYER_CONFORMITY"
    /\ NoCarrierForgotten
    /\ RefundTakesMoney

Asked(c) == \E r \in Req : call[r] = c

\* What may still be paid out, or verified by the code, counts as if it had been.
PayoutInv ==
    \A b \in Beneficiary : PayoutCall(b) \notin twice =>
        payouts[b] + (IF alloc[b] = "ELIGIBLE_FOR_RELEASE" \/ Asked(PayoutCall(b))
                        THEN 1 ELSE 0) <= freed[b]
CodeInv ==
    RightCode \notin twice =>
        byCode + (IF code \/ Asked(RightCode) THEN 1 ELSE 0) <= 1
TriesInv ==
    WrongCode \notin twice =>
        /\ attempts = guesses
        /\ guesses + (IF locked THEN 0 ELSE 1) <= MaxTries + unlocks
        /\ \A r \in Req : call[r] = WrongCode =>
              ~locked /\ snap[r].attempts = attempts

\* What the status a payment has read says of the past.
SellerReadInv(s) ==
    /\ s = "AWAITING_BUYER_CONFORMITY" => verified > 0
    /\ s \in Releasable => Earned(Seller)
    /\ s = "REFUNDED" => debits > 0

\* What a request has read, and what is still true of it.
ReqInv(r) ==
    /\ stage[r] = "idle" => call[r] = NoCall
    /\ stage[r] = "loaded" =>
          /\ Verifies(call[r])
          /\ \A k \in Carrier : alloc[k] = "AWAITING_DELIVERY_VERIFICATION" =>
                snap[r].alloc[k] = alloc[k] \/ k \in late
    /\ stage[r] = "verified" => call[r].op = "guest"
    /\ stage[r] = "paying" => Pays(call[r]) /\ SellerReadInv(snap[r].alloc[Seller])
    /\ Running(r, "acceptConformity") =>
          /\ verified > 0
          /\ \A k \in Carrier : alloc[k] = "AWAITING_DELIVERY_VERIFICATION" => k \in late
    /\ Running(r, "sweep") =>
          verified > 0 /\ snap[r].alloc[Seller] = "AWAITING_BUYER_CONFORMITY"
    /\ Running(r, "payout") =>
          /\ Earned(call[r].of)
          /\ snap[r].alloc[call[r].of] = "ELIGIBLE_FOR_RELEASE"

\* A call that is not in twice has one request at most.
OneEach ==
    \A q, r \in Req : call[q] = call[r] /\ call[r] \notin twice \cup {NoCall, AcceptCall}
                        => q = r

IInv ==
    /\ TypeOK
    /\ MoneyInv
    /\ PayoutInv
    /\ CodeInv
    /\ TriesInv
    /\ OneEach
    /\ \A r \in Req : ReqInv(r)

=============================================================================
