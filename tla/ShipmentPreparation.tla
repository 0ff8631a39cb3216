------------------------- MODULE ShipmentPreparation -------------------------
(***************************************************************************)
(* Preparing the shipment of one order while the order is being paid.      *)
(*                                                                         *)
(* createOrGetShipmentForOrder looks for a shipment, reads the order, and  *)
(* creates the shipment and the seller's escrow allocation in a later      *)
(* transaction; a payment looks for the allocation and the shipment inside *)
(* its own.  Neither locks what the other reads, Shipment.orderId is not   *)
(* unique, and PostgreSQL shows each statement what is committed: every    *)
(* read is a step of its own, and a transaction writes when it commits.    *)
(*                                                                         *)
(* A member of Call is one request; the shipment and the allocation it     *)
(* creates bear its name.                                                  *)
(***************************************************************************)
CONSTANTS
    Call,   \* requests, each made once
    NoRow   \* null, no row

OrderStatus == {"PENDING", "PAID", "SHIPPING", "DELIVERED", "CANCELLED"}
ShipmentStatus == {"AWAITING_PREPARATION", "READY_FOR_DISPATCH"}
SettlementStatus == {"PENDING_PAYMENT", "AWAITING_DELIVERY_VERIFICATION", "CANCELLED"}

ASSUME PreparationAssumption ==
    NoRow \notin Call \cup OrderStatus \cup ShipmentStatus \cup SettlementStatus

VARIABLES
    status,  \* Order.status
    ship,    \* the status of the shipment each request has created
    escrow,  \* the status of the seller's allocation each request has created
    net,     \* what it holds: the subtotal quoted, or the amount billed
    of,      \* its shipmentId
    at,      \* how far each request is
    read,    \* the order status it has read
    found,   \* the allocation it has found
    dest,    \* the shipment it has found
    met,     \* history: the requests that ran at the same time as each
    payers   \* history: the payments committed

rowVars == <<status, ship, escrow, net, of>>
requestVars == <<at, read, found, dest>>
prepVars == <<rowVars, requestVars, met, payers>>

Step == {"new", "looked", "quoted", "creating",
         "paying", "unescrowed", "crediting", "done"}

Running(r) == at[r] \notin {"new", "done"}
Paying(r) == at[r] \in {"paying", "unescrowed", "crediting"}
Shipments == {r \in Call : ship[r] # NoRow}
Allocations == {r \in Call : escrow[r] # NoRow}

\* A payment holds the order's row from its first statement on.
Locked == \E r \in Call : Paying(r)

BeginCall(r, step) ==
    /\ at[r] = "new"
    /\ at' = [at EXCEPT ![r] = step]
    /\ LET others == {q \in Call \ {r} : Running(q)}
       IN  met' = [q \in Call |-> IF q = r THEN others
                                 ELSE IF q \in others THEN met[q] \cup {r} ELSE met[q]]
    /\ UNCHANGED <<rowVars, read, found, dest, payers>>

\* The prepayment rule refuses, a call fails or the server stops: the
\* transaction, if there was one, is rolled back.
FailCall(r) ==
    /\ Running(r)
    /\ at' = [at EXCEPT ![r] = "done"]
    /\ UNCHANGED <<rowVars, read, found, dest, met, payers>>

-----------------------------------------------------------------------------
(* createOrGetShipmentForOrder *)

\* Variant: the existing shipment is not looked for.
PreparesAgain == TRUE

\* A shipment that exists already is the answer.
NothingPrepared == Shipments = {}

StartPreparation(r) ==
    /\ NothingPrepared
    /\ BeginCall(r, "looked")

ReadOrder(r) ==
    /\ at[r] = "looked"
    /\ at' = [at EXCEPT ![r] = "quoted"]
    /\ read' = [read EXCEPT ![r] = status]
    /\ UNCHANGED <<rowVars, found, dest, met, payers>>

\* The transaction's own shipment is written, and not yet seen by others.
FindAllocation(r) ==
    /\ at[r] = "quoted"
    /\ at' = [at EXCEPT ![r] = "creating"]
    /\ \E a \in IF Allocations = {} THEN {NoRow} ELSE Allocations :
         found' = [found EXCEPT ![r] = a]
    /\ UNCHANGED <<rowVars, read, dest, met, payers>>

FirstStatus(r) ==
    IF read[r] = "PAID" THEN "READY_FOR_DISPATCH" ELSE "AWAITING_PREPARATION"

WithoutEscrow(r) == found[r] = NoRow

\* Variant: the allocation found keeps its empty shipmentId.
LeftApart(r) == of

\* The allocation of an order paid before its shipment existed joins it.
Joined(r) == IF of[found[r]] = NoRow THEN [of EXCEPT ![found[r]] = r] ELSE of

CommitPreparation(r) ==
    /\ at[r] = "creating"
    /\ at' = [at EXCEPT ![r] = "done"]
    /\ ship' = [ship EXCEPT ![r] = FirstStatus(r)]
    /\ \/ /\ WithoutEscrow(r)
          /\ escrow' = [escrow EXCEPT ![r] = IF read[r] = "PAID"
                                             THEN "AWAITING_DELIVERY_VERIFICATION"
                                             ELSE "PENDING_PAYMENT"]
          /\ net' = [net EXCEPT ![r] = "quote"]
          /\ of' = [of EXCEPT ![r] = r]
       \/ /\ ~WithoutEscrow(r)
          /\ of' = Joined(r)
          /\ UNCHANGED <<escrow, net>>
    /\ UNCHANGED <<status, read, found, dest, met, payers>>

-----------------------------------------------------------------------------
(* creditSellerForPaidOrder and its copy in settlePaidOrderViaPayDunya *)

\* The conditional update of the order: the customer and the seller need it
\* PENDING, PayDunya only needs it not PAID.
StartPayment(r) ==
    /\ status # "PAID"
    /\ ~Locked
    /\ BeginCall(r, "paying")

FindEscrow(r) ==
    /\ at[r] = "paying"
    /\ \/ /\ Allocations = {}
          /\ at' = [at EXCEPT ![r] = "unescrowed"]
          /\ found' = [found EXCEPT ![r] = NoRow]
       \/ /\ at' = [at EXCEPT ![r] = "crediting"]
          /\ \E a \in Allocations : found' = [found EXCEPT ![r] = a]
    /\ UNCHANGED <<rowVars, read, dest, met, payers>>

FindShipment(r) ==
    /\ at[r] = "unescrowed"
    /\ at' = [at EXCEPT ![r] = "crediting"]
    /\ \E s \in IF Shipments = {} THEN {NoRow} ELSE Shipments :
         dest' = [dest EXCEPT ![r] = s]
    /\ UNCHANGED <<rowVars, read, found, met, payers>>

\* Variant: the shipments are not told.
StillWaiting == ship

\* The order's shipments that were waiting for its payment are ready.
MadeReady ==
    [s \in Call |-> IF ship[s] = "AWAITING_PREPARATION" THEN "READY_FOR_DISPATCH"
                   ELSE ship[s]]

\* The quote of the allocation found gives way to the bill.
BillWritten(a) == [net EXCEPT ![a] = "bill"]

CommitPayment(r) ==
    /\ at[r] = "crediting"
    /\ at' = [at EXCEPT ![r] = "done"]
    /\ status' = "PAID"
    /\ ship' = MadeReady
    /\ payers' = payers \cup {r}
    /\ \/ /\ found[r] = NoRow
          /\ escrow' = [escrow EXCEPT ![r] = "AWAITING_DELIVERY_VERIFICATION"]
          /\ net' = [net EXCEPT ![r] = "bill"]
          /\ of' = [of EXCEPT ![r] = dest[r]]
       \/ /\ found[r] # NoRow
          /\ escrow' = IF escrow[found[r]] = "PENDING_PAYMENT"
                       THEN [escrow EXCEPT ![found[r]] = "AWAITING_DELIVERY_VERIFICATION"]
                       ELSE escrow
          /\ net' = BillWritten(found[r])
          /\ of' = of
    /\ UNCHANGED <<read, found, dest, met>>

-----------------------------------------------------------------------------
(* The order's other writers *)

\* updateStatus and the admin's cancelOrder, whatever status they have read.
MoveOrder(s) ==
    /\ ~Locked
    /\ status # s
    /\ status' = s
    /\ UNCHANGED <<ship, escrow, net, of, requestVars, met, payers>>

\* cancelByCustomer closes the allocations if the order it has read was PAID.
CancelByCustomer ==
    /\ ~Locked
    /\ status \in {"PENDING", "PAID"}
    /\ status' = "CANCELLED"
    /\ \/ escrow' = escrow
       \/ /\ status = "PAID"
          /\ escrow' = [a \in Call |-> IF a \in Allocations THEN "CANCELLED" ELSE NoRow]
    /\ UNCHANGED <<ship, net, of, requestVars, met, payers>>

-----------------------------------------------------------------------------

PrepInit ==
    /\ status = "PENDING"
    /\ ship = [r \in Call |-> NoRow]
    /\ escrow = [r \in Call |-> NoRow]
    /\ net = [r \in Call |-> NoRow]
    /\ of = [r \in Call |-> NoRow]
    /\ at = [r \in Call |-> "new"]
    /\ read = [r \in Call |-> NoRow]
    /\ found = [r \in Call |-> NoRow]
    /\ dest = [r \in Call |-> NoRow]
    /\ met = [r \in Call |-> {}]
    /\ payers = {}

Prepare(r) ==
    StartPreparation(r) \/ ReadOrder(r) \/ FindAllocation(r) \/ CommitPreparation(r)

Pay(r) == StartPayment(r) \/ FindEscrow(r) \/ FindShipment(r) \/ CommitPayment(r)

PrepNext ==
    \/ \E r \in Call : Prepare(r) \/ Pay(r) \/ FailCall(r)
    \/ \E s \in {"SHIPPING", "DELIVERED", "CANCELLED"} : MoveOrder(s)
    \/ CancelByCustomer

PrepSpec == PrepInit /\ [][PrepNext]_prepVars

-----------------------------------------------------------------------------
(* Properties *)

\* Rows have the enumerated statuses of the schema; null stands for no row.
PrepTypeOK ==
    /\ status \in OrderStatus
    /\ ship \in [Call -> ShipmentStatus \cup {NoRow}]
    /\ escrow \in [Call -> SettlementStatus \cup {NoRow}]
    /\ net \in [Call -> {"quote", "bill", NoRow}]
    /\ of \in [Call -> Call \cup {NoRow}]
    /\ at \in [Call -> Step]
    /\ read \in [Call -> OrderStatus \cup {NoRow}]
    /\ found \in [Call -> Call \cup {NoRow}]
    /\ dest \in [Call -> Call \cup {NoRow}]
    /\ met \in [Call -> SUBSET Call]
    /\ payers \in SUBSET Call

\* An order has a second shipment only when two preparations of it ran at the
\* same time: findFirst answers every later call (delivery.service.ts:609).
OneShipment == \A p, q \in Shipments : p # q => q \in met[p]

\* An order has a second seller allocation, counted twice in the money held
\* from withdrawals, only when the requests that made the two overlapped.
OneAllocation == \A p, q \in Allocations : p # q => q \in met[p]

\* Requests that do not overlap prepare an order once, with one escrow.
PreparedOnce ==
    /\ OneShipment
    /\ OneAllocation

\* A paid order's shipment waits for preparation only when a payment committed
\* while the shipment was being prepared from the order read before.
ReadyWhenPaid ==
    \A s \in Shipments :
        status = "PAID" /\ ship[s] = "AWAITING_PREPARATION" => met[s] \cap payers # {}

\* Money in escrow is what the order was billed, never the subtotal its
\* shipment was quoted, although a preparation may open the escrow itself.
EscrowIsBilled ==
    \A a \in Allocations :
        escrow[a] = "AWAITING_DELIVERY_VERIFICATION" => net[a] = "bill"

\* Verification finds the seller's allocation through its shipment: one left
\* without, whose money no delivery would release, was created by a payment
\* that overlapped the preparation of a shipment.
EscrowFollowsShipment ==
    \A a \in Allocations :
        of[a] = NoRow /\ Shipments # {} => met[a] \cap Shipments # {}

\* The verification of a delivery finds the escrow, and in it what was billed.
EscrowReached ==
    /\ EscrowIsBilled
    /\ EscrowFollowsShipment

\* What requests remember of each other, whatever they do.
MetInv ==
    /\ \A p, q \in Call : q \in met[p] => p \in met[q] /\ p # q
    /\ \A p, q \in Call : Running(p) /\ Running(q) /\ p # q => q \in met[p]
    /\ \A r \in Call : at[r] = "new" =>
          /\ met[r] = {}
          /\ ship[r] = NoRow
          /\ escrow[r] = NoRow
          /\ r \notin payers
    /\ \A p, q \in Call : p # q /\ (Paying(p) \/ p \in payers) /\ (Paying(q) \/ q \in payers)
                            => q \notin met[p]

\* What has been written, and by whom.
RowInv ==
    /\ \A r \in Call : Running(r) => ship[r] = NoRow /\ escrow[r] = NoRow /\ r \notin payers
    /\ payers \cap Shipments = {}
    /\ Allocations \subseteq payers \cup Shipments
    /\ \A a \in Allocations \cap Shipments : of[a] # NoRow
    /\ status = "PAID" => \E a \in Allocations : net[a] = "bill"

\* What a request has found, as far as it still holds.
CallInv(r) ==
    /\ at[r] \in {"looked", "quoted", "creating"} => Shipments \subseteq met[r]
    /\ at[r] \in {"quoted", "creating"} =>
          /\ read[r] # "PAID" /\ status = "PAID" => met[r] \cap payers # {}
          /\ read[r] = "PAID" => Allocations # {}
    /\ at[r] \in {"creating", "crediting"} => found[r] \in Allocations \cup {NoRow}
    /\ at[r] = "creating" /\ found[r] = NoRow => read[r] # "PAID"
    /\ at[r] = "unescrowed" => found[r] = NoRow
    /\ at[r] \in {"creating", "unescrowed", "crediting"} /\ found[r] = NoRow =>
          Allocations \subseteq met[r]
    /\ at[r] = "crediting" /\ found[r] = NoRow /\ dest[r] = NoRow => Shipments \subseteq met[r]

\* Why every request keeps the properties above.
PrepInv ==
    /\ PrepTypeOK
    /\ OneShipment
    /\ OneAllocation
    /\ ReadyWhenPaid
    /\ EscrowIsBilled
    /\ EscrowFollowsShipment
    /\ MetInv
    /\ RowInv
    /\ \A r \in Call : CallInv(r)

=============================================================================
