------------------------ MODULE OrderPayment_proofs ------------------------
EXTENDS OrderPayment, Sums, TLAPS

\* The commission is never more than the gross amount, so the net the seller is
\* credited with is never negative: whatever the rounding of toFixed(2).
LEMMA CommissionBounds ==
    ASSUME NEW gross \in Nat, NEW p, NEW fee \in Commission(gross, Rate(p))
    PROVE  fee \in Nat /\ fee <= gross
<1>1. Rate(p) \in {15, 20, 50}
  BY DEF Rate
<1>2. ASSUME NEW rate \in {15, 20, 50}, Rate(p) = rate
      PROVE  fee \in Nat /\ fee <= gross
  <2>. DEFINE low == (gross * rate) \div 1000
  <2>1. low \in Nat
    BY <1>2
  <2>2. fee \in {low, low + 1} /\ 1000 * fee - gross * rate \in -500 .. 500
    BY <1>2 DEF Commission
  <2>3. fee \in Nat
    BY <2>1, <2>2
  <2>4. 1000 * fee <= gross * rate + 500
    BY <2>2, <2>3
  <2>5. fee <= gross
    BY <2>3, <2>4
  <2>. QED BY <2>3, <2>5
<1>. QED BY <1>1, <1>2

\* What an order is worth, and earns, is a natural number.
LEMMA GrossType == \A o \in Order : Gross(o) \in Nat /\ PointsEarned(o) \in Nat
  BY OrderAssumption DEF Gross, PointsEarned

-----------------------------------------------------------------------------
(* Types *)

\* What the seller gets for an order: the recorded bill is gross = fee + net,
\* and every column the credit writes keeps its type.
LEMMA CreditSellerTypes ==
    ASSUME TypeOK, NEW o \in Order, CreditSeller(o)
    PROVE  /\ bill' \in [Order -> Bill \cup {NoBill}]
           /\ alloc' \in [Order -> [status: AllocStatus, net: Nat]]
           /\ shipment' \in [Order -> ShipmentStatus]
           /\ balance' \in Int
           /\ points' \in [User -> Nat]
           /\ credits' \in [Order -> Nat]
           /\ credited' \in [Order -> Nat]
<1>1. PICK fee \in Commission(Gross(o), Rate(plan)) :
        /\ bill' = [bill EXCEPT ![o] = [fee |-> fee, net |-> Gross(o) - fee]]
        /\ balance' = balance + (Gross(o) - fee)
        /\ credited' = [credited EXCEPT ![o] = @ + (Gross(o) - fee)]
        /\ alloc' = [alloc EXCEPT ![o] = Escrow(@, Gross(o) - fee)]
  BY DEF CreditSeller
<1>2. fee \in Nat /\ Gross(o) - fee \in Nat
  BY CommissionBounds, GrossType
<1>3. bill' \in [Order -> Bill \cup {NoBill}]
  BY <1>1, <1>2 DEF TypeOK, Bill
<1>4. alloc' \in [Order -> [status: AllocStatus, net: Nat]]
  BY <1>1, <1>2 DEF TypeOK, Escrow, AllocStatus
<1>5. balance' \in Int
  BY <1>1, <1>2 DEF TypeOK
<1>6. credited' \in [Order -> Nat]
  BY <1>1, <1>2 DEF TypeOK
<1>7. credits' \in [Order -> Nat] /\ shipment' \in [Order -> ShipmentStatus]
  BY DEF TypeOK, CreditSeller, ShipmentStatus
<1>8. points' \in [User -> Nat]
  BY GrossType DEF TypeOK, CreditSeller, AwardPoints
<1>. QED BY <1>3, <1>4, <1>5, <1>6, <1>7, <1>8

\* A change of status keeps the types of what it writes.
LEMMA SetStatusTypes ==
    ASSUME TypeOK, NEW o \in Order, NEW s \in Status, SetStatus(o, s)
    PROVE  status' \in [Order -> Status] /\ exits' \in [Order -> Nat]
  BY DEF TypeOK, SetStatus

\* Moving an allocation changes its status, not its amount, and no other one.
LEMMA MoveAllocFacts ==
    ASSUME TypeOK, NEW o \in Order, NEW s \in AllocStatus, MoveAlloc(o, s)
    PROVE  /\ alloc' \in [Order -> [status: AllocStatus, net: Nat]]
           /\ alloc'[o].status = s
           /\ alloc'[o].net = alloc[o].net
           /\ \A x \in Order : x # o => alloc'[x] = alloc[x]
<1>. DEFINE a == [alloc[o] EXCEPT !.status = s]
<1>1. alloc[o] \in [status: AllocStatus, net: Nat]
  BY DEF TypeOK
<1>2. a \in [status: AllocStatus, net: Nat] /\ a.status = s /\ a.net = alloc[o].net
  BY <1>1
<1>3. alloc' = [alloc EXCEPT ![o] = a]
  BY DEF MoveAlloc
<1>. HIDE DEF a
<1>. QED BY <1>2, <1>3 DEF TypeOK

\* Points returned keep the types of what they write.
LEMMA ReturnPointsTypes ==
    ASSUME TypeOK, NEW o \in Order, ReturnPoints(o)
    PROVE  points' \in [User -> Nat] /\ returned' \in [Order -> Nat]
<1>1. PointsUsed[o] \in Nat
  BY OrderAssumption
<1>2. CASE Buyer[o] \in User /\ PointsUsed[o] > 0
  <2>1. /\ points' = [points EXCEPT ![Buyer[o]] = @ + PointsUsed[o]]
        /\ returned' = [returned EXCEPT ![o] = @ + 1]
    BY <1>2 DEF ReturnPoints
  <2>2. points[Buyer[o]] + PointsUsed[o] \in Nat
    BY <1>1, <1>2 DEF TypeOK
  <2>3. points' \in [User -> Nat]
    BY <2>1, <2>2 DEF TypeOK
  <2>4. returned' \in [Order -> Nat]
    BY <2>1 DEF TypeOK
  <2>. QED BY <2>3, <2>4
<1>3. CASE ~(Buyer[o] \in User /\ PointsUsed[o] > 0)
  BY <1>3 DEF TypeOK, ReturnPoints
<1>. QED BY <1>2, <1>3

\* A request that answers keeps the types of what it forgets.
LEMMA AnswerTypes ==
    ASSUME RequestTypes, NEW r \in Req, Answer(r),
           since' \in [Req -> SUBSET Changes]
    PROVE  RequestTypes'
<1>1. BlankRow \in OrderRow
  BY DEF BlankRow, OrderRow, Status
<1>2. NothingHeld \in [Order -> Nat]
  BY DEF NothingHeld
<1>3. /\ pc' \in [Req -> {"idle", "counting", "running", "done"}]
      /\ call' \in [Req -> Calls \cup {NoCall}]
      /\ \A q \in Req : pc'[q] \in {"counting", "running"} => call'[q] \in Calls
  BY DEF RequestTypes, Answer
<1>4. seen' \in [Req -> OrderRow]
  BY <1>1 DEF RequestTypes, Answer
<1>5. heldSeen' \in [Req -> [Order -> Nat]]
  BY <1>2 DEF RequestTypes, Answer
<1>6. balanceSeen' \in [Req -> Int]
  <2>1. balanceSeen \in [Req -> Int] /\ balanceSeen' = [balanceSeen EXCEPT ![r] = 0]
    BY DEF RequestTypes, Answer
  <2>. QED BY <2>1
<1>. QED BY <1>3, <1>4, <1>5, <1>6 DEF RequestTypes

\* So does a request that commits.
LEMMA FinishTypes ==
    ASSUME TypeOK, NEW r \in Req, NEW op, Finish(r, op), Notice(r)
    PROVE  RequestTypes'
<1>1. Answer(r) /\ RequestTypes
  BY DEF Finish, TypeOK
<1>2. since' \in [Req -> SUBSET Changes]
  <2>. DEFINE s == [q \in Req |-> since'[q]]
  <2>1. ASSUME NEW q \in Req PROVE since'[q] \in SUBSET Changes
    BY <1>1 DEF RequestTypes, Notice, Changes
  <2>. QED BY <2>1 DEF Notice
<1>. QED BY <1>1, <1>2, AnswerTypes

\* A running request was given one of the calls, of the shape its op has.
LEMMA CallShape ==
    ASSUME TypeOK, NEW r \in Req, NEW op, Finish(r, op)
    PROVE  /\ call[r] \in Calls /\ call[r].op = op
           /\ op # "requestWithdrawal" => call[r].order \in Order
           /\ op = "requestWithdrawal" => call[r].amount \in Nat
           /\ op = "updateStatus" => call[r].target \in SellerTargets
<1>1. call[r] \in Calls /\ call[r].op = op
  BY DEF TypeOK, RequestTypes, Finish
<1>2. call[r] \in AllCalls
  BY <1>1, CallsAssumption
<1>. QED BY <1>1, <1>2 DEF AllCalls

\* A payment that commits keeps the types.
LEMMA PayIfPendingTypes ==
    ASSUME TypeOK, NEW r \in Req, NEW op, Finish(r, op), Notice(r),
           NEW o \in Order, PayIfPending(o)
    PROVE  TypeOK'
<1>1. CASE status[o] = "PENDING"
  <2>1. /\ SetStatus(o, "PAID") /\ CreditSeller(o)
        /\ UNCHANGED <<debitVars, returnVars, otherVars, bypassed>>
    BY <1>1 DEF PayIfPending
  <2>2. "PAID" \in Status
    BY DEF Status
  <2>. QED BY <2>1, <2>2, SetStatusTypes, CreditSellerTypes, FinishTypes
           DEF TypeOK, debitVars, returnVars, otherVars
<1>2. CASE status[o] # "PENDING"
  <2>1. UNCHANGED dbVars
    BY <1>2 DEF PayIfPending
  <2>. QED BY <2>1, FinishTypes DEF TypeOK, dbVars, orderVars, creditVars,
                  debitVars, returnVars, otherVars
<1>. QED BY <1>1, <1>2

\* The initial states have the types.
LEMMA InitType == Init => TypeOK
<1>. SUFFICES ASSUME Init PROVE TypeOK
  OBVIOUS
<1>1. alloc \in [Order -> [status: AllocStatus, net: Nat]]
  <2>1. QuotedNet \in [Order -> Nat]
    BY OrderAssumption
  <2>. QED BY <2>1 DEF Init, AllocStatus
<1>2. /\ seen \in [Req -> OrderRow]
      /\ balanceSeen \in [Req -> Int]
      /\ heldSeen \in [Req -> [Order -> Nat]]
      /\ since \in [Req -> SUBSET Changes]
  BY DEF Init, BlankRow, NothingHeld, OrderRow, Status
<1>3. /\ shipment \in [Order -> ShipmentStatus]
      /\ status \in [Order -> Status]
      /\ bill \in [Order -> Bill \cup {NoBill}]
      /\ refund \in [Order -> RefundStatus]
      /\ invoice \in [Order -> InvoiceStatus]
      /\ plan \in Plans \cup {"starter"}
      /\ balance \in Int
  BY ConstantAssumption DEF Init, ShipmentStatus, Status, RefundStatus, InvoiceStatus
<1>4. /\ pc \in [Req -> {"idle", "counting", "running", "done"}]
      /\ call \in [Req -> Calls \cup {NoCall}]
      /\ \A r \in Req : pc[r] \in {"counting", "running"} => call[r] \in Calls
  BY DEF Init
<1>. QED BY <1>1, <1>2, <1>3, <1>4 DEF Init, TypeOK, RequestTypes

\* The first phase of a request keeps the types.
LEMMA ReadType ==
    ASSUME TypeOK, NEW r \in Req, Read(r)
    PROVE  TypeOK'
<1>1. PICK c \in Calls :
        /\ call' = [call EXCEPT ![r] = c]
        /\ IF c.op = "requestWithdrawal"
              THEN /\ balanceSeen' = [balanceSeen EXCEPT ![r] = balance]
                   /\ pc' = [pc EXCEPT ![r] = "counting"]
                   /\ UNCHANGED seen
              ELSE /\ seen' = [seen EXCEPT ![r] = RowRead(c)]
                   /\ pc' = [pc EXCEPT ![r] = "running"]
                   /\ UNCHANGED balanceSeen
  BY DEF Read
<1>2. c.op # "requestWithdrawal" => c.order \in Order
  BY CallsAssumption DEF AllCalls
<1>3. c.op # "requestWithdrawal" => RowRead(c) \in OrderRow
  BY <1>2 DEF TypeOK, RowRead, BlankRow, OrderRow, Status
<1>4. RequestTypes /\ balance \in Int
  BY DEF TypeOK
<1>5. /\ pc' \in [Req -> {"idle", "counting", "running", "done"}]
      /\ call' \in [Req -> Calls \cup {NoCall}]
      /\ \A q \in Req : pc'[q] \in {"counting", "running"} => call'[q] \in Calls
      /\ seen' \in [Req -> OrderRow]
      /\ balanceSeen' \in [Req -> Int]
  BY <1>1, <1>3, <1>4 DEF RequestTypes
<1>6. UNCHANGED <<dbVars, heldSeen, since>>
  BY DEF Read
<1>7. RequestTypes'
  BY <1>4, <1>5, <1>6 DEF RequestTypes
<1>. QED BY <1>6, <1>7 DEF TypeOK, dbVars, orderVars, creditVars, debitVars, returnVars,
              otherVars

\* What is held is a number for each order.
LEMMA HeldNetType == TypeOK => HeldNet \in [Order -> Nat]
  BY DEF TypeOK, HeldNet

\* So does a withdrawal's second read.
LEMMA CountHeldType ==
    ASSUME TypeOK, NEW r \in Req, CountHeld(r)
    PROVE  TypeOK'
<1>1. UNCHANGED dbVars
  BY DEF CountHeld
<1>2. RequestTypes /\ HeldNet \in [Order -> Nat]
  BY HeldNetType DEF TypeOK
<1>3. RequestTypes'
  <2>1. CASE call[r].amount + SumFunction(HeldNet) <= balanceSeen[r]
    <3>1. /\ heldSeen' = [heldSeen EXCEPT ![r] = HeldNet]
          /\ pc' = [pc EXCEPT ![r] = "running"]
          /\ pc[r] = "counting"
          /\ UNCHANGED <<call, seen, balanceSeen, since>>
      BY <2>1 DEF CountHeld
    <3>. QED BY <1>2, <3>1 DEF RequestTypes
  <2>2. CASE ~(call[r].amount + SumFunction(HeldNet) <= balanceSeen[r])
    <3>1. Answer(r) /\ since' = [since EXCEPT ![r] = {}]
      BY <2>2 DEF CountHeld
    <3>2. since' \in [Req -> SUBSET Changes]
      BY <1>2, <3>1 DEF RequestTypes
    <3>. QED BY <1>2, <3>1, <3>2, AnswerTypes
  <2>. QED BY <2>1, <2>2
<1>. QED BY <1>1, <1>3 DEF TypeOK, dbVars, orderVars, creditVars, debitVars, returnVars,
              otherVars

\* So does the second.
LEMMA CommitType ==
    ASSUME TypeOK, NEW r \in Req, Commit(r)
    PROVE  TypeOK'
<1>. DEFINE o == call[r].order
<1>1. CASE ConfirmPayment(r)
  <2>1. Finish(r, "confirmPayment") /\ PayIfPending(o) /\ Notice(r)
    BY <1>1 DEF ConfirmPayment
  <2>. QED BY <2>1, CallShape, PayIfPendingTypes
<1>2. CASE UpdateStatus(r)
  <2>1. Finish(r, "updateStatus") /\ Notice(r)
    BY <1>2 DEF UpdateStatus
  <2>2. o \in Order /\ call[r].target \in Status
    BY <2>1, CallShape DEF SellerTargets
  <2>3. CASE call[r].target = "PAID"
    BY <1>2, <2>1, <2>2, <2>3, PayIfPendingTypes DEF UpdateStatus
  <2>4. CASE call[r].target # "PAID"
    <3>1. /\ SetStatus(o, call[r].target)
          /\ UNCHANGED <<creditVars, balance, points, debitVars, returnVars,
                         otherVars, bypassed>>
      BY <1>2, <2>4 DEF UpdateStatus
    <3>. QED BY <2>1, <2>2, <3>1, FinishTypes, SetStatusTypes
             DEF TypeOK, creditVars, debitVars, returnVars, otherVars
  <2>. QED BY <2>3, <2>4
<1>3. CASE SettlePaidOrder(r)
  <2>1. Finish(r, "settlePaidOrder") /\ Notice(r)
    BY <1>3 DEF SettlePaidOrder
  <2>2. o \in Order /\ "PAID" \in Status
    BY <2>1, CallShape DEF Status
  <2>3. CASE status[o] # "PAID"
    <3>1. /\ SetStatus(o, "PAID") /\ CreditSeller(o)
          /\ bypassed' = [bypassed EXCEPT ![o] = @ \/ status[o] # "PENDING"]
          /\ UNCHANGED <<debitVars, returnVars, otherVars>>
      BY <1>3, <2>3 DEF SettlePaidOrder
    <3>. QED BY <2>1, <2>2, <3>1, FinishTypes, SetStatusTypes, CreditSellerTypes
             DEF TypeOK, debitVars, returnVars, otherVars
  <2>4. CASE status[o] = "PAID"
    <3>1. UNCHANGED dbVars
      BY <1>3, <2>4 DEF SettlePaidOrder
    <3>. QED BY <2>1, <3>1, FinishTypes DEF TypeOK, dbVars, orderVars, creditVars,
                  debitVars, returnVars, otherVars
  <2>. QED BY <2>3, <2>4
<1>4. CASE CancelByCustomer(r)
  <2>1. Finish(r, "cancelByCustomer") /\ Notice(r)
    BY <1>4 DEF CancelByCustomer
  <2>2. o \in Order /\ "CANCELLED" \in Status
    BY <2>1, CallShape DEF Status
  <2>3. CASE StillCancellable(o)
    <3>1. /\ SetStatus(o, "CANCELLED") /\ Restock(o)
          /\ UNCHANGED <<bill, shipment, credits, credited, refunded, otherVars,
                         bypassed>>
      BY <1>4, <2>3 DEF CancelByCustomer
    <3>2. restocked' \in [Order -> Nat]
      BY <2>2, <3>1 DEF TypeOK, Restock
    <3>3. CASE seen[r].status = "PAID"
      <4>1. /\ Debit(o, CreditedAmount(o, seen[r]))
            /\ cancelDebits' = [cancelDebits EXCEPT ![o] = @ + 1]
            /\ MoveAlloc(o, IF alloc[o].status = "NONE" THEN "NONE" ELSE "CANCELLED")
            /\ ReturnPoints(o)
        BY <1>4, <2>3, <3>3 DEF CancelByCustomer
      <4>2. CreditedAmount(o, seen[r]) \in Int
        <5>1. seen[r] \in OrderRow
          BY DEF TypeOK, RequestTypes
        <5>2. Gross(o) \in Nat /\ Total[o] \in Nat
          BY <2>2, GrossType, OrderAssumption
        <5>3. seen[r].bill # NoBill => seen[r].bill.fee \in Nat
          BY <5>1 DEF OrderRow, Bill
        <5>. QED BY <5>2, <5>3 DEF CreditedAmount
      <4>3. balance' \in Int /\ debited' \in [Order -> Int]
        BY <2>2, <4>1, <4>2 DEF TypeOK, Debit
      <4>4. alloc' \in [Order -> [status: AllocStatus, net: Nat]]
        BY <2>2, <4>1, MoveAllocFacts DEF AllocStatus
      <4>5. cancelDebits' \in [Order -> Nat]
        BY <2>2, <4>1 DEF TypeOK
      <4>. QED BY <2>1, <2>2, <3>1, <3>2, <4>1, <4>3, <4>4, <4>5, FinishTypes,
                  SetStatusTypes, ReturnPointsTypes DEF TypeOK, otherVars
    <3>4. CASE seen[r].status # "PAID"
      <4>1. UNCHANGED <<balance, debited, cancelDebits, alloc, points, returned>>
        BY <1>4, <2>3, <3>4 DEF CancelByCustomer
      <4>. QED BY <2>1, <2>2, <3>1, <3>2, <4>1, FinishTypes, SetStatusTypes
               DEF TypeOK, otherVars
    <3>. QED BY <3>3, <3>4
  <2>4. CASE ~StillCancellable(o)
    <3>1. UNCHANGED dbVars
      BY <1>4, <2>4 DEF CancelByCustomer
    <3>. QED BY <2>1, <3>1, FinishTypes DEF TypeOK, dbVars, orderVars, creditVars,
                  debitVars, returnVars, otherVars
  <2>. QED BY <2>3, <2>4
<1>5. CASE CancelOrder(r)
  <2>1. Finish(r, "cancelOrder") /\ Notice(r)
    BY <1>5 DEF CancelOrder
  <2>2. o \in Order /\ "CANCELLED" \in Status
    BY <2>1, CallShape DEF Status
  <2>3. /\ SetStatus(o, "CANCELLED") /\ Restock(o)
        /\ bypassed' = [bypassed EXCEPT ![o] = TRUE]
        /\ UNCHANGED <<creditVars, refunded, cancelDebits, otherVars>>
    BY <1>5 DEF CancelOrder
  <2>4. restocked' \in [Order -> Nat]
    BY <2>2, <2>3 DEF TypeOK, Restock
  <2>5. CASE seen[r].status = "PAID"
    <3>1. Debit(o, Total[o]) /\ ReturnPoints(o)
      BY <1>5, <2>5 DEF CancelOrder
    <3>2. Total[o] \in Nat
      BY <2>2, OrderAssumption
    <3>3. balance' \in Int /\ debited' \in [Order -> Int]
      BY <2>2, <3>1, <3>2 DEF TypeOK, Debit
    <3>. QED BY <2>1, <2>2, <2>3, <2>4, <3>1, <3>3, FinishTypes, SetStatusTypes,
                ReturnPointsTypes DEF TypeOK, creditVars, otherVars
  <2>6. CASE seen[r].status # "PAID"
    <3>1. UNCHANGED <<balance, debited, points, returned>>
      BY <1>5, <2>6 DEF CancelOrder
    <3>. QED BY <2>1, <2>2, <2>3, <2>4, <3>1, FinishTypes, SetStatusTypes
             DEF TypeOK, creditVars, otherVars
  <2>. QED BY <2>5, <2>6
<1>6. CASE CreateRequest(r)
  <2>1. Finish(r, "createRequest") /\ Notice(r)
    BY <1>6 DEF CreateRequest
  <2>2. o \in Order
    BY <2>1, CallShape
  <2>3. CASE refund[o] = "NONE"
    <3>1. refund' = [refund EXCEPT ![o] = "PENDING"]
      BY <1>6, <2>3 DEF CreateRequest
    <3>2. MoveAlloc(o, IF alloc[o].status \in Holdable THEN "ON_HOLD_DISPUTE"
                                                     ELSE alloc[o].status)
      BY <1>6, <2>3 DEF CreateRequest
    <3>3. UNCHANGED <<orderVars, bill, shipment, credits, credited, balance, points,
                      debitVars, returnVars, withdrawn, plan, invoice, bypassed>>
      BY <1>6, <2>3 DEF CreateRequest
    <3>4. refund' \in [Order -> RefundStatus]
      BY <2>2, <3>1 DEF TypeOK, RefundStatus
    <3>5. alloc' \in [Order -> [status: AllocStatus, net: Nat]]
      <4>1. alloc[o].status \in AllocStatus /\ "ON_HOLD_DISPUTE" \in AllocStatus
        BY <2>2 DEF TypeOK, AllocStatus
      <4>. QED BY <2>2, <3>2, <4>1, MoveAllocFacts
    <3>. QED BY <2>1, <3>3, <3>4, <3>5, FinishTypes
             DEF TypeOK, orderVars, debitVars, returnVars
  <2>4. CASE refund[o] # "NONE"
    <3>1. UNCHANGED dbVars
      BY <1>6, <2>4 DEF CreateRequest
    <3>. QED BY <2>1, <3>1, FinishTypes DEF TypeOK, dbVars, orderVars, creditVars,
                  debitVars, returnVars, otherVars
  <2>. QED BY <2>3, <2>4
<1>7. CASE VendorReply(r)
  <2>1. Finish(r, "vendorReply") /\ Notice(r)
    BY <1>7 DEF VendorReply
  <2>2. refund' \in [Order -> RefundStatus]
    BY <1>7, <2>1, CallShape DEF VendorReply, TypeOK, RefundStatus
  <2>. QED BY <1>7, <2>1, <2>2, FinishTypes
           DEF VendorReply, TypeOK, orderVars, creditVars, debitVars, returnVars
<1>8. CASE AdminDecide(r)
  <2>1. Finish(r, "adminDecide") /\ Notice(r)
    BY <1>8 DEF AdminDecide
  <2>2. o \in Order
    BY <2>1, CallShape
  <2>3. refund' \in [Order -> RefundStatus]
    BY <1>8, <2>2 DEF AdminDecide, TypeOK, RefundStatus
  <2>4. /\ alloc' \in [Order -> [status: AllocStatus, net: Nat]]
        /\ balance' \in Int
        /\ refunded' \in [Order -> Nat]
    <3>1. CASE MoveAlloc(o, "REFUNDED") /\ DebitRefund(o, alloc[o].net)
      <4>1. "REFUNDED" \in AllocStatus /\ alloc[o].net \in Nat
        BY <2>2 DEF TypeOK, AllocStatus
      <4>. QED BY <2>2, <3>1, <4>1, MoveAllocFacts DEF TypeOK, DebitRefund
    <3>2. CASE /\ seen[r].bill # NoBill
               /\ DebitRefund(o, seen[r].bill.net)
               /\ UNCHANGED alloc
      <4>1. seen[r].bill.net \in Nat
        BY <3>2 DEF TypeOK, RequestTypes, OrderRow, Bill
      <4>. QED BY <2>2, <3>2, <4>1 DEF TypeOK, DebitRefund
    <3>3. CASE UNCHANGED <<alloc, balance, refunded>>
      BY <3>3 DEF TypeOK
    <3>. QED BY <1>8, <3>1, <3>2, <3>3 DEF AdminDecide
  <2>5. UNCHANGED <<orderVars, bill, shipment, credits, credited, points, debited,
                    cancelDebits, returnVars, withdrawn, plan, invoice, bypassed>>
    BY <1>8 DEF AdminDecide
  <2>. QED BY <2>1, <2>3, <2>4, <2>5, FinishTypes DEF TypeOK, orderVars, returnVars
<1>9. CASE RequestWithdrawal(r)
  <2>1. Finish(r, "requestWithdrawal") /\ Notice(r)
    BY <1>9 DEF RequestWithdrawal
  <2>2. call[r].amount \in Nat
    BY <2>1, CallShape
  <2>3. CASE Affordable(call[r].amount, heldSeen[r])
    <3>1. /\ balance' = balance - call[r].amount
          /\ withdrawn' = withdrawn + call[r].amount
          /\ UNCHANGED <<orderVars, creditVars, points, debitVars, returnVars,
                         refund, plan, invoice, bypassed>>
      BY <1>9, <2>3 DEF RequestWithdrawal
    <3>2. balance' \in Int /\ withdrawn' \in Nat
      BY <2>2, <3>1 DEF TypeOK
    <3>. QED BY <2>1, <3>1, <3>2, FinishTypes
             DEF TypeOK, orderVars, creditVars, debitVars, returnVars
  <2>4. CASE ~Affordable(call[r].amount, heldSeen[r])
    <3>1. UNCHANGED dbVars
      BY <1>9, <2>4 DEF RequestWithdrawal
    <3>. QED BY <2>1, <3>1, FinishTypes DEF TypeOK, dbVars, orderVars, creditVars,
                  debitVars, returnVars, otherVars
  <2>. QED BY <2>3, <2>4
<1>. QED BY <1>1, <1>2, <1>3, <1>4, <1>5, <1>6, <1>7, <1>8, <1>9 DEF Commit

\* What PayDunya and the plans do keeps the types.
LEMMA WorldType ==
    ASSUME TypeOK,
           \/ \E o \in Order : CreateCheckout(o) \/ PayInvoice(o)
           \/ \E p \in Plans : ActivatePlan(p)
    PROVE  TypeOK'
<1>1. ASSUME NEW o \in Order, CreateCheckout(o) \/ PayInvoice(o)
      PROVE  TypeOK'
  <2>1. invoice' \in [Order -> InvoiceStatus]
    BY <1>1 DEF TypeOK, InvoiceStatus, CreateCheckout, PayInvoice
  <2>2. UNCHANGED <<orderVars, creditVars, balance, points, debitVars, returnVars,
                    refund, withdrawn, plan, bypassed, reqVars>>
    BY <1>1 DEF CreateCheckout, PayInvoice
  <2>. QED BY <2>1, <2>2 DEF TypeOK, orderVars, creditVars, debitVars, returnVars,
                         reqVars, RequestTypes
<1>2. ASSUME NEW p \in Plans, ActivatePlan(p)
      PROVE  TypeOK'
  <2>1. plan' \in Plans \cup {"starter"}
    BY <1>2 DEF ActivatePlan
  <2>2. UNCHANGED <<orderVars, invoice, creditVars, balance, points, debitVars, returnVars,
                    refund, withdrawn, bypassed, reqVars>>
    BY <1>2 DEF ActivatePlan
  <2>. QED BY <2>1, <2>2 DEF TypeOK, orderVars, creditVars, debitVars, returnVars,
                         reqVars, RequestTypes
<1>. QED BY <1>1, <1>2

\* Every step keeps the types.
LEMMA StepType == TypeOK /\ [Next]_vars => TypeOK'
<1>. SUFFICES ASSUME TypeOK, [Next]_vars PROVE TypeOK'
  OBVIOUS
<1>1. CASE \E r \in Req : Read(r) \/ CountHeld(r) \/ Commit(r)
  BY <1>1, ReadType, CountHeldType, CommitType
<1>2. CASE \/ \E o \in Order : CreateCheckout(o) \/ PayInvoice(o)
           \/ \E p \in Plans : ActivatePlan(p)
  BY <1>2, WorldType
<1>3. CASE UNCHANGED vars
  BY <1>3 DEF TypeOK, vars, dbVars, orderVars, creditVars, debitVars, returnVars,
              otherVars, reqVars, RequestTypes
<1>. QED BY <1>1, <1>2, <1>3 DEF Next

\* Every variable keeps its type, for any orders, requests and amounts.  In
\* particular the net that is credited is never negative.
THEOREM TypeCorrect == Spec => []TypeOK
<1>1. Init => TypeOK
  BY InitType
<1>2. TypeOK /\ [Next]_vars => TypeOK'
  BY StepType
<1>. QED BY <1>1, <1>2, PTL DEF Spec

-----------------------------------------------------------------------------
(* The inductive invariant *)

\* Nothing of order x changes.
SameOrder(x) ==
    /\ status'[x] = status[x] /\ exits'[x] = exits[x]
    /\ bill'[x] = bill[x] /\ alloc'[x] = alloc[x]
    /\ credits'[x] = credits[x] /\ credited'[x] = credited[x]
    /\ debited'[x] = debited[x] /\ cancelDebits'[x] = cancelDebits[x]
    /\ restocked'[x] = restocked[x] /\ returned'[x] = returned[x]
    /\ refund'[x] = refund[x] /\ bypassed'[x] = bypassed[x]

\* What a step may do to order x under the feet of the requests that read it.
Monotone(x) ==
    /\ status[x] # "PENDING" => status'[x] # "PENDING"
    /\ refund[x] # "NONE" => refund'[x] # "NONE"
    /\ bypassed[x] => bypassed'[x]
    /\ ~bypassed'[x] /\ bill[x] # NoBill => bill'[x] = bill[x]

\* An order that a step leaves alone keeps its invariant.
LEMMA SameOrderKeeps ==
    ASSUME NEW x \in Order, OrderInv(x), SameOrder(x)
    PROVE  OrderInv(x)' /\ Monotone(x)
  BY DEF OrderInv, SameOrder, Monotone

\* Stale rows stay as useful as they were when orders change monotonically.
LEMMA OtherRequests ==
    ASSUME IInv, NEW r \in Req, NEW op, Finish(r, op),
           \A x \in Order : Monotone(x)
    PROVE  \A q \in Req : ReqInv(q)'
<1>. SUFFICES ASSUME NEW q \in Req, pc'[q] \in {"counting", "running"}
              PROVE  ReqInv(q)'
  BY DEF ReqInv
<1>1. /\ q # r /\ pc'[q] = pc[q]
      /\ call'[q] = call[q] /\ seen'[q] = seen[q]
  BY DEF Finish, Answer, IInv, TypeOK, RequestTypes
<1>2. ReqInv(q)
  BY DEF IInv
<1>3. call[q].op # "requestWithdrawal" => Monotone(call[q].order)
  <2>1. call[q] \in Calls
    BY <1>1 DEF IInv, TypeOK, RequestTypes
  <2>. QED BY <2>1, CallsAssumption DEF AllCalls
<1>. QED BY <1>1, <1>2, <1>3 DEF ReqInv, Monotone

\* A step of request r on order o keeps the invariant if it keeps o's part of it,
\* changes o monotonically and touches no other order.
LEMMA StepOnOneOrder ==
    ASSUME IInv, TypeOK', NEW r \in Req, NEW op, Finish(r, op),
           NEW o \in Order, OrderInv(o)', Monotone(o),
           \A x \in Order : x # o => SameOrder(x)
    PROVE  IInv'
<1>1. \A x \in Order : OrderInv(x)' /\ Monotone(x)
  BY SameOrderKeeps DEF IInv
<1>2. \A q \in Req : ReqInv(q)'
  BY <1>1, OtherRequests
<1>. QED BY <1>1, <1>2 DEF IInv

\* A step that leaves every order alone keeps the invariant.
LEMMA StepOnNoOrder ==
    ASSUME IInv, TypeOK', NEW r \in Req, NEW op, Finish(r, op),
           \A x \in Order : SameOrder(x)
    PROVE  IInv'
<1>1. \A x \in Order : OrderInv(x)' /\ Monotone(x)
  BY SameOrderKeeps DEF IInv
<1>2. \A q \in Req : ReqInv(q)'
  BY <1>1, OtherRequests
<1>. QED BY <1>1, <1>2 DEF IInv

\* Rows that are left alone are those of orders left alone.
LEMMA UnchangedIsSame ==
    ASSUME UNCHANGED dbVars
    PROVE  \A x \in Order : SameOrder(x)
  BY DEF dbVars, orderVars, creditVars, debitVars, returnVars, otherVars, SameOrder

\* What a credit writes on its own order, and on no other.
LEMMA CreditSellerFacts ==
    ASSUME TypeOK, NEW o \in Order, CreditSeller(o)
    PROVE  /\ bill'[o] \in Bill /\ bill'[o] # NoBill
           /\ bill'[o].fee + bill'[o].net = Gross(o)
           /\ alloc'[o].net = bill'[o].net
           /\ alloc'[o].status = IF alloc[o].status \in {"NONE", "PENDING_PAYMENT"}
                                   THEN "AWAITING_DELIVERY_VERIFICATION"
                                   ELSE alloc[o].status
           /\ credits'[o] = credits[o] + 1
           /\ credited'[o] = credited[o] + bill'[o].net
           /\ \A x \in Order : x # o =>
                 /\ bill'[x] = bill[x] /\ alloc'[x] = alloc[x]
                 /\ credits'[x] = credits[x] /\ credited'[x] = credited[x]
<1>1. PICK fee \in Commission(Gross(o), Rate(plan)) :
        /\ bill' = [bill EXCEPT ![o] = [fee |-> fee, net |-> Gross(o) - fee]]
        /\ credited' = [credited EXCEPT ![o] = @ + (Gross(o) - fee)]
        /\ alloc' = [alloc EXCEPT ![o] = Escrow(@, Gross(o) - fee)]
  BY DEF CreditSeller
<1>2. fee \in Nat /\ Gross(o) \in Nat /\ Gross(o) - fee \in Nat
  BY CommissionBounds, GrossType
<1>. DEFINE b == [fee |-> fee, net |-> Gross(o) - fee]
<1>3. /\ b \in Bill /\ b # NoBill
      /\ b.fee + b.net = Gross(o) /\ b.net = Gross(o) - fee
  BY <1>2, ConstantAssumption DEF Bill
<1>4. bill'[o] = b
  BY <1>1 DEF TypeOK
<1>5. /\ alloc'[o].net = Gross(o) - fee
      /\ alloc'[o].status = IF alloc[o].status \in {"NONE", "PENDING_PAYMENT"}
                              THEN "AWAITING_DELIVERY_VERIFICATION"
                              ELSE alloc[o].status
  BY <1>1 DEF TypeOK, Escrow
<1>6. credited'[o] = credited[o] + (Gross(o) - fee) /\ credits'[o] = credits[o] + 1
  BY <1>1 DEF TypeOK, CreditSeller
<1>7. \A x \in Order : x # o =>
                 /\ bill'[x] = bill[x] /\ alloc'[x] = alloc[x]
                 /\ credits'[x] = credits[x] /\ credited'[x] = credited[x]
  BY <1>1 DEF TypeOK, CreditSeller
<1>. HIDE DEF b
<1>. QED BY <1>3, <1>4, <1>5, <1>6, <1>7

\* A change of status is that of one order, and counts its exits from PAID.
LEMMA SetStatusFacts ==
    ASSUME TypeOK, NEW o \in Order, NEW s \in Status, SetStatus(o, s)
    PROVE  /\ status'[o] = s
           /\ exits'[o] = exits[o] +
                (IF status[o] = "PAID" /\ s # "PAID" THEN 1 ELSE 0)
           /\ \A x \in Order : x # o => /\ status'[x] = status[x]
                                       /\ exits'[x] = exits[x]
  BY DEF TypeOK, SetStatus

\* Entering PAID from another status: the credit makes up for it.  It bypasses the
\* order unless it was PENDING.
LEMMA EnterPaid ==
    ASSUME IInv, TypeOK', NEW r \in Req, NEW op, Finish(r, op), NEW o \in Order,
           status[o] # "PAID", SetStatus(o, "PAID"), CreditSeller(o),
           UNCHANGED <<debitVars, returnVars, otherVars>>,
           \A x \in Order : x # o => bypassed'[x] = bypassed[x],
           bypassed[o] => bypassed'[o],
           ~bypassed'[o] => status[o] = "PENDING"
    PROVE  IInv'
<1>1. TypeOK /\ OrderInv(o)
  BY DEF IInv
<1>2. "PAID" \in Status
  BY DEF Status
<1>3. /\ status'[o] = "PAID" /\ exits'[o] = exits[o]
      /\ \A x \in Order : x # o => status'[x] = status[x] /\ exits'[x] = exits[x]
  BY <1>1, <1>2, SetStatusFacts DEF TypeOK
<1>4. /\ debited'[o] = debited[o] /\ cancelDebits'[o] = cancelDebits[o]
      /\ restocked'[o] = restocked[o] /\ returned'[o] = returned[o]
      /\ refund'[o] = refund[o]
  BY DEF debitVars, returnVars, otherVars
<1>5. /\ credits[o] \in Nat /\ credited[o] \in Nat /\ exits[o] \in Nat
      /\ cancelDebits[o] \in Nat /\ restocked[o] \in Nat /\ returned[o] \in Nat
      /\ debited[o] \in Int /\ alloc[o].status \in AllocStatus
  BY <1>1 DEF TypeOK
<1>6. OrderInv(o)'
  <2>1. bill'[o].net \in Nat /\ bill'[o].fee \in Nat
    BY <1>1, CreditSellerFacts DEF Bill
  <2>2. CASE ~bypassed'[o]
    <3>1. /\ credits[o] = 0 /\ credited[o] = 0 /\ exits[o] = 0
          /\ debited[o] = 0 /\ restocked[o] = 0 /\ returned[o] = 0
          /\ cancelDebits[o] = 0 /\ refund[o] = "NONE"
          /\ alloc[o].status \in {"NONE", "PENDING_PAYMENT"}
      BY <1>1, <1>5, <2>2 DEF OrderInv
    <3>2. /\ credits'[o] = 1 /\ credited'[o] = bill'[o].net
          /\ alloc'[o].status = "AWAITING_DELIVERY_VERIFICATION"
          /\ alloc'[o].net = bill'[o].net /\ bill'[o] # NoBill
          /\ bill'[o].fee + bill'[o].net = Gross(o)
      BY <1>1, <2>1, <3>1, CreditSellerFacts
    <3>. QED BY <1>3, <1>4, <2>1, <3>1, <3>2 DEF OrderInv, HeldStatus
  <2>3. CASE bypassed'[o]
    BY <1>1, <1>3, <1>4, <1>5, <2>1, <2>3, CreditSellerFacts
       DEF OrderInv, HeldStatus
  <2>. QED BY <2>2, <2>3
<1>7. Monotone(o)
  BY <1>1, <1>3, <1>4, <1>5 DEF Monotone, OrderInv
<1>8. \A x \in Order : x # o => SameOrder(x)
  BY <1>1, <1>3, CreditSellerFacts DEF SameOrder, debitVars, returnVars, otherVars
<1>. QED BY <1>6, <1>7, <1>8, StepOnOneOrder

\* A payment keeps the invariant.
LEMMA PayIfPendingStep ==
    ASSUME IInv, TypeOK', NEW r \in Req, NEW op, Finish(r, op), NEW o \in Order,
           PayIfPending(o)
    PROVE  IInv'
<1>1. CASE status[o] = "PENDING"
  <2>1. /\ SetStatus(o, "PAID") /\ CreditSeller(o)
        /\ UNCHANGED <<debitVars, returnVars, otherVars>> /\ bypassed' = bypassed
    BY <1>1 DEF PayIfPending
  <2>. QED BY <1>1, <2>1, EnterPaid
<1>2. CASE status[o] # "PENDING"
  <2>1. UNCHANGED dbVars
    BY <1>2 DEF PayIfPending
  <2>. QED BY <2>1, UnchangedIsSame, StepOnNoOrder
<1>. QED BY <1>1, <1>2

\* A change of status by the seller or an admin keeps the invariant.
LEMMA UpdateStatusStep ==
    ASSUME IInv, TypeOK', NEW r \in Req, UpdateStatus(r)
    PROVE  IInv'
<1>1. TypeOK /\ Finish(r, "updateStatus")
  BY DEF IInv, UpdateStatus
<1>2. PICK o \in Order, s \in SellerTargets :
        o = call[r].order /\ s = call[r].target /\ s \in Status
  BY <1>1, CallShape DEF SellerTargets
<1>3. CASE s = "PAID"
  BY <1>1, <1>2, <1>3, PayIfPendingStep DEF UpdateStatus
<1>4. CASE s # "PAID"
  <2>1. /\ SetStatus(o, s)
        /\ UNCHANGED <<creditVars, balance, points, debitVars, returnVars,
                       otherVars, bypassed>>
    BY <1>2, <1>4 DEF UpdateStatus
  <2>2. /\ status'[o] = s /\ s # "PENDING"
        /\ exits'[o] = exits[o] + (IF status[o] = "PAID" THEN 1 ELSE 0)
        /\ \A x \in Order : x # o => status'[x] = status[x] /\ exits'[x] = exits[x]
    BY <1>1, <1>2, <1>4, <2>1, SetStatusFacts DEF SellerTargets
  <2>3. /\ credits'[o] = credits[o] /\ credited'[o] = credited[o]
        /\ bill'[o] = bill[o] /\ alloc'[o] = alloc[o]
        /\ debited'[o] = debited[o] /\ cancelDebits'[o] = cancelDebits[o]
        /\ restocked'[o] = restocked[o] /\ returned'[o] = returned[o]
        /\ refund'[o] = refund[o] /\ bypassed' = bypassed
    BY <2>1 DEF creditVars, debitVars, returnVars, otherVars
  <2>4. credits[o] \in Nat /\ exits[o] \in Nat /\ cancelDebits[o] \in Nat
    BY <1>1, <1>2 DEF TypeOK
  <2>5. OrderInv(o)
    BY <1>2 DEF IInv
  <2>6. OrderInv(o)'
    BY <1>4, <2>2, <2>3, <2>4, <2>5 DEF OrderInv
  <2>7. Monotone(o)
    BY <2>2, <2>3 DEF Monotone
  <2>8. \A x \in Order : x # o => SameOrder(x)
    BY <2>1, <2>2 DEF SameOrder, creditVars, debitVars, returnVars, otherVars
  <2>. QED BY <1>1, <1>2, <2>6, <2>7, <2>8, StepOnOneOrder
<1>. QED BY <1>3, <1>4

\* The settlement of an invoice keeps the invariant.
LEMMA SettleStep ==
    ASSUME IInv, TypeOK', NEW r \in Req, SettlePaidOrder(r)
    PROVE  IInv'
<1>1. TypeOK /\ Finish(r, "settlePaidOrder")
  BY DEF IInv, SettlePaidOrder
<1>2. PICK o \in Order : o = call[r].order
  BY <1>1, CallShape
<1>3. CASE status[o] # "PAID"
  <2>1. /\ SetStatus(o, "PAID") /\ CreditSeller(o)
        /\ UNCHANGED <<debitVars, returnVars, otherVars>>
        /\ bypassed' = [bypassed EXCEPT ![o] = @ \/ status[o] # "PENDING"]
    BY <1>2, <1>3 DEF SettlePaidOrder
  <2>2. /\ \A x \in Order : x # o => bypassed'[x] = bypassed[x]
        /\ bypassed'[o] <=> (bypassed[o] \/ status[o] # "PENDING")
    BY <1>1, <1>2, <2>1 DEF TypeOK
  <2>. QED BY <1>1, <1>2, <1>3, <2>1, <2>2, EnterPaid
<1>4. CASE status[o] = "PAID"
  <2>1. UNCHANGED dbVars
    BY <1>2, <1>4 DEF SettlePaidOrder
  <2>. QED BY <1>1, <2>1, UnchangedIsSame, StepOnNoOrder
<1>. QED BY <1>3, <1>4

\* The customer's cancellation keeps the invariant.
LEMMA CancelByCustomerStep ==
    ASSUME IInv, TypeOK', NEW r \in Req, CancelByCustomer(r)
    PROVE  IInv'
<1>1. TypeOK /\ Finish(r, "cancelByCustomer")
  BY DEF IInv, CancelByCustomer
<1>2. PICK o \in Order, row \in OrderRow :
        o = call[r].order /\ row = seen[r] /\ "CANCELLED" \in Status
  BY <1>1, CallShape DEF Status, TypeOK, RequestTypes
<1>3. OrderInv(o)
  BY <1>2 DEF IInv
<1>4. pc[r] = "running" /\ call[r].op = "cancelByCustomer"
  BY <1>1 DEF Finish
<1>5. /\ row.status = "PAID" => status[o] # "PENDING" /\ row.bill # NoBill
      /\ row.bill # NoBill => /\ row.bill.fee + row.bill.net = Gross(o)
                              /\ ~bypassed[o] => row.bill = bill[o]
  BY <1>2, <1>4 DEF IInv, ReqInv
<1>6. /\ credits[o] \in Nat /\ credited[o] \in Nat /\ exits[o] \in Nat
      /\ cancelDebits[o] \in Nat /\ restocked[o] \in Nat /\ returned[o] \in Nat
      /\ debited[o] \in Int /\ alloc[o].status \in AllocStatus
  BY <1>1, <1>2 DEF TypeOK
<1>7. CASE StillCancellable(o)
  <2>1. /\ SetStatus(o, "CANCELLED") /\ Restock(o)
        /\ UNCHANGED <<bill, shipment, credits, credited, refunded, otherVars,
                       bypassed>>
    BY <1>2, <1>7 DEF CancelByCustomer
  <2>2. /\ status'[o] = "CANCELLED"
        /\ exits'[o] = exits[o] + (IF status[o] = "PAID" THEN 1 ELSE 0)
        /\ \A x \in Order : x # o => status'[x] = status[x] /\ exits'[x] = exits[x]
    BY <1>1, <1>2, <2>1, SetStatusFacts
  <2>3. /\ restocked'[o] = restocked[o] + 1
        /\ \A x \in Order : x # o => restocked'[x] = restocked[x]
    BY <1>1, <1>2, <2>1 DEF Restock, TypeOK
  <2>4. /\ credits' = credits /\ credited' = credited /\ bill' = bill
        /\ refund' = refund /\ bypassed' = bypassed
    BY <2>1 DEF otherVars
  <2>5. status[o] \in {"PENDING", "PAID"}
    BY <1>7 DEF StillCancellable
  <2>6. CASE row.status = "PAID"
    <3>1. /\ Debit(o, CreditedAmount(o, row))
          /\ cancelDebits' = [cancelDebits EXCEPT ![o] = @ + 1]
          /\ MoveAlloc(o, IF alloc[o].status = "NONE" THEN "NONE" ELSE "CANCELLED")
          /\ ReturnPoints(o)
      BY <1>2, <1>7, <2>6 DEF CancelByCustomer
    <3>2. status[o] = "PAID" /\ row.bill # NoBill
      BY <1>5, <2>5, <2>6
    <3>3. CreditedAmount(o, row) = row.bill.net
      <4>1. row.bill \in Bill
        BY <1>2, <3>2 DEF OrderRow
      <4>2. row.bill.fee + row.bill.net = Gross(o) /\ Gross(o) \in Nat
        BY <1>2, <1>5, <3>2, GrossType
      <4>. QED BY <3>2, <4>1, <4>2 DEF CreditedAmount, Bill
    <3>4. /\ debited'[o] = debited[o] + row.bill.net
          /\ \A x \in Order : x # o => debited'[x] = debited[x]
      BY <1>1, <1>2, <3>1, <3>3 DEF Debit, TypeOK
    <3>5. /\ cancelDebits'[o] = cancelDebits[o] + 1
          /\ \A x \in Order : x # o => cancelDebits'[x] = cancelDebits[x]
      BY <1>1, <1>2, <3>1 DEF TypeOK
    <3>6. /\ returned'[o] = returned[o] \/ returned'[o] = returned[o] + 1
          /\ \A x \in Order : x # o => returned'[x] = returned[x]
      BY <1>1, <1>2, <3>1 DEF ReturnPoints, TypeOK
    <3>7. credits[o] > 0 /\ alloc[o].status \notin {"NONE", "PENDING_PAYMENT"}
      BY <1>3, <1>6, <3>2 DEF OrderInv
    <3>8. /\ alloc'[o].status = "CANCELLED" /\ alloc'[o].net = alloc[o].net
          /\ \A x \in Order : x # o => alloc'[x] = alloc[x]
      BY <1>1, <1>2, <3>1, <3>7, MoveAllocFacts DEF AllocStatus
    <3>9. OrderInv(o)'
      <4>1. CASE bypassed[o]
        BY <1>3, <1>6, <2>2, <2>4, <3>2, <3>5, <3>7, <3>8, <4>1 DEF OrderInv
      <4>2. CASE ~bypassed[o]
        <5>1. /\ credits[o] = 1 /\ exits[o] = 0 /\ cancelDebits[o] = 0
              /\ restocked[o] = 0 /\ debited[o] = 0 /\ returned[o] = 0
              /\ credited[o] = bill[o].net
          BY <1>3, <1>6, <3>2, <3>7, <4>2 DEF OrderInv
        <5>2. row.bill.net = credited[o]
          BY <1>5, <3>2, <4>2, <5>1
        <5>. QED BY <1>3, <1>6, <2>2, <2>3, <2>4, <3>2, <3>4, <3>5, <3>6, <3>8, <4>2,
                    <5>1, <5>2 DEF OrderInv
      <4>. QED BY <4>1, <4>2
    <3>10. Monotone(o)
      BY <2>2, <2>4 DEF Monotone
    <3>11. \A x \in Order : x # o => SameOrder(x)
      BY <2>2, <2>3, <2>4, <3>4, <3>5, <3>6, <3>8 DEF SameOrder
    <3>. QED BY <1>1, <1>2, <3>9, <3>10, <3>11, StepOnOneOrder
  <2>7. CASE row.status # "PAID"
    <3>1. UNCHANGED <<balance, debited, cancelDebits, alloc, points, returned>>
      BY <1>2, <1>7, <2>7 DEF CancelByCustomer
    <3>2. OrderInv(o)'
      BY <1>3, <1>6, <2>2, <2>3, <2>4, <2>5, <3>1 DEF OrderInv
    <3>3. Monotone(o)
      BY <2>2, <2>4 DEF Monotone
    <3>4. \A x \in Order : x # o => SameOrder(x)
      BY <2>2, <2>3, <2>4, <3>1 DEF SameOrder
    <3>. QED BY <1>1, <1>2, <3>2, <3>3, <3>4, StepOnOneOrder
  <2>. QED BY <2>6, <2>7
<1>8. CASE ~StillCancellable(o)
  <2>1. UNCHANGED dbVars
    BY <1>2, <1>8 DEF CancelByCustomer
  <2>. QED BY <1>1, <2>1, UnchangedIsSame, StepOnNoOrder
<1>. QED BY <1>7, <1>8

\* The seller's or the admin's cancellation keeps the invariant.
LEMMA CancelOrderStep ==
    ASSUME IInv, TypeOK', NEW r \in Req, CancelOrder(r)
    PROVE  IInv'
<1>1. TypeOK /\ Finish(r, "cancelOrder")
  BY DEF IInv, CancelOrder
<1>2. PICK o \in Order : o = call[r].order /\ "CANCELLED" \in Status
  BY <1>1, CallShape DEF Status
<1>3. OrderInv(o)
  BY DEF IInv
<1>4. /\ SetStatus(o, "CANCELLED") /\ Restock(o)
      /\ bypassed' = [bypassed EXCEPT ![o] = TRUE]
      /\ UNCHANGED <<creditVars, refunded, cancelDebits, otherVars>>
  BY <1>2 DEF CancelOrder
<1>5. /\ status'[o] = "CANCELLED"
      /\ exits'[o] = exits[o] + (IF status[o] = "PAID" THEN 1 ELSE 0)
      /\ \A x \in Order : x # o => status'[x] = status[x] /\ exits'[x] = exits[x]
  BY <1>1, <1>2, <1>4, SetStatusFacts
<1>6. /\ bypassed'[o]
      /\ \A x \in Order : x # o => /\ bypassed'[x] = bypassed[x]
                                  /\ restocked'[x] = restocked[x]
  BY <1>1, <1>4 DEF TypeOK, Restock
<1>7. /\ credits' = credits /\ credited' = credited /\ bill' = bill /\ alloc' = alloc
      /\ cancelDebits' = cancelDebits /\ refund' = refund
  BY <1>4 DEF creditVars, otherVars
<1>8. \A x \in Order : x # o => debited'[x] = debited[x] /\ returned'[x] = returned[x]
  <2>1. CASE seen[r].status = "PAID"
    <3>1. Debit(o, Total[o]) /\ ReturnPoints(o)
      BY <1>2, <2>1 DEF CancelOrder
    <3>. QED BY <1>1, <3>1 DEF Debit, ReturnPoints, TypeOK
  <2>2. CASE seen[r].status # "PAID"
    BY <2>2 DEF CancelOrder
  <2>. QED BY <2>1, <2>2
<1>9. credits[o] \in Nat /\ exits[o] \in Nat /\ cancelDebits[o] \in Nat
  BY <1>1 DEF TypeOK
<1>10. OrderInv(o)'
  BY <1>3, <1>5, <1>6, <1>7, <1>9 DEF OrderInv
<1>11. Monotone(o)
  BY <1>5, <1>6, <1>7 DEF Monotone
<1>12. \A x \in Order : x # o => SameOrder(x)
  BY <1>5, <1>6, <1>7, <1>8 DEF SameOrder
<1>. QED BY <1>1, <1>10, <1>11, <1>12, StepOnOneOrder

\* A refund request keeps the invariant.
LEMMA CreateRequestStep ==
    ASSUME IInv, TypeOK', NEW r \in Req, CreateRequest(r)
    PROVE  IInv'
<1>1. TypeOK /\ Finish(r, "createRequest")
  BY DEF IInv, CreateRequest
<1>2. PICK o \in Order : o = call[r].order
  BY <1>1, CallShape
<1>3. OrderInv(o)
  BY DEF IInv
<1>4. status[o] # "PENDING"
  <2>1. pc[r] = "running" /\ call[r].op = "createRequest"
    BY <1>1 DEF Finish
  <2>. QED BY <1>2, <2>1 DEF IInv, ReqInv
<1>5. CASE refund[o] = "NONE"
  <2>1. /\ refund' = [refund EXCEPT ![o] = "PENDING"]
        /\ MoveAlloc(o, IF alloc[o].status \in Holdable THEN "ON_HOLD_DISPUTE"
                                                       ELSE alloc[o].status)
        /\ UNCHANGED <<orderVars, bill, shipment, credits, credited, balance, points,
                       debitVars, returnVars, withdrawn, plan, invoice, bypassed>>
    BY <1>2, <1>5 DEF CreateRequest
  <2>2. /\ alloc'[o].status = IF alloc[o].status \in Holdable THEN "ON_HOLD_DISPUTE"
                                                             ELSE alloc[o].status
        /\ alloc'[o].net = alloc[o].net
        /\ \A x \in Order : x # o => alloc'[x] = alloc[x]
    <3>1. alloc[o].status \in AllocStatus /\ "ON_HOLD_DISPUTE" \in AllocStatus
      BY <1>1 DEF TypeOK, AllocStatus
    <3>. QED BY <1>1, <2>1, <3>1, MoveAllocFacts
  <2>3. /\ refund'[o] = "PENDING"
        /\ \A x \in Order : x # o => refund'[x] = refund[x]
    BY <1>1, <2>1 DEF TypeOK
  <2>4. /\ status' = status /\ exits' = exits /\ bill' = bill /\ credits' = credits
        /\ credited' = credited /\ debited' = debited /\ cancelDebits' = cancelDebits
        /\ restocked' = restocked /\ returned' = returned /\ bypassed' = bypassed
    BY <2>1 DEF orderVars, debitVars, returnVars
  <2>5. OrderInv(o)'
    BY <1>3, <1>4, <2>2, <2>3, <2>4 DEF OrderInv, Holdable, HeldStatus
  <2>6. Monotone(o)
    BY <2>3, <2>4 DEF Monotone
  <2>7. \A x \in Order : x # o => SameOrder(x)
    BY <2>2, <2>3, <2>4 DEF SameOrder
  <2>. QED BY <1>1, <2>5, <2>6, <2>7, StepOnOneOrder
<1>6. CASE refund[o] # "NONE"
  <2>1. UNCHANGED dbVars
    BY <1>2, <1>6 DEF CreateRequest
  <2>. QED BY <1>1, <2>1, UnchangedIsSame, StepOnNoOrder
<1>. QED BY <1>5, <1>6

\* The seller's reply to a refund request keeps the invariant.
LEMMA VendorReplyStep ==
    ASSUME IInv, TypeOK', NEW r \in Req, VendorReply(r)
    PROVE  IInv'
<1>1. TypeOK /\ Finish(r, "vendorReply")
  BY DEF IInv, VendorReply
<1>2. PICK o \in Order : o = call[r].order
  BY <1>1, CallShape
<1>3. OrderInv(o)
  BY DEF IInv
<1>4. refund[o] # "NONE"
  <2>1. pc[r] = "running" /\ call[r].op = "vendorReply"
    BY <1>1 DEF Finish
  <2>. QED BY <1>2, <2>1 DEF IInv, ReqInv
<1>5. /\ refund' = [refund EXCEPT ![o] = "VENDOR_REPLIED"]
      /\ UNCHANGED <<orderVars, creditVars, balance, points, debitVars, returnVars,
                     withdrawn, plan, invoice, bypassed>>
  BY <1>2 DEF VendorReply
<1>6. /\ refund'[o] = "VENDOR_REPLIED"
      /\ \A x \in Order : x # o => refund'[x] = refund[x]
  BY <1>1, <1>5 DEF TypeOK
<1>7. /\ status' = status /\ exits' = exits /\ bill' = bill /\ credits' = credits
      /\ credited' = credited /\ debited' = debited /\ cancelDebits' = cancelDebits
      /\ restocked' = restocked /\ returned' = returned /\ bypassed' = bypassed
      /\ alloc' = alloc
  BY <1>5 DEF orderVars, creditVars, debitVars, returnVars
<1>8. OrderInv(o)'
  BY <1>3, <1>4, <1>6, <1>7 DEF OrderInv
<1>9. Monotone(o)
  BY <1>6, <1>7 DEF Monotone
<1>10. \A x \in Order : x # o => SameOrder(x)
  BY <1>6, <1>7 DEF SameOrder
<1>. QED BY <1>1, <1>8, <1>9, <1>10, StepOnOneOrder

\* The admin's decision on a refund request keeps the invariant.
LEMMA AdminDecideStep ==
    ASSUME IInv, TypeOK', NEW r \in Req, AdminDecide(r)
    PROVE  IInv'
<1>1. TypeOK /\ Finish(r, "adminDecide")
  BY DEF IInv, AdminDecide
<1>2. PICK o \in Order : o = call[r].order
  BY <1>1, CallShape
<1>3. OrderInv(o)
  BY DEF IInv
<1>4. refund[o] # "NONE"
  <2>1. pc[r] = "running" /\ call[r].op = "adminDecide"
    BY <1>1 DEF Finish
  <2>. QED BY <1>2, <2>1 DEF IInv, ReqInv
<1>5. /\ refund' = [refund EXCEPT ![o] = IF call[r].action = "APPROVE" THEN "APPROVED"
                                                                     ELSE "REJECTED"]
      /\ UNCHANGED <<orderVars, bill, shipment, credits, credited, points, debited,
                     cancelDebits, returnVars, withdrawn, plan, invoice, bypassed>>
  BY <1>2 DEF AdminDecide
<1>6. /\ refund'[o] \in {"APPROVED", "REJECTED"}
      /\ refund'[o] = "APPROVED" <=> call[r].action = "APPROVE"
      /\ \A x \in Order : x # o => refund'[x] = refund[x]
  BY <1>1, <1>5 DEF TypeOK
<1>7. /\ status' = status /\ exits' = exits /\ bill' = bill /\ credits' = credits
      /\ credited' = credited /\ debited' = debited /\ cancelDebits' = cancelDebits
      /\ restocked' = restocked /\ returned' = returned /\ bypassed' = bypassed
  BY <1>5 DEF orderVars, returnVars
<1>8. /\ alloc'[o].net = alloc[o].net
      /\ \/ alloc'[o].status = "REFUNDED" /\ alloc[o].status # "NONE"
         \/ /\ alloc'[o].status = alloc[o].status
            /\ call[r].action = "APPROVE" => alloc[o].status \in {"NONE", "REFUNDED"}
      /\ \A x \in Order : x # o => alloc'[x] = alloc[x]
  <2>1. CASE Refundable(alloc[o]) /\ MoveAlloc(o, "REFUNDED")
    <3>1. "REFUNDED" \in AllocStatus
      BY DEF AllocStatus
    <3>. QED BY <1>1, <2>1, <3>1, MoveAllocFacts DEF Refundable
  <2>2. CASE /\ UNCHANGED alloc
             /\ call[r].action = "APPROVE" => ~Refundable(alloc[o])
    BY <2>2 DEF Refundable
  <2>. QED BY <1>2, <2>1, <2>2 DEF AdminDecide
<1>9. OrderInv(o)'
  BY <1>3, <1>4, <1>6, <1>7, <1>8 DEF OrderInv, HeldStatus
<1>10. Monotone(o)
  BY <1>6, <1>7 DEF Monotone
<1>11. \A x \in Order : x # o => SameOrder(x)
  BY <1>6, <1>7, <1>8 DEF SameOrder
<1>. QED BY <1>1, <1>9, <1>10, <1>11, StepOnOneOrder

\* A withdrawal keeps the invariant.
LEMMA RequestWithdrawalStep ==
    ASSUME IInv, TypeOK', NEW r \in Req, RequestWithdrawal(r)
    PROVE  IInv'
<1>1. Finish(r, "requestWithdrawal")
  BY DEF RequestWithdrawal
<1>2. UNCHANGED <<orderVars, creditVars, points, debitVars, returnVars, refund, plan,
                  invoice, bypassed>>
  BY DEF RequestWithdrawal, dbVars, otherVars
<1>3. \A x \in Order : SameOrder(x)
  BY <1>2 DEF SameOrder, orderVars, creditVars, debitVars, returnVars
<1>. QED BY <1>1, <1>3, StepOnNoOrder

\* A request that reads keeps the invariant.
LEMMA ReadStep ==
    ASSUME IInv, TypeOK', NEW r \in Req, Read(r)
    PROVE  IInv'
<1>1. TypeOK /\ UNCHANGED dbVars
  BY DEF IInv, Read
<1>2. PICK c \in Calls :
        /\ Admits(c)
        /\ call' = [call EXCEPT ![r] = c]
        /\ c.op # "requestWithdrawal" =>
              /\ seen' = [seen EXCEPT ![r] = RowRead(c)]
              /\ pc' = [pc EXCEPT ![r] = "running"]
        /\ c.op = "requestWithdrawal" =>
              /\ UNCHANGED seen
              /\ pc' = [pc EXCEPT ![r] = "counting"]
  BY DEF Read
<1>3. \A x \in Order : SameOrder(x) /\ OrderInv(x)' /\ Monotone(x)
  BY <1>1, UnchangedIsSame, SameOrderKeeps DEF IInv
<1>4. ReqInv(r)'
  <2>1. SUFFICES ASSUME c.op # "requestWithdrawal" PROVE ReqInv(r)'
    BY <1>1, <1>2 DEF ReqInv, TypeOK, RequestTypes
  <2>2. c.order \in Order
    BY <2>1, CallsAssumption DEF AllCalls
  <2>3. call'[r] = c /\ seen'[r] = RowRead(c) /\ pc'[r] = "running"
    BY <1>1, <1>2, <2>1 DEF TypeOK, RequestTypes
  <2>4. OrderInv(c.order) /\ SameOrder(c.order)
    BY <1>3, <2>2 DEF IInv
  <2>5. status[c.order] = "PAID" => bill[c.order] # NoBill
    <3>1. exits[c.order] \in Nat
      BY <1>1, <2>2 DEF TypeOK
    <3>. QED BY <2>4, <3>1 DEF OrderInv
  <2>6. c.op = "createRequest" => status[c.order] # "PENDING"
    BY <1>2 DEF Admits
  <2>7. c.op \in {"vendorReply", "adminDecide"} => refund[c.order] # "NONE"
    BY <1>2 DEF Admits
  <2>8. CASE UsesRow(c)
    <3>1. seen'[r].status = status[c.order] /\ seen'[r].bill = bill[c.order]
      BY <2>3, <2>8 DEF RowRead
    <3>. QED BY <2>3, <2>4, <2>5, <2>6, <2>7, <3>1 DEF ReqInv, OrderInv, SameOrder
  <2>9. CASE ~UsesRow(c)
    <3>1. seen'[r].status = "PENDING" /\ seen'[r].bill = NoBill
      BY <2>3, <2>9 DEF RowRead, BlankRow
    <3>. QED BY <1>2, <2>1, <2>3, <2>4, <2>6, <2>7, <3>1 DEF ReqInv, SameOrder
  <2>. QED BY <2>8, <2>9
<1>5. ASSUME NEW q \in Req, q # r PROVE ReqInv(q)'
  <2>1. pc'[q] = pc[q] /\ call'[q] = call[q] /\ seen'[q] = seen[q]
    <3>1. /\ pc \in [Req -> {"idle", "counting", "running", "done"}]
          /\ call \in [Req -> Calls \cup {NoCall}] /\ seen \in [Req -> OrderRow]
      BY <1>1 DEF TypeOK, RequestTypes
    <3>. QED BY <1>2, <1>5, <3>1
  <2>2. ReqInv(q)
    BY DEF IInv
  <2>3. /\ status' = status /\ bill' = bill /\ refund' = refund
        /\ bypassed' = bypassed
    BY <1>1 DEF dbVars, orderVars, creditVars, otherVars
  <2>. QED BY <2>1, <2>2, <2>3 DEF ReqInv
<1>. QED BY <1>3, <1>4, <1>5 DEF IInv

\* So does a withdrawal that counts what is held.
LEMMA CountHeldStep ==
    ASSUME IInv, TypeOK', NEW r \in Req, CountHeld(r)
    PROVE  IInv'
<1>1. TypeOK /\ UNCHANGED dbVars /\ call[r].op = "requestWithdrawal"
  BY DEF IInv, ReqInv, CountHeld
<1>2. \A x \in Order : SameOrder(x) /\ OrderInv(x)'
  BY <1>1, UnchangedIsSame, SameOrderKeeps DEF IInv
<1>3. \/ pc'[r] = "done"
      \/ pc'[r] = "running" /\ call'[r].op = "requestWithdrawal"
  <2>1. pc \in [Req -> {"idle", "counting", "running", "done"}]
    BY <1>1 DEF TypeOK, RequestTypes
  <2>. QED BY <1>1, <2>1 DEF CountHeld, Answer
<1>4. ReqInv(r)'
  BY <1>3 DEF ReqInv
<1>5. ASSUME NEW q \in Req, q # r PROVE ReqInv(q)'
  <2>1. pc'[q] = pc[q] /\ call'[q] = call[q] /\ seen'[q] = seen[q]
    <3>1. /\ pc \in [Req -> {"idle", "counting", "running", "done"}]
          /\ call \in [Req -> Calls \cup {NoCall}] /\ seen \in [Req -> OrderRow]
      BY <1>1 DEF TypeOK, RequestTypes
    <3>. QED BY <1>5, <3>1 DEF CountHeld, Answer
  <2>2. ReqInv(q)
    BY DEF IInv
  <2>3. /\ status' = status /\ bill' = bill /\ refund' = refund
        /\ bypassed' = bypassed
    BY <1>1 DEF dbVars, orderVars, creditVars, otherVars
  <2>. QED BY <2>1, <2>2, <2>3 DEF ReqInv
<1>. QED BY <1>2, <1>4, <1>5 DEF IInv

\* What PayDunya and the plans do keeps the invariant.
LEMMA WorldStep ==
    ASSUME IInv, TypeOK',
           \/ \E o \in Order : CreateCheckout(o) \/ PayInvoice(o)
           \/ \E p \in Plans : ActivatePlan(p)
    PROVE  IInv'
<1>1. UNCHANGED <<orderVars, creditVars, debitVars, returnVars, refund, bypassed, pc,
                  call, seen>>
  BY DEF CreateCheckout, PayInvoice, ActivatePlan, reqVars
<1>2. \A x \in Order : SameOrder(x)
  BY <1>1 DEF SameOrder, orderVars, creditVars, debitVars, returnVars
<1>3. \A x \in Order : OrderInv(x)'
  BY <1>2, SameOrderKeeps DEF IInv
<1>4. ASSUME NEW q \in Req PROVE ReqInv(q)'
  <2>1. ReqInv(q)
    BY DEF IInv
  <2>. QED BY <1>1, <2>1 DEF ReqInv, orderVars, creditVars
<1>. QED BY <1>3, <1>4 DEF IInv

\* The initial states satisfy the invariant.
LEMMA InitInv == Init => IInv
<1>. SUFFICES ASSUME Init PROVE IInv
  OBVIOUS
<1>1. TypeOK
  BY InitType
<1>2. ASSUME NEW o \in Order PROVE OrderInv(o)
  BY DEF Init, OrderInv
<1>3. ASSUME NEW r \in Req PROVE ReqInv(r)
  BY DEF Init, ReqInv
<1>. QED BY <1>1, <1>2, <1>3 DEF IInv

\* Every step keeps the invariant.
LEMMA StepInv == IInv /\ [Next]_vars => IInv'
<1>. SUFFICES ASSUME IInv, [Next]_vars PROVE IInv'
  OBVIOUS
<1>1. TypeOK'
  BY StepType DEF IInv
<1>2. ASSUME NEW r \in Req, Commit(r) PROVE IInv'
  <2>1. CASE ConfirmPayment(r)
    <3>1. Finish(r, "confirmPayment") /\ PayIfPending(call[r].order)
      BY <2>1 DEF ConfirmPayment
    <3>2. PICK o \in Order : o = call[r].order
      BY <3>1, CallShape DEF IInv
    <3>. QED BY <1>1, <3>1, <3>2, PayIfPendingStep
  <2>2. CASE UpdateStatus(r)
    BY <1>1, <2>2, UpdateStatusStep
  <2>3. CASE SettlePaidOrder(r)
    BY <1>1, <2>3, SettleStep
  <2>4. CASE CancelByCustomer(r)
    BY <1>1, <2>4, CancelByCustomerStep
  <2>5. CASE CancelOrder(r)
    BY <1>1, <2>5, CancelOrderStep
  <2>6. CASE CreateRequest(r)
    BY <1>1, <2>6, CreateRequestStep
  <2>7. CASE VendorReply(r)
    BY <1>1, <2>7, VendorReplyStep
  <2>8. CASE AdminDecide(r)
    BY <1>1, <2>8, AdminDecideStep
  <2>9. CASE RequestWithdrawal(r)
    BY <1>1, <2>9, RequestWithdrawalStep
  <2>. QED BY <1>2, <2>1, <2>2, <2>3, <2>4, <2>5, <2>6, <2>7, <2>8, <2>9 DEF Commit
<1>3. CASE UNCHANGED vars
  <2>1. /\ \A x \in Order : SameOrder(x)
        /\ UNCHANGED <<pc, call, seen, status, refund, bill, bypassed>>
    BY <1>3 DEF SameOrder, vars, dbVars, orderVars, creditVars, debitVars, returnVars,
                otherVars, reqVars
  <2>2. \A x \in Order : OrderInv(x)'
    BY <2>1, SameOrderKeeps DEF IInv
  <2>3. \A q \in Req : ReqInv(q)'
    BY <2>1 DEF IInv, ReqInv
  <2>. QED BY <1>1, <2>2, <2>3 DEF IInv
<1>. QED BY <1>1, <1>2, <1>3, ReadStep, CountHeldStep, WorldStep DEF Next

\* The invariant every request keeps, for any orders, requests, amounts and plans.
THEOREM Invariant == Spec => []IInv
<1>1. Init => IInv
  BY InitInv
<1>2. IInv /\ [Next]_vars => IInv'
  BY StepInv
<1>. QED BY <1>1, <1>2, PTL DEF Spec

\* A seller is credited exactly once per entry of an order into PAID, however many
\* confirmations, webhooks, cancellations and status changes race.
THEOREM CreditedPerEntry == Spec => []CreditPerPaidEntry
<1>1. IInv => CreditPerPaidEntry
  BY DEF IInv, OrderInv, CreditPerPaidEntry
<1>. QED BY <1>1, Invariant, PTL

\* Customer cancellations never take money back more often than it was credited.
THEOREM CancellationsCovered == Spec => []CancelDebitCovered
<1>1. IInv => CancelDebitCovered
  <2>. SUFFICES ASSUME IInv, NEW o \in Order
                PROVE  cancelDebits[o] + (IF status[o] = "PAID" THEN 1 ELSE 0) <= credits[o]
    BY DEF CancelDebitCovered
  <2>1. /\ credits[o] = exits[o] + (IF status[o] = "PAID" THEN 1 ELSE 0)
        /\ cancelDebits[o] <= exits[o]
    BY DEF IInv, OrderInv
  <2>2. exits[o] \in Nat /\ cancelDebits[o] \in Nat
    BY DEF IInv, TypeOK
  <2>. QED BY <2>1, <2>2
<1>. QED BY <1>1, Invariant, PTL

\* An order that no late settlement and no admin cancellation bypasses is credited,
\* restocked and given its points back at most once, and its cancellation takes back
\* exactly what was credited.
THEOREM ExactlyOnce == Spec => []OnceUnlessBypassed
<1>1. IInv => OnceUnlessBypassed
  BY DEF IInv, OrderInv, OnceUnlessBypassed
<1>. QED BY <1>1, Invariant, PTL

\* The bill recorded on the order and the escrow allocation agree on the last credit.
THEOREM BillInEscrow == Spec => []EscrowMatchesBill
<1>1. IInv => EscrowMatchesBill
  BY DEF IInv, OrderInv, EscrowMatchesBill
<1>. QED BY <1>1, Invariant, PTL

\* The money of a paid order is in escrow or refunded, unless the order was bypassed.
THEOREM EscrowHolds == Spec => []PaidMoneyHeld
<1>1. IInv => PaidMoneyHeld
  BY DEF IInv, OrderInv, PaidMoneyHeld
<1>. QED BY <1>1, Invariant, PTL

\* adminDecide leaves nothing of an approved refund in escrow, unless the order was
\* bypassed.
THEOREM RefundsClosed == Spec => []ApprovedRefundClosesEscrow
<1>1. IInv => ApprovedRefundClosesEscrow
  BY DEF IInv, OrderInv, ApprovedRefundClosesEscrow
<1>. QED BY <1>1, Invariant, PTL

\* The three together: the escrow of an order is worth what the order owes its seller.
THEOREM EscrowSound == Spec => []EscrowKept
<1>1. EscrowMatchesBill /\ PaidMoneyHeld /\ ApprovedRefundClosesEscrow => EscrowKept
  BY DEF EscrowKept
<1>. QED BY <1>1, BillInEscrow, EscrowHolds, RefundsClosed, PTL

\* What an order has brought to its own account, and to its referrer, after c
\* credits and t returns of the points spent on it.
OwnPoints(c, t) == [o \in Order |-> c[o] * PointsEarned(o) + t[o] * PointsUsed[o]]
BonusPoints(c) == [o \in Order |-> c[o] * PointsEarned(o)]
OwnOrders(u) == {o \in Order : Buyer[o] = u}
ReferredOrders(u) == {o \in Order : Buyer[o] \in User /\ Referrer[Buyer[o]] = u}
Owed(u, c, t) == SumFunctionOnSet(OwnPoints(c, t), OwnOrders(u))
                 + SumFunctionOnSet(BonusPoints(c), ReferredOrders(u))

\* The three ways a step may treat points: it leaves them and the two histories
\* alone, credits a seller, or gives points back for an order with an account.
Award(o) ==
    /\ AwardPoints(o)
    /\ credits' = [credits EXCEPT ![o] = @ + 1]
    /\ UNCHANGED returned
GiveBack(o) ==
    /\ Buyer[o] \in User
    /\ points' = [points EXCEPT ![Buyer[o]] = @ + PointsUsed[o]]
    /\ returned' = [returned EXCEPT ![o] = @ + 1]
    /\ UNCHANGED credits
PointsStep ==
    \/ UNCHANGED <<points, credits, returned>>
    \/ \E o \in Order : Award(o) \/ GiveBack(o)

\* A payment credits the points of its order once, if it was pending.
LEMMA PayIfPendingPoints ==
    ASSUME NEW o \in Order, PayIfPending(o)
    PROVE  PointsStep
BY DEF PayIfPending, CreditSeller, PointsStep, Award, dbVars, returnVars, creditVars

\* Points returned are those the order spent, and are counted.
LEMMA ReturnPointsStep ==
    ASSUME NEW o \in Order, ReturnPoints(o), UNCHANGED credits
    PROVE  PointsStep
<1>1. CASE Buyer[o] \in User /\ PointsUsed[o] > 0
  BY <1>1 DEF ReturnPoints, PointsStep, GiveBack
<1>2. CASE ~(Buyer[o] \in User /\ PointsUsed[o] > 0)
  BY <1>2 DEF ReturnPoints, PointsStep
<1> QED BY <1>1, <1>2

\* A commit credits or returns the points of one order, or none.
LEMMA CommitPoints ==
    ASSUME TypeOK, NEW r \in Req, Commit(r)
    PROVE  PointsStep
<1>1. CASE ConfirmPayment(r)
  <2>1. Finish(r, "confirmPayment") /\ PayIfPending(call[r].order)
    BY <1>1 DEF ConfirmPayment
  <2> QED BY <2>1, CallShape, PayIfPendingPoints
<1>2. CASE UpdateStatus(r)
  <2>1. Finish(r, "updateStatus")
    BY <1>2 DEF UpdateStatus
  <2>2. call[r].order \in Order
    BY <2>1, CallShape
  <2>3. PayIfPending(call[r].order) \/ UNCHANGED <<points, creditVars, returnVars>>
    BY <1>2 DEF UpdateStatus
  <2> QED BY <2>2, <2>3, PayIfPendingPoints DEF PointsStep, creditVars, returnVars
<1>3. CASE SettlePaidOrder(r)
  <2>1. Finish(r, "settlePaidOrder")
    BY <1>3 DEF SettlePaidOrder
  <2>2. call[r].order \in Order
    BY <2>1, CallShape
  <2>3. \/ CreditSeller(call[r].order) /\ UNCHANGED returnVars
        \/ UNCHANGED dbVars
    BY <1>3 DEF SettlePaidOrder
  <2> QED BY <2>2, <2>3 DEF PointsStep, CreditSeller, Award, dbVars, creditVars,
                            returnVars
<1>4. CASE CancelByCustomer(r)
  <2>1. Finish(r, "cancelByCustomer")
    BY <1>4 DEF CancelByCustomer
  <2>2. call[r].order \in Order
    BY <2>1, CallShape
  <2>3. \/ ReturnPoints(call[r].order) /\ UNCHANGED credits
        \/ UNCHANGED <<points, returned, credits>>
    BY <1>4 DEF CancelByCustomer, dbVars, creditVars, returnVars
  <2> QED BY <2>2, <2>3, ReturnPointsStep DEF PointsStep
<1>5. CASE CancelOrder(r)
  <2>1. Finish(r, "cancelOrder")
    BY <1>5 DEF CancelOrder
  <2>2. call[r].order \in Order
    BY <2>1, CallShape
  <2>3. \/ ReturnPoints(call[r].order) /\ UNCHANGED credits
        \/ UNCHANGED <<points, returned, credits>>
    BY <1>5 DEF CancelOrder, creditVars
  <2> QED BY <2>2, <2>3, ReturnPointsStep DEF PointsStep
<1>6. CASE CreateRequest(r)
  BY <1>6 DEF CreateRequest, PointsStep, dbVars, creditVars, returnVars
<1>7. CASE VendorReply(r)
  BY <1>7 DEF VendorReply, PointsStep, creditVars, returnVars
<1>8. CASE AdminDecide(r)
  BY <1>8 DEF AdminDecide, PointsStep, returnVars
<1>9. CASE RequestWithdrawal(r)
  BY <1>9 DEF RequestWithdrawal, PointsStep, dbVars, creditVars, returnVars
<1> QED BY <1>1, <1>2, <1>3, <1>4, <1>5, <1>6, <1>7, <1>8, <1>9 DEF Commit

\* So does every step.
LEMMA EveryStepPoints == TypeOK /\ [Next]_vars => PointsStep
<1> SUFFICES ASSUME TypeOK, [Next]_vars PROVE PointsStep
  OBVIOUS
<1>1. CASE \E r \in Req : Commit(r)
  BY <1>1, CommitPoints
<1>2. CASE \/ \E r \in Req : Read(r) \/ CountHeld(r)
           \/ \E o \in Order : CreateCheckout(o) \/ PayInvoice(o)
           \/ \E p \in Plans : ActivatePlan(p)
           \/ UNCHANGED vars
  BY <1>2 DEF Read, CountHeld, CreateCheckout, PayInvoice, ActivatePlan, PointsStep, vars,
              dbVars, creditVars, returnVars
<1> QED BY <1>1, <1>2 DEF Next

\* Products of natural numbers, one step up.
LEMMA NatTimes == \A a, b \in Nat : a * b \in Nat /\ (a + 1) * b = a * b + b
OBVIOUS

\* What one more credit or return adds.
LEMMA OneMoreTimes ==
    \A n, p, q \in Nat : /\ ((n + 1) * p + q) - (n * p + q) = p
                         /\ (q + (n + 1) * p) - (q + n * p) = p
                         /\ (n + 1) * p - n * p = p
BY NatTimes

\* What orders bring is a number for each.
LEMMA PointsOf ==
    ASSUME NEW c \in [Order -> Nat], NEW t \in [Order -> Nat]
    PROVE  /\ OwnPoints(c, t) \in [Order -> Int]
           /\ BonusPoints(c) \in [Order -> Int]
<1>1. ASSUME NEW o \in Order
      PROVE  c[o] * PointsEarned(o) \in Nat /\ t[o] * PointsUsed[o] \in Nat
  BY GrossType, OrderAssumption, NatTimes
<1>2. ASSUME NEW o \in Order
      PROVE  c[o] * PointsEarned(o) + t[o] * PointsUsed[o] \in Nat
  BY <1>1
<1> QED BY <1>1, <1>2 DEF OwnPoints, BonusPoints

\* An account's orders, and those of the accounts it referred, are finitely many.
LEMMA OrdersFinite ==
    \A u \in User : /\ IsFiniteSet(OwnOrders(u)) /\ OwnOrders(u) \subseteq Order
                    /\ IsFiniteSet(ReferredOrders(u)) /\ ReferredOrders(u) \subseteq Order
BY OrderAssumption, FS_Subset DEF OwnOrders, ReferredOrders

\* What an account is owed is a number.
LEMMA OwedInt ==
    ASSUME NEW u \in User, NEW c \in [Order -> Nat], NEW t \in [Order -> Nat]
    PROVE  /\ SumFunctionOnSet(OwnPoints(c, t), OwnOrders(u)) \in Int
           /\ SumFunctionOnSet(BonusPoints(c), ReferredOrders(u)) \in Int
<1>1. /\ \A o \in OwnOrders(u) : OwnPoints(c, t)[o] \in Int
      /\ \A o \in ReferredOrders(u) : BonusPoints(c)[o] \in Int
  BY PointsOf, OrdersFinite
<1> QED BY <1>1, OrdersFinite, SumInt

\* One credit more adds the cashback to the buyer's points and the bonus to
\* the referrer's.
LEMMA OwedCredit ==
    ASSUME NEW u \in User, NEW c \in [Order -> Nat], NEW d \in [Order -> Nat],
           NEW t \in [Order -> Nat], NEW o \in Order,
           d[o] = c[o] + 1, \A x \in Order \ {o} : d[x] = c[x]
    PROVE  Owed(u, d, t) = Owed(u, c, t)
                + (IF u = Buyer[o] THEN PointsEarned(o) ELSE 0)
                + (IF Buyer[o] \in User /\ u = Referrer[Buyer[o]]
                     THEN PointsEarned(o) ELSE 0)
<1>1. PointsEarned(o) \in Nat
  BY GrossType
<1>2. /\ OwnPoints(c, t) \in [Order -> Int] /\ OwnPoints(d, t) \in [Order -> Int]
      /\ BonusPoints(c) \in [Order -> Int] /\ BonusPoints(d) \in [Order -> Int]
  BY PointsOf
<1>3. \A x \in Order \ {o} : /\ OwnPoints(c, t)[x] = OwnPoints(d, t)[x]
                             /\ BonusPoints(c)[x] = BonusPoints(d)[x]
  BY DEF OwnPoints, BonusPoints
<1>4. /\ OwnPoints(d, t)[o] - OwnPoints(c, t)[o] = PointsEarned(o)
      /\ BonusPoints(d)[o] - BonusPoints(c)[o] = PointsEarned(o)
  <2>1. c[o] \in Nat /\ t[o] * PointsUsed[o] \in Nat
    BY <1>1, OrderAssumption, NatTimes
  <2>2. /\ OwnPoints(d, t)[o] = (c[o] + 1) * PointsEarned(o) + t[o] * PointsUsed[o]
        /\ OwnPoints(c, t)[o] = c[o] * PointsEarned(o) + t[o] * PointsUsed[o]
        /\ BonusPoints(d)[o] = (c[o] + 1) * PointsEarned(o)
        /\ BonusPoints(c)[o] = c[o] * PointsEarned(o)
    BY DEF OwnPoints, BonusPoints
  <2>3. ASSUME NEW n \in Nat, n = c[o], NEW p \in Nat, p = PointsEarned(o),
               NEW q \in Nat, q = t[o] * PointsUsed[o]
        PROVE  /\ OwnPoints(d, t)[o] - OwnPoints(c, t)[o] = p
               /\ BonusPoints(d)[o] - BonusPoints(c)[o] = p
    <3>1. /\ OwnPoints(d, t)[o] = (n + 1) * p + q /\ OwnPoints(c, t)[o] = n * p + q
          /\ BonusPoints(d)[o] = (n + 1) * p /\ BonusPoints(c)[o] = n * p
      BY <2>2, <2>3
    <3>2. /\ ((n + 1) * p + q) - (n * p + q) = p
          /\ (n + 1) * p - n * p = p
      BY OneMoreTimes
    <3> QED BY <3>1, <3>2, Zenon
  <2> QED BY <1>1, <2>1, <2>3
<1>5. SumFunctionOnSet(OwnPoints(d, t), OwnOrders(u)) =
        SumFunctionOnSet(OwnPoints(c, t), OwnOrders(u))
        + (IF o \in OwnOrders(u) THEN PointsEarned(o) ELSE 0)
  BY <1>2, <1>3, <1>4, OrdersFinite, SumShift
<1>6. SumFunctionOnSet(BonusPoints(d), ReferredOrders(u)) =
        SumFunctionOnSet(BonusPoints(c), ReferredOrders(u))
        + (IF o \in ReferredOrders(u) THEN PointsEarned(o) ELSE 0)
  BY <1>2, <1>3, <1>4, OrdersFinite, SumShift
<1>7. /\ SumFunctionOnSet(OwnPoints(c, t), OwnOrders(u)) \in Int
      /\ SumFunctionOnSet(BonusPoints(c), ReferredOrders(u)) \in Int
  BY OwedInt
<1>8. /\ o \in OwnOrders(u) <=> u = Buyer[o]
      /\ o \in ReferredOrders(u) <=> Buyer[o] \in User /\ u = Referrer[Buyer[o]]
  BY DEF OwnOrders, ReferredOrders
<1> QED BY <1>1, <1>5, <1>6, <1>7, <1>8 DEF Owed

\* One return more adds the points spent to those of the account.
LEMMA OwedReturn ==
    ASSUME NEW u \in User, NEW c \in [Order -> Nat], NEW t \in [Order -> Nat],
           NEW d \in [Order -> Nat], NEW o \in Order,
           d[o] = t[o] + 1, \A x \in Order \ {o} : d[x] = t[x]
    PROVE  Owed(u, c, d) = Owed(u, c, t) + (IF u = Buyer[o] THEN PointsUsed[o] ELSE 0)
<1>1. PointsUsed[o] \in Nat
  BY OrderAssumption
<1>2. OwnPoints(c, t) \in [Order -> Int] /\ OwnPoints(c, d) \in [Order -> Int]
  BY PointsOf
<1>3. \A x \in Order \ {o} : OwnPoints(c, t)[x] = OwnPoints(c, d)[x]
  BY DEF OwnPoints
<1>4. OwnPoints(c, d)[o] - OwnPoints(c, t)[o] = PointsUsed[o]
  <2>1. t[o] \in Nat /\ c[o] * PointsEarned(o) \in Nat
    BY <1>1, GrossType, NatTimes
  <2>2. /\ OwnPoints(c, d)[o] = c[o] * PointsEarned(o) + (t[o] + 1) * PointsUsed[o]
        /\ OwnPoints(c, t)[o] = c[o] * PointsEarned(o) + t[o] * PointsUsed[o]
    BY DEF OwnPoints
  <2>3. ASSUME NEW n \in Nat, n = t[o], NEW p \in Nat, p = PointsUsed[o],
               NEW q \in Nat, q = c[o] * PointsEarned(o)
        PROVE  OwnPoints(c, d)[o] - OwnPoints(c, t)[o] = p
    <3>1. OwnPoints(c, d)[o] = q + (n + 1) * p /\ OwnPoints(c, t)[o] = q + n * p
      BY <2>2, <2>3
    <3>2. (q + (n + 1) * p) - (q + n * p) = p
      BY OneMoreTimes
    <3> QED BY <3>1, <3>2, Zenon
  <2> QED BY <1>1, <2>1, <2>3
<1>5. SumFunctionOnSet(OwnPoints(c, d), OwnOrders(u)) =
        SumFunctionOnSet(OwnPoints(c, t), OwnOrders(u))
        + (IF o \in OwnOrders(u) THEN PointsUsed[o] ELSE 0)
  BY <1>2, <1>3, <1>4, OrdersFinite, SumShift
<1>6. /\ SumFunctionOnSet(OwnPoints(c, t), OwnOrders(u)) \in Int
      /\ SumFunctionOnSet(BonusPoints(c), ReferredOrders(u)) \in Int
  BY OwedInt
<1>7. o \in OwnOrders(u) <=> u = Buyer[o]
  BY DEF OwnOrders
<1> QED BY <1>1, <1>5, <1>6, <1>7 DEF Owed

\* The property, in terms of what each account is owed.
LEMMA PointsReconcileIs ==
    PointsReconcile <=> \A u \in User : points[u] = Owed(u, credits, returned)
BY DEF PointsReconcile, Owed, OwnPoints, BonusPoints, OwnOrders, ReferredOrders

\* The same, after a step.
LEMMA PointsReconcileWillBe ==
    PointsReconcile' <=> \A u \in User : points'[u] = Owed(u, credits', returned')
BY DEF PointsReconcile, Owed, OwnPoints, BonusPoints, OwnOrders, ReferredOrders

\* The initial states satisfy it.
LEMMA PointsInit == Init => PointsReconcile
<1> SUFFICES ASSUME Init, NEW u \in User
             PROVE  points[u] = Owed(u, credits, returned)
  BY PointsReconcileIs
<1>1. \A o \in Order : OwnPoints(credits, returned)[o] = 0 /\ BonusPoints(credits)[o] = 0
  BY GrossType, OrderAssumption DEF Init, OwnPoints, BonusPoints
<1>2. /\ SumFunctionOnSet(OwnPoints(credits, returned), OwnOrders(u)) = 0
      /\ SumFunctionOnSet(BonusPoints(credits), ReferredOrders(u)) = 0
  BY <1>1, OrdersFinite, SumZero
<1> QED BY <1>2 DEF Init, Owed

\* A step that credits or returns the points of one order keeps it.
LEMMA PointsKept ==
    ASSUME TypeOK, TypeOK', PointsReconcile, PointsStep
    PROVE  PointsReconcile'
<1> SUFFICES ASSUME NEW u \in User
             PROVE  points'[u] = Owed(u, credits', returned')
  BY PointsReconcileWillBe
<1>1. points[u] = Owed(u, credits, returned)
  BY PointsReconcileIs
<1>2. /\ credits \in [Order -> Nat] /\ returned \in [Order -> Nat]
      /\ credits' \in [Order -> Nat] /\ returned' \in [Order -> Nat]
      /\ points \in [User -> Nat]
  BY DEF TypeOK
<1>3. CASE UNCHANGED <<points, credits, returned>>
  BY <1>1, <1>3
<1>4. ASSUME NEW o \in Order, Award(o)
      PROVE  points'[u] = Owed(u, credits', returned')
  <2>1. Owed(u, credits', returned) = Owed(u, credits, returned)
                + (IF u = Buyer[o] THEN PointsEarned(o) ELSE 0)
                + (IF Buyer[o] \in User /\ u = Referrer[Buyer[o]]
                     THEN PointsEarned(o) ELSE 0)
    <3>1. credits'[o] = credits[o] + 1 /\ \A x \in Order \ {o} : credits'[x] = credits[x]
      BY <1>2, <1>4 DEF Award
    <3> QED BY <1>2, <3>1, OwedCredit
  <2> QED BY <1>1, <1>4, <2>1 DEF Award, AwardPoints
<1>5. ASSUME NEW o \in Order, GiveBack(o)
      PROVE  points'[u] = Owed(u, credits', returned')
  <2>1. Owed(u, credits, returned') = Owed(u, credits, returned)
                + (IF u = Buyer[o] THEN PointsUsed[o] ELSE 0)
    <3>1. returned'[o] = returned[o] + 1 /\ \A x \in Order \ {o} : returned'[x] = returned[x]
      BY <1>2, <1>5 DEF GiveBack
    <3> QED BY <1>2, <3>1, OwedReturn
  <2>2. PointsUsed[o] \in Nat
    BY OrderAssumption
  <2> QED BY <1>1, <1>2, <1>5, <2>1, <2>2 DEF GiveBack
<1> QED BY <1>3, <1>4, <1>5 DEF PointsStep

\* Every point of an account is the cashback, the referral bonus or the
\* returned points of some order, for any number of accounts and orders.
THEOREM PointsReconciled == Spec => []PointsReconcile
<1>1. Init => IInv /\ PointsReconcile
  BY InitInv, PointsInit
<1>2. IInv /\ PointsReconcile /\ [Next]_vars => (IInv /\ PointsReconcile)'
  BY StepInv, StepType, EveryStepPoints, PointsKept DEF IInv
<1> QED BY <1>1, <1>2, PTL DEF Spec

-----------------------------------------------------------------------------
(* What withdrawals leave *)

\* A credit: what it holds is what it adds.
Gives ==
    \E o \in Order, n \in Nat :
        /\ Credited
        /\ balance' = balance + n
        /\ HeldNet'[o] <= HeldNet[o] + n
        /\ \A x \in Order \ {o} : HeldNet'[x] = HeldNet[x]

\* Any other commit: less is free only when something was taken, and more is held
\* only when the dispute of an order never paid holds its quoted amount.
Takes ==
    /\ Taken \/ balance' = balance
    /\ UnpaidHeld \/ \A o \in Order : HeldNet'[o] <= HeldNet[o]

\* A credit does what Gives says.
LEMMA CreditGives ==
    ASSUME TypeOK, TypeOK', NEW o \in Order, CreditSeller(o)
    PROVE  Gives
<1>1. PICK fee \in Commission(Gross(o), Rate(plan)) :
        /\ bill' = [bill EXCEPT ![o] = [fee |-> fee, net |-> Gross(o) - fee]]
        /\ balance' = balance + (Gross(o) - fee)
  BY DEF CreditSeller
<1>. DEFINE n == Gross(o) - fee
<1>2. n \in Nat
  BY CommissionBounds, GrossType
<1>3. bill'[o].net = n /\ alloc'[o].net = n
  <2>1. bill'[o] = [fee |-> fee, net |-> n]
    BY <1>1 DEF TypeOK
  <2>. QED BY <2>1, CreditSellerFacts
<1>4. Credited
  <2>1. credits'[o] = credits[o] + 1 /\ credits[o] \in Nat
    BY CreditSellerFacts DEF TypeOK
  <2>. QED BY <2>1 DEF Credited
<1>5. \A x \in Order : x # o => alloc'[x] = alloc[x]
  BY CreditSellerFacts
<1>6. HeldNet \in [Order -> Nat]
  BY HeldNetType
<1>. HIDE DEF n
<1>7. HeldNet'[o] <= HeldNet[o] + n
  <2>1. HeldNet'[o] \in {0, n}
    BY <1>3 DEF HeldNet
  <2>. QED BY <1>2, <1>6, <2>1
<1>8. \A x \in Order \ {o} : HeldNet'[x] = HeldNet[x]
  BY <1>5 DEF HeldNet
<1>. QED BY <1>1, <1>2, <1>4, <1>7, <1>8 DEF Gives, n

\* What is held does not grow when no allocation changes.
LEMMA SameAllocTakes ==
    ASSUME TypeOK, UNCHANGED alloc, Taken \/ balance' = balance
    PROVE  Takes
<1>1. HeldNet \in [Order -> Nat] /\ HeldNet' = HeldNet
  BY HeldNetType DEF HeldNet
<1>. QED BY <1>1 DEF Takes

\* Nor when one becomes cancelled or refunded.
LEMMA ReleasedTakes ==
    ASSUME TypeOK, NEW o \in Order, NEW s \in AllocStatus, s \notin HeldStatus,
           MoveAlloc(o, s), Taken \/ balance' = balance
    PROVE  Takes
<1>1. HeldNet \in [Order -> Nat]
  BY HeldNetType
<1>2. alloc'[o].status = s /\ \A x \in Order : x # o => alloc'[x] = alloc[x]
  BY MoveAllocFacts
<1>3. ASSUME NEW x \in Order PROVE HeldNet'[x] <= HeldNet[x]
  <2>1. CASE x = o
    <3>1. HeldNet'[x] = 0
      BY <1>2, <2>1 DEF HeldNet
    <3>. QED BY <1>1, <3>1
  <2>2. CASE x # o
    <3>1. HeldNet'[x] = HeldNet[x]
      BY <1>2, <2>2 DEF HeldNet
    <3>. QED BY <1>1, <3>1
  <2>. QED BY <2>1, <2>2
<1>. QED BY <1>3 DEF Takes

\* A debit takes, unless it is of nothing.
LEMMA DebitTakes ==
    ASSUME TypeOK, NEW o \in Order, NEW n \in Int, Debit(o, n) \/ DebitRefund(o, n)
    PROVE  Taken \/ balance' = balance
<1>1. balance' = balance - n /\ balance \in Int
  BY DEF Debit, DebitRefund, TypeOK
<1>2. CASE n = 0
  BY <1>1, <1>2
<1>3. CASE n # 0
  <2>1. debited[o] \in Int /\ refunded[o] \in Int
    BY DEF TypeOK
  <2>2. debited'[o] # debited[o] \/ refunded'[o] # refunded[o]
    BY <1>3, <2>1 DEF Debit, DebitRefund, TypeOK
  <2>. QED BY <2>2 DEF Taken
<1>. QED BY <1>2, <1>3

\* Every commit is a credit or takes.
LEMMA CommitHeld ==
    ASSUME TypeOK, TypeOK', NEW r \in Req, Commit(r)
    PROVE  Gives \/ Takes
<1>. DEFINE o == call[r].order
<1>0. UNCHANGED dbVars => Takes
  BY SameAllocTakes DEF dbVars, creditVars
<1>1. ASSUME NEW x \in Order, PayIfPending(x) PROVE Gives \/ Takes
  BY <1>0, <1>1, CreditGives DEF PayIfPending
<1>2. CASE ConfirmPayment(r)
  <2>1. o \in Order /\ PayIfPending(o)
    BY <1>2, CallShape DEF ConfirmPayment
  <2>. QED BY <1>1, <2>1
<1>3. CASE UpdateStatus(r)
  <2>1. o \in Order
    BY <1>3, CallShape DEF UpdateStatus
  <2>2. PayIfPending(o) \/ UNCHANGED <<alloc, balance>>
    BY <1>3 DEF UpdateStatus, creditVars
  <2>. QED BY <1>1, <2>1, <2>2, SameAllocTakes
<1>4. CASE SettlePaidOrder(r)
  <2>1. o \in Order
    BY <1>4, CallShape DEF SettlePaidOrder
  <2>2. CreditSeller(o) \/ UNCHANGED dbVars
    BY <1>4 DEF SettlePaidOrder
  <2>. QED BY <1>0, <2>1, <2>2, CreditGives
<1>5. CASE CancelByCustomer(r)
  <2>1. o \in Order /\ Finish(r, "cancelByCustomer")
    BY <1>5, CallShape DEF CancelByCustomer
  <2>2. CASE StillCancellable(o) /\ seen[r].status = "PAID"
    <3>1. /\ Debit(o, CreditedAmount(o, seen[r]))
          /\ MoveAlloc(o, IF alloc[o].status = "NONE" THEN "NONE" ELSE "CANCELLED")
      BY <1>5, <2>2 DEF CancelByCustomer
    <3>2. CreditedAmount(o, seen[r]) \in Int
      <4>1. Gross(o) \in Nat /\ Total[o] \in Nat /\ seen[r] \in OrderRow
        BY <2>1, GrossType, OrderAssumption DEF TypeOK, RequestTypes
      <4>2. seen[r].bill # NoBill => seen[r].bill.fee \in Nat
        BY <4>1 DEF OrderRow, Bill
      <4>. QED BY <4>1, <4>2 DEF CreditedAmount
    <3>3. Taken \/ balance' = balance
      BY <2>1, <3>1, <3>2, DebitTakes
    <3>4. {"NONE", "CANCELLED"} \subseteq AllocStatus \ HeldStatus
      BY DEF AllocStatus, HeldStatus
    <3>5. PICK s \in {"NONE", "CANCELLED"} : MoveAlloc(o, s)
      BY <3>1
    <3>. QED BY <2>1, <3>3, <3>4, <3>5, ReleasedTakes
  <2>3. CASE ~(StillCancellable(o) /\ seen[r].status = "PAID")
    <3>1. UNCHANGED <<alloc, balance>>
      BY <1>5, <2>3 DEF CancelByCustomer, dbVars, creditVars
    <3>. QED BY <3>1, SameAllocTakes
  <2>. QED BY <2>2, <2>3
<1>6. CASE CancelOrder(r)
  <2>1. o \in Order /\ Total[o] \in Int
    BY <1>6, CallShape, OrderAssumption DEF CancelOrder
  <2>2. UNCHANGED alloc /\ (Debit(o, Total[o]) \/ UNCHANGED balance)
    BY <1>6 DEF CancelOrder, creditVars
  <2>. QED BY <2>1, <2>2, DebitTakes, SameAllocTakes
<1>7. CASE CreateRequest(r)
  <2>1. o \in Order
    BY <1>7, CallShape DEF CreateRequest
  <2>2. CASE refund[o] = "NONE" /\ alloc[o].status \in Holdable
    <3>1. MoveAlloc(o, "ON_HOLD_DISPUTE") /\ UNCHANGED balance
      BY <1>7, <2>2 DEF CreateRequest
    <3>2. "ON_HOLD_DISPUTE" \in AllocStatus
      BY DEF AllocStatus
    <3>3. /\ alloc'[o].status = "ON_HOLD_DISPUTE" /\ alloc'[o].net = alloc[o].net
          /\ \A x \in Order : x # o => alloc'[x] = alloc[x]
      BY <2>1, <3>1, <3>2, MoveAllocFacts
    <3>4. HeldNet \in [Order -> Nat]
      BY HeldNetType
    <3>5. CASE alloc[o].status = "PENDING_PAYMENT"
      BY <2>1, <3>1, <3>3, <3>5 DEF Takes, UnpaidHeld
    <3>6. CASE alloc[o].status = "AWAITING_DELIVERY_VERIFICATION"
      <4>1. ASSUME NEW x \in Order PROVE HeldNet'[x] = HeldNet[x]
        BY <3>3, <3>6 DEF HeldNet, HeldStatus
      <4>. QED BY <3>1, <3>4, <4>1 DEF Takes
    <3>. QED BY <2>2, <3>5, <3>6 DEF Holdable
  <2>3. CASE ~(refund[o] = "NONE" /\ alloc[o].status \in Holdable)
    <3>1. UNCHANGED balance
      BY <1>7 DEF CreateRequest, dbVars
    <3>2. alloc' = alloc \/ MoveAlloc(o, alloc[o].status)
      BY <1>7, <2>3 DEF CreateRequest, dbVars, creditVars
    <3>3. alloc[o].status \in AllocStatus
      BY <2>1 DEF TypeOK
    <3>4. ASSUME NEW x \in Order
          PROVE  alloc'[x].status = alloc[x].status /\ alloc'[x].net = alloc[x].net
      BY <2>1, <3>2, <3>3, MoveAllocFacts
    <3>5. HeldNet \in [Order -> Nat]
      BY HeldNetType
    <3>6. ASSUME NEW x \in Order PROVE HeldNet'[x] = HeldNet[x]
      BY <3>4 DEF HeldNet
    <3>. QED BY <3>1, <3>5, <3>6 DEF Takes
  <2>. QED BY <2>2, <2>3
<1>8. CASE VendorReply(r)
  BY <1>8, SameAllocTakes DEF VendorReply, creditVars
<1>9. CASE AdminDecide(r)
  <2>1. o \in Order
    BY <1>9, CallShape DEF AdminDecide
  <2>2. CASE MoveAlloc(o, "REFUNDED") /\ DebitRefund(o, alloc[o].net)
    <3>1. alloc[o].net \in Int /\ "REFUNDED" \in AllocStatus \ HeldStatus
      BY <2>1 DEF TypeOK, AllocStatus, HeldStatus
    <3>. QED BY <2>1, <2>2, <3>1, DebitTakes, ReleasedTakes
  <2>3. CASE /\ UNCHANGED alloc
             /\ seen[r].bill # NoBill /\ DebitRefund(o, seen[r].bill.net)
    <3>1. seen[r].bill.net \in Int
      BY <2>3 DEF TypeOK, RequestTypes, OrderRow, Bill
    <3>. QED BY <2>1, <2>3, <3>1, DebitTakes, SameAllocTakes
  <2>4. CASE UNCHANGED <<alloc, balance>>
    BY <2>4, SameAllocTakes
  <2>. QED BY <1>9, <2>2, <2>3, <2>4 DEF AdminDecide
<1>10. CASE RequestWithdrawal(r)
  <2>1. UNCHANGED alloc
    BY <1>10 DEF RequestWithdrawal, dbVars, creditVars
  <2>2. Taken \/ balance' = balance
    <3>1. call[r].amount \in Nat /\ balance \in Int /\ withdrawn \in Nat
      BY <1>10, CallShape DEF RequestWithdrawal, TypeOK
    <3>. QED BY <1>10, <3>1 DEF RequestWithdrawal, Taken, dbVars
  <2>. QED BY <2>1, <2>2, SameAllocTakes
<1>. QED BY <1>2, <1>3, <1>4, <1>5, <1>6, <1>7, <1>8, <1>9, <1>10 DEF Commit

\* What a withdrawal that has read still knows: unless money was taken, or the
\* dispute of an order never paid holds some, there is as much as it has read, and
\* unless more was held, no more is held than it has read.
WithdrawalInv(r) ==
    /\ pc[r] = "counting" /\ "less free" \notin since[r] => balanceSeen[r] <= balance
    /\ pc[r] = "running" /\ call[r].op = "requestWithdrawal" =>
        /\ "more held" \notin since[r] => \A o \in Order : HeldNet[o] <= heldSeen[r][o]
        /\ "less free" \notin since[r] =>
              call[r].amount + SumFunctionOnSet(HeldNet, Order) <= balance

WithdrawalsInv == \A r \in Req : WithdrawalInv(r)

\* Commits that take nothing leave as much free as before.
LEMMA FreeKept ==
    ASSUME TypeOK, TypeOK', Gives \/ Takes, ~Taken, ~UnpaidHeld
    PROVE  /\ balance <= balance'
           /\ balance - SumFunctionOnSet(HeldNet, Order)
                <= balance' - SumFunctionOnSet(HeldNet', Order)
<1>1. HeldNet \in [Order -> Nat] /\ HeldNet' \in [Order -> Nat]
  <2>1. HeldNet' \in [Order -> Nat]
    BY DEF TypeOK, HeldNet
  <2>. QED BY <2>1, HeldNetType
<1>2. IsFiniteSet(Order) /\ balance \in Int /\ balance' \in Int
  BY OrderAssumption DEF TypeOK
<1>. DEFINE h == HeldNet
            k == HeldNet'
            s == SumFunctionOnSet(h, Order)
            z == SumFunctionOnSet(k, Order)
<1>. HIDE DEF h, k
<1>3. s \in Int /\ z \in Int
  BY <1>1, <1>2, SumInt DEF h, k
<1>4. CASE Gives
  <2>1. PICK o \in Order, n \in Nat :
          /\ balance' = balance + n
          /\ k[o] <= h[o] + n
          /\ \A x \in Order \ {o} : k[x] = h[x]
    BY <1>4 DEF Gives, h, k
  <2>2. z = s + k[o] - h[o]
    BY <1>1, <1>2, <2>1, SumChange DEF h, k
  <2>3. k[o] \in Int /\ h[o] \in Int
    BY <1>1 DEF h, k
  <2>. HIDE DEF s, z
  <2>4. z <= s + n
    BY <1>3, <2>1, <2>2, <2>3
  <2>. QED BY <1>2, <1>3, <2>1, <2>4 DEF s, z, h, k
<1>5. CASE Takes
  <2>1. balance' = balance /\ \A o \in Order : k[o] <= h[o]
    BY <1>5 DEF Takes, h, k
  <2>2. z <= s
    BY <1>1, <1>2, <2>1, SumLeq DEF h, k
  <2>. HIDE DEF s, z
  <2>. QED BY <1>2, <1>3, <2>1, <2>2 DEF s, z, h, k
<1>. QED BY <1>4, <1>5

\* Another withdrawal that has read notices a commit that gives or takes.
LEMMA OthersNotice ==
    ASSUME TypeOK, NEW r \in Req, Notice(r), NEW q \in Req, q # r, Withdrawing(q)
    PROVE  /\ "more held" \notin since'[q] =>
                 "more held" \notin since[q] /\ ~Credited /\ ~UnpaidHeld
           /\ "less free" \notin since'[q] =>
                 "less free" \notin since[q] /\ ~Taken /\ ~UnpaidHeld
<1>1. since'[q] = since[q] \cup (IF Credited \/ UnpaidHeld THEN {"more held"} ELSE {})
                          \cup (IF Taken \/ UnpaidHeld THEN {"less free"} ELSE {})
  BY DEF Notice
<1>2. CASE Credited \/ UnpaidHeld
  BY <1>1, <1>2
<1>3. CASE ~(Credited \/ UnpaidHeld)
  BY <1>1, <1>3
<1>. QED BY <1>2, <1>3

\* A commit leaves the other withdrawals what they know, or is noticed.
LEMMA CommitNoticed ==
    ASSUME IInv, TypeOK', NEW r \in Req, Commit(r), WithdrawalsInv
    PROVE  WithdrawalsInv'
<1>. SUFFICES ASSUME NEW q \in Req PROVE WithdrawalInv(q)'
  BY DEF WithdrawalsInv
<1>1. Answer(r) /\ Notice(r)
  BY DEF Commit, ConfirmPayment, UpdateStatus, SettlePaidOrder, CancelByCustomer,
         CancelOrder, CreateRequest, VendorReply, AdminDecide, RequestWithdrawal, Finish
<1>2. TypeOK /\ WithdrawalInv(q) /\ RequestTypes /\ ReqInv(q)
  BY DEF WithdrawalsInv, IInv, TypeOK
<1>3. CASE q = r
  <2>1. pc'[q] = "done"
    BY <1>1, <1>2, <1>3 DEF RequestTypes, Answer
  <2>. QED BY <2>1 DEF WithdrawalInv
<1>4. CASE q # r
  <2>1. /\ pc'[q] = pc[q] /\ call'[q] = call[q] /\ balanceSeen'[q] = balanceSeen[q]
        /\ heldSeen'[q] = heldSeen[q]
    BY <1>1, <1>2, <1>4 DEF RequestTypes, Answer
  <2>2. CASE ~Withdrawing(q)
    BY <1>2, <2>1, <2>2 DEF WithdrawalInv, Withdrawing, ReqInv
  <2>3. CASE Withdrawing(q)
    <3>1. Gives \/ Takes
      BY <1>2, CommitHeld
    <3>2. /\ HeldNet \in [Order -> Nat] /\ HeldNet' \in [Order -> Nat]
          /\ heldSeen[q] \in [Order -> Nat]
      BY <1>2, HeldNetType DEF TypeOK, RequestTypes, HeldNet
    <3>3. ASSUME "more held" \notin since'[q], pc[q] = "running"
          PROVE  \A o \in Order : HeldNet'[o] <= heldSeen'[q][o]
      <4>1. "more held" \notin since[q] /\ ~Credited /\ ~UnpaidHeld
        BY <1>1, <1>2, <1>4, <2>3, <3>3, OthersNotice
      <4>2. \A o \in Order : HeldNet'[o] <= HeldNet[o]
        BY <3>1, <4>1 DEF Gives, Takes
      <4>3. \A o \in Order : HeldNet[o] <= heldSeen[q][o]
        BY <1>2, <2>3, <3>3, <4>1 DEF WithdrawalInv, Withdrawing
      <4>. QED BY <2>1, <3>2, <4>2, <4>3
    <3>4. ASSUME "less free" \notin since'[q]
          PROVE  /\ "less free" \notin since[q]
                 /\ balance <= balance'
                 /\ balance - SumFunctionOnSet(HeldNet, Order)
                      <= balance' - SumFunctionOnSet(HeldNet', Order)
      BY <1>1, <1>2, <1>4, <2>3, <3>1, <3>4, OthersNotice, FreeKept
    <3>5. /\ SumFunctionOnSet(HeldNet, Order) \in Int
          /\ SumFunctionOnSet(HeldNet', Order) \in Int
          /\ balance \in Int /\ balance' \in Int /\ balanceSeen[q] \in Int
      BY <1>2, <3>2, OrderAssumption, SumInt DEF TypeOK, RequestTypes
    <3>6. call[q].amount \in Nat
      <4>1. call[q] \in AllCalls /\ call[q].op = "requestWithdrawal"
        BY <1>2, <2>3, CallsAssumption DEF RequestTypes, Withdrawing
      <4>. QED BY <4>1 DEF AllCalls
    <3>7. ASSUME pc[q] = "counting", "less free" \notin since'[q]
          PROVE  balanceSeen[q] <= balance'
      <4>1. balanceSeen[q] <= balance
        BY <1>2, <3>4, <3>7 DEF WithdrawalInv
      <4>2. \A a, b, c \in Int : a <= b /\ b <= c => a <= c
        OBVIOUS
      <4>. QED BY <3>4, <3>5, <3>7, <4>1, <4>2
    <3>8. ASSUME pc[q] = "running", "less free" \notin since'[q]
          PROVE  call[q].amount + SumFunctionOnSet(HeldNet', Order) <= balance'
      <4>1. call[q].amount + SumFunctionOnSet(HeldNet, Order) <= balance
        BY <1>2, <2>3, <3>4, <3>8 DEF WithdrawalInv, Withdrawing
      <4>2. \A a \in Nat : \A b, c, h, k \in Int : a + h <= b /\ b - h <= c - k => a + k <= c
        OBVIOUS
      <4>. QED BY <3>4, <3>5, <3>6, <3>8, <4>1, <4>2, Zenon
    <3>. QED BY <2>1, <3>3, <3>7, <3>8 DEF WithdrawalInv
  <2>. QED BY <2>2, <2>3
<1>. QED BY <1>3, <1>4

\* What is held, added up over the orders.
LEMMA HeldSum ==
    ASSUME NEW h \in [Order -> Nat]
    PROVE  SumFunction(h) = SumFunctionOnSet(h, Order)
  BY DEF SumFunction

\* What a withdrawal has just read it knows.
LEMMA ReadKnows ==
    ASSUME IInv, NEW r \in Req, Read(r) \/ CountHeld(r), WithdrawalsInv
    PROVE  WithdrawalsInv'
<1>1. TypeOK /\ RequestTypes /\ WithdrawalInv(r)
  BY DEF IInv, TypeOK, WithdrawalsInv
<1>2. UNCHANGED dbVars
  BY DEF Read, CountHeld
<1>3. balance' = balance /\ HeldNet' = HeldNet
  BY <1>2 DEF dbVars, creditVars, HeldNet
<1>4. HeldNet \in [Order -> Nat] /\ balance \in Int
  BY <1>1, HeldNetType DEF TypeOK
<1>5. ASSUME NEW q \in Req, q # r PROVE WithdrawalInv(q)'
  <2>1. WithdrawalInv(q)
    BY DEF WithdrawalsInv
  <2>2. /\ pc'[q] = pc[q] /\ call'[q] = call[q] /\ balanceSeen'[q] = balanceSeen[q]
        /\ heldSeen'[q] = heldSeen[q] /\ since'[q] = since[q]
    <3>1. CASE Read(r)
      BY <1>1, <1>5, <3>1 DEF RequestTypes, Read
    <3>2. CASE CountHeld(r)
      BY <1>1, <1>5, <3>2 DEF RequestTypes, CountHeld, Answer
    <3>. QED BY <3>1, <3>2
  <2>. QED BY <1>3, <2>1, <2>2 DEF WithdrawalInv
<1>6. CASE Read(r)
  <2>1. PICK c \in Calls :
          /\ call' = [call EXCEPT ![r] = c]
          /\ \/ /\ balanceSeen' = [balanceSeen EXCEPT ![r] = balance]
                /\ pc' = [pc EXCEPT ![r] = "counting"]
             \/ /\ c.op # "requestWithdrawal"
                /\ pc' = [pc EXCEPT ![r] = "running"]
    BY <1>6 DEF Read
  <2>2. \/ pc'[r] = "counting" /\ balanceSeen'[r] = balance
        \/ pc'[r] = "running" /\ call'[r].op # "requestWithdrawal"
    BY <1>1, <2>1 DEF RequestTypes
  <2>3. WithdrawalInv(r)'
    <3>1. balance <= balance
      BY <1>4
    <3>. QED BY <1>3, <2>2, <3>1 DEF WithdrawalInv
  <2>. QED BY <1>5, <2>3 DEF WithdrawalsInv
<1>7. CASE CountHeld(r)
  <2>1. CASE call[r].amount + SumFunction(HeldNet) <= balanceSeen[r]
    <3>1. /\ heldSeen' = [heldSeen EXCEPT ![r] = HeldNet]
          /\ pc[r] = "counting"
          /\ pc' = [pc EXCEPT ![r] = "running"]
          /\ UNCHANGED <<call, seen, balanceSeen, since>>
      BY <1>7, <2>1 DEF CountHeld
    <3>2. /\ heldSeen'[r] = HeldNet /\ pc'[r] = "running"
          /\ call'[r] = call[r] /\ since'[r] = since[r]
      BY <1>1, <3>1 DEF RequestTypes
    <3>3. call[r].amount \in Nat /\ balanceSeen[r] \in Int
          /\ SumFunctionOnSet(HeldNet, Order) \in Int
      <4>1. call[r] \in AllCalls /\ call[r].op = "requestWithdrawal"
        BY <1>1, <3>1, CallsAssumption DEF RequestTypes, IInv, ReqInv
      <4>2. call[r].amount \in Nat
        BY <4>1 DEF AllCalls
      <4>3. SumFunctionOnSet(HeldNet, Order) \in Int
        BY <1>4, OrderAssumption, SumInt
      <4>. QED BY <1>1, <4>2, <4>3 DEF RequestTypes
    <3>4. "less free" \notin since[r] =>
            call[r].amount + SumFunctionOnSet(HeldNet, Order) <= balance
      <4>1. "less free" \notin since[r] => balanceSeen[r] <= balance
        BY <1>1, <3>1 DEF WithdrawalInv
      <4>2. call[r].amount + SumFunctionOnSet(HeldNet, Order) <= balanceSeen[r]
        BY <1>4, <2>1, HeldSum
      <4>3. \A a \in Nat : \A h, b, c \in Int : a + h <= b /\ b <= c => a + h <= c
        OBVIOUS
      <4>. QED BY <1>4, <3>3, <4>1, <4>2, <4>3, Zenon
    <3>5. \A o \in Order : HeldNet[o] <= HeldNet[o]
      BY <1>4
    <3>6. WithdrawalInv(r)'
      BY <1>3, <3>2, <3>4, <3>5 DEF WithdrawalInv
    <3>. QED BY <1>5, <3>6 DEF WithdrawalsInv
  <2>2. CASE ~(call[r].amount + SumFunction(HeldNet) <= balanceSeen[r])
    <3>1. pc'[r] = "done"
      BY <1>1, <1>7, <2>2 DEF RequestTypes, CountHeld, Answer
    <3>2. WithdrawalInv(r)'
      BY <3>1 DEF WithdrawalInv
    <3>. QED BY <1>5, <3>2 DEF WithdrawalsInv
  <2>. QED BY <2>1, <2>2
<1>. QED BY <1>6, <1>7

\* Every step leaves withdrawals what they know, or is noticed.
LEMMA StepNoticed == IInv /\ WithdrawalsInv /\ [Next]_vars => WithdrawalsInv'
<1>. SUFFICES ASSUME IInv, WithdrawalsInv, [Next]_vars PROVE WithdrawalsInv'
  OBVIOUS
<1>1. TypeOK'
  BY StepType DEF IInv
<1>2. CASE \E r \in Req : Commit(r)
  BY <1>1, <1>2, CommitNoticed
<1>3. CASE \E r \in Req : Read(r) \/ CountHeld(r)
  BY <1>3, ReadKnows
<1>4. CASE \/ \E o \in Order : CreateCheckout(o) \/ PayInvoice(o)
           \/ \E p \in Plans : ActivatePlan(p)
           \/ UNCHANGED vars
  <2>1. UNCHANGED <<alloc, balance, pc, call, balanceSeen, heldSeen, since>>
    BY <1>4 DEF CreateCheckout, PayInvoice, ActivatePlan, reqVars, creditVars, vars, dbVars
  <2>2. HeldNet' = HeldNet
    BY <2>1 DEF HeldNet
  <2>. QED BY <2>1, <2>2 DEF WithdrawalsInv, WithdrawalInv
<1>. QED BY <1>2, <1>3, <1>4 DEF Next

\* A withdrawal that takes money leaves what is held, unless both happened since.
LEMMA WithdrawalLeaves ==
    ASSUME IInv, TypeOK', WithdrawalsInv, [Next]_vars,
           NEW r \in Req, Withdrawing(r), withdrawn' # withdrawn, pc'[r] = "done"
    PROVE  balance' >= SumFunction(HeldNet') \/ since[r] = Changes
<1>1. TypeOK /\ RequestTypes /\ WithdrawalInv(r)
  BY DEF IInv, TypeOK, WithdrawalsInv
<1>2. PICK q \in Req : RequestWithdrawal(q)
  <2>1. CASE UNCHANGED vars
    BY <2>1 DEF vars, dbVars, otherVars
  <2>2. ASSUME NEW q \in Req, Commit(q), ~RequestWithdrawal(q) PROVE UNCHANGED withdrawn
    BY <2>2 DEF Commit, ConfirmPayment, UpdateStatus, SettlePaidOrder, CancelByCustomer,
                CancelOrder, CreateRequest, VendorReply, AdminDecide, PayIfPending,
                dbVars, otherVars
  <2>3. CASE \/ \E q \in Req : Read(q) \/ CountHeld(q)
             \/ \E o \in Order : CreateCheckout(o) \/ PayInvoice(o)
             \/ \E p \in Plans : ActivatePlan(p)
    BY <2>3 DEF Read, CountHeld, CreateCheckout, PayInvoice, ActivatePlan, dbVars, otherVars
  <2> QED BY <2>1, <2>2, <2>3 DEF Next
<1>3. q = r
  <2>1. pc' = [pc EXCEPT ![q] = "done"] /\ pc \in [Req -> {"idle", "counting", "running", "done"}]
    BY <1>1, <1>2 DEF RequestWithdrawal, Finish, Answer, RequestTypes
  <2>. QED BY <2>1 DEF Withdrawing
<1>4. /\ Affordable(call[r].amount, heldSeen[r])
      /\ balance' = balance - call[r].amount /\ alloc' = alloc
      /\ pc[r] = "running" /\ call[r].op = "requestWithdrawal"
  BY <1>2, <1>3 DEF RequestWithdrawal, Finish, dbVars, creditVars, otherVars
<1>5. HeldNet' = HeldNet /\ HeldNet \in [Order -> Nat] /\ heldSeen[r] \in [Order -> Nat]
  BY <1>1, <1>4, HeldNetType DEF HeldNet, RequestTypes
<1>6. call[r].amount \in Nat /\ balance \in Int
  BY <1>1, <1>2, <1>3, CallShape DEF RequestWithdrawal, TypeOK
<1>. DEFINE h == SumFunctionOnSet(HeldNet, Order)
            s == SumFunctionOnSet(heldSeen[r], Order)
<1>7. /\ SumFunction(HeldNet') = h /\ SumFunction(heldSeen[r]) = s
      /\ h \in Int /\ s \in Int
  BY <1>5, HeldSum, OrderAssumption, SumInt
<1>8. CASE "more held" \notin since[r]
  <2>1. \A o \in Order : HeldNet[o] <= heldSeen[r][o]
    BY <1>1, <1>4, <1>8 DEF WithdrawalInv
  <2>2. h <= s
    BY <1>5, <2>1, OrderAssumption, SumLeq
  <2>. HIDE DEF h, s
  <2>. QED BY <1>4, <1>6, <1>7, <2>2 DEF Affordable
<1>9. CASE "less free" \notin since[r]
  <2>1. call[r].amount + h <= balance
    BY <1>1, <1>4, <1>9 DEF WithdrawalInv
  <2>. HIDE DEF h, s
  <2>. QED BY <1>4, <1>6, <1>7, <2>1
<1>10. CASE "more held" \in since[r] /\ "less free" \in since[r]
  BY <1>1, <1>10 DEF RequestTypes, Changes
<1>. QED BY <1>8, <1>9, <1>10

\* A withdrawal leaves on the balance all that is held when it takes the money,
\* although it compares with the held amount it had read, unless since then more
\* was held and less was free: for any orders, withdrawals and payments.
THEOREM HeldMoneySafe == Spec => HeldMoneyStays
<1>1. Init => IInv /\ WithdrawalsInv
  BY InitInv DEF Init, WithdrawalsInv, WithdrawalInv
<1>2. IInv /\ WithdrawalsInv /\ [Next]_vars => (IInv /\ WithdrawalsInv)'
  BY StepInv, StepNoticed
<1>3. IInv /\ IInv' /\ WithdrawalsInv /\ [Next]_vars =>
        [\A r \in Req : Withdrawing(r) /\ withdrawn' # withdrawn /\ pc'[r] = "done"
           => \/ balance' >= SumFunction(HeldNet')
              \/ since[r] = Changes]_vars
  BY WithdrawalLeaves DEF IInv
<1> QED BY <1>1, <1>2, <1>3, PTL DEF Spec, HeldMoneyStays
=============================================================================
