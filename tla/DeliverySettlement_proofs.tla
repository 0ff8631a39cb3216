---------------------- MODULE DeliverySettlement_proofs ----------------------
EXTENDS DeliverySettlement, TLAPS

Snapshot == [alloc: [Beneficiary -> SettlementStatus], attempts: Nat, paid: BOOLEAN]

AllocsOK ==
    /\ alloc \in [Beneficiary -> SettlementStatus]
    /\ freed \in [Beneficiary -> Nat]

RequestOK ==
    /\ stage \in [Req -> {"idle", "checked", "loaded", "verified", "paying"}]
    /\ call \in [Req -> AllCalls \cup {NoCall}]
    /\ \A r \in Req : stage[r] # "idle" => call[r] \in AllCalls
    /\ snap \in [Req -> Snapshot]

HistoryOK ==
    /\ verified \in Nat
    /\ byCode \in Nat
    /\ paid \in [Carrier -> Nat]
    /\ debits \in Nat
    /\ payouts \in [Beneficiary -> Nat]
    /\ arbitrated \in SUBSET Beneficiary
    /\ late \in SUBSET Carrier
    /\ twice \in SUBSET AllCalls

CodeOK ==
    /\ code \in BOOLEAN
    /\ attempts \in Nat
    /\ locked \in BOOLEAN
    /\ guesses \in Nat
    /\ unlocks \in Nat

RestOK ==
    /\ order \in OrderStatus
    /\ ship \in ShipmentStatus
    /\ due \in BOOLEAN
    /\ dispute \in [Dispute -> DisputeStatus]
    /\ refund \in RefundStatus
    /\ billed \in BOOLEAN
    /\ calls \in Nat

TypeParts == AllocsOK /\ RequestOK /\ HistoryOK /\ CodeOK /\ RestOK

LEMMA TypeSplit == TypeOK <=> TypeParts
  BY DEF TypeOK, TypeParts, AllocsOK, RequestOK, HistoryOK, CodeOK, RestOK, Snapshot

LEMMA TypeJoin ==
    ASSUME TypeParts'
    PROVE  TypeOK'
  BY DEF TypeOK, TypeParts, AllocsOK, RequestOK, HistoryOK, CodeOK, RestOK, Snapshot

\* The invariant but for the types.
LEMMA InvJoin ==
    ASSUME TypeParts', MoneyInv', PayoutInv', CodeInv', TriesInv', OneEach',
           \A r \in Req : ReqInv(r)'
    PROVE  IInv'
  BY TypeJoin DEF IInv

-----------------------------------------------------------------------------
(* Calls *)

LEMMA CallFacts ==
    /\ NoCall \notin AllCalls
    /\ RightCode \in AllCalls /\ WrongCode \in AllCalls
    /\ RightCode.op = "code" /\ WrongCode.op = "code"
    /\ RightCode # WrongCode
    /\ AcceptCall \in AllCalls /\ AcceptCall.op = "acceptConformity"
    /\ \A b \in Beneficiary :
          /\ PayoutCall(b) \in AllCalls
          /\ PayoutCall(b).op = "payout" /\ PayoutCall(b).of = b
    /\ \A c \in AllCalls : c.op = "payout" =>
          c.of \in Beneficiary /\ c = PayoutCall(c.of)
    /\ \A c \in AllCalls : c.op = "code" => c = RightCode \/ c = WrongCode
    /\ Calls \subseteq AllCalls
<1>1. NoCall \notin AllCalls /\ Calls \subseteq AllCalls
  BY SettlementAssumption
<1>2. /\ RightCode \in AllCalls /\ WrongCode \in AllCalls
      /\ RightCode.op = "code" /\ WrongCode.op = "code"
      /\ RightCode.right = TRUE /\ WrongCode.right = FALSE
  BY DEF AllCalls, RightCode, WrongCode
<1>3. AcceptCall \in AllCalls /\ AcceptCall.op = "acceptConformity"
  BY DEF AllCalls, AcceptCall
<1>4. \A b \in Beneficiary :
          /\ PayoutCall(b) \in AllCalls
          /\ PayoutCall(b).op = "payout" /\ PayoutCall(b).of = b
  BY DEF AllCalls, PayoutCall
<1>5. \A c \in AllCalls : c.op = "payout" => \E b \in Beneficiary : c = PayoutCall(b)
  BY DEF AllCalls, PayoutCall, RightCode, WrongCode
<1>6. \A c \in AllCalls : c.op = "code" => c = RightCode \/ c = WrongCode
  BY DEF AllCalls, PayoutCall
<1>. QED BY <1>1, <1>2, <1>3, <1>4, <1>5, <1>6

\* No request serves two kinds of call.
LEMMA OtherCall ==
    ASSUME NEW r \in Req
    PROVE  /\ call[r] = WrongCode => call[r].op = "code"
           /\ call[r] = RightCode => call[r].op = "code"
           /\ \A b \in Beneficiary : call[r] = PayoutCall(b) => call[r].op = "payout"
  BY CallFacts

LEMMA FinishFacts ==
    ASSUME RequestOK, NEW r \in Req, Finish(r)
    PROVE  /\ RequestOK'
           /\ stage'[r] = "idle" /\ call'[r] = NoCall
           /\ \A q \in Req : q # r => /\ stage'[q] = stage[q]
                                     /\ call'[q] = call[q]
                                     /\ snap'[q] = snap[q]
<1>1. BlankSnap \in Snapshot
  BY DEF BlankSnap, Snapshot, Nothing, SettlementStatus
<1>. HIDE DEF Snapshot
<1>2. stage' = [stage EXCEPT ![r] = "idle"]
  BY DEF Finish
<1>3. call' = [call EXCEPT ![r] = NoCall] /\ snap' = [snap EXCEPT ![r] = BlankSnap]
  BY DEF Finish
<1>. QED BY <1>1, <1>2, <1>3 DEF RequestOK

-----------------------------------------------------------------------------
(* Allocations *)

LEMMA SetAllocsFacts ==
    ASSUME AllocsOK, NEW new \in [Beneficiary -> SettlementStatus], SetAllocs(new)
    PROVE  /\ AllocsOK' /\ alloc' = new
           /\ \A b \in Beneficiary :
                freed'[b] = freed[b] + (IF alloc'[b] = "ELIGIBLE_FOR_RELEASE"
                                           /\ alloc[b] # "ELIGIBLE_FOR_RELEASE"
                                          THEN 1 ELSE 0)
  BY DEF AllocsOK, SetAllocs

LEMMA SetAllocFacts ==
    ASSUME AllocsOK, NEW x \in Beneficiary, NEW s \in SettlementStatus, SetAlloc(x, s)
    PROVE  /\ AllocsOK' /\ alloc'[x] = s
           /\ \A b \in Beneficiary : b # x => alloc'[b] = alloc[b]
           /\ \A b \in Beneficiary :
                freed'[b] = freed[b] + (IF alloc'[b] = "ELIGIBLE_FOR_RELEASE"
                                           /\ alloc[b] # "ELIGIBLE_FOR_RELEASE"
                                          THEN 1 ELSE 0)
<1>1. [alloc EXCEPT ![x] = s] \in [Beneficiary -> SettlementStatus]
  BY DEF AllocsOK
<1>2. SetAllocs([alloc EXCEPT ![x] = s])
  BY DEF SetAlloc
<1>3. alloc' = [alloc EXCEPT ![x] = s]
  BY <1>2 DEF SetAllocs
<1>. QED BY <1>1, <1>2, <1>3, SetAllocsFacts DEF AllocsOK

Counted ==
    \A b \in Beneficiary :
        freed'[b] = freed[b] + (IF alloc'[b] = "ELIGIBLE_FOR_RELEASE"
                                   /\ alloc[b] # "ELIGIBLE_FOR_RELEASE"
                                  THEN 1 ELSE 0)

LEMMA SameAllocs ==
    ASSUME AllocsOK, UNCHANGED allocVars
    PROVE  AllocsOK' /\ alloc' = alloc /\ freed' = freed /\ Counted
  BY DEF AllocsOK, allocVars, Counted

-----------------------------------------------------------------------------
(* What a step keeps *)

\* Histories only grow.
Grows ==
    /\ verified' >= verified
    /\ \A k \in Carrier : paid'[k] >= paid[k]
    /\ arbitrated \subseteq arbitrated'
    /\ late \subseteq late'
    /\ twice \subseteq twice'
    /\ debits > 0 => debits' > 0

LEMMA SeparateSeller == Seller \in Beneficiary /\ Seller \notin Carrier
                        /\ Beneficiary \ {Seller} = Carrier /\ Carrier \subseteq Beneficiary
  BY SettlementAssumption DEF Beneficiary

LEMMA EarnedGrows ==
    ASSUME HistoryOK, HistoryOK', Grows, NEW b \in Beneficiary, Earned(b)
    PROVE  Earned(b)'
  BY SeparateSeller DEF HistoryOK, Grows, Earned

\* A request that does not move keeps its part of the invariant.
LEMMA ReqKept ==
    ASSUME RequestOK, HistoryOK, HistoryOK', Grows, NEW r \in Req, ReqInv(r),
           stage'[r] = stage[r], call'[r] = call[r], snap'[r] = snap[r],
           \/ stage[r] # "loaded" /\ ~Running(r, "acceptConformity")
           \/ \A k \in Carrier : alloc'[k] = "AWAITING_DELIVERY_VERIFICATION" =>
                alloc[k] = "AWAITING_DELIVERY_VERIFICATION" \/ k \in late'
    PROVE  ReqInv(r)'
<1>1. ASSUME Running(r, "payout") PROVE Earned(call[r].of)'
  <2>1. call[r] \in AllCalls /\ call[r].op = "payout"
    BY <1>1 DEF Running, RequestOK
  <2>2. call[r].of \in Beneficiary
    BY <2>1, CallFacts
  <2>3. Earned(call[r].of)
    BY <1>1 DEF ReqInv
  <2>4. \A b \in Beneficiary : Earned(b) => Earned(b)'
    BY EarnedGrows
  <2>5. arbitrated \subseteq arbitrated'
    BY DEF Grows
  <2>6. CASE call[r].of = Seller
    BY <2>2, <2>3, <2>6 DEF Earned, Grows, HistoryOK
  <2>7. CASE call[r].of # Seller
    BY <2>2, <2>3, <2>7, SeparateSeller DEF Earned, Grows, HistoryOK
  <2>. QED BY <2>6, <2>7
<1>2. verified > 0 => verified' > 0
  BY DEF Grows, HistoryOK
<1>3. late \subseteq late'
  BY DEF Grows
<1>4. SellerReadInv(snap[r].alloc[Seller]) => SellerReadInv(snap[r].alloc[Seller])'
  <2>1. Earned(Seller) => Earned(Seller)'
    BY SeparateSeller, EarnedGrows
  <2>2. debits > 0 => debits' > 0
    BY DEF Grows
  <2>. QED BY <1>2, <2>1, <2>2 DEF SellerReadInv
<1>. QED BY <1>1, <1>2, <1>3, <1>4 DEF ReqInv, Running

\* No request starts: calls that are asked were asked before.
NoneStarts == \A r \in Req : call'[r] \in {call[r], NoCall, AcceptCall}

LEMMA OneEachKept ==
    ASSUME OneEach, NoneStarts, twice' = twice
    PROVE  OneEach'
  BY DEF OneEach, NoneStarts

LEMMA AskedKept ==
    ASSUME NoneStarts
    PROVE  /\ Asked(RightCode)' => Asked(RightCode)
           /\ Asked(WrongCode)' => Asked(WrongCode)
           /\ \A b \in Beneficiary : Asked(PayoutCall(b))' => Asked(PayoutCall(b))
<1>1. AcceptCall.op = "acceptConformity" /\ NoCall \notin AllCalls
  BY CallFacts
<1>2. RightCode \notin {NoCall, AcceptCall} /\ WrongCode \notin {NoCall, AcceptCall}
  BY <1>1, CallFacts
<1>3. \A b \in Beneficiary : PayoutCall(b) \notin {NoCall, AcceptCall}
  BY <1>1, CallFacts
<1>4. Asked(RightCode)' => Asked(RightCode)
  BY <1>2 DEF NoneStarts, Asked
<1>5. Asked(WrongCode)' => Asked(WrongCode)
  BY <1>2 DEF NoneStarts, Asked
<1>6. \A b \in Beneficiary : Asked(PayoutCall(b))' => Asked(PayoutCall(b))
  BY <1>3 DEF NoneStarts, Asked, PayoutCall
<1>. QED BY <1>4, <1>5, <1>6

LEMMA PayoutKept ==
    ASSUME AllocsOK, AllocsOK', HistoryOK, PayoutInv, Counted, NoneStarts,
           payouts' = payouts, twice' = twice
    PROVE  PayoutInv'
<1>. SUFFICES ASSUME NEW b \in Beneficiary, PayoutCall(b) \notin twice
              PROVE  payouts[b] + (IF alloc'[b] = "ELIGIBLE_FOR_RELEASE"
                                      \/ Asked(PayoutCall(b))' THEN 1 ELSE 0) <= freed'[b]
  BY DEF PayoutInv, PayoutCall
<1>1. Asked(PayoutCall(b))' => Asked(PayoutCall(b))
  BY AskedKept
<1>2. payouts[b] + (IF alloc[b] = "ELIGIBLE_FOR_RELEASE" \/ Asked(PayoutCall(b))
                      THEN 1 ELSE 0) <= freed[b]
  BY DEF PayoutInv
<1>3. payouts[b] \in Nat /\ freed[b] \in Nat
  BY DEF AllocsOK, HistoryOK
<1>4. freed'[b] = freed[b] + (IF alloc'[b] = "ELIGIBLE_FOR_RELEASE"
                                 /\ alloc[b] # "ELIGIBLE_FOR_RELEASE" THEN 1 ELSE 0)
  BY DEF Counted
<1>. QED BY <1>1, <1>2, <1>3, <1>4

LEMMA CodeInvKept ==
    ASSUME HistoryOK, CodeInv, NoneStarts, UNCHANGED <<code, byCode, twice>>
    PROVE  CodeInv'
<1>1. Asked(RightCode)' => Asked(RightCode)
  BY AskedKept
<1>. QED BY <1>1 DEF CodeInv, HistoryOK

LEMMA TriesKept ==
    ASSUME TriesInv, NoneStarts,
           UNCHANGED <<attempts, locked, guesses, unlocks, twice>>,
           \A r \in Req : call'[r] = WrongCode => snap'[r].attempts = snap[r].attempts
    PROVE  TriesInv'
<1>1. WrongCode \notin {NoCall, AcceptCall}
  BY CallFacts
<1>2. \A r \in Req : call'[r] = WrongCode => call[r] = WrongCode
  BY <1>1 DEF NoneStarts
<1>. QED BY <1>2 DEF TriesInv

-----------------------------------------------------------------------------
(* Steps that only move allocations                                            *)

\* No allocation of a carrier starts to wait for the delivery.
NoneEngaged ==
    \A k \in Carrier : alloc'[k] = "AWAITING_DELIVERY_VERIFICATION" =>
                          alloc[k] = "AWAITING_DELIVERY_VERIFICATION"

RequestStep ==
    \/ UNCHANGED requestVars
    \/ \E r \in Req : Finish(r)

LEMMA RequestStepFacts ==
    ASSUME RequestOK, RequestStep
    PROVE  /\ RequestOK' /\ NoneStarts
           /\ \A r \in Req :
                 \/ stage'[r] = "idle" /\ call'[r] = NoCall
                 \/ stage'[r] = stage[r] /\ call'[r] = call[r] /\ snap'[r] = snap[r]
<1>1. CASE UNCHANGED requestVars
  BY <1>1 DEF requestVars, RequestOK, NoneStarts
<1>2. ASSUME NEW r \in Req, Finish(r)
      PROVE  /\ RequestOK' /\ NoneStarts
             /\ \A q \in Req :
                   \/ stage'[q] = "idle" /\ call'[q] = NoCall
                   \/ stage'[q] = stage[q] /\ call'[q] = call[q] /\ snap'[q] = snap[q]
  BY <1>2, FinishFacts DEF NoneStarts
<1>. QED BY <1>1, <1>2 DEF RequestStep

LEMMA IdleReq ==
    ASSUME NEW r \in Req, stage'[r] = "idle", call'[r] = NoCall
    PROVE  ReqInv(r)'
  BY DEF ReqInv, Running

\* What an allocation is before its delivery is verified.
Waiting == {"NONE", "PENDING_PAYMENT", "AWAITING_DELIVERY_VERIFICATION"}

LEMMA MoneyMoves ==
    ASSUME HistoryOK, HistoryOK', Grows, MoneyInv,
           verified' = verified, paid' = paid, late' = late,
           ship' \in Verified =>
              /\ verified > 0
              /\ \A k \in Carrier : alloc[k] = "AWAITING_DELIVERY_VERIFICATION" => k \in late,
           \A b \in Beneficiary :
              \/ alloc'[b] = alloc[b]
              \/ alloc'[b] \in {"ON_HOLD_DISPUTE", "REFUNDED", "CANCELLED"}
              \/ b = Seller /\ alloc'[b] \in Waiting
              \/ b = Seller /\ alloc'[b] = "AWAITING_BUYER_CONFORMITY" /\ verified > 0
              \/ alloc'[b] \in Releasable /\ Earned(b)',
           alloc'[Seller] = "REFUNDED" => debits' > 0
    PROVE  MoneyInv' /\ NoneEngaged
<1>1. ship' \in Verified => verified' > 0
  OBVIOUS
<1>2. alloc'[Seller] = "AWAITING_BUYER_CONFORMITY" => verified' > 0
  BY SeparateSeller DEF MoneyInv, Releasable, Waiting
<1>3. \A b \in Beneficiary : alloc'[b] \in Releasable => Earned(b)'
  <2>. SUFFICES ASSUME NEW b \in Beneficiary, alloc'[b] \in Releasable
                PROVE  Earned(b)'
    OBVIOUS
  <2>1. CASE alloc'[b] = alloc[b]
    BY <2>1, EarnedGrows DEF MoneyInv
  <2>. QED BY <2>1 DEF Releasable, Waiting
<1>4. NoneEngaged
  BY SeparateSeller DEF NoneEngaged, Releasable, Waiting
<1>5. \A k \in Carrier : paid'[k] <= verified' /\ alloc'[k] # "AWAITING_BUYER_CONFORMITY"
  BY SeparateSeller DEF MoneyInv, Releasable, Waiting
<1>6. NoCarrierForgotten'
  BY <1>4 DEF NoneEngaged, NoCarrierForgotten
<1>. QED BY <1>1, <1>2, <1>3, <1>4, <1>5, <1>6 DEF MoneyInv, RefundTakesMoney

LEMMA AllocStep ==
    ASSUME IInv, AllocsOK', Counted, RestOK', RequestStep, HistoryOK',
           arbitrated \subseteq arbitrated',
           UNCHANGED <<codeVars, verifyVars, payouts, twice>>,
           ship' \in Verified =>
              /\ verified > 0
              /\ \A k \in Carrier : alloc[k] = "AWAITING_DELIVERY_VERIFICATION" => k \in late,
           \A b \in Beneficiary :
              \/ alloc'[b] = alloc[b]
              \/ alloc'[b] \in {"ON_HOLD_DISPUTE", "REFUNDED", "CANCELLED"}
              \/ b = Seller /\ alloc'[b] \in Waiting
              \/ b = Seller /\ alloc'[b] = "AWAITING_BUYER_CONFORMITY" /\ verified > 0
              \/ alloc'[b] \in Releasable /\ Earned(b)',
           alloc'[Seller] = "REFUNDED" => debits' > 0,
           debits > 0 => debits' > 0
    PROVE  IInv'
<1>1. TypeParts
  BY TypeSplit DEF IInv
<1>2. UNCHANGED <<code, attempts, locked, guesses, unlocks, verified, byCode, paid, late>>
  BY DEF codeVars, verifyVars
<1>3. /\ RequestOK' /\ NoneStarts
      /\ \A r \in Req :
            \/ stage'[r] = "idle" /\ call'[r] = NoCall
            \/ stage'[r] = stage[r] /\ call'[r] = call[r] /\ snap'[r] = snap[r]
  BY <1>1, RequestStepFacts DEF TypeParts
<1>4. CodeOK'
  BY <1>1, <1>2 DEF CodeOK, TypeParts
<1>5. TypeParts'
  BY <1>3, <1>4 DEF TypeParts
<1>6. Grows
  BY <1>1, <1>2 DEF TypeParts, HistoryOK, Grows
<1>7. MoneyInv' /\ NoneEngaged
  BY <1>1, <1>2, <1>6, MoneyMoves DEF IInv, TypeParts
<1>8. PayoutInv' /\ CodeInv'
  BY <1>1, <1>2, <1>3, PayoutKept, CodeInvKept DEF IInv, TypeParts
<1>9. TriesInv'
  <2>1. \A r \in Req : call'[r] = WrongCode => snap'[r].attempts = snap[r].attempts
    <3>1. WrongCode # NoCall
      BY CallFacts
    <3>. QED BY <1>3, <3>1
  <2>. QED BY <1>2, <1>3, <2>1, TriesKept DEF IInv
<1>10. OneEach'
  BY <1>3, OneEachKept DEF IInv
<1>11. \A r \in Req : ReqInv(r)'
  <2>. SUFFICES ASSUME NEW r \in Req PROVE ReqInv(r)'
    OBVIOUS
  <2>1. CASE stage'[r] = "idle" /\ call'[r] = NoCall
    BY <2>1, IdleReq
  <2>2. CASE stage'[r] = stage[r] /\ call'[r] = call[r] /\ snap'[r] = snap[r]
    <3>1. ReqInv(r)
      BY DEF IInv
    <3>. QED BY <1>1, <1>6, <1>7, <2>2, <3>1, ReqKept DEF TypeParts, NoneEngaged
  <2>. QED BY <1>3, <2>1, <2>2
<1>. QED BY <1>5, <1>7, <1>8, <1>9, <1>10, <1>11, InvJoin

LEMMA Parts ==
    ASSUME IInv
    PROVE  /\ TypeParts /\ AllocsOK /\ RequestOK /\ HistoryOK /\ CodeOK /\ RestOK
           /\ \A r \in Req : ReqInv(r)
  BY TypeSplit DEF IInv, TypeParts

\* What holds of a shipment that is verified already.
LEMMA VerifiedFacts ==
    ASSUME IInv, ship \in Verified
    PROVE  /\ verified > 0
           /\ \A k \in Carrier : alloc[k] = "AWAITING_DELIVERY_VERIFICATION" => k \in late
  BY DEF IInv, MoneyInv, NoCarrierForgotten

LEMMA SameRefunded ==
    ASSUME IInv, alloc'[Seller] = alloc[Seller], debits' = debits
    PROVE  alloc'[Seller] = "REFUNDED" => debits' > 0
  BY DEF IInv, MoneyInv, RefundTakesMoney

\* A step that moves no allocation, and changes nothing but what RestOK types.
LEMMA RestStep ==
    ASSUME IInv, RestOK', RequestStep,
           UNCHANGED <<codeVars, allocVars, verifyVars, arbitrated, debits, payouts, twice>>,
           ship' = ship \/ ship' = "OPEN"
    PROVE  IInv'
<1>1. AllocsOK' /\ alloc' = alloc /\ Counted
  BY Parts, SameAllocs
<1>2. HistoryOK'
  BY Parts DEF HistoryOK, verifyVars
<1>3. ship' \in Verified => ship \in Verified
  BY DEF Verified
<1>4. \A b \in Beneficiary : alloc'[b] = alloc[b]
  BY <1>1
<1>. QED BY <1>1, <1>2, <1>3, <1>4, SameRefunded, VerifiedFacts, AllocStep

LEMMA FailStep ==
    ASSUME IInv, NEW r \in Req, Fail(r)
    PROVE  IInv'
<1>1. RestOK'
  BY Parts DEF Fail, RestOK, disputeVars, refundVars
<1>. QED BY <1>1, RestStep DEF Fail, RequestStep, disputeVars

LEMMA RecordHandoverStep ==
    ASSUME IInv, NEW pickup \in BOOLEAN, RecordHandover(pickup)
    PROVE  IInv'
<1>1. order' \in OrderStatus
  BY Parts DEF RecordHandover, RestOK, OrderStatus
<1>2. RestOK'
  BY <1>1, Parts DEF RecordHandover, RestOK, disputeVars, refundVars, ShipmentStatus
<1>. QED BY <1>2, RestStep DEF RecordHandover, RequestStep, disputeVars

LEMMA WindowEndsStep ==
    ASSUME IInv, WindowEnds
    PROVE  IInv'
<1>1. RestOK'
  BY Parts DEF WindowEnds, RestOK, disputeVars, refundVars
<1>. QED BY <1>1, RestStep DEF WindowEnds, RequestStep, disputeVars

LEMMA UnchangedStep ==
    ASSUME IInv, UNCHANGED vars
    PROVE  IInv'
<1>1. RestOK'
  BY Parts DEF vars, RestOK, disputeVars, refundVars
<1>. QED BY <1>1, RestStep DEF vars, RequestStep, disputeVars

LEMMA AcceptConformityStep ==
    ASSUME IInv, NEW r \in Req, AcceptConformity(r)
    PROVE  IInv'
<1>. DEFINE s == IF AcceptReleases THEN "ELIGIBLE_FOR_RELEASE" ELSE alloc[Seller]
<1>1. s \in SettlementStatus /\ Seller \in Beneficiary
  BY Parts, SeparateSeller DEF AllocsOK, SettlementStatus
<1>2. SetAlloc(Seller, s)
  BY DEF AcceptConformity
<1>. HIDE DEF s
<1>3. /\ AllocsOK' /\ Counted /\ alloc'[Seller] = s
      /\ \A b \in Beneficiary : b # Seller => alloc'[b] = alloc[b]
  BY <1>1, <1>2, Parts, SetAllocFacts DEF Counted
<1>4. verified > 0 /\ \A k \in Carrier : alloc[k] = "AWAITING_DELIVERY_VERIFICATION" => k \in late
  BY Parts DEF ReqInv, AcceptConformity
<1>5. /\ RestOK'
      /\ RequestStep
      /\ HistoryOK'
      /\ UNCHANGED <<codeVars, verifyVars, arbitrated, debits, payouts, twice>>
  BY Parts DEF AcceptConformity, RestOK, disputeVars, refundVars, ShipmentStatus, RequestStep,
               HistoryOK, verifyVars
<1>6. Earned(Seller)'
  BY <1>4, <1>5 DEF Earned, verifyVars
<1>7. alloc'[Seller] = alloc[Seller] \/ alloc'[Seller] \in Releasable
  BY <1>3 DEF s, Releasable
<1>8. alloc'[Seller] = "REFUNDED" => debits' > 0
  BY <1>5, <1>7, SameRefunded DEF Releasable
<1>. QED BY <1>3, <1>4, <1>5, <1>6, <1>7, <1>8, AllocStep

LEMMA ReleaseAfterWindowStep ==
    ASSUME IInv, NEW r \in Req, ReleaseAfterWindow(r)
    PROVE  IInv'
<1>1. "ELIGIBLE_FOR_RELEASE" \in SettlementStatus /\ Seller \in Beneficiary
  BY SeparateSeller DEF SettlementStatus
<1>2. SetAlloc(Seller, "ELIGIBLE_FOR_RELEASE")
  BY DEF ReleaseAfterWindow
<1>3. /\ AllocsOK' /\ Counted /\ alloc'[Seller] = "ELIGIBLE_FOR_RELEASE"
      /\ \A b \in Beneficiary : b # Seller => alloc'[b] = alloc[b]
  BY <1>1, <1>2, Parts, SetAllocFacts DEF Counted
<1>4. verified > 0
  BY Parts DEF ReqInv, ReleaseAfterWindow
<1>5. /\ RestOK'
      /\ RequestStep
      /\ HistoryOK'
      /\ UNCHANGED <<ship, codeVars, verifyVars, arbitrated, debits, payouts, twice>>
  BY Parts DEF ReleaseAfterWindow, RestOK, disputeVars, refundVars, RequestStep,
               HistoryOK, verifyVars
<1>6. Earned(Seller)' /\ alloc'[Seller] \in Releasable
  BY <1>3, <1>4, <1>5 DEF Earned, verifyVars, Releasable
<1>7. alloc'[Seller] = "REFUNDED" => debits' > 0
  BY <1>3
<1>. QED BY <1>3, <1>5, <1>6, <1>7, VerifiedFacts, AllocStep

LEMMA OpenDisputeStep ==
    ASSUME IInv, NEW d \in Dispute, NEW scope \in DisputeScope, OpenDispute(d, scope)
    PROVE  IInv'
<1>. DEFINE new == [b \in Beneficiary |->
            IF b \in Concerned(scope) /\ alloc[b] # "NONE" THEN "ON_HOLD_DISPUTE"
                                                           ELSE alloc[b]]
<1>1. new \in [Beneficiary -> SettlementStatus] /\ SetAllocs(new)
  BY Parts DEF OpenDispute, AllocsOK, SettlementStatus
<1>2. /\ AllocsOK' /\ Counted
      /\ \A b \in Beneficiary : alloc'[b] = alloc[b] \/ alloc'[b] = "ON_HOLD_DISPUTE"
  BY <1>1, Parts, SetAllocsFacts DEF Counted
<1>3. dispute' \in [Dispute -> DisputeStatus]
  BY Parts DEF OpenDispute, RestOK, DisputeStatus
<1>4. /\ RestOK'
      /\ RequestStep
      /\ HistoryOK'
      /\ UNCHANGED <<codeVars, verifyVars, arbitrated, debits, payouts, twice>>
      /\ ship' \notin Verified
  BY <1>3, Parts DEF OpenDispute, RestOK, refundVars, ShipmentStatus, RequestStep,
               HistoryOK, verifyVars, Verified
<1>5. alloc'[Seller] = "REFUNDED" => debits' > 0
  BY <1>2, <1>4, SameRefunded, SeparateSeller
<1>. QED BY <1>2, <1>4, <1>5, AllocStep

\* A payment writes back what it has read, which its part of the invariant says
\* was once earned.
LEMMA ConfirmPaymentStep ==
    ASSUME IInv, NEW r \in Req, ConfirmPayment(r)
    PROVE  IInv'
<1>. DEFINE seen == snap[r].alloc[Seller]
            s == StatusOncePaid(seen)
<1>1. seen \in SettlementStatus /\ Seller \in Beneficiary
  BY Parts, SeparateSeller DEF RequestOK, Snapshot
<1>2. s \in SettlementStatus
  BY <1>1 DEF StatusOncePaid, SettlementStatus
<1>3. SetAlloc(Seller, s) /\ SellerReadInv(seen)
  BY Parts DEF ConfirmPayment, ReqInv
<1>4. s = seen \/ s = "AWAITING_DELIVERY_VERIFICATION"
  BY DEF StatusOncePaid
<1>. HIDE DEF s, seen
<1>5. /\ AllocsOK' /\ Counted /\ alloc'[Seller] = s
      /\ \A b \in Beneficiary : b # Seller => alloc'[b] = alloc[b]
  BY <1>1, <1>2, <1>3, Parts, SetAllocFacts DEF Counted
<1>6. /\ RestOK'
      /\ RequestStep
      /\ HistoryOK'
      /\ UNCHANGED <<ship, codeVars, verifyVars, arbitrated, debits, payouts, twice>>
  BY Parts DEF ConfirmPayment, RestOK, disputeVars, OrderStatus, RequestStep, HistoryOK,
               verifyVars
<1>7. Earned(Seller) => Earned(Seller)'
  BY <1>6 DEF Earned, verifyVars
<1>8. \/ s \in Waiting
      \/ s \in {"ON_HOLD_DISPUTE", "REFUNDED", "CANCELLED"}
      \/ s = "AWAITING_BUYER_CONFORMITY" /\ verified > 0
      \/ s \in Releasable /\ Earned(Seller)'
  BY <1>1, <1>3, <1>4, <1>7 DEF SellerReadInv, SettlementStatus, Releasable, Waiting
<1>9. alloc'[Seller] = "REFUNDED" => debits' > 0
  BY <1>3, <1>4, <1>5, <1>6 DEF SellerReadInv
<1>. QED BY <1>5, <1>6, <1>8, <1>9, VerifiedFacts, AllocStep

LEMMA CancelByCustomerStep ==
    ASSUME IInv, NEW r \in Req, CancelByCustomer(r)
    PROVE  IInv'
<1>. DEFINE new == [b \in Beneficiary |-> IF alloc[b] = "NONE" THEN "NONE" ELSE "CANCELLED"]
<1>1. /\ RestOK'
      /\ RequestStep
      /\ UNCHANGED <<ship, codeVars, verifyVars, arbitrated, payouts, twice>>
  BY Parts DEF CancelByCustomer, RestOK, disputeVars, refundVars, OrderStatus, RequestStep
<1>2. CASE SetAllocs(new) /\ debits' = debits + 1
  <2>1. new \in [Beneficiary -> SettlementStatus]
    BY DEF SettlementStatus
  <2>2. /\ AllocsOK' /\ Counted
        /\ \A b \in Beneficiary : alloc'[b] = alloc[b] \/ alloc'[b] = "CANCELLED"
        /\ alloc'[Seller] # "REFUNDED"
    BY <1>2, <2>1, Parts, SetAllocsFacts, SeparateSeller DEF Counted
  <2>3. HistoryOK' /\ debits' > 0
    BY <1>1, <1>2, Parts DEF HistoryOK, verifyVars
  <2>. QED BY <1>1, <2>2, <2>3, VerifiedFacts, AllocStep
<1>3. CASE UNCHANGED <<allocVars, debits>>
  <2>1. AllocsOK' /\ alloc' = alloc /\ Counted
    BY <1>3, Parts, SameAllocs
  <2>2. HistoryOK'
    BY <1>1, <1>3, Parts DEF HistoryOK, verifyVars
  <2>3. alloc'[Seller] = "REFUNDED" => debits' > 0
    BY <1>3, <2>1, SameRefunded
  <2>4. \A b \in Beneficiary : alloc'[b] = alloc[b]
    BY <2>1
  <2>. QED BY <1>1, <1>3, <2>1, <2>2, <2>3, <2>4, VerifiedFacts, AllocStep
<1>. QED BY <1>2, <1>3 DEF CancelByCustomer

LEMMA CreateRequestStep ==
    ASSUME IInv, NEW r \in Req, CreateRequest(r)
    PROVE  IInv'
<1>. DEFINE s == IF alloc[Seller] \in Holdable THEN "ON_HOLD_DISPUTE" ELSE alloc[Seller]
<1>1. /\ RestOK'
      /\ RequestStep
      /\ HistoryOK'
      /\ UNCHANGED <<ship, codeVars, verifyVars, arbitrated, debits, payouts, twice>>
  BY Parts DEF CreateRequest, RestOK, disputeVars, RefundStatus, RequestStep, HistoryOK,
               verifyVars
<1>2. CASE SetAlloc(Seller, s)
  <2>1. s \in SettlementStatus /\ Seller \in Beneficiary
    BY Parts, SeparateSeller DEF AllocsOK, SettlementStatus
  <2>2. s = alloc[Seller] \/ s = "ON_HOLD_DISPUTE"
    OBVIOUS
  <2>. HIDE DEF s
  <2>3. /\ AllocsOK' /\ Counted /\ alloc'[Seller] = s
        /\ \A b \in Beneficiary : b # Seller => alloc'[b] = alloc[b]
    BY <1>2, <2>1, Parts, SetAllocFacts DEF Counted
  <2>4. alloc'[Seller] = "REFUNDED" => debits' > 0
    BY <1>1, <2>2, <2>3, SameRefunded
  <2>. QED BY <1>1, <2>2, <2>3, <2>4, VerifiedFacts, AllocStep
<1>3. CASE UNCHANGED allocVars
  <2>1. AllocsOK' /\ alloc' = alloc /\ Counted
    BY <1>3, Parts, SameAllocs
  <2>3. alloc'[Seller] = "REFUNDED" => debits' > 0
    BY <1>1, <2>1, SameRefunded
  <2>4. \A b \in Beneficiary : alloc'[b] = alloc[b]
    BY <2>1
  <2>. QED BY <1>1, <2>1, <2>3, <2>4, VerifiedFacts, AllocStep
<1>. QED BY <1>2, <1>3 DEF CreateRequest

LEMMA DecideRefundStep ==
    ASSUME IInv, NEW r \in Req, DecideRefund(r)
    PROVE  IInv'
<1>1. /\ RestOK'
      /\ RequestStep
      /\ UNCHANGED <<ship, codeVars, verifyVars, arbitrated, payouts, twice>>
  BY Parts DEF DecideRefund, RestOK, disputeVars, RefundStatus, RequestStep
<1>2. CASE /\ SetAlloc(Seller, "REFUNDED")
           /\ debits' = debits + (IF DebitedByRefund THEN 1 ELSE 0)
  <2>1. "REFUNDED" \in SettlementStatus /\ Seller \in Beneficiary
    BY SeparateSeller DEF SettlementStatus
  <2>2. /\ AllocsOK' /\ Counted /\ alloc'[Seller] = "REFUNDED"
        /\ \A b \in Beneficiary : b # Seller => alloc'[b] = alloc[b]
    BY <1>2, <2>1, Parts, SetAllocFacts DEF Counted
  <2>3. HistoryOK' /\ debits' > 0
    BY <1>1, <1>2, Parts DEF HistoryOK, verifyVars, IInv, MoneyInv, RefundTakesMoney,
                             DebitedByRefund
  <2>. QED BY <1>1, <2>2, <2>3, VerifiedFacts, AllocStep
<1>3. CASE UNCHANGED <<allocVars, debits>>
  <2>1. AllocsOK' /\ alloc' = alloc /\ Counted
    BY <1>3, Parts, SameAllocs
  <2>2. HistoryOK'
    BY <1>1, <1>3, Parts DEF HistoryOK, verifyVars
  <2>3. alloc'[Seller] = "REFUNDED" => debits' > 0
    BY <1>3, <2>1, SameRefunded
  <2>4. \A b \in Beneficiary : alloc'[b] = alloc[b]
    BY <2>1
  <2>. QED BY <1>1, <1>3, <2>1, <2>2, <2>3, <2>4, VerifiedFacts, AllocStep
<1>. QED BY <1>2, <1>3 DEF DecideRefund

\* An arbitration makes eligible what it says it does.
LEMMA ResolveDisputeStep ==
    ASSUME IInv, NEW d \in Dispute, NEW outcome \in Outcome, ResolveDispute(d, outcome)
    PROVE  IInv'
<1>1. dispute' \in [Dispute -> DisputeStatus]
  BY Parts DEF ResolveDispute, RestOK, DisputeStatus
<1>2. /\ RestOK'
      /\ RequestStep
      /\ UNCHANGED <<ship, codeVars, verifyVars, payouts, twice>>
  BY <1>1, Parts DEF ResolveDispute, RestOK, refundVars, RequestStep
<1>3. CASE outcome = "RESOLVED_REFUND_BUYER"
  <2>. DEFINE new == [b \in Beneficiary |-> IF b \in OnHold THEN "REFUNDED" ELSE alloc[b]]
  <2>1. /\ SetAllocs(new) /\ new \in [Beneficiary -> SettlementStatus]
        /\ debits' = debits + (IF DebitedByDispute THEN 1 ELSE 0)
        /\ arbitrated' = arbitrated
    BY <1>3, Parts DEF ResolveDispute, AllocsOK, SettlementStatus
  <2>2. /\ AllocsOK' /\ Counted
        /\ \A b \in Beneficiary : alloc'[b] = alloc[b] \/ alloc'[b] = "REFUNDED"
        /\ alloc[Seller] # "REFUNDED" => DebitedByDispute
    BY <2>1, Parts, SetAllocsFacts DEF Counted, DebitedByDispute
  <2>3. /\ HistoryOK'
        /\ alloc'[Seller] = "REFUNDED" => debits' > 0
        /\ debits > 0 => debits' > 0
    BY <1>2, <2>1, <2>2, Parts, SeparateSeller
       DEF HistoryOK, verifyVars, IInv, MoneyInv, RefundTakesMoney
  <2>. QED BY <1>2, <2>1, <2>2, <2>3, VerifiedFacts, AllocStep
<1>4. CASE outcome \in {"RESOLVED_RELEASE_SELLER", "REJECTED"}
  <2>. DEFINE new == [b \in Beneficiary |->
                        IF b \in OnHold THEN "ELIGIBLE_FOR_RELEASE" ELSE alloc[b]]
  <2>1. SetAllocs(new) /\ new \in [Beneficiary -> SettlementStatus]
    <3>1. SetAllocs(new)
      BY <1>4 DEF ResolveDispute
    <3>2. new \in [Beneficiary -> SettlementStatus]
      BY Parts DEF AllocsOK, SettlementStatus
    <3>. QED BY <3>1, <3>2
  <2>6. debits' = debits /\ arbitrated' = arbitrated \cup OnHold
    BY <1>4 DEF ResolveDispute
  <2>2. /\ AllocsOK' /\ Counted
        /\ \A b \in Beneficiary :
              \/ alloc'[b] = alloc[b]
              \/ alloc'[b] = "ELIGIBLE_FOR_RELEASE" /\ b \in arbitrated'
    <3>1. AllocsOK' /\ alloc' = new /\ Counted
      <4>. HIDE DEF new
      <4>. QED BY <2>1, Parts, SetAllocsFacts DEF Counted
    <3>2. \A b \in Beneficiary :
            \/ new[b] = alloc[b]
            \/ new[b] = "ELIGIBLE_FOR_RELEASE" /\ b \in arbitrated'
      <4>1. OnHold \subseteq arbitrated'
        BY <2>6
      <4>2. \A b \in Beneficiary : alloc[b] \in SettlementStatus
        BY Parts DEF AllocsOK
      <4>. QED BY <4>1, <4>2
    <3>. QED BY <3>1, <3>2
  <2>3. HistoryOK'
    BY <1>2, <2>6, Parts DEF HistoryOK, verifyVars, OnHold
  <2>4. \A b \in Beneficiary :
          \/ alloc'[b] = alloc[b]
          \/ alloc'[b] \in Releasable /\ Earned(b)'
    BY <2>2 DEF Earned, Releasable
  <2>5. alloc'[Seller] = "REFUNDED" => debits' > 0
    BY <2>2, <2>6, SameRefunded, SeparateSeller
  <2>. QED BY <1>2, <2>2, <2>3, <2>4, <2>5, <2>6, VerifiedFacts, AllocStep
<1>5. CASE outcome = "RESOLVED_RELEASE_COURIER"
  <2>. DEFINE rows == {k \in Carrier : alloc[k] # "NONE"}
              new == [b \in Beneficiary |->
                        IF b \in rows THEN "ELIGIBLE_FOR_RELEASE" ELSE alloc[b]]
  <2>1. SetAllocs(new) /\ new \in [Beneficiary -> SettlementStatus]
    <3>1. SetAllocs(new)
      BY <1>5 DEF ResolveDispute
    <3>2. new \in [Beneficiary -> SettlementStatus]
      BY Parts DEF AllocsOK, SettlementStatus
    <3>. QED BY <3>1, <3>2
  <2>6. debits' = debits /\ arbitrated' = arbitrated \cup rows
    BY <1>5 DEF ResolveDispute
  <2>2. /\ AllocsOK' /\ Counted
        /\ \A b \in Beneficiary :
              \/ alloc'[b] = alloc[b]
              \/ alloc'[b] = "ELIGIBLE_FOR_RELEASE" /\ b \in arbitrated'
    <3>1. AllocsOK' /\ alloc' = new /\ Counted
      <4>. HIDE DEF new
      <4>. QED BY <2>1, Parts, SetAllocsFacts DEF Counted
    <3>2. \A b \in Beneficiary :
            \/ new[b] = alloc[b]
            \/ new[b] = "ELIGIBLE_FOR_RELEASE" /\ b \in arbitrated'
      <4>1. rows \subseteq arbitrated'
        BY <2>6
      <4>. HIDE DEF rows
      <4>2. \A b \in Beneficiary : alloc[b] \in SettlementStatus
        BY Parts DEF AllocsOK
      <4>. QED BY <4>1, <4>2
    <3>. QED BY <3>1, <3>2
  <2>3. HistoryOK'
    BY <1>2, <2>6, Parts, SeparateSeller DEF HistoryOK, verifyVars
  <2>4. \A b \in Beneficiary :
          \/ alloc'[b] = alloc[b]
          \/ alloc'[b] \in Releasable /\ Earned(b)'
    BY <2>2 DEF Earned, Releasable
  <2>5. alloc'[Seller] = "REFUNDED" => debits' > 0
    BY <2>2, <2>6, SameRefunded, SeparateSeller
  <2>. QED BY <1>2, <2>2, <2>3, <2>4, <2>5, <2>6, VerifiedFacts, AllocStep
<1>6. CASE outcome = "RESOLVED_SPLIT"
  <2>1. UNCHANGED <<allocVars, arbitrated, debits>>
    BY <1>6 DEF ResolveDispute
  <2>. QED BY <1>2, <2>1, RestStep
<1>. QED BY <1>3, <1>4, <1>5, <1>6 DEF Outcome

-----------------------------------------------------------------------------
(* The other steps                                                             *)

\* The parts of the invariant that histories and the allocations keep when only
\* requests, or the code, change.
LEMMA SameMoney ==
    ASSUME MoneyInv, ship' = ship, alloc' = alloc, verified' = verified, paid' = paid,
           arbitrated' = arbitrated, late' = late, debits' = debits
    PROVE  MoneyInv'
  BY DEF MoneyInv, NoCarrierForgotten, RefundTakesMoney, Earned

LEMMA LockEndsStep ==
    ASSUME IInv, LockEnds
    PROVE  IInv'
<1>1. TypeParts' /\ Grows
  <2>1. AllocsOK' /\ RequestOK' /\ RestOK'
    BY Parts DEF LockEnds, AllocsOK, RequestOK, RestOK, allocVars, disputeVars, refundVars,
                 requestVars
  <2>2. HistoryOK' /\ Grows
    BY Parts DEF LockEnds, HistoryOK, disputeVars, verifyVars, Grows
  <2>3. CodeOK'
    <3>1. /\ locked' = FALSE /\ unlocks' = unlocks + 1
          /\ code' = code /\ attempts' = attempts /\ guesses' = guesses
      BY DEF LockEnds
    <3>2. CodeOK
      BY Parts
    <3>3. code' \in BOOLEAN /\ locked' \in BOOLEAN
      BY <3>1, <3>2, Zenon DEF CodeOK
    <3>4. attempts' \in Nat /\ guesses' \in Nat /\ unlocks' \in Nat
      BY <3>1, <3>2 DEF CodeOK
    <3>. QED BY <3>3, <3>4 DEF CodeOK
  <2>. QED BY <2>1, <2>2, <2>3 DEF TypeParts
<1>2. MoneyInv' /\ OneEach' /\ PayoutInv' /\ CodeInv'
  <2>1. /\ UNCHANGED <<ship, code, verified, byCode, paid, late, arbitrated, debits, payouts,
                       twice, call>>
        /\ NoneStarts
    BY DEF LockEnds, disputeVars, requestVars, verifyVars, NoneStarts
  <2>2. AllocsOK' /\ alloc' = alloc /\ Counted
    BY Parts, SameAllocs DEF LockEnds
  <2>3. MoneyInv'
    BY <2>1, <2>2, SameMoney DEF IInv
  <2>. QED BY <2>1, <2>2, <2>3, Parts, PayoutKept, CodeInvKept, OneEachKept DEF IInv
<1>3. TriesInv'
  <2>1. MaxTries \in Nat
    BY SettlementAssumption
  <2>2. /\ locked /\ locked' = FALSE /\ unlocks' = unlocks + 1
        /\ UNCHANGED <<attempts, guesses, twice, call, snap>>
    BY DEF LockEnds, requestVars
  <2>3. TriesInv /\ guesses \in Nat /\ unlocks \in Nat
    BY Parts DEF IInv, CodeOK
  <2>4. ASSUME WrongCode \notin twice
        PROVE  /\ attempts' = guesses'
               /\ guesses' + 1 <= MaxTries + unlocks'
               /\ \A r \in Req : call'[r] # WrongCode
    BY <2>1, <2>2, <2>3, <2>4 DEF TriesInv
  <2>. QED BY <2>2, <2>4 DEF TriesInv, WrongCode
<1>4. \A r \in Req : ReqInv(r)'
  BY <1>1, Parts, ReqKept DEF LockEnds, requestVars, allocVars, TypeParts
<1>. QED BY <1>1, <1>2, <1>3, <1>4, InvJoin

LEMMA RejectCodeStep ==
    ASSUME IInv, NEW r \in Req, RejectCode(r)
    PROVE  IInv'
<1>1. /\ stage[r] = "checked" /\ call[r] = WrongCode /\ Finish(r)
      /\ attempts' = snap[r].attempts + 1
      /\ locked' = (snap[r].attempts + 1 >= MaxTries)
      /\ guesses' = guesses + 1
      /\ UNCHANGED <<order, ship, code, unlocks, allocVars, due, disputeVars, refundVars,
                     calls, verifyVars, debits, payouts, twice>>
  BY DEF RejectCode, AttemptsAfter
<1>2. /\ RequestOK' /\ NoneStarts
      /\ \A q \in Req :
            \/ stage'[q] = "idle" /\ call'[q] = NoCall
            \/ stage'[q] = stage[q] /\ call'[q] = call[q] /\ snap'[q] = snap[q]
  BY <1>1, Parts, RequestStepFacts DEF RequestStep
<1>3. snap[r].attempts \in Nat
  BY Parts DEF RequestOK, Snapshot
<1>4. CodeOK'
  BY <1>1, <1>3, Parts DEF CodeOK
<1>5. TypeParts' /\ Grows
  BY <1>1, <1>2, <1>4, Parts DEF TypeParts, AllocsOK, HistoryOK, RestOK, allocVars,
               disputeVars, refundVars, verifyVars, Grows
<1>6. MoneyInv'
  BY <1>1, SameMoney DEF IInv, allocVars, disputeVars, verifyVars
<1>7. AllocsOK' /\ alloc' = alloc /\ Counted
  BY <1>1, Parts, SameAllocs
<1>8. PayoutInv' /\ CodeInv' /\ OneEach'
  BY <1>1, <1>2, <1>7, Parts, PayoutKept, CodeInvKept, OneEachKept DEF IInv, verifyVars
<1>9. TriesInv'
  <2>1. MaxTries \in Nat
    BY SettlementAssumption
  <2>2. ASSUME WrongCode \notin twice
        PROVE  /\ attempts' = guesses'
               /\ guesses' + (IF locked' THEN 0 ELSE 1) <= MaxTries + unlocks'
               /\ \A q \in Req : call'[q] # WrongCode
    <3>1. /\ attempts = guesses /\ ~locked /\ snap[r].attempts = attempts
          /\ guesses + 1 <= MaxTries + unlocks
      BY <1>1, <2>2 DEF IInv, TriesInv
    <3>2. guesses \in Nat /\ unlocks \in Nat
      BY Parts DEF CodeOK
    <3>3. \A q \in Req : call'[q] # WrongCode
      <4>1. \A q \in Req : call[q] = WrongCode => q = r
        BY <1>1, <2>2, CallFacts DEF IInv, OneEach
      <4>2. call'[r] = NoCall
        BY <1>1, Parts, FinishFacts
      <4>. QED BY <1>2, <4>1, <4>2, CallFacts
    <3>4. attempts' = guesses' /\ unlocks' = unlocks
      BY <1>1, <3>1
    <3>5. CASE locked'
      BY <1>1, <2>1, <3>1, <3>2, <3>3, <3>4, <3>5
    <3>6. CASE ~locked'
      <4>1. ~(snap[r].attempts + 1 >= MaxTries)
        BY <1>1, <3>6
      <4>. QED BY <1>1, <2>1, <3>1, <3>2, <3>3, <3>4, <3>6, <4>1
    <3>. QED BY <3>5, <3>6
  <2>3. twice' = twice
    BY <1>1
  <2>. QED BY <2>2, <2>3 DEF TriesInv, WrongCode
<1>10. \A q \in Req : ReqInv(q)'
  <2>. SUFFICES ASSUME NEW q \in Req PROVE ReqInv(q)'
    OBVIOUS
  <2>1. CASE stage'[q] = "idle" /\ call'[q] = NoCall
    BY <2>1, IdleReq
  <2>2. CASE stage'[q] = stage[q] /\ call'[q] = call[q] /\ snap'[q] = snap[q]
    BY <1>5, <1>7, <2>2, Parts, ReqKept DEF TypeParts
  <2>. QED BY <1>2, <2>1, <2>2
<1>. QED BY <1>5, <1>6, <1>8, <1>9, <1>10, InvJoin

LEMMA ApprovePayoutStep ==
    ASSUME IInv, NEW r \in Req, ApprovePayout(r)
    PROVE  IInv'
<1>. DEFINE x == call[r].of
<1>1. /\ Running(r, "payout") /\ Finish(r) /\ SetAlloc(x, "RELEASED_TO_WALLET")
      /\ payouts' = [payouts EXCEPT ![x] = @ + 1]
      /\ UNCHANGED <<order, ship, codeVars, due, disputeVars, refundVars, calls, verifyVars,
                     debits, twice>>
  BY DEF ApprovePayout
<1>2. x \in Beneficiary /\ call[r] = PayoutCall(x) /\ Earned(x)
  BY <1>1, Parts, CallFacts DEF Running, RequestOK, ReqInv
<1>. HIDE DEF x
<1>3. /\ AllocsOK' /\ alloc'[x] = "RELEASED_TO_WALLET" /\ Counted
      /\ \A b \in Beneficiary : b # x => alloc'[b] = alloc[b]
  BY <1>1, <1>2, Parts, SetAllocFacts DEF Counted, SettlementStatus
<1>4. /\ RequestOK' /\ NoneStarts
      /\ \A q \in Req :
            \/ stage'[q] = "idle" /\ call'[q] = NoCall
            \/ stage'[q] = stage[q] /\ call'[q] = call[q] /\ snap'[q] = snap[q]
  BY <1>1, Parts, RequestStepFacts DEF RequestStep
<1>5. UNCHANGED <<ship, code, attempts, locked, guesses, unlocks, verified, byCode, paid, late,
                  arbitrated, debits, twice>>
  BY <1>1 DEF codeVars, verifyVars, disputeVars
<1>6. payouts' \in [Beneficiary -> Nat]
  BY <1>1, <1>2, Parts DEF HistoryOK
<1>7. HistoryOK' /\ CodeOK' /\ RestOK'
  BY <1>1, <1>5, <1>6, Parts DEF HistoryOK, CodeOK, RestOK, disputeVars, refundVars
<1>8. TypeParts' /\ Grows
  BY <1>3, <1>4, <1>5, <1>7, Parts DEF TypeParts, Grows, HistoryOK
<1>9. MoneyInv' /\ NoneEngaged
  <2>1. \A b \in Beneficiary : b = x => Earned(b)'
    BY <1>2, <1>8, Parts, EarnedGrows DEF TypeParts
  <2>2. \A b \in Beneficiary :
          \/ alloc'[b] = alloc[b]
          \/ alloc'[b] \in Releasable /\ Earned(b)'
    BY <1>3, <2>1 DEF Releasable
  <2>3. alloc'[Seller] = "REFUNDED" => debits' > 0
    <3>1. alloc'[Seller] = "REFUNDED" => alloc'[Seller] = alloc[Seller]
      BY <1>3, SeparateSeller
    <3>. QED BY <1>5, <3>1, SameRefunded
  <2>4. MoneyInv
    BY DEF IInv
  <2>. QED BY <1>5, <1>7, <1>8, <2>2, <2>3, <2>4, Parts, VerifiedFacts, MoneyMoves
<1>10. PayoutInv'
  <2>. SUFFICES ASSUME NEW b \in Beneficiary, PayoutCall(b) \notin twice
                PROVE  payouts'[b] + (IF alloc'[b] = "ELIGIBLE_FOR_RELEASE"
                                         \/ Asked(PayoutCall(b))' THEN 1 ELSE 0) <= freed'[b]
    BY <1>5 DEF PayoutInv, PayoutCall
  <2>1. payouts[b] + (IF alloc[b] = "ELIGIBLE_FOR_RELEASE" \/ Asked(PayoutCall(b))
                        THEN 1 ELSE 0) <= freed[b]
    BY DEF IInv, PayoutInv
  <2>2. payouts[b] \in Nat /\ freed[b] \in Nat
    BY Parts DEF AllocsOK, HistoryOK
  <2>3. Asked(PayoutCall(b))' => Asked(PayoutCall(b))
    BY <1>4, AskedKept
  <2>4. CASE b = x
    <3>1. ~Asked(PayoutCall(b))'
      <4>1. PayoutCall(b) \notin {NoCall, AcceptCall}
        BY CallFacts
      <4>2. \A q \in Req : call[q] = PayoutCall(b) => q = r
        BY <1>2, <2>4, <4>1 DEF IInv, OneEach
      <4>3. call'[r] = NoCall
        BY <1>1, Parts, FinishFacts
      <4>4. \A q \in Req : call'[q] # PayoutCall(b)
        BY <1>4, <4>1, <4>2, <4>3
      <4>. QED BY <4>4 DEF Asked, PayoutCall
    <3>2. Asked(PayoutCall(b))
      BY <1>2, <2>4 DEF Asked
    <3>3. payouts'[b] = payouts[b] + 1 /\ freed'[b] = freed[b]
      BY <1>1, <1>2, <1>3, <2>2, <2>4, Parts DEF Counted, HistoryOK
    <3>. QED BY <1>3, <2>1, <2>2, <2>4, <3>1, <3>2, <3>3
  <2>5. CASE b # x
    <3>1. payouts'[b] = payouts[b] /\ alloc'[b] = alloc[b]
      BY <1>1, <1>3, <2>5, Parts DEF HistoryOK
    <3>2. freed'[b] = freed[b]
      BY <1>3, <2>2, <3>1 DEF Counted
    <3>. QED BY <2>1, <2>2, <2>3, <3>1, <3>2
  <2>. QED BY <2>4, <2>5
<1>11. CodeInv' /\ OneEach'
  BY <1>4, <1>5, Parts, CodeInvKept, OneEachKept DEF IInv
<1>12. TriesInv'
  <2>1. \A q \in Req : call'[q] = WrongCode => snap'[q].attempts = snap[q].attempts
    BY <1>4, CallFacts
  <2>. QED BY <1>4, <1>5, <2>1, TriesKept DEF IInv
<1>13. \A q \in Req : ReqInv(q)'
  <2>. SUFFICES ASSUME NEW q \in Req PROVE ReqInv(q)'
    OBVIOUS
  <2>1. CASE stage'[q] = "idle" /\ call'[q] = NoCall
    BY <2>1, IdleReq
  <2>2. CASE stage'[q] = stage[q] /\ call'[q] = call[q] /\ snap'[q] = snap[q]
    BY <1>7, <1>8, <1>9, <2>2, Parts, ReqKept DEF NoneEngaged
  <2>. QED BY <1>4, <2>1, <2>2
<1>. QED BY <1>8, <1>9, <1>10, <1>11, <1>12, <1>13, InvJoin

LEMMA SeenOK ==
    ASSUME TypeParts, NEW c \in AllCalls
    PROVE  /\ Seen(c) \in Snapshot
           /\ c = WrongCode => Seen(c).attempts = attempts
           /\ c.op = "sweep" => Seen(c).alloc[Seller] = alloc[Seller]
           /\ c.op = "payout" => Seen(c).alloc[c.of] = alloc[c.of]
<1>. DEFINE a == IF c.op = "sweep" THEN [Nothing EXCEPT ![Seller] = alloc[Seller]]
                 ELSE IF c.op = "payout" THEN [Nothing EXCEPT ![c.of] = alloc[c.of]]
                 ELSE Nothing
            n == IF c = WrongCode THEN attempts ELSE 0
            p == c.op = "cancelByCustomer" /\ order = "PAID"
<1>1. Nothing \in [Beneficiary -> SettlementStatus]
  BY DEF Nothing, SettlementStatus
<1>2. c.op = "payout" => c.of \in Beneficiary
  BY CallFacts
<1>3. a \in [Beneficiary -> SettlementStatus]
  BY <1>1, <1>2, SeparateSeller DEF TypeParts, AllocsOK
<1>4. /\ c.op = "sweep" => a[Seller] = alloc[Seller]
      /\ c.op = "payout" => a[c.of] = alloc[c.of]
  BY <1>1, <1>2, SeparateSeller
<1>5. n \in Nat /\ (c = WrongCode => n = attempts)
  BY DEF TypeParts, CodeOK
<1>6. p \in BOOLEAN
  BY Zenon
<1>7. Seen(c) = [alloc |-> a, attempts |-> n, paid |-> p]
  BY DEF Seen
<1>. HIDE DEF a, n, p
<1>8. [alloc |-> a, attempts |-> n, paid |-> p] \in Snapshot
  BY <1>3, <1>5, <1>6 DEF Snapshot
<1>. QED BY <1>4, <1>5, <1>7, <1>8

LEMMA StartStep ==
    ASSUME IInv, NEW r \in Req, Start(r)
    PROVE  IInv'
<1>1. PICK c \in Calls :
         /\ Admits(c)
         /\ call' = [call EXCEPT ![r] = c]
         /\ snap' = [snap EXCEPT ![r] = Seen(c)]
         /\ twice' = IF \E q \in Req : call[q] = c THEN twice \cup {c} ELSE twice
  BY DEF Start
<1>2. /\ stage[r] = "idle" /\ stage' = [stage EXCEPT ![r] = "checked"]
      /\ calls' = calls + 1
      /\ UNCHANGED <<order, ship, codeVars, allocVars, due, disputeVars, refundVars,
                     verifyVars, debits, payouts>>
  BY DEF Start
<1>3. c \in AllCalls /\ call[r] = NoCall /\ c # NoCall
  BY <1>2, CallFacts, Parts DEF ReqInv
<1>4. /\ Seen(c) \in Snapshot
      /\ c = WrongCode => Seen(c).attempts = attempts
      /\ c.op = "sweep" => Seen(c).alloc[Seller] = alloc[Seller]
      /\ c.op = "payout" => Seen(c).alloc[c.of] = alloc[c.of]
  BY <1>3, Parts, SeenOK
<1>5. /\ stage'[r] = "checked" /\ call'[r] = c /\ snap'[r] = Seen(c)
      /\ \A q \in Req : q # r => /\ stage'[q] = stage[q]
                                /\ call'[q] = call[q]
                                /\ snap'[q] = snap[q]
  BY <1>1, <1>2, Parts DEF RequestOK
<1>6. RequestOK'
  <2>1. stage' \in [Req -> {"idle", "checked", "loaded", "verified", "paying"}]
    BY <1>2, Parts DEF RequestOK
  <2>2. call' \in [Req -> AllCalls \cup {NoCall}]
    BY <1>1, <1>3, Parts DEF RequestOK
  <2>3. snap' \in [Req -> Snapshot]
    BY <1>1, <1>4, Parts DEF RequestOK
  <2>4. \A q \in Req : stage'[q] # "idle" => call'[q] \in AllCalls
    BY <1>3, <1>5, Parts DEF RequestOK
  <2>. QED BY <2>1, <2>2, <2>3, <2>4 DEF RequestOK
<1>7. twice \subseteq twice' /\ twice' \in SUBSET AllCalls
      /\ twice' \subseteq twice \cup {c}
  BY <1>1, <1>3, Parts DEF HistoryOK
<1>8. AllocsOK' /\ alloc' = alloc /\ freed' = freed
  BY <1>2, Parts, SameAllocs
<1>9. HistoryOK' /\ Grows
  BY <1>2, <1>7, Parts DEF HistoryOK, Grows, verifyVars, disputeVars
<1>10. TypeParts'
  <2>1. CodeOK'
    BY <1>2, Parts DEF CodeOK, codeVars
  <2>2. RestOK'
    BY <1>2, Parts DEF RestOK, disputeVars, refundVars
  <2>. QED BY <1>6, <1>8, <1>9, <2>1, <2>2 DEF TypeParts
<1>11. MoneyInv'
  BY <1>2, <1>8, SameMoney DEF IInv, verifyVars, disputeVars
<1>12. \A d : d # c /\ Asked(d)' => Asked(d)
  BY <1>5 DEF Asked
<1>. USE DEF IInv
<1>13. PayoutInv'
  <2>. SUFFICES ASSUME NEW b \in Beneficiary, PayoutCall(b) \notin twice
                PROVE  payouts[b] + (IF alloc[b] = "ELIGIBLE_FOR_RELEASE"
                                        \/ Asked(PayoutCall(b))' THEN 1 ELSE 0) <= freed[b]
    BY <1>2, <1>7, <1>8 DEF PayoutInv, PayoutCall
  <2>1. payouts[b] + (IF alloc[b] = "ELIGIBLE_FOR_RELEASE" \/ Asked(PayoutCall(b))
                        THEN 1 ELSE 0) <= freed[b]
    BY DEF PayoutInv
  <2>2. ASSUME PayoutCall(b) = c PROVE alloc[b] = "ELIGIBLE_FOR_RELEASE"
    <3>1. c.op = "payout" /\ c.of = b
      BY <2>2, CallFacts
    <3>. QED BY <1>1, <3>1 DEF Admits, Pays, PayoutAdmitted
  <2>3. \/ alloc[b] = "ELIGIBLE_FOR_RELEASE"
        \/ Asked(PayoutCall(b))' => Asked(PayoutCall(b))
    BY <1>12, <2>2
  <2>4. payouts[b] \in Nat /\ freed[b] \in Nat
    BY Parts DEF AllocsOK, HistoryOK
  <2>. HIDE DEF IInv
  <2>. QED BY <2>1, <2>3, <2>4
<1>14. CodeInv'
  <2>1. c = RightCode => code
    BY <1>1, CallFacts DEF Admits, Pays, CodeAdmitted
  <2>2. Asked(RightCode)' => code \/ Asked(RightCode)
    BY <1>12, <2>1
  <2>3. code' = code /\ byCode' = byCode
    BY <1>2 DEF codeVars, verifyVars
  <2>. QED BY <1>7, <2>2, <2>3, Parts DEF CodeInv, RightCode, HistoryOK
<1>15. TriesInv'
  <2>1. c = WrongCode => ~locked
    BY <1>1, CallFacts DEF Admits, Pays, CodeAdmitted
  <2>2. UNCHANGED <<attempts, locked, guesses, unlocks>>
    BY <1>2 DEF codeVars
  <2>3. ASSUME WrongCode \notin twice
        PROVE  \A q \in Req : call'[q] = WrongCode => ~locked /\ snap'[q].attempts = attempts
    BY <1>4, <1>5, <2>1, <2>3 DEF TriesInv
  <2>4. WrongCode \notin twice' => WrongCode \notin twice
    BY <1>7
  <2>. QED BY <2>2, <2>3, <2>4 DEF TriesInv, WrongCode
<1>16. OneEach'
  <2>. SUFFICES ASSUME NEW p \in Req, NEW q \in Req, call'[p] = call'[q],
                       call'[q] \notin twice' \cup {NoCall, AcceptCall}
                PROVE  p = q
    BY DEF OneEach, AcceptCall
  <2>1. CASE p = r \/ q = r
    BY <1>1, <1>5, <2>1
  <2>2. CASE p # r /\ q # r
    BY <1>5, <1>7, <2>2 DEF OneEach
  <2>. QED BY <2>1, <2>2
<1>17. \A q \in Req : ReqInv(q)'
  <2>. SUFFICES ASSUME NEW q \in Req PROVE ReqInv(q)'
    OBVIOUS
  <2>1. CASE q # r
    BY <1>5, <1>8, <1>9, <2>1, Parts, ReqKept
  <2>2. CASE q = r
    <3>1. c.op = "sweep" => verified > 0 /\ alloc[Seller] = "AWAITING_BUYER_CONFORMITY"
      BY <1>1 DEF Admits, Pays, SweepAdmitted, MoneyInv
    <3>2. c.op = "payout" => Earned(c.of) /\ alloc[c.of] = "ELIGIBLE_FOR_RELEASE"
      <4>1. c.op = "payout" => c.of \in Beneficiary
        BY <1>3, CallFacts
      <4>. QED BY <1>1, <4>1 DEF Admits, Pays, PayoutAdmitted, MoneyInv, Releasable
    <3>3. c.op = "acceptConformity" => ship \in Verified
      BY <1>1 DEF Admits, Pays, ConformityAdmitted
    <3>4. UNCHANGED <<verified, paid, late, arbitrated>>
      BY <1>2 DEF verifyVars, disputeVars
    <3>5. c.op = "payout" => Earned(c.of)'
      BY <3>2, <3>4 DEF Earned
    <3>. QED BY <1>4, <1>5, <1>8, <2>2, <3>1, <3>2, <3>3, <3>4, <3>5, VerifiedFacts
               DEF ReqInv, Running
  <2>. QED BY <2>1, <2>2
<1>. QED BY <1>10, <1>11, <1>13, <1>14, <1>15, <1>16, <1>17, InvJoin

\* A step of a request that changes only where it is, and asks nothing new.
LEMMA OnlyRequestStep ==
    ASSUME IInv, NEW r \in Req, RequestOK', NoneStarts, ReqInv(r)',
           call'[r] = WrongCode => snap'[r].attempts = snap[r].attempts,
           \A q \in Req : q # r => /\ stage'[q] = stage[q]
                                   /\ call'[q] = call[q]
                                   /\ snap'[q] = snap[q],
           UNCHANGED <<order, ship, codeVars, allocVars, due, disputeVars, refundVars, calls,
                       verifyVars, debits, payouts, twice>>
    PROVE  IInv'
<1>1. AllocsOK' /\ alloc' = alloc /\ Counted
  BY Parts, SameAllocs
<1>2. HistoryOK' /\ Grows
  BY Parts DEF HistoryOK, Grows, verifyVars, disputeVars
<1>3. TypeParts'
  <2>1. CodeOK'
    BY Parts DEF CodeOK, codeVars
  <2>2. RestOK'
    BY Parts DEF RestOK, disputeVars, refundVars
  <2>. QED BY <1>1, <1>2, <2>1, <2>2 DEF TypeParts
<1>4. MoneyInv'
  BY <1>1, SameMoney DEF IInv, verifyVars, disputeVars
<1>5. PayoutInv' /\ CodeInv' /\ OneEach'
  BY <1>1, Parts, PayoutKept, CodeInvKept, OneEachKept DEF IInv, verifyVars, codeVars
<1>6. TriesInv'
  BY TriesKept DEF IInv, codeVars
<1>7. \A q \in Req : ReqInv(q)'
  <2>. SUFFICES ASSUME NEW q \in Req, q # r PROVE ReqInv(q)'
    OBVIOUS
  <2>. QED BY <1>1, <1>2, Parts, ReqKept
<1>. QED BY <1>3, <1>4, <1>5, <1>6, <1>7, InvJoin

LEMMA LoadDeliveryStep ==
    ASSUME IInv, NEW r \in Req, LoadDelivery(r)
    PROVE  IInv'
<1>1. /\ stage[r] = "checked" /\ Verifies(call[r])
      /\ stage' = [stage EXCEPT ![r] = "loaded"]
      /\ snap' = [snap EXCEPT ![r].alloc = alloc]
      /\ call' = call
      /\ UNCHANGED <<order, ship, codeVars, allocVars, due, disputeVars, refundVars, calls,
                     verifyVars, debits, payouts, twice>>
  BY DEF LoadDelivery
<1>2. snap[r] \in Snapshot /\ alloc \in [Beneficiary -> SettlementStatus]
  BY Parts DEF RequestOK, AllocsOK
<1>3. /\ snap'[r] \in Snapshot /\ snap'[r].alloc = alloc
      /\ snap'[r].attempts = snap[r].attempts
      /\ stage'[r] = "loaded"
      /\ \A q \in Req : q # r => stage'[q] = stage[q] /\ snap'[q] = snap[q]
  BY <1>1, <1>2, Parts DEF RequestOK, Snapshot
<1>4. RequestOK'
  <2>1. stage' \in [Req -> {"idle", "checked", "loaded", "verified", "paying"}]
    BY <1>1, Parts DEF RequestOK
  <2>2. snap' \in [Req -> Snapshot]
    BY <1>1, <1>2, Parts DEF RequestOK, Snapshot
  <2>3. \A q \in Req : stage'[q] # "idle" => call'[q] \in AllCalls
    BY <1>1, <1>3, Parts DEF RequestOK
  <2>. QED BY <1>1, <2>1, <2>2, <2>3, Parts DEF RequestOK
<1>5. NoneStarts
  BY <1>1 DEF NoneStarts
<1>6. ReqInv(r)'
  BY <1>1, <1>3, SameAllocs, Parts, SeparateSeller DEF ReqInv, Running, Verifies
<1>. QED BY <1>1, <1>3, <1>4, <1>5, <1>6, OnlyRequestStep

\* A payment reads the seller's allocation: what it reads holds now.
LEMMA LoadPaymentStep ==
    ASSUME IInv, NEW r \in Req, LoadPayment(r)
    PROVE  IInv'
<1>1. /\ stage[r] = "checked" /\ Pays(call[r])
      /\ UNCHANGED <<order, ship, codeVars, allocVars, due, disputeVars, refundVars, calls,
                     verifyVars, debits, payouts, twice>>
  BY DEF LoadPayment
<1>2. CASE Payable(call[r])
  <2>1. /\ stage' = [stage EXCEPT ![r] = "paying"]
        /\ snap' = [snap EXCEPT ![r].alloc[Seller] = alloc[Seller]]
        /\ call' = call
    BY <1>2 DEF LoadPayment
  <2>2. /\ snap[r] \in Snapshot /\ alloc[Seller] \in SettlementStatus
        /\ snap[r].alloc \in [Beneficiary -> SettlementStatus]
    BY Parts, SeparateSeller DEF RequestOK, AllocsOK, Snapshot
  <2>3. /\ snap'[r] \in Snapshot /\ snap'[r].alloc[Seller] = alloc[Seller]
        /\ snap'[r].attempts = snap[r].attempts
        /\ stage'[r] = "paying"
        /\ \A q \in Req : q # r => stage'[q] = stage[q] /\ snap'[q] = snap[q]
    BY <2>1, <2>2, Parts, SeparateSeller DEF RequestOK, Snapshot
  <2>4. RequestOK'
    <3>1. stage' \in [Req -> {"idle", "checked", "loaded", "verified", "paying"}]
      BY <2>1, Parts DEF RequestOK
    <3>2. snap' \in [Req -> Snapshot]
      BY <2>1, <2>3, Parts DEF RequestOK
    <3>3. \A q \in Req : stage'[q] # "idle" => call'[q] \in AllCalls
      BY <1>1, <2>1, <2>3, Parts DEF RequestOK
    <3>. QED BY <2>1, <3>1, <3>2, <3>3, Parts DEF RequestOK
  <2>5. NoneStarts
    BY <2>1 DEF NoneStarts
  <2>6. SellerReadInv(alloc[Seller])
    BY SeparateSeller DEF IInv, MoneyInv, RefundTakesMoney, SellerReadInv
  <2>7. UNCHANGED <<verified, paid, arbitrated, debits>>
    BY <1>1 DEF verifyVars, disputeVars
  <2>8. ReqInv(r)'
    BY <1>1, <2>1, <2>3, <2>6, <2>7 DEF ReqInv, Running, SellerReadInv, Earned
  <2>. QED BY <1>1, <2>1, <2>3, <2>4, <2>5, <2>8, OnlyRequestStep
<1>3. CASE ~Payable(call[r])
  <2>1. Finish(r)
    BY <1>3 DEF LoadPayment
  <2>2. RequestOK' /\ NoneStarts
    BY <2>1, Parts, RequestStepFacts DEF RequestStep
  <2>3. /\ stage'[r] = "idle" /\ call'[r] = NoCall
        /\ \A q \in Req : q # r => /\ stage'[q] = stage[q]
                                  /\ call'[q] = call[q]
                                  /\ snap'[q] = snap[q]
    BY <2>1, Parts, FinishFacts
  <2>4. ReqInv(r)' /\ call'[r] # WrongCode
    BY <2>3, IdleReq, CallFacts
  <2>. QED BY <1>1, <2>2, <2>3, <2>4, OnlyRequestStep
<1>. QED BY <1>2, <1>3

LEMMA GoOnToAcceptStep ==
    ASSUME IInv, NEW r \in Req, GoOnToAccept(r)
    PROVE  IInv'
<1>1. /\ stage[r] = "verified"
      /\ UNCHANGED <<order, ship, codeVars, allocVars, due, disputeVars, refundVars, calls,
                     verifyVars, debits, payouts, twice>>
  BY DEF GoOnToAccept
<1>2. CASE ConformityAdmitted
  <2>1. /\ stage' = [stage EXCEPT ![r] = "checked"]
        /\ call' = [call EXCEPT ![r] = AcceptCall] /\ snap' = snap
    BY <1>2 DEF GoOnToAccept
  <2>2. /\ stage'[r] = "checked" /\ call'[r] = AcceptCall
        /\ \A q \in Req : q # r => stage'[q] = stage[q] /\ call'[q] = call[q]
    BY <2>1, Parts DEF RequestOK
  <2>3. RequestOK'
    BY <2>1, <2>2, CallFacts, Parts DEF RequestOK
  <2>4. NoneStarts
    BY <2>2 DEF NoneStarts
  <2>5. verified > 0 /\ \A k \in Carrier : alloc[k] = "AWAITING_DELIVERY_VERIFICATION" => k \in late
    BY <1>2, VerifiedFacts DEF ConformityAdmitted
  <2>6. UNCHANGED <<alloc, verified, late>>
    BY <1>1 DEF allocVars, verifyVars
  <2>7. ReqInv(r)'
    BY <2>2, <2>5, <2>6, CallFacts DEF ReqInv, Running
  <2>. QED BY <1>1, <2>1, <2>2, <2>3, <2>4, <2>7, OnlyRequestStep
<1>3. CASE ~ConformityAdmitted
  <2>1. Finish(r)
    BY <1>3 DEF GoOnToAccept
  <2>2. RequestOK' /\ NoneStarts
    BY <2>1, Parts, RequestStepFacts DEF RequestStep
  <2>3. /\ stage'[r] = "idle" /\ call'[r] = NoCall
        /\ \A q \in Req : q # r => /\ stage'[q] = stage[q]
                                  /\ call'[q] = call[q]
                                  /\ snap'[q] = snap[q]
    BY <2>1, Parts, FinishFacts
  <2>4. ReqInv(r)'
    BY <2>3, IdleReq
  <2>5. call'[r] # WrongCode
    BY <2>3, CallFacts
  <2>. QED BY <1>1, <2>2, <2>3, <2>4, <2>5, OnlyRequestStep
<1>. QED BY <1>2, <1>3

LEMMA EngageCarrierStep ==
    ASSUME IInv, NEW k \in Carrier, EngageCarrier(k)
    PROVE  IInv'
<1>1. /\ alloc[k] = "NONE" /\ SetAlloc(k, "AWAITING_DELIVERY_VERIFICATION")
      /\ ship' = "OPEN"
      /\ UNCHANGED <<order, codeVars, due, disputeVars, refundVars, requestVars, calls,
                     verified, byCode, paid, debits, payouts, twice>>
  BY DEF EngageCarrier, ShipmentEngaged
<1>2. late' = IF \E r \in Req : stage[r] = "loaded" \/ Running(r, "acceptConformity")
                THEN late \cup {k} ELSE late
  BY DEF EngageCarrier
<1>3. k \in Beneficiary /\ k # Seller
  BY SeparateSeller
<1>4. /\ AllocsOK' /\ Counted /\ alloc'[k] = "AWAITING_DELIVERY_VERIFICATION"
      /\ \A b \in Beneficiary : b # k => alloc'[b] = alloc[b]
  BY <1>1, <1>3, Parts, SetAllocFacts DEF Counted, SettlementStatus
<1>5. late \subseteq late' /\ late' \in SUBSET Carrier
  BY <1>2, Parts DEF HistoryOK
<1>6. UNCHANGED <<code, attempts, locked, guesses, unlocks, stage, call, snap, verified, byCode,
                  paid, arbitrated, debits, payouts, twice>>
  BY <1>1 DEF codeVars, disputeVars, requestVars
<1>7. HistoryOK' /\ Grows
  BY <1>5, <1>6, Parts DEF HistoryOK, Grows
<1>8. TypeParts'
  <2>1. CodeOK'
    BY <1>6, Parts DEF CodeOK
  <2>2. RestOK'
    BY <1>1, Parts DEF RestOK, disputeVars, refundVars, ShipmentStatus
  <2>3. RequestOK'
    BY <1>6, Parts DEF RequestOK
  <2>. QED BY <1>4, <1>7, <2>1, <2>2, <2>3 DEF TypeParts
<1>9. MoneyInv'
  <2>1. ship' \notin Verified
    BY <1>1 DEF Verified
  <2>2. \A b \in Beneficiary : alloc'[b] \in Releasable => Earned(b)'
    <3>. SUFFICES ASSUME NEW b \in Beneficiary, alloc'[b] \in Releasable PROVE Earned(b)'
      OBVIOUS
    <3>1. b # k
      BY <1>4 DEF Releasable
    <3>. QED BY <1>4, <1>7, <3>1, Parts, EarnedGrows DEF IInv, MoneyInv
  <2>3. alloc'[Seller] = alloc[Seller]
    BY <1>3, <1>4, SeparateSeller
  <2>4. \A j \in Carrier : paid'[j] <= verified' /\ alloc'[j] # "AWAITING_BUYER_CONFORMITY"
    BY <1>4, <1>6, SeparateSeller DEF IInv, MoneyInv
  <2>. QED BY <1>6, <2>1, <2>2, <2>3, <2>4
           DEF IInv, MoneyInv, NoCarrierForgotten, RefundTakesMoney
<1>10. NoneStarts
  BY <1>6 DEF NoneStarts
<1>11. PayoutInv' /\ CodeInv' /\ OneEach'
  BY <1>4, <1>6, <1>10, Parts, PayoutKept, CodeInvKept, OneEachKept DEF IInv
<1>12. TriesInv'
  BY <1>6, <1>10, TriesKept DEF IInv
<1>13. \A q \in Req : ReqInv(q)'
  <2>. SUFFICES ASSUME NEW q \in Req PROVE ReqInv(q)'
    OBVIOUS
  <2>1. stage[q] = "loaded" \/ Running(q, "acceptConformity") => k \in late'
    BY <1>2
  <2>2. \/ stage[q] # "loaded" /\ ~Running(q, "acceptConformity")
        \/ \A j \in Carrier : alloc'[j] = "AWAITING_DELIVERY_VERIFICATION" =>
              alloc[j] = "AWAITING_DELIVERY_VERIFICATION" \/ j \in late'
    BY <1>4, <2>1, SeparateSeller
  <2>3. ReqInv(q)
    BY Parts
  <2>. QED BY <1>6, <1>7, <2>2, <2>3, Parts, ReqKept
<1>. QED BY <1>8, <1>9, <1>11, <1>12, <1>13, InvJoin

LEMMA VerifyDeliveryStep ==
    ASSUME IInv, NEW r \in Req, VerifyDelivery(r)
    PROVE  IInv'
<1>. DEFINE seen == snap[r].alloc
            new == AllocsDelivered(seen)
<1>1. /\ stage[r] = "loaded"
      /\ SetAllocs(new)
      /\ due' = (due /\ ~MovedByDelivery(seen[Seller]))
      /\ paid' = [k \in Carrier |-> paid[k] + (IF MovedByDelivery(seen[k]) THEN 1 ELSE 0)]
      /\ order' = "DELIVERED"
      /\ ship' = "DELIVERED_VERIFIED"
      /\ code' = FALSE
      /\ verified' = verified + 1
      /\ byCode' = byCode + (IF call[r].op = "code" THEN 1 ELSE 0)
      /\ UNCHANGED <<attempts, locked, guesses, unlocks, disputeVars, refundVars, calls,
                     late, debits, payouts, twice>>
  BY DEF VerifyDelivery, CodeConsumed
<1>2. \/ /\ call[r].op = "guest"
         /\ stage' = [stage EXCEPT ![r] = "verified"]
         /\ snap' = [snap EXCEPT ![r] = BlankSnap]
         /\ call' = call
      \/ Finish(r)
  BY DEF VerifyDelivery
<1>3. /\ Verifies(call[r]) /\ call[r] \in AllCalls
      /\ \A k \in Carrier : alloc[k] = "AWAITING_DELIVERY_VERIFICATION" =>
            seen[k] = alloc[k] \/ k \in late
  BY <1>1, Parts DEF ReqInv, RequestOK
<1>4. seen \in [Beneficiary -> SettlementStatus]
  BY Parts DEF RequestOK, Snapshot
<1>5. new \in [Beneficiary -> SettlementStatus]
  BY Parts DEF AllocsOK, AllocsDelivered, SellerDelivered, SettlementStatus
<1>6. \A b \in Beneficiary :
        new[b] = IF ~MovedByDelivery(seen[b]) THEN alloc[b]
                 ELSE IF b = Seller THEN "AWAITING_BUYER_CONFORMITY"
                 ELSE "ELIGIBLE_FOR_RELEASE"
  BY DEF AllocsDelivered, SellerDelivered
<1>7. AllocsOK' /\ alloc' = new /\ Counted
  <2>. HIDE DEF new
  <2>. QED BY <1>1, <1>5, Parts, SetAllocsFacts DEF Counted
<1>. HIDE DEF seen, new
<1>8. RequestOK' /\ NoneStarts /\ ReqInv(r)'
      /\ (call'[r] = call[r] \/ call'[r] = NoCall)
      /\ (call[r] = RightCode => call'[r] = NoCall)
      /\ \A q \in Req : q # r => /\ stage'[q] = stage[q]
                                /\ call'[q] = call[q]
                                /\ snap'[q] = snap[q]
  <2>1. CASE Finish(r)
    <3>1. RequestOK' /\ NoneStarts
      BY <2>1, Parts, RequestStepFacts DEF RequestStep
    <3>. QED BY <2>1, <3>1, Parts, FinishFacts, IdleReq
  <2>2. CASE /\ call[r].op = "guest"
             /\ stage' = [stage EXCEPT ![r] = "verified"]
             /\ snap' = [snap EXCEPT ![r] = BlankSnap]
             /\ call' = call
    <3>1. BlankSnap \in Snapshot
      BY DEF BlankSnap, Snapshot, Nothing, SettlementStatus
    <3>2. stage' \in [Req -> {"idle", "checked", "loaded", "verified", "paying"}]
      BY <2>2, Parts DEF RequestOK
    <3>3. snap' \in [Req -> Snapshot]
      BY <2>2, <3>1, Parts DEF RequestOK
    <3>4. stage'[r] = "verified" /\ \A q \in Req : q # r => stage'[q] = stage[q] /\ snap'[q] = snap[q]
      BY <2>2, Parts DEF RequestOK
    <3>5. RequestOK'
      BY <1>3, <2>2, <3>2, <3>3, <3>4, Parts DEF RequestOK
    <3>6. ReqInv(r)'
      BY <2>2, <3>4 DEF ReqInv, Running
    <3>7. NoneStarts
      BY <2>2 DEF NoneStarts
    <3>8. call[r] # RightCode
      BY <2>2, CallFacts
    <3>. QED BY <2>2, <3>4, <3>5, <3>6, <3>7, <3>8
  <2>. QED BY <1>2, <2>1, <2>2
<1>9. /\ paid' \in [Carrier -> Nat]
      /\ \A k \in Carrier : /\ paid'[k] >= paid[k]
                            /\ paid'[k] <= paid[k] + 1
                            /\ MovedByDelivery(seen[k]) => paid'[k] > 0
  BY <1>1, Parts DEF HistoryOK, seen
<1>10. HistoryOK' /\ Grows
  BY <1>1, <1>9, Parts DEF HistoryOK, Grows, disputeVars
<1>11. TypeParts'
  <2>1. code' \in BOOLEAN
    BY <1>1, Zenon
  <2>2. CodeOK'
    BY <1>1, <2>1, Parts DEF CodeOK
  <2>3. due' \in BOOLEAN
    BY <1>1, Zenon
  <2>4. RestOK'
    BY <1>1, <2>3, Parts DEF RestOK, disputeVars, refundVars, ShipmentStatus, OrderStatus
  <2>. QED BY <1>7, <1>8, <1>10, <2>2, <2>4 DEF TypeParts
<1>12. NoneEngaged /\ \A k \in Carrier : alloc'[k] = "AWAITING_DELIVERY_VERIFICATION" => k \in late
  BY <1>3, <1>6, <1>7, SeparateSeller DEF NoneEngaged, MovedByDelivery
<1>13. MoneyInv'
  <2>1. verified' > 0
    BY <1>1, Parts DEF HistoryOK
  <2>2. \A b \in Beneficiary : alloc'[b] \in Releasable => Earned(b)'
    <3>. SUFFICES ASSUME NEW b \in Beneficiary, alloc'[b] \in Releasable PROVE Earned(b)'
      OBVIOUS
    <3>1. CASE alloc'[b] = alloc[b]
      BY <1>10, <3>1, Parts, EarnedGrows DEF IInv, MoneyInv
    <3>2. CASE b = Seller
      BY <2>1, <3>2 DEF Earned
    <3>3. CASE b # Seller /\ MovedByDelivery(seen[b])
      BY <1>9, <3>3, SeparateSeller DEF Earned
    <3>. QED BY <1>6, <1>7, <3>1, <3>2, <3>3
  <2>3. \A k \in Carrier : paid'[k] <= verified' /\ alloc'[k] # "AWAITING_BUYER_CONFORMITY"
    <3>. SUFFICES ASSUME NEW k \in Carrier
                  PROVE  paid'[k] <= verified' /\ alloc'[k] # "AWAITING_BUYER_CONFORMITY"
      OBVIOUS
    <3>1. paid[k] <= verified /\ alloc[k] # "AWAITING_BUYER_CONFORMITY"
      BY DEF IInv, MoneyInv
    <3>2. paid[k] \in Nat /\ verified \in Nat /\ paid'[k] \in Nat
      BY <1>9, Parts DEF HistoryOK
    <3>3. paid'[k] <= verified'
      BY <1>1, <1>9, <3>1, <3>2
    <3>. QED BY <1>6, <1>7, <3>1, <3>3, SeparateSeller
  <2>4. RefundTakesMoney'
    BY <1>1, <1>6, <1>7, SeparateSeller DEF IInv, MoneyInv, RefundTakesMoney
  <2>5. NoCarrierForgotten'
    BY <1>1, <1>12 DEF NoCarrierForgotten
  <2>. QED BY <2>1, <2>2, <2>3, <2>4, <2>5 DEF MoneyInv
<1>14. PayoutInv' /\ OneEach'
  BY <1>1, <1>7, <1>8, Parts, PayoutKept, OneEachKept DEF IInv
<1>15. CodeInv'
  <2>. SUFFICES ASSUME RightCode \notin twice
                PROVE  byCode' + (IF code' \/ Asked(RightCode)' THEN 1 ELSE 0) <= 1
    BY <1>1 DEF CodeInv, RightCode
  <2>1. byCode \in Nat /\ byCode + (IF code \/ Asked(RightCode) THEN 1 ELSE 0) <= 1
    BY Parts DEF IInv, CodeInv, HistoryOK
  <2>2. CASE call[r] = RightCode
    <3>1. RightCode \notin {NoCall, AcceptCall}
      BY CallFacts
    <3>2. \A q \in Req : call[q] = RightCode => q = r
      BY <2>2, <3>1 DEF IInv, OneEach
    <3>3. \A q \in Req : call'[q] # RightCode
      BY <1>8, <2>2, <3>1, <3>2
    <3>4. ~Asked(RightCode)' /\ Asked(RightCode)
      BY <2>2, <3>3 DEF Asked, RightCode
    <3>5. byCode' = byCode + 1
      BY <1>1, <2>2, CallFacts
    <3>6. ~code'
      BY <1>1
    <3>. QED BY <2>1, <3>4, <3>5, <3>6
  <2>3. CASE call[r] # RightCode
    <3>1. call[r].op # "code"
      BY <1>3, <2>3 DEF Verifies
    <3>2. byCode' = byCode
      BY <1>1, <2>1, <3>1
    <3>3. ~code'
      BY <1>1
    <3>4. Asked(RightCode)' => Asked(RightCode)
      BY <1>8, AskedKept
    <3>. QED BY <2>1, <3>2, <3>3, <3>4
  <2>. QED BY <2>2, <2>3
<1>16. TriesInv'
  <2>1. \A q \in Req : call'[q] = WrongCode => q # r
    BY <1>3, <1>8, CallFacts DEF Verifies
  <2>2. \A q \in Req : call'[q] = WrongCode => snap'[q].attempts = snap[q].attempts
    BY <1>8, <2>1
  <2>. QED BY <1>1, <1>8, <2>2, TriesKept DEF IInv
<1>17. \A q \in Req : ReqInv(q)'
  <2>. SUFFICES ASSUME NEW q \in Req, q # r PROVE ReqInv(q)'
    BY <1>8
  <2>. QED BY <1>8, <1>10, <1>12, Parts, ReqKept DEF NoneEngaged
<1>. QED BY <1>11, <1>13, <1>14, <1>15, <1>16, <1>17, InvJoin

-----------------------------------------------------------------------------
(* The theorems                                                                *)

LEMMA InitInv == Init => IInv
<1>. SUFFICES ASSUME Init PROVE IInv
  OBVIOUS
<1>1. /\ alloc \in [Beneficiary -> SettlementStatus]
      /\ \A k \in Carrier : alloc[k] = "NONE"
      /\ alloc[Seller] \in {"AWAITING_DELIVERY_VERIFICATION", "PENDING_PAYMENT"}
      /\ \A b \in Beneficiary : alloc[b] \notin Releasable \cup {"ELIGIBLE_FOR_RELEASE"}
  BY SeparateSeller DEF Init, SettlementStatus, Releasable
<1>2. AllocsOK
  BY <1>1 DEF Init, AllocsOK
<1>3. RequestOK
  BY DEF Init, RequestOK, Snapshot, BlankSnap, Nothing, SettlementStatus
<1>4. HistoryOK
  BY DEF Init, HistoryOK
<1>5. CodeOK
  BY DEF Init, CodeOK
<1>6. RestOK
  <2>1. billed \in BOOLEAN /\ due \in BOOLEAN
    BY Zenon DEF Init
  <2>2. order \in OrderStatus /\ ship \in ShipmentStatus /\ refund \in RefundStatus
    BY DEF Init, OrderStatus, ShipmentStatus, RefundStatus
  <2>3. dispute \in [Dispute -> DisputeStatus] /\ calls \in Nat
    BY DEF Init, DisputeStatus
  <2>. QED BY <2>1, <2>2, <2>3, Zenon DEF RestOK
<1>7. TypeOK
  BY <1>2, <1>3, <1>4, <1>5, <1>6, TypeSplit DEF TypeParts
<1>8. MoneyInv
  <2>1. ship \notin Verified
    BY DEF Init, Verified
  <2>2. \A k \in Carrier : paid[k] <= verified
    BY DEF Init
  <2>3. \A b \in Beneficiary : alloc[b] \in Releasable => Earned(b)
    BY <1>1
  <2>4. NoCarrierForgotten /\ RefundTakesMoney
    BY <1>1, <2>1 DEF NoCarrierForgotten, RefundTakesMoney
  <2>5. \A k \in Carrier : alloc[k] # "AWAITING_BUYER_CONFORMITY"
    BY <1>1
  <2>6. alloc[Seller] # "AWAITING_BUYER_CONFORMITY"
    BY <1>1
  <2>. QED BY <2>1, <2>2, <2>3, <2>4, <2>5, <2>6 DEF MoneyInv
<1>9. \A c \in AllCalls : ~Asked(c)
  BY CallFacts DEF Init, Asked
<1>10. PayoutInv /\ CodeInv
  <2>1. PayoutInv
    BY <1>1, <1>9, CallFacts DEF Init, PayoutInv
  <2>2. CodeInv
    BY <1>9, CallFacts DEF Init, CodeInv
  <2>. QED BY <2>1, <2>2
<1>11. TriesInv
  BY CallFacts, SettlementAssumption DEF Init, TriesInv
<1>12. OneEach /\ \A r \in Req : ReqInv(r)
  BY DEF Init, OneEach, ReqInv, Running
<1>. QED BY <1>7, <1>8, <1>10, <1>11, <1>12 DEF IInv

LEMMA StepInv == IInv /\ [Next]_vars => IInv'
<1>. SUFFICES ASSUME IInv, [Next]_vars PROVE IInv'
  OBVIOUS
<1>1. ASSUME NEW r \in Req, Request(r) PROVE IInv'
  BY <1>1, StartStep, FailStep, RejectCodeStep, LoadDeliveryStep, VerifyDeliveryStep,
     GoOnToAcceptStep, AcceptConformityStep, ReleaseAfterWindowStep, ApprovePayoutStep,
     LoadPaymentStep, ConfirmPaymentStep, CancelByCustomerStep, CreateRequestStep,
     DecideRefundStep DEF Request
<1>2. ASSUME NEW d \in Dispute, NEW scope \in DisputeScope, OpenDispute(d, scope) PROVE IInv'
  BY <1>2, OpenDisputeStep
<1>3. ASSUME NEW d \in Dispute, NEW outcome \in Outcome, ResolveDispute(d, outcome) PROVE IInv'
  BY <1>3, ResolveDisputeStep
<1>4. ASSUME NEW pickup \in BOOLEAN, RecordHandover(pickup) PROVE IInv'
  BY <1>4, RecordHandoverStep
<1>5. ASSUME NEW k \in Carrier, EngageCarrier(k) PROVE IInv'
  BY <1>5, EngageCarrierStep
<1>6. CASE LockEnds \/ WindowEnds \/ UNCHANGED vars
  BY <1>6, LockEndsStep, WindowEndsStep, UnchangedStep
<1>. QED BY <1>1, <1>2, <1>3, <1>4, <1>5, <1>6 DEF Next

\* A step that sets no allocation on its way to a payout keeps what is on hold.
LEMMA HoldHarmless ==
    ASSUME NEW b,
           \/ alloc'[b] = alloc[b]
           \/ alloc'[b] \in {"ON_HOLD_DISPUTE", "REFUNDED", "CANCELLED", "NONE"}
           \/ b \in arbitrated'
    PROVE  HoldKept(b)
  BY DEF HoldKept, OnItsWay, Releasable

LEMMA RequestHold ==
    ASSUME IInv, NEW r \in Req, Request(r), NEW b \in Beneficiary
    PROVE  HoldKept(b)
<1>0. /\ alloc \in [Beneficiary -> SettlementStatus] /\ Seller \in Beneficiary
      /\ AllocsOK /\ RequestOK
  BY Parts, SeparateSeller DEF AllocsOK
<1>1. CASE Start(r) \/ Fail(r) \/ RejectCode(r) \/ LoadDelivery(r) \/ GoOnToAccept(r)
          \/ LoadPayment(r)
  <2>1. alloc' = alloc
    BY <1>1 DEF Start, Fail, RejectCode, LoadDelivery, GoOnToAccept, LoadPayment, allocVars
  <2>. QED BY <2>1, HoldHarmless
<1>2. CASE VerifyDelivery(r)
  <2>1. stage[r] = "loaded" /\ alloc' = AllocsDelivered(snap[r].alloc)
    BY <1>2 DEF VerifyDelivery, SetAllocs
  <2>2. stage'[r] # "loaded"
    <3>1. stage' = [stage EXCEPT ![r] = "verified"] \/ Finish(r)
      BY <1>2 DEF VerifyDelivery
    <3>2. CASE stage' = [stage EXCEPT ![r] = "verified"]
      BY <1>0, <3>2 DEF RequestOK
    <3>3. CASE Finish(r)
      BY <1>0, <3>3, FinishFacts
    <3>. QED BY <3>1, <3>2, <3>3
  <2>3. CASE MovedByDelivery(snap[r].alloc[b])
    BY <2>1, <2>2, <2>3 DEF HoldKept, MovedByDelivery
  <2>4. CASE ~MovedByDelivery(snap[r].alloc[b])
    <3>1. alloc'[b] = alloc[b]
      BY <2>1, <2>4 DEF AllocsDelivered
    <3>. QED BY <3>1, HoldHarmless
  <2>. QED BY <2>3, <2>4
<1>3. CASE AcceptConformity(r)
  <2>1. alloc' = [alloc EXCEPT ![Seller] = IF AcceptReleases THEN "ELIGIBLE_FOR_RELEASE"
                                                          ELSE alloc[Seller]]
    BY <1>3 DEF AcceptConformity, SetAlloc, SetAllocs
  <2>2. alloc[b] = "ON_HOLD_DISPUTE" => alloc'[b] = alloc[b]
    BY <1>0, <2>1 DEF AcceptReleases
  <2>. QED BY <2>2 DEF HoldKept, OnItsWay, Releasable
<1>4. CASE ReleaseAfterWindow(r)
  <2>1. Running(r, "sweep") /\ Finish(r) /\ SetAlloc(Seller, "ELIGIBLE_FOR_RELEASE")
    BY <1>4 DEF ReleaseAfterWindow
  <2>2. stage[r] = "checked" /\ snap[r].alloc[Seller] = "AWAITING_BUYER_CONFORMITY"
    BY <2>1, Parts DEF ReqInv, Running
  <2>3. stage'[r] = "idle"
    BY <1>0, <2>1, FinishFacts
  <2>4. b # Seller => alloc'[b] = alloc[b]
    BY <1>0, <2>1 DEF SetAlloc, SetAllocs
  <2>5. CASE b = Seller
    BY <2>2, <2>3, <2>5 DEF HoldKept
  <2>. QED BY <2>4, <2>5, HoldHarmless
<1>5. CASE ApprovePayout(r)
  <2>1. Running(r, "payout") /\ Finish(r) /\ SetAlloc(call[r].of, "RELEASED_TO_WALLET")
    BY <1>5 DEF ApprovePayout
  <2>2. stage[r] = "checked" /\ snap[r].alloc[call[r].of] = "ELIGIBLE_FOR_RELEASE"
    BY <2>1, Parts DEF ReqInv, Running
  <2>3. stage'[r] = "idle"
    BY <1>0, <2>1, FinishFacts
  <2>4. b # call[r].of => alloc'[b] = alloc[b]
    BY <1>0, <2>1 DEF SetAlloc, SetAllocs
  <2>5. CASE b = call[r].of
    BY <2>2, <2>3, <2>5 DEF HoldKept
  <2>. QED BY <2>4, <2>5, HoldHarmless
<1>6. CASE CancelByCustomer(r)
  <2>1. \/ alloc' = [x \in Beneficiary |-> IF alloc[x] = "NONE" THEN "NONE" ELSE "CANCELLED"]
        \/ alloc' = alloc
    BY <1>6 DEF CancelByCustomer, SetAllocs, allocVars
  <2>. QED BY <2>1, HoldHarmless
<1>7. CASE CreateRequest(r)
  <2>1. \/ alloc' = [alloc EXCEPT ![Seller] = IF alloc[Seller] \in Holdable
                                                THEN "ON_HOLD_DISPUTE" ELSE alloc[Seller]]
        \/ alloc' = alloc
    BY <1>7 DEF CreateRequest, SetAlloc, SetAllocs, allocVars
  <2>2. alloc'[b] \in {alloc[b], "ON_HOLD_DISPUTE"}
    BY <1>0, <2>1
  <2>. QED BY <2>2, HoldHarmless
<1>8. CASE DecideRefund(r)
  <2>1. alloc' = [alloc EXCEPT ![Seller] = "REFUNDED"] \/ alloc' = alloc
    BY <1>8 DEF DecideRefund, SetAlloc, SetAllocs, allocVars
  <2>2. alloc'[b] \in {alloc[b], "REFUNDED"}
    BY <1>0, <2>1
  <2>. QED BY <2>2, HoldHarmless
<1>9. CASE ConfirmPayment(r)
  <2>1. /\ stage[r] = "paying" /\ Finish(r)
        /\ SetAlloc(Seller, StatusOncePaid(snap[r].alloc[Seller]))
    BY <1>9 DEF ConfirmPayment
  <2>2. stage'[r] = "idle"
    BY <1>0, <2>1, FinishFacts
  <2>3. b # Seller => alloc'[b] = alloc[b]
    BY <1>0, <2>1 DEF SetAlloc, SetAllocs
  <2>4. CASE b = Seller
    <3>1. alloc'[b] = StatusOncePaid(snap[r].alloc[b])
      BY <1>0, <2>1, <2>4 DEF SetAlloc, SetAllocs
    <3>2. snap[r].alloc[b] \in {"NONE", "ON_HOLD_DISPUTE"} => alloc'[b] \notin OnItsWay
      BY <3>1 DEF StatusOncePaid, OnItsWay, Releasable
    <3>. QED BY <2>1, <2>2, <3>2 DEF HoldKept
  <2>. QED BY <2>3, <2>4, HoldHarmless
<1>. QED BY <1>1, <1>2, <1>3, <1>4, <1>5, <1>6, <1>7, <1>8, <1>9 DEF Request

LEMMA HoldStep ==
    ASSUME IInv, [Next]_vars, NEW b \in Beneficiary
    PROVE  HoldKept(b)
<1>0. alloc \in [Beneficiary -> SettlementStatus] /\ Seller \in Beneficiary
      /\ Carrier \subseteq Beneficiary
  BY Parts, SeparateSeller DEF AllocsOK
<1>1. ASSUME NEW r \in Req, Request(r) PROVE HoldKept(b)
  BY <1>1, RequestHold
<1>2. ASSUME NEW d \in Dispute, NEW scope \in DisputeScope, OpenDispute(d, scope)
      PROVE  HoldKept(b)
  <2>1. alloc' = [x \in Beneficiary |->
            IF x \in Concerned(scope) /\ alloc[x] # "NONE" THEN "ON_HOLD_DISPUTE" ELSE alloc[x]]
    BY <1>2 DEF OpenDispute, SetAllocs
  <2>2. alloc'[b] \in {alloc[b], "ON_HOLD_DISPUTE"}
    BY <2>1
  <2>. QED BY <2>2, HoldHarmless
<1>3. ASSUME NEW d \in Dispute, NEW outcome \in Outcome, ResolveDispute(d, outcome)
      PROVE  HoldKept(b)
  <2>1. CASE outcome = "RESOLVED_REFUND_BUYER"
    <3>1. alloc' = [x \in Beneficiary |-> IF x \in OnHold THEN "REFUNDED" ELSE alloc[x]]
      BY <1>3, <2>1 DEF ResolveDispute, SetAllocs
    <3>2. alloc'[b] \in {alloc[b], "REFUNDED"}
      BY <3>1
    <3>. QED BY <3>2, HoldHarmless
  <2>2. CASE outcome \in {"RESOLVED_RELEASE_SELLER", "REJECTED"}
    <3>1. arbitrated' = arbitrated \cup OnHold
      BY <1>3, <2>2 DEF ResolveDispute
    <3>. QED BY <3>1 DEF HoldKept, OnHold
  <2>3. CASE outcome = "RESOLVED_RELEASE_COURIER"
    <3>. DEFINE rows == {k \in Carrier : alloc[k] # "NONE"}
    <3>1. /\ alloc' = [x \in Beneficiary |-> IF x \in rows THEN "ELIGIBLE_FOR_RELEASE" ELSE alloc[x]]
          /\ arbitrated' = arbitrated \cup rows
      BY <1>3, <2>3 DEF ResolveDispute, SetAllocs
    <3>. HIDE DEF rows
    <3>2. b \in arbitrated' \/ alloc'[b] = alloc[b]
      BY <3>1
    <3>. QED BY <3>2, HoldHarmless
  <2>4. CASE outcome = "RESOLVED_SPLIT"
    <3>1. alloc' = alloc
      BY <1>3, <2>4 DEF ResolveDispute, allocVars
    <3>. QED BY <3>1, HoldHarmless
  <2>. QED BY <2>1, <2>2, <2>3, <2>4 DEF Outcome
<1>4. ASSUME NEW pickup \in BOOLEAN, RecordHandover(pickup) PROVE HoldKept(b)
  <2>1. alloc' = alloc
    BY <1>4 DEF RecordHandover, allocVars
  <2>. QED BY <2>1, HoldHarmless
<1>5. ASSUME NEW k \in Carrier, EngageCarrier(k) PROVE HoldKept(b)
  <2>1. alloc[k] = "NONE" /\ alloc' = [alloc EXCEPT ![k] = "AWAITING_DELIVERY_VERIFICATION"]
    BY <1>5 DEF EngageCarrier, SetAlloc, SetAllocs
  <2>2. alloc[b] = "ON_HOLD_DISPUTE" => alloc'[b] = alloc[b]
    BY <1>0, <2>1
  <2>. QED BY <2>2 DEF HoldKept, OnItsWay, Releasable
<1>6. CASE LockEnds \/ WindowEnds \/ UNCHANGED vars
  <2>1. alloc' = alloc
    BY <1>6 DEF LockEnds, WindowEnds, vars, allocVars
  <2>. QED BY <2>1, HoldHarmless
<1>. QED BY <1>1, <1>2, <1>3, <1>4, <1>5, <1>6 DEF Next

\* IInv holds in every reachable state, for any number of requests, carriers,
\* disputes and attempts.
THEOREM Invariant == Spec => []IInv
  BY InitInv, StepInv, PTL DEF Spec

\* The variables keep their types.
THEOREM TypeCorrect == Spec => []TypeOK
<1>1. IInv => TypeOK
  BY DEF IInv
<1>. QED BY <1>1, Invariant, PTL

\* The seller's money is payable, or paid out, only after a verified delivery or an
\* arbitration (finalizeVerifiedDelivery, resolveDisputeByAdmin).
THEOREM SellerReleases == Spec => []SellerReleaseEarned
<1>1. IInv => SellerReleaseEarned
  BY SeparateSeller DEF IInv, MoneyInv, SellerReleaseEarned, Earned
<1>. QED BY <1>1, Invariant, PTL

\* A carrier is credited at most once for each verification of the delivery, and
\* payable only when he has been credited or an arbitration has released him.
THEOREM CarrierPayments == Spec => []CarrierPaidForDelivery
<1>1. IInv => CarrierPaidForDelivery
  BY SeparateSeller DEF IInv, MoneyInv, CarrierPaidForDelivery, Earned
<1>. QED BY <1>1, Invariant, PTL

\* The verification of a delivery leaves no carrier's allocation waiting, unless the
\* carrier was engaged while it was under way.
THEOREM CarriersServed == Spec => []NoCarrierForgotten
<1>1. IInv => NoCarrierForgotten
  BY DEF IInv, MoneyInv
<1>. QED BY <1>1, Invariant, PTL

\* The verification of a delivery pays every carrier, and nothing else pays one.
THEOREM CarriersSettled == Spec => []CarriersPaid
<1>1. CarrierPaidForDelivery /\ NoCarrierForgotten => CarriersPaid
  BY DEF CarriersPaid
<1>. QED BY <1>1, CarrierPayments, CarriersServed, PTL

\* adminApproveSettlementPayout pays an allocation out at most once each time it
\* becomes eligible, unless two approvals of it overlap.
THEOREM Payouts == Spec => []PayoutPerRelease
<1>1. IInv => PayoutPerRelease
  <2>. SUFFICES ASSUME IInv, NEW b \in Beneficiary, PayoutCall(b) \notin twice
                PROVE  payouts[b] <= freed[b]
    BY DEF PayoutPerRelease
  <2>1. payouts[b] + (IF alloc[b] = "ELIGIBLE_FOR_RELEASE" \/ Asked(PayoutCall(b))
                        THEN 1 ELSE 0) <= freed[b]
    BY DEF IInv, PayoutInv
  <2>2. payouts[b] \in Nat /\ freed[b] \in Nat
    BY Parts DEF AllocsOK, HistoryOK
  <2>. QED BY <2>1, <2>2
<1>. QED BY <1>1, Invariant, PTL

\* verifyDeliveryByBuyerCode accepts the buyer's code once, unless two checks of it
\* overlap.
THEOREM CodeOnce == Spec => []CodeServesOnce
<1>1. IInv => CodeServesOnce
  <2>. SUFFICES ASSUME IInv, RightCode \notin twice PROVE byCode <= 1
    BY DEF CodeServesOnce
  <2>. QED BY Parts DEF IInv, CodeInv, HistoryOK
<1>. QED BY <1>1, Invariant, PTL

\* The lockout of verifyDeliveryByBuyerCode bounds the wrong codes answered, unless
\* two of them overlap.
THEOREM TriesLimited == Spec => []TriesBounded
<1>1. IInv => TriesBounded
  <2>. SUFFICES ASSUME IInv, WrongCode \notin twice PROVE guesses <= MaxTries + unlocks
    BY DEF TriesBounded
  <2>. QED BY Parts, SettlementAssumption DEF IInv, TriesInv, CodeOK
<1>. QED BY <1>1, Invariant, PTL

\* The buyer's code serves once and takes few guesses, checks at the same time apart.
THEOREM CodeSafe == Spec => []CodeHolds
<1>1. CodeServesOnce /\ TriesBounded => CodeHolds
  BY DEF CodeHolds
<1>. QED BY <1>1, CodeOnce, TriesLimited, PTL

\* A refunded allocation has been debited from the seller's balance.
THEOREM RefundsDebited == Spec => []RefundTakesMoney
<1>1. IInv => RefundTakesMoney
  BY DEF IInv, MoneyInv
<1>. QED BY <1>1, Invariant, PTL

\* No acceptance, verification, sweep, payout or payment that has seen a hold moves
\* what is on hold; only an arbitration does, or a request that had read the
\* allocation before it was put on hold.
THEOREM HoldsKept == Spec => HoldRespected
<1>1. IInv /\ [Next]_vars => [KeepsHolds]_vars
  BY HoldStep DEF KeepsHolds
<1>. QED BY <1>1, Invariant, PTL DEF Spec, HoldRespected

=============================================================================
