------------------------ MODULE MC_DeliverySettlement ------------------------
(* Small instances of DeliverySettlement for TLC.                            *)
EXTENDS DeliverySettlement, TLC

PlainCalls(ops) == [op: ops]
GuestCalls(accept) == [op: {"guest"}, accept: accept]
DecideCalls == [op: {"decideRefund"}, approve: BOOLEAN]

\* Every way to verify the delivery and to guess its code, to release, hold and
\* take back the seller's money, to pay the order and to pay out.
CallsAll ==
    {RightCode, WrongCode, PayoutCall(Seller)} \cup {PayoutCall(k) : k \in Carrier}
    \cup GuestCalls(BOOLEAN) \cup DecideCalls
    \cup PlainCalls({"acceptConformity", "sweep", "createRequest", "cancelByCustomer",
                     "confirmPayment", "settlePaidOrder"})

ReqSymmetry == Permutations(Req)
=============================================================================
