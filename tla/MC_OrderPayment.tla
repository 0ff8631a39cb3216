-------------------------- MODULE MC_OrderPayment --------------------------
(* Small instances of OrderPayment for TLC.  Order o1 belongs to account u1,  *)
(* referred by u2, and is partly paid with points; o2 was placed by a guest.  *)
EXTENDS OrderPayment, TLC

CONSTANTS o1, o2, u1, u2

MCTotal == [o \in Order |-> IF o = o1 THEN 1990000 ELSE 300000]
MCPointsUsed == [o \in Order |-> IF o = o1 THEN 100 ELSE 0]
MCQuotedNet == [o \in Order |-> IF o = o1 THEN 1800000 ELSE 250000]
MCBuyer == [o \in Order |-> IF o = o1 THEN u1 ELSE NoUser]
MCReferrer == [u \in User |-> IF u = u1 THEN u2 ELSE NoUser]

OrderCalls(ops, orders) == [op: ops, order: orders]
StatusCalls(orders, targets) == [op: {"updateStatus"}, order: orders, target: targets]
DecideCalls(orders) == [op: {"adminDecide"}, order: orders, action: {"APPROVE", "REJECT"}]
WithdrawCalls(amounts) == [op: {"requestWithdrawal"}, amount: amounts]

\* Everything that can happen to one order.
CallsOneOrder ==
    OrderCalls({"confirmPayment", "cancelByCustomer", "cancelOrder",
                "settlePaidOrder", "createRequest", "vendorReply"}, {o1})
    \cup StatusCalls({o1}, SellerTargets)
    \cup DecideCalls({o1})

\* The same, with the payment of a second order and withdrawals of the one
\* balance they share.
CallsBoth ==
    CallsOneOrder
    \cup OrderCalls({"confirmPayment"}, {o2})
    \cup WithdrawCalls({100000})

ReqSymmetry == Permutations(Req)

=============================================================================
