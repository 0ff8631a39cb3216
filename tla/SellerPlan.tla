------------------------------ MODULE SellerPlan ------------------------------
(***************************************************************************)
(* One seller's plan: the shops he opens within its limit, the invoices of *)
(* a plan and their settlement, the plans activated without an invoice,    *)
(* and the admin's changes to a shop's subscription.                       *)
(*                                                                         *)
(* The plan is kept twice, in each Boutique.plan and in each shop's         *)
(* Subscription row.  Every handler reads the shops or the row first, and  *)
(* its transaction follows: between the two, a member of Req, a slot for   *)
(* one request, waits.  TRIAL is written by no code, and the admin's plans *)
(* are all active ones.                                                    *)
(***************************************************************************)
EXTENDS Integers, FiniteSets

CONSTANTS
    Req,            \* slots for concurrent requests
    Shop,           \* Boutique rows of the seller
    Bill,           \* PayDunya's invoices of a subscription
    None,           \* null
    BusinessShops,  \* shops the business plan allows (3)
    MaxCalls        \* bound: requests in one behaviour

Plan == {"starter", "pro", "business", "enterprise"}
PaidPlan == Plan \ {"starter"}
SubStatus == {"ACTIVE", "PAST_DUE", "CANCELLED"}

Job == [op: {"none", "create", "activate", "edit"}, plan: Plan \cup {None},
        read: SUBSET Shop, shop: Shop \cup {None}, status: SubStatus \cup {None}]
NoJob == [op |-> "none", plan |-> None, read |-> {}, shop |-> None, status |-> None]

ASSUME PlanAssumption ==
    /\ None \notin Shop \cup Plan \cup SubStatus
    /\ IsFiniteSet(Shop)
    /\ BusinessShops \in Nat \ {0}
    /\ MaxCalls \in Nat

VARIABLES
    plan,       \* Boutique.plan of each shop, None before it is opened
    subPlan,    \* the plan of its Subscription row, None without a row
    subStatus,  \* Subscription.status, None without a row
    billed,     \* the plan of each invoice, None before it is made
    paid,       \* the invoices PayDunya says are completed
    job,        \* what each request does, and has read
    calls,
    held,       \* history: plans a shop of the seller has had
    granted,    \* history: plans given by an admin, or activated without an invoice
    crowded,    \* history: two creations were under way at the same time
    apart,      \* history: shops whose plan was set apart from the others'
    missed,     \* history: shops an activation has given a plan, but no row
    overtaken   \* history: requests under way when a plan or a row was written

shopVars == <<plan, subPlan, subStatus>>
billVars == <<billed, paid>>
historyVars == <<held, granted, crowded, apart, missed, overtaken>>
vars == <<shopVars, billVars, job, calls, historyVars>>

Shops == {s \in Shop : plan[s] # None}

Idle(r) == job[r].op = "none"

Begin(r, j) ==
    /\ Idle(r)
    /\ calls < MaxCalls
    /\ calls' = calls + 1
    /\ job' = [job EXCEPT ![r] = j]

Finish(r) == job' = [job EXCEPT ![r] = NoJob]

\* The requests that go on with what they have read before this one wrote.
Overtakes(r) == overtaken' = {q \in Req \ {r} : ~Idle(q)}

Fail(r) ==
    /\ ~Idle(r)
    /\ Finish(r)
    /\ overtaken' = overtaken \ {r}
    /\ UNCHANGED <<shopVars, billVars, calls, held, granted, crowded, apart, missed>>

-----------------------------------------------------------------------------
(* Opening a shop *)

\* The plan a new shop gets; pro counts for starter.
BestPlan ==
    IF \E s \in Shop : plan[s] = "enterprise" THEN "enterprise"
    ELSE IF \E s \in Shop : plan[s] = "business" THEN "business" ELSE "starter"

\* Variant: the limit is checked after the new shop.
WithinLimit(p, n) == p = "enterprise" \/ n <= (IF p = "business" THEN BusinessShops ELSE 1)

\* The plan allows one more shop than these.
RoomFor(p, n) ==
    \/ p = "enterprise"
    \/ p = "business" /\ n < BusinessShops
    \/ p = "starter" /\ n < 1

StartCreate(r) ==
    /\ RoomFor(BestPlan, Cardinality(Shops))
    /\ Begin(r, [NoJob EXCEPT !.op = "create", !.plan = BestPlan])
    /\ crowded' = (crowded \/ \E q \in Req : job[q].op = "create")
    /\ UNCHANGED <<shopVars, billVars, held, granted, apart, missed, overtaken>>

InsertShop(r) ==
    /\ job[r].op = "create"
    /\ \E s \in Shop :
         /\ plan[s] = None
         /\ plan' = [plan EXCEPT ![s] = job[r].plan]
         /\ apart' = IF r \in overtaken \/ apart # {} THEN apart \cup {s} ELSE apart
    /\ held' = held \cup {job[r].plan}
    /\ Finish(r)
    /\ overtaken' = overtaken \ {r}
    /\ UNCHANGED <<subPlan, subStatus, billVars, calls, granted, crowded, missed>>

-----------------------------------------------------------------------------
(* Subscribing *)

\* subscribePlan makes an invoice of a plan that costs something.
Subscribe(b, p) ==
    /\ Shops # {}
    /\ billed[b] = None
    /\ billed' = [billed EXCEPT ![b] = p]
    /\ UNCHANGED <<shopVars, paid, job, calls, historyVars>>

PayBill(b) ==
    /\ billed[b] # None
    /\ paid' = paid \cup {b}
    /\ UNCHANGED <<shopVars, billed, job, calls, historyVars>>

\* Without an invoice, when the plan is free or the payment DIRECT.
StartDirect(r, p) ==
    /\ Shops # {}
    /\ Begin(r, [NoJob EXCEPT !.op = "activate", !.plan = p, !.read = Shops])
    /\ granted' = granted \cup {p}
    /\ UNCHANGED <<shopVars, billVars, held, crowded, apart, missed, overtaken>>

\* PayDunya has notified, or confirms at the seller's return, that it was paid.
Completed(b) == b \in paid

\* settleSubscriptionViaPayDunya, each time it is called.
StartSettle(r, b) ==
    /\ Completed(b)
    /\ Begin(r, [NoJob EXCEPT !.op = "activate", !.plan = billed[b], !.read = Shops])
    /\ UNCHANGED <<shopVars, billVars, historyVars>>

\* Variant: only the shops that were read get the plan.
ReadShops(r) == job[r].read

\* All of the seller's shops, those that were not read too.
PlannedShops(r) == Shops

\* The rows a free plan deletes.
RowsDeleted(r) == IF job[r].plan = "starter" THEN job[r].read ELSE {}

RowStatus == "ACTIVE"

\* The transaction of an activation: every shop gets the plan, and those that were
\* read a row of it, ACTIVE; starter has no rows.
Activate(r) ==
    /\ job[r].op = "activate"
    /\ LET p == job[r].plan
           rows == IF p = "starter" THEN {} ELSE job[r].read
           gone == RowsDeleted(r) IN
         /\ plan' = [s \in Shop |-> IF s \in PlannedShops(r) THEN p ELSE plan[s]]
         /\ subPlan' = [s \in Shop |-> IF s \in rows THEN p
                                       ELSE IF s \in gone THEN None ELSE subPlan[s]]
         /\ subStatus' = [s \in Shop |-> IF s \in rows THEN RowStatus
                                         ELSE IF s \in gone THEN None ELSE subStatus[s]]
         /\ held' = held \cup {p}
         /\ missed' = (missed \cup Shops) \ job[r].read
    /\ apart' = {}
    /\ Overtakes(r)
    /\ Finish(r)
    /\ UNCHANGED <<billVars, calls, granted, crowded>>

-----------------------------------------------------------------------------
(* updateSubscription, the admin's *)

\* Variant: the status can be set whatever it is.
AnyTransition(from, to) == TRUE

\* SUBSCRIPTION_TRANSITIONS, and the same status again.
Transition(from, to) ==
    \/ to = from
    \/ from = "ACTIVE" /\ to \in {"PAST_DUE", "CANCELLED"}
    \/ from = "PAST_DUE" /\ to \in {"ACTIVE", "CANCELLED"}

StartEdit(r, s, p, to) ==
    /\ subStatus[s] # None
    /\ to # None => Transition(subStatus[s], to)
    /\ Begin(r, [NoJob EXCEPT !.op = "edit", !.plan = p, !.shop = s, !.status = to])
    /\ UNCHANGED <<shopVars, billVars, historyVars>>

\* The shop's plan follows its row's.
WithRow(s, p) == [plan EXCEPT ![s] = p]

\* The transaction; it fails when the row is gone.
Edit(r) ==
    /\ job[r].op = "edit"
    /\ LET s == job[r].shop
           p == job[r].plan
           to == job[r].status IN
         /\ subPlan[s] # None
         /\ subStatus' = IF to = None THEN subStatus ELSE [subStatus EXCEPT ![s] = to]
         /\ IF p = None
              THEN UNCHANGED <<plan, subPlan, held, granted, apart, missed>>
              ELSE /\ plan' = WithRow(s, p)
                   /\ subPlan' = [subPlan EXCEPT ![s] = p]
                   /\ held' = held \cup {p}
                   /\ granted' = granted \cup {p}
                   /\ apart' = apart \cup {s}
                   /\ missed' = missed \ {s}
    /\ Overtakes(r)
    /\ Finish(r)
    /\ UNCHANGED <<billVars, calls, crowded>>

-----------------------------------------------------------------------------

\* The shop of the seller's registration, or none.
Init ==
    /\ plan \in {[s \in Shop |-> IF s \in first THEN "starter" ELSE None] :
                    first \in {{}} \cup {{s} : s \in Shop}}
    /\ subPlan = [s \in Shop |-> None]
    /\ subStatus = [s \in Shop |-> None]
    /\ billed = [b \in Bill |-> None]
    /\ paid = {}
    /\ job = [r \in Req |-> NoJob]
    /\ calls = 0
    /\ held = {"starter"}
    /\ granted = {}
    /\ crowded = FALSE
    /\ apart = {}
    /\ missed = {}
    /\ overtaken = {}

Request(r) ==
    \/ StartCreate(r)
    \/ InsertShop(r)
    \/ \E p \in Plan : StartDirect(r, p)
    \/ \E b \in Bill : StartSettle(r, b)
    \/ Activate(r)
    \/ \E s \in Shop, p \in Plan \cup {None}, to \in SubStatus \cup {None} :
          StartEdit(r, s, p, to)
    \/ Edit(r)
    \/ Fail(r)

Next ==
    \/ \E r \in Req : Request(r)
    \/ \E b \in Bill, p \in PaidPlan : Subscribe(b, p)
    \/ \E b \in Bill : PayBill(b)

Spec == Init /\ [][Next]_vars

-----------------------------------------------------------------------------
(* Properties *)

\* Types.
TypeOK ==
    /\ plan \in [Shop -> Plan \cup {None}]
    /\ subPlan \in [Shop -> Plan \cup {None}]
    /\ subStatus \in [Shop -> SubStatus \cup {None}]
    /\ billed \in [Bill -> PaidPlan \cup {None}]
    /\ paid \in SUBSET Bill
    /\ job \in [Req -> Job]
    /\ calls \in Nat
    /\ held \in SUBSET Plan
    /\ granted \in SUBSET Plan
    /\ crowded \in BOOLEAN
    /\ apart \in SUBSET Shop
    /\ missed \in SUBSET Shop
    /\ overtaken \in SUBSET Req

\* A seller has no more shops than the best plan he has had allows, unless he opened
\* two at the same time.
ShopLimit ==
    \/ crowded
    \/ "enterprise" \in held
    \/ "business" \in held /\ Cardinality(Shops) <= BusinessShops
    \/ Cardinality(Shops) <= 1

\* The seller's shops have one plan, unless an admin has changed one of them, or one
\* was being opened when the plan changed.
PlansAgree ==
    \A s, t \in Shops : plan[s] = plan[t] \/ s \in apart \/ t \in apart

\* A shop's subscription is of the shop's plan, unless an activation had not read the
\* shop; and the plan and the status of a row go together.
RowMatchesShop ==
    \A s \in Shop :
        /\ subPlan[s] # None => subPlan[s] = plan[s] \/ s \in missed
        /\ subPlan[s] = None <=> subStatus[s] = None

\* A shop has a plan that costs something only if the seller has paid an invoice of it,
\* or was given it.
PlanEarned ==
    \A s \in Shops : plan[s] = "starter" \/ plan[s] \in granted
                     \/ \E b \in paid : billed[b] = plan[s]

\* A cancelled subscription is brought back by an activation only, or by an admin who
\* had read it before it was cancelled.
KeepsCancelled ==
    \A s \in Shop : subStatus[s] = "CANCELLED" /\ subStatus'[s] # "CANCELLED" =>
        \E r \in Req : Activate(r) \/ (Edit(r) /\ r \in overtaken)

CancelledStays == [][KeepsCancelled]_vars

-----------------------------------------------------------------------------
(* The inductive invariant behind these properties *)

\* What is known of a request.
RequestInv(r) ==
    LET j == job[r] IN
      /\ j.op = "create" =>
            /\ j.plan \in {"starter", "business", "enterprise"}
            /\ j.plan \in held
            /\ j.plan = "starter" \/ j.plan \in granted \/ \E b \in paid : billed[b] = j.plan
            /\ crowded \/ RoomFor(j.plan, Cardinality(Shops))
            /\ Shops = {} => j.plan = "starter"
            /\ r \in overtaken \/ apart # {} \/ \A s \in Shops : plan[s] = j.plan
      /\ j.op = "activate" =>
            /\ j.plan # None
            /\ j.read \subseteq Shops
            /\ j.plan = "starter" \/ j.plan \in granted \/ \E b \in paid : billed[b] = j.plan
      /\ j.op = "edit" =>
            /\ j.shop # None
            /\ subStatus[j.shop] = "CANCELLED" =>
                  r \in overtaken \/ j.status \in {None, "CANCELLED"}

IInv ==
    /\ TypeOK
    /\ ShopLimit
    /\ PlansAgree
    /\ RowMatchesShop
    /\ PlanEarned
    /\ "starter" \in held /\ \A s \in Shops : plan[s] \in held
    /\ \A s \in Shop : subPlan[s] # None => s \in Shops
    /\ \A b \in paid : billed[b] # None
    /\ \A r \in Req : Idle(r) => r \notin overtaken
    /\ \A q, r \in Req : job[q].op = "create" /\ job[r].op = "create" => q = r \/ crowded
    /\ \A r \in Req : RequestInv(r)
=============================================================================
