----------------------------- MODULE Seller_proofs -----------------------------
(* The seller's side: what he keeps in SellerPlan, his shops, their plans and   *)
(* his invoices, and what ShipmentPreparation does when he prepares an order.   *)
(* The two share nothing, and each has its own specification and invariant.     *)
EXTENDS SellerPlan, ShipmentPreparation, FiniteSetTheorems, TLAPS

-----------------------------------------------------------------------------
(* Shops *)

\* The shops opened are finitely many, so their number is a natural number.
LEMMA ShopsFinite ==
    IsFiniteSet(Shops) /\ Cardinality(Shops) \in Nat
<1>1. Shops \subseteq Shop
  BY DEF Shops
<1>. QED BY <1>1, PlanAssumption, FS_Subset, FS_CardinalityType

\* Fewer than one shop is no shop.
LEMMA NoShops ==
    ASSUME Cardinality(Shops) < 1
    PROVE  Shops = {}
<1>1. Cardinality(Shops) = 0
  BY ShopsFinite
<1>. QED BY <1>1, ShopsFinite, FS_EmptySet

\* A shop that is opened makes the shops one more.
LEMMA OneMoreShop ==
    ASSUME NEW s \in Shop, plan \in [Shop -> Plan \cup {None}], NEW p \in Plan,
           plan[s] = None, plan' = [plan EXCEPT ![s] = p]
    PROVE  Shops' = Shops \cup {s} /\ Cardinality(Shops') = Cardinality(Shops) + 1
<1>1. p # None
  BY PlanAssumption
<1>2. Shops' = Shops \cup {s} /\ s \notin Shops
  BY <1>1 DEF Shops
<1>. QED BY <1>2, ShopsFinite, FS_AddElement

-----------------------------------------------------------------------------
(* Requests *)

\* A free slot has a job, of no operation.
LEMMA NoJobType == NoJob \in Job /\ NoJob.op = "none"
  BY DEF NoJob, Job

\* A request that ends leaves its slot free and the other requests as they were.
LEMMA FinishFacts ==
    ASSUME TypeOK, NEW r \in Req, Finish(r)
    PROVE  /\ job' \in [Req -> Job] /\ job'[r] = NoJob
           /\ \A q \in Req : q # r => job'[q] = job[q]
  BY NoJobType DEF TypeOK, Finish

\* A request that begins takes a free slot and leaves the others as they were.
LEMMA BeginFacts ==
    ASSUME TypeOK, NEW r \in Req, NEW j \in Job, Begin(r, j)
    PROVE  /\ job' \in [Req -> Job] /\ job'[r] = j
           /\ job[r].op = "none" /\ calls' \in Nat
           /\ \A q \in Req : q # r => job'[q] = job[q]
  BY DEF TypeOK, Begin, Idle

-----------------------------------------------------------------------------
(* The invariant *)

\* What is known of the shops and the invoices.
ShopInv ==
    /\ PlansAgree
    /\ RowMatchesShop
    /\ PlanEarned
    /\ "starter" \in held /\ \A s \in Shops : plan[s] \in held
    /\ \A s \in Shop : subPlan[s] # None => s \in Shops
    /\ \A b \in paid : billed[b] # None

IdleInv == \A r \in Req : Idle(r) => r \notin overtaken

OneCreates == \A q, r \in Req : job[q].op = "create" /\ job[r].op = "create" => q = r \/ crowded

\* The parts of the invariant make the invariant, after a step.
LEMMA InvJoin ==
    ASSUME TypeOK', ShopLimit', ShopInv', IdleInv', OneCreates', \A r \in Req : RequestInv(r)'
    PROVE  IInv'
  BY DEF IInv, ShopInv, IdleInv, OneCreates

\* The invariant gives its parts.
LEMMA InvSplit ==
    ASSUME IInv
    PROVE  /\ TypeOK /\ ShopLimit /\ ShopInv /\ IdleInv /\ OneCreates
           /\ \A r \in Req : RequestInv(r)
  BY DEF IInv, ShopInv, IdleInv, OneCreates

\* A plan that was earned stays earned.
Earned(p) == p = "starter" \/ p \in granted \/ \E b \in paid : billed[b] = p

\* What is granted or paid stays so, and a plan earned by it stays earned.
LEMMA EarnedKept ==
    ASSUME NEW p, Earned(p), granted \subseteq granted', paid \subseteq paid',
           \A b \in paid : billed'[b] = billed[b]
    PROVE  Earned(p)'
  BY DEF Earned

\* What a request knows stays true: the shops have not been written under it, or it has
\* been overtaken.
LEMMA OthersKept ==
    ASSUME NEW r \in Req, RequestInv(r), job'[r] = job[r], Shops' = Shops,
           held \subseteq held', granted \subseteq granted', paid \subseteq paid',
           \A b \in paid : billed'[b] = billed[b], crowded => crowded',
           \/ r \in overtaken'
           \/ UNCHANGED <<plan, subStatus, apart>> /\ r \notin overtaken
    PROVE  RequestInv(r)'
<1>. DEFINE j == job[r]
<1>1. Earned(j.plan) => Earned(j.plan)'
  BY EarnedKept
<1>2. j.op = "create" =>
         /\ j.plan \in {"starter", "business", "enterprise"}
         /\ j.plan \in held'
         /\ Earned(j.plan)'
         /\ crowded' \/ RoomFor(j.plan, Cardinality(Shops'))
         /\ Shops' = {} => j.plan = "starter"
         /\ r \in overtaken' \/ apart' # {} \/ \A s \in Shops' : plan'[s] = j.plan
  BY <1>1 DEF RequestInv, Earned
<1>3. j.op = "activate" => j.plan # None /\ j.read \subseteq Shops' /\ Earned(j.plan)'
  BY <1>1 DEF RequestInv, Earned
<1>4. j.op = "edit" =>
         /\ j.shop # None
         /\ subStatus'[j.shop] = "CANCELLED" => r \in overtaken' \/ j.status \in {None, "CANCELLED"}
  BY DEF RequestInv
<1>. QED BY <1>2, <1>3, <1>4 DEF RequestInv, Earned, RoomFor

\* The seller starts with no shop or one, and nothing under way.
LEMMA Initially == Init => IInv
<1>. SUFFICES ASSUME Init PROVE IInv
  OBVIOUS
<1>1. NoJob \in Job /\ NoJob.op = "none"
  BY NoJobType
<1>2. PICK first \in {{}} \cup {{s} : s \in Shop} :
         plan = [s \in Shop |-> IF s \in first THEN "starter" ELSE None]
  BY DEF Init
<1>3. "starter" \in Plan /\ "starter" # None
  BY PlanAssumption DEF Plan
<1>4. Shops = first /\ \A s \in Shops : plan[s] = "starter"
  BY <1>2, <1>3 DEF Shops
<1>5. TypeOK
  <2>1. crowded \in BOOLEAN
    BY Zenon DEF Init
  <2>2. plan \in [Shop -> Plan \cup {None}]
    BY <1>2, <1>3
  <2>3. /\ subPlan \in [Shop -> Plan \cup {None}] /\ subStatus \in [Shop -> SubStatus \cup {None}]
        /\ billed \in [Bill -> PaidPlan \cup {None}] /\ job \in [Req -> Job]
    BY <1>1 DEF Init
  <2>4. /\ paid \in SUBSET Bill /\ calls \in Nat /\ held \in SUBSET Plan
        /\ granted \in SUBSET Plan /\ apart \in SUBSET Shop /\ missed \in SUBSET Shop
        /\ overtaken \in SUBSET Req
    BY <1>3 DEF Init
  <2>. QED BY <2>1, <2>2, <2>3, <2>4 DEF TypeOK
<1>6. ShopLimit
  <2>1. CASE first = {}
    BY <2>1, <1>4, FS_EmptySet DEF ShopLimit
  <2>2. CASE \E s \in Shop : first = {s}
    <3>1. PICK s \in Shop : Shops = {s}
      BY <2>2, <1>4
    <3>2. Cardinality({s}) = 1
      BY FS_Singleton
    <3>3. Cardinality(Shops) = 1
      BY <3>1, <3>2
    <3>. QED BY <3>3 DEF ShopLimit
  <2>. QED BY <1>2, <2>1, <2>2
<1>7. ShopInv
  BY <1>4 DEF Init, ShopInv, PlansAgree, RowMatchesShop, PlanEarned
<1>8. IdleInv /\ OneCreates /\ \A r \in Req : RequestInv(r)
  BY <1>1 DEF Init, IdleInv, OneCreates, RequestInv
<1>. QED BY <1>5, <1>6, <1>7, <1>8 DEF IInv, ShopInv, IdleInv, OneCreates

\* Nothing of the shops changes.
LEMMA ShopsKept ==
    ASSUME IInv, UNCHANGED <<plan, subPlan, subStatus, apart, missed>>,
           held \subseteq held', granted \subseteq granted', paid \subseteq paid',
           crowded => crowded',
           \A b \in paid : billed'[b] = billed[b],
           \A b \in paid' : billed'[b] # None
    PROVE  ShopLimit' /\ ShopInv' /\ Shops' = Shops
<1>1. ShopLimit /\ ShopInv
  BY InvSplit
<1>2. Shops' = Shops
  BY DEF Shops
<1>3. ShopLimit'
  BY <1>1, <1>2 DEF ShopLimit
<1>4. PlansAgree' /\ RowMatchesShop'
  BY <1>1, <1>2 DEF ShopInv, PlansAgree, RowMatchesShop
<1>5. PlanEarned'
  BY <1>1, <1>2 DEF ShopInv, PlanEarned
<1>. QED BY <1>1, <1>2, <1>3, <1>4, <1>5 DEF ShopInv

-----------------------------------------------------------------------------
(* Opening a shop *)

CreateOf(p) == [NoJob EXCEPT !.op = "create", !.plan = p]

\* The job of a creation is a job, and carries the plan read.
LEMMA CreateJob ==
    ASSUME NEW p \in Plan
    PROVE  CreateOf(p) \in Job /\ CreateOf(p).op = "create" /\ CreateOf(p).plan = p
  BY DEF CreateOf, NoJob, Job

\* The best plan is a plan of the seller's, and that of all his shops when they agree.
LEMMA BestPlanFacts ==
    ASSUME IInv, RoomFor(BestPlan, Cardinality(Shops))
    PROVE  /\ BestPlan \in {"starter", "business", "enterprise"} /\ BestPlan \in held
           /\ Earned(BestPlan)
           /\ Shops = {} => BestPlan = "starter"
           /\ apart # {} \/ \A s \in Shops : plan[s] = BestPlan
<1>1. ShopInv /\ TypeOK
  BY InvSplit
<1>2. "starter" \in held
  BY <1>1 DEF ShopInv
<1>3. \A s \in Shop : plan[s] = BestPlan => s \in Shops
  BY PlanAssumption DEF BestPlan, Shops, Plan
<1>4. CASE BestPlan = "starter"
  <2>1. Cardinality(Shops) < 1
    BY <1>4 DEF RoomFor
  <2>2. Shops = {}
    BY <2>1, NoShops
  <2>. QED BY <1>4, <2>2, <1>2 DEF Earned
<1>5. CASE BestPlan # "starter"
  <2>1. PICK s \in Shop : plan[s] = BestPlan
    BY <1>5 DEF BestPlan
  <2>2. s \in Shops
    BY <2>1, <1>3
  <2>3. BestPlan \in {"business", "enterprise"}
    BY <1>5 DEF BestPlan
  <2>4. Earned(BestPlan)
    BY <2>1, <2>2, <1>1 DEF Earned, ShopInv, PlanEarned
  <2>5. apart # {} \/ \A t \in Shops : plan[t] = BestPlan
    BY <2>1, <2>2, <1>1 DEF ShopInv, PlansAgree
  <2>. QED BY <2>1, <2>2, <2>3, <2>4, <2>5, <1>1 DEF ShopInv
<1>. QED BY <1>4, <1>5

\* A request that begins has read, and written no shop.
LEMMA BeginKept ==
    ASSUME IInv, NEW r \in Req, NEW j \in Job, Begin(r, j), j.op # "none",
           UNCHANGED <<plan, subPlan, subStatus, billed, paid, held, apart, missed, overtaken>>,
           granted \subseteq granted', granted' \in SUBSET Plan,
           crowded' \in BOOLEAN, crowded => crowded',
           j.op = "create" => crowded' \/ \A q \in Req : job[q].op # "create",
           RequestInv(r)'
    PROVE  IInv'
<1>1. TypeOK /\ IdleInv /\ OneCreates /\ ShopInv /\ \A q \in Req : RequestInv(q)
  BY InvSplit
<1>2. /\ job' \in [Req -> Job] /\ job'[r] = j
      /\ job[r].op = "none" /\ calls' \in Nat
      /\ \A q \in Req : q # r => job'[q] = job[q]
  BY <1>1, BeginFacts
<1>3. TypeOK'
  BY <1>1, <1>2 DEF TypeOK
<1>4. ShopLimit' /\ ShopInv' /\ Shops' = Shops
  BY <1>1, ShopsKept DEF ShopInv
<1>5. IdleInv'
  BY <1>1, <1>2 DEF IdleInv, Idle
<1>6. OneCreates'
  BY <1>1, <1>2 DEF OneCreates
<1>7. ASSUME NEW q \in Req, q # r PROVE RequestInv(q)'
  BY <1>1, <1>2, <1>4, <1>7, OthersKept
<1>. QED BY <1>3, <1>4, <1>5, <1>6, <1>7, InvJoin

\* A creation that begins has read the best plan and counted the shops.
LEMMA StartCreateStep ==
    ASSUME IInv, NEW r \in Req, StartCreate(r)
    PROVE  IInv'
<1>1. TypeOK /\ \A q \in Req : RequestInv(q)
  BY InvSplit
<1>2. PICK p \in Plan : p = BestPlan
  BY DEF BestPlan, Plan
<1>3. /\ UNCHANGED <<plan, subPlan, subStatus, billed, paid, held, granted, apart, missed,
                     overtaken>>
      /\ RoomFor(BestPlan, Cardinality(Shops))
      /\ Begin(r, CreateOf(p))
  BY <1>2 DEF StartCreate, CreateOf, shopVars, billVars
<1>4. crowded' <=> (crowded \/ \E q \in Req : job[q].op = "create")
  BY Zenon DEF StartCreate
<1>5. crowded' \in BOOLEAN
  BY Zenon DEF StartCreate
<1>6. CreateOf(p) \in Job /\ CreateOf(p).op = "create" /\ CreateOf(p).plan = p
  BY CreateJob
<1>7. job'[r] = CreateOf(p)
  BY <1>1, <1>3, <1>6, BeginFacts
<1>8. /\ p \in {"starter", "business", "enterprise"} /\ p \in held /\ Earned(p)
      /\ Shops = {} => p = "starter"
      /\ apart # {} \/ \A s \in Shops : plan[s] = p
  BY <1>2, <1>3, BestPlanFacts
<1>9. Shops' = Shops
  BY <1>3 DEF Shops
<1>10. RequestInv(r)'
  <2>1. RoomFor(p, Cardinality(Shops'))
    BY <1>2, <1>3, <1>9
  <2>2. Earned(p)'
    BY <1>3, <1>8, EarnedKept
  <2>. QED BY <2>1, <2>2, <1>3, <1>6, <1>7, <1>8, <1>9 DEF RequestInv, RoomFor, Earned
<1>. QED BY <1>1, <1>3, <1>4, <1>5, <1>6, <1>10, BeginKept DEF TypeOK

\* A creation that commits adds a shop, within the limit unless another was under way.
LEMMA InsertShopStep ==
    ASSUME IInv, NEW r \in Req, InsertShop(r)
    PROVE  IInv'
<1>1. TypeOK /\ ShopLimit /\ IdleInv /\ OneCreates /\ ShopInv /\ \A q \in Req : RequestInv(q)
  BY InvSplit
<1>2. /\ job[r] \in Job /\ job[r].op = "create"
      /\ job[r].plan \in {"starter", "business", "enterprise"} /\ job[r].plan \in held
      /\ Earned(job[r].plan)
      /\ crowded \/ RoomFor(job[r].plan, Cardinality(Shops))
      /\ Shops = {} => job[r].plan = "starter"
      /\ r \in overtaken \/ apart # {} \/ \A s \in Shops : plan[s] = job[r].plan
  BY <1>1 DEF InsertShop, TypeOK, RequestInv, Earned
<1>3. PICK p \in Plan : p = job[r].plan
  BY <1>2 DEF Plan
<1>4. PICK s \in Shop :
         /\ plan[s] = None /\ plan' = [plan EXCEPT ![s] = p]
         /\ apart' = IF r \in overtaken \/ apart # {} THEN apart \cup {s} ELSE apart
  BY <1>3 DEF InsertShop
<1>5. /\ UNCHANGED <<subPlan, subStatus, billed, paid, calls, granted, crowded, missed>>
      /\ held' = held \cup {p} /\ Finish(r) /\ overtaken' = overtaken \ {r}
  BY <1>3 DEF InsertShop, billVars
<1>6. /\ job' \in [Req -> Job] /\ job'[r] = NoJob /\ NoJob.op = "none"
      /\ \A q \in Req : q # r => job'[q] = job[q]
  BY <1>1, <1>5, FinishFacts, NoJobType
<1>7. Shops' = Shops \cup {s} /\ Cardinality(Shops') = Cardinality(Shops) + 1
  BY <1>1, <1>4, OneMoreShop DEF TypeOK
<1>8. /\ plan' \in [Shop -> Plan \cup {None}] /\ plan'[s] = p /\ s \notin Shops /\ p # None
      /\ \A t \in Shop : t # s => plan'[t] = plan[t]
  BY <1>1, <1>4, PlanAssumption DEF TypeOK, Shops
<1>9. held' = held
  BY <1>2, <1>3, <1>5
<1>10. TypeOK'
  BY <1>1, <1>4, <1>5, <1>6, <1>8 DEF TypeOK
<1>11. ShopLimit'
  <2>1. Cardinality(Shops) \in Nat
    BY ShopsFinite
  <2>. QED BY <2>1, <1>1, <1>2, <1>3, <1>5, <1>7, PlanAssumption DEF ShopLimit, RoomFor
<1>12. ShopInv'
  <2>1. PlansAgree'
    <3>1. CASE s \in apart'
      BY <3>1, <1>1, <1>4, <1>7, <1>8 DEF ShopInv, PlansAgree
    <3>2. CASE s \notin apart'
      <4>1. apart = {} /\ apart' = {} /\ \A t \in Shops : plan[t] = p
        BY <3>2, <1>2, <1>3, <1>4
      <4>. QED BY <4>1, <1>7, <1>8 DEF PlansAgree, Shops
    <3>. QED BY <3>1, <3>2
  <2>2. subPlan[s] = None
    BY <1>1, <1>8 DEF ShopInv
  <2>3. RowMatchesShop'
    BY <2>2, <1>1, <1>5, <1>8 DEF ShopInv, RowMatchesShop
  <2>4. PlanEarned'
    BY <1>1, <1>2, <1>3, <1>5, <1>7, <1>8 DEF ShopInv, PlanEarned, Earned, Shops
  <2>5. "starter" \in held' /\ \A t \in Shops' : plan'[t] \in held'
    BY <1>1, <1>2, <1>3, <1>7, <1>8, <1>9 DEF ShopInv, Shops
  <2>6. \A t \in Shop : subPlan'[t] # None => t \in Shops'
    BY <1>1, <1>5, <1>7 DEF ShopInv
  <2>7. \A b \in paid' : billed'[b] # None
    BY <1>1, <1>5 DEF ShopInv
  <2>. QED BY <2>1, <2>3, <2>4, <2>5, <2>6, <2>7 DEF ShopInv
<1>13. IdleInv' /\ OneCreates'
  BY <1>1, <1>5, <1>6 DEF IdleInv, Idle, OneCreates
<1>14. \A q \in Req : RequestInv(q)'
  <2>1. RequestInv(r)'
    BY <1>6 DEF RequestInv
  <2>2. ASSUME NEW q \in Req, q # r PROVE RequestInv(q)'
    <3>1. job'[q] = job[q] /\ RequestInv(q) /\ (q \in overtaken' <=> q \in overtaken)
      BY <1>1, <1>5, <1>6, <2>2
    <3>2. CASE job[q].op = "create"
      <4>1. crowded'
        BY <1>1, <1>2, <1>5, <2>2, <3>2 DEF OneCreates
      <4>2. q \in overtaken' \/ apart' # {} \/ \A t \in Shops' : plan'[t] = job[q].plan
        <5>. SUFFICES ASSUME q \notin overtaken', apart' = {}
                      PROVE  \A t \in Shops' : plan'[t] = job[q].plan
          OBVIOUS
        <5>1. apart = {} /\ r \notin overtaken /\ q \notin overtaken
          BY <1>4, <3>1
        <5>2. /\ \A t \in Shops : plan[t] = job[q].plan /\ plan[t] = p
              /\ Shops = {} => job[q].plan = "starter" /\ p = "starter"
          BY <5>1, <1>2, <1>3, <3>1, <3>2 DEF RequestInv
        <5>3. job[q].plan = p
          BY <5>2
        <5>. QED BY <5>2, <5>3, <1>7, <1>8 DEF Shops
      <4>3. Shops' # {}
        BY <1>7
      <4>. QED BY <3>1, <3>2, <4>1, <4>2, <4>3, <1>5, <1>9 DEF RequestInv
    <3>3. CASE job[q].op # "create"
      BY <3>1, <3>3, <1>5, <1>7 DEF RequestInv
    <3>. QED BY <3>2, <3>3
  <2>. QED BY <2>1, <2>2
<1>. QED BY <1>10, <1>11, <1>12, <1>13, <1>14, InvJoin

-----------------------------------------------------------------------------
(* Subscribing *)

\* Only the invoices change.
LEMMA BillsOnly ==
    ASSUME IInv,
           UNCHANGED <<plan, subPlan, subStatus, job, calls, held, granted, crowded, apart,
                       missed, overtaken>>,
           billed' \in [Bill -> PaidPlan \cup {None}], paid' \in SUBSET Bill,
           paid \subseteq paid', \A b \in paid : billed'[b] = billed[b],
           \A b \in paid' : billed'[b] # None
    PROVE  IInv'
<1>1. TypeOK /\ IdleInv /\ OneCreates /\ \A q \in Req : RequestInv(q)
  BY InvSplit
<1>2. TypeOK'
  BY <1>1 DEF TypeOK
<1>3. ShopLimit' /\ ShopInv' /\ Shops' = Shops
  BY ShopsKept
<1>4. IdleInv' /\ OneCreates'
  BY <1>1 DEF IdleInv, Idle, OneCreates
<1>5. ASSUME NEW q \in Req PROVE RequestInv(q)'
  <2>1. Earned(job[q].plan) => Earned(job[q].plan)'
    BY EarnedKept
  <2>. QED BY <2>1, <1>1, <1>3 DEF RequestInv, Earned, RoomFor
<1>. QED BY <1>2, <1>3, <1>4, <1>5, InvJoin

\* A new invoice touches no shop.
LEMMA SubscribeStep ==
    ASSUME IInv, NEW b \in Bill, NEW p \in PaidPlan, Subscribe(b, p)
    PROVE  IInv'
<1>1. TypeOK /\ ShopInv
  BY InvSplit
<1>2. /\ UNCHANGED <<plan, subPlan, subStatus, job, calls, held, granted, crowded, apart,
                     missed, overtaken, paid>>
      /\ billed[b] = None /\ billed' = [billed EXCEPT ![b] = p]
  BY DEF Subscribe, shopVars, historyVars
<1>3. /\ billed' \in [Bill -> PaidPlan \cup {None}]
      /\ \A c \in Bill : c # b => billed'[c] = billed[c]
  BY <1>1, <1>2 DEF TypeOK
<1>4. b \notin paid /\ paid \subseteq Bill
  BY <1>1, <1>2 DEF ShopInv, TypeOK
<1>5. (\A c \in paid : billed'[c] = billed[c]) /\ \A c \in paid' : billed'[c] # None
  BY <1>1, <1>2, <1>3, <1>4 DEF ShopInv
<1>. QED BY <1>2, <1>3, <1>4, <1>5, BillsOnly

\* A payment at PayDunya touches no shop, and what was paid stays paid.
LEMMA PayBillStep ==
    ASSUME IInv, NEW b \in Bill, PayBill(b)
    PROVE  IInv'
<1>1. TypeOK /\ ShopInv
  BY InvSplit
<1>2. /\ UNCHANGED <<plan, subPlan, subStatus, job, calls, held, granted, crowded, apart,
                     missed, overtaken, billed>>
      /\ billed[b] # None /\ paid' = paid \cup {b}
  BY DEF PayBill, shopVars, historyVars
<1>3. (\A c \in paid' : billed'[c] # None) /\ paid' \in SUBSET Bill
  BY <1>1, <1>2 DEF ShopInv, TypeOK
<1>. QED BY <1>1, <1>2, <1>3, BillsOnly DEF TypeOK

ActivateOf(p, seen) == [NoJob EXCEPT !.op = "activate", !.plan = p, !.read = seen]

\* The job of an activation is a job, and carries the shops read.
LEMMA ActivateJob ==
    ASSUME NEW p \in Plan, NEW seen \in SUBSET Shop
    PROVE  /\ ActivateOf(p, seen) \in Job /\ ActivateOf(p, seen).op = "activate"
           /\ ActivateOf(p, seen).plan = p /\ ActivateOf(p, seen).read = seen
  BY DEF ActivateOf, NoJob, Job

\* An activation that begins has read the shops; its plan is earned.
LEMMA ActivationBegins ==
    ASSUME IInv, NEW r \in Req, NEW p \in Plan, Begin(r, ActivateOf(p, Shops)),
           UNCHANGED <<plan, subPlan, subStatus, billed, paid, held, apart, missed, overtaken,
                       crowded>>,
           granted \subseteq granted', granted' \in SUBSET Plan,
           p = "starter" \/ p \in granted' \/ \E b \in paid : billed[b] = p
    PROVE  IInv'
<1>1. TypeOK
  BY InvSplit
<1>2. PICK seen \in SUBSET Shop : seen = Shops
  BY DEF Shops
<1>3. PICK j \in Job :
         j = ActivateOf(p, seen) /\ j.op = "activate" /\ j.plan = p /\ j.read = seen
  BY ActivateJob
<1>4. Begin(r, j)
  BY <1>2, <1>3
<1>5. job'[r] = j
  BY <1>1, <1>4, BeginFacts
<1>6. Shops' = Shops
  BY DEF Shops
<1>7. RequestInv(r)'
  BY <1>2, <1>3, <1>5, <1>6, PlanAssumption DEF RequestInv
<1>. QED BY <1>1, <1>3, <1>4, <1>7, BeginKept DEF TypeOK

\* An activation without an invoice begins with a plan granted.
LEMMA StartDirectStep ==
    ASSUME IInv, NEW r \in Req, NEW p \in Plan, StartDirect(r, p)
    PROVE  IInv'
<1>1. TypeOK
  BY InvSplit
<1>2. /\ UNCHANGED <<plan, subPlan, subStatus, billed, paid, held, apart, missed, overtaken,
                     crowded>>
      /\ granted' = granted \cup {p} /\ Begin(r, ActivateOf(p, Shops))
  BY DEF StartDirect, ActivateOf, shopVars, billVars
<1>. QED BY <1>1, <1>2, ActivationBegins DEF TypeOK

\* A settlement begins with the plan of an invoice paid.
LEMMA StartSettleStep ==
    ASSUME IInv, NEW r \in Req, NEW b \in Bill, StartSettle(r, b)
    PROVE  IInv'
<1>1. TypeOK /\ ShopInv
  BY InvSplit
<1>2. /\ UNCHANGED <<plan, subPlan, subStatus, billed, paid, held, apart, missed, overtaken,
                     crowded, granted>>
      /\ b \in paid /\ Begin(r, ActivateOf(billed[b], Shops))
  BY DEF StartSettle, Completed, ActivateOf, shopVars, billVars, historyVars
<1>3. PICK p \in Plan : p = billed[b]
  BY <1>1, <1>2 DEF ShopInv, TypeOK, PaidPlan
<1>. QED BY <1>1, <1>2, <1>3, ActivationBegins DEF TypeOK

\* An activation that commits gives its plan to the shops it has read.
LEMMA ActivateStep ==
    ASSUME IInv, NEW r \in Req, Activate(r)
    PROVE  IInv'
<1>1. TypeOK /\ ShopLimit /\ IdleInv /\ OneCreates /\ ShopInv /\ \A q \in Req : RequestInv(q)
  BY InvSplit
<1>2. /\ job[r] \in Job /\ job[r].op = "activate" /\ job[r].plan # None
      /\ job[r].read \subseteq Shops /\ Earned(job[r].plan)
  BY <1>1 DEF Activate, TypeOK, RequestInv, Earned
<1>3. PICK p \in Plan : p = job[r].plan
  BY <1>2 DEF Job
<1>4. PICK seen \in SUBSET Shop : seen = job[r].read
  BY <1>2 DEF Job
<1>5. PICK rows \in SUBSET seen : rows = IF p = "starter" THEN {} ELSE seen
  OBVIOUS
<1>6. PICK gone \in SUBSET seen : gone = IF p = "starter" THEN seen ELSE {}
  OBVIOUS
<1>7. /\ plan' = [s \in Shop |-> IF s \in Shops THEN p ELSE plan[s]]
      /\ subPlan' = [s \in Shop |-> IF s \in rows THEN p
                                    ELSE IF s \in gone THEN None ELSE subPlan[s]]
      /\ subStatus' = [s \in Shop |-> IF s \in rows THEN "ACTIVE"
                                      ELSE IF s \in gone THEN None ELSE subStatus[s]]
      /\ held' = held \cup {p}
      /\ missed' = (missed \cup Shops) \ seen
      /\ apart' = {}
      /\ overtaken' = {q \in Req \ {r} : ~Idle(q)}
      /\ Finish(r)
      /\ UNCHANGED <<billed, paid, calls, granted, crowded>>
  BY <1>3, <1>4, <1>5, <1>6
     DEF Activate, PlannedShops, RowsDeleted, RowStatus, Overtakes, billVars
<1>8. /\ job' \in [Req -> Job] /\ job'[r] = NoJob /\ NoJob.op = "none"
      /\ \A q \in Req : q # r => job'[q] = job[q]
  BY <1>1, <1>7, FinishFacts, NoJobType
<1>9. p # None /\ seen \subseteq Shops /\ Earned(p)
  BY <1>2, <1>3, <1>4
<1>10. Shops' = Shops
  BY <1>7, <1>9 DEF Shops
<1>11. TypeOK'
  <2>1. plan' \in [Shop -> Plan \cup {None}] /\ subPlan' \in [Shop -> Plan \cup {None}]
    BY <1>1, <1>7 DEF TypeOK
  <2>2. subStatus' \in [Shop -> SubStatus \cup {None}]
    BY <1>1, <1>7 DEF TypeOK, SubStatus
  <2>3. missed' \in SUBSET Shop
    BY <1>1, <1>7 DEF TypeOK, Shops
  <2>. QED BY <2>1, <2>2, <2>3, <1>1, <1>7, <1>8 DEF TypeOK
<1>12. ShopLimit'
  BY <1>1, <1>7, <1>10 DEF ShopLimit
<1>13. ShopInv'
  <2>1. \A s \in Shops : plan'[s] = p
    BY <1>7 DEF Shops
  <2>2. PlansAgree' /\ "starter" \in held' /\ \A s \in Shops' : plan'[s] \in held'
    BY <2>1, <1>1, <1>7, <1>10 DEF PlansAgree, ShopInv
  <2>3. RowMatchesShop'
    <3>. SUFFICES ASSUME NEW s \in Shop
                  PROVE  /\ subPlan'[s] # None => subPlan'[s] = plan'[s] \/ s \in missed'
                         /\ subPlan'[s] = None <=> subStatus'[s] = None
      BY DEF RowMatchesShop
    <3>1. subPlan'[s] = None <=> subStatus'[s] = None
      BY <1>1, <1>7, <1>9, PlanAssumption DEF ShopInv, RowMatchesShop, SubStatus
    <3>2. CASE s \in seen
      BY <3>1, <3>2, <1>5, <1>6, <1>7, <1>9, <2>1
    <3>3. CASE s \notin seen
      <4>1. subPlan'[s] = subPlan[s]
        BY <3>3, <1>7
      <4>2. subPlan[s] # None => s \in missed'
        BY <3>3, <1>1, <1>7 DEF ShopInv
      <4>. QED BY <3>1, <4>1, <4>2
    <3>. QED BY <3>2, <3>3
  <2>4. PlanEarned'
    BY <2>1, <1>7, <1>9, <1>10 DEF PlanEarned, Earned
  <2>5. \A s \in Shop : subPlan'[s] # None => s \in Shops'
    BY <1>1, <1>7, <1>9, <1>10 DEF ShopInv
  <2>. QED BY <2>2, <2>3, <2>4, <2>5, <1>1, <1>7 DEF ShopInv
<1>14. IdleInv' /\ OneCreates'
  BY <1>1, <1>7, <1>8 DEF IdleInv, Idle, OneCreates
<1>15. \A q \in Req : RequestInv(q)'
  <2>1. RequestInv(r)'
    BY <1>8 DEF RequestInv
  <2>2. ASSUME NEW q \in Req, q # r PROVE RequestInv(q)'
    <3>1. CASE job[q].op = "none"
      BY <3>1, <1>8, <2>2 DEF RequestInv
    <3>2. CASE job[q].op # "none"
      <4>1. q \in overtaken'
        BY <3>2, <2>2, <1>7 DEF Idle
      <4>. QED BY <4>1, <1>1, <1>7, <1>8, <1>10, <2>2, OthersKept
    <3>. QED BY <3>1, <3>2
  <2>. QED BY <2>1, <2>2
<1>. QED BY <1>11, <1>12, <1>13, <1>14, <1>15, InvJoin

-----------------------------------------------------------------------------
(* The admin *)

EditOf(s, p, to) == [NoJob EXCEPT !.op = "edit", !.plan = p, !.shop = s, !.status = to]

\* The job of an admin's change is a job, and carries what it is to write.
LEMMA EditJob ==
    ASSUME NEW s \in Shop, NEW p \in Plan \cup {None}, NEW to \in SubStatus \cup {None}
    PROVE  /\ EditOf(s, p, to) \in Job /\ EditOf(s, p, to).op = "edit"
           /\ EditOf(s, p, to).shop = s /\ EditOf(s, p, to).status = to
  BY DEF EditOf, NoJob, Job

\* An admin's change that begins has checked the transition of the status it read.
LEMMA StartEditStep ==
    ASSUME IInv, NEW r \in Req, NEW s \in Shop, NEW p \in Plan \cup {None},
           NEW to \in SubStatus \cup {None}, StartEdit(r, s, p, to)
    PROVE  IInv'
<1>1. TypeOK
  BY InvSplit
<1>2. /\ UNCHANGED <<plan, subPlan, subStatus, billed, paid, held, granted, crowded, apart,
                     missed, overtaken>>
      /\ to # None => Transition(subStatus[s], to)
      /\ Begin(r, EditOf(s, p, to))
  BY DEF StartEdit, EditOf, shopVars, billVars, historyVars
<1>3. /\ EditOf(s, p, to) \in Job /\ EditOf(s, p, to).op = "edit"
      /\ EditOf(s, p, to).shop = s /\ EditOf(s, p, to).status = to
  BY EditJob
<1>4. job'[r] = EditOf(s, p, to)
  BY <1>1, <1>2, <1>3, BeginFacts
<1>5. RequestInv(r)'
  BY <1>2, <1>3, <1>4, PlanAssumption DEF RequestInv, Transition
<1>. QED BY <1>1, <1>2, <1>3, <1>5, BeginKept DEF TypeOK

\* An admin's change that commits writes one shop, or its row, and sets it apart.
LEMMA EditStep ==
    ASSUME IInv, NEW r \in Req, Edit(r)
    PROVE  IInv'
<1>1. TypeOK /\ ShopLimit /\ IdleInv /\ OneCreates /\ ShopInv /\ \A q \in Req : RequestInv(q)
  BY InvSplit
<1>2. job[r] \in Job /\ job[r].op = "edit" /\ job[r].shop # None
  BY <1>1 DEF Edit, TypeOK, RequestInv
<1>3. PICK s \in Shop : s = job[r].shop
  BY <1>2 DEF Job
<1>4. PICK p \in Plan \cup {None} : p = job[r].plan
  BY <1>2 DEF Job
<1>5. PICK to \in SubStatus \cup {None} : to = job[r].status
  BY <1>2 DEF Job
<1>6. /\ subPlan[s] # None
      /\ subStatus' = IF to = None THEN subStatus ELSE [subStatus EXCEPT ![s] = to]
      /\ IF p = None
           THEN UNCHANGED <<plan, subPlan, held, granted, apart, missed>>
           ELSE /\ plan' = [plan EXCEPT ![s] = p]
                /\ subPlan' = [subPlan EXCEPT ![s] = p]
                /\ held' = held \cup {p}
                /\ granted' = granted \cup {p}
                /\ apart' = apart \cup {s}
                /\ missed' = missed \ {s}
      /\ overtaken' = {q \in Req \ {r} : ~Idle(q)}
      /\ Finish(r)
      /\ UNCHANGED <<billed, paid, calls, crowded>>
  BY <1>3, <1>4, <1>5 DEF Edit, WithRow, Overtakes, billVars
<1>7. /\ job' \in [Req -> Job] /\ job'[r] = NoJob /\ NoJob.op = "none"
      /\ \A q \in Req : q # r => job'[q] = job[q]
  BY <1>1, <1>6, FinishFacts, NoJobType
<1>8. s \in Shops /\ plan[s] # None
  BY <1>1, <1>6 DEF ShopInv, Shops
<1>9. /\ subStatus' \in [Shop -> SubStatus \cup {None}]
      /\ \A t \in Shop : t # s => subStatus'[t] = subStatus[t]
      /\ subStatus'[s] = None <=> subStatus[s] = None
  <2>1. subStatus[s] # None
    BY <1>1, <1>6 DEF ShopInv, RowMatchesShop
  <2>. QED BY <2>1, <1>1, <1>6 DEF TypeOK
<1>10. /\ plan' \in [Shop -> Plan \cup {None}] /\ subPlan' \in [Shop -> Plan \cup {None}]
       /\ \A t \in Shop : t # s => plan'[t] = plan[t] /\ subPlan'[t] = subPlan[t]
       /\ IF p = None THEN plan'[s] = plan[s] /\ subPlan'[s] = subPlan[s]
                      ELSE plan'[s] = p /\ subPlan'[s] = p
  BY <1>1, <1>6 DEF TypeOK
<1>11. Shops' = Shops
  <2>1. plan'[s] # None
    BY <1>8, <1>10
  <2>2. \A t \in Shop : plan'[t] = None <=> plan[t] = None
    BY <2>1, <1>8, <1>10
  <2>. QED BY <2>2 DEF Shops
<1>12. /\ held \subseteq held' /\ granted \subseteq granted' /\ apart \subseteq apart'
       /\ held' \in SUBSET Plan /\ granted' \in SUBSET Plan /\ apart' \in SUBSET Shop
       /\ missed' \in SUBSET Shop
  BY <1>1, <1>6 DEF TypeOK
<1>13. TypeOK'
  BY <1>1, <1>6, <1>7, <1>9, <1>10, <1>12 DEF TypeOK
<1>14. ShopLimit'
  BY <1>1, <1>6, <1>11, <1>12 DEF ShopLimit
<1>15. ShopInv'
  <2>1. CASE p = None
    <3>1. UNCHANGED <<plan, subPlan, held, granted, apart, missed>>
      BY <2>1, <1>6
    <3>2. PlansAgree' /\ PlanEarned'
      BY <3>1, <1>1, <1>6, <1>11 DEF ShopInv, PlansAgree, PlanEarned
    <3>3. RowMatchesShop'
      BY <3>1, <1>1, <1>9 DEF ShopInv, RowMatchesShop
    <3>. QED BY <3>1, <3>2, <3>3, <1>1, <1>6, <1>11 DEF ShopInv
  <2>2. CASE p # None
    <3>1. /\ held' = held \cup {p} /\ granted' = granted \cup {p}
          /\ apart' = apart \cup {s} /\ missed' = missed \ {s}
          /\ plan'[s] = p /\ subPlan'[s] = p
      BY <2>2, <1>6, <1>10
    <3>2. PlansAgree'
      BY <3>1, <1>1, <1>10, <1>11 DEF ShopInv, PlansAgree, Shops
    <3>3. PlanEarned'
      BY <3>1, <1>1, <1>6, <1>10, <1>11 DEF ShopInv, PlanEarned, Shops
    <3>4. RowMatchesShop'
      BY <2>2, <3>1, <1>1, <1>6, <1>9, <1>10 DEF ShopInv, RowMatchesShop
    <3>5. "starter" \in held' /\ \A t \in Shops' : plan'[t] \in held'
      BY <3>1, <1>1, <1>10, <1>11 DEF ShopInv, Shops
    <3>6. \A t \in Shop : subPlan'[t] # None => t \in Shops'
      BY <1>1, <1>8, <1>10, <1>11 DEF ShopInv
    <3>. QED BY <3>2, <3>3, <3>4, <3>5, <3>6, <1>1, <1>6 DEF ShopInv
  <2>. QED BY <2>1, <2>2
<1>16. IdleInv' /\ OneCreates'
  BY <1>1, <1>6, <1>7 DEF IdleInv, Idle, OneCreates
<1>17. \A q \in Req : RequestInv(q)'
  <2>1. RequestInv(r)'
    BY <1>7 DEF RequestInv
  <2>2. ASSUME NEW q \in Req, q # r PROVE RequestInv(q)'
    <3>1. CASE job[q].op = "none"
      BY <3>1, <1>7, <2>2 DEF RequestInv
    <3>2. CASE job[q].op # "none"
      <4>1. q \in overtaken'
        BY <3>2, <2>2, <1>6 DEF Idle
      <4>. QED BY <4>1, <1>1, <1>6, <1>7, <1>11, <1>12, <2>2, OthersKept
    <3>. QED BY <3>1, <3>2
  <2>. QED BY <2>1, <2>2
<1>. QED BY <1>13, <1>14, <1>15, <1>16, <1>17, InvJoin

\* A request that fails has written nothing.
LEMMA FailStep ==
    ASSUME IInv, NEW r \in Req, Fail(r)
    PROVE  IInv'
<1>1. TypeOK /\ IdleInv /\ OneCreates /\ ShopInv /\ \A q \in Req : RequestInv(q)
  BY InvSplit
<1>2. /\ UNCHANGED <<plan, subPlan, subStatus, billed, paid, calls, held, granted, crowded,
                     apart, missed>>
      /\ Finish(r) /\ overtaken' = overtaken \ {r}
  BY DEF Fail, shopVars, billVars
<1>3. /\ job' \in [Req -> Job] /\ job'[r] = NoJob /\ NoJob.op = "none"
      /\ \A q \in Req : q # r => job'[q] = job[q]
  BY <1>1, <1>2, FinishFacts, NoJobType
<1>4. TypeOK'
  BY <1>1, <1>2, <1>3 DEF TypeOK
<1>5. ShopLimit' /\ ShopInv' /\ Shops' = Shops
  BY <1>1, <1>2, ShopsKept DEF ShopInv
<1>6. IdleInv' /\ OneCreates'
  BY <1>1, <1>2, <1>3 DEF IdleInv, Idle, OneCreates
<1>7. \A q \in Req : RequestInv(q)'
  <2>1. RequestInv(r)'
    BY <1>3 DEF RequestInv
  <2>2. ASSUME NEW q \in Req, q # r PROVE RequestInv(q)'
    BY <1>1, <1>2, <1>3, <1>5, <2>2, OthersKept
  <2>. QED BY <2>1, <2>2
<1>. QED BY <1>4, <1>5, <1>6, <1>7, InvJoin

\* A step that changes nothing keeps the invariant.
LEMMA StutterStep ==
    ASSUME IInv, UNCHANGED vars
    PROVE  IInv'
  BY InvSplit, BillsOnly DEF vars, shopVars, billVars, historyVars, TypeOK, ShopInv

\* Every step keeps the invariant.
LEMMA InductiveStep == IInv /\ [Next]_vars => IInv'
<1>. SUFFICES ASSUME IInv, [Next]_vars PROVE IInv'
  OBVIOUS
<1>1. ASSUME NEW r \in Req, Request(r) PROVE IInv'
  <2>1. CASE StartCreate(r) \/ InsertShop(r) \/ Activate(r) \/ Edit(r) \/ Fail(r)
    BY <2>1, StartCreateStep, InsertShopStep, ActivateStep, EditStep, FailStep
  <2>2. CASE \E p \in Plan : StartDirect(r, p)
    BY <2>2, StartDirectStep
  <2>3. CASE \E b \in Bill : StartSettle(r, b)
    BY <2>3, StartSettleStep
  <2>4. CASE \E s \in Shop, p \in Plan \cup {None}, to \in SubStatus \cup {None} :
               StartEdit(r, s, p, to)
    BY <2>4, StartEditStep
  <2>. QED BY <1>1, <2>1, <2>2, <2>3, <2>4 DEF Request
<1>. QED BY <1>1, SubscribeStep, PayBillStep, StutterStep DEF Next

\* What a request that writes a row had read of it.
LEMMA CancelledKept == IInv /\ [Next]_vars => [KeepsCancelled]_vars
<1>. SUFFICES ASSUME IInv, [Next]_vars, NEW s \in Shop,
                     subStatus[s] = "CANCELLED", subStatus'[s] # "CANCELLED"
              PROVE  \E r \in Req : Activate(r) \/ (Edit(r) /\ r \in overtaken)
  BY DEF KeepsCancelled
<1>1. TypeOK /\ \A r \in Req : RequestInv(r)
  BY InvSplit
<1>2. subStatus' # subStatus
  OBVIOUS
<1>3. PICK r \in Req : Activate(r) \/ Edit(r)
  BY <1>2 DEF Next, Request, StartCreate, InsertShop, StartDirect, StartSettle, StartEdit, Fail,
              Subscribe, PayBill, vars, shopVars, billVars, historyVars
<1>4. CASE Edit(r)
  <2>1. /\ job[r] \in Job /\ job[r].op = "edit"
        /\ subStatus' = IF job[r].status = None THEN subStatus
                                       ELSE [subStatus EXCEPT ![job[r].shop] = job[r].status]
    BY <1>1, <1>4 DEF Edit, TypeOK
  <2>2. job[r].status # None /\ job[r].shop = s /\ job[r].status # "CANCELLED"
    BY <2>1, <1>1, <1>2 DEF TypeOK
  <2>3. r \in overtaken
    BY <2>1, <2>2, <1>1 DEF RequestInv
  <2>. QED BY <2>3, <1>4
<1>. QED BY <1>3, <1>4

-----------------------------------------------------------------------------
(* Theorems *)

\* However openings, activations and the admin's edits race or die, the inductive invariant
\* of the seller's shops and their subscriptions holds.
THEOREM Invariant == Spec => []IInv
<1>1. Init => IInv
  BY Initially
<1>2. IInv /\ [Next]_vars => IInv'
  BY InductiveStep
<1>. QED BY <1>1, <1>2, PTL DEF Spec

\* Every variable keeps its type.
THEOREM TypeCorrect == Spec => []TypeOK
<1>1. IInv => TypeOK
  BY DEF IInv
<1>. QED BY <1>1, Invariant, PTL

\* create keeps the seller's shops within his best plan, unless two were opened at once.
THEOREM ShopsLimited == Spec => []ShopLimit
<1>1. IInv => ShopLimit
  BY DEF IInv
<1>. QED BY <1>1, Invariant, PTL

\* The seller's shops have one plan, unless an admin or an overtaken opening set one apart.
THEOREM PlansTogether == Spec => []PlansAgree
<1>1. IInv => PlansAgree
  BY DEF IInv
<1>. QED BY <1>1, Invariant, PTL

\* A subscription row is of its shop's plan, unless an activation had not read the shop.
THEOREM RowsMatch == Spec => []RowMatchesShop
<1>1. IInv => RowMatchesShop
  BY DEF IInv
<1>. QED BY <1>1, Invariant, PTL

\* No shop has a plan that was neither paid nor given.
THEOREM PlansEarned == Spec => []PlanEarned
<1>1. IInv => PlanEarned
  BY DEF IInv
<1>. QED BY <1>1, Invariant, PTL

\* A cancelled subscription comes back by an activation, or by an edit that had read it before.
THEOREM CancelledRemains == Spec => CancelledStays
<1>1. IInv /\ [Next]_vars => [KeepsCancelled]_vars
  BY CancelledKept
<1>. QED BY <1>1, Invariant, PTL DEF Spec, CancelledStays

-----------------------------------------------------------------------------
(* ShipmentPreparation: every step keeps PrepInv, by one lemma for each action *)
(* and under it one step for each part of the invariant.  What the properties  *)
(* except, that two requests overlapped, is carried by MetInv; CallInv says    *)
(* which of the rows written since a request's read were written by a request  *)
(* it has met.                                                                 *)

\* A preparation that begins meets everyone who runs, and finds no shipment yet.
LEMMA StartPreparationKeeps ==
    ASSUME PrepInv, NEW r \in Call, StartPreparation(r)
    PROVE  PrepInv'
<1>1. PrepTypeOK'
    BY PreparationAssumption DEF PrepInv, PrepTypeOK, StartPreparation, NothingPrepared,
       BeginCall, rowVars, Step
<1>2. OneShipment'
    BY PreparationAssumption DEF PrepInv, PrepTypeOK, OneShipment, StartPreparation,
       NothingPrepared, BeginCall, rowVars, Shipments
<1>3. OneAllocation'
    BY PreparationAssumption DEF PrepInv, PrepTypeOK, OneAllocation, StartPreparation,
       NothingPrepared, BeginCall, rowVars, Allocations, MetInv
<1>4. ReadyWhenPaid'
    BY PreparationAssumption DEF PrepInv, PrepTypeOK, ReadyWhenPaid, StartPreparation,
       NothingPrepared, BeginCall, rowVars, Shipments
<1>5. EscrowIsBilled'
    BY PreparationAssumption DEF PrepInv, PrepTypeOK, EscrowIsBilled, StartPreparation,
       NothingPrepared, BeginCall, rowVars, Allocations
<1>6. EscrowFollowsShipment'
    BY PreparationAssumption DEF PrepInv, PrepTypeOK, EscrowFollowsShipment,
       StartPreparation, NothingPrepared, BeginCall, rowVars, Shipments
<1>7. MetInv'
    BY PreparationAssumption DEF PrepInv, PrepTypeOK, MetInv, StartPreparation,
       NothingPrepared, BeginCall, rowVars, Running, Paying
<1>8. RowInv'
    BY PreparationAssumption DEF PrepInv, PrepTypeOK, RowInv, StartPreparation,
       NothingPrepared, BeginCall, rowVars, Running, Shipments, Allocations, MetInv
<1>9. \A q \in Call : CallInv(q)'
    BY PreparationAssumption DEF PrepInv, PrepTypeOK, StartPreparation, NothingPrepared,
       BeginCall, rowVars, Shipments, Allocations, CallInv
<1> QED BY <1>1, <1>2, <1>3, <1>4, <1>5, <1>6, <1>7, <1>8, <1>9 DEF PrepInv

\* A payment that begins meets no other payment: the order's row is locked.
LEMMA StartPaymentKeeps ==
    ASSUME PrepInv, NEW r \in Call, StartPayment(r)
    PROVE  PrepInv'
<1>1. PrepTypeOK'
    BY PreparationAssumption DEF PrepInv, PrepTypeOK, StartPayment, BeginCall, rowVars, Step
<1>2. OneShipment'
    BY PreparationAssumption DEF PrepInv, PrepTypeOK, OneShipment, StartPayment, BeginCall,
       rowVars, Shipments, MetInv
<1>3. OneAllocation'
    BY PreparationAssumption DEF PrepInv, PrepTypeOK, OneAllocation, StartPayment, BeginCall,
       rowVars, Allocations, MetInv
<1>4. ReadyWhenPaid'
    BY PreparationAssumption DEF PrepInv, PrepTypeOK, ReadyWhenPaid, StartPayment, BeginCall,
       rowVars
<1>5. EscrowIsBilled'
    BY PreparationAssumption DEF PrepInv, PrepTypeOK, EscrowIsBilled, StartPayment, BeginCall,
       rowVars, Allocations
<1>6. EscrowFollowsShipment'
    BY PreparationAssumption DEF PrepInv, PrepTypeOK, EscrowFollowsShipment, StartPayment,
       BeginCall, rowVars, Shipments, Allocations, MetInv
<1>7. MetInv'
    BY PreparationAssumption DEF PrepInv, PrepTypeOK, MetInv, StartPayment, BeginCall, rowVars,
       Running, Paying, Locked, RowInv
<1>8. RowInv'
    BY PreparationAssumption DEF PrepInv, PrepTypeOK, RowInv, StartPayment, BeginCall, rowVars,
       Running, Shipments, Allocations, MetInv
<1>9. \A q \in Call : CallInv(q)'
    BY PreparationAssumption DEF PrepInv, PrepTypeOK, StartPayment, BeginCall, rowVars,
       Shipments, Allocations, CallInv
<1> QED BY <1>1, <1>2, <1>3, <1>4, <1>5, <1>6, <1>7, <1>8, <1>9 DEF PrepInv

\* An order that is not PAID when it is read can be paid only by somebody met since.
LEMMA ReadOrderKeeps ==
    ASSUME PrepInv, NEW r \in Call, ReadOrder(r)
    PROVE  PrepInv'
<1>1. PrepTypeOK'
    BY PreparationAssumption DEF PrepInv, PrepTypeOK, ReadOrder, rowVars, Step
<1>2. OneShipment'
    BY PreparationAssumption DEF PrepInv, PrepTypeOK, OneShipment, ReadOrder, rowVars,
       Shipments
<1>3. OneAllocation'
    BY PreparationAssumption DEF PrepInv, PrepTypeOK, OneAllocation, ReadOrder, rowVars,
       Allocations
<1>4. ReadyWhenPaid'
    BY PreparationAssumption DEF PrepInv, PrepTypeOK, ReadyWhenPaid, ReadOrder, rowVars,
       Shipments
<1>5. EscrowIsBilled'
    BY PreparationAssumption DEF PrepInv, PrepTypeOK, EscrowIsBilled, ReadOrder, rowVars,
       Allocations
<1>6. EscrowFollowsShipment'
    BY PreparationAssumption DEF PrepInv, PrepTypeOK, EscrowFollowsShipment, ReadOrder,
       rowVars, Shipments, Allocations
<1>7. MetInv'
    BY PreparationAssumption DEF PrepInv, PrepTypeOK, MetInv, ReadOrder, rowVars, Running,
       Paying
<1>8. RowInv'
    BY PreparationAssumption DEF PrepInv, PrepTypeOK, RowInv, ReadOrder, rowVars, Running,
       Shipments, Allocations
<1>9. \A q \in Call : CallInv(q)'
    BY PreparationAssumption DEF PrepInv, PrepTypeOK, ReadOrder, rowVars, Shipments,
       Allocations, CallInv, RowInv
<1> QED BY <1>1, <1>2, <1>3, <1>4, <1>5, <1>6, <1>7, <1>8, <1>9 DEF PrepInv

\* An allocation not found is written, if at all, by somebody met.
LEMMA FindAllocationKeeps ==
    ASSUME PrepInv, NEW r \in Call, FindAllocation(r)
    PROVE  PrepInv'
<1>1. PrepTypeOK'
    BY PreparationAssumption DEF PrepInv, PrepTypeOK, FindAllocation, rowVars, Allocations,
       Step
<1>2. OneShipment'
    BY PreparationAssumption DEF PrepInv, PrepTypeOK, OneShipment, FindAllocation, rowVars,
       Shipments
<1>3. OneAllocation'
    BY PreparationAssumption DEF PrepInv, PrepTypeOK, OneAllocation, FindAllocation,
       rowVars, Allocations
<1>4. ReadyWhenPaid'
    BY PreparationAssumption DEF PrepInv, PrepTypeOK, ReadyWhenPaid, FindAllocation,
       rowVars, Shipments
<1>5. EscrowIsBilled'
    BY PreparationAssumption DEF PrepInv, PrepTypeOK, EscrowIsBilled, FindAllocation,
       rowVars, Allocations
<1>6. EscrowFollowsShipment'
    BY PreparationAssumption DEF PrepInv, PrepTypeOK, EscrowFollowsShipment, FindAllocation,
       rowVars, Shipments, Allocations
<1>7. MetInv'
    BY PreparationAssumption DEF PrepInv, PrepTypeOK, MetInv, FindAllocation, rowVars,
       Running, Paying
<1>8. RowInv'
    BY PreparationAssumption DEF PrepInv, PrepTypeOK, RowInv, FindAllocation, rowVars,
       Running, Shipments, Allocations
<1>9. \A q \in Call : CallInv(q)'
    BY PreparationAssumption DEF PrepInv, PrepTypeOK, FindAllocation, rowVars, Shipments,
       Allocations, CallInv
<1> QED BY <1>1, <1>2, <1>3, <1>4, <1>5, <1>6, <1>7, <1>8, <1>9 DEF PrepInv

\* The shipment and the allocation a preparation writes.
LEMMA CommitPreparationKeeps ==
    ASSUME PrepInv, NEW r \in Call, CommitPreparation(r)
    PROVE  PrepInv'
<1>1. PrepTypeOK'
  <2>1. FirstStatus(r) \in ShipmentStatus
    BY DEF FirstStatus, ShipmentStatus
  <2>2. ship' \in [Call -> ShipmentStatus \cup {NoRow}]
    BY <2>1 DEF PrepInv, PrepTypeOK, CommitPreparation
  <2>3. CASE WithoutEscrow(r)
    BY <2>2, <2>3 DEF PrepInv, PrepTypeOK, CommitPreparation, SettlementStatus, Step
  <2>4. CASE ~WithoutEscrow(r)
    <3>1. Joined(r) \in [Call -> Call \cup {NoRow}]
      BY <2>4 DEF PrepInv, PrepTypeOK, Joined, WithoutEscrow
    <3> QED BY <2>2, <2>4, <3>1 DEF PrepInv, PrepTypeOK, CommitPreparation, Step
  <2> QED BY <2>3, <2>4
<1>2. OneShipment'
    BY PreparationAssumption DEF PrepInv, PrepTypeOK, OneShipment, CommitPreparation,
       FirstStatus, WithoutEscrow, Joined, Shipments, CallInv, MetInv
<1>3. OneAllocation'
    BY PreparationAssumption DEF PrepInv, PrepTypeOK, OneAllocation, CommitPreparation,
       FirstStatus, WithoutEscrow, Joined, Allocations, CallInv, MetInv
<1>4. ReadyWhenPaid'
    BY PreparationAssumption DEF PrepInv, PrepTypeOK, ReadyWhenPaid, CommitPreparation,
       FirstStatus, WithoutEscrow, Joined, Shipments, CallInv
<1>5. EscrowIsBilled'
    BY PreparationAssumption DEF PrepInv, PrepTypeOK, EscrowIsBilled, CommitPreparation,
       FirstStatus, WithoutEscrow, Joined, Allocations, CallInv
<1>6. EscrowFollowsShipment'
  <2>1. Shipments' = Shipments \cup {r}
    BY PreparationAssumption
    DEF PrepInv, PrepTypeOK, CommitPreparation, FirstStatus, Shipments, ShipmentStatus
  <2>2. Allocations' \subseteq Allocations \cup {r}
    BY DEF PrepInv, PrepTypeOK, CommitPreparation, Allocations
  <2> SUFFICES ASSUME NEW a \in Allocations', of'[a] = NoRow, r \notin met[a]
               PROVE  met[a] \cap Shipments # {}
    BY <2>1 DEF EscrowFollowsShipment, CommitPreparation, Allocations
  <2>3. r # NoRow /\ found[r] \in Allocations \cup {NoRow}
    BY PreparationAssumption DEF PrepInv, PrepTypeOK, CallInv, CommitPreparation
  <2>4. a # r
    BY <2>3 DEF PrepInv, PrepTypeOK, RowInv, CommitPreparation, WithoutEscrow, Allocations,
       Running
  <2>5. a \in Allocations /\ of[a] = NoRow
    BY <2>2, <2>3, <2>4
    DEF PrepInv, PrepTypeOK, CommitPreparation, WithoutEscrow, Joined, Allocations
  <2>6. found[r] # NoRow /\ found[r] # a
    \* Had it found none, a would have been created while it ran.
    BY <2>3, <2>4, <2>5
    DEF PrepInv, PrepTypeOK, CallInv, MetInv, CommitPreparation, WithoutEscrow, Joined, Allocations
  <2>7. found[r] \in met[a]
    BY <2>3, <2>5, <2>6 DEF PrepInv, OneAllocation
  <2>8. a \in payers
    BY <2>5 DEF PrepInv, RowInv
  <2>9. found[r] \in Shipments
    BY <2>3, <2>5, <2>6, <2>7, <2>8 DEF PrepInv, RowInv, MetInv, Allocations
  <2> QED BY <2>7, <2>9
<1>7. MetInv'
    BY PreparationAssumption DEF PrepInv, PrepTypeOK, MetInv, CommitPreparation,
       FirstStatus, WithoutEscrow, Joined, Running, Paying
<1>8. RowInv'
    BY PreparationAssumption DEF PrepInv, PrepTypeOK, RowInv, CommitPreparation,
       FirstStatus, WithoutEscrow, Joined, Running, Shipments, Allocations,
       ShipmentStatus
<1>9. \A q \in Call : CallInv(q)'
    BY PreparationAssumption DEF PrepInv, PrepTypeOK, CommitPreparation, FirstStatus,
       WithoutEscrow, Joined, Running, Shipments, Allocations, CallInv, MetInv
<1> QED BY <1>1, <1>2, <1>3, <1>4, <1>5, <1>6, <1>7, <1>8, <1>9 DEF PrepInv

\* As FindAllocation, in a payment.
LEMMA FindEscrowKeeps ==
    ASSUME PrepInv, NEW r \in Call, FindEscrow(r)
    PROVE  PrepInv'
<1>1. PrepTypeOK'
    BY PreparationAssumption DEF PrepInv, PrepTypeOK, FindEscrow, rowVars, Allocations, Step
<1>2. OneShipment'
    BY PreparationAssumption DEF PrepInv, PrepTypeOK, OneShipment, FindEscrow, rowVars,
       Shipments
<1>3. OneAllocation'
    BY PreparationAssumption DEF PrepInv, PrepTypeOK, OneAllocation, FindEscrow, rowVars,
       Allocations
<1>4. ReadyWhenPaid'
    BY PreparationAssumption DEF PrepInv, PrepTypeOK, ReadyWhenPaid, FindEscrow, rowVars,
       Shipments
<1>5. EscrowIsBilled'
    BY PreparationAssumption DEF PrepInv, PrepTypeOK, EscrowIsBilled, FindEscrow, rowVars,
       Allocations
<1>6. EscrowFollowsShipment'
    BY PreparationAssumption DEF PrepInv, PrepTypeOK, EscrowFollowsShipment, FindEscrow,
       rowVars, Shipments, Allocations
<1>7. MetInv'
    BY PreparationAssumption DEF PrepInv, PrepTypeOK, MetInv, FindEscrow, rowVars, Running,
       Paying
<1>8. RowInv'
    BY PreparationAssumption DEF PrepInv, PrepTypeOK, RowInv, FindEscrow, rowVars, Running,
       Shipments, Allocations
<1>9. \A q \in Call : CallInv(q)'
    BY PreparationAssumption DEF PrepInv, PrepTypeOK, FindEscrow, rowVars, Shipments,
       Allocations, CallInv
<1> QED BY <1>1, <1>2, <1>3, <1>4, <1>5, <1>6, <1>7, <1>8, <1>9 DEF PrepInv

\* A shipment not found is written, if at all, by somebody met.
LEMMA FindShipmentKeeps ==
    ASSUME PrepInv, NEW r \in Call, FindShipment(r)
    PROVE  PrepInv'
<1>1. PrepTypeOK'
    BY PreparationAssumption DEF PrepInv, PrepTypeOK, FindShipment, rowVars, Shipments, Step
<1>2. OneShipment'
    BY PreparationAssumption DEF PrepInv, PrepTypeOK, OneShipment, FindShipment, rowVars,
       Shipments
<1>3. OneAllocation'
    BY PreparationAssumption DEF PrepInv, PrepTypeOK, OneAllocation, FindShipment, rowVars,
       Allocations
<1>4. ReadyWhenPaid'
    BY PreparationAssumption DEF PrepInv, PrepTypeOK, ReadyWhenPaid, FindShipment, rowVars,
       Shipments
<1>5. EscrowIsBilled'
    BY PreparationAssumption DEF PrepInv, PrepTypeOK, EscrowIsBilled, FindShipment, rowVars,
       Allocations
<1>6. EscrowFollowsShipment'
    BY PreparationAssumption DEF PrepInv, PrepTypeOK, EscrowFollowsShipment, FindShipment,
       rowVars, Shipments, Allocations
<1>7. MetInv'
    BY PreparationAssumption DEF PrepInv, PrepTypeOK, MetInv, FindShipment, rowVars,
       Running, Paying
<1>8. RowInv'
    BY PreparationAssumption DEF PrepInv, PrepTypeOK, RowInv, FindShipment, rowVars,
       Running, Shipments, Allocations
<1>9. \A q \in Call : CallInv(q)'
    BY PreparationAssumption DEF PrepInv, PrepTypeOK, FindShipment, rowVars, Shipments,
       Allocations, CallInv
<1> QED BY <1>1, <1>2, <1>3, <1>4, <1>5, <1>6, <1>7, <1>8, <1>9 DEF PrepInv

\* The allocation a payment writes or moves, and the shipments it makes ready.
LEMMA CommitPaymentKeeps ==
    ASSUME PrepInv, NEW r \in Call, CommitPayment(r)
    PROVE  PrepInv'
<1>1. PrepTypeOK'
    BY PreparationAssumption DEF PrepInv, PrepTypeOK, CommitPayment, MadeReady, BillWritten,
       OrderStatus, ShipmentStatus, SettlementStatus, Step
<1>2. OneShipment'
    BY PreparationAssumption DEF PrepInv, PrepTypeOK, OneShipment, CommitPayment, MadeReady,
       BillWritten, Shipments, ShipmentStatus
<1>3. OneAllocation'
    BY PreparationAssumption DEF PrepInv, PrepTypeOK, OneAllocation, CommitPayment,
       MadeReady, BillWritten, Allocations, CallInv, MetInv
<1>4. ReadyWhenPaid'
    BY PreparationAssumption DEF PrepInv, PrepTypeOK, ReadyWhenPaid, CommitPayment,
       MadeReady, BillWritten, Shipments
<1>5. EscrowIsBilled'
    BY PreparationAssumption DEF PrepInv, PrepTypeOK, EscrowIsBilled, CommitPayment,
       MadeReady, BillWritten, Allocations
<1>6. EscrowFollowsShipment'
    BY PreparationAssumption DEF PrepInv, PrepTypeOK, EscrowFollowsShipment, CommitPayment,
       MadeReady, BillWritten, Shipments, Allocations, CallInv, OrderStatus,
       ShipmentStatus
<1>7. MetInv'
    BY PreparationAssumption DEF PrepInv, PrepTypeOK, MetInv, CommitPayment, MadeReady,
       BillWritten, Running, Paying, Allocations, CallInv, ShipmentStatus
<1>8. RowInv'
    BY PreparationAssumption DEF PrepInv, PrepTypeOK, RowInv, CommitPayment, MadeReady,
       BillWritten, Running, Shipments, Allocations, CallInv, ShipmentStatus,
       SettlementStatus
<1>9. \A q \in Call : CallInv(q)'
    BY PreparationAssumption DEF PrepInv, PrepTypeOK, CommitPayment, MadeReady, BillWritten,
       Running, Shipments, Allocations, CallInv, MetInv, ShipmentStatus, SettlementStatus
<1> QED BY <1>1, <1>2, <1>3, <1>4, <1>5, <1>6, <1>7, <1>8, <1>9 DEF PrepInv

\* A request that dies has written nothing.
LEMMA FailKeeps ==
    ASSUME PrepInv, NEW r \in Call, FailCall(r)
    PROVE  PrepInv'
<1>1. PrepTypeOK'
    BY PreparationAssumption DEF PrepInv, PrepTypeOK, FailCall, rowVars, Step
<1>2. OneShipment'
    BY PreparationAssumption DEF PrepInv, PrepTypeOK, OneShipment, FailCall, rowVars, Shipments
<1>3. OneAllocation'
    BY PreparationAssumption
       DEF PrepInv, PrepTypeOK, OneAllocation, FailCall, rowVars, Allocations
<1>4. ReadyWhenPaid'
    BY PreparationAssumption
       DEF PrepInv, PrepTypeOK, ReadyWhenPaid, FailCall, rowVars, Shipments
<1>5. EscrowIsBilled'
    BY PreparationAssumption DEF PrepInv, PrepTypeOK, EscrowIsBilled, FailCall, rowVars,
       Allocations
<1>6. EscrowFollowsShipment'
    BY PreparationAssumption DEF PrepInv, PrepTypeOK, EscrowFollowsShipment, FailCall, rowVars,
       Shipments, Allocations
<1>7. MetInv'
    BY PreparationAssumption DEF PrepInv, PrepTypeOK, MetInv, FailCall, rowVars, Running, Paying
<1>8. RowInv'
    BY PreparationAssumption DEF PrepInv, PrepTypeOK, RowInv, FailCall, rowVars, Running,
       Shipments, Allocations
<1>9. \A q \in Call : CallInv(q)'
    BY PreparationAssumption DEF PrepInv, PrepTypeOK, FailCall, rowVars, Shipments, Allocations,
       CallInv
<1> QED BY <1>1, <1>2, <1>3, <1>4, <1>5, <1>6, <1>7, <1>8, <1>9 DEF PrepInv

\* The order leaves PAID, or never was.
LEMMA MoveOrderKeeps ==
    ASSUME PrepInv, NEW s \in {"SHIPPING", "DELIVERED", "CANCELLED"}, MoveOrder(s)
    PROVE  PrepInv'
<1>1. PrepTypeOK'
    BY PreparationAssumption DEF PrepInv, PrepTypeOK, MoveOrder, requestVars, OrderStatus
<1>2. OneShipment'
    BY PreparationAssumption DEF PrepInv, PrepTypeOK, OneShipment, MoveOrder, Shipments
<1>3. OneAllocation'
    BY PreparationAssumption DEF PrepInv, PrepTypeOK, OneAllocation, MoveOrder, Allocations
<1>4. ReadyWhenPaid'
    BY PreparationAssumption DEF PrepInv, PrepTypeOK, ReadyWhenPaid, MoveOrder
<1>5. EscrowIsBilled'
    BY PreparationAssumption DEF PrepInv, PrepTypeOK, EscrowIsBilled, MoveOrder, Allocations
<1>6. EscrowFollowsShipment'
    BY PreparationAssumption DEF PrepInv, PrepTypeOK, EscrowFollowsShipment, MoveOrder,
       Shipments, Allocations
<1>7. MetInv'
    BY PreparationAssumption DEF PrepInv, PrepTypeOK, MetInv, MoveOrder, requestVars,
       Running, Paying
<1>8. RowInv'
    BY PreparationAssumption DEF PrepInv, PrepTypeOK, RowInv, MoveOrder, requestVars,
       Running, Shipments, Allocations
<1>9. \A q \in Call : CallInv(q)'
    BY PreparationAssumption DEF PrepInv, PrepTypeOK, MoveOrder, requestVars, Shipments,
       Allocations, CallInv
<1> QED BY <1>1, <1>2, <1>3, <1>4, <1>5, <1>6, <1>7, <1>8, <1>9 DEF PrepInv

\* The allocations of a cancelled order hold nothing.
LEMMA CancelByCustomerKeeps ==
    ASSUME PrepInv, CancelByCustomer
    PROVE  PrepInv'
<1>1. PrepTypeOK'
    BY PreparationAssumption DEF PrepInv, PrepTypeOK, CancelByCustomer, requestVars,
       OrderStatus, SettlementStatus
<1>2. OneShipment'
    BY PreparationAssumption DEF PrepInv, PrepTypeOK, OneShipment, CancelByCustomer, Shipments
<1>3. OneAllocation'
    BY PreparationAssumption DEF PrepInv, PrepTypeOK, OneAllocation, CancelByCustomer,
       Allocations
<1>4. ReadyWhenPaid'
    BY PreparationAssumption DEF PrepInv, PrepTypeOK, ReadyWhenPaid, CancelByCustomer
<1>5. EscrowIsBilled'
    BY PreparationAssumption DEF PrepInv, PrepTypeOK, EscrowIsBilled, CancelByCustomer,
       Allocations
<1>6. EscrowFollowsShipment'
    BY PreparationAssumption DEF PrepInv, PrepTypeOK, EscrowFollowsShipment,
       CancelByCustomer, Shipments, Allocations
<1>7. MetInv'
    BY PreparationAssumption DEF PrepInv, PrepTypeOK, MetInv, CancelByCustomer, requestVars,
       Running, Paying, Allocations
<1>8. RowInv'
    BY PreparationAssumption DEF PrepInv, PrepTypeOK, RowInv, CancelByCustomer, requestVars,
       Running, Shipments, Allocations
<1>9. \A q \in Call : CallInv(q)'
    BY PreparationAssumption DEF PrepInv, PrepTypeOK, CancelByCustomer, requestVars,
       Shipments, Allocations, CallInv, OrderStatus
<1> QED BY <1>1, <1>2, <1>3, <1>4, <1>5, <1>6, <1>7, <1>8, <1>9 DEF PrepInv

\* A step that changes nothing.
LEMMA StutterKeeps ==
    ASSUME PrepInv, UNCHANGED prepVars
    PROVE  PrepInv'
<1>1. PrepTypeOK'
    BY PreparationAssumption DEF PrepInv, PrepTypeOK, prepVars, rowVars, requestVars
<1>2. OneShipment'
    BY PreparationAssumption DEF PrepInv, PrepTypeOK, OneShipment, prepVars, rowVars, Shipments
<1>3. OneAllocation'
    BY PreparationAssumption
       DEF PrepInv, PrepTypeOK, OneAllocation, prepVars, rowVars, Allocations
<1>4. ReadyWhenPaid'
    BY PreparationAssumption
       DEF PrepInv, PrepTypeOK, ReadyWhenPaid, prepVars, rowVars, Shipments
<1>5. EscrowIsBilled'
    BY PreparationAssumption DEF PrepInv, PrepTypeOK, EscrowIsBilled, prepVars, rowVars,
       Allocations
<1>6. EscrowFollowsShipment'
    BY PreparationAssumption DEF PrepInv, PrepTypeOK, EscrowFollowsShipment, prepVars, rowVars,
       Shipments, Allocations
<1>7. MetInv'
    BY PreparationAssumption DEF PrepInv, PrepTypeOK, MetInv, prepVars, rowVars, requestVars,
       Running, Paying
<1>8. RowInv'
    BY PreparationAssumption DEF PrepInv, PrepTypeOK, RowInv, prepVars, rowVars, requestVars,
       Running, Shipments, Allocations
<1>9. \A q \in Call : CallInv(q)'
    BY PreparationAssumption DEF PrepInv, PrepTypeOK, prepVars, rowVars, requestVars, Shipments,
       Allocations, CallInv
<1> QED BY <1>1, <1>2, <1>3, <1>4, <1>5, <1>6, <1>7, <1>8, <1>9 DEF PrepInv

\* Nothing is written at first.
LEMMA InitKeeps == PrepInit => PrepInv
<1> SUFFICES ASSUME PrepInit PROVE PrepInv
    OBVIOUS
<1>1. PrepTypeOK
    BY DEF PrepInit, PrepTypeOK, OrderStatus, Step
<1>2. Shipments = {} /\ Allocations = {}
    BY DEF PrepInit, Shipments, Allocations
<1>3. MetInv /\ RowInv
    BY <1>2 DEF PrepInit, MetInv, RowInv, Running, Paying
<1>4. \A r \in Call : CallInv(r)
    BY DEF PrepInit, CallInv
<1> QED BY <1>1, <1>2, <1>3, <1>4
    DEF PrepInv, OneShipment, OneAllocation, ReadyWhenPaid, EscrowIsBilled, EscrowFollowsShipment

\* Every action of every request keeps the inductive invariant.
LEMMA NextKeeps == PrepInv /\ [PrepNext]_prepVars => PrepInv'
<1> SUFFICES ASSUME PrepInv, [PrepNext]_prepVars PROVE PrepInv'
    OBVIOUS
<1>1. ASSUME NEW r \in Call, Prepare(r) PROVE PrepInv'
    BY <1>1, StartPreparationKeeps, ReadOrderKeeps, FindAllocationKeeps,
       CommitPreparationKeeps DEF Prepare
<1>2. ASSUME NEW r \in Call, Pay(r) PROVE PrepInv'
    BY <1>2, StartPaymentKeeps, FindEscrowKeeps, FindShipmentKeeps, CommitPaymentKeeps
    DEF Pay
<1>3. ASSUME NEW r \in Call, FailCall(r) PROVE PrepInv'
    BY <1>3, FailKeeps
<1>4. ASSUME NEW s \in {"SHIPPING", "DELIVERED", "CANCELLED"}, MoveOrder(s) PROVE PrepInv'
    BY <1>4, MoveOrderKeeps
<1>5. CASE CancelByCustomer
    BY <1>5, CancelByCustomerKeeps
<1>6. CASE UNCHANGED prepVars
    BY <1>6, StutterKeeps
<1> QED BY <1>1, <1>2, <1>3, <1>4, <1>5, <1>6 DEF PrepNext

-----------------------------------------------------------------------------
(* The theorems *)

\* The inductive invariant of preparation and payment holds for any number of
\* requests.
THEOREM PrepInvariant == PrepSpec => []PrepInv
BY InitKeeps, NextKeeps, PTL DEF PrepSpec

\* Every row has a status of the schema.
THEOREM PrepTypeCorrect == PrepSpec => []PrepTypeOK
<1>1. PrepInv => PrepTypeOK BY DEF PrepInv
<1> QED BY <1>1, PrepInvariant, PTL

\* Only overlapping preparations of an order give it two shipments.
THEOREM Shipped == PrepSpec => []OneShipment
<1>1. PrepInv => OneShipment BY DEF PrepInv
<1> QED BY <1>1, PrepInvariant, PTL

\* Only overlapping requests give the seller two allocations of one order.
THEOREM AllocatedApart == PrepSpec => []OneAllocation
<1>1. PrepInv => OneAllocation BY DEF PrepInv
<1> QED BY <1>1, PrepInvariant, PTL

\* Requests that do not overlap prepare an order once, with one escrow.
THEOREM PreparedAlone == PrepSpec => []PreparedOnce
<1>1. OneShipment /\ OneAllocation => PreparedOnce BY DEF PreparedOnce
<1> QED BY <1>1, Shipped, AllocatedApart, PTL

\* A paid order's shipment is ready unless a payment overtook its preparation.
THEOREM Ready == PrepSpec => []ReadyWhenPaid
<1>1. PrepInv => ReadyWhenPaid BY DEF PrepInv
<1> QED BY <1>1, PrepInvariant, PTL

\* A quote is never held as if it had been paid.
THEOREM Billed == PrepSpec => []EscrowIsBilled
<1>1. PrepInv => EscrowIsBilled BY DEF PrepInv
<1> QED BY <1>1, PrepInvariant, PTL

\* The money of a paid order is reached through its shipment, unless payment
\* and preparation overlapped.
THEOREM Followed == PrepSpec => []EscrowFollowsShipment
<1>1. PrepInv => EscrowFollowsShipment BY DEF PrepInv
<1> QED BY <1>1, PrepInvariant, PTL

\* The verification of a delivery finds the escrow, and in it what was billed.
THEOREM EscrowFound == PrepSpec => []EscrowReached
<1>1. EscrowIsBilled /\ EscrowFollowsShipment => EscrowReached BY DEF EscrowReached
<1> QED BY <1>1, Billed, Followed, PTL
=============================================================================
