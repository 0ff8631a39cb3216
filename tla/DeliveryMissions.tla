--------------------------- MODULE DeliveryMissions ---------------------------
(***************************************************************************)
(* The missions of one shipment and the roster of couriers: the seller's   *)
(* dispatch, the couriers' claims of public missions, the agencies'        *)
(* assignments, attaching couriers to agencies and detaching them, the     *)
(* handovers, the verified delivery and the chat it closes.                *)
(*                                                                         *)
(* A member of Req is a slot for one HTTP request at a time.  Start(r) is  *)
(* what a handler reads and checks first; its transaction follows, and may *)
(* find everything changed.  Only the claims check again as they write.    *)
(* Agency has the agencies that are validated and active; a status no code *)
(* writes (RESERVED, COLLECTING, EXPIRED, CANCELLED...) is left out.       *)
(***************************************************************************)
EXTENDS Integers

CONSTANTS
    Req,       \* slots for concurrent requests
    Mission,   \* mission rows
    Courier,   \* couriers' profiles
    Agency,    \* delivery agencies
    None,      \* null
    MaxCalls   \* bound: requests in one behaviour

Mode == {"SELLER_PERSONAL_COURIER", "PARTNER_AGENCY", "PUBLIC_POOL"}
MissionStatus == {"ABSENT", "OFFERED", "ASSIGNED", "ACCEPTED", "CARRYING",
                  "HANDOVER_PENDING", "COMPLETED"}
Access == {"NONE", "ACTIVE", "REVOKED"}

\* The mission is out with somebody.
Underway == {"ASSIGNED", "ACCEPTED", "CARRYING", "HANDOVER_PENDING"}

\* What a second dispatch of the shipment waits for.
Active == Underway \cup {"OFFERED"}

Op == {"dispatch", "accept", "assign", "attach", "detach", "deliver", "chat"}
Call == [op: Op \cup {"none"}, mode: Mode \cup {None}, mission: Mission \cup {None},
         courier: Courier \cup {None}, agency: Agency \cup {None}]
Blank == [op |-> "none", mode |-> None, mission |-> None, courier |-> None, agency |-> None]

OfMode(c, a) == [Blank EXCEPT !.op = "dispatch", !.mode = c, !.agency = a]
OfCourier(o, m, k) == [Blank EXCEPT !.op = o, !.mission = m, !.courier = k]
OfMember(o, a, k) == [Blank EXCEPT !.op = o, !.agency = a, !.courier = k]
OfMission(o, m) == [Blank EXCEPT !.op = o, !.mission = m]

DispatchCalls ==
    {OfMode(c, None) : c \in {"SELLER_PERSONAL_COURIER", "PUBLIC_POOL"}}
    \cup {OfMode("PARTNER_AGENCY", a) : a \in Agency}
ClaimCalls == {OfCourier(o, m, k) : o \in {"accept", "assign"}, m \in Mission, k \in Courier}
RosterCalls == {OfMember(o, a, k) : o \in {"attach", "detach"}, a \in Agency, k \in Courier}
ShipmentCalls == {OfMission(o, m) : o \in {"deliver", "chat"}, m \in Mission \cup {None}}
AllCalls == DispatchCalls \cup ClaimCalls \cup RosterCalls \cup ShipmentCalls

ASSUME MissionsAssumption ==
    /\ None \notin Mission \cup Courier \cup Agency \cup Mode
    /\ MaxCalls \in Nat

VARIABLES
    prepaid,      \* Order.status is not PENDING any more
    ship,         \* Shipment.status: "OPEN" for all before the delivery is verified
    mode,         \* DeliveryMission.missionMode of each mission
    status,       \* DeliveryMission.status
    agency,       \* DeliveryMission.agencyId
    courier,      \* DeliveryMission.courierProfileId
    access,       \* ShipmentConversationAccess.status of each mission's row
    allocated,    \* history: SettlementAllocation rows made for each mission
    member,       \* the pairs of an agency and a courier with an ACTIVE membership
    activeAgency, \* CourierProfile.activeAgencyId; courierType is AGENCY_MEMBER when set
    fit,          \* the couriers whose profile is VERIFIED and ACTIVE
    pc,           \* where each request is
    call,         \* what it was asked, and what it has read
    calls,        \* requests so far
    doubled,      \* history: two dispatches were served at the same time
    revived,      \* history: completed missions a handover has put back under way
    raced,        \* history: couriers attached while they accepted a public mission
    torn,         \* history: couriers two attachments of whom overlapped
    parted,       \* history: couriers detached while a mission was assigned to them
    overtaken     \* history: requests under way when the chat they had read was closed

missionVars == <<mode, status, agency, courier, access, allocated>>
rosterVars == <<member, activeAgency>>
requestVars == <<pc, call>>
raceVars == <<doubled, raced, torn, parted>>
vars == <<prepaid, ship, missionVars, rosterVars, fit, requestVars, calls, raceVars,
          revived, overtaken>>

-----------------------------------------------------------------------------
(* What each handler checks on what it reads first *)

\* Variant: a shipment with an active mission can be dispatched again.
DispatchedAnyway(c) == prepaid

\* dispatchShipment.
DispatchAdmitted(c) ==
    /\ \A m \in Mission : status[m] \notin Active
    /\ c.mode = "SELLER_PERSONAL_COURIER" \/ prepaid

\* assertVerifiedIndependentCourier.
IndependentAdmitted(k) ==
    /\ activeAgency[k] = None
    /\ \A a \in Agency : <<a, k>> \notin member
    /\ k \in fit

\* assignMissionByAgency: the agency's own courier, who is fit.
AssignAdmitted(m, k) == agency[m] # None /\ <<agency[m], k>> \in member /\ k \in fit

\* attachCourierToAgency, its first query.
NoOtherAgency(a, k) == \A b \in Agency : <<b, k>> \in member => b = a

\* Variant: an agency's courier can always be detached.
DetachAnyTime(a, k) == TRUE

\* detachCourierFromAgency.
DetachAdmitted(a, k) ==
    \A m \in Mission : agency[m] = a /\ courier[m] = k => status[m] \notin Underway

\* finalizeVerifiedDelivery takes one of the missions under way, if there is one.
Delivers(m) ==
    IF m = None THEN \A x \in Mission : status[x] \notin Underway
                ELSE status[m] \in Underway

\* Variant: any row of the shipment opens the chat.
ChatEverOpen(m) == m # None /\ access[m] # "NONE"

\* sendShipmentChatMessage, its first query.
ChatAdmitted(m) == m # None /\ access[m] = "ACTIVE"

Admits(c) ==
    \/ c.op = "dispatch" /\ DispatchAdmitted(c)
    \/ c.op = "accept" /\ IndependentAdmitted(c.courier)
    \/ c.op = "assign" /\ AssignAdmitted(c.mission, c.courier)
    \/ c.op = "attach" /\ NoOtherAgency(c.agency, c.courier)
    \/ c.op = "detach" /\ DetachAdmitted(c.agency, c.courier)
    \/ c.op = "deliver" /\ Delivers(c.mission)
    \/ c.op = "chat" /\ ChatAdmitted(c.mission)

\* An assignment remembers the agency it has read the mission of.
Reading(c) == IF c.op = "assign" THEN [c EXCEPT !.agency = agency[c.mission]] ELSE c

\* Another request is doing this.
Meets(op, k) == \E q \in Req : call[q].op = op /\ call[q].courier = k

Start(r) ==
    /\ pc[r] = "idle"
    /\ calls < MaxCalls
    /\ calls' = calls + 1
    /\ \E c \in AllCalls :
         /\ Admits(c)
         /\ call' = [call EXCEPT ![r] = Reading(c)]
         /\ pc' = [pc EXCEPT ![r] = IF c.op \in {"attach", "chat"} THEN "read" ELSE "checked"]
         /\ doubled' = (doubled \/ (c.op = "dispatch" /\ \E q \in Req : call[q].op = "dispatch"))
         /\ raced' = IF \/ c.op = "accept" /\ Meets("attach", c.courier)
                        \/ c.op = "attach" /\ Meets("accept", c.courier)
                       THEN raced \cup {c.courier} ELSE raced
         /\ torn' = IF c.op = "attach" /\ Meets("attach", c.courier)
                      THEN torn \cup {c.courier} ELSE torn
         /\ parted' = IF \/ c.op = "assign" /\ Meets("detach", c.courier)
                         \/ c.op = "detach" /\ Meets("assign", c.courier)
                        THEN parted \cup {c.courier} ELSE parted
    /\ overtaken' = overtaken \ {r}
    /\ UNCHANGED <<prepaid, ship, missionVars, rosterVars, fit, revived>>

\* The request answers, or dies with nothing written.
Finish(r) ==
    /\ pc' = [pc EXCEPT ![r] = "idle"]
    /\ call' = [call EXCEPT ![r] = Blank]

Fail(r) ==
    /\ pc[r] # "idle"
    /\ Finish(r)
    /\ UNCHANGED <<prepaid, ship, missionVars, rosterVars, fit, calls, raceVars, revived,
                   overtaken>>

Checked(r, op) == pc[r] = "checked" /\ call[r].op = op

-----------------------------------------------------------------------------
(* Missions *)

\* The status of a new mission.
NewStatus(c) == IF c.mode = "SELLER_PERSONAL_COURIER" THEN "ASSIGNED" ELSE "OFFERED"

\* dispatchShipment creates a mission: the seller's own courier has it at once, an
\* agency or the public pool is offered it.  An agency's allocation is made now.
Dispatch(r) ==
    /\ Checked(r, "dispatch")
    /\ \E m \in Mission :
         /\ status[m] = "ABSENT"
         /\ mode' = [mode EXCEPT ![m] = call[r].mode]
         /\ agency' = [agency EXCEPT ![m] = call[r].agency]
         /\ status' = [status EXCEPT ![m] = NewStatus(call[r])]
         /\ allocated' = [allocated EXCEPT ![m] =
                @ + (IF call[r].mode = "PARTNER_AGENCY" THEN 1 ELSE 0)]
    /\ ship' = "OPEN"
    /\ Finish(r)
    /\ UNCHANGED <<prepaid, courier, access, rosterVars, fit, calls, raceVars, revived,
                   overtaken>>

\* The conditions of the two claims' updateMany.
PublicClaimable(m) ==
    mode[m] = "PUBLIC_POOL" /\ status[m] = "OFFERED" /\ courier[m] = None

\* Variant: the agency can still change the courier of an accepted mission.
AssignableLate(m, a) == agency[m] = a /\ status[m] \in Active

AgencyClaimable(m, a) == agency[m] = a /\ status[m] \in {"OFFERED", "ASSIGNED"}

\* A claim that wins: the courier, the shipment, and the chat with the customer.
Claim(m, k) ==
    /\ status' = [status EXCEPT ![m] = "ACCEPTED"]
    /\ courier' = [courier EXCEPT ![m] = k]
    /\ access' = [access EXCEPT ![m] = "ACTIVE"]
    /\ ship' = "OPEN"

\* acceptPublicMission: the courier's own allocation comes with the claim.
AcceptPublic(r) ==
    /\ Checked(r, "accept")
    /\ Finish(r)
    /\ LET m == call[r].mission IN
         IF PublicClaimable(m)
           THEN /\ Claim(m, call[r].courier)
                /\ allocated' = [allocated EXCEPT ![m] = @ + 1]
                /\ UNCHANGED <<mode, agency>>
           ELSE UNCHANGED <<ship, missionVars>>
    /\ UNCHANGED <<prepaid, rosterVars, fit, calls, raceVars, revived, overtaken>>

\* assignMissionByAgency.
AssignByAgency(r) ==
    /\ Checked(r, "assign")
    /\ Finish(r)
    /\ LET m == call[r].mission IN
         IF AgencyClaimable(m, call[r].agency)
           THEN Claim(m, call[r].courier) /\ UNCHANGED <<mode, agency, allocated>>
           ELSE UNCHANGED <<ship, missionVars>>
    /\ UNCHANGED <<prepaid, rosterVars, fit, calls, raceVars, revived, overtaken>>

\* recordHandoverEvidence: a pickup or a handover to the buyer may name a mission,
\* in whatever state it is; every step puts the shipment under way again.
RecordHandover(m, s) ==
    /\ status[m] # "ABSENT"
    /\ status' = [status EXCEPT ![m] = s]
    /\ revived' = IF status[m] = "COMPLETED" THEN revived \cup {m} ELSE revived
    /\ ship' = "OPEN"
    /\ UNCHANGED <<prepaid, mode, agency, courier, access, allocated, rosterVars, fit,
                   requestVars, calls, raceVars, overtaken>>

RecordPassage ==
    /\ ship' = "OPEN"
    /\ UNCHANGED <<prepaid, missionVars, rosterVars, fit, requestVars, calls, raceVars,
                   revived, overtaken>>

\* The chats the delivery closes: all of the shipment's.
ClosedByDelivery(m) == {x \in Mission : access[x] = "ACTIVE"}

\* finalizeVerifiedDelivery completes the mission it has read, whatever happened to
\* it since, and closes the chats.
VerifyDelivery(r) ==
    /\ Checked(r, "deliver")
    /\ Finish(r)
    /\ LET m == call[r].mission
           closed == ClosedByDelivery(m) IN
         /\ status' = IF m = None THEN status ELSE [status EXCEPT ![m] = "COMPLETED"]
         /\ access' = [x \in Mission |-> IF x \in closed THEN "REVOKED" ELSE access[x]]
         /\ overtaken' = overtaken \cup
                {q \in Req : call[q].op = "chat" /\ call[q].mission \in closed}
    /\ ship' = "DELIVERED_VERIFIED"
    /\ UNCHANGED <<prepaid, mode, agency, courier, allocated, rosterVars, fit, calls,
                   raceVars, revived>>

-----------------------------------------------------------------------------
(* The chat *)

\* The shipment's status is read after the access row; the chat of a delivered
\* shipment is closed there and then.
CheckShipment(r) ==
    /\ pc[r] = "read" /\ call[r].op = "chat"
    /\ IF ship = "DELIVERED_VERIFIED"
         THEN /\ access' = [access EXCEPT ![call[r].mission] = "REVOKED"]
              /\ Finish(r)
         ELSE /\ pc' = [pc EXCEPT ![r] = "checked"]
              /\ UNCHANGED <<access, call>>
    /\ UNCHANGED <<prepaid, ship, mode, status, agency, courier, allocated, rosterVars, fit,
                   calls, raceVars, revived, overtaken>>

\* The message is written.
SendMessage(r) ==
    /\ Checked(r, "chat")
    /\ Finish(r)
    /\ UNCHANGED <<prepaid, ship, missionVars, rosterVars, fit, calls, raceVars, revived,
                   overtaken>>

-----------------------------------------------------------------------------
(* The roster *)

\* attachCourierToAgency, its second query.
NoPublicMission(k) ==
    \A m \in Mission : mode[m] = "PUBLIC_POOL" /\ courier[m] = k =>
        status[m] \notin Underway \ {"ASSIGNED"}

CheckMissions(r) ==
    /\ pc[r] = "read" /\ call[r].op = "attach"
    /\ IF NoPublicMission(call[r].courier)
         THEN pc' = [pc EXCEPT ![r] = "checked"] /\ UNCHANGED call
         ELSE Finish(r)
    /\ UNCHANGED <<prepaid, ship, missionVars, rosterVars, fit, calls, raceVars, revived,
                   overtaken>>

Attach(r) ==
    /\ Checked(r, "attach")
    /\ Finish(r)
    /\ member' = member \cup {<<call[r].agency, call[r].courier>>}
    /\ activeAgency' = [activeAgency EXCEPT ![call[r].courier] = call[r].agency]
    /\ UNCHANGED <<prepaid, ship, missionVars, fit, calls, raceVars, revived, overtaken>>

\* Whichever agency the courier was attached to, he is independent afterwards.
Detach(r) ==
    /\ Checked(r, "detach")
    /\ Finish(r)
    /\ member' = member \ {<<call[r].agency, call[r].courier>>}
    /\ activeAgency' = [activeAgency EXCEPT ![call[r].courier] = None]
    /\ UNCHANGED <<prepaid, ship, missionVars, fit, calls, raceVars, revived, overtaken>>

\* adminVerifyCourier: the profile is accepted or rejected.
VerifyCourier(k, ok) ==
    /\ fit' = IF ok THEN fit \cup {k} ELSE fit \ {k}
    /\ UNCHANGED <<prepaid, ship, missionVars, rosterVars, requestVars, calls, raceVars,
                   revived, overtaken>>

ConfirmPayment ==
    /\ ~prepaid
    /\ prepaid' = TRUE
    /\ UNCHANGED <<ship, missionVars, rosterVars, fit, requestVars, calls, raceVars, revived,
                   overtaken>>

-----------------------------------------------------------------------------

\* A shipment as createOrGetShipmentForOrder leaves it, and couriers who have
\* just registered.
Init ==
    /\ prepaid \in BOOLEAN
    /\ ship = "OPEN"
    /\ mode = [m \in Mission |-> None]
    /\ status = [m \in Mission |-> "ABSENT"]
    /\ agency = [m \in Mission |-> None]
    /\ courier = [m \in Mission |-> None]
    /\ access = [m \in Mission |-> "NONE"]
    /\ allocated = [m \in Mission |-> 0]
    /\ member = {}
    /\ activeAgency = [k \in Courier |-> None]
    /\ fit = {}
    /\ pc = [r \in Req |-> "idle"]
    /\ call = [r \in Req |-> Blank]
    /\ calls = 0
    /\ doubled = FALSE
    /\ revived = {}
    /\ raced = {}
    /\ torn = {}
    /\ parted = {}
    /\ overtaken = {}

Request(r) ==
    \/ Start(r)
    \/ Fail(r)
    \/ Dispatch(r)
    \/ AcceptPublic(r)
    \/ AssignByAgency(r)
    \/ VerifyDelivery(r)
    \/ CheckShipment(r)
    \/ SendMessage(r)
    \/ CheckMissions(r)
    \/ Attach(r)
    \/ Detach(r)

Next ==
    \/ \E r \in Req : Request(r)
    \/ \E m \in Mission, s \in {"CARRYING", "HANDOVER_PENDING"} : RecordHandover(m, s)
    \/ RecordPassage
    \/ \E k \in Courier, ok \in BOOLEAN : VerifyCourier(k, ok)
    \/ ConfirmPayment

Spec == Init /\ [][Next]_vars

-----------------------------------------------------------------------------
(* Properties *)

\* Types.
TypeOK ==
    /\ prepaid \in BOOLEAN
    /\ ship \in {"OPEN", "DELIVERED_VERIFIED"}
    /\ mode \in [Mission -> Mode \cup {None}]
    /\ status \in [Mission -> MissionStatus]
    /\ agency \in [Mission -> Agency \cup {None}]
    /\ courier \in [Mission -> Courier \cup {None}]
    /\ access \in [Mission -> Access]
    /\ allocated \in [Mission -> Nat]
    /\ member \in SUBSET (Agency \X Courier)
    /\ activeAgency \in [Courier -> Agency \cup {None}]
    /\ fit \in SUBSET Courier
    /\ pc \in [Req -> {"idle", "read", "checked"}]
    /\ call \in [Req -> Call]
    /\ calls \in Nat
    /\ doubled \in BOOLEAN
    /\ revived \in SUBSET Mission
    /\ raced \in SUBSET Courier
    /\ torn \in SUBSET Courier
    /\ parted \in SUBSET Courier
    /\ overtaken \in SUBSET Req

\* A shipment has one active mission at most, unless two dispatches of it overlapped,
\* or a handover was recorded on a mission that was completed.
OneActiveMission ==
    \A m, n \in Mission : status[m] \in Active /\ status[n] \in Active =>
        m = n \/ doubled \/ m \in revived \/ n \in revived

\* However claims, assignments and handovers race, at most one allocation pays for a
\* mission, and none without a prepaid order.
AllocatedOnce == \A m \in Mission : allocated[m] <= 1 /\ (allocated[m] > 0 => prepaid)

\* A courier of an agency has no public mission under way, unless he accepted it
\* while he was being attached, or a handover revived it.
MembersLeavePool ==
    \A m \in Mission, a \in Agency :
        mode[m] = "PUBLIC_POOL" /\ status[m] \in Underway /\ <<a, courier[m]>> \in member
            => courier[m] \in raced \/ m \in revived

\* A courier has one agency, unless two agencies were attaching him at the same time,
\* and his profile names an agency he is a member of.
OneAgency ==
    \A k \in Courier :
        /\ \A a, b \in Agency : <<a, k>> \in member /\ <<b, k>> \in member
              => a = b \/ k \in torn
        /\ activeAgency[k] # None => <<activeAgency[k], k>> \in member

\* The courier of an agency's mission under way is one of its members, unless he was
\* being detached when it was assigned, or a handover revived it.
AgencyMissionByMember ==
    \A m \in Mission :
        agency[m] # None /\ courier[m] # None /\ status[m] \in Underway
            => <<agency[m], courier[m]>> \in member \/ courier[m] \in parted \/ m \in revived

\* Who belongs to which agency, and what he may have under way: each change of the
\* roster is checked on missions read before it, each mission on a roster read before it.
RosterKept ==
    /\ OneAgency
    /\ MembersLeavePool
    /\ AgencyMissionByMember

\* A message is written only while the mission's chat is open, or by a request that
\* the verification of the delivery has overtaken.
MessagesInMission ==
    [][\A r \in Req : SendMessage(r) =>
            access[call[r].mission] = "ACTIVE" \/ r \in overtaken]_vars

\* The missions as the couriers and the customer see them.
Claims == INSTANCE MissionClaims
    WITH claimant <- courier,
         open <- {m \in Mission : access[m] = "ACTIVE"},
         delivered <- (ship = "DELIVERED_VERIFIED"),
         Nobody <- None

\* A mission is claimed once, by one courier; the chat opens with the claim and is
\* closed once the delivery is verified.
ClaimedOnce == Claims!Spec

-----------------------------------------------------------------------------
(* The inductive invariant behind these properties *)

\* What a mission row says fits together.
MissionInv(m) ==
    /\ status[m] = "ABSENT" => mode[m] = None /\ agency[m] = None /\ m \notin revived
    /\ status[m] \in {"ABSENT", "OFFERED", "ASSIGNED"} => courier[m] = None
    /\ status[m] = "ASSIGNED" => mode[m] = "SELLER_PERSONAL_COURIER"
    /\ agency[m] # None <=> mode[m] = "PARTNER_AGENCY"
    /\ courier[m] = None <=> access[m] = "NONE"
    /\ access[m] = "ACTIVE" => ship # "DELIVERED_VERIFIED"
    /\ mode[m] \in {"PARTNER_AGENCY", "PUBLIC_POOL"} => prepaid
    /\ allocated[m] = IF \/ mode[m] = "PARTNER_AGENCY"
                         \/ mode[m] = "PUBLIC_POOL" /\ courier[m] # None
                        THEN 1 ELSE 0

\* What a call is about.
Formed(c) ==
    /\ c.op = "dispatch" =>
          c.mode # None /\ (c.agency # None <=> c.mode = "PARTNER_AGENCY")
    /\ c.op \in {"accept", "assign", "chat"} => c.mission # None
    /\ c.op \in {"accept", "assign", "attach", "detach"} => c.courier # None
    /\ c.op \in {"assign", "attach", "detach"} => c.agency # None

\* What is still true of what a request has read.
ReqInv(r) ==
    LET c == call[r] k == c.courier IN
      /\ pc[r] = "idle" <=> c.op = "none"
      /\ pc[r] = "read" => c.op \in {"attach", "chat"}
      /\ Formed(c)
      /\ c.op = "dispatch" =>
            /\ c.mode # "SELLER_PERSONAL_COURIER" => prepaid
            /\ doubled \/ \A m \in Mission : status[m] \in Active => m \in revived
      /\ c.op = "accept" => k \in raced \/ \A a \in Agency : <<a, k>> \notin member
      /\ Checked(r, "attach") =>
            k \in raced \/ \A m \in Mission :
                mode[m] = "PUBLIC_POOL" /\ courier[m] = k /\ status[m] \in Underway
                    => m \in revived
      /\ c.op = "attach" =>
            k \in torn \/ \A a \in Agency : <<a, k>> \in member => a = c.agency
      /\ c.op = "assign" => k \in parted \/ <<c.agency, k>> \in member
      /\ c.op = "detach" =>
            k \in parted \/ \A m \in Mission :
                agency[m] = c.agency /\ courier[m] = k /\ status[m] \in Underway
                    => m \in revived
      /\ c.op = "chat" => /\ access[c.mission] # "NONE"
                          /\ access[c.mission] = "ACTIVE" \/ r \in overtaken

\* Which requests may be served at the same time unless a race has been noted.
PairInv(q, r) ==
    LET k == call[q].courier IN
      /\ call[q].op = "dispatch" /\ call[r].op = "dispatch" => q = r \/ doubled
      /\ k = call[r].courier =>
            /\ call[q].op = "accept" /\ call[r].op = "attach" => k \in raced
            /\ call[q].op = "attach" /\ call[r].op = "attach" => q = r \/ k \in torn
            /\ call[q].op = "assign" /\ call[r].op = "detach" => k \in parted

IInv ==
    /\ TypeOK
    /\ OneActiveMission
    /\ MembersLeavePool
    /\ OneAgency
    /\ AgencyMissionByMember
    /\ \A m \in Mission : MissionInv(m)
    /\ \A r \in Req : ReqInv(r)
    /\ \A q, r \in Req : PairInv(q, r)

=============================================================================
