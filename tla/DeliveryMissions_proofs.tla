------------------------ MODULE DeliveryMissions_proofs ------------------------
EXTENDS DeliveryMissions, TLAPS

-----------------------------------------------------------------------------
(* Requests *)

LEMMA BlankType ==
    /\ Blank \in Call /\ Blank.op = "none" /\ Formed(Blank)
    /\ Blank.mode = None /\ Blank.mission = None /\ Blank.courier = None /\ Blank.agency = None
  BY DEF Blank, Call, Formed

LEMMA FinishFacts ==
    ASSUME TypeOK, NEW r \in Req, Finish(r)
    PROVE  /\ pc' \in [Req -> {"idle", "read", "checked"}] /\ call' \in [Req -> Call]
           /\ pc'[r] = "idle" /\ call'[r] = Blank
           /\ \A q \in Req : q # r => pc'[q] = pc[q] /\ call'[q] = call[q]
  BY BlankType DEF TypeOK, Finish

-----------------------------------------------------------------------------
(* The invariant *)

RosterInv == MembersLeavePool /\ OneAgency /\ AgencyMissionByMember

Missions == \A m \in Mission : MissionInv(m)
Reqs == \A r \in Req : ReqInv(r)
Pairs == \A q, r \in Req : PairInv(q, r)

LEMMA InvJoin ==
    ASSUME TypeOK', OneActiveMission', RosterInv', Missions', Reqs', Pairs'
    PROVE  IInv'
  BY DEF IInv, RosterInv, Missions, Reqs, Pairs

LEMMA InvSplit ==
    ASSUME IInv
    PROVE  TypeOK /\ OneActiveMission /\ RosterInv /\ Missions /\ Reqs /\ Pairs
  BY DEF IInv, RosterInv, Missions, Reqs, Pairs

\* What a request has read stays true of what it depends on, or a race is noted.
LEMMA OthersKept ==
    ASSUME NEW q \in Req, ReqInv(q), pc'[q] = pc[q], call'[q] = call[q],
           prepaid => prepaid', doubled => doubled', revived \subseteq revived',
           raced \subseteq raced', torn \subseteq torn', parted \subseteq parted',
           call[q].op = "dispatch" => doubled' \/ \A m \in Mission :
               status'[m] \in Active => status[m] \in Active \/ m \in revived',
           call[q].op \in {"accept", "attach"} =>
               \/ call[q].op = "accept" /\ call[q].courier \in raced'
               \/ call[q].op = "attach" /\ call[q].courier \in torn'
               \/ \A a \in Agency : <<a, call[q].courier>> \in member' =>
                                    <<a, call[q].courier>> \in member,
           call[q].op = "assign" =>
               \/ call[q].courier \in parted'
               \/ <<call[q].agency, call[q].courier>> \in member =>
                  <<call[q].agency, call[q].courier>> \in member',
           call[q].op = "attach" => call[q].courier \in raced' \/ \A m \in Mission :
               mode'[m] = "PUBLIC_POOL" /\ courier'[m] = call[q].courier
                   /\ status'[m] \in Underway =>
               \/ m \in revived'
               \/ mode[m] = "PUBLIC_POOL" /\ courier[m] = call[q].courier
                   /\ status[m] \in Underway,
           call[q].op = "detach" => call[q].courier \in parted' \/ \A m \in Mission :
               agency'[m] = call[q].agency /\ courier'[m] = call[q].courier
                   /\ status'[m] \in Underway =>
               \/ m \in revived'
               \/ agency[m] = call[q].agency /\ courier[m] = call[q].courier
                   /\ status[m] \in Underway,
           call[q].op = "chat" =>
               /\ access'[call[q].mission] # "NONE"
               /\ q \in overtaken => q \in overtaken'
               /\ access[call[q].mission] = "ACTIVE" =>
                     access'[call[q].mission] = "ACTIVE" \/ q \in overtaken'
    PROVE  ReqInv(q)'
<1>. DEFINE c == call[q]
            k == c.courier
<1>1. /\ pc'[q] = "idle" <=> c.op = "none"
      /\ pc'[q] = "read" => c.op \in {"attach", "chat"}
      /\ Formed(c)
  BY DEF ReqInv
<1>2. c.op = "dispatch" =>
         /\ c.mode # "SELLER_PERSONAL_COURIER" => prepaid'
         /\ doubled' \/ \A m \in Mission : status'[m] \in Active => m \in revived'
  BY DEF ReqInv
<1>3. c.op = "accept" => k \in raced' \/ \A a \in Agency : <<a, k>> \notin member'
  BY DEF ReqInv
<1>4. Checked(q, "attach")' =>
         k \in raced' \/ \A m \in Mission :
             mode'[m] = "PUBLIC_POOL" /\ courier'[m] = k /\ status'[m] \in Underway
                 => m \in revived'
  BY DEF ReqInv, Checked
<1>5. c.op = "attach" => k \in torn' \/ \A a \in Agency : <<a, k>> \in member' => a = c.agency
  BY DEF ReqInv
<1>6. c.op = "assign" => k \in parted' \/ <<c.agency, k>> \in member'
  BY DEF ReqInv
<1>7. c.op = "detach" =>
         k \in parted' \/ \A m \in Mission :
             agency'[m] = c.agency /\ courier'[m] = k /\ status'[m] \in Underway
                 => m \in revived'
  BY DEF ReqInv
<1>8. c.op = "chat" => /\ access'[c.mission] # "NONE"
                       /\ access'[c.mission] = "ACTIVE" \/ q \in overtaken'
  BY DEF ReqInv
<1>. QED BY <1>1, <1>2, <1>3, <1>4, <1>5, <1>6, <1>7, <1>8 DEF ReqInv, Formed

\* A request that has ended knows nothing.
LEMMA EndedReq ==
    ASSUME NEW r \in Req, pc'[r] = "idle", call'[r] = Blank
    PROVE  ReqInv(r)'
  BY BlankType DEF ReqInv, Formed, Checked

LEMMA PairsKept ==
    ASSUME Pairs, \A q \in Req : call'[q] = Blank \/ call'[q] = call[q],
           doubled => doubled', raced \subseteq raced', torn \subseteq torn',
           parted \subseteq parted'
    PROVE  Pairs'
  BY BlankType DEF Pairs, PairInv

LEMMA Initially == Init => IInv
<1>. SUFFICES ASSUME Init PROVE IInv
  OBVIOUS
<1>1. TypeOK
  <2>1. prepaid \in BOOLEAN /\ doubled \in BOOLEAN
    BY Zenon DEF Init
  <2>2. /\ mode \in [Mission -> Mode \cup {None}] /\ status \in [Mission -> MissionStatus]
        /\ agency \in [Mission -> Agency \cup {None}] /\ courier \in [Mission -> Courier \cup {None}]
        /\ access \in [Mission -> Access] /\ allocated \in [Mission -> Nat]
        /\ activeAgency \in [Courier -> Agency \cup {None}]
        /\ pc \in [Req -> {"idle", "read", "checked"}] /\ call \in [Req -> Call]
    BY BlankType DEF Init, MissionStatus, Access
  <2>3. /\ ship \in {"OPEN", "DELIVERED_VERIFIED"} /\ member \in SUBSET (Agency \X Courier)
        /\ fit \in SUBSET Courier /\ calls \in Nat /\ revived \in SUBSET Mission
        /\ raced \in SUBSET Courier /\ torn \in SUBSET Courier /\ parted \in SUBSET Courier
        /\ overtaken \in SUBSET Req
    BY DEF Init
  <2>. QED BY <2>1, <2>2, <2>3 DEF TypeOK
<1>2. OneActiveMission /\ RosterInv
  BY DEF Init, OneActiveMission, RosterInv, MembersLeavePool, OneAgency, AgencyMissionByMember,
         Active, Underway
<1>3. Missions
  BY MissionsAssumption DEF Init, Missions, MissionInv, Mode
<1>4. Reqs /\ Pairs
  BY BlankType DEF Init, Reqs, Pairs, ReqInv, PairInv, Checked
<1>. QED BY <1>1, <1>2, <1>3, <1>4 DEF IInv, RosterInv, Missions, Reqs, Pairs

\* No mission, and no member of an agency, changes.
LEMMA RowsKept ==
    ASSUME TypeOK, OneActiveMission, RosterInv, Missions,
           UNCHANGED <<mode, status, agency, courier, access, allocated, member, activeAgency>>,
           prepaid => prepaid', ship' = "OPEN" \/ ship' = ship, revived' = revived,
           doubled => doubled', raced \subseteq raced', torn \subseteq torn',
           parted \subseteq parted'
    PROVE  OneActiveMission' /\ RosterInv' /\ Missions'
<1>1. OneActiveMission'
  BY DEF OneActiveMission
<1>2. RosterInv'
  BY DEF RosterInv, MembersLeavePool, OneAgency, AgencyMissionByMember
<1>3. Missions'
  BY DEF Missions, MissionInv
<1>. QED BY <1>1, <1>2, <1>3

\* A request that reads nothing of what changes.
LEMMA Unmoved ==
    ASSUME NEW q \in Req, ReqInv(q), pc'[q] = pc[q], call'[q] = call[q],
           UNCHANGED <<mode, status, agency, courier, access, member, revived>>,
           prepaid => prepaid', doubled => doubled', raced \subseteq raced',
           torn \subseteq torn', parted \subseteq parted',
           q \in overtaken => q \in overtaken'
    PROVE  ReqInv(q)'
<1>1. call[q].op = "dispatch" => doubled' \/ \A m \in Mission :
         status'[m] \in Active => status[m] \in Active \/ m \in revived'
  OBVIOUS
<1>2. /\ \A a \in Agency : <<a, call[q].courier>> \in member' =>
                           <<a, call[q].courier>> \in member
      /\ <<call[q].agency, call[q].courier>> \in member =>
            <<call[q].agency, call[q].courier>> \in member'
  OBVIOUS
<1>3. \A m \in Mission :
         mode'[m] = "PUBLIC_POOL" /\ courier'[m] = call[q].courier /\ status'[m] \in Underway =>
             mode[m] = "PUBLIC_POOL" /\ courier[m] = call[q].courier /\ status[m] \in Underway
  OBVIOUS
<1>4. \A m \in Mission :
         agency'[m] = call[q].agency /\ courier'[m] = call[q].courier /\ status'[m] \in Underway =>
             agency[m] = call[q].agency /\ courier[m] = call[q].courier /\ status[m] \in Underway
  OBVIOUS
<1>5. call[q].op = "chat" => access'[call[q].mission] # "NONE"
  BY DEF ReqInv
<1>6. revived \subseteq revived'
  OBVIOUS
<1>. QED BY <1>1, <1>2, <1>3, <1>4, <1>5, <1>6, OthersKept

-----------------------------------------------------------------------------
(* The steps that change no mission and no membership *)

\* What a request is asked.
LEMMA CallFacts ==
    ASSUME TypeOK, NEW c \in AllCalls, Admits(c)
    PROVE  /\ Reading(c) \in Call /\ Formed(Reading(c))
           /\ c.op \in Op /\ Reading(c).op = c.op /\ Reading(c).courier = c.courier
           /\ Reading(c).mission = c.mission /\ Reading(c).mode = c.mode
           /\ c.op # "assign" => Reading(c).agency = c.agency
           /\ c.op = "assign" => Reading(c).agency = agency[c.mission] /\ c.mission \in Mission
<1>1. CASE c \in DispatchCalls
  <2>1. /\ c \in Call /\ c.op = "dispatch" /\ c.mode \in Mode /\ Reading(c) = c
        /\ c.agency # None <=> c.mode = "PARTNER_AGENCY"
    BY <1>1, MissionsAssumption DEF DispatchCalls, OfMode, Blank, Call, Op, Mode, Reading
  <2>. QED BY <2>1, MissionsAssumption DEF Formed, Op
<1>2. CASE c \in ClaimCalls
  <2>1. /\ c.op \in {"accept", "assign"} /\ c.mission \in Mission /\ c.courier \in Courier
        /\ c \in Call
    <3>1. PICK o \in {"accept", "assign"}, m \in Mission, k \in Courier :
             c = OfCourier(o, m, k)
      BY <1>2 DEF ClaimCalls
    <3>. QED BY <3>1 DEF OfCourier, Blank, Call, Op
  <2>2. CASE c.op = "accept"
    <3>1. Reading(c) = c
      BY <2>2 DEF Reading
    <3>. QED BY <3>1, <2>1, <2>2, MissionsAssumption DEF Formed, Op
  <2>3. CASE c.op = "assign"
    <3>1. agency[c.mission] \in Agency
      BY <2>1, <2>3 DEF Admits, AssignAdmitted, TypeOK
    <3>2. Reading(c) = [c EXCEPT !.agency = agency[c.mission]]
      BY <2>3 DEF Reading
    <3>3. /\ Reading(c) \in Call /\ Reading(c).op = c.op /\ Reading(c).courier = c.courier
          /\ Reading(c).mission = c.mission /\ Reading(c).mode = c.mode
          /\ Reading(c).agency = agency[c.mission]
      BY <3>1, <3>2, <2>1 DEF Call
    <3>. QED BY <3>1, <3>3, <2>1, <2>3, MissionsAssumption DEF Formed, Op
  <2>. QED BY <2>1, <2>2, <2>3
<1>3. CASE c \in RosterCalls
  <2>1. /\ c.op \in {"attach", "detach"} /\ c.agency \in Agency /\ c.courier \in Courier
        /\ c \in Call
    <3>1. PICK o \in {"attach", "detach"}, a \in Agency, k \in Courier :
             c = OfMember(o, a, k)
      BY <1>3 DEF RosterCalls
    <3>. QED BY <3>1 DEF OfMember, Blank, Call, Op
  <2>2. Reading(c) = c
    BY <2>1 DEF Reading
  <2>. QED BY <2>1, <2>2, MissionsAssumption DEF Formed, Op
<1>4. CASE c \in ShipmentCalls
  <2>1. /\ c.op \in {"deliver", "chat"} /\ c.mission \in Mission \cup {None} /\ c \in Call
    <3>1. PICK o \in {"deliver", "chat"}, m \in Mission \cup {None} :
             c = OfMission(o, m)
      BY <1>4 DEF ShipmentCalls
    <3>. QED BY <3>1 DEF OfMission, Blank, Call, Op
  <2>2. Reading(c) = c
    BY <2>1 DEF Reading
  <2>3. c.op = "chat" => c.mission # None
    BY <2>1 DEF Admits, ChatAdmitted
  <2>. QED BY <2>1, <2>2, <2>3 DEF Formed, Op
<1>. QED BY <1>1, <1>2, <1>3, <1>4 DEF AllCalls

LEMMA StartStep ==
    ASSUME IInv, NEW r \in Req, Start(r)
    PROVE  IInv'
<1>0. TypeOK /\ OneActiveMission /\ RosterInv /\ Missions /\ Reqs /\ Pairs
  BY InvSplit
<1>1. UNCHANGED <<prepaid, ship, mode, status, agency, courier, access, allocated, member,
                  activeAgency, fit, revived>>
  BY DEF Start, missionVars, rosterVars
<1>2. PICK c \in AllCalls :
         /\ Admits(c)
         /\ call' = [call EXCEPT ![r] = Reading(c)]
         /\ pc' = [pc EXCEPT ![r] = IF c.op \in {"attach", "chat"} THEN "read" ELSE "checked"]
         /\ doubled' = (doubled \/ (c.op = "dispatch" /\ \E q \in Req : call[q].op = "dispatch"))
         /\ raced' = IF \/ c.op = "accept" /\ Meets("attach", c.courier)
                        \/ c.op = "attach" /\ Meets("accept", c.courier)
                       THEN raced \cup {c.courier} ELSE raced
         /\ torn' = IF c.op = "attach" /\ Meets("attach", c.courier)
                      THEN torn \cup {c.courier} ELSE torn
         /\ parted' = IF \/ c.op = "assign" /\ Meets("detach", c.courier)
                         \/ c.op = "detach" /\ Meets("assign", c.courier)
                        THEN parted \cup {c.courier} ELSE parted
  BY DEF Start
<1>3. PICK n \in Call : n = Reading(c)
  BY <1>0, <1>2, CallFacts
<1>4. /\ Formed(n) /\ c.op \in Op /\ n.op = c.op /\ n.courier = c.courier
      /\ n.mission = c.mission /\ n.mode = c.mode
      /\ c.op # "assign" => n.agency = c.agency
      /\ c.op = "assign" => n.agency = agency[c.mission] /\ c.mission \in Mission
  BY <1>0, <1>2, <1>3, CallFacts
<1>5. /\ call' = [call EXCEPT ![r] = n] /\ pc' \in [Req -> {"idle", "read", "checked"}]
      /\ call' \in [Req -> Call] /\ call'[r] = n
      /\ pc'[r] = IF c.op \in {"attach", "chat"} THEN "read" ELSE "checked"
      /\ \A q \in Req : q # r => pc'[q] = pc[q] /\ call'[q] = call[q]
  BY <1>0, <1>2, <1>3 DEF TypeOK
<1>6. /\ raced \subseteq raced' /\ torn \subseteq torn' /\ parted \subseteq parted'
      /\ overtaken' = overtaken \ {r}
  BY <1>2 DEF Start
<1>7. doubled => doubled'
  BY <1>2
<1>8. n.courier # None => n.courier \in Courier
  BY DEF Call
<1>9. TypeOK'
  <2>1. calls' \in Nat
    BY <1>0 DEF Start, TypeOK
  <2>2. doubled' \in BOOLEAN
    BY <1>2, Zenon DEF TypeOK
  <2>3. c.op \in {"accept", "assign", "attach", "detach"} => c.courier \in Courier
    BY <1>4, <1>8 DEF Formed
  <2>4. raced' \in SUBSET Courier /\ torn' \in SUBSET Courier /\ parted' \in SUBSET Courier
    BY <1>0, <1>2, <2>3 DEF TypeOK
  <2>5. overtaken' \in SUBSET Req
    BY <1>0, <1>6 DEF TypeOK
  <2>6. prepaid' \in BOOLEAN
    BY <1>0, <1>1, Zenon DEF TypeOK
  <2>. QED BY <1>0, <1>1, <1>5, <2>1, <2>2, <2>4, <2>5, <2>6 DEF TypeOK
<1>10. OneActiveMission' /\ RosterInv' /\ Missions'
  BY <1>0, <1>1, <1>6, <1>7, RowsKept
<1>11. Reqs'
  <2>1. ASSUME NEW q \in Req, q # r PROVE ReqInv(q)'
    BY <1>0, <1>1, <1>5, <1>6, <1>7, <2>1, Unmoved DEF Reqs
  <2>2. ReqInv(r)'
    <3>1. pc'[r] # "idle" /\ n.op # "none" /\ (pc'[r] = "read" => n.op \in {"attach", "chat"})
      BY <1>4, <1>5 DEF Op
    <3>2. ~Checked(r, "attach")'
      BY <1>4, <1>5 DEF Checked
    <3>3. n.op = "dispatch" =>
             /\ n.mode # "SELLER_PERSONAL_COURIER" => prepaid'
             /\ \A m \in Mission : status'[m] \notin Active
      BY <1>1, <1>2, <1>4 DEF Admits, DispatchAdmitted
    <3>4. n.op = "accept" => \A a \in Agency : <<a, n.courier>> \notin member'
      BY <1>1, <1>2, <1>4 DEF Admits, IndependentAdmitted
    <3>5. n.op = "attach" => \A a \in Agency : <<a, n.courier>> \in member' => a = n.agency
      BY <1>1, <1>2, <1>4 DEF Admits, NoOtherAgency
    <3>6. n.op = "assign" => <<n.agency, n.courier>> \in member'
      BY <1>1, <1>2, <1>4 DEF Admits, AssignAdmitted
    <3>7. n.op = "detach" => \A m \in Mission :
             agency'[m] = n.agency /\ courier'[m] = n.courier => status'[m] \notin Underway
      BY <1>1, <1>2, <1>4 DEF Admits, DetachAdmitted
    <3>8. n.op = "chat" => access'[n.mission] = "ACTIVE"
      BY <1>1, <1>2, <1>4 DEF Admits, ChatAdmitted
    <3>. QED BY <1>4, <1>5, <3>1, <3>2, <3>3, <3>4, <3>5, <3>6, <3>7, <3>8
             DEF ReqInv, Formed
  <2>. QED BY <2>1, <2>2 DEF Reqs
<1>12. Pairs'
  <2>1. ASSUME NEW p \in Req, NEW q \in Req PROVE PairInv(p, q)'
    <3>1. CASE p # r /\ q # r
      BY <3>1, <1>0, <1>5, <1>6, <1>7 DEF Pairs, PairInv
    <3>2. CASE p = r /\ q = r
      BY <3>2, <1>5 DEF PairInv
    <3>3. CASE p = r /\ q # r
      <4>1. call'[p] = n /\ call'[q] = call[q]
        BY <3>3, <1>5
      <4>2. n.op = "dispatch" /\ call[q].op = "dispatch" => doubled'
        BY <1>2, <1>4
      <4>3. n.courier = call[q].courier =>
              /\ n.op = "accept" /\ call[q].op = "attach" => n.courier \in raced'
              /\ n.op = "attach" /\ call[q].op = "attach" => n.courier \in torn'
              /\ n.op = "assign" /\ call[q].op = "detach" => n.courier \in parted'
        BY <1>2, <1>4 DEF Meets
      <4>. QED BY <4>1, <4>2, <4>3 DEF PairInv
    <3>4. CASE p # r /\ q = r
      <4>1. call'[q] = n /\ call'[p] = call[p]
        BY <3>4, <1>5
      <4>2. n.op = "dispatch" /\ call[p].op = "dispatch" => doubled'
        BY <1>2, <1>4
      <4>3. n.courier = call[p].courier =>
              /\ n.op = "attach" /\ call[p].op = "accept" => n.courier \in raced'
              /\ n.op = "attach" /\ call[p].op = "attach" => n.courier \in torn'
              /\ n.op = "detach" /\ call[p].op = "assign" => n.courier \in parted'
        BY <1>2, <1>4 DEF Meets
      <4>. QED BY <4>1, <4>2, <4>3 DEF PairInv
    <3>. QED BY <3>1, <3>2, <3>3, <3>4
  <2>. QED BY <2>1 DEF Pairs
<1>. QED BY <1>9, <1>10, <1>11, <1>12, InvJoin

\* Requests end or wait, and no mission and no membership changes.
LEMMA QuietStep ==
    ASSUME IInv, TypeOK',
           UNCHANGED <<mode, status, agency, courier, access, allocated, member, activeAgency,
                       revived, overtaken, doubled, raced, torn, parted>>,
           prepaid => prepaid', ship' = "OPEN" \/ ship' = ship,
           \A q \in Req : \/ pc'[q] = "idle" /\ call'[q] = Blank
                          \/ pc'[q] = pc[q] /\ call'[q] = call[q]
    PROVE  IInv'
<1>0. TypeOK /\ OneActiveMission /\ RosterInv /\ Missions /\ Reqs /\ Pairs
  BY InvSplit
<1>1. doubled => doubled'
  OBVIOUS
<1>2. raced \subseteq raced' /\ torn \subseteq torn' /\ parted \subseteq parted'
  OBVIOUS
<1>3. OneActiveMission' /\ RosterInv' /\ Missions'
  BY <1>0, <1>1, <1>2, RowsKept
<1>4. ASSUME NEW q \in Req PROVE ReqInv(q)'
  <2>1. CASE pc'[q] = "idle" /\ call'[q] = Blank
    BY <2>1, EndedReq
  <2>2. CASE pc'[q] = pc[q] /\ call'[q] = call[q]
    BY <2>2, <1>0, <1>1, <1>2, Unmoved DEF Reqs
  <2>. QED BY <2>1, <2>2
<1>5. Reqs'
  BY <1>4 DEF Reqs
<1>6. Pairs'
  <2>1. \A q \in Req : call'[q] = Blank \/ call'[q] = call[q]
    OBVIOUS
  <2>. QED BY <1>0, <1>1, <1>2, <2>1, PairsKept
<1>. QED BY <1>3, <1>5, <1>6, InvJoin

LEMMA FailStep ==
    ASSUME IInv, NEW r \in Req, Fail(r) \/ SendMessage(r)
    PROVE  IInv'
<1>0. TypeOK
  BY InvSplit
<1>1. /\ UNCHANGED <<mode, status, agency, courier, access, allocated, member, activeAgency,
                     revived, overtaken, doubled, raced, torn, parted>>
      /\ UNCHANGED <<prepaid, ship, fit, calls>>
  BY DEF Fail, SendMessage, missionVars, rosterVars, raceVars
<1>2. Finish(r)
  BY DEF Fail, SendMessage
<1>3. TypeOK'
  <2>1. prepaid' \in BOOLEAN /\ doubled' \in BOOLEAN
    BY <1>0, <1>1, Zenon DEF TypeOK
  <2>. QED BY <1>0, <1>1, <1>2, <2>1, FinishFacts DEF TypeOK
<1>. QED BY <1>0, <1>1, <1>2, <1>3, FinishFacts, QuietStep

LEMMA CheckMissionsStep ==
    ASSUME IInv, NEW r \in Req, CheckMissions(r)
    PROVE  IInv'
<1>0. TypeOK /\ OneActiveMission /\ RosterInv /\ Missions /\ Reqs /\ Pairs
  BY InvSplit
<1>1. /\ UNCHANGED <<mode, status, agency, courier, access, allocated, member, activeAgency,
                     revived, overtaken, doubled, raced, torn, parted>>
      /\ UNCHANGED <<prepaid, ship, fit, calls>>
  BY DEF CheckMissions, missionVars, rosterVars, raceVars
<1>2. prepaid' \in BOOLEAN /\ doubled' \in BOOLEAN
  BY <1>0, <1>1, Zenon DEF TypeOK
<1>3. CASE Finish(r)
  <2>1. TypeOK'
    BY <1>0, <1>1, <1>2, <1>3, FinishFacts DEF TypeOK
  <2>. QED BY <1>0, <1>1, <1>3, <2>1, FinishFacts, QuietStep
<1>4. CASE ~Finish(r)
  <2>1. /\ NoPublicMission(call[r].courier) /\ pc' = [pc EXCEPT ![r] = "checked"] /\ call' = call
        /\ pc[r] = "read" /\ call[r].op = "attach"
    BY <1>4 DEF CheckMissions
  <2>2. /\ pc' \in [Req -> {"idle", "read", "checked"}] /\ pc'[r] = "checked"
        /\ \A q \in Req : q # r => pc'[q] = pc[q]
    BY <1>0, <2>1 DEF TypeOK
  <2>3. TypeOK'
    BY <1>0, <1>1, <1>2, <2>1, <2>2 DEF TypeOK
  <2>4. OneActiveMission' /\ RosterInv' /\ Missions'
    BY <1>0, <1>1, RowsKept
  <2>5. ASSUME NEW q \in Req, q # r PROVE ReqInv(q)'
    BY <1>0, <1>1, <2>1, <2>2, <2>5, Unmoved DEF Reqs
  <2>6. ReqInv(r)'
    <3>1. ReqInv(r)
      BY <1>0 DEF Reqs
    <3>2. \A m \in Mission : mode'[m] = "PUBLIC_POOL" /\ courier'[m] = call[r].courier
                                => status'[m] \notin Underway
      BY <1>0, <1>1, <2>1 DEF NoPublicMission, Missions, MissionInv
    <3>3. \A a \in Agency : <<a, call[r].courier>> \in member =>
                 call[r].courier \in torn \/ a = call[r].agency
      BY <3>1, <2>1 DEF ReqInv
    <3>. QED BY <3>1, <3>2, <3>3, <1>1, <2>1, <2>2 DEF ReqInv, Formed, Checked
  <2>7. Reqs'
    BY <2>5, <2>6 DEF Reqs
  <2>8. Pairs'
    BY <1>0, <1>1, <2>1, PairsKept
  <2>. QED BY <2>3, <2>4, <2>7, <2>8, InvJoin
<1>. QED BY <1>3, <1>4

LEMMA CheckShipmentStep ==
    ASSUME IInv, NEW r \in Req, CheckShipment(r)
    PROVE  IInv'
<1>0. TypeOK /\ OneActiveMission /\ RosterInv /\ Missions /\ Reqs /\ Pairs
  BY InvSplit
<1>1. /\ UNCHANGED <<mode, status, agency, courier, allocated, member, activeAgency,
                     revived, overtaken, doubled, raced, torn, parted>>
      /\ UNCHANGED <<prepaid, ship, fit, calls>>
  BY DEF CheckShipment, rosterVars, raceVars
<1>2. prepaid' \in BOOLEAN /\ doubled' \in BOOLEAN
  BY <1>0, <1>1, Zenon DEF TypeOK
<1>3. ReqInv(r) /\ call[r].op = "chat" /\ pc[r] = "read"
  BY <1>0 DEF Reqs, CheckShipment
<1>4. call[r].mission \in Mission
  BY <1>0, <1>3 DEF ReqInv, Formed, TypeOK, Call
<1>5. CASE ship = "DELIVERED_VERIFIED"
  <2>1. Finish(r) /\ access' = [access EXCEPT ![call[r].mission] = "REVOKED"]
    BY <1>5 DEF CheckShipment
  <2>2. access[call[r].mission] = "REVOKED"
    BY <1>0, <1>3, <1>4, <1>5 DEF Missions, MissionInv, ReqInv, TypeOK, Access
  <2>3. access' = access
    BY <1>0, <2>1, <2>2 DEF TypeOK
  <2>4. TypeOK'
    BY <1>0, <1>1, <1>2, <2>1, <2>3, FinishFacts DEF TypeOK
  <2>. QED BY <1>0, <1>1, <2>1, <2>3, <2>4, FinishFacts, QuietStep
<1>6. CASE ship # "DELIVERED_VERIFIED"
  <2>1. pc' = [pc EXCEPT ![r] = "checked"] /\ call' = call /\ access' = access
    BY <1>6 DEF CheckShipment
  <2>2. /\ pc' \in [Req -> {"idle", "read", "checked"}] /\ pc'[r] = "checked"
        /\ \A q \in Req : q # r => pc'[q] = pc[q]
    BY <1>0, <2>1 DEF TypeOK
  <2>3. TypeOK'
    BY <1>0, <1>1, <1>2, <2>1, <2>2 DEF TypeOK
  <2>4. OneActiveMission' /\ RosterInv' /\ Missions'
    BY <1>0, <1>1, <2>1, RowsKept
  <2>5. ASSUME NEW q \in Req, q # r PROVE ReqInv(q)'
    BY <1>0, <1>1, <2>1, <2>2, <2>5, Unmoved DEF Reqs
  <2>6. ReqInv(r)'
    BY <1>1, <1>3, <2>1, <2>2 DEF ReqInv, Formed, Checked
  <2>7. Reqs'
    BY <2>5, <2>6 DEF Reqs
  <2>8. Pairs'
    BY <1>0, <1>1, <2>1, PairsKept
  <2>. QED BY <2>3, <2>4, <2>7, <2>8, InvJoin
<1>. QED BY <1>5, <1>6

LEMMA OutsideStep ==
    ASSUME IInv, \/ RecordPassage
                 \/ \E k \in Courier, ok \in BOOLEAN : VerifyCourier(k, ok)
                 \/ ConfirmPayment
    PROVE  IInv'
<1>0. TypeOK
  BY InvSplit
<1>1. UNCHANGED <<mode, status, agency, courier, access, allocated, member, activeAgency,
                  revived, overtaken, doubled, raced, torn, parted, pc, call, calls>>
  BY DEF RecordPassage, VerifyCourier, ConfirmPayment, missionVars, rosterVars, raceVars,
         requestVars
<1>2. ship' = "OPEN" \/ ship' = ship
  BY DEF RecordPassage, VerifyCourier, ConfirmPayment
<1>3. (prepaid => prepaid') /\ prepaid' \in BOOLEAN
  BY <1>0, Zenon DEF RecordPassage, VerifyCourier, ConfirmPayment, TypeOK
<1>4. fit' \in SUBSET Courier
  BY <1>0 DEF RecordPassage, VerifyCourier, ConfirmPayment, TypeOK
<1>5. doubled' \in BOOLEAN
  BY <1>0, <1>1, Zenon DEF TypeOK
<1>6. TypeOK'
  BY <1>0, <1>1, <1>2, <1>3, <1>4, <1>5 DEF TypeOK
<1>. QED BY <1>1, <1>2, <1>3, <1>6, QuietStep

-----------------------------------------------------------------------------
(* The steps that change a mission *)

LEMMA DispatchStep ==
    ASSUME IInv, NEW r \in Req, Dispatch(r)
    PROVE  IInv'
<1>0. TypeOK /\ OneActiveMission /\ RosterInv /\ Missions /\ Reqs /\ Pairs
  BY InvSplit
<1>1. /\ UNCHANGED <<courier, access, member, activeAgency, revived, overtaken, doubled, raced,
                     torn, parted>>
      /\ UNCHANGED <<prepaid, fit, calls>>
      /\ ship' = "OPEN"
  BY DEF Dispatch, rosterVars, raceVars
<1>2. Finish(r) /\ ReqInv(r) /\ call[r].op = "dispatch"
  BY <1>0 DEF Dispatch, Checked, Reqs
<1>3. PICK m \in Mission :
         /\ status[m] = "ABSENT"
         /\ mode' = [mode EXCEPT ![m] = call[r].mode]
         /\ agency' = [agency EXCEPT ![m] = call[r].agency]
         /\ status' = [status EXCEPT ![m] = NewStatus(call[r])]
         /\ allocated' = [allocated EXCEPT ![m] =
                @ + (IF call[r].mode = "PARTNER_AGENCY" THEN 1 ELSE 0)]
  BY DEF Dispatch
<1>4. PICK c \in Call : c = call[r]
  BY <1>0 DEF TypeOK
<1>5. /\ c.mode \in Mode /\ c.agency \in Agency \cup {None}
      /\ c.agency # None <=> c.mode = "PARTNER_AGENCY"
      /\ c.mode # "SELLER_PERSONAL_COURIER" => prepaid
      /\ doubled \/ \A x \in Mission : status[x] \in Active => x \in revived
  BY <1>2, <1>4 DEF ReqInv, Formed, Call
<1>6. /\ mode'[m] = c.mode /\ agency'[m] = c.agency /\ courier'[m] = None
      /\ status'[m] = IF c.mode = "SELLER_PERSONAL_COURIER" THEN "ASSIGNED" ELSE "OFFERED"
      /\ allocated[m] = 0 /\ m \notin revived /\ access'[m] = "NONE"
      /\ allocated'[m] = IF c.mode = "PARTNER_AGENCY" THEN 1 ELSE 0
  BY <1>0, <1>1, <1>3, <1>4, MissionsAssumption
     DEF TypeOK, NewStatus, Missions, MissionInv, Mode
<1>7. \A x \in Mission : x # m =>
         /\ mode'[x] = mode[x] /\ agency'[x] = agency[x] /\ status'[x] = status[x]
         /\ allocated'[x] = allocated[x]
  BY <1>0, <1>3 DEF TypeOK
<1>8. TypeOK'
  <2>1. prepaid' \in BOOLEAN /\ doubled' \in BOOLEAN
    BY <1>0, <1>1, Zenon DEF TypeOK
  <2>2. mode' \in [Mission -> Mode \cup {None}] /\ agency' \in [Mission -> Agency \cup {None}]
    BY <1>0, <1>3, <1>4, <1>5 DEF TypeOK
  <2>3. status' \in [Mission -> MissionStatus]
    BY <1>0, <1>3 DEF TypeOK, NewStatus, MissionStatus
  <2>4. allocated' \in [Mission -> Nat]
    BY <1>0, <1>3 DEF TypeOK
  <2>. QED BY <1>0, <1>1, <1>2, <2>1, <2>2, <2>3, <2>4, FinishFacts DEF TypeOK
<1>9. OneActiveMission'
  BY <1>0, <1>1, <1>5, <1>6, <1>7 DEF OneActiveMission
<1>10. RosterInv'
  <2>1. ~(mode'[m] = "PUBLIC_POOL" /\ status'[m] \in Underway)
    BY <1>6 DEF Underway
  <2>2. MembersLeavePool'
    BY <1>0, <1>1, <1>7, <2>1 DEF RosterInv, MembersLeavePool
  <2>3. OneAgency'
    BY <1>0, <1>1 DEF RosterInv, OneAgency
  <2>4. AgencyMissionByMember'
    BY <1>0, <1>1, <1>6, <1>7 DEF RosterInv, AgencyMissionByMember
  <2>. QED BY <2>2, <2>3, <2>4 DEF RosterInv
<1>11. Missions'
  <2>1. MissionInv(m)'
    BY <1>1, <1>5, <1>6, MissionsAssumption DEF MissionInv, Mode
  <2>2. ASSUME NEW x \in Mission, x # m PROVE MissionInv(x)'
    BY <1>0, <1>1, <1>7, <2>2 DEF Missions, MissionInv
  <2>. QED BY <2>1, <2>2 DEF Missions
<1>12. Reqs'
  <2>1. ReqInv(r)'
    BY <1>0, <1>2, FinishFacts, EndedReq
  <2>2. ASSUME NEW q \in Req, q # r PROVE ReqInv(q)'
    <3>1. ReqInv(q) /\ PairInv(q, r) /\ pc'[q] = pc[q] /\ call'[q] = call[q]
      BY <1>0, <1>2, <2>2, FinishFacts DEF Reqs, Pairs
    <3>2. call[q].op = "dispatch" => doubled'
      BY <1>1, <1>2, <2>2, <3>1 DEF PairInv
    <3>3. /\ call[q].op \in {"attach", "detach"} => call[q].courier # None
          /\ call[q].op = "chat" => access'[call[q].mission] # "NONE"
      BY <1>1, <3>1 DEF ReqInv, Formed
    <3>4. call[q].op = "attach" => \A x \in Mission :
               mode'[x] = "PUBLIC_POOL" /\ courier'[x] = call[q].courier
                   /\ status'[x] \in Underway =>
                 mode[x] = "PUBLIC_POOL" /\ courier[x] = call[q].courier /\ status[x] \in Underway
      BY <1>1, <1>6, <1>7, <3>3
    <3>5. call[q].op = "detach" => \A x \in Mission :
               agency'[x] = call[q].agency /\ courier'[x] = call[q].courier
                   /\ status'[x] \in Underway =>
                 agency[x] = call[q].agency /\ courier[x] = call[q].courier
                   /\ status[x] \in Underway
      BY <1>1, <1>6, <1>7, <3>3
    <3>. QED BY <1>1, <3>1, <3>2, <3>3, <3>4, <3>5, OthersKept
  <2>. QED BY <2>1, <2>2 DEF Reqs
<1>13. Pairs'
  BY <1>0, <1>1, <1>2, FinishFacts, PairsKept
<1>. QED BY <1>8, <1>9, <1>10, <1>11, <1>12, <1>13, InvJoin

\* The courier who has won a mission, and what both claims change.
LEMMA ClaimStep ==
    ASSUME IInv, NEW r \in Req, Finish(r), NEW m \in Mission, NEW k \in Courier, Claim(m, k),
           call[r].courier = k, call[r].op \in {"accept", "assign"},
           UNCHANGED <<mode, agency, member, activeAgency, revived, overtaken, doubled, raced,
                       torn, parted, prepaid, fit, calls>>,
           status[m] = "OFFERED",
           \/ /\ call[r].op = "accept" /\ mode[m] = "PUBLIC_POOL"
              /\ allocated' = [allocated EXCEPT ![m] = @ + 1]
           \/ /\ call[r].op = "assign" /\ call[r].agency = agency[m] /\ agency[m] # None
              /\ allocated' = allocated
    PROVE  IInv'
<1>0. TypeOK /\ OneActiveMission /\ RosterInv /\ Missions /\ Reqs /\ Pairs
  BY InvSplit
<1>1. ReqInv(r) /\ MissionInv(m) /\ k # None
  BY <1>0, MissionsAssumption DEF Reqs, Missions
<1>2. courier[m] = None /\ (agency[m] # None <=> mode[m] = "PARTNER_AGENCY")
  BY <1>1 DEF MissionInv
<1>3. /\ status'[m] = "ACCEPTED" /\ courier'[m] = k /\ access'[m] = "ACTIVE" /\ ship' = "OPEN"
      /\ \A x \in Mission : x # m =>
            status'[x] = status[x] /\ courier'[x] = courier[x] /\ access'[x] = access[x]
      /\ \A x \in Mission : x # m => allocated'[x] = allocated[x]
  BY <1>0 DEF Claim, TypeOK
<1>4. TypeOK'
  <2>1. prepaid' \in BOOLEAN /\ doubled' \in BOOLEAN
    BY <1>0, Zenon DEF TypeOK
  <2>2. /\ status' \in [Mission -> MissionStatus] /\ courier' \in [Mission -> Courier \cup {None}]
        /\ access' \in [Mission -> Access] /\ ship' \in {"OPEN", "DELIVERED_VERIFIED"}
    BY <1>0 DEF TypeOK, Claim, MissionStatus, Access
  <2>3. allocated' \in [Mission -> Nat]
    BY <1>0 DEF TypeOK
  <2>. QED BY <1>0, <2>1, <2>2, <2>3, FinishFacts DEF TypeOK
<1>5. OneActiveMission'
  BY <1>0, <1>3 DEF OneActiveMission, Active
<1>6. RosterInv'
  <2>1. mode[m] = "PUBLIC_POOL" => k \in raced \/ \A a \in Agency : <<a, k>> \notin member
    BY <1>1, <1>2 DEF ReqInv
  <2>2. agency[m] # None => k \in parted \/ <<agency[m], k>> \in member
    BY <1>1, <1>2 DEF ReqInv
  <2>3. MembersLeavePool'
    BY <1>0, <1>3, <2>1 DEF RosterInv, MembersLeavePool
  <2>4. OneAgency'
    BY <1>0 DEF RosterInv, OneAgency
  <2>5. AgencyMissionByMember'
    BY <1>0, <1>3, <2>2 DEF RosterInv, AgencyMissionByMember
  <2>. QED BY <2>3, <2>4, <2>5 DEF RosterInv
<1>7. Missions'
  <2>1. allocated'[m] = 1
    BY <1>0, <1>1, <1>2 DEF MissionInv, TypeOK
  <2>2. mode[m] = "PUBLIC_POOL" \/ mode[m] = "PARTNER_AGENCY"
    BY <1>2
  <2>3. MissionInv(m)'
    BY <1>1, <1>3, <2>1, <2>2 DEF MissionInv
  <2>4. ASSUME NEW x \in Mission, x # m PROVE MissionInv(x)'
    BY <1>0, <1>3, <2>4 DEF Missions, MissionInv
  <2>. QED BY <2>3, <2>4 DEF Missions
<1>8. Reqs'
  <2>1. ReqInv(r)'
    BY <1>0, FinishFacts, EndedReq
  <2>2. ASSUME NEW q \in Req, q # r PROVE ReqInv(q)'
    <3>1. ReqInv(q) /\ PairInv(r, q) /\ pc'[q] = pc[q] /\ call'[q] = call[q]
      BY <1>0, <2>2, FinishFacts DEF Reqs, Pairs
    <3>2. \A x \in Mission : status'[x] \in Active => status[x] \in Active
      BY <1>3 DEF Active
    <3>3. call[q].op = "attach" => call[q].courier \in raced' \/ \A x \in Mission :
               mode'[x] = "PUBLIC_POOL" /\ courier'[x] = call[q].courier
                   /\ status'[x] \in Underway =>
                 mode[x] = "PUBLIC_POOL" /\ courier[x] = call[q].courier /\ status[x] \in Underway
      <4>1. call[q].op = "attach" /\ call[q].courier = k /\ mode[m] = "PUBLIC_POOL" => k \in raced'
        BY <1>2, <3>1 DEF PairInv
      <4>. QED BY <1>3, <4>1
    <3>4. call[q].op = "detach" => call[q].courier \in parted' \/ \A x \in Mission :
               agency'[x] = call[q].agency /\ courier'[x] = call[q].courier
                   /\ status'[x] \in Underway =>
                 agency[x] = call[q].agency /\ courier[x] = call[q].courier
                   /\ status[x] \in Underway
      <4>1. call[q].op = "detach" => call[q].agency # None
        BY <3>1 DEF ReqInv, Formed
      <4>2. call[q].op = "detach" /\ call[q].courier = k /\ agency[m] # None => k \in parted'
        BY <1>2, <3>1 DEF PairInv
      <4>. QED BY <1>3, <4>1, <4>2
    <3>5. call[q].op = "chat" =>
             /\ access'[call[q].mission] # "NONE"
             /\ access[call[q].mission] = "ACTIVE" => access'[call[q].mission] = "ACTIVE"
      <4>1. call[q].op = "chat" =>
               call[q].mission \in Mission /\ access[call[q].mission] # "NONE"
        BY <1>0, <3>1 DEF ReqInv, Formed, TypeOK, Call
      <4>. QED BY <1>3, <4>1
    <3>. QED BY <3>1, <3>2, <3>3, <3>4, <3>5, OthersKept
  <2>. QED BY <2>1, <2>2 DEF Reqs
<1>9. Pairs'
  BY <1>0, FinishFacts, PairsKept
<1>. QED BY <1>4, <1>5, <1>6, <1>7, <1>8, <1>9, InvJoin

\* A claim that loses writes nothing.
LEMMA LostStep ==
    ASSUME IInv, NEW r \in Req, Finish(r),
           UNCHANGED <<prepaid, ship, mode, status, agency, courier, access, allocated, member,
                       activeAgency, fit, calls, revived, overtaken, doubled, raced, torn,
                       parted>>
    PROVE  IInv'
<1>0. TypeOK
  BY InvSplit
<1>1. prepaid' \in BOOLEAN /\ doubled' \in BOOLEAN
  BY <1>0, Zenon DEF TypeOK
<1>2. TypeOK'
  BY <1>0, <1>1, FinishFacts DEF TypeOK
<1>. QED BY <1>0, <1>2, FinishFacts, QuietStep

LEMMA AcceptPublicStep ==
    ASSUME IInv, NEW r \in Req, AcceptPublic(r)
    PROVE  IInv'
<1>0. TypeOK /\ Reqs
  BY InvSplit
<1>1. /\ UNCHANGED <<member, activeAgency, revived, overtaken, doubled, raced, torn, parted>>
      /\ UNCHANGED <<prepaid, fit, calls>>
      /\ Finish(r) /\ call[r].op = "accept"
  BY DEF AcceptPublic, Checked, rosterVars, raceVars
<1>2. PICK m \in Mission, k \in Courier : m = call[r].mission /\ k = call[r].courier
  BY <1>0, <1>1 DEF Reqs, ReqInv, Formed, TypeOK, Call
<1>3. CASE PublicClaimable(m)
  <2>1. /\ Claim(m, k) /\ allocated' = [allocated EXCEPT ![m] = @ + 1]
        /\ UNCHANGED <<mode, agency>>
    BY <1>2, <1>3 DEF AcceptPublic
  <2>. QED BY <1>1, <1>2, <1>3, <2>1, ClaimStep DEF PublicClaimable
<1>4. CASE ~PublicClaimable(m)
  <2>1. UNCHANGED <<ship, mode, status, agency, courier, access, allocated>>
    BY <1>2, <1>4 DEF AcceptPublic, missionVars
  <2>. QED BY <1>1, <2>1, LostStep
<1>. QED BY <1>3, <1>4

LEMMA AssignByAgencyStep ==
    ASSUME IInv, NEW r \in Req, AssignByAgency(r)
    PROVE  IInv'
<1>0. TypeOK /\ Reqs /\ Missions
  BY InvSplit
<1>1. /\ UNCHANGED <<member, activeAgency, revived, overtaken, doubled, raced, torn, parted>>
      /\ UNCHANGED <<prepaid, fit, calls>>
      /\ Finish(r) /\ call[r].op = "assign"
  BY DEF AssignByAgency, Checked, rosterVars, raceVars
<1>2. PICK m \in Mission, k \in Courier : m = call[r].mission /\ k = call[r].courier
  BY <1>0, <1>1 DEF Reqs, ReqInv, Formed, TypeOK, Call
<1>3. CASE AgencyClaimable(m, call[r].agency)
  <2>1. Claim(m, k) /\ UNCHANGED <<mode, agency, allocated>>
    BY <1>2, <1>3 DEF AssignByAgency
  <2>2. call[r].agency = agency[m] /\ agency[m] # None
    BY <1>0, <1>1, <1>3 DEF AgencyClaimable, Reqs, ReqInv, Formed
  <2>3. status[m] = "OFFERED"
    BY <1>0, <1>3, <2>2 DEF AgencyClaimable, Missions, MissionInv
  <2>. QED BY <1>1, <1>2, <2>1, <2>2, <2>3, ClaimStep
<1>4. CASE ~AgencyClaimable(m, call[r].agency)
  <2>1. UNCHANGED <<ship, mode, status, agency, courier, access, allocated>>
    BY <1>2, <1>4 DEF AssignByAgency, missionVars
  <2>. QED BY <1>1, <2>1, LostStep
<1>. QED BY <1>3, <1>4

LEMMA VerifyDeliveryStep ==
    ASSUME IInv, NEW r \in Req, VerifyDelivery(r)
    PROVE  IInv'
<1>0. TypeOK /\ OneActiveMission /\ RosterInv /\ Missions /\ Reqs /\ Pairs
  BY InvSplit
<1>1. /\ UNCHANGED <<member, activeAgency, revived, doubled, raced, torn, parted>>
      /\ UNCHANGED <<prepaid, fit, calls, mode, agency, courier, allocated>>
      /\ Finish(r) /\ ship' = "DELIVERED_VERIFIED"
  BY DEF VerifyDelivery, rosterVars, raceVars
<1>2. PICK m \in Mission \cup {None} : m = call[r].mission
  BY <1>0 DEF TypeOK, Call
<1>3. /\ status' = IF m = None THEN status ELSE [status EXCEPT ![m] = "COMPLETED"]
      /\ access' = [x \in Mission |-> IF access[x] = "ACTIVE" THEN "REVOKED" ELSE access[x]]
      /\ overtaken' = overtaken \cup
            {q \in Req : call[q].op = "chat" /\ call[q].mission \in
                             {x \in Mission : access[x] = "ACTIVE"}}
  BY <1>2 DEF VerifyDelivery, ClosedByDelivery
<1>4. \A x \in Mission : status'[x] = status[x] \/ (x = m /\ status'[x] = "COMPLETED")
  BY <1>0, <1>3 DEF TypeOK
<1>5. TypeOK'
  <2>1. prepaid' \in BOOLEAN /\ doubled' \in BOOLEAN
    BY <1>0, <1>1, Zenon DEF TypeOK
  <2>2. status' \in [Mission -> MissionStatus] /\ access' \in [Mission -> Access]
    BY <1>0, <1>3 DEF TypeOK, MissionStatus, Access
  <2>3. overtaken' \in SUBSET Req
    BY <1>0, <1>3 DEF TypeOK
  <2>. QED BY <1>0, <1>1, <2>1, <2>2, <2>3, FinishFacts DEF TypeOK
<1>6. OneActiveMission'
  BY <1>0, <1>1, <1>4 DEF OneActiveMission, Active, Underway
<1>7. RosterInv'
  <2>1. MembersLeavePool'
    BY <1>0, <1>1, <1>4 DEF RosterInv, MembersLeavePool, Underway
  <2>2. OneAgency'
    BY <1>0, <1>1 DEF RosterInv, OneAgency
  <2>3. AgencyMissionByMember'
    BY <1>0, <1>1, <1>4 DEF RosterInv, AgencyMissionByMember, Underway
  <2>. QED BY <2>1, <2>2, <2>3 DEF RosterInv
<1>8. Missions'
  <2>1. ASSUME NEW x \in Mission PROVE MissionInv(x)'
    <3>1. MissionInv(x) /\ (access'[x] = "NONE" <=> access[x] = "NONE") /\ access'[x] # "ACTIVE"
      BY <1>0, <1>3 DEF Missions
    <3>. QED BY <1>1, <1>4, <3>1 DEF MissionInv
  <2>. QED BY <2>1 DEF Missions
<1>9. Reqs'
  <2>1. ReqInv(r)'
    BY <1>0, <1>1, FinishFacts, EndedReq
  <2>2. ASSUME NEW q \in Req, q # r PROVE ReqInv(q)'
    <3>1. ReqInv(q) /\ pc'[q] = pc[q] /\ call'[q] = call[q]
      BY <1>0, <1>1, <2>2, FinishFacts DEF Reqs
    <3>2. \A x \in Mission : /\ status'[x] \in Active => status[x] \in Active
                             /\ status'[x] \in Underway => status[x] \in Underway
      BY <1>4 DEF Active, Underway
    <3>3. call[q].op = "chat" =>
             /\ access'[call[q].mission] # "NONE"
             /\ access[call[q].mission] = "ACTIVE" => q \in overtaken'
      <4>1. call[q].op = "chat" =>
               call[q].mission \in Mission /\ access[call[q].mission] # "NONE"
        BY <1>0, <3>1 DEF ReqInv, Formed, TypeOK, Call
      <4>. QED BY <1>3, <4>1
    <3>4. overtaken \subseteq overtaken'
      BY <1>3
    <3>. QED BY <1>1, <3>1, <3>2, <3>3, <3>4, OthersKept
  <2>. QED BY <2>1, <2>2 DEF Reqs
<1>10. Pairs'
  BY <1>0, <1>1, FinishFacts, PairsKept
<1>. QED BY <1>5, <1>6, <1>7, <1>8, <1>9, <1>10, InvJoin

LEMMA RecordHandoverStep ==
    ASSUME IInv, NEW m \in Mission, NEW s \in {"CARRYING", "HANDOVER_PENDING"},
           RecordHandover(m, s)
    PROVE  IInv'
<1>0. TypeOK /\ OneActiveMission /\ RosterInv /\ Missions /\ Reqs /\ Pairs
  BY InvSplit
<1>1. /\ UNCHANGED <<member, activeAgency, doubled, raced, torn, parted, overtaken>>
      /\ UNCHANGED <<prepaid, fit, calls, mode, agency, courier, access, allocated, pc, call>>
      /\ ship' = "OPEN" /\ status[m] # "ABSENT"
      /\ status' = [status EXCEPT ![m] = s]
      /\ revived' = IF status[m] = "COMPLETED" THEN revived \cup {m} ELSE revived
  BY DEF RecordHandover, rosterVars, raceVars, requestVars
<1>2. status'[m] = s /\ \A x \in Mission : x # m => status'[x] = status[x]
  BY <1>0, <1>1 DEF TypeOK
<1>3. /\ status[m] \in {"OFFERED"} \cup Underway \/ m \in revived'
      /\ revived \subseteq revived'
  BY <1>0, <1>1 DEF TypeOK, MissionStatus, Underway
<1>4. status[m] = "OFFERED" => courier[m] = None
  BY <1>0 DEF Missions, MissionInv
<1>5. \A x \in Mission : status'[x] \in Active => status[x] \in Active \/ x \in revived'
  BY <1>2, <1>3 DEF Active
<1>6. \A x \in Mission : status'[x] \in Underway /\ courier[x] # None =>
         status[x] \in Underway \/ x \in revived'
  BY <1>2, <1>3, <1>4
<1>7. TypeOK'
  <2>1. prepaid' \in BOOLEAN /\ doubled' \in BOOLEAN
    BY <1>0, <1>1, Zenon DEF TypeOK
  <2>2. status' \in [Mission -> MissionStatus] /\ revived' \in SUBSET Mission
    BY <1>0, <1>1 DEF TypeOK, MissionStatus
  <2>. QED BY <1>0, <1>1, <2>1, <2>2 DEF TypeOK
<1>8. OneActiveMission'
  BY <1>0, <1>1, <1>3, <1>5 DEF OneActiveMission
<1>9. RosterInv'
  <2>1. \A a \in Agency, x \in Mission : <<a, courier[x]>> \in member => courier[x] # None
    BY <1>0, MissionsAssumption DEF TypeOK
  <2>2. MembersLeavePool'
    BY <1>0, <1>1, <1>3, <1>6, <2>1 DEF RosterInv, MembersLeavePool
  <2>3. OneAgency'
    BY <1>0, <1>1 DEF RosterInv, OneAgency
  <2>4. AgencyMissionByMember'
    BY <1>0, <1>1, <1>3, <1>6 DEF RosterInv, AgencyMissionByMember
  <2>. QED BY <2>2, <2>3, <2>4 DEF RosterInv
<1>10. Missions'
  <2>1. ASSUME NEW x \in Mission PROVE MissionInv(x)'
    <3>1. MissionInv(x)
      BY <1>0 DEF Missions
    <3>2. status'[x] \in {"ABSENT", "OFFERED", "ASSIGNED"} => status'[x] = status[x] /\ x # m
      BY <1>2
    <3>3. x # m => (x \in revived' <=> x \in revived)
      BY <1>1
    <3>. QED BY <1>1, <3>1, <3>2, <3>3 DEF MissionInv
  <2>. QED BY <2>1 DEF Missions
<1>11. Reqs'
  <2>1. ASSUME NEW q \in Req PROVE ReqInv(q)'
    <3>1. ReqInv(q) /\ pc'[q] = pc[q] /\ call'[q] = call[q]
      BY <1>0, <1>1 DEF Reqs
    <3>2. /\ call[q].op \in {"attach", "detach"} => call[q].courier # None
          /\ call[q].op = "chat" => access'[call[q].mission] # "NONE"
      BY <1>1, <3>1 DEF ReqInv, Formed
    <3>3. call[q].op = "attach" => \A x \in Mission :
               mode'[x] = "PUBLIC_POOL" /\ courier'[x] = call[q].courier
                   /\ status'[x] \in Underway =>
               \/ x \in revived'
               \/ mode[x] = "PUBLIC_POOL" /\ courier[x] = call[q].courier
                   /\ status[x] \in Underway
      BY <1>1, <1>6, <3>2
    <3>4. call[q].op = "detach" => \A x \in Mission :
               agency'[x] = call[q].agency /\ courier'[x] = call[q].courier
                   /\ status'[x] \in Underway =>
               \/ x \in revived'
               \/ agency[x] = call[q].agency /\ courier[x] = call[q].courier
                   /\ status[x] \in Underway
      BY <1>1, <1>6, <3>2
    <3>. QED BY <1>1, <1>3, <1>5, <3>1, <3>2, <3>3, <3>4, OthersKept
  <2>. QED BY <2>1 DEF Reqs
<1>12. Pairs'
  BY <1>0, <1>1, PairsKept
<1>. QED BY <1>7, <1>8, <1>9, <1>10, <1>11, <1>12, InvJoin

-----------------------------------------------------------------------------
(* The steps that change the roster *)

LEMMA AttachStep ==
    ASSUME IInv, NEW r \in Req, Attach(r)
    PROVE  IInv'
<1>0. TypeOK /\ OneActiveMission /\ RosterInv /\ Missions /\ Reqs /\ Pairs
  BY InvSplit
<1>1. /\ UNCHANGED <<mode, status, agency, courier, access, allocated>>
      /\ UNCHANGED <<revived, overtaken, doubled, raced, torn, parted>>
      /\ UNCHANGED <<prepaid, ship, fit, calls>>
      /\ Finish(r) /\ Checked(r, "attach") /\ ReqInv(r)
  BY <1>0 DEF Attach, missionVars, raceVars, Reqs
<1>2. PICK a \in Agency, k \in Courier : a = call[r].agency /\ k = call[r].courier
  BY <1>0, <1>1 DEF ReqInv, Checked, Formed, TypeOK, Call
<1>3. member' = member \cup {<<a, k>>} /\ activeAgency' = [activeAgency EXCEPT ![k] = a]
  BY <1>2 DEF Attach
<1>4. /\ k \in torn \/ \A b \in Agency : <<b, k>> \in member => b = a
      /\ k \in raced \/ \A m \in Mission :
            mode[m] = "PUBLIC_POOL" /\ courier[m] = k /\ status[m] \in Underway => m \in revived
  BY <1>1, <1>2 DEF ReqInv, Checked
<1>5. TypeOK'
  <2>1. prepaid' \in BOOLEAN /\ doubled' \in BOOLEAN
    BY <1>0, <1>1, Zenon DEF TypeOK
  <2>2. member' \in SUBSET (Agency \X Courier) /\ activeAgency' \in [Courier -> Agency \cup {None}]
    BY <1>0, <1>3 DEF TypeOK
  <2>. QED BY <1>0, <1>1, <2>1, <2>2, FinishFacts DEF TypeOK
<1>6. OneActiveMission' /\ Missions'
  BY <1>0, <1>1 DEF OneActiveMission, Missions, MissionInv
<1>7. RosterInv'
  <2>1. MembersLeavePool'
    BY <1>0, <1>1, <1>3, <1>4 DEF RosterInv, MembersLeavePool
  <2>2. OneAgency'
    BY <1>0, <1>1, <1>3, <1>4 DEF RosterInv, OneAgency, TypeOK
  <2>3. AgencyMissionByMember'
    BY <1>0, <1>1, <1>3 DEF RosterInv, AgencyMissionByMember
  <2>. QED BY <2>1, <2>2, <2>3 DEF RosterInv
<1>8. Reqs'
  <2>1. ReqInv(r)'
    BY <1>0, <1>1, FinishFacts, EndedReq
  <2>2. ASSUME NEW q \in Req, q # r PROVE ReqInv(q)'
    <3>1. ReqInv(q) /\ PairInv(q, r) /\ pc'[q] = pc[q] /\ call'[q] = call[q]
      BY <1>0, <1>1, <2>2, FinishFacts DEF Reqs, Pairs
    <3>2. call[q].op \in {"accept", "attach"} =>
             \/ call[q].op = "accept" /\ call[q].courier \in raced'
             \/ call[q].op = "attach" /\ call[q].courier \in torn'
             \/ \A b \in Agency : <<b, call[q].courier>> \in member' =>
                                  <<b, call[q].courier>> \in member
      <4>1. call[q].courier = k =>
               /\ call[q].op = "accept" => k \in raced'
               /\ call[q].op = "attach" => k \in torn'
        BY <1>1, <1>2, <2>2, <3>1 DEF PairInv, Checked
      <4>. QED BY <1>3, <4>1
    <3>3. <<call[q].agency, call[q].courier>> \in member =>
             <<call[q].agency, call[q].courier>> \in member'
      BY <1>3
    <3>4. call[q].op = "chat" => access'[call[q].mission] # "NONE"
      BY <1>1, <3>1 DEF ReqInv
    <3>. QED BY <1>1, <3>1, <3>2, <3>3, <3>4, OthersKept
  <2>. QED BY <2>1, <2>2 DEF Reqs
<1>9. Pairs'
  BY <1>0, <1>1, FinishFacts, PairsKept
<1>. QED BY <1>5, <1>6, <1>7, <1>8, <1>9, InvJoin

LEMMA DetachStep ==
    ASSUME IInv, NEW r \in Req, Detach(r)
    PROVE  IInv'
<1>0. TypeOK /\ OneActiveMission /\ RosterInv /\ Missions /\ Reqs /\ Pairs
  BY InvSplit
<1>1. /\ UNCHANGED <<mode, status, agency, courier, access, allocated>>
      /\ UNCHANGED <<revived, overtaken, doubled, raced, torn, parted>>
      /\ UNCHANGED <<prepaid, ship, fit, calls>>
      /\ Finish(r) /\ Checked(r, "detach") /\ ReqInv(r)
  BY <1>0 DEF Detach, missionVars, raceVars, Reqs
<1>2. PICK a \in Agency, k \in Courier : a = call[r].agency /\ k = call[r].courier
  BY <1>0, <1>1 DEF ReqInv, Checked, Formed, TypeOK, Call
<1>3. member' = member \ {<<a, k>>} /\ activeAgency' = [activeAgency EXCEPT ![k] = None]
  BY <1>2 DEF Detach
<1>4. k \in parted \/ \A m \in Mission :
         agency[m] = a /\ courier[m] = k /\ status[m] \in Underway => m \in revived
  BY <1>1, <1>2 DEF ReqInv, Checked
<1>5. TypeOK'
  <2>1. prepaid' \in BOOLEAN /\ doubled' \in BOOLEAN
    BY <1>0, <1>1, Zenon DEF TypeOK
  <2>2. member' \in SUBSET (Agency \X Courier) /\ activeAgency' \in [Courier -> Agency \cup {None}]
    BY <1>0, <1>3 DEF TypeOK
  <2>. QED BY <1>0, <1>1, <2>1, <2>2, FinishFacts DEF TypeOK
<1>6. OneActiveMission' /\ Missions'
  BY <1>0, <1>1 DEF OneActiveMission, Missions, MissionInv
<1>7. RosterInv'
  <2>1. MembersLeavePool'
    BY <1>0, <1>1, <1>3 DEF RosterInv, MembersLeavePool
  <2>2. OneAgency'
    BY <1>0, <1>1, <1>3 DEF RosterInv, OneAgency, TypeOK
  <2>3. AgencyMissionByMember'
    BY <1>0, <1>1, <1>3, <1>4 DEF RosterInv, AgencyMissionByMember
  <2>. QED BY <2>1, <2>2, <2>3 DEF RosterInv
<1>8. Reqs'
  <2>1. ReqInv(r)'
    BY <1>0, <1>1, FinishFacts, EndedReq
  <2>2. ASSUME NEW q \in Req, q # r PROVE ReqInv(q)'
    <3>1. ReqInv(q) /\ PairInv(q, r) /\ pc'[q] = pc[q] /\ call'[q] = call[q]
      BY <1>0, <1>1, <2>2, FinishFacts DEF Reqs, Pairs
    <3>2. \A b \in Agency : <<b, call[q].courier>> \in member' =>
                            <<b, call[q].courier>> \in member
      BY <1>3
    <3>3. call[q].op = "assign" =>
             \/ call[q].courier \in parted'
             \/ <<call[q].agency, call[q].courier>> \in member =>
                <<call[q].agency, call[q].courier>> \in member'
      <4>1. call[q].courier = k /\ call[q].op = "assign" => k \in parted'
        BY <1>1, <1>2, <3>1 DEF PairInv, Checked
      <4>. QED BY <1>3, <4>1
    <3>4. call[q].op = "chat" => access'[call[q].mission] # "NONE"
      BY <1>1, <3>1 DEF ReqInv
    <3>. QED BY <1>1, <3>1, <3>2, <3>3, <3>4, OthersKept
  <2>. QED BY <2>1, <2>2 DEF Reqs
<1>9. Pairs'
  BY <1>0, <1>1, FinishFacts, PairsKept
<1>. QED BY <1>5, <1>6, <1>7, <1>8, <1>9, InvJoin

-----------------------------------------------------------------------------
(* The theorems *)

LEMMA StutterStep ==
    ASSUME IInv, UNCHANGED vars
    PROVE  IInv'
<1>0. TypeOK
  BY InvSplit
<1>1. /\ UNCHANGED <<mode, status, agency, courier, access, allocated, member, activeAgency,
                     revived, overtaken, doubled, raced, torn, parted>>
      /\ UNCHANGED <<prepaid, ship, fit, calls, pc, call>>
  BY DEF vars, missionVars, rosterVars, raceVars, requestVars
<1>2. prepaid' \in BOOLEAN /\ doubled' \in BOOLEAN
  BY <1>0, <1>1, Zenon DEF TypeOK
<1>3. TypeOK'
  BY <1>0, <1>1, <1>2 DEF TypeOK
<1>. QED BY <1>1, <1>3, QuietStep

LEMMA InductiveStep == IInv /\ [Next]_vars => IInv'
<1>. SUFFICES ASSUME IInv, [Next]_vars PROVE IInv'
  OBVIOUS
<1>1. ASSUME NEW r \in Req, Request(r) PROVE IInv'
  BY <1>1, StartStep, FailStep, DispatchStep, AcceptPublicStep, AssignByAgencyStep,
     VerifyDeliveryStep, CheckShipmentStep, CheckMissionsStep, AttachStep, DetachStep
     DEF Request
<1>2. ASSUME NEW m \in Mission, NEW s \in {"CARRYING", "HANDOVER_PENDING"}, RecordHandover(m, s)
      PROVE  IInv'
  BY <1>2, RecordHandoverStep
<1>. QED BY <1>1, <1>2, OutsideStep, StutterStep DEF Next

\* The invariant the properties rest on: what each request read before its
\* transaction is still true, or the race that made it stale has been noted.
THEOREM Invariant == Spec => []IInv
  BY Initially, InductiveStep, PTL DEF Spec

\* Every variable keeps its type.
THEOREM TypeCorrect == Spec => []TypeOK
  BY Invariant, PTL DEF IInv

\* dispatchShipment: a shipment has one active mission at most, unless two dispatches
\* overlapped or a completed mission was taken up again.
THEOREM OneMission == Spec => []OneActiveMission
  BY Invariant, PTL DEF IInv

\* A mission is paid for by one allocation at most, and only for a prepaid order.
THEOREM Allocations == Spec => []AllocatedOnce
<1>1. IInv => AllocatedOnce
  BY DEF IInv, MissionInv, AllocatedOnce
<1>. QED BY <1>1, Invariant, PTL

\* attachCourierToAgency, acceptPublicMission: a member of an agency carries no public
\* mission, unless he accepted it while he was being attached.
THEOREM MembersLeave == Spec => []MembersLeavePool
  BY Invariant, PTL DEF IInv

\* attachCourierToAgency: a courier has one agency, unless two were attaching him.
THEOREM AgencyOfCourier == Spec => []OneAgency
  BY Invariant, PTL DEF IInv

\* assignMissionByAgency, detachCourierFromAgency: an agency's mission is carried by
\* one of its members, unless he was being detached as it was assigned.
THEOREM MissionMembers == Spec => []AgencyMissionByMember
  BY Invariant, PTL DEF IInv

\* sendShipmentChatMessage: a message is written in an open chat, or by a request
\* that the verified delivery has overtaken.
THEOREM Messages == Spec => MessagesInMission
<1>1. IInv /\ [Next]_vars =>
         [\A r \in Req : SendMessage(r) =>
             access[call[r].mission] = "ACTIVE" \/ r \in overtaken]_vars
  BY DEF IInv, ReqInv, SendMessage, Checked
<1>. QED BY <1>1, Invariant, PTL DEF Spec, MessagesInMission

\* The agencies' rosters and the missions under way agree, overlapping requests and
\* handovers apart.
THEOREM RosterSound == Spec => []RosterKept
<1>1. OneAgency /\ MembersLeavePool /\ AgencyMissionByMember => RosterKept
  BY DEF RosterKept
<1>. QED BY <1>1, AgencyOfCourier, MembersLeave, MissionMembers, PTL

\* The shipment's missions implement MissionClaims: a mission is claimed once.
THEOREM Claimed == Spec => ClaimedOnce
<1>1. Init => Claims!Init
  BY DEF Init, Claims!Init
<1>2. IInv /\ [Next]_vars => [Claims!Next]_Claims!vars
  <2>. SUFFICES ASSUME IInv, [Next]_vars PROVE [Claims!Next]_Claims!vars
    OBVIOUS
  <2>0. TypeOK /\ Missions /\ Reqs
    BY InvSplit
  <2>1. ASSUME UNCHANGED <<courier, access>>, ship' = "OPEN" \/ ship' = ship
        PROVE  [Claims!Next]_Claims!vars
    <3>1. CASE ship' = ship
      BY <2>1, <3>1 DEF Claims!vars
    <3>2. CASE ship' = "OPEN"
      <4>1. Claims!Reopen
        BY <2>1, <3>2 DEF Claims!Reopen
      <4>. QED BY <4>1 DEF Claims!Next
    <3>. QED BY <2>1, <3>1, <3>2
  <2>2. ASSUME NEW m \in Mission, NEW k \in Courier, Claim(m, k), courier[m] = None
        PROVE  Claims!Next
    <3>1. /\ courier' = [courier EXCEPT ![m] = k]
          /\ {x \in Mission : access'[x] = "ACTIVE"} =
                {x \in Mission : access[x] = "ACTIVE"} \cup {m}
          /\ ship' = "OPEN"
      BY <2>0, <2>2 DEF Claim, TypeOK
    <3>2. Claims!Claim(m, k)
      BY <2>2, <3>1 DEF Claims!Claim
    <3>. QED BY <3>2 DEF Claims!Next
  <2>3. ASSUME NEW r \in Req, AcceptPublic(r) \/ AssignByAgency(r)
        PROVE  [Claims!Next]_Claims!vars
    <3>1. PICK m \in Mission, k \in Courier : m = call[r].mission /\ k = call[r].courier
      BY <2>0, <2>3
         DEF AcceptPublic, AssignByAgency, Checked, Reqs, ReqInv, Formed, TypeOK, Call
    <3>2. CASE AcceptPublic(r) /\ PublicClaimable(m)
      <4>1. Claim(m, k) /\ courier[m] = None
        BY <3>1, <3>2 DEF AcceptPublic, PublicClaimable
      <4>. QED BY <2>2, <4>1
    <3>3. CASE AssignByAgency(r) /\ AgencyClaimable(m, call[r].agency)
      <4>1. Claim(m, k)
        BY <3>1, <3>3 DEF AssignByAgency
      <4>2. courier[m] = None
        BY <2>0, <3>3 DEF AgencyClaimable, Missions, MissionInv
      <4>. QED BY <2>2, <4>1, <4>2
    <3>4. CASE \/ AcceptPublic(r) /\ ~PublicClaimable(m)
               \/ AssignByAgency(r) /\ ~AgencyClaimable(m, call[r].agency)
      <4>1. UNCHANGED <<courier, access, ship>>
        BY <3>1, <3>4 DEF AcceptPublic, AssignByAgency, missionVars
      <4>. QED BY <2>1, <4>1
    <3>. QED BY <2>3, <3>2, <3>3, <3>4
  <2>4. ASSUME NEW r \in Req, VerifyDelivery(r) PROVE Claims!Next
    <3>1. /\ courier' = courier /\ ship' = "DELIVERED_VERIFIED"
          /\ {x \in Mission : access'[x] = "ACTIVE"} = {}
      BY <2>4 DEF VerifyDelivery, ClosedByDelivery
    <3>2. Claims!Deliver
      BY <3>1 DEF Claims!Deliver
    <3>. QED BY <3>2 DEF Claims!Next
  <2>5. ASSUME NEW r \in Req, CheckShipment(r) PROVE [Claims!Next]_Claims!vars
    <3>1. courier' = courier /\ ship' = ship
      BY <2>5 DEF CheckShipment
    <3>2. \A x \in Mission : access'[x] = "ACTIVE" <=> access[x] = "ACTIVE"
      <4>1. CASE ship = "DELIVERED_VERIFIED"
        <5>1. access' = [access EXCEPT ![call[r].mission] = "REVOKED"]
          BY <2>5, <4>1 DEF CheckShipment
        <5>2. \A x \in Mission : access[x] # "ACTIVE"
          BY <2>0, <4>1 DEF Missions, MissionInv
        <5>. QED BY <2>0, <5>1, <5>2 DEF TypeOK
      <4>2. CASE ship # "DELIVERED_VERIFIED"
        BY <2>5, <4>2 DEF CheckShipment
      <4>. QED BY <4>1, <4>2
    <3>3. {x \in Mission : access'[x] = "ACTIVE"} = {x \in Mission : access[x] = "ACTIVE"}
      BY <3>2
    <3>. QED BY <3>1, <3>3 DEF Claims!vars
  <2>6. ASSUME NEW r \in Req, Request(r) PROVE [Claims!Next]_Claims!vars
    <3>1. CASE Start(r) \/ Fail(r) \/ SendMessage(r) \/ CheckMissions(r) \/ Attach(r) \/ Detach(r)
      <4>1. UNCHANGED <<courier, access, ship>>
        BY <3>1 DEF Start, Fail, SendMessage, CheckMissions, Attach, Detach, missionVars
      <4>. QED BY <2>1, <4>1
    <3>2. CASE Dispatch(r)
      BY <2>1, <3>2 DEF Dispatch
    <3>. QED BY <2>3, <2>4, <2>5, <2>6, <3>1, <3>2 DEF Request
  <2>7. ASSUME NEW m \in Mission, NEW s \in {"CARRYING", "HANDOVER_PENDING"}, RecordHandover(m, s)
        PROVE  [Claims!Next]_Claims!vars
    BY <2>1, <2>7 DEF RecordHandover
  <2>8. CASE RecordPassage
    BY <2>1, <2>8 DEF RecordPassage, missionVars
  <2>9. ASSUME NEW k \in Courier, NEW ok \in BOOLEAN, VerifyCourier(k, ok)
        PROVE  [Claims!Next]_Claims!vars
    BY <2>1, <2>9 DEF VerifyCourier, missionVars
  <2>10. CASE ConfirmPayment
    BY <2>1, <2>10 DEF ConfirmPayment, missionVars
  <2>11. CASE UNCHANGED vars
    BY <2>1, <2>11 DEF vars, missionVars
  <2>. QED BY <2>6, <2>7, <2>8, <2>9, <2>10, <2>11 DEF Next
<1>. QED BY <1>1, <1>2, Invariant, PTL DEF Spec, ClaimedOnce, Claims!Spec

=============================================================================
