---------------------------- MODULE Customer_proofs ----------------------------
(* The customer's side: his account and its session in AccountSession, and his  *)
(* purchases in a store, on his screens, in StoreCheckout.  The two share       *)
(* nothing, and each has its own specification and invariant.                   *)
EXTENDS AccountSession, StoreCheckout, TLAPS

Stage == {"idle", "issuing", "checked", "consumed", "hashing", "signing"}

-----------------------------------------------------------------------------
(* Requests *)

\* An idle slot has a job, of no operation.
LEMMA NoJobType == NoJob \in Job /\ NoJob.op = "none"
  BY DEF NoJob, Job, Purpose

IssueOf(p) == [NoJob EXCEPT !.op = "issue", !.purpose = p]

\* The job of a code to send is a job, and carries its purpose.
LEMMA IssueJob ==
    ASSUME NEW p \in Purpose
    PROVE  IssueOf(p) \in Job /\ IssueOf(p).op = "issue" /\ IssueOf(p).purpose = p
  BY DEF IssueOf, NoJob, Job, Purpose

\* A request that ends leaves its slot idle and the others as they were.
LEMMA FinishFacts ==
    ASSUME TypeOK, NEW r \in Req, Finish(r)
    PROVE  /\ pc' \in [Req -> Stage] /\ job' \in [Req -> Job]
           /\ pc'[r] = "idle" /\ job'[r] = NoJob
           /\ \A q \in Req : q # r => pc'[q] = pc[q] /\ job'[q] = job[q]
  BY NoJobType DEF TypeOK, Finish, Stage

\* A request that begins takes an idle slot and leaves the others as they were.
LEMMA BeginFacts ==
    ASSUME TypeOK, NEW r \in Req, NEW w \in Stage, NEW j \in Job, Begin(r, w, j)
    PROVE  /\ pc' \in [Req -> Stage] /\ job' \in [Req -> Job]
           /\ pc'[r] = w /\ job'[r] = j /\ pc[r] = "idle"
           /\ calls' \in Nat
           /\ \A q \in Req : q # r => pc'[q] = pc[q] /\ job'[q] = job[q]
  BY DEF TypeOK, Begin, Stage, At

-----------------------------------------------------------------------------
(* The invariant *)

OneIssue == \A q, r \in Req : job[q].op = "issue" /\ job[r].op = "issue" => q = r \/ crossed

\* What is known of the account and its session.
AccountInv ==
    /\ SessionOfPassword
    /\ BlockedOut
    /\ hash <= signed
    /\ ~exists => ~blocked /\ hash = 0

\* The parts of the invariant make the invariant, after a step.
LEMMA InvJoin ==
    ASSUME TypeOK', OneLiveCode', AccountInv', OneIssue', \A t \in Token : TokenInv(t)',
           \A c \in Code : CodeInv(c)', \A r \in Req : RequestInv(r)'
    PROVE  IInv'
  BY DEF IInv, AccountInv, OneIssue

\* The invariant gives its parts.
LEMMA InvSplit ==
    ASSUME IInv
    PROVE  /\ TypeOK /\ OneLiveCode /\ AccountInv /\ OneIssue
           /\ \A t \in Token : TokenInv(t)
           /\ \A c \in Code : CodeInv(c)
           /\ \A r \in Req : RequestInv(r)
  BY DEF IInv, AccountInv, OneIssue

\* A request knows what it knew: the account has not been written under it, or it has
\* been overtaken.
LEMMA OthersKept ==
    ASSUME NEW q \in Req, RequestInv(q), pc'[q] = pc[q], job'[q] = job[q],
           sent \in Nat, sent' \in Nat, sent <= sent',
           signed \in Nat, signed' \in Nat, signed <= signed', job[q] \in Job,
           exists => exists',
           \/ At(q, "idle") \/ q \in overtaken'
           \/ pw' = pw /\ (blocked' => blocked) /\ q \notin overtaken,
           At(q, "idle") => q \notin overtaken',
           crossed => crossed',
           \/ At(q, "issuing") => crossed'
           \/ \A c \in Code : row'[c] = "live" => row[c] = "live" /\ purpose'[c] = purpose[c]
    PROVE  RequestInv(q)'
<1>1. /\ job[q].code \in Nat /\ job[q].token \in Nat
  BY DEF Job
<1>2. /\ At(q, "idle")' <=> job'[q].op = "none"
      /\ At(q, "idle")' => q \notin overtaken'
      /\ At(q, "issuing")' <=> job'[q].op = "issue"
      /\ pc'[q] \in {"checked", "consumed"} <=> job'[q].op = "otp"
      /\ At(q, "signing")' <=> job'[q].op \in {"login", "refresh"}
  BY DEF RequestInv, At
<1>3. /\ job'[q].op = "otp" => job'[q].code \in 1 .. sent'
      /\ job'[q].op = "refresh" => job'[q].token \in 1 .. signed'
  BY <1>1 DEF RequestInv
<1>4. /\ At(q, "signing")' => exists'
      /\ At(q, "signing")' => job'[q].pw = pw' \/ job'[q].stray \/ q \in overtaken'
      /\ At(q, "signing")' /\ blocked' => q \in overtaken'
  BY DEF RequestInv, At
<1>5. At(q, "issuing")' =>
         crossed' \/ \A c \in Code : row'[c] = "live" => purpose'[c] # job'[q].purpose
  BY DEF RequestInv, At
<1>. QED BY <1>2, <1>3, <1>4, <1>5 DEF RequestInv

\* What is known of the codes, as a request that tries none comes or goes.
LEMMA CodesKept ==
    ASSUME NEW r \in Req, \A c \in Code : CodeInv(c),
           UNCHANGED <<row, attempts, sent, served>>, shared \subseteq shared',
           \A q \in Req : q # r => pc'[q] = pc[q] /\ job'[q] = job[q],
           job'[r].op # "otp"
    PROVE  \A c \in Code : CodeInv(c)'
  BY DEF CodeInv, Trying, At

\* What is known of the tokens, as a request that exchanges none comes or goes.
LEMMA TokensKept ==
    ASSUME NEW r \in Req, \A t \in Token : TokenInv(t), MaxCalls \in Nat,
           UNCHANGED <<exchanged, signed, forked>>, hash' \in {0, hash},
           \A q \in Req : q # r => job'[q] = job[q],
           job'[r].op # "refresh"
    PROVE  \A t \in Token : TokenInv(t)'
  BY DEF TokenInv, Token

\* The initial states satisfy the invariant.
LEMMA Initially == Init => IInv
<1>. SUFFICES ASSUME Init PROVE IInv
  OBVIOUS
<1>1. NoJob \in Job /\ NoJob.op = "none"
  BY NoJobType
<1>2. TypeOK
  <2>1. exists \in BOOLEAN /\ blocked \in BOOLEAN /\ stray \in BOOLEAN /\ crossed \in BOOLEAN
    BY Zenon DEF Init
  <2>2. /\ row \in [Code -> RowState] /\ purpose \in [Code -> Purpose]
        /\ attempts \in [Code -> Nat] /\ served \in [Code -> Nat]
        /\ exchanged \in [Token -> Nat]
        /\ pc \in [Req -> Stage] /\ job \in [Req -> Job]
    BY <1>1 DEF Init, RowState, Purpose, Stage
  <2>3. /\ pw \in Nat /\ hash \in Nat /\ sent \in 0 .. MaxCodes /\ calls \in Nat
        /\ signed \in Nat /\ under \in Nat
        /\ forked \in SUBSET Nat /\ shared \in SUBSET Code /\ overtaken \in SUBSET Req
    BY SessionAssumption DEF Init
  <2>. QED BY <2>1, <2>2, <2>3 DEF TypeOK, Stage
<1>3. \A r \in Req : RequestInv(r)
  BY <1>1 DEF Init, RequestInv, At
<1>4. \A c \in Code : CodeInv(c)
  BY <1>1, SessionAssumption DEF Init, CodeInv, Trying, Code
<1>5. \A t \in Token : TokenInv(t)
  BY <1>1, SessionAssumption DEF Init, TokenInv, Token
<1>. QED BY <1>1, <1>2, <1>3, <1>4, <1>5
         DEF IInv, Init, OneLiveCode, SessionOfPassword, BlockedOut

-----------------------------------------------------------------------------
(* Codes *)

\* A code about to be sent is the only one being issued.
LEMMA StartIssueStep ==
    ASSUME IInv, NEW r \in Req, StartIssue(r)
    PROVE  IInv'
<1>1. /\ TypeOK /\ AccountInv /\ OneLiveCode /\ OneIssue
      /\ (\A t \in Token : TokenInv(t)) /\ (\A c \in Code : CodeInv(c))
      /\ \A q \in Req : RequestInv(q)
  BY InvSplit
<1>2. /\ UNCHANGED <<exists, blocked, pw, hash, purpose, attempts, sent, signed, under, stray,
                     exchanged, forked, served, shared, overtaken>>
      /\ row' = [c \in Code |-> IF c \in Unconsumed(CurrentPurpose) THEN "expired" ELSE row[c]]
      /\ crossed' = (crossed \/ \E q \in Req : job[q].op = "issue")
      /\ Begin(r, "issuing", [NoJob EXCEPT !.op = "issue", !.purpose = CurrentPurpose])
  BY DEF StartIssue, Invalidated, accountVars, sessionVars
<1>3. PICK p \in Purpose : p = CurrentPurpose
  BY DEF CurrentPurpose, Purpose
<1>4. PICK j \in Job : j = IssueOf(p) /\ j.op = "issue" /\ j.purpose = p
  BY IssueJob
<1>5. /\ pc' \in [Req -> Stage] /\ job' \in [Req -> Job] /\ calls' \in Nat
      /\ pc'[r] = "issuing" /\ job'[r] = j /\ pc[r] = "idle"
      /\ \A q \in Req : q # r => pc'[q] = pc[q] /\ job'[q] = job[q]
  <2>1. Begin(r, "issuing", j) /\ "issuing" \in Stage
    BY <1>2, <1>3, <1>4 DEF Stage, IssueOf
  <2>. QED BY <2>1, <1>1, BeginFacts
<1>6. /\ row' \in [Code -> RowState]
      /\ \A c \in Code : /\ row'[c] = "live" => row[c] = "live" /\ purpose[c] # p
                         /\ row'[c] = "none" <=> row[c] = "none"
                         /\ row[c] = "consumed" => row'[c] = "consumed"
  BY <1>1, <1>2, <1>3 DEF TypeOK, RowState, Unconsumed
<1>7. crossed' \in BOOLEAN
  BY <1>2, Zenon
<1>8. TypeOK'
  BY <1>1, <1>2, <1>5, <1>6, <1>7 DEF TypeOK, Stage
<1>9. OneLiveCode' /\ AccountInv'
  BY <1>1, <1>2, <1>6 DEF OneLiveCode, AccountInv, SessionOfPassword, BlockedOut
<1>10. OneIssue'
  BY <1>1, <1>2, <1>5 DEF OneIssue
<1>11. \A t \in Token : TokenInv(t)'
  BY <1>1, <1>2, <1>4, <1>5, TokensKept, SessionAssumption
<1>12. \A c \in Code : CodeInv(c)'
  <2>1. \A q \in Req, c \in Code : Trying(q, c)' => q # r /\ Trying(q, c) /\ pc'[q] = pc[q]
    BY <1>4, <1>5 DEF Trying
  <2>. QED BY <2>1, <1>1, <1>2, <1>6 DEF CodeInv, At
<1>13. \A q \in Req : RequestInv(q)'
  <2>1. RequestInv(r)'
    <3>1. r \notin overtaken'
      BY <1>1, <1>2, <1>5 DEF RequestInv, At
    <3>2. \A c \in Code : row'[c] = "live" => purpose'[c] # job'[r].purpose
      BY <1>2, <1>4, <1>5, <1>6
    <3>. QED BY <3>1, <3>2, <1>4, <1>5 DEF RequestInv, At
  <2>2. ASSUME NEW q \in Req, q # r PROVE RequestInv(q)'
    BY <1>1, <1>2, <1>5, <1>6, <2>2, OthersKept DEF TypeOK, RequestInv
  <2>. QED BY <2>1, <2>2
<1>. QED BY <1>8, <1>9, <1>10, <1>11, <1>12, <1>13, InvJoin

\* A new code replaces the live one of its purpose.
LEMMA CreateCodeStep ==
    ASSUME IInv, NEW r \in Req, CreateCode(r)
    PROVE  IInv'
<1>1. /\ TypeOK /\ AccountInv /\ OneLiveCode /\ OneIssue
      /\ (\A t \in Token : TokenInv(t)) /\ (\A c \in Code : CodeInv(c))
      /\ \A q \in Req : RequestInv(q)
  BY InvSplit
<1>0. sent + 1 \in Code
  BY <1>1, SessionAssumption DEF CreateCode, TypeOK, Code
<1>. PICK n \in Code : n = sent + 1
  BY <1>0
<1>2. /\ UNCHANGED <<exists, blocked, pw, hash, attempts, signed, under, stray, exchanged,
                     forked, calls, served, shared, crossed>>
      /\ At(r, "issuing") /\ sent < MaxCodes /\ sent' = n
      /\ row' = [row EXCEPT ![n] = "live"]
      /\ purpose' = [purpose EXCEPT ![n] = job[r].purpose]
      /\ Finish(r) /\ overtaken' = overtaken \ {r}
  BY DEF CreateCode, accountVars, sessionVars
<1>3. /\ pc' \in [Req -> Stage] /\ job' \in [Req -> Job]
      /\ pc'[r] = "idle" /\ job'[r] = NoJob /\ NoJob.op = "none"
      /\ \A q \in Req : q # r => pc'[q] = pc[q] /\ job'[q] = job[q]
  BY <1>1, <1>2, FinishFacts, NoJobType
<1>4. /\ n \in Code /\ n \in Nat /\ sent \in Nat /\ sent' \in 0 .. MaxCodes
      /\ job[r].purpose \in Purpose
  BY <1>1, <1>2, SessionAssumption DEF TypeOK, Code, Job
<1>5. /\ row' \in [Code -> RowState] /\ row'[n] = "live"
      /\ purpose' \in [Code -> Purpose] /\ purpose'[n] = job[r].purpose
      /\ \A c \in Code : c # n => row'[c] = row[c] /\ purpose'[c] = purpose[c]
  BY <1>1, <1>2, <1>4 DEF TypeOK, RowState
<1>6. row[n] = "none" /\ attempts[n] = 0 /\ served[n] = 0
  BY <1>1, <1>4 DEF CodeInv, TypeOK
<1>7. TypeOK'
  BY <1>1, <1>2, <1>3, <1>4, <1>5 DEF TypeOK, Stage
<1>8. OneLiveCode'
  <2>1. crossed \/ \A c \in Code : row[c] = "live" => purpose[c] # job[r].purpose
    BY <1>1, <1>2 DEF RequestInv
  <2>. QED BY <2>1, <1>1, <1>2, <1>5 DEF OneLiveCode
<1>9. AccountInv'
  BY <1>1, <1>2 DEF AccountInv, SessionOfPassword, BlockedOut
<1>10. OneIssue'
  BY <1>1, <1>2, <1>3 DEF OneIssue
<1>11. \A t \in Token : TokenInv(t)'
  BY <1>1, <1>2, <1>3, TokensKept, SessionAssumption
<1>12. \A q \in Req, c \in Code : Trying(q, c)' => q # r /\ Trying(q, c) /\ pc'[q] = pc[q] /\ c # n
  BY <1>1, <1>2, <1>3, <1>4 DEF Trying, RequestInv
<1>13. \A c \in Code : CodeInv(c)'
  <2>1. CodeInv(n)'
    <3>1. attempts'[n] = 0 /\ served'[n] = 0 /\ 0 <= MaxTries
      BY <1>2, <1>6, SessionAssumption
    <3>2. \A q \in Req : ~Trying(q, n)'
      BY <1>4, <1>12
    <3>. QED BY <1>2, <1>4, <1>5, <3>1, <3>2 DEF CodeInv
  <2>2. ASSUME NEW c \in Code, c # n PROVE CodeInv(c)'
    <3>1. c > sent' <=> c > sent
      BY <1>2, <1>4, <2>2 DEF Code
    <3>. QED BY <3>1, <2>2, <1>1, <1>2, <1>5, <1>12 DEF CodeInv, At
  <2>. QED BY <2>1, <2>2
<1>14. \A q \in Req : RequestInv(q)'
  <2>1. RequestInv(r)'
    BY <1>2, <1>3 DEF RequestInv, At
  <2>2. ASSUME NEW q \in Req, q # r PROVE RequestInv(q)'
    <3>1. At(q, "issuing") => crossed'
      BY <1>1, <1>2, <2>2 DEF RequestInv, OneIssue
    <3>2. RequestInv(q) /\ job[q] \in Job /\ signed \in Nat /\ (At(q, "idle") => q \notin overtaken')
      BY <1>1, <1>2 DEF TypeOK, RequestInv
    <3>3. sent \in Nat /\ sent' \in Nat /\ sent <= sent'
      BY <1>2, <1>4
    <3>4. q \in overtaken' \/ q \notin overtaken
      BY <1>2, <2>2
    <3>. QED BY <1>2, <1>3, <2>2, <3>1, <3>2, <3>3, <3>4, OthersKept
  <2>. QED BY <2>1, <2>2
<1>. QED BY <1>7, <1>8, <1>9, <1>10, <1>11, <1>13, <1>14, InvJoin

\* No code is made live, and the account, its session and the requests stay.
LEMMA RowsOnly ==
    ASSUME IInv,
           UNCHANGED <<exists, blocked, pw, hash, purpose, sent, signed, under, stray,
                       exchanged, forked, pc, job, crossed, overtaken>>,
           \A c \in Code : row'[c] = "live" => row[c] = "live"
    PROVE  /\ OneLiveCode' /\ AccountInv' /\ OneIssue'
           /\ (\A t \in Token : TokenInv(t)') /\ (\A r \in Req : RequestInv(r)')
<1>1. /\ TypeOK /\ AccountInv /\ OneLiveCode /\ OneIssue
      /\ (\A t \in Token : TokenInv(t)) /\ \A q \in Req : RequestInv(q)
  BY InvSplit
<1>2. OneLiveCode' /\ AccountInv' /\ OneIssue'
  BY <1>1 DEF OneLiveCode, AccountInv, SessionOfPassword, BlockedOut, OneIssue
<1>3. \A t \in Token : TokenInv(t)'
  BY <1>1 DEF TokenInv
<1>4. \A r \in Req : RequestInv(r)'
  BY <1>1 DEF RequestInv, At
<1>. QED BY <1>2, <1>3, <1>4

\* A code that expires is tried by nobody who has not read it.
LEMMA ExpireCodeStep ==
    ASSUME IInv, NEW c \in Code, ExpireCode(c)
    PROVE  IInv'
<1>1. TypeOK /\ \A d \in Code : CodeInv(d)
  BY InvSplit
<1>2. /\ UNCHANGED <<exists, blocked, pw, hash, purpose, attempts, sent, signed, under, stray,
                     exchanged, forked, pc, job, calls, served, shared, crossed, overtaken>>
      /\ row[c] = "live" /\ row' = [row EXCEPT ![c] = "expired"]
  BY DEF ExpireCode, accountVars, sessionVars, requestVars
<1>3. /\ row' \in [Code -> RowState] /\ row'[c] = "expired"
      /\ \A d \in Code : d # c => row'[d] = row[d]
  BY <1>1, <1>2 DEF TypeOK, RowState
<1>4. TypeOK'
  BY <1>1, <1>2, <1>3 DEF TypeOK
<1>5. \A d \in Code : CodeInv(d)'
  BY <1>1, <1>2, <1>3 DEF CodeInv, Trying, At
<1>. QED BY <1>2, <1>3, <1>4, <1>5, RowsOnly, InvJoin

CheckOf(p, c, right) ==
    [NoJob EXCEPT !.op = "otp", !.purpose = p, !.code = c, !.right = right]

\* The job of a code to check is a job, and carries the code read.
LEMMA CheckJob ==
    ASSUME NEW p \in Purpose, NEW c \in Nat, NEW right \in BOOLEAN
    PROVE  /\ CheckOf(p, c, right) \in Job /\ CheckOf(p, c, right).op = "otp"
           /\ CheckOf(p, c, right).code = c
  BY DEF CheckOf, NoJob, Job, Purpose

\* A check that begins has read a live code.
LEMMA StartCodeStep ==
    ASSUME IInv, NEW r \in Req, NEW c \in Code, NEW right \in BOOLEAN, StartCode(r, c, right)
    PROVE  IInv'
<1>1. /\ TypeOK /\ AccountInv /\ OneLiveCode /\ OneIssue
      /\ (\A t \in Token : TokenInv(t)) /\ (\A d \in Code : CodeInv(d))
      /\ \A q \in Req : RequestInv(q)
  BY InvSplit
<1>2. /\ UNCHANGED <<exists, blocked, pw, hash, row, purpose, attempts, sent, signed, under,
                     stray, exchanged, forked, served, crossed, overtaken>>
      /\ row[c] = "live" /\ attempts[c] < MaxTries
      /\ Begin(r, "checked", CheckOf(CurrentPurpose, c, right))
      /\ shared' = IF \E q \in Req : job[q].op = "otp" /\ job[q].code = c
                     THEN shared \cup {c} ELSE shared
  BY DEF StartCode, Triable, CheckOf, accountVars, codeVars, sessionVars
<1>3. c \in Nat /\ CurrentPurpose \in Purpose
  BY SessionAssumption DEF Code, CurrentPurpose, Purpose
<1>4. PICK j \in Job : j = CheckOf(CurrentPurpose, c, right) /\ j.op = "otp" /\ j.code = c
  <2>1. PICK p \in Purpose : p = CurrentPurpose
    BY <1>3
  <2>. QED BY <2>1, <1>3, CheckJob
<1>5. /\ pc' \in [Req -> Stage] /\ job' \in [Req -> Job] /\ calls' \in Nat
      /\ pc'[r] = "checked" /\ job'[r] = j /\ pc[r] = "idle"
      /\ \A q \in Req : q # r => pc'[q] = pc[q] /\ job'[q] = job[q]
  <2>1. Begin(r, "checked", j) /\ "checked" \in Stage
    BY <1>2, <1>4 DEF Stage
  <2>. QED BY <2>1, <1>1, BeginFacts
<1>6. TypeOK'
  BY <1>1, <1>2, <1>5 DEF TypeOK, Stage
<1>7. OneLiveCode' /\ AccountInv'
  BY <1>1, <1>2 DEF OneLiveCode, AccountInv, SessionOfPassword, BlockedOut
<1>8. OneIssue'
  BY <1>1, <1>2, <1>4, <1>5 DEF OneIssue
<1>9. \A t \in Token : TokenInv(t)'
  BY <1>1, <1>2, <1>4, <1>5, TokensKept, SessionAssumption
<1>10. \A d \in Code : CodeInv(d)'
  <2>1. \A q \in Req, d \in Code : Trying(q, d)' =>
           \/ q = r /\ d = c /\ At(q, "checked")'
           \/ q # r /\ Trying(q, d) /\ pc'[q] = pc[q]
    BY <1>4, <1>5 DEF Trying, At
  <2>2. c \notin shared' => c \notin shared /\ \A q \in Req : ~Trying(q, c)
    BY <1>2 DEF Trying
  <2>3. CodeInv(c)'
    <3>1. c \notin shared' => served[c] = 0
      BY <2>2, <1>1, <1>2 DEF CodeInv, TypeOK
    <3>. QED BY <2>1, <2>2, <3>1, <1>1, <1>2, <1>5 DEF CodeInv, At
  <2>4. ASSUME NEW d \in Code, d # c PROVE CodeInv(d)'
    <3>1. d \notin shared' => d \notin shared
      BY <1>2
    <3>. QED BY <2>1, <2>4, <3>1, <1>1, <1>2, <1>5 DEF CodeInv, At
  <2>. QED BY <2>3, <2>4
<1>11. \A q \in Req : RequestInv(q)'
  <2>1. RequestInv(r)'
    <3>1. r \notin overtaken'
      BY <1>1, <1>2, <1>5 DEF RequestInv, At
    <3>2. c \in 1 .. sent'
      BY <1>1, <1>2, <1>3 DEF CodeInv, TypeOK, Code
    <3>. QED BY <3>1, <3>2, <1>4, <1>5 DEF RequestInv, At
  <2>2. ASSUME NEW q \in Req, q # r PROVE RequestInv(q)'
    BY <1>1, <1>2, <1>5, <2>2, OthersKept DEF TypeOK, RequestInv
  <2>. QED BY <2>1, <2>2
<1>. QED BY <1>6, <1>7, <1>8, <1>9, <1>10, <1>11, InvJoin

\* What a request knew of its code is nobody else's, unless the code is shared.
LEMMA TryingAlone ==
    ASSUME IInv, NEW r \in Req, At(r, "checked") \/ At(r, "consumed")
    PROVE  /\ job[r] \in Job /\ job[r].op = "otp" /\ job[r].code \in Code
           /\ row[job[r].code] # "none"
           /\ job[r].code \in shared \/ \A q \in Req : Trying(q, job[r].code) => q = r
<1>1. TypeOK /\ RequestInv(r) /\ \A c \in Code : CodeInv(c)
  BY InvSplit
<1>2. job[r] \in Job /\ job[r].op = "otp" /\ job[r].code \in 1 .. sent
  BY <1>1 DEF RequestInv, At, TypeOK
<1>3. job[r].code \in Code
  BY <1>1, <1>2, SessionAssumption DEF TypeOK, Code
<1>4. row[job[r].code] # "none"
  BY <1>1, <1>2, <1>3, SessionAssumption DEF CodeInv, TypeOK, Code
<1>5. Trying(r, job[r].code)
  BY <1>2 DEF Trying
<1>. QED BY <1>1, <1>2, <1>3, <1>4, <1>5 DEF CodeInv

\* A wrong code counts a try, and consumes nothing.
LEMMA WrongCodeStep ==
    ASSUME IInv, NEW r \in Req, WrongCode(r)
    PROVE  IInv'
<1>1. /\ TypeOK /\ AccountInv /\ OneLiveCode /\ OneIssue
      /\ (\A t \in Token : TokenInv(t)) /\ (\A d \in Code : CodeInv(d))
      /\ \A q \in Req : RequestInv(q)
  BY InvSplit
<1>2. At(r, "checked")
  BY DEF WrongCode
<1>3. PICK c \in Code : c = job[r].code
  BY <1>2, TryingAlone
<1>4. /\ UNCHANGED <<exists, blocked, pw, hash, row, purpose, sent, signed, under, stray,
                     exchanged, forked, calls, served, shared, crossed>>
      /\ attempts' = [attempts EXCEPT ![c] = @ + 1]
      /\ Finish(r) /\ overtaken' = overtaken \ {r}
  BY <1>3 DEF WrongCode, CountedUp, accountVars, sessionVars
<1>5. /\ pc' \in [Req -> Stage] /\ job' \in [Req -> Job]
      /\ pc'[r] = "idle" /\ job'[r] = NoJob /\ NoJob.op = "none"
      /\ \A q \in Req : q # r => pc'[q] = pc[q] /\ job'[q] = job[q]
  BY <1>1, <1>4, FinishFacts, NoJobType
<1>6. /\ attempts' \in [Code -> Nat] /\ attempts'[c] = attempts[c] + 1
      /\ \A d \in Code : d # c => attempts'[d] = attempts[d]
  BY <1>1, <1>4 DEF TypeOK
<1>7. TypeOK'
  BY <1>1, <1>4, <1>5, <1>6 DEF TypeOK, Stage
<1>8. OneLiveCode' /\ AccountInv'
  BY <1>1, <1>4 DEF OneLiveCode, AccountInv, SessionOfPassword, BlockedOut
<1>9. OneIssue'
  BY <1>1, <1>4, <1>5 DEF OneIssue
<1>10. \A t \in Token : TokenInv(t)'
  BY <1>1, <1>4, <1>5, TokensKept, SessionAssumption
<1>11. \A d \in Code : CodeInv(d)'
  <2>1. \A q \in Req, d \in Code : Trying(q, d)' => q # r /\ Trying(q, d) /\ pc'[q] = pc[q]
    BY <1>5 DEF Trying
  <2>2. CodeInv(c)'
    <3>1. row[c] # "none" /\ (c \in shared \/ \A q \in Req : Trying(q, c) => q = r)
      BY <1>2, <1>3, TryingAlone
    <3>2. Trying(r, c)
      BY <1>2, <1>3, TryingAlone DEF Trying
    <3>3. c \notin shared => attempts[c] < MaxTries
      BY <1>1, <1>2, <3>2 DEF CodeInv
    <3>4. c \notin shared' => attempts'[c] <= MaxTries
      BY <3>3, <1>1, <1>4, <1>6, SessionAssumption DEF TypeOK
    <3>5. CodeInv(c) /\ c \notin shared' => \A q \in Req : ~Trying(q, c)'
      BY <3>1, <2>1, <1>1, <1>4
    <3>. QED BY <3>1, <3>4, <3>5, <1>1, <1>4 DEF CodeInv
  <2>3. ASSUME NEW d \in Code, d # c PROVE CodeInv(d)'
    BY <2>1, <2>3, <1>1, <1>4, <1>6 DEF CodeInv, At
  <2>. QED BY <2>2, <2>3
<1>12. \A q \in Req : RequestInv(q)'
  <2>1. RequestInv(r)'
    BY <1>4, <1>5 DEF RequestInv, At
  <2>2. ASSUME NEW q \in Req, q # r PROVE RequestInv(q)'
    BY <1>1, <1>4, <1>5, <2>2, OthersKept DEF TypeOK, RequestInv
  <2>. QED BY <2>1, <2>2
<1>. QED BY <1>7, <1>8, <1>9, <1>10, <1>11, <1>12, InvJoin

\* A right code is consumed, by one request unless it is shared.
LEMMA ConsumeCodeStep ==
    ASSUME IInv, NEW r \in Req, ConsumeCode(r)
    PROVE  IInv'
<1>1. /\ TypeOK /\ AccountInv /\ OneLiveCode /\ OneIssue
      /\ (\A t \in Token : TokenInv(t)) /\ (\A d \in Code : CodeInv(d))
      /\ \A q \in Req : RequestInv(q)
  BY InvSplit
<1>2. At(r, "checked")
  BY DEF ConsumeCode
<1>3. PICK c \in Code : c = job[r].code
  BY <1>2, TryingAlone
<1>4. /\ UNCHANGED <<exists, blocked, pw, hash, purpose, attempts, sent, signed, under, stray,
                     exchanged, forked, job, calls, served, shared, crossed, overtaken>>
      /\ row' = [row EXCEPT ![c] = "consumed"]
      /\ pc' = [pc EXCEPT ![r] = "consumed"]
  BY <1>3 DEF ConsumeCode, Go, MarkedUsed, accountVars, sessionVars
<1>5. /\ pc' \in [Req -> Stage] /\ pc'[r] = "consumed"
      /\ \A q \in Req : q # r => pc'[q] = pc[q]
  BY <1>1, <1>4 DEF TypeOK, Stage
<1>6. /\ row' \in [Code -> RowState] /\ row'[c] = "consumed"
      /\ \A d \in Code : d # c => row'[d] = row[d]
  BY <1>1, <1>4 DEF TypeOK, RowState
<1>7. TypeOK'
  BY <1>1, <1>4, <1>5, <1>6 DEF TypeOK, Stage
<1>8. OneLiveCode' /\ AccountInv' /\ OneIssue'
  BY <1>1, <1>4, <1>6 DEF OneLiveCode, AccountInv, SessionOfPassword, BlockedOut, OneIssue
<1>9. \A t \in Token : TokenInv(t)'
  BY <1>1, <1>4 DEF TokenInv
<1>10. \A d \in Code : CodeInv(d)'
  <2>1. \A q \in Req, d \in Code : Trying(q, d)' <=> Trying(q, d)
    BY <1>4 DEF Trying
  <2>2. CodeInv(c)'
    <3>1. row[c] # "none" /\ Trying(r, c)
      BY <1>2, <1>3, TryingAlone DEF Trying
    <3>2. c > sent' <=> row'[c] = "none"
      BY <3>1, <1>1, <1>4, <1>6 DEF CodeInv
    <3>. QED BY <2>1, <3>1, <3>2, <1>1, <1>4, <1>5, <1>6 DEF CodeInv, At
  <2>3. ASSUME NEW d \in Code, d # c PROVE CodeInv(d)'
    <3>1. ~Trying(r, d)
      BY <1>3, <2>3 DEF Trying
    <3>. QED BY <2>1, <2>3, <3>1, <1>1, <1>4, <1>5, <1>6 DEF CodeInv, At
  <2>. QED BY <2>2, <2>3
<1>11. \A q \in Req : RequestInv(q)'
  <2>1. RequestInv(r)'
    <3>1. job[r].op = "otp"
      BY <1>2, TryingAlone
    <3>. QED BY <3>1, <1>1, <1>2, <1>4, <1>5 DEF RequestInv, At
  <2>2. ASSUME NEW q \in Req, q # r PROVE RequestInv(q)'
    BY <1>1, <1>4, <1>5, <1>6, <2>2, OthersKept DEF TypeOK, RequestInv
  <2>. QED BY <2>1, <2>2
<1>. QED BY <1>7, <1>8, <1>9, <1>10, <1>11, InvJoin

\* A request that fails has written nothing more.
LEMMA FailStep ==
    ASSUME IInv, NEW r \in Req, Fail(r)
    PROVE  IInv'
<1>1. /\ TypeOK /\ AccountInv /\ OneLiveCode /\ OneIssue
      /\ (\A t \in Token : TokenInv(t)) /\ (\A d \in Code : CodeInv(d))
      /\ \A q \in Req : RequestInv(q)
  BY InvSplit
<1>2. /\ UNCHANGED <<exists, blocked, pw, hash, row, purpose, attempts, sent, signed, under,
                     stray, exchanged, forked, calls, served, shared, crossed>>
      /\ Finish(r) /\ overtaken' = overtaken \ {r}
  BY DEF Fail, accountVars, codeVars, sessionVars
<1>3. /\ pc' \in [Req -> Stage] /\ job' \in [Req -> Job]
      /\ pc'[r] = "idle" /\ job'[r] = NoJob /\ NoJob.op = "none"
      /\ \A q \in Req : q # r => pc'[q] = pc[q] /\ job'[q] = job[q]
  BY <1>1, <1>2, FinishFacts, NoJobType
<1>4. TypeOK'
  BY <1>1, <1>2, <1>3 DEF TypeOK, Stage
<1>5. OneLiveCode' /\ AccountInv'
  BY <1>1, <1>2 DEF OneLiveCode, AccountInv, SessionOfPassword, BlockedOut
<1>6. OneIssue'
  BY <1>1, <1>2, <1>3 DEF OneIssue
<1>7. \A t \in Token : TokenInv(t)'
  BY <1>1, <1>2, <1>3, TokensKept, SessionAssumption
<1>8. \A d \in Code : CodeInv(d)'
  BY <1>1, <1>2, <1>3, CodesKept
<1>9. \A q \in Req : RequestInv(q)'
  <2>1. RequestInv(r)'
    BY <1>2, <1>3 DEF RequestInv, At
  <2>2. ASSUME NEW q \in Req, q # r PROVE RequestInv(q)'
    BY <1>1, <1>2, <1>3, <2>2, OthersKept DEF TypeOK, RequestInv
  <2>. QED BY <2>1, <2>2
<1>. QED BY <1>4, <1>5, <1>6, <1>7, <1>8, <1>9, InvJoin

-----------------------------------------------------------------------------
(* The password *)

\* The code that lets a password be set has let none be set before.
LEMMA CodeServes ==
    ASSUME IInv, NEW r \in Req, At(r, "consumed"), NEW c \in Code, c = job[r].code,
           served' = [served EXCEPT ![c] = @ + 1],
           UNCHANGED <<row, attempts, sent, shared>>,
           \A q \in Req : q # r => pc'[q] = pc[q] /\ job'[q] = job[q],
           job'[r].op # "otp"
    PROVE  (\A d \in Code : CodeInv(d)') /\ served' \in [Code -> Nat]
<1>1. TypeOK /\ \A d \in Code : CodeInv(d)
  BY InvSplit
<1>2. /\ served' \in [Code -> Nat] /\ served'[c] = served[c] + 1
      /\ \A d \in Code : d # c => served'[d] = served[d]
  BY <1>1 DEF TypeOK
<1>3. \A q \in Req, d \in Code : Trying(q, d)' => q # r /\ Trying(q, d) /\ pc'[q] = pc[q]
  BY DEF Trying
<1>4. CodeInv(c)'
  <2>1. row[c] # "none" /\ (c \in shared \/ \A q \in Req : Trying(q, c) => q = r)
    BY TryingAlone
  <2>2. Trying(r, c)
    BY TryingAlone DEF Trying
  <2>3. c \notin shared => served[c] = 0 /\ row[c] = "consumed"
    BY <1>1, <2>2 DEF CodeInv
  <2>4. c \notin shared' => served'[c] = 1 /\ row'[c] = "consumed" /\ \A q \in Req : ~Trying(q, c)'
    BY <2>1, <2>3, <1>2, <1>3
  <2>. QED BY <2>1, <2>4, <1>1 DEF CodeInv
<1>5. ASSUME NEW d \in Code, d # c PROVE CodeInv(d)'
  BY <1>1, <1>2, <1>3, <1>5 DEF CodeInv, At
<1>. QED BY <1>2, <1>4, <1>5

\* A new password ends the session, and overtakes the other requests.
LEMMA PasswordSet ==
    ASSUME IInv, NEW r \in Req, pw' = pw + 1, hash' = 0, Overtakes(r), Finish(r),
           UNCHANGED <<exists, blocked, row, purpose, attempts, sent, signed, under, stray,
                       exchanged, forked, calls, shared, crossed>>,
           served' \in [Code -> Nat], \A d \in Code : CodeInv(d)'
    PROVE  IInv'
<1>1. /\ TypeOK /\ AccountInv /\ OneLiveCode /\ OneIssue
      /\ (\A t \in Token : TokenInv(t)) /\ \A q \in Req : RequestInv(q)
  BY InvSplit
<1>2. /\ pc' \in [Req -> Stage] /\ job' \in [Req -> Job]
      /\ pc'[r] = "idle" /\ job'[r] = NoJob /\ NoJob.op = "none"
      /\ \A q \in Req : q # r => pc'[q] = pc[q] /\ job'[q] = job[q]
  BY <1>1, FinishFacts, NoJobType
<1>3. overtaken' = {q \in Req \ {r} : ~At(q, "idle")}
  BY DEF Overtakes
<1>4. TypeOK'
  BY <1>1, <1>2, <1>3 DEF TypeOK, Stage
<1>5. OneLiveCode'
  BY <1>1 DEF OneLiveCode
<1>6. AccountInv'
  BY <1>1 DEF AccountInv, SessionOfPassword, BlockedOut, TypeOK
<1>7. OneIssue'
  BY <1>1, <1>2 DEF OneIssue
<1>8. \A t \in Token : TokenInv(t)'
  BY <1>1, <1>2, TokensKept, SessionAssumption
<1>9. \A q \in Req : RequestInv(q)'
  <2>1. RequestInv(r)'
    BY <1>2, <1>3 DEF RequestInv, At
  <2>2. ASSUME NEW q \in Req, q # r PROVE RequestInv(q)'
    BY <1>1, <1>2, <1>3, <2>2, OthersKept DEF TypeOK, RequestInv
  <2>. QED BY <2>1, <2>2
<1>. QED BY <1>4, <1>5, <1>6, <1>7, <1>8, <1>9, InvJoin

\* A reset writes the password and ends the session.
LEMMA ResetPasswordStep ==
    ASSUME IInv, NEW r \in Req, ResetPassword(r)
    PROVE  IInv'
<1>1. TypeOK
  BY InvSplit
<1>2. At(r, "consumed") /\ Finish(r) /\ Overtakes(r)
  BY DEF ResetPassword
<1>3. PICK c \in Code : c = job[r].code
  BY <1>2, TryingAlone
<1>4. /\ UNCHANGED <<exists, blocked, row, purpose, attempts, sent, signed, under, stray,
                     exchanged, forked, calls, shared, crossed>>
      /\ pw' = pw + 1 /\ hash' = 0
      /\ served' = [served EXCEPT ![c] = @ + 1]
  BY <1>3 DEF ResetPassword, HashCleared, codeVars, sessionVars
<1>5. /\ job'[r].op # "otp"
      /\ \A q \in Req : q # r => pc'[q] = pc[q] /\ job'[q] = job[q]
  BY <1>1, <1>2, FinishFacts, NoJobType
<1>6. (\A d \in Code : CodeInv(d)') /\ served' \in [Code -> Nat]
  BY <1>2, <1>3, <1>4, <1>5, CodeServes
<1>. QED BY <1>2, <1>4, <1>6, PasswordSet

\* A change writes the password and ends the session.
LEMMA ChangePasswordStep ==
    ASSUME IInv, NEW r \in Req, ChangePassword(r)
    PROVE  IInv'
<1>1. TypeOK /\ \A d \in Code : CodeInv(d)
  BY InvSplit
<1>2. /\ UNCHANGED <<exists, blocked, row, purpose, attempts, sent, signed, under, stray,
                     exchanged, forked, calls, served, shared, crossed>>
      /\ pw' = pw + 1 /\ hash' = 0 /\ Finish(r) /\ Overtakes(r)
  BY DEF ChangePassword, HashCleared, codeVars, sessionVars
<1>3. /\ job'[r].op # "otp"
      /\ \A q \in Req : q # r => pc'[q] = pc[q] /\ job'[q] = job[q]
  BY <1>1, <1>2, FinishFacts, NoJobType
<1>4. \A d \in Code : CodeInv(d)'
  BY <1>1, <1>2, <1>3, CodesKept
<1>. QED BY <1>1, <1>2, <1>4, PasswordSet DEF TypeOK

LoginOf(p) == [NoJob EXCEPT !.op = "login", !.pw = p]

\* The job of a login is a job, and carries the password compared.
LEMMA LoginJob ==
    ASSUME NEW p \in Nat
    PROVE  LoginOf(p) \in Job /\ LoginOf(p).op = "login" /\ LoginOf(p).pw = p
  BY DEF LoginOf, NoJob, Job, Purpose

\* A registration makes the account, and logs in.
LEMMA RegisterStep ==
    ASSUME IInv, NEW r \in Req, Register(r)
    PROVE  IInv'
<1>1. /\ TypeOK /\ AccountInv /\ OneLiveCode /\ OneIssue
      /\ (\A t \in Token : TokenInv(t)) /\ \A q \in Req : RequestInv(q)
  BY InvSplit
<1>2. At(r, "consumed")
  BY DEF Register
<1>3. PICK c \in Code : c = job[r].code
  BY <1>2, TryingAlone
<1>4. PICK p \in Nat : p = pw + 1
  BY <1>1 DEF TypeOK
<1>5. /\ UNCHANGED <<blocked, hash, row, purpose, attempts, sent, signed, under, stray,
                     exchanged, forked, calls, shared, crossed>>
      /\ ~exists /\ exists' = TRUE /\ pw' = p
      /\ served' = [served EXCEPT ![c] = @ + 1]
      /\ pc' = [pc EXCEPT ![r] = "signing"]
      /\ job' = [job EXCEPT ![r] = LoginOf(p)]
      /\ overtaken' = {q \in Req \ {r} : ~At(q, "idle")}
  BY <1>3, <1>4 DEF Register, Overtakes, LoginOf, codeVars, sessionVars
<1>6. LoginOf(p) \in Job /\ LoginOf(p).op = "login" /\ LoginOf(p).pw = p
  BY LoginJob
<1>7. /\ pc' \in [Req -> Stage] /\ job' \in [Req -> Job]
      /\ pc'[r] = "signing" /\ job'[r] = LoginOf(p)
      /\ \A q \in Req : q # r => pc'[q] = pc[q] /\ job'[q] = job[q]
  BY <1>1, <1>5, <1>6 DEF TypeOK, Stage
<1>8. (\A d \in Code : CodeInv(d)') /\ served' \in [Code -> Nat]
  BY <1>2, <1>3, <1>5, <1>6, <1>7, CodeServes
<1>9. TypeOK'
  <2>1. exists' \in BOOLEAN
    BY <1>5, Zenon
  <2>. QED BY <2>1, <1>1, <1>5, <1>7, <1>8 DEF TypeOK, Stage
<1>10. OneLiveCode'
  BY <1>1, <1>5 DEF OneLiveCode
<1>11. AccountInv'
  BY <1>1, <1>5 DEF AccountInv, SessionOfPassword, BlockedOut
<1>12. OneIssue'
  BY <1>1, <1>5, <1>6, <1>7 DEF OneIssue
<1>13. \A t \in Token : TokenInv(t)'
  BY <1>1, <1>5, <1>6, <1>7, TokensKept, SessionAssumption
<1>14. \A q \in Req : RequestInv(q)'
  <2>1. RequestInv(r)'
    <3>1. ~blocked'
      BY <1>1, <1>5 DEF AccountInv
    <3>. QED BY <3>1, <1>5, <1>6, <1>7 DEF RequestInv, At
  <2>2. ASSUME NEW q \in Req, q # r PROVE RequestInv(q)'
    BY <1>1, <1>5, <1>7, <2>2, OthersKept DEF TypeOK, RequestInv
  <2>. QED BY <2>1, <2>2
<1>. QED BY <1>8, <1>9, <1>10, <1>11, <1>12, <1>13, <1>14, InvJoin

ChangeJob == [NoJob EXCEPT !.op = "change"]

\* A change that begins has compared the password.
LEMMA StartChangeStep ==
    ASSUME IInv, NEW r \in Req, StartChange(r)
    PROVE  IInv'
<1>1. /\ TypeOK /\ AccountInv /\ OneLiveCode /\ OneIssue
      /\ (\A t \in Token : TokenInv(t)) /\ (\A d \in Code : CodeInv(d))
      /\ \A q \in Req : RequestInv(q)
  BY InvSplit
<1>2. /\ UNCHANGED <<exists, blocked, pw, hash, row, purpose, attempts, sent, signed, under,
                     stray, exchanged, forked, served, shared, crossed, overtaken>>
      /\ Begin(r, "hashing", ChangeJob)
  BY DEF StartChange, ChangeJob, accountVars, codeVars, sessionVars
<1>3. ChangeJob \in Job /\ ChangeJob.op = "change" /\ "hashing" \in Stage
  BY DEF ChangeJob, NoJob, Job, Purpose, Stage
<1>4. /\ pc' \in [Req -> Stage] /\ job' \in [Req -> Job] /\ calls' \in Nat
      /\ pc'[r] = "hashing" /\ job'[r] = ChangeJob /\ pc[r] = "idle"
      /\ \A q \in Req : q # r => pc'[q] = pc[q] /\ job'[q] = job[q]
  BY <1>1, <1>2, <1>3, BeginFacts
<1>5. TypeOK'
  BY <1>1, <1>2, <1>4 DEF TypeOK, Stage
<1>6. OneLiveCode' /\ AccountInv'
  BY <1>1, <1>2 DEF OneLiveCode, AccountInv, SessionOfPassword, BlockedOut
<1>7. OneIssue'
  BY <1>1, <1>2, <1>3, <1>4 DEF OneIssue
<1>8. \A t \in Token : TokenInv(t)'
  BY <1>1, <1>2, <1>3, <1>4, TokensKept, SessionAssumption
<1>9. \A d \in Code : CodeInv(d)'
  BY <1>1, <1>2, <1>3, <1>4, CodesKept
<1>10. \A q \in Req : RequestInv(q)'
  <2>1. RequestInv(r)'
    BY <1>1, <1>2, <1>3, <1>4 DEF RequestInv, At
  <2>2. ASSUME NEW q \in Req, q # r PROVE RequestInv(q)'
    BY <1>1, <1>2, <1>4, <2>2, OthersKept DEF TypeOK, RequestInv
  <2>. QED BY <2>1, <2>2
<1>. QED BY <1>5, <1>6, <1>7, <1>8, <1>9, <1>10, InvJoin

-----------------------------------------------------------------------------
(* The session *)

\* A login that begins has compared the password.
LEMMA StartLoginStep ==
    ASSUME IInv, NEW r \in Req, StartLogin(r)
    PROVE  IInv'
<1>1. /\ TypeOK /\ AccountInv /\ OneLiveCode /\ OneIssue
      /\ (\A t \in Token : TokenInv(t)) /\ (\A d \in Code : CodeInv(d))
      /\ \A q \in Req : RequestInv(q)
  BY InvSplit
<1>2. PICK p \in Nat : p = pw
  BY <1>1 DEF TypeOK
<1>3. /\ UNCHANGED <<exists, blocked, pw, hash, row, purpose, attempts, sent, signed, under,
                     stray, exchanged, forked, served, shared, crossed, overtaken>>
      /\ exists /\ ~blocked
      /\ Begin(r, "signing", LoginOf(p))
  BY <1>2 DEF StartLogin, LoginOf, accountVars, codeVars, sessionVars
<1>4. /\ LoginOf(p) \in Job /\ LoginOf(p).op = "login" /\ LoginOf(p).pw = p
      /\ "signing" \in Stage
  BY LoginJob DEF Stage
<1>5. /\ pc' \in [Req -> Stage] /\ job' \in [Req -> Job] /\ calls' \in Nat
      /\ pc'[r] = "signing" /\ job'[r] = LoginOf(p) /\ pc[r] = "idle"
      /\ \A q \in Req : q # r => pc'[q] = pc[q] /\ job'[q] = job[q]
  BY <1>1, <1>3, <1>4, BeginFacts
<1>6. TypeOK'
  BY <1>1, <1>3, <1>5 DEF TypeOK, Stage
<1>7. OneLiveCode' /\ AccountInv'
  BY <1>1, <1>3 DEF OneLiveCode, AccountInv, SessionOfPassword, BlockedOut
<1>8. OneIssue'
  BY <1>1, <1>3, <1>4, <1>5 DEF OneIssue
<1>9. \A t \in Token : TokenInv(t)'
  BY <1>1, <1>3, <1>4, <1>5, TokensKept, SessionAssumption
<1>10. \A d \in Code : CodeInv(d)'
  BY <1>1, <1>3, <1>4, <1>5, CodesKept
<1>11. \A q \in Req : RequestInv(q)'
  <2>1. RequestInv(r)'
    BY <1>1, <1>2, <1>3, <1>4, <1>5 DEF RequestInv, At
  <2>2. ASSUME NEW q \in Req, q # r PROVE RequestInv(q)'
    BY <1>1, <1>3, <1>5, <2>2, OthersKept DEF TypeOK, RequestInv
  <2>. QED BY <2>1, <2>2
<1>. QED BY <1>6, <1>7, <1>8, <1>9, <1>10, <1>11, InvJoin

RefreshOf(t, p, astray) ==
    [NoJob EXCEPT !.op = "refresh", !.token = t, !.pw = p, !.stray = astray]

\* The job of a refresh is a job, and carries the token presented.
LEMMA RefreshJob ==
    ASSUME NEW t \in Nat, NEW p \in Nat, NEW astray \in BOOLEAN
    PROVE  /\ RefreshOf(t, p, astray) \in Job /\ RefreshOf(t, p, astray).op = "refresh"
           /\ RefreshOf(t, p, astray).token = t /\ RefreshOf(t, p, astray).pw = p
           /\ RefreshOf(t, p, astray).stray = astray
  BY DEF RefreshOf, NoJob, Job, Purpose

\* A refresh that begins has compared the token with the hash kept.
LEMMA StartRefreshStep ==
    ASSUME IInv, NEW r \in Req, NEW t \in Token, StartRefresh(r, t)
    PROVE  IInv'
<1>1. /\ TypeOK /\ AccountInv /\ OneLiveCode /\ OneIssue
      /\ (\A u \in Token : TokenInv(u)) /\ (\A d \in Code : CodeInv(d))
      /\ \A q \in Req : RequestInv(q)
  BY InvSplit
<1>2. PICK p \in Nat : p = under
  BY <1>1 DEF TypeOK
<1>3. PICK astray \in BOOLEAN : astray = stray
  BY <1>1, Zenon DEF TypeOK
<1>4. /\ UNCHANGED <<exists, blocked, pw, hash, row, purpose, attempts, sent, signed, under,
                     stray, exchanged, served, shared, crossed, overtaken>>
      /\ t = hash /\ t # 0 /\ ~blocked
      /\ forked' = IF \E q \in Req : job[q].op = "refresh" /\ job[q].token = t
                     THEN forked \cup {t} ELSE forked
      /\ Begin(r, "signing", [NoJob EXCEPT !.op = "refresh", !.token = t, !.pw = under,
                                           !.stray = stray])
  BY DEF StartRefresh, CurrentToken, accountVars, codeVars
<1>5. t \in Nat /\ t \in 1 .. signed /\ exists
  BY <1>1, <1>4, SessionAssumption DEF Token, AccountInv, TypeOK
<1>6. PICK j \in Job : /\ j = RefreshOf(t, p, astray)
                       /\ j.op = "refresh" /\ j.token = t /\ j.pw = p /\ j.stray = astray
  BY <1>5, RefreshJob
<1>7. /\ pc' \in [Req -> Stage] /\ job' \in [Req -> Job] /\ calls' \in Nat
      /\ pc'[r] = "signing" /\ job'[r] = j /\ pc[r] = "idle"
      /\ \A q \in Req : q # r => pc'[q] = pc[q] /\ job'[q] = job[q]
  <2>1. RefreshOf(t, p, astray)
          = [NoJob EXCEPT !.op = "refresh", !.token = t, !.pw = under, !.stray = stray]
    BY <1>2, <1>3, Zenon DEF RefreshOf
  <2>2. Begin(r, "signing", j) /\ "signing" \in Stage
    BY <2>1, <1>4, <1>6, Zenon DEF Stage
  <2>. QED BY <2>2, <1>1, BeginFacts
<1>8. TypeOK'
  <2>1. forked' \in SUBSET Nat
    BY <1>1, <1>4, <1>5 DEF TypeOK
  <2>. QED BY <2>1, <1>1, <1>4, <1>7 DEF TypeOK, Stage
<1>9. OneLiveCode' /\ AccountInv'
  BY <1>1, <1>4 DEF OneLiveCode, AccountInv, SessionOfPassword, BlockedOut
<1>10. OneIssue'
  BY <1>1, <1>4, <1>6, <1>7 DEF OneIssue
<1>11. \A u \in Token : TokenInv(u)'
  <2>1. TokenInv(t)'
    <3>1. t \notin forked' => /\ exchanged[t] = 0 /\ t \notin forked
                              /\ \A q \in Req : ~(job[q].op = "refresh" /\ job[q].token = t)
      BY <1>1, <1>4 DEF TokenInv
    <3>2. ~(t > signed')
      BY <1>1, <1>4, <1>5 DEF TypeOK
    <3>. QED BY <3>1, <3>2, <1>4, <1>6, <1>7 DEF TokenInv
  <2>2. ASSUME NEW u \in Token, u # t PROVE TokenInv(u)'
    <3>1. u \in forked' <=> u \in forked
      BY <1>4, <2>2
    <3>2. \A q \in Req : job'[q].op = "refresh" /\ job'[q].token = u =>
             q # r /\ job[q].op = "refresh" /\ job[q].token = u
      BY <1>6, <1>7, <2>2
    <3>. QED BY <3>1, <3>2, <1>1, <1>4 DEF TokenInv
  <2>. QED BY <2>1, <2>2
<1>12. \A d \in Code : CodeInv(d)'
  BY <1>1, <1>4, <1>6, <1>7, CodesKept
<1>13. \A q \in Req : RequestInv(q)'
  <2>1. RequestInv(r)'
    <3>1. r \notin overtaken'
      BY <1>1, <1>4, <1>7 DEF RequestInv, At
    <3>2. p = pw \/ astray
      BY <1>1, <1>2, <1>3, <1>4 DEF AccountInv, SessionOfPassword
    <3>. QED BY <3>1, <3>2, <1>4, <1>5, <1>6, <1>7 DEF RequestInv, At
  <2>2. ASSUME NEW q \in Req, q # r PROVE RequestInv(q)'
    BY <1>1, <1>4, <1>7, <2>2, OthersKept DEF TypeOK, RequestInv
  <2>. QED BY <2>1, <2>2
<1>. QED BY <1>8, <1>9, <1>10, <1>11, <1>12, <1>13, InvJoin

\* A token signed becomes the session.
LEMMA SignTokensStep ==
    ASSUME IInv, NEW r \in Req, NEW same \in BOOLEAN, SignTokens(r, same)
    PROVE  IInv'
<1>1. /\ TypeOK /\ AccountInv /\ OneLiveCode /\ OneIssue
      /\ (\A u \in Token : TokenInv(u)) /\ (\A d \in Code : CodeInv(d))
      /\ \A q \in Req : RequestInv(q)
  BY InvSplit
<1>. DEFINE new == IF same THEN signed ELSE signed + 1
<1>2. /\ UNCHANGED <<exists, blocked, pw, row, purpose, attempts, sent, calls, served, shared,
                     crossed>>
      /\ At(r, "signing") /\ Finish(r) /\ overtaken' = overtaken \ {r}
      /\ signed' = new /\ hash' = new /\ (same => signed > 0)
      /\ forked' = IF same THEN forked \cup {new} ELSE forked
      /\ under' = job[r].pw
      /\ exchanged' = IF job[r].op = "refresh"
                        THEN [exchanged EXCEPT ![job[r].token] = @ + 1] ELSE exchanged
  BY DEF SignTokens, codeVars
<1>3. stray' <=> r \in overtaken \/ job[r].stray
  BY Zenon DEF SignTokens
<1>4. stray' \in BOOLEAN
  BY Zenon DEF SignTokens
<1>5. /\ pc' \in [Req -> Stage] /\ job' \in [Req -> Job]
      /\ pc'[r] = "idle" /\ job'[r] = NoJob /\ NoJob.op = "none"
      /\ \A q \in Req : q # r => pc'[q] = pc[q] /\ job'[q] = job[q]
  BY <1>1, <1>2, FinishFacts, NoJobType
<1>6. /\ job[r] \in Job /\ job[r].pw \in Nat /\ job[r].token \in Nat
      /\ job[r].op \in {"login", "refresh"} /\ exists
      /\ job[r].op = "refresh" => job[r].token \in 1 .. signed
  BY <1>1, <1>2 DEF TypeOK, RequestInv, Job
<1>7. /\ new \in Nat /\ signed \in Nat /\ signed <= new /\ new # 0
      /\ same => new = signed
      /\ ~same => new = signed + 1
  BY <1>1, <1>2 DEF TypeOK
<1>. HIDE DEF new
<1>8. /\ exchanged' \in [Token -> Nat] /\ forked' \in SUBSET Nat
      /\ \A t \in Token : exchanged'[t] = IF job[r].op = "refresh" /\ t = job[r].token
                                            THEN exchanged[t] + 1 ELSE exchanged[t]
  <2>1. forked' \in SUBSET Nat
    BY <1>1, <1>2, <1>7 DEF TypeOK
  <2>2. CASE job[r].op = "refresh"
    <3>1. PICK u \in Nat : u = job[r].token
      BY <1>6
    <3>2. exchanged' = [exchanged EXCEPT ![u] = @ + 1] /\ exchanged \in [Token -> Nat]
      BY <2>2, <3>1, <1>1, <1>2 DEF TypeOK
    <3>3. /\ exchanged' \in [Token -> Nat]
          /\ \A t \in Token : exchanged'[t] = IF t = u THEN exchanged[t] + 1 ELSE exchanged[t]
      <4>1. CASE u \in Token
        BY <3>2, <4>1
      <4>2. CASE u \notin Token
        <5>1. exchanged' = exchanged
          BY <3>2, <4>2
        <5>. QED BY <3>2, <4>2, <5>1
      <4>. QED BY <4>1, <4>2
    <3>. QED BY <2>1, <2>2, <3>1, <3>3
  <2>3. CASE job[r].op # "refresh"
    BY <2>1, <2>3, <1>1, <1>2 DEF TypeOK
  <2>. QED BY <2>2, <2>3
<1>9. TypeOK'
  BY <1>1, <1>2, <1>4, <1>5, <1>6, <1>7, <1>8 DEF TypeOK, Stage
<1>10. OneLiveCode'
  BY <1>1, <1>2 DEF OneLiveCode
<1>11. AccountInv'
  <2>1. job[r].pw = pw \/ job[r].stray \/ r \in overtaken
    BY <1>1, <1>2 DEF RequestInv
  <2>2. blocked => r \in overtaken
    BY <1>1, <1>2 DEF RequestInv
  <2>3. hash' <= signed'
    BY <1>2, <1>7
  <2>. QED BY <2>1, <2>2, <2>3, <1>2, <1>3, <1>6 DEF AccountInv, SessionOfPassword, BlockedOut
<1>12. OneIssue'
  BY <1>1, <1>2, <1>5 DEF OneIssue
<1>13. \A t \in Token : TokenInv(t)'
  <2>. SUFFICES ASSUME NEW t \in Token PROVE TokenInv(t)'
    OBVIOUS
  <2>1. t \in Nat /\ TokenInv(t) /\ exchanged[t] \in Nat
    BY <1>1, SessionAssumption DEF Token, TypeOK
  <2>2. t > signed' => exchanged'[t] = 0 /\ t \notin forked'
    <3>. SUFFICES ASSUME t > new PROVE exchanged'[t] = 0 /\ t \notin forked'
      BY <1>2
    <3>1. t > signed /\ t # new
      BY <1>7, <2>1
    <3>2. ~(job[r].op = "refresh" /\ t = job[r].token)
      BY <3>1, <1>6, <1>7
    <3>. QED BY <3>1, <3>2, <2>1, <1>2, <1>8 DEF TokenInv
  <2>3. ASSUME t \notin forked'
        PROVE  /\ exchanged'[t] <= 1
               /\ t = hash' => exchanged'[t] = 0
               /\ \A q \in Req : job'[q].op = "refresh" /\ job'[q].token = t =>
                                    exchanged'[t] = 0
               /\ \A p, q \in Req : /\ job'[p].op = "refresh" /\ job'[p].token = t
                                    /\ job'[q].op = "refresh" /\ job'[q].token = t
                                    => p = q
    <3>1. t \notin forked /\ (same => t # signed)
      BY <2>3, <1>2, <1>7
    <3>2. \A q \in Req : job'[q].op = "refresh" /\ job'[q].token = t =>
             q # r /\ job[q].op = "refresh" /\ job[q].token = t
      BY <1>5
    <3>3. CASE job[r].op = "refresh" /\ t = job[r].token
      <4>1. exchanged[t] = 0 /\ exchanged'[t] = 1
        BY <3>1, <3>3, <2>1, <1>8 DEF TokenInv
      <4>2. t # hash'
        BY <3>1, <3>3, <1>2, <1>6, <1>7
      <4>3. \A q \in Req : ~(job'[q].op = "refresh" /\ job'[q].token = t)
        BY <3>1, <3>2, <3>3, <2>1 DEF TokenInv
      <4>. QED BY <4>1, <4>2, <4>3
    <3>4. CASE ~(job[r].op = "refresh" /\ t = job[r].token)
      <4>1. exchanged'[t] = exchanged[t]
        BY <3>4, <1>8
      <4>2. t = hash' => exchanged'[t] = 0
        <5>. SUFFICES ASSUME t = new PROVE exchanged[t] = 0
          BY <4>1, <1>2
        <5>1. t > signed
          BY <3>1, <1>7
        <5>. QED BY <5>1, <2>1 DEF TokenInv
      <4>. QED BY <3>1, <3>2, <4>1, <4>2, <2>1 DEF TokenInv
    <3>. QED BY <3>3, <3>4
  <2>. QED BY <2>2, <2>3 DEF TokenInv
<1>14. \A d \in Code : CodeInv(d)'
  BY <1>1, <1>2, <1>5, CodesKept
<1>15. \A q \in Req : RequestInv(q)'
  <2>1. RequestInv(r)'
    BY <1>2, <1>5 DEF RequestInv, At
  <2>2. ASSUME NEW q \in Req, q # r PROVE RequestInv(q)'
    <3>1. sent \in Nat /\ job[q] \in Job /\ (At(q, "idle") => q \notin overtaken)
      BY <1>1 DEF TypeOK, RequestInv
    <3>2. q \in overtaken <=> q \in overtaken'
      BY <1>2, <2>2
    <3>. QED BY <1>1, <1>2, <1>5, <1>7, <2>2, <3>1, <3>2, OthersKept
  <2>. QED BY <2>1, <2>2
<1>. QED BY <1>9, <1>10, <1>11, <1>12, <1>13, <1>14, <1>15, InvJoin

\* What the account is left with when its session ends, or stays, in no request of its own.
LEMMA SessionEnds ==
    ASSUME IInv, hash' \in {0, hash},
           UNCHANGED <<row, purpose, attempts, sent, signed, under, stray, exchanged, forked,
                       pc, job, calls, served, shared, crossed, pw, exists>>,
           exists, blocked' \in BOOLEAN, blocked' => blocked \/ hash' = 0,
           overtaken' \in SUBSET Req,
           \A q \in Req : /\ At(q, "idle") => q \notin overtaken'
                          /\ \/ At(q, "idle") \/ q \in overtaken'
                             \/ (blocked' => blocked) /\ q \notin overtaken
    PROVE  IInv'
<1>1. /\ TypeOK /\ AccountInv /\ OneLiveCode /\ OneIssue
      /\ (\A u \in Token : TokenInv(u)) /\ (\A d \in Code : CodeInv(d))
      /\ \A q \in Req : RequestInv(q)
  BY InvSplit
<1>2. TypeOK'
  BY <1>1 DEF TypeOK
<1>3. OneLiveCode' /\ OneIssue'
  BY <1>1 DEF OneLiveCode, OneIssue
<1>4. AccountInv'
  <2>1. hash' <= signed'
    BY <1>1 DEF AccountInv, TypeOK
  <2>2. hash' # 0 => hash # 0 /\ (blocked' => blocked)
    OBVIOUS
  <2>. QED BY <1>1, <2>1, <2>2 DEF AccountInv, SessionOfPassword, BlockedOut
<1>5. \A t \in Token : TokenInv(t)'
  BY <1>1, SessionAssumption DEF TokenInv, Token
<1>6. \A d \in Code : CodeInv(d)'
  BY <1>1 DEF CodeInv, Trying, At
<1>7. ASSUME NEW q \in Req PROVE RequestInv(q)'
  BY <1>1, OthersKept DEF TypeOK
<1>. QED BY <1>2, <1>3, <1>4, <1>5, <1>6, <1>7, InvJoin

\* A logout ends the session.
LEMMA LogoutStep ==
    ASSUME IInv, Logout
    PROVE  IInv'
<1>1. TypeOK /\ \A q \in Req : RequestInv(q)
  BY InvSplit
<1>2. /\ UNCHANGED <<row, purpose, attempts, sent, signed, under, stray, exchanged, forked,
                     pc, job, calls, served, shared, crossed, pw, exists, blocked, overtaken>>
      /\ exists /\ hash' = 0
  BY DEF Logout, codeVars, sessionVars, requestVars
<1>3. TypeOK' /\ OneLiveCode' /\ OneIssue'
  BY <1>1, <1>2, InvSplit DEF TypeOK, OneLiveCode, OneIssue
<1>4. AccountInv'
  BY <1>1, <1>2, InvSplit DEF AccountInv, SessionOfPassword, BlockedOut, TypeOK
<1>5. \A t \in Token : TokenInv(t)'
  BY <1>2, InvSplit, SessionAssumption DEF TokenInv, Token
<1>6. (\A d \in Code : CodeInv(d)') /\ \A q \in Req : RequestInv(q)'
  BY <1>2, InvSplit DEF CodeInv, Trying, At, RequestInv
<1>. QED BY <1>3, <1>4, <1>5, <1>6, InvJoin

\* A block by an admin, or its end, keeps the invariant.
LEMMA SetUserStatusStep ==
    ASSUME IInv, NEW b \in BOOLEAN, SetUserStatus(b)
    PROVE  IInv'
<1>1. TypeOK /\ \A q \in Req : RequestInv(q)
  BY InvSplit
<1>2. /\ UNCHANGED <<row, purpose, attempts, sent, signed, under, stray, exchanged, forked,
                     pc, job, calls, served, shared, crossed, pw, exists>>
      /\ exists /\ hash' = IF b THEN 0 ELSE hash
      /\ overtaken' = {q \in Req : ~At(q, "idle")}
  BY DEF SetUserStatus, SessionAfter, codeVars, sessionVars, requestVars
<1>3. blocked' = b
  BY Zenon DEF SetUserStatus
<1>4. blocked' \in BOOLEAN /\ (blocked' => hash' = 0)
  <2>1. blocked' \in BOOLEAN
    BY <1>3, Zenon
  <2>. QED BY <2>1, <1>2, <1>3
<1>. QED BY <1>1, <1>2, <1>4, SessionEnds

\* A step that changes nothing keeps the invariant.
LEMMA StutterStep ==
    ASSUME IInv, UNCHANGED vars
    PROVE  IInv'
<1>1. UNCHANGED <<exists, blocked, row, purpose, attempts, sent, signed, under, stray,
                  exchanged, forked, pc, job, calls, served, shared, crossed, pw, hash,
                  overtaken>>
  BY DEF vars, accountVars, codeVars, sessionVars, requestVars
<1>2. TypeOK' /\ OneLiveCode' /\ OneIssue' /\ AccountInv'
  BY <1>1, InvSplit
     DEF TypeOK, OneLiveCode, OneIssue, AccountInv, SessionOfPassword, BlockedOut
<1>3. /\ (\A t \in Token : TokenInv(t)') /\ (\A d \in Code : CodeInv(d)')
      /\ \A q \in Req : RequestInv(q)'
  BY <1>1, InvSplit DEF TokenInv, CodeInv, Trying, At, RequestInv
<1>. QED BY <1>2, <1>3, InvJoin

\* Every step keeps the invariant.
LEMMA InductiveStep == IInv /\ [Next]_vars => IInv'
<1>. SUFFICES ASSUME IInv, [Next]_vars PROVE IInv'
  OBVIOUS
<1>1. ASSUME NEW r \in Req, Request(r) PROVE IInv'
  <2>1. CASE StartIssue(r) \/ CreateCode(r) \/ WrongCode(r) \/ ConsumeCode(r)
    BY <2>1, StartIssueStep, CreateCodeStep, WrongCodeStep, ConsumeCodeStep
  <2>2. CASE \E c \in Code, right \in BOOLEAN : StartCode(r, c, right)
    BY <2>2, StartCodeStep
  <2>3. CASE ResetPassword(r) \/ Register(r) \/ StartChange(r) \/ ChangePassword(r)
    BY <2>3, ResetPasswordStep, RegisterStep, StartChangeStep, ChangePasswordStep
  <2>4. CASE StartLogin(r) \/ Fail(r)
    BY <2>4, StartLoginStep, FailStep
  <2>5. CASE \E t \in Token : StartRefresh(r, t)
    BY <2>5, StartRefreshStep
  <2>6. CASE \E same \in BOOLEAN : SignTokens(r, same)
    BY <2>6, SignTokensStep
  <2>. QED BY <1>1, <2>1, <2>2, <2>3, <2>4, <2>5, <2>6 DEF Request
<1>2. ASSUME NEW c \in Code, ExpireCode(c) PROVE IInv'
  BY <1>2, ExpireCodeStep
<1>3. ASSUME NEW b \in BOOLEAN, SetUserStatus(b) PROVE IInv'
  BY <1>3, SetUserStatusStep
<1>. QED BY <1>1, <1>2, <1>3, LogoutStep, StutterStep DEF Next

-----------------------------------------------------------------------------
(* Theorems *)

\* However requests for one account interleave, die or race an administrator, the inductive
\* invariant of its codes, tokens and session holds.
THEOREM Invariant == Spec => []IInv
<1>1. Init => IInv
  BY Initially
<1>2. IInv /\ [Next]_vars => IInv'
  BY InductiveStep
<1>. QED BY <1>1, <1>2, PTL DEF Spec

\* Every variable keeps its type.
THEOREM TypeCorrect == Spec => []TypeOK
<1>1. IInv => TypeOK
  BY DEF IInv
<1>. QED BY <1>1, Invariant, PTL

\* issueOtp leaves one usable code for a purpose, unless two codes were being issued at once.
THEOREM OneCodeLive == Spec => []OneLiveCode
<1>1. IInv => OneLiveCode
  BY DEF IInv
<1>. QED BY <1>1, Invariant, PTL

\* A code lets one password be set, unless two requests were checked against it at once.
THEOREM CodesServeOnce == Spec => []CodeServesOnce
<1>1. IInv => CodeServesOnce
  BY DEF IInv, CodeInv, CodeServesOnce
<1>. QED BY <1>1, Invariant, PTL

\* A code takes OTP_MAX_ATTEMPTS wrong answers, unless two requests were checked against it
\* at once.
THEOREM TriesLimited == Spec => []TriesBounded
<1>1. IInv => TriesBounded
  BY DEF IInv, CodeInv, TriesBounded
<1>. QED BY <1>1, Invariant, PTL

\* A code is alone, serves once and takes few guesses, overlapping requests apart.
THEOREM CodesSound == Spec => []CodesHold
<1>1. OneLiveCode /\ CodeServesOnce /\ TriesBounded => CodesHold
  BY DEF CodesHold
<1>. QED BY <1>1, OneCodeLive, CodesServeOnce, TriesLimited, PTL

\* refresh rotates: a token is exchanged once, unless two requests raced or it was signed twice.
THEOREM RefreshedOnce == Spec => []RefreshOnce
<1>1. IInv => RefreshOnce
  BY DEF IInv, TokenInv, RefreshOnce
<1>. QED BY <1>1, Invariant, PTL

\* A session is that of the current password, unless it was being signed as the password changed.
THEOREM SessionsOfPassword == Spec => []SessionOfPassword
<1>1. IInv => SessionOfPassword
  BY DEF IInv
<1>. QED BY <1>1, Invariant, PTL

\* A blocked account has no session, unless one was being signed as it was blocked.
THEOREM BlockedOutside == Spec => []BlockedOut
<1>1. IInv => BlockedOut
  BY DEF IInv
<1>. QED BY <1>1, Invariant, PTL

\* A new password and a block end the session, unless one is being signed meanwhile.
THEOREM SessionsEnded == Spec => []SessionsRevoked
<1>1. SessionOfPassword /\ BlockedOut => SessionsRevoked
  BY DEF SessionsRevoked
<1>. QED BY <1>1, SessionsOfPassword, BlockedOutside, PTL

-----------------------------------------------------------------------------
(* StoreCheckout *)

\* The types, what keys and orders are, and what every request says.
Typed == StoreTypeOK /\ LedgerInv /\ \A f \in Slot : FlightInv(f)

\* What the constants assume, one fact at a time.
LEMMA IdIn == /\ None \notin Id /\ Invoice \notin Id /\ None # Invoice
              /\ Order \subseteq Id /\ Local \subseteq Id
BY NoneAssumption DEF Id

\* The bounds are natural numbers.
LEMMA Bounds == /\ MaxOpens \in Nat /\ MaxOrders \in Nat /\ MaxLocal \in Nat
                /\ MaxAsked \in Nat /\ MaxFaults \in Nat
BY BoundAssumption

\* A free slot holds a request like the others.
LEMMA IdleFlight == Idle \in Flights
BY DEF Idle, Flights

\* What a free slot holds.
LEMMA IdleIs == /\ Idle.what = "none" /\ Idle.key = 0 /\ Idle.items = {} /\ Idle.id = None
                /\ Idle.method = "OTHER" /\ Idle.reply = "none" /\ Idle.live = FALSE
BY DEF Idle

\* What a request can be answered.
Replies == {"none", "ok", "url", "unpaid", "error", "cut"}
\* The other requests stay as they are.
Only(f) == flight' \in [Slot -> Flights] /\ \A g \in Slot \ {f} : flight'[g] = flight[g]

\* What every request has.
LEMMA Fields ==
    ASSUME flight \in [Slot -> Flights], NEW f \in Slot
    PROVE  /\ flight[f].what \in {"none", "profile", "order", "invoice", "timer", "pay", "paying"}
           /\ flight[f].key \in Key \cup {0} /\ flight[f].items \subseteq Item
           /\ flight[f].id \in Id \cup {None} /\ flight[f].method \in {"PAYDUNYA", "OTHER"}
           /\ flight[f].reply \in Replies /\ flight[f].live \in BOOLEAN
BY DEF Flights, Replies

\* A request is its fields.
LEMMA Whole ==
    ASSUME NEW r \in Flights
    PROVE  r = [what |-> r.what, key |-> r.key, items |-> r.items, id |-> r.id,
                method |-> r.method, reply |-> r.reply, live |-> r.live]
BY DEF Flights

\* A request that is answered, field by field.
LEMMA WithReply ==
    ASSUME NEW r \in Flights, NEW reply \in Replies, NEW id \in Id \cup {None}
    PROVE  [r EXCEPT !.reply = reply, !.id = id]
             = [what |-> r.what, key |-> r.key, items |-> r.items, id |-> id,
                method |-> r.method, reply |-> reply, live |-> r.live]
<1> DEFINE new == [r EXCEPT !.reply = reply, !.id = id]
<1> DEFINE told == [what |-> r.what, key |-> r.key, items |-> r.items, id |-> id,
                method |-> r.method, reply |-> reply, live |-> r.live]
<1>1. new \in Flights
  BY DEF Flights, Replies
<1>2. told \in Flights
  BY DEF Flights, Replies
<1>3. /\ new.what = r.what /\ new.key = r.key /\ new.items = r.items /\ new.id = id
      /\ new.method = r.method /\ new.reply = reply /\ new.live = r.live
  BY DEF Flights
<1> QED
  BY <1>1, <1>2, <1>3, Whole

\* A request that is abandoned, field by field.
LEMMA WithLive ==
    ASSUME NEW r \in Flights, NEW live
    PROVE  [r EXCEPT !.live = live]
             = [what |-> r.what, key |-> r.key, items |-> r.items, id |-> r.id,
                method |-> r.method, reply |-> r.reply, live |-> live]
BY DEF Flights

\* A request that goes on under another name, field by field.
LEMMA WithWhat ==
    ASSUME NEW r \in Flights, NEW what
    PROVE  [r EXCEPT !.what = what]
             = [what |-> what, key |-> r.key, items |-> r.items, id |-> r.id,
                method |-> r.method, reply |-> r.reply, live |-> r.live]
BY DEF Flights

\* One request is replaced.
LEMMA Put ==
    ASSUME flight \in [Slot -> Flights], NEW f \in Slot, NEW r \in Flights,
           flight' = [flight EXCEPT ![f] = r]
    PROVE  Only(f) /\ flight'[f] = r
BY DEF Only

\* An answer changes what its request says and whom it is about, and nothing else.
Told(f, reply, id) ==
    flight'[f] = [what |-> flight[f].what, key |-> flight[f].key, items |-> flight[f].items,
                  id |-> id, method |-> flight[f].method, reply |-> reply, live |-> TRUE]
\* An answer reaches the page that waits for it, or frees the slot.
LEMMA Answering ==
    ASSUME flight \in [Slot -> Flights],
           NEW f \in Slot, NEW reply \in Replies, NEW id \in Id \cup {None},
           Answer(f, reply, id)
    PROVE  /\ Only(f)
           /\ ~flight[f].live => flight'[f] = Idle
           /\ flight[f].live => Told(f, reply, id)
<1> DEFINE r == flight[f]
<1> DEFINE told == [what |-> r.what, key |-> r.key, items |-> r.items, id |-> id,
                    method |-> r.method, reply |-> reply, live |-> TRUE]
<1> DEFINE new == IF r.live THEN [r EXCEPT !.reply = reply, !.id = id] ELSE Idle
<1>1. r \in Flights
  OBVIOUS
<1>2. r.live => new = told
  BY <1>1 DEF Flights
<1>3. told \in Flights
  BY Fields DEF Flights, Replies
<1>4. new \in Flights
  BY <1>2, <1>3, IdleFlight
<1>5. flight' = [flight EXCEPT ![f] = new]
  BY DEF Answer
<1> HIDE DEF new
<1>6. Only(f) /\ flight'[f] = new
  BY <1>4, <1>5, Put
<1> QED
  BY <1>2, <1>6 DEF new, Told

\* A request that is done frees its slot.
LEMMA Ending ==
    ASSUME flight \in [Slot -> Flights], NEW f \in Slot, Done(f)
    PROVE  Only(f) /\ flight'[f] = Idle
BY IdleFlight, Put DEF Done

\* A request of the page takes its slot.
LEMMA Requested ==
    ASSUME flight \in [Slot -> Flights], NEW f \in Slot,
           NEW what \in {"profile", "order", "invoice", "timer"}, NEW k \in Key \cup {0},
           NEW items \in SUBSET Item, NEW id \in Id \cup {None},
           NEW method \in {"PAYDUNYA", "OTHER"},
           flight' = [flight EXCEPT ![f] = NewRequest(what, k, items, id, method)]
    PROVE  Only(f) /\ flight'[f] = NewRequest(what, k, items, id, method)
<1>1. NewRequest(what, k, items, id, method) \in Flights
  BY DEF NewRequest, Flights
<1> QED
  BY <1>1, Put

\* The request goes on under another name.
LEMMA Renamed ==
    ASSUME Typed, NEW f \in Slot, NEW what \in {"pay", "paying"},
           flight' = [flight EXCEPT ![f] = [@ EXCEPT !.what = what]]
    PROVE  /\ Only(f)
           /\ flight'[f] = [what |-> what, key |-> flight[f].key, items |-> flight[f].items,
                            id |-> flight[f].id, method |-> flight[f].method,
                            reply |-> flight[f].reply, live |-> flight[f].live]
<1> DEFINE r == [what |-> what, key |-> flight[f].key, items |-> flight[f].items,
                            id |-> flight[f].id, method |-> flight[f].method,
                            reply |-> flight[f].reply, live |-> flight[f].live]
<1>0. flight \in [Slot -> Flights] /\ flight[f] \in Flights
  BY DEF Typed, StoreTypeOK, RequestsOK
<1>1. r \in Flights
  BY <1>0 DEF Flights
<1>2. [flight[f] EXCEPT !.what = what] = r
  BY <1>0 DEF Flights
<1>3. flight' = [flight EXCEPT ![f] = r]
  BY <1>2
<1> HIDE DEF r
<1>4. Only(f) /\ flight'[f] = r
  BY <1>0, <1>1, <1>3, Put
<1> QED
  BY <1>4 DEF r

\* A page that goes abandons what was sent and forgets the rest.
LEMMA Left ==
    ASSUME Typed, LeavePage
    PROVE  /\ flight' \in [Slot -> Flights]
           /\ \A f \in Slot :
                \/ flight'[f] = Idle
                \/ /\ flight[f].what \in {"order", "invoice", "pay", "paying"}
                   /\ flight[f].reply = "none"
                   /\ flight'[f] = [what |-> flight[f].what, key |-> flight[f].key,
                                    items |-> flight[f].items, id |-> flight[f].id,
                                    method |-> flight[f].method, reply |-> "none",
                                    live |-> FALSE]
<1> DEFINE Sends(f) == \E w \in {"order", "invoice", "pay", "paying"} : Sent(f, w)
<1> DEFINE New(f) == IF Sends(f) THEN [flight[f] EXCEPT !.live = FALSE] ELSE Idle
<1>1. ASSUME NEW f \in Slot
      PROVE  /\ New(f) \in Flights
             /\ \/ New(f) = Idle
                \/ /\ flight[f].what \in {"order", "invoice", "pay", "paying"}
                   /\ flight[f].reply = "none"
                   /\ New(f) = [what |-> flight[f].what, key |-> flight[f].key,
                                    items |-> flight[f].items, id |-> flight[f].id,
                                    method |-> flight[f].method, reply |-> "none",
                                    live |-> FALSE]
  <2>1. flight[f] \in Flights
    BY DEF Typed, StoreTypeOK, RequestsOK
  <2>2. CASE Sends(f)
    <3>1. /\ flight[f].what \in {"order", "invoice", "pay", "paying"}
          /\ flight[f].reply = "none"
      BY <2>2 DEF Sent
    <3>2. New(f) = [what |-> flight[f].what, key |-> flight[f].key,
                                    items |-> flight[f].items, id |-> flight[f].id,
                                    method |-> flight[f].method, reply |-> "none",
                                    live |-> FALSE]
      BY <2>1, <2>2, <3>1, WithLive
    <3>3. New(f) \in Flights
      <4> HIDE DEF New, Sends
      <4> QED
        BY <2>1, <3>1, <3>2 DEF Flights
    <3> QED
      BY <3>1, <3>2, <3>3
  <2>3. CASE ~Sends(f)
    BY <2>3, IdleFlight
  <2> QED
    BY <2>2, <2>3
<1>2. flight' = [f \in Slot |-> New(f)]
  BY DEF LeavePage
<1> HIDE DEF New
<1>3. flight' \in [Slot -> Flights] /\ \A f \in Slot : flight'[f] = New(f)
  BY <1>1, <1>2
<1> QED
  BY <1>1, <1>3

\* The page is told of a failure; what it had sent may be at another slot now.
FailedAs(f, how) ==
    [what |-> flight[f].what, key |-> flight[f].key, items |-> flight[f].items,
     id |-> IF flight[f].what = "order" THEN None ELSE flight[f].id,
     method |-> flight[f].method, reply |-> how, live |-> TRUE]
Abandoned(f) ==
    [what |-> flight[f].what, key |-> flight[f].key, items |-> flight[f].items,
     id |-> flight[f].id, method |-> flight[f].method, reply |-> flight[f].reply, live |-> FALSE]
\* A failure reaches the page, and what it had sent goes on at another slot, or does not.
LEMMA Failing ==
    ASSUME Typed, NEW f \in Slot, NEW how \in {"error", "cut"}, FailFlight(f, how)
    PROVE  /\ flight' \in [Slot -> Flights] /\ flight[f].live
           /\ flight'[f] = FailedAs(f, how)
           /\ \/ \A g \in Slot \ {f} : flight'[g] = flight[g]
              \/ /\ flight[f].reply = "none"
                 /\ \E g \in Slot \ {f} : /\ Free(g) /\ flight'[g] = Abandoned(f)
                                          /\ \A h \in Slot \ {f, g} : flight'[h] = flight[h]
<1>0. /\ flight \in [Slot -> Flights] /\ flight[f] \in Flights /\ flight[f].live = TRUE
      /\ flight[f].what # "none"
  BY Fields DEF Typed, StoreTypeOK, RequestsOK, FailFlight
<1>1. FailedAs(f, how) \in Flights /\ Abandoned(f) \in Flights
  BY <1>0 DEF FailedAs, Abandoned, Flights
<1> DEFINE id == IF flight[f].what = "order" THEN None ELSE flight[f].id
<1> DEFINE failed == [flight EXCEPT ![f] = [@ EXCEPT !.reply = how, !.id = id]]
<1>2. failed = [flight EXCEPT ![f] = FailedAs(f, how)]
  <2>1. id \in Id \cup {None} /\ how \in Replies
    BY <1>0, Fields DEF Replies
  <2>2. FailedAs(f, how) = [what |-> flight[f].what, key |-> flight[f].key,
                            items |-> flight[f].items, id |-> id, method |-> flight[f].method,
                            reply |-> how, live |-> flight[f].live]
    BY <1>0 DEF FailedAs
  <2> HIDE DEF id
  <2>3. [flight[f] EXCEPT !.reply = how, !.id = id] = FailedAs(f, how)
    BY <1>0, <2>1, <2>2, WithReply
  <2> QED
    BY <2>3
<1>3. [flight[f] EXCEPT !.live = FALSE] = Abandoned(f)
  BY <1>0, WithLive DEF Abandoned
<1>4. \/ flight' = failed
      \/ /\ flight[f].reply = "none"
         /\ \E g \in Slot : /\ Free(g)
                            /\ flight' = [failed EXCEPT ![g] = [flight[f] EXCEPT !.live = FALSE]]
  BY DEF FailFlight
<1> HIDE DEF failed
<1>5. CASE flight' = failed
  BY <1>0, <1>1, <1>2, <1>5
<1>6. ASSUME flight[f].reply = "none", NEW g \in Slot, Free(g),
             flight' = [failed EXCEPT ![g] = [flight[f] EXCEPT !.live = FALSE]]
      PROVE  /\ flight' \in [Slot -> Flights] /\ g # f
             /\ flight'[f] = FailedAs(f, how) /\ flight'[g] = Abandoned(f)
             /\ \A h \in Slot \ {f, g} : flight'[h] = flight[h]
  <2>1. flight' = [failed EXCEPT ![g] = Abandoned(f)]
    BY <1>3, <1>6
  <2>2. g # f
    BY <1>0, <1>6 DEF Free
  <2> QED
    BY <1>0, <1>1, <1>2, <2>1, <2>2
<1> QED
  BY <1>0, <1>4, <1>5, <1>6

-----------------------------------------------------------------------------
(* What the actions do to the requests *)

\* Field by field.
Is(r, what, k, items, id, method, reply, live) ==
    /\ r.what = what /\ r.key = k /\ r.items = items /\ r.id = id
    /\ r.method = method /\ r.reply = reply /\ r.live = live
Quiet(r) == Is(r, "none", 0, {}, None, "OTHER", "none", FALSE)
\* The page hears an answer, if it still listens.
Hears(f, reply, id) ==
    LET r == flight[f] IN
    /\ Only(f)
    /\ ~r.live => Quiet(flight'[f])
    /\ r.live => Is(flight'[f], r.what, r.key, r.items, id, r.method, reply, TRUE)

\* An answer reaches the page that waits for it, or frees the slot.
LEMMA Hearing ==
    ASSUME Typed, NEW f \in Slot, NEW reply \in Replies, NEW id \in Id \cup {None},
           Answer(f, reply, id)
    PROVE  Hears(f, reply, id)
<1>1. flight \in [Slot -> Flights]
  BY DEF Typed, StoreTypeOK, RequestsOK
<1>2. /\ Only(f)
      /\ ~flight[f].live => flight'[f] = Idle
      /\ flight[f].live => Told(f, reply, id)
  BY <1>1, Answering
<1> QED
  BY <1>2, IdleIs DEF Hears, Told, Is, Quiet

\* A request that is done decides nothing more.
LEMMA Ended ==
    ASSUME Typed, NEW f \in Slot, Done(f)
    PROVE  Only(f) /\ Quiet(flight'[f])
BY Ending, IdleIs DEF Typed, StoreTypeOK, RequestsOK, Is, Quiet

\* A request of the page is as the page sent it.
LEMMA Asking ==
    ASSUME Typed, NEW f \in Slot,
           NEW what \in {"profile", "order", "invoice", "timer"}, NEW k \in Key \cup {0},
           NEW items \in SUBSET Item, NEW id \in Id \cup {None},
           NEW method \in {"PAYDUNYA", "OTHER"},
           flight' = [flight EXCEPT ![f] = NewRequest(what, k, items, id, method)]
    PROVE  Only(f) /\ Is(flight'[f], what, k, items, id, method, "none", TRUE)
<1>1. Only(f) /\ flight'[f] = NewRequest(what, k, items, id, method)
  BY Requested DEF Typed, StoreTypeOK, RequestsOK
<1> QED
  BY <1>1 DEF Is, NewRequest

\* A page that goes abandons what was sent and forgets the rest.
LEMMA Going ==
    ASSUME Typed, LeavePage
    PROVE  /\ flight' \in [Slot -> Flights]
           /\ \A f \in Slot :
                LET r == flight[f] IN
                \/ Quiet(flight'[f])
                \/ /\ r.what \in {"order", "invoice", "pay", "paying"} /\ r.reply = "none"
                   /\ Is(flight'[f], r.what, r.key, r.items, r.id, r.method, "none", FALSE)
BY Left, IdleIs DEF Is, Quiet

\* A drawer that closes forgets its timers.
LEMMA Clearing ==
    ASSUME Typed, flight' = WithoutTimers
    PROVE  /\ flight' \in [Slot -> Flights]
           /\ \A f \in Slot :
                \/ Quiet(flight'[f])
                \/ flight'[f] = flight[f] /\ flight[f].what # "timer"
<1>1. flight \in [Slot -> Flights]
  BY DEF Typed, StoreTypeOK, RequestsOK
<1>2. /\ flight' \in [Slot -> Flights]
      /\ \A f \in Slot : flight'[f] = IF flight[f].what = "timer" THEN Idle ELSE flight[f]
  BY <1>1, IdleFlight DEF WithoutTimers
<1> QED
  BY <1>2, IdleIs DEF Is, Quiet

\* A payment goes on as it was asked.
LEMMA Renaming ==
    ASSUME Typed, NEW f \in Slot, NEW what \in {"pay", "paying"},
           flight' = [flight EXCEPT ![f] = [@ EXCEPT !.what = what]]
    PROVE  LET r == flight[f] IN
           Only(f) /\ Is(flight'[f], what, r.key, r.items, r.id, r.method, r.reply, r.live)
<1>1. /\ Only(f)
      /\ flight'[f] = [what |-> what, key |-> flight[f].key, items |-> flight[f].items,
                       id |-> flight[f].id, method |-> flight[f].method,
                       reply |-> flight[f].reply, live |-> flight[f].live]
  BY Renamed
<1> QED
  BY <1>1 DEF Is

\* A failure reaches the page, and what it had sent goes on at another slot, or does not.
LEMMA Losing ==
    ASSUME Typed, NEW f \in Slot, NEW how \in {"error", "cut"}, FailFlight(f, how)
    PROVE  LET r == flight[f] IN
           /\ flight' \in [Slot -> Flights] /\ r.live
           /\ Is(flight'[f], r.what, r.key, r.items, IF r.what = "order" THEN None ELSE r.id,
                 r.method, how, TRUE)
           /\ \/ \A g \in Slot \ {f} : flight'[g] = flight[g]
              \/ /\ flight[f].reply = "none"
                 /\ \E g \in Slot \ {f} :
                      /\ Free(g)
                      /\ Is(flight'[g], r.what, r.key, r.items, r.id, r.method, "none", FALSE)
                      /\ \A h \in Slot \ {f, g} : flight'[h] = flight[h]
<1>1. /\ flight' \in [Slot -> Flights] /\ flight[f].live
      /\ flight'[f] = FailedAs(f, how)
  BY Failing
<1>2. Is(FailedAs(f, how), flight[f].what, flight[f].key, flight[f].items,
         IF flight[f].what = "order" THEN None ELSE flight[f].id, flight[f].method, how, TRUE)
  BY DEF Is, FailedAs
<1>3. flight[f].reply = "none" =>
        Is(Abandoned(f), flight[f].what, flight[f].key, flight[f].items, flight[f].id,
           flight[f].method, "none", FALSE)
  BY DEF Is, Abandoned
<1>4. \/ \A g \in Slot \ {f} : flight'[g] = flight[g]
      \/ /\ flight[f].reply = "none"
         /\ \E g \in Slot \ {f} : /\ Free(g) /\ flight'[g] = Abandoned(f)
                                  /\ \A h \in Slot \ {f, g} : flight'[h] = flight[h]
  BY Failing
<1>5. CASE \A g \in Slot \ {f} : flight'[g] = flight[g]
  BY <1>1, <1>2, <1>5
<1>6. ASSUME flight[f].reply = "none", NEW g \in Slot \ {f}, Free(g),
             flight'[g] = Abandoned(f), \A h \in Slot \ {f, g} : flight'[h] = flight[h]
      PROVE  /\ flight[f].reply = "none" /\ Free(g)
             /\ Is(flight'[g], flight[f].what, flight[f].key, flight[f].items, flight[f].id,
                   flight[f].method, "none", FALSE)
             /\ \A h \in Slot \ {f, g} : flight'[h] = flight[h]
  BY <1>3, <1>6
<1>7. CASE ~\A g \in Slot \ {f} : flight'[g] = flight[g]
  BY <1>1, <1>2, <1>4, <1>6, <1>7
<1> QED
  BY <1>5, <1>7

-----------------------------------------------------------------------------
\* An order or an invoice is sent with a key.
LEMMA Keys ==
    ASSUME Typed, NEW f \in Slot, flight[f].what \in {"order", "invoice"}
    PROVE  flight[f].key \in Key
BY Bounds DEF Typed, StoreTypeOK, DrawerOK, FlightInv, Key

\* The confirmation of an order saves the profile first, with the cart as it is.
LEMMA ConfirmOrderF ==
    ASSUME Typed, NEW f \in Slot, ConfirmOrder(f)
    PROVE  Only(f) /\ Is(flight'[f], "profile", 0, cart, None, "OTHER", "none", TRUE)
BY Asking DEF ConfirmOrder, Typed, StoreTypeOK, DrawerOK

\* The order is then sent with the key of the opening.
LEMMA SendOrderF ==
    ASSUME Typed, NEW f \in Slot, SendOrder(f)
    PROVE  /\ flight[f].live /\ flight[f].what = "profile" /\ flight[f].reply = "none"
           /\ key \in Key /\ Only(f)
           /\ Is(flight'[f], "order", key, flight[f].items, None, "OTHER", "none", TRUE)
<1>1. /\ flight[f].live /\ flight[f].what = "profile" /\ flight[f].reply = "none"
      /\ key \in Key /\ flight[f].items \in SUBSET Item
  BY Fields DEF SendOrder, Sent, Typed, FlightInv, StoreTypeOK, DrawerOK, RequestsOK
<1>2. flight' = [flight EXCEPT ![f] = NewRequest("order", key, flight[f].items, None, "OTHER")]
  BY DEF SendOrder, Typed, StoreTypeOK, RequestsOK
<1> QED
  BY <1>1, <1>2, Asking

\* A payment asks for an invoice with the key of the opening.
LEMMA RunPaymentF ==
    ASSUME Typed, NEW f \in Slot, NEW method \in {"PAYDUNYA", "OTHER"}, RunPayment(f, method)
    PROVE  /\ placed \in Id /\ key \in Key /\ Only(f)
           /\ Is(flight'[f], "invoice", key, {}, placed, method, "none", TRUE)
<1>1. /\ placed \in Id /\ key \in Key
      /\ flight' = [flight EXCEPT ![f] = NewRequest("invoice", key, {}, placed, method)]
  BY DEF RunPayment, CanPay, Typed, StoreTypeOK, DrawerOK, LedgerInv, KeysInv, WantedInv,
     OrdersInv
<1> QED
  BY <1>1, Asking

\* A key that has a record is answered from it.
LEMMA RepeatOrderF ==
    ASSUME Typed, NEW f \in Slot, RepeatOrder(f)
    PROVE  /\ flight[f].what = "order" /\ flight[f].reply = "none" /\ flight[f].key \in Key
           /\ \/ Hears(f, "cut", None)
              \/ /\ record[flight[f].key] \in Order
                 /\ Hears(f, "ok", record[flight[f].key])
<1>1. flight[f].what = "order" /\ flight[f].reply = "none" /\ flight[f].key \in Key
  BY Keys DEF RepeatOrder, Sent
<1>2. CASE record[flight[f].key] = Invoice
  BY <1>1, <1>2, Hearing DEF RepeatOrder, Replies
<1>3. CASE record[flight[f].key] # Invoice
  <2>1. record[flight[f].key] \in Order /\ record[flight[f].key] \in Id \cup {None}
    BY <1>1, <1>3, IdIn DEF RepeatOrder, Replayed, Typed, StoreTypeOK, ServerOK
  <2> QED
    BY <1>1, <1>3, <2>1, Hearing DEF RepeatOrder, Replies
<1> QED
  BY <1>2, <1>3

\* An order that is refused is answered by an error.
LEMMA RefuseOrderF ==
    ASSUME Typed, NEW f \in Slot, RefuseOrder(f)
    PROVE  /\ flight[f].what = "order" /\ flight[f].reply = "none" /\ flight[f].key \in Key
           /\ Hears(f, "error", None)
BY Keys, Hearing DEF RefuseOrder, Sent, Replies

\* A new order has the items sent, and its record is to be saved.
LEMMA CreateOrderF ==
    ASSUME Typed, NEW f \in Slot, CreateOrder(f)
    PROVE  /\ flight[f].what = "order" /\ flight[f].reply = "none" /\ flight[f].key \in Key
           /\ record[flight[f].key] = None
           /\ \E o \in Order :
                /\ status[o] = "NONE" /\ content[o] = {}
                /\ status' = [status EXCEPT ![o] = "PENDING"]
                /\ content' = [content EXCEPT ![o] = flight[f].items]
                /\ saving' = saving \cup {<<flight[f].key, o>>}
                /\ again' = again
                     \cup UNION {content[s[2]] : s \in {t \in saving : t[1] = flight[f].key}}
                /\ Hears(f, "ok", o)
<1>1. /\ flight[f].what = "order" /\ flight[f].reply = "none" /\ flight[f].key \in Key
  BY Keys DEF CreateOrder, Sent
<1>2. PICK o \in Order :
         /\ ~Replayed(flight[f].key)
         /\ status[o] = "NONE" /\ \A p \in 1..(o - 1) : status[p] # "NONE"
         /\ status' = [status EXCEPT ![o] = "PENDING"]
         /\ content' = [content EXCEPT ![o] = flight[f].items]
         /\ saving' = saving \cup {<<flight[f].key, o>>}
         /\ again' = again \cup UNION {content[s[2]] : s \in {t \in saving : t[1] = flight[f].key}}
         /\ Answer(f, "ok", o)
  BY DEF CreateOrder
<1>3. Hears(f, "ok", o)
  BY <1>2, IdIn, Hearing DEF Replies
<1>4. content[o] = {}
  BY <1>2 DEF Typed, LedgerInv, KeysInv, WantedInv, OrdersInv
<1> QED
  BY <1>1, <1>2, <1>3, <1>4 DEF Replayed

\* An invoice is answered by its address, an error, or the order the key has a record of.
LEMMA InvoiceF ==
    ASSUME Typed, NEW f \in Slot, RepeatInvoice(f) \/ CreateInvoice(f) \/ RefuseInvoice(f)
    PROVE  /\ flight[f].what = "invoice" /\ flight[f].reply = "none" /\ flight[f].key \in Key
           /\ flight[f].id \in Id
           /\ \/ Hears(f, "url", flight[f].id)
              \/ Hears(f, "error", flight[f].id)
              \/ Hears(f, "ok", flight[f].id) /\ flight[f].id \in mistaken'
<1>1. flight[f].what = "invoice" /\ flight[f].reply = "none"
  BY DEF RepeatInvoice, CreateInvoice, RefuseInvoice, Sent
<1>2. flight[f].key \in Key /\ flight[f].id \in Id
  BY <1>1, Keys DEF Typed, StoreTypeOK, RequestsOK
<1>3. CASE CreateInvoice(f)
  BY <1>1, <1>2, <1>3, Hearing DEF CreateInvoice, Replies
<1>4. CASE RefuseInvoice(f)
  BY <1>1, <1>2, <1>4, Hearing DEF RefuseInvoice, Replies
<1>5. CASE RepeatInvoice(f)
  <2>1. CASE record[flight[f].key] = Invoice
    BY <1>1, <1>2, <1>5, <2>1, Hearing DEF RepeatInvoice, Replies
  <2>2. CASE record[flight[f].key] # Invoice
    BY <1>1, <1>2, <1>5, <2>2, Hearing DEF RepeatInvoice, Replies
  <2> QED
    BY <2>1, <2>2
<1> QED
  BY <1>3, <1>4, <1>5

\* A payment reads the order, and is answered at once unless it is pending.
LEMMA ReadPayF ==
    ASSUME Typed, NEW f \in Slot, ReadPay(f)
    PROVE  /\ flight[f].what = "pay" /\ flight[f].reply = "none" /\ flight[f].id \in Id
           /\ \/ /\ flight[f].id \in Order /\ status[flight[f].id] = "PENDING" /\ Only(f)
                 /\ Is(flight'[f], "paying", flight[f].key, flight[f].items, flight[f].id,
                       flight[f].method, "none", flight[f].live)
              \/ /\ flight[f].id \in Order /\ status[flight[f].id] = "PAID"
                 /\ Hears(f, "ok", flight[f].id)
              \/ Hears(f, "error", flight[f].id)
<1>1. flight[f].what = "pay" /\ flight[f].reply = "none" /\ flight[f].id \in Id
  BY DEF ReadPay, Sent, Typed, StoreTypeOK, RequestsOK
<1>2. CASE /\ flight[f].id \in Order /\ status[flight[f].id] = "PENDING"
           /\ flight' = [flight EXCEPT ![f] = [@ EXCEPT !.what = "paying"]]
  BY <1>1, <1>2, Renaming
<1>3. CASE /\ flight[f].id \in Order /\ status[flight[f].id] = "PAID"
           /\ Answer(f, "ok", flight[f].id)
  BY <1>1, <1>3, Hearing DEF Replies
<1>4. CASE Answer(f, "error", flight[f].id)
  BY <1>1, <1>4, Hearing DEF Replies
<1> QED
  BY <1>2, <1>3, <1>4 DEF ReadPay

\* The timer sends the payment of its order.
LEMMA FireTimerF ==
    ASSUME Typed, NEW f \in Slot, FireTimer(f)
    PROVE  /\ flight[f].what = "timer" /\ flight[f].reply = "none" /\ flight[f].id \in Id
           /\ Only(f)
           /\ Is(flight'[f], "pay", flight[f].key, flight[f].items, flight[f].id,
                 flight[f].method, "none", flight[f].live)
<1>1. flight[f].what = "timer" /\ flight[f].reply = "none" /\ flight[f].id \in Id
  BY DEF FireTimer, Sent, Typed, StoreTypeOK, RequestsOK
<1>2. flight' = [flight EXCEPT ![f] = [@ EXCEPT !.what = "pay"]]
  BY DEF FireTimer
<1> QED
  BY <1>1, <1>2, Renaming

\* A payment commits unless the order was cancelled meanwhile.
LEMMA CommitPayF ==
    ASSUME Typed, NEW f \in Slot, CommitPay(f)
    PROVE  /\ flight[f].what = "paying" /\ flight[f].reply = "none" /\ flight[f].id \in Order
           /\ status[flight[f].id] # "NONE"
           /\ IF status[flight[f].id] = "CANCELLED" THEN Hears(f, "unpaid", flight[f].id)
              ELSE Hears(f, "ok", flight[f].id) /\ flight[f].id \in paidEver'
<1>1. /\ flight[f].what = "paying" /\ flight[f].reply = "none" /\ flight[f].id \in Order
      /\ status[flight[f].id] # "NONE" /\ flight[f].id \in Id
  BY DEF CommitPay, Sent, Typed, StoreTypeOK, RequestsOK, FlightInv
<1>2. CASE status[flight[f].id] = "CANCELLED"
  BY <1>1, <1>2, Hearing DEF CommitPay, Replies
<1>3. CASE status[flight[f].id] # "CANCELLED"
  <2>1. Hears(f, "ok", flight[f].id)
    BY <1>1, <1>3, Hearing DEF CommitPay, Replies
  <2>2. flight[f].id \in paidEver'
    BY <1>1, <1>3
       DEF CommitPay, Typed, StoreTypeOK, ServerOK, LedgerInv, KeysInv, WantedInv, OrdersInv
  <2> QED
    BY <1>1, <1>3, <2>1, <2>2
<1> QED
  BY <1>2, <1>3

\* The answer to an order frees its slot.
LEMMA ReceiveOrderF ==
    ASSUME Typed, NEW f \in Slot, ReceiveOrder(f)
    PROVE  /\ flight[f].what = "order" /\ flight[f].live
           /\ flight[f].reply \in {"ok", "error", "cut"}
           /\ flight[f].reply = "ok" => flight[f].id \in Order
           /\ Only(f) /\ Quiet(flight'[f])
BY Ended, Fields DEF ReceiveOrder, Answered, Typed, StoreTypeOK, RequestsOK, FlightInv

\* The answer to an invoice frees its slot, or starts the timer.
LEMMA ReceiveInvoiceF ==
    ASSUME Typed, NEW f \in Slot, ReceiveInvoice(f)
    PROVE  /\ flight[f].what = "invoice" /\ flight[f].live /\ flight[f].id \in Id
           /\ flight[f].reply = "ok" => flight[f].id \in mistaken
           /\ Only(f)
           /\ \/ Quiet(flight'[f]) /\ flight[f].method = "PAYDUNYA"
              \/ /\ Is(flight'[f], "timer", 0, {}, flight[f].id, "OTHER", "none", TRUE)
                 /\ flight[f].method = "OTHER"
<1>1. /\ flight[f].what = "invoice" /\ flight[f].live /\ flight[f].id \in Id
      /\ flight[f].reply = "ok" => flight[f].id \in mistaken
  BY Fields DEF ReceiveInvoice, Answered, Typed, StoreTypeOK, RequestsOK, FlightInv
<1>2. CASE flight[f].method = "PAYDUNYA" /\ Done(f)
  BY <1>1, <1>2, Ended
<1>3. CASE /\ flight[f].method = "OTHER"
           /\ flight' = [flight EXCEPT ![f] = NewRequest("timer", 0, {}, flight[f].id, "OTHER")]
  BY <1>1, <1>3, Asking
<1>4. flight' = [flight EXCEPT ![f] = NewRequest("timer", 0, {}, @.id, "OTHER")]
        => flight' = [flight EXCEPT ![f] = NewRequest("timer", 0, {}, flight[f].id, "OTHER")]
  BY DEF Typed, StoreTypeOK, RequestsOK
<1> QED
  BY <1>2, <1>3, <1>4 DEF ReceiveInvoice

\* The answer to a payment frees its slot.
LEMMA ReceivePayF ==
    ASSUME Typed, NEW f \in Slot, ReceivePay(f)
    PROVE  /\ flight[f].what \in {"pay", "paying"} /\ flight[f].live /\ flight[f].id \in Id
           /\ flight[f].reply = "ok" => flight[f].id \in paidEver
           /\ Only(f) /\ Quiet(flight'[f])
BY Ended, Fields DEF ReceivePay, Answered, Typed, StoreTypeOK, RequestsOK, FlightInv

\* A failure, seen from every slot.
LEMMA FailFlightF ==
    ASSUME Typed, NEW f \in Slot, NEW how \in {"error", "cut"}, FailFlight(f, how)
    PROVE  LET r == flight[f] IN
           /\ flight' \in [Slot -> Flights] /\ r.live
           /\ r.what \in {"order", "invoice", "pay", "paying"}
           /\ Is(flight'[f], r.what, r.key, r.items, IF r.what = "order" THEN None ELSE r.id,
                 r.method, how, TRUE)
           /\ \A g \in Slot \ {f} :
                \/ flight'[g] = flight[g]
                \/ /\ Free(g) /\ r.reply = "none"
                   /\ Is(flight'[g], r.what, r.key, r.items, r.id, r.method, "none", FALSE)
<1>1. flight[f].what \in {"order", "invoice", "pay", "paying"}
  BY DEF FailFlight
<1>2. /\ flight' \in [Slot -> Flights] /\ flight[f].live
      /\ Is(flight'[f], flight[f].what, flight[f].key, flight[f].items,
            IF flight[f].what = "order" THEN None ELSE flight[f].id, flight[f].method, how, TRUE)
  BY Losing
<1>3. \/ \A g \in Slot \ {f} : flight'[g] = flight[g]
      \/ /\ flight[f].reply = "none"
         /\ \E g \in Slot \ {f} :
              /\ Free(g)
              /\ Is(flight'[g], flight[f].what, flight[f].key, flight[f].items, flight[f].id,
                    flight[f].method, "none", FALSE)
              /\ \A h \in Slot \ {f, g} : flight'[h] = flight[h]
  BY Losing
<1>4. ASSUME NEW g \in Slot \ {f}, flight'[g] # flight[g]
      PROVE  /\ Free(g) /\ flight[f].reply = "none"
             /\ Is(flight'[g], flight[f].what, flight[f].key, flight[f].items, flight[f].id,
                   flight[f].method, "none", FALSE)
  BY <1>3, <1>4
<1> QED
  BY <1>1, <1>2, <1>4

\* A page that goes, a drawer that closes: every request is abandoned or forgotten.
Goes ==
    /\ flight' \in [Slot -> Flights] /\ ~open' /\ placed' = None
    /\ cart' = cart /\ history' = history /\ key' = key
    /\ \A f \in Slot :
         LET r == flight[f] IN
         \/ Quiet(flight'[f])
         \/ /\ r.what \in {"order", "invoice", "pay", "paying"} /\ r.reply = "none"
            /\ Is(flight'[f], r.what, r.key, r.items, r.id, r.method, "none", FALSE)
\* A reload leaves the page.
LEMMA ReloadF == ASSUME Typed, Reload PROVE Goes
BY Going DEF Reload, LeavePage, Goes

\* A redirection leaves the page.
LEMMA GoToPayDunyaF == ASSUME Typed, NEW f \in Slot, GoToPayDunya(f) PROVE Goes
BY Going DEF GoToPayDunya, LeavePage, Goes

Clears ==
    /\ flight' \in [Slot -> Flights] /\ ~open'
    /\ \A f \in Slot : \/ Quiet(flight'[f])
                       \/ flight'[f] = flight[f] /\ flight[f].what # "timer"
\* A drawer that closes forgets its timers.
LEMMA CloseCartF == ASSUME Typed, CloseCart PROVE Clears
BY Clearing DEF CloseCart, Clears

\* So does one that is reset.
LEMMA CloseAndResetF == ASSUME Typed, CloseAndReset PROVE Clears
BY Clearing DEF CloseAndReset, Clears

\* A step at one slot keeps the types of the requests when the request it leaves there has its
\* type.
LEMMA OneRequest ==
    ASSUME RequestsOK, NEW f \in Slot, Only(f),
           flight'[f].what \in {"invoice", "timer", "pay", "paying"} => flight'[f].id \in Id
    PROVE  RequestsOK'
BY DEF Only, RequestsOK

\* An answer keeps them: it is about an order to be, or about an order that has its identifier.
LEMMA HeardRequest ==
    ASSUME RequestsOK, NEW f \in Slot, NEW reply, NEW id, Hears(f, reply, id),
           flight[f].what = "order" \/ id \in Id
    PROVE  RequestsOK'
<1>1. Only(f) /\ (Quiet(flight'[f]) \/ (flight'[f].what = flight[f].what /\ flight'[f].id = id))
  <2>1. CASE flight[f].live
    BY <2>1 DEF Hears, Is
  <2>2. CASE ~flight[f].live
    BY <2>2 DEF Hears
  <2> QED
    BY <2>1, <2>2
<1>2. flight'[f].what \in {"invoice", "timer", "pay", "paying"} => flight'[f].id \in Id
  BY <1>1 DEF Quiet, Is
<1> QED
  BY <1>1, <1>2, OneRequest

\* Every step keeps the types of the requests.
LEMMA RequestsKept ==
    ASSUME Typed, [StoreNext]_storeVars
    PROVE  RequestsOK'
<1>t. RequestsOK
  BY DEF Typed, StoreTypeOK
<1>0. CASE UNCHANGED storeVars
  BY <1>0, <1>t DEF storeVars, drawer, server, past, RequestsOK
<1>1. ASSUME NEW start \in {"cart", "checkout"}, OpenCart(start) PROVE RequestsOK'
  BY <1>1, <1>t DEF OpenCart, Opened, Restarted, drawer, server, past, RequestsOK
<1>2. CASE CloseCart
  BY <1>2, <1>t, CloseCartF DEF Clears, Is, Quiet, Only, RequestsOK
<1>3. CASE CloseAndReset
  BY <1>3, <1>t, CloseAndResetF DEF Clears, Is, Quiet, Only, RequestsOK
<1>4. CASE Reload
  BY <1>4, <1>t, ReloadF DEF Goes, Is, Quiet, Only, RequestsOK
<1>5. CASE GoCheckout
  BY <1>5, <1>t DEF GoCheckout, ShowStep, drawer, server, past, RequestsOK
<1>6. CASE BackToCart
  BY <1>6, <1>t DEF BackToCart, ShowStep, drawer, server, past, RequestsOK
<1>7. CASE BackToCheckout
  BY <1>7, <1>t DEF BackToCheckout, ShowStep, drawer, server, past, RequestsOK
<1>8. ASSUME NEW i \in Item, Add(i) PROVE RequestsOK'
  BY <1>8, <1>t DEF Add, drawer, server, past, RequestsOK
<1>9. ASSUME NEW i \in Item, BuyNow(i) PROVE RequestsOK'
  BY <1>9, <1>t DEF BuyNow, Opened, Restarted, drawer, server, past, RequestsOK
<1>10. ASSUME NEW i \in Item, Remove(i) PROVE RequestsOK'
  BY <1>10, <1>t DEF Remove, drawer, server, past, RequestsOK
<1>11. ASSUME NEW f \in Slot, ConfirmOrder(f) PROVE RequestsOK'
  BY <1>11, <1>t, ConfirmOrderF, OneRequest DEF Is
<1>12. ASSUME NEW f \in Slot, SendOrder(f) PROVE RequestsOK'
  BY <1>12, <1>t, SendOrderF, OneRequest DEF Is
<1>13. ASSUME NEW f \in Slot, RepeatOrder(f) PROVE RequestsOK'
  BY <1>13, <1>t, RepeatOrderF, HeardRequest
<1>14. ASSUME NEW f \in Slot, RefuseOrder(f) PROVE RequestsOK'
  BY <1>14, <1>t, RefuseOrderF, HeardRequest
<1>15. ASSUME NEW f \in Slot, CreateOrder(f) PROVE RequestsOK'
  <2>1. PICK o \in Order : Hears(f, "ok", o) /\ flight[f].what = "order"
    BY <1>15, <1>t, CreateOrderF
  <2> QED
    BY <1>t, <2>1, HeardRequest
<1>16. ASSUME NEW f \in Slot, ReceiveOrder(f) PROVE RequestsOK'
  BY <1>16, <1>t, ReceiveOrderF, OneRequest DEF Is, Quiet
<1>17. ASSUME NEW f \in Slot, NEW method \in {"PAYDUNYA", "OTHER"}, RunPayment(f, method)
       PROVE RequestsOK'
  BY <1>17, <1>t, RunPaymentF, OneRequest DEF Is
<1>18. ASSUME NEW f \in Slot, RepeatInvoice(f) PROVE RequestsOK'
  BY <1>18, <1>t, InvoiceF, HeardRequest
<1>19. ASSUME NEW f \in Slot, CreateInvoice(f) PROVE RequestsOK'
  BY <1>19, <1>t, InvoiceF, HeardRequest
<1>20. ASSUME NEW f \in Slot, RefuseInvoice(f) PROVE RequestsOK'
  BY <1>20, <1>t, InvoiceF, HeardRequest
<1>21. ASSUME NEW f \in Slot, GoToPayDunya(f) PROVE RequestsOK'
  BY <1>21, <1>t, GoToPayDunyaF DEF Goes, Is, Quiet, Only, RequestsOK
<1>22. ASSUME NEW f \in Slot, ReceiveInvoice(f) PROVE RequestsOK'
  BY <1>22, <1>t, ReceiveInvoiceF, OneRequest DEF Is, Quiet
<1>23. ASSUME NEW f \in Slot, FireTimer(f) PROVE RequestsOK'
  BY <1>23, <1>t, FireTimerF, OneRequest DEF Is
<1>24. ASSUME NEW f \in Slot, ReadPay(f) PROVE RequestsOK'
  <2>1. CASE Hears(f, "ok", flight[f].id) \/ Hears(f, "error", flight[f].id)
    BY <1>24, <1>t, <2>1, ReadPayF, HeardRequest
  <2>2. CASE Only(f) /\ Is(flight'[f], "paying", flight[f].key, flight[f].items, flight[f].id,
                           flight[f].method, "none", flight[f].live)
    BY <1>24, <1>t, <2>2, ReadPayF, OneRequest DEF Is
  <2> QED
    BY <1>24, <2>1, <2>2, ReadPayF
<1>25. ASSUME NEW f \in Slot, CommitPay(f) PROVE RequestsOK'
  <2>1. flight[f].id \in Id
    BY <1>25, CommitPayF DEF Id
  <2> QED
    BY <1>25, <1>t, <2>1, CommitPayF, HeardRequest
<1>26. ASSUME NEW f \in Slot, ReceivePay(f) PROVE RequestsOK'
  BY <1>26, <1>t, ReceivePayF, OneRequest DEF Is, Quiet
<1>27. ASSUME NEW f \in Slot, NEW how \in {"error", "cut"}, FailFlight(f, how) PROVE RequestsOK'
  <2> DEFINE r == flight[f]
  <2>1. /\ flight' \in [Slot -> Flights] /\ r.live
        /\ Is(flight'[f], r.what, r.key, r.items, IF r.what = "order" THEN None ELSE r.id,
              r.method, how, TRUE)
        /\ \A g \in Slot \ {f} :
             \/ flight'[g] = flight[g]
             \/ /\ Free(g) /\ r.reply = "none"
                /\ Is(flight'[g], r.what, r.key, r.items, r.id, r.method, "none", FALSE)
        /\ r.what \in {"order", "invoice", "pay", "paying"}
    BY <1>27, FailFlightF
  <2>2. ASSUME NEW g \in Slot, flight'[g].what \in {"invoice", "timer", "pay", "paying"}
        PROVE  flight'[g].id \in Id
    <3>1. CASE g = f
      BY <1>t, <2>1, <2>2, <3>1 DEF Is, RequestsOK
    <3>2. CASE g # f /\ flight'[g] = flight[g]
      BY <1>t, <2>2, <3>2 DEF RequestsOK
    <3>3. CASE g # f /\ flight'[g] # flight[g]
      BY <1>t, <2>1, <2>2, <3>3 DEF Is, RequestsOK
    <3> QED
      BY <3>1, <3>2, <3>3
  <2> QED
    BY <2>1, <2>2 DEF RequestsOK
<1>28. ASSUME NEW s \in saving, SaveRecord(s) PROVE RequestsOK'
  BY <1>28, <1>t DEF SaveRecord, drawer, server, past, RequestsOK
<1>29. CASE LoseRecord
  BY <1>29, <1>t DEF LoseRecord, Trouble, drawer, server, past, RequestsOK
<1>30. ASSUME NEW o \in Order, Elsewhere(o) PROVE RequestsOK'
  BY <1>30, <1>t DEF Elsewhere, Trouble, drawer, server, past, RequestsOK
<1> QED
  BY <1>0, <1>1, <1>2, <1>3, <1>4, <1>5, <1>6, <1>7, <1>8, <1>9, <1>10, <1>11, <1>12, <1>13,
     <1>14, <1>15, <1>16, <1>17, <1>18, <1>19, <1>20, <1>21, <1>22, <1>23, <1>24, <1>25, <1>26,
     <1>27, <1>28, <1>29, <1>30 DEF StoreNext

Grows ==
    /\ key \in Nat /\ key' \in Nat /\ key <= key'
    /\ mistaken \subseteq mistaken' /\ paidEver \subseteq paidEver'
    /\ \A o \in Order : status[o] # "NONE" => status'[o] # "NONE"
\* Keys are drawn in order, and what the history holds is never taken back.
LEMMA Growing ==
    ASSUME Typed, [StoreNext]_storeVars
    PROVE  Grows
<1>t. /\ key \in Nat /\ status \in [Order -> {"NONE", "PENDING", "PAID", "CANCELLED"}]
      /\ \A f \in Slot : flight[f].what = "paying" => flight[f].id \in Order
  BY Bounds DEF Typed, StoreTypeOK, DrawerOK, ServerOK, Key, FlightInv
<1>0. CASE UNCHANGED storeVars
  BY <1>0, <1>t DEF storeVars, drawer, server, past, Grows
<1>1. ASSUME NEW start \in {"cart", "checkout"}, OpenCart(start) PROVE Grows
  BY <1>1, <1>t DEF OpenCart, Opened, Restarted, drawer, server, past, Grows
<1>2. CASE CloseCart
  BY <1>2, <1>t DEF CloseCart, drawer, server, past, Grows
<1>3. CASE CloseAndReset
  BY <1>3, <1>t DEF CloseAndReset, drawer, server, past, Grows
<1>4. CASE Reload
  BY <1>4, <1>t DEF Reload, LeavePage, Trouble, drawer, server, past, Grows
<1>5. CASE GoCheckout
  BY <1>5, <1>t DEF GoCheckout, ShowStep, drawer, server, past, Grows
<1>6. CASE BackToCart
  BY <1>6, <1>t DEF BackToCart, ShowStep, drawer, server, past, Grows
<1>7. CASE BackToCheckout
  BY <1>7, <1>t DEF BackToCheckout, ShowStep, drawer, server, past, Grows
<1>8. ASSUME NEW i \in Item, Add(i) PROVE Grows
  BY <1>8, <1>t DEF Add, drawer, server, past, Grows
<1>9. ASSUME NEW i \in Item, BuyNow(i) PROVE Grows
  BY <1>9, <1>t DEF BuyNow, Opened, Restarted, drawer, server, past, Grows
<1>10. ASSUME NEW i \in Item, Remove(i) PROVE Grows
  BY <1>10, <1>t DEF Remove, drawer, server, past, Grows
<1>11. ASSUME NEW f \in Slot, ConfirmOrder(f) PROVE Grows
  BY <1>11, <1>t DEF ConfirmOrder, Asks, Free, drawer, server, past, Grows
<1>12. ASSUME NEW f \in Slot, SendOrder(f) PROVE Grows
  BY <1>12, <1>t DEF SendOrder, Sent, drawer, server, past, Grows
<1>13. ASSUME NEW f \in Slot, RepeatOrder(f) PROVE Grows
  BY <1>13, <1>t DEF RepeatOrder, Sent, Replayed, drawer, server, past, Grows
<1>14. ASSUME NEW f \in Slot, RefuseOrder(f) PROVE Grows
  BY <1>14, <1>t DEF RefuseOrder, Sent, Replayed, Trouble, drawer, server, past, Grows
<1>15. ASSUME NEW f \in Slot, CreateOrder(f) PROVE Grows
  BY <1>15, <1>t DEF CreateOrder, Sent, Replayed, drawer, server, past, Grows
<1>16. ASSUME NEW f \in Slot, ReceiveOrder(f) PROVE Grows
  BY <1>16, <1>t DEF ReceiveOrder, Answered, Remembers, Emptied, drawer, server, past, Grows
<1>17. ASSUME NEW f \in Slot, NEW method \in {"PAYDUNYA", "OTHER"}, RunPayment(f, method)
       PROVE Grows
  BY <1>17, <1>t DEF RunPayment, CanPay, Free, Asks, drawer, server, past, Grows
<1>18. ASSUME NEW f \in Slot, RepeatInvoice(f) PROVE Grows
  BY <1>18, <1>t DEF RepeatInvoice, Sent, Replayed, drawer, server, past, Grows
<1>19. ASSUME NEW f \in Slot, CreateInvoice(f) PROVE Grows
  BY <1>19, <1>t DEF CreateInvoice, Sent, Replayed, drawer, server, past, Grows
<1>20. ASSUME NEW f \in Slot, RefuseInvoice(f) PROVE Grows
  BY <1>20, <1>t DEF RefuseInvoice, Sent, Replayed, Trouble, drawer, server, past, Grows
<1>21. ASSUME NEW f \in Slot, GoToPayDunya(f) PROVE Grows
  BY <1>21, <1>t DEF GoToPayDunya, LeavePage, drawer, server, past, Grows
<1>22. ASSUME NEW f \in Slot, ReceiveInvoice(f) PROVE Grows
  BY <1>22, <1>t DEF ReceiveInvoice, Answered, drawer, server, past, Grows
<1>23. ASSUME NEW f \in Slot, FireTimer(f) PROVE Grows
  BY <1>23, <1>t DEF FireTimer, Sent, drawer, server, past, Grows
<1>24. ASSUME NEW f \in Slot, ReadPay(f) PROVE Grows
  BY <1>24, <1>t DEF ReadPay, Sent, drawer, server, past, Grows
<1>25. ASSUME NEW f \in Slot, CommitPay(f) PROVE Grows
  BY <1>25, <1>t DEF CommitPay, Sent, drawer, server, past, Grows
<1>26. ASSUME NEW f \in Slot, ReceivePay(f) PROVE Grows
  BY <1>26, <1>t DEF ReceivePay, Answered, Believed, drawer, server, past, Grows
<1>27. ASSUME NEW f \in Slot, NEW how \in {"error", "cut"}, FailFlight(f, how) PROVE Grows
  BY <1>27, <1>t DEF FailFlight, Trouble, Free, drawer, server, past, Grows
<1>28. ASSUME NEW s \in saving, SaveRecord(s) PROVE Grows
  BY <1>28, <1>t DEF SaveRecord, drawer, server, past, Grows
<1>29. CASE LoseRecord
  BY <1>29, <1>t DEF LoseRecord, Trouble, drawer, server, past, Grows
<1>30. ASSUME NEW o \in Order, Elsewhere(o) PROVE Grows
  BY <1>30, <1>t DEF Elsewhere, Trouble, drawer, server, past, Grows
<1> QED
  BY <1>0, <1>1, <1>2, <1>3, <1>4, <1>5, <1>6, <1>7, <1>8, <1>9, <1>10, <1>11, <1>12, <1>13,
     <1>14, <1>15, <1>16, <1>17, <1>18, <1>19, <1>20, <1>21, <1>22, <1>23, <1>24, <1>25, <1>26,
     <1>27, <1>28, <1>29, <1>30 DEF StoreNext

\* A request that is left alone stays as it should be.
LEMMA SoundStays ==
    ASSUME Grows, NEW g \in Slot, FlightInv(g), flight'[g] = flight[g]
    PROVE  FlightInv(g)'
BY DEF Grows, FlightInv

\* A slot that is freed is as it should be.
LEMMA SoundQuiet ==
    ASSUME NEW g \in Slot, Quiet(flight'[g])
    PROVE  FlightInv(g)'
BY DEF Quiet, Is, FlightInv

\* One request that changes leaves the others as they should be.
LEMMA SoundOthers ==
    ASSUME Grows, \A g \in Slot : FlightInv(g), NEW f \in Slot, Only(f), FlightInv(f)'
    PROVE  \A g \in Slot : FlightInv(g)'
BY SoundStays DEF Only

\* An answer says what it may of its request.
LEMMA SoundHearing ==
    ASSUME Grows, NEW f \in Slot, FlightInv(f),
           flight[f].what \in {"order", "invoice", "pay", "paying"},
           NEW reply, NEW id, Hears(f, reply, id),
           flight[f].what = "order" => reply \in {"error", "cut"} \/ (reply = "ok" /\ id \in Order),
           flight[f].what = "invoice" /\ reply = "ok" => id \in mistaken',
           flight[f].what \in {"pay", "paying"} /\ reply = "ok" => id \in paidEver',
           flight[f].what = "paying" => id = flight[f].id
    PROVE  FlightInv(f)'
<1>1. CASE flight[f].live
  <2>1. Is(flight'[f], flight[f].what, flight[f].key, flight[f].items, id, flight[f].method,
           reply, TRUE)
    BY <1>1 DEF Hears
  <2> QED
    BY <2>1 DEF Is, FlightInv, Grows
<1>2. CASE ~flight[f].live
  BY <1>2, SoundQuiet DEF Hears
<1> QED
  BY <1>1, <1>2

\* A new request has the key of the opening.
LEMMA SoundRequest ==
    ASSUME Grows, NEW f \in Slot, key # 0,
           NEW what \in {"profile", "order", "invoice"}, NEW k, NEW items, NEW id, NEW method,
           Is(flight'[f], what, k, items, id, method, "none", TRUE), what # "profile" => k = key
    PROVE  FlightInv(f)'
BY DEF Is, FlightInv, Grows

\* A request that is abandoned waits for nothing.
LEMMA SoundAbandoned ==
    ASSUME Grows, NEW f \in Slot, NEW g \in Slot, FlightInv(f),
           flight[f].what \in {"order", "invoice", "pay", "paying"},
           LET r == flight[f] IN
             Is(flight'[g], r.what, r.key, r.items, r.id, r.method, "none", FALSE)
    PROVE  FlightInv(g)'
BY DEF Grows, FlightInv, Is

\* Every step keeps every request as it should be.
LEMMA FlightsKept ==
    ASSUME Typed, [StoreNext]_storeVars
    PROVE  \A g \in Slot : FlightInv(g)'
<1>t. /\ \A f \in Slot : FlightInv(f)
      /\ Grows
  BY Growing DEF Typed
<1>0. CASE UNCHANGED storeVars
  BY <1>0, <1>t DEF storeVars, drawer, server, past, FlightInv, Grows
<1>1. ASSUME NEW start \in {"cart", "checkout"}, OpenCart(start)
      PROVE \A g \in Slot : FlightInv(g)'
  BY <1>1, <1>t DEF OpenCart, Opened, Restarted, drawer, server, past, FlightInv, Grows
<1>2. CASE CloseCart
  BY <1>2, <1>t, CloseCartF, SoundQuiet, SoundStays DEF Clears
<1>3. CASE CloseAndReset
  BY <1>3, <1>t, CloseAndResetF, SoundQuiet, SoundStays DEF Clears
<1>4. CASE Reload
  BY <1>4, <1>t, ReloadF, SoundQuiet, SoundAbandoned DEF Goes
<1>5. CASE GoCheckout
  BY <1>5, <1>t DEF GoCheckout, ShowStep, drawer, server, past, FlightInv, Grows
<1>6. CASE BackToCart
  BY <1>6, <1>t DEF BackToCart, ShowStep, drawer, server, past, FlightInv, Grows
<1>7. CASE BackToCheckout
  BY <1>7, <1>t DEF BackToCheckout, ShowStep, drawer, server, past, FlightInv, Grows
<1>8. ASSUME NEW i \in Item, Add(i) PROVE \A g \in Slot : FlightInv(g)'
  BY <1>8, <1>t DEF Add, drawer, server, past, FlightInv, Grows
<1>9. ASSUME NEW i \in Item, BuyNow(i) PROVE \A g \in Slot : FlightInv(g)'
  BY <1>9, <1>t DEF BuyNow, Opened, Restarted, drawer, server, past, FlightInv, Grows
<1>10. ASSUME NEW i \in Item, Remove(i) PROVE \A g \in Slot : FlightInv(g)'
  BY <1>10, <1>t DEF Remove, drawer, server, past, FlightInv, Grows
<1>11. ASSUME NEW f \in Slot, ConfirmOrder(f) PROVE \A g \in Slot : FlightInv(g)'
  <2>1. FlightInv(f) /\ Only(f) /\ key # 0
    BY <1>11, <1>t, ConfirmOrderF DEF ConfirmOrder, Typed, LedgerInv, KeysInv, FlightInv, Sent
  <2>2. FlightInv(f)'
    BY <1>11, <1>t, <2>1, ConfirmOrderF, SoundRequest
  <2> QED
    BY <1>t, <2>1, <2>2, SoundOthers
<1>12. ASSUME NEW f \in Slot, SendOrder(f) PROVE \A g \in Slot : FlightInv(g)'
  <2>1. FlightInv(f) /\ Only(f) /\ key # 0
    BY <1>12, <1>t, SendOrderF DEF SendOrder, Typed, LedgerInv, KeysInv, FlightInv, Sent
  <2>2. FlightInv(f)'
    BY <1>12, <1>t, <2>1, SendOrderF, SoundRequest
  <2> QED
    BY <1>t, <2>1, <2>2, SoundOthers
<1>13. ASSUME NEW f \in Slot, RepeatOrder(f) PROVE \A g \in Slot : FlightInv(g)'
  <2>1. FlightInv(f) /\ Only(f)
    BY <1>13, <1>t, RepeatOrderF DEF Hears
  <2>2. FlightInv(f)'
    BY <1>13, <1>t, <2>1, RepeatOrderF, SoundHearing
  <2> QED
    BY <1>t, <2>1, <2>2, SoundOthers
<1>14. ASSUME NEW f \in Slot, RefuseOrder(f) PROVE \A g \in Slot : FlightInv(g)'
  <2>1. FlightInv(f) /\ Only(f)
    BY <1>14, <1>t, RefuseOrderF DEF Hears
  <2>2. FlightInv(f)'
    BY <1>14, <1>t, <2>1, RefuseOrderF, SoundHearing
  <2> QED
    BY <1>t, <2>1, <2>2, SoundOthers
<1>15. ASSUME NEW f \in Slot, CreateOrder(f) PROVE \A g \in Slot : FlightInv(g)'
  <2>1. FlightInv(f) /\ Only(f)
    BY <1>15, <1>t, CreateOrderF DEF Hears
  <2>2. FlightInv(f)'
    BY <1>15, <1>t, <2>1, CreateOrderF, SoundHearing
  <2> QED
    BY <1>t, <2>1, <2>2, SoundOthers
<1>16. ASSUME NEW f \in Slot, ReceiveOrder(f) PROVE \A g \in Slot : FlightInv(g)'
  <2>1. FlightInv(f) /\ Only(f)
    BY <1>16, <1>t, ReceiveOrderF DEF Hears
  <2>2. FlightInv(f)'
    BY <1>16, <1>t, <2>1, ReceiveOrderF DEF Hears, Is, Quiet, FlightInv, Grows
  <2> QED
    BY <1>t, <2>1, <2>2, SoundOthers
<1>17. ASSUME NEW f \in Slot, NEW method \in {"PAYDUNYA", "OTHER"}, RunPayment(f, method)
       PROVE \A g \in Slot : FlightInv(g)'
  <2>1. FlightInv(f) /\ Only(f) /\ key # 0
    BY <1>17, <1>t, RunPaymentF DEF RunPayment, Typed, LedgerInv, KeysInv, FlightInv, Sent
  <2>2. FlightInv(f)'
    BY <1>17, <1>t, <2>1, RunPaymentF, SoundRequest
  <2> QED
    BY <1>t, <2>1, <2>2, SoundOthers
<1>18. ASSUME NEW f \in Slot, RepeatInvoice(f) PROVE \A g \in Slot : FlightInv(g)'
  <2>1. FlightInv(f) /\ Only(f)
    BY <1>18, <1>t, InvoiceF DEF Hears
  <2>2. FlightInv(f)'
    BY <1>18, <1>t, <2>1, InvoiceF, SoundHearing
  <2> QED
    BY <1>t, <2>1, <2>2, SoundOthers
<1>19. ASSUME NEW f \in Slot, CreateInvoice(f) PROVE \A g \in Slot : FlightInv(g)'
  <2>1. FlightInv(f) /\ Only(f)
    BY <1>19, <1>t, InvoiceF DEF Hears
  <2>2. FlightInv(f)'
    BY <1>19, <1>t, <2>1, InvoiceF, SoundHearing
  <2> QED
    BY <1>t, <2>1, <2>2, SoundOthers
<1>20. ASSUME NEW f \in Slot, RefuseInvoice(f) PROVE \A g \in Slot : FlightInv(g)'
  <2>1. FlightInv(f) /\ Only(f)
    BY <1>20, <1>t, InvoiceF DEF Hears
  <2>2. FlightInv(f)'
    BY <1>20, <1>t, <2>1, InvoiceF, SoundHearing
  <2> QED
    BY <1>t, <2>1, <2>2, SoundOthers
<1>21. ASSUME NEW f \in Slot, GoToPayDunya(f) PROVE \A g \in Slot : FlightInv(g)'
  BY <1>21, <1>t, GoToPayDunyaF, SoundQuiet, SoundAbandoned DEF Goes
<1>22. ASSUME NEW f \in Slot, ReceiveInvoice(f) PROVE \A g \in Slot : FlightInv(g)'
  <2>1. FlightInv(f) /\ Only(f)
    BY <1>22, <1>t, ReceiveInvoiceF DEF Hears
  <2>2. FlightInv(f)'
    BY <1>22, <1>t, <2>1, ReceiveInvoiceF DEF Hears, Is, Quiet, FlightInv, Grows
  <2> QED
    BY <1>t, <2>1, <2>2, SoundOthers
<1>23. ASSUME NEW f \in Slot, FireTimer(f) PROVE \A g \in Slot : FlightInv(g)'
  <2>1. FlightInv(f) /\ Only(f)
    BY <1>23, <1>t, FireTimerF DEF Hears
  <2>2. FlightInv(f)'
    BY <1>23, <1>t, <2>1, FireTimerF DEF Hears, Is, Quiet, FlightInv, Grows
  <2> QED
    BY <1>t, <2>1, <2>2, SoundOthers
<1>24. ASSUME NEW f \in Slot, ReadPay(f) PROVE \A g \in Slot : FlightInv(g)'
  <2>1. FlightInv(f) /\ Only(f)
    BY <1>24, <1>t, ReadPayF DEF Hears
  <2>2. FlightInv(f)'
    <3>1. CASE /\ flight[f].id \in Order /\ status[flight[f].id] = "PENDING"
               /\ Is(flight'[f], "paying", flight[f].key, flight[f].items, flight[f].id,
                     flight[f].method, "none", flight[f].live)
      BY <1>t, <2>1, <3>1 DEF Is, FlightInv, Grows
    <3>2. CASE /\ Hears(f, "ok", flight[f].id)
               /\ status[flight[f].id] = "PAID" /\ flight[f].id \in Order
      <4>1. flight[f].id \in paidEver'
        BY <1>t, <3>2 DEF Grows, Typed, LedgerInv, OrdersInv
      <4>2. flight[f].what = "pay"
        BY <1>24, ReadPayF
      <4> QED
        BY <1>t, <2>1, <3>2, <4>1, <4>2, SoundHearing
    <3>3. CASE Hears(f, "error", flight[f].id)
      <4>1. flight[f].what = "pay"
        BY <1>24, ReadPayF
      <4> QED
        BY <1>t, <2>1, <3>3, <4>1, SoundHearing
    <3> QED
      BY <1>24, <3>1, <3>2, <3>3, ReadPayF
  <2> QED
    BY <1>t, <2>1, <2>2, SoundOthers
<1>25. ASSUME NEW f \in Slot, CommitPay(f) PROVE \A g \in Slot : FlightInv(g)'
  <2>1. FlightInv(f) /\ Only(f)
    BY <1>25, <1>t, CommitPayF DEF Hears
  <2>2. FlightInv(f)'
    BY <1>25, <1>t, <2>1, CommitPayF, SoundHearing
  <2> QED
    BY <1>t, <2>1, <2>2, SoundOthers
<1>26. ASSUME NEW f \in Slot, ReceivePay(f) PROVE \A g \in Slot : FlightInv(g)'
  <2>1. FlightInv(f) /\ Only(f)
    BY <1>26, <1>t, ReceivePayF DEF Hears
  <2>2. FlightInv(f)'
    BY <1>26, <1>t, <2>1, ReceivePayF DEF Hears, Is, Quiet, FlightInv, Grows
  <2> QED
    BY <1>t, <2>1, <2>2, SoundOthers
<1>27. ASSUME NEW f \in Slot, NEW how \in {"error", "cut"}, FailFlight(f, how)
       PROVE \A g \in Slot : FlightInv(g)'
  <2> DEFINE r == flight[f]
  <2>1. /\ flight' \in [Slot -> Flights] /\ r.live
        /\ Is(flight'[f], r.what, r.key, r.items, IF r.what = "order" THEN None ELSE r.id,
              r.method, how, TRUE)
        /\ \A g \in Slot \ {f} :
             \/ flight'[g] = flight[g]
             \/ /\ Free(g) /\ r.reply = "none"
                /\ Is(flight'[g], r.what, r.key, r.items, r.id, r.method, "none", FALSE)
        /\ r.what \in {"order", "invoice", "pay", "paying"}
    BY <1>27, FailFlightF
  <2>2. FlightInv(f)'
    BY <1>t, <2>1 DEF Is, FlightInv, Grows
  <2>3. ASSUME NEW g \in Slot \ {f}
        PROVE  FlightInv(g)'
    BY <1>t, <2>1, <2>3, SoundStays, SoundAbandoned
  <2> QED
    BY <2>2, <2>3
<1>28. ASSUME NEW s \in saving, SaveRecord(s) PROVE \A g \in Slot : FlightInv(g)'
  BY <1>28, <1>t DEF SaveRecord, drawer, server, past, FlightInv, Grows
<1>29. CASE LoseRecord
  BY <1>29, <1>t DEF LoseRecord, Trouble, drawer, server, past, FlightInv, Grows
<1>30. ASSUME NEW o \in Order, Elsewhere(o) PROVE \A g \in Slot : FlightInv(g)'
  BY <1>30, <1>t DEF Elsewhere, Trouble, drawer, server, past, FlightInv, Grows
<1> QED
  BY <1>0, <1>1, <1>2, <1>3, <1>4, <1>5, <1>6, <1>7, <1>8, <1>9, <1>10, <1>11, <1>12, <1>13,
     <1>14, <1>15, <1>16, <1>17, <1>18, <1>19, <1>20, <1>21, <1>22, <1>23, <1>24, <1>25, <1>26,
     <1>27, <1>28, <1>29, <1>30 DEF StoreNext

\* Every step keeps the types of the drawer.
LEMMA DrawerKept ==
    ASSUME Typed, [StoreNext]_storeVars
    PROVE  DrawerOK'
<1>t. /\ DrawerOK /\ RequestsOK /\ Order \subseteq Id /\ Local \subseteq Id
  BY IdIn DEF Typed, StoreTypeOK
<1>0. CASE UNCHANGED storeVars
  BY <1>0, <1>t DEF storeVars, drawer, server, past, DrawerOK
<1>1. ASSUME NEW start \in {"cart", "checkout"}, OpenCart(start) PROVE DrawerOK'
  <2>1. key + 1 \in Key
    BY <1>1, <1>t, Bounds DEF OpenCart, Opened, Restarted, DrawerOK, Key
  <2> QED
    BY <1>1, <1>t, <2>1 DEF OpenCart, Opened, Restarted, DrawerOK
<1>2. CASE CloseCart
  BY <1>2, <1>t DEF CloseCart, drawer, server, past, DrawerOK
<1>3. CASE CloseAndReset
  BY <1>3, <1>t DEF CloseAndReset, drawer, server, past, DrawerOK
<1>4. CASE Reload
  BY <1>4, <1>t DEF Reload, LeavePage, DrawerOK
<1>5. CASE GoCheckout
  BY <1>5, <1>t DEF GoCheckout, ShowStep, drawer, server, past, DrawerOK
<1>6. CASE BackToCart
  BY <1>6, <1>t DEF BackToCart, ShowStep, drawer, server, past, DrawerOK
<1>7. CASE BackToCheckout
  BY <1>7, <1>t DEF BackToCheckout, ShowStep, drawer, server, past, DrawerOK
<1>8. ASSUME NEW i \in Item, Add(i) PROVE DrawerOK'
  BY <1>8, <1>t DEF Add, drawer, server, past, DrawerOK
<1>9. ASSUME NEW i \in Item, BuyNow(i) PROVE DrawerOK'
  <2>1. /\ cart' \in SUBSET Item /\ key' \in Key \cup {0}
        /\ open' \in BOOLEAN /\ placing' \in BOOLEAN
        /\ step' \in {"cart", "checkout", "payment", "processing", "done"}
        /\ placed' \in Id \cup {None}
    <3>1. CASE open
      BY <1>9, <1>t, <3>1 DEF BuyNow, drawer, DrawerOK
    <3>2. CASE ~open
      <4>1. key + 1 \in Key
        BY <1>9, <1>t, <3>2, Bounds DEF BuyNow, Opened, Restarted, DrawerOK, Key
      <4> QED
        BY <1>9, <1>t, <3>2, <4>1 DEF BuyNow, Opened, Restarted, DrawerOK
    <3> QED
      BY <3>1, <3>2
  <2> QED
    BY <1>9, <1>t, <2>1 DEF BuyNow, DrawerOK
<1>10. ASSUME NEW i \in Item, Remove(i) PROVE DrawerOK'
  BY <1>10, <1>t DEF Remove, drawer, server, past, DrawerOK
<1>11. ASSUME NEW f \in Slot, ConfirmOrder(f) PROVE DrawerOK'
  BY <1>11, <1>t DEF ConfirmOrder, Asks, Free, drawer, server, past, DrawerOK
<1>12. ASSUME NEW f \in Slot, SendOrder(f) PROVE DrawerOK'
  BY <1>12, <1>t DEF SendOrder, Sent, drawer, server, past, DrawerOK
<1>13. ASSUME NEW f \in Slot, RepeatOrder(f) PROVE DrawerOK'
  BY <1>13, <1>t DEF RepeatOrder, Sent, Replayed, drawer, server, past, DrawerOK
<1>14. ASSUME NEW f \in Slot, RefuseOrder(f) PROVE DrawerOK'
  BY <1>14, <1>t DEF RefuseOrder, Sent, Replayed, Trouble, drawer, server, past, DrawerOK
<1>15. ASSUME NEW f \in Slot, CreateOrder(f) PROVE DrawerOK'
  BY <1>15, <1>t DEF CreateOrder, Sent, Replayed, drawer, server, past, DrawerOK
<1>16. ASSUME NEW f \in Slot, ReceiveOrder(f) PROVE DrawerOK'
  <2>1. /\ cart' \in SUBSET Item /\ UNCHANGED <<open, key>> /\ placing' = FALSE
    BY <1>16, <1>t DEF ReceiveOrder, DrawerOK
  <2>2. CASE UNCHANGED <<history, placed, step>>
    BY <1>t, <2>1, <2>2 DEF DrawerOK
  <2>3. ASSUME NEW d \in Id, history' = [history EXCEPT ![d] = "pending"],
               placed' = d, step' = "payment"
        PROVE  DrawerOK'
    BY <1>t, <2>1, <2>3 DEF DrawerOK
  <2> QED
    BY <1>16, <2>2, <2>3 DEF ReceiveOrder
<1>17. ASSUME NEW f \in Slot, NEW method \in {"PAYDUNYA", "OTHER"}, RunPayment(f, method)
       PROVE DrawerOK'
  BY <1>17, <1>t DEF RunPayment, CanPay, Free, Asks, drawer, server, past, DrawerOK
<1>18. ASSUME NEW f \in Slot, RepeatInvoice(f) PROVE DrawerOK'
  BY <1>18, <1>t DEF RepeatInvoice, Sent, Replayed, drawer, server, past, DrawerOK
<1>19. ASSUME NEW f \in Slot, CreateInvoice(f) PROVE DrawerOK'
  BY <1>19, <1>t DEF CreateInvoice, Sent, Replayed, drawer, server, past, DrawerOK
<1>20. ASSUME NEW f \in Slot, RefuseInvoice(f) PROVE DrawerOK'
  BY <1>20, <1>t DEF RefuseInvoice, Sent, Replayed, Trouble, drawer, server, past, DrawerOK
<1>21. ASSUME NEW f \in Slot, GoToPayDunya(f) PROVE DrawerOK'
  BY <1>21, <1>t DEF GoToPayDunya, LeavePage, DrawerOK
<1>22. ASSUME NEW f \in Slot, ReceiveInvoice(f) PROVE DrawerOK'
  BY <1>22, <1>t, ReceiveInvoiceF
     DEF ReceiveInvoice, Answered, Hears, Is, Quiet, drawer, server, past, Only, DrawerOK
<1>23. ASSUME NEW f \in Slot, FireTimer(f) PROVE DrawerOK'
  BY <1>23, <1>t DEF FireTimer, Sent, drawer, server, past, DrawerOK
<1>24. ASSUME NEW f \in Slot, ReadPay(f) PROVE DrawerOK'
  BY <1>24, <1>t DEF ReadPay, Sent, drawer, server, past, DrawerOK
<1>25. ASSUME NEW f \in Slot, CommitPay(f) PROVE DrawerOK'
  BY <1>25, <1>t DEF CommitPay, Sent, drawer, server, past, DrawerOK
<1>26. ASSUME NEW f \in Slot, ReceivePay(f) PROVE DrawerOK'
  <2>1. flight[f].id \in Id
    BY <1>26, ReceivePayF
  <2>2. /\ UNCHANGED <<open, key, cart>> /\ placing' = FALSE
    BY <1>26 DEF ReceivePay
  <2>3. CASE /\ UNCHANGED <<history, placed>> /\ step' = "payment"
    BY <1>t, <2>2, <2>3 DEF DrawerOK
  <2>4. ASSUME NEW how \in {"cancelled", "paid"},
               history' = [history EXCEPT ![flight[f].id] = how],
               placed' = flight[f].id, step' = "done"
        PROVE  DrawerOK'
    BY <1>t, <2>1, <2>2, <2>4 DEF DrawerOK
  <2> QED
    BY <1>26, <2>3, <2>4 DEF ReceivePay
<1>27. ASSUME NEW f \in Slot, NEW how \in {"error", "cut"}, FailFlight(f, how) PROVE DrawerOK'
  BY <1>27, <1>t DEF FailFlight, Trouble, Free, drawer, server, past, DrawerOK
<1>28. ASSUME NEW s \in saving, SaveRecord(s) PROVE DrawerOK'
  BY <1>28, <1>t DEF SaveRecord, drawer, server, past, DrawerOK
<1>29. CASE LoseRecord
  BY <1>29, <1>t DEF LoseRecord, Trouble, drawer, server, past, DrawerOK
<1>30. ASSUME NEW o \in Order, Elsewhere(o) PROVE DrawerOK'
  BY <1>30, <1>t DEF Elsewhere, Trouble, drawer, server, past, DrawerOK
<1> QED
  BY <1>0, <1>1, <1>2, <1>3, <1>4, <1>5, <1>6, <1>7, <1>8, <1>9, <1>10, <1>11, <1>12, <1>13,
     <1>14, <1>15, <1>16, <1>17, <1>18, <1>19, <1>20, <1>21, <1>22, <1>23, <1>24, <1>25, <1>26,
     <1>27, <1>28, <1>29, <1>30 DEF StoreNext

\* Every step keeps the types of the server.
LEMMA ServerKept ==
    ASSUME Typed, [StoreNext]_storeVars
    PROVE  ServerOK'
<1>t. /\ ServerOK /\ \A f \in Slot : flight[f].items \in SUBSET Item
      /\ Order \subseteq Id /\ Local \subseteq Id
  BY IdIn, Fields DEF Typed, StoreTypeOK, RequestsOK
<1>0. CASE UNCHANGED storeVars
  BY <1>0, <1>t DEF storeVars, drawer, server, past, ServerOK
<1>1. ASSUME NEW start \in {"cart", "checkout"}, OpenCart(start) PROVE ServerOK'
  BY <1>1, <1>t DEF OpenCart, Opened, Restarted, drawer, server, past, ServerOK
<1>2. CASE CloseCart
  BY <1>2, <1>t DEF CloseCart, drawer, server, past, ServerOK
<1>3. CASE CloseAndReset
  BY <1>3, <1>t DEF CloseAndReset, drawer, server, past, ServerOK
<1>4. CASE Reload
  BY <1>4, <1>t DEF Reload, LeavePage, Trouble, drawer, server, past, ServerOK
<1>5. CASE GoCheckout
  BY <1>5, <1>t DEF GoCheckout, ShowStep, drawer, server, past, ServerOK
<1>6. CASE BackToCart
  BY <1>6, <1>t DEF BackToCart, ShowStep, drawer, server, past, ServerOK
<1>7. CASE BackToCheckout
  BY <1>7, <1>t DEF BackToCheckout, ShowStep, drawer, server, past, ServerOK
<1>8. ASSUME NEW i \in Item, Add(i) PROVE ServerOK'
  BY <1>8, <1>t DEF Add, drawer, server, past, ServerOK
<1>9. ASSUME NEW i \in Item, BuyNow(i) PROVE ServerOK'
  BY <1>9, <1>t DEF BuyNow, Opened, Restarted, drawer, server, past, ServerOK
<1>10. ASSUME NEW i \in Item, Remove(i) PROVE ServerOK'
  BY <1>10, <1>t DEF Remove, drawer, server, past, ServerOK
<1>11. ASSUME NEW f \in Slot, ConfirmOrder(f) PROVE ServerOK'
  BY <1>11, <1>t DEF ConfirmOrder, Asks, Free, drawer, server, past, ServerOK
<1>12. ASSUME NEW f \in Slot, SendOrder(f) PROVE ServerOK'
  BY <1>12, <1>t DEF SendOrder, Sent, drawer, server, past, ServerOK
<1>13. ASSUME NEW f \in Slot, RepeatOrder(f) PROVE ServerOK'
  BY <1>13, <1>t DEF RepeatOrder, Sent, Replayed, drawer, server, past, ServerOK
<1>14. ASSUME NEW f \in Slot, RefuseOrder(f) PROVE ServerOK'
  BY <1>14, <1>t DEF RefuseOrder, Sent, Replayed, Trouble, drawer, server, past, ServerOK
<1>15. ASSUME NEW f \in Slot, CreateOrder(f) PROVE ServerOK'
  <2>1. PICK o \in Order :
                /\ status' = [status EXCEPT ![o] = "PENDING"]
                /\ content' = [content EXCEPT ![o] = flight[f].items]
                /\ saving' = saving \cup {<<flight[f].key, o>>} /\ flight[f].key \in Key
    BY <1>15, CreateOrderF
  <2>2. record' = record
    BY <1>15 DEF CreateOrder
  <2> QED
    BY <1>t, <2>1, <2>2 DEF ServerOK
<1>16. ASSUME NEW f \in Slot, ReceiveOrder(f) PROVE ServerOK'
  <2>1. UNCHANGED <<status, record, saving>>
    BY <1>16 DEF ReceiveOrder
  <2>2. content' = content \/ \E d \in Id : content' = [content EXCEPT ![d] = flight[f].items]
    BY <1>16 DEF ReceiveOrder, Remembers
  <2> QED
    BY <1>t, <2>1, <2>2 DEF ServerOK
<1>17. ASSUME NEW f \in Slot, NEW method \in {"PAYDUNYA", "OTHER"}, RunPayment(f, method)
       PROVE ServerOK'
  BY <1>17, <1>t DEF RunPayment, CanPay, Free, Asks, drawer, server, past, ServerOK
<1>18. ASSUME NEW f \in Slot, RepeatInvoice(f) PROVE ServerOK'
  BY <1>18, <1>t DEF RepeatInvoice, Sent, Replayed, drawer, server, past, ServerOK
<1>19. ASSUME NEW f \in Slot, CreateInvoice(f) PROVE ServerOK'
  <2>1. flight[f].key \in Key
    BY <1>19, InvoiceF
  <2> QED
    BY <1>19, <1>t, <2>1 DEF CreateInvoice, ServerOK
<1>20. ASSUME NEW f \in Slot, RefuseInvoice(f) PROVE ServerOK'
  BY <1>20, <1>t DEF RefuseInvoice, Sent, Replayed, Trouble, drawer, server, past, ServerOK
<1>21. ASSUME NEW f \in Slot, GoToPayDunya(f) PROVE ServerOK'
  BY <1>21, <1>t DEF GoToPayDunya, LeavePage, drawer, server, past, ServerOK
<1>22. ASSUME NEW f \in Slot, ReceiveInvoice(f) PROVE ServerOK'
  BY <1>22, <1>t DEF ReceiveInvoice, Answered, drawer, server, past, ServerOK
<1>23. ASSUME NEW f \in Slot, FireTimer(f) PROVE ServerOK'
  BY <1>23, <1>t DEF FireTimer, Sent, drawer, server, past, ServerOK
<1>24. ASSUME NEW f \in Slot, ReadPay(f) PROVE ServerOK'
  BY <1>24, <1>t DEF ReadPay, Sent, drawer, server, past, ServerOK
<1>25. ASSUME NEW f \in Slot, CommitPay(f) PROVE ServerOK'
  <2>1. flight[f].id \in Order
    BY <1>25, CommitPayF
  <2> QED
    BY <1>25, <1>t, <2>1 DEF CommitPay, ServerOK
<1>26. ASSUME NEW f \in Slot, ReceivePay(f) PROVE ServerOK'
  BY <1>26, <1>t DEF ReceivePay, Answered, Believed, drawer, server, past, ServerOK
<1>27. ASSUME NEW f \in Slot, NEW how \in {"error", "cut"}, FailFlight(f, how) PROVE ServerOK'
  BY <1>27, <1>t DEF FailFlight, Trouble, Free, drawer, server, past, ServerOK
<1>28. ASSUME NEW s \in saving, SaveRecord(s) PROVE ServerOK'
  BY <1>28, <1>t DEF SaveRecord, drawer, server, past, ServerOK
<1>29. CASE LoseRecord
  BY <1>29, <1>t DEF LoseRecord, Trouble, drawer, server, past, ServerOK
<1>30. ASSUME NEW o \in Order, Elsewhere(o) PROVE ServerOK'
  BY <1>30, <1>t DEF Elsewhere, Trouble, drawer, server, past, ServerOK
<1> QED
  BY <1>0, <1>1, <1>2, <1>3, <1>4, <1>5, <1>6, <1>7, <1>8, <1>9, <1>10, <1>11, <1>12, <1>13,
     <1>14, <1>15, <1>16, <1>17, <1>18, <1>19, <1>20, <1>21, <1>22, <1>23, <1>24, <1>25, <1>26,
     <1>27, <1>28, <1>29, <1>30 DEF StoreNext

\* Every step keeps the types of the history.
LEMMA PastKept ==
    ASSUME Typed, [StoreNext]_storeVars
    PROVE  PastOK'
<1>t. /\ DrawerOK /\ ServerOK /\ PastOK /\ Order \subseteq Id
      /\ \A f \in Slot : flight[f].items \in SUBSET Item
      /\ cart \subseteq wanted /\ MaxAsked \in Nat /\ MaxFaults \in Nat
  BY IdIn, Bounds, Fields DEF Typed, StoreTypeOK, RequestsOK, LedgerInv, WantedInv
<1>0. CASE UNCHANGED storeVars
  BY <1>0, <1>t DEF storeVars, drawer, server, past, PastOK, DrawerOK, ServerOK, Out, Bought
<1>1. ASSUME NEW start \in {"cart", "checkout"}, OpenCart(start) PROVE PastOK'
  BY <1>1, <1>t DEF OpenCart, Opened, Restarted, drawer, server, past, PastOK, DrawerOK,
     ServerOK, Out, Bought
<1>2. CASE CloseCart
  BY <1>2, <1>t DEF CloseCart, drawer, server, past, PastOK, DrawerOK, ServerOK, Out, Bought
<1>3. CASE CloseAndReset
  BY <1>3, <1>t DEF CloseAndReset, drawer, server, past, PastOK, DrawerOK, ServerOK, Out, Bought
<1>4. CASE Reload
  BY <1>4, <1>t DEF Reload, LeavePage, Trouble, drawer, server, past, PastOK, DrawerOK,
     ServerOK, Out, Bought
<1>5. CASE GoCheckout
  BY <1>5, <1>t
     DEF GoCheckout, ShowStep, drawer, server, past, PastOK, DrawerOK, ServerOK, Out, Bought
<1>6. CASE BackToCart
  BY <1>6, <1>t
     DEF BackToCart, ShowStep, drawer, server, past, PastOK, DrawerOK, ServerOK, Out, Bought
<1>7. CASE BackToCheckout
  BY <1>7, <1>t
     DEF BackToCheckout, ShowStep, drawer, server, past, PastOK, DrawerOK, ServerOK, Out, Bought
<1>8. ASSUME NEW i \in Item, Add(i) PROVE PastOK'
  BY <1>8, <1>t DEF Add, drawer, server, past, PastOK, DrawerOK, ServerOK, Out, Bought
<1>9. ASSUME NEW i \in Item, BuyNow(i) PROVE PastOK'
  BY <1>9, <1>t DEF BuyNow, Opened, Restarted, drawer, server, past, PastOK, DrawerOK,
     ServerOK, Out, Bought
<1>10. ASSUME NEW i \in Item, Remove(i) PROVE PastOK'
  BY <1>10, <1>t DEF Remove, drawer, server, past, PastOK, DrawerOK, ServerOK, Out, Bought
<1>11. ASSUME NEW f \in Slot, ConfirmOrder(f) PROVE PastOK'
  BY <1>11, <1>t
     DEF ConfirmOrder, Asks, Free, drawer, server, past, PastOK, DrawerOK, ServerOK, Out, Bought
<1>12. ASSUME NEW f \in Slot, SendOrder(f) PROVE PastOK'
  BY <1>12, <1>t
     DEF SendOrder, Sent, drawer, server, past, PastOK, DrawerOK, ServerOK, Out, Bought
<1>13. ASSUME NEW f \in Slot, RepeatOrder(f) PROVE PastOK'
  BY <1>13, <1>t DEF RepeatOrder, Sent, Replayed, drawer, server, past, PastOK, DrawerOK,
     ServerOK, Out, Bought
<1>14. ASSUME NEW f \in Slot, RefuseOrder(f) PROVE PastOK'
  BY <1>14, <1>t DEF RefuseOrder, Sent, Replayed, Trouble, drawer, server, past, PastOK,
     DrawerOK, ServerOK, Out, Bought
<1>15. ASSUME NEW f \in Slot, CreateOrder(f) PROVE PastOK'
  BY <1>15, <1>t DEF CreateOrder, Sent, Replayed, drawer, server, past, PastOK, DrawerOK,
     ServerOK, Out, Bought
<1>16. ASSUME NEW f \in Slot, ReceiveOrder(f) PROVE PastOK'
  BY <1>16, <1>t DEF ReceiveOrder, Answered, Remembers, Emptied, drawer, server, past, PastOK,
     DrawerOK, ServerOK, Out, Bought
<1>17. ASSUME NEW f \in Slot, NEW method \in {"PAYDUNYA", "OTHER"}, RunPayment(f, method)
       PROVE PastOK'
  BY <1>17, <1>t DEF RunPayment, CanPay, Free, Asks, drawer, server, past, PastOK, DrawerOK,
     ServerOK, Out, Bought
<1>18. ASSUME NEW f \in Slot, RepeatInvoice(f) PROVE PastOK'
  <2>1. flight[f].id \in Id
    BY <1>18, InvoiceF
  <2> QED
    BY <1>18, <1>t, <2>1 DEF RepeatInvoice, server, drawer, PastOK
<1>19. ASSUME NEW f \in Slot, CreateInvoice(f) PROVE PastOK'
  BY <1>19, <1>t DEF CreateInvoice, Sent, Replayed, drawer, server, past, PastOK, DrawerOK,
     ServerOK, Out, Bought
<1>20. ASSUME NEW f \in Slot, RefuseInvoice(f) PROVE PastOK'
  BY <1>20, <1>t DEF RefuseInvoice, Sent, Replayed, Trouble, drawer, server, past, PastOK,
     DrawerOK, ServerOK, Out, Bought
<1>21. ASSUME NEW f \in Slot, GoToPayDunya(f) PROVE PastOK'
  BY <1>21, <1>t
     DEF GoToPayDunya, LeavePage, drawer, server, past, PastOK, DrawerOK, ServerOK, Out, Bought
<1>22. ASSUME NEW f \in Slot, ReceiveInvoice(f) PROVE PastOK'
  BY <1>22, <1>t
     DEF ReceiveInvoice, Answered, drawer, server, past, PastOK, DrawerOK, ServerOK, Out, Bought
<1>23. ASSUME NEW f \in Slot, FireTimer(f) PROVE PastOK'
  BY <1>23, <1>t
     DEF FireTimer, Sent, drawer, server, past, PastOK, DrawerOK, ServerOK, Out, Bought
<1>24. ASSUME NEW f \in Slot, ReadPay(f) PROVE PastOK'
  BY <1>24, <1>t
     DEF ReadPay, Sent, drawer, server, past, PastOK, DrawerOK, ServerOK, Out, Bought
<1>25. ASSUME NEW f \in Slot, CommitPay(f) PROVE PastOK'
  <2>1. flight[f].id \in Order
    BY <1>25, CommitPayF
  <2> QED
    BY <1>25, <1>t, <2>1 DEF CommitPay, drawer, PastOK
<1>26. ASSUME NEW f \in Slot, ReceivePay(f) PROVE PastOK'
  <2>1. flight[f].id \in Id
    BY <1>26, ReceivePayF
  <2> QED
    BY <1>26, <1>t, <2>1 DEF ReceivePay, PastOK
<1>27. ASSUME NEW f \in Slot, NEW how \in {"error", "cut"}, FailFlight(f, how) PROVE PastOK'
  BY <1>27, <1>t DEF FailFlight, Trouble, Free, drawer, server, past, PastOK, DrawerOK,
     ServerOK, Out, Bought
<1>28. ASSUME NEW s \in saving, SaveRecord(s) PROVE PastOK'
  BY <1>28, <1>t DEF SaveRecord, drawer, server, past, PastOK, DrawerOK, ServerOK, Out, Bought
<1>29. CASE LoseRecord
  BY <1>29, <1>t
     DEF LoseRecord, Trouble, drawer, server, past, PastOK, DrawerOK, ServerOK, Out, Bought
<1>30. ASSUME NEW o \in Order, Elsewhere(o) PROVE PastOK'
  BY <1>30, <1>t
     DEF Elsewhere, Trouble, drawer, server, past, PastOK, DrawerOK, ServerOK, Out, Bought
<1> QED
  BY <1>0, <1>1, <1>2, <1>3, <1>4, <1>5, <1>6, <1>7, <1>8, <1>9, <1>10, <1>11, <1>12, <1>13,
     <1>14, <1>15, <1>16, <1>17, <1>18, <1>19, <1>20, <1>21, <1>22, <1>23, <1>24, <1>25, <1>26,
     <1>27, <1>28, <1>29, <1>30 DEF StoreNext

\* The server's orders are not a browser's records.
LEMMA Apart == Order \cap Local = {}
BY Bounds DEF Order, Local

\* Every step keeps what the keys are.
LEMMA KeysKept ==
    ASSUME Typed, [StoreNext]_storeVars
    PROVE  KeysInv'
<1>t. /\ LedgerInv /\ \A f \in Slot : FlightInv(f)
      /\ DrawerOK /\ ServerOK /\ flight \in [Slot -> Flights] /\ key \in Nat
      /\ None \notin Id /\ Order \subseteq Id /\ Local \subseteq Id /\ Order \cap Local = {}
  BY IdIn, Bounds, Apart DEF Typed, StoreTypeOK, RequestsOK, DrawerOK, Key
<1>0. CASE UNCHANGED storeVars
  BY <1>0, <1>t DEF storeVars, drawer, server, past, KeysInv, LedgerInv, DrawerOK, ServerOK, Key
<1>1. ASSUME NEW start \in {"cart", "checkout"}, OpenCart(start) PROVE KeysInv'
  BY <1>1, <1>t DEF OpenCart, Opened, Restarted, drawer, server, past, KeysInv, LedgerInv,
     DrawerOK, ServerOK, Key
<1>2. CASE CloseCart
  BY <1>2, <1>t DEF CloseCart, drawer, server, past, KeysInv, LedgerInv, DrawerOK, ServerOK, Key
<1>3. CASE CloseAndReset
  BY <1>3, <1>t
     DEF CloseAndReset, drawer, server, past, KeysInv, LedgerInv, DrawerOK, ServerOK, Key
<1>4. CASE Reload
  BY <1>4, <1>t DEF Reload, LeavePage, Trouble, drawer, server, past, KeysInv, LedgerInv,
     DrawerOK, ServerOK, Key
<1>5. CASE GoCheckout
  BY <1>5, <1>t
     DEF GoCheckout, ShowStep, drawer, server, past, KeysInv, LedgerInv, DrawerOK, ServerOK, Key
<1>6. CASE BackToCart
  BY <1>6, <1>t
     DEF BackToCart, ShowStep, drawer, server, past, KeysInv, LedgerInv, DrawerOK, ServerOK, Key
<1>7. CASE BackToCheckout
  BY <1>7, <1>t DEF BackToCheckout, ShowStep, drawer, server, past, KeysInv, LedgerInv,
     DrawerOK, ServerOK, Key
<1>8. ASSUME NEW i \in Item, Add(i) PROVE KeysInv'
  BY <1>8, <1>t DEF Add, drawer, server, past, KeysInv, LedgerInv, DrawerOK, ServerOK, Key
<1>9. ASSUME NEW i \in Item, BuyNow(i) PROVE KeysInv'
  BY <1>9, <1>t DEF BuyNow, Opened, Restarted, drawer, server, past, KeysInv, LedgerInv,
     DrawerOK, ServerOK, Key
<1>10. ASSUME NEW i \in Item, Remove(i) PROVE KeysInv'
  BY <1>10, <1>t DEF Remove, drawer, server, past, KeysInv, LedgerInv, DrawerOK, ServerOK, Key
<1>11. ASSUME NEW f \in Slot, ConfirmOrder(f) PROVE KeysInv'
  BY <1>11, <1>t DEF ConfirmOrder, Asks, Free, drawer, server, past, KeysInv, LedgerInv,
     DrawerOK, ServerOK, Key
<1>12. ASSUME NEW f \in Slot, SendOrder(f) PROVE KeysInv'
  BY <1>12, <1>t
     DEF SendOrder, Sent, drawer, server, past, KeysInv, LedgerInv, DrawerOK, ServerOK, Key
<1>13. ASSUME NEW f \in Slot, RepeatOrder(f) PROVE KeysInv'
  BY <1>13, <1>t DEF RepeatOrder, Sent, Replayed, drawer, server, past, KeysInv, LedgerInv,
     DrawerOK, ServerOK, Key
<1>14. ASSUME NEW f \in Slot, RefuseOrder(f) PROVE KeysInv'
  BY <1>14, <1>t DEF RefuseOrder, Sent, Replayed, Trouble, drawer, server, past, KeysInv,
     LedgerInv, DrawerOK, ServerOK, Key
<1>15. ASSUME NEW f \in Slot, CreateOrder(f) PROVE KeysInv'
  <2>1. /\ flight[f].key \in Key /\ flight[f].key <= key
        /\ \E o \in Order : saving' = saving \cup {<<flight[f].key, o>>}
    BY <1>15, <1>t, CreateOrderF DEF FlightInv
  <2> QED
    BY <1>15, <1>t, <2>1 DEF CreateOrder, drawer, ServerOK, LedgerInv, KeysInv
<1>16. ASSUME NEW f \in Slot, ReceiveOrder(f) PROVE KeysInv'
  BY <1>16, <1>t DEF ReceiveOrder, Answered, Remembers, Emptied, drawer, server, past, KeysInv,
     LedgerInv, DrawerOK, ServerOK, Key
<1>17. ASSUME NEW f \in Slot, NEW method \in {"PAYDUNYA", "OTHER"}, RunPayment(f, method)
       PROVE KeysInv'
  BY <1>17, <1>t DEF RunPayment, CanPay, Free, Asks, drawer, server, past, KeysInv, LedgerInv,
     DrawerOK, ServerOK, Key
<1>18. ASSUME NEW f \in Slot, RepeatInvoice(f) PROVE KeysInv'
  BY <1>18, <1>t DEF RepeatInvoice, Sent, Replayed, drawer, server, past, KeysInv, LedgerInv,
     DrawerOK, ServerOK, Key
<1>19. ASSUME NEW f \in Slot, CreateInvoice(f) PROVE KeysInv'
  <2>1. /\ flight[f].key \in Key /\ flight[f].key <= key
    BY <1>19, <1>t, InvoiceF DEF FlightInv
  <2> QED
    BY <1>19, <1>t, <2>1 DEF CreateInvoice, drawer, ServerOK, LedgerInv, KeysInv
<1>20. ASSUME NEW f \in Slot, RefuseInvoice(f) PROVE KeysInv'
  BY <1>20, <1>t DEF RefuseInvoice, Sent, Replayed, Trouble, drawer, server, past, KeysInv,
     LedgerInv, DrawerOK, ServerOK, Key
<1>21. ASSUME NEW f \in Slot, GoToPayDunya(f) PROVE KeysInv'
  BY <1>21, <1>t DEF GoToPayDunya, LeavePage, drawer, server, past, KeysInv, LedgerInv,
     DrawerOK, ServerOK, Key
<1>22. ASSUME NEW f \in Slot, ReceiveInvoice(f) PROVE KeysInv'
  BY <1>22, <1>t DEF ReceiveInvoice, Answered, drawer, server, past, KeysInv, LedgerInv,
     DrawerOK, ServerOK, Key
<1>23. ASSUME NEW f \in Slot, FireTimer(f) PROVE KeysInv'
  BY <1>23, <1>t
     DEF FireTimer, Sent, drawer, server, past, KeysInv, LedgerInv, DrawerOK, ServerOK, Key
<1>24. ASSUME NEW f \in Slot, ReadPay(f) PROVE KeysInv'
  BY <1>24, <1>t
     DEF ReadPay, Sent, drawer, server, past, KeysInv, LedgerInv, DrawerOK, ServerOK, Key
<1>25. ASSUME NEW f \in Slot, CommitPay(f) PROVE KeysInv'
  BY <1>25, <1>t
     DEF CommitPay, Sent, drawer, server, past, KeysInv, LedgerInv, DrawerOK, ServerOK, Key
<1>26. ASSUME NEW f \in Slot, ReceivePay(f) PROVE KeysInv'
  BY <1>26, <1>t DEF ReceivePay, Answered, Believed, drawer, server, past, KeysInv, LedgerInv,
     DrawerOK, ServerOK, Key
<1>27. ASSUME NEW f \in Slot, NEW how \in {"error", "cut"}, FailFlight(f, how) PROVE KeysInv'
  BY <1>27, <1>t DEF FailFlight, Trouble, Free, drawer, server, past, KeysInv, LedgerInv,
     DrawerOK, ServerOK, Key
<1>28. ASSUME NEW s \in saving, SaveRecord(s) PROVE KeysInv'
  <2>1. s[1] \in Key /\ s[1] <= key
    BY <1>28, <1>t DEF ServerOK, LedgerInv, KeysInv
  <2> QED
    BY <1>28, <1>t, <2>1 DEF SaveRecord, drawer, ServerOK, LedgerInv, KeysInv
<1>29. CASE LoseRecord
  BY <1>29, <1>t
     DEF LoseRecord, Trouble, drawer, server, past, KeysInv, LedgerInv, DrawerOK, ServerOK, Key
<1>30. ASSUME NEW o \in Order, Elsewhere(o) PROVE KeysInv'
  BY <1>30, <1>t
     DEF Elsewhere, Trouble, drawer, server, past, KeysInv, LedgerInv, DrawerOK, ServerOK, Key
<1> QED
  BY <1>0, <1>1, <1>2, <1>3, <1>4, <1>5, <1>6, <1>7, <1>8, <1>9, <1>10, <1>11, <1>12, <1>13,
     <1>14, <1>15, <1>16, <1>17, <1>18, <1>19, <1>20, <1>21, <1>22, <1>23, <1>24, <1>25, <1>26,
     <1>27, <1>28, <1>29, <1>30 DEF StoreNext

\* A request for things that were wanted keeps the wants.
LEMMA WantedKept ==
    ASSUME WantedInv, NEW f \in Slot, Only(f), flight'[f].items \subseteq wanted,
           UNCHANGED <<cart, content, wanted>>
    PROVE  WantedInv'
BY DEF WantedInv, Only

\* Every step buys what was wanted.
LEMMA WantKept ==
    ASSUME Typed, [StoreNext]_storeVars
    PROVE  WantedInv'
<1>t. /\ LedgerInv /\ \A f \in Slot : FlightInv(f)
      /\ DrawerOK /\ ServerOK /\ flight \in [Slot -> Flights] /\ key \in Nat
      /\ None \notin Id /\ Order \subseteq Id /\ Local \subseteq Id /\ Order \cap Local = {}
  BY IdIn, Bounds, Apart DEF Typed, StoreTypeOK, RequestsOK, DrawerOK, Key
<1>0. CASE UNCHANGED storeVars
  BY <1>0, <1>t DEF storeVars, drawer, server, past, WantedInv, LedgerInv
<1>1. ASSUME NEW start \in {"cart", "checkout"}, OpenCart(start) PROVE WantedInv'
  BY <1>1, <1>t DEF OpenCart, Opened, Restarted, drawer, server, past, WantedInv, LedgerInv
<1>2. CASE CloseCart
  <2>1. \A g \in Slot : flight'[g].items \subseteq wanted
    BY <1>2, <1>t, CloseCartF DEF Clears, Is, Quiet, WantedInv, LedgerInv
  <2>2. UNCHANGED <<cart, content, wanted>>
    BY <1>2 DEF CloseCart, server, past
  <2> QED
    BY <1>t, <2>1, <2>2 DEF LedgerInv, WantedInv
<1>3. CASE CloseAndReset
  <2>1. \A g \in Slot : flight'[g].items \subseteq wanted
    BY <1>3, <1>t, CloseAndResetF DEF Clears, Is, Quiet, WantedInv, LedgerInv
  <2>2. UNCHANGED <<cart, content, wanted>>
    BY <1>3 DEF CloseAndReset, server, past
  <2> QED
    BY <1>t, <2>1, <2>2 DEF LedgerInv, WantedInv
<1>4. CASE Reload
  <2>1. \A g \in Slot : flight'[g].items \subseteq wanted
    BY <1>4, <1>t, ReloadF DEF Goes, Is, Quiet, WantedInv, LedgerInv
  <2>2. UNCHANGED <<cart, content, wanted>>
    BY <1>4 DEF Reload, LeavePage, Trouble, server, past
  <2> QED
    BY <1>t, <2>1, <2>2 DEF LedgerInv, WantedInv
<1>5. CASE GoCheckout
  BY <1>5, <1>t DEF GoCheckout, ShowStep, drawer, server, past, WantedInv, LedgerInv
<1>6. CASE BackToCart
  BY <1>6, <1>t DEF BackToCart, ShowStep, drawer, server, past, WantedInv, LedgerInv
<1>7. CASE BackToCheckout
  BY <1>7, <1>t DEF BackToCheckout, ShowStep, drawer, server, past, WantedInv, LedgerInv
<1>8. ASSUME NEW i \in Item, Add(i) PROVE WantedInv'
  BY <1>8, <1>t DEF Add, drawer, server, past, WantedInv, LedgerInv
<1>9. ASSUME NEW i \in Item, BuyNow(i) PROVE WantedInv'
  BY <1>9, <1>t DEF BuyNow, Opened, Restarted, drawer, server, past, WantedInv, LedgerInv
<1>10. ASSUME NEW i \in Item, Remove(i) PROVE WantedInv'
  BY <1>10, <1>t DEF Remove, drawer, server, past, WantedInv, LedgerInv
<1>11. ASSUME NEW f \in Slot, ConfirmOrder(f) PROVE WantedInv'
  <2>1. Only(f) /\ flight'[f].items \subseteq wanted
    BY <1>11, <1>t, ConfirmOrderF DEF Hears, Is, Quiet, WantedInv, LedgerInv
  <2>2. UNCHANGED <<cart, content, wanted>>
    BY <1>11 DEF ConfirmOrder, Asks, Free, drawer, server, past
  <2> QED
    BY <1>t, <2>1, <2>2, WantedKept DEF LedgerInv
<1>12. ASSUME NEW f \in Slot, SendOrder(f) PROVE WantedInv'
  <2>1. Only(f) /\ flight'[f].items \subseteq wanted
    BY <1>12, <1>t, SendOrderF DEF Hears, Is, Quiet, WantedInv, LedgerInv
  <2>2. UNCHANGED <<cart, content, wanted>>
    BY <1>12 DEF SendOrder, Sent, drawer, server, past
  <2> QED
    BY <1>t, <2>1, <2>2, WantedKept DEF LedgerInv
<1>13. ASSUME NEW f \in Slot, RepeatOrder(f) PROVE WantedInv'
  <2>1. Only(f) /\ flight'[f].items \subseteq wanted
    BY <1>13, <1>t, RepeatOrderF DEF Hears, Is, Quiet, WantedInv, LedgerInv
  <2>2. UNCHANGED <<cart, content, wanted>>
    BY <1>13 DEF RepeatOrder, Sent, Replayed, drawer, server, past
  <2> QED
    BY <1>t, <2>1, <2>2, WantedKept DEF LedgerInv
<1>14. ASSUME NEW f \in Slot, RefuseOrder(f) PROVE WantedInv'
  <2>1. Only(f) /\ flight'[f].items \subseteq wanted
    BY <1>14, <1>t, RefuseOrderF DEF Hears, Is, Quiet, WantedInv, LedgerInv
  <2>2. UNCHANGED <<cart, content, wanted>>
    BY <1>14 DEF RefuseOrder, Sent, Replayed, Trouble, drawer, server, past
  <2> QED
    BY <1>t, <2>1, <2>2, WantedKept DEF LedgerInv
<1>15. ASSUME NEW f \in Slot, CreateOrder(f) PROVE WantedInv'
  <2>1. Only(f) /\ flight'[f].items \subseteq wanted
    BY <1>15, <1>t, CreateOrderF DEF Hears, Is, Quiet, WantedInv, LedgerInv
  <2>2. /\ UNCHANGED <<cart, wanted>>
        /\ \E o \in Order : content' = [content EXCEPT ![o] = flight[f].items]
    BY <1>15, CreateOrderF DEF CreateOrder, drawer, past
  <2> QED
    BY <1>t, <2>1, <2>2 DEF LedgerInv, WantedInv, Only, ServerOK
<1>16. ASSUME NEW f \in Slot, ReceiveOrder(f) PROVE WantedInv'
  <2>1. Only(f) /\ flight'[f].items \subseteq wanted
    BY <1>16, <1>t, ReceiveOrderF DEF Hears, Is, Quiet, WantedInv, LedgerInv
  <2>2. /\ cart' \subseteq cart /\ UNCHANGED wanted
        /\ content' = content \/ \E o \in Id : content' = [content EXCEPT ![o] = flight[f].items]
    BY <1>16 DEF ReceiveOrder, Remembers, past
  <2> QED
    BY <1>t, <2>1, <2>2 DEF LedgerInv, WantedInv, Only, ServerOK
<1>17. ASSUME NEW f \in Slot, NEW method \in {"PAYDUNYA", "OTHER"}, RunPayment(f, method)
       PROVE WantedInv'
  <2>1. Only(f) /\ flight'[f].items \subseteq wanted
    BY <1>17, <1>t, RunPaymentF DEF Hears, Is, Quiet, WantedInv, LedgerInv
  <2>2. UNCHANGED <<cart, content, wanted>>
    BY <1>17 DEF RunPayment, CanPay, Free, Asks, drawer, server, past
  <2> QED
    BY <1>t, <2>1, <2>2, WantedKept DEF LedgerInv
<1>18. ASSUME NEW f \in Slot, RepeatInvoice(f) PROVE WantedInv'
  <2>1. Only(f) /\ flight'[f].items \subseteq wanted
    BY <1>18, <1>t, InvoiceF DEF Hears, Is, Quiet, WantedInv, LedgerInv
  <2>2. UNCHANGED <<cart, content, wanted>>
    BY <1>18 DEF RepeatInvoice, Sent, Replayed, drawer, server, past
  <2> QED
    BY <1>t, <2>1, <2>2, WantedKept DEF LedgerInv
<1>19. ASSUME NEW f \in Slot, CreateInvoice(f) PROVE WantedInv'
  <2>1. Only(f) /\ flight'[f].items \subseteq wanted
    BY <1>19, <1>t, InvoiceF DEF Hears, Is, Quiet, WantedInv, LedgerInv
  <2>2. UNCHANGED <<cart, content, wanted>>
    BY <1>19 DEF CreateInvoice, Sent, Replayed, drawer, server, past
  <2> QED
    BY <1>t, <2>1, <2>2, WantedKept DEF LedgerInv
<1>20. ASSUME NEW f \in Slot, RefuseInvoice(f) PROVE WantedInv'
  <2>1. Only(f) /\ flight'[f].items \subseteq wanted
    BY <1>20, <1>t, InvoiceF DEF Hears, Is, Quiet, WantedInv, LedgerInv
  <2>2. UNCHANGED <<cart, content, wanted>>
    BY <1>20 DEF RefuseInvoice, Sent, Replayed, Trouble, drawer, server, past
  <2> QED
    BY <1>t, <2>1, <2>2, WantedKept DEF LedgerInv
<1>21. ASSUME NEW f \in Slot, GoToPayDunya(f) PROVE WantedInv'
  <2>1. \A g \in Slot : flight'[g].items \subseteq wanted
    BY <1>21, <1>t, GoToPayDunyaF DEF Goes, Is, Quiet, WantedInv, LedgerInv
  <2>2. UNCHANGED <<cart, content, wanted>>
    BY <1>21 DEF GoToPayDunya, LeavePage, server, past
  <2> QED
    BY <1>t, <2>1, <2>2 DEF LedgerInv, WantedInv
<1>22. ASSUME NEW f \in Slot, ReceiveInvoice(f) PROVE WantedInv'
  <2>1. Only(f) /\ flight'[f].items \subseteq wanted
    BY <1>22, <1>t, ReceiveInvoiceF DEF Hears, Is, Quiet, WantedInv, LedgerInv
  <2>2. UNCHANGED <<cart, content, wanted>>
    BY <1>22 DEF ReceiveInvoice, Answered, drawer, server, past
  <2> QED
    BY <1>t, <2>1, <2>2, WantedKept DEF LedgerInv
<1>23. ASSUME NEW f \in Slot, FireTimer(f) PROVE WantedInv'
  <2>1. Only(f) /\ flight'[f].items \subseteq wanted
    BY <1>23, <1>t, FireTimerF DEF Hears, Is, Quiet, WantedInv, LedgerInv
  <2>2. UNCHANGED <<cart, content, wanted>>
    BY <1>23 DEF FireTimer, Sent, drawer, server, past
  <2> QED
    BY <1>t, <2>1, <2>2, WantedKept DEF LedgerInv
<1>24. ASSUME NEW f \in Slot, ReadPay(f) PROVE WantedInv'
  <2>1. Only(f) /\ flight'[f].items \subseteq wanted
    BY <1>24, <1>t, ReadPayF DEF Hears, Is, Quiet, WantedInv, LedgerInv
  <2>2. UNCHANGED <<cart, content, wanted>>
    BY <1>24 DEF ReadPay, Sent, drawer, server, past
  <2> QED
    BY <1>t, <2>1, <2>2, WantedKept DEF LedgerInv
<1>25. ASSUME NEW f \in Slot, CommitPay(f) PROVE WantedInv'
  <2>1. Only(f) /\ flight'[f].items \subseteq wanted
    BY <1>25, <1>t, CommitPayF DEF Hears, Is, Quiet, WantedInv, LedgerInv
  <2>2. UNCHANGED <<cart, content, wanted>>
    BY <1>25 DEF CommitPay, Sent, drawer, server, past
  <2> QED
    BY <1>t, <2>1, <2>2, WantedKept DEF LedgerInv
<1>26. ASSUME NEW f \in Slot, ReceivePay(f) PROVE WantedInv'
  <2>1. Only(f) /\ flight'[f].items \subseteq wanted
    BY <1>26, <1>t, ReceivePayF DEF Hears, Is, Quiet, WantedInv, LedgerInv
  <2>2. UNCHANGED <<cart, content, wanted>>
    BY <1>26 DEF ReceivePay, Answered, Believed, drawer, server, past
  <2> QED
    BY <1>t, <2>1, <2>2, WantedKept DEF LedgerInv
<1>27. ASSUME NEW f \in Slot, NEW how \in {"error", "cut"}, FailFlight(f, how) PROVE WantedInv'
  <2>0. /\ flight'[f].items = flight[f].items
        /\ \A g \in Slot \ {f} : \/ flight'[g] = flight[g]
                                \/ flight'[g].items = flight[f].items
    BY <1>27, FailFlightF DEF Is
  <2>1. \A g \in Slot : flight'[g].items \subseteq wanted
    BY <1>t, <2>0 DEF WantedInv, LedgerInv
  <2>2. UNCHANGED <<cart, content, wanted>>
    BY <1>27 DEF FailFlight, drawer, server, past
  <2> QED
    BY <1>t, <2>1, <2>2 DEF LedgerInv, WantedInv
<1>28. ASSUME NEW s \in saving, SaveRecord(s) PROVE WantedInv'
  BY <1>28, <1>t DEF SaveRecord, drawer, server, past, WantedInv, LedgerInv
<1>29. CASE LoseRecord
  BY <1>29, <1>t DEF LoseRecord, Trouble, drawer, server, past, WantedInv, LedgerInv
<1>30. ASSUME NEW o \in Order, Elsewhere(o) PROVE WantedInv'
  BY <1>30, <1>t DEF Elsewhere, Trouble, drawer, server, past, WantedInv, LedgerInv
<1> QED
  BY <1>0, <1>1, <1>2, <1>3, <1>4, <1>5, <1>6, <1>7, <1>8, <1>9, <1>10, <1>11, <1>12, <1>13,
     <1>14, <1>15, <1>16, <1>17, <1>18, <1>19, <1>20, <1>21, <1>22, <1>23, <1>24, <1>25, <1>26,
     <1>27, <1>28, <1>29, <1>30 DEF StoreNext

\* Every step keeps what the orders are.
LEMMA OrdersKept ==
    ASSUME Typed, [StoreNext]_storeVars
    PROVE  OrdersInv'
<1>t. /\ LedgerInv /\ \A f \in Slot : FlightInv(f)
      /\ DrawerOK /\ ServerOK /\ flight \in [Slot -> Flights] /\ key \in Nat
      /\ None \notin Id /\ Order \subseteq Id /\ Local \subseteq Id /\ Order \cap Local = {}
  BY IdIn, Bounds, Apart DEF Typed, StoreTypeOK, RequestsOK, DrawerOK, Key
<1>0. CASE UNCHANGED storeVars
  BY <1>0, <1>t DEF storeVars, drawer, server, past, OrdersInv, LedgerInv, ServerOK
<1>1. ASSUME NEW start \in {"cart", "checkout"}, OpenCart(start) PROVE OrdersInv'
  BY <1>1, <1>t
     DEF OpenCart, Opened, Restarted, drawer, server, past, OrdersInv, LedgerInv, ServerOK
<1>2. CASE CloseCart
  BY <1>2, <1>t DEF CloseCart, drawer, server, past, OrdersInv, LedgerInv, ServerOK
<1>3. CASE CloseAndReset
  BY <1>3, <1>t DEF CloseAndReset, drawer, server, past, OrdersInv, LedgerInv, ServerOK
<1>4. CASE Reload
  BY <1>4, <1>t
     DEF Reload, LeavePage, Trouble, drawer, server, past, OrdersInv, LedgerInv, ServerOK
<1>5. CASE GoCheckout
  BY <1>5, <1>t DEF GoCheckout, ShowStep, drawer, server, past, OrdersInv, LedgerInv, ServerOK
<1>6. CASE BackToCart
  BY <1>6, <1>t DEF BackToCart, ShowStep, drawer, server, past, OrdersInv, LedgerInv, ServerOK
<1>7. CASE BackToCheckout
  BY <1>7, <1>t
     DEF BackToCheckout, ShowStep, drawer, server, past, OrdersInv, LedgerInv, ServerOK
<1>8. ASSUME NEW i \in Item, Add(i) PROVE OrdersInv'
  BY <1>8, <1>t DEF Add, drawer, server, past, OrdersInv, LedgerInv, ServerOK
<1>9. ASSUME NEW i \in Item, BuyNow(i) PROVE OrdersInv'
  BY <1>9, <1>t
     DEF BuyNow, Opened, Restarted, drawer, server, past, OrdersInv, LedgerInv, ServerOK
<1>10. ASSUME NEW i \in Item, Remove(i) PROVE OrdersInv'
  BY <1>10, <1>t DEF Remove, drawer, server, past, OrdersInv, LedgerInv, ServerOK
<1>11. ASSUME NEW f \in Slot, ConfirmOrder(f) PROVE OrdersInv'
  BY <1>11, <1>t
     DEF ConfirmOrder, Asks, Free, drawer, server, past, OrdersInv, LedgerInv, ServerOK
<1>12. ASSUME NEW f \in Slot, SendOrder(f) PROVE OrdersInv'
  BY <1>12, <1>t DEF SendOrder, Sent, drawer, server, past, OrdersInv, LedgerInv, ServerOK
<1>13. ASSUME NEW f \in Slot, RepeatOrder(f) PROVE OrdersInv'
  BY <1>13, <1>t
     DEF RepeatOrder, Sent, Replayed, drawer, server, past, OrdersInv, LedgerInv, ServerOK
<1>14. ASSUME NEW f \in Slot, RefuseOrder(f) PROVE OrdersInv'
  BY <1>14, <1>t DEF RefuseOrder, Sent, Replayed, Trouble, drawer, server, past, OrdersInv,
     LedgerInv, ServerOK
<1>15. ASSUME NEW f \in Slot, CreateOrder(f) PROVE OrdersInv'
  <2>1. PICK o \in Order :
                /\ status' = [status EXCEPT ![o] = "PENDING"]
                /\ content' = [content EXCEPT ![o] = flight[f].items]
    BY <1>15, CreateOrderF
  <2>2. paidEver' = paidEver
    BY <1>15 DEF CreateOrder
  <2> QED
    BY <1>t, <2>1, <2>2 DEF ServerOK, LedgerInv, OrdersInv
<1>16. ASSUME NEW f \in Slot, ReceiveOrder(f) PROVE OrdersInv'
  <2>1. UNCHANGED <<status, paidEver>>
    BY <1>16 DEF ReceiveOrder, past
  <2>2. content' = content \/ \E d \in Local : content' = [content EXCEPT ![d] = flight[f].items]
    BY <1>16 DEF ReceiveOrder, Remembers
  <2> QED
    BY <1>t, <2>1, <2>2 DEF ServerOK, LedgerInv, OrdersInv
<1>17. ASSUME NEW f \in Slot, NEW method \in {"PAYDUNYA", "OTHER"}, RunPayment(f, method)
       PROVE OrdersInv'
  BY <1>17, <1>t
     DEF RunPayment, CanPay, Free, Asks, drawer, server, past, OrdersInv, LedgerInv, ServerOK
<1>18. ASSUME NEW f \in Slot, RepeatInvoice(f) PROVE OrdersInv'
  BY <1>18, <1>t
     DEF RepeatInvoice, Sent, Replayed, drawer, server, past, OrdersInv, LedgerInv, ServerOK
<1>19. ASSUME NEW f \in Slot, CreateInvoice(f) PROVE OrdersInv'
  BY <1>19, <1>t
     DEF CreateInvoice, Sent, Replayed, drawer, server, past, OrdersInv, LedgerInv, ServerOK
<1>20. ASSUME NEW f \in Slot, RefuseInvoice(f) PROVE OrdersInv'
  BY <1>20, <1>t DEF RefuseInvoice, Sent, Replayed, Trouble, drawer, server, past, OrdersInv,
     LedgerInv, ServerOK
<1>21. ASSUME NEW f \in Slot, GoToPayDunya(f) PROVE OrdersInv'
  BY <1>21, <1>t
     DEF GoToPayDunya, LeavePage, drawer, server, past, OrdersInv, LedgerInv, ServerOK
<1>22. ASSUME NEW f \in Slot, ReceiveInvoice(f) PROVE OrdersInv'
  BY <1>22, <1>t
     DEF ReceiveInvoice, Answered, drawer, server, past, OrdersInv, LedgerInv, ServerOK
<1>23. ASSUME NEW f \in Slot, FireTimer(f) PROVE OrdersInv'
  BY <1>23, <1>t DEF FireTimer, Sent, drawer, server, past, OrdersInv, LedgerInv, ServerOK
<1>24. ASSUME NEW f \in Slot, ReadPay(f) PROVE OrdersInv'
  BY <1>24, <1>t DEF ReadPay, Sent, drawer, server, past, OrdersInv, LedgerInv, ServerOK
<1>25. ASSUME NEW f \in Slot, CommitPay(f) PROVE OrdersInv'
  <2>1. flight[f].id \in Order /\ status[flight[f].id] # "NONE"
    BY <1>25, CommitPayF
  <2> QED
    BY <1>25, <1>t, <2>1 DEF CommitPay, ServerOK, LedgerInv, OrdersInv
<1>26. ASSUME NEW f \in Slot, ReceivePay(f) PROVE OrdersInv'
  BY <1>26, <1>t
     DEF ReceivePay, Answered, Believed, drawer, server, past, OrdersInv, LedgerInv, ServerOK
<1>27. ASSUME NEW f \in Slot, NEW how \in {"error", "cut"}, FailFlight(f, how) PROVE OrdersInv'
  BY <1>27, <1>t
     DEF FailFlight, Trouble, Free, drawer, server, past, OrdersInv, LedgerInv, ServerOK
<1>28. ASSUME NEW s \in saving, SaveRecord(s) PROVE OrdersInv'
  BY <1>28, <1>t DEF SaveRecord, drawer, server, past, OrdersInv, LedgerInv, ServerOK
<1>29. CASE LoseRecord
  BY <1>29, <1>t DEF LoseRecord, Trouble, drawer, server, past, OrdersInv, LedgerInv, ServerOK
<1>30. ASSUME NEW o \in Order, Elsewhere(o) PROVE OrdersInv'
  BY <1>30, <1>t DEF Elsewhere, Trouble, drawer, server, past, OrdersInv, LedgerInv, ServerOK
<1> QED
  BY <1>0, <1>1, <1>2, <1>3, <1>4, <1>5, <1>6, <1>7, <1>8, <1>9, <1>10, <1>11, <1>12, <1>13,
     <1>14, <1>15, <1>16, <1>17, <1>18, <1>19, <1>20, <1>21, <1>22, <1>23, <1>24, <1>25, <1>26,
     <1>27, <1>28, <1>29, <1>30 DEF StoreNext

\* Every step keeps the types, and what they leave open.
LEMMA TypedKept == ASSUME Typed, [StoreNext]_storeVars PROVE Typed'
BY DrawerKept, RequestsKept, ServerKept, PastKept, KeysKept, WantKept, OrdersKept, FlightsKept
   DEF Typed, StoreTypeOK, LedgerInv

\* Every step shows payments that were made.
LEMMA ShownKept ==
    ASSUME Typed, ShownPaid, [StoreNext]_storeVars
    PROVE  ShownPaid'
<1>t. /\ ShownPaid /\ Grows /\ DrawerOK
  BY Growing DEF Typed, StoreTypeOK
<1>0. CASE UNCHANGED storeVars
  BY <1>0, <1>t DEF storeVars, drawer, server, past, ShownPaid, Grows
<1>1. ASSUME NEW start \in {"cart", "checkout"}, OpenCart(start) PROVE ShownPaid'
  BY <1>1, <1>t DEF OpenCart, Opened, Restarted, drawer, server, past, ShownPaid, Grows
<1>2. CASE CloseCart
  BY <1>2, <1>t, CloseCartF
     DEF CloseCart, Clears, Is, Quiet, drawer, server, past, Only, ShownPaid, Grows
<1>3. CASE CloseAndReset
  BY <1>3, <1>t, CloseAndResetF
     DEF CloseAndReset, Clears, Is, Quiet, drawer, server, past, Only, ShownPaid, Grows
<1>4. CASE Reload
  BY <1>4, <1>t, ReloadF DEF Reload, LeavePage, Trouble, Goes, Is, Quiet, drawer, server, past,
     Only, ShownPaid, Grows
<1>5. CASE GoCheckout
  BY <1>5, <1>t DEF GoCheckout, ShowStep, drawer, server, past, ShownPaid, Grows
<1>6. CASE BackToCart
  BY <1>6, <1>t DEF BackToCart, ShowStep, drawer, server, past, ShownPaid, Grows
<1>7. CASE BackToCheckout
  BY <1>7, <1>t DEF BackToCheckout, ShowStep, drawer, server, past, ShownPaid, Grows
<1>8. ASSUME NEW i \in Item, Add(i) PROVE ShownPaid'
  BY <1>8, <1>t DEF Add, drawer, server, past, ShownPaid, Grows
<1>9. ASSUME NEW i \in Item, BuyNow(i) PROVE ShownPaid'
  BY <1>9, <1>t DEF BuyNow, Opened, Restarted, drawer, server, past, ShownPaid, Grows
<1>10. ASSUME NEW i \in Item, Remove(i) PROVE ShownPaid'
  BY <1>10, <1>t DEF Remove, drawer, server, past, ShownPaid, Grows
<1>11. ASSUME NEW f \in Slot, ConfirmOrder(f) PROVE ShownPaid'
  BY <1>11, <1>t DEF ConfirmOrder, Asks, Free, drawer, server, past, ShownPaid, Grows
<1>12. ASSUME NEW f \in Slot, SendOrder(f) PROVE ShownPaid'
  BY <1>12, <1>t DEF SendOrder, Sent, drawer, server, past, ShownPaid, Grows
<1>13. ASSUME NEW f \in Slot, RepeatOrder(f) PROVE ShownPaid'
  BY <1>13, <1>t DEF RepeatOrder, Sent, Replayed, drawer, server, past, ShownPaid, Grows
<1>14. ASSUME NEW f \in Slot, RefuseOrder(f) PROVE ShownPaid'
  BY <1>14, <1>t
     DEF RefuseOrder, Sent, Replayed, Trouble, drawer, server, past, ShownPaid, Grows
<1>15. ASSUME NEW f \in Slot, CreateOrder(f) PROVE ShownPaid'
  BY <1>15, <1>t DEF CreateOrder, Sent, Replayed, drawer, server, past, ShownPaid, Grows
<1>16. ASSUME NEW f \in Slot, ReceiveOrder(f) PROVE ShownPaid'
  <2>1. UNCHANGED <<open, paidEver, offline, mistaken>>
    BY <1>16 DEF ReceiveOrder, past
  <2>2. ASSUME NEW d \in Id, history' = [history EXCEPT ![d] = "pending"], step' = "payment"
        PROVE  ShownPaid'
    BY <1>t, <2>1, <2>2 DEF ShownPaid, DrawerOK
  <2>3. CASE UNCHANGED <<history, placed, step>>
    BY <1>t, <2>1, <2>3 DEF ShownPaid
  <2> QED
    BY <1>16, <2>2, <2>3 DEF ReceiveOrder
<1>17. ASSUME NEW f \in Slot, NEW method \in {"PAYDUNYA", "OTHER"}, RunPayment(f, method)
       PROVE ShownPaid'
  BY <1>17, <1>t DEF RunPayment, CanPay, Free, Asks, drawer, server, past, ShownPaid, Grows
<1>18. ASSUME NEW f \in Slot, RepeatInvoice(f) PROVE ShownPaid'
  BY <1>18, <1>t DEF RepeatInvoice, Sent, Replayed, drawer, server, past, ShownPaid, Grows
<1>19. ASSUME NEW f \in Slot, CreateInvoice(f) PROVE ShownPaid'
  BY <1>19, <1>t DEF CreateInvoice, Sent, Replayed, drawer, server, past, ShownPaid, Grows
<1>20. ASSUME NEW f \in Slot, RefuseInvoice(f) PROVE ShownPaid'
  BY <1>20, <1>t
     DEF RefuseInvoice, Sent, Replayed, Trouble, drawer, server, past, ShownPaid, Grows
<1>21. ASSUME NEW f \in Slot, GoToPayDunya(f) PROVE ShownPaid'
  BY <1>21, <1>t, GoToPayDunyaF
     DEF GoToPayDunya, LeavePage, Goes, Is, Quiet, drawer, server, past, Only, ShownPaid, Grows
<1>22. ASSUME NEW f \in Slot, ReceiveInvoice(f) PROVE ShownPaid'
  BY <1>22, <1>t, ReceiveInvoiceF DEF ReceiveInvoice, Answered, Hears, Is, Quiet, drawer,
     server, past, Only, ShownPaid, Grows
<1>23. ASSUME NEW f \in Slot, FireTimer(f) PROVE ShownPaid'
  BY <1>23, <1>t DEF FireTimer, Sent, drawer, server, past, ShownPaid, Grows
<1>24. ASSUME NEW f \in Slot, ReadPay(f) PROVE ShownPaid'
  BY <1>24, <1>t DEF ReadPay, Sent, drawer, server, past, ShownPaid, Grows
<1>25. ASSUME NEW f \in Slot, CommitPay(f) PROVE ShownPaid'
  BY <1>25, <1>t DEF CommitPay, Sent, drawer, server, past, ShownPaid, Grows
<1>26. ASSUME NEW f \in Slot, ReceivePay(f) PROVE ShownPaid'
  <2>1. /\ flight[f].id \in Id
        /\ flight[f].reply = "ok" => flight[f].id \in paidEver
    BY <1>26, ReceivePayF
  <2>2. /\ UNCHANGED <<open, paidEver, mistaken>>
        /\ offline' = IF flight[f].reply = "cut" THEN offline \cup {flight[f].id} ELSE offline
    BY <1>26 DEF ReceivePay
  <2>3. CASE /\ UNCHANGED <<history, placed>> /\ step' = "payment"
    BY <1>t, <2>2, <2>3 DEF ShownPaid
  <2>4. CASE /\ Believed(flight[f].reply) /\ step' = "done" /\ placed' = flight[f].id
             /\ history' = [history EXCEPT ![flight[f].id] =
                              IF flight[f].reply = "unpaid" THEN "cancelled" ELSE "paid"]
    BY <1>t, <2>1, <2>2, <2>4 DEF ShownPaid, Believed, DrawerOK
  <2> QED
    BY <1>26, <2>3, <2>4 DEF ReceivePay
<1>27. ASSUME NEW f \in Slot, NEW how \in {"error", "cut"}, FailFlight(f, how) PROVE ShownPaid'
  BY <1>27, <1>t DEF FailFlight, Trouble, Free, drawer, server, past, ShownPaid, Grows
<1>28. ASSUME NEW s \in saving, SaveRecord(s) PROVE ShownPaid'
  BY <1>28, <1>t DEF SaveRecord, drawer, server, past, ShownPaid, Grows
<1>29. CASE LoseRecord
  BY <1>29, <1>t DEF LoseRecord, Trouble, drawer, server, past, ShownPaid, Grows
<1>30. ASSUME NEW o \in Order, Elsewhere(o) PROVE ShownPaid'
  BY <1>30, <1>t DEF Elsewhere, Trouble, drawer, server, past, ShownPaid, Grows
<1> QED
  BY <1>0, <1>1, <1>2, <1>3, <1>4, <1>5, <1>6, <1>7, <1>8, <1>9, <1>10, <1>11, <1>12, <1>13,
     <1>14, <1>15, <1>16, <1>17, <1>18, <1>19, <1>20, <1>21, <1>22, <1>23, <1>24, <1>25, <1>26,
     <1>27, <1>28, <1>29, <1>30 DEF StoreNext

\* A request goes on waiting for the answer its screen is there for.
Waits(f) ==
    LET r == flight[f] IN
    r.live => /\ flight'[f].live
              /\ r.what \in {"invoice", "timer", "pay", "paying"}
                   => /\ flight'[f].what \in {"invoice", "timer", "pay", "paying"}
                      /\ flight'[f].method = r.method
\* A screen that waits goes on waiting while its requests do.
LEMMA ScreenWaits ==
    ASSUME ScreenInv, \A f \in Slot : Waits(f),
           open' => open /\ (placing' => placing) /\ (step' = "processing" => step = "processing")
    PROVE  ScreenInv'
<1>1. ASSUME open', placing' PROVE \E f \in Slot : flight'[f].live
  BY <1>1 DEF ScreenInv, Waits
<1>2. ASSUME open', step' = "processing"
      PROVE  \E f \in Slot : /\ flight'[f].live /\ flight'[f].method = "OTHER"
                             /\ flight'[f].what \in {"invoice", "timer", "pay", "paying"}
  <2>1. PICK f \in Slot : /\ flight[f].live /\ flight[f].method = "OTHER"
                          /\ flight[f].what \in {"invoice", "timer", "pay", "paying"}
    BY <1>2 DEF ScreenInv
  <2> QED
    BY <2>1 DEF Waits
<1> QED
  BY <1>1, <1>2 DEF ScreenInv

\* Every step leaves a way out of the waiting screen.
LEMMA ScreenKept ==
    ASSUME Typed, ScreenInv, [StoreNext]_storeVars
    PROVE  ScreenInv'
<1>t. /\ ScreenInv /\ DrawerOK /\ \A f \in Slot : FlightInv(f)
      /\ flight \in [Slot -> Flights]
  BY DEF Typed, StoreTypeOK, RequestsOK
<1>0. CASE UNCHANGED storeVars
  BY <1>0, <1>t DEF storeVars, drawer, server, past, ScreenInv
<1>1. ASSUME NEW start \in {"cart", "checkout"}, OpenCart(start) PROVE ScreenInv'
  BY <1>1, <1>t DEF OpenCart, Opened, Restarted, drawer, server, past, ScreenInv
<1>2. CASE CloseCart
  BY <1>2, CloseCartF DEF Clears, ScreenInv
<1>3. CASE CloseAndReset
  BY <1>3, CloseAndResetF DEF Clears, ScreenInv
<1>4. CASE Reload
  BY <1>4, ReloadF DEF Goes, ScreenInv
<1>5. CASE GoCheckout
  BY <1>5, <1>t DEF GoCheckout, ShowStep, drawer, server, past, ScreenInv
<1>6. CASE BackToCart
  BY <1>6, <1>t DEF BackToCart, ShowStep, drawer, server, past, ScreenInv
<1>7. CASE BackToCheckout
  BY <1>7, <1>t DEF BackToCheckout, ShowStep, drawer, server, past, ScreenInv
<1>8. ASSUME NEW i \in Item, Add(i) PROVE ScreenInv'
  BY <1>8, <1>t DEF Add, drawer, server, past, ScreenInv
<1>9. ASSUME NEW i \in Item, BuyNow(i) PROVE ScreenInv'
  BY <1>9, <1>t DEF BuyNow, Opened, Restarted, drawer, server, past, ScreenInv
<1>10. ASSUME NEW i \in Item, Remove(i) PROVE ScreenInv'
  BY <1>10, <1>t DEF Remove, drawer, server, past, ScreenInv
<1>11. ASSUME NEW f \in Slot, ConfirmOrder(f) PROVE ScreenInv'
  <2>1. step' = "checkout" /\ flight'[f].live
    BY <1>11, ConfirmOrderF DEF ConfirmOrder, Is
  <2> QED
    BY <2>1 DEF ScreenInv
<1>12. ASSUME NEW f \in Slot, SendOrder(f) PROVE ScreenInv'
  <2>1. UNCHANGED <<open, placing, step>>
    BY <1>12 DEF SendOrder, drawer
  <2>2. Only(f) /\ Waits(f)
    BY <1>12, <1>t, SendOrderF DEF Hears, Is, Quiet, Waits, FlightInv, SendOrder, Sent
  <2>3. \A g \in Slot : Waits(g)
    BY <2>2 DEF Only, Waits
  <2> QED
    BY <1>t, <2>1, <2>3, ScreenWaits
<1>13. ASSUME NEW f \in Slot, RepeatOrder(f) PROVE ScreenInv'
  <2>1. UNCHANGED <<open, placing, step>>
    BY <1>13 DEF RepeatOrder, drawer
  <2>2. Only(f) /\ Waits(f)
    BY <1>13, <1>t, RepeatOrderF DEF Hears, Is, Quiet, Waits
  <2>3. \A g \in Slot : Waits(g)
    BY <2>2 DEF Only, Waits
  <2> QED
    BY <1>t, <2>1, <2>3, ScreenWaits
<1>14. ASSUME NEW f \in Slot, RefuseOrder(f) PROVE ScreenInv'
  <2>1. UNCHANGED <<open, placing, step>>
    BY <1>14 DEF RefuseOrder, drawer
  <2>2. Only(f) /\ Waits(f)
    BY <1>14, <1>t, RefuseOrderF DEF Hears, Is, Quiet, Waits
  <2>3. \A g \in Slot : Waits(g)
    BY <2>2 DEF Only, Waits
  <2> QED
    BY <1>t, <2>1, <2>3, ScreenWaits
<1>15. ASSUME NEW f \in Slot, CreateOrder(f) PROVE ScreenInv'
  <2>1. UNCHANGED <<open, placing, step>>
    BY <1>15 DEF CreateOrder, drawer
  <2>2. Only(f) /\ Waits(f)
    BY <1>15, <1>t, CreateOrderF DEF Hears, Is, Quiet, Waits
  <2>3. \A g \in Slot : Waits(g)
    BY <2>2 DEF Only, Waits
  <2> QED
    BY <1>t, <2>1, <2>3, ScreenWaits
<1>16. ASSUME NEW f \in Slot, ReceiveOrder(f) PROVE ScreenInv'
  <2>1. /\ UNCHANGED open /\ placing' = FALSE /\ step' \in {"payment", step}
    BY <1>16 DEF ReceiveOrder
  <2>2. Only(f) /\ flight[f].what = "order"
    BY <1>16, ReceiveOrderF
  <2> QED
    BY <1>t, <2>1, <2>2 DEF ScreenInv, Only
<1>17. ASSUME NEW f \in Slot, NEW method \in {"PAYDUNYA", "OTHER"}, RunPayment(f, method)
       PROVE ScreenInv'
  <2>1. /\ flight'[f].live /\ flight'[f].what = "invoice" /\ flight'[f].method = method
        /\ step' = IF method = "PAYDUNYA" THEN "payment" ELSE "processing"
    BY <1>17, RunPaymentF DEF RunPayment, Is
  <2> QED
    BY <2>1 DEF ScreenInv
<1>18. ASSUME NEW f \in Slot, RepeatInvoice(f) PROVE ScreenInv'
  <2>1. UNCHANGED <<open, placing, step>>
    BY <1>18 DEF RepeatInvoice, drawer
  <2>2. Only(f) /\ Waits(f)
    BY <1>18, <1>t, InvoiceF DEF Hears, Is, Quiet, Waits
  <2>3. \A g \in Slot : Waits(g)
    BY <2>2 DEF Only, Waits
  <2> QED
    BY <1>t, <2>1, <2>3, ScreenWaits
<1>19. ASSUME NEW f \in Slot, CreateInvoice(f) PROVE ScreenInv'
  <2>1. UNCHANGED <<open, placing, step>>
    BY <1>19 DEF CreateInvoice, drawer
  <2>2. Only(f) /\ Waits(f)
    BY <1>19, <1>t, InvoiceF DEF Hears, Is, Quiet, Waits
  <2>3. \A g \in Slot : Waits(g)
    BY <2>2 DEF Only, Waits
  <2> QED
    BY <1>t, <2>1, <2>3, ScreenWaits
<1>20. ASSUME NEW f \in Slot, RefuseInvoice(f) PROVE ScreenInv'
  <2>1. UNCHANGED <<open, placing, step>>
    BY <1>20 DEF RefuseInvoice, drawer
  <2>2. Only(f) /\ Waits(f)
    BY <1>20, <1>t, InvoiceF DEF Hears, Is, Quiet, Waits
  <2>3. \A g \in Slot : Waits(g)
    BY <2>2 DEF Only, Waits
  <2> QED
    BY <1>t, <2>1, <2>3, ScreenWaits
<1>21. ASSUME NEW f \in Slot, GoToPayDunya(f) PROVE ScreenInv'
  BY <1>21, GoToPayDunyaF DEF Goes, ScreenInv
<1>22. ASSUME NEW f \in Slot, ReceiveInvoice(f) PROVE ScreenInv'
  <2>1. CASE placing' = FALSE /\ step' \in {"done", step} /\ flight[f].method = "PAYDUNYA"
    <3>1. Only(f) /\ UNCHANGED open
      BY <1>22, ReceiveInvoiceF DEF ReceiveInvoice
    <3> QED
      BY <1>t, <2>1, <3>1 DEF ScreenInv, Only
  <2>2. CASE UNCHANGED <<placing, step>> /\ flight[f].method = "OTHER"
    <3>1. UNCHANGED open
      BY <1>22 DEF ReceiveInvoice
    <3>2. Only(f) /\ Waits(f)
      BY <1>22, <2>2, ReceiveInvoiceF DEF Is, Waits
    <3>3. \A g \in Slot : Waits(g)
      BY <3>2 DEF Only, Waits
    <3> QED
      BY <1>t, <2>2, <3>1, <3>3, ScreenWaits
  <2> QED
    BY <1>22, <2>1, <2>2 DEF ReceiveInvoice
<1>23. ASSUME NEW f \in Slot, FireTimer(f) PROVE ScreenInv'
  <2>1. UNCHANGED <<open, placing, step>>
    BY <1>23 DEF FireTimer, drawer
  <2>2. Only(f) /\ Waits(f)
    BY <1>23, <1>t, FireTimerF DEF Hears, Is, Quiet, Waits
  <2>3. \A g \in Slot : Waits(g)
    BY <2>2 DEF Only, Waits
  <2> QED
    BY <1>t, <2>1, <2>3, ScreenWaits
<1>24. ASSUME NEW f \in Slot, ReadPay(f) PROVE ScreenInv'
  <2>1. UNCHANGED <<open, placing, step>>
    BY <1>24 DEF ReadPay, drawer
  <2>2. Only(f) /\ Waits(f)
    BY <1>24, <1>t, ReadPayF DEF Hears, Is, Quiet, Waits
  <2>3. \A g \in Slot : Waits(g)
    BY <2>2 DEF Only, Waits
  <2> QED
    BY <1>t, <2>1, <2>3, ScreenWaits
<1>25. ASSUME NEW f \in Slot, CommitPay(f) PROVE ScreenInv'
  <2>1. UNCHANGED <<open, placing, step>>
    BY <1>25 DEF CommitPay, drawer
  <2>2. Only(f) /\ Waits(f)
    BY <1>25, <1>t, CommitPayF DEF Hears, Is, Quiet, Waits
  <2>3. \A g \in Slot : Waits(g)
    BY <2>2 DEF Only, Waits
  <2> QED
    BY <1>t, <2>1, <2>3, ScreenWaits
<1>26. ASSUME NEW f \in Slot, ReceivePay(f) PROVE ScreenInv'
  <2>1. /\ UNCHANGED open /\ placing' = FALSE /\ step' \in {"payment", "done"}
    BY <1>26 DEF ReceivePay
  <2> QED
    BY <1>t, <2>1 DEF ScreenInv
<1>27. ASSUME NEW f \in Slot, NEW how \in {"error", "cut"}, FailFlight(f, how) PROVE ScreenInv'
  <2>1. UNCHANGED <<open, placing, step>>
    BY <1>27 DEF FailFlight, drawer
  <2>2. ASSUME NEW g \in Slot PROVE Waits(g)
    BY <1>27, <1>t, <2>2, FailFlightF DEF Is, Waits, FlightInv, Free
  <2> QED
    BY <1>t, <2>1, <2>2, ScreenWaits
<1>28. ASSUME NEW s \in saving, SaveRecord(s) PROVE ScreenInv'
  BY <1>28, <1>t DEF SaveRecord, drawer, server, past, ScreenInv
<1>29. CASE LoseRecord
  BY <1>29, <1>t DEF LoseRecord, Trouble, drawer, server, past, ScreenInv
<1>30. ASSUME NEW o \in Order, Elsewhere(o) PROVE ScreenInv'
  BY <1>30, <1>t DEF Elsewhere, Trouble, drawer, server, past, ScreenInv
<1> QED
  BY <1>0, <1>1, <1>2, <1>3, <1>4, <1>5, <1>6, <1>7, <1>8, <1>9, <1>10, <1>11, <1>12, <1>13,
     <1>14, <1>15, <1>16, <1>17, <1>18, <1>19, <1>20, <1>21, <1>22, <1>23, <1>24, <1>25, <1>26,
     <1>27, <1>28, <1>29, <1>30 DEF StoreNext

\* The requests that can still create an order are as they were, or fewer.
FewerUndecided ==
    \A f \in Slot : Undecided(f)' =>
        \E h \in Slot : /\ Undecided(h) /\ flight'[f].items = flight[h].items
                        /\ KeyOf(f)' = KeyOf(h)
\* What the server will repeat, it goes on repeating, or it may be bought again.
AnswersKept ==
    \A k \in Key, p \in Order : Answers(k, p) => Answers(k, p)' \/ content[p] \subseteq again'

\* One request that changes decides no more than it did.
LEMMA FewerOnly ==
    ASSUME key' = key, NEW f \in Slot, Only(f),
           Undecided(f)' => /\ Undecided(f) /\ flight'[f].items = flight[f].items
                            /\ KeyOf(f)' = KeyOf(f)
    PROVE  FewerUndecided
<1> SUFFICES ASSUME NEW g \in Slot, Undecided(g)'
             PROVE  \E h \in Slot : /\ Undecided(h) /\ flight'[g].items = flight[h].items
                                    /\ KeyOf(g)' = KeyOf(h)
  BY DEF FewerUndecided
<1>1. CASE g = f
  BY <1>1
<1>2. CASE g # f
  BY <1>2 DEF Only, Undecided, Sent, KeyOf
<1> QED
  BY <1>1, <1>2

\* Requests that are left alone decide no more than they did.
LEMMA FewerSame == ASSUME key' = key, flight' = flight PROVE FewerUndecided
BY DEF FewerUndecided, Undecided, Sent, KeyOf

\* Records that are left alone answer as they did.
LEMMA AnswersSame ==
    ASSUME UNCHANGED <<record, saving>>
    PROVE  AnswersKept
BY DEF AnswersKept, Answers

\* A request that can still create an order has, or will have, a key.
LEMMA KeyOfKey ==
    ASSUME Typed, NEW f \in Slot, Undecided(f)
    PROVE  KeyOf(f) \in Key
BY Keys DEF Typed, StoreTypeOK, DrawerOK, FlightInv, Undecided, Sent, KeyOf

\* What neither wants, sends nor records anything new buys nothing twice.
LEMMA OnceFrame ==
    ASSUME Typed, OnceInv,
           again \subseteq again', key' = key, open' => open /\ cart' \subseteq cart,
           \A p \in Order : content'[p] = content[p], AnswersKept, FewerUndecided
    PROVE  OnceInv'
<1>1. BoughtOnce'
  BY DEF OnceInv, BoughtOnce
<1>2. ASSUME NEW f \in Slot, Undecided(f)', NEW p \in Order
      PROVE  \/ flight'[f].items \cap content'[p] \subseteq again'
             \/ Answers(KeyOf(f), p)'
  <2>1. PICK h \in Slot : /\ Undecided(h) /\ flight'[f].items = flight[h].items
                          /\ KeyOf(f)' = KeyOf(h)
    BY <1>2 DEF FewerUndecided
  <2>2. flight[h].items \cap content[p] \subseteq again \/ Answers(KeyOf(h), p)
    BY <2>1 DEF OnceInv
  <2>3. PICK k \in Key : k = KeyOf(h)
    BY <2>1, KeyOfKey
  <2>4. Answers(k, p) => Answers(k, p)' \/ content[p] \subseteq again'
    BY DEF AnswersKept
  <2>5. Answers(k, p)' => Answers(KeyOf(f), p)'
    BY <2>1, <2>3 DEF Answers
  <2>6. Answers(KeyOf(h), p) => Answers(k, p)
    BY <2>3
  <2> QED
    BY <2>1, <2>2, <2>4, <2>5, <2>6
<1>3. ASSUME NEW f \in Slot, Undecided(f)', NEW g \in Slot, Undecided(g)'
      PROVE  \/ flight'[f].items \cap flight'[g].items \subseteq again'
             \/ KeyOf(f)' = KeyOf(g)'
  <2>1. PICK h \in Slot : /\ Undecided(h) /\ flight'[f].items = flight[h].items
                          /\ KeyOf(f)' = KeyOf(h)
    BY <1>3 DEF FewerUndecided
  <2>2. PICK i \in Slot : /\ Undecided(i) /\ flight'[g].items = flight[i].items
                          /\ KeyOf(g)' = KeyOf(i)
    BY <1>3 DEF FewerUndecided
  <2>3. flight[h].items \cap flight[i].items \subseteq again \/ KeyOf(h) = KeyOf(i)
    BY <2>1, <2>2 DEF OnceInv
  <2> QED
    BY <2>1, <2>2, <2>3
<1>4. ASSUME NEW f \in Slot, Undecided(f)', open'
      PROVE  cart' \cap flight'[f].items \subseteq again' \/ KeyOf(f)' = key'
  <2>1. PICK h \in Slot : /\ Undecided(h) /\ flight'[f].items = flight[h].items
                          /\ KeyOf(f)' = KeyOf(h)
    BY <1>4 DEF FewerUndecided
  <2>2. cart \cap flight[h].items \subseteq again \/ KeyOf(h) = key
    BY <1>4, <2>1 DEF OnceInv
  <2> QED
    BY <1>4, <2>1, <2>2
<1>5. ASSUME open', NEW p \in Order
      PROVE  cart' \cap content'[p] \subseteq again' \/ Answers(key, p)'
  <2>1. cart \cap content[p] \subseteq again \/ Answers(key, p)
    BY <1>5 DEF OnceInv
  <2>2. PICK k \in Key : k = key
    BY <1>5 DEF Typed, StoreTypeOK, DrawerOK, LedgerInv, KeysInv
  <2>3. Answers(k, p) => Answers(k, p)' \/ content[p] \subseteq again'
    BY DEF AnswersKept
  <2>4. Answers(k, p)' => Answers(key, p)'
    BY <2>2 DEF Answers
  <2>5. Answers(key, p) => Answers(k, p)
    BY <2>2
  <2> QED
    BY <1>5, <2>1, <2>3, <2>4, <2>5
<1> QED
  BY <1>1, <1>2, <1>3, <1>4, <1>5 DEF OnceInv

\* Every step buys nothing twice.
LEMMA OnceKept ==
    ASSUME Typed, OnceInv, [StoreNext]_storeVars
    PROVE  OnceInv'
<1>t. OnceInv /\ Typed
  OBVIOUS
<1>s. /\ flight \in [Slot -> Flights] /\ ServerOK /\ DrawerOK
      /\ \A p \in Order : content[p] \subseteq wanted
      /\ \A f \in Slot : flight[f].items \subseteq wanted
      /\ Order \subseteq Id /\ Order \cap Local = {}
      /\ \A f \in Slot : FlightInv(f) /\ None \notin Order /\ Invoice \notin Order
  BY IdIn, Apart DEF Typed, StoreTypeOK, RequestsOK, LedgerInv, WantedInv
<1>0. CASE UNCHANGED storeVars
  BY <1>0, <1>t
     DEF storeVars, drawer, server, past, OnceInv, BoughtOnce, Undecided, Sent, KeyOf, Answers
<1>1. ASSUME NEW start \in {"cart", "checkout"}, OpenCart(start) PROVE OnceInv'
  <2>1. /\ again' = again \cup Out \cup (cart' \cap Bought)
        /\ UNCHANGED <<flight, content>>
    BY <1>1 DEF OpenCart, Opened, Restarted, server
  <2>2. ASSUME NEW g \in Slot, Undecided(g)
        PROVE  flight[g].items \subseteq again'
    BY <2>1, <2>2 DEF Out, Ordering, Undecided, Sent
  <2>3. \A g \in Slot : /\ Undecided(g)' <=> Undecided(g) /\ flight'[g] = flight[g]
    BY <2>1 DEF Undecided, Sent
  <2>4. \A p \in Order : cart' \cap content[p] \subseteq again'
    BY <2>1 DEF Bought
  <2> QED
    BY <1>t, <2>1, <2>2, <2>3, <2>4 DEF OnceInv, BoughtOnce
<1>2. CASE CloseCart
  <2>1. /\ again' = again /\ key' = key /\ ~open' /\ UNCHANGED <<content, record, saving>>
    BY <1>2, CloseCartF DEF CloseCart, Clears, server, past
  <2>2. FewerUndecided
    BY <1>2, <2>1, CloseCartF DEF Clears, Is, Quiet, FewerUndecided, Undecided, Sent, KeyOf
  <2> QED
    BY <1>t, <2>1, <2>2, AnswersSame, OnceFrame
<1>3. CASE CloseAndReset
  <2>1. /\ again' = again /\ key' = key /\ ~open' /\ UNCHANGED <<content, record, saving>>
    BY <1>3, CloseAndResetF DEF CloseAndReset, Clears, server, past
  <2>2. FewerUndecided
    BY <1>3, <2>1, CloseAndResetF DEF Clears, Is, Quiet, FewerUndecided, Undecided, Sent, KeyOf
  <2> QED
    BY <1>t, <2>1, <2>2, AnswersSame, OnceFrame
<1>4. CASE Reload
  <2>1. /\ again' = again /\ key' = key /\ ~open' /\ UNCHANGED <<content, record, saving>>
    BY <1>4, ReloadF DEF Reload, Goes, LeavePage, Trouble, server, past
  <2>2. FewerUndecided
    BY <1>4, <2>1, ReloadF DEF Goes, Is, Quiet, FewerUndecided, Undecided, Sent, KeyOf
  <2> QED
    BY <1>t, <2>1, <2>2, AnswersSame, OnceFrame
<1>5. CASE GoCheckout
  <2>1. /\ again' = again /\ key' = key /\ (open' => open /\ cart' \subseteq cart)
        /\ UNCHANGED <<content, record, saving, flight>>
    BY <1>5 DEF GoCheckout, ShowStep, drawer, server, past
  <2> QED
    BY <1>t, <2>1, AnswersSame, FewerSame, OnceFrame
<1>6. CASE BackToCart
  <2>1. /\ again' = again /\ key' = key /\ (open' => open /\ cart' \subseteq cart)
        /\ UNCHANGED <<content, record, saving, flight>>
    BY <1>6 DEF BackToCart, ShowStep, drawer, server, past
  <2> QED
    BY <1>t, <2>1, AnswersSame, FewerSame, OnceFrame
<1>7. CASE BackToCheckout
  <2>1. /\ again' = again /\ key' = key /\ (open' => open /\ cart' \subseteq cart)
        /\ UNCHANGED <<content, record, saving, flight>>
    BY <1>7 DEF BackToCheckout, ShowStep, drawer, server, past
  <2> QED
    BY <1>t, <2>1, AnswersSame, FewerSame, OnceFrame
<1>8. ASSUME NEW i \in Item, Add(i) PROVE OnceInv'
  <2>1. /\ again' = again /\ key' = key /\ (open' => open /\ cart' \subseteq cart)
        /\ UNCHANGED <<content, record, saving, flight>>
    BY <1>8 DEF Add, drawer, server, past
  <2> QED
    BY <1>t, <2>1, AnswersSame, FewerSame, OnceFrame
<1>9. ASSUME NEW i \in Item, BuyNow(i) PROVE OnceInv'
  <2>0. UNCHANGED <<flight, content, record, saving>> /\ cart' = {i} /\ i \notin wanted
    BY <1>9 DEF BuyNow, server
  <2>a. CASE ~open
    <3>1. again' = again \cup Out \cup (cart' \cap Bought)
      BY <1>9, <2>a, <2>0 DEF BuyNow, Opened, Restarted
    <3>2. ASSUME NEW g \in Slot, Undecided(g)
          PROVE  flight[g].items \subseteq again'
      BY <3>1, <2>0, <3>2 DEF Out, Ordering, Undecided, Sent
    <3>3. \A g \in Slot : /\ Undecided(g)' <=> Undecided(g) /\ flight'[g] = flight[g]
      BY <3>1, <2>0 DEF Undecided, Sent
    <3>4. \A p \in Order : cart' \cap content[p] \subseteq again'
      BY <3>1, <2>0 DEF Bought
    <3> QED
      BY <1>t, <3>1, <2>0, <3>2, <3>3, <3>4 DEF OnceInv, BoughtOnce
  <2>b. CASE open
    <3>1. UNCHANGED <<drawer, again>>
      BY <1>9, <2>b DEF BuyNow
    <3>2. UNCHANGED <<open, key>>
      BY <3>1 DEF drawer
    <3>3. /\ \A p \in Order : cart' \cap content[p] = {}
          /\ \A g \in Slot : cart' \cap flight[g].items = {}
      BY <1>s, <2>0
    <3>4. \A g \in Slot : /\ Undecided(g)' <=> Undecided(g) /\ KeyOf(g)' = KeyOf(g)
      BY <2>0, <3>2 DEF Undecided, Sent, KeyOf
    <3>5. \A k \in Key, p \in Order : Answers(k, p)' <=> Answers(k, p)
      BY <2>0 DEF Answers
    <3> QED
      BY <1>t, <2>0, <3>1, <3>2, <3>3, <3>4, <3>5 DEF OnceInv, BoughtOnce, Answers
  <2> QED
    BY <2>a, <2>b
<1>10. ASSUME NEW i \in Item, Remove(i) PROVE OnceInv'
  <2>1. /\ again' = again /\ key' = key /\ (open' => open /\ cart' \subseteq cart)
        /\ UNCHANGED <<content, record, saving, flight>>
    BY <1>10 DEF Remove, drawer, server, past
  <2> QED
    BY <1>t, <2>1, AnswersSame, FewerSame, OnceFrame
<1>11. ASSUME NEW f \in Slot, ConfirmOrder(f) PROVE OnceInv'
  <2>1. /\ again' = again /\ key' = key /\ open' = open /\ cart' = cart /\ open
        /\ UNCHANGED <<content, record, saving>>
    BY <1>11 DEF ConfirmOrder, server, past
  <2>2. /\ Only(f) /\ flight'[f].what = "profile" /\ flight'[f].items = cart
    BY <1>11, ConfirmOrderF DEF Is
  <2>3. \A g \in Slot \ {f} : /\ Undecided(g)' <=> Undecided(g)
                             /\ KeyOf(g)' = KeyOf(g) /\ flight'[g].items = flight[g].items
    BY <2>1, <2>2 DEF Only, Undecided, Sent, KeyOf
  <2>4. KeyOf(f)' = key
    BY <2>1, <2>2 DEF KeyOf
  <2>5. \A k \in Key, p \in Order : Answers(k, p)' <=> Answers(k, p)
    BY <2>1 DEF Answers
  <2> QED
    BY <1>t, <2>1, <2>2, <2>3, <2>4, <2>5 DEF OnceInv, BoughtOnce, Answers
<1>12. ASSUME NEW f \in Slot, SendOrder(f) PROVE OnceInv'
  <2>1. /\ again' = again /\ key' = key /\ open' = open /\ cart' \subseteq cart
        /\ UNCHANGED content /\ UNCHANGED <<record, saving>>
    BY <1>12 DEF SendOrder, drawer, server, past
  <2>2. Only(f)
    BY <1>12, SendOrderF DEF Hears
  <2>3. Undecided(f)' => /\ Undecided(f) /\ flight'[f].items = flight[f].items
                         /\ KeyOf(f)' = KeyOf(f)
    BY <1>12, <2>1, SendOrderF DEF Hears, Is, Quiet, Undecided, Sent, KeyOf
  <2>4. AnswersKept
    BY <2>1, AnswersSame
  <2> QED
    BY <1>t, <2>1, <2>2, <2>3, <2>4, FewerOnly, OnceFrame
<1>13. ASSUME NEW f \in Slot, RepeatOrder(f) PROVE OnceInv'
  <2>1. /\ again' = again /\ key' = key /\ open' = open /\ cart' \subseteq cart
        /\ UNCHANGED content /\ UNCHANGED <<record, saving>>
    BY <1>13 DEF RepeatOrder, drawer, server, past
  <2>2. Only(f)
    BY <1>13, RepeatOrderF DEF Hears
  <2>3. Undecided(f)' => /\ Undecided(f) /\ flight'[f].items = flight[f].items
                         /\ KeyOf(f)' = KeyOf(f)
    BY <1>13, <2>1, RepeatOrderF DEF Hears, Is, Quiet, Undecided, Sent, KeyOf
  <2>4. AnswersKept
    BY <2>1, AnswersSame
  <2> QED
    BY <1>t, <2>1, <2>2, <2>3, <2>4, FewerOnly, OnceFrame
<1>14. ASSUME NEW f \in Slot, RefuseOrder(f) PROVE OnceInv'
  <2>1. /\ again' = again /\ key' = key /\ open' = open /\ cart' \subseteq cart
        /\ UNCHANGED content /\ UNCHANGED <<record, saving>>
    BY <1>14 DEF RefuseOrder, drawer, server, past
  <2>2. Only(f)
    BY <1>14, RefuseOrderF DEF Hears
  <2>3. Undecided(f)' => /\ Undecided(f) /\ flight'[f].items = flight[f].items
                         /\ KeyOf(f)' = KeyOf(f)
    BY <1>14, <2>1, RefuseOrderF DEF Hears, Is, Quiet, Undecided, Sent, KeyOf
  <2>4. AnswersKept
    BY <2>1, AnswersSame
  <2> QED
    BY <1>t, <2>1, <2>2, <2>3, <2>4, FewerOnly, OnceFrame
<1>15. ASSUME NEW f \in Slot, CreateOrder(f) PROVE OnceInv'
  <2>1. PICK o \in Order :
            /\ content[o] = {}
            /\ content' = [content EXCEPT ![o] = flight[f].items]
            /\ saving' = saving \cup {<<flight[f].key, o>>}
            /\ again' = again
                 \cup UNION {content[s[2]] : s \in {t \in saving : t[1] = flight[f].key}}
            /\ Hears(f, "ok", o)
    BY <1>15, CreateOrderF
  <2>2. /\ UNCHANGED <<open, key, cart, record>> /\ Undecided(f) /\ KeyOf(f) = flight[f].key
        /\ record[flight[f].key] = None
    BY <1>15, CreateOrderF DEF CreateOrder, drawer, Undecided, Sent, KeyOf
  <2>3. /\ Only(f) /\ ~Undecided(f)'
    BY <1>15, <2>1, CreateOrderF DEF Hears, Is, Quiet, Undecided, Sent
  <2>4. \A g \in Slot \ {f} : /\ Undecided(g)' <=> Undecided(g)
                             /\ KeyOf(g)' = KeyOf(g) /\ flight'[g].items = flight[g].items
    BY <2>2, <2>3 DEF Only, Undecided, Sent, KeyOf
  <2>5. \A p \in Order \ {o} : content'[p] = content[p]
    BY <1>s, <2>1 DEF ServerOK
  <2>6. content'[o] = flight[f].items /\ again \subseteq again'
    BY <1>s, <2>1 DEF ServerOK
  <2>7. ASSUME NEW p \in Order \ {o} PROVE flight[f].items \cap content[p] \subseteq again'
    <3>1. flight[f].items \cap content[p] \subseteq again \/ Answers(flight[f].key, p)
      BY <1>t, <2>2 DEF OnceInv
    <3>2. CASE <<flight[f].key, p>> \in saving
      <4>1. content[p] \in {content[s[2]] : s \in {t \in saving : t[1] = flight[f].key}}
        BY <3>2
      <4> QED
        BY <2>1, <4>1
    <3> QED
      BY <1>s, <2>2, <2>6, <3>1, <3>2 DEF Answers
  <2>8. BoughtOnce'
    BY <1>t, <2>5, <2>6, <2>7 DEF OnceInv, BoughtOnce
  <2>k. PICK k \in Key : k = flight[f].key
    BY <1>15, CreateOrderF
  <2>9. /\ \A j \in Key, p \in Order : Answers(j, p) => Answers(j, p)'
        /\ Answers(k, o)'
    <3>1. <<k, o>> \in saving' /\ saving \subseteq saving' /\ record' = record
      BY <2>1, <2>2, <2>k
    <3> QED
      BY <3>1 DEF Answers
  <2>10. ASSUME NEW g \in Slot, Undecided(g)', NEW p \in Order
         PROVE  flight'[g].items \cap content'[p] \subseteq again' \/ Answers(KeyOf(g), p)'
    <3>1. g # f /\ Undecided(g)
      BY <2>3, <2>4, <2>10
    <3>2. PICK j \in Key : j = KeyOf(g)
      BY <1>t, <3>1, KeyOfKey
    <3>3. Answers(j, p)' => Answers(KeyOf(g), p)'
      BY <2>4, <3>1, <3>2 DEF Answers
    <3>4. CASE p = o
      <4>1. flight[g].items \cap flight[f].items \subseteq again \/ KeyOf(g) = KeyOf(f)
        BY <1>t, <2>2, <3>1 DEF OnceInv
      <4>2. CASE KeyOf(g) = KeyOf(f)
        BY <2>2, <2>9, <2>k, <3>2, <3>3, <3>4, <4>2
      <4>3. CASE flight[g].items \cap flight[f].items \subseteq again
        BY <2>4, <2>6, <3>1, <3>4, <4>3
      <4> QED
        BY <4>1, <4>2, <4>3
    <3>5. CASE p # o
      <4>1. flight[g].items \cap content[p] \subseteq again \/ Answers(KeyOf(g), p)
        BY <1>t, <3>1 DEF OnceInv
      <4>2. CASE Answers(KeyOf(g), p)
        BY <2>9, <3>2, <3>3, <4>2
      <4>3. CASE flight[g].items \cap content[p] \subseteq again
        BY <2>4, <2>5, <2>6, <3>1, <3>5, <4>3
      <4> QED
        BY <4>1, <4>2, <4>3
    <3> QED
      BY <3>4, <3>5
  <2>11. ASSUME NEW g \in Slot, Undecided(g)', NEW h \in Slot, Undecided(h)'
         PROVE  flight'[g].items \cap flight'[h].items \subseteq again' \/ KeyOf(g)' = KeyOf(h)'
    <3>1. g # f /\ Undecided(g) /\ h # f /\ Undecided(h)
      BY <2>3, <2>4, <2>11
    <3>2. flight[g].items \cap flight[h].items \subseteq again \/ KeyOf(g) = KeyOf(h)
      BY <1>t, <3>1 DEF OnceInv
    <3> QED
      BY <2>4, <2>6, <3>1, <3>2
  <2>12. ASSUME NEW g \in Slot, Undecided(g)', open'
         PROVE  cart' \cap flight'[g].items \subseteq again' \/ KeyOf(g)' = key'
    <3>1. g # f /\ Undecided(g) /\ open
      BY <2>2, <2>3, <2>4, <2>12
    <3>2. cart \cap flight[g].items \subseteq again \/ KeyOf(g) = key
      BY <1>t, <3>1 DEF OnceInv
    <3> QED
      BY <2>2, <2>4, <2>6, <3>1, <3>2
  <2>13. ASSUME open', NEW p \in Order
         PROVE  cart' \cap content'[p] \subseteq again' \/ Answers(key, p)'
    <3>0. open /\ UNCHANGED <<key, cart>>
      BY <2>2, <2>13
    <3>1. PICK j \in Key : j = key
      BY <1>t, <3>0 DEF Typed, StoreTypeOK, DrawerOK, LedgerInv, KeysInv
    <3>2. Answers(j, p)' => Answers(key, p)'
      BY <3>0, <3>1 DEF Answers
    <3>3. CASE p = o
      <4>1. cart \cap flight[f].items \subseteq again \/ KeyOf(f) = key
        BY <1>t, <2>2, <3>0 DEF OnceInv
      <4>2. CASE KeyOf(f) = key
        BY <2>2, <2>9, <2>k, <3>1, <3>2, <3>3, <4>2
      <4>3. CASE cart \cap flight[f].items \subseteq again
        BY <2>6, <3>0, <3>3, <4>3
      <4> QED
        BY <4>1, <4>2, <4>3
    <3>4. CASE p # o
      <4>1. cart \cap content[p] \subseteq again \/ Answers(key, p)
        BY <1>t, <3>0 DEF OnceInv
      <4>2. CASE Answers(key, p)
        BY <2>9, <3>1, <3>2, <4>2
      <4>3. CASE cart \cap content[p] \subseteq again
        BY <2>5, <2>6, <3>0, <3>4, <4>3
      <4> QED
        BY <4>1, <4>2, <4>3
    <3> QED
      BY <3>3, <3>4
  <2> QED
    BY <2>8, <2>10, <2>11, <2>12, <2>13 DEF OnceInv
<1>16. ASSUME NEW f \in Slot, ReceiveOrder(f) PROVE OnceInv'
  <2>1. /\ again' = again /\ key' = key /\ open' = open /\ cart' \subseteq cart
        /\ (\A p \in Order : content'[p] = content[p]) /\ UNCHANGED <<record, saving>>
    BY <1>16, <1>s DEF ReceiveOrder, Remembers, Emptied, ServerOK, drawer, server, past
  <2>2. Only(f)
    BY <1>16, ReceiveOrderF DEF Hears
  <2>3. Undecided(f)' => /\ Undecided(f) /\ flight'[f].items = flight[f].items
                         /\ KeyOf(f)' = KeyOf(f)
    BY <1>16, <2>1, ReceiveOrderF DEF Hears, Is, Quiet, Undecided, Sent, KeyOf
  <2>4. AnswersKept
    BY <2>1, AnswersSame
  <2> QED
    BY <1>t, <2>1, <2>2, <2>3, <2>4, FewerOnly, OnceFrame
<1>17. ASSUME NEW f \in Slot, NEW method \in {"PAYDUNYA", "OTHER"}, RunPayment(f, method)
       PROVE OnceInv'
  <2>1. /\ again' = again /\ key' = key /\ open' = open /\ cart' \subseteq cart
        /\ UNCHANGED content /\ UNCHANGED <<record, saving>>
    BY <1>17 DEF RunPayment, drawer, server, past
  <2>2. Only(f)
    BY <1>17, RunPaymentF DEF Hears
  <2>3. Undecided(f)' => /\ Undecided(f) /\ flight'[f].items = flight[f].items
                         /\ KeyOf(f)' = KeyOf(f)
    BY <1>17, <2>1, RunPaymentF DEF Hears, Is, Quiet, Undecided, Sent, KeyOf
  <2>4. AnswersKept
    BY <2>1, AnswersSame
  <2> QED
    BY <1>t, <2>1, <2>2, <2>3, <2>4, FewerOnly, OnceFrame
<1>18. ASSUME NEW f \in Slot, RepeatInvoice(f) PROVE OnceInv'
  <2>1. /\ again' = again /\ key' = key /\ open' = open /\ cart' \subseteq cart
        /\ UNCHANGED content /\ UNCHANGED <<record, saving>>
    BY <1>18 DEF RepeatInvoice, drawer, server, past
  <2>2. Only(f)
    BY <1>18, InvoiceF DEF Hears
  <2>3. Undecided(f)' => /\ Undecided(f) /\ flight'[f].items = flight[f].items
                         /\ KeyOf(f)' = KeyOf(f)
    BY <1>18, <2>1, InvoiceF DEF Hears, Is, Quiet, Undecided, Sent, KeyOf
  <2>4. AnswersKept
    BY <2>1, AnswersSame
  <2> QED
    BY <1>t, <2>1, <2>2, <2>3, <2>4, FewerOnly, OnceFrame
<1>19. ASSUME NEW f \in Slot, CreateInvoice(f) PROVE OnceInv'
  <2>1. /\ again' = again /\ key' = key /\ open' = open /\ cart' \subseteq cart
        /\ UNCHANGED content /\ UNCHANGED <<saving>>
    BY <1>19 DEF CreateInvoice, drawer, server, past
  <2>2. Only(f)
    BY <1>19, InvoiceF DEF Hears
  <2>3. Undecided(f)' => /\ Undecided(f) /\ flight'[f].items = flight[f].items
                         /\ KeyOf(f)' = KeyOf(f)
    BY <1>19, <2>1, InvoiceF DEF Hears, Is, Quiet, Undecided, Sent, KeyOf
  <2>4. AnswersKept
    <3>1. record[flight[f].key] = None
      BY <1>19 DEF CreateInvoice, Replayed
    <3> QED
      BY <1>19, <1>s, <2>1, <3>1 DEF CreateInvoice, AnswersKept, Answers, ServerOK
  <2> QED
    BY <1>t, <2>1, <2>2, <2>3, <2>4, FewerOnly, OnceFrame
<1>20. ASSUME NEW f \in Slot, RefuseInvoice(f) PROVE OnceInv'
  <2>1. /\ again' = again /\ key' = key /\ open' = open /\ cart' \subseteq cart
        /\ UNCHANGED content /\ UNCHANGED <<record, saving>>
    BY <1>20 DEF RefuseInvoice, drawer, server, past
  <2>2. Only(f)
    BY <1>20, InvoiceF DEF Hears
  <2>3. Undecided(f)' => /\ Undecided(f) /\ flight'[f].items = flight[f].items
                         /\ KeyOf(f)' = KeyOf(f)
    BY <1>20, <2>1, InvoiceF DEF Hears, Is, Quiet, Undecided, Sent, KeyOf
  <2>4. AnswersKept
    BY <2>1, AnswersSame
  <2> QED
    BY <1>t, <2>1, <2>2, <2>3, <2>4, FewerOnly, OnceFrame
<1>21. ASSUME NEW f \in Slot, GoToPayDunya(f) PROVE OnceInv'
  <2>1. /\ again' = again /\ key' = key /\ ~open' /\ UNCHANGED <<content, record, saving>>
    BY <1>21, GoToPayDunyaF DEF GoToPayDunya, Goes, LeavePage, server, past
  <2>2. FewerUndecided
    BY <1>21, <2>1, GoToPayDunyaF DEF Goes, Is, Quiet, FewerUndecided, Undecided, Sent, KeyOf
  <2> QED
    BY <1>t, <2>1, <2>2, AnswersSame, OnceFrame
<1>22. ASSUME NEW f \in Slot, ReceiveInvoice(f) PROVE OnceInv'
  <2>1. /\ again' = again /\ key' = key /\ open' = open /\ cart' \subseteq cart
        /\ UNCHANGED content /\ UNCHANGED <<record, saving>>
    BY <1>22 DEF ReceiveInvoice, drawer, server, past
  <2>2. Only(f)
    BY <1>22, ReceiveInvoiceF DEF Hears
  <2>3. Undecided(f)' => /\ Undecided(f) /\ flight'[f].items = flight[f].items
                         /\ KeyOf(f)' = KeyOf(f)
    BY <1>22, <2>1, ReceiveInvoiceF DEF Hears, Is, Quiet, Undecided, Sent, KeyOf
  <2>4. AnswersKept
    BY <2>1, AnswersSame
  <2> QED
    BY <1>t, <2>1, <2>2, <2>3, <2>4, FewerOnly, OnceFrame
<1>23. ASSUME NEW f \in Slot, FireTimer(f) PROVE OnceInv'
  <2>1. /\ again' = again /\ key' = key /\ open' = open /\ cart' \subseteq cart
        /\ UNCHANGED content /\ UNCHANGED <<record, saving>>
    BY <1>23 DEF FireTimer, drawer, server, past
  <2>2. Only(f)
    BY <1>23, FireTimerF DEF Hears
  <2>3. Undecided(f)' => /\ Undecided(f) /\ flight'[f].items = flight[f].items
                         /\ KeyOf(f)' = KeyOf(f)
    BY <1>23, <2>1, FireTimerF DEF Hears, Is, Quiet, Undecided, Sent, KeyOf
  <2>4. AnswersKept
    BY <2>1, AnswersSame
  <2> QED
    BY <1>t, <2>1, <2>2, <2>3, <2>4, FewerOnly, OnceFrame
<1>24. ASSUME NEW f \in Slot, ReadPay(f) PROVE OnceInv'
  <2>1. /\ again' = again /\ key' = key /\ open' = open /\ cart' \subseteq cart
        /\ UNCHANGED content /\ UNCHANGED <<record, saving>>
    BY <1>24 DEF ReadPay, drawer, server, past
  <2>2. Only(f)
    BY <1>24, ReadPayF DEF Hears
  <2>3. Undecided(f)' => /\ Undecided(f) /\ flight'[f].items = flight[f].items
                         /\ KeyOf(f)' = KeyOf(f)
    BY <1>24, <2>1, ReadPayF DEF Hears, Is, Quiet, Undecided, Sent, KeyOf
  <2>4. AnswersKept
    BY <2>1, AnswersSame
  <2> QED
    BY <1>t, <2>1, <2>2, <2>3, <2>4, FewerOnly, OnceFrame
<1>25. ASSUME NEW f \in Slot, CommitPay(f) PROVE OnceInv'
  <2>1. /\ again' = again /\ key' = key /\ open' = open /\ cart' \subseteq cart
        /\ UNCHANGED content /\ UNCHANGED <<record, saving>>
    BY <1>25 DEF CommitPay, drawer, server, past
  <2>2. Only(f)
    BY <1>25, CommitPayF DEF Hears
  <2>3. Undecided(f)' => /\ Undecided(f) /\ flight'[f].items = flight[f].items
                         /\ KeyOf(f)' = KeyOf(f)
    BY <1>25, <2>1, CommitPayF DEF Hears, Is, Quiet, Undecided, Sent, KeyOf
  <2>4. AnswersKept
    BY <2>1, AnswersSame
  <2> QED
    BY <1>t, <2>1, <2>2, <2>3, <2>4, FewerOnly, OnceFrame
<1>26. ASSUME NEW f \in Slot, ReceivePay(f) PROVE OnceInv'
  <2>1. /\ again' = again /\ key' = key /\ open' = open /\ cart' \subseteq cart
        /\ UNCHANGED content /\ UNCHANGED <<record, saving>>
    BY <1>26 DEF ReceivePay, drawer, server, past
  <2>2. Only(f)
    BY <1>26, ReceivePayF DEF Hears
  <2>3. Undecided(f)' => /\ Undecided(f) /\ flight'[f].items = flight[f].items
                         /\ KeyOf(f)' = KeyOf(f)
    BY <1>26, <2>1, ReceivePayF DEF Hears, Is, Quiet, Undecided, Sent, KeyOf
  <2>4. AnswersKept
    BY <2>1, AnswersSame
  <2> QED
    BY <1>t, <2>1, <2>2, <2>3, <2>4, FewerOnly, OnceFrame
<1>27. ASSUME NEW f \in Slot, NEW how \in {"error", "cut"}, FailFlight(f, how) PROVE OnceInv'
  <2>1. /\ again' = again /\ key' = key /\ open' = open /\ cart' = cart
        /\ UNCHANGED <<content, record, saving>>
    BY <1>27 DEF FailFlight, drawer, server, past
  <2>2. ASSUME NEW g \in Slot, Undecided(g)'
        PROVE  \E h \in Slot : /\ Undecided(h) /\ flight'[g].items = flight[h].items
                               /\ KeyOf(g)' = KeyOf(h)
    <3>1. g # f
      BY <1>27, <2>2, FailFlightF DEF Is, Undecided, Sent
    <3>2. CASE flight'[g] = flight[g]
      BY <2>1, <2>2, <3>2 DEF Undecided, Sent, KeyOf
    <3>3. CASE /\ flight[f].reply = "none"
               /\ Is(flight'[g], flight[f].what, flight[f].key, flight[f].items, flight[f].id,
                     flight[f].method, "none", FALSE)
      BY <2>1, <2>2, <3>3 DEF Is, Undecided, Sent, KeyOf
    <3> QED
      BY <1>27, <3>1, <3>2, <3>3, FailFlightF
  <2> QED
    BY <1>t, <2>1, <2>2, AnswersSame, OnceFrame DEF FewerUndecided
<1>28. ASSUME NEW s \in saving, SaveRecord(s) PROVE OnceInv'
  <2>1. /\ again \subseteq again' /\ key' = key /\ open' = open /\ cart' = cart
        /\ UNCHANGED <<content, flight>>
    BY <1>28 DEF SaveRecord, drawer
  <2>2. ASSUME NEW k \in Key, NEW p \in Order, Answers(k, p)
        PROVE  Answers(k, p)' \/ content[p] \subseteq again'
    <3>1. s \in Key \X Order /\ s = <<s[1], s[2]>>
      BY <1>28, <1>s DEF ServerOK
    <3>2. CASE <<k, p>> \in saving /\ s = <<k, p>>
      BY <1>28, <1>s, <3>1, <3>2 DEF SaveRecord, Answers, ServerOK
    <3>3. CASE <<k, p>> \in saving /\ s # <<k, p>>
      BY <1>28, <3>3 DEF SaveRecord, Answers
    <3>4. CASE record[k] = p /\ k # s[1]
      BY <1>28, <1>s, <3>1, <3>4 DEF SaveRecord, Answers, ServerOK
    <3>5. CASE record[k] = p /\ k = s[1]
      BY <1>28, <3>5 DEF SaveRecord
    <3> QED
      BY <2>2, <3>2, <3>3, <3>4, <3>5 DEF Answers
  <2> QED
    BY <1>t, <2>1, <2>2, FewerSame, OnceFrame DEF AnswersKept
<1>29. CASE LoseRecord
  <2>1. /\ again \subseteq again' /\ key' = key /\ open' = open /\ cart' = cart
        /\ UNCHANGED <<content, flight>>
    BY <1>29 DEF LoseRecord, drawer
  <2>2. ASSUME NEW s \in saving, saving' = saving \ {s}, again' = again \cup content[s[2]],
               UNCHANGED record
        PROVE  AnswersKept
    BY <2>2 DEF AnswersKept, Answers
  <2>3. ASSUME NEW j \in Key, record' = [record EXCEPT ![j] = None], UNCHANGED saving,
               again' = again \cup UNION {content[o] : o \in Order \cap {record[j]}}
        PROVE  AnswersKept
    BY <1>s, <2>3 DEF AnswersKept, Answers, ServerOK
  <2>4. AnswersKept
    BY <1>29, <2>2, <2>3 DEF LoseRecord
  <2> QED
    BY <1>t, <2>1, <2>4, FewerSame, OnceFrame
<1>30. ASSUME NEW o \in Order, Elsewhere(o) PROVE OnceInv'
  <2>1. /\ again' = again /\ key' = key /\ (open' => open /\ cart' \subseteq cart)
        /\ UNCHANGED <<content, record, saving, flight>>
    BY <1>30 DEF Elsewhere, Trouble, drawer, server, past
  <2> QED
    BY <1>t, <2>1, AnswersSame, FewerSame, OnceFrame
<1> QED
  BY <1>0, <1>1, <1>2, <1>3, <1>4, <1>5, <1>6, <1>7, <1>8, <1>9, <1>10, <1>11, <1>12, <1>13,
     <1>14, <1>15, <1>16, <1>17, <1>18, <1>19, <1>20, <1>21, <1>22, <1>23, <1>24, <1>25, <1>26,
     <1>27, <1>28, <1>29, <1>30 DEF StoreNext

\* All that was wanted is among these items, or need not be.
Settles(items) == wanted \subseteq items \cup Served

\* The orders the page still hears of are as they were, or fewer.
FewerOrdering ==
    \A f \in Slot : flight'[f].live /\ Ordering(f)' =>
        \E h \in Slot : /\ flight[h].live /\ Ordering(h)
                        /\ flight'[f].items = flight[h].items /\ KeyOf(f)' = KeyOf(h)
\* What the page has been told of an order settles everything.
KnownSettles ==
    \A f \in Slot : flight'[f].what = "order" /\ flight'[f].reply = "ok" =>
        \/ \E h \in Slot : /\ flight[h].what = "order" /\ flight[h].reply = "ok"
                           /\ flight'[f].id = flight[h].id
        \/ wanted' \subseteq content'[flight'[f].id] \cup Served'
SentSettles ==
    \A f \in Slot : Sent(f, "order")' =>
        \/ \E h \in Slot : /\ Sent(h, "order") /\ flight'[f].items = flight[h].items
                           /\ flight'[f].key = flight[h].key
        \/ wanted' \subseteq flight'[f].items \cup Served'
AnswersSettle ==
    \A k \in Key, p \in Order : Answers(k, p)' /\ Heard(k)' =>
        Answers(k, p) \/ wanted' \subseteq content'[p] \cup Served'
HeardLess == \A k \in Key : Heard(k)' => Heard(k)

\* The property, in terms of what need not be in the cart.
LEMMA CartIs == CartServed <=> wanted \subseteq cart \cup Served
BY DEF CartServed, Served

\* What is served stays served when the history of orders grows.
LEMMA ServedGrows ==
    ASSUME given \subseteq given',
           \A d \in Id : history[d] # "absent" =>
               history'[d] # "absent" /\ content[d] \subseteq content'[d]
    PROVE  Served \subseteq Served'
<1> SUFFICES ASSUME NEW i \in Served PROVE i \in Served'
  OBVIOUS
<1>1. CASE i \in given
  BY <1>1 DEF Served
<1>2. CASE i \notin given
  <2>1. PICK d \in Id : history[d] # "absent" /\ i \in content[d]
    BY <1>2 DEF Served
  <2>2. history'[d] # "absent" /\ i \in content'[d]
    BY <2>1
  <2> QED
    BY <2>2 DEF Served
<1> QED
  BY <1>1, <1>2

\* What is served is read off three variables.
LEMMA ServedSame == ASSUME UNCHANGED <<given, content, history>> PROVE Served' = Served
BY DEF Served

\* Fewer orders under way are fewer answers that may empty the cart.
LEMMA HeardFewer ==
    ASSUME key' = key, open' => open, FewerOrdering
    PROVE  HeardLess
<1> SUFFICES ASSUME NEW k \in Key, Heard(k)' PROVE Heard(k)
  BY DEF HeardLess
<1>1. CASE open' /\ key' = k
  BY <1>1 DEF Heard
<1>2. ASSUME NEW f \in Slot, flight'[f].live, Ordering(f)', KeyOf(f)' = k
      PROVE  Heard(k)
  BY <1>2 DEF FewerOrdering, Heard
<1> QED
  BY <1>1, <1>2 DEF Heard

\* A step is harmless when the orders it leaves under way serve what they did.
LEMMA ServedFrame ==
    ASSUME Typed, ServedInv, wanted' = wanted, Served \subseteq Served', CartServed',
           \A p \in Order : content[p] \subseteq content'[p],
           \A f \in Slot : flight'[f].live /\ Ordering(f)' =>
               \/ \E h \in Slot : /\ flight[h].live /\ Ordering(h)
                                  /\ flight'[f].items = flight[h].items
               \/ wanted' \subseteq flight'[f].items \cup Served',
           KnownSettles, SentSettles, AnswersSettle, HeardLess
    PROVE  ServedInv'
<1>1. ASSUME NEW f \in Slot, flight'[f].live, Ordering(f)'
      PROVE  wanted' \subseteq flight'[f].items \cup Served'
  BY <1>1 DEF ServedInv
<1>2. ASSUME NEW f \in Slot, flight'[f].what = "order", flight'[f].reply = "ok"
      PROVE  wanted' \subseteq content'[flight'[f].id] \cup Served'
  <2>1. ASSUME NEW h \in Slot, flight[h].what = "order", flight[h].reply = "ok",
               flight'[f].id = flight[h].id
        PROVE  wanted' \subseteq content'[flight'[f].id] \cup Served'
    <3>1. wanted \subseteq content[flight[h].id] \cup Served
      BY <2>1 DEF ServedInv
    <3>2. flight[h].id \in Order
      BY <2>1 DEF Typed, FlightInv
    <3> QED
      BY <2>1, <3>1, <3>2
  <2> QED
    BY <1>2, <2>1 DEF KnownSettles
<1>3. ASSUME NEW f \in Slot, Sent(f, "order")', Heard(flight[f].key)'
      PROVE  wanted' \subseteq flight'[f].items \cup Served'
  <2>1. ASSUME NEW h \in Slot, Sent(h, "order"), flight'[f].items = flight[h].items,
               flight'[f].key = flight[h].key
        PROVE  wanted' \subseteq flight'[f].items \cup Served'
    <3>1. PICK k \in Key : k = flight[h].key
      BY <2>1, Keys DEF Sent
    <3>2. Heard(k)'
      BY <1>3, <2>1, <3>1 DEF Heard
    <3>3. Heard(flight[h].key)
      BY <3>1, <3>2 DEF HeardLess
    <3>4. wanted \subseteq flight[h].items \cup Served
      BY <2>1, <3>3 DEF ServedInv
    <3> QED
      BY <2>1, <3>4
  <2> QED
    BY <1>3, <2>1 DEF SentSettles
<1>4. ASSUME NEW k \in Key, NEW p \in Order, Answers(k, p)', Heard(k)'
      PROVE  wanted' \subseteq content'[p] \cup Served'
  <2>1. CASE Answers(k, p)
    <3>1. Heard(k)
      BY <1>4 DEF HeardLess
    <3>2. wanted \subseteq content[p] \cup Served
      BY <2>1, <3>1 DEF ServedInv
    <3> QED
      BY <3>2
  <2> QED
    BY <1>4, <2>1 DEF AnswersSettle
<1> QED
  BY <1>1, <1>2, <1>3, <1>4 DEF ServedInv

\* One request changes, and settles what it settled.
LEMMA OneSettles ==
    ASSUME key' = key, NEW f \in Slot, Only(f),
           flight'[f].live /\ Ordering(f)' =>
               /\ flight[f].live /\ Ordering(f)
               /\ flight'[f].items = flight[f].items /\ KeyOf(f)' = KeyOf(f),
           flight'[f].what = "order" /\ flight'[f].reply = "ok" =>
               \/ flight[f].what = "order" /\ flight[f].reply = "ok" /\ flight'[f].id = flight[f].id
               \/ wanted' \subseteq content'[flight'[f].id] \cup Served',
           Sent(f, "order")' =>
               \/ /\ Sent(f, "order") /\ flight'[f].items = flight[f].items
                  /\ flight'[f].key = flight[f].key
               \/ wanted' \subseteq flight'[f].items \cup Served'
    PROVE  FewerOrdering /\ KnownSettles /\ SentSettles
<1>1. ASSUME NEW g \in Slot, g # f
      PROVE  /\ flight'[g] = flight[g] /\ KeyOf(g)' = KeyOf(g) /\ Ordering(g)' = Ordering(g)
             /\ Sent(g, "order")' = Sent(g, "order")
  BY <1>1 DEF Only, KeyOf, Ordering, Sent
<1>2. FewerOrdering
  BY <1>1 DEF FewerOrdering
<1>3. KnownSettles
  BY <1>1 DEF KnownSettles
<1>4. SentSettles
  BY <1>1 DEF SentSettles
<1> QED
  BY <1>2, <1>3, <1>4

\* Requests that are left alone serve what they did.
LEMMA SameSettles ==
    ASSUME key' = key, flight' = flight
    PROVE  FewerOrdering /\ KnownSettles /\ SentSettles
BY DEF FewerOrdering, KnownSettles, SentSettles, KeyOf, Ordering, Sent

\* Records that are left alone serve what they did.
LEMMA AnswersStill == ASSUME UNCHANGED <<record, saving>> PROVE AnswersSettle
BY DEF AnswersSettle, Answers

\* More is wanted, and whatever settled what was wanted settles that too.
LEMMA ServedMore ==
    ASSUME Typed, ServedInv, UNCHANGED <<open, key, history, content, record, saving, flight>>,
           CartServed', \A S : wanted \subseteq S \cup Served => wanted' \subseteq S \cup Served'
    PROVE  ServedInv'
<1>1. \A f \in Slot : /\ Ordering(f)' = Ordering(f) /\ Sent(f, "order")' = Sent(f, "order")
                      /\ KeyOf(f)' = KeyOf(f)
  BY DEF Ordering, Sent, KeyOf
<1>2. \A k : Heard(k)' = Heard(k)
  BY <1>1 DEF Heard
<1>3. \A k, p : Answers(k, p)' = Answers(k, p)
  BY DEF Answers
<1>4. ASSUME NEW f \in Slot
      PROVE  /\ flight[f].live /\ Ordering(f) => wanted' \subseteq flight[f].items \cup Served'
             /\ flight[f].what = "order" /\ flight[f].reply = "ok"
                  => wanted' \subseteq content[flight[f].id] \cup Served'
             /\ Sent(f, "order") /\ Heard(flight[f].key)
                  => wanted' \subseteq flight[f].items \cup Served'
  BY DEF ServedInv
<1>5. ASSUME NEW k \in Key, NEW p \in Order, Answers(k, p), Heard(k)
      PROVE  wanted' \subseteq content[p] \cup Served'
  BY <1>5 DEF ServedInv
<1>6. \A f \in Slot : Heard(flight[f].key)' = Heard(flight[f].key)
  BY <1>1 DEF Heard
<1> QED
  BY <1>1, <1>2, <1>3, <1>4, <1>5, <1>6 DEF ServedInv

\* A new key: nobody has sent it, and the server has not heard of it.
LEMMA NewKey ==
    ASSUME Typed, key' = key + 1, UNCHANGED <<record, saving, flight>>,
           NEW k \in Key
    PROVE  /\ k = key' => /\ \A p \in Order : ~Answers(k, p)
                          /\ \A f \in Slot : ~(Sent(f, "order") /\ flight[f].key = k)
           /\ k # key' /\ Heard(k)' => Heard(k)
<1>0. key \in Nat
  BY Bounds DEF Typed, StoreTypeOK, DrawerOK, Key
<1>1. ASSUME k = key', NEW p \in Order
      PROVE  ~Answers(k, p)
  <2>1. ~(<<k, p>> \in saving)
    BY <1>0, <1>1 DEF Typed, LedgerInv, KeysInv
  <2>2. record[k] # p
    BY <1>0, <1>1, IdIn DEF Typed, LedgerInv, KeysInv
  <2> QED
    BY <2>1, <2>2 DEF Answers
<1>2. ASSUME k = key', NEW f \in Slot
      PROVE  ~(Sent(f, "order") /\ flight[f].key = k)
  BY <1>0, <1>2 DEF Typed, FlightInv, Sent
<1>3. ASSUME k # key', Heard(k)'
      PROVE  Heard(k)
  <2>1. PICK f \in Slot : flight'[f].live /\ Ordering(f)' /\ KeyOf(f)' = k
    BY <1>3 DEF Heard
  <2>2. flight[f].live /\ Ordering(f) /\ KeyOf(f) = k
    BY <1>3, <2>1 DEF Ordering, KeyOf
  <2> QED
    BY <2>2 DEF Heard
<1> QED
  BY <1>1, <1>2, <1>3

\* A drawer that opens draws a key no answer bears.
LEMMA ServedOpened ==
    ASSUME Typed, ServedInv, key' = key + 1,
           UNCHANGED <<history, content, record, saving, flight>>,
           CartServed', \A S : wanted \subseteq S \cup Served => wanted' \subseteq S \cup Served'
    PROVE  ServedInv'
<1>1. \A f \in Slot : Ordering(f)' = Ordering(f) /\ Sent(f, "order")' = Sent(f, "order")
  BY DEF Ordering, Sent
<1>2. ASSUME NEW f \in Slot
      PROVE  /\ flight[f].live /\ Ordering(f) => wanted' \subseteq flight[f].items \cup Served'
             /\ flight[f].what = "order" /\ flight[f].reply = "ok"
                  => wanted' \subseteq content[flight[f].id] \cup Served'
  BY DEF ServedInv
<1>3. ASSUME NEW f \in Slot, Sent(f, "order"), Heard(flight[f].key)'
      PROVE  wanted' \subseteq flight[f].items \cup Served'
  <2>1. PICK k \in Key : k = flight[f].key
    BY <1>3, Keys DEF Sent
  <2>2. Heard(k)'
    BY <1>3, <2>1 DEF Heard
  <2>3. Heard(k)
    BY <1>3, <2>1, <2>2, NewKey
  <2>4. wanted \subseteq flight[f].items \cup Served
    BY <1>3, <2>1, <2>3 DEF ServedInv
  <2> QED
    BY <2>4
<1>4. ASSUME NEW k \in Key, NEW p \in Order, Answers(k, p), Heard(k)'
      PROVE  wanted' \subseteq content[p] \cup Served'
  <2>1. Heard(k)
    BY <1>4, NewKey
  <2>2. wanted \subseteq content[p] \cup Served
    BY <1>4, <2>1 DEF ServedInv
  <2> QED
    BY <2>2
<1>5. \A k, p : Answers(k, p)' = Answers(k, p)
  BY DEF Answers
<1> QED
  BY <1>1, <1>2, <1>3, <1>4, <1>5 DEF ServedInv

\* Nobody waits for an order: nothing can empty the cart.
LEMMA ServedUnheard ==
    ASSUME Typed, ~open, ~Awaited, UNCHANGED <<open, key, flight>>, CartServed'
    PROVE  ServedInv'
<1>1. \A k : ~Heard(k)'
  BY DEF Heard, Awaited, Ordering
<1>2. \A f \in Slot : ~(flight'[f].live /\ Ordering(f)')
  BY DEF Awaited, Ordering
<1>3. \A f \in Slot : ~(flight'[f].what = "order" /\ flight'[f].reply = "ok")
  BY DEF Awaited, Ordering, Typed, FlightInv
<1>4. \A f \in Slot : ~Heard(flight[f].key)'
  BY DEF Heard, Awaited, Ordering
<1> QED
  BY <1>1, <1>2, <1>3, <1>4 DEF ServedInv

\* So it does when what was wanted is new, and nothing is under way.
LEMMA ServedFresh ==
    ASSUME Typed, ~open, ~Awaited, key' = key + 1,
           UNCHANGED <<record, saving, flight>>, CartServed'
    PROVE  ServedInv'
<1>1. ASSUME NEW k \in Key, k # key' PROVE ~Heard(k)'
  BY <1>1 DEF Heard, Awaited, Ordering
<1>2. \A f \in Slot : ~(flight'[f].live /\ Ordering(f)')
  BY DEF Awaited, Ordering
<1>3. \A f \in Slot : ~(flight'[f].what = "order" /\ flight'[f].reply = "ok")
  BY DEF Awaited, Ordering, Typed, FlightInv
<1>4. ASSUME NEW f \in Slot, Sent(f, "order")'
      PROVE  ~Heard(flight[f].key)'
  <2>1. PICK k \in Key : k = flight[f].key
    BY <1>4, Keys DEF Sent
  <2>2. k # key'
    BY <1>4, <2>1, NewKey DEF Sent
  <2> QED
    BY <1>1, <2>1, <2>2 DEF Heard
<1>5. ASSUME NEW k \in Key, NEW p \in Order, Answers(k, p)'
      PROVE  ~Heard(k)'
  <2>1. Answers(k, p)
    BY <1>5 DEF Answers
  <2> QED
    BY <1>1, <2>1, NewKey
<1> QED
  BY <1>2, <1>3, <1>4, <1>5 DEF ServedInv

\* Every step serves what was wanted.
LEMMA ServedKept ==
    ASSUME Typed, ServedInv, [StoreNext]_storeVars
    PROVE  ServedInv'
<1>t. Typed /\ ServedInv
  OBVIOUS
<1>s. /\ CartServed /\ (CartServed <=> wanted \subseteq cart \cup Served)
      /\ CartServed' <=> wanted' \subseteq cart' \cup Served'
  BY CartIs DEF ServedInv, CartServed, Served
<1>r. /\ flight \in [Slot -> Flights] /\ ServerOK /\ DrawerOK
      /\ Order \subseteq Id /\ Order \cap Local = {}
      /\ \A f \in Slot : FlightInv(f)
  BY IdIn, Apart DEF Typed, StoreTypeOK, RequestsOK
<1>0. CASE UNCHANGED storeVars
  <2>1. /\ UNCHANGED <<open, key, wanted, cart, given, history, content, record, saving, flight>>
    BY <1>0 DEF storeVars, drawer, server, past
  <2>2. Served' = Served
    BY <2>1, ServedSame
  <2> QED
    BY <1>t, <1>s, <2>1, <2>2, ServedMore
<1>1. ASSUME NEW start \in {"cart", "checkout"}, OpenCart(start) PROVE ServedInv'
  <2>1. /\ key' = key + 1 /\ open' = TRUE
        /\ UNCHANGED <<cart, wanted, given, history, content, record, saving, flight>>
    BY <1>1 DEF OpenCart, Opened, Restarted, server
  <2>2. Served' = Served
    BY <2>1, ServedSame
  <2> QED
    BY <1>t, <1>s, <2>1, <2>2, ServedOpened
<1>2. CASE CloseCart
  <2>1. /\ key' = key /\ ~open' /\ cart' = cart
        /\ UNCHANGED <<wanted, given, history, content, record, saving>>
    BY <1>2, CloseCartF DEF CloseCart, Clears, server, past
  <2>2. Served' = Served
    BY <2>1, ServedSame
  <2>3. FewerOrdering /\ KnownSettles /\ SentSettles
    BY <1>2, <2>1, CloseCartF
       DEF Clears, Is, Quiet, FewerOrdering, KnownSettles, SentSettles, KeyOf, Ordering, Sent
  <2>4. HeardLess /\ AnswersSettle
    BY <2>1, <2>3, HeardFewer, AnswersStill
  <2> QED
    BY <1>t, <1>s, <2>1, <2>2, <2>3, <2>4, ServedFrame DEF FewerOrdering
<1>3. CASE CloseAndReset
  <2>1. /\ key' = key /\ ~open' /\ cart' = cart
        /\ UNCHANGED <<wanted, given, history, content, record, saving>>
    BY <1>3, CloseAndResetF DEF CloseAndReset, Clears, server, past
  <2>2. Served' = Served
    BY <2>1, ServedSame
  <2>3. FewerOrdering /\ KnownSettles /\ SentSettles
    BY <1>3, <2>1, CloseAndResetF
       DEF Clears, Is, Quiet, FewerOrdering, KnownSettles, SentSettles, KeyOf, Ordering, Sent
  <2>4. HeardLess /\ AnswersSettle
    BY <2>1, <2>3, HeardFewer, AnswersStill
  <2> QED
    BY <1>t, <1>s, <2>1, <2>2, <2>3, <2>4, ServedFrame DEF FewerOrdering
<1>4. CASE Reload
  <2>1. /\ key' = key /\ ~open' /\ cart' = cart
        /\ UNCHANGED <<wanted, given, history, content, record, saving>>
    BY <1>4, ReloadF DEF Reload, Goes, LeavePage, Trouble, server, past
  <2>2. Served' = Served
    BY <2>1, ServedSame
  <2>3. FewerOrdering /\ KnownSettles /\ SentSettles
    BY <1>4, <2>1, ReloadF
       DEF Goes, Is, Quiet, FewerOrdering, KnownSettles, SentSettles, KeyOf, Ordering, Sent
  <2>4. HeardLess /\ AnswersSettle
    BY <2>1, <2>3, HeardFewer, AnswersStill
  <2> QED
    BY <1>t, <1>s, <2>1, <2>2, <2>3, <2>4, ServedFrame DEF FewerOrdering
<1>5. CASE GoCheckout
  <2>1. /\ key' = key /\ open' = open /\ cart' = cart
        /\ UNCHANGED <<wanted, given, history, content, record, saving, flight>>
    BY <1>5 DEF GoCheckout, ShowStep, drawer, server, past
  <2>2. Served' = Served
    BY <2>1, ServedSame
  <2>3. FewerOrdering /\ KnownSettles /\ SentSettles /\ AnswersSettle
    BY <2>1, SameSettles, AnswersStill
  <2>4. HeardLess
    BY <2>1, <2>3, HeardFewer
  <2> QED
    BY <1>t, <1>s, <2>1, <2>2, <2>3, <2>4, ServedFrame DEF FewerOrdering
<1>6. CASE BackToCart
  <2>1. /\ key' = key /\ open' = open /\ cart' = cart
        /\ UNCHANGED <<wanted, given, history, content, record, saving, flight>>
    BY <1>6 DEF BackToCart, ShowStep, drawer, server, past
  <2>2. Served' = Served
    BY <2>1, ServedSame
  <2>3. FewerOrdering /\ KnownSettles /\ SentSettles /\ AnswersSettle
    BY <2>1, SameSettles, AnswersStill
  <2>4. HeardLess
    BY <2>1, <2>3, HeardFewer
  <2> QED
    BY <1>t, <1>s, <2>1, <2>2, <2>3, <2>4, ServedFrame DEF FewerOrdering
<1>7. CASE BackToCheckout
  <2>1. /\ key' = key /\ open' = open /\ cart' = cart
        /\ UNCHANGED <<wanted, given, history, content, record, saving, flight>>
    BY <1>7 DEF BackToCheckout, ShowStep, drawer, server, past
  <2>2. Served' = Served
    BY <2>1, ServedSame
  <2>3. FewerOrdering /\ KnownSettles /\ SentSettles /\ AnswersSettle
    BY <2>1, SameSettles, AnswersStill
  <2>4. HeardLess
    BY <2>1, <2>3, HeardFewer
  <2> QED
    BY <1>t, <1>s, <2>1, <2>2, <2>3, <2>4, ServedFrame DEF FewerOrdering
<1>8. ASSUME NEW i \in Item, Add(i) PROVE ServedInv'
  <2>1. /\ ~open /\ open' = open /\ key' = key
        /\ UNCHANGED <<history, content, record, saving, flight>>
        /\ cart' = cart \cup {i} /\ wanted' = wanted \cup {i}
        /\ given' = IF Awaited THEN given \cup {i} ELSE given
    BY <1>8 DEF Add, drawer, server
  <2>2. Served \subseteq Served' /\ (Awaited => i \in Served')
    BY <2>1 DEF Served
  <2>3. CartServed'
    BY <1>s, <2>1, <2>2
  <2>4. CASE ~Awaited
    BY <1>r, <1>t, <2>1, <2>3, <2>4, ServedUnheard
  <2>5. CASE Awaited
    <3>1. \A S : wanted \subseteq S \cup Served => wanted' \subseteq S \cup Served'
      BY <2>1, <2>2, <2>5
    <3> QED
      BY <1>t, <2>1, <2>3, <3>1, ServedMore
  <2> QED
    BY <2>4, <2>5
<1>9. ASSUME NEW i \in Item, BuyNow(i) PROVE ServedInv'
  <2>1. /\ UNCHANGED <<history, content, record, saving, flight>>
        /\ cart' = {i} /\ wanted' = wanted \cup {i}
        /\ given' = given \cup cart \cup (IF open \/ Awaited THEN {i} ELSE {})
    BY <1>9 DEF BuyNow, server
  <2>2. Served' = Served \cup cart \cup (IF open \/ Awaited THEN {i} ELSE {})
    BY <2>1 DEF Served
  <2>3. CartServed'
    BY <1>s, <2>1, <2>2
  <2>4. CASE open
    <3>1. UNCHANGED <<open, key>>
      BY <1>9, <2>4 DEF BuyNow, drawer
    <3>2. \A S : wanted \subseteq S \cup Served => wanted' \subseteq S \cup Served'
      BY <2>1, <2>2, <2>4
    <3> QED
      BY <1>t, <2>1, <2>3, <3>1, <3>2, ServedMore
  <2>5. CASE ~open
    <3>1. key' = key + 1
      BY <1>9, <2>5 DEF BuyNow, Opened, Restarted
    <3>2. CASE Awaited
      <4>1. \A S : wanted \subseteq S \cup Served => wanted' \subseteq S \cup Served'
        BY <2>1, <2>2, <3>2
      <4> QED
        BY <1>t, <2>1, <2>3, <3>1, <4>1, ServedOpened
    <3>3. CASE ~Awaited
      BY <1>t, <2>1, <2>3, <2>5, <3>1, <3>3, ServedFresh
    <3> QED
      BY <3>2, <3>3
  <2> QED
    BY <2>4, <2>5
<1>10. ASSUME NEW i \in Item, Remove(i) PROVE ServedInv'
  <2>1. /\ key' = key /\ open' = open /\ cart' = cart \ {i} /\ given' = given \cup {i}
        /\ UNCHANGED <<wanted, history, content, record, saving, flight>>
    BY <1>10 DEF Remove, drawer, server
  <2>2. Served' = Served \cup {i}
    BY <2>1 DEF Served
  <2>3. FewerOrdering /\ KnownSettles /\ SentSettles /\ AnswersSettle
    BY <2>1, SameSettles, AnswersStill
  <2>4. HeardLess
    BY <2>1, <2>3, HeardFewer
  <2>5. CartServed'
    BY <1>s, <2>1, <2>2
  <2> QED
    BY <1>t, <2>1, <2>2, <2>3, <2>4, <2>5, ServedFrame DEF FewerOrdering
<1>11. ASSUME NEW f \in Slot, ConfirmOrder(f) PROVE ServedInv'
  <2>1. /\ key' = key /\ open' = open /\ cart' = cart /\ open
        /\ UNCHANGED <<wanted, given, history, content, record, saving>>
    BY <1>11 DEF ConfirmOrder, server, past
  <2>2. Served' = Served
    BY <2>1, ServedSame
  <2>3. /\ Only(f) /\ flight'[f].what = "profile" /\ flight'[f].items = cart
    BY <1>11, ConfirmOrderF DEF Is
  <2>4. ASSUME NEW g \in Slot, g # f
        PROVE  /\ flight'[g] = flight[g] /\ KeyOf(g)' = KeyOf(g) /\ Ordering(g)' = Ordering(g)
               /\ Sent(g, "order")' = Sent(g, "order")
    BY <2>1, <2>3, <2>4 DEF Only, KeyOf, Ordering, Sent
  <2>5. KnownSettles /\ SentSettles
    BY <2>3, <2>4 DEF KnownSettles, SentSettles, Sent
  <2>6. HeardLess
    <3>1. KeyOf(f)' = key
      BY <2>1, <2>3 DEF KeyOf
    <3> QED
      BY <2>1, <2>4, <3>1 DEF HeardLess, Heard
  <2>7. AnswersSettle
    BY <2>1, AnswersStill
  <2>8. \A g \in Slot : flight'[g].live /\ Ordering(g)' =>
               \/ \E h \in Slot : /\ flight[h].live /\ Ordering(h)
                                  /\ flight'[g].items = flight[h].items
               \/ wanted' \subseteq flight'[g].items \cup Served'
    BY <1>s, <2>1, <2>2, <2>3, <2>4
  <2> QED
    BY <1>t, <1>s, <2>1, <2>2, <2>5, <2>6, <2>7, <2>8, ServedFrame
<1>12. ASSUME NEW f \in Slot, SendOrder(f) PROVE ServedInv'
  <2>1. /\ key' = key /\ open' = open /\ cart' = cart
        /\ UNCHANGED <<wanted, given, history, content, record, saving>>
    BY <1>12 DEF SendOrder, drawer, server, past
  <2>2. Served' = Served
    BY <2>1, ServedSame
  <2>3. Only(f)
    BY <1>12, SendOrderF DEF Hears
  <2>4. FewerOrdering /\ KnownSettles /\ SentSettles
    <3>1. flight'[f].live /\ Ordering(f)' =>
               /\ flight[f].live /\ Ordering(f)
               /\ flight'[f].items = flight[f].items /\ KeyOf(f)' = KeyOf(f)
      BY <1>12, <2>1, SendOrderF DEF Hears, Is, Quiet, Ordering, KeyOf
    <3>2. ~(flight'[f].what = "order" /\ flight'[f].reply = "ok")
      BY <1>12, SendOrderF DEF Hears, Is, Quiet
    <3>3. wanted' \subseteq flight'[f].items \cup Served'
      BY <1>12, <1>t, <2>1, <2>2, SendOrderF DEF Is, ServedInv, Ordering
    <3> QED
      BY <2>1, <2>3, <3>1, <3>2, <3>3, OneSettles
  <2>5. HeardLess
    BY <2>1, <2>4, HeardFewer
  <2>6. AnswersSettle
    BY <2>1, AnswersStill
  <2> QED
    BY <1>t, <1>s, <2>1, <2>2, <2>4, <2>5, <2>6, ServedFrame DEF FewerOrdering
<1>13. ASSUME NEW f \in Slot, RepeatOrder(f) PROVE ServedInv'
  <2>1. /\ key' = key /\ open' = open /\ cart' = cart
        /\ UNCHANGED <<wanted, given, history, content, record, saving>>
    BY <1>13 DEF RepeatOrder, drawer, server, past
  <2>2. Served' = Served
    BY <2>1, ServedSame
  <2>3. Only(f)
    BY <1>13, RepeatOrderF DEF Hears
  <2>4. FewerOrdering /\ KnownSettles /\ SentSettles
    <3>1. flight'[f].live /\ Ordering(f)' =>
               /\ flight[f].live /\ Ordering(f)
               /\ flight'[f].items = flight[f].items /\ KeyOf(f)' = KeyOf(f)
      BY <1>13, <2>1, RepeatOrderF DEF Hears, Is, Quiet, Ordering, KeyOf
    <3>2. flight'[f].what = "order" /\ flight'[f].reply = "ok" =>
            wanted' \subseteq content'[flight'[f].id] \cup Served'
      <4> SUFFICES ASSUME flight'[f].what = "order", flight'[f].reply = "ok"
                   PROVE  wanted' \subseteq content'[flight'[f].id] \cup Served'
        OBVIOUS
      <4>1. PICK k \in Key : k = flight[f].key
        BY <1>13, RepeatOrderF
      <4>2. flight[f].live /\ flight'[f].id = record[k] /\ record[k] \in Order
        BY <1>13, <4>1, RepeatOrderF DEF Hears, Is, Quiet
      <4>3. Heard(k)
        BY <1>13, <4>1, <4>2, RepeatOrderF DEF Heard, Ordering, KeyOf
      <4>4. wanted \subseteq content[record[k]] \cup Served
        BY <1>t, <4>2, <4>3 DEF ServedInv, Answers
      <4> QED
        BY <2>1, <2>2, <4>2, <4>4
    <3>3. ~Sent(f, "order")'
      BY <1>13, RepeatOrderF DEF Hears, Is, Quiet, Sent
    <3> QED
      BY <2>1, <2>3, <3>1, <3>2, <3>3, OneSettles
  <2>5. HeardLess
    BY <2>1, <2>4, HeardFewer
  <2>6. AnswersSettle
    BY <2>1, AnswersStill
  <2> QED
    BY <1>t, <1>s, <2>1, <2>2, <2>4, <2>5, <2>6, ServedFrame DEF FewerOrdering
<1>14. ASSUME NEW f \in Slot, RefuseOrder(f) PROVE ServedInv'
  <2>1. /\ key' = key /\ open' = open /\ cart' = cart
        /\ UNCHANGED <<wanted, given, history, content, record, saving>>
    BY <1>14 DEF RefuseOrder, drawer, server, past
  <2>2. Served' = Served
    BY <2>1, ServedSame
  <2>3. Only(f)
    BY <1>14, RefuseOrderF DEF Hears
  <2>4. FewerOrdering /\ KnownSettles /\ SentSettles
    <3>1. flight'[f].live /\ Ordering(f)' =>
               /\ flight[f].live /\ Ordering(f)
               /\ flight'[f].items = flight[f].items /\ KeyOf(f)' = KeyOf(f)
      BY <1>14, <2>1, RefuseOrderF DEF Hears, Is, Quiet, Ordering, KeyOf
    <3>2. ~(flight'[f].what = "order" /\ flight'[f].reply = "ok")
      BY <1>14, RefuseOrderF DEF Hears, Is, Quiet
    <3>3. ~Sent(f, "order")'
      BY <1>14, RefuseOrderF DEF Hears, Is, Quiet, Sent
    <3> QED
      BY <2>1, <2>3, <3>1, <3>2, <3>3, OneSettles
  <2>5. HeardLess
    BY <2>1, <2>4, HeardFewer
  <2>6. AnswersSettle
    BY <2>1, AnswersStill
  <2> QED
    BY <1>t, <1>s, <2>1, <2>2, <2>4, <2>5, <2>6, ServedFrame DEF FewerOrdering
<1>15. ASSUME NEW f \in Slot, CreateOrder(f) PROVE ServedInv'
  <2>1. PICK o \in Order :
            /\ content[o] = {}
            /\ content' = [content EXCEPT ![o] = flight[f].items]
            /\ saving' = saving \cup {<<flight[f].key, o>>}
            /\ Hears(f, "ok", o)
    BY <1>15, CreateOrderF
  <2>2. /\ key' = key /\ open' = open /\ cart' = cart /\ Sent(f, "order")
        /\ UNCHANGED <<wanted, given, history, record>>
    BY <1>15 DEF CreateOrder, drawer
  <2>3. /\ content'[o] = flight[f].items
        /\ \A d \in Id : content[d] \subseteq content'[d]
    BY <1>r, <2>1 DEF ServerOK
  <2>4. Served \subseteq Served'
    BY <2>2, <2>3, ServedGrows
  <2>5. Only(f)
    BY <2>1 DEF Hears
  <2>k. PICK k \in Key : k = flight[f].key
    BY <1>15, CreateOrderF
  <2>6. Heard(k) => wanted \subseteq flight[f].items \cup Served
    BY <1>t, <2>2, <2>k DEF ServedInv
  <2>7. FewerOrdering /\ KnownSettles /\ SentSettles
    <3>1. flight'[f].live /\ Ordering(f)' =>
               /\ flight[f].live /\ Ordering(f)
               /\ flight'[f].items = flight[f].items /\ KeyOf(f)' = KeyOf(f)
      BY <2>1, <2>2 DEF Hears, Is, Quiet, Ordering, KeyOf
    <3>2. flight'[f].what = "order" /\ flight'[f].reply = "ok" =>
            wanted' \subseteq content'[flight'[f].id] \cup Served'
      <4> SUFFICES ASSUME flight'[f].what = "order", flight'[f].reply = "ok"
                   PROVE  wanted' \subseteq content'[flight'[f].id] \cup Served'
        OBVIOUS
      <4>1. flight[f].live /\ flight'[f].id = o
        BY <2>1 DEF Hears, Is, Quiet
      <4>2. Heard(k)
        BY <2>2, <2>k, <4>1 DEF Heard, Ordering, KeyOf, Sent
      <4> QED
        BY <2>2, <2>3, <2>4, <2>6, <4>1, <4>2
    <3>3. ~Sent(f, "order")'
      BY <2>1 DEF Hears, Is, Quiet, Sent
    <3> QED
      BY <2>2, <2>5, <3>1, <3>2, <3>3, OneSettles
  <2>8. HeardLess
    BY <2>2, <2>7, HeardFewer
  <2>9. AnswersSettle
    <3> SUFFICES ASSUME NEW j \in Key, NEW p \in Order, Answers(j, p)', Heard(j)', ~Answers(j, p)
                 PROVE  wanted' \subseteq content'[p] \cup Served'
      BY DEF AnswersSettle
    <3>1. j = k /\ p = o
      BY <2>1, <2>2, <2>k DEF Answers
    <3>2. Heard(k)
      BY <2>8, <3>1 DEF HeardLess
    <3> QED
      BY <2>2, <2>3, <2>4, <2>6, <3>1, <3>2
  <2>10. CartServed'
    BY <1>s, <2>2, <2>4
  <2> QED
    BY <1>r, <1>t, <2>2, <2>3, <2>4, <2>7, <2>8, <2>9, <2>10, ServedFrame DEF FewerOrdering
<1>16. ASSUME NEW f \in Slot, ReceiveOrder(f) PROVE ServedInv'
  <2>1. /\ key' = key /\ open' = open /\ UNCHANGED <<wanted, given, record, saving>>
    BY <1>16 DEF ReceiveOrder, past
  <2>2. /\ Only(f) /\ Quiet(flight'[f])
    BY <1>16, ReceiveOrderF
  <2>3. FewerOrdering /\ KnownSettles /\ SentSettles
    BY <2>1, <2>2, OneSettles DEF Quiet, Is, Ordering, Sent
  <2>4. HeardLess /\ AnswersSettle
    BY <2>1, <2>3, HeardFewer, AnswersStill
  <2>5. /\ \A d \in Order : content'[d] = content[d]
        /\ Served \subseteq Served' /\ CartServed'
    <3>1. CASE flight[f].reply = "error" /\ UNCHANGED <<history, content>>
      <4>1. Served' = Served /\ cart' = cart
        BY <1>16, <2>1, <3>1, ServedSame DEF ReceiveOrder, Emptied
      <4> QED
        BY <1>s, <2>1, <3>1, <4>1
    <3>2. ASSUME NEW d \in Id, Remembers(f, d), history' = [history EXCEPT ![d] = "pending"]
          PROVE  /\ \A e \in Order : content'[e] = content[e]
                 /\ Served \subseteq Served' /\ CartServed'
      <4>1. /\ \A e \in Order : content'[e] = content[e]
            /\ \A e \in Id : history[e] # "absent" =>
                  history'[e] # "absent" /\ content[e] \subseteq content'[e]
            /\ history'[d] # "absent"
        <5>1. CASE content' = content
          BY <1>r, <3>2, <5>1 DEF DrawerOK
        <5>2. CASE /\ d \in Local /\ history[d] = "absent"
                   /\ content' = [content EXCEPT ![d] = flight[f].items]
          BY <1>r, <3>2, <5>2 DEF DrawerOK, ServerOK
        <5> QED
          BY <3>2, <5>1, <5>2 DEF Remembers
      <4>2. Served \subseteq Served'
        BY <2>1, <4>1, ServedGrows
      <4>3. content'[d] \subseteq Served'
        BY <4>1 DEF Served
      <4>4. wanted \subseteq content'[d] \cup Served
        <5>1. CASE flight[f].reply = "ok" /\ d = flight[f].id /\ UNCHANGED content
          <6>1. flight[f].what = "order"
            BY <1>16, ReceiveOrderF
          <6> QED
            BY <1>t, <5>1, <6>1 DEF ServedInv
        <5>2. CASE content' = [content EXCEPT ![d] = flight[f].items]
          <6>1. flight[f].live /\ Ordering(f)
            BY <1>16, ReceiveOrderF DEF Ordering
          <6>2. wanted \subseteq flight[f].items \cup Served
            BY <1>t, <6>1 DEF ServedInv
          <6> QED
            BY <1>r, <5>2, <6>2 DEF ServerOK
        <5> QED
          BY <3>2, <5>1, <5>2 DEF Remembers
      <4> QED
        BY <1>s, <2>1, <4>1, <4>2, <4>3, <4>4
    <3> QED
      BY <1>16, <3>1, <3>2 DEF ReceiveOrder
  <2> QED
    BY <1>t, <2>1, <2>3, <2>4, <2>5, ServedFrame DEF FewerOrdering
<1>17. ASSUME NEW f \in Slot, NEW method \in {"PAYDUNYA", "OTHER"}, RunPayment(f, method)
       PROVE ServedInv'
  <2>1. /\ key' = key /\ open' = open /\ cart' = cart
        /\ UNCHANGED <<wanted, given, history, content, record, saving>>
    BY <1>17 DEF RunPayment, drawer, server, past
  <2>2. Served' = Served
    BY <2>1, ServedSame
  <2>3. Only(f)
    BY <1>17, RunPaymentF DEF Hears
  <2>4. FewerOrdering /\ KnownSettles /\ SentSettles
    <3>1. flight'[f].live /\ Ordering(f)' =>
               /\ flight[f].live /\ Ordering(f)
               /\ flight'[f].items = flight[f].items /\ KeyOf(f)' = KeyOf(f)
      BY <1>17, <2>1, RunPaymentF DEF Hears, Is, Quiet, Ordering, KeyOf
    <3>2. ~(flight'[f].what = "order" /\ flight'[f].reply = "ok")
      BY <1>17, RunPaymentF DEF Hears, Is, Quiet
    <3>3. ~Sent(f, "order")'
      BY <1>17, RunPaymentF DEF Hears, Is, Quiet, Sent
    <3> QED
      BY <2>1, <2>3, <3>1, <3>2, <3>3, OneSettles
  <2>5. HeardLess
    BY <2>1, <2>4, HeardFewer
  <2>6. AnswersSettle
    BY <2>1, AnswersStill
  <2> QED
    BY <1>t, <1>s, <2>1, <2>2, <2>4, <2>5, <2>6, ServedFrame DEF FewerOrdering
<1>18. ASSUME NEW f \in Slot, RepeatInvoice(f) PROVE ServedInv'
  <2>1. /\ key' = key /\ open' = open /\ cart' = cart
        /\ UNCHANGED <<wanted, given, history, content, record, saving>>
    BY <1>18 DEF RepeatInvoice, drawer, server, past
  <2>2. Served' = Served
    BY <2>1, ServedSame
  <2>3. Only(f)
    BY <1>18, InvoiceF DEF Hears
  <2>4. FewerOrdering /\ KnownSettles /\ SentSettles
    <3>1. flight'[f].live /\ Ordering(f)' =>
               /\ flight[f].live /\ Ordering(f)
               /\ flight'[f].items = flight[f].items /\ KeyOf(f)' = KeyOf(f)
      BY <1>18, <2>1, InvoiceF DEF Hears, Is, Quiet, Ordering, KeyOf
    <3>2. ~(flight'[f].what = "order" /\ flight'[f].reply = "ok")
      BY <1>18, InvoiceF DEF Hears, Is, Quiet
    <3>3. ~Sent(f, "order")'
      BY <1>18, InvoiceF DEF Hears, Is, Quiet, Sent
    <3> QED
      BY <2>1, <2>3, <3>1, <3>2, <3>3, OneSettles
  <2>5. HeardLess
    BY <2>1, <2>4, HeardFewer
  <2>6. AnswersSettle
    BY <2>1, AnswersStill
  <2> QED
    BY <1>t, <1>s, <2>1, <2>2, <2>4, <2>5, <2>6, ServedFrame DEF FewerOrdering
<1>19. ASSUME NEW f \in Slot, CreateInvoice(f) PROVE ServedInv'
  <2>1. /\ key' = key /\ open' = open /\ cart' = cart
        /\ UNCHANGED <<wanted, given, history, content, saving>>
    BY <1>19 DEF CreateInvoice, drawer, server, past
  <2>2. Served' = Served
    BY <2>1, ServedSame
  <2>3. Only(f)
    BY <1>19, InvoiceF DEF Hears
  <2>4. FewerOrdering /\ KnownSettles /\ SentSettles
    <3>1. flight'[f].live /\ Ordering(f)' =>
               /\ flight[f].live /\ Ordering(f)
               /\ flight'[f].items = flight[f].items /\ KeyOf(f)' = KeyOf(f)
      BY <1>19, <2>1, InvoiceF DEF Hears, Is, Quiet, Ordering, KeyOf
    <3>2. ~(flight'[f].what = "order" /\ flight'[f].reply = "ok")
      BY <1>19, InvoiceF DEF Hears, Is, Quiet
    <3>3. ~Sent(f, "order")'
      BY <1>19, InvoiceF DEF Hears, Is, Quiet, Sent
    <3> QED
      BY <2>1, <2>3, <3>1, <3>2, <3>3, OneSettles
  <2>5. HeardLess
    BY <2>1, <2>4, HeardFewer
  <2>6. AnswersSettle
    BY <1>19, <1>r, <2>1, IdIn DEF CreateInvoice, AnswersSettle, Answers, ServerOK
  <2> QED
    BY <1>t, <1>s, <2>1, <2>2, <2>4, <2>5, <2>6, ServedFrame DEF FewerOrdering
<1>20. ASSUME NEW f \in Slot, RefuseInvoice(f) PROVE ServedInv'
  <2>1. /\ key' = key /\ open' = open /\ cart' = cart
        /\ UNCHANGED <<wanted, given, history, content, record, saving>>
    BY <1>20 DEF RefuseInvoice, drawer, server, past
  <2>2. Served' = Served
    BY <2>1, ServedSame
  <2>3. Only(f)
    BY <1>20, InvoiceF DEF Hears
  <2>4. FewerOrdering /\ KnownSettles /\ SentSettles
    <3>1. flight'[f].live /\ Ordering(f)' =>
               /\ flight[f].live /\ Ordering(f)
               /\ flight'[f].items = flight[f].items /\ KeyOf(f)' = KeyOf(f)
      BY <1>20, <2>1, InvoiceF DEF Hears, Is, Quiet, Ordering, KeyOf
    <3>2. ~(flight'[f].what = "order" /\ flight'[f].reply = "ok")
      BY <1>20, InvoiceF DEF Hears, Is, Quiet
    <3>3. ~Sent(f, "order")'
      BY <1>20, InvoiceF DEF Hears, Is, Quiet, Sent
    <3> QED
      BY <2>1, <2>3, <3>1, <3>2, <3>3, OneSettles
  <2>5. HeardLess
    BY <2>1, <2>4, HeardFewer
  <2>6. AnswersSettle
    BY <2>1, AnswersStill
  <2> QED
    BY <1>t, <1>s, <2>1, <2>2, <2>4, <2>5, <2>6, ServedFrame DEF FewerOrdering
<1>21. ASSUME NEW f \in Slot, GoToPayDunya(f) PROVE ServedInv'
  <2>1. /\ key' = key /\ ~open' /\ cart' = cart
        /\ UNCHANGED <<wanted, given, history, content, record, saving>>
    BY <1>21, GoToPayDunyaF DEF GoToPayDunya, Goes, LeavePage, server, past
  <2>2. Served' = Served
    BY <2>1, ServedSame
  <2>3. FewerOrdering /\ KnownSettles /\ SentSettles
    BY <1>21, <2>1, GoToPayDunyaF
       DEF Goes, Is, Quiet, FewerOrdering, KnownSettles, SentSettles, KeyOf, Ordering, Sent
  <2>4. HeardLess /\ AnswersSettle
    BY <2>1, <2>3, HeardFewer, AnswersStill
  <2> QED
    BY <1>t, <1>s, <2>1, <2>2, <2>3, <2>4, ServedFrame DEF FewerOrdering
<1>22. ASSUME NEW f \in Slot, ReceiveInvoice(f) PROVE ServedInv'
  <2>1. /\ key' = key /\ open' = open /\ cart' = cart
        /\ UNCHANGED <<wanted, given, history, content, record, saving>>
    BY <1>22 DEF ReceiveInvoice, drawer, server, past
  <2>2. Served' = Served
    BY <2>1, ServedSame
  <2>3. Only(f)
    BY <1>22, ReceiveInvoiceF DEF Hears
  <2>4. FewerOrdering /\ KnownSettles /\ SentSettles
    <3>1. flight'[f].live /\ Ordering(f)' =>
               /\ flight[f].live /\ Ordering(f)
               /\ flight'[f].items = flight[f].items /\ KeyOf(f)' = KeyOf(f)
      BY <1>22, <2>1, ReceiveInvoiceF DEF Hears, Is, Quiet, Ordering, KeyOf
    <3>2. ~(flight'[f].what = "order" /\ flight'[f].reply = "ok")
      BY <1>22, ReceiveInvoiceF DEF Hears, Is, Quiet
    <3>3. ~Sent(f, "order")'
      BY <1>22, ReceiveInvoiceF DEF Hears, Is, Quiet, Sent
    <3> QED
      BY <2>1, <2>3, <3>1, <3>2, <3>3, OneSettles
  <2>5. HeardLess
    BY <2>1, <2>4, HeardFewer
  <2>6. AnswersSettle
    BY <2>1, AnswersStill
  <2> QED
    BY <1>t, <1>s, <2>1, <2>2, <2>4, <2>5, <2>6, ServedFrame DEF FewerOrdering
<1>23. ASSUME NEW f \in Slot, FireTimer(f) PROVE ServedInv'
  <2>1. /\ key' = key /\ open' = open /\ cart' = cart
        /\ UNCHANGED <<wanted, given, history, content, record, saving>>
    BY <1>23 DEF FireTimer, drawer, server, past
  <2>2. Served' = Served
    BY <2>1, ServedSame
  <2>3. Only(f)
    BY <1>23, FireTimerF DEF Hears
  <2>4. FewerOrdering /\ KnownSettles /\ SentSettles
    <3>1. flight'[f].live /\ Ordering(f)' =>
               /\ flight[f].live /\ Ordering(f)
               /\ flight'[f].items = flight[f].items /\ KeyOf(f)' = KeyOf(f)
      BY <1>23, <2>1, FireTimerF DEF Hears, Is, Quiet, Ordering, KeyOf
    <3>2. ~(flight'[f].what = "order" /\ flight'[f].reply = "ok")
      BY <1>23, FireTimerF DEF Hears, Is, Quiet
    <3>3. ~Sent(f, "order")'
      BY <1>23, FireTimerF DEF Hears, Is, Quiet, Sent
    <3> QED
      BY <2>1, <2>3, <3>1, <3>2, <3>3, OneSettles
  <2>5. HeardLess
    BY <2>1, <2>4, HeardFewer
  <2>6. AnswersSettle
    BY <2>1, AnswersStill
  <2> QED
    BY <1>t, <1>s, <2>1, <2>2, <2>4, <2>5, <2>6, ServedFrame DEF FewerOrdering
<1>24. ASSUME NEW f \in Slot, ReadPay(f) PROVE ServedInv'
  <2>1. /\ key' = key /\ open' = open /\ cart' = cart
        /\ UNCHANGED <<wanted, given, history, content, record, saving>>
    BY <1>24 DEF ReadPay, drawer, server, past
  <2>2. Served' = Served
    BY <2>1, ServedSame
  <2>3. Only(f)
    BY <1>24, ReadPayF DEF Hears
  <2>4. FewerOrdering /\ KnownSettles /\ SentSettles
    <3>1. flight'[f].live /\ Ordering(f)' =>
               /\ flight[f].live /\ Ordering(f)
               /\ flight'[f].items = flight[f].items /\ KeyOf(f)' = KeyOf(f)
      BY <1>24, <2>1, ReadPayF DEF Hears, Is, Quiet, Ordering, KeyOf
    <3>2. ~(flight'[f].what = "order" /\ flight'[f].reply = "ok")
      BY <1>24, ReadPayF DEF Hears, Is, Quiet
    <3>3. ~Sent(f, "order")'
      BY <1>24, ReadPayF DEF Hears, Is, Quiet, Sent
    <3> QED
      BY <2>1, <2>3, <3>1, <3>2, <3>3, OneSettles
  <2>5. HeardLess
    BY <2>1, <2>4, HeardFewer
  <2>6. AnswersSettle
    BY <2>1, AnswersStill
  <2> QED
    BY <1>t, <1>s, <2>1, <2>2, <2>4, <2>5, <2>6, ServedFrame DEF FewerOrdering
<1>25. ASSUME NEW f \in Slot, CommitPay(f) PROVE ServedInv'
  <2>1. /\ key' = key /\ open' = open /\ cart' = cart
        /\ UNCHANGED <<wanted, given, history, content, record, saving>>
    BY <1>25 DEF CommitPay, drawer, server, past
  <2>2. Served' = Served
    BY <2>1, ServedSame
  <2>3. Only(f)
    BY <1>25, CommitPayF DEF Hears
  <2>4. FewerOrdering /\ KnownSettles /\ SentSettles
    <3>1. flight'[f].live /\ Ordering(f)' =>
               /\ flight[f].live /\ Ordering(f)
               /\ flight'[f].items = flight[f].items /\ KeyOf(f)' = KeyOf(f)
      BY <1>25, <2>1, CommitPayF DEF Hears, Is, Quiet, Ordering, KeyOf
    <3>2. ~(flight'[f].what = "order" /\ flight'[f].reply = "ok")
      BY <1>25, CommitPayF DEF Hears, Is, Quiet
    <3>3. ~Sent(f, "order")'
      BY <1>25, CommitPayF DEF Hears, Is, Quiet, Sent
    <3> QED
      BY <2>1, <2>3, <3>1, <3>2, <3>3, OneSettles
  <2>5. HeardLess
    BY <2>1, <2>4, HeardFewer
  <2>6. AnswersSettle
    BY <2>1, AnswersStill
  <2> QED
    BY <1>t, <1>s, <2>1, <2>2, <2>4, <2>5, <2>6, ServedFrame DEF FewerOrdering
<1>26. ASSUME NEW f \in Slot, ReceivePay(f) PROVE ServedInv'
  <2>1. /\ key' = key /\ open' = open /\ cart' = cart
        /\ UNCHANGED <<wanted, given, content, record, saving>>
    BY <1>26 DEF ReceivePay, server
  <2>2. /\ Only(f) /\ Quiet(flight'[f]) /\ flight[f].id \in Id
    BY <1>26, ReceivePayF
  <2>3. FewerOrdering /\ KnownSettles /\ SentSettles
    BY <2>1, <2>2, OneSettles DEF Quiet, Is, Ordering, Sent
  <2>4. HeardLess /\ AnswersSettle
    BY <2>1, <2>3, HeardFewer, AnswersStill
  <2>5. \A e \in Id : history[e] # "absent" => history'[e] # "absent"
    <3>1. \/ history' = history
          \/ \E how \in {"cancelled", "paid"} : history' = [history EXCEPT ![flight[f].id] = how]
      BY <1>26 DEF ReceivePay
    <3> QED
      BY <1>r, <2>2, <3>1 DEF DrawerOK
  <2>6. Served \subseteq Served'
    BY <2>1, <2>5, ServedGrows
  <2> QED
    BY <1>t, <1>s, <2>1, <2>3, <2>4, <2>6, ServedFrame DEF FewerOrdering
<1>27. ASSUME NEW f \in Slot, NEW how \in {"error", "cut"}, FailFlight(f, how) PROVE ServedInv'
  <2>1. /\ key' = key /\ open' = open /\ cart' = cart
        /\ UNCHANGED <<wanted, given, history, content, record, saving>>
    BY <1>27 DEF FailFlight, drawer, server, past
  <2>2. Served' = Served
    BY <2>1, ServedSame
  <2>3. ASSUME NEW g \in Slot
        PROVE  \/ flight'[g] = flight[g]
               \/ /\ g = f /\ flight[f].live
                  /\ Is(flight'[f], flight[f].what, flight[f].key, flight[f].items,
                        IF flight[f].what = "order" THEN None ELSE flight[f].id,
                        flight[f].method, how, TRUE)
               \/ /\ flight[f].reply = "none"
                  /\ Is(flight'[g], flight[f].what, flight[f].key, flight[f].items, flight[f].id,
                        flight[f].method, "none", FALSE)
    BY <1>27, FailFlightF
  <2>4. FewerOrdering
    <3> SUFFICES ASSUME NEW g \in Slot, flight'[g].live, Ordering(g)'
                 PROVE  \E h \in Slot : /\ flight[h].live /\ Ordering(h)
                                        /\ flight'[g].items = flight[h].items
                                        /\ KeyOf(g)' = KeyOf(h)
      BY DEF FewerOrdering
    <3>1. CASE flight'[g] = flight[g]
      BY <2>1, <3>1 DEF KeyOf, Ordering
    <3>2. CASE flight'[g] # flight[g]
      <4>1. g = f /\ flight[f].live
        BY <2>3, <3>2 DEF Is
      <4>2. /\ flight'[f].what = flight[f].what /\ flight'[f].key = flight[f].key
            /\ flight'[f].items = flight[f].items
        BY <2>3, <3>2, <4>1 DEF Is
      <4> QED
        BY <2>1, <4>1, <4>2 DEF KeyOf, Ordering
    <3> QED
      BY <3>1, <3>2
  <2>5. KnownSettles
    BY <2>3 DEF KnownSettles, Is
  <2>6. SentSettles
    BY <2>3 DEF SentSettles, Is, Sent
  <2>7. HeardLess /\ AnswersSettle
    BY <2>1, <2>4, HeardFewer, AnswersStill
  <2> QED
    BY <1>t, <1>s, <2>1, <2>2, <2>4, <2>5, <2>6, <2>7, ServedFrame DEF FewerOrdering
<1>28. ASSUME NEW s \in saving, SaveRecord(s) PROVE ServedInv'
  <2>1. /\ key' = key /\ open' = open /\ cart' = cart
        /\ UNCHANGED <<wanted, given, history, content, flight>>
    BY <1>28 DEF SaveRecord, drawer
  <2>2. Served' = Served
    BY <2>1, ServedSame
  <2>3. FewerOrdering /\ KnownSettles /\ SentSettles
    BY <2>1, SameSettles
  <2>a. AnswersSettle
    BY <1>28, <1>r DEF SaveRecord, AnswersSettle, Answers, ServerOK
  <2>4. HeardLess
    BY <2>1, <2>3, HeardFewer
  <2> QED
    BY <1>t, <1>s, <2>1, <2>2, <2>3, <2>a, <2>4, ServedFrame DEF FewerOrdering
<1>29. CASE LoseRecord
  <2>1. /\ key' = key /\ open' = open /\ cart' = cart
        /\ UNCHANGED <<wanted, given, history, content, flight>>
    BY <1>29 DEF LoseRecord, drawer
  <2>2. Served' = Served
    BY <2>1, ServedSame
  <2>3. FewerOrdering /\ KnownSettles /\ SentSettles
    BY <2>1, SameSettles
  <2>a. AnswersSettle
    <3>1. ASSUME NEW s \in saving, saving' = saving \ {s}, UNCHANGED record
          PROVE  AnswersSettle
      BY <3>1 DEF AnswersSettle, Answers
    <3>2. ASSUME NEW j \in Key, record' = [record EXCEPT ![j] = None], UNCHANGED saving
          PROVE  AnswersSettle
      BY <1>r, <3>2, IdIn DEF AnswersSettle, Answers, ServerOK
    <3> QED
      BY <1>29, <3>1, <3>2 DEF LoseRecord
  <2>4. HeardLess
    BY <2>1, <2>3, HeardFewer
  <2> QED
    BY <1>t, <1>s, <2>1, <2>2, <2>3, <2>a, <2>4, ServedFrame DEF FewerOrdering
<1>30. ASSUME NEW o \in Order, Elsewhere(o) PROVE ServedInv'
  <2>1. /\ key' = key /\ open' = open /\ cart' = cart
        /\ UNCHANGED <<wanted, given, history, content, record, saving, flight>>
    BY <1>30 DEF Elsewhere, Trouble, drawer, server, past
  <2>2. Served' = Served
    BY <2>1, ServedSame
  <2>3. FewerOrdering /\ KnownSettles /\ SentSettles /\ AnswersSettle
    BY <2>1, SameSettles, AnswersStill
  <2>4. HeardLess
    BY <2>1, <2>3, HeardFewer
  <2> QED
    BY <1>t, <1>s, <2>1, <2>2, <2>3, <2>4, ServedFrame DEF FewerOrdering
<1> QED
  BY <1>0, <1>1, <1>2, <1>3, <1>4, <1>5, <1>6, <1>7, <1>8, <1>9, <1>10, <1>11, <1>12, <1>13,
     <1>14, <1>15, <1>16, <1>17, <1>18, <1>19, <1>20, <1>21, <1>22, <1>23, <1>24, <1>25, <1>26,
     <1>27, <1>28, <1>29, <1>30 DEF StoreNext

\* The initial states satisfy the invariant.
LEMMA StoreStarts == StoreInit => StoreInv
<1> SUFFICES ASSUME StoreInit PROVE StoreInv
  OBVIOUS
<1> USE DEF StoreInit
<1>1. flight \in [Slot -> Flights] /\ \A f \in Slot : Quiet(flight[f])
  BY IdleFlight, IdleIs DEF Quiet, Is
<1>2. DrawerOK /\ ServerOK /\ PastOK
  <2>1. DrawerOK
    BY DEF DrawerOK
  <2>2. ServerOK
    BY DEF ServerOK
  <2>3. PastOK
    BY Bounds DEF PastOK
  <2> QED
    BY <2>1, <2>2, <2>3
<1>3. RequestsOK /\ \A f \in Slot : FlightInv(f)
  BY <1>1 DEF RequestsOK, FlightInv, Quiet, Is
<1>4. LedgerInv
  <2>1. \A f \in Slot : flight[f].items = {}
    BY <1>1 DEF Quiet, Is
  <2>2. \A d \in Id : content[d] = {}
    OBVIOUS
  <2>3. KeysInv /\ WantedInv
    BY <2>1 DEF KeysInv, WantedInv
  <2>4. OrdersInv
    BY IdIn DEF OrdersInv
  <2> QED
    BY <2>3, <2>4 DEF LedgerInv
<1>5. OnceInv
  BY <1>1, IdIn DEF OnceInv, BoughtOnce, Undecided, Sent, Quiet, Is
<1>6. ServedInv
  <2>1. CartServed
    BY DEF CartServed
  <2>2. \A f \in Slot : flight[f].what # "order" /\ ~flight[f].live
    BY <1>1 DEF Quiet, Is
  <2>3. \A k \in Key, p \in Order : ~Answers(k, p)
    BY IdIn DEF Answers
  <2> QED
    BY <2>1, <2>2, <2>3 DEF ServedInv, Sent
<1>7. ShownPaid /\ ScreenInv
  BY DEF ShownPaid, ScreenInv
<1> QED
  BY <1>2, <1>3, <1>4, <1>5, <1>6, <1>7 DEF StoreInv, StoreTypeOK

\* Every step keeps the invariant.
LEMMA StoreStep == StoreInv /\ [StoreNext]_storeVars => StoreInv'
BY TypedKept, OnceKept, ServedKept, ShownKept, ScreenKept DEF StoreInv, Typed

\* The inductive invariant holds throughout.
THEOREM StoreInvariant == StoreSpec => []StoreInv
BY StoreStarts, StoreStep, PTL DEF StoreSpec

\* The types hold of the page, of its requests, of the server and of the history.
THEOREM StoreTypes == StoreSpec => []StoreTypeOK
<1>1. StoreInv => StoreTypeOK
  BY DEF StoreInv
<1> QED
  BY <1>1, StoreInvariant, PTL

\* Nothing is in two orders, but what the key could not keep from being ordered again.
THEOREM NothingBoughtTwice == StoreSpec => []BoughtOnce
<1>1. StoreInv => BoughtOnce
  BY DEF StoreInv, OnceInv
<1> QED
  BY <1>1, StoreInvariant, PTL

\* What was put into the cart is in it, was taken out, or is in an order recorded.
THEOREM NothingForgotten == StoreSpec => []CartServed
<1>1. StoreInv => CartServed
  BY DEF StoreInv, ServedInv
<1> QED
  BY <1>1, StoreInvariant, PTL

\* A payment shown as made was made, or was taken for one as the code allows.
THEOREM PaymentsShown == StoreSpec => []ShownPaid
<1>1. StoreInv => ShownPaid
  BY DEF StoreInv
<1> QED
  BY <1>1, StoreInvariant, PTL

\* The waiting screen always has a way out.
THEOREM ScreensEnd == StoreSpec => []NotStuck
<1>1. StoreInv => NotStuck
  BY DEF StoreInv, ScreenInv, NotStuck
<1> QED
  BY <1>1, StoreInvariant, PTL
=============================================================================
