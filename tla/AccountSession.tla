---------------------------- MODULE AccountSession ----------------------------
(***************************************************************************)
(* One account: the codes sent to its e-mail address, its registration and *)
(* password resets with them, its password, and its session, which is the  *)
(* one refresh token the account row holds the hash of.                    *)
(*                                                                         *)
(* A member of Req is a slot for one HTTP request at a time.  Between what *)
(* a handler has checked and what it writes it waits for bcrypt, the token *)
(* signature or the database, and other requests come in.  The account of  *)
(* an administrator, which cannot be blocked, and social sign-in, which    *)
(* signs a token as a login does, are left out.                            *)
(***************************************************************************)
EXTENDS Integers

CONSTANTS
    Req,       \* slots for concurrent requests
    MaxTries,  \* OTP_MAX_ATTEMPTS (5)
    MaxCodes,  \* bound: codes sent
    MaxCalls   \* bound: requests in one behaviour

ASSUME SessionAssumption ==
    /\ MaxTries \in Nat \ {0}
    /\ MaxCodes \in Nat /\ MaxCalls \in Nat

Code == 1 .. MaxCodes      \* OtpCode rows, in the order of their creation
Purpose == {"REGISTER", "RESET_PASSWORD"}
RowState == {"none", "live", "expired", "consumed"}

Token == 1 .. MaxCalls     \* refresh tokens, one a request at most

Job == [op: {"none", "login", "refresh", "change", "issue", "otp"},
        purpose: Purpose, code: Nat, right: BOOLEAN, token: Nat, pw: Nat, stray: BOOLEAN]
NoJob == [op |-> "none", purpose |-> "REGISTER", code |-> 0, right |-> FALSE,
          token |-> 0, pw |-> 0, stray |-> FALSE]

VARIABLES
    exists,     \* there is a User row
    blocked,    \* User.status is BLOCKED
    pw,         \* User.password: how often it has been set
    hash,       \* User.refreshTokenHash: which token, 0 for null
    row,        \* OtpCode: expiresAt and consumedAt
    purpose,    \* OtpCode.purpose
    attempts,   \* OtpCode.attempts
    sent,       \* codes created so far
    pc,         \* where each request is
    job,        \* what it does, and has read
    calls,
    signed,     \* history: tokens signed
    under,      \* history: the password the session was opened with
    stray,      \* history: the session comes from a request that was overtaken
    exchanged,  \* history: how often each token was exchanged for another
    forked,     \* history: tokens exchanged at the same time, or signed twice
    served,     \* history: how often each code has let a password be set
    shared,     \* history: codes two requests were checked against at the same time
    crossed,    \* history: two codes were being issued at the same time
    overtaken   \* history: requests under way when the account was written

accountVars == <<exists, blocked, pw, hash>>
codeVars == <<row, purpose, attempts, sent>>
sessionVars == <<signed, under, stray, exchanged, forked>>
requestVars == <<pc, job>>
vars == <<accountVars, codeVars, sessionVars, requestVars, calls, served, shared, crossed,
          overtaken>>

At(r, where) == pc[r] = where

Begin(r, where, j) ==
    /\ At(r, "idle")
    /\ calls < MaxCalls
    /\ calls' = calls + 1
    /\ pc' = [pc EXCEPT ![r] = where]
    /\ job' = [job EXCEPT ![r] = j]

Go(r, where) == pc' = [pc EXCEPT ![r] = where] /\ UNCHANGED job

Finish(r) ==
    /\ pc' = [pc EXCEPT ![r] = "idle"]
    /\ job' = [job EXCEPT ![r] = NoJob]

\* The requests that have checked an account which is then written.
Overtakes(r) == overtaken' = {q \in Req \ {r} : ~At(q, "idle")}

\* The request dies with what it has written so far.
Fail(r) ==
    /\ ~At(r, "idle")
    /\ Finish(r)
    /\ overtaken' = overtaken \ {r}
    /\ UNCHANGED <<accountVars, codeVars, sessionVars, calls, served, shared, crossed>>

-----------------------------------------------------------------------------
(* Codes *)

\* forgotPassword is for an account that exists, sendRegistrationCode for one that
\* does not.
CurrentPurpose == IF exists THEN "RESET_PASSWORD" ELSE "REGISTER"

Unconsumed(p) == {c \in Code : purpose[c] = p /\ row[c] \in {"live", "expired"}}

\* issueOtp invalidates the codes before.
Invalidated(p) == Unconsumed(p)

StartIssue(r) ==
    /\ sent < MaxCodes
    /\ Begin(r, "issuing", [NoJob EXCEPT !.op = "issue", !.purpose = CurrentPurpose])
    /\ row' = [c \in Code |-> IF c \in Invalidated(CurrentPurpose) THEN "expired" ELSE row[c]]
    /\ crossed' = (crossed \/ \E q \in Req : job[q].op = "issue")
    /\ UNCHANGED <<accountVars, purpose, attempts, sent, sessionVars, served, shared,
                   overtaken>>

CreateCode(r) ==
    /\ At(r, "issuing")
    /\ sent < MaxCodes
    /\ sent' = sent + 1
    /\ row' = [row EXCEPT ![sent + 1] = "live"]
    /\ purpose' = [purpose EXCEPT ![sent + 1] = job[r].purpose]
    /\ Finish(r)
    /\ overtaken' = overtaken \ {r}
    /\ UNCHANGED <<accountVars, attempts, sessionVars, calls, served, shared, crossed>>

\* Ten minutes have passed.
ExpireCode(c) ==
    /\ row[c] = "live"
    /\ row' = [row EXCEPT ![c] = "expired"]
    /\ UNCHANGED <<accountVars, purpose, attempts, sent, sessionVars, requestVars, calls,
                   served, shared, crossed, overtaken>>

\* resetPassword and completeRegistration: a code that can still be tried.
Triable(c) == row[c] = "live" /\ attempts[c] < MaxTries

\* The code is checked against the newest that is not consumed.
StartCode(r, c, right) ==
    /\ c \in Unconsumed(CurrentPurpose) /\ \A d \in Unconsumed(CurrentPurpose) : d <= c
    /\ Triable(c)
    /\ Begin(r, "checked", [NoJob EXCEPT !.op = "otp", !.purpose = CurrentPurpose,
                                         !.code = c, !.right = right])
    /\ shared' = IF \E q \in Req : job[q].op = "otp" /\ job[q].code = c
                   THEN shared \cup {c} ELSE shared
    /\ UNCHANGED <<accountVars, codeVars, sessionVars, served, crossed, overtaken>>

CountedUp(n) == n + 1

WrongCode(r) ==
    /\ At(r, "checked") /\ ~job[r].right
    /\ attempts' = [attempts EXCEPT ![job[r].code] = CountedUp(@)]
    /\ Finish(r)
    /\ overtaken' = overtaken \ {r}
    /\ UNCHANGED <<accountVars, row, purpose, sent, sessionVars, calls, served, shared, crossed>>

\* Variant: the row is not marked.
Unmarked == "live"

MarkedUsed == "consumed"

\* The row is marked, whatever has become of it; a registration checks first that
\* there is no account by now.
ConsumeCode(r) ==
    /\ At(r, "checked") /\ job[r].right
    /\ job[r].purpose = CurrentPurpose
    /\ row' = [row EXCEPT ![job[r].code] = MarkedUsed]
    /\ Go(r, "consumed")
    /\ UNCHANGED <<accountVars, purpose, attempts, sent, sessionVars, calls, served, shared,
                   crossed, overtaken>>

-----------------------------------------------------------------------------
(* The password *)

\* Variant: the session outlives the password.
HashKept == hash

\* A new password ends the session.
HashCleared == 0

\* resetPassword, its last write.
ResetPassword(r) ==
    /\ At(r, "consumed") /\ job[r].purpose = "RESET_PASSWORD"
    /\ pw' = pw + 1
    /\ hash' = HashCleared
    /\ served' = [served EXCEPT ![job[r].code] = @ + 1]
    /\ Overtakes(r)
    /\ Finish(r)
    /\ UNCHANGED <<exists, blocked, codeVars, sessionVars, calls, shared, crossed>>

\* completeRegistration, its last write; the address is unique.  The new account's
\* session comes with it.
Register(r) ==
    /\ At(r, "consumed") /\ job[r].purpose = "REGISTER"
    /\ ~exists
    /\ exists' = TRUE
    /\ pw' = pw + 1
    /\ served' = [served EXCEPT ![job[r].code] = @ + 1]
    /\ pc' = [pc EXCEPT ![r] = "signing"]
    /\ job' = [job EXCEPT ![r] = [NoJob EXCEPT !.op = "login", !.pw = pw + 1]]
    /\ Overtakes(r)
    /\ UNCHANGED <<blocked, hash, codeVars, sessionVars, calls, shared, crossed>>

\* changePassword has compared the current one, and sets the new one.
StartChange(r) ==
    /\ exists
    /\ Begin(r, "hashing", [NoJob EXCEPT !.op = "change"])
    /\ UNCHANGED <<accountVars, codeVars, sessionVars, served, shared, crossed, overtaken>>

ChangePassword(r) ==
    /\ At(r, "hashing")
    /\ pw' = pw + 1
    /\ hash' = HashCleared
    /\ Overtakes(r)
    /\ Finish(r)
    /\ UNCHANGED <<exists, blocked, codeVars, sessionVars, calls, served, shared, crossed>>

-----------------------------------------------------------------------------
(* The session *)

\* login has compared the password.
StartLogin(r) ==
    /\ exists /\ ~blocked
    /\ Begin(r, "signing", [NoJob EXCEPT !.op = "login", !.pw = pw])
    /\ UNCHANGED <<accountVars, codeVars, sessionVars, served, shared, crossed, overtaken>>

\* Variant: any token that was signed for the account.
EverSigned(t) == t \in 1 .. signed

\* The token whose hash the account holds.
CurrentToken(t) == t # 0 /\ t = hash

\* refresh.
StartRefresh(r, t) ==
    /\ CurrentToken(t) /\ ~blocked
    /\ Begin(r, "signing", [NoJob EXCEPT !.op = "refresh", !.token = t, !.pw = under,
                                         !.stray = stray])
    /\ forked' = IF \E q \in Req : job[q].op = "refresh" /\ job[q].token = t
                   THEN forked \cup {t} ELSE forked
    /\ UNCHANGED <<accountVars, codeVars, signed, under, stray, exchanged, served, shared,
                   crossed, overtaken>>

\* buildAuthResponse: the token's hash replaces the account's.  Two tokens signed in
\* the same second are the same.
SignTokens(r, same) ==
    /\ At(r, "signing")
    /\ LET new == IF same THEN signed ELSE signed + 1 IN
         /\ same => signed > 0
         /\ signed' = new
         /\ hash' = new
         /\ forked' = IF same THEN forked \cup {new} ELSE forked
    /\ exchanged' = IF job[r].op = "refresh" THEN [exchanged EXCEPT ![job[r].token] = @ + 1]
                                             ELSE exchanged
    /\ under' = job[r].pw
    /\ stray' = (r \in overtaken \/ job[r].stray)
    /\ Finish(r)
    /\ overtaken' = overtaken \ {r}
    /\ UNCHANGED <<exists, blocked, pw, codeVars, calls, served, shared, crossed>>

\* logout, and updateProfile with a new address.
Logout ==
    /\ exists
    /\ hash' = 0
    /\ UNCHANGED <<exists, blocked, pw, codeVars, sessionVars, requestVars, calls, served,
                   shared, crossed, overtaken>>

\* Blocking ends the session.
SessionAfter(b) == IF b THEN 0 ELSE hash

\* setUserStatus, the admin's.
SetUserStatus(b) ==
    /\ exists
    /\ blocked' = b
    /\ hash' = SessionAfter(b)
    /\ overtaken' = {q \in Req : ~At(q, "idle")}
    /\ UNCHANGED <<exists, pw, codeVars, sessionVars, requestVars, calls, served, shared, crossed>>

-----------------------------------------------------------------------------

Init ==
    /\ exists = FALSE
    /\ blocked = FALSE
    /\ pw = 0
    /\ hash = 0
    /\ row = [c \in Code |-> "none"]
    /\ purpose = [c \in Code |-> "REGISTER"]
    /\ attempts = [c \in Code |-> 0]
    /\ sent = 0
    /\ pc = [r \in Req |-> "idle"]
    /\ job = [r \in Req |-> NoJob]
    /\ calls = 0
    /\ signed = 0
    /\ under = 0
    /\ stray = FALSE
    /\ exchanged = [t \in Token |-> 0]
    /\ forked = {}
    /\ served = [c \in Code |-> 0]
    /\ shared = {}
    /\ crossed = FALSE
    /\ overtaken = {}

Request(r) ==
    \/ StartIssue(r)
    \/ CreateCode(r)
    \/ \E c \in Code, right \in BOOLEAN : StartCode(r, c, right)
    \/ WrongCode(r)
    \/ ConsumeCode(r)
    \/ ResetPassword(r)
    \/ Register(r)
    \/ StartChange(r)
    \/ ChangePassword(r)
    \/ StartLogin(r)
    \/ \E t \in Token : StartRefresh(r, t)
    \/ \E same \in BOOLEAN : SignTokens(r, same)
    \/ Fail(r)

Next ==
    \/ \E r \in Req : Request(r)
    \/ \E c \in Code : ExpireCode(c)
    \/ Logout
    \/ \E b \in BOOLEAN : SetUserStatus(b)

Spec == Init /\ [][Next]_vars

-----------------------------------------------------------------------------
(* Properties *)

\* Types.
TypeOK ==
    /\ exists \in BOOLEAN /\ blocked \in BOOLEAN
    /\ pw \in Nat /\ hash \in Nat
    /\ row \in [Code -> RowState]
    /\ purpose \in [Code -> Purpose]
    /\ attempts \in [Code -> Nat]
    /\ sent \in 0 .. MaxCodes
    /\ pc \in [Req -> {"idle", "issuing", "checked", "consumed", "hashing", "signing"}]
    /\ job \in [Req -> Job]
    /\ calls \in Nat
    /\ signed \in Nat /\ under \in Nat
    /\ stray \in BOOLEAN
    /\ exchanged \in [Token -> Nat]
    /\ forked \in SUBSET Nat
    /\ served \in [Code -> Nat]
    /\ shared \in SUBSET Code
    /\ crossed \in BOOLEAN
    /\ overtaken \in SUBSET Req

\* One code at most can be used for each purpose, unless two were being issued at the
\* same time.
OneLiveCode ==
    \A c, d \in Code : row[c] = "live" /\ row[d] = "live" /\ purpose[c] = purpose[d] =>
        c = d \/ crossed

\* A code lets one password be set, unless two requests were checked against it at the
\* same time.
CodeServesOnce == \A c \in Code : served[c] <= 1 \/ c \in shared

\* A code takes OTP_MAX_ATTEMPTS wrong answers, unless two requests were checked
\* against it at the same time.
TriesBounded == \A c \in Code : attempts[c] <= MaxTries \/ c \in shared

\* What a code sent by mail promises: it is the only one, it serves once, and it takes
\* few guesses.
CodesHold ==
    /\ OneLiveCode
    /\ CodeServesOnce
    /\ TriesBounded

\* A token is exchanged once, unless two requests exchanged it at the same time, or it
\* was signed twice.
RefreshOnce == \A t \in Token : exchanged[t] <= 1 \/ t \in forked

\* A session was opened with the password the account has, unless the password changed
\* while the session was being signed.
SessionOfPassword == hash # 0 => under = pw \/ stray

\* A blocked account has no session, unless it was blocked while one was being signed.
BlockedOut == blocked /\ hash # 0 => stray

\* A new password and a block end the session the account had.
SessionsRevoked ==
    /\ SessionOfPassword
    /\ BlockedOut

-----------------------------------------------------------------------------
(* The inductive invariant behind these properties *)

\* A request has been checked against this code.
Trying(r, c) == job[r].op = "otp" /\ job[r].code = c

\* A token that was not forked has been exchanged, or still can be.
TokenInv(t) ==
    /\ t > signed => exchanged[t] = 0 /\ t \notin forked
    /\ t \notin forked =>
          /\ exchanged[t] <= 1
          /\ t = hash => exchanged[t] = 0
          /\ \A r \in Req : job[r].op = "refresh" /\ job[r].token = t => exchanged[t] = 0
          /\ \A q, r \in Req : /\ job[q].op = "refresh" /\ job[q].token = t
                               /\ job[r].op = "refresh" /\ job[r].token = t
                               => q = r

\* A code that is not shared has served, or still can.
CodeInv(c) ==
    /\ c > sent <=> row[c] = "none"
    /\ row[c] = "none" => attempts[c] = 0 /\ served[c] = 0
    /\ c \notin shared =>
          /\ served[c] <= 1
          /\ served[c] = 1 => row[c] = "consumed"
          /\ attempts[c] <= MaxTries
          /\ \A q, r \in Req : Trying(q, c) /\ Trying(r, c) => q = r
          /\ \A r \in Req : Trying(r, c) =>
                /\ served[c] = 0
                /\ At(r, "checked") => attempts[c] < MaxTries
                /\ At(r, "consumed") => row[c] = "consumed"

\* What is known of a request.
RequestInv(r) ==
    LET j == job[r] IN
      /\ At(r, "idle") <=> j.op = "none"
      /\ At(r, "idle") => r \notin overtaken
      /\ At(r, "issuing") <=> j.op = "issue"
      /\ pc[r] \in {"checked", "consumed"} <=> j.op = "otp"
      /\ At(r, "signing") <=> j.op \in {"login", "refresh"}
      /\ j.op = "otp" => j.code \in 1 .. sent
      /\ j.op = "refresh" => j.token \in 1 .. signed
      /\ At(r, "signing") => exists
      /\ At(r, "signing") => j.pw = pw \/ j.stray \/ r \in overtaken
      /\ At(r, "signing") /\ blocked => r \in overtaken
      /\ At(r, "issuing") =>
            crossed \/ \A c \in Code : row[c] = "live" => purpose[c] # j.purpose

IInv ==
    /\ TypeOK
    /\ OneLiveCode
    /\ SessionOfPassword
    /\ BlockedOut
    /\ hash <= signed
    /\ ~exists => ~blocked /\ hash = 0
    /\ \A q, r \in Req : job[q].op = "issue" /\ job[r].op = "issue" => q = r \/ crossed
    /\ \A t \in Token : TokenInv(t)
    /\ \A c \in Code : CodeInv(c)
    /\ \A r \in Req : RequestInv(r)
=============================================================================
