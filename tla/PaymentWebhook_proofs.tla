------------------------ MODULE PaymentWebhook_proofs ------------------------
EXTENDS PaymentWebhook, TLAPS

Stage == {"idle", "invoicing", "keeping", "settling", "paying", "saving", "answering"}

-----------------------------------------------------------------------------
(* Requests *)

LEMMA JobTypes ==
    NoJob \in Job /\ NoJob.op = "none" /\ NoJob.reply = "ignored" /\ NoJob.key = None
  BY DEF NoJob, Job, Outcome, Reply

CheckoutOf(o, k) == [NoJob EXCEPT !.op = "checkout", !.order = o, !.key = k]
NoticeOf(i, s) == [NoJob EXCEPT !.op = "ipn", !.invoice = i, !.said = s]
ReturnOf(i) == [NoJob EXCEPT !.op = "confirm", !.invoice = i]

LEMMA CheckoutJob ==
    ASSUME NEW o \in Order, NEW k \in Key \cup {None}
    PROVE  /\ CheckoutOf(o, k) \in Job /\ CheckoutOf(o, k).op = "checkout"
           /\ CheckoutOf(o, k).order = o /\ CheckoutOf(o, k).key = k
  BY DEF CheckoutOf, NoJob, Job, Outcome, Reply

LEMMA NoticeJob ==
    ASSUME NEW i \in Invoice, NEW s \in Outcome
    PROVE  /\ NoticeOf(i, s) \in Job /\ NoticeOf(i, s).op = "ipn"
           /\ NoticeOf(i, s).invoice = i /\ NoticeOf(i, s).said = s
           /\ NoticeOf(i, s).reply = "ignored"
  BY DEF NoticeOf, NoJob, Job, Outcome, Reply

LEMMA ReturnJob ==
    ASSUME NEW i \in Invoice
    PROVE  /\ ReturnOf(i) \in Job /\ ReturnOf(i).op = "confirm" /\ ReturnOf(i).invoice = i
  BY DEF ReturnOf, NoJob, Job, Outcome, Reply

LEMMA FinishFacts ==
    ASSUME TypeOK, NEW r \in Req, Finish(r)
    PROVE  /\ pc' \in [Req -> Stage] /\ job' \in [Req -> Job]
           /\ pc'[r] = "idle" /\ job'[r] = NoJob
           /\ \A q \in Req : q # r => pc'[q] = pc[q] /\ job'[q] = job[q]
<1>1. NoJob \in Job
  BY JobTypes
<1>. QED BY <1>1 DEF TypeOK, Finish, Stage

LEMMA GoFacts ==
    ASSUME TypeOK, NEW r \in Req, NEW w \in Stage, Go(r, w)
    PROVE  /\ pc' \in [Req -> Stage] /\ job' \in [Req -> Job]
           /\ pc'[r] = w /\ job'[r] = job[r]
           /\ \A q \in Req : q # r => pc'[q] = pc[q] /\ job'[q] = job[q]
  BY DEF TypeOK, Go, Stage

LEMMA BeginFacts ==
    ASSUME TypeOK, NEW r \in Req, NEW w \in Stage, NEW j \in Job,
           pc' = [pc EXCEPT ![r] = w], job' = [job EXCEPT ![r] = j]
    PROVE  /\ pc' \in [Req -> Stage] /\ job' \in [Req -> Job]
           /\ pc'[r] = w /\ job'[r] = j
           /\ \A q \in Req : q # r => pc'[q] = pc[q] /\ job'[q] = job[q]
  BY DEF TypeOK, Stage

\* A settlement that is done: the webhook's request goes on to record its reply.
LEMMA SettledFacts ==
    ASSUME TypeOK, NEW r \in Req, Settled(r)
    PROVE  /\ pc' \in [Req -> Stage] /\ job' \in [Req -> Job]
           /\ IF job[r].op = "ipn"
                THEN /\ pc'[r] = "saving" /\ job'[r].op = "ipn"
                     /\ job'[r].reply = "order_paid" /\ job'[r].invoice = job[r].invoice
                     /\ job'[r].said = job[r].said /\ job'[r].key = job[r].key
                ELSE pc'[r] = "idle" /\ job'[r] = NoJob
           /\ \A q \in Req : q # r => pc'[q] = pc[q] /\ job'[q] = job[q]
<1>1. CASE job[r].op = "ipn"
  BY <1>1 DEF TypeOK, Settled, SettlementReply, Stage, Job, Reply
<1>2. CASE job[r].op # "ipn"
  <2>1. Finish(r)
    BY <1>2 DEF Settled
  <2>. QED BY <2>1, <1>2, FinishFacts
<1>. QED BY <1>1, <1>2

-----------------------------------------------------------------------------
(* The invariant *)

OrderInv == \A o \in Order : status[o] = "PAID" => o \in settled

LEMMA InvJoin ==
    ASSUME TypeOK', RecordTruthful', NotificationKept', InvoicePerKey', OrderInv',
           \A i \in Invoice : InvoiceInv(i)', \A r \in Req : RequestInv(r)',
           \A k \in Key : KeyInv(k)'
    PROVE  IInv'
  BY DEF IInv, OrderInv

LEMMA InvSplit ==
    ASSUME IInv
    PROVE  /\ TypeOK /\ RecordTruthful /\ NotificationKept /\ InvoicePerKey /\ OrderInv
           /\ \A i \in Invoice : InvoiceInv(i)
           /\ \A r \in Req : RequestInv(r)
           /\ \A k \in Key : KeyInv(k)
  BY DEF IInv, OrderInv

\* The checkouts that are under way.
LEMMA CheckoutKept ==
    ASSUME TypeOK, NEW r \in Req, \A k \in Key : KeyInv(k),
           \A q \in Req : RequestInv(q), job[r].op # "checkout", job'[r].op # "checkout",
           \A q \in Req : q # r => pc'[q] = pc[q] /\ job'[q] = job[q],
           UNCHANGED <<keyed, keyOf>>, loose \subseteq loose'
    PROVE  \A k \in Key : KeyInv(k)'
  BY DEF KeyInv, Using, RequestInv, At

LEMMA Initially == Init => IInv
<1>. SUFFICES ASSUME Init PROVE IInv
  OBVIOUS
<1>1. NoJob \in Job /\ NoJob.op = "none"
  BY JobTypes
<1>2. TypeOK
  BY <1>1 DEF Init, TypeOK, OrderStatus, Outcome
<1>3. \A r \in Req : RequestInv(r)
  BY <1>1 DEF Init, RequestInv, At
<1>4. (\A i \in Invoice : InvoiceInv(i)) /\ \A k \in Key : KeyInv(k)
  BY <1>1, WebhookAssumption DEF Init, InvoiceInv, KeyInv, Using, At
<1>5. RecordTruthful /\ NotificationKept /\ InvoicePerKey
  BY WebhookAssumption DEF Init, RecordTruthful, NotificationKept, InvoicePerKey, Reply
<1>. QED BY <1>2, <1>3, <1>4, <1>5 DEF IInv, Init

-----------------------------------------------------------------------------
(* Checkouts *)

LEMMA StartCheckoutStep ==
    ASSUME IInv, NEW r \in Req, NEW o \in Order, NEW k \in Key \cup {None},
           StartCheckout(r, o, k)
    PROVE  IInv'
<1>. USE DEF StartCheckout, externalVars, recordVars, boundVars
<1>1. /\ TypeOK /\ \A q \in Req : RequestInv(q)
      /\ \A x \in Key : KeyInv(x)
  BY InvSplit
<1>2. /\ pc' \in [Req -> Stage] /\ job' \in [Req -> Job]
      /\ pc'[r] = "invoicing" /\ job'[r].op = "checkout"
      /\ job'[r].order = o /\ job'[r].key = k
      /\ \A q \in Req : q # r => pc'[q] = pc[q] /\ job'[q] = job[q]
  <2>1. pc' = [pc EXCEPT ![r] = "invoicing"] /\ job' = [job EXCEPT ![r] = CheckoutOf(o, k)]
    BY DEF CheckoutOf
  <2>2. /\ CheckoutOf(o, k) \in Job /\ CheckoutOf(o, k).op = "checkout"
        /\ CheckoutOf(o, k).order = o /\ CheckoutOf(o, k).key = k
    BY CheckoutJob
  <2>. HIDE DEF StartCheckout
  <2>. QED BY <1>1, <2>1, <2>2 DEF TypeOK, Stage
<1>3. TypeOK'
  BY <1>1, <1>2 DEF TypeOK, Stage
<1>4. RecordTruthful' /\ NotificationKept' /\ OrderInv'
  BY InvSplit DEF RecordTruthful, NotificationKept, OrderInv
<1>5. InvoicePerKey'
  <2>1. loose \subseteq loose'
    BY DEF TypeOK
  <2>. QED BY <2>1, InvSplit DEF InvoicePerKey
<1>6. \A i \in Invoice : InvoiceInv(i)'
  BY InvSplit DEF InvoiceInv
<1>7. \A q \in Req : RequestInv(q)'
  <2>1. RequestInv(r)'
    BY <1>2, WebhookAssumption DEF RequestInv, At
  <2>2. ASSUME NEW q \in Req, q # r PROVE RequestInv(q)'
    BY <1>1, <1>2, <2>2 DEF RequestInv, At
  <2>. QED BY <2>1, <2>2
<1>8. \A x \in Key : KeyInv(x)'
  <2>. SUFFICES ASSUME NEW x \in Key, x \notin loose' PROVE KeyInv(x)'
    BY DEF KeyInv
  <2>1. x \notin loose /\ KeyInv(x)
    BY <1>1
  <2>2. job[r].op # "checkout"
    BY <1>1 DEF RequestInv, At
  <2>3. CASE x # k
    BY <1>2, <2>1, <2>2, <2>3 DEF KeyInv, Using, At
  <2>4. CASE x = k
    <3>1. \A q \in Req : ~Using(q, x)
      BY <2>1, <2>4, WebhookAssumption DEF Using
    <3>2. \A i \in Invoice : keyOf[i] # x
      <4>1. keyed[x] = None
        BY <2>4 DEF KeyFree
      <4>. QED BY <2>1, <3>1, <4>1, WebhookAssumption DEF KeyInv
    <3>3. \A q \in Req : Using(q, x)' => q = r
      BY <1>2, <3>1 DEF Using
    <3>. QED BY <3>2, <3>3 DEF KeyInv
  <2>. QED BY <2>3, <2>4
<1>. QED BY <1>3, <1>4, <1>5, <1>6, <1>7, <1>8, InvJoin

LEMMA CreateInvoiceStep ==
    ASSUME IInv, NEW r \in Req, CreateInvoice(r)
    PROVE  IInv'
<1>1. /\ TypeOK /\ \A q \in Req : RequestInv(q)
      /\ \A x \in Key : KeyInv(x)
  BY InvSplit
<1>. DEFINE k == job[r].key
<1>2. PICK n \in Invoice :
         /\ owner[n] = None
         /\ owner' = [owner EXCEPT ![n] = job[r].order]
         /\ keyOf' = [keyOf EXCEPT ![n] = job[r].key]
         /\ IF job[r].key = None THEN Finish(r)
              ELSE /\ pc' = [pc EXCEPT ![r] = "keeping"]
                   /\ job' = [job EXCEPT ![r].invoice = n]
  BY DEF CreateInvoice
<1>3. /\ UNCHANGED <<status, externalVars, recordVars, boundVars, credits, settled, masked, loose>>
      /\ At(r, "invoicing")
  BY DEF CreateInvoice
<1>4. /\ job[r] \in Job /\ job[r].op = "checkout" /\ job[r].order \in Order
      /\ k \in Key \cup {None}
  BY <1>1, <1>3 DEF TypeOK, RequestInv, At, Job
<1>5. /\ pc' \in [Req -> Stage] /\ job' \in [Req -> Job]
      /\ IF k = None THEN pc'[r] = "idle" /\ job'[r] = NoJob
           ELSE /\ pc'[r] = "keeping" /\ job'[r].op = "checkout"
                /\ job'[r].key = k /\ job'[r].invoice = n /\ job'[r].reply = job[r].reply
      /\ \A q \in Req : q # r => pc'[q] = pc[q] /\ job'[q] = job[q]
  <2>1. CASE k = None
    BY <1>1, <1>2, <2>1, FinishFacts
  <2>2. CASE k # None
    <3>1. /\ pc' = [pc EXCEPT ![r] = "keeping"]
          /\ job' = [job EXCEPT ![r] = [job[r] EXCEPT !.invoice = n]]
      BY <1>2, <2>2
    <3>2. /\ [job[r] EXCEPT !.invoice = n] \in Job
          /\ [job[r] EXCEPT !.invoice = n].op = job[r].op
          /\ [job[r] EXCEPT !.invoice = n].key = k
          /\ [job[r] EXCEPT !.invoice = n].invoice = n
          /\ [job[r] EXCEPT !.invoice = n].reply = job[r].reply
      BY <1>4 DEF Job
    <3>3. /\ pc' \in [Req -> Stage] /\ job' \in [Req -> Job]
          /\ pc'[r] = "keeping" /\ job'[r] = [job[r] EXCEPT !.invoice = n]
          /\ \A q \in Req : q # r => pc'[q] = pc[q] /\ job'[q] = job[q]
      BY <1>1, <3>1, <3>2 DEF TypeOK, Stage
    <3>. QED BY <1>4, <2>2, <3>2, <3>3
  <2>. QED BY <2>1, <2>2
<1>6. /\ owner[n] = None /\ owner' \in [Invoice -> Order \cup {None}]
      /\ owner'[n] = job[r].order /\ keyOf'[n] = k
      /\ keyOf' \in [Invoice -> Key \cup {None}]
      /\ \A i \in Invoice : i # n => owner'[i] = owner[i] /\ keyOf'[i] = keyOf[i]
  BY <1>1, <1>2, <1>4 DEF TypeOK
<1>7. outcome[n] = "pending" /\ record[n] = None /\ keyOf[n] = None
  BY <1>6, InvSplit DEF InvoiceInv
<1>8. TypeOK'
  BY <1>1, <1>3, <1>5, <1>6 DEF TypeOK, Stage, externalVars, recordVars, boundVars
<1>9. RecordTruthful' /\ NotificationKept' /\ OrderInv'
  BY <1>3, <1>6, <1>7, InvSplit, WebhookAssumption
     DEF RecordTruthful, NotificationKept, OrderInv, externalVars, recordVars, Reply
<1>10. \A i \in Invoice : InvoiceInv(i)'
  BY <1>3, <1>4, <1>6, <1>7, InvSplit, WebhookAssumption
     DEF InvoiceInv, externalVars, recordVars
<1>11. \A q \in Req : RequestInv(q)'
  <2>1. RequestInv(r)'
    BY <1>5, <1>6, JobTypes, WebhookAssumption DEF RequestInv, At
  <2>2. ASSUME NEW q \in Req, q # r PROVE RequestInv(q)'
    <3>1. RequestInv(q) /\ job[q] \in Job
      BY <1>1 DEF TypeOK
    <3>2. job[q].invoice = n => /\ job[q].op \notin {"ipn", "confirm"}
                                /\ pc[q] \in {"idle", "invoicing", "keeping"} => ~At(q, "keeping")
      BY <3>1, <1>6, <1>7 DEF RequestInv, At
    <3>3. job[q].invoice \in Invoice \cup {None}
      BY <3>1 DEF Job
    <3>4. CASE job[q].invoice = n
      <4>1. pc[q] \in {"idle", "invoicing"}
        BY <3>1, <3>2, <3>4, <1>1 DEF RequestInv, At, TypeOK, Job
      <4>. QED BY <3>1, <3>2, <3>4, <4>1, <1>5, <2>2 DEF RequestInv, At
    <3>5. CASE job[q].invoice # n
      <4>1. job[q].invoice = None \/ /\ owner'[job[q].invoice] = owner[job[q].invoice]
                                     /\ keyOf'[job[q].invoice] = keyOf[job[q].invoice]
        BY <3>3, <3>5, <1>6
      <4>. QED BY <3>1, <4>1, <1>3, <1>5, <2>2 DEF RequestInv, At, externalVars
    <3>. QED BY <3>4, <3>5
  <2>. QED BY <2>1, <2>2
<1>12. InvoicePerKey'
  <2>. SUFFICES ASSUME NEW i \in Invoice, NEW j \in Invoice, keyOf'[i] = keyOf'[j],
                       keyOf'[i] # None, keyOf'[i] \notin loose, i # j
                PROVE  FALSE
    BY <1>3 DEF InvoicePerKey
  <2>1. CASE i # n /\ j # n
    BY <2>1, <1>6, InvSplit DEF InvoicePerKey
  <2>2. CASE i = n \/ j = n
    <3>1. k \in Key /\ k \notin loose /\ KeyInv(k)
      BY <2>2, <1>1, <1>4, <1>6
    <3>2. \A x \in Invoice : keyOf[x] # k
      BY <3>1, <1>3, <1>4 DEF KeyInv, Using
    <3>. QED BY <3>2, <2>2, <1>6
  <2>. QED BY <2>1, <2>2
<1>13. \A x \in Key : KeyInv(x)'
  <2>. SUFFICES ASSUME NEW x \in Key, x \notin loose PROVE KeyInv(x)'
    BY <1>3 DEF KeyInv
  <2>1. KeyInv(x) /\ keyed' = keyed
    BY <1>1, <1>3 DEF recordVars
  <2>2. CASE x # k
    BY <2>1, <2>2, <1>3, <1>4, <1>5, <1>6, JobTypes DEF KeyInv, Using, At
  <2>3. CASE x = k
    <3>1. k # None /\ Using(r, x)
      BY <2>3, <1>4, WebhookAssumption DEF Using
    <3>2. \A q \in Req : Using(q, x) => q = r
      BY <2>1, <3>1 DEF KeyInv
    <3>3. \A i \in Invoice : keyOf[i] # x
      BY <2>1, <3>1, <1>3 DEF KeyInv
    <3>4. \A q \in Req : Using(q, x)' => q = r
      BY <3>2, <1>5 DEF Using
    <3>5. /\ pc'[r] = "keeping" /\ Using(r, x)' /\ job'[r].invoice = n
      BY <3>1, <2>3, <1>5 DEF Using
    <3>6. \A i \in Invoice : keyOf'[i] = x => i = n
      BY <3>3, <1>6
    <3>. QED BY <3>4, <3>5, <3>6 DEF KeyInv, At
  <2>. QED BY <2>2, <2>3
<1>. QED BY <1>8, <1>9, <1>10, <1>11, <1>12, <1>13, InvJoin

\* The other requests know what they knew.
LEMMA OthersKept ==
    ASSUME TypeOK, NEW q \in Req, RequestInv(q), pc'[q] = pc[q], job'[q] = job[q],
           owner' = owner, keyOf' = keyOf, settled \subseteq settled',
           \A i \in Invoice : outcome[i] = "completed" => outcome'[i] = "completed"
    PROVE  RequestInv(q)'
<1>1. job[q].invoice \in Invoice \cup {None} /\ pc[q] \in Stage
      /\ job[q].op \in {"none", "checkout", "ipn", "confirm"}
  BY DEF TypeOK, Job, Stage
<1>2. pc[q] \in {"settling", "paying", "saving", "answering"} => job[q].invoice \in Invoice
  BY <1>1 DEF RequestInv, At
<1>. QED BY <1>1, <1>2 DEF RequestInv, At

\* What says nothing of the requests is kept when nothing but the requests changes.
LEMMA RestKept ==
    ASSUME IInv,
           UNCHANGED <<status, owner, outcome, wire, record, keyOf, settled, masked>>,
           loose \subseteq loose'
    PROVE  /\ RecordTruthful' /\ NotificationKept' /\ InvoicePerKey' /\ OrderInv'
           /\ \A i \in Invoice : InvoiceInv(i)'
<1>1. RecordTruthful' /\ NotificationKept' /\ OrderInv'
  BY InvSplit DEF RecordTruthful, NotificationKept, OrderInv
<1>2. InvoicePerKey'
  BY InvSplit DEF InvoicePerKey
<1>3. \A i \in Invoice : InvoiceInv(i)'
  BY InvSplit DEF InvoiceInv
<1>. QED BY <1>1, <1>2, <1>3

LEMMA InvoiceRefusedStep ==
    ASSUME IInv, NEW r \in Req, InvoiceRefused(r)
    PROVE  IInv'
<1>1. TypeOK /\ (\A q \in Req : RequestInv(q)) /\ (\A x \in Key : KeyInv(x))
  BY InvSplit
<1>2. /\ UNCHANGED <<status, owner, externalVars, recordVars, boundVars, historyVars>>
      /\ At(r, "invoicing") /\ Finish(r)
  BY DEF InvoiceRefused
<1>3. /\ pc' \in [Req -> Stage] /\ job' \in [Req -> Job]
      /\ pc'[r] = "idle" /\ job'[r] = NoJob
      /\ \A q \in Req : q # r => pc'[q] = pc[q] /\ job'[q] = job[q]
  BY <1>1, <1>2, FinishFacts
<1>4. TypeOK'
  BY <1>1, <1>2, <1>3
     DEF TypeOK, Stage, externalVars, recordVars, boundVars, historyVars
<1>5. RecordTruthful' /\ NotificationKept' /\ InvoicePerKey' /\ OrderInv'
      /\ \A i \in Invoice : InvoiceInv(i)'
  BY <1>2, RestKept DEF externalVars, recordVars, historyVars
<1>6. \A q \in Req : RequestInv(q)'
  <2>1. RequestInv(r)'
    BY <1>3, JobTypes DEF RequestInv, At
  <2>2. ASSUME NEW q \in Req, q # r PROVE RequestInv(q)'
    BY <1>1, <1>2, <1>3, <2>2, OthersKept DEF externalVars, historyVars
  <2>. QED BY <2>1, <2>2
<1>7. \A x \in Key : KeyInv(x)'
  BY <1>1, <1>2, <1>3, JobTypes DEF KeyInv, Using, At, recordVars, historyVars
<1>. QED BY <1>4, <1>5, <1>6, <1>7, InvJoin

LEMMA KeepInvoiceStep ==
    ASSUME IInv, NEW r \in Req, KeepInvoice(r)
    PROVE  IInv'
<1>. DEFINE k == job[r].key
            n == job[r].invoice
<1>1. TypeOK /\ (\A q \in Req : RequestInv(q)) /\ (\A x \in Key : KeyInv(x)) /\ InvoicePerKey
  BY InvSplit
<1>2. /\ UNCHANGED <<status, owner, externalVars, record, boundVars, historyVars>>
      /\ At(r, "keeping") /\ Finish(r)
      /\ keyed' = [keyed EXCEPT ![k] = n]
  BY DEF KeepInvoice
<1>3. /\ pc' \in [Req -> Stage] /\ job' \in [Req -> Job]
      /\ pc'[r] = "idle" /\ job'[r] = NoJob
      /\ \A q \in Req : q # r => pc'[q] = pc[q] /\ job'[q] = job[q]
  BY <1>1, <1>2, FinishFacts
<1>4. k \in Key /\ n \in Invoice /\ keyOf[n] = k /\ Using(r, k)
  BY <1>1, <1>2 DEF RequestInv, At, TypeOK, Job, Using
<1>5. /\ keyed' \in [Key -> Invoice \cup {None}]
      /\ keyed'[k] = n /\ \A x \in Key : x # k => keyed'[x] = keyed[x]
  BY <1>1, <1>2, <1>4 DEF TypeOK
<1>6. TypeOK'
  BY <1>1, <1>2, <1>3, <1>5 DEF TypeOK, Stage, externalVars, boundVars, historyVars
<1>7. RecordTruthful' /\ NotificationKept' /\ InvoicePerKey' /\ OrderInv'
      /\ \A i \in Invoice : InvoiceInv(i)'
  BY <1>2, RestKept DEF externalVars, historyVars
<1>8. \A q \in Req : RequestInv(q)'
  <2>1. RequestInv(r)'
    BY <1>3, JobTypes DEF RequestInv, At
  <2>2. ASSUME NEW q \in Req, q # r PROVE RequestInv(q)'
    BY <1>1, <1>2, <1>3, <2>2, OthersKept DEF externalVars, historyVars
  <2>. QED BY <2>1, <2>2
<1>9. \A x \in Key : KeyInv(x)'
  <2>. SUFFICES ASSUME NEW x \in Key, x \notin loose PROVE KeyInv(x)'
    BY <1>2 DEF KeyInv, historyVars
  <2>1. keyOf' = keyOf /\ KeyInv(x)
    BY <1>1, <1>2 DEF historyVars
  <2>2. CASE x # k
    BY <2>1, <2>2, <1>3, <1>5, JobTypes DEF KeyInv, Using, At
  <2>3. CASE x = k
    <3>1. \A i \in Invoice : keyOf[i] = x => i = n
      BY <2>3, <1>1, <1>4, WebhookAssumption DEF InvoicePerKey
    <3>2. \A q \in Req : ~Using(q, x)'
      <4>1. \A q \in Req : Using(q, x) => q = r
        BY <2>1, <2>3, <1>4 DEF KeyInv
      <4>. QED BY <4>1, <1>3, JobTypes DEF Using
    <3>. QED BY <3>1, <3>2, <2>1, <2>3, <1>5 DEF KeyInv
  <2>. QED BY <2>2, <2>3
<1>. QED BY <1>6, <1>7, <1>8, <1>9, InvJoin

-----------------------------------------------------------------------------
(* Notifications *)

\* A notification answered by what is recorded of its invoice.
LEMMA AnsweredByRecord ==
    ASSUME IInv, NEW r \in Req, NEW i \in Invoice, NEW s \in Outcome, Receive(r, i, s),
           record[i] # None
    PROVE  IInv'
<1>1. /\ wire' = wire \ {<<i, s>>}
      /\ masked' = IF s = "completed" /\ record[i] = "ignored" THEN masked \cup {i} ELSE masked
      /\ UNCHANGED <<status, owner, outcome, record, keyed, pc, job, moves, faults, credits,
                     settled, keyOf, loose>>
  BY DEF Receive, requestVars, recordVars, boundVars
<1>2. TypeOK /\ (\A q \in Req : RequestInv(q)) /\ (\A x \in Key : KeyInv(x))
  BY InvSplit
<1>3. TypeOK'
  BY <1>1, <1>2 DEF TypeOK
<1>4. RecordTruthful' /\ InvoicePerKey' /\ OrderInv'
  BY <1>1, InvSplit DEF RecordTruthful, InvoicePerKey, OrderInv
<1>5. NotificationKept'
  <2>. SUFFICES ASSUME NEW j \in Invoice, outcome[j] = "completed", owner[j] \notin settled,
                       j \notin masked'
                PROVE  <<j, "completed">> \in wire'
    BY <1>1 DEF NotificationKept
  <2>1. j \notin masked
    BY <1>1
  <2>2. <<j, "completed">> \in wire
    BY <2>1, InvSplit DEF NotificationKept
  <2>3. ~(j = i /\ s = "completed")
    <3>. SUFFICES ASSUME j = i, s = "completed" PROVE FALSE
      OBVIOUS
    <3>1. record[i] = "order_paid"
      BY <1>1, <1>2 DEF TypeOK, Reply
    <3>. QED BY <3>1, InvSplit DEF RecordTruthful
  <2>. QED BY <1>1, <2>2, <2>3
<1>6. \A j \in Invoice : InvoiceInv(j)'
  BY <1>1, InvSplit DEF InvoiceInv
<1>7. \A q \in Req : RequestInv(q)'
  BY <1>1, <1>2, OthersKept
<1>8. \A x \in Key : KeyInv(x)'
  BY <1>1, <1>2 DEF KeyInv, Using, At
<1>. QED BY <1>3, <1>4, <1>5, <1>6, <1>7, <1>8, InvJoin

LEMMA ReceiveStep ==
    ASSUME IInv, NEW r \in Req, NEW i \in Invoice, NEW s \in Outcome, Receive(r, i, s)
    PROVE  IInv'
<1>1. CASE record[i] # None
  BY <1>1, AnsweredByRecord
<1>2. CASE record[i] = None
  <2>1. TypeOK /\ (\A q \in Req : RequestInv(q)) /\ (\A x \in Key : KeyInv(x))
    BY InvSplit
  <2>. DEFINE w == IF IsPayment(s) THEN "settling" ELSE "saving"
  <2>2. /\ UNCHANGED <<status, owner, outcome, wire, recordVars, boundVars, historyVars>>
        /\ At(r, "idle") /\ <<i, s>> \in wire
        /\ pc' = [pc EXCEPT ![r] = w]
        /\ job' = [job EXCEPT ![r] = NoticeOf(i, s)]
    BY <1>2 DEF Receive, NoticeOf, historyVars
  <2>3. /\ NoticeOf(i, s) \in Job /\ NoticeOf(i, s).op = "ipn"
        /\ NoticeOf(i, s).invoice = i /\ NoticeOf(i, s).said = s
        /\ NoticeOf(i, s).reply = "ignored"
    BY NoticeJob
  <2>4. w \in Stage
    BY DEF Stage
  <2>5. /\ pc' \in [Req -> Stage] /\ job' \in [Req -> Job]
        /\ pc'[r] = w /\ job'[r] = NoticeOf(i, s)
        /\ \A q \in Req : q # r => pc'[q] = pc[q] /\ job'[q] = job[q]
    <3>. HIDE DEF w
    <3>. QED BY <2>1, <2>2, <2>3, <2>4 DEF TypeOK, Stage
  <2>6. TypeOK'
    BY <2>1, <2>2, <2>5 DEF TypeOK, Stage, recordVars, boundVars, historyVars
  <2>7. RecordTruthful' /\ NotificationKept' /\ InvoicePerKey' /\ OrderInv'
        /\ \A j \in Invoice : InvoiceInv(j)'
    BY <2>2, RestKept DEF recordVars, historyVars
  <2>8. \A q \in Req : RequestInv(q)'
    <3>1. RequestInv(r)'
      <4>1. owner[i] # None /\ (s = "completed" => outcome[i] = "completed")
        BY <2>2, InvSplit DEF InvoiceInv
      <4>. QED BY <4>1, <2>2, <2>3, <2>5, WebhookAssumption
               DEF RequestInv, At, IsPayment, Outcome
    <3>2. ASSUME NEW q \in Req, q # r PROVE RequestInv(q)'
      BY <2>1, <2>2, <2>5, <3>2, OthersKept DEF historyVars
    <3>. QED BY <3>1, <3>2
  <2>9. \A x \in Key : KeyInv(x)'
    <3>1. job[r].op # "checkout" /\ job'[r].op # "checkout"
      BY <2>1, <2>2, <2>3, <2>5 DEF RequestInv, At
    <3>. QED BY <3>1, <2>1, <2>2, <2>5, CheckoutKept DEF recordVars, historyVars
  <2>. QED BY <2>6, <2>7, <2>8, <2>9, InvJoin
<1>. QED BY <1>1, <1>2

LEMMA SaveRecordStep ==
    ASSUME IInv, NEW r \in Req, SaveRecord(r)
    PROVE  IInv'
<1>. DEFINE n == job[r].invoice
<1>1. TypeOK /\ (\A q \in Req : RequestInv(q)) /\ (\A x \in Key : KeyInv(x))
  BY InvSplit
<1>2. /\ UNCHANGED <<status, owner, externalVars, keyed, boundVars, historyVars>>
      /\ At(r, "saving") /\ Go(r, "answering")
      /\ record' = [record EXCEPT ![n] = job[r].reply]
  BY DEF SaveRecord
<1>3. /\ pc' \in [Req -> Stage] /\ job' \in [Req -> Job]
      /\ pc'[r] = "answering" /\ job'[r] = job[r]
      /\ \A q \in Req : q # r => pc'[q] = pc[q] /\ job'[q] = job[q]
  <2>1. "answering" \in Stage
    BY DEF Stage
  <2>. QED BY <1>1, <1>2, <2>1, GoFacts
<1>4. /\ job[r].op = "ipn" /\ n \in Invoice /\ owner[n] # None /\ job[r].reply \in Reply
      /\ job[r].reply # "ignored" => outcome[n] = "completed" /\ owner[n] \in settled
  BY <1>1, <1>2 DEF RequestInv, At, TypeOK, Job
<1>5. /\ record' \in [Invoice -> Reply \cup {None}] /\ record'[n] = job[r].reply
      /\ \A j \in Invoice : j # n => record'[j] = record[j]
  BY <1>1, <1>2, <1>4 DEF TypeOK
<1>6. TypeOK'
  BY <1>1, <1>2, <1>3, <1>5 DEF TypeOK, Stage, externalVars, boundVars, historyVars
<1>7. RecordTruthful' /\ OrderInv'
  BY <1>2, <1>4, <1>5, InvSplit DEF RecordTruthful, OrderInv, externalVars, historyVars
<1>8. NotificationKept' /\ InvoicePerKey'
  BY <1>2, InvSplit DEF NotificationKept, InvoicePerKey, externalVars, historyVars
<1>9. \A j \in Invoice : InvoiceInv(j)'
  BY <1>2, <1>4, <1>5, InvSplit DEF InvoiceInv, externalVars, historyVars
<1>10. \A q \in Req : RequestInv(q)'
  <2>1. RequestInv(r)'
    BY <1>1, <1>2, <1>3, <1>4 DEF RequestInv, At, externalVars, historyVars
  <2>2. ASSUME NEW q \in Req, q # r PROVE RequestInv(q)'
    BY <1>1, <1>2, <1>3, <2>2, OthersKept DEF externalVars, historyVars
  <2>. QED BY <2>1, <2>2
<1>11. \A x \in Key : KeyInv(x)'
  BY <1>1, <1>2, <1>3, <1>4, CheckoutKept DEF historyVars
<1>. QED BY <1>6, <1>7, <1>8, <1>9, <1>10, <1>11, InvJoin

LEMMA AnswerStep ==
    ASSUME IInv, NEW r \in Req, Answer(r)
    PROVE  IInv'
<1>. DEFINE n == job[r].invoice
<1>1. TypeOK /\ (\A q \in Req : RequestInv(q)) /\ (\A x \in Key : KeyInv(x))
  BY InvSplit
<1>2. /\ UNCHANGED <<status, owner, outcome, recordVars, boundVars, historyVars>>
      /\ At(r, "answering") /\ Finish(r)
      /\ wire' = wire \ {<<n, job[r].said>>}
  BY DEF Answer
<1>3. /\ pc' \in [Req -> Stage] /\ job' \in [Req -> Job]
      /\ pc'[r] = "idle" /\ job'[r] = NoJob
      /\ \A q \in Req : q # r => pc'[q] = pc[q] /\ job'[q] = job[q]
  BY <1>1, <1>2, FinishFacts
<1>4. /\ job[r].op = "ipn"
      /\ job[r].said = "completed" => owner[n] \in settled
  BY <1>1, <1>2 DEF RequestInv, At
<1>5. TypeOK'
  BY <1>1, <1>2, <1>3 DEF TypeOK, Stage, recordVars, boundVars, historyVars
<1>6. RecordTruthful' /\ InvoicePerKey' /\ OrderInv'
  BY <1>2, InvSplit DEF RecordTruthful, InvoicePerKey, OrderInv, recordVars, historyVars
<1>7. NotificationKept'
  BY <1>2, <1>4, InvSplit DEF NotificationKept, historyVars
<1>8. \A j \in Invoice : InvoiceInv(j)'
  BY <1>2, InvSplit DEF InvoiceInv, recordVars, historyVars
<1>9. \A q \in Req : RequestInv(q)'
  <2>1. RequestInv(r)'
    BY <1>3, JobTypes DEF RequestInv, At
  <2>2. ASSUME NEW q \in Req, q # r PROVE RequestInv(q)'
    BY <1>1, <1>2, <1>3, <2>2, OthersKept DEF historyVars
  <2>. QED BY <2>1, <2>2
<1>10. \A x \in Key : KeyInv(x)'
  <2>1. job[r].op # "checkout" /\ job'[r].op # "checkout"
    BY <1>3, <1>4, JobTypes
  <2>. QED BY <2>1, <1>1, <1>2, <1>3, CheckoutKept DEF recordVars, historyVars
<1>. QED BY <1>5, <1>6, <1>7, <1>8, <1>9, <1>10, InvJoin

\* A request that dies, or ends with its key's record lost.
LEMMA RequestLost ==
    ASSUME IInv, NEW r \in Req, Finish(r),
           UNCHANGED <<status, owner, outcome, wire, record, keyed, keyOf, settled, masked,
                       moves, credits>>,
           faults' \in Nat, loose' \in SUBSET Key, loose \subseteq loose',
           job[r].op = "checkout" => job[r].key \in loose' \cup {None}
    PROVE  IInv'
<1>1. TypeOK /\ (\A q \in Req : RequestInv(q)) /\ (\A x \in Key : KeyInv(x))
  BY InvSplit
<1>2. /\ pc' \in [Req -> Stage] /\ job' \in [Req -> Job]
      /\ pc'[r] = "idle" /\ job'[r] = NoJob
      /\ \A q \in Req : q # r => pc'[q] = pc[q] /\ job'[q] = job[q]
  BY <1>1, FinishFacts
<1>3. TypeOK'
  BY <1>1, <1>2 DEF TypeOK, Stage
<1>4. RecordTruthful' /\ NotificationKept' /\ InvoicePerKey' /\ OrderInv'
      /\ \A i \in Invoice : InvoiceInv(i)'
  BY RestKept
<1>5. \A q \in Req : RequestInv(q)'
  <2>1. RequestInv(r)'
    BY <1>2, JobTypes DEF RequestInv, At
  <2>2. ASSUME NEW q \in Req, q # r PROVE RequestInv(q)'
    BY <1>1, <1>2, <2>2, OthersKept
  <2>. QED BY <2>1, <2>2
<1>6. \A x \in Key : KeyInv(x)'
  <2>. SUFFICES ASSUME NEW x \in Key, x \notin loose' PROVE KeyInv(x)'
    BY DEF KeyInv
  <2>1. ~Using(r, x) /\ KeyInv(x) /\ x \notin loose
    BY <1>1, WebhookAssumption DEF Using
  <2>. QED BY <2>1, <1>2, JobTypes DEF KeyInv, Using, At
<1>. QED BY <1>3, <1>4, <1>5, <1>6, InvJoin

LEMMA LoseRecordStep ==
    ASSUME IInv, NEW r \in Req, LoseRecord(r)
    PROVE  IInv'
<1>1. TypeOK /\ (\A q \in Req : RequestInv(q)) /\ (\A x \in Key : KeyInv(x))
  BY InvSplit
<1>2. /\ UNCHANGED <<status, owner, outcome, wire, record, keyed, moves, credits, settled,
                     keyOf, masked>>
      /\ faults' = faults + 1
  BY DEF LoseRecord, externalVars, recordVars
<1>3. faults' \in Nat
  BY <1>1, <1>2 DEF TypeOK
<1>4. CASE At(r, "saving") /\ Go(r, "answering") /\ UNCHANGED loose
  <2>1. /\ pc' \in [Req -> Stage] /\ job' \in [Req -> Job]
        /\ pc'[r] = "answering" /\ job'[r] = job[r]
        /\ \A q \in Req : q # r => pc'[q] = pc[q] /\ job'[q] = job[q]
    <3>1. "answering" \in Stage
      BY DEF Stage
    <3>. QED BY <1>1, <1>4, <3>1, GoFacts
  <2>2. TypeOK'
    BY <1>1, <1>2, <1>3, <1>4, <2>1 DEF TypeOK, Stage
  <2>3. RecordTruthful' /\ NotificationKept' /\ InvoicePerKey' /\ OrderInv'
        /\ \A i \in Invoice : InvoiceInv(i)'
    BY <1>2, <1>4, RestKept
  <2>4. \A q \in Req : RequestInv(q)'
    <3>1. RequestInv(r)'
      BY <1>1, <1>2, <1>4, <2>1 DEF RequestInv, At
    <3>2. ASSUME NEW q \in Req, q # r PROVE RequestInv(q)'
      BY <1>1, <1>2, <2>1, <3>2, OthersKept
    <3>. QED BY <3>1, <3>2
  <2>5. \A x \in Key : KeyInv(x)'
    <3>1. job[r].op # "checkout" /\ job'[r].op # "checkout"
      BY <1>1, <1>4, <2>1 DEF RequestInv, At
    <3>. QED BY <3>1, <1>1, <1>2, <1>4, <2>1, CheckoutKept
  <2>. QED BY <2>2, <2>3, <2>4, <2>5, InvJoin
<1>5. CASE At(r, "keeping") /\ Finish(r) /\ loose' = loose \cup {job[r].key}
  <2>1. job[r].key \in Key
    BY <1>1, <1>5 DEF RequestInv, At, TypeOK, Job
  <2>2. loose' \in SUBSET Key /\ loose \subseteq loose'
    BY <1>1, <1>5, <2>1 DEF TypeOK
  <2>. QED BY <1>2, <1>3, <1>5, <2>2, RequestLost
<1>. QED BY <1>4, <1>5 DEF LoseRecord

LEMMA FailStep ==
    ASSUME IInv, NEW r \in Req, Fail(r)
    PROVE  IInv'
<1>1. TypeOK
  BY InvSplit
<1>2. /\ UNCHANGED <<status, owner, outcome, wire, record, keyed, moves, credits, settled,
                     keyOf, masked>>
      /\ faults' = faults + 1 /\ Finish(r)
      /\ loose' = IF job[r].op = "checkout" THEN loose \cup ({job[r].key} \ {None}) ELSE loose
  BY DEF Fail, Unanswered, recordVars
<1>3. faults' \in Nat /\ job[r].key \in Key \cup {None}
  BY <1>1, <1>2 DEF TypeOK, Job
<1>4. loose' \in SUBSET Key /\ loose \subseteq loose'
  BY <1>1, <1>2, <1>3 DEF TypeOK
<1>5. job[r].op = "checkout" => job[r].key \in loose' \cup {None}
  BY <1>2
<1>. QED BY <1>2, <1>3, <1>4, <1>5, RequestLost

-----------------------------------------------------------------------------
(* Confirmations and settlements *)

LEMMA ConfirmStep ==
    ASSUME IInv, NEW r \in Req, NEW i \in Invoice, Confirm(r, i)
    PROVE  IInv'
<1>1. TypeOK /\ (\A q \in Req : RequestInv(q)) /\ (\A x \in Key : KeyInv(x))
  BY InvSplit
<1>2. /\ UNCHANGED <<status, owner, outcome, wire, recordVars, boundVars, historyVars>>
      /\ At(r, "idle") /\ owner[i] # None /\ outcome[i] = "completed"
      /\ pc' = [pc EXCEPT ![r] = "settling"]
      /\ job' = [job EXCEPT ![r] = ReturnOf(i)]
  BY DEF Confirm, ConfirmedPaid, ReturnOf, externalVars
<1>3. ReturnOf(i) \in Job /\ ReturnOf(i).op = "confirm" /\ ReturnOf(i).invoice = i
  BY ReturnJob
<1>4. /\ pc' \in [Req -> Stage] /\ job' \in [Req -> Job]
      /\ pc'[r] = "settling" /\ job'[r] = ReturnOf(i)
      /\ \A q \in Req : q # r => pc'[q] = pc[q] /\ job'[q] = job[q]
  BY <1>1, <1>2, <1>3 DEF TypeOK, Stage
<1>5. TypeOK'
  BY <1>1, <1>2, <1>4 DEF TypeOK, Stage, recordVars, boundVars, historyVars
<1>6. RecordTruthful' /\ NotificationKept' /\ InvoicePerKey' /\ OrderInv'
      /\ \A j \in Invoice : InvoiceInv(j)'
  BY <1>2, RestKept DEF recordVars, historyVars
<1>7. \A q \in Req : RequestInv(q)'
  <2>1. RequestInv(r)'
    BY <1>2, <1>3, <1>4, WebhookAssumption DEF RequestInv, At
  <2>2. ASSUME NEW q \in Req, q # r PROVE RequestInv(q)'
    BY <1>1, <1>2, <1>4, <2>2, OthersKept DEF historyVars
  <2>. QED BY <2>1, <2>2
<1>8. \A x \in Key : KeyInv(x)'
  <2>1. job[r].op # "checkout" /\ job'[r].op # "checkout"
    BY <1>1, <1>2, <1>3, <1>4 DEF RequestInv, At
  <2>. QED BY <2>1, <1>1, <1>2, <1>4, CheckoutKept DEF recordVars, historyVars
<1>. QED BY <1>5, <1>6, <1>7, <1>8, InvJoin

\* A settlement of an order that has been PAID: what the requests know.
LEMMA SettledKept ==
    ASSUME IInv, NEW r \in Req, Settled(r), pc[r] \in {"settling", "paying"},
           UNCHANGED <<owner, outcome, keyed, keyOf, loose>>,
           settled \subseteq settled', owner[job[r].invoice] \in settled'
    PROVE  (\A q \in Req : RequestInv(q)') /\ (\A x \in Key : KeyInv(x)')
<1>1. TypeOK /\ (\A q \in Req : RequestInv(q)) /\ (\A x \in Key : KeyInv(x))
  BY InvSplit
<1>2. /\ pc' \in [Req -> Stage] /\ job' \in [Req -> Job]
      /\ IF job[r].op = "ipn"
           THEN /\ pc'[r] = "saving" /\ job'[r].op = "ipn"
                /\ job'[r].reply = "order_paid" /\ job'[r].invoice = job[r].invoice
                /\ job'[r].said = job[r].said /\ job'[r].key = job[r].key
           ELSE pc'[r] = "idle" /\ job'[r] = NoJob
      /\ \A q \in Req : q # r => pc'[q] = pc[q] /\ job'[q] = job[q]
  BY <1>1, SettledFacts
<1>3. /\ job[r].op \in {"ipn", "confirm"} /\ job[r].op # "checkout"
      /\ job[r].invoice # None /\ owner[job[r].invoice] # None
      /\ outcome[job[r].invoice] = "completed"
  <2>1. job[r].op \in {"none", "checkout", "ipn", "confirm"}
    BY <1>1 DEF TypeOK, Job
  <2>. QED BY <1>1, <2>1 DEF RequestInv, At
<1>4. \A q \in Req : RequestInv(q)'
  <2>1. RequestInv(r)'
    <3>1. CASE job[r].op = "ipn"
      BY <3>1, <1>2, <1>3 DEF RequestInv, At
    <3>2. CASE job[r].op # "ipn"
      BY <3>2, <1>2, JobTypes DEF RequestInv, At
    <3>. QED BY <3>1, <3>2
  <2>2. ASSUME NEW q \in Req, q # r PROVE RequestInv(q)'
    BY <1>1, <1>2, <2>2, OthersKept
  <2>. QED BY <2>1, <2>2
<1>5. \A x \in Key : KeyInv(x)'
  <2>1. job'[r].op # "checkout"
    BY <1>2, <1>3, JobTypes
  <2>. QED BY <2>1, <1>1, <1>2, <1>3, CheckoutKept
<1>. QED BY <1>4, <1>5

LEMMA ReadOrderStep ==
    ASSUME IInv, NEW r \in Req, ReadOrder(r)
    PROVE  IInv'
<1>. DEFINE o == owner[job[r].invoice]
<1>1. TypeOK /\ (\A q \in Req : RequestInv(q)) /\ (\A x \in Key : KeyInv(x))
  BY InvSplit
<1>2. /\ UNCHANGED <<status, owner, outcome, wire, recordVars, boundVars, historyVars>>
      /\ At(r, "settling")
      /\ IF status[o] = "PAID" THEN Settled(r) ELSE Go(r, "paying")
  BY DEF ReadOrder, externalVars
<1>3. RecordTruthful' /\ NotificationKept' /\ InvoicePerKey' /\ OrderInv'
      /\ \A j \in Invoice : InvoiceInv(j)'
  BY <1>2, RestKept DEF recordVars, historyVars
<1>4. job[r].op \in {"ipn", "confirm"} /\ job[r].invoice \in Invoice /\ o \in Order
  BY <1>1, <1>2 DEF RequestInv, At, TypeOK, Job
<1>5. CASE status[o] = "PAID"
  <2>1. Settled(r)
    BY <1>2, <1>5
  <2>2. pc' \in [Req -> Stage] /\ job' \in [Req -> Job]
    BY <1>1, <2>1, SettledFacts
  <2>3. TypeOK'
    BY <1>1, <1>2, <2>2 DEF TypeOK, Stage, recordVars, boundVars, historyVars
  <2>4. o \in settled
    BY <1>4, <1>5, InvSplit DEF OrderInv
  <2>5. (\A q \in Req : RequestInv(q)') /\ (\A x \in Key : KeyInv(x)')
    BY <1>2, <2>1, <2>4, SettledKept DEF At, recordVars, historyVars
  <2>. QED BY <1>3, <2>3, <2>5, InvJoin
<1>6. CASE status[o] # "PAID"
  <2>1. /\ pc' \in [Req -> Stage] /\ job' \in [Req -> Job]
        /\ pc'[r] = "paying" /\ job'[r] = job[r]
        /\ \A q \in Req : q # r => pc'[q] = pc[q] /\ job'[q] = job[q]
    <3>1. "paying" \in Stage
      BY DEF Stage
    <3>. QED BY <1>1, <1>2, <1>6, <3>1, GoFacts
  <2>2. TypeOK'
    BY <1>1, <1>2, <2>1 DEF TypeOK, Stage, recordVars, boundVars, historyVars
  <2>3. \A q \in Req : RequestInv(q)'
    <3>1. RequestInv(r)'
      BY <1>1, <1>2, <1>4, <2>1 DEF RequestInv, At, historyVars
    <3>2. ASSUME NEW q \in Req, q # r PROVE RequestInv(q)'
      BY <1>1, <1>2, <2>1, <3>2, OthersKept DEF historyVars
    <3>. QED BY <3>1, <3>2
  <2>4. \A x \in Key : KeyInv(x)'
    BY <1>1, <1>2, <1>4, <2>1, CheckoutKept DEF recordVars, historyVars
  <2>. QED BY <1>3, <2>2, <2>3, <2>4, InvJoin
<1>. QED BY <1>5, <1>6

LEMMA PayStep ==
    ASSUME IInv, NEW r \in Req, Pay(r)
    PROVE  IInv'
<1>. DEFINE o == owner[job[r].invoice]
<1>1. TypeOK /\ (\A q \in Req : RequestInv(q)) /\ (\A x \in Key : KeyInv(x))
  BY InvSplit
<1>2. /\ UNCHANGED <<owner, outcome, wire, record, keyed, boundVars, keyOf, masked, loose>>
      /\ At(r, "paying") /\ Settled(r)
      /\ IF Unpaid(o)
           THEN /\ status' = [status EXCEPT ![o] = "PAID"]
                /\ credits' = [credits EXCEPT ![o] = @ + 1]
                /\ settled' = settled \cup {o}
           ELSE UNCHANGED <<status, credits, settled>>
  BY DEF Pay, externalVars, recordVars
<1>3. job[r].op \in {"ipn", "confirm"} /\ job[r].invoice \in Invoice /\ o \in Order
  BY <1>1, <1>2 DEF RequestInv, At, TypeOK, Job
<1>4. /\ settled \subseteq settled' /\ settled' \in SUBSET Order /\ o \in settled'
      /\ status' \in [Order -> OrderStatus] /\ credits' \in [Order -> Nat]
      /\ \A p \in Order : status'[p] = "PAID" => p \in settled'
  <2>1. CASE Unpaid(o)
    BY <1>1, <1>2, <1>3, <2>1, InvSplit DEF TypeOK, OrderStatus, OrderInv
  <2>2. CASE ~Unpaid(o)
    BY <1>1, <1>2, <1>3, <2>2, InvSplit DEF TypeOK, OrderInv, Unpaid
  <2>. QED BY <2>1, <2>2
<1>5. TypeOK'
  <2>1. pc' \in [Req -> Stage] /\ job' \in [Req -> Job]
    BY <1>1, <1>2, SettledFacts
  <2>. QED BY <1>1, <1>2, <1>4, <2>1 DEF TypeOK, Stage, boundVars
<1>6. RecordTruthful' /\ NotificationKept' /\ InvoicePerKey'
  BY <1>2, <1>4, InvSplit DEF RecordTruthful, NotificationKept, InvoicePerKey
<1>7. OrderInv' /\ \A j \in Invoice : InvoiceInv(j)'
  BY <1>2, <1>4, InvSplit DEF OrderInv, InvoiceInv
<1>8. (\A q \in Req : RequestInv(q)') /\ (\A x \in Key : KeyInv(x)')
  BY <1>2, <1>4, SettledKept DEF At
<1>. QED BY <1>5, <1>6, <1>7, <1>8, InvJoin

-----------------------------------------------------------------------------
(* Other handlers, time and PayDunya *)

LEMMA MoveOrderStep ==
    ASSUME IInv, NEW o \in Order, NEW s \in OrderStatus, MoveOrder(o, s)
    PROVE  IInv'
<1>1. TypeOK /\ (\A q \in Req : RequestInv(q)) /\ (\A x \in Key : KeyInv(x))
  BY InvSplit
<1>2. /\ UNCHANGED <<owner, outcome, wire, record, keyed, pc, job, faults, credits, keyOf,
                     masked, loose>>
      /\ moves' = moves + 1 /\ status' = [status EXCEPT ![o] = s]
      /\ settled' = IF s = "PAID" THEN settled \cup {o} ELSE settled
  BY DEF MoveOrder, externalVars, recordVars, requestVars
<1>3. settled \subseteq settled'
  BY <1>2
<1>4. TypeOK'
  BY <1>1, <1>2 DEF TypeOK
<1>5. RecordTruthful' /\ NotificationKept' /\ InvoicePerKey'
  BY <1>2, <1>3, InvSplit DEF RecordTruthful, NotificationKept, InvoicePerKey
<1>6. OrderInv'
  BY <1>1, <1>2, InvSplit DEF OrderInv, TypeOK
<1>7. \A j \in Invoice : InvoiceInv(j)'
  BY <1>2, InvSplit DEF InvoiceInv
<1>8. \A q \in Req : RequestInv(q)'
  BY <1>1, <1>2, <1>3, OthersKept
<1>9. \A x \in Key : KeyInv(x)'
  BY <1>1, <1>2 DEF KeyInv, Using, At
<1>. QED BY <1>4, <1>5, <1>6, <1>7, <1>8, <1>9, InvJoin

LEMMA ExpireReplyStep ==
    ASSUME IInv, NEW i \in Invoice, ExpireReply(i)
    PROVE  IInv'
<1>1. TypeOK /\ (\A q \in Req : RequestInv(q)) /\ (\A x \in Key : KeyInv(x))
  BY InvSplit
<1>2. /\ UNCHANGED <<status, owner, outcome, wire, keyed, pc, job, moves, faults, credits,
                     settled, keyOf, masked, loose>>
      /\ record' = [record EXCEPT ![i] = None]
  BY DEF ExpireReply, externalVars, requestVars, boundVars, historyVars
<1>3. /\ record' \in [Invoice -> Reply \cup {None}] /\ record'[i] = None
      /\ \A j \in Invoice : j # i => record'[j] = record[j]
  BY <1>1, <1>2 DEF TypeOK
<1>4. TypeOK'
  BY <1>1, <1>2, <1>3 DEF TypeOK
<1>5. RecordTruthful'
  BY <1>2, <1>3, InvSplit, WebhookAssumption DEF RecordTruthful, Reply
<1>6. NotificationKept' /\ InvoicePerKey' /\ OrderInv'
  BY <1>2, InvSplit DEF NotificationKept, InvoicePerKey, OrderInv
<1>7. \A j \in Invoice : InvoiceInv(j)'
  BY <1>2, <1>3, InvSplit DEF InvoiceInv
<1>8. \A q \in Req : RequestInv(q)'
  BY <1>1, <1>2, OthersKept
<1>9. \A x \in Key : KeyInv(x)'
  BY <1>1, <1>2 DEF KeyInv, Using, At
<1>. QED BY <1>4, <1>5, <1>6, <1>7, <1>8, <1>9, InvJoin

LEMMA ExpireKeyStep ==
    ASSUME IInv, NEW k \in Key, ExpireKey(k)
    PROVE  IInv'
<1>1. TypeOK /\ (\A q \in Req : RequestInv(q)) /\ (\A x \in Key : KeyInv(x))
  BY InvSplit
<1>2. /\ UNCHANGED <<status, owner, outcome, wire, record, pc, job, moves, faults, credits,
                     settled, keyOf, masked>>
      /\ keyed' = [keyed EXCEPT ![k] = None] /\ loose' = loose \cup {k}
  BY DEF ExpireKey, externalVars, requestVars, boundVars
<1>3. TypeOK'
  BY <1>1, <1>2 DEF TypeOK
<1>4. RecordTruthful' /\ NotificationKept' /\ InvoicePerKey' /\ OrderInv'
      /\ \A i \in Invoice : InvoiceInv(i)'
  BY <1>2, RestKept
<1>5. \A q \in Req : RequestInv(q)'
  BY <1>1, <1>2, OthersKept
<1>6. \A x \in Key : KeyInv(x)'
  <2>. SUFFICES ASSUME NEW x \in Key, x \notin loose' PROVE KeyInv(x)'
    BY DEF KeyInv
  <2>1. x # k /\ keyed'[x] = keyed[x]
    BY <1>1, <1>2 DEF TypeOK
  <2>. QED BY <2>1, <1>1, <1>2 DEF KeyInv, Using, At
<1>. QED BY <1>3, <1>4, <1>5, <1>6, InvJoin

LEMMA PayInvoiceStep ==
    ASSUME IInv, NEW i \in Invoice, PayInvoice(i)
    PROVE  IInv'
<1>1. TypeOK /\ (\A q \in Req : RequestInv(q)) /\ (\A x \in Key : KeyInv(x))
  BY InvSplit
<1>2. /\ UNCHANGED <<status, owner, record, keyed, pc, job, moves, faults, credits, settled,
                     keyOf, masked, loose>>
      /\ owner[i] # None /\ outcome' = [outcome EXCEPT ![i] = "completed"]
      /\ wire' = wire \cup {<<i, "completed">>}
  BY DEF PayInvoice, recordVars, requestVars, boundVars, historyVars
<1>3. /\ outcome' \in [Invoice -> Outcome] /\ outcome'[i] = "completed"
      /\ \A j \in Invoice : j # i => outcome'[j] = outcome[j]
  BY <1>1, <1>2 DEF TypeOK, Outcome
<1>4. TypeOK'
  BY <1>1, <1>2, <1>3 DEF TypeOK, Outcome
<1>5. RecordTruthful' /\ OrderInv' /\ InvoicePerKey'
  BY <1>2, <1>3, InvSplit DEF RecordTruthful, InvoicePerKey, OrderInv
<1>6. NotificationKept'
  BY <1>2, <1>3, InvSplit DEF NotificationKept
<1>7. \A j \in Invoice : InvoiceInv(j)'
  BY <1>2, <1>3, InvSplit DEF InvoiceInv
<1>8. \A q \in Req : RequestInv(q)'
  BY <1>1, <1>2, <1>3, OthersKept
<1>9. \A x \in Key : KeyInv(x)'
  BY <1>1, <1>2 DEF KeyInv, Using, At
<1>. QED BY <1>4, <1>5, <1>6, <1>7, <1>8, <1>9, InvJoin

LEMMA NotifyPendingStep ==
    ASSUME IInv, NEW i \in Invoice, NotifyPending(i)
    PROVE  IInv'
<1>1. TypeOK /\ (\A q \in Req : RequestInv(q)) /\ (\A x \in Key : KeyInv(x))
  BY InvSplit
<1>2. /\ UNCHANGED <<status, owner, outcome, record, keyed, pc, job, moves, faults, credits,
                     settled, keyOf, masked, loose>>
      /\ owner[i] # None /\ wire' = wire \cup {<<i, "pending">>}
  BY DEF NotifyPending, recordVars, requestVars, boundVars, historyVars
<1>3. TypeOK'
  BY <1>1, <1>2 DEF TypeOK, Outcome
<1>4. RecordTruthful' /\ OrderInv' /\ InvoicePerKey' /\ NotificationKept'
  BY <1>2, InvSplit DEF RecordTruthful, InvoicePerKey, OrderInv, NotificationKept
<1>5. \A j \in Invoice : InvoiceInv(j)'
  BY <1>2, InvSplit DEF InvoiceInv
<1>6. \A q \in Req : RequestInv(q)'
  BY <1>1, <1>2, OthersKept
<1>7. \A x \in Key : KeyInv(x)'
  BY <1>1, <1>2 DEF KeyInv, Using, At
<1>. QED BY <1>3, <1>4, <1>5, <1>6, <1>7, InvJoin

LEMMA StutterStep ==
    ASSUME IInv, UNCHANGED vars
    PROVE  IInv'
<1>1. TypeOK /\ (\A q \in Req : RequestInv(q)) /\ (\A x \in Key : KeyInv(x))
  BY InvSplit
<1>2. UNCHANGED <<status, owner, outcome, wire, record, keyed, pc, job, moves, faults, credits,
                  settled, keyOf, masked, loose>>
  BY DEF vars, externalVars, recordVars, requestVars, boundVars, historyVars
<1>3. TypeOK'
  BY <1>1, <1>2 DEF TypeOK
<1>4. RecordTruthful' /\ NotificationKept' /\ InvoicePerKey' /\ OrderInv'
      /\ \A i \in Invoice : InvoiceInv(i)'
  BY <1>2, RestKept
<1>5. \A q \in Req : RequestInv(q)'
  BY <1>1, <1>2, OthersKept
<1>6. \A x \in Key : KeyInv(x)'
  BY <1>1, <1>2 DEF KeyInv, Using, At
<1>. QED BY <1>3, <1>4, <1>5, <1>6, InvJoin

LEMMA WorkStep ==
    ASSUME IInv, NEW r \in Req, Work(r)
    PROVE  IInv'
  BY CreateInvoiceStep, InvoiceRefusedStep, KeepInvoiceStep, SaveRecordStep, AnswerStep,
     ReadOrderStep, PayStep DEF Work

LEMMA InductiveStep == IInv /\ [Next]_vars => IInv'
<1>. SUFFICES ASSUME IInv, [Next]_vars PROVE IInv'
  OBVIOUS
<1>1. ASSUME NEW r \in Req, NEW o \in Order, NEW k \in Key \cup {None}, StartCheckout(r, o, k)
      PROVE  IInv'
  BY <1>1, StartCheckoutStep
<1>2. ASSUME NEW r \in Req, NEW i \in Invoice, NEW s \in Outcome, Receive(r, i, s)
      PROVE  IInv'
  BY <1>2, ReceiveStep
<1>3. ASSUME NEW r \in Req, NEW i \in Invoice, Confirm(r, i) PROVE IInv'
  BY <1>3, ConfirmStep
<1>4. ASSUME NEW r \in Req, Work(r) \/ LoseRecord(r) \/ Fail(r) PROVE IInv'
  BY <1>4, WorkStep, LoseRecordStep, FailStep
<1>5. ASSUME NEW o \in Order, NEW s \in OrderStatus, MoveOrder(o, s) PROVE IInv'
  BY <1>5, MoveOrderStep
<1>6. ASSUME NEW i \in Invoice, ExpireReply(i) \/ PayInvoice(i) \/ NotifyPending(i)
      PROVE  IInv'
  BY <1>6, ExpireReplyStep, PayInvoiceStep, NotifyPendingStep
<1>7. ASSUME NEW k \in Key, ExpireKey(k) PROVE IInv'
  BY <1>7, ExpireKeyStep
<1>8. CASE UNCHANGED vars
  BY <1>8, StutterStep
<1>. QED BY <1>1, <1>2, <1>3, <1>4, <1>5, <1>6, <1>7, <1>8 DEF Next

-----------------------------------------------------------------------------
(* Theorems *)

\* Whatever notifications, confirmations and checkouts race, fail or are repeated, the
\* inductive invariant of the webhook's records, requests and invoices holds.
THEOREM Invariant == Safety => []IInv
<1>1. Init => IInv
  BY Initially
<1>2. IInv /\ [Next]_vars => IInv'
  BY InductiveStep
<1>. QED BY <1>1, <1>2, PTL DEF Safety

\* Every variable keeps its type.
THEOREM TypeCorrect == Safety => []TypeOK
<1>1. IInv => TypeOK
  BY DEF IInv
<1>. QED BY <1>1, Invariant, PTL

\* handleWebhook's record of a paid order is never ahead of the payment, nor of the
\* settlement of the order, wherever the server stops.
THEOREM RecordsTruthful == Safety => []RecordTruthful
<1>1. IInv => RecordTruthful
  BY DEF IInv
<1>. QED BY <1>1, Invariant, PTL

\* No payment is lost: PayDunya still repeats its notification, unless the order has been
\* PAID or the record of an older notification answered it.
THEOREM NotificationsKept == Safety => []NotificationKept
<1>1. IInv => NotificationKept
  BY DEF IInv
<1>. QED BY <1>1, Invariant, PTL

\* One key makes one invoice, unless two checkouts used it at once or its record was lost.
THEOREM InvoicesPerKey == Safety => []InvoicePerKey
<1>1. IInv => InvoicePerKey
  BY DEF IInv
<1>. QED BY <1>1, Invariant, PTL

\* The webhook records and the records of checkouts are what their readers take them for.
THEOREM RecordsSound == Safety => []RecordsHold
<1>1. RecordTruthful /\ NotificationKept /\ InvoicePerKey => RecordsHold
  BY DEF RecordsHold
<1>. QED BY <1>1, RecordsTruthful, NotificationsKept, InvoicesPerKey, PTL

-----------------------------------------------------------------------------
(* The webhook implements PaidOrders *)

Due == {o \in Order : \E i \in Invoice : owner[i] = o /\ outcome[i] = "completed"}
Paid == {o \in Order : status[o] = "PAID"}

LEMMA Quiet ==
    ASSUME UNCHANGED <<status, credits>>, Due' = Due
    PROVE  UNCHANGED Orders!vars
<1>1. Paid' = Paid
  BY DEF Paid
<1>. QED BY <1>1 DEF Orders!vars, Due, Paid

LEMMA StillQuiet ==
    ASSUME UNCHANGED <<status, credits, owner, outcome>>
    PROVE  UNCHANGED Orders!vars
<1>1. Due' = Due
  BY DEF Due
<1>. QED BY <1>1, Quiet

LEMMA CreateInvoiceQuiet ==
    ASSUME IInv, NEW r \in Req, CreateInvoice(r)
    PROVE  UNCHANGED Orders!vars
<1>1. TypeOK /\ \A i \in Invoice : InvoiceInv(i)
  BY InvSplit
<1>2. PICK n \in Invoice : owner[n] = None /\ owner' = [owner EXCEPT ![n] = job[r].order]
  BY DEF CreateInvoice
<1>3. UNCHANGED <<status, credits, outcome>>
  BY DEF CreateInvoice, externalVars
<1>4. outcome[n] # "completed"
  BY <1>1, <1>2 DEF InvoiceInv
<1>5. \A i \in Invoice : i # n => owner'[i] = owner[i]
  BY <1>1, <1>2 DEF TypeOK
<1>6. Due' = Due
  BY <1>3, <1>4, <1>5 DEF Due
<1>. QED BY <1>3, <1>6, Quiet

LEMMA PaySettles ==
    ASSUME IInv, NEW r \in Req, Pay(r)
    PROVE  Orders!Next \/ UNCHANGED Orders!vars
<1>1. TypeOK /\ RequestInv(r)
  BY InvSplit
<1>2. job[r].invoice \in Invoice /\ owner[job[r].invoice] \in Order
      /\ outcome[job[r].invoice] = "completed"
  BY <1>1 DEF Pay, RequestInv, At, TypeOK, Job
<1>3. PICK o \in Order : o = owner[job[r].invoice]
  BY <1>2
<1>4. /\ UNCHANGED <<owner, outcome>> /\ At(r, "paying")
      /\ IF Unpaid(o)
           THEN /\ status' = [status EXCEPT ![o] = "PAID"]
                /\ credits' = [credits EXCEPT ![o] = @ + 1]
           ELSE UNCHANGED <<status, credits>>
  BY <1>3 DEF Pay, externalVars
<1>5. CASE ~Unpaid(o)
  BY <1>4, <1>5, StillQuiet
<1>6. CASE Unpaid(o)
  <2>1. o \in Due
    BY <1>2, <1>3 DEF Due
  <2>2. o \notin Paid
    BY <1>6 DEF Unpaid, Paid
  <2>3. Paid' = Paid \cup {o}
    BY <1>1, <1>4, <1>6 DEF Paid, TypeOK
  <2>4. Due' = Due
    BY <1>4 DEF Due
  <2>5. credits' = [credits EXCEPT ![o] = @ + 1]
    BY <1>4, <1>6
  <2>6. Orders!Settle(o)
    BY <2>1, <2>2, <2>3, <2>4, <2>5 DEF Orders!Settle, Due, Paid
  <2>. QED BY <2>6 DEF Orders!Next
<1>. QED BY <1>5, <1>6

LEMMA MoveOrderMarks ==
    ASSUME IInv, NEW o \in Order, NEW s \in OrderStatus, MoveOrder(o, s)
    PROVE  Orders!Next
<1>1. TypeOK
  BY InvSplit
<1>2. UNCHANGED <<owner, outcome, credits>> /\ status' = [status EXCEPT ![o] = s]
  BY DEF MoveOrder, externalVars
<1>3. Due' = Due
  BY <1>2 DEF Due
<1>4. CASE s = "PAID"
  <2>1. Paid' = Paid \cup {o}
    BY <1>1, <1>2, <1>4 DEF Paid, TypeOK
  <2>2. Orders!Mark(o)
    BY <1>2, <1>3, <2>1 DEF Orders!Mark, Due, Paid
  <2>. QED BY <2>2 DEF Orders!Next
<1>5. CASE s # "PAID"
  <2>1. Paid' = Paid \ {o}
    BY <1>1, <1>2, <1>5 DEF Paid, TypeOK
  <2>2. Orders!Leave(o)
    BY <1>2, <1>3, <2>1 DEF Orders!Leave, Due, Paid
  <2>. QED BY <2>2 DEF Orders!Next
<1>. QED BY <1>4, <1>5

LEMMA PayInvoicePays ==
    ASSUME IInv, NEW i \in Invoice, PayInvoice(i)
    PROVE  Orders!Next
<1>1. TypeOK
  BY InvSplit
<1>2. /\ UNCHANGED <<status, owner, credits>> /\ owner[i] # None
      /\ outcome' = [outcome EXCEPT ![i] = "completed"]
  BY DEF PayInvoice, historyVars
<1>3. PICK o \in Order : o = owner[i]
  BY <1>1, <1>2 DEF TypeOK
<1>4. \A j \in Invoice : outcome'[j] = IF j = i THEN "completed" ELSE outcome[j]
  BY <1>1, <1>2 DEF TypeOK
<1>5. Due' = Due \cup {o}
  BY <1>2, <1>3, <1>4 DEF Due
<1>6. Paid' = Paid
  BY <1>2 DEF Paid
<1>7. Orders!CustomerPays(o)
  BY <1>2, <1>5, <1>6 DEF Orders!CustomerPays, Due, Paid
<1>. QED BY <1>7 DEF Orders!Next

LEMMA RefinedStep == IInv /\ [Next]_vars => [Orders!Next]_(Orders!vars)
<1>. SUFFICES ASSUME IInv, [Next]_vars PROVE Orders!Next \/ UNCHANGED Orders!vars
  OBVIOUS
<1>1. ASSUME NEW r \in Req, NEW o \in Order, NEW k \in Key \cup {None}, StartCheckout(r, o, k)
      PROVE  UNCHANGED Orders!vars
  BY <1>1, StillQuiet DEF StartCheckout, externalVars
<1>2. ASSUME NEW r \in Req, NEW i \in Invoice, NEW s \in Outcome, Receive(r, i, s)
      PROVE  UNCHANGED Orders!vars
  BY <1>2, StillQuiet DEF Receive
<1>3. ASSUME NEW r \in Req, NEW i \in Invoice, Confirm(r, i) PROVE UNCHANGED Orders!vars
  BY <1>3, StillQuiet DEF Confirm, externalVars, historyVars
<1>4. ASSUME NEW r \in Req, LoseRecord(r) \/ Fail(r) PROVE UNCHANGED Orders!vars
  BY <1>4, StillQuiet DEF LoseRecord, Fail, externalVars
<1>5. ASSUME NEW r \in Req, InvoiceRefused(r) \/ KeepInvoice(r) \/ SaveRecord(r)
                            \/ Answer(r) \/ ReadOrder(r)
      PROVE  UNCHANGED Orders!vars
  BY <1>5, StillQuiet
     DEF InvoiceRefused, KeepInvoice, SaveRecord, Answer, ReadOrder, externalVars, historyVars
<1>6. ASSUME NEW r \in Req, CreateInvoice(r) PROVE UNCHANGED Orders!vars
  BY <1>6, CreateInvoiceQuiet
<1>7. ASSUME NEW r \in Req, Pay(r) PROVE Orders!Next \/ UNCHANGED Orders!vars
  BY <1>7, PaySettles
<1>8. ASSUME NEW o \in Order, NEW s \in OrderStatus, MoveOrder(o, s) PROVE Orders!Next
  BY <1>8, MoveOrderMarks
<1>9. ASSUME NEW i \in Invoice, ExpireReply(i) \/ NotifyPending(i)
      PROVE  UNCHANGED Orders!vars
  BY <1>9, StillQuiet DEF ExpireReply, NotifyPending, externalVars, historyVars
<1>10. ASSUME NEW i \in Invoice, PayInvoice(i) PROVE Orders!Next
  BY <1>10, PayInvoicePays
<1>11. ASSUME NEW k \in Key, ExpireKey(k) PROVE UNCHANGED Orders!vars
  BY <1>11, StillQuiet DEF ExpireKey, externalVars
<1>12. CASE UNCHANGED vars
  BY <1>12, StillQuiet DEF vars, externalVars, historyVars
<1>. QED BY <1>1, <1>2, <1>3, <1>4, <1>5, <1>6, <1>7, <1>8, <1>9, <1>10, <1>11, <1>12
         DEF Next, Work

\* The settlements implement PaidOrders: however PayDunya's notifications and the customers'
\* returns race and repeat, a credit comes with an entry into PAID and with a payment.
THEOREM Settlements == Safety => SettledOnce
<1>1. Init => Orders!Init
  <2>. SUFFICES ASSUME Init PROVE Orders!Init
    OBVIOUS
  <2>1. Due = {} /\ Paid = {}
    BY DEF Init, Due, Paid
  <2>. QED BY <2>1 DEF Init, Orders!Init, Due, Paid
<1>2. IInv /\ [Next]_vars => [Orders!Next]_(Orders!vars)
  BY RefinedStep
<1>. QED BY <1>1, <1>2, Invariant, PTL DEF Safety, SettledOnce, Orders!Spec

=============================================================================
