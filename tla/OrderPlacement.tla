--------------------------- MODULE OrderPlacement ---------------------------
(***************************************************************************)
(* Placing an order: create with its idempotency record, the loyalty       *)
(* points and the stock of products and variants it takes, and what else   *)
(* writes that stock: the customer's cancellation and the seller's edits.  *)
(*                                                                         *)
(* Here a transaction is not one step.  PostgreSQL locks a row when a      *)
(* transaction first writes it and until the transaction ends; a second    *)
(* writer waits, then sees the committed value (READ COMMITTED).  db holds *)
(* the committed values, dirty what the holder of a row's lock has written *)
(* and not yet committed.  A transaction that throws, waits too long or    *)
(* whose server stops leaves db as it was.                                 *)
(*                                                                         *)
(* A row is a product's or a variant's stock or an account's points.  A    *)
(* member of Placing is one POST of an order and names the order it        *)
(* creates; a retry is another member with the same key.                   *)
(***************************************************************************)
EXTENDS Integers, Sequences, FiniteSets, Functions

CONSTANTS
    Product, Variant, Account,
    ProductOf,   \* Variant -> Product
    Placing,     \* calls of create
    Cart,        \* Placing -> what the call asks for
    Cancelling,  \* calls of cancelByCustomer
    Target,      \* Cancelling -> the order to cancel
    Updating,    \* calls of the seller's product update
    Edit,        \* Updating -> what the seller changes
    Removing,    \* calls of the seller's product removal
    Removed,     \* Removing -> the product
    Key,         \* idempotency keys
    Opening,     \* stock and points at the start
    None         \* no key, account, variant, lock holder, record, ...

Row == Product \cup Variant \cup Account
Lockable == Row \cup Placing
Req == Placing \cup Cancelling \cup Updating \cup Removing

\* pointsToUse is already capped by the total of the lines.
CartType == [key: Key \cup {None}, account: Account \cup {None}, points: Nat,
             lines: Seq([product: Product, variant: Variant \cup {None},
                         n: Nat \ {0}])]
\* A new stock or none; the variants that replace the product's, if any do.
EditType == [product: Product, stock: Nat \cup {None}, rewrite: BOOLEAN,
             variants: SUBSET Variant]

ASSUME RowAssumption ==
    /\ Product \cap Variant = {} /\ Product \cap Account = {}
    /\ Variant \cap Account = {} /\ Row \cap Placing = {}
    /\ ProductOf \in [Variant -> Product]
    /\ Opening \in [Row -> Nat]
ASSUME ReqAssumption ==
    /\ Placing \cap Cancelling = {} /\ Placing \cap Updating = {}
    /\ Placing \cap Removing = {} /\ Cancelling \cap Updating = {}
    /\ Cancelling \cap Removing = {} /\ Updating \cap Removing = {}
    /\ Cart \in [Placing -> CartType]
    /\ \A r \in Placing : /\ Cart[r].lines # <<>>
                          /\ Cart[r].account = None => Cart[r].points = 0
    /\ Target \in [Cancelling -> Placing]
    /\ Edit \in [Updating -> EditType]
    /\ Removed \in [Removing -> Product]
\* A line's variant is one of its product's (create checks it); the variants an
\* edit inserts are new rows, of the product it edits.
ASSUME VariantAssumption ==
    /\ \A r \in Placing : \A l \in Range(Cart[r].lines) :
          l.variant # None => ProductOf[l.variant] = l.product
    /\ \A u \in Updating : \A v \in Edit[u].variants : ProductOf[v] = Edit[u].product
    /\ \A u, w \in Updating : u # w => Edit[u].variants \cap Edit[w].variants = {}
ASSUME FiniteAssumption == IsFiniteSet(Placing)
ASSUME NoneAssumption == None \notin Row \cup Req \cup Key \cup Nat

VARIABLES
    db,       \* committed stock and points
    dirty,    \* written by the holder of the row's lock, not yet committed
    holder,   \* who holds the lock of a row or of an order
    alive,    \* the products and variants that exist
    order,    \* Order.status, "none" before the order is committed
    record,   \* IdempotencyKey: the order a live record answers with
    pc,       \* where each request is
    at,       \* the line its loop is at
    paidSeen, \* a cancellation read the order as PAID
    attached, \* the rows the order's lines still pointed to, as it read them
    answer,   \* the order a call of create answered with
    lost,     \* history: a record of the key was not saved, or expired
    overlap,  \* history: calls with the same key in flight when this one began
    returned, \* history: how often a cancellation gave a row back
    revived   \* history: how often the order was paid when cancelled

rowVars == <<db, dirty, holder, alive>>
cancelVars == <<paidSeen, attached, returned, revived>>
keyVars == <<record, answer, lost, overlap>>
vars == <<rowVars, order, cancelVars, keyVars, pc, at>>

-----------------------------------------------------------------------------
(* Lines of an order *)

LineRows(o) ==
    UNION {({l.product} \cup {l.variant}) \ {None} : l \in Range(Cart[o].lines)}

SpendsPoints(o) == Cart[o].account # None /\ Cart[o].points > 0

\* What the order takes from a row.
LineDemand(o, row) ==
    LET lines == Cart[o].lines IN
      [i \in DOMAIN lines |->
         IF row \in {lines[i].product, lines[i].variant} THEN lines[i].n ELSE 0]
PointsDemand(o, row) == IF row = Cart[o].account THEN Cart[o].points ELSE 0
Demand(o, row) == SumFunction(LineDemand(o, row)) + PointsDemand(o, row)

-----------------------------------------------------------------------------
(* The database *)

CanLock(r, i) == holder[i] \in {None, r}

\* The value a statement of r sees once it has the lock.
Current(r, row) == IF holder[row] = r THEN dirty[row] ELSE db[row]

Write(r, row, v) ==
    /\ CanLock(r, row)
    /\ holder' = [holder EXCEPT ![row] = r]
    /\ dirty' = [dirty EXCEPT ![row] = v]

Release(r) ==
    /\ holder' = [i \in Lockable |-> IF holder[i] = r THEN None ELSE holder[i]]
    /\ dirty' = [row \in Row |-> IF holder[row] = r THEN 0 ELSE dirty[row]]

Commit(r) ==
    /\ db' = [row \in Row |-> Current(r, row)]
    /\ Release(r)

\* Variant: what was written so far stays.
KeepWrites(r) ==
    /\ Commit(r)
    /\ pc' = [pc EXCEPT ![r] = "failed"]
    /\ UNCHANGED <<alive, order, cancelVars, keyVars, at>>

\* The transaction of r, if it has begun one, is undone; r answers an error.
Rollback(r) ==
    /\ Release(r)
    /\ pc' = [pc EXCEPT ![r] = "failed"]
    /\ UNCHANGED <<db, alive, order, cancelVars, keyVars, at>>

Goto(r, label) == pc' = [pc EXCEPT ![r] = label]

\* The first statements of the three transactions, and those that follow.
FirstLabels == {"insert", "status", "variants"}
LaterLabels == {"points", "product", "variant", "commit"}
InTx(r) == pc[r] \in FirstLabels \cup LaterLabels

\* The database makes r the victim of a deadlock, Prisma closes a transaction
\* open for more than 5 s, or the server stops.
Abandon(r) == InTx(r) /\ Rollback(r)

\* The insertion of an order's lines keeps the rows they point to from being
\* deleted until the transaction ends (foreign keys), not from being updated.
KeyShared(row) ==
    \E p \in Placing : pc[p] \in LaterLabels /\ row \in LineRows(p)

\* A variant held by an update is being deleted.
BeingDeleted(row) == row \in Variant /\ holder[row] \in Updating

FirstLine == 1

\* The loop over the lines of o goes on, or ends.
NextLine(r, o) ==
    IF at[r] < Len(Cart[o].lines)
      THEN at' = [at EXCEPT ![r] = @ + 1] /\ Goto(r, "product")
      ELSE Goto(r, "commit") /\ UNCHANGED at

-----------------------------------------------------------------------------
(* create *)

\* Variant: the answer is a call's own, recorded or not.
NeverRecorded(k) == FALSE

Recorded(k) == k # None /\ record[k] # None

\* getRecord: a live record answers; one that has expired is as good as none.
LookUp(r) ==
    /\ pc[r] = "idle"
    /\ LET k == Cart[r].key IN
         \/ /\ Recorded(k)
            /\ answer' = [answer EXCEPT ![r] = record[k]]
            /\ Goto(r, "done")
            /\ UNCHANGED overlap
         \/ /\ ~Recorded(k)
            /\ overlap' = [overlap EXCEPT ![r] =
                  {q \in Placing : Cart[q].key = k
                                   /\ pc[q] \notin {"idle", "done", "failed"}}]
            /\ Goto(r, "check")
            /\ UNCHANGED answer
    /\ UNCHANGED <<rowVars, order, cancelVars, record, lost, at>>

\* The check without a lock looks at each line, and at products only.
CheckStock(r) ==
    /\ pc[r] = "check"
    /\ Goto(r, IF /\ LineRows(r) \subseteq alive
                  /\ \A l \in Range(Cart[r].lines) : db[l.product] >= l.n
                 THEN "insert" ELSE "failed")
    /\ UNCHANGED <<rowVars, order, cancelVars, keyVars, at>>

\* The order and its lines are inserted.
Insert(r) ==
    /\ pc[r] = "insert"
    /\ \A row \in LineRows(r) : ~BeingDeleted(row)
    /\ IF LineRows(r) \subseteq alive
         THEN /\ Goto(r, IF SpendsPoints(r) THEN "points" ELSE "product")
              /\ at' = [at EXCEPT ![r] = FirstLine]
              /\ UNCHANGED <<rowVars, order, cancelVars, keyVars>>
         ELSE Rollback(r)

\* Variant: the condition of the update is forgotten.
AnyAmount(r, row, n) == TRUE

Suffices(r, row, n) == Current(r, row) >= n

\* updateMany with gte, then decrement ...
Take(r, row, n) ==
    /\ Suffices(r, row, n)
    /\ Write(r, row, Current(r, row) - n)
    /\ UNCHANGED <<db, alive, order, cancelVars, keyVars>>

\* ... or no row is changed, and the whole order fails.
Refuse(r, row, n) ==
    /\ CanLock(r, row)
    /\ ~Suffices(r, row, n)
    /\ Rollback(r)

LineOf(r, o) == Cart[o].lines[at[r]]

TakePoints(r) ==
    /\ pc[r] = "points"
    /\ LET c == Cart[r] IN
         \/ Refuse(r, c.account, c.points)
         \/ Take(r, c.account, c.points) /\ Goto(r, "product") /\ UNCHANGED at

TakeProduct(r) ==
    /\ pc[r] = "product"
    /\ LET l == LineOf(r, r) IN
         \/ Refuse(r, l.product, l.n)
         \/ /\ Take(r, l.product, l.n)
            /\ IF l.variant = None THEN NextLine(r, r)
                                   ELSE Goto(r, "variant") /\ UNCHANGED at

TakeVariant(r) ==
    /\ pc[r] = "variant"
    /\ LET l == LineOf(r, r) IN
         \/ Refuse(r, l.variant, l.n)
         \/ Take(r, l.variant, l.n) /\ NextLine(r, r)

CommitOrder(r) ==
    /\ pc[r] = "commit"
    /\ Commit(r)
    /\ order' = [order EXCEPT ![r] = "PENDING"]
    /\ answer' = [answer EXCEPT ![r] = r]
    /\ Goto(r, IF Cart[r].key = None THEN "done" ELSE "save")
    /\ UNCHANGED <<alive, cancelVars, record, lost, overlap, at>>

\* saveRecord, not awaited: it may fail, or the server stop before it.
SaveRecord(r) ==
    /\ pc[r] = "save"
    /\ \/ /\ record' = [record EXCEPT ![Cart[r].key] = r]
          /\ UNCHANGED lost
       \/ /\ lost' = [lost EXCEPT ![Cart[r].key] = TRUE]
          /\ UNCHANGED record
    /\ Goto(r, "done")
    /\ UNCHANGED <<rowVars, order, cancelVars, answer, overlap, at>>

\* An hour has passed.
Expire(k) ==
    /\ record[k] # None
    /\ record' = [record EXCEPT ![k] = None]
    /\ lost' = [lost EXCEPT ![k] = TRUE]
    /\ UNCHANGED <<rowVars, order, cancelVars, answer, overlap, pc, at>>

Place(r) ==
    \/ LookUp(r) \/ CheckStock(r) \/ Insert(r) \/ TakePoints(r)
    \/ TakeProduct(r) \/ TakeVariant(r) \/ CommitOrder(r) \/ SaveRecord(r)

-----------------------------------------------------------------------------
(* cancelByCustomer, and the payment that may precede it *)

\* A customer or a seller pays what is PENDING.  PayDunya's settlement pays what
\* is not PAID: an order cancelled in the meantime is paid, and may be cancelled
\* a second time.  OrderPayment has what else happens when an order is paid.
Pay(o) ==
    /\ order[o] \in {"PENDING", "CANCELLED"}
    /\ holder[o] = None
    /\ order' = [order EXCEPT ![o] = "PAID"]
    /\ revived' = [revived EXCEPT ![o] = IF order[o] = "CANCELLED" THEN @ + 1 ELSE @]
    /\ UNCHANGED <<rowVars, paidSeen, attached, returned, keyVars, pc, at>>

Cancellable(o) == order[o] \in {"PENDING", "PAID"}

CancelRead(c) ==
    /\ pc[c] = "idle"
    /\ Cancellable(Target[c])
    /\ paidSeen' = [paidSeen EXCEPT ![c] = order[Target[c]] = "PAID"]
    /\ Goto(c, "status")
    /\ UNCHANGED <<rowVars, order, attached, returned, revived, keyVars, at>>

\* The conditional update waits for the order's lock, then looks at the status
\* again.  The lines are read next: one whose product is gone has no product.
CancelStatus(c) ==
    /\ pc[c] = "status"
    /\ LET o == Target[c] IN
         /\ CanLock(c, o)
         /\ \/ /\ ~Cancellable(o)
               /\ Rollback(c)
            \/ /\ Cancellable(o)
               /\ holder' = [holder EXCEPT ![o] = c]
               /\ attached' = [attached EXCEPT ![c] = LineRows(o) \cap alive]
               /\ at' = [at EXCEPT ![c] = FirstLine]
               /\ Goto(c, IF paidSeen[c] /\ SpendsPoints(o) THEN "points"
                                                            ELSE "product")
               /\ UNCHANGED <<db, dirty, alive, order, paidSeen, returned, revived,
                              keyVars>>

\* An increment; the row may be gone since the lines were read.
GiveBack(c, row, n) ==
    /\ row \in alive \cup Account
    /\ Write(c, row, Current(c, row) + n)
    /\ UNCHANGED <<db, alive, order, cancelVars, keyVars>>

Gone(c, row) == row \notin alive /\ Rollback(c)

CancelPoints(c) ==
    /\ pc[c] = "points"
    /\ LET o == Target[c] IN GiveBack(c, Cart[o].account, Cart[o].points)
    /\ Goto(c, "product")
    /\ UNCHANGED at

\* Variant: the line's product goes back to stock, its variant does not.
ProductOnly(c, l) == FALSE

\* The line still points to a variant.
VariantAttached(c, l) == l.variant \in attached[c]

CancelProduct(c) ==
    /\ pc[c] = "product"
    /\ LET o == Target[c]
           l == LineOf(c, o) IN
         \/ /\ l.product \notin attached[c]
            /\ NextLine(c, o)
            /\ UNCHANGED <<rowVars, order, cancelVars, keyVars>>
         \/ /\ l.product \in attached[c]
            /\ \/ Gone(c, l.product)
               \/ /\ GiveBack(c, l.product, l.n)
                  /\ IF VariantAttached(c, l) THEN Goto(c, "variant") /\ UNCHANGED at
                                              ELSE NextLine(c, o)

CancelVariant(c) ==
    /\ pc[c] = "variant"
    /\ LET o == Target[c]
           l == LineOf(c, o) IN
         \/ Gone(c, l.variant)
         \/ GiveBack(c, l.variant, l.n) /\ NextLine(c, o)

CancelCommit(c) ==
    /\ pc[c] = "commit"
    /\ Commit(c)
    /\ LET o == Target[c] IN
         /\ order' = [order EXCEPT ![o] = "CANCELLED"]
         /\ returned' = [returned EXCEPT ![o] =
               [row \in Row |-> @[row] + (IF holder[row] = c THEN 1 ELSE 0)]]
    /\ Goto(c, "done")
    /\ UNCHANGED <<alive, paidSeen, attached, revived, keyVars, at>>

Cancel(c) ==
    \/ CancelRead(c) \/ CancelStatus(c) \/ CancelPoints(c)
    \/ CancelProduct(c) \/ CancelVariant(c) \/ CancelCommit(c)

-----------------------------------------------------------------------------
(* The seller's product update and removal *)

VariantsOf(p) == {v \in alive \cap Variant : ProductOf[v] = p}

\* Variant: an edit that sends no variants replaces them all the same, by none.
WhateverIsSent(u) == TRUE

\* The form sent variants: they replace the product's, be they none.
ReplacesVariants(u) == Edit[u].rewrite

UpdateStart(u) ==
    /\ pc[u] = "idle"
    /\ Edit[u].product \in alive
    /\ Goto(u, IF ReplacesVariants(u) THEN "variants" ELSE "product")
    /\ UNCHANGED <<rowVars, order, cancelVars, keyVars, at>>

\* deleteMany: one row after the other, in no particular order.
DeleteVariants(u) ==
    /\ pc[u] = "variants"
    /\ LET left == {v \in VariantsOf(Edit[u].product) : holder[v] # u} IN
         \/ /\ left = {}
            /\ Goto(u, "product")
            /\ UNCHANGED <<rowVars, order, cancelVars, keyVars, at>>
         \/ \E v \in left :
              /\ ~KeyShared(v)
              /\ Write(u, v, db[v])
              /\ UNCHANGED <<db, alive, order, cancelVars, keyVars, pc, at>>

\* The stock, if given, is written whatever it has become.
UpdateProduct(u) ==
    /\ pc[u] = "product"
    /\ LET e == Edit[u] IN
         \/ e.product \notin alive /\ Rollback(u)
         \/ /\ e.product \in alive
            /\ Write(u, e.product,
                     IF e.stock = None THEN Current(u, e.product) ELSE e.stock)
            /\ Goto(u, "commit")
            /\ UNCHANGED <<db, alive, order, cancelVars, keyVars, at>>

\* The variants locked by u are gone, the new ones are there.
UpdateCommit(u) ==
    /\ pc[u] = "commit"
    /\ Commit(u)
    /\ alive' = IF ReplacesVariants(u)
                  THEN {row \in alive : row \in Product \/ holder[row] # u}
                         \cup Edit[u].variants
                  ELSE alive
    /\ Goto(u, "done")
    /\ UNCHANGED <<order, cancelVars, keyVars, at>>

Update(u) ==
    UpdateStart(u) \/ DeleteVariants(u) \/ UpdateProduct(u) \/ UpdateCommit(u)

\* One statement deletes the product and its variants; the lines of orders that
\* pointed to them no longer do.
Remove(q) ==
    /\ pc[q] = "idle"
    /\ Removed[q] \in alive
    /\ LET gone == {Removed[q]} \cup VariantsOf(Removed[q]) IN
         /\ \A row \in gone : holder[row] = None /\ ~KeyShared(row)
         /\ alive' = alive \ gone
    /\ Goto(q, "done")
    /\ UNCHANGED <<db, dirty, holder, order, cancelVars, keyVars, at>>

-----------------------------------------------------------------------------
Init ==
    /\ db = Opening
    /\ dirty = [row \in Row |-> 0]
    /\ holder = [i \in Lockable |-> None]
    /\ alive = Product \cup (Variant \ UNION {Edit[u].variants : u \in Updating})
    /\ order = [o \in Placing |-> "none"]
    /\ record = [k \in Key |-> None]
    /\ pc = [r \in Req |-> "idle"]
    /\ at = [r \in Req |-> 1]
    /\ paidSeen = [c \in Cancelling |-> FALSE]
    /\ attached = [c \in Cancelling |-> {}]
    /\ answer = [r \in Placing |-> None]
    /\ lost = [k \in Key |-> FALSE]
    /\ overlap = [r \in Placing |-> {}]
    /\ returned = [o \in Placing |-> [row \in Row |-> 0]]
    /\ revived = [o \in Placing |-> 0]

Next ==
    \/ \E r \in Placing : Place(r) \/ Pay(r)
    \/ \E c \in Cancelling : Cancel(c)
    \/ \E u \in Updating : Update(u)
    \/ \E q \in Removing : Remove(q)
    \/ \E r \in Req : Abandon(r)
    \/ \E k \in Key : Expire(k)

Spec == Init /\ [][Next]_vars

-----------------------------------------------------------------------------
(* Properties *)

\* The types of the variables; that no amount is negative is stated below.
TypeOK ==
    /\ db \in [Row -> Int]
    /\ dirty \in [Row -> Int]
    /\ holder \in [Lockable -> Req \cup {None}]
    /\ alive \subseteq Product \cup Variant
    /\ order \in [Placing -> {"none", "PENDING", "PAID", "CANCELLED"}]
    /\ record \in [Key -> Placing \cup {None}]
    /\ pc \in [Req -> {"idle", "check", "save", "done", "failed"}
                        \cup FirstLabels \cup LaterLabels]
    /\ at \in [Req -> Nat \ {0}]
    /\ paidSeen \in [Cancelling -> BOOLEAN]
    /\ attached \in [Cancelling -> SUBSET (Product \cup Variant)]
    /\ answer \in [Placing -> Placing \cup {None}]
    /\ lost \in [Key -> BOOLEAN]
    /\ overlap \in [Placing -> SUBSET Placing]
    /\ returned \in [Placing -> [Row -> Nat]]
    /\ revived \in [Placing -> Nat]

\* Neither stock nor points are ever negative, committed or about to be, however
\* the transactions of orders, cancellations and the seller's edits interleave
\* (the conditional updates of create, whose first check has no lock).
NeverNegative == \A row \in Row : db[row] >= 0 /\ dirty[row] >= 0

\* Without edits by the seller, what a row has lost is exactly what the orders
\* took less what cancellations gave back: an order that failed halfway, was
\* chosen to break a deadlock or lost its server has taken nothing.  A row comes
\* back once for an order that is cancelled and not for one that stands, except
\* that each payment of a cancelled order (PayDunya's) allows one return more.
TakenBy(row) ==
    SumFunction([o \in Placing |->
        IF order[o] # "none" THEN Demand(o, row) * (1 - returned[o][row]) ELSE 0])
ReturnsEarned ==
    \A o \in Placing, row \in Row :
        returned[o][row] <= revived[o] + (IF order[o] = "CANCELLED" THEN 1 ELSE 0)
StockMatchesOrders ==
    /\ \A row \in Row : db[row] + TakenBy(row) = Opening[row]
    /\ ReturnsEarned

\* What a call of create answers, and what the idempotency record will answer,
\* is an order that was committed, for a call with that key.
AnswersArePlaced ==
    /\ \A r \in Placing : LET o == answer[r] IN
         o # None => order[o] # "none" /\ Cart[o].key = Cart[r].key
    /\ \A k \in Key : LET o == record[k] IN
         o # None => order[o] # "none" /\ Cart[o].key = k

\* Two calls with one key place two orders only if one of them began while the
\* other was running, or a record was lost: not saved, or an hour old.
DuplicatesOverlap ==
    \A r, q \in Placing :
        /\ r # q /\ Cart[r].key = Cart[q].key /\ Cart[r].key # None
        /\ order[r] # "none" /\ order[q] # "none"
        => r \in overlap[q] \/ q \in overlap[r] \/ lost[Cart[r].key]

\* What a retry with the key of an earlier call gets from the server.
KeysHonoured ==
    /\ AnswersArePlaced
    /\ DuplicatesOverlap

\* Whatever happens inside transactions, from outside an order takes all it
\* needs at one instant or nothing, a cancellation gives all of it back, and an
\* edit touches its own product only.
Ledger == INSTANCE PlacementLedger
            WITH Order <- Placing, stock <- db,
                 Takes <- [o \in Placing |-> [row \in Row |-> Demand(o, row)]]
ImplementsLedger == Ledger!Spec

\* The order that create or cancelByCustomer goes through.
OrderOf(r) == IF r \in Cancelling THEN Target[r] ELSE r

\* The next statement of r locks i.
Locks(r, i) ==
    /\ i \in alive \cup Account \cup Placing
    /\ \/ r \in Cancelling /\ pc[r] = "status" /\ i = Target[r]
       \/ pc[r] = "points" /\ i = Cart[OrderOf(r)].account
       \/ /\ r \notin Updating /\ pc[r] = "product"
          /\ i = LineOf(r, OrderOf(r)).product
          /\ r \in Cancelling => i \in attached[r]
       \/ pc[r] = "variant" /\ i = LineOf(r, OrderOf(r)).variant
       \/ r \in Updating /\ pc[r] = "product" /\ i = Edit[r].product
       \/ pc[r] = "variants" /\ i \in VariantsOf(Edit[r].product) /\ holder[i] # r

\* r has to wait for q: for a lock it holds, for lines it has inserted that point
\* to a variant r deletes, or, to insert such lines, for its deletion.
WaitsFor(r, q) ==
    \E i \in Lockable :
        \/ Locks(r, i) /\ holder[i] = q /\ q # r
        \/ /\ pc[r] = "variants" /\ Locks(r, i)
           /\ q \in Placing /\ pc[q] \in LaterLabels /\ i \in LineRows(q)
        \/ pc[r] = "insert" /\ i \in LineRows(r) /\ BeingDeleted(i) /\ holder[i] = q

Waiting == {r \in Req : \E q \in Req : WaitsFor(r, q)}

\* None of them can go on: each waits for another one, or for a call that has ended.
Stuck(S) ==
    S # {} /\ \A r \in S : \E q \in Req : WaitsFor(r, q) /\ (q \in S \/ ~InTx(q))

\* r may lock row a before row b.  Points come first, and a product before its
\* variant.  create goes through its lines in their order; a cancellation reads
\* them without asking for one.
MayPrecede(r, a, b) ==
    LET o == OrderOf(r)
        rows(i) == {Cart[o].lines[i].product, Cart[o].lines[i].variant}
    IN  /\ {a, b} \subseteq LineRows(o) \cup {Cart[o].account}
        /\ a # b /\ b \notin Account
        /\ \/ a \in Account
           \/ \E i \in DOMAIN Cart[o].lines :
                /\ a \in rows(i) /\ ~(a \in Variant /\ b = ProductOf[a])
                /\ r \in Placing => \A j \in 1 .. (i - 1) : b \notin rows(j)

\* Orders and cancellations of S may lock the same rows in crossing orders.
Crossed(S) ==
    \E rows \in SUBSET Row \ {{}} :
        \A a \in rows : \E b \in rows, r \in S \ Updating : MayPrecede(r, a, b)

\* Transactions come to wait for each other in a circle only when an edit replaces
\* the variants (it locks them before their product, create and cancelByCustomer
\* after) or when orders list the same products in crossing orders: never because
\* of points, of an order's own row, of a line listed twice or of an edit of the
\* stock alone.  And nobody waits for a call that has ended.
OnlyCrossingCallsStick ==
    \A S \in SUBSET Waiting :
        Stuck(S) => Crossed(S) \/ \E u \in S \cap Updating : Edit[u].rewrite

\* The inductive invariant: what remains true of a call of create ...
InFlight(r) == pc[r] \notin {"idle", "done", "failed"}
Live(r) == order[r] # "none" \/ InFlight(r)

PlaceInv(r) ==
    /\ at[r] <= Len(Cart[r].lines)
    /\ order[r] # "none" <=> pc[r] = "save" \/ (pc[r] = "done" /\ answer[r] = r)
    /\ pc[r] = "save" => Cart[r].key # None /\ answer[r] = r
    /\ pc[r] = "points" => SpendsPoints(r)

\* ... of a cancellation ...
CancelInv(c) ==
    /\ at[c] <= Len(Cart[Target[c]].lines)
    /\ pc[c] # "idle" => order[Target[c]] # "none"

\* ... and of a key: a committed order is about to be recorded, or its record is
\* there unless it was lost, and calls that overlap know of each other.
KeyInv ==
    /\ \A r \in Placing :
         order[r] # "none" /\ Cart[r].key # None
         => \/ pc[r] = "save" \/ record[Cart[r].key] # None \/ lost[Cart[r].key]
    /\ \A r, q \in Placing :
         /\ r # q /\ Cart[r].key = Cart[q].key /\ Cart[r].key # None
         /\ Live(r) /\ Live(q)
         => r \in overlap[q] \/ q \in overlap[r] \/ lost[Cart[r].key]

IInv ==
    /\ TypeOK /\ NeverNegative /\ AnswersArePlaced /\ KeyInv
    /\ \A r \in Placing : PlaceInv(r)
    /\ \A c \in Cancelling : CancelInv(c)
\* What the transactions that are open have done so far, and the locks that keep
\* it from being disturbed.  At a label and line k, a transaction has moved the
\* lines before k, the product of k if it is at its variant, and the points.
LinesBehind(label, k, o) ==
    IF label = "commit" THEN DOMAIN Cart[o].lines ELSE 1 .. (k - 1)
Moved(label, k, o, row) ==
    SumFunctionOnSet(LineDemand(o, row), LinesBehind(label, k, o))
    + (IF label = "variant" /\ row = Cart[o].lines[k].product
         THEN Cart[o].lines[k].n ELSE 0)
    + (IF label # "points" THEN PointsDemand(o, row) ELSE 0)

\* Create has taken what it has moved, of rows that stay until it commits.
CreateTx(r) ==
    /\ IF pc[r] \in LaterLabels
         THEN /\ \A row \in Row : Current(r, row) = db[row] - Moved(pc[r], at[r], r, row)
              /\ LineRows(r) \subseteq alive
              /\ \A row \in LineRows(r) : ~BeingDeleted(row)
         ELSE \A row \in Row : holder[row] # r
    /\ order[r] = "none" => returned[r] = [row \in Row |-> 0]

\* A cancellation has given back what it has moved of the rows that were there
\* when it read the order, which nobody else can cancel until it ends.
Returnable(c) == attached[c] \cup (IF paidSeen[c] THEN Account ELSE {})
CancelTx(c) ==
    LET o == Target[c] IN
    /\ IF pc[c] \in LaterLabels
         THEN /\ holder[o] = c /\ Cancellable(o)
              /\ \A row \in Row : Current(c, row) = db[row] +
                    (IF row \in Returnable(c) THEN Moved(pc[c], at[c], o, row) ELSE 0)
              /\ \A row \in Row : holder[row] = c =>
                    row \in Returnable(c) /\ row \in alive \cup Account
              /\ alive \cap LineRows(o) \subseteq attached[c]
              /\ \A v \in attached[c] \cap Variant : ProductOf[v] \in attached[c]
              /\ pc[c] = "points" => paidSeen[c] /\ SpendsPoints(o)
              /\ pc[c] = "variant" => /\ LineOf(c, o).product \in attached[c]
                                      /\ VariantAttached(c, LineOf(c, o))
         ELSE \A row \in Row : holder[row] # c
    /\ paidSeen[c] => order[o] \in {"PAID", "CANCELLED"}

\* An edit has changed its product only: the variants it holds are as they were.
\* Those it inserts are not there before it commits.
UpdateTx(u) ==
    LET e == Edit[u] IN
    /\ \A row \in Row : holder[row] = u =>
          /\ InTx(u)
          /\ \/ row = e.product /\ pc[u] = "commit"
             \/ row \in Variant /\ ProductOf[row] = e.product /\ dirty[row] = db[row]
    /\ pc[u] = "commit" => /\ holder[e.product] = u /\ e.product \in alive
                           /\ e.stock = None => dirty[e.product] = db[e.product]
    /\ pc[u] # "done" =>
          /\ e.variants \cap alive = {}
          /\ \A o \in Placing : order[o] # "none" => e.variants \cap LineRows(o) = {}

\* Why every commit is one step of the ledger.
TxInv ==
    /\ \A r \in Placing : CreateTx(r)
    /\ \A c \in Cancelling : CancelTx(c)
    /\ \A u \in Updating : UpdateTx(u)
    /\ \A v \in alive \cap Variant : ProductOf[v] \in alive

=============================================================================
