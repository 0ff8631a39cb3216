----------------------- MODULE OrderPlacement_proofs -----------------------
EXTENDS OrderPlacement, Sums, TLAPS

Labels == {"idle", "check", "save", "done", "failed"} \cup FirstLabels \cup LaterLabels

\* Rows and locks have their types, and no amount is negative.
RowsOK ==
    /\ db \in [Row -> Nat]
    /\ dirty \in [Row -> Nat]
    /\ holder \in [Lockable -> Req \cup {None}]

\* Everything else has its type.
RestOK ==
    /\ alive \subseteq Product \cup Variant
    /\ order \in [Placing -> {"none", "PENDING", "PAID", "CANCELLED"}]
    /\ record \in [Key -> Placing \cup {None}]
    /\ pc \in [Req -> Labels]
    /\ at \in [Req -> Nat \ {0}]
    /\ paidSeen \in [Cancelling -> BOOLEAN]
    /\ attached \in [Cancelling -> SUBSET (Product \cup Variant)]
    /\ answer \in [Placing -> Placing \cup {None}]
    /\ lost \in [Key -> BOOLEAN]
    /\ overlap \in [Placing -> SUBSET Placing]
    /\ returned \in [Placing -> [Row -> Nat]]
    /\ revived \in [Placing -> Nat]

\* The types, split into those of the rows and those of the rest.
LEMMA TypeSplit == TypeOK /\ NeverNegative <=> RowsOK /\ RestOK
<1>1. TypeOK /\ NeverNegative => RowsOK /\ RestOK
  BY DEF TypeOK, NeverNegative, RowsOK, RestOK, Labels
<1>2. RowsOK /\ RestOK => TypeOK /\ NeverNegative
  BY DEF TypeOK, NeverNegative, RowsOK, RestOK, Labels
<1>. QED BY <1>1, <1>2

\* The parts make the types, after a step.
LEMMA TypeJoin ==
    ASSUME RowsOK', RestOK'
    PROVE  TypeOK' /\ NeverNegative'
  BY DEF TypeOK, NeverNegative, RowsOK, RestOK, Labels

-----------------------------------------------------------------------------
(* Carts *)

\* A cart has a line at least, and each line a product and a quantity.
LEMMA CartFacts ==
    ASSUME NEW o \in Placing
    PROVE  /\ Cart[o].key \in Key \cup {None}
           /\ Cart[o].points \in Nat
           /\ Cart[o].account \in Account \cup {None}
           /\ Len(Cart[o].lines) \in Nat /\ Len(Cart[o].lines) >= 1
           /\ \A i \in 1 .. Len(Cart[o].lines) :
                /\ Cart[o].lines[i].product \in Product
                /\ Cart[o].lines[i].variant \in Variant \cup {None}
                /\ Cart[o].lines[i].n \in Nat
<1>1. Cart[o] \in CartType /\ Cart[o].lines # <<>>
  BY ReqAssumption
<1>. DEFINE LineType == [product: Product, variant: Variant \cup {None}, n: Nat \ {0}]
<1>2. Cart[o].lines \in Seq(LineType)
  BY <1>1 DEF CartType
<1>3. \A i \in 1 .. Len(Cart[o].lines) : Cart[o].lines[i] \in LineType
  <2>. HIDE DEF LineType
  <2>. QED BY <1>2
<1>4. Len(Cart[o].lines) \in Nat /\ Len(Cart[o].lines) >= 1
  BY <1>1, <1>2
<1>. QED BY <1>1, <1>3, <1>4 DEF CartType

\* The line the loop of r is at is one of the order's lines.
LEMMA LineFacts ==
    ASSUME RestOK, NEW r \in Req, NEW o \in Placing, at[r] <= Len(Cart[o].lines)
    PROVE  /\ LineOf(r, o).product \in Product
           /\ LineOf(r, o).variant \in Variant \cup {None}
           /\ LineOf(r, o).n \in Nat
<1>1. at[r] \in 1 .. Len(Cart[o].lines)
  BY CartFacts DEF RestOK
<1>. QED BY <1>1, CartFacts DEF LineOf

\* The next line is within the cart, or the order commits.
LEMMA NextLineFacts ==
    ASSUME RestOK, NEW r \in Req, NEW o \in Placing, at[r] <= Len(Cart[o].lines),
           NextLine(r, o)
    PROVE  /\ pc' \in [Req -> Labels] /\ pc'[r] \in {"product", "commit"}
           /\ at' \in [Req -> Nat \ {0}] /\ at'[r] <= Len(Cart[o].lines)
           /\ \A x \in Req : x # r => pc'[x] = pc[x] /\ at'[x] = at[x]
<1>1. Len(Cart[o].lines) \in Nat /\ at[r] \in Nat \ {0}
  BY CartFacts DEF RestOK
<1>2. {"product", "commit"} \subseteq Labels
  BY DEF Labels, LaterLabels
<1>3. CASE at[r] < Len(Cart[o].lines)
  <2>1. at' = [at EXCEPT ![r] = @ + 1] /\ pc' = [pc EXCEPT ![r] = "product"]
    BY <1>3 DEF NextLine, Goto
  <2>2. at[r] + 1 \in Nat \ {0} /\ at[r] + 1 <= Len(Cart[o].lines)
    BY <1>1, <1>3
  <2>. QED BY <1>2, <2>1, <2>2 DEF RestOK
<1>4. CASE ~(at[r] < Len(Cart[o].lines))
  <2>1. at' = at /\ pc' = [pc EXCEPT ![r] = "commit"]
    BY <1>4 DEF NextLine, Goto
  <2>. QED BY <1>2, <2>1 DEF RestOK
<1>. QED BY <1>3, <1>4

\* One request moves.
LEMMA GotoFacts ==
    ASSUME RestOK, NEW r \in Req, NEW l \in Labels, Goto(r, l)
    PROVE  /\ pc' \in [Req -> Labels] /\ pc'[r] = l
           /\ \A x \in Req : x # r => pc'[x] = pc[x]
  BY DEF Goto, RestOK

-----------------------------------------------------------------------------
(* Rows and locks *)

\* What a request reads of a row is a natural number.
LEMMA CurrentType ==
    ASSUME RowsOK, NEW r, NEW row \in Row
    PROVE  Current(r, row) \in Nat
  BY DEF RowsOK, Current

\* A write keeps the types of the rows.
LEMMA WriteFacts ==
    ASSUME RowsOK, NEW r \in Req, NEW row, NEW v, Write(r, row, v),
           row \in Row => v \in Nat
    PROVE  dirty' \in [Row -> Nat] /\ holder' \in [Lockable -> Req \cup {None}]
  BY DEF RowsOK, Write

\* So does a transaction that ends.
LEMMA ReleaseFacts ==
    ASSUME RowsOK, NEW r, Release(r)
    PROVE  dirty' \in [Row -> Nat] /\ holder' \in [Lockable -> Req \cup {None}]
  BY DEF RowsOK, Release, Lockable

\* So does a commit.
LEMMA CommitFacts ==
    ASSUME RowsOK, NEW r, Commit(r)
    PROVE  RowsOK'
<1>1. db' \in [Row -> Nat]
  BY CurrentType DEF Commit
<1>. QED BY <1>1, ReleaseFacts DEF Commit, RowsOK

\* A decrement writes its row and nothing else.
LEMMA TakeFacts ==
    ASSUME RowsOK, NEW r \in Req, NEW row, NEW n \in Nat, Take(r, row, n)
    PROVE  /\ RowsOK'
           /\ UNCHANGED <<alive, order, cancelVars, keyVars>>
<1>1. row \in Row => Current(r, row) - n \in Nat
  BY CurrentType DEF Take, Suffices
<1>2. dirty' \in [Row -> Nat] /\ holder' \in [Lockable -> Req \cup {None}]
  BY <1>1, WriteFacts DEF Take
<1>. QED BY <1>2 DEF Take, RowsOK

\* An increment writes its row and nothing else.
LEMMA GiveBackFacts ==
    ASSUME RowsOK, NEW r \in Req, NEW row, NEW n \in Nat, GiveBack(r, row, n)
    PROVE  /\ RowsOK'
           /\ UNCHANGED <<alive, order, cancelVars, keyVars>>
<1>1. row \in Row => Current(r, row) + n \in Nat
  BY CurrentType
<1>2. dirty' \in [Row -> Nat] /\ holder' \in [Lockable -> Req \cup {None}]
  BY <1>1, WriteFacts DEF GiveBack
<1>. QED BY <1>2 DEF GiveBack, RowsOK

-----------------------------------------------------------------------------
(* Steps that leave orders, answers and records alone *)

\* A step of a call of create between its look-up and its commit.
LEMMA PlacingMove ==
    ASSUME IInv, NEW r \in Placing, InFlight(r), pc[r] # "save",
           pc' \in [Req -> Labels], at' \in [Req -> Nat \ {0}],
           \A x \in Req : x # r => pc'[x] = pc[x] /\ at'[x] = at[x],
           at'[r] <= Len(Cart[r].lines),
           pc'[r] \notin {"idle", "save", "done"},
           pc'[r] = "points" => SpendsPoints(r),
           RowsOK', UNCHANGED <<alive, order, cancelVars, keyVars>>
    PROVE  IInv'
<1>. USE DEF IInv
<1>1. RestOK /\ Placing \subseteq Req /\ Cancelling \subseteq Req
  BY TypeSplit DEF Req
<1>2. RestOK'
  BY <1>1 DEF RestOK, cancelVars, keyVars
<1>3. order[r] = "none"
  BY DEF PlaceInv, InFlight
<1>4. \A q \in Placing : PlaceInv(q)'
  <2>. TAKE q \in Placing
  <2>1. CASE q = r
    BY <1>3, <2>1 DEF PlaceInv, SpendsPoints, keyVars
  <2>2. CASE q # r
    BY <1>1, <2>2 DEF PlaceInv, SpendsPoints, keyVars
  <2>. QED BY <2>1, <2>2
<1>5. \A c \in Cancelling : CancelInv(c)'
  BY <1>1, ReqAssumption DEF CancelInv
<1>6. AnswersArePlaced'
  BY DEF AnswersArePlaced, keyVars
<1>7. KeyInv'
  <2>1. \A x \in Placing : Live(x)' => Live(x)
    BY <1>1 DEF Live, InFlight
  <2>2. \A x \in Placing : order[x] # "none" => pc'[x] = pc[x]
    BY <1>1, <1>3
  <2>. QED BY <2>1, <2>2 DEF KeyInv, keyVars
<1>. QED BY <1>2, <1>4, <1>5, <1>6, <1>7, TypeJoin

\* A step of a cancellation, an update or a removal.
LEMMA OtherMove ==
    ASSUME IInv, NEW r \in Req, r \notin Placing,
           pc' \in [Req -> Labels], at' \in [Req -> Nat \ {0}],
           \A x \in Req : x # r => pc'[x] = pc[x] /\ at'[x] = at[x],
           r \in Cancelling => /\ at'[r] <= Len(Cart[Target[r]].lines)
                              /\ order[Target[r]] # "none",
           RowsOK', alive' \subseteq Product \cup Variant,
           order' \in [Placing -> {"none", "PENDING", "PAID", "CANCELLED"}],
           \A o \in Placing : order'[o] = "none" <=> order[o] = "none",
           paidSeen' \in [Cancelling -> BOOLEAN],
           attached' \in [Cancelling -> SUBSET (Product \cup Variant)],
           returned' \in [Placing -> [Row -> Nat]], revived' \in [Placing -> Nat],
           UNCHANGED keyVars
    PROVE  IInv'
<1>. USE DEF IInv
<1>1. RestOK /\ Placing \subseteq Req /\ Cancelling \subseteq Req
  BY TypeSplit DEF Req
<1>2. RestOK'
  BY <1>1 DEF RestOK, keyVars
<1>3. \A q \in Placing : pc'[q] = pc[q] /\ at'[q] = at[q]
  BY <1>1
<1>4. \A q \in Placing : PlaceInv(q)'
  BY <1>3 DEF PlaceInv, SpendsPoints, keyVars
<1>5. \A c \in Cancelling : CancelInv(c)'
  <2>. TAKE c \in Cancelling
  <2>0. Target[c] \in Placing
    BY ReqAssumption
  <2>1. CASE c = r
    BY <2>0, <2>1 DEF CancelInv
  <2>2. CASE c # r
    BY <1>1, <2>0, <2>2 DEF CancelInv
  <2>. QED BY <2>1, <2>2
<1>6. AnswersArePlaced'
  BY <1>1 DEF AnswersArePlaced, keyVars, RestOK
<1>7. KeyInv'
  BY <1>3 DEF KeyInv, Live, InFlight, keyVars
<1>. QED BY <1>2, <1>4, <1>5, <1>6, <1>7, TypeJoin

\* The invariant gives its parts.
LEMMA Facts ==
    ASSUME IInv
    PROVE  /\ RowsOK /\ RestOK
           /\ Placing \subseteq Req /\ Cancelling \subseteq Req
           /\ Updating \subseteq Req /\ Removing \subseteq Req
           /\ \A r \in Placing : at[r] <= Len(Cart[r].lines)
           /\ \A c \in Cancelling : /\ Target[c] \in Placing
                                    /\ at[c] <= Len(Cart[Target[c]].lines)
  BY TypeSplit, ReqAssumption DEF IInv, PlaceInv, CancelInv, Req

\* A call that fails undoes what it wrote.
LEMMA RollbackStep ==
    ASSUME IInv, NEW r \in Req, Rollback(r),
           r \in Placing => InFlight(r) /\ pc[r] # "save",
           r \in Cancelling => order[Target[r]] # "none"
    PROVE  IInv'
<1>1. RowsOK /\ RestOK
  BY Facts
<1>2. RowsOK'
  BY <1>1, ReleaseFacts DEF Rollback, RowsOK
<1>3. pc' \in [Req -> Labels] /\ pc'[r] = "failed" /\ at' = at
  BY <1>1 DEF Rollback, RestOK, Labels
<1>4. \A x \in Req : x # r => pc'[x] = pc[x]
  BY <1>1 DEF Rollback, RestOK
<1>5. UNCHANGED <<alive, order, cancelVars, keyVars>>
  BY DEF Rollback
<1>6. at' \in [Req -> Nat \ {0}]
  BY <1>1, <1>3 DEF RestOK
<1>7. CASE r \in Placing
  BY <1>2, <1>3, <1>4, <1>5, <1>6, <1>7, Facts, PlacingMove
<1>8. CASE r \notin Placing
  <2>1. r \in Cancelling => at'[r] <= Len(Cart[Target[r]].lines)
    BY <1>3, Facts
  <2>2. /\ alive' \subseteq Product \cup Variant
        /\ order' \in [Placing -> {"none", "PENDING", "PAID", "CANCELLED"}]
        /\ paidSeen' \in [Cancelling -> BOOLEAN]
        /\ attached' \in [Cancelling -> SUBSET (Product \cup Variant)]
        /\ returned' \in [Placing -> [Row -> Nat]] /\ revived' \in [Placing -> Nat]
    BY <1>1, <1>5 DEF RestOK, cancelVars
  <2>. QED BY <1>2, <1>3, <1>4, <1>5, <1>6, <1>8, <2>1, <2>2, OtherMove
<1>. QED BY <1>7, <1>8

-----------------------------------------------------------------------------
(* create *)

\* The first reads of create keep the invariant.
LEMMA CheckStockStep ==
    ASSUME IInv, NEW r \in Placing, CheckStock(r)
    PROVE  IInv'
<1>1. RowsOK /\ RestOK /\ r \in Req
  BY Facts
<1>2. PICK l \in {"insert", "failed"} : Goto(r, l)
  BY DEF CheckStock
<1>3. l \in Labels
  BY <1>2 DEF Labels, FirstLabels
<1>4. pc' \in [Req -> Labels] /\ pc'[r] = l /\ \A x \in Req : x # r => pc'[x] = pc[x]
  BY <1>1, <1>2, <1>3, GotoFacts
<1>5. UNCHANGED <<rowVars, order, cancelVars, keyVars, at>>
  BY DEF CheckStock
<1>6. RowsOK' /\ UNCHANGED alive
  BY <1>1, <1>5 DEF RowsOK, rowVars
<1>7. InFlight(r) /\ pc[r] # "save"
  BY DEF CheckStock, InFlight
<1>8. at' \in [Req -> Nat \ {0}] /\ at'[r] <= Len(Cart[r].lines)
  BY <1>1, <1>5, Facts DEF RestOK
<1>. QED BY <1>2, <1>4, <1>5, <1>6, <1>7, <1>8, PlacingMove

\* The insertion of the order keeps the invariant.
LEMMA InsertStep ==
    ASSUME IInv, NEW r \in Placing, Insert(r)
    PROVE  IInv'
<1>1. RowsOK /\ RestOK /\ r \in Req
  BY Facts
<1>2. InFlight(r) /\ pc[r] # "save"
  BY DEF Insert, InFlight
<1>3. CASE LineRows(r) \subseteq alive
  <2>1. /\ Goto(r, IF SpendsPoints(r) THEN "points" ELSE "product")
        /\ at' = [at EXCEPT ![r] = 1]
        /\ UNCHANGED <<rowVars, order, cancelVars, keyVars>>
    BY <1>3 DEF Insert, FirstLine
  <2>2. PICK l \in {"points", "product"} :
          Goto(r, l) /\ (l = "points" => SpendsPoints(r))
    BY <2>1
  <2>3. l \in Labels
    BY <2>2 DEF Labels, LaterLabels
  <2>4. pc' \in [Req -> Labels] /\ pc'[r] = l /\ \A x \in Req : x # r => pc'[x] = pc[x]
    BY <1>1, <2>2, <2>3, GotoFacts
  <2>5. RowsOK' /\ UNCHANGED alive
    BY <1>1, <2>1 DEF RowsOK, rowVars
  <2>6. /\ at' \in [Req -> Nat \ {0}] /\ at'[r] <= Len(Cart[r].lines)
        /\ \A x \in Req : x # r => at'[x] = at[x]
    BY <1>1, <2>1, CartFacts DEF RestOK
  <2>. QED BY <1>2, <2>1, <2>2, <2>4, <2>5, <2>6, PlacingMove
<1>4. CASE ~(LineRows(r) \subseteq alive)
  BY <1>1, <1>2, <1>4, RollbackStep, ReqAssumption DEF Insert
<1>. QED BY <1>3, <1>4

\* One conditional update of create: taken, or the whole call undone.
LEMMA TakePointsStep ==
    ASSUME IInv, NEW r \in Placing, TakePoints(r)
    PROVE  IInv'
<1>1. RowsOK /\ RestOK /\ r \in Req
  BY Facts
<1>2. InFlight(r) /\ pc[r] # "save"
  BY DEF TakePoints, InFlight
<1>3. CASE Refuse(r, Cart[r].account, Cart[r].points)
  BY <1>1, <1>2, <1>3, RollbackStep, ReqAssumption DEF Refuse
<1>4. CASE Take(r, Cart[r].account, Cart[r].points) /\ Goto(r, "product") /\ UNCHANGED at
  <2>1. RowsOK' /\ UNCHANGED <<alive, order, cancelVars, keyVars>>
    BY <1>1, <1>4, CartFacts, TakeFacts
  <2>2. "product" \in Labels
    BY DEF Labels, LaterLabels
  <2>3. pc' \in [Req -> Labels] /\ pc'[r] = "product" /\ \A x \in Req : x # r => pc'[x] = pc[x]
    BY <1>1, <1>4, <2>2, GotoFacts
  <2>4. at' \in [Req -> Nat \ {0}] /\ at'[r] <= Len(Cart[r].lines)
    BY <1>1, <1>4, Facts DEF RestOK
  <2>. QED BY <1>2, <1>4, <2>1, <2>3, <2>4, PlacingMove
<1>. QED BY <1>3, <1>4 DEF TakePoints

\* The decrement of a product keeps the invariant.
LEMMA TakeProductStep ==
    ASSUME IInv, NEW r \in Placing, TakeProduct(r)
    PROVE  IInv'
<1>. DEFINE l == LineOf(r, r)
<1>1. RowsOK /\ RestOK /\ r \in Req /\ at[r] <= Len(Cart[r].lines)
  BY Facts
<1>2. InFlight(r) /\ pc[r] # "save"
  BY DEF TakeProduct, InFlight
<1>3. CASE Refuse(r, l.product, l.n)
  BY <1>1, <1>2, <1>3, RollbackStep, ReqAssumption DEF Refuse
<1>4. CASE /\ Take(r, l.product, l.n)
           /\ IF l.variant = None THEN NextLine(r, r)
                                  ELSE Goto(r, "variant") /\ UNCHANGED at
  <2>1. RowsOK' /\ UNCHANGED <<alive, order, cancelVars, keyVars>>
    BY <1>1, <1>4, LineFacts, TakeFacts
  <2>2. /\ pc' \in [Req -> Labels] /\ pc'[r] \in {"product", "commit", "variant"}
        /\ at' \in [Req -> Nat \ {0}] /\ at'[r] <= Len(Cart[r].lines)
        /\ \A x \in Req : x # r => pc'[x] = pc[x] /\ at'[x] = at[x]
    <3>1. CASE NextLine(r, r)
      BY <1>1, <3>1, NextLineFacts
    <3>2. CASE Goto(r, "variant") /\ UNCHANGED at
      <4>1. "variant" \in Labels
        BY DEF Labels, LaterLabels
      <4>2. pc' \in [Req -> Labels] /\ pc'[r] = "variant" /\ \A x \in Req : x # r => pc'[x] = pc[x]
        BY <1>1, <3>2, <4>1, GotoFacts
      <4>. QED BY <1>1, <3>2, <4>2 DEF RestOK
    <3>. QED BY <1>4, <3>1, <3>2
  <2>. QED BY <1>2, <2>1, <2>2, PlacingMove
<1>. QED BY <1>3, <1>4 DEF TakeProduct

\* The decrement of a variant keeps the invariant.
LEMMA TakeVariantStep ==
    ASSUME IInv, NEW r \in Placing, TakeVariant(r)
    PROVE  IInv'
<1>. DEFINE l == LineOf(r, r)
<1>1. RowsOK /\ RestOK /\ r \in Req /\ at[r] <= Len(Cart[r].lines)
  BY Facts
<1>2. InFlight(r) /\ pc[r] # "save"
  BY DEF TakeVariant, InFlight
<1>3. CASE Refuse(r, l.variant, l.n)
  BY <1>1, <1>2, <1>3, RollbackStep, ReqAssumption DEF Refuse
<1>4. CASE Take(r, l.variant, l.n) /\ NextLine(r, r)
  <2>1. RowsOK' /\ UNCHANGED <<alive, order, cancelVars, keyVars>>
    BY <1>1, <1>4, LineFacts, TakeFacts
  <2>2. /\ pc' \in [Req -> Labels] /\ pc'[r] \in {"product", "commit"}
        /\ at' \in [Req -> Nat \ {0}] /\ at'[r] <= Len(Cart[r].lines)
        /\ \A x \in Req : x # r => pc'[x] = pc[x] /\ at'[x] = at[x]
    BY <1>1, <1>4, NextLineFacts
  <2>. QED BY <1>2, <2>1, <2>2, PlacingMove
<1>. QED BY <1>3, <1>4 DEF TakeVariant

\* A recorded key answers the recorded order.  A miss makes the call live; every
\* live call with the key is running, and noted, or its record was lost.
LEMMA LookUpStep ==
    ASSUME IInv, NEW r \in Placing, LookUp(r)
    PROVE  IInv'
<1>. DEFINE k == Cart[r].key
<1>1. RowsOK /\ RestOK /\ r \in Req /\ Placing \subseteq Req /\ Cancelling \subseteq Req
  BY Facts
<1>2. pc[r] = "idle" /\ order[r] = "none" /\ k \in Key \cup {None}
  BY CartFacts DEF IInv, PlaceInv, LookUp
<1>3. UNCHANGED <<rowVars, order, cancelVars, record, lost, at>>
  BY DEF LookUp
<1>4. RowsOK'
  BY <1>1, <1>3 DEF RowsOK, rowVars
<1>5. \A c \in Cancelling : c # r
  BY ReqAssumption
<1>6. CASE Recorded(k) /\ answer' = [answer EXCEPT ![r] = record[k]] /\ Goto(r, "done")
             /\ UNCHANGED overlap
  <2>1. record[k] \in Placing /\ order[record[k]] # "none" /\ Cart[record[k]].key = k
    BY <1>1, <1>2, <1>6 DEF Recorded, RestOK, IInv, AnswersArePlaced
  <2>2. record[k] # r
    BY <1>2, <2>1
  <2>3. pc' = [pc EXCEPT ![r] = "done"] /\ "done" \in Labels
    BY <1>6 DEF Goto, Labels
  <2>4. RestOK'
    BY <1>1, <1>3, <1>6, <2>1, <2>3 DEF RestOK, rowVars, cancelVars
  <2>5. \A q \in Placing : PlaceInv(q)'
    <3>. TAKE q \in Placing
    <3>1. CASE q = r
      BY <1>1, <1>2, <1>3, <1>6, <2>1, <2>2, <2>3, <3>1 DEF IInv, PlaceInv, SpendsPoints, RestOK
    <3>2. CASE q # r
      BY <1>1, <1>3, <1>6, <2>3, <3>2 DEF IInv, PlaceInv, SpendsPoints, RestOK
    <3>. QED BY <3>1, <3>2
  <2>6. \A c \in Cancelling : CancelInv(c)'
    BY <1>1, <1>3, <1>5, <2>3 DEF IInv, CancelInv, RestOK
  <2>7. AnswersArePlaced'
    BY <1>1, <1>3, <1>6, <2>1 DEF IInv, AnswersArePlaced, RestOK
  <2>8. KeyInv'
    <3>1. \A x \in Placing : Live(x)' => Live(x)
      BY <1>1, <1>3, <2>3 DEF Live, InFlight, RestOK
    <3>2. \A x \in Placing : order[x] # "none" => pc'[x] = pc[x]
      BY <1>1, <1>2, <2>3 DEF RestOK
    <3>. QED BY <1>3, <1>6, <3>1, <3>2 DEF IInv, KeyInv
  <2>. QED BY <1>4, <2>4, <2>5, <2>6, <2>7, <2>8, TypeJoin DEF IInv
<1>7. CASE /\ ~Recorded(k)
           /\ overlap' = [overlap EXCEPT ![r] =
                 {q \in Placing : Cart[q].key = k
                                  /\ pc[q] \notin {"idle", "done", "failed"}}]
           /\ Goto(r, "check") /\ UNCHANGED answer
  <2>1. pc' = [pc EXCEPT ![r] = "check"] /\ "check" \in Labels
    BY <1>7 DEF Goto, Labels
  <2>2. RestOK'
    BY <1>1, <1>3, <1>7, <2>1 DEF RestOK, rowVars, cancelVars
  <2>3. \A q \in Placing : PlaceInv(q)'
    <3>. TAKE q \in Placing
    <3>1. CASE q = r
      BY <1>1, <1>2, <1>3, <1>7, <2>1, <3>1 DEF IInv, PlaceInv, SpendsPoints, RestOK
    <3>2. CASE q # r
      BY <1>1, <1>3, <1>7, <2>1, <3>2 DEF IInv, PlaceInv, SpendsPoints, RestOK
    <3>. QED BY <3>1, <3>2
  <2>4. \A c \in Cancelling : CancelInv(c)'
    BY <1>1, <1>3, <1>5, <2>1 DEF IInv, CancelInv, RestOK
  <2>5. AnswersArePlaced'
    BY <1>3, <1>7 DEF IInv, AnswersArePlaced
  <2>6. \A q \in Placing : q # r /\ Live(q) /\ Cart[q].key = k /\ k # None
                         => q \in overlap'[r] \/ lost[k]
    <3>. SUFFICES ASSUME NEW q \in Placing, q # r, Live(q), Cart[q].key = k, k # None
                  PROVE  q \in overlap'[r] \/ lost[k]
      OBVIOUS
    <3>1. overlap'[r] = {x \in Placing : Cart[x].key = k
                                         /\ pc[x] \notin {"idle", "done", "failed"}}
      BY <1>1, <1>7 DEF RestOK
    <3>2. CASE InFlight(q)
      BY <3>1, <3>2 DEF InFlight
    <3>3. CASE ~InFlight(q)
      <4>1. order[q] # "none" /\ pc[q] # "save"
        BY <3>3 DEF Live, InFlight
      <4>2. record[k] = None
        BY <1>7 DEF Recorded
      <4>. QED BY <4>1, <4>2 DEF IInv, KeyInv
    <3>. QED BY <3>2, <3>3
  <2>7. KeyInv'
    <3>1. \A x \in Placing : x # r => (Live(x)' => Live(x)) /\ pc'[x] = pc[x]
                                     /\ overlap'[x] = overlap[x]
      BY <1>1, <1>3, <1>7, <2>1 DEF Live, InFlight, RestOK
    <3>2. \A x \in Placing :
            order'[x] # "none" /\ Cart[x].key # None
            => pc'[x] = "save" \/ record'[Cart[x].key] # None \/ lost'[Cart[x].key]
      BY <1>2, <1>3, <3>1 DEF IInv, KeyInv
    <3>3. ASSUME NEW x \in Placing, NEW q \in Placing, x # q, Cart[x].key = Cart[q].key,
                 Cart[x].key # None, Live(x)', Live(q)'
          PROVE  x \in overlap'[q] \/ q \in overlap'[x] \/ lost'[Cart[x].key]
      <4>1. CASE x = r
        BY <1>3, <2>6, <3>1, <3>3, <4>1
      <4>2. CASE q = r
        BY <1>3, <2>6, <3>1, <3>3, <4>2
      <4>3. CASE x # r /\ q # r
        BY <1>3, <3>1, <3>3, <4>3 DEF IInv, KeyInv
      <4>. QED BY <4>1, <4>2, <4>3
    <3>. QED BY <3>2, <3>3 DEF KeyInv
  <2>. QED BY <1>4, <2>2, <2>3, <2>4, <2>5, <2>7, TypeJoin DEF IInv
<1>. QED BY <1>6, <1>7 DEF LookUp

\* The commit of an order keeps the invariant.
LEMMA CommitOrderStep ==
    ASSUME IInv, NEW r \in Placing, CommitOrder(r)
    PROVE  IInv'
<1>1. RowsOK /\ RestOK /\ r \in Req /\ Placing \subseteq Req /\ Cancelling \subseteq Req
  BY Facts
<1>2. /\ order' = [order EXCEPT ![r] = "PENDING"] /\ answer' = [answer EXCEPT ![r] = r]
      /\ UNCHANGED <<alive, cancelVars, record, lost, overlap, at>>
  BY DEF CommitOrder
<1>3. PICK l \in {"done", "save"} : pc' = [pc EXCEPT ![r] = l]
                                   /\ (l = "done" <=> Cart[r].key = None)
  BY DEF CommitOrder, Goto
<1>4. l \in Labels
  BY <1>3 DEF Labels
<1>5. RowsOK'
  BY <1>1, CommitFacts DEF CommitOrder
<1>6. RestOK'
  BY <1>1, <1>2, <1>3, <1>4 DEF RestOK, cancelVars
<1>7. \A q \in Placing : PlaceInv(q)'
  <2>. TAKE q \in Placing
  <2>1. CASE q = r
    <3>1. at'[r] <= Len(Cart[r].lines)
      BY <1>2, Facts
    <3>2. order'[r] = "PENDING" /\ answer'[r] = r /\ pc'[r] = l
      BY <1>1, <1>2, <1>3 DEF RestOK
    <3>. QED BY <1>3, <2>1, <3>1, <3>2 DEF PlaceInv
  <2>2. CASE q # r
    BY <1>1, <1>2, <1>3, <2>2 DEF IInv, PlaceInv, SpendsPoints, RestOK
  <2>. QED BY <2>1, <2>2
<1>8. \A c \in Cancelling : CancelInv(c)'
  <2>. TAKE c \in Cancelling
  <2>1. c # r /\ Target[c] \in Placing
    BY ReqAssumption
  <2>2. pc'[c] = pc[c] /\ at'[c] = at[c]
    BY <1>1, <1>2, <1>3, <2>1 DEF RestOK
  <2>3. order[Target[c]] # "none" => order'[Target[c]] # "none"
    BY <1>1, <1>2, <2>1 DEF RestOK
  <2>. QED BY <2>2, <2>3 DEF IInv, CancelInv
<1>9. AnswersArePlaced'
  <2>1. \A o \in Placing : order[o] # "none" => order'[o] # "none"
    BY <1>1, <1>2 DEF RestOK
  <2>2. order'[r] # "none"
    BY <1>1, <1>2 DEF RestOK
  <2>3. \A q \in Placing : q # r => answer'[q] = answer[q]
    BY <1>1, <1>2 DEF RestOK
  <2>4. answer'[r] = r
    BY <1>1, <1>2 DEF RestOK
  <2>. QED BY <1>1, <1>2, <2>1, <2>2, <2>3, <2>4 DEF IInv, AnswersArePlaced, RestOK
<1>10. KeyInv'
  <2>1. Live(r)
    BY DEF CommitOrder, Live, InFlight
  <2>2. \A x \in Placing : x # r => pc'[x] = pc[x] /\ order'[x] = order[x]
    BY <1>1, <1>2, <1>3 DEF RestOK
  <2>3. \A x \in Placing : Live(x)' => Live(x)
    BY <2>1, <2>2 DEF Live, InFlight
  <2>4. Cart[r].key # None => pc'[r] = "save"
    BY <1>1, <1>3 DEF RestOK
  <2>. QED BY <1>2, <2>2, <2>3, <2>4 DEF IInv, KeyInv
<1>. QED BY <1>5, <1>6, <1>7, <1>8, <1>9, <1>10, TypeJoin DEF IInv

\* The record of the answer keeps the invariant.
LEMMA SaveRecordStep ==
    ASSUME IInv, NEW r \in Placing, SaveRecord(r)
    PROVE  IInv'
<1>. DEFINE k == Cart[r].key
<1>1. RowsOK /\ RestOK /\ r \in Req /\ Placing \subseteq Req /\ Cancelling \subseteq Req
  BY Facts
<1>2. pc[r] = "save" /\ order[r] # "none" /\ k \in Key /\ k # None
  BY CartFacts DEF SaveRecord, IInv, PlaceInv
<1>3. /\ pc' = [pc EXCEPT ![r] = "done"]
      /\ UNCHANGED <<rowVars, order, cancelVars, answer, overlap, at>>
  BY DEF SaveRecord, Goto
<1>4. \/ record' = [record EXCEPT ![k] = r] /\ lost' = lost
      \/ lost' = [lost EXCEPT ![k] = TRUE] /\ record' = record
  BY DEF SaveRecord
<1>5. "done" \in Labels /\ r # None
  BY NoneAssumption DEF Labels, Req
<1>6. RowsOK'
  BY <1>1, <1>3 DEF RowsOK, rowVars
<1>7. RestOK'
  BY <1>1, <1>2, <1>3, <1>4, <1>5 DEF RestOK, rowVars, cancelVars
<1>8. answer[r] = r
  BY <1>2 DEF IInv, PlaceInv
<1>9. \A q \in Placing : PlaceInv(q)'
  <2>. TAKE q \in Placing
  <2>1. CASE q = r
    BY <1>1, <1>2, <1>3, <1>8, <2>1 DEF IInv, PlaceInv, SpendsPoints, RestOK
  <2>2. CASE q # r
    BY <1>1, <1>3, <2>2 DEF IInv, PlaceInv, SpendsPoints, RestOK
  <2>. QED BY <2>1, <2>2
<1>10. \A c \in Cancelling : CancelInv(c)'
  <2>. TAKE c \in Cancelling
  <2>1. pc'[c] = pc[c] /\ at'[c] = at[c]
    BY <1>1, <1>3, ReqAssumption DEF RestOK
  <2>. QED BY <1>3, <2>1 DEF IInv, CancelInv
<1>11. AnswersArePlaced'
  BY <1>1, <1>2, <1>3, <1>4 DEF IInv, AnswersArePlaced, RestOK
<1>12. KeyInv'
  <2>1. \A x \in Placing : Live(x)' => Live(x)
    BY <1>1, <1>2, <1>3 DEF Live, InFlight, RestOK
  <2>2. \A x \in Key : lost[x] => lost'[x]
    BY <1>1, <1>4 DEF RestOK
  <2>3. \A x \in Key : record[x] # None => record'[x] # None
    BY <1>1, <1>4, <1>5 DEF RestOK
  <2>4. record'[k] # None \/ lost'[k]
    BY <1>1, <1>2, <1>4, <1>5 DEF RestOK
  <2>5. \A x \in Placing : order'[x] # "none" /\ Cart[x].key # None
          => pc'[x] = "save" \/ record'[Cart[x].key] # None \/ lost'[Cart[x].key]
    <3>. SUFFICES ASSUME NEW x \in Placing, order'[x] # "none", Cart[x].key # None
                  PROVE  pc'[x] = "save" \/ record'[Cart[x].key] # None
                         \/ lost'[Cart[x].key]
      OBVIOUS
    <3>1. Cart[x].key \in Key
      BY CartFacts
    <3>2. x # r => pc'[x] = pc[x]
      BY <1>1, <1>3 DEF RestOK
    <3>3. pc[x] = "save" \/ record[Cart[x].key] # None \/ lost[Cart[x].key]
      BY <1>3 DEF IInv, KeyInv
    <3>. QED BY <2>2, <2>3, <2>4, <3>1, <3>2, <3>3
  <2>6. \A x, q \in Placing :
          /\ x # q /\ Cart[x].key = Cart[q].key /\ Cart[x].key # None
          /\ Live(x)' /\ Live(q)'
          => x \in overlap'[q] \/ q \in overlap'[x] \/ lost'[Cart[x].key]
    BY <1>3, <2>1, <2>2, CartFacts DEF IInv, KeyInv
  <2>. QED BY <2>5, <2>6 DEF KeyInv
<1>. QED BY <1>6, <1>7, <1>9, <1>10, <1>11, <1>12, TypeJoin DEF IInv

\* A record that expires keeps the invariant.
LEMMA ExpireStep ==
    ASSUME IInv, NEW k \in Key, Expire(k)
    PROVE  IInv'
<1>1. RowsOK /\ RestOK
  BY Facts
<1>2. /\ record' = [record EXCEPT ![k] = None] /\ lost' = [lost EXCEPT ![k] = TRUE]
      /\ UNCHANGED <<rowVars, order, cancelVars, answer, overlap, pc, at>>
  BY DEF Expire
<1>3. RowsOK' /\ RestOK'
  BY <1>1, <1>2 DEF RowsOK, RestOK, rowVars, cancelVars
<1>4. \A q \in Placing : PlaceInv(q)'
  BY <1>2 DEF IInv, PlaceInv, SpendsPoints
<1>5. \A c \in Cancelling : CancelInv(c)'
  BY <1>2 DEF IInv, CancelInv
<1>6. AnswersArePlaced'
  BY <1>1, <1>2 DEF IInv, AnswersArePlaced, RestOK
<1>7. KeyInv'
  <2>1. \A x \in Placing : Live(x)' <=> Live(x)
    BY <1>2 DEF Live, InFlight
  <2>2. \A x \in Key : lost[x] => lost'[x]
    BY <1>1, <1>2 DEF RestOK
  <2>3. \A x \in Key : record[x] # None => record'[x] # None \/ lost'[x]
    BY <1>1, <1>2 DEF RestOK
  <2>. QED BY <1>2, <2>1, <2>2, <2>3, CartFacts DEF IInv, KeyInv
<1>. QED BY <1>3, <1>4, <1>5, <1>6, <1>7, TypeJoin DEF IInv

\* A payment keeps the invariant.
LEMMA PayStep ==
    ASSUME IInv, NEW o \in Placing, Pay(o)
    PROVE  IInv'
<1>1. RowsOK /\ RestOK
  BY Facts
<1>2. /\ order' = [order EXCEPT ![o] = "PAID"] /\ order[o] # "none"
      /\ revived' = [revived EXCEPT ![o] = IF order[o] = "CANCELLED" THEN @ + 1 ELSE @]
      /\ UNCHANGED <<rowVars, paidSeen, attached, returned, keyVars, pc, at>>
  BY DEF Pay
<1>3. RowsOK' /\ RestOK'
  BY <1>1, <1>2 DEF RowsOK, RestOK, rowVars, keyVars
<1>4. \A x \in Placing : order'[x] = "none" <=> order[x] = "none"
  BY <1>1, <1>2 DEF RestOK
<1>5. \A q \in Placing : PlaceInv(q)'
  BY <1>2, <1>4 DEF IInv, PlaceInv, SpendsPoints, keyVars
<1>6. \A c \in Cancelling : CancelInv(c)'
  BY <1>2, <1>4, ReqAssumption DEF IInv, CancelInv
<1>7. AnswersArePlaced'
  BY <1>1, <1>2, <1>4 DEF IInv, AnswersArePlaced, RestOK, keyVars
<1>8. KeyInv'
  <2>1. \A x \in Placing : Live(x)' <=> Live(x)
    BY <1>2, <1>4 DEF Live, InFlight
  <2>. QED BY <1>2, <1>4, <2>1 DEF IInv, KeyInv, keyVars
<1>. QED BY <1>3, <1>5, <1>6, <1>7, <1>8, TypeJoin DEF IInv

\* A transaction that is closed for it.
LEMMA AbandonStep ==
    ASSUME IInv, NEW r \in Req, Abandon(r)
    PROVE  IInv'
<1>1. Rollback(r) /\ pc[r] \in FirstLabels \cup LaterLabels
  BY DEF Abandon, InTx
<1>2. InFlight(r) /\ pc[r] # "save" /\ pc[r] # "idle"
  BY <1>1 DEF InFlight, FirstLabels, LaterLabels
<1>3. r \in Cancelling => order[Target[r]] # "none"
  BY <1>2 DEF IInv, CancelInv
<1>. QED BY <1>1, <1>2, <1>3, RollbackStep

-----------------------------------------------------------------------------
(* cancelByCustomer *)

\* A cancellation has a placed order, and reads it before anything else.
LEMMA CancelFacts ==
    ASSUME IInv, NEW c \in Cancelling
    PROVE  /\ RowsOK /\ RestOK
           /\ c \in Req /\ c \notin Placing
           /\ Target[c] \in Placing
           /\ at[c] <= Len(Cart[Target[c]].lines)
           /\ pc[c] # "idle" => order[Target[c]] # "none"
  BY Facts, ReqAssumption DEF IInv, CancelInv

\* A step of a cancellation that may write a row and leaves all orders alone.
LEMMA CancelMove ==
    ASSUME IInv, NEW c \in Cancelling, pc[c] # "idle", RowsOK',
           pc' \in [Req -> Labels], at' \in [Req -> Nat \ {0}],
           \A x \in Req : x # c => pc'[x] = pc[x] /\ at'[x] = at[x],
           at'[c] <= Len(Cart[Target[c]].lines),
           UNCHANGED <<alive, order, cancelVars, keyVars>>
    PROVE  IInv'
<1>1. RestOK
  BY CancelFacts
<1>2. /\ alive' \subseteq Product \cup Variant
      /\ order' \in [Placing -> {"none", "PENDING", "PAID", "CANCELLED"}]
      /\ paidSeen' \in [Cancelling -> BOOLEAN]
      /\ attached' \in [Cancelling -> SUBSET (Product \cup Variant)]
      /\ returned' \in [Placing -> [Row -> Nat]] /\ revived' \in [Placing -> Nat]
  BY <1>1 DEF RestOK, cancelVars
<1>. QED BY <1>2, CancelFacts, OtherMove

\* The first read of a cancellation keeps the invariant.
LEMMA CancelReadStep ==
    ASSUME IInv, NEW c \in Cancelling, CancelRead(c)
    PROVE  IInv'
<1>1. RowsOK /\ RestOK /\ c \in Req /\ c \notin Placing
  BY CancelFacts
<1>2. /\ pc' = [pc EXCEPT ![c] = "status"] /\ "status" \in Labels
      /\ paidSeen' = [paidSeen EXCEPT ![c] = order[Target[c]] = "PAID"]
      /\ UNCHANGED <<rowVars, order, attached, returned, revived, keyVars, at>>
  BY DEF CancelRead, Goto, Labels, FirstLabels
<1>3. order[Target[c]] # "none"
  BY DEF CancelRead, Cancellable
<1>4. pc' \in [Req -> Labels] /\ at' \in [Req -> Nat \ {0}]
  BY <1>1, <1>2 DEF RestOK
<1>5. \A x \in Req : x # c => pc'[x] = pc[x] /\ at'[x] = at[x]
  BY <1>1, <1>2 DEF RestOK
<1>6. RowsOK' /\ alive' \subseteq Product \cup Variant
  BY <1>1, <1>2 DEF RowsOK, RestOK, rowVars
<1>7. /\ order' \in [Placing -> {"none", "PENDING", "PAID", "CANCELLED"}]
      /\ paidSeen' \in [Cancelling -> BOOLEAN]
      /\ attached' \in [Cancelling -> SUBSET (Product \cup Variant)]
      /\ returned' \in [Placing -> [Row -> Nat]] /\ revived' \in [Placing -> Nat]
  BY <1>1, <1>2 DEF RestOK
<1>8. at'[c] <= Len(Cart[Target[c]].lines)
  BY <1>2, CancelFacts
<1>. QED BY <1>1, <1>2, <1>3, <1>4, <1>5, <1>6, <1>7, <1>8, OtherMove

\* The guarded change of status keeps the invariant.
LEMMA CancelStatusStep ==
    ASSUME IInv, NEW c \in Cancelling, CancelStatus(c)
    PROVE  IInv'
<1>. DEFINE o == Target[c]
<1>1. /\ RowsOK /\ RestOK /\ c \in Req /\ c \notin Placing /\ o \in Placing
      /\ order[o] # "none"
  BY CancelFacts DEF CancelStatus
<1>2. CASE Rollback(c)
  BY <1>1, <1>2, RollbackStep
<1>3. CASE /\ Cancellable(o)
           /\ holder' = [holder EXCEPT ![o] = c]
           /\ attached' = [attached EXCEPT ![c] = LineRows(o) \cap alive]
           /\ at' = [at EXCEPT ![c] = FirstLine]
           /\ Goto(c, IF paidSeen[c] /\ SpendsPoints(o) THEN "points"
                                                        ELSE "product")
           /\ UNCHANGED <<db, dirty, alive, order, paidSeen, returned, revived,
                          keyVars>>
  <2>1. PICK l \in {"points", "product"} : Goto(c, l)
    BY <1>3
  <2>2. l \in Labels
    BY <2>1 DEF Labels, LaterLabels
  <2>3. pc' \in [Req -> Labels] /\ \A x \in Req : x # c => pc'[x] = pc[x]
    BY <1>1, <2>1, <2>2, GotoFacts
  <2>4. /\ at' \in [Req -> Nat \ {0}] /\ at'[c] <= Len(Cart[o].lines)
        /\ \A x \in Req : x # c => at'[x] = at[x]
    BY <1>1, <1>3, CartFacts DEF RestOK, FirstLine
  <2>5. RowsOK'
    BY <1>1, <1>3 DEF RowsOK
  <2>6. /\ alive' \subseteq Product \cup Variant
        /\ order' \in [Placing -> {"none", "PENDING", "PAID", "CANCELLED"}]
        /\ paidSeen' \in [Cancelling -> BOOLEAN]
        /\ attached' \in [Cancelling -> SUBSET (Product \cup Variant)]
        /\ returned' \in [Placing -> [Row -> Nat]] /\ revived' \in [Placing -> Nat]
    BY <1>1, <1>3 DEF RestOK
  <2>. QED BY <1>1, <1>3, <2>3, <2>4, <2>5, <2>6, OtherMove
<1>. QED BY <1>2, <1>3 DEF CancelStatus

\* The return of the points keeps the invariant.
LEMMA CancelPointsStep ==
    ASSUME IInv, NEW c \in Cancelling, CancelPoints(c)
    PROVE  IInv'
<1>. DEFINE o == Target[c]
<1>1. RowsOK /\ RestOK /\ c \in Req /\ o \in Placing /\ pc[c] # "idle"
  BY CancelFacts DEF CancelPoints
<1>2. RowsOK' /\ UNCHANGED <<alive, order, cancelVars, keyVars>>
  BY <1>1, CartFacts, GiveBackFacts DEF CancelPoints
<1>3. "product" \in Labels
  BY DEF Labels, LaterLabels
<1>4. pc' \in [Req -> Labels] /\ \A x \in Req : x # c => pc'[x] = pc[x]
  BY <1>1, <1>3, GotoFacts DEF CancelPoints
<1>5. at' = at /\ at' \in [Req -> Nat \ {0}] /\ at'[c] <= Len(Cart[o].lines)
  BY <1>1, CancelFacts DEF CancelPoints, RestOK
<1>. QED BY <1>1, <1>2, <1>4, <1>5, CancelMove

\* The increment of a product keeps the invariant.
LEMMA CancelProductStep ==
    ASSUME IInv, NEW c \in Cancelling, CancelProduct(c)
    PROVE  IInv'
<1>. DEFINE o == Target[c]
            l == LineOf(c, o)
<1>1. /\ RowsOK /\ RestOK /\ c \in Req /\ c \notin Placing /\ o \in Placing
      /\ pc[c] # "idle" /\ order[o] # "none" /\ at[c] <= Len(Cart[o].lines)
  BY CancelFacts DEF CancelProduct
<1>2. CASE Gone(c, l.product)
  BY <1>1, <1>2, RollbackStep DEF Gone
<1>3. CASE NextLine(c, o) /\ UNCHANGED <<rowVars, order, cancelVars, keyVars>>
  <2>1. RowsOK' /\ UNCHANGED <<alive, order, cancelVars, keyVars>>
    BY <1>1, <1>3 DEF RowsOK, rowVars
  <2>. QED BY <1>1, <1>3, <2>1, NextLineFacts, CancelMove
<1>4. CASE /\ GiveBack(c, l.product, l.n)
           /\ IF VariantAttached(c, l) THEN Goto(c, "variant") /\ UNCHANGED at
                                       ELSE NextLine(c, o)
  <2>1. RowsOK' /\ UNCHANGED <<alive, order, cancelVars, keyVars>>
    BY <1>1, <1>4, LineFacts, GiveBackFacts
  <2>2. CASE NextLine(c, o)
    BY <1>1, <2>1, <2>2, NextLineFacts, CancelMove
  <2>3. CASE Goto(c, "variant") /\ UNCHANGED at
    <3>1. "variant" \in Labels
      BY DEF Labels, LaterLabels
    <3>2. pc' \in [Req -> Labels] /\ \A x \in Req : x # c => pc'[x] = pc[x]
      BY <1>1, <2>3, <3>1, GotoFacts
    <3>3. at' \in [Req -> Nat \ {0}] /\ at'[c] <= Len(Cart[o].lines)
      BY <1>1, <2>3 DEF RestOK
    <3>. QED BY <1>1, <2>1, <2>3, <3>2, <3>3, CancelMove
  <2>. QED BY <1>4, <2>2, <2>3
<1>. QED BY <1>2, <1>3, <1>4 DEF CancelProduct

\* The increment of a variant keeps the invariant.
LEMMA CancelVariantStep ==
    ASSUME IInv, NEW c \in Cancelling, CancelVariant(c)
    PROVE  IInv'
<1>. DEFINE o == Target[c]
            l == LineOf(c, o)
<1>1. /\ RowsOK /\ RestOK /\ c \in Req /\ c \notin Placing /\ o \in Placing
      /\ pc[c] # "idle" /\ order[o] # "none" /\ at[c] <= Len(Cart[o].lines)
  BY CancelFacts DEF CancelVariant
<1>2. CASE Gone(c, l.variant)
  BY <1>1, <1>2, RollbackStep DEF Gone
<1>3. CASE GiveBack(c, l.variant, l.n) /\ NextLine(c, o)
  <2>1. RowsOK' /\ UNCHANGED <<alive, order, cancelVars, keyVars>>
    BY <1>1, <1>3, LineFacts, GiveBackFacts
  <2>. QED BY <1>1, <1>3, <2>1, NextLineFacts, CancelMove
<1>. QED BY <1>2, <1>3 DEF CancelVariant

\* The commit of a cancellation keeps the invariant.
LEMMA CancelCommitStep ==
    ASSUME IInv, NEW c \in Cancelling, CancelCommit(c)
    PROVE  IInv'
<1>. DEFINE o == Target[c]
<1>1. /\ RowsOK /\ RestOK /\ c \in Req /\ c \notin Placing /\ o \in Placing
      /\ pc[c] # "idle" /\ order[o] # "none" /\ at[c] <= Len(Cart[o].lines)
  BY CancelFacts DEF CancelCommit
<1>2. RowsOK'
  BY <1>1, CommitFacts DEF CancelCommit
<1>3. /\ pc' = [pc EXCEPT ![c] = "done"] /\ "done" \in Labels
      /\ order' = [order EXCEPT ![o] = "CANCELLED"]
      /\ returned' = [returned EXCEPT ![o] =
            [row \in Row |-> @[row] + (IF holder[row] = c THEN 1 ELSE 0)]]
      /\ UNCHANGED <<alive, paidSeen, attached, revived, keyVars, at>>
  BY DEF CancelCommit, Goto, Labels
<1>4. pc' \in [Req -> Labels] /\ at' \in [Req -> Nat \ {0}]
  BY <1>1, <1>3 DEF RestOK
<1>5. \A x \in Req : x # c => pc'[x] = pc[x] /\ at'[x] = at[x]
  BY <1>1, <1>3 DEF RestOK
<1>6. order' \in [Placing -> {"none", "PENDING", "PAID", "CANCELLED"}]
  BY <1>1, <1>3 DEF RestOK
<1>7. \A x \in Placing : order'[x] = "none" <=> order[x] = "none"
  BY <1>1, <1>3 DEF RestOK
<1>8. returned' \in [Placing -> [Row -> Nat]] /\ revived' \in [Placing -> Nat]
  BY <1>1, <1>3 DEF RestOK
<1>9. /\ alive' \subseteq Product \cup Variant
      /\ paidSeen' \in [Cancelling -> BOOLEAN]
      /\ attached' \in [Cancelling -> SUBSET (Product \cup Variant)]
      /\ at'[c] <= Len(Cart[o].lines)
  BY <1>1, <1>3 DEF RestOK
<1>. QED BY <1>1, <1>2, <1>3, <1>4, <1>5, <1>6, <1>7, <1>8, <1>9, OtherMove

-----------------------------------------------------------------------------
(* The seller's edits *)

\* A seller's request places and cancels nothing.
LEMMA SellerFacts ==
    ASSUME IInv, NEW u \in Updating \cup Removing
    PROVE  RowsOK /\ RestOK /\ u \in Req /\ u \notin Placing /\ u \notin Cancelling
  BY Facts, ReqAssumption

\* An edit is of a product, with a stock or none and some variants.
LEMMA EditFacts ==
    ASSUME NEW u \in Updating
    PROVE  /\ Edit[u].product \in Product
           /\ Edit[u].stock \in Nat \cup {None}
           /\ Edit[u].variants \subseteq Variant
  BY ReqAssumption DEF EditType

\* A step of the seller's that keeps the rows keeps the invariant.
LEMMA SellerMove ==
    ASSUME IInv, NEW u \in Updating \cup Removing, NEW l \in Labels, RowsOK',
           pc' = [pc EXCEPT ![u] = l], alive' \subseteq Product \cup Variant,
           UNCHANGED <<order, cancelVars, keyVars, at>>
    PROVE  IInv'
<1>1. RestOK /\ u \in Req /\ u \notin Placing /\ u \notin Cancelling
  BY SellerFacts
<1>2. /\ pc' \in [Req -> Labels] /\ at' \in [Req -> Nat \ {0}]
      /\ \A x \in Req : x # u => pc'[x] = pc[x] /\ at'[x] = at[x]
  BY <1>1 DEF RestOK
<1>3. /\ order' \in [Placing -> {"none", "PENDING", "PAID", "CANCELLED"}]
      /\ paidSeen' \in [Cancelling -> BOOLEAN]
      /\ attached' \in [Cancelling -> SUBSET (Product \cup Variant)]
      /\ returned' \in [Placing -> [Row -> Nat]] /\ revived' \in [Placing -> Nat]
  BY <1>1 DEF RestOK, cancelVars
<1>. QED BY <1>1, <1>2, <1>3, OtherMove

\* The start of an edit keeps the invariant.
LEMMA UpdateStartStep ==
    ASSUME IInv, NEW u \in Updating, UpdateStart(u)
    PROVE  IInv'
<1>1. PICK l \in {"variants", "product"} : pc' = [pc EXCEPT ![u] = l]
  BY DEF UpdateStart, Goto
<1>2. l \in Labels
  BY <1>1 DEF Labels, FirstLabels, LaterLabels
<1>3. UNCHANGED <<rowVars, order, cancelVars, keyVars, at>>
  BY DEF UpdateStart
<1>4. RowsOK' /\ alive' \subseteq Product \cup Variant
  BY <1>3, SellerFacts DEF RowsOK, RestOK, rowVars
<1>. QED BY <1>1, <1>2, <1>3, <1>4, SellerMove

\* The deletion of the old variants keeps the invariant.
LEMMA DeleteVariantsStep ==
    ASSUME IInv, NEW u \in Updating, DeleteVariants(u)
    PROVE  IInv'
<1>1. RowsOK /\ RestOK /\ u \in Req
  BY SellerFacts
<1>2. CASE Goto(u, "product") /\ UNCHANGED <<rowVars, order, cancelVars, keyVars, at>>
  <2>1. pc' = [pc EXCEPT ![u] = "product"] /\ "product" \in Labels
    BY <1>2 DEF Goto, Labels, LaterLabels
  <2>2. RowsOK' /\ alive' \subseteq Product \cup Variant
    BY <1>1, <1>2 DEF RowsOK, RestOK, rowVars
  <2>. QED BY <1>2, <2>1, <2>2, SellerMove
<1>3. ASSUME NEW v \in VariantsOf(Edit[u].product), Write(u, v, db[v]),
             UNCHANGED <<db, alive, order, cancelVars, keyVars, pc, at>>
      PROVE  IInv'
  <2>1. db[v] \in Nat
    BY <1>1 DEF RowsOK, VariantsOf, Row
  <2>2. RowsOK'
    BY <1>1, <1>3, <2>1, WriteFacts DEF RowsOK
  <2>3. pc' = [pc EXCEPT ![u] = pc[u]] /\ pc[u] \in Labels
    BY <1>1, <1>3 DEF RestOK
  <2>4. alive' \subseteq Product \cup Variant
    BY <1>1, <1>3 DEF RestOK
  <2>. QED BY <1>3, <2>2, <2>3, <2>4, SellerMove
<1>. QED BY <1>2, <1>3 DEF DeleteVariants

\* The write of the product keeps the invariant.
LEMMA UpdateProductStep ==
    ASSUME IInv, NEW u \in Updating, UpdateProduct(u)
    PROVE  IInv'
<1>. DEFINE e == Edit[u]
            v == IF e.stock = None THEN Current(u, e.product) ELSE e.stock
<1>1. RowsOK /\ RestOK /\ u \in Req /\ u \notin Placing /\ u \notin Cancelling
  BY SellerFacts
<1>2. CASE Rollback(u)
  BY <1>1, <1>2, RollbackStep
<1>3. CASE /\ Write(u, e.product, v) /\ Goto(u, "commit")
           /\ UNCHANGED <<db, alive, order, cancelVars, keyVars, at>>
  <2>1. v \in Nat
    <3>1. e.product \in Row /\ e.stock \in Nat \cup {None}
      BY EditFacts DEF Row
    <3>2. Current(u, e.product) \in Nat
      BY <1>1, <3>1, CurrentType
    <3>. QED BY <3>1, <3>2
  <2>2. dirty' \in [Row -> Nat] /\ holder' \in [Lockable -> Req \cup {None}]
    <3>. HIDE DEF v
    <3>. QED BY <1>1, <1>3, <2>1, WriteFacts
  <2>3. RowsOK' /\ alive' \subseteq Product \cup Variant
    BY <1>1, <1>3, <2>2 DEF RowsOK, RestOK
  <2>4. pc' = [pc EXCEPT ![u] = "commit"] /\ "commit" \in Labels
    BY <1>3 DEF Goto, Labels, LaterLabels
  <2>. QED BY <1>3, <2>3, <2>4, SellerMove
<1>. QED BY <1>2, <1>3 DEF UpdateProduct

\* The commit of an edit keeps the invariant.
LEMMA UpdateCommitStep ==
    ASSUME IInv, NEW u \in Updating, UpdateCommit(u)
    PROVE  IInv'
<1>1. RowsOK /\ RestOK
  BY SellerFacts
<1>2. RowsOK'
  BY <1>1, CommitFacts DEF UpdateCommit
<1>3. alive' \subseteq Product \cup Variant
  BY <1>1, EditFacts DEF UpdateCommit, RestOK
<1>4. pc' = [pc EXCEPT ![u] = "done"] /\ "done" \in Labels
  BY DEF UpdateCommit, Goto, Labels
<1>. QED BY <1>2, <1>3, <1>4, SellerMove DEF UpdateCommit

\* The deletion of a product keeps the invariant.
LEMMA RemoveStep ==
    ASSUME IInv, NEW q \in Removing, Remove(q)
    PROVE  IInv'
<1>1. RowsOK /\ RestOK
  BY SellerFacts
<1>2. RowsOK'
  BY <1>1 DEF Remove, RowsOK
<1>3. alive' \subseteq Product \cup Variant
  BY <1>1 DEF Remove, RestOK
<1>4. pc' = [pc EXCEPT ![q] = "done"] /\ "done" \in Labels
  BY DEF Remove, Goto, Labels
<1>. QED BY <1>2, <1>3, <1>4, SellerMove DEF Remove

-----------------------------------------------------------------------------
(* The invariant *)

\* The initial states satisfy the invariant.
LEMMA InitInv == Init => IInv
<1>. SUFFICES ASSUME Init PROVE IInv
  OBVIOUS
<1>1. RowsOK
  BY RowAssumption DEF Init, RowsOK
<1>2. RestOK
  <2>1. alive \subseteq Product \cup Variant
    BY DEF Init
  <2>. QED BY <2>1 DEF Init, RestOK, Labels
<1>3. \A r \in Placing : PlaceInv(r)
  BY CartFacts DEF Init, PlaceInv, Req
<1>4. \A c \in Cancelling : CancelInv(c)
  BY CartFacts, ReqAssumption DEF Init, CancelInv, Req
<1>5. AnswersArePlaced /\ KeyInv
  BY DEF Init, AnswersArePlaced, KeyInv, Live, InFlight, Req
<1>. QED BY <1>1, <1>2, <1>3, <1>4, <1>5, TypeSplit DEF IInv

\* Every step of create keeps the invariant.
LEMMA PlaceStep ==
    ASSUME IInv, NEW r \in Placing, Place(r)
    PROVE  IInv'
  BY LookUpStep, CheckStockStep, InsertStep, TakePointsStep, TakeProductStep,
     TakeVariantStep, CommitOrderStep, SaveRecordStep DEF Place

\* Every step of a cancellation keeps the invariant.
LEMMA CancelStep ==
    ASSUME IInv, NEW c \in Cancelling, Cancel(c)
    PROVE  IInv'
  BY CancelReadStep, CancelStatusStep, CancelPointsStep, CancelProductStep,
     CancelVariantStep, CancelCommitStep DEF Cancel

\* Every step of an edit keeps the invariant.
LEMMA UpdateStep ==
    ASSUME IInv, NEW u \in Updating, Update(u)
    PROVE  IInv'
  BY UpdateStartStep, DeleteVariantsStep, UpdateProductStep, UpdateCommitStep
     DEF Update

\* Every step keeps the invariant.
LEMMA StepInv == IInv /\ [Next]_vars => IInv'
<1>. SUFFICES ASSUME IInv, [Next]_vars PROVE IInv'
  OBVIOUS
<1>1. CASE Next
  BY <1>1, PlaceStep, PayStep, CancelStep, UpdateStep, RemoveStep, AbandonStep,
     ExpireStep DEF Next
<1>2. CASE UNCHANGED vars
  <2>1. UNCHANGED <<rowVars, order, cancelVars, keyVars, pc, at>>
    BY <1>2 DEF vars
  <2>2. RowsOK /\ RestOK
    BY Facts
  <2>3. RowsOK' /\ RestOK'
    BY <2>1, <2>2 DEF RowsOK, RestOK, rowVars, cancelVars, keyVars
  <2>4. \A r \in Placing : PlaceInv(r)'
    BY <2>1 DEF IInv, PlaceInv, SpendsPoints, keyVars
  <2>5. \A c \in Cancelling : CancelInv(c)'
    BY <2>1 DEF IInv, CancelInv
  <2>6. AnswersArePlaced' /\ KeyInv'
    BY <2>1 DEF IInv, AnswersArePlaced, KeyInv, Live, InFlight, keyVars
  <2>. QED BY <2>3, <2>4, <2>5, <2>6, TypeJoin DEF IInv
<1>. QED BY <1>1, <1>2

\* The inductive invariant holds for every cart, catalogue and set of calls: what
\* a running call of create, a cancellation and a key rely on stays true.
THEOREM Invariant == Spec => []IInv
<1>1. Init => IInv
  BY InitInv
<1>2. IInv /\ [Next]_vars => IInv'
  BY StepInv
<1>. QED BY <1>1, <1>2, PTL DEF Spec

\* Every variable keeps its type.
THEOREM TypeCorrect == Spec => []TypeOK
<1>1. IInv => TypeOK
  BY DEF IInv
<1>. QED BY <1>1, Invariant, PTL

\* Neither stock nor points ever become negative, committed or about to be, however
\* the transactions of orders, cancellations and the seller's edits interleave.
THEOREM NothingNegative == Spec => []NeverNegative
<1>1. IInv => NeverNegative
  BY DEF IInv
<1>. QED BY <1>1, Invariant, PTL

\* What create answers, and what the record of a key will answer, is always an
\* order that was committed for that key.
THEOREM AnswersCommitted == Spec => []AnswersArePlaced
<1>1. IInv => AnswersArePlaced
  BY DEF IInv
<1>. QED BY <1>1, Invariant, PTL

\* A key places two orders only if the calls overlapped or a record of it was lost,
\* for any number of calls.
THEOREM DuplicatesOnlyOverlap == Spec => []DuplicatesOverlap
<1>1. IInv => DuplicatesOverlap
  BY DEF IInv, KeyInv, Live, DuplicatesOverlap
<1>. QED BY <1>1, Invariant, PTL

\* A retry is answered with a committed order of its key, and places a second one only
\* if it overlaps the first or the record was lost.
THEOREM RetriesAnswered == Spec => []KeysHonoured
<1>1. AnswersArePlaced /\ DuplicatesOverlap => KeysHonoured
  BY DEF KeysHonoured
<1>. QED BY <1>1, AnswersCommitted, DuplicatesOnlyOverlap, PTL

-----------------------------------------------------------------------------
(* What an order takes from a row, line by line *)

\* The lines of an order: each takes some number of a product and maybe of one
\* of its variants, and nothing else.
LEMMA LineDemandFacts ==
    ASSUME NEW o \in Placing, NEW row
    PROVE  /\ DOMAIN Cart[o].lines = 1 .. Len(Cart[o].lines)
           /\ LineDemand(o, row) \in [1 .. Len(Cart[o].lines) -> Nat]
           /\ \A k \in 1 .. Len(Cart[o].lines) :
                /\ Cart[o].lines[k].product # Cart[o].lines[k].variant
                /\ LineDemand(o, row)[k] =
                     IF row \in {Cart[o].lines[k].product, Cart[o].lines[k].variant}
                       THEN Cart[o].lines[k].n ELSE 0
<1>1. Cart[o] \in CartType
  BY ReqAssumption
<1>. DEFINE LineType == [product: Product, variant: Variant \cup {None}, n: Nat \ {0}]
<1>2. Cart[o].lines \in Seq(LineType)
  BY <1>1 DEF CartType
<1>3. DOMAIN Cart[o].lines = 1 .. Len(Cart[o].lines)
  <2>. HIDE DEF LineType
  <2>. QED BY <1>2
<1>4. \A k \in 1 .. Len(Cart[o].lines) : Cart[o].lines[k].product # Cart[o].lines[k].variant
  BY CartFacts, RowAssumption, NoneAssumption DEF Row
<1>5. \A k \in 1 .. Len(Cart[o].lines) : Cart[o].lines[k].n \in Nat
  BY CartFacts
<1>. QED BY <1>3, <1>4, <1>5 DEF LineDemand

\* Points are taken from an account, never from a stock.
LEMMA PointsDemandFacts ==
    ASSUME NEW o \in Placing, NEW row
    PROVE  /\ PointsDemand(o, row) \in Nat
           /\ row \in Product \cup Variant => PointsDemand(o, row) = 0
           /\ ~SpendsPoints(o) /\ row \in Row => PointsDemand(o, row) = 0
  BY CartFacts, RowAssumption, NoneAssumption DEF PointsDemand, SpendsPoints, Row

\* The lines a transaction has been through are some of the cart's.
LEMMA LinesBehindFinite ==
    ASSUME NEW o \in Placing, NEW label, NEW k \in 1 .. Len(Cart[o].lines)
    PROVE  /\ LinesBehind(label, k, o) \subseteq 1 .. Len(Cart[o].lines)
           /\ IsFiniteSet(LinesBehind(label, k, o))
<1>1. Len(Cart[o].lines) \in Nat /\ DOMAIN Cart[o].lines = 1 .. Len(Cart[o].lines)
  BY CartFacts, LineDemandFacts
<1>2. LinesBehind(label, k, o) \subseteq 1 .. Len(Cart[o].lines)
  BY <1>1 DEF LinesBehind
<1>3. IsFiniteSet(1 .. Len(Cart[o].lines))
  BY <1>1, FS_Interval
<1>. QED BY <1>2, <1>3, FS_Subset

\* What those lines take is a natural number.
LEMMA BehindNat ==
    ASSUME NEW o \in Placing, NEW row, NEW label, NEW k \in 1 .. Len(Cart[o].lines)
    PROVE  SumFunctionOnSet(LineDemand(o, row), LinesBehind(label, k, o)) \in Nat
<1>1. \A i \in LinesBehind(label, k, o) : LineDemand(o, row)[i] \in Nat
  BY LineDemandFacts, LinesBehindFinite
<1>. QED BY <1>1, LinesBehindFinite, SumNat

\* What a transaction has moved is a natural number.
LEMMA MovedNat ==
    ASSUME NEW o \in Placing, NEW row, NEW label, NEW k \in 1 .. Len(Cart[o].lines)
    PROVE  Moved(label, k, o, row) \in Nat
<1>1. Cart[o].lines[k].n \in Nat
  BY CartFacts
<1>. QED BY <1>1, BehindNat, PointsDemandFacts DEF Moved

\* Nothing is moved yet when the loop begins, but for the points.
LEMMA MovedFirst ==
    ASSUME NEW o \in Placing, NEW row
    PROVE  /\ Moved("points", 1, o, row) = 0
           /\ Moved("product", 1, o, row) = PointsDemand(o, row)
<1>1. 1 .. (1 - 1) = {}
  OBVIOUS
<1>2. SumFunctionOnSet(LineDemand(o, row), {}) = 0
  BY SumEmpty
<1>. QED BY <1>1, <1>2, PointsDemandFacts DEF Moved, LinesBehind

\* At a line's variant, its product has been moved too.
LEMMA MovedProduct ==
    ASSUME NEW o \in Placing, NEW row, NEW k \in 1 .. Len(Cart[o].lines)
    PROVE  Moved("variant", k, o, row) = Moved("product", k, o, row)
              + (IF row = Cart[o].lines[k].product THEN Cart[o].lines[k].n ELSE 0)
<1>. DEFINE V == SumFunctionOnSet(LineDemand(o, row), 1 .. (k - 1))
<1>1. Cart[o].lines[k].n \in Nat /\ PointsDemand(o, row) \in Nat
  BY CartFacts, PointsDemandFacts
<1>2. LinesBehind("product", k, o) = 1 .. (k - 1) /\ LinesBehind("variant", k, o) = 1 .. (k - 1)
  BY DEF LinesBehind
<1>3. V \in Nat
  BY <1>2, BehindNat
<1>4. /\ Moved("product", k, o, row) = V + PointsDemand(o, row)
      /\ Moved("variant", k, o, row) = V
            + (IF row = Cart[o].lines[k].product THEN Cart[o].lines[k].n ELSE 0)
            + PointsDemand(o, row)
  <2>. HIDE DEF V
  <2>1. SumFunctionOnSet(LineDemand(o, row), LinesBehind("product", k, o)) = V
    BY <1>2 DEF V
  <2>2. SumFunctionOnSet(LineDemand(o, row), LinesBehind("variant", k, o)) = V
    BY <1>2 DEF V
  <2>. QED BY <1>1, <1>3, <2>1, <2>2 DEF Moved
<1>. HIDE DEF V
<1>. QED BY <1>1, <1>3, <1>4

\* Past a line, the whole line has been moved; past the last, the whole order.
LEMMA MovedLine ==
    ASSUME NEW o \in Placing, NEW row, NEW k \in 1 .. Len(Cart[o].lines)
    PROVE  /\ k < Len(Cart[o].lines) =>
                Moved("product", k + 1, o, row) =
                    Moved("product", k, o, row) + LineDemand(o, row)[k]
           /\ k = Len(Cart[o].lines) =>
                Moved("commit", k, o, row) =
                    Moved("product", k, o, row) + LineDemand(o, row)[k]
<1>. DEFINE S == 1 .. (k - 1)
            F == LineDemand(o, row)
<1>1. Len(Cart[o].lines) \in Nat /\ k \in Nat
  BY CartFacts
<1>2. IsFiniteSet(S) /\ k \notin S /\ S \cup {k} = 1 .. k
  <2>1. IsFiniteSet(S)
    BY <1>1, FS_Interval
  <2>2. k \notin S /\ S \cup {k} = 1 .. k
    BY <1>1
  <2>. QED BY <2>1, <2>2
<1>3. \A i \in S \cup {k} : F[i] \in Int
  BY <1>1, <1>2, LineDemandFacts
<1>4. SumFunctionOnSet(F, 1 .. k) = SumFunctionOnSet(F, S) + F[k]
  BY <1>2, <1>3, SumAdd
<1>5. SumFunctionOnSet(F, S) \in Nat /\ F[k] \in Nat /\ PointsDemand(o, row) \in Nat
  <2>1. LinesBehind("product", k, o) = S
    BY DEF LinesBehind
  <2>2. SumFunctionOnSet(F, S) \in Nat
    BY <2>1, BehindNat
  <2>. QED BY <2>2, LineDemandFacts, PointsDemandFacts
<1>6. Moved("product", k, o, row) = SumFunctionOnSet(F, S) + PointsDemand(o, row)
  BY <1>5 DEF Moved, LinesBehind
<1>7. ASSUME k < Len(Cart[o].lines)
      PROVE  Moved("product", k + 1, o, row) = SumFunctionOnSet(F, 1 .. k) + PointsDemand(o, row)
  BY <1>1, <1>4, <1>5 DEF Moved, LinesBehind
<1>8. ASSUME k = Len(Cart[o].lines)
      PROVE  Moved("commit", k, o, row) = SumFunctionOnSet(F, 1 .. k) + PointsDemand(o, row)
  BY <1>4, <1>5, <1>8, LineDemandFacts DEF Moved, LinesBehind
<1>. QED BY <1>4, <1>5, <1>6, <1>7, <1>8

\* At its commit it has moved all that the order asks for.
LEMMA MovedAll ==
    ASSUME NEW o \in Placing, NEW row, NEW k \in 1 .. Len(Cart[o].lines)
    PROVE  Moved("commit", k, o, row) = Demand(o, row)
<1>1. DOMAIN LineDemand(o, row) = DOMAIN Cart[o].lines
  BY DEF LineDemand
<1>2. SumFunction(LineDemand(o, row)) = SumFunctionOnSet(LineDemand(o, row), DOMAIN Cart[o].lines)
  BY <1>1 DEF SumFunction
<1>. QED BY <1>2, BehindNat, PointsDemandFacts DEF Moved, LinesBehind, Demand

\* A row that no line of an order names is not touched by its lines.
LEMMA NoLineNoDemand ==
    ASSUME NEW o \in Placing, NEW row \in Row, row \notin LineRows(o)
    PROVE  /\ \A k \in 1 .. Len(Cart[o].lines) : LineDemand(o, row)[k] = 0
           /\ Demand(o, row) = PointsDemand(o, row)
<1>1. \A k \in 1 .. Len(Cart[o].lines) :
        row # Cart[o].lines[k].product /\ row # Cart[o].lines[k].variant
  <2>1. \A k \in 1 .. Len(Cart[o].lines) : Cart[o].lines[k] \in Range(Cart[o].lines)
    BY LineDemandFacts DEF Range
  <2>. QED BY <2>1, NoneAssumption DEF LineRows
<1>2. \A k \in 1 .. Len(Cart[o].lines) : LineDemand(o, row)[k] = 0
  BY <1>1, LineDemandFacts
<1>3. DOMAIN LineDemand(o, row) = 1 .. Len(Cart[o].lines)
  BY LineDemandFacts
<1>4. SumFunction(LineDemand(o, row)) = 0
  <2>1. IsFiniteSet(1 .. Len(Cart[o].lines))
    BY CartFacts, FS_Interval
  <2>. QED BY <1>2, <1>3, <2>1, SumZero DEF SumFunction
<1>. QED BY <1>2, <1>4, PointsDemandFacts DEF Demand

\* The rows of a line are rows of the order, and its variant is its product's.
LEMMA LineRowFacts ==
    ASSUME NEW o \in Placing, NEW k \in 1 .. Len(Cart[o].lines)
    PROVE  /\ Cart[o].lines[k].product \in LineRows(o)
           /\ Cart[o].lines[k].variant # None =>
                /\ Cart[o].lines[k].variant \in LineRows(o)
                /\ ProductOf[Cart[o].lines[k].variant] = Cart[o].lines[k].product
<1>1. Cart[o].lines[k] \in Range(Cart[o].lines)
  BY LineDemandFacts DEF Range
<1>2. Cart[o].lines[k].product # None
  BY CartFacts, NoneAssumption DEF Row
<1>. QED BY <1>1, <1>2, VariantAssumption DEF LineRows

\* The rows of a cart are stocks, and a variant comes with its product.
LEMMA LineRowsAreRows ==
    ASSUME NEW o \in Placing
    PROVE  /\ LineRows(o) \subseteq Product \cup Variant
           /\ \A v \in LineRows(o) \cap Variant : ProductOf[v] \in LineRows(o)
<1>1. \A l \in Range(Cart[o].lines) : \E k \in 1 .. Len(Cart[o].lines) : l = Cart[o].lines[k]
  BY LineDemandFacts DEF Range
<1>2. ASSUME NEW row \in LineRows(o)
      PROVE  /\ row \in Product \cup Variant
             /\ row \in Variant => ProductOf[row] \in LineRows(o)
  <2>1. PICK k \in 1 .. Len(Cart[o].lines) :
          row # None /\ row \in {Cart[o].lines[k].product, Cart[o].lines[k].variant}
    BY <1>1 DEF LineRows
  <2>. QED BY <2>1, CartFacts, LineRowFacts, RowAssumption
<1>. QED BY <1>2

-----------------------------------------------------------------------------
(* What a step of one request leaves of the others *)

\* The step leaves x where it is, with the same locks, and does not touch the
\* rows x holds.
Kept(x) ==
    /\ pc'[x] = pc[x] /\ at'[x] = at[x]
    /\ \A i \in Lockable : holder'[i] = x <=> holder[i] = x
    /\ \A row \in Row : holder[row] = x => dirty'[row] = dirty[row] /\ db'[row] = db[row]

\* Rows are lockable, a lock has a holder or none, and a request is not "none".
LEMMA LockFacts ==
    ASSUME RowsOK
    PROVE  /\ Row \subseteq Lockable /\ Placing \subseteq Lockable
           /\ holder \in [Lockable -> Req \cup {None}]
           /\ None \notin Req /\ None \notin Row
           /\ Placing \subseteq Req /\ Cancelling \subseteq Req
           /\ Updating \subseteq Req /\ Removing \subseteq Req
  BY NoneAssumption DEF RowsOK, Lockable, Req

\* A write leaves the rows that others have locked.
LEMMA WriteKeeps ==
    ASSUME RowsOK, NEW r \in Req, NEW x \in Req, x # r, NEW row, NEW v, Write(r, row, v),
           db' = db, pc'[x] = pc[x], at'[x] = at[x]
    PROVE  Kept(x)
<1>1. \A i \in Lockable : i # row => holder'[i] = holder[i]
  BY LockFacts DEF Write
<1>2. \A i \in Row : i # row => dirty'[i] = dirty[i]
  BY DEF Write, RowsOK
<1>3. row \in Lockable => holder'[row] = r /\ holder[row] # x
  BY LockFacts DEF Write, CanLock
<1>. QED BY <1>1, <1>2, <1>3, LockFacts DEF Kept

\* A transaction that ends leaves the rows that others have locked.
LEMMA ReleaseKeeps ==
    ASSUME RowsOK, NEW r \in Req, NEW x \in Req, x # r, Release(r),
           \A row \in Row : holder[row] = x => db'[row] = db[row],
           pc'[x] = pc[x], at'[x] = at[x]
    PROVE  Kept(x)
<1>1. \A i \in Lockable : holder'[i] = IF holder[i] = r THEN None ELSE holder[i]
  BY DEF Release
<1>2. \A i \in Row : holder[i] # r => dirty'[i] = dirty[i]
  BY DEF Release
<1>. QED BY <1>1, <1>2, LockFacts DEF Kept

\* So does a commit.
LEMMA CommitKeeps ==
    ASSUME RowsOK, NEW r \in Req, NEW x \in Req, x # r, Commit(r),
           pc'[x] = pc[x], at'[x] = at[x]
    PROVE  Kept(x)
<1>1. \A row \in Row : holder[row] = x => db'[row] = db[row]
  BY DEF Commit, Current
<1>. QED BY <1>1, ReleaseKeeps DEF Commit

\* After a release, no lock is held.
LEMMA ReleaseFrees ==
    ASSUME RowsOK, NEW r \in Req, Release(r)
    PROVE  \A i \in Lockable : holder'[i] # r
<1>1. \A i \in Lockable : holder'[i] = IF holder[i] = r THEN None ELSE holder[i]
  BY DEF Release
<1>. QED BY <1>1, LockFacts

\* The equation of a transaction survives whatever keeps its rows.
LEMMA KeptEquation ==
    ASSUME RowsOK, RowsOK', NEW x, Kept(x), NEW row \in Row, NEW m \in Int,
           Current(x, row) = db[row] + m
    PROVE  Current(x, row)' = db'[row] + m
<1>1. db[row] \in Int /\ db'[row] \in Int
  BY DEF RowsOK
<1>2. CASE holder[row] = x
  BY <1>2, LockFacts DEF Kept, Current
<1>3. CASE holder[row] # x
  <2>1. m = 0
    BY <1>1, <1>3 DEF Current
  <2>2. holder'[row] # x
    BY <1>3, LockFacts DEF Kept
  <2>. QED BY <1>1, <2>1, <2>2 DEF Current
<1>. QED BY <1>2, <1>3

\* A creation that is left alone is where it was in its transaction.
LEMMA KeptCreate ==
    ASSUME IInv, RowsOK', NEW r \in Placing, CreateTx(r), Kept(r),
           pc[r] \in LaterLabels =>
              /\ LineRows(r) \subseteq alive'
              /\ \A row \in LineRows(r) : ~BeingDeleted(row)',
           order'[r] = "none" => order[r] = "none" /\ returned'[r] = returned[r]
    PROVE  CreateTx(r)'
<1>1. RowsOK /\ pc'[r] = pc[r] /\ at'[r] = at[r]
  BY Facts DEF Kept
<1>2. at[r] \in 1 .. Len(Cart[r].lines)
  BY Facts, CartFacts DEF RestOK, IInv
<1>3. order'[r] = "none" => returned'[r] = [row \in Row |-> 0]
  BY DEF CreateTx
<1>4. CASE pc[r] \in LaterLabels
  <2>1. ASSUME NEW row \in Row
        PROVE  Current(r, row)' = db'[row] - Moved(pc[r], at[r], r, row)
    <3>. DEFINE M == Moved(pc[r], at[r], r, row)
    <3>1. M \in Nat
      BY <1>2, MovedNat
    <3>2. Current(r, row) = db[row] - M
      BY <1>4 DEF CreateTx
    <3>3. db[row] \in Int /\ db'[row] \in Int
      BY <1>1 DEF RowsOK
    <3>. HIDE DEF M
    <3>4. Current(r, row) = db[row] + (0 - M) /\ 0 - M \in Int
      BY <3>1, <3>2, <3>3
    <3>5. Current(r, row)' = db'[row] + (0 - M)
      BY <1>1, <3>4, KeptEquation
    <3>6. Current(r, row)' = db'[row] - M
      BY <3>1, <3>3, <3>5
    <3>. QED BY <3>6 DEF M
  <2>. QED BY <1>1, <1>3, <1>4, <2>1 DEF CreateTx
<1>5. CASE pc[r] \notin LaterLabels
  BY <1>1, <1>3, <1>5, LockFacts DEF CreateTx, Kept
<1>. QED BY <1>4, <1>5

\* A cancellation that is left alone is where it was in its transaction.
LEMMA KeptCancel ==
    ASSUME IInv, RowsOK', NEW c \in Cancelling, CancelTx(c), Kept(c),
           attached'[c] = attached[c], paidSeen'[c] = paidSeen[c],
           pc[c] \in LaterLabels =>
              /\ Cancellable(Target[c])'
              /\ \A row \in Row : holder[row] = c /\ row \in alive => row \in alive'
              /\ alive' \cap LineRows(Target[c]) \subseteq alive,
           paidSeen[c] => order'[Target[c]] \in {"PAID", "CANCELLED"}
    PROVE  CancelTx(c)'
<1>. DEFINE o == Target[c]
<1>1. RowsOK /\ pc'[c] = pc[c] /\ at'[c] = at[c] /\ o \in Placing
  BY Facts DEF Kept
<1>2. at[c] \in 1 .. Len(Cart[o].lines)
  BY Facts, CartFacts DEF RestOK, IInv
<1>3. CASE pc[c] \in LaterLabels
  <2>1. Returnable(c)' = Returnable(c)
    BY DEF Returnable
  <2>2. ASSUME NEW row \in Row
        PROVE  Current(c, row)' = db'[row] +
                 (IF row \in Returnable(c) THEN Moved(pc[c], at[c], o, row) ELSE 0)
    <3>. DEFINE M == IF row \in Returnable(c) THEN Moved(pc[c], at[c], o, row) ELSE 0
    <3>1. M \in Int
      BY <1>1, <1>2, MovedNat
    <3>2. Current(c, row) = db[row] + M
      BY <1>3 DEF CancelTx
    <3>. HIDE DEF M
    <3>3. Current(c, row)' = db'[row] + M
      BY <1>1, <3>1, <3>2, KeptEquation
    <3>. QED BY <3>3 DEF M
  <2>3. holder'[o] = c
    BY <1>1, <1>3, LockFacts DEF CancelTx, Kept
  <2>4. \A row \in Row : holder'[row] = c => row \in Returnable(c) /\ row \in alive' \cup Account
    BY <1>1, <1>3, LockFacts DEF CancelTx, Kept
  <2>5. alive' \cap LineRows(o) \subseteq attached[c]
    BY <1>3 DEF CancelTx
  <2>6. LineOf(c, o)' = LineOf(c, o)
    BY <1>1 DEF LineOf
  <2>7. VariantAttached(c, LineOf(c, o))' <=> VariantAttached(c, LineOf(c, o))
    BY <2>6 DEF VariantAttached
  <2>. QED BY <1>1, <1>3, <2>1, <2>2, <2>3, <2>4, <2>5, <2>6, <2>7 DEF CancelTx
<1>4. CASE pc[c] \notin LaterLabels
  BY <1>1, <1>4, LockFacts DEF CancelTx, Kept
<1>. QED BY <1>3, <1>4

\* An edit that is left alone is where it was in its transaction.
LEMMA KeptUpdate ==
    ASSUME IInv, NEW u \in Updating, UpdateTx(u), Kept(u),
           pc[u] = "commit" => Edit[u].product \in alive',
           pc[u] # "done" =>
              /\ Edit[u].variants \cap alive' = {}
              /\ \A o \in Placing : order'[o] # "none" => Edit[u].variants \cap LineRows(o) = {}
    PROVE  UpdateTx(u)'
<1>1. RowsOK /\ pc'[u] = pc[u] /\ Edit[u].product \in Row /\ Row \subseteq Lockable
  BY Facts, LockFacts, EditFacts DEF Kept, Row
<1>2. \A row \in Row : holder'[row] = u => holder[row] = u /\ dirty'[row] = dirty[row]
                                         /\ db'[row] = db[row]
  BY <1>1 DEF Kept
<1>3. InTx(u)' <=> InTx(u)
  BY <1>1 DEF InTx
<1>4. pc[u] = "commit" => /\ holder'[Edit[u].product] = u
                          /\ dirty'[Edit[u].product] = dirty[Edit[u].product]
                          /\ db'[Edit[u].product] = db[Edit[u].product]
  BY <1>1 DEF UpdateTx, Kept
<1>. QED BY <1>1, <1>2, <1>3, <1>4 DEF UpdateTx

-----------------------------------------------------------------------------
(* Steps of create *)

\* No row is being deleted that was not.
LEMMA NoNewDeletion ==
    ASSUME RowsOK, \A u \in Updating : Kept(u), NEW row \in Row, ~BeingDeleted(row)
    PROVE  ~BeingDeleted(row)'
  BY LockFacts DEF Kept, BeingDeleted

\* A step of a call of create: its own part holds again, it inserts no order but
\* its own, of rows that exist, and leaves the rest alone.
LEMMA CreateMove ==
    ASSUME IInv, TxInv, RowsOK', NEW r \in Placing, \A x \in Req \ {r} : Kept(x),
           UNCHANGED <<alive, cancelVars>>,
           \A o \in Placing \ {r} : order'[o] = order[o],
           order'[r] # order[r] =>
              order[r] = "none" /\ order'[r] = "PENDING" /\ LineRows(r) \subseteq alive,
           CreateTx(r)'
    PROVE  TxInv'
<1>1. RowsOK /\ RestOK
  BY Facts
<1>2. /\ \A q \in Placing : CreateTx(q)
      /\ \A c \in Cancelling : CancelTx(c) /\ CancelInv(c)
      /\ \A u \in Updating : UpdateTx(u)
      /\ \A v \in alive \cap Variant : ProductOf[v] \in alive
  BY DEF TxInv, IInv
<1>3. \A u \in Updating : Kept(u)
  BY LockFacts, <1>1, ReqAssumption
<1>4. \A q \in Placing : CreateTx(q)'
  <2>. SUFFICES ASSUME NEW q \in Placing, q # r PROVE CreateTx(q)'
    OBVIOUS
  <2>1. Kept(q) /\ order'[q] = order[q] /\ returned'[q] = returned[q] /\ CreateTx(q)
    BY <1>1, <1>2, LockFacts DEF cancelVars
  <2>2. \A row \in LineRows(q) : row \in Row
    BY LineRowsAreRows DEF Row
  <2>3. pc[q] \in LaterLabels => /\ LineRows(q) \subseteq alive'
                                 /\ \A row \in LineRows(q) : ~BeingDeleted(row)'
    BY <1>1, <1>3, <2>1, <2>2, NoNewDeletion DEF CreateTx
  <2>. QED BY <2>1, <2>3, KeptCreate
<1>5. \A c \in Cancelling : CancelTx(c)'
  <2>. TAKE c \in Cancelling
  <2>1. Kept(c) /\ CancelTx(c) /\ Target[c] \in Placing
    BY <1>1, <1>2, LockFacts, ReqAssumption
  <2>2. attached'[c] = attached[c] /\ paidSeen'[c] = paidSeen[c]
    BY DEF cancelVars
  <2>3. pc[c] \in LaterLabels => Cancellable(Target[c])'
    BY <2>1 DEF CancelTx, Cancellable
  <2>4. paidSeen[c] => order'[Target[c]] \in {"PAID", "CANCELLED"}
    BY <2>1 DEF CancelTx
  <2>. QED BY <2>1, <2>2, <2>3, <2>4, KeptCancel
<1>6. \A u \in Updating : UpdateTx(u)'
  <2>. TAKE u \in Updating
  <2>1. Kept(u) /\ UpdateTx(u)
    BY <1>2, <1>3
  <2>. QED BY <2>1, KeptUpdate DEF UpdateTx
<1>. QED BY <1>2, <1>4, <1>5, <1>6 DEF TxInv

\* A call that takes from a row has its equation again if what it has moved grows
\* by what it takes.
LEMMA TakeEquation ==
    ASSUME RowsOK, NEW r \in Req, NEW row, NEW n \in Nat, Take(r, row, n),
           NEW i \in Row, NEW m \in Nat, Current(r, i) = db[i] - m
    PROVE  Current(r, i)' = db'[i] - (m + (IF i = row THEN n ELSE 0))
<1>1. db' = db /\ Write(r, row, Current(r, row) - n)
  BY DEF Take
<1>2. db[i] \in Int /\ Row \subseteq Lockable
  BY LockFacts DEF RowsOK
<1>3. CASE i = row
  BY <1>1, <1>2, <1>3, LockFacts DEF Write, Current, RowsOK
<1>4. CASE i # row
  BY <1>1, <1>2, <1>4, LockFacts DEF Write, Current, RowsOK
<1>. QED BY <1>3, <1>4

\* What a call has moved after it took n of a row, at its next label and line.
LEMMA TakeTx ==
    ASSUME IInv, TxInv, NEW r \in Placing, NEW row, NEW n \in Nat, Take(r, row, n),
           pc[r] \in LaterLabels, pc'[r] \in LaterLabels, RowsOK',
           \A x \in Req \ {r} : pc'[x] = pc[x] /\ at'[x] = at[x],
           at'[r] \in 1 .. Len(Cart[r].lines),
           \A i \in Row : Moved(pc'[r], at'[r], r, i) =
                            Moved(pc[r], at[r], r, i) + (IF i = row THEN n ELSE 0)
    PROVE  TxInv'
<1>1. RowsOK /\ RestOK /\ r \in Req /\ at[r] \in 1 .. Len(Cart[r].lines)
  BY Facts, CartFacts DEF RestOK
<1>2. UNCHANGED <<alive, order, cancelVars, keyVars, db>>
  BY DEF Take
<1>3. \A x \in Req \ {r} : Kept(x)
  BY <1>1, <1>2, WriteKeeps DEF Take
<1>4. CreateTx(r)
  BY DEF TxInv
<1>5. ASSUME NEW i \in Row
      PROVE  Current(r, i)' = db'[i] - Moved(pc'[r], at'[r], r, i)
  <2>1. Moved(pc[r], at[r], r, i) \in Nat
    BY <1>1, MovedNat
  <2>2. Current(r, i) = db[i] - Moved(pc[r], at[r], r, i)
    BY <1>4 DEF CreateTx
  <2>3. Current(r, i)' = db'[i] - (Moved(pc[r], at[r], r, i) + (IF i = row THEN n ELSE 0))
    BY <1>1, <2>1, <2>2, TakeEquation
  <2>. QED BY <2>3
<1>6. \A u \in Updating : Kept(u)
  BY <1>1, <1>3, LockFacts, ReqAssumption
<1>7. \A i \in LineRows(r) : ~BeingDeleted(i)'
  BY <1>1, <1>4, <1>6, NoNewDeletion, LineRowsAreRows DEF CreateTx, Row
<1>8. CreateTx(r)'
  BY <1>2, <1>4, <1>5, <1>7 DEF CreateTx, cancelVars
<1>. QED BY <1>2, <1>3, <1>8, CreateMove

\* The points come first.
LEMMA PointsMoved ==
    ASSUME NEW o \in Placing, NEW row, NEW k \in 1 .. Len(Cart[o].lines)
    PROVE  Moved("product", k, o, row) = Moved("points", k, o, row) + PointsDemand(o, row)
<1>1. LinesBehind("product", k, o) = LinesBehind("points", k, o)
  BY DEF LinesBehind
<1>2. SumFunctionOnSet(LineDemand(o, row), LinesBehind("points", k, o)) \in Nat
  BY BehindNat
<1>. QED BY <1>1, <1>2, PointsDemandFacts DEF Moved

\* The loop goes on past its line, or ends.
LEMMA PastLine ==
    ASSUME RestOK, NEW x \in Req, NEW o \in Placing, at[x] \in 1 .. Len(Cart[o].lines),
           NextLine(x, o), NEW row
    PROVE  /\ pc'[x] \in LaterLabels /\ pc'[x] \in {"product", "commit"}
           /\ at'[x] \in 1 .. Len(Cart[o].lines)
           /\ Moved(pc'[x], at'[x], o, row) =
                Moved("product", at[x], o, row) + LineDemand(o, row)[at[x]]
<1>1. Len(Cart[o].lines) \in Nat
  BY CartFacts
<1>2. CASE at[x] < Len(Cart[o].lines)
  <2>1. at'[x] = at[x] + 1 /\ pc'[x] = "product"
    BY <1>2 DEF NextLine, Goto, RestOK
  <2>. QED BY <1>1, <1>2, <2>1, MovedLine DEF LaterLabels
<1>3. CASE ~(at[x] < Len(Cart[o].lines))
  <2>1. at'[x] = at[x] /\ pc'[x] = "commit" /\ at[x] = Len(Cart[o].lines)
    BY <1>1, <1>3 DEF NextLine, Goto, RestOK
  <2>. QED BY <2>1, MovedLine DEF LaterLabels
<1>. QED BY <1>2, <1>3

\* The debit of the points keeps every transaction's invariant.
LEMMA TakePointsTx ==
    ASSUME IInv, TxInv, RowsOK', NEW r \in Placing,
           pc[r] = "points", Take(r, Cart[r].account, Cart[r].points),
           Goto(r, "product"), UNCHANGED at
    PROVE  TxInv'
<1>1. RestOK /\ r \in Req /\ at[r] \in 1 .. Len(Cart[r].lines) /\ Cart[r].points \in Nat
  BY Facts, CartFacts DEF RestOK
<1>2. pc'[r] = "product" /\ \A x \in Req \ {r} : pc'[x] = pc[x]
  BY <1>1 DEF Goto, RestOK
<1>3. \A i \in Row : Moved("product", at[r], r, i) =
        Moved("points", at[r], r, i) + (IF i = Cart[r].account THEN Cart[r].points ELSE 0)
  BY <1>1, PointsMoved DEF PointsDemand
<1>. QED BY <1>1, <1>2, <1>3, TakeTx DEF LaterLabels

\* The decrement of a product keeps every transaction's invariant.
LEMMA TakeProductTx ==
    ASSUME IInv, TxInv, RowsOK', NEW r \in Placing,
           pc[r] = "product", Take(r, LineOf(r, r).product, LineOf(r, r).n),
           IF LineOf(r, r).variant = None THEN NextLine(r, r)
                                          ELSE Goto(r, "variant") /\ UNCHANGED at
    PROVE  TxInv'
<1>. DEFINE l == LineOf(r, r)
<1>1. RestOK /\ r \in Req /\ at[r] \in 1 .. Len(Cart[r].lines) /\ l.n \in Nat
  BY Facts, CartFacts DEF RestOK, LineOf
<1>2. CASE l.variant = None
  <2>1. \A x \in Req \ {r} : pc'[x] = pc[x] /\ at'[x] = at[x]
    BY <1>1, <1>2, NextLineFacts
  <2>2. \A i \in Row : LineDemand(r, i)[at[r]] = IF i = l.product THEN l.n ELSE 0
    BY <1>1, <1>2, LineDemandFacts, NoneAssumption DEF LineOf
  <2>3. NextLine(r, r)
    BY <1>2
  <2>4. /\ pc'[r] \in LaterLabels /\ at'[r] \in 1 .. Len(Cart[r].lines)
        /\ \A i \in Row : Moved(pc'[r], at'[r], r, i) =
                            Moved("product", at[r], r, i) + LineDemand(r, i)[at[r]]
    BY <1>1, <2>3, PastLine
  <2>. QED BY <1>1, <2>1, <2>2, <2>4, TakeTx DEF LaterLabels
<1>3. CASE l.variant # None
  <2>1. pc'[r] = "variant" /\ at' = at /\ \A x \in Req \ {r} : pc'[x] = pc[x]
    BY <1>1, <1>3 DEF Goto, RestOK
  <2>2. \A i \in Row : Moved("variant", at[r], r, i) =
          Moved("product", at[r], r, i) + (IF i = l.product THEN l.n ELSE 0)
    BY <1>1, MovedProduct DEF LineOf
  <2>. QED BY <1>1, <2>1, <2>2, TakeTx DEF LaterLabels
<1>. QED BY <1>2, <1>3

\* The decrement of a variant keeps every transaction's invariant.
LEMMA TakeVariantTx ==
    ASSUME IInv, TxInv, RowsOK', NEW r \in Placing,
           pc[r] = "variant", Take(r, LineOf(r, r).variant, LineOf(r, r).n), NextLine(r, r)
    PROVE  TxInv'
<1>. DEFINE l == LineOf(r, r)
            k == at[r]
<1>1. RestOK /\ r \in Req /\ k \in 1 .. Len(Cart[r].lines) /\ l.n \in Nat
  BY Facts, CartFacts DEF RestOK, LineOf
<1>2. \A x \in Req \ {r} : pc'[x] = pc[x] /\ at'[x] = at[x]
  BY <1>1, NextLineFacts
<1>3. /\ pc'[r] \in LaterLabels /\ at'[r] \in 1 .. Len(Cart[r].lines)
      /\ \A i \in Row : Moved(pc'[r], at'[r], r, i) =
                          Moved("product", k, r, i) + LineDemand(r, i)[k]
  BY <1>1, PastLine
<1>4. ASSUME NEW i \in Row
      PROVE  Moved(pc'[r], at'[r], r, i) =
               Moved("variant", k, r, i) + (IF i = l.variant THEN l.n ELSE 0)
  <2>1. Moved("variant", k, r, i) =
          Moved("product", k, r, i) + (IF i = l.product THEN l.n ELSE 0)
    BY <1>1, MovedProduct DEF LineOf
  <2>2. LineDemand(r, i)[k] = (IF i = l.product THEN l.n ELSE 0)
                              + (IF i = l.variant THEN l.n ELSE 0)
    BY <1>1, LineDemandFacts DEF LineOf
  <2>3. Moved("product", k, r, i) \in Nat
    BY <1>1, MovedNat
  <2>. QED BY <1>1, <1>3, <2>1, <2>2, <2>3
<1>. QED BY <1>1, <1>2, <1>3, <1>4, TakeTx DEF LaterLabels

\* A step of create that touches no row, outside the loop before and after it.
LEMMA OutsideTx ==
    ASSUME IInv, TxInv, RowsOK', NEW r \in Placing, NEW l \in Labels \ LaterLabels,
           pc[r] \notin LaterLabels, pc' = [pc EXCEPT ![r] = l],
           UNCHANGED <<rowVars, order, cancelVars, at>>
    PROVE  TxInv'
<1>1. RowsOK /\ RestOK /\ r \in Req
  BY Facts
<1>2. pc'[r] = l /\ \A x \in Req \ {r} : pc'[x] = pc[x]
  BY <1>1 DEF RestOK
<1>3. \A x \in Req \ {r} : Kept(x)
  BY <1>2 DEF Kept, rowVars
<1>4. CreateTx(r)'
  BY <1>2 DEF TxInv, CreateTx, rowVars, cancelVars
<1>. QED BY <1>3, <1>4, CreateMove DEF rowVars

\* A transaction that begins has moved nothing, and its rows are there.
LEMMA InsertTx ==
    ASSUME IInv, TxInv, RowsOK', NEW r \in Placing, pc[r] = "insert",
           \A row \in LineRows(r) : ~BeingDeleted(row), LineRows(r) \subseteq alive,
           Goto(r, IF SpendsPoints(r) THEN "points" ELSE "product"),
           at' = [at EXCEPT ![r] = FirstLine],
           UNCHANGED <<rowVars, order, cancelVars, keyVars>>
    PROVE  TxInv'
<1>1. RowsOK /\ RestOK /\ r \in Req
  BY Facts
<1>2. /\ pc'[r] = IF SpendsPoints(r) THEN "points" ELSE "product"
      /\ at'[r] = 1
      /\ \A x \in Req \ {r} : pc'[x] = pc[x] /\ at'[x] = at[x]
  BY <1>1 DEF Goto, FirstLine, RestOK
<1>3. \A x \in Req \ {r} : Kept(x)
  BY <1>2 DEF Kept, rowVars
<1>4. CreateTx(r) /\ \A row \in Row : holder[row] # r
  BY DEF TxInv, CreateTx, LaterLabels
<1>5. \A row \in Row : Moved(pc'[r], at'[r], r, row) = 0
  BY <1>2, MovedFirst, PointsDemandFacts
<1>6. \A row \in Row : Current(r, row)' = db'[row] - 0
  BY <1>1, <1>4 DEF Current, RowsOK, rowVars
<1>7. pc'[r] \in LaterLabels
  BY <1>2 DEF LaterLabels
<1>8. CreateTx(r)'
  BY <1>4, <1>5, <1>6, <1>7 DEF CreateTx, BeingDeleted, rowVars, cancelVars
<1>. QED BY <1>3, <1>8, CreateMove DEF rowVars

\* The commit of an order keeps every transaction's invariant.
LEMMA CommitOrderTx ==
    ASSUME IInv, TxInv, RowsOK', NEW r \in Placing, CommitOrder(r)
    PROVE  TxInv'
<1>1. RowsOK /\ RestOK /\ r \in Req /\ r \in Lockable /\ Row \subseteq Lockable
  BY Facts, LockFacts
<1>2. pc'[r] \in {"done", "save"} /\ \A x \in Req \ {r} : pc'[x] = pc[x]
  BY <1>1 DEF CommitOrder, Goto, RestOK
<1>3. \A x \in Req \ {r} : Kept(x)
  BY <1>1, <1>2, CommitKeeps DEF CommitOrder
<1>4. order[r] = "none" /\ order'[r] = "PENDING" /\ \A o \in Placing \ {r} : order'[o] = order[o]
  BY <1>1 DEF CommitOrder, IInv, PlaceInv, RestOK
<1>5. CreateTx(r) /\ LineRows(r) \subseteq alive
  BY DEF TxInv, CreateTx, CommitOrder, LaterLabels
<1>6. \A row \in Row : holder'[row] # r
  BY <1>1, ReleaseFrees DEF CommitOrder, Commit
<1>7. CreateTx(r)'
  BY <1>2, <1>4, <1>5, <1>6 DEF CreateTx, LaterLabels, CommitOrder, cancelVars
<1>. QED BY <1>3, <1>4, <1>5, <1>7, CreateMove DEF CommitOrder

\* Whoever fails, the others are kept, and nothing of its transaction remains.
LEMMA RollbackTx ==
    ASSUME IInv, TxInv, RowsOK', NEW r \in Req, Rollback(r), pc[r] # "done"
    PROVE  TxInv'
<1>1. /\ RowsOK /\ RestOK /\ Row \subseteq Lockable
      /\ Placing \subseteq Req /\ Cancelling \subseteq Req /\ Updating \subseteq Req
  BY Facts, LockFacts
<1>2. /\ Release(r) /\ pc' = [pc EXCEPT ![r] = "failed"]
      /\ UNCHANGED <<db, alive, order, cancelVars, keyVars, at>>
  BY DEF Rollback
<1>3. pc'[r] = "failed" /\ \A x \in Req \ {r} : pc'[x] = pc[x]
  BY <1>1, <1>2 DEF RestOK
<1>4. \A x \in Req \ {r} : Kept(x)
  BY <1>1, <1>2, <1>3, ReleaseKeeps
<1>5. \A i \in Lockable : holder'[i] # r
  BY <1>1, <1>2, ReleaseFrees
<1>6. "failed" \notin LaterLabels /\ "failed" # "commit" /\ "failed" # "done"
  BY DEF LaterLabels
<1>7. \A q \in Placing : CreateTx(q)'
  <2>. TAKE q \in Placing
  <2>1. CreateTx(q) /\ order'[q] = order[q] /\ returned'[q] = returned[q]
    BY <1>2 DEF TxInv, cancelVars
  <2>2. CASE q = r
    BY <1>1, <1>3, <1>5, <1>6, <2>1, <2>2 DEF CreateTx
  <2>3. CASE q # r
    <3>1. Kept(q)
      BY <1>1, <1>4, <2>3
    <3>2. ASSUME pc[q] \in LaterLabels, NEW row \in LineRows(q)
          PROVE  ~BeingDeleted(row)'
      <4>1. row \in Row /\ ~BeingDeleted(row)
        BY <2>1, <3>2, LineRowsAreRows DEF CreateTx, Row
      <4>2. holder'[row] = holder[row] \/ holder'[row] = None
        BY <1>1, <1>2, <4>1 DEF Release
      <4>. QED BY <1>1, <4>1, <4>2, LockFacts DEF BeingDeleted
    <3>. QED BY <1>2, <2>1, <3>1, <3>2, KeptCreate DEF CreateTx
  <2>. QED BY <2>2, <2>3
<1>8. \A c \in Cancelling : CancelTx(c)'
  <2>. TAKE c \in Cancelling
  <2>1. CancelTx(c) /\ UNCHANGED <<alive, order, cancelVars>>
    BY <1>2 DEF TxInv
  <2>2. CASE c = r
    BY <1>1, <1>3, <1>5, <1>6, <2>1, <2>2 DEF CancelTx, cancelVars
  <2>3. CASE c # r
    <3>1. Kept(c)
      BY <1>1, <1>4, <2>3
    <3>. QED BY <2>1, <3>1, KeptCancel DEF CancelTx, Cancellable, cancelVars
  <2>. QED BY <2>2, <2>3
<1>9. \A u \in Updating : UpdateTx(u)'
  <2>. TAKE u \in Updating
  <2>1. UpdateTx(u) /\ UNCHANGED <<alive, order>>
    BY <1>2 DEF TxInv
  <2>2. CASE u = r
    BY <1>1, <1>3, <1>5, <1>6, <2>1, <2>2 DEF UpdateTx
  <2>3. CASE u # r
    <3>1. Kept(u)
      BY <1>1, <1>4, <2>3
    <3>. QED BY <2>1, <3>1, KeptUpdate DEF UpdateTx
  <2>. QED BY <2>2, <2>3
<1>. QED BY <1>2, <1>7, <1>8, <1>9 DEF TxInv

\* Every step of create keeps every transaction's invariant.
LEMMA PlaceTx ==
    ASSUME IInv, TxInv, RowsOK', NEW r \in Placing, Place(r)
    PROVE  TxInv'
<1>1. RestOK /\ r \in Req
  BY Facts
<1>2. /\ "done" \in Labels \ LaterLabels /\ "check" \in Labels \ LaterLabels
      /\ "insert" \in Labels \ LaterLabels /\ "failed" \in Labels \ LaterLabels
  BY DEF Labels, FirstLabels, LaterLabels
<1>3. CASE LookUp(r)
  <2>1. PICK l \in {"done", "check"} : Goto(r, l)
    BY <1>3 DEF LookUp
  <2>. QED BY <1>2, <1>3, <2>1, OutsideTx DEF LookUp, Goto, LaterLabels
<1>4. CASE CheckStock(r)
  <2>1. PICK l \in {"insert", "failed"} : Goto(r, l)
    BY <1>4 DEF CheckStock
  <2>. QED BY <1>2, <1>4, <2>1, OutsideTx DEF CheckStock, Goto, LaterLabels
<1>5. CASE Insert(r)
  <2>1. CASE LineRows(r) \subseteq alive
    BY <1>5, <2>1, InsertTx DEF Insert
  <2>2. CASE ~(LineRows(r) \subseteq alive)
    BY <1>1, <1>5, <2>2, RollbackTx DEF Insert
  <2>. QED BY <2>1, <2>2
<1>6. CASE TakePoints(r)
  <2>1. CASE Refuse(r, Cart[r].account, Cart[r].points)
    BY <1>1, <1>6, <2>1, RollbackTx DEF Refuse, TakePoints
  <2>. QED BY <1>6, <2>1, TakePointsTx DEF TakePoints
<1>7. CASE TakeProduct(r)
  <2>1. CASE Refuse(r, LineOf(r, r).product, LineOf(r, r).n)
    BY <1>1, <1>7, <2>1, RollbackTx DEF Refuse, TakeProduct
  <2>. QED BY <1>7, <2>1, TakeProductTx DEF TakeProduct
<1>8. CASE TakeVariant(r)
  <2>1. CASE Refuse(r, LineOf(r, r).variant, LineOf(r, r).n)
    BY <1>1, <1>8, <2>1, RollbackTx DEF Refuse, TakeVariant
  <2>. QED BY <1>8, <2>1, TakeVariantTx DEF TakeVariant
<1>9. CASE CommitOrder(r)
  BY <1>9, CommitOrderTx
<1>10. CASE SaveRecord(r)
  BY <1>2, <1>10, OutsideTx DEF SaveRecord, Goto, LaterLabels
<1>. QED BY <1>3, <1>4, <1>5, <1>6, <1>7, <1>8, <1>9, <1>10 DEF Place

-----------------------------------------------------------------------------
(* Payments, expiries and cancellations *)

\* A record that expires is read by no transaction.
LEMMA ExpireTx ==
    ASSUME IInv, TxInv, NEW k \in Key, Expire(k)
    PROVE  TxInv'
<1>1. UNCHANGED <<rowVars, order, cancelVars, pc, at>>
  BY DEF Expire
<1>2. \A r \in Placing : CreateTx(r)'
  BY <1>1 DEF TxInv, CreateTx, Current, BeingDeleted, rowVars, cancelVars
<1>3. \A c \in Cancelling : CancelTx(c)'
  BY <1>1 DEF TxInv, CancelTx, Current, Cancellable, Returnable, LineOf, VariantAttached,
              rowVars, cancelVars
<1>4. \A u \in Updating : UpdateTx(u)'
  BY <1>1 DEF TxInv, UpdateTx, InTx, rowVars
<1>. QED BY <1>1, <1>2, <1>3, <1>4 DEF TxInv, rowVars

\* A payment takes no row.
LEMMA PayTx ==
    ASSUME IInv, TxInv, RowsOK', NEW o \in Placing, Pay(o)
    PROVE  TxInv'
<1>1. RowsOK /\ RestOK /\ o \in Lockable /\ o \notin Cancelling
  BY Facts, LockFacts, ReqAssumption
<1>2. /\ UNCHANGED <<rowVars, paidSeen, attached, returned, pc, at>>
      /\ order'[o] = "PAID" /\ order[o] # "none" /\ holder[o] = None
      /\ \A x \in Placing \ {o} : order'[x] = order[x]
  BY <1>1 DEF Pay, RestOK
<1>3. \A x \in Req : Kept(x)
  BY <1>2 DEF Kept, rowVars
<1>4. \A r \in Placing : CreateTx(r)'
  BY <1>2 DEF TxInv, CreateTx, Current, BeingDeleted, rowVars
<1>5. \A c \in Cancelling : CancelTx(c)'
  <2>. TAKE c \in Cancelling
  <2>1. CancelTx(c) /\ Kept(c) /\ c # None /\ Target[c] \in Placing
    BY <1>1, <1>3, LockFacts, ReqAssumption DEF TxInv
  <2>2. pc[c] \in LaterLabels => Cancellable(Target[c])'
    BY <1>2, <2>1 DEF CancelTx, Cancellable
  <2>3. paidSeen[c] => order'[Target[c]] \in {"PAID", "CANCELLED"}
    BY <1>2, <2>1 DEF CancelTx
  <2>. QED BY <1>2, <2>1, <2>2, <2>3, KeptCancel DEF rowVars
<1>6. \A u \in Updating : UpdateTx(u)'
  <2>. TAKE u \in Updating
  <2>1. UpdateTx(u) /\ Kept(u)
    BY <1>3, LockFacts, <1>1 DEF TxInv
  <2>. QED BY <1>2, <2>1, KeptUpdate DEF UpdateTx, rowVars
<1>. QED BY <1>2, <1>4, <1>5, <1>6 DEF TxInv, rowVars

\* A step of a cancellation: its own part holds again, it ends no order but its
\* own, while it holds its lock, and leaves the rest alone.
LEMMA CancelMoveTx ==
    ASSUME IInv, TxInv, RowsOK', NEW c \in Cancelling, \A x \in Req \ {c} : Kept(x),
           UNCHANGED alive,
           \A d \in Cancelling \ {c} : attached'[d] = attached[d] /\ paidSeen'[d] = paidSeen[d],
           \A o \in Placing \ {Target[c]} : order'[o] = order[o] /\ returned'[o] = returned[o],
           \/ /\ order'[Target[c]] = order[Target[c]]
              /\ returned'[Target[c]] = returned[Target[c]]
           \/ /\ order'[Target[c]] = "CANCELLED" /\ order[Target[c]] # "none"
              /\ holder[Target[c]] = c,
           CancelTx(c)'
    PROVE  TxInv'
<1>. DEFINE o == Target[c]
<1>1. RowsOK /\ RestOK /\ o \in Placing /\ c \notin Placing
  BY Facts, ReqAssumption
<1>2. /\ \A q \in Placing : CreateTx(q)
      /\ \A d \in Cancelling : CancelTx(d)
      /\ \A u \in Updating : UpdateTx(u)
      /\ \A v \in alive \cap Variant : ProductOf[v] \in alive
  BY DEF TxInv
<1>3. \A u \in Updating : Kept(u)
  BY LockFacts, <1>1, ReqAssumption
<1>4. \A q \in Placing : CreateTx(q)'
  <2>. TAKE q \in Placing
  <2>1. Kept(q) /\ CreateTx(q)
    BY <1>1, <1>2, LockFacts
  <2>2. order'[q] = "none" => order[q] = "none" /\ returned'[q] = returned[q]
    BY <1>1
  <2>3. pc[q] \in LaterLabels => /\ LineRows(q) \subseteq alive'
                                 /\ \A row \in LineRows(q) : ~BeingDeleted(row)'
    BY <1>1, <1>3, <2>1, LineRowsAreRows, NoNewDeletion DEF CreateTx, Row
  <2>. QED BY <2>1, <2>2, <2>3, KeptCreate
<1>5. \A d \in Cancelling : CancelTx(d)'
  <2>. SUFFICES ASSUME NEW d \in Cancelling, d # c PROVE CancelTx(d)'
    OBVIOUS
  <2>1. Kept(d) /\ CancelTx(d) /\ Target[d] \in Placing
    BY <1>1, <1>2, LockFacts, ReqAssumption
  <2>2. pc[d] \in LaterLabels => Cancellable(Target[d])'
    BY <2>1 DEF CancelTx, Cancellable
  <2>3. paidSeen[d] => order'[Target[d]] \in {"PAID", "CANCELLED"}
    BY <2>1 DEF CancelTx
  <2>. QED BY <2>1, <2>2, <2>3, KeptCancel
<1>6. \A u \in Updating : UpdateTx(u)'
  <2>. TAKE u \in Updating
  <2>1. UpdateTx(u) /\ Kept(u)
    BY <1>2, <1>3
  <2>2. \A x \in Placing : order'[x] # "none" => order[x] # "none"
    BY <1>1
  <2>. QED BY <2>1, <2>2, KeptUpdate DEF UpdateTx
<1>. QED BY <1>2, <1>4, <1>5, <1>6 DEF TxInv

\* A cancellation that reads has begun no transaction.
LEMMA CancelReadTx ==
    ASSUME IInv, TxInv, RowsOK', NEW c \in Cancelling, CancelRead(c)
    PROVE  TxInv'
<1>1. RowsOK /\ RestOK /\ c \in Req
  BY Facts
<1>2. /\ pc'[c] = "status" /\ paidSeen'[c] = (order[Target[c]] = "PAID")
      /\ \A x \in Req \ {c} : pc'[x] = pc[x]
      /\ \A x \in Cancelling \ {c} : paidSeen'[x] = paidSeen[x]
      /\ UNCHANGED <<rowVars, order, attached, returned, at>>
  BY <1>1 DEF CancelRead, Goto, RestOK
<1>3. \A x \in Req \ {c} : Kept(x)
  BY <1>2 DEF Kept, rowVars
<1>4. \A row \in Row : holder[row] # c
  BY DEF CancelRead, TxInv, CancelTx, LaterLabels
<1>5. CancelTx(c)'
  BY <1>2, <1>4 DEF CancelTx, LaterLabels, rowVars
<1>. QED BY <1>2, <1>3, <1>5, CancelMoveTx DEF rowVars

\* A cancellation that begins holds the order, and has moved nothing.
LEMMA CancelStatusTx ==
    ASSUME IInv, TxInv, RowsOK', NEW c \in Cancelling, pc[c] = "status",
           CanLock(c, Target[c]), Cancellable(Target[c]),
           holder' = [holder EXCEPT ![Target[c]] = c],
           attached' = [attached EXCEPT ![c] = LineRows(Target[c]) \cap alive],
           at' = [at EXCEPT ![c] = FirstLine],
           Goto(c, IF paidSeen[c] /\ SpendsPoints(Target[c]) THEN "points" ELSE "product"),
           UNCHANGED <<db, dirty, alive, order, paidSeen, returned, revived, keyVars>>
    PROVE  TxInv'
<1>. DEFINE o == Target[c]
<1>1. /\ RowsOK /\ RestOK /\ c \in Req /\ o \in Placing /\ o \in Lockable
      /\ Row \subseteq Lockable /\ o \notin Row
  BY Facts, LockFacts, RowAssumption
<1>2. /\ pc'[c] = IF paidSeen[c] /\ SpendsPoints(o) THEN "points" ELSE "product"
      /\ at'[c] = 1 /\ attached'[c] = LineRows(o) \cap alive
      /\ \A x \in Req \ {c} : pc'[x] = pc[x] /\ at'[x] = at[x]
      /\ \A d \in Cancelling \ {c} : attached'[d] = attached[d]
      /\ holder'[o] = c /\ \A i \in Lockable \ {o} : holder'[i] = holder[i]
  BY <1>1, LockFacts DEF Goto, FirstLine, RestOK
<1>3. \A x \in Req \ {c} : Kept(x)
  BY <1>1, <1>2, LockFacts DEF Kept, CanLock
<1>4. \A row \in Row : holder[row] # c /\ holder'[row] # c
  BY <1>1, <1>2 DEF TxInv, CancelTx, LaterLabels
<1>5. \A row \in Row : row \in Returnable(c)' => Moved(pc'[c], at'[c], o, row) = 0
  <2>. SUFFICES ASSUME NEW row \in Row, row \in Returnable(c)'
                PROVE  Moved(pc'[c], at'[c], o, row) = 0
    OBVIOUS
  <2>1. row \in Product \cup Variant \/ (paidSeen[c] /\ row \in Account)
    BY <1>1, <1>2, LineRowsAreRows DEF Returnable
  <2>. QED BY <1>1, <1>2, <2>1, MovedFirst, PointsDemandFacts
<1>6. \A row \in Row : Current(c, row)' = db'[row] + 0
  BY <1>1, <1>4 DEF Current, RowsOK
<1>7. /\ pc'[c] \in {"points", "product"} /\ pc'[c] \in LaterLabels /\ Cancellable(o)'
      /\ pc'[c] = "points" => paidSeen'[c] /\ SpendsPoints(o)
  BY <1>2 DEF LaterLabels, Cancellable
<1>8. \A v \in attached'[c] \cap Variant : ProductOf[v] \in attached'[c]
  BY <1>1, <1>2, LineRowsAreRows DEF TxInv
<1>9. paidSeen[c] => order[o] \in {"PAID", "CANCELLED"}
  BY DEF TxInv, CancelTx
<1>10. CancelTx(c)'
  <2>1. \A row \in Row : Current(c, row)' = db'[row] +
          (IF row \in Returnable(c)' THEN Moved(pc'[c], at'[c], o, row) ELSE 0)
    BY <1>5, <1>6
  <2>. QED BY <1>2, <1>4, <1>7, <1>8, <1>9, <2>1 DEF CancelTx, SpendsPoints
<1>. QED BY <1>2, <1>3, <1>10, CancelMoveTx

\* What a cancellation has given back grows by what it gives back now.
LEMMA GiveEquation ==
    ASSUME RowsOK, NEW c \in Req, NEW row, NEW n \in Nat, GiveBack(c, row, n),
           NEW i \in Row, NEW m \in Nat, Current(c, i) = db[i] + m
    PROVE  Current(c, i)' = db'[i] + (m + (IF i = row THEN n ELSE 0))
<1>1. db' = db /\ Write(c, row, Current(c, row) + n)
  BY DEF GiveBack
<1>2. db[i] \in Int /\ Row \subseteq Lockable
  BY LockFacts DEF RowsOK
<1>3. CASE i = row
  BY <1>1, <1>2, <1>3, LockFacts DEF Write, Current, RowsOK
<1>4. CASE i # row
  BY <1>1, <1>2, <1>4, LockFacts DEF Write, Current, RowsOK
<1>. QED BY <1>3, <1>4

\* An increment gives back what its line took.
LEMMA GiveTx ==
    ASSUME IInv, TxInv, RowsOK', NEW c \in Cancelling, pc[c] \in LaterLabels,
           NEW row \in Row, NEW n \in Nat, GiveBack(c, row, n), row \in Returnable(c),
           \A x \in Req \ {c} : pc'[x] = pc[x] /\ at'[x] = at[x],
           pc'[c] \in LaterLabels \ {"points"},
           at'[c] \in 1 .. Len(Cart[Target[c]].lines),
           pc'[c] = "variant" => /\ LineOf(c, Target[c])'.product \in attached[c]
                                 /\ LineOf(c, Target[c])'.variant \in attached[c],
           \A i \in Row : i \in Returnable(c) =>
              Moved(pc'[c], at'[c], Target[c], i) =
                Moved(pc[c], at[c], Target[c], i) + (IF i = row THEN n ELSE 0)
    PROVE  TxInv'
<1>. DEFINE o == Target[c]
<1>1. /\ RowsOK /\ RestOK /\ c \in Req /\ o \in Placing /\ o \in Lockable
      /\ Row \subseteq Lockable /\ o \notin Row /\ at[c] \in 1 .. Len(Cart[o].lines)
  BY Facts, LockFacts, RowAssumption, CartFacts DEF RestOK
<1>2. UNCHANGED <<db, alive, order, cancelVars, keyVars>> /\ Write(c, row, Current(c, row) + n)
  BY DEF GiveBack
<1>3. \A x \in Req \ {c} : Kept(x)
  BY <1>1, <1>2, WriteKeeps
<1>4. CancelTx(c)
  BY DEF TxInv
<1>5. holder'[o] = c /\ \A i \in Row : holder'[i] = c => i = row \/ holder[i] = c
  BY <1>1, <1>2, <1>4 DEF Write, CancelTx, RowsOK
<1>6. ASSUME NEW i \in Row
      PROVE  Current(c, i)' = db'[i] +
               (IF i \in Returnable(c) THEN Moved(pc'[c], at'[c], o, i) ELSE 0)
  <2>. DEFINE M == IF i \in Returnable(c) THEN Moved(pc[c], at[c], o, i) ELSE 0
              N == IF i \in Returnable(c) THEN Moved(pc'[c], at'[c], o, i) ELSE 0
  <2>1. M \in Nat
    BY <1>1, MovedNat
  <2>2. Current(c, i) = db[i] + M
    BY <1>4 DEF CancelTx
  <2>3. N = M + (IF i = row THEN n ELSE 0)
    OBVIOUS
  <2>. HIDE DEF M, N
  <2>4. Current(c, i)' = db'[i] + (M + (IF i = row THEN n ELSE 0))
    BY <1>1, <2>1, <2>2, GiveEquation
  <2>5. Current(c, i)' = db'[i] + N
    BY <2>3, <2>4
  <2>. QED BY <2>5 DEF N
<1>7. UNCHANGED <<attached, paidSeen, returned>> /\ Returnable(c)' = Returnable(c)
  BY <1>2 DEF cancelVars, Returnable
<1>8. \A i \in Row : holder'[i] = c => i \in Returnable(c)' /\ i \in alive' \cup Account
  BY <1>2, <1>4, <1>5, <1>7 DEF CancelTx, GiveBack
<1>9. /\ alive' \cap LineRows(o) \subseteq attached'[c]
      /\ \A v \in attached'[c] \cap Variant : ProductOf[v] \in attached'[c]
      /\ Cancellable(o)' /\ (paidSeen'[c] => order'[o] \in {"PAID", "CANCELLED"})
  BY <1>2, <1>4, <1>7 DEF CancelTx, Cancellable
<1>10. pc'[c] = "variant" => VariantAttached(c, LineOf(c, o))'
  BY <1>7 DEF VariantAttached
<1>11. CancelTx(c)'
  BY <1>5, <1>6, <1>7, <1>8, <1>9, <1>10 DEF CancelTx
<1>. QED BY <1>2, <1>3, <1>7, <1>11, CancelMoveTx

\* What the rows attached to the order's lines are, and what may be given back.
LEMMA ReturnableFacts ==
    ASSUME IInv, TxInv, NEW c \in Cancelling, pc[c] \in LaterLabels
    PROVE  /\ attached[c] \subseteq Product \cup Variant
           /\ \A v \in attached[c] \cap Variant : ProductOf[v] \in attached[c]
           /\ \A row \in Returnable(c) :
                row \in attached[c] \/ (paidSeen[c] /\ row \in Account)
<1>1. attached[c] \subseteq Product \cup Variant
  BY Facts DEF RestOK
<1>2. \A v \in attached[c] \cap Variant : ProductOf[v] \in attached[c]
  BY DEF TxInv, CancelTx
<1>. QED BY <1>1, <1>2 DEF Returnable

\* The return of the points keeps every transaction's invariant.
LEMMA CancelPointsTx ==
    ASSUME IInv, TxInv, RowsOK', NEW c \in Cancelling, CancelPoints(c)
    PROVE  TxInv'
<1>. DEFINE o == Target[c]
<1>1. /\ RestOK /\ c \in Req /\ o \in Placing /\ at[c] \in 1 .. Len(Cart[o].lines)
      /\ Cart[o].points \in Nat /\ pc[c] = "points"
      /\ GiveBack(c, Cart[o].account, Cart[o].points)
  BY Facts, CartFacts DEF RestOK, CancelPoints
<1>2. pc'[c] = "product" /\ at' = at /\ \A x \in Req \ {c} : pc'[x] = pc[x]
  BY <1>1 DEF CancelPoints, Goto, RestOK
<1>3. paidSeen[c] /\ Cart[o].account \in Account
  BY <1>1, CartFacts DEF TxInv, CancelTx, LaterLabels, SpendsPoints
<1>4. Cart[o].account \in Row /\ Cart[o].account \in Returnable(c)
  BY <1>3 DEF Returnable, Row
<1>5. \A i \in Row : Moved("product", at[c], o, i) =
        Moved("points", at[c], o, i) + (IF i = Cart[o].account THEN Cart[o].points ELSE 0)
  BY <1>1, PointsMoved DEF PointsDemand
<1>. QED BY <1>1, <1>2, <1>4, <1>5, GiveTx DEF LaterLabels

\* The line the loop of a cancellation is at.
LEMMA CancelLineFacts ==
    ASSUME IInv, TxInv, NEW c \in Cancelling, pc[c] \in LaterLabels
    PROVE  /\ RestOK /\ c \in Req /\ Target[c] \in Placing
           /\ at[c] \in 1 .. Len(Cart[Target[c]].lines)
           /\ LineOf(c, Target[c]) = Cart[Target[c]].lines[at[c]]
           /\ LineOf(c, Target[c]).n \in Nat
           /\ LineOf(c, Target[c]).product \in Product
           /\ LineOf(c, Target[c]).variant \in Variant \cup {None}
           /\ LineOf(c, Target[c]).variant \in attached[c] =>
                LineOf(c, Target[c]).product \in attached[c]
           /\ \A i \in Returnable(c) :
                /\ LineOf(c, Target[c]).product \notin attached[c] =>
                     LineDemand(Target[c], i)[at[c]] = 0
                /\ LineOf(c, Target[c]).variant \notin attached[c] =>
                     LineDemand(Target[c], i)[at[c]] =
                       IF i = LineOf(c, Target[c]).product THEN LineOf(c, Target[c]).n ELSE 0
<1>. DEFINE o == Target[c]
            l == LineOf(c, o)
<1>1. /\ RestOK /\ c \in Req /\ o \in Placing /\ at[c] \in 1 .. Len(Cart[o].lines)
      /\ l = Cart[o].lines[at[c]]
  BY Facts, CartFacts DEF RestOK, LineOf
<1>2. l.n \in Nat /\ l.product \in Product /\ l.variant \in Variant \cup {None}
  BY <1>1, CartFacts
<1>3. l.variant \in attached[c] => l.product \in attached[c]
  <2>. SUFFICES ASSUME l.variant \in attached[c] PROVE l.product \in attached[c]
    OBVIOUS
  <2>1. l.variant \in Variant
    BY <1>2, ReturnableFacts, NoneAssumption DEF Row
  <2>2. ProductOf[l.variant] = l.product
    BY <1>1, <2>1, LineRowFacts, NoneAssumption DEF Row
  <2>. QED BY <2>1, <2>2, ReturnableFacts
<1>4. ASSUME NEW i \in Returnable(c)
      PROVE  /\ l.product \notin attached[c] => LineDemand(o, i)[at[c]] = 0
             /\ l.variant \notin attached[c] =>
                  LineDemand(o, i)[at[c]] = IF i = l.product THEN l.n ELSE 0
  <2>1. i \in attached[c] \/ i \in Account
    BY ReturnableFacts
  <2>2. l.product \notin Account /\ l.variant \notin Account
    BY <1>2, RowAssumption, NoneAssumption DEF Row
  <2>3. LineDemand(o, i)[at[c]] = IF i \in {l.product, l.variant} THEN l.n ELSE 0
    BY <1>1, LineDemandFacts
  <2>. QED BY <1>3, <2>1, <2>2, <2>3
<1>. QED BY <1>1, <1>2, <1>3, <1>4

\* A line without product: nothing to give back.
LEMMA SkipLineTx ==
    ASSUME IInv, TxInv, RowsOK', NEW c \in Cancelling, pc[c] = "product",
           LineOf(c, Target[c]).product \notin attached[c], NextLine(c, Target[c]),
           UNCHANGED <<rowVars, order, cancelVars, keyVars>>
    PROVE  TxInv'
<1>. DEFINE o == Target[c]
<1>1. pc[c] \in LaterLabels
  BY DEF LaterLabels
<1>2. RestOK /\ c \in Req /\ o \in Placing /\ at[c] \in 1 .. Len(Cart[o].lines)
  BY <1>1, CancelLineFacts
<1>3. \A x \in Req \ {c} : pc'[x] = pc[x] /\ at'[x] = at[x]
  BY <1>2, NextLineFacts
<1>4. \A x \in Req \ {c} : Kept(x)
  BY <1>3 DEF Kept, rowVars
<1>5. /\ pc'[c] \in LaterLabels /\ pc'[c] \in {"product", "commit"}
      /\ \A i \in Row : Moved(pc'[c], at'[c], o, i) =
                          Moved("product", at[c], o, i) + LineDemand(o, i)[at[c]]
  BY <1>2, PastLine
<1>6. \A i \in Row : i \in Returnable(c) =>
        Moved(pc'[c], at'[c], o, i) = Moved("product", at[c], o, i)
  <2>. SUFFICES ASSUME NEW i \in Row, i \in Returnable(c)
                PROVE  Moved(pc'[c], at'[c], o, i) = Moved("product", at[c], o, i)
    OBVIOUS
  <2>1. LineDemand(o, i)[at[c]] = 0
    BY <1>1, CancelLineFacts
  <2>2. Moved("product", at[c], o, i) \in Nat
    BY <1>2, MovedNat
  <2>. QED BY <1>5, <2>1, <2>2
<1>7. CancelTx(c)
  BY DEF TxInv
<1>8. CancelTx(c)'
  BY <1>1, <1>5, <1>6, <1>7 DEF CancelTx, Current, Cancellable, Returnable, rowVars, cancelVars
<1>. QED BY <1>2, <1>4, <1>8, CancelMoveTx DEF rowVars, cancelVars

\* The increment of a product keeps every transaction's invariant.
LEMMA CancelProductTx ==
    ASSUME IInv, TxInv, RowsOK', NEW c \in Cancelling, CancelProduct(c)
    PROVE  TxInv'
<1>. DEFINE o == Target[c]
            l == LineOf(c, o)
            k == at[c]
<1>1. pc[c] = "product" /\ pc[c] \in LaterLabels /\ c \in Req /\ pc[c] # "done"
  BY Facts DEF LaterLabels, CancelProduct
<1>2. /\ RestOK /\ o \in Placing /\ k \in 1 .. Len(Cart[o].lines) /\ l = Cart[o].lines[k]
      /\ l.n \in Nat /\ l.product \in Row
  BY <1>1, CancelLineFacts DEF Row
<1>3. CASE l.product \notin attached[c] /\ NextLine(c, o)
           /\ UNCHANGED <<rowVars, order, cancelVars, keyVars>>
  BY <1>1, <1>3, SkipLineTx
<1>4. CASE Gone(c, l.product)
  BY <1>1, <1>4, RollbackTx DEF Gone
<1>5. CASE /\ l.product \in attached[c] /\ GiveBack(c, l.product, l.n)
           /\ VariantAttached(c, l) /\ Goto(c, "variant") /\ UNCHANGED at
  <2>1. pc'[c] = "variant" /\ at' = at /\ \A x \in Req \ {c} : pc'[x] = pc[x]
    BY <1>1, <1>2, <1>5 DEF Goto, RestOK
  <2>2. \A i \in Row : Moved("variant", k, o, i) =
          Moved("product", k, o, i) + (IF i = l.product THEN l.n ELSE 0)
    BY <1>2, MovedProduct
  <2>3. LineOf(c, o)' = l
    BY <2>1 DEF LineOf
  <2>4. l.product \in Returnable(c)
    BY <1>5 DEF Returnable
  <2>5. pc'[c] \in LaterLabels \ {"points"}
    BY <2>1 DEF LaterLabels
  <2>6. LineOf(c, o)'.product \in attached[c] /\ LineOf(c, o)'.variant \in attached[c]
    BY <1>5, <2>3 DEF VariantAttached
  <2>7. \A i \in Row : i \in Returnable(c) => Moved(pc'[c], at'[c], o, i) =
          Moved(pc[c], at[c], o, i) + (IF i = l.product THEN l.n ELSE 0)
    BY <1>1, <2>1, <2>2
  <2>8. GiveBack(c, l.product, l.n) /\ at'[c] \in 1 .. Len(Cart[o].lines)
    BY <1>2, <1>5, <2>1
  <2>. HIDE DEF o, l, k
  <2>. QED BY <1>1, <1>2, <2>1, <2>4, <2>5, <2>6, <2>7, <2>8, GiveTx DEF o
<1>6. CASE /\ l.product \in attached[c] /\ GiveBack(c, l.product, l.n)
           /\ ~VariantAttached(c, l) /\ NextLine(c, o)
  <2>1. \A x \in Req \ {c} : pc'[x] = pc[x] /\ at'[x] = at[x]
    BY <1>1, <1>2, <1>6, NextLineFacts
  <2>2. /\ pc'[c] \in LaterLabels /\ pc'[c] \in {"product", "commit"}
        /\ at'[c] \in 1 .. Len(Cart[o].lines)
        /\ \A i \in Row : Moved(pc'[c], at'[c], o, i) =
                            Moved("product", k, o, i) + LineDemand(o, i)[k]
    BY <1>1, <1>2, <1>6, PastLine
  <2>3. \A i \in Row : i \in Returnable(c) =>
          LineDemand(o, i)[k] = IF i = l.product THEN l.n ELSE 0
    BY <1>1, <1>6, CancelLineFacts DEF VariantAttached
  <2>4. l.product \in Returnable(c)
    BY <1>6 DEF Returnable
  <2>5. pc'[c] \in LaterLabels \ {"points"} /\ pc'[c] # "variant"
    BY <2>2
  <2>6. \A i \in Row : i \in Returnable(c) => Moved(pc'[c], at'[c], o, i) =
          Moved(pc[c], at[c], o, i) + (IF i = l.product THEN l.n ELSE 0)
    BY <1>1, <2>2, <2>3
  <2>7. GiveBack(c, l.product, l.n)
    BY <1>6
  <2>. HIDE DEF l, k
  <2>. QED BY <1>1, <1>2, <2>1, <2>2, <2>4, <2>5, <2>6, <2>7, GiveTx
<1>. QED BY <1>3, <1>4, <1>5, <1>6 DEF CancelProduct

\* The increment of a variant keeps every transaction's invariant.
LEMMA CancelVariantTx ==
    ASSUME IInv, TxInv, RowsOK', NEW c \in Cancelling, CancelVariant(c)
    PROVE  TxInv'
<1>. DEFINE o == Target[c]
            l == LineOf(c, o)
            k == at[c]
<1>1. pc[c] = "variant" /\ pc[c] \in LaterLabels /\ c \in Req /\ pc[c] # "done"
  BY Facts DEF LaterLabels, CancelVariant
<1>2. /\ RestOK /\ o \in Placing /\ k \in 1 .. Len(Cart[o].lines) /\ l = Cart[o].lines[k]
      /\ l.n \in Nat
  BY <1>1, CancelLineFacts
<1>3. CASE Gone(c, l.variant)
  BY <1>1, <1>3, RollbackTx DEF Gone
<1>4. CASE GiveBack(c, l.variant, l.n) /\ NextLine(c, o)
  <2>1. \A x \in Req \ {c} : pc'[x] = pc[x] /\ at'[x] = at[x]
    BY <1>1, <1>2, <1>4, NextLineFacts
  <2>2. /\ pc'[c] \in LaterLabels /\ pc'[c] \in {"product", "commit"}
        /\ at'[c] \in 1 .. Len(Cart[o].lines)
        /\ \A i \in Row : Moved(pc'[c], at'[c], o, i) =
                            Moved("product", k, o, i) + LineDemand(o, i)[k]
    BY <1>1, <1>2, <1>4, PastLine
  <2>3. l.variant \in attached[c] /\ l.variant \in Returnable(c) /\ l.variant \in Row
    BY <1>1, ReturnableFacts DEF TxInv, CancelTx, VariantAttached, Returnable, Row
  <2>4. ASSUME NEW i \in Row
        PROVE  Moved(pc'[c], at'[c], o, i) =
                 Moved("variant", k, o, i) + (IF i = l.variant THEN l.n ELSE 0)
    <3>1. Moved("variant", k, o, i) =
            Moved("product", k, o, i) + (IF i = l.product THEN l.n ELSE 0)
      BY <1>2, MovedProduct
    <3>2. LineDemand(o, i)[k] = (IF i = l.product THEN l.n ELSE 0)
                                + (IF i = l.variant THEN l.n ELSE 0)
      BY <1>2, LineDemandFacts
    <3>3. Moved("product", k, o, i) \in Nat
      BY <1>2, MovedNat
    <3>. QED BY <1>2, <2>2, <3>1, <3>2, <3>3
  <2>5. pc'[c] \in LaterLabels \ {"points"} /\ pc'[c] # "variant"
    BY <2>2
  <2>6. \A i \in Row : i \in Returnable(c) => Moved(pc'[c], at'[c], o, i) =
          Moved(pc[c], at[c], o, i) + (IF i = l.variant THEN l.n ELSE 0)
    BY <1>1, <2>4
  <2>7. GiveBack(c, l.variant, l.n)
    BY <1>4
  <2>. HIDE DEF l, k
  <2>. QED BY <1>1, <1>2, <2>1, <2>2, <2>3, <2>5, <2>6, <2>7, GiveTx
<1>. QED BY <1>3, <1>4 DEF CancelVariant

\* The commit of a cancellation keeps every transaction's invariant.
LEMMA CancelCommitTx ==
    ASSUME IInv, TxInv, RowsOK', NEW c \in Cancelling, CancelCommit(c)
    PROVE  TxInv'
<1>. DEFINE o == Target[c]
<1>1. RowsOK /\ RestOK /\ c \in Req /\ o \in Placing /\ Row \subseteq Lockable
  BY Facts, LockFacts
<1>2. /\ pc[c] = "commit" /\ Commit(c) /\ pc'[c] = "done"
      /\ \A x \in Req \ {c} : pc'[x] = pc[x]
      /\ order'[o] = "CANCELLED"
      /\ \A x \in Placing \ {o} : order'[x] = order[x] /\ returned'[x] = returned[x]
      /\ UNCHANGED <<alive, paidSeen, attached, at>>
  BY <1>1 DEF CancelCommit, Goto, RestOK
<1>3. \A x \in Req \ {c} : Kept(x)
  BY <1>1, <1>2, CommitKeeps
<1>4. holder[o] = c /\ order[o] # "none"
  BY <1>2 DEF TxInv, CancelTx, LaterLabels, Cancellable
<1>5. \A row \in Row : holder'[row] # c
  BY <1>1, <1>2, ReleaseFrees DEF Commit
<1>6. CancelTx(c)'
  BY <1>2, <1>5 DEF CancelTx, LaterLabels
<1>. QED BY <1>2, <1>3, <1>4, <1>6, CancelMoveTx

\* Every step of a cancellation keeps every transaction's invariant.
LEMMA CancelStepTx ==
    ASSUME IInv, TxInv, RowsOK', NEW c \in Cancelling, Cancel(c)
    PROVE  TxInv'
<1>1. CASE CancelStatus(c)
  <2>1. CASE Rollback(c)
    BY <1>1, <2>1, Facts, RollbackTx DEF CancelStatus
  <2>. QED BY <1>1, <2>1, CancelStatusTx DEF CancelStatus
<1>. QED BY <1>1, CancelReadTx, CancelPointsTx, CancelProductTx, CancelVariantTx,
            CancelCommitTx DEF Cancel

-----------------------------------------------------------------------------
(* Steps of the seller *)

\* A step of the seller that changes what exists or what is being deleted: every
\* call of create keeps its rows, every cancellation those it holds, and an edit
\* its product; the rows an edit inserts were in no order.
LEMMA SellerMoveTx ==
    ASSUME IInv, TxInv, RowsOK', NEW s \in Updating \cup Removing,
           \A x \in Req \ {s} : Kept(x),
           UNCHANGED <<order, cancelVars>>,
           \A r \in Placing : pc[r] \in LaterLabels =>
              /\ LineRows(r) \subseteq alive'
              /\ \A row \in LineRows(r) : ~BeingDeleted(row)',
           \A c \in Cancelling : pc[c] \in LaterLabels =>
              /\ \A row \in Row : holder[row] = c /\ row \in alive => row \in alive'
              /\ alive' \cap LineRows(Target[c]) \subseteq alive,
           \A u \in Updating \ {s} :
              /\ pc[u] = "commit" => Edit[u].product \in alive'
              /\ pc[u] # "done" => Edit[u].variants \cap alive' = {},
           s \in Updating => UpdateTx(s)',
           \A v \in alive' \cap Variant : ProductOf[v] \in alive'
    PROVE  TxInv'
<1>1. RowsOK /\ RestOK /\ s \notin Placing /\ s \notin Cancelling
  BY Facts, ReqAssumption
<1>2. \A r \in Placing : CreateTx(r)'
  <2>. TAKE r \in Placing
  <2>1. Kept(r) /\ CreateTx(r)
    BY <1>1, LockFacts DEF TxInv
  <2>. QED BY <2>1, KeptCreate DEF cancelVars
<1>3. \A c \in Cancelling : CancelTx(c)'
  <2>. TAKE c \in Cancelling
  <2>1. Kept(c) /\ CancelTx(c)
    BY <1>1, LockFacts DEF TxInv
  <2>2. pc[c] \in LaterLabels => Cancellable(Target[c])'
    BY <2>1 DEF CancelTx, Cancellable
  <2>3. paidSeen[c] => order'[Target[c]] \in {"PAID", "CANCELLED"}
    BY <2>1 DEF CancelTx
  <2>. QED BY <2>1, <2>2, <2>3, KeptCancel DEF cancelVars
<1>4. \A u \in Updating : UpdateTx(u)'
  <2>. SUFFICES ASSUME NEW u \in Updating, u # s PROVE UpdateTx(u)'
    OBVIOUS
  <2>1. Kept(u) /\ UpdateTx(u)
    BY <1>1, LockFacts DEF TxInv
  <2>2. pc[u] # "done" => \A o \in Placing :
          order'[o] # "none" => Edit[u].variants \cap LineRows(o) = {}
    BY <2>1 DEF UpdateTx
  <2>. QED BY <2>1, <2>2, KeptUpdate
<1>. QED BY <1>2, <1>3, <1>4 DEF TxInv

\* A step of the seller that leaves what exists, and deletes no row of a line.
LEMMA SellerAliveTx ==
    ASSUME IInv, TxInv, RowsOK', NEW s \in Updating,
           \A x \in Req \ {s} : Kept(x),
           UNCHANGED <<alive, order, cancelVars>>,
           \A row \in Row : BeingDeleted(row)' => BeingDeleted(row) \/ ~KeyShared(row),
           UpdateTx(s)'
    PROVE  TxInv'
<1>1. \A r \in Placing : CreateTx(r) /\ \A row \in LineRows(r) : row \in Row
  BY LineRowsAreRows DEF TxInv, Row
<1>2. ASSUME NEW r \in Placing, pc[r] \in LaterLabels
      PROVE  /\ LineRows(r) \subseteq alive'
             /\ \A row \in LineRows(r) : ~BeingDeleted(row)'
  BY <1>1, <1>2 DEF CreateTx, KeyShared
<1>3. \A u \in Updating \ {s} :
        /\ pc[u] = "commit" => Edit[u].product \in alive'
        /\ pc[u] # "done" => Edit[u].variants \cap alive' = {}
  BY DEF TxInv, UpdateTx
<1>4. \A v \in alive' \cap Variant : ProductOf[v] \in alive'
  BY DEF TxInv
<1>. QED BY <1>2, <1>3, <1>4, SellerMoveTx

\* The start of an edit keeps every transaction's invariant.
LEMMA UpdateStartTx ==
    ASSUME IInv, TxInv, RowsOK', NEW u \in Updating, UpdateStart(u)
    PROVE  TxInv'
<1>1. RestOK /\ u \in Req
  BY SellerFacts
<1>2. /\ UNCHANGED <<rowVars, order, cancelVars, keyVars, at>> /\ pc[u] = "idle"
      /\ pc'[u] \in {"variants", "product"} /\ \A x \in Req \ {u} : pc'[x] = pc[x]
  BY <1>1 DEF UpdateStart, Goto, RestOK
<1>3. \A x \in Req \ {u} : Kept(x)
  BY <1>2 DEF Kept, rowVars
<1>4. UpdateTx(u)'
  BY <1>2 DEF TxInv, UpdateTx, InTx, FirstLabels, LaterLabels, rowVars
<1>5. \A row \in Row : BeingDeleted(row)' => BeingDeleted(row)
  BY <1>2 DEF BeingDeleted, rowVars
<1>. QED BY <1>2, <1>3, <1>4, <1>5, SellerAliveTx DEF rowVars

\* Variants that are being deleted are in no cart under way.
LEMMA DeleteVariantsTx ==
    ASSUME IInv, TxInv, RowsOK', NEW u \in Updating, DeleteVariants(u)
    PROVE  TxInv'
<1>1. RowsOK /\ RestOK /\ u \in Req /\ pc[u] = "variants" /\ Row \subseteq Lockable
  BY SellerFacts, LockFacts DEF DeleteVariants
<1>2. CASE Goto(u, "product") /\ UNCHANGED <<rowVars, order, cancelVars, keyVars, at>>
  <2>1. pc'[u] = "product" /\ \A x \in Req \ {u} : pc'[x] = pc[x]
    BY <1>1, <1>2 DEF Goto, RestOK
  <2>2. \A x \in Req \ {u} : Kept(x)
    BY <1>2, <2>1 DEF Kept, rowVars
  <2>3. UpdateTx(u)'
    BY <1>1, <1>2, <2>1 DEF TxInv, UpdateTx, InTx, FirstLabels, LaterLabels, rowVars
  <2>4. \A row \in Row : BeingDeleted(row)' => BeingDeleted(row)
    BY <1>2 DEF BeingDeleted, rowVars
  <2>. QED BY <1>2, <2>2, <2>3, <2>4, SellerAliveTx DEF rowVars
<1>3. ASSUME NEW v \in VariantsOf(Edit[u].product), ~KeyShared(v), Write(u, v, db[v]),
             UNCHANGED <<db, alive, order, cancelVars, keyVars, pc, at>>
      PROVE  TxInv'
  <2>1. v \in Variant /\ v \in Row /\ ProductOf[v] = Edit[u].product
    BY DEF VariantsOf, Row
  <2>2. \A x \in Req \ {u} : Kept(x)
    BY <1>1, <1>3, WriteKeeps
  <2>3. /\ holder'[v] = u /\ dirty'[v] = db[v]
        /\ \A row \in Row \ {v} : holder'[row] = holder[row] /\ dirty'[row] = dirty[row]
    BY <1>1, <1>3, <2>1, LockFacts DEF Write, RowsOK
  <2>4. UpdateTx(u)
    BY DEF TxInv
  <2>5. InTx(u) /\ (InTx(u)' <=> InTx(u)) /\ pc'[u] # "commit"
    BY <1>1, <1>3 DEF InTx, FirstLabels
  <2>6. UpdateTx(u)'
    BY <1>1, <1>3, <2>1, <2>3, <2>4, <2>5 DEF UpdateTx
  <2>7. \A row \in Row : BeingDeleted(row)' => BeingDeleted(row) \/ ~KeyShared(row)
    BY <1>3, <2>3 DEF BeingDeleted
  <2>. QED BY <1>3, <2>2, <2>6, <2>7, SellerAliveTx
<1>. QED BY <1>2, <1>3 DEF DeleteVariants

\* The write of the product keeps every transaction's invariant.
LEMMA UpdateProductTx ==
    ASSUME IInv, TxInv, RowsOK', NEW u \in Updating, UpdateProduct(u)
    PROVE  TxInv'
<1>. DEFINE e == Edit[u]
            v == IF e.stock = None THEN Current(u, e.product) ELSE e.stock
<1>1. /\ RowsOK /\ RestOK /\ u \in Req /\ pc[u] = "product" /\ Row \subseteq Lockable
      /\ e.product \in Product /\ e.product \in Row /\ e.product \notin Variant
  BY SellerFacts, LockFacts, EditFacts, RowAssumption DEF UpdateProduct, Row
<1>2. CASE Rollback(u)
  BY <1>1, <1>2, RollbackTx
<1>3. CASE /\ e.product \in alive /\ Write(u, e.product, v) /\ Goto(u, "commit")
           /\ UNCHANGED <<db, alive, order, cancelVars, keyVars, at>>
  <2>1. pc'[u] = "commit" /\ \A x \in Req \ {u} : pc'[x] = pc[x]
    BY <1>1, <1>3 DEF Goto, RestOK
  <2>2. \A x \in Req \ {u} : Kept(x)
    <3>. HIDE DEF v
    <3>. QED BY <1>1, <1>3, <2>1, WriteKeeps
  <2>3. UpdateTx(u)
    BY DEF TxInv
  <2>4. e.stock = None => v = db[e.product]
    BY <1>1, <2>3 DEF UpdateTx, Current
  <2>5. /\ holder'[e.product] = u /\ dirty'[e.product] = v
        /\ \A row \in Row \ {e.product} : holder'[row] = holder[row] /\ dirty'[row] = dirty[row]
    <3>. HIDE DEF v
    <3>. QED BY <1>1, <1>3, LockFacts DEF Write, RowsOK
  <2>. HIDE DEF v
  <2>6. InTx(u)'
    BY <2>1 DEF InTx, LaterLabels
  <2>7. UpdateTx(u)'
    BY <1>1, <1>3, <2>1, <2>3, <2>4, <2>5, <2>6 DEF UpdateTx
  <2>8. \A row \in Row : BeingDeleted(row)' => BeingDeleted(row)
    BY <1>1, <2>5 DEF BeingDeleted
  <2>. QED BY <1>3, <2>2, <2>7, <2>8, SellerAliveTx
<1>. QED BY <1>2, <1>3 DEF UpdateProduct

\* The commit of an edit keeps every transaction's invariant.
LEMMA UpdateCommitTx ==
    ASSUME IInv, TxInv, RowsOK', NEW u \in Updating, UpdateCommit(u)
    PROVE  TxInv'
<1>. DEFINE e == Edit[u]
<1>1. /\ RowsOK /\ RestOK /\ u \in Req /\ pc[u] = "commit" /\ Row \subseteq Lockable
      /\ u \notin Placing /\ u \notin Cancelling
      /\ e.product \in Product /\ e.variants \subseteq Variant
      /\ Product \cap Variant = {}
  BY SellerFacts, LockFacts, EditFacts, RowAssumption DEF UpdateCommit
<1>2. /\ Commit(u) /\ pc'[u] = "done" /\ \A x \in Req \ {u} : pc'[x] = pc[x]
      /\ UNCHANGED <<order, cancelVars, keyVars, at>>
      /\ alive \cap Product \subseteq alive'
      /\ \A row \in alive : holder[row] # u => row \in alive'
      /\ alive' \subseteq alive \cup e.variants
  BY <1>1 DEF UpdateCommit, Goto, RestOK
<1>3. \A x \in Req \ {u} : Kept(x)
  BY <1>1, <1>2, CommitKeeps
<1>4. \A row \in Row : holder'[row] = IF holder[row] = u THEN None ELSE holder[row]
  BY <1>1, <1>2 DEF Commit, Release
<1>5. UpdateTx(u) /\ e.product \in alive /\ e.variants \cap alive = {}
      /\ \A o \in Placing : order[o] # "none" => e.variants \cap LineRows(o) = {}
  BY <1>1 DEF TxInv, UpdateTx
<1>6. UpdateTx(u)'
  BY <1>1, <1>2, <1>4, LockFacts DEF UpdateTx
<1>7. ASSUME NEW r \in Placing, pc[r] \in LaterLabels
      PROVE  /\ LineRows(r) \subseteq alive'
             /\ \A row \in LineRows(r) : ~BeingDeleted(row)'
  <2>1. LineRows(r) \subseteq alive /\ \A row \in LineRows(r) : ~BeingDeleted(row)
    BY <1>7 DEF TxInv, CreateTx
  <2>2. ASSUME NEW row \in LineRows(r) PROVE row \in alive' /\ ~BeingDeleted(row)'
    <3>1. row \in Product \cup Variant /\ row \in Row
      BY LineRowsAreRows DEF Row
    <3>2. row \in Variant => holder[row] # u
      BY <2>1 DEF BeingDeleted
    <3>3. ~BeingDeleted(row)'
      BY <1>4, <2>1, <3>1, LockFacts, <1>1 DEF BeingDeleted
    <3>. QED BY <1>2, <2>1, <3>1, <3>2, <3>3
  <2>. QED BY <2>2
<1>8. ASSUME NEW c \in Cancelling, pc[c] \in LaterLabels
      PROVE  /\ \A row \in Row : holder[row] = c /\ row \in alive => row \in alive'
             /\ alive' \cap LineRows(Target[c]) \subseteq alive
  <2>1. order[Target[c]] # "none" /\ Target[c] \in Placing
    BY <1>8, ReqAssumption DEF TxInv, CancelTx, Cancellable
  <2>. QED BY <1>1, <1>2, <1>5, <2>1
<1>9. ASSUME NEW w \in Updating \ {u}
      PROVE  /\ pc[w] = "commit" => Edit[w].product \in alive'
             /\ pc[w] # "done" => Edit[w].variants \cap alive' = {}
  <2>1. Edit[w].product \in Product /\ Edit[w].variants \cap e.variants = {}
    BY EditFacts, VariantAssumption
  <2>2. UpdateTx(w)
    BY DEF TxInv
  <2>. QED BY <1>2, <2>1, <2>2 DEF UpdateTx
<1>10. ASSUME NEW v \in alive' \cap Variant PROVE ProductOf[v] \in alive'
  <2>1. CASE v \in alive
    <3>1. ProductOf[v] \in alive /\ ProductOf[v] \in Product
      BY <2>1, RowAssumption DEF TxInv
    <3>. QED BY <1>2, <3>1
  <2>2. CASE v \in e.variants
    BY <1>1, <1>2, <1>5, <2>2, VariantAssumption
  <2>. QED BY <1>2, <2>1, <2>2
<1>. QED BY <1>2, <1>3, <1>6, <1>7, <1>8, <1>9, <1>10, SellerMoveTx

\* A product that goes is in no transaction that holds it.
LEMMA RemoveTx ==
    ASSUME IInv, TxInv, RowsOK', NEW q \in Removing, Remove(q)
    PROVE  TxInv'
<1>. DEFINE p == Removed[q]
            gone == {p} \cup VariantsOf(p)
<1>1. /\ RowsOK /\ RestOK /\ q \in Req /\ q \notin Updating /\ Row \subseteq Lockable
      /\ p \in Product /\ Product \cap Variant = {} /\ None \notin Req
  BY SellerFacts, LockFacts, ReqAssumption, RowAssumption
<1>2. /\ pc'[q] = "done" /\ \A x \in Req \ {q} : pc'[x] = pc[x]
      /\ UNCHANGED <<db, dirty, holder, order, cancelVars, keyVars, at>>
      /\ \A row \in gone : holder[row] = None /\ ~KeyShared(row)
      /\ alive' = alive \ gone
  BY <1>1 DEF Remove, Goto, RestOK
<1>3. \A x \in Req \ {q} : Kept(x)
  BY <1>2 DEF Kept
<1>4. ASSUME NEW r \in Placing, pc[r] \in LaterLabels
      PROVE  /\ LineRows(r) \subseteq alive'
             /\ \A row \in LineRows(r) : ~BeingDeleted(row)'
  <2>1. LineRows(r) \subseteq alive /\ \A row \in LineRows(r) : ~BeingDeleted(row)
    BY <1>4 DEF TxInv, CreateTx
  <2>2. \A row \in LineRows(r) : KeyShared(row)
    BY <1>4 DEF KeyShared
  <2>. QED BY <1>2, <2>1, <2>2 DEF BeingDeleted
<1>5. ASSUME NEW c \in Cancelling
      PROVE  /\ \A row \in Row : holder[row] = c /\ row \in alive => row \in alive'
             /\ alive' \cap LineRows(Target[c]) \subseteq alive
  BY <1>1, <1>2, LockFacts
<1>6. ASSUME NEW w \in Updating
      PROVE  /\ pc[w] = "commit" => Edit[w].product \in alive'
             /\ pc[w] # "done" => Edit[w].variants \cap alive' = {}
  <2>1. UpdateTx(w) /\ w # None
    BY <1>1, LockFacts DEF TxInv
  <2>. QED BY <1>2, <2>1 DEF UpdateTx
<1>7. ASSUME NEW v \in alive' \cap Variant PROVE ProductOf[v] \in alive'
  <2>1. ProductOf[v] \in alive /\ ProductOf[v] \in Product
    BY <1>2, RowAssumption DEF TxInv
  <2>2. v \notin VariantsOf(p) /\ v \in alive
    BY <1>2
  <2>3. ProductOf[v] # p
    BY <2>2 DEF VariantsOf
  <2>. QED BY <1>1, <1>2, <2>1, <2>3 DEF VariantsOf
<1>. QED BY <1>1, <1>2, <1>3, <1>4, <1>5, <1>6, <1>7, SellerMoveTx

\* Every step of an edit keeps every transaction's invariant.
LEMMA UpdateTxStep ==
    ASSUME IInv, TxInv, RowsOK', NEW u \in Updating, Update(u)
    PROVE  TxInv'
  BY UpdateStartTx, DeleteVariantsTx, UpdateProductTx, UpdateCommitTx DEF Update

-----------------------------------------------------------------------------
(* The invariant of transactions *)

\* The initial states have no transaction.
LEMMA InitTx == Init => TxInv
<1>. SUFFICES ASSUME Init PROVE TxInv
  OBVIOUS
<1>1. /\ \A r \in Req : pc[r] = "idle" /\ "idle" \notin LaterLabels
      /\ \A i \in Lockable : holder[i] = None
      /\ \A o \in Placing : order[o] = "none" /\ returned[o] = [row \in Row |-> 0]
      /\ \A c \in Cancelling : ~paidSeen[c]
      /\ alive = Product \cup (Variant \ UNION {Edit[u].variants : u \in Updating})
  BY DEF Init, LaterLabels
<1>2. /\ Row \subseteq Lockable /\ None \notin Req
      /\ Placing \subseteq Req /\ Cancelling \subseteq Req /\ Updating \subseteq Req
  BY NoneAssumption DEF Lockable, Req
<1>3. \A r \in Placing : CreateTx(r)
  BY <1>1, <1>2 DEF CreateTx
<1>4. \A c \in Cancelling : CancelTx(c)
  BY <1>1, <1>2 DEF CancelTx
<1>5. ASSUME NEW u \in Updating PROVE UpdateTx(u)
  <2>1. Edit[u].variants \cap alive = {}
    BY <1>1, EditFacts, RowAssumption
  <2>. QED BY <1>1, <1>2, <2>1 DEF UpdateTx
<1>6. \A v \in alive \cap Variant : ProductOf[v] \in alive
  BY <1>1, RowAssumption
<1>. QED BY <1>3, <1>4, <1>5, <1>6 DEF TxInv

\* Every step keeps every transaction's invariant.
LEMMA StepTx == IInv /\ TxInv /\ [Next]_vars => TxInv'
<1>. SUFFICES ASSUME IInv, TxInv, [Next]_vars PROVE TxInv'
  OBVIOUS
<1>1. RowsOK'
  <2>1. IInv'
    BY StepInv
  <2>2. TypeOK' /\ NeverNegative'
    BY <2>1 DEF IInv
  <2>. QED BY <2>2 DEF TypeOK, NeverNegative, RowsOK
<1>2. ASSUME NEW r \in Req, Abandon(r) PROVE TxInv'
  BY <1>1, <1>2, RollbackTx DEF Abandon, InTx, FirstLabels, LaterLabels
<1>3. CASE Next
  BY <1>1, <1>2, <1>3, PlaceTx, PayTx, CancelStepTx, UpdateTxStep, RemoveTx, ExpireTx DEF Next
<1>4. CASE UNCHANGED vars
  <2>1. UNCHANGED <<rowVars, order, cancelVars, pc, at>>
    BY <1>4 DEF vars
  <2>2. \A r \in Placing : CreateTx(r)'
    BY <2>1 DEF TxInv, CreateTx, Current, BeingDeleted, rowVars, cancelVars
  <2>3. \A c \in Cancelling : CancelTx(c)'
    BY <2>1 DEF TxInv, CancelTx, Current, Cancellable, Returnable, LineOf, VariantAttached,
                rowVars, cancelVars
  <2>4. \A u \in Updating : UpdateTx(u)'
    BY <2>1 DEF TxInv, UpdateTx, InTx, rowVars
  <2>. QED BY <2>1, <2>2, <2>3, <2>4 DEF TxInv, rowVars
<1>. QED BY <1>3, <1>4

\* Whatever transactions are open, each has moved exactly what its label and line
\* say, of rows that stay as it found them until it ends.
THEOREM Transactions == Spec => []TxInv
<1>1. Init => IInv /\ TxInv
  BY InitInv, InitTx
<1>2. IInv /\ TxInv /\ [Next]_vars => (IInv /\ TxInv)'
  BY StepInv, StepTx
<1>. QED BY <1>1, <1>2, PTL DEF Spec

-----------------------------------------------------------------------------
(* What orders took and cancellations gave back *)

\* What an order asks of a row is a natural number.
LEMMA DemandNat ==
    ASSUME NEW o \in Placing, NEW row
    PROVE  Demand(o, row) \in Nat
<1>1. Len(Cart[o].lines) \in 1 .. Len(Cart[o].lines)
  BY CartFacts
<1>. QED BY <1>1, MovedNat, MovedAll

\* At the commit of an order the whole of it has been taken.
LEMMA CommitTakes ==
    ASSUME IInv, TxInv, NEW r \in Placing, CommitOrder(r), NEW row \in Row
    PROVE  /\ db'[row] = db[row] - Demand(r, row)
           /\ Demand(r, row) <= db[row]
<1>1. RowsOK /\ at[r] \in 1 .. Len(Cart[r].lines) /\ pc[r] = "commit"
  BY Facts, CartFacts DEF RestOK, CommitOrder
<1>2. Current(r, row) = db[row] - Demand(r, row)
  BY <1>1, MovedAll DEF TxInv, CreateTx, LaterLabels
<1>3. db'[row] = Current(r, row)
  BY DEF CommitOrder, Commit
<1>4. Current(r, row) \in Nat /\ db[row] \in Nat /\ Demand(r, row) \in Nat
  BY <1>1, CurrentType, DemandNat DEF RowsOK
<1>. QED BY <1>2, <1>3, <1>4

\* At the commit of a cancellation what it may give back has been given back, of
\* the rows it holds.
LEMMA CommitReturns ==
    ASSUME IInv, TxInv, NEW c \in Cancelling, CancelCommit(c), NEW row \in Row
    PROVE  /\ db'[row] = db[row] +
                (IF row \in Returnable(c) THEN Demand(Target[c], row) ELSE 0)
           /\ holder[row] = c => row \in Returnable(c) /\ row \in alive \cup Account
           /\ holder[row] # c => db'[row] = db[row]
<1>. DEFINE o == Target[c]
<1>1. RowsOK /\ o \in Placing /\ at[c] \in 1 .. Len(Cart[o].lines) /\ pc[c] = "commit"
  BY Facts, CartFacts DEF RestOK, CancelCommit
<1>2. Moved("commit", at[c], o, row) = Demand(o, row)
  BY <1>1, MovedAll
<1>3. CancelTx(c) /\ pc[c] \in LaterLabels
  BY <1>1 DEF TxInv, LaterLabels
<1>4. db'[row] = Current(c, row)
  BY DEF CancelCommit, Commit
<1>. QED BY <1>1, <1>2, <1>3, <1>4 DEF CancelTx, Current

\* At the commit of an edit nothing but the stock of its product has changed.
LEMMA CommitEdits ==
    ASSUME IInv, TxInv, NEW u \in Updating, UpdateCommit(u), NEW row \in Row
    PROVE  /\ row # Edit[u].product => db'[row] = db[row]
           /\ Edit[u].stock = None => db'[row] = db[row]
           /\ row \in Variant /\ holder[row] = u => ProductOf[row] = Edit[u].product
<1>1. UpdateTx(u) /\ pc[u] = "commit" /\ db'[row] = Current(u, row)
  BY DEF TxInv, UpdateCommit, Commit
<1>2. Edit[u].product \notin Variant
  BY EditFacts, RowAssumption
<1>. QED BY <1>1, <1>2 DEF UpdateTx, Current

\* What an order has taken of a row less what its cancellations gave back.
Share(o, row) ==
    IF order[o] # "none" THEN Demand(o, row) * (1 - returned[o][row]) ELSE 0

\* A share is an integer.
LEMMA ShareInt ==
    ASSUME RestOK, NEW o \in Placing, NEW row \in Row
    PROVE  Share(o, row) \in Int
<1>1. returned[o][row] \in Nat /\ Demand(o, row) \in Nat
  BY DemandNat DEF RestOK
<1>2. \A d, k \in Nat : d * (1 - k) \in Int
  OBVIOUS
<1>. QED BY <1>1, <1>2 DEF Share

\* When one order changes, what all have taken changes by what its share does.
LEMMA TakenShifts ==
    ASSUME RestOK, RestOK', NEW row \in Row, NEW e \in Placing,
           \A x \in Placing \ {e} : Share(x, row)' = Share(x, row)
    PROVE  /\ TakenBy(row) \in Int
           /\ TakenBy(row)' = TakenBy(row) + Share(e, row)' - Share(e, row)
<1>. DEFINE f == [o \in Placing |-> Share(o, row)]
            g == [o \in Placing |-> Share(o, row)']
<1>0. \A o \in Placing : Share(o, row) \in Int /\ Share(o, row)' \in Int
  BY ShareInt, DemandNat DEF RestOK, Share
<1>1. f \in [Placing -> Int] /\ g \in [Placing -> Int]
  BY <1>0
<1>2. \A x \in Placing \ {e} : f[x] = g[x]
  OBVIOUS
<1>3. f[e] = Share(e, row) /\ g[e] = Share(e, row)'
  OBVIOUS
<1>4. TakenBy(row) = SumFunctionOnSet(f, Placing) /\ TakenBy(row)' = SumFunctionOnSet(g, Placing)
  BY DEF TakenBy, Share, SumFunction
<1>. HIDE DEF f, g
<1>5. SumFunctionOnSet(f, Placing) \in Int
  BY <1>1, FiniteAssumption, SumInt
<1>6. SumFunctionOnSet(g, Placing) = SumFunctionOnSet(f, Placing) + (g[e] - f[e])
  BY <1>1, <1>2, FiniteAssumption, SumShift
<1>7. f[e] \in Int /\ g[e] \in Int
  BY <1>1
<1>. QED BY <1>3, <1>4, <1>5, <1>6, <1>7

\* When no share changes, neither does what all have taken.
LEMMA TakenSame ==
    ASSUME NEW row \in Row, \A x \in Placing : Share(x, row)' = Share(x, row)
    PROVE  TakenBy(row)' = TakenBy(row)
<1>1. [o \in Placing |-> Share(o, row)]' = [o \in Placing |-> Share(o, row)]
  OBVIOUS
<1>2. TakenBy(row) = SumFunction([o \in Placing |-> Share(o, row)])
  BY DEF TakenBy, Share
<1>3. TakenBy(row)' = SumFunction([o \in Placing |-> Share(o, row)]')
  BY DEF TakenBy, Share
<1>. QED BY <1>1, <1>2, <1>3

\* The commit of an order takes from each row what the order asks.
LEMMA CommitOrderMatches ==
    ASSUME IInv, IInv', TxInv, StockMatchesOrders, NEW r \in Placing, CommitOrder(r),
           NEW row \in Row
    PROVE  db'[row] + TakenBy(row)' = Opening[row]
<1>1. RowsOK /\ RestOK /\ RestOK'
  BY Facts, TypeSplit DEF IInv, TypeOK, RestOK, Labels
<1>2. order[r] = "none" /\ returned[r][row] = 0
  BY DEF CommitOrder, IInv, PlaceInv, TxInv, CreateTx
<1>3. returned' = returned /\ order'[r] = "PENDING"
      /\ \A x \in Placing \ {r} : order'[x] = order[x]
  BY <1>1 DEF CommitOrder, cancelVars, RestOK
<1>4. Demand(r, row) \in Nat
  BY DemandNat
<1>5. Share(r, row) = 0 /\ Share(r, row)' = Demand(r, row)
  BY <1>2, <1>3, <1>4 DEF Share
<1>6. \A x \in Placing \ {r} : Share(x, row)' = Share(x, row)
  BY <1>3 DEF Share
<1>7. TakenBy(row) \in Int /\ TakenBy(row)' = TakenBy(row) + Demand(r, row) - 0
  BY <1>1, <1>5, <1>6, TakenShifts
<1>8. db'[row] = db[row] - Demand(r, row) /\ db[row] \in Int
  BY <1>1, CommitTakes DEF RowsOK
<1>9. db[row] + TakenBy(row) = Opening[row]
  BY DEF StockMatchesOrders
<1>. QED BY <1>4, <1>7, <1>8, <1>9

\* The commit of a cancellation gives each row it holds back what the order asked.
LEMMA CancelCommitMatches ==
    ASSUME IInv, IInv', TxInv, StockMatchesOrders, NEW c \in Cancelling, CancelCommit(c),
           NEW row \in Row
    PROVE  db'[row] + TakenBy(row)' = Opening[row]
<1>. DEFINE o == Target[c]
            back == IF holder[row] = c THEN 1 ELSE 0
<1>1. RowsOK /\ RestOK /\ RestOK' /\ o \in Placing
  BY Facts, TypeSplit DEF IInv, TypeOK, RestOK, Labels
<1>2. order[o] # "none" /\ order'[o] # "none"
  <2>1. Cancellable(o)
    BY DEF CancelCommit, TxInv, CancelTx, LaterLabels
  <2>. QED BY <1>1, <2>1 DEF CancelCommit, Cancellable, RestOK
<1>3. /\ returned'[o][row] = returned[o][row] + back
      /\ \A x \in Placing \ {o} : order'[x] = order[x] /\ returned'[x] = returned[x]
  BY <1>1 DEF CancelCommit, RestOK
<1>4. Demand(o, row) \in Nat /\ returned[o][row] \in Nat
  BY <1>1, DemandNat DEF RestOK
<1>5. \A d, k \in Nat : d * (1 - (k + 1)) = d * (1 - k) - d
  OBVIOUS
<1>6. Share(o, row)' = Share(o, row) - (IF holder[row] = c THEN Demand(o, row) ELSE 0)
  BY <1>1, <1>2, <1>3, <1>4, <1>5, ShareInt DEF Share
<1>7. \A x \in Placing \ {o} : Share(x, row)' = Share(x, row)
  BY <1>3 DEF Share
<1>8. TakenBy(row) \in Int /\ TakenBy(row)' = TakenBy(row) + Share(o, row)' - Share(o, row)
  BY <1>1, <1>7, TakenShifts
<1>9. /\ db'[row] = db[row] + (IF holder[row] = c THEN Demand(o, row) ELSE 0)
      /\ db[row] \in Int /\ Share(o, row) \in Int
  BY <1>1, CommitReturns, DemandNat, ShareInt DEF RowsOK
<1>10. db[row] + TakenBy(row) = Opening[row]
  BY DEF StockMatchesOrders
<1>. HIDE DEF o
<1>. QED BY <1>4, <1>6, <1>8, <1>9, <1>10

\* Which steps change what is committed, what exists, or which orders there are.
LEMMA QuietSteps ==
    ASSUME IInv, [Next]_vars
    PROVE  \/ UNCHANGED <<db, alive, order, returned, revived>>
           \/ \E r \in Placing : CommitOrder(r) \/ Pay(r)
           \/ \E c \in Cancelling : CancelCommit(c)
           \/ \E u \in Updating : UpdateCommit(u)
           \/ \E q \in Removing : Remove(q)
<1>1. \A r, row, n : Take(r, row, n) => UNCHANGED <<db, alive, order, returned, revived>>
  BY DEF Take, cancelVars
<1>2. \A r, row, n : GiveBack(r, row, n) => UNCHANGED <<db, alive, order, returned, revived>>
  BY DEF GiveBack, cancelVars
<1>3. \A r : Rollback(r) => UNCHANGED <<db, alive, order, returned, revived>>
  BY DEF Rollback, cancelVars
<1>4. ASSUME NEW r \in Placing, Place(r), ~CommitOrder(r)
      PROVE  UNCHANGED <<db, alive, order, returned, revived>>
  BY <1>1, <1>3, <1>4 DEF Place, LookUp, CheckStock, Insert, TakePoints, TakeProduct,
     TakeVariant, SaveRecord, Refuse, rowVars, cancelVars
<1>5. ASSUME NEW c \in Cancelling, Cancel(c), ~CancelCommit(c)
      PROVE  UNCHANGED <<db, alive, order, returned, revived>>
  BY <1>2, <1>3, <1>5 DEF Cancel, CancelRead, CancelStatus, CancelPoints, CancelProduct,
     CancelVariant, Gone, rowVars, cancelVars
<1>6. ASSUME NEW u \in Updating, Update(u), ~UpdateCommit(u)
      PROVE  UNCHANGED <<db, alive, order, returned, revived>>
  BY <1>3, <1>6 DEF Update, UpdateStart, DeleteVariants, UpdateProduct, rowVars, cancelVars
<1>7. ASSUME NEW r \in Req, Abandon(r) PROVE UNCHANGED <<db, alive, order, returned, revived>>
  BY <1>3, <1>7 DEF Abandon
<1>8. ASSUME NEW k \in Key, Expire(k) PROVE UNCHANGED <<db, alive, order, returned, revived>>
  BY <1>8 DEF Expire, rowVars, cancelVars
<1>9. CASE UNCHANGED vars
  BY <1>9 DEF vars, rowVars, cancelVars
<1>. QED BY <1>4, <1>5, <1>6, <1>7, <1>8, <1>9 DEF Next

\* No row of an order comes back more often than the order was cancelled: once,
\* and once more for each payment of the cancelled order.
LEMMA ReturnsStayEarned ==
    ASSUME IInv, TxInv, ReturnsEarned, [Next]_vars
    PROVE  ReturnsEarned'
<1>1. RowsOK /\ RestOK
  BY Facts
<1>2. CASE UNCHANGED <<db, alive, order, returned, revived>>
  BY <1>2 DEF ReturnsEarned
<1>3. ASSUME NEW r \in Placing, CommitOrder(r) PROVE ReturnsEarned'
  <2>1. order' = [order EXCEPT ![r] = "PENDING"] /\ UNCHANGED <<returned, revived>>
    BY <1>3 DEF CommitOrder, cancelVars
  <2>2. order[r] = "none"
    BY <1>3 DEF CommitOrder, IInv, PlaceInv
  <2>. QED BY <1>1, <2>1, <2>2 DEF ReturnsEarned, RestOK
<1>4. ASSUME NEW r \in Placing, Pay(r) PROVE ReturnsEarned'
  <2>1. /\ order' = [order EXCEPT ![r] = "PAID"] /\ UNCHANGED returned
        /\ revived' = [revived EXCEPT ![r] = IF order[r] = "CANCELLED" THEN @ + 1 ELSE @]
    BY <1>4 DEF Pay
  <2>2. SUFFICES ASSUME NEW o \in Placing, NEW row \in Row
                PROVE  returned'[o][row] <=
                          revived'[o] + (IF order'[o] = "CANCELLED" THEN 1 ELSE 0)
    BY DEF ReturnsEarned
  <2>3. returned[o][row] \in Nat /\ revived[o] \in Nat
    BY <1>1 DEF RestOK
  <2>4. returned[o][row] <= revived[o] + (IF order[o] = "CANCELLED" THEN 1 ELSE 0)
    BY DEF ReturnsEarned
  <2>. QED BY <1>1, <2>1, <2>3, <2>4 DEF RestOK
<1>5. ASSUME NEW c \in Cancelling, CancelCommit(c) PROVE ReturnsEarned'
  <2>1. Target[c] \in Placing /\ Cancellable(Target[c])
    BY <1>5, Facts DEF CancelCommit, TxInv, CancelTx, LaterLabels
  <2>2. SUFFICES ASSUME NEW o \in Placing, NEW row \in Row
                PROVE  returned'[o][row] <=
                          revived'[o] + (IF order'[o] = "CANCELLED" THEN 1 ELSE 0)
    BY DEF ReturnsEarned
  <2>3. returned[o][row] \in Nat /\ revived[o] \in Nat /\ revived'[o] = revived[o]
    BY <1>1, <1>5 DEF CancelCommit, RestOK
  <2>4. returned[o][row] <= revived[o] + (IF order[o] = "CANCELLED" THEN 1 ELSE 0)
    BY DEF ReturnsEarned
  <2>5. CASE o = Target[c]
    <3>1. order'[o] = "CANCELLED" /\ returned'[o][row] <= returned[o][row] + 1
          /\ returned'[o][row] \in Nat
      BY <1>1, <1>5, <2>1, <2>3, <2>5 DEF CancelCommit, RestOK
    <3>2. order[o] # "CANCELLED"
      BY <2>1, <2>5 DEF Cancellable
    <3>. QED BY <2>3, <2>4, <3>1, <3>2
  <2>6. CASE o # Target[c]
    <3>1. order'[o] = order[o] /\ returned'[o] = returned[o]
      BY <1>1, <1>5, <2>1, <2>6 DEF CancelCommit, RestOK
    <3>. QED BY <2>3, <2>4, <3>1
  <2>. QED BY <2>5, <2>6
<1>6. ASSUME NEW u \in Updating, UpdateCommit(u) PROVE ReturnsEarned'
  BY <1>6 DEF UpdateCommit, ReturnsEarned, cancelVars
<1>7. ASSUME NEW q \in Removing, Remove(q) PROVE ReturnsEarned'
  BY <1>7 DEF Remove, ReturnsEarned, cancelVars
<1>. QED BY <1>2, <1>3, <1>4, <1>5, <1>6, <1>7, QuietSteps

\* If no edit writes a stock, what a row has lost is exactly what the orders took
\* less what cancellations gave back, for any number of orders, payments (those of
\* cancelled orders too), cancellations, edits of variants and removals at once;
\* and what came back was earned.
THEOREM StockReconciled ==
    ASSUME \A u \in Updating : Edit[u].stock = None
    PROVE  Spec => []StockMatchesOrders
<1>1. Init => StockMatchesOrders
  <2>. SUFFICES ASSUME Init PROVE StockMatchesOrders
    OBVIOUS
  <2>1. ASSUME NEW row \in Row PROVE db[row] + TakenBy(row) = Opening[row]
    <3>. DEFINE f == [o \in Placing |-> Share(o, row)]
    <3>1. \A o \in Placing : f[o] = 0
      BY DEF Init, Share
    <3>2. DOMAIN f = Placing
      OBVIOUS
    <3>3. TakenBy(row) = SumFunctionOnSet(f, Placing)
      BY <3>2 DEF TakenBy, SumFunction, Share
    <3>. HIDE DEF f
    <3>4. TakenBy(row) = 0
      BY <3>1, <3>3, FiniteAssumption, SumZero
    <3>. QED BY <3>4, RowAssumption DEF Init
  <2>2. ReturnsEarned
    BY DEF Init, ReturnsEarned
  <2>. QED BY <2>1, <2>2 DEF StockMatchesOrders
<1>2. IInv /\ IInv' /\ TxInv /\ StockMatchesOrders /\ [Next]_vars => StockMatchesOrders'
  <2>. SUFFICES ASSUME IInv, IInv', TxInv, StockMatchesOrders, [Next]_vars,
                       NEW row \in Row
                PROVE  db'[row] + TakenBy(row)' = Opening[row]
    BY ReturnsStayEarned DEF StockMatchesOrders
  <2>1. db[row] + TakenBy(row) = Opening[row] /\ RestOK
    BY Facts DEF StockMatchesOrders
  <2>2. CASE UNCHANGED <<db, alive, order, returned, revived>>
    BY <2>1, <2>2, TakenSame DEF Share
  <2>3. ASSUME NEW r \in Placing, Pay(r) PROVE db'[row] + TakenBy(row)' = Opening[row]
    <3>1. /\ db' = db /\ returned' = returned
          /\ \A x \in Placing : order'[x] = "none" <=> order[x] = "none"
      BY <2>1, <2>3 DEF Pay, RestOK, rowVars
    <3>2. \A x \in Placing : Share(x, row)' = Share(x, row)
      BY <3>1 DEF Share
    <3>. QED BY <2>1, <3>1, <3>2, TakenSame
  <2>4. ASSUME NEW u \in Updating, UpdateCommit(u)
        PROVE  db'[row] + TakenBy(row)' = Opening[row]
    <3>1. db'[row] = db[row] /\ \A x \in Placing : Share(x, row)' = Share(x, row)
      BY <2>4, CommitEdits DEF UpdateCommit, Share, cancelVars
    <3>. QED BY <2>1, <3>1, TakenSame
  <2>5. ASSUME NEW q \in Removing, Remove(q) PROVE db'[row] + TakenBy(row)' = Opening[row]
    <3>1. db' = db /\ \A x \in Placing : Share(x, row)' = Share(x, row)
      BY <2>5 DEF Remove, Share, cancelVars
    <3>. QED BY <2>1, <3>1, TakenSame
  <2>. QED BY <2>2, <2>3, <2>4, <2>5, CommitOrderMatches, CancelCommitMatches, QuietSteps
<1>. QED BY <1>1, <1>2, Invariant, Transactions, PTL DEF Spec

-----------------------------------------------------------------------------
(* The ledger *)

\* The commit of an order is the ledger's placement.
LEMMA CommitIsPlace ==
    ASSUME IInv, TxInv, RowsOK', NEW r \in Placing, CommitOrder(r)
    PROVE  Ledger!Place(r)
<1>. DEFINE takes == [o \in Placing |-> [row \in Row |-> Demand(o, row)]]
<1>1. RowsOK /\ RestOK /\ order[r] = "none"
  BY Facts DEF CommitOrder, IInv, PlaceInv
<1>2. ASSUME NEW row \in Row
      PROVE  /\ takes[r][row] = Demand(r, row)
             /\ Demand(r, row) <= db[row] /\ db'[row] = db[row] - Demand(r, row)
             /\ Demand(r, row) > 0 => row \in alive \cup Account
  <2>1. LineRows(r) \subseteq alive
    BY DEF CommitOrder, TxInv, CreateTx, LaterLabels
  <2>2. row \notin LineRows(r) /\ row \in Product \cup Variant => Demand(r, row) = 0
    BY NoLineNoDemand, PointsDemandFacts
  <2>3. row \in Product \cup Variant \cup Account
    BY DEF Row
  <2>4. 0 > 0 <=> FALSE
    OBVIOUS
  <2>. QED BY <2>1, <2>2, <2>3, <2>4, CommitTakes
<1>3. db' = [row \in Row |-> db[row] - takes[r][row]]
  BY <1>2 DEF RowsOK
<1>4. order' = [order EXCEPT ![r] = "PENDING"] /\ UNCHANGED alive
  BY DEF CommitOrder
<1>. HIDE DEF takes
<1>5. \A row \in Row : takes[r][row] <= db[row] /\ (takes[r][row] > 0 => row \in alive \cup Account)
  BY <1>2
<1>. QED BY <1>1, <1>3, <1>4, <1>5 DEF Ledger!Place, Ledger!Row, Row, takes

\* The commit of a cancellation is the ledger's cancellation.
LEMMA CommitIsCancel ==
    ASSUME IInv, TxInv, RowsOK', NEW c \in Cancelling, CancelCommit(c)
    PROVE  Ledger!Cancel(Target[c])
<1>. DEFINE o == Target[c]
            takes == [x \in Placing |-> [row \in Row |-> Demand(x, row)]]
            refunded == IF paidSeen[c] THEN Account ELSE {}
<1>1. RowsOK /\ RestOK /\ o \in Placing /\ pc[c] \in LaterLabels
  BY Facts DEF CancelCommit, LaterLabels
<1>2. CancelTx(c) /\ order[o] \in {"PENDING", "PAID"}
  BY <1>1 DEF TxInv, CancelTx, Cancellable
<1>3. refunded \in {{}, IF order[o] = "PAID" THEN Account ELSE {}}
  BY <1>2 DEF CancelTx
<1>4. ASSUME NEW row \in Row
      PROVE  db'[row] = db[row] + (IF row \in alive \cup refunded THEN takes[o][row] ELSE 0)
  <2>1. takes[o][row] = Demand(o, row) /\ Demand(o, row) \in Nat /\ db[row] \in Nat
    BY <1>1, DemandNat DEF RowsOK
  <2>2. /\ db'[row] = db[row] + (IF row \in Returnable(c) THEN Demand(o, row) ELSE 0)
        /\ holder[row] = c => row \in Returnable(c) /\ row \in alive \cup Account
        /\ holder[row] # c => db'[row] = db[row]
    BY CommitReturns
  <2>3. CASE row \in Account
    <3>1. row \notin Product \cup Variant
      BY <2>3, RowAssumption
    <3>2. row \in Returnable(c) <=> row \in alive \cup refunded
      BY <1>1, <2>3, <3>1, ReturnableFacts DEF Returnable, RestOK
    <3>. HIDE DEF takes, refunded, o
    <3>. QED BY <2>1, <2>2, <3>2
  <2>4. CASE row \in Product \cup Variant
    <3>1. row \notin Account
      BY <2>4, RowAssumption
    <3>2. row \in Returnable(c) <=> row \in attached[c]
      BY <3>1 DEF Returnable
    <3>3. row \in alive \cup refunded <=> row \in alive
      BY <3>1
    <3>4. row \in alive /\ row \notin attached[c] => Demand(o, row) = 0
      <4>. SUFFICES ASSUME row \in alive, row \notin attached[c] PROVE Demand(o, row) = 0
        OBVIOUS
      <4>1. row \notin LineRows(o)
        BY <1>1, <1>2 DEF CancelTx
      <4>. QED BY <1>1, <2>4, <4>1, NoLineNoDemand, PointsDemandFacts
    <3>5. row \in attached[c] /\ row \notin alive => db'[row] = db[row]
      BY <2>2, <3>1
    <3>. HIDE DEF takes, refunded, o
    <3>. QED BY <2>1, <2>2, <3>2, <3>3, <3>4, <3>5
  <2>. QED BY <2>3, <2>4 DEF Row
<1>5. db' = [row \in Row |->
               db[row] + (IF row \in alive \cup refunded THEN takes[o][row] ELSE 0)]
  BY <1>4 DEF RowsOK
<1>6. order' = [order EXCEPT ![o] = "CANCELLED"] /\ UNCHANGED alive
  BY DEF CancelCommit
<1>. HIDE DEF refunded
<1>. QED BY <1>2, <1>3, <1>5, <1>6 DEF Ledger!Cancel, Ledger!Row, Row

\* The commit of an edit is the ledger's amendment.
LEMMA CommitIsAmend ==
    ASSUME IInv, TxInv, RowsOK', NEW u \in Updating, UpdateCommit(u)
    PROVE  Ledger!Amend(Edit[u].product)
<1>. DEFINE p == Edit[u].product
<1>1. RowsOK /\ RestOK
  BY Facts
<1>2. db' \in [Row -> Nat] /\ \A row \in Row \ {p} : db'[row] = db[row]
  BY CommitEdits DEF RowsOK
<1>3. alive' \subseteq Product \cup Variant
  BY <1>1, EditFacts DEF UpdateCommit, RestOK
<1>4. ASSUME NEW row \in (Product \cup Variant) \ {p}
      PROVE  (row \in alive' <=> row \in alive) \/ (row \in Variant /\ ProductOf[row] = p)
  <2>1. CASE row \in Edit[u].variants
    BY <2>1, EditFacts, VariantAssumption
  <2>2. CASE row \in Variant /\ holder[row] = u
    BY <2>2, CommitEdits DEF Row
  <2>3. CASE row \notin Edit[u].variants /\ ~(row \in Variant /\ holder[row] = u)
    BY <2>3 DEF UpdateCommit
  <2>. QED BY <2>1, <2>2, <2>3
<1>5. UNCHANGED order
  BY DEF UpdateCommit
<1>. QED BY <1>2, <1>3, <1>4, <1>5 DEF Ledger!Amend, Ledger!Row, Row

\* The deletion of a product is the ledger's amendment.
LEMMA RemoveIsAmend ==
    ASSUME IInv, RowsOK', NEW q \in Removing, Remove(q)
    PROVE  Ledger!Amend(Removed[q])
<1>1. RowsOK /\ RestOK
  BY Facts
<1>2. UNCHANGED <<db, order>> /\ alive' = alive \ ({Removed[q]} \cup VariantsOf(Removed[q]))
  BY DEF Remove
<1>3. \A v \in VariantsOf(Removed[q]) : v \in Variant /\ ProductOf[v] = Removed[q]
  BY DEF VariantsOf
<1>4. alive' \subseteq Product \cup Variant /\ db' \in [Row -> Nat]
  BY <1>1, <1>2 DEF RowsOK, RestOK
<1>. QED BY <1>2, <1>3, <1>4 DEF Ledger!Amend, Ledger!Row, Row

\* From outside, an order takes all it needs at one instant or nothing, of what
\* exists; a cancellation gives back all of it that still exists; and an edit
\* touches its own product and variants only: every step of the transactions is
\* one step of the ledger or none.
THEOREM LedgerImplemented == Spec => ImplementsLedger
<1>1. Init => Ledger!Init
  <2>1. Init => alive \subseteq Product \cup Variant
    BY DEF Init
  <2>. QED BY <2>1 DEF Init, Ledger!Init
<1>2. IInv /\ TxInv /\ IInv' /\ [Next]_vars => [Ledger!Next]_(Ledger!vars)
  <2>. SUFFICES ASSUME IInv, TxInv, IInv', [Next]_vars
                PROVE  Ledger!Next \/ UNCHANGED <<db, order, alive>>
    BY DEF Ledger!vars
  <2>1. RowsOK'
    BY DEF IInv, TypeOK, NeverNegative, RowsOK
  <2>2. ASSUME NEW r \in Placing, CommitOrder(r) PROVE Ledger!Next
    BY <2>1, <2>2, CommitIsPlace DEF Ledger!Next
  <2>3. ASSUME NEW r \in Placing, Pay(r) PROVE Ledger!Next
    <3>1. Ledger!Pay(r)
      BY <2>3 DEF Pay, Ledger!Pay, rowVars
    <3>. QED BY <3>1 DEF Ledger!Next
  <2>4. ASSUME NEW c \in Cancelling, CancelCommit(c) PROVE Ledger!Next
    BY <2>1, <2>4, CommitIsCancel, ReqAssumption DEF Ledger!Next
  <2>5. ASSUME NEW u \in Updating, UpdateCommit(u) PROVE Ledger!Next
    BY <2>1, <2>5, CommitIsAmend, EditFacts DEF Ledger!Next
  <2>6. ASSUME NEW q \in Removing, Remove(q) PROVE Ledger!Next
    BY <2>1, <2>6, RemoveIsAmend, ReqAssumption DEF Ledger!Next
  <2>. QED BY <2>2, <2>3, <2>4, <2>5, <2>6, QuietSteps
<1>. QED BY <1>1, <1>2, Invariant, Transactions, PTL DEF Spec, ImplementsLedger, Ledger!Spec
=============================================================================
