------------------------------- MODULE Stock -------------------------------
(***************************************************************************)
(* The stock of one product variant (one product_sizes row) and its        *)
(* valuation by the weighted average: deliveries, sales, corrections,      *)
(* returns and cancellations.  Money is counted in groszy.                 *)
(*                                                                         *)
(* Each operation is a database session that checks (a Return's flag, an   *)
(* order's status), loads the rows and later commits.  PostgreSQL runs     *)
(* at READ COMMITTED and no statement here locks a row, so other sessions  *)
(* commit in between.  The ORM writes the columns whose value differs from *)
(* the loaded one, with the values computed from the load.                 *)
(***************************************************************************)
EXTENDS Integers, Sequences, FiniteSetsExt

CONSTANTS
  Sessions,   \* web requests, the agent and the scheduler, whoever has a session
  Orders,     \* order ids
  OrderQty,   \* the pieces of the variant in each order
  Returns,    \* ids of Return rows
  ReturnOf,   \* the order of each Return and the pieces its items_json names
  Pieces,     \* how many pieces a delivery brings
  Targets,    \* the quantities that corrections and stocktakes set
  Prices,     \* unit prices of deliveries and of priced corrections
  None,       \* no order, no Return
  MaxTxns     \* bound: how many sessions are opened

ASSUME OrdersAssumption == OrderQty \in [Orders -> Nat \ {0}]
ASSUME ReturnsAssumption ==
  ReturnOf \in [Returns -> [order : Orders, n : Nat \ {0}]]
ASSUME InputsAssumption ==
  Pieces \subseteq Nat \ {0} /\ Targets \subseteq Nat /\ Prices \subseteq Nat
ASSUME BoundAssumption == MaxTxns \in Nat

ASSUME NoneAssumption == None \notin Orders /\ None \notin Returns

VARIABLES
  \* the database
  qty, val,   \* ProductSize.quantity and ProductSize.stock_value
  sales,      \* the Sale rows: order, quantity, purchase_cost
  back,       \* Sale.quantity_returned of each of them
  ret,        \* a Return: none yet, delivered, or stock_restored
  status,     \* the newest status of an order, as far as cancelling looks at it
  \* the sessions
  pc,         \* idle, checked (flag or status read), loaded (rows read)
  job,        \* what the session does, for which order or Return
  seen, new,  \* the row as loaded and as it will be written
  \* the history
  opened,     \* how many sessions were opened
  paidBack,   \* per Sale: the value restored at its cost, in how many parts, and
              \* whether a session did it that had loaded another count
  torn        \* the row's last change was computed from a row that was not it

db == <<qty, val, sales, back, ret, status>>
history == <<paidBack, torn>>
vars == <<db, pc, job, seen, new, opened, history>>

Row(q, v, b) == [qty |-> q, val |-> v, back |-> b]
Job(kind, o, r, n, c) == [kind |-> kind, order |-> o, ret |-> r, n |-> n, cost |-> c]
NoRow == Row(0, 0, <<>>)
NoJob == Job("none", None, None, 0, 0)

Min2(a, b) == IF a <= b THEN a ELSE b

(* a / b rounded half up, as Decimal.quantize and Numeric(12, 2) do.       *)
(* Decimal keeps 28 digits, which is exact for the quantities explored.    *)
Rounded(a, b) == (2 * a + b) \div (2 * b)

SalesOf(o) == {i \in DOMAIN sales : sales[i].order = o}
Current == Row(qty, val, back)

TypeOK ==
  /\ qty \in Nat /\ val \in Nat
  /\ sales \in Seq([order : Orders, quantity : Nat \ {0}, cost : Nat])
  /\ back \in [DOMAIN sales -> Nat] /\ torn \in BOOLEAN
  /\ paidBack \in Seq([value : Nat, parts : Nat, crossed : BOOLEAN])
  /\ ret \in [Returns -> {"none", "delivered", "restored"}]
  /\ status \in [Orders -> {"open", "anulowano", "zwrot"}]
  /\ pc \in [Sessions -> {"idle", "checked", "loaded"}]
  /\ \A s \in Sessions : seen[s].qty \in Nat /\ new[s].qty \in Nat /\ new[s].val \in Nat
  /\ opened \in 0..MaxTxns

Init ==
  /\ qty = 0 /\ val = 0 /\ sales = <<>> /\ back = <<>>
  /\ ret = [r \in Returns |-> "none"] /\ status = [o \in Orders |-> "open"]
  /\ pc = [s \in Sessions |-> "idle"] /\ job = [s \in Sessions |-> NoJob]
  /\ seen = [s \in Sessions |-> NoRow] /\ new = [s \in Sessions |-> NoRow]
  /\ opened = 0 /\ paidBack = <<>> /\ torn = FALSE

-----------------------------------------------------------------------------
(* What the operations make of a loaded row.                               *)

(* record_purchase, and a correction upwards with a unit price *)
Delivered(row, n, price) == Row(row.qty + n, row.val + n * price, row.back)

(* consume_stock takes what there is, at its share of the value *)
Taken(row, n) == Min2(row.qty, n)
CostOfRequested(row, n) == IF row.qty = 0 THEN 0 ELSE Rounded(row.val * n, row.qty)
CostOf(row, n) == IF row.qty = 0 THEN 0 ELSE Rounded(row.val * Taken(row, n), row.qty)

(* pieces leave at the average; an emptied row is worth nothing *)
WithoutAtPrice(row, k) ==
  Row(row.qty - k, row.val - k * (IF row.qty = 0 THEN 0 ELSE Rounded(row.val, row.qty)), row.back)
Without(row, k) ==
  Row(row.qty - k,
      IF k = row.qty THEN 0 ELSE Rounded(row.val * (row.qty - k), row.qty),
      row.back)

(* an unavailable sale changes nothing, whatever the row is worth *)
Consumed(row, n) == IF Taken(row, n) = 0 THEN row ELSE Without(row, Taken(row, n))

(* pieces come in at the current average, 0 for an empty row *)
AtAverage(row, n) ==
  Row(row.qty + n,
      row.val + (IF row.qty = 0 THEN 0 ELSE Rounded(row.val * n, row.qty)),
      row.back)

(* apply_stock_adjustment with set_to, without a unit price *)
Corrected(row, target) ==
  IF target > row.qty THEN AtAverage(row, target - row.qty)
                      ELSE Without(row, row.qty - target)

(* The pieces of a return are charged to the Sale rows of its order, the   *)
(* oldest first, none beyond what the row has left to return.              *)
FreeForgetful(row, o, i) == IF i \in SalesOf(o) THEN sales[i].quantity ELSE 0
Free(row, o, i) == IF i \in SalesOf(o) THEN sales[i].quantity - row.back[i] ELSE 0

SumTo(t, i) == MapThenSumSet(LAMBDA j : t[j], 1..i)

Allocations(row, o, n) ==
  {t \in [DOMAIN sales -> 0..n] :
     /\ \A i \in DOMAIN sales : t[i] <= Free(row, o, i)
     /\ SumTo(t, Len(sales)) \in 0..n
     /\ \A i \in DOMAIN sales : t[i] < Free(row, o, i) => SumTo(t, i) = n}

CostBackByUnit(i, k) == k * Rounded(sales[i].cost, sales[i].quantity)
CostBack(i, k) == Rounded(sales[i].cost * k, sales[i].quantity)

CostsBack(t) == MapThenSumSet(LAMBDA i : CostBack(i, t[i]), DOMAIN sales)

(* _restore_stock_for_return_item: the allocated pieces come back at the   *)
(* cost of their sale, the others at the average that results from it.     *)
Restocked(row, n, t) ==
  LET charged == SumTo(t, Len(sales))
  IN  AtAverage(Row(row.qty + charged, row.val + CostsBack(t),
                    [i \in DOMAIN sales |-> row.back[i] + t[i]]),
                n - charged)

-----------------------------------------------------------------------------
(* Sessions: opening, checking, loading.                                   *)

Open(s) == pc[s] = "idle" /\ opened < MaxTxns /\ opened' = opened + 1

Load(s, j, after) ==
  /\ pc' = [pc EXCEPT ![s] = "loaded"] /\ job' = [job EXCEPT ![s] = j]
  /\ seen' = [seen EXCEPT ![s] = Current] /\ new' = [new EXCEPT ![s] = after]
  /\ UNCHANGED <<db, history>>

LoadPurchase(s) == \E n \in Pieces, p \in Prices :
  /\ Open(s)
  /\ Load(s, Job("purchase", None, None, n, 0), Delivered(Current, n, p))

LoadSale(s) == \E o \in Orders :
  /\ Open(s)
  /\ Load(s, Job("sale", o, None, OrderQty[o], CostOf(Current, OrderQty[o])),
             Consumed(Current, OrderQty[o]))

LoadCorrection(s) == \E target \in Targets :
  /\ Open(s) /\ target # qty
  /\ Load(s, Job("correction", None, None, 0, 0), Corrected(Current, target))

LoadPricedCorrection(s) == \E target \in Targets, p \in Prices :
  /\ Open(s) /\ target > qty
  /\ Load(s, Job("purchase", None, None, target - qty, 0),
             Delivered(Current, target - qty, p))

Check(s, j) ==
  /\ pc' = [pc EXCEPT ![s] = "checked"] /\ job' = [job EXCEPT ![s] = j]
  /\ UNCHANGED <<db, seen, new, history>>

CheckReturn(s) == \E r \in Returns :
  /\ Open(s) /\ ret[r] = "delivered"
  /\ Check(s, Job("restock", ReturnOf[r].order, r, ReturnOf[r].n, 0))

CheckCancel(s) == \E o \in Orders :
  /\ Open(s) /\ status[o] = "open"
  /\ Check(s, Job("cancel", o, None, OrderQty[o], 0))

LoadRestock(s) ==
  /\ pc[s] = "checked" /\ UNCHANGED opened
  /\ IF job[s].kind = "cancel" /\ SalesOf(job[s].order) = {}
     THEN Load(s, Job("cancel", job[s].order, None, 0, 0), Current)
     ELSE \E t \in Allocations(Current, job[s].order, job[s].n) :
            Load(s, job[s], Restocked(Current, job[s].n, t))

-----------------------------------------------------------------------------
(* The end of a session.                                                   *)

(* the UPDATE names only the columns that changed since the load *)
Written(old, was, will) == IF was = will THEN old ELSE will

Close(s) ==
  /\ pc' = [pc EXCEPT ![s] = "idle"] /\ job' = [job EXCEPT ![s] = NoJob]
  /\ seen' = [seen EXCEPT ![s] = NoRow] /\ new' = [new EXCEPT ![s] = NoRow]
  /\ UNCHANGED opened

(* another session has changed the row since this one loaded it *)
Overtaken(s) == seen[s].qty # qty \/ seen[s].val # val

TakenBack(s, i) ==
  IF i \in DOMAIN seen[s].back THEN new[s].back[i] - seen[s].back[i] ELSE 0

Commit(s) ==
  LET j    == job[s]
      sold == j.kind = "sale"
      kept == [i \in DOMAIN sales |->
                 IF TakenBack(s, i) = 0 THEN back[i] ELSE new[s].back[i]]
      paid == [i \in DOMAIN sales |->
                 IF TakenBack(s, i) = 0 THEN paidBack[i]
                 ELSE [value |-> paidBack[i].value + CostBack(i, TakenBack(s, i)),
                       parts |-> paidBack[i].parts + 1,
                       crossed |-> paidBack[i].crossed \/ seen[s].back[i] # back[i]]]
  IN
  /\ pc[s] = "loaded"
  /\ qty' = Written(qty, seen[s].qty, new[s].qty)
  /\ val' = Written(val, seen[s].val, new[s].val)
  /\ sales' = IF sold THEN Append(sales, [order |-> j.order, quantity |-> j.n, cost |-> j.cost])
                      ELSE sales
  /\ back' = IF sold THEN Append(kept, 0) ELSE kept
  /\ paidBack' = IF sold THEN Append(paid, [value |-> 0, parts |-> 0, crossed |-> FALSE])
                         ELSE paid
  /\ torn' = IF qty' = qty /\ val' = val THEN torn ELSE Overtaken(s)
  /\ ret' = IF j.kind = "restock" THEN [ret EXCEPT ![j.ret] = "restored"] ELSE ret
  /\ status' = IF j.kind = "cancel" THEN [status EXCEPT ![j.order] = "anulowano"] ELSE status
  /\ Close(s)

(* the session raises, or its process dies, before the commit *)
Abort(s) == pc[s] # "idle" /\ Close(s) /\ UNCHANGED <<db, history>>

(* A Return is created for an order that was sold, and delivered: whatever *)
(* the last status was, the order now counts as returned.                  *)
DeliverReturn(r) ==
  /\ ret[r] = "none" /\ SalesOf(ReturnOf[r].order) # {}
  /\ ret' = [ret EXCEPT ![r] = "delivered"]
  /\ status' = [status EXCEPT ![ReturnOf[r].order] = "zwrot"]
  /\ UNCHANGED <<qty, val, sales, back, pc, job, seen, new, opened, history>>

SessionStep(s) ==
  \/ LoadPurchase(s) \/ LoadSale(s)
  \/ LoadCorrection(s) \/ LoadPricedCorrection(s)
  \/ CheckReturn(s) \/ CheckCancel(s) \/ LoadRestock(s)
  \/ Commit(s) \/ Abort(s)

Next == (\E s \in Sessions : SessionStep(s)) \/ (\E r \in Returns : DeliverReturn(r))

Spec == Init /\ [][Next]_vars

-----------------------------------------------------------------------------
(* Sale.quantity_returned never passes Sale.quantity, however many returns *)
(* and cancellations of one order overlap (models/products.py:201).        *)
NeverOverReturned == \A i \in DOMAIN sales : back[i] <= sales[i].quantity

(* The invariant that models/products.py:116 states without a condition.   *)
EmptyIsAlwaysWorthless == qty = 0 => val = 0

(* A variant without pieces has no stock_value left over from the rounding *)
(* of averages, whatever overlaps, unless the session that changed it last *)
(* had loaded a row that another one changed before it committed.          *)
EmptyIsWorthless == qty = 0 /\ ~torn => val = 0

(* What a sale is charged and what it leaves on stock add up to the value  *)
(* that was there, except that both halves of a tie round up to the grosz; *)
(* unless another session changed the row after the sale had loaded it.    *)
Sells(s) == pc[s] = "loaded" /\ job[s].kind = "sale" /\ Commit(s)
SaleSplitsValue == [][\A s \in Sessions : Sells(s) /\ ~Overtaken(s) =>
                        sales'[Len(sales')].cost + val' - val \in 0..1]_vars

Distance(a, b) == IF a < b THEN b - a ELSE a - b

(* A sale that came back completely, in whatever parts and beside whatever *)
(* sessions, has put back its purchase_cost but for the rounding of each   *)
(* part, unless two sessions counted its returned pieces from one number.  *)
PartsPayBackCost == \A i \in DOMAIN sales :
  back[i] = sales[i].quantity /\ ~paidBack[i].crossed =>
    2 * Distance(paidBack[i].value, sales[i].cost) <= paidBack[i].parts
=============================================================================
