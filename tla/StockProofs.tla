---------------------------- MODULE StockProofs ----------------------------
(***************************************************************************)
(* What holds of the stock for any sessions, orders, returns and prices.   *)
(* Although no session sees what the others are writing, returned pieces   *)
(* never pass the pieces sold, and no quantity, value or cost falls below  *)
(* zero: that needs of a session only that what it will write was computed *)
(* from some returned counts and the quantities sold, which never change.  *)
(* An emptied variant is worth nothing, a sale splits the value it found   *)
(* and a sale that came back has put back its cost wherever the session    *)
(* that wrote had not been overtaken, whatever else overlaps: what it will *)
(* write is right for the row it has seen.                                 *)
(***************************************************************************)
EXTENDS Stock, FiniteSetTheorems, WellFoundedInduction, TLAPS

SalesInv ==
  /\ \E S : sales \in Seq(S)
  /\ back \in Seq(Nat) /\ Len(back) = Len(sales)
  /\ \A i \in DOMAIN sales : sales[i].quantity \in Nat \ {0}

(* what a session will write was sound for the Sale rows it saw *)
LoadedInv(s) == pc[s] = "loaded" =>
  /\ seen[s].qty \in Nat /\ new[s].qty \in Nat
  /\ seen[s].back \in Seq(Nat) /\ new[s].back \in Seq(Nat)
  /\ Len(new[s].back) = Len(seen[s].back) /\ Len(seen[s].back) <= Len(sales)
  /\ \A i \in 1..Len(seen[s].back) : new[s].back[i] <= sales[i].quantity

JobInv(s) == pc[s] # "idle" =>
  /\ job[s].n \in Nat
  /\ job[s].kind \in {"sale", "restock"} => job[s].n > 0
  /\ pc[s] = "checked" => job[s].kind \in {"restock", "cancel"} /\ job[s].n > 0

Functions4 ==
  /\ pc \in [Sessions -> {"idle", "checked", "loaded"}]
  /\ job = [s \in Sessions |-> job[s]]
  /\ seen = [s \in Sessions |-> seen[s]] /\ new = [s \in Sessions |-> new[s]]

CountInv ==
  /\ qty \in Nat /\ SalesInv /\ Functions4 /\ NeverOverReturned
  /\ \A s \in Sessions : LoadedInv(s) /\ JobInv(s)

(* A correction, a delivery or a sale leaves a quantity behind, and leaves *)
(* the returned counts alone.                                              *)
LEMMA RowsKeepCounts ==
  ASSUME NEW row, row.qty \in Nat, NEW n \in Nat, NEW p
  PROVE  /\ Delivered(row, n, p).qty \in Nat /\ Delivered(row, n, p).back = row.back
         /\ Consumed(row, n).qty \in Nat /\ Consumed(row, n).back = row.back
         /\ Corrected(row, n).qty \in Nat /\ Corrected(row, n).back = row.back
BY DEF Delivered, Consumed, Taken, Min2, Without, Corrected, AtAverage, Row

(* A restock adds the pieces it was asked for, and charges no Sale row     *)
(* beyond what was sold.                                                   *)
LEMMA RestockKeepsCounts ==
  ASSUME CountInv, NEW o, NEW n \in Nat, NEW t \in Allocations(Current, o, n)
  PROVE  /\ Restocked(Current, n, t).qty = qty + n
         /\ Restocked(Current, n, t).back \in Seq(Nat)
         /\ Len(Restocked(Current, n, t).back) = Len(sales)
         /\ \A i \in 1..Len(sales) : Restocked(Current, n, t).back[i] <= sales[i].quantity
<1> DEFINE charged == SumTo(t, Len(sales))
           b == [i \in 1..Len(sales) |-> back[i] + t[i]]
<1>1. DOMAIN sales = 1..Len(sales) /\ Len(sales) \in Nat
  BY DEF CountInv, SalesInv
<1>2. charged \in 0..n /\ t \in [1..Len(sales) -> 0..n]
  BY <1>1 DEF Allocations
<1>3. \A i \in 1..Len(sales) : back[i] \in Nat /\ back[i] <= sales[i].quantity
                               /\ sales[i].quantity \in Nat
  BY <1>1 DEF CountInv, SalesInv, NeverOverReturned
<1>4. \A i \in 1..Len(sales) : t[i] <= Free(Current, o, i)
  BY <1>1 DEF Allocations
<1>5. \A i \in 1..Len(sales) : b[i] \in Nat /\ b[i] <= sales[i].quantity
  BY <1>2, <1>3, <1>4 DEF Free, Current, Row
<1>6. Restocked(Current, n, t).back = b
  BY <1>1 DEF Restocked, AtAverage, Row, Current
<1>7. b \in Seq(Nat) /\ Len(b) = Len(sales)
  BY <1>1, <1>5
<1>8. Restocked(Current, n, t).qty = (qty + charged) + (n - charged)
  BY DEF Restocked, AtAverage, Row, Current
<1>9. Restocked(Current, n, t).qty = qty + n
  BY <1>2, <1>8 DEF CountInv
<1> QED BY <1>5, <1>6, <1>7, <1>9

LEMMA ElementsAreNat == ASSUME NEW b \in Seq(Nat), NEW i \in 1..Len(b) PROVE b[i] \in Nat
OBVIOUS

(* Loading keeps the invariant when the row to be written is sound.        *)
LEMMA LoadKeepsCounts ==
  ASSUME CountInv, NEW s \in Sessions, NEW j, NEW after, Load(s, j, after),
         after.qty \in Nat, after.back \in Seq(Nat), Len(after.back) = Len(sales),
         \A i \in 1..Len(sales) : after.back[i] <= sales[i].quantity,
         j.n \in Nat, j.kind \in {"sale", "restock"} => j.n > 0
  PROVE  CountInv'
<1> USE DEF CountInv
<1>1. UNCHANGED <<qty, sales, back>>
  BY DEF Load, db
<1>2. SalesInv' /\ NeverOverReturned' /\ qty' \in Nat
  BY <1>1 DEF SalesInv, NeverOverReturned
<1>3. Functions4'
  BY DEF Functions4, Load
<1>4. ASSUME NEW u \in Sessions PROVE LoadedInv(u)' /\ JobInv(u)'
  <2>1. CASE u = s
    <3>1. pc'[s] = "loaded" /\ job'[s] = j /\ new'[s] = after /\ seen'[s] = Current
      BY DEF Functions4, Load
    <3>2. Current.qty = qty /\ Current.back = back
      BY DEF Current, Row
    <3> QED BY <1>1, <2>1, <3>1, <3>2 DEF LoadedInv, JobInv, SalesInv
  <2>2. CASE u # s
    <3>1. pc'[u] = pc[u] /\ job'[u] = job[u] /\ new'[u] = new[u] /\ seen'[u] = seen[u]
      BY <2>2 DEF Functions4, Load
    <3> QED BY <1>1, <3>1 DEF LoadedInv, JobInv
  <2> QED BY <2>1, <2>2
<1> QED BY <1>2, <1>3, <1>4

LEMMA CheckKeepsCounts ==
  ASSUME CountInv, NEW s \in Sessions, NEW j, Check(s, j),
         j.kind \in {"restock", "cancel"}, j.n \in Nat \ {0}
  PROVE  CountInv'
<1> USE DEF CountInv
<1>1. UNCHANGED <<qty, sales, back, seen, new>>
  BY DEF Check, db
<1>2. SalesInv' /\ NeverOverReturned' /\ qty' \in Nat
  BY <1>1 DEF SalesInv, NeverOverReturned
<1>3. Functions4'
  BY <1>1 DEF Functions4, Check
<1>4. ASSUME NEW u \in Sessions PROVE LoadedInv(u)' /\ JobInv(u)'
  <2>1. CASE u = s
    <3>1. pc'[s] = "checked" /\ job'[s] = j
      BY DEF Functions4, Check
    <3> QED BY <2>1, <3>1 DEF LoadedInv, JobInv
  <2>2. CASE u # s
    <3>1. pc'[u] = pc[u] /\ job'[u] = job[u]
      BY <2>2 DEF Functions4, Check
    <3> QED BY <1>1, <3>1 DEF LoadedInv, JobInv
  <2> QED BY <2>1, <2>2
<1> QED BY <1>2, <1>3, <1>4

(* Closing a session keeps what the others hold, whatever was committed,   *)
(* as long as the Sale rows only grow.                                     *)
LEMMA CloseKeepsCounts ==
  ASSUME CountInv, NEW s \in Sessions, Close(s),
         Len(sales') \in Nat, Len(sales) <= Len(sales'),
         \A i \in 1..Len(sales) : sales'[i] = sales[i]
  PROVE  Functions4' /\ \A u \in Sessions : LoadedInv(u)' /\ JobInv(u)'
<1> USE DEF CountInv
<1>1. Functions4'
  BY DEF Functions4, Close
<1>2. ASSUME NEW u \in Sessions PROVE LoadedInv(u)' /\ JobInv(u)'
  <2>1. CASE u = s
    BY <2>1 DEF Functions4, Close, LoadedInv, JobInv
  <2>2. CASE u # s
    <3>1. pc'[u] = pc[u] /\ job'[u] = job[u] /\ new'[u] = new[u] /\ seen'[u] = seen[u]
      BY <2>2 DEF Functions4, Close
    <3>2. JobInv(u)'
      BY <3>1 DEF JobInv
    <3>3. Len(sales) \in Nat
      BY DEF SalesInv
    <3>4. ASSUME pc[u] = "loaded"
          PROVE  \A i \in 1..Len(seen[u].back) :
                   sales'[i] = sales[i] /\ new[u].back[i] <= sales[i].quantity
      <4>1. Len(seen[u].back) \in Nat /\ Len(seen[u].back) <= Len(sales)
            /\ \A i \in 1..Len(seen[u].back) : new[u].back[i] <= sales[i].quantity
        BY <3>4 DEF LoadedInv
      <4> QED BY <3>3, <4>1
    <3>5. LoadedInv(u)'
      <4> SUFFICES ASSUME pc'[u] = "loaded" PROVE LoadedInv(u)'
        BY DEF LoadedInv
      <4>1. pc[u] = "loaded" /\ LoadedInv(u)
        BY <3>1
      <4> QED BY <3>1, <3>3, <3>4, <4>1 DEF LoadedInv
    <3> QED BY <3>2, <3>5
  <2> QED BY <2>1, <2>2
<1> QED BY <1>1, <1>2

LEMMA CommitKeepsCounts ==
  ASSUME CountInv, NEW s \in Sessions, Commit(s)
  PROVE  CountInv'
<1> DEFINE n == Len(sales)
           kept == [i \in DOMAIN sales |->
                      IF TakenBack(s, i) = 0 THEN back[i] ELSE new[s].back[i]]
           row == [order |-> job[s].order, quantity |-> job[s].n, cost |-> job[s].cost]
           sold == job[s].kind = "sale"
<1>1. /\ sales' = IF sold THEN Append(sales, row) ELSE sales
      /\ back' = IF sold THEN Append(kept, 0) ELSE kept
      /\ qty' = Written(qty, seen[s].qty, new[s].qty)
      /\ pc[s] = "loaded" /\ Close(s)
  BY DEF Commit
<1>2. n \in Nat /\ DOMAIN sales = 1..n /\ DOMAIN back = 1..n
  BY DEF CountInv, SalesInv
<1>3. LoadedInv(s) /\ JobInv(s)
  BY DEF CountInv
<1>4. \A i \in 1..n : kept[i] \in Nat /\ kept[i] <= sales[i].quantity
  <2> SUFFICES ASSUME NEW i \in 1..n
               PROVE  kept[i] \in Nat /\ kept[i] <= sales[i].quantity
    OBVIOUS
  <2>1. CASE TakenBack(s, i) = 0
    BY <1>2, <2>1 DEF CountInv, SalesInv, NeverOverReturned
  <2>2. CASE TakenBack(s, i) # 0
    <3>1. i \in DOMAIN seen[s].back
      BY <2>2 DEF TakenBack
    <3>2. i \in 1..Len(seen[s].back) /\ new[s].back[i] \in Nat
          /\ new[s].back[i] <= sales[i].quantity
      <4>1. seen[s].back \in Seq(Nat) /\ new[s].back \in Seq(Nat)
            /\ Len(new[s].back) = Len(seen[s].back)
        BY <1>1, <1>3 DEF LoadedInv
      <4>2. i \in 1..Len(seen[s].back)
        BY <3>1, <4>1
      <4>3. new[s].back[i] \in Nat
        BY <4>1, <4>2, ElementsAreNat
      <4> QED BY <1>1, <1>3, <4>2, <4>3 DEF LoadedInv
    <3> QED BY <1>2, <2>2, <3>2
  <2> QED BY <2>1, <2>2
<1>5. kept \in Seq(Nat) /\ Len(kept) = n
  BY <1>2, <1>4
<1>6. qty' \in Nat
  BY <1>1, <1>3 DEF Written, LoadedInv, CountInv
<1>7. SalesInv' /\ NeverOverReturned'
      /\ Len(sales') \in Nat /\ n <= Len(sales') /\ \A i \in 1..n : sales'[i] = sales[i]
  <2>1. CASE ~sold
    <3>1. sales' = sales /\ back' = kept
      BY <1>1, <2>1
    <3>2. SalesInv'
      BY <3>1, <1>5 DEF CountInv, SalesInv
    <3>3. NeverOverReturned'
      BY <3>1, <1>2, <1>4 DEF NeverOverReturned
    <3> QED BY <3>1, <3>2, <3>3, <1>2
  <2>2. CASE sold
    <3>1. sales' = Append(sales, row) /\ back' = Append(kept, 0)
      BY <1>1, <2>2
    <3>2. row.quantity \in Nat \ {0}
      BY <1>1, <1>3, <2>2 DEF JobInv
    <3>3. PICK S : sales \in Seq(S)
      BY DEF CountInv, SalesInv
    <3>4. sales' \in Seq(S \cup {row}) /\ Len(sales') = n + 1
          /\ sales'[n + 1] = row /\ \A i \in 1..n : sales'[i] = sales[i]
      <4>1. sales \in Seq(S \cup {row})
        BY <3>3
      <4> HIDE DEF row
      <4> QED BY <3>1, <4>1
    <3>5. back' \in Seq(Nat) /\ Len(back') = n + 1
          /\ back'[n + 1] = 0 /\ \A i \in 1..n : back'[i] = kept[i]
      <4> HIDE DEF kept
      <4> QED BY <3>1, <1>5, <1>2
    <3>6. DOMAIN sales' = 1..(n + 1)
      BY <3>4
    <3>7. \A i \in 1..(n + 1) : sales'[i].quantity \in Nat \ {0} /\ back'[i] <= sales'[i].quantity
      <4> SUFFICES ASSUME NEW i \in 1..(n + 1)
                   PROVE sales'[i].quantity \in Nat \ {0} /\ back'[i] <= sales'[i].quantity
        OBVIOUS
      <4>1. CASE i = n + 1
        BY <4>1, <3>2, <3>4, <3>5
      <4>2. CASE i \in 1..n
        <5>1. sales[i].quantity \in Nat \ {0} /\ kept[i] <= sales[i].quantity
          BY <4>2, <1>2, <1>4 DEF CountInv, SalesInv
        <5> HIDE DEF kept
        <5> QED BY <5>1, <4>2, <3>4, <3>5
      <4> QED BY <4>1, <4>2, <1>2
    <3> QED BY <3>4, <3>5, <3>6, <3>7, <1>2 DEF SalesInv, NeverOverReturned
  <2> QED BY <2>1, <2>2
<1>8. Functions4' /\ \A u \in Sessions : LoadedInv(u)' /\ JobInv(u)'
  BY <1>1, <1>7, CloseKeepsCounts
<1> QED BY <1>6, <1>7, <1>8 DEF CountInv

LEMMA CountInvInit == Init => CountInv
<1> SUFFICES ASSUME Init PROVE CountInv
  OBVIOUS
<1>1. \A s \in Sessions : pc[s] = "idle"
  BY DEF Init
<1>2. SalesInv /\ NeverOverReturned
  BY DEF Init, SalesInv, NeverOverReturned
<1> QED BY <1>1, <1>2 DEF Init, CountInv, Functions4, LoadedInv, JobInv

LEMMA CountInvStep == CountInv /\ [Next]_vars => CountInv'
<1> SUFFICES ASSUME CountInv, [Next]_vars PROVE CountInv'
  OBVIOUS
<1>1. /\ Current.qty = qty /\ Current.back = back /\ qty \in Nat
      /\ back \in Seq(Nat) /\ Len(back) = Len(sales)
      /\ \A i \in 1..Len(sales) : back[i] <= sales[i].quantity
  BY DEF Current, Row, CountInv, SalesInv, NeverOverReturned
<1>2. \A n \in Nat : \A p : /\ Delivered(Current, n, p).qty \in Nat
                            /\ Delivered(Current, n, p).back = back
                            /\ Consumed(Current, n).qty \in Nat
                            /\ Consumed(Current, n).back = back
                            /\ Corrected(Current, n).qty \in Nat
                            /\ Corrected(Current, n).back = back
  BY <1>1, RowsKeepCounts
<1>3. ASSUME NEW s \in Sessions, SessionStep(s) PROVE CountInv'
  <2>1. CASE LoadPurchase(s)
    <3>1. PICK n \in Pieces, p \in Prices :
            Load(s, Job("purchase", None, None, n, 0), Delivered(Current, n, p))
      BY <2>1 DEF LoadPurchase
    <3>2. n \in Nat
      BY InputsAssumption
    <3>3. Delivered(Current, n, p).qty \in Nat /\ Delivered(Current, n, p).back = back
      BY <1>2, <3>2
    <3> DEFINE j == Job("purchase", None, None, n, 0)
    <3>4. j.n = n /\ j.kind = "purchase"
      BY DEF Job
    <3> HIDE DEF j
    <3> QED BY <1>1, <3>1, <3>2, <3>3, <3>4, LoadKeepsCounts DEF j
  <2>2. CASE LoadSale(s)
    <3>1. PICK o \in Orders :
            Load(s, Job("sale", o, None, OrderQty[o], CostOf(Current, OrderQty[o])),
                    Consumed(Current, OrderQty[o]))
      BY <2>2 DEF LoadSale
    <3>2. OrderQty[o] \in Nat /\ OrderQty[o] > 0
      BY OrdersAssumption
    <3>3. /\ Consumed(Current, OrderQty[o]).qty \in Nat
          /\ Consumed(Current, OrderQty[o]).back = back
      BY <1>2, <3>2
    <3> DEFINE j == Job("sale", o, None, OrderQty[o], CostOf(Current, OrderQty[o]))
    <3>4. j.n = OrderQty[o]
      BY DEF Job
    <3> HIDE DEF j
    <3> QED BY <1>1, <3>1, <3>2, <3>3, <3>4, LoadKeepsCounts DEF j
  <2>3. CASE LoadCorrection(s)
    <3>1. PICK target \in Targets :
            Load(s, Job("correction", None, None, 0, 0), Corrected(Current, target))
      BY <2>3 DEF LoadCorrection
    <3>2. target \in Nat
      BY InputsAssumption
    <3>3. Corrected(Current, target).qty \in Nat /\ Corrected(Current, target).back = back
      BY <1>2, <3>2
    <3> DEFINE j == Job("correction", None, None, 0, 0)
    <3>4. j.n = 0 /\ j.kind = "correction"
      BY DEF Job
    <3> HIDE DEF j
    <3> QED BY <1>1, <3>1, <3>2, <3>3, <3>4, LoadKeepsCounts DEF j
  <2>4. CASE LoadPricedCorrection(s)
    <3>1. PICK target \in Targets, p \in Prices :
            /\ target > qty
            /\ Load(s, Job("purchase", None, None, target - qty, 0),
                       Delivered(Current, target - qty, p))
      BY <2>4 DEF LoadPricedCorrection
    <3>2. target - qty \in Nat
      BY <1>1, <3>1, InputsAssumption
    <3>3. /\ Delivered(Current, target - qty, p).qty \in Nat
          /\ Delivered(Current, target - qty, p).back = back
      BY <1>2, <3>2
    <3> DEFINE j == Job("purchase", None, None, (target - qty), 0)
    <3>4. j.n = (target - qty) /\ j.kind = "purchase"
      BY DEF Job
    <3> HIDE DEF j
    <3> QED BY <1>1, <3>1, <3>2, <3>3, <3>4, LoadKeepsCounts DEF j
  <2>5. CASE CheckReturn(s)
    <3>1. PICK r \in Returns :
            Check(s, Job("restock", ReturnOf[r].order, r, ReturnOf[r].n, 0))
      BY <2>5 DEF CheckReturn
    <3>2. ReturnOf[r].n \in Nat \ {0}
      BY ReturnsAssumption
    <3> QED BY <3>1, <3>2, CheckKeepsCounts DEF Job
  <2>6. CASE CheckCancel(s)
    <3>1. PICK o \in Orders : Check(s, Job("cancel", o, None, OrderQty[o], 0))
      BY <2>6 DEF CheckCancel
    <3>2. OrderQty[o] \in Nat \ {0}
      BY OrdersAssumption
    <3> QED BY <3>1, <3>2, CheckKeepsCounts DEF Job
  <2>7. CASE LoadRestock(s)
    <3>1. pc[s] = "checked" /\ JobInv(s)
      BY <2>7 DEF LoadRestock, CountInv
    <3>2. job[s].n \in Nat /\ job[s].n > 0 /\ job[s].kind \in {"restock", "cancel"}
      BY <3>1 DEF JobInv
    <3>3. CASE job[s].kind = "cancel" /\ SalesOf(job[s].order) = {}
      <4>1. Load(s, Job("cancel", job[s].order, None, 0, 0), Current)
        BY <2>7, <3>3 DEF LoadRestock
      <4> QED BY <1>1, <4>1, LoadKeepsCounts DEF Job
    <3>4. CASE ~(job[s].kind = "cancel" /\ SalesOf(job[s].order) = {})
      <4>1. PICK t \in Allocations(Current, job[s].order, job[s].n) :
              Load(s, job[s], Restocked(Current, job[s].n, t))
        BY <2>7, <3>4 DEF LoadRestock
      <4>2. /\ Restocked(Current, job[s].n, t).qty = qty + job[s].n
            /\ Restocked(Current, job[s].n, t).back \in Seq(Nat)
            /\ Len(Restocked(Current, job[s].n, t).back) = Len(sales)
            /\ \A i \in 1..Len(sales) :
                 Restocked(Current, job[s].n, t).back[i] <= sales[i].quantity
        BY <3>2, RestockKeepsCounts
      <4>3. qty + job[s].n \in Nat
        BY <1>1, <3>2
      <4> QED BY <3>2, <4>1, <4>2, <4>3, LoadKeepsCounts
    <3> QED BY <3>3, <3>4
  <2>8. CASE Commit(s)
    BY <2>8, CommitKeepsCounts
  <2>9. CASE Abort(s)
    <3>1. Close(s) /\ UNCHANGED <<qty, sales, back>>
      BY <2>9 DEF Abort, db
    <3>2. Len(sales) \in Nat
      BY DEF CountInv, SalesInv
    <3>3. Functions4' /\ \A u \in Sessions : LoadedInv(u)' /\ JobInv(u)'
      BY <3>1, <3>2, CloseKeepsCounts
    <3> QED BY <3>1, <3>3 DEF CountInv, SalesInv, NeverOverReturned
  <2> QED BY <1>3, <2>1, <2>2, <2>3, <2>4, <2>5, <2>6, <2>7, <2>8, <2>9 DEF SessionStep
<1>4. ASSUME NEW r \in Returns, DeliverReturn(r) PROVE CountInv'
  BY <1>4 DEF DeliverReturn, CountInv, SalesInv, NeverOverReturned, Functions4,
              LoadedInv, JobInv
<1>5. CASE UNCHANGED vars
  BY <1>5 DEF vars, db, CountInv, SalesInv, NeverOverReturned, Functions4, LoadedInv, JobInv
<1> QED BY <1>3, <1>4, <1>5 DEF Next

THEOREM CountInvariance == Spec => []CountInv
<1>1. Init => CountInv
  BY CountInvInit
<1>2. CountInv /\ [Next]_vars => CountInv'
  BY CountInvStep
<1> QED BY <1>1, <1>2, PTL DEF Spec

(* However many sessions, returns and cancellations overlap, no Sale row   *)
(* has more pieces returned than it sold: quantity_returned is bounded by  *)
(* the quantity it is compared with in _restore_stock_for_return_item.     *)
THEOREM ReturnsBounded == Spec => []NeverOverReturned
<1>1. CountInv => NeverOverReturned
  BY DEF CountInv
<1> QED BY <1>1, CountInvariance, PTL

-----------------------------------------------------------------------------
(* What a session makes of the row it has seen is worth nothing when it is *)
(* empty, unless the session leaves the row as it was.                     *)
Worthless(row) == row.qty = 0 => row.val = 0
Kept(row, old) == row.qty = old.qty /\ row.val = old.val

WorthOf(s) == pc[s] = "loaded" => Kept(new[s], seen[s]) \/ Worthless(new[s])
WorthInv == EmptyIsWorthless /\ \A s \in Sessions : WorthOf(s)

LEMMA RowsKeepWorthless ==
  ASSUME NEW row, row.qty \in Nat, NEW n \in Nat, NEW p
  PROVE  /\ n > 0 => Worthless(Delivered(row, n, p))
         /\ Kept(Consumed(row, n), row) \/ Worthless(Consumed(row, n))
         /\ n # row.qty => Worthless(Corrected(row, n))
<1>1. n > 0 => Worthless(Delivered(row, n, p))
  BY DEF Delivered, Row, Worthless
<1>2. \A k \in 1..row.qty : Worthless(Without(row, k))
  BY DEF Without, Row, Worthless
<1>3. Kept(Consumed(row, n), row) \/ Worthless(Consumed(row, n))
  <2>1. Taken(row, n) \in 0..row.qty
    BY DEF Taken, Min2
  <2> QED BY <1>2, <2>1 DEF Consumed, Kept
<1>4. n # row.qty => Worthless(Corrected(row, n))
  <2>1. CASE n > row.qty
    BY <2>1 DEF Corrected, AtAverage, Row, Worthless
  <2>2. CASE n < row.qty
    <3>1. Corrected(row, n) = Without(row, row.qty - n) /\ row.qty - n \in 1..row.qty
      BY <2>2 DEF Corrected
    <3> QED BY <1>2, <3>1
  <2> QED BY <2>1, <2>2
<1> QED BY <1>1, <1>3, <1>4

LEMMA LoadKeepsWorth ==
  ASSUME CountInv, WorthInv, NEW s \in Sessions, NEW j, NEW after, Load(s, j, after),
         Kept(after, Current) \/ Worthless(after)
  PROVE  WorthInv'
<1>1. UNCHANGED <<qty, val, torn>>
  BY DEF Load, db, history
<1>2. ASSUME NEW u \in Sessions PROVE WorthOf(u)'
  <2>1. CASE u = s
    BY <2>1 DEF WorthOf, Load, CountInv, Functions4
  <2>2. CASE u # s
    BY <2>2 DEF WorthInv, WorthOf, Load, CountInv, Functions4
  <2> QED BY <2>1, <2>2
<1> QED BY <1>1, <1>2 DEF WorthInv, EmptyIsWorthless

LEMMA CloseKeepsWorth ==
  ASSUME CountInv, WorthInv, NEW s \in Sessions, Close(s), NEW u \in Sessions PROVE WorthOf(u)'
<1>1. CASE u = s
  BY <1>1 DEF WorthOf, Close, CountInv, Functions4
<1>2. CASE u # s
  BY <1>2 DEF WorthInv, WorthOf, Close, CountInv, Functions4
<1> QED BY <1>1, <1>2

(* A commit that changes the row either writes what the session made of it *)
(* or was overtaken.                                                       *)
LEMMA CommitKeepsWorth ==
  ASSUME CountInv, WorthInv, NEW s \in Sessions, Commit(s)
  PROVE  WorthInv'
<1>1. /\ pc[s] = "loaded" /\ Close(s)
      /\ qty' = Written(qty, seen[s].qty, new[s].qty)
      /\ val' = Written(val, seen[s].val, new[s].val)
      /\ torn' = IF qty' = qty /\ val' = val THEN torn ELSE Overtaken(s)
  BY DEF Commit
<1>2. CASE qty' = qty /\ val' = val
  BY <1>1, <1>2, CloseKeepsWorth DEF WorthInv, EmptyIsWorthless
<1>3. CASE ~(qty' = qty /\ val' = val) /\ ~Overtaken(s)
  <2>1. qty' = new[s].qty /\ val' = new[s].val /\ ~Kept(new[s], seen[s])
    BY <1>1, <1>3 DEF Overtaken, Written, Kept
  <2>2. Worthless(new[s])
    BY <1>1, <2>1 DEF WorthInv, WorthOf
  <2> QED BY <1>1, <2>1, <2>2, CloseKeepsWorth DEF WorthInv, EmptyIsWorthless, Worthless
<1>4. CASE ~(qty' = qty /\ val' = val) /\ Overtaken(s)
  <2>1. torn' = Overtaken(s)
    BY <1>1, <1>4
  <2> QED BY <1>1, <1>4, <2>1, CloseKeepsWorth DEF WorthInv, EmptyIsWorthless
<1> QED BY <1>2, <1>3, <1>4

LEMMA WorthInvStep == CountInv /\ WorthInv /\ [Next]_vars => WorthInv'
<1> SUFFICES ASSUME CountInv, WorthInv, [Next]_vars PROVE WorthInv'
  OBVIOUS
<1>1. Current.qty = qty /\ qty \in Nat
  BY DEF Current, Row, CountInv
<1>2. \A n \in Nat : \A p :
        /\ n > 0 => Worthless(Delivered(Current, n, p))
        /\ Kept(Consumed(Current, n), Current) \/ Worthless(Consumed(Current, n))
        /\ n # qty => Worthless(Corrected(Current, n))
  BY <1>1, RowsKeepWorthless
<1>3. ASSUME NEW s \in Sessions, SessionStep(s) PROVE WorthInv'
  <2>1. CASE LoadPurchase(s)
    <3>1. PICK n \in Pieces, p \in Prices :
            Load(s, Job("purchase", None, None, n, 0), Delivered(Current, n, p))
      BY <2>1 DEF LoadPurchase
    <3>2. n \in Nat /\ n > 0
      BY InputsAssumption
    <3> QED BY <1>2, <3>1, <3>2, LoadKeepsWorth
  <2>2. CASE LoadSale(s)
    <3>1. PICK o \in Orders :
            Load(s, Job("sale", o, None, OrderQty[o], CostOf(Current, OrderQty[o])),
                    Consumed(Current, OrderQty[o]))
      BY <2>2 DEF LoadSale
    <3>2. OrderQty[o] \in Nat
      BY OrdersAssumption
    <3> QED BY <1>2, <3>1, <3>2, LoadKeepsWorth
  <2>3. CASE LoadCorrection(s)
    <3>1. PICK target \in Targets :
            /\ target # qty
            /\ Load(s, Job("correction", None, None, 0, 0), Corrected(Current, target))
      BY <2>3 DEF LoadCorrection
    <3>2. target \in Nat
      BY InputsAssumption
    <3> QED BY <1>2, <3>1, <3>2, LoadKeepsWorth
  <2>4. CASE LoadPricedCorrection(s)
    <3>1. PICK target \in Targets, p \in Prices :
            /\ target > qty
            /\ Load(s, Job("purchase", None, None, target - qty, 0),
                       Delivered(Current, target - qty, p))
      BY <2>4 DEF LoadPricedCorrection
    <3>2. target - qty \in Nat /\ target - qty > 0
      BY <1>1, <3>1, InputsAssumption
    <3>3. Worthless(Delivered(Current, target - qty, p))
      BY <1>2, <3>2
    <3> QED BY <3>1, <3>3, LoadKeepsWorth
  <2>5. CASE CheckReturn(s) \/ CheckCancel(s)
    <3>1. PICK j : Check(s, j)
      BY <2>5 DEF CheckReturn, CheckCancel
    <3>2. UNCHANGED <<qty, val, torn, seen, new>>
      BY <3>1 DEF Check, db, history
    <3>3. \A u \in Sessions : pc'[u] = "loaded" => pc[u] = "loaded"
      BY <3>1 DEF Check, CountInv, Functions4
    <3> QED BY <3>2, <3>3 DEF WorthInv, WorthOf, EmptyIsWorthless
  <2>6. CASE LoadRestock(s)
    <3>1. pc[s] = "checked" /\ JobInv(s)
      BY <2>6 DEF LoadRestock, CountInv
    <3>2. job[s].n \in Nat /\ job[s].n > 0
      BY <3>1 DEF JobInv
    <3>3. CASE job[s].kind = "cancel" /\ SalesOf(job[s].order) = {}
      <4>1. Load(s, Job("cancel", job[s].order, None, 0, 0), Current)
        BY <2>6, <3>3 DEF LoadRestock
      <4> QED BY <4>1, LoadKeepsWorth DEF Kept
    <3>4. CASE ~(job[s].kind = "cancel" /\ SalesOf(job[s].order) = {})
      <4>1. PICK t \in Allocations(Current, job[s].order, job[s].n) :
              Load(s, job[s], Restocked(Current, job[s].n, t))
        BY <2>6, <3>4 DEF LoadRestock
      <4>2. Restocked(Current, job[s].n, t).qty = qty + job[s].n
        BY <3>2, RestockKeepsCounts
      <4>3. Worthless(Restocked(Current, job[s].n, t))
        BY <1>1, <3>2, <4>2 DEF Worthless
      <4> QED BY <4>1, <4>3, LoadKeepsWorth
    <3> QED BY <3>3, <3>4
  <2>7. CASE Commit(s)
    BY <2>7, CommitKeepsWorth
  <2>8. CASE Abort(s)
    BY <2>8, CloseKeepsWorth DEF Abort, db, history, WorthInv, EmptyIsWorthless
  <2> QED BY <1>3, <2>1, <2>2, <2>3, <2>4, <2>5, <2>6, <2>7, <2>8 DEF SessionStep
<1>4. ASSUME NEW r \in Returns, DeliverReturn(r) PROVE WorthInv'
  BY <1>4 DEF DeliverReturn, history, WorthInv, WorthOf, EmptyIsWorthless
<1>5. CASE UNCHANGED vars
  BY <1>5 DEF vars, db, history, WorthInv, WorthOf, EmptyIsWorthless
<1> QED BY <1>3, <1>4, <1>5 DEF Next

(* However sessions overlap, a variant without pieces has no value, unless *)
(* the session that changed it last had been overtaken: of                 *)
(* models/products.py:116, what READ COMMITTED leaves.                     *)
THEOREM EmptiedIsWorthless == Spec => []EmptyIsWorthless
<1>1. Init => WorthInv
  BY DEF Init, WorthInv, WorthOf, EmptyIsWorthless
<1>2. CountInv /\ WorthInv /\ [Next]_vars => WorthInv'
  BY WorthInvStep
<1>3. WorthInv => EmptyIsWorthless
  BY DEF WorthInv
<1> QED BY <1>1, <1>2, <1>3, CountInvariance, PTL DEF Spec

-----------------------------------------------------------------------------
(* Sums over the Sale rows.  MapThenSumSet chooses a function from sets to *)
(* sums; that there is one, and that its values are numbers, takes an      *)
(* induction over the size of the set, with a set of numbers in the place  *)
(* of a predicate.                                                         *)
LEMMA Least ==
  ASSUME NEW T, T \subseteq Nat, T # {}
  PROVE  \E m \in T : \A k \in T : m <= k
<1> DEFINE R == OpToRel(<, Nat)
<1>1. IsWellFoundedOn(R, Nat)
  BY NatLessThanWellFounded
<1>2. \A m, k \in Nat : k < m => <<k, m>> \in R
  BY DEF OpToRel
<1> HIDE DEF R
<1>3. PICK m \in T : \A k \in T : ~ (<<k, m>> \in R)
  BY <1>1, WFMin
<1>4. \A k \in T : ~ (k < m)
  BY <1>2, <1>3
<1>5. \A k \in T : m <= k
  BY <1>4
<1> QED BY <1>5

LEMMA Counting ==
  ASSUME NEW S, 0 \in S, \A n \in Nat : n \in S => n + 1 \in S
  PROVE  Nat \subseteq S
<1> SUFFICES ASSUME Nat \ S # {} PROVE FALSE
  OBVIOUS
<1>1. PICK m \in Nat \ S : \A k \in Nat \ S : m <= k
  BY Least
<1>2. m \in Nat /\ m # 0 /\ m - 1 \in Nat
  BY <1>1
<1>3. m - 1 \notin Nat \ S
  BY <1>1, <1>2
<1> QED BY <1>1, <1>2, <1>3

(* g gives the sum of f over every subset of D, as MapThenSumSet takes it. *)
One(s) == CHOOSE x \in s : TRUE
Sums(g, f, D) ==
  g = [s \in SUBSET D |-> IF s = {} THEN 0 ELSE f[One(s)] + g[s \ {One(s)}]]

LEMMA Smaller ==
  ASSUME NEW D, IsFiniteSet(D), NEW s \in SUBSET D, s # {}
  PROVE  /\ One(s) \in s /\ s \ {One(s)} \in SUBSET D
         /\ Cardinality(s) \in Nat /\ Cardinality(s \ {One(s)}) = Cardinality(s) - 1
<1>1. One(s) \in s
  BY DEF One
<1>2. IsFiniteSet(s)
  BY FS_Subset
<1> QED BY <1>1, <1>2, FS_RemoveElement, FS_CardinalityType

LEMMA SumsExist ==
  ASSUME NEW D, IsFiniteSet(D), NEW f
  PROVE  \E g : Sums(g, f, D)
<1> DEFINE Body(g, s) == IF s = {} THEN 0 ELSE f[One(s)] + g[s \ {One(s)}]
           UpTo(g, n) == \A s \in SUBSET D : Cardinality(s) <= n => g[s] = Body(g, s)
           S == {n \in Nat : \E g : UpTo(g, n)}
<1>1. 0 \in S
  <2> DEFINE g == [s \in SUBSET D |-> 0]
  <2>1. UpTo(g, 0)
    BY FS_Subset, FS_EmptySet, FS_CardinalityType
  <2> QED BY <2>1
<1>2. ASSUME NEW n \in Nat, n \in S PROVE n + 1 \in S
  <2>1. PICK g : UpTo(g, n)
    BY <1>2
  <2> DEFINE h == [s \in SUBSET D |-> Body(g, s)]
  <2>2. ASSUME NEW s \in SUBSET D, Cardinality(s) <= n + 1, s # {}
        PROVE  g[s \ {One(s)}] = h[s \ {One(s)}]
    <3>1. s \ {One(s)} \in SUBSET D /\ Cardinality(s \ {One(s)}) <= n
      BY <2>2, Smaller
    <3>2. g[s \ {One(s)}] = Body(g, s \ {One(s)})
      BY <2>1, <3>1
    <3>3. h[s \ {One(s)}] = Body(g, s \ {One(s)})
      BY <3>1
    <3> QED BY <3>2, <3>3
  <2>3. UpTo(h, n + 1)
    BY <2>2
  <2> HIDE DEF UpTo, h
  <2>4. \E k : UpTo(k, n + 1)
    BY <2>3
  <2> QED BY <2>4
<1> HIDE DEF S
<1>3. Cardinality(D) \in S
  BY <1>1, <1>2, Counting, FS_CardinalityType
<1>4. PICK g : UpTo(g, Cardinality(D))
  BY <1>3 DEF S
<1>5. \A s \in SUBSET D : g[s] = Body(g, s)
  BY <1>4, FS_Subset
<1> DEFINE h == [s \in SUBSET D |-> g[s]]
<1>6. \A s \in SUBSET D : h[s] = Body(h, s)
  BY <1>5, Smaller
<1>7. h = [s \in SUBSET D |-> Body(h, s)]
  BY <1>6
<1> QED BY <1>7 DEF Sums

(* The sum of numbers is a number. *)
LEMMA SumsType ==
  ASSUME NEW D, IsFiniteSet(D), NEW f, NEW g, Sums(g, f, D), \A x \in D : f[x] \in Nat
  PROVE  g[D] \in Nat
<1> DEFINE S == {n \in Nat : \A s \in SUBSET D : Cardinality(s) = n => g[s] \in Nat}
<1>1. \A s \in SUBSET D : g[s] = IF s = {} THEN 0 ELSE f[One(s)] + g[s \ {One(s)}]
  BY DEF Sums
<1>2. 0 \in S
  BY <1>1, FS_Subset, FS_EmptySet
<1>3. ASSUME NEW n \in Nat, n \in S PROVE n + 1 \in S
  <2>1. ASSUME NEW s \in SUBSET D, Cardinality(s) = n + 1 PROVE g[s] \in Nat
    <3>1. CASE s = {}
      BY <1>1, <3>1
    <3>2. CASE s # {}
      <4>1. One(s) \in D /\ g[s \ {One(s)}] \in Nat
        BY <1>3, <2>1, <3>2, Smaller
      <4> QED BY <1>1, <3>2, <4>1
    <3> QED BY <3>1, <3>2
  <2> QED BY <2>1
<1> HIDE DEF S
<1>4. Cardinality(D) \in S
  BY <1>2, <1>3, Counting, FS_CardinalityType
<1> QED BY <1>4 DEF S

(* What a return restores at cost is a number when each part of it is.     *)
LEMMA CostsBackType ==
  ASSUME NEW t, IsFiniteSet(DOMAIN sales), \A i \in DOMAIN sales : CostBack(i, t[i]) \in Nat
  PROVE  CostsBack(t) \in Nat
<1> DEFINE D == DOMAIN sales
           f == [i \in D |-> CostBack(i, t[i])]
           E(g) == g = [s \in SUBSET D |-> IF s = {} THEN 0
                          ELSE LET x == CHOOSE x \in s : TRUE IN CostBack(x, t[x]) + g[s \ {x}]]
           iter == CHOOSE g : E(g)
<1>1. CostsBack(t) = iter[D]
  BY DEF CostsBack, MapThenSumSet, MapThenFoldSet
<1>2. \A g : E(g) <=> Sums(g, f, D)
  <2>1. \A s \in SUBSET D : s # {} => One(s) \in D /\ f[One(s)] = CostBack(One(s), t[One(s)])
    BY Smaller
  <2> QED BY <2>1 DEF Sums, One
<1>3. \E g : E(g)
  <2> HIDE DEF D, f, E
  <2>1. IsFiniteSet(D)
    BY DEF D
  <2>2. PICK g : Sums(g, f, D)
    BY <2>1, SumsExist
  <2> QED BY <1>2, <2>2
<1>4. E(iter)
  BY <1>3
<1>5. Sums(iter, f, D)
  BY <1>2, <1>4
<1> QED BY <1>1, <1>5, SumsType

-----------------------------------------------------------------------------
(* The value of the row and of what its sales restored, whatever overlaps. *)

LEMMA RoundsToNearest ==
  ASSUME NEW a \in Nat, NEW b \in Nat \ {0}
  PROVE  /\ Rounded(a, b) \in Nat
         /\ 2 * (b * Rounded(a, b)) - 2 * a <= b
         /\ 2 * a - 2 * (b * Rounded(a, b)) < b
<1> DEFINE n == 2 * a + b
           d == 2 * b
<1>1. n \in Nat /\ d \in Nat \ {0}
  OBVIOUS
<1>2. Rounded(a, b) = n \div d
  BY DEF Rounded
<1>3. n \div d \in Nat /\ d * (n \div d) <= n /\ n < d * (n \div d) + d
  <2> HIDE DEF n, d
  <2> QED BY <1>1
<1>4. d * (n \div d) = 2 * (b * (n \div d))
  <2> HIDE DEF n
  <2> QED BY <1>3
<1> QED BY <1>2, <1>3, <1>4

SaleRow == [order : Orders, quantity : Nat \ {0}, cost : Nat]
Paid == [value : Nat, parts : Nat, crossed : BOOLEAN]

LoadedMoney(s) ==
  /\ seen[s].qty \in Nat /\ new[s].qty \in Nat /\ new[s].val \in Nat
  /\ pc[s] = "loaded" =>
       /\ \A i \in 1..Len(seen[s].back) : seen[s].back[i] <= new[s].back[i]
       /\ job[s].kind = "sale" => job[s].order \in Orders /\ job[s].cost \in Nat

MoneyInv ==
  /\ val \in Nat /\ sales \in Seq(SaleRow)
  /\ paidBack \in Seq(Paid) /\ Len(paidBack) = Len(sales) /\ torn \in BOOLEAN
  /\ ret \in [Returns -> {"none", "delivered", "restored"}]
  /\ status \in [Orders -> {"open", "anulowano", "zwrot"}]
  /\ opened \in 0..MaxTxns
  /\ \A s \in Sessions : LoadedMoney(s)

LEMMA RowsKeepMoney ==
  ASSUME NEW row, row.qty \in Nat, row.val \in Nat, NEW n \in Nat, NEW p \in Nat
  PROVE  /\ Delivered(row, n, p).val \in Nat
         /\ Consumed(row, n).val \in Nat
         /\ Corrected(row, n).val \in Nat
         /\ AtAverage(row, n).val \in Nat
         /\ CostOf(row, n) \in Nat
<1>1. \A k \in 0..row.qty : Without(row, k).val \in Nat
  <2> SUFFICES ASSUME NEW k \in 0..row.qty, k # row.qty PROVE Without(row, k).val \in Nat
    BY DEF Without, Row
  <2> DEFINE a == row.val * (row.qty - k)
  <2>1. a \in Nat /\ row.qty \in Nat \ {0}
    OBVIOUS
  <2>2. Without(row, k).val = Rounded(a, row.qty)
    BY DEF Without, Row
  <2> HIDE DEF a
  <2> QED BY <2>1, <2>2, RoundsToNearest
<1>2. \A m \in Nat : AtAverage(row, m).val \in Nat
  <2> SUFFICES ASSUME NEW m \in Nat PROVE AtAverage(row, m).val \in Nat
    OBVIOUS
  <2>1. CASE row.qty = 0
    BY <2>1 DEF AtAverage, Row
  <2>2. CASE row.qty # 0
    <3> DEFINE a == row.val * m
    <3>1. a \in Nat /\ row.qty \in Nat \ {0}
      BY <2>2
    <3>2. AtAverage(row, m).val = row.val + Rounded(a, row.qty)
      BY <2>2 DEF AtAverage, Row
    <3> HIDE DEF a
    <3>3. Rounded(a, row.qty) \in Nat
      BY <3>1, RoundsToNearest
    <3> QED BY <3>2, <3>3
  <2> QED BY <2>1, <2>2
<1>3. Taken(row, n) \in 0..row.qty
  BY DEF Taken, Min2
<1>4. CostOf(row, n) \in Nat
  <2>1. CASE row.qty = 0
    BY <2>1 DEF CostOf
  <2>2. CASE row.qty # 0
    <3> DEFINE a == row.val * Taken(row, n)
    <3>1. a \in Nat /\ row.qty \in Nat \ {0}
      BY <1>3, <2>2
    <3>2. CostOf(row, n) = Rounded(a, row.qty)
      BY <2>2 DEF CostOf
    <3> HIDE DEF a
    <3> QED BY <3>1, <3>2, RoundsToNearest
  <2> QED BY <2>1, <2>2
<1>5. Delivered(row, n, p).val \in Nat
  BY DEF Delivered, Row
<1>6. Consumed(row, n).val \in Nat
  BY <1>1, <1>3 DEF Consumed
<1>7. Corrected(row, n).val \in Nat
  <2>1. CASE n > row.qty
    BY <1>2, <2>1 DEF Corrected
  <2>2. CASE ~ (n > row.qty)
    <3>1. row.qty - n \in 0..row.qty /\ Corrected(row, n) = Without(row, row.qty - n)
      BY <2>2 DEF Corrected
    <3> QED BY <1>1, <3>1
  <2> QED BY <2>1, <2>2
<1> QED BY <1>2, <1>4, <1>5, <1>6, <1>7

(* Each part of a return restores a number of groszy.                      *)
LEMMA CostBackNear ==
  ASSUME sales \in Seq(SaleRow), NEW i \in DOMAIN sales, NEW k \in Nat
  PROVE  /\ CostBack(i, k) \in Nat
         /\ 2 * (sales[i].quantity * CostBack(i, k)) - 2 * (sales[i].cost * k) <= sales[i].quantity
         /\ 2 * (sales[i].cost * k) - 2 * (sales[i].quantity * CostBack(i, k)) < sales[i].quantity
<1> DEFINE a == sales[i].cost * k
<1>1. sales[i] \in SaleRow
  OBVIOUS
<1>2. sales[i].cost \in Nat /\ sales[i].quantity \in Nat \ {0}
  BY <1>1 DEF SaleRow
<1>3. a \in Nat
  BY <1>2
<1>4. CostBack(i, k) = Rounded(a, sales[i].quantity)
  BY DEF CostBack
<1> HIDE DEF a
<1>5. /\ CostBack(i, k) \in Nat
      /\ 2 * (sales[i].quantity * CostBack(i, k)) - 2 * a <= sales[i].quantity
      /\ 2 * a - 2 * (sales[i].quantity * CostBack(i, k)) < sales[i].quantity
  BY <1>2, <1>3, <1>4, RoundsToNearest
<1> QED BY <1>5 DEF a

LEMMA RestockKeepsMoney ==
  ASSUME CountInv, MoneyInv, NEW o, NEW n \in Nat, NEW t \in Allocations(Current, o, n)
  PROVE  /\ Restocked(Current, n, t).val \in Nat
         /\ \A i \in 1..Len(sales) : back[i] <= Restocked(Current, n, t).back[i]
<1> DEFINE charged == SumTo(t, Len(sales))
           b == [i \in DOMAIN sales |-> back[i] + t[i]]
           row == Row(qty + charged, val + CostsBack(t), b)
<1>1. DOMAIN sales = 1..Len(sales) /\ Len(sales) \in Nat /\ IsFiniteSet(DOMAIN sales)
  BY FS_Interval DEF MoneyInv
<1>2. charged \in 0..n /\ t \in [1..Len(sales) -> 0..n]
  BY <1>1 DEF Allocations
<1>3. CostsBack(t) \in Nat
  <2>1. \A i \in DOMAIN sales : CostBack(i, t[i]) \in Nat
    BY <1>1, <1>2, CostBackNear DEF MoneyInv
  <2> QED BY <1>1, <2>1, CostsBackType
<1>4. Current.qty = qty /\ Current.val = val /\ Current.back = back
  BY DEF Current, Row
<1>5. Restocked(Current, n, t) = AtAverage(row, n - charged)
  BY <1>4 DEF Restocked
<1>6. row.qty \in Nat /\ row.val \in Nat /\ n - charged \in Nat /\ row.back = b
  <2> HIDE DEF charged
  <2> QED BY <1>2, <1>3 DEF Row, CountInv, MoneyInv
<1>7. AtAverage(row, n - charged).val \in Nat
  <2> HIDE DEF row, charged
  <2>1. 0 \in Nat
    OBVIOUS
  <2> QED BY <1>6, <2>1, RowsKeepMoney
<1>8. Restocked(Current, n, t).back = b
  BY <1>5, <1>6 DEF AtAverage, Row
<1>9. \A i \in 1..Len(sales) : back[i] <= b[i]
  <2>1. \A i \in 1..Len(sales) : back[i] \in Nat /\ t[i] \in Nat
    BY <1>1, <1>2 DEF CountInv, SalesInv
  <2> QED BY <1>1, <2>1
<1> QED BY <1>5, <1>7, <1>8, <1>9

(* Loading keeps the values when the row to be written has one.            *)
LEMMA LoadKeepsMoney ==
  ASSUME CountInv, MoneyInv, NEW s \in Sessions, NEW j, NEW after, Load(s, j, after),
         after.qty \in Nat, after.val \in Nat,
         \A i \in 1..Len(sales) : back[i] <= after.back[i],
         j.kind = "sale" => j.order \in Orders /\ j.cost \in Nat,
         opened' \in 0..MaxTxns
  PROVE  MoneyInv'
<1>1. UNCHANGED <<db, history>>
  BY DEF Load
<1>2. ASSUME NEW u \in Sessions PROVE LoadedMoney(u)'
  <2>1. CASE u = s
    <3>1. pc'[s] = "loaded" /\ job'[s] = j /\ new'[s] = after /\ seen'[s] = Current
      BY DEF CountInv, Functions4, Load
    <3>2. Current.qty = qty /\ Current.back = back /\ qty \in Nat /\ Len(back) = Len(sales)
      BY DEF Current, Row, CountInv, SalesInv
    <3> QED BY <2>1, <3>1, <3>2 DEF LoadedMoney
  <2>2. CASE u # s
    <3>1. pc'[u] = pc[u] /\ job'[u] = job[u] /\ new'[u] = new[u] /\ seen'[u] = seen[u]
      BY <2>2 DEF CountInv, Functions4, Load
    <3> QED BY <3>1 DEF LoadedMoney, MoneyInv
  <2> QED BY <2>1, <2>2
<1> QED BY <1>1, <1>2 DEF MoneyInv, db, history

LEMMA CheckKeepsMoney ==
  ASSUME CountInv, MoneyInv, NEW s \in Sessions, NEW j, Check(s, j), opened' \in 0..MaxTxns
  PROVE  MoneyInv'
<1>1. UNCHANGED <<db, seen, new, history>>
  BY DEF Check
<1>2. ASSUME NEW u \in Sessions PROVE LoadedMoney(u)'
  <2>1. CASE u = s
    <3>1. pc'[s] = "checked"
      BY DEF CountInv, Functions4, Check
    <3> QED BY <1>1, <2>1, <3>1 DEF LoadedMoney, MoneyInv
  <2>2. CASE u # s
    <3>1. pc'[u] = pc[u] /\ job'[u] = job[u]
      BY <2>2 DEF CountInv, Functions4, Check
    <3> QED BY <1>1, <3>1 DEF LoadedMoney, MoneyInv
  <2> QED BY <2>1, <2>2
<1> QED BY <1>1, <1>2 DEF MoneyInv, db, history

LEMMA CloseKeepsMoney ==
  ASSUME CountInv, MoneyInv, NEW s \in Sessions, Close(s)
  PROVE  \A u \in Sessions : LoadedMoney(u)'
<1> SUFFICES ASSUME NEW u \in Sessions PROVE LoadedMoney(u)'
  OBVIOUS
<1>1. CASE u = s
  <2>1. pc'[s] = "idle" /\ seen'[s] = NoRow /\ new'[s] = NoRow
    BY DEF Close, CountInv, Functions4
  <2> QED BY <1>1, <2>1 DEF LoadedMoney, NoRow, Row
<1>2. CASE u # s
  <2>1. pc'[u] = pc[u] /\ job'[u] = job[u] /\ new'[u] = new[u] /\ seen'[u] = seen[u]
    BY <1>2 DEF Close, CountInv, Functions4
  <2> QED BY <2>1 DEF LoadedMoney, MoneyInv
<1> QED BY <1>1, <1>2

(* What a commit takes back is the number of pieces it newly charged.      *)
LEMMA TakenBackType ==
  ASSUME CountInv, MoneyInv, NEW s \in Sessions, pc[s] = "loaded", NEW i \in 1..Len(sales)
  PROVE  TakenBack(s, i) \in Nat
<1>1. LoadedInv(s) /\ LoadedMoney(s)
  BY DEF CountInv, MoneyInv
<1>2. CASE i \in DOMAIN seen[s].back
  <2>1. seen[s].back \in Seq(Nat) /\ new[s].back \in Seq(Nat)
        /\ Len(new[s].back) = Len(seen[s].back)
    BY <1>1 DEF LoadedInv
  <2>2. i \in 1..Len(seen[s].back) /\ i \in 1..Len(new[s].back)
    BY <1>2, <2>1
  <2>3. seen[s].back[i] \in Nat /\ new[s].back[i] \in Nat
    BY <2>1, <2>2, ElementsAreNat
  <2>4. seen[s].back[i] <= new[s].back[i]
    BY <1>1, <2>2 DEF LoadedMoney
  <2> QED BY <1>2, <2>3, <2>4 DEF TakenBack
<1> QED BY <1>2 DEF TakenBack

PaidAfter(s) ==
  [i \in DOMAIN sales |->
     IF TakenBack(s, i) = 0 THEN paidBack[i]
     ELSE [value |-> paidBack[i].value + CostBack(i, TakenBack(s, i)),
           parts |-> paidBack[i].parts + 1,
           crossed |-> paidBack[i].crossed \/ seen[s].back[i] # back[i]]]

LEMMA PaidAfterType ==
  ASSUME CountInv, MoneyInv, NEW s \in Sessions, pc[s] = "loaded"
  PROVE  PaidAfter(s) \in Seq(Paid) /\ Len(PaidAfter(s)) = Len(sales)
<1>1. DOMAIN sales = 1..Len(sales) /\ Len(sales) \in Nat
  BY DEF MoneyInv
<1>2. ASSUME NEW i \in 1..Len(sales) PROVE PaidAfter(s)[i] \in Paid
  <2>1. paidBack[i] \in Paid
    BY <1>1 DEF MoneyInv
  <2>2. TakenBack(s, i) \in Nat
    BY TakenBackType
  <2>3. CostBack(i, TakenBack(s, i)) \in Nat
    BY <1>1, <2>2, CostBackNear DEF MoneyInv
  <2> QED BY <1>1, <2>1, <2>3 DEF PaidAfter, Paid
<1>3. PaidAfter(s) = [i \in 1..Len(sales) |-> PaidAfter(s)[i]]
  BY <1>1 DEF PaidAfter
<1> QED BY <1>1, <1>2, <1>3

LEMMA CommitKeepsMoney ==
  ASSUME CountInv, MoneyInv, NEW s \in Sessions, Commit(s)
  PROVE  MoneyInv'
<1> DEFINE row == [order |-> job[s].order, quantity |-> job[s].n, cost |-> job[s].cost]
           none == [value |-> 0, parts |-> 0, crossed |-> FALSE]
           sold == job[s].kind = "sale"
<1>1. /\ sales' = IF sold THEN Append(sales, row) ELSE sales
      /\ paidBack' = IF sold THEN Append(PaidAfter(s), none) ELSE PaidAfter(s)
      /\ val' = Written(val, seen[s].val, new[s].val)
      /\ pc[s] = "loaded" /\ Close(s) /\ opened' = opened
  BY DEF Commit, PaidAfter, Close
<1>2. LoadedMoney(s) /\ JobInv(s)
  BY DEF CountInv, MoneyInv
<1>3. val' \in Nat
  BY <1>1, <1>2 DEF Written, LoadedMoney, MoneyInv
<1>4. PaidAfter(s) \in Seq(Paid) /\ Len(PaidAfter(s)) = Len(sales) /\ sales \in Seq(SaleRow)
  BY <1>1, PaidAfterType DEF MoneyInv
<1>5. sales' \in Seq(SaleRow) /\ paidBack' \in Seq(Paid) /\ Len(paidBack') = Len(sales')
  <2>1. CASE ~sold
    BY <1>1, <1>4, <2>1
  <2>2. CASE sold
    <3>1. row \in SaleRow
      BY <1>1, <1>2, <2>2 DEF LoadedMoney, JobInv, SaleRow
    <3>2. none \in Paid
      BY DEF Paid
    <3> HIDE DEF row, none
    <3> QED BY <1>1, <1>4, <2>2, <3>1, <3>2
  <2> QED BY <2>1, <2>2
<1>6. ret' \in [Returns -> {"none", "delivered", "restored"}]
  BY DEF Commit, MoneyInv
<1>7. status' \in [Orders -> {"open", "anulowano", "zwrot"}]
  BY DEF Commit, MoneyInv
<1>8. \A u \in Sessions : LoadedMoney(u)'
  BY <1>1, CloseKeepsMoney
<1>9. torn' \in BOOLEAN
  BY DEF Commit, MoneyInv, Overtaken
<1> QED BY <1>1, <1>3, <1>5, <1>6, <1>7, <1>8, <1>9 DEF MoneyInv

LEMMA MoneyInvStep == CountInv /\ MoneyInv /\ [Next]_vars => MoneyInv'
<1> SUFFICES ASSUME CountInv, MoneyInv, [Next]_vars PROVE MoneyInv'
  OBVIOUS
<1>1. /\ Current.qty = qty /\ Current.val = val /\ Current.back = back
      /\ qty \in Nat /\ val \in Nat
  BY DEF Current, Row, CountInv, MoneyInv
<1>2. \A i \in 1..Len(sales) : back[i] <= back[i]
  BY DEF CountInv, SalesInv
<1>3. \A n \in Nat : \A p : /\ Delivered(Current, n, p).qty \in Nat
                            /\ Delivered(Current, n, p).back = back
                            /\ Consumed(Current, n).qty \in Nat
                            /\ Consumed(Current, n).back = back
                            /\ Corrected(Current, n).qty \in Nat
                            /\ Corrected(Current, n).back = back
  BY <1>1, RowsKeepCounts
<1>4. \A n \in Nat : \A p \in Nat :
        /\ Delivered(Current, n, p).val \in Nat /\ Consumed(Current, n).val \in Nat
        /\ Corrected(Current, n).val \in Nat /\ CostOf(Current, n) \in Nat
  BY <1>1, RowsKeepMoney
<1>5. ASSUME NEW s \in Sessions, Open(s) PROVE opened' \in 0..MaxTxns
  BY <1>5, BoundAssumption DEF Open, MoneyInv
<1>6. ASSUME NEW s \in Sessions, SessionStep(s) PROVE MoneyInv'
  <2>1. CASE LoadPurchase(s)
    <3>1. PICK n \in Pieces, p \in Prices :
            /\ Open(s)
            /\ Load(s, Job("purchase", None, None, n, 0), Delivered(Current, n, p))
      BY <2>1 DEF LoadPurchase
    <3>2. n \in Nat /\ p \in Nat
      BY InputsAssumption
    <3> DEFINE j == Job("purchase", None, None, n, 0)
    <3>3. j.kind = "purchase"
      BY DEF Job
    <3>4. opened' \in 0..MaxTxns
      BY <1>5, <3>1
    <3> HIDE DEF j
    <3>5. Load(s, j, Delivered(Current, n, p))
      BY <3>1 DEF j
    <3> QED BY <1>2, <1>3, <1>4, <3>2, <3>3, <3>4, <3>5, LoadKeepsMoney
  <2>2. CASE LoadSale(s)
    <3>1. PICK o \in Orders :
            /\ Open(s)
            /\ Load(s, Job("sale", o, None, OrderQty[o], CostOf(Current, OrderQty[o])),
                       Consumed(Current, OrderQty[o]))
      BY <2>2 DEF LoadSale
    <3> DEFINE n == OrderQty[o]
               j == Job("sale", o, None, n, CostOf(Current, n))
    <3>2. n \in Nat
      BY OrdersAssumption
    <3>3. 0 \in Nat
      OBVIOUS
    <3>4. opened' \in 0..MaxTxns
      BY <1>5, <3>1
    <3>5. Load(s, j, Consumed(Current, n))
      BY <3>1
    <3> HIDE DEF n
    <3>6. j.order = o /\ j.cost = CostOf(Current, n)
      BY DEF Job
    <3> HIDE DEF j
    <3> QED BY <1>2, <1>3, <1>4, <3>2, <3>3, <3>4, <3>5, <3>6, LoadKeepsMoney
  <2>3. CASE LoadCorrection(s)
    <3>1. PICK target \in Targets :
            /\ Open(s)
            /\ Load(s, Job("correction", None, None, 0, 0), Corrected(Current, target))
      BY <2>3 DEF LoadCorrection
    <3> DEFINE j == Job("correction", None, None, 0, 0)
    <3>2. target \in Nat /\ 0 \in Nat
      BY InputsAssumption
    <3>3. j.kind = "correction"
      BY DEF Job
    <3>4. opened' \in 0..MaxTxns
      BY <1>5, <3>1
    <3> HIDE DEF j
    <3>5. Load(s, j, Corrected(Current, target))
      BY <3>1 DEF j
    <3> QED BY <1>2, <1>3, <1>4, <3>2, <3>3, <3>4, <3>5, LoadKeepsMoney
  <2>4. CASE LoadPricedCorrection(s)
    <3>1. PICK target \in Targets, p \in Prices :
            /\ Open(s) /\ target > qty
            /\ Load(s, Job("purchase", None, None, target - qty, 0),
                       Delivered(Current, target - qty, p))
      BY <2>4 DEF LoadPricedCorrection
    <3> DEFINE n == target - qty
               j == Job("purchase", None, None, n, 0)
    <3>2. n \in Nat /\ p \in Nat
      BY <1>1, <3>1, InputsAssumption
    <3>4. opened' \in 0..MaxTxns
      BY <1>5, <3>1
    <3>5. Load(s, j, Delivered(Current, n, p))
      BY <3>1
    <3> HIDE DEF n
    <3>6. j.kind = "purchase"
      BY DEF Job
    <3> HIDE DEF j
    <3> QED BY <1>2, <1>3, <1>4, <3>2, <3>4, <3>5, <3>6, LoadKeepsMoney
  <2>5. CASE CheckReturn(s)
    BY <1>5, <2>5, CheckKeepsMoney DEF CheckReturn
  <2>6. CASE CheckCancel(s)
    BY <1>5, <2>6, CheckKeepsMoney DEF CheckCancel
  <2>7. CASE LoadRestock(s)
    <3>1. pc[s] = "checked" /\ JobInv(s) /\ opened' \in 0..MaxTxns
      BY <2>7 DEF LoadRestock, CountInv, MoneyInv
    <3>2. job[s].n \in Nat /\ job[s].kind # "sale"
      BY <3>1 DEF JobInv
    <3>3. CASE job[s].kind = "cancel" /\ SalesOf(job[s].order) = {}
      <4> DEFINE j == Job("cancel", job[s].order, None, 0, 0)
      <4>1. Load(s, j, Current)
        BY <2>7, <3>3 DEF LoadRestock
      <4>2. j.kind = "cancel"
        BY DEF Job
      <4> HIDE DEF j
      <4> QED BY <1>1, <1>2, <3>1, <4>1, <4>2, LoadKeepsMoney
    <3>4. CASE ~(job[s].kind = "cancel" /\ SalesOf(job[s].order) = {})
      <4>1. PICK t \in Allocations(Current, job[s].order, job[s].n) :
              Load(s, job[s], Restocked(Current, job[s].n, t))
        BY <2>7, <3>4 DEF LoadRestock
      <4>2. Restocked(Current, job[s].n, t).qty = qty + job[s].n
        BY <3>2, RestockKeepsCounts
      <4>3. /\ Restocked(Current, job[s].n, t).val \in Nat
            /\ \A i \in 1..Len(sales) : back[i] <= Restocked(Current, job[s].n, t).back[i]
        BY <3>2, RestockKeepsMoney
      <4>4. qty + job[s].n \in Nat
        BY <1>1, <3>2
      <4> QED BY <3>1, <3>2, <4>1, <4>2, <4>3, <4>4, LoadKeepsMoney
    <3> QED BY <3>3, <3>4
  <2>8. CASE Commit(s)
    BY <2>8, CommitKeepsMoney
  <2>9. CASE Abort(s)
    <3>1. Close(s) /\ UNCHANGED <<db, history>> /\ opened' = opened
      BY <2>9 DEF Abort, Close
    <3>2. \A u \in Sessions : LoadedMoney(u)'
      BY <3>1, CloseKeepsMoney
    <3> QED BY <3>1, <3>2 DEF MoneyInv, db, history
  <2> QED BY <1>6, <2>1, <2>2, <2>3, <2>4, <2>5, <2>6, <2>7, <2>8, <2>9 DEF SessionStep
<1>7. ASSUME NEW r \in Returns, DeliverReturn(r) PROVE MoneyInv'
  <2>1. UNCHANGED <<val, sales, paidBack, torn, opened, pc, job, seen, new>>
    BY <1>7 DEF DeliverReturn, history
  <2>2. ret' \in [Returns -> {"none", "delivered", "restored"}]
        /\ status' \in [Orders -> {"open", "anulowano", "zwrot"}]
    BY <1>7 DEF DeliverReturn, MoneyInv
  <2> QED BY <2>1, <2>2 DEF MoneyInv, LoadedMoney
<1>8. CASE UNCHANGED vars
  BY <1>8 DEF vars, db, history, MoneyInv, LoadedMoney
<1> QED BY <1>6, <1>7, <1>8 DEF Next

LEMMA MoneyInvInit == Init => MoneyInv
<1> SUFFICES ASSUME Init PROVE MoneyInv
  OBVIOUS
<1>1. sales \in Seq(SaleRow) /\ paidBack \in Seq(Paid) /\ Len(paidBack) = Len(sales)
  BY DEF Init
<1>2. \A s \in Sessions : LoadedMoney(s)
  BY DEF Init, LoadedMoney, NoRow, Row
<1>3. torn = FALSE /\ opened = 0
  BY DEF Init
<1>4. opened \in 0..MaxTxns
  BY <1>3, BoundAssumption
<1>5. torn \in BOOLEAN
  BY <1>3
<1> QED BY <1>1, <1>2, <1>4, <1>5 DEF Init, MoneyInv

THEOREM MoneyInvariance == Spec => [](CountInv /\ MoneyInv)
<1>1. Init => MoneyInv
  BY MoneyInvInit
<1>2. CountInv /\ MoneyInv /\ [Next]_vars => MoneyInv'
  BY MoneyInvStep
<1> QED BY <1>1, <1>2, CountInvariance, PTL DEF Spec

(* Whatever overlaps, quantities, values, costs and what was restored stay *)
(* numbers of pieces and of groszy, none below zero: the half              *)
(* stock_value >= 0 of the invariant of models/products.py:116.            *)
THEOREM StockTypes == Spec => []TypeOK
<1>1. CountInv /\ MoneyInv => TypeOK
  <2> SUFFICES ASSUME CountInv, MoneyInv PROVE TypeOK
    OBVIOUS
  <2>1. back \in [DOMAIN sales -> Nat]
    <3>1. back \in Seq(Nat) /\ Len(back) = Len(sales) /\ sales \in Seq(SaleRow)
      BY DEF CountInv, SalesInv, MoneyInv
    <3> QED BY <3>1
  <2> QED BY <2>1 DEF TypeOK, CountInv, MoneyInv, LoadedMoney, Functions4, SaleRow, Paid
<1> QED BY <1>1, MoneyInvariance, PTL

-----------------------------------------------------------------------------
(* What the money of a sale becomes: the sale splits the value it has seen.*)
Splits(s) == pc[s] = "loaded" /\ job[s].kind = "sale" =>
               job[s].cost + new[s].val - seen[s].val \in 0..1
SplitInv == \A s \in Sessions : Splits(s)

(* Two halves of a product, each rounded to the grosz, make the whole or a *)
(* grosz more.                                                             *)
LEMMA HalvesMakeWhole ==
  ASSUME NEW v \in Nat, NEW q \in Nat \ {0}, NEW k \in 0..q
  PROVE  Rounded(v * k, q) + Rounded(v * (q - k), q) - v \in 0..1
<1> DEFINE a == v * k
           b == v * (q - k)
           x == Rounded(a, q)
           y == Rounded(b, q)
<1>1. a \in Nat /\ b \in Nat /\ a + b = q * v
  OBVIOUS
<1>2. x \in Nat /\ 2 * (q * x) - 2 * a <= q /\ 2 * a - 2 * (q * x) < q
  <2> HIDE DEF a
  <2> QED BY <1>1, RoundsToNearest
<1>3. y \in Nat /\ 2 * (q * y) - 2 * b <= q /\ 2 * b - 2 * (q * y) < q
  <2> HIDE DEF b
  <2> QED BY <1>1, RoundsToNearest
<1> HIDE DEF a, b, x, y
<1>4. q * (x + y - v) = q * x + q * y - q * v /\ x + y - v \in Int
  BY <1>2, <1>3
<1>5. q * (x + y - v) <= q /\ - q < q * (x + y - v)
  <2>1. q * x \in Int /\ q * y \in Int /\ q * v \in Int
    BY <1>2, <1>3
  <2> QED BY <1>1, <1>2, <1>3, <1>4, <2>1
<1>6. ASSUME NEW z \in Int, q * z <= q, - q < q * z PROVE z \in 0..1
  <2>1. z < 2
    <3> SUFFICES ASSUME z >= 2 PROVE FALSE
      OBVIOUS
    <3>1. q * z >= q * 2
      OBVIOUS
    <3> QED BY <1>6, <3>1
  <2>2. z > -1
    <3> SUFFICES ASSUME z <= -1 PROVE FALSE
      OBVIOUS
    <3>1. q * z <= q * (-1)
      OBVIOUS
    <3> QED BY <1>6, <3>1
  <2> QED BY <2>1, <2>2
<1>7. x + y - v \in 0..1
  BY <1>4, <1>5, <1>6
<1> QED BY <1>7 DEF x, y, a, b

LEMMA SaleSplits ==
  ASSUME NEW row, row.qty \in Nat, row.val \in Nat, NEW n \in Nat \ {0}
  PROVE  CostOf(row, n) + Consumed(row, n).val - row.val \in 0..1
<1> DEFINE k == Taken(row, n)
<1>1. k \in 0..row.qty /\ (row.qty # 0 => k # 0)
  BY DEF Taken, Min2
<1>2. CASE row.qty = 0
  <2>1. k = 0
    BY <1>1, <1>2
  <2> QED BY <1>2, <2>1 DEF CostOf, Consumed
<1>3. CASE row.qty # 0
  <2>1. CostOf(row, n) = Rounded(row.val * k, row.qty) /\ Consumed(row, n) = Without(row, k)
    BY <1>1, <1>3 DEF CostOf, Consumed
  <2>2. Rounded(row.val * k, row.qty) + Rounded(row.val * (row.qty - k), row.qty) - row.val \in 0..1
    <3> HIDE DEF k
    <3> QED BY <1>1, <1>3, HalvesMakeWhole
  <2>3. CASE k # row.qty
    <3>1. Consumed(row, n).val = Rounded(row.val * (row.qty - k), row.qty)
      BY <2>1, <2>3 DEF Without, Row
    <3> QED BY <2>1, <2>2, <3>1
  <2>4. CASE k = row.qty
    <3>1. Consumed(row, n).val = 0
      BY <2>1, <2>4 DEF Without, Row
    <3>2. Rounded(row.val * (row.qty - k), row.qty) = 0
      <4>1. row.val * (row.qty - k) = 0
        BY <2>4
      <4>2. (0 + row.qty) \div (2 * row.qty) = 0
        BY <1>3
      <4> QED BY <1>3, <4>1, <4>2 DEF Rounded
    <3> QED BY <2>1, <2>2, <3>1, <3>2
  <2> QED BY <2>3, <2>4
<1> QED BY <1>2, <1>3

(* What the sessions' steps do to what is compared here.                   *)
LEMMA LoadKeepsSplit ==
  ASSUME CountInv, SplitInv, NEW s \in Sessions, NEW j, NEW after, Load(s, j, after),
         j.kind = "sale" => j.cost + after.val - val \in 0..1
  PROVE  SplitInv' /\ UNCHANGED <<sales, back, paidBack>>
<1>1. UNCHANGED <<sales, back, paidBack>>
  BY DEF Load, db, history
<1>2. Current.val = val
  BY DEF Current, Row
<1>3. ASSUME NEW u \in Sessions PROVE Splits(u)'
  <2>1. CASE u = s
    BY <1>2, <2>1 DEF Splits, Load, CountInv, Functions4
  <2>2. CASE u # s
    BY <2>2 DEF SplitInv, Splits, Load, CountInv, Functions4
  <2> QED BY <2>1, <2>2
<1> QED BY <1>1, <1>3 DEF SplitInv

LEMMA CloseKeepsSplit ==
  ASSUME CountInv, SplitInv, NEW s \in Sessions, Close(s)
  PROVE  SplitInv'
<1> SUFFICES ASSUME NEW u \in Sessions PROVE Splits(u)'
  BY DEF SplitInv
<1>1. CASE u = s
  BY <1>1 DEF Splits, Close, CountInv, Functions4
<1>2. CASE u # s
  BY <1>2 DEF SplitInv, Splits, Close, CountInv, Functions4
<1> QED BY <1>1, <1>2

LEMMA SplitInvStep ==
  ASSUME CountInv, MoneyInv, SplitInv, [Next]_vars
  PROVE  /\ SplitInv'
         /\ \/ UNCHANGED <<sales, back, paidBack>>
            \/ \E s \in Sessions : Commit(s)
<1>1. /\ Current.qty = qty /\ Current.val = val /\ qty \in Nat /\ val \in Nat
  BY DEF Current, Row, CountInv, MoneyInv
<1>2. ASSUME NEW s \in Sessions, SessionStep(s)
      PROVE  SplitInv' /\ (UNCHANGED <<sales, back, paidBack>> \/ Commit(s))
  <2>1. CASE LoadPurchase(s)
    <3>1. PICK n \in Pieces, p \in Prices :
            Load(s, Job("purchase", None, None, n, 0), Delivered(Current, n, p))
      BY <2>1 DEF LoadPurchase
    <3>2. Job("purchase", None, None, n, 0).kind = "purchase"
      BY DEF Job
    <3> QED BY <3>1, <3>2, LoadKeepsSplit
  <2>2. CASE LoadSale(s)
    <3>1. PICK o \in Orders :
            Load(s, Job("sale", o, None, OrderQty[o], CostOf(Current, OrderQty[o])),
                    Consumed(Current, OrderQty[o]))
      BY <2>2 DEF LoadSale
    <3> DEFINE n == OrderQty[o]
               j == Job("sale", o, None, n, CostOf(Current, n))
    <3>2. n \in Nat \ {0}
      BY OrdersAssumption
    <3>3. Load(s, j, Consumed(Current, n))
      BY <3>1
    <3> HIDE DEF n
    <3>4. CostOf(Current, n) + Consumed(Current, n).val - val \in 0..1
      BY <1>1, <3>2, SaleSplits
    <3>5. j.cost = CostOf(Current, n)
      BY DEF Job
    <3> HIDE DEF j
    <3> QED BY <3>3, <3>4, <3>5, LoadKeepsSplit
  <2>3. CASE LoadCorrection(s)
    <3>1. PICK target \in Targets :
            Load(s, Job("correction", None, None, 0, 0), Corrected(Current, target))
      BY <2>3 DEF LoadCorrection
    <3>2. Job("correction", None, None, 0, 0).kind = "correction"
      BY DEF Job
    <3> QED BY <3>1, <3>2, LoadKeepsSplit
  <2>4. CASE LoadPricedCorrection(s)
    <3>1. PICK target \in Targets, p \in Prices :
            Load(s, Job("purchase", None, None, target - qty, 0),
                       Delivered(Current, target - qty, p))
      BY <2>4 DEF LoadPricedCorrection
    <3>2. Job("purchase", None, None, target - qty, 0).kind = "purchase"
      BY DEF Job
    <3> QED BY <3>1, <3>2, LoadKeepsSplit
  <2>5. CASE CheckReturn(s) \/ CheckCancel(s)
    <3>1. PICK j : Check(s, j)
      BY <2>5 DEF CheckReturn, CheckCancel
    <3>2. UNCHANGED <<sales, back, paidBack, seen, new>>
      BY <3>1 DEF Check, db, history
    <3>3. \A u \in Sessions : pc'[u] = "loaded" => pc[u] = "loaded" /\ job'[u] = job[u]
      BY <3>1 DEF Check, CountInv, Functions4
    <3> QED BY <3>2, <3>3 DEF SplitInv, Splits
  <2>6. CASE LoadRestock(s)
    <3>1. job[s].kind # "sale"
      BY <2>6 DEF LoadRestock, CountInv, JobInv
    <3>2. PICK j, after : Load(s, j, after) /\ j.kind # "sale"
      <4>1. CASE job[s].kind = "cancel" /\ SalesOf(job[s].order) = {}
        <5>1. Job("cancel", job[s].order, None, 0, 0).kind = "cancel"
          BY DEF Job
        <5> QED BY <2>6, <4>1, <5>1 DEF LoadRestock
      <4>2. CASE ~(job[s].kind = "cancel" /\ SalesOf(job[s].order) = {})
        BY <2>6, <3>1, <4>2 DEF LoadRestock
      <4> QED BY <4>1, <4>2
    <3> QED BY <3>2, LoadKeepsSplit
  <2>7. CASE Commit(s)
    BY <2>7, CloseKeepsSplit DEF Commit
  <2>8. CASE Abort(s)
    BY <2>8, CloseKeepsSplit DEF Abort, db, history
  <2> QED BY <1>2, <2>1, <2>2, <2>3, <2>4, <2>5, <2>6, <2>7, <2>8 DEF SessionStep
<1>3. ASSUME NEW r \in Returns, DeliverReturn(r)
      PROVE  SplitInv' /\ UNCHANGED <<sales, back, paidBack>>
  BY <1>3 DEF DeliverReturn, SplitInv, Splits, history
<1>4. ASSUME UNCHANGED vars PROVE SplitInv' /\ UNCHANGED <<sales, back, paidBack>>
  BY <1>4 DEF vars, db, history, SplitInv, Splits
<1> QED BY <1>2, <1>3, <1>4 DEF Next

(* However sessions overlap, no sale that was not overtaken makes or loses *)
(* money but for the grosz of a tie: what consume_stock charges to the     *)
(* sale and what it leaves on stock add up to the value that was there.    *)
THEOREM SalesSplitValue == Spec => SaleSplitsValue
<1> DEFINE Split == \A s \in Sessions : Sells(s) /\ ~Overtaken(s) =>
                      sales'[Len(sales')].cost + val' - val \in 0..1
<1>1. Init => SplitInv
  BY DEF Init, SplitInv, Splits
<1>2. CountInv /\ MoneyInv /\ SplitInv /\ [Next]_vars => SplitInv'
  BY SplitInvStep
<1>3. CountInv /\ MoneyInv /\ SplitInv /\ [Next]_vars => [Split]_vars
  <2> SUFFICES ASSUME MoneyInv, SplitInv, NEW s \in Sessions, Sells(s), ~Overtaken(s)
               PROVE  sales'[Len(sales')].cost + val' - val \in 0..1
    OBVIOUS
  <2> DEFINE row == [order |-> job[s].order, quantity |-> job[s].n, cost |-> job[s].cost]
  <2>1. sales' = Append(sales, row) /\ val' = Written(val, seen[s].val, new[s].val)
    BY DEF Sells, Commit
  <2>2. val' = new[s].val /\ seen[s].val = val
    BY <2>1 DEF Overtaken, Written
  <2>3. job[s].cost + new[s].val - seen[s].val \in 0..1
    BY DEF Sells, SplitInv, Splits
  <2>4. sales'[Len(sales')] = row
    <3> HIDE DEF row
    <3>1. sales \in Seq(SaleRow)
      BY DEF MoneyInv
    <3>2. sales \in Seq(SaleRow \cup {row})
      BY <3>1
    <3> QED BY <2>1, <3>2
  <2> QED BY <2>2, <2>3, <2>4
<1> QED BY <1>1, <1>2, <1>3, MoneyInvariance, PTL DEF Spec, SaleSplitsValue

(* Each part of a Sale row came back at its cost, to half a grosz.         *)
Fair(q, c, b, paid) ==
  /\ 2 * (q * paid.value) - 2 * (c * b) <= paid.parts * q
  /\ 2 * (c * b) - 2 * (q * paid.value) <= paid.parts * q

PaidInv == \A i \in 1..Len(sales) : ~paidBack[i].crossed =>
  Fair(sales[i].quantity, sales[i].cost, back[i], paidBack[i])

LEMMA OnePartMore ==
  ASSUME NEW q \in Nat \ {0}, NEW c \in Nat, NEW b \in Nat, NEW k \in Nat, NEW x \in Nat,
         NEW paid \in Paid, Fair(q, c, b, paid),
         2 * (q * x) - 2 * (c * k) <= q, 2 * (c * k) - 2 * (q * x) < q
  PROVE  \A after : after.value = paid.value + x /\ after.parts = paid.parts + 1 =>
           Fair(q, c, b + k, after)
<1> DEFINE v == paid.value
           p == paid.parts
<1>1. v \in Nat /\ p \in Nat
  BY DEF Paid
<1> HIDE DEF v, p
<1>2. /\ 2 * (q * v) - 2 * (c * b) <= p * q
      /\ 2 * (c * b) - 2 * (q * v) <= p * q
  BY DEF Fair, v, p
<1>3. /\ q * (v + x) = q * v + q * x /\ c * (b + k) = c * b + c * k
      /\ (p + 1) * q = p * q + q
  BY <1>1
<1>4. /\ q * v \in Int /\ q * x \in Int /\ c * b \in Int /\ c * k \in Int /\ p * q \in Int
  BY <1>1
<1>5. /\ 2 * (q * (v + x)) - 2 * (c * (b + k)) <= (p + 1) * q
      /\ 2 * (c * (b + k)) - 2 * (q * (v + x)) <= (p + 1) * q
  BY <1>2, <1>3, <1>4
<1> QED BY <1>5 DEF Fair, v, p

LEMMA WholeIsNear ==
  ASSUME NEW q \in Nat \ {0}, NEW c \in Nat, NEW paid \in Paid, Fair(q, c, q, paid)
  PROVE  2 * Distance(paid.value, c) <= paid.parts
<1> DEFINE v == paid.value
           p == paid.parts
<1>1. v \in Nat /\ p \in Nat
  BY DEF Paid
<1> HIDE DEF v, p
<1>2. /\ 2 * (q * v) - 2 * (c * q) <= p * q
      /\ 2 * (c * q) - 2 * (q * v) <= p * q
  BY DEF Fair, v, p
<1>3. /\ 2 * (q * v) - 2 * (c * q) = q * (2 * (v - c))
      /\ 2 * (c * q) - 2 * (q * v) = q * (2 * (c - v)) /\ p * q = q * p
  BY <1>1
<1>4. ASSUME NEW d \in Int, q * d <= q * p PROVE d <= p
  BY <1>1, <1>4
<1>5. 2 * (v - c) <= p /\ 2 * (c - v) <= p
  BY <1>1, <1>2, <1>3, <1>4
<1> QED BY <1>1, <1>5 DEF Distance, v, p

LEMMA CommitKeepsPaid ==
  ASSUME CountInv, MoneyInv, PaidInv, NEW s \in Sessions, Commit(s)
  PROVE  PaidInv'
<1> DEFINE n == Len(sales)
           kept == [i \in DOMAIN sales |->
                      IF TakenBack(s, i) = 0 THEN back[i] ELSE new[s].back[i]]
           row == [order |-> job[s].order, quantity |-> job[s].n, cost |-> job[s].cost]
           none == [value |-> 0, parts |-> 0, crossed |-> FALSE]
           sold == job[s].kind = "sale"
<1>1. /\ sales' = IF sold THEN Append(sales, row) ELSE sales
      /\ back' = IF sold THEN Append(kept, 0) ELSE kept
      /\ paidBack' = IF sold THEN Append(PaidAfter(s), none) ELSE PaidAfter(s)
      /\ pc[s] = "loaded"
  BY DEF Commit, PaidAfter
<1>2. n \in Nat /\ DOMAIN sales = 1..n /\ DOMAIN back = 1..n /\ sales \in Seq(SaleRow)
  BY DEF CountInv, SalesInv, MoneyInv
<1>3. LoadedInv(s) /\ LoadedMoney(s) /\ JobInv(s)
  BY <1>1 DEF CountInv, MoneyInv
<1>4. ASSUME NEW i \in 1..n, ~PaidAfter(s)[i].crossed
      PROVE  Fair(sales[i].quantity, sales[i].cost, kept[i], PaidAfter(s)[i])
  <2> DEFINE k == TakenBack(s, i)
  <2>1. k \in Nat
    BY <1>1, TakenBackType
  <2>2. sales[i] \in SaleRow /\ paidBack[i] \in Paid /\ back[i] \in Nat
    BY <1>2 DEF CountInv, SalesInv, MoneyInv
  <2>3. sales[i].quantity \in Nat \ {0} /\ sales[i].cost \in Nat
    BY <2>2 DEF SaleRow
  <2>a. ~paidBack[i].crossed /\ (k # 0 => seen[s].back[i] = back[i])
    BY <1>2, <1>4, <2>2 DEF PaidAfter, Paid
  <2>4. Fair(sales[i].quantity, sales[i].cost, back[i], paidBack[i])
    BY <2>a DEF PaidInv
  <2>5. CASE k = 0
    BY <1>2, <2>4, <2>5 DEF PaidAfter
  <2>6. CASE k # 0
    <3>1. new[s].back[i] - back[i] = k /\ new[s].back[i] \in Nat
      <4>1. k = new[s].back[i] - back[i] /\ i \in 1..Len(seen[s].back)
        BY <1>1, <1>2, <1>3, <2>a, <2>6 DEF TakenBack, LoadedInv
      <4>2. new[s].back \in Seq(Nat) /\ Len(new[s].back) = Len(seen[s].back)
        BY <1>1, <1>3 DEF LoadedInv
      <4>3. new[s].back[i] \in Nat
        BY <4>1, <4>2, ElementsAreNat
      <4> QED BY <4>1, <4>3
    <3>2. kept[i] = back[i] + k
      BY <1>2, <2>2, <2>6, <3>1
    <3>3. /\ PaidAfter(s)[i].value = paidBack[i].value + CostBack(i, k)
          /\ PaidAfter(s)[i].parts = paidBack[i].parts + 1
      BY <1>2, <2>6 DEF PaidAfter
    <3> HIDE DEF k, kept
    <3>4. /\ CostBack(i, k) \in Nat
          /\ 2 * (sales[i].quantity * CostBack(i, k)) - 2 * (sales[i].cost * k) <= sales[i].quantity
          /\ 2 * (sales[i].cost * k) - 2 * (sales[i].quantity * CostBack(i, k)) < sales[i].quantity
      BY <1>2, <2>1, CostBackNear
    <3> DEFINE q == sales[i].quantity
               c == sales[i].cost
               b == back[i]
               x == CostBack(i, k)
               paid == paidBack[i]
    <3>5. /\ q \in Nat \ {0} /\ c \in Nat /\ b \in Nat /\ x \in Nat /\ paid \in Paid
          /\ Fair(q, c, b, paid)
          /\ 2 * (q * x) - 2 * (c * k) <= q /\ 2 * (c * k) - 2 * (q * x) < q
      BY <2>2, <2>3, <2>4, <3>4
    <3> HIDE DEF q, c, b, x, paid
    <3>6. \A after : after.value = paid.value + x /\ after.parts = paid.parts + 1 =>
            Fair(q, c, b + k, after)
      BY <2>1, <3>5, OnePartMore
    <3> QED BY <3>2, <3>3, <3>6 DEF q, c, b, x, paid
  <2> QED BY <2>5, <2>6
<1>5. Len(PaidAfter(s)) = n /\ PaidAfter(s) \in Seq(Paid)
  BY <1>1, PaidAfterType
<1>6. CASE ~sold
  BY <1>1, <1>4, <1>6 DEF PaidInv
<1>7. CASE sold
  <2>1. row.quantity \in Nat \ {0} /\ row.cost \in Nat
    BY <1>1, <1>3, <1>7 DEF LoadedMoney, JobInv
  <2>2. Fair(row.quantity, row.cost, 0, none)
    <3>1. row.quantity * 0 = 0 /\ row.cost * 0 = 0 /\ 0 * row.quantity = 0
      BY <2>1
    <3> QED BY <3>1 DEF Fair
  <2>3. \A i \in 1..n : kept[i] = kept[i] /\ DOMAIN kept = 1..n
    BY <1>2
  <2>4. Len(kept) = n
    BY <1>2
  <2> HIDE DEF kept, row, none, n
  <2>5. \A i \in 1..n : sales'[i] = sales[i] /\ back'[i] = kept[i] /\ paidBack'[i] = PaidAfter(s)[i]
    BY <1>1, <1>2, <1>5, <1>7, <2>4 DEF n
  <2>6. sales'[n + 1] = row /\ back'[n + 1] = 0 /\ paidBack'[n + 1] = none /\ Len(sales') = n + 1
    BY <1>1, <1>2, <1>5, <1>7, <2>4 DEF n
  <2>7. ASSUME NEW i \in 1..(n + 1)
        PROVE  ~paidBack'[i].crossed =>
                 Fair(sales'[i].quantity, sales'[i].cost, back'[i], paidBack'[i])
    <3>1. CASE i = n + 1
      BY <2>2, <2>6, <3>1
    <3>2. CASE i \in 1..n
      BY <1>4, <2>5, <3>2
    <3> QED BY <1>2, <3>1, <3>2
  <2> QED BY <2>6, <2>7 DEF PaidInv
<1> QED BY <1>6, <1>7

(* However sessions overlap, the parts in which a sale comes back put back *)
(* its purchase_cost, but for half a grosz each, unless two sessions       *)
(* counted its returned pieces from one number: the returns and the        *)
(* cancellation of one order neither inflate nor drain the stock's value.  *)
THEOREM PartsPayBack == Spec => []PartsPayBackCost
<1>1. Init => SplitInv /\ PaidInv
  BY DEF Init, SplitInv, Splits, PaidInv
<1>2. CountInv /\ MoneyInv /\ SplitInv /\ PaidInv /\ [Next]_vars => SplitInv' /\ PaidInv'
  <2> SUFFICES ASSUME CountInv, MoneyInv, SplitInv, PaidInv, [Next]_vars
               PROVE  SplitInv' /\ PaidInv'
    OBVIOUS
  <2>1. CASE UNCHANGED <<sales, back, paidBack>>
    BY <2>1, SplitInvStep DEF PaidInv
  <2>2. CASE \E s \in Sessions : Commit(s)
    BY <2>2, SplitInvStep, CommitKeepsPaid
  <2> QED BY <2>1, <2>2, SplitInvStep
<1>3. CountInv /\ MoneyInv /\ PaidInv => PartsPayBackCost
  <2> SUFFICES ASSUME CountInv, MoneyInv, PaidInv, NEW i \in DOMAIN sales,
                      back[i] = sales[i].quantity, ~paidBack[i].crossed
               PROVE  2 * Distance(paidBack[i].value, sales[i].cost) <= paidBack[i].parts
    BY DEF PartsPayBackCost
  <2>1. i \in 1..Len(sales) /\ sales[i] \in SaleRow /\ paidBack[i] \in Paid
    BY DEF MoneyInv
  <2>2. Fair(sales[i].quantity, sales[i].cost, sales[i].quantity, paidBack[i])
    BY <2>1 DEF PaidInv
  <2> QED BY <2>1, <2>2, WholeIsNear DEF SaleRow
<1> QED BY <1>1, <1>2, <1>3, MoneyInvariance, PTL DEF Spec

=============================================================================
