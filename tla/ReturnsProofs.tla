-------------------------- MODULE ReturnsProofs ---------------------------
(***************************************************************************)
(* The returns of an order, for any number of claims, web requests and     *)
(* failures: no return has two rows, and the money goes back once.         *)
(***************************************************************************)
EXTENDS MCReturns, SequenceTheorems, FiniteSetTheorems, TLAPS

(***************************************************************************)
(* The inductive invariant.                                                *)
(***************************************************************************)
AnyRow == [allegro : Nat, woo : Nat, status : R!Statuses, parcel : BOOLEAN, stock : BOOLEAN,
           refund : BOOLEAN, old : BOOLEAN]
Answer == [claim : Nat, state : R!States]
Places == {"idle", "paying", "late", "paid"}

Tables == platform \in {"allegro", "woo"} /\ claims \in Seq(R!States) /\ rows \in Seq(AnyRow)
Payments == /\ request \in [Pages -> Places] /\ of \in [Pages -> Nat]
            /\ paid \in [R!Rows -> Nat] /\ slips \in [R!Rows -> Nat]
(* Allegro's page shows each return once *)
Paged == /\ page \in Seq(Answer)
         /\ platform = "allegro" => \A c \in DOMAIN page : page[c].claim = c

Returned(i) == i \in DOMAIN rows /\ rows[i].refund

(* money that slips do not account for is recorded or is about to be; who is
   to pay without having been overtaken comes before any such money *)
MoneyOf(i) ==
  /\ paid[i] <= slips[i] + 1
  /\ paid[i] > slips[i] => Returned(i) \/ \E s \in Pages : request[s] = "paid" /\ of[s] = i
  /\ \A s \in Pages : request[s] = "paying" /\ of[s] = i => paid[i] <= slips[i]
Money == \A i \in R!Rows : MoneyOf(i)

(* a payment belongs to a return *)
Grounded == \A s \in Pages : request[s] # "idle" => of[s] \in DOMAIN rows

IInv == Tables /\ Payments /\ Paged /\ R!OneRowPerClaim /\ Grounded /\ Money

-----------------------------------------------------------------------------
(***************************************************************************)
(* The table.                                                              *)
(***************************************************************************)
(* the rows stay those of the same returns, and a refund stays recorded *)
Same(old, now) ==
  now \in AnyRow /\ now.allegro = old.allegro /\ now.woo = old.woo /\ (old.refund => now.refund)
TableKept ==
  /\ rows' \in Seq(AnyRow) /\ R!OneRowPerClaim'
  /\ \A i \in DOMAIN rows : i \in DOMAIN rows' /\ (rows[i].refund => rows'[i].refund)

(* A function on the places of a sequence is a sequence. *)
LEMMA FunctionSeq ==
  ASSUME NEW S, NEW T, NEW s \in Seq(S), NEW t \in [DOMAIN s -> T]
  PROVE  t \in Seq(T) /\ DOMAIN t = DOMAIN s /\ Len(t) = Len(s)
<1>1. Len(s) \in Nat /\ DOMAIN s = 1..Len(s)
  OBVIOUS
<1>2. t \in Seq(T)
  BY <1>1
<1> QED BY <1>1, <1>2

(* Rows that are edited one by one remain rows of different returns. *)
LEMMA Edited ==
  ASSUME Tables, R!OneRowPerClaim, rows' = [i \in DOMAIN rows |-> rows'[i]],
         \A i \in DOMAIN rows : Same(rows[i], rows'[i])
  PROVE  TableKept
<1>1. rows \in Seq(AnyRow)
  BY DEF Tables
<1>2. rows' \in [DOMAIN rows -> AnyRow]
  BY DEF Same
<1>3. rows' \in Seq(AnyRow) /\ DOMAIN rows' = DOMAIN rows /\ Len(rows') = Len(rows)
  BY <1>1, <1>2, FunctionSeq
<1>4. R!OneRowPerClaim'
  BY <1>3 DEF R!OneRowPerClaim, Same
<1>5. \A i \in DOMAIN rows : i \in DOMAIN rows' /\ (rows[i].refund => rows'[i].refund)
  BY <1>3 DEF Same
<1> QED BY <1>3, <1>4, <1>5 DEF TableKept

(* A change of some fields of one row. *)
LEMMA EditedOne ==
  ASSUME Tables, R!OneRowPerClaim, NEW k \in DOMAIN rows, NEW r,
         rows' = [rows EXCEPT ![k] = r], Same(rows[k], r)
  PROVE  TableKept
<1>1. rows \in [DOMAIN rows -> AnyRow]
  BY DEF Tables
<1>2. rows' = [i \in DOMAIN rows |-> rows'[i]] /\ \A i \in DOMAIN rows : Same(rows[i], rows'[i])
  BY <1>1 DEF Same
<1> QED BY <1>2, Edited

(* create_return_from_order: a row of the withdrawal, or none has it yet. *)
LEMMA RecordedKeeps ==
  ASSUME Tables, R!OneRowPerClaim, NEW w \in Nat, NEW to \in R!Statuses, NEW known \in BOOLEAN,
         R!Recorded(w, to, known)
  PROVE  TableKept
<1>1. CASE rows = <<>> /\ rows' = <<R!NewRow(0, w, to, known)>>
  <2>1. R!NewRow(0, w, to, known) \in AnyRow
    BY DEF R!NewRow, AnyRow
  <2>2. rows' = <<R!NewRow(0, w, to, known)>>
    BY <1>1
  <2> HIDE DEF R!NewRow
  <2>3. rows' \in Seq(AnyRow) /\ DOMAIN rows' = {1}
    BY <2>1, <2>2
  <2> QED BY <1>1, <2>3 DEF TableKept, R!OneRowPerClaim
<1>2. ASSUME NEW k \in R!Found(w),
             rows' = [rows EXCEPT ![k] = R!Refreshed(rows[k], w, to, known)]
      PROVE  TableKept
  <2> DEFINE r == R!Refreshed(rows[k], w, to, known)
  <2>1. k \in DOMAIN rows
    BY <1>2 DEF R!Found
  <2>2. rows \in [DOMAIN rows -> AnyRow] /\ rows[k] \in AnyRow
    BY <2>1 DEF Tables
  <2>3. rows' = [rows EXCEPT ![k] = r]
    BY <1>2
  <2>4. /\ r \in AnyRow /\ r.allegro = rows[k].allegro /\ r.refund = rows[k].refund
        /\ r.woo = IF w # 0 THEN w ELSE rows[k].woo
    BY <2>2 DEF R!Refreshed, AnyRow
  <2>5. w # 0 => \A i \in DOMAIN rows : i # k => rows[i].woo # w
    BY <1>2, <2>1, <2>2 DEF R!OneRowPerClaim, R!Found
  <2> HIDE DEF r
  <2>6. rows' \in Seq(AnyRow) /\ DOMAIN rows' = DOMAIN rows
    BY <2>1, <2>3, <2>4, ExceptSeq DEF Tables
  <2>7. \A i \in DOMAIN rows : rows'[i] = IF i = k THEN r ELSE rows[i]
    BY <2>2, <2>3
  <2>8. R!OneRowPerClaim'
    BY <2>1, <2>4, <2>5, <2>6, <2>7 DEF R!OneRowPerClaim
  <2> QED BY <2>4, <2>6, <2>7, <2>8 DEF TableKept
<1> QED BY <1>1, <1>2 DEF R!Recorded

(* The platform's states have statuses. *)
LEMMA MappedStatus == \A state \in R!States : R!Mapped(state) \in R!Statuses /\ R!Shipped(state) \in BOOLEAN
BY DEF R!States, R!Statuses, R!Mapped, R!Shipped

LEMMA SameCardinality == \A S : R!Cardinality(S) = Cardinality(S)
BY DEF R!Cardinality, Cardinality

(* check_allegro_customer_returns: a row is added for a return that has none. *)
LEMMA AllegroKeeps ==
  ASSUME IInv, R!ApplyAllegro
  PROVE  TableKept /\ \A i \in DOMAIN rows : rows'[i] = R!Updated(rows[i])
<1> DEFINE U == [i \in DOMAIN rows |-> R!Updated(rows[i])]
<1>1. PICK list \in R!Bijection(1..R!Cardinality(R!New), R!New) : rows' = U \o R!Created(list)
  BY DEF R!ApplyAllegro
<1>2. /\ platform = "allegro" /\ rows \in Seq(AnyRow) /\ page \in Seq(Answer)
      /\ \A c \in DOMAIN page : page[c].claim = c
  BY DEF IInv, Tables, Paged, R!ApplyAllegro
<1> DEFINE n == R!Cardinality(R!New)
           C == R!Created(list)
<1>3. /\ list \in [1..n -> R!New]
      /\ \A a, b \in DOMAIN list : list[a] = list[b] => a = b
  BY DEF R!Bijection, R!Injection, R!IsInjective
<1>4. R!New \subseteq DOMAIN page
  BY DEF R!New
<1>5. \A i \in DOMAIN rows : Same(rows[i], R!Updated(rows[i]))
  <2> SUFFICES ASSUME NEW i \in DOMAIN rows PROVE Same(rows[i], R!Updated(rows[i]))
    OBVIOUS
  <2> DEFINE row == rows[i]
  <2>1. row \in AnyRow
    BY <1>2
  <2>2. CASE row.allegro \notin DOMAIN page
    BY <2>1, <2>2 DEF R!Updated, Same
  <2>3. CASE row.allegro \in DOMAIN page
    <3> DEFINE state == page[row.allegro].state
    <3> DEFINE e == IF state = "created" THEN row.status ELSE R!Mapped(state)
               p == row.parcel \/ R!Shipped(state)
    <3>a. page[row.allegro] \in Answer
      BY <1>2, <2>3
    <3>1. state \in R!States
      BY <3>a DEF Answer
    <3>2. R!Updated(row) = [row EXCEPT !.parcel = p, !.status = e]
      BY <2>3 DEF R!Updated
    <3>3. e \in R!Statuses /\ p \in BOOLEAN
      BY <2>1, <3>1, MappedStatus DEF AnyRow
    <3> HIDE DEF e, p, state, row
    <3>4. Same(row, R!Updated(row))
      BY <2>1, <3>2, <3>3 DEF Same, AnyRow
    <3> QED BY <3>4 DEF row
  <2> QED BY <2>2, <2>3
<1>6. U \in Seq(AnyRow) /\ DOMAIN U = DOMAIN rows /\ Len(U) = Len(rows)
  <2>1. U \in [DOMAIN rows -> AnyRow]
    BY <1>5 DEF Same
  <2> QED BY <1>2, <2>1, FunctionSeq
<1>7. \A m \in DOMAIN list : /\ C[m] \in AnyRow /\ C[m].woo = 0 /\ ~C[m].refund
                             /\ C[m].allegro = list[m] /\ list[m] \in R!New
  <2> SUFFICES ASSUME NEW m \in DOMAIN list
               PROVE  /\ C[m] \in AnyRow /\ C[m].woo = 0 /\ ~C[m].refund
                      /\ C[m].allegro = list[m] /\ list[m] \in R!New
    OBVIOUS
  <2>1. list[m] \in R!New /\ list[m] \in DOMAIN page
    BY <1>3, <1>4
  <2> DEFINE found == page[list[m]]
  <2>a. found \in Answer /\ found.claim = list[m]
    BY <1>2, <2>1
  <2>2. found.claim \in Nat /\ found.state \in R!States
    BY <2>a DEF Answer
  <2>3. C[m] = R!NewRow(found.claim, 0, R!Mapped(found.state), R!Shipped(found.state))
    BY DEF R!Created
  <2>4. R!Mapped(found.state) \in R!Statuses /\ R!Shipped(found.state) \in BOOLEAN
    BY <2>2, MappedStatus
  <2> DEFINE e == R!Mapped(found.state)
             p == R!Shipped(found.state)
  <2> HIDE DEF found, C, e, p
  <2>5. C[m] = R!NewRow(list[m], 0, e, p) /\ e \in R!Statuses /\ p \in BOOLEAN /\ list[m] \in Nat
    BY <2>a, <2>2, <2>3, <2>4 DEF e, p
  <2> QED BY <2>1, <2>5 DEF R!NewRow, AnyRow
<1>8. n \in Nat
  <2>1. IsFiniteSet(DOMAIN page)
    <3>1. Len(page) \in Nat /\ DOMAIN page = 1..Len(page)
      BY <1>2
    <3> QED BY <3>1, FS_Interval
  <2> QED BY <1>4, <2>1, FS_Subset, FS_CardinalityType, SameCardinality
<1>9. C \in Seq(AnyRow) /\ DOMAIN C = 1..n /\ Len(C) = n
  <2>1. DOMAIN list = 1..n /\ DOMAIN C = 1..n
    BY <1>3 DEF R!Created
  <2>2. C \in [1..n -> AnyRow]
    BY <1>7, <2>1 DEF R!Created
  <2> QED BY <1>8, <2>1, <2>2
<1> HIDE DEF U, C, n
<1>10. /\ rows' \in Seq(AnyRow) /\ Len(rows') = Len(rows) + n
       /\ \A i \in DOMAIN rows' : rows'[i] = IF i <= Len(rows) THEN U[i] ELSE C[i - Len(rows)]
  <2>1. rows' = U \o C
    BY <1>1 DEF U, C
  <2>2. /\ U \o C \in Seq(AnyRow) /\ Len(U \o C) = Len(U) + Len(C)
        /\ \A i \in 1..Len(U) + Len(C) : (U \o C)[i] = IF i <= Len(U) THEN U[i] ELSE C[i - Len(U)]
    BY <1>6, <1>9, ConcatProperties
  <2> QED BY <1>2, <1>6, <1>9, <2>1, <2>2
<1>11. R!OneRowPerClaim'
  <2>1. /\ DOMAIN rows = 1..Len(rows) /\ Len(rows) \in Nat /\ DOMAIN rows' = 1..Len(rows) + n
        /\ DOMAIN list = 1..n
    BY <1>2, <1>3, <1>10
  <2>a. \A i \in DOMAIN rows : rows'[i] = R!Updated(rows[i])
    BY <1>8, <1>10, <2>1 DEF U
  <2>2. \A i \in DOMAIN rows : /\ rows'[i].allegro = rows[i].allegro
                               /\ rows'[i].woo = rows[i].woo
    BY <1>5, <2>a DEF Same
  <2>3. \A i \in DOMAIN rows' \ DOMAIN rows :
           /\ i - Len(rows) \in DOMAIN list /\ rows'[i].woo = 0
           /\ rows'[i].allegro = list[i - Len(rows)] /\ list[i - Len(rows)] \in R!New
    BY <1>7, <1>8, <1>10, <2>1
  <2>4. \A k \in R!New : \A i \in DOMAIN rows : rows[i].allegro # k
    BY <1>2, <1>4 DEF R!New, R!Unknown
  <2> SUFFICES ASSUME NEW i \in DOMAIN rows', NEW j \in DOMAIN rows', i # j
               PROVE  /\ rows'[i].allegro # 0 => rows'[i].allegro # rows'[j].allegro
                      /\ rows'[i].woo # 0 => rows'[i].woo # rows'[j].woo
    BY DEF R!OneRowPerClaim
  <2>5. CASE i \in DOMAIN rows /\ j \in DOMAIN rows
    BY <2>2, <2>5 DEF IInv, R!OneRowPerClaim
  <2>6. CASE i \in DOMAIN rows /\ j \notin DOMAIN rows
    BY <2>2, <2>3, <2>4, <2>6
  <2>7. CASE i \notin DOMAIN rows /\ j \in DOMAIN rows
    BY <2>2, <2>3, <2>4, <2>7
  <2>8. CASE i \notin DOMAIN rows /\ j \notin DOMAIN rows
    <3>1. i - Len(rows) # j - Len(rows)
      BY <1>8, <2>1
    <3> QED BY <1>3, <2>3, <2>8, <3>1
  <2> QED BY <2>5, <2>6, <2>7, <2>8
<1>14. \A i \in DOMAIN rows : rows'[i] = R!Updated(rows[i])
  <2>1. /\ DOMAIN rows = 1..Len(rows) /\ Len(rows) \in Nat /\ DOMAIN rows' = 1..Len(rows) + n
    BY <1>2, <1>10
  <2> QED BY <1>8, <1>10, <2>1 DEF U
<1>15. \A i \in DOMAIN rows : i \in DOMAIN rows' /\ (rows[i].refund => rows'[i].refund)
  <2>1. /\ DOMAIN rows = 1..Len(rows) /\ Len(rows) \in Nat /\ DOMAIN rows' = 1..Len(rows) + n
    BY <1>2, <1>10
  <2> QED BY <1>5, <1>8, <1>14, <2>1 DEF Same
<1> QED BY <1>10, <1>11, <1>14, <1>15 DEF TableKept

(* The tracking and the expiry edit every row. *)
LEMMA EndTrackingKeeps ==
  ASSUME IInv, R!EndTracking PROVE TableKept
<1>1. Tables /\ R!OneRowPerClaim
  BY DEF IInv
<1>2. CASE rows' = [i \in DOMAIN rows |-> R!Tracked(i)]
  <2>1. \A i \in DOMAIN rows : Same(rows[i], R!Tracked(i))
    <3> SUFFICES ASSUME NEW i \in DOMAIN rows PROVE Same(rows[i], R!Tracked(i))
      OBVIOUS
    <3>1. rows[i] \in AnyRow
      BY <1>1 DEF Tables
    <3>2. \/ R!Tracked(i) = rows[i]
          \/ R!Tracked(i) = [rows[i] EXCEPT !.status = "delivered"]
          \/ R!Tracked(i) = [rows[i] EXCEPT !.status = "in_transit"]
      BY DEF R!Tracked
    <3> QED BY <3>1, <3>2 DEF Same, AnyRow, R!Statuses
  <2>2. \A i \in DOMAIN rows : rows'[i] = R!Tracked(i)
    BY <1>2
  <2>3. rows' = [i \in DOMAIN rows |-> rows'[i]]
    BY <1>2
  <2> QED BY <1>1, <2>1, <2>2, <2>3, Edited
<1>3. CASE UNCHANGED rows
  BY <1>1, <1>3 DEF TableKept, R!OneRowPerClaim, Tables
<1> QED BY <1>2, <1>3 DEF R!EndTracking

LEMMA ExpireKeeps ==
  ASSUME IInv, R!Expire PROVE TableKept
<1>1. Tables /\ R!OneRowPerClaim
  BY DEF IInv
<1>2. rows' = [i \in DOMAIN rows |-> rows'[i]]
  BY DEF R!Expire
<1>3. \A i \in DOMAIN rows : Same(rows[i], rows'[i])
  <2> SUFFICES ASSUME NEW i \in DOMAIN rows PROVE Same(rows[i], rows'[i])
    OBVIOUS
  <2>1. rows[i] \in AnyRow
    BY <1>1 DEF Tables
  <2>2. rows'[i] = rows[i] \/ rows'[i] = [rows[i] EXCEPT !.status = "cancelled"]
    BY DEF R!Expire
  <2> QED BY <2>1, <2>2 DEF Same, AnyRow, R!Statuses
<1> QED BY <1>1, <1>2, <1>3, Edited

(* The edits of one row. *)
LEMMA OneEdited ==
  ASSUME IInv, \/ \E i \in DOMAIN rows : R!Age(i)
               \/ R!Restock \/ R!MarkDelivered \/ R!RestoreStock \/ R!ChooseInpost
  PROVE  TableKept
<1>1. Tables /\ R!OneRowPerClaim /\ rows \in [DOMAIN rows -> AnyRow]
  BY DEF IInv, Tables
<1>2. ASSUME NEW i \in DOMAIN rows,
             NEW to \in R!Statuses, NEW known \in BOOLEAN, NEW restored \in BOOLEAN, NEW aged \in BOOLEAN,
             rows' = [rows EXCEPT ![i] = [rows[i] EXCEPT !.status = to, !.parcel = known,
                                                         !.stock = restored, !.old = aged]]
      PROVE  TableKept
  <2> DEFINE r == [rows[i] EXCEPT !.status = to, !.parcel = known, !.stock = restored, !.old = aged]
  <2>1. Same(rows[i], r)
    BY <1>1 DEF Same, AnyRow
  <2> QED BY <1>1, <1>2, <2>1, EditedOne
<1>3. \A i \in DOMAIN rows : /\ rows[i].status \in R!Statuses /\ rows[i].parcel \in BOOLEAN
                             /\ rows[i].stock \in BOOLEAN /\ rows[i].old \in BOOLEAN
                             /\ rows[i] \in AnyRow
  BY <1>1 DEF AnyRow
<1>4. "delivered" \in R!Statuses
  BY DEF R!Statuses
<1>5. ASSUME NEW i \in DOMAIN rows, R!Age(i) PROVE TableKept
  <2>1. rows' = [rows EXCEPT ![i] = [rows[i] EXCEPT !.status = rows[i].status,
                   !.parcel = rows[i].parcel, !.stock = rows[i].stock, !.old = TRUE]]
    BY <1>3, <1>5 DEF R!Age, AnyRow
  <2> QED BY <1>2, <1>3, <2>1
<1>6. CASE R!Restock
  <2>1. CASE UNCHANGED rows
    BY <1>1, <2>1 DEF TableKept, R!OneRowPerClaim, Tables
  <2>2. ASSUME NEW i \in DOMAIN held, rows' = [rows EXCEPT ![i] = R!Back(rows[i])] PROVE TableKept
    <3>1. CASE i \notin DOMAIN rows
      <4>1. rows' \in [DOMAIN rows -> AnyRow] /\ \A j \in DOMAIN rows : rows'[j] = rows[j]
        BY <1>1, <2>2, <3>1
      <4>2. rows' = rows
        BY <1>1, <4>1
      <4> QED BY <2>1, <4>2
    <3>2. CASE i \in DOMAIN rows
      <4>1. PICK restored \in BOOLEAN : R!Back(rows[i]) = [rows[i] EXCEPT !.stock = restored]
        BY <1>3, <3>2 DEF R!Back, AnyRow
      <4>2. R!Back(rows[i]) = [rows[i] EXCEPT !.status = rows[i].status,
                   !.parcel = rows[i].parcel, !.stock = restored, !.old = rows[i].old]
        BY <1>3, <3>2, <4>1 DEF AnyRow
      <4>3. rows' = [rows EXCEPT ![i] = [rows[i] EXCEPT !.status = rows[i].status,
                   !.parcel = rows[i].parcel, !.stock = restored, !.old = rows[i].old]]
        BY <2>2, <4>2
      <4> QED BY <1>2, <1>3, <3>2, <4>3
    <3> QED BY <3>1, <3>2
  <2> QED BY <1>6, <2>1, <2>2 DEF R!Restock
<1>7. CASE R!MarkDelivered
  <2>1. PICK i \in DOMAIN rows : rows' = [rows EXCEPT ![i].status = "delivered"]
    BY <1>7 DEF R!MarkDelivered
  <2>2. rows' = [rows EXCEPT ![i] = [rows[i] EXCEPT !.status = "delivered",
                   !.parcel = rows[i].parcel, !.stock = rows[i].stock, !.old = rows[i].old]]
    BY <1>1, <1>3, <2>1 DEF AnyRow
  <2> QED BY <1>2, <1>3, <1>4, <2>2
<1>8. CASE R!RestoreStock
  <2>1. PICK i \in DOMAIN rows :
          rows' = [rows EXCEPT ![i].stock = R!Leads(rows[i]),
                     ![i].status = IF @ \in {"pending", "in_transit"} THEN "delivered" ELSE @]
    BY <1>8 DEF R!RestoreStock
  <2> DEFINE to == IF rows[i].status \in {"pending", "in_transit"} THEN "delivered" ELSE rows[i].status
             restored == R!Leads(rows[i])
  <2>2. to \in R!Statuses /\ restored \in BOOLEAN
    BY <1>3, <1>4 DEF R!Leads
  <2>a. rows[i] \in AnyRow /\ rows \in [DOMAIN rows -> AnyRow]
    BY <1>1
  <2>3. rows' = [rows EXCEPT ![i] = [rows[i] EXCEPT !.stock = restored, !.status = to]]
    BY <2>1, <2>a DEF AnyRow
  <2> HIDE DEF to, restored
  <2>4. rows' = [rows EXCEPT ![i] = [rows[i] EXCEPT !.status = to,
                   !.parcel = rows[i].parcel, !.stock = restored, !.old = rows[i].old]]
    BY <2>a, <2>3 DEF AnyRow
  <2> QED BY <1>2, <1>3, <2>2, <2>4
<1>9. CASE R!ChooseInpost
  <2>1. PICK i \in DOMAIN rows : rows' = [rows EXCEPT ![i].parcel = TRUE]
    BY <1>9 DEF R!ChooseInpost
  <2>2. rows' = [rows EXCEPT ![i] = [rows[i] EXCEPT !.status = rows[i].status,
                   !.parcel = TRUE, !.stock = rows[i].stock, !.old = rows[i].old]]
    BY <1>1, <1>3, <2>1 DEF AnyRow
  <2> QED BY <1>2, <1>3, <2>2
<1> QED BY <1>5, <1>6, <1>7, <1>8, <1>9

(* A refund is recorded in its row. *)
LEMMA SettledKeeps ==
  ASSUME IInv, NEW i \in DOMAIN rows, rows' = R!Settled(i) PROVE TableKept /\ Returned(i)'
<1>1. Tables /\ R!OneRowPerClaim /\ rows \in [DOMAIN rows -> AnyRow]
  BY DEF IInv, Tables
<1> DEFINE r == [rows[i] EXCEPT !.status = "completed", !.refund = TRUE]
<1>2. rows' = [rows EXCEPT ![i] = r]
  BY <1>1 DEF R!Settled, AnyRow
<1>3. Same(rows[i], r) /\ r.refund
  BY <1>1 DEF Same, AnyRow, R!Statuses
<1>4. TableKept
  BY <1>1, <1>2, <1>3, EditedOne
<1> HIDE DEF r
<1>5. DOMAIN rows' = DOMAIN rows /\ rows'[i] = r
  BY <1>1, <1>2
<1> QED BY <1>3, <1>4, <1>5 DEF Returned

(* The recorded withdrawals, the manual returns, the uncollected parcel. *)
LEMMA RecordedBy ==
  ASSUME IInv, R!ApplyWoo \/ R!NotCollected \/ R!Withdrawal \/ R!Manual PROVE TableKept
<1>1. Tables /\ R!OneRowPerClaim
  BY DEF IInv
<1>2. 0 \in Nat /\ FALSE \in BOOLEAN /\ {"pending", "in_transit", "not_collected"} \subseteq R!Statuses
  BY DEF R!Statuses
<1>3. CASE R!ApplyWoo
  <2>1. CASE UNCHANGED rows
    BY <1>1, <2>1 DEF TableKept, R!OneRowPerClaim, Tables
  <2>2. CASE page # <<>> /\ R!Recorded(Head(page).claim, "pending", FALSE)
    <3>1. Head(page) \in Answer
      BY <2>2 DEF IInv, Paged
    <3>2. Head(page).claim \in Nat
      BY <3>1 DEF Answer
    <3> QED BY <1>1, <1>2, <2>2, <3>2, RecordedKeeps
  <2> QED BY <1>3, <2>1, <2>2 DEF R!ApplyWoo
<1>4. CASE R!NotCollected
  <2>1. R!Recorded(0, "not_collected", TRUE)
    BY <1>4 DEF R!NotCollected
  <2> QED BY <1>1, <1>2, <2>1, RecordedKeeps
<1>5. CASE R!Withdrawal
  <2>1. PICK c \in DOMAIN claims : R!Recorded(c, "pending", FALSE)
    BY <1>5 DEF R!Withdrawal
  <2>2. c \in Nat
    BY <1>1 DEF Tables
  <2> QED BY <1>1, <1>2, <2>1, <2>2, RecordedKeeps
<1>6. CASE R!Manual
  <2>1. PICK to \in {"pending", "in_transit"}, known \in BOOLEAN : R!Recorded(0, to, known)
    BY <1>6 DEF R!Manual
  <2> QED BY <1>1, <1>2, <2>1, RecordedKeeps
<1> QED BY <1>3, <1>4, <1>5, <1>6

(* Whatever happens, the table is kept. *)
LEMMA RowsStep ==
  ASSUME IInv, [R!Next]_(R!vars) PROVE TableKept
<1>1. CASE UNCHANGED rows
  BY <1>1 DEF IInv, TableKept, R!OneRowPerClaim, Tables
<1>2. ASSUME NEW s \in Pages, R!BankTransfer(s) \/ R!Record(s) PROVE TableKept
  <2>1. \E i \in DOMAIN rows : rows' = R!Settled(i)
    BY <1>2 DEF R!BankTransfer, R!Record, IInv, Grounded
  <2> QED BY <2>1, SettledKeeps
<1>3. CASE R!Reconcile
  BY <1>3, SettledKeeps DEF R!Reconcile
<1>4. ASSUME NEW s \in Pages, R!BeginRefund(s) \/ R!Pay(s) \/ R!PayFails(s) \/ R!Killed(s)
      PROVE  UNCHANGED rows
  BY <1>4 DEF R!BeginRefund, R!Pay, R!PayFails, R!Killed
<1>5. ASSUME \/ R!Announce \/ R!Carry \/ R!Restarted \/ R!Fetch \/ R!BeginTracking
             \/ R!ListDelivered
      PROVE  UNCHANGED rows
  BY <1>5 DEF R!Announce, R!Carry, R!Restarted, R!Fetch, R!BeginTracking, R!ListDelivered
<1>6. ASSUME NEW c \in DOMAIN claims, R!Advance(c) PROVE UNCHANGED rows
  BY <1>6 DEF R!Advance
<1> QED BY <1>1, <1>2, <1>3, <1>4, <1>5, <1>6, OneEdited, RecordedBy, AllegroKeeps, EndTrackingKeeps,
           ExpireKeeps DEF R!Next, R!Sync, R!vars

-----------------------------------------------------------------------------
(***************************************************************************)
(* The other parts of the invariant.                                       *)
(***************************************************************************)
LEMMA TablesStep ==
  ASSUME IInv, [R!Next]_(R!vars) PROVE Tables'
<1>1. Tables /\ rows' \in Seq(AnyRow)
  BY RowsStep DEF IInv, TableKept
<1>2. CASE UNCHANGED claims
  <2>1. UNCHANGED platform
    BY <1>2 DEF R!Next, R!Sync, R!vars, R!outside, R!Announce, R!Carry, R!NotCollected, R!Advance,
       R!Age, R!Fetch, R!ApplyAllegro,
       R!ApplyWoo, R!BeginTracking, R!EndTracking, R!ListDelivered, R!Restock, R!Expire, R!Restarted, R!Withdrawal,
       R!Reconcile, R!Manual,
       R!MarkDelivered, R!RestoreStock, R!ChooseInpost, R!BankTransfer, R!BeginRefund, R!Pay,
       R!PayFails, R!Record, R!Killed
  <2> QED BY <1>1, <1>2, <2>1 DEF Tables
<1>3. CASE R!Announce
  BY <1>1, <1>3 DEF Tables, R!Announce, R!States
<1>4. ASSUME NEW c \in DOMAIN claims, R!Advance(c) PROVE Tables'
  <2>1. PICK to \in R!States : claims' = [claims EXCEPT ![c] = to]
    BY <1>4 DEF R!Advance
  <2>2. claims' \in Seq(R!States)
    BY <1>1, <2>1, ExceptSeq DEF Tables
  <2> QED BY <1>1, <1>4, <2>2 DEF Tables, R!Advance
<1>5. UNCHANGED claims \/ R!Announce \/ \E c \in DOMAIN claims : R!Advance(c)
  BY DEF R!Next, R!Sync, R!vars, R!outside, R!Carry, R!NotCollected, R!Age, R!Fetch, R!ApplyAllegro,
     R!ApplyWoo, R!BeginTracking, R!EndTracking, R!ListDelivered, R!Restock, R!Expire, R!Restarted, R!Withdrawal,
     R!Reconcile, R!Manual,
     R!MarkDelivered, R!RestoreStock, R!ChooseInpost, R!BankTransfer, R!BeginRefund, R!Pay,
     R!PayFails, R!Record, R!Killed
<1> QED BY <1>2, <1>3, <1>4, <1>5

LEMMA PagedStep ==
  ASSUME IInv, [R!Next]_(R!vars) PROVE Paged'
<1>1. /\ page \in Seq(Answer) /\ claims \in Seq(R!States)
      /\ platform = "allegro" => \A c \in DOMAIN page : page[c].claim = c
  BY DEF IInv, Tables, Paged
<1>2. UNCHANGED platform
  BY DEF R!Next, R!Sync, R!vars, R!outside, R!Announce, R!Carry, R!NotCollected, R!Advance, R!Age,
     R!Fetch, R!ApplyAllegro,
     R!ApplyWoo, R!BeginTracking, R!EndTracking, R!ListDelivered, R!Restock, R!Expire, R!Restarted, R!Withdrawal,
     R!Reconcile, R!Manual,
     R!MarkDelivered, R!RestoreStock, R!ChooseInpost, R!BankTransfer, R!BeginRefund, R!Pay,
     R!PayFails, R!Record, R!Killed
<1>3. CASE UNCHANGED page
  BY <1>1, <1>2, <1>3 DEF Paged
<1>4. CASE page' = <<>>
  BY <1>4 DEF Paged
<1>5. CASE R!Fetch /\ page' # <<>>
  <2>1. PICK after \in 0..Len(claims) :
           /\ platform = "allegro" => after = 0
           /\ page' = [k \in 1..(Len(claims) - after) |-> R!Listed(after + k)]
    BY <1>5 DEF R!Fetch
  <2>2. Len(claims) \in Nat /\ Len(claims) - after \in Nat /\ DOMAIN page' = 1..(Len(claims) - after)
    BY <1>1, <2>1
  <2>3. \A k \in DOMAIN page' : page'[k] \in Answer /\ page'[k].claim = after + k
    <3> SUFFICES ASSUME NEW k \in DOMAIN page'
                 PROVE  page'[k] \in Answer /\ page'[k].claim = after + k
      OBVIOUS
    <3>1. after + k \in Nat /\ claims[after + k] \in R!States
      BY <1>1, <2>2
    <3>2. page'[k] = [claim |-> after + k, state |-> claims[after + k]]
      BY <2>1, <2>2 DEF R!Listed
    <3> QED BY <3>1, <3>2 DEF Answer
  <2>4. page' \in [1..(Len(claims) - after) -> Answer]
    BY <2>1, <2>2, <2>3
  <2>5. page' \in Seq(Answer)
    BY <2>2, <2>4
  <2>6. platform = "allegro" => \A c \in DOMAIN page' : page'[c].claim = c
    BY <2>1, <2>2, <2>3
  <2> QED BY <1>2, <2>5, <2>6 DEF Paged
<1>6. CASE R!ApplyWoo /\ ~UNCHANGED page
  <2>1. page # <<>> /\ page' = Tail(page) /\ platform = "woo"
    BY <1>6 DEF R!ApplyWoo
  <2>2. page' \in Seq(Answer)
    BY <1>1, <2>1
  <2> QED BY <1>2, <2>1, <2>2 DEF Paged
<1>7. UNCHANGED page \/ page' = <<>> \/ R!Fetch \/ R!ApplyWoo
  BY DEF R!Next, R!Sync, R!vars, R!sync, R!Announce, R!Carry, R!NotCollected, R!Advance, R!Age,
     R!ApplyAllegro,
     R!BeginTracking, R!EndTracking, R!ListDelivered, R!Restock, R!Expire, R!Restarted, R!Withdrawal, R!Reconcile,
     R!Manual,
     R!MarkDelivered, R!RestoreStock, R!ChooseInpost, R!BankTransfer, R!BeginRefund, R!Pay,
     R!PayFails, R!Record, R!Killed
<1> QED BY <1>3, <1>4, <1>5, <1>6, <1>7

(* Only these actions touch the payments. *)
LEMMA Payers ==
  ASSUME [R!Next]_(R!vars)
  PROVE  \/ UNCHANGED R!money
         \/ \E s \in Pages : \/ R!BankTransfer(s) \/ R!BeginRefund(s) \/ R!Pay(s)
                             \/ R!PayFails(s) \/ R!Record(s) \/ R!Killed(s)
BY DEF R!Next, R!Sync, R!vars, R!Announce, R!Carry, R!NotCollected, R!Advance, R!Age, R!Fetch,
   R!ApplyAllegro, R!ApplyWoo, R!BeginTracking, R!EndTracking, R!ListDelivered, R!Restock, R!Expire,
   R!Restarted, R!Withdrawal, R!Reconcile, R!Manual, R!MarkDelivered, R!RestoreStock, R!ChooseInpost

LEMMA AfterPlaces ==
  ASSUME Payments, NEW s \in Pages, NEW i, NEW then \in Places
  PROVE  /\ R!After(s, i, then) \in [Pages -> Places] /\ R!After(s, i, then)[s] = then
         /\ \A t \in Pages \ {s} : R!After(s, i, then)[t] =
              IF request[t] = "paying" /\ of[t] = i THEN "late" ELSE request[t]
BY DEF Payments, Places, R!After

(* one payment more, and one slip more or none *)
LEMMA Counts ==
  ASSUME Payments, NEW i
  PROVE  /\ R!Pays(i) => /\ paid' \in [R!Rows -> Nat]
                         /\ \A j \in R!Rows : paid'[j] = IF j = i THEN paid[j] + 1 ELSE paid[j]
         /\ \A bad \in BOOLEAN : R!Slip(i, bad) =>
              /\ slips' \in [R!Rows -> Nat]
              /\ \A j \in R!Rows : slips'[j] = IF j = i /\ bad THEN slips[j] + 1 ELSE slips[j]
BY DEF Payments, R!Pays, R!Slip

LEMMA PaymentsStep ==
  ASSUME IInv, [R!Next]_(R!vars) PROVE Payments' /\ Grounded'
<1>1. Payments /\ Grounded /\ \A i \in DOMAIN rows : i \in DOMAIN rows' /\ i \in Nat
  BY RowsStep DEF IInv, TableKept, Tables
<1>2. CASE UNCHANGED R!money
  BY <1>1, <1>2 DEF Payments, Grounded, R!money
<1>3. ASSUME NEW s \in Pages, R!BankTransfer(s) PROVE Payments' /\ Grounded'
  <2>1. PICK i \in DOMAIN rows : /\ request[s] = "idle" /\ R!Pays(i) /\ R!Slip(i, R!Overlaps(s, i))
                                /\ request' = R!After(s, i, "idle") /\ UNCHANGED of
    BY <1>3 DEF R!BankTransfer
  <2>2. R!Overlaps(s, i) \in BOOLEAN
    BY DEF R!Overlaps
  <2>3. Payments'
    BY <1>1, <2>1, <2>2, AfterPlaces, Counts DEF Payments, Places
  <2>4. \A t \in Pages : request'[t] # "idle" => request[t] # "idle"
    BY <1>1, <2>1, AfterPlaces DEF Places
  <2> QED BY <1>1, <2>1, <2>3, <2>4 DEF Grounded
<1>4. ASSUME NEW s \in Pages, R!BeginRefund(s) PROVE Payments' /\ Grounded'
  BY <1>1, <1>4 DEF R!BeginRefund, R!Refundable, Payments, Grounded, Places
<1>5. ASSUME NEW s \in Pages, R!Pay(s) PROVE Payments' /\ Grounded'
  <2>1. /\ request[s] \in {"paying", "late"} /\ R!Pays(of[s])
        /\ \E bad \in BOOLEAN : R!Slip(of[s], bad)
        /\ \/ request' = R!After(s, of[s], "paid") /\ UNCHANGED of
           \/ request' = R!After(s, of[s], "idle") /\ of' = [of EXCEPT ![s] = 0]
    <3>1. (request[s] = "late") \in BOOLEAN
      OBVIOUS
    <3> QED BY <1>5, <3>1 DEF R!Pay, R!Begun, R!Leaves
  <2>2. Payments'
    BY <1>1, <2>1, AfterPlaces, Counts DEF Payments, Places
  <2>3. \A t \in Pages : request'[t] # "idle" => request[t] # "idle" /\ of'[t] = of[t]
    BY <1>1, <2>1, AfterPlaces DEF Places, Payments
  <2> QED BY <1>1, <2>2, <2>3 DEF Grounded
<1>6. ASSUME NEW s \in Pages, R!PayFails(s) \/ R!Record(s) \/ R!Killed(s) PROVE Payments' /\ Grounded'
  <2>1. /\ request' = [request EXCEPT ![s] = "idle"] /\ of' = [of EXCEPT ![s] = 0] /\ paid' = paid
        /\ slips' = slips \/ \E bad \in BOOLEAN : R!Slip(of[s], bad)
    <3>1. (request[s] = "paid") \in BOOLEAN
      OBVIOUS
    <3> QED BY <1>6, <3>1 DEF R!PayFails, R!Record, R!Killed, R!Leaves
  <2>2. Payments'
    BY <1>1, <2>1, Counts DEF Payments, Places
  <2> QED BY <1>1, <2>1, <2>2 DEF Payments, Grounded
<1> QED BY <1>2, <1>3, <1>4, <1>5, <1>6, Payers

(* What happens to one return leaves the money of the others alone. *)
LEMMA OthersKeep ==
  ASSUME IInv, TableKept, NEW i \in R!Rows, paid'[i] = paid[i], slips'[i] = slips[i],
         \A t \in Pages : request'[t] = "paying" /\ of'[t] = i => request[t] = "paying" /\ of[t] = i,
         \A t \in Pages : request[t] = "paid" /\ of[t] = i => request'[t] = "paid" /\ of'[t] = i
  PROVE  MoneyOf(i)'
<1>1. MoneyOf(i) /\ (Returned(i) => Returned(i)')
  BY DEF IInv, Money, TableKept, Returned
<1> QED BY <1>1 DEF MoneyOf

(* The money: a payment that nothing had overtaken is the first, or the    *)
(* ones before it are accounted for.                                       *)
LEMMA MoneyStep ==
  ASSUME IInv, [R!Next]_(R!vars) PROVE Money'
<1>1. Payments /\ Money /\ Grounded /\ TableKept
  BY RowsStep DEF IInv
<1>2. /\ \A i \in R!Rows : paid[i] \in Nat /\ slips[i] \in Nat
      /\ request \in [Pages -> Places] /\ of \in [Pages -> Nat]
  BY <1>1 DEF Payments
<1>3. CASE UNCHANGED R!money
  <2> SUFFICES ASSUME NEW i \in R!Rows PROVE MoneyOf(i)'
    BY DEF Money
  <2> QED BY <1>1, <1>3, OthersKeep DEF R!money
<1>4. ASSUME NEW s \in Pages, R!BankTransfer(s), NEW i \in R!Rows PROVE MoneyOf(i)'
  <2>1. PICK k \in DOMAIN rows : /\ request[s] = "idle" /\ ~Returned(k) /\ rows' = R!Settled(k)
                                /\ R!Pays(k) /\ R!Slip(k, R!Overlaps(s, k))
                                /\ request' = R!After(s, k, "idle") /\ UNCHANGED of
    BY <1>4 DEF R!BankTransfer, R!Refundable, Returned
  <2>a. R!Overlaps(s, k) \in BOOLEAN
    BY DEF R!Overlaps
  <2>2. /\ paid'[i] = IF i = k THEN paid[i] + 1 ELSE paid[i]
        /\ slips'[i] = IF i = k /\ R!Overlaps(s, k) THEN slips[i] + 1 ELSE slips[i]
    BY <1>1, <2>1, <2>a, Counts
  <2>3. \A t \in Pages : request'[t] = IF request[t] = "paying" /\ of[t] = k THEN "late" ELSE request[t]
    BY <1>1, <2>1, AfterPlaces DEF Places
  <2>4. CASE i # k
    BY <1>1, <2>1, <2>2, <2>3, <2>4, OthersKeep
  <2>5. CASE i = k
    <3>1. paid[i] > slips[i] => R!Overlaps(s, k)
      BY <1>1, <2>1, <2>5 DEF Money, MoneyOf, R!Overlaps
    <3>2. Returned(i)'
      BY <2>1, <2>5, SettledKeeps
    <3>3. paid'[i] <= slips'[i] + 1
      BY <1>1, <1>2, <2>2, <2>5, <3>1 DEF Money, MoneyOf
    <3> QED BY <2>1, <2>3, <2>5, <3>2, <3>3 DEF MoneyOf
  <2> QED BY <2>4, <2>5
<1>5. ASSUME NEW s \in Pages, R!BeginRefund(s), NEW i \in R!Rows PROVE MoneyOf(i)'
  <2>1. PICK k \in DOMAIN rows :
          /\ request[s] = "idle" /\ ~Returned(k) /\ UNCHANGED <<paid, slips>>
          /\ of' = [of EXCEPT ![s] = k]
          /\ request' = [request EXCEPT ![s] = IF R!Overlaps(s, k) THEN "late" ELSE "paying"]
    BY <1>5 DEF R!BeginRefund, R!Refundable, Returned
  <2>2. /\ \A t \in Pages \ {s} : request'[t] = request[t] /\ of'[t] = of[t]
        /\ of'[s] = k /\ request'[s] = IF R!Overlaps(s, k) THEN "late" ELSE "paying"
    BY <1>2, <2>1
  <2>3. CASE i # k
    BY <1>1, <2>1, <2>2, <2>3, OthersKeep
  <2>4. CASE i = k
    <3>1. ~R!Overlaps(s, k) => paid[i] <= slips[i]
      BY <1>1, <1>2, <2>1, <2>4 DEF Money, MoneyOf, R!Overlaps
    <3>2. Returned(i) => Returned(i)'
      BY <1>1 DEF TableKept, Returned
    <3> QED BY <1>1, <2>1, <2>2, <2>4, <3>1, <3>2 DEF Money, MoneyOf
  <2> QED BY <2>3, <2>4
<1>6. ASSUME NEW s \in Pages, R!Pay(s), NEW i \in R!Rows PROVE MoneyOf(i)'
  <2> DEFINE k == of[s]
             late == request[s] = "late"
  <2>1. request[s] \in {"paying", "late"} /\ R!Pays(k)
    BY <1>6 DEF R!Pay, R!Begun
  <2>2. paid'[i] = IF i = k THEN paid[i] + 1 ELSE paid[i]
    BY <1>1, <2>1, Counts
  <2>a. \A t \in Pages : request[t] = "paid" => t # s
    BY <2>1
  <2>3. CASE request' = R!After(s, k, "paid") /\ UNCHANGED of /\ R!Slip(k, late)
    <3>0. late \in BOOLEAN
      OBVIOUS
    <3> HIDE DEF k, late
    <3>1. slips'[i] = IF i = k /\ late THEN slips[i] + 1 ELSE slips[i]
      BY <1>1, <2>3, <3>0, Counts
    <3> USE DEF k, late
    <3>2. /\ request'[s] = "paid" /\ of' = of
          /\ \A t \in Pages \ {s} :
               request'[t] = IF request[t] = "paying" /\ of[t] = k THEN "late" ELSE request[t]
      BY <1>1, <2>3, AfterPlaces DEF Places
    <3>3. CASE i # k
      BY <1>1, <2>2, <2>a, <3>1, <3>2, <3>3, OthersKeep
    <3>4. CASE i = k
      <4>1. paid'[i] <= slips'[i] + 1
        BY <1>1, <1>2, <2>1, <2>2, <3>1, <3>4 DEF Money, MoneyOf
      <4>2. \A t \in Pages : of'[t] = i => request'[t] # "paying"
        BY <3>2, <3>4
      <4> QED BY <3>2, <3>4, <4>1, <4>2 DEF MoneyOf
    <3> QED BY <3>3, <3>4
  <2>4. CASE request' = R!After(s, k, "idle") /\ R!Leaves(s) /\ R!Slip(k, TRUE)
    <3>1. slips'[i] = IF i = k THEN slips[i] + 1 ELSE slips[i]
      BY <1>1, <2>4, Counts
    <3>a. /\ request'[s] = "idle"
          /\ \A t \in Pages \ {s} :
               request'[t] = IF request[t] = "paying" /\ of[t] = k THEN "late" ELSE request[t]
      BY <1>1, <2>4, AfterPlaces DEF Places
    <3>b. \A t \in Pages \ {s} : of'[t] = of[t]
      BY <1>2, <2>4 DEF R!Leaves
    <3>3. CASE i # k
      BY <1>1, <2>2, <2>a, <3>1, <3>a, <3>b, <3>3, OthersKeep
    <3>4. CASE i = k
      <4>1. paid'[i] <= slips'[i] + 1 /\ (paid'[i] > slips'[i] => paid[i] > slips[i])
        BY <1>1, <1>2, <2>2, <3>1, <3>4 DEF Money, MoneyOf
      <4>2. Returned(i) => Returned(i)'
        BY <1>1 DEF TableKept, Returned
      <4>3. \A t \in Pages : request'[t] = "paying" => of'[t] # i
        BY <3>a, <3>b, <3>4
      <4>4. \A t \in Pages : request[t] = "paid" => request'[t] = "paid" /\ of'[t] = of[t]
        BY <2>a, <3>a, <3>b
      <4> QED BY <1>1, <4>1, <4>2, <4>3, <4>4 DEF Money, MoneyOf
    <3> QED BY <3>3, <3>4
  <2> QED BY <1>6, <2>3, <2>4 DEF R!Pay
<1>7. ASSUME NEW s \in Pages, R!PayFails(s), NEW i \in R!Rows PROVE MoneyOf(i)'
  <2>1. /\ request[s] \in {"paying", "late"} /\ UNCHANGED <<paid, slips>>
        /\ request' = [request EXCEPT ![s] = "idle"] /\ of' = [of EXCEPT ![s] = 0]
    BY <1>7 DEF R!PayFails, R!Begun, R!Leaves
  <2>2. request'[s] = "idle" /\ \A t \in Pages \ {s} : request'[t] = request[t] /\ of'[t] = of[t]
    BY <1>2, <2>1
  <2> QED BY <1>1, <2>1, <2>2, OthersKeep
<1>8. ASSUME NEW s \in Pages, R!Record(s), NEW i \in R!Rows PROVE MoneyOf(i)'
  <2>1. /\ request[s] = "paid" /\ UNCHANGED <<paid, slips>> /\ rows' = R!Settled(of[s])
        /\ request' = [request EXCEPT ![s] = "idle"] /\ of' = [of EXCEPT ![s] = 0]
    BY <1>8 DEF R!Record, R!Leaves
  <2>2. request'[s] = "idle" /\ \A t \in Pages \ {s} : request'[t] = request[t] /\ of'[t] = of[t]
    BY <1>2, <2>1
  <2>3. CASE i # of[s]
    BY <1>1, <2>1, <2>2, <2>3, OthersKeep
  <2>4. CASE i = of[s]
    <3>1. Returned(i)'
      BY <1>1, <2>1, <2>4, SettledKeeps DEF Grounded
    <3>2. \A t \in Pages : request'[t] = "paying" => request[t] = "paying" /\ of'[t] = of[t]
      BY <2>2
    <3> QED BY <1>1, <2>1, <3>1, <3>2 DEF Money, MoneyOf
  <2> QED BY <2>3, <2>4
<1>9. ASSUME NEW s \in Pages, R!Killed(s), NEW i \in R!Rows PROVE MoneyOf(i)'
  <2> DEFINE lost == request[s] = "paid"
  <2>1. /\ UNCHANGED paid /\ R!Slip(of[s], lost)
        /\ request' = [request EXCEPT ![s] = "idle"] /\ of' = [of EXCEPT ![s] = 0]
    BY <1>9 DEF R!Killed, R!Leaves
  <2>2. request'[s] = "idle" /\ \A t \in Pages \ {s} : request'[t] = request[t] /\ of'[t] = of[t]
    BY <1>2, <2>1
  <2>3. slips'[i] = IF i = of[s] /\ lost THEN slips[i] + 1 ELSE slips[i]
    BY <1>1, <2>1, Counts
  <2>4. CASE i # of[s] \/ ~lost
    BY <1>1, <2>1, <2>2, <2>3, <2>4, OthersKeep
  <2>5. CASE i = of[s] /\ lost
    <3>1. paid'[i] <= slips'[i]
      BY <1>1, <1>2, <2>1, <2>3, <2>5 DEF Money, MoneyOf
    <3>2. paid'[i] <= slips'[i] + 1 /\ ~(paid'[i] > slips'[i])
      BY <1>2, <2>1, <2>3, <2>5, <3>1
    <3> QED BY <3>1, <3>2 DEF MoneyOf
  <2> QED BY <2>4, <2>5
<1> QED BY <1>3, <1>4, <1>5, <1>6, <1>7, <1>8, <1>9, Payers DEF Money

-----------------------------------------------------------------------------
(***************************************************************************)
(* The theorems.                                                           *)
(***************************************************************************)
LEMMA Initially == R!Init => IInv
<1> SUFFICES ASSUME R!Init PROVE IInv
  OBVIOUS
<1>1. /\ rows = <<>> /\ page = <<>> /\ claims = <<>> /\ platform \in {"allegro", "woo"}
      /\ request = [s \in Pages |-> "idle"] /\ of = [s \in Pages |-> 0]
      /\ paid = [i \in R!Rows |-> 0] /\ slips = [i \in R!Rows |-> 0]
  BY DEF R!Init
<1>2. Tables /\ Payments /\ Paged /\ R!OneRowPerClaim
  BY <1>1 DEF Tables, Payments, Places, Paged, R!OneRowPerClaim
<1>3. Grounded /\ Money
  BY <1>1 DEF Grounded, Money, MoneyOf
<1> QED BY <1>2, <1>3 DEF IInv

LEMMA ReturnsInductive == IInv /\ [NextBoth]_<<part, vars, returns>> => IInv'
<1>1. ASSUME IInv, [R!Next]_(R!vars) PROVE IInv'
  BY <1>1, TablesStep, PagedStep, PaymentsStep, MoneyStep, RowsStep DEF IInv, TableKept
<1>2. UNCHANGED returns => UNCHANGED R!vars
  BY DEF returns, R!vars, R!outside, R!sync, R!money, R!bounds
<1> QED BY <1>1, <1>2 DEF NextBoth

LEMMA ReturnsInvariant == SpecBoth => []IInv
<1>1. InitBoth => IInv
  BY Initially DEF InitBoth
<1> QED BY <1>1, ReturnsInductive, PTL DEF SpecBoth

(* The buyer gets the money of a return once, whichever of the order's     *)
(* rows a request comes upon: every payment for it beyond the first        *)
(* overlapped with another, or its answer or its record was lost.          *)
THEOREM MoneyGoesBackOnce == SpecBoth => []MoneyBackOnce
<1>1. IInv => MoneyBackOnce
  BY DEF IInv, Payments, Money, MoneyOf, MoneyBackOnce, R!MoneyBackOnce
<1> QED BY <1>1, ReturnsInvariant, PTL

(* However often Allegro lists a return and a webhook brings a withdrawal, *)
(* the table has one row for it.                                           *)
THEOREM ClaimsHaveOneRow == SpecBoth => []OneRowPerClaim
<1>1. IInv => OneRowPerClaim
  BY DEF IInv, OneRowPerClaim
<1> QED BY <1>1, ReturnsInvariant, PTL

-----------------------------------------------------------------------------
(***************************************************************************)
(* A settled return.                                                       *)
(***************************************************************************)
(* the tracking holds the statuses of the returns that were under way *)
HeldActive == stage = "held" => \A i \in DOMAIN held : held[i] \in {"pending", "in_transit", "closed"}

LEMMA HeldStep == HeldActive /\ [NextBoth]_<<part, vars, returns>> => HeldActive'
<1> SUFFICES ASSUME HeldActive, [NextBoth]_<<part, vars, returns>> PROVE HeldActive'
  OBVIOUS
<1>1. CASE UNCHANGED <<stage, held>>
  BY <1>1 DEF HeldActive
<1>2. CASE stage' # "held"
  BY <1>2 DEF HeldActive
<1>3. CASE R!BeginTracking
  BY <1>3 DEF R!BeginTracking, R!Active, HeldActive
<1>4. UNCHANGED <<stage, held>> \/ stage' # "held" \/ R!BeginTracking
  <2>1. CASE UNCHANGED returns
    BY <2>1 DEF returns
  <2>2. CASE R!Sync \/ R!Restarted
    BY <2>2 DEF R!Sync, R!Goes, R!Fetch, R!ApplyAllegro, R!ApplyWoo, R!EndTracking, R!ListDelivered,
       R!Restock, R!Expire, R!Restarted
  <2>3. CASE R!Next /\ ~(R!Sync \/ R!Restarted)
    BY <2>3 DEF R!Next, R!sync, R!Announce, R!Carry, R!NotCollected,
       R!Advance, R!Age, R!Withdrawal, R!Reconcile, R!Manual, R!MarkDelivered, R!RestoreStock,
       R!ChooseInpost, R!BankTransfer, R!BeginRefund, R!Pay, R!PayFails, R!Record, R!Killed
  <2> QED BY <2>1, <2>2, <2>3 DEF NextBoth
<1> QED BY <1>1, <1>2, <1>3, <1>4

(* the news that may open a settled return *)
News(i) ==
  \/ stage = "fetched" /\ rows[i].allegro \in DOMAIN page
  \/ stage = "held" /\ i \in DOMAIN held /\ held[i] \in {"pending", "in_transit"}
  \/ platform = "woo" /\ (R!Withdrawal \/ page' # page)
  \/ unclaimed' # unclaimed

LEMMA SettledStep ==
  ASSUME IInv, HeldActive, R!Next, NEW i \in DOMAIN rows,
         rows[i].refund, rows[i].status = "completed", rows'[i].status # "completed"
  PROVE  News(i)
<1>0. rows \in [DOMAIN rows -> AnyRow] /\ rows[i] \in AnyRow
  BY DEF IInv, Tables
<1>1. rows' # rows
  OBVIOUS
<1>2. CASE R!ApplyAllegro
  <2>1. rows'[i] = R!Updated(rows[i]) /\ stage = "fetched"
    BY <1>2, AllegroKeeps DEF R!ApplyAllegro
  <2> QED BY <2>1 DEF R!Updated, News
<1>3. CASE R!ApplyWoo
  <2>1. page # <<>> /\ page' = Tail(page) /\ platform = "woo"
    BY <1>1, <1>3 DEF R!ApplyWoo
  <2>2. page \in Seq(Answer)
    BY DEF IInv, Paged
  <2>3. Len(Tail(page)) # Len(page)
    BY <2>1, <2>2, HeadTailProperties, EmptySeq
  <2> QED BY <2>1, <2>3 DEF News
<1>4. CASE R!EndTracking
  <2>1. rows'[i] = R!Tracked(i) /\ stage = "held"
    BY <1>1, <1>4 DEF R!EndTracking
  <2>2. i \in DOMAIN held /\ held[i] # "closed"
    BY <2>1 DEF R!Tracked
  <2> QED BY <2>1, <2>2 DEF News, HeldActive
<1>5. CASE R!Expire
  BY <1>5 DEF R!Expire
<1>6. CASE R!NotCollected
  BY <1>6 DEF R!NotCollected, News
<1>7. CASE R!Withdrawal
  BY <1>7 DEF R!Withdrawal, News
<1>8. CASE R!Manual
  BY <1>8 DEF R!Manual
<1>9. ASSUME NEW k \in DOMAIN rows, R!Age(k) PROVE FALSE
  BY <1>0, <1>9 DEF R!Age, AnyRow
<1>10. CASE R!ChooseInpost
  BY <1>0, <1>1, <1>10 DEF R!ChooseInpost, AnyRow
<1>18. CASE R!Restock
  <2>1. PICK k \in DOMAIN held : rows' = [rows EXCEPT ![k] = R!Back(rows[k])]
    BY <1>1, <1>18 DEF R!Restock
  <2>2. R!Back(rows[i]).status = rows[i].status
    BY <1>0 DEF R!Back, AnyRow
  <2> QED BY <1>0, <2>1, <2>2
<1>11. CASE R!MarkDelivered
  BY <1>0, <1>11 DEF R!MarkDelivered, AnyRow
<1>12. CASE R!RestoreStock
  <2>1. PICK k \in DOMAIN rows :
          rows' = [rows EXCEPT ![k].stock = R!Leads(rows[k]),
                     ![k].status = IF @ \in {"pending", "in_transit"} THEN "delivered" ELSE @]
    BY <1>12 DEF R!RestoreStock
  <2> QED BY <1>0, <2>1 DEF AnyRow
<1>13. ASSUME NEW k, rows' = R!Settled(k) PROVE FALSE
  BY <1>0, <1>13 DEF R!Settled, AnyRow
<1>14. R!Reconcile => \E k \in DOMAIN rows : rows' = R!Settled(k)
  BY DEF R!Reconcile
<1>15. \A s \in Pages : R!BankTransfer(s) \/ R!Record(s) => \E k : rows' = R!Settled(k)
  BY DEF R!BankTransfer, R!Record
<1>16. \A s \in Pages : ~(R!BeginRefund(s) \/ R!Pay(s) \/ R!PayFails(s) \/ R!Killed(s))
  BY <1>1 DEF R!BeginRefund, R!Pay, R!PayFails, R!Killed
<1>17. /\ ~(R!Announce \/ R!Carry \/ R!Restarted \/ R!Fetch \/ R!BeginTracking \/ R!ListDelivered)
       /\ \A c \in DOMAIN claims : ~R!Advance(c)
  BY <1>1 DEF R!Announce, R!Carry, R!Restarted, R!Fetch, R!BeginTracking, R!ListDelivered, R!Advance
<1> QED BY <1>2, <1>3, <1>4, <1>5, <1>6, <1>7, <1>8, <1>9, <1>10, <1>11, <1>12, <1>13, <1>14,
           <1>15, <1>16, <1>17, <1>18 DEF R!Next, R!Sync

(* For any returns, requests and failures: what was refunded and completed  *)
(* is opened again only by the platform's own news of it, or by a tracking  *)
(* that had begun before it was settled.                                    *)
THEOREM SettledReturnsStay == SpecBoth => SettledStays
<1> DEFINE A == \A i \in DOMAIN rows :
                  rows[i].refund /\ rows[i].status = "completed" /\ rows'[i].status # "completed" =>
                    News(i)
<1>1. InitBoth => HeldActive
  BY DEF InitBoth, R!Init, HeldActive
<1>2. IInv /\ HeldActive /\ [NextBoth]_<<part, vars, returns>> => [A]_(R!vars)
  <2>1. UNCHANGED returns => UNCHANGED R!vars
    BY DEF returns, R!vars, R!outside, R!sync, R!money, R!bounds
  <2>2. IInv /\ HeldActive /\ R!Next => A
    BY SettledStep
  <2> QED BY <2>1, <2>2 DEF NextBoth
<1>3. SpecBoth => [][A]_(R!vars)
  BY <1>1, <1>2, ReturnsInvariant, HeldStep, PTL DEF SpecBoth
<1>4. A <=> \A i \in DOMAIN rows :
  rows[i].refund /\ rows[i].status = "completed" /\ rows'[i].status # "completed" =>
    \/ stage = "fetched" /\ rows[i].allegro \in DOMAIN page
    \/ stage = "held" /\ i \in DOMAIN held /\ held[i] \in {"pending", "in_transit"}
    \/ platform = "woo" /\ (R!Withdrawal \/ page' # page)
    \/ unclaimed' # unclaimed
  BY DEF News
<1> QED BY <1>3, <1>4, PTL DEF SettledStays, R!SettledStays
=============================================================================
