----------------------------- MODULE Stocktake -----------------------------
(***************************************************************************)
(* Stocktakes: a snapshot of the quantities of all variants that have a    *)
(* barcode, a person who scans every piece on the shelves while the shop   *)
(* goes on selling and receiving, and the correction of the quantities     *)
(* where the count differs from the snapshot.                              *)
(*                                                                         *)
(* Requests load rows, change them in memory and write them at the commit, *)
(* without locks: another device or a second click may come in between.    *)
(* What a corrected quantity does to the value of stock is Stock's matter. *)
(***************************************************************************)
EXTENDS Integers, Sequences, FiniteSets, SequencesExt

CONSTANTS
  Variants,      \* product_sizes
  Takes,         \* ids of stocktakes
  Pages,         \* web requests
  None,          \* no variant
  Shelf,         \* what is on the shelf at the start
  Books,         \* what product_sizes.quantity says then
  Coded,         \* the variants that have a barcode then
  MaxRequests,   \* bound: how many requests are made
  MaxMoves       \* bound: pieces sold or received

VARIABLES
  qty,       \* ProductSize.quantity
  shelf,     \* the pieces that are there
  coded,     \* the variants with a barcode
  status,    \* Stocktake.status, "none" before it is stored
  rows,      \* its StocktakeItems: variant, expected_qty, scanned_qty, scanned_at (0: none)
  work,      \* the requests: kind, stocktake, item or variant, what they loaded
  count,     \* how many pieces of a variant the person has scanned and not taken back
  last,      \* the variant that the person scanned last, None once that is taken back
  due,       \* history: the pieces there were when a variant's first was scanned
  before,    \* history: variants of which a piece moved after the snapshot and before that
  after,     \* history: variants of which a piece moved later
  spoilt,    \* history: two scans overlapped, or two were taken back one after another
  requests, moves

tables == <<qty, coded, status, rows>>
person == <<count, last>>
history == <<due, before, after, spoilt>>
vars == <<tables, shelf, work, person, history, requests, moves>>

Idle == [kind |-> "none"]

Init ==
  /\ qty = Books /\ shelf = Shelf /\ coded = Coded
  /\ status = [t \in Takes |-> "none"]
  /\ rows = [t \in Takes |-> <<>>] /\ work = [p \in Pages |-> Idle]
  /\ count = [t \in Takes |-> [v \in Variants |-> 0]] /\ due = count
  /\ last = [t \in Takes |-> None]
  /\ before = [t \in Takes |-> {}] /\ after = [t \in Takes |-> {}]
  /\ spoilt = [t \in Takes |-> FALSE]
  /\ requests = 0 /\ moves = 0

Busy(t, kinds) == \E p \in Pages : work[p].kind \in kinds /\ work[p].take = t
Begun(t) == status[t] # "none" \/ Busy(t, {"new"})
RowsOf(t, v) == {i \in DOMAIN rows[t] : rows[t][i].variant = v}

-----------------------------------------------------------------------------
(* The shop meanwhile.                                                     *)

(* the first piece of a variant is counted, or all of them are *)
Shift(v, n) ==
  /\ moves < MaxMoves /\ moves' = moves + 1
  /\ qty' = [qty EXCEPT ![v] = @ + n] /\ shelf' = [shelf EXCEPT ![v] = @ + n]
  /\ before' = [t \in Takes |->
       IF Begun(t) /\ (count[t][v] = 0 \/ count[t][v] < due[t][v])
       THEN before[t] \cup {v} ELSE before[t]]
  /\ after' = [t \in Takes |->
       IF Begun(t) /\ count[t][v] > 0 THEN after[t] \cup {v} ELSE after[t]]
  /\ UNCHANGED <<coded, status, rows, work, person, due, spoilt, requests>>

Sell(v) == qty[v] > 0 /\ shelf[v] > 0 /\ Shift(v, -1)
Receive(v) == Shift(v, 1)

EnterBarcode(v) ==
  /\ v \notin coded /\ coded' = coded \cup {v}
  /\ UNCHANGED <<qty, shelf, status, rows, work, person, history, requests, moves>>

-----------------------------------------------------------------------------
(* stocktake_new                                                           *)

Starts(p, r) ==
  /\ work[p] = Idle /\ requests < MaxRequests /\ requests' = requests + 1
  /\ work' = [work EXCEPT ![p] = r]
Ends(p) == work' = [work EXCEPT ![p] = Idle]

Item(v) == [variant |-> v, expected |-> qty[v], scanned |-> 0, at |-> 0]

LoadNew(p) == \E t \in Takes :
  /\ ~Begun(t) /\ \A u \in Takes : status[u] # "in_progress"
  /\ Starts(p, [kind |-> "new", take |-> t,
                items |-> SetToSeq({Item(v) : v \in coded})])
  /\ UNCHANGED <<tables, shelf, person, history, moves>>

CommitNew(p) ==
  /\ work[p].kind = "new" /\ Ends(p)
  /\ status' = [status EXCEPT ![work[p].take] = "in_progress"]
  /\ rows' = [rows EXCEPT ![work[p].take] = work[p].items]
  /\ UNCHANGED <<qty, coded, shelf, person, history, requests, moves>>

-----------------------------------------------------------------------------
(* stocktake_barcode_scan and stocktake_undo.  A variant that got its       *)
(* barcode later has no item yet; two scans of it at once make two.         *)

(* scanned_at is later than that of the other items *)
Now(t, v) == 1 + Max({0} \cup {rows[t][j].at : j \in DOMAIN rows[t] \ RowsOf(t, v)})
Scanned(item, now) == [item EXCEPT !.scanned = @ + 1, !.at = now]

LoadScan(p, t) == \E v \in coded :
  /\ status[t] = "in_progress" /\ count[t][v] < shelf[v]
  /\ LET new == RowsOf(t, v) = {}
     IN /\ \E i \in IF new THEN {0} ELSE RowsOf(t, v) :
             Starts(p, [kind |-> "scan", take |-> t, row |-> i,
                        item |-> Scanned(IF new THEN Item(v) ELSE rows[t][i], Now(t, v))])
        /\ before' = IF new THEN [before EXCEPT ![t] = @ \ {v}] ELSE before
  /\ count' = [count EXCEPT ![t][v] = @ + 1] /\ last' = [last EXCEPT ![t] = v]
  /\ due' = IF count[t][v] = 0 THEN [due EXCEPT ![t][v] = shelf[v]] ELSE due
  /\ spoilt' = [spoilt EXCEPT ![t] = @ \/ Busy(t, {"scan", "undo"})]
  /\ UNCHANGED <<tables, shelf, after, moves>>

(* one piece less of the item that was scanned last, even if a scan of it was
   taken back before *)
Undoable(t) == {i \in DOMAIN rows[t] : rows[t][i].scanned > 0}
Newest(t, i) == i \in Undoable(t) /\ \A j \in Undoable(t) : rows[t][j].at <= rows[t][i].at

LoadUndo(p, t) == \E v \in Variants, i \in DOMAIN rows[t] :
  /\ status[t] = "in_progress" /\ Newest(t, i)
  /\ count[t][v] > 0 /\ last[t] \in {v, None}
  /\ Starts(p, [kind |-> "undo", take |-> t, row |-> i,
                item |-> [rows[t][i] EXCEPT !.scanned = @ - 1]])
  /\ count' = [count EXCEPT ![t][v] = @ - 1] /\ last' = [last EXCEPT ![t] = None]
  /\ spoilt' = [spoilt EXCEPT ![t] = @ \/ last[t] = None \/ Busy(t, {"scan", "undo"})]
  /\ before' = [before EXCEPT ![t] = @ \cup (after[t] \cap {v})]
  /\ UNCHANGED <<tables, shelf, due, after, moves>>

Written(r) ==
  IF r.row = 0 THEN Append(rows[r.take], r.item)
  ELSE [rows[r.take] EXCEPT ![r.row].scanned = r.item.scanned,
                            ![r.row].at = IF r.kind = "scan" THEN r.item.at ELSE @]
CommitCount(p) ==
  /\ work[p].kind \in {"scan", "undo"} /\ Ends(p)
  /\ rows' = [rows EXCEPT ![work[p].take] = Written(work[p])]
  /\ UNCHANGED <<qty, coded, status, shelf, person, history, requests, moves>>

-----------------------------------------------------------------------------
(* stocktake_finish asks for no status: a stocktake that was applied can   *)
(* be finished once more, and applied once more.                           *)

Finish(t) ==
  /\ status[t] # "none" /\ requests < MaxRequests /\ requests' = requests + 1
  /\ status' = [status EXCEPT ![t] = "finished"]
  /\ spoilt' = [spoilt EXCEPT ![t] = @ \/ Busy(t, {"scan", "undo"})]
  /\ UNCHANGED <<qty, coded, rows, shelf, work, person, due, before, after, moves>>

(* stocktake_apply *)
LoadApply(p, t) ==
  /\ status[t] = "finished"
  /\ Starts(p, [kind |-> "apply", take |-> t, items |-> rows[t], loaded |-> qty])
  /\ UNCHANGED <<tables, shelf, person, history, moves>>

DifferentAlways(item) == TRUE
Different(item) == item.scanned # item.expected

(* a quantity that is as it was loaded is not written *)
Found(r, v) == {i \in DOMAIN r.items : r.items[i].variant = v /\ Different(r.items[i])}
Corrected(r, v) ==
  IF Found(r, v) = {} THEN qty[v]
  ELSE LET found == r.items[Max(Found(r, v))].scanned
       IN IF found = r.loaded[v] THEN qty[v] ELSE found

CommitApply(p) ==
  /\ work[p].kind = "apply" /\ Ends(p)
  /\ LET t == work[p].take
         new == [v \in Variants |-> Corrected(work[p], v)]
         touched == [u \in Takes |->
           IF Begun(u) /\ u # t THEN {v \in Variants : new[v] # qty[v]} ELSE {}]
     IN /\ qty' = new
        /\ status' = [status EXCEPT ![t] = "applied"]
        /\ before' = [u \in Takes |-> before[u] \cup touched[u]]
        /\ after' = [u \in Takes |-> after[u] \cup touched[u]]
  /\ UNCHANGED <<coded, rows, shelf, person, due, spoilt, requests, moves>>

-----------------------------------------------------------------------------
PageStep(p) ==
  \/ LoadNew(p) \/ CommitNew(p) \/ CommitCount(p) \/ CommitApply(p)
  \/ \E t \in Takes : LoadScan(p, t) \/ LoadUndo(p, t) \/ LoadApply(p, t)

Next ==
  \/ \E v \in Variants : Sell(v) \/ Receive(v) \/ EnterBarcode(v)
  \/ \E t \in Takes : Finish(t)
  \/ \E p \in Pages : PageStep(p)

Spec == Init /\ [][Next]_vars

-----------------------------------------------------------------------------
(* every piece of the variant was scanned, or there is none *)
Complete(t, v) == IF count[t][v] = 0 THEN shelf[v] = 0 ELSE count[t][v] = due[t][v]

(* The count of v as t has it is worth applying: it was corrected and nothing
   moved since it was counted, or it agreed and nothing moved before. *)
Trusted(t, v) ==
  /\ ~spoilt[t] /\ Complete(t, v)
  /\ \E i \in RowsOf(t, v) :
       v \notin IF rows[t][i].scanned # rows[t][i].expected THEN after[t] ELSE before[t]

Applies(p) == work[p].kind = "apply" /\ work'[p] = Idle

(* Applying a stocktake, also late, twice or after another one, makes the
   books of a variant true: if the count differed from the snapshot, unless a
   piece moved after it was counted; if it did not differ, unless one moved
   between the snapshot and the count, however many moved afterwards. *)
AppliedBooksAreTrue ==
  [][\A p \in Pages : Applies(p) =>
       \A v \in Variants : Trusted(work[p].take, v) => qty'[v] = shelf[v]]_vars
=============================================================================
