------------------------------- MODULE Goods -------------------------------
(***************************************************************************)
(* Which variant an order of one piece takes off the stock: the agent      *)
(* consumes what the line said when the order was collected, the page of   *)
(* the order changes the variant of the line, a cancellation and a return  *)
(* put back what the line or the Return names, imports rewrite the line.   *)
(*                                                                         *)
(* A quantity changes by one here, at the commit; Stock is about sessions  *)
(* that overwrite each other's quantities, and about value.                *)
(***************************************************************************)
EXTENDS Integers, Sequences, FiniteSetsExt

CONSTANTS
  Variants,      \* variants of one family, one of them is sold
  Pages,         \* web requests
  None,          \* no variant
  InStock,       \* the quantity of each variant at the start
  Barcoded,      \* the variants whose ProductSize has a barcode
  MaxRequests,   \* bound: how many requests are made
  MaxImports,    \* bound: how often the order is imported again
  MaxFaults      \* bound: kills

VARIABLES
  qty,       \* ProductSize.quantity
  sales,     \* the Sale rows of the order: variant, all returned
  order,     \* the newest status, the line's product_size_id and ean (the variant with that
             \* barcode), items_locally_edited, the variant sold
  return,    \* the Return: none, arrived or restored, and the variant in its items
  agent,     \* the print agent: step, the status it began with, the line and ean it collected
  import,    \* sync_order_from_data: step, items_locally_edited as loaded
  req,       \* the requests: kind, step and what they loaded
  gone,      \* history: pieces that did not go back to the shelf, per variant
  excuses,   \* history: why the books may be wrong
  requests, imports, faults

books == <<qty, sales, order, return>>
history == <<gone, excuses>>
vars == <<books, agent, import, req, history, requests, imports, faults>>

Idle == [step |-> "idle", status |-> "new", line |-> None, ean |-> None]
Rest == [kind |-> "none", step |-> "idle", status |-> "new", was |-> None, new |-> None, back |-> FALSE]
Away == [step |-> "idle", edited |-> FALSE]

Init ==
  /\ qty = InStock /\ sales = <<>>
  /\ \E v \in Barcoded :
       order = [status |-> "new", line |-> v, ean |-> v, edited |-> FALSE, sold |-> v]
  /\ return = [step |-> "none", item |-> None]
  /\ agent = Idle /\ import = Away /\ req = [p \in Pages |-> Rest]
  /\ gone = [v \in Variants |-> 0] /\ excuses = {}
  /\ requests = 0 /\ imports = 0 /\ faults = 0

Consumed == sales # <<>>
Excuse(why, if) == excuses' = IF if THEN excuses \cup {why} ELSE excuses

(* consume_stock: what there is is taken, the sale is recorded in any case *)
Taken(v) == [qty EXCEPT ![v] = IF @ > 0 THEN @ - 1 ELSE 0]
Sold(s, v) == Append(s, [variant |-> v, back |-> FALSE])

(* _restore_stock_for_return_item: the oldest sale of the variant that is   *)
(* not back yet is charged; without one the piece comes back all the same   *)
Open(v) == {i \in DOMAIN sales : sales[i].variant = v /\ ~sales[i].back}
Charged(v) == IF Open(v) = {} THEN sales ELSE [sales EXCEPT ![Min(Open(v))].back = TRUE]

-----------------------------------------------------------------------------
(* The agent.  In quiet hours the label is only queued and the order marked *)
(* as printed; the stored copy of the order is consumed in the morning.     *)

AgentOnly == UNCHANGED <<import, req, gone, requests, imports>>
Marked == [order EXCEPT !.status = "printed"]

Collect ==
  /\ agent.step = "idle" /\ order.status = "new" /\ ~Consumed
  /\ agent' = [step |-> "consume", status |-> "new", line |-> order.line, ean |-> order.ean]
  /\ UNCHANGED <<books, excuses, faults>> /\ AgentOnly

HoldUntilMorning ==
  /\ agent.step = "consume" /\ agent.status = "new"
  /\ agent' = [agent EXCEPT !.status = "printed"] /\ order' = Marked
  /\ Excuse("stale", order.status # "new")
  /\ UNCHANGED <<qty, sales, return, faults>> /\ AgentOnly

(* the variant is found by its barcode *)
ConsumeOrder ==
  /\ agent.step = "consume" /\ agent' = [agent EXCEPT !.step = "mark"]
  /\ qty' = Taken(agent.ean) /\ sales' = Sold(sales, agent.ean)
  /\ excuses' = excuses \cup (IF qty[agent.ean] = 0 THEN {"short"} ELSE {})
                        \cup (IF agent.line # agent.ean THEN {"no barcode"} ELSE {})
                        \cup (IF agent.line # order.line THEN {"stale"} ELSE {})
  /\ UNCHANGED <<order, return, faults>> /\ AgentOnly

MarkAsPrinted ==
  /\ agent.step = "mark" /\ agent' = Idle /\ order' = Marked
  /\ Excuse("stale", order.status # agent.status)
  /\ UNCHANGED <<qty, sales, return, faults>> /\ AgentOnly

-----------------------------------------------------------------------------
(* What happens to the order otherwise.                                    *)

OutsideOnly == UNCHANGED <<agent, req, gone, requests, faults>>

Ship ==
  /\ order.status \in {"printed", "sent"}
  /\ order' = [order EXCEPT !.status = IF @ = "printed" THEN "sent" ELSE "delivered"]
  /\ UNCHANGED <<qty, sales, return, import, imports, excuses>> /\ OutsideOnly

(* the Return copies the line; one that Allegro reports names no variant *)
Arrive == \E item \in {order.line, None} :
  /\ order.status = "delivered" /\ return.step = "none"
  /\ return' = [step |-> "arrived", item |-> item]
  /\ order' = [order EXCEPT !.status = "returned"]
  /\ UNCHANGED <<qty, sales, import, imports, excuses>> /\ OutsideOnly

(* sync_order_from_data loads the order and rewrites its lines later, under
   a lock of the row that does not read it again *)
LoadImport ==
  /\ import.step = "idle" /\ imports < MaxImports /\ imports' = imports + 1
  /\ import' = [step |-> "commit", edited |-> order.edited]
  /\ UNCHANGED <<books, excuses>> /\ OutsideOnly

RewrittenAlways(edited) == [order EXCEPT !.line = order.sold, !.ean = order.sold]
Rewritten(edited) ==
  IF edited THEN order ELSE [order EXCEPT !.line = order.sold, !.ean = order.sold]
CommitImport ==
  /\ import.step = "commit" /\ import' = Away
  /\ order' = Rewritten(import.edited)
  /\ Excuse("stale", import.edited # order.edited)
  /\ UNCHANGED <<qty, sales, return, imports>> /\ OutsideOnly

-----------------------------------------------------------------------------
(* Requests.                                                               *)

PageOnly == UNCHANGED <<agent, import, imports>>
Starts(p, r) ==
  /\ req[p].step = "idle" /\ requests < MaxRequests /\ requests' = requests + 1
  /\ req' = [req EXCEPT ![p] = r]
  /\ UNCHANGED <<books, gone, excuses, faults>> /\ PageOnly
Ends(p) == req' = [req EXCEPT ![p] = Rest]

EDIT_BLOCKED_STATUSES == {"cancelled", "delivered", "returned"}
CANCEL_ALLOWED_STATUSES == {"new", "printed"}

LoadEdit(p) == \E v \in Variants \ {order.line}, back \in BOOLEAN :
  /\ order.status \notin EDIT_BLOCKED_STATUSES
  /\ Starts(p, [kind |-> "edit", step |-> "commit", status |-> order.status,
                was |-> order.line, new |-> v, back |-> back])

(* the old piece comes back if the order was consumed, unless the page says
   that it does not; the new one is consumed in a session of its own *)
CommitEdit(p) ==
  /\ req[p].kind = "edit" /\ req[p].step = "commit"
  /\ LET was == req[p].was
         returns == Consumed /\ req[p].back
     IN /\ qty' = IF returns THEN [qty EXCEPT ![was] = @ + 1] ELSE qty
        /\ sales' = IF returns THEN Charged(was) ELSE sales
        /\ gone' = IF Consumed /\ ~req[p].back THEN [gone EXCEPT ![was] = @ + 1] ELSE gone
        /\ Excuse("stale", order.line # was \/ order.status # req[p].status)
  /\ order' = [order EXCEPT !.line = req[p].new, !.edited = TRUE, !.status = req[p].status,
                            !.ean = IF req[p].new \in Barcoded THEN req[p].new ELSE @]
  /\ req' = IF Consumed THEN [req EXCEPT ![p].step = "consume"] ELSE [req EXCEPT ![p] = Rest]
  /\ UNCHANGED <<return, requests, faults>> /\ PageOnly

ConsumeNew(p) ==
  /\ req[p].kind = "edit" /\ req[p].step = "consume" /\ Ends(p)
  /\ qty' = Taken(req[p].new) /\ sales' = Sold(sales, req[p].new)
  /\ Excuse("short", qty[req[p].new] = 0)
  /\ UNCHANGED <<order, return, gone, requests, faults>> /\ PageOnly

(* the status is read, the money is sent back, then the line is restored *)
LoadCancel(p) ==
  /\ order.status \in CANCEL_ALLOWED_STATUSES
  /\ Starts(p, [Rest EXCEPT !.kind = "cancel", !.step = "commit", !.status = order.status])

RestorableAlways == TRUE
Restorable == Consumed
CommitCancel(p) ==
  /\ req[p].kind = "cancel" /\ req[p].step = "commit" /\ Ends(p)
  /\ qty' = IF Restorable THEN [qty EXCEPT ![order.line] = @ + 1] ELSE qty
  /\ sales' = IF Restorable THEN Charged(order.line) ELSE sales
  /\ order' = [order EXCEPT !.status = "cancelled"]
  /\ Excuse("stale", order.status # req[p].status)
  /\ UNCHANGED <<return, gone, requests, faults>> /\ PageOnly

(* restore_stock_for_return, by the page or by the scheduler *)
LoadRestore(p) ==
  /\ return.step = "arrived" /\ return.item # None
  /\ Starts(p, [Rest EXCEPT !.kind = "restore", !.step = "commit"])
CommitRestore(p) ==
  /\ req[p].kind = "restore" /\ req[p].step = "commit" /\ Ends(p)
  /\ qty' = [qty EXCEPT ![return.item] = @ + 1] /\ sales' = Charged(return.item)
  /\ return' = [return EXCEPT !.step = "restored"]
  /\ Excuse("stale", return.step = "restored")
  /\ UNCHANGED <<order, gone, requests, faults>> /\ PageOnly

(* the worker is killed, or wFirma, Allegro or the database refuse *)
Stops(p) ==
  /\ req[p].step # "idle" /\ faults < MaxFaults /\ faults' = faults + 1 /\ Ends(p)
  /\ UNCHANGED <<books, gone, excuses, requests>> /\ PageOnly

-----------------------------------------------------------------------------
PageStep(p) ==
  \/ LoadEdit(p) \/ CommitEdit(p) \/ ConsumeNew(p) \/ LoadCancel(p) \/ CommitCancel(p)
  \/ LoadRestore(p) \/ CommitRestore(p) \/ Stops(p)

Next ==
  \/ Collect \/ HoldUntilMorning \/ ConsumeOrder \/ MarkAsPrinted
  \/ Ship \/ Arrive \/ LoadImport \/ CommitImport
  \/ \E p \in Pages : PageStep(p)

Spec == Init /\ [][Next]_vars

-----------------------------------------------------------------------------
AtRest == agent.step = "idle" /\ import.step = "idle" /\ \A p \in Pages : req[p].step = "idle"

(* where the piece is: with the buyer or in a parcel, once it was consumed *)
Out == Consumed /\ order.status # "cancelled" /\ return.step # "restored"

(* Between operations the books agree with the shelves: what is missing from
   each variant is the piece of the line, as long as it is out, and the pieces
   that an edit says did not come back.  They do unless a session acted on
   something that had changed since it was read ("stale", which includes the
   agent with a label in its queue), the agent was led by the ean to another
   variant because the new one has no barcode, stock ran out or a process was
   killed. *)
BooksMatchShelves ==
  AtRest /\ excuses = {} /\ faults = 0 =>
    \A v \in Variants :
      qty[v] = InStock[v] - gone[v] - (IF Out /\ order.line = v THEN 1 ELSE 0)
=============================================================================
