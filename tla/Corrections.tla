---------------------------- MODULE Corrections ----------------------------
(***************************************************************************)
(* The papers of one order with one line: the invoice that the scheduler   *)
(* issues at wFirma once a label is stored, and its corrections, after the *)
(* change of the variant, the cancellation and the refund of a return.     *)
(*                                                                         *)
(* A request changes the order in one session and corrects the invoice in  *)
(* the next one.  Only invoicing locks the order's row: sessions that      *)
(* write the order or add a row that refers to it wait for the lock.       *)
(* Whether the money was paid twice is Returns' and OrderStatus' matter.   *)
(***************************************************************************)
EXTENDS Integers, Sequences, FiniteSetsExt

CONSTANTS
  Variants,      \* the names of the variants that the line may be changed to
  Pages,         \* web requests
  None,          \* no invoice, no return
  MaxRequests,   \* bound: how many requests are made
  MaxFaults      \* bound: calls that fail, answers lost, kills

VARIABLES
  order,     \* committed: newest status, label, name of the line now and as sold,
             \* wfirma_invoice_id (as the name that invoice has), wfirma_correction_id
  goods,     \* the Return: none, arrived or refunded, and the name in its items_json
  papers,    \* the corrections at wFirma, for what and with which name
  billing,   \* the scheduler's generate_and_send_invoice: step, name read under the lock
  req,       \* the requests: kind, step and what they loaded
  requests, faults,
  reasons,   \* history: how often the order was changed since its invoice was stored
  crossed    \* history: two changes overlapped, or the invoice came during or after one

vars == <<order, goods, papers, billing, req, requests, faults, reasons, crossed>>

Rest == [kind |-> "none", step |-> "idle", status |-> "open", old |-> None, new |-> None,
         invoice |-> None, slot |-> FALSE]
Off == [step |-> "idle", name |-> None]

Init ==
  /\ \E v \in Variants :
       order = [status |-> "open", label |-> FALSE, line |-> v, sold |-> v,
                invoice |-> None, slot |-> FALSE]
  /\ goods = [step |-> "none", name |-> None]
  /\ papers = <<>> /\ billing = Off /\ req = [p \in Pages |-> Rest]
  /\ requests = 0 /\ faults = 0 /\ reasons = 0 /\ crossed = FALSE

Fault == faults < MaxFaults /\ faults' = faults + 1
NotLocked == TRUE
Unlocked == billing.step = "idle"

-----------------------------------------------------------------------------
(* The life of the order outside: PrintAgent, OrderStatus and Returns.     *)

OrderOnly == UNCHANGED <<papers, billing, req, requests, faults, reasons, crossed>>

Label ==
  /\ ~order.label /\ Unlocked /\ order' = [order EXCEPT !.label = TRUE]
  /\ UNCHANGED goods /\ OrderOnly

Ship ==
  /\ order.label /\ Unlocked
  /\ \/ order.status = "open" /\ order' = [order EXCEPT !.status = "sent"]
     \/ order.status = "sent" /\ order' = [order EXCEPT !.status = "delivered"]
  /\ UNCHANGED goods /\ OrderOnly

(* a Return takes its items from the order, or from what Allegro calls them *)
Arrive == \E name \in {order.line, order.sold} :
  /\ order.status = "delivered" /\ goods.step = "none"
  /\ order' = [order EXCEPT !.status = "returned"]
  /\ goods' = [step |-> "arrived", name |-> name]
  /\ OrderOnly

-----------------------------------------------------------------------------
(* _process_pending_invoices and generate_and_send_invoice: the status of  *)
(* the order does not matter, a cancelled one gets its invoice too.        *)

BillingOnly == UNCHANGED <<goods, papers, req, requests, reasons>>

(* SELECT ... FOR UPDATE, and the line as it is then *)
LockOrder ==
  /\ Unlocked /\ order.label /\ order.invoice = None
  /\ billing' = [step |-> "issue", name |-> order.line]
  /\ UNCHANGED <<order, faults, crossed>> /\ BillingOnly

(* the sessions that the requests of a cancellation or a refund opened before
   this invoice do not see it *)
StoreInvoice ==
  /\ billing.step = "issue" /\ billing' = Off
  /\ order' = [order EXCEPT !.invoice = billing.name]
  /\ crossed' = (crossed \/ order.status = "cancelled" \/ goods.step = "refunded"
                         \/ \E p \in Pages : req[p].kind \in {"cancel", "refund"})
  /\ UNCHANGED faults /\ BillingOnly

IssueFails ==
  /\ billing.step = "issue" /\ Fault /\ billing' = Off
  /\ UNCHANGED <<order, crossed>> /\ BillingOnly

-----------------------------------------------------------------------------
(* Requests: what they do to the order.                                    *)

Goes(p, step) == req' = [req EXCEPT ![p].step = step]
Ends(p) == req' = [req EXCEPT ![p] = Rest]
Starts(p, r) ==
  /\ req[p].step = "idle" /\ requests < MaxRequests /\ requests' = requests + 1
  /\ req' = [req EXCEPT ![p] = r]
  /\ UNCHANGED <<order, goods, papers, billing, faults, reasons, crossed>>
Happens(p) ==
  /\ reasons' = IF order.invoice = None THEN reasons ELSE reasons + 1
  /\ crossed' = (crossed \/ \E q \in Pages \ {p} : req[q].step # "idle")

EDIT_BLOCKED_STATUSES == {"cancelled", "delivered", "returned"}
LoadEdit(p) == \E v \in Variants \ {order.line} :
  /\ order.status \notin EDIT_BLOCKED_STATUSES
  /\ Starts(p, [Rest EXCEPT !.kind = "edit", !.step = "commit", !.status = order.status,
                            !.old = order.line, !.new = v])

(* the status that was loaded is added once more, whatever it is now *)
CommitEdit(p) ==
  /\ req[p].kind = "edit" /\ req[p].step = "commit" /\ Unlocked
  /\ order' = [order EXCEPT !.line = req[p].new, !.status = req[p].status]
  /\ Goes(p, "load") /\ Happens(p)
  /\ UNCHANGED <<goods, papers, billing, requests, faults>>

LoadCancel(p) ==
  /\ order.status = "open"
  /\ Starts(p, [Rest EXCEPT !.kind = "cancel", !.step = "pay", !.invoice = order.invoice,
                            !.slot = order.slot])

(* the money of a cancelled order, unless it was sent back before *)
PayCancel(p) ==
  /\ req[p].kind = "cancel" /\ req[p].step = "pay" /\ Goes(p, "commit")
  /\ UNCHANGED <<order, goods, papers, billing, requests, faults, reasons, crossed>>

(* has_invoice and has_correction are what the session loaded at its start *)
CommitCancel(p) ==
  /\ req[p].kind = "cancel" /\ req[p].step = "commit" /\ Unlocked
  /\ order' = [order EXCEPT !.status = "cancelled"]
  /\ IF req[p].invoice # None /\ ~req[p].slot THEN Goes(p, "load") ELSE Ends(p)
  /\ Happens(p)
  /\ UNCHANGED <<goods, papers, billing, requests, faults>>

(* process_refund, its WooCommerce branch and process_bank_transfer_refund *)
LoadRefund(p) ==
  /\ goods.step = "arrived"
  /\ Starts(p, [Rest EXCEPT !.kind = "refund", !.step = "pay"])

PayRefund(p) ==
  /\ req[p].kind = "refund" /\ req[p].step = "pay"
  /\ goods' = [goods EXCEPT !.step = "refunded"] /\ Goes(p, "load")
  /\ Happens(p)
  /\ UNCHANGED <<order, papers, billing, requests, faults>>

(* Allegro, WooCommerce or wFirma says no, or the process is killed *)
Stops(p) ==
  /\ req[p].step # "idle" /\ Fault /\ Ends(p)
  /\ UNCHANGED <<order, goods, papers, billing, requests, reasons, crossed>>

-----------------------------------------------------------------------------
(* Requests: generate_variant_correction_invoice after an edit, else       *)
(* generate_correction_invoice.                                            *)

(* the line is searched on the invoice, not on its corrections *)
OnInvoice(name) == order.invoice = name

Correctable(r) ==
  /\ order.invoice # None
  /\ r.kind = "edit" => ~order.slot /\ OnInvoice(r.old)
  /\ r.kind = "refund" => OnInvoice(goods.name)

LoadInvoice(p) ==
  /\ req[p].step = "load" /\ IF Correctable(req[p]) THEN Goes(p, "add") ELSE Ends(p)
  /\ UNCHANGED <<order, goods, papers, billing, requests, faults, reasons, crossed>>

(* a variant's correction zeroes the old line and adds one with the new name *)
Paper(r) == [why |-> r.kind, name |-> r.new]
AddCorrection(p) ==
  /\ req[p].step = "add" /\ papers' = Append(papers, Paper(req[p])) /\ Goes(p, "record")
  /\ UNCHANGED <<order, goods, billing, requests, faults, reasons, crossed>>
(* the client posts again within the call, or gives up *)
AnswerLost(p) ==
  /\ req[p].step = "add" /\ Fault /\ papers' = Append(papers, Paper(req[p]))
  /\ Ends(p) \/ UNCHANGED req
  /\ UNCHANGED <<order, goods, billing, requests, reasons, crossed>>

Record(p) ==
  /\ req[p].step = "record" /\ Unlocked /\ order' = [order EXCEPT !.slot = TRUE] /\ Ends(p)
  /\ UNCHANGED <<goods, papers, billing, requests, faults, reasons, crossed>>

-----------------------------------------------------------------------------
PageStep(p) ==
  \/ LoadEdit(p) \/ CommitEdit(p) \/ LoadCancel(p) \/ PayCancel(p) \/ CommitCancel(p)
  \/ LoadRefund(p) \/ PayRefund(p) \/ Stops(p)
  \/ LoadInvoice(p) \/ AddCorrection(p) \/ AnswerLost(p) \/ Record(p)

Next ==
  \/ Label \/ Ship \/ Arrive \/ LockOrder \/ StoreInvoice \/ IssueFails
  \/ \E p \in Pages : PageStep(p)

Spec == Init /\ [][Next]_vars

-----------------------------------------------------------------------------
AtRest == Unlocked /\ \A p \in Pages : req[p].step = "idle"
Corrected(why) == \E i \in DOMAIN papers : papers[i].why = why
Renamed == {i \in DOMAIN papers : papers[i].why = "edit"}
NameOnPapers == IF Renamed = {} THEN order.invoice ELSE papers[Max(Renamed)].name

(* The papers follow the first thing that happens to an order after its
   invoice: a new name, a zero after a cancellation, the returned goods after
   a refund.  They do when no call fails (nor any attempt that is posted again
   inside one), no two changes overlap and the return names the goods as the
   invoice does: invoicing never overlooks a variant that is changed while it
   waits for wFirma. *)
PapersFollow ==
  AtRest /\ order.invoice # None /\ faults = 0 /\ ~crossed /\ reasons <= 1 =>
    IF order.status = "cancelled" THEN Corrected("cancel")
    ELSE IF goods.step = "refunded" THEN goods.name = order.invoice => Corrected("refund")
    ELSE NameOnPapers = order.line
=============================================================================
