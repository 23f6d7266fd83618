------------------------------ MODULE Notices ------------------------------
(***************************************************************************)
(* What one Allegro order's buyer is sent: a message for the statuses      *)
(* pobrano, wyslano and dostarczono, and the invoice with its message.     *)
(* Writers of statuses send in the transaction of the status; the          *)
(* scheduler's cycle issues the invoice (process_pending_invoices) and     *)
(* sends again what is not marked (retry_pending_allegro_notifications).   *)
(*                                                                         *)
(* A status row is named by its message; OrderStatus is about the rows. A  *)
(* session keeps the order it loaded (expire_on_commit is off) and writes  *)
(* the whole of emails_sent.                                               *)
(***************************************************************************)
EXTENDS Integers, FiniteSets

CONSTANTS
  Writers,       \* transactions of the agent, the scheduler and requests
  Writes,        \* the messages (statuses) a writer may be the one to send
  MaxFaults      \* bound: messages and invoices that fail, answers lost, kills

ASSUME WritersAssumption == IsFiniteSet(Writers)
ASSUME FaultsAssumption == MaxFaults \in Nat

VARIABLES
  order,     \* committed: reached statuses, delivery_package_nr, emails_sent, wfirma_invoice_id
  sent,      \* the messages of a kind the buyer got
  issued,    \* the invoices at wFirma
  writer,    \* the transactions: step, status, emails_sent as loaded, sent a message
  cycle,     \* the scheduler: stage, step, the order as the retry loaded it, marks as invoicing did
  slips,     \* history: why a message may be repeated; of an invoice's, the answers lost
  lost,      \* history: invoices whose id was never stored
  faults

vars == <<order, sent, issued, writer, cycle, slips, lost, faults>>

MailAt == <<"confirmation", "shipment", "delivery">>
Statuses == {MailAt[i] : i \in 1..3}
Mails == Statuses \cup {"invoice"}
Rank == [m \in Statuses |-> CHOOSE i \in 1..3 : MailAt[i] = m]

Rest == [step |-> "idle", mail |-> "confirmation", seen |-> {}, dirty |-> FALSE]
Pause == [stage |-> 0, step |-> "idle", loaded |-> {}, numbered |-> FALSE,
          invoiced |-> FALSE, seen |-> {}]

Init ==
  /\ order = [log |-> {}, number |-> FALSE, marks |-> {}, invoice |-> FALSE]
  /\ sent = [m \in Mails |-> 0] /\ issued = 0 /\ lost = 0 /\ faults = 0
  /\ writer = [w \in Writers |-> Rest] /\ cycle = Pause
  /\ slips = [m \in Mails |-> 0]

Fault == faults < MaxFaults /\ faults' = faults + 1
Slip(m) == slips' = [slips EXCEPT ![m] = @ + 1]

(* emails_sent is written as `marks`: what it lacks may be sent again *)
Dropped(marks) ==
  slips' = [x \in Mails |-> slips[x] + IF x \in (Statuses \cap order.marks) \ marks THEN 1 ELSE 0]
Mark(seen, m) ==
  /\ order' = [order EXCEPT !.marks = seen \cup {m}] /\ Dropped(seen \cup {m})

(* another session has sent m, and the mark is not in what this one loaded *)
InHand(m) ==
  \/ \E w \in Writers : writer[w].dirty /\ writer[w].mail = m
  \/ cycle.step = "mark" /\ cycle.stage \in 1..3 /\ MailAt[cycle.stage] = m
Overtaken(m, seen) == m \in order.marks \ seen \/ InHand(m)

(* one call posts up to MAX_RETRY_ATTEMPTS times: an attempt may go out and its answer
   be lost, and the client posts again; the call ends accepted or refused *)
Accepted(m, seen) ==
  /\ sent' = [sent EXCEPT ![m] = @ + 1] /\ UNCHANGED faults
  /\ IF Overtaken(m, seen) THEN Slip(m) ELSE UNCHANGED slips
AnswerLost(m) == Fault /\ sent' = [sent EXCEPT ![m] = @ + 1] /\ Slip(m)
Refused(m) == AnswerLost(m) \/ (Fault /\ UNCHANGED <<sent, slips>>)

-----------------------------------------------------------------------------
(* add_order_status and dispatch_status_email.                             *)

(* the label is printed and its number stored: PrintAgent, Shipments *)
Label ==
  /\ order.log # {} /\ ~order.number /\ order' = [order EXCEPT !.number = TRUE]
  /\ UNCHANGED <<sent, issued, writer, cycle, slips, lost, faults>>

Goes(w, step) == writer' = [writer EXCEPT ![w].step = step]
WriterOnly == UNCHANGED <<issued, cycle, lost>>

Load(w, m) ==
  /\ writer[w].step = "idle" /\ m \in Writes[w] \ order.log
  /\ \A n \in order.log : Rank[n] < Rank[m]
  /\ m # "confirmation" => order.number
  /\ writer' = [writer EXCEPT ![w] = [Rest EXCEPT !.step = "flush", !.mail = m, !.seen = order.marks]]
  /\ UNCHANGED <<order, sent, slips, faults>> /\ WriterOnly

(* the row's foreign key needs the order, which invoicing locks FOR UPDATE *)
Locked == cycle.step \in {"issue", "store"}
Flush(w) ==
  /\ writer[w].step = "flush" /\ ~Locked
  /\ Goes(w, IF writer[w].mail \in writer[w].seen THEN "commit" ELSE "send")
  /\ UNCHANGED <<order, sent, slips, faults>> /\ WriterOnly

Dispatch(w) ==
  /\ writer[w].step = "send" /\ Accepted(writer[w].mail, writer[w].seen)
  /\ writer' = [writer EXCEPT ![w].step = "commit", ![w].dirty = TRUE]
  /\ UNCHANGED order /\ WriterOnly
DispatchAgain(w) ==
  /\ writer[w].step = "send" /\ AnswerLost(writer[w].mail)
  /\ UNCHANGED <<order, writer>> /\ WriterOnly
DispatchFails(w) ==
  /\ writer[w].step = "send" /\ Refused(writer[w].mail) /\ Goes(w, "commit")
  /\ UNCHANGED order /\ WriterOnly

Commit(w) ==
  /\ writer[w].step = "commit" /\ writer' = [writer EXCEPT ![w] = Rest]
  /\ LET m == writer[w].mail
         seen == IF writer[w].dirty THEN writer[w].seen \cup {m} ELSE order.marks
     IN order' = [order EXCEPT !.log = @ \cup {m}, !.marks = seen] /\ Dropped(seen)
  /\ UNCHANGED <<sent, faults>> /\ WriterOnly

(* the transaction fails, or its process is killed *)
Rollback(w) ==
  /\ writer[w].step # "idle" /\ Fault /\ writer' = [writer EXCEPT ![w] = Rest]
  /\ IF writer[w].dirty THEN Slip(writer[w].mail) ELSE UNCHANGED slips
  /\ UNCHANGED <<order, sent>> /\ WriterOnly

-----------------------------------------------------------------------------
(* generate_and_send_invoice, in a session of its own.                     *)

CycleOnly == UNCHANGED writer
Step(step) == cycle' = [cycle EXCEPT !.step = step]
(* the end of a stage: 0 pending invoices, 1..3 messages, 4 the invoice again *)
NextStage == cycle' = IF cycle.stage = 4 THEN Pause ELSE [cycle EXCEPT !.stage = @ + 1, !.step = "check", !.seen = {}]

Holding == \E w \in Writers : writer[w].step \in {"send", "commit"}
LockOrder ==
  /\ cycle.step = "lock" /\ ~Holding
  /\ IF order.invoice THEN NextStage ELSE cycle' = [cycle EXCEPT !.step = "issue", !.seen = order.marks]
  /\ UNCHANGED <<order, sent, issued, slips, lost, faults>> /\ CycleOnly

CreateInvoice ==
  /\ cycle.step = "issue" /\ issued' = issued + 1 /\ Step("store")
  /\ UNCHANGED <<order, sent, slips, lost, faults>> /\ CycleOnly
(* an attempt's answer is lost, and the client posts invoices/add again *)
CreateAgain ==
  /\ cycle.step = "issue" /\ Fault /\ issued' = issued + 1 /\ lost' = lost + 1
  /\ UNCHANGED <<order, sent, cycle, slips>> /\ CycleOnly
CreateFails ==
  /\ cycle.step = "issue" /\ Fault /\ NextStage
  /\ \/ UNCHANGED <<issued, lost>>
     \/ issued' = issued + 1 /\ lost' = lost + 1
  /\ UNCHANGED <<order, sent, slips>> /\ CycleOnly

StoreInvoiceLate ==
  /\ cycle.step = "store" /\ Step("mail") /\ UNCHANGED <<order, sent, issued, slips, lost, faults>> /\ CycleOnly
StoreInvoice ==
  /\ cycle.step = "store" /\ order' = [order EXCEPT !.invoice = TRUE] /\ Step("mail")
  /\ UNCHANGED <<sent, issued, slips, lost, faults>> /\ CycleOnly

MailInvoice ==
  /\ cycle.step = "mail" /\ Accepted("invoice", cycle.seen) /\ Step("mark")
  /\ UNCHANGED <<order, issued, lost>> /\ CycleOnly
MailInvoiceAgain ==
  /\ cycle.step = "mail" /\ AnswerLost("invoice")
  /\ UNCHANGED <<order, issued, cycle, lost>> /\ CycleOnly
MailInvoiceFails ==
  /\ cycle.step = "mail" /\ Refused("invoice") /\ NextStage
  /\ UNCHANGED <<order, issued, lost>> /\ CycleOnly
MarkInvoice ==
  /\ cycle.step = "mark" /\ cycle.stage \in {0, 4} /\ Mark(cycle.seen, "invoice") /\ NextStage
  /\ UNCHANGED <<sent, issued, lost, faults>> /\ CycleOnly

-----------------------------------------------------------------------------
(* The scheduler's cycle.                                                  *)

(* _process_pending_invoices: a label was printed and there is no invoice *)
StartCycle ==
  /\ cycle.step = "idle"
  /\ cycle' = IF order.number /\ ~order.invoice THEN [Pause EXCEPT !.step = "lock"]
              ELSE [Pause EXCEPT !.stage = 1, !.step = "check"]
  /\ UNCHANGED <<order, sent, issued, slips, lost, faults>> /\ CycleOnly

(* the retry loads the order once, before its first message *)
Loaded == IF cycle.stage = 1
          THEN [cycle EXCEPT !.loaded = order.marks, !.numbered = order.number, !.invoiced = order.invoice]
          ELSE cycle

(* _order_reached_status: the status or one past it is in the log *)
ReachedExactly(m) == m \in order.log /\ \A n \in order.log : Rank[n] <= Rank[m]
Reached(m) == \E n \in order.log : Rank[n] >= Rank[m]

UnmarkedInAnyCase(c, m) == Reached(m) /\ (m = "shipment" => c.numbered)
Unmarked(c, m) == m \notin c.loaded /\ Reached(m) /\ (m = "shipment" => c.numbered)

CheckMail ==
  /\ cycle.step = "check" /\ cycle.stage \in 1..3
  /\ LET c == Loaded IN
     cycle' = IF Unmarked(c, MailAt[c.stage]) THEN [c EXCEPT !.step = "send"]
              ELSE [c EXCEPT !.stage = @ + 1]
  /\ UNCHANGED <<order, sent, issued, slips, lost, faults>> /\ CycleOnly

RetryMail ==
  /\ cycle.step = "send" /\ Accepted(MailAt[cycle.stage], cycle.loaded) /\ Step("mark")
  /\ UNCHANGED <<order, issued, lost>> /\ CycleOnly
RetryMailAgain ==
  /\ cycle.step = "send" /\ AnswerLost(MailAt[cycle.stage])
  /\ UNCHANGED <<order, issued, cycle, lost>> /\ CycleOnly
RetryMailFails ==
  /\ cycle.step = "send" /\ Refused(MailAt[cycle.stage]) /\ NextStage
  /\ UNCHANGED <<order, issued, lost>> /\ CycleOnly
MarkRetried ==
  /\ cycle.step = "mark" /\ cycle.stage \in 1..3 /\ Mark(cycle.loaded, MailAt[cycle.stage])
  /\ cycle' = [cycle EXCEPT !.stage = @ + 1, !.step = "check", !.loaded = @ \cup {MailAt[cycle.stage]}]
  /\ UNCHANGED <<sent, issued, lost, faults>> /\ CycleOnly

CheckInvoice ==
  /\ cycle.step = "check" /\ cycle.stage = 4
  /\ IF "invoice" \notin cycle.loaded /\ cycle.numbered /\ ~cycle.invoiced THEN Step("lock") ELSE NextStage
  /\ UNCHANGED <<order, sent, issued, slips, lost, faults>> /\ CycleOnly

(* the worker with the scheduler is killed *)
KillCycle ==
  /\ cycle.step # "idle" /\ Fault /\ cycle' = Pause
  /\ lost' = lost + IF cycle.step = "store" THEN 1 ELSE 0
  /\ IF cycle.step = "mark" /\ cycle.stage \in 1..3 THEN Slip(MailAt[cycle.stage]) ELSE UNCHANGED slips
  /\ UNCHANGED <<order, sent, issued>> /\ CycleOnly

-----------------------------------------------------------------------------
WriterStep(w) == Flush(w) \/ Dispatch(w) \/ DispatchAgain(w) \/ DispatchFails(w) \/ Commit(w)
CycleStep ==
  \/ StartCycle \/ LockOrder \/ CreateInvoice \/ CreateAgain \/ CreateFails \/ StoreInvoice
  \/ MailInvoice \/ MailInvoiceAgain \/ MailInvoiceFails \/ MarkInvoice
  \/ CheckMail \/ RetryMail \/ RetryMailAgain \/ RetryMailFails \/ MarkRetried \/ CheckInvoice

Next ==
  \/ Label \/ CycleStep \/ KillCycle
  \/ \E w \in Writers : WriterStep(w) \/ Rollback(w) \/ \E m \in Statuses : Load(w, m)

Spec == Init /\ [][Next]_vars

(* A message is repeated only when the answer to it was lost, inside a call that
   posts again or at its end, when a session that had sent it ended before its
   mark was committed, when the mark was overwritten from an older copy of
   emails_sent, or when a session that had loaded an older copy sent it too. A
   second invoice is issued only when the first one's id was never stored, and
   an invoice is told of twice only inside the one call that tells of it. *)
RepeatsAreAccounted ==
  /\ \A m \in Mails : sent[m] <= 1 + slips[m]
  /\ issued <= 1 + lost

(* Every status the order reaches is told to the buyer in the end, whatever
   became of the writer's attempt, and an order with a label gets its invoice:
   again and again nothing is left untold. *)
Told ==
  /\ \A m \in order.log : (m = "shipment" => order.number) => sent[m] > 0
  /\ order.number => order.invoice
BuyerIsTold == []<>Told
=============================================================================
