----------------------------- MODULE PrintAgent -----------------------------
(***************************************************************************)
(* The label printing agent of magazyn: one background thread that, once   *)
(* per poll interval, drains the stored label queue and then prints the    *)
(* labels of newly collected orders (label_agent_loop.run_print_iteration, *)
(* PrintQueueProcessor, PrintOrderProcessor, PrintAgentStorage).           *)
(*                                                                         *)
(* Every database commit, every label sent to the printer and every sale   *)
(* committed by consume_order_stock is a step of its own: the process may  *)
(* be killed, and each such call may raise, between any two of them.  The  *)
(* database is the durable state; the agent's variables are lost with the  *)
(* process.  All queue items of one order share their status and their     *)
(* retry_count, so an order has one Entry.                                 *)
(***************************************************************************)
EXTENDS Naturals, FiniteSets

CONSTANTS
  Orders,           \* order ids
  Labels,           \* the labels (parcels) of an order
  Items,            \* the product positions of an order
  None,             \* no order
  MaxQueueRetries,  \* max_queue_retries, 10 in the code
  MaxPrintErrors,   \* max_print_error_retries, 3 in the code
  MaxFaults,        \* bound: how many calls raise and how many kills happen
  MaxQuiet,         \* bound: how many times quiet hours begin
  MaxCancels        \* bound: how many orders are cancelled

ASSUME OrdersAssumption == None \notin Orders
ASSUME PartsAssumption  == Labels # {} /\ Items # {} /\ Labels \cap Items = {}
ASSUME BoundsAssumption ==
  /\ MaxQueueRetries \in Nat \ {0} /\ MaxPrintErrors \in Nat \ {0}
  /\ MaxFaults \in Nat /\ MaxQuiet \in Nat /\ MaxCancels \in Nat

VARIABLES
  \* the database
  table,      \* label_queue: the stored Entry of each order
  printedDb,  \* printed_orders: the orders with a row
  status,     \* the newest OrderStatusLog status of each order
  errlogs,    \* how many OrderStatusLog rows of each order say blad_druku
  tracked,    \* the orders with a delivery_package_nr
  \* the world
  paper,      \* paper[o][l]: how often label l of order o came out
  sales,      \* sales[o][i]: Sale rows (stock consumptions) of position i
  \* the memory of the agent thread
  phase,      \* down, idle between iterations, drain the queue, orders
  task,       \* what is being done for the order cur
  step,       \* the next step of the task
  cur,        \* the order being worked on
  left,       \* labels still to print, then items still to consume
  queue,      \* the list `queue`
  printed,    \* the dict `printed`
  todo,       \* the orders the current loop has still to visit
  kept,       \* the list `new_queue`
  \* the environment and the history
  quiet,      \* is_quiet_time()
  quietings, cancels, faults,  \* counters of the bounded events
  givenUp,    \* orders dropped after max_queue_retries attempts
  dropped     \* orders whose only queue entry was in a memory that was lost

durable == <<table, printedDb, status, errlogs, tracked>>
world   == <<paper, sales>>
memory  == <<phase, task, step, cur, left, queue, printed, todo, kept>>
env     == <<quiet, quietings, cancels>>
history == <<givenUp, dropped>>
vars    == <<durable, world, memory, env, faults, history>>

-----------------------------------------------------------------------------
(* Types *)

Statuses == {"absent", "pobrano", "blad_druku", "wydrukowano", "spakowano", "anulowano"}
NoEntry  == [st |-> "none", retries |-> 0]
Entry    == [st : {"none", "queued", "in_progress"}, retries : 0..MaxQueueRetries]

TypeOK ==
  /\ table \in [Orders -> Entry] /\ queue \in [Orders -> Entry]
  /\ status \in [Orders -> Statuses] /\ errlogs \in [Orders -> Nat]
  /\ printedDb \subseteq Orders /\ tracked \subseteq Orders
  /\ paper \in [Orders -> [Labels -> Nat]] /\ sales \in [Orders -> [Items -> Nat]]
  /\ phase \in {"down", "idle", "drain", "orders"}
  /\ task \in {"none", "drain", "giveup", "now", "quiet"}
  /\ step \in {"choose", "print", "consume", "mark", "status", "failed", "requeue"}
  /\ cur \in Orders \cup {None} /\ left \subseteq Labels \cup Items
  /\ printed \subseteq Orders /\ todo \subseteq Orders /\ kept \subseteq Orders
  /\ quiet \in BOOLEAN /\ quietings \in Nat /\ cancels \in Nat /\ faults \in Nat
  /\ givenUp \subseteq Orders /\ dropped \subseteq Orders

-----------------------------------------------------------------------------
(* Helpers *)

Queued(q)    == {o \in Orders : q[o].st # "none"}
EmptyQueue   == [o \in Orders |-> NoEntry]
InProgress(n) == [st |-> "in_progress", retries |-> n]
Waiting(n)    == [st |-> "queued", retries |-> n]
restore_in_progress_drops(q) ==
  [o \in Orders |-> IF q[o].st = "in_progress" THEN NoEntry ELSE q[o]]
restore_in_progress(q) ==
  [o \in Orders |-> IF q[o].st = "in_progress" THEN Waiting(q[o].retries) ELSE q[o]]

\* STATUS_HIERARCHY; "absent" stands for an order without a status yet (-1).
Rank == [s \in Statuses |->
           CASE s = "pobrano" -> 0 [] s = "wydrukowano" -> 2 [] s = "spakowano" -> 3
             [] OTHER -> 999]

\* The newest status after add_order_status(last -> new): the same status is
\* skipped, and so is a step back in the hierarchy between ordinary statuses.
StatusAfter(last, new) ==
  IF Rank[new] # 999 /\ Rank[last] # 999 /\ Rank[new] < Rank[last] THEN last ELSE new

PrintableOnce(o) == o \notin tracked /\ status[o] = "pobrano"
\* The rows of collect_printable_orders.
Printable(o) ==
  /\ o \notin tracked
  /\ \/ status[o] = "pobrano"
     \/ status[o] = "blad_druku" /\ errlogs[o] < MaxPrintErrors

\* mark_as_printed has been done for the order, as far as the database says.
Marked(o) == o \in printedDb \/ status[o] \in {"wydrukowano", "spakowano"}

RetryLimitReached(o)     == queue[o].retries >= MaxQueueRetries

\* The list process_queue returns.
NewQueueAll == queue
NewQueue    == [o \in Orders |-> IF o \in kept THEN queue[o] ELSE NoEntry]

\* One call raises, or the process is killed.
Fault == faults < MaxFaults /\ faults' = faults + 1

At(ph, s)     == phase = ph /\ step = s
Choose        == task' = "none" /\ step' = "choose" /\ cur' = None /\ left' = {}
Begin(t, s, o) == task' = t /\ step' = s /\ cur' = o
ForgetMemory  == /\ Choose /\ queue' = EmptyQueue
                 /\ printed' = {} /\ todo' = {} /\ kept' = {}
\* The orders whose only entry is in memory although they are marked printed.
MemoryOnly    == {o \in Queued(queue) \ Queued(table) : Marked(o)}

\* add_order_status(o, new) committed
AddStatus(o, new) ==
  /\ status' = [status EXCEPT ![o] = StatusAfter(@, new)]
  /\ errlogs' = IF new = "blad_druku" /\ status[o] # new
                THEN [errlogs EXCEPT ![o] = @ + 1] ELSE errlogs

-----------------------------------------------------------------------------
(* One iteration: loading, and draining the stored queue *)

Init ==
  /\ table = EmptyQueue /\ printedDb = {} /\ tracked = {}
  /\ status = [o \in Orders |-> "absent"] /\ errlogs = [o \in Orders |-> 0]
  /\ paper = [o \in Orders |-> [l \in Labels |-> 0]]
  /\ sales = [o \in Orders |-> [i \in Items |-> 0]]
  /\ phase = "idle" /\ task = "none" /\ step = "choose" /\ cur = None /\ left = {}
  /\ queue = EmptyQueue /\ printed = {} /\ todo = {} /\ kept = {}
  /\ quiet = FALSE /\ quietings = 0 /\ cancels = 0 /\ faults = 0
  /\ givenUp = {} /\ dropped = {}

\* clean_old_printed_orders, load_printed_orders, load_queue and
\* _restore_in_progress; in quiet hours process_queue returns the queue as it is.
StartIteration ==
  /\ phase = "idle" /\ phase' = "drain"
  /\ \E expired \in SUBSET printedDb : printedDb' = printedDb \ expired
  /\ printed' = printedDb'
  /\ queue' = restore_in_progress(table) /\ table' = queue'
  /\ todo' = IF quiet THEN {} ELSE Queued(table)
  /\ kept' = IF quiet THEN Queued(table) ELSE {}
  /\ UNCHANGED <<status, errlogs, tracked, world, task, step, cur, left, env, faults, history>>

\* The next order below the limit: its items become in_progress and the WHOLE
\* queue is saved, orders already printed in this pass included.
DrainPick(o) ==
  /\ At("drain", "choose") /\ o \in todo /\ ~RetryLimitReached(o)
  /\ queue' = [queue EXCEPT ![o] = InProgress(@.retries)] /\ table' = queue'
  /\ todo' = todo \ {o} /\ Begin("drain", "print", o) /\ left' = Labels
  /\ UNCHANGED <<printedDb, status, errlogs, tracked, world, phase, printed, kept, env, faults, history>>

DrainLaterForgets(o) == queue' = [queue EXCEPT ![o] = Waiting(@.retries + 1)] /\ kept' = kept /\ Choose
\* _restore_items_for_retry
DrainLater(o) ==
  /\ queue' = [queue EXCEPT ![o] = Waiting(@.retries + 1)] /\ kept' = kept \cup {o}
  /\ Choose

DrainPickFails(o) ==
  /\ At("drain", "choose") /\ o \in todo /\ ~RetryLimitReached(o)
  /\ Fault /\ DrainLater(o) /\ todo' = todo \ {o}
  /\ UNCHANGED <<durable, world, phase, printed, env, history>>

\* _is_retry_limit_reached: the order leaves the queue marked as printed.
GiveUp(o) ==
  /\ At("drain", "choose") /\ o \in todo /\ RetryLimitReached(o)
  /\ todo' = todo \ {o} /\ Begin("giveup", "mark", o)
  /\ UNCHANGED <<durable, world, phase, left, queue, printed, kept, env, faults, history>>

\* save_queue(new_queue), then get_orders.  The save may raise, which ends the
\* iteration; the fetch may fail after its retries, which gives no orders.
DrainDone ==
  /\ At("drain", "choose") /\ todo = {} /\ phase' = "orders"
  /\ queue' = NewQueue /\ table' = queue'
  /\ kept' = {}
  /\ \/ todo' = {o \in Orders : Printable(o)} /\ UNCHANGED faults
     \/ todo' = {} /\ Fault
  /\ UNCHANGED <<printedDb, status, errlogs, tracked, world, task, step, cur, left, printed, env, history>>

EndIteration == phase' = "idle" /\ ForgetMemory /\ dropped' = dropped \cup MemoryOnly

DrainSaveFails ==
  /\ At("drain", "choose") /\ todo = {} /\ Fault /\ EndIteration
  /\ UNCHANGED <<durable, world, env, givenUp>>

-----------------------------------------------------------------------------
(* One order: print, consume, mark, status *)

PrintLabel(l) ==
  /\ step = "print" /\ l \in left
  /\ paper' = [paper EXCEPT ![cur][l] = @ + 1]
  /\ IF left = {l} THEN left' = Items /\ step' = "consume"
                   ELSE left' = left \ {l} /\ UNCHANGED step
  /\ UNCHANGED <<durable, sales, phase, task, cur, queue, printed, todo, kept, env, faults, history>>

ConsumeItemRetried(i) ==
  /\ step = "consume" /\ i \in left /\ sales' = [sales EXCEPT ![cur][i] = @ + 1]
  /\ \/ Fault /\ UNCHANGED <<left, step>>
     \/ UNCHANGED faults /\ left' = left \ {i} /\ step' = IF left = {i} THEN "mark" ELSE step
  /\ UNCHANGED <<durable, paper, phase, task, cur, queue, printed, todo, kept, env, history>>
\* consume_order_stock commits one session per position.
ConsumeItem(i) ==
  /\ step = "consume" /\ i \in left
  /\ sales' = [sales EXCEPT ![cur][i] = @ + 1]
  /\ left' = left \ {i} /\ step' = IF left = {i} THEN "mark" ELSE step
  /\ UNCHANGED <<durable, paper, phase, task, cur, queue, printed, todo, kept, env, faults, history>>

\* mark_as_printed, first transaction: the row of printed_orders.
MarkPrinted ==
  /\ step = "mark" /\ step' = "status" /\ printedDb' = printedDb \cup {cur}
  /\ UNCHANGED <<table, status, errlogs, tracked, world, phase, task, cur, left, queue, printed, todo,
                 kept, env, faults, history>>

\* What the caller of mark_as_printed does next.
Finish ==
  /\ Choose
  /\ printed' = IF task = "giveup" THEN printed ELSE printed \cup {cur}
  /\ queue' = IF task = "now" THEN [queue EXCEPT ![cur] = NoEntry] ELSE queue
  /\ givenUp' = IF task = "giveup" THEN givenUp \cup {cur} ELSE givenUp
  /\ UNCHANGED <<world, table, printedDb, phase, todo, kept, env, dropped>>

\* mark_as_printed, second transaction: status wydrukowano and, when the
\* shipment has a waybill, the tracking number.
WriteStatus ==
  /\ step = "status" /\ AddStatus(cur, "wydrukowano")
  /\ tracked' \in {tracked, tracked \cup {cur}}
  /\ Finish /\ UNCHANGED faults

\* Its failure is only logged.
StatusFails ==
  /\ step = "status" /\ Fault /\ Finish /\ UNCHANGED <<status, errlogs, tracked>>

\* print_label, consume_order_stock or the first transaction raises in the try
\* of a drained or of a new order.
WorkFails ==
  /\ step \in {"print", "consume", "mark"} /\ Fault
  /\ \/ task = "drain" /\ DrainLater(cur)
     \/ task = "now" /\ step' = "failed" /\ left' = {} /\ UNCHANGED <<task, cur, queue, kept>>
  /\ UNCHANGED <<durable, world, phase, printed, todo, env, history>>

\* The first transaction raises outside a try: giving up ends the iteration, a
\* quiet-hours order ends the loop over the orders.
MarkAborts ==
  /\ step = "mark" /\ Fault
  /\ \/ task = "giveup" /\ EndIteration
     \/ /\ task = "quiet" /\ Choose /\ todo' = {}
        /\ UNCHANGED <<phase, queue, printed, kept, dropped>>
  /\ UNCHANGED <<durable, world, env, givenUp>>

\* set_print_error_status, whose failure is swallowed.
ReportPrintError ==
  /\ step = "failed" /\ step' = "requeue"
  /\ \/ AddStatus(cur, "blad_druku") /\ UNCHANGED faults
     \/ Fault /\ UNCHANGED <<status, errlogs>>
  /\ UNCHANGED <<table, printedDb, tracked, world, phase, task, cur, left, queue, printed, todo, kept,
                 env, history>>

\* The entries become queued and are saved; a failing save ends the loop.
Requeue ==
  /\ step = "requeue" /\ Choose
  /\ queue' = [queue EXCEPT ![cur] = Waiting(@.retries)]
  /\ \/ table' = queue' /\ UNCHANGED <<faults, todo>>
     \/ Fault /\ todo' = {} /\ UNCHANGED table
  /\ UNCHANGED <<printedDb, status, errlogs, tracked, world, phase, printed, kept, env, history>>

-----------------------------------------------------------------------------
(* The loop over the collected orders *)

Fresh(o) == At("orders", "choose") /\ o \in todo \ (printed \cup Queued(queue))

\* _should_skip_order
SkipOrder(o) ==
  /\ At("orders", "choose") /\ o \in todo \cap (printed \cup Queued(queue))
  /\ todo' = todo \ {o}
  /\ UNCHANGED <<durable, world, phase, task, step, cur, left, queue, printed, kept, env, faults, history>>

\* The packages cannot be loaded (next order), or something else raises (the
\* loop ends).
OrderFails(o) ==
  /\ Fresh(o) /\ Fault /\ todo' \in {todo \ {o}, {}}
  /\ UNCHANGED <<durable, world, phase, task, step, cur, left, queue, printed, kept, env, history>>

\* _handle_missing_labels: Allegro returned no label.
MissingLabels(o) ==
  /\ Fresh(o) /\ Fault /\ todo' = todo \ {o}
  /\ AddStatus(o, "blad_druku") \/ UNCHANGED <<status, errlogs>>
  /\ UNCHANGED <<table, printedDb, tracked, world, phase, task, step, cur, left, queue, printed, kept,
                 env, history>>

\* _queue_quiet_time_labels: the entries are appended in memory only.
QuietQueue(o) ==
  /\ Fresh(o) /\ quiet /\ todo' = todo \ {o}
  /\ queue' = [queue EXCEPT ![o] = Waiting(0)] /\ Begin("quiet", "mark", o)
  /\ UNCHANGED <<durable, world, phase, left, printed, kept, env, faults, history>>

\* _print_labels_now: the entries are stored before the first label is printed;
\* a failing save ends the loop with the entries in memory.
PrintNow(o) ==
  /\ Fresh(o) /\ ~quiet
  /\ queue' = [queue EXCEPT ![o] = InProgress(0)]
  /\ \/ /\ table' = queue' /\ todo' = todo \ {o} /\ Begin("now", "print", o) /\ left' = Labels
        /\ UNCHANGED faults
     \/ Fault /\ todo' = {} /\ UNCHANGED <<table, task, step, cur, left>>
  /\ UNCHANGED <<printedDb, status, errlogs, tracked, world, phase, printed, kept, env, history>>

FinalSave ==
  /\ At("orders", "choose") /\ todo = {} /\ table' = queue
  /\ phase' = "idle" /\ ForgetMemory
  /\ UNCHANGED <<printedDb, status, errlogs, tracked, world, env, faults, history>>

FinalSaveFails ==
  /\ At("orders", "choose") /\ todo = {} /\ Fault /\ EndIteration
  /\ UNCHANGED <<durable, world, env, givenUp>>

-----------------------------------------------------------------------------
(* The process and its environment *)

Crash ==
  /\ phase # "down" /\ phase' = "down" /\ Fault
  /\ ForgetMemory /\ dropped' = dropped \cup MemoryOnly
  /\ UNCHANGED <<durable, world, env, givenUp>>

Restart ==
  /\ phase = "down" /\ phase' = "idle"
  /\ UNCHANGED <<durable, world, task, step, cur, left, queue, printed, todo, kept, env, faults, history>>

\* The synchronisation stores a new order.
Arrive(o) ==
  /\ status[o] = "absent" /\ status' = [status EXCEPT ![o] = "pobrano"]
  /\ UNCHANGED <<table, printedDb, errlogs, tracked, world, memory, env, faults, history>>

\* cancel_order, as far as the agent sees it
Cancel(o) ==
  /\ status[o] \in {"pobrano", "blad_druku", "wydrukowano", "spakowano"}
  /\ cancels < MaxCancels /\ cancels' = cancels + 1
  /\ status' = [status EXCEPT ![o] = "anulowano"]
  /\ UNCHANGED <<table, printedDb, errlogs, tracked, world, memory, quiet, quietings, faults, history>>

\* check_and_auto_pack requires the status wydrukowano.
Pack(o) ==
  /\ status[o] = "wydrukowano" /\ status' = [status EXCEPT ![o] = "spakowano"]
  /\ UNCHANGED <<table, printedDb, errlogs, tracked, world, memory, env, faults, history>>

QuietBegins ==
  /\ ~quiet /\ quietings < MaxQuiet /\ quiet' = TRUE /\ quietings' = quietings + 1
  /\ UNCHANGED <<durable, world, memory, cancels, faults, history>>

QuietEnds ==
  /\ quiet /\ quiet' = FALSE
  /\ UNCHANGED <<durable, world, memory, quietings, cancels, faults, history>>

-----------------------------------------------------------------------------
Draining == StartIteration \/ DrainDone \/ \E o \in Orders : DrainPick(o) \/ GiveUp(o)
Working  == \/ \E l \in Labels : PrintLabel(l)
            \/ \E i \in Items : ConsumeItem(i)
            \/ MarkPrinted \/ WriteStatus \/ ReportPrintError \/ Requeue
Visiting == FinalSave \/ \E o \in Orders : SkipOrder(o) \/ QuietQueue(o) \/ PrintNow(o)
Failing  == \/ DrainSaveFails \/ StatusFails \/ WorkFails \/ MarkAborts \/ FinalSaveFails \/ Crash
            \/ \E o \in Orders : DrainPickFails(o) \/ OrderFails(o) \/ MissingLabels(o)
World    == \/ QuietBegins \/ QuietEnds
            \/ \E o \in Orders : Arrive(o) \/ Cancel(o) \/ Pack(o)

AgentStep == Draining \/ Working \/ Visiting
Next == AgentStep \/ Failing \/ Restart \/ World

Spec == Init /\ [][Next]_vars

\* The thread keeps running, docker restarts a killed process (restart: always
\* in docker-compose.yml), and quiet hours end.
FairSpec == Spec /\ WF_vars(AgentStep) /\ WF_vars(Restart) /\ WF_vars(QuietEnds)

-----------------------------------------------------------------------------
(* Properties *)

Delivered(o) == \A l \in Labels : paper[o][l] > 0

\* Stock leaves only after a complete printing: every Sale row of an order is
\* preceded by a fresh copy of every one of its labels, over all retries and
\* restarts (PrintQueueProcessor.process, PrintOrderProcessor._print_labels_now).
SalesCoveredByPaper ==
  \A o \in Orders, i \in Items, l \in Labels : sales[o][i] <= paper[o][l]

\* A label comes out again only when a call raised or the process was killed in
\* between: without failures it is printed at most once, across the queue, the
\* orders loop, the expiry of printed_orders and cancellations.  With
\* SalesCoveredByPaper the same bound holds of the consumption of stock.
PrintsPaidByFaults ==
  \A o \in Orders, l \in Labels : paper[o][l] <= 1 + faults

\* An order the database calls printed has its labels on paper, or an entry in
\* the stored or the in-memory queue, or was given up after max_queue_retries
\* attempts; beyond those, labels are lost only by an iteration that queued them
\* in quiet hours and ended without its final save_queue.
NoSilentLoss ==
  \A o \in Orders : Marked(o) /\ ~Delivered(o) =>
    \/ o \in Queued(table) \cup Queued(queue) \cup givenUp
    \/ o \in dropped /\ quietings > 0

\* An order leaves the stored queue only when its labels are on paper or it
\* was given up: no save drops the entry of another order.
LeavesWhenDone ==
  \A o \in Queued(table) : o \in Queued(table)' \/ Delivered(o) \/ o \in givenUp
StoredUntilDone == [][LeavesWhenDone]_vars

\* All of it together, seen from the warehouse: the agent implements the abstract
\* fulfilment, in which labels come out again only after a failure and every
\* sale uses up one complete set of labels.
F == INSTANCE Fulfilment
Fulfils == F!Spec

\* Every stored entry is eventually printed or given up.
QueueDrains ==
  \A o \in Orders : o \in Queued(table) ~> Delivered(o) \/ o \in givenUp

\* Every collected order eventually has its labels, unless it was cancelled,
\* given up, lost with the memory, or failed MaxPrintErrors times.
OrdersDelivered ==
  \A o \in Orders : status[o] = "pobrano" ~>
    \/ Delivered(o) \/ o \in givenUp \cup dropped \/ status[o] = "anulowano"
    \/ errlogs[o] >= MaxPrintErrors
=============================================================================
