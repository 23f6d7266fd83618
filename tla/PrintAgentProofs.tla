-------------------------- MODULE PrintAgentProofs --------------------------
(***************************************************************************)
(* Proofs about the printing agent, for every set of orders, labels and    *)
(* items and every bound.  IInv is the inductive invariant.                *)
(***************************************************************************)
EXTENDS PrintAgent, TLAPS

\* The program counter: which steps a task has, that an order being worked on
\* is in the in-memory queue, and that a drained one is below the limit.
Control ==
  /\ task = "none" <=> step = "choose"
  /\ task # "none" => cur \in Orders /\ queue[cur].st # "none"
  /\ task = "none" => cur = None
  /\ task \in {"drain", "giveup"} => phase = "drain"
  /\ task \in {"now", "quiet"} => phase = "orders"
  /\ task = "drain" => /\ step \in {"print", "consume", "mark", "status"}
                       /\ queue[cur].retries < MaxQueueRetries
  /\ task \in {"giveup", "quiet"} => step \in {"mark", "status"}
  /\ step = "print" => left \subseteq Labels
  /\ step = "consume" => left \subseteq Items
  /\ phase = "drain" => todo \cup kept \subseteq Queued(queue)
  /\ quiet => quietings > 0
  /\ task = "quiet" => quietings > 0

\* The order is being printed and sold, and has not failed.
AtWork(o) == /\ cur = o /\ task \in {"drain", "now"}
             /\ step \in {"print", "consume", "mark", "status"}

\* No further failure is needed for the order to be printed once more.
Again(o) ==
  \/ status[o] \in {"absent", "pobrano", "blad_druku"}
  \/ phase \in {"down", "idle"} /\ table[o].st # "none"
  \/ phase = "drain" /\ o \in todo \cup kept
  \/ phase = "orders" /\ (queue[o].st # "none" \/ o \in todo \ printed)

\* Why repeated prints are paid for by failures.
PaperBound ==
  \A o \in Orders, l \in Labels :
    /\ paper[o][l] <= 1 + faults
    /\ AtWork(o) => (step = "print" /\ l \in left => paper[o][l] <= faults)
    /\ ~AtWork(o) => (Again(o) => paper[o][l] <= faults)

\* Why every sale has its printing.
SaleBound ==
  \A o \in Orders, i \in Items, l \in Labels :
    /\ sales[o][i] <= paper[o][l]
    /\ AtWork(o) /\ step = "print" /\ l \notin left => sales[o][i] < paper[o][l]
    /\ AtWork(o) /\ step = "consume" /\ i \in left => sales[o][i] < paper[o][l]

\* How label_queue, the in-memory queue and the loops fit together.
StoreInv ==
  /\ phase = "drain" => /\ \A o \in Orders : table[o].st = "none" <=> queue[o].st = "none"
                        /\ todo \cap kept = {}
                        /\ cur \notin todo \cup kept
  /\ \A o \in Orders, l \in Labels :
       AtWork(o) /\ (step = "print" => l \notin left) => paper[o][l] > 0
  /\ phase = "drain" =>
       \A o \in Queued(queue) \ (todo \cup kept) : o = cur \/ Delivered(o) \/ o \in givenUp
  /\ phase = "orders" =>
       /\ \A o \in Queued(table) \ Queued(queue) : Delivered(o) \/ o \in givenUp
       /\ task = "now" => table[cur].st # "none"
  /\ phase \in {"down", "idle"} => Queued(queue) = {}

\* Why what is lost with the memory was queued in quiet hours.
LossInv ==
  /\ NoSilentLoss
  /\ \A o \in MemoryOnly : Delivered(o) \/ o \in givenUp \/ quietings > 0

IInv == TypeOK /\ Control /\ PaperBound /\ SaleBound /\ StoreInv /\ LossInv

-----------------------------------------------------------------------------
\* Storing an entry keeps a queue a queue.
LEMMA QueueUpdate ==
  ASSUME NEW q \in [Orders -> Entry], NEW o \in Orders, NEW e \in Entry
  PROVE  [q EXCEPT ![o] = e] \in [Orders -> Entry]
OBVIOUS

LEMMA EntryOf ==
  ASSUME NEW n \in 0..MaxQueueRetries
  PROVE  Waiting(n) \in Entry /\ InProgress(n) \in Entry
BY DEF Waiting, InProgress, Entry

\* add_order_status leaves the newest status or writes the new one.
LEMMA AddStatusType ==
  ASSUME TypeOK, NEW o \in Orders, NEW new \in Statuses, AddStatus(o, new)
  PROVE  /\ status' \in [Orders -> Statuses] /\ errlogs' \in [Orders -> Nat]
         /\ \A p \in Orders : p # o => status'[p] = status[p]
         /\ status'[o] \in {status[o], new}
<1>1. StatusAfter(status[o], new) \in {status[o], new} BY DEF StatusAfter
<1>2. status[o] \in Statuses BY DEF TypeOK
<1>3. status' = [status EXCEPT ![o] = StatusAfter(status[o], new)] BY DEF AddStatus
<1>4. errlogs' \in [Orders -> Nat] BY DEF AddStatus, TypeOK
<1>5. QED BY <1>1, <1>2, <1>3, <1>4 DEF TypeOK

\* The types and the control of the agent are preserved by every step.
LEMMA TypingStep ==
  ASSUME TypeOK, Control, [Next]_vars
  PROVE  (TypeOK /\ Control)'
<1> USE BoundsAssumption, PartsAssumption, OrdersAssumption DEF durable, world, memory, env, history, TypeOK, Control, Statuses, Queued
<1>1. CASE UNCHANGED vars
  BY <1>1 DEF vars
<1>2. CASE StartIteration
  <2>1. TypeOK' BY <1>2 DEF StartIteration, Entry, restore_in_progress, Waiting, Entry, NoEntry
  <2>2. Control' BY <1>2 DEF StartIteration, Entry, restore_in_progress, Waiting, Entry, NoEntry
  <2>3. QED BY <2>1, <2>2
<1>3. CASE DrainDone
  BY <1>3 DEF DrainDone, At, Entry, NewQueue, Fault, Entry, NoEntry
<1>4. ASSUME NEW o \in Orders, DrainPick(o) PROVE (TypeOK /\ Control)'
  BY <1>4 DEF DrainPick, At, RetryLimitReached, Entry, InProgress, Begin
<1>5. ASSUME NEW o \in Orders, GiveUp(o) PROVE (TypeOK /\ Control)'
  BY <1>5 DEF GiveUp, At, RetryLimitReached, Begin
<1>6. ASSUME NEW l \in Labels, PrintLabel(l) PROVE (TypeOK /\ Control)'
  BY <1>6 DEF PrintLabel
<1>7. ASSUME NEW i \in Items, ConsumeItem(i) PROVE (TypeOK /\ Control)'
  BY <1>7 DEF ConsumeItem
<1>8. CASE MarkPrinted
  BY <1>8 DEF MarkPrinted
<1>9. CASE WriteStatus
  BY <1>9 DEF WriteStatus, Finish, Choose, AddStatus, StatusAfter, Entry, NoEntry
<1>10. CASE ReportPrintError
  <2>1. cur \in Orders BY <1>10 DEF ReportPrintError
  <2>2. status' \in [Orders -> Statuses] /\ errlogs' \in [Orders -> Nat]
    BY <1>10, <2>1, AddStatusType DEF ReportPrintError
  <2>3. QED BY <1>10, <2>1, <2>2 DEF ReportPrintError, Fault
<1>11. CASE Requeue
  <2>1. cur \in Orders /\ queue[cur].retries \in 0..MaxQueueRetries BY <1>11 DEF Requeue, Entry
  <2>2. queue' = [queue EXCEPT ![cur] = Waiting(queue[cur].retries)] BY <1>11 DEF Requeue
  <2>3. Waiting(queue[cur].retries) \in Entry BY <2>1, EntryOf
  <2>4. queue' \in [Orders -> Entry] BY <2>1, <2>2, <2>3, QueueUpdate
  <2>5. TypeOK'
    <3>1. table' \in [Orders -> Entry] BY <1>11, <2>4 DEF Requeue
    <3>2. QED BY <1>11, <2>4, <3>1 DEF Requeue, Choose, Fault
  <2>6. Control' BY <1>11, <2>1 DEF Requeue, Fault, Choose, Waiting
  <2>7. QED BY <2>5, <2>6
<1>12. CASE FinalSave
  BY <1>12 DEF FinalSave, At, ForgetMemory, EmptyQueue, Choose, Entry, NoEntry
<1>13. ASSUME NEW o \in Orders, SkipOrder(o) PROVE (TypeOK /\ Control)'
  BY <1>13 DEF SkipOrder, At
<1>14. ASSUME NEW o \in Orders, QuietQueue(o) PROVE (TypeOK /\ Control)'
  <2>1. TypeOK' BY <1>14, BoundsAssumption, EntryOf, QueueUpdate DEF QuietQueue, Begin
  <2>2. Control' BY <1>14 DEF QuietQueue, Fresh, At, Waiting, Begin
  <2>3. QED BY <2>1, <2>2
<1>15. ASSUME NEW o \in Orders, PrintNow(o) PROVE (TypeOK /\ Control)'
  <2>1. queue' \in [Orders -> Entry]
    <3>1. InProgress(0) \in Entry BY BoundsAssumption, EntryOf
    <3>2. QED BY <1>15, <3>1, QueueUpdate DEF PrintNow
  <2>2. table' \in [Orders -> Entry] BY <1>15, <2>1 DEF PrintNow
  <2>3. TypeOK' BY <1>15, <2>1, <2>2 DEF PrintNow, Fresh, Begin, Fault
  <2>4. Control' BY <1>15 DEF PrintNow, Fresh, At, Entry, InProgress, Begin, Fault
  <2>5. QED BY <2>3, <2>4
<1>16. CASE DrainSaveFails
  <2>1. TypeOK' BY <1>16 DEF MemoryOnly, DrainSaveFails, At, EndIteration, ForgetMemory, EmptyQueue, Choose, Entry, NoEntry, Fault
  <2>2. Control' BY <1>16 DEF MemoryOnly, DrainSaveFails, At, EndIteration, ForgetMemory, EmptyQueue, Choose, Entry, NoEntry, Fault
  <2>3. QED BY <2>1, <2>2
<1>17. CASE StatusFails
  BY <1>17 DEF StatusFails, Finish, Choose, Fault, Entry, NoEntry
<1>18. CASE WorkFails
  <2>1. CASE task = "drain"
    <3>1. cur \in Orders /\ queue[cur].retries + 1 \in 0..MaxQueueRetries BY <2>1 DEF Entry
    <3>2. DrainLater(cur) BY <1>18, <2>1 DEF WorkFails
    <3>3. queue' = [queue EXCEPT ![cur] = Waiting(queue[cur].retries + 1)] BY <3>2 DEF DrainLater
    <3>4. Waiting(queue[cur].retries + 1) \in Entry BY <3>1 DEF Entry, Waiting
    <3>5. queue' \in [Orders -> Entry] BY <3>1, <3>3, <3>4
    <3>6. TypeOK' BY <1>18, <3>1, <3>2, <3>5 DEF WorkFails, DrainLater, Choose, Fault
    <3>7. \A o \in Orders : queue[o].st # "none" => queue'[o].st # "none" BY <3>1, <3>3 DEF Entry, Waiting
    <3>8. Control' BY <1>18, <2>1, <3>1, <3>2, <3>7 DEF WorkFails, DrainLater, Choose
    <3>9. QED BY <3>6, <3>8
  <2>2. CASE task = "now"
    <3>1. TypeOK' BY <1>18, <2>2 DEF WorkFails, DrainLater, Waiting, Choose, Fault
    <3>2. Control' BY <1>18, <2>2 DEF WorkFails, DrainLater, Waiting, Choose, Fault
    <3>3. QED BY <3>1, <3>2
  <2>3. QED BY <1>18, <2>1, <2>2 DEF WorkFails
<1>19. CASE MarkAborts
  <2>1. CASE task = "giveup"
    <3>1. TypeOK' BY <1>19, <2>1 DEF MemoryOnly, MarkAborts, EndIteration, ForgetMemory, EmptyQueue, Choose, Entry, NoEntry, Fault
    <3>2. Control' BY <1>19, <2>1 DEF MemoryOnly, MarkAborts, EndIteration, ForgetMemory, EmptyQueue, Choose, Entry, NoEntry, Fault
    <3>3. QED BY <3>1, <3>2
  <2>2. CASE task = "quiet"
    <3>1. TypeOK' BY <1>19, <2>2 DEF MemoryOnly, MarkAborts, EndIteration, ForgetMemory, EmptyQueue, Choose, Entry, NoEntry, Fault
    <3>2. Control' BY <1>19, <2>2 DEF MemoryOnly, MarkAborts, EndIteration, ForgetMemory, EmptyQueue, Choose, Entry, NoEntry, Fault
    <3>3. QED BY <3>1, <3>2
  <2>3. QED BY <1>19, <2>1, <2>2 DEF MemoryOnly, MarkAborts, EndIteration, ForgetMemory, EmptyQueue, Choose, Entry, NoEntry, Fault
<1>20. CASE FinalSaveFails
  <2>1. TypeOK' BY <1>20 DEF MemoryOnly, FinalSaveFails, At, EndIteration, ForgetMemory, EmptyQueue, Choose, Entry, NoEntry, Fault
  <2>2. Control' BY <1>20 DEF MemoryOnly, FinalSaveFails, At, EndIteration, ForgetMemory, EmptyQueue, Choose, Entry, NoEntry, Fault
  <2>3. QED BY <2>1, <2>2
<1>21. CASE Crash
  <2>1. TypeOK' BY <1>21 DEF MemoryOnly, Crash, ForgetMemory, EmptyQueue, Choose, Entry, NoEntry, Fault
  <2>2. Control' BY <1>21 DEF MemoryOnly, Crash, ForgetMemory, EmptyQueue, Choose, Entry, NoEntry, Fault
  <2>3. QED BY <2>1, <2>2
<1>22. ASSUME NEW o \in Orders, DrainPickFails(o) PROVE (TypeOK /\ Control)'
  <2>1. queue[o].retries + 1 \in 0..MaxQueueRetries
    BY <1>22 DEF DrainPickFails, RetryLimitReached, Entry
  <2>2. queue' = [queue EXCEPT ![o] = Waiting(queue[o].retries + 1)] BY <1>22 DEF DrainPickFails, DrainLater
  <2>3. TypeOK' BY <1>22, <2>1, <2>2, EntryOf, QueueUpdate DEF DrainPickFails, DrainLater, Choose, Fault
  <2>4. Control' BY <1>22 DEF DrainPickFails, At, RetryLimitReached, DrainLater, Waiting, Choose, Fault
  <2>5. QED BY <2>3, <2>4
<1>23. ASSUME NEW o \in Orders, OrderFails(o) PROVE (TypeOK /\ Control)'
  BY <1>23 DEF OrderFails, Fresh, At, Fault
<1>24. ASSUME NEW o \in Orders, MissingLabels(o) PROVE (TypeOK /\ Control)'
  <2>1. status' \in [Orders -> Statuses] /\ errlogs' \in [Orders -> Nat]
    BY <1>24, AddStatusType DEF MissingLabels
  <2>2. QED BY <1>24, <2>1 DEF MissingLabels, Fresh, At, Fault
<1>25. CASE Restart
  BY <1>25 DEF Restart
<1>26. CASE QuietBegins
  BY <1>26 DEF QuietBegins
<1>27. CASE QuietEnds
  BY <1>27 DEF QuietEnds
<1>28. ASSUME NEW o \in Orders, Arrive(o) PROVE (TypeOK /\ Control)'
  BY <1>28 DEF Arrive
<1>29. ASSUME NEW o \in Orders, Cancel(o) PROVE (TypeOK /\ Control)'
  BY <1>29 DEF Cancel
<1>30. ASSUME NEW o \in Orders, Pack(o) PROVE (TypeOK /\ Control)'
  BY <1>30 DEF Pack
<1>31. QED
  BY <1>1, <1>2, <1>3, <1>4, <1>5, <1>6, <1>7, <1>8, <1>9, <1>10, <1>11, <1>12, <1>13, <1>14, <1>15, <1>16, <1>17, <1>18, <1>19, <1>20, <1>21, <1>22, <1>23, <1>24, <1>25, <1>26, <1>27, <1>28, <1>29, <1>30 DEF Next, AgentStep, Draining, Working, Visiting, Failing, World
\* Repeated prints stay paid for.
LEMMA PaperStep ==
  ASSUME TypeOK, Control, StoreInv, PaperBound, [Next]_vars
  PROVE  PaperBound'
<1> USE BoundsAssumption, PartsAssumption, OrdersAssumption DEF durable, world, memory, env, history, TypeOK, Control, StoreInv, PaperBound, Statuses, Queued, AtWork, Again
<1>1. CASE UNCHANGED vars
  BY <1>1 DEF vars
<1>2. CASE StartIteration
  BY <1>2 DEF StartIteration, restore_in_progress, Waiting, NoEntry
<1>3. CASE DrainDone
  BY <1>3 DEF Printable, DrainDone, At, NewQueue, Fault, NoEntry
<1>4. ASSUME NEW o \in Orders, DrainPick(o) PROVE PaperBound'
  BY <1>4 DEF DrainPick, At, RetryLimitReached, InProgress, Begin
<1>5. ASSUME NEW o \in Orders, GiveUp(o) PROVE PaperBound'
  BY <1>5 DEF GiveUp, At, RetryLimitReached, Begin
<1>6. ASSUME NEW l \in Labels, PrintLabel(l) PROVE PaperBound'
  BY <1>6 DEF PrintLabel
<1>7. ASSUME NEW i \in Items, ConsumeItem(i) PROVE PaperBound'
  BY <1>7 DEF ConsumeItem
<1>8. CASE MarkPrinted
  BY <1>8 DEF MarkPrinted
<1>9. CASE WriteStatus
  <2>1. cur \in Orders BY <1>9 DEF WriteStatus
  <2>2. status'[cur] = StatusAfter(status[cur], "wydrukowano") BY <1>9, <2>1 DEF WriteStatus, AddStatus
  <2>3. status'[cur] \notin {"absent", "pobrano", "blad_druku"}
    BY <2>1, <2>2 DEF StatusAfter, Rank
  <2>4. \A p \in Orders \ {cur} : status'[p] = status[p] BY <1>9, <2>1, AddStatusType DEF WriteStatus
  <2>5. QED BY <1>9, <2>1, <2>3, <2>4 DEF WriteStatus, Finish, Choose, NoEntry
<1>10. CASE ReportPrintError
  BY <1>10 DEF ReportPrintError, Fault, AddStatus, StatusAfter
<1>11. CASE Requeue
  BY <1>11 DEF Requeue, Fault, Choose, Waiting
<1>12. CASE FinalSave
  BY <1>12 DEF FinalSave, At, ForgetMemory, EmptyQueue, Choose, NoEntry
<1>13. ASSUME NEW o \in Orders, SkipOrder(o) PROVE PaperBound'
  BY <1>13 DEF SkipOrder, At
<1>14. ASSUME NEW o \in Orders, QuietQueue(o) PROVE PaperBound'
  BY <1>14 DEF QuietQueue, Fresh, At, Waiting, Begin
<1>15. ASSUME NEW o \in Orders, PrintNow(o) PROVE PaperBound'
  BY <1>15 DEF PrintNow, Fresh, At, InProgress, Begin, Fault
<1>16. CASE DrainSaveFails
  BY <1>16 DEF DrainSaveFails, At, EndIteration, ForgetMemory, EmptyQueue, Choose, NoEntry, Fault
<1>17. CASE StatusFails
  BY <1>17 DEF StatusFails, Finish, Choose, Fault, NoEntry
<1>18. CASE WorkFails
  BY <1>18 DEF WorkFails, DrainLater, Waiting, Choose, Fault
<1>19. CASE MarkAborts
  BY <1>19 DEF MarkAborts, EndIteration, ForgetMemory, EmptyQueue, Choose, NoEntry, Fault
<1>20. CASE FinalSaveFails
  BY <1>20 DEF FinalSaveFails, At, EndIteration, ForgetMemory, EmptyQueue, Choose, NoEntry, Fault
<1>21. CASE Crash
  BY <1>21 DEF Crash, ForgetMemory, EmptyQueue, Choose, NoEntry, Fault
<1>22. ASSUME NEW o \in Orders, DrainPickFails(o) PROVE PaperBound'
  BY <1>22 DEF DrainPickFails, At, RetryLimitReached, DrainLater, Waiting, Choose, Fault
<1>23. ASSUME NEW o \in Orders, OrderFails(o) PROVE PaperBound'
  BY <1>23 DEF OrderFails, Fresh, At, Fault
<1>24. ASSUME NEW o \in Orders, MissingLabels(o) PROVE PaperBound'
  BY <1>24 DEF MissingLabels, Fresh, At, Fault, AddStatus, StatusAfter
<1>25. CASE Restart
  BY <1>25 DEF Restart
<1>26. CASE QuietBegins
  BY <1>26 DEF QuietBegins
<1>27. CASE QuietEnds
  BY <1>27 DEF QuietEnds
<1>28. ASSUME NEW o \in Orders, Arrive(o) PROVE PaperBound'
  BY <1>28 DEF Arrive
<1>29. ASSUME NEW o \in Orders, Cancel(o) PROVE PaperBound'
  BY <1>29 DEF Cancel
<1>30. ASSUME NEW o \in Orders, Pack(o) PROVE PaperBound'
  BY <1>30 DEF Pack
<1>31. QED
  BY <1>1, <1>2, <1>3, <1>4, <1>5, <1>6, <1>7, <1>8, <1>9, <1>10, <1>11, <1>12, <1>13, <1>14, <1>15, <1>16, <1>17, <1>18, <1>19, <1>20, <1>21, <1>22, <1>23, <1>24, <1>25, <1>26, <1>27, <1>28, <1>29, <1>30 DEF Next, AgentStep, Draining, Working, Visiting, Failing, World
\* Sales stay covered by printings.
LEMMA SaleStep ==
  ASSUME TypeOK, Control, SaleBound, [Next]_vars
  PROVE  SaleBound'
<1> USE BoundsAssumption, PartsAssumption, OrdersAssumption DEF durable, world, memory, env, history, TypeOK, Control, SaleBound, AtWork
<1>1. CASE UNCHANGED vars
  BY <1>1 DEF vars
<1>2. CASE StartIteration
  BY <1>2 DEF StartIteration, restore_in_progress, Waiting, NoEntry
<1>3. CASE DrainDone
  BY <1>3 DEF DrainDone, At, NewQueue, Fault, NoEntry
<1>4. ASSUME NEW o \in Orders, DrainPick(o) PROVE SaleBound'
  BY <1>4 DEF DrainPick, At, RetryLimitReached, InProgress, Begin
<1>5. ASSUME NEW o \in Orders, GiveUp(o) PROVE SaleBound'
  BY <1>5 DEF GiveUp, At, RetryLimitReached, Begin
<1>6. ASSUME NEW l \in Labels, PrintLabel(l) PROVE SaleBound'
  BY <1>6 DEF PrintLabel
<1>7. ASSUME NEW i \in Items, ConsumeItem(i) PROVE SaleBound'
  BY <1>7 DEF ConsumeItem
<1>8. CASE MarkPrinted
  BY <1>8 DEF MarkPrinted
<1>9. CASE WriteStatus
  BY <1>9 DEF WriteStatus, Finish, Choose, AddStatus, StatusAfter, NoEntry
<1>10. CASE ReportPrintError
  BY <1>10 DEF ReportPrintError, Fault, AddStatus, StatusAfter
<1>11. CASE Requeue
  BY <1>11 DEF Requeue, Fault, Choose, Waiting
<1>12. CASE FinalSave
  BY <1>12 DEF FinalSave, At, ForgetMemory, EmptyQueue, Choose, NoEntry
<1>13. ASSUME NEW o \in Orders, SkipOrder(o) PROVE SaleBound'
  BY <1>13 DEF SkipOrder, At
<1>14. ASSUME NEW o \in Orders, QuietQueue(o) PROVE SaleBound'
  BY <1>14 DEF QuietQueue, Fresh, At, Waiting, Begin
<1>15. ASSUME NEW o \in Orders, PrintNow(o) PROVE SaleBound'
  BY <1>15 DEF PrintNow, Fresh, At, InProgress, Begin, Fault
<1>16. CASE DrainSaveFails
  BY <1>16 DEF DrainSaveFails, At, EndIteration, ForgetMemory, EmptyQueue, Choose, NoEntry, Fault
<1>17. CASE StatusFails
  BY <1>17 DEF StatusFails, Finish, Choose, Fault, NoEntry
<1>18. CASE WorkFails
  BY <1>18 DEF WorkFails, DrainLater, Waiting, Choose, Fault
<1>19. CASE MarkAborts
  BY <1>19 DEF MarkAborts, EndIteration, ForgetMemory, EmptyQueue, Choose, NoEntry, Fault
<1>20. CASE FinalSaveFails
  BY <1>20 DEF FinalSaveFails, At, EndIteration, ForgetMemory, EmptyQueue, Choose, NoEntry, Fault
<1>21. CASE Crash
  BY <1>21 DEF Crash, ForgetMemory, EmptyQueue, Choose, NoEntry, Fault
<1>22. ASSUME NEW o \in Orders, DrainPickFails(o) PROVE SaleBound'
  BY <1>22 DEF DrainPickFails, At, RetryLimitReached, DrainLater, Waiting, Choose, Fault
<1>23. ASSUME NEW o \in Orders, OrderFails(o) PROVE SaleBound'
  BY <1>23 DEF OrderFails, Fresh, At, Fault
<1>24. ASSUME NEW o \in Orders, MissingLabels(o) PROVE SaleBound'
  BY <1>24 DEF MissingLabels, Fresh, At, Fault, AddStatus, StatusAfter
<1>25. CASE Restart
  BY <1>25 DEF Restart
<1>26. CASE QuietBegins
  BY <1>26 DEF QuietBegins
<1>27. CASE QuietEnds
  BY <1>27 DEF QuietEnds
<1>28. ASSUME NEW o \in Orders, Arrive(o) PROVE SaleBound'
  BY <1>28 DEF Arrive
<1>29. ASSUME NEW o \in Orders, Cancel(o) PROVE SaleBound'
  BY <1>29 DEF Cancel
<1>30. ASSUME NEW o \in Orders, Pack(o) PROVE SaleBound'
  BY <1>30 DEF Pack
<1>31. QED
  BY <1>1, <1>2, <1>3, <1>4, <1>5, <1>6, <1>7, <1>8, <1>9, <1>10, <1>11, <1>12, <1>13, <1>14, <1>15, <1>16, <1>17, <1>18, <1>19, <1>20, <1>21, <1>22, <1>23, <1>24, <1>25, <1>26, <1>27, <1>28, <1>29, <1>30 DEF Next, AgentStep, Draining, Working, Visiting, Failing, World
\* The stored queue, the in-memory queue and the loops keep fitting together.
LEMMA StoreStep ==
  ASSUME TypeOK, Control, StoreInv, [Next]_vars
  PROVE  StoreInv'
<1> USE BoundsAssumption, PartsAssumption, OrdersAssumption DEF durable, world, memory, env, history, TypeOK, Control, StoreInv, Queued, AtWork, Delivered
<1>1. CASE UNCHANGED vars
  BY <1>1 DEF vars
<1>2. CASE StartIteration
  BY <1>2 DEF StartIteration, restore_in_progress, Waiting, NoEntry
<1>3. CASE DrainDone
  BY <1>3 DEF DrainDone, At, NewQueue, Fault, NoEntry
<1>4. ASSUME NEW o \in Orders, DrainPick(o) PROVE StoreInv'
  BY <1>4 DEF DrainPick, At, RetryLimitReached, InProgress, Begin
<1>5. ASSUME NEW o \in Orders, GiveUp(o) PROVE StoreInv'
  BY <1>5 DEF GiveUp, At, RetryLimitReached, Begin
<1>6. ASSUME NEW l \in Labels, PrintLabel(l) PROVE StoreInv'
  BY <1>6 DEF PrintLabel
<1>7. ASSUME NEW i \in Items, ConsumeItem(i) PROVE StoreInv'
  BY <1>7 DEF ConsumeItem
<1>8. CASE MarkPrinted
  BY <1>8 DEF MarkPrinted
<1>9. CASE WriteStatus
  BY <1>9 DEF WriteStatus, Finish, Choose, AddStatus, StatusAfter, NoEntry
<1>10. CASE ReportPrintError
  BY <1>10 DEF ReportPrintError, Fault, AddStatus, StatusAfter
<1>11. CASE Requeue
  BY <1>11 DEF Requeue, Fault, Choose, Waiting
<1>12. CASE FinalSave
  BY <1>12 DEF FinalSave, At, ForgetMemory, EmptyQueue, Choose, NoEntry
<1>13. ASSUME NEW o \in Orders, SkipOrder(o) PROVE StoreInv'
  BY <1>13 DEF SkipOrder, At
<1>14. ASSUME NEW o \in Orders, QuietQueue(o) PROVE StoreInv'
  BY <1>14 DEF QuietQueue, Fresh, At, Waiting, Begin
<1>15. ASSUME NEW o \in Orders, PrintNow(o) PROVE StoreInv'
  BY <1>15 DEF PrintNow, Fresh, At, InProgress, Begin, Fault
<1>16. CASE DrainSaveFails
  BY <1>16 DEF DrainSaveFails, At, EndIteration, ForgetMemory, EmptyQueue, Choose, NoEntry, Fault
<1>17. CASE StatusFails
  BY <1>17 DEF StatusFails, Finish, Choose, Fault, NoEntry
<1>18. CASE WorkFails
  <2>1. CASE task = "drain"
    <3>1. cur \in Orders /\ phase = "drain" /\ queue[cur].st # "none" BY <2>1
    <3>2. queue' = [queue EXCEPT ![cur] = Waiting(queue[cur].retries + 1)] /\ kept' = kept \cup {cur} /\ cur' = None
      BY <1>18, <2>1 DEF WorkFails, DrainLater, Choose
    <3>3. \A o \in Orders : queue[o].st # "none" <=> queue'[o].st # "none" BY <3>1, <3>2 DEF Waiting
    <3>4. UNCHANGED <<durable, paper, phase, todo, givenUp>> BY <1>18 DEF WorkFails
    <3>5. todo' \cap kept' = {} /\ cur' \notin todo' \cup kept' BY <3>1, <3>2, <3>4
    <3>6. ~AtWork(cur)' /\ task' = "none" BY <1>18, <2>1 DEF WorkFails, DrainLater, Choose
    <3>7. QED BY <3>1, <3>2, <3>3, <3>4, <3>5, <3>6
  <2>2. CASE task = "now" BY <1>18, <2>2 DEF WorkFails
  <2>3. QED BY <1>18, <2>1, <2>2 DEF WorkFails
<1>19. CASE MarkAborts
  BY <1>19 DEF MarkAborts, EndIteration, ForgetMemory, EmptyQueue, Choose, NoEntry, Fault
<1>20. CASE FinalSaveFails
  BY <1>20 DEF FinalSaveFails, At, EndIteration, ForgetMemory, EmptyQueue, Choose, NoEntry, Fault
<1>21. CASE Crash
  BY <1>21 DEF Crash, ForgetMemory, EmptyQueue, Choose, NoEntry, Fault
<1>22. ASSUME NEW o \in Orders, DrainPickFails(o) PROVE StoreInv'
  BY <1>22 DEF DrainPickFails, At, RetryLimitReached, DrainLater, Waiting, Choose, Fault
<1>23. ASSUME NEW o \in Orders, OrderFails(o) PROVE StoreInv'
  BY <1>23 DEF OrderFails, Fresh, At, Fault
<1>24. ASSUME NEW o \in Orders, MissingLabels(o) PROVE StoreInv'
  BY <1>24 DEF MissingLabels, Fresh, At, Fault, AddStatus, StatusAfter
<1>25. CASE Restart
  BY <1>25 DEF Restart
<1>26. CASE QuietBegins
  BY <1>26 DEF QuietBegins
<1>27. CASE QuietEnds
  BY <1>27 DEF QuietEnds
<1>28. ASSUME NEW o \in Orders, Arrive(o) PROVE StoreInv'
  BY <1>28 DEF Arrive
<1>29. ASSUME NEW o \in Orders, Cancel(o) PROVE StoreInv'
  BY <1>29 DEF Cancel
<1>30. ASSUME NEW o \in Orders, Pack(o) PROVE StoreInv'
  BY <1>30 DEF Pack
<1>31. QED
  BY <1>1, <1>2, <1>3, <1>4, <1>5, <1>6, <1>7, <1>8, <1>9, <1>10, <1>11, <1>12, <1>13, <1>14, <1>15, <1>16, <1>17, <1>18, <1>19, <1>20, <1>21, <1>22, <1>23, <1>24, <1>25, <1>26, <1>27, <1>28, <1>29, <1>30 DEF Next, AgentStep, Draining, Working, Visiting, Failing, World
\* What is lost stays accounted for.
LEMMA LossStep ==
  ASSUME TypeOK, Control, StoreInv, LossInv, [Next]_vars
  PROVE  LossInv'
<1> USE BoundsAssumption, PartsAssumption, OrdersAssumption DEF durable, world, memory, env, history, TypeOK, Control, StoreInv, LossInv, NoSilentLoss, MemoryOnly, Marked, Queued, AtWork, Delivered
<1>1. CASE UNCHANGED vars
  BY <1>1 DEF vars
<1>2. CASE StartIteration
  BY <1>2 DEF StartIteration, restore_in_progress, Waiting, NoEntry
<1>3. CASE DrainDone
  BY <1>3 DEF DrainDone, At, NewQueue, Fault, NoEntry
<1>4. ASSUME NEW o \in Orders, DrainPick(o) PROVE LossInv'
  BY <1>4 DEF DrainPick, At, RetryLimitReached, InProgress, Begin
<1>5. ASSUME NEW o \in Orders, GiveUp(o) PROVE LossInv'
  BY <1>5 DEF GiveUp, At, RetryLimitReached, Begin
<1>6. ASSUME NEW l \in Labels, PrintLabel(l) PROVE LossInv'
  BY <1>6 DEF PrintLabel
<1>7. ASSUME NEW i \in Items, ConsumeItem(i) PROVE LossInv'
  BY <1>7 DEF ConsumeItem
<1>8. CASE MarkPrinted
  BY <1>8 DEF MarkPrinted
<1>9. CASE WriteStatus
  BY <1>9 DEF WriteStatus, Finish, Choose, AddStatus, StatusAfter, NoEntry
<1>10. CASE ReportPrintError
  BY <1>10 DEF ReportPrintError, Fault, AddStatus, StatusAfter
<1>11. CASE Requeue
  BY <1>11 DEF Requeue, Fault, Choose, Waiting
<1>12. CASE FinalSave
  BY <1>12 DEF FinalSave, At, ForgetMemory, EmptyQueue, Choose, NoEntry
<1>13. ASSUME NEW o \in Orders, SkipOrder(o) PROVE LossInv'
  BY <1>13 DEF SkipOrder, At
<1>14. ASSUME NEW o \in Orders, QuietQueue(o) PROVE LossInv'
  BY <1>14 DEF QuietQueue, Fresh, At, Waiting, Begin
<1>15. ASSUME NEW o \in Orders, PrintNow(o) PROVE LossInv'
  BY <1>15 DEF PrintNow, Fresh, At, InProgress, Begin, Fault
<1>16. CASE DrainSaveFails
  BY <1>16 DEF DrainSaveFails, At, EndIteration, ForgetMemory, EmptyQueue, Choose, NoEntry, Fault
<1>17. CASE StatusFails
  BY <1>17 DEF StatusFails, Finish, Choose, Fault, NoEntry
<1>18. CASE WorkFails
  BY <1>18 DEF WorkFails, DrainLater, Waiting, Choose, Fault
<1>19. CASE MarkAborts
  BY <1>19 DEF MarkAborts, EndIteration, ForgetMemory, EmptyQueue, Choose, NoEntry, Fault
<1>20. CASE FinalSaveFails
  BY <1>20 DEF FinalSaveFails, At, EndIteration, ForgetMemory, EmptyQueue, Choose, NoEntry, Fault
<1>21. CASE Crash
  BY <1>21 DEF Crash, ForgetMemory, EmptyQueue, Choose, NoEntry, Fault
<1>22. ASSUME NEW o \in Orders, DrainPickFails(o) PROVE LossInv'
  BY <1>22 DEF DrainPickFails, At, RetryLimitReached, DrainLater, Waiting, Choose, Fault
<1>23. ASSUME NEW o \in Orders, OrderFails(o) PROVE LossInv'
  BY <1>23 DEF OrderFails, Fresh, At, Fault
<1>24. ASSUME NEW o \in Orders, MissingLabels(o) PROVE LossInv'
  BY <1>24 DEF MissingLabels, Fresh, At, Fault, AddStatus, StatusAfter
<1>25. CASE Restart
  BY <1>25 DEF Restart
<1>26. CASE QuietBegins
  BY <1>26 DEF QuietBegins
<1>27. CASE QuietEnds
  BY <1>27 DEF QuietEnds
<1>28. ASSUME NEW o \in Orders, Arrive(o) PROVE LossInv'
  BY <1>28 DEF Arrive
<1>29. ASSUME NEW o \in Orders, Cancel(o) PROVE LossInv'
  BY <1>29 DEF Cancel
<1>30. ASSUME NEW o \in Orders, Pack(o) PROVE LossInv'
  BY <1>30 DEF Pack
<1>31. QED
  BY <1>1, <1>2, <1>3, <1>4, <1>5, <1>6, <1>7, <1>8, <1>9, <1>10, <1>11, <1>12, <1>13, <1>14, <1>15, <1>16, <1>17, <1>18, <1>19, <1>20, <1>21, <1>22, <1>23, <1>24, <1>25, <1>26, <1>27, <1>28, <1>29, <1>30 DEF Next, AgentStep, Draining, Working, Visiting, Failing, World

-----------------------------------------------------------------------------
LEMMA Initially == Init => IInv
<1> SUFFICES ASSUME Init PROVE IInv OBVIOUS
<1>1. TypeOK
  <2>1. NoEntry \in Entry BY BoundsAssumption DEF NoEntry, Entry
  <2>2. EmptyQueue \in [Orders -> Entry] BY <2>1 DEF EmptyQueue
  <2>3. paper \in [Orders -> [Labels -> Nat]] /\ sales \in [Orders -> [Items -> Nat]] BY DEF Init
  <2>4. QED BY <2>2, <2>3 DEF Init, TypeOK, Statuses
<1>2. Control BY OrdersAssumption DEF Init, Control
<1>3. PaperBound /\ SaleBound BY DEF Init, PaperBound, SaleBound, AtWork
<1>4. StoreInv BY DEF Init, StoreInv, AtWork, Queued, EmptyQueue, NoEntry
<1>5. LossInv
  BY DEF Init, LossInv, NoSilentLoss, MemoryOnly, Marked, Queued, EmptyQueue, NoEntry
<1>6. QED BY <1>1, <1>2, <1>3, <1>4, <1>5 DEF IInv

LEMMA Inductive == IInv /\ [Next]_vars => IInv'
BY TypingStep, PaperStep, SaleStep, StoreStep, LossStep DEF IInv

\* IInv holds in every reachable state.
THEOREM Invariance == Spec => []IInv
BY Initially, Inductive, PTL DEF Spec

\* Every variable keeps its type; in particular no stored retry_count exceeds
\* max_queue_retries.
THEOREM TypeCorrect == Spec => []TypeOK
BY Invariance, PTL DEF IInv

\* Stock is consumed only against complete printings, whatever fails and
\* however often the process is killed.
THEOREM SalesNeedPaper == Spec => []SalesCoveredByPaper
<1>1. IInv => SalesCoveredByPaper BY DEF IInv, SaleBound, SalesCoveredByPaper
<1>2. QED BY <1>1, Invariance, PTL

\* A label is printed again only on the account of a failure.
THEOREM PrintsArePaid == Spec => []PrintsPaidByFaults
<1>1. IInv => PrintsPaidByFaults BY DEF IInv, PaperBound, PrintsPaidByFaults
<1>2. QED BY <1>1, Invariance, PTL

\* With the two before: without failures a position of an order is consumed at
\* most once, and in general at most once more than there were failures.
THEOREM ConsumptionIsPaid ==
  Spec => [](\A o \in Orders, i \in Items : sales[o][i] <= 1 + faults)
<1>1. ASSUME IInv, NEW o \in Orders, NEW i \in Items PROVE sales[o][i] <= 1 + faults
  <2>1. PICK l \in Labels : TRUE BY PartsAssumption
  <2>2. sales[o][i] <= paper[o][l] /\ paper[o][l] <= 1 + faults
    BY <1>1, <2>1 DEF IInv, SaleBound, PaperBound
  <2>3. sales[o][i] \in Nat /\ paper[o][l] \in Nat /\ faults \in Nat BY <1>1, <2>1 DEF IInv, TypeOK
  <2>4. QED BY <2>2, <2>3
<1>2. IInv => \A o \in Orders, i \in Items : sales[o][i] <= 1 + faults BY <1>1
<1>3. QED BY <1>2, Invariance, PTL

\* An order that counts as printed is on paper, queued, given up, or was queued
\* in quiet hours and lost with the memory of the agent.
THEOREM NothingLostSilently == Spec => []NoSilentLoss
<1>1. IInv => NoSilentLoss BY DEF IInv, LossInv
<1>2. QED BY <1>1, Invariance, PTL

-----------------------------------------------------------------------------
\* Only a print changes the paper, only a consumption the sales.
LEMMA WorldStep ==
  ASSUME IInv, [Next]_vars
  PROVE  [F!Next]_<<paper, sales, faults>>
<1> USE BoundsAssumption, PartsAssumption, OrdersAssumption DEF F!Next, F!Fail, durable, world, memory, env, history
<1>1. CASE UNCHANGED vars
  BY <1>1 DEF vars
<1>2. CASE StartIteration
  BY <1>2 DEF StartIteration, restore_in_progress, Waiting, NoEntry
<1>3. CASE DrainDone
  BY <1>3 DEF DrainDone, At, NewQueue, Fault, NoEntry
<1>4. ASSUME NEW o \in Orders, DrainPick(o) PROVE [F!Next]_<<paper, sales, faults>>
  BY <1>4 DEF DrainPick, At, RetryLimitReached, InProgress, Begin
<1>5. ASSUME NEW o \in Orders, GiveUp(o) PROVE [F!Next]_<<paper, sales, faults>>
  BY <1>5 DEF GiveUp, At, RetryLimitReached, Begin
<1>6. ASSUME NEW l \in Labels, PrintLabel(l) PROVE [F!Next]_<<paper, sales, faults>>
  <2>1. cur \in Orders /\ AtWork(cur) /\ paper[cur][l] <= faults
    BY <1>6 DEF PrintLabel, IInv, Control, PaperBound, AtWork, TypeOK
  <2>2. F!Copy(cur, l) BY <1>6, <2>1 DEF PrintLabel, F!Copy
  <2>3. QED BY <2>1, <2>2 DEF F!Next
<1>7. ASSUME NEW i \in Items, ConsumeItem(i) PROVE [F!Next]_<<paper, sales, faults>>
  <2>1. cur \in Orders /\ AtWork(cur) /\ \A l \in Labels : sales[cur][i] < paper[cur][l]
    BY <1>7 DEF ConsumeItem, IInv, Control, SaleBound, AtWork, TypeOK
  <2>2. F!Sell(cur, i) BY <1>7, <2>1 DEF ConsumeItem, F!Sell
  <2>3. QED BY <2>1, <2>2 DEF F!Next
<1>8. CASE MarkPrinted
  BY <1>8 DEF MarkPrinted
<1>9. CASE WriteStatus
  BY <1>9 DEF WriteStatus, Finish
<1>10. CASE ReportPrintError
  BY <1>10 DEF ReportPrintError, Fault, AddStatus, StatusAfter
<1>11. CASE Requeue
  BY <1>11 DEF Requeue, Fault, Choose, Waiting
<1>12. CASE FinalSave
  BY <1>12 DEF FinalSave, At, ForgetMemory, EmptyQueue, Choose, NoEntry
<1>13. ASSUME NEW o \in Orders, SkipOrder(o) PROVE [F!Next]_<<paper, sales, faults>>
  BY <1>13 DEF SkipOrder, At
<1>14. ASSUME NEW o \in Orders, QuietQueue(o) PROVE [F!Next]_<<paper, sales, faults>>
  BY <1>14 DEF QuietQueue, Fresh, At, Waiting, Begin
<1>15. ASSUME NEW o \in Orders, PrintNow(o) PROVE [F!Next]_<<paper, sales, faults>>
  BY <1>15 DEF PrintNow, Fresh, At, InProgress, Begin, Fault
<1>16. CASE DrainSaveFails
  BY <1>16 DEF DrainSaveFails, At, EndIteration, ForgetMemory, EmptyQueue, Choose, NoEntry, Fault
<1>17. CASE StatusFails
  BY <1>17 DEF StatusFails, Finish, Choose, Fault, NoEntry
<1>18. CASE WorkFails
  BY <1>18 DEF WorkFails, DrainLater, Waiting, Choose, Fault
<1>19. CASE MarkAborts
  BY <1>19 DEF MarkAborts, EndIteration, ForgetMemory, EmptyQueue, Choose, NoEntry, Fault
<1>20. CASE FinalSaveFails
  BY <1>20 DEF FinalSaveFails, At, EndIteration, ForgetMemory, EmptyQueue, Choose, NoEntry, Fault
<1>21. CASE Crash
  BY <1>21 DEF Crash, ForgetMemory, EmptyQueue, Choose, NoEntry, Fault
<1>22. ASSUME NEW o \in Orders, DrainPickFails(o) PROVE [F!Next]_<<paper, sales, faults>>
  BY <1>22 DEF DrainPickFails, At, RetryLimitReached, DrainLater, Waiting, Choose, Fault
<1>23. ASSUME NEW o \in Orders, OrderFails(o) PROVE [F!Next]_<<paper, sales, faults>>
  BY <1>23 DEF OrderFails, Fresh, At, Fault
<1>24. ASSUME NEW o \in Orders, MissingLabels(o) PROVE [F!Next]_<<paper, sales, faults>>
  BY <1>24 DEF MissingLabels, Fresh, At, Fault, AddStatus, StatusAfter
<1>25. CASE Restart
  BY <1>25 DEF Restart
<1>26. CASE QuietBegins
  BY <1>26 DEF QuietBegins
<1>27. CASE QuietEnds
  BY <1>27 DEF QuietEnds
<1>28. ASSUME NEW o \in Orders, Arrive(o) PROVE [F!Next]_<<paper, sales, faults>>
  BY <1>28 DEF Arrive
<1>29. ASSUME NEW o \in Orders, Cancel(o) PROVE [F!Next]_<<paper, sales, faults>>
  BY <1>29 DEF Cancel
<1>30. ASSUME NEW o \in Orders, Pack(o) PROVE [F!Next]_<<paper, sales, faults>>
  BY <1>30 DEF Pack
<1>31. QED
  BY <1>1, <1>2, <1>3, <1>4, <1>5, <1>6, <1>7, <1>8, <1>9, <1>10, <1>11, <1>12, <1>13, <1>14, <1>15, <1>16, <1>17, <1>18, <1>19, <1>20, <1>21, <1>22, <1>23, <1>24, <1>25, <1>26, <1>27, <1>28, <1>29, <1>30 DEF Next, AgentStep, Draining, Working, Visiting, Failing, World
\* The agent implements the abstract fulfilment.
THEOREM AgentFulfils == Spec => Fulfils
<1>1. Init => F!Init BY DEF Init, F!Init
<1>2. IInv /\ [Next]_vars => [F!Next]_<<paper, sales, faults>> BY WorldStep
<1>3. QED BY <1>1, <1>2, Invariance, PTL DEF Spec, Fulfils, F!Spec

\* No save of the queue drops an order that is neither printed nor given up.
LEMMA StoredStep ==
  ASSUME IInv, [Next]_vars
  PROVE  LeavesWhenDone
<1> USE BoundsAssumption, PartsAssumption, OrdersAssumption DEF durable, world, memory, env, history, IInv, Control, TypeOK, StoreInv, Queued, LeavesWhenDone
<1>1. CASE UNCHANGED vars
  BY <1>1 DEF vars
<1>2. CASE StartIteration
  BY <1>2 DEF StartIteration, restore_in_progress, Waiting, NoEntry
<1>3. CASE DrainDone
  BY <1>3 DEF DrainDone, At, NewQueue, Fault, NoEntry
<1>4. ASSUME NEW o \in Orders, DrainPick(o) PROVE LeavesWhenDone
  BY <1>4 DEF DrainPick, At, RetryLimitReached, InProgress, Begin
<1>5. ASSUME NEW o \in Orders, GiveUp(o) PROVE LeavesWhenDone
  BY <1>5 DEF GiveUp, At, RetryLimitReached, Begin
<1>6. ASSUME NEW l \in Labels, PrintLabel(l) PROVE LeavesWhenDone
  BY <1>6 DEF PrintLabel
<1>7. ASSUME NEW i \in Items, ConsumeItem(i) PROVE LeavesWhenDone
  BY <1>7 DEF ConsumeItem
<1>8. CASE MarkPrinted
  BY <1>8 DEF MarkPrinted
<1>9. CASE WriteStatus
  BY <1>9 DEF WriteStatus, Finish, Choose, AddStatus, StatusAfter, NoEntry
<1>10. CASE ReportPrintError
  BY <1>10 DEF ReportPrintError, Fault, AddStatus, StatusAfter
<1>11. CASE Requeue
  <2>1. cur \in Orders /\ phase = "orders" BY <1>11 DEF Requeue
  <2>2. table' = table \/ table' = [queue EXCEPT ![cur] = Waiting(queue[cur].retries)] BY <1>11 DEF Requeue
  <2>3. \A o \in Orders : queue[o].st # "none" =>
          [queue EXCEPT ![cur] = Waiting(queue[cur].retries)][o].st # "none" BY <2>1 DEF Waiting
  <2>4. QED BY <2>1, <2>2, <2>3
<1>12. CASE FinalSave
  BY <1>12 DEF FinalSave, At, ForgetMemory, EmptyQueue, Choose, NoEntry
<1>13. ASSUME NEW o \in Orders, SkipOrder(o) PROVE LeavesWhenDone
  BY <1>13 DEF SkipOrder, At
<1>14. ASSUME NEW o \in Orders, QuietQueue(o) PROVE LeavesWhenDone
  BY <1>14 DEF QuietQueue, Fresh, At, Waiting, Begin
<1>15. ASSUME NEW o \in Orders, PrintNow(o) PROVE LeavesWhenDone
  BY <1>15 DEF PrintNow, Fresh, At, InProgress, Begin, Fault
<1>16. CASE DrainSaveFails
  BY <1>16 DEF DrainSaveFails, At, EndIteration, ForgetMemory, EmptyQueue, Choose, NoEntry, Fault
<1>17. CASE StatusFails
  BY <1>17 DEF StatusFails, Finish, Choose, Fault, NoEntry
<1>18. CASE WorkFails
  BY <1>18 DEF WorkFails, DrainLater, Waiting, Choose, Fault
<1>19. CASE MarkAborts
  BY <1>19 DEF MarkAborts, EndIteration, ForgetMemory, EmptyQueue, Choose, NoEntry, Fault
<1>20. CASE FinalSaveFails
  BY <1>20 DEF FinalSaveFails, At, EndIteration, ForgetMemory, EmptyQueue, Choose, NoEntry, Fault
<1>21. CASE Crash
  BY <1>21 DEF Crash, ForgetMemory, EmptyQueue, Choose, NoEntry, Fault
<1>22. ASSUME NEW o \in Orders, DrainPickFails(o) PROVE LeavesWhenDone
  BY <1>22 DEF DrainPickFails, At, RetryLimitReached, DrainLater, Waiting, Choose, Fault
<1>23. ASSUME NEW o \in Orders, OrderFails(o) PROVE LeavesWhenDone
  BY <1>23 DEF OrderFails, Fresh, At, Fault
<1>24. ASSUME NEW o \in Orders, MissingLabels(o) PROVE LeavesWhenDone
  BY <1>24 DEF MissingLabels, Fresh, At, Fault, AddStatus, StatusAfter
<1>25. CASE Restart
  BY <1>25 DEF Restart
<1>26. CASE QuietBegins
  BY <1>26 DEF QuietBegins
<1>27. CASE QuietEnds
  BY <1>27 DEF QuietEnds
<1>28. ASSUME NEW o \in Orders, Arrive(o) PROVE LeavesWhenDone
  BY <1>28 DEF Arrive
<1>29. ASSUME NEW o \in Orders, Cancel(o) PROVE LeavesWhenDone
  BY <1>29 DEF Cancel
<1>30. ASSUME NEW o \in Orders, Pack(o) PROVE LeavesWhenDone
  BY <1>30 DEF Pack
<1>31. QED
  BY <1>1, <1>2, <1>3, <1>4, <1>5, <1>6, <1>7, <1>8, <1>9, <1>10, <1>11, <1>12, <1>13, <1>14, <1>15, <1>16, <1>17, <1>18, <1>19, <1>20, <1>21, <1>22, <1>23, <1>24, <1>25, <1>26, <1>27, <1>28, <1>29, <1>30 DEF Next, AgentStep, Draining, Working, Visiting, Failing, World
THEOREM StoredOrdersAreDone == Spec => StoredUntilDone
<1>1. IInv /\ [Next]_vars => [LeavesWhenDone]_vars
  BY StoredStep
<1>2. QED BY <1>1, Invariance, PTL DEF Spec, StoredUntilDone
=============================================================================
