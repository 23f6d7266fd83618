----------------------------- MODULE EventsSync -----------------------------
(***************************************************************************)
(* The incremental import of Allegro orders (order_events_sync.py): read   *)
(* the cursor, fetch pages of the event journal, handle the events in one  *)
(* database session, commit it, and save the cursor in the settings.  The  *)
(* scheduler runs it once per cycle in one thread.  The process may be     *)
(* killed between any two steps and any call to Allegro may fail.          *)
(*                                                                         *)
(* Event ids are positions in the journal.  Event types that are neither   *)
(* imports nor cancellations change nothing and are left out.              *)
(***************************************************************************)
EXTENDS Naturals, Sequences

CONSTANTS
  Forms,     \* checkout forms, that is, orders on Allegro
  PageSize,  \* events per page, 1000 in the code
  MaxPages,  \* pages per run, 10 in the code
  MaxFaults, \* bound: failed page fetches, killed runs and a killed agent
  MaxLost    \* bound: order details that cannot be fetched

ASSUME SizesAssumption == PageSize \in Nat \ {0} /\ MaxPages \in Nat \ {0}
ASSUME BoundsAssumption == MaxFaults \in Nat /\ MaxLost \in Nat

VARIABLES
  \* Allegro
  journal,  \* the sequence of events
  remote,   \* the state of each form that fetch_allegro_order_detail returns
  \* the database and the settings
  db,       \* the orders with a row, their newest status, the stored events
  cursor,   \* ALLEGRO_LAST_EVENT_ID, 0 while it is not set
  \* the running synchronisation
  pc,       \* idle, fetch, handle, save
  fetched,  \* all_events: the positions first..last read so far
  pages,    \* how many pages were read
  next,     \* the position of the event to handle
  seen,     \* seen_import_checkout_forms
  work,     \* db as the open session sees it
  \* the agent's memory and its queue
  collected, \* forms it read as pobrano and is printing
  \* the history
  origin,   \* the cursor the first run set
  lost,     \* forms whose detail could not be fetched
  revived,  \* forms marked as printed after their cancellation
  faults, losses

allegro == <<journal, remote>>
run == <<pc, fetched, pages, next, seen, work>>
agent == <<collected, revived>>
history == <<origin, lost, faults, losses>>
vars == <<allegro, db, cursor, run, agent, history>>

Event(type, f) == [type |-> type, form |-> f]

(* get_allegro_internal_status *)
InternalStatus ==
  [bought |-> "nieoplacone", ready |-> "pobrano", cancelled |-> "anulowano"]

Rank == [none |-> 0, pobrano |-> 0, nieoplacone |-> 0, wydrukowano |-> 2, anulowano |-> 999]

(* add_order_status with skip_if_same and without allow_backwards *)
AddedAnyway(last, new) == new
Added(last, new) ==
  IF new # "anulowano" /\ last # "anulowano" /\ Rank[new] < Rank[last] THEN last ELSE new

Database == [known : SUBSET Forms, status : [Forms -> DOMAIN Rank], stored : SUBSET Nat]

TypeOK ==
  /\ journal \in Seq([type : {"import", "cancel"}, form : Forms])
  /\ remote \in [Forms -> {"none"} \cup DOMAIN InternalStatus]
  /\ db \in Database /\ work \in Database
  /\ db.stored \subseteq {i \in DOMAIN journal : journal[i].form \in db.known}
  /\ origin \in 0..cursor /\ cursor \in 0..Len(journal)
  /\ pc \in {"idle", "fetch", "handle", "save"}
  /\ fetched \in 0..Len(journal) /\ next \in 0..(Len(journal) + 1)
  /\ pages \in 0..MaxPages /\ seen \subseteq Forms /\ lost \subseteq Forms
  /\ faults \in 0..MaxFaults /\ losses \in 0..MaxLost
  /\ collected \subseteq Forms /\ revived \subseteq Forms

Init ==
  /\ journal = <<>> /\ remote = [f \in Forms |-> "none"]
  /\ db = [known |-> {}, stored |-> {}, status |-> [f \in Forms |-> "none"]]
  /\ cursor = 0 /\ pc = "idle" /\ fetched = 0 /\ pages = 0 /\ next = 0 /\ seen = {}
  /\ work = db
  /\ origin = 0 /\ lost = {} /\ faults = 0 /\ losses = 0
  /\ collected = {} /\ revived = {}

-----------------------------------------------------------------------------
(* The buyer, Allegro and the other writers of the database.               *)

Remote(f, from, to, type) ==
  /\ remote[f] \in from
  /\ remote' = [remote EXCEPT ![f] = to]
  /\ journal' = Append(journal, Event(type, f))
  /\ UNCHANGED <<db, cursor, run, agent, history>>

Buy(f)    == Remote(f, {"none"}, "bought", "import")
Pay(f)    == Remote(f, {"bought"}, "ready", "import")
Cancel(f) == Remote(f, {"bought", "ready"}, "cancelled", "cancel")

(* Other writers commit between two synchronisations only. *)
Elsewhere(d) ==
  /\ pc = "idle" /\ db' = d /\ work' = d
  /\ UNCHANGED <<allegro, cursor, pc, fetched, pages, next, seen, origin, lost, losses>>

(* The agent reads the status when it collects an order; when the label is *)
(* printed it adds its row to whatever is the newest one by then.          *)
Collect(f) ==
  /\ db.status[f] = "pobrano" /\ collected' = collected \cup {f}
  /\ UNCHANGED <<allegro, db, cursor, run, revived, history>>

(* Killed after it, before the queue is stored, the agent marks it again.  *)
PrintOrder(f) ==
  /\ f \in collected
  /\ \/ collected' = collected \ {f} /\ UNCHANGED faults
     \/ UNCHANGED collected /\ faults < MaxFaults /\ faults' = faults + 1
  /\ Elsewhere([db EXCEPT !.status[f] = Added(@, "wydrukowano")])
  /\ revived' = IF db.status[f] = "anulowano" THEN revived \cup {f} ELSE revived

(* the manual synchronisation imports the orders Allegro lists *)
SyncAll ==
  \E listed \in SUBSET {f \in Forms : remote[f] # "none"} :
    Elsewhere([db EXCEPT !.known = @ \cup listed,
                         !.status = [f \in Forms |->
                            IF f \in listed THEN Added(@[f], InternalStatus[remote[f]]) ELSE @[f]]])
    /\ UNCHANGED <<agent, faults>>

-----------------------------------------------------------------------------
(* One synchronisation.                                                    *)

(* the end of a run, whatever its session had not committed is gone *)
Finish(newDb) ==
  /\ pc' = "idle" /\ fetched' = 0 /\ pages' = 0 /\ next' = 0 /\ seen' = {}
  /\ db' = newDb /\ work' = newDb

(* without a cursor the run only sets it to the newest event *)
InitializeCursor ==
  /\ pc = "idle" /\ cursor = 0 /\ Len(journal) > 0
  /\ cursor' = Len(journal) /\ origin' = Len(journal)
  /\ UNCHANGED <<allegro, agent, db, run, lost, faults, losses>>

ReadCursor ==
  /\ pc = "idle" /\ cursor # 0 /\ cursor < Len(journal)
  /\ pc' = "fetch" /\ fetched' = cursor /\ pages' = 0
  /\ UNCHANGED <<allegro, agent, db, cursor, next, seen, work, history>>

StartHandling(n) ==
  IF n = cursor THEN pc' = "idle" /\ next' = 0 /\ fetched' = 0 /\ pages' = 0
                ELSE pc' = "handle" /\ next' = cursor + 1 /\ fetched' = n /\ pages' = 0

(* a short page, an empty page or the last page allowed ends the fetching *)
FetchPage ==
  /\ pc = "fetch"
  /\ LET rest == Len(journal) - fetched
         n    == IF rest < PageSize THEN rest ELSE PageSize
     IN  IF n < PageSize \/ pages + 1 = MaxPages
         THEN StartHandling(fetched + n)
         ELSE /\ fetched' = fetched + n /\ pages' = pages + 1
              /\ UNCHANGED <<pc, next>>
  /\ UNCHANGED <<allegro, agent, db, cursor, seen, work, history>>

(* a failed fetch keeps the pages that were read *)
FetchFails ==
  /\ pc = "fetch" /\ faults < MaxFaults /\ faults' = faults + 1
  /\ StartHandling(fetched)
  /\ UNCHANGED <<allegro, agent, db, cursor, seen, work, origin, lost, losses>>

(* _store_raw_event: an event of an order without a row breaks the foreign *)
(* key, which is taken for a duplicate.                                    *)
Store(d, i) ==
  IF journal[i].form \in d.known THEN [d EXCEPT !.stored = @ \cup {i}] ELSE d

Handling == pc = "handle" /\ next <= fetched
Handled(d) == /\ work' = d /\ next' = next + 1
              /\ UNCHANGED <<allegro, agent, db, cursor, pc, fetched, pages, origin, faults>>

(* a form that this run has tried to import is not imported again *)
SkipImport ==
  /\ Handling /\ journal[next].type = "import" /\ journal[next].form \in seen
  /\ Handled(Store(work, next)) /\ UNCHANGED <<seen, lost, losses>>

(* the status comes from the form's present detail, not from the event *)
StatusByEvent(f, i) ==
  IF \E j \in 1..(i - 1) : journal[j].form = f THEN "pobrano" ELSE "nieoplacone"
StatusAsOf(f, i) == InternalStatus[remote[f]]

ImportOrder ==
  LET f == journal[next].form IN
  /\ Handling /\ journal[next].type = "import" /\ f \notin seen
  /\ Handled(Store([work EXCEPT !.known = @ \cup {f},
                                !.status[f] = Added(@, StatusAsOf(f, next))], next))
  /\ seen' = seen \cup {f} /\ UNCHANGED <<lost, losses>>

ImportFails ==
  LET f == journal[next].form IN
  /\ Handling /\ journal[next].type = "import" /\ f \notin seen
  /\ losses < MaxLost /\ losses' = losses + 1 /\ lost' = lost \cup {f}
  /\ Handled(work) /\ seen' = seen \cup {f}

CancelOrder ==
  LET f == journal[next].form IN
  /\ Handling /\ journal[next].type = "cancel" /\ f \in work.known
  /\ Handled(Store([work EXCEPT !.status[f] = Added(@, "anulowano")], next))
  /\ UNCHANGED <<seen, lost, losses>>

(* The status row of an order without a row is flushed when the savepoint  *)
(* of _store_raw_event opens; the foreign key fails before `nested` is     *)
(* bound, so the handler raises as well and the session is rolled back.    *)
CancelUnknown ==
  /\ Handling /\ journal[next].type = "cancel" /\ journal[next].form \notin work.known
  /\ Finish(db)
  /\ UNCHANGED <<allegro, agent, cursor, history>>

CommitBatch ==
  /\ pc = "handle" /\ next > fetched
  /\ db' = work /\ pc' = "save"
  /\ UNCHANGED <<allegro, agent, cursor, fetched, pages, next, seen, work, history>>

NewestEvent == Len(journal)
JustBeforeLast == fetched - 1
LastFetched == fetched

SaveCursor ==
  /\ pc = "save"
  /\ cursor' = LastFetched
  /\ Finish(db)
  /\ UNCHANGED <<allegro, agent, history>>

(* the process is killed, or the settings cannot be written *)
Killed ==
  /\ pc # "idle" /\ faults < MaxFaults /\ faults' = faults + 1
  /\ Finish(db)
  /\ UNCHANGED <<allegro, agent, cursor, origin, lost, losses>>

SyncStep ==
  \/ InitializeCursor \/ ReadCursor \/ FetchPage
  \/ SkipImport \/ ImportOrder \/ CancelOrder \/ CancelUnknown
  \/ CommitBatch \/ SaveCursor

Next ==
  \/ \E f \in Forms : Buy(f) \/ Pay(f) \/ Cancel(f) \/ Collect(f) \/ PrintOrder(f)
  \/ SyncAll
  \/ SyncStep \/ FetchFails \/ ImportFails \/ Killed

Spec == Init /\ [][Next]_vars
FairSpec == Spec /\ WF_vars(SyncStep)

-----------------------------------------------------------------------------
(* Every event the cursor has passed belongs to an order that is in the    *)
(* database or whose detail could not be fetched: neither a kill between   *)
(* the commit and the cursor nor the page limit loses one.                 *)
NoEventLostSilently ==
  \A i \in (origin + 1)..cursor : journal[i].form \in db.known \cup lost

(* When the journal is consumed and no detail was lost, an order bought    *)
(* since the first run has the status Allegro gives it, or is printed; one *)
(* that is cancelled there is printed here only if its label was, after    *)
(* the cancellation had been recorded.                                     *)
StatusFollowsAllegro ==
  (pc = "idle" /\ cursor = Len(journal) /\ cursor # 0) =>
    \A i \in (origin + 1)..cursor :
      LET f == journal[i].form
      IN  f \notin lost =>
            \/ db.status[f] = InternalStatus[remote[f]]
            \/ db.status[f] = "wydrukowano" /\ (remote[f] = "ready" \/ f \in revived)

(* An order that was printed is never taken back to an earlier status,     *)
(* although a run killed before saving its cursor imports it again.        *)
PrintedStaysPrinted ==
  [][\A f \in Forms : db.status[f] = "wydrukowano" =>
       db'.status[f] \in {"wydrukowano", "anulowano"}]_vars

(* Once Allegro falls silent the synchronisation catches up, unless it is  *)
(* stopped by a cancellation of an order the database does not have.       *)
OnlyUnknownCancelStops ==
  <>[](\/ cursor = Len(journal)
       \/ \E i \in (cursor + 1)..Len(journal) :
            journal[i].type = "cancel" /\ journal[i].form \notin db.known)

(* The synchronisation catches up with the journal (the test               *)
(* test_sync_events_mixed_types moves the cursor past a cancellation of an *)
(* order that was never imported).                                         *)
CatchesUp == <>[](cursor = Len(journal))
=============================================================================
