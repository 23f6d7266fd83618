-------------------------- MODULE EventsSyncProofs --------------------------
(***************************************************************************)
(* What the event synchronisation guarantees for any number of orders, any *)
(* page size, page limit and number of failures: every event the cursor    *)
(* has passed is accounted for, and the statuses it leaves are those of    *)
(* Allegro.                                                                *)
(***************************************************************************)
EXTENDS EventsSync, TLAPS

Events == [type : {"import", "cancel"}, form : Forms]

(* An event says that its form exists, a cancellation that it is cancelled.*)
JournalInv == \A i \in 1..Len(journal) :
  /\ remote[journal[i].form] # "none"
  /\ journal[i].type = "cancel" => remote[journal[i].form] = "cancelled"

(* A status is never ahead of Allegro. *)
NotAhead(d) == \A f \in Forms :
  /\ d.status[f] \in {"pobrano", "wydrukowano"} => remote[f] \in {"ready", "cancelled"}
  /\ d.status[f] = "anulowano" => remote[f] = "cancelled"

StatusInv == NotAhead(db) /\ NotAhead(work)

(* What the agent collected was paid for. *)
AgentInv == \A f \in collected : remote[f] \in {"ready", "cancelled"}

(* Where the pages and the loop over the events stand. *)
Control ==
  /\ pc # "handle" => work = db
  /\ pc \in {"idle", "fetch"} => seen = {}
  /\ pc # "idle" => cursor # 0 /\ cursor <= fetched
  /\ pc = "fetch" => pages < MaxPages
  /\ pc = "handle" => cursor < next /\ next <= fetched + 1
  /\ pc = "save" => next = fetched + 1

(* The open session builds on the committed database. *)
SessionInv ==
  /\ work.stored \subseteq {i \in 1..Len(journal) : journal[i].form \in work.known}
  /\ db.known \subseteq work.known
  /\ \A f \in Forms : db.status[f] = "wydrukowano" =>
       work.status[f] \in {"wydrukowano", "anulowano"}

Batch == pc \in {"handle", "save"}

(* The events handled so far are accounted for. *)
CoverInv ==
  /\ NoEventLostSilently
  /\ seen \subseteq work.known \cup lost
  /\ Batch => \A i \in (cursor + 1)..(next - 1) : journal[i].form \in work.known \cup lost

Good(s, f) == \/ s = InternalStatus[remote[f]]
              \/ s = "wydrukowano" /\ (remote[f] = "ready" \/ f \in revived)

(* An event that will still set the status of f: one beyond the pages that *)
(* were read, or one that this run will not skip.                          *)
Pending(f) == \E j \in next..Len(journal) :
  journal[j].form = f /\ (j > fetched \/ f \notin seen \/ journal[j].type = "cancel")

(* Why the statuses are right when nothing is left to read: a form that is *)
(* behind has an event ahead.                                              *)
FollowDb == \A f \in Forms \ lost : \A i \in (origin + 1)..cursor :
  journal[i].form = f =>
    Good(db.status[f], f) \/ \E j \in (cursor + 1)..Len(journal) : journal[j].form = f

FollowWork == Batch => \A f \in Forms \ lost :
  (f \in seen \/ \E i \in (origin + 1)..(next - 1) : journal[i].form = f) =>
    Good(work.status[f], f) \/ Pending(f)

IInv == /\ TypeOK /\ JournalInv /\ StatusInv /\ AgentInv /\ Control /\ SessionInv
        /\ CoverInv /\ FollowDb /\ FollowWork

-----------------------------------------------------------------------------
LEMMA StatusNames ==
  /\ DOMAIN Rank = {"none", "pobrano", "nieoplacone", "wydrukowano", "anulowano"}
  /\ DOMAIN InternalStatus = {"bought", "ready", "cancelled"}
  /\ InternalStatus["bought"] = "nieoplacone"
  /\ InternalStatus["ready"] = "pobrano"
  /\ InternalStatus["cancelled"] = "anulowano"
BY DEF Rank, InternalStatus

\* add_order_status with the status of an order's detail writes that status, or
\* leaves a printed order that is not cancelled alone.
LEMMA AddedDetail ==
  ASSUME NEW last \in DOMAIN Rank, NEW r \in DOMAIN InternalStatus
  PROVE  LET s == Added(last, InternalStatus[r]) IN
         /\ s \in DOMAIN Rank
         /\ s = InternalStatus[r] \/ (last = "wydrukowano" /\ s = last /\ r # "cancelled")
         /\ last = "wydrukowano" => s \in {"wydrukowano", "anulowano"}
<1>1. Rank["none"] = 0 /\ Rank["pobrano"] = 0 /\ Rank["nieoplacone"] = 0 /\ Rank["wydrukowano"] = 2
      /\ Rank["anulowano"] = 999
  BY DEF Rank
<1>2. last \in {"none", "pobrano", "nieoplacone", "wydrukowano", "anulowano"}
  BY StatusNames
<1>3. CASE r = "bought"
  BY <1>1, <1>2, <1>3, StatusNames DEF Added
<1>4. CASE r = "ready"
  BY <1>1, <1>2, <1>4, StatusNames DEF Added
<1>5. CASE r = "cancelled"
  BY <1>1, <1>2, <1>5, StatusNames DEF Added
<1> QED BY <1>3, <1>4, <1>5, StatusNames

\* A cancellation is always written.
LEMMA AddedCancel ==
  ASSUME NEW last PROVE Added(last, "anulowano") = "anulowano"
BY DEF Added

\* Marking an order as printed is always written, even after a cancellation.
LEMMA AddedPrinted ==
  ASSUME NEW last \in DOMAIN Rank PROVE Added(last, "wydrukowano") = "wydrukowano"
<1>1. Rank["none"] = 0 /\ Rank["pobrano"] = 0 /\ Rank["nieoplacone"] = 0 /\ Rank["wydrukowano"] = 2
  BY DEF Rank
<1> QED BY <1>1, StatusNames DEF Added

\* The journal only grows.
LEMMA JournalGrows ==
  ASSUME journal \in Seq(Events), NEW e \in Events, journal' = Append(journal, e)
  PROVE  /\ journal' \in Seq(Events)
         /\ Len(journal) \in Nat /\ Len(journal') = Len(journal) + 1
         /\ journal'[Len(journal) + 1] = e
         /\ \A i \in 1..Len(journal) : journal'[i] = journal[i]
OBVIOUS

LEMMA JournalIs ==
  ASSUME journal \in Seq(Events)
  PROVE  /\ Len(journal) \in Nat /\ DOMAIN journal = 1..Len(journal)
         /\ \A i \in 1..Len(journal) : /\ journal[i] \in Events /\ journal[i].form \in Forms
                                       /\ journal[i].type \in {"import", "cancel"}
<1>1. Len(journal) \in Nat /\ DOMAIN journal = 1..Len(journal)
  OBVIOUS
<1>2. \A i \in 1..Len(journal) : journal[i] \in Events
  OBVIOUS
<1> QED BY <1>1, <1>2, Zenon DEF Events

\* The parts of the type invariant, for the provers.
LEMMA Typing ==
  ASSUME TypeOK
  PROVE  /\ journal \in Seq(Events) /\ Len(journal) \in Nat /\ DOMAIN journal = 1..Len(journal)
         /\ origin \in Nat /\ cursor \in Nat /\ fetched \in Nat /\ next \in Nat /\ pages \in Nat
         /\ origin <= cursor /\ cursor <= Len(journal) /\ fetched <= Len(journal)
         /\ next <= Len(journal) + 1
BY SMT DEF TypeOK, Events

LEMMA Initially == Init => IInv
<1> SUFFICES ASSUME Init PROVE IInv
  OBVIOUS
<1>1. Len(<<>>) = 0 /\ <<>> \in Seq(Events) /\ DOMAIN <<>> = {}
  OBVIOUS
<1>2. TypeOK
  BY <1>1, SizesAssumption, BoundsAssumption, StatusNames DEF Init, TypeOK, Database, Events
<1>3. JournalInv
  BY <1>1 DEF Init, JournalInv
<1>4. StatusInv /\ AgentInv /\ Control /\ SessionInv
  BY DEF Init, StatusInv, NotAhead, AgentInv, Control, SessionInv
<1>5. CoverInv /\ FollowDb /\ FollowWork
  BY <1>1 DEF Init, CoverInv, NoEventLostSilently, FollowDb, FollowWork, Batch
<1> QED BY <1>2, <1>3, <1>4, <1>5 DEF IInv

-----------------------------------------------------------------------------
(* The buyer: a form moves on, and an event is appended for it.            *)

LEMMA RemoteStep ==
  ASSUME IInv, NEW f \in Forms, Buy(f) \/ Pay(f) \/ Cancel(f)
  PROVE  IInv'
<1>1. PICK to \in {"bought", "ready", "cancelled"}, type \in {"import", "cancel"} :
        /\ remote[f] \in {"none", "bought", "ready"}
        /\ to = "ready" => remote[f] = "bought"
        /\ to = "bought" => remote[f] = "none"
        /\ type = "cancel" => to = "cancelled"
        /\ remote' = [remote EXCEPT ![f] = to]
        /\ journal' = Append(journal, Event(type, f))
        /\ UNCHANGED <<db, cursor, run, agent, history>>
  BY DEF Buy, Pay, Cancel, Remote
<1>2. TypeOK
  BY DEF IInv
<1>3. Event(type, f) \in Events /\ Event(type, f).form = f /\ Event(type, f).type = type
  BY DEF Event, Events
<1>4. /\ journal' \in Seq(Events)
      /\ Len(journal) \in Nat /\ Len(journal') = Len(journal) + 1
      /\ journal'[Len(journal) + 1] = Event(type, f)
      /\ \A i \in 1..Len(journal) : journal'[i] = journal[i]
      /\ DOMAIN journal' = 1..Len(journal') /\ DOMAIN journal = 1..Len(journal)
  BY <1>1, <1>2, <1>3, JournalGrows, Typing
<1>5. /\ \A g \in Forms : g # f => remote'[g] = remote[g]
      /\ remote'[f] = to
      /\ remote' \in [Forms -> {"none"} \cup DOMAIN InternalStatus]
  BY <1>1, <1>2, StatusNames DEF TypeOK
<1>6. /\ UNCHANGED <<db, cursor, pc, fetched, pages, next, seen, work, origin, lost, faults, losses>>
      /\ UNCHANGED <<collected, revived>>
  BY <1>1 DEF run, agent, history
<1>7. \A i \in 1..Len(journal) : journal[i].form \in Forms
  BY <1>2, Typing, JournalIs
<1>8. origin \in Nat /\ cursor \in Nat /\ fetched \in Nat /\ next \in Nat
      /\ origin <= cursor /\ cursor <= Len(journal) /\ fetched <= Len(journal) /\ next <= Len(journal) + 1
  BY <1>2, Typing
<1>9. TypeOK'
  <2>1. journal' \in Seq([type : {"import", "cancel"}, form : Forms])
    BY <1>4, Zenon DEF Events
  <2>2. db'.stored \subseteq {i \in DOMAIN journal' : journal'[i].form \in db'.known}
    BY <1>2, <1>4, <1>6 DEF TypeOK
  <2>3. /\ cursor' \in 0..Len(journal') /\ fetched' \in 0..Len(journal')
        /\ next' \in 0..(Len(journal') + 1) /\ origin' \in 0..cursor'
    BY <1>4, <1>6, <1>8
  <2> QED BY <1>2, <1>5, <1>6, <2>1, <2>2, <2>3 DEF TypeOK
<1>10. JournalInv'
  <2> SUFFICES ASSUME NEW i \in 1..Len(journal')
               PROVE  /\ remote'[journal'[i].form] # "none"
                      /\ journal'[i].type = "cancel" => remote'[journal'[i].form] = "cancelled"
    BY DEF JournalInv
  <2>1. CASE i = Len(journal) + 1
    BY <1>1, <1>3, <1>4, <1>5, <2>1
  <2>2. CASE i \in 1..Len(journal)
    <3>1. /\ remote[journal[i].form] # "none"
          /\ journal[i].type = "cancel" => remote[journal[i].form] = "cancelled"
      BY <2>2 DEF IInv, JournalInv
    <3> QED BY <1>1, <1>4, <1>5, <1>7, <2>2, <3>1
  <2> QED BY <1>4, <2>1, <2>2
<1>11. StatusInv' /\ AgentInv'
  <2>1. collected \subseteq Forms
    BY <1>2 DEF TypeOK
  <2> QED BY <1>1, <1>5, <1>6, <2>1 DEF IInv, StatusInv, NotAhead, AgentInv
<1>12. Control'
  BY <1>6 DEF IInv, Control
<1>13. SessionInv'
  BY <1>4, <1>6 DEF IInv, SessionInv
<1>14. CoverInv'
  <2>1. NoEventLostSilently'
    BY <1>4, <1>6, <1>8 DEF IInv, CoverInv, NoEventLostSilently
  <2>2. Batch => \A i \in (cursor + 1)..(next - 1) : journal'[i].form \in work.known \cup lost
    BY <1>4, <1>8 DEF IInv, CoverInv
  <2> QED BY <1>6, <2>1, <2>2 DEF IInv, CoverInv, Batch
<1>15. FollowDb'
  <2> SUFFICES ASSUME NEW g \in Forms \ lost, NEW i \in (origin + 1)..cursor, journal'[i].form = g
               PROVE  \/ Good(db.status[g], g)'
                      \/ \E j \in (cursor + 1)..Len(journal') : journal'[j].form = g
    BY <1>6 DEF FollowDb
  <2>1. CASE g = f
    BY <1>3, <1>4, <1>8, <2>1
  <2>2. CASE g # f
    <3>1. i \in 1..Len(journal) /\ journal[i].form = g
      BY <1>4, <1>8
    <3>2. \/ Good(db.status[g], g)
          \/ \E j \in (cursor + 1)..Len(journal) : journal[j].form = g
      BY <3>1 DEF IInv, FollowDb
    <3> QED BY <1>4, <1>5, <1>6, <1>8, <2>2, <3>2 DEF Good
  <2> QED BY <2>1, <2>2
<1>16. FollowWork'
  <2> SUFFICES ASSUME Batch, NEW g \in Forms \ lost,
                      g \in seen \/ \E i \in (origin + 1)..(next - 1) : journal'[i].form = g
               PROVE  Good(work.status[g], g)' \/ Pending(g)'
    BY <1>6 DEF FollowWork, Batch
  <2>1. CASE g = f
    <3>1. Len(journal) + 1 \in next..Len(journal') /\ Len(journal) + 1 > fetched
      BY <1>4, <1>8
    <3> QED BY <1>3, <1>4, <1>6, <2>1, <3>1 DEF Pending
  <2>2. CASE g # f
    <3>1. g \in seen \/ \E i \in (origin + 1)..(next - 1) : journal[i].form = g
      BY <1>4, <1>8
    <3>2. Good(work.status[g], g) \/ Pending(g)
      BY <3>1 DEF IInv, FollowWork
    <3>3. Pending(g) => Pending(g)'
      <4>1. next >= 1
        BY <1>8 DEF IInv, Control, Batch
      <4>2. \A j \in next..Len(journal) : j \in 1..Len(journal) /\ j \in next..Len(journal')
        BY <1>4, <1>8, <4>1
      <4> QED BY <1>4, <1>6, <4>2 DEF Pending
    <3>4. Good(work.status[g], g) => Good(work.status[g], g)'
      BY <1>5, <1>6, <2>2 DEF Good
    <3> QED BY <3>2, <3>3, <3>4
  <2> QED BY <2>1, <2>2
<1> QED BY <1>9, <1>10, <1>11, <1>12, <1>13, <1>14, <1>15, <1>16 DEF IInv

-----------------------------------------------------------------------------
(* Other writers, between two runs.                                        *)

LEMMA ElsewhereStep ==
  ASSUME IInv, NEW d \in Database, Elsewhere(d), NotAhead(d),
         d.stored = db.stored, db.known \subseteq d.known, faults' \in 0..MaxFaults,
         collected' \subseteq collected, revived' \in SUBSET Forms,
         \A f \in Forms : Good(db.status[f], f) => Good(db.status[f], f)'
  PROVE  IInv'
<1>1. /\ pc = "idle" /\ db' = d /\ work' = d
      /\ UNCHANGED <<journal, remote, cursor, pc, fetched, pages, next, seen, origin, lost, losses>>
  BY DEF Elsewhere, allegro
<1>2. TypeOK'
  <2>1. d.stored \subseteq {i \in DOMAIN journal : journal[i].form \in d.known}
    BY DEF IInv, TypeOK
  <2> QED BY <1>1, <2>1 DEF IInv, TypeOK
<1>3. JournalInv' /\ StatusInv' /\ AgentInv' /\ Control'
  BY <1>1 DEF IInv, JournalInv, StatusInv, NotAhead, AgentInv, Control
<1>4. SessionInv'
  <2>1. work = db
    BY <1>1 DEF IInv, Control
  <2> QED BY <1>1, <2>1 DEF IInv, SessionInv
<1>5. CoverInv'
  <2>1. seen = {}
    BY <1>1 DEF IInv, Control
  <2> QED BY <1>1, <2>1 DEF IInv, CoverInv, NoEventLostSilently, Batch
<1>6. FollowDb'
  BY <1>1 DEF IInv, FollowDb
<1>7. FollowWork'
  BY <1>1 DEF FollowWork, Batch
<1> QED BY <1>2, <1>3, <1>4, <1>5, <1>6, <1>7 DEF IInv

LEMMA CollectStep ==
  ASSUME IInv, NEW f \in Forms, Collect(f)
  PROVE  IInv'
<1>1. /\ db.status[f] = "pobrano" /\ collected' = collected \cup {f}
      /\ UNCHANGED <<journal, remote, db, cursor, revived, pc, fetched, pages, next, seen, work>>
      /\ UNCHANGED <<origin, lost, faults, losses>>
  BY DEF Collect, allegro, run, history
<1>2. remote[f] \in {"ready", "cancelled"}
  BY <1>1 DEF IInv, StatusInv, NotAhead
<1>3. TypeOK' /\ AgentInv'
  BY <1>1, <1>2 DEF IInv, TypeOK, AgentInv
<1>4. JournalInv' /\ StatusInv' /\ Control' /\ SessionInv'
  BY <1>1 DEF IInv, JournalInv, StatusInv, NotAhead, Control, SessionInv
<1>5. CoverInv' /\ FollowDb' /\ FollowWork'
  BY <1>1 DEF IInv, CoverInv, NoEventLostSilently, FollowDb, FollowWork, Good, Pending, Batch
<1> QED BY <1>3, <1>4, <1>5 DEF IInv

LEMMA PrintOrderStep ==
  ASSUME IInv, NEW f \in Forms, PrintOrder(f)
  PROVE  IInv'
<1> DEFINE d == [db EXCEPT !.status[f] = "wydrukowano"]
<1>1. /\ db \in Database /\ db.status[f] \in DOMAIN Rank
      /\ collected' \subseteq collected /\ faults' \in 0..MaxFaults
      /\ revived' = IF db.status[f] = "anulowano" THEN revived \cup {f} ELSE revived
      /\ revived' \in SUBSET Forms
  BY BoundsAssumption DEF IInv, TypeOK, PrintOrder, Database
<1>2. /\ d \in Database /\ d.stored = db.stored /\ d.known = db.known
      /\ d.status[f] = "wydrukowano" /\ \A g \in Forms : g # f => d.status[g] = db.status[g]
  BY <1>1, StatusNames DEF Database
<1>3. remote[f] \in {"ready", "cancelled"}
  BY DEF IInv, AgentInv, PrintOrder
<1>4. NotAhead(d)
  BY <1>2, <1>3 DEF IInv, StatusInv, NotAhead
<1>5. Elsewhere(d)
  BY <1>1, AddedPrinted DEF PrintOrder
<1>6. db' = d /\ remote' = remote
  BY <1>5 DEF Elsewhere, allegro
<1> HIDE DEF d
<1>7. ASSUME NEW g \in Forms, Good(db.status[g], g) PROVE Good(db.status[g], g)'
  BY <1>1, <1>2, <1>3, <1>6, <1>7, StatusNames DEF Good
<1> QED BY <1>1, <1>2, <1>4, <1>5, <1>7, ElsewhereStep

(* the database after a manual synchronisation *)
Synced(listed) ==
  [db EXCEPT !.known = @ \cup listed,
             !.status = [f \in Forms |->
                IF f \in listed THEN Added(@[f], InternalStatus[remote[f]]) ELSE @[f]]]

LEMMA SyncedIs ==
  ASSUME db \in Database, NEW listed \in SUBSET Forms,
         \A f \in listed : remote[f] \in DOMAIN InternalStatus
  PROVE  /\ Synced(listed) \in Database /\ Synced(listed).stored = db.stored
         /\ Synced(listed).known = db.known \cup listed
         /\ \A f \in Forms : Synced(listed).status[f] =
              IF f \in listed THEN Added(db.status[f], InternalStatus[remote[f]]) ELSE db.status[f]
<1> DEFINE st == [f \in Forms |->
      IF f \in listed THEN Added(db.status[f], InternalStatus[remote[f]]) ELSE db.status[f]]
<1>1. Synced(listed) = [db EXCEPT !.known = @ \cup listed, !.status = st]
  BY Zenon DEF Synced
<1>2. st \in [Forms -> DOMAIN Rank]
  <2>1. ASSUME NEW f \in Forms PROVE st[f] \in DOMAIN Rank
    <3>1. db.status[f] \in DOMAIN Rank
      BY DEF Database
    <3>2. CASE f \in listed
      BY <3>1, <3>2, AddedDetail
    <3>3. CASE f \notin listed
      BY <3>1, <3>3
    <3> QED BY <3>2, <3>3
  <2> QED BY <2>1
<1>3. db.known \cup listed \in SUBSET Forms /\ db.stored \in SUBSET Nat
  BY DEF Database
<1> HIDE DEF st
<1>4. /\ Synced(listed) \in Database /\ Synced(listed).stored = db.stored
      /\ Synced(listed).known = db.known \cup listed /\ Synced(listed).status = st
  BY <1>1, <1>2, <1>3 DEF Database
<1> QED BY <1>4 DEF st

LEMMA SyncAllStep ==
  ASSUME IInv, SyncAll
  PROVE  IInv'
<1>1. PICK listed \in SUBSET {f \in Forms : remote[f] # "none"} :
        Elsewhere(Synced(listed)) /\ UNCHANGED <<collected, revived, faults>>
  BY DEF SyncAll, Synced, agent
<1>2. db \in Database /\ \A f \in listed : remote[f] \in DOMAIN InternalStatus
  BY DEF IInv, TypeOK
<1>3. /\ Synced(listed) \in Database /\ Synced(listed).stored = db.stored
      /\ db.known \subseteq Synced(listed).known
      /\ \A f \in Forms : Synced(listed).status[f] =
           IF f \in listed THEN Added(db.status[f], InternalStatus[remote[f]]) ELSE db.status[f]
  BY <1>2, SyncedIs
<1>4. ASSUME NEW f \in listed
      PROVE  /\ Good(Synced(listed).status[f], f)
             /\ Synced(listed).status[f] \in {"pobrano", "wydrukowano"} => remote[f] \in {"ready", "cancelled"}
             /\ Synced(listed).status[f] = "anulowano" => remote[f] = "cancelled"
  <2>1. f \in Forms /\ db.status[f] \in DOMAIN Rank /\ remote[f] \in {"bought", "ready", "cancelled"}
    BY <1>2, StatusNames DEF Database
  <2>2. db.status[f] = "wydrukowano" => remote[f] \in {"ready", "cancelled"}
    BY <2>1 DEF IInv, StatusInv, NotAhead
  <2> QED BY <1>2, <1>3, <2>1, <2>2, AddedDetail, StatusNames DEF Good
<1>5. NotAhead(Synced(listed))
  BY <1>3, <1>4 DEF IInv, StatusInv, NotAhead
<1>6. db' = Synced(listed) /\ remote' = remote
  BY <1>1 DEF Elsewhere, allegro
<1>7. \A f \in Forms : Good(db.status[f], f) => Good(Synced(listed).status[f], f)
  BY <1>3, <1>4
<1>8. \A f \in Forms : Good(db.status[f], f) => Good(db.status[f], f)'
  BY <1>1, <1>6, <1>7 DEF Good
<1>9. faults' \in 0..MaxFaults /\ revived' \in SUBSET Forms
  BY <1>1 DEF IInv, TypeOK
<1> QED BY <1>1, <1>3, <1>5, <1>8, <1>9, ElsewhereStep

-----------------------------------------------------------------------------
(* Reading the cursor and the pages, before any event is handled.          *)

LEMMA Ranges ==
  ASSUME NEW a \in Nat, NEW b \in Nat
  PROVE  /\ b = a + 1 => b - 1 = a /\ (a + 1)..(b - 1) = {}
         /\ b = a => (a + 1)..b = {}
OBVIOUS

LEMMA ReadingStep ==
  ASSUME IInv, TypeOK', Control', pc \in {"idle", "fetch"},
         UNCHANGED <<journal, remote, db, seen, work, lost, collected, revived>>,
         (cursor' = cursor /\ origin' = origin) \/ origin' = cursor',
         pc' # "save", pc' = "handle" => next' = cursor' + 1
  PROVE  IInv'
<1>1. work = db /\ seen = {}
  BY DEF IInv, Control
<1>2. /\ origin' \in Nat /\ cursor' \in Nat /\ next' \in Nat /\ Len(journal) \in Nat
      /\ (origin' + 1)..cursor' \subseteq (origin + 1)..cursor
      /\ (origin' + 1)..cursor' # {} => cursor' = cursor /\ origin' = origin
  <2>1. journal' = journal /\ Len(journal) \in Nat /\ origin \in Nat /\ cursor \in Nat
    BY Typing DEF IInv
  <2>2. cursor' \in Nat /\ next' \in Nat
    BY <2>1 DEF TypeOK
  <2>3. origin' \in Nat
    BY <2>2 DEF TypeOK
  <2>4. CASE cursor' = cursor /\ origin' = origin
    BY <2>1, <2>2, <2>3, <2>4
  <2>5. CASE origin' = cursor'
    <3>1. (origin' + 1)..cursor' = {}
      BY <2>2, <2>3, <2>5, Ranges
    <3> QED BY <2>1, <2>2, <2>3, <3>1
  <2> QED BY <2>4, <2>5
<1>3. JournalInv' /\ StatusInv' /\ AgentInv' /\ SessionInv'
  BY DEF IInv, JournalInv, StatusInv, NotAhead, AgentInv, SessionInv
<1>4. CoverInv'
  <2>1. NoEventLostSilently'
    BY <1>2 DEF IInv, CoverInv, NoEventLostSilently
  <2>2. Batch' => (cursor' + 1)..(next' - 1) = {}
    BY <1>2, Ranges DEF Batch
  <2> QED BY <1>1, <2>1, <2>2 DEF CoverInv
<1>5. FollowDb'
  <2> SUFFICES ASSUME NEW f \in Forms \ lost, NEW i \in (origin' + 1)..cursor', journal[i].form = f
               PROVE  \/ Good(db.status[f], f)
                      \/ \E j \in (cursor' + 1)..Len(journal) : journal[j].form = f
    BY DEF FollowDb, Good
  <2>1. i \in (origin + 1)..cursor /\ cursor' = cursor
    BY <1>2
  <2> QED BY <2>1 DEF IInv, FollowDb
<1>6. FollowWork'
  <2> SUFFICES ASSUME Batch', NEW f \in Forms \ lost,
                      NEW i \in (origin' + 1)..(next' - 1), journal[i].form = f
               PROVE  Good(db.status[f], f) \/ Pending(f)'
    BY <1>1 DEF FollowWork, Good
  <2>1. next' = cursor' + 1
    BY DEF Batch
  <2>2. next' - 1 = cursor'
    BY <1>2, <2>1, Ranges
  <2>3. \/ Good(db.status[f], f)
        \/ \E j \in (cursor' + 1)..Len(journal) : journal[j].form = f
    BY <1>5, <2>2 DEF FollowDb, Good
  <2> QED BY <1>1, <2>1, <2>3 DEF Pending
<1> QED BY <1>3, <1>4, <1>5, <1>6 DEF IInv

LEMMA InitializeCursorStep == IInv /\ InitializeCursor => IInv'
<1> SUFFICES ASSUME IInv, InitializeCursor PROVE IInv'
  OBVIOUS
<1>1. /\ UNCHANGED <<journal, remote, db, pc, fetched, pages, next, seen, work, lost, faults, losses>>
      /\ UNCHANGED <<collected, revived>>
  BY DEF InitializeCursor, allegro, agent, run
<1>2. /\ pc = "idle" /\ cursor' = Len(journal) /\ origin' = Len(journal) /\ Len(journal) \in Nat
  BY Typing DEF InitializeCursor, IInv
<1>3. TypeOK' /\ Control'
  BY <1>1, <1>2 DEF IInv, TypeOK, Control
<1> QED BY <1>1, <1>2, <1>3, ReadingStep

LEMMA ReadCursorStep == IInv /\ ReadCursor => IInv'
<1> SUFFICES ASSUME IInv, ReadCursor PROVE IInv'
  OBVIOUS
<1>1. /\ UNCHANGED <<journal, remote, db, cursor, next, seen, work, origin, lost, faults, losses>>
      /\ UNCHANGED <<collected, revived>>
      /\ pc = "idle" /\ pc' = "fetch" /\ fetched' = cursor /\ pages' = 0 /\ cursor # 0
  BY DEF ReadCursor, allegro, agent, history
<1>2. cursor \in Nat /\ Len(journal) \in Nat /\ cursor <= Len(journal)
  BY Typing DEF IInv
<1>3. TypeOK' /\ Control'
  BY <1>1, <1>2, SizesAssumption DEF IInv, TypeOK, Control
<1> QED BY <1>1, <1>3, ReadingStep

\* The pages read so far are handled, or there is nothing to handle.
LEMMA StartHandlingStep ==
  ASSUME IInv, pc = "fetch", NEW n \in Nat, fetched <= n, n <= Len(journal), StartHandling(n),
         UNCHANGED <<journal, remote, db, cursor, seen, work, origin, lost, losses>>,
         UNCHANGED <<collected, revived>>, faults' \in 0..MaxFaults
  PROVE  IInv'
<1>1. /\ cursor \in Nat /\ fetched \in Nat /\ Len(journal) \in Nat /\ cursor <= Len(journal)
      /\ cursor <= fetched /\ cursor # 0 /\ work = db /\ seen = {}
  BY Typing DEF IInv, Control
<1>2. CASE n = cursor
  <2>1. pc' = "idle" /\ next' = 0 /\ fetched' = 0 /\ pages' = 0
    BY <1>2 DEF StartHandling
  <2>2. TypeOK' /\ Control'
    BY <1>1, <2>1, SizesAssumption DEF IInv, TypeOK, Control
  <2> QED BY <2>1, <2>2, ReadingStep
<1>3. CASE n # cursor
  <2>1. pc' = "handle" /\ next' = cursor + 1 /\ fetched' = n /\ pages' = 0
    BY <1>3 DEF StartHandling
  <2>2. TypeOK' /\ Control'
    BY <1>1, <2>1, SizesAssumption DEF IInv, TypeOK, Control
  <2> QED BY <2>1, <2>2, ReadingStep
<1> QED BY <1>2, <1>3

LEMMA FetchPageStep == IInv /\ FetchPage => IInv'
<1> SUFFICES ASSUME IInv, FetchPage PROVE IInv'
  OBVIOUS
<1> DEFINE rest == Len(journal) - fetched
           n    == IF rest < PageSize THEN rest ELSE PageSize
<1>1. /\ UNCHANGED <<journal, remote, db, cursor, seen, work, origin, lost, faults, losses>>
      /\ UNCHANGED <<collected, revived>> /\ pc = "fetch"
  BY DEF FetchPage, allegro, agent, history
<1>2. /\ fetched \in Nat /\ Len(journal) \in Nat /\ fetched <= Len(journal)
      /\ PageSize \in Nat /\ faults \in 0..MaxFaults
  BY Typing, SizesAssumption DEF IInv, TypeOK
<1>3. n \in Nat /\ fetched + n <= Len(journal)
  BY <1>2
<1>4. CASE StartHandling(fetched + n)
  <2>1. fetched + n \in Nat /\ fetched <= fetched + n
    BY <1>2, <1>3
  <2> HIDE DEF n
  <2> QED BY <1>1, <1>2, <1>3, <1>4, <2>1, StartHandlingStep
<1>5. CASE ~(n < PageSize \/ pages + 1 = MaxPages)
  <2>1. fetched' = fetched + n /\ pages' = pages + 1 /\ UNCHANGED <<pc, next>>
    BY <1>5 DEF FetchPage
  <2>2. /\ pages \in Nat /\ pages < MaxPages /\ MaxPages \in Nat /\ cursor \in Nat /\ cursor <= fetched
    BY <1>1, Typing, SizesAssumption DEF IInv, Control
  <2>3. pages' \in 0..MaxPages /\ pages' < MaxPages /\ fetched' \in 0..Len(journal) /\ cursor <= fetched'
    BY <1>2, <1>3, <1>5, <2>1, <2>2
  <2> HIDE DEF n
  <2>4. TypeOK' /\ Control'
    BY <1>1, <2>1, <2>3 DEF IInv, TypeOK, Control
  <2> QED BY <1>1, <2>1, <2>4, ReadingStep
<1> QED BY <1>4, <1>5 DEF FetchPage

LEMMA FetchFailsStep == IInv /\ FetchFails => IInv'
<1> SUFFICES ASSUME IInv, FetchFails PROVE IInv'
  OBVIOUS
<1>1. /\ UNCHANGED <<journal, remote, db, cursor, seen, work, origin, lost, losses>>
      /\ UNCHANGED <<collected, revived>>
      /\ pc = "fetch" /\ StartHandling(fetched) /\ faults' = faults + 1 /\ faults < MaxFaults
  BY DEF FetchFails, allegro, agent
<1>2. fetched \in Nat /\ fetched <= Len(journal) /\ faults' \in 0..MaxFaults
  BY <1>1, Typing, BoundsAssumption DEF IInv, TypeOK
<1> QED BY <1>1, <1>2, StartHandlingStep

-----------------------------------------------------------------------------
(* Handling one event in the open session.                                 *)

(* What every way of handling the event of form f leaves behind. *)
Handles(d, f) ==
  /\ d \in Database /\ NotAhead(d)
  /\ d.stored \subseteq {i \in 1..Len(journal) : journal[i].form \in d.known}
  /\ work.known \subseteq d.known
  /\ \A g \in Forms : work.status[g] \in {"wydrukowano", "anulowano"} =>
       d.status[g] \in {"wydrukowano", "anulowano"}
  /\ \A g \in Forms : Good(work.status[g], g) => Good(d.status[g], g)
  /\ lost \subseteq lost' /\ lost' \subseteq Forms /\ f \in d.known \cup lost'
  /\ seen \subseteq seen' /\ seen' \subseteq seen \cup {f}
  /\ \/ f \in lost' \/ Good(d.status[f], f)
     \/ f \in seen /\ journal[next].type = "import"

\* What a handling step finds.
LEMMA HandlingIs ==
  ASSUME IInv, Handling
  PROVE  /\ pc = "handle" /\ next \in 1..Len(journal) /\ next <= fetched /\ cursor < next
         /\ origin \in Nat /\ cursor \in Nat /\ next \in Nat /\ fetched \in Nat /\ Len(journal) \in Nat
         /\ fetched <= Len(journal) /\ origin <= cursor
         /\ journal[next].form \in Forms /\ journal[next].type \in {"import", "cancel"}
         /\ remote[journal[next].form] \in DOMAIN InternalStatus
         /\ work \in Database
<1>1. TypeOK /\ pc = "handle" /\ next <= fetched /\ cursor < next
  BY DEF IInv, Handling, Control
<1>2. /\ origin \in Nat /\ cursor \in Nat /\ next \in Nat /\ fetched \in Nat /\ Len(journal) \in Nat
      /\ fetched <= Len(journal) /\ origin <= cursor
  BY <1>1, Typing
<1>3. next \in 1..Len(journal)
  BY <1>1, <1>2
<1>4. journal[next].form \in Forms /\ journal[next].type \in {"import", "cancel"}
  BY <1>1, <1>3, Typing, JournalIs
<1>5. remote[journal[next].form] # "none"
  BY <1>3 DEF IInv, JournalInv
<1> QED BY <1>1, <1>2, <1>3, <1>4, <1>5 DEF TypeOK

LEMMA HandledStep ==
  ASSUME IInv, Handling, NEW d, Handled(d), Handles(d, journal[next].form),
         losses' \in 0..MaxLost
  PROVE  IInv'
<1> DEFINE f == journal[next].form
<1>1. /\ work' = d /\ next' = next + 1
      /\ UNCHANGED <<journal, remote, db, cursor, pc, fetched, pages, origin, faults>>
      /\ UNCHANGED <<collected, revived>>
  BY DEF Handled, allegro, agent
<1>2. /\ pc = "handle" /\ next \in 1..Len(journal) /\ next <= fetched /\ cursor < next
      /\ origin \in Nat /\ cursor \in Nat /\ next \in Nat /\ fetched \in Nat /\ Len(journal) \in Nat
      /\ fetched <= Len(journal) /\ origin <= cursor /\ f \in Forms
  BY HandlingIs
<1>3. TypeOK'
  <2>1. seen' \subseteq Forms /\ lost' \subseteq Forms /\ work' \in Database
    BY <1>1, <1>2 DEF IInv, TypeOK, Handles
  <2>2. next' \in 0..(Len(journal) + 1)
    BY <1>1, <1>2
  <2> QED BY <1>1, <2>1, <2>2 DEF IInv, TypeOK
<1>4. JournalInv' /\ StatusInv' /\ AgentInv'
  BY <1>1 DEF IInv, JournalInv, StatusInv, NotAhead, AgentInv, Handles
<1>5. Control'
  BY <1>1, <1>2 DEF IInv, Control
<1>6. SessionInv'
  BY <1>1 DEF IInv, SessionInv, Handles
<1>7. CoverInv'
  <2>1. NoEventLostSilently'
    BY <1>1 DEF IInv, CoverInv, NoEventLostSilently, Handles
  <2>2. seen' \subseteq work'.known \cup lost'
    BY <1>1 DEF IInv, CoverInv, Handles
  <2>3. ASSUME NEW i \in (cursor + 1)..(next' - 1)
        PROVE  journal[i].form \in work'.known \cup lost'
    <3>1. CASE i = next
      BY <1>1, <3>1 DEF Handles
    <3>2. CASE i # next
      <4>1. i \in (cursor + 1)..(next - 1)
        BY <1>1, <1>2, <3>2
      <4>2. journal[i].form \in work.known \cup lost
        BY <1>2, <4>1 DEF IInv, CoverInv, Batch
      <4> QED BY <1>1, <4>2 DEF Handles
    <3> QED BY <3>1, <3>2
  <2> QED BY <1>1, <2>1, <2>2, <2>3 DEF CoverInv
<1>8. FollowDb'
  BY <1>1 DEF IInv, FollowDb, Good, Handles
<1>9. FollowWork'
  <2> SUFFICES ASSUME NEW g \in Forms \ lost',
                      g \in seen' \/ \E i \in (origin + 1)..next : journal[i].form = g,
                      ~Good(d.status[g], g)
               PROVE  \E j \in (next + 1)..Len(journal) :
                        journal[j].form = g
                        /\ (j > fetched \/ g \notin seen' \/ journal[j].type = "cancel")
    BY <1>1, <1>2 DEF FollowWork, Good, Pending
  <2>1. g \notin lost /\ ~Good(work.status[g], g)
    BY DEF Handles
  <2>2. g = f => g \in seen /\ journal[next].type = "import"
    BY DEF Handles
  <2>3. g \in seen \/ \E i \in (origin + 1)..(next - 1) : journal[i].form = g
    <3>1. CASE g = f
      BY <2>2, <3>1
    <3>2. CASE g # f
      BY <1>2, <3>2 DEF Handles
    <3> QED BY <3>1, <3>2
  <2>4. PICK j \in next..Len(journal) :
          journal[j].form = g /\ (j > fetched \/ g \notin seen \/ journal[j].type = "cancel")
    BY <1>2, <2>1, <2>3 DEF IInv, FollowWork, Batch, Pending
  <2>5. j # next
    BY <1>2, <2>2, <2>4
  <2>6. g \notin seen => g \notin seen'
    BY <2>2 DEF Handles
  <2>7. j \in (next + 1)..Len(journal)
    BY <1>2, <2>4, <2>5
  <2> QED BY <2>4, <2>6, <2>7
<1> QED BY <1>3, <1>4, <1>5, <1>6, <1>7, <1>8, <1>9 DEF IInv

\* _store_raw_event adds an event of an order that has a row, or nothing.
LEMMA StoreIs ==
  ASSUME NEW d \in Database, NEW i \in 1..Len(journal), Len(journal) \in Nat,
         d.stored \subseteq {j \in 1..Len(journal) : journal[j].form \in d.known},
         DOMAIN journal = 1..Len(journal)
  PROVE  /\ Store(d, i) \in Database
         /\ Store(d, i).known = d.known /\ Store(d, i).status = d.status
         /\ Store(d, i).stored \subseteq {j \in 1..Len(journal) : journal[j].form \in d.known}
BY DEF Store, Database

LEMMA SkipImportStep == IInv /\ SkipImport => IInv'
<1> SUFFICES ASSUME IInv, SkipImport PROVE IInv'
  OBVIOUS
<1> DEFINE f == journal[next].form
           d == Store(work, next)
<1>1. /\ Handling /\ Handled(d) /\ f \in seen /\ journal[next].type = "import"
      /\ UNCHANGED <<seen, lost, losses>>
  BY DEF SkipImport
<1>2. /\ d \in Database /\ d.known = work.known /\ d.status = work.status
      /\ d.stored \subseteq {j \in 1..Len(journal) : journal[j].form \in d.known}
  BY <1>1, HandlingIs, StoreIs, Typing DEF IInv, SessionInv
<1> HIDE DEF d
<1>3. Handles(d, f)
  BY <1>1, <1>2 DEF Handles, IInv, TypeOK, CoverInv, StatusInv, NotAhead
<1>4. losses' \in 0..MaxLost
  BY <1>1 DEF IInv, TypeOK
<1> QED BY <1>1, <1>3, <1>4, HandledStep

LEMMA ImportFailsStep == IInv /\ ImportFails => IInv'
<1> SUFFICES ASSUME IInv, ImportFails PROVE IInv'
  OBVIOUS
<1> DEFINE f == journal[next].form
<1>1. /\ Handling /\ Handled(work) /\ f \notin seen /\ seen' = seen \cup {f} /\ lost' = lost \cup {f}
      /\ losses < MaxLost /\ losses' = losses + 1
  BY DEF ImportFails
<1>2. f \in Forms /\ work \in Database
  BY <1>1, HandlingIs
<1>3. Handles(work, f)
  BY <1>1, <1>2 DEF Handles, IInv, TypeOK, SessionInv, StatusInv, NotAhead
<1>4. losses' \in 0..MaxLost
  BY <1>1, BoundsAssumption DEF IInv, TypeOK
<1> QED BY <1>1, <1>3, <1>4, HandledStep

LEMMA ImportOrderStep == IInv /\ ImportOrder => IInv'
<1> SUFFICES ASSUME IInv, ImportOrder PROVE IInv'
  OBVIOUS
<1> DEFINE f == journal[next].form
           s == Added(work.status[f], InternalStatus[remote[f]])
           e == [work EXCEPT !.known = @ \cup {f}, !.status[f] = s]
           d == Store(e, next)
<1>1. /\ Handling /\ Handled(d) /\ f \notin seen /\ seen' = seen \cup {f} /\ UNCHANGED <<lost, losses>>
  BY DEF ImportOrder, StatusAsOf
<1>2. /\ f \in Forms /\ work \in Database /\ remote[f] \in DOMAIN InternalStatus
      /\ next \in 1..Len(journal) /\ Len(journal) \in Nat /\ DOMAIN journal = 1..Len(journal)
  BY <1>1, HandlingIs, Typing DEF IInv
<1>3. work.status[f] \in DOMAIN Rank
  BY <1>2 DEF Database
<1>4. /\ s \in DOMAIN Rank
      /\ s = InternalStatus[remote[f]] \/ (work.status[f] = "wydrukowano" /\ s = work.status[f] /\ remote[f] # "cancelled")
      /\ work.status[f] = "wydrukowano" => s \in {"wydrukowano", "anulowano"}
  BY <1>2, <1>3, AddedDetail
<1> HIDE DEF s
<1>5. /\ e \in Database /\ e.known = work.known \cup {f} /\ e.stored = work.stored
      /\ e.status[f] = s /\ \A g \in Forms : g # f => e.status[g] = work.status[g]
  BY <1>2, <1>4 DEF Database
<1> HIDE DEF e
<1>6. e.stored \subseteq {j \in 1..Len(journal) : journal[j].form \in e.known}
  BY <1>5 DEF IInv, SessionInv
<1>7. /\ d \in Database /\ d.known = e.known /\ d.status = e.status
      /\ d.stored \subseteq {j \in 1..Len(journal) : journal[j].form \in d.known}
  BY <1>2, <1>5, <1>6, StoreIs
<1> HIDE DEF d
<1>8. /\ work.status[f] \in {"pobrano", "wydrukowano"} => remote[f] \in {"ready", "cancelled"}
      /\ work.status[f] = "anulowano" => remote[f] = "cancelled"
  BY <1>2 DEF IInv, StatusInv, NotAhead
<1>9. /\ Good(s, f)
      /\ s \in {"pobrano", "wydrukowano"} => remote[f] \in {"ready", "cancelled"}
      /\ s = "anulowano" => remote[f] = "cancelled"
      /\ work.status[f] = "anulowano" => s = "anulowano"
  BY <1>2, <1>4, <1>8, StatusNames DEF Good
<1>10. NotAhead(d)
  BY <1>5, <1>7, <1>9 DEF IInv, StatusInv, NotAhead
<1>11. Handles(d, f)
  <2>1. lost' \subseteq Forms /\ f \in d.known /\ work.known \subseteq d.known
    BY <1>1, <1>5, <1>7 DEF IInv, TypeOK
  <2>2. \A g \in Forms : work.status[g] \in {"wydrukowano", "anulowano"} =>
          d.status[g] \in {"wydrukowano", "anulowano"}
    BY <1>4, <1>5, <1>7, <1>9
  <2>3. \A g \in Forms : Good(work.status[g], g) => Good(d.status[g], g)
    BY <1>5, <1>7, <1>9
  <2> QED BY <1>1, <1>5, <1>7, <1>9, <1>10, <2>1, <2>2, <2>3 DEF Handles
<1>12. losses' \in 0..MaxLost
  BY <1>1 DEF IInv, TypeOK
<1> QED BY <1>1, <1>11, <1>12, HandledStep

LEMMA CancelOrderStep == IInv /\ CancelOrder => IInv'
<1> SUFFICES ASSUME IInv, CancelOrder PROVE IInv'
  OBVIOUS
<1> DEFINE f == journal[next].form
           e == [work EXCEPT !.status[f] = "anulowano"]
           d == Store(e, next)
<1>1. /\ Handling /\ Handled(d) /\ f \in work.known /\ journal[next].type = "cancel"
      /\ UNCHANGED <<seen, lost, losses>>
  BY AddedCancel DEF CancelOrder
<1>2. /\ f \in Forms /\ work \in Database
      /\ next \in 1..Len(journal) /\ Len(journal) \in Nat /\ DOMAIN journal = 1..Len(journal)
  BY <1>1, HandlingIs, Typing DEF IInv
<1>3. /\ e \in Database /\ e.known = work.known /\ e.stored = work.stored
      /\ e.status[f] = "anulowano" /\ \A g \in Forms : g # f => e.status[g] = work.status[g]
  BY <1>2, StatusNames DEF Database
<1> HIDE DEF e
<1>4. /\ d \in Database /\ d.known = e.known /\ d.status = e.status
      /\ d.stored \subseteq {j \in 1..Len(journal) : journal[j].form \in d.known}
  BY <1>2, <1>3, StoreIs DEF IInv, SessionInv
<1> HIDE DEF d
<1>5. remote[f] = "cancelled"
  BY <1>1, <1>2 DEF IInv, JournalInv
<1>6. Good(d.status[f], f)
  BY <1>3, <1>4, <1>5, StatusNames DEF Good
<1>7. NotAhead(d)
  BY <1>3, <1>4, <1>5 DEF IInv, StatusInv, NotAhead
<1>8. Handles(d, f)
  <2>1. lost' \subseteq Forms
    BY <1>1 DEF IInv, TypeOK
  <2>2. \A g \in Forms : work.status[g] \in {"wydrukowano", "anulowano"} =>
          d.status[g] \in {"wydrukowano", "anulowano"}
    BY <1>3, <1>4
  <2>3. \A g \in Forms : Good(work.status[g], g) => Good(d.status[g], g)
    BY <1>3, <1>4, <1>6
  <2> QED BY <1>1, <1>3, <1>4, <1>6, <1>7, <2>1, <2>2, <2>3 DEF Handles
<1>9. losses' \in 0..MaxLost
  BY <1>1 DEF IInv, TypeOK
<1> QED BY <1>1, <1>8, <1>9, HandledStep

-----------------------------------------------------------------------------
(* The end of a run.                                                       *)

\* A run that ends without a commit leaves the database and the cursor.
LEMMA BrokenOffStep ==
  ASSUME IInv, Finish(db), UNCHANGED <<journal, remote, cursor, origin, lost, losses>>,
         UNCHANGED <<collected, revived>>, faults' \in 0..MaxFaults
  PROVE  IInv'
<1>1. /\ pc' = "idle" /\ fetched' = 0 /\ pages' = 0 /\ next' = 0 /\ seen' = {}
      /\ db' = db /\ work' = db
  BY DEF Finish
<1>2. TypeOK'
  BY <1>1, Typing, SizesAssumption DEF IInv, TypeOK
<1>3. JournalInv' /\ StatusInv' /\ AgentInv' /\ Control'
  BY <1>1 DEF IInv, JournalInv, StatusInv, NotAhead, AgentInv, Control
<1>4. SessionInv'
  BY <1>1, <1>2, Typing DEF IInv, SessionInv, TypeOK
<1>5. CoverInv' /\ FollowDb' /\ FollowWork'
  BY <1>1 DEF IInv, CoverInv, NoEventLostSilently, FollowDb, FollowWork, Good, Batch
<1> QED BY <1>2, <1>3, <1>4, <1>5 DEF IInv

LEMMA CancelUnknownStep == IInv /\ CancelUnknown => IInv'
BY BrokenOffStep DEF CancelUnknown, IInv, TypeOK, allegro, agent, history

LEMMA KilledStep == IInv /\ Killed => IInv'
<1> SUFFICES ASSUME IInv, Killed PROVE IInv'
  OBVIOUS
<1>1. faults' \in 0..MaxFaults
  BY BoundsAssumption DEF Killed, IInv, TypeOK
<1> QED BY <1>1, BrokenOffStep DEF Killed, allegro, agent

LEMMA CommitBatchStep == IInv /\ CommitBatch => IInv'
<1> SUFFICES ASSUME IInv, CommitBatch PROVE IInv'
  OBVIOUS
<1>1. /\ pc = "handle" /\ next > fetched /\ db' = work /\ pc' = "save"
      /\ UNCHANGED <<journal, remote, cursor, fetched, pages, next, seen, work, origin, lost, faults, losses>>
      /\ UNCHANGED <<collected, revived>>
  BY DEF CommitBatch, allegro, agent, history
<1>2. /\ cursor \in Nat /\ origin \in Nat /\ next \in Nat /\ fetched \in Nat /\ Len(journal) \in Nat
      /\ cursor < next /\ next = fetched + 1 /\ cursor <= Len(journal)
  BY <1>1, Typing DEF IInv, Control
<1>3. TypeOK'
  <2>1. work.stored \subseteq {i \in DOMAIN journal : journal[i].form \in work.known}
    BY Typing DEF IInv, SessionInv
  <2> QED BY <1>1, <2>1 DEF IInv, TypeOK
<1>4. JournalInv' /\ StatusInv' /\ AgentInv' /\ Control' /\ SessionInv'
  BY <1>1, <1>2 DEF IInv, JournalInv, StatusInv, NotAhead, AgentInv, Control, SessionInv
<1>5. CoverInv'
  BY <1>1 DEF IInv, CoverInv, NoEventLostSilently, Batch, SessionInv
<1>6. FollowDb'
  <2> SUFFICES ASSUME NEW f \in Forms \ lost, NEW i \in (origin + 1)..cursor, journal[i].form = f
               PROVE  \/ Good(work.status[f], f)
                      \/ \E j \in (cursor + 1)..Len(journal) : journal[j].form = f
    BY <1>1 DEF FollowDb, Good
  <2>1. i \in (origin + 1)..(next - 1)
    BY <1>2
  <2>2. Good(work.status[f], f) \/ Pending(f)
    BY <1>1, <2>1 DEF IInv, FollowWork, Batch
  <2>3. next..Len(journal) \subseteq (cursor + 1)..Len(journal)
    BY <1>2
  <2> QED BY <2>2, <2>3 DEF Pending
<1>7. FollowWork'
  BY <1>1 DEF IInv, FollowWork, Good, Pending, Batch
<1> QED BY <1>3, <1>4, <1>5, <1>6, <1>7 DEF IInv

LEMMA SaveCursorStep == IInv /\ SaveCursor => IInv'
<1> SUFFICES ASSUME IInv, SaveCursor PROVE IInv'
  OBVIOUS
<1>1. /\ pc = "save" /\ cursor' = fetched /\ pc' = "idle" /\ fetched' = 0 /\ pages' = 0 /\ next' = 0
      /\ seen' = {} /\ db' = db /\ work' = db
      /\ UNCHANGED <<journal, remote, origin, lost, faults, losses, collected, revived>>
  BY DEF SaveCursor, Finish, LastFetched, allegro, agent, history
<1>2. /\ cursor \in Nat /\ origin \in Nat /\ fetched \in Nat /\ Len(journal) \in Nat
      /\ next = fetched + 1 /\ work = db /\ cursor <= fetched /\ fetched <= Len(journal)
      /\ origin <= cursor
  BY <1>1, Typing DEF IInv, Control
<1>3. next - 1 = fetched
  BY <1>2
<1>4. TypeOK'
  <2>1. origin' \in 0..cursor' /\ cursor' \in 0..Len(journal')
    BY <1>1, <1>2
  <2> QED BY <1>1, <1>2, <2>1, SizesAssumption DEF IInv, TypeOK
<1>5. JournalInv' /\ StatusInv' /\ AgentInv' /\ Control'
  BY <1>1 DEF IInv, JournalInv, StatusInv, NotAhead, AgentInv, Control
<1>6. SessionInv'
  BY <1>1, <1>2 DEF IInv, SessionInv
<1>7. CoverInv'
  <2>1. ASSUME NEW i \in (origin + 1)..fetched PROVE journal[i].form \in db.known \cup lost
    <3>1. CASE i <= cursor
      BY <1>2, <3>1 DEF IInv, CoverInv, NoEventLostSilently
    <3>2. CASE i > cursor
      BY <1>1, <1>2, <1>3, <3>2 DEF IInv, CoverInv, Batch
    <3> QED BY <1>2, <3>1, <3>2
  <2> QED BY <1>1, <2>1 DEF CoverInv, NoEventLostSilently, Batch
<1>8. FollowDb'
  <2> SUFFICES ASSUME NEW f \in Forms \ lost, NEW i \in (origin + 1)..fetched, journal[i].form = f
               PROVE  \/ Good(db.status[f], f)
                      \/ \E j \in (fetched + 1)..Len(journal) : journal[j].form = f
    BY <1>1 DEF FollowDb, Good
  <2>1. Good(work.status[f], f) \/ Pending(f)
    BY <1>1, <1>3 DEF IInv, FollowWork, Batch
  <2> QED BY <1>2, <2>1 DEF Pending
<1>9. FollowWork'
  BY <1>1 DEF FollowWork, Batch
<1> QED BY <1>4, <1>5, <1>6, <1>7, <1>8, <1>9 DEF IInv

-----------------------------------------------------------------------------
LEMMA Inductive == IInv /\ [Next]_vars => IInv'
<1> SUFFICES ASSUME IInv, [Next]_vars PROVE IInv'
  OBVIOUS
<1>1. ASSUME NEW f \in Forms, Buy(f) \/ Pay(f) \/ Cancel(f) PROVE IInv'
  BY <1>1, RemoteStep
<1>2. ASSUME NEW f \in Forms, Collect(f) \/ PrintOrder(f) PROVE IInv'
  BY <1>2, CollectStep, PrintOrderStep
<1>3. CASE SyncAll
  BY <1>3, SyncAllStep
<1>4. CASE InitializeCursor \/ ReadCursor \/ FetchPage \/ FetchFails
  BY <1>4, InitializeCursorStep, ReadCursorStep, FetchPageStep, FetchFailsStep
<1>5. CASE SkipImport \/ ImportOrder \/ ImportFails \/ CancelOrder
  BY <1>5, SkipImportStep, ImportOrderStep, ImportFailsStep, CancelOrderStep
<1>6. CASE CancelUnknown \/ Killed \/ CommitBatch \/ SaveCursor
  BY <1>6, CancelUnknownStep, KilledStep, CommitBatchStep, SaveCursorStep
<1>7. CASE UNCHANGED vars
  <2> USE <1>7 DEF vars, allegro, run, agent, history
  <2>1. TypeOK'
    BY DEF IInv, TypeOK
  <2>2. JournalInv' /\ StatusInv' /\ AgentInv' /\ Control' /\ SessionInv'
    BY DEF IInv, JournalInv, StatusInv, NotAhead, AgentInv, Control, SessionInv
  <2>3. CoverInv' /\ FollowDb' /\ FollowWork'
    BY DEF IInv, CoverInv, NoEventLostSilently, FollowDb, FollowWork, Good, Pending, Batch
  <2> QED BY <2>1, <2>2, <2>3 DEF IInv
<1> QED BY <1>1, <1>2, <1>3, <1>4, <1>5, <1>6, <1>7 DEF Next, SyncStep

THEOREM Invariance == Spec => []IInv
BY Initially, Inductive, PTL DEF Spec

\* Every variable of the synchronisation keeps its type; in particular every
\* stored event belongs to an order with a row.
THEOREM SyncTypes == Spec => []TypeOK
<1>1. IInv => TypeOK
  BY DEF IInv
<1> QED BY <1>1, Invariance, PTL

\* Whatever fails and whenever the process is killed, every event the cursor has
\* passed belongs to an order in the database or to a detail call that failed.
THEOREM EventsAccountedFor == Spec => []NoEventLostSilently
<1>1. IInv => NoEventLostSilently
  BY DEF IInv, CoverInv
<1> QED BY <1>1, Invariance, PTL

\* When the journal is consumed the orders have the statuses Allegro gives them,
\* although each event was handled with a detail that may be newer than it, or
\* are printed; a cancelled one only if the agent, which had collected it before,
\* marked its label after the cancellation was recorded.
THEOREM StatusesFollow == Spec => []StatusFollowsAllegro
<1>1. IInv => StatusFollowsAllegro
  <2> SUFFICES ASSUME IInv, cursor = Len(journal), NEW i \in (origin + 1)..cursor,
                      journal[i].form \notin lost
               PROVE  Good(db.status[journal[i].form], journal[i].form)
    BY DEF StatusFollowsAllegro, Good
  <2>1. origin \in Nat /\ cursor \in Nat /\ (cursor + 1)..Len(journal) = {}
    BY Typing DEF IInv
  <2>2. i \in 1..Len(journal)
    BY <2>1
  <2>3. journal[i].form \in Forms
    BY <2>2, Typing, JournalIs DEF IInv
  <2> QED BY <2>1, <2>3 DEF IInv, FollowDb
<1> QED BY <1>1, Invariance, PTL

\* No run, and no repetition of a run that was killed before it saved its cursor,
\* takes a printed order back to an earlier status.
THEOREM PrintedOrdersStay == Spec => PrintedStaysPrinted
<1> DEFINE Stays == \A f \in Forms : db.status[f] = "wydrukowano" =>
                      db'.status[f] \in {"wydrukowano", "anulowano"}
<1>1. IInv /\ [Next]_vars => [Stays]_vars
  <2> SUFFICES ASSUME IInv, Next, NEW f \in Forms, db.status[f] = "wydrukowano"
               PROVE  db'.status[f] \in {"wydrukowano", "anulowano"}
    BY DEF vars
  <2>1. CASE db' = db
    BY <2>1
  <2>2. CASE CommitBatch
    BY <2>2 DEF CommitBatch, IInv, SessionInv
  <2>3. ASSUME NEW g \in Forms, PrintOrder(g) PROVE db'.status[f] \in {"wydrukowano", "anulowano"}
    <3>1. db \in Database /\ db.status[g] \in DOMAIN Rank
      BY DEF IInv, TypeOK, Database
    <3>2. db' = [db EXCEPT !.status[g] = "wydrukowano"]
      BY <2>3, <3>1, AddedPrinted DEF PrintOrder, Elsewhere
    <3> QED BY <3>1, <3>2 DEF Database
  <2>4. CASE SyncAll
    <3>1. PICK listed \in SUBSET {g \in Forms : remote[g] # "none"} : Elsewhere(Synced(listed))
      BY <2>4 DEF SyncAll, Synced
    <3>2. db \in Database /\ \A g \in listed : remote[g] \in DOMAIN InternalStatus
      BY DEF IInv, TypeOK
    <3>3. db' = Synced(listed) /\ db.status[f] \in DOMAIN Rank
      BY <3>1, <3>2 DEF Elsewhere, Database
    <3>4. db'.status[f] =
            IF f \in listed THEN Added(db.status[f], InternalStatus[remote[f]]) ELSE db.status[f]
      BY <3>2, <3>3, SyncedIs
    <3> QED BY <3>2, <3>3, <3>4, AddedDetail
  <2>5. \/ db' = db \/ CommitBatch \/ SyncAll \/ \E g \in Forms : PrintOrder(g)
    BY DEF Next, SyncStep, Buy, Pay, Cancel, Remote, Collect, InitializeCursor, ReadCursor, FetchPage, FetchFails,
           SkipImport, ImportOrder, ImportFails, CancelOrder, Handled, CancelUnknown, Killed, SaveCursor,
           Finish
  <2> QED BY <2>1, <2>2, <2>3, <2>4, <2>5
<1>2. Spec => [][Stays]_vars
  BY <1>1, Invariance, PTL DEF Spec
<1> QED BY <1>2 DEF PrintedStaysPrinted
=============================================================================
