---------------------------- MODULE OrderStatus ----------------------------
(***************************************************************************)
(* The status log of the orders and everybody who appends to it: the       *)
(* printing agent, the stages of the scheduler and the web requests.       *)
(*                                                                         *)
(* A row's timestamp is filled in by the server as now(), which PostgreSQL *)
(* fixes when the transaction begins, and the status of an order is the    *)
(* row with the largest timestamp.  So a row does not count from its       *)
(* commit: one that was committed late by a transaction that began early   *)
(* is behind the rows of the transactions that began after it.  Only the   *)
(* newest row of an order is ever read; the model keeps that row's status  *)
(* and, per open transaction, whether that row is newer than it.           *)
(***************************************************************************)
EXTENDS Integers, FiniteSets

CONSTANTS
  Orders,
  Agent, Sched,  \* the sessions of the agent's thread and of the scheduler's
  Web,           \* the sessions of web requests
  Moves,         \* the steps a parcel can take from one tracked state to another
  None,
  Enabled,       \* bound: the kinds of sessions there are in an instance
  MaxWeb,        \* bound: web requests that are served
  MaxFaults      \* bound: sessions that raise or are killed before the commit

Problem == 999
Rank == [pobrano |-> 0, nieoplacone |-> 0, wydrukowano |-> 2, spakowano |-> 3,
         wyslano |-> 4, w_transporcie |-> 5, w_punkcie |-> 6, dostarczono |-> 7,
         blad_druku |-> Problem, problem_z_dostawa |-> Problem, zwrot |-> Problem,
         nieodebrano |-> Problem, anulowano |-> Problem]
Status == DOMAIN Rank

ActiveAsDocumented == {"wydrukowano", "w_drodze"}
ActiveOrCancelled == {"wydrukowano", "spakowano", "wyslano", "anulowano"}
Active == {"wydrukowano", "spakowano", "wyslano", "w_transporcie", "w_punkcie"}
Untracked == {"dostarczono", "zwrot", "anulowano", "problem_z_dostawa"}
CancellableTwice ==
  {"pobrano", "nieoplacone", "wydrukowano", "spakowano", "blad_druku", "anulowano"}
Cancellable == {"pobrano", "nieoplacone", "wydrukowano", "spakowano", "blad_druku"}
NotEditable == {"anulowano", "dostarczono", "zwrot", "nieodebrano"}

(* What Allegro says of an order, as the importers and as the fulfilment   *)
(* synchronisation translate it; PROCESSING tells the latter nothing.  A   *)
(* form that is paid and still NEW is called PAID here.                    *)
Imported == [UNPAID |-> "nieoplacone", PAID |-> "pobrano", PROCESSING |-> "pobrano",
             SENT |-> "wyslano", PICKED_UP |-> "dostarczono", CANCELLED |-> "anulowano"]
Fulfilment == [UNPAID |-> "pobrano", PAID |-> "pobrano", PROCESSING |-> None,
               SENT |-> "wyslano", PICKED_UP |-> "dostarczono", CANCELLED |-> "anulowano"]

Sessions == {Agent, Sched} \cup Web
AgentKinds == {"print", "error", "track"}
SchedKinds == {"fulfilment", "parcels", "import", "returned", "expire", "unpaid"}
WebKinds == {"cancel", "scan", "edit", "reprint", "return"}
Kinds == AgentKinds \cup SchedKinds \cup WebKinds

(* the kinds that look at the status before they choose what to write *)
Pollers == {"fulfilment", "parcels", "track", "scan", "unpaid"}
Forced == {"cancel", "edit", "expire"}      \* with allow_backwards

ASSUME SessionsAssumption == Agent # Sched /\ Agent \notin Web /\ Sched \notin Web
ASSUME NoneAssumption == None \notin Status \cup DOMAIN Imported \cup {"nothing"}
ASSUME MovesAssumption == Moves \subseteq (Status \cup {None}) \X Status
ASSUME BoundsAssumption == Enabled \subseteq Kinds /\ MaxWeb \in Nat /\ MaxFaults \in Nat

VARIABLES
  \* the database
  status,    \* the status in the newest row of each order
  labelled,  \* orders with a delivery_package_nr
  returned,  \* orders with a pending Return without a parcel
  \* outside
  form,      \* the order at Allegro
  parcel,    \* what the carrier tells of its parcel
  \* the sessions
  pc,        \* idle, open (a transaction is open), between (no longer), telling
  kind,      \* what the session does
  mine,      \* the orders it began with
  todo,      \* those it has still to look at
  seen,      \* the statuses it read when it began and goes by later
  got,       \* what it was told from outside, None before it asked
  row,       \* the rows it is going to insert
  older,     \* the open transactions that began before its own
  behind,    \* orders whose newest row is of a transaction that began after its own
  stale,     \* orders that got a row from another session since this one began
  \* the agent's memory, the history and the bounds
  collected, \* orders the agent is printing
  refunds,   \* refunds sent to Allegro per order by cancellations, up to two
  excused,   \* orders with a lost, overlapped or revoked cancellation
  web, faults

outside == <<form, parcel>>
session == <<kind, mine, todo, seen, got, row>>
order == <<older, behind, stale>>
history == <<refunds, excused>>
vars == <<status, labelled, returned, outside, pc, session, order, collected, history,
          web, faults>>

NoRows == [o \in Orders |-> None]

TypeOK ==
  /\ status \in [Orders -> Status] /\ labelled \subseteq Orders /\ returned \subseteq Orders
  /\ form \in [Orders -> DOMAIN Imported] /\ parcel \in [Orders -> Status \cup {None}]
  /\ pc \in [Sessions -> {"idle", "open", "between", "telling"}]
  /\ kind \in [Sessions -> Kinds \cup {None}] /\ mine \in [Sessions -> SUBSET Orders]
  /\ todo \in [Sessions -> SUBSET Orders]
  /\ seen \in [Sessions -> [Orders -> Status \cup {None}]]
  /\ got \in [Sessions -> [Orders -> Status \cup DOMAIN Imported \cup {None, "nothing"}]]
  /\ row \in [Sessions -> [Orders -> Status \cup {None}]]
  /\ older \in [Sessions -> SUBSET Sessions]
  /\ behind \in [Sessions -> SUBSET Orders] /\ stale \in [Sessions -> SUBSET Orders]
  /\ collected \subseteq Orders /\ excused \subseteq Orders
  /\ refunds \in [Orders -> 0..2]
  /\ web \in 0..MaxWeb /\ faults \in 0..MaxFaults

Init ==
  /\ form \in [Orders -> {"UNPAID", "PAID"}]
  /\ status = [o \in Orders |-> Imported[form[o]]]
  /\ parcel = [o \in Orders |-> None] /\ labelled = {} /\ returned = {}
  /\ pc = [s \in Sessions |-> "idle"] /\ kind = [s \in Sessions |-> None]
  /\ mine = [s \in Sessions |-> {}] /\ todo = [s \in Sessions |-> {}]
  /\ seen = [s \in Sessions |-> NoRows]
  /\ got = [s \in Sessions |-> NoRows] /\ row = [s \in Sessions |-> NoRows]
  /\ older = [s \in Sessions |-> {}]
  /\ behind = [s \in Sessions |-> {}] /\ stale = [s \in Sessions |-> {}]
  /\ collected = {}
  /\ refunds = [o \in Orders |-> 0] /\ excused = {} /\ web = 0 /\ faults = 0

-----------------------------------------------------------------------------
(* Allegro, the buyer and the carrier.                                     *)

Outside(o, from, to) ==
  /\ form[o] \in from /\ form' = [form EXCEPT ![o] = to]
  /\ UNCHANGED <<status, labelled, returned, parcel, pc, session, order, collected, history,
                 web, faults>>

Pay(o) == Outside(o, {"UNPAID"}, "PAID")
BuyerCancels(o) == Outside(o, {"UNPAID", "PAID", "PROCESSING"}, "CANCELLED")
PickedUp(o) == parcel[o] = "dostarczono" /\ Outside(o, {"SENT"}, "PICKED_UP")

Carry(o) ==
  /\ form[o] \in {"PROCESSING", "SENT"}
  /\ \E st \in Status : <<parcel[o], st>> \in Moves /\ parcel' = [parcel EXCEPT ![o] = st]
  /\ UNCHANGED <<status, labelled, returned, form, pc, session, order, collected, history,
                 web, faults>>

-----------------------------------------------------------------------------
(* A session begins: its transaction starts with the first query, which    *)
(* reads the statuses the session goes by.                                 *)

Open(s) == {t \in Sessions : pc[t] = "open"} \ {s}

Starts(s, k, orders, at) ==
  /\ pc[s] = "idle" /\ orders # {} /\ k \in Enabled
  /\ pc' = [pc EXCEPT ![s] = at] /\ kind' = [kind EXCEPT ![s] = k]
  /\ mine' = [mine EXCEPT ![s] = orders] /\ todo' = [todo EXCEPT ![s] = orders]
  /\ seen' = [seen EXCEPT ![s] = [o \in Orders |->
                 IF o \in orders /\ k \in {"edit", "track"} THEN status[o] ELSE None]]
  /\ older' = [older EXCEPT ![s] = IF at = "open" THEN Open(s) ELSE {}]
  /\ UNCHANGED <<status, labelled, returned, outside, got, row, behind, stale, history, faults>>

Begin(s, k, orders) == Starts(s, k, orders, "open")

(* The agent collects new orders and those whose printing failed, unless   *)
(* they have a waybill, and creates their shipments.                       *)
Collect(o) ==
  /\ pc[Agent] = "idle" /\ o \notin collected /\ o \notin labelled
  /\ status[o] \in {"pobrano", "blad_druku"}
  /\ collected' = collected \cup {o}
  /\ \/ form' = [form EXCEPT ![o] = IF @ \in {"UNPAID", "PAID"} THEN "PROCESSING" ELSE @]
     \/ UNCHANGED form
  /\ UNCHANGED <<status, labelled, returned, parcel, pc, session, order, history, web, faults>>

BeginPrint == \E o \in collected :
  Begin(Agent, "print", {o}) /\ collected' = collected \ {o} /\ UNCHANGED web
BeginError == \E o \in collected :
  Begin(Agent, "error", {o}) /\ collected' = collected \ {o} /\ UNCHANGED web

(* The agent's tracking reads the statuses of all orders, and commits      *)
(* after each: the later ones are treated without a transaction, until     *)
(* they are read again.                                                    *)
BeginTrack == \E o \in labelled, at \in {"open", "between"} :
  /\ status[o] \notin Untracked
  /\ Starts(Agent, "track", {o}, at) /\ UNCHANGED <<collected, web>>

BeginFulfilment ==
  Begin(Sched, "fulfilment", {o \in Orders : status[o] \in Active}) /\ UNCHANGED <<collected, web>>
BeginParcels ==
  /\ Begin(Sched, "parcels", {o \in labelled : status[o] \in Active})
  /\ UNCHANGED <<collected, web>>
BeginImport == \E o \in Orders : Begin(Sched, "import", {o}) /\ UNCHANGED <<collected, web>>
BeginUnpaid ==
  /\ Begin(Sched, "unpaid", {o \in Orders : status[o] = "nieoplacone"})
  /\ UNCHANGED <<collected, web>>
BeginReturned == \E o \in Orders \ returned :
  /\ parcel[o] = "dostarczono" /\ Begin(Sched, "returned", {o}) /\ UNCHANGED <<collected, web>>
BeginExpire == Begin(Sched, "expire", returned) /\ UNCHANGED <<collected, web>>

Request(s, k, orders) == \E o \in orders :
  /\ web < MaxWeb /\ web' = web + 1 /\ Begin(s, k, {o}) /\ UNCHANGED collected

BeginCancel(s) == Request(s, "cancel", {o \in Orders : status[o] \in Cancellable})
BeginScan(s) == Request(s, "scan", {o \in Orders : status[o] = "wydrukowano"})
BeginEdit(s) == Request(s, "edit", {o \in Orders : status[o] \notin NotEditable})
BeginReprint(s) == Request(s, "reprint", labelled)
BeginReturn(s) == Request(s, "return", Orders \ returned)

-----------------------------------------------------------------------------
(* A session asks outside, reads the newest status again, adds a row.      *)

Asks == {"fulfilment", "parcels", "track", "import"}

Ask(s) == \E o \in todo[s] :
  /\ pc[s] \in {"open", "between"} /\ kind[s] \in Asks /\ got[s][o] = None
  /\ got' = [got EXCEPT ![s][o] =
       IF kind[s] \in {"fulfilment", "import"} THEN form[o]
       ELSE IF parcel[o] = None THEN "nothing" ELSE parcel[o]]
  /\ UNCHANGED <<status, labelled, returned, outside, pc, kind, mine, todo, seen, row, order,
                 collected, history, web, faults>>

(* Another cancellation of the order has sent its refund and is not done. *)
Pending(o) == {s \in Sessions : pc[s] = "open" /\ kind[s] = "cancel" /\ got[s][o] # None}

(* cancel_order asks for the refund before it writes anything; the money   *)
(* may have been returned by hand instead.                                 *)
Refund(s) == \E o \in todo[s], sent \in BOOLEAN :
  /\ pc[s] = "open" /\ kind[s] = "cancel" /\ got[s][o] = None
  /\ got' = [got EXCEPT ![s][o] = IF sent THEN "CANCELLED" ELSE "nothing"]
  /\ refunds' = [refunds EXCEPT ![o] = IF sent /\ @ < 2 THEN @ + 1 ELSE @]
  /\ excused' = IF o \in stale[s] \/ Pending(o) # {} THEN excused \cup {o} ELSE excused
  /\ UNCHANGED <<status, labelled, returned, outside, pc, kind, mine, todo, seen, row, order,
                 collected, web, faults>>

Withdrawn == "anulowano"

(* the status a session wants to write; None: it leaves the order alone *)
Wanted(s, o) ==
  CASE kind[s] \in {"print", "reprint"}   -> "wydrukowano"
    [] kind[s] = "error"                  -> "blad_druku"
    [] kind[s] = "scan"                   -> "spakowano"
    [] kind[s] \in {"cancel", "unpaid"}   -> Withdrawn
    [] kind[s] \in {"returned", "return"} -> "zwrot"
    [] kind[s] = "expire"                 -> "dostarczono"
    [] kind[s] = "edit"                   -> seen[s][o]
    [] kind[s] = "import"                 -> Imported[got[s][o]]
    [] kind[s] = "fulfilment"             -> Fulfilment[got[s][o]]
    [] OTHER -> IF got[s][o] = "nothing" \/ (kind[s] = "track" /\ got[s][o] = seen[s][o])
                THEN None ELSE got[s][o]

(* add_order_status: the row it adds after the newest one, if any *)
AddedBackwards(k, last, new) == IF new = last /\ k # "edit" THEN None ELSE new
Added(k, last, new) ==
  IF new = None \/ (new = last /\ k # "edit") THEN None
  ELSE IF k \notin Forced /\ Rank[new] # Problem /\ Rank[last] # Problem /\ Rank[new] < Rank[last]
       THEN None ELSE new

Decide(s) == \E o \in todo[s] :
  /\ pc[s] \in {"open", "between"}
  /\ kind[s] \in Asks \cup {"cancel"} => got[s][o] # None
  /\ row' = [row EXCEPT ![s][o] = Added(kind[s], status[o], Wanted(s, o))]
  /\ todo' = [todo EXCEPT ![s] = @ \ {o}]
  /\ got' = IF kind[s] = "cancel" THEN got ELSE [got EXCEPT ![s][o] = None]
  /\ form' = IF kind[s] = "track" /\ Wanted(s, o) = "wyslano"
                 /\ form[o] \in {"PAID", "PROCESSING"}
             THEN [form EXCEPT ![o] = "SENT"] ELSE form
  /\ pc' = [pc EXCEPT ![s] = "open"]
  /\ older' = IF pc[s] = "between" THEN [older EXCEPT ![s] = Open(s)] ELSE older
  /\ UNCHANGED <<status, labelled, returned, parcel, kind, mine, seen, behind, stale, collected,
                 history, web, faults>>

-----------------------------------------------------------------------------
(* The end of a transaction.                                               *)

(* s no longer is among the open transactions; orders got rows from it, of *)
(* which those in shown are the newest now.                                *)
Closed(s, orders, shown) ==
  /\ older' = [t \in Sessions |-> IF t = s THEN {} ELSE older[t] \ {s}]
  /\ behind' = [t \in Sessions |-> IF t = s THEN {}
                                   ELSE IF t \in older[s] THEN behind[t] \cup shown ELSE behind[t]]

Ended(s) ==
  /\ kind' = [kind EXCEPT ![s] = None] /\ mine' = [mine EXCEPT ![s] = {}]
  /\ todo' = [todo EXCEPT ![s] = {}]
  /\ seen' = [seen EXCEPT ![s] = NoRows] /\ got' = [got EXCEPT ![s] = NoRows]

Written(s) == {o \in Orders : row[s][o] # None}
Shown(s) == {o \in Written(s) : o \notin behind[s]}
Cancels(s) == {o \in Orders : kind[s] = "cancel" /\ got[s][o] # None}

Commit(s) ==
  /\ pc[s] = "open" /\ todo[s] = {}
  /\ status' = [o \in Orders |-> IF o \in Shown(s) THEN row[s][o] ELSE status[o]]
  /\ labelled' = IF kind[s] = "print" THEN labelled \cup mine[s]
                 ELSE labelled
  /\ returned' = IF kind[s] \in {"returned", "return"}
                 THEN returned \cup mine[s]
                 ELSE IF kind[s] = "expire" THEN returned \ mine[s]
                 ELSE returned
  /\ excused' = excused \cup (Cancels(s) \cap stale[s])
                  \cup {o \in Shown(s) : status[o] = "anulowano" /\ row[s][o] # "anulowano"}
  /\ row' = [row EXCEPT ![s] = NoRows]
  /\ stale' = [t \in Sessions |->
       IF t = s THEN {}
       ELSE IF pc[t] \in {"open", "between"} THEN stale[t] \cup Written(s) ELSE stale[t]]
  /\ Closed(s, Written(s), Shown(s))
  /\ IF kind[s] = "cancel"
     THEN pc' = [pc EXCEPT ![s] = "telling"] /\ UNCHANGED <<kind, mine, todo, seen, got>>
     ELSE pc' = [pc EXCEPT ![s] = "idle"] /\ Ended(s)
  /\ UNCHANGED <<outside, collected, refunds, web, faults>>

(* the last step of a cancellation, whether Allegro accepts it or not *)
TellAllegro(s) ==
  /\ pc[s] = "telling" /\ pc' = [pc EXCEPT ![s] = "idle"] /\ Ended(s)
  /\ \/ form' = [o \in Orders |-> IF o \in mine[s] /\ form[o] \in {"UNPAID", "PAID", "PROCESSING"}
                                  THEN "CANCELLED" ELSE form[o]]
     \/ UNCHANGED form
  /\ UNCHANGED <<status, labelled, returned, parcel, row, order, collected, history, web, faults>>

(* the session raises, or its process is killed *)
Abort(s) ==
  /\ pc[s] \in {"open", "between"} /\ faults < MaxFaults /\ faults' = faults + 1
  /\ pc' = [pc EXCEPT ![s] = "idle"] /\ Ended(s) /\ row' = [row EXCEPT ![s] = NoRows]
  /\ excused' = excused \cup Cancels(s)
  /\ stale' = [stale EXCEPT ![s] = {}] /\ Closed(s, {}, {})
  /\ UNCHANGED <<status, labelled, returned, outside, collected, refunds, web>>

SessionStep(s) == Ask(s) \/ Refund(s) \/ Decide(s) \/ Commit(s) \/ TellAllegro(s)

Next ==
  \/ \E o \in Orders : Pay(o) \/ BuyerCancels(o) \/ PickedUp(o) \/ Carry(o) \/ Collect(o)
  \/ BeginPrint \/ BeginError \/ BeginTrack
  \/ BeginFulfilment \/ BeginParcels \/ BeginImport \/ BeginUnpaid \/ BeginReturned \/ BeginExpire
  \/ \E s \in Web : \/ BeginCancel(s) \/ BeginScan(s) \/ BeginEdit(s)
                    \/ BeginReprint(s) \/ BeginReturn(s)
  \/ \E s \in Sessions : SessionStep(s) \/ Abort(s)

Spec == Init /\ [][Next]_vars

(* The scheduler comes back to its stage of parcels in every cycle.        *)
FairSpec == Spec /\ SF_vars(BeginParcels) /\ \A s \in Sessions : WF_vars(SessionStep(s))

-----------------------------------------------------------------------------
(* The status of an order goes back only to or from a problem, or when two *)
(* sessions overlapped, whatever the timestamps make of the order of their *)
(* rows (the guard of add_order_status, services/order_status.py:133).     *)
Life == INSTANCE OrderLife WITH
  status    <- status,
  contested <- {o \in Orders : \E s \in Sessions : row[s][o] # None /\ o \in stale[s]}
FollowsLife == Life!Spec

(* A cancelled order is not revived by those who go by its status: they    *)
(* do it only if it was cancelled while they were at work.                 *)
PollersLeaveCancelled ==
  [][\A o \in Orders : status[o] = "anulowano" /\ status'[o] # "anulowano" =>
       \E s \in Sessions : /\ pc[s] = "open" /\ row[s][o] = status'[o]
                           /\ kind[s] \in Pollers => o \in stale[s]]_vars

(* cancel_order sends a second refund of an order only if a cancellation   *)
(* was lost, overlapped by another writer, or revoked by one.              *)
RefundOnce == \A o \in Orders : refunds[o] = 2 => o \in excused

(* A parcel that was delivered does not stay among the active orders: the  *)
(* tracking's row may come too late to count, but not in every cycle.      *)
UnderWay == {"wydrukowano", "spakowano", "wyslano", "w_transporcie", "w_punkcie"}
DeliveredIsShown == \A o \in Orders :
  (parcel[o] = "dostarczono" /\ o \in labelled /\ status[o] \in UnderWay)
    ~> (status[o] \notin UnderWay)
=============================================================================
