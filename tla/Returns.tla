------------------------------ MODULE Returns ------------------------------
(***************************************************************************)
(* The returns of one order and the money paid back for them: the stage of *)
(* the scheduler that synchronises returns (Allegro's customer returns,    *)
(* WooCommerce's withdrawals, the tracking of return parcels, stock,       *)
(* expiry), the web requests of the order's page, and the webhooks.        *)
(*                                                                         *)
(* A short transaction without a call to another service is one step; the  *)
(* stages and requests that call a service between reading and writing     *)
(* are as many steps as there are moments at which others may write.       *)
(***************************************************************************)
EXTENDS Integers, Sequences, FiniteSets, Functions

CONSTANTS
  Pages,         \* web requests that may be under way together
  MaxClaims,     \* bound: returns the buyer announces, of each platform
  MaxRequests,   \* bound: web requests and webhooks that are served
  MaxFaults      \* bound: failed calls, lost answers, kills

VARIABLES
  platform,   \* where the order was made
  claims,     \* the announced returns, as the platform shows them
  parcel,     \* the parcel of a return that is not Allegro's
  unclaimed,  \* the order's own parcel came back, nobody collected it
  leads,      \* whose items lead to a product in stock: Allegro's rows, the others
  rows,       \* table returns
  stage, page, held,  \* the scheduler: stage, what it fetched, what it read
  pc, of,     \* a web request, and the row that it works on
  paid,       \* history: payments to the buyer for a row
  slips,      \* history: those that were not recorded or that overlapped
  requests, faults

outside == <<platform, claims, parcel, unclaimed, leads>>
sync == <<stage, page, held>>
money == <<pc, of, paid, slips>>
bounds == <<requests, faults>>
vars == <<outside, rows, sync, money, bounds>>

(* Allegro's returns, and one row beside them *)
Rows == 1..MaxClaims["allegro"] + 1

Statuses == {"pending", "in_transit", "delivered", "not_collected", "completed", "cancelled"}
States == {"created", "sent", "delivered", "finished", "rejected"}
Row == [allegro : 0..MaxClaims["allegro"], woo : 0..MaxClaims["woo"], status : Statuses,
        parcel : BOOLEAN, stock : BOOLEAN, refund : BOOLEAN, old : BOOLEAN]

TypeOK ==
  /\ platform \in {"allegro", "woo"} /\ claims \in Seq(States) /\ Len(claims) <= MaxClaims[platform]
  /\ parcel \in {"home", "moving", "here"} /\ unclaimed \in BOOLEAN
  /\ leads \in SUBSET {"allegro", "other"} /\ rows \in Seq(Row) /\ DOMAIN rows \subseteq Rows
  /\ stage \in {"idle", "fetched", "track", "held", "stock", "listed"}
  /\ page \in Seq([claim : 1..MaxClaims[platform], state : States])
  /\ held \in Seq(Statuses \cup {"closed"}) /\ Len(held) <= Len(rows)
  /\ pc \in [Pages -> {"idle", "paying", "late", "paid"}] /\ of \in [Pages -> Rows \cup {0}]
  /\ paid \in [Rows -> Nat] /\ slips \in [Rows -> Nat]
  /\ requests \in 0..MaxRequests /\ faults \in 0..MaxFaults

Init ==
  /\ platform \in {"allegro", "woo"} /\ claims = <<>> /\ parcel = "home" /\ unclaimed = FALSE
  /\ leads \in SUBSET {"allegro", "other"}
  /\ rows = <<>> /\ stage = "idle" /\ page = <<>> /\ held = <<>>
  /\ pc = [s \in Pages |-> "idle"] /\ of = [s \in Pages |-> 0]
  /\ paid = [i \in Rows |-> 0] /\ slips = [i \in Rows |-> 0]
  /\ requests = 0 /\ faults = 0

Served == requests < MaxRequests /\ requests' = requests + 1 /\ UNCHANGED faults
Fault == faults < MaxFaults /\ faults' = faults + 1 /\ UNCHANGED requests

-----------------------------------------------------------------------------
(* The buyer, the platforms and the carrier.                               *)

Announce ==
  /\ Len(claims) < MaxClaims[platform] /\ claims' = Append(claims, "created")
  /\ UNCHANGED <<platform, parcel, unclaimed, leads, rows, sync, money, bounds>>

Steps == {<<"created", "sent">>, <<"sent", "delivered">>, <<"delivered", "finished">>,
          <<"created", "rejected">>, <<"delivered", "rejected">>}

Advance(c) == \E to \in States :
  /\ platform = "allegro" /\ <<claims[c], to>> \in Steps
  /\ claims' = [claims EXCEPT ![c] = to]
  /\ UNCHANGED <<platform, parcel, unclaimed, leads, rows, sync, money, bounds>>

(* its position is not asked for before there is a row for it *)
Carry ==
  /\ \E i \in DOMAIN rows : rows[i].allegro = 0 /\ rows[i].parcel
  /\ parcel # "here" /\ parcel' = IF parcel = "home" THEN "moving" ELSE "here"
  /\ UNCHANGED <<platform, claims, unclaimed, leads, rows, sync, money, bounds>>

Age(i) ==
  /\ ~rows[i].old /\ rows[i].status = "pending" /\ ~rows[i].parcel
  /\ rows' = [rows EXCEPT ![i].old = TRUE]
  /\ UNCHANGED <<outside, sync, money, bounds>>

-----------------------------------------------------------------------------
(* Records of the table.                                                   *)

NewRow(allegro, woo, status, known) ==
  [allegro |-> allegro, woo |-> woo, status |-> status, parcel |-> known,
   stock |-> FALSE, refund |-> FALSE, old |-> FALSE]

(* create_return_from_order: the row of this withdrawal, else any of the    *)
(* order's (first() without an order), whatever it is for and however it   *)
(* ended, else a new one; its stock and refund flags are kept.             *)
Found(w) ==
  IF \E i \in DOMAIN rows : w # 0 /\ rows[i].woo = w
  THEN {i \in DOMAIN rows : rows[i].woo = w} ELSE DOMAIN rows

Refreshed(row, w, status, known) ==
  [row EXCEPT !.status = status, !.woo = IF w # 0 THEN w ELSE @, !.parcel = @ \/ known]

Recorded(w, status, known) ==
  \/ rows = <<>> /\ rows' = <<NewRow(0, w, status, known)>>
  \/ \E i \in Found(w) : rows' = [rows EXCEPT ![i] = Refreshed(rows[i], w, status, known)]

Settled(i) == [rows EXCEPT ![i].status = "completed", ![i].refund = TRUE]

-----------------------------------------------------------------------------
(* The scheduler.  A failed call leaves a stage without effect.            *)

Goes(where) == stage' = where

(* Allegro: the newest returns.  WooCommerce: the withdrawals after the    *)
(* greatest that is recorded.                                              *)
Listed(c) == [claim |-> c, state |-> claims[c]]
Greatest(w) ==
  /\ \A i \in DOMAIN rows : rows[i].woo <= w
  /\ w = 0 \/ \E i \in DOMAIN rows : rows[i].woo = w

Fetch ==
  /\ stage = "idle" /\ Goes("fetched") /\ UNCHANGED <<outside, rows, held, money>>
  /\ \/ /\ UNCHANGED bounds
        /\ \E after \in 0..Len(claims) :
             /\ IF platform = "allegro" THEN after = 0 ELSE Greatest(after)
             /\ page' = [k \in 1..(Len(claims) - after) |-> Listed(after + k)]
     \/ Fault /\ page' = <<>>

Mapped(state) ==
  CASE state = "created" -> "pending" [] state = "sent" -> "in_transit"
    [] state = "delivered" -> "delivered" [] state = "finished" -> "completed"
    [] state = "rejected" -> "cancelled"

Shipped(state) == state \in {"sent", "delivered", "finished"}

(* a known return takes the platform's status, unless that is pending *)
Updated(row) ==
  IF row.allegro \notin DOMAIN page THEN row
  ELSE LET state == page[row.allegro].state IN
       [row EXCEPT !.parcel = @ \/ Shipped(state),
                   !.status = IF state = "created" THEN @ ELSE Mapped(state)]

UnknownIfOver(found) == \A i \in DOMAIN rows :
  rows[i].allegro # found.claim \/ rows[i].status \in {"completed", "cancelled"}
Unknown(found) == \A i \in DOMAIN rows : rows[i].allegro # found.claim

(* the rows for those of the page that are new, in any order *)
New == {k \in DOMAIN page : Unknown(page[k])}
Created(list) ==
  [n \in DOMAIN list |-> LET found == page[list[n]] IN
     NewRow(found.claim, 0, Mapped(found.state), Shipped(found.state))]

ApplyAllegro ==
  /\ stage = "fetched" /\ platform = "allegro" /\ Goes("track")
  /\ \E list \in Bijection(1..Cardinality(New), New) :
       rows' = [i \in DOMAIN rows |-> Updated(rows[i])] \o Created(list)
  /\ page' = <<>> /\ UNCHANGED <<outside, held, money, bounds>>

ApplyWoo ==
  /\ stage = "fetched" /\ platform = "woo"
  /\ IF page = <<>> THEN Goes("track") /\ UNCHANGED <<rows, page>>
     ELSE /\ Recorded(Head(page).claim, "pending", FALSE)
          /\ page' = Tail(page) /\ UNCHANGED stage
  /\ UNCHANGED <<outside, held, money, bounds>>

(* The parcels of the returns that are under way are asked for one by one; *)
(* all is written at the end.                                              *)
ActiveAll(row) == row.parcel
Active(row) == row.parcel /\ row.status \in {"pending", "in_transit"}

BeginTracking ==
  /\ stage = "track" /\ Goes("held")
  /\ held' = [i \in DOMAIN rows |-> IF Active(rows[i]) THEN rows[i].status ELSE "closed"]
  /\ UNCHANGED <<outside, rows, page, money, bounds>>

Position(row) ==
  IF row.allegro = 0 THEN parcel
  ELSE CASE claims[row.allegro] \in {"created", "rejected"} -> "home"
         [] claims[row.allegro] = "sent" -> "moving"
         [] OTHER -> "here"

Tracked(i) ==
  CASE i \notin DOMAIN held -> rows[i]
    [] i \in DOMAIN held /\ held[i] # "closed" /\ Position(rows[i]) = "here"
         -> [rows[i] EXCEPT !.status = "delivered"]
    [] i \in DOMAIN held /\ held[i] = "pending" /\ Position(rows[i]) = "moving"
         -> [rows[i] EXCEPT !.status = "in_transit"]
    [] OTHER -> rows[i]

EndTracking ==
  /\ stage = "held" /\ Goes("stock") /\ held' = <<>>
  /\ \/ rows' = [i \in DOMAIN rows |-> Tracked(i)] /\ UNCHANGED bounds
     \/ Fault /\ UNCHANGED rows
  /\ UNCHANGED <<outside, page, money>>

RestockableOnce(row) == row.status = "delivered" /\ ~row.stock /\ ~row.refund
Restockable(row) == row.status \in {"delivered", "not_collected"} /\ ~row.stock

(* The items of an Allegro return name no product: an order line without   *)
(* a barcode has to lead to an offer that is linked to one.                *)
Leads(row) == (IF row.allegro # 0 THEN "allegro" ELSE "other") \in leads

ListDelivered ==
  /\ stage = "stock" /\ Goes("listed")
  /\ held' = [i \in DOMAIN rows |-> IF Restockable(rows[i]) THEN rows[i].status ELSE "closed"]
  /\ UNCHANGED <<outside, rows, page, money, bounds>>

(* Each is looked at again.  One whose items lead nowhere, or that fails,  *)
(* stays for the next cycle.                                               *)
Back(row) ==
  IF ~row.stock /\ row.status \in {"delivered", "not_collected", "completed"} /\ Leads(row)
  THEN [row EXCEPT !.stock = TRUE] ELSE row

Restock ==
  /\ stage = "listed"
  /\ \E i \in DOMAIN held :
       /\ held[i] # "closed" /\ held' = [held EXCEPT ![i] = "closed"]
       /\ \/ rows' = [rows EXCEPT ![i] = Back(rows[i])] /\ UNCHANGED bounds
          \/ Fault /\ UNCHANGED rows
  /\ UNCHANGED <<outside, stage, page, money>>

Expire ==
  /\ stage = "listed" /\ (\A i \in DOMAIN held : held[i] = "closed") /\ held' = <<>> /\ Goes("idle")
  /\ rows' = [i \in DOMAIN rows |->
                IF rows[i].status = "pending" /\ ~rows[i].parcel /\ rows[i].old
                THEN [rows[i] EXCEPT !.status = "cancelled"] ELSE rows[i]]
  /\ UNCHANGED <<outside, page, money, bounds>>

(* its parcel stage: the order's own parcel comes back *)
NotCollected ==
  /\ stage = "idle" /\ ~unclaimed /\ parcel = "home" /\ \A c \in DOMAIN claims : claims[c] = "created"
  /\ unclaimed' = TRUE /\ Recorded(0, "not_collected", TRUE)
  /\ UNCHANGED <<platform, claims, parcel, leads, sync, money, bounds>>

Restarted ==
  /\ stage # "idle" /\ Fault /\ Goes("idle") /\ page' = <<>> /\ held' = <<>>
  /\ UNCHANGED <<outside, rows, money>>

Sync ==
  \/ Fetch \/ ApplyAllegro \/ ApplyWoo \/ BeginTracking \/ EndTracking
  \/ ListDelivered \/ Restock \/ Expire

-----------------------------------------------------------------------------
(* The webhooks of WooCommerce, which may come again.                      *)

Withdrawal == \E c \in DOMAIN claims :
  /\ platform = "woo" /\ Served /\ Recorded(c, "pending", FALSE)
  /\ UNCHANGED <<outside, sync, money>>

(* the shop shows a refund that this order's return has not *)
Reconcile ==
  /\ platform = "woo" /\ \E i \in Rows : paid[i] > 0
  /\ \E i \in DOMAIN rows : ~rows[i].refund /\ rows' = Settled(i)
  /\ UNCHANGED <<outside, sync, money, bounds>>

-----------------------------------------------------------------------------
(* The order's page.  It works on the first() return of the order that the *)
(* database comes upon: any.                                               *)

Manual == \E status \in {"pending", "in_transit"}, known \in BOOLEAN :
  /\ \A i \in DOMAIN rows : rows[i].status = "cancelled"
  /\ Served /\ Recorded(0, status, known)
  /\ UNCHANGED <<outside, sync, money>>

MarkDelivered == \E i \in DOMAIN rows :
  /\ rows[i].status \notin {"delivered", "completed", "not_collected"}
  /\ Served /\ rows' = [rows EXCEPT ![i].status = "delivered"]
  /\ UNCHANGED <<outside, sync, money>>

(* it is taken for delivered also when its items lead nowhere *)
RestoreStock == \E i \in DOMAIN rows :
  /\ ~rows[i].stock /\ rows[i].status # "cancelled" /\ Served
  /\ rows' = [rows EXCEPT ![i].stock = Leads(rows[i]),
       ![i].status = IF @ \in {"pending", "in_transit"} THEN "delivered" ELSE @]
  /\ UNCHANGED <<outside, sync, money>>

(* the buyer, on the page of instructions: a code of InPost's *)
ChooseInpost == \E i \in DOMAIN rows :
  /\ rows[i].woo # 0 /\ ~rows[i].parcel /\ Served
  /\ rows' = [rows EXCEPT ![i].parcel = TRUE]
  /\ UNCHANGED <<outside, sync, money>>

RefundableAlways(i) == i \in DOMAIN rows
Refundable(i) ==
  /\ i \in DOMAIN rows /\ ~rows[i].refund
  /\ rows[i].status \in {"delivered", "in_transit", "not_collected", "completed"}

(* A payment makes out of date what the other requests have read of its    *)
(* return.                                                                 *)
Overlaps(s, i) == \E t \in Pages \ {s} : pc[t] = "paid" /\ of[t] = i
After(s, i, then) == [t \in Pages |-> CASE t = s -> then
                                         [] t # s /\ pc[t] = "paying" /\ of[t] = i -> "late"
                                         [] OTHER -> pc[t]]
Slip(i, bad) == slips' = IF bad THEN [slips EXCEPT ![i] = @ + 1] ELSE slips
Pays(i) == paid' = [paid EXCEPT ![i] = @ + 1]
Leaves(s) == of' = [of EXCEPT ![s] = 0]

BankTransfer(s) == \E i \in DOMAIN rows :
  /\ pc[s] = "idle" /\ Refundable(i) /\ Served
  /\ rows' = Settled(i) /\ Pays(i) /\ Slip(i, Overlaps(s, i)) /\ pc' = After(s, i, "idle")
  /\ UNCHANGED <<outside, sync, of>>

BeginRefund(s) == \E i \in DOMAIN rows :
  /\ pc[s] = "idle" /\ Refundable(i) /\ Served /\ of' = [of EXCEPT ![s] = i]
  /\ pc' = [pc EXCEPT ![s] = IF Overlaps(s, i) THEN "late" ELSE "paying"]
  /\ UNCHANGED <<outside, rows, sync, paid, slips>>

(* Allegro pays for a customer return it shows as delivered, or for any    *)
(* other return: a manual one, or one whose goods are back in stock.       *)
Override(row) == row.stock /\ row.status \in {"delivered", "not_collected", "completed"}
Accepted(row) == row.allegro # 0 /\ ~Override(row) => claims[row.allegro] = "delivered"

Begun(s) == pc[s] \in {"paying", "late"}

Pay(s) ==
  /\ Begun(s) /\ Accepted(rows[of[s]]) /\ Pays(of[s])
  /\ \/ /\ pc' = After(s, of[s], "paid") /\ Slip(of[s], pc[s] = "late")
        /\ UNCHANGED <<of, bounds>>
     \/ pc' = After(s, of[s], "idle") /\ Leaves(s) /\ Slip(of[s], TRUE) /\ Fault
  /\ UNCHANGED <<outside, rows, sync>>

PayFails(s) ==
  /\ Begun(s) /\ pc' = [pc EXCEPT ![s] = "idle"] /\ Leaves(s)
  /\ \/ ~Accepted(rows[of[s]]) /\ UNCHANGED bounds
     \/ Fault
  /\ UNCHANGED <<outside, rows, sync, paid, slips>>

Record(s) ==
  /\ pc[s] = "paid" /\ rows' = Settled(of[s]) /\ pc' = [pc EXCEPT ![s] = "idle"] /\ Leaves(s)
  /\ UNCHANGED <<outside, sync, paid, slips, bounds>>

Killed(s) ==
  /\ pc[s] # "idle" /\ Fault /\ pc' = [pc EXCEPT ![s] = "idle"] /\ Leaves(s)
  /\ Slip(of[s], pc[s] = "paid")
  /\ UNCHANGED <<outside, rows, sync, paid>>

Next ==
  \/ Announce \/ Carry \/ NotCollected
  \/ \E c \in DOMAIN claims : Advance(c)
  \/ \E i \in DOMAIN rows : Age(i)
  \/ Sync \/ Restarted \/ Withdrawal \/ Reconcile
  \/ Manual \/ MarkDelivered \/ RestoreStock \/ ChooseInpost
  \/ \E s \in Pages : \/ BankTransfer(s) \/ BeginRefund(s) \/ Pay(s) \/ PayFails(s)
                      \/ Record(s) \/ Killed(s)

Spec == Init /\ [][Next]_vars

(* the scheduler's cycle comes again and again *)
FairSpec == Spec /\ WF_vars(Sync)

-----------------------------------------------------------------------------
(* The buyer gets the money of a return twice only if a payment's answer   *)
(* or record was lost, or two payments for it overlapped.                  *)
MoneyBackOnce == \A i \in Rows : paid[i] <= 1 + slips[i]

(* No return of the platform is recorded twice.                            *)
OneRowPerClaim == \A i, j \in DOMAIN rows : i # j =>
  /\ rows[i].allegro # 0 => rows[i].allegro # rows[j].allegro
  /\ rows[i].woo # 0 => rows[i].woo # rows[j].woo

(* A settled return is opened again only by the platform's own news of it, *)
(* or by a tracking that had begun before it was settled.                  *)
SettledStays == [][\A i \in DOMAIN rows :
  rows[i].refund /\ rows[i].status = "completed" /\ rows'[i].status # "completed" =>
    \/ stage = "fetched" /\ rows[i].allegro \in DOMAIN page
    \/ stage = "held" /\ i \in DOMAIN held /\ held[i] \in {"pending", "in_transit"}
    \/ platform = "woo" /\ (Withdrawal \/ page' # page)
    \/ unclaimed' # unclaimed]_vars

(* The goods come back to stock if the items of their return lead to a     *)
(* product: those of a return that Allegro shows as delivered, whatever    *)
(* became of it here in the meantime, and of any other whose parcel is     *)
(* here, unless it was settled or withdrawn before.                        *)
Landed(c) == /\ platform = "allegro" /\ "allegro" \in leads
             /\ c \in DOMAIN claims /\ claims[c] = "delivered"
Waits == \E i \in DOMAIN rows :  \* of the order's only row that is not of a claim
  /\ parcel = "here" /\ "other" \in leads /\ rows[i].allegro = 0 /\ rows[i].parcel
  /\ ~rows[i].stock /\ rows[i].status \notin {"completed", "cancelled"}

GoodsComeBack ==
  /\ \A c \in 1..MaxClaims["allegro"] :
       Landed(c) ~> (~Landed(c) \/ \E i \in DOMAIN rows : rows[i].allegro = c /\ rows[i].stock)
  /\ Waits ~> ~Waits
=============================================================================
