----------------------------- MODULE Shipments -----------------------------
(***************************************************************************)
(* The shipments of the orders: how the agent orders them at the carrier,  *)
(* remembers them in agent_state and prints their labels, for Allegro      *)
(* (Shipment Management, an asynchronous command) and for WooCommerce      *)
(* (InPost ShipX, whose shipment is remembered before it is waited for).   *)
(* The pages that print a label again go the same way; those that the      *)
(* agent's own process serves share last_order_data with it.               *)
(*                                                                         *)
(* Printing itself, the queue and the stock are PrintAgent's: a label that *)
(* was fetched is printed and marked here in one step.                     *)
(***************************************************************************)
EXTENDS Integers, Sequences, FiniteSets

CONSTANTS
  Allegro, Woo,     \* the orders of the two platforms
  Agent, Pages,     \* the agent's thread; requests for a label again
  None,
  MaxErrors,        \* max_print_error_retries
  MaxFaults,        \* bound: calls that fail or time out, kills
  MaxPages          \* bound: requests that are served

Orders == Allegro \cup Woo
Sessions == {Agent} \cup Pages

(* a tracking number: the carrier's waybill of a shipment, or its bare id *)
Waybill(n) == <<"waybill", n>>
BareId(n) == <<"id", n>>
Numbers == {"waybill", "id"} \X Nat

ASSUME OrdersAssumption == Allegro \cap Woo = {} /\ None \notin Orders \cup Numbers
ASSUME SessionsAssumption == Agent \notin Pages
ASSUME BoundsAssumption == MaxErrors \in Nat /\ MaxFaults \in Nat /\ MaxPages \in Nat

VARIABLES
  made,      \* the shipments at the carriers, by id
  stored,    \* agent_state: the shipment remembered for an order, 0 for none
  number,    \* Order.delivery_package_nr
  status, errors,  \* the newest status of an order, its rows of blad_druku
  paper,     \* the shipments whose label was printed
  pc,        \* what a session does next
  cur,       \* for which order
  sid,       \* the shipment it has in hand, 0 for none
  again,     \* whether that one replaces an expired shipment
  numbers,   \* the tracking numbers it has collected
  memory,    \* last_order_data of the agent's process: the order it is of
  slips,     \* history: failures that hit an order without a remembered shipment
  faults, pages

db == <<stored, number, status, errors>>
work == <<pc, cur, sid, again, numbers>>
vars == <<made, db, paper, work, memory, slips, faults, pages>>

Shipment == [order : Orders, to : Orders,
             state : {"creating", "bought", "ready", "refused", "expired", "cancelled"}]

TypeOK ==
  /\ made \in Seq(Shipment)
  /\ stored \in [Orders -> 0..Len(made)]
  /\ number \in [Orders -> Numbers \cup {None}]
  /\ status \in [Orders -> {"pobrano", "blad_druku", "wydrukowano"}]
  /\ errors \in [Orders -> Nat] /\ paper \subseteq DOMAIN made
  /\ pc \in [Sessions -> {"idle", "details", "order", "wait", "waybill", "save", "label",
                          "replace", "print"}]
  /\ cur \in [Sessions -> Orders \cup {None}] /\ sid \in [Sessions -> 0..Len(made)]
  /\ again \in [Sessions -> BOOLEAN]
  /\ numbers \in [Sessions -> Seq(Numbers)]
  /\ memory \in Orders \cup {None}
  /\ slips \in [Orders -> 0..faults]
  /\ faults \in 0..MaxFaults /\ pages \in 0..MaxPages

Init ==
  /\ made = <<>> /\ stored = [o \in Orders |-> 0] /\ number = [o \in Orders |-> None]
  /\ status = [o \in Orders |-> "pobrano"] /\ errors = [o \in Orders |-> 0] /\ paper = {}
  /\ pc = [s \in Sessions |-> "idle"] /\ cur = [s \in Sessions |-> None]
  /\ sid = [s \in Sessions |-> 0] /\ again = [s \in Sessions |-> FALSE]
  /\ numbers = [s \in Sessions |-> <<>>] /\ memory = None
  /\ slips = [o \in Orders |-> 0] /\ faults = 0 /\ pages = 0

-----------------------------------------------------------------------------
(* The carriers.                                                           *)

Becomes(n, from, to) ==
  /\ made[n].state = from /\ made' = [made EXCEPT ![n].state = to]
  /\ UNCHANGED <<db, paper, work, memory, slips>>

(* InPost confirms a shipment when its offer was bought *)
Confirm(n) ==
  /\ Becomes(n, IF made[n].order \in Woo THEN "bought" ELSE "creating", "ready")
  /\ UNCHANGED <<faults, pages>>
Refuse(n) ==
  /\ made[n].order \in Allegro /\ Becomes(n, "creating", "refused")
  /\ faults < MaxFaults /\ faults' = faults + 1 /\ UNCHANGED pages
Expire(n) ==
  /\ made[n].order \in Allegro /\ Becomes(n, "ready", "expired")
  /\ faults < MaxFaults /\ faults' = faults + 1 /\ UNCHANGED pages

-----------------------------------------------------------------------------
(* A session takes an order.                                               *)

(* a remembered shipment is looked up; InPost's label is fetched at once *)
NumbersNewest(s, o) ==
  IF stored[o] = 0 \/ o \in Allegro THEN <<>> ELSE <<BareId(Len(made))>>
NumbersFirst(s, o) ==
  IF stored[o] = 0 \/ o \in Allegro THEN <<>>
  ELSE << IF number[o] # None THEN number[o] ELSE BareId(stored[o]) >>

(* The tracking numbers are the agent's, a page does not use its own. *)
Collects(s, ns) == numbers' = IF s = Agent THEN [numbers EXCEPT ![s] = ns] ELSE numbers

Start(s, o) ==
  /\ pc[s] = "idle" /\ cur' = [cur EXCEPT ![s] = o]
  /\ pc' = [pc EXCEPT ![s] = IF stored[o] = 0 THEN "order"
                             ELSE IF o \in Allegro THEN "details" ELSE "label"]
  /\ sid' = [sid EXCEPT ![s] = stored[o]] /\ again' = [again EXCEPT ![s] = FALSE]
  /\ Collects(s, NumbersFirst(s, o))
  /\ UNCHANGED <<made, db, paper, slips, faults>>

Printable(o) ==
  /\ number[o] = None /\ status[o] \in {"pobrano", "blad_druku"}
  /\ status[o] = "blad_druku" => errors[o] < MaxErrors

Take(o) == Printable(o) /\ Start(Agent, o) /\ memory' = o /\ UNCHANGED pages

Reprint(s) == \E o \in Orders :
  /\ pages < MaxPages /\ pages' = pages + 1 /\ Start(s, o) /\ UNCHANGED memory

-----------------------------------------------------------------------------
(* How a session ends.                                                     *)

Leave(s) == /\ pc' = [pc EXCEPT ![s] = "idle"] /\ cur' = [cur EXCEPT ![s] = None]
            /\ sid' = [sid EXCEPT ![s] = 0] /\ again' = [again EXCEPT ![s] = FALSE]
            /\ numbers' = [numbers EXCEPT ![s] = <<>>]

(* The agent got no label of an Allegro order: blad_druku, unless that is  *)
(* the newest status already.  Of a WooCommerce order the error is raised  *)
(* further up and no status is written; a page only shows a message.       *)
NoLabel(s) ==
  LET o == cur[s] IN
  /\ IF s = Agent /\ o \in Allegro
     THEN /\ status' = [status EXCEPT ![o] = "blad_druku"]
          /\ errors' = IF status[o] = "blad_druku" THEN errors ELSE [errors EXCEPT ![o] = @ + 1]
     ELSE UNCHANGED <<status, errors>>
  /\ Leave(s) /\ UNCHANGED <<number, paper, memory, pages>>

Fault == faults < MaxFaults /\ faults' = faults + 1

(* a failure before the shipment in hand, if any, is the remembered one *)
Slips(s) == slips' = IF stored[cur[s]] = 0 \/ stored[cur[s]] # sid[s]
                     THEN [slips EXCEPT ![cur[s]] = @ + 1] ELSE slips

Killed(s) ==
  /\ pc[s] # "idle" /\ Fault /\ Slips(s) /\ Leave(s)
  /\ memory' = IF s = Agent THEN None ELSE memory
  /\ UNCHANGED <<made, db, paper, pages>>

-----------------------------------------------------------------------------
(* The steps of a session.                                                 *)

Goes(s, where) == pc' = [pc EXCEPT ![s] = where]

(* the remembered shipment; Allegro may not know its waybill yet *)
Details(s) == \E known \in BOOLEAN :
  /\ pc[s] = "details" /\ Goes(s, "label")
  /\ Collects(s, IF known THEN <<Waybill(sid[s])>> ELSE <<>>)
  /\ UNCHANGED <<made, db, paper, cur, sid, again, memory, slips, faults, pages>>

(* any error of that call, a time-out too, deletes the mapping *)
DetailsFail(s) ==
  /\ pc[s] = "details" /\ Fault /\ Goes(s, "order")
  /\ stored' = [stored EXCEPT ![cur[s]] = 0] /\ sid' = [sid EXCEPT ![s] = 0]
  /\ slips' = [slips EXCEPT ![cur[s]] = @ + 1]
  /\ UNCHANGED <<made, number, status, errors, paper, cur, again, numbers, memory, pages>>

(* The order's data are last_order_data's.  For Allegro they must be of    *)
(* this order; for WooCommerce they only must be somebody's.  A page of    *)
(* another process than the agent's never has any.                         *)
MayOrder(s) == IF cur[s] \in Allegro THEN memory = cur[s] ELSE memory # None

Placed(s) == Append(made, [order |-> cur[s], to |-> memory, state |-> "creating"])

OrderShipment(s) ==
  /\ pc[s] = "order" /\ MayOrder(s)
  /\ made' = Placed(s) /\ sid' = [sid EXCEPT ![s] = Len(made) + 1]
  /\ Goes(s, IF cur[s] \in Allegro THEN "wait" ELSE "save")
  /\ UNCHANGED <<db, paper, cur, again, numbers, memory, slips, faults, pages>>

(* The call fails, whether the carrier got it or not, or a page does not   *)
(* have the data.                                                          *)
OrderFails(s) ==
  /\ pc[s] = "order"
  /\ \/ Fault /\ Slips(s) /\ UNCHANGED made
     \/ Fault /\ Slips(s) /\ MayOrder(s) /\ made' = Placed(s)
     \/ s # Agent /\ UNCHANGED <<made, slips, faults>>
  /\ NoLabel(s) /\ UNCHANGED stored

(* Allegro's command is polled for thirty seconds, InPost's shipment for    *)
(* twenty.  That loop buys the offer it finds: nobody else ever does, for  *)
(* the next try of the order finds a remembered shipment.                  *)
Buy(s) ==
  /\ pc[s] = "wait" /\ cur[s] \in Woo /\ made[sid[s]].state = "creating"
  /\ made' = [made EXCEPT ![sid[s]].state = "bought"]
  /\ UNCHANGED <<db, paper, work, memory, slips, faults, pages>>

(* an error of any call of that loop is raised, whatever InPost did *)
BuyFails(s) ==
  /\ pc[s] = "wait" /\ cur[s] \in Woo /\ Fault
  /\ \/ UNCHANGED made
     \/ made[sid[s]].state = "creating" /\ made' = [made EXCEPT ![sid[s]].state = "bought"]
  /\ NoLabel(s) /\ UNCHANGED <<stored, slips>>

(* the number, or, while InPost has none, the bare id for a waybill *)
InPostNumber(s) == \E x \in {Waybill(sid[s]), BareId(sid[s])} : Collects(s, <<x>>)

Wait(s) ==
  /\ pc[s] = "wait" /\ made[sid[s]].state \notin {"creating", "bought", "refused"}
  /\ IF cur[s] \in Allegro THEN Goes(s, "waybill") /\ UNCHANGED numbers
     ELSE Goes(s, "label") /\ InPostNumber(s)
  /\ UNCHANGED <<made, db, paper, cur, sid, again, memory, slips, faults, pages>>

WaitFails(s) ==
  /\ pc[s] = "wait"
  /\ IF cur[s] \in Woo
     THEN /\ made[sid[s]].state \in {"creating", "bought"} /\ Fault
          /\ Goes(s, "label") /\ InPostNumber(s)
          /\ UNCHANGED <<db, paper, cur, sid, again, memory, slips, pages>>
     ELSE /\ \/ made[sid[s]].state = "creating" /\ Fault /\ Slips(s)
             \/ made[sid[s]].state = "refused" /\ UNCHANGED <<slips, faults>>
          /\ NoLabel(s) /\ UNCHANGED stored
  /\ UNCHANGED made

(* the details of the new shipment; an error leaves it without a number *)
LoadWaybills(s) ==
  /\ pc[s] = "waybill" /\ Goes(s, "save")
  /\ \/ Collects(s, Append(numbers[s], Waybill(sid[s]))) /\ UNCHANGED faults
     \/ Fault /\ UNCHANGED numbers
  /\ UNCHANGED <<made, db, paper, cur, sid, again, memory, slips, pages>>

RememberedOnce(s) == IF stored[cur[s]] = 0 THEN [stored EXCEPT ![cur[s]] = sid[s]] ELSE stored
RememberedNothing(s) == stored
Remembered(s) == [stored EXCEPT ![cur[s]] = sid[s]]

Save(s) ==
  /\ pc[s] = "save" /\ stored' = Remembered(s)
  /\ Goes(s, IF cur[s] \in Allegro THEN "label" ELSE "wait")
  /\ UNCHANGED <<made, number, status, errors, paper, cur, sid, again, numbers, memory, slips, faults, pages>>

Expired(n) == made[n].state \in {"expired", "cancelled"}

(* A page asks Allegro for the label, whoever the carrier is. *)
Prints(s) == s = Agent \/ cur[s] \in Allegro

Label(s) ==
  /\ pc[s] = "label" /\ Prints(s) /\ made[sid[s]].state = "ready" /\ Goes(s, "print")
  /\ UNCHANGED <<made, db, paper, cur, sid, again, numbers, memory, slips, faults, pages>>

(* 403: the agent replaces the shipment, once; a page gives up *)
ReplacesNothing(s) == FALSE
Replaces(s) == s = Agent /\ ~again[s]

LabelExpired(s) ==
  /\ pc[s] = "label" /\ Expired(sid[s])
  /\ IF Replaces(s)
     THEN Goes(s, "replace")
          /\ UNCHANGED <<db, paper, cur, sid, again, numbers, memory, pages>>
     ELSE NoLabel(s) /\ UNCHANGED stored
  /\ UNCHANGED <<made, slips, faults>>

LabelFails(s) ==
  /\ pc[s] = "label"
  /\ \/ Fault
     \/ made[sid[s]].state \in {"creating", "bought"} /\ UNCHANGED faults
     \/ ~Prints(s) /\ UNCHANGED faults
  /\ NoLabel(s) /\ UNCHANGED <<made, stored, slips>>

(* the old shipment is cancelled, if Allegro lets us; its number stays the *)
(* first of the tracking numbers                                           *)
Replace(s) ==
  /\ pc[s] = "replace" /\ Goes(s, "order") /\ again' = [again EXCEPT ![s] = TRUE]
  /\ \/ made' = [made EXCEPT ![sid[s]].state = "cancelled"] /\ UNCHANGED faults
     \/ Fault /\ UNCHANGED made
  /\ sid' = [sid EXCEPT ![s] = 0]
  /\ UNCHANGED <<db, paper, cur, numbers, memory, slips, pages>>

(* The first number collected becomes the order's, if there is one; a page *)
(* writes none.                                                            *)
FirstNumber(o, ns) == IF ns = <<>> THEN number[o] ELSE ns[1]

Finish(s) ==
  /\ pc[s] = "print" /\ paper' = paper \cup {sid[s]}
  /\ status' = [status EXCEPT ![cur[s]] = "wydrukowano"]
  /\ number' = IF s = Agent THEN [number EXCEPT ![cur[s]] = FirstNumber(cur[s], numbers[s])]
               ELSE number
  /\ Leave(s) /\ UNCHANGED <<made, stored, errors, memory, slips, faults, pages>>

Step(s) ==
  \/ Details(s) \/ DetailsFail(s) \/ OrderShipment(s) \/ OrderFails(s)
  \/ Buy(s) \/ BuyFails(s) \/ Wait(s) \/ WaitFails(s) \/ LoadWaybills(s) \/ Save(s)
  \/ Label(s) \/ LabelExpired(s) \/ LabelFails(s) \/ Replace(s) \/ Finish(s)

Next ==
  \/ \E n \in DOMAIN made : Confirm(n) \/ Refuse(n) \/ Expire(n)
  \/ \E o \in Orders : Take(o)
  \/ \E s \in Pages : Reprint(s)
  \/ \E s \in Sessions : Step(s) \/ Killed(s)

Spec == Init /\ [][Next]_vars

(* The loop comes back to every order, the carriers answer, and the agent, *)
(* unless it is killed, goes on; so does a page once it is asked for.      *)
FairSpec ==
  /\ Spec /\ \A o \in Orders : SF_vars(Take(o))
  /\ \A s \in Sessions : WF_vars(Step(s))
  /\ WF_vars(\E n \in DOMAIN made : Confirm(n))

-----------------------------------------------------------------------------
(* An order has a second shipment, bought or not, only after a failure that *)
(* hit it before its shipment was remembered, or a page that was served    *)
(* meanwhile: neither waits, labels nor expired shipments cost one.        *)
Live(o) == {n \in DOMAIN made : made[n].order = o /\ made[n].state \in {"creating", "bought", "ready"}}
ShipmentsPaid == \A o \in Orders : Cardinality(Live(o)) <= 1 + slips[o] + pages

(* The number an order is tracked by is its own, of a shipment that has    *)
(* its label on the parcel or of the expired one before it.                *)
TracksOwnParcel == \A o \in Orders, n \in DOMAIN made :
  number[o] \in {Waybill(n), BareId(n)} =>
    made[n].order = o /\ (n \in paper \/ Expired(n))

(* The shipment remembered for a printed order is the one on its parcel,   *)
(* unless a page has put another one in its place.                         *)
RememberedIsPrinted == \A o \in Orders :
  status[o] = "wydrukowano" /\ stored[o] # 0 /\ pages = 0 => stored[o] \in paper

(* The label of an order is addressed to its own buyer                      *)
(* (services/woo_inpost_labels.py:10).                                     *)
AddressedToBuyer == \A n \in DOMAIN made : made[n].to = made[n].order

(* Failures, expired shipments and forgotten ones delay a label, no more,  *)
(* but for one: an InPost shipment that was remembered and whose offer a   *)
(* failure or a kill kept from being bought is never bought, and its order *)
(* is tried for ever.                                                      *)
NeverBought(o) == faults > 0 /\ stored[o] # 0 /\ made[stored[o]].state = "creating"
OrdersGetLabels == \A o \in Orders :
  \/ <>(status[o] = "wydrukowano")
  \/ o \in Woo /\ <>[]NeverBought(o)
=============================================================================
