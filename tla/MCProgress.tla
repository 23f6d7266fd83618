----------------------------- MODULE MCProgress -----------------------------
(* What has to happen in the end, in one TLC instance for the transport of one order
   (OrderStatus), with what keeps it from being shown, and for the goods of its returns
   (Returns).  The two share nothing here: which goes on is chosen at the start. *)
EXTENDS OrderStatus, TLC

CONSTANTS o1, w1,  \* an order, a request
          p1, p2, Pages, MaxRequests, MaxFailures
VARIABLES part,
          platform, claims, carried, unclaimed, leads, rows, stage, page, held, request, of,
          paid, slips, requests, failures

Short == {<<None, "wyslano">>, <<"wyslano", "dostarczono">>}
Transport == {"print", "track", "parcels", "error", "unpaid", "returned", "expire",
              "edit", "reprint", "return"}
(* WooCommerce adds a row or reuses one: two withdrawals; Allegro: one. *)
Claims == [allegro |-> 1, woo |-> 2]

R == INSTANCE Returns WITH pc <- request, parcel <- carried, MaxClaims <- Claims,
                           faults <- failures, MaxFaults <- MaxFailures

transport == <<part, vars>>
returns == <<platform, claims, carried, unclaimed, leads, rows, stage, page, held, request, of,
             paid, slips, requests, failures>>
all == <<transport, returns>>

InitBoth ==
  /\ part \in {"transport", "returns"} /\ Init /\ R!Init
  /\ Cardinality(leads) = 1 /\ (platform = "woo" => leads = {"other"})
  /\ part = "transport" => platform = "woo"
  /\ part = "returns" => \A o \in Orders : form[o] = "PAID"
(* no session on the order's status is killed here, MCOrders kills one *)
NextBoth ==
  \/ part = "transport" /\ Next /\ UNCHANGED <<part, faults, returns>>
  \/ part = "returns" /\ R!Next /\ UNCHANGED transport

Parcels == part = "transport" /\ BeginParcels /\ UNCHANGED <<part, returns>>
Working(s) == part = "transport" /\ SessionStep(s) /\ UNCHANGED <<part, returns>>
Synchronise == part = "returns" /\ R!Sync /\ UNCHANGED transport
(* the fairness of OrderStatus and of Returns *)
FairBoth ==
  /\ InitBoth /\ [][NextBoth]_all
  /\ SF_all(Parcels) /\ \A s \in Sessions : WF_all(Working(s))
  /\ WF_all(Synchronise)

(* The goods of a return that has arrived come back to stock, if its items lead to
   a product. *)
GoodsComeBack == [](part = "returns") => R!GoodsComeBack
=============================================================================
