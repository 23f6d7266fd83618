----------------------------- MODULE MCReturns -----------------------------
(* One TLC instance for Stock and for Returns, which share nothing here: which
   of the two goes on is chosen at the start, and the other one keeps still. *)
EXTENDS Stock, TLC

CONSTANTS s1, s2, o1, o2, r1, r2, p1, p2,  \* sessions, orders, Returns, web requests
          Pages, MaxClaims, MaxRequests, MaxFaults
VARIABLES part,
          platform, claims, parcel, unclaimed, leads, rows, stage, page, held, request, of, paid,
          slips, requests, faults

BigAndSmall == o1 :> 2 @@ o2 :> 1
OneByOne == r1 :> [order |-> o1, n |-> 1] @@ r2 :> [order |-> o1, n |-> 1]
(* WooCommerce adds a row or reuses one: two withdrawals; Allegro: one. *)
Claims == [allegro |-> 1, woo |-> 2]

(* the checked properties are of safety *)
Symmetry == Permutations(Sessions) \cup Permutations(Pages)

R == INSTANCE Returns WITH pc <- request

returns == <<platform, claims, parcel, unclaimed, leads, rows, stage, page, held, request, of,
             paid, slips, requests, faults>>

InitBoth ==
  /\ part \in {"stock", "returns"} /\ Init /\ R!Init
  /\ part = "stock" => platform = "woo" /\ leads = {}
NextBoth ==
  \/ part = "stock" /\ Next /\ UNCHANGED <<part, returns>>
  \/ part = "returns" /\ R!Next /\ UNCHANGED <<part, vars>>

SpecBoth == InitBoth /\ [][NextBoth]_<<part, vars, returns>>

(* The buyer gets the money of a return twice only if a payment's answer or record
   was lost, or two payments for it overlapped. *)
MoneyBackOnce == R!MoneyBackOnce
(* No return of the platform is recorded twice. *)
OneRowPerClaim == R!OneRowPerClaim
(* A settled return is opened again only by the platform's own news of it, or by a
   tracking that had begun before it was settled. *)
SettledStays == R!SettledStays
=============================================================================
