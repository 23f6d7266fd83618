----------------------------- MODULE Fulfilment -----------------------------
(***************************************************************************)
(* What the printing agent promises to the warehouse, without queues,      *)
(* statuses, phases or memory: labels come out, stock is sold and things   *)
(* fail.  A label may come out again only on the account of a failure, and *)
(* stock is sold only against a complete set of labels not yet used.       *)
(***************************************************************************)
EXTENDS Naturals

CONSTANTS Orders, Labels, Items, MaxFaults

VARIABLES paper, sales, faults

Init ==
  /\ paper = [o \in Orders |-> [l \in Labels |-> 0]]
  /\ sales = [o \in Orders |-> [i \in Items |-> 0]]
  /\ faults = 0

Copy(o, l) ==
  /\ paper[o][l] <= faults
  /\ paper' = [paper EXCEPT ![o][l] = @ + 1] /\ UNCHANGED <<sales, faults>>

Sell(o, i) ==
  /\ \A l \in Labels : sales[o][i] < paper[o][l]
  /\ sales' = [sales EXCEPT ![o][i] = @ + 1] /\ UNCHANGED <<paper, faults>>

Fail == faults < MaxFaults /\ faults' = faults + 1 /\ UNCHANGED <<paper, sales>>

Next == \/ \E o \in Orders : (\E l \in Labels : Copy(o, l)) \/ (\E i \in Items : Sell(o, i))
        \/ Fail

Spec == Init /\ [][Next]_<<paper, sales, faults>>
=============================================================================
