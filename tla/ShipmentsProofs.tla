-------------------------- MODULE ShipmentsProofs --------------------------
(***************************************************************************)
(* The shipments for any number of orders, pages and failures: an order    *)
(* has one shipment to pay for unless a failure or a page came in between, *)
(* the number it is tracked by is that of its own parcel, and the shipment *)
(* remembered for a printed order is the one on the parcel.                *)
(***************************************************************************)
EXTENDS Shipments, FiniteSetTheorems, TLAPS

(***************************************************************************)
(* The inductive invariant.                                                *)
(***************************************************************************)
(* The shipment a session has in hand is not yet the remembered one. *)
Unsaved(s) == pc[s] \in {"waybill", "save"} \/ (pc[s] = "wait" /\ cur[s] \in Allegro)

(* what a session has in hand at each place, and that nobody else can know
   a shipment before it is remembered *)
InHand(s) ==
  /\ pc[s] = "idle" <=> cur[s] = None
  /\ pc[s] \in {"idle", "order"} <=> sid[s] = 0
  /\ sid[s] # 0 => made[sid[s]].order = cur[s]
  /\ s = Agent /\ pc[s] = "details" => numbers[s] = <<>>
  /\ pc[s] = "replace" => s = Agent /\ Expired(sid[s])
  /\ Unsaved(s) => stored[cur[s]] # sid[s] /\ \A t \in Sessions \ {s} : sid[t] # sid[s]

Control ==
  /\ \A s \in Sessions : InHand(s)
  /\ \A o \in Orders : stored[o] # 0 => made[stored[o]].order = o

(* x is the number of a shipment of o, according to m, that is good or had expired *)
NumberOf(x, o, good, m) == \E n \in DOMAIN m :
  /\ x \in {Waybill(n), BareId(n)} /\ m[n].order = o
  /\ n \in good \/ m[n].state \in {"expired", "cancelled"}

Given == \A o \in Orders : number[o] # None => NumberOf(number[o], o, paper, made)
Collected == \A i \in DOMAIN numbers[Agent] :
               NumberOf(numbers[Agent][i], cur[Agent], {sid[Agent]}, made)
NumberInv == Given /\ Collected

(* before any page was served *)
PrintInv ==
  /\ RememberedIsPrinted
  /\ pages = 0 =>
       /\ \A s \in Pages : pc[s] = "idle"
       /\ pc[Agent] # "idle" => status[cur[Agent]] # "wydrukowano"
       /\ pc[Agent] \notin {"idle", "order"} /\ ~Unsaved(Agent) =>
            stored[cur[Agent]] = sid[Agent]

(* The shipments of o that cost, or will once the page that has one in hand has
   remembered it; and the pages that may still order one. *)
Fresh(o) == {sid[s] : s \in {q \in Pages : cur[q] = o /\ Unsaved(q)}}
Charged(o) == Live(o) \cup Fresh(o)
Asking(o) == {s \in Pages : cur[s] = o /\ pc[s] \in {"details", "order"}}

Bounded(U, P, b) ==
  IsFiniteSet(U) /\ IsFiniteSet(P) /\ Cardinality(U) + Cardinality(P) <= b
(* all of the charged shipments but x are accounted for *)
AllBut(o, x) == Bounded(Charged(o) \ {x}, Asking(o), slips[o] + pages)

(* While the agent works on an order, that is all but the one in its hand;
   unless it has one that it did not yet remember, all but the remembered one. *)
Account(o) ==
  /\ cur[Agent] = o => AllBut(o, sid[Agent])
  /\ ~(cur[Agent] = o /\ Unsaved(Agent)) => AllBut(o, stored[o])

IInv == TypeOK /\ Control /\ NumberInv /\ PrintInv /\ \A o \in Orders : Account(o)

-----------------------------------------------------------------------------
(***************************************************************************)
(* Counting.                                                               *)
(***************************************************************************)
LEMMA OneMore ==
  ASSUME NEW S, IsFiniteSet(S), NEW x
  PROVE  /\ IsFiniteSet(S \cup {x}) /\ Cardinality(S) \in Nat
         /\ Cardinality(S \cup {x}) \in Nat /\ Cardinality(S \cup {x}) <= Cardinality(S) + 1
<1>1. Cardinality(S) \in Nat
  BY FS_CardinalityType
<1>2. /\ IsFiniteSet(S \cup {x})
      /\ Cardinality(S \cup {x}) = IF x \in S THEN Cardinality(S) ELSE Cardinality(S) + 1
  BY FS_AddElement
<1> QED BY <1>1, <1>2

LEMMA BoundedLess ==
  ASSUME NEW U, NEW P, NEW b \in Nat, Bounded(U, P, b),
         NEW V, V \subseteq U, NEW Q, Q \subseteq P, NEW c \in Nat, b <= c
  PROVE  Bounded(V, Q, c)
<1>1. IsFiniteSet(V) /\ Cardinality(V) <= Cardinality(U)
  BY FS_Subset DEF Bounded
<1>2. IsFiniteSet(Q) /\ Cardinality(Q) <= Cardinality(P)
  BY FS_Subset DEF Bounded
<1>3. /\ Cardinality(U) \in Nat /\ Cardinality(P) \in Nat
      /\ Cardinality(V) \in Nat /\ Cardinality(Q) \in Nat
  BY <1>1, <1>2, FS_CardinalityType DEF Bounded
<1> QED BY <1>1, <1>2, <1>3 DEF Bounded

(* one shipment more, paid for by a failure *)
LEMMA BoundedMore ==
  ASSUME NEW U, NEW P, NEW b \in Nat, Bounded(U, P, b), NEW x,
         NEW V, V \subseteq U \cup {x}, NEW Q, Q \subseteq P, NEW c \in Nat, b + 1 <= c
  PROVE  Bounded(V, Q, c)
<1>1. IsFiniteSet(U \cup {x}) /\ Cardinality(U \cup {x}) <= Cardinality(U) + 1
  BY OneMore DEF Bounded
<1>2. Cardinality(U) \in Nat /\ Cardinality(P) \in Nat /\ Cardinality(U \cup {x}) \in Nat
  BY <1>1, FS_CardinalityType DEF Bounded
<1>3. Bounded(U \cup {x}, P, b + 1)
  BY <1>1, <1>2 DEF Bounded
<1> QED BY <1>3, BoundedLess

(* one shipment more, paid for by the page that asked for it *)
LEMMA BoundedSwap ==
  ASSUME NEW U, NEW P, NEW b \in Nat, Bounded(U, P, b), NEW x, NEW q \in P
  PROVE  Bounded(U \cup {x}, P \ {q}, b)
<1>1. IsFiniteSet(U \cup {x}) /\ Cardinality(U \cup {x}) <= Cardinality(U) + 1
  BY OneMore DEF Bounded
<1>2. IsFiniteSet(P \ {q}) /\ Cardinality(P \ {q}) = Cardinality(P) - 1
  BY FS_RemoveElement DEF Bounded
<1>3. /\ Cardinality(U) \in Nat /\ Cardinality(U \cup {x}) \in Nat
      /\ Cardinality(P) \in Nat /\ Cardinality(P \ {q}) \in Nat
  BY <1>1, <1>2, FS_CardinalityType DEF Bounded
<1> QED BY <1>1, <1>2, <1>3 DEF Bounded

(* one page more, which was counted *)
LEMMA BoundedAsk ==
  ASSUME NEW U, NEW P, NEW b \in Nat, Bounded(U, P, b), NEW q,
         NEW V, V \subseteq U, NEW Q, Q \subseteq P \cup {q}, NEW c \in Nat, b + 1 <= c
  PROVE  Bounded(V, Q, c)
<1>1. IsFiniteSet(P \cup {q}) /\ Cardinality(P \cup {q}) <= Cardinality(P) + 1
  BY OneMore DEF Bounded
<1>2. Cardinality(U) \in Nat /\ Cardinality(P) \in Nat /\ Cardinality(P \cup {q}) \in Nat
  BY <1>1, FS_CardinalityType DEF Bounded
<1>3. Bounded(U, P \cup {q}, b + 1)
  BY <1>1, <1>2 DEF Bounded
<1> QED BY <1>3, BoundedLess

(* another shipment is left out instead *)
LEMMA BoundedOther ==
  ASSUME NEW C, NEW P, NEW b \in Nat, NEW x, Bounded(C \ {x}, P, b), NEW y \in C,
         NEW V, V \subseteq C \ {y}, NEW Q, Q \subseteq P, NEW c \in Nat, b <= c
  PROVE  Bounded(V, Q, c)
<1>1. CASE x = y
  BY <1>1, BoundedLess
<1>2. CASE x # y
  <2> DEFINE R == (C \ {x}) \ {y}
  <2>1. IsFiniteSet(R) /\ Cardinality(R) = Cardinality(C \ {x}) - 1
    BY <1>2, FS_RemoveElement DEF Bounded
  <2>2. IsFiniteSet(R \cup {x}) /\ Cardinality(R \cup {x}) <= Cardinality(R) + 1
    BY <2>1, OneMore
  <2>3. /\ Cardinality(R) \in Nat /\ Cardinality(C \ {x}) \in Nat /\ Cardinality(P) \in Nat
        /\ Cardinality(R \cup {x}) \in Nat
    BY <2>1, <2>2, FS_CardinalityType DEF Bounded
  <2>4. Bounded(R \cup {x}, P, b)
    BY <2>1, <2>2, <2>3 DEF Bounded
  <2>5. V \subseteq R \cup {x}
    OBVIOUS
  <2> HIDE DEF R
  <2> QED BY <2>4, <2>5, BoundedLess
<1> QED BY <1>1, <1>2

-----------------------------------------------------------------------------
(***************************************************************************)
(* The shipments at the carriers.                                          *)
(***************************************************************************)
(* Shipments stay those of their orders, an expired one stays expired, and
   none comes back to life. *)
MadeKept ==
  /\ made' \in Seq(Shipment) /\ Len(made') >= Len(made)
  /\ \A n \in 1..Len(made) :
       /\ made'[n].order = made[n].order
       /\ made[n].state \in {"expired", "cancelled"} => made'[n].state \in {"expired", "cancelled"}
       /\ made'[n].state \in {"creating", "bought", "ready"} =>
            made[n].state \in {"creating", "bought", "ready"}

LEMMA MadeDomain == TypeOK => DOMAIN made = 1..Len(made) /\ Len(made) \in Nat
BY DEF TypeOK

LEMMA MadeSame == TypeOK /\ made' = made => MadeKept
BY DEF TypeOK, MadeKept, Shipment

(* A shipment changes its state. *)
LEMMA MadeChanged ==
  ASSUME TypeOK, NEW n \in DOMAIN made, NEW to,
         made' = [made EXCEPT ![n].state = to],
         \/ made[n].state = "creating" /\ to \in {"bought", "ready", "refused"}
         \/ made[n].state = "bought" /\ to = "ready"
         \/ made[n].state = "ready" /\ to = "expired"
         \/ made[n].state \in {"expired", "cancelled"} /\ to = "cancelled"
  PROVE  MadeKept /\ Len(made') = Len(made)
<1>1. made \in Seq(Shipment) /\ DOMAIN made = 1..Len(made) /\ Len(made) \in Nat
  BY DEF TypeOK
<1>2. made[n] \in Shipment
  BY <1>1
<1> DEFINE r == [made[n] EXCEPT !.state = to]
<1>3. r \in Shipment /\ r.order = made[n].order /\ r.state = to
  BY <1>2 DEF Shipment
<1>4. made' = [made EXCEPT ![n] = r]
  OBVIOUS
<1> HIDE DEF r
<1>5. made' \in Seq(Shipment) /\ Len(made') = Len(made)
  BY <1>1, <1>3, <1>4
<1>6. \A k \in 1..Len(made) : made'[k] = IF k = n THEN r ELSE made[k]
  BY <1>1, <1>4
<1> QED BY <1>1, <1>3, <1>5, <1>6 DEF MadeKept

(* A shipment is ordered. *)
LEMMA MadePlaced ==
  ASSUME TypeOK, NEW s, cur[s] \in Orders, memory \in Orders, made' = Placed(s)
  PROVE  /\ MadeKept /\ Len(made') = Len(made) + 1
         /\ made'[Len(made) + 1].order = cur[s]
<1> DEFINE r == [order |-> cur[s], to |-> memory, state |-> "creating"]
<1>1. r \in Shipment /\ r.order = cur[s]
  BY DEF Shipment
<1>2. made \in Seq(Shipment) /\ made' = Append(made, r)
  BY DEF TypeOK, Placed
<1> HIDE DEF r
<1>3. made' \in Seq(Shipment) /\ Len(made') = Len(made) + 1 /\ made'[Len(made) + 1] = r
  BY <1>1, <1>2
<1>4. \A k \in 1..Len(made) : made'[k] = made[k]
  BY <1>2
<1> QED BY <1>1, <1>2, <1>3, <1>4 DEF MadeKept

(* what an order of a shipment needs is there *)
LEMMA MayOrderOrders ==
  ASSUME TypeOK, NEW s \in Sessions, cur[s] \in Orders, MayOrder(s)
  PROVE  memory \in Orders
BY DEF TypeOK, MayOrder, Orders

(* Every step keeps the shipments. *)
LEMMA StepsKeepMade ==
  ASSUME TypeOK, Control, [Next]_vars
  PROVE  MadeKept
<1>1. CASE \E n \in DOMAIN made : Confirm(n) \/ Refuse(n) \/ Expire(n)
  BY <1>1, MadeChanged DEF Confirm, Refuse, Expire, Becomes
<1>2. CASE \E o \in Orders : Take(o)
  BY <1>2, MadeSame DEF Take, Start
<1>3. CASE \E s \in Pages : Reprint(s)
  BY <1>3, MadeSame DEF Reprint, Start
<1>4. ASSUME NEW s \in Sessions, Step(s) \/ Killed(s) PROVE MadeKept
  <2>1. CASE OrderShipment(s) \/ OrderFails(s)
    <3>1. cur[s] \in Orders
      BY <2>1 DEF OrderShipment, OrderFails, Control, InHand, TypeOK
    <3>2. made' = made \/ (made' = Placed(s) /\ MayOrder(s))
      BY <2>1 DEF OrderShipment, OrderFails
    <3> QED BY <3>1, <3>2, MadeSame, MadePlaced, MayOrderOrders
  <2>2. CASE Replace(s)
    <3>1. pc[s] = "replace" /\ sid[s] \in 0..Len(made) /\ sid[s] # 0 /\ Expired(sid[s])
      BY <2>2 DEF Replace, TypeOK, Control, InHand
    <3>2. sid[s] \in DOMAIN made
      BY <3>1, MadeDomain
    <3>3. made' = made \/ made' = [made EXCEPT ![sid[s]].state = "cancelled"]
      BY <2>2 DEF Replace
    <3> QED BY <3>1, <3>2, <3>3, MadeSame, MadeChanged DEF Expired
  <2>3. CASE Buy(s) \/ BuyFails(s)
    <3>1. sid[s] \in DOMAIN made
      <4>1. pc[s] = "wait" /\ sid[s] \in 0..Len(made)
        BY <2>3 DEF Buy, BuyFails, TypeOK
      <4>2. sid[s] # 0
        BY <1>4, <4>1 DEF Control, InHand
      <4> QED BY <4>1, <4>2, MadeDomain
    <3>2. \/ made' = made
          \/ made[sid[s]].state = "creating" /\ made' = [made EXCEPT ![sid[s]].state = "bought"]
      BY <2>3 DEF Buy, BuyFails
    <3> QED BY <3>1, <3>2, MadeSame, MadeChanged
  <2>4. CASE ~(OrderShipment(s) \/ OrderFails(s) \/ Replace(s) \/ Buy(s) \/ BuyFails(s))
    BY <1>4, <2>4, MadeSame DEF Step, Killed, Details, DetailsFail, Wait, WaitFails, LoadWaybills,
         Save, Label, LabelExpired, LabelFails, Finish
  <2> QED BY <2>1, <2>2, <2>3, <2>4
<1>5. CASE UNCHANGED vars
  BY <1>5, MadeSame DEF vars
<1> QED BY <1>1, <1>2, <1>3, <1>4, <1>5 DEF Next

-----------------------------------------------------------------------------
(***************************************************************************)
(* Types.                                                                  *)
(***************************************************************************)
Steps == {"idle", "details", "order", "wait", "waybill", "save", "label", "replace", "print"}

(* the sessions' variables, whatever became of the shipments *)
WorkOK ==
  /\ pc \in [Sessions -> Steps]
  /\ cur \in [Sessions -> Orders \cup {None}] /\ sid \in [Sessions -> 0..Len(made)]
  /\ again \in [Sessions -> BOOLEAN] /\ numbers \in [Sessions -> Seq(Numbers)]
DataOK ==
  /\ made \in Seq(Shipment) /\ paper \subseteq DOMAIN made
  /\ stored \in [Orders -> 0..Len(made)]
  /\ number \in [Orders -> Numbers \cup {None}]
  /\ status \in [Orders -> {"pobrano", "blad_druku", "wydrukowano"}]
  /\ errors \in [Orders -> Nat] /\ memory \in Orders \cup {None}
CountOK ==
  /\ slips \in [Orders -> 0..faults] /\ faults \in 0..MaxFaults /\ pages \in 0..MaxPages

LEMMA TypeParts == TypeOK <=> WorkOK /\ DataOK /\ CountOK
BY DEF TypeOK, WorkOK, DataOK, CountOK, Steps

LEMMA NumberTypes ==
  \A n \in Nat : Waybill(n) \in Numbers /\ BareId(n) \in Numbers
BY DEF Waybill, BareId, Numbers

(* A shipment that is there remains a shipment. *)
LEMMA MadeGrows ==
  ASSUME TypeOK, MadeKept
  PROVE  /\ 0..Len(made) \subseteq 0..Len(made') /\ DOMAIN made \subseteq DOMAIN made'
         /\ made' \in Seq(Shipment) /\ Len(made') \in Nat /\ Len(made) \in Nat
BY DEF MadeKept, TypeOK

(* g is f, or f with another value of T at x *)
Changed(f, g, x, T) == g = f \/ \E v \in T : g = [f EXCEPT ![x] = v]

LEMMA ChangedType ==
  ASSUME NEW S, NEW T, NEW U, T \subseteq U, NEW f \in [S -> T], NEW g, NEW x, Changed(f, g, x, U)
  PROVE  g \in [S -> U]
<1>1. CASE g = f
  BY <1>1
<1>2. ASSUME NEW v \in U, g = [f EXCEPT ![x] = v] PROVE g \in [S -> U]
  BY <1>2
<1> QED BY <1>1, <1>2 DEF Changed

(* A step changes the sessions' variables in one place. *)
LEMMA WorkChanged ==
  ASSUME WorkOK, 0..Len(made) \subseteq 0..Len(made'), NEW s,
         Changed(pc, pc', s, Steps), Changed(cur, cur', s, Orders \cup {None}),
         Changed(sid, sid', s, 0..Len(made')), Changed(again, again', s, BOOLEAN),
         Changed(numbers, numbers', s, Seq(Numbers))
  PROVE  WorkOK'
<1>1. pc' \in [Sessions -> Steps]
  BY ChangedType DEF WorkOK
<1>2. cur' \in [Sessions -> Orders \cup {None}]
  BY ChangedType DEF WorkOK
<1>3. sid' \in [Sessions -> 0..Len(made')]
  <2>1. sid \in [Sessions -> 0..Len(made)]
    BY DEF WorkOK
  <2> QED BY <2>1, ChangedType
<1>4. again' \in [Sessions -> BOOLEAN]
  BY ChangedType DEF WorkOK
<1>5. numbers' \in [Sessions -> Seq(Numbers)]
  BY ChangedType DEF WorkOK
<1> QED BY <1>1, <1>2, <1>3, <1>4, <1>5 DEF WorkOK

LEMMA CountSteps ==
  ASSUME IInv, [Next]_vars PROVE CountOK'
<1> USE DEF CountOK
<1>1. CountOK /\ MaxFaults \in Nat /\ MaxPages \in Nat /\ \A s \in Sessions : pc[s] # "idle" => cur[s] \in Orders
  BY TypeParts, BoundsAssumption DEF IInv, Control, InHand, TypeOK
<1>2. CASE \E n \in DOMAIN made : Confirm(n) \/ Refuse(n) \/ Expire(n)
  BY <1>1, <1>2 DEF Confirm, Refuse, Expire, Becomes
<1>3. CASE \E o \in Orders : Take(o)
  BY <1>1, <1>3 DEF Take, Start
<1>4. CASE \E s \in Pages : Reprint(s)
  BY <1>1, <1>4 DEF Reprint, Start
<1>5. ASSUME NEW s \in Sessions, Step(s) \/ Killed(s) PROVE CountOK'
  <2>1. /\ pages' = pages
        /\ \/ slips' = slips /\ (faults' = faults \/ Fault)
           \/ slips' = [slips EXCEPT ![cur[s]] = @ + 1] /\ Fault
    BY <1>5 DEF Step, Killed, Details, DetailsFail, OrderShipment, OrderFails, Buy, BuyFails, work, Wait, WaitFails,
         LoadWaybills, Save, Label, LabelExpired, LabelFails, Replace, Finish, NoLabel, Slips
  <2> QED BY <1>1, <2>1 DEF Fault
<1>6. CASE UNCHANGED vars
  BY <1>1, <1>6 DEF vars
<1> QED BY <1>2, <1>3, <1>4, <1>5, <1>6 DEF Next

LEMMA DataSteps ==
  ASSUME IInv, [Next]_vars PROVE DataOK'
<1> USE DEF DataOK
<1>1. DataOK /\ WorkOK
  BY TypeParts DEF IInv
<1>2. MadeKept
  BY StepsKeepMade DEF IInv
<1>3. /\ 0..Len(made) \subseteq 0..Len(made') /\ DOMAIN made \subseteq DOMAIN made'
      /\ made' \in Seq(Shipment)
  BY <1>2, MadeGrows DEF IInv
<1>4. CASE \E n \in DOMAIN made : Confirm(n) \/ Refuse(n) \/ Expire(n)
  BY <1>1, <1>3, <1>4 DEF Confirm, Refuse, Expire, Becomes, db
<1>5. CASE \E o \in Orders : Take(o)
  BY <1>1, <1>3, <1>5 DEF Take, Start, db
<1>6. CASE \E s \in Pages : Reprint(s)
  BY <1>1, <1>3, <1>6 DEF Reprint, Start, db
<1>7. ASSUME NEW s \in Sessions, Step(s) \/ Killed(s) PROVE DataOK'
  <2>1. pc[s] # "idle"
    BY <1>7 DEF Step, Killed, Details, DetailsFail, OrderShipment, OrderFails, Buy, BuyFails, work, Wait, WaitFails,
         LoadWaybills, Save, Label, LabelExpired, LabelFails, Replace, Finish
  <2>2. cur[s] \in Orders /\ sid[s] \in 0..Len(made)
    BY <1>1, <2>1 DEF WorkOK, IInv, Control, InHand
  <2>3. CASE Finish(s)
    <3>1. sid[s] \in DOMAIN made
      BY <2>2, <2>3, MadeDomain DEF IInv, Control, InHand, Finish
    <3>2. numbers[s] = <<>> \/ numbers[s][1] \in Numbers
      BY <1>1 DEF WorkOK
    <3>3. FirstNumber(cur[s], numbers[s]) \in Numbers \cup {None}
      BY <1>1, <2>2, <3>2 DEF FirstNumber
    <3>4. made' = made /\ stored' = stored /\ errors' = errors /\ memory' = memory
          /\ paper' = paper \cup {sid[s]} /\ status' = [status EXCEPT ![cur[s]] = "wydrukowano"]
          /\ (number' = number \/ number' = [number EXCEPT ![cur[s]] = FirstNumber(cur[s], numbers[s])])
      BY <2>3 DEF Finish
    <3> HIDE DEF FirstNumber
    <3> QED BY <1>1, <2>2, <3>1, <3>3, <3>4
  <2>4. CASE ~Finish(s)
    <3>1. /\ number' = number /\ paper' = paper /\ memory' \in {memory, None}
          /\ \/ stored' = stored
             \/ stored' = [stored EXCEPT ![cur[s]] = 0]
             \/ stored' = [stored EXCEPT ![cur[s]] = sid[s]]
          /\ \/ status' = status /\ errors' = errors
             \/ /\ status' = [status EXCEPT ![cur[s]] = "blad_druku"]
                /\ errors' = errors \/ errors' = [errors EXCEPT ![cur[s]] = @ + 1]
      BY <1>7, <2>4 DEF Step, Killed, Details, DetailsFail, OrderShipment, OrderFails, Buy, BuyFails, work, Wait, WaitFails,
           LoadWaybills, Save, Label, LabelExpired, LabelFails, Replace, NoLabel, db, Remembered
    <3>2. stored' \in [Orders -> 0..Len(made')]
      <4> DEFINE T == 0..Len(made')
      <4>1. stored \in [Orders -> 0..Len(made)] /\ 0 \in 0..Len(made)
        BY <1>1, <2>2
      <4>2. 0 \in T /\ sid[s] \in T /\ \A o \in Orders : stored[o] \in T
        BY <1>3, <2>2, <4>1
      <4> HIDE DEF T
      <4>3. stored' \in [Orders -> T]
        BY <3>1, <4>1, <4>2
      <4> QED BY <4>3 DEF T
    <3>3. status' \in [Orders -> {"pobrano", "blad_druku", "wydrukowano"}]
      BY <1>1, <2>2, <3>1
    <3>4. errors' \in [Orders -> Nat]
      BY <1>1, <2>2, <3>1
    <3> QED BY <1>1, <1>3, <3>1, <3>2, <3>3, <3>4
  <2> QED BY <2>3, <2>4
<1>8. CASE UNCHANGED vars
  BY <1>1, <1>8 DEF vars, db
<1> QED BY <1>4, <1>5, <1>6, <1>7, <1>8 DEF Next

LEMMA WorkSteps ==
  ASSUME IInv, [Next]_vars PROVE WorkOK'
<1>1. DataOK /\ WorkOK
  BY TypeParts DEF IInv
<1>2. MadeKept
  BY StepsKeepMade DEF IInv
<1>3. 0..Len(made) \subseteq 0..Len(made') /\ Len(made) \in Nat /\ Len(made') \in Nat
  BY <1>2, MadeGrows DEF IInv
<1>4. <<>> \in Seq(Numbers) /\ 0 \in 0..Len(made') /\ None \in Orders \cup {None}
  BY <1>3
<1>5. CASE \E n \in DOMAIN made : Confirm(n) \/ Refuse(n) \/ Expire(n)
  BY <1>1, <1>3, <1>5, WorkChanged DEF Confirm, Refuse, Expire, Becomes, work, Changed
<1>6. ASSUME NEW s \in Sessions, NEW o \in Orders, Start(s, o) PROVE WorkOK'
  <2>1. NumbersFirst(s, o) \in Seq(Numbers)
    BY <1>1, NumberTypes DEF NumbersFirst, DataOK
  <2>2. stored[o] \in 0..Len(made') /\ o \in Orders \cup {None}
    BY <1>1, <1>3 DEF DataOK
  <2>3. (IF stored[o] = 0 THEN "order" ELSE IF o \in Allegro THEN "details" ELSE "label") \in Steps
    BY DEF Steps
  <2>4. Changed(numbers, numbers', s, Seq(Numbers))
    BY <1>6, <2>1 DEF Start, Collects, Changed
  <2> QED BY <1>1, <1>3, <1>6, <2>2, <2>3, <2>4, WorkChanged DEF Start, Changed
<1>7. ASSUME NEW s \in Sessions, Step(s) \/ Killed(s) PROVE WorkOK'
  <2>1. sid[s] \in 0..Len(made) /\ sid[s] \in Nat /\ numbers[s] \in Seq(Numbers)
    BY <1>1, <1>3 DEF WorkOK
  <2>2. Waybill(sid[s]) \in Numbers /\ BareId(sid[s]) \in Numbers
    BY <2>1, NumberTypes
  <2>3. Changed(cur, cur', s, Orders \cup {None})
    BY <1>4, <1>7 DEF Step, Killed, Details, DetailsFail, OrderShipment, OrderFails, Buy, BuyFails, work, Wait, WaitFails,
         LoadWaybills, Save, Label, LabelExpired, LabelFails, Replace, Finish, NoLabel, Leave, Changed
  <2>4. Changed(again, again', s, BOOLEAN)
    BY <1>7 DEF Step, Killed, Details, DetailsFail, OrderShipment, OrderFails, Buy, BuyFails, work, Wait, WaitFails,
         LoadWaybills, Save, Label, LabelExpired, LabelFails, Replace, Finish, NoLabel, Leave, Changed
  <2>5. \E p \in Steps : pc' = [pc EXCEPT ![s] = p]
    <3>1. CASE Buy(s)
      <4>1. pc' = pc /\ pc[s] = "wait"
        BY <3>1 DEF Buy, work
      <4>2. pc' = [pc EXCEPT ![s] = "wait"]
        BY <1>1, <4>1 DEF WorkOK
      <4> QED BY <4>2 DEF Steps
    <3>2. CASE ~Buy(s)
      BY <1>7, <3>2 DEF Step, Killed, Details, DetailsFail, OrderShipment, OrderFails, BuyFails, Wait,
         WaitFails, LoadWaybills, Save, Label, LabelExpired, LabelFails, Replace, Finish, NoLabel, Leave,
         Goes, Steps
    <3> QED BY <3>1, <3>2
  <2>6. Changed(numbers, numbers', s, Seq(Numbers))
    <3>1. /\ <<Waybill(sid[s])>> \in Seq(Numbers) /\ <<BareId(sid[s])>> \in Seq(Numbers)
          /\ Append(numbers[s], Waybill(sid[s])) \in Seq(Numbers)
      BY <2>1, <2>2
    <3>2. \/ numbers' = numbers
          \/ numbers' = [numbers EXCEPT ![s] = <<>>]
          \/ numbers' = [numbers EXCEPT ![s] = <<Waybill(sid[s])>>]
          \/ numbers' = [numbers EXCEPT ![s] = <<BareId(sid[s])>>]
          \/ numbers' = [numbers EXCEPT ![s] = Append(numbers[s], Waybill(sid[s]))]
      <4>1. CASE Details(s)
        BY <4>1 DEF Details, Collects
      <4>2. CASE LoadWaybills(s)
        BY <4>2 DEF LoadWaybills, Collects
      <4>3. CASE Wait(s) \/ WaitFails(s)
        BY <4>3 DEF Wait, WaitFails, InPostNumber, Collects, NoLabel, Leave
      <4>4. CASE ~(Details(s) \/ LoadWaybills(s) \/ Wait(s) \/ WaitFails(s))
        BY <1>7, <4>4 DEF Step, Killed, DetailsFail, OrderShipment, OrderFails, Buy, BuyFails,
           work, Save, Label, LabelExpired, LabelFails, Replace, Finish, NoLabel, Leave
      <4> QED BY <4>1, <4>2, <4>3, <4>4
    <3> QED BY <1>4, <3>1, <3>2 DEF Changed
  <2>7. Changed(sid, sid', s, 0..Len(made'))
    <3>1. CASE OrderShipment(s)
      <4>1. Len(made') = Len(made) + 1
        BY <1>1, <3>1 DEF OrderShipment, Placed, DataOK
      <4>2. Len(made) + 1 \in 0..Len(made')
        BY <1>3, <4>1
      <4>3. sid' = [sid EXCEPT ![s] = Len(made) + 1]
        BY <3>1 DEF OrderShipment
      <4> QED BY <4>2, <4>3 DEF Changed
    <3>2. CASE ~OrderShipment(s)
      BY <1>4, <1>7, <3>2 DEF Step, Killed, Details, DetailsFail, OrderFails, Buy, BuyFails, work, Wait, WaitFails,
         LoadWaybills, Save, Label, LabelExpired, LabelFails, Replace, Finish, NoLabel, Leave, Changed
    <3> QED BY <3>1, <3>2
  <2> QED BY <1>1, <1>3, <2>3, <2>4, <2>5, <2>6, <2>7, WorkChanged DEF Changed
<1>8. CASE UNCHANGED vars
  BY <1>1, <1>8 DEF vars, work, WorkOK
<1> QED BY <1>5, <1>6, <1>7, <1>8 DEF Next, Take, Reprint, Sessions

LEMMA TypeSteps ==
  ASSUME IInv, [Next]_vars PROVE TypeOK'
BY CountSteps, DataSteps, WorkSteps DEF TypeOK, CountOK, DataOK, WorkOK, Steps

-----------------------------------------------------------------------------
(***************************************************************************)
(* What the sessions have in hand.                                         *)
(***************************************************************************)
(* A step of t changes nobody else's work; it forgets a remembered shipment
   or remembers its own; and it gets into its hand a new one, a remembered
   one or none. *)
Mine(t) ==
  /\ \A s \in Sessions \ {t} : /\ pc'[s] = pc[s] /\ cur'[s] = cur[s]
                               /\ sid'[s] = sid[s] /\ numbers'[s] = numbers[s]
  /\ \A o \in Orders : \/ stored'[o] \in {stored[o], 0}
                       \/ o = cur[t] /\ stored'[o] = sid[t] /\ sid[t] # 0
  /\ \/ sid'[t] \in {sid[t], 0, Len(made) + 1}
     \/ cur'[t] \in Orders /\ sid'[t] = stored[cur'[t]]

LEMMA StepsAreMine ==
  ASSUME TypeOK, Control, NEW s \in Sessions, Step(s) \/ Killed(s)
  PROVE  Mine(s) /\ pc[s] # "idle" /\ cur[s] \in Orders
<1>1. pc[s] # "idle" /\ cur[s] \in Orders
  BY DEF Step, Killed, Details, DetailsFail, OrderShipment, OrderFails, Buy, BuyFails, work, Wait, WaitFails, LoadWaybills,
       Save, Label, LabelExpired, LabelFails, Replace, Finish, Control, InHand, TypeOK
<1>2. \A t \in Sessions \ {s} : /\ pc'[t] = pc[t] /\ cur'[t] = cur[t]
                                /\ sid'[t] = sid[t] /\ numbers'[t] = numbers[t]
  <2>1. CASE Details(s) \/ DetailsFail(s) \/ OrderShipment(s) \/ OrderFails(s) \/ Wait(s)
             \/ WaitFails(s) \/ LoadWaybills(s)
    BY <2>1 DEF TypeOK, Details, DetailsFail, OrderShipment, OrderFails, Wait, WaitFails,
         LoadWaybills, NoLabel, Leave, Goes, InPostNumber, Collects
  <2>2. CASE Save(s) \/ Buy(s) \/ BuyFails(s) \/ Label(s) \/ LabelExpired(s) \/ LabelFails(s) \/ Replace(s) \/ Finish(s)
             \/ Killed(s)
    BY <2>2 DEF TypeOK, Killed, Save, Buy, BuyFails, Label, LabelExpired, LabelFails, Replace,
         Finish, NoLabel, Leave, Goes, work
  <2> QED BY <2>1, <2>2 DEF Step
<1>3. \A o \in Orders : \/ stored'[o] \in {stored[o], 0}
                        \/ o = cur[s] /\ stored'[o] = sid[s] /\ sid[s] # 0
  <2>1. \/ stored' = stored \/ stored' = [stored EXCEPT ![cur[s]] = 0]
        \/ stored' = [stored EXCEPT ![cur[s]] = sid[s]] /\ pc[s] = "save"
    BY DEF Step, Killed, Details, DetailsFail, OrderShipment, OrderFails, Buy, BuyFails, work, Wait, WaitFails,
       LoadWaybills, Save, Label, LabelExpired, LabelFails, Replace, Finish, db, Remembered
  <2>2. pc[s] = "save" => sid[s] # 0
    BY DEF Control, InHand
  <2>3. stored \in [Orders -> 0..Len(made)]
    BY DEF TypeOK
  <2> QED BY <1>1, <2>1, <2>2, <2>3
<1>4. sid'[s] \in {sid[s], 0, Len(made) + 1}
  BY DEF TypeOK, Step, Killed, Details, DetailsFail, OrderShipment, OrderFails, Buy, BuyFails, work, Wait, WaitFails,
       LoadWaybills, Save, Label, LabelExpired, LabelFails, Replace, Finish, NoLabel, Leave
<1> QED BY <1>1, <1>2, <1>3, <1>4 DEF Mine

LEMMA StartsAreMine ==
  ASSUME TypeOK, NEW s \in Sessions, NEW o \in Orders, Start(s, o)
  PROVE  Mine(s)
<1>1. /\ pc' = [pc EXCEPT ![s] = pc'[s]] /\ cur' = [cur EXCEPT ![s] = o]
      /\ sid' = [sid EXCEPT ![s] = stored[o]] /\ numbers' = [numbers EXCEPT ![s] = numbers'[s]]
      /\ stored' = stored
  BY DEF Start, Collects, TypeOK, db
<1> QED BY <1>1 DEF TypeOK, Mine

(* Who does not move keeps what he has in hand, to himself if it is unsaved. *)
LEMMA OthersInHand ==
  ASSUME TypeOK, Control, MadeKept, NEW t \in Sessions, Mine(t), NEW s \in Sessions \ {t}
  PROVE  InHand(s)'
<1>1. /\ pc'[s] = pc[s] /\ cur'[s] = cur[s] /\ sid'[s] = sid[s] /\ numbers'[s] = numbers[s]
  BY DEF Mine
<1>2. InHand(s) /\ sid[s] \in 0..Len(made) /\ Len(made) \in Nat
  BY DEF Control, TypeOK
<1>3. sid[s] # 0 => sid[s] \in 1..Len(made)
  BY <1>2
<1>4. sid[s] # 0 => made'[sid[s]].order = cur[s]
  BY <1>2, <1>3 DEF InHand, MadeKept
<1>5. pc[s] = "replace" => s = Agent /\ made'[sid[s]].state \in {"expired", "cancelled"}
  BY <1>2, <1>3 DEF InHand, MadeKept, Expired
<1>6. ASSUME Unsaved(s)
      PROVE  stored'[cur[s]] # sid[s] /\ \A u \in Sessions \ {s} : sid'[u] # sid[s]
  <2>1. /\ sid[s] # 0 /\ stored[cur[s]] # sid[s] /\ cur[s] \in Orders
        /\ \A u \in Sessions \ {s} : sid[u] # sid[s]
    BY <1>2, <1>6 DEF Unsaved, InHand, TypeOK
  <2>2. stored'[cur[s]] # sid[s]
    BY <2>1 DEF Mine
  <2>3. sid'[t] # sid[s]
    <3>1. ASSUME cur'[t] \in Orders, sid'[t] = stored[cur'[t]], sid'[t] = sid[s] PROVE FALSE
      <4>1. \A o \in Orders : stored[o] # 0 => made[stored[o]].order = o
        BY DEF Control
      <4>2. made[sid[s]].order = cur[s]
        BY <1>2, <2>1 DEF InHand
      <4>3. cur'[t] = cur[s]
        BY <2>1, <3>1, <4>1, <4>2
      <4> QED BY <2>1, <3>1, <4>3
    <3> QED BY <1>2, <2>1, <3>1 DEF Mine
  <2> QED BY <2>1, <2>2, <2>3 DEF Mine
<1>7. Unsaved(s)' => Unsaved(s)
  BY <1>1 DEF Unsaved
<1> QED BY <1>1, <1>2, <1>4, <1>5, <1>6, <1>7 DEF InHand, Expired

(* Remembered shipments are those of their orders. *)
LEMMA StoredStays ==
  ASSUME TypeOK, Control, MadeKept, NEW t \in Sessions, Mine(t), NEW o \in Orders, stored'[o] # 0
  PROVE  made'[stored'[o]].order = o
<1>1. /\ stored[o] \in 0..Len(made) /\ sid[t] \in 0..Len(made) /\ Len(made) \in Nat
  BY DEF TypeOK
<1>2. CASE stored'[o] = stored[o]
  BY <1>1, <1>2 DEF Control, MadeKept
<1>3. CASE o = cur[t] /\ stored'[o] = sid[t] /\ sid[t] # 0
  BY <1>1, <1>3 DEF Control, InHand, MadeKept
<1> QED BY <1>2, <1>3 DEF Mine

(* A session that has the shipment it had, and whose place is as saved as before. *)
LEMMA SameInHand ==
  ASSUME TypeOK, Control, MadeKept, NEW s \in Sessions, Mine(s),
         pc[s] \notin {"idle", "order"}, pc'[s] \notin {"idle", "order", "details"},
         cur'[s] = cur[s], sid'[s] = sid[s],
         pc'[s] = "replace" => s = Agent /\ Expired(sid[s]),
         Unsaved(s)' => Unsaved(s) /\ stored' = stored
  PROVE  InHand(s)'
<1>1. InHand(s) /\ sid[s] \in 0..Len(made) /\ Len(made) \in Nat
  BY DEF Control, TypeOK
<1>2. sid[s] \in 1..Len(made) /\ cur[s] # None
  BY <1>1 DEF InHand
<1>3. made'[sid[s]].order = cur[s]
  BY <1>1, <1>2 DEF InHand, MadeKept
<1>4. pc'[s] = "replace" => s = Agent /\ made'[sid[s]].state \in {"expired", "cancelled"}
  BY <1>2 DEF MadeKept, Expired
<1>5. Unsaved(s)' => stored'[cur[s]] # sid[s] /\ \A t \in Sessions \ {s} : sid'[t] # sid[s]
  BY <1>1 DEF InHand, Mine
<1> QED BY <1>2, <1>3, <1>4, <1>5 DEF InHand, Expired

(* a session that ends *)
LEMMA LeftInHand ==
  ASSUME TypeOK, NEW s \in Sessions, Leave(s) PROVE InHand(s)'
<1>1. /\ pc'[s] = "idle" /\ cur'[s] = None /\ sid'[s] = 0
  BY DEF Leave, TypeOK
<1> QED BY <1>1 DEF InHand, Unsaved

LEMMA MoverInHand ==
  ASSUME TypeOK, Control, MadeKept, NEW s \in Sessions, Step(s) \/ Killed(s), Mine(s)
  PROVE  InHand(s)'
<1>1. /\ pc \in [Sessions -> Steps] /\ cur \in [Sessions -> Orders \cup {None}]
      /\ sid \in [Sessions -> 0..Len(made)] /\ numbers \in [Sessions -> Seq(Numbers)]
      /\ stored \in [Orders -> 0..Len(made)] /\ Len(made) \in Nat
  BY DEF TypeOK, Steps
<1>2. InHand(s)
  BY DEF Control
<1>3. CASE Details(s)
  <2>1. pc[s] = "details" /\ pc'[s] = "label" /\ cur' = cur /\ sid' = sid
    BY <1>1, <1>3 DEF Details, Goes
  <2> QED BY <2>1, SameInHand DEF Unsaved
<1>4. CASE DetailsFail(s) \/ Replace(s)
  <2>1. /\ pc[s] \in {"details", "replace"} /\ pc'[s] = "order" /\ cur' = cur /\ sid'[s] = 0
    BY <1>1, <1>4 DEF DetailsFail, Replace, Goes
  <2> QED BY <1>2, <2>1 DEF InHand, Unsaved
<1>5. CASE OrderShipment(s)
  <2>1. /\ pc[s] = "order" /\ pc'[s] \in {"wait", "save"} /\ cur' = cur /\ stored' = stored
        /\ sid'[s] = Len(made) + 1
    BY <1>1, <1>5 DEF OrderShipment, Goes, db
  <2>2. cur[s] \in Orders /\ cur[s] # None
    BY <1>1, <1>2, <2>1 DEF InHand
  <2>3. memory \in Orders
    BY <1>5, <2>2, MayOrderOrders DEF OrderShipment
  <2>4. made'[Len(made) + 1].order = cur[s]
    BY <1>5, <2>2, <2>3, MadePlaced DEF OrderShipment
  <2>5. \A t \in Sessions \ {s} : sid'[t] # sid'[s]
    BY <1>1, <2>1 DEF Mine
  <2>6. stored'[cur[s]] # sid'[s]
    BY <1>1, <2>1, <2>2
  <2> QED BY <1>1, <2>1, <2>2, <2>4, <2>5, <2>6 DEF InHand
<1>6. CASE Wait(s)
  <2>1. /\ pc[s] = "wait" /\ cur' = cur /\ sid' = sid /\ stored' = stored
        /\ pc'[s] = IF cur[s] \in Allegro THEN "waybill" ELSE "label"
    BY <1>1, <1>6 DEF Buy, BuyFails, work, Wait, Goes, db
  <2> QED BY <2>1, SameInHand DEF Unsaved
<1>7. CASE WaitFails(s)
  <2>1. CASE cur[s] \in Woo
    <3>1. pc[s] = "wait" /\ pc'[s] = "label" /\ cur' = cur /\ sid' = sid
      BY <1>1, <1>7, <2>1 DEF WaitFails, Goes
    <3> QED BY <3>1, SameInHand DEF Unsaved
  <2>2. CASE cur[s] \notin Woo
    BY <1>7, <2>2, LeftInHand DEF WaitFails, NoLabel
  <2> QED BY <2>1, <2>2
<1>8. CASE LoadWaybills(s)
  <2>1. pc[s] = "waybill" /\ pc'[s] = "save" /\ cur' = cur /\ sid' = sid /\ stored' = stored
    BY <1>1, <1>8 DEF LoadWaybills, Goes, db
  <2> QED BY <2>1, SameInHand DEF Unsaved
<1>9. CASE Save(s)
  <2>1. /\ pc[s] = "save" /\ cur' = cur /\ sid' = sid
        /\ pc'[s] = IF cur[s] \in Allegro THEN "label" ELSE "wait"
    BY <1>1, <1>9 DEF Save, Goes
  <2> QED BY <2>1, SameInHand DEF Unsaved
<1>10. CASE Label(s)
  <2>1. pc[s] = "label" /\ pc'[s] = "print" /\ cur' = cur /\ sid' = sid
    BY <1>1, <1>10 DEF Label, Goes
  <2> QED BY <2>1, SameInHand DEF Unsaved
<1>11. CASE LabelExpired(s)
  <2>1. CASE Replaces(s)
    <3>1. /\ pc[s] = "label" /\ pc'[s] = "replace" /\ cur' = cur /\ sid' = sid
          /\ s = Agent /\ Expired(sid[s])
      BY <1>1, <1>11, <2>1 DEF LabelExpired, Goes, Replaces
    <3> QED BY <3>1, SameInHand DEF Unsaved
  <2>2. CASE ~Replaces(s)
    BY <1>11, <2>2, LeftInHand DEF LabelExpired, NoLabel
  <2> QED BY <2>1, <2>2
<1>12. CASE OrderFails(s) \/ BuyFails(s) \/ LabelFails(s) \/ Finish(s) \/ Killed(s)
  BY <1>12, LeftInHand DEF OrderFails, BuyFails, LabelFails, Finish, Killed, NoLabel
<1>13. CASE Buy(s)
  <2>1. pc[s] = "wait" /\ pc' = pc /\ cur' = cur /\ sid' = sid /\ stored' = stored
    BY <1>13 DEF Buy, db, work
  <2> QED BY <2>1, SameInHand DEF Unsaved
<1> QED BY <1>3, <1>4, <1>5, <1>6, <1>7, <1>8, <1>9, <1>10, <1>11, <1>12, <1>13 DEF Step

LEMMA StarterInHand ==
  ASSUME TypeOK, Control, NEW s \in Sessions, NEW o \in Orders, Start(s, o)
  PROVE  InHand(s)'
<1>1. /\ cur'[s] = o /\ sid'[s] = stored[o] /\ made' = made
      /\ pc'[s] = IF stored[o] = 0 THEN "order" ELSE IF o \in Allegro THEN "details" ELSE "label"
      /\ s = Agent => numbers'[s] = NumbersFirst(s, o)
  BY DEF Start, Collects, TypeOK
<1>2. o # None /\ (stored[o] # 0 => made[stored[o]].order = o)
  BY OrdersAssumption DEF Control
<1>3. s = Agent /\ pc'[s] = "details" => numbers'[s] = <<>>
  BY <1>1 DEF NumbersFirst
<1> QED BY <1>1, <1>2, <1>3 DEF InHand, Unsaved

LEMMA ControlSteps ==
  ASSUME TypeOK, Control, [Next]_vars PROVE Control'
<1>1. MadeKept
  BY StepsKeepMade
<1>2. ASSUME NEW s \in Sessions, Mine(s), InHand(s)' PROVE Control'
  BY <1>1, <1>2, OthersInHand, StoredStays DEF Control
<1>3. CASE \E n \in DOMAIN made : Confirm(n) \/ Refuse(n) \/ Expire(n)
  <2>1. UNCHANGED <<stored, pc, cur, sid, numbers>>
    BY <1>3 DEF Confirm, Refuse, Expire, Becomes, db, work
  <2>2. ASSUME NEW n \in 1..Len(made)
        PROVE  /\ made'[n].order = made[n].order
               /\ made[n].state \in {"expired", "cancelled"} => made'[n].state \in {"expired", "cancelled"}
    BY <1>1 DEF MadeKept
  <2>3. ASSUME NEW s \in Sessions PROVE InHand(s)'
    <3>1. InHand(s) /\ (sid[s] # 0 => sid[s] \in 1..Len(made))
      BY DEF Control, TypeOK
    <3>2. Unsaved(s)' <=> Unsaved(s)
      BY <2>1 DEF Unsaved
    <3> QED BY <2>1, <2>2, <3>1, <3>2 DEF InHand, Expired
  <2>4. \A o \in Orders : stored[o] # 0 => stored[o] \in 1..Len(made)
    BY DEF TypeOK
  <2> QED BY <2>1, <2>2, <2>3, <2>4 DEF Control
<1>4. ASSUME NEW s \in Sessions, NEW o \in Orders, Start(s, o) PROVE Control'
  BY <1>2, <1>4, StartsAreMine, StarterInHand
<1>5. ASSUME NEW s \in Sessions, Step(s) \/ Killed(s) PROVE Control'
  BY <1>1, <1>2, <1>5, StepsAreMine, MoverInHand
<1>6. CASE UNCHANGED vars
  BY <1>6 DEF vars, db, work, Control, InHand, Unsaved, Expired
<1> QED BY <1>3, <1>4, <1>5, <1>6 DEF Next, Take, Reprint, Sessions

-----------------------------------------------------------------------------
(***************************************************************************)
(* The numbers the orders are tracked by.                                  *)
(***************************************************************************)
LEMMA NumberStays ==
  ASSUME TypeOK, MadeKept, NEW x, NEW o, NEW good, NumberOf(x, o, good, made),
         NEW better, good \subseteq better
  PROVE  NumberOf(x, o, better, made')
<1>1. PICK n \in DOMAIN made :
        /\ x \in {Waybill(n), BareId(n)} /\ made[n].order = o
        /\ n \in good \/ made[n].state \in {"expired", "cancelled"}
  BY DEF NumberOf
<1>2. n \in 1..Len(made) /\ n \in DOMAIN made'
  BY MadeDomain, MadeGrows
<1>3. made'[n].order = o /\ (n \in better \/ made'[n].state \in {"expired", "cancelled"})
  BY <1>1, <1>2 DEF MadeKept
<1> QED BY <1>1, <1>2, <1>3 DEF NumberOf

LEMMA NumberInHand ==
  ASSUME TypeOK, MadeKept, NEW n \in 1..Len(made), NEW x \in {Waybill(n), BareId(n)}
  PROVE  NumberOf(x, made[n].order, {n}, made')
<1>1. n \in DOMAIN made' /\ made'[n].order = made[n].order
  BY MadeDomain, MadeGrows DEF MadeKept
<1> QED BY <1>1 DEF NumberOf

(* the numbers of a shipment that is not in hand are of expired ones *)
LEMMA NumberOfExpired ==
  ASSUME TypeOK, NEW x, NEW o, NEW n, NumberOf(x, o, {n}, made), n = 0 \/ Expired(n)
  PROVE  NumberOf(x, o, {}, made)
<1>1. PICK m \in DOMAIN made :
        /\ x \in {Waybill(m), BareId(m)} /\ made[m].order = o
        /\ m \in {n} \/ made[m].state \in {"expired", "cancelled"}
  BY DEF NumberOf
<1>2. m # 0
  BY MadeDomain
<1> QED BY <1>1, <1>2 DEF NumberOf, Expired

LEMMA GivenStays ==
  ASSUME TypeOK, Given, MadeKept, number' = number, paper \subseteq paper'
  PROVE  Given'
<1>1. ASSUME NEW o \in Orders, number[o] # None
      PROVE  NumberOf(number[o], o, paper', made')
  BY <1>1, NumberStays DEF Given
<1> QED BY <1>1 DEF Given

(* the agent has the numbers and the shipment it had, or a shipment although it
   had none, or none because its own had expired *)
LEMMA CollectedStay ==
  ASSUME TypeOK, Collected, MadeKept,
         numbers'[Agent] = numbers[Agent], cur'[Agent] = cur[Agent],
         sid'[Agent] = sid[Agent] \/ sid[Agent] = 0 \/ Expired(sid[Agent])
  PROVE  Collected'
<1>1. ASSUME NEW i \in DOMAIN numbers[Agent]
      PROVE  NumberOf(numbers[Agent][i], cur[Agent], {sid'[Agent]}, made')
  <2>1. NumberOf(numbers[Agent][i], cur[Agent], {sid[Agent]}, made)
    BY DEF Collected
  <2>2. CASE sid'[Agent] = sid[Agent]
    BY <2>1, <2>2, NumberStays
  <2>3. CASE sid[Agent] = 0 \/ Expired(sid[Agent])
    <3>1. NumberOf(numbers[Agent][i], cur[Agent], {}, made)
      BY <2>1, <2>3, NumberOfExpired
    <3> QED BY <3>1, NumberStays
  <2> QED BY <2>2, <2>3
<1> QED BY <1>1 DEF Collected

(* the agent has one number, of the shipment in its hand *)
LEMMA CollectedOne ==
  ASSUME TypeOK, MadeKept, cur'[Agent] = cur[Agent], sid'[Agent] = sid[Agent],
         sid[Agent] \in 1..Len(made), made[sid[Agent]].order = cur[Agent],
         NEW x \in {Waybill(sid[Agent]), BareId(sid[Agent])}, numbers'[Agent] = <<x>>
  PROVE  Collected'
<1>1. NumberOf(x, cur[Agent], {sid[Agent]}, made')
  BY NumberInHand
<1> QED BY <1>1 DEF Collected

LEMMA CollectedNone ==
  ASSUME numbers'[Agent] = <<>> PROVE Collected'
BY DEF Collected

LEMMA NumberSteps ==
  ASSUME IInv, [Next]_vars PROVE NumberInv'
<1>1. /\ TypeOK /\ Control /\ Given /\ Collected /\ MadeKept
      /\ Agent \in Sessions /\ Agent \notin Pages
  BY StepsKeepMade, SessionsAssumption DEF IInv, NumberInv, Sessions
<1>2. /\ pc \in [Sessions -> Steps] /\ cur \in [Sessions -> Orders \cup {None}]
      /\ sid \in [Sessions -> 0..Len(made)] /\ numbers \in [Sessions -> Seq(Numbers)]
      /\ stored \in [Orders -> 0..Len(made)] /\ number \in [Orders -> Numbers \cup {None}]
      /\ Len(made) \in Nat
  BY <1>1 DEF TypeOK, Steps
<1>3. CASE \E n \in DOMAIN made : Confirm(n) \/ Refuse(n) \/ Expire(n)
  <2>1. UNCHANGED <<number, paper, numbers, cur, sid>>
    BY <1>3 DEF Confirm, Refuse, Expire, Becomes, db, work
  <2> QED BY <1>1, <2>1, GivenStays, CollectedStay DEF NumberInv
<1>4. ASSUME NEW o \in Orders, Take(o) PROVE NumberInv'
  <2>1. /\ number' = number /\ paper' = paper /\ number[o] = None
        /\ cur'[Agent] = o /\ sid'[Agent] = stored[o] /\ numbers'[Agent] = NumbersFirst(Agent, o)
    BY <1>1, <1>2, <1>4 DEF Take, Start, Collects, Printable, db
  <2>2. Given'
    BY <1>1, <2>1, GivenStays
  <2>3. CASE stored[o] = 0 \/ o \in Allegro
    BY <2>1, <2>2, <2>3, CollectedNone DEF NumbersFirst, NumberInv
  <2>4. CASE ~(stored[o] = 0 \/ o \in Allegro)
    <3>1. numbers'[Agent] = <<BareId(stored[o])>>
      BY <2>1, <2>4 DEF NumbersFirst
    <3>2. stored[o] \in 1..Len(made) /\ made[stored[o]].order = o
      BY <1>1, <1>2, <2>4 DEF Control
    <3>3. NumberOf(BareId(stored[o]), o, {stored[o]}, made')
      BY <1>1, <3>2, NumberInHand
    <3> QED BY <2>1, <2>2, <3>1, <3>3 DEF NumberInv, Collected
  <2> QED BY <2>3, <2>4
<1>5. ASSUME NEW s \in Pages, Reprint(s) PROVE NumberInv'
  <2>1. /\ number' = number /\ paper' = paper
        /\ cur'[Agent] = cur[Agent] /\ sid'[Agent] = sid[Agent] /\ numbers'[Agent] = numbers[Agent]
    BY <1>1, <1>2, <1>5 DEF Reprint, Start, Collects, db
  <2> QED BY <1>1, <2>1, GivenStays, CollectedStay DEF NumberInv
<1>6. ASSUME NEW s \in Pages, Step(s) \/ Killed(s) PROVE NumberInv'
  <2>1. /\ cur'[Agent] = cur[Agent] /\ sid'[Agent] = sid[Agent] /\ numbers'[Agent] = numbers[Agent]
    BY <1>1, <1>6, StepsAreMine DEF Mine, Sessions
  <2>2. number' = number /\ paper \subseteq paper'
    BY <1>1, <1>6 DEF Step, Killed, Details, DetailsFail, OrderShipment, OrderFails, Buy, BuyFails, work, Wait, WaitFails,
       LoadWaybills, Save, Label, LabelExpired, LabelFails, Replace, Finish, NoLabel, db
  <2> QED BY <1>1, <2>1, <2>2, GivenStays, CollectedStay DEF NumberInv
<1>7. CASE Finish(Agent)
  <2>1. /\ paper' = paper \cup {sid[Agent]} /\ numbers'[Agent] = <<>>
        /\ number' = [number EXCEPT ![cur[Agent]] = FirstNumber(cur[Agent], numbers[Agent])]
        /\ cur[Agent] \in Orders
    BY <1>1, <1>2, <1>7, StepsAreMine DEF Finish, Leave, Step
  <2>2. ASSUME NEW o \in Orders, number'[o] # None
        PROVE  NumberOf(number'[o], o, paper', made')
    <3>1. CASE o # cur[Agent] \/ numbers[Agent] = <<>>
      <4>1. number'[o] = number[o]
        BY <1>2, <2>1, <3>1 DEF FirstNumber
      <4> QED BY <1>1, <2>1, <2>2, <4>1, NumberStays DEF Given
    <3>2. CASE o = cur[Agent] /\ numbers[Agent] # <<>>
      <4>1. number'[o] = numbers[Agent][1] /\ 1 \in DOMAIN numbers[Agent]
        BY <1>1, <1>2, <2>1, <3>2 DEF FirstNumber
      <4>2. NumberOf(numbers[Agent][1], o, {sid[Agent]}, made)
        BY <1>1, <3>2, <4>1 DEF Collected
      <4> QED BY <1>1, <2>1, <4>1, <4>2, NumberStays
    <3> QED BY <3>1, <3>2
  <2> QED BY <2>1, <2>2, CollectedNone DEF NumberInv, Given
<1>8. ASSUME (Step(Agent) /\ ~Finish(Agent)) \/ Killed(Agent) PROVE NumberInv'
  <2>1. number' = number /\ paper' = paper
    BY <1>8 DEF Step, Killed, Details, DetailsFail, OrderShipment, OrderFails, Buy, BuyFails, work, Wait, WaitFails,
       LoadWaybills, Save, Label, LabelExpired, LabelFails, Replace, NoLabel, db
  <2>2. Given'
    BY <1>1, <2>1, GivenStays
  <2>3. InHand(Agent)
    BY <1>1 DEF Control
  <2>4. CASE Details(Agent) \/ Wait(Agent) \/ WaitFails(Agent)
    <3>1. sid[Agent] \in 1..Len(made) /\ made[sid[Agent]].order = cur[Agent]
      BY <1>1, <1>2, <2>3, <2>4 DEF InHand, Details, Wait, WaitFails
    <3>2. \/ numbers'[Agent] = <<>>
          \/ /\ cur' = cur /\ sid' = sid
             /\ \/ numbers' = numbers
                \/ \E x \in {Waybill(sid[Agent]), BareId(sid[Agent])} : numbers'[Agent] = <<x>>
      BY <1>1, <1>2, <2>4 DEF Details, Wait, WaitFails, NoLabel, Leave, InPostNumber, Collects
    <3> QED BY <1>1, <2>2, <3>1, <3>2, CollectedNone, CollectedOne, CollectedStay DEF NumberInv
  <2>5. CASE LoadWaybills(Agent)
    <3>1. cur' = cur /\ sid' = sid
      BY <2>5 DEF LoadWaybills
    <3>2. CASE numbers' = numbers
      BY <1>1, <2>2, <3>1, <3>2, CollectedStay DEF NumberInv
    <3>3. CASE numbers' = [numbers EXCEPT ![Agent] = Append(@, Waybill(sid[Agent]))]
      <4>1. sid[Agent] \in 1..Len(made) /\ made[sid[Agent]].order = cur[Agent]
        BY <1>1, <1>2, <2>3, <2>5 DEF InHand, LoadWaybills
      <4>2. NumberOf(Waybill(sid[Agent]), cur[Agent], {sid[Agent]}, made')
        BY <1>1, <4>1, NumberInHand
      <4>3. ASSUME NEW i \in DOMAIN numbers[Agent]
            PROVE  NumberOf(numbers[Agent][i], cur[Agent], {sid[Agent]}, made')
        BY <1>1, <4>3, NumberStays DEF Collected
      <4>4. numbers'[Agent] = Append(numbers[Agent], Waybill(sid[Agent])) /\ numbers[Agent] \in Seq(Numbers)
        BY <1>1, <1>2, <3>3
      <4>5. ASSUME NEW i \in DOMAIN numbers'[Agent]
            PROVE  NumberOf(numbers'[Agent][i], cur[Agent], {sid[Agent]}, made')
        <5>1. \/ i \in DOMAIN numbers[Agent] /\ numbers'[Agent][i] = numbers[Agent][i]
              \/ numbers'[Agent][i] = Waybill(sid[Agent])
          BY <4>4, <4>5
        <5> QED BY <4>2, <4>3, <5>1
      <4> QED BY <2>2, <3>1, <4>5 DEF NumberInv, Collected
    <3> QED BY <2>5, <3>2, <3>3 DEF LoadWaybills, Collects
  <2>6. CASE DetailsFail(Agent) \/ OrderShipment(Agent) \/ Replace(Agent) \/ Save(Agent)
             \/ Buy(Agent) \/ Label(Agent) \/ (LabelExpired(Agent) /\ Replaces(Agent))
    <3>1. numbers' = numbers /\ cur' = cur
      BY <2>6 DEF DetailsFail, OrderShipment, Replace, Save, Buy, work, Label, LabelExpired
    <3>2. CASE DetailsFail(Agent)
      BY <2>2, <2>3, <3>1, <3>2, CollectedNone DEF NumberInv, InHand, DetailsFail
    <3>3. CASE ~DetailsFail(Agent)
      <4>1. sid' = sid \/ sid[Agent] = 0 \/ Expired(sid[Agent])
        BY <2>3, <2>6, <3>3 DEF InHand, OrderShipment, Replace, Save, Buy, work, Label, LabelExpired
      <4> QED BY <1>1, <2>2, <3>1, <4>1, CollectedStay DEF NumberInv
    <3> QED BY <3>2, <3>3
  <2>7. CASE OrderFails(Agent) \/ BuyFails(Agent) \/ (LabelExpired(Agent) /\ ~Replaces(Agent)) \/ LabelFails(Agent)
             \/ Killed(Agent)
    <3>1. numbers'[Agent] = <<>>
      BY <1>1, <1>2, <2>7 DEF OrderFails, BuyFails, LabelExpired, LabelFails, Killed, NoLabel, Leave
    <3> QED BY <2>2, <3>1, CollectedNone DEF NumberInv
  <2> QED BY <1>8, <2>4, <2>5, <2>6, <2>7 DEF Step
<1>9. CASE UNCHANGED vars
  <2>1. UNCHANGED <<number, paper, numbers, cur, sid>>
    BY <1>9 DEF vars, db, work
  <2> QED BY <1>1, <2>1, GivenStays, CollectedStay DEF NumberInv
<1> QED BY <1>3, <1>4, <1>5, <1>6, <1>7, <1>8, <1>9 DEF Next, Sessions

-----------------------------------------------------------------------------
(***************************************************************************)
(* Before any page was served, the shipment remembered is the one printed. *)
(***************************************************************************)
LEMMA PrintSteps ==
  ASSUME IInv, [Next]_vars PROVE PrintInv'
<1>1. /\ TypeOK /\ Control /\ PrintInv
      /\ Agent \in Sessions /\ Agent \notin Pages /\ pages \in Nat
  BY SessionsAssumption, BoundsAssumption DEF IInv, Sessions, TypeOK
<1>2. /\ pc \in [Sessions -> Steps] /\ cur \in [Sessions -> Orders \cup {None}]
      /\ sid \in [Sessions -> 0..Len(made)] /\ stored \in [Orders -> 0..Len(made)]
      /\ status \in [Orders -> {"pobrano", "blad_druku", "wydrukowano"}]
      /\ Agent \in Sessions /\ None \notin Orders
  BY <1>1, OrdersAssumption DEF TypeOK, Steps
<1>3. InHand(Agent)
  BY <1>1 DEF Control
<1>4. CASE \E n \in DOMAIN made : Confirm(n) \/ Refuse(n) \/ Expire(n)
  <2>1. UNCHANGED <<stored, status, paper, pages, pc, cur, sid>>
    BY <1>4 DEF Confirm, Refuse, Expire, Becomes, db, work
  <2> QED BY <1>1, <2>1 DEF PrintInv, RememberedIsPrinted, Unsaved
<1>5. CASE UNCHANGED vars
  <2>1. UNCHANGED <<stored, status, paper, pages, pc, cur, sid>>
    BY <1>5 DEF vars, db, work
  <2> QED BY <1>1, <2>1 DEF PrintInv, RememberedIsPrinted, Unsaved
<1>6. CASE \E s \in Pages : Reprint(s)
  BY <1>1, <1>6 DEF Reprint, PrintInv, RememberedIsPrinted
<1>7. CASE \E s \in Pages : Step(s) \/ Killed(s)
  <2>1. PICK s \in Pages : Step(s) \/ Killed(s)
    BY <1>7
  <2>2. pages' = pages /\ pc[s] # "idle"
    BY <1>1, <2>1, StepsAreMine DEF Sessions, Step, Killed, Details, DetailsFail, OrderShipment,
       OrderFails, Buy, BuyFails, work, Wait, WaitFails, LoadWaybills, Save, Label, LabelExpired, LabelFails, Replace,
       Finish, NoLabel
  <2> QED BY <1>1, <2>2 DEF PrintInv, RememberedIsPrinted
<1>8. ASSUME NEW o \in Orders, Take(o), pages = 0 PROVE PrintInv'
  <2>1. /\ UNCHANGED <<stored, status, paper, pages>> /\ status[o] # "wydrukowano"
        /\ cur'[Agent] = o /\ sid'[Agent] = stored[o] /\ \A s \in Pages : pc'[s] = pc[s]
    BY <1>1, <1>2, <1>8 DEF Take, Start, Printable, db, Sessions
  <2> QED BY <1>1, <1>8, <2>1 DEF PrintInv, RememberedIsPrinted
<1>9. ASSUME Step(Agent) \/ Killed(Agent), pages = 0 PROVE PrintInv'
  <2>1. /\ \A s \in Pages : pc'[s] = "idle"
        /\ cur[Agent] \in Orders /\ pc[Agent] # "idle" /\ status[cur[Agent]] # "wydrukowano"
    BY <1>1, <1>9, StepsAreMine DEF Mine, PrintInv, Sessions
  <2>2. pages' = 0
    BY <1>9 DEF Step, Killed, Details, DetailsFail, OrderShipment, OrderFails, Buy, BuyFails, work, Wait, WaitFails,
       LoadWaybills, Save, Label, LabelExpired, LabelFails, Replace, Finish, NoLabel
  <2>3. ASSUME \A o \in Orders \ {cur[Agent]} : status'[o] = status[o] /\ stored'[o] = stored[o],
               paper \subseteq paper',
               status'[cur[Agent]] = "wydrukowano" /\ stored'[cur[Agent]] # 0 =>
                 stored'[cur[Agent]] \in paper'
        PROVE  RememberedIsPrinted'
    BY <1>1, <1>9, <2>3 DEF PrintInv, RememberedIsPrinted
  <2>4. CASE Finish(Agent)
    <3>1. /\ pc[Agent] = "print" /\ paper' = paper \cup {sid[Agent]} /\ stored' = stored
          /\ status' = [status EXCEPT ![cur[Agent]] = "wydrukowano"] /\ pc'[Agent] = "idle"
      BY <1>2, <2>4 DEF Finish, Leave
    <3>2. stored[cur[Agent]] = sid[Agent]
      BY <1>1, <1>9, <3>1 DEF PrintInv, Unsaved
    <3>3. RememberedIsPrinted'
      BY <1>2, <2>1, <2>3, <3>1, <3>2
    <3> QED BY <2>1, <3>1, <3>3 DEF PrintInv
  <2>5. CASE OrderFails(Agent) \/ BuyFails(Agent) \/ LabelFails(Agent) \/ Killed(Agent)
             \/ (WaitFails(Agent) /\ cur[Agent] \notin Woo)
             \/ (LabelExpired(Agent) /\ ~Replaces(Agent))
    <3>1. /\ paper' = paper /\ stored' = stored /\ pc'[Agent] = "idle"
          /\ status' = status \/ status' = [status EXCEPT ![cur[Agent]] = "blad_druku"]
      BY <1>2, <2>5 DEF OrderFails, BuyFails, LabelFails, Killed, WaitFails, LabelExpired, NoLabel, Leave, db
    <3>2. RememberedIsPrinted'
      BY <1>2, <2>1, <2>3, <3>1
    <3> QED BY <2>1, <3>1, <3>2 DEF PrintInv
  <2>6. CASE DetailsFail(Agent) \/ Replace(Agent)
    <3>1. /\ paper' = paper /\ status' = status /\ pc'[Agent] = "order" /\ cur' = cur
          /\ stored' = stored \/ stored' = [stored EXCEPT ![cur[Agent]] = 0]
      BY <1>2, <2>6 DEF DetailsFail, Replace, Goes, db
    <3>2. RememberedIsPrinted'
      BY <1>2, <2>1, <2>3, <3>1
    <3> QED BY <2>1, <3>1, <3>2 DEF PrintInv
  <2>7. CASE Save(Agent)
    <3>1. /\ paper' = paper /\ status' = status /\ cur' = cur /\ sid' = sid
          /\ stored' = [stored EXCEPT ![cur[Agent]] = sid[Agent]] /\ pc'[Agent] # "idle"
      BY <1>2, <2>7 DEF Save, Goes, Remembered
    <3>2. RememberedIsPrinted'
      BY <1>2, <2>1, <2>3, <3>1
    <3>3. stored'[cur[Agent]] = sid[Agent]
      BY <1>2, <2>1, <3>1
    <3> QED BY <2>1, <3>1, <3>2, <3>3 DEF PrintInv
  <2>8. CASE Details(Agent) \/ OrderShipment(Agent) \/ Buy(Agent) \/ Wait(Agent) \/ LoadWaybills(Agent)
             \/ Label(Agent) \/ (WaitFails(Agent) /\ cur[Agent] \in Woo)
             \/ (LabelExpired(Agent) /\ Replaces(Agent))
    <3>1. /\ paper' = paper /\ status' = status /\ stored' = stored /\ cur' = cur /\ pc'[Agent] # "idle"
      BY <1>2, <2>8 DEF Details, OrderShipment, Buy, Wait, LoadWaybills, Label, WaitFails, LabelExpired,
         Goes, db, work
    <3>2. RememberedIsPrinted'
      BY <2>1, <2>3, <3>1
    <3>3. CASE OrderShipment(Agent)
      <4>1. Unsaved(Agent)'
        <5>1. pc'[Agent] = IF cur[Agent] \in Allegro THEN "wait" ELSE "save"
          BY <1>2, <3>3 DEF OrderShipment, Goes
        <5> QED BY <3>1, <5>1 DEF Unsaved
      <4> QED BY <2>1, <3>1, <3>2, <4>1 DEF PrintInv
    <3>4. CASE ~OrderShipment(Agent)
      <4>1. sid' = sid /\ (~Unsaved(Agent)' => ~Unsaved(Agent)) /\ pc[Agent] # "order"
        <5>1. CASE Wait(Agent)
          BY <1>2, <5>1 DEF Wait, Goes, Unsaved
        <5>2. CASE ~Wait(Agent)
          BY <1>2, <2>8, <3>4, <5>2, OrdersAssumption DEF Details, Buy, LoadWaybills, Label, WaitFails,
             LabelExpired, Goes, Unsaved, work
        <5> QED BY <5>1, <5>2
      <4> QED BY <1>1, <1>9, <2>1, <3>1, <3>2, <4>1 DEF PrintInv
    <3> QED BY <3>3, <3>4
  <2> QED BY <1>9, <2>4, <2>5, <2>6, <2>7, <2>8 DEF Step
<1>10. ASSUME (\E o \in Orders : Take(o)) \/ Step(Agent) \/ Killed(Agent), pages # 0 PROVE PrintInv'
  <2>1. pages' = pages
    BY <1>10 DEF Take, Step, Killed, Details, DetailsFail, OrderShipment, OrderFails, Buy, BuyFails, work, Wait, WaitFails,
       LoadWaybills, Save, Label, LabelExpired, LabelFails, Replace, Finish, NoLabel
  <2> QED BY <1>10, <2>1 DEF PrintInv, RememberedIsPrinted
<1> QED BY <1>4, <1>5, <1>6, <1>7, <1>8, <1>9, <1>10 DEF Next, Sessions

-----------------------------------------------------------------------------
(***************************************************************************)
(* Every shipment but one is accounted for.                                *)
(***************************************************************************)
Credit(o) == slips[o] + pages

LEMMA CreditType ==
  ASSUME TypeOK, NEW o \in Orders PROVE Credit(o) \in Nat
BY BoundsAssumption DEF TypeOK, Credit

(* The charged shipments of o after a step: those in X besides, which hold the
   new one, if it is of o, and what a page comes to have unsaved. *)
LEMMA ChargedGrows ==
  ASSUME TypeOK, MadeKept, NEW o, NEW X,
         \A n \in DOMAIN made' \ DOMAIN made : made'[n].order = o => n \in X,
         \A q \in Pages : Unsaved(q)' /\ cur'[q] = o =>
           \/ sid'[q] \in X
           \/ Unsaved(q) /\ cur[q] = o /\ sid'[q] = sid[q]
  PROVE  Charged(o)' \subseteq Charged(o) \cup X
<1>1. ASSUME NEW n \in Live(o)' PROVE n \in Live(o) \cup X
  <2>1. n \in DOMAIN made' /\ made'[n].order = o /\ made'[n].state \in {"creating", "bought", "ready"}
    BY DEF Live
  <2>2. CASE n \notin DOMAIN made
    BY <2>1, <2>2
  <2>3. CASE n \in DOMAIN made
    BY <2>1, <2>3, MadeDomain DEF MadeKept, Live
  <2> QED BY <2>2, <2>3
<1>2. ASSUME NEW n \in Fresh(o)' PROVE n \in Fresh(o) \cup X
  BY DEF Fresh
<1> QED BY <1>1, <1>2 DEF Charged

LEMMA AskingGrows ==
  ASSUME NEW o, NEW Y,
         \A q \in Pages : cur'[q] = o /\ pc'[q] \in {"details", "order"} =>
           q \in Y \/ (cur[q] = o /\ pc[q] \in {"details", "order"})
  PROVE  Asking(o)' \subseteq Asking(o) \cup Y
BY DEF Asking

LEMMA NoShipmentZero ==
  ASSUME TypeOK, Control, NEW o PROVE 0 \notin Charged(o)
BY MadeDomain DEF Charged, Live, Fresh, Control, InHand, Unsaved, Sessions

(* Nothing that matters to o grows. *)
LEMMA AccountKept ==
  ASSUME TypeOK, TypeOK', NEW o \in Orders, Account(o),
         Charged(o)' \subseteq Charged(o), Asking(o)' \subseteq Asking(o), Credit(o)' >= Credit(o),
         stored'[o] = stored[o], cur'[Agent] = o => cur[Agent] = o,
         cur[Agent] = o => /\ cur'[Agent] = o /\ sid'[Agent] = sid[Agent]
                           /\ Unsaved(Agent)' <=> Unsaved(Agent)
  PROVE  Account(o)'
<1>1. Credit(o) \in Nat /\ Credit(o)' \in Nat
  <2>1. slips'[o] \in Nat /\ pages' \in Nat
    BY BoundsAssumption DEF TypeOK
  <2> QED BY <2>1, CreditType DEF Credit
<1>2. ASSUME NEW x, Bounded(Charged(o) \ {x}, Asking(o), Credit(o))
      PROVE  Bounded(Charged(o)' \ {x}, Asking(o)', Credit(o)')
  <2>1. Charged(o)' \ {x} \subseteq Charged(o) \ {x}
    OBVIOUS
  <2> QED BY <1>1, <1>2, <2>1, BoundedLess
<1> QED BY <1>2 DEF Account, AllBut, Credit

LEMMA CreditNextType ==
  ASSUME TypeOK', NEW o \in Orders PROVE Credit(o)' \in Nat
BY BoundsAssumption DEF TypeOK, Credit

(* the carriers, and a session taking an order *)
LEMMA AccountCarriers ==
  ASSUME IInv, TypeOK', MadeKept, NEW n \in DOMAIN made, Confirm(n) \/ Refuse(n) \/ Expire(n),
         NEW o \in Orders
  PROVE  Account(o)'
<1>1. UNCHANGED <<stored, pc, cur, sid, slips, pages>>
  BY DEF Confirm, Refuse, Expire, Becomes, db, work
<1>2. Len(made') = Len(made) /\ DOMAIN made' = DOMAIN made
  BY DEF Confirm, Refuse, Expire, Becomes, IInv, TypeOK
<1>3. Charged(o)' \subseteq Charged(o) /\ Asking(o)' \subseteq Asking(o)
  <2>1. Charged(o)' \subseteq Charged(o) \cup {}
    BY <1>1, <1>2, ChargedGrows DEF IInv, Unsaved
  <2> QED BY <1>1, <2>1 DEF Asking
<1> QED BY <1>1, <1>3, AccountKept, CreditType DEF IInv, Credit, Unsaved

LEMMA AccountTake ==
  ASSUME IInv, TypeOK', MadeKept, NEW p \in Orders, Take(p), NEW o \in Orders
  PROVE  Account(o)'
<1>1. TypeOK /\ Control /\ Account(o) /\ Agent \in Sessions /\ Agent \notin Pages /\ InHand(Agent)
  BY SessionsAssumption DEF IInv, Sessions, Control
<1>2. /\ made' = made /\ stored' = stored /\ slips' = slips /\ pages' = pages
      /\ pc[Agent] = "idle" /\ cur[Agent] = None
      /\ cur'[Agent] = p /\ sid'[Agent] = stored[p] /\ ~Unsaved(Agent)'
      /\ \A q \in Pages : pc'[q] = pc[q] /\ cur'[q] = cur[q] /\ sid'[q] = sid[q]
  BY <1>1 DEF Take, Start, TypeOK, InHand, Sessions, db, Unsaved
<1>3. Charged(o)' \subseteq Charged(o) /\ Asking(o)' \subseteq Asking(o)
  <2>1. Charged(o)' \subseteq Charged(o) \cup {}
    BY <1>1, <1>2, ChargedGrows DEF Unsaved
  <2> QED BY <1>2, <2>1 DEF Asking
<1>4. o # None /\ Credit(o)' = Credit(o) /\ Credit(o) \in Nat
  BY <1>1, <1>2, OrdersAssumption, CreditType DEF Credit
<1>5. AllBut(o, stored[o])
  BY <1>1, <1>2, <1>4 DEF Account
<1>6. Bounded(Charged(o)' \ {stored[o]}, Asking(o)', Credit(o)')
  <2>1. Charged(o)' \ {stored[o]} \subseteq Charged(o) \ {stored[o]}
    BY <1>3
  <2> QED BY <1>3, <1>4, <1>5, <2>1, BoundedLess DEF AllBut, Credit
<1> QED BY <1>2, <1>6 DEF Account, AllBut, Credit

LEMMA AccountReprint ==
  ASSUME IInv, TypeOK', MadeKept, NEW s \in Pages, Reprint(s), NEW o \in Orders
  PROVE  Account(o)'
<1>1. TypeOK /\ Control /\ Account(o) /\ Agent \in Sessions /\ Agent # s /\ s \in Sessions
  BY SessionsAssumption DEF IInv, Sessions
<1>2. /\ made' = made /\ stored' = stored /\ slips' = slips /\ pages' = pages + 1
      /\ \A t \in Sessions \ {s} : pc'[t] = pc[t] /\ cur'[t] = cur[t] /\ sid'[t] = sid[t]
      /\ ~Unsaved(s)'
  BY <1>1 DEF Reprint, Start, TypeOK, db, Unsaved
<1>3. Charged(o)' \subseteq Charged(o) /\ Asking(o)' \subseteq Asking(o) \cup {s}
  <2>1. Charged(o)' \subseteq Charged(o) \cup {}
    BY <1>1, <1>2, ChargedGrows DEF Unsaved, Sessions
  <2> QED BY <1>2, <2>1, AskingGrows DEF Sessions
<1>4. Credit(o)' = Credit(o) + 1 /\ Credit(o) \in Nat /\ Credit(o)' \in Nat
  <2>1. Credit(o) \in Nat /\ Credit(o)' \in Nat
    BY <1>1, CreditType, CreditNextType
  <2>2. slips[o] \in Nat /\ pages \in Nat
    BY <1>1, BoundsAssumption DEF TypeOK
  <2> QED BY <1>2, <2>1, <2>2 DEF Credit
<1>5. ASSUME NEW x, Bounded(Charged(o) \ {x}, Asking(o), Credit(o))
      PROVE  Bounded(Charged(o)' \ {x}, Asking(o)', Credit(o)')
  <2>1. Charged(o)' \ {x} \subseteq Charged(o) \ {x}
    BY <1>3
  <2>2. Credit(o) \in Nat /\ Credit(o)' \in Nat /\ Credit(o) + 1 <= Credit(o)'
    BY <1>4
  <2>3. Asking(o)' \subseteq Asking(o) \cup {s}
    BY <1>3
  <2>4. \A U, P, q : \A b, c \in Nat : Bounded(U, P, b) /\ b + 1 <= c => Bounded(U, P \cup {q}, c)
    BY BoundedAsk
  <2>5. Bounded(Charged(o) \ {x}, Asking(o) \cup {s}, Credit(o)')
    BY <1>5, <2>2, <2>4
  <2> QED BY <2>1, <2>2, <2>3, <2>5, BoundedLess
<1>6. cur'[Agent] = cur[Agent] /\ sid'[Agent] = sid[Agent] /\ (Unsaved(Agent)' <=> Unsaved(Agent))
  BY <1>1, <1>2 DEF Unsaved
<1> QED BY <1>1, <1>2, <1>5, <1>6 DEF Account, AllBut, Credit

(* What a session's step does to the count: it orders one shipment or none,
   and lets failures grow, by one at the session's order if they do. *)
LEMMA MoverMakes ==
  ASSUME TypeOK, Control, NEW s \in Sessions, Step(s) \/ Killed(s)
  PROVE  \/ DOMAIN made' = DOMAIN made
         \/ /\ OrderShipment(s) \/ OrderFails(s)
            /\ DOMAIN made' = DOMAIN made \cup {Len(made) + 1}
            /\ made'[Len(made) + 1].order = cur[s]
<1>1. made \in Seq(Shipment) /\ DOMAIN made = 1..Len(made) /\ Len(made) \in Nat
  BY DEF TypeOK
<1>2. CASE OrderShipment(s) \/ OrderFails(s)
  <2>1. cur[s] \in Orders
    BY StepsAreMine
  <2>2. made' = made \/ (made' = Placed(s) /\ MayOrder(s))
    BY <1>2 DEF OrderShipment, OrderFails
  <2>3. CASE made' = Placed(s) /\ MayOrder(s)
    <3>1. /\ made' \in Seq(Shipment) /\ Len(made') = Len(made) + 1
          /\ made'[Len(made) + 1].order = cur[s]
      BY <2>1, <2>3, MadePlaced, MayOrderOrders DEF MadeKept
    <3>2. DOMAIN made' = 1..Len(made')
      BY <3>1
    <3>3. \A k \in Nat : 1..(k + 1) = 1..k \cup {k + 1}
      OBVIOUS
    <3>4. DOMAIN made' = DOMAIN made \cup {Len(made) + 1}
      BY <1>1, <3>1, <3>2, <3>3
    <3> QED BY <1>2, <3>1, <3>4
  <2>4. CASE made' = made
    BY <2>4
  <2> QED BY <2>2, <2>3, <2>4
<1>3. CASE Replace(s)
  BY <1>1, <1>3 DEF Replace
<1>4. CASE ~(OrderShipment(s) \/ OrderFails(s) \/ Replace(s))
  BY <1>4 DEF Step, Killed, Details, DetailsFail, Buy, BuyFails, work, Wait, WaitFails, LoadWaybills,
     Save, Label, LabelExpired, LabelFails, Finish
<1> QED BY <1>2, <1>3, <1>4

LEMMA MoverCredits ==
  ASSUME TypeOK, TypeOK', Control, NEW s \in Sessions, Step(s) \/ Killed(s)
  PROVE  \A o \in Orders :
           /\ Credit(o) \in Nat /\ Credit(o)' \in Nat /\ Credit(o) <= Credit(o)'
           /\ o = cur[s] /\ slips' = [slips EXCEPT ![cur[s]] = @ + 1] =>
                Credit(o) + 1 <= Credit(o)'
<1>1. /\ pages' = pages /\ cur[s] \in Orders
      /\ slips' = slips \/ slips' = [slips EXCEPT ![cur[s]] = @ + 1]
  <2>1. cur[s] \in Orders
    BY StepsAreMine
  <2> QED BY <2>1 DEF Step, Killed, Details, DetailsFail, OrderShipment, OrderFails, Buy, BuyFails, work, Wait, WaitFails,
            LoadWaybills, Save, Label, LabelExpired, LabelFails, Replace, Finish, NoLabel, Slips
<1>2. \A o \in Orders : slips[o] \in Nat /\ pages \in Nat
  BY BoundsAssumption DEF TypeOK
<1>3. slips \in [Orders -> 0..faults]
  BY DEF TypeOK
<1>4. \A o \in Orders : slips[o] <= slips'[o]
  BY <1>1, <1>2, <1>3
<1>5. \A o \in Orders : Credit(o) \in Nat /\ Credit(o)' \in Nat
  BY CreditType, CreditNextType
<1>6. \A o \in Orders : slips'[o] \in Nat
  BY DEF TypeOK
<1>7. \A o \in Orders : Credit(o) <= Credit(o)'
  BY <1>1, <1>2, <1>4, <1>6 DEF Credit
<1>8. ASSUME NEW o \in Orders, o = cur[s], slips' = [slips EXCEPT ![cur[s]] = @ + 1]
      PROVE  Credit(o) + 1 <= Credit(o)'
  <2>1. slips'[o] = slips[o] + 1
    BY <1>1, <1>3, <1>8
  <2> QED BY <1>1, <1>2, <2>1 DEF Credit
<1> QED BY <1>5, <1>7, <1>8

(* A session that works on another order. *)
LEMMA AccountElsewhere ==
  ASSUME IInv, TypeOK', MadeKept, NEW s \in Sessions, Step(s) \/ Killed(s),
         NEW o \in Orders, o # cur[s]
  PROVE  Account(o)'
<1>1. TypeOK /\ Control /\ Account(o) /\ Agent \in Sessions /\ Pages \subseteq Sessions
  BY DEF IInv, Sessions
<1>2. Mine(s) /\ cur[s] \in Orders /\ o # None
  BY <1>1, StepsAreMine, OrdersAssumption
<1>3. cur'[s] \in {cur[s], None}
  BY <1>1 DEF TypeOK, Step, Killed, Details, DetailsFail, OrderShipment, OrderFails, Buy, BuyFails, work, Wait, WaitFails,
     LoadWaybills, Save, Label, LabelExpired, LabelFails, Replace, Finish, NoLabel, Leave
<1>4. stored'[o] = stored[o]
  <2>1. \/ stored' = stored \/ stored' = [stored EXCEPT ![cur[s]] = 0]
        \/ stored' = [stored EXCEPT ![cur[s]] = sid[s]]
    BY DEF Step, Killed, Details, DetailsFail, OrderShipment, OrderFails, Buy, BuyFails, work, Wait, WaitFails,
       LoadWaybills, Save, Label, LabelExpired, LabelFails, Replace, Finish, db, Remembered
  <2> QED BY <1>1, <2>1 DEF TypeOK
<1>5. \A t \in Sessions : cur'[t] = o =>
        /\ t # s /\ cur[t] = o /\ sid'[t] = sid[t] /\ pc'[t] = pc[t]
  BY <1>2, <1>3 DEF Mine
<1>6. Charged(o)' \subseteq Charged(o) \cup {}
  <2>1. \A q \in Pages : Unsaved(q)' /\ cur'[q] = o => Unsaved(q) /\ cur[q] = o /\ sid'[q] = sid[q]
    BY <1>1, <1>5 DEF Unsaved
  <2>2. \A n \in DOMAIN made' \ DOMAIN made : made'[n].order # o
    BY <1>1, MoverMakes
  <2> QED BY <1>1, <2>1, <2>2, ChargedGrows
<1>7. Asking(o)' \subseteq Asking(o) \cup {}
  BY <1>1, <1>5, AskingGrows
<1>8. Credit(o)' >= Credit(o)
  BY <1>1, MoverCredits, CreditType, CreditNextType
<1>9. cur[Agent] = o =>
        cur'[Agent] = o /\ sid'[Agent] = sid[Agent] /\ (Unsaved(Agent)' <=> Unsaved(Agent))
  BY <1>1, <1>2 DEF Mine, Unsaved
<1>10. cur'[Agent] = o => cur[Agent] = o
  BY <1>1, <1>5
<1> QED BY <1>1, <1>4, <1>6, <1>7, <1>8, <1>9, <1>10, AccountKept

(* a step of a page *)
LEMMA AccountPage ==
  ASSUME IInv, TypeOK', MadeKept, NEW q \in Pages, Step(q) \/ Killed(q), NEW o \in Orders, o = cur[q]
  PROVE  Account(o)'
<1>1. /\ TypeOK /\ Control /\ Account(o) /\ Agent \in Sessions /\ q \in Sessions /\ q # Agent
      /\ InHand(q) /\ Pages \subseteq Sessions
  BY SessionsAssumption DEF IInv, Sessions, Control
<1>2. Mine(q) /\ pc[q] # "idle" /\ o # None
  BY <1>1, StepsAreMine, OrdersAssumption
<1>3. /\ cur'[Agent] = cur[Agent] /\ sid'[Agent] = sid[Agent] /\ (Unsaved(Agent)' <=> Unsaved(Agent))
      /\ \A p \in Pages \ {q} : pc'[p] = pc[p] /\ cur'[p] = cur[p] /\ sid'[p] = sid[p]
  BY <1>1, <1>2 DEF Mine, Unsaved
<1>4. Credit(o) \in Nat /\ Credit(o)' \in Nat /\ Credit(o) <= Credit(o)'
  BY <1>1, MoverCredits
<1>5. /\ stored \in [Orders -> 0..Len(made)] /\ pc \in [Sessions -> Steps]
      /\ cur \in [Sessions -> Orders \cup {None}] /\ sid \in [Sessions -> 0..Len(made)]
  BY <1>1 DEF TypeOK, Steps
<1>6. /\ cur[Agent] = o => Bounded(Charged(o) \ {sid[Agent]}, Asking(o), Credit(o))
      /\ ~(cur[Agent] = o /\ Unsaved(Agent)) => Bounded(Charged(o) \ {stored[o]}, Asking(o), Credit(o))
  BY <1>1 DEF Account, AllBut, Credit
<1>7. SUFFICES
        /\ cur[Agent] = o => Bounded(Charged(o)' \ {sid[Agent]}, Asking(o)', Credit(o)')
        /\ ~(cur[Agent] = o /\ Unsaved(Agent)) =>
             Bounded(Charged(o)' \ {stored'[o]}, Asking(o)', Credit(o)')
  BY <1>3 DEF Account, AllBut, Credit
<1>8. CASE OrderShipment(q) \/ OrderFails(q)
  <2>1. /\ pc[q] = "order" /\ stored' = stored /\ pc'[q] \in {"wait", "save", "idle"}
        /\ Unsaved(q)' /\ cur'[q] = o => sid'[q] = Len(made) + 1
    <3>1. CASE OrderShipment(q)
      BY <1>1, <1>5, <3>1 DEF OrderShipment, Goes, db
    <3>2. CASE OrderFails(q)
      BY <1>1, <1>5, <3>2 DEF OrderFails, NoLabel, Leave, Unsaved
    <3> QED BY <1>8, <3>1, <3>2
  <2> DEFINE X == {Len(made) + 1}
  <2>2. Charged(o)' \subseteq Charged(o) \cup X
    <3>1. \A p \in Pages : Unsaved(p)' /\ cur'[p] = o =>
            \/ sid'[p] \in X
            \/ Unsaved(p) /\ cur[p] = o /\ sid'[p] = sid[p]
      BY <1>3, <2>1 DEF Unsaved
    <3>2. \A n \in DOMAIN made' \ DOMAIN made : n \in X
      BY <1>1, MoverMakes
    <3> HIDE DEF X
    <3> QED BY <1>1, <3>1, <3>2, ChargedGrows
  <2>3. q \in Asking(o)
    BY <2>1 DEF Asking
  <2>4. Asking(o)' \subseteq Asking(o) \ {q}
    BY <1>3, <2>1 DEF Asking
  <2>5. ASSUME NEW x, Bounded(Charged(o) \ {x}, Asking(o), Credit(o))
        PROVE  Bounded(Charged(o)' \ {x}, Asking(o)', Credit(o)')
    <3> DEFINE U == Charged(o) \ {x}
               V == Charged(o)' \ {x}
               n == Len(made) + 1
    <3>1. V \subseteq U \cup {n} /\ Bounded(U, Asking(o), Credit(o))
      BY <2>2, <2>5
    <3> HIDE DEF U, V, n
    <3>2. Bounded(U \cup {n}, Asking(o) \ {q}, Credit(o))
      BY <1>4, <2>3, <3>1, BoundedSwap
    <3>3. Bounded(V, Asking(o)', Credit(o)')
      BY <1>4, <2>4, <3>1, <3>2, BoundedLess
    <3> QED BY <3>3 DEF V
  <2> QED BY <1>6, <2>1, <2>5
<1>9. CASE ~(OrderShipment(q) \/ OrderFails(q))
  <2>1. DOMAIN made' = DOMAIN made
    BY <1>1, <1>9, MoverMakes
  <2>2. Unsaved(q)' /\ cur'[q] = o => Unsaved(q) /\ sid'[q] = sid[q]
    BY <1>1, <1>2, <1>5, <1>9, OrdersAssumption DEF Step, Killed, Details, DetailsFail, Buy, BuyFails, work, Wait, WaitFails,
       LoadWaybills, Save, Label, LabelExpired, LabelFails, Replace, Finish, NoLabel, Leave, Goes, Unsaved
  <2>3. Charged(o)' \subseteq Charged(o) \cup {}
    <3>1. \A p \in Pages : Unsaved(p)' /\ cur'[p] = o =>
            Unsaved(p) /\ cur[p] = o /\ sid'[p] = sid[p]
      BY <1>3, <2>2 DEF Unsaved
    <3> QED BY <1>1, <2>1, <3>1, ChargedGrows
  <2>4. Asking(o)' \subseteq Asking(o)
    <3>1. cur'[q] = o /\ pc'[q] \in {"details", "order"} => pc[q] \in {"details", "order"}
      BY <1>1, <1>2, <1>5, <1>9 DEF Step, Killed, Details, DetailsFail, Buy, BuyFails, work, Wait, WaitFails, InHand,
         LoadWaybills, Save, Label, LabelExpired, LabelFails, Replace, Finish, NoLabel, Leave, Goes
    <3> QED BY <1>3, <3>1 DEF Asking
  <2>5. ASSUME NEW x, Bounded(Charged(o) \ {x}, Asking(o), Credit(o))
        PROVE  Bounded(Charged(o)' \ {x}, Asking(o)', Credit(o)')
    <3>1. Charged(o)' \ {x} \subseteq Charged(o) \ {x}
      BY <2>3
    <3> QED BY <1>4, <2>4, <2>5, <3>1, BoundedLess
  <2>6. CASE DetailsFail(q)
    <3>1. Credit(o) + 1 <= Credit(o)'
      BY <1>1, <2>6, MoverCredits DEF DetailsFail
    <3> DEFINE x == stored[o]
               U == Charged(o) \ {x}
               V == Charged(o)' \ {stored'[o]}
    <3>2. V \subseteq U \cup {x}
      BY <2>3
    <3> HIDE DEF U, V, x
    <3>3. Bounded(U, Asking(o), Credit(o)) => Bounded(V, Asking(o)', Credit(o)')
      BY <1>4, <2>4, <3>1, <3>2, BoundedMore
    <3> QED BY <1>6, <2>5, <3>3 DEF U, V, x
  <2>7. CASE Save(q)
    <3>1. stored'[o] = sid[q] /\ sid[q] \in Charged(o)
      BY <1>1, <1>5, <2>7 DEF Save, Remembered, Charged, Fresh, Unsaved
    <3>2. Charged(o)' \ {stored'[o]} \subseteq Charged(o) \ {sid[q]}
      BY <2>3, <3>1
    <3>3. Bounded(Charged(o) \ {stored[o]}, Asking(o), Credit(o)) =>
            Bounded(Charged(o)' \ {stored'[o]}, Asking(o)', Credit(o)')
      BY <1>4, <2>4, <3>1, <3>2, BoundedOther
    <3> QED BY <1>6, <2>5, <3>3
  <2>8. CASE ~(DetailsFail(q) \/ Save(q))
    <3>1. stored' = stored
      BY <1>9, <2>8 DEF Step, Killed, Details, Buy, BuyFails, work, Wait, WaitFails,
         LoadWaybills, Label, LabelExpired, LabelFails, Replace, Finish, db
    <3> QED BY <1>6, <2>5, <3>1
  <2> QED BY <2>6, <2>7, <2>8
<1> QED BY <1>8, <1>9

(* a step of the agent *)
LEMMA AccountAgent ==
  ASSUME IInv, TypeOK', MadeKept, Step(Agent) \/ Killed(Agent), NEW o \in Orders, o = cur[Agent]
  PROVE  Account(o)'
<1> DEFINE h == sid[Agent]
           C == Charged(o)
           D == Charged(o)'
           k == Credit(o)
           l == Credit(o)'
           A == Asking(o)
<1>1. /\ TypeOK /\ Control /\ Account(o) /\ Agent \in Sessions /\ Agent \notin Pages
      /\ InHand(Agent) /\ Pages \subseteq Sessions
  BY SessionsAssumption DEF IInv, Sessions, Control
<1>2. Mine(Agent) /\ pc[Agent] # "idle" /\ o # None
  BY <1>1, StepsAreMine, OrdersAssumption
<1>3. \A q \in Pages : pc'[q] = pc[q] /\ cur'[q] = cur[q] /\ sid'[q] = sid[q]
  BY <1>1, <1>2 DEF Mine
<1>4. k \in Nat /\ l \in Nat /\ k <= l
  BY <1>1, MoverCredits
<1>5. /\ stored \in [Orders -> 0..Len(made)] /\ pc \in [Sessions -> Steps]
      /\ cur \in [Sessions -> Orders \cup {None}] /\ sid \in [Sessions -> 0..Len(made)]
  BY <1>1 DEF TypeOK, Steps
<1>6. /\ Bounded(C \ {h}, A, k)
      /\ ~Unsaved(Agent) => Bounded(C \ {stored[o]}, A, k)
  BY <1>1 DEF Account, AllBut, Credit
<1>7. Asking(o)' = A
  BY <1>3 DEF Asking
<1>8. SUFFICES
        /\ cur'[Agent] = o => Bounded(D \ {sid'[Agent]}, A, l)
        /\ ~(cur'[Agent] = o /\ Unsaved(Agent)') => Bounded(D \ {stored'[o]}, A, l)
  BY <1>7 DEF Account, AllBut, Credit
<1>9. 0 \notin C
  BY <1>1, NoShipmentZero
<1>10. DOMAIN made' = DOMAIN made => D \subseteq C
  <2>1. ASSUME DOMAIN made' = DOMAIN made PROVE Charged(o)' \subseteq Charged(o) \cup {}
    BY <1>1, <1>3, <2>1, ChargedGrows DEF Unsaved
  <2> QED BY <2>1
<1> HIDE DEF C, D, k, l, A
<1>11. ASSUME NEW x, NEW y, Bounded(C \ {x}, A, k), D \subseteq C, x = y \/ x \notin C
       PROVE  Bounded(D \ {y}, A, l)
  <2>1. D \ {y} \subseteq C \ {x}
    BY <1>11
  <2> QED BY <1>4, <1>11, <2>1, BoundedLess
<1>12. ASSUME NEW x, NEW y, NEW n, Bounded(C \ {x}, A, k), D \subseteq C \cup {n}, x = n \/ x = y,
              k + 1 <= l
       PROVE  Bounded(D \ {y}, A, l)
  <2> DEFINE U == C \ {x}
             V == D \ {y}
  <2>1. V \subseteq U \cup {n} /\ Bounded(U, A, k)
    BY <1>12
  <2> HIDE DEF U, V
  <2>2. Bounded(V, A, l)
    BY <1>4, <1>12, <2>1, BoundedMore
  <2> QED BY <2>2 DEF V
<1>13. slips' = [slips EXCEPT ![o] = @ + 1] => k + 1 <= l
  BY <1>1, MoverCredits DEF k, l
<1>14. CASE OrderShipment(Agent) \/ OrderFails(Agent)
  <2>1. /\ pc[Agent] = "order" /\ h = 0 /\ stored' = stored /\ ~Unsaved(Agent)
    BY <1>1, <1>14 DEF OrderShipment, OrderFails, InHand, db, Unsaved
  <2>2. D \subseteq C \cup {Len(made) + 1}
    <3> DEFINE X == {Len(made) + 1}
    <3>1. \A n \in DOMAIN made' \ DOMAIN made : n \in X
      BY <1>1, MoverMakes
    <3> HIDE DEF X
    <3>2. Charged(o)' \subseteq Charged(o) \cup X
      BY <1>1, <1>3, <3>1, ChargedGrows DEF Unsaved
    <3> QED BY <3>2 DEF C, D, X
  <2>3. CASE OrderShipment(Agent)
    <3>1. /\ sid'[Agent] = Len(made) + 1 /\ cur' = cur
          /\ pc'[Agent] = IF o \in Allegro THEN "wait" ELSE "save"
      BY <1>1, <1>5, <2>3 DEF OrderShipment, Goes
    <3>2. Unsaved(Agent)'
      BY <3>1 DEF Unsaved
    <3>3. D \ {sid'[Agent]} \subseteq C \ {h}
      BY <1>9, <2>1, <2>2, <3>1
    <3>4. Bounded(D \ {sid'[Agent]}, A, l)
      BY <1>4, <1>6, <3>3, BoundedLess
    <3> QED BY <3>1, <3>2, <3>4
  <2>4. CASE OrderFails(Agent)
    <3>1. cur'[Agent] = None
      BY <1>1, <1>5, <2>4 DEF OrderFails, NoLabel, Leave
    <3>2. \/ slips' = [slips EXCEPT ![o] = @ + 1]
          \/ made' = made
      BY <2>1, <2>4 DEF OrderFails, Slips
    <3>3. CASE slips' = [slips EXCEPT ![o] = @ + 1]
      BY <1>2, <1>6, <1>12, <1>13, <2>1, <2>2, <3>1, <3>3
    <3>4. CASE made' = made
      BY <1>2, <1>6, <1>10, <1>11, <2>1, <3>1, <3>4 DEF C, D
    <3> QED BY <3>2, <3>3, <3>4
  <2> QED BY <1>14, <2>3, <2>4
<1>15. CASE ~(OrderShipment(Agent) \/ OrderFails(Agent))
  <2>1. D \subseteq C
    BY <1>1, <1>10, <1>15, MoverMakes DEF C, D
  <2>2. CASE DetailsFail(Agent)
    <3>1. /\ ~Unsaved(Agent) /\ sid'[Agent] = 0 /\ stored'[o] = 0
          /\ slips' = [slips EXCEPT ![o] = @ + 1]
      BY <1>1, <1>5, <2>2 DEF DetailsFail, Unsaved
    <3>2. D \subseteq C \cup {h}
      BY <2>1
    <3>3. Bounded(D \ {0}, A, l)
      BY <1>6, <1>12, <1>13, <3>1, <3>2
    <3> QED BY <3>1, <3>3
  <2>3. CASE Save(Agent)
    <3>1. sid'[Agent] = h /\ stored'[o] = h
      BY <1>1, <1>5, <2>3 DEF Save, Remembered
    <3> QED BY <1>6, <1>11, <2>1, <3>1
  <2>4. ASSUME Unsaved(Agent) \/ Expired(h), h # 0, ~(h \in Live(o)) PROVE h \notin C
    <3>1. ASSUME NEW q \in Pages, Unsaved(q), sid[q] = h PROVE FALSE
      BY <1>1, <3>1 DEF Control, InHand
    <3> QED BY <2>4, <3>1 DEF C, Charged, Fresh
  <2>5. CASE Replace(Agent)
    <3>1. /\ pc[Agent] = "replace" /\ h # 0 /\ Expired(h) /\ ~Unsaved(Agent)
          /\ sid'[Agent] = 0 /\ stored' = stored
      BY <1>1, <1>5, <2>5 DEF Replace, InHand, Unsaved, db
    <3>2. h \notin C
      BY <2>4, <3>1 DEF Expired, Live
    <3> QED BY <1>6, <1>11, <2>1, <3>1, <3>2
  <2>6. CASE LabelFails(Agent) \/ BuyFails(Agent) \/ (LabelExpired(Agent) /\ ~Replaces(Agent))
             \/ Finish(Agent)
    <3>1. cur'[Agent] = None /\ stored' = stored /\ ~Unsaved(Agent)
      BY <1>1, <1>5, <2>6, OrdersAssumption DEF LabelFails, BuyFails, LabelExpired, Finish, NoLabel, Leave, Unsaved, db
    <3> QED BY <1>2, <1>6, <1>11, <2>1, <3>1
  <2>7. CASE Killed(Agent) \/ (WaitFails(Agent) /\ o \notin Woo)
    <3>1. cur'[Agent] = None /\ stored' = stored
      BY <1>1, <1>5, <2>7 DEF Killed, WaitFails, NoLabel, Leave, db
    <3>2. CASE ~Unsaved(Agent)
      BY <1>2, <1>6, <1>11, <2>1, <3>1, <3>2
    <3>3. CASE Unsaved(Agent)
      <4>1. h # 0 /\ stored[o] # h
        BY <1>1, <3>3 DEF InHand, Unsaved
      <4>2. \/ slips' = [slips EXCEPT ![o] = @ + 1]
            \/ made[h].state = "refused"
        BY <2>7, <4>1 DEF Killed, WaitFails, Slips
      <4>3. CASE slips' = [slips EXCEPT ![o] = @ + 1]
        <5>1. D \subseteq C \cup {h}
          BY <2>1
        <5> QED BY <1>2, <1>6, <1>12, <1>13, <3>1, <4>3, <5>1
      <4>4. CASE made[h].state = "refused"
        <5>1. h \notin C
          BY <2>4, <3>3, <4>1, <4>4 DEF Live
        <5> QED BY <1>2, <1>6, <1>11, <2>1, <3>1, <5>1
      <4> QED BY <4>2, <4>3, <4>4
    <3> QED BY <3>2, <3>3
  <2>8. CASE Details(Agent) \/ Buy(Agent) \/ Wait(Agent) \/ (WaitFails(Agent) /\ o \in Woo) \/ LoadWaybills(Agent)
             \/ Label(Agent) \/ (LabelExpired(Agent) /\ Replaces(Agent))
    <3>1. sid' = sid /\ stored' = stored
      BY <2>8 DEF Details, Buy, Wait, WaitFails, LoadWaybills, Label, LabelExpired, db, work
    <3>2. Unsaved(Agent) => Unsaved(Agent)' /\ cur' = cur
      BY <1>1, <1>5, <2>8, OrdersAssumption DEF Details, Buy, Wait, WaitFails, LoadWaybills, Label, LabelExpired,
         Goes, Unsaved, work
    <3> QED BY <1>6, <1>11, <2>1, <3>1, <3>2
  <2> QED BY <1>15, <2>2, <2>3, <2>5, <2>6, <2>7, <2>8 DEF Step
<1> QED BY <1>14, <1>15

LEMMA AccountSteps ==
  ASSUME IInv, TypeOK', [Next]_vars, NEW o \in Orders PROVE Account(o)'
<1>1. MadeKept
  BY StepsKeepMade DEF IInv
<1>2. CASE \E n \in DOMAIN made : Confirm(n) \/ Refuse(n) \/ Expire(n)
  BY <1>1, <1>2, AccountCarriers
<1>3. CASE \E p \in Orders : Take(p)
  BY <1>1, <1>3, AccountTake
<1>4. CASE \E s \in Pages : Reprint(s)
  BY <1>1, <1>4, AccountReprint
<1>5. ASSUME NEW s \in Sessions, Step(s) \/ Killed(s) PROVE Account(o)'
  <2>1. CASE o # cur[s]
    BY <1>1, <1>5, <2>1, AccountElsewhere
  <2>2. CASE o = cur[s] /\ s \in Pages
    BY <1>1, <1>5, <2>2, AccountPage
  <2>3. CASE o = cur[s] /\ s = Agent
    BY <1>1, <1>5, <2>3, AccountAgent
  <2> QED BY <2>1, <2>2, <2>3 DEF Sessions
<1>6. CASE UNCHANGED vars
  <2>1. Charged(o)' = Charged(o) /\ Asking(o)' = Asking(o)
    BY <1>6 DEF vars, work, Charged, Live, Fresh, Asking, Unsaved
  <2> QED BY <1>6, <2>1 DEF vars, db, work, IInv, Account, AllBut, Unsaved
<1> QED BY <1>2, <1>3, <1>4, <1>5, <1>6 DEF Next

-----------------------------------------------------------------------------
(***************************************************************************)
(* The theorems.                                                           *)
(***************************************************************************)
LEMMA Initially == Init => IInv
<1> SUFFICES ASSUME Init PROVE IInv
  OBVIOUS
<1> USE DEF Init
<1>1. DOMAIN made = {} /\ Len(made) = 0 /\ 0 \in 0..Len(made) /\ made \in Seq(Shipment)
  OBVIOUS
<1>2. TypeOK
  BY <1>1, BoundsAssumption DEF TypeOK
<1>3. Control
  BY OrdersAssumption DEF Control, InHand, Unsaved
<1>4. NumberInv
  BY DEF NumberInv, Given, Collected, Sessions
<1>5. PrintInv
  BY DEF PrintInv, RememberedIsPrinted, Sessions
<1>6. ASSUME NEW o \in Orders PROVE Account(o)
  <2>1. Charged(o) = {} /\ Asking(o) = {}
    BY <1>1, OrdersAssumption DEF Charged, Live, Fresh, Asking, Sessions
  <2>2. Charged(o) \ {stored[o]} = {} /\ cur[Agent] # o /\ slips[o] + pages = 0
    BY <2>1, OrdersAssumption DEF Sessions
  <2> QED BY <2>1, <2>2, FS_EmptySet DEF Account, AllBut, Bounded
<1> QED BY <1>2, <1>3, <1>4, <1>5, <1>6 DEF IInv

THEOREM ShipmentsInvariant == Spec => []IInv
<1>1. Init => IInv
  BY Initially
<1>2. IInv /\ [Next]_vars => IInv'
  <2> SUFFICES ASSUME IInv, [Next]_vars PROVE IInv'
    OBVIOUS
  <2>1. TypeOK'
    BY TypeSteps
  <2>2. Control' /\ NumberInv' /\ PrintInv'
    BY ControlSteps, NumberSteps, PrintSteps DEF IInv
  <2>3. (\A o \in Orders : Account(o))'
    BY <2>1, AccountSteps
  <2> QED BY <2>1, <2>2, <2>3 DEF IInv
<1> QED BY <1>1, <1>2, PTL DEF Spec

(* Every variable keeps its type: a session and agent_state only ever name *)
(* shipments that a carrier has.                                           *)
THEOREM ShipmentTypes == Spec => []TypeOK
<1>1. IInv => TypeOK
  BY DEF IInv
<1> QED BY <1>1, ShipmentsInvariant, PTL

(* However many sessions, failures, kills and expired labels there are: an *)
(* order has one shipment to pay for, and one more for each failure that   *)
(* hit it before its shipment was remembered and each page served.         *)
THEOREM ShipmentsArePaid == Spec => []ShipmentsPaid
<1>1. ASSUME IInv, NEW o \in Orders PROVE Cardinality(Live(o)) <= 1 + slips[o] + pages
  <2>1. PICK x : AllBut(o, x)
    BY <1>1 DEF IInv, Account
  <2> DEFINE R == Live(o) \ {x}
  <2>2. IsFiniteSet(Charged(o) \ {x}) /\ R \subseteq Charged(o) \ {x}
    BY <2>1 DEF AllBut, Bounded, Charged
  <2>3. IsFiniteSet(R) /\ Cardinality(R) <= Cardinality(Charged(o) \ {x})
    BY <2>2, FS_Subset
  <2>4. IsFiniteSet(R \cup {x}) /\ Cardinality(R \cup {x}) <= Cardinality(R) + 1
    BY <2>3, OneMore
  <2>5. Live(o) \subseteq R \cup {x}
    OBVIOUS
  <2>6. IsFiniteSet(Live(o)) /\ Cardinality(Live(o)) <= Cardinality(R \cup {x})
    BY <2>4, <2>5, FS_Subset
  <2>7. /\ Cardinality(R) \in Nat /\ Cardinality(R \cup {x}) \in Nat /\ Cardinality(Live(o)) \in Nat
        /\ Cardinality(Charged(o) \ {x}) \in Nat /\ Cardinality(Asking(o)) \in Nat
    BY <2>1, <2>3, <2>4, <2>6, FS_CardinalityType DEF AllBut, Bounded
  <2>8. slips[o] \in Nat /\ pages \in Nat
    BY <1>1, BoundsAssumption DEF IInv, TypeOK
  <2> HIDE DEF R
  <2> QED BY <2>1, <2>3, <2>4, <2>6, <2>7, <2>8 DEF AllBut, Bounded
<1>2. IInv => ShipmentsPaid
  BY <1>1 DEF ShipmentsPaid
<1> QED BY <1>2, ShipmentsInvariant, PTL

(* Whatever failed, expired or was replaced meanwhile, the tracking number *)
(* of an order is of a shipment of its own, on the parcel or expired.      *)
THEOREM TracksOwn == Spec => []TracksOwnParcel
<1>1. ASSUME IInv, NEW o \in Orders, NEW n \in DOMAIN made, number[o] \in {Waybill(n), BareId(n)}
      PROVE  made[n].order = o /\ (n \in paper \/ Expired(n))
  <2>1. n \in Nat
    BY <1>1 DEF IInv, TypeOK
  <2>2. number[o] # None
    BY <1>1, <2>1, OrdersAssumption DEF Numbers, Waybill, BareId
  <2>3. PICK m \in DOMAIN made :
          /\ number[o] \in {Waybill(m), BareId(m)} /\ made[m].order = o
          /\ m \in paper \/ made[m].state \in {"expired", "cancelled"}
    BY <1>1, <2>2 DEF IInv, NumberInv, Given, NumberOf
  <2>4. m = n
    BY <1>1, <2>3 DEF Waybill, BareId
  <2> QED BY <2>3, <2>4 DEF Expired
<1>2. IInv => TracksOwnParcel
  BY <1>1 DEF TracksOwnParcel
<1> QED BY <1>2, ShipmentsInvariant, PTL

(* agent_state names, for a printed order, the shipment that its parcel    *)
(* bears, as long as no page was asked for its label again.                *)
THEOREM RememberedPrinted == Spec => []RememberedIsPrinted
<1>1. IInv => RememberedIsPrinted
  BY DEF IInv, PrintInv
<1> QED BY <1>1, ShipmentsInvariant, PTL
=============================================================================
