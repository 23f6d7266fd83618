------------------------- MODULE OrderStatusProofs -------------------------
(***************************************************************************)
(* The status log for any number of orders and web requests: the types,    *)
(* the abstract life of an order, the refunds and the cancelled orders.    *)
(* Then the goods and the papers of one order: GoodsInv and PapersInv; and *)
(* the stocktakes: TakeInv.                                                *)
(***************************************************************************)
EXTENDS MCOrders, FiniteSetTheorems, SequenceTheorems, WellFoundedInduction, TLAPS

(***************************************************************************)
(* The inductive invariant.                                                *)
(***************************************************************************)
Busy(s) == pc[s] \in {"open", "between"}

(* an idle session has no rows, answers or order in time left over *)
Tidy == \A s \in Sessions :
  /\ ~Busy(s) => row[s] = NoRows /\ older[s] = {} /\ behind[s] = {} /\ stale[s] = {}
  /\ pc[s] = "idle" => mine[s] = {} /\ todo[s] = {} /\ got[s] = NoRows
  /\ todo[s] \subseteq mine[s] /\ older[s] \subseteq Open(s) /\ behind[s] \subseteq stale[s]
  /\ \A o \in Orders : /\ row[s][o] # None => o \in mine[s] \ todo[s]
                       /\ got[s][o] # None => o \in mine[s]
  /\ pc[s] # "idle" => kind[s] \in Kinds
  /\ pc[s] = "between" => todo[s] = mine[s] /\ kind[s] = "track"

(* the answers a session got are of the kind it asked for *)
Answers == \A s \in Sessions, o \in Orders : got[s][o] # None =>
  /\ kind[s] \in {"import", "fulfilment", "cancel"} => got[s][o] \in DOMAIN Imported \cup {"nothing"}
  /\ kind[s] \in {"import", "fulfilment"} => got[s][o] # "nothing"
  /\ kind[s] \in {"parcels", "track"} => got[s][o] \in Status \cup {"nothing"}
  /\ kind[s] \in Asks \cup {"cancel"}

(* what a session read when it began holds as long as nobody else wrote *)
Read == \A s \in Sessions : Busy(s) => \A o \in mine[s] \ stale[s] :
  /\ kind[s] = "edit" => seen[s][o] = status[o]
  /\ kind[s] = "cancel" => status[o] \in Cancellable
  /\ kind[s] \in Pollers => status[o] # "anulowano"

(* the rows it is going to insert go well after the newest ones *)
Rows == \A s \in Sessions, o \in Orders : Busy(s) /\ o \notin stale[s] =>
  /\ row[s][o] # None => Life!May(status[o], row[s][o])
  /\ kind[s] = "cancel" /\ o \in mine[s] \ todo[s] => row[s][o] = "anulowano" /\ got[s][o] # None

(* the one refund of an order belongs to a cancellation shown or under way *)
Refunds == \A o \in Orders \ excused :
  /\ refunds[o] # 2
  /\ refunds[o] = 1 => status[o] = "anulowano" \/ Pending(o) # {}

IInv == TypeOK /\ Tidy /\ Answers /\ Read /\ Rows /\ Refunds

-----------------------------------------------------------------------------
LEMMA Statuses ==
  /\ Status = {"pobrano", "nieoplacone", "wydrukowano", "spakowano", "wyslano", "w_transporcie",
               "w_punkcie", "dostarczono", "blad_druku", "problem_z_dostawa", "zwrot",
               "nieodebrano", "anulowano"}
  /\ \A a \in Status : Rank[a] \in Int /\ (Rank[a] = Problem \/ Rank[a] <= 7)
  /\ Rank["dostarczono"] = 7 /\ Rank["anulowano"] = Problem
BY DEF Status, Rank, Problem

LEMMA Translations ==
  /\ DOMAIN Imported = {"UNPAID", "PAID", "PROCESSING", "SENT", "PICKED_UP", "CANCELLED"}
  /\ \A f \in DOMAIN Imported : Imported[f] \in Status /\ Fulfilment[f] \in Status \cup {None}
BY Statuses DEF Imported, Fulfilment

(* add_order_status adds what it was asked to add, or nothing, and what it *)
(* adds without being forced goes well after the newest row.               *)
LEMMA AddedRow ==
  ASSUME NEW k, NEW last \in Status, NEW new \in Status \cup {None}
  PROVE  /\ Added(k, last, new) \in {new, None}
         /\ Added(k, last, new) # None /\ k \notin Forced => Life!May(last, new)
         /\ k = "cancel" /\ new = "anulowano" /\ last # new => Added(k, last, new) = new
BY Statuses, NoneAssumption DEF Added, Forced, Life!May

LEMMA MayBeForced ==
  \A a \in Status : Life!May(a, "dostarczono") /\ Life!May(a, "anulowano") /\ Life!May(a, a)
BY Statuses DEF Life!May

LEMMA Initially == Init => IInv
<1> SUFFICES ASSUME Init PROVE IInv
  OBVIOUS
<1>1. TypeOK
  <2>1. form \in [Orders -> DOMAIN Imported]
    BY Translations DEF Init
  <2>2. status \in [Orders -> Status]
    BY <2>1, Translations DEF Init
  <2> QED
    BY <2>1, <2>2, BoundsAssumption DEF Init, TypeOK, NoRows
<1>2. Tidy /\ Answers /\ Read /\ Rows /\ Refunds
  BY DEF Init, Tidy, Answers, Read, Rows, Refunds, Busy, Open, NoRows
<1> QED
  BY <1>1, <1>2 DEF IInv

(* Steps outside: no session and no row changes. *)
LEMMA ElsewhereStep ==
  ASSUME IInv, NEW o \in Orders, Pay(o) \/ BuyerCancels(o) \/ PickedUp(o) \/ Carry(o) \/ Collect(o)
  PROVE  IInv'
<1> USE DEF IInv
<1>1. UNCHANGED <<status, labelled, returned, pc, session, order, history, web, faults>>
  BY DEF Pay, BuyerCancels, PickedUp, Carry, Collect, Outside, outside
<1>2. /\ form' \in [Orders -> DOMAIN Imported] /\ parcel' \in [Orders -> Status \cup {None}]
      /\ collected' \subseteq Orders
  <2>1. CASE Pay(o) \/ BuyerCancels(o) \/ PickedUp(o)
    <3>1. /\ \E to \in DOMAIN Imported : form' = [form EXCEPT ![o] = to]
          /\ UNCHANGED <<parcel, collected>>
      BY <2>1, Translations DEF Pay, BuyerCancels, PickedUp, Outside
    <3> QED
      BY <3>1 DEF TypeOK
  <2>2. CASE Carry(o)
    BY <2>2 DEF TypeOK, Carry
  <2>3. CASE Collect(o)
    BY <2>3, Translations DEF TypeOK, Collect
  <2> QED
    BY <2>1, <2>2, <2>3
<1>3. TypeOK'
  BY <1>1, <1>2 DEF TypeOK, session, order, history
<1>4. Tidy' /\ Answers' /\ Read' /\ Rows' /\ Refunds'
  BY <1>1 DEF Tidy, Answers, Read, Rows, Refunds, Busy, Open, Pending, session, order, history
<1> QED
  BY <1>3, <1>4

-----------------------------------------------------------------------------
(* A session begins: what it reads is what is there.                       *)
LEMMA StartStep ==
  ASSUME IInv, NEW s \in Sessions, NEW k \in Kinds, NEW orders \in SUBSET Orders,
         NEW at \in {"open", "between"}, Starts(s, k, orders, at),
         at = "between" => k = "track",
         k = "cancel" => \A o \in orders : status[o] \in Cancellable,
         k \in Pollers => \A o \in orders : status[o] # "anulowano",
         collected' \subseteq Orders, web' \in 0..MaxWeb
  PROVE  IInv'
<1> USE DEF IInv
<1>1. /\ pc' = [pc EXCEPT ![s] = at] /\ kind' = [kind EXCEPT ![s] = k]
      /\ mine' = [mine EXCEPT ![s] = orders] /\ todo' = [todo EXCEPT ![s] = orders]
      /\ seen' = [seen EXCEPT ![s] = [o \in Orders |->
                    IF o \in orders /\ k \in {"edit", "track"} THEN status[o] ELSE None]]
      /\ older' = [older EXCEPT ![s] = IF at = "open" THEN Open(s) ELSE {}]
      /\ UNCHANGED <<status, labelled, returned, form, parcel, got, row, behind, stale,
                     refunds, excused, faults>>
      /\ pc[s] = "idle"
  BY DEF Starts, outside, history
<1>2. TypeOK'
  BY <1>1 DEF TypeOK, Open
<1>3. Tidy'
  BY <1>1 DEF Tidy, TypeOK, Busy, Open, NoRows
<1>4. Answers'
  BY <1>1 DEF Answers, Tidy, TypeOK, NoRows
<1>5. Read'
  BY <1>1 DEF Read, Tidy, TypeOK, Busy, Pollers
<1>6. Rows'
  BY <1>1 DEF Rows, Tidy, TypeOK, Busy, NoRows
<1>7. Refunds'
  <2> SUFFICES ASSUME NEW o \in Orders PROVE Pending(o) \subseteq Pending(o)'
    BY <1>1 DEF Refunds
  <2> QED
    BY <1>1 DEF Pending, TypeOK
<1> QED
  BY <1>2, <1>3, <1>4, <1>5, <1>6, <1>7

(* A session asks outside. *)
LEMMA AskStep == ASSUME IInv, NEW s \in Sessions, Ask(s) PROVE IInv'
<1> USE DEF IInv
<1>1. PICK o \in todo[s] :
        /\ pc[s] \in {"open", "between"} /\ kind[s] \in Asks /\ got[s][o] = None
        /\ got' = [got EXCEPT ![s][o] =
             IF kind[s] \in {"fulfilment", "import"} THEN form[o]
             ELSE IF parcel[o] = None THEN "nothing" ELSE parcel[o]]
  BY DEF Ask
<1>2. UNCHANGED <<status, labelled, returned, form, parcel, pc, kind, mine, todo, seen, row,
                  older, behind, stale, collected, refunds, excused, web, faults>>
  BY DEF Ask, outside, order, history
<1>3. o \in Orders
  BY DEF TypeOK
<1>4. TypeOK'
  BY <1>1, <1>2, <1>3 DEF TypeOK
<1>5. Tidy'
  BY <1>1, <1>2, <1>3 DEF Tidy, TypeOK, Busy, Open
<1>6. Answers'
  BY <1>1, <1>2, <1>3, Translations DEF Answers, TypeOK, Asks
<1>7. Read' /\ Rows'
  BY <1>1, <1>2, <1>3 DEF Read, Rows, TypeOK, Busy, Asks
<1>8. Refunds'
  <2>1. \A t \in Sessions : kind[t] = "cancel" => got'[t] = got[t]
    BY <1>1, <1>3 DEF TypeOK, Asks
  <2> QED
    BY <1>2, <2>1 DEF Refunds, Pending
<1> QED
  BY <1>4, <1>5, <1>6, <1>7, <1>8

(* A cancellation asks for the refund: without an excuse nobody else did.  *)
LEMMA RefundStep == ASSUME IInv, NEW s \in Sessions, Refund(s) PROVE IInv'
<1> USE DEF IInv
<1>1. PICK o \in todo[s], sent \in BOOLEAN :
        /\ pc[s] = "open" /\ kind[s] = "cancel" /\ got[s][o] = None
        /\ got' = [got EXCEPT ![s][o] = IF sent THEN "CANCELLED" ELSE "nothing"]
        /\ refunds' = [refunds EXCEPT ![o] = IF sent /\ @ < 2 THEN @ + 1 ELSE @]
        /\ excused' = IF o \in stale[s] \/ Pending(o) # {} THEN excused \cup {o} ELSE excused
  BY DEF Refund
<1>2. UNCHANGED <<status, labelled, returned, form, parcel, pc, kind, mine, todo, seen, row,
                  older, behind, stale, collected, web, faults>>
  BY DEF Refund, outside, order
<1>3. o \in Orders /\ o \in mine[s]
  BY DEF TypeOK, Tidy
<1>4. TypeOK'
  BY <1>1, <1>2, <1>3, Translations DEF TypeOK
<1>5. Tidy'
  BY <1>1, <1>2, <1>3 DEF Tidy, TypeOK, Busy, Open
<1>6. Answers'
  BY <1>1, <1>2, <1>3, Translations DEF Answers, TypeOK
<1>7. Read' /\ Rows'
  BY <1>1, <1>2, <1>3 DEF Read, Rows, Tidy, TypeOK, Busy
<1>8. Refunds'
  <2> SUFFICES ASSUME NEW p \in Orders \ excused'
               PROVE  /\ refunds'[p] # 2
                      /\ refunds'[p] = 1 => status'[p] = "anulowano" \/ Pending(p)' # {}
    BY DEF Refunds
  <2>1. CASE p # o
    BY <1>1, <1>2, <1>3, <2>1 DEF Refunds, Pending, TypeOK
  <2>2. CASE p = o
    <3>1. status[o] # "anulowano" /\ Pending(o) = {} /\ o \notin excused
      BY <1>1, <1>3, <2>2 DEF Read, Busy, Cancellable
    <3>2. refunds[o] = 0 /\ refunds'[o] \in {0, 1}
      BY <1>1, <1>3, <3>1 DEF Refunds, TypeOK
    <3>3. s \in Pending(o)'
      <4>1. got'[s][o] = IF sent THEN "CANCELLED" ELSE "nothing"
        BY <1>1, <1>3 DEF TypeOK
      <4>2. got'[s][o] # None
        BY <4>1, NoneAssumption, Translations
      <4> QED
        BY <1>1, <1>2, <4>2 DEF Pending
    <3> QED
      BY <2>2, <3>2, <3>3
  <2> QED
    BY <2>1, <2>2
<1> QED
  BY <1>4, <1>5, <1>6, <1>7, <1>8

(* A session decides what to write: by the newest row there is.            *)
LEMMA WantedRow ==
  ASSUME IInv, NEW s \in Sessions, NEW o \in Orders, Busy(s),
         kind[s] \in Asks \cup {"cancel"} => got[s][o] # None
  PROVE  Wanted(s, o) \in Status \cup {None}
<1> USE DEF IInv
<1>1. kind[s] \in Kinds /\ seen[s][o] \in Status \cup {None}
  BY DEF Tidy, TypeOK, Busy
<1>2. CASE kind[s] \in {"import", "fulfilment"}
  <2>1. got[s][o] \in DOMAIN Imported
    BY <1>2 DEF Answers, Asks
  <2> QED
    BY <1>2, <2>1, Translations DEF Wanted
<1>3. CASE kind[s] \in {"parcels", "track"}
  <2>1. got[s][o] \in Status \cup {"nothing"}
    BY <1>3 DEF Answers, Asks
  <2> QED
    BY <1>3, <2>1 DEF Wanted
<1>4. CASE kind[s] \notin {"import", "fulfilment", "parcels", "track"}
  BY <1>1, <1>4, Statuses DEF Wanted, Withdrawn, Kinds, AgentKinds, SchedKinds, WebKinds
<1> QED
  BY <1>2, <1>3, <1>4

LEMMA DecideStep == ASSUME IInv, NEW s \in Sessions, Decide(s) PROVE IInv'
<1> USE DEF IInv
<1> DEFINE Row(o) == Added(kind[s], status[o], Wanted(s, o))
<1>1. PICK o \in todo[s] :
        /\ Busy(s) /\ (kind[s] \in Asks \cup {"cancel"} => got[s][o] # None)
        /\ row' = [row EXCEPT ![s][o] = Row(o)]
        /\ todo' = [todo EXCEPT ![s] = @ \ {o}]
        /\ got' = IF kind[s] = "cancel" THEN got ELSE [got EXCEPT ![s][o] = None]
        /\ form' = IF kind[s] = "track" /\ Wanted(s, o) = "wyslano"
                       /\ form[o] \in {"PAID", "PROCESSING"}
                   THEN [form EXCEPT ![o] = "SENT"] ELSE form
  BY DEF Decide, Busy
<1>2. /\ pc' = [pc EXCEPT ![s] = "open"]
      /\ older' = IF pc[s] = "between" THEN [older EXCEPT ![s] = Open(s)] ELSE older
      /\ UNCHANGED <<status, labelled, returned, parcel, kind, mine, seen, behind, stale, collected,
                     refunds, excused, web, faults>>
  BY DEF Decide, history
<1>3. o \in Orders /\ o \in mine[s] /\ status[o] \in Status
  BY DEF TypeOK, Tidy
<1>4. Wanted(s, o) \in Status \cup {None}
  BY <1>1, <1>3, WantedRow
<1>5. Row(o) \in {Wanted(s, o), None}
  BY <1>3, <1>4, AddedRow
<1> HIDE DEF Row
<1>6. TypeOK'
  <2>1. row' \in [Sessions -> [Orders -> Status \cup {None}]]
    BY <1>1, <1>3, <1>4, <1>5 DEF TypeOK
  <2>2. got' \in [Sessions -> [Orders -> Status \cup DOMAIN Imported \cup {None, "nothing"}]]
    BY <1>1, <1>3 DEF TypeOK
  <2>3. form' \in [Orders -> DOMAIN Imported]
    BY <1>1, <1>3, Translations DEF TypeOK
  <2>4. older' \in [Sessions -> SUBSET Sessions] /\ todo' \in [Sessions -> SUBSET Orders]
    BY <1>1, <1>2 DEF TypeOK, Open
  <2>5. pc' \in [Sessions -> {"idle", "open", "between", "telling"}]
    BY <1>2 DEF TypeOK
  <2> QED
    BY <1>2, <2>1, <2>2, <2>3, <2>4, <2>5 DEF TypeOK
<1>7. Tidy'
  <2> SUFFICES ASSUME NEW t \in Sessions
               PROVE
      /\ ~Busy(t)' => row'[t] = NoRows /\ older'[t] = {} /\ behind'[t] = {} /\ stale'[t] = {}
      /\ pc'[t] = "idle" => mine'[t] = {} /\ todo'[t] = {} /\ got'[t] = NoRows
      /\ todo'[t] \subseteq mine'[t] /\ older'[t] \subseteq Open(t)' /\ behind'[t] \subseteq stale'[t]
      /\ \A p \in Orders : /\ row'[t][p] # None => p \in mine'[t] \ todo'[t]
                           /\ got'[t][p] # None => p \in mine'[t]
      /\ pc'[t] # "idle" => kind'[t] \in Kinds
      /\ pc'[t] = "between" => todo'[t] = mine'[t] /\ kind'[t] = "track"
    BY <1>2 DEF Tidy, Busy
  <2>1. older'[t] \subseteq Open(t)'
    BY <1>2 DEF Tidy, TypeOK, Open
  <2>2. CASE t # s
    BY <1>1, <1>2, <2>1, <2>2 DEF Tidy, TypeOK, Busy
  <2>3. CASE t = s
    <3>1. \A p \in Orders : /\ row'[s][p] # None => p \in mine[s] \ todo'[s]
                            /\ got'[s][p] # None => p \in mine[s]
      BY <1>1, <1>3 DEF Tidy, TypeOK
    <3> QED
      BY <1>1, <1>2, <2>1, <2>3, <3>1 DEF Tidy, TypeOK, Busy
  <2> QED
    BY <2>2, <2>3
<1>8. Answers'
  BY <1>1, <1>2, <1>3 DEF Answers, TypeOK
<1>9. Read'
  BY <1>1, <1>2 DEF Read, TypeOK, Busy
<1>10. Rows'
  <2> SUFFICES ASSUME NEW t \in Sessions, NEW p \in Orders, Busy(t)', p \notin stale[t]
               PROVE  /\ row'[t][p] # None => Life!May(status[p], row'[t][p])
                      /\ kind[t] = "cancel" /\ p \in mine[t] \ todo'[t] =>
                           row'[t][p] = "anulowano" /\ got'[t][p] # None
    BY <1>2 DEF Rows, Busy, Life!May
  <2>1. CASE t # s
    <3>1. row'[t] = row[t] /\ got'[t] = got[t] /\ todo'[t] = todo[t] /\ Busy(t)
      BY <1>1, <1>2, <2>1 DEF TypeOK, Busy
    <3> QED
      BY <3>1 DEF Rows
  <2>2. CASE t = s /\ p # o
    <3>1. row'[s][p] = row[s][p] /\ got'[s][p] = got[s][p] /\ (p \in todo'[s] <=> p \in todo[s])
      BY <1>1, <1>3, <2>2 DEF TypeOK
    <3> QED
      BY <1>1, <2>2, <3>1 DEF Rows
  <2>3. CASE t = s /\ p = o
    <3>1. row'[s][o] = Row(o)
      BY <1>1, <1>3 DEF TypeOK
    <3>2. Row(o) # None => Life!May(status[o], Row(o))
      <4>1. CASE kind[s] \notin Forced
        BY <1>3, <1>4, <4>1, AddedRow DEF Row
      <4>2. CASE kind[s] \in Forced
        <5>1. Row(o) # None => Row(o) \in {"anulowano", "dostarczono", status[o]}
          BY <1>1, <1>3, <1>5, <2>3, <4>2 DEF Forced, Wanted, Withdrawn, Read
        <5> QED
          BY <1>3, <5>1, MayBeForced
      <4> QED
        BY <4>1, <4>2
    <3>3. kind[s] = "cancel" => Row(o) = "anulowano" /\ got'[s][o] # None
      <4> SUFFICES ASSUME kind[s] = "cancel" PROVE Row(o) = "anulowano" /\ got'[s][o] # None
        OBVIOUS
      <4>1. status[o] # "anulowano" /\ Wanted(s, o) = "anulowano"
        BY <1>1, <1>3, <2>3 DEF Read, Cancellable, Wanted, Withdrawn
      <4>2. Row(o) = "anulowano"
        BY <1>3, <1>4, <4>1, AddedRow DEF Row
      <4> QED
        BY <1>1, <4>2
    <3> QED
      BY <2>3, <3>1, <3>2, <3>3
  <2> QED
    BY <2>1, <2>2, <2>3
<1>11. Refunds'
  <2> SUFFICES ASSUME NEW p \in Orders PROVE Pending(p) \subseteq Pending(p)'
    BY <1>2 DEF Refunds
  <2> QED
    BY <1>1, <1>2 DEF Pending, TypeOK
<1> QED
  BY <1>6, <1>7, <1>8, <1>9, <1>10, <1>11

-----------------------------------------------------------------------------
(* A transaction ends.  A commit makes its rows stale for the others, and  *)
(* a cancellation that nobody overlapped is shown by its commit.           *)
LEMMA ClosedTidy ==
  ASSUME IInv, NEW s \in Sessions, NEW orders, NEW shown, Closed(s, orders, shown),
         pc'[s] # "open", \A t \in Sessions \ {s} : pc'[t] = pc[t]
  PROVE  \A t \in Sessions :
           /\ older'[t] \subseteq Open(t)'
           /\ t = s => older'[t] = {} /\ behind'[t] = {}
           /\ t # s => /\ older'[t] = older[t] \ {s}
                       /\ \/ behind'[t] = behind[t]
                          \/ pc[t] = "open" /\ behind'[t] = behind[t] \cup shown
BY DEF IInv, Tidy, Closed, Open, TypeOK

LEMMA CommitStep == ASSUME IInv, NEW s \in Sessions, Commit(s) PROVE IInv'
<1> USE DEF IInv
<1>1. /\ pc[s] = "open" /\ todo[s] = {}
      /\ status' = [o \in Orders |-> IF o \in Shown(s) THEN row[s][o] ELSE status[o]]
      /\ excused' = excused \cup (Cancels(s) \cap stale[s])
                      \cup {o \in Shown(s) : status[o] = "anulowano" /\ row[s][o] # "anulowano"}
      /\ row' = [row EXCEPT ![s] = NoRows]
      /\ stale' = [t \in Sessions |->
           IF t = s THEN {}
           ELSE IF pc[t] \in {"open", "between"} THEN stale[t] \cup Written(s) ELSE stale[t]]
      /\ Closed(s, Written(s), Shown(s))
      /\ UNCHANGED <<form, parcel, collected, refunds, web, faults>>
  BY DEF Commit, outside
<1>2. \/ /\ kind[s] = "cancel" /\ pc' = [pc EXCEPT ![s] = "telling"]
         /\ UNCHANGED <<kind, mine, todo, seen, got>>
      \/ kind[s] # "cancel" /\ pc' = [pc EXCEPT ![s] = "idle"] /\ Ended(s)
  BY DEF Commit
<1>3. \A t \in Sessions \ {s} :
        /\ pc'[t] = pc[t] /\ kind'[t] = kind[t] /\ mine'[t] = mine[t] /\ todo'[t] = todo[t]
        /\ seen'[t] = seen[t] /\ got'[t] = got[t] /\ row'[t] = row[t]
  BY <1>1, <1>2 DEF Ended, TypeOK
<1>4. pc'[s] \in {"idle", "telling"} /\ row'[s] = NoRows /\ stale'[s] = {}
  BY <1>1, <1>2 DEF TypeOK
<1>5. \A t \in Sessions \ {s} : Busy(t) => stale'[t] = stale[t] \cup Written(s)
  BY <1>1 DEF Busy
<1>6. \A t \in Sessions :
           /\ older'[t] \subseteq Open(t)'
           /\ t = s => older'[t] = {} /\ behind'[t] = {}
           /\ t # s => /\ older'[t] = older[t] \ {s}
                       /\ \/ behind'[t] = behind[t]
                          \/ pc[t] = "open" /\ behind'[t] = behind[t] \cup Shown(s)
  BY <1>1, <1>3, <1>4, ClosedTidy
<1>7. /\ Written(s) \subseteq Orders /\ Shown(s) \subseteq Written(s)
      /\ \A o \in Written(s) : row[s][o] \in Status /\ o \in mine[s]
  BY DEF Written, Shown, TypeOK, Tidy
<1>8. TypeOK'
  <2>1. /\ status' \in [Orders -> Status] /\ excused' \subseteq Orders
        /\ labelled' \subseteq Orders /\ returned' \subseteq Orders
    <3>1. mine[s] \subseteq Orders
      BY DEF TypeOK
    <3>2. labelled' \subseteq Orders /\ returned' \subseteq Orders
      BY <3>1 DEF Commit, TypeOK
    <3>3. status' \in [Orders -> Status]
      BY <1>1, <1>7 DEF TypeOK
    <3>4. excused' \subseteq Orders
      BY <1>1, <1>7 DEF TypeOK, Cancels
    <3> QED
      BY <3>2, <3>3, <3>4
  <2>2. /\ row' \in [Sessions -> [Orders -> Status \cup {None}]]
        /\ stale' \in [Sessions -> SUBSET Orders]
    BY <1>1, <1>7 DEF TypeOK, NoRows
  <2>3. older' \in [Sessions -> SUBSET Sessions] /\ behind' \in [Sessions -> SUBSET Orders]
    BY <1>1, <1>7 DEF TypeOK, Closed
  <2>4. /\ pc' \in [Sessions -> {"idle", "open", "between", "telling"}]
        /\ kind' \in [Sessions -> Kinds \cup {None}] /\ mine' \in [Sessions -> SUBSET Orders]
        /\ todo' \in [Sessions -> SUBSET Orders]
        /\ seen' \in [Sessions -> [Orders -> Status \cup {None}]]
        /\ got' \in [Sessions -> [Orders -> Status \cup DOMAIN Imported \cup {None, "nothing"}]]
    <3>1. CASE UNCHANGED <<kind, mine, todo, seen, got>>
      BY <1>2, <3>1 DEF TypeOK
    <3>2. CASE pc' = [pc EXCEPT ![s] = "idle"] /\ Ended(s)
      BY <3>2 DEF Ended, TypeOK, NoRows
    <3> QED
      BY <1>2, <3>1, <3>2
  <2> QED
    BY <1>1, <2>1, <2>2, <2>3, <2>4 DEF TypeOK
<1>9. Tidy'
  <2> SUFFICES ASSUME NEW t \in Sessions
               PROVE
      /\ ~Busy(t)' => row'[t] = NoRows /\ older'[t] = {} /\ behind'[t] = {} /\ stale'[t] = {}
      /\ pc'[t] = "idle" => mine'[t] = {} /\ todo'[t] = {} /\ got'[t] = NoRows
      /\ todo'[t] \subseteq mine'[t] /\ older'[t] \subseteq Open(t)' /\ behind'[t] \subseteq stale'[t]
      /\ \A p \in Orders : /\ row'[t][p] # None => p \in mine'[t] \ todo'[t]
                           /\ got'[t][p] # None => p \in mine'[t]
      /\ pc'[t] # "idle" => kind'[t] \in Kinds
      /\ pc'[t] = "between" => todo'[t] = mine'[t] /\ kind'[t] = "track"
    BY DEF Tidy, Busy, NoRows
  <2>1. CASE t # s
    <3>1. Busy(t)' <=> Busy(t)
      BY <1>3, <2>1 DEF Busy
    <3>2. stale'[t] = IF Busy(t) THEN stale[t] \cup Written(s) ELSE stale[t]
      BY <1>1, <2>1 DEF Busy
    <3>3. behind'[t] \subseteq stale'[t]
      BY <1>6, <1>7, <2>1, <3>2 DEF Tidy, Busy
    <3>4. ~Busy(t) => row'[t] = NoRows /\ older'[t] = {} /\ behind'[t] = {} /\ stale'[t] = {}
      BY <1>3, <1>6, <2>1, <3>2 DEF Tidy, Busy
    <3> QED
      BY <1>3, <1>6, <2>1, <3>1, <3>3, <3>4 DEF Tidy
  <2>2. CASE t = s
    <3>1. \A p \in Orders : row'[s][p] = None
      BY <1>4 DEF NoRows
    <3>2. pc'[s] = "idle" => mine'[s] = {} /\ todo'[s] = {} /\ got'[s] = NoRows
      BY <1>2 DEF Ended, TypeOK
    <3>3. pc'[s] = "telling" => /\ mine'[s] = mine[s] /\ todo'[s] = {} /\ got'[s] = got[s]
                                /\ kind'[s] \in Kinds
      BY <1>1, <1>2 DEF Tidy, TypeOK
    <3>4. \A p \in Orders : got'[s][p] # None => p \in mine'[s]
      BY <1>4, <3>2, <3>3 DEF Tidy, NoRows
    <3> QED
      BY <1>4, <1>6, <2>2, <3>1, <3>2, <3>3, <3>4 DEF Busy
  <2> QED
    BY <2>1, <2>2
<1>10. Answers'
  <2> SUFFICES ASSUME NEW t \in Sessions, NEW p \in Orders, got'[t][p] # None
               PROVE  got'[t] = got[t] /\ kind'[t] = kind[t]
    BY DEF Answers
  <2>1. CASE t # s
    BY <1>3, <2>1
  <2>2. CASE t = s
    BY <1>2, <2>2 DEF Ended, TypeOK, NoRows
  <2> QED
    BY <2>1, <2>2
<1>11. \A t \in Sessions : Busy(t)' => t # s /\ Busy(t)
  BY <1>3, <1>4 DEF Busy
<1>12. \A t \in Sessions, o \in Orders :
         Busy(t)' /\ o \notin stale'[t] => o \notin stale[t] /\ status'[o] = status[o]
  BY <1>1, <1>5, <1>7, <1>11
<1>13. Read'
  <2> SUFFICES ASSUME NEW t \in Sessions, Busy(t)', NEW o \in mine'[t] \ stale'[t]
               PROVE  /\ kind'[t] = "edit" => seen'[t][o] = status'[o]
                      /\ kind'[t] = "cancel" => status'[o] \in Cancellable
                      /\ kind'[t] \in Pollers => status'[o] # "anulowano"
    BY DEF Read, Busy
  <2> QED
    BY <1>3, <1>11, <1>12 DEF Read, TypeOK
<1>14. Rows'
  <2> SUFFICES ASSUME NEW t \in Sessions, NEW o \in Orders, Busy(t)', o \notin stale'[t]
               PROVE  /\ row'[t][o] # None => Life!May(status'[o], row'[t][o])
                      /\ kind'[t] = "cancel" /\ o \in mine'[t] \ todo'[t] =>
                           row'[t][o] = "anulowano" /\ got'[t][o] # None
    BY DEF Rows, Busy, Life!May
  <2> QED
    BY <1>3, <1>11, <1>12 DEF Rows
<1>15. Refunds'
  <2> SUFFICES ASSUME NEW o \in Orders, o \notin excused'
               PROVE  /\ refunds[o] # 2
                      /\ refunds[o] = 1 => status'[o] = "anulowano" \/ Pending(o)' # {}
    BY <1>1 DEF Refunds
  <2>1. o \notin excused /\ refunds[o] # 2
    BY <1>1 DEF Refunds
  <2>2. ASSUME status[o] = "anulowano" PROVE status'[o] = "anulowano"
    BY <1>1, <2>2
  <2>3. ASSUME NEW t \in Pending(o) PROVE status'[o] = "anulowano" \/ Pending(o)' # {}
    <3>1. CASE t # s
      BY <1>3, <3>1 DEF Pending
    <3>2. CASE t = s
      <4>1. kind[s] = "cancel" /\ o \in Cancels(s) /\ o \in mine[s] \ todo[s]
        BY <1>1, <3>2 DEF Pending, Cancels, Tidy
      <4>2. o \notin stale[s]
        BY <1>1, <4>1
      <4>3. row[s][o] = "anulowano"
        BY <1>1, <4>1, <4>2 DEF Rows, Busy
      <4>4. o \in Shown(s)
        BY <4>2, <4>3, Statuses, NoneAssumption DEF Shown, Written, Tidy
      <4> QED
        BY <1>1, <4>3, <4>4
    <3> QED
      BY <3>1, <3>2
  <2> QED
    BY <2>1, <2>2, <2>3 DEF Refunds
<1> QED
  BY <1>8, <1>9, <1>10, <1>13, <1>14, <1>15

(* A session is over, having written nothing since it told or because it raised. *)
LEMMA OverStep ==
  ASSUME IInv, NEW s \in Sessions, TellAllegro(s) \/ Abort(s)
  PROVE  IInv'
<1> USE DEF IInv
<1>1. /\ pc' = [pc EXCEPT ![s] = "idle"] /\ Ended(s) /\ row' = [row EXCEPT ![s] = NoRows]
      /\ stale' = [stale EXCEPT ![s] = {}]
      /\ UNCHANGED <<status, labelled, returned, parcel, collected, refunds, web>>
      /\ excused \subseteq excused' /\ excused' \subseteq Orders /\ faults' \in 0..MaxFaults
      /\ form' \in [Orders -> DOMAIN Imported]
  <2>1. CASE TellAllegro(s)
    <3>1. ~Busy(s) /\ row[s] = NoRows /\ stale[s] = {}
      BY <2>1 DEF TellAllegro, Busy, Tidy
    <3>2. row = [row EXCEPT ![s] = NoRows] /\ stale = [stale EXCEPT ![s] = {}]
      BY <3>1 DEF TypeOK
    <3>3. form' \in [Orders -> DOMAIN Imported]
      BY <2>1, Translations DEF TellAllegro, TypeOK
    <3>4. excused' = excused /\ faults' \in 0..MaxFaults
      BY <2>1 DEF TellAllegro, TypeOK, history
    <3> QED
      BY <2>1, <3>2, <3>3, <3>4 DEF TellAllegro, TypeOK, order, history
  <2>2. CASE Abort(s)
    BY <2>2, BoundsAssumption DEF Abort, TypeOK, Cancels, outside
  <2> QED
    BY <2>1, <2>2
<1>2. \A t \in Sessions \ {s} :
        /\ pc'[t] = pc[t] /\ kind'[t] = kind[t] /\ mine'[t] = mine[t] /\ todo'[t] = todo[t]
        /\ seen'[t] = seen[t] /\ got'[t] = got[t] /\ row'[t] = row[t] /\ stale'[t] = stale[t]
  BY <1>1 DEF Ended, TypeOK
<1>3. /\ pc'[s] = "idle" /\ row'[s] = NoRows /\ stale'[s] = {}
      /\ kind'[s] = None /\ mine'[s] = {} /\ todo'[s] = {} /\ got'[s] = NoRows
  BY <1>1 DEF Ended, TypeOK
<1>4. /\ older' \in [Sessions -> SUBSET Sessions] /\ behind' \in [Sessions -> SUBSET Orders]
      /\ older'[s] = {} /\ behind'[s] = {}
      /\ \A t \in Sessions \ {s} : /\ older'[t] \subseteq older[t] \ {s} \/ older'[t] = older[t]
                                   /\ older'[t] \subseteq Open(t)' /\ behind'[t] = behind[t]
  <2>1. CASE TellAllegro(s)
    <3>1. older' = older /\ behind' = behind /\ pc[s] = "telling" /\ ~Busy(s)
      BY <2>1 DEF TellAllegro, order, Busy
    <3>2. \A t \in Sessions : Open(t) = Open(t)'
      BY <1>2, <1>3, <3>1 DEF Open
    <3> QED
      BY <3>1, <3>2 DEF TypeOK, Tidy
  <2>2. CASE Abort(s)
    BY <1>1, <2>2 DEF Abort, Closed, TypeOK, Tidy, Open
  <2> QED
    BY <2>1, <2>2
<1>5. TypeOK'
  BY <1>1, <1>4 DEF TypeOK, Ended, NoRows
<1>6. Tidy'
  <2> SUFFICES ASSUME NEW t \in Sessions
               PROVE
      /\ ~Busy(t)' => row'[t] = NoRows /\ older'[t] = {} /\ behind'[t] = {} /\ stale'[t] = {}
      /\ pc'[t] = "idle" => mine'[t] = {} /\ todo'[t] = {} /\ got'[t] = NoRows
      /\ todo'[t] \subseteq mine'[t] /\ older'[t] \subseteq Open(t)' /\ behind'[t] \subseteq stale'[t]
      /\ \A p \in Orders : /\ row'[t][p] # None => p \in mine'[t] \ todo'[t]
                           /\ got'[t][p] # None => p \in mine'[t]
      /\ pc'[t] # "idle" => kind'[t] \in Kinds
      /\ pc'[t] = "between" => todo'[t] = mine'[t] /\ kind'[t] = "track"
    BY DEF Tidy, Busy, NoRows
  <2>1. CASE t # s
    BY <1>2, <1>4, <2>1 DEF Tidy, Busy
  <2>2. CASE t = s
    BY <1>3, <1>4, <2>2 DEF Busy, NoRows
  <2> QED
    BY <2>1, <2>2
<1>7. Answers'
  BY <1>2, <1>3 DEF Answers, NoRows
<1>8. \A t \in Sessions : Busy(t)' => t # s /\ Busy(t)
  BY <1>2, <1>3 DEF Busy
<1>9. Read'
  <2> SUFFICES ASSUME NEW t \in Sessions, Busy(t)', NEW o \in mine'[t] \ stale'[t]
               PROVE  /\ kind'[t] = "edit" => seen'[t][o] = status'[o]
                      /\ kind'[t] = "cancel" => status'[o] \in Cancellable
                      /\ kind'[t] \in Pollers => status'[o] # "anulowano"
    BY DEF Read, Busy
  <2> QED
    BY <1>1, <1>2, <1>8 DEF Read
<1>10. Rows'
  <2> SUFFICES ASSUME NEW t \in Sessions, NEW o \in Orders, Busy(t)', o \notin stale'[t]
               PROVE  /\ row'[t][o] # None => Life!May(status'[o], row'[t][o])
                      /\ kind'[t] = "cancel" /\ o \in mine'[t] \ todo'[t] =>
                           row'[t][o] = "anulowano" /\ got'[t][o] # None
    BY DEF Rows, Busy, Life!May
  <2> QED
    BY <1>1, <1>2, <1>8 DEF Rows
<1>11. Refunds'
  <2> SUFFICES ASSUME NEW o \in Orders, o \notin excused', NEW t \in Pending(o)
               PROVE  t \in Pending(o)'
    BY <1>1 DEF Refunds
  <2>1. t # s
    <3>1. CASE TellAllegro(s)
      BY <3>1 DEF TellAllegro, Pending
    <3>2. CASE Abort(s)
      BY <3>2 DEF Abort, Pending, Cancels
    <3> QED
      BY <3>1, <3>2
  <2> QED
    BY <1>2, <2>1 DEF Pending
<1> QED
  BY <1>5, <1>6, <1>7, <1>9, <1>10, <1>11

(* Sessions begin with what their kind looks for. *)
LEMMA BeginStep ==
  ASSUME IInv,
         \/ BeginPrint \/ BeginError \/ BeginTrack \/ BeginFulfilment \/ BeginParcels
         \/ BeginImport \/ BeginUnpaid \/ BeginReturned \/ BeginExpire
         \/ \E s \in Web : \/ BeginCancel(s) \/ BeginScan(s) \/ BeginEdit(s)
                           \/ BeginReprint(s) \/ BeginReturn(s)
  PROVE  IInv'
<1>1. /\ labelled \subseteq Orders /\ returned \subseteq Orders /\ collected \subseteq Orders
      /\ web \in 0..MaxWeb /\ MaxWeb \in Nat /\ Agent \in Sessions /\ Sched \in Sessions
      /\ Web \subseteq Sessions
  BY BoundsAssumption DEF IInv, TypeOK, Sessions
<1>2. ASSUME BeginPrint \/ BeginError PROVE IInv'
  <2>1. PICK o \in collected, k \in {"print", "error"} :
          Starts(Agent, k, {o}, "open") /\ collected' = collected \ {o} /\ web' = web
    BY <1>2 DEF BeginPrint, BeginError, Begin
  <2>2. k \in Kinds /\ k \notin Pollers /\ k # "cancel" /\ {o} \in SUBSET Orders
    BY <1>1 DEF Kinds, AgentKinds, Pollers
  <2> QED
    BY <1>1, <2>1, <2>2, StartStep
<1>3. ASSUME BeginTrack PROVE IInv'
  <2>1. PICK o \in labelled, at \in {"open", "between"} :
          status[o] \notin Untracked /\ Starts(Agent, "track", {o}, at)
          /\ collected' = collected /\ web' = web
    BY <1>3 DEF BeginTrack
  <2>2. "track" \in Kinds /\ {o} \in SUBSET Orders /\ status[o] # "anulowano"
    BY <1>1, <2>1 DEF Kinds, AgentKinds, Untracked
  <2> QED
    BY <1>1, <2>1, <2>2, StartStep
<1>4. ASSUME BeginFulfilment \/ BeginParcels \/ BeginImport \/ BeginUnpaid \/ BeginReturned \/ BeginExpire
      PROVE  IInv'
  <2>1. PICK k \in SchedKinds, orders \in SUBSET Orders :
          /\ Starts(Sched, k, orders, "open") /\ collected' = collected /\ web' = web
          /\ k \in Pollers => \A o \in orders : status[o] # "anulowano"
    <3>1. CASE BeginFulfilment
      BY <3>1 DEF BeginFulfilment, Begin, SchedKinds, Active
    <3>2. CASE BeginParcels
      BY <1>1, <3>2 DEF BeginParcels, Begin, SchedKinds, Active
    <3>3. CASE BeginImport
      BY <3>3 DEF BeginImport, Begin, SchedKinds, Pollers
    <3>4. CASE BeginUnpaid
      BY <3>4 DEF BeginUnpaid, Begin, SchedKinds
    <3>5. CASE BeginReturned
      BY <3>5 DEF BeginReturned, Begin, SchedKinds, Pollers
    <3>6. CASE BeginExpire
      BY <1>1, <3>6 DEF BeginExpire, Begin, SchedKinds, Pollers
    <3> QED
      BY <1>4, <3>1, <3>2, <3>3, <3>4, <3>5, <3>6
  <2>2. k \in Kinds /\ k # "cancel"
    BY DEF Kinds, SchedKinds
  <2> QED
    BY <1>1, <2>1, <2>2, StartStep
<1>5. ASSUME NEW s \in Web,
             BeginCancel(s) \/ BeginScan(s) \/ BeginEdit(s) \/ BeginReprint(s) \/ BeginReturn(s)
      PROVE  IInv'
  <2>1. PICK k \in WebKinds, o \in Orders :
          /\ Starts(s, k, {o}, "open") /\ web < MaxWeb /\ web' = web + 1 /\ collected' = collected
          /\ k = "cancel" => status[o] \in Cancellable
          /\ k \in Pollers => status[o] # "anulowano"
    <3>1. CASE BeginCancel(s)
      BY <3>1 DEF BeginCancel, Request, Begin, WebKinds, Pollers
    <3>2. CASE BeginScan(s)
      BY <3>2 DEF BeginScan, Request, Begin, WebKinds
    <3>3. CASE BeginEdit(s)
      BY <3>3 DEF BeginEdit, Request, Begin, WebKinds, Pollers
    <3>4. CASE BeginReprint(s)
      BY <1>1, <3>4 DEF BeginReprint, Request, Begin, WebKinds, Pollers
    <3>5. CASE BeginReturn(s)
      BY <3>5 DEF BeginReturn, Request, Begin, WebKinds, Pollers
    <3> QED
      BY <1>5, <3>1, <3>2, <3>3, <3>4, <3>5
  <2>2. k \in Kinds /\ web' \in 0..MaxWeb /\ s \in Sessions
    BY <1>1, <2>1 DEF Kinds
  <2> QED
    BY <1>1, <2>1, <2>2, StartStep
<1> QED
  BY <1>2, <1>3, <1>4, <1>5

LEMMA Inductive == IInv /\ [Next]_vars => IInv'
<1>1. ASSUME IInv, UNCHANGED vars PROVE IInv'
  BY <1>1 DEF vars, outside, session, order, history, IInv, TypeOK, Tidy, Answers, Read, Rows,
              Refunds, Busy, Open, Pending, Life!May
<1>2. ASSUME IInv, Next PROVE IInv'
  <2>1. CASE \E o \in Orders : Pay(o) \/ BuyerCancels(o) \/ PickedUp(o) \/ Carry(o) \/ Collect(o)
    BY <1>2, <2>1, ElsewhereStep
  <2>2. CASE \E s \in Sessions : SessionStep(s) \/ Abort(s)
    BY <1>2, <2>2, AskStep, RefundStep, DecideStep, CommitStep, OverStep DEF SessionStep
  <2> QED
    BY <1>2, <2>1, <2>2, BeginStep DEF Next
<1> QED
  BY <1>1, <1>2

LEMMA Invariant == Spec => []IInv
BY Initially, Inductive, PTL DEF Spec

-----------------------------------------------------------------------------
(* The log, the sessions and the order of the transactions keep their      *)
(* types, whatever sessions overlap (services/order_status.py:100).        *)
THEOREM StatusTypes == Spec => []TypeOK
BY Invariant, PTL DEF IInv

(* cancel_order sends a second refund of an order only if a cancellation   *)
(* was lost, overlapped or revoked (services/order_cancel.py:139).         *)
THEOREM RefundsOnce == Spec => []RefundOnce
<1>1. IInv => RefundOnce
  BY DEF IInv, Refunds, RefundOnce
<1> QED
  BY <1>1, Invariant, PTL

(* Only a commit changes the statuses, and to the rows it shows. *)
LEMMA OnlyCommitsShow ==
  ASSUME IInv, [Next]_vars, NEW o \in Orders, status'[o] # status[o]
  PROVE  \E s \in Sessions : /\ pc[s] = "open" /\ row[s][o] = status'[o] /\ row[s][o] # None
                             /\ o \in mine[s]
<1>1. PICK s \in Sessions : Commit(s)
  BY DEF Next, SessionStep, vars, Pay, BuyerCancels, PickedUp, Outside, Carry, Collect,
         BeginPrint, BeginError, BeginTrack, BeginFulfilment, BeginParcels, BeginImport,
         BeginUnpaid, BeginReturned, BeginExpire, BeginCancel, BeginScan, BeginEdit,
         BeginReprint, BeginReturn, Request, Begin, Starts, Ask, Refund, Decide, TellAllegro, Abort
<1> QED
  BY <1>1 DEF Commit, Shown, Written, IInv, Tidy, TypeOK

(* A cancelled order is left alone by the sessions that go by its status,  *)
(* unless it was cancelled while they were at work (parcel_tracking.py:195,*)
(* services/order_fulfillment_sync.py:46, services/scanning.py:182).       *)
THEOREM CancelledStay == Spec => PollersLeaveCancelled
<1> DEFINE A == \A o \in Orders : status[o] = "anulowano" /\ status'[o] # "anulowano" =>
                  \E s \in Sessions : /\ pc[s] = "open" /\ row[s][o] = status'[o]
                                      /\ kind[s] \in Pollers => o \in stale[s]
<1>1. ASSUME IInv, [Next]_vars PROVE A
  <2> SUFFICES ASSUME NEW o \in Orders, status[o] = "anulowano", status'[o] # "anulowano"
               PROVE  \E s \in Sessions : /\ pc[s] = "open" /\ row[s][o] = status'[o]
                                          /\ kind[s] \in Pollers => o \in stale[s]
    OBVIOUS
  <2>1. PICK s \in Sessions : pc[s] = "open" /\ row[s][o] = status'[o] /\ o \in mine[s]
    BY <1>1, OnlyCommitsShow
  <2> QED
    BY <1>1, <2>1 DEF IInv, Read, Busy
<1>2. A => [A]_vars
  OBVIOUS
<1> HIDE DEF A
<1>3. Spec => [][A]_vars
  BY <1>1, <1>2, Invariant, PTL DEF Spec
<1> QED
  BY <1>3 DEF PollersLeaveCancelled, A

(* The detailed specification implements the abstract life of an order:    *)
(* its status goes back only to or from a problem, unless two sessions     *)
(* overlapped (services/order_status.py:126-139).                          *)
THEOREM OrderStatusFollows == Spec => FollowsLife
<1> DEFINE Contested == {o \in Orders : \E s \in Sessions : row[s][o] # None /\ o \in stale[s]}
<1>1. Init => Life!Init
  BY Initially DEF Init, Life!Init, IInv, TypeOK, Status, NoRows
<1>2. IInv /\ IInv' /\ [Next]_vars => [Life!Change]_<<status, Contested>>
  <2> SUFFICES ASSUME IInv, IInv', [Next]_vars PROVE Life!Change
    OBVIOUS
  <2>1. status' \in [Orders -> DOMAIN Rank]
    BY DEF IInv, TypeOK, Status
  <2>2. ASSUME NEW o \in Orders \ Contested PROVE Life!May(status[o], status'[o])
    <3>1. CASE status'[o] = status[o]
      BY <3>1 DEF Life!May
    <3>2. CASE status'[o] # status[o]
      <4>1. PICK s \in Sessions : pc[s] = "open" /\ row[s][o] = status'[o] /\ row[s][o] # None
        BY <3>2, OnlyCommitsShow
      <4>2. o \notin stale[s]
        BY <2>2, <4>1
      <4> QED
        BY <4>1, <4>2 DEF IInv, Rows, Busy
    <3> QED
      BY <3>1, <3>2
  <2> QED
    BY <2>1, <2>2 DEF Life!Change
<1> QED
  BY <1>1, <1>2, Invariant, PTL DEF Spec, FollowsLife, Life!Spec

-----------------------------------------------------------------------------
(***************************************************************************)
(* The goods of an order, for any variants, quantities, requests, imports  *)
(* and kills.  Until something goes wrong every piece that is missing from *)
(* a variant is with the buyer, was reported gone by an edit, or is about  *)
(* to be taken by the second session of an edit: these are counted.        *)
(***************************************************************************)
Known == Variants \cup {None}
Stages == {"new", "printed", "sent", "delivered", "returned", "cancelled"}
Sale == [variant : Variants, back : BOOLEAN]
Visit == [kind : {"none", "edit", "cancel", "restore"}, step : {"idle", "commit", "consume"},
            status : Stages, was : Known, new : Known, back : BOOLEAN]
GoodsTypes ==
  /\ qty \in [Variants -> Nat] /\ gone \in [Variants -> Nat] /\ killed \in Nat
  /\ sales \in Seq(Sale)
  /\ sold \in [status : Stages, line : Variants, ean : Variants, edited : BOOLEAN, sold : Variants]
  /\ return \in [step : {"none", "arrived", "restored"}, item : Known]
  /\ worker \in [step : {"idle", "consume", "mark"}, status : {"new", "printed"},
                 line : Known, ean : Known]
  /\ import \in [step : {"idle", "commit"}, edited : BOOLEAN]
  /\ req \in [Web -> Visit]

(* what the agent and the requests have in hand *)
InHand ==
  /\ worker.step # "idle" => worker.line \in Variants /\ worker.ean \in Variants
  /\ \A p \in Web :
       /\ req[p].kind = "edit" => /\ req[p].was \in Variants /\ req[p].new \in Variants
                                  /\ req[p].was # req[p].new
                                  /\ req[p].status \notin G!EDIT_BLOCKED_STATUSES
       /\ req[p].kind = "cancel" => req[p].status \in G!CANCEL_ALLOWED_STATUSES
       /\ req[p].kind = "restore" => return.item \in Variants /\ return.step # "none"
       /\ req[p].step = "consume" => req[p].kind = "edit" /\ G!Consumed

(* where an order can be as long as nothing went wrong *)
Course ==
  /\ worker.step = "consume" => ~G!Consumed
  /\ worker.step = "mark" => G!Consumed
  /\ import.step = "commit" /\ import.edited => sold.edited
  /\ ~sold.edited => sold.line = sold.sold /\ sold.ean = sold.sold
  /\ ~G!Consumed => sold.status \in {"new", "cancelled"} \/ worker.step = "consume"
  /\ return.step # "none" => sold.status = "returned" /\ return.item \in {sold.line, None}

(* the agent will find that the status is not what it began with *)
Doomed == worker.step # "idle" /\ sold.status # worker.status
Waiting(v) == {p \in Web : req[p].step = "consume" /\ req[p].new = v}
Held(v) == IF G!Out /\ sold.line = v THEN 1 ELSE 0
Balance == \A v \in Variants :
  /\ IsFiniteSet(Waiting(v))
  /\ ~Doomed => qty[v] = InStock[v] - gone[v] - Held(v) + Cardinality(Waiting(v))

GoodsInv == GoodsTypes /\ InHand /\ (excuses = {} /\ killed = 0 => Course /\ Balance)

-----------------------------------------------------------------------------
(* The sales of an order: one more, or one charged with a piece that came back. *)
LEMMA MoreSales ==
  ASSUME sales \in Seq(Sale), NEW v \in Variants
  PROVE  /\ G!Sold(sales, v) \in Seq(Sale) /\ G!Sold(sales, v) # <<>>
         /\ G!Charged(v) \in Seq(Sale) /\ (G!Charged(v) # <<>> <=> sales # <<>>)
<1>1. G!Sold(sales, v) \in Seq(Sale) /\ G!Sold(sales, v) # <<>>
  <2>1. PICK e : e = [variant |-> v, back |-> FALSE]
    OBVIOUS
  <2>2. e \in Sale
    BY <2>1 DEF Sale
  <2>3. Append(sales, e) \in Seq(Sale) /\ Append(sales, e) # <<>>
    BY <2>2, AppendProperties
  <2> QED
    BY <2>1, <2>3 DEF G!Sold
<1>2. PICK i : i = G!Min(G!Open(v))
  OBVIOUS
<1>3. PICK s : s = [sales EXCEPT ![i].back = TRUE]
  OBVIOUS
<1>4. PICK n \in Nat : n = Len(sales)
  OBVIOUS
<1>5. sales \in [1..n -> Sale]
  BY <1>4
<1>6. s \in [1..n -> Sale]
  <2>1. \A k \in 1..n : sales[k].variant \in Variants
    BY <1>5 DEF Sale
  <2>2. s = [k \in 1..n |-> IF k = i THEN [sales[k] EXCEPT !.back = TRUE] ELSE sales[k]]
    BY <1>3, <1>5
  <2>3. \A k \in 1..n : [sales[k] EXCEPT !.back = TRUE] \in Sale
    BY <1>5 DEF Sale
  <2> QED
    BY <2>2, <2>3, <1>5
<1>7. s \in Seq(Sale) /\ Len(s) = n
  BY <1>6, SeqDef, LenProperties
<1>8. s # <<>> <=> sales # <<>>
  BY <1>7, <1>4, EmptySeq
<1> QED
  BY <1>1, <1>2, <1>3, <1>7, <1>8 DEF G!Charged

(* A request that neither begins nor ends a second session waits for no piece. *)
LEMMA NobodyWaits ==
  ASSUME req \in [Web -> Visit], NEW p \in Web, NEW r \in Visit,
         req' = [req EXCEPT ![p] = r], req[p].step # "consume", r.step # "consume"
  PROVE  \A v \in Variants : Waiting(v)' = Waiting(v)
BY DEF Waiting

LEMMA TakenOne ==
  ASSUME qty \in [Variants -> Nat], NEW v \in Variants
  PROVE  /\ G!Taken(v) \in [Variants -> Nat]
         /\ qty[v] # 0 => G!Taken(v) = [qty EXCEPT ![v] = @ - 1]
<1>1. qty[v] \in Nat
  OBVIOUS
<1>2. PICK n \in Nat : n = IF qty[v] > 0 THEN qty[v] - 1 ELSE 0
  BY <1>1
<1>3. G!Taken(v) = [qty EXCEPT ![v] = n]
  BY <1>2 DEF G!Taken
<1>4. qty[v] # 0 => n = qty[v] - 1
  BY <1>1, <1>2
<1> QED
  BY <1>2, <1>3, <1>4

LEMMA OneMore ==
  ASSUME NEW f \in [Variants -> Nat], NEW v \in Variants
  PROVE  [f EXCEPT ![v] = @ + 1] \in [Variants -> Nat]
<1>1. PICK n \in Nat : n = f[v] + 1
  OBVIOUS
<1>2. [f EXCEPT ![v] = n] \in [Variants -> Nat]
  BY <1>1
<1> QED
  BY <1>1, <1>2

LEMMA GoodsStart == InitAll => GoodsInv
<1> SUFFICES ASSUME InitAll PROVE GoodsInv
  OBVIOUS
<1>1. GoodsTypes /\ InHand /\ Course
  BY PartsAssumption DEF InitAll, G!Init, GoodsTypes, InHand, Course, Known, Stages, Sale, Visit,
     G!Idle, G!Rest, G!Away, G!Consumed
<1>2. Balance
  <2> SUFFICES ASSUME NEW v \in Variants
               PROVE  /\ IsFiniteSet(Waiting(v))
                      /\ qty[v] = InStock[v] - gone[v] - Held(v) + Cardinality(Waiting(v))
    BY DEF Balance
  <2>1. Waiting(v) = {}
    BY DEF Waiting, InitAll, G!Init, G!Rest
  <2>2. Held(v) = 0 /\ gone[v] = 0 /\ qty[v] = InStock[v] /\ InStock[v] \in Nat
    BY PartsAssumption DEF InitAll, G!Init, Held, G!Out, G!Consumed
  <2> QED
    BY <2>1, <2>2, FS_EmptySet
<1> QED
  BY <1>1, <1>2 DEF GoodsInv

-----------------------------------------------------------------------------
(* One step at a time. *)
LEMMA StillBalanced ==
  ASSUME GoodsTypes, Balance, gone' = gone, qty' \in [Variants -> Nat],
         \A v \in Variants : Waiting(v)' = Waiting(v),
         ~Doomed, \A v \in Variants : qty'[v] + Held(v)' = qty[v] + Held(v)
  PROVE  Balance'
<1> SUFFICES ASSUME NEW v \in Variants
             PROVE  /\ IsFiniteSet(Waiting(v)')
                    /\ ~Doomed' => qty'[v] = InStock[v] - gone'[v] - Held(v)' + Cardinality(Waiting(v)')
  BY DEF Balance
<1>1. IsFiniteSet(Waiting(v)) /\ Cardinality(Waiting(v)) \in Nat
  BY FS_CardinalityType DEF Balance
<1>2. qty[v] \in Nat /\ gone[v] \in Nat /\ InStock[v] \in Nat /\ qty'[v] \in Nat
  BY PartsAssumption DEF GoodsTypes
<1>3. Held(v) \in Nat /\ Held(v)' \in Nat
  BY DEF Held
<1>4. ASSUME ~Doomed' PROVE qty[v] = InStock[v] - gone[v] - Held(v) + Cardinality(Waiting(v))
  BY <1>4 DEF Balance
<1> QED
  BY <1>1, <1>2, <1>3, <1>4

LEMMA NothingClaimed ==
  ASSUME Balance, \A v \in Variants : Waiting(v)' = Waiting(v), Doomed'
  PROVE  Balance'
BY DEF Balance

LEMMA AgentGoods ==
  ASSUME GoodsInv, excuses = {},
         G!Collect \/ G!HoldUntilMorning \/ G!ConsumeOrder \/ G!MarkAsPrinted
  PROVE  GoodsInv'
<1> USE DEF GoodsInv
<1>0. UNCHANGED <<return, import, req, gone, killed>> /\ \A v \in Variants : Waiting(v)' = Waiting(v)
  BY DEF G!Collect, G!HoldUntilMorning, G!ConsumeOrder, G!MarkAsPrinted, G!books, G!AgentOnly, Waiting
<1>1. CASE G!Collect
  <2>1. /\ worker.step = "idle" /\ sold.status = "new" /\ ~G!Consumed
        /\ worker' = [step |-> "consume", status |-> "new", line |-> sold.line, ean |-> sold.ean]
        /\ UNCHANGED <<qty, sales, sold, excuses>>
    BY <1>1 DEF G!Collect, G!books
  <2>2. GoodsTypes'
    BY <1>0, <2>1 DEF GoodsTypes, Known
  <2>3. InHand'
    BY <1>0, <2>1 DEF GoodsTypes, InHand, G!Consumed
  <2>4. ASSUME excuses' = {}, killed' = 0 PROVE Course' /\ Balance'
    <3>1. Course /\ Balance
      BY <2>4, <1>0
    <3>2. Course'
      BY <1>0, <2>1, <3>1 DEF Course, G!Consumed
    <3>3. ~Doomed /\ \A v \in Variants : qty'[v] + Held(v)' = qty[v] + Held(v)
      BY <1>0, <2>1 DEF Doomed, Held, G!Out, G!Consumed
    <3> QED
      BY <1>0, <2>2, <3>1, <3>2, <3>3, StillBalanced DEF GoodsTypes
  <2> QED
    BY <2>2, <2>3, <2>4
<1>2. CASE G!HoldUntilMorning
  <2>1. /\ worker.step = "consume" /\ worker.status = "new"
        /\ worker' = [worker EXCEPT !.status = "printed"] /\ sold' = [sold EXCEPT !.status = "printed"]
        /\ excuses' = {} => sold.status = "new"
        /\ UNCHANGED <<qty, sales>>
    BY <1>2 DEF G!HoldUntilMorning, G!Marked, G!Excuse
  <2>2. GoodsTypes'
    BY <1>0, <2>1 DEF GoodsTypes, Stages
  <2>3. InHand'
    BY <1>0, <2>1, <2>2 DEF GoodsTypes, InHand, G!Consumed
  <2>4. ASSUME excuses' = {}, killed' = 0 PROVE Course' /\ Balance'
    <3>1. Course /\ Balance /\ sold.status = "new"
      BY <2>4, <1>0, <2>1
    <3>2. /\ worker'.step = "consume" /\ worker'.status = "printed" /\ sold'.status = "printed"
          /\ sold'.line = sold.line /\ sold'.ean = sold.ean /\ sold'.sold = sold.sold
          /\ sold'.edited = sold.edited
      BY <2>1 DEF GoodsTypes
    <3>3. Course'
      BY <1>0, <2>1, <3>1, <3>2 DEF Course, G!Consumed
    <3>4. ~Doomed /\ \A v \in Variants : qty'[v] + Held(v)' = qty[v] + Held(v)
      BY <1>0, <2>1, <3>1, <3>2 DEF Doomed, Held, G!Out, G!Consumed
    <3> QED
      BY <1>0, <2>2, <3>1, <3>3, <3>4, StillBalanced DEF GoodsTypes
  <2> QED
    BY <2>2, <2>3, <2>4
<1>3. CASE G!ConsumeOrder
  <2> DEFINE ean == worker.ean
  <2>1. /\ worker.step = "consume" /\ worker' = [worker EXCEPT !.step = "mark"]
        /\ qty' = G!Taken(ean) /\ sales' = G!Sold(sales, ean)
        /\ excuses' = {} => qty[ean] # 0 /\ worker.line = ean /\ worker.line = sold.line
        /\ UNCHANGED sold
    BY <1>3 DEF G!ConsumeOrder
  <2>2. /\ ean \in Variants /\ qty' \in [Variants -> Nat]
        /\ qty[ean] # 0 => qty' = [qty EXCEPT ![ean] = @ - 1]
        /\ sales' \in Seq(Sale) /\ sales' # <<>>
    BY <2>1, TakenOne, MoreSales DEF GoodsTypes, InHand
  <2>3. GoodsTypes'
    BY <1>0, <2>1, <2>2 DEF GoodsTypes
  <2>4. InHand'
    BY <1>0, <2>1, <2>2, <2>3 DEF GoodsTypes, InHand, G!Consumed
  <2>5. ASSUME excuses' = {}, killed' = 0 PROVE Course' /\ Balance'
    <3>1. Course /\ Balance /\ ~G!Consumed
      BY <2>5, <1>0, <2>1 DEF Course
    <3>2. worker'.step = "mark" /\ worker'.status = worker.status /\ worker.status \in {"new", "printed"}
      BY <2>1 DEF GoodsTypes
    <3>3. Course'
      BY <1>0, <2>1, <2>2, <3>1, <3>2 DEF Course, G!Consumed
    <3>4. CASE Doomed'
      BY <1>0, <3>1, <3>3, <3>4, NothingClaimed
    <3>5. CASE ~Doomed'
      <4>1. ~Doomed /\ return.step = "none" /\ sold.status \in {"new", "printed"}
        BY <2>1, <3>1, <3>2, <3>5 DEF Doomed, Course, GoodsTypes
      <4>2. ASSUME NEW v \in Variants PROVE qty'[v] + Held(v)' = qty[v] + Held(v)
        <5>1. Held(v) = 0 /\ Held(v)' = IF sold.line = v THEN 1 ELSE 0
          BY <1>0, <2>1, <2>2, <3>1, <4>1 DEF Held, G!Out, G!Consumed
        <5>2. qty[v] \in Nat /\ qty'[v] = IF sold.line = v THEN qty[v] - 1 ELSE qty[v]
          BY <2>1, <2>2, <2>5 DEF GoodsTypes
        <5> QED
          BY <5>1, <5>2
      <4> QED
        BY <1>0, <2>3, <3>1, <3>3, <4>1, <4>2, StillBalanced DEF GoodsTypes
    <3> QED
      BY <3>4, <3>5
  <2> QED
    BY <2>3, <2>4, <2>5
<1>4. CASE G!MarkAsPrinted
  <2>1. /\ worker.step = "mark" /\ worker' = G!Idle /\ sold' = [sold EXCEPT !.status = "printed"]
        /\ excuses' = {} => sold.status = worker.status
        /\ UNCHANGED <<qty, sales>>
    BY <1>4 DEF G!MarkAsPrinted, G!Marked, G!Excuse
  <2>2. GoodsTypes'
    BY <1>0, <2>1 DEF GoodsTypes, Stages, G!Idle, Known
  <2>3. InHand'
    BY <1>0, <2>1, <2>2 DEF GoodsTypes, InHand, G!Consumed, G!Idle
  <2>4. ASSUME excuses' = {}, killed' = 0 PROVE Course' /\ Balance'
    <3>1. Course /\ Balance /\ sold.status = worker.status /\ worker.status \in {"new", "printed"}
      BY <2>4, <1>0, <2>1 DEF GoodsTypes
    <3>2. /\ worker'.step = "idle" /\ sold'.status = "printed"
          /\ sold'.line = sold.line /\ sold'.ean = sold.ean /\ sold'.sold = sold.sold
          /\ sold'.edited = sold.edited
      BY <2>1 DEF GoodsTypes, G!Idle
    <3>3. Course'
      BY <1>0, <2>1, <3>1, <3>2 DEF Course, G!Consumed
    <3>4. ~Doomed /\ \A v \in Variants : qty'[v] + Held(v)' = qty[v] + Held(v)
      BY <1>0, <2>1, <3>1, <3>2 DEF Doomed, Held, G!Out, G!Consumed
    <3> QED
      BY <1>0, <2>2, <3>1, <3>3, <3>4, StillBalanced DEF GoodsTypes
  <2> QED
    BY <2>2, <2>3, <2>4
<1> QED
  BY <1>1, <1>2, <1>3, <1>4

LEMMA OutsideGoods ==
  ASSUME GoodsInv, excuses = {}, G!Ship \/ G!Arrive \/ G!LoadImport \/ G!CommitImport
  PROVE  GoodsInv'
<1> USE DEF GoodsInv
<1>0. /\ UNCHANGED <<qty, sales, worker, req, gone, killed>>
      /\ \A v \in Variants : Waiting(v)' = Waiting(v)
  BY DEF G!Ship, G!Arrive, G!LoadImport, G!CommitImport, G!books, G!OutsideOnly, Waiting
<1>1. CASE G!Ship
  <2>1. PICK now \in {"sent", "delivered"} : sold' = [sold EXCEPT !.status = now]
    BY <1>1 DEF G!Ship
  <2>2. sold.status \in {"printed", "sent"} /\ UNCHANGED <<return, import, excuses>>
    BY <1>1 DEF G!Ship
  <2>3. /\ sold'.status = now /\ sold'.line = sold.line /\ sold'.ean = sold.ean
        /\ sold'.sold = sold.sold /\ sold'.edited = sold.edited
    BY <2>1 DEF GoodsTypes
  <2>4. GoodsTypes'
    BY <1>0, <2>1, <2>2 DEF GoodsTypes, Stages
  <2>5. InHand'
    BY <1>0, <2>2 DEF InHand, G!Consumed
  <2>6. ASSUME excuses' = {}, killed' = 0 PROVE Course' /\ Balance'
    <3>1. Course /\ Balance
      BY <2>6, <1>0
    <3>2. Course'
      BY <1>0, <2>2, <2>3, <3>1 DEF Course, G!Consumed
    <3>3. CASE Doomed'
      BY <1>0, <3>1, <3>2, <3>3, NothingClaimed
    <3>4. CASE ~Doomed'
      <4>1. ~Doomed
        <5>1. worker.step # "idle" => sold.status # "printed" \/ now = "printed"
          BY <1>0, <2>3, <3>4 DEF Doomed, GoodsTypes
        <5> QED
          BY <1>0, <2>2, <2>3, <3>4, <5>1 DEF Doomed, GoodsTypes
      <4>2. \A v \in Variants : qty'[v] + Held(v)' = qty[v] + Held(v)
        BY <1>0, <2>2, <2>3 DEF Held, G!Out, G!Consumed
      <4> QED
        BY <1>0, <2>4, <3>1, <3>2, <4>1, <4>2, StillBalanced DEF GoodsTypes
    <3> QED
      BY <3>3, <3>4
  <2> QED
    BY <2>4, <2>5, <2>6
<1>2. CASE G!Arrive
  <2>1. PICK item \in {sold.line, None} : return' = [step |-> "arrived", item |-> item]
    BY <1>2 DEF G!Arrive
  <2>2. /\ sold.status = "delivered" /\ return.step = "none"
        /\ sold' = [sold EXCEPT !.status = "returned"] /\ UNCHANGED <<import, excuses>>
    BY <1>2 DEF G!Arrive
  <2>3. /\ sold'.status = "returned" /\ sold'.line = sold.line /\ sold'.ean = sold.ean
        /\ sold'.sold = sold.sold /\ sold'.edited = sold.edited
    BY <2>2 DEF GoodsTypes
  <2>4. GoodsTypes'
    BY <1>0, <2>1, <2>2 DEF GoodsTypes, Stages, Known
  <2>5. InHand'
    BY <1>0, <2>2 DEF InHand, G!Consumed
  <2>6. ASSUME excuses' = {}, killed' = 0 PROVE Course' /\ Balance'
    <3>1. Course /\ Balance
      BY <2>6, <1>0, <2>2
    <3>2. Course'
      BY <1>0, <2>1, <2>2, <2>3, <3>1 DEF Course, G!Consumed
    <3>3. CASE Doomed'
      BY <1>0, <3>1, <3>2, <3>3, NothingClaimed
    <3>4. CASE ~Doomed'
      <4>1. ~Doomed
        BY <1>0, <2>3, <3>4 DEF Doomed, GoodsTypes
      <4>2. \A v \in Variants : qty'[v] + Held(v)' = qty[v] + Held(v)
        BY <1>0, <2>1, <2>2, <2>3 DEF Held, G!Out, G!Consumed
      <4> QED
        BY <1>0, <2>4, <3>1, <3>2, <4>1, <4>2, StillBalanced DEF GoodsTypes
    <3> QED
      BY <3>3, <3>4
  <2> QED
    BY <2>4, <2>5, <2>6
<1>3. CASE G!LoadImport
  <2>1. /\ import' = [step |-> "commit", edited |-> sold.edited]
        /\ UNCHANGED <<sold, return, excuses>>
    BY <1>3 DEF G!LoadImport, G!books
  <2>2. GoodsTypes' /\ InHand'
    BY <1>0, <2>1 DEF GoodsTypes, InHand, G!Consumed
  <2>3. ASSUME excuses' = {}, killed' = 0 PROVE Course' /\ Balance'
    BY <1>0, <2>1, <2>3 DEF Course, Balance, Held, Doomed, G!Out, G!Consumed
  <2> QED
    BY <2>2, <2>3
<1>4. CASE G!CommitImport
  <2>1. /\ import.step = "commit" /\ import' = G!Away /\ sold' = G!Rewritten(import.edited)
        /\ excuses' = {} => import.edited = sold.edited
        /\ UNCHANGED return
    BY <1>4 DEF G!CommitImport, G!Excuse
  <2>2. GoodsTypes'
    BY <1>0, <2>1 DEF GoodsTypes, G!Away, G!Rewritten
  <2>3. InHand'
    BY <1>0, <2>1 DEF InHand, G!Consumed
  <2>4. ASSUME excuses' = {}, killed' = 0 PROVE Course' /\ Balance'
    <3>1. Course /\ Balance /\ import.edited = sold.edited
      BY <2>1, <2>4, <1>0
    <3>2. sold' = sold
      BY <2>1, <3>1 DEF Course, GoodsTypes, G!Rewritten
    <3>3. Course'
      BY <1>0, <2>1, <3>1, <3>2 DEF Course, G!Consumed, G!Away
    <3>4. Balance'
      BY <1>0, <2>1, <3>1, <3>2 DEF Balance, Held, Doomed, G!Out, G!Consumed
    <3> QED
      BY <3>3, <3>4
  <2> QED
    BY <2>2, <2>3, <2>4
<1> QED
  BY <1>1, <1>2, <1>3, <1>4

(* A request that begins touches nothing. *)
LEMMA StartGoods ==
  ASSUME GoodsInv, NEW p \in Web, G!LoadEdit(p) \/ G!LoadCancel(p) \/ G!LoadRestore(p)
  PROVE  GoodsInv'
<1> USE DEF GoodsInv
<1>1. PICK r \in Visit :
        /\ req' = [req EXCEPT ![p] = r] /\ r.step = "commit"
        /\ r.kind = "edit" => /\ r.was \in Variants /\ r.new \in Variants /\ r.was # r.new
                              /\ r.status \notin G!EDIT_BLOCKED_STATUSES
        /\ r.kind = "cancel" => r.status \in G!CANCEL_ALLOWED_STATUSES
        /\ r.kind = "restore" => return.item \in Variants /\ return.step # "none"
        /\ req[p].step = "idle"
        /\ UNCHANGED <<qty, sales, sold, return, gone, excuses, killed, worker, import>>
  <2>1. CASE G!LoadEdit(p)
    <3>1. PICK v \in Variants \ {sold.line}, back \in BOOLEAN :
             /\ sold.status \notin G!EDIT_BLOCKED_STATUSES
             /\ G!Starts(p, [kind |-> "edit", step |-> "commit", status |-> sold.status,
                             was |-> sold.line, new |-> v, back |-> back])
      BY <2>1 DEF G!LoadEdit
    <3>2. PICK r : r = [kind |-> "edit", step |-> "commit", status |-> sold.status,
                        was |-> sold.line, new |-> v, back |-> back]
      OBVIOUS
    <3>3. r \in Visit
      BY <3>2 DEF Visit, Known, GoodsTypes
    <3> QED
      BY <3>1, <3>2, <3>3 DEF G!Starts, G!books, G!PageOnly, GoodsTypes
  <2>2. CASE G!LoadCancel(p)
    <3>1. PICK r : r = [G!Rest EXCEPT !.kind = "cancel", !.step = "commit", !.status = sold.status]
      OBVIOUS
    <3>2. r \in Visit /\ r.kind = "cancel" /\ r.step = "commit" /\ r.status = sold.status
      BY <3>1 DEF Visit, Known, GoodsTypes, G!Rest
    <3> QED
      BY <2>2, <3>1, <3>2 DEF G!LoadCancel, G!Starts, G!books, G!PageOnly
  <2>3. CASE G!LoadRestore(p)
    <3>1. PICK r : r = [G!Rest EXCEPT !.kind = "restore", !.step = "commit"]
      OBVIOUS
    <3>2. r \in Visit /\ r.kind = "restore" /\ r.step = "commit"
      BY <3>1 DEF Visit, Known, Stages, G!Rest
    <3> QED
      BY <2>3, <3>1, <3>2 DEF G!LoadRestore, G!Starts, G!books, G!PageOnly, GoodsTypes, Known
  <2> QED
    BY <2>1, <2>2, <2>3
<1>2. GoodsTypes' /\ InHand'
  BY <1>1 DEF GoodsTypes, InHand, G!Consumed
<1>3. \A v \in Variants : Waiting(v)' = Waiting(v)
  BY <1>1, NobodyWaits DEF GoodsTypes
<1>4. ASSUME excuses' = {}, killed' = 0 PROVE Course' /\ Balance'
  BY <1>1, <1>3, <1>4 DEF Course, Balance, Held, Doomed, G!Out, G!Consumed
<1> QED
  BY <1>2, <1>4

(* The first session of an edit: one more request waits for a piece of the new *)
(* variant, if the order was consumed.                                         *)
LEMMA EditGoods ==
  ASSUME GoodsInv, excuses = {}, NEW p \in Web, G!CommitEdit(p)
  PROVE  GoodsInv'
<1> USE DEF GoodsInv
<1> DEFINE was == req[p].was
           new == req[p].new
<1>1. /\ req[p].kind = "edit" /\ req[p].step = "commit" /\ UNCHANGED <<return, killed, worker, import>>
      /\ sold' = [sold EXCEPT !.line = new, !.edited = TRUE, !.status = req[p].status,
                              !.ean = IF new \in Barcoded THEN new ELSE @]
      /\ excuses' = {} => sold.line = was /\ sold.status = req[p].status
  BY DEF G!CommitEdit, G!Excuse, G!PageOnly
<1>2. /\ was \in Variants /\ new \in Variants /\ was # new /\ req[p] \in Visit
      /\ req[p].status \in Stages \ {"cancelled", "delivered", "returned"}
  BY <1>1 DEF InHand, GoodsTypes, Visit, G!EDIT_BLOCKED_STATUSES
<1>3. sold' \in [status : Stages, line : Variants, ean : Variants, edited : BOOLEAN, sold : Variants]
      /\ sold'.line = new /\ sold'.edited = TRUE /\ sold'.status = req[p].status
  BY <1>1, <1>2 DEF GoodsTypes
<1>4. CASE ~G!Consumed
  <2>1. UNCHANGED <<qty, sales, gone>> /\ req' = [req EXCEPT ![p] = G!Rest]
    BY <1>1, <1>4 DEF G!CommitEdit
  <2>2. GoodsTypes' /\ G!Rest \in Visit
    BY <1>1, <1>3, <2>1 DEF GoodsTypes, G!Rest, Visit, Known, Stages
  <2>3. InHand'
    BY <1>1, <1>4, <2>1 DEF InHand, GoodsTypes, G!Consumed, G!Rest
  <2>4. \A v \in Variants : Waiting(v)' = Waiting(v)
    BY <1>1, <2>1, <2>2, NobodyWaits DEF GoodsTypes, G!Rest
  <2>5. ASSUME excuses' = {}, killed' = 0 PROVE Course' /\ Balance'
    <3>1. Course /\ Balance /\ sold.line = was /\ sold.status = req[p].status
      BY <1>1, <2>5
    <3>2. Course'
      BY <1>1, <1>2, <1>3, <1>4, <2>1, <3>1 DEF Course, G!Consumed
    <3>3. Balance'
      BY <1>1, <1>3, <1>4, <2>1, <2>4, <3>1 DEF Balance, Held, Doomed, G!Out, G!Consumed
    <3> QED
      BY <3>2, <3>3
  <2> QED
    BY <2>2, <2>3, <2>5
<1>5. CASE G!Consumed
  <2> DEFINE back == req[p].back
  <2>1. /\ qty' = IF back THEN [qty EXCEPT ![was] = @ + 1] ELSE qty
        /\ sales' = IF back THEN G!Charged(was) ELSE sales
        /\ gone' = IF back THEN gone ELSE [gone EXCEPT ![was] = @ + 1]
        /\ req' = [req EXCEPT ![p].step = "consume"]
    BY <1>1, <1>5 DEF G!CommitEdit
  <2> PICK r : r = [req[p] EXCEPT !.step = "consume"]
    OBVIOUS
  <2>2. /\ r \in Visit /\ r.kind = "edit" /\ r.step = "consume" /\ r.was = was /\ r.new = new
        /\ r.status = req[p].status
    BY <1>1, <1>2 DEF Visit
  <2>3. req' = [req EXCEPT ![p] = r]
    BY <2>1
  <2>4. sales' \in Seq(Sale) /\ sales' # <<>>
    BY <2>1, <1>2, <1>5, MoreSales DEF GoodsTypes, G!Consumed
  <2>5. GoodsTypes'
    <3>1. qty' \in [Variants -> Nat] /\ gone' \in [Variants -> Nat]
      <4>1. \A f \in [Variants -> Nat] : [f EXCEPT ![was] = @ + 1] \in [Variants -> Nat]
        BY <1>2, OneMore
      <4> QED
        BY <2>1, <4>1 DEF GoodsTypes
    <3> QED
      BY <1>1, <1>2, <1>3, <2>2, <2>3, <2>4, <3>1 DEF GoodsTypes
  <2>6. InHand'
    BY <1>1, <1>2, <1>5, <2>2, <2>3, <2>4 DEF InHand, GoodsTypes, G!Consumed
  <2>7. ASSUME excuses' = {}, killed' = 0 PROVE Course' /\ Balance'
    <3>1. Course /\ Balance /\ sold.line = was /\ sold.status = req[p].status
      BY <1>1, <2>7
    <3>2. return.step = "none"
      BY <1>2, <3>1 DEF Course
    <3>3. Course'
      BY <1>1, <1>2, <1>3, <1>5, <2>4, <3>1 DEF Course, G!Consumed
    <3>4. Doomed' <=> Doomed
      BY <1>1, <1>3, <3>1 DEF Doomed
    <3>5. ASSUME NEW v \in Variants
          PROVE  /\ IsFiniteSet(Waiting(v)')
                 /\ ~Doomed' => qty'[v] = InStock[v] - gone'[v] - Held(v)' + Cardinality(Waiting(v)')
      <4>1. IsFiniteSet(Waiting(v)) /\ Cardinality(Waiting(v)) \in Nat
        BY <3>1, FS_CardinalityType DEF Balance
      <4>2. ~Doomed' => qty[v] = InStock[v] - gone[v] - Held(v) + Cardinality(Waiting(v))
        BY <3>1, <3>4 DEF Balance
      <4>3. qty[v] \in Nat /\ gone[v] \in Nat /\ InStock[v] \in Nat
        BY PartsAssumption DEF GoodsTypes
      <4>4. /\ Held(v) = IF v = was THEN 1 ELSE 0
            /\ Held(v)' = IF v = new THEN 1 ELSE 0
        BY <1>1, <1>2, <1>3, <1>5, <2>4, <3>1, <3>2 DEF Held, G!Out, G!Consumed
      <4>5. CASE v = new
        <5>1. Waiting(v)' = Waiting(v) \cup {p} /\ p \notin Waiting(v)
          BY <1>1, <2>2, <2>3, <4>5 DEF Waiting, GoodsTypes
        <5>2. IsFiniteSet(Waiting(v)') /\ Cardinality(Waiting(v)') = Cardinality(Waiting(v)) + 1
          BY <4>1, <5>1, FS_AddElement
        <5>3. qty'[v] = qty[v] /\ gone'[v] = gone[v]
          BY <1>2, <2>1, <4>5 DEF GoodsTypes
        <5> QED
          BY <1>2, <4>1, <4>2, <4>3, <4>4, <4>5, <5>2, <5>3
      <4>6. CASE v # new
        <5>1. Waiting(v)' = Waiting(v)
          BY <1>1, <2>2, <2>3, <4>6 DEF Waiting, GoodsTypes
        <5>2. CASE v = was
          <6>1. \/ qty'[v] = qty[v] + 1 /\ gone'[v] = gone[v]
                \/ qty'[v] = qty[v] /\ gone'[v] = gone[v] + 1
            BY <1>2, <2>1, <4>3, <5>2 DEF GoodsTypes
          <6> QED
            BY <1>2, <4>1, <4>2, <4>3, <4>4, <4>6, <5>1, <5>2, <6>1
        <5>3. CASE v # was
          <6>1. qty'[v] = qty[v] /\ gone'[v] = gone[v]
            BY <2>1, <5>3 DEF GoodsTypes
          <6> QED
            BY <4>1, <4>2, <4>3, <4>4, <4>6, <5>1, <5>3, <6>1
        <5> QED
          BY <5>2, <5>3
      <4> QED
        BY <4>5, <4>6
    <3> QED
      BY <3>3, <3>5 DEF Balance
  <2> QED
    BY <2>5, <2>6, <2>7
<1> QED
  BY <1>4, <1>5

(* The second session of an edit takes the piece that its request waited for. *)
LEMMA NewGoods ==
  ASSUME GoodsInv, excuses = {}, NEW p \in Web, G!ConsumeNew(p)
  PROVE  GoodsInv'
<1> USE DEF GoodsInv
<1> DEFINE new == req[p].new
<1>1. /\ req[p].kind = "edit" /\ req[p].step = "consume" /\ req' = [req EXCEPT ![p] = G!Rest]
      /\ UNCHANGED <<sold, return, gone, killed, worker, import>>
      /\ qty' = G!Taken(new) /\ sales' = G!Sold(sales, new)
      /\ excuses' = {} => qty[new] # 0
  BY DEF G!ConsumeNew, G!Ends, G!PageOnly, G!Excuse
<1>2. new \in Variants /\ G!Consumed
  BY <1>1 DEF InHand
<1>3. /\ qty' \in [Variants -> Nat] /\ (qty[new] # 0 => qty' = [qty EXCEPT ![new] = @ - 1])
      /\ sales' \in Seq(Sale) /\ sales' # <<>>
  BY <1>1, <1>2, TakenOne, MoreSales DEF GoodsTypes
<1>4. G!Rest \in Visit /\ G!Rest.kind = "none" /\ G!Rest.step = "idle"
  BY DEF G!Rest, Visit, Known, Stages
<1>5. GoodsTypes'
  BY <1>1, <1>3, <1>4 DEF GoodsTypes
<1>6. InHand'
  BY <1>1, <1>3, <1>4 DEF InHand, GoodsTypes, G!Consumed
<1>7. ASSUME excuses' = {}, killed' = 0 PROVE Course' /\ Balance'
  <2>1. Course /\ Balance /\ qty' = [qty EXCEPT ![new] = @ - 1] /\ qty[new] # 0
    BY <1>1, <1>3, <1>7
  <2>2. Course'
    BY <1>1, <1>2, <1>3, <2>1 DEF Course, G!Consumed
  <2>3. ASSUME NEW v \in Variants
        PROVE  /\ IsFiniteSet(Waiting(v)')
               /\ ~Doomed' => qty'[v] = InStock[v] - gone'[v] - Held(v)' + Cardinality(Waiting(v)')
    <3>1. IsFiniteSet(Waiting(v)) /\ Cardinality(Waiting(v)) \in Nat
      BY <2>1, FS_CardinalityType DEF Balance
    <3>2. ~Doomed' => qty[v] = InStock[v] - gone[v] - Held(v) + Cardinality(Waiting(v))
      BY <1>1, <2>1 DEF Balance, Doomed
    <3>3. /\ qty[v] \in Nat /\ gone[v] \in Nat /\ InStock[v] \in Nat /\ Held(v) \in Nat
          /\ Held(v)' = Held(v)
      BY <1>1, <1>2, <1>3, PartsAssumption DEF GoodsTypes, Held, G!Out, G!Consumed
    <3>4. Waiting(v)' = Waiting(v) \ {p} /\ (p \in Waiting(v) <=> v = new)
      BY <1>1, <1>4 DEF Waiting, GoodsTypes
    <3>5. /\ IsFiniteSet(Waiting(v)')
          /\ Cardinality(Waiting(v)') = Cardinality(Waiting(v)) - (IF v = new THEN 1 ELSE 0)
      BY <3>1, <3>4, FS_RemoveElement
    <3>6. qty'[v] = qty[v] - (IF v = new THEN 1 ELSE 0)
      BY <2>1, <3>3 DEF GoodsTypes
    <3> QED
      BY <1>1, <3>1, <3>2, <3>3, <3>5, <3>6
  <2> QED
    BY <2>2, <2>3 DEF Balance
<1> QED
  BY <1>5, <1>6, <1>7

(* A cancellation and a return bring back the piece of the line. *)
LEMMA CancelGoods ==
  ASSUME GoodsInv, excuses = {}, NEW p \in Web, G!CommitCancel(p)
  PROVE  GoodsInv'
<1> USE DEF GoodsInv
<1>1. /\ req[p].kind = "cancel" /\ req[p].step = "commit" /\ req' = [req EXCEPT ![p] = G!Rest]
      /\ UNCHANGED <<return, gone, killed, worker, import>>
      /\ qty' = IF G!Consumed THEN [qty EXCEPT ![sold.line] = @ + 1] ELSE qty
      /\ sales' = IF G!Consumed THEN G!Charged(sold.line) ELSE sales
      /\ sold' = [sold EXCEPT !.status = "cancelled"]
      /\ excuses' = {} => sold.status = req[p].status
  BY DEF G!CommitCancel, G!Ends, G!PageOnly, G!Excuse, G!Restorable
<1>2. /\ sold.line \in Variants /\ req[p].status \in {"new", "printed"}
      /\ sold'.status = "cancelled" /\ sold'.line = sold.line /\ sold'.ean = sold.ean
      /\ sold'.sold = sold.sold /\ sold'.edited = sold.edited
  BY <1>1 DEF GoodsTypes, InHand, G!CANCEL_ALLOWED_STATUSES
<1>3. /\ sales' \in Seq(Sale) /\ (sales' # <<>> <=> sales # <<>>)
      /\ qty' \in [Variants -> Nat]
  BY <1>1, <1>2, MoreSales DEF GoodsTypes
<1>4. G!Rest \in Visit /\ G!Rest.kind = "none" /\ G!Rest.step = "idle"
  BY DEF G!Rest, Visit, Known, Stages
<1>5. GoodsTypes'
  BY <1>1, <1>3, <1>4 DEF GoodsTypes, Stages
<1>6. InHand'
  BY <1>1, <1>3, <1>4 DEF InHand, GoodsTypes, G!Consumed
<1>7. ASSUME excuses' = {}, killed' = 0 PROVE Course' /\ Balance'
  <2>1. Course /\ Balance /\ sold.status = req[p].status
    BY <1>1, <1>7
  <2>2. return.step = "none"
    BY <1>2, <2>1 DEF Course
  <2>3. Course'
    BY <1>1, <1>2, <1>3, <2>1, <2>2 DEF Course, G!Consumed
  <2>4. \A v \in Variants : Waiting(v)' = Waiting(v)
    BY <1>1, <1>4, NobodyWaits DEF GoodsTypes
  <2>5. CASE Doomed'
    BY <2>1, <2>3, <2>4, <2>5, NothingClaimed
  <2>6. CASE ~Doomed'
    <3>1. worker.step = "idle"
      BY <1>1, <1>2, <2>6 DEF Doomed, GoodsTypes
    <3>2. ASSUME NEW v \in Variants PROVE qty'[v] + Held(v)' = qty[v] + Held(v)
      <4>1. qty[v] \in Nat /\ Held(v)' = 0
        BY <1>2 DEF Held, G!Out, GoodsTypes
      <4>2. Held(v) = IF G!Consumed /\ v = sold.line THEN 1 ELSE 0
        BY <1>2, <2>1, <2>2 DEF Held, G!Out
      <4>3. qty'[v] = IF G!Consumed /\ v = sold.line THEN qty[v] + 1 ELSE qty[v]
        BY <1>1, <1>2 DEF GoodsTypes
      <4> QED
        BY <4>1, <4>2, <4>3
    <3> QED
      BY <1>1, <1>3, <2>1, <2>3, <2>4, <3>1, <3>2, StillBalanced DEF Doomed
  <2> QED
    BY <2>5, <2>6
<1> QED
  BY <1>5, <1>6, <1>7

LEMMA RestoreGoods ==
  ASSUME GoodsInv, excuses = {}, NEW p \in Web, G!CommitRestore(p)
  PROVE  GoodsInv'
<1> USE DEF GoodsInv
<1> DEFINE item == return.item
<1>1. /\ req[p].kind = "restore" /\ req[p].step = "commit" /\ req' = [req EXCEPT ![p] = G!Rest]
      /\ UNCHANGED <<sold, gone, killed, worker, import>>
      /\ qty' = [qty EXCEPT ![item] = @ + 1] /\ sales' = G!Charged(item)
      /\ return' = [return EXCEPT !.step = "restored"]
      /\ excuses' = {} => return.step # "restored"
  BY DEF G!CommitRestore, G!Ends, G!PageOnly, G!Excuse
<1>2. /\ item \in Variants /\ return.step # "none"
      /\ return'.step = "restored" /\ return'.item = item
  BY <1>1 DEF GoodsTypes, InHand
<1>3. /\ sales' \in Seq(Sale) /\ (sales' # <<>> <=> sales # <<>>)
      /\ qty' \in [Variants -> Nat]
  <2>1. \A v \in Variants : /\ G!Charged(v) \in Seq(Sale)
                            /\ G!Charged(v) # <<>> <=> sales # <<>>
    BY MoreSales DEF GoodsTypes
  <2>2. qty' \in [Variants -> Nat]
    BY <1>1, <1>2, OneMore DEF GoodsTypes
  <2> QED
    BY <1>1, <1>2, <2>1, <2>2
<1>4. G!Rest \in Visit /\ G!Rest.kind = "none" /\ G!Rest.step = "idle"
  BY DEF G!Rest, Visit, Known, Stages
<1>5. GoodsTypes'
  BY <1>1, <1>3, <1>4 DEF GoodsTypes
<1>6. InHand'
  BY <1>1, <1>2, <1>3, <1>4 DEF InHand, GoodsTypes, G!Consumed
<1>7. ASSUME excuses' = {}, killed' = 0 PROVE Course' /\ Balance'
  <2>1. /\ Course /\ Balance /\ return.step = "arrived" /\ sold.status = "returned"
        /\ sold.line = item
    BY <1>1, <1>2, <1>7, PartsAssumption DEF Course, GoodsTypes
  <2>2. Course'
    BY <1>1, <1>2, <1>3, <2>1 DEF Course, G!Consumed
  <2>3. \A v \in Variants : Waiting(v)' = Waiting(v)
    BY <1>1, <1>4, NobodyWaits DEF GoodsTypes
  <2>4. CASE Doomed'
    BY <2>1, <2>2, <2>3, <2>4, NothingClaimed
  <2>5. CASE ~Doomed'
    <3>1. worker.step = "idle" /\ G!Consumed
      BY <1>1, <2>1, <2>5 DEF Doomed, GoodsTypes, Course
    <3>2. ASSUME NEW v \in Variants PROVE qty'[v] + Held(v)' = qty[v] + Held(v)
      <4>1. qty[v] \in Nat /\ Held(v)' = 0
        BY <1>2 DEF Held, G!Out, GoodsTypes
      <4>2. Held(v) = IF v = item THEN 1 ELSE 0
        BY <2>1, <3>1 DEF Held, G!Out
      <4>3. qty'[v] = IF v = item THEN qty[v] + 1 ELSE qty[v]
        BY <1>1, <1>2 DEF GoodsTypes
      <4> QED
        BY <4>1, <4>2, <4>3
    <3> QED
      BY <1>1, <1>3, <2>1, <2>2, <2>3, <3>1, <3>2, StillBalanced DEF Doomed
  <2> QED
    BY <2>4, <2>5
<1> QED
  BY <1>5, <1>6, <1>7

LEMMA StopGoods ==
  ASSUME GoodsInv, NEW p \in Web, G!Stops(p)
  PROVE  GoodsInv'
<1>1. /\ req' = [req EXCEPT ![p] = G!Rest] /\ killed' = killed + 1
      /\ UNCHANGED <<qty, sales, sold, return, worker, import, gone>>
  BY DEF G!Stops, G!Ends, G!books, G!PageOnly
<1>2. G!Rest \in Visit /\ G!Rest.kind = "none" /\ G!Rest.step = "idle"
  BY DEF G!Rest, Visit, Known, Stages
<1>3. GoodsTypes' /\ killed' # 0
  BY <1>1, <1>2 DEF GoodsInv, GoodsTypes
<1>4. InHand'
  BY <1>1, <1>2 DEF GoodsInv, InHand, GoodsTypes, G!Consumed
<1> QED
  BY <1>3, <1>4 DEF GoodsInv

-----------------------------------------------------------------------------
LEMMA GoodsInductive ==
  GoodsInv /\ [NextAll]_allVars => GoodsInv'
<1> SUFFICES ASSUME GoodsInv, [NextAll]_allVars PROVE GoodsInv'
  OBVIOUS
<1>1. CASE UNCHANGED stock
  <2>1. /\ UNCHANGED <<qty, sales, sold, return, worker, import, req, gone, excuses, killed>>
        /\ \A v \in Variants : Waiting(v)' = Waiting(v)
    BY <1>1 DEF stock, Waiting
  <2>2. GoodsTypes' /\ InHand'
    BY <2>1 DEF GoodsInv, GoodsTypes, InHand, G!Consumed
  <2>3. Course => Course'
    BY <2>1 DEF Course, G!Consumed
  <2>4. Balance => Balance'
    BY <2>1 DEF Balance, Held, Doomed, G!Out, G!Consumed
  <2> QED
    BY <2>1, <2>2, <2>3, <2>4 DEF GoodsInv
<1>2. CASE excuses = {} /\ G!Next
  BY <1>2, AgentGoods, OutsideGoods, StartGoods, EditGoods, NewGoods, CancelGoods, RestoreGoods,
     StopGoods DEF G!Next, G!PageStep
<1> QED
  BY <1>1, <1>2 DEF NextAll, allVars

(* For any variants, barcodes, quantities, requests and imports: between
   operations every quantity is what it was, less the pieces that are out or
   gone, unless one of the excuses of the model applies. *)
THEOREM BooksMatch == SpecAll => []BooksMatchShelves
<1>1. GoodsInv => BooksMatchShelves
  <2> SUFFICES ASSUME GoodsInv, G!AtRest, excuses = {}, killed = 0, NEW v \in Variants
               PROVE  qty[v] = InStock[v] - gone[v] - (IF G!Out /\ sold.line = v THEN 1 ELSE 0)
    BY DEF BooksMatchShelves, G!BooksMatchShelves
  <2>1. Waiting(v) = {} /\ ~Doomed
    BY DEF Waiting, Doomed, G!AtRest
  <2>2. qty[v] = InStock[v] - gone[v] - Held(v) + 0
    BY <2>1, FS_EmptySet DEF GoodsInv, Balance
  <2>3. gone[v] \in Nat /\ InStock[v] \in Nat /\ Held(v) \in Nat
    BY PartsAssumption DEF GoodsInv, GoodsTypes, Held
  <2> QED
    BY <2>2, <2>3 DEF Held
<1> QED
  BY <1>1, GoodsStart, GoodsInductive, PTL DEF SpecAll

-----------------------------------------------------------------------------
(***************************************************************************)
(* The papers of an order, for any names, requests and faults.  As long as *)
(* nothing failed or overlapped, at most one request is past its change,   *)
(* and the first change after the invoice is due, or on paper.             *)
(***************************************************************************)
Named == Names \cup {None}
Phases == {"open", "sent", "delivered", "returned", "cancelled"}
Paper == [why : {"edit", "cancel", "refund"}, name : Named]
Call == [kind : {"none", "edit", "cancel", "refund"},
         step : {"idle", "pay", "commit", "load", "add", "record"},
         status : Phases, old : Named, new : Named, invoice : Named, slot : BOOLEAN]
PaperTypes ==
  /\ paper \in [status : Phases, label : BOOLEAN, line : Names, sold : Names, invoice : Named,
                slot : BOOLEAN]
  /\ goods \in [step : {"none", "arrived", "refunded"}, name : Named]
  /\ papers \in Seq(Paper)
  /\ billing \in [step : {"idle", "issue"}, name : Named]
  /\ page \in [Web -> Call]
  /\ failed \in Nat /\ reasons \in Nat /\ crossed \in BOOLEAN

(* what the scheduler and the requests read *)
Loaded ==
  /\ billing.step = "issue" => billing.name = paper.line /\ paper.invoice = None
  /\ \A p \in Web :
       /\ page[p].step = "idle" <=> page[p].kind = "none"
       /\ page[p].kind = "edit" => /\ page[p].old # page[p].new /\ page[p].new \in Names
                                   /\ page[p].status \notin C!EDIT_BLOCKED_STATUSES
                                   /\ page[p].step # "pay"
       /\ page[p].kind = "refund" => page[p].step # "commit"
       /\ page[p].step \in {"add", "record"} => paper.invoice # None
  /\ paper.invoice = None => reasons = 0

Changed(p) == page[p].step \in {"load", "add", "record"}
Due(p) == page[p].step \in {"load", "add"}

Alone ==
  /\ \A p, q \in Web : Changed(p) /\ Changed(q) => p = q
  /\ \A p \in Web :
       /\ page[p].kind = "edit" =>
            IF page[p].step = "commit" THEN page[p].old = paper.line ELSE page[p].new = paper.line
       /\ page[p].kind = "cancel" /\ page[p].step \in {"pay", "commit"} =>
            page[p].invoice = paper.invoice /\ (reasons = 0 => ~page[p].slot)

(* nothing happened since the invoice: an edit before it finds its new name there *)
Untouched ==
  /\ papers = <<>> /\ ~paper.slot
  /\ paper.invoice # None =>
       /\ paper.invoice = paper.line /\ paper.status # "cancelled" /\ goods.step # "refunded"
       /\ \A p \in Web : Changed(p) => page[p].kind = "edit" /\ page[p].step = "load"

(* one thing happened: which, who has to put it on paper, what the paper says *)
Cause == IF paper.status = "cancelled" THEN "cancel"
         ELSE IF goods.step = "refunded" THEN "refund" ELSE "edit"
Once ==
  /\ paper.invoice # None
  /\ \A p \in Web : Due(p) => page[p].kind = Cause /\ papers = <<>> /\ ~paper.slot
                              /\ (Cause = "edit" => page[p].old = paper.invoice)
  /\ papers = <<>> => \/ \E p \in Web : Due(p)
                      \/ Cause = "refund" /\ goods.name # paper.invoice
  /\ papers # <<>> => /\ Len(papers) = 1 /\ papers[1].why = Cause
                      /\ Cause = "edit" => papers[1].name = paper.line

PapersInv ==
  /\ PaperTypes /\ Loaded
  /\ failed = 0 /\ ~crossed =>
       Alone /\ (reasons = 0 => Untouched) /\ (reasons = 1 => Once)

-----------------------------------------------------------------------------
LEMMA PapersStart == InitAll => PapersInv
<1> SUFFICES ASSUME InitAll PROVE PapersInv
  OBVIOUS
<1>1. /\ papers = <<>> /\ page = [p \in Web |-> C!Rest] /\ billing = C!Off /\ paper.invoice = None
      /\ ~paper.slot /\ failed = 0 /\ reasons = 0 /\ crossed = FALSE
      /\ paper \in [status : Phases, label : BOOLEAN, line : Names, sold : Names, invoice : Named,
                    slot : BOOLEAN]
      /\ goods = [step |-> "none", name |-> None]
  BY DEF InitAll, C!Init, Phases, Named
<1>2. PaperTypes
  BY <1>1, EmptySeq DEF PaperTypes, C!Off, C!Rest, Call, Named, Phases
<1>3. Loaded /\ Alone /\ Untouched
  BY <1>1 DEF Loaded, Alone, Untouched, Changed, C!Off, C!Rest
<1> QED
  BY <1>1, <1>2, <1>3 DEF PapersInv

LEMMA OutsidePapers == ASSUME PapersInv, C!Label \/ C!Ship \/ C!Arrive PROVE PapersInv'
<1> USE DEF PapersInv
<1>1. PICK now \in Phases, to \in BOOLEAN :
        /\ paper' = [paper EXCEPT !.status = now, !.label = to]
        /\ now = "cancelled" <=> paper.status = "cancelled"
  <2>1. CASE C!Label
    <3>1. paper' = [paper EXCEPT !.status = paper.status, !.label = TRUE]
      BY <2>1 DEF C!Label, PaperTypes
    <3> QED
      BY <3>1 DEF PaperTypes
  <2>2. CASE C!Ship \/ C!Arrive
    <3>1. PICK now \in {"sent", "delivered", "returned"} :
             paper' = [paper EXCEPT !.status = now] /\ paper.status # "cancelled"
      BY <2>2 DEF C!Ship, C!Arrive
    <3>2. paper' = [paper EXCEPT !.status = now, !.label = paper.label]
      BY <3>1 DEF PaperTypes
    <3> QED
      BY <3>1, <3>2 DEF PaperTypes, Phases
  <2> QED
    BY <2>1, <2>2
<1>2. /\ paper' \in [status : Phases, label : BOOLEAN, line : Names, sold : Names, invoice : Named,
                     slot : BOOLEAN]
      /\ paper'.status = now /\ paper'.line = paper.line /\ paper'.invoice = paper.invoice
      /\ paper'.slot = paper.slot
  BY <1>1 DEF PaperTypes
<1>3. /\ goods' \in [step : {"none", "arrived", "refunded"}, name : Named]
      /\ goods'.step = "refunded" <=> goods.step = "refunded"
      /\ goods.step = "refunded" => goods' = goods
  BY DEF PaperTypes, C!Label, C!Ship, C!Arrive, Named
<1>4. UNCHANGED <<papers, billing, page, failed, reasons, crossed>>
  BY DEF C!Label, C!Ship, C!Arrive, C!OrderOnly
<1>5. PaperTypes' /\ Loaded'
  BY <1>2, <1>3, <1>4 DEF PaperTypes, Loaded
<1>6. ASSUME failed' = 0, ~crossed' PROVE Alone' /\ (reasons' = 0 => Untouched') /\ (reasons' = 1 => Once')
  <2>1. Alone => Alone'
    BY <1>2, <1>4 DEF Alone, Changed
  <2>2. Untouched => Untouched'
    BY <1>1, <1>2, <1>3, <1>4 DEF Untouched, Changed
  <2>3. Once => Once'
    <3>1. Cause' = Cause /\ (Cause = "refund" => goods' = goods)
      BY <1>1, <1>2, <1>3 DEF Cause
    <3> QED
      BY <1>2, <1>4, <3>1 DEF Once, Due
  <2> QED
    BY <1>4, <1>6, <2>1, <2>2, <2>3
<1> QED
  BY <1>5, <1>6

LEMMA BillingPapers ==
  ASSUME PapersInv, C!LockOrder \/ C!StoreInvoice \/ C!IssueFails PROVE PapersInv'
<1> USE DEF PapersInv
<1>0. UNCHANGED <<goods, papers, page, reasons>>
  BY DEF C!LockOrder, C!StoreInvoice, C!IssueFails, C!BillingOnly
<1>1. CASE C!LockOrder
  <2>1. /\ billing' = [step |-> "issue", name |-> paper.line] /\ paper.invoice = None
        /\ UNCHANGED <<paper, failed, crossed>>
    BY <1>1 DEF C!LockOrder
  <2>2. PaperTypes' /\ Loaded'
    BY <1>0, <2>1 DEF PaperTypes, Loaded, Named
  <2>3. (Alone => Alone') /\ (Untouched => Untouched') /\ (Once => Once')
    BY <1>0, <2>1 DEF Alone, Untouched, Once, Changed, Due, Cause
  <2> QED
    BY <1>0, <2>1, <2>2, <2>3
<1>2. CASE C!StoreInvoice
  <2>1. /\ billing.step = "issue" /\ billing' = C!Off /\ failed' = failed
        /\ paper' = [paper EXCEPT !.invoice = billing.name]
        /\ crossed' = (crossed \/ paper.status = "cancelled" \/ goods.step = "refunded"
                         \/ \E p \in Web : page[p].kind \in {"cancel", "refund"})
    BY <1>2 DEF C!StoreInvoice
  <2>2. /\ billing.name = paper.line /\ paper.invoice = None /\ reasons = 0 /\ paper.line # None
        /\ paper'.invoice = paper.line /\ paper'.line = paper.line
        /\ paper'.status = paper.status /\ paper'.slot = paper.slot
    BY <2>1, PartsAssumption DEF Loaded, PaperTypes
  <2>3. PaperTypes'
    BY <1>0, <2>1, <2>2 DEF PaperTypes, Named, C!Off
  <2>4. Loaded'
    BY <1>0, <2>1, <2>2 DEF Loaded, C!Off
  <2>5. ASSUME failed' = 0, ~crossed' PROVE Alone' /\ Untouched'
    <3>1. /\ Alone /\ Untouched /\ paper.status # "cancelled" /\ goods.step # "refunded"
          /\ \A p \in Web : page[p].kind \notin {"cancel", "refund"}
      BY <2>1, <2>2, <2>5
    <3>2. Alone'
      BY <1>0, <2>2, <3>1 DEF Alone, Changed
    <3>3. \A p \in Web : Changed(p) => page[p].kind = "edit" /\ page[p].step = "load"
      BY <2>2, <3>1 DEF Loaded, Changed, PaperTypes, Call
    <3> QED
      BY <1>0, <2>2, <3>1, <3>2, <3>3 DEF Untouched, Changed
  <2> QED
    BY <1>0, <2>2, <2>3, <2>4, <2>5
<1>3. CASE C!IssueFails
  <2>1. /\ billing' = C!Off /\ failed' = failed + 1 /\ UNCHANGED <<paper, crossed>>
    BY <1>3 DEF C!IssueFails, C!Fault
  <2>2. PaperTypes' /\ Loaded' /\ failed' # 0
    BY <1>0, <2>1 DEF PaperTypes, Loaded, C!Off, Named
  <2> QED
    BY <2>2
<1> QED
  BY <1>1, <1>2, <1>3

(* A request that begins or asks for the money changes nothing. *)
LEMMA WaitingPapers ==
  ASSUME PapersInv, NEW p \in Web, NEW r \in Call, page' = [page EXCEPT ![p] = r],
         UNCHANGED <<paper, goods, papers, billing, failed, reasons, crossed>>,
         page[p].step \in {"idle", "pay"}, r.step \in {"pay", "commit"}, r.kind # "none",
         r.kind = "edit" => /\ r.step = "commit" /\ r.old = paper.line /\ r.new # paper.line
                            /\ r.new \in Names /\ r.status \notin C!EDIT_BLOCKED_STATUSES,
         r.kind = "refund" => r.step = "pay",
         r.kind = "cancel" => \/ r.invoice = paper.invoice /\ r.slot = paper.slot
                              \/ /\ page[p].kind = "cancel" /\ page[p].step = "pay"
                                 /\ r.invoice = page[p].invoice /\ r.slot = page[p].slot
  PROVE  PapersInv'
<1> USE DEF PapersInv
<1>1. PaperTypes'
  BY DEF PaperTypes
<1>2. Loaded'
  BY DEF Loaded, PaperTypes
<1>3. \A q \in Web : /\ Changed(q)' <=> Changed(q)
                     /\ Due(q)' <=> Due(q)
                     /\ Changed(q) => page'[q] = page[q]
                     /\ Due(q) => page'[q] = page[q]
  BY DEF Changed, Due, PaperTypes
<1>4. ASSUME failed' = 0, ~crossed' PROVE Alone' /\ (reasons' = 0 => Untouched') /\ (reasons' = 1 => Once')
  <2>1. Alone /\ (reasons = 0 => Untouched) /\ (reasons = 1 => Once)
    BY <1>4
  <2>2. Untouched => Untouched'
    BY <1>3 DEF Untouched
  <2>3. Once => Once'
    BY <1>3 DEF Once, Cause
  <2>4. Alone'
    <3>1. \A q, t \in Web : Changed(q)' /\ Changed(t)' => q = t
      BY <1>3, <2>1 DEF Alone
    <3>2. ASSUME NEW q \in Web
          PROVE  /\ page'[q].kind = "edit" =>
                      IF page'[q].step = "commit" THEN page'[q].old = paper'.line
                                                  ELSE page'[q].new = paper'.line
                 /\ page'[q].kind = "cancel" /\ page'[q].step \in {"pay", "commit"} =>
                      page'[q].invoice = paper'.invoice /\ (reasons' = 0 => ~page'[q].slot)
      <4>1. CASE q # p
        BY <2>1, <4>1 DEF Alone, PaperTypes
      <4>2. CASE q = p
        <5>1. page'[q] = r
          BY <4>2 DEF PaperTypes
        <5>2. r.kind = "cancel" => r.invoice = paper.invoice /\ (reasons = 0 => ~r.slot)
          BY <2>1 DEF Alone, Untouched
        <5> QED
          BY <5>1, <5>2
      <4> QED
        BY <4>1, <4>2
    <3> QED
      BY <3>1, <3>2 DEF Alone
  <2> QED
    BY <2>1, <2>2, <2>3, <2>4
<1> QED
  BY <1>1, <1>2, <1>4

LEMMA BeginPapers ==
  ASSUME PapersInv, NEW p \in Web,
         C!LoadEdit(p) \/ C!LoadCancel(p) \/ C!PayCancel(p) \/ C!LoadRefund(p)
  PROVE  PapersInv'
<1> USE DEF PapersInv
<1>1. CASE C!LoadEdit(p)
  <2>1. PICK v \in Names \ {paper.line} :
           /\ paper.status \notin C!EDIT_BLOCKED_STATUSES
           /\ C!Starts(p, [C!Rest EXCEPT !.kind = "edit", !.step = "commit", !.status = paper.status,
                                         !.old = paper.line, !.new = v])
    BY <1>1 DEF C!LoadEdit
  <2>2. PICK r : r = [C!Rest EXCEPT !.kind = "edit", !.step = "commit", !.status = paper.status,
                                    !.old = paper.line, !.new = v]
    OBVIOUS
  <2>3. /\ r \in Call /\ r.kind = "edit" /\ r.step = "commit" /\ r.status = paper.status
        /\ r.old = paper.line /\ r.new = v
    BY <2>2 DEF Call, C!Rest, Named, Phases, PaperTypes
  <2> QED
    BY <2>1, <2>2, <2>3, WaitingPapers DEF C!Starts
<1>2. CASE C!LoadCancel(p)
  <2>1. PICK r : r = [C!Rest EXCEPT !.kind = "cancel", !.step = "pay", !.invoice = paper.invoice,
                                    !.slot = paper.slot]
    OBVIOUS
  <2>2. /\ r \in Call /\ r.kind = "cancel" /\ r.step = "pay" /\ r.invoice = paper.invoice
        /\ r.slot = paper.slot
    BY <2>1 DEF Call, C!Rest, Named, Phases, PaperTypes
  <2> QED
    BY <1>2, <2>1, <2>2, WaitingPapers DEF C!LoadCancel, C!Starts
<1>3. CASE C!PayCancel(p)
  <2>1. PICK r : r = [page[p] EXCEPT !.step = "commit"]
    OBVIOUS
  <2>2. /\ page[p].kind = "cancel" /\ page[p].step = "pay" /\ page' = [page EXCEPT ![p] = r]
        /\ UNCHANGED <<paper, goods, papers, billing, failed, reasons, crossed>>
    BY <1>3, <2>1 DEF C!PayCancel, C!Goes
  <2>3. /\ r \in Call /\ r.kind = "cancel" /\ r.step = "commit" /\ r.invoice = page[p].invoice
        /\ r.slot = page[p].slot
    BY <2>1, <2>2 DEF Call, PaperTypes
  <2> QED
    BY <2>2, <2>3, WaitingPapers
<1>4. CASE C!LoadRefund(p)
  <2>1. PICK r : r = [C!Rest EXCEPT !.kind = "refund", !.step = "pay"]
    OBVIOUS
  <2>2. r \in Call /\ r.kind = "refund" /\ r.step = "pay"
    BY <2>1 DEF Call, C!Rest, Named, Phases
  <2> QED
    BY <1>4, <2>1, <2>2, WaitingPapers DEF C!LoadRefund, C!Starts
<1> QED
  BY <1>1, <1>2, <1>3, <1>4

(* A request that ends before it put anything on paper, or because something failed. *)
LEMMA RestingCall ==
  /\ C!Rest \in Call /\ C!Rest.kind = "none" /\ C!Rest.step = "idle"
BY DEF C!Rest, Call, Named, Phases

LEMMA StopPapers == ASSUME PapersInv, NEW p \in Web, C!Stops(p) \/ C!AnswerLost(p) PROVE PapersInv'
<1>1. /\ page' = [page EXCEPT ![p] = C!Rest] \/ page' = page
      /\ failed' = failed + 1
      /\ UNCHANGED <<paper, goods, billing, reasons, crossed>>
  BY DEF C!Stops, C!AnswerLost, C!Ends, C!Fault
<1>2. papers' \in Seq(Paper)
  <2>1. CASE C!Stops(p)
    BY <2>1 DEF C!Stops, PapersInv, PaperTypes
  <2>2. CASE C!AnswerLost(p)
    <3>1. PICK x1 : x1 = C!Paper(page[p])
      OBVIOUS
    <3>2. x1 \in Paper
      BY <2>2, <3>1 DEF C!AnswerLost, C!Paper, Paper, PapersInv, PaperTypes, Call, Loaded
    <3> QED
      BY <2>2, <3>1, <3>2, AppendProperties DEF C!AnswerLost, PapersInv, PaperTypes
  <2> QED
    BY <2>1, <2>2
<1>3. page' \in [Web -> Call]
  BY <1>1, RestingCall DEF PapersInv, PaperTypes
<1>4. PaperTypes' /\ failed' # 0
  BY <1>1, <1>2, <1>3 DEF PapersInv, PaperTypes
<1>5. Loaded'
  <2>1. CASE page' = page
    BY <1>1, <2>1 DEF PapersInv, Loaded
  <2>2. CASE page' = [page EXCEPT ![p] = C!Rest]
    BY <1>1, <2>2, RestingCall DEF PapersInv, PaperTypes, Loaded
  <2> QED
    BY <1>1, <2>1, <2>2
<1> QED
  BY <1>4, <1>5 DEF PapersInv

-----------------------------------------------------------------------------
(* The changes.  Nothing else is under way, or the model says that they crossed. *)
LEMMA Happening ==
  ASSUME PapersInv, NEW p \in Web, C!Happens(p), failed' = 0, failed' = failed, ~crossed'
  PROVE  /\ Alone /\ (reasons = 0 => Untouched) /\ (reasons = 1 => Once)
         /\ \A q \in Web \ {p} : page[q].step = "idle" /\ page[q].kind = "none"
         /\ reasons' = IF paper.invoice = None THEN 0 ELSE reasons + 1
         /\ reasons' = 1 => reasons = 0
<1>1. failed = 0 /\ ~crossed /\ \A q \in Web \ {p} : page[q].step = "idle"
  BY DEF C!Happens
<1>2. \A q \in Web \ {p} : page[q].kind = "none"
  BY <1>1 DEF PapersInv, Loaded
<1>3. /\ reasons \in Nat /\ reasons' = IF paper.invoice = None THEN 0 ELSE reasons + 1
  BY DEF C!Happens, PapersInv, PaperTypes, Loaded
<1>4. reasons' = 1 => reasons = 0
  BY <1>3
<1> QED
  BY <1>1, <1>2, <1>3, <1>4 DEF PapersInv

(* what the one request that is past its change has left to do *)
LEMMA AloneNow ==
  ASSUME NEW f \in [Web -> Call], page' = f, NEW p \in Web,
         \A q \in Web \ {p} : f[q].step = "idle" /\ f[q].kind = "none",
         f[p].step = "load" \/ (f[p].step = "idle" /\ f[p].kind = "none"),
         f[p].kind = "edit" => f[p].new = paper'.line
  PROVE  Alone'
BY DEF Alone, Changed

LEMMA ChangePapers ==
  ASSUME PapersInv, NEW p \in Web, C!CommitEdit(p) \/ C!CommitCancel(p) \/ C!PayRefund(p)
  PROVE  PapersInv'
<1> USE DEF PapersInv
<1> PICK r : r = [page[p] EXCEPT !.step = "load"]
  OBVIOUS
<1>0. /\ page[p].step \in {"commit", "pay"} /\ UNCHANGED <<papers, billing, failed>> /\ C!Happens(p)
      /\ r \in Call /\ r.step = "load" /\ r.kind = page[p].kind /\ r.old = page[p].old
      /\ r.new = page[p].new /\ r.status = page[p].status
  BY DEF C!CommitEdit, C!CommitCancel, C!PayRefund, PaperTypes, Call
<1>1. reasons' \in Nat /\ crossed' \in BOOLEAN /\ (paper.invoice = None => reasons' = 0)
  BY <1>0 DEF C!Happens, PaperTypes, Loaded
<1>2. CASE C!CommitEdit(p)
  <2>1. /\ page[p].kind = "edit" /\ page[p].step = "commit" /\ billing.step = "idle"
        /\ paper' = [paper EXCEPT !.line = page[p].new, !.status = page[p].status]
        /\ page' = [page EXCEPT ![p] = r] /\ goods' = goods
    BY <1>2 DEF C!CommitEdit, C!Goes, C!Unlocked
  <2>2. /\ page[p].old # page[p].new /\ page[p].new \in Names /\ page[p].status \in Phases
        /\ page[p].status \notin {"cancelled", "delivered", "returned"}
    BY <2>1 DEF Loaded, PaperTypes, Call, C!EDIT_BLOCKED_STATUSES
  <2>3. /\ paper' \in [status : Phases, label : BOOLEAN, line : Names, sold : Names,
                       invoice : Named, slot : BOOLEAN]
        /\ paper'.line = page[p].new /\ paper'.status = page[p].status
        /\ paper'.invoice = paper.invoice /\ paper'.slot = paper.slot
    BY <2>1, <2>2 DEF PaperTypes
  <2>4. PaperTypes'
    BY <1>0, <1>1, <2>1, <2>3 DEF PaperTypes
  <2>5. Loaded'
    BY <1>0, <1>1, <2>1, <2>2, <2>3 DEF Loaded, PaperTypes
  <2>6. ASSUME failed' = 0, ~crossed'
        PROVE  Alone' /\ (reasons' = 0 => Untouched') /\ (reasons' = 1 => Once')
    <3>1. /\ Alone /\ (reasons = 0 => Untouched)
          /\ \A q \in Web \ {p} : page[q].step = "idle" /\ page[q].kind = "none"
          /\ reasons' = IF paper.invoice = None THEN 0 ELSE reasons + 1
          /\ reasons' = 1 => reasons = 0
      BY <1>0, <2>6, Happening
    <3>2. Alone'
      <4> PICK f : f = [page EXCEPT ![p] = r]
        OBVIOUS
      <4>1. f \in [Web -> Call] /\ f[p] = r /\ \A q \in Web \ {p} : f[q] = page[q]
        BY <1>0 DEF PaperTypes
      <4>2. page' = f /\ paper'.line = page[p].new
        BY <2>1, <2>3
      <4>3. /\ f[p].step = "load" /\ f[p].new = paper'.line
            /\ \A q \in Web \ {p} : f[q].step = "idle" /\ f[q].kind = "none"
        BY <1>0, <3>1, <4>1, <4>2
      <4> QED
        BY <4>1, <4>2, <4>3, AloneNow
    <3>3. reasons' = 0 => Untouched'
      BY <1>0, <2>3, <3>1 DEF Untouched, PaperTypes, Loaded
    <3>4. ASSUME reasons' = 1 PROVE Once'
      <4>1. /\ paper.invoice # None /\ Untouched /\ page[p].old = paper.line
        BY <2>1, <3>1, <3>4 DEF Alone
      <4>2. Cause' = "edit"
        BY <2>1, <2>2, <2>3, <4>1 DEF Cause, Untouched
      <4>3. \A q \in Web : Due(q)' <=> q = p
        BY <1>0, <2>1, <3>1 DEF Due, PaperTypes
      <4>4. page'[p] = r
        BY <2>1 DEF PaperTypes
      <4> QED
        BY <1>0, <2>1, <2>3, <4>1, <4>2, <4>3, <4>4 DEF Once, Untouched
    <3> QED
      BY <3>2, <3>3, <3>4
  <2> QED
    BY <2>4, <2>5, <2>6
<1>3. CASE C!CommitCancel(p)
  <2>1. /\ page[p].kind = "cancel" /\ page[p].step = "commit" /\ billing.step = "idle"
        /\ paper' = [paper EXCEPT !.status = "cancelled"] /\ goods' = goods
        /\ page' = [page EXCEPT ![p] = IF page[p].invoice # None /\ ~page[p].slot
                                       THEN r ELSE C!Rest]
    BY <1>3 DEF C!CommitCancel, C!Goes, C!Ends, C!Unlocked
  <2>2. /\ paper' \in [status : Phases, label : BOOLEAN, line : Names, sold : Names,
                       invoice : Named, slot : BOOLEAN]
        /\ paper'.line = paper.line /\ paper'.status = "cancelled"
        /\ paper'.invoice = paper.invoice /\ paper'.slot = paper.slot
    BY <2>1 DEF PaperTypes, Phases
  <2>3. PICK t \in {r, C!Rest} : /\ page' = [page EXCEPT ![p] = t]
                                 /\ page[p].invoice # None /\ ~page[p].slot => t = r
                                 /\ page[p].invoice = None => t = C!Rest
    BY <2>1
  <2>4. t \in Call
    BY <1>0, <2>3, RestingCall
  <2>5. PaperTypes'
    BY <1>0, <1>1, <2>1, <2>2, <2>3, <2>4 DEF PaperTypes
  <2>6. Loaded'
    BY <1>0, <1>1, <2>1, <2>2, <2>3, <2>4, RestingCall DEF Loaded, PaperTypes
  <2>7. ASSUME failed' = 0, ~crossed'
        PROVE  Alone' /\ (reasons' = 0 => Untouched') /\ (reasons' = 1 => Once')
    <3>1. /\ Alone /\ (reasons = 0 => Untouched)
          /\ \A q \in Web \ {p} : page[q].step = "idle" /\ page[q].kind = "none"
          /\ reasons' = IF paper.invoice = None THEN 0 ELSE reasons + 1
          /\ reasons' = 1 => reasons = 0
      BY <1>0, <2>7, Happening
    <3>2. Alone'
      <4> PICK f : f = [page EXCEPT ![p] = t]
        OBVIOUS
      <4>1. f \in [Web -> Call] /\ f[p] = t /\ \A q \in Web \ {p} : f[q] = page[q]
        BY <2>4 DEF PaperTypes
      <4>2. page' = f /\ paper'.line = paper.line
        BY <2>2, <2>3
      <4>3. \/ t.step = "load" /\ t.kind = "cancel"
            \/ t.step = "idle" /\ t.kind = "none"
        <5>1. CASE t = r
          BY <1>0, <2>1, <5>1
        <5>2. CASE t = C!Rest
          BY <5>2, RestingCall
        <5> QED
          BY <2>3, <5>1, <5>2
      <4> QED
        BY <3>1, <4>1, <4>2, <4>3, AloneNow
    <3>3. reasons' = 0 => Untouched'
      BY <1>0, <2>2, <3>1 DEF Untouched, PaperTypes, Loaded
    <3>4. ASSUME reasons' = 1 PROVE Once'
      <4>1. /\ paper.invoice # None /\ Untouched /\ page[p].invoice = paper.invoice /\ ~page[p].slot
        BY <2>1, <3>1, <3>4 DEF Alone
      <4>2. Cause' = "cancel" /\ t = r
        BY <2>2, <2>3, <4>1 DEF Cause
      <4>3. \A q \in Web : Due(q)' <=> q = p
        BY <1>0, <2>3, <3>1, <4>2 DEF Due, PaperTypes
      <4>4. page'[p] = r
        BY <2>3, <4>2 DEF PaperTypes
      <4> QED
        BY <1>0, <2>1, <2>2, <4>1, <4>2, <4>3, <4>4 DEF Once, Untouched
    <3> QED
      BY <3>2, <3>3, <3>4
  <2> QED
    BY <2>5, <2>6, <2>7
<1>4. CASE C!PayRefund(p)
  <2>1. /\ page[p].kind = "refund" /\ page[p].step = "pay"
        /\ goods' = [goods EXCEPT !.step = "refunded"] /\ paper' = paper
        /\ page' = [page EXCEPT ![p] = r]
    BY <1>4 DEF C!PayRefund, C!Goes
  <2>2. PaperTypes' /\ goods'.step = "refunded"
    BY <1>0, <1>1, <2>1 DEF PaperTypes
  <2>3. Loaded'
    BY <1>0, <1>1, <2>1 DEF Loaded, PaperTypes
  <2>4. ASSUME failed' = 0, ~crossed'
        PROVE  Alone' /\ (reasons' = 0 => Untouched') /\ (reasons' = 1 => Once')
    <3>1. /\ Alone /\ (reasons = 0 => Untouched)
          /\ \A q \in Web \ {p} : page[q].step = "idle" /\ page[q].kind = "none"
          /\ reasons' = IF paper.invoice = None THEN 0 ELSE reasons + 1
          /\ reasons' = 1 => reasons = 0
      BY <1>0, <2>4, Happening
    <3>2. page'[p] = r
      BY <2>1 DEF PaperTypes
    <3>3. Alone'
      <4> PICK f : f = [page EXCEPT ![p] = r]
        OBVIOUS
      <4>1. f \in [Web -> Call] /\ f[p] = r /\ \A q \in Web \ {p} : f[q] = page[q]
        BY <1>0 DEF PaperTypes
      <4>2. page' = f /\ paper'.line = paper.line
        BY <2>1
      <4>3. /\ f[p].step = "load" /\ f[p].kind = "refund"
            /\ \A q \in Web \ {p} : f[q].step = "idle" /\ f[q].kind = "none"
        BY <1>0, <2>1, <3>1, <4>1
      <4> QED
        BY <4>1, <4>2, <4>3, AloneNow
    <3>4. reasons' = 0 => Untouched'
      BY <1>0, <2>1, <3>1 DEF Untouched, PaperTypes, Loaded
    <3>5. ASSUME reasons' = 1 PROVE Once'
      <4>1. paper.invoice # None /\ Untouched
        BY <3>1, <3>5
      <4>2. Cause' = "refund"
        BY <2>1, <2>2, <4>1 DEF Cause, Untouched
      <4>3. \A q \in Web : Due(q)' <=> q = p
        BY <1>0, <2>1, <3>1 DEF Due, PaperTypes
      <4> QED
        BY <1>0, <2>1, <3>2, <4>1, <4>2, <4>3 DEF Once, Untouched
    <3> QED
      BY <3>3, <3>4, <3>5
  <2> QED
    BY <2>2, <2>3, <2>4
<1> QED
  BY <1>2, <1>3, <1>4

-----------------------------------------------------------------------------
(* The papers: looked up, added at wFirma, remembered in the order. *)
LEMMA LookPapers == ASSUME PapersInv, NEW p \in Web, C!LoadInvoice(p) PROVE PapersInv'
<1> USE DEF PapersInv
<1> PICK r : r = [page[p] EXCEPT !.step = "add"]
  OBVIOUS
<1>1. /\ page[p].step = "load" /\ UNCHANGED <<paper, goods, papers, billing, failed, reasons, crossed>>
      /\ page' = [page EXCEPT ![p] = IF C!Correctable(page[p]) THEN r ELSE C!Rest]
  BY DEF C!LoadInvoice, C!Goes, C!Ends
<1>2. /\ r \in Call /\ r.step = "add" /\ r.kind = page[p].kind /\ r.old = page[p].old
      /\ r.new = page[p].new /\ r.status = page[p].status
  BY DEF PaperTypes, Call
<1>3. PICK t \in {r, C!Rest} : /\ page' = [page EXCEPT ![p] = t]
                               /\ IF C!Correctable(page[p]) THEN t = r ELSE t = C!Rest
  BY <1>1
<1>4. PaperTypes'
  BY <1>1, <1>2, <1>3, RestingCall DEF PaperTypes
<1>5. Loaded'
  <2>1. t = r => paper.invoice # None
    BY <1>3, RestingCall, <1>2 DEF C!Correctable
  <2> QED
    BY <1>1, <1>2, <1>3, <2>1, RestingCall DEF Loaded, PaperTypes
<1>6. ASSUME failed' = 0, ~crossed'
      PROVE  Alone' /\ (reasons' = 0 => Untouched') /\ (reasons' = 1 => Once')
  <2>1. Alone /\ (reasons = 0 => Untouched) /\ (reasons = 1 => Once)
    BY <1>1, <1>6
  <2>2. /\ Changed(p) /\ Due(p) /\ (page[p].kind = "edit" => page[p].new = paper.line)
        /\ \A q \in Web : Changed(q) => q = p
    BY <1>1, <2>1 DEF Alone, Changed, Due
  <2>3. \A q \in Web \ {p} : page'[q] = page[q] /\ ~Changed(q)' /\ ~Due(q)'
    BY <1>3, <2>2 DEF PaperTypes, Changed, Due
  <2>4. page'[p] = t
    BY <1>3 DEF PaperTypes
  <2>5. Alone'
    <3>1. \A q, u \in Web : Changed(q)' /\ Changed(u)' => q = u
      BY <2>3
    <3>2. t.kind = "edit" => t.step = "add" /\ t.new = paper.line
      BY <1>2, <1>3, <2>2, RestingCall
    <3>3. t.kind = "cancel" => t.step = "add"
      BY <1>2, <1>3, RestingCall
    <3> QED
      BY <1>1, <2>1, <2>3, <2>4, <3>1, <3>2, <3>3 DEF Alone
  <2>6. ASSUME reasons = 0 PROVE Untouched'
    <3>1. t = C!Rest
      BY <1>1, <1>3, <2>1, <2>2, <2>6 DEF Untouched, Loaded, C!Correctable, C!OnInvoice
    <3>2. \A q \in Web : ~Changed(q)'
      BY <2>3, <2>4, <3>1, RestingCall DEF Changed
    <3> QED
      BY <1>1, <2>1, <2>6, <3>2 DEF Untouched
  <2>7. ASSUME reasons = 1 PROVE Once'
    <3>1. /\ Once /\ papers = <<>> /\ ~paper.slot /\ page[p].kind = Cause
          /\ Cause = "edit" => page[p].old = paper.invoice
      BY <2>1, <2>2, <2>7 DEF Once
    <3>2. Cause' = Cause /\ Cause \in {"edit", "cancel", "refund"}
      BY <1>1 DEF Cause
    <3>3. CASE t = r
      <4>1. Due(p)'
        BY <1>2, <2>4, <3>3 DEF Due
      <4> QED
        BY <1>1, <1>2, <2>3, <2>4, <3>1, <3>2, <3>3, <4>1 DEF Once
    <3>4. CASE t = C!Rest
      <4>1. Cause = "refund" /\ goods.name # paper.invoice
        BY <1>2, <1>3, <3>1, <3>2, <3>4, RestingCall DEF Once, C!Correctable, C!OnInvoice
      <4>2. ~Due(p)'
        BY <2>4, <3>4, RestingCall DEF Due
      <4> QED
        BY <1>1, <2>3, <3>1, <3>2, <4>1, <4>2 DEF Once
    <3> QED
      BY <3>3, <3>4
  <2> QED
    BY <1>1, <2>5, <2>6, <2>7
<1> QED
  BY <1>4, <1>5, <1>6

LEMMA AddPapers == ASSUME PapersInv, NEW p \in Web, C!AddCorrection(p) PROVE PapersInv'
<1> USE DEF PapersInv
<1> PICK r : r = [page[p] EXCEPT !.step = "record"]
  OBVIOUS
<1> PICK new : new = C!Paper(page[p])
  OBVIOUS
<1>1. /\ page[p].step = "add" /\ UNCHANGED <<paper, goods, billing, failed, reasons, crossed>>
      /\ page' = [page EXCEPT ![p] = r] /\ papers' = Append(papers, new)
  BY DEF C!AddCorrection, C!Goes
<1>2. /\ r \in Call /\ r.step = "record" /\ r.kind = page[p].kind /\ r.old = page[p].old
      /\ r.new = page[p].new /\ r.status = page[p].status
  BY DEF PaperTypes, Call
<1>3. new \in Paper /\ new.why = page[p].kind /\ new.name = page[p].new
  BY <1>1 DEF C!Paper, Paper, PaperTypes, Call, Loaded
<1>4. PaperTypes' /\ paper.invoice # None
  BY <1>1, <1>2, <1>3, AppendProperties DEF PaperTypes, Loaded
<1>5. Loaded'
  BY <1>1, <1>2, <1>4 DEF Loaded, PaperTypes
<1>6. ASSUME failed' = 0, ~crossed'
      PROVE  Alone' /\ (reasons' = 0 => Untouched') /\ (reasons' = 1 => Once')
  <2>1. Alone /\ (reasons = 0 => Untouched) /\ (reasons = 1 => Once)
    BY <1>1, <1>6
  <2>2. /\ Changed(p) /\ Due(p) /\ (page[p].kind = "edit" => page[p].new = paper.line)
        /\ \A q \in Web : Changed(q) => q = p
    BY <1>1, <2>1 DEF Alone, Changed, Due
  <2>3. \A q \in Web \ {p} : page'[q] = page[q] /\ ~Changed(q)' /\ ~Due(q)'
    BY <1>1, <2>2 DEF PaperTypes, Changed, Due
  <2>4. page'[p] = r /\ ~Due(p)'
    BY <1>1, <1>2 DEF PaperTypes, Due
  <2>5. Alone'
    <3>1. \A q, u \in Web : Changed(q)' /\ Changed(u)' => q = u
      BY <2>3
    <3> QED
      BY <1>1, <1>2, <2>1, <2>2, <2>3, <2>4, <3>1 DEF Alone
  <2>6. reasons # 0
    BY <1>1, <1>4, <2>1, <2>2 DEF Untouched
  <2>7. ASSUME reasons = 1 PROVE Once'
    <3>1. /\ Once /\ papers = <<>> /\ page[p].kind = Cause
      BY <2>1, <2>2, <2>7 DEF Once
    <3>2. Cause' = Cause
      BY <1>1 DEF Cause
    <3>3. Len(papers') = 1 /\ papers'[1] = new /\ papers' # <<>>
      BY <1>1, <1>3, <3>1, AppendProperties, EmptySeq
    <3> QED
      BY <1>1, <1>3, <1>4, <2>2, <2>3, <2>4, <3>1, <3>2, <3>3 DEF Once
  <2> QED
    BY <1>1, <2>5, <2>6, <2>7
<1> QED
  BY <1>4, <1>5, <1>6

LEMMA RecordPapers == ASSUME PapersInv, NEW p \in Web, C!Record(p) PROVE PapersInv'
<1> USE DEF PapersInv
<1>1. /\ page[p].step = "record" /\ UNCHANGED <<goods, papers, billing, failed, reasons, crossed>>
      /\ page' = [page EXCEPT ![p] = C!Rest] /\ paper' = [paper EXCEPT !.slot = TRUE]
  BY DEF C!Record, C!Ends
<1>2. /\ paper'.line = paper.line /\ paper'.status = paper.status /\ paper'.invoice = paper.invoice
      /\ paper.invoice # None
  BY <1>1 DEF PaperTypes, Loaded
<1>3. PaperTypes'
  BY <1>1, RestingCall DEF PaperTypes
<1>4. Loaded'
  BY <1>1, <1>2, RestingCall DEF Loaded, PaperTypes
<1>5. ASSUME failed' = 0, ~crossed'
      PROVE  Alone' /\ (reasons' = 0 => Untouched') /\ (reasons' = 1 => Once')
  <2>1. Alone /\ (reasons = 0 => Untouched) /\ (reasons = 1 => Once)
    BY <1>1, <1>5
  <2>2. Changed(p) /\ \A q \in Web : (Changed(q) => q = p) /\ ~Due(q)
    BY <1>1, <2>1 DEF Alone, Changed, Due
  <2>3. \A q \in Web : ~Changed(q)' /\ ~Due(q)' /\ (q # p => page'[q] = page[q])
    BY <1>1, <2>2, RestingCall DEF PaperTypes, Changed, Due
  <2>4. page'[p].kind = "none"
    BY <1>1, RestingCall DEF PaperTypes
  <2>5. Alone'
    BY <1>1, <1>2, <2>1, <2>3, <2>4 DEF Alone
  <2>6. reasons # 0
    BY <1>1, <1>2, <2>1, <2>2 DEF Untouched
  <2>7. Cause' = Cause
    BY <1>1, <1>2 DEF Cause
  <2>8. Once => Once'
    BY <1>1, <1>2, <2>2, <2>3, <2>7 DEF Once
  <2> QED
    BY <1>1, <2>1, <2>5, <2>6, <2>8
<1> QED
  BY <1>3, <1>4, <1>5

LEMMA PapersInductive ==
  PapersInv /\ [NextAll]_allVars => PapersInv'
<1> SUFFICES ASSUME PapersInv, [NextAll]_allVars PROVE PapersInv'
  OBVIOUS
<1>1. CASE UNCHANGED corrections
  <2>1. UNCHANGED <<paper, goods, papers, billing, page, failed, reasons, crossed>>
    BY <1>1 DEF corrections
  <2>2. PaperTypes' /\ Loaded'
    BY <2>1 DEF PapersInv, PaperTypes, Loaded
  <2>3. (Alone => Alone') /\ (Untouched => Untouched') /\ (Once => Once')
    BY <2>1 DEF Alone, Untouched, Once, Changed, Due, Cause
  <2> QED
    BY <2>1, <2>2, <2>3 DEF PapersInv
<1>2. CASE C!Next
  BY <1>2, OutsidePapers, BillingPapers, BeginPapers, ChangePapers, StopPapers, LookPapers,
     AddPapers, RecordPapers DEF C!Next, C!PageStep
<1> QED
  BY <1>1, <1>2 DEF NextAll, allVars

(* For any names, requests and faults: what first happens to an order after
   its invoice is on paper once everything is done, and a name that changed
   while wFirma was asked for the invoice is the one that is on it. *)
THEOREM PapersFollowOrder == SpecAll => []PapersFollow
<1>1. PapersInv => PapersFollow
  <2> SUFFICES ASSUME PapersInv, C!AtRest, paper.invoice # None, failed = 0, ~crossed, reasons <= 1
               PROVE  IF paper.status = "cancelled" THEN C!Corrected("cancel")
                      ELSE IF goods.step = "refunded"
                           THEN goods.name = paper.invoice => C!Corrected("refund")
                           ELSE C!NameOnPapers = paper.line
    BY DEF PapersFollow, C!PapersFollow
  <2>1. reasons \in {0, 1} /\ papers \in Seq(Paper)
    BY DEF PapersInv, PaperTypes
  <2>2. CASE reasons = 0
    <3>1. /\ papers = <<>> /\ paper.invoice = paper.line /\ paper.status # "cancelled"
          /\ goods.step # "refunded"
      BY <2>2 DEF PapersInv, Untouched
    <3>2. C!Renamed = {}
      BY <3>1 DEF C!Renamed
    <3> QED
      BY <3>1, <3>2 DEF C!NameOnPapers
  <2>3. CASE reasons = 1
    <3>1. Once /\ \A p \in Web : ~Due(p)
      BY <2>3 DEF PapersInv, C!AtRest, Due
    <3>2. CASE papers = <<>>
      BY <3>1, <3>2 DEF Once, Cause
    <3>3. CASE papers # <<>>
      <4>1. /\ DOMAIN papers = {1} /\ papers[1].why = Cause
            /\ Cause = "edit" => papers[1].name = paper.line
        BY <2>1, <3>1, <3>3 DEF Once
      <4>2. Cause = "edit" => C!Renamed = {1}
        BY <4>1 DEF C!Renamed
      <4>3. C!Max({1}) = 1
        BY DEF C!Max
      <4>4. Cause = "edit" => C!NameOnPapers = paper.line
        BY <4>1, <4>2, <4>3 DEF C!NameOnPapers
      <4> QED
        <5>1. Cause = "cancel" => C!Corrected("cancel")
          BY <4>1 DEF C!Corrected
        <5>2. Cause = "refund" => C!Corrected("refund")
          BY <4>1 DEF C!Corrected
        <5>3. CASE paper.status = "cancelled"
          BY <5>1, <5>3 DEF Cause
        <5>4. CASE paper.status # "cancelled" /\ goods.step = "refunded"
          BY <5>2, <5>4 DEF Cause
        <5>5. CASE paper.status # "cancelled" /\ goods.step # "refunded"
          BY <4>4, <5>5 DEF Cause
        <5> QED
          BY <5>3, <5>4, <5>5
    <3> QED
      BY <3>2, <3>3
  <2> QED
    BY <2>1, <2>2, <2>3
<1> QED
  BY <1>1, PapersStart, PapersInductive, PTL DEF SpecAll

-----------------------------------------------------------------------------
(* Stocktakes.                                                             *)

Line == [variant : Counted, expected : Nat, scanned : Nat, at : Nat]
Tally == [kind : {"scan", "undo"}, take : Takes, row : Nat, item : Line]
Starting == [kind : {"new"}, take : Takes, items : Seq(Line)]
Applying == [kind : {"apply"}, take : Takes, items : Seq(Line), loaded : [Counted -> Nat]]
Begins(p, t) == work[p].kind = "new" /\ work[p].take = t
Counts(p, t) == work[p].kind \in {"scan", "undo"} /\ work[p].take = t
Applied(p, t) == work[p].kind = "apply" /\ work[p].take = t
Works(p, t) == Begins(p, t) \/ Counts(p, t) \/ Applied(p, t)

TakeTypes ==
  /\ quantity \in [Counted -> Nat] /\ shelf \in [Counted -> Nat] /\ coded \subseteq Counted
  /\ takes \in [Takes -> {"none", "in_progress", "finished", "applied"}]
  /\ rows \in [Takes -> Seq(Line)]
  /\ work \in [Web -> {S!Idle} \cup Tally \cup Starting \cup Applying]
  /\ count \in [Takes -> [Counted -> Nat]] /\ due \in [Takes -> [Counted -> Nat]]
  /\ latest \in [Takes -> Counted \cup {None}]
  /\ before \in [Takes -> SUBSET Counted] /\ after \in [Takes -> SUBSET Counted]
  /\ spoilt \in [Takes -> BOOLEAN]

OneEachVariant(items) ==
  \A i, j \in DOMAIN items : items[i].variant = items[j].variant => i = j

(* a stocktake that is not begun, or is just beginning *)
Fresh(t) ==
  /\ takes[t] = "none" =>
       /\ rows[t] = <<>> /\ latest[t] = None /\ \A v \in Counted : count[t][v] = 0
       /\ \A p \in Web : ~Counts(p, t) /\ ~Applied(p, t)
  /\ \A p \in Web : Begins(p, t) =>
       /\ takes[t] = "none" /\ OneEachVariant(work[p].items)
       /\ \A i \in DOMAIN work[p].items : work[p].items[i].scanned = 0
       /\ \A q \in Web : Begins(q, t) => q = p

(* the request p is about to write what the person has counted *)
Tallies(p, t) == LET r == work[p] IN
  /\ r.item.scanned = count[t][r.item.variant]
  /\ r.kind = "scan" => r.item.scanned > 0
  /\ r.kind = "undo" => r.row # 0
  /\ IF r.row = 0 THEN S!RowsOf(t, r.item.variant) = {}
     ELSE /\ r.row \in DOMAIN rows[t] /\ rows[t][r.row].variant = r.item.variant
          /\ rows[t][r.row].expected = r.item.expected
  /\ IF r.kind = "undo" THEN latest[t] = None
     ELSE /\ latest[t] = r.item.variant
          /\ \A j \in DOMAIN rows[t] :
               rows[t][j].variant # r.item.variant => rows[t][j].at < r.item.at
(* or nobody is: the piece that was scanned last is of the newest item *)
Tallied(t) ==
  /\ \A i \in DOMAIN rows[t] : rows[t][i].scanned = count[t][rows[t][i].variant]
  /\ latest[t] # None =>
       /\ count[t][latest[t]] > 0
       /\ \A i, j \in DOMAIN rows[t] :
            rows[t][i].variant = latest[t] /\ i # j => rows[t][j].at < rows[t][i].at

InStep(t) ==
  /\ OneEachVariant(rows[t])
  /\ \A p, q \in Web : Counts(p, t) /\ Counts(q, t) => p = q
  /\ \A p \in Web : Counts(p, t) => takes[t] = "in_progress" /\ Tallies(p, t)
  /\ \A i \in DOMAIN rows[t] :
       \/ rows[t][i].scanned = count[t][rows[t][i].variant]
       \/ \E p \in Web : Counts(p, t) /\ work[p].item.variant = rows[t][i].variant
  /\ \A v \in Counted : count[t][v] > 0 =>
       \/ S!RowsOf(t, v) # {}
       \/ \E p \in Web : Counts(p, t) /\ work[p].item.variant = v
  /\ (\A p \in Web : ~Counts(p, t)) => Tallied(t)
  /\ \A p \in Web : Applied(p, t) =>
       takes[t] \in {"finished", "applied"} /\ work[p].items = rows[t]

(* e is, or is about to be, the expected_qty of v *)
Expected(t, v, e) ==
  \/ \E i \in DOMAIN rows[t] : rows[t][i].variant = v /\ rows[t][i].expected = e
  \/ \E p \in Web : Counts(p, t) /\ work[p].item.variant = v /\ work[p].item.expected = e
  \/ \E p \in Web : Begins(p, t) /\ \E i \in DOMAIN work[p].items :
       work[p].items[i].variant = v /\ work[p].items[i].expected = e

(* what moved since v was counted, or before, is known *)
StillThere(t, v) == count[t][v] > 0 /\ v \notin after[t] => shelf[v] = due[t][v]
SinceSnapshot(t, v) ==
  \A e \in Nat :
    Expected(t, v, e) /\ v \notin before[t]
      /\ (takes[t] \in {"none", "in_progress"} \/ count[t][v] = e) =>
    IF count[t][v] = 0 THEN quantity[v] = e ELSE quantity[v] - shelf[v] = e - due[t][v]
SinceLoaded(t, v) ==
  \A p \in Web : Applied(p, t) /\ v \notin after[t] =>
    IF count[t][v] = 0 THEN quantity[v] - shelf[v] <= work[p].loaded[v]
    ELSE quantity[v] \in {work[p].loaded[v], count[t][v]}

Accounted(t, v) == StillThere(t, v) /\ SinceSnapshot(t, v) /\ SinceLoaded(t, v)

TakeInv ==
  /\ TakeTypes
  /\ \A t \in Takes : Fresh(t)
  /\ \A t \in Takes : ~spoilt[t] => InStep(t) /\ \A v \in Counted : Accounted(t, v)

LEMMA WorkKinds ==
  ASSUME TakeTypes, NEW p \in Web
  PROVE  /\ work[p].kind \in {"none", "new", "scan", "undo", "apply"}
         /\ work[p] = S!Idle <=> work[p].kind = "none"
         /\ work[p].kind = "new" => work[p] \in Starting
         /\ work[p].kind \in {"scan", "undo"} => work[p] \in Tally
         /\ work[p].kind = "apply" => work[p] \in Applying
BY DEF TakeTypes, S!Idle, Tally, Starting, Applying

(* A step that does nothing to a stocktake keeps what is known of it. *)
LEMMA Keeps ==
  ASSUME TakeTypes, NEW t \in Takes, rows'[t] = rows[t], takes'[t] = takes[t],
         count'[t] = count[t], latest'[t] = latest[t],
         \A q \in Web : \/ work'[q] = work[q]
                        \/ ~Works(q, t) /\ ~Works(q, t)'
  PROVE  /\ Fresh(t) => Fresh(t)'
         /\ InStep(t) => InStep(t)'
         /\ \A v, e : Expected(t, v, e)' => Expected(t, v, e)
         /\ \A q \in Web : Applied(q, t)' => Applied(q, t) /\ work'[q] = work[q]
<1>1. \A q \in Web : /\ Begins(q, t)' <=> Begins(q, t)
                     /\ Counts(q, t)' <=> Counts(q, t)
                     /\ Applied(q, t)' <=> Applied(q, t)
                     /\ Works(q, t) => work'[q] = work[q]
  BY DEF Works, Begins, Counts, Applied
<1>2. \A q \in Web : Begins(q, t) \/ Counts(q, t) \/ Applied(q, t) => work'[q] = work[q]
  BY <1>1 DEF Works
<1>3. Fresh(t) => Fresh(t)'
  BY <1>1, <1>2 DEF Fresh, OneEachVariant
<1>4. \A q \in Web : Counts(q, t) /\ Tallies(q, t) => Tallies(q, t)'
  BY <1>2 DEF Tallies, S!RowsOf
<1>5. Tallied(t) => Tallied(t)'
  BY DEF Tallied
<1>6. InStep(t) => InStep(t)'
  BY <1>1, <1>2, <1>4, <1>5 DEF InStep, OneEachVariant, S!RowsOf
<1>7. \A v, e : Expected(t, v, e)' => Expected(t, v, e)
  BY <1>1, <1>2 DEF Expected
<1> QED
  BY <1>1, <1>2, <1>3, <1>6, <1>7

LEMMA KeepsAccount ==
  ASSUME NEW t \in Takes, NEW v \in Counted, Accounted(t, v),
         takes'[t] \in {"none", "in_progress"} => takes[t] \in {"none", "in_progress"},
         count'[t][v] = count[t][v], due'[t][v] = due[t][v],
         quantity'[v] = quantity[v], shelf'[v] = shelf[v],
         v \in before[t] => v \in before'[t], v \in after[t] => v \in after'[t],
         \A e \in Nat : Expected(t, v, e)' => Expected(t, v, e),
         \A q \in Web : Applied(q, t)' => Applied(q, t) /\ work'[q] = work[q]
  PROVE  Accounted(t, v)'
<1>1. StillThere(t, v)'
  BY DEF Accounted, StillThere
<1>2. SinceSnapshot(t, v)'
  BY DEF Accounted, SinceSnapshot
<1>3. SinceLoaded(t, v)'
  BY DEF Accounted, SinceLoaded
<1> QED
  BY <1>1, <1>2, <1>3 DEF Accounted

LEMMA TakesStart == InitAll => TakeInv
<1> SUFFICES ASSUME InitAll PROVE TakeInv
  OBVIOUS
<1>1. TakeTypes
  BY CountedAssumption DEF InitAll, S!Init, TakeTypes
<1>2. ASSUME NEW p \in Web, NEW t \in Takes
      PROVE  ~Begins(p, t) /\ ~Counts(p, t) /\ ~Applied(p, t)
  BY DEF InitAll, S!Init, S!Idle, Begins, Counts, Applied
<1>3. ASSUME NEW t \in Takes
      PROVE  /\ rows[t] = <<>> /\ latest[t] = None /\ takes[t] = "none"
             /\ \A v \in Counted : count[t][v] = 0
  BY DEF InitAll, S!Init
<1>4. ASSUME NEW t \in Takes PROVE Fresh(t)
  BY <1>2, <1>3 DEF Fresh
<1>5. ASSUME NEW t \in Takes PROVE InStep(t)
  BY <1>2, <1>3 DEF InStep, OneEachVariant, Tallied
<1>6. ASSUME NEW t \in Takes, NEW v \in Counted PROVE Accounted(t, v)
  BY <1>2, <1>3 DEF Accounted, StillThere, SinceSnapshot, SinceLoaded, Expected
<1> QED
  BY <1>1, <1>4, <1>5, <1>6 DEF TakeInv

-----------------------------------------------------------------------------
LEMMA BarcodeTakes == ASSUME TakeInv, NEW v \in Counted, S!EnterBarcode(v) PROVE TakeInv'
<1>1. /\ coded' = coded \cup {v}
      /\ UNCHANGED <<quantity, shelf, takes, rows, work, count, latest, due, before, after, spoilt>>
  BY DEF S!EnterBarcode, S!person, S!history
<1>2. TakeTypes'
  BY <1>1 DEF TakeInv, TakeTypes
<1>3. ASSUME NEW t \in Takes
      PROVE  /\ Fresh(t)'
             /\ ~spoilt'[t] => InStep(t)' /\ \A w \in Counted : Accounted(t, w)'
  <2>1. /\ Fresh(t) => Fresh(t)'
        /\ InStep(t) => InStep(t)'
        /\ \A w, e : Expected(t, w, e)' => Expected(t, w, e)
        /\ \A q \in Web : Applied(q, t)' => Applied(q, t) /\ work'[q] = work[q]
    BY <1>1, Keeps DEF TakeInv
  <2>2. ASSUME NEW w \in Counted, Accounted(t, w) PROVE Accounted(t, w)'
    BY <1>1, <2>1, <2>2, KeepsAccount
  <2> QED
    BY <1>1, <2>1, <2>2 DEF TakeInv
<1> QED
  BY <1>2, <1>3 DEF TakeInv

(* A piece that comes or goes leaves the difference between the books and the shelf. *)
LEMMA ShiftTakes ==
  ASSUME TakeInv, NEW v \in Counted, S!Sell(v) \/ S!Receive(v)
  PROVE  TakeInv'
<1>1. PICK n \in {-1, 1} :
      /\ quantity[v] + n \in Nat /\ shelf[v] + n \in Nat
      /\ quantity' = [quantity EXCEPT ![v] = @ + n] /\ shelf' = [shelf EXCEPT ![v] = @ + n]
      /\ before' = [t \in Takes |->
           IF S!Begun(t) /\ (count[t][v] = 0 \/ count[t][v] < due[t][v])
           THEN before[t] \cup {v} ELSE before[t]]
      /\ after' = [t \in Takes |->
           IF S!Begun(t) /\ count[t][v] > 0 THEN after[t] \cup {v} ELSE after[t]]
      /\ UNCHANGED <<coded, takes, rows, work, count, latest, due, spoilt>>
  <2>1. quantity[v] \in Nat /\ shelf[v] \in Nat
    BY DEF TakeInv, TakeTypes
  <2>2. CASE S!Sell(v)
    BY <2>1, <2>2 DEF S!Sell, S!Shift, S!person
  <2>3. CASE S!Receive(v)
    BY <2>1, <2>3 DEF S!Receive, S!Shift, S!person
  <2> QED
    BY <2>2, <2>3
<1>2. quantity'[v] = quantity[v] + n /\ shelf'[v] = shelf[v] + n
  BY <1>1 DEF TakeInv, TakeTypes
<1>3. TakeTypes'
  <2>1. quantity' \in [Counted -> Nat] /\ shelf' \in [Counted -> Nat]
    BY <1>1, <1>2 DEF TakeInv, TakeTypes
  <2>2. before' \in [Takes -> SUBSET Counted] /\ after' \in [Takes -> SUBSET Counted]
    BY <1>1 DEF TakeInv, TakeTypes
  <2> QED
    BY <1>1, <2>1, <2>2 DEF TakeInv, TakeTypes
<1>4. ASSUME NEW t \in Takes
      PROVE  /\ Fresh(t)'
             /\ ~spoilt'[t] => InStep(t)' /\ \A w \in Counted : Accounted(t, w)'
  <2>1. /\ Fresh(t) => Fresh(t)'
        /\ InStep(t) => InStep(t)'
        /\ \A w, e : Expected(t, w, e)' => Expected(t, w, e)
        /\ \A q \in Web : Applied(q, t)' => Applied(q, t) /\ work'[q] = work[q]
    BY <1>1, Keeps DEF TakeInv
  <2>2. ASSUME NEW w \in Counted \ {v}, Accounted(t, w) PROVE Accounted(t, w)'
    BY <1>1, <2>1, <2>2, KeepsAccount DEF TakeInv, TakeTypes
  <2>3. ASSUME Accounted(t, v), InStep(t) PROVE Accounted(t, v)'
    <3>1. /\ count[t][v] \in Nat /\ due[t][v] \in Nat /\ quantity[v] \in Nat /\ shelf[v] \in Nat
          /\ count'[t][v] = count[t][v] /\ due'[t][v] = due[t][v] /\ takes'[t] = takes[t]
      BY <1>1 DEF TakeInv, TakeTypes
    <3>2. \/ S!Begun(t)
          \/ /\ count[t][v] = 0
             /\ \A p \in Web : ~Applied(p, t)
             /\ \A e : ~Expected(t, v, e)
      <4> SUFFICES ASSUME ~S!Begun(t)
                   PROVE  /\ count[t][v] = 0
                          /\ \A p \in Web : ~Applied(p, t)
                          /\ \A e : ~Expected(t, v, e)
        OBVIOUS
      <4>1. takes[t] = "none" /\ \A p \in Web : ~Begins(p, t)
        BY DEF S!Begun, S!Busy, Begins
      <4>2. /\ rows[t] = <<>> /\ count[t][v] = 0
            /\ \A p \in Web : ~Counts(p, t) /\ ~Applied(p, t)
        BY <4>1 DEF TakeInv, Fresh
      <4> QED
        BY <4>1, <4>2 DEF Expected
    <3>3. StillThere(t, v)'
      BY <1>1, <3>1, <3>2 DEF StillThere
    <3>4. SinceSnapshot(t, v)'
      BY <1>1, <1>2, <2>1, <2>3, <3>1, <3>2 DEF Accounted, SinceSnapshot
    <3>5. SinceLoaded(t, v)'
      <4> SUFFICES ASSUME NEW p \in Web, Applied(p, t)', v \notin after'[t]
                   PROVE  IF count'[t][v] = 0 THEN quantity'[v] - shelf'[v] <= work'[p].loaded[v]
                          ELSE quantity'[v] \in {work'[p].loaded[v], count'[t][v]}
        BY DEF SinceLoaded
      <4>1. /\ S!Begun(t) /\ count[t][v] = 0 /\ v \notin after[t]
            /\ Applied(p, t) /\ work'[p] = work[p]
        BY <1>1, <2>1, <3>1, <3>2
      <4>2. quantity[v] - shelf[v] <= work[p].loaded[v]
        BY <2>3, <4>1 DEF Accounted, SinceLoaded
      <4> QED
        BY <1>2, <3>1, <4>1, <4>2
    <3> QED
      BY <3>3, <3>4, <3>5 DEF Accounted
  <2> QED
    BY <1>1, <2>1, <2>2, <2>3 DEF TakeInv
<1> QED
  BY <1>3, <1>4 DEF TakeInv

-----------------------------------------------------------------------------
(* Sets of numbers: the least of a set, counting up, the greatest of a bounded set. *)
LEMMA Least ==
  ASSUME NEW T, T \subseteq Nat, T # {}
  PROVE  \E m \in T : \A k \in T : m <= k
<1> DEFINE R == OpToRel(<, Nat)
<1>1. IsWellFoundedOn(R, Nat)
  BY NatLessThanWellFounded
<1>2. \A m, k \in Nat : k < m => <<k, m>> \in R
  BY DEF OpToRel
<1> HIDE DEF R
<1>3. PICK m \in T : \A k \in T : ~ (<<k, m>> \in R)
  BY <1>1, WFMin
<1>4. \A k \in T : ~ (k < m)
  BY <1>2, <1>3
<1>5. \A k \in T : m <= k
  BY <1>4
<1> QED
  BY <1>5

LEMMA Bounded ==
  ASSUME NEW n \in Nat, NEW f \in [1..n -> Nat]
  PROVE  \E m \in Nat : \A i \in 1..n : f[i] <= m
<1> DEFINE Good(k) == \E m \in Nat : \A i \in 1..k : f[i] <= m
           Bad == {k \in 0..n : ~Good(k)}
<1>1. Good(0)
  <2>1. 0 \in Nat /\ \A i \in 1..0 : f[i] <= 0
    OBVIOUS
  <2> QED
    BY <2>1
<1>2. ASSUME NEW k \in 1..n, Good(k - 1) PROVE Good(k)
  <2>1. PICK m \in Nat : \A i \in 1..(k - 1) : f[i] <= m
    BY <1>2
  <2>2. f[k] \in Nat /\ \A i \in 1..k : f[i] \in Nat /\ (i = k \/ i \in 1..(k - 1))
    OBVIOUS
  <2>3. m + f[k] \in Nat /\ \A i \in 1..k : f[i] <= m + f[k]
    BY <2>1, <2>2
  <2> QED
    BY <2>3
<1> SUFFICES Good(n)
  OBVIOUS
<1> HIDE DEF Good
<1>3. ASSUME Bad # {} PROVE FALSE
  <2> Bad \subseteq Nat
    OBVIOUS
  <2>1. PICK k \in Bad : \A l \in Bad : k <= l
    BY <1>3, Least
  <2>2. k \in 1..n /\ k - 1 \in 0..n
    BY <1>1, <2>1
  <2>3. k - 1 \notin Bad
    BY <2>1, <2>2
  <2> QED
    BY <1>2, <2>1, <2>2, <2>3
<1> QED
  BY <1>3

LEMMA Greatest ==
  ASSUME NEW T, T \subseteq Nat, T # {}, NEW m \in Nat, \A k \in T : k <= m
  PROVE  S!Max(T) \in T /\ \A k \in T : k <= S!Max(T)
<1> DEFINE B == {b \in Nat : \A k \in T : k <= b}
<1>1. PICK b \in B : \A c \in B : b <= c
  BY Least
<1>2. b \in T
  <2> SUFFICES ASSUME b \notin T PROVE FALSE
    OBVIOUS
  <2>1. PICK k \in T : TRUE
    OBVIOUS
  <2>2. b - 1 \in Nat /\ \A j \in T : j <= b - 1
    BY <1>1, <2>1
  <2>3. b - 1 \in B
    BY <2>2
  <2> QED
    BY <1>1, <2>3
<1>3. \E j \in T : \A k \in T : j >= k
  BY <1>1, <1>2
<1>4. S!Max(T) \in T /\ \A k \in T : S!Max(T) >= k
  BY <1>3 DEF S!Max
<1> QED
  BY <1>4

(* scanned_at comes after that of the items of the other variants *)
LEMMA LaterThanOthers ==
  ASSUME TakeTypes, NEW t \in Takes, NEW v \in Counted
  PROVE  /\ S!Now(t, v) \in Nat
         /\ \A j \in DOMAIN rows[t] : rows[t][j].variant # v => rows[t][j].at < S!Now(t, v)
<1> DEFINE T == {0} \cup {rows[t][j].at : j \in DOMAIN rows[t] \ S!RowsOf(t, v)}
           f == [i \in 1..Len(rows[t]) |-> rows[t][i].at]
<1>1. /\ Len(rows[t]) \in Nat /\ DOMAIN rows[t] = 1..Len(rows[t])
      /\ \A i \in DOMAIN rows[t] : rows[t][i].at \in Nat
  <2>1. rows[t] \in Seq(Line)
    BY DEF TakeTypes
  <2>2. \A i \in DOMAIN rows[t] : rows[t][i] \in Line
    BY <2>1
  <2> QED
    BY <2>1, <2>2 DEF Line
<1>2. f \in [1..Len(rows[t]) -> Nat]
  BY <1>1
<1>3. PICK m \in Nat : \A i \in 1..Len(rows[t]) : f[i] <= m
  BY <1>1, <1>2, Bounded
<1>4. T \subseteq Nat /\ T # {} /\ \A k \in T : k <= m
  <2>1. \A i \in DOMAIN rows[t] : rows[t][i].at <= m
    BY <1>1, <1>3
  <2> HIDE DEF f
  <2> QED
    BY <1>1, <1>3, <2>1
<1>5. S!Max(T) \in Nat /\ \A k \in T : k <= S!Max(T)
  BY <1>4, Greatest
<1>6. S!Now(t, v) = 1 + S!Max(T)
  BY DEF S!Now
<1>7. \A j \in DOMAIN rows[t] : rows[t][j].variant # v => rows[t][j].at \in T
  BY DEF S!RowsOf
<1>8. \A j \in DOMAIN rows[t] : rows[t][j].variant # v => rows[t][j].at <= S!Max(T)
  BY <1>5, <1>7
<1> HIDE DEF T
<1> QED
  BY <1>1, <1>5, <1>6, <1>8

(* stocktake_new makes one item for each variant with a barcode *)
LEMMA Snapshot ==
  ASSUME TakeTypes, NEW items, items = S!SetToSeq({S!Item(v) : v \in coded})
  PROVE  /\ items \in Seq(Line) /\ OneEachVariant(items)
         /\ \A i \in DOMAIN items : /\ items[i].scanned = 0
                                    /\ items[i].expected = quantity[items[i].variant]
<1> DEFINE T == {S!Item(v) : v \in coded}
<1>1. coded \subseteq Counted /\ IsFiniteSet(coded)
  BY CountedAssumption, FS_Subset DEF TakeTypes
<1>2. /\ T \subseteq Line
      /\ \A item \in T : item.scanned = 0 /\ item.expected = quantity[item.variant]
      /\ \A a, b \in T : a.variant = b.variant => a = b
  BY <1>1 DEF S!Item, Line, TakeTypes
<1>3. IsFiniteSet(T)
  <2> DEFINE item(v) == S!Item(v)
             g == [v \in coded |-> S!Item(v)]
  <2>1. g \in Surjection(coded, T)
    BY DEF Surjection
  <2> QED
    BY <1>1, <2>1, FS_Surjection
<1> HIDE DEF T
<1>4. /\ Cardinality(T) \in Nat
      /\ \E f \in [1..Cardinality(T) -> T] : \A a, b \in DOMAIN f : f[a] = f[b] => a = b
  <2>1. Cardinality(T) \in Nat /\ ExistsBijection(1..Cardinality(T), T)
    BY <1>3, FS_CardinalityType
  <2> QED
    BY <2>1 DEF ExistsBijection, Bijection, Injection, IsInjective
<1>5. S!Cardinality(T) = Cardinality(T)
  BY DEF S!Cardinality, Cardinality
<1>6. /\ items \in [1..Cardinality(T) -> T]
      /\ \A a, b \in DOMAIN items : items[a] = items[b] => a = b
  <2>1. items = CHOOSE f \in [1..Cardinality(T) -> T] : S!IsInjective(f)
    BY <1>5 DEF S!SetToSeq, T
  <2> QED
    BY <1>4, <2>1 DEF S!IsInjective
<1>7. items \in Seq(Line)
  BY <1>2, <1>4, <1>6
<1>8. \A i \in DOMAIN items : items[i] \in T
  BY <1>6
<1>9. \A i \in DOMAIN items : /\ items[i].scanned = 0
                              /\ items[i].expected = quantity[items[i].variant]
  BY <1>2, <1>8
<1>10. OneEachVariant(items)
  <2> SUFFICES ASSUME NEW i \in DOMAIN items, NEW j \in DOMAIN items,
                      items[i].variant = items[j].variant
               PROVE  i = j
    BY DEF OneEachVariant
  <2>1. items[i] = items[j]
    BY <1>2, <1>8
  <2> QED
    BY <1>6, <2>1
<1> QED
  BY <1>7, <1>9, <1>10

-----------------------------------------------------------------------------
(* What is known of the stocktakes that a request has nothing to do with. *)
LEMMA KeepsOthers ==
  ASSUME TakeInv, NEW t \in Takes, quantity' = quantity, shelf' = shelf,
         rows'[t] = rows[t], takes'[t] = takes[t], count'[t] = count[t], latest'[t] = latest[t],
         due'[t] = due[t], before[t] \subseteq before'[t], after[t] \subseteq after'[t],
         spoilt'[t] = spoilt[t],
         \A q \in Web : \/ work'[q] = work[q]
                        \/ ~Works(q, t) /\ ~Works(q, t)'
  PROVE  /\ Fresh(t)'
         /\ ~spoilt'[t] => InStep(t)' /\ \A w \in Counted : Accounted(t, w)'
<1>1. /\ Fresh(t) => Fresh(t)'
      /\ InStep(t) => InStep(t)'
      /\ \A w, e : Expected(t, w, e)' => Expected(t, w, e)
      /\ \A q \in Web : Applied(q, t)' => Applied(q, t) /\ work'[q] = work[q]
  BY Keeps DEF TakeInv
<1>2. ASSUME NEW w \in Counted, Accounted(t, w) PROVE Accounted(t, w)'
  BY <1>1, <1>2, KeepsAccount
<1> QED
  BY <1>1, <1>2 DEF TakeInv

LEMMA NewTakes == ASSUME TakeInv, NEW p \in Web, S!LoadNew(p) PROVE TakeInv'
<1>1. PICK t \in Takes :
      /\ ~S!Begun(t)
      /\ work[p] = S!Idle
      /\ work' = [work EXCEPT ![p] = [kind |-> "new", take |-> t,
                                      items |-> S!SetToSeq({S!Item(v) : v \in coded})]]
      /\ UNCHANGED <<quantity, shelf, coded, takes, rows, count, latest, due, before, after, spoilt>>
  BY DEF S!LoadNew, S!Starts, S!tables, S!person, S!history
<1>2. PICK items : items = S!SetToSeq({S!Item(v) : v \in coded})
  OBVIOUS
<1>3. /\ items \in Seq(Line) /\ OneEachVariant(items)
      /\ \A i \in DOMAIN items : items[i].scanned = 0 /\ items[i].expected = quantity[items[i].variant]
  BY <1>2, Snapshot DEF TakeInv
<1>4. PICK r : r = [kind |-> "new", take |-> t, items |-> items]
  OBVIOUS
<1>5. r \in Starting /\ r.kind = "new" /\ r.take = t /\ r.items = items
  BY <1>3, <1>4 DEF Starting
<1>6. work' = [work EXCEPT ![p] = r] /\ work'[p] = r /\ \A q \in Web \ {p} : work'[q] = work[q]
  BY <1>1, <1>2, <1>4 DEF TakeInv, TakeTypes
<1>7. TakeTypes'
  BY <1>1, <1>5, <1>6 DEF TakeInv, TakeTypes
<1>8. work[p].kind = "none"
  BY <1>1 DEF S!Idle
<1>9. ASSUME NEW u \in Takes \ {t}
      PROVE  /\ Fresh(u)'
             /\ ~spoilt'[u] => InStep(u)' /\ \A w \in Counted : Accounted(u, w)'
  <2>1. ~Works(p, u) /\ ~Works(p, u)'
    BY <1>5, <1>6, <1>8 DEF Works, Begins, Counts, Applied
  <2> QED
    BY <1>1, <1>6, <2>1, KeepsOthers
<1>10. /\ takes[t] = "none" /\ rows[t] = <<>> /\ latest[t] = None
       /\ \A v \in Counted : count[t][v] = 0
       /\ \A q \in Web : ~Begins(q, t) /\ ~Counts(q, t) /\ ~Applied(q, t)
  BY <1>1 DEF S!Begun, S!Busy, TakeInv, Fresh, Begins
<1>11. \A q \in Web : /\ Begins(q, t)' <=> q = p
                      /\ ~Counts(q, t)' /\ ~Applied(q, t)'
  BY <1>5, <1>6, <1>10 DEF Begins, Counts, Applied
<1> DEFINE new == work'[p].items
<1>15. new = items
  BY <1>5, <1>6
<1>12. Fresh(t)'
  <2>1. OneEachVariant(work[p].items)'
    BY <1>3, <1>15 DEF OneEachVariant
  <2>2. \A i \in DOMAIN new : new[i].scanned = 0
    BY <1>3, <1>15
  <2>3. /\ takes'[t] = "none" /\ rows'[t] = <<>> /\ latest'[t] = None
        /\ \A v \in Counted : count'[t][v] = 0
    BY <1>1, <1>10
  <2> QED
    BY <1>11, <2>1, <2>2, <2>3 DEF Fresh
<1>13. InStep(t)'
  BY <1>1, <1>10, <1>11 DEF InStep, OneEachVariant, Tallied
<1>14. ASSUME NEW v \in Counted PROVE Accounted(t, v)'
  <2>1. \A e : Expected(t, v, e)' => e = quantity[v]
    <3>1. ASSUME NEW e, Expected(t, v, e)' PROVE e = quantity[v]
      <4>1. PICK i \in DOMAIN new : new[i].variant = v /\ new[i].expected = e
        <5>1. DOMAIN rows'[t] = {}
          BY <1>1, <1>10
        <5> QED
          BY <1>11, <3>1, <5>1 DEF Expected
      <4> QED
        BY <1>3, <1>15, <4>1
    <3> QED
      BY <3>1
  <2> QED
    BY <1>1, <1>10, <1>11, <2>1 DEF Accounted, StillThere, SinceSnapshot, SinceLoaded
<1> QED
  BY <1>7, <1>9, <1>12, <1>13, <1>14 DEF TakeInv

LEMMA BeginTakes == ASSUME TakeInv, NEW p \in Web, S!CommitNew(p) PROVE TakeInv'
<1>1. PICK r : r = work[p]
  OBVIOUS
<1>2. PICK t : t = r.take
  OBVIOUS
<1>3. r \in Starting /\ r.kind = "new" /\ t \in Takes /\ r.items \in Seq(Line)
  BY <1>1, <1>2, WorkKinds DEF S!CommitNew, TakeInv, Starting
<1>4. /\ work' = [work EXCEPT ![p] = S!Idle] /\ takes' = [takes EXCEPT ![t] = "in_progress"]
      /\ rows' = [rows EXCEPT ![t] = r.items]
      /\ UNCHANGED <<quantity, shelf, coded, count, latest, due, before, after, spoilt>>
  BY <1>1, <1>2 DEF S!CommitNew, S!Ends, S!person, S!history
<1>5. /\ work'[p].kind = "none" /\ \A q \in Web \ {p} : work'[q] = work[q]
      /\ takes'[t] = "in_progress" /\ rows'[t] = r.items
      /\ \A u \in Takes \ {t} : takes'[u] = takes[u] /\ rows'[u] = rows[u]
  BY <1>3, <1>4 DEF TakeInv, TakeTypes, S!Idle
<1>6. TakeTypes'
  BY <1>3, <1>4 DEF TakeInv, TakeTypes
<1>7. ASSUME NEW u \in Takes \ {t}
      PROVE  /\ Fresh(u)'
             /\ ~spoilt'[u] => InStep(u)' /\ \A w \in Counted : Accounted(u, w)'
  <2>1. ~Works(p, u) /\ ~Works(p, u)'
    BY <1>1, <1>2, <1>3, <1>5 DEF Works, Begins, Counts, Applied
  <2> QED
    BY <1>4, <1>5, <2>1, KeepsOthers
<1>8. Begins(p, t)
  BY <1>1, <1>2, <1>3 DEF Begins
<1>9. /\ takes[t] = "none" /\ rows[t] = <<>> /\ latest[t] = None
      /\ \A v \in Counted : count[t][v] = 0
      /\ \A q \in Web : ~Counts(q, t) /\ ~Applied(q, t) /\ (Begins(q, t) => q = p)
      /\ OneEachVariant(r.items) /\ \A i \in DOMAIN r.items : r.items[i].scanned = 0
  BY <1>1, <1>3, <1>8 DEF TakeInv, Fresh
<1>10. \A q \in Web : ~Begins(q, t)' /\ ~Counts(q, t)' /\ ~Applied(q, t)'
  BY <1>5, <1>9 DEF Begins, Counts, Applied
<1>11. Fresh(t)'
  BY <1>5, <1>10 DEF Fresh
<1>12. \A i \in DOMAIN r.items : r.items[i].variant \in Counted
  <2>1. \A i \in DOMAIN r.items : r.items[i] \in Line
    BY <1>3
  <2> QED
    BY <2>1 DEF Line
<1>13. InStep(t)'
  BY <1>4, <1>5, <1>9, <1>10, <1>12 DEF InStep, OneEachVariant, Tallied
<1>14. ASSUME NEW v \in Counted, Accounted(t, v) PROVE Accounted(t, v)'
  <2>1. \A e : Expected(t, v, e)' => Expected(t, v, e)
    BY <1>1, <1>5, <1>8, <1>10 DEF Expected
  <2> QED
    BY <1>3, <1>4, <1>9, <1>10, <1>14, <2>1, KeepsAccount
<1> QED
  BY <1>4, <1>6, <1>7, <1>11, <1>13, <1>14 DEF TakeInv

-----------------------------------------------------------------------------
(* A scan counts a piece of v, in memory yet.                              *)
LEMMA ScanTakes ==
  ASSUME TakeInv, NEW p \in Web, NEW t \in Takes, S!LoadScan(p, t)
  PROVE  TakeInv'
<1>1. PICK v \in coded :
      /\ takes[t] = "in_progress" /\ count[t][v] < shelf[v] /\ work[p] = S!Idle
      /\ \E i \in IF S!RowsOf(t, v) = {} THEN {0} ELSE S!RowsOf(t, v) :
           work' = [work EXCEPT ![p] =
             [kind |-> "scan", take |-> t, row |-> i,
              item |-> S!Scanned(IF S!RowsOf(t, v) = {} THEN S!Item(v) ELSE rows[t][i],
                                 S!Now(t, v))]]
      /\ before' = IF S!RowsOf(t, v) = {} THEN [before EXCEPT ![t] = @ \ {v}] ELSE before
      /\ count' = [count EXCEPT ![t][v] = @ + 1] /\ latest' = [latest EXCEPT ![t] = v]
      /\ due' = IF count[t][v] = 0 THEN [due EXCEPT ![t][v] = shelf[v]] ELSE due
      /\ spoilt' = [spoilt EXCEPT ![t] = @ \/ S!Busy(t, {"scan", "undo"})]
      /\ UNCHANGED <<quantity, shelf, coded, takes, rows, after>>
  BY DEF S!LoadScan, S!Starts, S!tables
<1>2. v \in Counted /\ quantity[v] \in Nat /\ shelf[v] \in Nat /\ count[t][v] \in Nat
  BY DEF TakeInv, TakeTypes
<1>3. PICK i \in IF S!RowsOf(t, v) = {} THEN {0} ELSE S!RowsOf(t, v) :
           work' = [work EXCEPT ![p] =
             [kind |-> "scan", take |-> t, row |-> i,
              item |-> S!Scanned(IF S!RowsOf(t, v) = {} THEN S!Item(v) ELSE rows[t][i],
                                 S!Now(t, v))]]
  BY <1>1
<1>4. PICK old : old = IF S!RowsOf(t, v) = {} THEN S!Item(v) ELSE rows[t][i]
  OBVIOUS
<1>5. /\ old \in Line /\ old.variant = v
      /\ S!RowsOf(t, v) = {} => old.expected = quantity[v] /\ old.scanned = 0 /\ i = 0
      /\ S!RowsOf(t, v) # {} => i \in DOMAIN rows[t] /\ rows[t][i] = old /\ i \in Nat \ {0}
  <2>1. rows[t] \in Seq(Line)
    BY DEF TakeInv, TakeTypes
  <2>2. CASE S!RowsOf(t, v) = {}
    BY <1>2, <1>3, <1>4, <2>2 DEF S!Item, Line
  <2>3. CASE S!RowsOf(t, v) # {}
    BY <1>3, <1>4, <2>1, <2>3 DEF S!RowsOf
  <2> QED
    BY <2>2, <2>3
<1>6. PICK now : now = S!Now(t, v)
  OBVIOUS
<1>7. now \in Nat /\ \A j \in DOMAIN rows[t] : rows[t][j].variant # v => rows[t][j].at < now
  BY <1>2, <1>6, LaterThanOthers DEF TakeInv
<1>8. PICK item : item = S!Scanned(old, now)
  OBVIOUS
<1>9. /\ item \in Line /\ item.variant = v /\ item.expected = old.expected
      /\ item.scanned = old.scanned + 1 /\ item.at = now
  <2>1. PICK n \in Nat : n = old.scanned + 1
    BY <1>5 DEF Line
  <2>2. item = [old EXCEPT !.scanned = n, !.at = now]
    BY <1>8, <2>1 DEF S!Scanned
  <2> QED
    BY <1>5, <1>7, <2>1, <2>2 DEF Line
<1>10. PICK r : r = [kind |-> "scan", take |-> t, row |-> i, item |-> item]
  OBVIOUS
<1>11. r \in Tally /\ r.kind = "scan" /\ r.take = t /\ r.row = i /\ r.item = item
  BY <1>5, <1>9, <1>10 DEF Tally
<1>12. work' = [work EXCEPT ![p] = r]
  BY <1>3, <1>4, <1>6, <1>8, <1>10
<1>13. work'[p] = r /\ work[p].kind = "none" /\ \A q \in Web \ {p} : work'[q] = work[q]
  BY <1>1, <1>12 DEF TakeInv, TakeTypes, S!Idle
<1>14. /\ count'[t][v] = count[t][v] + 1 /\ latest'[t] = v
       /\ \A w \in Counted \ {v} : count'[t][w] = count[t][w] /\ due'[t][w] = due[t][w]
       /\ due'[t][v] = IF count[t][v] = 0 THEN shelf[v] ELSE due[t][v]
       /\ \A u \in Takes \ {t} : /\ count'[u] = count[u] /\ latest'[u] = latest[u]
                                 /\ due'[u] = due[u] /\ before'[u] = before[u]
                                 /\ spoilt'[u] = spoilt[u]
       /\ \A w \in Counted \ {v} : w \in before[t] => w \in before'[t]
  BY <1>1, <1>2 DEF TakeInv, TakeTypes
<1>15. TakeTypes'
  <2>1. count' \in [Takes -> [Counted -> Nat]] /\ due' \in [Takes -> [Counted -> Nat]]
    BY <1>1, <1>2 DEF TakeInv, TakeTypes
  <2>2. /\ before' \in [Takes -> SUBSET Counted] /\ latest' \in [Takes -> Counted \cup {None}]
        /\ spoilt' \in [Takes -> BOOLEAN]
    BY <1>1, <1>2 DEF TakeInv, TakeTypes, S!Busy
  <2>3. work' \in [Web -> {S!Idle} \cup Tally \cup Starting \cup Applying]
    BY <1>11, <1>12 DEF TakeInv, TakeTypes
  <2> QED
    BY <1>1, <2>1, <2>2, <2>3 DEF TakeInv, TakeTypes
<1>16. ASSUME NEW u \in Takes \ {t}
      PROVE  /\ Fresh(u)'
             /\ ~spoilt'[u] => InStep(u)' /\ \A w \in Counted : Accounted(u, w)'
  <2>1. ~Works(p, u) /\ ~Works(p, u)'
    BY <1>11, <1>13 DEF Works, Begins, Counts, Applied
  <2> QED
    BY <1>1, <1>13, <1>14, <2>1, KeepsOthers
<1>17. \A q \in Web : ~Begins(q, t) /\ ~Begins(q, t)'
  BY <1>1, <1>11, <1>13 DEF TakeInv, Fresh, Begins
<1>18. Fresh(t)'
  BY <1>1, <1>17 DEF Fresh
<1>19. ASSUME ~spoilt'[t] PROVE InStep(t)' /\ \A w \in Counted : Accounted(t, w)'
  <2>1. ~spoilt[t] /\ \A q \in Web : ~Counts(q, t)
    BY <1>1, <1>19 DEF TakeInv, TakeTypes, S!Busy, Counts
  <2>2. /\ InStep(t) /\ Tallied(t) /\ \A w \in Counted : Accounted(t, w)
        /\ \A q \in Web : ~Applied(q, t)
    BY <1>1, <2>1 DEF TakeInv, InStep
  <2>3. \A q \in Web : (Counts(q, t)' <=> q = p) /\ ~Applied(q, t)'
    BY <1>11, <1>13, <2>1, <2>2 DEF Counts, Applied
  <2>4. item.scanned = count'[t][v]
    <3>1. CASE S!RowsOf(t, v) = {}
      BY <1>2, <1>5, <1>9, <1>14, <2>1, <2>2, <3>1 DEF InStep
    <3>2. CASE S!RowsOf(t, v) # {}
      BY <1>5, <1>9, <1>14, <2>2, <3>2 DEF Tallied
    <3> QED
      BY <3>1, <3>2
  <2>5. Tallies(p, t)'
    BY <1>1, <1>2, <1>5, <1>7, <1>9, <1>11, <1>13, <1>14, <2>4 DEF Tallies, S!RowsOf
  <2>6. InStep(t)'
    <3>1. \A j \in DOMAIN rows[t] : rows[t][j].variant \in Counted
      <4>1. rows[t] \in Seq(Line)
        BY DEF TakeInv, TakeTypes
      <4>2. \A j \in DOMAIN rows[t] : rows[t][j] \in Line
        BY <4>1
      <4> QED
        BY <4>2 DEF Line
    <3>2. \A j \in DOMAIN rows[t] : \/ rows[t][j].scanned = count'[t][rows[t][j].variant]
                                    \/ rows[t][j].variant = v
      BY <1>14, <2>2, <3>1 DEF Tallied
    <3>3. \A w \in Counted : count'[t][w] > 0 => w = v \/ S!RowsOf(t, w) # {}
      BY <1>14, <2>1, <2>2 DEF InStep
    <3>4. \A w : S!RowsOf(t, w)' = S!RowsOf(t, w)
      BY <1>1 DEF S!RowsOf
    <3> QED
      BY <1>1, <1>9, <1>11, <1>13, <2>2, <2>3, <2>5, <3>2, <3>3, <3>4 DEF InStep, OneEachVariant
  <2>7. ASSUME NEW w \in Counted \ {v} PROVE Accounted(t, w)'
    <3>1. \A e : Expected(t, w, e)' => Expected(t, w, e)
      BY <1>1, <1>9, <1>11, <1>13, <1>17, <2>3, <2>7 DEF Expected
    <3> QED
      BY <1>1, <1>14, <2>2, <2>3, <2>7, <3>1, KeepsAccount
  <2>8. Accounted(t, v)'
    <3>1. StillThere(t, v)'
      BY <1>1, <1>2, <1>14, <2>2 DEF Accounted, StillThere
    <3>2. SinceLoaded(t, v)'
      BY <2>3 DEF SinceLoaded
    <3>3. SinceSnapshot(t, v)'
      <4> SUFFICES ASSUME NEW e \in Nat, Expected(t, v, e)', v \notin before'[t]
                   PROVE  quantity[v] - shelf[v] = e - due'[t][v]
        BY <1>1, <1>2, <1>14 DEF SinceSnapshot
      <4>1. CASE S!RowsOf(t, v) = {}
        <5>1. e = quantity[v]
          BY <1>1, <1>5, <1>9, <1>11, <1>13, <1>17, <2>3, <4>1 DEF Expected, S!RowsOf
        <5>2. count[t][v] = 0
          BY <1>2, <2>1, <2>2, <4>1 DEF InStep
        <5> QED
          BY <1>2, <1>14, <5>1, <5>2
      <4>2. CASE S!RowsOf(t, v) # {}
        <5>1. Expected(t, v, e) /\ v \notin before[t]
          BY <1>1, <1>5, <1>9, <1>11, <1>13, <1>17, <2>3, <4>2 DEF Expected
        <5>2. IF count[t][v] = 0 THEN quantity[v] = e ELSE quantity[v] - shelf[v] = e - due[t][v]
          BY <1>1, <1>2, <2>2, <5>1 DEF Accounted, SinceSnapshot
        <5> QED
          BY <1>2, <1>14, <5>2
      <4> QED
        BY <4>1, <4>2
    <3> QED
      BY <3>1, <3>2, <3>3 DEF Accounted
  <2> QED
    BY <2>6, <2>7, <2>8
<1> QED
  BY <1>15, <1>16, <1>18, <1>19 DEF TakeInv

(* Taking back takes one off the item of the variant that was scanned last. *)
LEMMA UndoTakes ==
  ASSUME TakeInv, NEW p \in Web, NEW t \in Takes, S!LoadUndo(p, t)
  PROVE  TakeInv'
<1>1. PICK v \in Counted, i \in DOMAIN rows[t] :
      /\ takes[t] = "in_progress" /\ S!Newest(t, i) /\ work[p] = S!Idle
      /\ count[t][v] > 0 /\ latest[t] \in {v, None}
      /\ work' = [work EXCEPT ![p] = [kind |-> "undo", take |-> t, row |-> i,
                                      item |-> [rows[t][i] EXCEPT !.scanned = @ - 1]]]
      /\ count' = [count EXCEPT ![t][v] = @ - 1] /\ latest' = [latest EXCEPT ![t] = None]
      /\ spoilt' = [spoilt EXCEPT ![t] = @ \/ latest[t] = None \/ S!Busy(t, {"scan", "undo"})]
      /\ before' = [before EXCEPT ![t] = @ \cup (after[t] \cap {v})]
      /\ UNCHANGED <<quantity, shelf, coded, takes, rows, due, after>>
  BY DEF S!LoadUndo, S!Starts, S!tables
<1>2. /\ quantity[v] \in Nat /\ shelf[v] \in Nat /\ count[t][v] \in Nat /\ due[t][v] \in Nat
      /\ count[t][v] - 1 \in Nat
  BY <1>1 DEF TakeInv, TakeTypes
<1>3. /\ rows[t] \in Seq(Line) /\ i \in Nat \ {0}
      /\ \A j \in DOMAIN rows[t] : rows[t][j] \in Line
  <2>1. rows[t] \in Seq(Line)
    BY DEF TakeInv, TakeTypes
  <2> QED
    BY <2>1
<1>4. rows[t][i].scanned - 1 \in Nat
  BY <1>1, <1>3 DEF S!Newest, S!Undoable, Line
<1>5. PICK item : item = [rows[t][i] EXCEPT !.scanned = @ - 1]
  OBVIOUS
<1>6. /\ item \in Line /\ item.variant = rows[t][i].variant
      /\ item.expected = rows[t][i].expected /\ item.scanned = rows[t][i].scanned - 1
  <2>1. PICK n \in Nat : n = rows[t][i].scanned - 1
    BY <1>4
  <2>2. item = [rows[t][i] EXCEPT !.scanned = n]
    BY <1>5, <2>1
  <2> QED
    BY <1>3, <2>1, <2>2 DEF Line
<1>7. PICK r : r = [kind |-> "undo", take |-> t, row |-> i, item |-> item]
  OBVIOUS
<1>8. r \in Tally /\ r.kind = "undo" /\ r.take = t /\ r.row = i /\ r.item = item
  BY <1>3, <1>6, <1>7 DEF Tally
<1>9. work' = [work EXCEPT ![p] = r]
  BY <1>1, <1>5, <1>7
<1>10. work'[p] = r /\ work[p].kind = "none" /\ \A q \in Web \ {p} : work'[q] = work[q]
  BY <1>1, <1>9 DEF TakeInv, TakeTypes, S!Idle
<1>11. /\ count'[t][v] = count[t][v] - 1 /\ latest'[t] = None
       /\ \A w \in Counted \ {v} : count'[t][w] = count[t][w]
       /\ \A u \in Takes \ {t} : /\ count'[u] = count[u] /\ latest'[u] = latest[u]
                                 /\ before'[u] = before[u] /\ spoilt'[u] = spoilt[u]
       /\ before'[t] = before[t] \cup (after[t] \cap {v})
  BY <1>1, <1>2 DEF TakeInv, TakeTypes
<1>12. TakeTypes'
  <2>1. count' \in [Takes -> [Counted -> Nat]]
    BY <1>1, <1>2 DEF TakeInv, TakeTypes
  <2>2. /\ before' \in [Takes -> SUBSET Counted] /\ latest' \in [Takes -> Counted \cup {None}]
        /\ spoilt' \in [Takes -> BOOLEAN]
    BY <1>1, <1>2 DEF TakeInv, TakeTypes, S!Busy
  <2>3. work' \in [Web -> {S!Idle} \cup Tally \cup Starting \cup Applying]
    BY <1>8, <1>9 DEF TakeInv, TakeTypes
  <2> QED
    BY <1>1, <2>1, <2>2, <2>3 DEF TakeInv, TakeTypes
<1>13. ASSUME NEW u \in Takes \ {t}
       PROVE  /\ Fresh(u)'
              /\ ~spoilt'[u] => InStep(u)' /\ \A w \in Counted : Accounted(u, w)'
  <2>1. ~Works(p, u) /\ ~Works(p, u)'
    BY <1>8, <1>10 DEF Works, Begins, Counts, Applied
  <2> QED
    BY <1>1, <1>10, <1>11, <2>1, KeepsOthers
<1>14. \A q \in Web : ~Begins(q, t) /\ ~Begins(q, t)'
  BY <1>1, <1>8, <1>10 DEF TakeInv, Fresh, Begins
<1>15. Fresh(t)'
  BY <1>1, <1>14 DEF Fresh
<1>16. ASSUME ~spoilt'[t] PROVE InStep(t)' /\ \A w \in Counted : Accounted(t, w)'
  <2>1. ~spoilt[t] /\ latest[t] = v /\ \A q \in Web : ~Counts(q, t)
    BY <1>1, <1>16 DEF TakeInv, TakeTypes, S!Busy, Counts
  <2>2. /\ InStep(t) /\ Tallied(t) /\ \A w \in Counted : Accounted(t, w)
        /\ \A q \in Web : ~Applied(q, t)
    BY <1>1, <2>1 DEF TakeInv, InStep
  <2>3. \A q \in Web : (Counts(q, t)' <=> q = p) /\ ~Applied(q, t)'
    BY <1>8, <1>10, <2>1, <2>2 DEF Counts, Applied
  <2>4. rows[t][i].variant = v
    <3>1. PICK k \in DOMAIN rows[t] : rows[t][k].variant = v
      BY <1>1, <2>1, <2>2 DEF InStep, S!RowsOf
    <3>2. rows[t][k].scanned = count[t][v]
      BY <2>2, <3>1 DEF Tallied
    <3>3. k \in S!Undoable(t)
      BY <1>1, <3>1, <3>2 DEF S!Undoable
    <3>4. rows[t][k].at <= rows[t][i].at /\ rows[t][k].at \in Nat /\ rows[t][i].at \in Nat
      BY <1>1, <1>3, <3>1, <3>3 DEF S!Newest, Line
    <3>5. i # k => rows[t][i].at < rows[t][k].at
      BY <1>1, <1>2, <2>1, <2>2, <3>1, CountedAssumption DEF Tallied
    <3> QED
      BY <3>1, <3>4, <3>5
  <2>5. item.variant = v /\ item.scanned = count'[t][v]
    BY <1>6, <1>11, <2>2, <2>4 DEF Tallied
  <2>6. Tallies(p, t)'
    BY <1>1, <1>3, <1>6, <1>8, <1>10, <1>11, <2>4, <2>5 DEF Tallies, S!RowsOf
  <2>7. InStep(t)'
    <3>1. \A j \in DOMAIN rows[t] : rows[t][j].variant \in Counted
      BY <1>3 DEF Line
    <3>2. \A j \in DOMAIN rows[t] : \/ rows[t][j].scanned = count'[t][rows[t][j].variant]
                                    \/ rows[t][j].variant = v
      BY <1>11, <2>2, <3>1 DEF Tallied
    <3>3. \A w \in Counted : count'[t][w] > 0 => w = v \/ S!RowsOf(t, w) # {}
      BY <1>11, <2>1, <2>2 DEF InStep
    <3>4. \A w : S!RowsOf(t, w)' = S!RowsOf(t, w)
      BY <1>1 DEF S!RowsOf
    <3>5. Counts(p, t)' /\ work'[p].item.variant = v
      BY <1>8, <1>10, <2>3, <2>5
    <3>6. OneEachVariant(rows[t])'
      BY <1>1, <2>2 DEF InStep, OneEachVariant
    <3> QED
      BY <1>1, <2>3, <2>6, <3>2, <3>3, <3>4, <3>5, <3>6 DEF InStep
  <2>8. \A w, e : Expected(t, w, e)' => Expected(t, w, e)
    BY <1>1, <1>6, <1>8, <1>10, <1>14, <2>3 DEF Expected
  <2>9. ASSUME NEW w \in Counted \ {v} PROVE Accounted(t, w)'
    BY <1>1, <1>11, <2>2, <2>3, <2>8, <2>9, KeepsAccount
  <2>10. Accounted(t, v)'
    <3>1. StillThere(t, v)'
      BY <1>1, <1>2, <1>11, <2>2 DEF Accounted, StillThere
    <3>2. SinceLoaded(t, v)'
      BY <2>3 DEF SinceLoaded
    <3>3. SinceSnapshot(t, v)'
      <4> SUFFICES ASSUME NEW e \in Nat, Expected(t, v, e)', v \notin before'[t]
                   PROVE  IF count'[t][v] = 0 THEN quantity[v] = e
                          ELSE quantity[v] - shelf[v] = e - due[t][v]
        BY <1>1 DEF SinceSnapshot
      <4>1. Expected(t, v, e) /\ v \notin before[t] /\ v \notin after[t]
        BY <1>11, <2>8
      <4>2. quantity[v] - shelf[v] = e - due[t][v] /\ shelf[v] = due[t][v]
        BY <1>1, <1>2, <2>2, <4>1 DEF Accounted, SinceSnapshot, StillThere
      <4> QED
        BY <1>2, <4>2
    <3> QED
      BY <3>1, <3>2, <3>3 DEF Accounted
  <2> QED
    BY <2>7, <2>9, <2>10
<1> QED
  BY <1>12, <1>13, <1>15, <1>16 DEF TakeInv

(* The count is stored: what a request had in memory is in the item. *)
LEMMA CountTakes == ASSUME TakeInv, NEW p \in Web, S!CommitCount(p) PROVE TakeInv'
<1>1. PICK r : r = work[p]
  OBVIOUS
<1>2. PICK t : t = r.take
  OBVIOUS
<1>3. /\ r \in Tally /\ r.kind \in {"scan", "undo"} /\ t \in Takes /\ r.row \in Nat
      /\ r.item \in Line
  BY <1>1, <1>2, WorkKinds DEF S!CommitCount, TakeInv, Tally
<1>4. PICK new : new = S!Written(r)
  OBVIOUS
<1>5. /\ work' = [work EXCEPT ![p] = S!Idle] /\ rows' = [rows EXCEPT ![t] = new]
      /\ UNCHANGED <<quantity, shelf, coded, takes, count, latest, due, before, after, spoilt>>
  BY <1>1, <1>2, <1>4 DEF S!CommitCount, S!Ends, S!person, S!history
<1>6. /\ work'[p].kind = "none" /\ \A q \in Web \ {p} : work'[q] = work[q]
      /\ rows'[t] = new /\ \A u \in Takes \ {t} : rows'[u] = rows[u]
  BY <1>3, <1>5 DEF TakeInv, TakeTypes, S!Idle
<1>7. rows[t] \in Seq(Line) /\ \A j \in DOMAIN rows[t] : rows[t][j] \in Line
  <2>1. rows[t] \in Seq(Line)
    BY <1>3 DEF TakeInv, TakeTypes
  <2> QED
    BY <2>1
(* the old items keep their place, the counted one is r.row or new *)
<1>8. PICK k : k = IF r.row = 0 THEN Len(rows[t]) + 1 ELSE r.row
  OBVIOUS
<1>9. /\ new \in Seq(Line)
      /\ r.row = 0 => DOMAIN new = DOMAIN rows[t] \cup {k} /\ k \notin DOMAIN rows[t] /\ new[k] = r.item
      /\ r.row # 0 => DOMAIN new = DOMAIN rows[t]
      /\ \A j \in DOMAIN rows[t] \ {k} : new[j] = rows[t][j]
      /\ r.row # 0 /\ k \in DOMAIN rows[t] =>
           /\ new[k].variant = rows[t][k].variant /\ new[k].expected = rows[t][k].expected
           /\ new[k].scanned = r.item.scanned
           /\ new[k].at = IF r.kind = "scan" THEN r.item.at ELSE rows[t][k].at
  <2>1. CASE r.row = 0
    <3>1. new = Append(rows[t], r.item)
      BY <1>2, <1>4, <2>1 DEF S!Written
    <3> QED
      BY <1>3, <1>7, <1>8, <2>1, <3>1
  <2>2. CASE r.row # 0
    <3>1. new = [rows[t] EXCEPT ![k].scanned = r.item.scanned,
                                ![k].at = IF r.kind = "scan" THEN r.item.at ELSE @]
      BY <1>2, <1>4, <1>8, <2>2 DEF S!Written
    <3>2. DOMAIN new = DOMAIN rows[t] /\ \A j \in DOMAIN rows[t] \ {k} : new[j] = rows[t][j]
      BY <3>1
    <3>3. ASSUME k \in DOMAIN rows[t]
          PROVE  /\ new[k] \in Line
                 /\ new[k].variant = rows[t][k].variant /\ new[k].expected = rows[t][k].expected
                 /\ new[k].scanned = r.item.scanned
                 /\ new[k].at = IF r.kind = "scan" THEN r.item.at ELSE rows[t][k].at
      <4>1. PICK n \in Nat : n = r.item.scanned
        BY <1>3 DEF Line
      <4>2. PICK m \in Nat : m = IF r.kind = "scan" THEN r.item.at ELSE rows[t][k].at
        BY <1>3, <1>7, <3>3 DEF Line
      <4>3. PICK old \in Line : old = rows[t][k]
        BY <1>7, <3>3
      <4>4. new[k] = [old EXCEPT !.scanned = n, !.at = m]
        BY <3>1, <3>3, <4>1, <4>2, <4>3 DEF Line
      <4> QED
        BY <4>1, <4>2, <4>3, <4>4 DEF Line
    <3>4. new \in Seq(Line)
      <4>1. \A j \in DOMAIN new : new[j] \in Line
        BY <1>7, <3>2, <3>3
      <4>2. Len(rows[t]) \in Nat /\ DOMAIN rows[t] = 1..Len(rows[t])
        BY <1>7
      <4>3. new = [j \in 1..Len(rows[t]) |-> new[j]]
        BY <3>1, <4>2
      <4> QED
        BY <3>2, <4>1, <4>2, <4>3
    <3> QED
      BY <2>2, <3>2, <3>3, <3>4
  <2> QED
    BY <2>1, <2>2
<1>10. TakeTypes'
  BY <1>3, <1>5, <1>9 DEF TakeInv, TakeTypes
<1>11. ASSUME NEW u \in Takes \ {t}
       PROVE  /\ Fresh(u)'
              /\ ~spoilt'[u] => InStep(u)' /\ \A w \in Counted : Accounted(u, w)'
  <2>1. ~Works(p, u) /\ ~Works(p, u)'
    BY <1>1, <1>2, <1>3, <1>6 DEF Works, Begins, Counts, Applied
  <2> QED
    BY <1>5, <1>6, <2>1, KeepsOthers
<1>12. Counts(p, t)
  BY <1>1, <1>2, <1>3 DEF Counts
<1>13. takes[t] # "none" /\ \A q \in Web : ~Begins(q, t) /\ ~Begins(q, t)'
  BY <1>3, <1>6, <1>12 DEF TakeInv, Fresh, Begins
<1>14. Fresh(t)'
  BY <1>3, <1>5, <1>13 DEF Fresh
<1>15. ASSUME ~spoilt'[t] PROVE InStep(t)' /\ \A w \in Counted : Accounted(t, w)'
  <2> DEFINE v == r.item.variant
  <2>1. /\ InStep(t) /\ \A w \in Counted : Accounted(t, w)
        /\ takes[t] = "in_progress" /\ Tallies(p, t)
        /\ \A q \in Web : ~Applied(q, t) /\ (Counts(q, t) => q = p)
    BY <1>3, <1>5, <1>12, <1>15 DEF TakeInv, InStep
  <2>2. \A q \in Web : ~Counts(q, t)' /\ ~Applied(q, t)'
    BY <1>3, <1>6, <2>1 DEF Counts, Applied
  <2>3. /\ r.item.scanned = count[t][v] /\ (r.kind = "scan" => count[t][v] > 0)
        /\ r.row = 0 => r.kind = "scan" /\ \A j \in DOMAIN rows[t] : rows[t][j].variant # v
        /\ r.row # 0 => /\ k \in DOMAIN rows[t] /\ rows[t][k].variant = v
                        /\ rows[t][k].expected = r.item.expected
        /\ r.kind = "undo" => latest[t] = None
        /\ r.kind = "scan" =>
             latest[t] = v /\ \A j \in DOMAIN rows[t] : rows[t][j].variant # v =>
               rows[t][j].at < r.item.at
    BY <1>1, <1>3, <1>8, <2>1 DEF Tallies, S!RowsOf
  <2>4. /\ v \in Counted /\ k \in DOMAIN new
        /\ new[k].variant = v /\ new[k].expected = r.item.expected
        /\ new[k].scanned = count[t][v] /\ (r.kind = "scan" => new[k].at = r.item.at)
        /\ \A j \in DOMAIN new \ {k} : j \in DOMAIN rows[t] /\ new[j] = rows[t][j]
        /\ \A j \in DOMAIN rows[t] : j \in DOMAIN new
    BY <1>3, <1>9, <2>3 DEF Line
  <2>5. OneEachVariant(new)
    <3>1. \A j \in DOMAIN new \ {k} : new[j].variant # v
      BY <2>1, <2>3, <2>4 DEF InStep, OneEachVariant
    <3> QED
      BY <2>1, <2>4, <3>1 DEF InStep, OneEachVariant
  <2>6. \A j \in DOMAIN new : new[j].scanned = count[t][new[j].variant]
    <3> SUFFICES ASSUME NEW j \in DOMAIN new, j # k
                 PROVE  new[j].scanned = count[t][new[j].variant]
      BY <2>4
    <3>1. j \in DOMAIN rows[t] /\ new[j] = rows[t][j] /\ new[j].variant # v
      BY <2>4, <2>5 DEF OneEachVariant
    <3> QED
      BY <1>1, <2>1, <3>1 DEF InStep
  <2>7. Tallied(t)'
    <3>1. ASSUME latest[t] # None
          PROVE  /\ count[t][latest[t]] > 0
                 /\ \A i, j \in DOMAIN new :
                      new[i].variant = latest[t] /\ i # j => new[j].at < new[i].at
      <4>1. r.kind = "scan" /\ latest[t] = v
        BY <1>3, <2>3, <3>1
      <4>2. \A j \in DOMAIN new \ {k} : new[j].variant # v /\ new[j].at < new[k].at
        BY <2>3, <2>4, <2>5, <4>1 DEF OneEachVariant
      <4> QED
        BY <2>3, <2>4, <4>1, <4>2
    <3> QED
      BY <1>5, <1>6, <2>6, <3>1 DEF Tallied
  <2>8. \A w \in Counted : count'[t][w] > 0 => S!RowsOf(t, w)' # {}
    <3> SUFFICES ASSUME NEW w \in Counted, count[t][w] > 0
                 PROVE  \E j \in DOMAIN new : new[j].variant = w
      BY <1>5, <1>6 DEF S!RowsOf
    <3>1. CASE w = v
      BY <2>4, <3>1
    <3>2. CASE w # v
      <4>1. PICK j \in DOMAIN rows[t] : rows[t][j].variant = w
        BY <1>1, <2>1, <3>2 DEF InStep, S!RowsOf
      <4>2. j # k
        BY <1>9, <2>3, <3>2, <4>1
      <4> QED
        BY <1>9, <2>4, <4>1, <4>2
    <3> QED
      BY <3>1, <3>2
  <2>9. InStep(t)'
    BY <1>5, <1>6, <2>2, <2>5, <2>6, <2>7, <2>8 DEF InStep, OneEachVariant
  <2>10. \A w, e : Expected(t, w, e)' => Expected(t, w, e)
    <3> SUFFICES ASSUME NEW w, NEW e, NEW j \in DOMAIN new,
                        new[j].variant = w, new[j].expected = e
                 PROVE  Expected(t, w, e)
      BY <1>6, <1>13, <2>2 DEF Expected
    <3>1. CASE j = k
      BY <1>1, <1>12, <2>4, <3>1 DEF Expected
    <3>2. CASE j # k
      BY <2>4, <3>2 DEF Expected
    <3> QED
      BY <3>1, <3>2
  <2>11. ASSUME NEW w \in Counted PROVE Accounted(t, w)'
    BY <1>3, <1>5, <2>1, <2>2, <2>10, <2>11, KeepsAccount
  <2> QED
    BY <2>9, <2>11
<1> QED
  BY <1>10, <1>11, <1>14, <1>15 DEF TakeInv

LEMMA FinishTakes == ASSUME TakeInv, NEW t \in Takes, S!Finish(t) PROVE TakeInv'
<1>1. /\ takes[t] # "none" /\ takes' = [takes EXCEPT ![t] = "finished"]
      /\ spoilt' = [spoilt EXCEPT ![t] = @ \/ S!Busy(t, {"scan", "undo"})]
      /\ UNCHANGED <<quantity, shelf, coded, rows, work, count, latest, due, before, after>>
  BY DEF S!Finish, S!person
<1>2. TakeTypes'
  <2>1. takes' \in [Takes -> {"none", "in_progress", "finished", "applied"}]
    BY <1>1 DEF TakeInv, TakeTypes
  <2>2. spoilt' \in [Takes -> BOOLEAN]
    BY <1>1 DEF TakeInv, TakeTypes, S!Busy
  <2> QED
    BY <1>1, <2>1, <2>2 DEF TakeInv, TakeTypes
<1>3. ASSUME NEW u \in Takes \ {t}
      PROVE  /\ Fresh(u)'
             /\ ~spoilt'[u] => InStep(u)' /\ \A w \in Counted : Accounted(u, w)'
  <2>1. takes'[u] = takes[u] /\ spoilt'[u] = spoilt[u]
    BY <1>1 DEF TakeInv, TakeTypes
  <2> QED
    BY <1>1, <2>1, KeepsOthers
<1>4. takes'[t] = "finished"
  BY <1>1 DEF TakeInv, TakeTypes
<1>5. \A q \in Web : /\ Begins(q, t)' <=> Begins(q, t)
                     /\ Counts(q, t)' <=> Counts(q, t)
                     /\ Applied(q, t)' <=> Applied(q, t)
  BY <1>1 DEF Begins, Counts, Applied
<1>6. Fresh(t)'
  BY <1>1, <1>4, <1>5 DEF TakeInv, Fresh
<1>7. ASSUME ~spoilt'[t] PROVE InStep(t)' /\ \A w \in Counted : Accounted(t, w)'
  <2>1. ~spoilt[t] /\ \A q \in Web : ~Counts(q, t)
    BY <1>1, <1>7 DEF TakeInv, TakeTypes, S!Busy, Counts
  <2>2. InStep(t) /\ Tallied(t) /\ \A w \in Counted : Accounted(t, w)
    BY <2>1 DEF TakeInv, InStep
  <2>3. InStep(t)'
    BY <1>1, <1>4, <1>5, <2>1, <2>2 DEF InStep, OneEachVariant, S!RowsOf, Tallied
  <2>4. \A w, e : Expected(t, w, e)' => Expected(t, w, e)
    BY <1>1, <1>5 DEF Expected
  <2>5. ASSUME NEW w \in Counted PROVE Accounted(t, w)'
    BY <1>1, <1>4, <1>5, <2>2, <2>4, <2>5, KeepsAccount
  <2> QED
    BY <2>3, <2>5
<1> QED
  BY <1>2, <1>3, <1>6, <1>7 DEF TakeInv

LEMMA LoadApplyTakes ==
  ASSUME TakeInv, NEW p \in Web, NEW t \in Takes, S!LoadApply(p, t)
  PROVE  TakeInv'
<1>1. PICK r : r = [kind |-> "apply", take |-> t, items |-> rows[t], loaded |-> quantity]
  OBVIOUS
<1>2. /\ takes[t] = "finished" /\ work[p] = S!Idle /\ work' = [work EXCEPT ![p] = r]
      /\ UNCHANGED <<quantity, shelf, coded, takes, rows, count, latest, due, before, after,
                     spoilt>>
  BY <1>1 DEF S!LoadApply, S!Starts, S!tables, S!person, S!history
<1>3. /\ r \in Applying /\ r.kind = "apply" /\ r.take = t /\ r.items = rows[t]
      /\ r.loaded = quantity
  BY <1>1 DEF TakeInv, TakeTypes, Applying
<1>4. work'[p] = r /\ work[p].kind = "none" /\ \A q \in Web \ {p} : work'[q] = work[q]
  BY <1>2 DEF TakeInv, TakeTypes, S!Idle
<1>5. TakeTypes'
  <2>1. work' \in [Web -> {S!Idle} \cup Tally \cup Starting \cup Applying]
    BY <1>2, <1>3 DEF TakeInv, TakeTypes
  <2> QED
    BY <1>2, <2>1 DEF TakeInv, TakeTypes
<1>6. ASSUME NEW u \in Takes \ {t}
      PROVE  /\ Fresh(u)'
             /\ ~spoilt'[u] => InStep(u)' /\ \A w \in Counted : Accounted(u, w)'
  <2>1. ~Works(p, u) /\ ~Works(p, u)'
    BY <1>3, <1>4 DEF Works, Begins, Counts, Applied
  <2> QED
    BY <1>2, <1>4, <2>1, KeepsOthers
<1>7. \A q \in Web : /\ ~Begins(q, t)' /\ (Counts(q, t)' <=> Counts(q, t))
                     /\ Applied(q, t)' => q = p \/ (Applied(q, t) /\ work'[q] = work[q])
  <2>1. \A q \in Web : ~Begins(q, t)
    BY <1>2 DEF TakeInv, Fresh
  <2> QED
    BY <1>3, <1>4, <2>1 DEF Begins, Counts, Applied
<1>8. Fresh(t)'
  BY <1>2, <1>7 DEF Fresh
<1>9. ASSUME ~spoilt'[t] PROVE InStep(t)' /\ \A w \in Counted : Accounted(t, w)'
  <2>1. InStep(t) /\ \A w \in Counted : Accounted(t, w)
    BY <1>2, <1>9 DEF TakeInv
  <2>2. \A q \in Web : ~Counts(q, t) /\ ~Counts(q, t)'
    BY <1>2, <1>7, <2>1 DEF InStep
  <2>3. Tallied(t)'
    BY <1>2, <2>1, <2>2 DEF InStep, Tallied
  <2>4. OneEachVariant(rows[t])' /\ \A w : S!RowsOf(t, w)' = S!RowsOf(t, w)
    BY <1>2, <2>1 DEF InStep, OneEachVariant, S!RowsOf
  <2>5. \A q \in Web : Applied(q, t)' => takes'[t] = "finished" /\ work'[q].items = rows'[t]
    BY <1>2, <1>3, <1>4, <1>7, <2>1 DEF InStep
  <2>6. InStep(t)'
    BY <1>2, <2>1, <2>2, <2>3, <2>4, <2>5 DEF InStep, Tallied
  <2>7. ASSUME NEW w \in Counted PROVE Accounted(t, w)'
    <3>1. StillThere(t, w)'
      BY <1>2, <2>1 DEF Accounted, StillThere
    <3>2. \A e : Expected(t, w, e)' => Expected(t, w, e)
      BY <1>2, <1>7, <2>2 DEF Expected
    <3>3. SinceSnapshot(t, w)'
      BY <1>2, <2>1, <3>2 DEF Accounted, SinceSnapshot
    <3>4. quantity[w] - shelf[w] <= quantity[w]
      BY DEF TakeInv, TakeTypes
    <3>5. SinceLoaded(t, w)'
      BY <1>2, <1>3, <1>4, <1>7, <2>1, <3>4 DEF Accounted, SinceLoaded
    <3> QED
      BY <3>1, <3>3, <3>5 DEF Accounted
  <2> QED
    BY <2>6, <2>7
<1> QED
  BY <1>5, <1>6, <1>8, <1>9 DEF TakeInv

(* What an apply makes of a quantity: nothing, or what is in an item. *)
LEMMA WhatIsFound ==
  ASSUME NEW r, r \in Applying, NEW v \in Counted, quantity[v] \in Nat
  PROVE  /\ S!Corrected(r, v) \in Nat
         /\ \A i \in DOMAIN r.items : OneEachVariant(r.items) /\ r.items[i].variant = v =>
              S!Corrected(r, v) = IF /\ r.items[i].scanned # r.items[i].expected
                                     /\ r.items[i].scanned # r.loaded[v]
                                  THEN r.items[i].scanned ELSE quantity[v]
         /\ (\A i \in DOMAIN r.items : r.items[i].variant # v) =>
              S!Corrected(r, v) = quantity[v]
<1> DEFINE F == S!Found(r, v)
<1>1. /\ r.items \in Seq(Line) /\ Len(r.items) \in Nat /\ DOMAIN r.items = 1..Len(r.items)
      /\ \A i \in DOMAIN r.items : r.items[i].scanned \in Nat
  <2>1. r.items \in Seq(Line)
    BY DEF Applying
  <2>2. \A i \in DOMAIN r.items : r.items[i] \in Line
    BY <2>1
  <2> QED
    BY <2>1, <2>2 DEF Line
<1>2. F = {i \in DOMAIN r.items : /\ r.items[i].variant = v
                                  /\ r.items[i].scanned # r.items[i].expected}
  BY DEF S!Found, S!Different
<1>3. F \subseteq Nat /\ \A k \in F : k <= Len(r.items)
  BY <1>1, <1>2
<1>4. F # {} => S!Max(F) \in F
  BY <1>1, <1>3, Greatest
<1>5. S!Corrected(r, v) = IF F = {} \/ r.items[S!Max(F)].scanned = r.loaded[v] THEN quantity[v]
                          ELSE r.items[S!Max(F)].scanned
  BY DEF S!Corrected
<1> HIDE DEF F
<1>6. S!Corrected(r, v) \in Nat
  BY <1>1, <1>2, <1>4, <1>5
<1>7. ASSUME NEW i \in DOMAIN r.items, OneEachVariant(r.items), r.items[i].variant = v
      PROVE  S!Corrected(r, v) = IF /\ r.items[i].scanned # r.items[i].expected
                                    /\ r.items[i].scanned # r.loaded[v]
                                 THEN r.items[i].scanned ELSE quantity[v]
  <2>1. \A k \in F : k = i
    BY <1>2, <1>7 DEF OneEachVariant
  <2>2. F = {} <=> r.items[i].scanned = r.items[i].expected
    BY <1>2, <1>7, <2>1
  <2>3. F # {} => S!Max(F) = i
    BY <1>4, <2>1
  <2> QED
    BY <1>5, <2>2, <2>3
<1>8. ASSUME \A i \in DOMAIN r.items : r.items[i].variant # v
      PROVE  S!Corrected(r, v) = quantity[v]
  BY <1>2, <1>5, <1>8
<1> QED
  BY <1>6, <1>7, <1>8

(* Applying makes the quantities of a stocktake's items what was found; what it changes
   has moved as far as the other stocktakes are concerned. *)
LEMMA ApplyTakes == ASSUME TakeInv, NEW p \in Web, S!CommitApply(p) PROVE TakeInv'
<1>1. PICK r : r = work[p]
  OBVIOUS
<1>2. PICK t : t = r.take
  OBVIOUS
<1>3. r \in Applying /\ r.kind = "apply" /\ t \in Takes
  BY <1>1, <1>2, WorkKinds DEF S!CommitApply, TakeInv, Applying
<1>4. PICK new : new = [v \in Counted |-> S!Corrected(r, v)]
  OBVIOUS
<1>5. PICK touched : touched = [u \in Takes |->
        IF S!Begun(u) /\ u # t THEN {v \in Counted : new[v] # quantity[v]} ELSE {}]
  OBVIOUS
<1>6. /\ work' = [work EXCEPT ![p] = S!Idle]
      /\ quantity' = new /\ takes' = [takes EXCEPT ![t] = "applied"]
      /\ before' = [u \in Takes |-> before[u] \cup touched[u]]
      /\ after' = [u \in Takes |-> after[u] \cup touched[u]]
      /\ UNCHANGED <<shelf, coded, rows, count, latest, due, spoilt>>
  BY <1>1, <1>2, <1>4, <1>5 DEF S!CommitApply, S!Ends, S!person
<1>7. /\ work'[p].kind = "none" /\ \A q \in Web \ {p} : work'[q] = work[q]
      /\ takes'[t] = "applied" /\ \A u \in Takes \ {t} : takes'[u] = takes[u]
      /\ \A u \in Takes : before'[u] = before[u] \cup touched[u] /\ after'[u] = after[u] \cup touched[u]
      /\ \A v \in Counted : quantity'[v] = S!Corrected(r, v)
      /\ touched[t] = {}
  BY <1>3, <1>4, <1>5, <1>6 DEF TakeInv, TakeTypes, S!Idle
<1>8. \A v \in Counted : quantity[v] \in Nat /\ shelf[v] \in Nat /\ S!Corrected(r, v) \in Nat
  BY <1>3, WhatIsFound DEF TakeInv, TakeTypes
<1>9. TakeTypes'
  <2>1. quantity' \in [Counted -> Nat] /\ takes' \in [Takes -> {"none", "in_progress", "finished", "applied"}]
    BY <1>4, <1>6, <1>8 DEF TakeInv, TakeTypes
  <2>2. before' \in [Takes -> SUBSET Counted] /\ after' \in [Takes -> SUBSET Counted]
    BY <1>5, <1>6 DEF TakeInv, TakeTypes
  <2>3. work' \in [Web -> {S!Idle} \cup Tally \cup Starting \cup Applying]
    BY <1>6 DEF TakeInv, TakeTypes
  <2> QED
    BY <1>6, <2>1, <2>2, <2>3 DEF TakeInv, TakeTypes
<1>10. Applied(p, t)
  BY <1>1, <1>2, <1>3 DEF Applied
<1>11. ASSUME NEW u \in Takes \ {t}
       PROVE  /\ Fresh(u)'
              /\ ~spoilt'[u] => InStep(u)' /\ \A w \in Counted : Accounted(u, w)'
  <2>1. ~Works(p, u) /\ ~Works(p, u)'
    BY <1>1, <1>2, <1>3, <1>7 DEF Works, Begins, Counts, Applied
  <2>2. /\ Fresh(u) => Fresh(u)'
        /\ InStep(u) => InStep(u)'
        /\ \A w, e : Expected(u, w, e)' => Expected(u, w, e)
        /\ \A q \in Web : Applied(q, u)' => Applied(q, u) /\ work'[q] = work[q]
    BY <1>6, <1>7, <2>1, Keeps DEF TakeInv
  <2>3. ASSUME NEW w \in Counted, Accounted(u, w) PROVE Accounted(u, w)'
    <3>1. CASE quantity'[w] = quantity[w]
      BY <1>6, <1>7, <2>2, <2>3, <3>1, KeepsAccount
    <3>2. CASE quantity'[w] # quantity[w] /\ S!Begun(u)
      <4>1. w \in before'[u] /\ w \in after'[u]
        BY <1>4, <1>5, <1>6, <1>7, <3>2
      <4> QED
        BY <4>1 DEF Accounted, StillThere, SinceSnapshot, SinceLoaded
    <3>3. CASE ~S!Begun(u)
      <4>1. takes[u] = "none" /\ \A q \in Web : ~Begins(q, u)
        BY <3>3 DEF S!Begun, S!Busy, Begins
      <4>2. /\ rows[u] = <<>> /\ count[u][w] = 0
            /\ \A q \in Web : ~Counts(q, u) /\ ~Applied(q, u)
        BY <4>1 DEF TakeInv, Fresh
      <4>3. \A e : ~Expected(u, w, e)
        BY <4>1, <4>2 DEF Expected
      <4>4. (\A e : ~Expected(u, w, e)') /\ \A q \in Web : ~Applied(q, u)'
        BY <2>2, <4>2, <4>3
      <4> QED
        BY <1>6, <4>2, <4>4 DEF Accounted, StillThere, SinceSnapshot, SinceLoaded
    <3> QED
      BY <3>1, <3>2, <3>3
  <2> QED
    BY <1>6, <2>2, <2>3 DEF TakeInv
<1>12. takes[t] # "none" /\ \A q \in Web : ~Begins(q, t)
  BY <1>3, <1>10 DEF TakeInv, Fresh
<1>13. \A q \in Web : /\ ~Begins(q, t)' /\ (Counts(q, t)' => Counts(q, t))
                      /\ Applied(q, t)' => Applied(q, t) /\ work'[q] = work[q]
  BY <1>7, <1>12 DEF Begins, Counts, Applied
<1>14. Fresh(t)'
  BY <1>7, <1>13 DEF Fresh
<1>15. ASSUME ~spoilt'[t] PROVE InStep(t)' /\ \A w \in Counted : Accounted(t, w)'
  <2>1. InStep(t) /\ \A w \in Counted : Accounted(t, w)
    BY <1>3, <1>6, <1>15 DEF TakeInv
  <2>2. /\ takes[t] \in {"finished", "applied"} /\ r.items = rows[t]
        /\ \A q \in Web : ~Counts(q, t) /\ ~Counts(q, t)'
    BY <1>1, <1>10, <1>13, <2>1 DEF InStep
  <2>3. Tallied(t) /\ Tallied(t)'
    BY <1>6, <2>1, <2>2 DEF InStep, Tallied
  <2>4. OneEachVariant(rows[t]) /\ OneEachVariant(rows[t])'
    BY <1>6, <2>1 DEF InStep, OneEachVariant
  <2>5. \A w : S!RowsOf(t, w)' = S!RowsOf(t, w)
    BY <1>6 DEF S!RowsOf
  <2>6. \A q \in Web : Applied(q, t)' => work'[q].items = rows'[t]
    BY <1>6, <1>13, <2>1 DEF InStep
  <2>7. InStep(t)'
    BY <1>6, <1>7, <2>1, <2>2, <2>3, <2>4, <2>5, <2>6 DEF InStep, Tallied
  <2>8. ASSUME NEW w \in Counted PROVE Accounted(t, w)'
    <3>1. /\ StillThere(t, w) /\ SinceSnapshot(t, w) /\ SinceLoaded(t, w)
          /\ count'[t][w] = count[t][w] /\ due'[t][w] = due[t][w] /\ shelf'[w] = shelf[w]
          /\ before'[t] = before[t] /\ after'[t] = after[t]
          /\ quantity[w] \in Nat /\ shelf[w] \in Nat
      <4>1. /\ StillThere(t, w) /\ SinceSnapshot(t, w) /\ SinceLoaded(t, w)
            /\ quantity[w] \in Nat /\ shelf[w] \in Nat
        BY <1>8, <2>1 DEF Accounted
      <4>2. before'[t] = before[t] /\ after'[t] = after[t]
        BY <1>3, <1>7
      <4> QED
        BY <1>6, <4>1, <4>2
    <3>2. StillThere(t, w)'
      BY <3>1 DEF StillThere
    <3>3. \/ quantity'[w] = quantity[w] /\ w \in Counted
          \/ /\ quantity'[w] = count[t][w]
             /\ \A e : Expected(t, w, e)' => e # count[t][w]
      <4>1. \A e : Expected(t, w, e)' =>
               \E i \in DOMAIN r.items : r.items[i].variant = w /\ r.items[i].expected = e
        BY <1>6, <1>13, <2>2 DEF Expected
      <4>2. CASE \A i \in DOMAIN r.items : r.items[i].variant # w
        BY <1>3, <1>7, <3>1, <4>2, WhatIsFound
      <4>3. CASE \E i \in DOMAIN r.items : r.items[i].variant = w
        <5>1. PICK i \in DOMAIN r.items : r.items[i].variant = w
          BY <4>3
        <5>2. quantity'[w] = IF /\ r.items[i].scanned # r.items[i].expected
                                /\ r.items[i].scanned # r.loaded[w]
                             THEN r.items[i].scanned ELSE quantity[w]
          BY <1>3, <1>7, <2>2, <2>4, <3>1, <5>1, WhatIsFound
        <5>3. r.items[i].scanned = count[t][w]
          BY <2>2, <2>3, <5>1 DEF Tallied
        <5>4. \A j \in DOMAIN r.items : r.items[j].variant = w => j = i
          BY <2>2, <2>4, <5>1 DEF OneEachVariant
        <5> QED
          BY <4>1, <5>2, <5>3, <5>4
      <4> QED
        BY <4>2, <4>3
    <3>4. \A e : Expected(t, w, e)' => Expected(t, w, e)
      BY <1>6, <1>13, <2>2 DEF Expected
    <3>5. SinceSnapshot(t, w)'
      <4> SUFFICES ASSUME NEW e \in Nat, Expected(t, w, e)', w \notin before'[t],
                          count[t][w] = e
                   PROVE  IF count[t][w] = 0 THEN quantity'[w] = e
                          ELSE quantity'[w] - shelf[w] = e - due[t][w]
        BY <1>7, <3>1 DEF SinceSnapshot
      <4>1. quantity'[w] = quantity[w]
        BY <3>3
      <4> QED
        BY <3>1, <3>4, <4>1 DEF SinceSnapshot
    <3>6. SinceLoaded(t, w)'
      <4> SUFFICES ASSUME NEW q \in Web, Applied(q, t)', w \notin after'[t]
                   PROVE  IF count[t][w] = 0 THEN quantity'[w] - shelf[w] <= work'[q].loaded[w]
                          ELSE quantity'[w] \in {work'[q].loaded[w], count[t][w]}
        BY <3>1 DEF SinceLoaded
      <4>1. /\ Applied(q, t) /\ work'[q] = work[q]
            /\ IF count[t][w] = 0 THEN quantity[w] - shelf[w] <= work[q].loaded[w]
               ELSE quantity[w] \in {work[q].loaded[w], count[t][w]}
        BY <1>13, <3>1 DEF SinceLoaded
      <4>2. work[q].loaded[w] \in Nat
        BY <4>1, WorkKinds DEF Applied, Applying, TakeInv
      <4> QED
        BY <3>1, <3>3, <4>1, <4>2
    <3> QED
      BY <3>2, <3>5, <3>6 DEF Accounted
  <2> QED
    BY <2>7, <2>8
<1> QED
  BY <1>9, <1>11, <1>14, <1>15 DEF TakeInv

-----------------------------------------------------------------------------
(* A request that goes on to another part leaves the stocktakes alone. *)
LEMMA RestTakes == ASSUME TakeInv, UNCHANGED counting PROVE TakeInv'
<1>1. UNCHANGED <<quantity, shelf, coded, takes, rows, work, count, latest, due, before, after,
                  spoilt>>
  BY DEF counting
<1>2. TakeTypes'
  BY <1>1 DEF TakeInv, TakeTypes
<1>3. ASSUME NEW t \in Takes
      PROVE  /\ Fresh(t)'
             /\ ~spoilt'[t] => InStep(t)' /\ \A w \in Counted : Accounted(t, w)'
  BY <1>1, KeepsOthers
<1> QED
  BY <1>2, <1>3 DEF TakeInv

LEMMA TakesInductive == TakeInv /\ [NextAll]_allVars => TakeInv'
<1> SUFFICES ASSUME TakeInv, [NextAll]_allVars PROVE TakeInv'
  OBVIOUS
<1>1. CASE UNCHANGED counting
  BY <1>1, RestTakes
<1>2. CASE S!Next
  <2>1. CASE \E v \in Counted : S!Sell(v) \/ S!Receive(v)
    BY <2>1, ShiftTakes
  <2>2. CASE \E v \in Counted : S!EnterBarcode(v)
    BY <2>2, BarcodeTakes
  <2>3. CASE \E t \in Takes : S!Finish(t)
    BY <2>3, FinishTakes
  <2>4. CASE \E p \in Web : S!PageStep(p)
    <3>1. PICK p \in Web : S!PageStep(p)
      BY <2>4
    <3>2. CASE S!LoadNew(p)
      BY <3>2, NewTakes
    <3>3. CASE S!CommitNew(p)
      BY <3>3, BeginTakes
    <3>4. CASE S!CommitCount(p)
      BY <3>4, CountTakes
    <3>5. CASE S!CommitApply(p)
      BY <3>5, ApplyTakes
    <3>6. CASE \E t \in Takes : S!LoadScan(p, t)
      BY <3>6, ScanTakes
    <3>7. CASE \E t \in Takes : S!LoadUndo(p, t)
      BY <3>7, UndoTakes
    <3>8. CASE \E t \in Takes : S!LoadApply(p, t)
      BY <3>8, LoadApplyTakes
    <3> QED
      BY <3>1, <3>2, <3>3, <3>4, <3>5, <3>6, <3>7, <3>8 DEF S!PageStep
  <2> QED
    BY <1>2, <2>1, <2>2, <2>3, <2>4 DEF S!Next
<1> QED
  BY <1>1, <1>2 DEF NextAll, allVars

(* The request whose stocktake is applied is the one that commits. *)
LEMMA OnlyCommitApplies ==
  ASSUME TakeInv, S!Next, NEW p \in Web, S!Applies(p)
  PROVE  S!CommitApply(p)
<1>1. work[p].kind = "apply" /\ work'[p] = S!Idle /\ work[p] # S!Idle
  BY DEF S!Applies, S!Idle
<1>2. ~UNCHANGED work
  BY <1>1
<1>3. ASSUME NEW v \in Counted PROVE ~S!Sell(v) /\ ~S!Receive(v) /\ ~S!EnterBarcode(v)
  BY <1>2 DEF S!Sell, S!Receive, S!Shift, S!EnterBarcode
<1>4. ASSUME NEW t \in Takes PROVE ~S!Finish(t)
  BY <1>2 DEF S!Finish
<1>5. PICK q \in Web : S!PageStep(q)
  BY <1>3, <1>4 DEF S!Next
<1>6. q = p
  <2>1. \A r : S!Starts(q, r) => work' = [work EXCEPT ![q] = r]
    BY DEF S!Starts
  <2>2. S!Ends(q) => work' = [work EXCEPT ![q] = S!Idle]
    BY DEF S!Ends
  <2>3. CASE S!LoadNew(q) \/ \E t \in Takes : S!LoadScan(q, t) \/ S!LoadUndo(q, t) \/ S!LoadApply(q, t)
    <3>1. S!LoadNew(q) => \E r : S!Starts(q, r)
      BY DEF S!LoadNew
    <3>2. \A t \in Takes : S!LoadScan(q, t) => \E r : S!Starts(q, r)
      BY DEF S!LoadScan
    <3>3. \A t \in Takes : S!LoadUndo(q, t) => \E r : S!Starts(q, r)
      BY DEF S!LoadUndo
    <3>4. \A t \in Takes : S!LoadApply(q, t) => \E r : S!Starts(q, r)
      BY DEF S!LoadApply
    <3>5. \E r : work' = [work EXCEPT ![q] = r]
      BY <2>1, <2>3, <3>1, <3>2, <3>3, <3>4
    <3> QED
      BY <1>1, <3>5 DEF TakeInv, TakeTypes
  <2>4. CASE S!CommitNew(q) \/ S!CommitCount(q) \/ S!CommitApply(q)
    <3>1. work' = [work EXCEPT ![q] = S!Idle]
      BY <2>2, <2>4 DEF S!CommitNew, S!CommitCount, S!CommitApply
    <3> QED
      BY <1>1, <3>1 DEF TakeInv, TakeTypes
  <2> QED
    BY <1>5, <2>3, <2>4 DEF S!PageStep
<1>7. ~S!LoadNew(p) /\ \A t \in Takes : ~S!LoadScan(p, t) /\ ~S!LoadUndo(p, t) /\ ~S!LoadApply(p, t)
  BY <1>1 DEF S!LoadNew, S!LoadScan, S!LoadUndo, S!LoadApply, S!Starts
<1>8. ~S!CommitNew(p) /\ ~S!CommitCount(p)
  BY <1>1 DEF S!CommitNew, S!CommitCount
<1> QED
  BY <1>5, <1>6, <1>7, <1>8 DEF S!PageStep

LEMMA AppliedIsTrue ==
  ASSUME TakeInv, NEW p \in Web, S!CommitApply(p), NEW v \in Counted,
         S!Trusted(work[p].take, v)
  PROVE  quantity'[v] = shelf[v]
<1>1. PICK r : r = work[p]
  OBVIOUS
<1>2. PICK t : t = r.take
  OBVIOUS
<1>3. /\ r \in Applying /\ r.kind = "apply" /\ t \in Takes /\ Applied(p, t)
      /\ r.loaded[v] \in Nat
  BY <1>1, <1>2, WorkKinds DEF S!CommitApply, TakeInv, Applying, Applied
<1>4. /\ quantity[v] \in Nat /\ shelf[v] \in Nat /\ count[t][v] \in Nat
      /\ ~spoilt[t] /\ S!Complete(t, v)
  BY <1>1, <1>2, <1>3 DEF TakeInv, TakeTypes, S!Trusted
<1>5. quantity'[v] = S!Corrected(r, v)
  BY <1>1 DEF S!CommitApply
<1>6. InStep(t) /\ Accounted(t, v)
  BY <1>3, <1>4 DEF TakeInv
<1>7. takes[t] \in {"finished", "applied"} /\ r.items = rows[t] /\ Tallied(t)
  BY <1>1, <1>3, <1>6 DEF InStep
<1>8. PICK i \in DOMAIN rows[t] :
      /\ rows[t][i].variant = v
      /\ v \notin IF rows[t][i].scanned # rows[t][i].expected THEN after[t] ELSE before[t]
  BY <1>1, <1>2 DEF S!Trusted, S!RowsOf
<1>9. rows[t][i].scanned = count[t][v] /\ OneEachVariant(r.items)
  BY <1>6, <1>7, <1>8 DEF Tallied, InStep
<1>10. S!Corrected(r, v) = IF /\ rows[t][i].scanned # rows[t][i].expected
                              /\ rows[t][i].scanned # r.loaded[v]
                           THEN rows[t][i].scanned ELSE quantity[v]
  BY <1>3, <1>4, <1>7, <1>8, <1>9, WhatIsFound
<1>11. rows[t][i].expected \in Nat /\ Expected(t, v, rows[t][i].expected)
  <2>1. rows[t] \in Seq(Line)
    BY <1>3 DEF TakeInv, TakeTypes
  <2>2. rows[t][i] \in Line
    BY <1>8, <2>1
  <2> QED
    BY <1>8, <2>2 DEF Line, Expected
<1>12. CASE rows[t][i].scanned = rows[t][i].expected
  <2>1. IF count[t][v] = 0 THEN quantity[v] = rows[t][i].expected
        ELSE quantity[v] - shelf[v] = rows[t][i].expected - due[t][v]
    BY <1>6, <1>8, <1>9, <1>11, <1>12 DEF Accounted, SinceSnapshot
  <2> QED
    BY <1>4, <1>5, <1>9, <1>10, <1>11, <1>12, <2>1 DEF S!Complete
<1>13. CASE rows[t][i].scanned # rows[t][i].expected
  <2>1. /\ v \notin after[t]
        /\ IF count[t][v] = 0 THEN quantity[v] - shelf[v] <= r.loaded[v]
           ELSE quantity[v] \in {r.loaded[v], count[t][v]} /\ shelf[v] = due[t][v]
    BY <1>1, <1>3, <1>4, <1>6, <1>8, <1>13 DEF Accounted, SinceLoaded, StillThere
  <2> QED
    BY <1>3, <1>4, <1>5, <1>9, <1>10, <1>13, <2>1 DEF S!Complete
<1> QED
  BY <1>12, <1>13

(* Applying a stocktake, also late, twice or after another one, makes the books of a
   variant true unless something moved that the count cannot know of: stocktake_apply
   writes scanned_qty where it differs from expected_qty and leaves the rest alone. *)
THEOREM AppliedBooksTrue == SpecAll => AppliedBooksAreTrue
<1>1. ASSUME TakeInv, [NextAll]_allVars
      PROVE  [\A p \in Web : S!Applies(p) =>
                \A v \in Counted : S!Trusted(work[p].take, v) => quantity'[v] = shelf[v]]_(S!vars)
  <2>1. CASE UNCHANGED counting
    BY <2>1 DEF counting, S!vars, S!tables, S!person, S!history
  <2>2. CASE S!Next
    BY <1>1, <2>2, OnlyCommitApplies, AppliedIsTrue
  <2> QED
    BY <1>1, <2>1, <2>2 DEF NextAll, allVars
<1> QED
  BY <1>1, TakesStart, TakesInductive, PTL DEF SpecAll, AppliedBooksAreTrue, S!AppliedBooksAreTrue
=============================================================================
