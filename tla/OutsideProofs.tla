--------------------------- MODULE OutsideProofs ---------------------------
(***************************************************************************)
(* What holds of the notices, the tokens and the price reports for any     *)
(* number of writers, workers, callers, offers and reports, any batch size *)
(* and any number of failures.                                             *)
(***************************************************************************)
EXTENDS MCOutside, FiniteSetTheorems, WellFoundedInduction, TLAPS

-----------------------------------------------------------------------------
(* Notices: every message the buyer got is marked, in the hand of the      *)
(* session that sent it, or the loss of its mark has been counted.         *)

OrderRow == [log : SUBSET Statuses, number : BOOLEAN, marks : SUBSET Mails, invoice : BOOLEAN]
WriterRow == [step : {"idle", "flush", "send", "commit"}, mail : Statuses,
              seen : SUBSET Mails, dirty : BOOLEAN]
CycleRow == [stage : 0..4, step : {"idle", "check", "send", "mark", "lock", "issue", "store", "mail"},
             loaded : SUBSET Mails, numbered : BOOLEAN, invoiced : BOOLEAN, seen : SUBSET Mails]

NoticeTypes ==
  /\ order \in OrderRow /\ cycle \in CycleRow
  /\ writer \in [Writers -> WriterRow]
  /\ sent \in [Mails -> Nat] /\ slips \in [Mails -> Nat]
  /\ issued \in Nat /\ lost \in Nat

(* a session that sends has not loaded the mark of what it sends           *)
WriterInv(w) ==
  /\ writer[w].step = "send" => writer[w].mail \notin writer[w].seen
  /\ writer[w].dirty => writer[w].step = "commit"

CycleInv ==
  /\ cycle.step = "send" => cycle.stage \in 1..3 /\ MailAt[cycle.stage] \notin cycle.loaded
  /\ cycle.step = "check" => cycle.stage \in 1..4
  /\ cycle.step \in {"lock", "issue", "store", "mail"} => cycle.stage \in {0, 4}

MailInv(m) == sent[m] <= slips[m] + (IF m \in order.marks \/ InHand(m) THEN 1 ELSE 0)

InvoiceInv ==
  /\ issued <= lost + (IF order.invoice \/ cycle.step = "store" THEN 1 ELSE 0)
  /\ cycle.step \in {"issue", "store"} => ~ order.invoice
  /\ cycle.step = "mail" => order.invoice /\ sent["invoice"] <= slips["invoice"]
  /\ ~ order.invoice => sent["invoice"] = 0
  /\ sent["invoice"] <= 1 + slips["invoice"]

NoticeInv ==
  /\ NoticeTypes /\ CycleInv /\ InvoiceInv
  /\ \A w \in Writers : WriterInv(w)
  /\ \A m \in Statuses : MailInv(m)

LEMMA TheMails ==
  /\ Statuses = {"confirmation", "shipment", "delivery"}
  /\ \A i \in 1..3 : MailAt[i] \in Statuses
  /\ Statuses \subseteq Mails /\ "invoice" \in Mails /\ "invoice" \notin Statuses
<1>1. 1..3 = {1, 2, 3}
  OBVIOUS
<1>2. MailAt[1] = "confirmation" /\ MailAt[2] = "shipment" /\ MailAt[3] = "delivery"
  BY DEF MailAt
<1>3. Statuses = {MailAt[1], MailAt[2], MailAt[3]}
  BY <1>1 DEF Statuses
<1> QED BY <1>1, <1>2, <1>3 DEF Mails

LEMMA NoticeInvInit == Init => NoticeInv
<1> SUFFICES ASSUME Init PROVE NoticeInv
  OBVIOUS
<1>1. NoticeTypes
  <2>1. Rest \in WriterRow
    BY TheMails DEF Rest, WriterRow
  <2>2. Pause \in CycleRow
    BY DEF Pause, CycleRow
  <2>3. order \in OrderRow
    BY DEF Init, OrderRow
  <2> QED BY <2>1, <2>2, <2>3 DEF Init, NoticeTypes
<1>2. CycleInv /\ InvoiceInv
  BY TheMails DEF Init, Pause, CycleInv, InvoiceInv
<1>3. \A w \in Writers : WriterInv(w)
  BY DEF Init, Rest, WriterInv
<1>4. \A m \in Statuses : MailInv(m)
  BY TheMails DEF Init, MailInv
<1> QED BY <1>1, <1>2, <1>3, <1>4 DEF NoticeInv

(* A message leaves: m was in nobody's hand and unmarked, or it is counted *)
(* as a repetition.                                                        *)
LEMMA AcceptedIsAccounted ==
  ASSUME NoticeInv, NEW m \in Statuses, NEW seen, m \notin seen, Accepted(m, seen),
         order' = order, InHand(m)', \A n \in Statuses : InHand(n) => InHand(n)'
  PROVE  /\ sent' \in [Mails -> Nat] /\ slips' \in [Mails -> Nat]
         /\ sent'["invoice"] = sent["invoice"] /\ slips'["invoice"] >= slips["invoice"]
         /\ \A n \in Statuses : MailInv(n)'
<1>1. m \in Mails /\ "invoice" \in Mails /\ m # "invoice" /\ Statuses \subseteq Mails
  BY TheMails
<1>2. sent \in [Mails -> Nat] /\ slips \in [Mails -> Nat]
  BY DEF NoticeInv, NoticeTypes
<1>3. sent' = [sent EXCEPT ![m] = @ + 1]
      /\ slips' = IF Overtaken(m, seen) THEN [slips EXCEPT ![m] = @ + 1] ELSE slips
  BY DEF Accepted, Slip
<1>4. /\ sent' \in [Mails -> Nat] /\ slips' \in [Mails -> Nat]
      /\ sent'["invoice"] = sent["invoice"] /\ slips'["invoice"] >= slips["invoice"]
  BY <1>1, <1>2, <1>3
<1>5. ASSUME NEW n \in Statuses PROVE MailInv(n)'
  <2>1. MailInv(n)
    BY DEF NoticeInv
  <2>2. CASE n # m
    <3>1. sent'[n] = sent[n] /\ slips'[n] = slips[n] /\ sent[n] \in Nat /\ slips[n] \in Nat
      BY <1>1, <1>2, <1>3, <2>2
    <3>2. InHand(n) => InHand(n)'
      OBVIOUS
    <3> QED BY <2>1, <3>1, <3>2 DEF MailInv
  <2>3. CASE n = m
    <3>1. sent'[m] = sent[m] + 1 /\ sent[m] \in Nat /\ slips[m] \in Nat
      BY <1>1, <1>2, <1>3
    <3>2. CASE Overtaken(m, seen)
      <4>1. slips'[m] = slips[m] + 1
        BY <1>1, <1>2, <1>3, <3>2
      <4> QED BY <2>1, <2>3, <3>1, <4>1 DEF MailInv
    <3>3. CASE ~ Overtaken(m, seen)
      <4>1. slips'[m] = slips[m] /\ m \notin order.marks /\ ~ InHand(m)
        BY <1>3, <3>3 DEF Overtaken
      <4> QED BY <2>1, <2>3, <3>1, <4>1 DEF MailInv
    <3> QED BY <3>2, <3>3
  <2> QED BY <2>2, <2>3
<1> QED BY <1>4, <1>5

LEMMA RefusedIsAccounted ==
  ASSUME NoticeInv, NEW m \in Mails, Refused(m),
         order'.marks = order.marks, \A n \in Statuses : InHand(n) => InHand(n)'
  PROVE  /\ sent' \in [Mails -> Nat] /\ slips' \in [Mails -> Nat]
         /\ m # "invoice" => sent'["invoice"] = sent["invoice"]
         /\ slips'["invoice"] >= slips["invoice"]
         /\ sent'["invoice"] - sent["invoice"] <= slips'["invoice"] - slips["invoice"]
         /\ \A n \in Statuses : MailInv(n)'
<1>1. "invoice" \in Mails /\ Statuses \subseteq Mails
  BY TheMails
<1>2. sent \in [Mails -> Nat] /\ slips \in [Mails -> Nat]
  BY DEF NoticeInv, NoticeTypes
<1>3. \/ sent' = sent /\ slips' = slips
      \/ sent' = [sent EXCEPT ![m] = @ + 1] /\ slips' = [slips EXCEPT ![m] = @ + 1]
  BY DEF Refused, AnswerLost, Slip
<1>4. /\ sent' \in [Mails -> Nat] /\ slips' \in [Mails -> Nat]
      /\ m # "invoice" => sent'["invoice"] = sent["invoice"]
      /\ slips'["invoice"] >= slips["invoice"]
      /\ sent'["invoice"] - sent["invoice"] <= slips'["invoice"] - slips["invoice"]
  BY <1>1, <1>2, <1>3
<1>5. ASSUME NEW n \in Statuses PROVE MailInv(n)'
  <2>1. MailInv(n)
    BY DEF NoticeInv
  <2>2. sent[n] \in Nat /\ slips[n] \in Nat /\ (InHand(n) => InHand(n)')
    BY <1>1, <1>2
  <2>3. \/ sent'[n] = sent[n] /\ slips'[n] = slips[n]
        \/ sent'[n] = sent[n] + 1 /\ slips'[n] = slips[n] + 1
    BY <1>1, <1>2, <1>3
  <2> QED BY <2>1, <2>2, <2>3 DEF MailInv
<1> QED BY <1>4, <1>5

(* emails_sent is written: the marks that go are counted.                  *)
LEMMA MarksAreAccounted ==
  ASSUME NoticeInv, NEW seen \in SUBSET Mails, order'.marks = seen, sent' = sent,
         Dropped(seen),
         \A n \in Statuses : InHand(n) => InHand(n)' \/ n \in seen
  PROVE  /\ slips' \in [Mails -> Nat] /\ slips'["invoice"] >= slips["invoice"]
         /\ \A n \in Statuses : MailInv(n)'
<1>1. /\ sent \in [Mails -> Nat] /\ slips \in [Mails -> Nat]
      /\ Statuses \subseteq Mails /\ "invoice" \in Mails
  BY TheMails DEF NoticeInv, NoticeTypes
<1>2. slips' \in [Mails -> Nat] /\ slips'["invoice"] >= slips["invoice"]
  BY <1>1 DEF Dropped
<1>3. ASSUME NEW n \in Statuses PROVE MailInv(n)'
  <2>1. MailInv(n) /\ n \in Mails /\ sent[n] \in Nat /\ slips[n] \in Nat
    BY <1>1 DEF NoticeInv
  <2>2. InHand(n) => InHand(n)' \/ n \in seen
    OBVIOUS
  <2>3. CASE n \in order.marks \ seen
    <3>1. slips'[n] = slips[n] + 1
      BY <2>1, <2>3 DEF Dropped
    <3> QED BY <2>1, <3>1 DEF MailInv
  <2>4. CASE n \notin order.marks \ seen
    <3>1. slips'[n] = slips[n]
      BY <2>1, <2>4 DEF Dropped
    <3> QED BY <2>1, <2>2, <2>4, <3>1 DEF MailInv
  <2> QED BY <2>3, <2>4
<1> QED BY <1>2, <1>3

(* A session that had sent m ends: m counts as possibly repeated.          *)
LEMMA LossIsAccounted ==
  ASSUME NoticeInv, NEW m, order'.marks = order.marks, sent' = sent,
         slips' = [slips EXCEPT ![m] = @ + 1] \/ slips' = slips,
         \A n \in Statuses : InHand(n) =>
           InHand(n)' \/ (n = m /\ slips' = [slips EXCEPT ![m] = @ + 1])
  PROVE  /\ slips' \in [Mails -> Nat] /\ slips'["invoice"] >= slips["invoice"]
         /\ \A n \in Statuses : MailInv(n)'
<1>1. /\ sent \in [Mails -> Nat] /\ slips \in [Mails -> Nat]
      /\ Statuses \subseteq Mails /\ "invoice" \in Mails
  BY TheMails DEF NoticeInv, NoticeTypes
<1>2. slips' \in [Mails -> Nat] /\ slips'["invoice"] >= slips["invoice"]
  BY <1>1
<1>3. ASSUME NEW n \in Statuses PROVE MailInv(n)'
  <2>1. MailInv(n) /\ n \in Mails /\ sent[n] \in Nat /\ slips[n] \in Nat
    BY <1>1 DEF NoticeInv
  <2>2. InHand(n) => InHand(n)' \/ (n = m /\ slips' = [slips EXCEPT ![m] = @ + 1])
    OBVIOUS
  <2>3. slips'[n] >= slips[n] /\ slips'[n] \in Nat
    BY <1>1, <2>1
  <2>4. CASE n = m /\ slips' = [slips EXCEPT ![m] = @ + 1]
    <3>1. slips'[n] = slips[n] + 1
      BY <1>1, <2>1, <2>4
    <3> QED BY <2>1, <3>1 DEF MailInv
  <2>5. CASE InHand(n) => InHand(n)'
    BY <2>1, <2>3, <2>5 DEF MailInv
  <2> QED BY <2>2, <2>4, <2>5
<1> QED BY <1>2, <1>3

(* The transactions that write statuses.                                   *)
LEMMA WritersKeepNotices ==
  ASSUME NoticeInv, NEW w \in Writers,
         WriterStep(w) \/ Rollback(w) \/ \E m \in Statuses : Load(w, m)
  PROVE  NoticeInv'
<1> DEFINE r == writer[w]
<1>1. /\ r \in WriterRow /\ r.mail \in Statuses /\ r.seen \in SUBSET Mails
      /\ r.dirty \in BOOLEAN /\ WriterInv(w) /\ r.mail \in Mails
      /\ Rest \in WriterRow /\ Rest.step = "idle" /\ Rest.dirty = FALSE
      /\ order \in OrderRow /\ order.marks \in SUBSET Mails /\ order.log \in SUBSET Statuses
  BY TheMails DEF NoticeInv, NoticeTypes, WriterRow, OrderRow, Rest
<1>2. UNCHANGED <<issued, cycle, lost>>
  BY DEF WriterStep, Rollback, Load, Flush, Dispatch, DispatchAgain, DispatchFails, Commit, WriterOnly
<1>3. \A m, n : InHand(m) <=> \/ \E u \in Writers : writer[u].dirty /\ writer[u].mail = m
                              \/ cycle.step = "mark" /\ cycle.stage \in 1..3 /\ MailAt[cycle.stage] = m
  BY DEF InHand
<1>4. ASSUME NEW row \in WriterRow, writer' = [writer EXCEPT ![w] = row],
             row.step = "send" => row.mail \notin row.seen,
             row.dirty => row.step = "commit"
      PROVE  writer' \in [Writers -> WriterRow] /\ \A u \in Writers : WriterInv(u)'
  BY <1>4 DEF NoticeInv, NoticeTypes, WriterInv
<1>5. ASSUME NEW row \in WriterRow, writer' = [writer EXCEPT ![w] = row]
      PROVE  \A n : InHand(n) => \/ InHand(n)'
                                 \/ r.dirty /\ r.mail = n /\ ~ (row.dirty /\ row.mail = n)
  <2>1. writer'[w] = row /\ \A u \in Writers \ {w} : writer'[u] = writer[u]
    BY <1>5 DEF NoticeInv, NoticeTypes
  <2> QED BY <1>2, <2>1 DEF InHand
<1>6. ASSUME order' \in OrderRow, order'.invoice = order.invoice,
             writer' \in [Writers -> WriterRow], \A u \in Writers : WriterInv(u)',
             sent' \in [Mails -> Nat], slips' \in [Mails -> Nat],
             sent'["invoice"] = sent["invoice"], slips'["invoice"] >= slips["invoice"],
             \A m \in Statuses : MailInv(m)'
      PROVE  NoticeInv'
  <2>1. /\ sent["invoice"] \in Nat /\ slips["invoice"] \in Nat /\ slips'["invoice"] \in Nat
        /\ NoticeTypes /\ CycleInv /\ InvoiceInv
    BY <1>6, TheMails DEF NoticeInv, NoticeTypes
  <2>2. InvoiceInv'
    BY <1>2, <1>6, <2>1 DEF InvoiceInv
  <2> QED BY <1>2, <1>6, <2>1, <2>2 DEF NoticeInv, NoticeTypes, CycleInv
<1>7. sent \in [Mails -> Nat] /\ slips \in [Mails -> Nat] /\ slips["invoice"] \in Nat
  BY TheMails DEF NoticeInv, NoticeTypes
<1>8. ASSUME UNCHANGED <<order, sent, slips>>, \A n : InHand(n) => InHand(n)'
      PROVE  \A m \in Statuses : MailInv(m)'
  <2> SUFFICES ASSUME NEW m \in Statuses PROVE MailInv(m)'
    OBVIOUS
  <2>1. MailInv(m) /\ sent[m] \in Nat /\ slips[m] \in Nat /\ (InHand(m) => InHand(m)')
    BY <1>7, <1>8, TheMails DEF NoticeInv
  <2> QED BY <1>8, <2>1 DEF MailInv
<1>9. CASE \E m \in Statuses : Load(w, m)
  <2>1. PICK m \in Statuses : Load(w, m)
    BY <1>9
  <2> DEFINE row == [Rest EXCEPT !.step = "flush", !.mail = m, !.seen = order.marks]
  <2>2. row \in WriterRow /\ row.step = "flush" /\ row.dirty = FALSE
    BY <1>1 DEF WriterRow, Rest
  <2>3. /\ writer' = [writer EXCEPT ![w] = row] /\ r.step = "idle"
        /\ UNCHANGED <<order, sent, slips>>
    BY <2>1 DEF Load
  <2> HIDE DEF row
  <2>4. writer' \in [Writers -> WriterRow] /\ \A u \in Writers : WriterInv(u)'
    BY <1>4, <2>2, <2>3
  <2>5. \A n : InHand(n) => InHand(n)'
    BY <1>1, <1>5, <2>2, <2>3 DEF WriterInv
  <2> QED BY <1>1, <1>6, <1>7, <1>8, <2>3, <2>4, <2>5
<1>10. CASE Flush(w)
  <2> DEFINE row == [r EXCEPT !.step = IF r.mail \in r.seen THEN "commit" ELSE "send"]
  <2>1. row \in WriterRow /\ (row.step = "send" => row.mail \notin row.seen) /\ row.dirty = r.dirty
    BY <1>1 DEF WriterRow
  <2>2. /\ writer' = [writer EXCEPT ![w] = row] /\ r.step = "flush"
        /\ UNCHANGED <<order, sent, slips>>
    BY <1>10 DEF Flush, Goes
  <2>3. row.dirty = FALSE
    BY <1>1, <2>1, <2>2 DEF WriterInv
  <2> HIDE DEF row
  <2>4. writer' \in [Writers -> WriterRow] /\ \A u \in Writers : WriterInv(u)'
    BY <1>4, <2>1, <2>2, <2>3
  <2>5. \A n : InHand(n) => InHand(n)'
    BY <1>1, <1>5, <2>1, <2>2, <2>3 DEF WriterInv
  <2> QED BY <1>1, <1>6, <1>7, <1>8, <2>2, <2>4, <2>5
<1>11. CASE Dispatch(w)
  <2> DEFINE row == [r EXCEPT !.step = "commit", !.dirty = TRUE]
  <2>1. row \in WriterRow /\ row.step = "commit" /\ row.dirty = TRUE /\ row.mail = r.mail
    BY <1>1 DEF WriterRow
  <2>2. /\ writer' = [writer EXCEPT ![w] = row] /\ r.step = "send" /\ order' = order
        /\ Accepted(r.mail, r.seen)
    BY <1>11 DEF Dispatch
  <2> HIDE DEF row
  <2>3. writer' \in [Writers -> WriterRow] /\ \A u \in Writers : WriterInv(u)'
    BY <1>4, <2>1, <2>2
  <2>4. \A n : InHand(n) => InHand(n)'
    BY <1>5, <2>1, <2>2
  <2>5. r.mail \notin r.seen
    BY <1>1, <2>2 DEF WriterInv
  <2>6. PICK m \in Statuses, seen \in SUBSET Mails : m = r.mail /\ seen = r.seen
    BY <1>1
  <2>7. InHand(m)' /\ m \notin seen /\ Accepted(m, seen)
    <3>1. writer'[w] = row
      BY <2>2 DEF NoticeInv, NoticeTypes
    <3> QED BY <2>1, <2>2, <2>5, <2>6, <3>1 DEF InHand
  <2>8. /\ sent' \in [Mails -> Nat] /\ slips' \in [Mails -> Nat]
        /\ sent'["invoice"] = sent["invoice"] /\ slips'["invoice"] >= slips["invoice"]
        /\ \A n \in Statuses : MailInv(n)'
    BY <2>2, <2>4, <2>6, <2>7, AcceptedIsAccounted
  <2> QED BY <1>1, <1>6, <2>2, <2>3, <2>8
<1>12. CASE DispatchAgain(w) \/ DispatchFails(w)
  <2> DEFINE row == IF DispatchAgain(w) THEN r ELSE [r EXCEPT !.step = "commit"]
  <2>1. /\ row \in WriterRow /\ row.step \in {r.step, "commit"}
        /\ row.dirty = r.dirty /\ row.mail = r.mail /\ row.seen = r.seen
    BY <1>1 DEF WriterRow
  <2>2. /\ writer' = [writer EXCEPT ![w] = row] /\ order' = order /\ Refused(r.mail)
        /\ r.step = "send"
    BY <1>12 DEF DispatchAgain, DispatchFails, Goes, Refused, NoticeInv, NoticeTypes
  <2> HIDE DEF row
  <2>3. writer' \in [Writers -> WriterRow] /\ \A u \in Writers : WriterInv(u)'
    <3>1. (row.step = "send" => row.mail \notin row.seen) /\ ~ row.dirty
      BY <1>1, <2>1, <2>2 DEF WriterInv
    <3> QED BY <1>4, <2>1, <2>2, <3>1
  <2>4. \A n : InHand(n) => InHand(n)'
    BY <1>5, <2>1, <2>2
  <2>5. r.mail # "invoice"
    BY <1>1, TheMails
  <2>6. /\ sent' \in [Mails -> Nat] /\ slips' \in [Mails -> Nat]
        /\ sent'["invoice"] = sent["invoice"] /\ slips'["invoice"] >= slips["invoice"]
        /\ \A n \in Statuses : MailInv(n)'
    <3> DEFINE m == r.mail
    <3>1. m \in Mails /\ Refused(m) /\ m # "invoice"
      BY <1>1, <2>2, <2>5
    <3> HIDE DEF m
    <3> QED BY <2>2, <2>4, <3>1, RefusedIsAccounted
  <2> QED BY <1>1, <1>6, <2>2, <2>3, <2>6
<1>13. CASE Commit(w)
  <2> DEFINE seen == IF r.dirty THEN r.seen \cup {r.mail} ELSE order.marks
  <2>1. seen \in SUBSET Mails
    BY <1>1
  <2>2. /\ writer' = [writer EXCEPT ![w] = Rest] /\ sent' = sent
        /\ order' = [order EXCEPT !.log = @ \cup {r.mail}, !.marks = seen]
        /\ Dropped(seen)
    BY <1>13 DEF Commit
  <2>3. order' \in OrderRow /\ order'.marks = seen /\ order'.invoice = order.invoice
    <3> HIDE DEF seen
    <3> QED BY <1>1, <2>1, <2>2 DEF OrderRow
  <2>4. writer' \in [Writers -> WriterRow] /\ \A u \in Writers : WriterInv(u)'
    BY <1>1, <1>4, <2>2
  <2>5. \A n \in Statuses : InHand(n) => InHand(n)' \/ n \in seen
    BY <1>1, <1>5, <2>2
  <2> HIDE DEF seen
  <2>6. /\ slips' \in [Mails -> Nat] /\ slips'["invoice"] >= slips["invoice"]
        /\ \A n \in Statuses : MailInv(n)'
    BY <2>1, <2>2, <2>3, <2>5, MarksAreAccounted
  <2> QED BY <1>6, <1>7, <2>2, <2>3, <2>4, <2>6
<1>14. CASE Rollback(w)
  <2>1. /\ writer' = [writer EXCEPT ![w] = Rest] /\ UNCHANGED <<order, sent>>
        /\ slips' = IF r.dirty THEN [slips EXCEPT ![r.mail] = @ + 1] ELSE slips
    BY <1>14 DEF Rollback, Slip
  <2>2. writer' \in [Writers -> WriterRow] /\ \A u \in Writers : WriterInv(u)'
    BY <1>1, <1>4, <2>1
  <2> DEFINE m == r.mail
  <2>3. \A n \in Statuses : InHand(n) =>
          InHand(n)' \/ (n = m /\ slips' = [slips EXCEPT ![m] = @ + 1])
    BY <1>1, <1>5, <2>1
  <2>4. slips' = [slips EXCEPT ![m] = @ + 1] \/ slips' = slips
    BY <2>1
  <2> HIDE DEF m
  <2>5. /\ slips' \in [Mails -> Nat] /\ slips'["invoice"] >= slips["invoice"]
        /\ \A n \in Statuses : MailInv(n)'
    BY <2>1, <2>3, <2>4, LossIsAccounted
  <2> QED BY <1>1, <1>6, <1>7, <2>1, <2>2, <2>5
<1> QED BY <1>9, <1>10, <1>11, <1>12, <1>13, <1>14 DEF WriterStep

(* The scheduler's cycle.                                                  *)
LEMMA CycleKeepsNotices ==
  ASSUME NoticeInv, CycleStep \/ KillCycle
  PROVE  NoticeInv'
<1>1. /\ cycle \in CycleRow /\ cycle.stage \in 0..4 /\ cycle.loaded \in SUBSET Mails
      /\ cycle.seen \in SUBSET Mails /\ CycleInv
      /\ Pause \in CycleRow /\ Pause.step = "idle" /\ Pause.stage = 0
      /\ order \in OrderRow /\ order.marks \in SUBSET Mails /\ order.invoice \in BOOLEAN
      /\ order.number \in BOOLEAN
      /\ sent \in [Mails -> Nat] /\ slips \in [Mails -> Nat] /\ issued \in Nat /\ lost \in Nat
      /\ sent["invoice"] \in Nat /\ slips["invoice"] \in Nat
  BY TheMails DEF NoticeInv, NoticeTypes, CycleRow, OrderRow, Pause
<1>2. writer' = writer
  BY DEF CycleStep, KillCycle, StartCycle, LockOrder, CreateInvoice, CreateAgain, CreateFails,
         StoreInvoice, MailInvoice, MailInvoiceAgain, MailInvoiceFails, MarkInvoice, CheckMail,
         RetryMail, RetryMailAgain, RetryMailFails, MarkRetried, CheckInvoice, CycleOnly
<1>3. writer' \in [Writers -> WriterRow] /\ \A w \in Writers : WriterInv(w)'
  BY <1>2 DEF NoticeInv, NoticeTypes, WriterInv
<1> DEFINE Hand(c, n) == c.step = "mark" /\ c.stage \in 1..3 /\ MailAt[c.stage] = n
<1>4. \A n : /\ InHand(n) <=> Hand(cycle, n) \/ \E w \in Writers : writer[w].dirty /\ writer[w].mail = n
             /\ InHand(n)' <=> Hand(cycle', n) \/ \E w \in Writers : writer[w].dirty /\ writer[w].mail = n
  BY <1>2 DEF InHand
<1>5. ASSUME cycle' \in CycleRow, CycleInv', order' \in OrderRow, InvoiceInv',
             sent' \in [Mails -> Nat], slips' \in [Mails -> Nat], issued' \in Nat, lost' \in Nat,
             \A m \in Statuses : MailInv(m)'
      PROVE  NoticeInv'
  BY <1>3, <1>5 DEF NoticeInv, NoticeTypes
<1>6. ASSUME order'.marks = order.marks, UNCHANGED <<sent, slips>>,
             \A n \in Statuses : InHand(n) => InHand(n)'
      PROVE  \A m \in Statuses : MailInv(m)'
  <2> SUFFICES ASSUME NEW m \in Statuses PROVE MailInv(m)'
    OBVIOUS
  <2>1. MailInv(m) /\ sent[m] \in Nat /\ slips[m] \in Nat /\ (InHand(m) => InHand(m)')
    BY <1>1, <1>6, TheMails DEF NoticeInv
  <2> QED BY <1>6, <2>1 DEF MailInv
(* the stage is over: nothing is in hand and no invoice is being issued *)
<1>7. ASSUME NextStage
      PROVE  /\ cycle' \in CycleRow /\ CycleInv' /\ cycle'.step \in {"idle", "check"}
  <2>1. CASE cycle.stage = 4
    BY <1>1, <1>7, <2>1 DEF NextStage, CycleInv
  <2>2. CASE cycle.stage # 4
    <3>1. cycle' = [cycle EXCEPT !.stage = @ + 1, !.step = "check", !.seen = {}]
      BY <1>7, <2>2 DEF NextStage
    <3>2. PICK n \in 1..4 : n = cycle.stage + 1
      BY <1>1, <2>2
    <3>3. cycle' = [stage |-> n, step |-> "check", loaded |-> cycle.loaded,
                    numbered |-> cycle.numbered, invoiced |-> cycle.invoiced, seen |-> {}]
      BY <1>1, <3>1, <3>2 DEF CycleRow
    <3>4. cycle' \in CycleRow /\ cycle'.step = "check" /\ cycle'.stage = n
      BY <1>1, <3>3 DEF CycleRow
    <3> QED BY <3>4 DEF CycleInv
  <2> QED BY <2>1, <2>2
<1>8. ASSUME NEW step \in {"issue", "store", "mail", "mark", "lock"}, Step(step)
      PROVE  cycle' \in CycleRow /\ cycle'.step = step /\ cycle'.stage = cycle.stage
             /\ cycle'.loaded = cycle.loaded
  BY <1>1, <1>8 DEF Step, CycleRow
(* nothing that an invoice is about changes *)
<1>9. ASSUME order'.invoice = order.invoice, issued' = issued, lost' = lost,
             sent'["invoice"] = sent["invoice"],
             slips'["invoice"] \in Nat, slips'["invoice"] >= slips["invoice"],
             cycle'.step \notin {"issue", "store", "mail"}, cycle.step # "store"
      PROVE  InvoiceInv'
  <2>1. sent["invoice"] \in Nat /\ slips["invoice"] \in Nat
    BY <1>1, TheMails
  <2> QED BY <1>9, <2>1 DEF NoticeInv, InvoiceInv
<1>10. ASSUME StartCycle \/ LockOrder \/ CheckMail \/ CheckInvoice PROVE NoticeInv'
  <2>1. UNCHANGED <<order, sent, issued, slips, lost>>
    BY <1>10 DEF StartCycle, LockOrder, CheckMail, CheckInvoice
  <2>2. cycle.step \notin {"mark", "store"}
    BY <1>10 DEF StartCycle, LockOrder, CheckMail, CheckInvoice
  <2>3. \A m \in Statuses : MailInv(m)'
    BY <1>4, <1>6, <2>1, <2>2
  <2>4. cycle' \in CycleRow /\ CycleInv' /\ InvoiceInv'
    <3>1. CASE StartCycle
      <4>2. CASE cycle' = [Pause EXCEPT !.step = "lock"]
        <5>1. cycle' \in CycleRow /\ cycle'.step = "lock" /\ cycle'.stage = 0
          BY <1>1, <4>2 DEF CycleRow
        <5> QED BY <1>1, <1>9, <2>1, <2>2, <5>1 DEF CycleInv
      <4>3. CASE cycle' = [Pause EXCEPT !.stage = 1, !.step = "check"]
        <5>1. cycle' = [stage |-> 1, step |-> "check", loaded |-> Pause.loaded,
                        numbered |-> Pause.numbered, invoiced |-> Pause.invoiced,
                        seen |-> Pause.seen]
          BY <1>1, <4>3 DEF CycleRow
        <5>2. cycle' \in CycleRow /\ cycle'.step = "check" /\ cycle'.stage = 1
          BY <1>1, <5>1 DEF CycleRow
        <5> QED BY <1>1, <1>9, <2>1, <2>2, <5>2 DEF CycleInv
      <4> QED BY <3>1, <4>2, <4>3 DEF StartCycle
    <3>2. CASE LockOrder
      <4>1. cycle.step = "lock" /\ cycle.stage \in {0, 4}
        BY <1>1, <3>2 DEF LockOrder, CycleInv
      <4>2. CASE order.invoice
        BY <1>1, <1>7, <1>9, <2>1, <2>2, <3>2, <4>2 DEF LockOrder
      <4>3. CASE ~ order.invoice
        <5>1. cycle' = [cycle EXCEPT !.step = "issue", !.seen = order.marks]
          BY <3>2, <4>3 DEF LockOrder
        <5>2. cycle' \in CycleRow /\ cycle'.step = "issue" /\ cycle'.stage = cycle.stage
          BY <1>1, <5>1 DEF CycleRow
        <5>3. CycleInv'
          BY <4>1, <5>2 DEF CycleInv
        <5>4. InvoiceInv'
          BY <2>1, <2>2, <4>3, <5>2 DEF NoticeInv, InvoiceInv
        <5> QED BY <5>2, <5>3, <5>4
      <4> QED BY <4>2, <4>3
    <3>3. CASE CheckMail
      <4> DEFINE c == Loaded
      <4>1. cycle.step = "check" /\ cycle.stage \in 1..3
        BY <3>3 DEF CheckMail
      <4>2. c \in CycleRow /\ c.stage = cycle.stage /\ c.step = "check"
        BY <1>1, <4>1 DEF Loaded, CycleRow
      <4>3. cycle' = IF Unmarked(c, MailAt[c.stage]) THEN [c EXCEPT !.step = "send"]
                     ELSE [c EXCEPT !.stage = @ + 1]
        BY <3>3 DEF CheckMail
      <4> HIDE DEF c
      <4>4. CASE Unmarked(c, MailAt[c.stage])
        <5>1. cycle' \in CycleRow /\ cycle'.step = "send" /\ cycle'.stage \in 1..3
              /\ cycle'.loaded = c.loaded /\ cycle'.stage = c.stage
          BY <4>1, <4>2, <4>3, <4>4 DEF CycleRow
        <5>2. MailAt[cycle'.stage] \notin cycle'.loaded
          BY <4>4, <5>1 DEF Unmarked
        <5> QED BY <1>1, <1>9, <2>1, <2>2, <5>1, <5>2 DEF CycleInv
      <4>5. CASE ~ Unmarked(c, MailAt[c.stage])
        <5>1. cycle' \in CycleRow /\ cycle'.step = "check" /\ cycle'.stage \in 1..4
          BY <4>1, <4>2, <4>3, <4>5 DEF CycleRow
        <5> QED BY <1>1, <1>9, <2>1, <2>2, <5>1 DEF CycleInv
      <4> QED BY <4>4, <4>5
    <3>4. CASE CheckInvoice
      <4>1. cycle.step = "check" /\ cycle.stage = 4
        BY <3>4 DEF CheckInvoice
      <4>2. CASE NextStage
        BY <1>1, <1>7, <1>9, <2>1, <2>2, <4>2
      <4>3. CASE Step("lock")
        <5>1. cycle' \in CycleRow /\ cycle'.step = "lock" /\ cycle'.stage = 4
          BY <1>8, <4>1, <4>3
        <5> QED BY <1>1, <1>9, <2>1, <2>2, <5>1 DEF CycleInv
      <4> QED BY <3>4, <4>2, <4>3 DEF CheckInvoice
    <3> QED BY <1>10, <3>1, <3>2, <3>3, <3>4
  <2> QED BY <1>1, <1>5, <2>1, <2>3, <2>4
<1>11. ASSUME CreateInvoice \/ CreateAgain \/ CreateFails \/ StoreInvoice PROVE NoticeInv'
  <2>1. UNCHANGED <<sent, slips>> /\ order'.marks = order.marks /\ order' \in OrderRow
    BY <1>1, <1>11 DEF CreateInvoice, CreateAgain, CreateFails, StoreInvoice, OrderRow
  <2>2. cycle.step \in {"issue", "store"} /\ cycle.stage \in {0, 4} /\ ~ order.invoice
    BY <1>1, <1>11 DEF CreateInvoice, CreateAgain, CreateFails, StoreInvoice, CycleInv, NoticeInv, InvoiceInv
  <2>3. \A m \in Statuses : MailInv(m)'
    BY <1>4, <1>6, <2>1, <2>2
  <2>4. cycle' \in CycleRow /\ CycleInv' /\ InvoiceInv' /\ issued' \in Nat /\ lost' \in Nat
    <3>1. CASE CreateInvoice
      <4>1. cycle' \in CycleRow /\ cycle'.step = "store" /\ cycle'.stage = cycle.stage
            /\ cycle.step = "issue" /\ issued' = issued + 1 /\ UNCHANGED <<order, lost>>
        BY <1>8, <3>1 DEF CreateInvoice
      <4>2. CycleInv'
        BY <2>2, <4>1 DEF CycleInv
      <4>3. InvoiceInv'
        BY <1>1, <2>1, <2>2, <4>1 DEF NoticeInv, InvoiceInv
      <4> QED BY <1>1, <4>1, <4>2, <4>3
    <3>2. CASE CreateFails
      <4>1. /\ cycle.step = "issue" /\ NextStage /\ order' = order
            /\ \/ issued' = issued /\ lost' = lost
               \/ issued' = issued + 1 /\ lost' = lost + 1
        BY <3>2 DEF CreateFails
      <4>2. InvoiceInv'
        BY <1>1, <1>7, <2>1, <2>2, <4>1 DEF NoticeInv, InvoiceInv
      <4> QED BY <1>1, <1>7, <4>1, <4>2
    <3>3. CASE StoreInvoice
      <4>1. cycle' \in CycleRow /\ cycle'.step = "mail" /\ cycle'.stage = cycle.stage
            /\ cycle.step = "store" /\ UNCHANGED <<issued, lost>>
            /\ order' = [order EXCEPT !.invoice = TRUE]
        BY <1>8, <3>3 DEF StoreInvoice
      <4>2. order'.invoice = TRUE
        BY <1>1, <4>1 DEF OrderRow
      <4>3. CycleInv'
        BY <2>2, <4>1 DEF CycleInv
      <4>4. InvoiceInv'
        BY <1>1, <2>1, <2>2, <4>1, <4>2 DEF NoticeInv, InvoiceInv
      <4> QED BY <1>1, <4>1, <4>3, <4>4
    <3>4. CASE CreateAgain
      <4>1. cycle' = cycle /\ cycle.step = "issue" /\ order' = order
            /\ issued' = issued + 1 /\ lost' = lost + 1
        BY <3>4 DEF CreateAgain
      <4>2. CycleInv'
        BY <1>1, <4>1 DEF CycleInv
      <4>3. InvoiceInv'
        BY <1>1, <2>1, <2>2, <4>1 DEF NoticeInv, InvoiceInv
      <4> QED BY <1>1, <4>1, <4>2, <4>3
    <3> QED BY <1>11, <3>1, <3>2, <3>3, <3>4
  <2> QED BY <1>1, <1>5, <2>1, <2>3, <2>4
<1>12. ASSUME MailInvoice \/ MailInvoiceAgain \/ MailInvoiceFails PROVE NoticeInv'
  <2>1. /\ UNCHANGED <<order, issued, lost>> /\ cycle.step = "mail" /\ cycle.stage \in {0, 4}
        /\ order.invoice /\ sent["invoice"] <= slips["invoice"]
    BY <1>1, <1>12 DEF MailInvoice, MailInvoiceAgain, MailInvoiceFails, CycleInv, NoticeInv, InvoiceInv
  <2>2. /\ cycle' \in CycleRow /\ CycleInv' /\ cycle'.step \notin {"issue", "store"}
        /\ cycle'.step = "mail" => MailInvoiceAgain
    <3>1. CASE MailInvoice
      <4>1. cycle' \in CycleRow /\ cycle'.step = "mark" /\ cycle'.stage = cycle.stage
        BY <1>8, <3>1 DEF MailInvoice
      <4> QED BY <4>1 DEF CycleInv
    <3>2. CASE MailInvoiceFails
      BY <1>7, <3>2 DEF MailInvoiceFails
    <3>3. CASE MailInvoiceAgain
      BY <1>1, <2>1, <3>3 DEF MailInvoiceAgain, CycleInv
    <3> QED BY <1>12, <3>1, <3>2, <3>3
  <2>3. \/ sent' = [sent EXCEPT !["invoice"] = @ + 1] \/ sent' = sent
    BY <1>12 DEF MailInvoice, MailInvoiceAgain, MailInvoiceFails, Accepted, Refused, AnswerLost
  <2>4. slips' = [slips EXCEPT !["invoice"] = @ + 1] \/ slips' = slips
    BY <1>12 DEF MailInvoice, MailInvoiceAgain, MailInvoiceFails, Accepted, Refused, AnswerLost, Slip
  <2>5. MailInvoiceAgain => slips' = [slips EXCEPT !["invoice"] = @ + 1]
    BY DEF MailInvoiceAgain, AnswerLost, Slip
  <2>6. /\ sent' \in [Mails -> Nat] /\ slips' \in [Mails -> Nat]
        /\ sent'["invoice"] <= 1 + slips'["invoice"]
        /\ MailInvoiceAgain => sent'["invoice"] <= slips'["invoice"]
        /\ \A m \in Statuses : sent'[m] = sent[m] /\ slips'[m] = slips[m]
    BY <1>1, <2>1, <2>3, <2>4, <2>5, TheMails
  <2>7. ASSUME NEW m \in Statuses PROVE MailInv(m)'
    <3>1. MailInv(m) /\ (InHand(m) => InHand(m)')
      BY <1>4, <2>1 DEF NoticeInv
    <3>2. sent[m] \in Nat /\ slips[m] \in Nat
      BY <1>1, TheMails
    <3> QED BY <2>1, <2>6, <3>1, <3>2 DEF MailInv
  <2>8. InvoiceInv'
    BY <2>1, <2>2, <2>6 DEF NoticeInv, InvoiceInv
  <2> QED BY <1>1, <1>5, <2>1, <2>2, <2>6, <2>7, <2>8
<1>13. ASSUME RetryMail \/ RetryMailAgain \/ RetryMailFails PROVE NoticeInv'
  <2>1. /\ UNCHANGED <<order, issued, lost>> /\ cycle.step = "send" /\ cycle.stage \in 1..3
        /\ MailAt[cycle.stage] \notin cycle.loaded
    BY <1>1, <1>13 DEF RetryMail, RetryMailAgain, RetryMailFails, CycleInv
  <2>2. PICK m \in Statuses : m = MailAt[cycle.stage]
    BY <2>1, TheMails
  <2>3. PICK loaded \in SUBSET Mails : loaded = cycle.loaded
    BY <1>1
  <2>4. CASE RetryMail
    <3>1. cycle' \in CycleRow /\ cycle'.step = "mark" /\ cycle'.stage = cycle.stage
      BY <1>8, <2>4 DEF RetryMail
    <3>2. CycleInv'
      BY <3>1 DEF CycleInv
    <3>3. InHand(m)' /\ \A n \in Statuses : InHand(n) => InHand(n)'
      BY <1>4, <2>1, <2>2, <3>1
    <3>4. Accepted(m, loaded) /\ m \notin loaded
      BY <2>1, <2>2, <2>3, <2>4 DEF RetryMail
    <3>5. /\ sent' \in [Mails -> Nat] /\ slips' \in [Mails -> Nat]
          /\ sent'["invoice"] = sent["invoice"] /\ slips'["invoice"] >= slips["invoice"]
          /\ \A n \in Statuses : MailInv(n)'
      BY <2>1, <3>3, <3>4, AcceptedIsAccounted
    <3>6. InvoiceInv'
      BY <1>9, <2>1, <3>1, <3>5, TheMails
    <3> QED BY <1>1, <1>5, <2>1, <3>1, <3>2, <3>5, <3>6
  <2>5. CASE RetryMailAgain \/ RetryMailFails
    <3>1. cycle' \in CycleRow /\ CycleInv' /\ cycle'.step \in {"idle", "check", "send"}
      <4>1. CASE RetryMailAgain
        BY <1>1, <2>1, <4>1 DEF RetryMailAgain, CycleInv
      <4>2. CASE RetryMailFails
        BY <1>7, <4>2 DEF RetryMailFails
      <4> QED BY <2>5, <4>1, <4>2
    <3>2. \A n \in Statuses : InHand(n) => InHand(n)'
      BY <1>4, <2>1
    <3>3. Refused(m) /\ m \in Mails /\ m # "invoice"
      BY <2>2, <2>5, TheMails DEF RetryMailAgain, RetryMailFails, Refused
    <3>4. /\ sent' \in [Mails -> Nat] /\ slips' \in [Mails -> Nat]
          /\ sent'["invoice"] = sent["invoice"] /\ slips'["invoice"] >= slips["invoice"]
          /\ \A n \in Statuses : MailInv(n)'
      BY <2>1, <3>2, <3>3, RefusedIsAccounted
    <3>5. InvoiceInv'
      BY <1>9, <2>1, <3>1, <3>4, TheMails
    <3> QED BY <1>1, <1>5, <2>1, <3>1, <3>4, <3>5
  <2> QED BY <1>13, <2>4, <2>5
<1>14. ASSUME MarkInvoice \/ MarkRetried PROVE NoticeInv'
  <2>1. UNCHANGED <<sent, issued, lost>> /\ cycle.step = "mark"
    BY <1>14 DEF MarkInvoice, MarkRetried
  <2>2. PICK seen \in SUBSET Mails :
          /\ order' = [order EXCEPT !.marks = seen]
          /\ Dropped(seen)
          /\ MarkRetried => cycle.stage \in 1..3 /\ MailAt[cycle.stage] \in seen
          /\ MarkInvoice => cycle.stage \in {0, 4}
    <3>1. CASE MarkInvoice
      <4>1. cycle.seen \cup {"invoice"} \in SUBSET Mails /\ cycle.stage \notin 1..3
        BY <1>1, <3>1, TheMails DEF MarkInvoice
      <4> QED BY <3>1, <4>1 DEF MarkInvoice, Mark, MarkRetried
    <3>2. CASE MarkRetried
      <4>1. cycle.stage \in 1..3 /\ MailAt[cycle.stage] \in Mails
        BY <3>2, TheMails DEF MarkRetried
      <4>2. cycle.loaded \cup {MailAt[cycle.stage]} \in SUBSET Mails
        BY <1>1, <4>1
      <4> QED BY <3>2, <4>1, <4>2 DEF MarkInvoice, Mark, MarkRetried
    <3> QED BY <1>14, <3>1, <3>2
  <2>3. order' \in OrderRow /\ order'.marks = seen /\ order'.invoice = order.invoice
    BY <1>1, <2>2 DEF OrderRow
  <2>4. cycle' \in CycleRow /\ CycleInv' /\ cycle'.step \in {"idle", "check"}
    <3>1. CASE MarkInvoice
      BY <1>7, <3>1 DEF MarkInvoice
    <3>2. CASE MarkRetried
      <4>1. cycle.stage \in 1..3 /\ MailAt[cycle.stage] \in Mails
        BY <3>2, TheMails DEF MarkRetried
      <4>2. cycle' = [cycle EXCEPT !.stage = @ + 1, !.step = "check",
                                   !.loaded = @ \cup {MailAt[cycle.stage]}]
        BY <3>2 DEF MarkRetried
      <4>3. PICK n \in 1..4 : n = cycle.stage + 1
        BY <4>1
      <4>4. PICK loaded \in SUBSET Mails : loaded = cycle.loaded \cup {MailAt[cycle.stage]}
        BY <1>1, <4>1
      <4>5. cycle' = [stage |-> n, step |-> "check", loaded |-> loaded,
                      numbered |-> cycle.numbered, invoiced |-> cycle.invoiced,
                      seen |-> cycle.seen]
        BY <1>1, <4>2, <4>3, <4>4 DEF CycleRow
      <4>6. cycle' \in CycleRow /\ cycle'.step = "check" /\ cycle'.stage = n
        BY <1>1, <4>5 DEF CycleRow
      <4> QED BY <4>6 DEF CycleInv
    <3> QED BY <1>14, <3>1, <3>2
  <2>5. \A n \in Statuses : InHand(n) => InHand(n)' \/ n \in seen
    BY <1>4, <1>14, <2>2
  <2>6. /\ slips' \in [Mails -> Nat] /\ slips'["invoice"] >= slips["invoice"]
        /\ \A n \in Statuses : MailInv(n)'
    BY <2>1, <2>2, <2>3, <2>5, MarksAreAccounted
  <2>7. InvoiceInv'
    BY <1>9, <2>1, <2>3, <2>4, <2>6, TheMails
  <2> QED BY <1>1, <1>5, <2>1, <2>3, <2>4, <2>6, <2>7
<1>15. ASSUME KillCycle PROVE NoticeInv'
  <2>1. /\ UNCHANGED <<order, sent, issued>> /\ cycle' = Pause
        /\ lost' = lost + IF cycle.step = "store" THEN 1 ELSE 0
    BY <1>15 DEF KillCycle
  <2> DEFINE m == MailAt[cycle.stage]
  <2>2. slips' = IF cycle.step = "mark" /\ cycle.stage \in 1..3 THEN [slips EXCEPT ![m] = @ + 1]
                 ELSE slips
    BY <1>15 DEF KillCycle, Slip
  <2>3. \A n \in Statuses : InHand(n) =>
          InHand(n)' \/ (n = m /\ slips' = [slips EXCEPT ![m] = @ + 1])
    BY <1>4, <2>2
  <2>4. slips' = [slips EXCEPT ![m] = @ + 1] \/ slips' = slips
    BY <2>2
  <2> HIDE DEF m
  <2>5. /\ slips' \in [Mails -> Nat] /\ slips'["invoice"] >= slips["invoice"]
        /\ \A n \in Statuses : MailInv(n)'
    BY <2>1, <2>3, <2>4, LossIsAccounted
  <2>6. CycleInv'
    BY <1>1, <2>1 DEF CycleInv
  <2>7. InvoiceInv' /\ lost' \in Nat
    <3>1. slips'["invoice"] \in Nat
      BY <2>5, TheMails
    <3> QED BY <1>1, <2>1, <2>5, <3>1 DEF NoticeInv, InvoiceInv
  <2> QED BY <1>1, <1>5, <2>1, <2>5, <2>6, <2>7
<1> QED BY <1>10, <1>11, <1>12, <1>13, <1>14, <1>15 DEF CycleStep

LEMMA NoticeInvStep == NoticeInv /\ [Next]_vars => NoticeInv'
<1> SUFFICES ASSUME NoticeInv, [Next]_vars PROVE NoticeInv'
  OBVIOUS
<1>1. CASE Label
  <2>1. /\ UNCHANGED <<sent, issued, writer, cycle, slips, lost>>
        /\ order' = [order EXCEPT !.number = TRUE]
    BY <1>1 DEF Label
  <2>2. /\ order \in OrderRow /\ order' \in OrderRow
        /\ order'.marks = order.marks /\ order'.invoice = order.invoice
    BY <2>1 DEF NoticeInv, NoticeTypes, OrderRow
  <2>3. \A m \in Statuses : MailInv(m)'
    BY <2>1, <2>2 DEF NoticeInv, MailInv, InHand
  <2> QED BY <2>1, <2>2, <2>3 DEF NoticeInv, NoticeTypes, CycleInv, InvoiceInv, WriterInv
<1>2. CASE UNCHANGED vars
  BY <1>2 DEF vars, NoticeInv, NoticeTypes, CycleInv, InvoiceInv, WriterInv, MailInv, InHand
<1> QED BY <1>1, <1>2, CycleKeepsNotices, WritersKeepNotices DEF Next

(* Whatever fails, is killed or overlaps: the buyer gets a message once,   *)
(* and once more for each answer or mark that was lost or overtaken; one   *)
(* invoice, and one more for each whose number was not stored; and its     *)
(* message once, and once more for each answer lost in the call.           *)
(* emails_sent and wfirma_invoice_id are what the sessions agree by.       *)
THEOREM RepeatsAccounted == FairSpec => []RepeatsAreAccounted
<1>1. InitAll => NoticeInv
  BY NoticeInvInit DEF InitAll
<1>2. NoticeInv /\ [NextAll]_all => NoticeInv'
  <2> SUFFICES ASSUME NoticeInv, [NextAll]_all PROVE NoticeInv'
    OBVIOUS
  <2>1. [Next]_vars
    BY DEF NextAll, all, notices, vars
  <2> QED BY <2>1, NoticeInvStep
<1>3. NoticeInv => RepeatsAreAccounted
  <2> SUFFICES ASSUME NoticeInv PROVE RepeatsAreAccounted
    OBVIOUS
  <2>1. issued \in Nat /\ lost \in Nat /\ issued <= 1 + lost
        /\ sent["invoice"] <= 1 + slips["invoice"]
    BY DEF NoticeInv, NoticeTypes, InvoiceInv
  <2>2. ASSUME NEW m \in Statuses PROVE sent[m] <= 1 + slips[m]
    <3>1. sent[m] \in Nat /\ slips[m] \in Nat /\ MailInv(m)
      BY TheMails DEF NoticeInv, NoticeTypes
    <3> QED BY <3>1 DEF MailInv
  <2> QED BY <2>1, <2>2 DEF RepeatsAreAccounted, Mails
<1>4. FairSpec => InitAll /\ [][NextAll]_all
  BY PTL DEF FairSpec
<1> QED BY <1>1, <1>2, <1>3, <1>4, PTL

-----------------------------------------------------------------------------
(* Tokens: whoever exchanges the newest refresh token holds the next one   *)
(* until it is stored, or the history says why it may not be.              *)

SettingsRow == [refresh : Nat, access : Nat, due : Nat]
WorkRow == [step : {"idle", "call", "exchange", "store"}, offers : BOOLEAN,
            access : Nat, token : Nat]

TokenTypes ==
  /\ newest \in Nat /\ db \in SettingsRow /\ cache \in [Workers -> SettingsRow]
  /\ work \in [T!Sessions -> WorkRow]
  /\ form \in [open : BOOLEAN, refresh : Nat, access : Nat]

TokenInv == TokenTypes /\ RefreshTokenKept

LEMMA FreshType ==
  ASSUME TokenTypes, NEW w \in Workers
  PROVE  T!Fresh(w) \in SettingsRow
BY DEF TokenTypes, T!Fresh, SettingsRow

LEMMA PairType == ASSUME NEW n \in Nat PROVE T!Pair(n) \in SettingsRow /\ T!Pair(n).refresh = n
BY DEF T!Pair, SettingsRow

LEMMA SessionsOfWorkers ==
  /\ \A w \in Callers : w \in T!Sessions /\ w \in Workers /\ T!Worker(w) = w
  /\ Refresher \in T!Sessions /\ T!Worker(Refresher) = Sched /\ Sched \in Workers
  /\ \A s \in T!Sessions : T!Worker(s) \in Workers
BY TokensAssumption DEF T!Sessions, T!Worker

(* What the steps do to the settings: the tokens a reader sees change in   *)
(* its copy, never in app_settings.                                        *)
LEMMA ReadsKeepTypes ==
  ASSUME TokenTypes, NEW w \in Workers, T!Reads(w)
  PROVE  db' = db /\ cache' \in [Workers -> SettingsRow]
BY FreshType DEF TokenTypes, T!Reads

LEMMA DeleteKeepsTypes ==
  ASSUME TokenTypes, NEW w \in Workers, T!Delete(w)
  PROVE  db' \in SettingsRow /\ db'.refresh = db.refresh /\ cache' \in [Workers -> SettingsRow]
<1>1. cache[w] \in SettingsRow /\ [cache[w] EXCEPT !.access = T!NoToken] \in SettingsRow
  BY DEF TokenTypes, SettingsRow, T!NoToken
<1>2. cache' = [cache EXCEPT ![w] = [cache[w] EXCEPT !.access = T!NoToken]]
  BY DEF T!Delete
<1>3. db' \in SettingsRow /\ db'.refresh = db.refresh
  BY DEF TokenTypes, SettingsRow, T!NoToken, T!Delete
<1> QED BY <1>1, <1>2, <1>3 DEF TokenTypes

(* A step that neither rotates nor stores a token keeps the one there is.  *)
LEMMA OtherStepsKeepToken ==
  ASSUME TokenInv, newest' = newest, db' \in SettingsRow, db'.refresh = db.refresh,
         cache' \in [Workers -> SettingsRow], form' \in [open : BOOLEAN, refresh : Nat, access : Nat],
         NEW s \in T!Sessions, work' = work \/ \E row \in WorkRow : work' = [work EXCEPT ![s] = row],
         work'[s] = work[s] \/ work[s].step # "store" \/ work[s].token # newest \/ cut',
         cut => cut'
  PROVE  TokenInv'
<1>1. work' \in [T!Sessions -> WorkRow] /\ \A u \in T!Sessions \ {s} : work'[u] = work[u]
  BY DEF TokenInv, TokenTypes
<1>2. TokenTypes'
  BY <1>1 DEF TokenInv, TokenTypes
<1>3. CASE db.refresh = newest \/ cut
  BY <1>2, <1>3 DEF TokenInv, RefreshTokenKept, T!RefreshTokenKept
<1>4. CASE \E u \in T!Sessions : work[u].step = "store" /\ work[u].token = newest
  BY <1>1, <1>2, <1>4 DEF TokenInv, RefreshTokenKept, T!RefreshTokenKept
<1> QED BY <1>3, <1>4 DEF TokenInv, RefreshTokenKept, T!RefreshTokenKept

LEMMA ExchangesKeepToken ==
  ASSUME TokenInv, NEW s \in T!Sessions, T!Ends(s)
  PROVE  TokenInv'
<1>1. /\ work[s] \in WorkRow /\ work[s].token \in Nat /\ newest \in Nat
      /\ T!Worker(s) \in Workers /\ T!Idle \in WorkRow /\ T!Idle.step = "idle"
  BY SessionsOfWorkers DEF TokenInv, TokenTypes, WorkRow, T!Idle, T!NoToken
<1>2. CASE T!Exchange(s)
  <2> DEFINE row == [work[s] EXCEPT !.step = "store", !.token = newest + 1]
  <2>1. row \in WorkRow /\ row.step = "store" /\ row.token = newest + 1
    <3>1. newest + 1 \in Nat
      BY <1>1
    <3> QED BY <1>1, <3>1 DEF WorkRow
  <2>2. /\ newest' = newest + 1 /\ work' = [work EXCEPT ![s] = row]
        /\ UNCHANGED <<db, cache, form>>
    BY <1>2 DEF T!Exchange, T!Set, T!settings
  <2> HIDE DEF row
  <2>3. TokenTypes' /\ work'[s] = row
    BY <1>1, <2>1, <2>2 DEF TokenInv, TokenTypes
  <2> QED BY <2>1, <2>2, <2>3 DEF TokenInv, RefreshTokenKept, T!RefreshTokenKept
<1>3. CASE T!ExchangeFails(s)
  <2>1. /\ work[s].step = "exchange" /\ work' = [work EXCEPT ![s] = T!Idle] /\ form' = form
        /\ \/ newest' = newest /\ cut' = cut
           \/ newest' = newest + 1 /\ cut' = TRUE
        /\ T!Delete(T!Worker(s)) \/ UNCHANGED <<db, cache>>
    BY <1>3 DEF T!ExchangeFails, T!Set, T!settings
  <2>2. db' \in SettingsRow /\ db'.refresh = db.refresh /\ cache' \in [Workers -> SettingsRow]
    BY <1>1, <2>1, DeleteKeepsTypes DEF TokenInv, TokenTypes
  <2>3. form' \in [open : BOOLEAN, refresh : Nat, access : Nat]
    BY <2>1 DEF TokenInv, TokenTypes
  <2>4. CASE newest' = newest /\ cut' = cut
    BY <1>1, <2>1, <2>2, <2>3, <2>4, OtherStepsKeepToken
  <2>5. CASE newest' = newest + 1 /\ cut' = TRUE
    <3>1. TokenTypes'
      BY <1>1, <2>1, <2>2, <2>3, <2>5 DEF TokenInv, TokenTypes
    <3> QED BY <2>5, <3>1 DEF TokenInv, RefreshTokenKept, T!RefreshTokenKept
  <2> QED BY <2>1, <2>4, <2>5
<1>4. CASE T!Store(s)
  <2> DEFINE pair == T!Pair(work[s].token)
  <2>1. /\ db' = pair /\ cache' = [cache EXCEPT ![T!Worker(s)] = pair]
        /\ cut' = (work[s].token # newest) /\ work' = [work EXCEPT ![s] = T!Idle]
        /\ newest' = newest /\ form' = form
    BY <1>4 DEF T!Store, T!Write, T!Set, T!allegro
  <2>2. pair \in SettingsRow /\ pair.refresh = work[s].token
    BY <1>1, PairType
  <2> HIDE DEF pair
  <2>3. TokenTypes'
    BY <1>1, <2>1, <2>2 DEF TokenInv, TokenTypes
  <2> QED BY <2>1, <2>2, <2>3 DEF TokenInv, RefreshTokenKept, T!RefreshTokenKept
<1>5. CASE T!StoreFails(s)
  <2>1. /\ work' = [work EXCEPT ![s] = T!Idle] /\ cut' = (cut \/ work[s].token = newest)
        /\ newest' = newest /\ UNCHANGED <<db, cache, form>>
    BY <1>5 DEF T!StoreFails, T!Set, T!allegro, T!settings
  <2>2. db' \in SettingsRow /\ db'.refresh = db.refresh /\ cache' \in [Workers -> SettingsRow]
        /\ form' \in [open : BOOLEAN, refresh : Nat, access : Nat]
    BY <2>1 DEF TokenInv, TokenTypes
  <2> QED BY <1>1, <2>1, <2>2, OtherStepsKeepToken
<1> QED BY <1>2, <1>3, <1>4, <1>5 DEF T!Ends

LEMMA ReadersKeepToken ==
  ASSUME TokenInv, NEW s \in T!Sessions, NEW w \in Workers,
         \/ s = Refresher /\ w = Sched /\ (T!WakeBlind \/ T!WakeDue \/ T!WakeEarly)
         \/ s \in Callers /\ s = w /\ \/ T!Answered(w) \/ T!Unauthorized(w) \/ T!UnauthorizedOffers(w)
                                      \/ T!BeginCall(w, TRUE) \/ T!BeginCall(w, FALSE)
                                      \/ T!BeginWithout(w)
  PROVE  TokenInv'
<1>1. /\ work[s] \in WorkRow /\ T!Idle \in WorkRow /\ T!Fresh(w) \in SettingsRow
      /\ T!Fresh(w).refresh \in Nat /\ T!Fresh(w).access \in Nat
      /\ db \in SettingsRow /\ db.access \in Nat /\ db.refresh \in Nat
      /\ cache \in [Workers -> SettingsRow]
      /\ form \in [open : BOOLEAN, refresh : Nat, access : Nat]
  BY FreshType DEF TokenInv, TokenTypes, WorkRow, SettingsRow, T!Idle, T!NoToken
<1>2. newest' = newest /\ cut' = cut /\ form' = form /\ db' = db
  BY DEF T!WakeBlind, T!WakeDue, T!WakeEarly, T!Answered, T!Unauthorized, T!UnauthorizedOffers,
         T!BeginCall, T!BeginWithout, T!allegro, T!settings, T!Reads
<1>3. cache' \in [Workers -> SettingsRow]
  <2>1. \/ T!Reads(w) \/ cache' = cache \/ cache' = [cache EXCEPT ![w] = db]
    BY DEF T!WakeBlind, T!WakeDue, T!WakeEarly, T!Answered, T!Unauthorized, T!UnauthorizedOffers,
           T!BeginCall, T!BeginWithout, T!settings
  <2> QED BY <1>1, <2>1, ReadsKeepTypes DEF TokenInv
<1>4. /\ work' = work \/ \E row \in WorkRow : work' = [work EXCEPT ![s] = row]
      /\ work' = work \/ work[s].step # "store"
  <2>1. CASE T!WakeDue /\ s = Refresher /\ w = Sched
    <3>1. [T!Idle EXCEPT !.step = "exchange", !.token = T!Fresh(w).refresh] \in WorkRow
      BY <1>1 DEF WorkRow
    <3> QED BY <2>1, <3>1 DEF T!WakeDue, T!Set
  <2>2. CASE T!WakeBlind \/ T!WakeEarly
    BY <2>2 DEF T!WakeBlind, T!WakeEarly
  <2>3. CASE s = w /\ T!Answered(w)
    BY <1>1, <2>3 DEF T!Answered, T!Set
  <2>4. CASE s = w /\ T!Unauthorized(w)
    <3>1. [work[s] EXCEPT !.step = "exchange"] \in WorkRow
      BY <1>1 DEF WorkRow
    <3> QED BY <2>4, <3>1 DEF T!Unauthorized, T!Set
  <2>5. CASE s = w /\ T!UnauthorizedOffers(w)
    <3>1. [work[s] EXCEPT !.step = "exchange"] \in WorkRow
          /\ [work[s] EXCEPT !.access = db.access, !.token = db.refresh] \in WorkRow
      BY <1>1 DEF WorkRow
    <3> QED BY <2>5, <3>1 DEF T!UnauthorizedOffers, T!Set
  <2>6. CASE s = w /\ (T!BeginCall(w, TRUE) \/ T!BeginCall(w, FALSE))
    <3>1. \A offers \in BOOLEAN :
            [step |-> "call", offers |-> offers, access |-> T!Fresh(w).access,
             token |-> T!Fresh(w).refresh] \in WorkRow
      BY <1>1 DEF WorkRow
    <3> QED BY <2>6, <3>1 DEF T!BeginCall, T!Set
  <2>7. CASE s = w /\ T!BeginWithout(w)
    <3>1. [T!Idle EXCEPT !.step = "exchange", !.token = T!Fresh(w).refresh] \in WorkRow
      BY <1>1 DEF WorkRow
    <3> QED BY <2>7, <3>1 DEF T!BeginWithout, T!Set
  <2> QED BY <2>1, <2>2, <2>3, <2>4, <2>5, <2>6, <2>7
<1> QED BY <1>1, <1>2, <1>3, <1>4, OtherStepsKeepToken

LEMMA WorkersKeepToken ==
  ASSUME TokenInv, NEW w \in Workers,
         T!WriteOther(w) \/ T!OpenForm(w) \/ T!SaveForm(w) \/ T!Authorize(w) \/ T!Kill(w)
  PROVE  TokenInv'
<1> DEFINE c == T!Fresh(w)
<1>1. /\ c \in SettingsRow /\ c.refresh \in Nat /\ c.access \in Nat
      /\ db \in SettingsRow /\ db.access \in Nat /\ db.refresh \in Nat /\ db.due \in Nat
      /\ cache \in [Workers -> SettingsRow] /\ newest \in Nat
      /\ form \in [open : BOOLEAN, refresh : Nat, access : Nat]
      /\ form.refresh \in Nat /\ form.access \in Nat
  BY FreshType DEF TokenInv, TokenTypes, SettingsRow
<1>2. Refresher \in T!Sessions
  BY SessionsOfWorkers
<1>3. CASE T!WriteOther(w)
  <2>1. /\ db' = db /\ cache' = [cache EXCEPT ![w] = cache[w]]
        /\ UNCHANGED <<newest, work, form, cut>>
    BY <1>3 DEF T!WriteOther, T!Write, T!allegro
  <2>2. cache' \in [Workers -> SettingsRow]
    BY <1>1, <2>1
  <2> QED BY <1>1, <1>2, <2>1, <2>2, OtherStepsKeepToken
<1>4. CASE T!OpenForm(w)
  <2>1. /\ T!Reads(w) /\ UNCHANGED <<newest, work, cut>>
        /\ form' = [open |-> TRUE, refresh |-> c.refresh, access |-> c.access]
    BY <1>4 DEF T!OpenForm, T!allegro
  <2>2. db' = db /\ cache' \in [Workers -> SettingsRow]
    BY <2>1, ReadsKeepTypes DEF TokenInv
  <2>3. form' \in [open : BOOLEAN, refresh : Nat, access : Nat]
    BY <1>1, <2>1
  <2> QED BY <1>1, <1>2, <2>1, <2>2, <2>3, OtherStepsKeepToken
<1>5. CASE T!SaveForm(w)
  <2> DEFINE shown == [c EXCEPT !.refresh = form.refresh, !.access = form.access]
             saved == [refresh |-> IF shown.refresh # c.refresh THEN shown.refresh ELSE db.refresh,
                       access |-> IF shown.access # c.access THEN shown.access ELSE db.access,
                       due |-> db.due]
  <2>1. /\ T!Reads(w) \/ (db' = saved /\ cache' = [cache EXCEPT ![w] = shown])
        /\ cut' = (cut \/ shown.refresh # c.refresh)
        /\ form' = [form EXCEPT !.open = FALSE] /\ UNCHANGED <<newest, work>>
    BY <1>5 DEF T!SaveForm, T!Write, T!allegro
  <2>2. shown \in SettingsRow /\ shown.refresh \in Nat /\ shown.access \in Nat
    BY <1>1 DEF SettingsRow
  <2> HIDE DEF c, shown
  <2>3. saved \in SettingsRow /\ saved.refresh = IF shown.refresh # c.refresh THEN shown.refresh
                                                 ELSE db.refresh
    BY <1>1, <2>2 DEF SettingsRow
  <2> HIDE DEF saved
  <2>4. /\ db' \in SettingsRow /\ cache' \in [Workers -> SettingsRow]
        /\ db'.refresh = db.refresh \/ shown.refresh # c.refresh
    <3>1. CASE T!Reads(w)
      BY <1>1, <3>1, ReadsKeepTypes DEF TokenInv
    <3>2. CASE db' = saved /\ cache' = [cache EXCEPT ![w] = shown]
      BY <1>1, <2>2, <2>3, <3>2
    <3> QED BY <2>1, <3>1, <3>2
  <2>5. form' \in [open : BOOLEAN, refresh : Nat, access : Nat]
    BY <1>1, <2>1
  <2>6. CASE shown.refresh = c.refresh
    BY <1>2, <2>1, <2>4, <2>5, <2>6, OtherStepsKeepToken
  <2>7. CASE shown.refresh # c.refresh
    <3>1. TokenTypes' /\ cut'
      BY <2>1, <2>4, <2>5, <2>7 DEF TokenInv, TokenTypes
    <3> QED BY <3>1 DEF TokenInv, RefreshTokenKept, T!RefreshTokenKept
  <2> QED BY <2>6, <2>7
<1>6. CASE T!Authorize(w)
  <2> DEFINE pair == T!Pair(newest + 1)
  <2>1. /\ newest' = newest + 1 /\ db' = pair /\ cache' = [cache EXCEPT ![w] = pair]
        /\ UNCHANGED <<work, form>>
    BY <1>6 DEF T!Authorize, T!Write
  <2>2. pair \in SettingsRow /\ pair.refresh = newest + 1
    <3>1. newest + 1 \in Nat
      BY <1>1
    <3> QED BY <3>1, PairType
  <2> HIDE DEF pair
  <2>3. TokenTypes'
    BY <1>1, <2>1, <2>2 DEF TokenInv, TokenTypes
  <2> QED BY <2>1, <2>2, <2>3 DEF TokenInv, RefreshTokenKept, T!RefreshTokenKept
<1>7. CASE T!Kill(w)
  <2> DEFINE its == {s \in T!Sessions : T!Worker(s) = w}
  <2>1. /\ work' = [s \in T!Sessions |-> IF s \in its THEN T!Idle ELSE work[s]]
        /\ cache' = [cache EXCEPT ![w] = db] /\ UNCHANGED <<db, newest, form>>
        /\ cut' = (cut \/ \E s \in its : work[s].step = "store" /\ work[s].token = newest)
    BY <1>7 DEF T!Kill, T!allegro
  <2>2. T!Idle \in WorkRow
    BY DEF T!Idle, WorkRow, T!NoToken
  <2>3. TokenTypes'
    <3>1. work' \in [T!Sessions -> WorkRow]
      BY <2>1, <2>2 DEF TokenInv, TokenTypes
    <3> QED BY <1>1, <2>1, <3>1 DEF TokenInv, TokenTypes
  <2> QED BY <2>1, <2>3 DEF TokenInv, RefreshTokenKept, T!RefreshTokenKept
<1> QED BY <1>3, <1>4, <1>5, <1>6, <1>7

LEMMA TokenInvStep == TokenInv /\ [T!Next]_tokens => TokenInv'
<1> SUFFICES ASSUME TokenInv, [T!Next]_tokens PROVE TokenInv'
  OBVIOUS
<1>1. CASE T!RefresherStep
  BY <1>1, SessionsOfWorkers, ExchangesKeepToken, ReadersKeepToken DEF T!RefresherStep
<1>2. ASSUME NEW w \in Callers,
             T!CallStep(w) \/ T!BeginCall(w, TRUE) \/ T!BeginCall(w, FALSE) \/ T!BeginWithout(w)
      PROVE  TokenInv'
  <2>1. w \in T!Sessions /\ w \in Workers
    BY SessionsOfWorkers
  <2> QED BY <1>2, <2>1, ExchangesKeepToken, ReadersKeepToken DEF T!CallStep
<1>3. CASE T!Expire \/ UNCHANGED tokens
  BY <1>3 DEF T!Expire, T!settings, T!alarm, tokens, TokenInv, TokenTypes, RefreshTokenKept,
              T!RefreshTokenKept
<1> QED BY <1>1, <1>2, <1>3, WorkersKeepToken DEF T!Next

(* Whoever refreshes, from whatever copy of the settings, in whichever     *)
(* worker: the refresh token that Allegro accepts is stored or on its way  *)
(* to the store, unless an exchange was cut off in between, a form put an  *)
(* older one back or an authorisation was overtaken.                       *)
THEOREM NewestTokenKept == FairSpec => []RefreshTokenKept
<1>1. InitAll => TokenInv
  <2> SUFFICES ASSUME T!Init PROVE TokenInv
    BY DEF InitAll
  <2>1. db \in SettingsRow /\ db.refresh = newest /\ T!Idle \in WorkRow
    BY DEF T!Init, T!Pair, SettingsRow, WorkRow, T!Idle, T!NoToken
  <2>2. form \in [open : BOOLEAN, refresh : Nat, access : Nat]
    BY DEF T!Init, T!NoToken
  <2> QED BY <2>1, <2>2 DEF T!Init, TokenInv, TokenTypes, RefreshTokenKept, T!RefreshTokenKept
<1>2. TokenInv /\ [NextAll]_all => TokenInv'
  <2> SUFFICES ASSUME TokenInv, [NextAll]_all PROVE TokenInv'
    OBVIOUS
  <2>1. [T!Next]_tokens
    BY DEF NextAll, all
  <2> QED BY <2>1, TokenInvStep
<1>3. TokenInv => RefreshTokenKept
  BY DEF TokenInv
<1>4. FairSpec => InitAll /\ [][NextAll]_all
  BY PTL DEF FairSpec
<1> QED BY <1>1, <1>2, <1>3, <1>4, PTL

-----------------------------------------------------------------------------
(* Price reports: a thread leaves no more offers unchecked than its        *)
(* remaining batches hold, but for what the history excuses.               *)

ReportRow == [kind : P!Kinds, error : BOOLEAN]
JobRow == [report : 0..MaxReports, step : {"idle", "mark", "fetch", "check", "end", "notify"},
           left : Int, batch : SUBSET Offers]

ReportTypes ==
  /\ status \in [P!Reports -> {"none", "pending", "running", "completed", "completed_with_errors"}]
  /\ rows \in [P!Reports -> [Offers -> ReportRow]]
  /\ active \in SUBSET Offers /\ resume \in SUBSET P!Reports
  /\ excuse \in [P!Reports -> Nat]
  /\ job \in [Procs -> JobRow]
  /\ \A p \in Procs : job[p].step # "idle" => job[p].report \in P!Reports

(* the offers with a row, or in the hands of a thread                      *)
Touched(r) == P!Checked(r) \cup UNION {job[p].batch : p \in {q \in Procs : job[q].report = r}}

(* how many offers the batches to come hold                                *)
Quota(j) ==
  IF j.step \in {"mark", "fetch"} THEN BatchSize * j.left
  ELSE IF j.step = "check" THEN BatchSize * (j.left - 1) ELSE 0

ThreadGap(p, r) ==
  /\ job[p].step \in {"mark", "fetch", "check"} => job[p].left >= 1
  /\ job[p].step # "check" => job[p].batch = {}
  /\ Cardinality(job[p].batch) <= BatchSize
  /\ job[p].step \in {"mark", "fetch", "check", "end"} =>
       Cardinality(P!Unchecked(r) \ job[p].batch) <= excuse[r] + Quota(job[p])

GapInv(r) ==
  /\ status[r] = "none" => P!Checked(r) = {} /\ \A p \in Procs : job[p].report # r
  /\ Cardinality(Touched(r) \ active) <= excuse[r]
  /\ P!Done(r) => Cardinality(P!Unchecked(r)) <= excuse[r]
  /\ \A p \in Procs : job[p].report = r => ThreadGap(p, r)

ReportInv == ReportTypes /\ \A r \in P!Reports : GapInv(r)

(* the cardinality that PriceReports speaks of is the one of FiniteSets    *)
LEMMA SameSize == \A S : P!Cardinality(S) = Cardinality(S)
BY DEF P!Cardinality, Cardinality

LEMMA OfferSets ==
  ASSUME NEW A \in SUBSET Offers
  PROVE  IsFiniteSet(A) /\ Cardinality(A) \in Nat
BY ReportsAssumption, FS_Subset, FS_CardinalityType

LEMMA Grows ==
  ASSUME NEW A \in SUBSET Offers, NEW X \in SUBSET Offers, NEW B, B \subseteq A \cup X,
         NEW n \in Int, Cardinality(A) <= n, NEW m \in Int, n + Cardinality(X) <= m
  PROVE  Cardinality(B) <= m
<1>1. /\ IsFiniteSet(A) /\ IsFiniteSet(X) /\ IsFiniteSet(A \cup X) /\ IsFiniteSet(B)
      /\ Cardinality(A) \in Nat /\ Cardinality(X) \in Nat /\ Cardinality(B) \in Nat
      /\ Cardinality(A \cap X) \in Nat
  BY OfferSets
<1>2. Cardinality(A \cup X) = Cardinality(A) + Cardinality(X) - Cardinality(A \cap X)
  BY <1>1, FS_Union
<1>3. Cardinality(B) <= Cardinality(A \cup X)
  BY <1>1, FS_Subset
<1> QED BY <1>1, <1>2, <1>3

LEMMA ReportSets ==
  ASSUME ReportTypes, NEW r \in P!Reports
  PROVE  /\ P!Checked(r) \in SUBSET Offers /\ P!Unchecked(r) \in SUBSET Offers
         /\ Touched(r) \in SUBSET Offers /\ r # 0
<1>1. \A p \in Procs : job[p] \in JobRow /\ job[p].batch \in SUBSET Offers
  BY DEF ReportTypes, JobRow
<1> QED BY <1>1 DEF ReportTypes, P!Checked, P!Unchecked, Touched, P!Reports

(* What happens to a report when X offers of it may lose their rows and Y  *)
(* offers may be held that are not active, and this is excused.            *)
LEMMA GapKept ==
  ASSUME ReportTypes, ReportTypes', NEW r \in P!Reports, GapInv(r),
         NEW X \in SUBSET Offers, P!Unchecked(r)' \subseteq P!Unchecked(r) \cup X,
         NEW Y \in SUBSET Offers, (Touched(r) \ active)' \subseteq (Touched(r) \ active) \cup Y,
         excuse'[r] >= excuse[r] + Cardinality(X), excuse'[r] >= excuse[r] + Cardinality(Y),
         \A p \in Procs : job'[p].report = r => job'[p] = job[p] \/ ThreadGap(p, r)',
         P!Done(r)' => P!Done(r) \/ Cardinality(P!Unchecked(r)') <= excuse'[r],
         status'[r] = "none" => P!Checked(r)' = {} /\ \A p \in Procs : job'[p].report # r
  PROVE  GapInv(r)'
<1>1. /\ excuse[r] \in Nat /\ excuse'[r] \in Nat /\ Cardinality(X) \in Nat /\ Cardinality(Y) \in Nat
      /\ P!Unchecked(r) \in SUBSET Offers /\ Touched(r) \ active \in SUBSET Offers
  BY ReportSets, OfferSets DEF ReportTypes
<1>2. Cardinality((Touched(r) \ active)') <= excuse'[r]
  <2>1. PICK A \in SUBSET Offers : A = Touched(r) \ active
    BY <1>1
  <2>2. Cardinality(A) <= excuse[r]
    BY <2>1 DEF GapInv
  <2> QED BY <1>1, <2>1, <2>2, Grows
<1>3. P!Done(r)' => Cardinality(P!Unchecked(r)') <= excuse'[r]
  <2> SUFFICES ASSUME P!Done(r) PROVE Cardinality(P!Unchecked(r)') <= excuse'[r]
    OBVIOUS
  <2>1. PICK A \in SUBSET Offers : A = P!Unchecked(r)
    BY <1>1
  <2>2. Cardinality(A) <= excuse[r]
    BY <2>1 DEF GapInv
  <2> QED BY <1>1, <2>1, <2>2, Grows
<1>4. ASSUME NEW p \in Procs, job'[p].report = r, job'[p] = job[p] PROVE ThreadGap(p, r)'
  <2>1. ThreadGap(p, r) /\ job[p] \in JobRow /\ job[p].left \in Int
    BY <1>4 DEF GapInv, ReportTypes, JobRow
  <2>2. ASSUME job[p].step \in {"mark", "fetch", "check", "end"}
        PROVE  Cardinality(P!Unchecked(r)' \ job[p].batch) <= excuse'[r] + Quota(job[p])
    <3>1. PICK A \in SUBSET Offers : A = P!Unchecked(r) \ job[p].batch
      BY <1>1
    <3>2. PICK q \in Int : q = Quota(job[p])
      BY <2>1, ReportsAssumption DEF Quota
    <3>3. Cardinality(A) <= excuse[r] + q
      BY <2>1, <2>2, <3>1, <3>2 DEF ThreadGap
    <3>4. P!Unchecked(r)' \ job[p].batch \subseteq A \cup X
      BY <3>1
    <3>5. (excuse[r] + q) + Cardinality(X) <= excuse'[r] + q
          /\ excuse[r] + q \in Int /\ excuse'[r] + q \in Int
      BY <1>1
    <3> DEFINE B == P!Unchecked(r)' \ job[p].batch
               n == excuse[r] + q
               m == excuse'[r] + q
    <3>6. B \subseteq A \cup X /\ n \in Int /\ m \in Int /\ Cardinality(A) <= n
          /\ n + Cardinality(X) <= m
      BY <3>3, <3>4, <3>5
    <3> HIDE DEF B, n, m
    <3>7. Cardinality(B) <= m
      BY <3>6, Grows
    <3> QED BY <3>2, <3>7 DEF B, m
  <2>3. job'[p] = job[p]
    BY <1>4
  <2>4. Quota(job[p])' = Quota(job[p])
    BY <2>3 DEF Quota
  <2> QED BY <2>1, <2>2, <2>3, <2>4 DEF ThreadGap
<1> QED BY <1>2, <1>3, <1>4 DEF GapInv

(* A report that nobody new works on and that keeps its rows.              *)
LEMMA SameGap ==
  ASSUME ReportTypes, ReportTypes', NEW r \in P!Reports, GapInv(r), active' = active,
         P!Checked(r)' = P!Checked(r), status'[r] = status[r], excuse'[r] >= excuse[r],
         \A p \in Procs : job'[p] = job[p] \/ job'[p].report # r
  PROVE  GapInv(r)'
<1>1. P!Unchecked(r)' = P!Unchecked(r) /\ (P!Done(r)' <=> P!Done(r))
  BY DEF P!Unchecked, P!Done
<1>2. Touched(r)' \subseteq Touched(r)
  BY DEF Touched
<1>3. {} \in SUBSET Offers /\ Cardinality({}) = 0 /\ excuse[r] \in Nat /\ excuse'[r] \in Nat
  BY FS_EmptySet DEF ReportTypes
<1>4. status'[r] = "none" => P!Checked(r)' = {} /\ \A p \in Procs : job'[p].report # r
  BY DEF GapInv
<1> QED BY <1>1, <1>2, <1>3, <1>4, GapKept

(* A thread goes on with its report, or leaves it.                         *)
LEMMA ThreadKeeps ==
  ASSUME ReportInv, ReportTypes', NEW p \in Procs, NEW r \in P!Reports, job[p].report = r,
         NEW next, job' = [job EXCEPT ![p] = next], next.report \in {0, r},
         active' = active, P!Checked(r) \subseteq P!Checked(r)',
         NEW Y \in SUBSET Offers, (Touched(r) \ active)' \subseteq (Touched(r) \ active) \cup Y,
         excuse'[r] >= excuse[r] + Cardinality(Y),
         \A q \in P!Reports \ {r} :
           rows'[q] = rows[q] /\ status'[q] = status[q] /\ excuse'[q] = excuse[q],
         status'[r] # "none",
         P!Done(r)' => P!Done(r) \/ Cardinality(P!Unchecked(r)') <= excuse'[r],
         next.report = 0 \/ ThreadGap(p, r)'
  PROVE  ReportInv'
<1>1. job'[p] = next /\ \A q \in Procs \ {p} : job'[q] = job[q]
  BY DEF ReportInv, ReportTypes
<1>2. ASSUME NEW q \in P!Reports, q # r PROVE GapInv(q)'
  <2>1. P!Checked(q)' = P!Checked(q)
    BY <1>2 DEF P!Checked
  <2>2. \A u \in Procs : job'[u] = job[u] \/ job'[u].report # q
    BY <1>1, <1>2 DEF P!Reports
  <2>3. excuse[q] \in Nat
    BY DEF ReportInv, ReportTypes
  <2> QED BY <1>2, <2>1, <2>2, <2>3, SameGap DEF ReportInv
<1>3. GapInv(r)'
  <2>1. {} \in SUBSET Offers /\ Cardinality({}) = 0 /\ Cardinality(Y) \in Nat
        /\ excuse[r] \in Nat /\ excuse'[r] \in Nat
    BY FS_EmptySet, OfferSets DEF ReportInv, ReportTypes
  <2>2. P!Unchecked(r)' \subseteq P!Unchecked(r) \cup {}
    BY DEF P!Unchecked
  <2>3. \A u \in Procs : job'[u].report = r => job'[u] = job[u] \/ ThreadGap(u, r)'
    <3>1. r # 0
      BY ReportSets DEF ReportInv
    <3> QED BY <1>1, <3>1
  <2>4. excuse'[r] >= excuse[r] + Cardinality({})
    BY <2>1
  <2> QED BY <2>1, <2>2, <2>3, <2>4, GapKept DEF ReportInv
<1> QED BY <1>2, <1>3 DEF ReportInv

LEMMA JobTypes ==
  ASSUME ReportTypes, NEW p \in Procs, NEW next \in JobRow,
         next.step # "idle" => next.report \in P!Reports, job' = [job EXCEPT ![p] = next]
  PROVE  /\ job' \in [Procs -> JobRow] /\ job'[p] = next
         /\ \A q \in Procs : job'[q].step # "idle" => job'[q].report \in P!Reports
BY DEF ReportTypes

(* a thread that works is at a report of its own *)
LEMMA AtReport ==
  ASSUME ReportInv, NEW p \in Procs, job[p].step # "idle"
  PROVE  \E r \in P!Reports :
           /\ r = job[p].report /\ ThreadGap(p, r) /\ status[r] # "none" /\ GapInv(r)
           /\ job[p] \in JobRow /\ job[p].batch \in SUBSET Offers /\ job[p].left \in Int
           /\ excuse[r] \in Nat /\ rows[r] \in [Offers -> ReportRow]
           /\ job[p].batch \subseteq Touched(r)
<1>1. job[p] \in JobRow /\ job[p].report \in P!Reports
  BY DEF ReportInv, ReportTypes
<1>2. PICK r \in P!Reports : r = job[p].report
  BY <1>1
<1>3. job[p].batch \in SUBSET Offers /\ job[p].left \in Int
  BY <1>1 DEF JobRow
<1>4. GapInv(r) /\ excuse[r] \in Nat /\ rows[r] \in [Offers -> ReportRow]
  BY DEF ReportInv, ReportTypes
<1>5. status[r] # "none" /\ ThreadGap(p, r)
  BY <1>2, <1>4 DEF GapInv
<1>6. job[p].batch \subseteq Touched(r)
  BY <1>2 DEF Touched
<1> QED BY <1>1, <1>2, <1>3, <1>4, <1>5, <1>6

LEMMA MarkKeepsGaps ==
  ASSUME ReportInv, NEW p \in Procs, P!Mark(p) \/ P!MarkFails(p)
  PROVE  ReportInv'
<1>1. job[p].step = "mark"
  BY DEF P!Mark, P!MarkFails, P!At
<1>2. PICK r \in P!Reports :
        /\ r = job[p].report /\ ThreadGap(p, r) /\ status[r] # "none" /\ GapInv(r)
        /\ job[p] \in JobRow /\ job[p].batch \in SUBSET Offers /\ job[p].left \in Int
        /\ excuse[r] \in Nat /\ rows[r] \in [Offers -> ReportRow]
        /\ job[p].batch \subseteq Touched(r)
  BY <1>1, AtReport
<1> DEFINE next == [job[p] EXCEPT !.step = "fetch"]
           dear == {o \in P!Unchecked(r) : Cheaper[o] \cap active # {}}
           marked == [o \in Offers |-> IF o \in dear THEN P!Row("sibling", FALSE) ELSE rows[r][o]]
<1>3. next \in JobRow /\ next.report = r /\ next.step = "fetch" /\ next.left = job[p].left
      /\ next.batch = job[p].batch
  BY <1>2 DEF JobRow
<1>4. /\ job' = [job EXCEPT ![p] = next] /\ UNCHANGED <<active, resume, excuse>>
      /\ rows' = rows \/ rows' = [rows EXCEPT ![r] = marked]
      /\ status' = status \/ status' = [status EXCEPT ![r] = "running"]
  BY <1>2 DEF P!Mark, P!MarkFails, P!Set, P!history
<1> HIDE DEF next
<1>5. P!Row("sibling", FALSE) \in ReportRow /\ P!Row("sibling", FALSE).kind = "sibling"
  BY DEF P!Row, P!Kinds, ReportRow
<1>6. /\ marked \in [Offers -> ReportRow]
      /\ \A o \in Offers : IF o \in dear THEN marked[o].kind = "sibling" ELSE marked[o] = rows[r][o]
  BY <1>2, <1>5
<1>7. dear \subseteq active
  BY DEF P!Unchecked
<1> HIDE DEF dear, marked
<1>8. ReportTypes' /\ job'[p] = next
  <2>1. /\ job' \in [Procs -> JobRow] /\ job'[p] = next
        /\ \A q \in Procs : job'[q].step # "idle" => job'[q].report \in P!Reports
    BY <1>3, <1>4, JobTypes DEF ReportInv
  <2>2. rows' \in [P!Reports -> [Offers -> ReportRow]]
    BY <1>4, <1>6 DEF ReportInv, ReportTypes
  <2>3. status' \in [P!Reports -> {"none", "pending", "running", "completed", "completed_with_errors"}]
    BY <1>4 DEF ReportInv, ReportTypes
  <2> QED BY <1>4, <2>1, <2>2, <2>3 DEF ReportInv, ReportTypes
<1>9. /\ rows'[r] = rows[r] \/ rows'[r] = marked
      /\ \A q \in P!Reports \ {r} : rows'[q] = rows[q] /\ status'[q] = status[q] /\ excuse'[q] = excuse[q]
      /\ status'[r] \in {status[r], "running"}
  BY <1>4 DEF ReportInv, ReportTypes
<1>10. P!Checked(r) \subseteq P!Checked(r)' /\ P!Checked(r)' \subseteq P!Checked(r) \cup dear
  <2>1. ASSUME NEW o \in Offers
        PROVE  rows'[r][o] = rows[r][o] \/ (o \in dear /\ rows'[r][o].kind = "sibling")
    <3>1. CASE rows'[r] = rows[r]
      BY <3>1
    <3>2. CASE rows'[r] = marked
      <4>1. rows'[r][o] = marked[o]
        BY <3>2
      <4> QED BY <1>6, <4>1
    <3> QED BY <1>9, <3>1, <3>2
  <2> QED BY <2>1 DEF P!Checked
<1>11. P!Unchecked(r)' \subseteq P!Unchecked(r)
  BY <1>4, <1>10 DEF P!Unchecked
<1>12. \A q \in Procs : job'[q].report = job[q].report /\ job'[q].batch = job[q].batch
  BY <1>2, <1>3, <1>4, <1>8 DEF ReportInv, ReportTypes
<1>13. (Touched(r) \ active)' \subseteq (Touched(r) \ active) \cup {}
  BY <1>4, <1>7, <1>10, <1>12 DEF Touched
<1>14. ThreadGap(p, r)'
  <2>1. PICK A \in SUBSET Offers : A = P!Unchecked(r) \ job[p].batch
    BY <1>2, ReportSets DEF ReportInv
  <2>2. PICK n \in Int : n = excuse[r] + BatchSize * job[p].left
    BY <1>2, ReportsAssumption
  <2>3. Cardinality(A) <= n
    BY <1>1, <1>2, <2>1, <2>2 DEF ThreadGap, Quota
  <2>4. Cardinality(P!Unchecked(r)' \ job[p].batch) <= n
    <3>1. {} \in SUBSET Offers /\ n + Cardinality({}) <= n
      BY FS_EmptySet
    <3>2. P!Unchecked(r)' \ job[p].batch \subseteq A \cup {}
      BY <1>11, <2>1
    <3> DEFINE B == P!Unchecked(r)' \ job[p].batch
    <3> HIDE DEF B
    <3>3. Cardinality(B) <= n
      BY <2>3, <3>1, <3>2, Grows DEF B
    <3> QED BY <3>3 DEF B
  <2>5. Quota(next) = BatchSize * job[p].left
    BY <1>3 DEF Quota
  <2> QED BY <1>1, <1>2, <1>3, <1>4, <1>8, <2>2, <2>4, <2>5 DEF ThreadGap, Quota
<1>15. P!Done(r)' => P!Done(r)
  BY <1>9 DEF P!Done
<1>16. {} \in SUBSET Offers /\ excuse'[r] >= excuse[r] + Cardinality({})
  BY <1>2, <1>4, FS_EmptySet
<1> QED BY <1>2, <1>3, <1>4, <1>8, <1>9, <1>10, <1>13, <1>14, <1>15, <1>16, ThreadKeeps

(* A thread takes a step of its own that leaves the rows alone.            *)
LEMMA ThreadTurns ==
  ASSUME ReportInv, NEW p \in Procs, NEW r \in P!Reports, job[p].report = r,
         NEW next \in JobRow, job' = [job EXCEPT ![p] = next], next.report \in {0, r},
         next.step # "idle" => next.report = r, next.batch \subseteq job[p].batch \cup active,
         UNCHANGED <<rows, active, resume>>,
         excuse' \in [P!Reports -> Nat], excuse'[r] >= excuse[r],
         status' \in [P!Reports -> {"none", "pending", "running", "completed", "completed_with_errors"}],
         \A q \in P!Reports \ {r} : status'[q] = status[q] /\ excuse'[q] = excuse[q],
         status'[r] # "none",
         P!Done(r)' => P!Done(r) \/ Cardinality(P!Unchecked(r)) <= excuse'[r],
         next.report = 0 \/ ThreadGap(p, r)'
  PROVE  ReportInv'
<1>1. /\ job' \in [Procs -> JobRow] /\ job'[p] = next
      /\ \A q \in Procs : job'[q].step # "idle" => job'[q].report \in P!Reports
  BY JobTypes DEF ReportInv
<1>2. ReportTypes'
  BY <1>1 DEF ReportInv, ReportTypes
<1>3. P!Checked(r)' = P!Checked(r) /\ P!Unchecked(r)' = P!Unchecked(r)
  BY DEF P!Checked, P!Unchecked
<1>4. \A q \in Procs : /\ q # p => job'[q] = job[q]
                       /\ q = p => job'[q] = next
  BY <1>1 DEF ReportInv, ReportTypes
<1>5. (Touched(r) \ active)' \subseteq (Touched(r) \ active) \cup {}
  <2>1. \A q \in Procs : job'[q].report = r =>
          job[q].report = r /\ job'[q].batch \subseteq job[q].batch \cup active
    BY <1>4
  <2>2. P!Checked(r)' = P!Checked(r) /\ active' = active
    BY <1>3
  <2> QED BY <2>1, <2>2 DEF Touched
<1>6. {} \in SUBSET Offers /\ Cardinality({}) = 0 /\ excuse[r] \in Nat /\ excuse'[r] \in Nat
  BY FS_EmptySet DEF ReportInv, ReportTypes
<1>7. excuse'[r] >= excuse[r] + Cardinality({})
  BY <1>6
<1>8. /\ P!Checked(r) \subseteq P!Checked(r)' /\ active' = active
      /\ \A q \in P!Reports \ {r} :
           rows'[q] = rows[q] /\ status'[q] = status[q] /\ excuse'[q] = excuse[q]
  BY <1>3
<1>9. P!Done(r)' => P!Done(r) \/ Cardinality(P!Unchecked(r)') <= excuse'[r]
  BY <1>3
<1>10. PICK Y \in SUBSET Offers : Y = {}
  OBVIOUS
<1>11. (Touched(r) \ active)' \subseteq (Touched(r) \ active) \cup Y /\ excuse'[r] >= excuse[r] + Cardinality(Y)
  BY <1>5, <1>7, <1>10
<1>12. CASE next.report = 0
  BY <1>2, <1>8, <1>9, <1>11, <1>12, ThreadKeeps
<1>13. CASE ThreadGap(p, r)'
  BY <1>2, <1>8, <1>9, <1>11, <1>13, ThreadKeeps
<1> QED BY <1>12, <1>13

(* What becomes of the thread's record.                                    *)
LEMMA CheckingIs ==
  ASSUME NEW p \in Procs, job[p] \in JobRow, NEW b \in SUBSET Offers
  PROVE  /\ P!Checking(p, b) \in JobRow /\ P!Checking(p, b).report = job[p].report
         /\ P!Checking(p, b).step = "check" /\ P!Checking(p, b).left = job[p].left
         /\ P!Checking(p, b).batch = b
<1>1. PICK j \in JobRow : j = job[p]
  OBVIOUS
<1>2. PICK k : k = [j EXCEPT !.step = "check", !.batch = b]
  OBVIOUS
<1>3. P!Checking(p, b) = k
  BY <1>1, <1>2 DEF P!Checking
<1>4. /\ k \in JobRow /\ k.report = j.report /\ k.step = "check" /\ k.left = j.left
      /\ k.batch = b
  BY <1>2 DEF JobRow
<1> QED BY <1>1, <1>3, <1>4

LEMMA BatchesLeft ==
  ASSUME NEW n \in Int, n >= 1
  PROVE  /\ BatchSize * n \in Int /\ BatchSize * (n - 1) \in Int
         /\ BatchSize * n = BatchSize * (n - 1) + BatchSize /\ BatchSize * (n - 1) >= 0
         /\ n = 1 => BatchSize * (n - 1) = 0
BY ReportsAssumption

LEMMA AfterBatchIs ==
  ASSUME NEW p \in Procs, job[p] \in JobRow
  PROVE  /\ P!AfterBatch(p) \in JobRow /\ P!AfterBatch(p).report = job[p].report
         /\ P!AfterBatch(p).step = IF job[p].left > 1 THEN "fetch" ELSE "end"
         /\ P!AfterBatch(p).left = job[p].left - 1 /\ P!AfterBatch(p).batch = {}
<1>1. PICK s \in {"fetch", "end"} : s = IF job[p].left > 1 THEN "fetch" ELSE "end"
  OBVIOUS
<1>2. PICK n \in Int : n = job[p].left - 1
  BY DEF JobRow
<1>3. PICK j \in JobRow : j = job[p]
  OBVIOUS
<1>4. PICK k : k = [j EXCEPT !.left = n, !.batch = {}, !.step = s]
  OBVIOUS
<1>5. P!AfterBatch(p) = k
  BY <1>1, <1>2, <1>3, <1>4 DEF P!AfterBatch
<1>6. k \in JobRow /\ k.report = j.report /\ k.step = s /\ k.left = n /\ k.batch = {}
  BY <1>4 DEF JobRow
<1> QED BY <1>1, <1>2, <1>3, <1>5, <1>6

(* The batch is over, and the batches left hold what is unchecked.         *)
LEMMA BatchOver ==
  ASSUME NEW p \in Procs, NEW r \in P!Reports, job[p] \in JobRow, job[p].left \in Int,
         job[p].left >= 1, job[p].report = r, job'[p] = P!AfterBatch(p),
         Cardinality(P!Unchecked(r)') <= excuse'[r] + BatchSize * (job[p].left - 1)
  PROVE  ThreadGap(p, r)'
<1>1. /\ job'[p].left = job[p].left - 1 /\ job'[p].batch = {}
      /\ job'[p].step = IF job[p].left > 1 THEN "fetch" ELSE "end"
  BY AfterBatchIs
<1>2. Cardinality({}) = 0 /\ P!Unchecked(r)' \ {} = P!Unchecked(r)'
  BY FS_EmptySet
<1>3. Quota(job'[p]) = BatchSize * (job[p].left - 1)
  BY <1>1, BatchesLeft DEF Quota
<1>4. Quota(job[p])' = Quota(job'[p])
  BY DEF Quota
<1> QED BY <1>1, <1>2, <1>3, <1>4, ReportsAssumption DEF ThreadGap

LEMMA IdleType == P!Idle \in JobRow /\ P!Idle.report = 0 /\ P!Idle.batch = {} /\ P!Idle.step = "idle"
BY ReportsAssumption DEF P!Idle, JobRow

LEMMA FetchKeepsGaps ==
  ASSUME ReportInv, NEW p \in Procs, P!Fetch(p)
  PROVE  ReportInv'
<1>1. job[p].step = "fetch" /\ UNCHANGED <<status, rows, active, resume, excuse>>
  BY DEF P!Fetch, P!At, P!history
<1>2. PICK r \in P!Reports :
        /\ r = job[p].report /\ ThreadGap(p, r) /\ status[r] # "none" /\ GapInv(r)
        /\ job[p] \in JobRow /\ job[p].batch \in SUBSET Offers /\ job[p].left \in Int
        /\ excuse[r] \in Nat /\ rows[r] \in [Offers -> ReportRow]
        /\ job[p].batch \subseteq Touched(r)
  BY <1>1, AtReport
<1>3. PICK U \in SUBSET Offers : U = P!Unchecked(r)
  BY ReportSets DEF ReportInv
<1>4. /\ job[p].left >= 1 /\ job[p].batch = {}
      /\ Cardinality(U) <= excuse[r] + BatchSize * job[p].left
  <2>1. U \ {} = U
    OBVIOUS
  <2> QED BY <1>1, <1>2, <1>3, <2>1 DEF ThreadGap, Quota
<1>5. /\ status \in [P!Reports -> {"none", "pending", "running", "completed", "completed_with_errors"}]
      /\ excuse \in [P!Reports -> Nat] /\ U \subseteq active
  BY <1>3 DEF ReportInv, ReportTypes, P!Unchecked
<1>6. P!Unchecked(r)' = U /\ excuse'[r] = excuse[r]
  BY <1>1, <1>3 DEF P!Unchecked, P!Checked
<1>7. P!Done(r)' => P!Done(r)
  BY <1>1 DEF P!Done
<1>8. ASSUME NEW next \in JobRow, job' = [job EXCEPT ![p] = next], next.report = r,
             next.batch \subseteq U, ThreadGap(p, r)'
      PROVE  ReportInv'
  <2>1. /\ next.report \in {0, r} /\ (next.step # "idle" => next.report = r)
        /\ next.batch \subseteq job[p].batch \cup active
        /\ excuse' \in [P!Reports -> Nat] /\ excuse'[r] >= excuse[r]
    BY <1>1, <1>2, <1>5, <1>8
  <2>2. /\ status' \in [P!Reports -> {"none", "pending", "running", "completed", "completed_with_errors"}]
        /\ \A q \in P!Reports \ {r} : status'[q] = status[q] /\ excuse'[q] = excuse[q]
        /\ status'[r] # "none"
    BY <1>1, <1>2, <1>5
  <2> QED BY <1>1, <1>2, <1>7, <1>8, <2>1, <2>2, ThreadTurns
<1>9. CASE U = {}
  <2> DEFINE next == [job[p] EXCEPT !.step = "end"]
  <2>1. job' = [job EXCEPT ![p] = next]
    BY <1>2, <1>3, <1>9 DEF P!Fetch, P!Set, P!ToCheck
  <2>2. next \in JobRow /\ next.report = r /\ next.batch = {} /\ next.step = "end"
    BY <1>2, <1>4 DEF JobRow
  <2> HIDE DEF next
  <2>3. job'[p] = next /\ Cardinality({}) = 0 /\ U \ {} = {}
    BY <1>9, <2>1, FS_EmptySet DEF ReportInv, ReportTypes
  <2>4. Quota(job[p])' = 0
    BY <2>2, <2>3 DEF Quota
  <2>5. P!Unchecked(r)' \ job'[p].batch = {}
    BY <1>6, <2>2, <2>3
  <2>6. ThreadGap(p, r)'
    <3>1. Cardinality(job'[p].batch) <= BatchSize
      BY <2>2, <2>3, ReportsAssumption
    <3>2. Cardinality(P!Unchecked(r)' \ job'[p].batch) <= excuse'[r] + Quota(job[p])'
      BY <1>2, <1>6, <2>3, <2>4, <2>5
    <3> QED BY <2>2, <2>3, <3>1, <3>2 DEF ThreadGap
  <2> QED BY <1>8, <2>1, <2>2, <2>6
<1>10. CASE U # {}
  <2>1. PICK batch \in SUBSET U :
          /\ Cardinality(batch) = P!Smaller(BatchSize, Cardinality(U))
          /\ job' = [job EXCEPT ![p] = P!Checking(p, batch)]
    <3>1. P!ToCheck(job[p].report) = U
      BY <1>2, <1>3 DEF P!ToCheck
    <3>2. IF P!ToCheck(job[p].report) = {} THEN TRUE
          ELSE \E batch \in SUBSET P!ToCheck(job[p].report) :
                 /\ P!Cardinality(batch) = P!Smaller(BatchSize, P!Cardinality(P!ToCheck(job[p].report)))
                 /\ P!Set(p, P!Checking(p, batch))
      BY DEF P!Fetch
    <3>3. \E batch \in SUBSET U :
            /\ Cardinality(batch) = P!Smaller(BatchSize, Cardinality(U))
            /\ P!Set(p, P!Checking(p, batch))
      BY <1>10, <3>1, <3>2, SameSize
    <3> QED BY <3>3 DEF P!Set
  <2> DEFINE next == P!Checking(p, batch)
  <2>3. next \in JobRow /\ next.report = r /\ next.batch = batch /\ next.step = "check" /\ next.left = job[p].left
    BY <1>2, CheckingIs
  <2> HIDE DEF next
  <2>4. job'[p] = next
    BY <2>1 DEF next, ReportInv, ReportTypes
  <2>5. /\ Cardinality(batch) <= BatchSize
        /\ Cardinality(U \ batch) <= excuse[r] + BatchSize * (job[p].left - 1)
    <3>1. /\ IsFiniteSet(U) /\ Cardinality(U) \in Nat /\ Cardinality(batch) \in Nat
          /\ Cardinality(U \ batch) \in Nat
      BY OfferSets
    <3>2. U \cap batch = batch
      OBVIOUS
    <3>3. Cardinality(U \ batch) = Cardinality(U) - Cardinality(batch)
      BY <3>1, <3>2, FS_Difference
    <3>4. BatchSize \in Nat
      BY ReportsAssumption
    <3>5. CASE BatchSize < Cardinality(U)
      BY <1>2, <1>4, <2>1, <3>1, <3>3, <3>4, <3>5, BatchesLeft DEF P!Smaller
    <3>6. CASE ~(BatchSize < Cardinality(U))
      BY <1>2, <1>4, <2>1, <3>1, <3>3, <3>4, <3>6, BatchesLeft DEF P!Smaller
    <3> QED BY <3>5, <3>6
  <2>6. Quota(job[p])' = BatchSize * (job[p].left - 1)
    BY <2>3, <2>4 DEF Quota
  <2>7. ThreadGap(p, r)'
    BY <1>4, <1>6, <2>3, <2>4, <2>5, <2>6 DEF ThreadGap
  <2> QED BY <1>8, <2>1, <2>3, <2>7 DEF next
<1> QED BY <1>9, <1>10

LEMMA FailureKeepsGaps ==
  ASSUME ReportInv, NEW p \in Procs, P!BatchFails(p)
  PROVE  ReportInv'
<1>1. job[p].step \in {"fetch", "check"} /\ UNCHANGED <<status, rows, active, resume>>
  BY DEF P!BatchFails
<1>2. PICK r \in P!Reports :
        /\ r = job[p].report /\ ThreadGap(p, r) /\ status[r] # "none" /\ GapInv(r)
        /\ job[p] \in JobRow /\ job[p].batch \in SUBSET Offers /\ job[p].left \in Int
        /\ excuse[r] \in Nat /\ rows[r] \in [Offers -> ReportRow]
        /\ job[p].batch \subseteq Touched(r)
  BY <1>1, AtReport
<1>3. PICK U \in SUBSET Offers : U = P!Unchecked(r)
  BY ReportSets DEF ReportInv
<1>4. job' = [job EXCEPT ![p] = P!AfterBatch(p)] /\ job'[p] = P!AfterBatch(p)
  BY DEF P!BatchFails, P!Set, ReportInv, ReportTypes
<1>5. /\ excuse' \in [P!Reports -> Nat] /\ excuse'[r] = excuse[r] + BatchSize
      /\ \A q \in P!Reports \ {r} : status'[q] = status[q] /\ excuse'[q] = excuse[q]
  <2>1. excuse' = [excuse EXCEPT ![r] = excuse[r] + BatchSize] /\ excuse[r] + BatchSize \in Nat
    BY <1>2, ReportsAssumption DEF P!BatchFails
  <2> QED BY <1>1, <2>1 DEF ReportInv, ReportTypes
<1>6. /\ status' \in [P!Reports -> {"none", "pending", "running", "completed", "completed_with_errors"}]
      /\ status'[r] # "none" /\ P!Unchecked(r)' = U
  BY <1>1, <1>2, <1>3 DEF ReportInv, ReportTypes, P!Unchecked, P!Checked
<1>7. P!Done(r)' => P!Done(r)
  BY <1>1 DEF P!Done
<1>8. Cardinality(U) <= excuse'[r] + BatchSize * (job[p].left - 1) /\ job[p].left >= 1
  <2>1. /\ Cardinality(U) \in Nat /\ Cardinality(U \ job[p].batch) \in Nat
        /\ Cardinality(job[p].batch) \in Nat /\ BatchSize \in Nat
    BY <1>2, OfferSets, ReportsAssumption
  <2>2. /\ Cardinality(U \ job[p].batch) <= excuse[r] + Quota(job[p]) /\ job[p].left >= 1
        /\ Cardinality(job[p].batch) <= BatchSize
        /\ job[p].step # "check" => job[p].batch = {}
    BY <1>1, <1>2, <1>3 DEF ThreadGap
  <2>3. CASE job[p].step = "fetch"
    <3>1. U \ job[p].batch = U /\ Quota(job[p]) = BatchSize * job[p].left
      BY <2>2, <2>3 DEF Quota
    <3>2. PICK n \in Int : n = BatchSize * (job[p].left - 1)
      BY <1>2, <2>2, BatchesLeft
    <3>3. BatchSize * job[p].left = n + BatchSize
      BY <1>2, <2>2, <3>2, BatchesLeft
    <3>4. Cardinality(U) <= excuse[r] + (n + BatchSize)
      BY <2>2, <3>1, <3>3
    <3> QED BY <1>2, <1>5, <2>1, <2>2, <3>2, <3>4
  <2>4. CASE job[p].step = "check"
    <3>1. Quota(job[p]) = BatchSize * (job[p].left - 1)
      BY <2>4 DEF Quota
    <3>2. PICK A \in SUBSET Offers : A = U \ job[p].batch
      OBVIOUS
    <3>3. U \subseteq A \cup job[p].batch
      BY <3>2
    <3>4. BatchSize * (job[p].left - 1) \in Int
      BY <1>2, <2>2, BatchesLeft
    <3> DEFINE n == excuse[r] + BatchSize * (job[p].left - 1)
               m == excuse'[r] + BatchSize * (job[p].left - 1)
    <3>5. n \in Int /\ m \in Int /\ Cardinality(A) <= n /\ n + Cardinality(job[p].batch) <= m
      <4>1. PICK k \in Int : k = BatchSize * (job[p].left - 1)
        BY <3>4
      <4>2. Cardinality(A) <= excuse[r] + k
        BY <2>2, <3>1, <3>2, <4>1
      <4> QED BY <1>2, <1>5, <2>1, <2>2, <4>1, <4>2
    <3> HIDE DEF n, m
    <3>6. Cardinality(U) <= m
      BY <1>2, <3>3, <3>5, Grows
    <3> QED BY <2>2, <3>6 DEF m
  <2> QED BY <1>1, <2>3, <2>4
<1>9. ThreadGap(p, r)'
  BY <1>2, <1>4, <1>6, <1>8, BatchOver
<1>10. P!AfterBatch(p) \in JobRow /\ P!AfterBatch(p).report = r /\ P!AfterBatch(p).batch = {}
  BY <1>2, AfterBatchIs
<1>11. excuse'[r] >= excuse[r]
  BY <1>2, <1>5, ReportsAssumption
<1> QED BY <1>1, <1>2, <1>4, <1>5, <1>6, <1>7, <1>9, <1>10, <1>11, ThreadTurns

LEMMA EndKeepsGaps ==
  ASSUME ReportInv, NEW p \in Procs, P!Finish(p) \/ P!FinishFails(p) \/ P!Notify(p)
  PROVE  ReportInv'
<1>1. job[p].step \in {"end", "notify"} /\ UNCHANGED <<rows, active, resume, excuse>>
  BY DEF P!Finish, P!FinishFails, P!Notify, P!At, P!history
<1>2. PICK r \in P!Reports :
        /\ r = job[p].report /\ ThreadGap(p, r) /\ status[r] # "none" /\ GapInv(r)
        /\ job[p] \in JobRow /\ job[p].batch \in SUBSET Offers /\ job[p].left \in Int
        /\ excuse[r] \in Nat /\ rows[r] \in [Offers -> ReportRow]
        /\ job[p].batch \subseteq Touched(r)
  BY <1>1, AtReport
<1>3. /\ status \in [P!Reports -> {"none", "pending", "running", "completed", "completed_with_errors"}]
      /\ excuse \in [P!Reports -> Nat] /\ excuse'[r] >= excuse[r]
  BY <1>1, <1>2 DEF ReportInv, ReportTypes
<1>4. CASE P!Finish(p)
  <2> DEFINE next == [job[p] EXCEPT !.step = "notify"]
             last == P!Final(rows[r])
  <2>1. /\ job[p].step = "end" /\ job' = [job EXCEPT ![p] = next]
        /\ status' = [status EXCEPT ![r] = last]
    BY <1>2, <1>4 DEF P!Finish, P!At, P!Set
  <2>2. next \in JobRow /\ next.report = r /\ next.batch = {} /\ next.step = "notify"
    BY <1>2, <2>1 DEF JobRow, ThreadGap
  <2>3. last \in {"completed", "completed_with_errors"}
    BY DEF P!Final
  <2> HIDE DEF next, last
  <2>4. /\ status' \in [P!Reports -> {"none", "pending", "running", "completed", "completed_with_errors"}]
        /\ \A q \in P!Reports \ {r} : status'[q] = status[q] /\ excuse'[q] = excuse[q]
        /\ status'[r] # "none"
    BY <1>1, <1>3, <2>1, <2>3
  <2>5. Cardinality(P!Unchecked(r)) <= excuse'[r]
    <3>1. job[p].batch = {} /\ P!Unchecked(r) \ {} = P!Unchecked(r) /\ Quota(job[p]) = 0
      BY <1>2, <2>1 DEF ThreadGap, Quota
    <3>2. Cardinality(P!Unchecked(r) \ job[p].batch) <= excuse[r] + Quota(job[p])
      BY <1>2, <2>1 DEF ThreadGap
    <3> QED BY <1>1, <1>2, <3>1, <3>2
  <2>6. job'[p] = next /\ Cardinality({}) = 0
    BY <2>1, FS_EmptySet DEF ReportInv, ReportTypes
  <2>7. ThreadGap(p, r)'
    BY <2>2, <2>6, ReportsAssumption DEF ThreadGap
  <2> QED BY <1>1, <1>2, <1>3, <2>1, <2>2, <2>4, <2>5, <2>7, ThreadTurns
<1>5. CASE P!FinishFails(p) \/ P!Notify(p)
  <2>1. job' = [job EXCEPT ![p] = P!Idle] /\ status' = status
    BY <1>5 DEF P!FinishFails, P!Notify, P!Set
  <2>2. \A q \in P!Reports \ {r} : status'[q] = status[q] /\ excuse'[q] = excuse[q]
    BY <1>1, <2>1
  <2>3. P!Done(r)' => P!Done(r)
    BY <2>1 DEF P!Done
  <2>4. r # 0
    BY ReportSets DEF ReportInv
  <2> QED BY <1>1, <1>2, <1>3, <2>1, <2>2, <2>3, <2>4, IdleType, ThreadTurns
<1> QED BY <1>4, <1>5

LEMMA CheckKeepsGaps ==
  ASSUME ReportInv, NEW p \in Procs, P!Check(p)
  PROVE  ReportInv'
<1>1. job[p].step = "check" /\ UNCHANGED <<active, resume>>
  BY DEF P!Check, P!At
<1>2. PICK r \in P!Reports :
        /\ r = job[p].report /\ ThreadGap(p, r) /\ status[r] # "none" /\ GapInv(r)
        /\ job[p] \in JobRow /\ job[p].batch \in SUBSET Offers /\ job[p].left \in Int
        /\ excuse[r] \in Nat /\ rows[r] \in [Offers -> ReportRow]
        /\ job[p].batch \subseteq Touched(r)
  BY <1>1, AtReport
<1>3. PICK o \in job[p].batch, found \in P!Outcomes \cup {P!Row("nobody", TRUE)}, dialog \in SUBSET Offers :
        /\ rows' = [rows EXCEPT ![r] = P!Saved(rows[r], o, found, dialog)]
        /\ excuse' = [excuse EXCEPT ![r] = excuse[r] + P!Cardinality((dialog \ active) \ P!Checked(r))]
        /\ P!Set(p, IF job[p].batch = {o} THEN P!AfterBatch(p) ELSE [job[p] EXCEPT !.batch = @ \ {o}])
  BY <1>2 DEF P!Check
<1>4. status' = [status EXCEPT ![r] = "running"]
  BY <1>2 DEF P!Check
<1> DEFINE Y == (dialog \ active) \ P!Checked(r)
           saved == P!Saved(rows[r], o, found, dialog)
           next == IF job[p].batch = {o} THEN P!AfterBatch(p) ELSE [job[p] EXCEPT !.batch = @ \ {o}]
<1>5. found \in ReportRow /\ found.kind # "none"
  <2>1. \A kind \in {"rival", "nobody"}, error \in BOOLEAN :
          P!Row(kind, error) \in ReportRow /\ P!Row(kind, error).kind # "none"
    BY DEF P!Row, ReportRow, P!Kinds
  <2> QED BY <2>1, ReportsAssumption DEF P!Outcomes
<1>6. saved \in [Offers -> ReportRow]
      /\ \A x \in Offers : saved[x] = rows[r][x] \/ (x \in dialog \cup {o} /\ saved[x].kind # "none")
  <2>1. P!Row("sibling", FALSE) \in ReportRow /\ P!Row("sibling", FALSE).kind # "none"
    BY DEF P!Row, P!Kinds, ReportRow
  <2> QED BY <1>2, <1>5, <2>1 DEF P!Saved
<1>7. saved[o].kind # "none"
  BY <1>2, <1>5 DEF P!Saved
<1>8. /\ rows' = [rows EXCEPT ![r] = saved] /\ rows'[r] = saved
      /\ \A q \in P!Reports \ {r} : rows'[q] = rows[q]
  BY <1>3 DEF ReportInv, ReportTypes
<1>9. Y \in SUBSET Offers /\ Cardinality(Y) \in Nat
  BY OfferSets
<1>10. /\ excuse' = [excuse EXCEPT ![r] = excuse[r] + Cardinality(Y)]
       /\ excuse' \in [P!Reports -> Nat] /\ excuse'[r] = excuse[r] + Cardinality(Y)
       /\ \A q \in P!Reports \ {r} : excuse'[q] = excuse[q]
  <2>1. excuse' = [excuse EXCEPT ![r] = excuse[r] + Cardinality(Y)]
    BY <1>3, SameSize
  <2>2. excuse[r] + Cardinality(Y) \in Nat
    BY <1>2, <1>9
  <2> HIDE DEF Y
  <2> QED BY <2>1, <2>2 DEF ReportInv, ReportTypes
<1>11. /\ status' \in [P!Reports -> {"none", "pending", "running", "completed", "completed_with_errors"}]
       /\ status'[r] = "running" /\ \A q \in P!Reports \ {r} : status'[q] = status[q]
  BY <1>4 DEF ReportInv, ReportTypes
<1>12. /\ next \in JobRow /\ next.report = r
       /\ job[p].batch # {o} => next.step = "check" /\ next.left = job[p].left
                                /\ next.batch = job[p].batch \ {o}
  <2>1. CASE job[p].batch = {o}
    BY <1>2, <2>1, AfterBatchIs
  <2>2. CASE job[p].batch # {o}
    <3>1. PICK j \in JobRow : j = job[p]
      BY <1>2
    <3>2. PICK k : k = [j EXCEPT !.batch = @ \ {o}]
      OBVIOUS
    <3>3. k \in JobRow /\ k.report = j.report /\ k.step = j.step /\ k.left = j.left
          /\ k.batch = j.batch \ {o}
      BY <3>2 DEF JobRow
    <3>4. next = k
      BY <2>2, <3>1, <3>2
    <3> HIDE DEF next
    <3> QED BY <1>1, <1>2, <2>2, <3>1, <3>3, <3>4
  <2> QED BY <2>1, <2>2
<1>13. job' = [job EXCEPT ![p] = next] /\ job'[p] = next
  BY <1>3 DEF P!Set, ReportInv, ReportTypes
<1>14. job[p].batch = {o} => next = P!AfterBatch(p)
  OBVIOUS
<1>15. next.batch \subseteq job[p].batch
  BY <1>12, <1>14, <1>2, AfterBatchIs
<1>16. o \in Offers
  BY <1>2, <1>3
<1> HIDE DEF next, saved
<1>17. ReportTypes'
  <2>1. /\ job' \in [Procs -> JobRow]
        /\ \A q \in Procs : job'[q].step # "idle" => job'[q].report \in P!Reports
    BY <1>12, <1>13, JobTypes DEF ReportInv
  <2>2. rows' \in [P!Reports -> [Offers -> ReportRow]]
    BY <1>6, <1>8 DEF ReportInv, ReportTypes
  <2> QED BY <1>1, <1>10, <1>11, <2>1, <2>2 DEF ReportInv, ReportTypes
<1>18. /\ P!Checked(r) \cup {o} \subseteq P!Checked(r)'
       /\ P!Checked(r)' \subseteq P!Checked(r) \cup dialog \cup {o}
  BY <1>6, <1>7, <1>8, <1>16 DEF P!Checked
<1>19. (Touched(r) \ active)' \subseteq (Touched(r) \ active) \cup Y
  <2>1. \A q \in Procs : job'[q].report = job[q].report /\ job'[q].batch \subseteq job[q].batch
    BY <1>2, <1>12, <1>13, <1>15 DEF ReportInv, ReportTypes
  <2>2. Touched(r)' \subseteq Touched(r) \cup dialog
    <3>1. o \in Touched(r)
      BY <1>2, <1>3
    <3> QED BY <1>18, <2>1, <3>1 DEF Touched
  <2>3. P!Checked(r) \subseteq Touched(r)
    BY DEF Touched
  <2> QED BY <1>1, <2>2, <2>3
<1>20. ThreadGap(p, r)'
  <2>1. P!Unchecked(r)' \subseteq P!Unchecked(r) \ {o}
    BY <1>1, <1>18 DEF P!Unchecked
  <2>2. PICK A \in SUBSET Offers : A = P!Unchecked(r) \ job[p].batch
    BY <1>2, ReportSets DEF ReportInv
  <2>3. PICK k \in Int : k = BatchSize * (job[p].left - 1)
    BY <1>2, ReportsAssumption
  <2>4. job[p].left >= 1 /\ Cardinality(job[p].batch) <= BatchSize
    BY <1>1, <1>2 DEF ThreadGap
  <2>5. Cardinality(A) <= excuse[r] + k
    BY <1>1, <1>2, <2>2, <2>3 DEF ThreadGap, Quota
  <2>6. PICK n \in Int, m \in Int : n = excuse[r] + k /\ m = excuse'[r] + k
    <3>1. excuse'[r] \in Nat
      BY <1>10
    <3> QED BY <1>2, <3>1
  <2>7. {} \in SUBSET Offers /\ Cardinality({}) = 0 /\ n + Cardinality({}) <= m /\ Cardinality(A) <= n
    BY <1>2, <1>9, <1>10, <2>5, <2>6, FS_EmptySet
  <2>8. CASE job[p].batch = {o}
    <3>1. PICK B : B = P!Unchecked(r)'
      OBVIOUS
    <3>2. B \subseteq A \cup {}
      BY <2>1, <2>2, <2>8, <3>1
    <3>3. Cardinality(B) <= m
      BY <2>7, <3>2, Grows
    <3>4. Cardinality(P!Unchecked(r)') <= excuse'[r] + BatchSize * (job[p].left - 1)
      BY <2>3, <2>6, <3>1, <3>3
    <3> QED BY <1>2, <1>13, <1>14, <2>4, <2>8, <3>4, BatchOver
  <2>9. CASE job[p].batch # {o}
    <3>1. PICK B : B = P!Unchecked(r)' \ (job[p].batch \ {o})
      OBVIOUS
    <3>2. B \subseteq A \cup {}
      BY <2>1, <2>2, <3>1
    <3>3. Cardinality(B) <= m
      BY <2>7, <3>2, Grows
    <3>4. /\ job'[p].step = "check" /\ job'[p].left = job[p].left
          /\ job'[p].batch = job[p].batch \ {o}
      BY <1>12, <1>13, <2>9
    <3>5. Cardinality(job[p].batch \ {o}) <= BatchSize
      <4>1. PICK C \in SUBSET Offers, D \in SUBSET Offers : C = job[p].batch /\ D = job[p].batch \ {o}
        BY <1>2
      <4>2. IsFiniteSet(C) /\ D \subseteq C
        BY <4>1, OfferSets
      <4>3. Cardinality(D) <= Cardinality(C) /\ Cardinality(D) \in Nat /\ Cardinality(C) \in Nat
        BY <4>2, FS_Subset, OfferSets
      <4> QED BY <2>4, <4>1, <4>3, ReportsAssumption
    <3>6. Quota(job[p])' = k
      BY <2>3, <3>4 DEF Quota
    <3>7. Cardinality((P!Unchecked(r) \ job[p].batch)') <= excuse'[r] + Quota(job[p])'
      BY <2>6, <3>1, <3>3, <3>4, <3>6
    <3> QED BY <2>4, <3>4, <3>5, <3>7 DEF ThreadGap
  <2> QED BY <2>8, <2>9
<1>21. ~ P!Done(r)' /\ status'[r] # "none"
  BY <1>11 DEF P!Done
<1>22. excuse'[r] >= excuse[r] + Cardinality(Y)
  BY <1>2, <1>9, <1>10
<1>23. P!Checked(r) \subseteq P!Checked(r)' /\ r = job[p].report /\ active' = active
  BY <1>1, <1>2, <1>18
<1> HIDE DEF Y
<1> QED BY <1>8, <1>9, <1>10, <1>11, <1>12, <1>13, <1>17, <1>19, <1>20, <1>21, <1>22, <1>23, ThreadKeeps

-----------------------------------------------------------------------------
(* Starting and resuming: the batches hold all that is left.               *)

LEMMA BatchesEnough ==
  ASSUME NEW n \in Int
  PROVE  P!Batches(n) \in Int /\ P!Batches(n) >= 1 /\ BatchSize * P!Batches(n) >= n
<1>1. PICK m \in Int : m = n + BatchSize - 1
  BY ReportsAssumption
<1>2. BatchSize * (m \div BatchSize) + (m % BatchSize) = m /\ m % BatchSize \in 0..(BatchSize - 1)
      /\ m \div BatchSize \in Int
  BY ReportsAssumption
<1>3. PICK q \in Int : q = m \div BatchSize
  BY <1>2
<1>4. BatchSize * q >= n
  BY <1>1, <1>2, <1>3, ReportsAssumption
<1>5. P!Batches(n) = IF q > 1 THEN q ELSE 1
  BY <1>1, <1>3 DEF P!Batches, P!Larger
<1>6. CASE q > 1
  BY <1>4, <1>5, <1>6
<1>7. CASE ~ (q > 1)
  <2>1. BatchSize * q <= BatchSize * 1
    BY <1>7, ReportsAssumption
  <2> QED BY <1>4, <1>5, <1>7, <2>1, ReportsAssumption
<1> QED BY <1>6, <1>7

LEMMA StartIs ==
  ASSUME ReportTypes, NEW p \in Procs, NEW r \in P!Reports, NEW n \in Int, P!StartWorker(p, r, n)
  PROVE  \/ job' = job
         \/ \E new \in JobRow :
              /\ job' = [job EXCEPT ![p] = new] /\ new.report = r /\ new.step = "mark"
              /\ new.batch = {} /\ new.left >= 1 /\ BatchSize * new.left >= n
<1>1. CASE job[p] # P!Idle
  BY <1>1 DEF P!StartWorker
<1>2. CASE job[p] = P!Idle
  <2>1. PICK new : new = [report |-> r, step |-> "mark", left |-> P!Batches(n), batch |-> {}]
    OBVIOUS
  <2>2. job' = [job EXCEPT ![p] = new]
    BY <1>2, <2>1 DEF P!StartWorker
  <2>3. /\ new \in JobRow /\ new.report = r /\ new.step = "mark" /\ new.batch = {}
        /\ new.left = P!Batches(n)
    BY <2>1, BatchesEnough, ReportsAssumption DEF JobRow, P!Reports
  <2> QED BY <2>2, <2>3, BatchesEnough
<1> QED BY <1>1, <1>2

(* A report begins or goes on: X offers have lost their rows, and a thread *)
(* that starts for it has batches enough.                                  *)
LEMMA StartKeeps ==
  ASSUME ReportInv, ReportTypes', NEW p \in Procs, NEW r \in P!Reports, active' = active,
         NEW X \in SUBSET Offers, P!Unchecked(r)' \subseteq P!Unchecked(r) \cup X,
         P!Checked(r)' \subseteq P!Checked(r), excuse'[r] >= excuse[r] + Cardinality(X),
         \A q \in P!Reports \ {r} :
           rows'[q] = rows[q] /\ status'[q] = status[q] /\ excuse'[q] = excuse[q],
         status'[r] # "none",
         P!Done(r)' => Cardinality(P!Unchecked(r)') <= excuse'[r],
         \/ job' = job
         \/ \E new \in JobRow :
              /\ job' = [job EXCEPT ![p] = new] /\ new.report = r /\ new.step = "mark"
              /\ new.batch = {} /\ new.left >= 1
              /\ Cardinality(P!Unchecked(r)') <= excuse'[r] + BatchSize * new.left
  PROVE  ReportInv'
<1>1. \A q \in Procs : job'[q] = job[q] \/ (job'[q].report = r /\ job'[q].batch = {})
  BY DEF ReportInv, ReportTypes
<1>2. ASSUME NEW q \in P!Reports, q # r PROVE GapInv(q)'
  <2>1. P!Checked(q)' = P!Checked(q)
    BY <1>2 DEF P!Checked
  <2>2. \A u \in Procs : job'[u] = job[u] \/ job'[u].report # q
    BY <1>1, <1>2
  <2>3. excuse[q] \in Nat
    BY DEF ReportInv, ReportTypes
  <2> QED BY <1>2, <2>1, <2>2, <2>3, SameGap DEF ReportInv
<1>3. GapInv(r)'
  <2>1. PICK Y \in SUBSET Offers : Y = {}
    OBVIOUS
  <2>2. /\ Cardinality(Y) = 0 /\ Cardinality(X) \in Nat /\ excuse[r] \in Nat /\ excuse'[r] \in Nat
    BY <2>1, FS_EmptySet, OfferSets DEF ReportInv, ReportTypes
  <2>3. \A u \in Procs : job'[u].report = r => job'[u] = job[u] \/ ThreadGap(u, r)'
    <3>1. SUFFICES ASSUME NEW u \in Procs, job'[u] # job[u] PROVE ThreadGap(u, r)'
      OBVIOUS
    <3>2. PICK new \in JobRow :
              /\ job' = [job EXCEPT ![p] = new] /\ new.report = r /\ new.step = "mark"
              /\ new.batch = {} /\ new.left >= 1
              /\ Cardinality(P!Unchecked(r)') <= excuse'[r] + BatchSize * new.left
      BY <3>1
    <3>3. job'[u] = new
      BY <3>1, <3>2 DEF ReportInv, ReportTypes
    <3>4. Quota(job[u])' = BatchSize * new.left
      BY <3>2, <3>3 DEF Quota
    <3>5. P!Unchecked(r)' \ {} = P!Unchecked(r)' /\ Cardinality({}) <= BatchSize
      BY FS_EmptySet, ReportsAssumption
    <3> QED BY <3>2, <3>3, <3>4, <3>5 DEF ThreadGap
  <2>4. (Touched(r) \ active)' \subseteq (Touched(r) \ active) \cup Y
    <3>1. \A q \in Procs : job'[q] = job[q] \/ job'[q].batch = {}
      BY <1>1
    <3>2. Touched(r)' \subseteq Touched(r)
      BY <3>1 DEF Touched
    <3> QED BY <3>2
  <2>5. excuse'[r] >= excuse[r] + Cardinality(Y)
    BY <2>2
  <2> QED BY <2>3, <2>4, <2>5, GapKept DEF ReportInv
<1> QED BY <1>2, <1>3 DEF ReportInv

LEMMA CreateKeepsGaps ==
  ASSUME ReportInv, NEW p \in Procs, P!Create(p), UNCHANGED <<rows, active, resume, excuse>>
  PROVE  ReportInv'
<1>1. PICK r \in P!Reports :
        /\ status[r] = "none" /\ status' = [status EXCEPT ![r] = "pending"]
        /\ P!StartWorker(p, r, P!Cardinality(active))
  BY DEF P!Create
<1>2. /\ active \in SUBSET Offers /\ P!Unchecked(r) \subseteq active /\ excuse[r] \in Nat
  BY DEF ReportInv, ReportTypes, P!Unchecked
<1>3. PICK n \in Nat : n = Cardinality(active)
  BY <1>2, OfferSets
<1>4. P!StartWorker(p, r, n)
  BY <1>1, <1>3, SameSize
<1>5. \/ job' = job
      \/ \E new \in JobRow :
           /\ job' = [job EXCEPT ![p] = new] /\ new.report = r /\ new.step = "mark"
           /\ new.batch = {} /\ new.left >= 1 /\ BatchSize * new.left >= n
  BY <1>4, StartIs DEF ReportInv
<1>6. P!Unchecked(r)' = P!Unchecked(r) /\ P!Checked(r)' = P!Checked(r)
  BY DEF P!Unchecked, P!Checked
<1>7. Cardinality(P!Unchecked(r)') <= n
  <2>1. PICK B : B = P!Unchecked(r)'
    OBVIOUS
  <2>2. {} \in SUBSET Offers /\ n + Cardinality({}) <= n /\ B \subseteq active \cup {}
    BY <1>2, <1>6, <2>1, FS_EmptySet
  <2>3. Cardinality(active) <= n
    BY <1>3
  <2>4. Cardinality(B) <= n
    BY <1>2, <2>2, <2>3, Grows
  <2> QED BY <2>1, <2>4
<1>8. /\ job' \in [Procs -> JobRow]
      /\ \A q \in Procs : job'[q].step # "idle" => job'[q].report \in P!Reports
  BY <1>5 DEF ReportInv, ReportTypes
<1>9. /\ status' \in [P!Reports -> {"none", "pending", "running", "completed", "completed_with_errors"}]
      /\ status'[r] = "pending" /\ \A q \in P!Reports \ {r} : status'[q] = status[q]
  BY <1>1 DEF ReportInv, ReportTypes
<1>10. ReportTypes'
  BY <1>8, <1>9 DEF ReportInv, ReportTypes
<1>11. \/ job' = job
       \/ \E new \in JobRow :
            /\ job' = [job EXCEPT ![p] = new] /\ new.report = r /\ new.step = "mark"
            /\ new.batch = {} /\ new.left >= 1
            /\ Cardinality(P!Unchecked(r)') <= excuse'[r] + BatchSize * new.left
  <2>1. ASSUME NEW new \in JobRow, BatchSize * new.left >= n
        PROVE  Cardinality(P!Unchecked(r)') <= excuse'[r] + BatchSize * new.left
    <3>1. PICK k \in Int : k = BatchSize * new.left
      BY ReportsAssumption DEF JobRow
    <3>2. Cardinality(P!Unchecked(r)') \in Nat
      BY <1>2, <1>6, ReportSets, OfferSets DEF ReportInv
    <3> QED BY <1>2, <1>7, <2>1, <3>1, <3>2
  <2> QED BY <1>5, <2>1
<1>12. PICK X \in SUBSET Offers : X = {}
  OBVIOUS
<1>13. excuse'[r] >= excuse[r] + Cardinality(X)
  BY <1>2, <1>12, FS_EmptySet
<1>14. ~ P!Done(r)' /\ status'[r] # "none"
  BY <1>9 DEF P!Done
<1>15. /\ P!Unchecked(r)' \subseteq P!Unchecked(r) \cup X /\ P!Checked(r)' \subseteq P!Checked(r)
       /\ active' = active
       /\ \A q \in P!Reports \ {r} :
            rows'[q] = rows[q] /\ status'[q] = status[q] /\ excuse'[q] = excuse[q]
  BY <1>6, <1>9
<1> QED BY <1>10, <1>11, <1>13, <1>14, <1>15, StartKeeps

(* Going on with the rows that are left, of which X are dropped.           *)
LEMMA GoOnKeepsGaps ==
  ASSUME ReportInv, NEW p \in Procs, NEW r \in P!Reports, NEW kept, P!GoOn(p, r, kept),
         kept \in [Offers -> ReportRow],
         NEW X \in SUBSET Offers,
         \A o \in Offers : kept[o] = rows[r][o] \/ (o \in X /\ kept[o].kind = "none"),
         excuse' \in [P!Reports -> Nat], excuse'[r] = excuse[r] + Cardinality(X),
         \A q \in P!Reports \ {r} : excuse'[q] = excuse[q],
         active' = active, resume' \in SUBSET P!Reports
  PROVE  ReportInv'
<1>1. /\ active \in SUBSET Offers /\ excuse[r] \in Nat /\ Cardinality(X) \in Nat
      /\ P!Checked(r) \in SUBSET Offers /\ P!Unchecked(r) \in SUBSET Offers
  BY ReportSets, OfferSets DEF ReportInv, ReportTypes
<1>2. PICK left \in Int : left = Cardinality(active) - Cardinality(P!Checked(r))
  BY <1>1, OfferSets
<1>3. /\ rows' = [rows EXCEPT ![r] = kept]
      /\ left > 0 => status' = [status EXCEPT ![r] = "running"] /\ P!StartWorker(p, r, left)
      /\ ~ (left > 0) => status' = [status EXCEPT ![r] = P!Final(kept)] /\ job' = job
  BY <1>2, SameSize DEF P!GoOn
<1>4. /\ rows' \in [P!Reports -> [Offers -> ReportRow]] /\ rows'[r] = kept
      /\ \A q \in P!Reports \ {r} : rows'[q] = rows[q]
  BY <1>3 DEF ReportInv, ReportTypes
<1>5. P!Final(kept) \in {"completed", "completed_with_errors"}
  BY DEF P!Final
<1>6. /\ status' \in [P!Reports -> {"none", "pending", "running", "completed", "completed_with_errors"}]
      /\ status'[r] # "none" /\ \A q \in P!Reports \ {r} : status'[q] = status[q]
      /\ left > 0 => status'[r] = "running"
  BY <1>3, <1>5 DEF ReportInv, ReportTypes
<1>7. \/ job' = job
      \/ left > 0 /\ \E new \in JobRow :
           /\ job' = [job EXCEPT ![p] = new] /\ new.report = r /\ new.step = "mark"
           /\ new.batch = {} /\ new.left >= 1 /\ BatchSize * new.left >= left
  BY <1>3, StartIs DEF ReportInv
<1>8. /\ job' \in [Procs -> JobRow]
      /\ \A q \in Procs : job'[q].step # "idle" => job'[q].report \in P!Reports
  BY <1>7 DEF ReportInv, ReportTypes
<1>9. ReportTypes'
  BY <1>4, <1>6, <1>8 DEF ReportInv, ReportTypes
<1>10. /\ P!Checked(r)' \subseteq P!Checked(r) /\ P!Checked(r) \subseteq P!Checked(r)' \cup X
  <2>1. \A o \in Offers : /\ rows'[r][o].kind # "none" => rows[r][o].kind # "none"
                          /\ rows[r][o].kind # "none" => rows'[r][o].kind # "none" \/ o \in X
    BY <1>4
  <2> QED BY <2>1 DEF P!Checked
<1>11. P!Unchecked(r)' \subseteq P!Unchecked(r) \cup X
  BY <1>10 DEF P!Unchecked
<1>12. Cardinality(P!Unchecked(r)) <= excuse[r] + left
  <2>0. PICK U \in SUBSET Offers : U = P!Unchecked(r)
    BY <1>1
  <2>1. PICK C \in SUBSET Offers, A \in SUBSET Offers : C = P!Checked(r) /\ A = active
    BY <1>1
  <2>10. PICK D \in SUBSET Offers : D = Touched(r) \ active
    BY <1>1, ReportSets DEF ReportInv
  <2>2. U = A \ C /\ C \ A \subseteq D
    BY <2>0, <2>1, <2>10 DEF P!Unchecked, Touched
  <2>3. Cardinality(D) <= excuse[r]
    BY <2>10 DEF ReportInv, GapInv
  <2>4. /\ IsFiniteSet(A) /\ IsFiniteSet(C) /\ IsFiniteSet(D) /\ IsFiniteSet(C \ A)
        /\ Cardinality(A) \in Nat /\ Cardinality(C) \in Nat /\ Cardinality(D) \in Nat
        /\ Cardinality(C \ A) \in Nat /\ Cardinality(A \cap C) \in Nat /\ C \cap A = A \cap C
    BY OfferSets
  <2>5. Cardinality(A \ C) = Cardinality(A) - Cardinality(A \cap C)
    BY <2>4, FS_Difference
  <2>6. Cardinality(C \ A) = Cardinality(C) - Cardinality(A \cap C)
    <3>1. Cardinality(C \ A) = Cardinality(C) - Cardinality(C \cap A)
      BY <2>4, FS_Difference
    <3> QED BY <2>4, <3>1
  <2>7. Cardinality(C \ A) <= Cardinality(D)
    BY <2>2, <2>4, FS_Subset
  <2>8. left = Cardinality(A) - Cardinality(C)
    BY <1>2, <2>1
  <2>9. Cardinality(U) <= excuse[r] + left
    BY <1>1, <2>2, <2>3, <2>4, <2>5, <2>6, <2>7, <2>8
  <2> QED BY <2>0, <2>9
<1>13. Cardinality(P!Unchecked(r)') <= excuse'[r] + left
  <2>1. PICK U \in SUBSET Offers : U = P!Unchecked(r)
    BY <1>1
  <2>2. PICK B : B = P!Unchecked(r)'
    OBVIOUS
  <2>3. PICK n \in Int, m \in Int : n = excuse[r] + left /\ m = excuse'[r] + left
    <3>1. excuse'[r] \in Nat
      BY <1>1
    <3> QED BY <1>1, <3>1
  <2>4. B \subseteq U \cup X /\ Cardinality(U) <= n /\ n + Cardinality(X) <= m
    BY <1>1, <1>11, <1>12, <2>1, <2>2, <2>3
  <2>5. Cardinality(B) <= m
    BY <2>4, Grows
  <2> QED BY <2>2, <2>3, <2>5
<1>14. P!Done(r)' => Cardinality(P!Unchecked(r)') <= excuse'[r]
  <2>1. P!Done(r)' => ~ (left > 0)
    BY <1>6 DEF P!Done
  <2>2. Cardinality(P!Unchecked(r)') \in Nat /\ excuse'[r] \in Nat
    BY <1>9, ReportSets, OfferSets DEF P!Unchecked, ReportTypes
  <2> QED BY <1>13, <2>1, <2>2
<1>15. \/ job' = job
       \/ \E new \in JobRow :
            /\ job' = [job EXCEPT ![p] = new] /\ new.report = r /\ new.step = "mark"
            /\ new.batch = {} /\ new.left >= 1
            /\ Cardinality(P!Unchecked(r)') <= excuse'[r] + BatchSize * new.left
  <2>1. ASSUME NEW new \in JobRow, BatchSize * new.left >= left
        PROVE  Cardinality(P!Unchecked(r)') <= excuse'[r] + BatchSize * new.left
    <3>1. PICK k \in Int : k = BatchSize * new.left
      BY ReportsAssumption DEF JobRow
    <3>2. Cardinality(P!Unchecked(r)') \in Nat /\ excuse'[r] \in Nat
      BY <1>9, ReportSets, OfferSets DEF P!Unchecked, ReportTypes
    <3> QED BY <1>13, <2>1, <3>1, <3>2
  <2> QED BY <1>7, <2>1
<1>16. /\ excuse'[r] >= excuse[r] + Cardinality(X)
       /\ P!Checked(r)' \subseteq P!Checked(r)
       /\ \A q \in P!Reports \ {r} :
            rows'[q] = rows[q] /\ status'[q] = status[q] /\ excuse'[q] = excuse[q]
  BY <1>1, <1>4, <1>6, <1>10
<1>17. status'[r] # "none"
  BY <1>6
<1> QED BY <1>9, <1>11, <1>14, <1>15, <1>16, <1>17, StartKeeps

LEMMA StartsKeepGaps ==
  ASSUME ReportInv, NEW p \in Procs, NEW r \in P!Reports,
         P!Resume(p, r) \/ P!Restart(p, r) \/ (P!AutoResume /\ r = P!NextToResume /\ p = Sched)
  PROVE  ReportInv'
<1>1. /\ rows[r] \in [Offers -> ReportRow] /\ excuse[r] \in Nat /\ excuse \in [P!Reports -> Nat]
      /\ resume \in SUBSET P!Reports
  BY DEF ReportInv, ReportTypes
<1>2. CASE P!Resume(p, r) \/ (P!AutoResume /\ r = P!NextToResume /\ p = Sched)
  <2>1. /\ P!GoOn(p, r, rows[r]) /\ excuse' = excuse /\ active' = active
        /\ resume' \in SUBSET P!Reports
    BY <1>1, <1>2 DEF P!Resume, P!AutoResume
  <2>2. PICK X \in SUBSET Offers : X = {}
    OBVIOUS
  <2>3. excuse'[r] = excuse[r] + Cardinality(X)
    BY <1>1, <2>1, <2>2, FS_EmptySet
  <2> QED BY <1>1, <2>1, <2>3, GoOnKeepsGaps
<1>3. CASE P!Restart(p, r)
  <2>1. PICK X \in SUBSET Offers : X = P!Errors(r)
    BY DEF P!Errors
  <2>2. PICK kept : kept = P!WithoutErrors(r)
    OBVIOUS
  <2>3. /\ P!GoOn(p, r, kept) /\ excuse' = [excuse EXCEPT ![r] = excuse[r] + Cardinality(X)]
        /\ active' = active /\ resume' = resume
    BY <1>3, <2>1, <2>2, SameSize DEF P!Restart
  <2>4. /\ excuse' \in [P!Reports -> Nat] /\ excuse'[r] = excuse[r] + Cardinality(X)
        /\ \A q \in P!Reports \ {r} : excuse'[q] = excuse[q]
    <3>1. excuse[r] + Cardinality(X) \in Nat
      BY <1>1, OfferSets
    <3> QED BY <1>1, <2>3, <3>1
  <2>5. P!NoRow \in ReportRow /\ P!NoRow.kind = "none"
    BY DEF P!NoRow, P!Row, P!Kinds, ReportRow
  <2>6. \A o \in Offers : kept[o] = IF o \in X THEN P!NoRow ELSE rows[r][o]
    BY <2>1, <2>2 DEF P!WithoutErrors, P!Errors
  <2>7. kept \in [Offers -> ReportRow]
    BY <1>1, <2>2, <2>5 DEF P!WithoutErrors
  <2>8. \A o \in Offers : kept[o] = rows[r][o] \/ (o \in X /\ kept[o].kind = "none")
    BY <2>5, <2>6
  <2>9. resume' \in SUBSET P!Reports
    BY <1>1, <2>3
  <2> QED BY <2>3, <2>4, <2>7, <2>8, <2>9, GoOnKeepsGaps
<1> QED BY <1>2, <1>3

(* The newest of some reports is one of them.                              *)
LEMMA NewestIsOne ==
  ASSUME NEW S, S \subseteq P!Reports, S # {}
  PROVE  P!Newest(S) \in S
<1> DEFINE D == {n \in Nat : MaxReports - n \in S}
           R == OpToRel(<, Nat)
<1>1. D # {}
  <2>1. PICK r \in S : TRUE
    OBVIOUS
  <2>2. MaxReports - r \in Nat /\ MaxReports - (MaxReports - r) = r
    BY ReportsAssumption DEF P!Reports
  <2> QED BY <2>1, <2>2
<1>2. IsWellFoundedOn(R, Nat) /\ D \subseteq Nat
  BY NatLessThanWellFounded
<1>3. \A m, k \in Nat : k < m => <<k, m>> \in R
  BY DEF OpToRel
<1>4. \A n \in D : MaxReports - n \in S
  OBVIOUS
<1>5. \A r \in S : MaxReports - r \in D
  <2>1. \A r \in S : MaxReports - r \in Nat /\ MaxReports - (MaxReports - r) = r
    BY ReportsAssumption DEF P!Reports
  <2> QED BY <2>1
<1> HIDE DEF R, D
<1>6. PICK n \in D : \A k \in D : ~ (<<k, n>> \in R)
  BY <1>1, <1>2, WFMin
<1>7. ASSUME NEW k \in D PROVE n <= k
  <2>1. n \in Nat /\ k \in Nat /\ ~ (<<k, n>> \in R)
    BY <1>2, <1>6
  <2>2. ~ (k < n)
    BY <1>3, <2>1
  <2> QED BY <2>1, <2>2
<1>8. \A r \in S : r <= MaxReports - n
  <2>1. SUFFICES ASSUME NEW r \in S PROVE r <= MaxReports - n
    OBVIOUS
  <2>2. n <= MaxReports - r /\ n \in Nat
    BY <1>2, <1>5, <1>6, <1>7
  <2>3. r \in Int
    BY DEF P!Reports
  <2> QED BY <2>2, <2>3, ReportsAssumption
<1>9. \E r \in S : \A q \in S : q <= r
  BY <1>4, <1>8
<1> QED BY <1>9 DEF P!Newest

LEMMA OutsidersKeepGaps ==
  ASSUME ReportInv,
         \/ P!Boot \/ UNCHANGED reports
         \/ \E p \in Procs : P!Kill(p)
         \/ \E r \in P!Reports, o \in Offers : P!Recheck(r, o)
  PROVE  ReportInv'
<1>1. /\ status' = status /\ active' = active /\ excuse' = excuse
      /\ \/ rows' = rows /\ job' = job
         \/ rows' = rows /\ \E p \in Procs : job' = [job EXCEPT ![p] = P!Idle]
         \/ job' = job /\ \E r \in P!Reports, o \in Offers : P!Recheck(r, o)
      /\ resume' \in SUBSET P!Reports
  BY DEF P!Boot, P!Kill, P!Recheck, P!Set, P!Incomplete, reports, ReportInv, ReportTypes
<1>2. /\ job' \in [Procs -> JobRow]
      /\ \A q \in Procs : job'[q] = job[q] \/ job'[q] = P!Idle
  BY <1>1, IdleType DEF ReportInv, ReportTypes
<1>3. \A q \in Procs : job'[q].step # "idle" => job'[q].report \in P!Reports
  BY <1>2, IdleType DEF ReportInv, ReportTypes
<1>4. /\ rows' \in [P!Reports -> [Offers -> ReportRow]]
      /\ \A q \in P!Reports, x \in Offers : rows'[q][x].kind # "none" <=> rows[q][x].kind # "none"
  <2>1. CASE rows' = rows
    BY <2>1 DEF ReportInv, ReportTypes
  <2>2. ASSUME NEW r \in P!Reports, NEW o \in Offers, P!Recheck(r, o)
        PROVE  /\ rows' \in [P!Reports -> [Offers -> ReportRow]]
               /\ \A q \in P!Reports, x \in Offers :
                    rows'[q][x].kind # "none" <=> rows[q][x].kind # "none"
    <3>1. PICK row : /\ rows' = [rows EXCEPT ![r][o] = row]
                     /\ \/ row = P!Row("sibling", FALSE) \/ row \in P!Outcomes
                        \/ row = [rows[r][o] EXCEPT !.error = TRUE]
      BY <2>2 DEF P!Recheck
    <3>2. rows[r][o] \in ReportRow /\ rows[r][o].kind # "none"
      BY <2>2 DEF P!Recheck, ReportInv, ReportTypes
    <3>3. row \in ReportRow /\ row.kind # "none"
      <4>1. \A kind \in {"rival", "nobody", "sibling"} :
              P!Row(kind, FALSE) \in ReportRow /\ P!Row(kind, FALSE).kind # "none"
        BY DEF P!Row, ReportRow, P!Kinds
      <4>2. CASE row = [rows[r][o] EXCEPT !.error = TRUE]
        BY <3>2, <4>2 DEF ReportRow
      <4>3. CASE row = P!Row("sibling", FALSE) \/ row \in P!Outcomes
        BY <4>1, <4>3, ReportsAssumption DEF P!Outcomes
      <4> QED BY <3>1, <4>2, <4>3
    <3>4. \A q \in P!Reports, x \in Offers :
            rows'[q][x] = IF q = r /\ x = o THEN row ELSE rows[q][x]
      BY <3>1 DEF ReportInv, ReportTypes
    <3>5. rows' \in [P!Reports -> [Offers -> ReportRow]]
      BY <3>1, <3>3 DEF ReportInv, ReportTypes
    <3> QED BY <3>2, <3>3, <3>4, <3>5
  <2> QED BY <1>1, <2>1, <2>2
<1>5. ReportTypes'
  BY <1>1, <1>2, <1>3, <1>4 DEF ReportInv, ReportTypes
<1>6. ASSUME NEW q \in P!Reports PROVE GapInv(q)'
  <2>1. P!Checked(q)' = P!Checked(q)
    BY <1>4 DEF P!Checked
  <2>2. \A u \in Procs : job'[u] = job[u] \/ job'[u].report # q
    <3>1. q # 0
      BY ReportSets DEF ReportInv
    <3> QED BY <1>2, <3>1, IdleType
  <2>3. excuse[q] \in Nat
    BY DEF ReportInv, ReportTypes
  <2> QED BY <1>1, <1>5, <2>1, <2>2, <2>3, SameGap DEF ReportInv
<1> QED BY <1>5, <1>6 DEF ReportInv

LEMMA ChangeKeepsGaps ==
  ASSUME ReportInv, NEW o \in Offers, P!Change(o)
  PROVE  ReportInv'
<1>1. /\ UNCHANGED <<status, rows, job, resume>>
      /\ active' = IF o \in active THEN active \ {o} ELSE active \cup {o}
      /\ excuse' = [r \in P!Reports |-> excuse[r] + IF status[r] = "none" THEN 0 ELSE 1]
  BY DEF P!Change
<1>2. /\ active \in SUBSET Offers /\ active' \in SUBSET Offers
      /\ \A r \in P!Reports : excuse[r] \in Nat
  BY <1>1 DEF ReportInv, ReportTypes
<1>3. /\ excuse' \in [P!Reports -> Nat]
      /\ \A r \in P!Reports : excuse'[r] = IF status[r] = "none" THEN excuse[r] ELSE excuse[r] + 1
  BY <1>1, <1>2
<1>4. ReportTypes'
  BY <1>1, <1>2, <1>3 DEF ReportInv, ReportTypes
<1>5. ASSUME NEW r \in P!Reports, status[r] = "none" PROVE GapInv(r)'
  <2>1. status'[r] = "none" /\ ~ P!Done(r)' /\ P!Checked(r)' = P!Checked(r)
    BY <1>1, <1>5 DEF P!Done, P!Checked
  <2>2. P!Checked(r)' = {} /\ \A p \in Procs : job'[p].report # r
    BY <1>1, <1>5, <2>1 DEF ReportInv, GapInv
  <2>3. Touched(r)' = {}
    BY <2>2 DEF Touched
  <2>4. Cardinality((Touched(r) \ active)') <= excuse'[r]
    <3>1. Touched(r)' \ active' = {} /\ Cardinality({}) = 0
      BY <2>3, FS_EmptySet
    <3>2. 0 <= excuse'[r]
      BY <1>2, <1>3
    <3> QED BY <3>1, <3>2
  <2> QED BY <2>1, <2>2, <2>4 DEF GapInv
<1>6. ASSUME NEW r \in P!Reports, status[r] # "none" PROVE GapInv(r)'
  <2>1. PICK X \in SUBSET Offers : X = {o}
    OBVIOUS
  <2>2. Cardinality(X) = 1
    BY <2>1, FS_Singleton
  <2>3. P!Unchecked(r)' \subseteq P!Unchecked(r) \cup X
    BY <1>1, <2>1 DEF P!Unchecked, P!Checked
  <2>4. (Touched(r) \ active)' \subseteq (Touched(r) \ active) \cup X
    <3>1. Touched(r)' = Touched(r)
      BY <1>1 DEF Touched, P!Checked
    <3> QED BY <1>1, <2>1, <3>1
  <2>5. excuse'[r] >= excuse[r] + Cardinality(X)
    BY <1>2, <1>3, <1>6, <2>2
  <2>6. /\ \A p \in Procs : job'[p] = job[p]
        /\ P!Done(r)' => P!Done(r)
        /\ status'[r] # "none"
    BY <1>1, <1>6 DEF P!Done
  <2> QED BY <1>4, <2>3, <2>4, <2>5, <2>6, GapKept DEF ReportInv
<1> QED BY <1>4, <1>5, <1>6 DEF ReportInv

LEMMA ReportInvStep == ReportInv /\ [P!Next]_reports => ReportInv'
<1> SUFFICES ASSUME ReportInv, [P!Next]_reports PROVE ReportInv'
  OBVIOUS
<1>1. CASE P!Friday
  <2>1. Sched \in Procs /\ P!Create(Sched) /\ UNCHANGED <<rows, active, resume, excuse>>
    BY <1>1, ReportsAssumption DEF P!Friday
  <2> QED BY <2>1, CreateKeepsGaps
<1>2. CASE P!AutoResume
  <2>1. resume # {} /\ resume \subseteq P!Reports
    BY <1>2 DEF P!AutoResume, ReportInv, ReportTypes
  <2>2. P!NextToResume \in P!Reports
    BY <2>1, NewestIsOne DEF P!NextToResume
  <2> QED BY <1>2, <2>2, ReportsAssumption, StartsKeepGaps
<1>3. ASSUME NEW p \in Procs,
             \/ P!StartNow(p) \/ \E r \in P!Reports : P!Resume(p, r) \/ P!Restart(p, r)
             \/ P!Mark(p) \/ P!MarkFails(p) \/ P!Fetch(p) \/ P!BatchFails(p) \/ P!Check(p)
             \/ P!Finish(p) \/ P!FinishFails(p) \/ P!Notify(p) \/ P!Kill(p)
      PROVE  ReportInv'
  <2>1. CASE P!StartNow(p)
    <3>1. P!Create(p) /\ UNCHANGED <<rows, active, resume, excuse>>
      BY <2>1 DEF P!StartNow
    <3> QED BY <3>1, CreateKeepsGaps
  <2>2. CASE \E r \in P!Reports : P!Resume(p, r) \/ P!Restart(p, r)
    BY <2>2, StartsKeepGaps
  <2>3. CASE P!Mark(p) \/ P!MarkFails(p)
    BY <2>3, MarkKeepsGaps
  <2>4. CASE P!Fetch(p) \/ P!BatchFails(p) \/ P!Check(p)
    BY <2>4, FetchKeepsGaps, FailureKeepsGaps, CheckKeepsGaps
  <2>5. CASE P!Finish(p) \/ P!FinishFails(p) \/ P!Notify(p)
    BY <2>5, EndKeepsGaps
  <2>6. CASE P!Kill(p)
    BY <2>6, OutsidersKeepGaps
  <2> QED BY <1>3, <2>1, <2>2, <2>3, <2>4, <2>5, <2>6
<1>4. CASE P!Boot \/ UNCHANGED reports \/ \E r \in P!Reports, o \in Offers : P!Recheck(r, o)
  BY <1>4, OutsidersKeepGaps
<1>5. CASE \E o \in Offers : P!Change(o)
  BY <1>5, ChangeKeepsGaps
<1> QED BY <1>1, <1>2, <1>3, <1>4, <1>5 DEF P!Next, P!Booting

LEMMA ReportInvInit == InitAll => ReportInv
<1> SUFFICES ASSUME P!Init PROVE ReportInv
  BY DEF InitAll
<1>1. P!NoRow \in ReportRow /\ P!NoRow.kind = "none"
  BY DEF P!NoRow, P!Row, P!Kinds, ReportRow
<1>2. ReportTypes
  BY <1>1, IdleType DEF P!Init, ReportTypes
<1>3. ASSUME NEW r \in P!Reports PROVE GapInv(r)
  <2>1. P!Checked(r) = {} /\ status[r] = "none" /\ excuse[r] = 0 /\ ~ P!Done(r)
    BY <1>1 DEF P!Init, P!Checked, P!Done
  <2>2. \A p \in Procs : job[p].report # r
    <3>1. r # 0
      BY DEF P!Reports
    <3> QED BY <3>1, IdleType DEF P!Init
  <2>3. Touched(r) \ active = {}
    BY <2>1, <2>2 DEF Touched
  <2> QED BY <2>1, <2>2, <2>3, FS_EmptySet DEF GapInv
<1> QED BY <1>2, <1>3 DEF ReportInv

(* Whatever fails, is killed, resumed, restarted or rechecked, and however *)
(* many threads work at it: what a completed report has not looked at is   *)
(* no more than its batches lost and than the offers that came and went.   *)
THEOREM GapsAccounted == FairSpec => []GapsExplained
<1>1. InitAll => ReportInv
  BY ReportInvInit
<1>2. ReportInv /\ [NextAll]_all => ReportInv'
  <2> SUFFICES ASSUME ReportInv, [NextAll]_all PROVE ReportInv'
    OBVIOUS
  <2>1. [P!Next]_reports
    BY DEF NextAll, all
  <2> QED BY <2>1, ReportInvStep
<1>3. ReportInv => GapsExplained
  BY SameSize DEF ReportInv, GapInv, GapsExplained, P!GapsExplained
<1>4. FairSpec => InitAll /\ [][NextAll]_all
  BY PTL DEF FairSpec
<1> QED BY <1>1, <1>2, <1>3, <1>4, PTL

-----------------------------------------------------------------------------
(* Results: while a report is one thread's alone, an offer of its batch    *)
(* has no result yet, so a check that fails replaces none.                 *)

Solo(r) ==
  \A p \in Procs : job[p].report = r =>
    /\ \A q \in Procs : job[q].report = r => q = p
    /\ \A o \in job[p].batch : rows[r][o] \notin P!Outcomes

SoloInv == ReportInv /\ \A r \in P!Reports \ shared : Solo(r)

Keeping ==
  \A r \in P!Reports, o \in Offers :
    rows[r][o] \in P!Outcomes /\ rows'[r][o].error => r \in shared \/ UNCHANGED job

LEMMA OutcomeRows ==
  /\ \A row \in P!Outcomes : row.kind \notin {"none", "sibling"} /\ ~ row.error
  /\ P!NoRow.kind = "none" /\ ~ P!NoRow.error
  /\ P!Row("sibling", FALSE).kind = "sibling" /\ ~ P!Row("sibling", FALSE).error
<1>1. \A kind \in {"rival", "nobody"} :
        P!Row(kind, FALSE).kind \notin {"none", "sibling"} /\ ~ P!Row(kind, FALSE).error
  BY DEF P!Row
<1> QED BY <1>1, ReportsAssumption DEF P!Outcomes, P!NoRow, P!Row

(* a thread takes a step of its own, or is killed                          *)
LEMMA ThreadSolo ==
  ASSUME SoloInv, ReportInv', NEW p \in Procs, NEW next,
         job' = [job EXCEPT ![p] = next], next.report \in {0, job[p].report}, shared' = shared,
         \A r \in P!Reports : r # job[p].report => rows'[r] = rows[r],
         \A r \in P!Reports \ shared : r = job[p].report =>
           \A o \in next.batch : rows'[r][o] \notin P!Outcomes
  PROVE  SoloInv'
<1>1. job'[p] = next /\ \A q \in Procs \ {p} : job'[q] = job[q]
  BY DEF SoloInv, ReportInv, ReportTypes
<1>2. ASSUME NEW r \in P!Reports \ shared PROVE Solo(r)'
  <2>1. Solo(r) /\ r # 0
    BY DEF SoloInv, P!Reports
  <2>2. \A q \in Procs : job'[q].report = r => job[q].report = r
    BY <1>1, <2>1
  <2>3. ASSUME NEW q \in Procs, job'[q].report = r, NEW o \in job'[q].batch
        PROVE  rows'[r][o] \notin P!Outcomes
    <3>1. CASE q = p
      BY <1>1, <2>2, <2>3, <3>1
    <3>2. CASE q # p
      <4>1. r # job[p].report
        BY <2>1, <2>2, <2>3, <3>2 DEF Solo
      <4>2. rows'[r] = rows[r] /\ job'[q] = job[q]
        BY <1>1, <3>2, <4>1
      <4> QED BY <2>1, <2>3, <4>2 DEF Solo
    <3> QED BY <3>1, <3>2
  <2>4. P!Outcomes' = P!Outcomes
    BY DEF P!Outcomes
  <2> QED BY <2>1, <2>2, <2>3, <2>4 DEF Solo
<1> QED BY <1>2 DEF SoloInv

LEMMA WorkersSolo ==
  ASSUME SoloInv, ReportInv', NEW p \in Procs,
         \/ P!MarkFails(p) \/ P!BatchFails(p) \/ P!Finish(p) \/ P!FinishFails(p)
         \/ P!Notify(p) \/ P!Kill(p)
  PROVE  SoloInv' /\ Keeping
<1>1. rows' = rows /\ shared' = shared
  BY DEF P!MarkFails, P!BatchFails, P!Finish, P!FinishFails, P!Notify, P!Kill, P!history
<1>2. job[p] \in JobRow
  BY DEF SoloInv, ReportInv, ReportTypes
<1>3. PICK next : /\ job' = [job EXCEPT ![p] = next]
                  /\ \/ next.report = job[p].report /\ next.batch \subseteq job[p].batch
                     \/ next.report = 0 /\ next.batch = {}
  <2>1. CASE P!MarkFails(p)
    <3>1. PICK k : k = [job[p] EXCEPT !.step = "fetch"]
      OBVIOUS
    <3>2. k.report = job[p].report /\ k.batch = job[p].batch
      BY <1>2, <3>1 DEF JobRow
    <3>3. job' = [job EXCEPT ![p] = k]
      BY <2>1, <3>1 DEF P!MarkFails, P!Set
    <3> QED BY <3>2, <3>3
  <2>2. CASE P!Finish(p)
    <3>1. PICK k : k = [job[p] EXCEPT !.step = "notify"]
      OBVIOUS
    <3>2. k.report = job[p].report /\ k.batch = job[p].batch
      BY <1>2, <3>1 DEF JobRow
    <3>3. job' = [job EXCEPT ![p] = k]
      BY <2>2, <3>1 DEF P!Finish, P!Set
    <3> QED BY <3>2, <3>3
  <2>3. CASE P!BatchFails(p)
    <3>1. job' = [job EXCEPT ![p] = P!AfterBatch(p)]
      BY <2>3 DEF P!BatchFails, P!Set
    <3> QED BY <1>2, <3>1, AfterBatchIs
  <2>4. CASE P!FinishFails(p) \/ P!Notify(p) \/ P!Kill(p)
    <3>1. job' = [job EXCEPT ![p] = P!Idle]
      BY <2>4 DEF P!FinishFails, P!Notify, P!Kill, P!Set
    <3> QED BY <3>1, IdleType
  <2> QED BY <2>1, <2>2, <2>3, <2>4
<1>4. \A r \in P!Reports \ shared : r = job[p].report =>
        \A o \in next.batch : rows'[r][o] \notin P!Outcomes
  BY <1>1, <1>3 DEF SoloInv, Solo
<1>5. SoloInv'
  BY <1>1, <1>3, <1>4, ThreadSolo
<1>6. Keeping
  BY <1>1, OutcomeRows DEF Keeping
<1> QED BY <1>5, <1>6

LEMMA MarkSolo ==
  ASSUME SoloInv, ReportInv', NEW p \in Procs, P!Mark(p)
  PROVE  SoloInv' /\ Keeping
<1>1. job[p].step = "mark" /\ shared' = shared
  BY DEF P!Mark, P!At, P!history
<1>2. PICK r \in P!Reports : r = job[p].report /\ ThreadGap(p, r) /\ job[p] \in JobRow
  BY <1>1, AtReport DEF SoloInv
<1>3. PICK dear : dear = {o \in P!Unchecked(r) : Cheaper[o] \cap active # {}}
  OBVIOUS
<1>4. PICK next : next = [job[p] EXCEPT !.step = "fetch"]
  OBVIOUS
<1>5. next.report = r /\ next.batch = {}
  BY <1>1, <1>2, <1>4 DEF JobRow, ThreadGap
<1>6. /\ job' = [job EXCEPT ![p] = next]
      /\ rows' = [rows EXCEPT ![r] = [o \in Offers |-> IF o \in dear THEN P!Row("sibling", FALSE)
                                                       ELSE rows[r][o]]]
  BY <1>2, <1>3, <1>4 DEF P!Mark, P!Set
<1>7. /\ \A q \in P!Reports : q # r => rows'[q] = rows[q]
      /\ \A o \in Offers : rows'[r][o] \in {rows[r][o], P!Row("sibling", FALSE)}
  BY <1>6 DEF SoloInv, ReportInv, ReportTypes
<1>8. SoloInv'
  BY <1>1, <1>2, <1>5, <1>6, <1>7, ThreadSolo
<1>9. Keeping
  BY <1>7, OutcomeRows DEF Keeping
<1> QED BY <1>8, <1>9

LEMMA FetchSolo ==
  ASSUME SoloInv, ReportInv', NEW p \in Procs, P!Fetch(p)
  PROVE  SoloInv' /\ Keeping
<1>1. job[p].step = "fetch" /\ shared' = shared /\ rows' = rows
  BY DEF P!Fetch, P!At, P!history
<1>2. PICK r \in P!Reports : r = job[p].report /\ ThreadGap(p, r) /\ job[p] \in JobRow
  BY <1>1, AtReport DEF SoloInv
<1>3. PICK U \in SUBSET Offers : U = P!Unchecked(r) /\ U = P!ToCheck(job[p].report)
  BY <1>2, ReportSets DEF SoloInv, ReportInv, P!ToCheck
<1>4. PICK next : /\ job' = [job EXCEPT ![p] = next] /\ next.report = r
                  /\ next.batch \subseteq U
  <2>1. CASE U = {}
    <3>1. PICK k : k = [job[p] EXCEPT !.step = "end"]
      OBVIOUS
    <3>2. k.report = r /\ k.batch = {}
      BY <1>1, <1>2, <3>1 DEF JobRow, ThreadGap
    <3>3. job' = [job EXCEPT ![p] = k]
      BY <1>3, <2>1, <3>1 DEF P!Fetch, P!Set
    <3> QED BY <3>2, <3>3
  <2>2. CASE U # {}
    <3>1. IF P!ToCheck(job[p].report) = {} THEN TRUE
          ELSE \E batch \in SUBSET P!ToCheck(job[p].report) : P!Set(p, P!Checking(p, batch))
      BY DEF P!Fetch
    <3>2. PICK batch \in SUBSET U : P!Set(p, P!Checking(p, batch))
      BY <1>3, <2>2, <3>1
    <3>3. batch \in SUBSET Offers
      OBVIOUS
    <3>4. P!Checking(p, batch).report = r /\ P!Checking(p, batch).batch = batch
      BY <1>2, <3>3, CheckingIs
    <3> QED BY <3>2, <3>4 DEF P!Set
  <2> QED BY <2>1, <2>2
<1>5. \A o \in U : rows'[r][o] \notin P!Outcomes
  BY <1>1, <1>3, OutcomeRows DEF P!Unchecked, P!Checked
<1>6. SoloInv'
  BY <1>1, <1>2, <1>4, <1>5, ThreadSolo
<1>7. Keeping
  BY <1>1, OutcomeRows DEF Keeping
<1> QED BY <1>6, <1>7

LEMMA CheckSolo ==
  ASSUME SoloInv, ReportInv', NEW p \in Procs, P!Check(p)
  PROVE  SoloInv' /\ Keeping
<1>1. job[p].step = "check" /\ shared' = shared
  BY DEF P!Check, P!At
<1>2. PICK r \in P!Reports :
        /\ r = job[p].report /\ job[p] \in JobRow /\ job[p].batch \in SUBSET Offers
        /\ rows[r] \in [Offers -> ReportRow]
  BY <1>1, AtReport DEF SoloInv
<1>3. PICK o \in job[p].batch, found \in P!Outcomes \cup {P!Row("nobody", TRUE)}, dialog \in SUBSET Offers :
        /\ rows' = [rows EXCEPT ![r] = P!Saved(rows[r], o, found, dialog)]
        /\ P!Set(p, IF job[p].batch = {o} THEN P!AfterBatch(p) ELSE [job[p] EXCEPT !.batch = @ \ {o}])
  BY <1>2 DEF P!Check
<1>4. PICK next : /\ job' = [job EXCEPT ![p] = next] /\ next.report = r
                  /\ next.batch \subseteq job[p].batch \ {o}
  <2>1. CASE job[p].batch = {o}
    BY <1>2, <1>3, <2>1, AfterBatchIs DEF P!Set
  <2>2. CASE job[p].batch # {o}
    <3>1. PICK k : k = [job[p] EXCEPT !.batch = @ \ {o}]
      OBVIOUS
    <3>2. k.report = r /\ k.batch = job[p].batch \ {o}
      BY <1>2, <3>1 DEF JobRow
    <3>3. job' = [job EXCEPT ![p] = k]
      BY <1>3, <2>2, <3>1 DEF P!Set
    <3> QED BY <3>2, <3>3
  <2> QED BY <2>1, <2>2
<1>5. /\ \A q \in P!Reports : q # r => rows'[q] = rows[q]
      /\ \A x \in Offers : x # o => rows'[r][x] \in {rows[r][x], P!Row("sibling", FALSE)}
  BY <1>2, <1>3 DEF SoloInv, ReportInv, ReportTypes, P!Saved
<1>6. r \notin shared => \A x \in job[p].batch : rows[r][x] \notin P!Outcomes
  BY <1>2 DEF SoloInv, Solo
<1>7. \A x \in Offers : x # o /\ rows[r][x] \notin P!Outcomes => rows'[r][x] \notin P!Outcomes
  BY <1>5, OutcomeRows
<1>8. r \notin shared => \A x \in next.batch : rows'[r][x] \notin P!Outcomes
  BY <1>2, <1>4, <1>6, <1>7
<1>9. SoloInv'
  BY <1>1, <1>2, <1>4, <1>5, <1>8, ThreadSolo
<1>10. Keeping
  <2>1. SUFFICES ASSUME NEW q \in P!Reports, NEW x \in Offers, q \notin shared,
                        rows[q][x] \in P!Outcomes, rows'[q][x].error
                 PROVE  FALSE
    BY DEF Keeping
  <2>2. CASE q # r
    BY <1>5, <2>1, <2>2, OutcomeRows
  <2>3. CASE q = r /\ x # o
    BY <1>5, <2>1, <2>3, OutcomeRows
  <2>4. CASE q = r /\ x = o
    BY <1>6, <2>1, <2>4
  <2> QED BY <2>2, <2>3, <2>4
<1> QED BY <1>9, <1>10

(* a thread may start at a report, whose rows are kept or dropped          *)
LEMMA StartSolo ==
  ASSUME SoloInv, ReportInv', NEW p \in Procs, NEW r \in P!Reports,
         (job' = job /\ shared' = shared) \/ (\E n : P!StartWorker(p, r, n)),
         \A q \in P!Reports : q # r => rows'[q] = rows[q],
         \A o \in Offers : rows'[r][o] \in {rows[r][o], P!NoRow}
  PROVE  SoloInv' /\ Keeping
<1>1. \/ job' = job /\ shared' = shared
      \/ \E new : /\ job' = [job EXCEPT ![p] = new] /\ new.report = r /\ new.batch = {}
                  /\ shared' = IF \E q \in Procs : job[q].report = r THEN shared \cup {r} ELSE shared
  <2>1. ASSUME NEW n, P!StartWorker(p, r, n), job[p] = P!Idle
        PROVE  \E new : /\ job' = [job EXCEPT ![p] = new] /\ new.report = r /\ new.batch = {}
                  /\ shared' = IF \E q \in Procs : job[q].report = r THEN shared \cup {r} ELSE shared
    <3>1. PICK new : new = [report |-> r, step |-> "mark", left |-> P!Batches(n), batch |-> {}]
      OBVIOUS
    <3>2. new.report = r /\ new.batch = {}
      BY <3>1
    <3>3. /\ job' = [job EXCEPT ![p] = new]
          /\ shared' = IF \E q \in Procs : job[q].report = r THEN shared \cup {r} ELSE shared
      BY <2>1, <3>1 DEF P!StartWorker
    <3> QED BY <3>2, <3>3
  <2>2. ASSUME NEW n, P!StartWorker(p, r, n), job[p] # P!Idle
        PROVE  job' = job /\ shared' = shared
    BY <2>2 DEF P!StartWorker
  <2> QED BY <2>1, <2>2
<1>2. shared \subseteq shared'
  BY <1>1
<1>3. \A q \in Procs : job'[q] = job[q] \/ (job'[q].report = r /\ job'[q].batch = {} /\ q = p)
  BY <1>1 DEF SoloInv, ReportInv, ReportTypes
<1>4. ASSUME NEW s \in P!Reports \ shared' PROVE Solo(s)'
  <2>1. s \notin shared /\ Solo(s)
    BY <1>2 DEF SoloInv
  <2>2. ASSUME NEW q \in Procs, job'[q].report = s, NEW u \in Procs, job'[u].report = s PROVE u = q
    <3>1. CASE job'[q] = job[q] /\ job'[u] = job[u]
      BY <2>1, <2>2, <3>1 DEF Solo
    <3>2. CASE job'[q] # job[q] \/ job'[u] # job[u]
      <4>1. s = r /\ job' # job
        BY <1>3, <2>2, <3>2
      <4>2. \A v \in Procs : job[v].report # r
        BY <1>1, <4>1
      <4> QED BY <1>3, <2>2, <4>1, <4>2
    <3> QED BY <3>1, <3>2
  <2>3. ASSUME NEW q \in Procs, job'[q].report = s, NEW o \in job'[q].batch
        PROVE  rows'[s][o] \notin P!Outcomes
    <3>1. job'[q] = job[q] /\ o \in Offers
      <4>1. job'[q] = job[q]
        BY <1>3, <2>3
      <4>2. job[q] \in JobRow
        BY DEF SoloInv, ReportInv, ReportTypes
      <4> QED BY <2>3, <4>1, <4>2 DEF JobRow
    <3>2. rows[s][o] \notin P!Outcomes
      BY <2>1, <2>3, <3>1 DEF Solo
    <3>3. rows'[s][o] \in {rows[s][o], P!NoRow}
      BY <3>1
    <3> QED BY <3>2, <3>3, OutcomeRows
  <2>4. P!Outcomes' = P!Outcomes
    BY DEF P!Outcomes
  <2> QED BY <2>2, <2>3, <2>4 DEF Solo
<1>5. Keeping
  <2>1. \A s \in P!Reports, o \in Offers : rows'[s][o] \in {rows[s][o], P!NoRow}
    OBVIOUS
  <2> QED BY <2>1, OutcomeRows DEF Keeping
<1> QED BY <1>4, <1>5 DEF SoloInv

LEMMA OutsidersSolo ==
  ASSUME SoloInv, ReportInv',
         \/ P!Boot \/ UNCHANGED reports \/ \E o \in Offers : P!Change(o)
         \/ \E r \in P!Reports, o \in Offers : P!Recheck(r, o)
  PROVE  SoloInv' /\ Keeping
<1>1. job' = job
  BY DEF P!Boot, reports, P!Change, P!Recheck
<1>2. \/ rows' = rows /\ shared' = shared
      \/ \E r \in P!Reports :
           /\ \A q \in P!Reports : q # r => rows'[q] = rows[q]
           /\ shared' = IF \E p \in Procs : job[p].report = r THEN shared \cup {r} ELSE shared
  <2>1. ASSUME NEW r \in P!Reports, NEW o \in Offers, P!Recheck(r, o)
        PROVE  /\ \A q \in P!Reports : q # r => rows'[q] = rows[q]
               /\ shared' = IF \E p \in Procs : job[p].report = r THEN shared \cup {r} ELSE shared
    <3>1. PICK row : rows' = [rows EXCEPT ![r][o] = row]
      BY <2>1 DEF P!Recheck
    <3> QED BY <2>1, <3>1 DEF P!Recheck, SoloInv, ReportInv, ReportTypes
  <2>2. CASE P!Boot \/ UNCHANGED reports \/ \E o \in Offers : P!Change(o)
    BY <2>2 DEF P!Boot, reports, P!Change
  <2> QED BY <2>1, <2>2
<1>3. P!Outcomes' = P!Outcomes
  BY DEF P!Outcomes
<1>4. ASSUME NEW s \in P!Reports \ shared' PROVE Solo(s)'
  <2>1. s \notin shared /\ Solo(s)
    BY <1>2 DEF SoloInv
  <2>2. rows'[s] = rows[s] \/ \A p \in Procs : job[p].report # s
    BY <1>2
  <2> QED BY <1>1, <1>3, <2>1, <2>2 DEF Solo
<1> QED BY <1>1, <1>4 DEF SoloInv, Keeping

LEMMA SoloInvStep == SoloInv /\ [P!Next]_reports => SoloInv' /\ Keeping
<1> SUFFICES ASSUME SoloInv, [P!Next]_reports PROVE SoloInv' /\ Keeping
  OBVIOUS
<1>1. ReportInv'
  BY ReportInvStep DEF SoloInv
<1>2. ASSUME NEW p \in Procs, P!Create(p), rows' = rows PROVE SoloInv' /\ Keeping
  <2>1. PICK r \in P!Reports : \E n : P!StartWorker(p, r, n)
    BY <1>2 DEF P!Create
  <2> QED BY <1>1, <1>2, <2>1, StartSolo
<1>3. ASSUME NEW p \in Procs, NEW r \in P!Reports, NEW kept, P!GoOn(p, r, kept),
             \A o \in Offers : kept[o] \in {rows[r][o], P!NoRow}
      PROVE  SoloInv' /\ Keeping
  <2>1. /\ rows' = [rows EXCEPT ![r] = kept]
        /\ (job' = job /\ shared' = shared) \/ (\E n : P!StartWorker(p, r, n))
    BY <1>3 DEF P!GoOn
  <2>2. rows'[r] = kept /\ \A q \in P!Reports : q # r => rows'[q] = rows[q]
    BY <2>1 DEF SoloInv, ReportInv, ReportTypes
  <2> QED BY <1>1, <1>3, <2>1, <2>2, StartSolo
<1>4. CASE P!Friday
  BY <1>2, <1>4, ReportsAssumption DEF P!Friday
<1>5. CASE P!AutoResume
  <2>1. resume # {} /\ resume \subseteq P!Reports
    BY <1>5 DEF P!AutoResume, SoloInv, ReportInv, ReportTypes
  <2>2. PICK r \in P!Reports : r = P!NextToResume
    BY <2>1, NewestIsOne DEF P!NextToResume
  <2>3. P!GoOn(Sched, r, rows[r])
    BY <1>5, <2>2 DEF P!AutoResume
  <2> QED BY <1>3, <2>3, ReportsAssumption
<1>6. ASSUME NEW p \in Procs, NEW r \in P!Reports, P!Resume(p, r) \/ P!Restart(p, r)
      PROVE  SoloInv' /\ Keeping
  <2>1. P!GoOn(p, r, rows[r]) \/ P!GoOn(p, r, P!WithoutErrors(r))
    BY <1>6 DEF P!Resume, P!Restart
  <2>2. \A o \in Offers : P!WithoutErrors(r)[o] \in {rows[r][o], P!NoRow}
    BY DEF P!WithoutErrors
  <2> QED BY <1>3, <2>1, <2>2
<1>7. ASSUME NEW p \in Procs,
             \/ P!StartNow(p)
             \/ P!Mark(p) \/ P!MarkFails(p) \/ P!Fetch(p) \/ P!BatchFails(p) \/ P!Check(p)
             \/ P!Finish(p) \/ P!FinishFails(p) \/ P!Notify(p) \/ P!Kill(p)
      PROVE  SoloInv' /\ Keeping
  <2>1. CASE P!StartNow(p)
    BY <1>2, <2>1 DEF P!StartNow
  <2>2. CASE P!Mark(p) \/ P!Fetch(p) \/ P!Check(p)
    BY <1>1, <2>2, MarkSolo, FetchSolo, CheckSolo
  <2>3. CASE \/ P!MarkFails(p) \/ P!BatchFails(p) \/ P!Finish(p) \/ P!FinishFails(p)
             \/ P!Notify(p) \/ P!Kill(p)
    BY <1>1, <2>3, WorkersSolo
  <2> QED BY <1>7, <2>1, <2>2, <2>3
<1>8. CASE \/ P!Boot \/ UNCHANGED reports \/ \E o \in Offers : P!Change(o)
           \/ \E r \in P!Reports, o \in Offers : P!Recheck(r, o)
  BY <1>1, <1>8, OutsidersSolo
<1> QED BY <1>4, <1>5, <1>6, <1>7, <1>8 DEF P!Next, P!Booting

(* No check that fails replaces the result of another, unless two have     *)
(* worked at the report: the guard of one thread in each process is enough *)
(* within a process, and nothing guards a report against another process.  *)
THEOREM ResultsNotLost == FairSpec => ResultsKept
<1>1. InitAll => SoloInv
  <2> SUFFICES ASSUME InitAll PROVE SoloInv
    OBVIOUS
  <2>1. ReportInv
    BY ReportInvInit
  <2>2. ASSUME NEW r \in P!Reports PROVE Solo(r)
    <3>1. r # 0 /\ \A p \in Procs : job[p] = P!Idle
      BY DEF InitAll, P!Init, P!Reports
    <3> QED BY <3>1, IdleType DEF Solo
  <2> QED BY <2>1, <2>2 DEF SoloInv
<1>2. SoloInv /\ [NextAll]_all => SoloInv'
  <2> SUFFICES ASSUME SoloInv, [NextAll]_all PROVE SoloInv'
    OBVIOUS
  <2>1. [P!Next]_reports
    BY DEF NextAll, all
  <2> QED BY <2>1, SoloInvStep
<1>3. FairSpec => InitAll /\ [][NextAll]_all
  BY PTL DEF FairSpec
<1>4. SoloInv /\ [NextAll]_all =>
        [\A r \in P!Reports, o \in Offers :
           /\ rows[r][o] \in P!Outcomes
           /\ rows'[r][o].error
           => r \in shared \/ UNCHANGED job]_(P!vars)
  <2> SUFFICES ASSUME SoloInv, [NextAll]_all PROVE Keeping
    BY DEF Keeping
  <2>1. [P!Next]_reports
    BY DEF NextAll, all
  <2> QED BY <2>1, SoloInvStep
<1> QED BY <1>1, <1>2, <1>3, <1>4, PTL DEF ResultsKept, P!ResultsKept

=============================================================================
