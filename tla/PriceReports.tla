---------------------------- MODULE PriceReports ----------------------------
(***************************************************************************)
(* Price reports: every active offer is compared with its competitors, in  *)
(* batches, by a worker thread of the gunicorn worker that started or      *)
(* resumed the report.  A gunicorn worker has one such thread at most; the *)
(* one with the scheduler starts reports on Fridays and resumes unfinished *)
(* ones when it boots; pages start, resume, restart and recheck in any.    *)
(*                                                                         *)
(* The short transactions are one step each, the check of an offer in a    *)
(* browser lies between the fetch of its batch and the save of its row.    *)
(* Prices stay as they are: Cheaper says which of our own offers undercut  *)
(* an offer of the same variant.                                           *)
(***************************************************************************)
EXTENDS Integers, FiniteSets

CONSTANTS
  Procs, Sched,      \* the gunicorn workers, the one with the scheduler
  Offers, Cheaper,   \* our offers; the cheaper ones of the same variant
  BatchSize, Found,  \* what a check may find: "rival", a competitor, or "nobody"
  MaxReports, MaxEvents  \* bounds: reports; requests, failures, kills and offers that
                         \* begin or end, all together

VARIABLES
  status, rows,    \* price_reports.status; price_report_items of a report, by offer
  active,          \* the offers whose publication_status is ACTIVE
  job,             \* the worker thread of each process
  up, resume,      \* the scheduler's process has booted; reports it has yet to resume
  excuse, erased, shared, lost,  \* history: how many offers a report may miss; the rows a
                   \* restart removed; reports two worked on; reports whose thread died
  spent            \* what MaxEvents is about, so far

vars == <<status, rows, active, job, up, resume, excuse, erased, shared, lost, spent>>
history == <<excuse, erased, shared, lost>>

Reports == 1..MaxReports
Kinds == {"none", "rival", "nobody", "sibling"}  \* no row, the cheapest competitor, none, "Inna OK"
Row(kind, error) == [kind |-> kind, error |-> error]
NoRow == Row("none", FALSE)
Idle == [report |-> 0, step |-> "idle", left |-> 0, batch |-> {}]

Init ==
  /\ status = [r \in Reports |-> "none"] /\ rows = [r \in Reports |-> [o \in Offers |-> NoRow]]
  /\ active = Offers /\ job = [p \in Procs |-> Idle] /\ up = TRUE /\ resume = {}
  /\ excuse = [r \in Reports |-> 0] /\ erased = [r \in Reports |-> {}]
  /\ shared = {} /\ lost = {}
  /\ spent = 0

Spend == spent < MaxEvents /\ spent' = spent + 1

Incomplete == {r \in Reports : status[r] \in {"pending", "running"}}
Done(r) == status[r] \in {"completed", "completed_with_errors"}
Checked(r) == {o \in Offers : rows[r][o].kind # "none"}
Unchecked(r) == active \ Checked(r)
Errors(r) == {o \in Offers : rows[r][o].error}
Smaller(m, n) == IF m < n THEN m ELSE n
Larger(m, n) == IF m > n THEN m ELSE n
Newest(S) == CHOOSE r \in S : \A q \in S : q <= r

-----------------------------------------------------------------------------
(* Starting, resuming and restarting.                                      *)

Batches(n) == Larger((n + BatchSize - 1) \div BatchSize, 1)

(* _start_worker: not beside another thread of this process *)
StartWorker(p, r, offers) ==
  IF job[p] # Idle THEN UNCHANGED <<job, shared>>
  ELSE /\ job' = [job EXCEPT ![p] = [report |-> r, step |-> "mark",
                                     left |-> Batches(offers), batch |-> {}]]
       /\ shared' = IF \E q \in Procs : job[q].report = r THEN shared \cup {r} ELSE shared

(* finalize_report, whatever is left unchecked *)
Final(row) == IF \E o \in Offers : row[o].error THEN "completed_with_errors" ELSE "completed"

(* create_new_report and a worker; when there is one already the report stays pending *)
Create(p) ==
  \E r \in Reports :
    /\ status[r] = "none" /\ \A q \in 1..(r - 1) : status[q] # "none"
    /\ status' = [status EXCEPT ![r] = "pending"]
    /\ StartWorker(p, r, Cardinality(active))

(* what a resume and a restart do with the rows they keep; the offers that are left are
   counted before the deletions of this session are flushed (autoflush is off) *)
GoOn(p, r, kept) ==
  LET left == Cardinality(active) - Cardinality(Checked(r)) IN
  /\ status[r] # "none"
  /\ rows' = [rows EXCEPT ![r] = kept]
  /\ IF left > 0
     THEN status' = [status EXCEPT ![r] = "running"] /\ StartWorker(p, r, left)
     ELSE status' = [status EXCEPT ![r] = Final(kept)] /\ UNCHANGED <<job, shared>>

WithoutErrors(r) == [o \in Offers |-> IF rows[r][o].error THEN NoRow ELSE rows[r][o]]

Serves(p) == p = Sched => up /\ resume = {}

StartNow(p) ==
  /\ Serves(p) /\ Spend /\ Create(p)
  /\ UNCHANGED <<rows, active, up, resume, excuse, erased, lost>>

Resume(p, r) ==
  /\ Serves(p) /\ Spend /\ GoOn(p, r, rows[r])
  /\ UNCHANGED <<active, up, resume, excuse, erased, lost>>

Restart(p, r) ==
  /\ Serves(p) /\ Spend /\ GoOn(p, r, WithoutErrors(r))
  /\ erased' = [erased EXCEPT ![r] = @ \cup Errors(r)]
  /\ excuse' = [excuse EXCEPT ![r] = @ + Cardinality(Errors(r))]
  /\ UNCHANGED <<active, up, resume, lost>>

Friday ==
  /\ up /\ Incomplete = {} /\ Create(Sched)
  /\ UNCHANGED <<rows, active, up, resume, excuse, erased, lost, spent>>

(* auto_resume_incomplete_reports: the list is read once, the newest comes first *)
Boot ==
  /\ ~up /\ up' = TRUE /\ resume' = Incomplete /\ lost' = lost \ Incomplete
  /\ UNCHANGED <<status, rows, active, job, excuse, erased, shared, spent>>

OldestToResume == CHOOSE r \in resume : \A q \in resume : r <= q
NextToResume == Newest(resume)

AutoResume ==
  /\ resume # {} /\ resume' = resume \ {NextToResume}
  /\ GoOn(Sched, NextToResume, rows[NextToResume])
  /\ UNCHANGED <<active, up, excuse, erased, lost, spent>>

-----------------------------------------------------------------------------
(* run_report_worker.                                                      *)

At(p, step) == job[p].step = step
Set(p, next) == job' = [job EXCEPT ![p] = next]

(* mark_sibling_offers: a dearer offer of a variant needs no check *)
Mark(p) ==
  LET r == job[p].report
      dear == {o \in Unchecked(r) : Cheaper[o] \cap active # {}} IN
  /\ At(p, "mark") /\ Set(p, [job[p] EXCEPT !.step = "fetch"])
  /\ rows' = [rows EXCEPT ![r] = [o \in Offers |-> IF o \in dear THEN Row("sibling", FALSE)
                                                   ELSE @[o]]]
  /\ status' = IF dear = {} THEN status ELSE [status EXCEPT ![r] = "running"]
  /\ UNCHANGED <<active, up, resume, history, spent>>

(* an error here is logged and the siblings are checked like the others *)
MarkFails(p) ==
  /\ At(p, "mark") /\ Set(p, [job[p] EXCEPT !.step = "fetch"]) /\ Spend
  /\ UNCHANGED <<status, rows, active, up, resume, history>>

AfterBatchEarly(p) ==
  [job[p] EXCEPT !.left = @ - 1, !.batch = {},
                 !.step = IF job[p].left > 2 THEN "fetch" ELSE "end"]

AfterBatch(p) ==
  [job[p] EXCEPT !.left = @ - 1, !.batch = {},
                 !.step = IF job[p].left > 1 THEN "fetch" ELSE "end"]

ToCheckAgain(r) == IF Unchecked(r) = {} THEN {} ELSE active
ToCheck(r) == Unchecked(r)

Checking(p, batch) == [job[p] EXCEPT !.step = "check", !.batch = batch]

Fetch(p) ==
  LET todo == ToCheck(job[p].report) IN
  /\ At(p, "fetch")
  /\ IF todo = {} THEN Set(p, [job[p] EXCEPT !.step = "end"])
     ELSE \E batch \in SUBSET todo :
            /\ Cardinality(batch) = Smaller(BatchSize, Cardinality(todo))
            /\ Set(p, Checking(p, batch))
  /\ UNCHANGED <<status, rows, active, up, resume, history, spent>>

(* the rest of the batch is dropped, and the batch counts *)
BatchFails(p) ==
  /\ job[p].step \in {"fetch", "check"} /\ Spend /\ Set(p, AfterBatch(p))
  /\ excuse' = [excuse EXCEPT ![job[p].report] = @ + BatchSize]
  /\ UNCHANGED <<status, rows, active, up, resume, erased, shared, lost>>

(* save_report_item: the row of o, and rows of dearer offers the dialog showed *)
Saved(row, o, found, dialog) ==
  [x \in Offers |->
     IF x = o THEN found
     ELSE IF x \in dialog /\ row[x].kind \in {"none", "rival"} THEN Row("sibling", FALSE)
     ELSE row[x]]

Outcomes == {Row(kind, FALSE) : kind \in Found}

(* _check_offer; saving sets the report running again, whoever has completed it *)
Check(p) ==
  LET r == job[p].report IN
  /\ At(p, "check")
  /\ \E o \in job[p].batch, found \in Outcomes \cup {Row("nobody", TRUE)} :
     \E dialog \in SUBSET (IF found.error THEN {} ELSE {x \in Offers : o \in Cheaper[x]}) :
       /\ rows' = [rows EXCEPT ![r] = Saved(@, o, found, dialog)]
       /\ excuse' = [excuse EXCEPT ![r] = @ + Cardinality((dialog \ active) \ Checked(r))]
       /\ Set(p, IF job[p].batch = {o} THEN AfterBatch(p)
                 ELSE [job[p] EXCEPT !.batch = @ \ {o}])
  /\ status' = [status EXCEPT ![r] = "running"]
  /\ UNCHANGED <<active, up, resume, erased, shared, lost, spent>>

Finish(p) ==
  LET r == job[p].report IN
  /\ At(p, "end") /\ status' = [status EXCEPT ![r] = Final(rows[r])]
  /\ Set(p, [job[p] EXCEPT !.step = "notify"])
  /\ UNCHANGED <<rows, active, up, resume, history, spent>>

FinishFails(p) ==
  /\ At(p, "end") /\ Spend /\ Set(p, Idle) /\ lost' = lost \cup {job[p].report}
  /\ UNCHANGED <<status, rows, active, up, resume, excuse, erased, shared>>

(* on a Sunday the thread sleeps until 16:00 before it notifies *)
Notify(p) ==
  /\ At(p, "notify") /\ Set(p, Idle)
  /\ UNCHANGED <<status, rows, active, up, resume, history, spent>>

WorkerStep(p) == Mark(p) \/ Fetch(p) \/ Check(p) \/ Finish(p) \/ Notify(p)

-----------------------------------------------------------------------------
(* The page of a report, offers that begin and end, kills.                 *)

(* recheck_report_item; a failure keeps the competitor of the row *)
Recheck(r, o) ==
  /\ rows[r][o].kind # "none" /\ Spend
  /\ \E row \in IF Cheaper[o] \cap active # {} THEN {Row("sibling", FALSE)}
                ELSE Outcomes \cup {[rows[r][o] EXCEPT !.error = TRUE]} :
       rows' = [rows EXCEPT ![r][o] = row]
  /\ shared' = IF \E p \in Procs : job[p].report = r THEN shared \cup {r} ELSE shared
  /\ UNCHANGED <<status, active, job, up, resume, excuse, erased, lost>>

Change(o) ==
  /\ Spend
  /\ active' = IF o \in active THEN active \ {o} ELSE active \cup {o}
  /\ excuse' = [r \in Reports |-> excuse[r] + IF status[r] = "none" THEN 0 ELSE 1]
  /\ UNCHANGED <<status, rows, job, up, resume, erased, shared, lost>>

Kill(p) ==
  /\ Spend /\ (p = Sched => up) /\ Set(p, Idle)
  /\ up' = (up /\ p # Sched) /\ resume' = IF p = Sched THEN {} ELSE resume
  /\ lost' = lost \cup ({job[p].report} \ {0}) \cup (IF p = Sched THEN resume ELSE {})
  /\ UNCHANGED <<status, rows, active, excuse, erased, shared>>

Booting == Boot \/ AutoResume

Next ==
  \/ Friday \/ Booting
  \/ \E p \in Procs :
       \/ StartNow(p) \/ \E r \in Reports : Resume(p, r) \/ Restart(p, r)
       \/ Mark(p) \/ MarkFails(p) \/ Fetch(p) \/ BatchFails(p) \/ Check(p)
       \/ Finish(p) \/ FinishFails(p) \/ Notify(p) \/ Kill(p)
  \/ \E r \in Reports, o \in Offers : Recheck(r, o)
  \/ \E o \in Offers : Change(o)

Spec == Init /\ [][Next]_vars
FairSpec ==
  Spec /\ WF_vars(Booting) /\ \A p \in Procs : WF_vars(WorkerStep(p))

-----------------------------------------------------------------------------
(* A report that is marked completed has looked at every active offer, but for
   as many as were in a batch that failed, lost an error row to a restart, began or
   ended meanwhile, or were counted as checked though they had ended: the number of
   batches is computed once, siblings and other threads notwithstanding. *)
GapsExplained == \A r \in Reports : Done(r) => Cardinality(Unchecked(r)) <= excuse[r]

(* The result of a check is not replaced by an error, unless a recheck of the
   offer says so, or two have worked at the report: two threads, of two
   processes, or a thread and a recheck. *)
ResultsKept ==
  [][\A r \in Reports, o \in Offers :
       /\ rows[r][o] \in Outcomes
       /\ rows'[r][o].error
       => r \in shared \/ UNCHANGED job]_vars

(* The newest of the reports that were cut off is completed when the scheduler's
   process has booted, or its thread dies again. *)
ResumedIsDone ==
  \A r \in Reports :
    (resume # {} /\ r = Newest(resume) /\ job[Sched] = Idle) ~> (Done(r) \/ r \in lost)

(* price_report_scheduler.restart_price_report: "usuwa wpisy z bledami i kontynuuje
   sprawdzanie", they are checked again.  A completed report that nobody works on has
   a row again for every active offer whose error row a restart removed. *)
RestartRechecks ==
  \A r \in Reports :
    status[r] = "completed" /\ (\A p \in Procs : job[p].report # r)
      => erased[r] \cap active \subseteq Checked(r)
=============================================================================
