----------------------------- MODULE MCOutside -----------------------------
(* One TLC instance for Notices, for Tokens and for PriceReports, which share nothing:
   which of them goes on is chosen at the start, and the others keep still. *)
EXTENDS Notices, TLC

CONSTANTS Agent, Page, Sched, Web, Refresher, Workers, Callers, MaxExpiries, MaxOthers,
          low, high, Procs, Offers, Cheaper, BatchSize, Found, MaxReports, MaxEvents
VARIABLES part,
          newest, expired, db, cache, behind, work, failures, alerted, form, cut, spent,
          status, rows, active, job, up, resume, excuse, erased, shared, died, disturbed

ASSUME TokensAssumption == Sched \in Workers /\ Callers \subseteq Workers /\ Refresher \notin Workers
ASSUME ReportsAssumption ==
  /\ Sched \in Procs /\ IsFiniteSet(Offers) /\ MaxReports \in Nat
  /\ BatchSize \in Nat \ {0} /\ Found \subseteq {"rival", "nobody"}

(* the agent's tracking writes the parcel's statuses, the page of orders imports *)
WritesOf == Agent :> {"shipment", "delivery"} @@ Page :> {"confirmation", "shipment"}

(* two offers of one variant *)
Undercut == [o \in Offers |-> IF o = high THEN {low} ELSE {}]

T == INSTANCE Tokens
P == INSTANCE PriceReports WITH lost <- died, spent <- disturbed

notices == <<order, sent, issued, writer, cycle, slips, lost, faults>>
tokens == <<newest, expired, db, cache, behind, work, failures, alerted, form, cut, spent>>
reports == <<status, rows, active, job, up, resume, excuse, erased, shared, died, disturbed>>
all == <<part, notices, tokens, reports>>

InitAll == part \in {"notices", "tokens", "reports"} /\ Init /\ T!Init /\ P!Init
NextAll ==
  \/ part = "notices" /\ Next /\ UNCHANGED <<part, tokens, reports>>
  \/ part = "tokens" /\ T!Next /\ UNCHANGED <<part, notices, reports>>
  \/ part = "reports" /\ P!Next /\ UNCHANGED <<part, notices, tokens>>

Cycle == part = "notices" /\ CycleStep /\ UNCHANGED <<part, tokens, reports>>
Writer(w) == part = "notices" /\ WriterStep(w) /\ UNCHANGED <<part, tokens, reports>>
Refreshing == part = "tokens" /\ T!RefresherStep /\ UNCHANGED <<part, notices, reports>>
Call(w) == part = "tokens" /\ T!CallStep(w) /\ UNCHANGED <<part, notices, reports>>
Booting == part = "reports" /\ P!Booting /\ UNCHANGED <<part, notices, tokens>>
Reporting(p) == part = "reports" /\ P!WorkerStep(p) /\ UNCHANGED <<part, notices, tokens>>
(* the threads go on, the scheduler's loop comes round, a transaction ends, a worker
   that was killed is started again *)
FairSpec ==
  /\ InitAll /\ [][NextAll]_all
  /\ WF_all(Cycle) /\ \A w \in Writers : WF_all(Writer(w))
  /\ WF_all(Refreshing) /\ \A w \in Callers : WF_all(Call(w))
  /\ WF_all(Booting) /\ \A p \in Procs : WF_all(Reporting(p))

(* The refresh token that Allegro accepts is stored unless it was cut off. *)
RefreshTokenKept == T!RefreshTokenKept
(* Again and again the stored pair works or the admin has been alerted. *)
TokensWatched == T!TokensWatched
(* A completed report misses only the offers that something made it miss. *)
GapsExplained == P!GapsExplained
(* An error replaces the result of a check only after a recheck or a second thread. *)
ResultsKept == P!ResultsKept
(* The newest report that a restart cut off is completed after the next boot. *)
ResumedIsDone == P!ResumedIsDone
=============================================================================
