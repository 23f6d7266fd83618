----------------------------- MODULE OrderLife -----------------------------
(***************************************************************************)
(* What the status of an order promises to those who look at it, without   *)
(* the log, the sessions and the times behind it: it goes forward through  *)
(* the stages, it may turn into a problem and out of one, and nothing else *)
(* happens to it, unless two of its writers overlapped.                    *)
(***************************************************************************)
EXTENDS Integers

CONSTANTS Orders, Rank, Problem

VARIABLES
  status,     \* the status each order shows
  contested   \* orders about to be written by one who decided on an older status

May(a, b) == a = b \/ Rank[a] = Problem \/ Rank[b] = Problem \/ Rank[a] <= Rank[b]

Init == status \in [Orders -> DOMAIN Rank] /\ contested = {}

Change ==
  /\ status' \in [Orders -> DOMAIN Rank] /\ contested' \in SUBSET Orders
  /\ \A o \in Orders \ contested : May(status[o], status'[o])

Spec == Init /\ [][Change]_<<status, contested>>
=============================================================================
