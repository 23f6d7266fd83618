-------------------------- MODULE MCPriceReports ---------------------------
(* TLC instances of PriceReports. *)
EXTENDS PriceReports

CONSTANTS a, b, c

(* c is the dearer offer of a's variant *)
Undercut == [o \in Offers |-> IF o = c THEN {a} ELSE {}]
=============================================================================
