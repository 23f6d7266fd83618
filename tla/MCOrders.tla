------------------------------ MODULE MCOrders ------------------------------
(* One TLC instance for OrderStatus, Corrections, Goods and Stocktake, which share nothing
   here: the status log, the papers or the goods of an order, or the counting of stock;
   which of them goes on is chosen at the start, and the others keep still. *)
EXTENDS OrderStatus, TLC

CONSTANTS o1, w1, w2, x, y, z,   \* an order, web requests, variants
          Names, Variants, InStock, Barcoded, MaxRequests, MaxImports,
          OnSale,  \* the variants that may be the one that is sold
          Counted, Takes, Shelf, Books, Coded, MaxScans, MaxMoves   \* Stocktake's
ASSUME PartsAssumption ==
  /\ None \notin Names \cup Variants
  /\ Barcoded \subseteq Variants /\ InStock \in [Variants -> Nat]
ASSUME CountedAssumption ==
  /\ None \notin Counted /\ IsFiniteSet(Counted) /\ Coded \subseteq Counted
  /\ Shelf \in [Counted -> Nat] /\ Books \in [Counted -> Nat]
VARIABLES part,
          paper, goods, papers, billing, page, opened, failed, reasons, crossed,
          qty, sales, sold, return, worker, import, req, gone, excuses, requests, imports,
          killed,
          quantity, shelf, coded, takes, rows, work, count, latest, due, before, after, spoilt,
          scans, moves

Short == {<<None, "wyslano">>, <<"wyslano", "dostarczono">>}
Warehouse == {"print", "import", "fulfilment", "cancel", "scan"}
(* two variants with a barcode and one without *)
OneAndTwo == x :> 1 @@ y :> 2 @@ z :> 1
(* there is one of each; the books have one x too many, y has no barcode yet *)
OneEach == [v \in Counted |-> 1]
TwoOfX == x :> 2 @@ y :> 1
WebSymmetry == Permutations({w1, w2})

C == INSTANCE Corrections WITH
  Variants <- Names, Pages <- Web, order <- paper, req <- page, requests <- opened, faults <- failed
G == INSTANCE Goods WITH Pages <- Web, order <- sold, agent <- worker, faults <- killed
S == INSTANCE Stocktake WITH
  Variants <- Counted, Pages <- Web, MaxRequests <- MaxScans,
  qty <- quantity, status <- takes, requests <- scans, last <- latest

corrections == <<paper, goods, papers, billing, page, opened, failed, reasons, crossed>>
stock == <<qty, sales, sold, return, worker, import, req, gone, excuses, requests, imports,
           killed>>
counting == <<quantity, shelf, coded, takes, rows, work, count, latest, due, before, after,
              spoilt, scans, moves>>

(* BooksMatchShelves says nothing of what follows an excuse: the goods stop there. *)
InitAll ==
  /\ part \in {"status", "papers", "goods", "stocktake"}
  /\ Init /\ C!Init /\ G!Init /\ S!Init
  /\ part # "status" => \A o \in Orders : form[o] = "PAID"
  /\ part # "papers" => paper.line = x
  /\ sold.line \in IF part = "goods" THEN OnSale ELSE {x}
NextAll ==
  \/ part = "status" /\ Next /\ UNCHANGED <<part, corrections, stock, counting>>
  \/ part = "papers" /\ C!Next /\ UNCHANGED <<part, vars, stock, counting>>
  \/ part = "goods" /\ excuses = {} /\ G!Next /\ UNCHANGED <<part, vars, corrections, counting>>
  \/ part = "stocktake" /\ S!Next /\ UNCHANGED <<part, vars, corrections, stock>>
allVars == <<part, vars, corrections, stock, counting>>
SpecAll == InitAll /\ [][NextAll]_allVars

(* The papers follow the first thing that happens to an order after its invoice. *)
PapersFollow == C!PapersFollow
(* Between operations the books agree with the shelves. *)
BooksMatchShelves == G!BooksMatchShelves
(* What a stocktake corrects is right (see Stocktake). *)
AppliedBooksAreTrue == S!AppliedBooksAreTrue
=============================================================================
