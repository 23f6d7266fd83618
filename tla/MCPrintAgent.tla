---------------------------- MODULE MCPrintAgent ----------------------------
(* One TLC instance for the agent that prints (PrintAgent) and for the lock that makes
   one worker the agent (AgentLock), which share nothing here: which of the two goes
   on is chosen at the start, and the other one keeps still. *)
EXTENDS PrintAgent

CONSTANTS o1, l1, l2, i1, i2,  \* an order, its parcels and positions
          Workers, w3, MaxExits
VARIABLES part,
          path, inodes, hb, pc, file, lockers, thread, exits, stolen

L == INSTANCE AgentLock

lock == <<path, inodes, hb, pc, file, lockers, thread, exits, stolen>>
all == <<part, vars, lock>>

(* the bounds of the lock: a pair of workers with all the exits, or a third one that
   boots too and one exit *)
InBounds == IF part = "pair" THEN pc'[w3] = "boot" ELSE exits' <= 1

InitBoth == part \in {"print", "pair", "three"} /\ Init /\ L!Init
NextBoth ==
  \/ part = "print" /\ Next /\ UNCHANGED <<part, lock>>
  \/ part # "print" /\ L!Next /\ InBounds /\ UNCHANGED <<part, vars>>

Printing == part = "print" /\ (AgentStep \/ Restart) /\ UNCHANGED <<part, lock>>
Morning == part = "print" /\ QuietEnds /\ UNCHANGED <<part, lock>>
Locking(p) ==
  /\ part = "three" \/ (part = "pair" /\ p # w3)
  /\ L!Start(p) \/ L!Stop(p)
  /\ UNCHANGED <<part, vars>>
(* The fairness of PrintAgent, whose AgentStep and Restart are never possible together,
   and of AgentLock, where a worker never has both to start and to stop. *)
FairBoth ==
  /\ InitBoth /\ [][NextBoth]_all
  /\ WF_all(Printing) /\ WF_all(Morning) /\ \A p \in Workers : WF_all(Locking(p))

(* A second agent needs the removal of a lock file that another process had open. *)
ExtraAgentsAreStolen == L!ExtraAgentsAreStolen
(* Agents never share a lock file. *)
AgentsHoldTheirFiles == L!AgentsHoldTheirFiles
(* After a crash or a stop of the agent's worker an agent runs again. *)
AgentComesBack == [](part # "print") => L!AgentComesBack
=============================================================================
