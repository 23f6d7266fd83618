---------------------------- MODULE MCAgentLock ----------------------------
(* A TLC instance of AgentLock; workers start alike and may be exchanged.  MCPrintAgent
   has the one without the symmetry, for liveness. *)
EXTENDS AgentLock, TLC

WorkerSymmetry == Permutations(Workers)
=============================================================================
