--------------------------- MODULE AgentLockProofs ---------------------------
(***************************************************************************)
(* For any number of workers and of restarts: running agents hold          *)
(* different lock files, and there is at most one agent more than lock     *)
(* files were removed while another worker had them open.                  *)
(***************************************************************************)
EXTENDS MCPrintAgent, FiniteSetTheorems, TLAPS

\* A locked file has one holder; where the holder of a lock can be; and a
\* running agent still holds the lock it started with.
Holding ==
  /\ \A p, q \in lockers : file[p] = file[q] => p = q
  /\ \A p \in lockers : pc[p] \in {"probed", "beat", "serve", "stop", "unbeat", "unlock"}
  /\ \A p \in Workers : pc[p] \in {"probed", "flock"} => file[p] # L!NoFile
  /\ \A p \in Workers : pc[p] = "beat" => p \in lockers
  /\ \A p \in Workers : thread[p] = "on" => p \in lockers /\ pc[p] \in {"serve", "stop"}

LInv == L!TypeOK /\ Holding

LEMMA LockInit == L!Init => LInv
BY DEF L!Init, LInv, L!TypeOK, Holding, L!NoFile, L!Starting, L!Stopping

LEMMA LockStep ==
  ASSUME LInv, [L!Next]_(L!vars)
  PROVE  LInv'
<1> USE DEF LInv, L!TypeOK, Holding, L!NoFile, L!Starting, L!Stopping, L!Goto
<1>1. CASE UNCHANGED L!vars BY <1>1 DEF L!vars
<1>2. CASE L!HeartbeatAges BY <1>2 DEF L!HeartbeatAges
<1>3. ASSUME NEW p \in Workers, L!ReadHeartbeat(p) PROVE LInv'
  BY <1>3 DEF L!ReadHeartbeat
<1>4. ASSUME NEW p \in Workers, L!ProbeOpen(p) PROVE LInv'
  BY <1>4 DEF L!ProbeOpen, L!OpenLockFile
<1>5. ASSUME NEW p \in Workers, L!ProbeLock(p) PROVE LInv'
  BY <1>5 DEF L!ProbeLock, L!Locked, L!Close
<1>6. ASSUME NEW p \in Workers, L!ProbeClose(p) PROVE LInv'
  BY <1>6 DEF L!ProbeClose, L!Close
<1>7. ASSUME NEW p \in Workers, L!RemoveOrphan(p) PROVE LInv'
  BY <1>7 DEF L!RemoveOrphan, L!RemoveLockFile
<1>8. ASSUME NEW p \in Workers, L!ClearOrphan(p) PROVE LInv'
  BY <1>8 DEF L!ClearOrphan
<1>9. ASSUME NEW p \in Workers, L!AcquireOpen(p) PROVE LInv'
  BY <1>9 DEF L!AcquireOpen, L!OpenLockFile
<1>10. ASSUME NEW p \in Workers, L!AcquireLock(p) PROVE LInv'
  BY <1>10 DEF L!AcquireLock, L!Locked, L!Close
<1>11. ASSUME NEW p \in Workers, L!StartThread(p) PROVE LInv'
  BY <1>11 DEF L!StartThread
<1>12. ASSUME NEW p \in Workers, L!StopThread(p) PROVE LInv'
  BY <1>12 DEF L!StopThread
<1>13. ASSUME NEW p \in Workers, L!ReleaseHeartbeat(p) PROVE LInv'
  BY <1>13 DEF L!ReleaseHeartbeat
<1>14. ASSUME NEW p \in Workers, L!ReleaseLock(p) PROVE LInv'
  BY <1>14 DEF L!ReleaseLock, L!Close
<1>15. ASSUME NEW p \in Workers, L!ReleaseUnlink(p) PROVE LInv'
  BY <1>15 DEF L!ReleaseUnlink, L!RemoveLockFile
<1>16. ASSUME NEW p \in Workers, L!Exit(p) PROVE LInv'
  BY <1>16 DEF L!Exit, L!Replace, L!Close
<1>17. ASSUME NEW p \in Workers, L!Beat(p) PROVE LInv'
  BY <1>17 DEF L!Beat
<1>18. ASSUME NEW p \in Workers, L!BeginExit(p) PROVE LInv'
  BY <1>18 DEF L!BeginExit
<1>19. ASSUME NEW p \in Workers, L!Kill(p) PROVE LInv'
  BY <1>19 DEF L!Kill, L!Replace, L!Close
<1>20. QED
  BY <1>1, <1>2, <1>3, <1>4, <1>5, <1>6, <1>7, <1>8, <1>9, <1>10, <1>11, <1>12, <1>13, <1>14, <1>15, <1>16, <1>17, <1>18, <1>19 DEF L!Next, L!Start, L!Stop

\* LInv holds in every reachable state.
THEOREM LockInvariance == L!Spec => []LInv
BY LockInit, LockStep, PTL DEF L!Spec

\* Every variable keeps its type, and nobody holds a lock on a closed file.
THEOREM LockTypes == L!Spec => []L!TypeOK
BY LockInvariance, PTL DEF LInv

\* Two agents never hold the same lock file: a second agent exists only when the
\* path was removed and created anew.
THEOREM AgentsDiffer == L!Spec => []AgentsHoldTheirFiles
<1>1. LInv => AgentsHoldTheirFiles
  BY DEF AgentsHoldTheirFiles, LInv, L!TypeOK, Holding, L!AgentsHoldTheirFiles, L!Agents
<1>2. QED BY <1>1, LockInvariance, PTL

-----------------------------------------------------------------------------
\* The lock files that somebody has open and that the path does not name.
Detached == {file[q] : q \in Workers} \ {L!NoFile, path}

\* Each of them was stolen; who is about to remove the path has no file open.
StealInv ==
  /\ IsFiniteSet(Detached) /\ Cardinality(Detached) <= stolen
  /\ \A p \in Workers : pc[p] \in {"remove", "clear", "unlink", "exit"} => file[p] = L!NoFile

LEMMA StealInit == L!Init => StealInv
<1> SUFFICES ASSUME L!Init PROVE StealInv
  OBVIOUS
<1>1. Detached = {}
  BY DEF L!Init, Detached
<1> QED BY <1>1, FS_EmptySet DEF L!Init, StealInv

\* No other lock file becomes detached.
LEMMA DetachedShrinks ==
  ASSUME StealInv, Detached' \subseteq Detached, stolen' = stolen, LInv
  PROVE  IsFiniteSet(Detached') /\ Cardinality(Detached') <= stolen'
<1>1. IsFiniteSet(Detached') /\ Cardinality(Detached') <= Cardinality(Detached)
  BY FS_Subset DEF StealInv
<1>2. Cardinality(Detached) \in Nat /\ Cardinality(Detached') \in Nat /\ stolen \in Nat
  BY <1>1, FS_CardinalityType DEF StealInv, LInv, L!TypeOK
<1> QED BY <1>1, <1>2 DEF StealInv

LEMMA OpenKeepsDetached ==
  ASSUME LInv, NEW p \in Workers, L!OpenLockFile(p)
  PROVE  Detached' \subseteq Detached
<1>1. /\ file \in [Workers -> 0..inodes] /\ path \in 0..inodes /\ inodes \in Nat
  BY DEF LInv, L!TypeOK
<1>2. CASE path = L!NoFile
  <2>1. path' = inodes + 1 /\ file' = [file EXCEPT ![p] = inodes + 1]
    BY <1>2 DEF L!OpenLockFile
  <2> QED BY <1>1, <1>2, <2>1 DEF Detached, L!NoFile
<1>3. CASE path # L!NoFile
  <2>1. path' = path /\ file' = [file EXCEPT ![p] = path]
    BY <1>3 DEF L!OpenLockFile
  <2> QED BY <1>1, <2>1 DEF Detached
<1> QED BY <1>2, <1>3

\* Removing the path detaches its lock file if another worker has it open.
LEMMA RemoveIsCounted ==
  ASSUME LInv, StealInv, NEW p \in Workers, file[p] = L!NoFile, L!RemoveLockFile(p), file' = file
  PROVE  IsFiniteSet(Detached') /\ Cardinality(Detached') <= stolen'
<1>1. stolen \in Nat /\ path' = L!NoFile
  BY DEF LInv, L!TypeOK, L!RemoveLockFile
<1>2. CASE path # L!NoFile /\ \E q \in Workers \ {p} : file[q] = path
  <2>1. stolen' = stolen + 1 /\ Detached' \subseteq Detached \cup {path}
    BY <1>1, <1>2 DEF L!RemoveLockFile, Detached
  <2>2. /\ IsFiniteSet(Detached \cup {path})
        /\ Cardinality(Detached \cup {path}) =
             IF path \in Detached THEN Cardinality(Detached) ELSE Cardinality(Detached) + 1
    BY FS_AddElement DEF StealInv
  <2>3. IsFiniteSet(Detached') /\ Cardinality(Detached') <= Cardinality(Detached \cup {path})
    BY <2>1, <2>2, FS_Subset
  <2>4. /\ Cardinality(Detached) \in Nat /\ Cardinality(Detached') \in Nat
        /\ Cardinality(Detached \cup {path}) \in Nat
    BY <2>2, <2>3, FS_CardinalityType DEF StealInv
  <2> QED BY <1>1, <2>1, <2>2, <2>3, <2>4 DEF StealInv
<1>3. CASE ~(path # L!NoFile /\ \E q \in Workers \ {p} : file[q] = path)
  <2>1. stolen' = stolen
    BY <1>3 DEF L!RemoveLockFile
  <2>2. Detached' \subseteq Detached
    BY <1>1, <1>3 DEF Detached
  <2> QED BY <2>1, <2>2, DetachedShrinks
<1> QED BY <1>2, <1>3

LEMMA StealStep ==
  ASSUME LInv, StealInv, [L!Next]_(L!vars)
  PROVE  StealInv'
<1>1. /\ pc \in [Workers -> L!Starting \cup L!Stopping \cup {"serve"}]
      /\ file \in [Workers -> 0..inodes]
  BY DEF LInv, L!TypeOK
<1>2. ASSUME Detached' \subseteq Detached, stolen' = stolen,
             \A p \in Workers : pc'[p] \in {"remove", "clear", "unlink", "exit"} => file'[p] = L!NoFile
      PROVE  StealInv'
  BY <1>2, DetachedShrinks DEF StealInv
<1>3. ASSUME NEW p \in Workers, L!RemoveOrphan(p) \/ L!ReleaseUnlink(p) PROVE StealInv'
  <2>1. file[p] = L!NoFile /\ L!RemoveLockFile(p) /\ file' = file
    BY <1>3 DEF StealInv, L!RemoveOrphan, L!ReleaseUnlink
  <2>2. \A q \in Workers : pc'[q] \in {"remove", "clear", "unlink", "exit"} => file'[q] = L!NoFile
    BY <1>1, <1>3, <2>1 DEF StealInv, L!RemoveOrphan, L!ReleaseUnlink, L!Goto
  <2> QED BY <2>1, <2>2, RemoveIsCounted DEF StealInv
<1>4. ASSUME NEW p \in Workers, L!ProbeOpen(p) \/ L!AcquireOpen(p) PROVE StealInv'
  <2>1. L!OpenLockFile(p) /\ stolen' = stolen
    BY <1>4 DEF L!ProbeOpen, L!AcquireOpen
  <2>2. \A q \in Workers \ {p} : file'[q] = file[q]
    BY <1>1, <2>1 DEF L!OpenLockFile
  <2>3. pc'[p] \notin {"remove", "clear", "unlink", "exit"} /\ \A q \in Workers \ {p} : pc'[q] = pc[q]
    BY <1>1, <1>4 DEF L!ProbeOpen, L!AcquireOpen, L!Goto
  <2> QED BY <1>2, <2>1, <2>2, <2>3, OpenKeepsDetached DEF StealInv
<1>5. ASSUME NEW p \in Workers,
             \/ L!Start(p) /\ ~(L!ProbeOpen(p) \/ L!AcquireOpen(p) \/ L!RemoveOrphan(p))
             \/ L!Stop(p) /\ ~L!ReleaseUnlink(p)
             \/ L!Beat(p) \/ L!BeginExit(p) \/ L!Kill(p)
      PROVE  StealInv'
  <2>1. stolen' = stolen /\ path' = path
    BY <1>5 DEF L!Start, L!Stop, L!ReadHeartbeat, L!ProbeLock, L!ProbeClose, L!ClearOrphan, L!AcquireLock, L!StartThread,
       L!StopThread, L!ReleaseHeartbeat, L!ReleaseLock, L!Exit, L!Beat, L!BeginExit, L!Kill
  <2>2. file' = file \/ file' = [file EXCEPT ![p] = L!NoFile]
    BY <1>5 DEF L!Start, L!Stop, L!ReadHeartbeat, L!ProbeLock, L!ProbeClose, L!ClearOrphan, L!AcquireLock, L!StartThread,
       L!StopThread, L!ReleaseHeartbeat, L!ReleaseLock, L!Exit, L!Beat, L!BeginExit, L!Kill, L!Close, L!Replace
  <2>3. \A q \in Workers \ {p} : pc'[q] = pc[q]
    BY <1>1, <1>5 DEF L!Start, L!Stop, L!ReadHeartbeat, L!ProbeLock, L!ProbeClose, L!ClearOrphan, L!AcquireLock,
       L!StartThread, L!StopThread, L!ReleaseHeartbeat, L!ReleaseLock, L!Exit, L!Beat, L!BeginExit, L!Kill, L!Goto, L!Replace
  <2>4. pc'[p] \in {"remove", "clear", "unlink", "exit"} => file'[p] = L!NoFile
    BY <1>1, <1>5 DEF L!Start, L!Stop, L!ReadHeartbeat, L!ProbeLock, L!ProbeClose, L!ClearOrphan, L!AcquireLock,
       L!StartThread, L!StopThread, L!ReleaseHeartbeat, L!ReleaseLock, L!Exit, L!Beat, L!BeginExit, L!Kill, L!Goto, L!Replace,
       L!Close, StealInv
  <2>5. Detached' \subseteq Detached
    BY <1>1, <2>1, <2>2 DEF Detached
  <2> QED BY <1>1, <1>2, <2>1, <2>2, <2>3, <2>4, <2>5 DEF StealInv
<1>6. CASE L!HeartbeatAges \/ UNCHANGED L!vars
  BY <1>2, <1>6 DEF L!HeartbeatAges, L!vars, Detached, StealInv
<1> QED BY <1>3, <1>4, <1>5, <1>6 DEF L!Next, L!Start, L!Stop

\* However many workers gunicorn starts, stops and loses, there are at most one
\* agent and one more for each lock file that was removed while open elsewhere.
THEOREM ExtraAgentsStolen == L!Spec => []ExtraAgentsAreStolen
<1>1. ASSUME LInv, StealInv PROVE ExtraAgentsAreStolen
  <2> DEFINE T == Detached \cup {path}
             f == [p \in L!Agents |-> file[p]]
  <2>1. L!Agents \subseteq Workers /\ L!Agents \subseteq lockers
    BY <1>1 DEF L!Agents, LInv, Holding
  <2>2. \A p \in L!Agents : file[p] \in T
    BY <1>1, <2>1 DEF Detached, LInv, L!TypeOK
  <2>3. f \in Injection(L!Agents, T)
    <3>1. f \in [L!Agents -> T]
      BY <2>2
    <3>2. \A p, q \in L!Agents : f[p] = f[q] => p = q
      BY <1>1, <2>1 DEF LInv, Holding
    <3> QED BY <3>1, <3>2 DEF Injection, IsInjective
  <2>4. /\ IsFiniteSet(T)
        /\ Cardinality(T) = IF path \in Detached THEN Cardinality(Detached) ELSE Cardinality(Detached) + 1
    BY <1>1, FS_AddElement DEF StealInv
  <2> HIDE DEF T, f
  <2>5. IsFiniteSet(L!Agents) /\ Cardinality(L!Agents) <= Cardinality(T)
    BY <2>3, <2>4, FS_Injection
  <2>6. /\ Cardinality(L!Agents) \in Nat /\ Cardinality(T) \in Nat /\ Cardinality(Detached) \in Nat
        /\ stolen \in Nat
    BY <1>1, <2>4, <2>5, FS_CardinalityType DEF StealInv, LInv, L!TypeOK
  <2>7. L!Cardinality(L!Agents) = Cardinality(L!Agents)
    BY DEF L!Cardinality, Cardinality
  <2> QED
    BY <1>1, <2>4, <2>5, <2>6, <2>7 DEF StealInv, ExtraAgentsAreStolen, L!ExtraAgentsAreStolen
<1>2. L!Spec => []StealInv
  BY LockInvariance, StealInit, StealStep, PTL DEF L!Spec
<1> QED BY <1>1, <1>2, LockInvariance, PTL
=============================================================================
