----------------------------- MODULE AgentLock -----------------------------
(***************************************************************************)
(* Which worker process runs the printing agent: HeartbeatFileLock, the    *)
(* start and stop of the agent thread, and the workers that gunicorn boots *)
(* and replaces.  Every system call on the lock file and the heartbeat     *)
(* file is a step.  The lock file is a path that names an inode; flock is  *)
(* held on the inode, so removing the path takes the lock from nobody and  *)
(* lets the next open create another inode.                                *)
(***************************************************************************)
EXTENDS Naturals, FiniteSets

CONSTANTS
  Workers,   \* the worker slots of gunicorn (workers = 6)
  MaxExits   \* bound: how many workers stop or are killed

NoFile == 0  \* no inode: the path names nothing, the process has nothing open

VARIABLES
  path,    \* the inode named by agent.lock
  inodes,  \* how many inodes have been created; they are 1..inodes
  hb,      \* agent.lock.heartbeat: none, fresh, or older than 4 poll intervals
  pc,      \* where a worker is in start_agent_thread or stop_agent_thread
  file,    \* the inode a worker has open
  lockers, \* the workers that hold flock on their open inode
  thread,  \* the agent thread: off, on, or told to stop but still in its loop
  exits,   \* how many workers have stopped or been killed
  stolen   \* how many times a lock file open in another worker was removed

vars == <<path, inodes, hb, pc, file, lockers, thread, exits, stolen>>

Starting == {"boot", "probe", "probed", "remove", "clear", "open", "flock", "beat"}
Stopping == {"stop", "unbeat", "unlock", "unlink", "exit"}

TypeOK ==
  /\ path \in 0..inodes /\ inodes \in Nat /\ hb \in {"none", "fresh", "stale"}
  /\ pc \in [Workers -> Starting \cup Stopping \cup {"serve"}]
  /\ file \in [Workers -> 0..inodes] /\ lockers \subseteq {p \in Workers : file[p] # NoFile}
  /\ thread \in [Workers -> {"off", "on", "stopping"}]
  /\ exits \in Nat /\ stolen \in Nat

Locked(i) == \E q \in lockers : file[q] = i
Goto(p, l) == pc' = [pc EXCEPT ![p] = l]

\* open(lock_file, "a+") and open(lock_file, "w") both create a missing file.
OpenLockFile(p) ==
  IF path = NoFile
  THEN inodes' = inodes + 1 /\ path' = inodes' /\ file' = [file EXCEPT ![p] = inodes']
  ELSE file' = [file EXCEPT ![p] = path] /\ UNCHANGED <<inodes, path>>

Close(p) == file' = [file EXCEPT ![p] = NoFile] /\ lockers' = lockers \ {p}

\* os.remove(lock_file) does not ask who has the file open.
RemoveLockFile(p) ==
  /\ path' = NoFile
  /\ stolen' = IF path # NoFile /\ \E q \in Workers \ {p} : file[q] = path
               THEN stolen + 1 ELSE stolen

Init ==
  /\ path = NoFile /\ inodes = 0 /\ hb = "none"
  /\ pc = [p \in Workers |-> "boot"] /\ file = [p \in Workers |-> NoFile]
  /\ lockers = {} /\ thread = [p \in Workers |-> "off"] /\ exits = 0 /\ stolen = 0

-----------------------------------------------------------------------------
(* start_agent_thread: cleanup_orphaned_lock, then acquire *)

ReadHeartbeatTrusted(p) ==
  /\ pc[p] = "boot"
  /\ Goto(p, CASE hb = "stale" -> "probe" [] hb = "fresh" -> "serve" [] OTHER -> "open")
  /\ UNCHANGED <<path, inodes, hb, file, lockers, thread, exits, stolen>>
ReadHeartbeat(p) ==
  /\ pc[p] = "boot" /\ Goto(p, IF hb = "stale" THEN "probe" ELSE "open")
  /\ UNCHANGED <<path, inodes, hb, file, lockers, thread, exits, stolen>>

ProbeOpen(p) ==
  /\ pc[p] = "probe" /\ OpenLockFile(p) /\ Goto(p, "probed")
  /\ UNCHANGED <<hb, lockers, thread, exits, stolen>>

\* flock(LOCK_NB) on the probed file: when it is held by someone the cleanup
\* ends there; otherwise it is held for a moment.
ProbeLock(p) ==
  /\ pc[p] = "probed" /\ p \notin lockers
  /\ IF Locked(file[p])
     THEN Goto(p, "open") /\ Close(p)
     ELSE lockers' = lockers \cup {p} /\ UNCHANGED <<pc, file>>
  /\ UNCHANGED <<path, inodes, hb, thread, exits, stolen>>

\* The end of the with block closes the file, which drops the lock.
ProbeClose(p) ==
  /\ pc[p] = "probed" /\ p \in lockers /\ Close(p) /\ Goto(p, "remove")
  /\ UNCHANGED <<path, inodes, hb, thread, exits, stolen>>

RemoveOrphan(p) ==
  /\ pc[p] = "remove" /\ RemoveLockFile(p) /\ Goto(p, "clear")
  /\ UNCHANGED <<inodes, hb, file, lockers, thread, exits>>

ClearOrphan(p) ==
  /\ pc[p] = "clear" /\ hb' = "none" /\ Goto(p, "open")
  /\ UNCHANGED <<path, inodes, file, lockers, thread, exits, stolen>>

AcquireOpen(p) ==
  /\ pc[p] = "open" /\ OpenLockFile(p) /\ Goto(p, "flock")
  /\ UNCHANGED <<hb, lockers, thread, exits, stolen>>

AcquireLockUnchecked(p) ==
  /\ pc[p] = "flock" /\ lockers' = lockers \cup {p} /\ Goto(p, "beat")
  /\ UNCHANGED <<path, inodes, hb, file, thread, exits, stolen>>
\* The lock is taken, or the worker serves requests without an agent for good.
AcquireLock(p) ==
  /\ pc[p] = "flock"
  /\ IF Locked(file[p])
     THEN Goto(p, "serve") /\ Close(p)
     ELSE lockers' = lockers \cup {p} /\ Goto(p, "beat") /\ UNCHANGED file
  /\ UNCHANGED <<path, inodes, hb, thread, exits, stolen>>

\* write_heartbeat, then the thread is started.
StartThread(p) ==
  /\ pc[p] = "beat" /\ hb' = "fresh" /\ thread' = [thread EXCEPT ![p] = "on"] /\ Goto(p, "serve")
  /\ UNCHANGED <<path, inodes, file, lockers, exits, stolen>>

-----------------------------------------------------------------------------
(* The agent thread, and a worker that stops: stop_agent_thread is an       *)
(* atexit hook of every worker, with or without an agent                    *)

\* run_print_iteration writes the heartbeat.
Beat(p) ==
  /\ thread[p] # "off" /\ hb' = "fresh"
  /\ UNCHANGED <<path, inodes, pc, file, lockers, thread, exits, stolen>>

\* An iteration may take longer than four poll intervals.
HeartbeatAges ==
  /\ hb = "fresh" /\ hb' = "stale"
  /\ UNCHANGED <<path, inodes, pc, file, lockers, thread, exits, stolen>>

BeginExit(p) ==
  /\ pc[p] = "serve" /\ exits < MaxExits /\ exits' = exits + 1 /\ Goto(p, "stop")
  /\ UNCHANGED <<path, inodes, hb, file, lockers, thread, stolen>>

\* BackgroundThreadRuntime.stop joins for 5 s: the thread may outlive it.
StopThread(p) ==
  /\ pc[p] = "stop" /\ Goto(p, "unbeat")
  /\ thread' \in {[thread EXCEPT ![p] = "off"],
                  [thread EXCEPT ![p] = IF @ = "on" THEN "stopping" ELSE @]}
  /\ UNCHANGED <<path, inodes, hb, file, lockers, exits, stolen>>

ReleaseHeartbeat(p) ==
  /\ pc[p] = "unbeat" /\ hb' = "none" /\ Goto(p, "unlock")
  /\ UNCHANGED <<path, inodes, file, lockers, thread, exits, stolen>>

ReleaseLock(p) ==
  /\ pc[p] = "unlock" /\ Close(p) /\ Goto(p, "unlink")
  /\ UNCHANGED <<path, inodes, hb, thread, exits, stolen>>

\* release() removes the path whoever holds it.
ReleaseUnlink(p) ==
  /\ pc[p] = "unlink" /\ RemoveLockFile(p) /\ Goto(p, "exit")
  /\ UNCHANGED <<inodes, hb, file, lockers, thread, exits>>

\* The process ends, its files are closed, and gunicorn boots another worker.
Replace(p) == Goto(p, "boot") /\ Close(p) /\ thread' = [thread EXCEPT ![p] = "off"]

Exit(p) ==
  /\ pc[p] = "exit" /\ Replace(p) /\ UNCHANGED <<path, inodes, hb, exits, stolen>>

Kill(p) ==
  /\ pc[p] # "exit" /\ exits < MaxExits /\ exits' = exits + 1 /\ Replace(p)
  /\ UNCHANGED <<path, inodes, hb, stolen>>

-----------------------------------------------------------------------------
Start(p) == \/ ReadHeartbeat(p) \/ ProbeOpen(p) \/ ProbeLock(p) \/ ProbeClose(p) \/ RemoveOrphan(p)
            \/ ClearOrphan(p) \/ AcquireOpen(p) \/ AcquireLock(p) \/ StartThread(p)
Stop(p)  == \/ StopThread(p) \/ ReleaseHeartbeat(p) \/ ReleaseLock(p) \/ ReleaseUnlink(p) \/ Exit(p)

Next == HeartbeatAges \/ \E p \in Workers : Start(p) \/ Stop(p) \/ Beat(p) \/ BeginExit(p) \/ Kill(p)

Spec == Init /\ [][Next]_vars
\* A process that has begun to start or stop goes on; nobody has to stop.
FairSpec == Spec /\ \A p \in Workers : WF_vars(Start(p)) /\ WF_vars(Stop(p))

-----------------------------------------------------------------------------
(* Properties *)

Agents == {p \in Workers : thread[p] = "on"}

\* README.md:106 says: "Only one printing agent should run at a time."
AtMostOneAgent == Cardinality(Agents) <= 1

\* What the lock does guarantee: a second agent needs the removal of a lock file
\* that another process had open (by release() of a worker that never held it,
\* or by a cleanup that judged the file an orphan before it was taken).
ExtraAgentsAreStolen == Cardinality(Agents) <= 1 + stolen

\* Agents never share a lock file, even when one of them was removed.
AgentsHoldTheirFiles ==
  \A p \in Agents : p \in lockers /\ \A q \in lockers : file[q] = file[p] => q = p

\* After a crash or a stop of the agent's worker an agent runs again, whatever
\* heartbeat and lock file were left behind.
AgentComesBack == []<>(Agents # {})
=============================================================================
