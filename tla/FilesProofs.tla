------------------------------- MODULE FilesProofs ------------------------------
(***************************************************************************)
(* Proofs about what the daemon keeps on disk (MCFiles), for any constants *)
(* of its three parts.  PidLock: as long as no process died inside the     *)
(* guard, the lock is exclusive and daemon.pid names the one daemon there  *)
(* is.  SessionManager: no two claudes ever write one session, and the     *)
(* files name the claude that is prompted.  EventLog: no event is lost,    *)
(* numbers increase, and every event is found again after any crash.       *)
(***************************************************************************)
EXTENDS MCFiles, SequenceLemmas

(* The PID file and its lock *)

LEMMA PidTypeInit == PidInit => PidTypeOK
<1>1. "dead" \in PidSteps /\ "quit" \in Goals /\ NoPid \in Pids \cup {NoPid}
  BY DEF PidSteps, Goals
<1> SUFFICES ASSUME PidInit PROVE PidTypeOK
  OBVIOUS
<1>2. at \in [Pids -> PidSteps] /\ goal \in [Pids -> Goals]
  BY <1>1 DEF PidInit
<1>3. /\ seen \in [Pids -> Pids \cup {NoPid}]
      /\ target \in [Pids -> Pids \cup {NoPid}]
  BY <1>1 DEF PidInit
<1> QED
  BY <1>1, <1>2, <1>3 DEF PidInit, PidTypeOK

LEMMA PidTypeStep == PidTypeOK /\ [PidNext]_pidVars => PidTypeOK'
<1> SUFFICES ASSUME PidTypeOK, [PidNext]_pidVars PROVE PidTypeOK'
  OBVIOUS
<1> USE DEF PidTypeOK
<1>1. ASSUME NEW p \in Pids, NEW g \in {"start", "replace", "check", "stop"}, Launch(p, g) PROVE PidTypeOK'
  BY <1>1 DEF Launch, GoTo, guardVars, PidSteps, InGuard, InLock, Daemon, Goals, Alive
<1>2. ASSUME NEW p \in Pids, Awaited(p) PROVE PidTypeOK'
  BY <1>2 DEF Awaited, GoTo, guardVars, PidSteps, InGuard, InLock, Daemon, Goals, Alive
<1>3. ASSUME NEW p \in Pids, LinkLock(p) PROVE PidTypeOK'
  BY <1>3 DEF LinkLock, GoTo, guardVars, PidSteps, InGuard, InLock, Daemon, Goals, Alive
<1>4. ASSUME NEW p \in Pids, JudgeLock(p) PROVE PidTypeOK'
  BY <1>4 DEF JudgeLock, Retries, GoTo, guardVars, PidSteps, InGuard, InLock, Daemon,
     Goals, Alive
<1>5. ASSUME NEW p \in Pids, LinkGuard(p) PROVE PidTypeOK'
  BY <1>5 DEF LinkGuard, GoTo, guardVars, PidSteps, InGuard, InLock, Daemon, Goals, Alive
<1>6. ASSUME NEW p \in Pids, RecheckLock(p) PROVE PidTypeOK'
  BY <1>6 DEF RecheckLock, GoTo, guardVars, PidSteps, InGuard, InLock, Daemon, Goals,
     Alive
<1>7. ASSUME NEW p \in Pids, RemoveLock(p) PROVE PidTypeOK'
  BY <1>7 DEF RemoveLock, GoTo, guardVars, PidSteps, InGuard, InLock, Daemon, Goals, Alive
<1>8. ASSUME NEW p \in Pids, DropGuard(p) PROVE PidTypeOK'
  BY <1>8 DEF DropGuard, Retries, GoTo, guardVars, PidSteps, InGuard, InLock, Daemon,
     Goals, Alive
<1>9. ASSUME NEW p \in Pids, JudgeGuard(p) PROVE PidTypeOK'
  BY <1>9 DEF JudgeGuard, Retries, GoTo, guardVars, PidSteps, InGuard, InLock, Daemon,
     Goals, Alive
<1>10. ASSUME NEW p \in Pids, RecheckGuard(p) PROVE PidTypeOK'
  BY <1>10 DEF RecheckGuard, Retries, GoTo, guardVars, PidSteps, InGuard, InLock, Daemon,
     Goals, Alive
<1>11. ASSUME NEW p \in Pids, RemoveGuard(p) PROVE PidTypeOK'
  BY <1>11 DEF RemoveGuard, Retries, GoTo, guardVars, PidSteps, InGuard, InLock, Daemon,
     Goals, Alive
<1>12. ASSUME NEW p \in Pids, CheckPidFile(p) PROVE PidTypeOK'
  BY <1>12 DEF CheckPidFile, Cleared, GoTo, guardVars, PidSteps, InGuard, InLock, Daemon,
     Goals, Alive
<1>13. ASSUME NEW p \in Pids, ReplacedExited(p) PROVE PidTypeOK'
  BY <1>13 DEF ReplacedExited, GoTo, guardVars, PidSteps, InGuard, InLock, Daemon, Goals,
     Alive
<1>14. ASSUME NEW p \in Pids, ComparePid(p) PROVE PidTypeOK'
  BY <1>14 DEF ComparePid, Cleared, GoTo, guardVars, PidSteps, InGuard, InLock, Daemon,
     Goals, Alive
<1>15. ASSUME NEW p \in Pids, RemovePid(p) PROVE PidTypeOK'
  BY <1>15 DEF RemovePid, Cleared, GoTo, guardVars, PidSteps, InGuard, InLock, Daemon,
     Goals, Alive
<1>16. ASSUME NEW p \in Pids, WritePidFile(p) PROVE PidTypeOK'
  BY <1>16 DEF WritePidFile, GoTo, guardVars, PidSteps, InGuard, InLock, Daemon, Goals,
     Alive
<1>17. ASSUME NEW p \in Pids, ReleaseLock(p) PROVE PidTypeOK'
  BY <1>17 DEF ReleaseLock, Released, Exits, GoTo, guardVars, PidSteps, InGuard, InLock,
     Daemon, Goals, Alive
<1>18. ASSUME NEW p \in Pids, RemoveOwnLock(p) PROVE PidTypeOK'
  BY <1>18 DEF RemoveOwnLock, Released, Exits, GoTo, guardVars, PidSteps, InGuard, InLock,
     Daemon, Goals, Alive
<1>19. ASSUME NEW p \in Pids, GiveUp(p) PROVE PidTypeOK'
  BY <1>19 DEF GiveUp, Exits, GoTo, guardVars, PidSteps, InGuard, InLock, Daemon, Goals,
     Alive
<1>20. ASSUME NEW p \in Pids, Terminate(p) PROVE PidTypeOK'
  BY <1>20 DEF Terminate, GoTo, guardVars, PidSteps, InGuard, InLock, Daemon, Goals, Alive
<1>21. ASSUME NEW p \in Pids, Finalize(p) PROVE PidTypeOK'
  BY <1>21 DEF Finalize, GoTo, guardVars, PidSteps, InGuard, InLock, Daemon, Goals, Alive
<1>22. ASSUME NEW p \in Pids, Crash(p) PROVE PidTypeOK'
  BY <1>22 DEF Crash, Exits, GoTo, guardVars, PidSteps, InGuard, InLock, Daemon, Goals,
     Alive
<1>23. CASE GuardAges
  BY <1>23 DEF GuardAges, procVars
<1>24. CASE UNCHANGED pidVars
  BY <1>24 DEF pidVars, procVars
<1>25. ASSUME NEW p \in Pids, StopJudging(p) PROVE PidTypeOK'
  BY <1>25 DEF StopJudging, GoTo, guardVars, PidSteps, InGuard, InLock, Daemon,
     Goals, Alive
<1> QED
  BY <1>1, <1>2, <1>3, <1>4, <1>5, <1>6, <1>7, <1>8, <1>9, <1>10, <1>11, <1>12, <1>13,
     <1>14, <1>15, <1>16, <1>17, <1>18, <1>19, <1>20, <1>21, <1>22, <1>23, <1>24,
     <1>25 DEF PidNext, Runs, Steals, Holds

--------------------------------------------------------------------------------
\* The guard is held by the process inside it, and never grows old.
GuardHeld ==
  /\ \A p \in Pids : at[p] \in InGuard <=> guardFile = p
  /\ guardFile # NoPid => ~guardOld
  /\ \A p \in Pids : at[p] \notin {"recheckGuard", "removeGuard"}

\* A holder judged stale stays gone: its PID is not given out while it is remembered.
SeenGone ==
  /\ \A p \in Pids : seen[p] # NoPid => seen[p] = p \/ at[seen[p]] = "dead"
  /\ \A p \in Pids : at[p] = "dead" => seen[p] = NoPid /\ goal[p] = "quit"

\* So the lock that is removed is never that of a process past acquirePidLock.
LockHeld ==
  /\ \A p \in Pids : at[p] \in InLock => lockFile = p
  /\ \A p \in Pids : at[p] \in {"guard", "judgeGuard", "recheck", "removeLock"} => seen[p] # NoPid
  /\ \A p \in Pids : at[p] = "removeLock" => lockFile = seen[p]

\* A process that goes to remove a PID's file saw that no daemon runs under it.
Removes(p) ==
  \/ at[p] \in {"compare", "compareReplaced", "removePid"}
  \/ goal[p] \in {"stop", "finalize"} /\ at[p] # "await"

TargetGone ==
  /\ \A p \in Pids : Removes(p) /\ target[p] # NoPid =>
       target[p] = p \/ at[target[p]] = "dead" \/ goal[target[p]] = "stop"
  /\ \A p \in Pids : at[p] \in {"check", "awaitLocked"} => goal[p] \notin {"stop", "finalize"}

\* What the process that holds the lock, and the daemon, know of daemon.pid.
FileKnown ==
  /\ \A p \in Pids : at[p] \in Daemon => pidFile = p /\ goal[p] \in {"start", "replace"}
  /\ \A p \in Pids : at[p] \in {"release", "removeOwn"} /\ goal[p] \in {"start", "replace"}
                       => pidFile = p
  /\ \A p \in Pids : at[p] = "write" => pidFile = NoPid
  /\ \A p \in Pids : at[p] \in {"removePid", "awaitLocked", "compareReplaced"}
                       => pidFile = target[p]
  /\ \A p \in Pids : at[p] = "compare" /\ goal[p] \notin {"stop", "finalize"}
                       => pidFile = target[p]

Guarded == GuardHeld /\ SeenGone /\ LockHeld /\ TargetGone /\ FileKnown

LEMMA GuardedInit == PidInit => Guarded
BY PidAssumption
   DEF PidInit, Guarded, GuardHeld, SeenGone, LockHeld, TargetGone, Removes, FileKnown,
       InGuard, InLock, Daemon

LEMMA GuardedStep ==
  PidTypeOK /\ Guarded /\ [PidNext]_pidVars /\ guardCrashes' = 0 => Guarded'
<1> SUFFICES ASSUME PidTypeOK, Guarded, [PidNext]_pidVars, guardCrashes' = 0 PROVE Guarded'
  OBVIOUS
<1> /\ pidFile \in Pids \cup {NoPid} /\ lockFile \in Pids \cup {NoPid}
    /\ guardFile \in Pids \cup {NoPid} /\ NoPid \notin Pids
    /\ at \in [Pids -> PidSteps] /\ goal \in [Pids -> Goals]
    /\ seen \in [Pids -> Pids \cup {NoPid}] /\ target \in [Pids -> Pids \cup {NoPid}]
    /\ guardCrashes \in Nat
  BY PidAssumption DEF PidTypeOK
<1> GuardHeld /\ SeenGone /\ LockHeld /\ TargetGone /\ FileKnown
  BY DEF Guarded
<1> USE DEF InGuard, InLock, Daemon, Alive
<1>1. ASSUME NEW p \in Pids, NEW g \in {"start", "replace", "check", "stop"}, Launch(p, g) PROVE Guarded'
  <2>1. GuardHeld'
    BY <1>1 DEF GuardHeld, Launch, GoTo, guardVars
  <2>2. SeenGone'
    BY <1>1 DEF SeenGone, GuardHeld, Launch, GoTo, guardVars
  <2>3. LockHeld'
    BY <1>1 DEF LockHeld, SeenGone, GuardHeld, Launch, GoTo, guardVars
  <2>4. TargetGone'
    BY <1>1 DEF TargetGone, FileKnown, SeenGone, Removes, Launch, GoTo, guardVars
  <2>5. FileKnown'
    BY <1>1 DEF FileKnown, TargetGone, LockHeld, SeenGone, Removes, Launch, GoTo,
       guardVars
  <2> QED
    BY <2>1, <2>2, <2>3, <2>4, <2>5 DEF Guarded
<1>2. ASSUME NEW p \in Pids, Awaited(p) PROVE Guarded'
  <2>1. GuardHeld'
    BY <1>2 DEF GuardHeld, Awaited, GoTo, guardVars
  <2>2. SeenGone'
    BY <1>2 DEF SeenGone, GuardHeld, Awaited, GoTo, guardVars
  <2>3. LockHeld'
    BY <1>2 DEF LockHeld, SeenGone, GuardHeld, Awaited, GoTo, guardVars
  <2>4. TargetGone'
    BY <1>2 DEF TargetGone, FileKnown, SeenGone, Removes, Awaited, GoTo, guardVars
  <2>5. FileKnown'
    BY <1>2 DEF FileKnown, TargetGone, LockHeld, SeenGone, Removes, Awaited, GoTo,
       guardVars
  <2> QED
    BY <2>1, <2>2, <2>3, <2>4, <2>5 DEF Guarded
<1>3. ASSUME NEW p \in Pids, LinkLock(p) PROVE Guarded'
  <2>1. GuardHeld'
    BY <1>3 DEF GuardHeld, LinkLock, GoTo, guardVars
  <2>2. SeenGone'
    BY <1>3 DEF SeenGone, GuardHeld, LinkLock, GoTo, guardVars
  <2>3. LockHeld'
    BY <1>3 DEF LockHeld, SeenGone, GuardHeld, LinkLock, GoTo, guardVars
  <2>4. TargetGone'
    BY <1>3 DEF TargetGone, FileKnown, SeenGone, Removes, LinkLock, GoTo, guardVars
  <2>5. FileKnown'
    BY <1>3 DEF FileKnown, TargetGone, LockHeld, SeenGone, Removes, LinkLock, GoTo,
       guardVars
  <2> QED
    BY <2>1, <2>2, <2>3, <2>4, <2>5 DEF Guarded
<1>4. ASSUME NEW p \in Pids, JudgeLock(p) PROVE Guarded'
  <2>1. GuardHeld'
    BY <1>4 DEF GuardHeld, JudgeLock, Retries, GoTo, guardVars
  <2>2. SeenGone'
    BY <1>4 DEF SeenGone, GuardHeld, JudgeLock, Retries, GoTo, guardVars
  <2>3. LockHeld'
    BY <1>4 DEF LockHeld, SeenGone, GuardHeld, JudgeLock, Retries, GoTo, guardVars
  <2>4. TargetGone'
    BY <1>4 DEF TargetGone, FileKnown, SeenGone, Removes, JudgeLock, Retries, GoTo,
       guardVars
  <2>5. FileKnown'
    BY <1>4 DEF FileKnown, TargetGone, LockHeld, SeenGone, Removes, JudgeLock, Retries,
       GoTo, guardVars
  <2> QED
    BY <2>1, <2>2, <2>3, <2>4, <2>5 DEF Guarded
<1>5. ASSUME NEW p \in Pids, LinkGuard(p) PROVE Guarded'
  <2>1. GuardHeld'
    BY <1>5 DEF GuardHeld, LinkGuard, GoTo, guardVars
  <2>2. SeenGone'
    BY <1>5 DEF SeenGone, GuardHeld, LinkGuard, GoTo, guardVars
  <2>3. LockHeld'
    BY <1>5 DEF LockHeld, SeenGone, GuardHeld, LinkGuard, GoTo, guardVars
  <2>4. TargetGone'
    BY <1>5 DEF TargetGone, FileKnown, SeenGone, Removes, LinkGuard, GoTo, guardVars
  <2>5. FileKnown'
    BY <1>5 DEF FileKnown, TargetGone, LockHeld, SeenGone, Removes, LinkGuard, GoTo,
       guardVars
  <2> QED
    BY <2>1, <2>2, <2>3, <2>4, <2>5 DEF Guarded
<1>6. ASSUME NEW p \in Pids, RecheckLock(p) PROVE Guarded'
  <2>1. GuardHeld'
    BY <1>6 DEF GuardHeld, RecheckLock, GoTo, guardVars
  <2>2. SeenGone'
    BY <1>6 DEF SeenGone, GuardHeld, RecheckLock, GoTo, guardVars
  <2>3. LockHeld'
    BY <1>6 DEF LockHeld, SeenGone, GuardHeld, RecheckLock, GoTo, guardVars
  <2>4. TargetGone'
    BY <1>6 DEF TargetGone, FileKnown, SeenGone, Removes, RecheckLock, GoTo, guardVars
  <2>5. FileKnown'
    BY <1>6 DEF FileKnown, TargetGone, LockHeld, SeenGone, Removes, RecheckLock, GoTo,
       guardVars
  <2> QED
    BY <2>1, <2>2, <2>3, <2>4, <2>5 DEF Guarded
<1>7. ASSUME NEW p \in Pids, RemoveLock(p) PROVE Guarded'
  <2>1. GuardHeld'
    BY <1>7 DEF GuardHeld, RemoveLock, GoTo, guardVars
  <2>2. SeenGone'
    BY <1>7 DEF SeenGone, GuardHeld, RemoveLock, GoTo, guardVars
  <2>3. LockHeld'
    BY <1>7 DEF LockHeld, SeenGone, GuardHeld, RemoveLock, GoTo, guardVars
  <2>4. TargetGone'
    BY <1>7 DEF TargetGone, FileKnown, SeenGone, Removes, RemoveLock, GoTo, guardVars
  <2>5. FileKnown'
    BY <1>7 DEF FileKnown, TargetGone, LockHeld, SeenGone, Removes, RemoveLock, GoTo,
       guardVars
  <2> QED
    BY <2>1, <2>2, <2>3, <2>4, <2>5 DEF Guarded
<1>8. ASSUME NEW p \in Pids, DropGuard(p) PROVE Guarded'
  <2>1. GuardHeld'
    BY <1>8 DEF GuardHeld, DropGuard, Retries, GoTo, guardVars
  <2>2. SeenGone'
    BY <1>8 DEF SeenGone, GuardHeld, DropGuard, Retries, GoTo, guardVars
  <2>3. LockHeld'
    BY <1>8 DEF LockHeld, SeenGone, GuardHeld, DropGuard, Retries, GoTo, guardVars
  <2>4. TargetGone'
    BY <1>8 DEF TargetGone, FileKnown, SeenGone, Removes, DropGuard, Retries, GoTo,
       guardVars
  <2>5. FileKnown'
    BY <1>8 DEF FileKnown, TargetGone, LockHeld, SeenGone, Removes, DropGuard, Retries,
       GoTo, guardVars
  <2> QED
    BY <2>1, <2>2, <2>3, <2>4, <2>5 DEF Guarded
<1>9. ASSUME NEW p \in Pids, JudgeGuard(p) PROVE Guarded'
  <2>1. GuardHeld'
    BY <1>9 DEF GuardHeld, JudgeGuard, Retries, GoTo, guardVars
  <2>2. SeenGone'
    BY <1>9 DEF SeenGone, GuardHeld, JudgeGuard, Retries, GoTo, guardVars
  <2>3. LockHeld'
    BY <1>9 DEF LockHeld, SeenGone, GuardHeld, JudgeGuard, Retries, GoTo, guardVars
  <2>4. TargetGone'
    BY <1>9 DEF TargetGone, FileKnown, SeenGone, Removes, JudgeGuard, Retries, GoTo,
       guardVars
  <2>5. FileKnown'
    BY <1>9 DEF FileKnown, TargetGone, LockHeld, SeenGone, Removes, JudgeGuard, Retries,
       GoTo, guardVars
  <2> QED
    BY <2>1, <2>2, <2>3, <2>4, <2>5 DEF Guarded
<1>10. ASSUME NEW p \in Pids, RecheckGuard(p) PROVE Guarded'
  <2>1. GuardHeld'
    BY <1>10 DEF GuardHeld, RecheckGuard, Retries, GoTo, guardVars
  <2>2. SeenGone'
    BY <1>10 DEF SeenGone, GuardHeld, RecheckGuard, Retries, GoTo, guardVars
  <2>3. LockHeld'
    BY <1>10 DEF LockHeld, SeenGone, GuardHeld, RecheckGuard, Retries, GoTo, guardVars
  <2>4. TargetGone'
    BY <1>10 DEF TargetGone, FileKnown, SeenGone, Removes, RecheckGuard, Retries, GoTo,
       guardVars
  <2>5. FileKnown'
    BY <1>10 DEF FileKnown, TargetGone, LockHeld, SeenGone, Removes, RecheckGuard,
       Retries, GoTo, guardVars
  <2> QED
    BY <2>1, <2>2, <2>3, <2>4, <2>5 DEF Guarded
<1>11. ASSUME NEW p \in Pids, RemoveGuard(p) PROVE Guarded'
  <2>1. GuardHeld'
    BY <1>11 DEF GuardHeld, RemoveGuard, Retries, GoTo, guardVars
  <2>2. SeenGone'
    BY <1>11 DEF SeenGone, GuardHeld, RemoveGuard, Retries, GoTo, guardVars
  <2>3. LockHeld'
    BY <1>11 DEF LockHeld, SeenGone, GuardHeld, RemoveGuard, Retries, GoTo, guardVars
  <2>4. TargetGone'
    BY <1>11 DEF TargetGone, FileKnown, SeenGone, Removes, RemoveGuard, Retries, GoTo,
       guardVars
  <2>5. FileKnown'
    BY <1>11 DEF FileKnown, TargetGone, LockHeld, SeenGone, Removes, RemoveGuard,
       Retries, GoTo, guardVars
  <2> QED
    BY <2>1, <2>2, <2>3, <2>4, <2>5 DEF Guarded
<1>12. ASSUME NEW p \in Pids, CheckPidFile(p) PROVE Guarded'
  <2>1. GuardHeld'
    BY <1>12 DEF GuardHeld, CheckPidFile, Cleared, GoTo, guardVars
  <2>2. SeenGone'
    BY <1>12 DEF SeenGone, GuardHeld, CheckPidFile, Cleared, GoTo, guardVars
  <2>3. LockHeld'
    BY <1>12 DEF LockHeld, SeenGone, GuardHeld, CheckPidFile, Cleared, GoTo, guardVars
  <2>4. TargetGone'
    BY <1>12 DEF TargetGone, FileKnown, SeenGone, Removes, CheckPidFile, Cleared, GoTo,
       guardVars
  <2>5. FileKnown'
    BY <1>12 DEF FileKnown, TargetGone, LockHeld, SeenGone, Removes, CheckPidFile,
       Cleared, GoTo, guardVars
  <2> QED
    BY <2>1, <2>2, <2>3, <2>4, <2>5 DEF Guarded
<1>13. ASSUME NEW p \in Pids, ReplacedExited(p) PROVE Guarded'
  <2>1. GuardHeld'
    BY <1>13 DEF GuardHeld, ReplacedExited, GoTo, guardVars
  <2>2. SeenGone'
    BY <1>13 DEF SeenGone, GuardHeld, ReplacedExited, GoTo, guardVars
  <2>3. LockHeld'
    BY <1>13 DEF LockHeld, SeenGone, GuardHeld, ReplacedExited, GoTo, guardVars
  <2>4. TargetGone'
    BY <1>13 DEF TargetGone, FileKnown, SeenGone, Removes, ReplacedExited, GoTo,
       guardVars
  <2>5. FileKnown'
    BY <1>13 DEF FileKnown, TargetGone, LockHeld, SeenGone, Removes, ReplacedExited,
       GoTo, guardVars
  <2> QED
    BY <2>1, <2>2, <2>3, <2>4, <2>5 DEF Guarded
<1>14. ASSUME NEW p \in Pids, ComparePid(p) PROVE Guarded'
  <2>1. GuardHeld'
    BY <1>14 DEF GuardHeld, ComparePid, Cleared, GoTo, guardVars
  <2>2. SeenGone'
    BY <1>14 DEF SeenGone, GuardHeld, ComparePid, Cleared, GoTo, guardVars
  <2>3. LockHeld'
    BY <1>14 DEF LockHeld, SeenGone, GuardHeld, ComparePid, Cleared, GoTo, guardVars
  <2>4. TargetGone'
    BY <1>14 DEF TargetGone, FileKnown, SeenGone, Removes, ComparePid, Cleared, GoTo,
       guardVars
  <2>5. FileKnown'
    BY <1>14 DEF FileKnown, TargetGone, LockHeld, SeenGone, Removes, ComparePid,
       Cleared, GoTo, guardVars
  <2> QED
    BY <2>1, <2>2, <2>3, <2>4, <2>5 DEF Guarded
<1>15. ASSUME NEW p \in Pids, RemovePid(p) PROVE Guarded'
  <2>1. GuardHeld'
    BY <1>15 DEF GuardHeld, RemovePid, Cleared, GoTo, guardVars
  <2>2. SeenGone'
    BY <1>15 DEF SeenGone, GuardHeld, RemovePid, Cleared, GoTo, guardVars
  <2>3. LockHeld'
    BY <1>15 DEF LockHeld, SeenGone, GuardHeld, RemovePid, Cleared, GoTo, guardVars
  <2>4. TargetGone'
    BY <1>15 DEF TargetGone, FileKnown, SeenGone, Removes, RemovePid, Cleared, GoTo,
       guardVars
  <2>5. FileKnown'
    BY <1>15 DEF FileKnown, TargetGone, LockHeld, SeenGone, Removes, RemovePid, Cleared,
       GoTo, guardVars
  <2> QED
    BY <2>1, <2>2, <2>3, <2>4, <2>5 DEF Guarded
<1>16. ASSUME NEW p \in Pids, WritePidFile(p) PROVE Guarded'
  <2>1. GuardHeld'
    BY <1>16 DEF GuardHeld, WritePidFile, GoTo, guardVars
  <2>2. SeenGone'
    BY <1>16 DEF SeenGone, GuardHeld, WritePidFile, GoTo, guardVars
  <2>3. LockHeld'
    BY <1>16 DEF LockHeld, SeenGone, GuardHeld, WritePidFile, GoTo, guardVars
  <2>4. TargetGone'
    BY <1>16 DEF TargetGone, FileKnown, SeenGone, Removes, WritePidFile, GoTo, guardVars
  <2>5. FileKnown'
    BY <1>16 DEF FileKnown, TargetGone, LockHeld, SeenGone, Removes, WritePidFile, GoTo,
       guardVars
  <2> QED
    BY <2>1, <2>2, <2>3, <2>4, <2>5 DEF Guarded
<1>17. ASSUME NEW p \in Pids, ReleaseLock(p) PROVE Guarded'
  <2>1. GuardHeld'
    BY <1>17 DEF GuardHeld, ReleaseLock, Released, Exits, GoTo, guardVars
  <2>2. SeenGone'
    BY <1>17 DEF SeenGone, GuardHeld, ReleaseLock, Released, Exits, GoTo, guardVars
  <2>3. LockHeld'
    BY <1>17 DEF LockHeld, SeenGone, GuardHeld, ReleaseLock, Released, Exits, GoTo,
       guardVars
  <2>4. TargetGone'
    BY <1>17 DEF TargetGone, FileKnown, SeenGone, Removes, ReleaseLock, Released, Exits,
       GoTo, guardVars
  <2>5. FileKnown'
    BY <1>17 DEF FileKnown, TargetGone, LockHeld, SeenGone, Removes, ReleaseLock,
       Released, Exits, GoTo, guardVars
  <2> QED
    BY <2>1, <2>2, <2>3, <2>4, <2>5 DEF Guarded
<1>18. ASSUME NEW p \in Pids, RemoveOwnLock(p) PROVE Guarded'
  <2>1. GuardHeld'
    BY <1>18 DEF GuardHeld, RemoveOwnLock, Released, Exits, GoTo, guardVars
  <2>2. SeenGone'
    BY <1>18 DEF SeenGone, GuardHeld, RemoveOwnLock, Released, Exits, GoTo, guardVars
  <2>3. LockHeld'
    BY <1>18 DEF LockHeld, SeenGone, GuardHeld, RemoveOwnLock, Released, Exits, GoTo,
       guardVars
  <2>4. TargetGone'
    BY <1>18 DEF TargetGone, FileKnown, SeenGone, Removes, RemoveOwnLock, Released,
       Exits, GoTo, guardVars
  <2>5. FileKnown'
    BY <1>18 DEF FileKnown, TargetGone, LockHeld, SeenGone, Removes, RemoveOwnLock,
       Released, Exits, GoTo, guardVars
  <2> QED
    BY <2>1, <2>2, <2>3, <2>4, <2>5 DEF Guarded
<1>19. ASSUME NEW p \in Pids, GiveUp(p) PROVE Guarded'
  <2>1. GuardHeld'
    BY <1>19 DEF GuardHeld, GiveUp, Exits, GoTo, guardVars
  <2>2. SeenGone'
    BY <1>19 DEF SeenGone, GuardHeld, GiveUp, Exits, GoTo, guardVars
  <2>3. LockHeld'
    BY <1>19 DEF LockHeld, SeenGone, GuardHeld, GiveUp, Exits, GoTo, guardVars
  <2>4. TargetGone'
    BY <1>19 DEF TargetGone, FileKnown, SeenGone, Removes, GiveUp, Exits, GoTo,
       guardVars
  <2>5. FileKnown'
    BY <1>19 DEF FileKnown, TargetGone, LockHeld, SeenGone, Removes, GiveUp, Exits,
       GoTo, guardVars
  <2> QED
    BY <2>1, <2>2, <2>3, <2>4, <2>5 DEF Guarded
<1>20. ASSUME NEW p \in Pids, Terminate(p) PROVE Guarded'
  <2>1. GuardHeld'
    BY <1>20 DEF GuardHeld, Terminate, GoTo, guardVars
  <2>2. SeenGone'
    BY <1>20 DEF SeenGone, GuardHeld, Terminate, GoTo, guardVars
  <2>3. LockHeld'
    BY <1>20 DEF LockHeld, SeenGone, GuardHeld, Terminate, GoTo, guardVars
  <2>4. TargetGone'
    BY <1>20 DEF TargetGone, FileKnown, SeenGone, Removes, Terminate, GoTo, guardVars
  <2>5. FileKnown'
    BY <1>20 DEF FileKnown, TargetGone, LockHeld, SeenGone, Removes, Terminate, GoTo,
       guardVars
  <2> QED
    BY <2>1, <2>2, <2>3, <2>4, <2>5 DEF Guarded
<1>21. ASSUME NEW p \in Pids, Finalize(p) PROVE Guarded'
  <2>1. GuardHeld'
    BY <1>21 DEF GuardHeld, Finalize, GoTo, guardVars
  <2>2. SeenGone'
    BY <1>21 DEF SeenGone, GuardHeld, Finalize, GoTo, guardVars
  <2>3. LockHeld'
    BY <1>21 DEF LockHeld, SeenGone, GuardHeld, Finalize, GoTo, guardVars
  <2>4. TargetGone'
    BY <1>21 DEF TargetGone, FileKnown, SeenGone, Removes, Finalize, GoTo, guardVars
  <2>5. FileKnown'
    BY <1>21 DEF FileKnown, TargetGone, LockHeld, SeenGone, Removes, Finalize, GoTo,
       guardVars
  <2> QED
    BY <2>1, <2>2, <2>3, <2>4, <2>5 DEF Guarded
<1>22. ASSUME NEW p \in Pids, Crash(p) PROVE Guarded'
  <2>1. GuardHeld'
    BY <1>22 DEF GuardHeld, Crash, Exits, GoTo, guardVars
  <2>2. SeenGone'
    BY <1>22 DEF SeenGone, GuardHeld, Crash, Exits, GoTo, guardVars
  <2>3. LockHeld'
    BY <1>22 DEF LockHeld, SeenGone, GuardHeld, Crash, Exits, GoTo, guardVars
  <2>4. TargetGone'
    BY <1>22 DEF TargetGone, FileKnown, SeenGone, Removes, Crash, Exits, GoTo, guardVars
  <2>5. FileKnown'
    BY <1>22 DEF FileKnown, TargetGone, LockHeld, SeenGone, Removes, Crash, Exits, GoTo,
       guardVars
  <2> QED
    BY <2>1, <2>2, <2>3, <2>4, <2>5 DEF Guarded
<1>23. CASE GuardAges
  BY <1>23 DEF GuardAges, GuardHeld
<1>24. CASE UNCHANGED pidVars
  BY <1>24 DEF pidVars, procVars, Guarded, GuardHeld, SeenGone, LockHeld, TargetGone,
     Removes, FileKnown
<1>25. ASSUME NEW p \in Pids, StopJudging(p) PROVE Guarded'
  <2>1. GuardHeld'
    BY <1>25 DEF GuardHeld, StopJudging, GoTo, guardVars
  <2>2. SeenGone'
    BY <1>25 DEF SeenGone, GuardHeld, StopJudging, GoTo, guardVars
  <2>3. LockHeld'
    BY <1>25 DEF LockHeld, SeenGone, GuardHeld, StopJudging, GoTo, guardVars
  <2>4. TargetGone'
    BY <1>25 DEF TargetGone, FileKnown, SeenGone, Removes, StopJudging, GoTo,
       guardVars
  <2>5. FileKnown'
    BY <1>25 DEF FileKnown, TargetGone, LockHeld, SeenGone, Removes, StopJudging,
       GoTo, guardVars
  <2> QED
    BY <2>1, <2>2, <2>3, <2>4, <2>5 DEF Guarded
<1> QED
  BY <1>1, <1>2, <1>3, <1>4, <1>5, <1>6, <1>7, <1>8, <1>9, <1>10, <1>11, <1>12, <1>13,
     <1>14, <1>15, <1>16, <1>17, <1>18, <1>19, <1>20, <1>21, <1>22, <1>23, <1>24,
     <1>25 DEF PidNext, Runs, Steals, Holds

--------------------------------------------------------------------------------
\* A process that died inside the guard stays in the count.
LEMMA CrashesCount ==
  PidTypeOK /\ [PidNext]_pidVars /\ guardCrashes' = 0 => guardCrashes = 0
BY DEF PidTypeOK, PidNext, pidVars, procVars, guardVars, Launch, Runs, Steals, Holds, Awaited,
       LinkLock, JudgeLock, LinkGuard, RecheckLock, RemoveLock, DropGuard, JudgeGuard,
       RecheckGuard, RemoveGuard, CheckPidFile, ReplacedExited, ComparePid, StopJudging,
       RemovePid, WritePidFile, ReleaseLock, RemoveOwnLock, GiveUp, Terminate, Finalize, Crash, GuardAges

PidInv == PidTypeOK /\ (guardCrashes = 0 => Guarded)

LEMMA PidInvAlways == PidSpec => []PidInv
<1>1. PidInit => PidInv
  BY PidTypeInit, GuardedInit DEF PidInv
<1>2. PidInv /\ [PidNext]_pidVars => PidInv'
  BY PidTypeStep, GuardedStep, CrashesCount DEF PidInv
<1> QED
  BY <1>1, <1>2, PTL DEF PidSpec

\* Every state of the files and of the processes is well typed.
THEOREM PidTypes == PidSpec => []PidTypeOK
<1>1. PidInv => PidTypeOK
  BY DEF PidInv
<1> QED
  BY <1>1, PidInvAlways, PTL

\* However processes interleave, are killed and leave stale locks behind, one at a
\* time is past acquirePidLock, unless one died inside the guard.
THEOREM LockExcludes == PidSpec => []LockIsExclusive
<1>1. PidInv => LockIsExclusive
  BY DEF PidInv, Guarded, LockHeld, LockIsExclusive
<1> QED
  BY <1>1, PidInvAlways, PTL

\* Racing starts, replacements, stops and shutdowns leave one daemon, named by
\* daemon.pid, unless one died inside the guard.
THEOREM NamesOneDaemon == PidSpec => []OneNamedDaemon
<1>1. PidInv => OneNamedDaemon
  BY DEF PidInv, Guarded, FileKnown, OneNamedDaemon
<1> QED
  BY <1>1, PidInvAlways, PTL

--------------------------------------------------------------------------------
(* An agent's session and the claude that writes it *)

\* SessionTypeOK without the operation.
RestTyped ==
  /\ stored \in Nat /\ session \in Nat /\ minted \in Nat
  /\ forked \in Nat /\ boot \in Nat /\ faults \in Nat
  /\ owner \in Procs \cup {NoProc} /\ agent \in Procs \cup {NoProc}
  /\ sessOf \in [Procs -> Nat] /\ bootOf \in [Procs -> Nat]
  /\ alive \subseteq Procs /\ exited \subseteq Procs /\ quitting \subseteq Procs
  /\ quarantined \subseteq Procs /\ leaving \subseteq Procs /\ recorded \subseteq Procs
  /\ retired \in [Procs -> {"no", "running", "done"}]

LEMMA OpsTyped ==
  /\ NoOp \in LifecycleOps /\ ToSpawn \in LifecycleOps
  /\ [ToSpawn EXCEPT !.retried = TRUE] \in LifecycleOps
  /\ \A kind \in {"spawn", "restart", "keep", "clear"} : \A p \in Procs \cup {NoProc} :
       /\ [NoOp EXCEPT !.kind = kind, !.at = "mint"] \in LifecycleOps
       /\ [NoOp EXCEPT !.kind = kind, !.at = "retire", !.proc = p] \in LifecycleOps
BY DEF NoOp, ToSpawn, LifecycleOps, OpSteps, NoProc

LEMMA OpUpdated ==
  ASSUME op \in LifecycleOps, NEW to \in OpSteps, NEW p \in Procs \cup {NoProc}
  PROVE  /\ [op EXCEPT !.at = to] \in LifecycleOps
         /\ [op EXCEPT !.at = to, !.rec = p] \in LifecycleOps
         /\ [op EXCEPT !.at = to, !.proc = p] \in LifecycleOps
         /\ [op EXCEPT !.at = to, !.known = FALSE] \in LifecycleOps
         /\ \A n \in Nat : [op EXCEPT !.at = to, !.fresh = n] \in LifecycleOps
BY DEF LifecycleOps

LEMMA GoOnTyped ==
  ASSUME op \in LifecycleOps, NEW to \in OpSteps, GoOn(to)
  PROVE  op' \in LifecycleOps
BY OpUpdated DEF GoOn, NoProc

\* Which operation takes a step, and that it names a claude where it is about one.
OpMatches ==
  /\ op.at \in {"guard", "examine", "rotate", "gate", "identify", "write", "collide"}
       => op.kind = "spawn"
  /\ op.at \in {"retire", "confirm"} => op.kind \in {"spawn", "keep", "clear"}
  /\ op.at \in {"identify", "write", "collide", "retire", "confirm"} => op.proc \in Procs

TypeInv == SessionTypeOK /\ OpMatches

\* How operations begin and end.
LEMMA OpStarts ==
  /\ NoOp.at = "idle" /\ NoOp.kind = "none"
  /\ ToSpawn.at = "guard" /\ ToSpawn.kind = "spawn"
  /\ LET again == [ToSpawn EXCEPT !.retried = TRUE]
     IN  again.at = "guard" /\ again.kind = "spawn"
  /\ \A kind : LET first == [NoOp EXCEPT !.kind = kind, !.at = "mint"]
               IN  first.at = "mint" /\ first.kind = kind
  /\ \A kind, p : LET first == [NoOp EXCEPT !.kind = kind, !.at = "retire", !.proc = p]
                  IN  first.at = "retire" /\ first.kind = kind /\ first.proc = p
BY DEF NoOp, ToSpawn

LEMMA StartMatches == (op' = NoOp \/ op' = ToSpawn) => OpMatches'
BY OpStarts DEF OpMatches

LEMMA SessionTypeInit == SessionInit => TypeInv
BY SessionAssumption
   DEF SessionInit, TypeInv, OpMatches, SessionTypeOK, NoOp, OpSteps, LifecycleOps, Procs, NoProc

LEMMA SessionTypeStep == TypeInv /\ [SessionNext]_sessionVars => TypeInv'
<1> SUFFICES ASSUME TypeInv, [SessionNext]_sessionVars PROVE TypeInv'
  OBVIOUS
<1> op \in LifecycleOps /\ RestTyped /\ OpMatches
  BY DEF TypeInv, SessionTypeOK, RestTyped
<1>1. ASSUME NEW kind \in {"spawn", "restart", "keep", "clear"}, BeginOp(kind) PROVE TypeInv'
  <2>1. op' \in LifecycleOps
    BY <1>1, OpsTyped DEF BeginOp, At, RestTyped, Persist
  <2>2. RestTyped'
    BY <1>1 DEF RestTyped, BeginOp, At, NoProc, worldVars, recordVars, lifeVars, historyVars
  <2>3. OpMatches'
    <3>1. CASE kind = "spawn"
      BY <1>1, <3>1, StartMatches DEF BeginOp
    <3>2. CASE kind = "restart"
      <4>1. op' = [NoOp EXCEPT !.kind = "restart", !.at = "mint"]
        BY <1>1, <3>2 DEF BeginOp
      <4>2. op'.at = "mint" /\ op'.kind = "restart"
        BY <4>1, OpStarts
      <4> QED
        BY <4>2 DEF OpMatches
    <3>3. CASE kind \in {"keep", "clear"}
      <4>1. op' = [NoOp EXCEPT !.kind = kind, !.at = "retire", !.proc = agent] /\ agent \in Procs
        BY <1>1, <3>3 DEF BeginOp, RestTyped
      <4>2. op'.at = "retire" /\ op'.kind = kind /\ op'.proc = agent
        BY <4>1, OpStarts
      <4> QED
        BY <4>1, <4>2, <3>3 DEF OpMatches
    <3> QED
      BY <3>1, <3>2, <3>3
  <2> QED
    BY <2>1, <2>2, <2>3 DEF TypeInv, SessionTypeOK, RestTyped
<1>2. CASE Mint
  <2>1. op' \in LifecycleOps
    <3>1. minted + 1 \in Nat /\ NoProc \in Procs \cup {NoProc} /\ "stop" \in OpSteps
      BY DEF RestTyped, OpSteps
    <3>2. [op EXCEPT !.at = "stop", !.fresh = minted + 1] \in LifecycleOps
      BY <3>1, OpUpdated
    <3> QED
      BY <1>2, <3>2, OpsTyped DEF Mint, OpEnds
  <2>2. RestTyped'
    BY <1>2 DEF RestTyped, Mint, At, Persist, Fault, worldVars, lifeVars, historyVars,
       NoProc
  <2>3. OpMatches'
    <3>1. CASE OpEnds
      BY <3>1, StartMatches DEF OpEnds
    <3>2. CASE op' = [op EXCEPT !.at = "stop", !.fresh = minted + 1]
      BY <1>2, <3>2 DEF OpMatches, Mint, At, GoOn, LifecycleOps
    <3> QED
      BY <1>2, <3>1, <3>2 DEF Mint
  <2> QED
    BY <2>1, <2>2, <2>3 DEF TypeInv, SessionTypeOK, RestTyped
<1>3. CASE StopOld
  <2>1. op' \in LifecycleOps
    BY <1>3, OpsTyped, OpUpdated DEF StopOld, At, OpSteps, NoProc, RestTyped, Persist
  <2>2. RestTyped'
    BY <1>3 DEF RestTyped, StopOld, At, Quit, worldVars, recordVars, historyVars, NoProc
  <2>3. OpMatches'
    BY <1>3 DEF OpMatches, StopOld, At, LifecycleOps
  <2> QED
    BY <2>1, <2>2, <2>3 DEF TypeInv, SessionTypeOK, RestTyped
<1>4. CASE AdoptFresh
  <2>1. op' \in LifecycleOps
    BY <1>4, OpsTyped DEF AdoptFresh, At
  <2>2. RestTyped'
    BY <1>4 DEF RestTyped, AdoptFresh, At, worldVars, recordVars, lifeVars, historyVars,
       LifecycleOps, NoProc
  <2>3. OpMatches'
    BY <1>4 DEF OpMatches, AdoptFresh, At, NoOp, ToSpawn, LifecycleOps
  <2> QED
    BY <2>1, <2>2, <2>3 DEF TypeInv, SessionTypeOK, RestTyped
<1>5. CASE Retire
  <2>1. op' \in LifecycleOps
    BY <1>5, OpsTyped, GoOnTyped DEF Retire, At, OpSteps, NoProc
  <2>2. RestTyped'
    BY <1>5 DEF RestTyped, Retire, At, Quit, worldVars, recordVars, historyVars, NoProc
  <2>3. OpMatches'
    BY <1>5 DEF OpMatches, Retire, At, GoOn, LifecycleOps
  <2> QED
    BY <2>1, <2>2, <2>3 DEF TypeInv, SessionTypeOK, RestTyped
<1>6. CASE ConfirmRetired
  <2>4. op.kind \in {"spawn", "keep", "clear"} /\ op.proc \in Procs
    BY <1>6 DEF ConfirmRetired, At, OpMatches
  <2>1. op' \in LifecycleOps
    <3>1. [op EXCEPT !.at = "persist"] \in LifecycleOps
      BY OpUpdated DEF OpSteps
    <3>2. op' \in {NoOp, ToSpawn, [op EXCEPT !.at = "persist"]}
      BY <1>6, <2>4 DEF ConfirmRetired, OpEnds
    <3> QED
      BY <3>1, <3>2, OpsTyped
  <2>2. RestTyped'
    BY <1>6, <2>4 DEF RestTyped, ConfirmRetired, At, Fenced, ClearRecord, Unregister, Fault,
       historyVars, NoProc
  <2>3. OpMatches'
    <3>1. [op EXCEPT !.at = "persist"].at = "persist"
      BY DEF LifecycleOps
    <3>2. op' \in {NoOp, ToSpawn, [op EXCEPT !.at = "persist"]}
      BY <1>6, <2>4 DEF ConfirmRetired, OpEnds
    <3> QED
      BY <3>1, <3>2, StartMatches DEF OpMatches
  <2> QED
    BY <2>1, <2>2, <2>3 DEF TypeInv, SessionTypeOK, RestTyped
<1>7. CASE PersistCleared
  <2>1. op' \in LifecycleOps
    BY <1>7, OpsTyped DEF PersistCleared, At
  <2>2. RestTyped'
    BY <1>7 DEF RestTyped, PersistCleared, At, Persist, Fault, worldVars, lifeVars,
       historyVars, NoProc
  <2>3. OpMatches'
    BY <1>7 DEF OpMatches, PersistCleared, At, NoOp, ToSpawn, LifecycleOps
  <2> QED
    BY <2>1, <2>2, <2>3 DEF TypeInv, SessionTypeOK, RestTyped
<1>8. CASE ReadRecord
  <2>1. op' \in LifecycleOps
    <3>1. [op EXCEPT !.at = "examine", !.rec = owner] \in LifecycleOps
      BY OpUpdated DEF OpSteps, RestTyped
    <3>2. GoOn("rotate") => op' \in LifecycleOps
      BY GoOnTyped DEF OpSteps
    <3> QED
      BY <1>8, <3>1, <3>2, OpsTyped DEF ReadRecord, OpEnds
  <2>2. RestTyped'
    BY <1>8 DEF RestTyped, ReadRecord, At, NoProc, Fault, worldVars, recordVars, lifeVars,
       historyVars
  <2>3. OpMatches'
    <3>1. CASE OpEnds
      BY <3>1, StartMatches DEF OpEnds
    <3>2. CASE GoOn("rotate")
      BY <1>8, <3>2 DEF OpMatches, ReadRecord, At, GoOn, LifecycleOps
    <3>3. CASE op' = [op EXCEPT !.at = "examine", !.rec = owner]
      BY <1>8, <3>3 DEF OpMatches, ReadRecord, At, GoOn, LifecycleOps
    <3> QED
      BY <1>8, <3>1, <3>2, <3>3 DEF ReadRecord
  <2> QED
    BY <2>1, <2>2, <2>3 DEF TypeInv, SessionTypeOK, RestTyped
<1>9. CASE Examine
  <2>1. op' \in LifecycleOps
    BY <1>9, OpsTyped, GoOnTyped DEF Examine, At, OpSteps, NoProc
  <2>2. RestTyped'
    BY <1>9 DEF RestTyped, Examine, At, Unconcerned, ClearRecord, Fault, lifeVars,
       historyVars, NoProc
  <2>3. OpMatches'
    <3>1. CASE GoOn("gate")
      BY <1>9, <3>1 DEF OpMatches, Examine, At, GoOn, LifecycleOps
    <3>2. CASE GoOn("rotate")
      BY <1>9, <3>2 DEF OpMatches, Examine, At, GoOn, LifecycleOps
    <3> QED
      BY <1>9, <3>1, <3>2 DEF Examine
  <2> QED
    BY <2>1, <2>2, <2>3 DEF TypeInv, SessionTypeOK, RestTyped
<1>10. CASE Unproved
  <2>1. op' \in LifecycleOps
    BY <1>10, OpsTyped, GoOnTyped DEF Unproved, OpEnds, At, OpSteps, NoProc
  <2>2. RestTyped'
    BY <1>10 DEF RestTyped, Unproved, At, Unconcerned, Fault, worldVars, recordVars,
       lifeVars, historyVars, NoProc
  <2>3. OpMatches'
    <3>1. CASE OpEnds
      BY <3>1, StartMatches DEF OpEnds
    <3>2. CASE GoOn("rotate")
      BY <1>10, <3>2 DEF OpMatches, Unproved, At, GoOn, LifecycleOps
    <3> QED
      BY <1>10, <3>1, <3>2 DEF Unproved
  <2> QED
    BY <2>1, <2>2, <2>3 DEF TypeInv, SessionTypeOK, RestTyped
<1>11. CASE RotateStored
  <2>1. op' \in LifecycleOps
    BY <1>11, OpsTyped, GoOnTyped DEF RotateStored, OpEnds, At, OpSteps, NoProc
  <2>2. RestTyped'
    BY <1>11 DEF RestTyped, RotateStored, At, Persist, Fault, worldVars, lifeVars,
       historyVars, NoProc
  <2>3. OpMatches'
    <3>1. CASE OpEnds
      BY <3>1, StartMatches DEF OpEnds
    <3>2. CASE GoOn("gate")
      BY <1>11, <3>2 DEF OpMatches, RotateStored, At, GoOn, LifecycleOps
    <3> QED
      BY <1>11, <3>1, <3>2 DEF RotateStored
  <2> QED
    BY <2>1, <2>2, <2>3 DEF TypeInv, SessionTypeOK, RestTyped
<1>12. CASE Refused
  <2>1. op' \in LifecycleOps
    BY <1>12, OpsTyped DEF Refused, OpEnds, At
  <2>2. RestTyped'
    BY <1>12 DEF RestTyped, Refused, At, OfSession, Fenced, Fault, worldVars, recordVars,
       lifeVars, historyVars, NoProc
  <2>3. OpMatches'
    <3>1. CASE OpEnds
      BY <3>1, StartMatches DEF OpEnds
    <3> QED
      BY <1>12, <3>1 DEF Refused
  <2> QED
    BY <2>1, <2>2, <2>3 DEF TypeInv, SessionTypeOK, RestTyped
<1>13. CASE Fork
  <2>1. op' \in LifecycleOps
    BY <1>13, OpsTyped, OpUpdated DEF Fork, At, OpSteps, NoProc, RestTyped, Persist, Procs
  <2>2. RestTyped'
    <3>1. forked + 1 \in Procs /\ forked + 1 \in Nat
      BY <1>13 DEF Fork, RestTyped
    <3> QED
      BY <1>13, <3>1 DEF RestTyped, Fork, recordVars, historyVars
  <2>3. OpMatches'
    BY <1>13 DEF OpMatches, Fork, At, LifecycleOps, RestTyped, Procs
  <2> QED
    BY <2>1, <2>2, <2>3 DEF TypeInv, SessionTypeOK, RestTyped
<1>14. CASE Identify
  <2>1. op' \in LifecycleOps
    BY <1>14, OpsTyped, GoOnTyped, OpUpdated DEF Identify, At, OpSteps, NoProc
  <2>2. RestTyped'
    BY <1>14 DEF RestTyped, Identify, At, Fault, worldVars, recordVars, lifeVars,
       historyVars, NoProc
  <2>3. OpMatches'
    BY <1>14 DEF OpMatches, Identify, At, GoOn, NoOp, ToSpawn, LifecycleOps
  <2> QED
    BY <2>1, <2>2, <2>3 DEF TypeInv, SessionTypeOK, RestTyped
<1>15. CASE WriteRecord
  <2>1. op' \in LifecycleOps
    BY <1>15, OpsTyped, GoOnTyped DEF WriteRecord, At, OpSteps, NoProc
  <2>2. RestTyped'
    BY <1>15 DEF OpMatches, RestTyped, WriteRecord, At, LiveOwner, Fault, worldVars, lifeVars, NoProc
  <2>3. OpMatches'
    <3>1. CASE GoOn("collide")
      BY <1>15, <3>1 DEF OpMatches, WriteRecord, At, GoOn, LifecycleOps
    <3>2. CASE GoOn("retire")
      BY <1>15, <3>2 DEF OpMatches, WriteRecord, At, GoOn, LifecycleOps
    <3> QED
      BY <1>15, <3>1, <3>2 DEF WriteRecord
  <2> QED
    BY <2>1, <2>2, <2>3 DEF TypeInv, SessionTypeOK, RestTyped
<1>16. CASE SpawnEnds
  <2>1. op' \in LifecycleOps
    BY <1>16, OpsTyped DEF SpawnEnds, OpEnds, At
  <2>2. RestTyped'
    BY <1>16 DEF RestTyped, SpawnEnds, At, worldVars, recordVars, lifeVars, historyVars,
       NoProc
  <2>3. OpMatches'
    BY <1>16, StartMatches DEF SpawnEnds, OpEnds
  <2> QED
    BY <2>1, <2>2, <2>3 DEF TypeInv, SessionTypeOK, RestTyped
<1>17. CASE Collided
  <2>1. op' \in LifecycleOps
    BY <1>17, OpsTyped DEF Collided, OpEnds, At
  <2>2. RestTyped'
    BY <1>17 DEF RestTyped, Collided, At, Unregister, Persist, Fault, worldVars, lifeVars,
       historyVars, NoProc
  <2>3. OpMatches'
    <3>1. op' \in {NoOp, [ToSpawn EXCEPT !.retried = TRUE]}
      BY <1>17 DEF Collided, OpEnds
    <3> QED
      BY <3>1, OpStarts, StartMatches DEF OpMatches
  <2> QED
    BY <2>1, <2>2, <2>3 DEF TypeInv, SessionTypeOK, RestTyped
<1>18. CASE StopAgent
  <2>1. op' \in LifecycleOps
    BY <1>18 DEF StopAgent
  <2>2. RestTyped'
    BY <1>18 DEF RestTyped, StopAgent, NoProc, Quit, worldVars, recordVars, historyVars
  <2>3. OpMatches'
    BY <1>18 DEF OpMatches, StopAgent
  <2> QED
    BY <2>1, <2>2, <2>3 DEF TypeInv, SessionTypeOK, RestTyped
<1>19. ASSUME NEW p \in Procs, SeeExit(p) PROVE TypeInv'
  <2>1. op' \in LifecycleOps
    BY <1>19 DEF SeeExit
  <2>2. RestTyped'
    BY <1>19 DEF RestTyped, SeeExit, ThisBoot, ExitEvent, worldVars, recordVars,
       historyVars, BeginRetirement, Unregister, NoProc
  <2>3. OpMatches'
    BY <1>19 DEF OpMatches, SeeExit
  <2> QED
    BY <2>1, <2>2, <2>3 DEF TypeInv, SessionTypeOK, RestTyped
<1>20. ASSUME NEW p \in Procs, KillTimer(p) PROVE TypeInv'
  <2>1. op' \in LifecycleOps
    BY <1>20 DEF KillTimer
  <2>2. RestTyped'
    BY <1>20 DEF RestTyped, KillTimer, ExitEvent, BeginRetirement, worldVars, recordVars,
       historyVars, Unregister, NoProc
  <2>3. OpMatches'
    BY <1>20 DEF OpMatches, KillTimer
  <2> QED
    BY <2>1, <2>2, <2>3 DEF TypeInv, SessionTypeOK, RestTyped
<1>21. ASSUME NEW p \in Procs, RetirementSettles(p) PROVE TypeInv'
  <2>1. op' \in LifecycleOps
    BY <1>21 DEF RetirementSettles
  <2>2. RestTyped'
    BY <1>21 DEF RestTyped, RetirementSettles, Fault, Unregister, recordVars, historyVars,
       NoProc
  <2>3. OpMatches'
    BY <1>21 DEF OpMatches, RetirementSettles
  <2> QED
    BY <2>1, <2>2, <2>3 DEF TypeInv, SessionTypeOK, RestTyped
<1>22. ASSUME NEW p \in Procs, LeaveRecord(p) PROVE TypeInv'
  <2>1. op' \in LifecycleOps
    BY <1>22 DEF LeaveRecord
  <2>2. RestTyped'
    BY <1>22 DEF RestTyped, LeaveRecord, ClearRecord, Fault, worldVars, historyVars, NoProc
  <2>3. OpMatches'
    BY <1>22 DEF OpMatches, LeaveRecord
  <2> QED
    BY <2>1, <2>2, <2>3 DEF TypeInv, SessionTypeOK, RestTyped
<1>23. ASSUME NEW p \in Procs, Dies(p) PROVE TypeInv'
  <2>1. op' \in LifecycleOps
    BY <1>23 DEF Dies
  <2>2. RestTyped'
    BY <1>23 DEF RestTyped, Dies, recordVars, lifeVars, historyVars, NoProc
  <2>3. OpMatches'
    BY <1>23 DEF OpMatches, Dies
  <2> QED
    BY <2>1, <2>2, <2>3 DEF TypeInv, SessionTypeOK, RestTyped
<1>24. CASE RestartDaemon
  <2>1. op' \in LifecycleOps
    BY <1>24, OpsTyped DEF RestartDaemon
  <2>2. RestTyped'
    BY <1>24 DEF RestTyped, RestartDaemon, NoProc, worldVars, recordVars
  <2>3. OpMatches'
    BY <1>24, StartMatches DEF RestartDaemon, OpEnds
  <2> QED
    BY <2>1, <2>2, <2>3 DEF TypeInv, SessionTypeOK, RestTyped
<1>25. CASE UNCHANGED sessionVars
  BY <1>25 DEF TypeInv, OpMatches, SessionTypeOK, RestTyped, sessionVars, worldVars, recordVars, lifeVars,
     historyVars
<1> QED
  BY <1>1, <1>2, <1>3, <1>4, <1>5, <1>6, <1>7, <1>8, <1>9, <1>10, <1>11, <1>12, <1>13,
     <1>14, <1>15, <1>16, <1>17, <1>18, <1>19, <1>20, <1>21, <1>22, <1>23, <1>24, <1>25 DEF
     SessionNext, OpStep
\* Claudes are numbered as they are forked; nothing is known of later ones.
Numbered ==
  /\ boot > 0
  /\ \A p \in Procs : p > forked =>
       p \notin quitting /\ p \notin recorded /\ p # agent /\ bootOf[p] = 0 /\ retired[p] = "no"
  /\ op.at \in {"identify", "write"} => op.proc <= forked

\* A session is used from the moment it is adopted; a fresh one was never used.
SessionsInOrder ==
  /\ \A p \in Procs : p <= forked => sessOf[p] <= session
  /\ IF op.at \in {"stop", "stopped"} THEN session < op.fresh /\ op.fresh = stored
                                      ELSE session = stored
  /\ stored <= minted
  /\ \A p \in Procs : p <= forked => bootOf[p] <= boot

\* What runs beside the registered claude is fenced or quarantined.
Contained ==
  /\ \A p \in alive : ThisBoot(p) => agent = p \/ retired[p] = "running" \/ p \in quarantined
  /\ \A p \in alive : retired[p] = "done" => p \in quarantined
  /\ \A p \in exited : retired[p] # "no"

\* The record names whatever was recorded in the present session and is alive.
RecordHolds == \A p \in alive \cap recorded : sessOf[p] = session => owner = p

\* The orphans a spawn could meet, as far as it has come.
Orphans == {p \in alive \cap recorded : ~ThisBoot(p) /\ sessOf[p] = session}

SpawnIsAlone ==
  /\ op.at \in {"examine", "rotate", "gate"} => agent = NoProc
  /\ op.at = "examine" => \A p \in Orphans : op.rec = p
  /\ op.at = "gate" => Orphans = {}

\* What has become of the claude an operation is about.
OpAgent ==
  /\ op.at \in {"identify", "write"} => sessOf[op.proc] = session /\ ThisBoot(op.proc)
  /\ op.at \in {"identify", "write", "collide", "retire"} => agent \in {NoProc, op.proc}
  /\ op.at \in {"stopped", "confirm"} => agent = NoProc \/ (agent = op.proc /\ agent \in quitting)
  /\ op.at = "persist" => agent = NoProc

\* The registered claude.
AgentKnown ==
  agent # NoProc =>
    /\ sessOf[agent] = session
    /\ agent \in alive /\ ~BeingRecorded => agent \in recorded

SessionInv ==
  /\ Numbered /\ SessionsInOrder /\ Contained /\ RecordHolds /\ SpawnIsAlone
  /\ OpAgent /\ AgentKnown /\ OneWriter

LEMMA SessionInvStep == TypeInv /\ TypeInv' /\ SessionInv /\ [SessionNext]_sessionVars => SessionInv'
<1> SUFFICES ASSUME TypeInv, SessionInv, [SessionNext]_sessionVars PROVE SessionInv'
  OBVIOUS
<1> /\ op \in LifecycleOps /\ RestTyped /\ OpMatches
    /\ Numbered /\ SessionsInOrder /\ Contained /\ RecordHolds /\ SpawnIsAlone
    /\ OpAgent /\ AgentKnown /\ OneWriter
  BY DEF TypeInv, SessionTypeOK, RestTyped, SessionInv
<1>1. ASSUME NEW kind \in {"spawn", "restart", "keep", "clear"}, BeginOp(kind) PROVE SessionInv'
  <2>0. op.at = "idle" /\ (op'.at \in {"guard", "mint"} \/ (op'.at = "retire" /\ op'.kind = kind /\ kind # "spawn" /\ op'.proc = agent))
    BY <1>1, OpStarts DEF BeginOp, At, OpEnds, GoOn, LifecycleOps
  <2>1. Numbered'
    BY <1>1, <2>0 DEF Numbered, RestTyped, NoProc, BeginOp, worldVars, recordVars, lifeVars,
       historyVars
  <2>2. SessionsInOrder'
    BY <1>1, <2>0 DEF SessionsInOrder, RestTyped, NoProc, BeginOp, worldVars, recordVars,
       lifeVars, historyVars
  <2>3. Contained'
    BY <1>1, <2>0 DEF Contained, ThisBoot, RestTyped, NoProc, BeginOp, worldVars,
       recordVars, lifeVars, historyVars
  <2>4. RecordHolds'
    BY <1>1, <2>0 DEF RecordHolds, RestTyped, NoProc, BeginOp, worldVars, recordVars,
       lifeVars, historyVars
  <2>5. SpawnIsAlone'
    BY <1>1, <2>0 DEF SpawnIsAlone, Orphans, ThisBoot, RestTyped, NoProc, BeginOp,
       worldVars, recordVars, lifeVars, historyVars
  <2>6. OpAgent'
    BY <1>1, <2>0 DEF OpAgent, ThisBoot, RestTyped, NoProc, BeginOp, worldVars, recordVars,
       lifeVars, historyVars
  <2>7. AgentKnown'
    BY <1>1, <2>0 DEF AgentKnown, BeingRecorded, RestTyped, NoProc, BeginOp, worldVars,
       recordVars, lifeVars, historyVars
  <2>8. OneWriter'
    BY <1>1, <2>0 DEF OneWriter, Accounted, ThisBoot, RestTyped, NoProc, BeginOp, worldVars,
       recordVars, lifeVars, historyVars
  <2> QED
    BY <2>1, <2>2, <2>3, <2>4, <2>5, <2>6, <2>7, <2>8 DEF SessionInv
<1>2. CASE Mint
  <2>0. op.at = "mint" /\ ((op'.at = "stop" /\ op'.fresh = minted + 1 /\ Persist) \/ (op'.at = "idle" /\ UNCHANGED <<stored, minted>>))
    BY <1>2, OpStarts DEF Mint, OpEnds, At, LifecycleOps
  <2>1. Numbered'
    BY <1>2, <2>0 DEF Numbered, RestTyped, NoProc, Mint, Persist, Fault, worldVars,
       lifeVars, historyVars
  <2>2. SessionsInOrder'
    BY <1>2, <2>0 DEF SessionsInOrder, RestTyped, NoProc, Mint, Persist, Fault, worldVars,
       lifeVars, historyVars
  <2>3. Contained'
    BY <1>2, <2>0 DEF Contained, ThisBoot, RestTyped, NoProc, Mint, Persist, Fault,
       worldVars, lifeVars, historyVars
  <2>4. RecordHolds'
    BY <1>2, <2>0 DEF RecordHolds, RestTyped, NoProc, Mint, Persist, Fault, worldVars,
       lifeVars, historyVars
  <2>5. SpawnIsAlone'
    BY <1>2, <2>0 DEF SpawnIsAlone, Orphans, ThisBoot, RestTyped, NoProc, Mint, Persist,
       Fault, worldVars, lifeVars, historyVars
  <2>6. OpAgent'
    BY <1>2, <2>0 DEF OpAgent, ThisBoot, RestTyped, NoProc, Mint, Persist, Fault, worldVars,
       lifeVars, historyVars
  <2>7. AgentKnown'
    BY <1>2, <2>0 DEF AgentKnown, BeingRecorded, RestTyped, NoProc, Mint, Persist, Fault,
       worldVars, lifeVars, historyVars
  <2>8. OneWriter'
    BY <1>2, <2>0 DEF OneWriter, Accounted, ThisBoot, RestTyped, NoProc, Mint, Persist,
       Fault, worldVars, lifeVars, historyVars
  <2> QED
    BY <2>1, <2>2, <2>3, <2>4, <2>5, <2>6, <2>7, <2>8 DEF SessionInv
<1>3. CASE StopOld
  <2>0. op.at = "stop" /\ op'.at = "stopped" /\ op'.proc = agent /\ op'.fresh = op.fresh
    BY <1>3, OpStarts DEF StopOld, At, LifecycleOps
  <2>1. Numbered'
    BY <1>3, <2>0 DEF Numbered, RestTyped, NoProc, StopOld, Quit, worldVars, recordVars,
       historyVars
  <2>2. SessionsInOrder'
    BY <1>3, <2>0 DEF SessionsInOrder, RestTyped, NoProc, StopOld, Quit, worldVars,
       recordVars, historyVars
  <2>3. Contained'
    BY <1>3, <2>0 DEF Contained, ThisBoot, RestTyped, NoProc, StopOld, Quit, worldVars,
       recordVars, historyVars
  <2>4. RecordHolds'
    BY <1>3, <2>0 DEF RecordHolds, RestTyped, NoProc, StopOld, Quit, worldVars, recordVars,
       historyVars
  <2>5. SpawnIsAlone'
    BY <1>3, <2>0 DEF SpawnIsAlone, Orphans, ThisBoot, RestTyped, NoProc, StopOld, Quit,
       worldVars, recordVars, historyVars
  <2>6. OpAgent'
    BY <1>3, <2>0 DEF OpAgent, ThisBoot, RestTyped, NoProc, StopOld, Quit, worldVars,
       recordVars, historyVars
  <2>7. AgentKnown'
    BY <1>3, <2>0 DEF AgentKnown, BeingRecorded, RestTyped, NoProc, StopOld, Quit,
       worldVars, recordVars, historyVars
  <2>8. OneWriter'
    BY <1>3, <2>0 DEF OneWriter, Accounted, ThisBoot, RestTyped, NoProc, StopOld, Quit,
       worldVars, recordVars, historyVars
  <2> QED
    BY <2>1, <2>2, <2>3, <2>4, <2>5, <2>6, <2>7, <2>8 DEF SessionInv
<1>4. CASE AdoptFresh
  <2>0. op.at = "stopped" /\ op'.at = "guard"
    BY <1>4, OpStarts DEF AdoptFresh, At
  <2>1. Numbered'
    BY <1>4, <2>0 DEF Numbered, RestTyped, NoProc, AdoptFresh, worldVars, recordVars,
       lifeVars, historyVars
  <2>2. SessionsInOrder'
    BY <1>4, <2>0 DEF SessionsInOrder, RestTyped, NoProc, AdoptFresh, worldVars, recordVars,
       lifeVars, historyVars
  <2>3. Contained'
    BY <1>4, <2>0 DEF Contained, ThisBoot, RestTyped, NoProc, AdoptFresh, worldVars,
       recordVars, lifeVars, historyVars
  <2>4. RecordHolds'
    BY <1>4, <2>0 DEF RecordHolds, Numbered, SessionsInOrder, Procs, LifecycleOps,
       RestTyped, NoProc, AdoptFresh, worldVars, recordVars, lifeVars, historyVars
  <2>5. SpawnIsAlone'
    BY <1>4, <2>0 DEF SpawnIsAlone, Orphans, ThisBoot, RestTyped, NoProc, AdoptFresh,
       worldVars, recordVars, lifeVars, historyVars
  <2>6. OpAgent'
    BY <1>4, <2>0 DEF OpAgent, ThisBoot, RestTyped, NoProc, AdoptFresh, worldVars,
       recordVars, lifeVars, historyVars
  <2>7. AgentKnown'
    BY <1>4, <2>0 DEF AgentKnown, BeingRecorded, OpAgent, RestTyped, NoProc, AdoptFresh,
       worldVars, recordVars, lifeVars, historyVars
  <2>8. OneWriter'
    BY <1>4, <2>0 DEF OneWriter, Accounted, ThisBoot, RestTyped, NoProc, AdoptFresh,
       worldVars, recordVars, lifeVars, historyVars
  <2> QED
    BY <2>1, <2>2, <2>3, <2>4, <2>5, <2>6, <2>7, <2>8 DEF SessionInv
<1>5. CASE Retire
  <2>0. op.at = "retire" /\ op'.at = "confirm" /\ op'.proc = op.proc /\ op'.kind = op.kind
    BY <1>5, OpStarts DEF Retire, At, GoOn, LifecycleOps
  <2>1. Numbered'
    BY <1>5, <2>0 DEF Numbered, RestTyped, NoProc, Retire, Quit, worldVars, recordVars,
       historyVars
  <2>2. SessionsInOrder'
    BY <1>5, <2>0 DEF SessionsInOrder, RestTyped, NoProc, Retire, Quit, worldVars,
       recordVars, historyVars
  <2>3. Contained'
    BY <1>5, <2>0 DEF Contained, ThisBoot, RestTyped, NoProc, Retire, Quit, worldVars,
       recordVars, historyVars
  <2>4. RecordHolds'
    BY <1>5, <2>0 DEF RecordHolds, RestTyped, NoProc, Retire, Quit, worldVars, recordVars,
       historyVars
  <2>5. SpawnIsAlone'
    BY <1>5, <2>0 DEF SpawnIsAlone, Orphans, ThisBoot, RestTyped, NoProc, Retire, Quit,
       worldVars, recordVars, historyVars
  <2>6. OpAgent'
    BY <1>5, <2>0 DEF OpAgent, ThisBoot, RestTyped, NoProc, Retire, Quit, worldVars,
       recordVars, historyVars
  <2>7. AgentKnown'
    BY <1>5, <2>0 DEF AgentKnown, BeingRecorded, RestTyped, NoProc, Retire, Quit, worldVars,
       recordVars, historyVars
  <2>8. OneWriter'
    BY <1>5, <2>0 DEF OneWriter, Accounted, ThisBoot, RestTyped, NoProc, Retire, Quit,
       worldVars, recordVars, historyVars
  <2> QED
    BY <2>1, <2>2, <2>3, <2>4, <2>5, <2>6, <2>7, <2>8 DEF SessionInv
<1>6. CASE ConfirmRetired
  <2>0. op.at = "confirm" /\ op'.at \in {"persist", "guard", "idle"}
    <3>1. [op EXCEPT !.at = "persist"].at = "persist"
      BY DEF LifecycleOps
    <3>2. op.at = "confirm" /\ op.kind \in {"spawn", "keep", "clear"}
      BY <1>6 DEF ConfirmRetired, At, OpMatches
    <3>3. op' \in {NoOp, ToSpawn, [op EXCEPT !.at = "persist"]}
      BY <1>6, <3>2 DEF ConfirmRetired, OpEnds
    <3> QED
      BY <3>1, <3>2, <3>3, OpStarts
  <2>1. Numbered'
    BY <1>6, <2>0 DEF Numbered, RestTyped, NoProc, ConfirmRetired, Fenced, ClearRecord,
       Unregister, Fault, historyVars
  <2>2. SessionsInOrder'
    BY <1>6, <2>0 DEF SessionsInOrder, RestTyped, NoProc, ConfirmRetired, Fenced,
       ClearRecord, Unregister, Fault, historyVars
  <2>3. Contained'
    BY <1>6, <2>0 DEF Contained, ThisBoot, RestTyped, NoProc, ConfirmRetired, Fenced,
       ClearRecord, Unregister, Fault, historyVars
  <2>4. RecordHolds'
    BY <1>6, <2>0 DEF RecordHolds, RestTyped, NoProc, ConfirmRetired, Fenced, ClearRecord,
       Unregister, Fault, historyVars
  <2>5. SpawnIsAlone'
    BY <1>6, <2>0 DEF SpawnIsAlone, Orphans, ThisBoot, RestTyped, NoProc, ConfirmRetired,
       Fenced, ClearRecord, Unregister, Fault, historyVars
  <2>6. OpAgent'
    BY <1>6, <2>0 DEF OpAgent, ThisBoot, RestTyped, NoProc, ConfirmRetired, Fenced,
       ClearRecord, Unregister, Fault, historyVars
  <2>7. AgentKnown'
    BY <1>6, <2>0 DEF AgentKnown, BeingRecorded, OpAgent, OpMatches, RestTyped, NoProc,
       ConfirmRetired, Fenced, ClearRecord, Unregister, Fault, historyVars
  <2>8. OneWriter'
    BY <1>6, <2>0 DEF OneWriter, Accounted, ThisBoot, RestTyped, NoProc, ConfirmRetired,
       Fenced, ClearRecord, Unregister, Fault, historyVars
  <2> QED
    BY <2>1, <2>2, <2>3, <2>4, <2>5, <2>6, <2>7, <2>8 DEF SessionInv
<1>7. CASE PersistCleared
  <2>0. op.at = "persist" /\ op'.at = "guard"
    BY <1>7, OpStarts DEF PersistCleared, At
  <2>1. Numbered'
    BY <1>7, <2>0 DEF Numbered, RestTyped, NoProc, PersistCleared, Persist, Fault,
       worldVars, lifeVars, historyVars
  <2>2. SessionsInOrder'
    BY <1>7, <2>0 DEF SessionsInOrder, RestTyped, NoProc, PersistCleared, Persist, Fault,
       worldVars, lifeVars, historyVars
  <2>3. Contained'
    BY <1>7, <2>0 DEF Contained, ThisBoot, RestTyped, NoProc, PersistCleared, Persist,
       Fault, worldVars, lifeVars, historyVars
  <2>4. RecordHolds'
    BY <1>7, <2>0 DEF RecordHolds, Numbered, SessionsInOrder, Procs, LifecycleOps,
       RestTyped, NoProc, PersistCleared, Persist, Fault, worldVars, lifeVars, historyVars
  <2>5. SpawnIsAlone'
    BY <1>7, <2>0 DEF SpawnIsAlone, Orphans, ThisBoot, RestTyped, NoProc, PersistCleared,
       Persist, Fault, worldVars, lifeVars, historyVars
  <2>6. OpAgent'
    BY <1>7, <2>0 DEF OpAgent, ThisBoot, RestTyped, NoProc, PersistCleared, Persist, Fault,
       worldVars, lifeVars, historyVars
  <2>7. AgentKnown'
    BY <1>7, <2>0 DEF AgentKnown, BeingRecorded, OpAgent, RestTyped, NoProc, PersistCleared,
       Persist, Fault, worldVars, lifeVars, historyVars
  <2>8. OneWriter'
    BY <1>7, <2>0 DEF OneWriter, Accounted, ThisBoot, RestTyped, NoProc, PersistCleared,
       Persist, Fault, worldVars, lifeVars, historyVars
  <2> QED
    BY <2>1, <2>2, <2>3, <2>4, <2>5, <2>6, <2>7, <2>8 DEF SessionInv
<1>8. CASE ReadRecord
  <2>0. op.at = "guard" /\ (op'.at = "idle" \/ (agent = NoProc /\ op'.at = "examine" /\ op'.rec = owner)
                                       \/ (agent = NoProc /\ op'.at = "rotate"))
    BY <1>8, OpStarts DEF ReadRecord, At, OpEnds, GoOn, LifecycleOps
  <2>1. Numbered'
    BY <1>8, <2>0 DEF Numbered, RestTyped, NoProc, ReadRecord, Fault, worldVars, recordVars,
       lifeVars, historyVars
  <2>2. SessionsInOrder'
    BY <1>8, <2>0 DEF SessionsInOrder, RestTyped, NoProc, ReadRecord, Fault, worldVars,
       recordVars, lifeVars, historyVars
  <2>3. Contained'
    BY <1>8, <2>0 DEF Contained, ThisBoot, RestTyped, NoProc, ReadRecord, Fault, worldVars,
       recordVars, lifeVars, historyVars
  <2>4. RecordHolds'
    BY <1>8, <2>0 DEF RecordHolds, RestTyped, NoProc, ReadRecord, Fault, worldVars,
       recordVars, lifeVars, historyVars
  <2>5. SpawnIsAlone'
    BY <1>8, <2>0 DEF SpawnIsAlone, Orphans, ThisBoot, RecordHolds, RestTyped, NoProc,
       ReadRecord, Fault, worldVars, recordVars, lifeVars, historyVars
  <2>6. OpAgent'
    BY <1>8, <2>0 DEF OpAgent, ThisBoot, RestTyped, NoProc, ReadRecord, Fault, worldVars,
       recordVars, lifeVars, historyVars
  <2>7. AgentKnown'
    BY <1>8, <2>0 DEF AgentKnown, BeingRecorded, RestTyped, NoProc, ReadRecord, Fault,
       worldVars, recordVars, lifeVars, historyVars
  <2>8. OneWriter'
    BY <1>8, <2>0 DEF OneWriter, Accounted, ThisBoot, RestTyped, NoProc, ReadRecord, Fault,
       worldVars, recordVars, lifeVars, historyVars
  <2> QED
    BY <2>1, <2>2, <2>3, <2>4, <2>5, <2>6, <2>7, <2>8 DEF SessionInv
<1>9. CASE Examine
  <2>0. op.at = "examine" /\ op'.at \in {"gate", "rotate"}
    BY <1>9, OpStarts DEF Examine, At, GoOn, LifecycleOps
  <2>1. Numbered'
    BY <1>9, <2>0 DEF Numbered, RestTyped, NoProc, Examine, Unconcerned, ClearRecord, Fault,
       lifeVars, historyVars
  <2>2. SessionsInOrder'
    BY <1>9, <2>0 DEF SessionsInOrder, RestTyped, NoProc, Examine, Unconcerned, ClearRecord,
       Fault, lifeVars, historyVars
  <2>3. Contained'
    BY <1>9, <2>0 DEF Contained, ThisBoot, RestTyped, NoProc, Examine, Unconcerned,
       ClearRecord, Fault, lifeVars, historyVars
  <2>4. RecordHolds'
    BY <1>9, <2>0 DEF RecordHolds, RestTyped, NoProc, Examine, Unconcerned, ClearRecord,
       Fault, lifeVars, historyVars
  <2>5. SpawnIsAlone'
    BY <1>9, <2>0 DEF SpawnIsAlone, Orphans, ThisBoot, RestTyped, NoProc, Examine,
       Unconcerned, ClearRecord, Fault, lifeVars, historyVars
  <2>6. OpAgent'
    BY <1>9, <2>0 DEF OpAgent, ThisBoot, RestTyped, NoProc, Examine, Unconcerned,
       ClearRecord, Fault, lifeVars, historyVars
  <2>7. AgentKnown'
    BY <1>9, <2>0 DEF AgentKnown, BeingRecorded, RestTyped, NoProc, Examine, Unconcerned,
       ClearRecord, Fault, lifeVars, historyVars
  <2>8. OneWriter'
    BY <1>9, <2>0 DEF OneWriter, Accounted, ThisBoot, RestTyped, NoProc, Examine,
       Unconcerned, ClearRecord, Fault, lifeVars, historyVars
  <2> QED
    BY <2>1, <2>2, <2>3, <2>4, <2>5, <2>6, <2>7, <2>8 DEF SessionInv
<1>10. CASE Unproved
  <2>0. op.at = "examine" /\ op'.at \in {"rotate", "idle"}
    BY <1>10, OpStarts DEF Unproved, At, OpEnds, GoOn, LifecycleOps
  <2>1. Numbered'
    BY <1>10, <2>0 DEF Numbered, RestTyped, NoProc, Unproved, Unconcerned, Fault, worldVars,
       recordVars, lifeVars, historyVars
  <2>2. SessionsInOrder'
    BY <1>10, <2>0 DEF SessionsInOrder, RestTyped, NoProc, Unproved, Unconcerned, Fault,
       worldVars, recordVars, lifeVars, historyVars
  <2>3. Contained'
    BY <1>10, <2>0 DEF Contained, ThisBoot, RestTyped, NoProc, Unproved, Unconcerned, Fault,
       worldVars, recordVars, lifeVars, historyVars
  <2>4. RecordHolds'
    BY <1>10, <2>0 DEF RecordHolds, RestTyped, NoProc, Unproved, Unconcerned, Fault,
       worldVars, recordVars, lifeVars, historyVars
  <2>5. SpawnIsAlone'
    BY <1>10, <2>0 DEF SpawnIsAlone, Orphans, ThisBoot, RestTyped, NoProc, Unproved,
       Unconcerned, Fault, worldVars, recordVars, lifeVars, historyVars
  <2>6. OpAgent'
    BY <1>10, <2>0 DEF OpAgent, ThisBoot, RestTyped, NoProc, Unproved, Unconcerned, Fault,
       worldVars, recordVars, lifeVars, historyVars
  <2>7. AgentKnown'
    BY <1>10, <2>0 DEF AgentKnown, BeingRecorded, RestTyped, NoProc, Unproved, Unconcerned,
       Fault, worldVars, recordVars, lifeVars, historyVars
  <2>8. OneWriter'
    BY <1>10, <2>0 DEF OneWriter, Accounted, ThisBoot, RestTyped, NoProc, Unproved,
       Unconcerned, Fault, worldVars, recordVars, lifeVars, historyVars
  <2> QED
    BY <2>1, <2>2, <2>3, <2>4, <2>5, <2>6, <2>7, <2>8 DEF SessionInv
<1>11. CASE RotateStored
  <2>0. op.at = "rotate" /\ op'.at \in {"gate", "idle"}
    BY <1>11, OpStarts DEF RotateStored, At, OpEnds, GoOn, LifecycleOps
  <2>1. Numbered'
    BY <1>11, <2>0 DEF Numbered, RestTyped, NoProc, RotateStored, Persist, Fault, worldVars,
       lifeVars, historyVars
  <2>2. SessionsInOrder'
    BY <1>11, <2>0 DEF SessionsInOrder, RestTyped, NoProc, RotateStored, Persist, Fault,
       worldVars, lifeVars, historyVars
  <2>3. Contained'
    BY <1>11, <2>0 DEF Contained, ThisBoot, RestTyped, NoProc, RotateStored, Persist, Fault,
       worldVars, lifeVars, historyVars
  <2>4. RecordHolds'
    BY <1>11, <2>0 DEF RecordHolds, Numbered, SessionsInOrder, Procs, LifecycleOps,
       RestTyped, NoProc, RotateStored, Persist, Fault, worldVars, lifeVars, historyVars
  <2>5. SpawnIsAlone'
    <3>1. agent' = NoProc
      BY <1>11, <2>0 DEF RotateStored, SpawnIsAlone
    <3>2. ASSUME op'.at = "gate", NEW p \in Orphans' PROVE FALSE
      <4>1. session' = minted + 1 /\ UNCHANGED <<sessOf, recorded>>
        BY <1>11, <3>2, OpStarts DEF RotateStored, OpEnds, Persist, worldVars, historyVars
      <4>2. p \in Procs /\ p \in recorded /\ sessOf[p] = minted + 1
        BY <3>2, <4>1 DEF Orphans, RestTyped
      <4>3. p <= forked
        BY <4>2 DEF Numbered, Procs, RestTyped
      <4>4. sessOf[p] <= session /\ session <= minted
        BY <2>0, <4>2, <4>3 DEF SessionsInOrder, RestTyped
      <4> QED
        BY <4>2, <4>4 DEF RestTyped
    <3> QED
      BY <2>0, <3>1, <3>2 DEF SpawnIsAlone
  <2>6. OpAgent'
    BY <1>11, <2>0 DEF OpAgent, ThisBoot, RestTyped, NoProc, RotateStored, Persist, Fault,
       worldVars, lifeVars, historyVars
  <2>7. AgentKnown'
    BY <1>11, <2>0 DEF AgentKnown, BeingRecorded, SpawnIsAlone, RestTyped, NoProc,
       RotateStored, Persist, Fault, worldVars, lifeVars, historyVars
  <2>8. OneWriter'
    BY <1>11, <2>0 DEF OneWriter, Accounted, ThisBoot, RestTyped, NoProc, RotateStored,
       Persist, Fault, worldVars, lifeVars, historyVars
  <2> QED
    BY <2>1, <2>2, <2>3, <2>4, <2>5, <2>6, <2>7, <2>8 DEF SessionInv
<1>12. CASE Refused
  <2>0. op.at = "gate" /\ op'.at = "idle"
    BY <1>12, OpStarts DEF Refused, At, OpEnds
  <2>1. Numbered'
    BY <1>12, <2>0 DEF Numbered, RestTyped, NoProc, Refused, OfSession, Fenced, Fault,
       worldVars, recordVars, lifeVars, historyVars
  <2>2. SessionsInOrder'
    BY <1>12, <2>0 DEF SessionsInOrder, RestTyped, NoProc, Refused, OfSession, Fenced,
       Fault, worldVars, recordVars, lifeVars, historyVars
  <2>3. Contained'
    BY <1>12, <2>0 DEF Contained, ThisBoot, RestTyped, NoProc, Refused, OfSession, Fenced,
       Fault, worldVars, recordVars, lifeVars, historyVars
  <2>4. RecordHolds'
    BY <1>12, <2>0 DEF RecordHolds, RestTyped, NoProc, Refused, OfSession, Fenced, Fault,
       worldVars, recordVars, lifeVars, historyVars
  <2>5. SpawnIsAlone'
    BY <1>12, <2>0 DEF SpawnIsAlone, Orphans, ThisBoot, RestTyped, NoProc, Refused,
       OfSession, Fenced, Fault, worldVars, recordVars, lifeVars, historyVars
  <2>6. OpAgent'
    BY <1>12, <2>0 DEF OpAgent, ThisBoot, RestTyped, NoProc, Refused, OfSession, Fenced,
       Fault, worldVars, recordVars, lifeVars, historyVars
  <2>7. AgentKnown'
    BY <1>12, <2>0 DEF AgentKnown, BeingRecorded, RestTyped, NoProc, Refused, OfSession,
       Fenced, Fault, worldVars, recordVars, lifeVars, historyVars
  <2>8. OneWriter'
    BY <1>12, <2>0 DEF OneWriter, Accounted, ThisBoot, RestTyped, NoProc, Refused,
       OfSession, Fenced, Fault, worldVars, recordVars, lifeVars, historyVars
  <2> QED
    BY <2>1, <2>2, <2>3, <2>4, <2>5, <2>6, <2>7, <2>8 DEF SessionInv
<1>13. CASE Fork
  <2>0. op.at = "gate" /\ op'.at = "identify" /\ op'.kind = op.kind /\ op'.proc = forked + 1
    BY <1>13, OpStarts DEF Fork, At, LifecycleOps
  <2>1. Numbered'
    BY <1>13, <2>0 DEF Numbered, Procs, RestTyped, NoProc, Fork, OfSession, Fenced,
       recordVars, historyVars
  <2>2. SessionsInOrder'
    BY <1>13, <2>0 DEF SessionsInOrder, Procs, RestTyped, NoProc, Fork, OfSession, Fenced,
       recordVars, historyVars
  <2>3. Contained'
    <3>1. ASSUME NEW p \in alive', ThisBoot(p)' PROVE agent' = p \/ retired'[p] = "running" \/ p \in quarantined'
      <4>1. CASE p = forked + 1
        BY <1>13, <4>1 DEF Fork
      <4>2. CASE p # forked + 1
        <5>1. p \in alive /\ ThisBoot(p) /\ p \notin OfSession(quarantined)
          BY <1>13, <3>1, <4>2 DEF Fork, ThisBoot, historyVars, RestTyped
        <5>2. agent = NoProc /\ agent # p
          BY <1>13, <2>0, <5>1 DEF SpawnIsAlone, RestTyped, Procs, NoProc
        <5> QED
          BY <1>13, <5>1, <5>2 DEF Fork, Contained
      <4> QED
        BY <4>1, <4>2
    <3>2. ASSUME NEW p \in alive', retired'[p] = "done" PROVE p \in quarantined'
      <4>1. p # forked + 1
        BY <1>13, <3>2 DEF Fork, Numbered, RestTyped
      <4> QED
        BY <1>13, <3>2, <4>1 DEF Fork, Contained
    <3>3. \A p \in exited' : retired'[p] # "no"
      BY <1>13 DEF Fork, Contained
    <3> QED
      BY <3>1, <3>2, <3>3 DEF Contained
  <2>4. RecordHolds'
    BY <1>13, <2>0 DEF RecordHolds, Numbered, Procs, RestTyped, NoProc, Fork, OfSession,
       Fenced, recordVars, historyVars
  <2>5. SpawnIsAlone'
    BY <1>13, <2>0 DEF SpawnIsAlone, Orphans, ThisBoot, RestTyped, NoProc, Fork, OfSession,
       Fenced, recordVars, historyVars
  <2>6. OpAgent'
    BY <1>13, <2>0 DEF OpAgent, ThisBoot, RestTyped, NoProc, Fork, OfSession, Fenced,
       recordVars, historyVars
  <2>7. AgentKnown'
    BY <1>13, <2>0 DEF AgentKnown, BeingRecorded, OpMatches, RestTyped, NoProc, Fork,
       OfSession, Fenced, recordVars, historyVars
  <2>8. OneWriter'
    BY <1>13, <2>0 DEF OneWriter, Accounted, ThisBoot, Numbered, Procs, Contained,
       SpawnIsAlone, Orphans, RestTyped, NoProc, Fork, OfSession, Fenced, recordVars,
       historyVars
  <2> QED
    BY <2>1, <2>2, <2>3, <2>4, <2>5, <2>6, <2>7, <2>8 DEF SessionInv
<1>14. CASE Identify
  <2>0. op.at = "identify" /\ op'.proc = op.proc /\ op'.kind = op.kind
         /\ (op'.at = "write" \/ (op'.at = "collide" /\ op.proc \notin alive) \/ op'.at = "retire")
    BY <1>14, OpStarts DEF Identify, At, OpEnds, GoOn, LifecycleOps
  <2>1. Numbered'
    BY <1>14, <2>0 DEF Numbered, RestTyped, NoProc, Identify, Fault, worldVars, recordVars,
       lifeVars, historyVars
  <2>2. SessionsInOrder'
    BY <1>14, <2>0 DEF SessionsInOrder, RestTyped, NoProc, Identify, Fault, worldVars,
       recordVars, lifeVars, historyVars
  <2>3. Contained'
    BY <1>14, <2>0 DEF Contained, ThisBoot, RestTyped, NoProc, Identify, Fault, worldVars,
       recordVars, lifeVars, historyVars
  <2>4. RecordHolds'
    BY <1>14, <2>0 DEF RecordHolds, RestTyped, NoProc, Identify, Fault, worldVars,
       recordVars, lifeVars, historyVars
  <2>5. SpawnIsAlone'
    BY <1>14, <2>0 DEF SpawnIsAlone, Orphans, ThisBoot, RestTyped, NoProc, Identify, Fault,
       worldVars, recordVars, lifeVars, historyVars
  <2>6. OpAgent'
    BY <1>14, <2>0 DEF OpAgent, ThisBoot, RestTyped, NoProc, Identify, Fault, worldVars,
       recordVars, lifeVars, historyVars
  <2>7. AgentKnown'
    BY <1>14, <2>0 DEF AgentKnown, BeingRecorded, OpAgent, OpMatches, RestTyped, NoProc,
       Identify, Fault, worldVars, recordVars, lifeVars, historyVars
  <2>8. OneWriter'
    BY <1>14, <2>0 DEF OneWriter, Accounted, ThisBoot, RestTyped, NoProc, Identify, Fault,
       worldVars, recordVars, lifeVars, historyVars
  <2> QED
    BY <2>1, <2>2, <2>3, <2>4, <2>5, <2>6, <2>7, <2>8 DEF SessionInv
<1>15. CASE WriteRecord
  <2>0. op.at = "write" /\ op'.proc = op.proc /\ op'.kind = op.kind
         /\ ((op'.at = "collide" /\ recorded' = recorded \cup {op.proc}) \/ op'.at = "retire")
    BY <1>15, OpStarts DEF WriteRecord, At, OpEnds, GoOn, LifecycleOps
  <2>1. Numbered'
    BY <1>15, <2>0 DEF Numbered, Procs, OpMatches, RestTyped, NoProc, WriteRecord,
       LiveOwner, Fault, worldVars, lifeVars
  <2>2. SessionsInOrder'
    BY <1>15, <2>0 DEF SessionsInOrder, RestTyped, NoProc, WriteRecord, LiveOwner, Fault,
       worldVars, lifeVars
  <2>3. Contained'
    BY <1>15, <2>0 DEF Contained, ThisBoot, RestTyped, NoProc, WriteRecord, LiveOwner,
       Fault, worldVars, lifeVars
  <2>4. RecordHolds'
    BY <1>15, <2>0 DEF RecordHolds, OpAgent, OpMatches, RestTyped, NoProc, WriteRecord,
       LiveOwner, Fault, worldVars, lifeVars
  <2>5. SpawnIsAlone'
    BY <1>15, <2>0 DEF SpawnIsAlone, Orphans, ThisBoot, RestTyped, NoProc, WriteRecord,
       LiveOwner, Fault, worldVars, lifeVars
  <2>6. OpAgent'
    BY <1>15, <2>0 DEF OpAgent, ThisBoot, RestTyped, NoProc, WriteRecord, LiveOwner, Fault,
       worldVars, lifeVars
  <2>7. AgentKnown'
    BY <1>15, <2>0 DEF AgentKnown, BeingRecorded, OpAgent, OpMatches, RestTyped, NoProc,
       WriteRecord, LiveOwner, Fault, worldVars, lifeVars
  <2>8. OneWriter'
    BY <1>15, <2>0 DEF OneWriter, Accounted, ThisBoot, OpAgent, RestTyped, NoProc,
       WriteRecord, LiveOwner, Fault, worldVars, lifeVars
  <2> QED
    BY <2>1, <2>2, <2>3, <2>4, <2>5, <2>6, <2>7, <2>8 DEF SessionInv
<1>16. CASE SpawnEnds
  <2>0. op.at = "collide" /\ op'.at = "idle"
    BY <1>16, OpStarts DEF SpawnEnds, At, OpEnds
  <2>1. Numbered'
    BY <1>16, <2>0 DEF Numbered, RestTyped, NoProc, SpawnEnds, worldVars, recordVars,
       lifeVars, historyVars
  <2>2. SessionsInOrder'
    BY <1>16, <2>0 DEF SessionsInOrder, RestTyped, NoProc, SpawnEnds, worldVars, recordVars,
       lifeVars, historyVars
  <2>3. Contained'
    BY <1>16, <2>0 DEF Contained, ThisBoot, RestTyped, NoProc, SpawnEnds, worldVars,
       recordVars, lifeVars, historyVars
  <2>4. RecordHolds'
    BY <1>16, <2>0 DEF RecordHolds, RestTyped, NoProc, SpawnEnds, worldVars, recordVars,
       lifeVars, historyVars
  <2>5. SpawnIsAlone'
    BY <1>16, <2>0 DEF SpawnIsAlone, Orphans, ThisBoot, RestTyped, NoProc, SpawnEnds,
       worldVars, recordVars, lifeVars, historyVars
  <2>6. OpAgent'
    BY <1>16, <2>0 DEF OpAgent, ThisBoot, RestTyped, NoProc, SpawnEnds, worldVars,
       recordVars, lifeVars, historyVars
  <2>7. AgentKnown'
    BY <1>16, <2>0 DEF AgentKnown, BeingRecorded, RestTyped, NoProc, SpawnEnds, worldVars,
       recordVars, lifeVars, historyVars
  <2>8. OneWriter'
    BY <1>16, <2>0 DEF OneWriter, Accounted, ThisBoot, RestTyped, NoProc, SpawnEnds,
       worldVars, recordVars, lifeVars, historyVars
  <2> QED
    BY <2>1, <2>2, <2>3, <2>4, <2>5, <2>6, <2>7, <2>8 DEF SessionInv
<1>17. CASE Collided
  <2>0. op.at = "collide" /\ op'.at \in {"guard", "idle"}
    BY <1>17, OpStarts DEF Collided, At, OpEnds, GoOn, LifecycleOps
  <2>1. Numbered'
    BY <1>17, <2>0 DEF Numbered, RestTyped, NoProc, Collided, Unregister, Persist, Fault,
       worldVars, lifeVars, historyVars
  <2>2. SessionsInOrder'
    BY <1>17, <2>0 DEF SessionsInOrder, RestTyped, NoProc, Collided, Unregister, Persist,
       Fault, worldVars, lifeVars, historyVars
  <2>3. Contained'
    BY <1>17, <2>0 DEF Contained, ThisBoot, RestTyped, NoProc, Collided, Unregister,
       Persist, Fault, worldVars, lifeVars, historyVars
  <2>4. RecordHolds'
    BY <1>17, <2>0 DEF RecordHolds, Numbered, SessionsInOrder, Procs, LifecycleOps,
       RestTyped, NoProc, Collided, Unregister, Persist, Fault, worldVars, lifeVars,
       historyVars
  <2>5. SpawnIsAlone'
    BY <1>17, <2>0 DEF SpawnIsAlone, Orphans, ThisBoot, RestTyped, NoProc, Collided,
       Unregister, Persist, Fault, worldVars, lifeVars, historyVars
  <2>6. OpAgent'
    BY <1>17, <2>0 DEF OpAgent, ThisBoot, RestTyped, NoProc, Collided, Unregister, Persist,
       Fault, worldVars, lifeVars, historyVars
  <2>7. AgentKnown'
    BY <1>17, <2>0 DEF AgentKnown, BeingRecorded, OpAgent, RestTyped, NoProc, Collided,
       Unregister, Persist, Fault, worldVars, lifeVars, historyVars
  <2>8. OneWriter'
    BY <1>17, <2>0 DEF OneWriter, Accounted, ThisBoot, RestTyped, NoProc, Collided,
       Unregister, Persist, Fault, worldVars, lifeVars, historyVars
  <2> QED
    BY <2>1, <2>2, <2>3, <2>4, <2>5, <2>6, <2>7, <2>8 DEF SessionInv
<1>18. CASE StopAgent
  <2>1. Numbered'
    BY <1>18 DEF Numbered, RestTyped, NoProc, StopAgent, Quit, worldVars, recordVars,
       historyVars
  <2>2. SessionsInOrder'
    BY <1>18 DEF SessionsInOrder, RestTyped, NoProc, StopAgent, Quit, worldVars, recordVars,
       historyVars
  <2>3. Contained'
    BY <1>18 DEF Contained, ThisBoot, RestTyped, NoProc, StopAgent, Quit, worldVars,
       recordVars, historyVars
  <2>4. RecordHolds'
    BY <1>18 DEF RecordHolds, RestTyped, NoProc, StopAgent, Quit, worldVars, recordVars,
       historyVars
  <2>5. SpawnIsAlone'
    BY <1>18 DEF SpawnIsAlone, Orphans, ThisBoot, RestTyped, NoProc, StopAgent, Quit,
       worldVars, recordVars, historyVars
  <2>6. OpAgent'
    BY <1>18 DEF OpAgent, ThisBoot, RestTyped, NoProc, StopAgent, Quit, worldVars,
       recordVars, historyVars
  <2>7. AgentKnown'
    BY <1>18 DEF AgentKnown, BeingRecorded, RestTyped, NoProc, StopAgent, Quit, worldVars,
       recordVars, historyVars
  <2>8. OneWriter'
    BY <1>18 DEF OneWriter, Accounted, ThisBoot, RestTyped, NoProc, StopAgent, Quit,
       worldVars, recordVars, historyVars
  <2> QED
    BY <2>1, <2>2, <2>3, <2>4, <2>5, <2>6, <2>7, <2>8 DEF SessionInv
<1>19. ASSUME NEW p \in Procs, SeeExit(p) PROVE SessionInv'
  <2>1. Numbered'
    BY <1>19 DEF Numbered, RestTyped, NoProc, SeeExit, ThisBoot, ExitEvent, worldVars,
       recordVars, historyVars, BeginRetirement, Unregister
  <2>2. SessionsInOrder'
    BY <1>19 DEF SessionsInOrder, RestTyped, NoProc, SeeExit, ThisBoot, ExitEvent,
       worldVars, recordVars, historyVars, BeginRetirement, Unregister
  <2>3. Contained'
    BY <1>19 DEF Contained, ThisBoot, RestTyped, NoProc, SeeExit, ExitEvent, worldVars,
       recordVars, historyVars, BeginRetirement, Unregister
  <2>4. RecordHolds'
    BY <1>19 DEF RecordHolds, RestTyped, NoProc, SeeExit, ThisBoot, ExitEvent, worldVars,
       recordVars, historyVars, BeginRetirement, Unregister
  <2>5. SpawnIsAlone'
    BY <1>19 DEF SpawnIsAlone, Orphans, ThisBoot, RestTyped, NoProc, SeeExit, ExitEvent,
       worldVars, recordVars, historyVars, BeginRetirement, Unregister
  <2>6. OpAgent'
    BY <1>19 DEF OpAgent, ThisBoot, RestTyped, NoProc, SeeExit, ExitEvent, worldVars,
       recordVars, historyVars, BeginRetirement, Unregister
  <2>7. AgentKnown'
    BY <1>19 DEF AgentKnown, BeingRecorded, RestTyped, NoProc, SeeExit, ThisBoot, ExitEvent,
       worldVars, recordVars, historyVars, BeginRetirement, Unregister
  <2>8. OneWriter'
    BY <1>19 DEF OneWriter, Accounted, ThisBoot, RestTyped, NoProc, SeeExit, ExitEvent,
       worldVars, recordVars, historyVars, BeginRetirement, Unregister
  <2> QED
    BY <2>1, <2>2, <2>3, <2>4, <2>5, <2>6, <2>7, <2>8 DEF SessionInv
<1>20. ASSUME NEW p \in Procs, KillTimer(p) PROVE SessionInv'
  <2>1. Numbered'
    BY <1>20 DEF Numbered, RestTyped, NoProc, KillTimer, ExitEvent, BeginRetirement,
       worldVars, recordVars, historyVars, Unregister
  <2>2. SessionsInOrder'
    BY <1>20 DEF SessionsInOrder, RestTyped, NoProc, KillTimer, ExitEvent, BeginRetirement,
       worldVars, recordVars, historyVars, Unregister
  <2>3. Contained'
    BY <1>20 DEF Contained, ThisBoot, RestTyped, NoProc, KillTimer, ExitEvent,
       BeginRetirement, worldVars, recordVars, historyVars, Unregister
  <2>4. RecordHolds'
    BY <1>20 DEF RecordHolds, RestTyped, NoProc, KillTimer, ExitEvent, BeginRetirement,
       worldVars, recordVars, historyVars, Unregister
  <2>5. SpawnIsAlone'
    BY <1>20 DEF SpawnIsAlone, Orphans, ThisBoot, RestTyped, NoProc, KillTimer, ExitEvent,
       BeginRetirement, worldVars, recordVars, historyVars, Unregister
  <2>6. OpAgent'
    BY <1>20 DEF OpAgent, ThisBoot, RestTyped, NoProc, KillTimer, ExitEvent,
       BeginRetirement, worldVars, recordVars, historyVars, Unregister
  <2>7. AgentKnown'
    BY <1>20 DEF AgentKnown, BeingRecorded, RestTyped, NoProc, KillTimer, ExitEvent,
       BeginRetirement, worldVars, recordVars, historyVars, Unregister
  <2>8. OneWriter'
    BY <1>20 DEF OneWriter, Accounted, ThisBoot, RestTyped, NoProc, KillTimer, ExitEvent,
       BeginRetirement, worldVars, recordVars, historyVars, Unregister
  <2> QED
    BY <2>1, <2>2, <2>3, <2>4, <2>5, <2>6, <2>7, <2>8 DEF SessionInv
<1>21. ASSUME NEW p \in Procs, RetirementSettles(p) PROVE SessionInv'
  <2>1. Numbered'
    BY <1>21 DEF Numbered, RestTyped, NoProc, RetirementSettles, Fault, Unregister,
       recordVars, historyVars
  <2>2. SessionsInOrder'
    BY <1>21 DEF SessionsInOrder, RestTyped, NoProc, RetirementSettles, Fault, Unregister,
       recordVars, historyVars
  <2>3. Contained'
    BY <1>21 DEF Contained, ThisBoot, RestTyped, NoProc, RetirementSettles, Fault,
       Unregister, recordVars, historyVars
  <2>4. RecordHolds'
    BY <1>21 DEF RecordHolds, RestTyped, NoProc, RetirementSettles, Fault, Unregister,
       recordVars, historyVars
  <2>5. SpawnIsAlone'
    BY <1>21 DEF SpawnIsAlone, Orphans, ThisBoot, RestTyped, NoProc, RetirementSettles,
       Fault, Unregister, recordVars, historyVars
  <2>6. OpAgent'
    BY <1>21 DEF OpAgent, ThisBoot, RestTyped, NoProc, RetirementSettles, Fault, Unregister,
       recordVars, historyVars
  <2>7. AgentKnown'
    BY <1>21 DEF AgentKnown, BeingRecorded, RestTyped, NoProc, RetirementSettles, Fault,
       Unregister, recordVars, historyVars
  <2>8. OneWriter'
    BY <1>21 DEF OneWriter, Accounted, ThisBoot, RestTyped, NoProc, RetirementSettles,
       Fault, Unregister, recordVars, historyVars
  <2> QED
    BY <2>1, <2>2, <2>3, <2>4, <2>5, <2>6, <2>7, <2>8 DEF SessionInv
<1>22. ASSUME NEW p \in Procs, LeaveRecord(p) PROVE SessionInv'
  <2>1. Numbered'
    BY <1>22 DEF Numbered, RestTyped, NoProc, LeaveRecord, ClearRecord, Fault, worldVars,
       historyVars
  <2>2. SessionsInOrder'
    BY <1>22 DEF SessionsInOrder, RestTyped, NoProc, LeaveRecord, ClearRecord, Fault,
       worldVars, historyVars
  <2>3. Contained'
    BY <1>22 DEF Contained, ThisBoot, RestTyped, NoProc, LeaveRecord, ClearRecord, Fault,
       worldVars, historyVars
  <2>4. RecordHolds'
    BY <1>22 DEF RecordHolds, RestTyped, NoProc, LeaveRecord, ClearRecord, Fault, worldVars,
       historyVars
  <2>5. SpawnIsAlone'
    BY <1>22 DEF SpawnIsAlone, Orphans, ThisBoot, RestTyped, NoProc, LeaveRecord,
       ClearRecord, Fault, worldVars, historyVars
  <2>6. OpAgent'
    BY <1>22 DEF OpAgent, ThisBoot, RestTyped, NoProc, LeaveRecord, ClearRecord, Fault,
       worldVars, historyVars
  <2>7. AgentKnown'
    BY <1>22 DEF AgentKnown, BeingRecorded, RestTyped, NoProc, LeaveRecord, ClearRecord,
       Fault, worldVars, historyVars
  <2>8. OneWriter'
    BY <1>22 DEF OneWriter, Accounted, ThisBoot, RestTyped, NoProc, LeaveRecord,
       ClearRecord, Fault, worldVars, historyVars
  <2> QED
    BY <2>1, <2>2, <2>3, <2>4, <2>5, <2>6, <2>7, <2>8 DEF SessionInv
<1>23. ASSUME NEW p \in Procs, Dies(p) PROVE SessionInv'
  <2>1. Numbered'
    BY <1>23 DEF Numbered, RestTyped, NoProc, Dies, recordVars, lifeVars, historyVars
  <2>2. SessionsInOrder'
    BY <1>23 DEF SessionsInOrder, RestTyped, NoProc, Dies, recordVars, lifeVars, historyVars
  <2>3. Contained'
    BY <1>23 DEF Contained, ThisBoot, RestTyped, NoProc, Dies, recordVars, lifeVars,
       historyVars
  <2>4. RecordHolds'
    BY <1>23 DEF RecordHolds, RestTyped, NoProc, Dies, recordVars, lifeVars, historyVars
  <2>5. SpawnIsAlone'
    BY <1>23 DEF SpawnIsAlone, Orphans, ThisBoot, RestTyped, NoProc, Dies, recordVars,
       lifeVars, historyVars
  <2>6. OpAgent'
    BY <1>23 DEF OpAgent, ThisBoot, RestTyped, NoProc, Dies, recordVars, lifeVars,
       historyVars
  <2>7. AgentKnown'
    BY <1>23 DEF AgentKnown, BeingRecorded, RestTyped, NoProc, Dies, recordVars, lifeVars,
       historyVars
  <2>8. OneWriter'
    BY <1>23 DEF OneWriter, Accounted, ThisBoot, RestTyped, NoProc, Dies, recordVars,
       lifeVars, historyVars
  <2> QED
    BY <2>1, <2>2, <2>3, <2>4, <2>5, <2>6, <2>7, <2>8 DEF SessionInv
<1>24. CASE RestartDaemon
  <2>0. op'.at = "idle"
    BY <1>24, OpStarts DEF RestartDaemon
  <2>1. Numbered'
    BY <1>24, <2>0 DEF Numbered, RestTyped, NoProc, RestartDaemon, worldVars, recordVars
  <2>2. SessionsInOrder'
    BY <1>24, <2>0 DEF SessionsInOrder, RestTyped, NoProc, RestartDaemon, worldVars,
       recordVars
  <2>3. Contained'
    BY <1>24, <2>0 DEF Contained, ThisBoot, Numbered, SessionsInOrder, Procs, LifecycleOps,
       RestTyped, NoProc, RestartDaemon, worldVars, recordVars
  <2>4. RecordHolds'
    BY <1>24, <2>0 DEF RecordHolds, Numbered, SessionsInOrder, Procs, LifecycleOps,
       RestTyped, NoProc, RestartDaemon, worldVars, recordVars
  <2>5. SpawnIsAlone'
    BY <1>24, <2>0 DEF SpawnIsAlone, Orphans, ThisBoot, RestTyped, NoProc, RestartDaemon,
       worldVars, recordVars
  <2>6. OpAgent'
    BY <1>24, <2>0 DEF OpAgent, ThisBoot, RestTyped, NoProc, RestartDaemon, worldVars,
       recordVars
  <2>7. AgentKnown'
    BY <1>24, <2>0 DEF AgentKnown, BeingRecorded, RestTyped, NoProc, RestartDaemon,
       worldVars, recordVars
  <2>8. OneWriter'
    BY <1>24, <2>0 DEF OneWriter, Accounted, ThisBoot, Numbered, SessionsInOrder, Procs,
       LifecycleOps, RestTyped, NoProc, RestartDaemon, worldVars, recordVars
  <2> QED
    BY <2>1, <2>2, <2>3, <2>4, <2>5, <2>6, <2>7, <2>8 DEF SessionInv
<1>25. CASE UNCHANGED sessionVars
  BY <1>25 DEF sessionVars, worldVars, recordVars, lifeVars, historyVars, SessionInv,
     Numbered, SessionsInOrder, Contained, ThisBoot, RecordHolds, SpawnIsAlone, Orphans,
     OpAgent, AgentKnown, BeingRecorded, OneWriter, Accounted
<1> QED
  BY <1>1, <1>2, <1>3, <1>4, <1>5, <1>6, <1>7, <1>8, <1>9, <1>10, <1>11, <1>12, <1>13,
     <1>14, <1>15, <1>16, <1>17, <1>18, <1>19, <1>20, <1>21, <1>22, <1>23, <1>24, <1>25 DEF
     SessionNext, OpStep

LEMMA SessionInvInit == SessionInit => SessionInv
BY SessionAssumption
   DEF SessionInit, SessionInv, Numbered, SessionsInOrder, Contained, RecordHolds, SpawnIsAlone,
       Orphans, OpAgent, AgentKnown, OneWriter, Accounted, NoOp, Procs, NoProc

LEMMA SessionInvAlways == SessionSpec => [](TypeInv /\ SessionInv)
<1>1. SessionInit => TypeInv /\ SessionInv
  BY SessionTypeInit, SessionInvInit
<1>2. TypeInv /\ SessionInv /\ [SessionNext]_sessionVars => (TypeInv /\ SessionInv)'
  BY SessionTypeStep, SessionInvStep
<1> QED
  BY <1>1, <1>2, PTL DEF SessionSpec

--------------------------------------------------------------------------------
\* Every state of the daemon, its files and its claudes is well typed.
THEOREM SessionTypes == SessionSpec => []SessionTypeOK
<1>1. TypeInv => SessionTypeOK
  BY DEF TypeInv
<1> QED
  BY <1>1, SessionInvAlways, PTL

\* However spawns, restarts, clears, exits, failed writes and kills and deaths of
\* the daemon interleave, no two claudes it can account for write one session.
THEOREM OneWriterAlways == SessionSpec => []OneWriter
<1>1. SessionInv => OneWriter
  BY DEF SessionInv
<1> QED
  BY <1>1, SessionInvAlways, PTL

\* The ownership record names the claude that prompts reach and session.json its
\* session, whatever failed halfway.
THEOREM DiskNamesLiveAlways == SessionSpec => []DiskNamesLive
<1>1. TypeInv /\ SessionInv => DiskNamesLive
  <2> SUFFICES ASSUME TypeInv, SessionInv PROVE DeliverableIsRecorded /\ StoredNamesLive
    BY DEF DiskNamesLive
  <2>1. alive \subseteq Procs /\ NoProc \notin Procs
    BY DEF TypeInv, SessionTypeOK, Procs, NoProc
  <2>2. DeliverableIsRecorded
    BY <2>1 DEF SessionInv, AgentKnown, RecordHolds, DeliverableIsRecorded
  <2>3. StoredNamesLive
    BY DEF SessionInv, AgentKnown, SessionsInOrder, StoredNamesLive, At
  <2> QED
    BY <2>2, <2>3
<1> QED
  BY <1>1, SessionInvAlways, PTL

--------------------------------------------------------------------------------
(* The event log *)

LogRecords == [id : Events, seq : Nat]
LogFiles == Seq(Seq(LogRecords))

\* The events some files hold, and the files that hold one of E.
Ids(fs) == UNION {{fs[f][k].id : k \in DOMAIN fs[f]} : f \in DOMAIN fs}
Holding(fs, E) == {f \in DOMAIN fs : \E k \in DOMAIN fs[f] : fs[f][k].id \in E}

\* Every number in the files is below n; no file after g holds an event; the
\* numbers from the current segment's first on are in it or after it.
Below(fs, n) == \A f \in DOMAIN fs : \A k \in DOMAIN fs[f] : fs[f][k].seq < n
NoneAfter(fs, g) == \A f \in DOMAIN fs : f > g => fs[f] = <<>>
StartsAt(fs, cur) ==
  \A f \in DOMAIN fs : \A k \in DOMAIN fs[f] : fs[f][k].seq >= cur.start => f >= cur.file

\* SeqsIncrease of any files.
Increase(fs) ==
  \A f, g \in DOMAIN fs : \A i \in DOMAIN fs[f], j \in DOMAIN fs[g] :
    (f < g \/ (f = g /\ i < j)) => fs[f][i].seq < fs[g][j].seq

\* A search of the archive and the current segment finds every file of S.
Finds(S, ix, cur) == S \subseteq Archived(ix) \cup {cur.file}

--------------------------------------------------------------------------------
(* What a write does to the files *)

\* gs are the files of fs, and perhaps empty ones after them.
Grown(fs, gs) ==
  /\ fs \in LogFiles /\ gs \in LogFiles
  /\ DOMAIN fs \subseteq DOMAIN gs
  /\ \A f \in DOMAIN fs : gs[f] = fs[f]
  /\ \A f \in DOMAIN gs \ DOMAIN fs : gs[f] = <<>>

LEMMA SameFiles == ASSUME NEW fs \in LogFiles PROVE Grown(fs, fs)
BY DEF Grown

LEMMA FileAdded ==
  ASSUME NEW fs \in LogFiles
  PROVE  /\ Grown(fs, Append(fs, <<>>))
         /\ Len(fs) + 1 \in DOMAIN Append(fs, <<>>) /\ Len(fs) + 1 \in Nat
         /\ \A f \in DOMAIN Append(fs, <<>>) : f <= Len(fs) + 1 /\ f \in Nat
<1>1. <<>> \in Seq(LogRecords)
  OBVIOUS
<1>2. fs \in Seq(Seq(LogRecords)) /\ Len(fs) \in Nat
  BY DEF LogFiles
<1>3. /\ Append(fs, <<>>) \in Seq(Seq(LogRecords))
      /\ Len(Append(fs, <<>>)) = Len(fs) + 1
      /\ \A f \in 1 .. Len(fs) : Append(fs, <<>>)[f] = fs[f]
      /\ Append(fs, <<>>)[Len(fs) + 1] = <<>>
  BY <1>1, <1>2
<1>4. DOMAIN fs = 1 .. Len(fs) /\ DOMAIN Append(fs, <<>>) = 1 .. Len(fs) + 1
  BY <1>2, <1>3
<1> QED
  BY <1>2, <1>3, <1>4 DEF Grown, LogFiles

LEMMA GrownKeeps ==
  ASSUME NEW fs, NEW gs, Grown(fs, gs)
  PROVE  /\ Ids(gs) = Ids(fs)
         /\ \A E : Holding(gs, E) = Holding(fs, E)
         /\ \A n : Below(gs, n) <=> Below(fs, n)
         /\ Increase(fs) => Increase(gs)
         /\ \A c : StartsAt(fs, c) => StartsAt(gs, c)
         /\ \A g : NoneAfter(fs, g) => NoneAfter(gs, g)
<1>1. \A f \in DOMAIN gs \ DOMAIN fs : DOMAIN gs[f] = {}
  BY DEF Grown
<1>2. \A f \in DOMAIN gs : \A k \in DOMAIN gs[f] : f \in DOMAIN fs /\ gs[f] = fs[f]
  BY <1>1 DEF Grown
<1>3. \A f \in DOMAIN fs : f \in DOMAIN gs /\ gs[f] = fs[f]
  BY DEF Grown
<1>4. Ids(gs) = Ids(fs)
  BY <1>2, <1>3 DEF Ids
<1>5. \A E : Holding(gs, E) = Holding(fs, E)
  BY <1>2, <1>3 DEF Holding
<1>6. \A n : Below(gs, n) <=> Below(fs, n)
  BY <1>2, <1>3 DEF Below
<1>7. Increase(fs) => Increase(gs)
  BY <1>2, <1>3 DEF Increase
<1>8. \A c : StartsAt(fs, c) => StartsAt(gs, c)
  BY <1>2, <1>3 DEF StartsAt
<1>9. \A g : NoneAfter(fs, g) => NoneAfter(gs, g)
  BY <1>3 DEF NoneAfter, Grown
<1> QED
  BY <1>4, <1>5, <1>6, <1>7, <1>8, <1>9

\* gs are the files of fs with record r at the end of file g.
Extended(fs, gs, g, r) ==
  /\ fs \in LogFiles /\ gs \in LogFiles /\ g \in DOMAIN fs /\ r \in LogRecords
  /\ DOMAIN gs = DOMAIN fs
  /\ \A f \in DOMAIN fs \ {g} : gs[f] = fs[f]
  /\ DOMAIN fs[g] = 1 .. Len(fs[g]) /\ Len(fs[g]) \in Nat
  /\ DOMAIN gs[g] = 1 .. Len(fs[g]) + 1
  /\ \A k \in DOMAIN fs[g] : gs[g][k] = fs[g][k]
  /\ gs[g][Len(fs[g]) + 1] = r

LEMMA RecordAdded ==
  ASSUME NEW fs \in LogFiles, NEW g \in DOMAIN fs, NEW r \in LogRecords
  PROVE  Extended(fs, [fs EXCEPT ![g] = Append(@, r)], g, r)
<1> DEFINE gs == [fs EXCEPT ![g] = Append(@, r)]
<1>1. fs \in Seq(Seq(LogRecords)) /\ fs[g] \in Seq(LogRecords)
  BY DEF LogFiles
<1>2. /\ Append(fs[g], r) \in Seq(LogRecords)
      /\ Len(Append(fs[g], r)) = Len(fs[g]) + 1
      /\ \A k \in 1 .. Len(fs[g]) : Append(fs[g], r)[k] = fs[g][k]
      /\ Append(fs[g], r)[Len(fs[g]) + 1] = r
      /\ DOMAIN fs[g] = 1 .. Len(fs[g]) /\ Len(fs[g]) \in Nat
  BY <1>1
<1>3. DOMAIN Append(fs[g], r) = 1 .. Len(fs[g]) + 1
  BY <1>2
<1>4. gs \in LogFiles /\ DOMAIN gs = DOMAIN fs
  BY <1>1, <1>2 DEF LogFiles
<1>5. gs[g] = Append(fs[g], r) /\ \A f \in DOMAIN fs \ {g} : gs[f] = fs[f]
  OBVIOUS
<1> HIDE DEF gs
<1>6. Extended(fs, gs, g, r)
  BY <1>2, <1>3, <1>4, <1>5 DEF Extended
<1> QED
  BY <1>6 DEF gs

LEMMA ExtendedKeeps ==
  ASSUME NEW fs, NEW gs, NEW g, NEW r, Extended(fs, gs, g, r)
  PROVE  /\ Ids(gs) = Ids(fs) \cup {r.id}
         /\ \A E : r.id \notin E => Holding(gs, E) = Holding(fs, E)
         /\ \A E : Holding(gs, E) \subseteq Holding(fs, E) \cup {g}
         /\ Below(fs, r.seq) => Below(gs, r.seq + 1)
         /\ \A n \in Nat : n <= r.seq => ~Below(gs, n)
         /\ Increase(fs) /\ Below(fs, r.seq) /\ NoneAfter(fs, g) => Increase(gs)
         /\ \A c : StartsAt(fs, c) /\ g >= c.file => StartsAt(gs, c)
         /\ NoneAfter(fs, g) => NoneAfter(gs, g)
<1> DEFINE n == Len(fs[g])
<1>1. /\ n \in Nat /\ DOMAIN fs[g] = 1 .. n /\ DOMAIN gs[g] = 1 .. n + 1
      /\ DOMAIN gs = DOMAIN fs /\ g \in DOMAIN fs /\ gs[g][n + 1] = r
      /\ r.id \in Events /\ r.seq \in Nat
      /\ \A k \in 1 .. n : gs[g][k] = fs[g][k]
      /\ \A f \in DOMAIN fs \ {g} : gs[f] = fs[f]
  BY DEF Extended, LogRecords
<1>2. \A f \in DOMAIN fs : f \in Nat /\ \A k \in DOMAIN fs[f] : k \in Nat /\ fs[f][k].seq \in Nat
  <2> SUFFICES ASSUME NEW f \in DOMAIN fs
               PROVE  f \in Nat /\ \A k \in DOMAIN fs[f] : k \in Nat /\ fs[f][k].seq \in Nat
    OBVIOUS
  <2>1. fs \in Seq(Seq(LogRecords))
    BY DEF Extended, LogFiles
  <2>2. f \in Nat /\ fs[f] \in Seq(LogRecords)
    BY <2>1
  <2>3. \A k \in DOMAIN fs[f] : k \in Nat /\ fs[f][k] \in LogRecords
    BY <2>2
  <2> QED
    BY <2>2, <2>3 DEF LogRecords
<1> HIDE DEF n
<1>3. \A f \in DOMAIN gs : \A k \in DOMAIN gs[f] :
        \/ f = g /\ k = n + 1 /\ gs[f][k] = r
        \/ k \in DOMAIN fs[f] /\ gs[f][k] = fs[f][k]
  BY <1>1
<1>4. \A f \in DOMAIN fs : \A k \in DOMAIN fs[f] : k \in DOMAIN gs[f] /\ gs[f][k] = fs[f][k]
  BY <1>1
<1>5. n + 1 \in DOMAIN gs[g]
  BY <1>1
<1>6. Ids(gs) = Ids(fs) \cup {r.id}
  <2>1. ASSUME NEW f \in DOMAIN gs, NEW k \in DOMAIN gs[f] PROVE gs[f][k].id \in Ids(fs) \cup {r.id}
    BY <1>1, <1>3 DEF Ids
  <2>2. ASSUME NEW f \in DOMAIN fs, NEW k \in DOMAIN fs[f] PROVE fs[f][k].id \in Ids(gs)
    BY <1>1, <1>4 DEF Ids
  <2>3. r.id \in Ids(gs)
    BY <1>1, <1>5 DEF Ids
  <2> QED
    BY <2>1, <2>2, <2>3 DEF Ids
<1>7. ASSUME NEW E, r.id \notin E PROVE Holding(gs, E) = Holding(fs, E)
  BY <1>1, <1>3, <1>4, <1>7 DEF Holding
<1>13. ASSUME NEW E PROVE Holding(gs, E) \subseteq Holding(fs, E) \cup {g}
  BY <1>1, <1>3 DEF Holding
<1>8. Below(fs, r.seq) => Below(gs, r.seq + 1)
  BY <1>1, <1>2, <1>3 DEF Below
<1>9. \A m \in Nat : m <= r.seq => ~Below(gs, m)
  BY <1>1, <1>5 DEF Below
<1>10. ASSUME Increase(fs), Below(fs, r.seq), NoneAfter(fs, g) PROVE Increase(gs)
  <2> SUFFICES ASSUME NEW f \in DOMAIN gs, NEW h \in DOMAIN gs, NEW i \in DOMAIN gs[f], NEW j \in DOMAIN gs[h],
                      f < h \/ (f = h /\ i < j)
               PROVE  gs[f][i].seq < gs[h][j].seq
    BY DEF Increase
  <2>1. ~(f = g /\ i = n + 1)
    <3> SUFFICES ASSUME f = g, i = n + 1 PROVE FALSE
      OBVIOUS
    <3>1. h # g
      BY <1>1, <1>2
    <3>2. h > g /\ gs[h] = fs[h] /\ fs[h] = <<>>
      BY <1>1, <1>2, <1>10, <3>1 DEF NoneAfter
    <3> QED
      BY <3>2
  <2>2. i \in DOMAIN fs[f] /\ gs[f][i] = fs[f][i]
    BY <1>3, <2>1
  <2>3. CASE h = g /\ j = n + 1
    BY <1>1, <1>10, <2>2, <2>3 DEF Below
  <2>4. CASE ~(h = g /\ j = n + 1)
    <3>1. j \in DOMAIN fs[h] /\ gs[h][j] = fs[h][j]
      BY <1>3, <2>4
    <3> QED
      BY <1>1, <1>10, <2>2, <3>1 DEF Increase
  <2> QED
    BY <2>3, <2>4
<1>11. ASSUME NEW c, StartsAt(fs, c), g >= c.file PROVE StartsAt(gs, c)
  BY <1>1, <1>3, <1>11 DEF StartsAt
<1>12. NoneAfter(fs, g) => NoneAfter(gs, g)
  BY <1>1, <1>2 DEF NoneAfter
<1> QED
  BY <1>6, <1>7, <1>8, <1>9, <1>10, <1>11, <1>12, <1>13

--------------------------------------------------------------------------------
(* What a rebuild finds *)

LEMMA UnreadableIsNeither == Unreadable \notin Indexes /\ Unreadable \notin Currents
<1>1. DOMAIN Unreadable = {"unreadable"}
  BY DEF Unreadable
<1>2. \A x \in Indexes : "last" \in DOMAIN x
  BY DEF Indexes
<1>3. \A x \in Currents : "next" \in DOMAIN x
  BY DEF Currents
<1> QED
  BY <1>1, <1>2, <1>3

\* Among finitely many numbered places one has the greatest value.
LEMMA GreatestValue ==
  ASSUME NEW n \in Nat, NEW T \in SUBSET (1 .. n), T # {}, NEW v, \A i \in T : v[i] \in Nat
  PROVE  \E i \in T : \A j \in T : v[j] <= v[i]
<1> DEFINE Tops(m) == \A S \in SUBSET (1 .. m) :
                        S # {} /\ (\A i \in S : v[i] \in Nat) => \E i \in S : \A j \in S : v[j] <= v[i]
           Bad == {m \in Nat : ~Tops(m)}
<1>1. SUFFICES Bad = {}
  BY <1>1
<1>2. SUFFICES ASSUME Bad # {} PROVE FALSE
  OBVIOUS
<1>3. Bad \in SUBSET Nat
  OBVIOUS
<1> DEFINE m == Min(Bad)
<1>4. m \in Bad /\ \A y \in Bad : m <= y
  BY <1>2, <1>3, LeastPlace
<1> HIDE DEF m
<1>5. PICK S \in SUBSET (1 .. m) : /\ S # {} /\ \A i \in S : v[i] \in Nat
                                   /\ ~ \E i \in S : \A j \in S : v[j] <= v[i]
  BY <1>4
<1> HIDE DEF Bad
<1>6. m \in Nat /\ m # 0
  <2>1. m \in Nat
    BY <1>3, <1>4
  <2>2. m = 0 => S = {}
    BY <1>5
  <2> QED
    BY <1>5, <2>1, <2>2
<1>7. m - 1 \in Nat /\ m - 1 \notin Bad
  BY <1>3, <1>4, <1>6
<1>8. Tops(m - 1)
  BY <1>7 DEF Bad
<1>9. S \ {m} \in SUBSET (1 .. m - 1)
  BY <1>6
<1>10. m \in S
  <2> SUFFICES ASSUME m \notin S PROVE FALSE
    OBVIOUS
  <2>1. S \in SUBSET (1 .. m - 1)
    BY <1>9
  <2> QED
    BY <1>5, <1>8, <2>1
<1>11. CASE S \ {m} = {}
  <2>1. \A j \in S : j = m
    BY <1>11
  <2> QED
    BY <1>5, <1>10, <2>1
<1>12. CASE S \ {m} # {}
  <2>1. PICK i \in S \ {m} : \A j \in S \ {m} : v[j] <= v[i]
    BY <1>5, <1>8, <1>9, <1>12
  <2>2. v[i] \in Nat /\ v[m] \in Nat /\ \A j \in S : v[j] \in Nat
    BY <1>5, <1>10
  <2>3. CASE v[m] <= v[i]
    BY <1>5, <2>1, <2>3
  <2>4. CASE ~(v[m] <= v[i])
    <3>1. \A j \in S : v[j] <= v[m]
      BY <2>1, <2>2, <2>4
    <3> QED
      BY <1>5, <1>10, <3>1
  <2> QED
    BY <2>3, <2>4
<1> QED
  BY <1>11, <1>12

LEMMA ScannedEntries ==
  ASSUME files \in LogFiles
  PROVE  \A f \in NonEmpty :
           /\ f \in Nat /\ f <= Len(files) /\ Len(files) \in Nat /\ f >= 1
           /\ 1 \in DOMAIN files[f] /\ Len(files[f]) \in DOMAIN files[f] /\ Len(files[f]) \in Nat
           /\ DOMAIN files[f] = 1 .. Len(files[f])
           /\ Head(files[f]) = files[f][1] /\ Last(files[f]) = files[f][Len(files[f])]
           /\ Head(files[f]).seq \in Nat /\ Last(files[f]).seq \in Nat
           /\ Segment(f, Head(files[f]).seq, Last(files[f]).seq) \in [file : Nat, start : Nat, end : Nat]
<1> SUFFICES ASSUME NEW f \in NonEmpty
             PROVE  /\ f \in Nat /\ f <= Len(files) /\ Len(files) \in Nat /\ f >= 1
                    /\ 1 \in DOMAIN files[f] /\ Len(files[f]) \in DOMAIN files[f] /\ Len(files[f]) \in Nat
                    /\ DOMAIN files[f] = 1 .. Len(files[f])
                    /\ Head(files[f]) = files[f][1] /\ Last(files[f]) = files[f][Len(files[f])]
                    /\ Head(files[f]).seq \in Nat /\ Last(files[f]).seq \in Nat
                    /\ Segment(f, Head(files[f]).seq, Last(files[f]).seq)
                         \in [file : Nat, start : Nat, end : Nat]
  OBVIOUS
<1>1. files \in Seq(Seq(LogRecords)) /\ f \in DOMAIN files /\ files[f] # <<>>
  BY DEF LogFiles, NonEmpty
<1>2. f \in Nat /\ f <= Len(files) /\ Len(files) \in Nat /\ f >= 1 /\ files[f] \in Seq(LogRecords)
  BY <1>1
<1> DEFINE s == files[f]
<1>3. s \in Seq(LogRecords) /\ s # <<>>
  BY <1>1, <1>2
<1> HIDE DEF s
<1>4. Len(s) \in Nat /\ DOMAIN s = 1 .. Len(s) /\ Len(s) # 0 /\ Head(s) = s[1]
  BY <1>3
<1>5. 1 \in DOMAIN s /\ Len(s) \in DOMAIN s
  BY <1>4
<1>6. s[1] \in LogRecords /\ s[Len(s)] \in LogRecords
  BY <1>3, <1>5
<1>7. Last(s) = s[Len(s)]
  BY DEF Last
<1>8. Head(s).seq \in Nat /\ Last(s).seq \in Nat
  BY <1>4, <1>6, <1>7 DEF LogRecords
<1>9. Segment(f, Head(s).seq, Last(s).seq) \in [file : Nat, start : Nat, end : Nat]
  BY <1>2, <1>8 DEF Segment
<1> QED
  BY <1>2, <1>4, <1>5, <1>7, <1>8, <1>9 DEF s

LEMMA RebuiltTyped ==
  ASSUME files \in LogFiles
  PROVE  RebuiltIndex \in Indexes
<1>1. Scanned \in SUBSET [file : Nat, start : Nat, end : Nat]
  BY ScannedEntries DEF Scanned
<1> DEFINE ends == {s.end : s \in Scanned}
<1>2. Max({0} \cup ends) \in Nat
  <2>1. ends \subseteq Nat
    BY <1>1
  <2>2. \E x \in {0} \cup ends : \A y \in {0} \cup ends : x >= y
    <3>1. CASE NonEmpty = {}
      <4>1. ends = {}
        BY <3>1 DEF Scanned
      <4> QED
        BY <4>1
    <3>2. CASE NonEmpty # {}
      <4> DEFINE v == [f \in NonEmpty |-> Last(files[f]).seq]
      <4>1. Len(files) \in Nat /\ NonEmpty \in SUBSET (1 .. Len(files))
        BY <3>2, ScannedEntries
      <4>2. \A f \in NonEmpty : v[f] \in Nat
        BY ScannedEntries
      <4>3. \A f \in NonEmpty : v[f] = Last(files[f]).seq
        OBVIOUS
      <4> HIDE DEF v
      <4>4. PICK g \in NonEmpty : \A f \in NonEmpty : v[f] <= v[g]
        BY <3>2, <4>1, <4>2, GreatestValue
      <4>5. ends = {v[f] : f \in NonEmpty}
        <5>1. \A f \in NonEmpty : Segment(f, Head(files[f]).seq, Last(files[f]).seq).end = v[f]
          BY <4>3 DEF Segment
        <5>2. \A s \in Scanned : \E f \in NonEmpty : s.end = v[f]
          BY <5>1 DEF Scanned
        <5>3. \A f \in NonEmpty : \E s \in Scanned : s.end = v[f]
          BY <5>1 DEF Scanned
        <5> QED
          BY <5>2, <5>3
      <4> HIDE DEF ends
      <4>6. v[g] \in {0} \cup ends /\ \A y \in {0} \cup ends : v[g] >= y
        BY <4>2, <4>4, <4>5
      <4> QED
        BY <4>6
    <3> QED
      BY <3>1, <3>2
  <2>3. Max({0} \cup ends) \in {0} \cup ends
    BY <2>2 DEF Max
  <2> QED
    BY <2>1, <2>3
<1> QED
  BY <1>1, <1>2 DEF RebuiltIndex, Indexes

\* The archive a rebuild makes names every file that holds an event; its newest
\* entry is the last of them.
LEMMA RebuiltFinds ==
  ASSUME files \in LogFiles
  PROVE  /\ Archived(RebuiltIndex) = NonEmpty
         /\ \A E : Holding(files, E) \subseteq NonEmpty
         /\ Scanned = {} => NonEmpty = {}
         /\ Scanned # {} =>
              \E f \in NonEmpty :
                /\ Newest = Segment(f, Head(files[f]).seq, Last(files[f]).seq)
                /\ NoneAfter(files, f)
<1>1. Archived(RebuiltIndex) = NonEmpty
  <2>1. Archived(RebuiltIndex) = {s.file : s \in Scanned}
    BY DEF Archived, RebuiltIndex
  <2>2. \A f : Segment(f, Head(files[f]).seq, Last(files[f]).seq).file = f
    BY DEF Segment
  <2>3. \A s \in Scanned : \E f \in NonEmpty : s.file = f
    BY <2>2 DEF Scanned
  <2>4. \A f \in NonEmpty : \E s \in Scanned : s.file = f
    BY <2>2 DEF Scanned
  <2> QED
    BY <2>1, <2>3, <2>4
<1>2. \A E : Holding(files, E) \subseteq NonEmpty
  <2> SUFFICES ASSUME NEW f \in DOMAIN files, NEW k \in DOMAIN files[f] PROVE files[f] # <<>>
    BY DEF Holding, NonEmpty
  <2> QED
    OBVIOUS
<1>3. Scanned = {} => NonEmpty = {}
  BY DEF Scanned
<1>4. ASSUME Scanned # {}
      PROVE  \E f \in NonEmpty :
                /\ Newest = Segment(f, Head(files[f]).seq, Last(files[f]).seq)
                /\ NoneAfter(files, f)
  <2>1. NonEmpty # {}
    BY <1>4 DEF Scanned
  <2> DEFINE v == [f \in NonEmpty |-> f]
  <2>2. Len(files) \in Nat /\ NonEmpty \in SUBSET (1 .. Len(files))
    BY <2>1, ScannedEntries
  <2>3. \A f \in NonEmpty : v[f] = f /\ v[f] \in Nat
    BY <2>2
  <2> HIDE DEF v
  <2>4. PICK g \in NonEmpty : \A f \in NonEmpty : v[f] <= v[g]
    BY <2>1, <2>2, <2>3, GreatestValue
  <2>5. \A f \in NonEmpty : f <= g /\ f \in Nat
    BY <2>3, <2>4
  <2>6. \A s \in Scanned : \E f \in NonEmpty : s = Segment(f, Head(files[f]).seq, Last(files[f]).seq) /\ s.file = f
    BY DEF Scanned, Segment
  <2> DEFINE s0 == Segment(g, Head(files[g]).seq, Last(files[g]).seq)
  <2>7. s0 \in Scanned /\ s0.file = g
    BY DEF Scanned, Segment
  <2> HIDE DEF s0
  <2>8. s0 \in Scanned /\ \A t \in Scanned : t.file <= s0.file
    BY <2>5, <2>6, <2>7
  <2>9. Newest \in Scanned /\ \A t \in Scanned : t.file <= Newest.file
    BY <2>8 DEF Newest
  <2>10. PICK f \in NonEmpty : Newest = Segment(f, Head(files[f]).seq, Last(files[f]).seq) /\ Newest.file = f
    BY <2>6, <2>9
  <2>11. f = g
    BY <2>5, <2>7, <2>9, <2>10
  <2>12. NoneAfter(files, g)
    <3> SUFFICES ASSUME NEW h \in DOMAIN files, h > g, files[h] # <<>> PROVE FALSE
      BY DEF NoneAfter
    <3>1. h \in NonEmpty
      BY DEF NonEmpty
    <3> QED
      BY <2>5, <3>1
  <2> QED
    BY <2>10, <2>11, <2>12
<1> QED
  BY <1>1, <1>2, <1>3, <1>4

--------------------------------------------------------------------------------
(* The inductive invariant *)

\* The log is open: an append may be under way.
OpenSteps == {"idle", "rotated", "create", "created", "write", "renamed", "currentSaved"}

\* The pointers in memory are there while the process runs and name a file; so
\* do those on disk that can be read.
LogTyped ==
  /\ LogTypeOK
  /\ (step = "down" <=> index = Unreadable) /\ (step = "down" <=> current = Unreadable)
  /\ step # "down" => current.file \in DOMAIN files /\ current.next >= 1
  /\ diskCurrent # Unreadable => diskCurrent.file \in DOMAIN files /\ diskCurrent.next >= 1

\* The event under way is on disk once its segment was renamed, in the current
\* segment, and never before.
WritingKnown ==
  /\ logged \subseteq Ids(files)
  /\ step \in {"rotated", "create", "created", "write"} => writing \in Events \ Ids(files)
  /\ step \in {"renamed", "currentSaved"} =>
       /\ writing \in (Events \cap Ids(files)) \ logged
       /\ Holding(files, {writing}) \subseteq {current.file}

\* Every file with an event whose append returned is found: by the pointers in
\* memory, by those on disk that the next start would load, and by the archive on
\* disk with the current segment the next save would put beside it.
Found ==
  LET S == Holding(files, logged)
  IN  /\ step # "down" => Finds(S, index, current)
      /\ Unreadable \notin {diskIndex, diskCurrent} => Finds(S, diskIndex, diskCurrent)
      /\ step \in OpenSteps /\ diskIndex # Unreadable => Finds(S, diskIndex, current)
      /\ step = "fresh" => S = {}
      /\ step \in {"fresh", "rebuilt", "rebuiltCurrent"} => S \subseteq Archived(index)
      /\ step \in {"rotated", "create"} => current.file \in Archived(index)
      /\ step \in {"rebuiltCurrent", "create", "created"} => diskIndex = index
      /\ step = "currentSaved" => diskCurrent = current

\* Numbers increase, and the pointers that will be used next are ahead of them.
Ordered ==
  /\ Increase(files)
  /\ step # "down" =>
       Below(files, current.next) /\ NoneAfter(files, current.file) /\ StartsAt(files, current)
  /\ diskCurrent # Unreadable =>
       /\ StartsAt(files, diskCurrent)
       /\ Below(files, diskCurrent.next) => NoneAfter(files, diskCurrent.file)
  /\ step = "down" /\ Trusted => Below(files, diskCurrent.next)
  /\ step \in OpenSteps /\ diskCurrent # Unreadable =>
       diskCurrent.file <= current.file /\ diskCurrent.next <= current.next

LogInv == LogTyped /\ WritingKnown /\ Found /\ (lostPointers \/ Ordered)

LEMMA LogTypedFacts ==
  ASSUME LogTyped
  PROVE  /\ files \in LogFiles /\ NewFile \in Nat /\ Len(files) \in Nat
         /\ \A f \in DOMAIN files : f \in Nat
         /\ step # "down" => /\ index \in Indexes /\ current \in Currents
                             /\ current.file \in Nat /\ current.start \in Nat /\ current.next \in Nat
         /\ diskIndex # Unreadable => diskIndex \in Indexes
         /\ diskCurrent # Unreadable =>
              /\ diskCurrent \in Currents
              /\ diskCurrent.file \in Nat /\ diskCurrent.start \in Nat /\ diskCurrent.next \in Nat
<1>1. files \in LogFiles
  BY DEF LogTyped, LogTypeOK, LogFiles, LogRecords
<1>2. Len(files) \in Nat /\ NewFile \in Nat /\ \A f \in DOMAIN files : f \in Nat
  BY <1>1 DEF LogFiles, NewFile
<1>3. step # "down" => index \in Indexes /\ current \in Currents
  BY DEF LogTyped, LogTypeOK, Pointers
<1>4. diskIndex # Unreadable => diskIndex \in Indexes
  BY DEF LogTyped, LogTypeOK, Pointers
<1>5. diskCurrent # Unreadable => diskCurrent \in Currents
  BY DEF LogTyped, LogTypeOK, Pointers
<1>6. \A c \in Currents : c.file \in Nat /\ c.start \in Nat /\ c.next \in Nat
  BY DEF Currents
<1> QED
  BY <1>1, <1>2, <1>3, <1>4, <1>5, <1>6

LEMMA StoredIsIds == Stored = Ids(files)
BY DEF Stored, Ids

--------------------------------------------------------------------------------
(* What each step does to the files *)

LEMMA StartLogFiles ==
  ASSUME LogTyped, StartLog
  PROVE  /\ Grown(files, files') /\ index' \in Indexes
         /\ current' \in Currents /\ current'.file \in DOMAIN files' /\ current'.next >= 1
<1>1. files \in LogFiles
  BY LogTypedFacts
<1>2. CASE Trusted
  <2>1. files' = files /\ current' = diskCurrent /\ index' = diskIndex
    BY <1>2 DEF StartLog
  <2>2. diskIndex # Unreadable /\ diskCurrent # Unreadable
    BY <1>2 DEF Trusted, Agree
  <2>3. /\ diskCurrent \in Currents /\ diskIndex \in Indexes /\ diskCurrent.file \in DOMAIN files
        /\ diskCurrent.next >= 1
    BY <2>2, LogTypedFacts DEF LogTyped
  <2> QED
    BY <1>1, <2>1, <2>3, SameFiles
<1>3. CASE ~Trusted /\ Scanned # {}
  <2>1. /\ files' = files /\ index' = RebuiltIndex
        /\ current' = [file |-> Newest.file, start |-> Newest.start, next |-> Newest.end + 1]
    BY <1>3 DEF StartLog
  <2>2. PICK f \in NonEmpty : Newest = Segment(f, Head(files[f]).seq, Last(files[f]).seq)
    BY <1>1, <1>3, RebuiltFinds
  <2>3. Newest.file = f /\ Newest \in [file : Nat, start : Nat, end : Nat]
    BY <1>1, <2>2, ScannedEntries DEF Segment
  <2>4. Newest.file \in Nat /\ Newest.start \in Nat /\ Newest.end \in Nat /\ Newest.end + 1 \in Nat
    BY <2>3
  <2>5. current' \in Currents /\ current'.file = f /\ current'.next >= 1
    BY <2>1, <2>3, <2>4 DEF Currents
  <2>6. f \in DOMAIN files
    BY DEF NonEmpty
  <2> QED
    BY <1>1, <2>1, <2>5, <2>6, SameFiles, RebuiltTyped
<1>4. CASE ~Trusted /\ Scanned = {}
  <2>1. /\ files' = Append(files, <<>>) /\ index' = RebuiltIndex
        /\ current' = [file |-> NewFile, start |-> 1, next |-> 1]
    BY <1>4 DEF StartLog
  <2>2. Grown(files, files') /\ NewFile \in DOMAIN files' /\ NewFile \in Nat
    BY <1>1, <2>1, FileAdded DEF NewFile
  <2>3. current' \in Currents /\ current'.file = NewFile /\ current'.next >= 1
    BY <2>1, <2>2 DEF Currents
  <2> QED
    BY <1>1, <2>1, <2>2, <2>3, RebuiltTyped
<1> QED
  BY <1>2, <1>3, <1>4

LEMMA NewSegmentFiles ==
  ASSUME LogTyped, NewSegment
  PROVE  /\ Grown(files, files') /\ current' \in Currents
         /\ current'.file = NewFile /\ NewFile \in DOMAIN files' /\ NewFile \in Nat
         /\ \A f \in DOMAIN files' : f <= NewFile
         /\ \A f \in DOMAIN files : f < NewFile
         /\ current'.start = current.next /\ current'.next = current.next
<1>1. /\ files \in LogFiles /\ current.next \in Nat
      /\ files' = Append(files, <<>>) /\ current' = [file |-> NewFile, start |-> current.next, next |-> current.next]
  BY LogTypedFacts DEF NewSegment
<1>2. /\ Grown(files, files') /\ NewFile \in DOMAIN files' /\ NewFile \in Nat
      /\ \A f \in DOMAIN files' : f <= NewFile
  BY <1>1, FileAdded DEF NewFile
<1>3. current' \in Currents
  BY <1>1, <1>2 DEF Currents
<1>4. \A f \in DOMAIN files : f < NewFile
  <2>1. files \in Seq(Seq(LogRecords))
    BY <1>1 DEF LogFiles
  <2> QED
    BY <2>1 DEF NewFile
<1> QED
  BY <1>1, <1>2, <1>3, <1>4

LEMMA RenameSegmentFiles ==
  ASSUME LogTyped, WritingKnown, RenameSegment
  PROVE  /\ Extended(files, files', current.file, [id |-> writing, seq |-> current.next])
         /\ writing \in Events \ Ids(files)
         /\ current' \in Currents /\ index' \in Indexes
         /\ current'.file = current.file /\ current'.start = current.start
         /\ current'.next = current.next + 1 /\ index'.segments = index.segments
<1>1. step = "write"
  BY DEF RenameSegment
<1>2. writing \in Events \ Ids(files)
  BY <1>1 DEF WritingKnown
<1>3. /\ files \in LogFiles /\ current \in Currents /\ index \in Indexes /\ current.file \in DOMAIN files
      /\ current.next \in Nat
  BY <1>1, LogTypedFacts DEF LogTyped
<1>4. [id |-> writing, seq |-> current.next] \in LogRecords
  BY <1>2, <1>3 DEF LogRecords
<1>5. Extended(files, files', current.file, [id |-> writing, seq |-> current.next])
  BY <1>3, <1>4, RecordAdded DEF RenameSegment
<1>6. /\ current' \in Currents /\ current'.file = current.file /\ current'.start = current.start
      /\ current'.next = current.next + 1
  BY <1>3 DEF RenameSegment, Currents
<1>7. index' \in Indexes /\ index'.segments = index.segments
  BY <1>3 DEF RenameSegment, Indexes
<1> QED
  BY <1>2, <1>5, <1>6, <1>7

--------------------------------------------------------------------------------
(* Types *)

LEMMA LogTypedInit == LogInit => LogTyped
<1> SUFFICES ASSUME LogInit PROVE LogTyped
  OBVIOUS
<1>1. files \in Seq(Seq([id : Events, seq : Nat])) /\ {crashes, failures} \subseteq Nat
  BY DEF LogInit
<1>2. LogTypeOK
  BY <1>1 DEF LogInit, LogTypeOK, Pointers, LogSteps
<1> QED
  BY <1>2 DEF LogInit, LogTyped, OpenSteps

\* The three actions that change the files: what is left to say of the rest.
LEMMA TypedByFiles ==
  ASSUME LogTyped, files' \in LogFiles, current' \in Currents, index' \in Indexes,
         DOMAIN files \subseteq DOMAIN files', current'.file \in DOMAIN files', current'.next >= 1,
         UNCHANGED <<diskIndex, diskCurrent, logged, crashes, lostPointers>>,
         writing' \in Events \cup {NoEvent}, failures' \in Nat,
         step' \in LogSteps \ {"down"}, absent' \subseteq DOMAIN files'
  PROVE  LogTyped'
<1>1. index' # Unreadable /\ current' # Unreadable
  BY UnreadableIsNeither
<1>2. LogTypeOK'
  BY DEF LogTyped, LogTypeOK, Pointers, LogFiles, LogRecords
<1>3. diskCurrent' # Unreadable => diskCurrent'.file \in DOMAIN files' /\ diskCurrent'.next >= 1
  BY DEF LogTyped
<1> QED
  BY <1>1, <1>2, <1>3 DEF LogTyped

LEMMA LogTypedStep == LogTyped /\ WritingKnown /\ [LogNext]_logVars => LogTyped'
<1> SUFFICES ASSUME LogTyped, WritingKnown, [LogNext]_logVars PROVE LogTyped'
  OBVIOUS
<1> USE DEF diskVars, segmentVars
<1>0. writing \in Events \cup {NoEvent} /\ failures \in Nat /\ absent \subseteq DOMAIN files
  BY DEF LogTyped, LogTypeOK
<1>1. CASE StartLog
  <2>1. /\ step' \in {"idle", "fresh", "rebuilt"}
        /\ UNCHANGED <<absent, diskIndex, diskCurrent, writing, logged, crashes, failures, lostPointers>>
    BY <1>1 DEF StartLog
  <2>2. step' \in LogSteps \ {"down"}
    BY <2>1 DEF LogSteps
  <2> QED
    BY <1>0, <1>1, <2>1, <2>2, StartLogFiles, TypedByFiles DEF Grown
<1>2. CASE CreateSegment \/ FailCreate
  <2>1. /\ NewSegment /\ step' \in {"created", "idle"} /\ index' = index
        /\ UNCHANGED <<diskIndex, diskCurrent, logged, crashes, lostPointers>>
        /\ writing' \in {writing, NoEvent} /\ failures' \in {failures, failures + 1}
        /\ absent' \in {absent, absent \cup {NewFile}}
    BY <1>2 DEF CreateSegment, FailCreate, Throws
  <2>2. step' \in LogSteps \ {"down"} /\ step = "create"
    BY <2>1 DEF LogSteps, NewSegment
  <2>3. index' \in Indexes
    BY <2>1, <2>2, LogTypedFacts
  <2>4. current'.next >= 1
    BY <2>1, <2>2, NewSegmentFiles DEF LogTyped
  <2>5. /\ Grown(files, files') /\ current' \in Currents /\ current'.file \in DOMAIN files'
        /\ NewFile \in DOMAIN files'
    BY <2>1, NewSegmentFiles
  <2>6. absent' \subseteq DOMAIN files' /\ writing' \in Events \cup {NoEvent} /\ failures' \in Nat
    BY <1>0, <2>1, <2>5 DEF Grown
  <2> QED
    BY <2>1, <2>2, <2>3, <2>4, <2>5, <2>6, TypedByFiles DEF Grown
<1>3. CASE RenameSegment
  <2>1. /\ step = "write" /\ step' = "renamed" /\ absent' = absent \ {current.file}
        /\ UNCHANGED <<diskIndex, diskCurrent, writing, logged, crashes, failures, lostPointers>>
    BY <1>3 DEF RenameSegment
  <2>2. step' \in LogSteps \ {"down"}
    BY <2>1 DEF LogSteps
  <2>4. current'.next >= 1
    BY <1>3, <2>1, RenameSegmentFiles, LogTypedFacts DEF LogTyped
  <2> QED
    BY <1>0, <1>3, <2>1, <2>2, <2>4, RenameSegmentFiles, TypedByFiles DEF Extended
<1>4. CASE SaveFreshCurrent
  BY <1>4 DEF SaveFreshCurrent, LogTyped, LogTypeOK, Pointers, LogSteps, OpenSteps
<1>5. CASE SaveRebuiltIndex
  BY <1>5 DEF SaveRebuiltIndex, LogTyped, LogTypeOK, Pointers, LogSteps, OpenSteps
<1>6. CASE SaveRebuiltCurrent
  BY <1>6 DEF SaveRebuiltCurrent, LogTyped, LogTypeOK, Pointers, LogSteps, OpenSteps
<1>7. ASSUME NEW e \in Events, AppendEvent(e) PROVE LogTyped'
  BY <1>7 DEF AppendEvent, LogTyped, LogTypeOK, Pointers, LogSteps, OpenSteps
<1>8. ASSUME NEW e \in Events, AppendRotating(e) PROVE LogTyped'
  <2>1. step = "idle" /\ index \in Indexes /\ current \in Currents /\ current.next \in Nat
    BY <1>8, LogTypedFacts DEF AppendRotating
  <2>2. current.next >= 1 /\ current.file \in Nat /\ current.start \in Nat /\ current.next - 1 \in Nat
    BY <2>1, LogTypedFacts DEF LogTyped
  <2>3. index.segments \cup {Segment(current.file, current.start, current.next - 1)}
          \in SUBSET [file : Nat, start : Nat, end : Nat]
    BY <2>1, <2>2 DEF Indexes, Segment
  <2>4. index' \in Indexes
    BY <1>8, <2>2, <2>3 DEF AppendRotating, Indexes
  <2>5. index' # Unreadable
    BY <2>4, UnreadableIsNeither
  <2> QED
    BY <1>8, <2>1, <2>4, <2>5 DEF AppendRotating, LogTyped, LogTypeOK, Pointers, LogSteps, OpenSteps
<1>9. CASE SaveRotatedIndex
  BY <1>9 DEF SaveRotatedIndex, LogTyped, LogTypeOK, Pointers, LogSteps, OpenSteps
<1>10. CASE SaveNewCurrent
  BY <1>10 DEF SaveNewCurrent, LogTyped, LogTypeOK, Pointers, LogSteps, OpenSteps
<1>11. CASE SaveCurrent
  BY <1>11 DEF SaveCurrent, LogTyped, LogTypeOK, Pointers, LogSteps, OpenSteps
<1>12. CASE SaveIndex
  BY <1>12 DEF SaveIndex, WritingKnown, LogTyped, LogTypeOK, Pointers, LogSteps, OpenSteps
<1>13. CASE CrashLog
  BY <1>13 DEF CrashLog, TearsAny, Tears, LogTyped, LogTypeOK, Pointers, LogSteps, OpenSteps
<1>14. CASE FailSave
  BY <1>14 DEF FailSave, Throws, TearsAny, Tears, LogTyped, LogTypeOK, Pointers, LogSteps, OpenSteps
<1>15. CASE UNCHANGED logVars
  BY <1>15 DEF logVars, LogTyped, LogTypeOK, Pointers, LogSteps, OpenSteps
<1> QED
  BY <1>1, <1>2, <1>3, <1>4, <1>5, <1>6, <1>7, <1>8, <1>9, <1>10, <1>11, <1>12, <1>13, <1>14, <1>15
     DEF LogNext

--------------------------------------------------------------------------------
(* The event under way *)

LEMMA NotYetHeld == ASSUME NEW fs, NEW e, e \notin Ids(fs) PROVE Holding(fs, {e}) = {}
BY DEF Ids, Holding

LEMMA WritingStep == LogTyped /\ WritingKnown /\ [LogNext]_logVars => WritingKnown'
<1> SUFFICES ASSUME LogTyped, WritingKnown, [LogNext]_logVars PROVE WritingKnown'
  OBVIOUS
<1> USE DEF diskVars, segmentVars
<1>1. CASE StartLog
  <2>1. Ids(files') = Ids(files)
    BY <1>1, StartLogFiles, GrownKeeps
  <2>2. logged' = logged /\ step' \in {"idle", "fresh", "rebuilt"}
    BY <1>1 DEF StartLog
  <2> QED
    BY <2>1, <2>2 DEF WritingKnown
<1>2. CASE CreateSegment \/ FailCreate
  <2>1. Ids(files') = Ids(files)
    BY <1>2, NewSegmentFiles, GrownKeeps DEF CreateSegment, FailCreate
  <2>2. /\ logged' = logged /\ step = "create"
        /\ step' = "idle" \/ (writing' = writing /\ step' = "created")
    BY <1>2 DEF CreateSegment, FailCreate, NewSegment, Throws
  <2> QED
    BY <2>1, <2>2 DEF WritingKnown
<1>3. CASE RenameSegment
  <2> DEFINE r == [id |-> writing, seq |-> current.next]
  <2>1. Extended(files, files', current.file, r) /\ writing \in Events \ Ids(files)
    BY <1>3, RenameSegmentFiles
  <2>2. r.id = writing
    OBVIOUS
  <2> HIDE DEF r
  <2>3. /\ Ids(files') = Ids(files) \cup {writing}
        /\ Holding(files', {writing}) \subseteq Holding(files, {writing}) \cup {current.file}
    BY <2>1, <2>2, ExtendedKeeps
  <2>4. Holding(files', {writing}) \subseteq {current'.file}
    BY <1>3, <2>1, <2>3, NotYetHeld, RenameSegmentFiles
  <2>5. logged' = logged /\ writing' = writing /\ step' = "renamed"
    BY <1>3 DEF RenameSegment
  <2>6. writing \notin logged /\ logged \subseteq Ids(files)
    BY <2>1 DEF WritingKnown
  <2> QED
    BY <2>1, <2>3, <2>4, <2>5, <2>6 DEF WritingKnown
<1>4. CASE SaveFreshCurrent
  BY <1>4 DEF SaveFreshCurrent, WritingKnown
<1>5. CASE SaveRebuiltIndex
  BY <1>5 DEF SaveRebuiltIndex, WritingKnown
<1>6. CASE SaveRebuiltCurrent
  BY <1>6 DEF SaveRebuiltCurrent, WritingKnown
<1>7. ASSUME NEW e \in Events, AppendEvent(e) PROVE WritingKnown'
  BY <1>7, StoredIsIds DEF AppendEvent, WritingKnown
<1>8. ASSUME NEW e \in Events, AppendRotating(e) PROVE WritingKnown'
  BY <1>8, StoredIsIds DEF AppendRotating, WritingKnown
<1>9. CASE SaveRotatedIndex
  BY <1>9 DEF SaveRotatedIndex, WritingKnown
<1>10. CASE SaveNewCurrent
  BY <1>10 DEF SaveNewCurrent, WritingKnown
<1>11. CASE SaveCurrent
  BY <1>11 DEF SaveCurrent, WritingKnown
<1>12. CASE SaveIndex
  BY <1>12 DEF SaveIndex, WritingKnown
<1>13. CASE CrashLog
  BY <1>13 DEF CrashLog, WritingKnown
<1>14. CASE FailSave
  BY <1>14 DEF FailSave, Throws, WritingKnown
<1>15. CASE UNCHANGED logVars
  BY <1>15 DEF logVars, WritingKnown
<1> QED
  BY <1>1, <1>2, <1>3, <1>4, <1>5, <1>6, <1>7, <1>8, <1>9, <1>10, <1>11, <1>12, <1>13, <1>14, <1>15
     DEF LogNext

--------------------------------------------------------------------------------
(* Every returned event is found *)

\* The files with an event whose append returned only change when an append returns.
LEMMA HoldingStep ==
  ASSUME LogTyped, WritingKnown, [LogNext]_logVars, ~SaveIndex
  PROVE  Holding(files', logged') = Holding(files, logged) /\ logged' = logged
<1> USE DEF diskVars, segmentVars
<1>1. CASE StartLog
  BY <1>1, StartLogFiles, GrownKeeps DEF StartLog
<1>2. CASE CreateSegment \/ FailCreate
  BY <1>2, NewSegmentFiles, GrownKeeps DEF CreateSegment, FailCreate
<1>3. CASE RenameSegment
  <2> DEFINE r == [id |-> writing, seq |-> current.next]
  <2>1. Extended(files, files', current.file, r) /\ writing \notin Ids(files)
    BY <1>3, RenameSegmentFiles
  <2>2. r.id = writing /\ writing \notin logged /\ logged' = logged
    BY <1>3, <2>1 DEF RenameSegment, WritingKnown
  <2> HIDE DEF r
  <2> QED
    BY <2>1, <2>2, ExtendedKeeps
<1>4. CASE ~(StartLog \/ CreateSegment \/ FailCreate \/ RenameSegment)
  <2>1. files' = files /\ logged' = logged
    BY <1>4 DEF LogNext, logVars, SaveFreshCurrent, SaveRebuiltIndex, SaveRebuiltCurrent, AppendEvent, AppendRotating,
                SaveRotatedIndex, SaveNewCurrent, SaveCurrent, CrashLog, FailSave
  <2> QED
    BY <2>1
<1> QED
  BY <1>1, <1>2, <1>3, <1>4

LEMMA FoundStep == LogTyped /\ WritingKnown /\ Found /\ [LogNext]_logVars => Found'
<1> SUFFICES ASSUME LogTyped, WritingKnown, Found, [LogNext]_logVars PROVE Found'
  OBVIOUS
<1> USE DEF diskVars, segmentVars
<1> DEFINE S == Holding(files, logged)
<1>1. CASE StartLog
  <2>1. S' = S
    BY <1>1, HoldingStep DEF StartLog, SaveIndex
  <2>2. diskIndex' = diskIndex /\ diskCurrent' = diskCurrent
    BY <1>1 DEF StartLog
  <2>3. CASE Trusted
    <3>1. index' = diskIndex /\ current' = diskCurrent /\ step' = "idle"
      BY <1>1, <2>3 DEF StartLog
    <3>2. Finds(S, diskIndex, diskCurrent)
      BY <2>3 DEF Found, Trusted, Agree
    <3> QED
      BY <2>1, <2>2, <3>1, <3>2 DEF Found, OpenSteps, Archived, Finds
  <2>4. CASE ~Trusted
    <3>1. /\ index' = RebuiltIndex /\ step' \in {"fresh", "rebuilt"}
          /\ step' = "fresh" => Scanned = {}
      BY <1>1, <2>4 DEF StartLog
    <3>2. S \subseteq Archived(index') /\ (Scanned = {} => S = {})
      BY <3>1, RebuiltFinds, LogTypedFacts
    <3>3. Unreadable \notin {diskIndex, diskCurrent} => Finds(S, diskIndex, diskCurrent)
      BY DEF Found
    <3> HIDE DEF S
    <3>4. Finds(S', index', current')
      BY <2>1, <3>2 DEF Finds
    <3>5. S' \subseteq Archived(index') /\ (step' = "fresh" => S' = {})
      BY <2>1, <3>1, <3>2
    <3>6. Unreadable \notin {diskIndex', diskCurrent'} => Finds(S', diskIndex', diskCurrent')
      BY <2>1, <2>2, <3>3
    <3> QED
      BY <3>1, <3>4, <3>5, <3>6 DEF S, Found, OpenSteps, Archived, Finds
  <2> QED
    BY <2>3, <2>4
<1>2. CASE SaveIndex
  <2>1. /\ files' = files /\ logged' = logged \cup {writing} /\ diskIndex' = index /\ diskCurrent' = diskCurrent
        /\ index' = index /\ current' = current /\ step = "currentSaved" /\ step' = "idle"
    BY <1>2 DEF SaveIndex
  <2>2. S' \subseteq S \cup {current.file}
    <3>1. Holding(files, logged \cup {writing}) \subseteq S \cup Holding(files, {writing})
      BY DEF Holding
    <3> QED
      BY <2>1, <3>1 DEF WritingKnown
  <2>3. Finds(S, index, current) /\ diskCurrent = current
    BY <2>1 DEF Found
  <2> HIDE DEF S
  <2>4. Finds(S', index, current)
    BY <2>2, <2>3 DEF Finds
  <2> QED
    BY <2>1, <2>3, <2>4 DEF S, Found, OpenSteps, Archived, Finds
<1>3. CASE ~StartLog /\ ~SaveIndex
  <2>1. S' = S
    BY <1>3, HoldingStep
  <2>2. /\ step # "down" => Finds(S, index, current)
        /\ Unreadable \notin {diskIndex, diskCurrent} => Finds(S, diskIndex, diskCurrent)
        /\ step \in OpenSteps /\ diskIndex # Unreadable => Finds(S, diskIndex, current)
        /\ step = "fresh" => S = {}
        /\ step \in {"fresh", "rebuilt", "rebuiltCurrent"} => S \subseteq Archived(index)
        /\ step \in {"rotated", "create"} => current.file \in Archived(index)
        /\ step \in {"rebuiltCurrent", "create", "created"} => diskIndex = index
        /\ step = "currentSaved" => diskCurrent = current
    BY DEF Found
  <2> SUFFICES
        /\ step' # "down" => Finds(S', index', current')
        /\ Unreadable \notin {diskIndex', diskCurrent'} => Finds(S', diskIndex', diskCurrent')
        /\ step' \in OpenSteps /\ diskIndex' # Unreadable => Finds(S', diskIndex', current')
        /\ step' = "fresh" => S' = {}
        /\ step' \in {"fresh", "rebuilt", "rebuiltCurrent"} => S' \subseteq Archived(index')
        /\ step' \in {"rotated", "create"} => current'.file \in Archived(index')
        /\ step' \in {"rebuiltCurrent", "create", "created"} => diskIndex' = index'
        /\ step' = "currentSaved" => diskCurrent' = current'
    BY DEF Found, Finds, Archived
  <2> HIDE DEF S
  <2> USE DEF OpenSteps, Finds
  <2>3. CASE CreateSegment \/ FailCreate
    <3>1. /\ step = "create" /\ step' \in {"created", "idle"} /\ index' = index
          /\ diskIndex' = diskIndex /\ diskCurrent' = diskCurrent
      BY <2>3 DEF CreateSegment, FailCreate, NewSegment, Throws
    <3>2. S \subseteq Archived(index)
      BY <2>2, <3>1
    <3> QED
      BY <2>1, <2>2, <3>1, <3>2
  <2>4. CASE RenameSegment
    <3>1. /\ step = "write" /\ step' = "renamed" /\ Archived(index') = Archived(index)
          /\ current'.file = current.file /\ diskIndex' = diskIndex /\ diskCurrent' = diskCurrent
      BY <2>4, RenameSegmentFiles DEF RenameSegment, Archived
    <3> QED
      BY <2>1, <2>2, <3>1
  <2>5. CASE SaveFreshCurrent
    BY <2>1, <2>2, <2>5 DEF SaveFreshCurrent
  <2>6. CASE SaveRebuiltIndex
    BY <2>1, <2>2, <2>6 DEF SaveRebuiltIndex
  <2>7. CASE SaveRebuiltCurrent
    BY <2>1, <2>2, <2>7 DEF SaveRebuiltCurrent
  <2>8. ASSUME NEW e \in Events, AppendEvent(e)
        PROVE  step = "idle" /\ step' = "write" /\ UNCHANGED <<index, current, diskIndex, diskCurrent>>
    BY <2>8 DEF AppendEvent
  <2>9. ASSUME NEW e \in Events, AppendRotating(e)
        PROVE  /\ step = "idle" /\ step' = "rotated" /\ UNCHANGED <<current, diskIndex, diskCurrent>>
               /\ Archived(index') = Archived(index) \cup {current.file}
    <3> DEFINE s == Segment(current.file, current.start, current.next - 1)
    <3>1. s.file = current.file
      BY DEF Segment
    <3>2. index'.segments = index.segments \cup {s}
      BY <2>9 DEF AppendRotating
    <3> HIDE DEF s
    <3>3. Archived(index') = Archived(index) \cup {current.file}
      BY <3>1, <3>2 DEF Archived
    <3> QED
      BY <2>9, <3>3 DEF AppendRotating
  <2>10. CASE SaveRotatedIndex
    BY <2>1, <2>2, <2>10 DEF SaveRotatedIndex
  <2>11. CASE SaveNewCurrent
    BY <2>1, <2>2, <2>11 DEF SaveNewCurrent
  <2>12. CASE SaveCurrent
    BY <2>1, <2>2, <2>12 DEF SaveCurrent
  <2>13. CASE CrashLog
    BY <2>1, <2>2, <2>13 DEF CrashLog, TearsAny, Tears
  <2>14. CASE FailSave
    BY <2>1, <2>2, <2>14 DEF FailSave, Throws, TearsAny, Tears
  <2>15. CASE UNCHANGED logVars
    BY <2>1, <2>2, <2>15 DEF logVars
  <2>16. CASE \E e \in Events : AppendEvent(e) \/ AppendRotating(e)
    BY <2>1, <2>2, <2>8, <2>9, <2>16
  <2> QED
    BY <1>3, <2>3, <2>4, <2>5, <2>6, <2>7, <2>10, <2>11, <2>12, <2>13, <2>14, <2>15, <2>16 DEF LogNext
<1> QED
  BY <1>1, <1>2, <1>3

--------------------------------------------------------------------------------
(* Numbers increase *)

LEMMA RecordPlaces ==
  ASSUME NEW fs \in LogFiles
  PROVE  \A f \in DOMAIN fs : f \in Nat /\ \A k \in DOMAIN fs[f] : k \in Nat /\ fs[f][k].seq \in Nat
<1> SUFFICES ASSUME NEW f \in DOMAIN fs
             PROVE  f \in Nat /\ \A k \in DOMAIN fs[f] : k \in Nat /\ fs[f][k].seq \in Nat
  OBVIOUS
<1>1. fs \in Seq(Seq(LogRecords))
  BY DEF LogFiles
<1>2. f \in Nat /\ fs[f] \in Seq(LogRecords)
  BY <1>1
<1>3. \A k \in DOMAIN fs[f] : k \in Nat /\ fs[f][k] \in LogRecords
  BY <1>2
<1> QED
  BY <1>2, <1>3 DEF LogRecords

LEMMA BelowMore ==
  ASSUME NEW fs \in LogFiles, NEW m \in Nat, NEW n \in Nat, m <= n, Below(fs, m)
  PROVE  Below(fs, n)
BY RecordPlaces DEF Below

\* What Ordered says of the pointers in use, and of those on disk.
Ahead(fs, cur) == Below(fs, cur.next) /\ NoneAfter(fs, cur.file) /\ StartsAt(fs, cur)
Behind(fs, cur) == StartsAt(fs, cur) /\ (Below(fs, cur.next) => NoneAfter(fs, cur.file))

LEMMA GrownAhead ==
  ASSUME NEW fs, NEW gs, NEW c, Grown(fs, gs)
  PROVE  (Ahead(fs, c) => Ahead(gs, c)) /\ (Behind(fs, c) => Behind(gs, c))
BY GrownKeeps DEF Ahead, Behind

LEMMA OrderedIs ==
  Ordered <=>
    /\ Increase(files)
    /\ step # "down" => Ahead(files, current)
    /\ diskCurrent # Unreadable => Behind(files, diskCurrent)
    /\ step = "down" /\ Trusted => Below(files, diskCurrent.next)
    /\ step \in OpenSteps /\ diskCurrent # Unreadable =>
       diskCurrent.file <= current.file /\ diskCurrent.next <= current.next
BY DEF Ordered, Ahead, Behind

\* The pointers that a rebuild makes.
LEMMA RebuiltAhead ==
  ASSUME LogTyped, Increase(files), StartLog, ~Trusted
  PROVE  Ahead(files', current')
<1>1. files \in LogFiles
  BY LogTypedFacts
<1>2. CASE Scanned # {}
  <2>1. PICK f \in NonEmpty : Newest = Segment(f, Head(files[f]).seq, Last(files[f]).seq) /\ NoneAfter(files, f)
    BY <1>1, <1>2, RebuiltFinds
  <2> DEFINE n == Len(files[f])
  <2>2. /\ files' = files /\ current'.file = f
        /\ current'.start = files[f][1].seq /\ current'.next = files[f][n].seq + 1
        /\ 1 \in DOMAIN files[f] /\ n \in DOMAIN files[f] /\ n \in Nat /\ DOMAIN files[f] = 1 .. n
    BY <1>1, <1>2, <2>1, ScannedEntries DEF StartLog, Segment
  <2> HIDE DEF n
  <2>3. f \in DOMAIN files /\ \A g \in DOMAIN files : g \in Nat /\ (g > f => files[g] = <<>>)
    BY <1>1, <2>1, RecordPlaces DEF NonEmpty, NoneAfter
  <2>4. ASSUME NEW g \in DOMAIN files, NEW k \in DOMAIN files[g]
        PROVE  files[g][k].seq < files[f][n].seq + 1
    <3>1. g <= f /\ g \in Nat /\ f \in Nat /\ k \in Nat /\ files[g][k].seq \in Nat /\ files[f][n].seq \in Nat
      BY <1>1, <2>2, <2>3, RecordPlaces
    <3>2. CASE g = f /\ k = n
      BY <3>1, <3>2
    <3>3. CASE ~(g = f /\ k = n)
      <4>1. g < f \/ (g = f /\ k < n)
        BY <2>2, <3>1, <3>3
      <4>2. files[g][k].seq < files[f][n].seq
        BY <2>2, <2>3, <4>1 DEF Increase
      <4> QED
        BY <3>1, <4>2
    <3> QED
      BY <3>2, <3>3
  <2>5. ASSUME NEW g \in DOMAIN files, NEW k \in DOMAIN files[g], files[g][k].seq >= files[f][1].seq
        PROVE  g >= f
    <3>1. g \in Nat /\ f \in Nat /\ files[g][k].seq \in Nat /\ files[f][1].seq \in Nat
      BY <1>1, <2>2, <2>3, RecordPlaces
    <3>2. g < f => files[g][k].seq < files[f][1].seq
      BY <2>2, <2>3 DEF Increase
    <3> QED
      BY <2>5, <3>1, <3>2
  <2>6. Below(files', current'.next)
    BY <2>2, <2>4 DEF Below
  <2>7. StartsAt(files', current')
    BY <2>2, <2>5 DEF StartsAt
  <2> QED
    BY <2>1, <2>2, <2>6, <2>7 DEF Ahead
<1>3. CASE Scanned = {}
  <2>1. files' = Append(files, <<>>) /\ current'.file = Len(files) + 1
    BY <1>3 DEF StartLog, NewFile
  <2>2. Grown(files, files') /\ \A f \in DOMAIN files' : f <= Len(files) + 1 /\ f \in Nat
    BY <1>1, <2>1, FileAdded
  <2>3. \A f \in DOMAIN files : files[f] = <<>>
    BY <1>1, <1>3, RebuiltFinds DEF NonEmpty
  <2>4. \A f \in DOMAIN files' : files'[f] = <<>>
    BY <2>2, <2>3 DEF Grown
  <2>5. \A f \in DOMAIN files' : DOMAIN files'[f] = {}
    BY <2>4
  <2> QED
    BY <2>4, <2>5 DEF Ahead, Below, NoneAfter, StartsAt
<1> QED
  BY <1>2, <1>3

LEMMA OrderedStep == LogTyped /\ WritingKnown /\ Ordered /\ [LogNext]_logVars => lostPointers' \/ Ordered'
<1> SUFFICES ASSUME LogTyped, WritingKnown, Ordered, [LogNext]_logVars, ~lostPointers' PROVE Ordered'
  OBVIOUS
<1> USE DEF diskVars, segmentVars
<1>0. /\ Increase(files)
      /\ step # "down" => Ahead(files, current)
      /\ diskCurrent # Unreadable => Behind(files, diskCurrent)
      /\ step = "down" /\ Trusted => Below(files, diskCurrent.next)
      /\ step \in OpenSteps /\ diskCurrent # Unreadable =>
       diskCurrent.file <= current.file /\ diskCurrent.next <= current.next
  BY OrderedIs
<1> SUFFICES
      /\ Increase(files')
      /\ step' # "down" => Ahead(files', current')
      /\ diskCurrent' # Unreadable => Behind(files', diskCurrent')
      /\ step' = "down" /\ Trusted' => Below(files', diskCurrent'.next)
      /\ step' \in OpenSteps /\ diskCurrent' # Unreadable =>
           diskCurrent'.file <= current'.file /\ diskCurrent'.next <= current'.next
  BY DEF Ordered, Ahead, Behind, Below, NoneAfter, StartsAt, Increase
<1>20. files \in LogFiles
  BY LogTypedFacts
<1>21. step # "down" => current.file \in Nat /\ current.next \in Nat
  BY LogTypedFacts
<1>22. step \in OpenSteps => step # "down"
  BY DEF OpenSteps
<1>23. diskCurrent # Unreadable => diskCurrent.file \in Nat /\ diskCurrent.next \in Nat
  BY LogTypedFacts
<1>24. Ahead(files, current) => Behind(files, current)
  BY DEF Ahead, Behind
<1>1. CASE StartLog
  <2>1. CASE Trusted
    <3>1. /\ step = "down" /\ step' = "idle" /\ files' = files /\ current' = diskCurrent /\ diskCurrent' = diskCurrent
          /\ diskCurrent # Unreadable
      BY <1>1, <2>1 DEF StartLog, Trusted, Agree
    <3>2. Ahead(files, diskCurrent)
      BY <1>0, <2>1, <3>1 DEF Ahead, Behind
    <3> QED
      BY <1>0, <1>23, <3>1, <3>2
  <2>2. CASE ~Trusted
    <3>1. diskCurrent' = diskCurrent /\ step' \notin OpenSteps /\ step' # "down"
      BY <1>1, <2>2 DEF StartLog, OpenSteps
    <3>2. Increase(files') /\ (Behind(files, diskCurrent) => Behind(files', diskCurrent))
      BY <1>0, <1>1, StartLogFiles, GrownKeeps, GrownAhead
    <3>3. Ahead(files', current')
      BY <1>0, <1>1, <2>2, RebuiltAhead
    <3> QED
      BY <1>0, <3>1, <3>2, <3>3
  <2> QED
    BY <2>1, <2>2
<1>2. CASE CreateSegment \/ FailCreate
  <2>1. /\ NewSegment /\ step = "create" /\ step' \in {"created", "idle"} /\ diskCurrent' = diskCurrent
        /\ step \in OpenSteps
    BY <1>2 DEF CreateSegment, FailCreate, NewSegment, Throws, OpenSteps
  <2>2. /\ Grown(files, files') /\ current'.file = NewFile /\ NewFile \in Nat
        /\ current'.next = current.next /\ current'.start = current.next
        /\ \A f \in DOMAIN files' : f <= NewFile
        /\ \A f \in DOMAIN files : f < NewFile
    BY <2>1, NewSegmentFiles
  <2>3. Increase(files') /\ Below(files', current.next) /\ (Behind(files, diskCurrent) => Behind(files', diskCurrent))
    BY <1>0, <2>1, <2>2, GrownKeeps, GrownAhead DEF Ahead, OpenSteps
  <2>4. files' \in LogFiles
    BY <2>2 DEF Grown
  <2>5. \A f \in DOMAIN files' : f \in Nat /\ \A k \in DOMAIN files'[f] : files'[f][k].seq \in Nat
    BY <2>4, RecordPlaces
  <2>6. NoneAfter(files', NewFile)
    BY <2>2, <2>5 DEF NoneAfter
  <2>7. StartsAt(files', current')
    BY <1>21, <2>1, <2>2, <2>3, <2>5 DEF StartsAt, Below
  <2>8. current.file \in DOMAIN files
    BY <2>1 DEF LogTyped
  <2>9. diskCurrent # Unreadable => diskCurrent.file <= NewFile
    BY <1>0, <1>21, <1>22, <1>23, <2>1, <2>2, <2>8
  <2> QED
    BY <1>0, <2>1, <2>2, <2>3, <2>6, <2>7, <2>9 DEF Ahead
<1>3. CASE RenameSegment
  <2> DEFINE r == [id |-> writing, seq |-> current.next]
  <2>1. /\ Extended(files, files', current.file, r)
        /\ current'.file = current.file /\ current'.next = current.next + 1 /\ current'.start = current.start
    BY <1>3, RenameSegmentFiles
  <2>2. r.seq = current.next
    OBVIOUS
  <2> HIDE DEF r
  <2>3. /\ step = "write" /\ step' = "renamed" /\ diskCurrent' = diskCurrent /\ step \in OpenSteps /\ step # "down"
    BY <1>3, <1>22 DEF RenameSegment, OpenSteps
  <2>4. Below(files, current.next) /\ NoneAfter(files, current.file) /\ StartsAt(files, current)
    BY <1>0, <2>3 DEF Ahead
  <2>5. Increase(files') /\ Below(files', current.next + 1) /\ NoneAfter(files', current.file)
    BY <1>0, <2>1, <2>2, <2>4, ExtendedKeeps
  <2>6. StartsAt(files', current) /\ (diskCurrent # Unreadable => StartsAt(files', diskCurrent))
    BY <1>0, <1>21, <2>1, <2>3, <2>4, ExtendedKeeps DEF Behind
  <2>7. diskCurrent # Unreadable => ~Below(files', diskCurrent.next)
    BY <1>0, <1>23, <2>1, <2>2, <2>3, ExtendedKeeps
  <2>8. StartsAt(files', current')
    BY <2>1, <2>6 DEF StartsAt
  <2>9. (diskCurrent # Unreadable => Behind(files', diskCurrent)) /\ Ahead(files', current')
    BY <2>1, <2>5, <2>6, <2>7, <2>8 DEF Ahead, Behind
  <2>10. diskCurrent # Unreadable => diskCurrent.next <= current.next + 1
    BY <1>0, <1>21, <1>23, <2>3
  <2> QED
    BY <1>0, <2>1, <2>3, <2>5, <2>9, <2>10 DEF OpenSteps
<1>4. CASE SaveFreshCurrent
  BY <1>0, <1>24, <1>4 DEF SaveFreshCurrent, OpenSteps
<1>5. CASE SaveRebuiltIndex
  BY <1>0, <1>5 DEF SaveRebuiltIndex, OpenSteps
<1>6. CASE SaveRebuiltCurrent
  BY <1>0, <1>21, <1>24, <1>6 DEF SaveRebuiltCurrent
<1>7. ASSUME NEW e \in Events, AppendEvent(e) \/ AppendRotating(e)
      PROVE  /\ files' = files /\ current' = current /\ diskCurrent' = diskCurrent /\ step \in OpenSteps
             /\ step # "down" /\ step' # "down"
  BY <1>7 DEF AppendEvent, AppendRotating, OpenSteps
<1>9. CASE SaveRotatedIndex
  BY <1>0, <1>9 DEF SaveRotatedIndex, OpenSteps
<1>10. CASE SaveNewCurrent
  BY <1>0, <1>21, <1>24, <1>10 DEF SaveNewCurrent, OpenSteps
<1>11. CASE SaveCurrent
  BY <1>0, <1>21, <1>24, <1>11 DEF SaveCurrent, OpenSteps
<1>12. CASE SaveIndex
  BY <1>0, <1>12 DEF SaveIndex, OpenSteps
<1>13. CASE CrashLog
  <2>1. /\ step # "down" /\ step' = "down" /\ files' = files
        /\ diskCurrent' \in {diskCurrent, Unreadable}
        /\ ~(Trusted' /\ diskCurrent'.next < current.next)
    BY <1>13 DEF CrashLog, TearsAny, Tears
  <2>2. ASSUME Trusted' PROVE Below(files, diskCurrent'.next)
    <3>1. diskCurrent' = diskCurrent /\ diskCurrent # Unreadable
      BY <2>1, <2>2 DEF Trusted, Agree
    <3>2. diskCurrent.next \in Nat /\ current.next \in Nat /\ current.next <= diskCurrent.next
      BY <1>21, <1>23, <2>1, <2>2, <3>1
    <3> QED
      BY <1>0, <1>20, <2>1, <3>1, <3>2, BelowMore DEF Ahead
  <2> QED
    BY <1>0, <2>1, <2>2 DEF OpenSteps
<1>14. CASE FailSave
  BY <1>0, <1>14 DEF FailSave, Throws, TearsAny, Tears, OpenSteps
<1>15. CASE UNCHANGED logVars
  BY <1>0, <1>15 DEF logVars, Trusted, Agree, Archived
<1>16. CASE \E e \in Events : AppendEvent(e) \/ AppendRotating(e)
  BY <1>0, <1>7, <1>16
<1> QED
  BY <1>1, <1>2, <1>3, <1>4, <1>5, <1>6, <1>9, <1>10, <1>11, <1>12, <1>13, <1>14, <1>15, <1>16
     DEF LogNext

--------------------------------------------------------------------------------
(* The theorems *)

LEMMA LogInvInit == LogInit => LogInv
<1> SUFFICES ASSUME LogInit PROVE LogInv
  OBVIOUS
<1>1. LogTyped
  BY LogTypedInit
<1>2. Len(<<>>) = 0 /\ DOMAIN <<>> = {}
  OBVIOUS
<1>3. WritingKnown
  BY DEF LogInit, WritingKnown
<1>4. Holding(files, logged) = {}
  BY <1>2 DEF LogInit, Holding
<1>5. Found
  BY <1>4 DEF LogInit, Found, OpenSteps, Finds
<1>6. Ordered
  BY <1>2 DEF LogInit, Ordered, Increase, OpenSteps, Trusted, Agree
<1> QED
  BY <1>1, <1>3, <1>5, <1>6 DEF LogInv

LEMMA LogInvStep == LogInv /\ [LogNext]_logVars => LogInv'
<1> SUFFICES ASSUME LogInv, [LogNext]_logVars PROVE LogInv'
  OBVIOUS
<1>1. LogTyped' /\ WritingKnown' /\ Found'
  BY LogTypedStep, WritingStep, FoundStep DEF LogInv
<1>2. lostPointers' \/ Ordered'
  <2>1. CASE lostPointers
    <3>1. lostPointers'
      BY <2>1 DEF LogNext, logVars, StartLog, SaveFreshCurrent, SaveRebuiltIndex, SaveRebuiltCurrent,
         AppendEvent, AppendRotating, SaveRotatedIndex, CreateSegment, SaveNewCurrent, RenameSegment,
         SaveCurrent, SaveIndex, CrashLog, FailSave, FailCreate
    <3> QED
      BY <3>1
  <2>2. CASE ~lostPointers
    BY <2>2, OrderedStep DEF LogInv
  <2> QED
    BY <2>1, <2>2
<1> QED
  BY <1>1, <1>2 DEF LogInv

LEMMA LogInvAlways == LogSpec => []LogInv
BY LogInvInit, LogInvStep, PTL DEF LogSpec

LEMMA LogInvSafe == LogInv => LogSafety
<1> SUFFICES ASSUME LogInv PROVE LogSafety
  OBVIOUS
<1>1. SeqsIncreaseUnlessLost
  BY DEF LogInv, Ordered, Increase, SeqsIncreaseUnlessLost, SeqsIncrease
<1>2. ASSUME step = "idle", NEW f \in DOMAIN files, \E k \in DOMAIN files[f] : files[f][k].id \in logged
      PROVE  f \in Searched
  <2>1. f \in Holding(files, logged)
    BY <1>2 DEF Holding
  <2>2. Holding(files, logged) \subseteq Archived(index) \cup {current.file}
    BY <1>2 DEF LogInv, Found, Finds
  <2> QED
    BY <2>1, <2>2 DEF Searched, Archived
<1>3. ASSUME step = "idle", ~lostPointers, NEW r \in Records, NEW n \in current.start .. current.next, r.seq >= n
      PROVE  r \in ReadFrom(n)
  <2>1. PICK f \in DOMAIN files : r \in ToSet(files[f])
    BY DEF Records
  <2>2. PICK k \in DOMAIN files[f] : r = files[f][k]
    BY <2>1 DEF ToSet
  <2>3. NoneAfter(files, current.file) /\ StartsAt(files, current)
    BY <1>3 DEF LogInv, Ordered
  <2>4. /\ f \in Nat /\ r.seq \in Nat /\ current.start \in Nat /\ current.next \in Nat /\ current.file \in Nat
        /\ current.start <= n /\ n \in Nat
    BY <1>3, <2>2, LogTypedFacts, RecordPlaces DEF LogInv
  <2>5. f >= current.file
    BY <1>3, <2>2, <2>3, <2>4 DEF StartsAt
  <2>6. f = current.file
    <3>1. files[f] # <<>>
      BY <2>2
    <3> QED
      BY <2>3, <2>4, <2>5, <3>1 DEF NoneAfter
  <2>7. r \in ReadSegment(current.file, n)
    BY <1>3, <2>1, <2>6 DEF ReadSegment
  <2> QED
    BY <2>4, <2>7 DEF ReadFrom
<1>4. RunningLogFindsAll
  BY <1>2, <1>3 DEF RunningLogFindsAll
<1> QED
  BY <1>1, <1>4 DEF LogSafety

\* Through crashes, torn pointer files, failed saves, rebuilds and rotations of
\* event-log.ts the records, the pointers and the index keep their types.
THEOREM LogTypes == LogSpec => []LogTypeOK
BY LogInvAlways, PTL DEF LogInv, LogTyped

\* However many segments, crashes and failed saves: sequence numbers increase
\* along the segments, a running log finds every event whose append returned,
\* and a reader that has reached the current segment misses nothing (the last
\* needs that no crash left pointers that agree and lag).
THEOREM LogIsSafe == LogSpec => []LogSafety
BY LogInvAlways, LogInvSafe, PTL

\* An append keeps its event when the segment is renamed into place and returns it
\* when the index is saved; no other step of event-log.ts, no crash and no failed
\* save adds a kept event, takes one out or returns one that is not kept.
THEOREM LogIsDurable == LogSpec => ImplementsDurableLog
<1>1. LogInit => Durable!Init
  BY DEF LogInit, Durable!Init, Stored
<1>2. LogInv /\ [LogNext]_logVars => [Durable!Next]_<<Stored, logged>>
  <2> SUFFICES ASSUME LogInv, [LogNext]_logVars PROVE [Durable!Next]_<<Stored, logged>>
    OBVIOUS
  <2> USE DEF diskVars, segmentVars
  <2>1. Stored = Ids(files) /\ Stored' = Ids(files')
    BY StoredIsIds DEF Stored, Ids
  <2>2. CASE RenameSegment
    <3> DEFINE r == [id |-> writing, seq |-> current.next]
    <3>1. Extended(files, files', current.file, r) /\ writing \in Events \ Ids(files)
      BY <2>2, RenameSegmentFiles DEF LogInv
    <3>2. r.id = writing
      OBVIOUS
    <3> HIDE DEF r
    <3>3. Ids(files') = Ids(files) \cup {writing} /\ logged' = logged
      BY <2>2, <3>1, <3>2, ExtendedKeeps DEF RenameSegment
    <3>4. Durable!Keep(writing)
      BY <2>1, <3>1, <3>3 DEF Durable!Keep
    <3> QED
      BY <3>1, <3>4 DEF Durable!Next
  <2>3. CASE SaveIndex
    <3>1. writing \in Events /\ writing \in Ids(files) \ logged
      BY <2>3 DEF SaveIndex, LogInv, WritingKnown
    <3>2. files' = files /\ logged' = logged \cup {writing}
      BY <2>3 DEF SaveIndex
    <3>3. Durable!Return(writing)
      BY <2>1, <3>1, <3>2 DEF Durable!Return
    <3> QED
      BY <3>1, <3>3 DEF Durable!Next
  <2>4. CASE ~RenameSegment /\ ~SaveIndex
    <3>1. logged' = logged
      BY <2>4, HoldingStep DEF LogInv
    <3>2. CASE StartLog
      BY <2>1, <3>1, <3>2, StartLogFiles, GrownKeeps DEF LogInv
    <3>3. CASE CreateSegment \/ FailCreate
      BY <2>1, <3>1, <3>3, NewSegmentFiles, GrownKeeps DEF LogInv, CreateSegment, FailCreate
    <3>4. CASE ~StartLog /\ ~CreateSegment /\ ~FailCreate
      <4>1. files' = files
        BY <2>4, <3>4 DEF LogNext, logVars, SaveFreshCurrent, SaveRebuiltIndex, SaveRebuiltCurrent,
           AppendEvent, AppendRotating, SaveRotatedIndex, SaveNewCurrent, SaveCurrent, CrashLog, FailSave
      <4> QED
        BY <2>1, <3>1, <4>1
    <3> QED
      BY <3>2, <3>3, <3>4
  <2> QED
    BY <2>2, <2>3, <2>4
<1> QED
  BY <1>1, <1>2, LogInvAlways, PTL DEF LogSpec, ImplementsDurableLog, Durable!Spec

--------------------------------------------------------------------------------
(* The parts side by side *)

LEMMA FilesParts == FilesSpec => PidSpec /\ LogSpec /\ SessionSpec
<1>1. FilesInit => PidInit /\ LogInit /\ SessionInit
  BY DEF FilesInit
<1>2. [MCPid \/ MCLog \/ MCSession]_filesVars => [PidNext]_pidVars /\ [LogNext]_logVars /\ [SessionNext]_sessionVars
  BY DEF MCPid, MCLog, MCSession, filesVars
<1> QED
  BY <1>1, <1>2, PTL DEF FilesSpec, PidSpec, LogSpec, SessionSpec

\* The three parts share no state: what is on disk and in each process keeps its
\* type whichever of them moves.
THEOREM FilesTypes == FilesSpec => []FilesTypeOK
<1>1. PidTypeOK /\ LogTypeOK /\ SessionTypeOK => FilesTypeOK
  BY DEF FilesTypeOK
<1> QED
  BY <1>1, FilesParts, PidTypes, LogTypes, SessionTypes, PTL

================================================================================
