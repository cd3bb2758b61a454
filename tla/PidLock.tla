------------------------------- MODULE PidLock ---------------------------------
(***************************************************************************)
(* daemon.pid and the lock that guards it (src/pid.ts), as the start, stop *)
(* and clear commands and the daemon's own shutdown use them.  Every step  *)
(* is one system call of one process on one file, so the processes         *)
(* interleave between the read and the unlink that follows it.             *)
(*                                                                         *)
(* A process may be killed at any step; its PID may then name a later one. *)
(* A lock or guard file is created by link(2) with its PID inside.         *)
(***************************************************************************)
EXTENDS Naturals, FiniteSets

CONSTANTS Pids,              \* the PIDs the commands run under
          NoPid,             \* no file, or no PID remembered
          MaxLives,          \* bound: processes launched
          MaxGuardCrashes    \* bound: processes killed while they hold the guard

ASSUME PidAssumption ==
  /\ NoPid \notin Pids
  /\ MaxLives \in Nat
  /\ MaxGuardCrashes \in Nat

VARIABLES pidFile,       \* the PID daemon.pid holds
          lockFile,      \* the PID daemon.lock holds
          guardFile,     \* the PID daemon.lock.steal holds
          guardOld,      \* the guard is older than the 5 s olderThan allows
          at,            \* the next step of the process, "dead" without one
          goal,          \* what the process takes the lock for
          seen,          \* the holder it judged stale (staleHolder, guardHolder)
          target,        \* the PID whose file it would remove (expectedPid)
          lives,         \* history: processes launched
          guardCrashes   \* history: processes killed inside the guard

procVars == <<at, goal, seen, target, lives, guardCrashes>>
guardVars == <<guardFile, guardOld>>
pidVars == <<pidFile, lockFile, guardFile, guardOld, procVars>>

Goals == {"start", "replace", "check", "stop", "finalize", "quit"}

InGuard == {"recheck", "removeLock", "dropGuard"}

\* The steps a process takes between acquirePidLock and releasePidLock.
InLock == {"check", "compare", "removePid", "awaitLocked", "compareReplaced", "write",
           "release", "removeOwn"}

\* The daemon owns the bus socket and the agents until its turns are drained.
Daemon == {"daemon", "draining"}

PidSteps == InGuard \cup InLock \cup Daemon \cup
         {"dead", "await", "link", "retry", "judge", "guard", "judgeGuard", "recheckGuard",
          "removeGuard"}

Alive(p) == p \in Pids /\ at[p] # "dead"

PidInit ==
  /\ pidFile = NoPid /\ lockFile = NoPid /\ guardFile = NoPid
  /\ guardOld = FALSE
  /\ at = [p \in Pids |-> "dead"]
  /\ goal = [p \in Pids |-> "quit"]
  /\ seen = [p \in Pids |-> NoPid]
  /\ target = [p \in Pids |-> NoPid]
  /\ lives = 0 /\ guardCrashes = 0

--------------------------------------------------------------------------------
GoTo(p, step) == at' = [at EXCEPT ![p] = step]

\* The process is gone, and with it what it remembered.
Exits(p) ==
  /\ GoTo(p, "dead")
  /\ goal' = [goal EXCEPT ![p] = "quit"]
  /\ seen' = [seen EXCEPT ![p] = NoPid]
  /\ target' = [target EXCEPT ![p] = NoPid]

\* The attempt is over: tryCreateLock returns, its locals are gone.
Retries(p) == GoTo(p, "retry") /\ seen' = [seen EXCEPT ![p] = NoPid]

\* A new process under a PID nobody remembers: stop reads daemon.pid first, waits
\* for a live daemon it names and then cleans up; the others take the lock.
Launch(p, g) ==
  /\ ~Alive(p) /\ lives < MaxLives
  /\ \A q \in Pids : Alive(q) => seen[q] # p /\ target[q] # p
  /\ g = "stop" => pidFile # NoPid
  /\ GoTo(p, IF g = "stop" /\ Alive(pidFile) /\ goal[pidFile] # "stop" THEN "await" ELSE "link")
  /\ goal' = [goal EXCEPT ![p] = g]
  /\ target' = [target EXCEPT ![p] = IF g = "stop" THEN pidFile ELSE NoPid]
  /\ seen' = [seen EXCEPT ![p] = NoPid]
  /\ lives' = lives + 1
  /\ UNCHANGED <<pidFile, lockFile, guardVars, guardCrashes>>

\* stop saw the daemon exit (waitForPidExit) and goes to remove its file.
Awaited(p) ==
  /\ at[p] = "await" /\ ~Alive(target[p])
  /\ GoTo(p, "link")
  /\ UNCHANGED <<pidFile, lockFile, guardVars, goal, seen, target, lives, guardCrashes>>

\* tryLink(lockPath): the link succeeds or the lock is busy.
LinkLock(p) ==
  /\ at[p] \in {"link", "retry"}
  /\ IF lockFile = NoPid
       THEN /\ lockFile' = p
            /\ GoTo(p, IF goal[p] \in {"stop", "finalize"} THEN "compare" ELSE "check")
       ELSE /\ GoTo(p, "judge")
            /\ UNCHANGED lockFile
  /\ UNCHANGED <<pidFile, guardVars, goal, seen, target, lives, guardCrashes>>

\* tryCreateLock, after readLockHolder(lockPath): a live holder, or a lock gone
\* meanwhile, is waited for; our own PID is a dead predecessor's.
JudgeLock(p) ==
  /\ at[p] = "judge"
  /\ IF lockFile = NoPid \/ (lockFile # p /\ Alive(lockFile))
       THEN Retries(p)
       ELSE GoTo(p, "guard") /\ seen' = [seen EXCEPT ![p] = lockFile]
  /\ UNCHANGED <<pidFile, lockFile, guardVars, goal, target, lives, guardCrashes>>

\* stealStaleLock, tryLink(guard).
LinkGuard(p) ==
  /\ at[p] = "guard"
  /\ IF guardFile = NoPid
       THEN guardFile' = p /\ guardOld' = FALSE /\ GoTo(p, "recheck")
       ELSE GoTo(p, "judgeGuard") /\ UNCHANGED guardVars
  /\ UNCHANGED <<pidFile, lockFile, goal, seen, target, lives, guardCrashes>>

\* Slip: the holder judged before the guard was taken is trusted.
RecheckLockTrusts(p) ==
  /\ at[p] = "recheck"
  /\ GoTo(p, "removeLock")
  /\ UNCHANGED <<pidFile, lockFile, guardVars, goal, seen, target, lives, guardCrashes>>

\* Inside the guard: the holder is read again, a stale lock is removed.
RecheckLock(p) ==
  /\ at[p] = "recheck"
  /\ GoTo(p, IF lockFile = seen[p] THEN "removeLock" ELSE "dropGuard")
  /\ UNCHANGED <<pidFile, lockFile, guardVars, goal, seen, target, lives, guardCrashes>>

RemoveLock(p) ==
  /\ at[p] = "removeLock"
  /\ lockFile' = NoPid
  /\ GoTo(p, "dropGuard")
  /\ UNCHANGED <<pidFile, guardVars, goal, seen, target, lives, guardCrashes>>

DropGuard(p) ==
  /\ at[p] = "dropGuard"
  /\ guardFile' = NoPid
  /\ Retries(p)
  /\ UNCHANGED <<pidFile, lockFile, guardOld, goal, target, lives, guardCrashes>>

\* Slip: a guard in the way is always left alone.
JudgeGuardLeaves(p) ==
  /\ at[p] = "judgeGuard"
  /\ Retries(p)
  /\ UNCHANGED <<pidFile, lockFile, guardVars, goal, target, lives, guardCrashes>>

\* stealStaleLock with a busy guard: a live, fresh one is left alone.
JudgeGuard(p) ==
  /\ at[p] = "judgeGuard"
  /\ IF guardFile = NoPid \/ (Alive(guardFile) /\ ~guardOld)
       THEN Retries(p)
       ELSE GoTo(p, "recheckGuard") /\ seen' = [seen EXCEPT ![p] = guardFile]
  /\ UNCHANGED <<pidFile, lockFile, guardVars, goal, target, lives, guardCrashes>>

RecheckGuard(p) ==
  /\ at[p] = "recheckGuard"
  /\ IF guardFile = seen[p] THEN GoTo(p, "removeGuard") /\ UNCHANGED seen ELSE Retries(p)
  /\ UNCHANGED <<pidFile, lockFile, guardVars, goal, target, lives, guardCrashes>>

RemoveGuard(p) ==
  /\ at[p] = "removeGuard"
  /\ guardFile' = NoPid
  /\ Retries(p)
  /\ UNCHANGED <<pidFile, lockFile, guardOld, goal, target, lives, guardCrashes>>

\* acquirePidLock past its deadline: the command exits, the daemon's shutdown
\* leaves the file as it is.
GiveUp(p) ==
  /\ at[p] = "retry"
  /\ Exits(p)
  /\ UNCHANGED <<pidFile, lockFile, guardVars, lives, guardCrashes>>

--------------------------------------------------------------------------------
\* Where a command goes once no daemon is named by daemon.pid any more.
Cleared(p) == IF goal[p] \in {"start", "replace"} THEN "write" ELSE "release"

\* checkExistingDaemon reads daemon.pid; start refuses a running daemon or, with
\* --replace-existing, waits for it to exit.
CheckPidFile(p) ==
  /\ at[p] = "check"
  /\ target' = [target EXCEPT ![p] = pidFile]
  /\ \/ /\ pidFile = NoPid
        /\ GoTo(p, Cleared(p))
        /\ UNCHANGED goal
     \/ /\ pidFile \notin {NoPid, p} /\ Alive(pidFile)
        /\ GoTo(p, IF goal[p] = "replace" THEN "awaitLocked" ELSE "release")
        /\ goal' = IF goal[p] = "replace" THEN goal ELSE [goal EXCEPT ![p] = "quit"]
     \/ /\ pidFile # NoPid /\ (pidFile = p \/ ~Alive(pidFile))
        /\ GoTo(p, "compare")
        /\ UNCHANGED goal
  /\ UNCHANGED <<pidFile, lockFile, guardVars, seen, lives, guardCrashes>>

\* The replaced daemon has exited; its file is removed if it still names it.
ReplacedExited(p) ==
  /\ at[p] = "awaitLocked" /\ ~Alive(target[p])
  /\ GoTo(p, "compareReplaced")
  /\ UNCHANGED <<pidFile, lockFile, guardVars, goal, seen, target, lives, guardCrashes>>

\* Slip: the file is unlinked without being read again.
ComparePidNever(p) ==
  /\ at[p] \in {"compare", "compareReplaced"}
  /\ GoTo(p, "removePid")
  /\ UNCHANGED <<pidFile, lockFile, guardVars, goal, seen, target, lives, guardCrashes>>

\* compareAndUnlink reads the file again; a foreign one is judged again by
\* checkExistingDaemon and left in place by the others.
ComparePid(p) ==
  /\ at[p] \in {"compare", "compareReplaced"}
  /\ GoTo(p, IF pidFile = NoPid THEN Cleared(p)
             ELSE IF pidFile = target[p] THEN "removePid"
             ELSE IF at[p] = "compare" /\ goal[p] \in {"start", "replace", "check"} THEN "check"
             ELSE Cleared(p))
  /\ UNCHANGED <<pidFile, lockFile, guardVars, goal, seen, target, lives, guardCrashes>>

\* checkExistingDaemon stops after three foreign files: the daemon's state is
\* unknown and the command aborts.  Which attempt is the third is left open.
StopJudging(p) ==
  /\ at[p] = "compare" /\ goal[p] \in {"start", "replace", "check"}
  /\ pidFile \notin {NoPid, target[p]}
  /\ GoTo(p, "release")
  /\ goal' = [goal EXCEPT ![p] = "quit"]
  /\ UNCHANGED <<pidFile, lockFile, guardVars, seen, target, lives, guardCrashes>>

RemovePid(p) ==
  /\ at[p] = "removePid"
  /\ pidFile' = NoPid
  /\ GoTo(p, Cleared(p))
  /\ UNCHANGED <<lockFile, guardVars, goal, seen, target, lives, guardCrashes>>

WritePidFile(p) ==
  /\ at[p] = "write"
  /\ pidFile' = p
  /\ GoTo(p, "release")
  /\ UNCHANGED <<lockFile, guardVars, goal, seen, target, lives, guardCrashes>>

\* start becomes the daemon, the other commands and the drained daemon exit.
Released(p) ==
  IF goal[p] \in {"start", "replace"}
    THEN /\ GoTo(p, "daemon")
         /\ target' = [target EXCEPT ![p] = NoPid]
         /\ UNCHANGED <<goal, seen>>
    ELSE Exits(p)

\* releasePidLock, also from the exit hook: removeOwnLock reads the holder.
ReleaseLock(p) ==
  /\ at[p] = "release"
  /\ IF lockFile = p THEN GoTo(p, "removeOwn") /\ UNCHANGED <<goal, seen, target>>
                     ELSE Released(p)
  /\ UNCHANGED <<pidFile, lockFile, guardVars, lives, guardCrashes>>

RemoveOwnLock(p) ==
  /\ at[p] = "removeOwn"
  /\ lockFile' = NoPid
  /\ Released(p)
  /\ UNCHANGED <<pidFile, guardVars, lives, guardCrashes>>

--------------------------------------------------------------------------------
\* SIGTERM from stop, from a replacement or from the service manager.
Terminate(p) ==
  /\ at[p] = "daemon"
  /\ GoTo(p, "draining")
  /\ UNCHANGED <<pidFile, lockFile, guardVars, goal, seen, target, lives, guardCrashes>>

\* The last step of the shutdown removes the daemon's own file.
Finalize(p) ==
  /\ at[p] = "draining"
  /\ GoTo(p, "link")
  /\ goal' = [goal EXCEPT ![p] = "finalize"]
  /\ target' = [target EXCEPT ![p] = p]
  /\ UNCHANGED <<pidFile, lockFile, guardVars, seen, lives, guardCrashes>>

\* The process is killed, between any two system calls.
Crash(p) ==
  /\ Alive(p)
  /\ at[p] \in InGuard => guardCrashes < MaxGuardCrashes
  /\ Exits(p)
  /\ guardCrashes' = IF at[p] \in InGuard THEN guardCrashes + 1 ELSE guardCrashes
  /\ UNCHANGED <<pidFile, lockFile, guardVars, lives>>

\* A guard is held for two system calls: only one left behind grows old.
GuardAges ==
  /\ guardFile # NoPid /\ ~guardOld
  /\ at[guardFile] \notin InGuard
  /\ guardOld' = TRUE
  /\ UNCHANGED <<pidFile, lockFile, guardFile, procVars>>

\* The system calls of a process that runs.
Steals(p) == JudgeLock(p) \/ LinkGuard(p) \/ RecheckLock(p) \/ RemoveLock(p) \/ DropGuard(p)
             \/ JudgeGuard(p) \/ RecheckGuard(p) \/ RemoveGuard(p)
Holds(p) == CheckPidFile(p) \/ ReplacedExited(p) \/ ComparePid(p) \/ StopJudging(p)
            \/ RemovePid(p) \/ WritePidFile(p) \/ ReleaseLock(p) \/ RemoveOwnLock(p)
Runs(p) == Awaited(p) \/ LinkLock(p) \/ Steals(p) \/ Holds(p)

PidNext ==
  \/ \E p \in Pids : \/ \E g \in {"start", "replace", "check", "stop"} : Launch(p, g)
                     \/ Runs(p) \/ GiveUp(p) \/ Terminate(p) \/ Finalize(p) \/ Crash(p)
  \/ GuardAges

PidSpec == PidInit /\ [][PidNext]_pidVars

\* A process that is not killed runs on, and time passes.
FairPid == WF_pidVars(GuardAges) /\ \A p \in Pids : WF_pidVars(Runs(p))

FairPidSpec == PidSpec /\ FairPid

--------------------------------------------------------------------------------
PidTypeOK ==
  /\ pidFile \in Pids \cup {NoPid} /\ lockFile \in Pids \cup {NoPid}
  /\ guardFile \in Pids \cup {NoPid} /\ guardOld \in BOOLEAN
  /\ at \in [Pids -> PidSteps]
  /\ goal \in [Pids -> Goals]
  /\ seen \in [Pids -> Pids \cup {NoPid}]
  /\ target \in [Pids -> Pids \cup {NoPid}]
  /\ lives \in Nat /\ guardCrashes \in Nat

\* One command at a time is between acquirePidLock and releasePidLock, although
\* a stale lock is removed by whoever finds it: pid.ts says of stealStaleLock that
\* "a fresh lock (live holder) is never removed".  A process that dies inside the
\* guard is the exception: two that then find the guard stale may both enter it.
LockIsExclusive ==
  guardCrashes = 0 => \A p, q \in Pids : at[p] \in InLock /\ at[q] \in InLock => p = q

\* Starts, replacements and stops that race never leave two daemons on one bus
\* socket, and the one that runs is the one daemon.pid names: no cleanup removed
\* or overwrote the file of a live daemon.  The same exception.
OneNamedDaemon ==
  guardCrashes = 0 =>
    \A p \in Pids : at[p] \in Daemon =>
      /\ pidFile = p
      /\ \A q \in Pids : at[q] \in Daemon => q = p

StaleLock == lockFile # NoPid /\ ~Alive(lockFile)

\* A lock whose holder is gone does not outlive a command that waits for it,
\* also when an earlier remover died and left its guard behind.
StaleLockIsCleared == \A p \in Pids : (StaleLock /\ at[p] = "judge") ~> (~StaleLock \/ ~Alive(p))
================================================================================
