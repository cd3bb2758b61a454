---------------------------- MODULE SessionManager -----------------------------
(***************************************************************************)
(* The life of one agent's claude (src/bus/session-manager.ts) and the     *)
(* record that proves it ours (src/bus/session-ownership.ts), for an agent *)
(* under a PTY on a POSIX system.  claude takes no lock on its session: it *)
(* is the daemon that must never let two of them write one transcript, by  *)
(* what it holds in memory (fences, quarantine) and, across its own death, *)
(* by the stored session id and the ownership record.                      *)
(*                                                                         *)
(* Spawns, restarts and clears of an agent run one after another; exits of *)
(* claudes, retirements, stops and the daemon's death interleave with      *)
(* their awaits.  External: the processes.  An exit event proves nothing:  *)
(* a killed claude may live on.                                            *)
(***************************************************************************)
EXTENDS Naturals, FiniteSets

CONSTANTS MaxForks,   \* bound: claudes forked
          MaxBoots,   \* bound: starts of the daemon
          MaxFaults   \* bound: failed writes and reads, kills that do not end a process

ASSUME SessionAssumption == {MaxForks, MaxBoots, MaxFaults} \subseteq Nat

NoProc == 0

\* The claudes in the order they are forked.
Procs == 1 .. MaxForks

VARIABLES stored,      \* the session id in session.json
          owner,       \* the claude the ownership record names
          minted,      \* the session ids minted so far
          forked,      \* the claudes forked so far
          sessOf,      \* the session of a claude
          bootOf,      \* the start of the daemon that forked it
          alive,       \* external: the claudes the OS runs
          boot,        \* the present start of the daemon
          session,     \* agent.session_id
          agent,       \* the claude in the registry (agents)
          exited,      \* the claudes whose exit event came
          quitting,    \* the claudes stop() waits for
          retired,     \* what retireOnOsWord's run for a claude has come to
          quarantined, \* the claudes in quarantine records
          leaving,     \* the claudes whose record confirmGoneAndClear is to clear
          op,          \* the lifecycle operation under way
          faults,      \* history: how many there were
          recorded     \* history: the claudes whose record was once written

worldVars == <<sessOf, bootOf, alive>>
recordVars == <<stored, owner, minted>>
lifeVars == <<exited, quitting, retired, quarantined, leaving>>
historyVars == <<boot, recorded>>
sessionVars == <<worldVars, recordVars, lifeVars, historyVars, forked, session, agent, op, faults>>

OpSteps == {"idle", "guard", "examine", "rotate", "gate", "identify", "write", "collide",
            "mint", "stop", "stopped", "retire", "confirm", "persist"}

\* Outside any operation.  known: the identity of proc was read.
NoOp == [kind |-> "none", at |-> "idle", proc |-> NoProc, rec |-> NoProc, fresh |-> 0,
         retried |-> FALSE, known |-> TRUE]

ToSpawn == [NoOp EXCEPT !.kind = "spawn", !.at = "guard"]

SessionInit ==
  /\ stored = 1 /\ session = 1 /\ minted = 1
  /\ owner = NoProc /\ agent = NoProc
  /\ forked = 0
  /\ sessOf = [p \in Procs |-> 0] /\ bootOf = [p \in Procs |-> 0]
  /\ alive = {} /\ exited = {} /\ quitting = {} /\ quarantined = {} /\ leaving = {}
  /\ retired = [p \in Procs |-> "no"]
  /\ op = NoOp
  /\ boot = 1 /\ faults = 0 /\ recorded = {}

--------------------------------------------------------------------------------
\* A read, write or kill fails.
Fault == faults < MaxFaults /\ faults' = faults + 1

At(step) == op.at = step
GoOn(step) == op' = [op EXCEPT !.at = step, !.rec = NoProc]
OpEnds == op' = NoOp

\* store.clear: only while the record still names p.
ClearRecord(p) == IF owner = p THEN NoProc ELSE owner

Unregister(p) == agent' = IF agent = p THEN NoProc ELSE agent

\* A fresh id is minted and persisted.
Persist == stored' = minted + 1 /\ minted' = minted + 1

\* Slip: stop does not ask whether a claude is registered.
QuitAnyway == quitting' = quitting \cup {agent}

\* stop: the session is fenced and claude asked to quit, if one is registered.
Quit == quitting' = IF agent = NoProc THEN quitting ELSE quitting \cup {agent}

\* The claudes whose session is fenced: from stop() or their exit until the
\* retirement has the OS's word.
Fenced == quitting \cup {p \in Procs : retired[p] = "running"}

OfSession(P) == {p \in P : sessOf[p] = session}

--------------------------------------------------------------------------------
\* spawnAgent, restart (with a fresh id, or the same one) and clearSession reach
\* the head of the agent's queue; the last two need a claude.
BeginOp(kind) ==
  /\ At("idle") /\ forked < MaxForks
  /\ kind # "spawn" => agent # NoProc
  /\ op' = CASE kind = "spawn"   -> ToSpawn
             [] kind = "restart" -> [NoOp EXCEPT !.kind = kind, !.at = "mint"]
             [] OTHER            -> [NoOp EXCEPT !.kind = kind, !.at = "retire", !.proc = agent]
  /\ UNCHANGED <<worldVars, recordVars, lifeVars, historyVars, forked, session, agent, faults>>

\* restart persists the fresh id while the old claude still runs.
Mint ==
  /\ At("mint")
  /\ \/ Persist /\ op' = [op EXCEPT !.at = "stop", !.fresh = minted + 1] /\ UNCHANGED faults
     \/ Fault /\ OpEnds /\ UNCHANGED <<stored, minted>>
  /\ UNCHANGED <<worldVars, owner, lifeVars, historyVars, forked, session, agent>>

StopOld ==
  /\ At("stop")
  /\ Quit
  /\ op' = [op EXCEPT !.at = "stopped", !.proc = agent]
  /\ UNCHANGED <<worldVars, recordVars, exited, retired, quarantined, leaving, historyVars, forked,
                 session, agent, faults>>

\* Slip: the new claude is started with the session restart found in memory.
AdoptNothing ==
  /\ At("stopped") /\ op.proc \notin quitting
  /\ op' = ToSpawn
  /\ UNCHANGED <<worldVars, recordVars, lifeVars, historyVars, forked, session, agent, faults>>

AdoptFresh ==
  /\ At("stopped") /\ op.proc \notin quitting
  /\ session' = op.fresh
  /\ op' = ToSpawn
  /\ UNCHANGED <<worldVars, recordVars, lifeVars, historyVars, forked, agent, faults>>

--------------------------------------------------------------------------------
\* retireLive: stop, then the OS's word.
Retire ==
  /\ At("retire")
  /\ Quit
  /\ GoOn("confirm")
  /\ UNCHANGED <<worldVars, recordVars, exited, retired, quarantined, leaving, historyVars, forked,
                 session, agent, faults>>

\* The group's retirement counts; then the recorded claude is killed and its record
\* cleared.  Without a record only a pid that is gone will do.
ConfirmRetired ==
  LET p == op.proc
      condemned == \E q \in quarantined : sessOf[q] = sessOf[p]
  IN  /\ At("confirm") /\ p \notin Fenced
      /\ \/ /\ ~condemned /\ (op.known \/ p \notin alive)
            /\ alive' = alive \ {p}
            /\ owner' = IF op.known THEN ClearRecord(p) ELSE owner
            /\ Unregister(p)
            /\ op' = CASE op.kind = "clear" -> [op EXCEPT !.at = "persist"]
                       [] op.kind = "keep"  -> ToSpawn
                       [] op.kind = "spawn" -> NoOp
            /\ UNCHANGED <<quarantined, faults>>
         \/ /\ IF condemned \/ (~op.known /\ p \in alive) THEN UNCHANGED faults ELSE Fault
            /\ quarantined' = quarantined \cup {p}
            /\ OpEnds
            /\ UNCHANGED <<alive, owner, agent>>
  /\ UNCHANGED <<sessOf, bootOf, stored, minted, exited, quitting, retired, leaving, historyVars,
                 forked, session>>

\* clearSession: the fresh id is stored, or the old session is started again.
PersistCleared ==
  /\ At("persist")
  /\ \/ Persist /\ session' = minted + 1 /\ UNCHANGED faults
     \/ Fault /\ UNCHANGED <<stored, minted, session>>
  /\ op' = ToSpawn
  /\ UNCHANGED <<worldVars, owner, lifeVars, historyVars, forked, agent>>

--------------------------------------------------------------------------------
\* spawnAgentInternal: refused beside a registered claude; decideResume reads the
\* record, and one it cannot read makes it rotate.
ReadRecord ==
  /\ At("guard")
  /\ \/ agent # NoProc /\ OpEnds /\ UNCHANGED faults
     \/ agent = NoProc /\ op' = [op EXCEPT !.at = "examine", !.rec = owner] /\ UNCHANGED faults
     \/ agent = NoProc /\ Fault /\ GoOn("rotate")
  /\ UNCHANGED <<worldVars, recordVars, lifeVars, historyVars, forked, session, agent>>

\* Slip: what an earlier start of the daemon left is taken for dead.
UnconcernedOlder(r) == r \in Procs => sessOf[r] # session \/ bootOf[r] # boot

Unconcerned(r) == r \in Procs => sessOf[r] # session /\ bootOf[r] = boot

\* The claude the record names: not the spawn's concern, gone, one of this start,
\* or an orphan that is ended.
Examine ==
  LET r == op.rec
  IN  /\ At("examine")
      /\ \/ Unconcerned(r) /\ GoOn("gate") /\ UNCHANGED <<alive, owner, faults>>
         \/ /\ ~Unconcerned(r)
            /\ r \in alive => bootOf[r] # boot
            /\ alive' = alive \ {r}
            /\ GoOn("gate")
            /\ \/ owner' = ClearRecord(r) /\ UNCHANGED faults
               \/ Fault /\ UNCHANGED owner
         \/ /\ r \in alive /\ ~Unconcerned(r) /\ bootOf[r] = boot
            /\ GoOn("rotate")
            /\ UNCHANGED <<alive, owner, faults>>
  /\ UNCHANGED <<sessOf, bootOf, stored, minted, lifeVars, historyVars, forked, session, agent>>

\* It cannot be proved ours or gone: rotate, or refuse beside another session's.
Unproved ==
  /\ At("examine") /\ ~Unconcerned(op.rec)
  /\ Fault
  /\ IF sessOf[op.rec] = session THEN GoOn("rotate") ELSE OpEnds
  /\ UNCHANGED <<worldVars, recordVars, lifeVars, historyVars, forked, session, agent>>

RotateStored ==
  /\ At("rotate")
  /\ \/ Persist /\ session' = minted + 1 /\ GoOn("gate") /\ UNCHANGED faults
     \/ Fault /\ OpEnds /\ UNCHANGED <<stored, minted, session>>
  /\ UNCHANGED <<worldVars, owner, lifeVars, historyVars, forked, agent>>

\* Before the fork: a retirement of the agent is awaited, a quarantine of the session
\* is tried again, and a fence or a quarantine refuses.
Refused ==
  /\ At("gate") /\ {p \in Procs : retired[p] = "running"} = {}
  /\ IF OfSession(Fenced) # {} THEN UNCHANGED faults ELSE OfSession(quarantined) # {} /\ Fault
  /\ OpEnds
  /\ UNCHANGED <<worldVars, recordVars, lifeVars, historyVars, forked, session, agent>>

\* The claude is forked, numbered and registered in one step.
Fork ==
  LET p == forked + 1
  IN  /\ At("gate") /\ {q \in Procs : retired[q] = "running"} = {}
      /\ OfSession(Fenced) = {}
      /\ p \in Procs
      /\ forked' = p
      /\ sessOf' = [sessOf EXCEPT ![p] = session]
      /\ bootOf' = [bootOf EXCEPT ![p] = boot]
      /\ alive' = (alive \ OfSession(quarantined)) \cup {p}
      /\ quarantined' = quarantined \ OfSession(quarantined)
      /\ agent' = p
      /\ op' = [op EXCEPT !.at = "identify", !.proc = p]
  /\ UNCHANGED <<recordVars, exited, quitting, retired, leaving, historyVars, session, faults>>

\* recordOwnership: a claude already gone needs no record; one that cannot be
\* recorded is retired and the spawn fails.
Identify ==
  /\ At("identify")
  /\ \/ GoOn(IF op.proc \in alive THEN "write" ELSE "collide") /\ UNCHANGED faults
     \/ Fault /\ op' = [op EXCEPT !.at = "retire", !.known = FALSE]
  /\ UNCHANGED <<worldVars, recordVars, lifeVars, historyVars, forked, session, agent>>

\* The record of another live claude of the session is never overwritten.
LiveOwner == owner \in alive \ {op.proc} /\ sessOf[owner] = sessOf[op.proc]

WriteRecord ==
  /\ At("write")
  /\ \/ /\ ~LiveOwner
        /\ owner' = op.proc /\ recorded' = recorded \cup {op.proc}
        /\ GoOn("collide")
        /\ UNCHANGED faults
     \/ /\ GoOn("retire")
        /\ IF LiveOwner THEN UNCHANGED faults ELSE Fault
        /\ UNCHANGED <<owner, recorded>>
  /\ UNCHANGED <<worldVars, stored, minted, lifeVars, boot, forked, session, agent>>

\* The collision window ends: the claude is handed back, or it exited over its
\* session id and the spawn is tried once more with a fresh one.
SpawnEnds ==
  /\ At("collide")
  /\ OpEnds
  /\ UNCHANGED <<worldVars, recordVars, lifeVars, historyVars, forked, session, agent, faults>>

Collided ==
  /\ At("collide") /\ op.proc \in exited
  /\ Unregister(op.proc)
  /\ \/ /\ ~op.retried /\ forked < MaxForks
        /\ Persist /\ session' = minted + 1
        /\ op' = [ToSpawn EXCEPT !.retried = TRUE]
        /\ UNCHANGED faults
     \/ /\ ~op.retried
        /\ Fault /\ OpEnds
        /\ UNCHANGED <<stored, minted, session>>
     \/ /\ op.retried
        /\ OpEnds
        /\ UNCHANGED <<stored, minted, session, faults>>
  /\ UNCHANGED <<worldVars, owner, lifeVars, historyVars, forked>>

--------------------------------------------------------------------------------
\* stop from outside the queue: the daemon's shutdown, a rolled-back batch.
StopAgent ==
  /\ agent # NoProc /\ agent \notin quitting
  /\ Quit
  /\ UNCHANGED <<worldVars, recordVars, exited, retired, quarantined, leaving, historyVars, forked,
                 session, agent, op, faults>>

\* retireOnOsWord, once for each claude.
BeginRetirement(p) == retired' = [retired EXCEPT ![p] = IF @ = "no" THEN "running" ELSE @]

\* The exit event: the registered claude leaves the registry, its session stays
\* fenced and its record is cleared on the OS's word.
ExitEvent(p) ==
  /\ exited' = exited \cup {p}
  /\ BeginRetirement(p)
  /\ leaving' = IF agent = p THEN leaving \cup {p} ELSE leaving
  /\ Unregister(p)

ThisBoot(p) == bootOf[p] = boot

SeeExit(p) ==
  /\ ThisBoot(p) /\ p \notin exited \cup alive
  /\ ExitEvent(p)
  /\ UNCHANGED <<worldVars, recordVars, quitting, quarantined, historyVars, forked, session, op, faults>>

\* The grace after /quit is over: the native kill fires the exit event whether or not
\* the claude died, or is not authorised and the retirement begins without one.
KillTimer(p) ==
  /\ p \in quitting \ exited
  /\ \/ ExitEvent(p)
     \/ /\ retired[p] = "no" /\ BeginRetirement(p)
        /\ UNCHANGED <<exited, leaving, agent>>
  /\ UNCHANGED <<worldVars, recordVars, quitting, quarantined, historyVars, forked, session, op, faults>>

\* Slip: stop waits on when the session had to be quarantined.
RetirementSettlesGone(p) ==
  /\ retired[p] = "running"
  /\ retired' = [retired EXCEPT ![p] = "done"]
  /\ \/ /\ alive' = alive \ {p}
        /\ quitting' = quitting \ {p}
        /\ IF p \in quitting THEN Unregister(p) ELSE UNCHANGED agent
        /\ UNCHANGED <<quarantined, faults>>
     \/ /\ Fault
        /\ quarantined' = quarantined \cup {p}
        /\ UNCHANGED <<alive, quitting, agent>>
  /\ UNCHANGED <<sessOf, bootOf, recordVars, exited, leaving, historyVars, forked, session, op>>

\* The retirement signals the claude and the OS confirms it gone, or the session is
\* quarantined; then stop() finalises.
RetirementSettles(p) ==
  /\ retired[p] = "running"
  /\ \/ /\ retired' = [retired EXCEPT ![p] = "done"]
        /\ alive' = alive \ {p}
        /\ UNCHANGED <<quarantined, faults>>
     \/ /\ Fault
        /\ retired' = [retired EXCEPT ![p] = "done"]
        /\ quarantined' = quarantined \cup {p}
        /\ UNCHANGED alive
  /\ quitting' = quitting \ {p}
  /\ IF p \in quitting THEN Unregister(p) ELSE UNCHANGED agent
  /\ UNCHANGED <<sessOf, bootOf, recordVars, exited, leaving, historyVars, forked, session, op>>

\* confirmGoneAndClear, once the record was written: not while the claude lives on.
LeaveRecord(p) ==
  /\ p \in leaving
  /\ ~(op.proc = p /\ op.at \in {"identify", "write"})
  /\ leaving' = leaving \ {p}
  /\ \/ p \notin alive /\ owner' = ClearRecord(p) /\ UNCHANGED faults
     \/ p \in alive /\ UNCHANGED <<owner, faults>>
     \/ p \notin alive /\ Fault /\ UNCHANGED owner
  /\ UNCHANGED <<worldVars, stored, minted, exited, quitting, retired, quarantined, historyVars,
                 forked, session, agent, op>>

--------------------------------------------------------------------------------
\* A claude ends: it quits, crashes or is killed by someone.
Dies(p) ==
  /\ p \in alive
  /\ alive' = alive \ {p}
  /\ UNCHANGED <<sessOf, bootOf, recordVars, lifeVars, historyVars, forked, session, agent, op, faults>>

\* The daemon dies and is started again; the claudes may outlive it.
RestartDaemon ==
  /\ boot < MaxBoots
  /\ boot' = boot + 1
  /\ session' = stored
  /\ agent' = NoProc /\ op' = NoOp
  /\ exited' = {} /\ quitting' = {} /\ quarantined' = {} /\ leaving' = {}
  /\ retired' = [p \in Procs |-> "no"]
  /\ UNCHANGED <<worldVars, recordVars, forked, recorded, faults>>

OpStep ==
  \/ Mint \/ StopOld \/ AdoptFresh \/ Retire \/ ConfirmRetired \/ PersistCleared
  \/ ReadRecord \/ Examine \/ Unproved \/ RotateStored \/ Refused \/ Fork
  \/ Identify \/ WriteRecord \/ SpawnEnds \/ Collided

SessionNext ==
  \/ \E kind \in {"spawn", "restart", "keep", "clear"} : BeginOp(kind)
  \/ OpStep
  \/ StopAgent
  \/ \E p \in Procs : \/ SeeExit(p) \/ KillTimer(p) \/ RetirementSettles(p)
                      \/ LeaveRecord(p) \/ Dies(p)
  \/ RestartDaemon

SessionSpec == SessionInit /\ [][SessionNext]_sessionVars

\* Every await of an operation is bounded, and so are the timers it waits for.
FairSession ==
  /\ WF_sessionVars(OpStep)
  /\ \A p \in Procs : /\ WF_sessionVars(SeeExit(p)) /\ WF_sessionVars(KillTimer(p))
                      /\ WF_sessionVars(RetirementSettles(p))

--------------------------------------------------------------------------------
LifecycleOps ==
  [kind : {"none", "spawn", "restart", "keep", "clear"}, at : OpSteps, proc : Procs \cup {NoProc},
   rec : Procs \cup {NoProc}, fresh : Nat, retried : BOOLEAN, known : BOOLEAN]

SessionTypeOK ==
  /\ stored \in Nat /\ session \in Nat /\ minted \in Nat
  /\ forked \in Nat /\ boot \in Nat /\ faults \in Nat
  /\ owner \in Procs \cup {NoProc} /\ agent \in Procs \cup {NoProc}
  /\ sessOf \in [Procs -> Nat] /\ bootOf \in [Procs -> Nat]
  /\ alive \subseteq Procs /\ exited \subseteq Procs /\ quitting \subseteq Procs
  /\ quarantined \subseteq Procs /\ leaving \subseteq Procs /\ recorded \subseteq Procs
  /\ retired \in [Procs -> {"no", "running", "done"}]
  /\ op \in LifecycleOps

\* No two claudes ever write one session's transcript: whatever dies, cannot be
\* killed or cannot be written, only a claude the daemon died on before it was
\* recorded can meet another.
Accounted == {p \in alive : p \in recorded \/ ThisBoot(p)}

OneWriter == \A p, q \in Accounted : sessOf[p] = sessOf[q] => p = q

\* The claude that prompts reach, unless its spawn is still to fail, is the one the
\* record on disk names: a daemon that dies finds it again.
BeingRecorded == op.kind = "spawn" /\ op.at \in {"identify", "write", "retire", "confirm"}

DeliverableIsRecorded == agent \in alive /\ ~BeingRecorded => owner = agent

\* Between operations the registered claude writes the session that is stored:
\* no restart, rotation or clear that failed halfway left the two apart.
StoredNamesLive == At("idle") /\ agent # NoProc => sessOf[agent] = stored

\* Both: whatever fails halfway, the two files name the claude that is prompted.
DiskNamesLive == DeliverableIsRecorded /\ StoredNamesLive

\* Every spawn, restart and clear comes to an end: none blocks the agent's queue.
EveryOpEnds == (op.at # "idle") ~> (op.at = "idle")
================================================================================
