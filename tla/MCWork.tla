-------------------------------- MODULE MCWork ---------------------------------
(* The daemon's work beside the bus: background jobs, messages to Telegram, and
   the claudes of the legacy runtime.  They share no state, so one moves in each
   behaviour while the others rest. *)
EXTENDS AgentJobs, TelegramOutbox, PtySupervisor

CONSTANTS m1, m2, c1, r1, r2, r3, r4, s1, ka, kb, kc, ke

VARIABLE part

MCChat == [m \in Msgs |-> c1]
MCChunks == [m \in Msgs |-> IF m = m1 THEN 3 ELSE 1]

MCKey == [c \in Reqs \cup Sends |-> IF c = r3 THEN kb ELSE IF c = r4 THEN ke ELSE ka]

Cast(calls, warm, f, d, s) ==
  [calls |-> calls, warm |-> warm, faults |-> f, deaths |-> d, shutdowns |-> s]

\* Two requests and a send on one key; a shutdown; the cap, with a victim on a third key
\* and with one whose key is asked for again; a one-shot.
MCCasts == {Cast({r1, r2, s1}, <<>>, 1, 1, 0), Cast({r1, s1}, <<ka>>, 1, 1, 1),
            Cast({r1, r3}, <<kc>>, 0, 0, 0), Cast({r1, r3}, <<ka>>, 1, 0, 0),
            Cast({r1, r4}, <<>>, 1, 0, 1), Cast({}, <<>>, 0, 0, 0)}

workVars == <<part, jobVars, outboxVars, supVars>>

MCJobs   == part = "jobs"   /\ JobsNext   /\ UNCHANGED <<part, outboxVars, supVars>>
MCOutbox == part = "outbox" /\ OutboxNext /\ UNCHANGED <<part, jobVars, supVars>>
MCClaudes == part = "claudes" /\ SupervisorNext /\ UNCHANGED <<part, jobVars, outboxVars>>

WorkInit ==
  /\ part \in {"jobs", "outbox", "claudes"}
  /\ JobsInit /\ OutboxInit /\ SupervisorInit
  /\ part # "claudes" => ptys = [k \in Keys |-> 0] /\ step = [c \in SupCalls |-> "done"]

WorkSpec ==
  /\ WorkInit
  /\ [][MCJobs \/ MCOutbox \/ MCClaudes]_workVars
  /\ FairJobs
  /\ part = "outbox" => FairOutbox
  /\ FairSupervisor

WorkTypeOK == JobTypeOK /\ OutboxTypeOK /\ SupervisorTypeOK
================================================================================
