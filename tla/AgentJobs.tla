------------------------------- MODULE AgentJobs -------------------------------
(***************************************************************************)
(* The background job runner of the daemon (src/bus/agent-jobs.ts): jobs   *)
(* are dispatched at once or wait in one FIFO queue for a free slot, run   *)
(* headless, may be cancelled at any moment, and their result goes back to *)
(* the dispatcher.  Records of finished jobs are kept up to a cap.         *)
(*                                                                         *)
(* A job's run is external: its promise settles some time after startJob,  *)
(* also when it was aborted in between.                                    *)
(***************************************************************************)
EXTENDS Naturals, FiniteSets, SequencesExt

CONSTANTS JobIds,          \* the ids genId hands out, each one once
          MaxConcurrent,   \* config.maxConcurrent
          MaxQueued,       \* config.maxQueued
          MaxRetained      \* config.maxRetained

ASSUME JobAssumption ==
  /\ IsFiniteSet(JobIds)
  /\ MaxConcurrent \in Nat \ {0}
  /\ MaxQueued \in Nat \ {0}
  /\ MaxRetained \in Nat \ {0}

VARIABLES status,        \* status of the job's record in the map jobs, "absent" without one
          born,          \* place of the record in the map's insertion order, 0 before dispatch
          jobQueue,      \* queue
          controllers,   \* the jobs with an AbortController
          runningCount,  \* runningCount
          stopped,       \* stopped
          executing,     \* external: the runs that have not settled yet
          delivered      \* history: how often deliverResult was called for a job

jobVars == <<status, born, jobQueue, controllers, runningCount, stopped, executing, delivered>>

Terminal == {"done", "failed", "cancelled", "timeout"}

JobStatus == Terminal \cup {"absent", "queued", "running"}

JobsInit ==
  /\ status = [j \in JobIds |-> "absent"]
  /\ born = [j \in JobIds |-> 0]
  /\ jobQueue = <<>>
  /\ controllers = {}
  /\ runningCount = 0
  /\ stopped = FALSE
  /\ executing = {}
  /\ delivered = [j \in JobIds |-> 0]

--------------------------------------------------------------------------------
Records(st) == {j \in JobIds : st[j] # "absent"}

\* evictOldTerminal: the oldest terminal records go, as many as exceed the cap.
EvictOldTerminal(st, b) ==
  [j \in JobIds |->
     IF /\ st[j] \in Terminal
        /\ Cardinality({k \in JobIds : st[k] \in Terminal /\ b[k] <= b[j]})
             <= Cardinality(Records(st)) - MaxRetained
       THEN "absent"
       ELSE st[j]]

\* The places of q whose job maybeStart would start; it skips the others.
Startable(q, st) == {i \in DOMAIN q : st[q[i]] = "queued"}

\* The places maybeStart's loop starts when n slots are taken.
StartedAt(q, st, n) ==
  {i \in Startable(q, st) :
     Cardinality({k \in Startable(q, st) : k <= i}) <= MaxConcurrent - n}

\* maybeStart shifts the queue until the slots are taken or it is empty.
StillQueued(q, st, n) ==
  LET starts == StartedAt(q, st, n)
      taken  == IF Cardinality(starts) < MaxConcurrent - n
                  THEN Len(q)
                  ELSE CHOOSE i \in DOMAIN q \cup {0} :
                         IF starts = {} THEN i = 0 ELSE i \in starts /\ \A k \in starts : k <= i
  IN  SubSeq(q, taken + 1, Len(q))

\* maybeStart and startJob, on the queue, records, slots and controllers the
\* calling handler has reached.
MaybeStart(q, st, n, cs, runs) ==
  LET starts == IF stopped THEN {} ELSE {q[i] : i \in StartedAt(q, st, n)}
  IN  /\ jobQueue' = IF stopped THEN q ELSE StillQueued(q, st, n)
      /\ status' = [j \in JobIds |-> IF j \in starts THEN "running" ELSE st[j]]
      /\ runningCount' = n + Cardinality(starts)
      /\ controllers' = cs \cup starts
      /\ executing' = runs \cup starts

--------------------------------------------------------------------------------
\* dispatch: a call it refuses (stopped, a full queue, an unknown agent, a
\* missing or oversized prompt) changes nothing.
Dispatch(j) ==
  /\ ~stopped
  /\ Len(jobQueue) < MaxQueued
  /\ born[j] = 0
  /\ LET b == [born EXCEPT ![j] = Cardinality({k \in JobIds : born[k] # 0}) + 1]
     IN  /\ born' = b
         /\ MaybeStart(Append(jobQueue, j), EvictOldTerminal([status EXCEPT ![j] = "queued"], b),
                       runningCount, controllers, executing)
  /\ UNCHANGED <<stopped, delivered>>

\* Slip: the slot is freed with the record, while the aborted run goes on.
CancelRunningFreesSlot(j) ==
  /\ status[j] = "running"
  /\ j \in controllers
  /\ MaybeStart(jobQueue, [status EXCEPT ![j] = "cancelled"], runningCount - 1, controllers \ {j},
                executing)
  /\ UNCHANGED <<born, stopped, delivered>>

\* Slip: the cancel answers the dispatcher, and so does the run when it settles.
CancelRunningAnswers(j) ==
  /\ status[j] = "running"
  /\ j \in controllers
  /\ status' = [status EXCEPT ![j] = "cancelled"]
  /\ delivered' = [delivered EXCEPT ![j] = @ + 1]
  /\ UNCHANGED <<born, jobQueue, controllers, runningCount, stopped, executing>>

\* cancel of a running job: its record turns terminal at once, its slot is
\* freed when the aborted run settles.
CancelRunning(j) ==
  /\ status[j] = "running"
  /\ j \in controllers
  /\ status' = [status EXCEPT ![j] = "cancelled"]
  /\ UNCHANGED <<born, jobQueue, controllers, runningCount, stopped, executing, delivered>>

\* Slip: the cancelled id stays in the queue until a slot is free.
CancelQueuedLingers(j) ==
  /\ status[j] = "queued"
  /\ j \notin controllers
  /\ delivered' = [delivered EXCEPT ![j] = @ + 1]
  /\ MaybeStart(jobQueue, [status EXCEPT ![j] = "cancelled"], runningCount, controllers, executing)
  /\ UNCHANGED <<born, stopped>>

\* cancel of a job that never started: it leaves the queue and is answered here.
CancelQueued(j) ==
  /\ status[j] = "queued"
  /\ j \notin controllers
  /\ delivered' = [delivered EXCEPT ![j] = @ + 1]
  /\ MaybeStart(RemoveFirst(jobQueue, j), [status EXCEPT ![j] = "cancelled"],
                runningCount, controllers, executing)
  /\ UNCHANGED <<born, stopped>>

\* Slip: the freed slot is not offered to the queue.
FinishStartsNone(j, result) ==
  /\ j \in executing
  /\ executing' = executing \ {j}
  /\ controllers' = controllers \ {j}
  /\ status' = IF status[j] = "running" THEN [status EXCEPT ![j] = result] ELSE status
  /\ delivered' = IF status[j] = "absent" THEN delivered ELSE [delivered EXCEPT ![j] = @ + 1]
  /\ runningCount' = IF status[j] = "absent" THEN runningCount ELSE runningCount - 1
  /\ UNCHANGED <<born, jobQueue, stopped>>

\* finish, called when the run of j settles with the given result.
Finish(j, result) ==
  /\ j \in executing
  /\ IF status[j] = "absent"
       THEN /\ executing' = executing \ {j}
            /\ UNCHANGED <<status, jobQueue, controllers, runningCount, delivered>>
       ELSE LET ended == IF status[j] = "cancelled" THEN status
                                                    ELSE [status EXCEPT ![j] = result]
            IN  /\ delivered' = [delivered EXCEPT ![j] = @ + 1]
                /\ MaybeStart(jobQueue, EvictOldTerminal(ended, born),
                              IF runningCount = 0 THEN 0 ELSE runningCount - 1,
                              controllers \ {j}, executing \ {j})
  /\ UNCHANGED <<born, stopped>>

\* stop: every run in flight is aborted and settles later; nothing new starts.
StopJobs ==
  /\ ~stopped
  /\ stopped' = TRUE
  /\ jobQueue' = <<>>
  /\ UNCHANGED <<status, born, controllers, runningCount, executing, delivered>>

\* runAgentJob settles: with a result, an error or after its wall-clock timeout.
Settles(j) == \E result \in {"done", "failed", "timeout"} : Finish(j, result)

JobsNext ==
  \/ \E j \in JobIds : Dispatch(j) \/ CancelRunning(j) \/ CancelQueued(j) \/ Settles(j)
  \/ StopJobs

JobsSpec == JobsInit /\ [][JobsNext]_jobVars

\* Every run is bounded by its timeout, after which runAgentJob settles.
FairJobs == \A j \in JobIds : WF_jobVars(Settles(j))

FairJobsSpec == JobsSpec /\ FairJobs

--------------------------------------------------------------------------------
JobTypeOK ==
  /\ status \in [JobIds -> JobStatus]
  /\ born \in [JobIds -> Nat]
  /\ jobQueue \in Seq(JobIds)
  /\ controllers \subseteq JobIds
  /\ runningCount \in Nat
  /\ stopped \in BOOLEAN
  /\ executing \subseteq JobIds
  /\ delivered \in [JobIds -> Nat]

\* Never more runs than slots: a cancelled run keeps its slot until it has
\* really settled, so a burst of cancels and dispatches cannot start more
\* headless agents than maxConcurrent.
RunsFitSlots ==
  /\ Cardinality(executing) <= runningCount
  /\ runningCount <= MaxConcurrent

\* A job waits only while every slot is taken, and the queue holds exactly the
\* jobs that have yet to start: the cap dispatch tests never refuses a job that
\* could have started, and no cancelled id takes a place in the queue.
WaitsOnlyWhenFull ==
  ~stopped =>
    /\ jobQueue # <<>> => runningCount = MaxConcurrent
    /\ \A j \in JobIds : status[j] = "queued" =>
         Cardinality({i \in DOMAIN jobQueue : jobQueue[i] = j}) = 1
    /\ \A i \in DOMAIN jobQueue : status[jobQueue[i]] = "queued"

\* The dispatcher hears of a job once: when a cancel races the run that settles,
\* exactly one of the two delivers, and a recorded job that has ended was heard.
HeardOnce ==
  \A j \in JobIds :
    /\ delivered[j] <= 1
    /\ status[j] \in Terminal /\ j \notin executing => delivered[j] = 1
    /\ j \in executing \/ status[j] = "queued" => delivered[j] = 0

\* agent-jobs.ts: evictOldTerminal drops terminal records, "never a
\* queued/running one — those are live": each slot in use is that of a run.
NoSlotLost == runningCount = Cardinality(executing)

\* A queued job starts or is cancelled, unless the runner stops or has lost a slot: the
\* queue empties again and again, however many of the JobIds are still dispatched.
EveryJobLeavesQueue ==
  (\E j \in JobIds : status[j] = "queued")
    ~> ((\A j \in JobIds : status[j] # "queued") \/ stopped \/ ~NoSlotLost)
================================================================================
