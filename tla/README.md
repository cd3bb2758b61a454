# ClaudeClaw-Plus: a TLA+ verification of the agent bus

ClaudeClaw-Plus is a daemon that keeps Claude Code sessions ("agents") running in pseudo-terminals
and lets people, schedules and other programs talk to them through chat surfaces. The heart of it is the
*bus* (`src/bus/core.ts`, about 4,000 lines): it accepts prompts from many chats, admits them one turn at a
time into each agent's REPL, watches the agent's transcript, its MCP socket and a handful of timers to
find out what became of each turn, and routes every answer back to the chat it belongs to.

This directory models the bus, the parts of the daemon that keep state across its own death or work off
queues beside it, and the supervisor of the claudes that run when the bus is off, checks the models with TLC and proves their central invariants with TLAPS.
Paths below are relative to the repository root (`src/bus/core.ts` is the bus).

Contents: 1 Inventory · 2 The models and the code · 3 What is assumed of the outside · 4 The runs ·
5 Where code and documentation disagree · 6 What is proved · 7 What is only model-checked, and what is
not modelled · 8 Plan · 9 How to run it

---------------------------------------------------------------------------------------------------

## 1. Inventory

### 1.1 The bus and what it talks to (modelled)

    chats ── sendPrompt ──►┌───────────────────────────────┐── send_prompt_stream ──► PTY agent process ──► CLI
                           │  BusCoreImpl                  │◄─ delivery verdict ──────────┘               │  │
    subscribers ◄─ finals ─│  prompt queue, gate, routing, │◄─ transcript lines ── tailer ◄── JSONL ◄─────┘  │
                           │  reply net, delivery verify   │◄─ reply / cancel ──── IPC socket ◄── MCP server ┘
                           └───────────────────────────────┘   (six timers of its own)

| component | state | operations | what is hard | what makes it correct |
|---|---|---|---|---|
| **Prompt queue** `core.ts` 1400-1540 | per agent: a Map of FIFO lanes keyed by chat, and a rotation list | enqueue (two caps), dequeue, withdraw, drop lane, preview | two structures kept in step by hand; a refusal happens after the lane exists; a withdrawal can empty a lane in mid-rotation | lanes and rotation agree; FIFO in a chat; no chat served twice while another waits; preview = real order |
| **Admission gate** 1380-1660 | five flags that each hold the gate (counted turn, streaming, nudge, park, settle), an idle deadline, `pendingTurns`, `currentOperation` | `sendPrompt`, `admitPrompt`, `admitNext`, `releaseTurn`, `scheduleAdmit`, deadline | flags set and cleared in a dozen handlers; each release has to call `admitNext` | at most one counted turn; a held gate has a deadline; a free gate leaves nobody waiting |
| **Routing** 1700-1800, 2790-2900 | origin slot, deferred origin, silently closed origin, known origins | apply/defer origin, `ingestReply` | the slot belongs to whichever prompt was admitted last, the answers come from whichever turn ran | an answer goes to its prompt's chat or nowhere |
| **Reply net** 2900-3330 | replied, published, nudged, stash, fallback timer | `handleTurnEnd`, `nudgeForReply`, stale ends | reply (socket) and turn end (transcript) are unordered; the nudge has two transports | every prompt that calls for an answer gets exactly one |
| **Delivery** 1921-2640 | held and carried texts, deliveries being decided, verify entries, retry markers, compaction holds | `deliverOrQueuePrompt`, `streamDeliver`, verify timer, `holdThroughCompaction`, `redeliverPrompt` | a swallowed keystroke looks like a slow transcript; every retry risks a double turn | each prompt runs exactly once, is typed at most twice, and counts as busy until it ran |
| **Readiness and close** 1060-1260, 2100-2260 | generations, three readiness epochs, init flag | `onClose`, `onHello`, `replay_done`, init line, backstop | socket, process and tailer fail separately and report in any order | the carry-over goes out once, into a REPL that can take it |
| **PTY delivery** `session-agent-process.ts` | write queue, confirm loop | `send_prompt_stream` | decides from screen contents whether a turn started | at most the verdicts the bus expects |
| **Transcript tailer** `jsonl-tailer.ts` | file offset, generation | line by line, stop | reads late, is replaced with its process | lines of a generation in order |
| **MCP server and IPC** `mcp-server.ts`, `core-ipc.ts` | one socket per agent | reply, cancel, hello, close | drops and returns on its own | frames in order, unordered with the transcript |

### 1.2 Beside the bus (modelled)

| component | state | operations | what is hard | what makes it correct |
|---|---|---|---|---|
| **Session manager** `bus/session-manager.ts`, **ownership** `bus/session-ownership.ts` | the registered claude, fences, quarantine records, one queue of operations an agent; on disk the session id and the ownership record | spawn, restart, clear, stop, exit, retirement, daemon start | claude takes no lock on its session; an exit event proves nothing; any write may fail halfway; the daemon dies with claudes running | no two claudes write one session; the disk names the claude that prompts reach; every operation ends |
| **Agent jobs** `bus/agent-jobs.ts` | records, queue, controllers, `runningCount` | dispatch, cancel, finish, evict, stop | a cancel makes a record terminal while its run goes on and holds a slot | slots not over-filled, every dispatcher hears once, no job waits beside a free slot |
| **Telegram outbox** `telegram-outbox.ts` | entries, a file, one shared pass | deliver, hold, release, drain, evict, restart | the drain works across awaits on entries that may be evicted; a timed-out send may still arrive | no chunk skipped or out of order; every message sent or dropped with a log line |
| **Event log** `event-log.ts` | segment files, two pointer files and their copies in memory | append, rotate, start, rebuild | a crash, or a failed write, between any two of up to five writes | numbers increase; nothing lost |
| **PTY supervisor** `runner/pty-supervisor.ts`, **quarantine** `runner/pty-quarantine.ts` | an entry per session key: its claude, its lock, the spawn in flight, its retirement; an admission lock; records of processes not proven gone | `runOnPty`, `sendToLiveSession`, spawn, respawn, eviction, reaper, `/kill`, shutdown | every deadline bounds a wait and not the work behind it; a spawn outlives the request that asked for it and the entry it was for; an exit may never be confirmed | one claude a session, one turn a claude, none untracked; the cap; every call returns |
| **PID lock** `pid.ts`, `commands/start.ts`, `commands/stop.ts` | `daemon.pid`, a link(2) lock, a guard for removing a stale lock | start, replace, status, stop, shutdown | every read is stale at the unlink that follows; holders die anywhere | one daemon, named by its file |

### 1.3 Not modelled

| component | state, operations | hazards | why not |
|---|---|---|---|
| MCP reconciler `bus/mcp-reconciler.ts` | confirm window, cooldown, attempt cap | an attempt inside the cooldown is dropped and not re-armed | its behaviour is the lengths of three timers |
| stall watchdog, alerts `bus/stall-watchdog.ts` | last sign of life per agent | alert racing recovery | compares times; nothing depends on it |
| scheduler, jobs `bus/scheduler.ts`, `jobs.ts`, `job-loop.ts` | next fire times | catch-up after sleep | computations over dates; a firing is a `Send` |
| shutdown drain `bus/shutdown-drain.ts` | poll of `busyAgents` | a turn between two polls | what it polls is checked (`OwedIsBusy`) |
| receipts `bus/receipt.ts` | open receipts | - | an audit record patched by handlers |
| retry queue, processor, replay | due retries | append failing after removal | not loaded by the daemon |
| orchestrator, governance, escalation, gateway, multiplexer, tuner | files and SQLite | mostly sequential | independent of the bus; candidates |
| approval queue `policy/approval-queue.ts` | requests | decide racing expiry | one file, one decision |
| runner `runner.ts`, PTY process `runner/pty-process.ts` | per-thread queues above the supervisor; the screen and transcript of one claude below it | a prompt taken for typed | what they report to the supervisor is chosen freely in `PtySupervisor`; the rest is parsing |
| chat adapters, commands, UI, config, memory, one-shot engine | third-party APIs, parsing, process trees | I/O and data | no protocol of their own, or the operating system's |

`PROJECT.json` lists every part with its status and every hazard found with its source line.

---------------------------------------------------------------------------------------------------

## 2. The models and the code

    FairLanes                                   what the queue promises
       ▲ refines
    PromptLanes ──► PromptQueue ◄── BusSlot ◄── BusDelivery ◄── BusTurn ◄──┐
                                       ▲                                   BusCore ◄── MCBusCore
                                       └────────────── AgentCli ◄──────────┘

    SessionManager ◄─┐
    PidLock ◄────────┼─ MCFiles                  AgentJobs ◄──────┬─ MCWork
    EventLog ◄───────┘                           TelegramOutbox ◄─┤
       ▼ refines                                 PtySupervisor ◄──┘
    DurableLog

Components that share no state with the bus are checked side by side: in a behaviour of `MCFiles` or `MCWork`
one of them, chosen by the variable `part` in the initial state, moves and the others rest. The run's state space is
the sum of theirs, and every one of their properties is checked in one pass.

| module | models | how |
|---|---|---|
| `PromptQueue` | `enqueuePrompt`, `dequeuePrompt`, `withdrawQueuedPrompt`, `dropLane`, `queuedPrompts` | operators on a queue value: the lane Map's keys, the lanes and the rotation list, separately, because the code keeps them separately |
| `PromptLanes` | the queue alone under any caller | one action per method; history variables record arrivals and who overtook whom |
| `FairLanes` | the promise of #239 | FIFO lanes without a rotation; `Serve(c)` is refused while a waiting chat has been overtaken by `c` once |
| `BusSlot` | the agent's entries in the class's maps; `slotFree`, `touchTurn`, `publish`, `releaseTurn`, `openTurn`, origins, `busyAgents` | one record; each field's comment names the Map |
| `BusDelivery` | getting a text into the REPL: `streamDeliver` with its `then`/`finally`, `flushVerify`, `holdThroughCompaction`, `redeliverPrompt`, the carry-over of `onClose` | a delivery being decided is a record in `deliveries` |
| `BusTurn` | admission, `ingestReply`, `handleTurnEnd`, the nudge, stale and late lines, transcript lines, `onClose`/`onHello`, readiness markers, timers | each handler is the composition of the methods it calls, in the code's order |
| `AgentCli` | *external*: the CLI, its transcript and its MCP server, as the bus, its comments and tests take them to be | input box, turn, compaction, boot; lines per generation; frames |
| `BusCore` | one agent and its CLI | one action per thing that runs the bus |
| `SessionManager` | one agent's claude and its record: `spawnAgentInternal`, `restart`, `clearSession`, `stop`, `retireOnOsWord`, `decideResume`, the record store | a lifecycle operation under way is the record `op`, whose `at` is the await it stands at; exits, timers, deaths and a new start of the daemon interleave |
| `AgentJobs` | the class `AgentJobRunner` | one action per method; the loop of `maybeStart` is an operator on the queue, records and slots |
| `TelegramOutbox` | the class `TelegramOutbox` | one action per stretch between two awaits of `deliver`, `drain` and their helpers |
| `EventLog`, `DurableLog` | `initEventLog`, `append`, `rotateSegment`, the rebuild, `readFrom`; and what they promise | one action per write of a file, so that a crash falls between any two |
| `PtySupervisor` | `runOnPty`, `sendToLiveSession` and everything that retires an entry, with the quarantine | one action per stretch between two awaits of a call (`step`), of a spawn (an entry's `spawn`) and of a retirement (its `retiring`), since each goes on without the others |
| `PidLock` | the functions of `pid.ts` as `start`, `stop` and the shutdown call them | one action per system call of one process |

**Every map of `BusCoreImpl` is keyed by agent**, and the handlers touch one agent each, so one agent is the
system. A JavaScript task runs to its end, so a handler is one atomic action; whatever the code does *after* an
`await`, in a promise's `then` or in a timer is an action of its own.

| action of `BusCore` | code |
|---|---|
| `Send(p)` | `sendPrompt`: refused, queued, or admitted at once, with everything admission does |
| `PtyType(i)`, `PtySettle(i)` | the PTY layer types delivery *i*; its promise settles with a verdict (`streamDeliver`'s `then`, `catch`, `finally`) |
| `TailLine(g)` | `ingestSessionEvent` on the next line of generation *g*: user line, absorbed input, `turn_end`, init, `replay_done`, compaction boundary |
| `ReadFrame` | `ingestReply` (intent final), `cancel` |
| `Drop`, `Hello` | `onClose`, `onHello` with the process alive |
| `Kill`, `Respawn`, `StopTailer(g)` | the process exits; the session manager announces a replacement; the old tailer stops |
| `SettleTimer`, `DeadlineTimer`, `VerifyFires(x)`, `HoldDeadline(x)`, `BackstopFires`, `FallbackFires` | `admitSettle`, `turnDeadline`, `flushVerify`, `compactionHeld`, the init backstop, `nudgePtyFallback` |
| `CliMoves` | the CLI: start a turn, absorb queued input, reply, cancel, end a turn, compact, boot, a turn nobody asked for |

| actions of the other modules | code |
|---|---|
| `BeginOp`, `Mint`, `StopOld`, `AdoptFresh`, `Retire`, `ConfirmRetired`, `PersistCleared` | `restart` and `clearSession`, await by await |
| `ReadRecord`, `Examine`, `Unproved`, `RotateStored`, `Refused`, `Fork`, `Identify`, `WriteRecord`, `SpawnEnds`, `Collided` | `spawnAgentInternal` with `decideResume`, `gateSpawn` and `recordOwnership` |
| `StopAgent`, `KillTimer`, `SeeExit`, `RetirementSettles`, `LeaveRecord` | `stop`, its kill, the exit handler, `retireOnOsWord`, `confirmGoneAndClear` |
| `Dies`, `RestartDaemon` | *external*: a claude ends, the daemon is started again with the claudes it left |
| `Dispatch`, `CancelRunning`, `CancelQueued`, `Finish`, `StopJobs` | the methods of `AgentJobRunner`; `Finish` is the settling of a run |
| `Hold`, `Deliver`, `DeliverSent`, `DeliverFailed` | `deliver`, `hold`, `releaseHeld`, `enqueueFailed` |
| `Drain`, `SkipEntry`, `PutOff`, `SendChunk`, `DropRevoked`, `UnknownRecipient`, `DrainSent`, `DrainFailed`, `EndPass` | `drain` and `recordFailure`, chunk by chunk |
| `StartLog`, `AppendEvent`, `AppendRotating`, `CreateSegment`, `RenameSegment`, `Save...`, `FailSave`, `FailCreate` | `initEventLog`, `append`, `rotateSegment`, `createNewSegment`; each `Save` is one write of one pointer file, and a write that fails ends the append where it is |
| `Request`, `Admit`, `TakeAdmission`, `AfterEviction`, `AdmissionDeadline` | `runOnPty` with `admitEntry`, `enforceMaxConcurrent`, `getOrCreateEntry` |
| `WaitDeadline`, `Begin`, `Respawn`, `SpawnDeadline`, `TurnEnds`, `TurnLost`, `TurnFails`, `Returns` | `runOnAdmittedEntry`, `runTurnWithRetries`, `respawnEntryWithRetries` |
| `Prepared`, `DisposeDead`, `Fork`, `BootFails`, `Land`, `DisposeLate` | `spawnEntry`, `respawnEntry`, `landPty`, which run on when nobody waits for them |
| `RetirementEnds`, `Reap`, `RetireSession`, `Kill`, `StartShutdown`, `EndShutdown`, `ConfirmAll` | `retireEntry` with `joinPendingSpawns`, `reapIdle`, `retirePtySession`, `killAllPtysReport`, `shutdownSupervisor`, `confirmAllQuarantined` |
| `Send`, `Look`, `GateAnswers`, `SendBegins`, `SendGivesUp` | `sendToLiveSession` |
| `ClaudeDies` | *external*: a claude ends on its own |
| `Launch`, `LinkLock`, `JudgeLock`, `LinkGuard`, `Recheck...`, `Remove...`, `CheckPidFile`, `ComparePid`, `StopJudging`, `WritePidFile`, `ReleaseLock` | `acquirePidLock`, `stealStaleLock`, `checkExistingDaemon`, `compareAndUnlink`, `writePidFile`, `releasePidLock` |

**Data.** A prompt is one model value, which stands for its text, its promise id and its map keys. What an
answer *says* is the set of prompts it answers, so "the answer went to the wrong chat" is a fact about sets. Clocks
are left out: an armed timer may fire at any moment, except as section 3 says. `HoldThroughCompaction` compares a
boundary with the compaction count at the time of the hold, where the code compares timestamps.

In the other modules: a claude is its number in the order of forks, and whether the OS runs it (`alive`) is what
the ownership record's start times and pids are for; a log event is a model value with the number it got; a
message is the count of its chunks; a PID may be given to a later process once nobody remembers it, which is the
operating system's promise that a PID is not reused within seconds.

In `PtySupervisor` a key stands for its session: the quarantine matches a key or a session id, and one matching is
enough to tell them apart. Which entry was used least recently, and so which one is evicted, is left open, as is
which one the reaper finds idle. The abort of a one-shot is `RetireSession`. `TurnEnds` covers a proven end and a turn refused before
anything was written; `TurnFails` every other end. All deadlines are positive and finite (a `timeoutMs` of 0 would disable
them). A child that exits at boot leaves nothing behind in the model.

`checkExistingDaemon` gives up after three files that changed while it judged them; the model does not count, and lets it give up
(`StopJudging`) after any of them, or go on. A message too long for the outbox is queued up to `MaxChunks` chunks, the code's
`OUTBOX_MAX_CHUNKS`: `whole` is what there is to send of a message, all its chunks until `boundChunks` cut it.

**Slips.** Some modules define, next to an operator, a variant of it introduced by "Slip:". It is the operator with
one plausible mistake in it (a dropped guard, a missed reset). No specification uses them; they document that each
property checked below fails when the code is wrong in that way (`PROJECT.json`, "mutants").

---------------------------------------------------------------------------------------------------

## 3. What is assumed of the outside

The CLI and the PTY heuristics are not in `core.ts`. The model lets them do everything the bus's comments and
tests expect; each freedom is a constant, so each run says which it grants.

| constant | meaning | basis in the code |
|---|---|---|
| `DoubleEnds` | a turn may write two boundary lines with one message id | `lastTurnEndMessageId` and its comments |
| `Absorbs` | input typed behind a turn may be absorbed into it | the absorption branch of `ingestSessionEvent` |
| `EndsEmpty` | a turn may end with neither text nor reply | the empty branch of `handleTurnEnd` |
| `NamesChats` | a reply may name its chat | `ingestReply`'s explicit origin |
| `LinesOvertaken` | a reply may arrive before earlier lines are tailed | the tailer polls, the socket does not |
| `ReplyOvertaken` | a turn's end may be tailed before its reply arrives | as above; FALSE except where a run is about it, because then a second final is what the code does (section 5) |
| `MarkerLost` | a replacement's `replay_done` may never come | the init backstop exists for it |
| `Verdicts` | what `send_prompt_stream` may report | its result type |
| `Patient` | the verify, hold, backstop and fallback timers fire only after an idle CLI took its input and its lines were read, the hold deadline only after the compaction | the code's delays (seconds to minutes) are chosen to outlast these; without it a retry into a merely slow CLI doubles the prompt, which the code accepts |
| `MaxGen`, `MaxCompactions`, `MaxAmbient`, `MaxCancels`, `MaxDeadlines`, `MaxDrops`, `MaxSwallows` | bounds on how often each happens | named in the guards; nothing else bounds the state |

A give-up of the PTY layer clears the input box, which takes the text back; when a turn runs the CLI may have
queued it already, and after a give-up on a compaction the text may or may not survive. A clearing that loses
the text of a stuck compaction counts as a swallow.

**Fairness** (`FairSpec` of the bus) is weak fairness of: settled promises, the tailer, the IPC reader, each armed timer, the
reconnect and the respawn (the session manager always restarts), and, in a live CLI, taking input, ending a turn,
a compaction or the boot. The event loop runs every callback that is ready and every timer that is due; the CLI's
part is what "a turn ends" means. Nothing is assumed of senders, drops, deaths, cancels, compactions, ambient turns, or
**replies**: a model that never calls `reply` is what the net is for.

**Outside the other modules.**

| module | may happen at any time | bounded by |
|---|---|---|
| `SessionManager` | a claude quits or is killed; a kill does not end it; a read or write fails; the daemon dies and starts again | `MaxForks`, `MaxFaults`, `MaxBoots` |
| `AgentJobs` | a run settles, with any result, also after its abort | the ids |
| `TelegramOutbox` | a send fails for good or for now, times out and arrives later; quiet windows; users revoked; a crash | `MaxLate`, `MaxPutOffs`, `MaxCrashes` |
| `EventLog` | a crash between two writes, leaving the pointer file it was writing old, new or torn; a failed write of an append (the segment's temporary file, its rename or a pointer file), which may tear the pointer file too; the file of a new segment not created, with memory pointing at it | `MaxLogCrashes`, `MaxFailures`, `MaxSegments` |
| `PtySupervisor` | a claude boots, hangs at boot for ever, exits there or dies later; a kill whose exit the OS does not confirm, and confirms when asked again or never; evictions, kills, aborts, the reaper | `Casts`: which calls a behaviour makes, which claudes run before it, and how many unconfirmed exits, deaths and shutdowns it has; `MaxRetries`, `RespawnRetries` |
| `PidLock` | a process is killed between two system calls; a PID is reused | `MaxLives`, `MaxGuardCrashes` |

Their fairness: a run of a job settles (`runAgentJob` has a wall-clock timeout); the outbox's timer fires, sends settle (a
timeout of their own), backoffs and quiet windows end; an operation of the session manager goes on (each of its
awaits has a bound) and its kill timers and retirements come; a call of the supervisor goes on, by its deadline if by nothing
else, and a disposal ends (it has a cap), but a boot need not; for a group of these steps, each of which is taken finitely often, one
fairness condition is enough; a process that is not killed takes its next system
call, and a file grows old. `Launch`, `Dispatch`, `deliver`, `Request`, `Send`, boots, deaths and faults have none.

---------------------------------------------------------------------------------------------------

## 4. The runs

Passing runs. Each fixes the freedoms of section 3 that its question needs; together they take every action.

| run | instance | asks | shows |
|---|---|---|---|
| `PromptLanes` | 5 prompts, 3 chats (2, 2, 1), caps 2 and 4, with resubmission | the queue alone | rotation = lanes, nothing lost or doubled, preview is the real order, no chat overtaken twice, FIFO, no starvation; it implements `FairLanes` |
| `BusGate` | 3 prompts of 2 chats, one of them a bare acknowledgement; double ends, absorption, named chats, late lines | the admission gate | one counted turn, `AnswerSafety` (nobody stranded, no answer in the wrong chat, one final each, no third typing), every waiting prompt admitted |
| `BusNudge` | two chats and a daemon inject, an acknowledgement, agent cap 1 (so refusals too), nudge on | the reply net | `AnswerSafety`, and every prompt that calls for an answer gets one |
| `BusDeadline` | 2 prompts, one expired deadline, one cancel, give-ups | a gate freed while the turn runs on | `PromptSafety` (nobody stranded, the late text still goes home, at most one retry), the deferred origin belongs to the awaited line, the gate stays timed, types |
| `BusAmbient` | 2 prompts, one turn nobody asked for, double ends, give-ups | uncounted turns | `AmbientSafety`: counting and admission hold, nothing runs twice |
| `BusDelivery` | 2 prompts, one swallow, one compaction, give-ups and stuck verdicts | the retry machinery | `DeliverySafety` (each prompt runs once, typed at most twice, answers go home), busy until it ran, every prompt runs |
| `BusDrop` | 2 prompts, one socket drop, one swallow, give-ups | IPC loss with the process alive | `DeliverySafety` again, every prompt runs |
| `BusRespawn` | 2 prompts, 2 generations, one swallow, lost marker, fresh or resumed session, PTY errors | process death | the carry-over waits once and is typed at most once more, `AnswerSafety` |
| `Work` | 4 jobs in 2 slots, backlog 2, 2 records kept; 2 messages of one chat (3 chunks, of which at most 2 are queued, and 1, the second proactive), 2 attempts, outbox of 1, one crash, one late send, 2 put-offs; the supervisor with a cap of 1 and six casts, one of them empty (325,000 states, two and a half minutes) | the work beside the bus | `RunsFitSlots`, `WaitsOnlyWhenFull`, `HeardOnce`, `ChunkSafety`, `SupervisorSafety`, jobs leave the queue, messages settle, every call returns |
| `Files` | 3 PIDs, 4 lives, one death in the guard; 3 events, 3 segments, 2 crashes, one failed write; 2 claudes, 3 daemon starts, 2 faults | what survives the daemon | one lock holder, one daemon named by its file, a stale lock is cleared, `LogSafety`, `DurableLog`, one writer a session, the disk names the live claude, every operation ends |

Properties that hold of the same steps are conjoined under one name (`PromptSafety`, `AnswerSafety`, `DeliverySafety`,
`AmbientSafety`, `ChunkSafety`, `SupervisorSafety`, `LogSafety`, `DiskNamesLive`); each conjunct is a definition of its own with its comment.

**Why these bounds are enough.** Two chats are the least in which an answer can stray and three prompts the least in
which one waits behind a queue rather than behind a turn; a second prompt is the one whose state overwrites the
first's in every per-agent slot. One expired deadline, drop, swallow or compaction makes each recovery path run, and
the handlers keep a boolean, not a count, of it. The freedoms are divided among the runs because together they are infeasible,
and because some combinations are the disagreements of section 5. `BusRespawn` checks safety only: with two
generations the liveness graph is out of reach.

In `Work`, four jobs fill both slots and the backlog and let a finished record be evicted under a fifth state; an outbox of
one entry makes every second failure evict; of three chunks the first may fail, which queues two and drops the last, or the second, which queues
all that is left. The supervisor's casts are one
per question, because their union is out of reach (a sixth, empty, leaves the jobs and the outbox to themselves): two requests and a send on one key with an unconfirmed exit and a death (the lock, the
respawn, the gate); a request and a send on a key with a running claude, and a shutdown; two keys under a cap of one, with the
victim a third key or one that is asked for again; a one-shot beside a request, with a shutdown. In `Files`, three
processes are one that holds, one that judges and one that steals, and the fourth life is a PID used again; two crashes
are a crash and one during the recovery from it; three segments are an archived one, a current one and one whose creation
was cut short; two claudes are the least that can meet, three daemon starts let the second inherit and the third
inherit from it. Larger instances were run once and agree: `SessionManager` with three claudes, two starts and two faults
(1.26 million states), `PidLock` with three PIDs and four lives without a death in the guard (138,000), and the safety of
`PtySupervisor` with three requests on two keys, one unconfirmed exit, one death and one shutdown (3.2 million) and with a
send beside them (5.8 million). Deadlock checking
is off in all runs but `PromptLanes`, because the systems rightly stop when every prompt, job, message or event
was used and the bounded faults are spent.

Runs that find a disagreement: `BusStranded`, `JobSlotLost` (next section).

---------------------------------------------------------------------------------------------------

## 5. Where code and documentation disagree

| run | violated | what happens |
|---|---|---|
| `BusStranded` | `EveryPromptAdmitted` | A nudge is out and another prompt waits. The real reply comes late: `ingestReply` clears `replyNudged`, the last thing holding the gate, and does not call `admitNext`. If the agent takes no turn for the reminder (the notification is ignored, and the PTY copy armed behind it finds the nudge already settled), the prompt waits before a free gate until some other event of the agent. The comment of `admitNext` (1538-1546) says every release site calls it. |
| `JobSlotLost` | `NoSlotLost` | `cancel` makes the record of a running job terminal, so a dispatch over `maxRetained` may evict it; when the run resolves, `finish` finds no record and returns before it counts `runningCount` down. The slot is lost for good; after `maxConcurrent` such jobs nothing starts. The comment of `evictOldTerminal` (222-224) says it never drops a live one. `RunsFitSlots` still holds (the slot is lost, not over-filled), and `EveryJobLeavesQueue` is stated for a runner that lost none. |

More are known from instances that are not kept as runs; they are why a passing run excludes a combination or a
property names an exception:
- a stale terminator (its turn was released by the deadline or a cancel) that is read after a socket drop clears the park and
  the streaming flag and admits nothing, because "the newcomer's turn is about to start in that same REPL" (3521-3523); if the
  drop took the newcomer's operation, no turn is about to start and the queue waits before a free gate. An absorbed line that releases the counted turn after a
  drop and a deadline does the same (`NoStrandedPrompt` with a drop and a deadline). These two and the late reply of `BusStranded` are the
  only steps that strand a prompt, which is proved (`OnlyThreeStrand`);
- `cancel` drops `agentTurnActive` although the CLI's turn goes on. A prompt admitted behind it is verified, the timer
  no longer sees a streaming turn and types it again: it runs twice (`RunsOnce` with a cancel and a give-up);
- `onClose` deletes `inFlightDeliveries` while the handlers still decide: a prompt being delivered is then in none of the
  sets `busyAgents` reads (`OwedIsBusy` with a drop);
- a close with only a nudge outstanding clears it without parking and admits the next prompt while the nudged turn
  runs; that turn's answer goes to the newcomer's chat (`AnswersGoHome` with the nudge and a drop);
- with `ReplyOvertaken`, a turn's end that is read first is synthesised (or nudged), and its real reply, arriving
  after the next admission reset the per-turn flags, is a second final; a deadline that frees the gate early has the
  same effect (`OneFinalEach`, which `BusDeadline` therefore leaves out);
- with `MaxAmbient` and late lines, the end of a turn nobody asked for may be taken for the counted turn's, since
  an end carries no identity of the prompt that opened it (`BusAmbient` therefore claims counting, admission and
  at-most-once, and no routing);
- two compactions in a row: a text held through the first is verified after it, the second keeps it in the input box until the flush timer has
  fired and its grace is over, and it is typed again beside the first copy: it runs twice (`RunsOnce` with two compactions, or with one and a
  turn nobody asked for);
- a compaction hold that is released because a new generation took over is typed again without parking the gate;
- the backstop that stands in for a lost `replay_done` sends out the held texts and arms the flush verify for each of them (2216), also for
  one that a close had carried over and that was a re-delivery already: such a text may be typed a third time, where the comment
  of the carried set (889-892) says at-most-once survives the carry-over (`AtMostOneRetry` with a replacement and a lost marker).
  `RetryRearmed` is this step, and `RetriesOnce` proves that nothing else types a prompt a third time;
- a process that dies inside the steal guard leaves a guard that two others may both find stale and both enter, after
  which two hold the PID lock: `LockIsExclusive` and `OneNamedDaemon` are stated up to that (`guardCrashes = 0`), and fail
  without it in four lives;
- a crash between the rename of a segment and the saves of both pointers leaves pointers that agree with each other
  and lag behind the segment. `validateAndRepairState` compares them with each other only, so the next event gets a number
  that is taken (`lostPointers` names these crashes; `SeqsIncrease` fails without it);
- `readFrom` of a number before the current segment skips that segment, and after a rebuild reads the
  current one twice (`ReadsAcrossSegments` fails);
- `sendToLiveSession` reads the entry before it awaits the gate. If a quarantined process is confirmed gone meanwhile and a request makes
  an entry for the key, the send still says `not-live: no-entry` beside a claude that runs (`NotLiveMeansGone` fails with
  `"gate" \notin misreported`; it is stated for the sends that did not wait at the gate);
- an admission that its caller abandoned leaves an entry without a claude, which the reaper skips and the cap counts, until the
  next call on its key, an eviction or a `/kill`; `reapIdle` looks at when the last turn ended and not at whether one runs now;
- the outbox's comment says a chunk is sent twice only if the process dies between a send and its write; a send that
  times out and arrives is also retried (`SentTwiceOnlyByDeath` fails with one late send).

---------------------------------------------------------------------------------------------------

## 6. What is proved

All for every value of the constants (any number of chats, prompts and generations, any caps, any of the freedoms
of section 3), from the modules' named assumptions only (`ChatAssumption`, `CapAssumption`, `BusAssumption`,
`CliAssumption`, `TurnAssumption`, `CoreAssumption`, `NoPromptAssumption`, `JobAssumption`, `OutboxAssumption`,
`SupervisorAssumption`, `PidAssumption`, `SessionAssumption`, `LogAssumption`), which TLC evaluates in the runs. The theorems of `BusUncutProofs` have hypotheses on the freedoms,
named in the table: `Uncut` is one process whose socket stays open (`MaxGen = 1`, `MaxDrops = 0`), no `cancel`, no turn that
expires (`MaxCancels = 0`, `MaxDeadlines = 0`) and no reminder (`~NudgeEnabled`).

| theorem | states |
|---|---|
| `PromptLanesProofs!LaneTypes` | `Spec => []LaneTypeOK` |
| `PromptLanesProofs!RotationMatchesLanes` | `Spec => []LanesMatchRotation`: each lane once in the rotation, no lane empty |
| `PromptLanesProofs!NothingLost` | `Spec => []NothingLostNothingTwice`: what was accepted and did not leave waits once, in its own lane, in the order it came, under the caps |
| `PromptLanesProofs!PreviewIsServed` | `Spec => []PreviewIsAdmissionOrder`: the order `queuedPrompts` shows is the order in which `dequeuePrompt` would serve |
| `PromptLanesProofs!OldestOfChat` | `Spec => TakesOldestOfChat`: what an admission takes is the oldest waiting prompt of its chat (no run checks this one) |
| `PromptLanesProofs!OvertakenOnce` | `Spec => []OvertakenAtMostOnce` |
| `PromptLanesProofs!RotationIsFair` | `Spec => ImplementsFairLanes`: the rotation refines the fair FIFO lanes |
| `BusCoreProofs!CoreTypes` | `Spec => []TypeOK`, with the CLI and the transcript |
| `BusCoreProofs!CountsOneTurn` | `Spec => []OneCountedTurn`: `pendingTurns` is 0 or 1 and agrees with `currentOperation`, whatever handlers, drops and restarts interleave |
| `BusCoreProofs!GateIsTimed` | `Spec => []HeldGateHasDeadline` |
| `BusCoreProofs!DeferredIsAwaited` | `Spec => []DeferredOriginIsAwaited` |
| `BusCoreProofs!OnlyThreeStrand` | `Spec => StrandedByThreeSteps`: a step that leaves a prompt before a free gate is one of three that are named (no run checks this one) |
| `BusLedgerProofs!NoPromptWaitsTwice` | `Spec => []PromptsCarriedOnce`: no prompt waits twice for its delivery, held, carried over or both (the runs check `CarriedOnce`, which is this for the reminder too) |
| `BusLedgerProofs!RetriesOnce` | `Spec /\ [][~RetryRearmed]_vars => []AtMostOneRetry`: a prompt is typed at most twice, as long as one named step is not taken |
| `BusUncutProofs!UncutAdmits` | `Uncut`: `Spec => []NoStrandedPrompt`, nobody waits before a free gate |
| `BusUncutProofs!UncutRetriesOnce` | `Uncut`: `Spec => []AtMostOneRetry`, with no exception |
| `BusUncutProofs!UncutAmbient` | `Uncut`, patient timers, no compaction: `Spec => []AmbientSafety` |
| `BusUncutProofs!UncutOwedIsBusy` | `Uncut`, patient timers, no turn of the CLI's own, at most one compaction: `Spec => []OwedIsBusy` |
| `BusUncutProofs!UncutDelivers` | the same, and replies that come before their turn's end is read: `Spec => []DeliverySafety` |
| `BusUncutProofs!UncutAnswers` | the same: `Spec => []AnswerSafety` |
| `WorkProofs!JobTypes` | `JobsSpec => []JobTypeOK` |
| `WorkProofs!RunsFit` | `JobsSpec => []RunsFitSlots` |
| `WorkProofs!JobHeardOnce` | `JobsSpec => []HeardOnce` |
| `WorkProofs!JobsWaitOnlyWhenFull` | `JobsSpec => []WaitsOnlyWhenFull` |
| `WorkProofs!SupervisorTypes` | `SupervisorSpec => []SupervisorTypeOK` |
| `WorkProofs!SupervisorIsSafe` | `SupervisorSpec => []SupervisorSafety`: one claude a session, one turn a claude, none untracked, the cap, none after a shutdown, and what a send reports |
| `WorkProofs!OutboxTypes` | `OutboxSpec => []OutboxTypeOK` |
| `WorkProofs!ChunksAreSafe` | `OutboxSpec => []ChunkSafety`: chunks in order, nothing lost, nothing skipped |
| `WorkProofs!WorkTypes` | `WorkSpec => []WorkTypeOK`, from the theorems of the three parts |
| `FilesProofs!PidTypes` | `PidSpec => []PidTypeOK` |
| `FilesProofs!LockExcludes` | `PidSpec => []LockIsExclusive` (which is conditional on `guardCrashes = 0`) |
| `FilesProofs!NamesOneDaemon` | `PidSpec => []OneNamedDaemon`, under the same condition |
| `FilesProofs!SessionTypes` | `SessionSpec => []SessionTypeOK` |
| `FilesProofs!OneWriterAlways` | `SessionSpec => []OneWriter` |
| `FilesProofs!DiskNamesLiveAlways` | `SessionSpec => []DiskNamesLive` |
| `FilesProofs!LogTypes` | `LogSpec => []LogTypeOK` |
| `FilesProofs!LogIsSafe` | `LogSpec => []LogSafety` (whose order of numbers is up to `lostPointers`) |
| `FilesProofs!LogIsDurable` | `LogSpec => ImplementsDurableLog`: the log of pointers and segments refines a set that only grows |
| `FilesProofs!FilesTypes` | `FilesSpec => []FilesTypeOK`, from the theorems of the three parts |

**The argument for the bus.** `IInv == TypeOK /\ Gate(bus) /\ Room`. `Gate` is four facts about the record: the
queue is *admissible* (its rotation matches its lanes, so a queue that exists has a prompt to serve), the turn is
*counted*, the origin is *deferred* to the awaited line, and a held gate is *timed*. None is inductive alone: that
the counter goes up by one at an admission needs the free gate, hence the agreement of counter and slot; that
`admitNext` serves a prompt and leaves the types needs the queue's shape; and the deadline is re-armed in some
handlers only by the final `publish` or `touchTurn`, so the handlers are followed with the first three parts
(`Parts`) and the deadline restored at the end. `Room` says a dead process still has a generation number to be
replaced by. The proof goes method by method, as the code is built: a lemma per operator says what it keeps
(first its type, then the gate), those that never touch the gate share one frame lemma, and one lemma per action
puts them together.

`NoStrandedPrompt` is false in general (section 5), and `OnlyThreeStrand` says exactly where: it goes once more through everything that
frees the gate, a line, a frame, a close, a hello, a readiness, a timer, and shows that it ends in `admitNext`, which leaves no prompt before a
free gate because the queue is admissible, or that something else holds the gate by then: the settle window, a streaming turn, the park
of a re-delivery. Three steps do neither. A reply clears `replyNudged` and returns; a terminator whose turn was released early clears
the streaming flag and returns; an absorbed line releases the counted turn and returns. Each disjunct is needed: without any one of
them, TLC finds a violation.

**The argument for the deliveries.** What the bus may still type is spread over five places: the deliveries in flight, the texts held behind an
initialising session, those carried over a close, those held through a compaction, and those under a flush verify. `BusLedgerProofs` keeps
a ledger of each prompt. `Place` says where it is and which places exclude each other: one delivery in flight at most, beside which it neither waits nor is held
through a compaction, and is verified only while the delivery's connection is open; held or carried, not both, and once. `Cost` says what it may
still cost, given how often it has been typed: what waits, is held through a compaction or is verified without a delivery has been typed once
at most; what waits and has been typed is a re-delivery already (`spent`); and a delivery in flight has at most its own keystrokes on top of one
earlier typing, and none if its failure may still lead to a re-delivery. `Account` adds the queue: a prompt that waits in it, or was
not sent, is in none of these, which is what admission needs. TLC checked the ledger over the delivery runs before it was proved. The proof
follows the code as the gate's does: an operator that is not about a prompt keeps its ledger (`Keep`), one of the turn's side leaves the deliveries
alone (`Stays`), a handler that admits nobody keeps ledger and queue (`Leaves`), and a lemma per action puts them together.
One step breaks `Cost`, and `RetryRearmed` names it: the init backstop arms the verify of a held prompt whose re-delivery is spent (section 5).
`NoPromptWaitsTwice` does not need to exclude it, `RetriesOnce` does: TLC finds the third typing in fifteen steps, with a kill, a
replacement, a hello that comes before the readiness marker, and the backstop.

**The argument for the uncut bus.** `AnswerSafety`, `DeliverySafety`, `AmbientSafety` and `OwedIsBusy` are false in general
(section 5), so their theorems say under which freedoms they hold: those of the runs `BusGate`, `BusDelivery` and `BusAmbient`, for any
prompts, chats, caps, verdicts, acknowledgements, double ends, absorption, late lines and number of swallowed texts. Every
hypothesis excludes a counterexample to one of the four, all of them in sections 3 and 5: a reminder and a late reply strand a prompt
(`BusStranded`), a cancel, or a turn nobody asked for beside a compaction, makes one run twice, a drop leaves one that the drain does not wait for, a replacement with a lost marker
types one a third time, an expired turn answers one twice, and so do replies that come after their turn's end; a second
compaction and impatient timers double a prompt. Not every theorem needs every hypothesis: `BusDrop`, `BusDeadline` and
`BusRespawn` check parts of them without one, on one instance.

Three invariants stand on each other. `Smooth` adds to `IInv` and the ledger that the bus is as its handlers leave it if nothing disturbs
them (`Steady`: no deferred origin, nothing held behind an initialising session or carried over, every delivery on the present connection)
and that the transcript says `absorbed` only inside a turn (`Bracketed`); the three steps of `OnlyThreeStrand` and `RetryRearmed` then cannot be
taken, which gives the first two theorems. `GivenOnce` follows a prompt from the bus into the model: it is in the CLI's input box or was given to the
model, not both, once; what the bus may still type has not been taken; and what is being verified or held through a compaction has not, unless
the line that says so is on its way and will be read before the timer fires. Here the number of compactions matters: a text
held through one is verified after it, and only a second one could keep it in the box until the verify has run out.
`OneAtATime` says that all that is under way is of the counted prompt: the text in the box, the turn, the lines not yet read, what is not yet typed or not
yet known to have been taken; so a prompt the model was not given waits in the queue or is counted, which is `OwedIsBusy`, and a transcript end whose id is
new is the counted turn's, though it carries no prompt. `Routed` adds the answers: a reply in flight is of the running turn, which has no
answer yet; the routing slot is the counted prompt's, or of the turn that ended last, and is empty once that is answered; so what a turn's
end says goes to the slot's chat, and the reply net synthesises only for a prompt without a final.

**The argument for the queue.** `PromptQueueProofs` proves, of `Enqueue`, `Dequeue` and `Withdraw` on a queue whose
rotation matches its lanes, the type, the shape, and what lies where in the new rotation. `PromptLanesProofs` adds the
history: a chat served since a waiting one last was stands behind it. That invariant is exactly the guard of
`FairLanes!Serve`, which makes the step simulation go through. `NothingLostNothingTwice` relates the lanes to the order of
arrivals, a second history: `Arrivals` says that a chat's lane is its part of it, kept by the enqueue because both
append, and by a removal because both lose the same prompt and keep the order of the rest. That the sizes agree with the
caps is a count: `enqueuePrompt` compares its cap with the sum over the lanes, which is the length of the arrivals.

`PreviewIsServed` equates two loops over data: the rounds of `queuedPrompts` over copies of the cursors, and repeated calls of `dequeuePrompt`. The
model writes both as recursive functions (`Nth`, `Round` and `Drained`), and the induction is by the least counterexample of a set of naturals, not
by a library theorem with an operator parameter. Over the rounds: a round that takes one prompt of each lane and leaves the
tails is the next round of the tails (`Telescope`). Over the drain: after any number of admissions, what was served and what the
preview promises of the rest is the first preview (`Promised`), because an admission takes the first of the rotation, whose chat goes to the end.

**The argument for the jobs.** `RunsFitSlots` needs that `maybeStart` starts at most the free slots, a fact about
cardinalities of places in the queue that is proved once and used by every action that calls it, and that every run
that has not settled is counted: `JobLife` says what a job's record, its run and its delivery may be together, job by job.
Evicting a record keeps it because only terminal records are evicted and a run that outlives its record is never
delivered. `WaitsOnlyWhenFull` needs that the queue holds exactly the jobs whose record says queued, each once: of such a queue
`maybeStart` skips nobody, so it takes a prefix, and leaves jobs behind only when the slots ran out.

**The argument for the supervisor.** None of the promises is inductive; three facts carry them. `LocksKept`: a call that uses an entry
stands in the entry's lock, at its head once it spawns, turns or respawns, and an entry a call holds never leaves the
table; this is one turn a claude. `ClaudesKnown`: the map has, key by key, the entry whose retirement is not done; a claude that may
write is on such an entry, has a record of the quarantine, or is stood in for by its pending spawn; and two entries of a key
never both have one. It needs the spawn beside the claude, because a landing may come after the retirement that did not
wait for it. `RoomKept`: while an admission waits for its victim it holds the admission lock, and once the eviction is
through there is room (or no ad-hoc entry that could be one too many). The steps are proved by what they change: those that leave
claudes alone share one lemma (`Calm`), those that end a claude another, and the fork is the only step that adds one.

**The argument for the outbox.** `ChunkSafety` is about what Telegram got; the invariant is about what is *left*. Memory and file agree on
it at every await (`SavedAsHeld`); what is left of a message, in the queue, in the drain's hand or in a send that may still arrive,
starts at a chunk whose predecessors Telegram has (`Remains`, `SentSoFar`, `LateInTurn`); and a message is queued once, after its
`deliver` ended (`QueuedOnce`), which is when `boundChunks` may cut it: until then Telegram has nothing of it but what `deliver` sent, and nothing
was cut; afterwards what there is to send of it (`whole`) is fixed, and no chunk in the queue, in hand or late is beyond it. A late send can therefore repeat a chunk and never open a gap. `Covered` is that nothing is lost: all
chunks the outbox took on arrived, or the message is queued, or it was dropped with a log line.

**The argument for the PID lock.** `Guarded` says who may be where: while nobody has died in the guard, the guard file names
exactly the process inside it (`GuardHeld`) and is never judged stale; a holder once judged dead stays dead while it is
remembered (`SeenGone`); so the lock removed inside the guard is not that of a process past `acquirePidLock`
(`LockHeld`), which is exclusion. For the daemon: whoever goes to remove a PID's file saw no daemon under it
(`TargetGone`), and what the lock holder knows of `daemon.pid` stays true until it acts (`FileKnown`).

**The argument for the session manager.** `SessionInv` is `OneWriter` and seven parts: claudes are numbered in the
order of forks and sessions only move forward (`Numbered`, `SessionsInOrder`); what this start of the daemon forked and
is still alive is registered, fenced or quarantined (`Contained`); the record names whatever was once recorded in the present
session and lives (`RecordHolds`); a spawn past its examination has no orphan of its session beside it (`SpawnIsAlone`); and what an
operation, or the registry, knows of its claude still holds after each await (`OpAgent`, `AgentKnown`).
`OneWriter` alone is not inductive: that a fork meets nobody is the gate's word, which is worth only what the containment
of the earlier claudes is.

**The argument for the event log.** `LogInv` has four parts. `LogTyped`: the pointers in memory are
known exactly while the process runs, and those, like the ones on disk that can be read, name a segment that was begun. `WritingKnown`: the
event under way is on disk from the rename of its segment on and never before. `Found`: every segment with an event whose
append returned is named by the pointers in memory, by the pair on disk if both can be read (the next start may
load it), *and* by the archive on disk, if it can be read, beside the current segment in memory, since a failed write leaves the one torn or old and
the next append saves the other. `Ordered`: numbers increase, and the pointers that will be used next, in memory or on disk if a start would trust them (`Trusted`), are ahead of every number on disk; it is lost,
for good, when a crash leaves both pointers behind the segment (section 5), so it is a disjunct beside `lostPointers`, and the
other parts, with the durability they give, hold whatever the crashes. The refinement maps the log to the set of stored events
and the set of events whose append returned: the rename is `Keep`, the save of the index is `Return`, and every
other step, a failed write among them, stutters, the repairs at a start because they only add empty segments.

**The compositions.** A step of `MCFiles` or `MCWork` is a step of one part and leaves the variables of the others, so the
specification of the whole implies that of each part (`FilesParts`, `WorkParts`), and every theorem of a part holds in the run
that checks the parts together.

---------------------------------------------------------------------------------------------------

## 7. What is only model-checked, and what is not modelled

Only TLC checks:
- liveness (`EveryPromptAdmitted`, `EveryPromptRuns`, `EveryPromptAnswered`, `EveryPromptLeaves`, `EveryJobLeavesQueue`,
  `EveryMessageSettles`, `EveryCallReturns`, `StaleLockIsCleared`, `EveryOpEnds`): liveness under fairness and ENABLED are out of the prover's reach;
- what the bus promises while something does cut a turn short: `AnswerSafety` with the reminder (`BusNudge`) and over a replaced process
  (`BusRespawn`), `PromptSafety` over an expired turn and a cancel (`BusDeadline`), `DeliverySafety` over a drop (`BusDrop`). These hold for the freedoms their run
  grants and are false when all are granted (section 5), and the invariants of section 6 do not cover them. What is proved for all freedoms is
  their core: one counted turn, a deadline on every held gate, a deferred origin that belongs to the
  awaited line, which three steps may leave a prompt before a free gate, that no prompt waits twice for its delivery, and that one step
  apart none is typed a third time. What `UncutAnswers` says of the reminder (`NudgeTypedOnce`, and `CarriedOnce` for it) is empty, since its
  hypotheses exclude one: that it is typed at most once a turn and does not wait twice is TLC's alone.

What the runs do not exercise: `BusGate` has no reminder, so `NudgeTypedOnce` is `BusNudge`'s to check; `BusNudge` has no turn that ends
empty; no passing run has a reply that comes after its turn's end was read (`ReplyOvertaken`); only one message of `Work` is proactive, so that a
newer one does not overtake held ones is not claimed; how often a chunk of the outbox is repeated is not bounded, and of an evicted message nothing is
claimed but its log line; a claude that a daemon forked and died before recording is outside `OneWriter`.

`SupervisorSafety` fails without the admission lock, the shutdown epoch, the stand-in of a pending spawn, the check on landing, the
joining of a spawn in flight, the gate or the quarantine. It does not fail without some second lines of defence, which the
model has because the code has them: the synchronous check beside the fork, the fences, the look at the quarantine under the
admission lock, the check of `isCurrentEntry` when a turn begins, and the wait for the eviction. With one session a key, the
first lines already suffice.

Left out of the bus model: the recording gate of #595 (a prompt waits for its agent's ownership record: it joins the bus with
the session manager, and that product is out of TLC's reach), `ask`, `request_human` and permission relays, slash commands, job
and schedule requests over IPC, the audit log and subscriber filtering, replies of an intent other than final, a second
connection superseding the first, text sanitising (a text is its own key), the clock. The confirm loop of the PTY layer
is its verdict; file offsets and rotation of the transcript are the order of lines.

Left out of the supervisor: MCP identities and configs, settings, the persistence of session ids, dropping `--resume` on a last
respawn, and the roots of untrusted one-shots; of the runtime it belongs to, the queues of `runner.ts` and the PTY of one claude.

Left out of the others: the restart rate limit and the tmux and process modes of the session manager, and how a
process is identified; damaged lines, pruning and statistics of the event log, and a write that fails while it starts (`initializationPromise` stays
rejected and every call throws until the daemon is started again, so on disk it is a crash); the wording, splitting and backoff lengths of
the outbox. The other components of the daemon are in section 1.3 with the reason.

---------------------------------------------------------------------------------------------------

## 8. Plan

Done: the bus with its queue, the session manager with its ownership record, the agent jobs, the event log with its abstract
specification, the PID lock, the Telegram outbox, the PTY supervisor, their runs and the theorems of section 6.

Next, the theorems: the bus that is cut short, one freedom at a time. A drop without a deadline keeps `DeliverySafety` and needs `Single` with a
parked gate and the carry-over; the reminder needs the ledger of a text that is typed once a turn, and an `OneAtATime` whose turns may be
about the prompt before; a deadline needs the deferred origin in the place of the counted prompt.

Next, the models: the reconciler and the scheduler once a clock is worth its states, and the wait of `sendPrompt` on the ownership
record as a composition of abstractions of `BusCore` and `SessionManager`.

---------------------------------------------------------------------------------------------------

## 9. How to run it

    tlc -workers 2 -config BusGate.cfg MCBusCore      # any Bus*.cfg
    tlc -workers 2 -config PromptLanes.cfg MCPromptLanes
    tlc -workers 2 -config Work.cfg MCWork            # and JobSlotLost.cfg
    tlc -workers 2 -config Files.cfg MCFiles
    tlapm SequenceLemmas.tla                          # then PromptQueueProofs, PromptLanesProofs,
                                                      # BusCoreProofs, BusLedgerProofs, BusUncutProofs,
                                                      # WorkProofs, FilesProofs

All the `Bus*` runs use `MCBusCore`; a cfg differs from the others in the prompts it sends, the freedoms it grants and the
properties it lists. The proofs take about half an hour from scratch.
