-------------------------------- MODULE BusCore --------------------------------
(***************************************************************************)
(* One agent of the bus (src/bus/core.ts) and the CLI it drives: prompts   *)
(* sent by several chats, one turn at a time, over a PTY, a transcript and *)
(* a socket that fail separately.                                          *)
(*                                                                         *)
(* One action for each thing that runs the bus: a caller, a transcript     *)
(* line, an IPC frame, a socket event, a settled PTY delivery, a timer.    *)
(* The bus runs each to its end before the next (one JavaScript task).  A  *)
(* timer may fire at any moment while it is armed.                         *)
(***************************************************************************)
EXTENDS BusTurn, AgentCli

CONSTANTS Verdicts,    \* the verdicts the PTY layer gives in this instance
          MaxDeadlines, \* bound: turns silent for turnDeadlineMs
          MaxDrops,    \* bound: socket drops with the process alive
          MaxSwallows, \* bound: texts a live TUI swallows
          NewSessions, \* whether a replacement starts a session of its own
          MarkerLost,  \* a replacement's replay_done may never come
          Patient     \* the delivery timers outlast an idle CLI, a compaction and the tailer

ASSUME CoreAssumption ==
  /\ Verdicts \subseteq {"none", "error", "stuck-compaction", "gave-up", "turn-started"}
  /\ NewSessions \subseteq BOOLEAN
  /\ MarkerLost \in BOOLEAN /\ Patient \in BOOLEAN
  /\ MaxDeadlines \in Nat /\ MaxDrops \in Nat /\ MaxSwallows \in Nat

VARIABLES bus,        \* BusCoreImpl's state for the agent
          connected,  \* ipcServer.hasConnection
          sent,       \* history: the prompts sendPrompt accepted
          typed,      \* history: how often each text was typed into a REPL
          finals,     \* history: the finals published about each prompt
          drops, swallows, expired

coreVars == <<bus, connected, sent, typed, finals, drops, swallows, expired>>
vars == <<coreVars, cliVars>>

\* The first process is up, its tailer has said so and its MCP server said hello.
StartedBus == OnHello(ReplayDone(Spawned(FreshBus, 1), 1, 1, FALSE))

CoreInit ==
  /\ bus = StartedBus
  /\ connected = TRUE
  /\ sent = {}
  /\ typed = [x \in Texts |-> 0]
  /\ finals = [p \in Prompts |-> <<>>]
  /\ drops = 0 /\ swallows = 0 /\ expired = 0
  /\ CliInit

--------------------------------------------------------------------------------
Unlogged == UNCHANGED <<sent, typed, finals, drops, swallows, expired>>

\* A final reaches the subscribers; the silent one shows nothing.
Log(final) ==
  finals' = IF final = None
              THEN finals
              ELSE [p \in Prompts |-> IF p \in final.about THEN Append(finals[p], final) ELSE finals[p]]

Send(p) ==
  /\ p \notin sent
  /\ sent' = IF MustQueue(bus) /\ Refuses(bus.queue, p) THEN sent ELSE sent \cup {p}
  /\ bus' = SendPrompt(bus, p, connected)
  /\ UNCHANGED <<connected, typed, finals, drops, swallows, expired, cliVars>>

\* The PTY layer serialises the writes into one process.
IsNext(i) ==
  /\ i \in DOMAIN bus.deliveries
  /\ \A j \in 1 .. i - 1 : bus.deliveries[j].gen # bus.deliveries[i].gen

PtyType(i) ==
  /\ IsNext(i)
  /\ ~bus.deliveries[i].typed
  /\ cli.up /\ bus.deliveries[i].gen = cli.gen
  /\ LET x == bus.deliveries[i].text
     IN  /\ typed' = [typed EXCEPT ![x] = @ + 1]
         /\ bus' = [bus EXCEPT !.deliveries[i].typed = TRUE]
         /\ \/ /\ cli' = [cli EXCEPT !.box = Append(@, x)]
               /\ UNCHANGED swallows
            \/ /\ cli.booting
               /\ UNCHANGED <<cli, swallows>>
            \/ /\ ~cli.booting
               /\ swallows < MaxSwallows
               /\ swallows' = swallows + 1
               /\ UNCHANGED cli
  /\ UNCHANGED <<connected, sent, finals, drops, expired, lines, frames>>

AllTailed == \A g \in 1 .. MaxGen : lines[g] = <<>>

\* A CLI has booted, taken its input if idle, and its lines have been read, by
\* the time the PTY layer gives up or a timer of flushVerifyMs fires.
Reacted ==
  /\ AllTailed
  /\ ~cli.booting
  /\ ~(Ready /\ cli.turn = None /\ cli.box # <<>>)

\* What the PTY layer can report of delivery i: nothing when no process is
\* registered, an error when the one it wrote to is gone, a turn only once the
\* CLI has recorded the prompt, a give-up when it has not.
MayReport(i, outcome) ==
  LET d     == bus.deliveries[i]
      alive == cli.up /\ d.gen = cli.gen
  IN  CASE outcome = "none"             -> ~cli.up
        [] outcome = "error"            -> ~alive
        [] outcome = "stuck-compaction" -> alive /\ d.typed /\ cli.compacting
        [] outcome = "gave-up"          -> alive /\ d.typed /\ ~cli.compacting /\ (Patient => Reacted)
        [] outcome = "turn-started"     -> d.typed /\ (cli.runs[d.text] > 0 \/ Contains(cli.box, d.text))

Cleared(i) == cli' = [cli EXCEPT !.box = Without(@, bus.deliveries[i].text)]

\* The promise of a delivery settles.  A give-up clears the input box: that
\* takes the text back unless the CLI has queued it, behind a turn or, where
\* keystrokes are not lost, through a compaction.
PtySettle(i) ==
  /\ IsNext(i)
  /\ \E outcome \in Verdicts :
       /\ MayReport(i, outcome)
       /\ bus' = Verdict(bus, i, outcome, cli.compactions)
       /\ \/ /\ outcome = "gave-up"
             /\ Cleared(i) /\ UNCHANGED swallows
          \/ /\ outcome = "stuck-compaction"
             /\ swallows < MaxSwallows
             /\ Cleared(i) /\ swallows' = swallows + 1
          \/ /\ outcome = "gave-up" => cli.turn # None
             /\ UNCHANGED <<cli, swallows>>
  /\ UNCHANGED <<connected, sent, typed, finals, drops, expired, lines, frames>>

\* The tailer of generation g hands the bus its next line.  A tailer is stopped
\* as its process exits, well before its replacement's first line.
TailLine(g) ==
  /\ lines[g] # <<>>
  /\ \A h \in 1 .. g - 1 : lines[h] = <<>>
  /\ lines' = [lines EXCEPT ![g] = Tail(@)]
  /\ LET l == Head(lines[g])
         nudges == /\ l.kind = "end" /\ connected
                   /\ ~LateLine(bus, l.id) /\ ~Stale(bus)
                   /\ NetVerdict(bus, l.text, l.inject) = "nudge"
     IN  /\ CASE l.kind = "prompt"   -> bus' = PromptLine(bus, l.text)
              [] l.kind = "absorbed" -> bus' = AbsorbedLine(bus, l.text)
              [] l.kind = "end"      -> bus' = TurnEnd(bus, l.id, l.text, l.inject, connected)
              [] l.kind = "init"     -> bus' = InitLine(bus, l.session)
              [] l.kind = "replay"   -> bus' = ReplayDone(bus, l.gen, l.session, connected)
              [] l.kind = "compact"  -> \E tolerant \in BOOLEAN : bus' = CompactLine(bus, l.gen, l.nth, tolerant)
         /\ Log(IF l.kind = "end" THEN TurnEndFinal(bus, l.id, l.text, l.inject) ELSE None)
         \* the CLI takes the IPC nudge for input, or ignores the notification
         /\ \/ nudges /\ cli' = [cli EXCEPT !.box = Append(@, NudgeNote)]
            \/ UNCHANGED cli
  /\ UNCHANGED <<connected, sent, typed, drops, swallows, expired, frames>>

\* The tailer of a process that exited stops without reading the rest.
StopTailer(g) ==
  /\ g < cli.gen \/ ~cli.up
  /\ lines[g] # <<>>
  /\ lines' = [lines EXCEPT ![g] = <<>>]
  /\ Unlogged
  /\ UNCHANGED <<bus, connected, cli, frames>>

ReadFrame ==
  /\ frames # <<>>
  /\ ~LinesOvertaken => AllTailed
  /\ frames' = Tail(frames)
  /\ LET f == Head(frames)
     IN  CASE f.kind = "reply"  ->
                /\ bus' = IngestReply(bus, f.named, "reply")
                /\ Log(IF Duplicate(bus, f.named, "reply")
                         THEN None
                         ELSE Final(f.about, Effective(bus, f.named, "reply"), "reply"))
           [] f.kind = "cancel" ->
                /\ bus' = Abandon(bus, connected)
                /\ UNCHANGED finals
  /\ UNCHANGED <<connected, sent, typed, drops, swallows, expired, cli, lines>>

--------------------------------------------------------------------------------
\* The socket closes with the process alive; what was written was read first.
Drop ==
  /\ connected /\ frames = <<>>
  /\ drops < MaxDrops
  /\ drops' = drops + 1
  /\ connected' = FALSE
  /\ bus' = OnClose(bus)
  /\ UNCHANGED <<sent, typed, finals, swallows, expired, cliVars>>

Hello ==
  /\ ~connected
  /\ cli.up /\ ~cli.booting
  /\ connected' = TRUE
  /\ bus' = OnHello(bus)
  /\ Unlogged
  /\ UNCHANGED cliVars

\* The process dies, with its turn and its input; its socket closes.
Kill ==
  /\ cli.up /\ cli.gen < MaxGen
  /\ frames = <<>>
  /\ cli' = [cli EXCEPT !.up = FALSE, !.box = <<>>, !.turn = None, !.compacting = FALSE, !.prev = {}]
  /\ connected' = FALSE
  /\ bus' = IF connected THEN OnClose(bus) ELSE bus
  /\ Unlogged
  /\ UNCHANGED <<lines, frames>>

\* The session manager spawns a replacement and announces its generation; its
\* tailer's first lines come in the order a fresh or a resumed session has.
Respawn ==
  /\ ~cli.up
  /\ LET gen == cli.gen + 1
     IN  \E fresh \in NewSessions :
           LET session == IF fresh THEN gen ELSE bus.liveSession
               init    == [kind |-> "init", session |-> session]
               replay  == [kind |-> "replay", gen |-> gen, session |-> session]
           IN  /\ cli' = [cli EXCEPT !.gen = gen, !.up = TRUE, !.booting = TRUE]
               /\ bus' = Spawned(bus, gen)
               /\ \E boot \in {<<replay>>, <<replay, init>>, <<init, replay>>}
                              \cup (IF MarkerLost THEN {<<init>>} ELSE {}) :
                    lines' = [lines EXCEPT ![gen] = boot]
  /\ Unlogged
  /\ UNCHANGED <<connected, frames>>

--------------------------------------------------------------------------------
SettleTimer ==
  /\ bus.settle
  /\ bus' = Settled(bus, connected)
  /\ Unlogged
  /\ UNCHANGED <<connected, cliVars>>

DeadlineTimer ==
  /\ bus.deadline
  /\ expired < MaxDeadlines
  /\ expired' = expired + 1
  /\ bus' = TurnDeadline(bus, connected)
  /\ UNCHANGED <<connected, sent, typed, finals, drops, swallows, cliVars>>

VerifyFires(x) ==
  /\ Patient => Reacted
  /\ bus.verify[x] \in {"armed", "graced"}
  /\ bus' = VerifyTimer(bus, x)
  /\ Unlogged
  /\ UNCHANGED <<connected, cliVars>>

HoldDeadline(x) ==
  /\ Patient => ~cli.compacting
  /\ bus.hold[x] # None
  /\ bus' = ReleaseHold(bus, {x})
  /\ Unlogged
  /\ UNCHANGED <<connected, cliVars>>

BackstopFires ==
  /\ Patient => AllTailed
  /\ bus.init
  /\ bus' = InitBackstop(bus, connected)
  /\ Unlogged
  /\ UNCHANGED <<connected, cliVars>>

FallbackFires ==
  /\ Patient => Reacted
  /\ bus.fallback
  /\ bus' = NudgeFallback(bus)
  /\ Unlogged
  /\ UNCHANGED <<connected, cliVars>>

PtyMoves == \E i \in DOMAIN bus.deliveries : PtyType(i) \/ PtySettle(i)

CliMoves == CliStep(connected) /\ UNCHANGED coreVars

Next ==
  \/ \E p \in Prompts : Send(p)
  \/ PtyMoves
  \/ \E g \in 1 .. MaxGen : TailLine(g) \/ StopTailer(g)
  \/ ReadFrame
  \/ Drop
  \/ Hello
  \/ Kill
  \/ Respawn
  \/ SettleTimer
  \/ DeadlineTimer
  \/ \E x \in Texts : VerifyFires(x) \/ HoldDeadline(x)
  \/ BackstopFires
  \/ FallbackFires
  \/ CliMoves

Spec == CoreInit /\ [][Next]_vars

\* The PTY layer settles its promises, the tailer and the IPC server read what
\* is written, armed timers fire, and the CLI, while it lives, takes its input
\* and ends its turns.  Nothing makes it reply.
Fairness ==
  /\ WF_vars(PtyMoves) /\ WF_vars(ReadFrame)
  /\ \A g \in 1 .. MaxGen : WF_vars(TailLine(g))
  /\ WF_vars(SettleTimer) /\ WF_vars(DeadlineTimer)
  /\ \A x \in Texts : WF_vars(VerifyFires(x)) /\ WF_vars(HoldDeadline(x))
  /\ WF_vars(BackstopFires) /\ WF_vars(FallbackFires)
  /\ WF_vars(Hello) /\ WF_vars(Respawn)
  /\ WF_vars(StartTurn /\ UNCHANGED coreVars) /\ WF_vars(EndTurn /\ UNCHANGED coreVars)
  /\ WF_vars(EndCompaction /\ UNCHANGED coreVars) /\ WF_vars(FinishBoot /\ UNCHANGED coreVars)

FairSpec == Spec /\ Fairness

--------------------------------------------------------------------------------
TypeOK ==
  /\ bus \in BusStates
  /\ connected \in BOOLEAN
  /\ sent \subseteq Prompts
  /\ typed \in [Texts -> Nat]
  /\ \A p \in Prompts : finals[p] \in Seq([about : SUBSET Prompts, to : ChatOrNone,
                                          kind : {"reply", "synthetic", "silent"}])
  /\ drops \in Nat /\ swallows \in Nat /\ expired \in Nat
  /\ CliTypeOK

\* Every counted turn is one prompt's, and there is at most one: the counter
\* `pendingTurns` and the slot `currentOperation` never disagree (#239).
OneCountedTurn ==
  /\ bus.pending \in {0, 1}
  /\ bus.op = None <=> bus.pending = 0

\* The gate is never held without the deadline that frees it (#372).
HeldGateHasDeadline == ~SlotFree(bus) => bus.deadline

\* A prompt whose origin is deferred is the one whose own line is awaited, so
\* the line that proves its turn also gives its chat the slot (#239).
DeferredOriginIsAwaited ==
  bus.pendingOrigin # None => bus.awaitLine = bus.pendingOrigin

\* No text waits twice for its delivery, held behind an initialising session or
\* carried over a close: each copy would be typed (#252, #361).
CarriedOnce ==
  LET waiting == bus.held \o bus.carried
  IN  \A i, j \in DOMAIN waiting : i # j => waiting[i] # waiting[j]

\* The same of the prompts, the reminder of the reply net left out.
PromptsCarriedOnce ==
  LET waiting == bus.held \o bus.carried
  IN  \A i, j \in DOMAIN waiting : i # j /\ waiting[i] \in Prompts => waiting[i] # waiting[j]

\* Whatever frees the gate admits the next prompt: none waits before a free one.
NoStrandedPrompt == SlotFree(bus) => ~HasQueue(bus.queue)

\* The three ways a prompt is left before a free gate: a reply that settles the
\* reminder comes late, a turn released early ends behind the newcomer's back, or
\* a running turn absorbs the counted prompt while it is not known to run.
LateReplyToNudge == ReadFrame /\ bus.nudged /\ ~bus'.nudged

TailsLine(kind) == \E g \in 1 .. MaxGen : TailLine(g) /\ Head(lines[g]).kind = kind

ReleasedTurnEnds == Stale(bus) /\ TailsLine("end")

CountedPromptAbsorbed == bus.op # None /\ bus'.op = None /\ TailsLine("absorbed")

\* Every other step that frees the gate, and there are a dozen, admits the next
\* prompt or leaves the gate held by something else.
StrandedByThreeSteps ==
  [][NoStrandedPrompt /\ ~NoStrandedPrompt' =>
       LateReplyToNudge \/ ReleasedTurnEnds \/ CountedPromptAbsorbed]_vars

\* No text reaches a REPL more than twice: one delivery, one re-delivery (#402).
AtMostOneRetry == \A p \in Prompts : typed[p] <= 2

\* The one step that makes a third typing possible: the init backstop arms the
\* verify of a prompt it held, though its one re-delivery was spent on a close.
RetryRearmed == BackstopFires /\ \E p \in Prompts : Contains(bus.held, p) /\ p \in bus.spent

\* The model is given no prompt twice.
RunsOnce == \A p \in Prompts : cli.runs[p] <= 1

\* A prompt costs at most one typed reminder: a reminder is never re-delivered
\* (#361).
NudgeTypedOnce == typed[Nudge] <= Cardinality(sent)

\* A turn's text and its replies reach the chat they answer, or none.
AnswersGoHome ==
  \A p \in Prompts : \A i \in DOMAIN finals[p] : finals[p][i].to \in {Chat[p], None}

\* A prompt is answered once: a real reply and the synthesised one never both.
OneFinalEach == \A p \in Prompts : Len(finals[p]) <= 1

\* A prompt the model has not been given is work the shutdown drain waits for:
\* no accepted prompt is lost to a restart the bus called free (#315).
OwedIsBusy == \A p \in sent : cli.runs[p] = 0 => Busy(bus)

\* What the gate owes every prompt, whatever freed it: it is admitted, typed at
\* most twice, and its answer reaches its own chat.
PromptSafety == NoStrandedPrompt /\ AnswersGoHome /\ AtMostOneRetry

\* What the reply net adds while no deadline cuts a turn short: one answer each,
\* for at most one reminder.
AnswerSafety == PromptSafety /\ OneFinalEach /\ NudgeTypedOnce /\ CarriedOnce

\* What the delivery verify owes it: neither a second copy nor a stray answer.
DeliverySafety == RunsOnce /\ AtMostOneRetry /\ AnswersGoHome

\* Turns nobody asked for take no place in the count, the queue or the REPL.
AmbientSafety == OneCountedTurn /\ NoStrandedPrompt /\ RunsOnce

\* No prompt waits in the queue for ever (#239): a missed admission is the only
\* way to strand one.
EveryPromptAdmitted == \A p \in Prompts : p \in Queued(bus.queue) ~> p \notin Queued(bus.queue)

\* Every accepted prompt reaches the model, whatever a compaction or a swallowed
\* keystroke did to its first delivery (#402).
EveryPromptRuns == \A p \in Prompts : p \in sent ~> cli.runs[p] > 0

\* Every accepted prompt is answered in the end, by the reply it called for or by
\* what the net makes of its turn (#215), unless it calls for none.
EveryPromptAnswered == \A p \in Prompts \ Acks : p \in sent ~> finals[p] # <<>>
================================================================================
