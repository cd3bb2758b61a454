-------------------------------- MODULE BusTurn --------------------------------
(***************************************************************************)
(* The handlers of BusCoreImpl (src/bus/core.ts) that open and end turns:  *)
(* admission, replies, the reply nudge, the transcript's lines, the socket *)
(* and IPC events, readiness and the timers.                               *)
(*                                                                         *)
(* What a turn or a reply says is the set of prompts it answers; a text    *)
(* that is None is an empty one.  A final the bus publishes is a record of *)
(* what it answers, the chat it is sent to (None: no origin) and its kind. *)
(***************************************************************************)
EXTENDS BusDelivery

Final(about, to, kind) == [about |-> about, to |-> to, kind |-> kind]

--------------------------------------------------------------------------------
(* Admission *)

\* admitPrompt, for a bus whose PTY layer reaches the agent.  `connected` is
\* ipcServer.hasConnection: a prompt typed over a broken socket is verified,
\* and so is one typed while the turn before it may still run.
AdmitPrompt(b, p, connected) ==
  LET awaits  == b.earlyReleased \/ b.awaitLine # None
      counted == Publish([b EXCEPT !.overlap = b.op # None \/ b.deadlineReleased,
                                   !.deadlineReleased = FALSE,
                                   !.earlyReleased = FALSE,
                                   !.awaitLine = IF awaits THEN p ELSE None,
                                   !.op = p,
                                   !.pending = @ + 1])
      routed  == IF awaits THEN [counted EXCEPT !.pendingOrigin = p] ELSE ApplyOrigin(counted, p)
      opened  == [OpenTurn(routed) EXCEPT !.nudged = FALSE, !.stash = None]
      sent    == DeliverOrQueue(opened, p)
  IN  IF (~connected \/ awaits) /\ ~b.init THEN ArmVerify(sent, {p}) ELSE sent

\* admitNext: the head of the queue, if the gate is free.
AdmitNext(b, connected) ==
  IF SlotFree(b) /\ HasQueue(b.queue)
    THEN AdmitPrompt([b EXCEPT !.queue = Dequeue(@)], NextPrompt(b.queue), connected)
    ELSE b

MustQueue(b) == ~SlotFree(b) \/ HasQueue(b.queue)

\* sendPrompt.  A refused prompt is the caller's error and changes nothing.
SendPrompt(b, p, connected) ==
  CASE ~MustQueue(b)                            -> AdmitPrompt(b, p, connected)
    [] MustQueue(b) /\ Refuses(b.queue, p)      -> [b EXCEPT !.queue = Enqueue(@, p)]
    [] MustQueue(b) /\ ~Refuses(b.queue, p)     -> AdmitNext([b EXCEPT !.queue = Enqueue(@, p)], connected)

--------------------------------------------------------------------------------
(* Replies *)

SlotChat(b) == IF b.slot = None THEN None ELSE Chat[b.slot]

\* The chat a reply is routed to: the one it names, if that chat ever
\* prompted; else the slot's; else, for a final, the one closed in silence.
Effective(b, named, kind) ==
  IF named # None /\ named \in b.known THEN named
  ELSE IF b.slot # None                THEN SlotChat(b)
  ELSE IF kind # "silent"              THEN b.silentClosed
  ELSE None

\* ingestReply drops a real final for a turn or chat that already has one.
Duplicate(b, named, kind) ==
  LET to == Effective(b, named, kind)
  IN  /\ kind = "reply"
      /\ IF to # None THEN to \in b.answered ELSE b.published

\* ingestReply with intent "final"; kind is "reply", "synthetic" or "silent".
IngestReply(b, named, kind) ==
  LET to         == Effective(b, named, kind)
      namesOther == /\ named # None /\ named \in b.known
                    /\ b.slot # None
                    /\ SlotChat(b) # named
      routed     == IF namesOther
                      THEN Publish(b)
                      ELSE [Publish(b) EXCEPT !.slot = None, !.slotAmbiguous = FALSE]
      settled    == [routed EXCEPT !.replied = TRUE, !.nudged = FALSE, !.stash = None]
  IN  IF Duplicate(b, named, kind) THEN b
      ELSE IF kind = "silent"
        THEN [settled EXCEPT !.silentClosed = IF b.slot # None THEN SlotChat(b) ELSE @]
        ELSE [settled EXCEPT !.silentClosed = None,
                             !.published = TRUE,
                             !.answered = IF to # None THEN @ \cup {to} ELSE @]

--------------------------------------------------------------------------------
(* The end of a turn *)

\* The text the silent-drop net would deliver for a turn that ended in `text`.
NetText(b, text) == IF text # None THEN text ELSE IF b.nudged THEN b.stash ELSE None

\* The slot holds a chat whose surface has a user (or a caller) waiting.
UserWaits(b) == b.slot # None /\ SlotChat(b) \in ChannelDriven

\* Slip: a nudged turn that stays silent is given up.
NetNudgesOnly(b, text, inject) ==
  IF b.replied \/ b.published \/ NetText(b, text) = None \/ ~UserWaits(b) \/ b.nudged
    THEN "nothing"
    ELSE "nudge"

\* What handleTurnEnd decides for a terminator, in the order it asks.
NetVerdict(b, text, inject) ==
  IF b.replied \/ b.published                                   THEN "nothing"
  ELSE IF inject /\ UserWaits(b) /\ SlotChat(b) # Inject        THEN "nothing"
  ELSE IF UserWaits(b) /\ b.slot \in Acks /\ ~b.nudged          THEN "silent"
  ELSE IF NetText(b, text) = None \/ ~UserWaits(b)              THEN "nothing"
  ELSE IF NudgeEnabled /\ ~b.nudged /\ SlotChat(b) # Inject     THEN "nudge"
  ELSE "synthesize"

\* Slip: the nudge goes out over both transports.
NudgeBothWays(b, text, connected) ==
  DeliverOrQueue([b EXCEPT !.nudged = TRUE, !.stash = text,
                           !.replied = FALSE, !.published = FALSE, !.answered = {}], Nudge)

\* nudgeForReply: one transport per nudge, the PTY copy armed behind the IPC one.
NudgeForReply(b, text, connected) ==
  LET asked == [b EXCEPT !.nudged = TRUE, !.stash = text,
                         !.replied = FALSE, !.published = FALSE, !.answered = {},
                         !.fallback = connected]
  IN  IF connected THEN asked ELSE DeliverOrQueue(asked, Nudge)

\* handleTurnEnd: the silent-drop net.
HandleTurnEnd(b, text, inject, connected) ==
  CASE NetVerdict(b, text, inject) = "nothing"    -> b
    [] NetVerdict(b, text, inject) = "silent"     -> IngestReply([b EXCEPT !.replied = TRUE], None, "silent")
    [] NetVerdict(b, text, inject) = "nudge"      -> NudgeForReply(b, NetText(b, text), connected)
    [] NetVerdict(b, text, inject) = "synthesize" ->
         IngestReply([b EXCEPT !.replied = TRUE, !.nudged = FALSE, !.stash = None], None, "synthetic")

\* handleStaleTurnEnd acts: a released turn's text still goes to its chat.
NetRunsStale(b, text, inject) ==
  /\ text # None
  /\ b.slot # None
  /\ SlotChat(b) \in ChannelDriven
  /\ inject => SlotChat(b) = Inject

HandleStaleTurnEnd(b, text, inject) ==
  IF NetRunsStale(b, text, inject) THEN OpenTurn(IngestReply(b, None, "synthetic")) ELSE b

Stale(b) == b.awaitLine # None

\* Slip: the line of a message already over is taken for the newcomer's.
NoLateLine(b, id) == FALSE

\* A further line of a message whose turn is over and a new one admitted.
LateLine(b, id) == id = b.lastEnd /\ ~Stale(b) /\ ~b.settle /\ b.op # None

\* The `response.turn_end` branch of ingestSessionEvent.
TurnEnd(b, id, text, inject, connected) ==
  LET stale    == Stale(b)
      net      == IF stale THEN HandleStaleTurnEnd(b, text, inject)
                           ELSE HandleTurnEnd(b, text, inject, connected)
      unparks  == ~stale \/ b.redelivered = {}
      over     == [net EXCEPT !.streaming = FALSE,
                              !.parked = IF unparks THEN FALSE ELSE @,
                              !.redelivered = IF unparks THEN {} ELSE @,
                              !.earlyReleased = IF stale THEN @ ELSE FALSE,
                              !.deadlineReleased = IF stale THEN @ ELSE FALSE,
                              !.lastEnd = id]
      said     == Publish(over)
      released == IF id # b.lastEnd /\ ~stale THEN ReleaseTurn(said) ELSE said
  IN  IF LateLine(b, id) THEN b
      ELSE IF stale THEN Touch(released)
      ELSE ScheduleAdmit(released)

\* The final a terminator makes the bus publish, or None.
TurnEndFinal(b, id, text, inject) ==
  LET verdict == NetVerdict(b, text, inject)
  IN  IF LateLine(b, id) THEN None
      ELSE IF Stale(b)
        THEN IF NetRunsStale(b, text, inject) THEN Final(text, SlotChat(b), "synthetic") ELSE None
      ELSE IF verdict = "synthesize" THEN Final(NetText(b, text), SlotChat(b), "synthetic")
      ELSE IF verdict = "silent"     THEN Final({}, SlotChat(b), "silent")
      ELSE None

--------------------------------------------------------------------------------
(* The transcript's other lines (ingestSessionEvent) *)

\* `prompt`: a turn starts, whoever opened it (None: a text the bus never sent).
PromptLine(b, x) ==
  LET noted   == NoteFlushTurnStart(b, x)
      nudgeIn == [noted EXCEPT !.fallback = @ /\ x \notin {Nudge, NudgeNote}]
      taken   == TakeAwaitedLine(nudgeIn, x)
  IN  Publish(OpenTurn([taken EXCEPT !.streaming = TRUE]))

\* `session.queue` / `attachment.queued_command`: a text the running turn
\* absorbed (noteAbsorbedPrompt), then published.
AbsorbedLine(b, x) ==
  LET nudgeIn == [b EXCEPT !.fallback = @ /\ x \notin {Nudge, NudgeNote}]
      taken   == TakeAwaitedLine(nudgeIn, x)
      noted   == NoteFlushTurnStart(taken, x)
  IN  Publish(IF WasUnverified(taken, x) THEN ReleaseTurn(noted) ELSE noted)

\* `session.init`: hold deliveries unless this session is known to be live.
InitLine(b, session) ==
  Publish(IF b.liveSession = session THEN b ELSE [b EXCEPT !.init = TRUE])

\* The holds a `session.compact` line releases: of its own generation, and
\* taken before it; `tolerant` is the 2 s of clock slack applying.
HoldsEndedBy(b, gen, nth, tolerant) ==
  {x \in HeldTexts(b) : /\ b.hold[x].gen \in {0, gen}
                        /\ b.hold[x].since < nth \/ tolerant}

CompactLine(b, gen, nth, tolerant) == Publish(ReleaseHold(b, HoldsEndedBy(b, gen, nth, tolerant)))

--------------------------------------------------------------------------------
(* Readiness *)

\* markAgentReady's last part: a new generation cannot still run the old turn.
NewGeneration(b) ==
  LET unparked == [b EXCEPT !.parked = IF b.redelivered = {} THEN FALSE ELSE @,
                            !.awaitLine = None,
                            !.earlyReleased = FALSE,
                            !.deadlineReleased = FALSE]
      reruns   == b.awaitLine = None \/ b.awaitLine \in b.redelivered
  IN  IF reruns THEN ApplyPendingOrigin(unparked) ELSE [unparked EXCEPT !.pendingOrigin = None]

\* markAgentReady after the marker was accepted; newGen is 0 unless it was the
\* replay_done of a generation newer than the live one.
Readied(b, newGen, viaBackstop, connected) ==
  LET idle     == [b EXCEPT !.init = FALSE, !.streaming = FALSE]
      older    == {x \in HeldTexts(idle) : idle.hold[x].gen # newGen}
      unheld   == IF newGen # 0 THEN ReleaseHold(idle, older) ELSE idle
      again    == unheld.carried \o unheld.held
      out      == Reissue([unheld EXCEPT !.carried = <<>>, !.held = <<>>], again)
      verified == IF viaBackstop /\ unheld.held # <<>> THEN ArmVerify(out, ToSet(unheld.held)) ELSE out
      renewed  == Touch(IF newGen # 0 THEN NewGeneration(verified) ELSE verified)
  IN  IF again = <<>> THEN AdmitNext(renewed, connected) ELSE renewed

\* `bus.events.replay_done` of a numbered tailer; one older than the newest
\* generation known is ignored.
ReplayDone(b, gen, session, connected) ==
  IF gen < CurrentGen(b)
    THEN Publish(b)
    ELSE Publish(Readied([b EXCEPT !.liveGen = gen, !.liveSession = session, !.ready = TRUE],
                         IF b.liveGen # 0 /\ gen > b.liveGen THEN gen ELSE 0,
                         FALSE, connected))

\* The delivery backstop of markAgentInitializing.
InitBackstop(b, connected) == Readied(b, 0, TRUE, connected)

\* noteSpawnedGeneration: the session manager announces a replacement.
Spawned(b, gen) == [b EXCEPT !.spawnedGen = BiggerOf(@, gen)]

--------------------------------------------------------------------------------
(* The MCP socket, and what the agent says over it *)

\* Slip: a close frees the gate of a turn the process may still be running.
OnCloseUnparked(b) == AdmitNext(Touch([CloseDeliveries(DropTurn(b)) EXCEPT !.streaming = FALSE]), FALSE)

\* onClose: the turn's slots go, its deliveries are carried over, and the gate
\* is parked if a turn was live, since most closes leave the process running.
OnClose(b) ==
  LET live    == b.streaming \/ b.op # None
      dropped == [CloseDeliveries(DropTurn(b)) EXCEPT
                    !.deadlineReleased = FALSE,
                    !.streaming = FALSE,
                    !.parked = IF live THEN TRUE ELSE @,
                    !.redelivered = {}]
  IN  IF live THEN Touch(dropped) ELSE AdmitNext(Touch(dropped), FALSE)

\* onHello: the same process back; a carried prompt goes out unless a
\* replay_done drained the carry-over already.
OnHello(b) ==
  IF b.ready
    THEN [b EXCEPT !.hello = TRUE]
    ELSE Reissue([b EXCEPT !.hello = TRUE, !.carried = <<>>], b.carried)

\* Slip: the next prompt's origin does not wait for its own line.
AbandonOutright(b, connected) ==
  AdmitNext(Touch([DropTurn(Publish(b)) EXCEPT !.streaming = FALSE, !.parked = FALSE]), connected)

\* `cancel` and `error`: no terminator will come, yet the CLI's turn may go on.
Abandon(b, connected) ==
  LET dropped == [DropTurn(Publish(b)) EXCEPT !.streaming = FALSE,
                                              !.parked = FALSE,
                                              !.redelivered = {},
                                              !.earlyReleased = TRUE]
  IN  AdmitNext(Touch(dropped), connected)

--------------------------------------------------------------------------------
(* Timers *)

\* onTurnDeadline: release what holds the gate, keep the origin for a late reply.
TurnDeadline(b, connected) ==
  LET fired    == [b EXCEPT !.deadline = FALSE]
      released == [fired EXCEPT !.op = None, !.overlap = FALSE, !.pending = 0,
                                !.nudged = FALSE, !.stash = None,
                                !.streaming = FALSE, !.parked = FALSE, !.redelivered = {},
                                !.awaitLine = None, !.pendingOrigin = None,
                                !.settle = FALSE,
                                !.deadlineReleased = TRUE, !.earlyReleased = TRUE]
  IN  IF SlotFree(fired) THEN fired ELSE AdmitNext(released, connected)

\* Slip: the settle window closes and admits nobody.
SettledOnly(b, connected) == Touch([b EXCEPT !.settle = FALSE])

\* The timer of scheduleAdmit.
Settled(b, connected) == AdmitNext(Touch([b EXCEPT !.settle = FALSE]), connected)

\* The PTY fallback of a nudge sent over IPC.
NudgeFallback(b) ==
  IF ~b.nudged THEN [b EXCEPT !.fallback = FALSE]
  ELSE IF b.streaming THEN b
  ELSE IF b.init THEN [b EXCEPT !.fallback = FALSE]
  ELSE DeliverOrQueue([b EXCEPT !.fallback = FALSE], Nudge)

================================================================================
