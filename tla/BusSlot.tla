-------------------------------- MODULE BusSlot --------------------------------
(***************************************************************************)
(* The state BusCoreImpl (src/bus/core.ts) keeps for one agent, and the    *)
(* parts of it every handler works with: the admission gate, its idle      *)
(* deadline, the operation slot and the routing slot.  All of the code's   *)
(* maps are keyed by agent, so one agent is modelled.                      *)
(*                                                                         *)
(* The state is one record and each method of the class an operator from   *)
(* a record to the record the method leaves behind: a handler is then the  *)
(* composition of the methods it calls, in the order it calls them.        *)
(***************************************************************************)
EXTENDS PromptQueue

CONSTANTS None,           \* an absent Map entry
          Nudge,          \* the text of the reply nudge, as it is typed
          NudgeNote,      \* the same text, as the MCP server's notification
          ChannelDriven,  \* the chats whose surface has a user waiting
          Inject,         \* the chat of the daemon's own injects
          Acks,           \* prompts that call for no reply (`silenceOk`)
          NudgeEnabled    \* replyNudgeEnabled

Texts == Prompts \cup {Nudge}

ASSUME BusAssumption ==
  /\ None \notin Texts /\ NudgeNote \notin Texts /\ NudgeNote # None
  /\ Nudge \notin Prompts
  /\ None \notin Chats
  /\ Inject \in ChannelDriven
  /\ ChannelDriven \subseteq Chats
  /\ Acks \subseteq Prompts
  /\ NudgeEnabled \in BOOLEAN
  /\ IsFiniteSet(Prompts)

\* An agent the bus has heard nothing of.  A text stands for its own key in
\* the maps keyed by (sanitised) text.
FreshBus ==
  [ queue |-> EmptyQueue,        \* promptQueue
    op |-> None,                 \* currentOperation: the prompt whose turn is counted
    pending |-> 0,               \* pendingTurns
    overlap |-> FALSE,           \* correlationAmbiguous
    streaming |-> FALSE,         \* agentTurnActive
    nudged |-> FALSE,            \* replyNudged
    stash |-> None,              \* pendingNudgeText, as the prompts it answers
    parked |-> FALSE,            \* gateParked
    settle |-> FALSE,            \* admitSettle
    deadline |-> FALSE,          \* turnDeadline
    deadlineReleased |-> FALSE, earlyReleased |-> FALSE,
    awaitLine |-> None,          \* awaitOwnPromptLine
    pendingOrigin |-> None,
    slot |-> None,               \* lastPromptOrigin: the prompt whose origin it holds
    slotAmbiguous |-> FALSE,     \* originAmbiguous
    silentClosed |-> None,       \* silentClosedOrigin
    replied |-> FALSE,           \* currentTurnReplied
    published |-> FALSE,         \* currentTurnFinalPublished
    answered |-> {},             \* currentTurnFinalOrigins
    known |-> {},                \* knownPromptOrigins
    lastEnd |-> 0,               \* lastTurnEndMessageId
    redelivered |-> {},          \* redeliveredSinceClose
    init |-> FALSE,              \* agentInitializing
    liveSession |-> 0,           \* agentLiveSession
    held |-> <<>>,               \* deliveryQueue
    carried |-> <<>>,            \* pendingRedelivery
    deliveries |-> <<>>,         \* handlers still deciding, with inFlightProof
    verify |-> [x \in Texts |-> "none"],  \* flushVerify
    spent |-> {},                \* spentRetry
    hold |-> [x \in Texts |-> None],      \* compactionHeld
    fallback |-> FALSE,          \* nudgePtyFallback
    liveGen |-> 0,               \* agentTailerGeneration
    spawnedGen |-> 0,            \* agentSpawnedGeneration
    closedOnce |-> FALSE,        \* inFlightEpoch > 0
    ready |-> FALSE,             \* readyEpoch = inFlightEpoch
    hello |-> FALSE ]            \* helloEpoch = inFlightEpoch

\* The states of the record: what each of the code's maps may hold.
PromptOrNone == Prompts \cup {None}
ChatOrNone == Chats \cup {None}
Deliveries == [text : Texts, gen : Nat, current : BOOLEAN, owns : BOOLEAN, proven : BOOLEAN,
               typed : BOOLEAN]
Holds == [gen : Nat, since : Nat]

BusStates ==
  [ queue : Queues, op : PromptOrNone, pending : Nat, overlap : BOOLEAN, streaming : BOOLEAN,
    nudged : BOOLEAN, stash : (SUBSET Prompts) \cup {None}, parked : BOOLEAN,
    settle : BOOLEAN, deadline : BOOLEAN, deadlineReleased : BOOLEAN,
    earlyReleased : BOOLEAN, awaitLine : PromptOrNone, pendingOrigin : PromptOrNone,
    slot : PromptOrNone, slotAmbiguous : BOOLEAN, silentClosed : ChatOrNone,
    replied : BOOLEAN, published : BOOLEAN, answered : SUBSET Chats, known : SUBSET Chats,
    lastEnd : Nat, redelivered : SUBSET Texts, init : BOOLEAN, liveSession : Nat,
    held : Seq(Texts), carried : Seq(Texts), deliveries : Seq(Deliveries),
    verify : [Texts -> {"none", "armed", "graced", "spent"}], spent : SUBSET Texts,
    hold : [Texts -> Holds \cup {None}], fallback : BOOLEAN, liveGen : Nat,
    spawnedGen : Nat, closedOnce : BOOLEAN, ready : BOOLEAN, hello : BOOLEAN ]

--------------------------------------------------------------------------------
\* Slip: a counted turn no longer holds the gate.
SlotFreeWhileCounted(b) == ~b.streaming /\ ~b.nudged /\ ~b.parked /\ ~b.settle

\* slotFree: no counted turn, no turn streaming, no nudge outstanding, no park,
\* no terminator still settling.
SlotFree(b) ==
  /\ b.op = None
  /\ ~b.streaming
  /\ ~b.nudged
  /\ ~b.parked
  /\ ~b.settle

\* touchTurn: the idle deadline runs exactly while the gate is held.
Touch(b) == [b EXCEPT !.deadline = ~SlotFree(b)]

\* Slip: an event is no sign of life for the deadline.
PublishUntouched(b) == b

\* publish: any event of the agent is a sign of life for its turn.
Publish(b) == Touch(b)

\* Slip: the counter goes down for turns it never counted.
ReleaseUncounted(b) == Touch([b EXCEPT !.pending = @ - 1, !.op = None, !.overlap = FALSE])

\* releaseTurn: one counted turn ended or was absorbed.
ReleaseTurn(b) ==
  IF b.pending > 1
    THEN [b EXCEPT !.pending = @ - 1]
    ELSE Touch([b EXCEPT !.pending = 0, !.op = None, !.overlap = FALSE])

\* openTurn: a turn starts undelivered.
OpenTurn(b) ==
  [b EXCEPT !.replied = FALSE, !.published = FALSE, !.answered = {}, !.silentClosed = None]

\* applyOrigin: the prompt's chat takes the routing slot.
ApplyOrigin(b, p) ==
  [b EXCEPT !.slotAmbiguous = b.slot # None, !.known = @ \cup {Chat[p]}, !.slot = p]

ApplyPendingOrigin(b) ==
  IF b.pendingOrigin = None
    THEN b
    ELSE ApplyOrigin([b EXCEPT !.pendingOrigin = None], b.pendingOrigin)

\* Slip: the awaited line leaves its prompt's origin deferred.
TakeLineOnly(b, x) == IF b.awaitLine # None /\ b.awaitLine = x THEN [b EXCEPT !.awaitLine = None] ELSE b

\* The transcript took up the text the last early admission waits for.
TakeAwaitedLine(b, x) ==
  IF b.awaitLine # None /\ b.awaitLine = x
    THEN ApplyPendingOrigin([b EXCEPT !.awaitLine = None])
    ELSE b

\* scheduleAdmit: hold the gate until the terminal message's other lines landed.
ScheduleAdmit(b) == Touch([b EXCEPT !.settle = TRUE])

\* The per-turn state every abnormal terminator drops: close, cancel, error.
DropTurn(b) ==
  [b EXCEPT !.slot = None, !.silentClosed = None, !.slotAmbiguous = FALSE,
            !.op = None, !.overlap = FALSE, !.pending = 0,
            !.replied = FALSE, !.published = FALSE, !.answered = {},
            !.nudged = FALSE, !.stash = None]

\* Slip: only what is on its way to the REPL counts as busy.
BusyDelivering(b) ==
  \/ b.streaming \/ b.nudged \/ HasQueue(b.queue)
  \/ b.deliveries # <<>> \/ b.held # <<>> \/ b.carried # <<>>

\* busyAgents: a restart of the agent now would cost a turn or a prompt.
Busy(b) ==
  \/ b.streaming \/ b.pending > 0 \/ b.nudged
  \/ HasQueue(b.queue)
  \/ \E i \in DOMAIN b.deliveries : b.deliveries[i].current
  \/ b.held # <<>> \/ b.carried # <<>>
  \/ \E x \in Texts : b.hold[x] # None \/ b.verify[x] \in {"armed", "graced"}

BiggerOf(i, j) == IF i > j THEN i ELSE j

\* The tailer generation the PTY layer types into (maxGeneration).
CurrentGen(b) == BiggerOf(b.liveGen, b.spawnedGen)
================================================================================
