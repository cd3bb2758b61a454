---------------------------- MODULE TelegramOutbox -----------------------------
(***************************************************************************)
(* The durable retry queue for outbound Telegram messages                  *)
(* (src/telegram-outbox.ts): a message is sent chunk by chunk; what could  *)
(* not be sent, or is held by quiet hours, is queued, written to disk and  *)
(* retried by passes over the queue.  The daemon may crash at any point.   *)
(*                                                                         *)
(* External: Telegram takes a chunk, refuses it, or does not answer in     *)
(* time and may take it later; the clock, the quiet window and the list of *)
(* allowed users change on their own.                                      *)
(***************************************************************************)
EXTENDS Naturals, SequencesExt

CONSTANTS Msgs, NoMsg,
          ChatOf,        \* chatId of each message
          ChunksOf,      \* the number of its chunks
          Proactive,     \* the messages delivered with opts.proactive
          Routed,        \* the messages with a userId
          MaxAttempts,   \* maxAttempts
          MaxEntries,    \* maxEntries
          MaxChunks,     \* OUTBOX_MAX_CHUNKS
          MaxCrashes, MaxLate,   \* bounds: crashes, sends that answer after their timeout
          MaxPutOffs     \* bound: openings of the quiet window and unknown recipients

ASSUME OutboxAssumption ==
  /\ NoMsg \notin Msgs
  /\ ChunksOf \in [Msgs -> Nat \ {0}]
  /\ Proactive \subseteq Msgs /\ Routed \subseteq Msgs
  /\ {MaxAttempts, MaxEntries, MaxChunks} \subseteq Nat \ {0}
  /\ {MaxCrashes, MaxLate, MaxPutOffs} \subseteq Nat

VARIABLES box,       \* the entries: their order and, for each message, its state
          disk,      \* the file
          pass,      \* the drain under way: what is still to do, chats that failed, quiet hours
          sending,   \* the entry whose chunk the drain is sending
          call,      \* where the deliver call of each message is
          sent,      \* in a deliver call: the chunks sent so far
          whole,     \* the chunks of each message that are to be sent: fewer once it was cut
          quiet,     \* a quiet window is open
          revoked,   \* the messages whose user is no longer allowed
          late,      \* external: timed-out sends Telegram may still take
          got,       \* history: the chunks Telegram took, per message
          gone,      \* history: messages dropped with a log line, or lost in their first send
          crashed, lates, putOffs   \* history: how often

boxVars == <<box, disk, pass, sending, call, sent, whole>>
outsideVars == <<quiet, revoked, late, got, gone>>
counts == <<crashed, lates, putOffs>>
outboxVars == <<boxVars, outsideVars, counts>>

Idle == [on |-> FALSE, todo |-> {}, hand |-> NoMsg, failed |-> {}, quiet |-> FALSE]

\* An entry: left counts its chunks, tries is attempts, due is nextAttemptAt <= now.
NoEntry == [left |-> 0, tries |-> 0, due |-> FALSE, held |-> FALSE]
EmptyBox == [order |-> <<>>, of |-> [m \in Msgs |-> NoEntry]]

OutboxInit ==
  /\ box = EmptyBox /\ disk = EmptyBox
  /\ pass = Idle /\ sending = NoMsg
  /\ call = [m \in Msgs |-> "new"]
  /\ sent = [m \in Msgs |-> 0] /\ whole = ChunksOf
  /\ quiet = FALSE /\ revoked = {} /\ late = {} /\ gone = {}
  /\ got = [m \in Msgs |-> <<>>]
  /\ crashed = 0 /\ lates = 0 /\ putOffs = 0

--------------------------------------------------------------------------------
In(b, m) == m \in ToSet(b.order)

Unlist(b, m) == [b EXCEPT !.order = RemoveFirst(@, m)]

RemoveEntry(b, m) == [Unlist(b, m) EXCEPT !.of[m] = NoEntry]

\* push makes room first: the oldest proactive entry goes, or else the oldest; a
\* proactive message finds no place among failed replies.  The queue never exceeds
\* its cap, so one eviction is enough; a drain may still hold the evicted entry.
Full(b) == Len(b.order) >= MaxEntries
Evictable(b) == SelectInSeq(b.order, LAMBDA x : x \in Proactive)
Evicted(b, m) ==
  IF ~Full(b) THEN {}
  ELSE IF Evictable(b) # 0 THEN {b.order[Evictable(b)]}
  ELSE IF m \in Proactive THEN {m}
  ELSE {Head(b.order)}

Push(b, m, entry) ==
  IF Evicted(b, m) = {m} THEN b
  ELSE LET kept == IF Evicted(b, m) = {} THEN b ELSE Unlist(b, CHOOSE x \in Evicted(b, m) : TRUE)
       IN  [order |-> Append(kept.order, m), of |-> [kept.of EXCEPT ![m] = entry]]

\* isReleasable: held, never sent, and its window has ended.
Releasable(b, m) == b.of[m].held /\ b.of[m].tries = 0 /\ (b.of[m].due \/ ~quiet)

HeldFor(chat) == {m \in ToSet(box.order) : ChatOf[m] = chat /\ Releasable(box, m)}

Due == {m \in ToSet(box.order) : box.of[m].due \/ Releasable(box, m)}

\* drain: a pass over what is due, shared with the one under way.
JoinPass == pass' = IF pass.on THEN pass
                    ELSE [Idle EXCEPT !.on = TRUE, !.todo = Due, !.quiet = quiet]

\* Every change of the entries is written to disk before anything else happens.
Persist(b) == box' = b /\ disk' = b

--------------------------------------------------------------------------------
\* boundChunks: of a message too long to queue whole only the first chunks are kept.
BoundChunks(n) == IF n > MaxChunks THEN MaxChunks ELSE n

\* What deliver has not sent of a message is queued.
EnqueueRest(m, tries, held) ==
  LET rest == BoundChunks(ChunksOf[m] - sent[m])
  IN  /\ Persist(Push(box, m, [left |-> rest, tries |-> tries, due |-> FALSE, held |-> held]))
      /\ whole' = [whole EXCEPT ![m] = sent[m] + rest]
      /\ gone' = gone \cup Evicted(box, m)

\* deliver of a proactive message in quiet hours: hold queues it.
Hold(m) ==
  /\ call[m] = "new" /\ m \in Proactive /\ quiet
  /\ EnqueueRest(m, 0, TRUE)
  /\ call' = [call EXCEPT ![m] = "done"]
  /\ UNCHANGED <<pass, sending, sent, quiet, revoked, late, got, counts>>

\* deliver of another message: a proactive one lets the held messages of its chat
\* go first (releaseHeld, at most two passes), then the first chunk is sent.
Release(m, from, await) ==
  /\ call[m] = from
  /\ from = "new" => ~(m \in Proactive /\ quiet)
  /\ IF m \in Proactive /\ HeldFor(ChatOf[m]) # {}
       THEN JoinPass /\ call' = [call EXCEPT ![m] = await]
       ELSE call' = [call EXCEPT ![m] = "sending"] /\ UNCHANGED pass
  /\ UNCHANGED <<box, disk, sending, sent, whole, outsideVars, counts>>

Deliver(m) == Release(m, "new", "await1") \/ Release(m, "again", "await2")

\* A chunk of the deliver call reached Telegram.
DeliverSent(m) ==
  /\ call[m] = "sending"
  /\ sent' = [sent EXCEPT ![m] = @ + 1]
  /\ got' = [got EXCEPT ![m] = Append(@, sent[m] + 1)]
  /\ call' = IF sent[m] + 1 = whole[m] THEN [call EXCEPT ![m] = "done"] ELSE call
  /\ UNCHANGED <<box, disk, pass, sending, whole, quiet, revoked, late, gone, counts>>

\* A send whose time is up may still be under way.
TimesOut(m, chunk) ==
  \/ UNCHANGED <<late, lates>>
  \/ lates < MaxLate /\ late' = late \cup {<<m, chunk>>} /\ lates' = lates + 1

\* Slip: the chunk that failed is counted as sent.
DeliverFailedSkips(m, permanent) ==
  /\ call[m] = "sending"
  /\ call' = [call EXCEPT ![m] = "done"]
  /\ LET rest == BoundChunks(ChunksOf[m] - sent[m] - 1)
     IN  /\ Persist(Push(box, m, [left |-> rest, tries |-> 1, due |-> FALSE, held |-> FALSE]))
         /\ whole' = [whole EXCEPT ![m] = sent[m] + 1 + rest]
  /\ gone' = gone \cup Evicted(box, m)
  /\ UNCHANGED <<pass, sending, sent, quiet, revoked, late, got, counts>>

\* enqueueFailed: the chunks not delivered are queued, or the message is given up.
DeliverFailed(m, permanent) ==
  /\ call[m] = "sending"
  /\ call' = [call EXCEPT ![m] = "done"]
  /\ IF MaxAttempts = 1 \/ permanent
       THEN gone' = gone \cup {m} /\ UNCHANGED <<box, disk, whole>>
       ELSE EnqueueRest(m, 1, FALSE)
  /\ IF permanent THEN UNCHANGED <<late, lates>> ELSE TimesOut(m, sent[m] + 1)
  /\ UNCHANGED <<pass, sending, sent, quiet, revoked, got, crashed, putOffs>>

--------------------------------------------------------------------------------
\* The timer, or start's first drain.
Drain ==
  /\ ~pass.on
  /\ JoinPass
  /\ UNCHANGED <<box, disk, sending, call, sent, whole, outsideVars, counts>>

\* The entries of the pass are taken in the order of the queue.
Before(x, m) == \E i, k \in DOMAIN box.order : i < k /\ box.order[i] = x /\ box.order[k] = m

AtEntry(m) ==
  /\ pass.on /\ sending = NoMsg /\ m \in pass.todo
  /\ pass.hand = NoMsg => \A x \in pass.todo : ~Before(x, m)
  /\ pass.hand # NoMsg => pass.hand = m

NextEntry(p, m) == [p EXCEPT !.todo = @ \ {m}, !.hand = NoMsg]

\* The entry was evicted meanwhile, or an earlier one of its chat failed in this
\* pass: asked once per entry, before its first chunk.
Skips(m) == pass.hand # m /\ (~In(box, m) \/ ChatOf[m] \in pass.failed)

SkipEntry(m) ==
  /\ AtEntry(m) /\ Skips(m)
  /\ pass' = NextEntry(pass, m)
  /\ UNCHANGED <<box, disk, sending, call, sent, whole, outsideVars, counts>>

\* Due inside a quiet window: it waits for the window's end.
PutOff(m) ==
  /\ AtEntry(m) /\ ~Skips(m) /\ m \in Proactive /\ pass.quiet
  /\ Persist([box EXCEPT !.of[m].due = FALSE])
  /\ pass' = NextEntry(pass, m)
  /\ UNCHANGED <<sending, call, sent, whole, outsideVars, counts>>

\* Before each chunk the recipient is checked: allowed, no longer allowed, or the
\* check fails and the chat waits for the next pass.
Ready(m) == AtEntry(m) /\ ~Skips(m) /\ ~(m \in Proactive /\ pass.quiet)

SendChunk(m) ==
  /\ Ready(m) /\ m \notin revoked
  /\ sending' = m
  /\ pass' = [pass EXCEPT !.hand = m]
  /\ UNCHANGED <<box, disk, call, sent, whole, outsideVars, counts>>

DropRevoked(m) ==
  /\ Ready(m) /\ m \in revoked
  /\ Persist(RemoveEntry(box, m))
  /\ gone' = gone \cup {m}
  /\ pass' = NextEntry(pass, m)
  /\ UNCHANGED <<sending, call, sent, whole, quiet, revoked, late, got, counts>>

UnknownRecipient(m) ==
  /\ Ready(m) /\ m \in Routed /\ putOffs < MaxPutOffs
  /\ pass' = [NextEntry(pass, m) EXCEPT !.failed = @ \cup {ChatOf[m]}]
  /\ putOffs' = putOffs + 1
  /\ UNCHANGED <<box, disk, sending, call, sent, whole, outsideVars, crashed, lates>>

\* Slip: the entry of a message sent to its end is kept.
DrainSentKeeps(m) ==
  /\ sending = m /\ m # NoMsg
  /\ sending' = NoMsg
  /\ Persist([box EXCEPT !.of[m].left = @ - 1])
  /\ pass' = IF box.of[m].left = 1 THEN NextEntry(pass, m) ELSE pass
  /\ UNCHANGED <<call, sent, whole, got, quiet, revoked, late, gone, counts>>

\* The chunk the drain was sending reached Telegram; an entry evicted during the
\* send is still sent to its end.
ChunkNo(m) == whole[m] - box.of[m].left + 1

DrainSent(m) ==
  /\ sending = m /\ m # NoMsg
  /\ sending' = NoMsg
  /\ got' = [got EXCEPT ![m] = Append(@, ChunkNo(m))]
  /\ Persist(IF box.of[m].left = 1 THEN RemoveEntry(box, m) ELSE [box EXCEPT !.of[m].left = @ - 1])
  /\ pass' = IF box.of[m].left = 1 THEN NextEntry(pass, m) ELSE pass
  /\ UNCHANGED <<call, sent, whole, quiet, revoked, late, gone, counts>>

\* Slip: the attempt is not counted.
DrainFailedUncounted(m, permanent) ==
  /\ sending = m /\ m # NoMsg
  /\ sending' = NoMsg
  /\ pass' = [NextEntry(pass, m) EXCEPT !.failed = @ \cup {ChatOf[m]}]
  /\ Persist([box EXCEPT !.of[m].due = FALSE])
  /\ UNCHANGED <<call, sent, whole, outsideVars, counts>>

\* recordFailure: the entry waits for its backoff, or is abandoned.
DrainFailed(m, permanent) ==
  /\ sending = m /\ m # NoMsg
  /\ sending' = NoMsg
  /\ pass' = [NextEntry(pass, m) EXCEPT !.failed = @ \cup {ChatOf[m]}]
  /\ IF box.of[m].tries + 1 >= MaxAttempts \/ permanent
       THEN Persist(RemoveEntry(box, m)) /\ gone' = gone \cup {m}
       ELSE /\ Persist([box EXCEPT !.of[m].tries = @ + 1, !.of[m].due = FALSE])
            /\ UNCHANGED gone
  /\ IF permanent THEN UNCHANGED <<late, lates>> ELSE TimesOut(m, ChunkNo(m))
  /\ UNCHANGED <<call, sent, whole, quiet, revoked, got, crashed, putOffs>>

\* The pass is over; the deliver calls that awaited it look again, or send.
EndPass ==
  /\ pass.on /\ pass.todo = {}
  /\ pass' = Idle
  /\ call' = [m \in Msgs |-> CASE call[m] = "await1" -> "again"
                               [] call[m] = "await2" -> "sending"
                               [] OTHER -> call[m]]
  /\ UNCHANGED <<box, disk, sending, sent, whole, outsideVars, counts>>

--------------------------------------------------------------------------------
\* The backoff of an entry, or the quiet window it waits for, is over.
FallsDue(m) ==
  /\ In(box, m) /\ ~box.of[m].due
  /\ box' = [box EXCEPT !.of[m].due = TRUE]
  /\ UNCHANGED <<disk, pass, sending, call, sent, whole, outsideVars, counts>>

QuietOpens ==
  /\ ~quiet /\ putOffs < MaxPutOffs
  /\ quiet' = TRUE /\ putOffs' = putOffs + 1
  /\ UNCHANGED <<boxVars, revoked, late, got, gone, crashed, lates>>

QuietEnds ==
  /\ quiet
  /\ quiet' = FALSE
  /\ UNCHANGED <<boxVars, revoked, late, got, gone, counts>>

RevokeUser(m) ==
  /\ m \in Routed \ revoked
  /\ revoked' = revoked \cup {m}
  /\ UNCHANGED <<boxVars, quiet, late, got, gone, counts>>

\* Telegram takes a chunk whose send had timed out.
TakenLate(m, chunk) ==
  /\ <<m, chunk>> \in late
  /\ late' = late \ {<<m, chunk>>}
  /\ got' = [got EXCEPT ![m] = Append(@, chunk)]
  /\ UNCHANGED <<boxVars, quiet, revoked, gone, counts>>

\* The daemon dies and starts again with the file; a chunk it was sending may have
\* reached Telegram, a message in its first send is lost.
CrashOutbox ==
  /\ crashed < MaxCrashes
  /\ crashed' = crashed + 1
  /\ box' = disk
  /\ pass' = Idle /\ sending' = NoMsg
  /\ call' = [m \in Msgs |-> IF call[m] = "new" THEN "new" ELSE "done"]
  /\ gone' = gone \cup {m \in Msgs : call[m] \notin {"new", "done"}}
  /\ got' \in {got} \cup (IF sending # NoMsg
                            THEN {[got EXCEPT ![sending] = Append(@, ChunkNo(sending))]} ELSE {})
  /\ UNCHANGED <<disk, sent, whole, quiet, revoked, late, lates, putOffs>>

--------------------------------------------------------------------------------
Drains(m) == SkipEntry(m) \/ PutOff(m) \/ SendChunk(m) \/ DropRevoked(m) \/ DrainSent(m)
             \/ \E permanent \in BOOLEAN : DrainFailed(m, permanent)

Calls(m) == Deliver(m) \/ DeliverSent(m) \/ \E permanent \in BOOLEAN : DeliverFailed(m, permanent)

OutboxNext ==
  \/ \E m \in Msgs : \/ Hold(m) \/ Calls(m) \/ Drains(m) \/ UnknownRecipient(m)
                     \/ FallsDue(m) \/ RevokeUser(m)
                     \/ \E chunk \in 1 .. ChunksOf[m] : TakenLate(m, chunk)
  \/ Drain \/ EndPass \/ QuietOpens \/ QuietEnds \/ CrashOutbox

OutboxSpec == OutboxInit /\ [][OutboxNext]_outboxVars

\* The timer fires, sends settle within their timeout, backoffs and quiet windows
\* come to an end.
FairOutbox ==
  /\ WF_outboxVars(Drain) /\ WF_outboxVars(EndPass) /\ WF_outboxVars(QuietEnds)
  /\ \A m \in Msgs : /\ WF_outboxVars(FallsDue(m)) /\ WF_outboxVars(Drains(m))
                     /\ WF_outboxVars(Calls(m) /\ call[m] # "new")

FairOutboxSpec == OutboxSpec /\ FairOutbox

--------------------------------------------------------------------------------
Boxes == [order : Seq(Msgs),
          of : [Msgs -> [left : Nat, tries : Nat, due : BOOLEAN, held : BOOLEAN]]]

OutboxTypeOK ==
  /\ box \in Boxes /\ disk \in Boxes
  /\ pass \in [on : BOOLEAN, todo : SUBSET Msgs, hand : Msgs \cup {NoMsg}, failed : SUBSET {ChatOf[m] : m \in Msgs},
               quiet : BOOLEAN]
  /\ sending \in Msgs \cup {NoMsg}
  /\ call \in [Msgs -> {"new", "await1", "again", "await2", "sending", "done"}]
  /\ sent \in [Msgs -> Nat] /\ whole \in [Msgs -> Nat] /\ got \in [Msgs -> Seq(Nat)]
  /\ quiet \in BOOLEAN
  /\ revoked \subseteq Msgs /\ gone \subseteq Msgs
  /\ late \subseteq Msgs \X Nat
  /\ {crashed, lates, putOffs} \subseteq Nat

\* A message whose deliver call is over has reached Telegram whole (up to where it was
\* cut, if it was too long to queue), or what is left of it is queued here and on disk
\* from the first chunk Telegram did not confirm, or it was dropped with a log line:
\* over crashes, evictions and passes that interleave, no chunk is skipped.
NoChunkSkipped ==
  \A m \in Msgs : call[m] = "done" =>
    \/ m \in gone
    \/ ToSet(got[m]) = 1 .. whole[m]
    \/ /\ In(box, m) /\ In(disk, m)
       /\ box.of[m].left = disk.of[m].left
       /\ 1 .. whole[m] - box.of[m].left \subseteq ToSet(got[m])

\* Telegram takes the chunks of a message in order: a later one never comes before
\* the first copy of an earlier one, whatever was retried or came late.
ChunksInOrder ==
  \A m \in Msgs : \A i \in DOMAIN got[m] : \A c \in 1 .. got[m][i] - 1 :
    \E k \in 1 .. i : got[m][k] = c

\* Both: what Telegram has of a message, with what is queued, is the message.
ChunkSafety == NoChunkSkipped /\ ChunksInOrder

\* telegram-outbox.ts: "a chunk is sent twice only if the process dies between a
\* send and that write, or the write itself fails".
SentTwiceOnlyByDeath ==
  crashed = 0 => \A m \in Msgs : \A i, k \in DOMAIN got[m] : got[m][i] = got[m][k] => i = k

Settled(m) == m \in gone \/ ToSet(got[m]) = 1 .. whole[m]

\* Every message handed to deliver is delivered, up to where it was cut, or dropped
\* with a log line.
EveryMessageSettles ==
  (\E m \in Msgs : call[m] # "new" /\ ~Settled(m))
    ~> (\A m \in Msgs : call[m] # "new" => Settled(m))
================================================================================
