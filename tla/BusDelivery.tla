------------------------------ MODULE BusDelivery ------------------------------
(***************************************************************************)
(* How BusCoreImpl gets a prompt's text into the REPL once it is admitted  *)
(* (src/bus/core.ts 1921-2640): deliveries in flight, the hold while the   *)
(* session initialises, the turn-start verify with its one re-delivery,    *)
(* the hold through a compaction, and the carry-over of a socket close.    *)
(*                                                                         *)
(* A delivery in flight is a record of its text, the tailer generation it  *)
(* was started under, whether it began after the last socket close         *)
(* (current), whether it is the latest delivery of its text (owns: the     *)
(* token of its inFlightProof entry), whether the transcript has shown     *)
(* the text since (proven), and whether the PTY layer has typed it yet.    *)
(***************************************************************************)
EXTENDS BusSlot

Delivery(b, x) ==
  [text |-> x, gen |-> CurrentGen(b), current |-> TRUE, owns |-> TRUE, proven |-> FALSE,
   typed |-> FALSE]

\* streamDeliver for each of xs in turn: hand the texts to the PTY layer; the
\* proof of a text's key is its latest delivery's from now on.
StreamAll(b, xs) ==
  LET earlier == [i \in DOMAIN b.deliveries |->
                    [b.deliveries[i] EXCEPT !.owns = @ /\ ~Contains(xs, b.deliveries[i].text)]]
      started == [i \in DOMAIN xs |->
                    [Delivery(b, xs[i]) EXCEPT !.owns = \A j \in i + 1 .. Len(xs) : xs[j] # xs[i]]]
  IN  [b EXCEPT !.deliveries = earlier \o started]

\* deliverOrQueuePrompt: into the REPL, or held while the session initialises.
DeliverAll(b, xs) ==
  IF b.init THEN [Touch(b) EXCEPT !.held = @ \o xs] ELSE StreamAll(Touch(b), xs)

DeliverOrQueue(b, x) == DeliverAll(b, <<x>>)

ReadySinceClose(b) == ~b.closedOnce \/ b.ready \/ b.hello

\* Slip: before the next readiness signal a re-delivery is dropped.
RedeliverReadyOnly(b, x) == IF ReadySinceClose(b) THEN DeliverOrQueue(b, x) ELSE b

\* redeliverPrompt: between a close and the next readiness signal a
\* re-delivery waits in the carry-over.
Redeliver(b, x) ==
  CASE ReadySinceClose(b)                          -> DeliverOrQueue(b, x)
    [] ~ReadySinceClose(b) /\ Contains(b.carried, x)  -> b
    [] ~ReadySinceClose(b) /\ ~Contains(b.carried, x) -> [b EXCEPT !.carried = Append(@, x)]

\* Slip: a give-up is not followed up.
ArmNothing(b, xs) == Touch(b)

\* armFlushVerify: a text with an entry, spent or not, keeps the one it has.
ArmVerify(b, xs) ==
  [Touch(b) EXCEPT !.verify = [x \in Texts |-> IF x \in xs /\ b.verify[x] = "none"
                                                 THEN "armed"
                                                 ELSE b.verify[x]]]

\* releaseCompactionHold for the held texts xs.
ReleaseHold(b, xs) ==
  IF xs = {}
    THEN b
    ELSE ArmVerify([b EXCEPT !.hold = [x \in Texts |-> IF x \in xs THEN None ELSE b.hold[x]]], xs)

HeldTexts(b) == {x \in Texts : b.hold[x] # None}

\* Slip: a prompt stuck behind a compaction is typed again at once.
RetypeThroughCompaction(b, x, gen, since) == Redeliver(b, x)

\* holdThroughCompaction; `since` is the compaction count at the time, which
\* stands for the clock a boundary line is compared with.
HoldThroughCompaction(b, x, gen, since) ==
  LET replaced == gen # 0 /\ b.liveGen > gen
  IN  CASE b.verify[x] = "spent" -> b
        [] b.verify[x] # "spent" /\ replaced -> ArmVerify(b, {x})
        [] b.verify[x] # "spent" /\ ~replaced ->
             LET unverified == [b EXCEPT !.verify[x] = "none"]
             IN  IF b.hold[x] # None
                   THEN unverified
                   ELSE [Touch(unverified) EXCEPT !.hold[x] = [gen |-> gen, since |-> since]]

InFlight(b) == \E i \in DOMAIN b.deliveries : b.deliveries[i].current

Proving(b, x) == \E i \in DOMAIN b.deliveries : b.deliveries[i].owns /\ b.deliveries[i].text = x

\* The promise of delivery i settles with a verdict: the `then` of
\* streamDeliver, then its `finally`.  "error" is a rejection, which skips the
\* `then` and so leaves the retry marker of the text as it was; "none" and
\* "turn-started" ask for nothing more.
Verdict(b, i, outcome, since) ==
  LET d        == b.deliveries[i]
      x        == d.text
      wasRetry == d.owns /\ x \in b.spent
      consumed == IF wasRetry /\ outcome # "error" THEN [b EXCEPT !.spent = @ \ {x}] ELSE b
      gaveUp   == /\ outcome \in {"gave-up", "stuck-compaction"}
                  /\ ~wasRetry
                  /\ d.owns
                  /\ ~d.proven
                  /\ x # Nudge
      judged   == CASE ~gaveUp -> consumed
                    [] gaveUp /\ outcome = "stuck-compaction" ->
                         HoldThroughCompaction(consumed, x, d.gen, since)
                    [] gaveUp /\ outcome = "gave-up" /\ d.current -> ArmVerify(consumed, {x})
                    [] gaveUp /\ outcome = "gave-up" /\ ~d.current ->
                         Redeliver([consumed EXCEPT !.spent = @ \cup {x}], x)
  IN  [judged EXCEPT !.deliveries = RemoveAt(@, i)]

\* Slip: the re-delivery is verified, and repeated, like a first one.
VerifyRearms(b, x) ==
  IF InFlight(b) \/ b.streaming THEN b ELSE Redeliver([b EXCEPT !.verify[x] = "armed"], x)

\* The timer of scheduleFlushVerify: wait out a delivery or a turn, then one
\* grace, then re-deliver once and keep the entry as the at-most-once marker.
VerifyTimer(b, x) ==
  CASE InFlight(b) \/ b.streaming -> [b EXCEPT !.verify[x] = "armed"]
    [] ~(InFlight(b) \/ b.streaming) /\ b.verify[x] = "armed" -> [b EXCEPT !.verify[x] = "graced"]
    [] ~(InFlight(b) \/ b.streaming) /\ b.verify[x] = "graced" ->
         Redeliver([b EXCEPT !.verify[x] = "spent", !.spent = @ \cup {x}], x)

\* No text waits twice (CarriedOnce), so one is all there is to remove.
Without(s, x) == IF Contains(s, x) THEN RemoveAt(s, FirstAt(s, x)) ELSE s

\* Slip: the transcript's line proves nothing to the verify.
NoteNothing(b, x) == b

\* noteFlushTurnStart: the transcript shows x, so nothing may re-deliver it.
NoteFlushTurnStart(b, x) ==
  LET proven == [b EXCEPT
                   !.deliveries = [i \in DOMAIN b.deliveries |->
                                     IF b.deliveries[i].owns /\ b.deliveries[i].text = x
                                       THEN [b.deliveries[i] EXCEPT !.proven = TRUE]
                                       ELSE b.deliveries[i]],
                   !.spent = @ \ {x},
                   !.held = IF x \in b.spent THEN Without(@, x) ELSE @,
                   !.carried = Without(@, x)]
  IN  CASE x \notin Texts                       -> b
        [] x \in Texts /\ b.hold[x] # None      -> [proven EXCEPT !.hold[x] = None]
        [] x \in Texts /\ b.hold[x] = None      -> [proven EXCEPT !.verify[x] = "none"]

\* What noteFlushTurnStart returns: x was waiting to be verified.
WasUnverified(b, x) == x \in Texts /\ (b.hold[x] # None \/ b.verify[x] # "none")

\* noteRedelivered and delivery of carried texts: they are about to run, and
\* park the gate.
Reissue(b, xs) ==
  IF xs = <<>>
    THEN b
    ELSE DeliverAll([b EXCEPT !.redelivered = @ \cup ToSet(xs), !.parked = TRUE], xs)

NeedsCarrying(b, x) == b.verify[x] \in {"armed", "graced"} /\ ~Proving(b, x)

\* The carry-over a close leaves: the held texts, those whose verify was
\* pending with no handler deciding, and what an earlier close left.  The code
\* merges them in a Set; held and carried texts differ (CarriedOnce).
CarryOver(b) ==
  LET pending == {x \in Texts : NeedsCarrying(b, x)} \ (ToSet(b.held) \cup ToSet(b.carried))
  IN  b.held \o SetToSeq(pending) \o b.carried

\* What onClose does to the delivery side.
CloseDeliveries(b) ==
  [b EXCEPT !.init = FALSE,
            !.carried = CarryOver(b),
            !.spent = @ \cup {x \in Texts : NeedsCarrying(b, x)},
            !.deliveries = [i \in DOMAIN b.deliveries |-> [b.deliveries[i] EXCEPT !.current = FALSE]],
            !.held = <<>>,
            !.verify = [x \in Texts |-> "none"],
            !.closedOnce = TRUE, !.ready = FALSE, !.hello = FALSE]
================================================================================
