----------------------------- MODULE BusUncutProofs ----------------------------
(***************************************************************************)
(* Proofs about BusCore where nothing cuts a turn short (Uncut): one       *)
(* process whose socket stays open, no `cancel`, no expired turn, no       *)
(* reminder.  What the bus cannot promise in general (the steps that       *)
(* strand a prompt, or type it a third time) it promises here, for any     *)
(* prompts, chats, caps, verdicts and swallowed texts:                     *)
(*                                                                         *)
(*   - no prompt is left before a free gate or typed a third time;         *)
(*   - AmbientSafety, over any number of turns the bus did not open;       *)
(*   - OwedIsBusy, DeliverySafety and AnswerSafety, over none of those and *)
(*     at most one compaction.                                             *)
(*                                                                         *)
(* Three invariants, one on top of the other.  Smooth: the bus is as its   *)
(* handlers leave it when nothing disturbs them (Steady), which is all     *)
(* that is left out of IInv by the conditions, and the transcript says     *)
(* `absorbed` only inside a turn (Bracketed).  Single: whatever the bus    *)
(* may type again the model was not given (GivenOnce), and everything      *)
(* under way, in the CLI, the transcript and the delivery, is of the one   *)
(* counted prompt (OneAtATime).  Routed: a reply in flight, the routing    *)
(* slot and the text of a turn's end are of that prompt, and an answer     *)
(* that is published takes the slot with it.                               *)
(***************************************************************************)
EXTENDS BusLedgerProofs

--------------------------------------------------------------------------------
(* What a handler changes *)

\* Of the fields of b, d has others at most in fs.
Only(b, d, fs) == DOMAIN d = DOMAIN b /\ \A f \in DOMAIN b \ fs : d[f] = b[f]

LEMMA OnlyTrans ==
  ASSUME NEW a, NEW b, NEW d, NEW fs, Only(a, b, fs), Only(b, d, fs)
  PROVE  Only(a, d, fs)
BY Zenon DEF Only

LEMMA OnlySelf == ASSUME NEW b, NEW fs PROVE Only(b, b, fs)
BY Zenon DEF Only

\* The delivery side, the deadline with it.
DeliverySide == {"deliveries", "held", "carried", "verify", "hold", "spent", "deadline"}

LEMMA TouchOnly == ASSUME NEW b PROVE Only(b, Touch(b), DeliverySide)
BY Zenon DEF Only, Touch, DeliverySide

LEMMA DeliverAllOnly == ASSUME NEW b, NEW xs PROVE Only(b, DeliverAll(b, xs), DeliverySide)
<1> DEFINE t == Touch(b)
<1>1. Only(b, t, DeliverySide)
  BY TouchOnly
<1> HIDE DEF t
<1>2. Only(t, [t EXCEPT !.held = @ \o xs], DeliverySide)
  BY Zenon DEF Only, DeliverySide
<1>3. ASSUME NEW ds PROVE Only(t, [t EXCEPT !.deliveries = ds], DeliverySide)
  BY Zenon DEF Only, DeliverySide
<1>4. Only(t, StreamAll(t, xs), DeliverySide)
  BY <1>3 DEF StreamAll
<1>5. DeliverAll(b, xs) \in {[t EXCEPT !.held = @ \o xs], StreamAll(t, xs)}
  BY DEF DeliverAll, t
<1> QED
  BY <1>1, <1>2, <1>4, <1>5, OnlyTrans

LEMMA RedeliverOnly == ASSUME NEW b, NEW x PROVE Only(b, Redeliver(b, x), DeliverySide)
<1>1. Only(b, [b EXCEPT !.carried = Append(@, x)], DeliverySide)
  BY Zenon DEF Only, DeliverySide
<1>2. Redeliver(b, x) \in {b, DeliverAll(b, <<x>>), [b EXCEPT !.carried = Append(@, x)]}
  BY DEF Redeliver, DeliverOrQueue
<1> QED
  BY <1>1, <1>2, DeliverAllOnly, OnlySelf

LEMMA ArmVerifyOnly == ASSUME NEW b, NEW xs PROVE Only(b, ArmVerify(b, xs), DeliverySide)
<1> DEFINE t == Touch(b)
<1>1. Only(b, t, DeliverySide)
  BY TouchOnly
<1> HIDE DEF t
<1>2. ASSUME NEW v PROVE Only(t, [t EXCEPT !.verify = v], DeliverySide)
  BY Zenon DEF Only, DeliverySide
<1>3. \E v : ArmVerify(b, xs) = [t EXCEPT !.verify = v]
  BY DEF ArmVerify, t
<1> QED
  BY <1>1, <1>2, <1>3, OnlyTrans

LEMMA ReleaseHoldOnly == ASSUME NEW b, NEW xs PROVE Only(b, ReleaseHold(b, xs), DeliverySide)
<1>1. ASSUME NEW h PROVE Only(b, [b EXCEPT !.hold = h], DeliverySide)
  BY Zenon DEF Only, DeliverySide
<1>2. \E h : ReleaseHold(b, xs) \in {b, ArmVerify([b EXCEPT !.hold = h], xs)}
  BY DEF ReleaseHold
<1>3. ASSUME NEW h PROVE Only(b, ArmVerify([b EXCEPT !.hold = h], xs), DeliverySide)
  BY <1>1, ArmVerifyOnly, OnlyTrans
<1> QED
  BY <1>2, <1>3, OnlySelf

LEMMA HoldThroughCompactionOnly ==
  ASSUME NEW b, NEW x, NEW gen, NEW since
  PROVE  Only(b, HoldThroughCompaction(b, x, gen, since), DeliverySide)
<1> DEFINE u == [b EXCEPT !.verify[x] = "none"]
           t == Touch(u)
           h == [t EXCEPT !.hold[x] = [gen |-> gen, since |-> since]]
<1>1. Only(b, u, DeliverySide)
  BY Zenon DEF Only, DeliverySide
<1> HIDE DEF u
<1>2. Only(b, t, DeliverySide)
  BY <1>1, TouchOnly, OnlyTrans
<1> HIDE DEF t
<1>3. Only(t, h, DeliverySide)
  BY Zenon DEF Only, DeliverySide
<1>4. Only(b, h, DeliverySide)
  BY <1>2, <1>3, OnlyTrans
<1> HIDE DEF h
<1>5. HoldThroughCompaction(b, x, gen, since) \in {b, ArmVerify(b, {x}), u, h}
  BY DEF HoldThroughCompaction, u, h, t
<1> QED
  BY <1>1, <1>4, <1>5, ArmVerifyOnly, OnlySelf

LEMMA VerdictOnly ==
  ASSUME NEW b, NEW i, NEW outcome, NEW since
  PROVE  Only(b, Verdict(b, i, outcome, since), DeliverySide)
<1> DEFINE x == b.deliveries[i].text
           g == b.deliveries[i].gen
           less == [b EXCEPT !.spent = @ \ {x}]
<1>1. Only(b, less, DeliverySide)
  BY Zenon DEF Only, DeliverySide
<1> HIDE DEF less, x, g
<1>2. ASSUME NEW c \in {b, less}, NEW j,
             j \in {c, HoldThroughCompaction(c, x, g, since), ArmVerify(c, {x}),
                    Redeliver([c EXCEPT !.spent = @ \cup {x}], x)}
      PROVE  Only(b, [j EXCEPT !.deliveries = RemoveAt(@, i)], DeliverySide)
  <2>1. Only(b, c, DeliverySide)
    BY <1>1, OnlySelf
  <2>2. Only(c, [c EXCEPT !.spent = @ \cup {x}], DeliverySide)
    BY Zenon DEF Only, DeliverySide
  <2>3. Only(c, Redeliver([c EXCEPT !.spent = @ \cup {x}], x), DeliverySide)
    BY <2>2, RedeliverOnly, OnlyTrans
  <2>4. Only(c, j, DeliverySide)
    BY <1>2, <2>3, HoldThroughCompactionOnly, ArmVerifyOnly, OnlySelf
  <2>5. Only(j, [j EXCEPT !.deliveries = RemoveAt(@, i)], DeliverySide)
    BY Zenon DEF Only, DeliverySide
  <2> QED
    BY <2>1, <2>4, <2>5, OnlyTrans
<1>3. \E c \in {b, less} : \E j \in {c, HoldThroughCompaction(c, x, g, since), ArmVerify(c, {x}),
                                     Redeliver([c EXCEPT !.spent = @ \cup {x}], x)} :
        Verdict(b, i, outcome, since) = [j EXCEPT !.deliveries = RemoveAt(@, i)]
  <2> DEFINE d        == b.deliveries[i]
             wasRetry == d.owns /\ x \in b.spent
             c        == IF wasRetry /\ outcome # "error" THEN less ELSE b
             gaveUp   == /\ outcome \in {"gave-up", "stuck-compaction"}
                         /\ ~wasRetry
                         /\ d.owns
                         /\ ~d.proven
                         /\ x # Nudge
             j == CASE ~gaveUp -> c
                    [] gaveUp /\ outcome = "stuck-compaction" -> HoldThroughCompaction(c, x, g, since)
                    [] gaveUp /\ outcome = "gave-up" /\ d.current -> ArmVerify(c, {x})
                    [] gaveUp /\ outcome = "gave-up" /\ ~d.current ->
                         Redeliver([c EXCEPT !.spent = @ \cup {x}], x)
  <2>1. Verdict(b, i, outcome, since) = [j EXCEPT !.deliveries = RemoveAt(@, i)]
    BY DEF Verdict, less, x, g
  <2>2. c \in {b, less}
    OBVIOUS
  <2> HIDE DEF c, wasRetry
  <2>3. j \in {c, HoldThroughCompaction(c, x, g, since), ArmVerify(c, {x}),
               Redeliver([c EXCEPT !.spent = @ \cup {x}], x)}
    OBVIOUS
  <2> QED
    BY <2>1, <2>2, <2>3
<1> QED
  BY <1>2, <1>3

LEMMA VerifyTimerOnly ==
  ASSUME NEW b, NEW x, b.verify[x] \in {"armed", "graced"}
  PROVE  Only(b, VerifyTimer(b, x), DeliverySide)
<1> DEFINE again == [b EXCEPT !.verify[x] = "spent", !.spent = @ \cup {x}]
<1>1. /\ Only(b, again, DeliverySide)
      /\ Only(b, [b EXCEPT !.verify[x] = "armed"], DeliverySide)
      /\ Only(b, [b EXCEPT !.verify[x] = "graced"], DeliverySide)
  BY Zenon DEF Only, DeliverySide
<1> HIDE DEF again
<1>2. Only(b, Redeliver(again, x), DeliverySide)
  BY <1>1, RedeliverOnly, OnlyTrans
<1>3. VerifyTimer(b, x) \in {[b EXCEPT !.verify[x] = "armed"], [b EXCEPT !.verify[x] = "graced"],
                             Redeliver(again, x)}
  BY DEF VerifyTimer, again
<1> QED
  BY <1>1, <1>2, <1>3

LEMMA NoteFlushTurnStartOnly ==
  ASSUME NEW b, NEW x
  PROVE  Only(b, NoteFlushTurnStart(b, x), DeliverySide)
<1> DEFINE seen == [i \in DOMAIN b.deliveries |->
                      IF b.deliveries[i].owns /\ b.deliveries[i].text = x
                        THEN [b.deliveries[i] EXCEPT !.proven = TRUE]
                        ELSE b.deliveries[i]]
           held == IF x \in b.spent THEN Without(b.held, x) ELSE b.held
           proven == [b EXCEPT !.deliveries = seen, !.spent = @ \ {x}, !.held = held,
                               !.carried = Without(@, x)]
<1> HIDE DEF seen, held
<1>1. Only(b, proven, DeliverySide)
  BY Zenon DEF Only, DeliverySide
<1>3. DOMAIN proven = DOMAIN b
  BY <1>1 DEF Only
<1> HIDE DEF proven
<1>2. /\ Only(proven, [proven EXCEPT !.hold[x] = None], DeliverySide)
      /\ Only(proven, [proven EXCEPT !.verify[x] = "none"], DeliverySide)
  BY Zenon DEF Only, DeliverySide
<1>4. Only(b, [proven EXCEPT !.hold[x] = None], DeliverySide) /\ Only(b, [proven EXCEPT !.verify[x] = "none"], DeliverySide)
  BY <1>1, <1>2, OnlyTrans
<1> QED
  BY <1>4, OnlySelf DEF NoteFlushTurnStart, proven, seen, held

\* What it does to the delivery side, it does whatever the turn's side is.
LEMMA NoteFlushTurnStartApart ==
  ASSUME NEW b \in BusStates, NEW c \in BusStates, Apart(b, c), NEW x
  PROVE  Apart(NoteFlushTurnStart(b, x), NoteFlushTurnStart(c, x))
<1> DEFINE Seen(v) == [i \in DOMAIN v.deliveries |->
                         IF v.deliveries[i].owns /\ v.deliveries[i].text = x
                           THEN [v.deliveries[i] EXCEPT !.proven = TRUE]
                           ELSE v.deliveries[i]]
           Kept(v) == IF x \in v.spent THEN Without(v.held, x) ELSE v.held
           Proven(v) == [v EXCEPT !.deliveries = Seen(v), !.spent = @ \ {x}, !.held = Kept(v),
                                  !.carried = Without(@, x)]
           Unheld(v) == [Proven(v) EXCEPT !.hold[x] = None]
           Unverified(v) == [Proven(v) EXCEPT !.verify[x] = "none"]
<1>1. Seen(b) = Seen(c) /\ Kept(b) = Kept(c)
  BY DEF Apart
<1> HIDE DEF Seen, Kept
<1>2. ASSUME NEW v \in BusStates
      PROVE  /\ DOMAIN Proven(v) = DOMAIN v
             /\ Proven(v).deliveries = Seen(v) /\ Proven(v).spent = v.spent \ {x}
             /\ Proven(v).held = Kept(v) /\ Proven(v).carried = Without(v.carried, x)
             /\ Proven(v).hold = v.hold /\ Proven(v).verify = v.verify
  BY ZenonT(60) DEF BusStates
<1>3. Apart(Proven(b), Proven(c))
  BY <1>1, <1>2 DEF Apart
<1> DEFINE Fields == {"deliveries", "held", "carried", "verify", "hold", "spent"}
<1>4. Fields \subseteq DOMAIN Proven(b) /\ Fields \subseteq DOMAIN Proven(c)
  <2>1. ASSUME NEW v \in BusStates PROVE Fields \subseteq DOMAIN v
    BY DEF BusStates
  <2> QED
    BY <1>2, <2>1
<1> HIDE DEF Proven
<1>5. ASSUME NEW u, NEW v, Apart(u, v), Fields \subseteq DOMAIN u, Fields \subseteq DOMAIN v
      PROVE  /\ Apart([u EXCEPT !.hold[x] = None], [v EXCEPT !.hold[x] = None])
             /\ Apart([u EXCEPT !.verify[x] = "none"], [v EXCEPT !.verify[x] = "none"])
  <2> DEFINE H(w) == [w EXCEPT !.hold[x] = None]
             V(w) == [w EXCEPT !.verify[x] = "none"]
  <2>1. ASSUME NEW w \in {u, v}
        PROVE  /\ Only(w, H(w), {"hold"}) /\ H(w).hold = [w.hold EXCEPT ![x] = None]
               /\ Only(w, V(w), {"verify"}) /\ V(w).verify = [w.verify EXCEPT ![x] = "none"]
    <3>1. "hold" \in DOMAIN w /\ "verify" \in DOMAIN w
      BY <1>5, <2>1
    <3>2. Only(w, H(w), {"hold"}) /\ Only(w, V(w), {"verify"})
      BY Zenon DEF Only
    <3> QED
      BY <3>1, <3>2
  <2> HIDE DEF H, V
  <2>2. u.hold = v.hold /\ u.verify = v.verify
    BY <1>5 DEF Apart
  <2>3. Apart(H(u), H(v))
    BY <1>5, <2>1, <2>2 DEF Only, Apart
  <2>4. Apart(V(u), V(v))
    BY <1>5, <2>1, <2>2 DEF Only, Apart
  <2> QED
    BY <2>3, <2>4 DEF H, V
<1>6. Apart(Unheld(b), Unheld(c)) /\ Apart(Unverified(b), Unverified(c))
  BY <1>3, <1>4, <1>5
<1>7. b.hold = c.hold
  BY DEF Apart
<1> HIDE DEF Unheld, Unverified
<1>8. ASSUME NEW v \in {b, c}
      PROVE  NoteFlushTurnStart(v, x) = IF x \notin Texts THEN v
                                        ELSE IF v.hold[x] # None THEN Unheld(v) ELSE Unverified(v)
  BY DEF NoteFlushTurnStart, Unheld, Unverified, Proven, Seen, Kept
<1> QED
  BY <1>6, <1>7, <1>8

\* What the delivery side leaves alone.
SameTurn(b, d) ==
  /\ d.queue = b.queue /\ d.op = b.op /\ d.pending = b.pending
  /\ d.streaming = b.streaming /\ d.nudged = b.nudged /\ d.parked = b.parked /\ d.settle = b.settle
  /\ d.earlyReleased = b.earlyReleased /\ d.awaitLine = b.awaitLine /\ d.pendingOrigin = b.pendingOrigin
  /\ d.slot = b.slot /\ d.silentClosed = b.silentClosed /\ d.replied = b.replied
  /\ d.published = b.published /\ d.answered = b.answered /\ d.known = b.known
  /\ d.lastEnd = b.lastEnd /\ d.init = b.init /\ d.liveGen = b.liveGen
  /\ d.closedOnce = b.closedOnce

LEMMA DeliverySideKeeps ==
  ASSUME NEW b \in BusStates, NEW d, Only(b, d, DeliverySide)
  PROVE  SameTurn(b, d)
BY DEF Only, DeliverySide, SameTurn, BusStates

\* What a reply changes.
ReplySide == {"slot", "slotAmbiguous", "replied", "nudged", "stash", "silentClosed", "published", "answered",
              "deadline"}

LEMMA IngestReplyOnly ==
  ASSUME NEW b, NEW named, NEW kind
  PROVE  LET d == IngestReply(b, named, kind)
         IN  Only(b, d, ReplySide)
<1> DEFINE pub     == Publish(b)
           cleared == [pub EXCEPT !.slot = None, !.slotAmbiguous = FALSE]
<1>1. Only(b, pub, ReplySide)
  BY Zenon DEF Only, ReplySide, Publish, Touch
<1> HIDE DEF pub
<1>2. Only(pub, cleared, ReplySide)
  BY Zenon DEF Only, ReplySide
<1> HIDE DEF cleared
<1>3. ASSUME NEW r \in {pub, cleared}, NEW silent, NEW answered
      PROVE  /\ Only(b, [[r EXCEPT !.replied = TRUE, !.nudged = FALSE, !.stash = None]
                            EXCEPT !.silentClosed = silent], ReplySide)
             /\ Only(b, [[r EXCEPT !.replied = TRUE, !.nudged = FALSE, !.stash = None]
                            EXCEPT !.silentClosed = None, !.published = TRUE, !.answered = answered], ReplySide)
  <2> DEFINE s == [r EXCEPT !.replied = TRUE, !.nudged = FALSE, !.stash = None]
  <2>1. Only(b, r, ReplySide)
    BY <1>1, <1>2, OnlyTrans
  <2>2. Only(r, s, ReplySide)
    BY Zenon DEF Only, ReplySide
  <2> HIDE DEF s
  <2>3. /\ Only(s, [s EXCEPT !.silentClosed = silent], ReplySide)
        /\ Only(s, [s EXCEPT !.silentClosed = None, !.published = TRUE, !.answered = answered], ReplySide)
    BY Zenon DEF Only, ReplySide
  <2> QED
    BY <2>1, <2>2, <2>3, OnlyTrans DEF s
<1>4. \E r \in {pub, cleared} : \E silent, answered :
        IngestReply(b, named, kind) \in
          {b,
           [[r EXCEPT !.replied = TRUE, !.nudged = FALSE, !.stash = None] EXCEPT !.silentClosed = silent],
           [[r EXCEPT !.replied = TRUE, !.nudged = FALSE, !.stash = None]
              EXCEPT !.silentClosed = None, !.published = TRUE, !.answered = answered]}
  <2> DEFINE namesOther == /\ named # None /\ named \in b.known
                           /\ b.slot # None
                           /\ SlotChat(b) # named
             r == IF namesOther THEN pub ELSE cleared
             s == [r EXCEPT !.replied = TRUE, !.nudged = FALSE, !.stash = None]
             to == Effective(b, named, kind)
             silent == IF b.slot # None THEN SlotChat(b) ELSE s.silentClosed
             answered == IF to # None THEN s.answered \cup {to} ELSE s.answered
  <2>1. r \in {pub, cleared}
    OBVIOUS
  <2>2. IngestReply(b, named, kind) \in
          {b, [s EXCEPT !.silentClosed = silent],
           [s EXCEPT !.silentClosed = None, !.published = TRUE, !.answered = answered]}
    BY DEF IngestReply, pub, cleared
  <2> HIDE DEF silent, answered, r
  <2> QED
    BY <2>1, <2>2
<1> QED
  BY <1>3, <1>4, OnlySelf

\* A reply that names another chat than the slot's leaves the slot.
NamesOther(b, named) == named # None /\ named \in b.known /\ b.slot # None /\ SlotChat(b) # named

\* What a reply that is not dropped leaves behind.
Replied(b, d, named, kind) ==
  /\ d.nudged = FALSE /\ d.replied = TRUE
  /\ d.slot = (IF NamesOther(b, named) THEN b.slot ELSE None)
  /\ kind # "silent" => d.silentClosed = None /\ d.published = TRUE

LEMMA IngestReplyEffect ==
  ASSUME NEW b \in BusStates, NEW named, NEW kind, ~Duplicate(b, named, kind)
  PROVE  Replied(b, IngestReply(b, named, kind), named, kind)
<1> DEFINE pub     == Publish(b)
           cleared == [pub EXCEPT !.slot = None, !.slotAmbiguous = FALSE]
           other   == NamesOther(b, named)
           to      == Effective(b, named, kind)
           r       == IF other THEN pub ELSE cleared
           s       == [r EXCEPT !.replied = TRUE, !.nudged = FALSE, !.stash = None]
           d       == IngestReply(b, named, kind)
           Seen(v) == v.published = b.published /\ v.answered = b.answered /\ v.silentClosed = b.silentClosed
<1>1. pub \in BusStates /\ SameTurn(b, pub)
  BY PublishTyped, TouchOnly, DeliverySideKeeps DEF Publish
<1> HIDE DEF pub
<1>2. cleared \in BusStates /\ cleared.slot = None /\ Seen(cleared)
  <2>1. None \in PromptOrNone
    BY DEF PromptOrNone
  <2>2. cleared \in BusStates
    BY <1>1, <2>1, ZenonT(30) DEF BusStates
  <2> QED
    BY <1>1, <2>2, ZenonT(30) DEF BusStates, SameTurn
<1> HIDE DEF cleared, other
<1>3. r \in BusStates /\ r.slot = (IF other THEN b.slot ELSE None) /\ Seen(r)
  BY <1>1, <1>2 DEF SameTurn
<1> HIDE DEF r
<1>4. s \in BusStates
  BY <1>3, ZenonT(30) DEF BusStates
<1>5. s.nudged = FALSE /\ s.replied = TRUE /\ s.slot = r.slot /\ s.published = r.published
      /\ s.answered = r.answered /\ s.silentClosed = r.silentClosed
  BY <1>3, ZenonT(30) DEF BusStates
<1> HIDE DEF s, to
<1>6. ASSUME NEW v
      PROVE  LET e == [s EXCEPT !.silentClosed = v]
             IN  /\ e.nudged = s.nudged /\ e.replied = s.replied /\ e.slot = s.slot
                 /\ e.published = s.published /\ e.answered = s.answered /\ e.silentClosed = v
  BY <1>4, ZenonT(30) DEF BusStates
<1>7. ASSUME NEW v
      PROVE  LET e == [s EXCEPT !.silentClosed = None, !.published = TRUE, !.answered = v]
             IN  /\ e.nudged = s.nudged /\ e.replied = s.replied /\ e.slot = s.slot
                 /\ e.published = TRUE /\ e.answered = v /\ e.silentClosed = None
  BY <1>4, ZenonT(30) DEF BusStates
<1>8. CASE kind = "silent"
  <2> DEFINE v == IF b.slot # None THEN SlotChat(b) ELSE s.silentClosed
  <2>1. d = [s EXCEPT !.silentClosed = v]
    BY <1>8 DEF IngestReply, s, r, cleared, pub, other, NamesOther
  <2> HIDE DEF d, v
  <2>2. d.nudged = FALSE /\ d.replied = TRUE /\ d.slot = r.slot
    BY <1>5, <1>6, <2>1
  <2> QED
    BY <1>3, <1>8, <2>2 DEF d, other, Replied
<1>9. CASE kind # "silent"
  <2> DEFINE v == IF to # None THEN s.answered \cup {to} ELSE s.answered
  <2>1. d = [s EXCEPT !.silentClosed = None, !.published = TRUE, !.answered = v]
    BY <1>9 DEF IngestReply, s, r, cleared, pub, other, to, NamesOther
  <2> HIDE DEF d, v
  <2>2. d.nudged = FALSE /\ d.replied = TRUE /\ d.slot = r.slot /\ d.published = TRUE /\ d.silentClosed = None
    BY <1>5, <1>7, <2>1
  <2> QED
    BY <1>3, <1>9, <2>2 DEF d, other, Replied
<1> QED
  BY <1>8, <1>9

--------------------------------------------------------------------------------
(* A bus whose turns nothing cuts short *)

\* No reminder is out, no turn was released before its end and no session is
\* being initialised.
Calm(b) ==
  /\ ~b.nudged /\ ~b.init /\ ~b.earlyReleased /\ b.awaitLine = None /\ b.pendingOrigin = None
  /\ b.liveGen = 1

LEMMA SameTurnCalm == ASSUME NEW b, NEW d, SameTurn(b, d), Calm(b) PROVE Calm(d)
BY Zenon DEF SameTurn, Calm

\* The turn's side of an admission.
Admits(b, d, p) ==
  /\ Calm(d)
  /\ d.op = p /\ d.pending = b.pending + 1 /\ d.slot = p /\ d.known = b.known \cup {Chat[p]}
  /\ d.silentClosed = None /\ ~d.replied /\ ~d.published /\ d.answered = {}
  /\ d.streaming = b.streaming /\ d.parked = b.parked /\ d.settle = b.settle
  /\ d.lastEnd = b.lastEnd /\ d.queue = b.queue /\ d.closedOnce = b.closedOnce

\* The bus as admitPrompt has it when it hands the prompt to the delivery side.
LEMMA AdmitPromptCalm ==
  ASSUME NEW b \in BusStates, Calm(b), NEW p \in Prompts, NEW online
  PROVE  \E c \in BusStates :
           /\ Admits(b, c, p) /\ Apart(b, c)
           /\ AdmitPrompt(b, p, online) = IF online THEN DeliverAll(c, <<p>>)
                                                    ELSE ArmVerify(DeliverAll(c, <<p>>), {p})
<1> DEFINE over == b.op # None \/ b.deadlineReleased
           c1 == [b EXCEPT !.overlap = over, !.deadlineReleased = FALSE, !.earlyReleased = FALSE,
                           !.awaitLine = None, !.op = p, !.pending = @ + 1]
           c2 == Publish(c1)
           c3 == ApplyOrigin(c2, p)
           c4 == OpenTurn(c3)
           c5 == [c4 EXCEPT !.nudged = FALSE, !.stash = None]
           c6 == DeliverAll(c5, <<p>>)
           Delivered(c) == Apart(b, c) /\ c.queue = b.queue /\ c.closedOnce = b.closedOnce
           Turned(c) == /\ ~c.init /\ ~c.earlyReleased /\ c.awaitLine = None /\ c.pendingOrigin = None
                        /\ c.liveGen = 1 /\ c.op = p /\ c.pending = b.pending + 1
                        /\ c.streaming = b.streaming /\ c.parked = b.parked /\ c.settle = b.settle
                        /\ c.lastEnd = b.lastEnd /\ c.known \subseteq b.known \cup {Chat[p]}
<1>1. None \in PromptOrNone /\ p \in PromptOrNone /\ Chat[p] \in Chats /\ over \in BOOLEAN
  BY ChatAssumption DEF PromptOrNone, BusStates
<1>2. b.pending + 1 \in Nat
  <2>1. b.pending \in Nat
    BY Zenon DEF BusStates
  <2> QED
    BY <2>1
<1> HIDE DEF over
<1>3. c1 \in BusStates
  BY <1>1, <1>2, ZenonT(60) DEF BusStates
<1>4. Delivered(c1)
  BY ZenonT(60) DEF BusStates, Apart
<1>5. Turned(c1) /\ c1.known = b.known
  <2>1. Turned(c1) <=> /\ ~c1.init /\ ~c1.earlyReleased /\ c1.awaitLine = None /\ c1.pendingOrigin = None
                       /\ c1.liveGen = 1 /\ c1.op = p /\ c1.pending = b.pending + 1
                       /\ c1.streaming = b.streaming /\ c1.parked = b.parked /\ c1.settle = b.settle
                       /\ c1.lastEnd = b.lastEnd /\ c1.known \subseteq b.known \cup {Chat[p]}
    OBVIOUS
  <2>2. /\ c1.init = b.init /\ c1.earlyReleased = FALSE /\ c1.awaitLine = None
        /\ c1.pendingOrigin = b.pendingOrigin /\ c1.liveGen = b.liveGen
        /\ c1.op = p /\ c1.pending = b.pending + 1
    BY ZenonT(60) DEF BusStates
  <2>3. /\ c1.streaming = b.streaming /\ c1.parked = b.parked /\ c1.settle = b.settle
        /\ c1.lastEnd = b.lastEnd /\ c1.known = b.known
    BY ZenonT(60) DEF BusStates
  <2> HIDE DEF c1
  <2> QED
    BY <2>1, <2>2, <2>3 DEF Calm
<1> HIDE DEF c1
<1>6. c2 \in BusStates /\ Delivered(c2) /\ Turned(c2) /\ c2.known = b.known
  <2>1. SameTurn(c1, c2) /\ Apart(c1, c2) /\ c2 \in BusStates
    BY <1>3, PublishTyped, TouchOnly, DeliverySideKeeps, TouchApart DEF Publish
  <2> QED
    BY <1>4, <1>5, <2>1 DEF SameTurn, Apart
<1> HIDE DEF c2
<1>7. c3 \in BusStates /\ Delivered(c3) /\ Turned(c3) /\ c3.known = b.known \cup {Chat[p]} /\ c3.slot = p
  <2>1. c3 \in BusStates /\ Stays(c2, c3) /\ Frame(c2, c3)
    BY <1>6, ApplyOriginTyped, ApplyOriginStays, ApplyOriginFrame
  <2>2. /\ c3.earlyReleased = c2.earlyReleased /\ c3.liveGen = c2.liveGen /\ c3.lastEnd = c2.lastEnd
        /\ c3.closedOnce = c2.closedOnce /\ c3.slot = p
        /\ c3.known = c2.known \cup {Chat[p]}
    BY <1>6, ZenonT(60) DEF BusStates, ApplyOrigin
  <2> HIDE DEF c3
  <2> QED
    BY <1>6, <2>1, <2>2 DEF Stays, Apart, Frame
<1> HIDE DEF c3
<1>8. /\ c4 \in BusStates /\ Delivered(c4) /\ Turned(c4) /\ c4.known = b.known \cup {Chat[p]} /\ c4.slot = p
      /\ c4.silentClosed = None /\ ~c4.replied /\ ~c4.published /\ c4.answered = {}
  <2>1. c4 \in BusStates /\ Stays(c3, c4) /\ Frame(c3, c4)
    BY <1>7, OpenTurnTyped, OpenTurnStays, OpenTurnFrame
  <2>2. /\ c4.earlyReleased = c3.earlyReleased /\ c4.liveGen = c3.liveGen /\ c4.lastEnd = c3.lastEnd
        /\ c4.closedOnce = c3.closedOnce /\ c4.slot = c3.slot /\ c4.known = c3.known
        /\ c4.silentClosed = None /\ c4.replied = FALSE /\ c4.published = FALSE /\ c4.answered = {}
    BY <1>7, ZenonT(60) DEF BusStates, OpenTurn
  <2> HIDE DEF c4
  <2> QED
    BY <1>7, <2>1, <2>2 DEF Stays, Apart, Frame
<1> HIDE DEF c4
<1>9. c5 \in BusStates /\ Admits(b, c5, p) /\ Apart(b, c5)
  <2>1. c5 \in BusStates
    BY <1>8, ZenonT(60) DEF BusStates
  <2>2. Only(c4, c5, {"nudged", "stash"}) /\ c5.nudged = FALSE
    BY <1>8, ZenonT(60) DEF BusStates, Only
  <2> HIDE DEF c5
  <2>3. Apart(c4, c5) /\ c5.queue = c4.queue /\ c5.closedOnce = c4.closedOnce
    BY <1>8, <2>2 DEF Only, BusStates, Apart
  <2>4. /\ c5.init = c4.init /\ c5.earlyReleased = c4.earlyReleased /\ c5.awaitLine = c4.awaitLine
        /\ c5.pendingOrigin = c4.pendingOrigin /\ c5.liveGen = c4.liveGen /\ c5.op = c4.op
        /\ c5.pending = c4.pending
    BY <1>8, <2>2 DEF Only, BusStates
  <2>5. /\ c5.streaming = c4.streaming /\ c5.parked = c4.parked
        /\ c5.settle = c4.settle /\ c5.lastEnd = c4.lastEnd /\ c5.known = c4.known /\ c5.slot = c4.slot
    BY <1>8, <2>2 DEF Only, BusStates
  <2>6. /\ c5.silentClosed = c4.silentClosed /\ c5.replied = c4.replied /\ c5.published = c4.published
        /\ c5.answered = c4.answered
    BY <1>8, <2>2 DEF Only, BusStates
  <2> QED
    BY <1>8, <2>1, <2>2, <2>3, <2>4, <2>5, <2>6 DEF Apart, Admits, Calm
<1>10. AdmitPrompt(b, p, online) = IF online THEN c6 ELSE ArmVerify(c6, {p})
  <2>1. (b.earlyReleased \/ b.awaitLine # None) = FALSE
    BY Zenon DEF Calm
  <2> DEFINE Admitted(awaits) ==
               LET counted == Publish([b EXCEPT !.overlap = b.op # None \/ b.deadlineReleased,
                                                !.deadlineReleased = FALSE,
                                                !.earlyReleased = FALSE,
                                                !.awaitLine = IF awaits THEN p ELSE None,
                                                !.op = p,
                                                !.pending = @ + 1])
                   routed  == IF awaits THEN [counted EXCEPT !.pendingOrigin = p] ELSE ApplyOrigin(counted, p)
                   opened  == [OpenTurn(routed) EXCEPT !.nudged = FALSE, !.stash = None]
                   handed  == DeliverOrQueue(opened, p)
               IN  IF (~online \/ awaits) /\ ~b.init THEN ArmVerify(handed, {p}) ELSE handed
  <2>4. AdmitPrompt(b, p, online) = Admitted(b.earlyReleased \/ b.awaitLine # None)
    BY DEF AdmitPrompt
  <2>5. Admitted(FALSE) = IF ~online /\ ~b.init THEN ArmVerify(c6, {p}) ELSE c6
    BY DEF c6, c5, c4, c3, c2, c1, over, DeliverOrQueue
  <2> HIDE DEF Admitted
  <2>2. AdmitPrompt(b, p, online) = IF ~online /\ ~b.init THEN ArmVerify(c6, {p}) ELSE c6
    BY <2>1, <2>4, <2>5
  <2> HIDE DEF c6
  <2> QED
    BY <2>2 DEF Calm
<1> QED
  BY <1>9, <1>10

\* What the net does with a terminator while it sends no reminders.
LEMMA HandleTurnEndCalm ==
  ASSUME NEW b \in BusStates, Calm(b), ~NudgeEnabled, NEW text \in Says, NEW inject, NEW online
  PROVE  LET net == HandleTurnEnd(b, text, inject, online)
         IN  /\ net \in BusStates /\ Only(b, net, ReplySide) /\ ~net.nudged
             /\ net.slot \in {None, b.slot}
             /\ NetVerdict(b, text, inject) = "synthesize" => net.slot = None
<1> DEFINE silent == [b EXCEPT !.replied = TRUE]
           spoken == [b EXCEPT !.replied = TRUE, !.nudged = FALSE, !.stash = None]
           net    == HandleTurnEnd(b, text, inject, online)
<1>1. silent \in BusStates /\ Only(b, silent, ReplySide)
  BY ZenonT(30) DEF BusStates, Only, ReplySide
<1>2. spoken \in BusStates /\ Only(b, spoken, ReplySide)
  BY ZenonT(60) DEF BusStates, Only, ReplySide
<1> HIDE DEF silent, spoken
<1>3. ASSUME NEW c \in {silent, spoken}, NEW kind \in {"silent", "synthetic"}
      PROVE  LET d == IngestReply(c, None, kind)
             IN  d \in BusStates /\ Only(b, d, ReplySide) /\ ~d.nudged /\ d.slot = None
  <2>1. c \in BusStates /\ Only(b, c, ReplySide)
    BY <1>1, <1>2
  <2>2. ~Duplicate(c, None, kind)
    BY DEF Duplicate
  <2>3. IngestReply(c, None, kind) \in BusStates
    BY <2>1, IngestReplyTyped
  <2>4. Only(b, IngestReply(c, None, kind), ReplySide)
    BY <2>1, IngestReplyOnly, OnlyTrans
  <2>5. IngestReply(c, None, kind).nudged = FALSE /\ IngestReply(c, None, kind).slot = None
    <3>1. Replied(c, IngestReply(c, None, kind), None, kind)
      BY <2>1, <2>2, IngestReplyEffect
    <3> QED
      BY <3>1 DEF Replied, NamesOther
  <2> QED
    BY <2>3, <2>4, <2>5
<1>4. NetVerdict(b, text, inject) \in {"nothing", "silent", "synthesize"}
  BY Zenon DEF NetVerdict
<1>5. NetVerdict(b, text, inject) = "nothing" => net = b
  BY DEF HandleTurnEnd
<1>6. NetVerdict(b, text, inject) = "silent" => net = IngestReply(silent, None, "silent")
  BY DEF HandleTurnEnd, silent
<1>7. NetVerdict(b, text, inject) = "synthesize" => net = IngestReply(spoken, None, "synthetic")
  BY DEF HandleTurnEnd, spoken
<1>8. Only(b, b, ReplySide) /\ ~b.nudged
  BY OnlySelf DEF Calm
<1> HIDE DEF net
<1> QED
  BY <1>3, <1>4, <1>5, <1>6, <1>7, <1>8 DEF net

\* What a reply leaves alone.
LEMMA ReplySideKeeps ==
  ASSUME NEW b \in BusStates, NEW d, Only(b, d, ReplySide)
  PROVE  /\ Apart(b, d)
         /\ d.queue = b.queue /\ d.op = b.op /\ d.pending = b.pending
         /\ d.streaming = b.streaming /\ d.parked = b.parked /\ d.settle = b.settle
         /\ d.earlyReleased = b.earlyReleased /\ d.awaitLine = b.awaitLine
         /\ d.pendingOrigin = b.pendingOrigin /\ d.known = b.known
         /\ d.lastEnd = b.lastEnd /\ d.init = b.init /\ d.liveGen = b.liveGen
         /\ d.closedOnce = b.closedOnce
<1>1. Apart(b, d)
  BY DEF Only, ReplySide, BusStates, Apart
<1>2. /\ d.queue = b.queue /\ d.op = b.op /\ d.pending = b.pending
      /\ d.streaming = b.streaming /\ d.parked = b.parked /\ d.settle = b.settle
      /\ d.earlyReleased = b.earlyReleased /\ d.awaitLine = b.awaitLine
  BY DEF Only, ReplySide, BusStates
<1>3. /\ d.pendingOrigin = b.pendingOrigin /\ d.known = b.known
      /\ d.lastEnd = b.lastEnd /\ d.init = b.init /\ d.liveGen = b.liveGen
      /\ d.closedOnce = b.closedOnce
  BY DEF Only, ReplySide, BusStates
<1> QED
  BY <1>1, <1>2, <1>3

\* A terminator ends the turn that is counted, unless it is one more line of the
\* turn before.
LEMMA TurnEndCalm ==
  ASSUME NEW b \in BusStates, Calm(b), Gate(b), ~NudgeEnabled, NEW id \in Nat, NEW text \in Says,
         NEW inject, NEW online
  PROVE  LET d   == TurnEnd(b, id, text, inject, online)
             net == HandleTurnEnd(b, text, inject, online)
         IN  /\ LateLine(b, id) => d = b
             /\ ~LateLine(b, id) =>
                  /\ Calm(d) /\ Apart(b, d) /\ d.queue = b.queue /\ d.closedOnce = b.closedOnce
                  /\ d.settle /\ ~d.streaming /\ ~d.parked /\ d.lastEnd = id
                  /\ d.op = (IF id # b.lastEnd THEN None ELSE b.op)
                  /\ d.slot = net.slot /\ d.known = b.known
<1> DEFINE net      == HandleTurnEnd(b, text, inject, online)
           over     == [net EXCEPT !.streaming = FALSE, !.parked = FALSE, !.redelivered = {},
                                   !.earlyReleased = FALSE, !.deadlineReleased = FALSE, !.lastEnd = id]
           said     == Publish(over)
           freed    == [said EXCEPT !.pending = 0, !.op = None, !.overlap = FALSE]
           released == IF id # b.lastEnd THEN ReleaseTurn(said) ELSE said
           settling == [released EXCEPT !.settle = TRUE]
           Same(c)  == /\ Apart(b, c) /\ c.queue = b.queue /\ c.closedOnce = b.closedOnce /\ c.slot = net.slot
                       /\ c.known = b.known /\ Calm(c)
           Over(c)  == ~c.streaming /\ ~c.parked /\ c.lastEnd = id
<1> SUFFICES ASSUME ~LateLine(b, id)
             PROVE  LET d == TurnEnd(b, id, text, inject, online)
                    IN  Same(d) /\ Over(d) /\ d.settle /\ d.op = (IF id # b.lastEnd THEN None ELSE b.op)
  BY DEF TurnEnd
<1>1. net \in BusStates /\ Same(net) /\ net.op = b.op /\ net.pending = b.pending
  <2>1. net \in BusStates /\ Only(b, net, ReplySide) /\ ~net.nudged
    BY HandleTurnEndCalm
  <2> HIDE DEF net
  <2> QED
    BY <2>1, ReplySideKeeps DEF Calm
<1>2. TurnEnd(b, id, text, inject, online) = ScheduleAdmit(released)
  <2>1. ~Stale(b)
    BY DEF Stale, Calm
  <2> QED
    BY <2>1, Zenon DEF TurnEnd, released, said, over, net
<1> HIDE DEF net
<1>3. over \in BusStates /\ Same(over) /\ Over(over) /\ over.op = b.op /\ over.pending = b.pending
  <2>1. over \in BusStates
    BY <1>1, ZenonT(60) DEF BusStates
  <2>2. over.streaming = FALSE /\ over.parked = FALSE /\ over.lastEnd = id /\ over.earlyReleased = FALSE
    BY <1>1, ZenonT(60) DEF BusStates
  <2>3. Only(net, over, {"streaming", "parked", "redelivered", "earlyReleased", "deadlineReleased", "lastEnd"})
    BY Zenon DEF Only
  <2> HIDE DEF over
  <2>4. Apart(net, over) /\ over.queue = net.queue /\ over.closedOnce = net.closedOnce /\ over.slot = net.slot
    BY <1>1, <2>3 DEF Only, BusStates, Apart
  <2>5. /\ over.known = net.known /\ over.nudged = net.nudged /\ over.init = net.init
        /\ over.awaitLine = net.awaitLine /\ over.pendingOrigin = net.pendingOrigin
        /\ over.liveGen = net.liveGen /\ over.op = net.op /\ over.pending = net.pending
    BY <1>1, <2>3 DEF Only, BusStates
  <2> QED
    BY <1>1, <2>1, <2>2, <2>4, <2>5 DEF Apart, Calm
<1> HIDE DEF over
<1>4. said \in BusStates /\ Same(said) /\ Over(said) /\ said.op = b.op /\ said.pending = b.pending
  <2>1. said \in BusStates /\ SameTurn(over, said) /\ Apart(over, said)
    BY <1>3, PublishTyped, TouchOnly, DeliverySideKeeps, TouchApart DEF Publish
  <2> HIDE DEF said
  <2> QED
    BY <1>3, <2>1, SameTurnCalm DEF SameTurn, Apart
<1> HIDE DEF said
<1>5. freed \in BusStates /\ Same(freed) /\ Over(freed) /\ freed.op = None
  <2>1. None \in PromptOrNone /\ freed.op = None
    BY <1>4, Zenon DEF PromptOrNone, BusStates
  <2>2. freed \in BusStates
    BY <1>4, <2>1, ZenonT(60) DEF BusStates
  <2>3. Only(said, freed, {"pending", "op", "overlap"})
    BY Zenon DEF Only
  <2> HIDE DEF freed
  <2>4. Apart(said, freed) /\ freed.queue = said.queue /\ freed.closedOnce = said.closedOnce /\ freed.slot = said.slot
    BY <1>4, <2>3 DEF Only, BusStates, Apart
  <2>5. /\ freed.known = said.known /\ freed.nudged = said.nudged /\ freed.init = said.init
        /\ freed.awaitLine = said.awaitLine /\ freed.pendingOrigin = said.pendingOrigin
        /\ freed.liveGen = said.liveGen /\ freed.earlyReleased = said.earlyReleased
    BY <1>4, <2>3 DEF Only, BusStates
  <2>6. freed.streaming = said.streaming /\ freed.parked = said.parked /\ freed.lastEnd = said.lastEnd
    BY <1>4, <2>3 DEF Only, BusStates
  <2> QED
    BY <1>4, <2>1, <2>2, <2>4, <2>5, <2>6 DEF Apart, Calm
<1>6. said.pending \in {0, 1}
  BY <1>4 DEF Gate, Parts, Counted
<1>7. released \in BusStates /\ Same(released) /\ Over(released)
      /\ released.op = (IF id # b.lastEnd THEN None ELSE b.op)
  <2>1. ReleaseTurn(said) = Touch(freed)
    BY <1>6 DEF ReleaseTurn, freed
  <2> HIDE DEF freed
  <2>2. Touch(freed) \in BusStates /\ SameTurn(freed, Touch(freed)) /\ Apart(freed, Touch(freed))
    BY <1>5, TouchTyped, TouchOnly, DeliverySideKeeps, TouchApart
  <2>3. Same(Touch(freed)) /\ Over(Touch(freed)) /\ Touch(freed).op = None
    BY <1>5, <2>2, SameTurnCalm DEF SameTurn, Apart
  <2> QED
    BY <1>4, <2>1, <2>2, <2>3
<1> HIDE DEF released
<1>8. settling \in BusStates /\ Same(settling) /\ Over(settling) /\ settling.settle /\ settling.op = released.op
  <2>1. settling \in BusStates /\ settling.settle = TRUE
    BY <1>7, Zenon DEF BusStates
  <2>2. Only(released, settling, {"settle"})
    BY Zenon DEF Only
  <2> HIDE DEF settling
  <2>4. Apart(released, settling) /\ settling.queue = released.queue /\ settling.closedOnce = released.closedOnce
        /\ settling.slot = released.slot /\ settling.op = released.op
    BY <1>7, <2>2 DEF Only, BusStates, Apart
  <2>5. /\ settling.known = released.known /\ settling.nudged = released.nudged /\ settling.init = released.init
        /\ settling.awaitLine = released.awaitLine /\ settling.pendingOrigin = released.pendingOrigin
        /\ settling.liveGen = released.liveGen /\ settling.earlyReleased = released.earlyReleased
    BY <1>7, <2>2 DEF Only, BusStates
  <2>6. settling.streaming = released.streaming /\ settling.parked = released.parked /\ settling.lastEnd = released.lastEnd
    BY <1>7, <2>2 DEF Only, BusStates
  <2> QED
    BY <1>7, <2>1, <2>4, <2>5, <2>6 DEF Apart, Calm
<1>9. ScheduleAdmit(released) = Touch(settling)
  BY DEF ScheduleAdmit, settling
<1> HIDE DEF settling
<1>10. Touch(settling) \in BusStates /\ SameTurn(settling, Touch(settling)) /\ Apart(settling, Touch(settling))
  BY <1>8, TouchTyped, TouchOnly, DeliverySideKeeps, TouchApart
<1> QED
  BY <1>2, <1>7, <1>8, <1>9, <1>10, SameTurnCalm DEF SameTurn, Apart

\* A prompt's line: its text is noted, and a turn streams.
LEMMA PromptLineCalm ==
  ASSUME NEW b \in BusStates, Calm(b), NEW x
  PROVE  LET d == PromptLine(b, x)
         IN  /\ Calm(d) /\ Apart(NoteFlushTurnStart(b, x), d)
             /\ d.queue = b.queue /\ d.op = b.op /\ d.settle = b.settle /\ d.streaming
             /\ d.slot = b.slot /\ d.known = b.known /\ d.lastEnd = b.lastEnd
             /\ d.closedOnce = b.closedOnce /\ d.silentClosed = None /\ d.parked = b.parked
<1> DEFINE noted   == NoteFlushTurnStart(b, x)
           fall    == noted.fallback /\ x \notin {Nudge, NudgeNote}
           nudgeIn == [noted EXCEPT !.fallback = fall]
           live    == [nudgeIn EXCEPT !.streaming = TRUE]
           opened  == OpenTurn(live)
           d       == PromptLine(b, x)
<1>1. noted \in BusStates /\ SameTurn(b, noted)
  BY NoteFlushTurnStartTyped, NoteFlushTurnStartOnly, DeliverySideKeeps
<1> HIDE DEF noted
<1>2. fall \in BOOLEAN
  BY <1>1 DEF BusStates
<1> HIDE DEF fall
<1>3. nudgeIn \in BusStates /\ SameTurn(noted, nudgeIn) /\ Apart(noted, nudgeIn)
  <2>1. nudgeIn \in BusStates
    BY <1>1, <1>2, Zenon DEF BusStates
  <2>2. Only(noted, nudgeIn, {"fallback"})
    BY Zenon DEF Only
  <2> HIDE DEF nudgeIn
  <2>3. Apart(noted, nudgeIn)
    BY <1>1, <2>2 DEF Only, BusStates, Apart
  <2>4. SameTurn(noted, nudgeIn)
    BY <1>1, <2>2 DEF Only, BusStates, SameTurn
  <2> QED
    BY <2>1, <2>3, <2>4
<1>4. TakeAwaitedLine(nudgeIn, x) = nudgeIn
  <2>1. nudgeIn.awaitLine = None
    BY <1>1, <1>3 DEF SameTurn, Calm
  <2> HIDE DEF nudgeIn
  <2> QED
    BY <2>1 DEF TakeAwaitedLine
<1>5. d = Publish(opened)
  <2>1. d = Publish(OpenTurn([TakeAwaitedLine(nudgeIn, x) EXCEPT !.streaming = TRUE]))
    BY DEF PromptLine, nudgeIn, fall, noted
  <2> QED
    BY <1>4, <2>1
<1> HIDE DEF nudgeIn, d
<1>6. /\ live \in BusStates /\ live.streaming = TRUE
      /\ Only(nudgeIn, live, {"streaming"})
  BY <1>3, ZenonT(30) DEF BusStates, Only
<1> HIDE DEF live
<1>7. opened \in BusStates /\ Only(live, opened, {"replied", "published", "answered", "silentClosed"})
      /\ opened.silentClosed = None
  <2>1. Only(live, OpenTurn(live), {"replied", "published", "answered", "silentClosed"})
    BY Zenon DEF Only, OpenTurn
  <2>2. OpenTurn(live).silentClosed = None
    BY <1>6, ZenonT(30) DEF OpenTurn, BusStates
  <2> QED
    BY <1>6, <2>1, <2>2, OpenTurnTyped
<1> HIDE DEF opened
<1>8. d \in BusStates /\ SameTurn(opened, d) /\ Apart(opened, d)
  BY <1>5, <1>7, PublishTyped, TouchOnly, DeliverySideKeeps, TouchApart DEF Publish
<1>9. Only(nudgeIn, opened, {"streaming", "replied", "published", "answered", "silentClosed"})
  BY <1>6, <1>7, Zenon DEF Only
<1>10. /\ Apart(nudgeIn, opened) /\ opened.queue = nudgeIn.queue /\ opened.op = nudgeIn.op
       /\ opened.settle = nudgeIn.settle /\ opened.slot = nudgeIn.slot /\ opened.known = nudgeIn.known
       /\ opened.parked = nudgeIn.parked
  BY <1>3, <1>9 DEF Only, BusStates, Apart
<1>11. /\ opened.lastEnd = nudgeIn.lastEnd /\ opened.closedOnce = nudgeIn.closedOnce
       /\ opened.nudged = nudgeIn.nudged /\ opened.init = nudgeIn.init
       /\ opened.earlyReleased = nudgeIn.earlyReleased /\ opened.awaitLine = nudgeIn.awaitLine
       /\ opened.pendingOrigin = nudgeIn.pendingOrigin /\ opened.liveGen = nudgeIn.liveGen
  BY <1>3, <1>9 DEF Only, BusStates
<1>12. opened.streaming = TRUE
  BY <1>6, <1>7 DEF Only, BusStates
<1>13. Calm(d)
  BY <1>1, <1>3, <1>8, <1>11 DEF SameTurn, Calm
<1>14. Apart(noted, d)
  BY <1>3, <1>8, <1>10 DEF Apart
<1> QED
  BY <1>1, <1>3, <1>7, <1>8, <1>10, <1>11, <1>12, <1>13, <1>14 DEF SameTurn, d, noted

\* An absorbed text is noted; it may end the counted turn.
LEMMA AbsorbedLineCalm ==
  ASSUME NEW b \in BusStates, Calm(b), Gate(b), NEW x
  PROVE  LET d == AbsorbedLine(b, x)
         IN  /\ Calm(d) /\ Apart(NoteFlushTurnStart(b, x), d)
             /\ d.queue = b.queue /\ d.streaming = b.streaming /\ d.parked = b.parked
             /\ d.closedOnce = b.closedOnce
<1> DEFINE fall    == b.fallback /\ x \notin {Nudge, NudgeNote}
           nudgeIn == [b EXCEPT !.fallback = fall]
           noted   == NoteFlushTurnStart(nudgeIn, x)
           freed   == [noted EXCEPT !.pending = 0, !.op = None, !.overlap = FALSE]
           said    == IF WasUnverified(nudgeIn, x) THEN ReleaseTurn(noted) ELSE noted
           d       == AbsorbedLine(b, x)
           Same(c) == /\ Apart(noted, c) /\ c.queue = b.queue /\ c.streaming = b.streaming /\ c.parked = b.parked
                      /\ c.closedOnce = b.closedOnce /\ Calm(c)
<1>1. fall \in BOOLEAN
  BY DEF BusStates
<1> HIDE DEF fall
<1>2. nudgeIn \in BusStates /\ SameTurn(b, nudgeIn) /\ Apart(b, nudgeIn)
  <2>1. nudgeIn \in BusStates
    BY <1>1, Zenon DEF BusStates
  <2>2. Only(b, nudgeIn, {"fallback"})
    BY Zenon DEF Only
  <2> HIDE DEF nudgeIn
  <2>3. Apart(b, nudgeIn)
    BY <2>2 DEF Only, BusStates, Apart
  <2>4. SameTurn(b, nudgeIn)
    BY <2>2 DEF Only, BusStates, SameTurn
  <2> QED
    BY <2>1, <2>3, <2>4
<1>3. TakeAwaitedLine(nudgeIn, x) = nudgeIn
  <2>1. nudgeIn.awaitLine = None
    BY <1>2 DEF SameTurn, Calm
  <2> HIDE DEF nudgeIn
  <2> QED
    BY <2>1 DEF TakeAwaitedLine
<1>4. d = Publish(said)
  <2>1. d = Publish(IF WasUnverified(TakeAwaitedLine(nudgeIn, x), x)
                      THEN ReleaseTurn(NoteFlushTurnStart(TakeAwaitedLine(nudgeIn, x), x))
                      ELSE NoteFlushTurnStart(TakeAwaitedLine(nudgeIn, x), x))
    BY DEF AbsorbedLine, nudgeIn, fall
  <2> HIDE DEF nudgeIn, d
  <2> QED
    BY <1>3, <2>1
<1>5. Apart(NoteFlushTurnStart(b, x), noted)
  BY <1>2, NoteFlushTurnStartApart
<1> HIDE DEF nudgeIn, d
<1>6. noted \in BusStates /\ SameTurn(nudgeIn, noted)
  BY <1>2, NoteFlushTurnStartTyped, NoteFlushTurnStartOnly, DeliverySideKeeps
<1>7. Same(noted) /\ noted.pending \in {0, 1}
  BY <1>2, <1>6, SameTurnCalm DEF SameTurn, Apart, Gate, Parts, Counted
<1> HIDE DEF noted
<1>8. freed \in BusStates /\ Same(freed)
  <2>1. None \in PromptOrNone
    BY DEF PromptOrNone
  <2>2. freed \in BusStates
    BY <1>6, <2>1, ZenonT(60) DEF BusStates
  <2>3. Only(noted, freed, {"pending", "op", "overlap"})
    BY Zenon DEF Only
  <2> HIDE DEF freed
  <2>4. /\ Apart(noted, freed) /\ freed.queue = noted.queue /\ freed.closedOnce = noted.closedOnce
        /\ freed.streaming = noted.streaming /\ freed.parked = noted.parked
    BY <1>6, <2>3 DEF Only, BusStates, Apart
  <2>5. /\ freed.nudged = noted.nudged /\ freed.init = noted.init
        /\ freed.awaitLine = noted.awaitLine /\ freed.pendingOrigin = noted.pendingOrigin
        /\ freed.liveGen = noted.liveGen /\ freed.earlyReleased = noted.earlyReleased
    BY <1>6, <2>3 DEF Only, BusStates
  <2> QED
    BY <1>7, <2>2, <2>4, <2>5 DEF Calm
<1>9. said \in {noted, Touch(freed)}
  BY <1>7 DEF ReleaseTurn, freed
<1> HIDE DEF freed, said
<1>10. Touch(freed) \in BusStates /\ SameTurn(freed, Touch(freed)) /\ Apart(freed, Touch(freed))
  BY <1>8, TouchTyped, TouchOnly, DeliverySideKeeps, TouchApart
<1>11. said \in BusStates /\ Same(said)
  BY <1>6, <1>7, <1>8, <1>9, <1>10, SameTurnCalm DEF SameTurn, Apart
<1>12. d \in BusStates /\ SameTurn(said, d) /\ Apart(said, d)
  BY <1>4, <1>11, PublishTyped, TouchOnly, DeliverySideKeeps, TouchApart DEF Publish
<1>13. Same(d)
  BY <1>11, <1>12, SameTurnCalm DEF SameTurn, Apart
<1> QED
  BY <1>5, <1>13 DEF Apart, d

--------------------------------------------------------------------------------
(* What a handler sets under way *)

\* Delivery f is delivery e, of which more may be known by now.
Like(e, f) == f.text = e.text /\ f.typed = e.typed /\ f.current = e.current /\ (e.proven => f.proven)

\* Delivery f has just been handed to the PTY layer.
Fresh(f) == f.current /\ ~f.typed

\* From b to d deliveries start of texts in xs only, verifies of texts in vs and
\* holds of texts in hs, and nothing is left to wait.
Moves(b, d, xs, vs, hs) ==
  /\ \A i \in DOMAIN d.deliveries :
       LET f == d.deliveries[i]
       IN  (f.text \in xs /\ Fresh(f)) \/ \E j \in DOMAIN b.deliveries : Like(b.deliveries[j], f)
  /\ \A y \in Texts : Verifying(d, y) => Verifying(b, y) \/ y \in vs
  /\ \A y \in Texts : d.hold[y] # None => b.hold[y] # None \/ y \in hs
  /\ b.held = <<>> /\ b.carried = <<>> => d.held = <<>> /\ d.carried = <<>>

LEMMA MovesTrans ==
  ASSUME NEW a, NEW b, NEW d, NEW xs, NEW vs, NEW hs, Moves(a, b, xs, vs, hs), NEW ys, NEW us, NEW gs,
         Moves(b, d, ys, us, gs)
  PROVE  Moves(a, d, xs \cup ys, vs \cup us, hs \cup gs)
<1>1. ASSUME NEW i \in DOMAIN d.deliveries
      PROVE  LET f == d.deliveries[i]
             IN  (f.text \in xs \cup ys /\ Fresh(f)) \/ \E j \in DOMAIN a.deliveries : Like(a.deliveries[j], f)
  <2> DEFINE f == d.deliveries[i]
  <2>1. CASE f.text \in ys /\ Fresh(f)
    BY <2>1
  <2>2. CASE \E j \in DOMAIN b.deliveries : Like(b.deliveries[j], f)
    <3>1. PICK j \in DOMAIN b.deliveries : Like(b.deliveries[j], f)
      BY <2>2
    <3> DEFINE e == b.deliveries[j]
    <3>2. (e.text \in xs /\ Fresh(e)) \/ \E l \in DOMAIN a.deliveries : Like(a.deliveries[l], e)
      BY DEF Moves
    <3> HIDE DEF e, f
    <3>3. e.text \in xs /\ Fresh(e) => f.text \in xs /\ Fresh(f)
      BY <3>1 DEF Like, Fresh, e, f
    <3>4. ASSUME NEW g, Like(g, e) PROVE Like(g, f)
      BY <3>1, <3>4 DEF Like, e, f
    <3> QED
      BY <3>2, <3>3, <3>4 DEF f
  <2> QED
    BY <2>1, <2>2 DEF Moves
<1>2. \A y \in Texts : Verifying(d, y) => Verifying(a, y) \/ y \in vs \cup us
  BY Zenon DEF Moves
<1>3. \A y \in Texts : d.hold[y] # None => a.hold[y] # None \/ y \in hs \cup gs
  BY Zenon DEF Moves
<1>4. a.held = <<>> /\ a.carried = <<>> => d.held = <<>> /\ d.carried = <<>>
  BY Zenon DEF Moves
<1> QED
  BY <1>1, <1>2, <1>3, <1>4 DEF Moves

LEMMA MovesWider ==
  ASSUME NEW b, NEW d, NEW xs, NEW vs, NEW hs, Moves(b, d, xs, vs, hs), NEW ys, NEW us, NEW gs,
         xs \subseteq ys, vs \subseteq us, hs \subseteq gs
  PROVE  Moves(b, d, ys, us, gs)
BY DEF Moves

LEMMA ApartMoves == ASSUME NEW b, NEW d, Apart(b, d) PROVE Moves(b, d, {}, {}, {})
<1>1. \A e : Like(e, e)
  BY DEF Like
<1> QED
  BY <1>1 DEF Apart, Moves, Verifying

LEMMA StreamAllMoves ==
  ASSUME NEW b \in BusStates, NEW x \in Texts
  PROVE  Moves(b, StreamAll(b, <<x>>), {x}, {}, {})
<1> DEFINE xs == <<x>>
           ds == b.deliveries
           d  == StreamAll(b, xs)
           es == d.deliveries
<1>1. xs \in Seq(Texts) /\ Len(xs) = 1 /\ DOMAIN xs = {1} /\ xs[1] = x
  OBVIOUS
<1>2. ds \in Seq(Deliveries) /\ DOMAIN ds = 1 .. Len(ds) /\ Len(ds) \in Nat
  <2>1. ds \in Seq(Deliveries)
    BY Zenon DEF BusStates
  <2> HIDE DEF ds
  <2> QED
    BY <2>1
<1> HIDE DEF xs
<1>3. /\ DOMAIN es = 1 .. Len(ds) + Len(xs)
      /\ \A i \in DOMAIN ds :
           /\ es[i].text = ds[i].text /\ es[i].typed = ds[i].typed /\ es[i].current = ds[i].current
           /\ es[i].proven = ds[i].proven
      /\ \A i \in DOMAIN xs : es[Len(ds) + i] = Started(b, xs)[i]
  BY <1>1, StreamAllPlaces
<1>4. ASSUME NEW i \in DOMAIN xs
      PROVE  LET f == Started(b, xs)[i] IN f.text = xs[i] /\ f.typed = FALSE /\ f.current = TRUE
  <2> DEFINE last == \A j \in i + 1 .. Len(xs) : xs[j] # xs[i]
             f    == Started(b, xs)[i]
  <2>1. f.text = xs[i] /\ f.typed = FALSE /\ f.current = TRUE /\ (f.owns <=> last)
    BY StartedIs, Zenon
  <2> HIDE DEF last
  <2> QED
    BY <2>1
<1>5. d.held = b.held /\ d.carried = b.carried /\ d.verify = b.verify /\ d.hold = b.hold
  BY StreamAllFields
<1> HIDE DEF d, ds
<1>6. ASSUME NEW i \in DOMAIN es
      PROVE  (es[i].text \in {x} /\ Fresh(es[i])) \/ \E j \in DOMAIN ds : Like(ds[j], es[i])
  <2>1. i \in DOMAIN ds \/ i = Len(ds) + 1
    BY <1>1, <1>2, <1>3
  <2>2. CASE i \in DOMAIN ds
    BY <1>3, <2>2 DEF Like
  <2>3. CASE i = Len(ds) + 1
    <3>1. 1 \in DOMAIN xs /\ es[i] = Started(b, xs)[1]
      BY <1>1, <1>3, <2>3
    <3> QED
      BY <1>1, <1>4, <3>1 DEF Fresh
  <2> QED
    BY <2>1, <2>2, <2>3
<1> QED
  BY <1>5, <1>6 DEF Moves, Verifying, d, ds, xs

LEMMA DeliverAllMoves ==
  ASSUME NEW b \in BusStates, ~b.init, NEW x \in Texts
  PROVE  Moves(b, DeliverAll(b, <<x>>), {x}, {}, {})
<1>1. Touch(b) \in BusStates /\ Moves(b, Touch(b), {}, {}, {})
  BY TouchTyped, TouchApart, ApartMoves
<1>2. Moves(b, StreamAll(Touch(b), <<x>>), {} \cup {x}, {} \cup {}, {} \cup {})
  BY <1>1, StreamAllMoves, MovesTrans
<1> QED
  BY <1>2, MovesWider DEF DeliverAll

\* What armFlushVerify does to the delivery side.
LEMMA ArmVerifyFields ==
  ASSUME NEW b \in BusStates, NEW xs
  PROVE  LET d == ArmVerify(b, xs)
         IN  /\ d.deliveries = b.deliveries /\ d.held = b.held /\ d.carried = b.carried
             /\ d.hold = b.hold /\ d.spent = b.spent
             /\ d.verify = [x \in Texts |-> IF x \in xs /\ b.verify[x] = "none" THEN "armed" ELSE b.verify[x]]
<1> DEFINE v == [x \in Texts |-> IF x \in xs /\ b.verify[x] = "none" THEN "armed" ELSE b.verify[x]]
           t == Touch(b)
<1>1. t \in BusStates /\ Apart(b, t)
  BY TouchTyped, TouchApart
<1> HIDE DEF t
<1> HIDE DEF v
<1>2. LET d == [t EXCEPT !.verify = v]
      IN  d.deliveries = t.deliveries /\ d.held = t.held /\ d.carried = t.carried /\ d.hold = t.hold
          /\ d.spent = t.spent /\ d.verify = v
  BY <1>1, ZenonT(30) DEF BusStates
<1> QED
  BY <1>1, <1>2 DEF ArmVerify, Apart, t, v

LEMMA ArmVerifyMoves ==
  ASSUME NEW b \in BusStates, NEW xs
  PROVE  Moves(b, ArmVerify(b, xs), {}, xs, {})
<1> DEFINE d == ArmVerify(b, xs)
<1>1. /\ d.deliveries = b.deliveries /\ d.held = b.held /\ d.carried = b.carried /\ d.hold = b.hold
      /\ d.verify = [x \in Texts |-> IF x \in xs /\ b.verify[x] = "none" THEN "armed" ELSE b.verify[x]]
  BY ArmVerifyFields
<1>2. \A e : Like(e, e)
  BY DEF Like
<1> HIDE DEF d
<1> QED
  BY <1>1, <1>2 DEF Moves, Verifying, d

LEMMA ReleaseHoldMoves ==
  ASSUME NEW b \in BusStates, NEW xs
  PROVE  Moves(b, ReleaseHold(b, xs), {}, xs, {})
<1> DEFINE h == [x \in Texts |-> IF x \in xs THEN None ELSE b.hold[x]]
           c == [b EXCEPT !.hold = h]
<1>1. CASE xs = {}
  <2>1. Apart(b, b)
    BY DEF Apart
  <2> QED
    BY <1>1, <2>1, ApartMoves DEF ReleaseHold
<1>2. CASE xs # {}
  <2>1. h \in [Texts -> Holds \cup {None}]
    BY DEF BusStates
  <2>2. \A y \in Texts : h[y] # None => b.hold[y] # None
    OBVIOUS
  <2> HIDE DEF h
  <2>3. c \in BusStates
    BY <2>1, ZenonT(30) DEF BusStates
  <2>4. c.deliveries = b.deliveries /\ c.held = b.held /\ c.carried = b.carried /\ c.verify = b.verify /\ c.hold = h
    BY ZenonT(30) DEF BusStates
  <2> HIDE DEF c
  <2>5. \A e : Like(e, e)
    BY DEF Like
  <2>6. Moves(b, c, {}, {}, {})
    BY <2>2, <2>4, <2>5 DEF Moves, Verifying
  <2>7. Moves(b, ArmVerify(c, xs), {} \cup {}, {} \cup xs, {} \cup {})
    BY <2>3, <2>6, ArmVerifyMoves, MovesTrans
  <2>8. ReleaseHold(b, xs) = ArmVerify(c, xs)
    BY <1>2 DEF ReleaseHold, c, h
  <2> QED
    BY <2>7, <2>8
<1> QED
  BY <1>1, <1>2

LEMMA HoldMoves ==
  ASSUME NEW b \in BusStates, NEW x \in Texts, NEW gen \in Nat, b.liveGen <= gen, NEW since \in Nat
  PROVE  Moves(b, HoldThroughCompaction(b, x, gen, since), {}, {}, {x})
<1> DEFINE u == [b EXCEPT !.verify[x] = "none"]
           t == Touch(u)
           v == [gen |-> gen, since |-> since]
           h == [t EXCEPT !.hold[x] = v]
<1>1. \A e : Like(e, e)
  BY DEF Like
<1>2. u \in BusStates /\ u.deliveries = b.deliveries /\ u.held = b.held /\ u.carried = b.carried
      /\ u.hold = b.hold /\ u.verify = [b.verify EXCEPT ![x] = "none"]
  BY ZenonT(30) DEF BusStates
<1>3. Moves(b, u, {}, {}, {})
  <2>1. b.verify \in [Texts -> {"none", "armed", "graced", "spent"}]
    BY Zenon DEF BusStates
  <2> HIDE DEF u
  <2>2. \A y \in Texts : Verifying(u, y) => Verifying(b, y)
    BY <1>2, <2>1 DEF Verifying
  <2> QED
    BY <1>1, <1>2, <2>2 DEF Moves
<1> HIDE DEF u
<1>4. t \in BusStates /\ Moves(u, t, {}, {}, {})
  BY <1>2, TouchTyped, TouchApart, ApartMoves
<1> HIDE DEF t, v
<1>5. h.deliveries = t.deliveries /\ h.held = t.held /\ h.carried = t.carried
      /\ h.verify = t.verify /\ h.hold = [t.hold EXCEPT ![x] = v]
  BY <1>4, ZenonT(30) DEF BusStates
<1>6. Moves(t, h, {}, {}, {x})
  <2>1. t.hold \in [Texts -> Holds \cup {None}]
    BY <1>4, Zenon DEF BusStates
  <2> HIDE DEF h
  <2>2. \A y \in Texts : h.hold[y] # None => t.hold[y] # None \/ y \in {x}
    BY <1>5, <2>1
  <2> QED
    BY <1>1, <1>5, <2>2 DEF Moves, Verifying
<1> HIDE DEF h
<1>7. Moves(b, t, {}, {}, {})
  BY <1>3, <1>4, MovesTrans, MovesWider
<1>8. Moves(b, h, {}, {}, {x})
  BY <1>6, <1>7, MovesTrans, MovesWider
<1>9. HoldThroughCompaction(b, x, gen, since) \in {b, u, h}
  <2>1. ~(gen # 0 /\ b.liveGen > gen)
    BY DEF BusStates
  <2> QED
    BY <2>1, Zenon DEF HoldThroughCompaction, u, h, t, v
<1>10. Moves(b, b, {}, {}, {x}) /\ Moves(b, u, {}, {}, {x})
  BY <1>1, <1>3, MovesWider DEF Moves
<1> QED
  BY <1>8, <1>9, <1>10

\* redeliverPrompt on a bus whose socket never closed.
LEMMA RedeliverMoves ==
  ASSUME NEW b \in BusStates, ~b.init, ~b.closedOnce, NEW x \in Texts
  PROVE  Moves(b, Redeliver(b, x), {x}, {}, {})
BY DeliverAllMoves DEF Redeliver, ReadySinceClose, DeliverOrQueue

\* Less is spent, or more; nothing moves.
LEMMA SpentApart ==
  ASSUME NEW b \in BusStates, NEW s \in SUBSET Texts
  PROVE  LET d == [b EXCEPT !.spent = s]
         IN  /\ d \in BusStates /\ Moves(b, d, {}, {}, {}) /\ SameTurn(b, d)
             /\ d.deliveries = b.deliveries /\ d.verify = b.verify /\ d.hold = b.hold
<1> DEFINE d == [b EXCEPT !.spent = s]
<1>1. d \in BusStates /\ d.deliveries = b.deliveries /\ d.held = b.held /\ d.carried = b.carried
      /\ d.verify = b.verify /\ d.hold = b.hold
  BY ZenonT(30) DEF BusStates
<1>2. Only(b, d, DeliverySide)
  BY Zenon DEF Only, DeliverySide
<1> HIDE DEF d
<1>3. Moves(b, d, {}, {}, {})
  <2>1. \A e : Like(e, e)
    BY DEF Like
  <2> QED
    BY <1>1, <2>1 DEF Moves, Verifying
<1> QED
  BY <1>1, <1>2, <1>3, DeliverySideKeeps DEF d

\* Whether verdict `outcome` of delivery i is a give-up that is followed up.
GivesUp(b, i, outcome) ==
  LET d == b.deliveries[i]
  IN  /\ outcome \in {"gave-up", "stuck-compaction"}
      /\ ~(d.owns /\ d.text \in b.spent)
      /\ d.owns /\ ~d.proven /\ d.text # Nudge

\* What a verdict sets under way: the verify of a text the CLI was not seen to
\* take, or its hold through a compaction.
LEMMA VerdictMoves ==
  ASSUME NEW b \in BusStates, NEW i \in DOMAIN b.deliveries, b.deliveries[i].current,
         NEW outcome, outcome = "stuck-compaction" => b.liveGen <= b.deliveries[i].gen,
         NEW since \in Nat
  PROVE  LET d == Verdict(b, i, outcome, since)
             x == b.deliveries[i].text
         IN  /\ Moves(b, d, {}, IF GivesUp(b, i, outcome) /\ outcome = "gave-up" THEN {x} ELSE {},
                       IF GivesUp(b, i, outcome) /\ outcome = "stuck-compaction" THEN {x} ELSE {})
             /\ \A j \in DOMAIN d.deliveries : \E l \in DOMAIN b.deliveries \ {i} :
                  d.deliveries[j] = b.deliveries[l]
<1> DEFINE x    == b.deliveries[i].text
           g    == b.deliveries[i].gen
           less == b.spent \ {x}
           c1   == [b EXCEPT !.spent = less]
           vs   == IF GivesUp(b, i, outcome) /\ outcome = "gave-up" THEN {x} ELSE {}
           hs   == IF GivesUp(b, i, outcome) /\ outcome = "stuck-compaction" THEN {x} ELSE {}
           d    == Verdict(b, i, outcome, since)
<1>1. b.deliveries \in Seq(Deliveries) /\ x \in Texts /\ g \in Nat /\ less \in SUBSET Texts
  <2>1. b.deliveries \in Seq(Deliveries) /\ b.spent \in SUBSET Texts
    BY Zenon DEF BusStates
  <2>2. b.deliveries[i] \in Deliveries
    BY <2>1
  <2> QED
    BY <2>1, <2>2 DEF Deliveries
<1>2. c1 \in BusStates /\ Moves(b, c1, {}, {}, {}) /\ SameTurn(b, c1) /\ c1.deliveries = b.deliveries
  <2> HIDE DEF less, x
  <2> QED
    BY <1>1, SpentApart
<1>3. \E c \in {b, c1} : \E j :
        /\ d = [j EXCEPT !.deliveries = RemoveAt(@, i)]
        /\ \/ j = c
           \/ j = HoldThroughCompaction(c, x, g, since) /\ hs = {x} /\ outcome = "stuck-compaction"
           \/ j = ArmVerify(c, {x}) /\ vs = {x}
  <2> DEFINE e        == b.deliveries[i]
             wasRetry == e.owns /\ x \in b.spent
             cc       == IF wasRetry /\ outcome # "error" THEN c1 ELSE b
             gaveUp   == GivesUp(b, i, outcome)
             jj == CASE ~gaveUp -> cc
                    [] gaveUp /\ outcome = "stuck-compaction" -> HoldThroughCompaction(cc, x, g, since)
                    [] gaveUp /\ outcome = "gave-up" /\ e.current -> ArmVerify(cc, {x})
                    [] gaveUp /\ outcome = "gave-up" /\ ~e.current ->
                         Redeliver([cc EXCEPT !.spent = @ \cup {x}], x)
  <2>1. d = [jj EXCEPT !.deliveries = RemoveAt(@, i)]
    BY DEF Verdict, GivesUp, c1, less, x, g
  <2>2. cc \in {b, c1}
    OBVIOUS
  <2>3. gaveUp => outcome \in {"gave-up", "stuck-compaction"}
    BY DEF GivesUp
  <2>5. (gaveUp /\ outcome = "gave-up" => vs = {x}) /\ (gaveUp /\ outcome = "stuck-compaction" => hs = {x})
    OBVIOUS
  <2> HIDE DEF cc, wasRetry, gaveUp, c1, g, vs, hs, d
  <2>4. \/ jj = cc
        \/ jj = HoldThroughCompaction(cc, x, g, since) /\ gaveUp /\ outcome = "stuck-compaction"
        \/ jj = ArmVerify(cc, {x}) /\ gaveUp /\ outcome = "gave-up"
    BY <2>3
  <2> HIDE DEF jj
  <2> QED
    BY <2>1, <2>2, <2>4, <2>5
<1> HIDE DEF c1, d, vs, hs, less
<1>10. PICK c \in {b, c1} : \E j :
        /\ d = [j EXCEPT !.deliveries = RemoveAt(@, i)]
        /\ \/ j = c
           \/ j = HoldThroughCompaction(c, x, g, since) /\ hs = {x} /\ outcome = "stuck-compaction"
           \/ j = ArmVerify(c, {x}) /\ vs = {x}
  BY <1>3
<1>11. PICK j :
        /\ d = [j EXCEPT !.deliveries = RemoveAt(@, i)]
        /\ \/ j = c
           \/ j = HoldThroughCompaction(c, x, g, since) /\ hs = {x} /\ outcome = "stuck-compaction"
           \/ j = ArmVerify(c, {x}) /\ vs = {x}
  BY <1>10
<1>4. c \in BusStates /\ Moves(b, c, {}, {}, {}) /\ c.deliveries = b.deliveries /\ c.liveGen = b.liveGen
  <2>1. Moves(b, b, {}, {}, {})
    BY ApartMoves DEF Apart
  <2> QED
    BY <1>2, <2>1 DEF SameTurn
<1>5. j \in BusStates /\ j.deliveries = b.deliveries /\ Moves(b, j, {}, vs, hs)
  <2>1. CASE j = c
    BY <1>4, <2>1, MovesWider
  <2>2. CASE j = HoldThroughCompaction(c, x, g, since) /\ hs = {x} /\ outcome = "stuck-compaction"
    <3>1. c.liveGen <= g
      BY <1>4, <2>2
    <3> HIDE DEF x, g
    <3>2. j \in BusStates /\ j.deliveries = c.deliveries /\ Moves(c, j, {}, {}, {x})
      BY <1>1, <1>4, <2>2, <3>1, HoldMoves, HoldThroughCompactionTyped, HoldKeepsDeliveries
    <3>3. Moves(b, j, {} \cup {}, {} \cup {}, {} \cup hs)
      BY <1>4, <2>2, <3>2, MovesTrans
    <3>4. Moves(b, j, {}, vs, hs)
      BY <3>3, MovesWider
    <3> QED
      BY <1>4, <3>2, <3>4
  <2>3. CASE j = ArmVerify(c, {x}) /\ vs = {x}
    <3> HIDE DEF x
    <3>1. j \in BusStates /\ j.deliveries = c.deliveries /\ Moves(c, j, {}, {x}, {})
      BY <1>4, <2>3, ArmVerifyMoves, ArmVerifyTyped, ArmKeepsDeliveries
    <3>2. Moves(b, j, {} \cup {}, {} \cup vs, {} \cup {})
      BY <1>4, <2>3, <3>1, MovesTrans
    <3>3. Moves(b, j, {}, vs, hs)
      BY <3>2, MovesWider
    <3> QED
      BY <1>4, <3>1, <3>3
  <2> QED
    BY <1>11, <2>1, <2>2, <2>3
<1> DEFINE ds == b.deliveries
           es == RemoveAt(ds, i)
<1>6. es \in Seq(Deliveries) /\ \A k \in DOMAIN es : \E l \in DOMAIN ds \ {i} : es[k] = ds[l]
  <2>1. /\ es \in Seq(Deliveries) /\ Len(es) = Len(ds) - 1
        /\ \A k \in 1 .. Len(ds) - 1 : es[k] = IF k < i THEN ds[k] ELSE ds[k + 1]
    <3>1. ds \in Seq(Deliveries) /\ i \in 1 .. Len(ds)
      BY <1>1
    <3> QED
      BY <3>1, RemoveAtSeq
  <2>2. DOMAIN ds = 1 .. Len(ds) /\ DOMAIN es = 1 .. Len(ds) - 1 /\ Len(ds) \in Nat /\ i \in 1 .. Len(ds)
    BY <1>1, <2>1
  <2> HIDE DEF es, ds
  <2>3. ASSUME NEW k \in DOMAIN es PROVE \E l \in DOMAIN ds \ {i} : es[k] = ds[l]
    <3>1. CASE k < i
      BY <2>1, <2>2, <3>1
    <3>2. CASE ~(k < i)
      <4>1. k + 1 \in DOMAIN ds \ {i} /\ es[k] = ds[k + 1]
        BY <2>1, <2>2, <3>2
      <4> QED
        BY <4>1
    <3> QED
      BY <3>1, <3>2
  <2> QED
    BY <2>1, <2>3
<1>7. d.deliveries = es /\ d.held = j.held /\ d.carried = j.carried /\ d.verify = j.verify /\ d.hold = j.hold
  BY <1>11, <1>5, ZenonT(30) DEF BusStates
<1>8. Moves(b, d, {}, vs, hs)
  <2>1. \A k \in DOMAIN d.deliveries : \E l \in DOMAIN b.deliveries : Like(b.deliveries[l], d.deliveries[k])
    BY <1>6, <1>7 DEF Like
  <2> QED
    BY <1>5, <1>7, <2>1 DEF Moves, Verifying
<1> QED
  BY <1>6, <1>7, <1>8 DEF d, vs, hs

\* The timer of a verify delivers the text again, or waits on.
LEMMA VerifyTimerMoves ==
  ASSUME NEW b \in BusStates, ~b.init, ~b.closedOnce, NEW x \in Texts, b.verify[x] \in {"armed", "graced"}
  PROVE  LET d == VerifyTimer(b, x)
         IN  \/ Moves(b, d, {}, {}, {}) /\ d.deliveries = b.deliveries
             \/ ~b.streaming /\ ~Verifying(d, x) /\ Moves(b, d, {x}, {}, {})
<1> DEFINE v(y)  == [b EXCEPT !.verify[x] = y]
           more  == b.spent \cup {x}
           again == [b EXCEPT !.verify[x] = "spent", !.spent = more]
           d     == VerifyTimer(b, x)
<1>1. more \in SUBSET Texts /\ b.verify \in [Texts -> {"none", "armed", "graced", "spent"}]
  BY Zenon DEF BusStates
<1>2. \A e : Like(e, e)
  BY DEF Like
<1>3. ASSUME NEW y \in {"armed", "graced"}
      PROVE  Moves(b, v(y), {}, {}, {}) /\ v(y).deliveries = b.deliveries
  <2> DEFINE w == [b.verify EXCEPT ![x] = y]
  <2>1. v(y).deliveries = b.deliveries /\ v(y).held = b.held /\ v(y).carried = b.carried
        /\ v(y).verify = w /\ v(y).hold = b.hold
    BY ZenonT(30) DEF BusStates
  <2>2. \A z \in Texts : w[z] \in {"armed", "graced"} => b.verify[z] \in {"armed", "graced"}
    BY <1>1
  <2> HIDE DEF v, w
  <2> QED
    BY <1>2, <2>1, <2>2 DEF Moves, Verifying
<1> HIDE DEF more
<1>4. /\ again \in BusStates /\ Moves(b, again, {}, {}, {}) /\ again.verify[x] = "spent"
      /\ again.init = b.init /\ again.closedOnce = b.closedOnce
  <2> DEFINE w == [b.verify EXCEPT ![x] = "spent"]
  <2>1. again.deliveries = b.deliveries /\ again.held = b.held /\ again.carried = b.carried
        /\ again.verify = w /\ again.hold = b.hold
    BY ZenonT(60) DEF BusStates
  <2>2. w \in [Texts -> {"none", "armed", "graced", "spent"}] /\ w[x] = "spent"
        /\ \A z \in Texts : w[z] \in {"armed", "graced"} => b.verify[z] \in {"armed", "graced"}
    BY <1>1
  <2>3. again.init = b.init /\ again.closedOnce = b.closedOnce
    BY ZenonT(60) DEF BusStates
  <2>5. again = [b EXCEPT !.verify = w, !.spent = more]
    OBVIOUS
  <2> HIDE DEF w
  <2>4. [b EXCEPT !.verify = w, !.spent = more] \in BusStates
    BY <1>1, <2>2, ZenonT(60) DEF BusStates
  <2> HIDE DEF again
  <2>6. Moves(b, again, {}, {}, {})
    BY <1>2, <2>1, <2>2 DEF Moves, Verifying
  <2> QED
    BY <2>1, <2>2, <2>3, <2>4, <2>5, <2>6
<1> HIDE DEF again, v
<1>5. Moves(b, Redeliver(again, x), {x}, {}, {})
  <2>1. Moves(again, Redeliver(again, x), {x}, {}, {})
    BY <1>4, RedeliverMoves
  <2>2. Moves(b, Redeliver(again, x), {} \cup {x}, {} \cup {}, {} \cup {})
    BY <1>4, <2>1, MovesTrans
  <2> QED
    BY <2>2, MovesWider
<1>6. ~Verifying(Redeliver(again, x), x)
  <2>1. Redeliver(again, x) = StreamAll(Touch(again), <<x>>)
    BY <1>4 DEF Redeliver, ReadySinceClose, DeliverOrQueue, DeliverAll
  <2>2. Touch(again) \in BusStates /\ Touch(again).verify = again.verify
    BY <1>4, TouchTyped, TouchApart DEF Apart
  <2>3. StreamAll(Touch(again), <<x>>).verify = again.verify
    BY <2>2, StreamAllFields
  <2> QED
    BY <1>4, <2>1, <2>3 DEF Verifying
<1>7. d = v("armed") \/ d = v("graced") \/ (d = Redeliver(again, x) /\ ~b.streaming)
  BY DEF VerifyTimer, v, again, more
<1> QED
  BY <1>3, <1>5, <1>6, <1>7

\* The transcript's line settles its text.
LEMMA NoteMoves ==
  ASSUME NEW b \in BusStates, NEW x
  PROVE  LET d == NoteFlushTurnStart(b, x)
         IN  /\ Moves(b, d, {}, {}, {})
             /\ x \in Texts /\ (\A i \in DOMAIN b.deliveries : b.deliveries[i].text = x => b.deliveries[i].owns)
                  => \A i \in DOMAIN d.deliveries : d.deliveries[i].text = x => d.deliveries[i].proven
             /\ x \in Texts /\ (b.hold[x] # None => ~Verifying(b, x)) => d.hold[x] = None /\ ~Verifying(d, x)
<1> DEFINE seen   == [i \in DOMAIN b.deliveries |->
                        IF b.deliveries[i].owns /\ b.deliveries[i].text = x
                          THEN [b.deliveries[i] EXCEPT !.proven = TRUE]
                          ELSE b.deliveries[i]]
           held   == IF x \in b.spent THEN Without(b.held, x) ELSE b.held
           less   == b.spent \ {x}
           carry  == Without(b.carried, x)
           proven == [b EXCEPT !.deliveries = seen, !.spent = less, !.held = held, !.carried = carry]
           d      == NoteFlushTurnStart(b, x)
<1>1. b.deliveries \in Seq(Deliveries) /\ b.verify \in [Texts -> {"none", "armed", "graced", "spent"}]
      /\ b.hold \in [Texts -> Holds \cup {None}]
  BY Zenon DEF BusStates
<1>2. /\ DOMAIN seen = DOMAIN b.deliveries
      /\ \A i \in DOMAIN seen :
           /\ Like(b.deliveries[i], seen[i])
           /\ seen[i].text = x /\ b.deliveries[i].owns => seen[i].proven
  <2>1. DOMAIN seen = DOMAIN b.deliveries
    OBVIOUS
  <2>2. ASSUME NEW i \in DOMAIN seen
        PROVE  /\ Like(b.deliveries[i], seen[i])
               /\ seen[i].text = x /\ b.deliveries[i].owns => seen[i].proven
    <3> DEFINE e == b.deliveries[i]
    <3>1. e \in Deliveries
      BY <1>1
    <3>2. seen[i] = IF e.owns /\ e.text = x THEN [e EXCEPT !.proven = TRUE] ELSE e
      OBVIOUS
    <3> HIDE DEF seen, e
    <3>3. LET f == [e EXCEPT !.proven = TRUE] IN f.text = e.text /\ f.typed = e.typed /\ f.current = e.current /\ f.proven
      BY <3>1 DEF Deliveries
    <3> QED
      BY <3>2, <3>3 DEF Like, e
  <2> QED
    BY <2>1, <2>2
<1>3. b.held = <<>> => held = <<>>
  BY DEF Without, Contains
<1>4. b.carried = <<>> => carry = <<>>
  BY DEF Without, Contains
<1> HIDE DEF seen, held, less, carry
<1>5. proven.deliveries = seen /\ proven.held = held /\ proven.carried = carry
      /\ proven.verify = b.verify /\ proven.hold = b.hold
  BY ZenonT(60) DEF BusStates
<1>6. DOMAIN proven = DOMAIN b /\ "hold" \in DOMAIN b /\ "verify" \in DOMAIN b
      /\ "deliveries" \in DOMAIN b /\ "held" \in DOMAIN b /\ "carried" \in DOMAIN b
  BY ZenonT(60) DEF BusStates
<1> HIDE DEF proven
<1> DEFINE unheld     == [proven EXCEPT !.hold[x] = None]
           unverified == [proven EXCEPT !.verify[x] = "none"]
<1>7. /\ unheld.hold = [b.hold EXCEPT ![x] = None] /\ unheld.verify = b.verify
      /\ unverified.verify = [b.verify EXCEPT ![x] = "none"] /\ unverified.hold = b.hold
      /\ unheld.deliveries = seen /\ unverified.deliveries = seen
  BY <1>5, <1>6, Zenon
<1>8. unheld.held = held /\ unverified.held = held /\ unheld.carried = carry /\ unverified.carried = carry
  BY <1>5, <1>6, Zenon
<1> HIDE DEF unheld, unverified
<1>9. Moves(b, b, {}, {}, {})
  BY ApartMoves DEF Apart
<1>10. Moves(b, unheld, {}, {}, {})
  <2>1. \A y \in Texts : unheld.hold[y] # None => b.hold[y] # None
    BY <1>1, <1>7
  <2> QED
    BY <1>2, <1>3, <1>4, <1>7, <1>8, <2>1 DEF Moves, Verifying
<1>11. Moves(b, unverified, {}, {}, {})
  <2>1. \A y \in Texts : Verifying(unverified, y) => Verifying(b, y)
    BY <1>1, <1>7 DEF Verifying
  <2> QED
    BY <1>2, <1>3, <1>4, <1>7, <1>8, <2>1 DEF Moves
<1>12. d = IF x \notin Texts THEN b ELSE IF b.hold[x] # None THEN unheld ELSE unverified
  BY Zenon DEF NoteFlushTurnStart, unheld, unverified, proven, seen, held, less, carry
<1> HIDE DEF d
<1>13. ASSUME x \in Texts, \A i \in DOMAIN b.deliveries : b.deliveries[i].text = x => b.deliveries[i].owns
       PROVE  \A i \in DOMAIN d.deliveries : d.deliveries[i].text = x => d.deliveries[i].proven
  <2>1. d.deliveries = seen
    BY <1>7, <1>12, <1>13
  <2> QED
    BY <1>2, <1>13, <2>1 DEF Like
<1>14. ASSUME x \in Texts, b.hold[x] # None => ~Verifying(b, x)
       PROVE  d.hold[x] = None /\ ~Verifying(d, x)
  BY <1>1, <1>7, <1>12, <1>14 DEF Verifying
<1> QED
  BY <1>9, <1>10, <1>11, <1>12, <1>13, <1>14 DEF d

--------------------------------------------------------------------------------
(* The handlers of a bus nothing disturbs *)

LEMMA NextPromptTyped ==
  ASSUME NEW q \in Queues, Matched(q), HasQueue(q)
  PROVE  NextPrompt(q) \in Prompts
BY ServesFront, ServedIndexFound DEF NextPrompt

\* A dequeue takes the next prompt, and no other.
LEMMA DequeueTakesNext ==
  ASSUME NEW q \in Queues, Matched(q), HasQueue(q), OwnLanes(q)
  PROVE  /\ Dequeue(q) \in Queues /\ NextPrompt(q) \in Queued(q)
         /\ Queued(Dequeue(q)) = Queued(q) \ {NextPrompt(q)}
<1> DEFINE p    == NextPrompt(q)
           c    == ServedChat(q)
           lane == q.lanes[c]
           left == Tail(lane)
           u    == Dequeue(q)
<1>1. u \in Queues
  BY DequeueTyped
<1>2. p \in Prompts /\ c \in Chats /\ lane \in Seq(Prompts) /\ lane # <<>>
  BY ServesFront, ServedIndexFound
<1>3. u.lanes = [q.lanes EXCEPT ![c] = left]
  BY DequeueEffect
<1>4. Distinct(lane) /\ \A x \in ToSet(lane) : Chat[x] = c
  BY <1>2 DEF OwnLanes
<1>5. p = Head(lane)
  BY DEF NextPrompt
<1>6. left \in Seq(Prompts) /\ Distinct(left) /\ ToSet(left) = ToSet(lane) \ {p} /\ p \in ToSet(lane)
  BY <1>2, <1>4, <1>5, TailDistinct
<1>7. ToSet(lane) \subseteq Queued(q)
  BY <1>2 DEF Queued
<1>8. \A x \in Queued(q) : Chat[x] = c => x \in ToSet(lane)
  BY DEF Queued, OwnLanes
<1> HIDE DEF p, c, lane, left, u
<1>9. \A x \in ToSet(left) : Chat[x] = c
  BY <1>4, <1>6
<1>10. Queued(u) = {x \in Queued(q) : Chat[x] # c} \cup ToSet(left)
  BY <1>1, <1>2, <1>3, <1>6, <1>9, LaneChange
<1>11. Queued(u) = Queued(q) \ {p}
  BY <1>4, <1>6, <1>7, <1>8, <1>10
<1> QED
  BY <1>1, <1>6, <1>7, <1>11 DEF p, u

\* An accepted prompt waits in its lane; a refused one changes nothing.
LEMMA EnqueueAdds ==
  ASSUME NEW q \in Queues, Matched(q), OwnLanes(q), NEW p \in Prompts, p \notin Queued(q)
  PROVE  /\ Refuses(q, p) => Enqueue(q, p) = q
         /\ ~Refuses(q, p) =>
              /\ Enqueue(q, p) \in Queues /\ Matched(Enqueue(q, p)) /\ OwnLanes(Enqueue(q, p))
              /\ Queued(Enqueue(q, p)) = Queued(q) \cup {p}
<1> DEFINE c    == Chat[p]
           lane == q.lanes[c]
           more == Append(lane, p)
           u    == Enqueue(q, p)
<1>1. c \in Chats /\ u \in Queues
  BY EnqueueTyped, ChatAssumption
<1>2. /\ Refuses(q, p) => u = q
      /\ ~Refuses(q, p) => u.lanes = [q.lanes EXCEPT ![c] = more] /\ Matched(u)
  BY EnqueueEffect
<1>3. lane \in Seq(Prompts) /\ Distinct(lane) /\ ToSet(lane) \subseteq Queued(q)
      /\ \A x \in ToSet(lane) : Chat[x] = c
  BY <1>1 DEF Queues, OwnLanes, Queued
<1>4. \A x \in Queued(q) : Chat[x] = c => x \in ToSet(lane)
  BY DEF Queued, OwnLanes
<1> HIDE DEF u, lane
<1>5. more \in Seq(Prompts) /\ Distinct(more) /\ ToSet(more) = ToSet(lane) \cup {p}
  BY <1>3, AppendDistinct
<1>6. \A x \in ToSet(more) : Chat[x] = c
  BY <1>3, <1>5
<1> HIDE DEF more, c
<1>7. ASSUME ~Refuses(q, p) PROVE OwnLanes(u) /\ Queued(u) = {x \in Queued(q) : Chat[x] # c} \cup ToSet(more)
  BY <1>1, <1>2, <1>5, <1>6, <1>7, LaneChange
<1> QED
  BY <1>1, <1>2, <1>3, <1>4, <1>5, <1>7 DEF u

--------------------------------------------------------------------------------
(* Steady handlers *)

\* One socket from the start, no carry-over, no reminder anywhere.
Steady(b) ==
  /\ Calm(b) /\ ~b.closedOnce /\ ~b.parked /\ b.held = <<>> /\ b.carried = <<>>
  /\ \A i \in DOMAIN b.deliveries : b.deliveries[i].text \in Prompts /\ b.deliveries[i].current
  /\ ~Verifying(b, Nudge) /\ b.hold[Nudge] = None

LEMMA MovesSteady ==
  ASSUME NEW b, NEW d, Steady(b), NEW xs \in SUBSET Prompts, NEW vs \in SUBSET Prompts, NEW hs \in SUBSET Prompts,
         Moves(b, d, xs, vs, hs), Calm(d), ~d.closedOnce, ~d.parked
  PROVE  Steady(d)
<1>1. Nudge \in Texts /\ Nudge \notin Prompts
  BY BusAssumption DEF Texts
<1>2. \A i \in DOMAIN d.deliveries : d.deliveries[i].text \in Prompts /\ d.deliveries[i].current
  BY DEF Moves, Steady, Like, Fresh
<1> QED
  BY <1>1, <1>2, Zenon DEF Moves, Steady

\* The turn's side is as it was, the queue aside.
Same(b, d) ==
  /\ d.op = b.op /\ d.streaming = b.streaming /\ d.settle = b.settle
  /\ d.slot = b.slot /\ d.silentClosed = b.silentClosed /\ d.lastEnd = b.lastEnd

\* The turn's side when p is admitted.
Opens(b, d, p) ==
  /\ d.op = p /\ d.slot = p /\ d.silentClosed = None
  /\ d.streaming = b.streaming /\ d.settle = b.settle /\ d.lastEnd = b.lastEnd

\* An admission hands its prompt to the delivery side.
LEMMA AdmitPromptSteady ==
  ASSUME NEW b \in BusStates, Steady(b), NEW p \in Prompts
  PROVE  LET d == AdmitPrompt(b, p, TRUE)
         IN  Steady(d) /\ Opens(b, d, p) /\ Moves(b, d, {p}, {}, {}) /\ d.queue = b.queue
<1> DEFINE d == AdmitPrompt(b, p, TRUE)
<1>1. PICK c \in BusStates : Admits(b, c, p) /\ Apart(b, c) /\ d = DeliverAll(c, <<p>>)
  BY AdmitPromptCalm DEF Steady
<1>2. p \in Texts /\ ~c.init
  BY <1>1 DEF Texts, Admits, Calm
<1>3. SameTurn(c, d)
  BY <1>1, DeliverAllOnly, DeliverySideKeeps
<1>4. Moves(c, d, {p}, {}, {})
  BY <1>1, <1>2, DeliverAllMoves
<1>5. Moves(b, d, {} \cup {p}, {} \cup {}, {} \cup {})
  BY <1>1, <1>4, ApartMoves, MovesTrans
<1>6. Moves(b, d, {p}, {}, {})
  BY <1>5, MovesWider
<1> HIDE DEF d
<1>7. Calm(d)
  BY <1>1, <1>3, SameTurnCalm DEF Admits
<1>8. d.closedOnce = b.closedOnce /\ d.parked = b.parked /\ Opens(b, d, p) /\ d.queue = b.queue
  BY <1>1, <1>3 DEF SameTurn, Admits, Opens
<1>9. ~d.closedOnce /\ ~d.parked
  BY <1>8 DEF Steady
<1>10. {p} \in SUBSET Prompts /\ {} \in SUBSET Prompts
  OBVIOUS
<1>11. Steady(d)
  BY <1>6, <1>7, <1>9, <1>10, MovesSteady, Zenon
<1> QED
  BY <1>6, <1>8, <1>11 DEF d

\* A change of the queue.
LEMMA QueueSteady ==
  ASSUME NEW b \in BusStates, Steady(b), NEW u \in Queues
  PROVE  LET d == [b EXCEPT !.queue = u]
         IN  d \in BusStates /\ Steady(d) /\ Same(b, d) /\ Moves(b, d, {}, {}, {}) /\ d.queue = u
             /\ SlotFree(d) = SlotFree(b)
<1> DEFINE d == [b EXCEPT !.queue = u]
<1>1. d \in BusStates /\ d.queue = u /\ Only(b, d, {"queue"})
  BY Zenon DEF BusStates, Only
<1> HIDE DEF d
<1>2. Apart(b, d) /\ d.closedOnce = b.closedOnce /\ d.parked = b.parked
  BY <1>1 DEF Only, BusStates, Apart
<1>3. d.nudged = b.nudged /\ d.init = b.init /\ d.earlyReleased = b.earlyReleased /\ d.awaitLine = b.awaitLine
      /\ d.pendingOrigin = b.pendingOrigin /\ d.liveGen = b.liveGen
  BY <1>1 DEF Only, BusStates
<1>4. Same(b, d)
  BY <1>1 DEF Only, BusStates, Same
<1>5. Moves(b, d, {}, {}, {})
  BY <1>2, ApartMoves
<1>8. ~d.closedOnce /\ ~d.parked
  BY <1>2 DEF Steady
<1>9. Calm(d)
  BY <1>3 DEF Steady, Calm
<1>10. {} \in SUBSET Prompts
  OBVIOUS
<1>6. Steady(d)
  BY <1>5, <1>8, <1>9, <1>10, MovesSteady, Zenon
<1>7. SlotFree(d) = SlotFree(b)
  BY <1>2, <1>3, <1>4, Zenon DEF SlotFree, Same
<1> QED
  BY <1>1, <1>4, <1>5, <1>6, <1>7 DEF d

\* What an offer to admit does with Q waiting: nothing, or one of Q is admitted.
Serves(b, d, Q) ==
  /\ d.streaming = b.streaming /\ d.lastEnd = b.lastEnd
  /\ \/ /\ Queued(d.queue) = Q
        /\ d.op = b.op /\ d.slot = b.slot /\ d.silentClosed = b.silentClosed
        /\ d.settle => b.settle
        /\ Moves(b, d, {}, {}, {})
     \/ \E x \in Prompts :
          /\ x \in Q /\ Queued(d.queue) = Q \ {x}
          /\ b.op = None /\ ~b.streaming
          /\ d.op = x /\ d.slot = x /\ d.silentClosed = None /\ ~d.settle
          /\ Moves(b, d, {x}, {}, {})

\* An offer after a step that moves nothing.
LEMMA ServesAfter ==
  ASSUME NEW b, NEW e, NEW d, NEW Q, Moves(b, e, {}, {}, {}), Serves(e, d, Q), e.streaming = b.streaming,
         e.lastEnd = b.lastEnd, e.op = b.op, e.slot = b.slot, e.silentClosed = b.silentClosed,
         e.settle => b.settle
  PROVE  Serves(b, d, Q)
<1>1. ASSUME NEW xs, Moves(e, d, xs, {}, {}) PROVE Moves(b, d, xs, {}, {})
  <2>1. Moves(b, d, {} \cup xs, {} \cup {}, {} \cup {})
    BY <1>1, MovesTrans
  <2> QED
    BY <2>1, MovesWider
<1>2. Moves(e, d, {}, {}, {}) => Moves(b, d, {}, {}, {})
  BY <1>1
<1>3. ASSUME NEW x PROVE Moves(e, d, {x}, {}, {}) => Moves(b, d, {x}, {}, {})
  BY <1>1
<1> QED
  BY <1>2, <1>3 DEF Serves

LEMMA AdmitNextSteady ==
  ASSUME NEW b \in BusStates, Steady(b), Admissible(b), OwnLanes(b.queue)
  PROVE  LET d == AdmitNext(b, TRUE)
         IN  Steady(d) /\ Serves(b, d, Queued(b.queue))
<1> DEFINE p == NextPrompt(b.queue)
           u == Dequeue(b.queue)
           e == [b EXCEPT !.queue = u]
           d == AdmitNext(b, TRUE)
<1>1. CASE ~(SlotFree(b) /\ HasQueue(b.queue))
  <2>1. d = b
    BY <1>1 DEF AdmitNext
  <2>2. Moves(b, b, {}, {}, {})
    BY ApartMoves DEF Apart
  <2> QED
    BY <2>1, <2>2 DEF Serves
<1>2. CASE SlotFree(b) /\ HasQueue(b.queue)
  <2>1. b.queue \in Queues /\ Matched(b.queue)
    BY Zenon DEF BusStates, Admissible
  <2>2. u \in Queues /\ p \in Prompts /\ p \in Queued(b.queue) /\ Queued(u) = Queued(b.queue) \ {p}
    BY <1>2, <2>1, DequeueTakesNext, NextPromptTyped
  <2> HIDE DEF p, u
  <2>3. e \in BusStates /\ Steady(e) /\ Same(b, e) /\ Moves(b, e, {}, {}, {}) /\ e.queue = u
    BY <2>2, QueueSteady
  <2>4. d = AdmitPrompt(e, p, TRUE)
    BY <1>2 DEF AdmitNext, e, p, u
  <2> HIDE DEF e, d
  <2>5. Steady(d) /\ Opens(e, d, p) /\ Moves(e, d, {p}, {}, {}) /\ d.queue = u
    BY <2>2, <2>3, <2>4, AdmitPromptSteady
  <2>6. Moves(b, d, {} \cup {p}, {} \cup {}, {} \cup {})
    BY <2>3, <2>5, MovesTrans
  <2>7. Moves(b, d, {p}, {}, {})
    BY <2>6, MovesWider
  <2>8. b.op = None /\ ~b.streaming /\ ~b.settle
    BY <1>2 DEF SlotFree
  <2>9. Serves(b, d, Queued(b.queue))
    BY <2>2, <2>3, <2>5, <2>7, <2>8 DEF Same, Opens, Serves
  <2> QED
    BY <2>5, <2>9 DEF d
<1> QED
  BY <1>1, <1>2

\* An accepted prompt joins those that wait.
LEMMA SendPromptSteady ==
  ASSUME NEW b \in BusStates, Steady(b), Admissible(b), OwnLanes(b.queue), NEW p \in Prompts,
         p \notin Queued(b.queue)
  PROVE  LET d == SendPrompt(b, p, TRUE)
         IN  /\ Steady(d)
             /\ IF MustQueue(b) /\ Refuses(b.queue, p) THEN d = b ELSE Serves(b, d, Queued(b.queue) \cup {p})
<1> DEFINE u == Enqueue(b.queue, p)
           e == [b EXCEPT !.queue = u]
           d == SendPrompt(b, p, TRUE)
           Q == Queued(b.queue) \cup {p}
<1>1. b.queue \in Queues /\ Matched(b.queue)
  BY Zenon DEF BusStates, Admissible
<1>2. CASE ~MustQueue(b)
  <2>1. d = AdmitPrompt(b, p, TRUE)
    BY <1>2 DEF SendPrompt
  <2> HIDE DEF d
  <2>2. Steady(d) /\ Opens(b, d, p) /\ Moves(b, d, {p}, {}, {}) /\ d.queue = b.queue
    BY <2>1, AdmitPromptSteady
  <2>3. b.op = None /\ ~b.streaming /\ ~b.settle
    BY <1>2 DEF MustQueue, SlotFree
  <2>4. Queued(d.queue) = Q \ {p} /\ p \in Q
    BY <2>2
  <2> HIDE DEF Q
  <2>5. Serves(b, d, Q)
    BY <2>2, <2>3, <2>4 DEF Opens, Serves
  <2> QED
    BY <1>2, <2>2, <2>5 DEF d, Q
<1>3. CASE MustQueue(b) /\ Refuses(b.queue, p)
  <2>1. u = b.queue
    BY <1>1, <1>3, EnqueueAdds
  <2>2. d = e
    BY <1>3 DEF SendPrompt
  <2>3. [b EXCEPT !.queue = b.queue] = b
    BY Zenon DEF BusStates
  <2> QED
    BY <1>3, <2>1, <2>2, <2>3
<1>4. CASE MustQueue(b) /\ ~Refuses(b.queue, p)
  <2>1. u \in Queues /\ Matched(u) /\ OwnLanes(u) /\ Queued(u) = Q
    BY <1>1, <1>4, EnqueueAdds
  <2>2. d = AdmitNext(e, TRUE)
    BY <1>4 DEF SendPrompt
  <2> HIDE DEF u, Q
  <2>3. e \in BusStates /\ Steady(e) /\ Same(b, e) /\ Moves(b, e, {}, {}, {}) /\ e.queue = u
    BY <2>1, QueueSteady
  <2> HIDE DEF e, d
  <2>4. Steady(d) /\ Serves(e, d, Q)
    BY <2>1, <2>2, <2>3, AdmitNextSteady DEF Admissible
  <2>5. Serves(b, d, Q)
    BY <2>3, <2>4, ServesAfter DEF Same
  <2> QED
    BY <1>4, <2>4, <2>5 DEF d, Q
<1> QED
  BY <1>2, <1>3, <1>4

\* A step of the delivery side alone.
LEMMA DeliverySteady ==
  ASSUME NEW b, NEW d, Steady(b), SameTurn(b, d), NEW xs \in SUBSET Prompts, NEW vs \in SUBSET Prompts,
         NEW hs \in SUBSET Prompts, Moves(b, d, xs, vs, hs)
  PROVE  Steady(d) /\ Same(b, d)
<1>1. Calm(d)
  BY SameTurnCalm DEF Steady
<1>2. ~d.closedOnce /\ ~d.parked
  BY DEF Steady, SameTurn
<1>3. Steady(d)
  BY <1>1, <1>2, MovesSteady, Zenon
<1> QED
  BY <1>3 DEF SameTurn, Same

LEMMA NothingMoves == {} \in SUBSET Prompts
OBVIOUS

\* The timer of scheduleAdmit ends the settle window, and offers.
LEMMA SettledSteady ==
  ASSUME NEW b \in BusStates, Steady(b), Admissible(b), OwnLanes(b.queue)
  PROVE  LET d == Settled(b, TRUE)
         IN  Steady(d) /\ Serves(b, d, Queued(b.queue)) /\ ~d.settle
<1> DEFINE c == [b EXCEPT !.settle = FALSE]
           e == Touch(c)
           d == Settled(b, TRUE)
<1>1. c \in BusStates /\ c.settle = FALSE
  BY Zenon DEF BusStates
<1>2. Only(b, c, {"settle"})
  BY Zenon DEF Only
<1> HIDE DEF c
<1>3. Apart(b, c) /\ c.queue = b.queue /\ c.closedOnce = b.closedOnce /\ c.parked = b.parked
  BY <1>2 DEF Only, BusStates, Apart
<1>4. /\ c.op = b.op /\ c.slot = b.slot /\ c.silentClosed = b.silentClosed /\ c.streaming = b.streaming
      /\ c.lastEnd = b.lastEnd
  BY <1>2 DEF Only, BusStates
<1>5. c.nudged = b.nudged /\ c.init = b.init /\ c.earlyReleased = b.earlyReleased /\ c.awaitLine = b.awaitLine
      /\ c.pendingOrigin = b.pendingOrigin /\ c.liveGen = b.liveGen
  BY <1>2 DEF Only, BusStates
<1>6. e \in BusStates /\ SameTurn(c, e) /\ Apart(c, e)
  BY <1>1, TouchTyped, TouchOnly, DeliverySideKeeps, TouchApart
<1>7. d = AdmitNext(e, TRUE)
  BY DEF Settled, c
<1> HIDE DEF e, d
<1>8. Apart(b, e) /\ e.queue = b.queue /\ e.settle = FALSE
  BY <1>1, <1>3, <1>6, ApartTrans DEF SameTurn
<1>9. Moves(b, e, {}, {}, {})
  BY <1>8, ApartMoves
<1>10. Calm(e) /\ ~e.closedOnce /\ ~e.parked
  <2>1. Calm(c)
    BY <1>5 DEF Steady, Calm
  <2> QED
    BY <1>3, <1>6, <2>1, SameTurnCalm DEF SameTurn, Steady
<1>11. Steady(e)
  BY <1>9, <1>10, MovesSteady, NothingMoves, Zenon
<1>12. Steady(d) /\ Serves(e, d, Queued(e.queue))
  BY <1>6, <1>7, <1>8, <1>11, AdmitNextSteady DEF Admissible
<1>13. e.streaming = b.streaming /\ e.lastEnd = b.lastEnd /\ e.op = b.op /\ e.slot = b.slot
       /\ e.silentClosed = b.silentClosed
  BY <1>4, <1>6 DEF SameTurn
<1>14. Serves(b, d, Queued(b.queue))
  BY <1>8, <1>9, <1>12, <1>13, ServesAfter
<1>15. ~d.settle
  BY <1>8, <1>12 DEF Serves
<1> QED
  BY <1>12, <1>14, <1>15 DEF d

\* The PTY layer's verdict on a delivery.
\* The text whose verify the verdict arms, and the one it holds.
VerdictArms(b, i, outcome) ==
  IF GivesUp(b, i, outcome) /\ outcome = "gave-up" THEN {b.deliveries[i].text} ELSE {}

VerdictHolds(b, i, outcome) ==
  IF GivesUp(b, i, outcome) /\ outcome = "stuck-compaction" THEN {b.deliveries[i].text} ELSE {}

\* Delivery i is over, the others go on.
Others(b, d, i) ==
  \A j \in DOMAIN d.deliveries : \E l \in DOMAIN b.deliveries \ {i} : d.deliveries[j] = b.deliveries[l]

LEMMA VerdictSteady ==
  ASSUME NEW b \in BusStates, Steady(b), NEW i \in DOMAIN b.deliveries, NEW outcome,
         outcome = "stuck-compaction" => b.liveGen <= b.deliveries[i].gen, NEW since \in Nat
  PROVE  LET d == Verdict(b, i, outcome, since)
         IN  /\ Steady(d) /\ Same(b, d) /\ d.queue = b.queue /\ Others(b, d, i)
             /\ Moves(b, d, {}, VerdictArms(b, i, outcome), VerdictHolds(b, i, outcome))
<1> DEFINE x  == b.deliveries[i].text
           vs == IF GivesUp(b, i, outcome) /\ outcome = "gave-up" THEN {x} ELSE {}
           hs == IF GivesUp(b, i, outcome) /\ outcome = "stuck-compaction" THEN {x} ELSE {}
           d  == Verdict(b, i, outcome, since)
           O  == \A j \in DOMAIN d.deliveries : \E l \in DOMAIN b.deliveries \ {i} :
                   d.deliveries[j] = b.deliveries[l]
<1>1. b.deliveries[i].current /\ x \in Prompts
  BY DEF Steady
<1>2. Moves(b, d, {}, vs, hs) /\ O
  BY <1>1, VerdictMoves
<1>3. SameTurn(b, d)
  BY VerdictOnly, DeliverySideKeeps
<1>4. vs \in SUBSET Prompts /\ hs \in SUBSET Prompts /\ {} \in SUBSET Prompts
  BY <1>1
<1>7. vs = VerdictArms(b, i, outcome) /\ hs = VerdictHolds(b, i, outcome)
  BY Zenon DEF VerdictArms, VerdictHolds
<1>8. Others(b, d, i)
  <2> HIDE DEF d
  <2> QED
    BY <1>2 DEF Others
<1> HIDE DEF d, vs, hs
<1>5. Steady(d) /\ Same(b, d)
  BY <1>2, <1>3, <1>4, DeliverySteady
<1>6. d.queue = b.queue
  BY <1>3 DEF SameTurn
<1> QED
  BY <1>2, <1>5, <1>6, <1>7, <1>8 DEF d

\* A verify's timer.
LEMMA VerifyTimerSteady ==
  ASSUME NEW b \in BusStates, Steady(b), NEW x \in Texts, b.verify[x] \in {"armed", "graced"}
  PROVE  LET d == VerifyTimer(b, x)
         IN  /\ Steady(d) /\ Same(b, d) /\ d.queue = b.queue /\ x \in Prompts
             /\ \/ Moves(b, d, {}, {}, {}) /\ d.deliveries = b.deliveries
                \/ ~b.streaming /\ ~Verifying(d, x) /\ Moves(b, d, {x}, {}, {})
<1> DEFINE d == VerifyTimer(b, x)
<1>1. x \in Prompts
  BY DEF Steady, Verifying, Texts
<1>2. \/ Moves(b, d, {}, {}, {}) /\ d.deliveries = b.deliveries
      \/ ~b.streaming /\ ~Verifying(d, x) /\ Moves(b, d, {x}, {}, {})
  BY VerifyTimerMoves DEF Steady, Calm
<1>3. SameTurn(b, d)
  BY VerifyTimerOnly, DeliverySideKeeps
<1>4. {x} \in SUBSET Prompts /\ {} \in SUBSET Prompts
  BY <1>1
<1> HIDE DEF d
<1>5. Steady(d) /\ Same(b, d)
  BY <1>2, <1>3, <1>4, DeliverySteady
<1>6. d.queue = b.queue
  BY <1>3 DEF SameTurn
<1> QED
  BY <1>1, <1>2, <1>5, <1>6 DEF d

\* Holds end: a deadline, or a boundary line.
LEMMA ReleaseHoldSteady ==
  ASSUME NEW b \in BusStates, Steady(b), NEW xs \in SUBSET HeldTexts(b)
  PROVE  LET d == ReleaseHold(b, xs)
         IN  /\ Steady(d) /\ Same(b, d) /\ d.queue = b.queue /\ xs \in SUBSET Prompts
             /\ Moves(b, d, {}, xs, {})
<1> DEFINE d == ReleaseHold(b, xs)
<1>1. xs \in SUBSET Prompts /\ {} \in SUBSET Prompts
  BY DEF HeldTexts, Steady, Texts
<1>2. Moves(b, d, {}, xs, {})
  BY ReleaseHoldMoves
<1>3. SameTurn(b, d)
  BY ReleaseHoldOnly, DeliverySideKeeps
<1> HIDE DEF d
<1>5. Steady(d) /\ Same(b, d)
  BY <1>1, <1>2, <1>3, DeliverySteady
<1>6. d.queue = b.queue
  BY <1>3 DEF SameTurn
<1> QED
  BY <1>1, <1>2, <1>5, <1>6 DEF d

\* A publish is a sign of life, and nothing else.
LEMMA PublishSteady ==
  ASSUME NEW b \in BusStates, Steady(b)
  PROVE  LET d == Publish(b)
         IN  d \in BusStates /\ Steady(d) /\ Same(b, d) /\ d.queue = b.queue /\ Apart(b, d)
<1> DEFINE d == Publish(b)
<1>1. d \in BusStates /\ SameTurn(b, d) /\ Apart(b, d)
  BY PublishTyped, TouchOnly, DeliverySideKeeps, TouchApart DEF Publish
<1> HIDE DEF d
<1>2. Moves(b, d, {}, {}, {})
  BY <1>1, ApartMoves
<1>3. Steady(d) /\ Same(b, d)
  BY <1>1, <1>2, DeliverySteady, NothingMoves
<1>4. d.queue = b.queue
  BY <1>1 DEF SameTurn
<1> QED
  BY <1>1, <1>3, <1>4 DEF d

LEMMA CompactLineSteady ==
  ASSUME NEW b \in BusStates, Steady(b), NEW gen, NEW nth, NEW tolerant
  PROVE  LET d == CompactLine(b, gen, nth, tolerant)
         IN  \E xs \in SUBSET HeldTexts(b) :
               /\ Steady(d) /\ Same(b, d) /\ d.queue = b.queue /\ xs \in SUBSET Prompts
               /\ Moves(b, d, {}, xs, {})
<1> DEFINE xs == HoldsEndedBy(b, gen, nth, tolerant)
           e  == ReleaseHold(b, xs)
           d  == CompactLine(b, gen, nth, tolerant)
<1>1. xs \in SUBSET HeldTexts(b)
  BY DEF HoldsEndedBy
<1>2. d = Publish(e)
  BY DEF CompactLine
<1> HIDE DEF xs
<1>3. e \in BusStates
  BY <1>1, ReleaseHoldTyped
<1>4. Steady(e) /\ Same(b, e) /\ e.queue = b.queue /\ xs \in SUBSET Prompts /\ Moves(b, e, {}, xs, {})
  BY <1>1, ReleaseHoldSteady
<1> HIDE DEF e, d
<1>5. Steady(d) /\ Same(e, d) /\ d.queue = e.queue /\ Apart(e, d)
  BY <1>2, <1>3, <1>4, PublishSteady
<1>6. Moves(b, d, {} \cup {}, xs \cup {}, {} \cup {})
  BY <1>4, <1>5, ApartMoves, MovesTrans
<1>7. Moves(b, d, {}, xs, {})
  BY <1>6, MovesWider
<1>8. Same(b, d)
  BY <1>4, <1>5 DEF Same
<1> QED
  BY <1>1, <1>4, <1>5, <1>7, <1>8 DEF d

\* The fallback of a reminder nobody sent.
LEMMA NudgeFallbackSteady ==
  ASSUME NEW b \in BusStates, Steady(b)
  PROVE  LET d == NudgeFallback(b)
         IN  Steady(d) /\ Same(b, d) /\ d.queue = b.queue /\ Apart(b, d)
<1> DEFINE d == NudgeFallback(b)
<1>1. d = [b EXCEPT !.fallback = FALSE]
  BY DEF NudgeFallback, Steady, Calm
<1>2. Only(b, d, {"fallback"})
  BY <1>1, Zenon DEF Only
<1> HIDE DEF d
<1>3. Apart(b, d)
  BY <1>2 DEF Only, BusStates, Apart
<1>4. SameTurn(b, d)
  BY <1>2 DEF Only, BusStates, SameTurn
<1>5. Moves(b, d, {}, {}, {})
  BY <1>3, ApartMoves
<1>6. Steady(d) /\ Same(b, d)
  BY <1>4, <1>5, DeliverySteady, NothingMoves
<1>7. d.queue = b.queue
  BY <1>4 DEF SameTurn
<1> QED
  BY <1>3, <1>6, <1>7 DEF d

\* Delivery i is typed.
Types(b, d, i) ==
  /\ DOMAIN d.deliveries = DOMAIN b.deliveries
  /\ \A j \in DOMAIN b.deliveries :
       LET e == b.deliveries[j]
           f == d.deliveries[j]
       IN  /\ f.text = e.text /\ f.current = e.current /\ f.proven = e.proven /\ f.owns = e.owns
           /\ IF j = i THEN f.typed = TRUE ELSE f.typed = e.typed
  /\ d.held = b.held /\ d.carried = b.carried /\ d.verify = b.verify /\ d.hold = b.hold

LEMMA KeystrokeSteady ==
  ASSUME NEW b \in BusStates, Steady(b), NEW i \in DOMAIN b.deliveries
  PROVE  LET d == [b EXCEPT !.deliveries[i].typed = TRUE]
         IN  Steady(d) /\ Same(b, d) /\ d.queue = b.queue /\ Types(b, d, i)
<1> DEFINE ds == b.deliveries
           es == [ds EXCEPT ![i].typed = TRUE]
           d  == [b EXCEPT !.deliveries[i].typed = TRUE]
<1>1. ds \in Seq(Deliveries)
  BY Zenon DEF BusStates
<1>2. d = [b EXCEPT !.deliveries = es]
  OBVIOUS
<1>3. DOMAIN es = DOMAIN ds /\ \A j \in DOMAIN ds : es[j] = IF j = i THEN [ds[j] EXCEPT !.typed = TRUE] ELSE ds[j]
  OBVIOUS
<1>4. \A j \in DOMAIN ds : ds[j] \in Deliveries
  <2> HIDE DEF ds
  <2> QED
    BY <1>1
<1>5. \A e \in Deliveries : LET u == [e EXCEPT !.typed = TRUE]
                            IN  u.text = e.text /\ u.owns = e.owns /\ u.current = e.current
                                /\ u.proven = e.proven /\ u.typed = TRUE
  BY Zenon DEF Deliveries
<1>6. d.deliveries = es /\ d.held = b.held /\ d.carried = b.carried /\ d.verify = b.verify
      /\ d.hold = b.hold /\ d.queue = b.queue
  BY Zenon DEF BusStates
<1>7. Only(b, d, DeliverySide)
  BY <1>2, Zenon DEF Only, DeliverySide
<1> HIDE DEF es, d
<1>8. Types(b, d, i)
  BY <1>3, <1>4, <1>5, <1>6 DEF Types
<1>9. SameTurn(b, d)
  BY <1>7, DeliverySideKeeps
<1>10. Calm(d) /\ ~d.closedOnce /\ ~d.parked /\ Same(b, d)
  BY <1>9, SameTurnCalm DEF Steady, SameTurn, Same
<1>11. \A j \in DOMAIN d.deliveries : d.deliveries[j].text \in Prompts /\ d.deliveries[j].current
  BY <1>8 DEF Types, Steady
<1>12. Steady(d)
  BY <1>6, <1>10, <1>11 DEF Steady, Verifying
<1> QED
  BY <1>6, <1>8, <1>10, <1>12 DEF d

\* Something is still to come of p's delivery: a verify, a hold, or a delivery
\* whose text the transcript has not shown.
Unsettled(b, p) ==
  \/ Verifying(b, p)
  \/ b.hold[p] # None
  \/ \E i \in DOMAIN b.deliveries : b.deliveries[i].text = p /\ ~b.deliveries[i].proven

\* The transcript's line settles a text that is in one place.
LEMMA NoteSettles ==
  ASSUME NEW b \in BusStates, NEW x, NEW d, Apart(NoteFlushTurnStart(b, x), d)
  PROVE  /\ Moves(b, d, {}, {}, {})
         /\ x \in Prompts /\ Place(b, x, 0) => ~Unsettled(d, x)
<1> DEFINE n == NoteFlushTurnStart(b, x)
           Owned  == \A i \in DOMAIN b.deliveries : b.deliveries[i].text = x => b.deliveries[i].owns
           Proven == \A i \in DOMAIN n.deliveries : n.deliveries[i].text = x => n.deliveries[i].proven
<1>1. /\ Moves(b, n, {}, {}, {})
      /\ x \in Texts /\ Owned => Proven
      /\ x \in Texts /\ (b.hold[x] # None => ~Verifying(b, x)) => n.hold[x] = None /\ ~Verifying(n, x)
  BY NoteMoves
<1>2. b.deliveries \in Seq(Deliveries)
  BY Zenon DEF BusStates
<1>3. 0 \notin DOMAIN b.deliveries
  BY <1>2
<1> HIDE DEF n
<1>4. Moves(b, d, {} \cup {}, {} \cup {}, {} \cup {})
  BY <1>1, ApartMoves, MovesTrans DEF n
<1>5. Moves(b, d, {}, {}, {})
  BY <1>4, MovesWider
<1>6. ASSUME x \in Prompts, Place(b, x, 0) PROVE ~Unsettled(d, x)
  <2>1. x \in Texts /\ Owned /\ (b.hold[x] # None => ~Verifying(b, x))
    BY <1>3, <1>6 DEF Place, Mine, Texts
  <2>2. Proven /\ n.hold[x] = None /\ ~Verifying(n, x)
    BY <1>1, <2>1
  <2> QED
    BY <2>2 DEF Apart, Unsettled, Verifying, n
<1> QED
  BY <1>5, <1>6

LEMMA PromptLineSteady ==
  ASSUME NEW b \in BusStates, Steady(b), NEW x
  PROVE  LET d == PromptLine(b, x)
         IN  /\ Steady(d) /\ Moves(b, d, {}, {}, {})
             /\ d.queue = b.queue /\ d.op = b.op /\ d.settle = b.settle /\ d.streaming
             /\ d.slot = b.slot /\ d.lastEnd = b.lastEnd /\ d.silentClosed = None
             /\ x \in Prompts /\ Place(b, x, 0) => ~Unsettled(d, x)
<1> DEFINE d == PromptLine(b, x)
<1>1. Calm(b)
  BY DEF Steady
<1>2. /\ Calm(d) /\ Apart(NoteFlushTurnStart(b, x), d)
      /\ d.queue = b.queue /\ d.op = b.op /\ d.settle = b.settle /\ d.streaming
      /\ d.slot = b.slot /\ d.lastEnd = b.lastEnd /\ d.closedOnce = b.closedOnce /\ d.silentClosed = None
      /\ d.parked = b.parked
  BY <1>1, PromptLineCalm
<1> HIDE DEF d
<1>4. Moves(b, d, {}, {}, {}) /\ (x \in Prompts /\ Place(b, x, 0) => ~Unsettled(d, x))
  BY <1>2, NoteSettles
<1>5. ~d.closedOnce /\ ~d.parked
  BY <1>2 DEF Steady
<1>6. Steady(d)
  BY <1>2, <1>4, <1>5, MovesSteady, NothingMoves, Zenon
<1> QED
  BY <1>2, <1>4, <1>6 DEF d

LEMMA AbsorbedLineSteady ==
  ASSUME NEW b \in BusStates, Steady(b), Gate(b), NEW x
  PROVE  LET d == AbsorbedLine(b, x)
         IN  /\ Steady(d) /\ Moves(b, d, {}, {}, {})
             /\ d.queue = b.queue /\ d.streaming = b.streaming
             /\ x \in Prompts /\ Place(b, x, 0) => ~Unsettled(d, x)
<1> DEFINE d == AbsorbedLine(b, x)
<1>1. Calm(b)
  BY DEF Steady
<1>2. /\ Calm(d) /\ Apart(NoteFlushTurnStart(b, x), d)
      /\ d.queue = b.queue /\ d.streaming = b.streaming /\ d.parked = b.parked /\ d.closedOnce = b.closedOnce
  BY <1>1, AbsorbedLineCalm
<1> HIDE DEF d
<1>4. Moves(b, d, {}, {}, {}) /\ (x \in Prompts /\ Place(b, x, 0) => ~Unsettled(d, x))
  BY <1>2, NoteSettles
<1>5. ~d.closedOnce /\ ~d.parked
  BY <1>2 DEF Steady
<1>6. Steady(d)
  BY <1>2, <1>4, <1>5, MovesSteady, NothingMoves, Zenon
<1> QED
  BY <1>2, <1>4, <1>6 DEF d

\* A terminator that is not one more line of the turn before.
LEMMA TurnEndSteady ==
  ASSUME NEW b \in BusStates, Steady(b), Gate(b), ~NudgeEnabled, NEW id \in Nat, NEW text \in Says,
         NEW inject, NEW online
  PROVE  LET d   == TurnEnd(b, id, text, inject, online)
             net == HandleTurnEnd(b, text, inject, online)
         IN  /\ LateLine(b, id) => d = b
             /\ ~LateLine(b, id) =>
                  /\ Apart(b, d) /\ d.queue = b.queue /\ d.settle /\ ~d.streaming /\ d.lastEnd = id
                  /\ d.op = (IF id # b.lastEnd THEN None ELSE b.op)
                  /\ d.slot = net.slot
             /\ Steady(d)
<1> DEFINE d   == TurnEnd(b, id, text, inject, online)
           net == HandleTurnEnd(b, text, inject, online)
<1>1. Calm(b)
  BY DEF Steady
<1>2. /\ LateLine(b, id) => d = b
      /\ ~LateLine(b, id) =>
           /\ Calm(d) /\ Apart(b, d) /\ d.queue = b.queue /\ d.closedOnce = b.closedOnce
           /\ d.settle /\ ~d.streaming /\ ~d.parked /\ d.lastEnd = id
           /\ d.op = (IF id # b.lastEnd THEN None ELSE b.op)
           /\ d.slot = net.slot
  BY <1>1, TurnEndCalm
<1> HIDE DEF d, net
<1>3. ASSUME ~LateLine(b, id) PROVE Steady(d)
  <2>1. Moves(b, d, {}, {}, {})
    BY <1>2, <1>3, ApartMoves
  <2>2. Calm(d) /\ ~d.closedOnce /\ ~d.parked
    BY <1>2, <1>3 DEF Steady
  <2> QED
    BY <2>1, <2>2, MovesSteady, NothingMoves, Zenon
<1> QED
  BY <1>2, <1>3 DEF d, net

LEMMA IngestReplySteady ==
  ASSUME NEW b \in BusStates, Steady(b), NEW named
  PROVE  LET d == IngestReply(b, named, "reply")
         IN  /\ Steady(d) /\ Apart(b, d) /\ d.queue = b.queue
             /\ d.op = b.op /\ d.streaming = b.streaming /\ d.settle = b.settle /\ d.lastEnd = b.lastEnd
<1> DEFINE d == IngestReply(b, named, "reply")
<1>1. Only(b, d, ReplySide)
  BY IngestReplyOnly
<1>2. ~d.nudged
  <2>1. Duplicate(b, named, "reply") => d = b
    BY DEF IngestReply
  <2>2. ~Duplicate(b, named, "reply") => d.nudged = FALSE
    <3> HIDE DEF d
    <3>1. ~Duplicate(b, named, "reply") => Replied(b, d, named, "reply")
      BY IngestReplyEffect DEF d
    <3> QED
      BY <3>1 DEF Replied
  <2> QED
    BY <2>1, <2>2 DEF Steady, Calm
<1> HIDE DEF d
<1>3. /\ Apart(b, d) /\ d.queue = b.queue /\ d.op = b.op /\ d.streaming = b.streaming /\ d.parked = b.parked
      /\ d.settle = b.settle /\ d.earlyReleased = b.earlyReleased /\ d.awaitLine = b.awaitLine
      /\ d.pendingOrigin = b.pendingOrigin /\ d.lastEnd = b.lastEnd /\ d.init = b.init
      /\ d.liveGen = b.liveGen /\ d.closedOnce = b.closedOnce
  BY <1>1, ReplySideKeeps
<1>4. Moves(b, d, {}, {}, {})
  BY <1>3, ApartMoves
<1>5. Calm(d) /\ ~d.closedOnce /\ ~d.parked
  BY <1>2, <1>3 DEF Steady, Calm
<1>6. Steady(d)
  BY <1>4, <1>5, MovesSteady, NothingMoves, Zenon
<1> QED
  BY <1>3, <1>6 DEF d

--------------------------------------------------------------------------------
(* The transcript's brackets *)

\* A turn is open before line i of ls: its prompt's line comes before with no
\* terminator after it, or it streams already and no terminator comes first.
OpenBefore(streaming, ls, i) ==
  \/ \E j \in 1 .. i - 1 : ls[j].kind = "prompt" /\ \A k \in j + 1 .. i - 1 : ls[k].kind # "end"
  \/ streaming /\ \A k \in 1 .. i - 1 : ls[k].kind # "end"

\* An absorbed text's line comes inside the turn that absorbed it.
Bracket(streaming, ls) == \A i \in DOMAIN ls : ls[i].kind = "absorbed" => OpenBefore(streaming, ls, i)

LEMMA OpenPrefix ==
  ASSUME NEW s, NEW S, NEW ls \in Seq(S), NEW ms \in Seq(S), NEW i \in 1 .. Len(ls) + 1
  PROVE  OpenBefore(s, ls \o ms, i) <=> OpenBefore(s, ls, i)
<1>1. \A j \in 1 .. Len(ls) : (ls \o ms)[j] = ls[j]
  OBVIOUS
<1>2. \A j \in 1 .. i - 1 : (ls \o ms)[j] = ls[j]
  BY <1>1
<1> DEFINE ns == ls \o ms
<1> HIDE DEF ns
<1> QED
  BY <1>2 DEF OpenBefore, ns

\* Lines that are not absorbed texts join the transcript.
LEMMA BracketMore ==
  ASSUME NEW s, NEW S, NEW ls \in Seq(S), NEW ms \in Seq(S), Bracket(s, ls),
         \A i \in DOMAIN ms : ms[i].kind # "absorbed"
  PROVE  Bracket(s, ls \o ms)
<1> DEFINE ns == ls \o ms
<1>1. ns \in Seq(S) /\ Len(ns) = Len(ls) + Len(ms) /\ Len(ls) \in Nat /\ Len(ms) \in Nat
      /\ \A i \in 1 .. Len(ns) : ns[i] = IF i <= Len(ls) THEN ls[i] ELSE ms[i - Len(ls)]
  OBVIOUS
<1>2. \A i \in 1 .. Len(ls) : OpenBefore(s, ns, i) <=> OpenBefore(s, ls, i)
  BY OpenPrefix
<1> HIDE DEF ns
<1>3. ASSUME NEW i \in DOMAIN ns, ns[i].kind = "absorbed" PROVE OpenBefore(s, ns, i)
  <2>1. CASE i <= Len(ls)
    BY <1>1, <1>2, <1>3, <2>1 DEF Bracket
  <2>2. CASE ~(i <= Len(ls))
    <3>1. i - Len(ls) \in DOMAIN ms
      BY <1>1, <2>2
    <3> QED
      BY <1>1, <1>3, <2>2, <3>1
  <2> QED
    BY <2>1, <2>2
<1> QED
  BY <1>3 DEF Bracket, ns

\* A line inside an open turn leaves it open, unless it is a terminator.
LEMMA OpenStays ==
  ASSUME NEW s, NEW S, NEW ls \in Seq(S), NEW l \in S, l.kind # "end",
         l.kind = "prompt" \/ OpenBefore(s, ls, Len(ls) + 1)
  PROVE  OpenBefore(s, ls \o <<l>>, Len(ls) + 2)
<1> DEFINE ns == ls \o <<l>>
           n  == Len(ls)
<1>1. n \in Nat /\ ns[n + 1] = l /\ \A j \in 1 .. n : ns[j] = ls[j]
  OBVIOUS
<1>2. OpenBefore(s, ls, n + 1) => OpenBefore(s, ns, n + 1)
  <2>1. <<l>> \in Seq(S) /\ n + 1 \in 1 .. Len(ls) + 1
    BY <1>1
  <2> HIDE DEF n
  <2> QED
    BY <2>1, OpenPrefix
<1> HIDE DEF ns, n
<1>3. ASSUME l.kind = "prompt" PROVE OpenBefore(s, ns, n + 2)
  <2>1. n + 1 \in 1 .. (n + 2) - 1
    BY <1>1
  <2>3. (n + 1) + 1 .. (n + 2) - 1 = {}
    BY <1>1
  <2>2. ns[n + 1].kind = "prompt"
    BY <1>1, <1>3
  <2> QED
    BY <2>1, <2>2, <2>3 DEF OpenBefore
<1>4. ASSUME OpenBefore(s, ls, n + 1) PROVE OpenBefore(s, ns, n + 2)
  BY <1>1, <1>2, <1>4 DEF OpenBefore
<1> QED
  BY <1>3, <1>4 DEF n, ns

\* A text absorbed into an open turn.
LEMMA BracketAbsorbed ==
  ASSUME NEW s, NEW S, NEW ls \in Seq(S), NEW l \in S, Bracket(s, ls), OpenBefore(s, ls, Len(ls) + 1)
  PROVE  Bracket(s, ls \o <<l>>)
<1> DEFINE ns == ls \o <<l>>
<1>1. Len(ls) \in Nat /\ DOMAIN ns = 1 .. Len(ls) + 1 /\ \A j \in 1 .. Len(ls) : ns[j] = ls[j]
  OBVIOUS
<1>2. \A i \in 1 .. Len(ls) + 1 : OpenBefore(s, ns, i) <=> OpenBefore(s, ls, i)
  BY OpenPrefix, <<l>> \in Seq(S)
<1> HIDE DEF ns
<1>3. ASSUME NEW i \in DOMAIN ns, ns[i].kind = "absorbed" PROVE OpenBefore(s, ns, i)
  <2>1. CASE i \in 1 .. Len(ls)
    BY <1>1, <1>2, <1>3, <2>1 DEF Bracket
  <2>2. CASE i = Len(ls) + 1
    BY <1>1, <1>2, <2>2
  <2> QED
    BY <1>1, <2>1, <2>2
<1> QED
  BY <1>3 DEF Bracket, ns

\* The first line is read: after it the bus knows that a turn streams as it did,
\* or as that line says.
LEMMA OpenTail ==
  ASSUME NEW s, NEW S, NEW ls \in Seq(S), ls # <<>>, NEW t, NEW i \in 1 .. Len(ls), OpenBefore(s, ls, i + 1),
         Head(ls).kind = "prompt" => t,
         Head(ls).kind \notin {"prompt", "end"} => (s => t)
  PROVE  OpenBefore(t, Tail(ls), i)
<1> DEFINE ts == Tail(ls)
<1>1. Len(ls) \in Nat \ {0} /\ Head(ls) = ls[1] /\ \A j \in 1 .. Len(ls) - 1 : ts[j] = ls[j + 1]
  OBVIOUS
<1> HIDE DEF ts
<1>2. ASSUME \A k \in 2 .. i : ls[k].kind # "end" PROVE \A k \in 1 .. i - 1 : ts[k].kind # "end"
  BY <1>1, <1>2
<1>3. CASE s /\ \A k \in 1 .. i : ls[k].kind # "end"
  <2>1. ls[1].kind # "end" /\ \A k \in 1 .. i - 1 : ts[k].kind # "end"
    BY <1>1, <1>2, <1>3
  <2> QED
    BY <1>1, <1>3, <2>1 DEF OpenBefore, ts
<1>4. CASE \E j \in 1 .. i : ls[j].kind = "prompt" /\ \A k \in j + 1 .. i : ls[k].kind # "end"
  <2>1. PICK j \in 1 .. i : ls[j].kind = "prompt" /\ \A k \in j + 1 .. i : ls[k].kind # "end"
    BY <1>4
  <2>2. CASE j = 1
    <3>1. \A k \in 1 .. i - 1 : ts[k].kind # "end"
      BY <1>2, <2>1, <2>2
    <3> QED
      BY <1>1, <2>1, <2>2, <3>1 DEF OpenBefore, ts
  <2>3. CASE j # 1
    <3>1. j - 1 \in 1 .. i - 1 /\ ts[j - 1].kind = "prompt"
      BY <1>1, <2>1, <2>3
    <3>2. \A k \in j .. i - 1 : ts[k].kind # "end"
      BY <1>1, <2>1, <2>3
    <3>3. \A k \in (j - 1) + 1 .. i - 1 : ts[k].kind # "end"
      BY <3>2
    <3> QED
      BY <3>1, <3>3 DEF OpenBefore, ts
  <2> QED
    BY <2>2, <2>3
<1>5. (i + 1) - 1 = i
  BY <1>1
<1> QED
  BY <1>3, <1>4, <1>5 DEF OpenBefore

LEMMA BracketTail ==
  ASSUME NEW s, NEW S, NEW ls \in Seq(S), ls # <<>>, NEW t, Bracket(s, ls),
         Head(ls).kind = "prompt" => t,
         Head(ls).kind \notin {"prompt", "end"} => (s => t)
  PROVE  Bracket(t, Tail(ls))
<1> DEFINE ts == Tail(ls)
<1>1. Len(ls) \in Nat \ {0} /\ DOMAIN ts = 1 .. Len(ls) - 1 /\ \A j \in 1 .. Len(ls) - 1 : ts[j] = ls[j + 1]
  OBVIOUS
<1>2. \A i \in 1 .. Len(ls) - 1 : OpenBefore(s, ls, i + 1) => OpenBefore(t, ts, i)
  BY <1>1, OpenTail
<1> HIDE DEF ts
<1>3. ASSUME NEW i \in DOMAIN ts, ts[i].kind = "absorbed" PROVE OpenBefore(t, ts, i)
  <2>1. i + 1 \in DOMAIN ls /\ ls[i + 1].kind = "absorbed"
    BY <1>1, <1>3
  <2>2. OpenBefore(s, ls, i + 1)
    BY <2>1 DEF Bracket
  <2> QED
    BY <1>1, <1>2, <2>2
<1> QED
  BY <1>3 DEF Bracket, ts

\* The agent's first process has said hello: nothing has happened yet.
LEMMA StartedSteady ==
  /\ StartedBus \in BusStates /\ Steady(StartedBus)
  /\ StartedBus.queue = EmptyQueue /\ StartedBus.deliveries = <<>> /\ StartedBus.op = None
  /\ StartedBus.slot = None /\ StartedBus.lastEnd = 0 /\ ~StartedBus.settle
  /\ \A x \in Texts : StartedBus.verify[x] = "none" /\ StartedBus.hold[x] = None
<1> DEFINE f  == FreshBus
           s  == Spawned(f, 1)
           r1 == [s EXCEPT !.liveGen = 1, !.liveSession = 1, !.ready = TRUE]
           r2 == [r1 EXCEPT !.init = FALSE, !.streaming = FALSE]
           r3 == [r2 EXCEPT !.carried = <<>>, !.held = <<>>]
           r4 == Touch(r3)
           r5 == Publish(r4)
           e  == [r5 EXCEPT !.hello = TRUE]
           Blank(b) == /\ b.queue = EmptyQueue /\ b.deliveries = <<>> /\ b.op = None
                       /\ b.slot = None /\ b.lastEnd = 0 /\ b.settle = FALSE
                       /\ b.held = <<>> /\ b.carried = <<>>
           Still(b) == /\ b.verify = f.verify /\ b.hold = f.hold
                       /\ b.nudged = FALSE /\ b.init = FALSE /\ b.earlyReleased = FALSE /\ b.awaitLine = None
                       /\ b.pendingOrigin = None /\ b.closedOnce = FALSE /\ b.parked = FALSE
<1>1. f \in BusStates /\ Blank(f) /\ f.liveGen = 0 /\ f.spawnedGen = 0
  BY FreshTyped DEF FreshBus
<1>2. Still(f)
  BY DEF FreshBus
<1>3. \A x \in Texts : f.verify[x] = "none" /\ f.hold[x] = None
  BY DEF FreshBus
<1> HIDE DEF f
<1>4. s \in BusStates /\ s.spawnedGen = 1 /\ Only(f, s, {"spawnedGen"})
  <2>1. s \in BusStates
    BY <1>1, SpawnedTyped
  <2>2. BiggerOf(f.spawnedGen, 1) = 1
    BY <1>1 DEF BiggerOf
  <2>3. s.spawnedGen = BiggerOf(f.spawnedGen, 1)
    BY <1>1, Zenon DEF Spawned, BusStates
  <2>4. Only(f, s, {"spawnedGen"})
    BY Zenon DEF Only, Spawned
  <2> QED
    BY <2>1, <2>2, <2>3, <2>4
<1> HIDE DEF s
<1>5. Blank(s) /\ Still(s) /\ s.liveGen = 0
  <2>1. Blank(s)
    BY <1>1, <1>4 DEF Only, BusStates
  <2>2. Still(s) /\ s.liveGen = 0
    BY <1>1, <1>2, <1>4 DEF Only, BusStates
  <2> QED
    BY <2>1, <2>2
<1>6. r1 \in BusStates /\ r1.liveGen = 1 /\ r1.ready = TRUE /\ Only(s, r1, {"liveGen", "liveSession", "ready"})
  <2>1. r1 \in BusStates
    BY <1>4, ZenonT(60) DEF BusStates
  <2>2. r1.liveGen = 1 /\ r1.ready = TRUE
    BY <1>4, ZenonT(60) DEF BusStates
  <2>3. Only(s, r1, {"liveGen", "liveSession", "ready"})
    BY Zenon DEF Only
  <2> QED
    BY <2>1, <2>2, <2>3
<1>7. ReplayDone(s, 1, 1, FALSE) = Publish(Readied(r1, 0, FALSE, FALSE))
  <2>1. CurrentGen(s) = 1
    BY <1>4, <1>5 DEF CurrentGen, BiggerOf
  <2>2. ReplayDone(s, 1, 1, FALSE)
          = Publish(Readied(r1, IF s.liveGen # 0 /\ 1 > s.liveGen THEN 1 ELSE 0, FALSE, FALSE))
    BY <2>1 DEF ReplayDone
  <2>3. (IF s.liveGen # 0 /\ 1 > s.liveGen THEN 1 ELSE 0) = 0
    BY <1>5
  <2> HIDE DEF r1
  <2> QED
    BY <2>2, <2>3
<1> HIDE DEF r1
<1>8. Blank(r1) /\ Still(r1)
  <2>3. r1.queue = s.queue /\ r1.deliveries = s.deliveries /\ r1.op = s.op /\ r1.slot = s.slot
    BY <1>4, <1>6 DEF Only, BusStates
  <2>4. r1.lastEnd = s.lastEnd /\ r1.settle = s.settle /\ r1.held = s.held /\ r1.carried = s.carried
    BY <1>4, <1>6 DEF Only, BusStates
  <2>1. Blank(r1)
    BY <1>5, <2>3, <2>4
  <2>2. Still(r1)
    BY <1>4, <1>5, <1>6 DEF Only, BusStates
  <2> QED
    BY <2>1, <2>2
<1>9. r2 \in BusStates /\ r2.init = FALSE /\ Only(r1, r2, {"init", "streaming"})
  <2>1. r2 \in BusStates
    BY <1>6, ZenonT(60) DEF BusStates
  <2>2. r2.init = FALSE
    BY <1>6, ZenonT(60) DEF BusStates
  <2>3. Only(r1, r2, {"init", "streaming"})
    BY Zenon DEF Only
  <2> QED
    BY <2>1, <2>2, <2>3
<1>10. r3 \in BusStates /\ r3.held = <<>> /\ r3.carried = <<>> /\ Only(r2, r3, {"carried", "held"})
  <2>1. <<>> \in Seq(Texts)
    OBVIOUS
  <2>2. r3 \in BusStates
    BY <1>9, <2>1, ZenonT(60) DEF BusStates
  <2>3. r3.held = <<>> /\ r3.carried = <<>>
    BY <1>9, ZenonT(60) DEF BusStates
  <2>4. Only(r2, r3, {"carried", "held"})
    BY Zenon DEF Only
  <2> QED
    BY <2>2, <2>3, <2>4
<1>11. r2.held = <<>> /\ r2.carried = <<>> /\ r2.queue = EmptyQueue
  <2> HIDE DEF r2
  <2> QED
    BY <1>6, <1>8, <1>9 DEF Only, BusStates
<1>12. Readied(r1, 0, FALSE, FALSE) = AdmitNext(r4, FALSE)
  <2>1. r2.carried \o r2.held = <<>>
    <3> HIDE DEF r2
    <3> QED
      BY <1>11
  <2>2. Reissue(r3, <<>>) = r3
    BY DEF Reissue
  <2> DEFINE R(again) == LET out     == Reissue(r3, again)
                             renewed == Touch(out)
                         IN  IF again = <<>> THEN AdmitNext(renewed, FALSE) ELSE renewed
  <2>3. Readied(r1, 0, FALSE, FALSE) = R(r2.carried \o r2.held)
    BY DEF Readied
  <2>4. R(<<>>) = AdmitNext(r4, FALSE)
    BY <2>2
  <2> HIDE DEF R
  <2> QED
    BY <2>1, <2>3, <2>4
<1> HIDE DEF r2, r3
<1>13. r4 \in BusStates /\ SameTurn(r3, r4) /\ Apart(r3, r4)
  BY <1>10, TouchTyped, TouchOnly, DeliverySideKeeps, TouchApart
<1>14. r3.queue = EmptyQueue
  BY <1>9, <1>10, <1>11 DEF Only, BusStates
<1> HIDE DEF r4
<1>15. AdmitNext(r4, FALSE) = r4
  <2>1. ~HasQueue(r4.queue)
    BY <1>13, <1>14 DEF SameTurn, HasQueue, EmptyQueue
  <2> QED
    BY <2>1 DEF AdmitNext
<1>16. r5 \in BusStates /\ SameTurn(r4, r5) /\ Apart(r4, r5)
  BY <1>13, PublishTyped, TouchOnly, DeliverySideKeeps, TouchApart DEF Publish
<1> HIDE DEF r5
<1>17. r5.ready = TRUE
  <2>1. r3.ready = TRUE
    BY <1>6, <1>9, <1>10 DEF Only, BusStates
  <2>2. \A b \in BusStates : Touch(b).ready = b.ready
    BY Zenon DEF Touch, BusStates
  <2> QED
    BY <1>10, <1>13, <2>1, <2>2 DEF r4, r5, Publish
<1>18. StartedBus = e
  <2>1. ReplayDone(s, 1, 1, FALSE) = r5
    BY <1>7, <1>12, <1>15 DEF r5
  <2> QED
    BY <1>17, <2>1 DEF StartedBus, OnHello, s, f
<1>19. e \in BusStates /\ Only(r5, e, {"hello"})
  <2>1. e \in BusStates
    BY <1>16, Zenon DEF BusStates
  <2>2. Only(r5, e, {"hello"})
    BY Zenon DEF Only
  <2> QED
    BY <2>1, <2>2
<1> HIDE DEF e
<1>20. Blank(r3) /\ Still(r3) /\ r3.liveGen = 1
  <2>9. r1 \in BusStates /\ Only(r1, r2, {"init", "streaming"})
    BY <1>6, <1>9
  <2>10. /\ r2.queue = r1.queue /\ r2.deliveries = r1.deliveries /\ r2.op = r1.op
         /\ r2.slot = r1.slot /\ r2.lastEnd = r1.lastEnd /\ r2.settle = r1.settle
    BY <2>9 DEF Only, BusStates
  <2>11. /\ r2.verify = r1.verify /\ r2.hold = r1.hold
         /\ r2.nudged = r1.nudged /\ r2.earlyReleased = r1.earlyReleased
         /\ r2.held = r1.held /\ r2.carried = r1.carried
    BY <2>9 DEF Only, BusStates
  <2>12. /\ r2.awaitLine = r1.awaitLine /\ r2.pendingOrigin = r1.pendingOrigin
         /\ r2.closedOnce = r1.closedOnce /\ r2.parked = r1.parked /\ r2.liveGen = r1.liveGen
    BY <2>9 DEF Only, BusStates
  <2>3. Blank(r2)
    BY <1>8, <2>10, <2>11
  <2>4. Still(r2) /\ r2.liveGen = 1
    BY <1>6, <1>8, <1>9, <2>11, <2>12
  <2>5. r2 \in BusStates /\ Only(r2, r3, {"carried", "held"})
    BY <1>9, <1>10
  <2>6. /\ r3.queue = r2.queue /\ r3.deliveries = r2.deliveries /\ r3.op = r2.op
        /\ r3.slot = r2.slot /\ r3.lastEnd = r2.lastEnd /\ r3.settle = r2.settle
    BY <2>5 DEF Only, BusStates
  <2>7. /\ r3.verify = r2.verify /\ r3.hold = r2.hold
        /\ r3.nudged = r2.nudged /\ r3.init = r2.init /\ r3.earlyReleased = r2.earlyReleased
    BY <2>5 DEF Only, BusStates
  <2>8. /\ r3.awaitLine = r2.awaitLine /\ r3.pendingOrigin = r2.pendingOrigin
        /\ r3.closedOnce = r2.closedOnce /\ r3.parked = r2.parked /\ r3.liveGen = r2.liveGen
    BY <2>5 DEF Only, BusStates
  <2>1. Blank(r3)
    BY <1>10, <2>3, <2>6
  <2>2. Still(r3) /\ r3.liveGen = 1
    BY <2>4, <2>7, <2>8
  <2> QED
    BY <2>1, <2>2
<1>21. Blank(r5) /\ Still(r5) /\ r5.liveGen = 1
  BY <1>13, <1>16, <1>20 DEF SameTurn, Apart
<1>22. Blank(e) /\ Still(e) /\ e.liveGen = 1
  <2>1. Blank(e)
    BY <1>16, <1>19, <1>21 DEF Only, BusStates
  <2>2. Still(e) /\ e.liveGen = 1
    BY <1>16, <1>19, <1>21 DEF Only, BusStates
  <2> QED
    BY <2>1, <2>2
<1>23. Steady(e)
  <2>1. Calm(e) /\ ~e.closedOnce /\ ~e.parked /\ e.held = <<>> /\ e.carried = <<>> /\ e.deliveries = <<>>
    BY <1>22 DEF Calm
  <2>2. ~Verifying(e, Nudge) /\ e.hold[Nudge] = None
    BY <1>3, <1>22 DEF Verifying, Texts
  <2> QED
    BY <2>1, <2>2 DEF Steady
<1> QED
  BY <1>3, <1>18, <1>19, <1>22, <1>23

--------------------------------------------------------------------------------
(* What the CLI's steps do *)

\* It is the process it was, with the compactions it has had.
SameProcess(c, d) == d.gen = c.gen /\ d.up = c.up /\ d.booting = c.booting

SameCompaction(c, d) == d.compacting = c.compacting /\ d.compactions = c.compactions

\* The model has been given x once more.
GivenMore(x) == [y \in Texts |-> cli.runs[y] + (IF y = x THEN 1 ELSE 0)]

LEMMA StartTurnEffect ==
  ASSUME cli \in CliStates, StartTurn
  PROVE  LET x == Head(cli.box)
         IN  /\ cli.turn = None /\ cli.box # <<>> /\ ~cli.compacting
             /\ SameProcess(cli, cli') /\ SameCompaction(cli, cli')
             /\ cli'.box = Tail(cli.box) /\ cli'.turn = Turn(x) /\ cli'.turns = cli.turns + 1
             /\ cli'.runs = GivenMore(x)
             /\ Write(<<[kind |-> "prompt", text |-> x]>>) /\ frames' = frames
<1> DEFINE x    == Head(cli.box)
           t    == Turn(x)
           n    == cli.turns + 1
           box  == Tail(cli.box)
           runs == GivenMore(x)
           d    == [cli EXCEPT !.turn = t, !.turns = n, !.box = box, !.runs = runs]
<1>1. cli.turn = None /\ cli.box # <<>> /\ ~cli.compacting
      /\ Write(<<[kind |-> "prompt", text |-> x]>>) /\ frames' = frames
  BY DEF StartTurn, Ready
<1>2. LET c == [cli EXCEPT !.turn = t, !.turns = n]
      IN  cli' = [c EXCEPT !.box = Tail(c.box), !.runs = [y \in Texts |-> c.runs[y] + (IF y = x THEN 1 ELSE 0)]]
  BY DEF StartTurn, TakeInput
<1> DEFINE c == [cli EXCEPT !.turn = t, !.turns = n]
<1>3. c.box = cli.box /\ c.runs = cli.runs
  <2> HIDE DEF t, n
  <2> QED
    BY Zenon DEF CliStates
<1>4. cli' = [c EXCEPT !.box = box, !.runs = runs]
  <2> HIDE DEF c
  <2> QED
    BY <1>2, <1>3 DEF GivenMore, c
<1> HIDE DEF t, n, box, runs
<1>5. /\ cli'.gen = cli.gen /\ cli'.up = cli.up /\ cli'.booting = cli.booting
      /\ cli'.compacting = cli.compacting /\ cli'.compactions = cli.compactions
  BY <1>4, Zenon DEF CliStates
<1>6. cli'.box = box /\ cli'.turn = t /\ cli'.turns = n /\ cli'.runs = runs
  BY <1>4, Zenon DEF CliStates
<1> QED
  BY <1>1, <1>5, <1>6 DEF SameProcess, SameCompaction, t, n, box, runs

LEMMA StartAmbientTurnEffect ==
  ASSUME cli \in CliStates, StartAmbientTurn
  PROVE  /\ cli.turn = None /\ ~cli.compacting /\ cli.ambient < MaxAmbient
         /\ SameProcess(cli, cli') /\ SameCompaction(cli, cli')
         /\ cli'.box = cli.box /\ cli'.turn = Turn(None) /\ cli'.turns = cli.turns + 1 /\ cli'.runs = cli.runs
         /\ Write(<<[kind |-> "prompt", text |-> None]>>) /\ frames' = frames
<1> DEFINE t == Turn(None)
           n == cli.turns + 1
           a == cli.ambient + 1
<1>1. /\ cli.turn = None /\ ~cli.compacting /\ cli.ambient < MaxAmbient
      /\ Write(<<[kind |-> "prompt", text |-> None]>>) /\ frames' = frames
      /\ cli' = [cli EXCEPT !.turn = t, !.turns = n, !.ambient = a]
  BY DEF StartAmbientTurn, Ready
<1> HIDE DEF t, n, a
<1>2. /\ cli'.gen = cli.gen /\ cli'.up = cli.up /\ cli'.booting = cli.booting
      /\ cli'.compacting = cli.compacting /\ cli'.compactions = cli.compactions
  BY <1>1, Zenon DEF CliStates
<1>3. cli'.box = cli.box /\ cli'.turn = t /\ cli'.turns = n /\ cli'.runs = cli.runs
  BY <1>1, Zenon DEF CliStates
<1> QED
  BY <1>1, <1>2, <1>3 DEF SameProcess, SameCompaction, t, n

LEMMA AbsorbInputEffect ==
  ASSUME cli \in CliStates, AbsorbInput
  PROVE  LET x == Head(cli.box)
         IN  /\ cli.turn # None /\ cli.box # <<>> /\ ~cli.compacting /\ Absorbs
             /\ SameProcess(cli, cli') /\ SameCompaction(cli, cli')
             /\ cli'.box = Tail(cli.box) /\ cli'.turns = cli.turns
             /\ cli'.runs = GivenMore(x)
             /\ Write(<<[kind |-> "absorbed", text |-> x]>>) /\ frames' = frames
<1> DEFINE x     == Head(cli.box)
           about == cli.turn.about \cup About(x)
           owes  == cli.turn.owes \cup About(x)
           t     == [cli.turn EXCEPT !.about = about, !.owes = owes]
           box   == Tail(cli.box)
           runs  == GivenMore(x)
           c     == [cli EXCEPT !.turn = t]
           e     == [cli EXCEPT !.turn.about = about, !.turn.owes = owes]
<1>1. cli.turn # None /\ cli.box # <<>> /\ ~cli.compacting /\ Absorbs
      /\ Write(<<[kind |-> "absorbed", text |-> x]>>) /\ frames' = frames
  BY DEF AbsorbInput, Ready
<1>2. cli.turn \in Turns
  BY <1>1 DEF CliStates
<1>3. About(x) \in SUBSET Prompts
  BY AboutTyped
<1>4. about \in SUBSET Prompts /\ owes \in SUBSET Prompts
  BY <1>2, <1>3 DEF Turns
<1> HIDE DEF about, owes
<1>5. t \in Turns
  BY <1>2, <1>4, Zenon DEF Turns
<1>6. c = e
  BY <1>1, <1>2, Zenon DEF CliStates, Turns
<1>7. cli' = [e EXCEPT !.box = Tail(e.box), !.runs = [y \in Texts |-> e.runs[y] + (IF y = x THEN 1 ELSE 0)]]
  BY DEF AbsorbInput, TakeInput, about, owes
<1> HIDE DEF t
<1>8. c.box = cli.box /\ c.runs = cli.runs
  BY Zenon DEF CliStates
<1>9. cli' = [c EXCEPT !.box = box, !.runs = runs]
  <2> HIDE DEF c, e
  <2> QED
    BY <1>6, <1>7, <1>8 DEF GivenMore, c
<1> HIDE DEF box, runs
<1>10. /\ cli'.gen = cli.gen /\ cli'.up = cli.up /\ cli'.booting = cli.booting
       /\ cli'.compacting = cli.compacting /\ cli'.compactions = cli.compactions
  BY <1>9, Zenon DEF CliStates
<1>11. cli'.box = box /\ cli'.turn = t /\ cli'.turns = cli.turns /\ cli'.runs = runs
  BY <1>9, Zenon DEF CliStates
<1> QED
  BY <1>1, <1>10, <1>11 DEF SameProcess, SameCompaction, box, runs

LEMMA CallReplyEffect ==
  ASSUME cli \in CliStates, NEW online, CallReply(online)
  PROVE  \E p \in cli.turn.owes : \E named \in {None, Chat[p]} :
           /\ cli.turn # None /\ online
           /\ SameProcess(cli, cli') /\ SameCompaction(cli, cli')
           /\ cli'.box = cli.box /\ cli'.turn = [cli.turn EXCEPT !.owes = @ \ {p}]
           /\ cli'.turns = cli.turns /\ cli'.runs = cli.runs
           /\ lines' = lines
           /\ frames' = Append(frames, [kind |-> "reply", about |-> {p}, named |-> named])
<1>1. cli.turn # None /\ online /\ lines' = lines
  BY DEF CallReply
<1>2. PICK p \in cli.turn.owes :
        /\ cli' = [cli EXCEPT !.turn.owes = @ \ {p}]
        /\ \E named \in {None, Chat[p]} :
             frames' = Append(frames, [kind |-> "reply", about |-> {p}, named |-> named])
  BY DEF CallReply
<1> DEFINE t == [cli.turn EXCEPT !.owes = @ \ {p}]
<1>3. cli' = [cli EXCEPT !.turn = t]
  BY <1>2
<1> HIDE DEF t
<1>4. /\ cli'.gen = cli.gen /\ cli'.up = cli.up /\ cli'.booting = cli.booting
      /\ cli'.compacting = cli.compacting /\ cli'.compactions = cli.compactions
  BY <1>3, Zenon DEF CliStates
<1>5. cli'.box = cli.box /\ cli'.turn = t /\ cli'.turns = cli.turns /\ cli'.runs = cli.runs
  BY <1>3, Zenon DEF CliStates
<1> QED
  BY <1>1, <1>2, <1>4, <1>5 DEF SameProcess, SameCompaction, t

LEMMA EndTurnEffect ==
  ASSUME cli \in CliStates, EndTurn
  PROVE  /\ cli.turn # None /\ (~ReplyOvertaken => frames = <<>>)
         /\ SameProcess(cli, cli') /\ SameCompaction(cli, cli')
         /\ cli'.box = cli.box /\ cli'.turn = None /\ cli'.turns = cli.turns /\ cli'.runs = cli.runs
         /\ \E text \in {cli.turn.about, None} :
              Write(<<EndLine(text)>>) \/ Write(<<EndLine(None), EndLine(text)>>)
         /\ frames' = frames
<1> DEFINE about == cli.turn.about
<1>1. /\ cli.turn # None /\ (~ReplyOvertaken => frames = <<>>) /\ frames' = frames
      /\ \E text \in {about, None} : Write(<<EndLine(text)>>) \/ Write(<<EndLine(None), EndLine(text)>>)
      /\ cli' = [cli EXCEPT !.turn = None, !.prev = about]
  BY DEF EndTurn
<1> HIDE DEF about
<1>2. /\ cli'.gen = cli.gen /\ cli'.up = cli.up /\ cli'.booting = cli.booting
      /\ cli'.compacting = cli.compacting /\ cli'.compactions = cli.compactions
  BY <1>1, Zenon DEF CliStates
<1>3. cli'.box = cli.box /\ cli'.turn = None /\ cli'.turns = cli.turns /\ cli'.runs = cli.runs
  BY <1>1, Zenon DEF CliStates
<1> QED
  BY <1>1, <1>2, <1>3 DEF SameProcess, SameCompaction, about

LEMMA CompactionEffect ==
  ASSUME cli \in CliStates, StartCompaction \/ EndCompaction
  PROVE  /\ SameProcess(cli, cli') /\ frames' = frames
         /\ cli'.box = cli.box /\ cli'.turn = cli.turn /\ cli'.turns = cli.turns /\ cli'.runs = cli.runs
         /\ \/ /\ ~cli.compacting /\ cli.compactions < MaxCompactions
               /\ cli'.compacting /\ cli'.compactions = cli.compactions /\ lines' = lines
            \/ /\ cli.compacting /\ ~cli'.compacting /\ cli'.compactions = cli.compactions + 1
               /\ \/ Write(<<[kind |-> "compact", gen |-> cli.gen, nth |-> cli.compactions + 1]>>)
                  \/ lines' = lines
<1>1. CASE StartCompaction
  <2>1. /\ ~cli.compacting /\ cli.compactions < MaxCompactions
        /\ cli' = [cli EXCEPT !.compacting = TRUE] /\ lines' = lines /\ frames' = frames
    BY <1>1 DEF StartCompaction, Ready
  <2>2. /\ cli'.gen = cli.gen /\ cli'.up = cli.up /\ cli'.booting = cli.booting
        /\ cli'.compacting = TRUE /\ cli'.compactions = cli.compactions
    BY <2>1, Zenon DEF CliStates
  <2>3. cli'.box = cli.box /\ cli'.turn = cli.turn /\ cli'.turns = cli.turns /\ cli'.runs = cli.runs
    BY <2>1, Zenon DEF CliStates
  <2> QED
    BY <2>1, <2>2, <2>3 DEF SameProcess
<1>2. CASE EndCompaction
  <2> DEFINE n == cli.compactions + 1
  <2>1. /\ cli.compacting /\ cli' = [cli EXCEPT !.compacting = FALSE, !.compactions = n] /\ frames' = frames
        /\ \/ Write(<<[kind |-> "compact", gen |-> cli.gen, nth |-> n]>>)
           \/ lines' = lines
    BY <1>2 DEF EndCompaction
  <2> HIDE DEF n
  <2>2. /\ cli'.gen = cli.gen /\ cli'.up = cli.up /\ cli'.booting = cli.booting
        /\ cli'.compacting = FALSE /\ cli'.compactions = n
    BY <2>1, Zenon DEF CliStates
  <2>3. cli'.box = cli.box /\ cli'.turn = cli.turn /\ cli'.turns = cli.turns /\ cli'.runs = cli.runs
    BY <2>1, Zenon DEF CliStates
  <2> QED
    BY <2>1, <2>2, <2>3 DEF SameProcess, n
<1> QED
  BY <1>1, <1>2

--------------------------------------------------------------------------------
(* Runs in which nothing cuts a turn short *)

\* One process, whose socket stays open; no `cancel`, no turn silent until its
\* deadline, no reminder.
Uncut == MaxGen = 1 /\ MaxCancels = 0 /\ MaxDeadlines = 0 /\ MaxDrops = 0 /\ ~NudgeEnabled

\* The bus is steady, and so are the process, the socket and what is under way.
Serene ==
  /\ Steady(bus) /\ typed[Nudge] = 0 /\ connected
  /\ cli.up /\ ~cli.booting
  /\ \A i \in DOMAIN lines[1] : lines[1][i].kind \in {"prompt", "absorbed", "end", "compact"}
  /\ \A i \in DOMAIN frames : frames[i].kind = "reply"
  /\ \A i \in DOMAIN cli.box : cli.box[i] \in Prompts

\* The bus takes a turn for running until it reads the turn's end, and the CLI
\* absorbs into running turns only.
Bracketed ==
  /\ Bracket(bus.streaming, lines[1])
  /\ cli.turn # None => OpenBefore(bus.streaming, lines[1], Len(lines[1]) + 1)

\* The invariant of an uncut bus, with the invariant and the ledger of any bus.
Smooth == IInv /\ PlacesKept /\ Serene /\ Bracketed

LEMMA SmoothParts ==
  ASSUME Uncut, Smooth
  PROVE  /\ bus \in BusStates /\ Gate(bus) /\ Admissible(bus) /\ Steady(bus)
         /\ OwnLanes(bus.queue) /\ Queued(bus.queue) \in SUBSET Prompts
         /\ \A p \in Prompts : Place(bus, p, 0) /\ (p \notin sent => p \notin Queued(bus.queue))
         /\ connected = TRUE /\ cli \in CliStates /\ cli.gen = 1 /\ CliTypeOK
         /\ lines \in [1 .. 1 -> Seq(Lines)] /\ lines[1] \in Seq(Lines) /\ frames \in Seq(Frames)
         /\ cli.box \in Seq(Inputs)
<1>1. bus \in BusStates /\ Gate(bus) /\ HistoryOK /\ CliTypeOK
  BY IInvParts DEF Smooth
<1>2. Admissible(bus) /\ Steady(bus) /\ connected = TRUE
  BY <1>1 DEF Gate, Parts, Smooth, Serene, HistoryOK
<1>3. bus.queue \in Queues
  BY <1>1, Zenon DEF BusStates
<1>4. Queued(bus.queue) \in SUBSET Prompts
  BY <1>3 DEF Queues, Queued, ToSet
<1>5. OwnLanes(bus.queue)
  <2>1. CASE Prompts = {}
    <3>1. \A c \in Chats : bus.queue.lanes[c] = <<>>
      BY <1>3, <2>1 DEF Queues
    <3> QED
      BY <3>1 DEF OwnLanes, Distinct, ToSet
  <2>2. CASE Prompts # {}
    BY <2>2 DEF Smooth, PlacesKept, Accounts, Lanes
  <2> QED
    BY <2>1, <2>2
<1>6. \A p \in Prompts : Place(bus, p, 0) /\ (p \notin sent => p \notin Queued(bus.queue))
  BY DEF Smooth, PlacesKept, Accounts, Account, Ledger, Lanes
<1>7. cli \in CliStates /\ lines \in [1 .. 1 -> Seq(Lines)] /\ frames \in Seq(Frames)
  BY <1>1 DEF CliTypeOK, Uncut
<1>8. cli.gen \in 1 .. 1 /\ cli.box \in Seq(Inputs)
  BY <1>7 DEF CliStates, Uncut
<1> QED
  BY <1>1, <1>2, <1>4, <1>5, <1>6, <1>7, <1>8

\* What can happen: no process starts or stops, and the socket is quiet.
LEMMA SmoothSteps ==
  ASSUME Uncut, Smooth, Next
  PROVE  \/ \E p \in Prompts : Send(p)
         \/ \E i \in DOMAIN bus.deliveries : PtyType(i) \/ PtySettle(i)
         \/ TailLine(1)
         \/ ReadFrame
         \/ SettleTimer
         \/ \E x \in Texts : VerifyFires(x) \/ HoldDeadline(x)
         \/ FallbackFires
         \/ /\ \/ StartTurn \/ StartAmbientTurn \/ AbsorbInput \/ CallReply(connected) \/ EndTurn
               \/ StartCompaction \/ EndCompaction
            /\ UNCHANGED coreVars
<1>1. cli.gen = 1 /\ connected = TRUE /\ cli \in CliStates
  BY SmoothParts
<1>2. cli.up /\ ~cli.booting /\ ~bus.init
  BY DEF Smooth, Serene, Steady, Calm
<1>3. \A g \in 1 .. MaxGen : g = 1 /\ ~StopTailer(g)
  BY <1>1, <1>2 DEF Uncut, StopTailer
<1>4. ~Drop /\ ~DeadlineTimer
  <2>1. drops \in Nat /\ expired \in Nat
    BY IInvParts DEF Smooth, HistoryOK
  <2> QED
    BY <2>1 DEF Uncut, Drop, DeadlineTimer
<1>5. ~Hello /\ ~Kill /\ ~Respawn /\ ~BackstopFires
  <2>1. ~Hello
    BY <1>1 DEF Hello
  <2>2. ~Kill
    BY <1>1 DEF Uncut, Kill
  <2>3. ~Respawn
    BY <1>2 DEF Respawn
  <2>4. ~BackstopFires
    BY <1>2 DEF BackstopFires
  <2> QED
    BY <2>1, <2>2, <2>3, <2>4
<1>6. ~CallCancel(connected) /\ ~FinishBoot
  <2>1. cli.cancels \in Nat
    BY <1>1, Zenon DEF CliStates
  <2> QED
    BY <1>2, <2>1 DEF Uncut, CallCancel, FinishBoot
<1>7. CliMoves =>
        /\ \/ StartTurn \/ StartAmbientTurn \/ AbsorbInput \/ CallReply(connected) \/ EndTurn
           \/ StartCompaction \/ EndCompaction
        /\ UNCHANGED coreVars
  BY <1>6 DEF CliMoves, CliStep
<1> QED
  BY <1>3, <1>4, <1>5, <1>7 DEF Next, PtyMoves

\* A step of the bus alone, in which it sees no turn begin or end.
LEMMA BusStepSerene ==
  ASSUME Smooth, Steady(bus'), bus'.streaming = bus.streaming, typed' = typed, connected' = connected,
         UNCHANGED cliVars
  PROVE  Serene' /\ Bracketed'
<1>1. cli' = cli /\ lines' = lines /\ frames' = frames
  BY DEF cliVars
<1> QED
  BY <1>1 DEF Smooth, Serene, Bracketed

\* A step of the CLI that writes lines.
LEMMA WriteSerene ==
  ASSUME Uncut, Smooth, NEW ls \in Seq(Lines), Write(ls),
         \A i \in DOMAIN ls : ls[i].kind \in {"prompt", "absorbed", "end", "compact"}
  PROVE  /\ lines'[1] = lines[1] \o ls
         /\ \A i \in DOMAIN lines'[1] : lines'[1][i].kind \in {"prompt", "absorbed", "end", "compact"}
<1>1. lines \in [1 .. 1 -> Seq(Lines)] /\ lines[1] \in Seq(Lines) /\ cli.gen = 1
  BY SmoothParts
<1>2. lines'[1] = lines[1] \o ls
  BY <1>1 DEF Write
<1>3. \A i \in DOMAIN lines[1] : lines[1][i].kind \in {"prompt", "absorbed", "end", "compact"}
  BY DEF Smooth, Serene
<1> DEFINE s == lines[1]
<1> HIDE DEF s
<1>4. s \in Seq(Lines) /\ \A i \in DOMAIN s : s[i].kind \in {"prompt", "absorbed", "end", "compact"}
  BY <1>1, <1>3 DEF s
<1>5. \A i \in DOMAIN (s \o ls) : (s \o ls)[i].kind \in {"prompt", "absorbed", "end", "compact"}
  <2> TAKE i \in DOMAIN (s \o ls)
  <2>1. i \in DOMAIN s \/ i - Len(s) \in DOMAIN ls
    BY <1>4
  <2> QED
    BY <1>4, <2>1
<1> QED
  BY <1>2, <1>5 DEF s

LEMMA SendSerene ==
  ASSUME Uncut, Smooth, NEW p \in Prompts, Send(p)
  PROVE  /\ Steady(bus') /\ UNCHANGED <<connected, typed, finals, cliVars>>
         /\ IF MustQueue(bus) /\ Refuses(bus.queue, p) THEN bus' = bus /\ sent' = sent
            ELSE Serves(bus, bus', Queued(bus.queue) \cup {p}) /\ sent' = sent \cup {p}
         /\ p \notin sent /\ Serene' /\ Bracketed'
<1>1. p \notin Queued(bus.queue) /\ p \notin sent
  BY SmoothParts DEF Send
<1>2. bus' = SendPrompt(bus, p, TRUE)
  BY SmoothParts DEF Send
<1>3. UNCHANGED <<connected, typed, finals, cliVars>>
  BY DEF Send
<1>4. Steady(bus')
      /\ IF MustQueue(bus) /\ Refuses(bus.queue, p) THEN bus' = bus
         ELSE Serves(bus, bus', Queued(bus.queue) \cup {p})
  BY <1>1, <1>2, SmoothParts, SendPromptSteady
<1>5. bus'.streaming = bus.streaming
  BY <1>4 DEF Serves
<1>6. Serene' /\ Bracketed'
  BY <1>3, <1>4, <1>5, BusStepSerene
<1> QED
  BY <1>1, <1>3, <1>4, <1>6 DEF Send

LEMMA SettleTimerSerene ==
  ASSUME Uncut, Smooth, SettleTimer
  PROVE  /\ Serves(bus, bus', Queued(bus.queue)) /\ ~bus'.settle
         /\ Unlogged /\ UNCHANGED <<connected, cliVars>> /\ Steady(bus') /\ Serene' /\ Bracketed'
<1>1. bus' = Settled(bus, TRUE) /\ Unlogged /\ UNCHANGED <<connected, cliVars>>
  BY SmoothParts DEF SettleTimer
<1>2. Steady(bus') /\ Serves(bus, bus', Queued(bus.queue)) /\ ~bus'.settle
  BY <1>1, SmoothParts, SettledSteady
<1>3. bus'.streaming = bus.streaming
  BY <1>2 DEF Serves
<1> QED
  BY <1>1, <1>2, <1>3, BusStepSerene DEF Unlogged

LEMMA FallbackSerene ==
  ASSUME Uncut, Smooth, FallbackFires
  PROVE  /\ Apart(bus, bus') /\ Same(bus, bus') /\ bus'.queue = bus.queue
         /\ Unlogged /\ UNCHANGED <<connected, cliVars>> /\ Steady(bus') /\ Serene' /\ Bracketed'
<1>1. bus' = NudgeFallback(bus) /\ Unlogged /\ UNCHANGED <<connected, cliVars>>
  BY DEF FallbackFires
<1>2. Steady(bus') /\ Same(bus, bus') /\ bus'.queue = bus.queue /\ Apart(bus, bus')
  BY <1>1, SmoothParts, NudgeFallbackSteady
<1> QED
  BY <1>1, <1>2, BusStepSerene DEF Unlogged, Same

LEMMA VerifyFiresSerene ==
  ASSUME Uncut, Smooth, NEW x \in Texts, VerifyFires(x)
  PROVE  /\ x \in Prompts /\ Verifying(bus, x) /\ Same(bus, bus') /\ bus'.queue = bus.queue
         /\ \/ Moves(bus, bus', {}, {}, {}) /\ bus'.deliveries = bus.deliveries
            \/ ~bus.streaming /\ ~Verifying(bus', x) /\ Moves(bus, bus', {x}, {}, {})
         /\ Unlogged /\ UNCHANGED <<connected, cliVars>> /\ Steady(bus') /\ Serene' /\ Bracketed'
<1>1. bus' = VerifyTimer(bus, x) /\ Unlogged /\ UNCHANGED <<connected, cliVars>> /\ Verifying(bus, x)
  BY DEF VerifyFires, Verifying
<1>2. bus \in BusStates /\ Steady(bus)
  BY SmoothParts
<1>3. /\ Steady(bus') /\ Same(bus, bus') /\ bus'.queue = bus.queue /\ x \in Prompts
      /\ \/ Moves(bus, bus', {}, {}, {}) /\ bus'.deliveries = bus.deliveries
         \/ ~bus.streaming /\ ~Verifying(bus', x) /\ Moves(bus, bus', {x}, {}, {})
  BY <1>1, <1>2, VerifyTimerSteady DEF Verifying
<1> QED
  BY <1>1, <1>3, BusStepSerene DEF Unlogged, Same

LEMMA HoldDeadlineSerene ==
  ASSUME Uncut, Smooth, NEW x \in Texts, HoldDeadline(x)
  PROVE  /\ x \in Prompts /\ bus.hold[x] # None /\ Same(bus, bus') /\ bus'.queue = bus.queue
         /\ Moves(bus, bus', {}, {x}, {})
         /\ Unlogged /\ UNCHANGED <<connected, cliVars>> /\ Steady(bus') /\ Serene' /\ Bracketed'
<1>1. bus' = ReleaseHold(bus, {x}) /\ Unlogged /\ UNCHANGED <<connected, cliVars>> /\ bus.hold[x] # None
  BY DEF HoldDeadline
<1>2. bus \in BusStates /\ Steady(bus) /\ {x} \in SUBSET HeldTexts(bus)
  BY <1>1, SmoothParts DEF HeldTexts
<1>3. /\ Steady(bus') /\ Same(bus, bus') /\ bus'.queue = bus.queue /\ {x} \in SUBSET Prompts
      /\ Moves(bus, bus', {}, {x}, {})
  BY <1>1, <1>2, ReleaseHoldSteady
<1> QED
  BY <1>1, <1>3, BusStepSerene DEF Unlogged, Same

LEMMA PtyTypeSerene ==
  ASSUME Uncut, Smooth, NEW i \in DOMAIN bus.deliveries, PtyType(i)
  PROVE  LET x == bus.deliveries[i].text
         IN  /\ x \in Prompts /\ ~bus.deliveries[i].typed
             /\ Same(bus, bus') /\ bus'.queue = bus.queue /\ Types(bus, bus', i)
             /\ \/ cli' = [cli EXCEPT !.box = Append(@, x)]
                \/ cli' = cli
             /\ UNCHANGED <<connected, sent, finals, lines, frames>>
             /\ Steady(bus') /\ Serene' /\ Bracketed'
<1> DEFINE x == bus.deliveries[i].text
<1>1. bus \in BusStates /\ Steady(bus) /\ cli \in CliStates /\ cli.box \in Seq(Inputs)
  BY SmoothParts
<1>2. x \in Prompts /\ ~bus.deliveries[i].typed
  BY <1>1 DEF Steady, PtyType
<1>3. bus' = [bus EXCEPT !.deliveries[i].typed = TRUE] /\ UNCHANGED <<connected, sent, finals, lines, frames>>
  BY DEF PtyType
<1>4. cli' = [cli EXCEPT !.box = Append(@, x)] \/ cli' = cli
  BY DEF PtyType
<1>5. Steady(bus') /\ Same(bus, bus') /\ bus'.queue = bus.queue /\ Types(bus, bus', i)
  BY <1>1, <1>3, KeystrokeSteady
<1>6. typed'[Nudge] = 0
  <2>1. typed' = [typed EXCEPT ![x] = @ + 1]
    BY DEF PtyType
  <2>2. x # Nudge /\ typed[Nudge] = 0 /\ typed \in [Texts -> Nat] /\ Nudge \in Texts
    BY <1>2, IInvParts, BusAssumption DEF Smooth, Serene, HistoryOK, Texts
  <2> QED
    BY <2>1, <2>2
<1>7. /\ cli'.up = cli.up /\ cli'.booting = cli.booting /\ cli'.turn = cli.turn
      /\ cli'.box \in {cli.box, Append(cli.box, x)}
  <2> DEFINE box == Append(cli.box, x)
  <2>1. CASE cli' = cli
    BY <2>1
  <2>2. CASE cli' = [cli EXCEPT !.box = box]
    <3> HIDE DEF box
    <3>1. /\ cli'.up = cli.up /\ cli'.booting = cli.booting /\ cli'.turn = cli.turn /\ cli'.box = box
      BY <1>1, <2>2, Zenon DEF CliStates
    <3> QED
      BY <3>1 DEF box
  <2> QED
    BY <1>4, <2>1, <2>2
<1>8. \A j \in DOMAIN cli'.box : cli'.box[j] \in Prompts
  <2> DEFINE s == cli.box
             y == x
  <2>1. s \in Seq(Inputs) /\ y \in Prompts /\ \A j \in DOMAIN s : s[j] \in Prompts
    BY <1>1, <1>2 DEF Smooth, Serene
  <2>2. cli'.box \in {s, Append(s, y)}
    BY <1>7
  <2> HIDE DEF s, y
  <2> QED
    BY <2>1, <2>2
<1>9. Serene'
  BY <1>3, <1>5, <1>6, <1>7, <1>8 DEF Smooth, Serene
<1>10. Bracketed'
  BY <1>3, <1>5, <1>7 DEF Smooth, Bracketed, Same
<1> QED
  BY <1>2, <1>3, <1>4, <1>5, <1>9, <1>10

LEMMA WithoutTexts ==
  ASSUME NEW S, NEW s \in Seq(S), NEW x, NEW P, \A i \in DOMAIN s : s[i] \in P
  PROVE  \A i \in DOMAIN Without(s, x) : Without(s, x)[i] \in P
<1> DEFINE u == Without(s, x)
<1>1. \A y : Contains(u, y) => Contains(s, y)
  BY WithoutEffect
<1> HIDE DEF u
<1> SUFFICES ASSUME NEW i \in DOMAIN u, DOMAIN u = 1 .. Len(u) PROVE u[i] \in P
  <2>1. u \in Seq(S)
    BY WithoutTyped DEF u
  <2> QED
    BY <2>1 DEF u
<1>2. Contains(u, u[i])
  BY DEF Contains
<1>3. Contains(s, u[i])
  BY <1>1, <1>2
<1> QED
  BY <1>3 DEF Contains

\* What a settled delivery does to the CLI.
ClearsBox(i, outcome) ==
  \/ outcome \in {"gave-up", "stuck-compaction"} /\ Cleared(i)
  \/ (outcome = "gave-up" => cli.turn # None) /\ cli' = cli

LEMMA PtySettleSerene ==
  ASSUME Uncut, Smooth, NEW i \in DOMAIN bus.deliveries, PtySettle(i)
  PROVE  LET x == bus.deliveries[i].text
         IN  /\ \E outcome \in Verdicts :
                  /\ MayReport(i, outcome) /\ ClearsBox(i, outcome)
                  /\ Moves(bus, bus', {}, VerdictArms(bus, i, outcome), VerdictHolds(bus, i, outcome))
             /\ Others(bus, bus', i)
             /\ x \in Prompts /\ Same(bus, bus') /\ bus'.queue = bus.queue
             /\ UNCHANGED <<connected, sent, typed, finals, lines, frames>>
             /\ cli'.turn = cli.turn /\ Steady(bus') /\ Serene' /\ Bracketed'
<1> DEFINE x == bus.deliveries[i].text
<1>1. bus \in BusStates /\ Steady(bus) /\ cli \in CliStates /\ cli.box \in Seq(Inputs) /\ cli.gen = 1
  BY SmoothParts
<1>2. x \in Prompts /\ bus.liveGen = 1
  BY <1>1 DEF Steady, Calm
<1>3. PICK outcome \in Verdicts :
        /\ MayReport(i, outcome) /\ ClearsBox(i, outcome)
        /\ bus' = Verdict(bus, i, outcome, cli.compactions)
  BY DEF PtySettle, ClearsBox
<1>4. UNCHANGED <<connected, sent, typed, finals, lines, frames>>
  BY DEF PtySettle
<1>5. outcome = "stuck-compaction" => bus.liveGen <= bus.deliveries[i].gen
  BY <1>1, <1>2, <1>3 DEF MayReport
<1>6. cli.compactions \in Nat
  BY <1>1, Zenon DEF CliStates
<1>7. /\ Steady(bus') /\ Same(bus, bus') /\ bus'.queue = bus.queue /\ Others(bus, bus', i)
      /\ Moves(bus, bus', {}, VerdictArms(bus, i, outcome), VerdictHolds(bus, i, outcome))
  <2> DEFINE since == cli.compactions
             d     == Verdict(bus, i, outcome, since)
  <2>1. since \in Nat /\ bus' = d
    BY <1>3, <1>6
  <2>2. bus \in BusStates /\ Steady(bus)
    BY <1>1
  <2> HIDE DEF since
  <2>3. /\ Steady(d) /\ Same(bus, d) /\ d.queue = bus.queue /\ Others(bus, d, i)
        /\ Moves(bus, d, {}, VerdictArms(bus, i, outcome), VerdictHolds(bus, i, outcome))
    BY <1>5, <2>1, <2>2, VerdictSteady, Zenon
  <2> HIDE DEF d
  <2> QED
    BY <2>1, <2>3
<1>8. /\ cli'.up = cli.up /\ cli'.booting = cli.booting /\ cli'.turn = cli.turn
      /\ cli'.box \in {cli.box, Without(cli.box, x)}
  <2> DEFINE box == Without(cli.box, x)
  <2>1. CASE cli' = cli
    BY <2>1
  <2>2. CASE cli' = [cli EXCEPT !.box = box]
    <3> HIDE DEF box
    <3>1. cli'.up = cli.up /\ cli'.booting = cli.booting /\ cli'.turn = cli.turn /\ cli'.box = box
      BY <1>1, <2>2, Zenon DEF CliStates
    <3> QED
      BY <3>1 DEF box
  <2> QED
    BY <1>3, <2>1, <2>2 DEF ClearsBox, Cleared
<1>9. \A j \in DOMAIN cli'.box : cli'.box[j] \in Prompts
  <2>1. \A j \in DOMAIN cli.box : cli.box[j] \in Prompts
    BY DEF Smooth, Serene
  <2> DEFINE s == cli.box
             u == Without(s, x)
  <2>2. \A j \in DOMAIN u : u[j] \in Prompts
    BY <1>1, <2>1, WithoutTexts
  <2>3. cli'.box \in {s, u}
    BY <1>8
  <2>4. \A j \in DOMAIN s : s[j] \in Prompts
    BY <2>1
  <2> HIDE DEF s, u
  <2> QED
    BY <2>2, <2>3, <2>4
<1>10. Serene'
  BY <1>4, <1>7, <1>8, <1>9 DEF Smooth, Serene
<1>11. Bracketed'
  BY <1>4, <1>7, <1>8 DEF Smooth, Bracketed, Same
<1> QED
  BY <1>2, <1>3, <1>4, <1>7, <1>8, <1>10, <1>11

\* What the bus makes of its next line.
LEMMA TailEffect ==
  ASSUME Uncut, Smooth, TailLine(1)
  PROVE  LET l == Head(lines[1])
         IN  /\ lines[1] # <<>> /\ l \in Lines /\ l = lines[1][1] /\ lines'[1] = Tail(lines[1])
             /\ UNCHANGED <<connected, sent, typed, frames, cli>>
             /\ l.kind \in {"prompt", "absorbed", "end", "compact"}
             /\ l.kind = "prompt" => bus' = PromptLine(bus, l.text)
             /\ l.kind = "absorbed" => bus' = AbsorbedLine(bus, l.text)
             /\ l.kind = "end" => bus' = TurnEnd(bus, l.id, l.text, l.inject, TRUE)
             /\ l.kind = "compact" => \E tolerant \in BOOLEAN : bus' = CompactLine(bus, l.gen, l.nth, tolerant)
             /\ Log(IF l.kind = "end" THEN TurnEndFinal(bus, l.id, l.text, l.inject) ELSE None)
<1> DEFINE l == Head(lines[1])
<1>1. lines \in [1 .. 1 -> Seq(Lines)] /\ lines[1] \in Seq(Lines) /\ connected = TRUE
  BY SmoothParts
<1>2. lines[1] # <<>> /\ UNCHANGED <<connected, sent, typed, frames>>
      /\ Log(IF l.kind = "end" THEN TurnEndFinal(bus, l.id, l.text, l.inject) ELSE None)
  BY DEF TailLine
<1>3. lines'[1] = Tail(lines[1])
  BY <1>1 DEF TailLine
<1>4. l \in Lines /\ l = lines[1][1] /\ 1 \in DOMAIN lines[1]
  <2> DEFINE s == lines[1]
  <2>1. s \in Seq(Lines) /\ s # <<>>
    BY <1>1, <1>2
  <2> HIDE DEF s
  <2>2. Head(s) \in Lines /\ Head(s) = s[1] /\ 1 \in DOMAIN s
    BY <2>1
  <2> QED
    BY <2>2 DEF s
<1>5. l.kind \in {"prompt", "absorbed", "end", "compact"}
  BY <1>4 DEF Smooth, Serene
<1>6. cli' = cli
  <2>1. NetVerdict(bus, l.text, l.inject) # "nudge"
    BY DEF NetVerdict, Uncut
  <2> QED
    BY <2>1 DEF TailLine
<1>7. CASE l.kind = "prompt"
  BY <1>1, <1>2, <1>3, <1>4, <1>6, <1>7 DEF TailLine
<1>8. CASE l.kind = "absorbed"
  BY <1>1, <1>2, <1>3, <1>4, <1>6, <1>8 DEF TailLine
<1>9. CASE l.kind = "end"
  BY <1>1, <1>2, <1>3, <1>4, <1>6, <1>9 DEF TailLine
<1>10. CASE l.kind = "compact"
  BY <1>1, <1>2, <1>3, <1>4, <1>6, <1>10 DEF TailLine
<1> QED
  BY <1>5, <1>7, <1>8, <1>9, <1>10

LEMMA TailSerene ==
  ASSUME Uncut, Smooth, TailLine(1)
  PROVE  Steady(bus') /\ Serene' /\ Bracketed'
<1> DEFINE l == Head(lines[1])
<1>1. /\ lines[1] # <<>> /\ l \in Lines /\ lines'[1] = Tail(lines[1])
      /\ UNCHANGED <<connected, sent, typed, frames, cli>>
      /\ l.kind \in {"prompt", "absorbed", "end", "compact"}
      /\ l.kind = "prompt" => bus' = PromptLine(bus, l.text)
      /\ l.kind = "absorbed" => bus' = AbsorbedLine(bus, l.text)
      /\ l.kind = "end" => bus' = TurnEnd(bus, l.id, l.text, l.inject, TRUE)
      /\ l.kind = "compact" => \E tolerant \in BOOLEAN : bus' = CompactLine(bus, l.gen, l.nth, tolerant)
  BY TailEffect
<1>2. bus \in BusStates /\ Steady(bus) /\ Gate(bus) /\ lines[1] \in Seq(Lines)
  BY SmoothParts
<1>3. l.kind = "end" => l.id \in Nat /\ l.text \in Says
  BY <1>1, LineFields
<1>4. /\ Steady(bus')
      /\ l.kind = "prompt" => bus'.streaming
      /\ l.kind \notin {"prompt", "end"} => (bus.streaming => bus'.streaming)
  <2> HIDE DEF l
  <2>1. CASE l.kind = "prompt"
    <3> DEFINE d == PromptLine(bus, l.text)
    <3>1. Steady(d) /\ d.streaming
      BY <1>2, PromptLineSteady
    <3> HIDE DEF d
    <3>2. bus' = d
      BY <1>1, <2>1 DEF d
    <3> QED
      BY <2>1, <3>1, <3>2
  <2>2. CASE l.kind = "absorbed"
    BY <1>1, <1>2, <2>2, AbsorbedLineSteady
  <2>3. CASE l.kind = "end"
    <3> DEFINE d == TurnEnd(bus, l.id, l.text, l.inject, TRUE)
    <3>1. Steady(d)
      BY <1>2, <1>3, <2>3, TurnEndSteady, Zenon DEF Uncut
    <3> HIDE DEF d
    <3>2. bus' = d
      BY <1>1, <2>3 DEF d
    <3> QED
      BY <2>3, <3>1, <3>2
  <2>4. CASE l.kind = "compact"
    <3>1. PICK tolerant \in BOOLEAN : bus' = CompactLine(bus, l.gen, l.nth, tolerant)
      BY <1>1, <2>4
    <3>2. Steady(bus') /\ Same(bus, bus')
      BY <1>2, <3>1, CompactLineSteady
    <3> QED
      BY <2>4, <3>2 DEF Same
  <2> QED
    BY <1>1, <2>1, <2>2, <2>3, <2>4
<1> DEFINE s == lines[1]
           a == bus.streaming
           t == bus'.streaming
           u == lines'[1]
<1>5. s \in Seq(Lines) /\ s # <<>> /\ u = Tail(s)
      /\ (Head(s).kind = "prompt" => t) /\ (Head(s).kind \notin {"prompt", "end"} => (a => t))
  BY <1>1, <1>2, <1>4
<1>6. Bracket(a, s) /\ (cli.turn # None => OpenBefore(a, s, Len(s) + 1))
  BY DEF Smooth, Bracketed
<1>7. \A i \in DOMAIN s : s[i].kind \in {"prompt", "absorbed", "end", "compact"}
  BY DEF Smooth, Serene
<1>8. Bracket(t, u) /\ (cli.turn # None => OpenBefore(t, u, Len(u) + 1))
  <2> HIDE DEF s, a, t, u, l
  <2>1. Bracket(t, u)
    BY <1>5, <1>6, BracketTail
  <2>2. Len(s) \in 1 .. Len(s) /\ Len(u) + 1 = Len(s)
    BY <1>5
  <2>3. OpenBefore(a, s, Len(s) + 1) => OpenBefore(t, u, Len(s))
    BY <1>5, <2>2, OpenTail
  <2> QED
    BY <1>6, <2>1, <2>2, <2>3
<1>9. \A i \in DOMAIN u : u[i].kind \in {"prompt", "absorbed", "end", "compact"}
  <2> HIDE DEF s, u
  <2>1. \A i \in DOMAIN u : i + 1 \in DOMAIN s /\ u[i] = s[i + 1]
    BY <1>5
  <2> QED
    BY <1>7, <2>1
<1>10. Bracketed'
  BY <1>1, <1>8 DEF Bracketed
<1>11. Serene'
  BY <1>1, <1>4, <1>9 DEF Smooth, Serene
<1> QED
  BY <1>4, <1>10, <1>11

LEMMA ReadFrameSerene ==
  ASSUME Uncut, Smooth, ReadFrame
  PROVE  LET f == Head(frames)
         IN  /\ frames # <<>> /\ frames' = Tail(frames) /\ f = frames[1]
             /\ bus' = IngestReply(bus, f.named, "reply")
             /\ Log(IF Duplicate(bus, f.named, "reply")
                      THEN None ELSE Final(f.about, Effective(bus, f.named, "reply"), "reply"))
             /\ Apart(bus, bus') /\ bus'.queue = bus.queue
             /\ bus'.op = bus.op /\ bus'.streaming = bus.streaming /\ bus'.settle = bus.settle
             /\ bus'.lastEnd = bus.lastEnd
             /\ UNCHANGED <<connected, sent, typed, cli, lines>>
             /\ Steady(bus') /\ Serene' /\ Bracketed'
<1> DEFINE f == Head(frames)
           s == frames
<1>1. bus \in BusStates /\ Steady(bus) /\ s \in Seq(Frames)
  BY SmoothParts
<1>2. s # <<>> /\ frames' = Tail(s) /\ UNCHANGED <<connected, sent, typed, cli, lines>>
  BY DEF ReadFrame
<1>3. \A i \in DOMAIN s : s[i].kind = "reply"
  BY DEF Smooth, Serene
<1>4. f.kind = "reply" /\ f = s[1] /\ \A i \in DOMAIN Tail(s) : Tail(s)[i].kind = "reply"
  <2>1. f = Head(s)
    OBVIOUS
  <2> HIDE DEF s, f
  <2> QED
    BY <1>1, <1>2, <1>3, <2>1
<1>5. bus' = IngestReply(bus, f.named, "reply")
      /\ Log(IF Duplicate(bus, f.named, "reply")
               THEN None ELSE Final(f.about, Effective(bus, f.named, "reply"), "reply"))
  BY <1>4 DEF ReadFrame
<1>6. /\ Steady(bus') /\ Apart(bus, bus') /\ bus'.queue = bus.queue
      /\ bus'.op = bus.op /\ bus'.streaming = bus.streaming /\ bus'.settle = bus.settle
      /\ bus'.lastEnd = bus.lastEnd
  BY <1>1, <1>5, IngestReplySteady
<1>7. Serene'
  BY <1>2, <1>4, <1>6 DEF Smooth, Serene
<1>8. Bracketed'
  BY <1>2, <1>6 DEF Smooth, Bracketed
<1> QED
  BY <1>2, <1>4, <1>5, <1>6, <1>7, <1>8

\* A step of the CLI changes nothing of the bus.
CoreStays == UNCHANGED coreVars

LEMMA CliSerene ==
  ASSUME Uncut, Smooth, CoreStays, SameProcess(cli, cli'),
         \A i \in DOMAIN lines'[1] : lines'[1][i].kind \in {"prompt", "absorbed", "end", "compact"},
         \A i \in DOMAIN frames' : frames'[i].kind = "reply",
         \A i \in DOMAIN cli'.box : cli'.box[i] \in Prompts
  PROVE  Serene'
BY DEF Smooth, Serene, CoreStays, coreVars, SameProcess

LEMMA TailBox ==
  ASSUME Uncut, Smooth, cli.box # <<>>
  PROVE  /\ Head(cli.box) \in Prompts /\ Head(cli.box) \in Inputs
         /\ \A i \in DOMAIN Tail(cli.box) : Tail(cli.box)[i] \in Prompts
<1> DEFINE s == cli.box
<1>1. s \in Seq(Inputs) /\ s # <<>> /\ \A i \in DOMAIN s : s[i] \in Prompts
  BY SmoothParts DEF Smooth, Serene
<1> HIDE DEF s
<1>2. Head(s) \in Prompts /\ Head(s) \in Inputs /\ \A i \in DOMAIN Tail(s) : Tail(s)[i] \in Prompts
  BY <1>1
<1> QED
  BY <1>2 DEF s

LEMMA NothingRead ==
  ASSUME Uncut, Smooth
  PROVE  /\ \A i \in DOMAIN lines[1] : lines[1][i].kind \in {"prompt", "absorbed", "end", "compact"}
         /\ \A i \in DOMAIN frames : frames[i].kind = "reply"
         /\ \A i \in DOMAIN cli.box : cli.box[i] \in Prompts
         /\ Bracket(bus.streaming, lines[1])
         /\ cli.turn # None => OpenBefore(bus.streaming, lines[1], Len(lines[1]) + 1)
BY DEF Smooth, Serene, Bracketed

LEMMA OneLine ==
  ASSUME NEW l \in Lines, l.kind \in {"prompt", "absorbed", "end", "compact"}
  PROVE  /\ <<l>> \in Seq(Lines)
         /\ \A i \in DOMAIN <<l>> : <<l>>[i].kind \in {"prompt", "absorbed", "end", "compact"}
         /\ (l.kind # "absorbed" => \A i \in DOMAIN <<l>> : <<l>>[i].kind # "absorbed")
OBVIOUS

\* A prompt's line opens a turn, a turn's text and a compaction end none.
LEMMA LineBracketed ==
  ASSUME Uncut, Smooth, CoreStays, NEW l \in Lines, l.kind \in {"prompt", "absorbed", "compact"}, Write(<<l>>),
         l.kind = "absorbed" => cli.turn # None,
         cli'.turn # None => l.kind = "prompt" \/ cli.turn # None
  PROVE  Bracketed' /\ \A i \in DOMAIN lines'[1] : lines'[1][i].kind \in {"prompt", "absorbed", "end", "compact"}
<1> DEFINE s == lines[1]
           a == bus.streaming
           u == lines'[1]
<1>1. s \in Seq(Lines) /\ bus' = bus
  BY SmoothParts DEF CoreStays, coreVars
<1>2. u = s \o <<l>> /\ \A i \in DOMAIN u : u[i].kind \in {"prompt", "absorbed", "end", "compact"}
  BY OneLine, WriteSerene
<1>3. Bracket(a, s) /\ (cli.turn # None => OpenBefore(a, s, Len(s) + 1))
  BY NothingRead
<1>4. <<l>> \in Seq(Lines) /\ (l.kind # "absorbed" => \A i \in DOMAIN <<l>> : <<l>>[i].kind # "absorbed")
  BY OneLine
<1>5. Bracket(a, u) /\ (cli'.turn # None => OpenBefore(a, u, Len(u) + 1))
  <2> HIDE DEF s, a, u
  <2>1. CASE l.kind = "absorbed"
    <3>1. OpenBefore(a, s, Len(s) + 1)
      BY <1>3, <2>1
    <3> QED
      BY <1>1, <1>2, <1>3, <2>1, <3>1, BracketAbsorbed, OpenStays
  <2>2. CASE l.kind # "absorbed"
    <3>1. Bracket(a, u)
      BY <1>1, <1>2, <1>3, <1>4, <2>2, BracketMore
    <3>2. l.kind = "prompt" \/ OpenBefore(a, s, Len(s) + 1) => OpenBefore(a, u, Len(s) + 2)
      BY <1>1, <1>2, OpenStays
    <3>3. Len(u) + 1 = Len(s) + 2
      BY <1>1, <1>2
    <3> QED
      BY <1>3, <3>1, <3>2, <3>3
  <2> QED
    BY <2>1, <2>2
<1> QED
  BY <1>1, <1>2, <1>5 DEF Bracketed

LEMMA StartTurnSerene ==
  ASSUME Uncut, Smooth, CoreStays, StartTurn
  PROVE  Serene' /\ Bracketed'
<1> DEFINE x == Head(cli.box)
           l == [kind |-> "prompt", text |-> x]
<1>1. /\ cli.box # <<>> /\ SameProcess(cli, cli') /\ cli'.box = Tail(cli.box)
      /\ Write(<<l>>) /\ frames' = frames
  BY SmoothParts, StartTurnEffect
<1>2. x \in Inputs /\ \A i \in DOMAIN cli'.box : cli'.box[i] \in Prompts
  BY <1>1, TailBox
<1>3. l \in Lines /\ l.kind = "prompt"
  BY <1>2 DEF Lines
<1>4. Bracketed' /\ \A i \in DOMAIN lines'[1] : lines'[1][i].kind \in {"prompt", "absorbed", "end", "compact"}
  <2> HIDE DEF l
  <2> QED
    BY <1>1, <1>3, LineBracketed
<1> QED
  BY <1>1, <1>2, <1>4, NothingRead, CliSerene

LEMMA StartAmbientTurnSerene ==
  ASSUME Uncut, Smooth, CoreStays, StartAmbientTurn
  PROVE  Serene' /\ Bracketed'
<1> DEFINE l == [kind |-> "prompt", text |-> None]
<1>1. /\ SameProcess(cli, cli') /\ cli'.box = cli.box /\ Write(<<l>>) /\ frames' = frames
  BY SmoothParts, StartAmbientTurnEffect
<1>3. l \in Lines /\ l.kind = "prompt"
  BY DEF Lines
<1>4. Bracketed' /\ \A i \in DOMAIN lines'[1] : lines'[1][i].kind \in {"prompt", "absorbed", "end", "compact"}
  <2> HIDE DEF l
  <2> QED
    BY <1>1, <1>3, LineBracketed
<1> QED
  BY <1>1, <1>4, NothingRead, CliSerene

LEMMA AbsorbInputSerene ==
  ASSUME Uncut, Smooth, CoreStays, AbsorbInput
  PROVE  Serene' /\ Bracketed'
<1> DEFINE x == Head(cli.box)
           l == [kind |-> "absorbed", text |-> x]
<1>1. /\ cli.box # <<>> /\ cli.turn # None /\ SameProcess(cli, cli') /\ cli'.box = Tail(cli.box)
      /\ Write(<<l>>) /\ frames' = frames
  BY SmoothParts, AbsorbInputEffect
<1>2. x \in Inputs /\ \A i \in DOMAIN cli'.box : cli'.box[i] \in Prompts
  BY <1>1, TailBox
<1>3. l \in Lines /\ l.kind = "absorbed"
  BY <1>2 DEF Lines
<1>4. Bracketed' /\ \A i \in DOMAIN lines'[1] : lines'[1][i].kind \in {"prompt", "absorbed", "end", "compact"}
  <2> HIDE DEF l
  <2> QED
    BY <1>1, <1>3, LineBracketed
<1> QED
  BY <1>1, <1>2, <1>4, NothingRead, CliSerene

LEMMA CallReplySerene ==
  ASSUME Uncut, Smooth, CoreStays, CallReply(connected)
  PROVE  Serene' /\ Bracketed'
<1>1. /\ SameProcess(cli, cli') /\ cli'.box = cli.box /\ lines' = lines /\ cli.turn # None
      /\ \E f : f.kind = "reply" /\ frames' = Append(frames, f)
  <2>1. PICK p \in cli.turn.owes : \E named \in {None, Chat[p]} :
           /\ cli.turn # None /\ SameProcess(cli, cli') /\ cli'.box = cli.box /\ lines' = lines
           /\ frames' = Append(frames, [kind |-> "reply", about |-> {p}, named |-> named])
    BY SmoothParts, CallReplyEffect
  <2> QED
    BY <2>1
<1>2. \A i \in DOMAIN frames' : frames'[i].kind = "reply"
  BY <1>1, SmoothParts, NothingRead
<1>3. Bracketed'
  BY <1>1, NothingRead DEF Bracketed, CoreStays, coreVars
<1> QED
  BY <1>1, <1>2, <1>3, NothingRead, CliSerene

LEMMA EndTurnSerene ==
  ASSUME Uncut, Smooth, CoreStays, EndTurn
  PROVE  Serene' /\ Bracketed'
<1>1. PICK text \in {cli.turn.about, None} :
        /\ cli.turn # None /\ SameProcess(cli, cli') /\ cli'.box = cli.box /\ cli'.turn = None /\ frames' = frames
        /\ Write(<<EndLine(text)>>) \/ Write(<<EndLine(None), EndLine(text)>>)
  BY SmoothParts, EndTurnEffect
<1>2. cli.turn \in Turns
  BY <1>1, SmoothParts DEF CliStates
<1>3. EndLine(text) \in Lines /\ EndLine(None) \in Lines
  <2>1. text \in Says /\ None \in Says
    BY <1>2 DEF Turns, Says
  <2> QED
    BY <1>2, <2>1, EndLineTyped
<1>4. EndLine(text).kind = "end" /\ EndLine(None).kind = "end"
  BY DEF EndLine
<1>5. PICK ls \in Seq(Lines) : Write(ls) /\ \A i \in DOMAIN ls : ls[i].kind = "end"
  <2> DEFINE e == EndLine(text)
             f == EndLine(None)
  <2>1. e \in Lines /\ f \in Lines /\ e.kind = "end" /\ f.kind = "end"
    BY <1>3, <1>4
  <2>2. Write(<<e>>) \/ Write(<<f, e>>)
    BY <1>1
  <2> HIDE DEF e, f
  <2>3. <<e>> \in Seq(Lines) /\ \A i \in DOMAIN <<e>> : <<e>>[i].kind = "end"
    BY <2>1
  <2>4. <<f, e>> \in Seq(Lines) /\ \A i \in DOMAIN <<f, e>> : <<f, e>>[i].kind = "end"
    BY <2>1
  <2> QED
    BY <2>2, <2>3, <2>4
<1>6. /\ lines'[1] = lines[1] \o ls
      /\ \A i \in DOMAIN lines'[1] : lines'[1][i].kind \in {"prompt", "absorbed", "end", "compact"}
  BY <1>5, WriteSerene
<1>7. Bracket(bus'.streaming, lines'[1])
  <2>1. bus' = bus /\ lines[1] \in Seq(Lines) /\ Bracket(bus.streaming, lines[1])
    BY SmoothParts, NothingRead DEF CoreStays, coreVars
  <2>2. \A i \in DOMAIN ls : ls[i].kind # "absorbed"
    BY <1>5
  <2> DEFINE s == lines[1]
             a == bus.streaming
  <2>3. s \in Seq(Lines) /\ Bracket(a, s) /\ lines'[1] = s \o ls /\ bus'.streaming = a
    BY <1>6, <2>1
  <2> HIDE DEF s, a
  <2>4. Bracket(a, s \o ls)
    BY <2>2, <2>3, BracketMore
  <2> QED
    BY <2>3, <2>4
<1> QED
  BY <1>1, <1>6, <1>7, NothingRead, CliSerene DEF Bracketed

LEMMA CompactionSerene ==
  ASSUME Uncut, Smooth, CoreStays, StartCompaction \/ EndCompaction
  PROVE  Serene' /\ Bracketed'
<1> DEFINE l == [kind |-> "compact", gen |-> cli.gen, nth |-> cli.compactions + 1]
<1>1. /\ SameProcess(cli, cli') /\ frames' = frames /\ cli'.box = cli.box /\ cli'.turn = cli.turn
      /\ Write(<<l>>) \/ lines' = lines
  BY SmoothParts, CompactionEffect
<1>2. CASE lines' = lines
  BY <1>1, <1>2, NothingRead, CliSerene DEF Bracketed, CoreStays, coreVars
<1>3. CASE Write(<<l>>)
  <2>1. l \in Lines /\ l.kind = "compact"
    <3>1. cli.gen = 1 /\ cli \in CliStates
      BY SmoothParts
    <3>2. cli.compactions \in Nat
      BY <3>1, Zenon DEF CliStates
    <3> QED
      BY <3>1, <3>2 DEF Lines
  <2>2. Bracketed' /\ \A i \in DOMAIN lines'[1] : lines'[1][i].kind \in {"prompt", "absorbed", "end", "compact"}
    <3> HIDE DEF l
    <3> QED
      BY <1>1, <1>3, <2>1, LineBracketed
  <2> QED
    BY <1>1, <2>2, NothingRead, CliSerene
<1> QED
  BY <1>1, <1>2, <1>3

LEMMA CliStepSerene ==
  ASSUME Uncut, Smooth, CoreStays,
         \/ StartTurn \/ StartAmbientTurn \/ AbsorbInput \/ CallReply(connected) \/ EndTurn
         \/ StartCompaction \/ EndCompaction
  PROVE  Serene' /\ Bracketed'
BY StartTurnSerene, StartAmbientTurnSerene, AbsorbInputSerene, CallReplySerene, EndTurnSerene, CompactionSerene

LEMMA SmoothStep == ASSUME Uncut, Smooth, [Next]_vars PROVE Smooth'
<1>1. IInv' /\ PlacesKept'
  BY NextInvariant, NextPlaces DEF Smooth
<1>2. CASE Next
  <2> SUFFICES Serene' /\ Bracketed'
    BY <1>1 DEF Smooth
  <2>1. CASE \E p \in Prompts : Send(p)
    BY <2>1, SendSerene
  <2>2. CASE \E i \in DOMAIN bus.deliveries : PtyType(i) \/ PtySettle(i)
    BY <2>2, PtyTypeSerene, PtySettleSerene
  <2>3. CASE TailLine(1)
    BY <2>3, TailSerene
  <2>4. CASE ReadFrame
    BY <2>4, ReadFrameSerene
  <2>5. CASE SettleTimer
    BY <2>5, SettleTimerSerene
  <2>6. CASE \E x \in Texts : VerifyFires(x) \/ HoldDeadline(x)
    BY <2>6, VerifyFiresSerene, HoldDeadlineSerene
  <2>7. CASE FallbackFires
    BY <2>7, FallbackSerene
  <2>8. CASE /\ \/ StartTurn \/ StartAmbientTurn \/ AbsorbInput \/ CallReply(connected) \/ EndTurn
                \/ StartCompaction \/ EndCompaction
             /\ UNCHANGED coreVars
    BY <2>8, CliStepSerene DEF CoreStays
  <2> QED
    BY <1>2, <2>1, <2>2, <2>3, <2>4, <2>5, <2>6, <2>7, <2>8, SmoothSteps
<1>3. CASE UNCHANGED vars
  <2>1. Serene' /\ Bracketed'
    BY <1>3 DEF Smooth, Serene, Bracketed, vars, coreVars, cliVars
  <2> QED
    BY <1>1, <2>1 DEF Smooth
<1> QED
  BY <1>2, <1>3

LEMMA SmoothInit == ASSUME Uncut, CoreInit PROVE Smooth
<1>1. IInv /\ PlacesKept
  BY InitInvariant, InitAccounts
<1>2. bus = StartedBus /\ connected = TRUE /\ typed = [x \in Texts |-> 0]
  BY DEF CoreInit
<1>3. Steady(bus)
  BY <1>2, StartedSteady
<1>4. typed[Nudge] = 0
  BY <1>2 DEF Texts
<1>5. cli = IdleCli(1) /\ lines[1] = <<>> /\ frames = <<>>
  BY DEF CoreInit, CliInit, Uncut
<1>6. cli.up /\ ~cli.booting /\ cli.box = <<>> /\ cli.turn = None
  BY <1>5, Zenon DEF IdleCli
<1>7. Serene
  BY <1>2, <1>3, <1>4, <1>5, <1>6 DEF Serene
<1>8. Bracketed
  BY <1>5, <1>6 DEF Bracketed, Bracket
<1> QED
  BY <1>1, <1>7, <1>8 DEF Smooth

LEMMA SmoothAlways == ASSUME Uncut PROVE Spec => []Smooth
<1>1. CoreInit => Smooth
  BY SmoothInit
<1>2. Smooth /\ [Next]_vars => Smooth'
  BY SmoothStep
<1> QED
  BY <1>1, <1>2, PTL DEF Spec

\* A text is absorbed while the bus knows of the turn.
LEMMA AbsorbedInTurn ==
  ASSUME Uncut, Smooth, lines[1] # <<>>, Head(lines[1]).kind = "absorbed"
  PROVE  bus.streaming
<1> DEFINE s == lines[1]
<1>1. s \in Seq(Lines) /\ s # <<>> /\ Bracket(bus.streaming, s)
  BY SmoothParts, NothingRead
<1>2. Head(s).kind = "absorbed"
  OBVIOUS
<1> HIDE DEF s
<1>3. 1 \in DOMAIN s /\ s[1].kind = "absorbed"
  BY <1>1, <1>2
<1>4. OpenBefore(bus.streaming, s, 1)
  BY <1>1, <1>3 DEF Bracket
<1> QED
  BY <1>4 DEF OpenBefore

LEMMA NothingStrands ==
  ASSUME Uncut, Smooth, ~Strands(bus), [Next]_vars
  PROVE  ~Strands(bus')
<1> SUFFICES ASSUME Strands(bus') PROVE FALSE
  OBVIOUS
<1>1. Exempt
  BY NextStrands DEF Smooth
<1>2. ~LateReplyToNudge /\ ~ReleasedTurnEnds
  BY DEF Smooth, Serene, Steady, Calm, LateReplyToNudge, ReleasedTurnEnds, Stale
<1>3. CASE CountedPromptAbsorbed
  <2>1. TailLine(1) /\ Head(lines[1]).kind = "absorbed"
    BY <1>3 DEF CountedPromptAbsorbed, TailsLine, Uncut
  <2>2. lines[1] # <<>> /\ bus' = AbsorbedLine(bus, Head(lines[1]).text)
    BY <2>1, TailEffect
  <2>3. bus.streaming
    BY <2>1, <2>2, AbsorbedInTurn
  <2>4. AbsorbedLine(bus, Head(lines[1]).text).streaming = bus.streaming
    BY SmoothParts, AbsorbedLineSteady, Zenon
  <2>5. bus'.streaming
    BY <2>2, <2>3, <2>4
  <2> QED
    BY <2>5 DEF Strands, SlotFree
<1> QED
  BY <1>1, <1>2, <1>3 DEF Exempt

LEMMA NothingRearms ==
  ASSUME Uncut, Smooth
  PROVE  ~RetryRearmed
BY DEF Smooth, Serene, Steady, Calm, RetryRearmed, BackstopFires

\* While nothing cuts a turn short, none of the three steps happens that leave a
\* prompt before a free gate: whatever frees the gate - a settled terminator, an
\* absorbed prompt, a turn nobody asked for - admits the next prompt in the same
\* step (slotFree and admitNext of src/bus/core.ts).
THEOREM UncutAdmits == ASSUME Uncut PROVE Spec => []NoStrandedPrompt
<1>1. CoreInit => Smooth /\ ~Strands(bus)
  <2> SUFFICES ASSUME CoreInit PROVE Smooth /\ ~Strands(bus)
    OBVIOUS
  <2>1. bus = StartedBus
    BY DEF CoreInit
  <2>2. ~HasQueue(StartedBus.queue)
    BY StartedSteady DEF HasQueue, EmptyQueue
  <2> QED
    BY <2>1, <2>2, SmoothInit DEF Strands
<1>2. Smooth /\ ~Strands(bus) /\ [Next]_vars => Smooth' /\ ~Strands(bus')
  BY SmoothStep, NothingStrands
<1>3. ~Strands(bus) => NoStrandedPrompt
  BY DEF Strands, NoStrandedPrompt
<1>4. (~Strands(bus))' <=> ~Strands(bus')
  BY DEF Strands, SlotFree
<1> QED
  BY <1>1, <1>2, <1>3, <1>4, PTL DEF Spec

\* While nothing cuts a turn short, no backstop arms a verify whose re-delivery
\* is spent, and so no prompt is typed into the REPL a third time.
THEOREM UncutRetriesOnce == ASSUME Uncut PROVE Spec => []AtMostOneRetry
<1>1. Spec => []Smooth
  BY SmoothAlways
<1>2. Smooth => [~RetryRearmed]_vars
  BY NothingRearms
<1> QED
  BY <1>1, <1>2, RetriesOnce, PTL

--------------------------------------------------------------------------------
(* The model is given each prompt once *)

\* A delivery of p is under way.
Delivering(b, p) == \E i \in DOMAIN b.deliveries : b.deliveries[i].text = p

\* A delivery of p is yet to be typed.
Untyped(b, p) == \E i \in DOMAIN b.deliveries : b.deliveries[i].text = p /\ ~b.deliveries[i].typed

\* The transcript says p was taken, and the bus has not read it.
Told(ls, p) == \E i \in DOMAIN ls : ls[i].kind \in {"prompt", "absorbed"} /\ ls[i].text = p

\* Prompt p is in the CLI's box or was given to the model, not both, and what
\* the bus may type again has not been taken, unless the line that says so is on
\* its way.  A text left in the box through a compaction is verified after it.
Given(b, c, ls, S, p) ==
  /\ Once(c.box, p) /\ c.runs[p] <= 1
  /\ Contains(c.box, p) => c.runs[p] = 0
  /\ Untyped(b, p) \/ Waiting(b, p, S) => c.runs[p] = 0 /\ ~Contains(c.box, p)
  /\ Unsettled(b, p) => c.runs[p] = 0 \/ Told(ls, p)
  /\ Delivering(b, p) => ~Verifying(b, p)
  /\ Verifying(b, p) /\ Contains(c.box, p) => c.compactions >= MaxCompactions
  /\ b.hold[p] # None => c.compacting \/ c.compactions > 0

\* Nothing more is under way with p than there was.
BusEases(b, d, p) ==
  /\ Delivering(d, p) => Delivering(b, p)
  /\ Untyped(d, p) => Untyped(b, p)
  /\ Unsettled(d, p) => Unsettled(b, p)
  /\ Verifying(d, p) => Verifying(b, p)
  /\ d.hold[p] # None => b.hold[p] # None

\* The model was given p as often, the CLI's box holds it no more than it did, and
\* no compaction is to come that was not.
CliEases(c, e, p) ==
  /\ Once(c.box, p) => Once(e.box, p)
  /\ Contains(e.box, p) => Contains(c.box, p)
  /\ e.runs[p] = c.runs[p]
  /\ c.compactions >= MaxCompactions => e.compactions >= MaxCompactions
  /\ c.compacting \/ c.compactions > 0 => e.compacting \/ e.compactions > 0

LEMMA MovesEase ==
  ASSUME NEW b, NEW d, NEW xs, NEW vs, NEW hs, Moves(b, d, xs, vs, hs), NEW p \in Texts,
         p \notin xs, p \notin vs, p \notin hs
  PROVE  BusEases(b, d, p)
<1>1. \A i \in DOMAIN d.deliveries : d.deliveries[i].text = p =>
        \E j \in DOMAIN b.deliveries : Like(b.deliveries[j], d.deliveries[i])
  BY DEF Moves
<1>2. (Delivering(d, p) => Delivering(b, p)) /\ (Untyped(d, p) => Untyped(b, p))
  BY <1>1 DEF Delivering, Untyped, Like
<1>3. (Verifying(d, p) => Verifying(b, p)) /\ (d.hold[p] # None => b.hold[p] # None)
  BY DEF Moves
<1>4. ASSUME NEW i \in DOMAIN d.deliveries, d.deliveries[i].text = p, ~d.deliveries[i].proven
      PROVE  \E j \in DOMAIN b.deliveries : b.deliveries[j].text = p /\ ~b.deliveries[j].proven
  BY <1>1, <1>4 DEF Like
<1> QED
  BY <1>2, <1>3, <1>4 DEF BusEases, Unsettled

LEMMA ApartEase == ASSUME NEW b, NEW d, Apart(b, d), NEW p PROVE BusEases(b, d, p)
BY DEF Apart, BusEases, Delivering, Untyped, Unsettled, Verifying

LEMMA EaseSelf == ASSUME NEW b, NEW c, NEW p PROVE BusEases(b, b, p) /\ CliEases(c, c, p)
BY DEF BusEases, CliEases

LEMMA GivenEase ==
  ASSUME NEW b, NEW c, NEW ls, NEW S, NEW p, Given(b, c, ls, S, p), NEW d, NEW e, NEW ms, NEW R,
         BusEases(b, d, p), CliEases(c, e, p), Waiting(d, p, R) => Waiting(b, p, S),
         Told(ls, p) => Told(ms, p) \/ ~Unsettled(d, p)
  PROVE  Given(d, e, ms, R, p)
BY DEF Given, BusEases, CliEases

\* An offer of the prompts of Q, who all wait.
LEMMA GivenServes ==
  ASSUME NEW b, NEW c, NEW ls, NEW S, NEW p \in Prompts, Given(b, c, ls, S, p),
         Waiting(b, p, S) => Quiet(b, p, 0), NEW d, NEW Q, NEW R, Serves(b, d, Q),
         p \in Q \/ p \notin R => Waiting(b, p, S), Q \subseteq R
  PROVE  Given(d, c, ls, R, p)
<1>1. CASE Queued(d.queue) = Q /\ Moves(b, d, {}, {}, {})
  <2>1. Waiting(d, p, R) => Waiting(b, p, S)
    BY <1>1 DEF Waiting
  <2>2. BusEases(b, d, p)
    BY <1>1, MovesEase DEF Texts
  <2> QED
    BY <2>1, <2>2, EaseSelf, GivenEase
<1>2. CASE \E x \in Prompts : x \in Q /\ Queued(d.queue) = Q \ {x} /\ Moves(b, d, {x}, {}, {})
  <2>1. PICK x \in Prompts : x \in Q /\ Queued(d.queue) = Q \ {x} /\ Moves(b, d, {x}, {}, {})
    BY <1>2
  <2>2. CASE p # x
    <3>1. Waiting(d, p, R) => Waiting(b, p, S)
      BY <2>1, <2>2 DEF Waiting
    <3>2. BusEases(b, d, p)
      BY <2>1, <2>2, MovesEase DEF Texts
    <3> QED
      BY <3>1, <3>2, EaseSelf, GivenEase
  <2>3. CASE p = x
    <3>1. Quiet(b, p, 0) /\ c.runs[p] = 0 /\ ~Contains(c.box, p) /\ ~Waiting(d, p, R)
      BY <2>1, <2>3 DEF Given, Waiting
    <3>2. d.hold[p] = None /\ ~Verifying(d, p)
      <4>1. p \in Texts
        BY DEF Texts
      <4> QED
        BY <2>1, <3>1, <4>1 DEF Moves, Quiet
    <3> QED
      BY <3>1, <3>2 DEF Given
  <2> QED
    BY <2>2, <2>3
<1> QED
  BY <1>1, <1>2 DEF Serves

\* The state's.
GivenOnce ==
  /\ cli.compacting => cli.compactions < MaxCompactions
  /\ \A i \in DOMAIN lines[1] : lines[1][i].kind = "compact" => cli.compactions > 0
  /\ \A p \in Prompts : Given(bus, cli, lines[1], sent, p)

\* A text that waits in the CLI's box waits for no turn, if a compaction can
\* keep it there.
Alone == MaxCompactions = 0 \/ (cli.box # <<>> => cli.turn = None)

LEMMA WaitingQuiet ==
  ASSUME Smooth, NEW p \in Prompts, Waiting(bus, p, sent)
  PROVE  Quiet(bus, p, 0)
BY DEF Smooth, PlacesKept, Accounts, Account

\* A step in which the CLI is left alone.
LEMMA GivenStill ==
  ASSUME GivenOnce, cli' = cli, lines' = lines,
         \A p \in Prompts : Given(bus', cli, lines[1], sent', p)
  PROVE  GivenOnce'
BY DEF GivenOnce

LEMMA SendGiven ==
  ASSUME Uncut, Smooth, GivenOnce, NEW q \in Prompts, Send(q)
  PROVE  GivenOnce'
<1>1. cli' = cli /\ lines' = lines /\ q \notin sent
  BY SendSerene DEF cliVars
<1>2. CASE MustQueue(bus) /\ Refuses(bus.queue, q)
  <2>1. bus' = bus /\ sent' = sent
    BY <1>2, SendSerene
  <2> QED
    BY <1>1, <2>1, GivenStill DEF GivenOnce
<1>3. CASE ~(MustQueue(bus) /\ Refuses(bus.queue, q))
  <2> DEFINE Q == Queued(bus.queue) \cup {q}
             R == sent \cup {q}
  <2>1. Serves(bus, bus', Q) /\ sent' = R
    BY <1>3, SendSerene
  <2>2. ASSUME NEW p \in Prompts PROVE Given(bus', cli, lines[1], R, p)
    <3>1. Given(bus, cli, lines[1], sent, p)
      BY DEF GivenOnce
    <3>2. p \in Q \/ p \notin R => Waiting(bus, p, sent)
      BY <1>1 DEF Waiting
    <3>3. Q \subseteq R
      BY SmoothParts
    <3>4. Waiting(bus, p, sent) => Quiet(bus, p, 0)
      BY WaitingQuiet
    <3> HIDE DEF Q, R
    <3> QED
      BY <2>1, <3>1, <3>2, <3>3, <3>4, GivenServes
  <2> QED
    BY <1>1, <2>1, <2>2, GivenStill
<1> QED
  BY <1>2, <1>3

LEMMA SettleTimerGiven ==
  ASSUME Uncut, Smooth, GivenOnce, SettleTimer
  PROVE  GivenOnce'
<1> DEFINE Q == Queued(bus.queue)
<1>1. cli' = cli /\ lines' = lines /\ sent' = sent /\ Serves(bus, bus', Q)
  BY SettleTimerSerene DEF cliVars, Unlogged
<1>2. ASSUME NEW p \in Prompts PROVE Given(bus', cli, lines[1], sent, p)
  <2>1. Given(bus, cli, lines[1], sent, p)
    BY DEF GivenOnce
  <2>2. p \in Q \/ p \notin sent => Waiting(bus, p, sent)
    BY DEF Waiting
  <2>3. Q \subseteq sent
    BY SmoothParts
  <2>4. Waiting(bus, p, sent) => Quiet(bus, p, 0)
    BY WaitingQuiet
  <2> HIDE DEF Q
  <2> QED
    BY <1>1, <2>1, <2>2, <2>3, <2>4, GivenServes
<1> QED
  BY <1>1, <1>2, GivenStill

LEMMA FallbackGiven ==
  ASSUME Uncut, Smooth, GivenOnce, FallbackFires
  PROVE  GivenOnce'
<1>1. cli' = cli /\ lines' = lines /\ sent' = sent /\ Apart(bus, bus') /\ bus'.queue = bus.queue
  BY FallbackSerene DEF cliVars, Unlogged
<1>2. ASSUME NEW p \in Prompts PROVE Given(bus', cli, lines[1], sent, p)
  <2>1. Given(bus, cli, lines[1], sent, p) /\ BusEases(bus, bus', p) /\ CliEases(cli, cli, p)
    BY <1>1, ApartEase, EaseSelf DEF GivenOnce
  <2>2. Waiting(bus', p, sent) => Waiting(bus, p, sent)
    BY <1>1 DEF Waiting
  <2> QED
    BY <2>1, <2>2, GivenEase
<1> QED
  BY <1>1, <1>2, GivenStill

LEMMA ReadFrameGiven ==
  ASSUME Uncut, Smooth, GivenOnce, ReadFrame
  PROVE  GivenOnce'
<1>1. cli' = cli /\ lines' = lines /\ sent' = sent /\ Apart(bus, bus') /\ bus'.queue = bus.queue
  BY ReadFrameSerene
<1>2. ASSUME NEW p \in Prompts PROVE Given(bus', cli, lines[1], sent, p)
  <2>1. Given(bus, cli, lines[1], sent, p) /\ BusEases(bus, bus', p) /\ CliEases(cli, cli, p)
    BY <1>1, ApartEase, EaseSelf DEF GivenOnce
  <2>2. Waiting(bus', p, sent) => Waiting(bus, p, sent)
    BY <1>1 DEF Waiting
  <2> QED
    BY <2>1, <2>2, GivenEase
<1> QED
  BY <1>1, <1>2, GivenStill

\* A verify that types its text again, its grace over, types one the CLI never
\* got: an idle CLI has taken its input and the bus has read all it wrote.
LEMMA RetypedIsLost ==
  ASSUME Uncut, Smooth, GivenOnce, Patient = TRUE, NEW x \in Prompts, VerifyFires(x), ~bus.streaming
  PROVE  cli.runs[x] = 0 /\ ~Contains(cli.box, x)
<1>1. Verifying(bus, x) /\ Given(bus, cli, lines[1], sent, x) /\ cli \in CliStates /\ cli.box \in Seq(Inputs)
  BY VerifyFiresSerene, SmoothParts DEF Texts, GivenOnce
<1>2. Reacted
  BY DEF VerifyFires
<1>3. lines[1] = <<>>
  BY <1>2 DEF Reacted, AllTailed, Uncut
<1>4. ~Told(lines[1], x)
  BY <1>3 DEF Told
<1>5. cli.runs[x] = 0
  BY <1>1, <1>4 DEF Given, Unsettled
<1>6. ASSUME Contains(cli.box, x) PROVE FALSE
  <2>1. cli.compactions >= MaxCompactions /\ cli.compactions \in Nat /\ MaxCompactions \in Nat
    <3>1. cli.compactions \in Nat
      BY <1>1, Zenon DEF CliStates
    <3> QED
      BY <1>1, <1>6, <3>1, CliAssumption DEF Given
  <2>2. ~cli.compacting
    BY <2>1 DEF GivenOnce
  <2>3. cli.turn = None
    <3>1. ~OpenBefore(bus.streaming, lines[1], Len(lines[1]) + 1)
      BY <1>3 DEF OpenBefore
    <3> QED
      BY <3>1, NothingRead
  <2>4. Ready
    BY <2>2 DEF Ready, Smooth, Serene
  <2>5. cli.box = <<>>
    BY <1>2, <2>3, <2>4 DEF Reacted
  <2> QED
    BY <1>6, <2>5 DEF Contains
<1> QED
  BY <1>5, <1>6

LEMMA VerifyFiresGiven ==
  ASSUME Uncut, Smooth, GivenOnce, Patient = TRUE, NEW x \in Texts, VerifyFires(x)
  PROVE  GivenOnce'
<1>1. /\ cli' = cli /\ lines' = lines /\ sent' = sent /\ bus'.queue = bus.queue /\ x \in Prompts
      /\ \/ Moves(bus, bus', {}, {}, {})
         \/ ~bus.streaming /\ ~Verifying(bus', x) /\ Moves(bus, bus', {x}, {}, {})
  BY VerifyFiresSerene DEF cliVars, Unlogged
<1>2. ASSUME NEW p \in Prompts PROVE Given(bus', cli, lines[1], sent, p)
  <2>1. Given(bus, cli, lines[1], sent, p) /\ CliEases(cli, cli, p) /\ p \in Texts
    BY EaseSelf DEF GivenOnce, Texts
  <2>2. Waiting(bus', p, sent) => Waiting(bus, p, sent)
    BY <1>1 DEF Waiting
  <2>3. CASE Moves(bus, bus', {}, {}, {}) \/ (p # x /\ Moves(bus, bus', {x}, {}, {}))
    <3>1. BusEases(bus, bus', p)
      BY <2>1, <2>3, MovesEase
    <3> QED
      BY <2>1, <2>2, <3>1, GivenEase
  <2>4. CASE p = x /\ ~bus.streaming /\ ~Verifying(bus', x) /\ Moves(bus, bus', {x}, {}, {})
    <3>1. cli.runs[p] = 0 /\ ~Contains(cli.box, p)
      BY <2>4, RetypedIsLost
    <3>2. bus'.hold[p] # None => bus.hold[p] # None
      BY <2>1, <2>4 DEF Moves
    <3> QED
      BY <2>1, <2>4, <3>1, <3>2 DEF Given
  <2> QED
    BY <1>1, <2>3, <2>4
<1> QED
  BY <1>1, <1>2, GivenStill

\* Texts are released from their hold once a compaction is over.
LEMMA GivenReleases ==
  ASSUME NEW b \in BusStates, NEW c, NEW ls, NEW S, NEW p \in Prompts, Given(b, c, ls, S, p), Place(b, p, 0),
         NEW d, NEW xs, Moves(b, d, {}, xs, {}), \A y \in xs : b.hold[y] # None,
         d.queue = b.queue, c.compactions >= MaxCompactions, NEW ms, Told(ls, p) => Told(ms, p)
  PROVE  Given(d, c, ms, S, p)
<1>1. Waiting(d, p, S) => Waiting(b, p, S)
  BY DEF Waiting
<1>2. p \in Texts
  BY DEF Texts
<1>3. CASE p \notin xs
  <2>1. BusEases(b, d, p)
    BY <1>2, <1>3, MovesEase
  <2> QED
    BY <1>1, <2>1, EaseSelf, GivenEase
<1>4. CASE p \in xs
  <2>1. b.hold[p] # None
    BY <1>4
  <2>2. ~Delivering(d, p)
    <3>1. \A i \in DOMAIN d.deliveries : \E j \in DOMAIN b.deliveries : Like(b.deliveries[j], d.deliveries[i])
      BY DEF Moves
    <3>2. 0 \notin DOMAIN b.deliveries
      <4>1. b.deliveries \in Seq(Deliveries)
        BY Zenon DEF BusStates
      <4> QED
        BY <4>1
    <3>3. Mine(b, p, 0) = {}
      BY <2>1 DEF Place
    <3> QED
      BY <3>1, <3>2, <3>3 DEF Delivering, Mine, Like
  <2>3. Unsettled(b, p)
    BY <2>1 DEF Unsettled
  <2>4. ~Untyped(d, p)
    BY <2>2 DEF Untyped, Delivering
  <2> QED
    BY <1>1, <2>1, <2>2, <2>3, <2>4 DEF Given
<1> QED
  BY <1>3, <1>4

LEMMA HoldDeadlineGiven ==
  ASSUME Uncut, Smooth, GivenOnce, Patient = TRUE, MaxCompactions <= 1, NEW x \in Texts, HoldDeadline(x)
  PROVE  GivenOnce'
<1>1. /\ cli' = cli /\ lines' = lines /\ sent' = sent /\ bus'.queue = bus.queue /\ x \in Prompts
      /\ bus.hold[x] # None /\ Moves(bus, bus', {}, {x}, {})
  BY HoldDeadlineSerene DEF cliVars, Unlogged
<1>2. cli.compactions >= MaxCompactions
  <2>1. ~cli.compacting /\ Given(bus, cli, lines[1], sent, x)
    BY <1>1 DEF HoldDeadline, GivenOnce
  <2>2. cli.compactions > 0
    BY <1>1, <2>1 DEF Given
  <2>3. cli.compactions \in Nat
    BY SmoothParts, Zenon DEF CliStates
  <2> QED
    BY <2>2, <2>3, CliAssumption
<1>3. ASSUME NEW p \in Prompts PROVE Given(bus', cli, lines[1], sent, p)
  <2>1. Given(bus, cli, lines[1], sent, p) /\ Place(bus, p, 0) /\ bus \in BusStates
    BY SmoothParts DEF GivenOnce
  <2>2. \A y \in {x} : bus.hold[y] # None
    BY <1>1
  <2> QED
    BY <1>1, <1>2, <2>1, <2>2, GivenReleases
<1> QED
  BY <1>1, <1>3, GivenStill

LEMMA DeliveryIndices ==
  ASSUME NEW b \in BusStates, NEW p, NEW i \in DOMAIN b.deliveries, b.deliveries[i].text = p, Place(b, p, 0)
  PROVE  /\ \A j \in DOMAIN b.deliveries : b.deliveries[j].text = p => j = i
         /\ ~Quiet(b, p, 0) /\ b.hold[p] = None
<1>1. 0 \notin DOMAIN b.deliveries
  <2>1. b.deliveries \in Seq(Deliveries)
    BY Zenon DEF BusStates
  <2> QED
    BY <2>1
<1> QED
  BY <1>1 DEF Place, Mine, Quiet

LEMMA AppendOnce ==
  ASSUME NEW S, NEW s \in Seq(S), NEW x \in S, NEW p
  PROVE  /\ p # x /\ Once(s, p) => Once(Append(s, x), p)
         /\ p # x => (Contains(Append(s, x), p) => Contains(s, p))
         /\ ~Contains(s, x) => Once(Append(s, x), x)
BY DEF Once, Contains

LEMMA TailOnce ==
  ASSUME NEW S, NEW s \in Seq(S), s # <<>>, NEW p
  PROVE  /\ Contains(s, Head(s))
         /\ Once(s, p) => Once(Tail(s), p)
         /\ Contains(Tail(s), p) => Contains(s, p)
         /\ Once(s, Head(s)) => ~Contains(Tail(s), Head(s))
<1>1. \A i \in DOMAIN Tail(s) : i + 1 \in DOMAIN s /\ Tail(s)[i] = s[i + 1]
  OBVIOUS
<1>2. 1 \in DOMAIN s /\ Head(s) = s[1] /\ Tail(s) \in Seq(S) /\ DOMAIN Tail(s) = 1 .. Len(Tail(s)) /\ DOMAIN s = 1 .. Len(s)
  OBVIOUS
<1> DEFINE u == Tail(s)
           h == Head(s)
<1> HIDE DEF u, h
<1>3. \A i \in DOMAIN u : i + 1 \in DOMAIN s /\ u[i] = s[i + 1] /\ i \in Nat /\ i > 0
  BY <1>1, <1>2 DEF u
<1>4. 1 \in DOMAIN s /\ h = s[1] /\ DOMAIN u = 1 .. Len(u) /\ DOMAIN s = 1 .. Len(s)
  BY <1>2 DEF u, h
<1>5. Contains(s, h)
  BY <1>4 DEF Contains
<1>6. Once(s, p) => Once(u, p)
  BY <1>3 DEF Once
<1>7. Contains(u, p) => Contains(s, p)
  BY <1>3, <1>4 DEF Contains
<1>8. Once(s, h) => ~Contains(u, h)
  BY <1>3, <1>4 DEF Once, Contains
<1> QED
  BY <1>5, <1>6, <1>7, <1>8 DEF u, h

LEMMA PtyTypeGiven ==
  ASSUME Uncut, Smooth, GivenOnce, NEW i \in DOMAIN bus.deliveries, PtyType(i)
  PROVE  GivenOnce'
<1> DEFINE x == bus.deliveries[i].text
<1>1. /\ x \in Prompts /\ ~bus.deliveries[i].typed /\ lines' = lines /\ sent' = sent
      /\ bus'.queue = bus.queue /\ Types(bus, bus', i)
      /\ cli' = [cli EXCEPT !.box = Append(@, x)] \/ cli' = cli
  BY PtyTypeSerene
<1>2. bus \in BusStates /\ cli \in CliStates /\ cli.box \in Seq(Inputs) /\ x \in Inputs
  BY <1>1, SmoothParts DEF Inputs, Texts
<1>3. /\ cli'.box \in {cli.box, Append(cli.box, x)} /\ cli'.runs = cli.runs
      /\ cli'.compacting = cli.compacting /\ cli'.compactions = cli.compactions
  <2> DEFINE box == Append(cli.box, x)
  <2>1. CASE cli' = cli
    BY <2>1
  <2>2. CASE cli' = [cli EXCEPT !.box = box]
    <3> HIDE DEF box
    <3>1. /\ cli'.box = box /\ cli'.runs = cli.runs
          /\ cli'.compacting = cli.compacting /\ cli'.compactions = cli.compactions
      BY <1>2, <2>2, Zenon DEF CliStates
    <3> QED
      BY <3>1 DEF box
  <2> QED
    BY <1>1, <2>1, <2>2
<1>4. ASSUME NEW p \in Prompts PROVE Given(bus', cli', lines'[1], sent', p)
  <2>1. Given(bus, cli, lines[1], sent, p) /\ Place(bus, p, 0)
    BY SmoothParts DEF GivenOnce
  <2>2. Waiting(bus', p, sent') => Waiting(bus, p, sent)
    BY <1>1 DEF Waiting
  <2>3. CASE p # x
    <3>1. BusEases(bus, bus', p)
      BY <1>1, <2>3 DEF Types, BusEases, Delivering, Untyped, Unsettled, Verifying
    <3>2. CliEases(cli, cli', p)
      <4> DEFINE s == cli.box
                 y == x
      <4>1. s \in Seq(Inputs) /\ y \in Inputs /\ p # y
        BY <1>2, <2>3
      <4> HIDE DEF s, y
      <4>2. /\ Once(s, p) => Once(Append(s, y), p)
            /\ Contains(Append(s, y), p) => Contains(s, p)
        BY <4>1, AppendOnce
      <4>3. cli'.box \in {s, Append(s, y)} /\ cli.box = s
        BY <1>3 DEF s, y
      <4> QED
        BY <1>3, <4>2, <4>3 DEF CliEases
    <3> QED
      BY <1>1, <2>1, <2>2, <3>1, <3>2, GivenEase
  <2>4. CASE p = x
    <3>1. cli.runs[p] = 0 /\ ~Contains(cli.box, p)
      BY <1>1, <2>1, <2>4 DEF Given, Untyped
    <3>2. /\ \A j \in DOMAIN bus.deliveries : bus.deliveries[j].text = p => j = i
          /\ ~Quiet(bus, p, 0) /\ bus.hold[p] = None
      BY <1>2, <2>1, <2>4, DeliveryIndices
    <3>3. ~Untyped(bus', p)
      BY <1>1, <3>2 DEF Untyped, Types
    <3>4. ~Waiting(bus', p, sent')
      BY <2>2, <3>2, WaitingQuiet
    <3>5. ~Verifying(bus', p) /\ bus'.hold[p] = None
      <4>1. Delivering(bus, p)
        BY <2>4 DEF Delivering
      <4> QED
        BY <1>1, <2>1, <3>2, <4>1 DEF Given, Types, Verifying
    <3>6. Once(cli'.box, p)
      <4> DEFINE s == cli.box
                 y == x
      <4>1. s \in Seq(Inputs) /\ y \in Inputs /\ ~Contains(s, y) /\ Once(s, p) /\ p = y
        BY <1>2, <2>1, <2>4, <3>1 DEF Given
      <4>2. cli'.box \in {s, Append(s, y)}
        BY <1>3
      <4> HIDE DEF s, y
      <4> QED
        BY <4>1, <4>2, AppendOnce
    <3>7. cli'.runs[p] = 0
      BY <1>3, <3>1
    <3> QED
      BY <3>3, <3>4, <3>5, <3>6, <3>7 DEF Given
  <2> QED
    BY <2>3, <2>4
<1> QED
  BY <1>1, <1>3, <1>4 DEF GivenOnce

\* The delivery of p that settles is the only one.
LEMMA SettledAway ==
  ASSUME NEW b \in BusStates, NEW d, NEW p, NEW i \in DOMAIN b.deliveries, b.deliveries[i].text = p,
         Place(b, p, 0), Others(b, d, i)
  PROVE  ~Delivering(d, p) /\ ~Untyped(d, p)
<1>1. \A j \in DOMAIN b.deliveries : b.deliveries[j].text = p => j = i
  BY DeliveryIndices
<1>2. ~Delivering(d, p)
  BY <1>1 DEF Others, Delivering
<1> QED
  BY <1>2 DEF Delivering, Untyped

LEMMA PtySettleGiven ==
  ASSUME Uncut, Smooth, GivenOnce, Alone, NEW i \in DOMAIN bus.deliveries, PtySettle(i)
  PROVE  GivenOnce'
<1> DEFINE x == bus.deliveries[i].text
<1>1. /\ Others(bus, bus', i) /\ x \in Prompts /\ bus'.queue = bus.queue
      /\ lines' = lines /\ sent' = sent
  BY PtySettleSerene
<1>2. PICK outcome \in Verdicts :
        /\ MayReport(i, outcome) /\ ClearsBox(i, outcome)
        /\ Moves(bus, bus', {}, VerdictArms(bus, i, outcome), VerdictHolds(bus, i, outcome))
  BY PtySettleSerene
<1>3. bus \in BusStates /\ cli \in CliStates /\ cli.box \in Seq(Inputs)
  BY SmoothParts
<1>4. /\ cli'.runs = cli.runs /\ cli'.compacting = cli.compacting /\ cli'.compactions = cli.compactions
      /\ \/ outcome \in {"gave-up", "stuck-compaction"} /\ cli'.box = Without(cli.box, x)
         \/ (outcome = "gave-up" => cli.turn # None) /\ cli'.box = cli.box
  <2> DEFINE box == Without(cli.box, x)
  <2>1. CASE (outcome = "gave-up" => cli.turn # None) /\ cli' = cli
    BY <2>1
  <2>2. CASE outcome \in {"gave-up", "stuck-compaction"} /\ cli' = [cli EXCEPT !.box = box]
    <3> HIDE DEF box
    <3>1. /\ cli'.box = box /\ cli'.runs = cli.runs
          /\ cli'.compacting = cli.compacting /\ cli'.compactions = cli.compactions
      BY <1>3, <2>2, Zenon DEF CliStates
    <3> QED
      BY <2>2, <3>1 DEF box
  <2> QED
    BY <1>2, <2>1, <2>2 DEF ClearsBox, Cleared
<1>5. ASSUME NEW p PROVE CliEases(cli, cli', p) /\ (Once(cli.box, x) /\ cli'.box # cli.box => ~Contains(cli'.box, x))
  <2> DEFINE s == cli.box
             u == Without(s, x)
  <2>1. /\ Once(s, p) => Once(u, p)
        /\ Contains(u, p) => Contains(s, p)
        /\ Once(s, x) => ~Contains(u, x)
    BY <1>3, WithoutEffect
  <2>2. cli'.box \in {s, u} /\ cli.box = s
    BY <1>4
  <2> HIDE DEF s, u
  <2> QED
    BY <1>4, <2>1, <2>2 DEF CliEases
<1>6. ASSUME NEW p \in Prompts PROVE Given(bus', cli', lines'[1], sent', p)
  <2>1. Given(bus, cli, lines[1], sent, p) /\ Place(bus, p, 0) /\ p \in Texts
    BY SmoothParts DEF GivenOnce, Texts
  <2>2. Waiting(bus', p, sent') => Waiting(bus, p, sent)
    BY <1>1 DEF Waiting
  <2>3. CASE p # x \/ ~GivesUp(bus, i, outcome)
    <3>1. p \notin VerdictArms(bus, i, outcome) /\ p \notin VerdictHolds(bus, i, outcome)
      BY <2>3 DEF VerdictArms, VerdictHolds
    <3>2. BusEases(bus, bus', p)
      BY <1>2, <2>1, <3>1, MovesEase
    <3> QED
      BY <1>1, <1>5, <2>1, <2>2, <3>2, GivenEase
  <2>4. CASE p = x /\ GivesUp(bus, i, outcome)
    <3>1. ~Delivering(bus', p) /\ ~Untyped(bus', p)
      BY <1>1, <1>3, <2>1, <2>4, SettledAway
    <3>2. ~Waiting(bus', p, sent')
      BY <1>3, <2>1, <2>2, <2>4, DeliveryIndices, WaitingQuiet
    <3>3. Unsettled(bus, p)
      BY <2>4 DEF GivesUp, Unsettled
    <3>4. cli.runs[p] = 0 \/ Told(lines[1], p)
      BY <2>1, <3>3 DEF Given
    <3>5. ASSUME Verifying(bus', p), Contains(cli'.box, p) PROVE cli'.compactions >= MaxCompactions
      <4>1. p \in VerdictArms(bus, i, outcome) \/ Verifying(bus, p)
        BY <1>2, <2>1, <3>5 DEF Moves
      <4>2. ~Verifying(bus, p)
        BY <2>1, <2>4 DEF Given, Delivering
      <4>3. outcome = "gave-up"
        BY <4>1, <4>2 DEF VerdictArms
      <4>4. cli'.box = cli.box
        BY <1>5, <2>1, <2>4, <3>5 DEF Given
      <4>5. cli.turn # None
        <5>1. CASE cli'.box = Without(cli.box, x)
          <6>1. ~Contains(Without(cli.box, x), x)
            BY <1>3, <2>1, <2>4, WithoutEffect DEF Given
          <6> QED
            BY <2>4, <3>5, <5>1, <6>1
        <5> QED
          BY <1>4, <4>3, <5>1
      <4>6. cli.box # <<>>
        BY <3>5, <4>4 DEF Contains
      <4>7. MaxCompactions = 0
        BY <4>5, <4>6 DEF Alone
      <4>8. cli.compactions \in Nat
        BY <1>3, Zenon DEF CliStates
      <4> QED
        BY <1>4, <4>7, <4>8
    <3>6. ASSUME bus'.hold[p] # None PROVE cli'.compacting \/ cli'.compactions > 0
      <4>1. p \in VerdictHolds(bus, i, outcome) \/ bus.hold[p] # None
        BY <1>2, <2>1, <3>6 DEF Moves
      <4>2. CASE bus.hold[p] # None
        BY <1>4, <2>1, <4>2 DEF Given
      <4>3. CASE p \in VerdictHolds(bus, i, outcome)
        <5>1. outcome = "stuck-compaction"
          BY <4>3 DEF VerdictHolds
        <5> QED
          BY <1>2, <1>4, <5>1 DEF MayReport
      <4> QED
        BY <4>1, <4>2, <4>3
    <3>7. /\ Once(cli'.box, p) /\ cli'.runs[p] = cli.runs[p]
          /\ Contains(cli'.box, p) => Contains(cli.box, p)
      BY <1>5, <2>1 DEF CliEases, Given
    <3> QED
      BY <1>1, <2>1, <3>1, <3>2, <3>4, <3>5, <3>6, <3>7 DEF Given
  <2> QED
    BY <2>3, <2>4
<1> QED
  BY <1>1, <1>4, <1>6 DEF GivenOnce

LEMMA ToldTail ==
  ASSUME NEW S, NEW s \in Seq(S), s # <<>>, NEW p, Told(s, p)
  PROVE  Told(Tail(s), p) \/ (Head(s).kind \in {"prompt", "absorbed"} /\ Head(s).text = p)
<1>1. PICK i \in DOMAIN s : s[i].kind \in {"prompt", "absorbed"} /\ s[i].text = p
  BY DEF Told
<1>2. CASE i = 1
  <2>1. Head(s) = s[1]
    OBVIOUS
  <2> QED
    BY <1>1, <1>2, <2>1
<1>3. CASE i # 1
  <2> DEFINE u == Tail(s)
  <2>1. i - 1 \in DOMAIN u /\ u[i - 1] = s[i]
    BY <1>3
  <2> HIDE DEF u
  <2>2. Told(u, p)
    BY <1>1, <2>1 DEF Told
  <2> QED
    BY <2>2 DEF u
<1> QED
  BY <1>2, <1>3

LEMMA ToldMore ==
  ASSUME NEW S, NEW s \in Seq(S), NEW u \in Seq(S), NEW p, Told(s, p)
  PROVE  Told(s \o u, p)
<1>1. PICK i \in DOMAIN s : s[i].kind \in {"prompt", "absorbed"} /\ s[i].text = p
  BY DEF Told
<1> DEFINE t == s \o u
<1>2. i \in DOMAIN t /\ t[i] = s[i]
  OBVIOUS
<1> HIDE DEF t
<1>3. Told(t, p)
  BY <1>1, <1>2 DEF Told
<1> QED
  BY <1>3 DEF t

LEMMA ToldLast ==
  ASSUME NEW S, NEW s \in Seq(S), NEW l \in S, l.kind \in {"prompt", "absorbed"}
  PROVE  Told(s \o <<l>>, l.text)
<1> DEFINE t == s \o <<l>>
           n == Len(s) + 1
<1>1. n \in DOMAIN t /\ t[n] = l
  OBVIOUS
<1> HIDE DEF t, n
<1>2. Told(t, l.text)
  BY <1>1 DEF Told
<1> QED
  BY <1>2 DEF t

LEMMA TailGiven ==
  ASSUME Uncut, Smooth, GivenOnce, MaxCompactions <= 1, TailLine(1)
  PROVE  GivenOnce'
<1> DEFINE l == Head(lines[1])
           s == lines[1]
           u == lines'[1]
<1>1. /\ s # <<>> /\ l \in Lines /\ l = s[1] /\ u = Tail(s) /\ cli' = cli /\ sent' = sent
      /\ l.kind \in {"prompt", "absorbed", "end", "compact"}
      /\ l.kind = "prompt" => bus' = PromptLine(bus, l.text)
      /\ l.kind = "absorbed" => bus' = AbsorbedLine(bus, l.text)
      /\ l.kind = "end" => bus' = TurnEnd(bus, l.id, l.text, l.inject, TRUE)
      /\ l.kind = "compact" => \E tolerant \in BOOLEAN : bus' = CompactLine(bus, l.gen, l.nth, tolerant)
  BY TailEffect
<1>2. bus \in BusStates /\ Steady(bus) /\ Gate(bus) /\ s \in Seq(Lines) /\ cli \in CliStates
  BY SmoothParts
<1>3. l.kind = "end" => l.id \in Nat /\ l.text \in Says
  BY <1>1, LineFields
<1>4. \A i \in DOMAIN u : i + 1 \in DOMAIN s /\ u[i] = s[i + 1]
  <2> HIDE DEF s, u, l
  <2> QED
    BY <1>1, <1>2
<1>5. \A i \in DOMAIN u : u[i].kind = "compact" => cli.compactions > 0
  BY <1>4 DEF GivenOnce
<1>6. \A p : Told(s, p) => Told(u, p) \/ (l.kind \in {"prompt", "absorbed"} /\ l.text = p)
  <2> HIDE DEF s, u
  <2>1. l = Head(s)
    BY DEF s
  <2> QED
    BY <1>1, <1>2, <2>1, ToldTail
<1>7. ASSUME NEW p \in Prompts PROVE Given(bus', cli, u, sent, p)
  <2>1. Given(bus, cli, s, sent, p) /\ Place(bus, p, 0) /\ p \in Texts /\ CliEases(cli, cli, p)
    BY SmoothParts, EaseSelf DEF GivenOnce, Texts
  <2> HIDE DEF l, s, u
  <2>2. CASE l.kind \in {"prompt", "absorbed"}
    <3> DEFINE x == l.text
    <3>1. /\ Moves(bus, bus', {}, {}, {}) /\ bus'.queue = bus.queue
          /\ x \in Prompts /\ Place(bus, x, 0) => ~Unsettled(bus', x)
      <4>1. CASE l.kind = "prompt"
        <5> DEFINE d == PromptLine(bus, x)
        <5>1. /\ Moves(bus, d, {}, {}, {}) /\ d.queue = bus.queue
              /\ x \in Prompts /\ Place(bus, x, 0) => ~Unsettled(d, x)
          BY <1>2, PromptLineSteady, Zenon
        <5>2. bus' = d
          BY <1>1, <4>1
        <5> HIDE DEF d, x
        <5> QED
          BY <5>1, <5>2
      <4>2. CASE l.kind = "absorbed"
        <5> DEFINE d == AbsorbedLine(bus, x)
        <5>1. /\ Moves(bus, d, {}, {}, {}) /\ d.queue = bus.queue
              /\ x \in Prompts /\ Place(bus, x, 0) => ~Unsettled(d, x)
          BY <1>2, AbsorbedLineSteady, Zenon
        <5>2. bus' = d
          BY <1>1, <4>2
        <5> HIDE DEF d, x
        <5> QED
          BY <5>1, <5>2
      <4> QED
        BY <2>2, <4>1, <4>2
    <3>2. BusEases(bus, bus', p)
      BY <2>1, <3>1, MovesEase
    <3>3. Told(s, p) => Told(u, p) \/ ~Unsettled(bus', p)
      BY <1>6, <2>1, <3>1
    <3>4. Waiting(bus', p, sent) => Waiting(bus, p, sent)
      BY <3>1 DEF Waiting
    <3> QED
      BY <2>1, <3>2, <3>3, <3>4, GivenEase
  <2>3. CASE l.kind = "end"
    <3> DEFINE d == TurnEnd(bus, l.id, l.text, l.inject, TRUE)
    <3>1. /\ LateLine(bus, l.id) => d = bus
          /\ ~LateLine(bus, l.id) => Apart(bus, d) /\ d.queue = bus.queue
      <4> DEFINE net == HandleTurnEnd(bus, l.text, l.inject, TRUE)
      <4>1. /\ LateLine(bus, l.id) => d = bus
            /\ ~LateLine(bus, l.id) =>
                 /\ Apart(bus, d) /\ d.queue = bus.queue /\ d.settle /\ ~d.streaming /\ d.lastEnd = l.id
                 /\ d.op = (IF l.id # bus.lastEnd THEN None ELSE bus.op)
                 /\ d.slot = net.slot
            /\ Steady(d)
        BY <1>2, <1>3, <2>3, TurnEndSteady, Zenon DEF Uncut
      <4> HIDE DEF d, net
      <4> QED
        BY <4>1
    <3>2. bus' = d
      BY <1>1, <2>3
    <3> HIDE DEF d
    <3>3. BusEases(bus, bus', p) /\ bus'.queue = bus.queue
      BY <3>1, <3>2, EaseSelf, ApartEase
    <3>4. Waiting(bus', p, sent) => Waiting(bus, p, sent)
      BY <3>3 DEF Waiting
    <3> QED
      BY <1>6, <2>1, <2>3, <3>3, <3>4, GivenEase
  <2>4. CASE l.kind = "compact"
    <3>1. PICK tolerant \in BOOLEAN : bus' = CompactLine(bus, l.gen, l.nth, tolerant)
      BY <1>1, <2>4
    <3> DEFINE gen == l.gen
               nth == l.nth
               d   == CompactLine(bus, gen, nth, tolerant)
    <3>2. \E xs \in SUBSET HeldTexts(bus) : d.queue = bus.queue /\ Moves(bus, d, {}, xs, {})
      <4> HIDE DEF gen, nth
      <4> QED
        BY <1>2, CompactLineSteady, Zenon
    <3>3. bus' = d
      BY <3>1
    <3> HIDE DEF d
    <3>4. PICK xs \in SUBSET HeldTexts(bus) : bus'.queue = bus.queue /\ Moves(bus, bus', {}, xs, {})
      BY <3>2, <3>3
    <3>5. \A y \in xs : bus.hold[y] # None
      BY DEF HeldTexts
    <3>6. cli.compactions >= MaxCompactions
      <4>1. cli.compactions > 0
        <5>1. 1 \in DOMAIN s
          BY <1>1, <1>2
        <5> QED
          BY <1>1, <2>4, <5>1 DEF GivenOnce, s
      <4>2. cli.compactions \in Nat
        BY <1>2, Zenon DEF CliStates
      <4> QED
        BY <4>1, <4>2, CliAssumption
    <3> QED
      BY <1>2, <1>6, <2>1, <2>4, <3>4, <3>5, <3>6, GivenReleases
  <2> QED
    BY <1>1, <2>2, <2>3, <2>4
<1> QED
  BY <1>1, <1>5, <1>7 DEF GivenOnce

\* The model is given the text at the head of the box.
LEMMA TakesGiven ==
  ASSUME Uncut, Smooth, GivenOnce, CoreStays, cli.box # <<>>, ~cli.compacting,
         SameCompaction(cli, cli'), cli'.box = Tail(cli.box), cli'.runs = GivenMore(Head(cli.box)),
         NEW l \in Lines, l.kind \in {"prompt", "absorbed"}, l.text = Head(cli.box), Write(<<l>>)
  PROVE  GivenOnce'
<1> DEFINE x == Head(cli.box)
           s == lines[1]
           u == lines'[1]
<1>1. bus' = bus /\ sent' = sent
  BY DEF CoreStays, coreVars
<1>2. s \in Seq(Lines) /\ cli.box \in Seq(Inputs) /\ cli \in CliStates
  BY SmoothParts
<1>3. u = s \o <<l>>
  <2>1. <<l>> \in Seq(Lines) /\ \A i \in DOMAIN <<l>> : <<l>>[i].kind \in {"prompt", "absorbed", "end", "compact"}
    BY OneLine
  <2> QED
    BY <2>1, WriteSerene
<1>4. ASSUME NEW p PROVE /\ Contains(cli.box, x)
                         /\ Once(cli.box, p) => Once(cli'.box, p)
                         /\ Contains(cli'.box, p) => Contains(cli.box, p)
                         /\ Once(cli.box, x) => ~Contains(cli'.box, x)
  <2> DEFINE b == cli.box
  <2>1. b \in Seq(Inputs) /\ b # <<>>
    BY <1>2
  <2> HIDE DEF b
  <2>2. /\ Contains(b, Head(b))
        /\ Once(b, p) => Once(Tail(b), p)
        /\ Contains(Tail(b), p) => Contains(b, p)
        /\ Once(b, Head(b)) => ~Contains(Tail(b), Head(b))
    BY <2>1, TailOnce
  <2> QED
    BY <2>2 DEF b
<1>5. \A p : Told(s, p) => Told(u, p)
  <2> HIDE DEF s, u
  <2> QED
    BY <1>2, <1>3, OneLine, ToldMore
<1>6. Told(u, x)
  <2> HIDE DEF s, u
  <2>1. Told(s \o <<l>>, l.text)
    BY <1>2, ToldLast
  <2> QED
    BY <1>3, <2>1
<1>7. x \in Prompts
  BY TailBox
<1>8. \A y \in Texts : cli.runs[y] \in Nat
  <2>1. cli.runs \in [Texts -> Nat]
    BY <1>2, Zenon DEF CliStates
  <2> QED
    BY <2>1
<1>9. ASSUME NEW p \in Prompts PROVE Given(bus, cli', u, sent, p)
  <2>1. Given(bus, cli, s, sent, p) /\ BusEases(bus, bus, p) /\ p \in Texts
    BY EaseSelf DEF GivenOnce, Texts
  <2>2. cli'.runs[p] = cli.runs[p] + (IF p = x THEN 1 ELSE 0)
    BY <2>1 DEF GivenMore
  <2>3. cli'.compactions = cli.compactions /\ cli'.compacting = cli.compacting
    BY DEF SameCompaction
  <2> HIDE DEF x, s, u
  <2>4. CASE p # x
    <3>1. CliEases(cli, cli', p)
      BY <1>4, <1>8, <2>1, <2>2, <2>3, <2>4 DEF CliEases
    <3> QED
      BY <1>5, <2>1, <3>1, GivenEase
  <2>5. CASE p = x
    <3>1. Contains(cli.box, p) /\ Once(cli'.box, p) /\ ~Contains(cli'.box, p)
      BY <1>4, <2>1, <2>5 DEF Given
    <3>2. cli'.runs[p] = 1 /\ ~Untyped(bus, p) /\ ~Waiting(bus, p, sent)
      BY <2>1, <2>2, <2>5, <3>1 DEF Given
    <3> QED
      BY <1>6, <2>1, <2>3, <2>5, <3>1, <3>2 DEF Given
  <2> QED
    BY <2>4, <2>5
<1>10. \A i \in DOMAIN u : u[i].kind = "compact" => cli.compactions > 0
  <2>1. \A i \in DOMAIN s : s[i].kind = "compact" => cli.compactions > 0
    BY DEF GivenOnce
  <2> HIDE DEF s, u
  <2>2. \A i \in DOMAIN u : (i \in DOMAIN s /\ u[i] = s[i]) \/ u[i] = l
    BY <1>2, <1>3
  <2>3. l.kind # "compact"
    OBVIOUS
  <2> QED
    BY <2>1, <2>2, <2>3
<1> QED
  BY <1>1, <1>9, <1>10 DEF GivenOnce, SameCompaction

\* A step of the CLI that takes no input.
LEMMA KeepsGiven ==
  ASSUME Uncut, Smooth, GivenOnce, CoreStays, cli'.box = cli.box, cli'.runs = cli.runs,
         NEW ls \in Seq(Lines), lines'[1] = lines[1] \o ls,
         cli'.compactions >= cli.compactions, cli'.compactions \in Nat,
         cli.compacting \/ cli.compactions > 0 => cli'.compacting \/ cli'.compactions > 0,
         cli'.compacting => cli'.compactions < MaxCompactions,
         \A i \in DOMAIN ls : ls[i].kind = "compact" => cli'.compactions > 0
  PROVE  GivenOnce'
<1> DEFINE s == lines[1]
           u == lines'[1]
<1>1. bus' = bus /\ sent' = sent
  BY DEF CoreStays, coreVars
<1>2. s \in Seq(Lines) /\ cli \in CliStates
  BY SmoothParts
<1>3. cli.compactions \in Nat
  BY <1>2, Zenon DEF CliStates
<1>4. \A p : Told(s, p) => Told(u, p)
  <2>1. u = s \o ls
    OBVIOUS
  <2> HIDE DEF s, u
  <2> QED
    BY <1>2, <2>1, ToldMore
<1>5. ASSUME NEW p \in Prompts PROVE Given(bus, cli', u, sent, p)
  <2>1. Given(bus, cli, s, sent, p) /\ BusEases(bus, bus, p)
    BY EaseSelf DEF GivenOnce
  <2>2. CliEases(cli, cli', p)
    BY <1>3, CliAssumption DEF CliEases
  <2> HIDE DEF s, u
  <2> QED
    BY <1>4, <2>1, <2>2, GivenEase
<1>6. \A i \in DOMAIN u : u[i].kind = "compact" => cli'.compactions > 0
  <2>1. \A i \in DOMAIN s : s[i].kind = "compact" => cli.compactions > 0
    BY DEF GivenOnce
  <2>2. u = s \o ls
    OBVIOUS
  <2> HIDE DEF s, u
  <2>3. \A i \in DOMAIN u : (i \in DOMAIN s /\ u[i] = s[i]) \/ (i - Len(s) \in DOMAIN ls /\ u[i] = ls[i - Len(s)])
    BY <1>2, <2>2
  <2> QED
    BY <1>3, <2>1, <2>3
<1> QED
  BY <1>1, <1>5, <1>6 DEF GivenOnce

LEMMA StartTurnGiven ==
  ASSUME Uncut, Smooth, GivenOnce, CoreStays, StartTurn
  PROVE  GivenOnce'
<1> DEFINE x == Head(cli.box)
           l == [kind |-> "prompt", text |-> x]
<1>1. /\ cli.box # <<>> /\ ~cli.compacting /\ SameCompaction(cli, cli') /\ cli'.box = Tail(cli.box)
      /\ cli'.runs = GivenMore(x) /\ Write(<<l>>)
  BY SmoothParts, StartTurnEffect
<1>2. l \in Lines /\ l.kind \in {"prompt", "absorbed"} /\ l.text = x
  <2>1. x \in Inputs
    BY <1>1, TailBox
  <2> QED
    BY <2>1 DEF Lines
<1> HIDE DEF l
<1> QED
  BY <1>1, <1>2, TakesGiven

LEMMA AbsorbInputGiven ==
  ASSUME Uncut, Smooth, GivenOnce, CoreStays, AbsorbInput
  PROVE  GivenOnce'
<1> DEFINE x == Head(cli.box)
           l == [kind |-> "absorbed", text |-> x]
<1>1. /\ cli.box # <<>> /\ ~cli.compacting /\ SameCompaction(cli, cli') /\ cli'.box = Tail(cli.box)
      /\ cli'.runs = GivenMore(x) /\ Write(<<l>>)
  BY SmoothParts, AbsorbInputEffect
<1>2. l \in Lines /\ l.kind \in {"prompt", "absorbed"} /\ l.text = x
  <2>1. x \in Inputs
    BY <1>1, TailBox
  <2> QED
    BY <2>1 DEF Lines
<1> HIDE DEF l
<1> QED
  BY <1>1, <1>2, TakesGiven

\* What a step writes that takes no input and ends no compaction.
LEMMA WritesGiven ==
  ASSUME Uncut, Smooth, GivenOnce, CoreStays, cli'.box = cli.box, cli'.runs = cli.runs,
         SameCompaction(cli, cli'), NEW ls \in Seq(Lines), lines'[1] = lines[1] \o ls,
         \A i \in DOMAIN ls : ls[i].kind # "compact"
  PROVE  GivenOnce'
<1>1. cli \in CliStates
  BY SmoothParts
<1>2. cli.compactions \in Nat
  BY <1>1, Zenon DEF CliStates
<1>3. cli'.compacting = cli.compacting /\ cli'.compactions = cli.compactions
  BY DEF SameCompaction
<1>4. cli.compacting => cli.compactions < MaxCompactions
  BY DEF GivenOnce
<1> QED
  BY <1>2, <1>3, <1>4, KeepsGiven

LEMMA NothingWritten == ASSUME Uncut, Smooth, lines' = lines PROVE <<>> \in Seq(Lines) /\ lines'[1] = lines[1] \o <<>>
<1> DEFINE s == lines[1]
<1>1. s \in Seq(Lines)
  BY SmoothParts
<1> HIDE DEF s
<1>2. s \o <<>> = s
  BY <1>1
<1> QED
  BY <1>2 DEF s

LEMMA StartAmbientTurnGiven ==
  ASSUME Uncut, Smooth, GivenOnce, CoreStays, StartAmbientTurn
  PROVE  GivenOnce'
<1> DEFINE l == [kind |-> "prompt", text |-> None]
<1>1. SameCompaction(cli, cli') /\ cli'.box = cli.box /\ cli'.runs = cli.runs /\ Write(<<l>>)
  BY SmoothParts, StartAmbientTurnEffect
<1>2. l \in Lines /\ l.kind = "prompt"
  BY DEF Lines
<1> HIDE DEF l
<1>3. <<l>> \in Seq(Lines) /\ (\A i \in DOMAIN <<l>> : <<l>>[i].kind \in {"prompt", "absorbed", "end", "compact"})
  BY <1>2, OneLine
<1>4. lines'[1] = lines[1] \o <<l>>
  BY <1>1, <1>3, WriteSerene
<1>5. \A i \in DOMAIN <<l>> : <<l>>[i].kind # "compact"
  BY <1>2
<1> QED
  BY <1>1, <1>3, <1>4, <1>5, WritesGiven

LEMMA CallReplyGiven ==
  ASSUME Uncut, Smooth, GivenOnce, CoreStays, CallReply(connected)
  PROVE  GivenOnce'
<1>1. SameCompaction(cli, cli') /\ cli'.box = cli.box /\ cli'.runs = cli.runs /\ lines' = lines
  <2>1. PICK p \in cli.turn.owes : \E named \in {None, Chat[p]} :
           /\ cli.turn # None /\ connected
           /\ SameProcess(cli, cli') /\ SameCompaction(cli, cli')
           /\ cli'.box = cli.box /\ cli'.turn = [cli.turn EXCEPT !.owes = @ \ {p}]
           /\ cli'.turns = cli.turns /\ cli'.runs = cli.runs
           /\ lines' = lines
           /\ frames' = Append(frames, [kind |-> "reply", about |-> {p}, named |-> named])
    BY SmoothParts, CallReplyEffect
  <2> QED
    BY <2>1
<1>2. <<>> \in Seq(Lines) /\ lines'[1] = lines[1] \o <<>>
  BY <1>1, NothingWritten
<1>3. \A i \in DOMAIN <<>> : <<>>[i].kind # "compact"
  OBVIOUS
<1> QED
  BY <1>1, <1>2, <1>3, WritesGiven

\* A turn ends in one boundary line or in two.
LEMMA EndLines ==
  ASSUME Uncut, Smooth, EndTurn
  PROVE  \E text \in {cli.turn.about, None}, ls \in Seq(Lines) :
           /\ cli.turn # None /\ (~ReplyOvertaken => frames = <<>>)
           /\ SameProcess(cli, cli') /\ SameCompaction(cli, cli')
           /\ cli'.box = cli.box /\ cli'.turn = None /\ cli'.turns = cli.turns /\ cli'.runs = cli.runs
           /\ frames' = frames /\ ls # <<>>
           /\ \A i \in DOMAIN ls : ls[i].kind = "end" /\ ls[i].id = cli.turn.id /\ ls[i].text \in {text, None}
           /\ lines'[1] = lines[1] \o ls
<1>1. PICK text \in {cli.turn.about, None} :
        /\ cli.turn # None /\ (~ReplyOvertaken => frames = <<>>)
        /\ SameProcess(cli, cli') /\ SameCompaction(cli, cli')
        /\ cli'.box = cli.box /\ cli'.turn = None /\ cli'.turns = cli.turns /\ cli'.runs = cli.runs
        /\ frames' = frames
        /\ Write(<<EndLine(text)>>) \/ Write(<<EndLine(None), EndLine(text)>>)
  BY SmoothParts, EndTurnEffect
<1>2. cli.turn \in Turns
  BY <1>1, SmoothParts DEF CliStates
<1>3. EndLine(text) \in Lines /\ EndLine(None) \in Lines
  <2>1. text \in Says /\ None \in Says
    BY <1>2 DEF Turns, Says
  <2> QED
    BY <1>2, <2>1, EndLineTyped
<1>4. PICK ls \in Seq(Lines) : Write(ls) /\ ls # <<>> /\ \A i \in DOMAIN ls : ls[i] \in {EndLine(text), EndLine(None)}
  <2> DEFINE e == EndLine(text)
             f == EndLine(None)
  <2>1. e \in Lines /\ f \in Lines
    BY <1>3
  <2>2. Write(<<e>>) \/ Write(<<f, e>>)
    BY <1>1
  <2> HIDE DEF e, f
  <2>3. <<e>> \in Seq(Lines) /\ <<e>> # <<>> /\ \A i \in DOMAIN <<e>> : <<e>>[i] \in {e, f}
    BY <2>1
  <2>4. <<f, e>> \in Seq(Lines) /\ <<f, e>> # <<>> /\ \A i \in DOMAIN <<f, e>> : <<f, e>>[i] \in {e, f}
    BY <2>1
  <2>5. \E ls \in Seq(Lines) : Write(ls) /\ ls # <<>> /\ \A i \in DOMAIN ls : ls[i] \in {e, f}
    BY <2>2, <2>3, <2>4
  <2> QED
    BY <2>5 DEF e, f
<1>5. \A i \in DOMAIN ls : ls[i].kind = "end" /\ ls[i].id = cli.turn.id /\ ls[i].text \in {text, None}
  BY <1>4 DEF EndLine
<1>6. lines'[1] = lines[1] \o ls
  BY <1>4, <1>5, WriteSerene
<1> QED
  BY <1>1, <1>4, <1>5, <1>6

LEMMA EndTurnGiven ==
  ASSUME Uncut, Smooth, GivenOnce, CoreStays, EndTurn
  PROVE  GivenOnce'
<1>1. PICK text \in {cli.turn.about, None}, ls \in Seq(Lines) :
           /\ SameCompaction(cli, cli') /\ cli'.box = cli.box /\ cli'.runs = cli.runs
           /\ \A i \in DOMAIN ls : ls[i].kind = "end" /\ ls[i].id = cli.turn.id /\ ls[i].text \in {text, None}
           /\ lines'[1] = lines[1] \o ls
  BY EndLines
<1>2. \A i \in DOMAIN ls : ls[i].kind # "compact"
  BY <1>1
<1> QED
  BY <1>1, <1>2, WritesGiven

LEMMA CompactionGiven ==
  ASSUME Uncut, Smooth, GivenOnce, CoreStays, MaxCompactions <= 1, StartCompaction \/ EndCompaction
  PROVE  GivenOnce'
<1> DEFINE l == [kind |-> "compact", gen |-> cli.gen, nth |-> cli.compactions + 1]
<1>0. cli \in CliStates
  BY SmoothParts
<1>1. /\ cli'.box = cli.box /\ cli'.runs = cli.runs
      /\ \/ /\ ~cli.compacting /\ cli.compactions < MaxCompactions
            /\ cli'.compacting /\ cli'.compactions = cli.compactions /\ lines' = lines
         \/ /\ cli.compacting /\ ~cli'.compacting /\ cli'.compactions = cli.compactions + 1
            /\ Write(<<l>>) \/ lines' = lines
  BY <1>0, CompactionEffect
<1>2. cli.compactions \in Nat
  BY <1>0, Zenon DEF CliStates
<1>3. /\ cli'.compactions >= cli.compactions /\ cli'.compactions \in Nat
      /\ cli.compacting \/ cli.compactions > 0 => cli'.compacting \/ cli'.compactions > 0
      /\ cli'.compacting => cli'.compactions < MaxCompactions
  BY <1>1, <1>2
<1>4. CASE lines' = lines
  <2>1. <<>> \in Seq(Lines) /\ lines'[1] = lines[1] \o <<>>
    BY <1>4, NothingWritten
  <2>2. \A i \in DOMAIN <<>> : <<>>[i].kind = "compact" => cli'.compactions > 0
    OBVIOUS
  <2> QED
    BY <1>1, <1>3, <2>1, <2>2, KeepsGiven
<1>5. CASE Write(<<l>>) /\ cli'.compactions = cli.compactions + 1
  <2>1. l \in Lines /\ l.kind = "compact"
    <3>1. cli.gen = 1
      BY SmoothParts
    <3> QED
      BY <1>2, <3>1 DEF Lines
  <2> HIDE DEF l
  <2>2. <<l>> \in Seq(Lines) /\ (\A i \in DOMAIN <<l>> : <<l>>[i].kind \in {"prompt", "absorbed", "end", "compact"})
    BY <2>1, OneLine
  <2>3. lines'[1] = lines[1] \o <<l>>
    BY <1>5, <2>2, WriteSerene
  <2>4. \A i \in DOMAIN <<l>> : <<l>>[i].kind = "compact" => cli'.compactions > 0
    BY <1>2, <1>5
  <2> QED
    BY <1>1, <1>3, <2>2, <2>3, <2>4, KeepsGiven
<1> QED
  BY <1>1, <1>4, <1>5

LEMMA GivenStep ==
  ASSUME Uncut, Patient = TRUE, MaxCompactions <= 1, Smooth, GivenOnce, Alone, [Next]_vars
  PROVE  GivenOnce'
<1>1. CASE Next
  <2>1. CASE \E p \in Prompts : Send(p)
    BY <2>1, SendGiven
  <2>2. CASE \E i \in DOMAIN bus.deliveries : PtyType(i) \/ PtySettle(i)
    BY <2>2, PtyTypeGiven, PtySettleGiven
  <2>3. CASE TailLine(1)
    BY <2>3, TailGiven
  <2>4. CASE ReadFrame
    BY <2>4, ReadFrameGiven
  <2>5. CASE SettleTimer
    BY <2>5, SettleTimerGiven
  <2>6. CASE \E x \in Texts : VerifyFires(x) \/ HoldDeadline(x)
    BY <2>6, VerifyFiresGiven, HoldDeadlineGiven
  <2>7. CASE FallbackFires
    BY <2>7, FallbackGiven
  <2>8. CASE /\ \/ StartTurn \/ StartAmbientTurn \/ AbsorbInput \/ CallReply(connected) \/ EndTurn
                \/ StartCompaction \/ EndCompaction
             /\ UNCHANGED coreVars
    BY <2>8, StartTurnGiven, StartAmbientTurnGiven, AbsorbInputGiven, CallReplyGiven, EndTurnGiven, CompactionGiven
       DEF CoreStays
  <2> QED
    BY <1>1, <2>1, <2>2, <2>3, <2>4, <2>5, <2>6, <2>7, <2>8, SmoothSteps
<1>2. CASE UNCHANGED vars
  <2>1. bus' = bus /\ sent' = sent /\ cli' = cli /\ lines' = lines
    BY <1>2 DEF vars, coreVars, cliVars
  <2> QED
    BY <2>1 DEF GivenOnce
<1> QED
  BY <1>1, <1>2

LEMMA GivenInit == ASSUME Uncut, CoreInit PROVE GivenOnce
<1>1. bus = StartedBus /\ sent = {} /\ cli = IdleCli(1) /\ lines[1] = <<>>
  BY DEF CoreInit, CliInit, Uncut
<1>2. cli.box = <<>> /\ ~cli.compacting /\ cli.runs = [x \in Texts |-> 0] /\ cli.compactions = 0
  BY <1>1, Zenon DEF IdleCli
<1>3. /\ bus.deliveries = <<>>
      /\ \A x \in Texts : bus.verify[x] = "none" /\ bus.hold[x] = None
  BY <1>1, StartedSteady
<1>4. ASSUME NEW p \in Prompts PROVE Given(bus, cli, lines[1], sent, p)
  <2>1. p \in Texts
    BY DEF Texts
  <2>2. cli.runs[p] = 0 /\ bus.verify[p] = "none" /\ bus.hold[p] = None
    BY <1>2, <1>3, <2>1
  <2>3. Once(cli.box, p) /\ ~Contains(cli.box, p)
    BY <1>2 DEF Once, Contains
  <2>4. ~Delivering(bus, p) /\ ~Untyped(bus, p) /\ ~Verifying(bus, p) /\ ~Unsettled(bus, p)
    BY <1>3, <2>2 DEF Delivering, Untyped, Verifying, Unsettled
  <2> QED
    BY <2>2, <2>3, <2>4 DEF Given
<1> QED
  BY <1>1, <1>2, <1>4 DEF GivenOnce

\* While nothing cuts a turn short and the CLI does not compact, a text given to
\* the model is neither left in the CLI's box nor typed again, whatever turns the
\* CLI runs that nobody asked for: those take no place in the count of turns, in
\* the queue or in the REPL (ingestSessionEvent, slotFree and scheduleFlushVerify of
\* src/bus/core.ts).
THEOREM UncutAmbient ==
  ASSUME Uncut, Patient = TRUE, MaxCompactions = 0 PROVE Spec => []AmbientSafety
<1>1. CoreInit => Smooth /\ GivenOnce
  BY SmoothInit, GivenInit
<1>2. Smooth /\ GivenOnce /\ [Next]_vars => Smooth' /\ GivenOnce'
  <2>1. Alone /\ MaxCompactions <= 1
    BY DEF Alone
  <2> QED
    BY <2>1, SmoothStep, GivenStep
<1>3. Smooth /\ GivenOnce => RunsOnce
  BY DEF GivenOnce, Given, RunsOnce
<1>4. Spec => []RunsOnce
  BY <1>1, <1>2, <1>3, PTL DEF Spec
<1>5. OneCountedTurn /\ NoStrandedPrompt /\ RunsOnce => AmbientSafety
  BY DEF AmbientSafety
<1> QED
  BY <1>4, <1>5, CountsOneTurn, UncutAdmits, PTL

--------------------------------------------------------------------------------
(* One turn at a time: the CLI runs the turns the bus opened and no other *)

\* The counted prompt was given to the model, and the end of its turn was not read.
Underway(b, c) == b.op # None /\ c.runs[b.op] = 1 /\ b.lastEnd < c.turns

\* The CLI holds nothing but the counted prompt, in its box or as its turn.
OneTurn(b, c) ==
  /\ \A i \in DOMAIN c.box : i = 1 /\ c.box[i] = b.op /\ c.turn = None
  /\ b.settle => b.op = None
  /\ b.lastEnd <= c.turns
  /\ c.turn # None =>
       /\ Underway(b, c)
       /\ c.turn.opener = b.op /\ c.turn.about = {b.op} /\ c.turn.owes \subseteq {b.op}
       /\ c.turn.id = c.turns

\* After line i the transcript says nothing of another turn.
LastTurn(ls, i) == \A j \in DOMAIN ls : j > i => ls[j].kind # "prompt" /\ (ls[j].kind = "end" => ls[j].id = ls[i].id)

\* The transcript's unread lines are of the counted prompt's turn, or further
\* lines of the message that ended the one before.
OneStory(b, c, ls) ==
  /\ \A i \in DOMAIN ls : ls[i].kind \in {"prompt", "end", "compact"}
  /\ \A i \in DOMAIN ls : ls[i].kind = "prompt" => Underway(b, c) /\ ls[i].text = b.op
  /\ \A i \in DOMAIN ls : ls[i].kind = "end" =>
       \/ ls[i].id = b.lastEnd
       \/ ls[i].id = c.turns /\ c.turn = None /\ Underway(b, c) /\ LastTurn(ls, i)

\* A prompt that is owed to the model waits in the queue or is the counted one.
OneOwed(b, c, S) ==
  /\ \A p \in Prompts : Untyped(b, p) => p = b.op
  /\ \A p \in Prompts : Unsettled(b, p) /\ c.runs[p] = 0 => p = b.op
  /\ \A p \in S : c.runs[p] = 0 => p \in Queued(b.queue) \/ p = b.op

\* All three.
OneAtATime == OneTurn(bus, cli) /\ OneStory(bus, cli, lines[1]) /\ OneOwed(bus, cli, sent)

LEMMA OneIsAlone == ASSUME Uncut, Smooth, OneAtATime PROVE Alone
<1> SUFFICES ASSUME cli.box # <<>> PROVE cli.turn = None
  BY DEF Alone
<1>1. 1 \in DOMAIN cli.box
  <2>1. cli.box \in Seq(Inputs)
    BY SmoothParts
  <2> QED
    BY <2>1
<1> QED
  BY <1>1 DEF OneAtATime, OneTurn

\* A verify or a hold that starts takes the place of what was not settled.
LEMMA MovesUnsettled ==
  ASSUME NEW b, NEW d, NEW vs, NEW hs, Moves(b, d, {}, vs, hs), \A y \in vs \cup hs : Unsettled(b, y),
         NEW p \in Prompts
  PROVE  (Untyped(d, p) => Untyped(b, p)) /\ (Unsettled(d, p) => Unsettled(b, p))
<1>1. p \in Texts
  BY DEF Texts
<1>2. \A i \in DOMAIN d.deliveries : \E j \in DOMAIN b.deliveries : Like(b.deliveries[j], d.deliveries[i])
  BY DEF Moves
<1>3. Untyped(d, p) => Untyped(b, p)
  BY <1>2 DEF Untyped, Like
<1>4. ASSUME NEW i \in DOMAIN d.deliveries, d.deliveries[i].text = p, ~d.deliveries[i].proven
      PROVE  \E j \in DOMAIN b.deliveries : b.deliveries[j].text = p /\ ~b.deliveries[j].proven
  BY <1>2, <1>4 DEF Like
<1>5. Verifying(d, p) \/ d.hold[p] # None => Unsettled(b, p)
  BY <1>1 DEF Moves, Unsettled
<1> QED
  BY <1>3, <1>4, <1>5 DEF Unsettled

\* A step of the bus that opens no turn and closes none.
LEMMA OneKept ==
  ASSUME OneAtATime, cli' = cli, lines' = lines, sent' = sent, bus'.queue = bus.queue,
         bus'.op = bus.op, bus'.lastEnd = bus.lastEnd, bus'.settle = bus.settle,
         \A p \in Prompts : Untyped(bus', p) => Untyped(bus, p) \/ p = bus.op,
         \A p \in Prompts : Unsettled(bus', p) => Unsettled(bus, p) \/ p = bus.op
  PROVE  OneAtATime'
BY DEF OneAtATime, OneTurn, OneStory, OneOwed, Underway

LEMMA EasesKept ==
  ASSUME OneAtATime, cli' = cli, lines' = lines, sent' = sent, bus'.queue = bus.queue,
         bus'.op = bus.op, bus'.lastEnd = bus.lastEnd, bus'.settle = bus.settle,
         \A p \in Prompts : BusEases(bus, bus', p)
  PROVE  OneAtATime'
BY OneKept DEF BusEases

\* An offer: the gate is free when it admits a prompt, so nothing is under way.
LEMMA OneServes ==
  ASSUME Uncut, Smooth, GivenOnce, OneAtATime, cli' = cli, lines' = lines,
         NEW Q \in SUBSET Prompts, Serves(bus, bus', Q),
         Queued(bus.queue) \subseteq Q, \A p \in sent' : p \in sent \/ p \in Q
  PROVE  OneAtATime'
<1>1. CASE /\ Queued(bus'.queue) = Q
           /\ bus'.op = bus.op /\ (bus'.settle => bus.settle) /\ Moves(bus, bus', {}, {}, {})
  <2>1. ASSUME NEW p \in Prompts PROVE BusEases(bus, bus', p)
    BY <1>1, MovesEase DEF Texts
  <2>2. bus'.lastEnd = bus.lastEnd
    BY DEF Serves
  <2>3. OneTurn(bus', cli) /\ OneStory(bus', cli, lines[1])
    BY <1>1, <2>2 DEF OneAtATime, OneTurn, OneStory, Underway
  <2>4. OneOwed(bus', cli, sent')
    BY <1>1, <2>1 DEF OneAtATime, OneOwed, BusEases
  <2> QED
    BY <2>3, <2>4 DEF OneAtATime
<1>2. ASSUME NEW x \in Prompts,
             x \in Q, Queued(bus'.queue) = Q \ {x}, bus.op = None, bus'.op = x, ~bus'.settle,
             Moves(bus, bus', {x}, {}, {})
      PROVE  OneAtATime'
  <2>1. bus'.lastEnd = bus.lastEnd
    BY DEF Serves
  <2>2. None \notin Prompts
    BY BusAssumption DEF Texts
  <2>3. \A i \in DOMAIN cli.box : FALSE
    BY <1>2, <2>2, SmoothParts, NothingRead DEF OneAtATime, OneTurn
  <2>4. cli.turn = None
    BY <1>2 DEF OneAtATime, OneTurn, Underway
  <2>5. OneTurn(bus', cli)
    BY <1>2, <2>1, <2>3, <2>4 DEF OneAtATime, OneTurn
  <2>6. OneStory(bus', cli, lines[1])
    BY <1>2, <2>1 DEF OneAtATime, OneStory, Underway
  <2>7. ASSUME NEW p \in Prompts, p # x PROVE BusEases(bus, bus', p)
    BY <1>2, <2>7, MovesEase DEF Texts
  <2>8. OneOwed(bus', cli, sent')
    <3>1. sent \subseteq Prompts
      BY IInvParts DEF Smooth, HistoryOK
    <3>2. ASSUME NEW p \in sent', cli.runs[p] = 0 PROVE p \in Q
      BY <1>2, <2>2, <3>1, <3>2 DEF OneAtATime, OneOwed
    <3>3. ASSUME NEW p \in Prompts, p # x PROVE ~Untyped(bus', p) /\ ~(Unsettled(bus', p) /\ cli.runs[p] = 0)
      BY <1>2, <2>2, <2>7, <3>3 DEF OneAtATime, OneOwed, BusEases
    <3> QED
      BY <1>2, <3>2, <3>3 DEF OneOwed
  <2> QED
    BY <2>5, <2>6, <2>8 DEF OneAtATime
<1> QED
  BY <1>1, <1>2 DEF Serves

LEMMA SendOne == ASSUME Uncut, Smooth, GivenOnce, OneAtATime, NEW q \in Prompts, Send(q) PROVE OneAtATime'
<1>1. cli' = cli /\ lines' = lines
  BY SendSerene DEF cliVars
<1>2. CASE MustQueue(bus) /\ Refuses(bus.queue, q)
  <2>1. bus' = bus /\ sent' = sent
    BY <1>2, SendSerene
  <2> QED
    BY <1>1, <2>1 DEF OneAtATime
<1>3. CASE ~(MustQueue(bus) /\ Refuses(bus.queue, q))
  <2> DEFINE Q == Queued(bus.queue) \cup {q}
  <2>1. Serves(bus, bus', Q) /\ sent' = sent \cup {q}
    BY <1>3, SendSerene
  <2>2. Q \in SUBSET Prompts
    BY SmoothParts
  <2>3. Queued(bus.queue) \subseteq Q /\ \A p \in sent' : p \in sent \/ p \in Q
    BY <2>1
  <2> HIDE DEF Q
  <2> QED
    BY <1>1, <2>1, <2>2, <2>3, OneServes
<1> QED
  BY <1>2, <1>3

LEMMA SettleTimerOne == ASSUME Uncut, Smooth, GivenOnce, OneAtATime, SettleTimer PROVE OneAtATime'
<1>1. cli' = cli /\ lines' = lines /\ sent' = sent /\ Serves(bus, bus', Queued(bus.queue))
  BY SettleTimerSerene DEF cliVars, Unlogged
<1>2. Queued(bus.queue) \in SUBSET Prompts
  BY SmoothParts
<1> QED
  BY <1>1, <1>2, OneServes

LEMMA FallbackOne == ASSUME Uncut, Smooth, OneAtATime, FallbackFires PROVE OneAtATime'
<1>1. /\ Apart(bus, bus') /\ Same(bus, bus') /\ bus'.queue = bus.queue
      /\ cli' = cli /\ lines' = lines /\ sent' = sent
  BY FallbackSerene DEF cliVars, Unlogged
<1>2. \A p \in Prompts : BusEases(bus, bus', p)
  BY <1>1, ApartEase
<1> QED
  BY <1>1, <1>2, EasesKept DEF Same

LEMMA ReadFrameOne == ASSUME Uncut, Smooth, OneAtATime, ReadFrame PROVE OneAtATime'
<1>1. /\ Apart(bus, bus') /\ bus'.queue = bus.queue
      /\ bus'.op = bus.op /\ bus'.settle = bus.settle /\ bus'.lastEnd = bus.lastEnd
      /\ cli' = cli /\ lines' = lines /\ sent' = sent
  BY ReadFrameSerene
<1>2. \A p \in Prompts : BusEases(bus, bus', p)
  BY <1>1, ApartEase
<1> QED
  BY <1>1, <1>2, EasesKept

LEMMA VerifyFiresOne ==
  ASSUME Uncut, Smooth, GivenOnce, OneAtATime, Patient = TRUE, NEW x \in Texts, VerifyFires(x)
  PROVE  OneAtATime'
<1>1. /\ cli' = cli /\ lines' = lines /\ sent' = sent /\ bus'.queue = bus.queue /\ x \in Prompts
      /\ Same(bus, bus') /\ Verifying(bus, x)
      /\ \/ Moves(bus, bus', {}, {}, {})
         \/ ~bus.streaming /\ Moves(bus, bus', {x}, {}, {})
  BY VerifyFiresSerene DEF cliVars, Unlogged
<1>2. CASE Moves(bus, bus', {}, {}, {})
  <2>1. ASSUME NEW p \in Prompts PROVE BusEases(bus, bus', p)
    BY <1>2, MovesEase DEF Texts
  <2> QED
    BY <1>1, <2>1, EasesKept DEF Same
<1>3. CASE ~bus.streaming /\ Moves(bus, bus', {x}, {}, {})
  <2>1. cli.runs[x] = 0
    BY <1>1, <1>3, RetypedIsLost
  <2>2. x = bus.op
    BY <1>1, <2>1 DEF OneAtATime, OneOwed, Unsettled
  <2>3. ASSUME NEW p \in Prompts, p # x PROVE BusEases(bus, bus', p)
    BY <1>3, <2>3, MovesEase DEF Texts
  <2> QED
    BY <1>1, <2>2, <2>3, OneKept DEF Same, BusEases
<1> QED
  BY <1>1, <1>2, <1>3

LEMMA HoldDeadlineOne ==
  ASSUME Uncut, Smooth, OneAtATime, NEW x \in Texts, HoldDeadline(x)
  PROVE  OneAtATime'
<1>1. /\ cli' = cli /\ lines' = lines /\ sent' = sent /\ bus'.queue = bus.queue /\ x \in Prompts
      /\ Same(bus, bus') /\ bus.hold[x] # None /\ Moves(bus, bus', {}, {x}, {})
  BY HoldDeadlineSerene DEF cliVars, Unlogged
<1>2. \A y \in {x} \cup {} : Unsettled(bus, y)
  BY <1>1 DEF Unsettled
<1>3. \A p \in Prompts : (Untyped(bus', p) => Untyped(bus, p)) /\ (Unsettled(bus', p) => Unsettled(bus, p))
  BY <1>1, <1>2, MovesUnsettled
<1> QED
  BY <1>1, <1>3, OneKept DEF Same

\* A step of the PTY layer: the box changes, the turn does not.
LEMMA OneTyped ==
  ASSUME OneAtATime, lines' = lines, sent' = sent, bus'.queue = bus.queue,
         bus'.op = bus.op, bus'.lastEnd = bus.lastEnd, bus'.settle = bus.settle,
         cli'.turn = cli.turn, cli'.turns = cli.turns, cli'.runs = cli.runs,
         \A i \in DOMAIN cli'.box : i = 1 /\ cli'.box[i] = bus.op /\ cli.turn = None,
         \A p \in Prompts : (Untyped(bus', p) => Untyped(bus, p)) /\ (Unsettled(bus', p) => Unsettled(bus, p))
  PROVE  OneAtATime'
BY DEF OneAtATime, OneTurn, OneStory, OneOwed, Underway

LEMMA PtyTypeOne ==
  ASSUME Uncut, Smooth, GivenOnce, OneAtATime, NEW i \in DOMAIN bus.deliveries, PtyType(i)
  PROVE  OneAtATime'
<1> DEFINE x == bus.deliveries[i].text
<1>1. /\ x \in Prompts /\ ~bus.deliveries[i].typed /\ lines' = lines /\ sent' = sent
      /\ bus'.queue = bus.queue /\ Types(bus, bus', i) /\ Same(bus, bus')
      /\ cli' = [cli EXCEPT !.box = Append(@, x)] \/ cli' = cli
  BY PtyTypeSerene
<1>2. bus \in BusStates /\ cli \in CliStates /\ cli.box \in Seq(Inputs) /\ x \in Inputs
  BY <1>1, SmoothParts DEF Inputs, Texts
<1>3. /\ cli'.box \in {cli.box, Append(cli.box, x)} /\ cli'.runs = cli.runs
      /\ cli'.turn = cli.turn /\ cli'.turns = cli.turns
  <2> DEFINE box == Append(cli.box, x)
  <2>1. CASE cli' = cli
    BY <2>1
  <2>2. CASE cli' = [cli EXCEPT !.box = box]
    <3> HIDE DEF box
    <3>1. cli'.box = box /\ cli'.runs = cli.runs /\ cli'.turn = cli.turn /\ cli'.turns = cli.turns
      BY <1>2, <2>2, Zenon DEF CliStates
    <3> QED
      BY <3>1 DEF box
  <2> QED
    BY <1>1, <2>1, <2>2
<1>4. x = bus.op /\ cli.runs[x] = 0 /\ ~Contains(cli.box, x)
  <2>1. Untyped(bus, x)
    BY <1>1 DEF Untyped
  <2> QED
    BY <1>1, <2>1 DEF OneAtATime, OneOwed, GivenOnce, Given
<1>5. cli.turn = None
  BY <1>4 DEF OneAtATime, OneTurn, Underway
<1>6. \A j \in DOMAIN cli.box : FALSE
  BY <1>4 DEF OneAtATime, OneTurn, Contains
<1>7. \A j \in DOMAIN cli'.box : j = 1 /\ cli'.box[j] = bus.op /\ cli.turn = None
  <2> DEFINE s == cli.box
             y == x
  <2>1. s \in Seq(Inputs) /\ y \in Inputs /\ (\A j \in DOMAIN s : FALSE) /\ cli'.box \in {s, Append(s, y)} /\ y = bus.op
    BY <1>2, <1>3, <1>4, <1>6
  <2> HIDE DEF s, y
  <2>2. Len(s) = 0
    BY <2>1
  <2> QED
    BY <1>5, <2>1, <2>2
<1>8. ASSUME NEW p \in Prompts PROVE (Untyped(bus', p) => Untyped(bus, p)) /\ (Unsettled(bus', p) => Unsettled(bus, p))
  BY <1>1 DEF Types, Untyped, Unsettled, Verifying
<1> QED
  BY <1>1, <1>3, <1>7, <1>8, OneTyped DEF Same

LEMMA PtySettleOne ==
  ASSUME Uncut, Smooth, GivenOnce, OneAtATime, NEW i \in DOMAIN bus.deliveries, PtySettle(i)
  PROVE  OneAtATime'
<1> DEFINE x == bus.deliveries[i].text
<1>1. /\ x \in Prompts /\ bus'.queue = bus.queue /\ Same(bus, bus') /\ lines' = lines /\ sent' = sent
  BY PtySettleSerene
<1>2. PICK outcome \in Verdicts :
        /\ ClearsBox(i, outcome)
        /\ Moves(bus, bus', {}, VerdictArms(bus, i, outcome), VerdictHolds(bus, i, outcome))
  BY PtySettleSerene
<1>3. cli \in CliStates /\ cli.box \in Seq(Inputs)
  BY SmoothParts
<1>4. /\ cli'.runs = cli.runs /\ cli'.turn = cli.turn /\ cli'.turns = cli.turns
      /\ cli'.box \in {cli.box, Without(cli.box, x)}
  <2> DEFINE box == Without(cli.box, x)
  <2>1. CASE cli' = cli
    BY <2>1
  <2>2. CASE cli' = [cli EXCEPT !.box = box]
    <3> HIDE DEF box
    <3>1. cli'.box = box /\ cli'.runs = cli.runs /\ cli'.turn = cli.turn /\ cli'.turns = cli.turns
      BY <1>3, <2>2, Zenon DEF CliStates
    <3> QED
      BY <3>1 DEF box
  <2> QED
    BY <1>2, <2>1, <2>2 DEF ClearsBox, Cleared
<1>5. \A j \in DOMAIN cli'.box : j = 1 /\ cli'.box[j] = bus.op /\ cli.turn = None
  <2> DEFINE s == cli.box
             y == x
             u == Without(s, y)
  <2>1. s \in Seq(Inputs) /\ cli'.box \in {s, u} /\ \A j \in DOMAIN s : j = 1 /\ s[j] = bus.op /\ cli.turn = None
    BY <1>3, <1>4 DEF OneAtATime, OneTurn
  <2> HIDE DEF s, y
  <2>2. \A j \in DOMAIN u : u[j] \in {bus.op}
    BY <2>1, WithoutTexts
  <2>3. /\ Once(s, bus.op) => Once(u, bus.op)
        /\ Contains(u, bus.op) => Contains(s, bus.op)
    BY <2>1, WithoutEffect
  <2>4. Once(s, bus.op) /\ (Contains(s, bus.op) => cli.turn = None)
    BY <2>1 DEF Once, Contains
  <2>5. u \in Seq(Inputs)
    BY <2>1, WithoutTyped
  <2> HIDE DEF u
  <2>6. ASSUME NEW j \in DOMAIN u PROVE j = 1 /\ u[j] = bus.op /\ cli.turn = None
    <3>1. 1 \in DOMAIN u
      BY <2>5
    <3> QED
      BY <2>2, <2>3, <2>4, <3>1 DEF Once, Contains
  <2> QED
    BY <2>1, <2>6
<1>6. \A y \in VerdictArms(bus, i, outcome) \cup VerdictHolds(bus, i, outcome) : Unsettled(bus, y)
  BY DEF VerdictArms, VerdictHolds, GivesUp, Unsettled
<1>7. \A p \in Prompts : (Untyped(bus', p) => Untyped(bus, p)) /\ (Unsettled(bus', p) => Unsettled(bus, p))
  BY <1>2, <1>6, MovesUnsettled
<1> QED
  BY <1>1, <1>4, <1>5, <1>7, OneTyped DEF Same

LEMMA StoryTail ==
  ASSUME NEW b, NEW c, NEW s \in Seq(Lines), s # <<>>, OneStory(b, c, s),
         NEW d, d.op = b.op, d.lastEnd = b.lastEnd
  PROVE  OneStory(d, c, Tail(s))
<1> DEFINE u == Tail(s)
<1>1. \A i \in DOMAIN u : i + 1 \in DOMAIN s /\ u[i] = s[i + 1]
  OBVIOUS
<1>2. DOMAIN u \subseteq Nat
  OBVIOUS
<1> HIDE DEF u
<1>3. \A i \in DOMAIN u : u[i].kind \in {"prompt", "end", "compact"}
  BY <1>1 DEF OneStory
<1>4. \A i \in DOMAIN u : u[i].kind = "prompt" => Underway(d, c) /\ u[i].text = d.op
  BY <1>1 DEF OneStory, Underway
<1>5. ASSUME NEW i \in DOMAIN u, u[i].kind = "end", u[i].id # d.lastEnd
      PROVE  u[i].id = c.turns /\ c.turn = None /\ Underway(d, c) /\ LastTurn(u, i)
  <2>1. c.turn = None /\ Underway(b, c) /\ u[i].id = c.turns /\ LastTurn(s, i + 1)
    BY <1>1, <1>5 DEF OneStory
  <2>2. LastTurn(u, i)
    BY <1>1, <1>2, <2>1 DEF LastTurn
  <2> QED
    BY <2>1, <2>2 DEF Underway
<1>6. OneStory(d, c, u)
  BY <1>3, <1>4, <1>5 DEF OneStory
<1> QED
  BY <1>6 DEF u

\* A line that is not a turn's end leaves the counted prompt as it is.
LEMMA TailKept ==
  ASSUME Uncut, Smooth, OneAtATime, lines[1] # <<>>, lines'[1] = Tail(lines[1]), cli' = cli, sent' = sent,
         bus'.queue = bus.queue, bus'.op = bus.op, bus'.lastEnd = bus.lastEnd,
         bus'.settle => bus.settle \/ bus.op = None,
         \A p \in Prompts : (Untyped(bus', p) => Untyped(bus, p)) /\ (Unsettled(bus', p) => Unsettled(bus, p))
  PROVE  OneAtATime'
<1>1. lines[1] \in Seq(Lines)
  BY SmoothParts
<1>2. OneStory(bus', cli, lines'[1])
  BY <1>1, StoryTail DEF OneAtATime
<1>3. OneTurn(bus', cli)
  BY DEF OneAtATime, OneTurn, Underway
<1>4. OneOwed(bus', cli, sent)
  BY DEF OneAtATime, OneOwed
<1> QED
  BY <1>2, <1>3, <1>4 DEF OneAtATime

\* The first line of the message that ends the counted prompt's turn.
LEMMA EndsOne ==
  ASSUME Uncut, Smooth, GivenOnce, OneAtATime, cli' = cli, sent' = sent,
         lines[1] # <<>>, lines'[1] = Tail(lines[1]), Head(lines[1]).kind = "end",
         Head(lines[1]).id # bus.lastEnd, Apart(bus, bus'), bus'.queue = bus.queue,
         bus'.op = None, bus'.lastEnd = Head(lines[1]).id
  PROVE  OneAtATime'
<1> DEFINE s == lines[1]
           u == lines'[1]
           l == Head(s)
<1>1. s \in Seq(Lines) /\ bus \in BusStates /\ cli \in CliStates
  BY SmoothParts
<1>2. /\ l = s[1] /\ 1 \in DOMAIN s /\ \A i \in DOMAIN u : i + 1 \in DOMAIN s /\ u[i] = s[i + 1] /\ i + 1 > 1
  <2>1. s # <<>> /\ u = Tail(s)
    OBVIOUS
  <2> HIDE DEF s, u
  <2> QED
    BY <1>1, <2>1
<1>3. l.id = cli.turns /\ cli.turn = None /\ Underway(bus, cli) /\ LastTurn(s, 1)
  <2>1. s[1].kind = "end" /\ s[1].id # bus.lastEnd
    BY <1>2
  <2> QED
    BY <1>2, <2>1 DEF OneAtATime, OneStory
<1>4. bus.op \in Prompts /\ cli.runs[bus.op] = 1
  <2>1. bus.op \in PromptOrNone
    BY <1>1, Zenon DEF BusStates
  <2> QED
    BY <1>3, <2>1 DEF Underway, PromptOrNone
<1>5. /\ ~Untyped(bus, bus.op)
      /\ ~Contains(cli.box, bus.op)
  BY <1>4 DEF GivenOnce, Given
<1>6. OneTurn(bus', cli)
  <2>1. \A i \in DOMAIN cli.box : FALSE
    BY <1>5 DEF OneAtATime, OneTurn, Contains
  <2>2. cli.turns \in Nat
    BY <1>1, Zenon DEF CliStates
  <2> QED
    BY <1>3, <2>1, <2>2 DEF OneTurn
<1>7. OneStory(bus', cli, u)
  <2>1. \A i \in DOMAIN u : u[i].kind # "prompt" /\ (u[i].kind = "end" => u[i].id = l.id)
    <3> HIDE DEF s, u, l
    <3> QED
      BY <1>2, <1>3 DEF LastTurn
  <2>2. \A i \in DOMAIN u : u[i].kind \in {"prompt", "end", "compact"}
    <3>1. \A i \in DOMAIN s : s[i].kind \in {"prompt", "end", "compact"}
      BY DEF OneAtATime, OneStory
    <3> HIDE DEF s, u, l
    <3> QED
      BY <1>2, <3>1
  <2> QED
    BY <2>1, <2>2 DEF OneStory
<1>8. OneOwed(bus', cli, sent)
  <2>1. ASSUME NEW p \in Prompts PROVE BusEases(bus, bus', p)
    BY ApartEase
  <2>2. \A p \in Prompts : cli.runs[p] = 0 => p # bus.op
    BY <1>4
  <2>3. \A p \in Prompts : ~Untyped(bus', p) /\ ~(Unsettled(bus', p) /\ cli.runs[p] = 0)
    BY <1>5, <2>1, <2>2 DEF OneAtATime, OneOwed, BusEases
  <2>4. \A p \in sent : cli.runs[p] = 0 => p \in Queued(bus'.queue)
    BY <1>4 DEF OneAtATime, OneOwed
  <2> QED
    BY <2>3, <2>4 DEF OneOwed
<1> QED
  BY <1>6, <1>7, <1>8 DEF OneAtATime

LEMMA TailOne == ASSUME Uncut, Smooth, GivenOnce, OneAtATime, TailLine(1) PROVE OneAtATime'
<1> DEFINE l == Head(lines[1])
<1>1. /\ lines[1] # <<>> /\ l \in Lines /\ l = lines[1][1] /\ lines'[1] = Tail(lines[1]) /\ cli' = cli /\ sent' = sent
      /\ l.kind = "prompt" => bus' = PromptLine(bus, l.text)
      /\ l.kind = "end" => bus' = TurnEnd(bus, l.id, l.text, l.inject, TRUE)
      /\ l.kind = "compact" => \E tolerant \in BOOLEAN : bus' = CompactLine(bus, l.gen, l.nth, tolerant)
  BY TailEffect
<1>2. bus \in BusStates /\ Steady(bus) /\ Gate(bus) /\ lines[1] \in Seq(Lines)
  BY SmoothParts
<1>3. l.kind = "end" => l.id \in Nat /\ l.text \in Says
  BY <1>1, LineFields
<1>4. l.kind \in {"prompt", "end", "compact"}
  <2> DEFINE s == lines[1]
  <2>1. s \in Seq(Lines) /\ s # <<>> /\ l = s[1] /\ \A i \in DOMAIN s : s[i].kind \in {"prompt", "end", "compact"}
    BY <1>1, <1>2 DEF OneAtATime, OneStory
  <2> HIDE DEF s, l
  <2>2. 1 \in DOMAIN s
    BY <2>1
  <2> QED
    BY <2>1, <2>2
<1>5. CASE l.kind = "prompt"
  <2> DEFINE x == l.text
             d == PromptLine(bus, x)
  <2>1. /\ Steady(d) /\ Moves(bus, d, {}, {}, {})
        /\ d.queue = bus.queue /\ d.op = bus.op /\ d.settle = bus.settle /\ d.streaming
        /\ d.slot = bus.slot /\ d.lastEnd = bus.lastEnd /\ d.silentClosed = None
        /\ x \in Prompts /\ Place(bus, x, 0) => ~Unsettled(d, x)
    BY <1>2, PromptLineSteady, Zenon
  <2>2. bus' = d
    BY <1>1, <1>5
  <2> HIDE DEF d
  <2>3. \A p \in Prompts : (Untyped(bus', p) => Untyped(bus, p)) /\ (Unsettled(bus', p) => Unsettled(bus, p))
    BY <2>1, <2>2, MovesUnsettled
  <2> QED
    BY <1>1, <2>1, <2>2, <2>3, TailKept
<1>6. CASE l.kind = "end"
  <2> DEFINE d == TurnEnd(bus, l.id, l.text, l.inject, TRUE)
             net == HandleTurnEnd(bus, l.text, l.inject, TRUE)
  <2>1. /\ LateLine(bus, l.id) => d = bus
        /\ ~LateLine(bus, l.id) =>
             /\ Apart(bus, d) /\ d.queue = bus.queue /\ d.settle /\ ~d.streaming /\ d.lastEnd = l.id
             /\ d.op = (IF l.id # bus.lastEnd THEN None ELSE bus.op)
             /\ d.slot = net.slot
        /\ Steady(d)
    BY <1>2, <1>3, <1>6, TurnEndSteady, Zenon DEF Uncut
  <2>2. bus' = d
    BY <1>1, <1>6
  <2> HIDE DEF d, net
  <2>3. CASE l.id = bus.lastEnd
    <3>1. \/ bus' = bus
          \/ /\ Apart(bus, bus') /\ bus'.queue = bus.queue /\ bus'.op = bus.op /\ bus'.lastEnd = bus.lastEnd
             /\ bus.op = None
      <4>1. bus.settle => bus.op = None
        BY DEF OneAtATime, OneTurn
      <4>2. ~Stale(bus)
        BY <1>2 DEF Steady, Calm, Stale
      <4> QED
        BY <2>1, <2>2, <2>3, <4>1, <4>2 DEF LateLine
    <3>2. ASSUME NEW p \in Prompts PROVE BusEases(bus, bus', p)
      BY <3>1, ApartEase, EaseSelf
    <3> QED
      BY <1>1, <3>1, <3>2, TailKept DEF BusEases
  <2>4. CASE l.id # bus.lastEnd
    <3>1. /\ Apart(bus, bus') /\ bus'.queue = bus.queue /\ bus'.op = None /\ bus'.lastEnd = l.id
      BY <2>1, <2>2, <2>4 DEF LateLine
    <3> QED
      BY <1>1, <1>6, <2>4, <3>1, EndsOne
  <2> QED
    BY <2>3, <2>4
<1>7. CASE l.kind = "compact"
  <2>1. PICK tolerant \in BOOLEAN : bus' = CompactLine(bus, l.gen, l.nth, tolerant)
    BY <1>1, <1>7
  <2> DEFINE gen == l.gen
             nth == l.nth
             d   == CompactLine(bus, gen, nth, tolerant)
  <2>2. \E xs \in SUBSET HeldTexts(bus) : /\ Steady(d) /\ Same(bus, d) /\ d.queue = bus.queue /\ xs \in SUBSET Prompts
                                          /\ Moves(bus, d, {}, xs, {})
    <3> HIDE DEF gen, nth
    <3> QED
      BY <1>2, CompactLineSteady, Zenon
  <2>3. bus' = d
    BY <2>1
  <2> HIDE DEF d
  <2>4. PICK xs \in SUBSET HeldTexts(bus) : Same(bus, bus') /\ bus'.queue = bus.queue /\ Moves(bus, bus', {}, xs, {})
    BY <2>2, <2>3
  <2>5. \A y \in xs \cup {} : Unsettled(bus, y)
    BY DEF HeldTexts, Unsettled
  <2>6. \A p \in Prompts : (Untyped(bus', p) => Untyped(bus, p)) /\ (Unsettled(bus', p) => Unsettled(bus, p))
    BY <2>4, <2>5, MovesUnsettled
  <2> QED
    BY <1>1, <2>4, <2>6, TailKept DEF Same
<1> QED
  BY <1>4, <1>5, <1>6, <1>7

\* A line that is written follows the ones that were.
LEMMA Written ==
  ASSUME NEW S, NEW s \in Seq(S), NEW ms \in Seq(S)
  PROVE  \A i \in DOMAIN (s \o ms) :
           \/ i \in DOMAIN s /\ (s \o ms)[i] = s[i]
           \/ i - Len(s) \in DOMAIN ms /\ (s \o ms)[i] = ms[i - Len(s)] /\ \A j \in DOMAIN s : j < i
OBVIOUS

LEMMA OwedStays ==
  ASSUME OneAtATime, CoreStays, \A p \in Prompts : cli'.runs[p] = 0 => cli.runs[p] = 0, sent \subseteq Prompts
  PROVE  OneOwed(bus', cli', sent')
BY DEF OneAtATime, OneOwed, CoreStays, coreVars

LEMMA SentPrompts == ASSUME Smooth PROVE sent \subseteq Prompts
BY IInvParts DEF Smooth, HistoryOK

LEMMA StartTurnOne == ASSUME Uncut, Smooth, GivenOnce, OneAtATime, CoreStays, StartTurn PROVE OneAtATime'
<1> DEFINE x == Head(cli.box)
           l == [kind |-> "prompt", text |-> x]
           s == lines[1]
           u == lines'[1]
<1>1. /\ cli.turn = None /\ cli.box # <<>>
      /\ cli'.box = Tail(cli.box) /\ cli'.turn = Turn(x) /\ cli'.turns = cli.turns + 1
      /\ cli'.runs = GivenMore(x) /\ Write(<<l>>)
  BY SmoothParts, StartTurnEffect
<1>2. bus' = bus /\ sent' = sent /\ sent \subseteq Prompts
  BY SentPrompts DEF CoreStays, coreVars
<1>3. s \in Seq(Lines) /\ cli.box \in Seq(Inputs) /\ cli \in CliStates /\ bus \in BusStates
  BY SmoothParts
<1>4. cli.turns \in Nat /\ cli.runs \in [Texts -> Nat] /\ bus.lastEnd \in Nat
  BY <1>3, Zenon DEF CliStates, BusStates
<1>5. x = bus.op /\ x \in Prompts /\ Contains(cli.box, x) /\ DOMAIN cli'.box = {}
  <2> DEFINE b == cli.box
  <2>1. b \in Seq(Inputs) /\ b # <<>> /\ \A i \in DOMAIN b : i = 1 /\ b[i] = bus.op
    BY <1>1, <1>3 DEF OneAtATime, OneTurn
  <2>2. x \in Prompts
    BY <1>1, TailBox
  <2>3. cli'.box = Tail(b)
    BY <1>1
  <2> HIDE DEF b
  <2>4. 1 \in DOMAIN b /\ Head(b) = b[1]
    BY <2>1
  <2>5. DOMAIN Tail(b) = {}
    <3>1. Len(b) = 1
      <4>1. Len(b) \in Nat /\ DOMAIN b = 1 .. Len(b)
        BY <2>1
      <4>2. Len(b) \in DOMAIN b
        BY <2>4, <4>1
      <4> QED
        BY <2>1, <4>2
    <3> DEFINE t == Tail(b)
    <3>2. t \in Seq(Inputs) /\ Len(t) = 0
      BY <2>1, <3>1
    <3> HIDE DEF t
    <3>3. DOMAIN t = {}
      BY <3>2
    <3> QED
      BY <3>3 DEF t
  <2>6. Head(b) = bus.op /\ Contains(b, Head(b))
    BY <2>1, <2>4 DEF Contains
  <2> QED
    BY <2>2, <2>3, <2>5, <2>6 DEF b
<1>6. cli.runs[x] = 0 /\ cli'.runs[x] = 1
  <2>1. cli.runs[x] = 0
    BY <1>5 DEF GivenOnce, Given
  <2> QED
    BY <1>1, <1>5, <2>1 DEF GivenMore, Texts
<1>7. bus.op # None /\ ~Underway(bus, cli)
  BY <1>5, <1>6, BusAssumption DEF Underway, Texts
<1>8. bus.lastEnd <= cli.turns
  BY DEF OneAtATime, OneTurn
<1>9. Underway(bus, cli')
  BY <1>1, <1>4, <1>5, <1>6, <1>7, <1>8 DEF Underway
<1>10. OneTurn(bus, cli')
  <2>1. /\ cli'.turn.opener = bus.op /\ cli'.turn.about = {bus.op} /\ cli'.turn.owes = {bus.op}
        /\ cli'.turn.id = cli'.turns
    BY <1>1, <1>5 DEF Turn, About
  <2>2. bus.settle => bus.op = None
    BY DEF OneAtATime, OneTurn
  <2> QED
    BY <1>1, <1>4, <1>5, <1>8, <1>9, <2>1, <2>2 DEF OneTurn
<1>11. OneStory(bus, cli', u)
  <2>1. l.kind = "prompt" /\ l.text = bus.op /\ l \in Lines
    <3>1. x \in Inputs
      BY <1>5 DEF Inputs, Texts
    <3> QED
      BY <1>5, <3>1 DEF Lines
  <2>2. <<l>> \in Seq(Lines) /\ u = s \o <<l>>
    <3> HIDE DEF l
    <3>1. <<l>> \in Seq(Lines) /\ \A i \in DOMAIN <<l>> : <<l>>[i].kind \in {"prompt", "absorbed", "end", "compact"}
      BY <2>1, OneLine
    <3> QED
      BY <1>1, <3>1, WriteSerene
  <2>3. \A i \in DOMAIN s : s[i].kind \in {"end", "compact"} /\ (s[i].kind = "end" => s[i].id = bus.lastEnd)
    BY <1>7 DEF OneAtATime, OneStory
  <2> HIDE DEF l, s, u
  <2>4. \A i \in DOMAIN u : (i \in DOMAIN s /\ u[i] = s[i]) \/ u[i] = l
    BY <1>3, <2>2, Written
  <2> QED
    BY <1>9, <2>1, <2>3, <2>4 DEF OneStory
<1>12. OneOwed(bus', cli', sent')
  <2>1. \A p \in Prompts : cli'.runs[p] = 0 => cli.runs[p] = 0
    BY <1>1, <1>4 DEF GivenMore, Texts
  <2> QED
    BY <1>2, <2>1, OwedStays
<1> QED
  BY <1>2, <1>10, <1>11, <1>12 DEF OneAtATime

LEMMA AbsorbInputOne == ASSUME Uncut, Smooth, OneAtATime, AbsorbInput PROVE FALSE
<1>1. cli.turn # None /\ cli.box # <<>> /\ cli.box \in Seq(Inputs)
  BY SmoothParts, AbsorbInputEffect
<1>2. 1 \in DOMAIN cli.box
  BY <1>1
<1> QED
  BY <1>1, <1>2 DEF OneAtATime, OneTurn

LEMMA CallReplyOne == ASSUME Uncut, Smooth, OneAtATime, CoreStays, CallReply(connected) PROVE OneAtATime'
<1>1. PICK p \in cli.turn.owes :
        /\ cli.turn # None /\ cli'.box = cli.box /\ cli'.turn = [cli.turn EXCEPT !.owes = @ \ {p}]
        /\ cli'.turns = cli.turns /\ cli'.runs = cli.runs /\ lines' = lines
  BY SmoothParts, CallReplyEffect
<1>3. cli.turn \in Turns
  BY <1>1, SmoothParts DEF CliStates
<1>4. /\ cli'.turn.opener = cli.turn.opener /\ cli'.turn.about = cli.turn.about
      /\ cli'.turn.owes \subseteq cli.turn.owes /\ cli'.turn.id = cli.turn.id
  BY <1>1, <1>3 DEF Turns
<1>5. bus' = bus /\ sent' = sent /\ sent \subseteq Prompts
  BY SentPrompts DEF CoreStays, coreVars
<1>6. Underway(bus, cli')
  BY <1>1 DEF OneAtATime, OneTurn, Underway
<1>7. \A i \in DOMAIN cli.box : FALSE
  BY <1>1 DEF OneAtATime, OneTurn
<1>8. OneTurn(bus, cli')
  BY <1>1, <1>4, <1>6, <1>7 DEF OneAtATime, OneTurn
<1>9. OneStory(bus, cli', lines[1])
  BY <1>1, <1>6 DEF OneAtATime, OneStory
<1>10. OneOwed(bus', cli', sent')
  BY <1>1, <1>5, OwedStays
<1> QED
  BY <1>1, <1>5, <1>8, <1>9, <1>10 DEF OneAtATime

LEMMA EndTurnOne == ASSUME Uncut, Smooth, OneAtATime, CoreStays, EndTurn PROVE OneAtATime'
<1> DEFINE s == lines[1]
           u == lines'[1]
           n == cli.turn.id
<1>1. PICK text \in {cli.turn.about, None}, ls \in Seq(Lines) :
        /\ cli.turn # None /\ cli'.box = cli.box /\ cli'.turn = None /\ cli'.turns = cli.turns /\ cli'.runs = cli.runs
        /\ \A i \in DOMAIN ls : ls[i].kind = "end" /\ ls[i].id = cli.turn.id /\ ls[i].text \in {text, None}
        /\ lines'[1] = lines[1] \o ls
  BY EndLines
<1>2. bus' = bus /\ sent' = sent /\ sent \subseteq Prompts /\ s \in Seq(Lines)
  BY SentPrompts, SmoothParts DEF CoreStays, coreVars
<1>3. Underway(bus, cli) /\ n = cli.turns
  BY <1>1 DEF OneAtATime, OneTurn
<1>4. Underway(bus, cli')
  BY <1>1, <1>3 DEF Underway
<1>5. OneTurn(bus, cli')
  BY <1>1 DEF OneAtATime, OneTurn
<1>6. OneStory(bus, cli', u)
  <2>1. /\ \A i \in DOMAIN s : s[i].kind \in {"prompt", "end", "compact"}
        /\ \A i \in DOMAIN s : s[i].kind = "prompt" => s[i].text = bus.op
        /\ \A i \in DOMAIN s : s[i].kind = "end" => s[i].id = bus.lastEnd
    BY <1>1 DEF OneAtATime, OneStory
  <2>2. u = s \o ls /\ \A i \in DOMAIN ls : ls[i].kind = "end" /\ ls[i].id = n
    BY <1>1
  <2> HIDE DEF s, u, n
  <2>3. \A i \in DOMAIN u : \/ i \in DOMAIN s /\ u[i] = s[i]
                            \/ u[i].kind = "end" /\ u[i].id = n /\ \A j \in DOMAIN s : j < i
    BY <1>2, <2>2, Written
  <2>4. DOMAIN u \subseteq Nat /\ DOMAIN s \subseteq Nat
    BY <1>2, <2>2
  <2>5. ASSUME NEW i \in DOMAIN u, u[i].kind = "end", u[i].id # bus.lastEnd
        PROVE  u[i].id = cli'.turns /\ LastTurn(u, i)
    <3>1. u[i].id = n /\ \A j \in DOMAIN s : j < i
      BY <2>1, <2>3, <2>5
    <3>2. ASSUME NEW j \in DOMAIN u, j > i PROVE u[j].kind = "end" /\ u[j].id = n
      <4>1. j \notin DOMAIN s
        BY <2>4, <3>1, <3>2
      <4> QED
        BY <2>3, <4>1
    <3> QED
      BY <1>1, <1>3, <3>1, <3>2 DEF LastTurn
  <2> QED
    BY <1>1, <1>4, <2>1, <2>3, <2>5 DEF OneStory
<1>7. OneOwed(bus', cli', sent')
  BY <1>1, <1>2, OwedStays
<1> QED
  BY <1>2, <1>5, <1>6, <1>7 DEF OneAtATime

LEMMA CompactionOne ==
  ASSUME Uncut, Smooth, OneAtATime, CoreStays, StartCompaction \/ EndCompaction PROVE OneAtATime'
<1> DEFINE l == [kind |-> "compact", gen |-> cli.gen, nth |-> cli.compactions + 1]
           s == lines[1]
           u == lines'[1]
<1>1. /\ cli'.box = cli.box /\ cli'.turn = cli.turn /\ cli'.turns = cli.turns /\ cli'.runs = cli.runs
      /\ Write(<<l>>) \/ lines' = lines
  BY SmoothParts, CompactionEffect
<1>2. bus' = bus /\ sent' = sent /\ sent \subseteq Prompts /\ s \in Seq(Lines) /\ cli \in CliStates /\ cli.gen = 1
  BY SentPrompts, SmoothParts DEF CoreStays, coreVars
<1>3. Underway(bus, cli') <=> Underway(bus, cli)
  BY <1>1 DEF Underway
<1>4. OneTurn(bus, cli')
  BY <1>1, <1>3 DEF OneAtATime, OneTurn
<1>5. OneOwed(bus', cli', sent')
  BY <1>1, <1>2, OwedStays
<1>6. CASE lines' = lines
  <2>1. OneStory(bus, cli', u)
    BY <1>1, <1>3, <1>6 DEF OneAtATime, OneStory
  <2> QED
    BY <1>2, <1>4, <1>5, <2>1 DEF OneAtATime
<1>7. CASE Write(<<l>>)
  <2>1. l \in Lines /\ l.kind = "compact"
    <3>1. cli.compactions \in Nat
      BY <1>2, Zenon DEF CliStates
    <3> QED
      BY <1>2, <3>1 DEF Lines
  <2>2. <<l>> \in Seq(Lines) /\ u = s \o <<l>>
    <3> HIDE DEF l
    <3>1. <<l>> \in Seq(Lines) /\ \A i \in DOMAIN <<l>> : <<l>>[i].kind \in {"prompt", "absorbed", "end", "compact"}
      BY <2>1, OneLine
    <3> QED
      BY <1>7, <3>1, WriteSerene
  <2>3. OneStory(bus, cli', u)
    <3>1. OneStory(bus, cli, s)
      BY DEF OneAtATime
    <3> HIDE DEF l, s, u
    <3>2. \A i \in DOMAIN u : (i \in DOMAIN s /\ u[i] = s[i]) \/ u[i] = l
      BY <1>2, <2>2, Written
    <3>3. ASSUME NEW i \in DOMAIN u, u[i].kind = "end", u[i].id # bus.lastEnd
          PROVE  u[i].id = cli'.turns /\ cli'.turn = None /\ Underway(bus, cli') /\ LastTurn(u, i)
      <4>1. i \in DOMAIN s /\ u[i] = s[i]
        BY <2>1, <3>2, <3>3
      <4>2. LastTurn(s, i) /\ s[i].id = cli.turns /\ cli.turn = None /\ Underway(bus, cli)
        BY <3>1, <3>3, <4>1 DEF OneStory
      <4>3. LastTurn(u, i)
        BY <2>1, <3>2, <4>1, <4>2 DEF LastTurn
      <4> QED
        BY <1>1, <1>3, <4>1, <4>2, <4>3
    <3> QED
      BY <1>3, <2>1, <3>1, <3>2, <3>3 DEF OneStory
  <2> QED
    BY <1>2, <1>4, <1>5, <2>3 DEF OneAtATime
<1> QED
  BY <1>1, <1>6, <1>7

LEMMA OneCliStep ==
  ASSUME Uncut, MaxAmbient = 0, Smooth, GivenOnce, OneAtATime, CoreStays,
         \/ StartTurn \/ StartAmbientTurn \/ AbsorbInput \/ CallReply(connected) \/ EndTurn
         \/ StartCompaction \/ EndCompaction
  PROVE  OneAtATime'
<1>1. ~StartAmbientTurn
  <2>1. cli \in CliStates
    BY SmoothParts
  <2>2. cli.ambient \in Nat
    BY <2>1, Zenon DEF CliStates
  <2> QED
    BY <2>1, <2>2, StartAmbientTurnEffect
<1> QED
  BY <1>1, StartTurnOne, AbsorbInputOne, CallReplyOne, EndTurnOne, CompactionOne

LEMMA OneStep ==
  ASSUME Uncut, Patient = TRUE, MaxAmbient = 0, Smooth, GivenOnce, OneAtATime, [Next]_vars
  PROVE  OneAtATime'
<1>1. CASE Next
  <2>1. CASE \E p \in Prompts : Send(p)
    BY <2>1, SendOne
  <2>2. CASE \E i \in DOMAIN bus.deliveries : PtyType(i) \/ PtySettle(i)
    BY <2>2, PtyTypeOne, PtySettleOne
  <2>3. CASE TailLine(1)
    BY <2>3, TailOne
  <2>4. CASE ReadFrame
    BY <2>4, ReadFrameOne
  <2>5. CASE SettleTimer
    BY <2>5, SettleTimerOne
  <2>6. CASE \E x \in Texts : VerifyFires(x) \/ HoldDeadline(x)
    BY <2>6, VerifyFiresOne, HoldDeadlineOne
  <2>7. CASE FallbackFires
    BY <2>7, FallbackOne
  <2>8. CASE /\ \/ StartTurn \/ StartAmbientTurn \/ AbsorbInput \/ CallReply(connected) \/ EndTurn
                \/ StartCompaction \/ EndCompaction
             /\ UNCHANGED coreVars
    BY <2>8, OneCliStep DEF CoreStays
  <2> QED
    BY <1>1, <2>1, <2>2, <2>3, <2>4, <2>5, <2>6, <2>7, <2>8, SmoothSteps
<1>2. CASE UNCHANGED vars
  <2>1. bus' = bus /\ sent' = sent /\ cli' = cli /\ lines' = lines
    BY <1>2 DEF vars, coreVars, cliVars
  <2> QED
    BY <2>1 DEF OneAtATime
<1> QED
  BY <1>1, <1>2

LEMMA OneInit == ASSUME Uncut, CoreInit PROVE OneAtATime
<1>1. bus = StartedBus /\ sent = {} /\ cli = IdleCli(1) /\ lines[1] = <<>>
  BY DEF CoreInit, CliInit, Uncut
<1>2. cli.box = <<>> /\ cli.turn = None /\ cli.turns = 0
  BY <1>1, Zenon DEF IdleCli
<1>3. /\ bus.deliveries = <<>> /\ bus.op = None /\ bus.lastEnd = 0
      /\ \A x \in Texts : bus.verify[x] = "none" /\ bus.hold[x] = None
  BY <1>1, StartedSteady
<1>4. OneTurn(bus, cli) /\ OneStory(bus, cli, lines[1])
  BY <1>1, <1>2, <1>3 DEF OneTurn, OneStory
<1>5. \A p \in Prompts : ~Untyped(bus, p) /\ ~Unsettled(bus, p)
  BY <1>3 DEF Untyped, Unsettled, Verifying, Texts
<1> QED
  BY <1>1, <1>4, <1>5 DEF OneAtATime, OneOwed

\* The invariant of one turn at a time.
Single == Smooth /\ GivenOnce /\ OneAtATime

LEMMA SingleAlways ==
  ASSUME Uncut, Patient = TRUE, MaxAmbient = 0, MaxCompactions <= 1
  PROVE  Spec => []Single
<1>1. CoreInit => Single
  BY SmoothInit, GivenInit, OneInit DEF Single
<1>2. Single /\ [Next]_vars => Single'
  BY SmoothStep, GivenStep, OneStep, OneIsAlone DEF Single
<1> QED
  BY <1>1, <1>2, PTL DEF Spec

LEMMA QueuedIsQueue ==
  ASSUME NEW q \in Queues, Matched(q), NEW p \in Queued(q)
  PROVE  HasQueue(q)
<1>1. PICK c \in Chats : p \in ToSet(q.lanes[c])
  BY DEF Queued
<1>2. q.lanes[c] # <<>>
  BY <1>1 DEF ToSet
<1> QED
  BY <1>1, <1>2 DEF Matched, HasQueue

LEMMA OwedBusy == ASSUME Uncut, Single PROVE OwedIsBusy
<1> SUFFICES ASSUME NEW p \in sent, cli.runs[p] = 0 PROVE Busy(bus)
  BY DEF OwedIsBusy
<1>1. bus \in BusStates /\ Gate(bus) /\ sent \subseteq Prompts
  BY SmoothParts, SentPrompts DEF Single
<1>2. CASE p \in Queued(bus.queue)
  <2>1. bus.queue \in Queues
    BY <1>1, Zenon DEF BusStates
  <2>2. Matched(bus.queue)
    BY <1>1 DEF Gate, Parts, Admissible
  <2> QED
    BY <1>2, <2>1, <2>2, QueuedIsQueue DEF Busy
<1>3. CASE p = bus.op
  <2>1. bus.pending \in {0, 1} /\ bus.pending # 0
    BY <1>1, <1>3, BusAssumption DEF Gate, Parts, Counted, Texts
  <2> QED
    BY <2>1 DEF Busy
<1> QED
  BY <1>2, <1>3 DEF Single, OneAtATime, OneOwed

\* While nothing cuts a turn short and the CLI runs no turn of its own, a prompt
\* the model was not given is work the bus reports to the shutdown drain, through
\* a swallowed keystroke and a compaction too: it waits in the queue or holds the
\* operation slot until its turn's end is read (busyAgents of src/bus/core.ts).
THEOREM UncutOwedIsBusy ==
  ASSUME Uncut, Patient = TRUE, MaxAmbient = 0, MaxCompactions <= 1 PROVE Spec => []OwedIsBusy
BY SingleAlways, OwedBusy, PTL

--------------------------------------------------------------------------------
(* Answers go home, once *)

\* A reply on its way is the running turn's, whose prompt has no answer yet.
RepliesHome(b, c, fs, fin) ==
  /\ fs # <<>> =>
       /\ Len(fs) = 1 /\ c.turn # None /\ c.turn.owes = {} /\ fin[b.op] = <<>>
       /\ fs[1].about = {b.op} /\ fs[1].named \in {None, Chat[b.op]}
  /\ c.turn # None /\ c.turn.owes # {} => fs = <<>> /\ fin[b.op] = <<>>

\* The routing slot is the counted prompt's, or of the turn that ended last, and
\* only while that has no answer.
SlotHome(b, c, fin) ==
  /\ b.slot # None => fin[b.slot] = <<>> /\ IF b.op # None THEN b.slot = b.op ELSE c.runs[b.slot] > 0
  /\ b.op # None => b.silentClosed = None
  /\ \A p \in Prompts : c.runs[p] = 0 => fin[p] = <<>>

\* The text of a turn's end answers the counted prompt, or the one that ended
\* last and still has the slot.
EndsHome(b, ls) ==
  \A i \in DOMAIN ls : ls[i].kind = "end" =>
    \/ ls[i].text = None
    \/ ls[i].id # b.lastEnd /\ ls[i].text = {b.op}
    \/ ls[i].id = b.lastEnd /\ (b.op = None /\ b.slot # None => ls[i].text = {b.slot})

\* A prompt has at most one final, in its own chat or in none.
OneAnswer(fin) ==
  \A p \in Prompts : Len(fin[p]) <= 1 /\ \A i \in DOMAIN fin[p] : fin[p][i].to \in {Chat[p], None}

\* The invariant of the answers.
Routed ==
  /\ RepliesHome(bus, cli, frames, finals) /\ SlotHome(bus, cli, finals)
  /\ EndsHome(bus, lines[1]) /\ OneAnswer(finals)

\* What a step that concerns neither turns nor answers leaves alone.
LEMMA RoutedSame ==
  ASSUME Routed, Same(bus, bus'), cli'.turn = cli.turn, cli'.runs = cli.runs,
         lines' = lines, frames' = frames, finals' = finals
  PROVE  Routed'
BY DEF Routed, RepliesHome, SlotHome, EndsHome, OneAnswer, Same

\* Nothing is under way while no prompt is counted.
LEMMA IdleBus ==
  ASSUME Uncut, Single, Routed, bus.op = None
  PROVE  cli.turn = None /\ frames = <<>>
BY DEF Single, OneAtATime, OneTurn, Underway, Routed, RepliesHome

LEMMA RoutedServes ==
  ASSUME Uncut, Single, Routed, cli' = cli, lines' = lines, frames' = frames, finals' = finals,
         NEW Q, Serves(bus, bus', Q), \A p \in Q : Waiting(bus, p, sent)
  PROVE  Routed'
<1>1. bus'.lastEnd = bus.lastEnd
  BY DEF Serves
<1>2. CASE bus'.op = bus.op /\ bus'.slot = bus.slot /\ bus'.silentClosed = bus.silentClosed
  BY <1>1, <1>2 DEF Routed, RepliesHome, SlotHome, EndsHome, OneAnswer
<1>3. ASSUME NEW x \in Prompts, x \in Q, bus.op = None, bus'.op = x, bus'.slot = x, bus'.silentClosed = None
      PROVE  Routed'
  <2>1. cli.turn = None /\ frames = <<>>
    BY <1>3, IdleBus
  <2>2. cli.runs[x] = 0
    BY <1>3 DEF Single, GivenOnce, Given
  <2>3. x # None
    BY BusAssumption DEF Texts
  <2>4. RepliesHome(bus', cli, frames, finals)
    BY <2>1 DEF RepliesHome
  <2>5. SlotHome(bus', cli, finals)
    BY <1>3, <2>2, <2>3 DEF Routed, SlotHome
  <2>6. \A i \in DOMAIN lines[1] : lines[1][i].kind = "end" => lines[1][i].id = bus.lastEnd
    BY <1>3 DEF Single, OneAtATime, OneStory, Underway
  <2>7. EndsHome(bus', lines[1])
    BY <1>1, <1>3, <2>3, <2>6 DEF EndsHome
  <2> QED
    BY <2>4, <2>5, <2>7 DEF Routed
<1> QED
  BY <1>2, <1>3 DEF Serves

LEMMA SendRouted == ASSUME Uncut, Single, Routed, NEW q \in Prompts, Send(q) PROVE Routed'
<1>1. Smooth
  BY DEF Single
<1>2. cli' = cli /\ lines' = lines /\ frames' = frames /\ finals' = finals
  BY <1>1, SendSerene DEF cliVars
<1>3. CASE MustQueue(bus) /\ Refuses(bus.queue, q)
  <2>1. bus' = bus
    BY <1>1, <1>3, SendSerene
  <2> QED
    BY <1>2, <2>1 DEF Routed
<1>4. CASE ~(MustQueue(bus) /\ Refuses(bus.queue, q))
  <2> DEFINE Q == Queued(bus.queue) \cup {q}
  <2>1. Serves(bus, bus', Q) /\ q \notin sent
    BY <1>1, <1>4, SendSerene
  <2>2. \A p \in Q : Waiting(bus, p, sent)
    BY <2>1 DEF Waiting
  <2> HIDE DEF Q
  <2> QED
    BY <1>2, <2>1, <2>2, RoutedServes
<1> QED
  BY <1>3, <1>4

LEMMA SettleTimerRouted == ASSUME Uncut, Single, Routed, SettleTimer PROVE Routed'
<1>1. /\ cli' = cli /\ lines' = lines /\ frames' = frames /\ finals' = finals
      /\ Serves(bus, bus', Queued(bus.queue))
  BY SettleTimerSerene DEF cliVars, Unlogged, Single
<1>2. \A p \in Queued(bus.queue) : Waiting(bus, p, sent)
  BY DEF Waiting
<1> QED
  BY <1>1, <1>2, RoutedServes

LEMMA TimersRouted ==
  ASSUME Uncut, Single, Routed, NEW x \in Texts, FallbackFires \/ VerifyFires(x) \/ HoldDeadline(x)
  PROVE  Routed'
<1>1. Same(bus, bus') /\ cli' = cli /\ lines' = lines /\ frames' = frames /\ finals' = finals
  BY FallbackSerene, VerifyFiresSerene, HoldDeadlineSerene DEF cliVars, Unlogged, Single
<1> QED
  BY <1>1, RoutedSame

LEMMA PtyRouted ==
  ASSUME Uncut, Single, Routed, NEW i \in DOMAIN bus.deliveries, PtyType(i) \/ PtySettle(i)
  PROVE  Routed'
<1>1. cli \in CliStates
  BY SmoothParts DEF Single
<1>2. CASE PtyType(i)
  <2> DEFINE x == bus.deliveries[i].text
             box == Append(cli.box, x)
  <2>1. /\ Same(bus, bus') /\ lines' = lines /\ frames' = frames /\ finals' = finals
        /\ cli' = [cli EXCEPT !.box = box] \/ cli' = cli
    BY <1>2, PtyTypeSerene DEF Single
  <2> HIDE DEF box
  <2>2. cli' = [cli EXCEPT !.box = box] => cli'.turn = cli.turn /\ cli'.runs = cli.runs
    BY <1>1, Zenon DEF CliStates
  <2> QED
    BY <2>1, <2>2, RoutedSame
<1>3. CASE PtySettle(i)
  <2>1. PICK outcome \in Verdicts : ClearsBox(i, outcome)
    BY <1>3, PtySettleSerene DEF Single
  <2>2. Same(bus, bus') /\ lines' = lines /\ frames' = frames /\ finals' = finals /\ cli'.turn = cli.turn
    BY <1>3, PtySettleSerene DEF Single
  <2> DEFINE box == Without(cli.box, bus.deliveries[i].text)
  <2>3. cli' = [cli EXCEPT !.box = box] \/ cli' = cli
    BY <2>1 DEF ClearsBox, Cleared
  <2> HIDE DEF box
  <2>4. cli' = [cli EXCEPT !.box = box] => cli'.runs = cli.runs
    BY <1>1, Zenon DEF CliStates
  <2> QED
    BY <2>2, <2>3, <2>4, RoutedSame
<1> QED
  BY <1>2, <1>3

\* The step publishes f.
LEMMA LogEffect ==
  ASSUME NEW f, Log(f), NEW p \in Prompts
  PROVE  finals'[p] = IF f # None /\ p \in f.about THEN Append(finals[p], f) ELSE finals[p]
BY DEF Log

LEMMA Answered ==
  ASSUME OneAnswer(finals), NEW q \in Prompts, NEW kind, NEW to \in {Chat[q], None}, finals[q] = <<>>,
         Log(Final({q}, to, kind))
  PROVE  OneAnswer(finals') /\ \A p \in Prompts : p # q => finals'[p] = finals[p]
<1> DEFINE f == Final({q}, to, kind)
<1>1. f.about = {q} /\ f.to = to
  BY DEF Final
<1>2. Log(f)
  OBVIOUS
<1> HIDE DEF f
<1>3. \A p \in Prompts : p # q => finals'[p] = finals[p]
  BY <1>1, <1>2, LogEffect
<1>4. finals'[q] \in {<<>>, <<f>>}
  <2>1. finals'[q] = IF f # None /\ q \in f.about THEN Append(finals[q], f) ELSE finals[q]
    BY <1>2, LogEffect
  <2>2. Append(<<>>, f) = <<f>>
    OBVIOUS
  <2> QED
    BY <2>1, <2>2
<1>5. Len(finals'[q]) <= 1 /\ \A i \in DOMAIN finals'[q] : finals'[q][i].to \in {Chat[q], None}
  <2>1. CASE finals'[q] = <<>>
    BY <2>1
  <2>2. CASE finals'[q] = <<f>>
    <3>1. Len(<<f>>) = 1 /\ \A i \in DOMAIN <<f>> : <<f>>[i] = f
      OBVIOUS
    <3> QED
      BY <1>1, <2>2, <3>1
  <2> QED
    BY <1>4, <2>1, <2>2
<1>6. \A p \in Prompts : Len(finals'[p]) <= 1 /\ \A i \in DOMAIN finals'[p] : finals'[p][i].to \in {Chat[p], None}
  BY <1>3, <1>5 DEF OneAnswer
<1> QED
  BY <1>3, <1>6 DEF OneAnswer

LEMMA CountedTyped ==
  ASSUME Uncut, Smooth
  PROVE  /\ bus.op \in Prompts \cup {None} /\ bus.slot \in Prompts \cup {None} /\ None \notin Prompts
         /\ ~bus.nudged /\ ~Stale(bus)
<1>1. bus \in BusStates /\ Steady(bus)
  BY SmoothParts
<1>2. bus.op \in PromptOrNone /\ bus.slot \in PromptOrNone
  BY <1>1, Zenon DEF BusStates
<1> QED
  BY <1>1, <1>2, BusAssumption DEF PromptOrNone, Texts, Steady, Calm, Stale

\* A reply of the running turn goes to its prompt's chat and clears the slot.
LEMMA ReplyLands ==
  ASSUME Uncut, Single, Routed, NEW p \in Prompts, p = bus.op, NEW named \in {None, Chat[p]}
  PROVE  /\ Effective(bus, named, "reply") \in {Chat[p], None}
         /\ ~Duplicate(bus, named, "reply") =>
              IngestReply(bus, named, "reply").slot = None /\ IngestReply(bus, named, "reply").silentClosed = None
         /\ Duplicate(bus, named, "reply") => IngestReply(bus, named, "reply") = bus
<1>1. p # None /\ bus \in BusStates
  BY CountedTyped, SmoothParts DEF Single
<1>2. bus.silentClosed = None /\ bus.slot \in {None, p}
  BY <1>1 DEF Routed, SlotHome
<1>3. Effective(bus, named, "reply") \in {Chat[p], None}
  BY <1>2 DEF Effective, SlotChat
<1>4. ~NamesOther(bus, named)
  BY <1>2 DEF NamesOther, SlotChat
<1>5. ASSUME ~Duplicate(bus, named, "reply")
      PROVE  IngestReply(bus, named, "reply").slot = None /\ IngestReply(bus, named, "reply").silentClosed = None
  <2> DEFINE d == IngestReply(bus, named, "reply")
  <2>1. Replied(bus, d, named, "reply")
    BY <1>1, <1>5, IngestReplyEffect
  <2> HIDE DEF d
  <2>2. d.slot = None /\ d.silentClosed = None
    BY <1>4, <2>1 DEF Replied
  <2> QED
    BY <2>2 DEF d
<1>6. Duplicate(bus, named, "reply") => IngestReply(bus, named, "reply") = bus
  BY DEF IngestReply
<1> QED
  BY <1>3, <1>5, <1>6

LEMMA ReadFrameRouted == ASSUME Uncut, Single, Routed, ReadFrame PROVE Routed'
<1> DEFINE f == Head(frames)
           p == bus.op
           to == Effective(bus, f.named, "reply")
<1>1. /\ frames # <<>> /\ frames' = Tail(frames) /\ f = frames[1]
      /\ bus' = IngestReply(bus, f.named, "reply")
      /\ Log(IF Duplicate(bus, f.named, "reply") THEN None ELSE Final(f.about, to, "reply"))
      /\ bus'.op = bus.op /\ bus'.lastEnd = bus.lastEnd
      /\ cli' = cli /\ lines' = lines
  BY ReadFrameSerene DEF Single
<1>2. /\ Len(frames) = 1 /\ cli.turn # None /\ cli.turn.owes = {} /\ finals[p] = <<>>
      /\ f.about = {p} /\ f.named \in {None, Chat[p]}
  BY <1>1 DEF Routed, RepliesHome
<1>3. p # None /\ cli.runs[p] = 1
  BY <1>2 DEF Single, OneAtATime, OneTurn, Underway
<1>4. p \in Prompts
  BY <1>3, CountedTyped DEF Single
<1>5. frames' = <<>>
  <2> DEFINE fs == frames
  <2>1. fs \in Seq(Frames) /\ Len(fs) = 1 /\ frames' = Tail(fs)
    BY <1>1, <1>2, SmoothParts DEF Single
  <2> HIDE DEF fs
  <2> QED
    BY <2>1
<1> HIDE DEF f, to
<1>6. /\ to \in {Chat[p], None}
      /\ ~Duplicate(bus, f.named, "reply") => bus'.slot = None /\ bus'.silentClosed = None
      /\ Duplicate(bus, f.named, "reply") => bus' = bus
  BY <1>1, <1>2, <1>4, ReplyLands DEF to
<1>7. RepliesHome(bus', cli', frames', finals')
  BY <1>1, <1>2, <1>5 DEF RepliesHome
<1>8. EndsHome(bus', lines'[1])
  BY <1>1, <1>3 DEF Routed, EndsHome
<1>9. CASE Duplicate(bus, f.named, "reply")
  <2>1. finals' = finals
    BY <1>1, <1>9 DEF Log
  <2> QED
    BY <1>1, <1>6, <1>7, <1>8, <1>9, <2>1 DEF Routed
<1>10. CASE ~Duplicate(bus, f.named, "reply")
  <2>1. Log(Final({p}, to, "reply"))
    BY <1>1, <1>2, <1>10
  <2>2. OneAnswer(finals') /\ \A q \in Prompts : q # p => finals'[q] = finals[q]
    <3> HIDE DEF p
    <3> QED
      BY <1>2, <1>4, <1>6, <2>1, Answered DEF Routed
  <2>3. SlotHome(bus', cli', finals')
    BY <1>1, <1>3, <1>6, <1>10, <2>2 DEF Routed, SlotHome
  <2> QED
    BY <1>7, <1>8, <2>2, <2>3 DEF Routed
<1> QED
  BY <1>9, <1>10

LEMMA EndsTail ==
  ASSUME NEW b, NEW s \in Seq(Lines), s # <<>>, EndsHome(b, s)
  PROVE  EndsHome(b, Tail(s))
<1> DEFINE u == Tail(s)
<1>1. \A i \in DOMAIN u : i + 1 \in DOMAIN s /\ u[i] = s[i + 1]
  OBVIOUS
<1> HIDE DEF u
<1>2. EndsHome(b, u)
  BY <1>1 DEF EndsHome
<1> QED
  BY <1>2 DEF u

\* What the net at a turn's end makes of a text that answers the slot's prompt.
LEMMA NetLands ==
  ASSUME Uncut, Smooth, NEW text \in Says, NEW inject, NEW id, ~LateLine(bus, id),
         Log(TurnEndFinal(bus, id, text, inject)), OneAnswer(finals),
         bus.slot # None => finals[bus.slot] = <<>> /\ text \in {None, {bus.slot}}
  PROVE  LET slot == HandleTurnEnd(bus, text, inject, TRUE).slot
         IN  /\ OneAnswer(finals') /\ slot \in {None, bus.slot}
             /\ \A p \in Prompts : p = slot \/ p # bus.slot => finals'[p] = finals[p]
<1> DEFINE net == HandleTurnEnd(bus, text, inject, TRUE)
           v   == NetVerdict(bus, text, inject)
<1>1. bus \in BusStates /\ Calm(bus) /\ ~NudgeEnabled
  BY SmoothParts DEF Steady, Uncut
<1>2. net.slot \in {None, bus.slot} /\ (v = "synthesize" => net.slot = None)
  BY <1>1, HandleTurnEndCalm, Zenon
<1>3. TurnEndFinal(bus, id, text, inject) =
        IF v = "synthesize" THEN Final(NetText(bus, text), SlotChat(bus), "synthetic")
        ELSE IF v = "silent" THEN Final({}, SlotChat(bus), "silent") ELSE None
  BY CountedTyped DEF TurnEndFinal
<1>4. CASE v = "synthesize"
  <2> DEFINE q == bus.slot
  <2>1. NetText(bus, text) # None /\ q # None
    BY <1>4 DEF NetVerdict, UserWaits
  <2>2. NetText(bus, text) = {q} /\ q \in Prompts /\ finals[q] = <<>> /\ SlotChat(bus) = Chat[q]
    BY <2>1, CountedTyped DEF NetText, SlotChat
  <2>3. Log(Final({q}, Chat[q], "synthetic"))
    BY <1>3, <1>4, <2>2
  <2>4. OneAnswer(finals') /\ \A p \in Prompts : p # q => finals'[p] = finals[p]
    <3> HIDE DEF q
    <3> QED
      BY <2>2, <2>3, Answered
  <2>5. net.slot = None /\ None \notin Prompts
    BY <1>2, <1>4, CountedTyped
  <2> QED
    BY <2>4, <2>5
<1>5. CASE v # "synthesize"
  <2> DEFINE f == TurnEndFinal(bus, id, text, inject)
  <2>1. f = None \/ f.about = {}
    BY <1>3, <1>5 DEF Final
  <2> HIDE DEF f
  <2>2. Log(f)
    BY DEF f
  <2>3. \A p \in Prompts : finals'[p] = finals[p]
    BY <2>1, <2>2, LogEffect
  <2>4. OneAnswer(finals')
    BY <2>3 DEF OneAnswer
  <2> QED
    BY <1>2, <2>3, <2>4
<1> QED
  BY <1>4, <1>5

\* A line that is not a turn's end.
LEMMA TailRoutedSame ==
  ASSUME Uncut, Smooth, Routed, lines[1] # <<>>, lines'[1] = Tail(lines[1]), cli' = cli, frames' = frames,
         finals' = finals, bus'.op = bus.op, bus'.slot = bus.slot, bus'.lastEnd = bus.lastEnd,
         bus'.silentClosed \in {None, bus.silentClosed}
  PROVE  Routed'
<1>1. lines[1] \in Seq(Lines)
  BY SmoothParts
<1>2. EndsHome(bus, Tail(lines[1]))
  BY <1>1, EndsTail DEF Routed
<1>3. EndsHome(bus', lines'[1])
  BY <1>2 DEF EndsHome
<1>4. RepliesHome(bus', cli', frames', finals') /\ SlotHome(bus', cli', finals')
  BY DEF Routed, RepliesHome, SlotHome
<1> QED
  BY <1>3, <1>4 DEF Routed

LEMMA EndRouted ==
  ASSUME Uncut, Single, Routed, TailLine(1), Head(lines[1]).kind = "end"
  PROVE  Routed'
<1> DEFINE s    == lines[1]
           l    == Head(s)
           text == l.text
           u    == lines'[1]
           d    == TurnEnd(bus, l.id, l.text, l.inject, TRUE)
           net  == HandleTurnEnd(bus, l.text, l.inject, TRUE)
<1>1. /\ s # <<>> /\ l \in Lines /\ l = s[1] /\ u = Tail(s)
      /\ cli' = cli /\ frames' = frames /\ bus' = d
      /\ Log(TurnEndFinal(bus, l.id, l.text, l.inject))
  BY TailEffect DEF Single
<1>2. bus \in BusStates /\ Steady(bus) /\ Gate(bus) /\ s \in Seq(Lines) /\ cli \in CliStates
  BY SmoothParts DEF Single
<1>3. l.id \in Nat /\ l.text \in Says
  BY <1>1, LineFields
<1>4. /\ LateLine(bus, l.id) => d = bus
      /\ ~LateLine(bus, l.id) =>
           /\ Apart(bus, d) /\ d.queue = bus.queue /\ d.settle /\ ~d.streaming /\ d.lastEnd = l.id
           /\ d.op = (IF l.id # bus.lastEnd THEN None ELSE bus.op)
           /\ d.slot = net.slot
      /\ Steady(d)
  BY <1>2, <1>3, TurnEndSteady, Zenon DEF Uncut
<1>5. 1 \in DOMAIN s /\ \A i \in DOMAIN u : i + 1 \in DOMAIN s /\ u[i] = s[i + 1] /\ i + 1 > 1
  <2> HIDE DEF s, u, l
  <2> QED
    BY <1>1, <1>2
<1>6. CASE LateLine(bus, l.id)
  <2>1. bus' = bus
    BY <1>1, <1>4, <1>6
  <2>2. finals' = finals
    BY <1>1, <1>6 DEF TurnEndFinal, Log
  <2> QED
    BY <1>1, <2>1, <2>2, TailRoutedSame DEF Single
<1>7. CASE ~LateLine(bus, l.id)
  <2>1. /\ cli.turn = None /\ (bus.slot # None => text \in {None, {bus.slot}} /\ cli.runs[bus.slot] > 0)
        /\ (l.id # bus.lastEnd => bus.op # None /\ cli.runs[bus.op] = 1 /\ LastTurn(s, 1))
        /\ (l.id = bus.lastEnd => bus.op = None)
    <3>1. s[1].kind = "end" /\ s[1].text = text /\ s[1].id = l.id
      BY <1>1
    <3>2. CASE l.id = bus.lastEnd
      <4>1. bus.settle => bus.op = None
        BY DEF Single, OneAtATime, OneTurn
      <4>2. bus.op = None
        BY <1>7, <3>2, <4>1, CountedTyped DEF LateLine, Single
      <4>3. cli.turn = None
        BY <4>2, IdleBus
      <4>4. bus.slot # None => text \in {None, {bus.slot}}
        BY <1>5, <3>1, <3>2, <4>2 DEF Routed, EndsHome
      <4> QED
        BY <3>2, <4>2, <4>3, <4>4 DEF Routed, SlotHome
    <3>3. CASE l.id # bus.lastEnd
      <4>1. cli.turn = None /\ Underway(bus, cli) /\ LastTurn(s, 1)
        BY <1>5, <3>1, <3>3 DEF Single, OneAtATime, OneStory
      <4>2. text \in {None, {bus.op}}
        BY <1>5, <3>1, <3>3 DEF Routed, EndsHome
      <4>3. bus.slot # None => bus.slot = bus.op
        BY <4>1 DEF Routed, SlotHome, Underway
      <4> QED
        BY <3>3, <4>1, <4>2, <4>3 DEF Underway
    <3> QED
      BY <3>2, <3>3
  <2>2. frames' = <<>> /\ cli'.turn = None
    BY <1>1, <2>1 DEF Routed, RepliesHome
  <2>3. bus'.slot = net.slot /\ bus'.op = None /\ bus'.lastEnd = l.id
    BY <1>1, <1>4, <1>7, <2>1
  <2>4. /\ OneAnswer(finals') /\ bus'.slot \in {None, bus.slot}
        /\ \A p \in Prompts : p = bus'.slot \/ p # bus.slot => finals'[p] = finals[p]
    <3>1. bus.slot # None => finals[bus.slot] = <<>> /\ text \in {None, {bus.slot}}
      BY <2>1 DEF Routed, SlotHome
    <3>2. /\ OneAnswer(finals') /\ net.slot \in {None, bus.slot}
          /\ \A p \in Prompts : p = net.slot \/ p # bus.slot => finals'[p] = finals[p]
      <4>1. Smooth /\ OneAnswer(finals)
        BY DEF Single, Routed
      <4> HIDE DEF d
      <4> QED
        BY <1>1, <1>3, <1>7, <3>1, <4>1, NetLands, Zenon
    <3> QED
      BY <2>3, <3>2
  <2>5. RepliesHome(bus', cli', frames', finals')
    BY <2>2 DEF RepliesHome
  <2>6. SlotHome(bus', cli', finals')
    <3>1. bus'.slot # None => finals'[bus'.slot] = <<>> /\ cli'.runs[bus'.slot] > 0
      BY <1>1, <2>1, <2>4, CountedTyped DEF Routed, SlotHome, Single
    <3>2. ASSUME NEW p \in Prompts, cli.runs[p] = 0 PROVE finals'[p] = <<>>
      <4>1. p # bus.slot
        BY <2>1, <3>2, CountedTyped DEF Single
      <4> QED
        BY <2>4, <3>2, <4>1 DEF Routed, SlotHome
    <3> QED
      BY <1>1, <2>3, <3>1, <3>2 DEF SlotHome
  <2>7. EndsHome(bus', u)
    <3>1. ASSUME NEW i \in DOMAIN u, u[i].kind = "end"
          PROVE  u[i].text = None \/ (u[i].id = l.id /\ (bus'.slot # None => u[i].text = {bus'.slot}))
      <4>1. i + 1 \in DOMAIN s /\ u[i] = s[i + 1] /\ i + 1 > 1
        BY <1>5
      <4>2. CASE l.id = bus.lastEnd
        <5>1. s[i + 1].id = bus.lastEnd
          <6>1. cli.turn = None /\ ~Underway(bus, cli)
            BY <2>1, <4>2 DEF Underway
          <6> QED
            BY <3>1, <4>1, <6>1 DEF Single, OneAtATime, OneStory
        <5>2. s[i + 1].text = None \/ (bus.slot # None => s[i + 1].text = {bus.slot})
          BY <2>1, <3>1, <4>1, <4>2, <5>1 DEF Routed, EndsHome
        <5> QED
          BY <2>4, <4>1, <4>2, <5>1, <5>2
      <4>3. CASE l.id # bus.lastEnd
        <5>1. s[i + 1].id = l.id
          <6>1. LastTurn(s, 1) /\ s[1] = l
            BY <1>1, <2>1, <4>3
          <6> HIDE DEF s, u, l
          <6> QED
            BY <3>1, <4>1, <6>1 DEF LastTurn
        <5>2. s[i + 1].text \in {None, {bus.op}}
          BY <3>1, <4>1, <4>3, <5>1 DEF Routed, EndsHome
        <5>3. bus.slot # None => bus.slot = bus.op
          BY <2>1, <4>3 DEF Routed, SlotHome
        <5> QED
          BY <2>4, <4>1, <5>1, <5>2, <5>3
      <4> QED
        BY <4>2, <4>3
    <3> HIDE DEF u, l
    <3> QED
      BY <2>3, <3>1 DEF EndsHome
  <2> QED
    BY <2>4, <2>5, <2>6, <2>7 DEF Routed
<1> QED
  BY <1>6, <1>7

LEMMA TailRouted == ASSUME Uncut, Single, Routed, TailLine(1) PROVE Routed'
<1> DEFINE l == Head(lines[1])
<1>1. /\ lines[1] # <<>> /\ lines'[1] = Tail(lines[1]) /\ cli' = cli /\ frames' = frames
      /\ l.kind \in {"prompt", "absorbed", "end", "compact"} /\ l = lines[1][1]
      /\ l.kind = "prompt" => bus' = PromptLine(bus, l.text)
      /\ l.kind = "compact" => \E tolerant \in BOOLEAN : bus' = CompactLine(bus, l.gen, l.nth, tolerant)
      /\ Log(IF l.kind = "end" THEN TurnEndFinal(bus, l.id, l.text, l.inject) ELSE None)
  BY TailEffect DEF Single
<1>2. bus \in BusStates /\ Steady(bus) /\ Gate(bus) /\ lines[1] \in Seq(Lines)
  BY SmoothParts DEF Single
<1>3. l.kind # "absorbed"
  <2> DEFINE s == lines[1]
  <2>1. s \in Seq(Lines) /\ s # <<>> /\ l = s[1] /\ \A i \in DOMAIN s : s[i].kind \in {"prompt", "end", "compact"}
    BY <1>1, <1>2 DEF Single, OneAtATime, OneStory
  <2> HIDE DEF s, l
  <2>2. 1 \in DOMAIN s
    BY <2>1
  <2> QED
    BY <2>1, <2>2
<1>4. l.kind # "end" => finals' = finals
  BY <1>1 DEF Log
<1>5. CASE l.kind = "prompt"
  <2> DEFINE x == l.text
             d == PromptLine(bus, x)
  <2>1. /\ Steady(d) /\ Moves(bus, d, {}, {}, {})
        /\ d.queue = bus.queue /\ d.op = bus.op /\ d.settle = bus.settle /\ d.streaming
        /\ d.slot = bus.slot /\ d.lastEnd = bus.lastEnd /\ d.silentClosed = None
        /\ x \in Prompts /\ Place(bus, x, 0) => ~Unsettled(d, x)
    BY <1>2, PromptLineSteady, Zenon
  <2>2. bus' = d
    BY <1>1, <1>5
  <2> HIDE DEF d
  <2> QED
    BY <1>1, <1>4, <1>5, <2>1, <2>2, TailRoutedSame DEF Single
<1>6. CASE l.kind = "compact"
  <2>1. PICK tolerant \in BOOLEAN : bus' = CompactLine(bus, l.gen, l.nth, tolerant)
    BY <1>1, <1>6
  <2> DEFINE gen == l.gen
             nth == l.nth
             d   == CompactLine(bus, gen, nth, tolerant)
  <2>2. \E xs \in SUBSET HeldTexts(bus) : /\ Steady(d) /\ Same(bus, d) /\ d.queue = bus.queue /\ xs \in SUBSET Prompts
                                          /\ Moves(bus, d, {}, xs, {})
    <3> HIDE DEF gen, nth
    <3> QED
      BY <1>2, CompactLineSteady, Zenon
  <2>3. bus' = d
    BY <2>1
  <2> HIDE DEF d
  <2> QED
    BY <1>1, <1>4, <1>6, <2>2, <2>3, TailRoutedSame DEF Same, Single
<1> QED
  BY <1>1, <1>3, <1>5, <1>6, EndRouted

\* A step of the CLI leaves the slot and the answers alone.
LEMMA RoutedCli ==
  ASSUME Routed, CoreStays, \A p \in Prompts : cli'.runs[p] = 0 => cli.runs[p] = 0,
         bus.slot # None /\ bus.op = None => cli'.runs[bus.slot] > 0,
         RepliesHome(bus, cli', frames', finals), EndsHome(bus, lines'[1])
  PROVE  Routed'
<1>1. bus' = bus /\ finals' = finals
  BY DEF CoreStays, coreVars
<1>2. SlotHome(bus, cli', finals)
  BY DEF Routed, SlotHome
<1> QED
  BY <1>1, <1>2 DEF Routed

LEMMA StartTurnRouted == ASSUME Uncut, Single, Routed, CoreStays, StartTurn PROVE Routed'
<1> DEFINE x == Head(cli.box)
           l == [kind |-> "prompt", text |-> x]
           s == lines[1]
           u == lines'[1]
<1>1. /\ cli.turn = None /\ cli.box # <<>>
      /\ cli'.turn = Turn(x) /\ cli'.runs = GivenMore(x) /\ Write(<<l>>) /\ frames' = frames
  BY SmoothParts, StartTurnEffect DEF Single
<1>2. s \in Seq(Lines) /\ cli.box \in Seq(Inputs) /\ cli \in CliStates
  BY SmoothParts DEF Single
<1>3. cli.runs \in [Texts -> Nat]
  BY <1>2, Zenon DEF CliStates
<1>4. x = bus.op /\ x \in Prompts /\ cli.runs[x] = 0
  <2> DEFINE b == cli.box
  <2>1. b \in Seq(Inputs) /\ b # <<>> /\ \A i \in DOMAIN b : b[i] = bus.op
    BY <1>1, <1>2 DEF Single, OneAtATime, OneTurn
  <2>2. x \in Prompts /\ x = Head(b)
    BY <1>1, TailBox DEF Single
  <2> HIDE DEF b
  <2>3. Head(b) = bus.op /\ Contains(b, Head(b))
    <3>1. 1 \in DOMAIN b /\ Head(b) = b[1]
      BY <2>1
    <3> QED
      BY <2>1, <3>1 DEF Contains
  <2>4. Contains(cli.box, x)
    BY <2>2, <2>3 DEF b
  <2> QED
    BY <2>2, <2>3, <2>4 DEF Single, GivenOnce, Given
<1>5. frames = <<>>
  BY <1>1 DEF Routed, RepliesHome
<1>6. finals[bus.op] = <<>>
  BY <1>4 DEF Routed, SlotHome
<1>7. RepliesHome(bus, cli', frames', finals)
  BY <1>1, <1>5, <1>6 DEF RepliesHome
<1>8. EndsHome(bus, u)
  <2>1. l.kind = "prompt" /\ l \in Lines
    <3>1. x \in Inputs
      BY <1>4 DEF Inputs, Texts
    <3> QED
      BY <3>1 DEF Lines
  <2>2. <<l>> \in Seq(Lines) /\ u = s \o <<l>>
    <3> HIDE DEF l
    <3>1. <<l>> \in Seq(Lines) /\ \A i \in DOMAIN <<l>> : <<l>>[i].kind \in {"prompt", "absorbed", "end", "compact"}
      BY <2>1, OneLine
    <3> QED
      BY <1>1, <3>1, WriteSerene DEF Single
  <2>3. EndsHome(bus, s)
    BY DEF Routed
  <2> HIDE DEF l, s, u
  <2>4. \A i \in DOMAIN u : (i \in DOMAIN s /\ u[i] = s[i]) \/ u[i] = l
    BY <1>2, <2>2, Written
  <2> QED
    BY <2>1, <2>3, <2>4 DEF EndsHome
<1>9. \A p \in Prompts : cli'.runs[p] = cli.runs[p] + (IF p = x THEN 1 ELSE 0) /\ cli.runs[p] \in Nat
  BY <1>1, <1>3 DEF GivenMore, Texts
<1>10. bus.slot # None /\ bus.op = None => FALSE
  BY <1>4, CountedTyped DEF Single
<1> QED
  BY <1>7, <1>8, <1>9, <1>10, RoutedCli

LEMMA CallReplyRouted == ASSUME Uncut, Single, Routed, CoreStays, CallReply(connected) PROVE Routed'
<1>1. PICK p \in cli.turn.owes : \E named \in {None, Chat[p]} :
        /\ cli.turn # None /\ cli'.turn = [cli.turn EXCEPT !.owes = @ \ {p}] /\ cli'.runs = cli.runs
        /\ lines' = lines
        /\ frames' = Append(frames, [kind |-> "reply", about |-> {p}, named |-> named])
  BY SmoothParts, CallReplyEffect DEF Single
<1>2. PICK named \in {None, Chat[p]} :
        /\ cli.turn # None /\ cli'.turn = [cli.turn EXCEPT !.owes = @ \ {p}] /\ cli'.runs = cli.runs
        /\ lines' = lines
        /\ frames' = Append(frames, [kind |-> "reply", about |-> {p}, named |-> named])
  BY <1>1
<1>3. cli.turn \in Turns
  BY <1>2, SmoothParts DEF CliStates, Single
<1>4. p = bus.op /\ cli.turn.owes = {p}
  BY <1>2 DEF Single, OneAtATime, OneTurn
<1>5. cli'.turn # None /\ cli'.turn.owes = {}
  <2>1. cli'.turn.owes = cli.turn.owes \ {p}
    BY <1>2, <1>3 DEF Turns
  <2>2. cli'.turn \in Turns
    BY <1>2, <1>3 DEF Turns
  <2> QED
    BY <1>4, <2>1, <2>2, TurnAssumption
<1>6. frames = <<>> /\ finals[bus.op] = <<>>
  BY <1>2, <1>4 DEF Routed, RepliesHome
<1>7. RepliesHome(bus, cli', frames', finals)
  <2> DEFINE f == [kind |-> "reply", about |-> {p}, named |-> named]
  <2>1. f.about = {bus.op} /\ f.named \in {None, Chat[bus.op]}
    BY <1>4
  <2>2. frames' = Append(<<>>, f)
    BY <1>2, <1>6
  <2> HIDE DEF f
  <2>3. Len(frames') = 1 /\ frames'[1] = f
    BY <2>2
  <2> QED
    BY <1>5, <1>6, <2>1, <2>3 DEF RepliesHome
<1>8. EndsHome(bus, lines'[1])
  BY <1>2 DEF Routed
<1> QED
  BY <1>2, <1>7, <1>8, RoutedCli DEF Routed, SlotHome

LEMMA EndTurnRouted ==
  ASSUME Uncut, Single, Routed, CoreStays, ReplyOvertaken = FALSE, EndTurn PROVE Routed'
<1> DEFINE s == lines[1]
           u == lines'[1]
           n == cli.turn.id
<1>1. PICK text \in {cli.turn.about, None}, ls \in Seq(Lines) :
        /\ cli.turn # None /\ (~ReplyOvertaken => frames = <<>>)
        /\ cli'.turn = None /\ cli'.runs = cli.runs /\ frames' = frames
        /\ \A i \in DOMAIN ls : ls[i].kind = "end" /\ ls[i].id = cli.turn.id /\ ls[i].text \in {text, None}
        /\ lines'[1] = lines[1] \o ls
  BY EndLines DEF Single
<1>2. s \in Seq(Lines) /\ bus \in BusStates
  BY SmoothParts DEF Single
<1>3. Underway(bus, cli) /\ n = cli.turns /\ cli.turn.about = {bus.op}
  BY <1>1 DEF Single, OneAtATime, OneTurn
<1>4. n # bus.lastEnd
  <2>1. bus.lastEnd \in Nat
    BY <1>2, Zenon DEF BusStates
  <2> QED
    BY <1>3, <2>1 DEF Underway
<1>5. RepliesHome(bus, cli', frames', finals)
  BY <1>1 DEF RepliesHome
<1>6. EndsHome(bus, u)
  <2>1. \A i \in DOMAIN ls : ls[i].id = n /\ ls[i].text \in {{bus.op}, None}
    BY <1>1, <1>3
  <2>2. EndsHome(bus, s) /\ u = s \o ls
    BY <1>1 DEF Routed
  <2> HIDE DEF s, u, n
  <2>3. \A i \in DOMAIN u : \/ i \in DOMAIN s /\ u[i] = s[i]
                            \/ u[i].id = n /\ u[i].text \in {{bus.op}, None}
    BY <1>2, <2>1, <2>2, Written
  <2> QED
    BY <1>4, <2>2, <2>3 DEF EndsHome
<1>7. bus.slot # None /\ bus.op = None => cli'.runs[bus.slot] > 0
  BY <1>1 DEF Routed, SlotHome
<1> QED
  BY <1>1, <1>5, <1>6, <1>7, RoutedCli

LEMMA CompactionRouted ==
  ASSUME Uncut, Single, Routed, CoreStays, StartCompaction \/ EndCompaction PROVE Routed'
<1> DEFINE l == [kind |-> "compact", gen |-> cli.gen, nth |-> cli.compactions + 1]
           s == lines[1]
           u == lines'[1]
<1>1. /\ cli'.turn = cli.turn /\ cli'.runs = cli.runs /\ frames' = frames
      /\ Write(<<l>>) \/ lines' = lines
  BY SmoothParts, CompactionEffect DEF Single
<1>2. s \in Seq(Lines) /\ cli \in CliStates /\ cli.gen = 1
  BY SmoothParts DEF Single
<1>3. RepliesHome(bus, cli', frames', finals)
  BY <1>1 DEF Routed, RepliesHome
<1>4. EndsHome(bus, u)
  <2>1. CASE lines' = lines
    BY <2>1 DEF Routed
  <2>2. CASE Write(<<l>>)
    <3>1. l \in Lines /\ l.kind = "compact"
      <4>1. cli.compactions \in Nat
        BY <1>2, Zenon DEF CliStates
      <4> QED
        BY <1>2, <4>1 DEF Lines
    <3>2. <<l>> \in Seq(Lines) /\ u = s \o <<l>>
      <4> HIDE DEF l
      <4>1. <<l>> \in Seq(Lines) /\ \A i \in DOMAIN <<l>> : <<l>>[i].kind \in {"prompt", "absorbed", "end", "compact"}
        BY <3>1, OneLine
      <4> QED
        BY <2>2, <4>1, WriteSerene DEF Single
    <3>3. EndsHome(bus, s)
      BY DEF Routed
    <3> HIDE DEF l, s, u
    <3>4. \A i \in DOMAIN u : (i \in DOMAIN s /\ u[i] = s[i]) \/ u[i] = l
      BY <1>2, <3>2, Written
    <3> QED
      BY <3>1, <3>3, <3>4 DEF EndsHome
  <2> QED
    BY <1>1, <2>1, <2>2
<1>5. bus.slot # None /\ bus.op = None => cli'.runs[bus.slot] > 0
  BY <1>1 DEF Routed, SlotHome
<1> QED
  BY <1>1, <1>3, <1>4, <1>5, RoutedCli

LEMMA RoutedCliStep ==
  ASSUME Uncut, MaxAmbient = 0, ReplyOvertaken = FALSE, Single, Routed, CoreStays,
         \/ StartTurn \/ StartAmbientTurn \/ AbsorbInput \/ CallReply(connected) \/ EndTurn
         \/ StartCompaction \/ EndCompaction
  PROVE  Routed'
<1>1. ~StartAmbientTurn
  <2>1. cli \in CliStates
    BY SmoothParts DEF Single
  <2>2. cli.ambient \in Nat
    BY <2>1, Zenon DEF CliStates
  <2> QED
    BY <2>1, <2>2, StartAmbientTurnEffect
<1>2. ~AbsorbInput
  BY AbsorbInputOne DEF Single
<1> QED
  BY <1>1, <1>2, StartTurnRouted, CallReplyRouted, EndTurnRouted, CompactionRouted

LEMMA RoutedStep ==
  ASSUME Uncut, MaxAmbient = 0, ReplyOvertaken = FALSE, Single, Routed, [Next]_vars
  PROVE  Routed'
<1>1. CASE Next
  <2>1. CASE \E p \in Prompts : Send(p)
    BY <2>1, SendRouted
  <2>2. CASE \E i \in DOMAIN bus.deliveries : PtyType(i) \/ PtySettle(i)
    BY <2>2, PtyRouted
  <2>3. CASE TailLine(1)
    BY <2>3, TailRouted
  <2>4. CASE ReadFrame
    BY <2>4, ReadFrameRouted
  <2>5. CASE SettleTimer
    BY <2>5, SettleTimerRouted
  <2>6. CASE \E x \in Texts : VerifyFires(x) \/ HoldDeadline(x)
    BY <2>6, TimersRouted
  <2>7. CASE FallbackFires
    <3>1. Nudge \in Texts
      BY DEF Texts
    <3> QED
      BY <2>7, <3>1, TimersRouted
  <2>8. CASE /\ \/ StartTurn \/ StartAmbientTurn \/ AbsorbInput \/ CallReply(connected) \/ EndTurn
                \/ StartCompaction \/ EndCompaction
             /\ UNCHANGED coreVars
    BY <2>8, RoutedCliStep DEF CoreStays
  <2> QED
    BY <1>1, <2>1, <2>2, <2>3, <2>4, <2>5, <2>6, <2>7, <2>8, SmoothSteps DEF Single
<1>2. CASE UNCHANGED vars
  <2>1. bus' = bus /\ finals' = finals /\ cli' = cli /\ lines' = lines /\ frames' = frames
    BY <1>2 DEF vars, coreVars, cliVars
  <2> QED
    BY <2>1 DEF Routed
<1> QED
  BY <1>1, <1>2

LEMMA RoutedInit == ASSUME Uncut, CoreInit PROVE Routed
<1>1. /\ bus = StartedBus /\ cli = IdleCli(1) /\ lines[1] = <<>> /\ frames = <<>>
      /\ finals = [p \in Prompts |-> <<>>]
  BY DEF CoreInit, CliInit, Uncut
<1>2. cli.turn = None
  BY <1>1, Zenon DEF IdleCli
<1>3. bus.op = None /\ bus.slot = None
  BY <1>1, StartedSteady
<1>4. \A p \in Prompts : finals[p] = <<>>
  BY <1>1
<1>5. RepliesHome(bus, cli, frames, finals)
  BY <1>1, <1>2 DEF RepliesHome
<1>6. SlotHome(bus, cli, finals)
  BY <1>3, <1>4 DEF SlotHome
<1>7. EndsHome(bus, lines[1])
  BY <1>1 DEF EndsHome
<1>8. OneAnswer(finals)
  BY <1>4 DEF OneAnswer
<1> QED
  BY <1>5, <1>6, <1>7, <1>8 DEF Routed

LEMMA RoutedAlways ==
  ASSUME Uncut, Patient = TRUE, ReplyOvertaken = FALSE, MaxAmbient = 0, MaxCompactions <= 1
  PROVE  Spec => []Routed
<1>1. CoreInit => Routed
  BY RoutedInit
<1>2. Single /\ Routed /\ [Next]_vars => Routed'
  BY RoutedStep
<1>3. Spec => []Single
  BY SingleAlways
<1> QED
  BY <1>1, <1>2, <1>3, PTL DEF Spec

\* What is true of every state under these hypotheses.
LEMMA RoutedSafe ==
  ASSUME Uncut, Single, Routed
  PROVE  RunsOnce /\ AnswersGoHome /\ OneFinalEach /\ NudgeTypedOnce /\ CarriedOnce
<1>1. RunsOnce
  BY DEF Single, GivenOnce, Given, RunsOnce
<1>2. AnswersGoHome /\ OneFinalEach
  BY DEF Routed, OneAnswer, AnswersGoHome, OneFinalEach
<1>3. NudgeTypedOnce
  <2>1. sent \subseteq Prompts
    BY SentPrompts DEF Single
  <2>2. IsFiniteSet(sent)
    BY <2>1, BusAssumption, FS_Subset
  <2>3. Cardinality(sent) \in Nat
    BY <2>2, FS_CardinalityType
  <2>4. typed[Nudge] = 0
    BY DEF Single, Smooth, Serene
  <2> QED
    BY <2>3, <2>4 DEF NudgeTypedOnce
<1>4. CarriedOnce
  <2>1. bus.held = <<>> /\ bus.carried = <<>>
    BY DEF Single, Smooth, Serene, Steady
  <2> QED
    BY <2>1 DEF CarriedOnce
<1> QED
  BY <1>1, <1>2, <1>3, <1>4

\* While nothing cuts a turn short, the CLI runs no turn of its own and compacts
\* at most once, and a reply arrives before its turn's end is read: whatever texts
\* the TUI swallows and whatever verdicts the PTY layer gives, no prompt is given
\* to the model twice or typed a third time, and its answers reach its own chat
\* (scheduleFlushVerify, holdThroughCompaction and redeliverPrompt of
\* src/bus/core.ts).
THEOREM UncutDelivers ==
  ASSUME Uncut, Patient = TRUE, ReplyOvertaken = FALSE, MaxAmbient = 0, MaxCompactions <= 1
  PROVE  Spec => []DeliverySafety
<1>1. Spec => []Single /\ []Routed /\ []AtMostOneRetry
  BY SingleAlways, RoutedAlways, UncutRetriesOnce
<1>2. Single /\ Routed /\ AtMostOneRetry => DeliverySafety
  BY RoutedSafe DEF DeliverySafety
<1> QED
  BY <1>1, <1>2, PTL

\* Under the same conditions every prompt is admitted as the gate gets free, typed
\* at most twice and answered at most once, in its own chat: by the reply its turn
\* called for or by what the reply net makes of its turn's end, never by both,
\* also when the turn ends in two boundary lines or a reply overtakes the lines
\* before it (ingestReply and handleTurnEnd of src/bus/core.ts).
THEOREM UncutAnswers ==
  ASSUME Uncut, Patient = TRUE, ReplyOvertaken = FALSE, MaxAmbient = 0, MaxCompactions <= 1
  PROVE  Spec => []AnswerSafety
<1>1. Spec => []Single /\ []Routed /\ []AtMostOneRetry /\ []NoStrandedPrompt
  BY SingleAlways, RoutedAlways, UncutRetriesOnce, UncutAdmits
<1>2. Single /\ Routed /\ AtMostOneRetry /\ NoStrandedPrompt => AnswerSafety
  BY RoutedSafe DEF AnswerSafety, PromptSafety
<1> QED
  BY <1>1, <1>2, PTL
================================================================================
