------------------------------ MODULE BusCoreProofs ------------------------------
(***************************************************************************)
(* Theorems of BusCore: its type invariant and the three safety invariants *)
(* of the admission gate, for any prompts, chats, caps and bounds.         *)
(*                                                                         *)
(* First the operators the bus is built from (BusSlot, BusDelivery,        *)
(* BusTurn): each takes a state of the bus to a state of the bus.  Then    *)
(* the admission gate: every handler keeps at most one counted turn, a     *)
(* deadline behind a held gate and a deferred origin tied to the line it   *)
(* waits for; operators that leave the gate alone are covered by Frame,    *)
(* the handlers that hold or free it are taken one by one.  Last the       *)
(* actions of BusCore and the theorems.                                    *)
(***************************************************************************)
EXTENDS BusCore, PromptQueueProofs, FiniteSetTheorems

(* The operators of the bus keep its types *)

LEMMA FreshTyped == FreshBus \in BusStates
BY EmptyQueueTyped, BusAssumption
   DEF FreshBus, BusStates, PromptOrNone, ChatOrNone, Holds

LEMMA TouchTyped == ASSUME NEW b \in BusStates PROVE Touch(b) \in BusStates
BY DEF Touch, SlotFree, BusStates

LEMMA PublishTyped == ASSUME NEW b \in BusStates PROVE Publish(b) \in BusStates
BY TouchTyped DEF Publish

LEMMA ReleaseTurnTyped == ASSUME NEW b \in BusStates PROVE ReleaseTurn(b) \in BusStates
<1>1. [b EXCEPT !.pending = 0, !.op = None, !.overlap = FALSE] \in BusStates
  BY Zenon DEF BusStates, PromptOrNone
<1>2. ASSUME b.pending > 1
      PROVE  [b EXCEPT !.pending = @ - 1] \in BusStates
  <2>1. b.pending - 1 \in Nat
    BY <1>2 DEF BusStates
  <2> QED
    BY <2>1 DEF BusStates
<1> QED
  BY <1>1, <1>2, TouchTyped DEF ReleaseTurn

LEMMA OpenTurnTyped == ASSUME NEW b \in BusStates PROVE OpenTurn(b) \in BusStates
BY DEF OpenTurn, BusStates, ChatOrNone

LEMMA ApplyOriginTyped ==
  ASSUME NEW b \in BusStates, NEW p \in Prompts
  PROVE  ApplyOrigin(b, p) \in BusStates
<1>1. b.known \cup {Chat[p]} \in SUBSET Chats
  BY ChatAssumption DEF BusStates
<1>2. p \in PromptOrNone
  BY DEF PromptOrNone
<1> QED
  BY <1>1, <1>2, ZenonT(30) DEF ApplyOrigin, BusStates

LEMMA ApplyPendingOriginTyped ==
  ASSUME NEW b \in BusStates
  PROVE  ApplyPendingOrigin(b) \in BusStates
<1>1. [b EXCEPT !.pendingOrigin = None] \in BusStates
  BY Zenon DEF BusStates, PromptOrNone
<1>2. b.pendingOrigin # None => b.pendingOrigin \in Prompts
  BY DEF BusStates, PromptOrNone
<1> QED
  BY <1>1, <1>2, ApplyOriginTyped DEF ApplyPendingOrigin

LEMMA TakeAwaitedLineTyped ==
  ASSUME NEW b \in BusStates, NEW x
  PROVE  TakeAwaitedLine(b, x) \in BusStates
<1>1. [b EXCEPT !.awaitLine = None] \in BusStates
  BY Zenon DEF BusStates, PromptOrNone
<1> QED
  BY <1>1, ApplyPendingOriginTyped DEF TakeAwaitedLine

LEMMA ScheduleAdmitTyped == ASSUME NEW b \in BusStates PROVE ScheduleAdmit(b) \in BusStates
<1>1. [b EXCEPT !.settle = TRUE] \in BusStates
  BY Zenon DEF BusStates
<1> QED
  BY <1>1, TouchTyped DEF ScheduleAdmit

LEMMA DropTurnTyped == ASSUME NEW b \in BusStates PROVE DropTurn(b) \in BusStates
BY ZenonT(60) DEF DropTurn, BusStates, PromptOrNone, ChatOrNone

LEMMA CurrentGenTyped == ASSUME NEW b \in BusStates PROVE CurrentGen(b) \in Nat
BY DEF CurrentGen, BiggerOf, BusStates

--------------------------------------------------------------------------------
(* Deliveries *)

LEMMA StreamAllTyped ==
  ASSUME NEW b \in BusStates, NEW xs \in Seq(Texts)
  PROVE  StreamAll(b, xs) \in BusStates
<1> DEFINE earlier == [i \in DOMAIN b.deliveries |->
                         [b.deliveries[i] EXCEPT !.owns = @ /\ ~Contains(xs, b.deliveries[i].text)]]
           started == [i \in DOMAIN xs |->
                         [Delivery(b, xs[i]) EXCEPT !.owns = \A j \in i + 1 .. Len(xs) : xs[j] # xs[i]]]
<1>1. b.deliveries \in Seq(Deliveries) /\ CurrentGen(b) \in Nat
  BY CurrentGenTyped DEF BusStates
<1>2. ASSUME NEW i \in DOMAIN b.deliveries
      PROVE  [b.deliveries[i] EXCEPT !.owns = @ /\ ~Contains(xs, b.deliveries[i].text)] \in Deliveries
  <2>1. b.deliveries[i] \in Deliveries
    BY <1>1
  <2>2. (~Contains(xs, b.deliveries[i].text)) \in BOOLEAN
    BY DEF Contains
  <2> QED
    BY <2>1, <2>2 DEF Deliveries
<1>3. earlier \in Seq(Deliveries)
  BY <1>1, <1>2
<1>4. ASSUME NEW i \in DOMAIN xs
      PROVE  [Delivery(b, xs[i]) EXCEPT !.owns = \A j \in i + 1 .. Len(xs) : xs[j] # xs[i]] \in Deliveries
  <2>1. xs[i] \in Texts
    OBVIOUS
  <2>2. Delivery(b, xs[i]) \in Deliveries
    BY <1>1, <2>1 DEF Deliveries, Delivery
  <2>3. (\A j \in i + 1 .. Len(xs) : xs[j] # xs[i]) \in BOOLEAN
    OBVIOUS
  <2> QED
    BY <2>2, <2>3 DEF Deliveries
<1>5. started \in Seq(Deliveries)
  BY <1>4
<1> HIDE DEF earlier, started
<1>6. earlier \o started \in Seq(Deliveries)
  BY <1>3, <1>5
<1>7. [b EXCEPT !.deliveries = earlier \o started] \in BusStates
  BY <1>6, Zenon DEF BusStates
<1> QED
  BY <1>7 DEF StreamAll, earlier, started

LEMMA DeliverAllTyped ==
  ASSUME NEW b \in BusStates, NEW xs \in Seq(Texts)
  PROVE  DeliverAll(b, xs) \in BusStates
<1>1. Touch(b) \in BusStates
  BY TouchTyped
<1>2. Touch(b).held \in Seq(Texts)
  BY <1>1 DEF BusStates
<1>3. Touch(b).held \o xs \in Seq(Texts)
  BY <1>2
<1>4. [Touch(b) EXCEPT !.held = @ \o xs] \in BusStates
  BY <1>1, <1>3, Zenon DEF BusStates
<1> QED
  BY <1>1, <1>4, StreamAllTyped DEF DeliverAll

LEMMA DeliverOrQueueTyped ==
  ASSUME NEW b \in BusStates, NEW x \in Texts
  PROVE  DeliverOrQueue(b, x) \in BusStates
<1>1. <<x>> \in Seq(Texts)
  OBVIOUS
<1> QED
  BY <1>1, DeliverAllTyped DEF DeliverOrQueue

LEMMA RedeliverTyped ==
  ASSUME NEW b \in BusStates, NEW x \in Texts
  PROVE  Redeliver(b, x) \in BusStates
<1>1. b.carried \in Seq(Texts)
  BY DEF BusStates
<1>2. Append(b.carried, x) \in Seq(Texts)
  BY <1>1
<1>3. [b EXCEPT !.carried = Append(@, x)] \in BusStates
  BY <1>2, Zenon DEF BusStates
<1> QED
  BY <1>3, DeliverOrQueueTyped DEF Redeliver

LEMMA ArmVerifyTyped ==
  ASSUME NEW b \in BusStates, NEW xs
  PROVE  ArmVerify(b, xs) \in BusStates
<1> DEFINE verify == [x \in Texts |-> IF x \in xs /\ b.verify[x] = "none" THEN "armed" ELSE b.verify[x]]
<1>1. verify \in [Texts -> {"none", "armed", "graced", "spent"}]
  BY DEF BusStates
<1>2. Touch(b) \in BusStates
  BY TouchTyped
<1> HIDE DEF verify
<1>3. [Touch(b) EXCEPT !.verify = verify] \in BusStates
  BY <1>1, <1>2, Zenon DEF BusStates
<1> QED
  BY <1>3 DEF ArmVerify, verify

LEMMA ReleaseHoldTyped ==
  ASSUME NEW b \in BusStates, NEW xs
  PROVE  ReleaseHold(b, xs) \in BusStates
<1> DEFINE hold == [x \in Texts |-> IF x \in xs THEN None ELSE b.hold[x]]
<1>1. hold \in [Texts -> Holds \cup {None}]
  BY DEF BusStates
<1> HIDE DEF hold
<1>2. [b EXCEPT !.hold = hold] \in BusStates
  BY <1>1, Zenon DEF BusStates
<1> QED
  BY <1>2, ArmVerifyTyped DEF ReleaseHold, hold

LEMMA HoldThroughCompactionTyped ==
  ASSUME NEW b \in BusStates, NEW x \in Texts, NEW gen \in Nat, NEW since \in Nat
  PROVE  HoldThroughCompaction(b, x, gen, since) \in BusStates
<1> DEFINE unverified == [b EXCEPT !.verify[x] = "none"]
           held == [Touch(unverified) EXCEPT !.hold[x] = [gen |-> gen, since |-> since]]
<1>1. unverified \in BusStates
  BY DEF BusStates
<1>2. Touch(unverified) \in BusStates
  BY <1>1, TouchTyped
<1>3. [gen |-> gen, since |-> since] \in Holds
  BY DEF Holds
<1>4. held \in BusStates
  BY <1>2, <1>3 DEF BusStates
<1>5. ArmVerify(b, {x}) \in BusStates
  BY ArmVerifyTyped
<1> HIDE DEF unverified, held
<1>6. HoldThroughCompaction(b, x, gen, since) \in {b, ArmVerify(b, {x}), unverified, held}
  BY DEF HoldThroughCompaction, unverified, held
<1> QED
  BY <1>1, <1>4, <1>5, <1>6

LEMMA TouchKeepsDeliveries ==
  ASSUME NEW b \in BusStates
  PROVE  Touch(b).deliveries = b.deliveries /\ b.deliveries \in Seq(Deliveries)
<1>1. b.deliveries \in Seq(Deliveries)
  BY Zenon DEF BusStates
<1>2. [b EXCEPT !.deadline = ~SlotFree(b)].deliveries = b.deliveries
  BY Zenon DEF BusStates
<1> QED
  BY <1>1, <1>2 DEF Touch

LEMMA ArmKeepsDeliveries ==
  ASSUME NEW b \in BusStates, NEW xs
  PROVE  ArmVerify(b, xs).deliveries = b.deliveries
<1> DEFINE v == [x \in Texts |-> IF x \in xs /\ b.verify[x] = "none" THEN "armed" ELSE b.verify[x]]
<1>1. Touch(b) \in BusStates /\ Touch(b).deliveries = b.deliveries
  BY TouchTyped, TouchKeepsDeliveries
<1>2. [Touch(b) EXCEPT !.verify = v].deliveries = Touch(b).deliveries
  BY <1>1, Zenon DEF BusStates
<1> QED
  BY <1>1, <1>2 DEF ArmVerify

\* A re-delivery adds to the deliveries in flight, or leaves them.
LEMMA RedeliverGrows ==
  ASSUME NEW b \in BusStates, NEW x \in Texts
  PROVE  Len(Redeliver(b, x).deliveries) >= Len(b.deliveries)
<1>1. b.deliveries \in Seq(Deliveries) /\ Touch(b) \in BusStates /\ Touch(b).deliveries = b.deliveries
  BY TouchTyped, TouchKeepsDeliveries
<1>2. [b EXCEPT !.carried = Append(@, x)].deliveries = b.deliveries
  BY Zenon DEF BusStates
<1>3. [Touch(b) EXCEPT !.held = @ \o <<x>>].deliveries = b.deliveries
  BY <1>1, Zenon DEF BusStates
<1>4. Len(StreamAll(Touch(b), <<x>>).deliveries) >= Len(b.deliveries)
  <2> DEFINE t == Touch(b)
             xs == <<x>>
             earlier == [i \in DOMAIN t.deliveries |->
                           [t.deliveries[i] EXCEPT !.owns = @ /\ ~Contains(xs, t.deliveries[i].text)]]
             started == [i \in DOMAIN xs |->
                           [Delivery(t, xs[i]) EXCEPT !.owns = \A j \in i + 1 .. Len(xs) : xs[j] # xs[i]]]
  <2>1. [t EXCEPT !.deliveries = earlier \o started].deliveries = earlier \o started
    BY <1>1, Zenon DEF BusStates
  <2>2. StreamAll(t, xs).deliveries = earlier \o started
    BY <2>1 DEF StreamAll
  <2>3. Len(earlier \o started) >= Len(b.deliveries)
    <3>1. DOMAIN earlier = 1 .. Len(b.deliveries) /\ DOMAIN started = 1 .. 1
      BY <1>1
    <3> HIDE DEF earlier, started
    <3>2. Len(earlier \o started) = Len(earlier) + Len(started)
      OBVIOUS
    <3> QED
      BY <1>1, <3>1, <3>2
  <2> QED
    BY <2>2, <2>3
<1>5. Len(b.deliveries) \in Nat
  BY <1>1
<1> QED
  BY <1>1, <1>2, <1>3, <1>4, <1>5 DEF Redeliver, DeliverOrQueue, DeliverAll

LEMMA HoldKeepsDeliveries ==
  ASSUME NEW b \in BusStates, NEW x \in Texts, NEW gen, NEW since
  PROVE  HoldThroughCompaction(b, x, gen, since).deliveries = b.deliveries
<1> DEFINE u == [b EXCEPT !.verify[x] = "none"]
           h == [Touch(u) EXCEPT !.hold[x] = [gen |-> gen, since |-> since]]
<1>1. u \in BusStates /\ u.deliveries = b.deliveries
  BY Zenon DEF BusStates
<1> HIDE DEF u
<1>2. Touch(u).deliveries = u.deliveries /\ Touch(u) \in BusStates
  BY <1>1, TouchTyped, TouchKeepsDeliveries
<1>3. h.deliveries = Touch(u).deliveries
  BY <1>2, Zenon DEF BusStates
<1>4. ArmVerify(b, {x}).deliveries = b.deliveries
  BY ArmKeepsDeliveries
<1> HIDE DEF h
<1>5. HoldThroughCompaction(b, x, gen, since) \in {b, ArmVerify(b, {x}), u, h}
  BY DEF HoldThroughCompaction, u, h
<1> QED
  BY <1>1, <1>2, <1>3, <1>4, <1>5

LEMMA VerdictTyped ==
  ASSUME NEW b \in BusStates, NEW i \in DOMAIN b.deliveries, NEW outcome, NEW since \in Nat
  PROVE  Verdict(b, i, outcome, since) \in BusStates
<1> DEFINE d        == b.deliveries[i]
           x        == d.text
           wasRetry == d.owns /\ x \in b.spent
           consumed == IF wasRetry /\ outcome # "error" THEN [b EXCEPT !.spent = @ \ {x}] ELSE b
           gaveUp   == /\ outcome \in {"gave-up", "stuck-compaction"}
                       /\ ~wasRetry
                       /\ d.owns
                       /\ ~d.proven
                       /\ x # Nudge
           again    == [consumed EXCEPT !.spent = @ \cup {x}]
           judged   == CASE ~gaveUp -> consumed
                         [] gaveUp /\ outcome = "stuck-compaction" ->
                              HoldThroughCompaction(consumed, x, d.gen, since)
                         [] gaveUp /\ outcome = "gave-up" /\ d.current -> ArmVerify(consumed, {x})
                         [] gaveUp /\ outcome = "gave-up" /\ ~d.current -> Redeliver(again, x)
<1>1. /\ b.deliveries \in Seq(Deliveries) /\ d \in Deliveries /\ x \in Texts /\ d.gen \in Nat
      /\ i \in 1 .. Len(b.deliveries)
  <2>1. b.deliveries \in Seq(Deliveries)
    BY Zenon DEF BusStates
  <2>2. d \in Deliveries /\ i \in 1 .. Len(b.deliveries)
    BY <2>1
  <2> QED
    BY <2>1, <2>2 DEF Deliveries
<1>2. b.spent \ {x} \in SUBSET Texts
  BY Zenon DEF BusStates
<1>3. [b EXCEPT !.spent = @ \ {x}] \in BusStates /\ [b EXCEPT !.spent = @ \ {x}].deliveries = b.deliveries
  BY <1>2, Zenon DEF BusStates
<1>4. consumed \in BusStates /\ consumed.deliveries = b.deliveries
  BY <1>3
<1> HIDE DEF consumed
<1>5. consumed.spent \cup {x} \in SUBSET Texts
  BY <1>1, <1>4 DEF BusStates
<1>6. again \in BusStates /\ again.deliveries = b.deliveries
  BY <1>4, <1>5, Zenon DEF BusStates
<1> HIDE DEF again, gaveUp, d, x
<1>7. ArmVerify(consumed, {x}) \in BusStates /\ ArmVerify(consumed, {x}).deliveries = b.deliveries
  BY <1>4, ArmVerifyTyped, ArmKeepsDeliveries
<1>8. judged \in {consumed, HoldThroughCompaction(consumed, x, d.gen, since),
                  ArmVerify(consumed, {x}), Redeliver(again, x)}
  BY DEF gaveUp
<1> HIDE DEF judged
<1>9. judged \in BusStates
  BY <1>1, <1>4, <1>6, <1>7, <1>8, HoldThroughCompactionTyped, RedeliverTyped
<1>10. Len(judged.deliveries) >= Len(b.deliveries)
  BY <1>1, <1>4, <1>6, <1>7, <1>8, HoldKeepsDeliveries, RedeliverGrows
<1>11. RemoveAt(judged.deliveries, i) \in Seq(Deliveries)
  <2>1. judged.deliveries \in Seq(Deliveries)
    BY <1>9, Zenon DEF BusStates
  <2>2. i \in 1 .. Len(judged.deliveries)
    BY <1>1, <1>10, <2>1
  <2> QED
    BY <2>1, <2>2, RemoveAtSeq
<1>12. [judged EXCEPT !.deliveries = RemoveAt(@, i)] \in BusStates
  BY <1>9, <1>11, Zenon DEF BusStates
<1> QED
  BY <1>12 DEF Verdict, judged, again, gaveUp, consumed, x, d

LEMMA VerifyTimerTyped ==
  ASSUME NEW b \in BusStates, NEW x \in Texts, b.verify[x] \in {"armed", "graced"}
  PROVE  VerifyTimer(b, x) \in BusStates
<1>1. b.spent \cup {x} \in SUBSET Texts
  BY Zenon DEF BusStates
<1>2. [b EXCEPT !.verify[x] = "spent", !.spent = @ \cup {x}] \in BusStates
  BY <1>1, ZenonT(30) DEF BusStates
<1>3. [b EXCEPT !.verify[x] = "armed"] \in BusStates
  BY ZenonT(30) DEF BusStates
<1>4. [b EXCEPT !.verify[x] = "graced"] \in BusStates
  BY ZenonT(30) DEF BusStates
<1> QED
  BY <1>2, <1>3, <1>4, RedeliverTyped DEF VerifyTimer

LEMMA WithoutTyped ==
  ASSUME NEW S, NEW s \in Seq(S), NEW x
  PROVE  Without(s, x) \in Seq(S)
BY FirstAtFinds, RemoveAtSeq DEF Without

\* Any order of a finite set is a sequence of its members.
LEMMA SetToSeqTyped ==
  ASSUME NEW S, IsFiniteSet(S)
  PROVE  SetToSeq(S) \in Seq(S)
<1>1. Cardinality(S) \in Nat /\ ExistsBijection(1 .. Cardinality(S), S)
  BY FS_CardinalityType
<1>2. PICK f \in [1 .. Cardinality(S) -> S] : IsInjective(f)
  BY <1>1 DEF ExistsBijection, Bijection, Injection
<1>3. SetToSeq(S) \in [1 .. Cardinality(S) -> S]
  BY <1>2 DEF SetToSeq
<1> QED
  BY <1>1, <1>3

LEMMA NoteFlushTurnStartTyped ==
  ASSUME NEW b \in BusStates, NEW x
  PROVE  NoteFlushTurnStart(b, x) \in BusStates
<1> DEFINE seen == [i \in DOMAIN b.deliveries |->
                      IF b.deliveries[i].owns /\ b.deliveries[i].text = x
                        THEN [b.deliveries[i] EXCEPT !.proven = TRUE]
                        ELSE b.deliveries[i]]
           held == IF x \in b.spent THEN Without(b.held, x) ELSE b.held
           proven == [b EXCEPT !.deliveries = seen, !.spent = @ \ {x}, !.held = held,
                               !.carried = Without(@, x)]
<1>1. b.deliveries \in Seq(Deliveries) /\ b.held \in Seq(Texts) /\ b.carried \in Seq(Texts)
  BY Zenon DEF BusStates
<1>2. ASSUME NEW i \in DOMAIN b.deliveries
      PROVE  (IF b.deliveries[i].owns /\ b.deliveries[i].text = x
                THEN [b.deliveries[i] EXCEPT !.proven = TRUE]
                ELSE b.deliveries[i]) \in Deliveries
  <2>1. b.deliveries[i] \in Deliveries
    BY <1>1
  <2>2. [b.deliveries[i] EXCEPT !.proven = TRUE] \in Deliveries
    BY <2>1, Zenon DEF Deliveries
  <2> QED
    BY <2>1, <2>2
<1>3. seen \in Seq(Deliveries)
  <2>1. seen \in [DOMAIN b.deliveries -> Deliveries]
    BY <1>2, Zenon
  <2>2. DOMAIN b.deliveries = 1 .. Len(b.deliveries) /\ Len(b.deliveries) \in Nat
    BY <1>1
  <2> HIDE DEF seen
  <2> QED
    BY <2>1, <2>2
<1>4. held \in Seq(Texts) /\ Without(b.carried, x) \in Seq(Texts)
  BY <1>1, WithoutTyped
<1>5. b.spent \ {x} \in SUBSET Texts
  BY Zenon DEF BusStates
<1> HIDE DEF seen, held
<1>6. proven \in BusStates
  BY <1>3, <1>4, <1>5, ZenonT(30) DEF BusStates
<1> HIDE DEF proven
<1>7. x \in Texts => [proven EXCEPT !.hold[x] = None] \in BusStates
  BY <1>6, ZenonT(30) DEF BusStates
<1>8. x \in Texts => [proven EXCEPT !.verify[x] = "none"] \in BusStates
  BY <1>6, ZenonT(30) DEF BusStates
<1> QED
  BY <1>6, <1>7, <1>8 DEF NoteFlushTurnStart, proven, seen, held

LEMMA ReissueTyped ==
  ASSUME NEW b \in BusStates, NEW xs \in Seq(Texts)
  PROVE  Reissue(b, xs) \in BusStates
<1>1. b.redelivered \cup ToSet(xs) \in SUBSET Texts
  BY DEF BusStates, ToSet
<1>2. [b EXCEPT !.redelivered = @ \cup ToSet(xs), !.parked = TRUE] \in BusStates
  BY <1>1, Zenon DEF BusStates
<1> QED
  BY <1>2, DeliverAllTyped DEF Reissue

LEMMA CarryOverTyped ==
  ASSUME NEW b \in BusStates
  PROVE  CarryOver(b) \in Seq(Texts)
<1> DEFINE pending == {x \in Texts : NeedsCarrying(b, x)} \ (ToSet(b.held) \cup ToSet(b.carried))
<1>1. IsFiniteSet(Texts)
  BY BusAssumption, FS_AddElement DEF Texts
<1>2. IsFiniteSet(pending) /\ pending \subseteq Texts
  BY <1>1, FS_Subset
<1> HIDE DEF pending
<1>3. SetToSeq(pending) \in Seq(Texts)
  BY <1>2, SetToSeqTyped
<1>4. b.held \in Seq(Texts) /\ b.carried \in Seq(Texts)
  BY Zenon DEF BusStates
<1> QED
  BY <1>3, <1>4 DEF CarryOver, pending

LEMMA CloseDeliveriesTyped ==
  ASSUME NEW b \in BusStates
  PROVE  CloseDeliveries(b) \in BusStates
<1> DEFINE gone  == [i \in DOMAIN b.deliveries |-> [b.deliveries[i] EXCEPT !.current = FALSE]]
           carry == CarryOver(b)
           spent == b.spent \cup {x \in Texts : NeedsCarrying(b, x)}
           none  == [x \in Texts |-> "none"]
<1>1. b.deliveries \in Seq(Deliveries)
  BY Zenon DEF BusStates
<1>2. ASSUME NEW i \in DOMAIN b.deliveries
      PROVE  [b.deliveries[i] EXCEPT !.current = FALSE] \in Deliveries
  <2>1. b.deliveries[i] \in Deliveries
    BY <1>1
  <2> QED
    BY <2>1, Zenon DEF Deliveries
<1>3. gone \in Seq(Deliveries)
  <2>1. gone \in [DOMAIN b.deliveries -> Deliveries]
    BY <1>2, Zenon
  <2>2. DOMAIN b.deliveries = 1 .. Len(b.deliveries) /\ Len(b.deliveries) \in Nat
    BY <1>1
  <2> HIDE DEF gone
  <2> QED
    BY <2>1, <2>2
<1>4. spent \in SUBSET Texts /\ none \in [Texts -> {"none", "armed", "graced", "spent"}]
  BY DEF BusStates
<1>5. carry \in Seq(Texts) /\ <<>> \in Seq(Texts)
  BY CarryOverTyped
<1> HIDE DEF gone, carry, spent, none
<1>6. [b EXCEPT !.init = FALSE, !.carried = carry, !.spent = spent, !.deliveries = gone, !.held = <<>>,
                !.verify = none, !.closedOnce = TRUE, !.ready = FALSE, !.hello = FALSE] \in BusStates
  BY <1>3, <1>4, <1>5, ZenonT(60) DEF BusStates
<1> QED
  BY <1>6 DEF CloseDeliveries, gone, carry, spent, none

--------------------------------------------------------------------------------
(* Handlers *)

LEMMA AdmitPromptTyped ==
  ASSUME NEW b \in BusStates, NEW p \in Prompts, NEW online
  PROVE  AdmitPrompt(b, p, online) \in BusStates
<1> DEFINE awaits  == b.earlyReleased \/ b.awaitLine # None
           line    == IF awaits THEN p ELSE None
           taken   == [b EXCEPT !.overlap = b.op # None \/ b.deadlineReleased,
                                !.deadlineReleased = FALSE,
                                !.earlyReleased = FALSE,
                                !.awaitLine = line,
                                !.op = p,
                                !.pending = @ + 1]
           counted == Publish(taken)
           routed  == IF awaits THEN [counted EXCEPT !.pendingOrigin = p] ELSE ApplyOrigin(counted, p)
           opened  == [OpenTurn(routed) EXCEPT !.nudged = FALSE, !.stash = None]
           posted    == DeliverOrQueue(opened, p)
<1>1. p \in PromptOrNone /\ line \in PromptOrNone /\ p \in Texts
  BY DEF PromptOrNone, Texts
<1>2. b.pending + 1 \in Nat
  <2>1. b.pending \in Nat
    BY Zenon DEF BusStates
  <2> QED
    BY <2>1
<1>3. (b.op # None \/ b.deadlineReleased) \in BOOLEAN
  BY DEF BusStates
<1> HIDE DEF line
<1>4. taken \in BusStates
  BY <1>1, <1>2, <1>3, ZenonT(30) DEF BusStates
<1> HIDE DEF taken
<1>5. counted \in BusStates
  BY <1>4, PublishTyped
<1> HIDE DEF counted
<1>6. [counted EXCEPT !.pendingOrigin = p] \in BusStates
  BY <1>1, <1>5, Zenon DEF BusStates
<1>7. routed \in BusStates
  BY <1>5, <1>6, ApplyOriginTyped
<1> HIDE DEF routed
<1>8. OpenTurn(routed) \in BusStates
  BY <1>7, OpenTurnTyped
<1>9. opened \in BusStates
  BY <1>8, ZenonT(30) DEF BusStates
<1> HIDE DEF opened
<1>10. posted \in BusStates /\ ArmVerify(posted, {p}) \in BusStates
  BY <1>1, <1>9, DeliverOrQueueTyped, ArmVerifyTyped
<1> HIDE DEF posted, awaits
<1> QED
  BY <1>10 DEF AdmitPrompt, posted, opened, routed, counted, taken, line, awaits

\* The queue of a bus with a matched rotation has a prompt to admit: the type of
\* what admitNext takes needs no more than a lane that is not empty.
Admissible(b) == Matched(b.queue)

LEMMA AdmitNextTyped ==
  ASSUME NEW b \in BusStates, Admissible(b), NEW online
  PROVE  AdmitNext(b, online) \in BusStates
<1>1. b.queue \in Queues
  BY Zenon DEF BusStates
<1>2. [b EXCEPT !.queue = Dequeue(@)] \in BusStates
  BY <1>1, DequeueTyped, Zenon DEF BusStates
<1>3. HasQueue(b.queue) => NextPrompt(b.queue) \in Prompts
  <2> SUFFICES ASSUME HasQueue(b.queue) PROVE NextPrompt(b.queue) \in Prompts
    OBVIOUS
  <2>1. Servable(b.queue) # {}
    BY <1>1, ServesFront DEF Admissible
  <2> QED
    BY <1>1, <2>1, ServedIndexFound
<1> QED
  BY <1>2, <1>3, AdmitPromptTyped DEF AdmitNext

LEMMA SendPromptTyped ==
  ASSUME NEW b \in BusStates, Admissible(b), NEW p \in Prompts, NEW online
  PROVE  SendPrompt(b, p, online) \in BusStates
<1> DEFINE e == [b EXCEPT !.queue = Enqueue(@, p)]
<1>1. b.queue \in Queues
  BY Zenon DEF BusStates
<1>2. e \in BusStates /\ e.queue = Enqueue(b.queue, p)
  BY <1>1, EnqueueTyped, Zenon DEF BusStates
<1>3. Admissible(e)
  BY <1>1, <1>2, EnqueueEffect DEF Admissible
<1> HIDE DEF e
<1>4. AdmitNext(e, online) \in BusStates
  BY <1>2, <1>3, AdmitNextTyped
<1> QED
  BY <1>2, <1>4, AdmitPromptTyped DEF SendPrompt, e


LEMMA EffectiveTyped ==
  ASSUME NEW b \in BusStates, NEW named, NEW kind
  PROVE  Effective(b, named, kind) \in ChatOrNone
<1>1. /\ b.known \in SUBSET Chats /\ b.silentClosed \in ChatOrNone
      /\ b.slot # None => b.slot \in Prompts
  BY Zenon DEF BusStates, PromptOrNone
<1>2. \A p \in Prompts : Chat[p] \in Chats
  BY ChatAssumption
<1> QED
  BY <1>1, <1>2 DEF Effective, SlotChat, ChatOrNone

LEMMA IngestReplyTyped ==
  ASSUME NEW b \in BusStates, NEW named, NEW kind
  PROVE  IngestReply(b, named, kind) \in BusStates
<1> DEFINE to      == Effective(b, named, kind)
           freed   == [Publish(b) EXCEPT !.slot = None, !.slotAmbiguous = FALSE]
           other   == /\ named # None /\ named \in b.known
                      /\ b.slot # None
                      /\ SlotChat(b) # named
           routed  == IF other THEN Publish(b) ELSE freed
           settled == [routed EXCEPT !.replied = TRUE, !.nudged = FALSE, !.stash = None]
           closed  == IF b.slot # None THEN SlotChat(b) ELSE settled.silentClosed
           ans     == IF to # None THEN settled.answered \cup {to} ELSE settled.answered
<1>1. Publish(b) \in BusStates
  BY PublishTyped
<1>2. freed \in BusStates
  BY <1>1, Zenon DEF BusStates, PromptOrNone
<1> HIDE DEF freed, other
<1>3. routed \in BusStates
  BY <1>1, <1>2
<1> HIDE DEF routed
<1>4. settled \in BusStates
  BY <1>3, Zenon DEF BusStates
<1> HIDE DEF settled
<1>5. closed \in ChatOrNone
  <2>1. b.slot # None => b.slot \in Prompts
    BY Zenon DEF BusStates, PromptOrNone
  <2>2. settled.silentClosed \in ChatOrNone
    BY <1>4, Zenon DEF BusStates
  <2> QED
    BY <2>1, <2>2, ChatAssumption DEF SlotChat, ChatOrNone
<1>6. ans \in SUBSET Chats
  <2>1. settled.answered \in SUBSET Chats
    BY <1>4, Zenon DEF BusStates
  <2> QED
    BY <2>1, EffectiveTyped DEF ChatOrNone
<1> HIDE DEF closed, ans, to
<1>7. [settled EXCEPT !.silentClosed = closed] \in BusStates
  BY <1>4, <1>5, Zenon DEF BusStates
<1>8. [settled EXCEPT !.silentClosed = None, !.published = TRUE, !.answered = ans] \in BusStates
  BY <1>4, <1>6, ZenonT(30) DEF BusStates, ChatOrNone
<1> QED
  BY <1>7, <1>8 DEF IngestReply, closed, ans, settled, routed, other, freed, to

LEMMA NudgeForReplyTyped ==
  ASSUME NEW b \in BusStates, NEW text \in (SUBSET Prompts) \cup {None}, NEW online \in BOOLEAN
  PROVE  NudgeForReply(b, text, online) \in BusStates
<1>1. [b EXCEPT !.nudged = TRUE, !.stash = text, !.replied = FALSE, !.published = FALSE,
                !.answered = {}, !.fallback = online] \in BusStates
  BY ZenonT(60) DEF BusStates
<1>2. Nudge \in Texts
  BY DEF Texts
<1> QED
  BY <1>1, <1>2, DeliverOrQueueTyped DEF NudgeForReply

LEMMA HandleTurnEndTyped ==
  ASSUME NEW b \in BusStates, NEW text \in (SUBSET Prompts) \cup {None}, NEW inject, NEW online \in BOOLEAN
  PROVE  HandleTurnEnd(b, text, inject, online) \in BusStates
<1>1. NetText(b, text) \in (SUBSET Prompts) \cup {None}
  <2>1. b.stash \in (SUBSET Prompts) \cup {None}
    BY Zenon DEF BusStates
  <2> QED
    BY <2>1 DEF NetText
<1>2. [b EXCEPT !.replied = TRUE] \in BusStates
  BY Zenon DEF BusStates
<1>3. [b EXCEPT !.replied = TRUE, !.nudged = FALSE, !.stash = None] \in BusStates
  BY Zenon DEF BusStates
<1>4. IngestReply([b EXCEPT !.replied = TRUE], None, "silent") \in BusStates
  BY <1>2, IngestReplyTyped
<1>5. IngestReply([b EXCEPT !.replied = TRUE, !.nudged = FALSE, !.stash = None], None, "synthetic") \in BusStates
  BY <1>3, IngestReplyTyped
<1>6. NudgeForReply(b, NetText(b, text), online) \in BusStates
  BY <1>1, NudgeForReplyTyped
<1>7. NetVerdict(b, text, inject) \in {"nothing", "silent", "nudge", "synthesize"}
  BY Zenon DEF NetVerdict
<1> QED
  BY <1>4, <1>5, <1>6, <1>7 DEF HandleTurnEnd

LEMMA TurnEndTyped ==
  ASSUME NEW b \in BusStates, NEW id \in Nat, NEW text \in (SUBSET Prompts) \cup {None},
         NEW inject, NEW online \in BOOLEAN
  PROVE  TurnEnd(b, id, text, inject, online) \in BusStates
<1> DEFINE stale    == Stale(b)
           net      == IF stale THEN HandleStaleTurnEnd(b, text, inject)
                                ELSE HandleTurnEnd(b, text, inject, online)
           unparks  == ~stale \/ b.redelivered = {}
           parked   == IF unparks THEN FALSE ELSE net.parked
           again    == IF unparks THEN {} ELSE net.redelivered
           early    == IF stale THEN net.earlyReleased ELSE FALSE
           late     == IF stale THEN net.deadlineReleased ELSE FALSE
           over     == [net EXCEPT !.streaming = FALSE, !.parked = parked, !.redelivered = again,
                                   !.earlyReleased = early, !.deadlineReleased = late, !.lastEnd = id]
           said     == Publish(over)
           released == IF id # b.lastEnd /\ ~stale THEN ReleaseTurn(said) ELSE said
<1>1. HandleStaleTurnEnd(b, text, inject) \in BusStates
  BY IngestReplyTyped, OpenTurnTyped DEF HandleStaleTurnEnd
<1>2. net \in BusStates
  BY <1>1, HandleTurnEndTyped
<1> HIDE DEF net
<1>3. /\ parked \in BOOLEAN /\ again \in SUBSET Texts
      /\ early \in BOOLEAN /\ late \in BOOLEAN
  BY <1>2, Zenon DEF BusStates
<1> HIDE DEF parked, again, early, late
<1>4. over \in BusStates
  BY <1>2, <1>3, ZenonT(60) DEF BusStates
<1> HIDE DEF over
<1>5. said \in BusStates
  BY <1>4, PublishTyped
<1>6. released \in BusStates
  BY <1>5, ReleaseTurnTyped
<1> HIDE DEF released
<1>7. Touch(released) \in BusStates /\ ScheduleAdmit(released) \in BusStates
  BY <1>6, TouchTyped, ScheduleAdmitTyped
<1> QED
  BY <1>7 DEF TurnEnd, released, said, over, parked, again, early, late, net

LEMMA PromptLineTyped == ASSUME NEW b \in BusStates, NEW x PROVE PromptLine(b, x) \in BusStates
<1> DEFINE noted   == NoteFlushTurnStart(b, x)
           fall    == noted.fallback /\ x \notin {Nudge, NudgeNote}
           nudgeIn == [noted EXCEPT !.fallback = fall]
           taken   == TakeAwaitedLine(nudgeIn, x)
<1>1. noted \in BusStates
  BY NoteFlushTurnStartTyped
<1> HIDE DEF noted
<1>2. fall \in BOOLEAN
  BY <1>1 DEF BusStates
<1> HIDE DEF fall
<1>3. nudgeIn \in BusStates
  BY <1>1, <1>2, Zenon DEF BusStates
<1> HIDE DEF nudgeIn
<1>4. taken \in BusStates
  BY <1>3, TakeAwaitedLineTyped
<1> HIDE DEF taken
<1>5. [taken EXCEPT !.streaming = TRUE] \in BusStates
  BY <1>4, Zenon DEF BusStates
<1> QED
  BY <1>5, OpenTurnTyped, PublishTyped DEF PromptLine, taken, nudgeIn, fall, noted

LEMMA AbsorbedLineTyped == ASSUME NEW b \in BusStates, NEW x PROVE AbsorbedLine(b, x) \in BusStates
<1> DEFINE fall    == b.fallback /\ x \notin {Nudge, NudgeNote}
           nudgeIn == [b EXCEPT !.fallback = fall]
           taken   == TakeAwaitedLine(nudgeIn, x)
           noted   == NoteFlushTurnStart(taken, x)
<1>1. fall \in BOOLEAN
  BY DEF BusStates
<1> HIDE DEF fall
<1>2. nudgeIn \in BusStates
  BY <1>1, Zenon DEF BusStates
<1> HIDE DEF nudgeIn
<1>3. taken \in BusStates
  BY <1>2, TakeAwaitedLineTyped
<1> HIDE DEF taken
<1>4. noted \in BusStates
  BY <1>3, NoteFlushTurnStartTyped
<1> HIDE DEF noted
<1>5. (IF WasUnverified(taken, x) THEN ReleaseTurn(noted) ELSE noted) \in BusStates
  BY <1>4, ReleaseTurnTyped
<1> QED
  BY <1>5, PublishTyped DEF AbsorbedLine, noted, taken, nudgeIn, fall

LEMMA InitLineTyped == ASSUME NEW b \in BusStates, NEW session PROVE InitLine(b, session) \in BusStates
<1>1. [b EXCEPT !.init = TRUE] \in BusStates
  BY Zenon DEF BusStates
<1> QED
  BY <1>1, PublishTyped DEF InitLine

LEMMA CompactLineTyped ==
  ASSUME NEW b \in BusStates, NEW gen, NEW nth, NEW tolerant
  PROVE  CompactLine(b, gen, nth, tolerant) \in BusStates
BY ReleaseHoldTyped, PublishTyped DEF CompactLine

LEMMA NewGenerationTyped == ASSUME NEW b \in BusStates PROVE NewGeneration(b) \in BusStates
<1> DEFINE parked   == IF b.redelivered = {} THEN FALSE ELSE b.parked
           unparked == [b EXCEPT !.parked = parked, !.awaitLine = None, !.earlyReleased = FALSE,
                                 !.deadlineReleased = FALSE]
<1>1. parked \in BOOLEAN
  BY Zenon DEF BusStates
<1> HIDE DEF parked
<1>2. unparked \in BusStates
  BY <1>1, ZenonT(30) DEF BusStates, PromptOrNone
<1> HIDE DEF unparked
<1>3. [unparked EXCEPT !.pendingOrigin = None] \in BusStates
  BY <1>2, Zenon DEF BusStates, PromptOrNone
<1> QED
  BY <1>2, <1>3, ApplyPendingOriginTyped DEF NewGeneration, unparked, parked

LEMMA SpawnedTyped == ASSUME NEW b \in BusStates, NEW gen \in Nat PROVE Spawned(b, gen) \in BusStates
<1>1. BiggerOf(b.spawnedGen, gen) \in Nat
  BY DEF BusStates, BiggerOf
<1> QED
  BY <1>1, Zenon DEF Spawned, BusStates

LEMMA OnHelloTyped == ASSUME NEW b \in BusStates PROVE OnHello(b) \in BusStates
<1>1. [b EXCEPT !.hello = TRUE] \in BusStates
  BY Zenon DEF BusStates
<1>2. <<>> \in Seq(Texts) /\ b.carried \in Seq(Texts)
  BY DEF BusStates
<1>3. [b EXCEPT !.hello = TRUE, !.carried = <<>>] \in BusStates
  BY <1>2, Zenon DEF BusStates
<1> QED
  BY <1>1, <1>2, <1>3, ReissueTyped DEF OnHello

LEMMA NudgeFallbackTyped == ASSUME NEW b \in BusStates PROVE NudgeFallback(b) \in BusStates
<1>1. [b EXCEPT !.fallback = FALSE] \in BusStates
  BY Zenon DEF BusStates
<1>2. Nudge \in Texts
  BY DEF Texts
<1> QED
  BY <1>1, <1>2, DeliverOrQueueTyped DEF NudgeFallback

--------------------------------------------------------------------------------
(* The admission gate *)

\* Every counted turn is one prompt's, and there is at most one.
Counted(b) == b.pending \in {0, 1} /\ (b.op = None <=> b.pending = 0)

\* A deferred origin is the awaited prompt's.
Deferred(b) == b.pendingOrigin # None => b.awaitLine = b.pendingOrigin

\* A prompt waits before a free gate.
Strands(b) == SlotFree(b) /\ HasQueue(b.queue)

\* A held gate has its deadline running.
Timed(b) == ~SlotFree(b) => b.deadline

\* What holds of the gate after every handler; Parts is what holds before a
\* handler has touched the deadline.
Parts(b) == Admissible(b) /\ Counted(b) /\ Deferred(b)

Gate(b) == Parts(b) /\ Timed(b)

\* What an operator leaves alone that never touches the gate itself.
Frame(b, d) ==
  /\ d.queue = b.queue /\ d.op = b.op /\ d.pending = b.pending
  /\ d.streaming = b.streaming /\ d.nudged = b.nudged /\ d.parked = b.parked /\ d.settle = b.settle
  /\ d.awaitLine = b.awaitLine /\ d.pendingOrigin = b.pendingOrigin
  /\ d.deadline = b.deadline \/ d.deadline = ~SlotFree(b)

LEMMA FrameKeeps ==
  ASSUME NEW b, NEW d, Frame(b, d)
  PROVE  /\ SlotFree(d) <=> SlotFree(b)
         /\ Strands(d) <=> Strands(b)
         /\ Parts(b) => Parts(d)
         /\ Gate(b) => Gate(d)
BY Zenon DEF Frame, SlotFree, Strands, Gate, Parts, Admissible, Counted, Deferred, Timed

LEMMA FrameTrans ==
  ASSUME NEW b, NEW d, NEW e, Frame(b, d), Frame(d, e)
  PROVE  Frame(b, e)
<1>1. SlotFree(d) = SlotFree(b)
  BY Zenon DEF Frame, SlotFree
<1> QED
  BY <1>1, Zenon DEF Frame

LEMMA FrameSelf == ASSUME NEW b PROVE Frame(b, b)
BY Zenon DEF Frame

LEMMA TouchFrame == ASSUME NEW b \in BusStates PROVE Frame(b, Touch(b))
BY ZenonT(30) DEF Frame, Touch, BusStates

\* The deadline is right once it was touched.
LEMMA TouchGate == ASSUME NEW b \in BusStates, Parts(b) PROVE Gate(Touch(b))
<1>1. Frame(b, Touch(b))
  BY TouchFrame
<1>2. Touch(b).deadline = ~SlotFree(b)
  BY Zenon DEF Touch, BusStates
<1> QED
  BY <1>1, <1>2, FrameKeeps, Zenon DEF Gate, Timed

LEMMA StreamAllFrame == ASSUME NEW b \in BusStates, NEW xs PROVE Frame(b, StreamAll(b, xs))
<1> DEFINE earlier == [i \in DOMAIN b.deliveries |->
                         [b.deliveries[i] EXCEPT !.owns = @ /\ ~Contains(xs, b.deliveries[i].text)]]
           started == [i \in DOMAIN xs |->
                         [Delivery(b, xs[i]) EXCEPT !.owns = \A j \in i + 1 .. Len(xs) : xs[j] # xs[i]]]
           all     == earlier \o started
<1> HIDE DEF all
<1>1. Frame(b, [b EXCEPT !.deliveries = all])
  BY Zenon DEF Frame, BusStates
<1> QED
  BY <1>1 DEF StreamAll, all

LEMMA DeliverAllFrame ==
  ASSUME NEW b \in BusStates, NEW xs \in Seq(Texts)
  PROVE  Frame(b, DeliverAll(b, xs))
<1> DEFINE t == Touch(b)
<1>1. t \in BusStates /\ Frame(b, t)
  BY TouchTyped, TouchFrame
<1> HIDE DEF t
<1>2. Frame(t, [t EXCEPT !.held = @ \o xs])
  BY <1>1, Zenon DEF Frame, BusStates
<1>3. Frame(t, StreamAll(t, xs))
  BY <1>1, StreamAllFrame
<1>4. DeliverAll(b, xs) \in {[t EXCEPT !.held = @ \o xs], StreamAll(t, xs)}
  BY DEF DeliverAll, t
<1> QED
  BY <1>1, <1>2, <1>3, <1>4, FrameTrans

LEMMA DeliverOrQueueFrame ==
  ASSUME NEW b \in BusStates, NEW x \in Texts
  PROVE  Frame(b, DeliverOrQueue(b, x))
<1>1. <<x>> \in Seq(Texts)
  OBVIOUS
<1> QED
  BY <1>1, DeliverAllFrame DEF DeliverOrQueue

LEMMA RedeliverFrame == ASSUME NEW b \in BusStates, NEW x \in Texts PROVE Frame(b, Redeliver(b, x))
<1>1. Frame(b, [b EXCEPT !.carried = Append(@, x)])
  BY Zenon DEF Frame, BusStates
<1>2. Redeliver(b, x) \in {b, DeliverOrQueue(b, x), [b EXCEPT !.carried = Append(@, x)]}
  BY DEF Redeliver
<1> QED
  BY <1>1, <1>2, DeliverOrQueueFrame, FrameSelf

LEMMA ArmVerifyFrame == ASSUME NEW b \in BusStates, NEW xs PROVE Frame(b, ArmVerify(b, xs))
<1> DEFINE t == Touch(b)
           v == [x \in Texts |-> IF x \in xs /\ b.verify[x] = "none" THEN "armed" ELSE b.verify[x]]
<1>1. t \in BusStates /\ Frame(b, t)
  BY TouchTyped, TouchFrame
<1> HIDE DEF t, v
<1>2. Frame(t, [t EXCEPT !.verify = v])
  BY <1>1, Zenon DEF Frame, BusStates
<1>3. Frame(b, [t EXCEPT !.verify = v])
  BY <1>1, <1>2, FrameTrans
<1> QED
  BY <1>3 DEF ArmVerify, t, v

LEMMA ReleaseHoldFrame == ASSUME NEW b \in BusStates, NEW xs PROVE Frame(b, ReleaseHold(b, xs))
<1> DEFINE hold == [x \in Texts |-> IF x \in xs THEN None ELSE b.hold[x]]
           d == [b EXCEPT !.hold = hold]
<1>1. hold \in [Texts -> Holds \cup {None}]
  BY DEF BusStates
<1> HIDE DEF hold
<1>2. d \in BusStates /\ Frame(b, d)
  BY <1>1, Zenon DEF Frame, BusStates
<1> HIDE DEF d
<1>3. Frame(b, ArmVerify(d, xs))
  BY <1>2, ArmVerifyFrame, FrameTrans
<1> QED
  BY <1>3, FrameSelf DEF ReleaseHold, d, hold

LEMMA HoldThroughCompactionFrame ==
  ASSUME NEW b \in BusStates, NEW x \in Texts, NEW gen, NEW since
  PROVE  Frame(b, HoldThroughCompaction(b, x, gen, since))
<1> DEFINE u == [b EXCEPT !.verify[x] = "none"]
           h == [Touch(u) EXCEPT !.hold[x] = [gen |-> gen, since |-> since]]
<1>1. u \in BusStates /\ Frame(b, u)
  BY Zenon DEF Frame, BusStates
<1> HIDE DEF u
<1>2. Touch(u) \in BusStates /\ Frame(b, Touch(u))
  BY <1>1, TouchTyped, TouchFrame, FrameTrans
<1>3. Frame(Touch(u), h)
  BY <1>2, Zenon DEF Frame, BusStates
<1>4. Frame(b, h)
  BY <1>2, <1>3, FrameTrans
<1> HIDE DEF h
<1>5. HoldThroughCompaction(b, x, gen, since) \in {b, ArmVerify(b, {x}), u, h}
  BY DEF HoldThroughCompaction, u, h
<1> QED
  BY <1>1, <1>4, <1>5, ArmVerifyFrame, FrameSelf

LEMMA VerdictFrame ==
  ASSUME NEW b \in BusStates, NEW i \in DOMAIN b.deliveries, NEW outcome, NEW since \in Nat
  PROVE  Frame(b, Verdict(b, i, outcome, since))
<1> DEFINE d        == b.deliveries[i]
           x        == d.text
           wasRetry == d.owns /\ x \in b.spent
           consumed == IF wasRetry /\ outcome # "error" THEN [b EXCEPT !.spent = @ \ {x}] ELSE b
           gaveUp   == /\ outcome \in {"gave-up", "stuck-compaction"}
                       /\ ~wasRetry
                       /\ d.owns
                       /\ ~d.proven
                       /\ x # Nudge
           again    == [consumed EXCEPT !.spent = @ \cup {x}]
           judged   == CASE ~gaveUp -> consumed
                         [] gaveUp /\ outcome = "stuck-compaction" ->
                              HoldThroughCompaction(consumed, x, d.gen, since)
                         [] gaveUp /\ outcome = "gave-up" /\ d.current -> ArmVerify(consumed, {x})
                         [] gaveUp /\ outcome = "gave-up" /\ ~d.current -> Redeliver(again, x)
<1>1. d \in Deliveries /\ x \in Texts /\ d.gen \in Nat
  <2>1. b.deliveries \in Seq(Deliveries)
    BY Zenon DEF BusStates
  <2>2. d \in Deliveries
    BY <2>1
  <2> QED
    BY <2>2 DEF Deliveries
<1>2. b.spent \ {x} \in SUBSET Texts
  BY Zenon DEF BusStates
<1>3. [b EXCEPT !.spent = @ \ {x}] \in BusStates /\ Frame(b, [b EXCEPT !.spent = @ \ {x}])
  BY <1>2, Zenon DEF BusStates, Frame
<1>4. consumed \in BusStates /\ Frame(b, consumed)
  BY <1>3, FrameSelf
<1> HIDE DEF consumed
<1>5. consumed.spent \cup {x} \in SUBSET Texts
  BY <1>1, <1>4 DEF BusStates
<1>6. again \in BusStates /\ Frame(consumed, again)
  BY <1>4, <1>5, Zenon DEF BusStates, Frame
<1>7. Frame(b, again)
  BY <1>4, <1>6, FrameTrans
<1> HIDE DEF again, gaveUp, d, x
<1>8. judged \in {consumed, HoldThroughCompaction(consumed, x, d.gen, since),
                  ArmVerify(consumed, {x}), Redeliver(again, x)}
  BY <1>1 DEF gaveUp, Deliveries
<1> HIDE DEF judged
<1>9. judged \in BusStates
  BY <1>1, <1>4, <1>6, <1>8, ArmVerifyTyped, HoldThroughCompactionTyped, RedeliverTyped
<1>10. Frame(b, judged)
  <2>1. Frame(consumed, HoldThroughCompaction(consumed, x, d.gen, since)) /\ Frame(consumed, ArmVerify(consumed, {x}))
    BY <1>1, <1>4, HoldThroughCompactionFrame, ArmVerifyFrame
  <2>2. Frame(again, Redeliver(again, x))
    BY <1>1, <1>6, RedeliverFrame
  <2> QED
    BY <1>4, <1>7, <1>8, <2>1, <2>2, FrameTrans
<1>11. Frame(judged, [judged EXCEPT !.deliveries = RemoveAt(@, i)])
  BY <1>9, Zenon DEF BusStates, Frame
<1>12. Frame(b, [judged EXCEPT !.deliveries = RemoveAt(@, i)])
  BY <1>10, <1>11, FrameTrans
<1> QED
  BY <1>12 DEF Verdict, judged, again, gaveUp, consumed, x, d

LEMMA VerifyTimerFrame ==
  ASSUME NEW b \in BusStates, NEW x \in Texts, b.verify[x] \in {"armed", "graced"}
  PROVE  Frame(b, VerifyTimer(b, x))
<1> DEFINE again == [b EXCEPT !.verify[x] = "spent", !.spent = @ \cup {x}]
<1>1. b.spent \cup {x} \in SUBSET Texts
  BY Zenon DEF BusStates
<1>2. again \in BusStates /\ Frame(b, again)
  BY <1>1, ZenonT(30) DEF BusStates, Frame
<1> HIDE DEF again
<1>3. Frame(b, Redeliver(again, x))
  BY <1>2, RedeliverFrame, FrameTrans
<1>4. Frame(b, [b EXCEPT !.verify[x] = "armed"]) /\ Frame(b, [b EXCEPT !.verify[x] = "graced"])
  BY Zenon DEF BusStates, Frame
<1>5. VerifyTimer(b, x) \in {[b EXCEPT !.verify[x] = "armed"], [b EXCEPT !.verify[x] = "graced"],
                             Redeliver(again, x)}
  BY DEF VerifyTimer, again
<1> QED
  BY <1>3, <1>4, <1>5

LEMMA NoteFlushTurnStartFrame == ASSUME NEW b \in BusStates, NEW x PROVE Frame(b, NoteFlushTurnStart(b, x))
<1> DEFINE seen == [i \in DOMAIN b.deliveries |->
                      IF b.deliveries[i].owns /\ b.deliveries[i].text = x
                        THEN [b.deliveries[i] EXCEPT !.proven = TRUE]
                        ELSE b.deliveries[i]]
           held == IF x \in b.spent THEN Without(b.held, x) ELSE b.held
           proven == [b EXCEPT !.deliveries = seen, !.spent = @ \ {x}, !.held = held,
                               !.carried = Without(@, x)]
<1> HIDE DEF seen, held
<1>1. /\ Frame(b, proven)
      /\ proven.hold = b.hold /\ proven.verify = b.verify
      /\ Frame(b, [proven EXCEPT !.hold[x] = None]) /\ Frame(b, [proven EXCEPT !.verify[x] = "none"])
  BY ZenonT(60) DEF BusStates, Frame
<1> HIDE DEF proven
<1> QED
  BY <1>1, FrameSelf DEF NoteFlushTurnStart, proven, seen, held

\* A reissue parks the gate and touches the deadline.
LEMMA ReissueGate ==
  ASSUME NEW b \in BusStates, Parts(b), NEW xs \in Seq(Texts), xs = <<>> => Timed(b)
  PROVE  Gate(Reissue(b, xs))
<1> DEFINE parked == [b EXCEPT !.redelivered = @ \cup ToSet(xs), !.parked = TRUE]
<1>1. b.redelivered \cup ToSet(xs) \in SUBSET Texts
  BY DEF BusStates, ToSet
<1>2. parked \in BusStates
  BY <1>1, Zenon DEF BusStates
<1>3. Parts(parked)
  BY ZenonT(30) DEF BusStates, Parts, Admissible, Counted, Deferred
<1> HIDE DEF parked
<1>4. DeliverAll(parked, xs).deadline = ~SlotFree(parked)
  <2> DEFINE t == Touch(parked)
  <2>1. t \in BusStates /\ t.deadline = ~SlotFree(parked)
    <3>1. t.deadline = ~SlotFree(parked)
      BY <1>2, Zenon DEF Touch, BusStates
    <3> QED
      BY <1>2, <3>1, TouchTyped
  <2> HIDE DEF t
  <2>2. [t EXCEPT !.held = @ \o xs].deadline = t.deadline
    BY <2>1, Zenon DEF BusStates
  <2>3. StreamAll(t, xs).deadline = t.deadline
    <3> DEFINE all == StreamAll(t, xs).deliveries
    <3>1. \A a : [t EXCEPT !.deliveries = a].deadline = t.deadline
      BY <2>1, Zenon DEF BusStates
    <3> QED
      BY <3>1 DEF StreamAll
  <2> QED
    BY <2>1, <2>2, <2>3 DEF DeliverAll, t
<1>5. Frame(parked, DeliverAll(parked, xs))
  BY <1>2, DeliverAllFrame
<1>6. Gate(DeliverAll(parked, xs))
  BY <1>3, <1>4, <1>5, FrameKeeps DEF Gate, Timed
<1> QED
  BY <1>6 DEF Reissue, parked, Gate

\* A turn that ends leaves none counted.
LEMMA ReleaseTurnParts ==
  ASSUME NEW b \in BusStates, Gate(b)
  PROVE  Gate(ReleaseTurn(b))
<1> DEFINE r == [b EXCEPT !.pending = 0, !.op = None, !.overlap = FALSE]
<1>1. ~(b.pending > 1)
  BY DEF Gate, Parts, Counted
<1>2. r \in BusStates
  BY Zenon DEF BusStates, PromptOrNone
<1>3. r.pending = 0 /\ r.op = None /\ r.queue = b.queue /\ r.awaitLine = b.awaitLine
      /\ r.pendingOrigin = b.pendingOrigin
  BY Zenon DEF BusStates
<1> HIDE DEF r
<1>4. Parts(r)
  BY <1>3 DEF Gate, Parts, Admissible, Counted, Deferred
<1>5. ReleaseTurn(b) = Touch(r)
  BY <1>1 DEF ReleaseTurn, r
<1> QED
  BY <1>2, <1>4, <1>5, TouchGate

LEMMA OpenTurnFrame == ASSUME NEW b \in BusStates PROVE Frame(b, OpenTurn(b))
BY ZenonT(30) DEF OpenTurn, Frame, BusStates

LEMMA ApplyOriginFrame == ASSUME NEW b \in BusStates, NEW p PROVE Frame(b, ApplyOrigin(b, p))
BY ZenonT(30) DEF ApplyOrigin, Frame, BusStates

\* The deferred origin is the slot's, and deferred no longer.
LEMMA ApplyPendingOriginEffect ==
  ASSUME NEW b \in BusStates
  PROVE  LET d == ApplyPendingOrigin(b)
         IN  /\ d.pendingOrigin = None
             /\ d.queue = b.queue /\ d.op = b.op /\ d.pending = b.pending
             /\ d.streaming = b.streaming /\ d.nudged = b.nudged /\ d.parked = b.parked
             /\ d.settle = b.settle /\ d.awaitLine = b.awaitLine /\ d.deadline = b.deadline
<1> DEFINE c == [b EXCEPT !.pendingOrigin = None]
           p == b.pendingOrigin
<1>1. CASE p = None
  BY <1>1, Zenon DEF ApplyPendingOrigin
<1>2. CASE p # None
  <2>1. c \in BusStates
    BY Zenon DEF BusStates, PromptOrNone
  <2>2. /\ c.pendingOrigin = None
        /\ c.queue = b.queue /\ c.op = b.op /\ c.pending = b.pending
        /\ c.streaming = b.streaming /\ c.nudged = b.nudged /\ c.parked = b.parked
        /\ c.settle = b.settle /\ c.awaitLine = b.awaitLine /\ c.deadline = b.deadline
    BY Zenon DEF BusStates
  <2> HIDE DEF c
  <2>3. Frame(c, ApplyOrigin(c, p)) /\ ApplyOrigin(c, p).deadline = c.deadline
    BY <2>1, ApplyOriginFrame, Zenon DEF ApplyOrigin, BusStates
  <2>4. ApplyPendingOrigin(b) = ApplyOrigin(c, p)
    BY <1>2 DEF ApplyPendingOrigin, c
  <2> QED
    BY <2>2, <2>3, <2>4 DEF Frame
<1> QED
  BY <1>1, <1>2

LEMMA TakeAwaitedLineGate ==
  ASSUME NEW b \in BusStates, NEW x, Gate(b)
  PROVE  Gate(TakeAwaitedLine(b, x))
<1> DEFINE c == [b EXCEPT !.awaitLine = None]
<1>1. c \in BusStates
  BY Zenon DEF BusStates, PromptOrNone
<1>2. /\ c.queue = b.queue /\ c.op = b.op /\ c.pending = b.pending
      /\ c.streaming = b.streaming /\ c.nudged = b.nudged /\ c.parked = b.parked
      /\ c.settle = b.settle /\ c.deadline = b.deadline
  BY Zenon DEF BusStates
<1> HIDE DEF c
<1>3. Gate(ApplyPendingOrigin(c))
  BY <1>1, <1>2, ApplyPendingOriginEffect DEF Gate, Parts, Admissible, Counted, Deferred, Timed, SlotFree
<1> QED
  BY <1>3 DEF TakeAwaitedLine, c

LEMMA PublishGate == ASSUME NEW b \in BusStates, Parts(b) PROVE Gate(Publish(b))
BY TouchGate DEF Publish

--------------------------------------------------------------------------------
(* The handlers keep the gate *)

\* A new turn has neither a reminder nor a stashed answer.
LEMMA FreshTurn ==
  ASSUME NEW o \in BusStates, NEW n, n = [o EXCEPT !.nudged = FALSE, !.stash = None]
  PROVE  /\ n \in BusStates
         /\ n.op = o.op /\ n.pending = o.pending /\ n.deadline = o.deadline
         /\ n.queue = o.queue /\ n.awaitLine = o.awaitLine /\ n.pendingOrigin = o.pendingOrigin
<1>1. n \in BusStates
  BY ZenonT(60) DEF BusStates
<1>2. /\ n.op = o.op /\ n.pending = o.pending /\ n.deadline = o.deadline
      /\ n.queue = o.queue /\ n.awaitLine = o.awaitLine /\ n.pendingOrigin = o.pendingOrigin
  BY ZenonT(60) DEF BusStates
<1> QED
  BY <1>1, <1>2

\* A prompt admitted to a free gate is the one counted turn.
LEMMA AdmitPromptGate ==
  ASSUME NEW b \in BusStates, Parts(b), SlotFree(b), NEW p \in Prompts, NEW online
  PROVE  Gate(AdmitPrompt(b, p, online)) /\ ~Strands(AdmitPrompt(b, p, online))
<1> DEFINE awaits  == b.earlyReleased \/ b.awaitLine # None
           line    == IF awaits THEN p ELSE None
           lapped  == b.op # None \/ b.deadlineReleased
           taken   == [b EXCEPT !.overlap = lapped,
                                !.deadlineReleased = FALSE,
                                !.earlyReleased = FALSE,
                                !.awaitLine = line,
                                !.op = p,
                                !.pending = @ + 1]
           counted == Publish(taken)
           routed  == IF awaits THEN [counted EXCEPT !.pendingOrigin = p] ELSE ApplyOrigin(counted, p)
           opened  == [OpenTurn(routed) EXCEPT !.nudged = FALSE, !.stash = None]
           posted    == DeliverOrQueue(opened, p)
           Turns1(s) == /\ s.op = p /\ s.pending = 1 /\ s.deadline = TRUE /\ s.queue = b.queue
                        /\ s.awaitLine = line
<1>1. /\ p \in PromptOrNone /\ line \in PromptOrNone /\ p \in Texts
      /\ None \in PromptOrNone /\ p # None /\ lapped \in BOOLEAN
  BY BusAssumption DEF PromptOrNone, Texts, BusStates
<1>2. b.pending = 0 /\ b.op = None
  BY DEF Parts, Counted, SlotFree
<1> HIDE DEF lapped
<1>3. /\ taken \in BusStates
      /\ taken.op = p /\ taken.pending = b.pending + 1 /\ taken.queue = b.queue
      /\ taken.awaitLine = line /\ taken.pendingOrigin = b.pendingOrigin
  <2>1. b.pending + 1 \in Nat
    BY <1>2
  <2>2. taken \in BusStates
    BY <1>1, <2>1, ZenonT(30) DEF BusStates
  <2>3. /\ taken.op = p /\ taken.pending = b.pending + 1 /\ taken.queue = b.queue
        /\ taken.awaitLine = line /\ taken.pendingOrigin = b.pendingOrigin
    BY Zenon DEF BusStates
  <2> QED
    BY <2>2, <2>3
<1> HIDE DEF taken, line
<1>4. /\ counted \in BusStates /\ Turns1(counted) /\ counted.pendingOrigin = b.pendingOrigin
  <2>1. counted \in BusStates /\ Frame(taken, counted)
    BY <1>3, PublishTyped, TouchFrame DEF Publish
  <2>2. counted.deadline = ~SlotFree(taken)
    BY <1>3, Zenon DEF Publish, Touch, BusStates
  <2>3. ~SlotFree(taken)
    BY <1>1, <1>3 DEF SlotFree
  <2>4. counted.deadline = TRUE
    BY <2>2, <2>3, Zenon
  <2>5. counted.pending = 1
    BY <1>2, <1>3, <2>1 DEF Frame
  <2>6. /\ counted.op = p /\ counted.queue = b.queue /\ counted.awaitLine = line
        /\ counted.pendingOrigin = b.pendingOrigin
    BY <1>3, <2>1, Zenon DEF Frame
  <2> QED
    BY <2>1, <2>4, <2>5, <2>6, Zenon
<1> HIDE DEF counted
<1>5. /\ routed \in BusStates /\ Turns1(routed) /\ Deferred(routed)
  <2>1. CASE awaits
    <3> DEFINE r == [counted EXCEPT !.pendingOrigin = p]
    <3>1. r \in BusStates /\ Turns1(r) /\ r.pendingOrigin = p
      BY <1>1, <1>4, Zenon DEF BusStates
    <3> HIDE DEF r
    <3>2. line = p /\ routed = r
      BY <2>1 DEF line, r
    <3> QED
      BY <3>1, <3>2 DEF Deferred
  <2>2. CASE ~awaits
    <3> DEFINE r == ApplyOrigin(counted, p)
    <3>1. r \in BusStates /\ Frame(counted, r) /\ r.deadline = counted.deadline
      <4>1. r.deadline = counted.deadline
        BY <1>4, Zenon DEF ApplyOrigin, BusStates
      <4> QED
        BY <1>4, <4>1, ApplyOriginTyped, ApplyOriginFrame
    <3> HIDE DEF r
    <3>2. routed = r
      BY <2>2 DEF r
    <3>3. r.pendingOrigin = None
      BY <1>4, <2>2, <3>1 DEF Frame, Parts, Deferred
    <3> QED
      BY <1>4, <3>1, <3>2, <3>3 DEF Frame, Deferred
  <2> QED
    BY <2>1, <2>2
<1> HIDE DEF routed, awaits
<1>6. /\ opened \in BusStates /\ Turns1(opened) /\ Deferred(opened)
  <2> DEFINE o == OpenTurn(routed)
  <2>1. o \in BusStates /\ Frame(routed, o) /\ o.deadline = routed.deadline
    <3>1. o.deadline = routed.deadline
      BY <1>5, Zenon DEF OpenTurn, BusStates
    <3> QED
      BY <1>5, <3>1, OpenTurnTyped, OpenTurnFrame
  <2>2. Turns1(o) /\ Deferred(o)
    BY <1>5, <2>1 DEF Frame, Deferred
  <2> HIDE DEF o
  <2>3. opened = [o EXCEPT !.nudged = FALSE, !.stash = None]
    BY DEF o
  <2>4. /\ opened \in BusStates
        /\ opened.op = o.op /\ opened.pending = o.pending /\ opened.deadline = o.deadline
        /\ opened.queue = o.queue /\ opened.awaitLine = o.awaitLine /\ opened.pendingOrigin = o.pendingOrigin
    BY <2>1, <2>3, FreshTurn
  <2> QED
    BY <2>2, <2>4 DEF Deferred
<1> HIDE DEF opened
<1>7. Gate(opened)
  BY <1>1, <1>6 DEF Gate, Parts, Admissible, Counted, Timed
<1>8. posted \in BusStates /\ Frame(opened, posted)
  BY <1>1, <1>6, DeliverOrQueueTyped, DeliverOrQueueFrame
<1>9. Gate(posted) /\ Gate(ArmVerify(posted, {p}))
  BY <1>7, <1>8, FrameKeeps, ArmVerifyFrame
<1>10. ~Strands(posted) /\ ~Strands(ArmVerify(posted, {p}))
  <2>1. ~Strands(opened)
    BY <1>1, <1>6 DEF Strands, SlotFree
  <2> QED
    BY <1>8, <2>1, FrameKeeps, ArmVerifyFrame
<1> HIDE DEF posted
<1> QED
  BY <1>9, <1>10 DEF AdmitPrompt, posted, opened, routed, counted, taken, line, lapped, awaits

LEMMA AdmitNextGate ==
  ASSUME NEW b \in BusStates, Gate(b), NEW online
  PROVE  /\ AdmitNext(b, online) \in BusStates /\ Gate(AdmitNext(b, online))
         /\ ~Strands(AdmitNext(b, online))
<1> DEFINE d == [b EXCEPT !.queue = Dequeue(@)]
<1>1. b.queue \in Queues
  BY Zenon DEF BusStates
<1>2. Admissible(b)
  BY DEF Gate, Parts
<1>3. AdmitNext(b, online) \in BusStates
  BY <1>2, AdmitNextTyped
<1>4. ASSUME SlotFree(b), HasQueue(b.queue)
      PROVE  /\ Gate(AdmitPrompt(d, NextPrompt(b.queue), online))
             /\ ~Strands(AdmitPrompt(d, NextPrompt(b.queue), online))
  <2>1. d \in BusStates
    BY <1>1, DequeueTyped, Zenon DEF BusStates
  <2>2. /\ d.queue = Dequeue(b.queue) /\ d.op = b.op /\ d.pending = b.pending
        /\ d.streaming = b.streaming /\ d.nudged = b.nudged /\ d.parked = b.parked /\ d.settle = b.settle
        /\ d.awaitLine = b.awaitLine /\ d.pendingOrigin = b.pendingOrigin
    BY Zenon DEF BusStates
  <2> HIDE DEF d
  <2>3. Matched(Dequeue(b.queue))
    BY <1>1, <1>2, <1>4, DequeueEffect DEF Admissible
  <2>4. Parts(d) /\ SlotFree(d)
    BY <1>4, <2>2, <2>3 DEF Gate, Parts, Admissible, Counted, Deferred, SlotFree
  <2>5. Servable(b.queue) # {}
    BY <1>1, <1>2, <1>4, ServesFront DEF Admissible
  <2>6. NextPrompt(b.queue) \in Prompts
    BY <1>1, <2>5, ServedIndexFound
  <2> QED
    BY <2>1, <2>4, <2>6, AdmitPromptGate
<1> QED
  BY <1>3, <1>4 DEF AdmitNext, Strands

LEMMA SendPromptGate ==
  ASSUME NEW b \in BusStates, Gate(b), NEW p \in Prompts, NEW online
  PROVE  SendPrompt(b, p, online) \in BusStates /\ Gate(SendPrompt(b, p, online))
<1> DEFINE e == [b EXCEPT !.queue = Enqueue(@, p)]
<1>1. b.queue \in Queues /\ Admissible(b)
  BY Zenon DEF BusStates, Gate, Parts
<1>2. e \in BusStates
  BY <1>1, EnqueueTyped, Zenon DEF BusStates
<1>3. /\ e.queue = Enqueue(b.queue, p) /\ e.op = b.op /\ e.pending = b.pending
      /\ e.streaming = b.streaming /\ e.nudged = b.nudged /\ e.parked = b.parked /\ e.settle = b.settle
      /\ e.awaitLine = b.awaitLine /\ e.pendingOrigin = b.pendingOrigin /\ e.deadline = b.deadline
  BY Zenon DEF BusStates
<1> HIDE DEF e
<1>4. Matched(Enqueue(b.queue, p))
  BY <1>1, EnqueueEffect DEF Admissible
<1>5. Gate(e)
  BY <1>3, <1>4 DEF Gate, Parts, Admissible, Counted, Deferred, Timed, SlotFree
<1>6. AdmitNext(e, online) \in BusStates /\ Gate(AdmitNext(e, online))
  BY <1>2, <1>5, AdmitNextGate
<1>7. ~MustQueue(b) => Gate(AdmitPrompt(b, p, online))
  BY AdmitPromptGate DEF MustQueue, Gate
<1>8. SendPrompt(b, p, online) \in BusStates
  BY <1>1, SendPromptTyped
<1> QED
  BY <1>5, <1>6, <1>7, <1>8 DEF SendPrompt, e

LEMMA IngestReplyGate ==
  ASSUME NEW b \in BusStates, Gate(b), NEW named, NEW kind
  PROVE  Gate(IngestReply(b, named, kind))
<1> DEFINE to      == Effective(b, named, kind)
           freed   == [Publish(b) EXCEPT !.slot = None, !.slotAmbiguous = FALSE]
           other   == /\ named # None /\ named \in b.known
                      /\ b.slot # None
                      /\ SlotChat(b) # named
           routed  == IF other THEN Publish(b) ELSE freed
           settled == [routed EXCEPT !.replied = TRUE, !.nudged = FALSE, !.stash = None]
           closed  == IF b.slot # None THEN SlotChat(b) ELSE settled.silentClosed
           ans     == IF to # None THEN settled.answered \cup {to} ELSE settled.answered
<1>1. Publish(b) \in BusStates /\ Gate(Publish(b))
  BY PublishTyped, PublishGate DEF Gate
<1>2. freed \in BusStates /\ Frame(Publish(b), freed)
  <2> DEFINE said == Publish(b)
  <2>1. said \in BusStates /\ None \in PromptOrNone
    BY <1>1 DEF PromptOrNone
  <2> HIDE DEF said
  <2>2. [said EXCEPT !.slot = None, !.slotAmbiguous = FALSE] \in BusStates
    BY <2>1, ZenonT(30) DEF BusStates
  <2>3. Frame(said, [said EXCEPT !.slot = None, !.slotAmbiguous = FALSE])
    BY <2>1, ZenonT(30) DEF BusStates, Frame
  <2> QED
    BY <2>2, <2>3 DEF said
<1>3. Gate(freed)
  BY <1>1, <1>2, FrameKeeps
<1> HIDE DEF freed, other
<1>4. routed \in BusStates /\ Gate(routed)
  BY <1>1, <1>2, <1>3
<1> HIDE DEF routed
<1>5. settled \in BusStates
  BY <1>4, Zenon DEF BusStates
<1>6. /\ settled.queue = routed.queue /\ settled.op = routed.op /\ settled.pending = routed.pending
      /\ settled.streaming = routed.streaming /\ settled.nudged = FALSE /\ settled.parked = routed.parked
      /\ settled.settle = routed.settle /\ settled.awaitLine = routed.awaitLine
      /\ settled.pendingOrigin = routed.pendingOrigin /\ settled.deadline = routed.deadline
  BY <1>4, ZenonT(30) DEF BusStates
<1> HIDE DEF settled, closed, ans, to
<1>7. Gate(settled)
  BY <1>4, <1>6 DEF Gate, Parts, Admissible, Counted, Deferred, Timed, SlotFree
<1>8. Frame(settled, [settled EXCEPT !.silentClosed = closed])
  BY <1>5, Zenon DEF BusStates, Frame
<1>9. Frame(settled, [settled EXCEPT !.silentClosed = None, !.published = TRUE, !.answered = ans])
  BY <1>5, ZenonT(30) DEF BusStates, Frame
<1>10. /\ Gate([settled EXCEPT !.silentClosed = closed])
       /\ Gate([settled EXCEPT !.silentClosed = None, !.published = TRUE, !.answered = ans])
  BY <1>7, <1>8, <1>9, FrameKeeps
<1> QED
  BY <1>10 DEF IngestReply, closed, ans, settled, routed, other, freed, to

\* What Parts speaks of is untouched.
SameParts(b, d) ==
  /\ d.queue = b.queue /\ d.op = b.op /\ d.pending = b.pending
  /\ d.awaitLine = b.awaitLine /\ d.pendingOrigin = b.pendingOrigin

LEMMA SamePartsKeeps == ASSUME NEW b, NEW d, SameParts(b, d), Parts(b) PROVE Parts(d)
BY Zenon DEF SameParts, Parts, Admissible, Counted, Deferred

LEMMA NudgeForReplyParts ==
  ASSUME NEW b \in BusStates, Parts(b), NEW text \in (SUBSET Prompts) \cup {None}, NEW online \in BOOLEAN
  PROVE  Parts(NudgeForReply(b, text, online))
<1> DEFINE asked == [b EXCEPT !.nudged = TRUE, !.stash = text, !.replied = FALSE, !.published = FALSE,
                              !.answered = {}, !.fallback = online]
<1>1. asked \in BusStates
  BY ZenonT(60) DEF BusStates
<1>2. SameParts(b, asked)
  BY ZenonT(60) DEF BusStates, SameParts
<1>3. Nudge \in Texts
  BY DEF Texts
<1> HIDE DEF asked
<1>4. Parts(asked)
  BY <1>2, SamePartsKeeps
<1>5. Parts(DeliverOrQueue(asked, Nudge))
  BY <1>1, <1>3, <1>4, DeliverOrQueueFrame, FrameKeeps
<1> QED
  BY <1>4, <1>5 DEF NudgeForReply, asked

LEMMA HandleTurnEndParts ==
  ASSUME NEW b \in BusStates, Gate(b), NEW text \in (SUBSET Prompts) \cup {None}, NEW inject,
         NEW online \in BOOLEAN
  PROVE  Parts(HandleTurnEnd(b, text, inject, online))
<1> DEFINE heard == [b EXCEPT !.replied = TRUE]
           given == [b EXCEPT !.replied = TRUE, !.nudged = FALSE, !.stash = None]
<1>1. NetText(b, text) \in (SUBSET Prompts) \cup {None}
  <2>1. b.stash \in (SUBSET Prompts) \cup {None}
    BY Zenon DEF BusStates
  <2> QED
    BY <2>1 DEF NetText
<1>2. heard \in BusStates /\ Frame(b, heard)
  BY Zenon DEF BusStates, Frame
<1>3. given \in BusStates
  BY Zenon DEF BusStates
<1>4. /\ given.queue = b.queue /\ given.op = b.op /\ given.pending = b.pending
      /\ given.streaming = b.streaming /\ given.nudged = FALSE /\ given.parked = b.parked
      /\ given.settle = b.settle /\ given.awaitLine = b.awaitLine
      /\ given.pendingOrigin = b.pendingOrigin /\ given.deadline = b.deadline
  BY ZenonT(30) DEF BusStates
<1> HIDE DEF heard, given
<1>5. Gate(heard) /\ Gate(given)
  <2>1. Gate(heard)
    BY <1>2, FrameKeeps
  <2>2. Gate(given)
    BY <1>4 DEF Gate, Parts, Admissible, Counted, Deferred, Timed, SlotFree
  <2> QED
    BY <2>1, <2>2
<1>6. /\ Parts(IngestReply(heard, None, "silent"))
      /\ Parts(IngestReply(given, None, "synthetic"))
  BY <1>2, <1>3, <1>5, IngestReplyGate DEF Gate
<1>7. Parts(NudgeForReply(b, NetText(b, text), online))
  BY <1>1, NudgeForReplyParts DEF Gate
<1>8. NetVerdict(b, text, inject) \in {"nothing", "silent", "nudge", "synthesize"}
  BY Zenon DEF NetVerdict
<1> QED
  BY <1>6, <1>7, <1>8 DEF HandleTurnEnd, Gate, heard, given

LEMMA HandleStaleTurnEndGate ==
  ASSUME NEW b \in BusStates, Gate(b), NEW text, NEW inject
  PROVE  /\ HandleStaleTurnEnd(b, text, inject) \in BusStates
         /\ Gate(HandleStaleTurnEnd(b, text, inject))
<1> DEFINE said == IngestReply(b, None, "synthetic")
<1>1. said \in BusStates /\ Gate(said)
  BY IngestReplyTyped, IngestReplyGate
<1> HIDE DEF said
<1>2. OpenTurn(said) \in BusStates /\ Gate(OpenTurn(said))
  BY <1>1, OpenTurnTyped, OpenTurnFrame, FrameKeeps
<1> QED
  BY <1>2 DEF HandleStaleTurnEnd, said

\* Holding the gate for the terminal message's other lines keeps it.
LEMMA ScheduleAdmitGate ==
  ASSUME NEW b \in BusStates, Parts(b)
  PROVE  Gate(ScheduleAdmit(b))
<1> DEFINE s == [b EXCEPT !.settle = TRUE]
<1>1. s \in BusStates /\ SameParts(b, s)
  BY ZenonT(30) DEF BusStates, SameParts
<1> HIDE DEF s
<1> QED
  BY <1>1, SamePartsKeeps, TouchGate DEF ScheduleAdmit, s

LEMMA TurnEndGate ==
  ASSUME NEW b \in BusStates, Gate(b), NEW id \in Nat, NEW text \in (SUBSET Prompts) \cup {None},
         NEW inject, NEW online \in BOOLEAN
  PROVE  Gate(TurnEnd(b, id, text, inject, online))
<1> DEFINE stale    == Stale(b)
           net      == IF stale THEN HandleStaleTurnEnd(b, text, inject)
                                ELSE HandleTurnEnd(b, text, inject, online)
           unparks  == ~stale \/ b.redelivered = {}
           parked   == IF unparks THEN FALSE ELSE net.parked
           again    == IF unparks THEN {} ELSE net.redelivered
           early    == IF stale THEN net.earlyReleased ELSE FALSE
           late     == IF stale THEN net.deadlineReleased ELSE FALSE
           over     == [net EXCEPT !.streaming = FALSE, !.parked = parked, !.redelivered = again,
                                   !.earlyReleased = early, !.deadlineReleased = late, !.lastEnd = id]
           said     == Publish(over)
           released == IF id # b.lastEnd /\ ~stale THEN ReleaseTurn(said) ELSE said
<1>1. net \in BusStates /\ Parts(net)
  BY HandleStaleTurnEndGate, HandleTurnEndTyped, HandleTurnEndParts DEF Gate
<1> HIDE DEF net
<1>2. /\ parked \in BOOLEAN /\ again \in SUBSET Texts
      /\ early \in BOOLEAN /\ late \in BOOLEAN
  BY <1>1, Zenon DEF BusStates
<1> HIDE DEF parked, again, early, late
<1>3. over \in BusStates /\ SameParts(net, over)
  <2>1. over \in BusStates
    BY <1>1, <1>2, ZenonT(60) DEF BusStates
  <2>2. SameParts(net, over)
    BY <1>1, ZenonT(60) DEF BusStates, SameParts
  <2> QED
    BY <2>1, <2>2
<1> HIDE DEF over
<1>4. Parts(over)
  BY <1>1, <1>3, SamePartsKeeps
<1>5. said \in BusStates /\ Gate(said)
  BY <1>3, <1>4, PublishTyped, PublishGate
<1> HIDE DEF said
<1>6. released \in BusStates /\ Gate(released)
  BY <1>5, ReleaseTurnTyped, ReleaseTurnParts
<1> HIDE DEF released
<1>7. Gate(Touch(released)) /\ Gate(ScheduleAdmit(released))
  BY <1>6, TouchGate, ScheduleAdmitGate DEF Gate
<1> QED
  BY <1>7 DEF TurnEnd, released, said, over, parked, again, early, late, net

LEMMA PromptLineGate ==
  ASSUME NEW b \in BusStates, Gate(b), NEW x
  PROVE  Gate(PromptLine(b, x))
<1> DEFINE noted   == NoteFlushTurnStart(b, x)
           fall    == noted.fallback /\ x \notin {Nudge, NudgeNote}
           nudgeIn == [noted EXCEPT !.fallback = fall]
           taken   == TakeAwaitedLine(nudgeIn, x)
           live    == [taken EXCEPT !.streaming = TRUE]
<1>1. noted \in BusStates /\ Gate(noted)
  BY NoteFlushTurnStartTyped, NoteFlushTurnStartFrame, FrameKeeps
<1> HIDE DEF noted
<1>2. fall \in BOOLEAN
  BY <1>1 DEF BusStates
<1> HIDE DEF fall
<1>3. nudgeIn \in BusStates /\ Frame(noted, nudgeIn)
  BY <1>1, <1>2, Zenon DEF BusStates, Frame
<1> HIDE DEF nudgeIn
<1>4. taken \in BusStates /\ Gate(taken)
  BY <1>1, <1>3, FrameKeeps, TakeAwaitedLineTyped, TakeAwaitedLineGate
<1> HIDE DEF taken
<1>5. live \in BusStates /\ SameParts(taken, live)
  BY <1>4, ZenonT(30) DEF BusStates, SameParts
<1> HIDE DEF live
<1>6. live \in BusStates /\ Parts(live)
  BY <1>4, <1>5, SamePartsKeeps DEF Gate
<1>7. OpenTurn(live) \in BusStates /\ Parts(OpenTurn(live))
  BY <1>6, OpenTurnTyped, OpenTurnFrame, FrameKeeps
<1> QED
  BY <1>7, PublishGate DEF PromptLine, live, taken, nudgeIn, fall, noted

LEMMA AbsorbedLineGate ==
  ASSUME NEW b \in BusStates, Gate(b), NEW x
  PROVE  Gate(AbsorbedLine(b, x))
<1> DEFINE fall    == b.fallback /\ x \notin {Nudge, NudgeNote}
           nudgeIn == [b EXCEPT !.fallback = fall]
           taken   == TakeAwaitedLine(nudgeIn, x)
           noted   == NoteFlushTurnStart(taken, x)
<1>1. fall \in BOOLEAN
  BY DEF BusStates
<1> HIDE DEF fall
<1>2. nudgeIn \in BusStates /\ Frame(b, nudgeIn)
  BY <1>1, Zenon DEF BusStates, Frame
<1> HIDE DEF nudgeIn
<1>3. taken \in BusStates /\ Gate(taken)
  BY <1>2, FrameKeeps, TakeAwaitedLineTyped, TakeAwaitedLineGate
<1> HIDE DEF taken
<1>4. noted \in BusStates /\ Gate(noted)
  BY <1>3, NoteFlushTurnStartTyped, NoteFlushTurnStartFrame, FrameKeeps
<1> HIDE DEF noted
<1>5. /\ (IF WasUnverified(taken, x) THEN ReleaseTurn(noted) ELSE noted) \in BusStates
      /\ Gate(IF WasUnverified(taken, x) THEN ReleaseTurn(noted) ELSE noted)
  BY <1>4, ReleaseTurnTyped, ReleaseTurnParts
<1> QED
  BY <1>5, PublishGate DEF AbsorbedLine, noted, taken, nudgeIn, fall, Gate

LEMMA InitLineGate == ASSUME NEW b \in BusStates, Gate(b), NEW session PROVE Gate(InitLine(b, session))
<1> DEFINE i == [b EXCEPT !.init = TRUE]
<1>1. i \in BusStates /\ Frame(b, i)
  BY Zenon DEF BusStates, Frame
<1> HIDE DEF i
<1>2. Parts(i)
  BY <1>1, FrameKeeps DEF Gate
<1> QED
  BY <1>1, <1>2, PublishGate DEF InitLine, Gate, i

LEMMA CompactLineGate ==
  ASSUME NEW b \in BusStates, Gate(b), NEW gen, NEW nth, NEW tolerant
  PROVE  Gate(CompactLine(b, gen, nth, tolerant))
<1> DEFINE r == ReleaseHold(b, HoldsEndedBy(b, gen, nth, tolerant))
<1>1. r \in BusStates /\ Gate(r)
  BY ReleaseHoldTyped, ReleaseHoldFrame, FrameKeeps
<1> HIDE DEF r
<1> QED
  BY <1>1, PublishGate DEF CompactLine, Gate, r

--------------------------------------------------------------------------------
(* Readiness *)

LEMMA NewGenerationParts ==
  ASSUME NEW b \in BusStates, Parts(b)
  PROVE  Parts(NewGeneration(b))
<1> DEFINE parked   == IF b.redelivered = {} THEN FALSE ELSE b.parked
           unparked == [b EXCEPT !.parked = parked, !.awaitLine = None, !.earlyReleased = FALSE,
                                 !.deadlineReleased = FALSE]
           dropped  == [unparked EXCEPT !.pendingOrigin = None]
<1>1. parked \in BOOLEAN
  BY Zenon DEF BusStates
<1> HIDE DEF parked
<1>2. unparked \in BusStates
  BY <1>1, ZenonT(30) DEF BusStates, PromptOrNone
<1>3. unparked.queue = b.queue /\ unparked.op = b.op /\ unparked.pending = b.pending
  BY Zenon DEF BusStates
<1> HIDE DEF unparked
<1>4. /\ dropped.queue = b.queue /\ dropped.op = b.op /\ dropped.pending = b.pending
      /\ dropped.pendingOrigin = None
  BY <1>2, <1>3, Zenon DEF BusStates
<1> HIDE DEF dropped
<1>5. Parts(dropped) /\ Parts(ApplyPendingOrigin(unparked))
  BY <1>2, <1>3, <1>4, ApplyPendingOriginEffect DEF Parts, Admissible, Counted, Deferred
<1> QED
  BY <1>5 DEF NewGeneration, dropped, unparked, parked

LEMMA ReadiedGate ==
  ASSUME NEW b \in BusStates, Gate(b), NEW newGen, NEW viaBackstop, NEW online
  PROVE  /\ Readied(b, newGen, viaBackstop, online) \in BusStates
         /\ Gate(Readied(b, newGen, viaBackstop, online))
<1> DEFINE idle     == [b EXCEPT !.init = FALSE, !.streaming = FALSE]
           older    == {x \in HeldTexts(idle) : idle.hold[x].gen # newGen}
           unheld   == IF newGen # 0 THEN ReleaseHold(idle, older) ELSE idle
           again    == unheld.carried \o unheld.held
           emptied  == [unheld EXCEPT !.carried = <<>>, !.held = <<>>]
           out      == Reissue(emptied, again)
           verified == IF viaBackstop /\ unheld.held # <<>> THEN ArmVerify(out, ToSet(unheld.held)) ELSE out
           renewed  == Touch(IF newGen # 0 THEN NewGeneration(verified) ELSE verified)
<1>1. idle \in BusStates
  BY Zenon DEF BusStates
<1>2. /\ idle.queue = b.queue /\ idle.op = b.op /\ idle.pending = b.pending
      /\ idle.streaming = FALSE /\ idle.nudged = b.nudged /\ idle.parked = b.parked
      /\ idle.settle = b.settle /\ idle.awaitLine = b.awaitLine
      /\ idle.pendingOrigin = b.pendingOrigin /\ idle.deadline = b.deadline
  BY ZenonT(30) DEF BusStates
<1> HIDE DEF idle, older
<1>3. Gate(idle)
  BY <1>2 DEF Gate, Parts, Admissible, Counted, Deferred, Timed, SlotFree
<1>4. unheld \in BusStates /\ Gate(unheld)
  BY <1>1, <1>3, ReleaseHoldTyped, ReleaseHoldFrame, FrameKeeps
<1> HIDE DEF unheld
<1>5. <<>> \in Seq(Texts) /\ unheld.carried \in Seq(Texts) /\ unheld.held \in Seq(Texts)
  BY <1>4 DEF BusStates
<1>6. again \in Seq(Texts)
  BY <1>5
<1>7. emptied \in BusStates /\ Frame(unheld, emptied)
  BY <1>4, <1>5, ZenonT(30) DEF BusStates, Frame
<1> HIDE DEF emptied, again
<1>8. Gate(emptied)
  BY <1>4, <1>7, FrameKeeps
<1>9. out \in BusStates /\ Gate(out)
  BY <1>6, <1>7, <1>8, ReissueTyped, ReissueGate DEF Gate
<1> HIDE DEF out
<1>10. verified \in BusStates /\ Gate(verified)
  BY <1>9, ArmVerifyTyped, ArmVerifyFrame, FrameKeeps
<1> HIDE DEF verified
<1>11. /\ (IF newGen # 0 THEN NewGeneration(verified) ELSE verified) \in BusStates
       /\ Parts(IF newGen # 0 THEN NewGeneration(verified) ELSE verified)
  BY <1>10, NewGenerationTyped, NewGenerationParts DEF Gate
<1>12. renewed \in BusStates /\ Gate(renewed)
  BY <1>11, TouchTyped, TouchGate
<1> HIDE DEF renewed
<1>13. AdmitNext(renewed, online) \in BusStates /\ Gate(AdmitNext(renewed, online))
  BY <1>12, AdmitNextGate
<1> QED
  BY <1>12, <1>13 DEF Readied, renewed, verified, out, emptied, again, unheld, older, idle

LEMMA ReplayDoneGate ==
  ASSUME NEW b \in BusStates, Gate(b), NEW gen \in Nat, NEW session \in Nat, NEW online
  PROVE  /\ ReplayDone(b, gen, session, online) \in BusStates
         /\ Gate(ReplayDone(b, gen, session, online))
<1> DEFINE marked == [b EXCEPT !.liveGen = gen, !.liveSession = session, !.ready = TRUE]
           newGen == IF b.liveGen # 0 /\ gen > b.liveGen THEN gen ELSE 0
           r      == Readied(marked, newGen, FALSE, online)
<1>1. marked \in BusStates /\ Frame(b, marked)
  BY ZenonT(30) DEF BusStates, Frame
<1> HIDE DEF marked, newGen
<1>2. r \in BusStates /\ Gate(r)
  BY <1>1, FrameKeeps, ReadiedGate
<1> HIDE DEF r
<1>3. /\ Publish(b) \in BusStates /\ Gate(Publish(b))
      /\ Publish(r) \in BusStates /\ Gate(Publish(r))
  BY <1>2, PublishTyped, PublishGate DEF Gate
<1> QED
  BY <1>3 DEF ReplayDone, r, newGen, marked

LEMMA SpawnedGate == ASSUME NEW b \in BusStates, Gate(b), NEW gen PROVE Gate(Spawned(b, gen))
<1> DEFINE g == BiggerOf(b.spawnedGen, gen)
           d == [b EXCEPT !.spawnedGen = g]
<1> HIDE DEF g
<1>1. Frame(b, d)
  BY Zenon DEF BusStates, Frame
<1>2. Gate(d)
  BY <1>1, FrameKeeps
<1> QED
  BY <1>2 DEF Spawned, d, g

LEMMA OnHelloGate == ASSUME NEW b \in BusStates, Gate(b) PROVE Gate(OnHello(b))
<1> DEFINE met == [b EXCEPT !.hello = TRUE]
           out == [b EXCEPT !.hello = TRUE, !.carried = <<>>]
<1>1. <<>> \in Seq(Texts) /\ b.carried \in Seq(Texts)
  BY DEF BusStates
<1>2. Frame(b, met)
  BY Zenon DEF BusStates, Frame
<1>3. out \in BusStates /\ Frame(b, out)
  BY <1>1, ZenonT(30) DEF BusStates, Frame
<1> HIDE DEF met, out
<1>4. Gate(met) /\ Gate(out)
  BY <1>2, <1>3, FrameKeeps
<1>5. Gate(Reissue(out, b.carried))
  BY <1>1, <1>3, <1>4, ReissueGate DEF Gate
<1> QED
  BY <1>4, <1>5 DEF OnHello, met, out

\* The bus of a system that has just started.
LEMMA StartedGate ==
  LET b == OnHello(ReplayDone(Spawned(FreshBus, 1), 1, 1, FALSE))
  IN  b \in BusStates /\ Gate(b)
<1>1. FreshBus.queue = EmptyQueue /\ FreshBus.op = None /\ FreshBus.pending = 0
      /\ FreshBus.streaming = FALSE /\ FreshBus.nudged = FALSE /\ FreshBus.parked = FALSE
      /\ FreshBus.settle = FALSE /\ FreshBus.pendingOrigin = None
  BY DEF FreshBus
<1>2. Gate(FreshBus)
  BY <1>1, EmptyQueueMatched DEF Gate, Parts, Admissible, Counted, Deferred, Timed, SlotFree
<1>3. Spawned(FreshBus, 1) \in BusStates /\ Gate(Spawned(FreshBus, 1))
  BY <1>2, FreshTyped, SpawnedTyped, SpawnedGate
<1>4. LET r == ReplayDone(Spawned(FreshBus, 1), 1, 1, FALSE) IN r \in BusStates /\ Gate(r)
  BY <1>3, ReplayDoneGate
<1> QED
  BY <1>4, OnHelloTyped, OnHelloGate

--------------------------------------------------------------------------------
(* Abnormal ends and timers *)

LEMMA DropTurnEffect ==
  ASSUME NEW b \in BusStates, Parts(b)
  PROVE  Parts(DropTurn(b)) /\ DropTurn(b).deadline = b.deadline
<1> DEFINE d == DropTurn(b)
<1>1. /\ d.queue = b.queue /\ d.op = None /\ d.pending = 0
      /\ d.awaitLine = b.awaitLine /\ d.pendingOrigin = b.pendingOrigin /\ d.deadline = b.deadline
  BY ZenonT(60) DEF DropTurn, BusStates
<1> HIDE DEF d
<1>2. Parts(d)
  BY <1>1 DEF Parts, Admissible, Counted, Deferred
<1> QED
  BY <1>1, <1>2 DEF d

LEMMA CloseDeliveriesFrame == ASSUME NEW b \in BusStates PROVE Frame(b, CloseDeliveries(b))
<1> DEFINE gone  == [i \in DOMAIN b.deliveries |-> [b.deliveries[i] EXCEPT !.current = FALSE]]
           carry == CarryOver(b)
           spent == b.spent \cup {x \in Texts : NeedsCarrying(b, x)}
           none  == [x \in Texts |-> "none"]
<1> HIDE DEF gone, carry, spent, none
<1>1. Frame(b, [b EXCEPT !.init = FALSE, !.carried = carry, !.spent = spent, !.deliveries = gone,
                         !.held = <<>>, !.verify = none, !.closedOnce = TRUE, !.ready = FALSE,
                         !.hello = FALSE])
  BY ZenonT(60) DEF BusStates, Frame
<1> QED
  BY <1>1 DEF CloseDeliveries, gone, carry, spent, none

LEMMA OnCloseGate ==
  ASSUME NEW b \in BusStates, Gate(b)
  PROVE  OnClose(b) \in BusStates /\ Gate(OnClose(b))
<1> DEFINE live    == b.streaming \/ b.op # None
           closed  == CloseDeliveries(DropTurn(b))
           parked  == IF live THEN TRUE ELSE closed.parked
           dropped == [closed EXCEPT !.deadlineReleased = FALSE, !.streaming = FALSE,
                                     !.parked = parked, !.redelivered = {}]
<1>1. closed \in BusStates /\ Parts(closed)
  BY DropTurnTyped, DropTurnEffect, CloseDeliveriesTyped, CloseDeliveriesFrame, FrameKeeps DEF Gate
<1> HIDE DEF closed, live
<1>2. parked \in BOOLEAN
  BY <1>1, Zenon DEF BusStates
<1> HIDE DEF parked
<1>3. dropped \in BusStates
  BY <1>1, <1>2, ZenonT(60) DEF BusStates
<1>4. SameParts(closed, dropped)
  BY <1>1, ZenonT(60) DEF BusStates, SameParts
<1> HIDE DEF dropped
<1>5. Touch(dropped) \in BusStates /\ Gate(Touch(dropped))
  BY <1>1, <1>3, <1>4, SamePartsKeeps, TouchTyped, TouchGate
<1>6. /\ AdmitNext(Touch(dropped), FALSE) \in BusStates
      /\ Gate(AdmitNext(Touch(dropped), FALSE))
  BY <1>5, AdmitNextGate
<1> QED
  BY <1>5, <1>6 DEF OnClose, dropped, parked, closed, live

LEMMA AbandonGate ==
  ASSUME NEW b \in BusStates, Gate(b), NEW online
  PROVE  Abandon(b, online) \in BusStates /\ Gate(Abandon(b, online))
<1> DEFINE over    == DropTurn(Publish(b))
           dropped == [over EXCEPT !.streaming = FALSE, !.parked = FALSE, !.redelivered = {},
                                   !.earlyReleased = TRUE]
<1>1. over \in BusStates /\ Parts(over)
  BY PublishTyped, PublishGate, DropTurnTyped, DropTurnEffect DEF Gate
<1> HIDE DEF over
<1>2. dropped \in BusStates
  BY <1>1, ZenonT(60) DEF BusStates
<1>3. SameParts(over, dropped)
  BY <1>1, ZenonT(60) DEF BusStates, SameParts
<1> HIDE DEF dropped
<1>4. Touch(dropped) \in BusStates /\ Gate(Touch(dropped))
  BY <1>1, <1>2, <1>3, SamePartsKeeps, TouchTyped, TouchGate
<1>5. /\ AdmitNext(Touch(dropped), online) \in BusStates
      /\ Gate(AdmitNext(Touch(dropped), online))
  BY <1>4, AdmitNextGate
<1> QED
  BY <1>5 DEF Abandon, dropped, over

\* The deadline frees everything that holds the gate, so it may stop itself.
LEMMA TurnDeadlineGate ==
  ASSUME NEW b \in BusStates, Gate(b), NEW online
  PROVE  TurnDeadline(b, online) \in BusStates /\ Gate(TurnDeadline(b, online))
<1> DEFINE fired    == [b EXCEPT !.deadline = FALSE]
           released == [fired EXCEPT !.op = None, !.overlap = FALSE, !.pending = 0,
                                     !.nudged = FALSE, !.stash = None,
                                     !.streaming = FALSE, !.parked = FALSE, !.redelivered = {},
                                     !.awaitLine = None, !.pendingOrigin = None,
                                     !.settle = FALSE,
                                     !.deadlineReleased = TRUE, !.earlyReleased = TRUE]
<1>1. fired \in BusStates
  BY Zenon DEF BusStates
<1>2. /\ fired.queue = b.queue /\ fired.op = b.op /\ fired.pending = b.pending
      /\ fired.awaitLine = b.awaitLine /\ fired.pendingOrigin = b.pendingOrigin
  BY Zenon DEF BusStates
<1> HIDE DEF fired
<1>3. SlotFree(fired) => Gate(fired)
  BY <1>2 DEF Gate, Parts, Admissible, Counted, Deferred, Timed
<1>4. None \in PromptOrNone
  BY DEF PromptOrNone
<1>5. released \in BusStates
  BY <1>1, <1>4, ZenonT(120) DEF BusStates
<1>6. /\ released.op = None /\ released.pending = 0 /\ released.nudged = FALSE
      /\ released.streaming = FALSE /\ released.parked = FALSE /\ released.settle = FALSE
      /\ released.pendingOrigin = None /\ released.queue = fired.queue
  BY <1>1, ZenonT(120) DEF BusStates
<1> HIDE DEF released
<1>7. Gate(released)
  BY <1>2, <1>6 DEF Gate, Parts, Admissible, Counted, Deferred, Timed, SlotFree
<1>8. AdmitNext(released, online) \in BusStates /\ Gate(AdmitNext(released, online))
  BY <1>5, <1>7, AdmitNextGate
<1> QED
  BY <1>1, <1>3, <1>8 DEF TurnDeadline, released, fired

LEMMA SettledGate ==
  ASSUME NEW b \in BusStates, Gate(b), NEW online
  PROVE  Settled(b, online) \in BusStates /\ Gate(Settled(b, online))
<1> DEFINE over == [b EXCEPT !.settle = FALSE]
<1>1. over \in BusStates /\ SameParts(b, over)
  BY ZenonT(30) DEF BusStates, SameParts
<1> HIDE DEF over
<1>2. Touch(over) \in BusStates /\ Gate(Touch(over))
  BY <1>1, SamePartsKeeps, TouchTyped, TouchGate DEF Gate
<1>3. AdmitNext(Touch(over), online) \in BusStates /\ Gate(AdmitNext(Touch(over), online))
  BY <1>2, AdmitNextGate
<1> QED
  BY <1>3 DEF Settled, over

LEMMA NudgeFallbackGate == ASSUME NEW b \in BusStates, Gate(b) PROVE Gate(NudgeFallback(b))
<1> DEFINE off == [b EXCEPT !.fallback = FALSE]
<1>1. off \in BusStates /\ Frame(b, off)
  BY Zenon DEF BusStates, Frame
<1> HIDE DEF off
<1>2. Nudge \in Texts
  BY DEF Texts
<1>3. Gate(off) /\ Gate(DeliverOrQueue(off, Nudge))
  BY <1>1, <1>2, DeliverOrQueueFrame, FrameKeeps
<1> QED
  BY <1>3 DEF NudgeFallback, off

--------------------------------------------------------------------------------
(* The actions of BusCore *)

\* A process that is gone has a successor's number left.
Room == cli.up \/ cli.gen < MaxGen

\* The inductive invariant: the gate's facts need the queue's (Admissible), and
\* the types need a number for the next process.
IInv == TypeOK /\ Gate(bus) /\ Room

FinalRecords == [about : SUBSET Prompts, to : ChatOrNone, kind : {"reply", "synthetic", "silent"}]

HistoryOK ==
  /\ connected \in BOOLEAN
  /\ sent \subseteq Prompts
  /\ typed \in [Texts -> Nat]
  /\ \A p \in Prompts : finals[p] \in Seq(FinalRecords)
  /\ drops \in Nat /\ swallows \in Nat /\ expired \in Nat

LEMMA IInvParts ==
  IInv <=> bus \in BusStates /\ Gate(bus) /\ HistoryOK /\ CliTypeOK /\ Room
BY DEF IInv, TypeOK, HistoryOK, FinalRecords

LEMMA IInvPartsPrime ==
  ASSUME bus' \in BusStates, Gate(bus'), HistoryOK', CliTypeOK', Room'
  PROVE  IInv'
BY DEF IInv, TypeOK, HistoryOK, FinalRecords

--------------------------------------------------------------------------------
(* The CLI *)

LEMMA IdleCliTyped == IdleCli(1) \in CliStates
<1>1. 1 \in 1 .. MaxGen
  BY CliAssumption
<1>2. <<>> \in Seq(Inputs)
  OBVIOUS
<1>3. [x \in Texts |-> 0] \in [Texts -> Nat]
  OBVIOUS
<1> DEFINE none == [x \in Texts |-> 0]
<1> HIDE DEF none
<1>4. none \in [Texts -> Nat]
  BY <1>3 DEF none
<1> QED
  BY <1>1, <1>2, <1>4, SMT DEF IdleCli, CliStates, none

\* What a turn opened by any input answers.
LEMMA AboutTyped ==
  ASSUME cli \in CliStates, NEW x
  PROVE  About(x) \in SUBSET Prompts
BY DEF About, CliStates

LEMMA WriteTyped ==
  ASSUME CliTypeOK, NEW ls \in Seq(Lines), Write(ls)
  PROVE  lines' \in [1 .. MaxGen -> Seq(Lines)]
<1>1. cli.gen \in 1 .. MaxGen
  BY DEF CliTypeOK, CliStates
<1>2. lines \in [1 .. MaxGen -> Seq(Lines)]
  BY DEF CliTypeOK
<1> HIDE DEF Lines
<1>3. lines[cli.gen] \o ls \in Seq(Lines)
  BY <1>1, <1>2
<1> QED
  BY <1>1, <1>2, <1>3 DEF Write

LEMMA TakeInputTyped ==
  ASSUME NEW c \in CliStates, cli \in CliStates, cli.box # <<>>, c.box = cli.box
  PROVE  TakeInput(c) \in CliStates
<1> DEFINE box  == Tail(c.box)
           runs == [y \in Texts |-> c.runs[y] + (IF y = Head(cli.box) THEN 1 ELSE 0)]
<1>1. box \in Seq(Inputs)
  BY DEF CliStates
<1>2. runs \in [Texts -> Nat]
  <2>1. c.runs \in [Texts -> Nat]
    BY Zenon DEF CliStates
  <2> QED
    BY <2>1
<1> HIDE DEF box, runs
<1>3. [c EXCEPT !.box = box, !.runs = runs] \in CliStates
  BY <1>1, <1>2, Zenon DEF CliStates
<1> QED
  BY <1>3 DEF TakeInput, box, runs

LEMMA TurnTyped ==
  ASSUME cli \in CliStates, NEW x \in Inputs \cup {None}
  PROVE  Turn(x) \in Turns
<1>1. cli.turns + 1 \in Nat
  BY DEF CliStates
<1>2. About(x) \in SUBSET Prompts
  BY AboutTyped
<1> QED
  BY <1>1, <1>2 DEF Turn, Turns

LEMMA LineTyped ==
  ASSUME NEW x \in Inputs \cup {None}, NEW kind \in {"prompt", "absorbed"}
  PROVE  <<[kind |-> kind, text |-> x]>> \in Seq(Lines)
<1>1. [kind |-> kind, text |-> x] \in Lines
  BY DEF Lines
<1> QED
  BY <1>1

LEMMA StartTurnTyped ==
  ASSUME CliTypeOK, StartTurn
  PROVE  CliTypeOK' /\ cli'.up
<1> DEFINE x == Head(cli.box)
           t == Turn(x)
           n == cli.turns + 1
           c == [cli EXCEPT !.turn = t, !.turns = n]
<1>1. cli \in CliStates /\ cli.box # <<>> /\ cli.up
  BY DEF CliTypeOK, StartTurn, Ready
<1>2. cli.box \in Seq(Inputs) /\ cli.turns \in Nat
  BY <1>1 DEF CliStates
<1>3. x \in Inputs \cup {None} /\ n \in Nat
  BY <1>1, <1>2
<1>4. t \in Turns \cup {None}
  BY <1>1, <1>3, TurnTyped
<1> HIDE DEF t, n
<1>5. c \in CliStates /\ c.box = cli.box /\ c.up = cli.up
  BY <1>1, <1>3, <1>4, Zenon DEF CliStates
<1> HIDE DEF c
<1>6. cli' = TakeInput(c)
  BY DEF StartTurn, c, t, n, x
<1>7. cli' \in CliStates
  BY <1>1, <1>5, <1>6, TakeInputTyped
<1>8. cli'.up = cli.up
  BY <1>5, <1>6, Zenon DEF TakeInput, CliStates
<1>9. lines' \in [1 .. MaxGen -> Seq(Lines)]
  <2>1. <<[kind |-> "prompt", text |-> x]>> \in Seq(Lines)
    BY <1>3, LineTyped
  <2> QED
    BY <2>1, WriteTyped DEF StartTurn
<1>10. frames' = frames
  BY DEF StartTurn
<1> QED
  BY <1>1, <1>7, <1>8, <1>9, <1>10 DEF CliTypeOK

LEMMA StartAmbientTurnTyped ==
  ASSUME CliTypeOK, StartAmbientTurn
  PROVE  CliTypeOK' /\ cli'.up
<1> DEFINE t == Turn(None)
           n == cli.turns + 1
           a == cli.ambient + 1
<1>1. cli \in CliStates /\ cli.up
  BY DEF CliTypeOK, StartAmbientTurn, Ready
<1>2. n \in Nat /\ a \in Nat
  BY <1>1 DEF CliStates
<1>3. t \in Turns \cup {None}
  BY <1>1, TurnTyped
<1> HIDE DEF t, n, a
<1>4. LET c == [cli EXCEPT !.turn = t, !.turns = n, !.ambient = a] IN c \in CliStates /\ c.up = cli.up
  BY <1>1, <1>2, <1>3, Zenon DEF CliStates
<1>5. cli' \in CliStates /\ cli'.up
  BY <1>1, <1>4 DEF StartAmbientTurn, t, n, a
<1>6. lines' \in [1 .. MaxGen -> Seq(Lines)]
  <2>1. <<[kind |-> "prompt", text |-> None]>> \in Seq(Lines)
    BY LineTyped
  <2> QED
    BY <2>1, WriteTyped DEF StartAmbientTurn
<1>7. frames' = frames
  BY DEF StartAmbientTurn
<1> QED
  BY <1>5, <1>6, <1>7 DEF CliTypeOK

LEMMA AbsorbInputTyped ==
  ASSUME CliTypeOK, AbsorbInput
  PROVE  CliTypeOK' /\ cli'.up
<1> DEFINE x     == Head(cli.box)
           about == cli.turn.about \cup About(x)
           owes  == cli.turn.owes \cup About(x)
           t     == [cli.turn EXCEPT !.about = about, !.owes = owes]
           c     == [cli EXCEPT !.turn = t]
           d     == [cli EXCEPT !.turn.about = about, !.turn.owes = owes]
<1>1. cli \in CliStates /\ cli.box # <<>> /\ cli.up /\ cli.turn # None
  BY DEF CliTypeOK, AbsorbInput, Ready
<1>2. cli.turn \in Turns /\ cli.box \in Seq(Inputs)
  BY <1>1 DEF CliStates
<1>3. About(x) \in SUBSET Prompts /\ x \in Inputs \cup {None}
  BY <1>1, <1>2, AboutTyped
<1>4. about \in SUBSET Prompts /\ owes \in SUBSET Prompts
  BY <1>2, <1>3 DEF Turns
<1> HIDE DEF about, owes
<1>5. t \in Turns
  BY <1>2, <1>4, Zenon DEF Turns
<1>6. c = d
  BY <1>1, <1>2, Zenon DEF CliStates, Turns
<1> HIDE DEF t
<1>7. c \in CliStates /\ c.box = cli.box /\ c.up = cli.up
  BY <1>1, <1>5, Zenon DEF CliStates
<1> HIDE DEF c
<1>8. cli' = TakeInput(d)
  BY DEF AbsorbInput, d, about, owes
<1> HIDE DEF d
<1>9. cli' \in CliStates
  BY <1>1, <1>6, <1>7, <1>8, TakeInputTyped
<1>10. cli'.up = cli.up
  BY <1>6, <1>7, <1>8, Zenon DEF TakeInput, CliStates
<1>11. lines' \in [1 .. MaxGen -> Seq(Lines)]
  <2>1. <<[kind |-> "absorbed", text |-> x]>> \in Seq(Lines)
    BY <1>3, LineTyped
  <2> QED
    BY <2>1, WriteTyped DEF AbsorbInput
<1>12. frames' = frames
  BY DEF AbsorbInput
<1> QED
  BY <1>1, <1>9, <1>10, <1>11, <1>12 DEF CliTypeOK

LEMMA CallReplyTyped ==
  ASSUME CliTypeOK, NEW c, CallReply(c)
  PROVE  CliTypeOK' /\ cli'.up
<1>1. cli \in CliStates /\ cli.up /\ cli.turn # None /\ frames \in Seq(Frames)
  BY DEF CliTypeOK, CallReply, Ready
<1>2. cli.turn \in Turns
  BY <1>1 DEF CliStates
<1>3. PICK p \in cli.turn.owes, named \in {None} \cup {Chat[q] : q \in cli.turn.owes} :
        /\ named \in {None, Chat[p]}
        /\ cli' = [cli EXCEPT !.turn.owes = @ \ {p}]
        /\ frames' = Append(frames, [kind |-> "reply", about |-> {p}, named |-> named])
  BY DEF CallReply
<1>4. p \in Prompts /\ cli.turn.owes \ {p} \in SUBSET Prompts
  BY <1>2, <1>3 DEF Turns
<1>5. cli' \in CliStates /\ cli'.up
  <2> DEFINE owes == cli.turn.owes \ {p}
             t    == [cli.turn EXCEPT !.owes = owes]
  <2> HIDE DEF owes
  <2>1. t \in Turns \cup {None}
    <3>1. owes \in SUBSET Prompts
      BY <1>4 DEF owes
    <3> QED
      BY <1>2, <3>1, Zenon DEF Turns
  <2>2. cli' = [cli EXCEPT !.turn = t]
    BY <1>3 DEF owes
  <2> HIDE DEF t
  <2> QED
    BY <1>1, <2>1, <2>2, Zenon DEF CliStates
<1>6. [kind |-> "reply", about |-> {p}, named |-> named] \in Frames
  <2>1. named \in Chats \cup {None}
    BY <1>3, <1>4, ChatAssumption
  <2> QED
    BY <1>4, <2>1 DEF Frames
<1>7. frames' \in Seq(Frames)
  <2> HIDE DEF Frames
  <2> QED
    BY <1>1, <1>3, <1>6
<1>8. lines' = lines
  BY DEF CallReply
<1> QED
  BY <1>5, <1>7, <1>8 DEF CliTypeOK

LEMMA CallCancelTyped ==
  ASSUME CliTypeOK, NEW c, CallCancel(c)
  PROVE  CliTypeOK' /\ cli'.up
<1> DEFINE n == cli.cancels + 1
<1>1. cli \in CliStates /\ cli.up /\ frames \in Seq(Frames)
  BY DEF CliTypeOK, CallCancel, Ready
<1>2. n \in Nat
  BY <1>1 DEF CliStates
<1> HIDE DEF n
<1>3. LET d == [cli EXCEPT !.cancels = n] IN d \in CliStates /\ d.up = cli.up
  BY <1>1, <1>2, Zenon DEF CliStates
<1>4. cli' \in CliStates /\ cli'.up
  BY <1>1, <1>3 DEF CallCancel, n
<1>5. frames' \in Seq(Frames)
  <2>1. [kind |-> "cancel"] \in Frames
    BY DEF Frames
  <2>2. frames' = Append(frames, [kind |-> "cancel"])
    BY DEF CallCancel
  <2> HIDE DEF Frames
  <2> QED
    BY <1>1, <2>1, <2>2
<1>6. lines' = lines
  BY DEF CallCancel
<1> QED
  BY <1>4, <1>5, <1>6 DEF CliTypeOK

LEMMA EndLineTyped ==
  ASSUME cli.turn \in Turns, NEW text \in Says
  PROVE  EndLine(text) \in Lines
<1>1. cli.turn.id \in Nat
  BY DEF Turns
<1> DEFINE inject == cli.turn.opener \in Prompts /\ Chat[cli.turn.opener] = Inject
<1>2. inject \in BOOLEAN
  OBVIOUS
<1> HIDE DEF inject
<1>3. [kind |-> "end", id |-> cli.turn.id, text |-> text, inject |-> inject] \in Lines
  BY <1>1, <1>2 DEF Lines
<1> QED
  BY <1>3 DEF EndLine, inject

LEMMA EndTurnTyped ==
  ASSUME CliTypeOK, EndTurn
  PROVE  CliTypeOK' /\ cli'.up
<1> DEFINE about == cli.turn.about
<1>1. cli \in CliStates /\ cli.up /\ cli.turn # None
  BY DEF CliTypeOK, EndTurn, Ready
<1>2. cli.turn \in Turns
  BY <1>1 DEF CliStates
<1>3. about \in SUBSET Prompts
  BY <1>2 DEF Turns
<1>4. PICK text \in Says : Write(<<EndLine(text)>>) \/ Write(<<EndLine(None), EndLine(text)>>)
  BY <1>3 DEF EndTurn, Says
<1>5. lines' \in [1 .. MaxGen -> Seq(Lines)]
  <2>1. EndLine(text) \in Lines /\ EndLine(None) \in Lines
    BY <1>2, EndLineTyped DEF Says
  <2> HIDE DEF Lines
  <2>2. <<EndLine(text)>> \in Seq(Lines) /\ <<EndLine(None), EndLine(text)>> \in Seq(Lines)
    BY <2>1
  <2> QED
    BY <1>4, <2>2, WriteTyped
<1> HIDE DEF about
<1>6. LET d == [cli EXCEPT !.turn = None, !.prev = about] IN d \in CliStates /\ d.up = cli.up
  BY <1>1, <1>3, Zenon DEF CliStates
<1>7. cli' \in CliStates /\ cli'.up
  BY <1>1, <1>6 DEF EndTurn, about
<1>8. frames' = frames
  BY DEF EndTurn
<1> QED
  BY <1>5, <1>7, <1>8 DEF CliTypeOK

LEMMA StartCompactionTyped ==
  ASSUME CliTypeOK, StartCompaction
  PROVE  CliTypeOK' /\ cli'.up
<1>1. cli \in CliStates /\ cli.up
  BY DEF CliTypeOK, StartCompaction, Ready
<1>2. LET d == [cli EXCEPT !.compacting = TRUE] IN d \in CliStates /\ d.up = cli.up
  BY <1>1, Zenon DEF CliStates
<1> QED
  BY <1>1, <1>2 DEF CliTypeOK, StartCompaction

LEMMA EndCompactionTyped ==
  ASSUME CliTypeOK, EndCompaction
  PROVE  CliTypeOK' /\ cli'.up
<1> DEFINE n == cli.compactions + 1
           l == [kind |-> "compact", gen |-> cli.gen, nth |-> n]
<1>1. cli \in CliStates /\ cli.up
  BY DEF CliTypeOK, EndCompaction
<1>2. n \in Nat /\ cli.gen \in Nat
  BY <1>1, CliAssumption DEF CliStates
<1>3. l \in Lines
  BY <1>2 DEF Lines
<1>4. <<l>> \in Seq(Lines)
  BY <1>3
<1>5. lines' \in [1 .. MaxGen -> Seq(Lines)]
  <2>1. CASE Write(<<l>>)
    BY <1>4, <2>1, WriteTyped
  <2>2. CASE UNCHANGED lines
    BY <2>2 DEF CliTypeOK
  <2> QED
    BY <2>1, <2>2 DEF EndCompaction
<1> HIDE DEF n
<1>6. LET d == [cli EXCEPT !.compacting = FALSE, !.compactions = n] IN d \in CliStates /\ d.up = cli.up
  BY <1>1, <1>2, Zenon DEF CliStates
<1>7. cli' \in CliStates /\ cli'.up
  BY <1>1, <1>6 DEF EndCompaction, n
<1>8. frames' = frames
  BY DEF EndCompaction
<1> QED
  BY <1>5, <1>7, <1>8 DEF CliTypeOK

LEMMA FinishBootTyped ==
  ASSUME CliTypeOK, FinishBoot
  PROVE  CliTypeOK' /\ cli'.up
<1>1. cli \in CliStates /\ cli.up
  BY DEF CliTypeOK, FinishBoot
<1>2. LET d == [cli EXCEPT !.booting = FALSE] IN d \in CliStates /\ d.up = cli.up
  BY <1>1, Zenon DEF CliStates
<1> QED
  BY <1>1, <1>2 DEF CliTypeOK, FinishBoot

LEMMA CliStepTyped ==
  ASSUME CliTypeOK, NEW c, CliStep(c)
  PROVE  CliTypeOK' /\ Room'
<1>1. CliTypeOK' /\ cli'.up
  BY StartTurnTyped, StartAmbientTurnTyped, AbsorbInputTyped, CallReplyTyped, CallCancelTyped,
     EndTurnTyped, StartCompactionTyped, EndCompactionTyped, FinishBootTyped DEF CliStep
<1> QED
  BY <1>1 DEF Room

--------------------------------------------------------------------------------
(* The actions *)

LEMMA InitInvariant == CoreInit => IInv
<1> SUFFICES ASSUME CoreInit PROVE IInv
  OBVIOUS
<1>1. bus \in BusStates /\ Gate(bus)
  BY StartedGate DEF CoreInit, StartedBus
<1>2. HistoryOK
  BY DEF CoreInit, HistoryOK
<1>3. CliTypeOK /\ Room
  <2>1. cli \in CliStates /\ cli.up
    BY IdleCliTyped DEF CoreInit, CliInit, IdleCli
  <2>2. lines \in [1 .. MaxGen -> Seq(Lines)] /\ frames \in Seq(Frames)
    BY DEF CoreInit, CliInit
  <2> QED
    BY <2>1, <2>2 DEF CliTypeOK, Room
<1> QED
  BY <1>1, <1>2, <1>3, IInvParts

\* A final that is published keeps the history a history.
LEMMA LogTyped ==
  ASSUME \A p \in Prompts : finals[p] \in Seq(FinalRecords),
         NEW final \in FinalRecords \cup {None}, Log(final)
  PROVE  \A p \in Prompts : finals'[p] \in Seq(FinalRecords)
<1>1. CASE final = None
  BY <1>1 DEF Log
<1>2. CASE final # None
  <2> HIDE DEF FinalRecords
  <2>1. final \in FinalRecords
    BY <1>2
  <2>2. \A p \in Prompts : Append(finals[p], final) \in Seq(FinalRecords)
    BY <2>1
  <2> QED
    BY <1>2, <2>2 DEF Log
<1> QED
  BY <1>1, <1>2

LEMMA SendStep == ASSUME IInv, NEW p \in Prompts, Send(p) PROVE IInv'
<1>1. bus' \in BusStates /\ Gate(bus')
  BY IInvParts, SendPromptGate DEF Send
<1>2. HistoryOK'
  BY IInvParts DEF Send, HistoryOK
<1>3. CliTypeOK' /\ Room'
  BY IInvParts DEF Send, cliVars, CliTypeOK, Room
<1> QED
  BY <1>1, <1>2, <1>3, IInvPartsPrime

LEMMA PtyTypeStep == ASSUME IInv, NEW i, PtyType(i) PROVE IInv'
<1> DEFINE d    == bus.deliveries
           x    == d[i].text
           typedNow == [d[i] EXCEPT !.typed = TRUE]
           ds   == [d EXCEPT ![i] = typedNow]
<1>1. bus \in BusStates /\ Gate(bus) /\ HistoryOK /\ CliTypeOK /\ Room
  BY IInvParts
<1>2. d \in Seq(Deliveries) /\ i \in DOMAIN d
  BY <1>1, Zenon DEF BusStates, PtyType, IsNext
<1>3. d[i] \in Deliveries
  <2> HIDE DEF d
  <2> QED
    BY <1>2
<1>4. x \in Texts
  BY <1>3 DEF Deliveries
<1>5. typedNow \in Deliveries
  BY <1>3, Zenon DEF Deliveries
<1>6. ds \in Seq(Deliveries)
  <2> HIDE DEF d, typedNow
  <2> QED
    BY <1>2, <1>5
<1>7. bus' = [bus EXCEPT !.deliveries = ds]
  BY DEF PtyType
<1>8. bus' \in BusStates /\ Gate(bus')
  <2> HIDE DEF ds
  <2>1. bus' \in BusStates
    BY <1>1, <1>6, <1>7, Zenon DEF BusStates
  <2>2. Frame(bus, bus')
    BY <1>1, <1>7, Zenon DEF BusStates, Frame
  <2> QED
    BY <1>1, <2>1, <2>2, FrameKeeps
<1>9. cli' = cli \/ cli' = [cli EXCEPT !.box = Append(@, x)]
  BY DEF PtyType
<1>10. CliTypeOK' /\ Room'
  <2>1. cli.box \in Seq(Inputs) /\ x \in Inputs /\ cli \in CliStates
    BY <1>1, <1>4 DEF CliTypeOK, CliStates, Inputs
  <2> DEFINE box == Append(cli.box, x)
  <2>2. box \in Seq(Inputs)
    BY <2>1
  <2> HIDE DEF box
  <2>3. LET c == [cli EXCEPT !.box = box]
        IN  c \in CliStates /\ c.up = cli.up /\ c.gen = cli.gen
    BY <2>1, <2>2, Zenon DEF CliStates
  <2>4. cli' \in CliStates /\ cli'.up = cli.up /\ cli'.gen = cli.gen
    BY <1>9, <2>1, <2>3 DEF box
  <2>5. UNCHANGED <<lines, frames>>
    BY DEF PtyType
  <2> QED
    BY <1>1, <2>4, <2>5 DEF CliTypeOK, Room
<1>11. HistoryOK'
  <2>1. typed' = [typed EXCEPT ![x] = @ + 1]
    BY DEF PtyType
  <2>2. typed' \in [Texts -> Nat]
    BY <1>1, <1>4, <2>1 DEF HistoryOK
  <2>3. swallows' \in Nat
    BY <1>1 DEF HistoryOK, PtyType
  <2>4. UNCHANGED <<connected, sent, finals, drops, expired>>
    BY DEF PtyType
  <2> QED
    BY <1>1, <2>2, <2>3, <2>4 DEF HistoryOK
<1> QED
  BY <1>8, <1>10, <1>11, IInvPartsPrime

LEMMA PtySettleStep == ASSUME IInv, NEW i, PtySettle(i) PROVE IInv'
<1>1. bus \in BusStates /\ Gate(bus) /\ HistoryOK /\ CliTypeOK /\ Room
  BY IInvParts
<1>2. i \in DOMAIN bus.deliveries /\ cli.compactions \in Nat
  BY <1>1 DEF PtySettle, IsNext, CliTypeOK, CliStates
<1>3. PICK outcome \in Verdicts : bus' = Verdict(bus, i, outcome, cli.compactions)
  BY DEF PtySettle
<1>4. bus' \in BusStates /\ Gate(bus')
  BY <1>1, <1>2, <1>3, VerdictTyped, VerdictFrame, FrameKeeps
<1>5. CliTypeOK' /\ Room'
  <2> DEFINE box == Without(cli.box, bus.deliveries[i].text)
  <2>1. cli \in CliStates
    BY <1>1 DEF CliTypeOK
  <2>2. box \in Seq(Inputs)
    <3>1. cli.box \in Seq(Inputs)
      BY <2>1 DEF CliStates
    <3> QED
      BY <3>1, WithoutTyped
  <2>3. cli' = cli \/ cli' = [cli EXCEPT !.box = box]
    BY DEF PtySettle, Cleared
  <2> HIDE DEF box
  <2>4. cli' \in CliStates /\ cli'.up = cli.up /\ cli'.gen = cli.gen
    BY <2>1, <2>2, <2>3, Zenon DEF CliStates
  <2>5. UNCHANGED <<lines, frames>>
    BY DEF PtySettle
  <2> QED
    BY <1>1, <2>4, <2>5 DEF CliTypeOK, Room
<1>6. HistoryOK'
  <2>1. swallows' \in {swallows, swallows + 1}
    BY DEF PtySettle
  <2>2. UNCHANGED <<connected, sent, typed, finals, drops, expired>>
    BY DEF PtySettle
  <2> QED
    BY <1>1, <2>1, <2>2 DEF HistoryOK
<1> QED
  BY <1>4, <1>5, <1>6, IInvPartsPrime

\* What a transcript line of each kind carries.
LEMMA LineFields ==
  ASSUME NEW l \in Lines
  PROVE  /\ l.kind \in {"prompt", "absorbed", "end", "init", "replay", "compact"}
         /\ l.kind = "end" => l.id \in Nat /\ l.text \in Says
         /\ l.kind = "replay" => l.gen \in Nat /\ l.session \in Nat
<1>1. CASE l \in [kind : {"prompt", "absorbed"}, text : Inputs \cup {None}]
  BY <1>1
<1>2. CASE l \in [kind : {"end"}, id : Nat, text : Says, inject : BOOLEAN]
  BY <1>2
<1>3. CASE l \in [kind : {"init"}, session : Nat]
  BY <1>3
<1>4. CASE l \in [kind : {"replay"}, gen : Nat, session : Nat]
  BY <1>4
<1>5. CASE l \in [kind : {"compact"}, gen : Nat, nth : Nat]
  BY <1>5
<1> QED
  BY <1>1, <1>2, <1>3, <1>4, <1>5 DEF Lines

LEMMA SlotChatTyped == ASSUME NEW b \in BusStates PROVE SlotChat(b) \in ChatOrNone
<1>1. b.slot \in PromptOrNone
  BY Zenon DEF BusStates
<1> QED
  BY <1>1, ChatAssumption DEF SlotChat, ChatOrNone, PromptOrNone

\* The finals a terminator makes the bus publish are finals.
LEMMA TurnEndFinalTyped ==
  ASSUME NEW b \in BusStates, NEW id, NEW text \in Says, NEW inject
  PROVE  TurnEndFinal(b, id, text, inject) \in FinalRecords \cup {None}
<1>1. SlotChat(b) \in ChatOrNone
  BY SlotChatTyped
<1>2. \A t \in SUBSET Prompts :
        /\ Final(t, SlotChat(b), "synthetic") \in FinalRecords
        /\ Final(t, SlotChat(b), "silent") \in FinalRecords
  BY <1>1 DEF Final, FinalRecords
<1>3. NetRunsStale(b, text, inject) => text \in SUBSET Prompts
  BY DEF NetRunsStale, Says
<1>4. NetVerdict(b, text, inject) = "synthesize" => NetText(b, text) \in SUBSET Prompts
  <2>1. NetVerdict(b, text, inject) = "synthesize" => NetText(b, text) # None
    BY DEF NetVerdict
  <2>2. b.stash \in Says
    BY Zenon DEF BusStates, Says
  <2>3. NetText(b, text) \in Says
    BY <2>2 DEF NetText, Says
  <2> QED
    BY <2>1, <2>3 DEF Says
<1>5. {} \in SUBSET Prompts
  OBVIOUS
<1> HIDE DEF FinalRecords
<1> QED
  BY <1>2, <1>3, <1>4, <1>5 DEF TurnEndFinal

LEMMA TailLineStep == ASSUME IInv, NEW g \in 1 .. MaxGen, TailLine(g) PROVE IInv'
<1> DEFINE l == Head(lines[g])
<1>1. bus \in BusStates /\ Gate(bus) /\ HistoryOK /\ CliTypeOK /\ Room
  BY IInvParts
<1>2. lines \in [1 .. MaxGen -> Seq(Lines)] /\ lines[g] # <<>>
  BY <1>1 DEF CliTypeOK, TailLine
<1>3. lines[g] \in Seq(Lines)
  BY <1>2
<1>4. l \in Lines /\ Tail(lines[g]) \in Seq(Lines)
  <2> HIDE DEF Lines
  <2> QED
    BY <1>2, <1>3
<1>5. /\ l.kind \in {"prompt", "absorbed", "end", "init", "replay", "compact"}
      /\ l.kind = "end" => l.id \in Nat /\ l.text \in Says
      /\ l.kind = "replay" => l.gen \in Nat /\ l.session \in Nat
  BY <1>4, LineFields
<1>6. connected \in BOOLEAN
  BY <1>1 DEF HistoryOK
<1>7. bus' \in BusStates /\ Gate(bus')
  <2>1. CASE l.kind = "prompt"
    <3>1. bus' = PromptLine(bus, l.text)
      BY <2>1 DEF TailLine
    <3> QED
      BY <1>1, <3>1, PromptLineTyped, PromptLineGate
  <2>2. CASE l.kind = "absorbed"
    <3>1. bus' = AbsorbedLine(bus, l.text)
      BY <2>2 DEF TailLine
    <3> QED
      BY <1>1, <3>1, AbsorbedLineTyped, AbsorbedLineGate
  <2>3. CASE l.kind = "end"
    <3>1. bus' = TurnEnd(bus, l.id, l.text, l.inject, connected)
      BY <2>3 DEF TailLine
    <3> QED
      BY <1>1, <1>5, <1>6, <2>3, <3>1, TurnEndTyped, TurnEndGate DEF Says
  <2>4. CASE l.kind = "init"
    <3>1. bus' = InitLine(bus, l.session)
      BY <2>4 DEF TailLine
    <3> QED
      BY <1>1, <3>1, InitLineTyped, InitLineGate
  <2>5. CASE l.kind = "replay"
    <3>1. bus' = ReplayDone(bus, l.gen, l.session, connected)
      BY <2>5 DEF TailLine
    <3> QED
      BY <1>1, <1>5, <2>5, <3>1, ReplayDoneGate
  <2>6. CASE l.kind = "compact"
    <3>1. PICK tolerant \in BOOLEAN : bus' = CompactLine(bus, l.gen, l.nth, tolerant)
      BY <2>6 DEF TailLine
    <3> QED
      BY <1>1, <3>1, CompactLineTyped, CompactLineGate
  <2> QED
    BY <1>5, <2>1, <2>2, <2>3, <2>4, <2>5, <2>6
<1>8. CliTypeOK' /\ Room'
  <2> DEFINE box == Append(cli.box, NudgeNote)
  <2>1. cli \in CliStates
    BY <1>1 DEF CliTypeOK
  <2>2. box \in Seq(Inputs)
    BY <2>1 DEF CliStates, Inputs
  <2>3. cli' = cli \/ cli' = [cli EXCEPT !.box = box]
    BY DEF TailLine
  <2> HIDE DEF box
  <2>4. cli' \in CliStates /\ cli'.up = cli.up /\ cli'.gen = cli.gen
    BY <2>1, <2>2, <2>3, Zenon DEF CliStates
  <2>5. lines' = [lines EXCEPT ![g] = Tail(@)] /\ frames' = frames
    BY DEF TailLine
  <2>6. lines' \in [1 .. MaxGen -> Seq(Lines)]
    <3> HIDE DEF Lines
    <3> QED
      BY <1>2, <1>4, <2>5
  <2> QED
    BY <1>1, <2>4, <2>5, <2>6 DEF CliTypeOK, Room
<1>9. HistoryOK'
  <2> DEFINE final == IF l.kind = "end" THEN TurnEndFinal(bus, l.id, l.text, l.inject) ELSE None
  <2>1. final \in FinalRecords \cup {None}
    BY <1>1, <1>5, TurnEndFinalTyped
  <2>2. Log(final)
    BY DEF TailLine
  <2>3. \A p \in Prompts : finals'[p] \in Seq(FinalRecords)
    BY <1>1, <2>1, <2>2, LogTyped DEF HistoryOK
  <2>4. UNCHANGED <<connected, sent, typed, drops, swallows, expired>>
    BY DEF TailLine
  <2> QED
    BY <1>1, <2>3, <2>4 DEF HistoryOK
<1> QED
  BY <1>7, <1>8, <1>9, IInvPartsPrime

LEMMA StopTailerStep == ASSUME IInv, NEW g \in 1 .. MaxGen, StopTailer(g) PROVE IInv'
<1>1. bus \in BusStates /\ Gate(bus) /\ HistoryOK /\ CliTypeOK /\ Room
  BY IInvParts
<1>2. lines' \in [1 .. MaxGen -> Seq(Lines)]
  <2>1. lines \in [1 .. MaxGen -> Seq(Lines)] /\ lines' = [lines EXCEPT ![g] = <<>>]
    BY <1>1 DEF CliTypeOK, StopTailer
  <2> HIDE DEF Lines
  <2> QED
    BY <2>1
<1>3. CliTypeOK' /\ Room'
  BY <1>1, <1>2 DEF StopTailer, CliTypeOK, Room
<1>4. HistoryOK'
  BY <1>1 DEF StopTailer, Unlogged, HistoryOK
<1>5. bus' \in BusStates /\ Gate(bus')
  BY <1>1 DEF StopTailer
<1> QED
  BY <1>3, <1>4, <1>5, IInvPartsPrime

LEMMA ReadFrameStep == ASSUME IInv, ReadFrame PROVE IInv'
<1> DEFINE f == Head(frames)
<1>1. bus \in BusStates /\ Gate(bus) /\ HistoryOK /\ CliTypeOK /\ Room
  BY IInvParts
<1>2. frames \in Seq(Frames) /\ frames # <<>>
  BY <1>1 DEF CliTypeOK, ReadFrame
<1>3. f \in Frames /\ Tail(frames) \in Seq(Frames)
  <2> HIDE DEF Frames
  <2> QED
    BY <1>2
<1>4. /\ f.kind \in {"reply", "cancel"}
      /\ f.kind = "reply" => f.about \in SUBSET Prompts
  <2>1. CASE f \in [kind : {"reply"}, about : SUBSET Prompts, named : Chats \cup {None}]
    BY <2>1
  <2>2. CASE f \in [kind : {"cancel"}]
    BY <2>2
  <2> QED
    BY <1>3, <2>1, <2>2 DEF Frames
<1>5. CliTypeOK' /\ Room'
  BY <1>1, <1>3 DEF ReadFrame, CliTypeOK, Room
<1>6. CASE f.kind = "reply"
  <2> DEFINE to    == Effective(bus, f.named, "reply")
             final == IF Duplicate(bus, f.named, "reply") THEN None ELSE Final(f.about, to, "reply")
  <2>1. bus' = IngestReply(bus, f.named, "reply") /\ Log(final)
    BY <1>6 DEF ReadFrame
  <2>2. bus' \in BusStates /\ Gate(bus')
    BY <1>1, <2>1, IngestReplyTyped, IngestReplyGate
  <2>3. Final(f.about, to, "reply") \in FinalRecords
    <3>1. to \in ChatOrNone
      BY <1>1, EffectiveTyped
    <3> QED
      BY <1>4, <1>6, <3>1 DEF Final, FinalRecords
  <2> HIDE DEF FinalRecords
  <2>4. \A p \in Prompts : finals'[p] \in Seq(FinalRecords)
    BY <1>1, <2>1, <2>3, LogTyped DEF HistoryOK
  <2>5. UNCHANGED <<connected, sent, typed, drops, swallows, expired>>
    BY DEF ReadFrame
  <2>6. HistoryOK'
    BY <1>1, <2>4, <2>5 DEF HistoryOK
  <2> QED
    BY <1>5, <2>2, <2>6, IInvPartsPrime
<1>7. CASE f.kind = "cancel"
  <2>1. bus' = Abandon(bus, connected) /\ UNCHANGED finals
    BY <1>7 DEF ReadFrame
  <2>2. bus' \in BusStates /\ Gate(bus')
    BY <1>1, <2>1, AbandonGate
  <2>3. HistoryOK'
    BY <1>1, <2>1 DEF ReadFrame, HistoryOK
  <2> QED
    BY <1>5, <2>2, <2>3, IInvPartsPrime
<1> QED
  BY <1>4, <1>6, <1>7

LEMMA DropStep == ASSUME IInv, Drop PROVE IInv'
<1>1. bus \in BusStates /\ Gate(bus) /\ HistoryOK /\ CliTypeOK /\ Room
  BY IInvParts
<1>2. bus' \in BusStates /\ Gate(bus')
  BY <1>1, OnCloseGate DEF Drop
<1>3. HistoryOK'
  <2>1. /\ connected' = FALSE /\ drops' = drops + 1
        /\ UNCHANGED <<sent, typed, finals, swallows, expired>>
    BY DEF Drop
  <2>2. drops' \in Nat
    BY <1>1, <2>1 DEF HistoryOK
  <2> QED
    BY <1>1, <2>1, <2>2 DEF HistoryOK
<1>4. CliTypeOK' /\ Room'
  BY <1>1 DEF Drop, cliVars, CliTypeOK, Room
<1> QED
  BY <1>2, <1>3, <1>4, IInvPartsPrime

LEMMA HelloStep == ASSUME IInv, Hello PROVE IInv'
<1>1. bus \in BusStates /\ Gate(bus) /\ HistoryOK /\ CliTypeOK /\ Room
  BY IInvParts
<1>2. bus' \in BusStates /\ Gate(bus')
  BY <1>1, OnHelloTyped, OnHelloGate DEF Hello
<1>3. HistoryOK'
  BY <1>1 DEF Hello, Unlogged, HistoryOK
<1>4. CliTypeOK' /\ Room'
  BY <1>1 DEF Hello, cliVars, CliTypeOK, Room
<1> QED
  BY <1>2, <1>3, <1>4, IInvPartsPrime

LEMMA KillStep == ASSUME IInv, Kill PROVE IInv'
<1>1. bus \in BusStates /\ Gate(bus) /\ HistoryOK /\ CliTypeOK /\ Room
  BY IInvParts
<1>2. bus' \in BusStates /\ Gate(bus')
  BY <1>1, OnCloseGate DEF Kill
<1>3. HistoryOK'
  BY <1>1 DEF Kill, Unlogged, HistoryOK
<1>4. cli' \in CliStates /\ cli'.gen = cli.gen
  <2>1. cli \in CliStates
    BY <1>1 DEF CliTypeOK
  <2>2. <<>> \in Seq(Inputs)
    OBVIOUS
  <2>3. cli' = [cli EXCEPT !.up = FALSE, !.box = <<>>, !.turn = None, !.compacting = FALSE, !.prev = {}]
    BY DEF Kill
  <2> QED
    BY <2>1, <2>2, <2>3, ZenonT(30) DEF CliStates
<1>5. CliTypeOK' /\ Room'
  BY <1>1, <1>4 DEF Kill, CliTypeOK, Room
<1> QED
  BY <1>2, <1>3, <1>5, IInvPartsPrime

LEMMA RespawnStep == ASSUME IInv, Respawn PROVE IInv'
<1> DEFINE gen == cli.gen + 1
<1>1. bus \in BusStates /\ Gate(bus) /\ HistoryOK /\ CliTypeOK /\ Room
  BY IInvParts
<1>2. cli \in CliStates /\ cli.gen \in 1 .. MaxGen /\ ~cli.up
  BY <1>1 DEF CliTypeOK, CliStates, Respawn
<1>3. gen \in 1 .. MaxGen
  BY <1>1, <1>2, CliAssumption DEF Room
<1>4. bus' \in BusStates /\ Gate(bus')
  <2>1. bus' = Spawned(bus, gen) /\ gen \in Nat
    BY <1>3, CliAssumption DEF Respawn
  <2> HIDE DEF gen
  <2> QED
    BY <1>1, <2>1, SpawnedTyped, SpawnedGate
<1>5. PICK fresh \in NewSessions :
        LET session == IF fresh THEN gen ELSE bus.liveSession
            init    == [kind |-> "init", session |-> session]
            replay  == [kind |-> "replay", gen |-> gen, session |-> session]
        IN  \E boot \in {<<replay>>, <<replay, init>>, <<init, replay>>}
                           \cup (IF MarkerLost THEN {<<init>>} ELSE {}) :
              lines' = [lines EXCEPT ![gen] = boot]
  BY DEF Respawn
<1> DEFINE session == IF fresh THEN gen ELSE bus.liveSession
           init    == [kind |-> "init", session |-> session]
           replay  == [kind |-> "replay", gen |-> gen, session |-> session]
<1>6. session \in Nat
  <2>1. bus.liveSession \in Nat
    BY <1>1, Zenon DEF BusStates
  <2> QED
    BY <1>3, <2>1, CliAssumption
<1>7. init \in Lines /\ replay \in Lines
  <2>1. gen \in Nat
    BY <1>3, CliAssumption
  <2> HIDE DEF session, gen
  <2> QED
    BY <1>6, <2>1 DEF Lines
<1>8. PICK boot \in {<<replay>>, <<replay, init>>, <<init, replay>>, <<init>>} :
        lines' = [lines EXCEPT ![gen] = boot]
  BY <1>5
<1>9. lines' \in [1 .. MaxGen -> Seq(Lines)]
  <2> HIDE DEF Lines, init, replay
  <2>1. boot \in Seq(Lines)
    <3>1. /\ <<replay>> \in Seq(Lines) /\ <<replay, init>> \in Seq(Lines)
          /\ <<init, replay>> \in Seq(Lines) /\ <<init>> \in Seq(Lines)
      BY <1>7
    <3> QED
      BY <1>8, <3>1
  <2>2. lines \in [1 .. MaxGen -> Seq(Lines)]
    BY <1>1 DEF CliTypeOK
  <2> HIDE DEF gen
  <2> QED
    BY <1>3, <1>8, <2>1, <2>2
<1>10. cli' \in CliStates /\ cli'.up
  <2>1. cli' = [cli EXCEPT !.gen = gen, !.up = TRUE, !.booting = TRUE]
    BY DEF Respawn
  <2> HIDE DEF gen
  <2> QED
    BY <1>2, <1>3, <2>1, ZenonT(30) DEF CliStates
<1>11. CliTypeOK' /\ Room'
  BY <1>1, <1>9, <1>10 DEF Respawn, CliTypeOK, Room
<1>12. HistoryOK'
  BY <1>1 DEF Respawn, Unlogged, HistoryOK
<1> QED
  BY <1>4, <1>11, <1>12, IInvPartsPrime

LEMMA TimerStep ==
  ASSUME IInv, SettleTimer \/ DeadlineTimer \/ BackstopFires \/ FallbackFires
  PROVE  IInv'
<1>1. bus \in BusStates /\ Gate(bus) /\ HistoryOK /\ CliTypeOK /\ Room
  BY IInvParts
<1>2. bus' \in BusStates /\ Gate(bus')
  <2>1. CASE SettleTimer
    BY <1>1, <2>1, SettledGate DEF SettleTimer
  <2>2. CASE DeadlineTimer
    BY <1>1, <2>2, TurnDeadlineGate DEF DeadlineTimer
  <2>3. CASE BackstopFires
    BY <1>1, <2>3, ReadiedGate DEF BackstopFires, InitBackstop
  <2>4. CASE FallbackFires
    BY <1>1, <2>4, NudgeFallbackTyped, NudgeFallbackGate DEF FallbackFires
  <2> QED
    BY <2>1, <2>2, <2>3, <2>4
<1>3. /\ UNCHANGED <<connected, sent, typed, finals, drops, swallows, cliVars>>
      /\ expired' \in {expired, expired + 1}
  BY DEF SettleTimer, DeadlineTimer, BackstopFires, FallbackFires, Unlogged
<1>4. HistoryOK'
  <2>1. expired' \in Nat
    BY <1>1, <1>3 DEF HistoryOK
  <2> QED
    BY <1>1, <1>3, <2>1 DEF HistoryOK
<1>5. CliTypeOK' /\ Room'
  BY <1>1, <1>3 DEF cliVars, CliTypeOK, Room
<1> QED
  BY <1>2, <1>4, <1>5, IInvPartsPrime

LEMMA TextTimerStep ==
  ASSUME IInv, NEW x \in Texts, VerifyFires(x) \/ HoldDeadline(x)
  PROVE  IInv'
<1>1. bus \in BusStates /\ Gate(bus) /\ HistoryOK /\ CliTypeOK /\ Room
  BY IInvParts
<1>2. bus' \in BusStates /\ Gate(bus')
  <2>1. CASE VerifyFires(x)
    BY <1>1, <2>1, VerifyTimerTyped, VerifyTimerFrame, FrameKeeps DEF VerifyFires
  <2>2. CASE HoldDeadline(x)
    BY <1>1, <2>2, ReleaseHoldTyped, ReleaseHoldFrame, FrameKeeps DEF HoldDeadline
  <2> QED
    BY <2>1, <2>2
<1>3. UNCHANGED <<connected, sent, typed, finals, drops, swallows, expired, cliVars>>
  BY DEF VerifyFires, HoldDeadline, Unlogged
<1>4. HistoryOK'
  BY <1>1, <1>3 DEF HistoryOK
<1>5. CliTypeOK' /\ Room'
  BY <1>1, <1>3 DEF cliVars, CliTypeOK, Room
<1> QED
  BY <1>2, <1>4, <1>5, IInvPartsPrime

LEMMA CliMovesStep == ASSUME IInv, CliMoves PROVE IInv'
<1>1. bus \in BusStates /\ Gate(bus) /\ HistoryOK /\ CliTypeOK /\ Room
  BY IInvParts
<1>2. CliTypeOK' /\ Room'
  BY <1>1, CliStepTyped DEF CliMoves
<1>3. UNCHANGED coreVars
  BY DEF CliMoves
<1>4. HistoryOK' /\ bus' \in BusStates /\ Gate(bus')
  BY <1>1, <1>3 DEF coreVars, HistoryOK
<1> QED
  BY <1>2, <1>4, IInvPartsPrime

\* Every action keeps the inductive invariant.
LEMMA NextInvariant == ASSUME IInv, [Next]_vars PROVE IInv'
<1>1. CASE Next
  <2>1. ASSUME NEW p \in Prompts, Send(p) PROVE IInv'
    BY <2>1, SendStep
  <2>2. CASE PtyMoves
    BY <2>2, PtyTypeStep, PtySettleStep DEF PtyMoves
  <2>3. ASSUME NEW g \in 1 .. MaxGen, TailLine(g) \/ StopTailer(g) PROVE IInv'
    BY <2>3, TailLineStep, StopTailerStep
  <2>4. CASE ReadFrame
    BY <2>4, ReadFrameStep
  <2>5. CASE Drop \/ Hello \/ Kill \/ Respawn
    BY <2>5, DropStep, HelloStep, KillStep, RespawnStep
  <2>6. CASE SettleTimer \/ DeadlineTimer \/ BackstopFires \/ FallbackFires
    BY <2>6, TimerStep
  <2>7. ASSUME NEW x \in Texts, VerifyFires(x) \/ HoldDeadline(x) PROVE IInv'
    BY <2>7, TextTimerStep
  <2>8. CASE CliMoves
    BY <2>8, CliMovesStep
  <2> QED
    BY <1>1, <2>1, <2>2, <2>3, <2>4, <2>5, <2>6, <2>7, <2>8 DEF Next
<1>2. CASE UNCHANGED vars
  <2>1. bus \in BusStates /\ Gate(bus) /\ HistoryOK /\ CliTypeOK /\ Room
    BY IInvParts
  <2>2. UNCHANGED <<bus, connected, sent, typed, finals, drops, swallows, expired, cli, lines, frames>>
    BY <1>2 DEF vars, coreVars, cliVars
  <2>3. bus' \in BusStates /\ Gate(bus') /\ HistoryOK' /\ CliTypeOK' /\ Room'
    BY <2>1, <2>2 DEF HistoryOK, CliTypeOK, Room
  <2> QED
    BY <2>3, IInvPartsPrime
<1> QED
  BY <1>1, <1>2

LEMMA CoreInvariant == Spec => []IInv
<1>1. CoreInit => IInv
  BY InitInvariant
<1>2. IInv /\ [Next]_vars => IInv'
  BY NextInvariant
<1> QED
  BY <1>1, <1>2, PTL DEF Spec

--------------------------------------------------------------------------------
(* What frees the gate admits the next prompt *)

\* The gate and the queue are as they were.
SameGate(b, d) ==
  /\ d.queue = b.queue /\ d.op = b.op /\ d.streaming = b.streaming /\ d.nudged = b.nudged
  /\ d.parked = b.parked /\ d.settle = b.settle

LEMMA SameGateStrands == ASSUME NEW b, NEW d, SameGate(b, d) PROVE Strands(d) <=> Strands(b)
BY Zenon DEF SameGate, Strands, SlotFree

LEMMA FrameStrands == ASSUME NEW b, NEW d, Frame(b, d) PROVE SameGate(b, d)
BY Zenon DEF SameGate, Frame

LEMMA PublishFrame == ASSUME NEW b \in BusStates PROVE Publish(b) \in BusStates /\ Frame(b, Publish(b))
BY TouchTyped, TouchFrame DEF Publish

LEMMA SendPromptAdmits ==
  ASSUME NEW b \in BusStates, Gate(b), ~Strands(b), NEW p \in Prompts, NEW online
  PROVE  ~Strands(SendPrompt(b, p, online))
<1> DEFINE e == [b EXCEPT !.queue = Enqueue(@, p)]
<1>1. b.queue \in Queues /\ Admissible(b)
  BY Zenon DEF BusStates, Gate, Parts
<1>2. e \in BusStates
  BY <1>1, EnqueueTyped, Zenon DEF BusStates
<1>3. /\ e.queue = Enqueue(b.queue, p) /\ e.op = b.op /\ e.pending = b.pending
      /\ e.streaming = b.streaming /\ e.nudged = b.nudged /\ e.parked = b.parked /\ e.settle = b.settle
      /\ e.awaitLine = b.awaitLine /\ e.pendingOrigin = b.pendingOrigin /\ e.deadline = b.deadline
  BY Zenon DEF BusStates
<1> HIDE DEF e
<1>4. Matched(Enqueue(b.queue, p))
  BY <1>1, EnqueueEffect DEF Admissible
<1>5. Gate(e) /\ (SlotFree(e) <=> SlotFree(b))
  BY <1>3, <1>4 DEF Gate, Parts, Admissible, Counted, Deferred, Timed, SlotFree
<1>6. ~Strands(AdmitNext(e, online))
  BY <1>2, <1>5, AdmitNextGate
<1>7. ~MustQueue(b) => ~Strands(AdmitPrompt(b, p, online))
  BY AdmitPromptGate DEF MustQueue, Gate
<1>8. MustQueue(b) => ~Strands(e)
  BY <1>5 DEF MustQueue, Strands
<1> QED
  BY <1>6, <1>7, <1>8 DEF SendPrompt, e

\* A reply frees the gate only by settling a reminder.
LEMMA IngestReplyFrees ==
  ASSUME NEW b \in BusStates, ~Strands(b), NEW named, NEW kind,
         LET d == IngestReply(b, named, kind) IN Strands(d)
  PROVE  b.nudged /\ ~IngestReply(b, named, kind).nudged
<1> DEFINE to      == Effective(b, named, kind)
           freed   == [Publish(b) EXCEPT !.slot = None, !.slotAmbiguous = FALSE]
           other   == /\ named # None /\ named \in b.known
                      /\ b.slot # None
                      /\ SlotChat(b) # named
           routed  == IF other THEN Publish(b) ELSE freed
           settled == [routed EXCEPT !.replied = TRUE, !.nudged = FALSE, !.stash = None]
           closed  == IF b.slot # None THEN SlotChat(b) ELSE settled.silentClosed
           ans     == IF to # None THEN settled.answered \cup {to} ELSE settled.answered
           d       == IngestReply(b, named, kind)
           Settles(x) == /\ x.nudged = FALSE
                         /\ x.queue = b.queue /\ x.op = b.op /\ x.streaming = b.streaming
                         /\ x.parked = b.parked /\ x.settle = b.settle
<1>1. Publish(b) \in BusStates /\ SameGate(b, Publish(b))
  BY PublishFrame, FrameStrands
<1>2. freed \in BusStates /\ SameGate(Publish(b), freed)
  <2> DEFINE said == Publish(b)
  <2>1. said \in BusStates /\ None \in PromptOrNone
    BY <1>1 DEF PromptOrNone
  <2> HIDE DEF said
  <2>2. [said EXCEPT !.slot = None, !.slotAmbiguous = FALSE] \in BusStates
    BY <2>1, ZenonT(30) DEF BusStates
  <2>3. SameGate(said, [said EXCEPT !.slot = None, !.slotAmbiguous = FALSE])
    BY <2>1, ZenonT(30) DEF BusStates, SameGate
  <2> QED
    BY <2>2, <2>3 DEF said
<1> HIDE DEF freed, other
<1>3. routed \in BusStates /\ SameGate(b, routed)
  BY <1>1, <1>2, Zenon DEF SameGate
<1> HIDE DEF routed
<1>4. settled \in BusStates
  BY <1>3, Zenon DEF BusStates
<1>5. Settles(settled)
  BY <1>3, ZenonT(30) DEF BusStates, SameGate
<1> HIDE DEF settled, closed, ans, to
<1>6. Settles([settled EXCEPT !.silentClosed = closed])
  BY <1>4, <1>5, ZenonT(30) DEF BusStates
<1>7. Settles([settled EXCEPT !.silentClosed = None, !.published = TRUE, !.answered = ans])
  BY <1>4, <1>5, ZenonT(30) DEF BusStates
<1>8. d = b \/ Settles(d)
  BY <1>6, <1>7 DEF IngestReply, closed, ans, settled, routed, other, freed, to
<1>9. b.nudged \in BOOLEAN
  BY Zenon DEF BusStates
<1> HIDE DEF d
<1>10. Strands(d)
  BY DEF d
<1>11. Settles(d)
  BY <1>8, <1>10
<1>12. b.nudged
  BY <1>9, <1>10, <1>11, Zenon DEF Strands, SlotFree
<1> QED
  BY <1>11, <1>12 DEF d

\* A turn's end leaves the gate to the settle window, unless it is a stale one.
LEMMA TurnEndAdmits ==
  ASSUME NEW b \in BusStates, Gate(b), ~Strands(b), ~Stale(b), NEW id \in Nat,
         NEW text \in (SUBSET Prompts) \cup {None}, NEW inject, NEW online \in BOOLEAN
  PROVE  ~Strands(TurnEnd(b, id, text, inject, online))
<1> DEFINE net      == HandleTurnEnd(b, text, inject, online)
           over     == [net EXCEPT !.streaming = FALSE, !.parked = FALSE, !.redelivered = {},
                                   !.earlyReleased = FALSE, !.deadlineReleased = FALSE, !.lastEnd = id]
           said     == Publish(over)
           released == IF id # b.lastEnd THEN ReleaseTurn(said) ELSE said
           settling == [released EXCEPT !.settle = TRUE]
<1>1. net \in BusStates
  BY HandleTurnEndTyped
<1> HIDE DEF net
<1>2. over \in BusStates
  BY <1>1, ZenonT(60) DEF BusStates
<1> HIDE DEF over
<1>3. released \in BusStates
  BY <1>2, PublishTyped, ReleaseTurnTyped
<1>4. TurnEnd(b, id, text, inject, online) \in {b, ScheduleAdmit(released)}
  BY DEF TurnEnd, released, said, over, net
<1> HIDE DEF released
<1>5. settling \in BusStates /\ settling.settle = TRUE
  BY <1>3, Zenon DEF BusStates
<1> HIDE DEF settling
<1>6. SameGate(settling, ScheduleAdmit(released))
  BY <1>5, TouchFrame, FrameStrands DEF ScheduleAdmit, settling
<1>7. ~Strands(ScheduleAdmit(released))
  BY <1>5, <1>6, Zenon DEF SameGate, Strands, SlotFree
<1> QED
  BY <1>4, <1>7

LEMMA PromptLineHolds ==
  ASSUME NEW b \in BusStates, NEW x
  PROVE  ~Strands(PromptLine(b, x))
<1> DEFINE noted   == NoteFlushTurnStart(b, x)
           fall    == noted.fallback /\ x \notin {Nudge, NudgeNote}
           nudgeIn == [noted EXCEPT !.fallback = fall]
           taken   == TakeAwaitedLine(nudgeIn, x)
           live    == [taken EXCEPT !.streaming = TRUE]
<1>1. noted \in BusStates
  BY NoteFlushTurnStartTyped
<1> HIDE DEF noted
<1>2. fall \in BOOLEAN
  BY <1>1 DEF BusStates
<1> HIDE DEF fall
<1>3. nudgeIn \in BusStates
  BY <1>1, <1>2, Zenon DEF BusStates
<1> HIDE DEF nudgeIn
<1>4. taken \in BusStates
  BY <1>3, TakeAwaitedLineTyped
<1> HIDE DEF taken
<1>5. live \in BusStates /\ live.streaming = TRUE
  BY <1>4, ZenonT(30) DEF BusStates
<1> HIDE DEF live
<1>6. OpenTurn(live) \in BusStates /\ SameGate(live, OpenTurn(live))
  BY <1>5, OpenTurnTyped, OpenTurnFrame, FrameStrands
<1>7. SameGate(OpenTurn(live), Publish(OpenTurn(live)))
  BY <1>6, PublishFrame, FrameStrands
<1>8. ~Strands(Publish(OpenTurn(live)))
  BY <1>5, <1>6, <1>7, Zenon DEF SameGate, Strands, SlotFree
<1> QED
  BY <1>8 DEF PromptLine, live, taken, nudgeIn, fall, noted

LEMMA TakeAwaitedLineSameGate ==
  ASSUME NEW b \in BusStates, NEW x
  PROVE  SameGate(b, TakeAwaitedLine(b, x))
<1> DEFINE c == [b EXCEPT !.awaitLine = None]
<1>1. c \in BusStates
  BY Zenon DEF BusStates, PromptOrNone
<1>2. SameGate(b, c)
  BY Zenon DEF BusStates, SameGate
<1> HIDE DEF c
<1>3. SameGate(b, ApplyPendingOrigin(c))
  BY <1>1, <1>2, ApplyPendingOriginEffect DEF SameGate
<1>4. SameGate(b, b)
  BY DEF SameGate
<1> QED
  BY <1>3, <1>4 DEF TakeAwaitedLine, c

\* An absorbed line frees the gate only by releasing the counted turn.
LEMMA AbsorbedLineFrees ==
  ASSUME NEW b \in BusStates, Gate(b), ~Strands(b), NEW x, Strands(AbsorbedLine(b, x))
  PROVE  b.op # None /\ AbsorbedLine(b, x).op = None
<1> DEFINE fall    == b.fallback /\ x \notin {Nudge, NudgeNote}
           nudgeIn == [b EXCEPT !.fallback = fall]
           taken   == TakeAwaitedLine(nudgeIn, x)
           noted   == NoteFlushTurnStart(taken, x)
           r       == [noted EXCEPT !.pending = 0, !.op = None, !.overlap = FALSE]
           freed   == IF WasUnverified(taken, x) THEN ReleaseTurn(noted) ELSE noted
<1>1. fall \in BOOLEAN
  BY DEF BusStates
<1> HIDE DEF fall
<1>2. nudgeIn \in BusStates /\ Frame(b, nudgeIn)
  BY <1>1, Zenon DEF BusStates, Frame
<1> HIDE DEF nudgeIn
<1>3. taken \in BusStates /\ SameGate(b, taken) /\ Gate(taken)
  <2>1. SameGate(b, nudgeIn) /\ SameGate(nudgeIn, taken)
    BY <1>2, FrameStrands, TakeAwaitedLineSameGate
  <2>2. SameGate(b, taken)
    BY <2>1, Zenon DEF SameGate
  <2> QED
    BY <1>2, <2>2, FrameKeeps, TakeAwaitedLineTyped, TakeAwaitedLineGate
<1> HIDE DEF taken
<1>4. noted \in BusStates /\ SameGate(b, noted) /\ Gate(noted)
  <2>1. Frame(taken, noted)
    BY <1>3, NoteFlushTurnStartFrame
  <2>2. SameGate(b, noted)
    BY <1>3, <2>1, FrameStrands, Zenon DEF SameGate
  <2> QED
    BY <1>3, <2>1, <2>2, NoteFlushTurnStartTyped, FrameKeeps
<1> HIDE DEF noted
<1>5. /\ r \in BusStates
      /\ r.op = None /\ r.queue = noted.queue /\ r.streaming = noted.streaming
      /\ r.nudged = noted.nudged /\ r.parked = noted.parked /\ r.settle = noted.settle
  <2>1. None \in PromptOrNone
    BY DEF PromptOrNone
  <2>2. r \in BusStates
    BY <1>4, <2>1, Zenon DEF BusStates
  <2> QED
    BY <1>4, <2>2, ZenonT(30) DEF BusStates
<1> HIDE DEF r
<1>6. freed \in {noted, Touch(r)}
  BY <1>4 DEF ReleaseTurn, r, Gate, Parts, Counted
<1>7. freed \in BusStates
  BY <1>4, <1>5, <1>6, TouchTyped
<1> HIDE DEF freed
<1>8. AbsorbedLine(b, x) = Publish(freed)
  BY DEF AbsorbedLine, freed, noted, taken, nudgeIn, fall
<1>9. SameGate(freed, Publish(freed))
  BY <1>7, PublishFrame, FrameStrands
<1>10. Strands(freed)
  BY <1>8, <1>9, SameGateStrands
<1>11. ~Strands(noted)
  BY <1>4, SameGateStrands
<1>12. freed = Touch(r) /\ SameGate(r, freed)
  BY <1>5, <1>6, <1>10, <1>11, TouchFrame, FrameStrands
<1>13. freed.op = None
  BY <1>5, <1>12, Zenon DEF SameGate
<1>14. b.op # None
  <2> SUFFICES ASSUME b.op = None PROVE FALSE
    OBVIOUS
  <2>1. SameGate(noted, freed)
    BY <1>4, <1>5, <1>12, Zenon DEF SameGate
  <2> QED
    BY <1>10, <1>11, <2>1, SameGateStrands
<1> QED
  BY <1>8, <1>9, <1>13, <1>14, Zenon DEF SameGate

LEMMA InitLineSame ==
  ASSUME NEW b \in BusStates, NEW session
  PROVE  SameGate(b, InitLine(b, session))
<1> DEFINE i == [b EXCEPT !.init = TRUE]
<1>1. i \in BusStates /\ SameGate(b, i)
  BY Zenon DEF BusStates, SameGate
<1> HIDE DEF i
<1>2. SameGate(b, Publish(b)) /\ SameGate(i, Publish(i))
  BY <1>1, PublishFrame, FrameStrands
<1>3. SameGate(b, Publish(i))
  BY <1>1, <1>2, Zenon DEF SameGate
<1> QED
  BY <1>2, <1>3 DEF InitLine, i

LEMMA CompactLineSame ==
  ASSUME NEW b \in BusStates, NEW gen, NEW nth, NEW tolerant
  PROVE  SameGate(b, CompactLine(b, gen, nth, tolerant))
<1> DEFINE r == ReleaseHold(b, HoldsEndedBy(b, gen, nth, tolerant))
<1>1. r \in BusStates /\ SameGate(b, r)
  BY ReleaseHoldTyped, ReleaseHoldFrame, FrameStrands
<1> HIDE DEF r
<1>2. SameGate(r, Publish(r))
  BY <1>1, PublishFrame, FrameStrands
<1> QED
  BY <1>1, <1>2, Zenon DEF CompactLine, SameGate, r

LEMMA TouchKeepsParking ==
  ASSUME NEW b \in BusStates
  PROVE  Touch(b).parked = b.parked /\ Touch(b).redelivered = b.redelivered
BY ZenonT(30) DEF Touch, BusStates

\* A re-delivery parks the gate, and is remembered.
LEMMA ReissueParks ==
  ASSUME NEW b \in BusStates, NEW xs \in Seq(Texts), xs # <<>>
  PROVE  Reissue(b, xs).parked = TRUE /\ Reissue(b, xs).redelivered # {}
<1> DEFINE parked == [b EXCEPT !.redelivered = @ \cup ToSet(xs), !.parked = TRUE]
           t == Touch(parked)
           Parks(d) == d.parked = TRUE /\ d.redelivered # {}
<1>1. b.redelivered \cup ToSet(xs) \in SUBSET Texts /\ xs[1] \in ToSet(xs)
  BY DEF BusStates, ToSet
<1>2. parked \in BusStates /\ parked.parked = TRUE
  BY <1>1, Zenon DEF BusStates
<1>3. parked.redelivered = b.redelivered \cup ToSet(xs)
  BY <1>1, Zenon DEF BusStates
<1>4. Parks(parked)
  BY <1>1, <1>2, <1>3
<1> HIDE DEF parked
<1>5. t \in BusStates /\ Parks(t)
  <2>1. t.parked = parked.parked /\ t.redelivered = parked.redelivered
    BY <1>2, TouchKeepsParking
  <2> QED
    BY <1>2, <1>4, <2>1, TouchTyped
<1> HIDE DEF t
<1>6. Parks([t EXCEPT !.held = @ \o xs])
  BY <1>5, Zenon DEF BusStates
<1>7. Parks(StreamAll(t, xs))
  <2>1. \A a : Parks([t EXCEPT !.deliveries = a])
    BY <1>5, Zenon DEF BusStates
  <2> QED
    BY <2>1 DEF StreamAll
<1>8. Parks(DeliverAll(parked, xs))
  BY <1>6, <1>7 DEF DeliverAll, t
<1> QED
  BY <1>8 DEF Reissue, parked

LEMMA ArmVerifyParks ==
  ASSUME NEW b \in BusStates, NEW xs
  PROVE  ArmVerify(b, xs).parked = b.parked /\ ArmVerify(b, xs).redelivered = b.redelivered
<1> DEFINE v == [x \in Texts |-> IF x \in xs /\ b.verify[x] = "none" THEN "armed" ELSE b.verify[x]]
           t == Touch(b)
<1>1. t \in BusStates /\ t.parked = b.parked /\ t.redelivered = b.redelivered
  BY TouchTyped, TouchKeepsParking
<1> HIDE DEF t, v
<1>2. [t EXCEPT !.verify = v].parked = b.parked /\ [t EXCEPT !.verify = v].redelivered = b.redelivered
  BY <1>1, Zenon DEF BusStates
<1> QED
  BY <1>2 DEF ArmVerify, t, v

LEMMA NewGenerationParks ==
  ASSUME NEW b \in BusStates, b.parked = TRUE, b.redelivered # {}
  PROVE  NewGeneration(b).parked = TRUE
<1> DEFINE parked   == IF b.redelivered = {} THEN FALSE ELSE b.parked
           unparked == [b EXCEPT !.parked = parked, !.awaitLine = None, !.earlyReleased = FALSE,
                                 !.deadlineReleased = FALSE]
           dropped  == [unparked EXCEPT !.pendingOrigin = None]
<1>1. parked = TRUE
  OBVIOUS
<1> HIDE DEF parked
<1>2. unparked \in BusStates /\ unparked.parked = TRUE
  <2>1. unparked \in BusStates
    <3>1. parked \in BOOLEAN /\ None \in PromptOrNone
      BY <1>1 DEF PromptOrNone
    <3> HIDE <1>1
    <3> QED
      BY <3>1, ZenonT(60) DEF BusStates
  <2>2. unparked.parked = parked
    <3> HIDE <1>1
    <3> QED
      BY ZenonT(60) DEF BusStates
  <2> QED
    BY <1>1, <2>1, <2>2
<1> HIDE DEF unparked
<1>3. dropped.parked = TRUE
  BY <1>2, Zenon DEF BusStates
<1> HIDE DEF dropped
<1>4. ApplyPendingOrigin(unparked).parked = TRUE
  BY <1>2, ApplyPendingOriginEffect
<1> QED
  BY <1>3, <1>4 DEF NewGeneration, dropped, unparked, parked

\* Readiness admits the next prompt, or parks the gate on the texts it sends out.
LEMMA ReadiedAdmits ==
  ASSUME NEW b \in BusStates, Gate(b), NEW newGen, NEW viaBackstop, NEW online
  PROVE  ~Strands(Readied(b, newGen, viaBackstop, online))
<1> DEFINE idle     == [b EXCEPT !.init = FALSE, !.streaming = FALSE]
           older    == {x \in HeldTexts(idle) : idle.hold[x].gen # newGen}
           unheld   == IF newGen # 0 THEN ReleaseHold(idle, older) ELSE idle
           again    == unheld.carried \o unheld.held
           emptied  == [unheld EXCEPT !.carried = <<>>, !.held = <<>>]
           out      == Reissue(emptied, again)
           verified == IF viaBackstop /\ unheld.held # <<>> THEN ArmVerify(out, ToSet(unheld.held)) ELSE out
           next     == IF newGen # 0 THEN NewGeneration(verified) ELSE verified
           renewed  == Touch(next)
<1>1. idle \in BusStates
  BY Zenon DEF BusStates
<1>2. /\ idle.queue = b.queue /\ idle.op = b.op /\ idle.pending = b.pending
      /\ idle.streaming = FALSE /\ idle.nudged = b.nudged /\ idle.parked = b.parked
      /\ idle.settle = b.settle /\ idle.awaitLine = b.awaitLine
      /\ idle.pendingOrigin = b.pendingOrigin /\ idle.deadline = b.deadline
  BY ZenonT(30) DEF BusStates
<1> HIDE DEF idle, older
<1>3. Gate(idle)
  BY <1>2 DEF Gate, Parts, Admissible, Counted, Deferred, Timed, SlotFree
<1>4. unheld \in BusStates /\ Gate(unheld)
  BY <1>1, <1>3, ReleaseHoldTyped, ReleaseHoldFrame, FrameKeeps
<1> HIDE DEF unheld
<1>5. again \in Seq(Texts) /\ <<>> \in Seq(Texts)
  BY <1>4 DEF BusStates
<1>6. emptied \in BusStates /\ Frame(unheld, emptied)
  BY <1>4, <1>5, ZenonT(30) DEF BusStates, Frame
<1> HIDE DEF emptied, again
<1>7. Gate(emptied)
  BY <1>4, <1>6, FrameKeeps
<1>8. out \in BusStates /\ Gate(out)
  BY <1>5, <1>6, <1>7, ReissueTyped, ReissueGate DEF Gate
<1>9. again # <<>> => out.parked = TRUE /\ out.redelivered # {}
  BY <1>5, <1>6, ReissueParks
<1> HIDE DEF out
<1>10. verified \in BusStates /\ Gate(verified)
  BY <1>8, ArmVerifyTyped, ArmVerifyFrame, FrameKeeps
<1>11. again # <<>> => verified.parked = TRUE /\ verified.redelivered # {}
  BY <1>8, <1>9, ArmVerifyParks
<1> HIDE DEF verified
<1>12. next \in BusStates /\ Parts(next)
  BY <1>10, NewGenerationTyped, NewGenerationParts DEF Gate
<1>13. again # <<>> => next.parked = TRUE
  BY <1>10, <1>11, NewGenerationParks
<1> HIDE DEF next
<1>14. renewed \in BusStates /\ Gate(renewed) /\ SameGate(next, renewed)
  BY <1>12, TouchTyped, TouchGate, TouchFrame, FrameStrands
<1>15. again # <<>> => ~Strands(renewed)
  BY <1>13, <1>14, Zenon DEF SameGate, Strands, SlotFree
<1> HIDE DEF renewed
<1>16. ~Strands(AdmitNext(renewed, online))
  BY <1>14, AdmitNextGate
<1> QED
  BY <1>15, <1>16 DEF Readied, renewed, next, verified, out, emptied, again, unheld, older, idle

LEMMA ReplayDoneAdmits ==
  ASSUME NEW b \in BusStates, Gate(b), ~Strands(b), NEW gen \in Nat, NEW session \in Nat, NEW online
  PROVE  ~Strands(ReplayDone(b, gen, session, online))
<1> DEFINE marked == [b EXCEPT !.liveGen = gen, !.liveSession = session, !.ready = TRUE]
           newGen == IF b.liveGen # 0 /\ gen > b.liveGen THEN gen ELSE 0
           r      == Readied(marked, newGen, FALSE, online)
<1>1. marked \in BusStates /\ Frame(b, marked)
  BY ZenonT(30) DEF BusStates, Frame
<1> HIDE DEF marked, newGen
<1>2. r \in BusStates /\ ~Strands(r)
  BY <1>1, FrameKeeps, ReadiedGate, ReadiedAdmits
<1> HIDE DEF r
<1>3. ~Strands(Publish(b)) /\ ~Strands(Publish(r))
  BY <1>2, PublishFrame, FrameKeeps
<1> QED
  BY <1>3 DEF ReplayDone, r, newGen, marked

LEMMA OnHelloAdmits ==
  ASSUME NEW b \in BusStates, ~Strands(b)
  PROVE  ~Strands(OnHello(b))
<1> DEFINE met == [b EXCEPT !.hello = TRUE]
           out == [b EXCEPT !.hello = TRUE, !.carried = <<>>]
           re  == Reissue(out, b.carried)
<1>1. <<>> \in Seq(Texts) /\ b.carried \in Seq(Texts)
  BY DEF BusStates
<1>2. Frame(b, met)
  BY Zenon DEF BusStates, Frame
<1>3. out \in BusStates /\ Frame(b, out)
  BY <1>1, ZenonT(30) DEF BusStates, Frame
<1> HIDE DEF met, out
<1>4. ~Strands(met) /\ ~Strands(out)
  BY <1>2, <1>3, FrameKeeps
<1>5. b.carried = <<>> => re = out
  BY DEF Reissue
<1>6. b.carried # <<>> => re.parked = TRUE
  BY <1>1, <1>3, ReissueParks
<1>7. ~Strands(re)
  BY <1>4, <1>5, <1>6, Zenon DEF Strands, SlotFree
<1> QED
  BY <1>4, <1>7 DEF OnHello, met, out

LEMMA OnCloseAdmits ==
  ASSUME NEW b \in BusStates, Gate(b)
  PROVE  ~Strands(OnClose(b))
<1> DEFINE live    == b.streaming \/ b.op # None
           closed  == CloseDeliveries(DropTurn(b))
           parked  == IF live THEN TRUE ELSE closed.parked
           dropped == [closed EXCEPT !.deadlineReleased = FALSE, !.streaming = FALSE,
                                     !.parked = parked, !.redelivered = {}]
<1>1. closed \in BusStates /\ Parts(closed)
  BY DropTurnTyped, DropTurnEffect, CloseDeliveriesTyped, CloseDeliveriesFrame, FrameKeeps DEF Gate
<1> HIDE DEF closed
<1>2. parked \in BOOLEAN /\ (live => parked = TRUE)
  BY <1>1, Zenon DEF BusStates
<1> HIDE DEF parked
<1>3. dropped \in BusStates /\ dropped.parked = parked
  BY <1>1, <1>2, ZenonT(60) DEF BusStates
<1>4. SameParts(closed, dropped)
  BY <1>1, ZenonT(60) DEF BusStates, SameParts
<1> HIDE DEF dropped, live
<1>5. Touch(dropped) \in BusStates /\ Gate(Touch(dropped)) /\ SameGate(dropped, Touch(dropped))
  BY <1>1, <1>3, <1>4, SamePartsKeeps, TouchTyped, TouchGate, TouchFrame, FrameStrands
<1>6. live => ~Strands(Touch(dropped))
  BY <1>2, <1>3, <1>5, Zenon DEF SameGate, Strands, SlotFree
<1>7. ~Strands(AdmitNext(Touch(dropped), FALSE))
  BY <1>5, AdmitNextGate
<1> QED
  BY <1>6, <1>7 DEF OnClose, dropped, parked, closed, live

LEMMA AbandonAdmits ==
  ASSUME NEW b \in BusStates, Gate(b), NEW online
  PROVE  ~Strands(Abandon(b, online))
<1> DEFINE over    == DropTurn(Publish(b))
           dropped == [over EXCEPT !.streaming = FALSE, !.parked = FALSE, !.redelivered = {},
                                   !.earlyReleased = TRUE]
<1>1. over \in BusStates /\ Parts(over)
  BY PublishTyped, PublishGate, DropTurnTyped, DropTurnEffect DEF Gate
<1> HIDE DEF over
<1>2. dropped \in BusStates
  BY <1>1, ZenonT(60) DEF BusStates
<1>3. SameParts(over, dropped)
  BY <1>1, ZenonT(60) DEF BusStates, SameParts
<1> HIDE DEF dropped
<1>4. Touch(dropped) \in BusStates /\ Gate(Touch(dropped))
  BY <1>1, <1>2, <1>3, SamePartsKeeps, TouchTyped, TouchGate
<1> QED
  BY <1>4, AdmitNextGate DEF Abandon, dropped, over

\* A deadline that finds the gate free has nothing to admit.
LEMMA TurnDeadlineAdmits ==
  ASSUME NEW b \in BusStates, Gate(b), ~Strands(b), NEW online
  PROVE  ~Strands(TurnDeadline(b, online))
<1> DEFINE fired    == [b EXCEPT !.deadline = FALSE]
           released == [fired EXCEPT !.op = None, !.overlap = FALSE, !.pending = 0,
                                     !.nudged = FALSE, !.stash = None,
                                     !.streaming = FALSE, !.parked = FALSE, !.redelivered = {},
                                     !.awaitLine = None, !.pendingOrigin = None,
                                     !.settle = FALSE,
                                     !.deadlineReleased = TRUE, !.earlyReleased = TRUE]
<1>1. fired \in BusStates /\ SameGate(b, fired)
  BY Zenon DEF BusStates, SameGate
<1>2. fired.queue = b.queue
  BY <1>1 DEF SameGate
<1> HIDE DEF fired
<1>3. ~Strands(fired)
  BY <1>1, SameGateStrands
<1>4. None \in PromptOrNone
  BY DEF PromptOrNone
<1>5. released \in BusStates
  BY <1>1, <1>4, ZenonT(120) DEF BusStates
<1>6. /\ released.op = None /\ released.pending = 0 /\ released.nudged = FALSE
      /\ released.streaming = FALSE /\ released.parked = FALSE /\ released.settle = FALSE
      /\ released.pendingOrigin = None /\ released.queue = fired.queue
  BY <1>1, ZenonT(120) DEF BusStates
<1> HIDE DEF released
<1>7. Gate(released)
  BY <1>2, <1>6 DEF Gate, Parts, Admissible, Counted, Deferred, Timed, SlotFree
<1>8. ~Strands(AdmitNext(released, online))
  BY <1>5, <1>7, AdmitNextGate
<1> QED
  BY <1>3, <1>8 DEF TurnDeadline, released, fired

LEMMA SettledAdmits ==
  ASSUME NEW b \in BusStates, Gate(b), NEW online
  PROVE  ~Strands(Settled(b, online))
<1> DEFINE over == [b EXCEPT !.settle = FALSE]
<1>1. over \in BusStates /\ SameParts(b, over)
  BY ZenonT(30) DEF BusStates, SameParts
<1> HIDE DEF over
<1>2. Touch(over) \in BusStates /\ Gate(Touch(over))
  BY <1>1, SamePartsKeeps, TouchTyped, TouchGate DEF Gate
<1> QED
  BY <1>2, AdmitNextGate DEF Settled, over

LEMMA NudgeFallbackSame ==
  ASSUME NEW b \in BusStates
  PROVE  SameGate(b, NudgeFallback(b))
<1> DEFINE off == [b EXCEPT !.fallback = FALSE]
<1>1. off \in BusStates /\ SameGate(b, off)
  BY Zenon DEF BusStates, SameGate
<1> HIDE DEF off
<1>2. Nudge \in Texts
  BY DEF Texts
<1>3. SameGate(off, DeliverOrQueue(off, Nudge))
  BY <1>1, <1>2, DeliverOrQueueFrame, FrameStrands
<1>4. SameGate(b, DeliverOrQueue(off, Nudge)) /\ SameGate(b, b)
  BY <1>1, <1>3, Zenon DEF SameGate
<1> QED
  BY <1>1, <1>4 DEF NudgeFallback, off

LEMMA SpawnedSame ==
  ASSUME NEW b \in BusStates, NEW gen
  PROVE  SameGate(b, Spawned(b, gen))
<1> DEFINE s == [b EXCEPT !.everStream = TRUE, !.init = TRUE, !.ready = FALSE, !.spawnGen = gen]
<1> QED
  BY Zenon DEF BusStates, SameGate, Spawned

--------------------------------------------------------------------------------
(* The steps that strand a prompt *)

Exempt == LateReplyToNudge \/ ReleasedTurnEnds \/ CountedPromptAbsorbed

LEMMA TailLineStrands ==
  ASSUME IInv, ~Strands(bus), NEW g \in 1 .. MaxGen, TailLine(g), Strands(bus')
  PROVE  Exempt
<1> DEFINE l == Head(lines[g])
<1>1. bus \in BusStates /\ Gate(bus) /\ HistoryOK /\ CliTypeOK
  BY IInvParts
<1>2. lines \in [1 .. MaxGen -> Seq(Lines)] /\ lines[g] # <<>>
  BY <1>1 DEF CliTypeOK, TailLine
<1>3. lines[g] \in Seq(Lines)
  BY <1>2
<1>4. l \in Lines
  <2> HIDE DEF Lines
  <2> QED
    BY <1>2, <1>3
<1>5. /\ l.kind \in {"prompt", "absorbed", "end", "init", "replay", "compact"}
      /\ l.kind = "end" => l.id \in Nat /\ l.text \in Says
      /\ l.kind = "replay" => l.gen \in Nat /\ l.session \in Nat
  BY <1>4, LineFields
<1>6. connected \in BOOLEAN
  BY <1>1 DEF HistoryOK
<1>7. CASE l.kind = "prompt"
  <2>1. bus' = PromptLine(bus, l.text)
    BY <1>7 DEF TailLine
  <2> QED
    BY <1>1, <2>1, PromptLineHolds
<1>8. CASE l.kind = "absorbed"
  <2>1. bus' = AbsorbedLine(bus, l.text)
    BY <1>8 DEF TailLine
  <2>2. bus.op # None /\ bus'.op = None
    BY <1>1, <2>1, AbsorbedLineFrees
  <2> QED
    BY <1>8, <2>2 DEF Exempt, CountedPromptAbsorbed, TailsLine
<1>9. CASE l.kind = "end"
  <2>1. bus' = TurnEnd(bus, l.id, l.text, l.inject, connected)
    BY <1>9 DEF TailLine
  <2>2. Stale(bus)
    <3> SUFFICES ASSUME ~Stale(bus) PROVE FALSE
      OBVIOUS
    <3> QED
      BY <1>1, <1>5, <1>6, <1>9, <2>1, TurnEndAdmits DEF Says
  <2> QED
    BY <1>9, <2>2 DEF Exempt, ReleasedTurnEnds, TailsLine
<1>10. CASE l.kind = "init"
  <2>1. bus' = InitLine(bus, l.session)
    BY <1>10 DEF TailLine
  <2> QED
    BY <1>1, <2>1, InitLineSame, SameGateStrands
<1>11. CASE l.kind = "replay"
  <2>1. bus' = ReplayDone(bus, l.gen, l.session, connected)
    BY <1>11 DEF TailLine
  <2> QED
    BY <1>1, <1>5, <1>11, <2>1, ReplayDoneAdmits
<1>12. CASE l.kind = "compact"
  <2>1. PICK tolerant \in BOOLEAN : bus' = CompactLine(bus, l.gen, l.nth, tolerant)
    BY <1>12 DEF TailLine
  <2> QED
    BY <1>1, <2>1, CompactLineSame, SameGateStrands
<1> QED
  BY <1>5, <1>7, <1>8, <1>9, <1>10, <1>11, <1>12

LEMMA ReadFrameStrands ==
  ASSUME IInv, ~Strands(bus), ReadFrame, Strands(bus')
  PROVE  Exempt
<1> DEFINE f == Head(frames)
<1>1. bus \in BusStates /\ Gate(bus) /\ HistoryOK /\ CliTypeOK
  BY IInvParts
<1>2. frames \in Seq(Frames) /\ frames # <<>>
  BY <1>1 DEF CliTypeOK, ReadFrame
<1>3. f \in Frames
  <2> HIDE DEF Frames
  <2> QED
    BY <1>2
<1>4. f.kind \in {"reply", "cancel"}
  <2>1. CASE f \in [kind : {"reply"}, about : SUBSET Prompts, named : Chats \cup {None}]
    BY <2>1
  <2>2. CASE f \in [kind : {"cancel"}]
    BY <2>2
  <2> QED
    BY <1>3, <2>1, <2>2 DEF Frames
<1>5. CASE f.kind = "reply"
  <2>1. bus' = IngestReply(bus, f.named, "reply")
    BY <1>5 DEF ReadFrame
  <2>2. bus.nudged /\ ~bus'.nudged
    BY <1>1, <2>1, IngestReplyFrees
  <2> QED
    BY <2>2 DEF Exempt, LateReplyToNudge
<1>6. CASE f.kind = "cancel"
  <2>1. bus' = Abandon(bus, connected)
    BY <1>6 DEF ReadFrame
  <2> QED
    BY <1>1, <2>1, AbandonAdmits
<1> QED
  BY <1>4, <1>5, <1>6

\* What the PTY layer reports, a verify and a hold leave the gate alone.
LEMMA PtyMovesHold == ASSUME IInv, ~Strands(bus), PtyMoves PROVE ~Strands(bus')
<1>1. bus \in BusStates /\ Gate(bus) /\ HistoryOK /\ CliTypeOK
  BY IInvParts
<1>2. PICK i \in DOMAIN bus.deliveries : PtyType(i) \/ PtySettle(i)
  BY DEF PtyMoves
<1>3. CASE PtyType(i)
  <2> DEFINE ds == [bus.deliveries EXCEPT ![i].typed = TRUE]
  <2>1. bus' = [bus EXCEPT !.deliveries = ds]
    BY <1>3 DEF PtyType
  <2> HIDE DEF ds
  <2>2. SameGate(bus, bus')
    BY <1>1, <2>1, Zenon DEF BusStates, SameGate
  <2> QED
    BY <2>2, SameGateStrands
<1>4. CASE PtySettle(i)
  <2>1. cli.compactions \in Nat
    BY <1>1 DEF CliTypeOK, CliStates
  <2>2. PICK outcome \in Verdicts : bus' = Verdict(bus, i, outcome, cli.compactions)
    BY <1>4 DEF PtySettle
  <2>3. Frame(bus, bus')
    BY <1>1, <1>2, <2>1, <2>2, VerdictFrame
  <2> QED
    BY <2>3, FrameStrands, SameGateStrands
<1> QED
  BY <1>2, <1>3, <1>4

LEMMA NextStrands == ASSUME IInv, ~Strands(bus), [Next]_vars, Strands(bus') PROVE Exempt
<1>1. bus \in BusStates /\ Gate(bus) /\ HistoryOK /\ CliTypeOK
  BY IInvParts
<1>2. CASE UNCHANGED bus
  BY <1>2
<1>3. ASSUME NEW p \in Prompts, Send(p) PROVE FALSE
  BY <1>1, <1>3, SendPromptAdmits DEF Send
<1>4. CASE PtyMoves
  BY <1>4, PtyMovesHold
<1>5. ASSUME NEW g \in 1 .. MaxGen, TailLine(g) PROVE Exempt
  BY <1>5, TailLineStrands
<1>6. CASE ReadFrame
  BY <1>6, ReadFrameStrands
<1>7. CASE Drop
  BY <1>1, <1>7, OnCloseAdmits DEF Drop
<1>8. CASE Hello
  BY <1>1, <1>8, OnHelloAdmits DEF Hello
<1>9. CASE Kill
  <2>1. bus' = OnClose(bus) \/ bus' = bus
    BY <1>9 DEF Kill
  <2> QED
    BY <1>1, <2>1, OnCloseAdmits
<1>10. CASE Respawn
  <2>1. PICK gen : bus' = Spawned(bus, gen)
    BY <1>10 DEF Respawn
  <2> QED
    BY <1>1, <2>1, SpawnedSame, SameGateStrands
<1>11. CASE SettleTimer
  BY <1>1, <1>11, SettledAdmits DEF SettleTimer
<1>12. CASE DeadlineTimer
  BY <1>1, <1>12, TurnDeadlineAdmits DEF DeadlineTimer
<1>13. CASE BackstopFires
  BY <1>1, <1>13, ReadiedAdmits DEF BackstopFires, InitBackstop
<1>14. CASE FallbackFires
  BY <1>1, <1>14, NudgeFallbackSame, SameGateStrands DEF FallbackFires
<1>15. ASSUME NEW x \in Texts, VerifyFires(x) \/ HoldDeadline(x) PROVE FALSE
  <2>1. \/ bus' = VerifyTimer(bus, x) /\ bus.verify[x] \in {"armed", "graced"}
        \/ bus' = ReleaseHold(bus, {x})
    BY <1>15 DEF VerifyFires, HoldDeadline
  <2>2. Frame(bus, bus')
    BY <1>1, <2>1, VerifyTimerFrame, ReleaseHoldFrame
  <2> QED
    BY <2>2, FrameStrands, SameGateStrands
<1>16. (\E g \in 1 .. MaxGen : StopTailer(g)) \/ CliMoves => UNCHANGED bus
  BY DEF StopTailer, CliMoves, coreVars
<1>17. UNCHANGED vars => UNCHANGED bus
  BY DEF vars, coreVars
<1>18. CASE Next
  BY <1>2, <1>3, <1>4, <1>5, <1>6, <1>7, <1>8, <1>9, <1>10, <1>11, <1>12, <1>13, <1>14, <1>15,
     <1>16, <1>18 DEF Next
<1> QED
  BY <1>2, <1>17, <1>18

--------------------------------------------------------------------------------
(* The theorems *)

\* The bus, the histories and the CLI keep to their types: no handler leaves a
\* map or a slot of core.ts in a state no other handler expects.
THEOREM CoreTypes == Spec => []TypeOK
<1>1. IInv => TypeOK
  BY DEF IInv
<1> QED
  BY <1>1, CoreInvariant, PTL

\* `pendingTurns` and `currentOperation` never disagree, and at most one turn is
\* counted, whatever handlers interleave, drops and restarts included (#239).
THEOREM CountsOneTurn == Spec => []OneCountedTurn
<1>1. IInv => OneCountedTurn
  BY DEF IInv, Gate, Parts, Counted, OneCountedTurn
<1> QED
  BY <1>1, CoreInvariant, PTL

\* No handler of core.ts leaves the gate held without the idle deadline that
\* frees it (#372).
THEOREM GateIsTimed == Spec => []HeldGateHasDeadline
<1>1. IInv => HeldGateHasDeadline
  BY DEF IInv, Gate, Timed, HeldGateHasDeadline
<1> QED
  BY <1>1, CoreInvariant, PTL

\* An origin is deferred only for the prompt whose own transcript line is awaited,
\* so that line, and no other, gives its chat the routing slot (#239).
THEOREM DeferredIsAwaited == Spec => []DeferredOriginIsAwaited
<1>1. IInv => DeferredOriginIsAwaited
  BY DEF IInv, Gate, Parts, Deferred, DeferredOriginIsAwaited
<1> QED
  BY <1>1, CoreInvariant, PTL

\* Of the dozen places of core.ts that free the gate, three leave a prompt waiting
\* before it, and no other ever does: the reply that settles a reminder, the
\* terminator of a turn released early, the absorption of the counted prompt.
THEOREM OnlyThreeStrand == Spec => StrandedByThreeSteps
<1>1. IInv /\ [Next]_vars /\ NoStrandedPrompt /\ ~NoStrandedPrompt' =>
        LateReplyToNudge \/ ReleasedTurnEnds \/ CountedPromptAbsorbed
  <2>1. (NoStrandedPrompt <=> ~Strands(bus)) /\ (NoStrandedPrompt' <=> ~Strands(bus'))
    BY DEF NoStrandedPrompt, Strands
  <2> QED
    BY <2>1, NextStrands DEF Exempt
<1> QED
  BY <1>1, CoreInvariant, PTL DEF Spec, StrandedByThreeSteps
================================================================================
