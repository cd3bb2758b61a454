--------------------------- MODULE PromptLanesProofs ---------------------------
(***************************************************************************)
(* Proofs about the prompt queue, for any chats, prompts and caps: what    *)
(* PromptLanes keeps invariant, that it implements FairLanes, and that the *)
(* preview shows the order of service.                                     *)
(***************************************************************************)
EXTENDS PromptLanes, PromptQueueProofs, SequenceLemmas

\* Every prompt that came and did not leave waits once, in its own chat's lane.
WaitsOnce ==
  /\ OwnLanes(queue)
  /\ Distinct(arrived)
  /\ ToSet(arrived) = Queued(queue)

\* A chat that does not wait was overtaken by nobody.
FreshTurn == \A c \in Chats : c \notin queue.keys => overtook[c] = {}

\* The inductive invariant: OvertakenAtMostOnce needs the chats that come back
\* to wait to start afresh, and what is taken out of the lanes to be there.
LanesInv ==
  /\ LaneTypeOK
  /\ LanesMatchRotation
  /\ WaitsOnce
  /\ FreshTurn
  /\ OvertakenAtMostOnce

LEMMA MatchedIsRotation == LanesMatchRotation <=> Matched(queue)
BY DEF LanesMatchRotation, Matched, Distinct

LEMMA LanesInit == Init => LanesInv
<1> SUFFICES ASSUME Init PROVE LanesInv
  OBVIOUS
<1>1. LaneTypeOK
  BY EmptyQueueTyped DEF Init, LaneTypeOK
<1>2. LanesMatchRotation
  BY EmptyQueueMatched, MatchedIsRotation DEF Init
<1>3. WaitsOnce
  BY EmptyQueueMatched DEF Init, WaitsOnce, Distinct, ToSet, Queued, EmptyQueue
<1>4. FreshTurn /\ OvertakenAtMostOnce
  BY DEF Init, FreshTurn, OvertakenAtMostOnce, EmptyQueue
<1> QED
  BY <1>1, <1>2, <1>3, <1>4 DEF LanesInv

\* What waits after a prompt was taken out.
LEMMA TakenOut ==
  ASSUME LanesInv, NEW p \in Queued(queue)
  PROVE  /\ Taken(arrived, p) \in Seq(Prompts)
         /\ Distinct(Taken(arrived, p))
         /\ ToSet(Taken(arrived, p)) = Queued(queue) \ {p}
<1>1. arrived \in Seq(Prompts) /\ Distinct(arrived) /\ p \in ToSet(arrived)
  BY DEF LanesInv, LaneTypeOK, WaitsOnce
<1>2. Contains(arrived, p)
  BY <1>1 DEF Contains, ToSet
<1> QED
  BY <1>1, <1>2, RemoveDistinct DEF Taken, LanesInv, WaitsOnce

LEMMA EnqueueStep ==
  ASSUME LanesInv, NEW p \in Prompts, EnqueuePrompt(p)
  PROVE  LanesInv'
<1> DEFINE c == Chat[p]
<1>1. /\ queue \in Queues /\ Matched(queue) /\ OwnLanes(queue)
      /\ c \in Chats /\ queue.lanes[c] \in Seq(Prompts)
  BY MatchedIsRotation, ChatAssumption DEF LanesInv, LaneTypeOK, WaitsOnce, Queues
<1>2. queue' = Enqueue(queue, p) /\ queue' \in Queues /\ p \notin Queued(queue)
  BY <1>1, EnqueueTyped DEF EnqueuePrompt
<1>3. /\ Refuses(queue, p) => queue' = queue
      /\ ~Refuses(queue, p) =>
           /\ queue'.lanes = [queue.lanes EXCEPT ![c] = Append(@, p)]
           /\ queue'.order = IF c \in queue.keys THEN queue.order ELSE Append(queue.order, c)
           /\ Matched(queue')
  BY <1>1, <1>2, EnqueueEffect
<1>4. answer' \in [call : {"none", "queued", "refused", "taken", "withdrawn"},
                   prompt : Prompts \cup {NoPrompt}]
  BY DEF EnqueuePrompt
<1>5. CASE Refuses(queue, p)
  BY <1>3, <1>4, <1>5
     DEF EnqueuePrompt, LanesInv, LaneTypeOK, LanesMatchRotation, WaitsOnce, FreshTurn, OvertakenAtMostOnce
<1>6. CASE ~Refuses(queue, p)
  <2> DEFINE lane == Append(queue.lanes[c], p)
  <2>1. arrived' = Append(arrived, p) /\ arrived \in Seq(Prompts) /\ overtook' = overtook
    BY <1>6 DEF EnqueuePrompt, LanesInv, LaneTypeOK
  <2>2. p \notin ToSet(queue.lanes[c]) /\ p \notin ToSet(arrived)
    BY <1>1, <1>2 DEF Queued, LanesInv, WaitsOnce
  <2>3. /\ lane \in Seq(Prompts) /\ Distinct(lane)
        /\ ToSet(lane) = ToSet(queue.lanes[c]) \cup {p}
    BY <1>1, <2>2, AppendDistinct DEF OwnLanes
  <2>4. queue'.lanes = [queue.lanes EXCEPT ![c] = lane] /\ \A x \in ToSet(lane) : Chat[x] = c
    BY <1>1, <1>3, <1>6, <2>3 DEF OwnLanes
  <2> HIDE DEF lane, c
  <2>5. /\ OwnLanes(queue')
        /\ Queued(queue') = {x \in Queued(queue) : Chat[x] # c} \cup ToSet(lane)
    BY <1>1, <1>2, <2>3, <2>4, LaneChange
  <2>6. ToSet(queue.lanes[c]) = {x \in Queued(queue) : Chat[x] = c}
    BY <1>1 DEF OwnLanes, Queued
  <2>7. Queued(queue') = Queued(queue) \cup {p}
    BY <2>3, <2>5, <2>6
  <2>8. Distinct(arrived') /\ ToSet(arrived') = Queued(queue') /\ arrived' \in Seq(Prompts)
    BY <2>1, <2>2, <2>7, AppendDistinct DEF LanesInv, WaitsOnce
  <2>9. LaneTypeOK'
    BY <1>2, <1>4, <2>1, <2>8 DEF LanesInv, LaneTypeOK
  <2>10. LanesMatchRotation' /\ WaitsOnce'
    BY <1>3, <1>6, <2>5, <2>8 DEF LanesMatchRotation, Matched, Distinct, WaitsOnce
  <2>11. queue'.keys = queue.keys \cup {c}
    <3>1. \A e \in Chats : e \in queue'.keys <=> e \in queue.keys \cup {c}
      <4>1. lane # <<>>
        BY <2>3 DEF ToSet
      <4> QED
        BY <1>1, <1>3, <1>6, <2>4, <4>1 DEF Matched, Queues, c
    <3> QED
      BY <1>1, <1>2, <3>1 DEF Queues
  <2>12. FreshTurn'
    BY <2>1, <2>11 DEF LanesInv, FreshTurn
  <2>13. OvertakenAtMostOnce'
    <3> SUFFICES ASSUME NEW d \in queue'.keys, NEW i \in DOMAIN queue'.order, NEW j \in DOMAIN queue'.order,
                        queue'.order[i] \in overtook[d], queue'.order[j] = d
                 PROVE  j < i
      BY <2>1 DEF OvertakenAtMostOnce
    <3>1. queue.order \in Seq(Chats) /\ ToSet(queue.order) = queue.keys
      BY <1>1 DEF Matched, Queues
    <3>2. CASE c \in queue.keys
      BY <1>3, <1>6, <2>11, <3>2 DEF LanesInv, OvertakenAtMostOnce, c
    <3>3. CASE c \notin queue.keys
      <4>1. overtook[c] = {}
        BY <1>1, <3>3 DEF LanesInv, FreshTurn, c
      <4>2. d # c /\ d \in queue.keys
        BY <2>11, <4>1
      <4>3. queue'.order = Append(queue.order, c)
        BY <1>3, <1>6, <3>3 DEF c
      <4>4. /\ DOMAIN queue'.order = 1 .. Len(queue.order) + 1
            /\ \A k \in 1 .. Len(queue.order) : queue'.order[k] = queue.order[k]
            /\ queue'.order[Len(queue.order) + 1] = c
        BY <1>1, <3>1, <4>3
      <4>5. j \in 1 .. Len(queue.order) /\ queue.order[j] = d
        BY <4>2, <4>4
      <4>6. CASE i = Len(queue.order) + 1
        BY <3>1, <4>5, <4>6
      <4>7. CASE i \in 1 .. Len(queue.order)
        BY <3>1, <4>2, <4>4, <4>5, <4>7 DEF LanesInv, OvertakenAtMostOnce
      <4> QED
        BY <3>1, <4>4, <4>6, <4>7
    <3> QED
      BY <3>2, <3>3
  <2> QED
    BY <2>9, <2>10, <2>12, <2>13 DEF LanesInv
<1> QED
  BY <1>5, <1>6

LEMMA DequeueStep ==
  ASSUME LanesInv, DequeuePrompt
  PROVE  LanesInv'
<1> DEFINE c == ServedChat(queue)
           p == NextPrompt(queue)
           lane == Tail(queue.lanes[c])
<1>1. /\ queue \in Queues /\ Matched(queue) /\ OwnLanes(queue) /\ HasQueue(queue)
      /\ queue' = Dequeue(queue) /\ queue' \in Queues
  BY MatchedIsRotation, DequeueTyped DEF LanesInv, LaneTypeOK, WaitsOnce, DequeuePrompt
<1>2. /\ queue.order \in Seq(Chats) /\ Len(queue.order) > 0
      /\ Servable(queue) # {}
      /\ c = queue.order[1] /\ c \in queue.keys /\ c \in Chats
      /\ queue.lanes[c] \in Seq(Prompts) /\ queue.lanes[c] # <<>>
  BY <1>1, ServesFront, ServedIndexFound
<1>3. /\ queue'.lanes = [queue.lanes EXCEPT ![c] = lane]
      /\ queue'.order = IF lane = <<>> THEN Tail(queue.order) ELSE Append(Tail(queue.order), c)
      /\ queue'.keys = queue.keys \ (IF lane = <<>> THEN {c} ELSE {})
      /\ Matched(queue')
  BY <1>1, DequeueEffect
<1>4. /\ answer' = [call |-> "taken", prompt |-> p]
      /\ arrived' = Taken(arrived, p)
      /\ overtook' = [d \in Chats |-> IF d # c /\ queue.lanes[d] # <<>> THEN overtook[d] \cup {c} ELSE {}]
  BY <1>2 DEF DequeuePrompt
<1>5. p = Head(queue.lanes[c]) /\ p \in Prompts
  BY <1>1, <1>2, ServedIndexFound DEF NextPrompt
<1> HIDE DEF c, p
<1>6. /\ lane \in Seq(Prompts) /\ Distinct(lane) /\ p \in ToSet(queue.lanes[c])
      /\ ToSet(lane) = ToSet(queue.lanes[c]) \ {p}
  BY <1>1, <1>2, <1>5, TailDistinct DEF OwnLanes
<1> HIDE DEF lane
<1>7. /\ OwnLanes(queue')
      /\ Queued(queue') = {x \in Queued(queue) : Chat[x] # c} \cup ToSet(lane)
  <2>1. \A x \in ToSet(lane) : Chat[x] = c
    BY <1>1, <1>2, <1>6 DEF OwnLanes
  <2> QED
    BY <1>1, <1>2, <1>3, <1>6, <2>1, LaneChange
<1>8. p \in Queued(queue) /\ Queued(queue') = Queued(queue) \ {p}
  <2>1. ToSet(queue.lanes[c]) = {x \in Queued(queue) : Chat[x] = c}
    BY <1>1, <1>2 DEF OwnLanes, Queued
  <2> QED
    BY <1>6, <1>7, <2>1
<1>9. arrived' \in Seq(Prompts) /\ Distinct(arrived') /\ ToSet(arrived') = Queued(queue')
  BY <1>4, <1>8, TakenOut
<1>10. LaneTypeOK'
  BY <1>1, <1>2, <1>4, <1>5, <1>9 DEF LanesInv, LaneTypeOK
<1>11. LanesMatchRotation' /\ WaitsOnce'
  BY <1>3, <1>7, <1>9 DEF LanesMatchRotation, Matched, Distinct, WaitsOnce
<1>12. FreshTurn'
  BY <1>1, <1>2, <1>3, <1>4 DEF LanesInv, FreshTurn, Matched
<1>13. OvertakenAtMostOnce'
  <2> SUFFICES ASSUME NEW d \in queue'.keys, NEW i \in DOMAIN queue'.order, NEW j \in DOMAIN queue'.order,
                      queue'.order[i] \in overtook'[d], queue'.order[j] = d
               PROVE  j < i
    BY DEF OvertakenAtMostOnce
  <2>1. d \in queue.keys /\ d \in Chats
    BY <1>1, <1>3 DEF Queues
  <2>2. d # c
    BY <1>4, <2>1
  <2>3. overtook'[d] \subseteq overtook[d] \cup {c}
    BY <1>4, <2>1
  <2> DEFINE n == Len(queue.order)
             t == Tail(queue.order)
             a == Append(t, c)
  <2>4. /\ t \in Seq(Chats) /\ Len(t) = n - 1 /\ n \in Nat /\ n > 0
        /\ \A k \in 1 .. n - 1 : t[k] = queue.order[k + 1]
    BY <1>2
  <2> HIDE DEF t
  <2>5. /\ Len(a) = n /\ a \in Seq(Chats)
        /\ \A k \in 1 .. n - 1 : a[k] = t[k]
        /\ a[n] = c
    BY <1>2, <2>4
  <2> HIDE DEF a
  <2>6. queue'.order = IF lane = <<>> THEN t ELSE a
    BY <1>3 DEF t, a
  <2> HIDE DEF n
  <2>7. /\ \A k \in DOMAIN queue'.order \cap 1 .. n - 1 : queue'.order[k] = queue.order[k + 1]
        /\ DOMAIN queue'.order \subseteq 1 .. n
        /\ n \in DOMAIN queue'.order => queue'.order[n] = c
        /\ n \notin DOMAIN queue'.order => \A k \in DOMAIN queue'.order : k \in 1 .. n - 1
    BY <2>4, <2>5, <2>6
  <2>8. j \in 1 .. n - 1 /\ queue.order[j + 1] = d
    BY <2>2, <2>4, <2>7
  <2>9. CASE i = n
    BY <2>4, <2>8, <2>9
  <2>10. CASE i # n
    <3>1. i \in 1 .. n - 1 /\ queue'.order[i] = queue.order[i + 1]
      BY <2>4, <2>7, <2>10
    <3>2. queue.order[i + 1] # c
      <4>1. i + 1 \in DOMAIN queue.order /\ 1 \in DOMAIN queue.order /\ i + 1 # 1
        BY <1>2, <2>4, <3>1 DEF n
      <4> QED
        BY <1>1, <1>2, <4>1 DEF Matched, Distinct
    <3>3. queue.order[i + 1] \in overtook[d]
      BY <2>3, <3>1, <3>2
    <3>4. i + 1 \in DOMAIN queue.order /\ j + 1 \in DOMAIN queue.order
      BY <1>2, <2>4, <2>8, <3>1 DEF n
    <3>5. j + 1 < i + 1
      BY <2>1, <2>8, <3>3, <3>4 DEF LanesInv, OvertakenAtMostOnce
    <3> QED
      BY <2>4, <2>8, <3>1, <3>5
  <2> QED
    BY <2>9, <2>10
<1> QED
  BY <1>10, <1>11, <1>12, <1>13 DEF LanesInv

LEMMA WithdrawStep ==
  ASSUME LanesInv, NEW p \in Prompts, WithdrawPrompt(p)
  PROVE  LanesInv'
<1> DEFINE c    == Chat[p]
           at   == FirstAt(queue.lanes[c], p)
           lane == RemoveAt(queue.lanes[c], at)
<1>1. /\ queue \in Queues /\ Matched(queue) /\ OwnLanes(queue)
      /\ c \in Chats /\ queue.lanes[c] \in Seq(Prompts)
      /\ queue.order \in Seq(Chats) /\ queue.keys \in SUBSET Chats
  BY MatchedIsRotation, ChatAssumption DEF LanesInv, LaneTypeOK, WaitsOnce, Queues
<1>2. p \in Queued(queue) /\ queue' = Withdraw(queue, p)
  BY DEF WithdrawPrompt
<1>3. p \in ToSet(queue.lanes[c])
  BY <1>1, <1>2 DEF OwnLanes, Queued
<1>4. Contains(queue.lanes[c], p)
  BY <1>1, <1>3 DEF Contains, ToSet
<1>5. /\ lane \in Seq(Prompts) /\ queue' \in Queues
      /\ queue'.lanes = [queue.lanes EXCEPT ![c] = lane]
      /\ queue'.order = IF lane = <<>> /\ Contains(queue.order, c)
                          THEN RemoveAt(queue.order, FirstAt(queue.order, c)) ELSE queue.order
      /\ Matched(queue')
  BY <1>1, <1>2, <1>4, WithdrawEffect
<1>6. Distinct(lane) /\ ToSet(lane) = ToSet(queue.lanes[c]) \ {p}
  BY <1>1, <1>4, RemoveDistinct DEF OwnLanes
<1> HIDE DEF c, lane
<1>7. /\ OwnLanes(queue')
      /\ Queued(queue') = {x \in Queued(queue) : Chat[x] # c} \cup ToSet(lane)
  <2>1. \A x \in ToSet(lane) : Chat[x] = c
    BY <1>1, <1>6 DEF OwnLanes
  <2> QED
    BY <1>1, <1>5, <1>6, <2>1, LaneChange
<1>8. Queued(queue') = Queued(queue) \ {p}
  <2>1. ToSet(queue.lanes[c]) = {x \in Queued(queue) : Chat[x] = c}
    BY <1>1 DEF OwnLanes, Queued
  <2> QED
    BY <1>3, <1>6, <1>7, <2>1
<1>9. arrived' \in Seq(Prompts) /\ Distinct(arrived') /\ ToSet(arrived') = Queued(queue')
  BY <1>2, <1>8, TakenOut DEF WithdrawPrompt
<1>10. overtook' = IF lane = <<>> THEN [overtook EXCEPT ![c] = {}] ELSE overtook
  <2>1. queue'.lanes[c] = lane
    BY <1>1, <1>5 DEF Queues
  <2> QED
    BY <2>1 DEF WithdrawPrompt, c
<1>11. LaneTypeOK'
  BY <1>1, <1>5, <1>9, <1>10 DEF LanesInv, LaneTypeOK, WithdrawPrompt
<1>12. LanesMatchRotation' /\ WaitsOnce'
  BY <1>5, <1>7, <1>9 DEF LanesMatchRotation, Matched, Distinct, WaitsOnce
<1>13. queue'.keys = IF lane = <<>> THEN queue.keys \ {c} ELSE queue.keys
  <2>1. c \in queue.keys
    BY <1>1, <1>3 DEF Matched, ToSet
  <2>2. \A e \in Chats : queue'.lanes[e] = IF e = c THEN lane ELSE queue.lanes[e]
    BY <1>1, <1>5 DEF Queues
  <2>3. \A e \in Chats : e \in queue'.keys <=> e \in (IF lane = <<>> THEN queue.keys \ {c} ELSE queue.keys)
    BY <1>1, <1>5, <2>1, <2>2 DEF Matched
  <2>4. queue'.keys \in SUBSET Chats
    BY <1>5 DEF Queues
  <2> QED
    BY <1>1, <2>3, <2>4
<1>14. FreshTurn'
  <2>1. overtook \in [Chats -> SUBSET Chats]
    BY DEF LanesInv, LaneTypeOK
  <2> QED
    BY <1>10, <1>13, <2>1 DEF LanesInv, FreshTurn
<1>15. OvertakenAtMostOnce'
  <2> SUFFICES ASSUME NEW d \in queue'.keys, NEW i \in DOMAIN queue'.order, NEW j \in DOMAIN queue'.order,
                      queue'.order[i] \in overtook'[d], queue'.order[j] = d
               PROVE  j < i
    BY DEF OvertakenAtMostOnce
  <2>1. overtook \in [Chats -> SUBSET Chats] /\ d \in queue.keys /\ d \in Chats
    BY <1>1, <1>13 DEF LanesInv, LaneTypeOK
  <2>2. queue'.order[i] \in overtook[d]
    BY <1>1, <1>10, <2>1
  <2>3. CASE lane = <<>> /\ Contains(queue.order, c)
    <3> DEFINE k == FirstAt(queue.order, c)
               r == RemoveAt(queue.order, k)
    <3>1. k \in 1 .. Len(queue.order)
      BY <1>1, <2>3, FirstAtFinds
    <3>2. /\ Len(r) = Len(queue.order) - 1 /\ r \in Seq(Chats)
          /\ \A m \in 1 .. Len(queue.order) - 1 : r[m] = IF m < k THEN queue.order[m] ELSE queue.order[m + 1]
      BY <1>1, <3>1, RemoveAtSeq
    <3> HIDE DEF k, r
    <3>3. queue'.order = r
      BY <1>5, <2>3 DEF r, k
    <3>4. i \in 1 .. Len(queue.order) - 1 /\ j \in 1 .. Len(queue.order) - 1
      BY <1>1, <3>2, <3>3
    <3> DEFINE Old(m) == IF m < k THEN m ELSE m + 1
    <3>5. /\ Old(i) \in DOMAIN queue.order /\ Old(j) \in DOMAIN queue.order
          /\ queue.order[Old(i)] = r[i] /\ queue.order[Old(j)] = r[j]
      BY <1>1, <3>1, <3>2, <3>4
    <3>6. Old(j) < Old(i)
      BY <2>1, <2>2, <3>3, <3>5 DEF LanesInv, OvertakenAtMostOnce
    <3> QED
      BY <1>1, <3>1, <3>4, <3>6
  <2>4. CASE ~(lane = <<>> /\ Contains(queue.order, c))
    <3>1. queue'.order = queue.order
      BY <1>5, <2>4
    <3> QED
      BY <2>1, <2>2, <3>1 DEF LanesInv, OvertakenAtMostOnce
  <2> QED
    BY <2>3, <2>4
<1> QED
  BY <1>11, <1>12, <1>14, <1>15 DEF LanesInv

LEMMA LanesStep == LanesInv /\ [Next]_laneVars => LanesInv'
<1> SUFFICES ASSUME LanesInv, [Next]_laneVars PROVE LanesInv'
  OBVIOUS
<1>1. ASSUME NEW p \in Prompts, EnqueuePrompt(p) PROVE LanesInv'
  BY <1>1, EnqueueStep
<1>2. CASE DequeuePrompt
  BY <1>2, DequeueStep
<1>3. ASSUME NEW p \in Prompts, WithdrawPrompt(p) PROVE LanesInv'
  BY <1>3, WithdrawStep
<1>4. CASE UNCHANGED laneVars
  BY <1>4 DEF laneVars, LanesInv, LaneTypeOK, LanesMatchRotation, WaitsOnce, FreshTurn, OvertakenAtMostOnce
<1> QED
  BY <1>1, <1>2, <1>3, <1>4 DEF Next

\* The inductive invariant holds of every behaviour of the queue.
THEOREM LanesInvariant == Spec => []LanesInv
BY LanesInit, LanesStep, PTL DEF Spec

\* Every operation leaves a queue of the right type (core.ts 1421-1510).
THEOREM LaneTypes == Spec => []LaneTypeOK
<1>1. LanesInv => LaneTypeOK
  BY DEF LanesInv
<1> QED
  BY <1>1, LanesInvariant, PTL

\* The rotation names every lane exactly once and no lane is empty, whatever
\* refusals, withdrawals and admissions came before (dropLane, core.ts 1466).
THEOREM RotationMatchesLanes == Spec => []LanesMatchRotation
<1>1. LanesInv => LanesMatchRotation
  BY DEF LanesInv
<1> QED
  BY <1>1, LanesInvariant, PTL

\* No chat is served twice while another one waits (dequeuePrompt, core.ts 1479).
THEOREM OvertakenOnce == Spec => []OvertakenAtMostOnce
<1>1. LanesInv => OvertakenAtMostOnce
  BY DEF LanesInv
<1> QED
  BY <1>1, LanesInvariant, PTL

--------------------------------------------------------------------------------
(* What waits is what came, in the order it came *)

\* Wherever x stands before y in s.
Before(s, x, y) == \E i, j \in DOMAIN s : i < j /\ s[i] = x /\ s[j] = y

\* A lane has its prompts in the order they came in.
InOrder(lane, came) == \A i, j \in DOMAIN lane : i < j => Before(came, lane[i], lane[j])

\* What NothingLostNothingTwice says beyond WaitsOnce: order and room.
Arrivals ==
  /\ \A c \in Chats : InOrder(queue.lanes[c], arrived) /\ Len(queue.lanes[c]) <= LaneCap
  /\ Len(arrived) <= AgentCap

\* Taking an element out leaves the others in their order.
LEMMA RemovalKeepsOrder ==
  ASSUME NEW S, NEW s \in Seq(S), NEW k \in 1 .. Len(s), NEW x, NEW y,
         Before(s, x, y), x # s[k], y # s[k]
  PROVE  Before(RemoveAt(s, k), x, y)
<1> DEFINE r == RemoveAt(s, k)
           New(m) == IF m < k THEN m ELSE m - 1
<1>1. /\ r \in Seq(S) /\ Len(r) = Len(s) - 1
      /\ \A j \in 1 .. Len(s) - 1 : r[j] = IF j < k THEN s[j] ELSE s[j + 1]
  BY RemoveAtSeq
<1> HIDE DEF r
<1>2. PICK i, j \in 1 .. Len(s) : i < j /\ s[i] = x /\ s[j] = y
  BY DEF Before
<1>3. i # k /\ j # k
  BY <1>2
<1>4. ASSUME NEW m \in 1 .. Len(s), m # k
      PROVE  New(m) \in 1 .. Len(s) - 1 /\ r[New(m)] = s[m]
  <2>1. CASE m < k
    BY <1>1, <2>1
  <2>2. CASE m > k
    <3>1. m - 1 \in 1 .. Len(s) - 1 /\ ~(m - 1 < k) /\ (m - 1) + 1 = m
      BY <2>2
    <3> QED
      BY <1>1, <2>2, <3>1
  <2> QED
    BY <1>4, <2>1, <2>2
<1>5. New(i) < New(j)
  BY <1>2, <1>3
<1>6. /\ New(i) \in DOMAIN r /\ New(j) \in DOMAIN r
      /\ r[New(i)] = x /\ r[New(j)] = y
  BY <1>1, <1>2, <1>3, <1>4
<1> QED
  BY <1>5, <1>6 DEF Before, r

\* The places of a lane keep their order when one of its prompts leaves both it
\* and the arrivals.
LEMMA RemovalStaysInOrder ==
  ASSUME NEW lane \in Seq(Prompts), Distinct(lane), NEW k \in 1 .. Len(lane),
         NEW came \in Seq(Prompts), NEW p \in Prompts, Contains(came, p),
         InOrder(lane, came), lane[k] = p
  PROVE  InOrder(RemoveAt(lane, k), RemoveAt(came, FirstAt(came, p)))
<1> DEFINE r == RemoveAt(lane, k)
           Old(m) == IF m < k THEN m ELSE m + 1
<1>1. /\ r \in Seq(Prompts) /\ Len(r) = Len(lane) - 1
      /\ \A j \in 1 .. Len(lane) - 1 : r[j] = IF j < k THEN lane[j] ELSE lane[j + 1]
  BY RemoveAtSeq
<1>2. FirstAt(came, p) \in 1 .. Len(came) /\ came[FirstAt(came, p)] = p
  BY FirstAtFinds
<1> HIDE DEF r
<1> SUFFICES ASSUME NEW i \in DOMAIN r, NEW j \in DOMAIN r, i < j
             PROVE  Before(RemoveAt(came, FirstAt(came, p)), r[i], r[j])
  BY DEF InOrder, r
<1>3. ASSUME NEW m \in DOMAIN r
      PROVE  Old(m) \in 1 .. Len(lane) /\ Old(m) # k /\ lane[Old(m)] = r[m]
  BY <1>1
<1>4. Old(i) < Old(j)
  BY <1>1
<1>5. r[i] # p /\ r[j] # p
  <2>1. \A m \in DOMAIN r : lane[Old(m)] # lane[k]
    BY <1>3 DEF Distinct
  <2> QED
    BY <1>3, <2>1
<1>6. Before(came, lane[Old(i)], lane[Old(j)])
  BY <1>3, <1>4 DEF InOrder
<1>7. Before(came, r[i], r[j])
  BY <1>3, <1>6
<1> QED
  BY <1>2, <1>5, <1>7, RemovalKeepsOrder

\* The same for the other lanes, which the prompt is not in.
LEMMA OthersStayInOrder ==
  ASSUME NEW lane \in Seq(Prompts), NEW came \in Seq(Prompts), NEW p \in Prompts,
         Contains(came, p), InOrder(lane, came), p \notin ToSet(lane)
  PROVE  InOrder(lane, RemoveAt(came, FirstAt(came, p)))
<1>1. FirstAt(came, p) \in 1 .. Len(came) /\ came[FirstAt(came, p)] = p
  BY FirstAtFinds
<1> SUFFICES ASSUME NEW i \in DOMAIN lane, NEW j \in DOMAIN lane, i < j
             PROVE  Before(RemoveAt(came, FirstAt(came, p)), lane[i], lane[j])
  BY DEF InOrder
<1>2. lane[i] # p /\ lane[j] # p /\ Before(came, lane[i], lane[j])
  BY DEF InOrder, ToSet
<1> QED
  BY <1>1, <1>2, RemovalKeepsOrder

\* Tail is the removal of the first place.
LEMMA TailIsRemoval ==
  ASSUME NEW S, NEW s \in Seq(S), s # <<>>
  PROVE  1 \in 1 .. Len(s) /\ s[1] = Head(s) /\ Tail(s) = RemoveAt(s, 1)
<1>1. Len(s) \in Nat /\ Len(s) > 0
  OBVIOUS
<1>2. /\ RemoveAt(s, 1) \in Seq(S) /\ Len(RemoveAt(s, 1)) = Len(s) - 1
      /\ \A j \in 1 .. Len(s) - 1 : RemoveAt(s, 1)[j] = IF j < 1 THEN s[j] ELSE s[j + 1]
  BY <1>1, RemoveAtSeq
<1>3. /\ Tail(s) \in Seq(S) /\ Len(Tail(s)) = Len(s) - 1
      /\ \A j \in 1 .. Len(s) - 1 : Tail(s)[j] = s[j + 1]
  BY <1>1
<1> HIDE DEF RemoveAt
<1>4. Tail(s) = RemoveAt(s, 1)
  BY <1>1, <1>2, <1>3
<1> QED
  BY <1>1, <1>4

LEMMA ArrivalsInit == Init => Arrivals
BY CapAssumption DEF Init, Arrivals, InOrder, EmptyQueue

\* As many prompts came and did not leave as wait.
LEMMA ArrivedIsDepth ==
  ASSUME LanesInv
  PROVE  IsFiniteSet(Queued(queue)) /\ Len(arrived) = Depth(queue)
<1>1. arrived \in Seq(Prompts) /\ Distinct(arrived) /\ ToSet(arrived) = Queued(queue)
  BY DEF LanesInv, LaneTypeOK, WaitsOnce
<1> DEFINE n == Len(arrived)
<1>2. n \in Nat /\ DOMAIN arrived = 1 .. n /\ arrived \in [1 .. n -> Prompts]
  BY <1>1
<1>3. arrived \in Bijection(1 .. n, ToSet(arrived))
  <2>1. arrived \in [1 .. n -> ToSet(arrived)]
    BY <1>2 DEF ToSet
  <2>2. \A i, j \in 1 .. n : arrived[i] = arrived[j] => i = j
    BY <1>1, <1>2 DEF Distinct
  <2>3. \A y \in ToSet(arrived) : \E i \in 1 .. n : arrived[i] = y
    BY <1>2 DEF ToSet
  <2> QED
    BY <2>1, <2>2, <2>3 DEF Bijection, Injection, Surjection, IsInjective
<1>4. ExistsBijection(1 .. n, ToSet(arrived))
  BY <1>3 DEF ExistsBijection
<1>5. IsFiniteSet(1 .. n) /\ Cardinality(1 .. n) = IF 1 > n THEN 0 ELSE n - 1 + 1
  BY <1>2, FS_Interval
<1>6. IsFiniteSet(ToSet(arrived)) /\ Cardinality(ToSet(arrived)) = Cardinality(1 .. n)
  BY <1>4, <1>5, FS_Bijection
<1> QED
  BY <1>1, <1>2, <1>5, <1>6 DEF Depth

LEMMA ArrivalsEnqueue ==
  ASSUME LanesInv, Arrivals, NEW p \in Prompts, EnqueuePrompt(p)
  PROVE  Arrivals'
<1> DEFINE c == Chat[p]
<1>1. /\ queue \in Queues /\ Matched(queue) /\ OwnLanes(queue)
      /\ c \in Chats /\ queue.lanes \in [Chats -> Seq(Prompts)] /\ arrived \in Seq(Prompts)
  BY MatchedIsRotation, ChatAssumption DEF LanesInv, LaneTypeOK, WaitsOnce, Queues
<1>2. /\ Refuses(queue, p) => queue' = queue
      /\ ~Refuses(queue, p) => queue'.lanes = [queue.lanes EXCEPT ![c] = Append(@, p)]
  BY <1>1, EnqueueEffect DEF EnqueuePrompt
<1>3. CASE Refuses(queue, p)
  BY <1>2, <1>3 DEF EnqueuePrompt, Arrivals
<1>4. CASE ~Refuses(queue, p)
  <2>1. arrived' = Append(arrived, p)
    BY <1>4 DEF EnqueuePrompt
  <2> DEFINE came == Append(arrived, p)
             lane == queue.lanes[c]
  <2>2. /\ Len(came) = Len(arrived) + 1
        /\ \A k \in 1 .. Len(arrived) : came[k] = arrived[k]
        /\ came[Len(arrived) + 1] = p
    BY <1>1
  <2>3. \A x, y : Before(arrived, x, y) => Before(came, x, y)
    BY <1>1, <2>2 DEF Before
  <2>4. \A x \in ToSet(arrived) : Before(came, x, p)
    <3> SUFFICES ASSUME NEW i \in 1 .. Len(arrived) PROVE Before(came, arrived[i], p)
      BY <1>1 DEF ToSet
    <3> QED
      BY <1>1, <2>2 DEF Before
  <2> HIDE DEF came
  <2>5. ToSet(lane) \subseteq ToSet(arrived)
    BY <1>1 DEF LanesInv, WaitsOnce, Queued
  <2> HIDE DEF lane
  <2>6. InOrder(Append(lane, p), came)
    <3> SUFFICES ASSUME NEW i \in DOMAIN Append(lane, p), NEW j \in DOMAIN Append(lane, p), i < j
                 PROVE  Before(came, Append(lane, p)[i], Append(lane, p)[j])
      BY DEF InOrder
    <3>1. /\ lane \in Seq(Prompts) /\ i \in 1 .. Len(lane) /\ Append(lane, p)[i] = lane[i]
          /\ j \in 1 .. Len(lane) + 1
          /\ Append(lane, p)[j] = IF j = Len(lane) + 1 THEN p ELSE lane[j]
      <4>1. lane \in Seq(Prompts) /\ Len(lane) \in Nat
        BY <1>1 DEF lane
      <4>2. DOMAIN Append(lane, p) = 1 .. Len(lane) + 1
        BY <4>1
      <4>3. i \in 1 .. Len(lane) /\ j \in 1 .. Len(lane) + 1
        BY <4>1, <4>2
      <4>4. Append(lane, p)[i] = lane[i]
        BY <4>1, <4>3
      <4>5. Append(lane, p)[j] = IF j = Len(lane) + 1 THEN p ELSE lane[j]
        BY <4>1, <4>3
      <4> QED
        BY <4>1, <4>3, <4>4, <4>5
    <3>2. lane[i] \in ToSet(arrived)
      <4>1. lane[i] \in ToSet(lane)
        BY <3>1 DEF ToSet
      <4> QED
        BY <2>5, <4>1
    <3>3. CASE j = Len(lane) + 1
      BY <2>4, <3>1, <3>2, <3>3
    <3>4. CASE j # Len(lane) + 1
      <4>1. InOrder(lane, arrived)
        BY <1>1 DEF Arrivals, lane
      <4>2. j \in 1 .. Len(lane) /\ i \in DOMAIN lane /\ j \in DOMAIN lane
        BY <3>1, <3>4
      <4>3. Before(arrived, lane[i], lane[j])
        BY <4>1, <4>2 DEF InOrder
      <4> QED
        BY <2>3, <3>1, <3>4, <4>3
    <3> QED
      BY <3>1, <3>3, <3>4
  <2>7. \A d \in Chats : InOrder(queue.lanes[d], came)
    BY <2>3 DEF Arrivals, InOrder
  <2>8. Len(lane) < LaneCap /\ Depth(queue) < AgentCap
    <3>1. AddLane(queue, c).lanes = queue.lanes /\ Depth(AddLane(queue, c)) = Depth(queue)
      BY <1>1 DEF AddLane, Depth, Queued, Queues
    <3>2. Len(lane) \in Nat /\ Depth(queue) = Len(arrived) /\ Len(arrived) \in Nat
      BY <1>1, ArrivedIsDepth DEF lane
    <3> QED
      BY <1>4, <3>1, <3>2, CapAssumption DEF Refuses, Full, lane
  <2>9. \A d \in Chats : queue'.lanes[d] = IF d = c THEN Append(lane, p) ELSE queue.lanes[d]
    BY <1>1, <1>2, <1>4 DEF lane
  <2>10. Len(Append(lane, p)) = Len(lane) + 1 /\ Len(lane) \in Nat
    <3>1. lane \in Seq(Prompts)
      BY <1>1 DEF lane
    <3> QED
      BY <3>1
  <2>11. ASSUME NEW d \in Chats PROVE InOrder(queue.lanes[d], arrived)' /\ Len(queue.lanes[d])' <= LaneCap
    <3>1. InOrder(queue'.lanes[d], came)
      BY <2>6, <2>7, <2>9
    <3>2. Len(queue'.lanes[d]) <= LaneCap
      <4>1. CASE d = c
        <5>1. queue'.lanes[d] = Append(lane, p)
          BY <2>9, <4>1
        <5>2. Len(Append(lane, p)) <= LaneCap
          <6> HIDE DEF c
          <6> QED
            BY <2>8, <2>10, CapAssumption
        <5> QED
          BY <5>1, <5>2
      <4>2. CASE d # c
        BY <2>9, <4>2 DEF Arrivals
      <4> QED
        BY <4>1, <4>2
    <3> QED
      BY <2>1, <3>1, <3>2 DEF came
  <2>12. Len(arrived') <= AgentCap
    BY <1>1, <2>1, <2>2, <2>8, ArrivedIsDepth, CapAssumption DEF came
  <2> QED
    BY <2>11, <2>12 DEF Arrivals
<1> QED
  BY <1>3, <1>4

\* A prompt that leaves, from place k of its lane.
LEMMA ArrivalsRemoval ==
  ASSUME LanesInv, Arrivals, NEW c \in Chats, NEW k \in 1 .. Len(queue.lanes[c]),
         NEW p \in Prompts, queue.lanes[c][k] = p,
         queue'.lanes = [queue.lanes EXCEPT ![c] = RemoveAt(@, k)],
         arrived' = Taken(arrived, p)
  PROVE  Arrivals'
<1> DEFINE lane == queue.lanes[c]
<1>1. /\ queue \in Queues /\ OwnLanes(queue)
      /\ queue.lanes \in [Chats -> Seq(Prompts)] /\ arrived \in Seq(Prompts)
      /\ ToSet(arrived) = Queued(queue)
  BY DEF LanesInv, LaneTypeOK, WaitsOnce, Queues
<1>2. p \in ToSet(lane) /\ Chat[p] = c /\ lane \in Seq(Prompts) /\ Distinct(lane)
  BY <1>1 DEF ToSet, OwnLanes
<1>3. Contains(arrived, p)
  <2>1. p \in ToSet(arrived)
    BY <1>1, <1>2 DEF Queued
  <2> QED
    BY <2>1 DEF ToSet, Contains
<1>4. InOrder(RemoveAt(lane, k), Taken(arrived, p))
  BY <1>1, <1>2, <1>3, RemovalStaysInOrder DEF Arrivals, Taken
<1>5. \A d \in Chats \ {c} : InOrder(queue.lanes[d], Taken(arrived, p))
  <2> SUFFICES ASSUME NEW d \in Chats \ {c} PROVE InOrder(queue.lanes[d], Taken(arrived, p))
    OBVIOUS
  <2>1. p \notin ToSet(queue.lanes[d]) /\ queue.lanes[d] \in Seq(Prompts)
    BY <1>1, <1>2 DEF OwnLanes
  <2> QED
    BY <1>1, <1>3, <2>1, OthersStayInOrder DEF Arrivals, Taken
<1>6. Len(RemoveAt(lane, k)) = Len(lane) - 1 /\ Len(lane) \in Nat
  BY <1>2, RemoveAtSeq
<1>7. Len(Taken(arrived, p)) = Len(arrived) - 1 /\ Len(arrived) \in Nat
  BY <1>1, <1>3, FirstAtFinds, RemoveAtSeq DEF Taken
<1>8. \A d \in Chats : queue'.lanes[d] = IF d = c THEN RemoveAt(lane, k) ELSE queue.lanes[d]
  BY <1>1
<1> HIDE DEF lane
<1>9. ASSUME NEW d \in Chats PROVE InOrder(queue.lanes[d], arrived)' /\ Len(queue.lanes[d])' <= LaneCap
  <2>1. InOrder(queue'.lanes[d], arrived')
    BY <1>4, <1>5, <1>8
  <2>2. Len(queue'.lanes[d]) <= LaneCap
    BY <1>6, <1>8, CapAssumption DEF Arrivals, lane
  <2> QED
    BY <2>1, <2>2
<1>10. Len(arrived') <= AgentCap
  BY <1>7, CapAssumption DEF Arrivals
<1> QED
  BY <1>9, <1>10 DEF Arrivals

LEMMA ArrivalsDequeue ==
  ASSUME LanesInv, Arrivals, DequeuePrompt
  PROVE  Arrivals'
<1> DEFINE c == ServedChat(queue)
           p == NextPrompt(queue)
<1>1. /\ queue \in Queues /\ Matched(queue) /\ HasQueue(queue) /\ queue' = Dequeue(queue)
  BY MatchedIsRotation DEF LanesInv, LaneTypeOK, DequeuePrompt
<1>2. /\ Servable(queue) # {} /\ c \in Chats /\ p \in Prompts
      /\ queue.lanes[c] \in Seq(Prompts) /\ queue.lanes[c] # <<>>
  BY <1>1, ServesFront, ServedIndexFound
<1>3. queue'.lanes = [queue.lanes EXCEPT ![c] = Tail(@)]
  BY <1>1, DequeueEffect
<1>4. arrived' = Taken(arrived, p)
  BY <1>2 DEF DequeuePrompt
<1>5. /\ 1 \in 1 .. Len(queue.lanes[c]) /\ queue.lanes[c][1] = p
      /\ Tail(queue.lanes[c]) = RemoveAt(queue.lanes[c], 1)
  BY <1>2, TailIsRemoval DEF NextPrompt
<1>6. queue'.lanes = [queue.lanes EXCEPT ![c] = RemoveAt(@, 1)]
  BY <1>3, <1>5
<1> HIDE DEF c, p
<1> QED
  BY <1>2, <1>4, <1>5, <1>6, ArrivalsRemoval

LEMMA ArrivalsWithdraw ==
  ASSUME LanesInv, Arrivals, NEW p \in Prompts, WithdrawPrompt(p)
  PROVE  Arrivals'
<1> DEFINE c == Chat[p]
           k == FirstAt(queue.lanes[c], p)
<1>1. /\ queue \in Queues /\ Matched(queue) /\ OwnLanes(queue)
      /\ c \in Chats /\ queue.lanes[c] \in Seq(Prompts)
  BY MatchedIsRotation, ChatAssumption DEF LanesInv, LaneTypeOK, WaitsOnce, Queues
<1>2. Contains(queue.lanes[c], p)
  BY <1>1 DEF WithdrawPrompt, OwnLanes, Queued, Contains, ToSet
<1>3. k \in 1 .. Len(queue.lanes[c]) /\ queue.lanes[c][k] = p
  BY <1>1, <1>2, FirstAtFinds
<1>4. queue'.lanes = [queue.lanes EXCEPT ![c] = RemoveAt(@, k)]
  BY <1>1, <1>2, WithdrawEffect DEF WithdrawPrompt
<1>5. arrived' = Taken(arrived, p)
  BY DEF WithdrawPrompt
<1> HIDE DEF c, k
<1> QED
  BY <1>1, <1>3, <1>4, <1>5, ArrivalsRemoval

LEMMA ArrivalsStep == LanesInv /\ Arrivals /\ [Next]_laneVars => Arrivals'
<1> SUFFICES ASSUME LanesInv, Arrivals, [Next]_laneVars PROVE Arrivals'
  OBVIOUS
<1>1. ASSUME NEW p \in Prompts, EnqueuePrompt(p) PROVE Arrivals'
  BY <1>1, ArrivalsEnqueue
<1>2. CASE DequeuePrompt
  BY <1>2, ArrivalsDequeue
<1>3. ASSUME NEW p \in Prompts, WithdrawPrompt(p) PROVE Arrivals'
  BY <1>3, ArrivalsWithdraw
<1>4. CASE UNCHANGED laneVars
  BY <1>4 DEF laneVars, Arrivals
<1> QED
  BY <1>1, <1>2, <1>3, <1>4 DEF Next

LEMMA ArrivalsAreKept == LanesInv /\ Arrivals => NothingLostNothingTwice
<1> SUFFICES ASSUME LanesInv, Arrivals PROVE NothingLostNothingTwice
  OBVIOUS
<1>1. /\ OwnLanes(queue) /\ Distinct(arrived) /\ ToSet(arrived) = Queued(queue)
  BY DEF LanesInv, WaitsOnce
<1>2. IsInjective(arrived)
  BY <1>1 DEF Distinct, IsInjective
<1>3. ASSUME NEW c \in Chats
      PROVE  LET lane == queue.lanes[c]
             IN  /\ IsInjective(lane)
                 /\ ToSet(lane) = {p \in ToSet(arrived) : Chat[p] = c}
                 /\ \A i, j \in DOMAIN lane : i < j => CameBefore(lane[i], lane[j])
                 /\ Len(lane) <= LaneCap
  <2>1. IsInjective(queue.lanes[c])
    BY <1>1 DEF OwnLanes, Distinct, IsInjective
  <2>2. ToSet(queue.lanes[c]) = {p \in ToSet(arrived) : Chat[p] = c}
    BY <1>1 DEF OwnLanes, Queued
  <2> QED
    BY <2>1, <2>2 DEF Arrivals, InOrder, Before, CameBefore
<1> QED
  BY <1>2, <1>3 DEF NothingLostNothingTwice, Arrivals

\* Every accepted prompt waits once, in its own chat's lane and in the order it
\* came, until it is taken or withdrawn, and the caps hold (core.ts 1421-1535).
THEOREM NothingLost == Spec => []NothingLostNothingTwice
BY LanesInit, LanesStep, ArrivalsInit, ArrivalsStep, ArrivalsAreKept, PTL DEF Spec

\* What the gate takes came before every other prompt of its chat.
LEMMA TakesOldest ==
  ASSUME LanesInv, Arrivals, [Next]_laneVars, ~UNCHANGED laneVars, answer'.call = "taken",
         NEW i \in DOMAIN arrived, Chat[arrived[i]] = Chat[answer'.prompt]
  PROVE  \E k \in 1 .. i : arrived[k] = answer'.prompt
<1> DEFINE c == ServedChat(queue)
           p == NextPrompt(queue)
           lane == queue.lanes[c]
<1>1. DequeuePrompt /\ Servable(queue) # {} /\ answer'.prompt = p
  BY DEF Next, EnqueuePrompt, WithdrawPrompt, DequeuePrompt
<1>2. /\ queue \in Queues /\ OwnLanes(queue)
      /\ arrived \in Seq(Prompts) /\ Distinct(arrived) /\ ToSet(arrived) = Queued(queue)
  BY DEF LanesInv, LaneTypeOK, WaitsOnce
<1>3. /\ c \in Chats /\ lane \in Seq(Prompts) /\ lane # <<>> /\ p = lane[1] /\ 1 \in DOMAIN lane
  BY <1>1, <1>2, ServedIndexFound DEF NextPrompt
<1> HIDE DEF c, p
<1>4. Chat[p] = c
  BY <1>2, <1>3 DEF OwnLanes, ToSet
<1>5. PICK j \in DOMAIN lane : lane[j] = arrived[i]
  <2>1. arrived[i] \in Queued(queue) /\ Chat[arrived[i]] = c
    BY <1>1, <1>2, <1>4 DEF ToSet
  <2>2. arrived[i] \in ToSet(lane)
    BY <1>2, <2>1 DEF Queued, OwnLanes
  <2> QED
    BY <2>2 DEF ToSet
<1>6. CASE j = 1
  BY <1>1, <1>2, <1>3, <1>5, <1>6
<1>7. CASE j # 1
  <2>1. 1 < j /\ InOrder(lane, arrived)
    BY <1>3, <1>5, <1>7 DEF Arrivals
  <2>2. Before(arrived, p, arrived[i])
    BY <1>3, <1>5, <2>1 DEF InOrder
  <2>3. PICK k, l \in DOMAIN arrived : k < l /\ arrived[k] = p /\ arrived[l] = arrived[i]
    BY <2>2 DEF Before
  <2>4. l = i
    BY <1>2, <2>3 DEF Distinct
  <2> QED
    BY <1>1, <1>2, <2>3, <2>4
<1> QED
  BY <1>6, <1>7

\* The gate takes the oldest prompt of a chat, and a refused call leaves the
\* queue as it was (core.ts 1421-1497).
THEOREM OldestOfChat == Spec => TakesOldestOfChat
<1>1. LanesInv /\ Arrivals /\ [Next]_laneVars =>
        [/\ answer'.call = "taken" =>
              \A i \in DOMAIN arrived :
                Chat[arrived[i]] = Chat[answer'.prompt] =>
                  \E k \in 1 .. i : arrived[k] = answer'.prompt
         /\ answer'.call = "refused" => queue' = queue]_laneVars
  <2> SUFFICES ASSUME LanesInv, Arrivals, [Next]_laneVars, ~UNCHANGED laneVars
               PROVE  /\ answer'.call = "taken" =>
                           \A i \in DOMAIN arrived :
                             Chat[arrived[i]] = Chat[answer'.prompt] =>
                               \E k \in 1 .. i : arrived[k] = answer'.prompt
                      /\ answer'.call = "refused" => queue' = queue
    OBVIOUS
  <2>1. ASSUME answer'.call = "refused" PROVE queue' = queue
    <3>1. PICK p \in Prompts : EnqueuePrompt(p) /\ Refuses(queue, p)
      BY <2>1 DEF Next, EnqueuePrompt, WithdrawPrompt, DequeuePrompt
    <3>2. queue \in Queues /\ Matched(queue)
      BY MatchedIsRotation DEF LanesInv, LaneTypeOK
    <3> QED
      BY <3>1, <3>2, EnqueueEffect DEF EnqueuePrompt
  <2> QED
    BY <2>1, TakesOldest
<1>2. Spec => [](LanesInv /\ Arrivals)
  BY LanesInit, LanesStep, ArrivalsInit, ArrivalsStep, PTL DEF Spec
<1> QED
  BY <1>1, <1>2, PTL DEF Spec, TakesOldestOfChat

--------------------------------------------------------------------------------
(* The queue implements FairLanes *)

LEMMA FairInitHolds == Init => Fair!FairInit
BY DEF Init, Fair!FairInit, EmptyQueue

\* An accepted prompt joins its lane, a refused one changes nothing.
LEMMA EnqueueIsJoin ==
  ASSUME LanesInv, NEW p \in Prompts, EnqueuePrompt(p)
  PROVE  Fair!Join(p) \/ UNCHANGED <<queue.lanes, overtook>>
<1>1. queue \in Queues /\ Matched(queue)
  BY MatchedIsRotation DEF LanesInv, LaneTypeOK
<1>2. /\ Refuses(queue, p) => queue' = queue
      /\ ~Refuses(queue, p) => queue'.lanes = [queue.lanes EXCEPT ![Chat[p]] = Append(@, p)]
  BY <1>1, EnqueueEffect DEF EnqueuePrompt
<1>3. overtook' = overtook
  BY DEF EnqueuePrompt
<1> QED
  BY <1>2, <1>3 DEF Fair!Join

\* The front chat is one that may be served: whoever overtook a waiting chat
\* stands behind it, and nobody stands before the front.
LEMMA DequeueIsServe ==
  ASSUME LanesInv, DequeuePrompt
  PROVE  Fair!Serve(ServedChat(queue))
<1> DEFINE c == ServedChat(queue)
<1>1. /\ queue \in Queues /\ Matched(queue) /\ HasQueue(queue) /\ queue' = Dequeue(queue)
  BY MatchedIsRotation DEF LanesInv, LaneTypeOK, DequeuePrompt
<1>2. /\ queue.order \in Seq(Chats) /\ Len(queue.order) > 0 /\ Servable(queue) # {}
      /\ c = queue.order[1] /\ c \in queue.keys /\ c \in Chats /\ queue.lanes[c] # <<>>
  BY <1>1, ServesFront, ServedIndexFound
<1>3. queue'.lanes = [queue.lanes EXCEPT ![c] = Tail(@)]
  BY <1>1, DequeueEffect
<1>4. overtook' = [d \in Chats |-> IF d # c /\ queue.lanes[d] # <<>> THEN overtook[d] \cup {c} ELSE {}]
  BY <1>2 DEF DequeuePrompt
<1>5. ASSUME NEW d \in Chats, queue.lanes[d] # <<>>
      PROVE  c \notin overtook[d]
  <2>1. d \in queue.keys
    BY <1>1, <1>5 DEF Matched
  <2>2. PICK j \in DOMAIN queue.order : queue.order[j] = d
    BY <1>1, <2>1 DEF Matched, ToSet
  <2>3. 1 \in DOMAIN queue.order /\ j >= 1
    BY <1>2
  <2> QED
    BY <1>2, <2>1, <2>2, <2>3 DEF LanesInv, OvertakenAtMostOnce
<1> HIDE DEF c
<1>6. c \in Fair!Waiting /\ \A d \in Fair!Waiting : c \notin overtook[d]
  BY <1>2, <1>5 DEF Fair!Waiting
<1>7. overtook' = [d \in Chats |-> IF d # c /\ d \in Fair!Waiting THEN overtook[d] \cup {c} ELSE {}]
  BY <1>4 DEF Fair!Waiting
<1> QED
  BY <1>3, <1>6, <1>7 DEF Fair!Serve, c

LEMMA WithdrawIsLeave ==
  ASSUME LanesInv, NEW p \in Prompts, WithdrawPrompt(p)
  PROVE  Fair!Leave(Chat[p])
<1> DEFINE c    == Chat[p]
           s    == queue.lanes[c]
           at   == FirstAt(s, p)
           lane == RemoveAt(s, at)
<1>1. /\ queue \in Queues /\ Matched(queue) /\ OwnLanes(queue)
      /\ c \in Chats /\ s \in Seq(Prompts)
  BY MatchedIsRotation, ChatAssumption DEF LanesInv, LaneTypeOK, WaitsOnce, Queues
<1>2. Contains(s, p)
  BY <1>1 DEF WithdrawPrompt, OwnLanes, Queued, Contains, ToSet
<1>3. at \in 1 .. Len(s) /\ lane \in Seq(Prompts) /\ queue'.lanes = [queue.lanes EXCEPT ![c] = lane]
  BY <1>1, <1>2, WithdrawEffect DEF WithdrawPrompt
<1>4. lane = SubSeq(s, 1, at - 1) \o SubSeq(s, at + 1, Len(s))
  BY DEF RemoveAt
<1>5. Len(lane) = Len(s) - 1
  BY <1>1, <1>3, RemoveAtSeq
<1> HIDE DEF at, lane
<1>6. queue'.lanes[c] = lane
  BY <1>1, <1>3 DEF Queues
<1>7. queue'.lanes[c] = <<>> <=> Len(s) = 1
  <2>1. lane = <<>> <=> Len(lane) = 0
    BY <1>3
  <2>2. Len(s) \in Nat
    BY <1>1
  <2> QED
    BY <1>5, <1>6, <2>1, <2>2
<1>8. overtook' = [overtook EXCEPT ![c] = IF Len(s) = 1 THEN {} ELSE @]
  <2>1. overtook \in [Chats -> SUBSET Chats]
    BY DEF LanesInv, LaneTypeOK
  <2> QED
    BY <1>1, <1>7, <2>1 DEF WithdrawPrompt
<1>9. /\ at \in DOMAIN s
      /\ queue'.lanes = [queue.lanes EXCEPT ![c] = SubSeq(@, 1, at - 1) \o SubSeq(@, at + 1, Len(@))]
  BY <1>1, <1>3, <1>4
<1> QED
  BY <1>8, <1>9 DEF Fair!Leave

LEMMA FairStep == LanesInv /\ [Next]_laneVars => [Fair!FairNext]_(Fair!fairVars)
<1> SUFFICES ASSUME LanesInv, [Next]_laneVars
             PROVE  Fair!FairNext \/ UNCHANGED Fair!fairVars
  OBVIOUS
<1>1. ASSUME NEW p \in Prompts, EnqueuePrompt(p) PROVE Fair!FairNext \/ UNCHANGED Fair!fairVars
  BY <1>1, EnqueueIsJoin DEF Fair!FairNext, Fair!fairVars
<1>2. CASE DequeuePrompt
  <2>1. ServedChat(queue) \in Chats
    BY <1>2, DequeueIsServe DEF Fair!Serve, Fair!Waiting
  <2> QED
    BY <1>2, <2>1, DequeueIsServe DEF Fair!FairNext
<1>3. ASSUME NEW p \in Prompts, WithdrawPrompt(p) PROVE Fair!FairNext \/ UNCHANGED Fair!fairVars
  BY <1>3, WithdrawIsLeave, ChatAssumption DEF Fair!FairNext
<1>4. CASE UNCHANGED laneVars
  BY <1>4 DEF laneVars, Fair!fairVars
<1> QED
  BY <1>1, <1>2, <1>3, <1>4 DEF Next

\* The rotation of lanes implements the fair lanes it is for: first in, first
\* out for every chat, and no chat served twice while another waits.
THEOREM RotationIsFair == Spec => ImplementsFairLanes
BY LanesInvariant, FairInitHolds, FairStep, PTL DEF Spec, ImplementsFairLanes, Fair!FairSpec

--------------------------------------------------------------------------------
(* The preview is the order of service.  By induction over the rounds (Telescope): *)
(* taking a prompt takes the first one off the preview.  By induction over the     *)
(* drain: what was given and the preview of what is left never change together.    *)

\* A round has at most one prompt of each chat.
LEMMA NthTyped ==
  ASSUME NEW q \in Queues, NEW c \in Chats, NEW r \in Nat \ {0}
  PROVE  Nth(q, c, r) \in Seq(Prompts)
<1>1. q.lanes[c] \in Seq(Prompts)
  BY DEF Queues
<1>2. r <= Len(q.lanes[c]) => q.lanes[c][r] \in Prompts
  BY <1>1
<1>3. <<>> \in Seq(Prompts) /\ (r <= Len(q.lanes[c]) => <<q.lanes[c][r]>> \in Seq(Prompts))
  BY <1>2
<1> QED
  BY <1>3 DEF Nth

\* What a round is added up from.
Pieces(q, r) == [i \in DOMAIN q.order |-> Nth(q, q.order[i], r)]

LEMMA PiecesTyped ==
  ASSUME NEW q \in Queues, NEW r \in Nat \ {0}
  PROVE  Pieces(q, r) \in Seq(Seq(Prompts)) /\ Len(Pieces(q, r)) = Len(q.order)
<1> DEFINE T == Seq(Prompts)
<1>1. Len(q.order) \in Nat /\ DOMAIN q.order = 1 .. Len(q.order)
      /\ \A i \in 1 .. Len(q.order) : q.order[i] \in Chats
  BY DEF Queues
<1>2. \A i \in 1 .. Len(q.order) : Nth(q, q.order[i], r) \in T
  BY <1>1, NthTyped
<1> HIDE DEF T
<1>3. Pieces(q, r) \in [1 .. Len(q.order) -> T]
  BY <1>1, <1>2 DEF Pieces
<1>4. Pieces(q, r) \in Seq(T) /\ Len(Pieces(q, r)) = Len(q.order)
  BY <1>1, <1>3, FunctionIsSeq
<1> QED
  BY <1>4 DEF T

LEMMA RoundTyped ==
  ASSUME NEW q \in Queues, NEW r \in Nat \ {0}
  PROVE  Round(q, r) = FlattenSeq(Pieces(q, r)) /\ Round(q, r) \in Seq(Prompts)
<1> DEFINE T == Seq(Prompts)
<1>1. Monoid(T) /\ Pieces(q, r) \in Seq(T)
  BY SequencesAreMonoid, PiecesTyped
<1> HIDE DEF T
<1>2. FlattenSeq(Pieces(q, r)) \in T
  BY <1>1, FlattenTyped
<1> QED
  BY <1>2 DEF Round, Pieces, T

\* A round is what the chat served gives and R, and R comes first in the round
\* after it was served.
Splits(q, r, R) ==
  /\ Round(q, r) = Cat(Nth(q, ServedChat(q), r), R)
  /\ Round(Dequeue(q), r) = Cat(R, Nth(q, ServedChat(q), r + 1))

\* The chat served moves from the front of a round to the end of the one before.
LEMMA RoundServed ==
  ASSUME NEW q \in Queues, Matched(q), HasQueue(q), NEW r \in Nat \ {0}
  PROVE  \E R \in Seq(Prompts) : Splits(q, r, R)
<1> DEFINE c == ServedChat(q)
           d == Dequeue(q)
           T == Seq(Prompts)
           s == Pieces(q, r)
           left == Tail(q.lanes[c])
<1>1. /\ q.order \in Seq(Chats) /\ Len(q.order) > 0 /\ c = q.order[1] /\ Servable(q) # {}
      /\ Distinct(q.order)
  BY ServesFront DEF Matched
<1>2. /\ c \in Chats /\ q.lanes[c] \in Seq(Prompts) /\ q.lanes[c] # <<>> /\ d \in Queues
      /\ q.lanes \in [Chats -> Seq(Prompts)]
  BY <1>1, ServedIndexFound, DequeueTyped DEF Queues
<1>3. /\ d.lanes = [q.lanes EXCEPT ![c] = left]
      /\ d.order = IF left = <<>> THEN Tail(q.order) ELSE Append(Tail(q.order), c)
  BY DequeueEffect
<1>4. Monoid(T) /\ s \in Seq(T) /\ Len(s) = Len(q.order) /\ Pieces(d, r) \in Seq(T)
      /\ Len(Pieces(d, r)) = Len(d.order)
  BY <1>2, SequencesAreMonoid, PiecesTyped
<1>5. Round(q, r) = FlattenSeq(s) /\ Round(d, r) = FlattenSeq(Pieces(d, r))
  BY <1>2, RoundTyped
<1>6. /\ \A i \in 1 .. Len(q.order) : s[i] = Nth(q, q.order[i], r)
      /\ \A i \in 1 .. Len(d.order) : Pieces(d, r)[i] = Nth(d, d.order[i], r)
  BY <1>2 DEF Pieces, Queues
<1>7. left \in Seq(Prompts) /\ Len(left) = Len(q.lanes[c]) - 1
      /\ \A i \in 1 .. Len(left) : left[i] = q.lanes[c][i + 1]
  BY <1>2
<1>8. d.lanes[c] = left /\ \A e \in Chats \ {c} : d.lanes[e] = q.lanes[e]
  BY <1>2, <1>3
<1>9. Nth(d, c, r) = Nth(q, c, r + 1)
  <2>1. r <= Len(left) <=> r + 1 <= Len(q.lanes[c])
    BY <1>2, <1>7
  <2>2. r <= Len(left) => left[r] = q.lanes[c][r + 1]
    BY <1>7
  <2> QED
    BY <1>8, <2>1, <2>2 DEF Nth
<1>10. \A i \in 1 .. Len(q.order) - 1 : q.order[i + 1] \in Chats \ {c}
  BY <1>1 DEF Distinct
<1>11. /\ Tail(q.order) \in Seq(Chats) /\ Len(Tail(q.order)) = Len(q.order) - 1
       /\ \A i \in 1 .. Len(q.order) - 1 : Tail(q.order)[i] = q.order[i + 1]
  BY <1>1
<1> HIDE DEF T, s, d, c, left
<1>12. s # <<>> /\ Tail(s) \in Seq(T) /\ Len(Tail(s)) = Len(q.order) - 1
       /\ \A i \in 1 .. Len(q.order) - 1 : Tail(s)[i] = s[i + 1]
  BY <1>1, <1>4
<1>13. \A e \in Chats \ {c} : Nth(d, e, r) = Nth(q, e, r)
  BY <1>8 DEF Nth
<1>14. \A i \in 1 .. Len(q.order) - 1 : Tail(s)[i] = Nth(d, Tail(q.order)[i], r)
  <2> TAKE i \in 1 .. Len(q.order) - 1
  <2>1. i + 1 \in 1 .. Len(q.order)
    BY <1>1
  <2>2. Tail(s)[i] = Nth(q, q.order[i + 1], r)
    BY <1>6, <1>12, <2>1
  <2>3. Tail(q.order)[i] = q.order[i + 1] /\ q.order[i + 1] \in Chats \ {c}
    BY <1>10, <1>11
  <2> QED
    BY Zenon, <1>13, <2>2, <2>3
<1> DEFINE R == FlattenSeq(Tail(s))
<1>15. R \in T
  BY <1>4, <1>12, FlattenTyped
<1>16. Round(q, r) = Cat(Nth(q, c, r), R)
  <2>1. FlattenSeq(s) = Cat(s[1], R)
    BY <1>4, <1>12, FlattenFirst
  <2>2. s[1] = Nth(q, c, r)
    BY <1>1, <1>6
  <2> QED
    BY <1>5, <2>1, <2>2
<1>17. Round(d, r) = Cat(R, Nth(q, c, r + 1))
  <2>1. CASE left = <<>>
    <3>1. d.order = Tail(q.order)
      BY <1>3, <2>1
    <3>2. Pieces(d, r) = Tail(s)
      <4>1. \A i \in 1 .. Len(d.order) : Pieces(d, r)[i] = Tail(s)[i]
        BY Zenon, <1>6, <1>11, <1>14, <3>1
      <4>2. Len(Pieces(d, r)) = Len(Tail(s)) /\ Len(Tail(s)) = Len(d.order)
        BY <1>4, <1>11, <1>12, <3>1
      <4> QED
        BY <1>4, <1>12, <4>1, <4>2, SeqEqual
    <3>3. Nth(q, c, r + 1) = <<>>
      BY <1>2, <1>7, <2>1 DEF Nth
    <3>4. Cat(R, <<>>) = R
      BY Zenon, <1>4, <1>15 DEF Monoid
    <3> QED
      BY <1>5, <3>2, <3>3, <3>4
  <2>2. CASE left # <<>>
    <3>1. d.order = Append(Tail(q.order), c)
      BY <1>3, <2>2
    <3>2. /\ Len(d.order) = Len(q.order) /\ d.order[Len(q.order)] = c
          /\ \A i \in 1 .. Len(q.order) - 1 : d.order[i] = Tail(q.order)[i]
      BY <1>1, <1>2, <1>11, <3>1
    <3>3. Nth(q, c, r + 1) \in T
      <4>1. r + 1 \in Nat \ {0}
        OBVIOUS
      <4> QED
        BY <1>2, <4>1, NthTyped DEF T
    <3> DEFINE a == Append(Tail(s), Nth(q, c, r + 1))
    <3>4. /\ a \in Seq(T) /\ Len(a) = Len(q.order)
          /\ a[Len(q.order)] = Nth(q, c, r + 1)
          /\ \A i \in 1 .. Len(q.order) - 1 : a[i] = Tail(s)[i]
      BY <1>1, <1>12, <3>3
    <3> HIDE DEF a
    <3>5. Pieces(d, r) = a
      <4>1. ASSUME NEW i \in 1 .. Len(a) PROVE Pieces(d, r)[i] = a[i]
        <5>1. i \in 1 .. Len(d.order) /\ Pieces(d, r)[i] = Nth(d, d.order[i], r)
          BY <1>6, <3>2, <3>4
        <5>2. CASE i = Len(q.order)
          BY Zenon, <1>9, <3>2, <3>4, <5>1, <5>2
        <5>3. CASE i # Len(q.order)
          <6>1. i \in 1 .. Len(q.order) - 1
            BY <1>1, <3>4, <5>3
          <6> QED
            BY Zenon, <1>14, <3>2, <3>4, <5>1, <6>1
        <5> QED
          BY <5>2, <5>3
      <4>2. Len(Pieces(d, r)) = Len(a)
        BY <1>4, <3>2, <3>4
      <4> QED
        BY <1>4, <3>4, <4>1, <4>2, SeqEqual
    <3>6. FlattenSeq(a) = Cat(R, Nth(q, c, r + 1))
      BY <1>4, <1>12, <3>3, FlattenLast DEF a
    <3> QED
      BY <1>5, <3>5, <3>6
  <2> QED
    BY <2>1, <2>2
<1> QED
  BY <1>15, <1>16, <1>17 DEF T, c, d, Splits

\* The rounds of the preview.
RoundsOf(q) == [r \in 1 .. LaneCap |-> Round(q, r)]

LEMMA RoundsTyped ==
  ASSUME NEW q \in Queues
  PROVE  /\ RoundsOf(q) \in Seq(Seq(Prompts)) /\ Len(RoundsOf(q)) = LaneCap
         /\ Preview(q) = FlattenSeq(RoundsOf(q)) /\ Preview(q) \in Seq(Prompts)
<1> DEFINE T == Seq(Prompts)
<1>1. \A r \in 1 .. LaneCap : Round(q, r) \in T
  BY RoundTyped, CapAssumption
<1>2. Monoid(T)
  BY SequencesAreMonoid
<1> HIDE DEF T
<1>3. RoundsOf(q) \in [1 .. LaneCap -> T]
  BY <1>1 DEF RoundsOf
<1>4. RoundsOf(q) \in Seq(T) /\ Len(RoundsOf(q)) = LaneCap
  BY <1>3, CapAssumption, FunctionIsSeq
<1>5. FlattenSeq(RoundsOf(q)) \in T
  BY <1>2, <1>4, FlattenTyped
<1> QED
  BY <1>4, <1>5 DEF T, Preview, RoundsOf

\* The preview is the prompt served next and the preview of what is left.
LEMMA PreviewServed ==
  ASSUME NEW q \in Queues, Matched(q), HasQueue(q), Len(q.lanes[ServedChat(q)]) <= LaneCap
  PROVE  Preview(q) = Cat(<<NextPrompt(q)>>, Preview(Dequeue(q)))
<1> DEFINE c == ServedChat(q)
           d == Dequeue(q)
           T == Seq(Prompts)
           N == [r \in 1 .. LaneCap + 1 |-> Nth(q, c, r)]
<1>1. /\ Servable(q) # {} /\ c \in Chats /\ q.lanes[c] \in Seq(Prompts) /\ q.lanes[c] # <<>>
      /\ d \in Queues
  BY ServesFront, ServedIndexFound, DequeueTyped
<1>2. LaneCap \in Nat /\ Len(q.lanes[c]) <= LaneCap
  BY CapAssumption
<1>3. Len(q.lanes[c]) \in Nat /\ Len(q.lanes[c]) >= 1
  BY <1>1
<1>4. \A r \in 1 .. LaneCap + 1 : Nth(q, c, r) \in T
  BY <1>1, <1>2, NthTyped
<1>5. \A r \in 1 .. LaneCap : \E R \in T : Splits(q, r, R)
  BY <1>2, RoundServed
<1>6. Monoid(T)
  BY SequencesAreMonoid
<1>7. Nth(q, c, 1) = <<NextPrompt(q)>> /\ Nth(q, c, LaneCap + 1) = <<>>
  BY <1>1, <1>2, <1>3 DEF Nth, NextPrompt
<1>8. /\ RoundsOf(q) \in Seq(T) /\ Len(RoundsOf(q)) = LaneCap /\ Preview(q) = FlattenSeq(RoundsOf(q))
      /\ RoundsOf(d) \in Seq(T) /\ Len(RoundsOf(d)) = LaneCap /\ Preview(d) = FlattenSeq(RoundsOf(d))
      /\ Preview(q) \in T
  BY <1>1, RoundsTyped
<1> HIDE DEF T, c, d
<1> DEFINE R == [r \in 1 .. LaneCap |-> CHOOSE x \in T : Splits(q, r, x)]
<1>9. R \in [1 .. LaneCap -> T] /\ N \in [1 .. LaneCap + 1 -> T]
  BY <1>4, <1>5
<1>10. ASSUME NEW r \in 1 .. LaneCap
       PROVE  RoundsOf(q)[r] = Cat(N[r], R[r]) /\ RoundsOf(d)[r] = Cat(R[r], N[r + 1])
  <2>1. Round(q, r) = Cat(Nth(q, c, r), R[r]) /\ Round(d, r) = Cat(R[r], Nth(q, c, r + 1))
    BY <1>5 DEF Splits, c, d
  <2> HIDE DEF R
  <2>2. N[r] = Nth(q, c, r) /\ N[r + 1] = Nth(q, c, r + 1)
    BY <1>2
  <2>3. RoundsOf(q)[r] = Round(q, r) /\ RoundsOf(d)[r] = Round(d, r)
    BY DEF RoundsOf
  <2> QED
    BY Zenon, <2>1, <2>2, <2>3
<1>11. N[1] = Nth(q, c, 1) /\ N[LaneCap + 1] = Nth(q, c, LaneCap + 1)
  BY <1>2
<1> HIDE DEF R, N
<1>12. Rounds(RoundsOf(q), RoundsOf(d), N, R, LaneCap)
  BY Zenon, <1>10 DEF Rounds
<1>13. Cat(N[1], FlattenSeq(RoundsOf(d))) = Cat(FlattenSeq(RoundsOf(q)), N[LaneCap + 1])
  BY <1>2, <1>6, <1>8, <1>9, <1>12, Telescope
<1>14. Cat(Preview(q), <<>>) = Preview(q)
  BY Zenon, <1>6, <1>8 DEF Monoid
<1> QED
  BY Zenon, <1>7, <1>8, <1>11, <1>13, <1>14 DEF c, d

\* Of an empty queue nothing is shown.
LEMMA PreviewNothing ==
  ASSUME NEW q \in Queues, Matched(q), ~HasQueue(q)
  PROVE  Preview(q) = <<>>
<1> DEFINE T == Seq(Prompts)
<1>1. q.order \in Seq(Chats) /\ Len(q.order) = 0
  BY DEF Matched, HasQueue, Queues, ToSet
<1>2. \A r \in 1 .. LaneCap : Round(q, r) = <<>>
  <2> TAKE r \in 1 .. LaneCap
  <2>0. r \in Nat \ {0}
    BY CapAssumption
  <2>1. Pieces(q, r) \in Seq(T) /\ Len(Pieces(q, r)) = 0
    BY <1>1, <2>0, PiecesTyped
  <2> HIDE DEF T
  <2>2. Pieces(q, r) = <<>>
    BY <2>1
  <2> QED
    BY <2>0, <2>2, RoundTyped, FlattenEmpty
<1>3. Monoid(T) /\ RoundsOf(q) \in Seq(T) /\ Len(RoundsOf(q)) = LaneCap
      /\ Preview(q) = FlattenSeq(RoundsOf(q))
  BY SequencesAreMonoid, RoundsTyped
<1> HIDE DEF T
<1>4. \A r \in 1 .. Len(RoundsOf(q)) : RoundsOf(q)[r] = <<>>
  BY <1>2, <1>3 DEF RoundsOf
<1> QED
  BY <1>3, <1>4, FlattenNothing

--------------------------------------------------------------------------------
\* What dequeuePrompt leaves.
LEMMA DequeueQueued ==
  ASSUME NEW q \in Queues, Matched(q), OwnLanes(q), HasQueue(q)
  PROVE  /\ Dequeue(q) \in Queues /\ Matched(Dequeue(q)) /\ OwnLanes(Dequeue(q))
         /\ NextPrompt(q) \in Queued(q)
         /\ Queued(Dequeue(q)) = Queued(q) \ {NextPrompt(q)}
         /\ \A c \in Chats : Len(Dequeue(q).lanes[c]) <= Len(q.lanes[c])
<1> DEFINE c == ServedChat(q)
           d == Dequeue(q)
           p == NextPrompt(q)
           left == Tail(q.lanes[c])
<1>1. /\ Servable(q) # {} /\ c \in Chats /\ q.lanes[c] \in Seq(Prompts) /\ q.lanes[c] # <<>>
      /\ d \in Queues /\ q.lanes \in [Chats -> Seq(Prompts)] /\ p = Head(q.lanes[c])
  BY ServesFront, ServedIndexFound, DequeueTyped DEF Queues, NextPrompt
<1>2. d.lanes = [q.lanes EXCEPT ![c] = left] /\ Matched(d)
  BY DequeueEffect
<1>3. Distinct(q.lanes[c]) /\ \A x \in ToSet(q.lanes[c]) : Chat[x] = c
  BY <1>1 DEF OwnLanes
<1>4. /\ left \in Seq(Prompts) /\ Distinct(left) /\ ToSet(left) = ToSet(q.lanes[c]) \ {p}
      /\ p \in ToSet(q.lanes[c])
  BY <1>1, <1>3, TailDistinct
<1>5. \A x \in ToSet(left) : Chat[x] = c
  BY <1>3, <1>4
<1>6. Len(left) <= Len(q.lanes[c])
  BY <1>1
<1>7. \A e \in Chats : Len(d.lanes[e]) <= Len(q.lanes[e])
  BY <1>1, <1>2, <1>6 DEF Queues
<1> HIDE DEF left, d, p, c
<1>8. OwnLanes(d) /\ Queued(d) = {x \in Queued(q) : Chat[x] # c} \cup ToSet(left)
  BY <1>1, <1>2, <1>4, <1>5, LaneChange
<1>9. {x \in Queued(q) : Chat[x] = c} = ToSet(q.lanes[c])
  <2>1. \A e \in Chats : \A x \in ToSet(q.lanes[e]) : Chat[x] = e
    BY DEF OwnLanes
  <2> QED
    BY <1>1, <2>1 DEF Queued
<1>10. Queued(d) = Queued(q) \ {p} /\ p \in Queued(q)
  BY <1>3, <1>4, <1>8, <1>9
<1> QED
  BY <1>1, <1>2, <1>7, <1>8, <1>10 DEF d, p

\* What a drain goes through: a queue in order and what it has given so far.
DrainStates ==
  {state \in [q : Queues, out : Seq(Prompts)] :
     /\ Matched(state.q) /\ OwnLanes(state.q) /\ IsFiniteSet(Queued(state.q))
     /\ \A c \in Chats : Len(state.q.lanes[c]) <= LaneCap}

\* What is given and what the preview of the rest shows.
Promised(state) == Cat(state.out, Preview(state.q))

\* A call of dequeuePrompt gives what the preview shows first.
LEMMA ServedKeepsPromise ==
  ASSUME NEW state \in DrainStates
  PROVE  /\ Served(state) \in DrainStates
         /\ Promised(Served(state)) = Promised(state)
         /\ HasQueue(state.q) => Depth(Served(state).q) + 1 <= Depth(state.q)
         /\ ~HasQueue(state.q) => Served(state) = state
<1> DEFINE q == state.q
           d == Dequeue(q)
           p == NextPrompt(q)
           out == state.out
<1>1. /\ q \in Queues /\ out \in Seq(Prompts) /\ Matched(q) /\ OwnLanes(q)
      /\ IsFiniteSet(Queued(q)) /\ \A c \in Chats : Len(q.lanes[c]) <= LaneCap
  BY DEF DrainStates
<1>2. CASE ~HasQueue(q)
  BY <1>2 DEF Served
<1>3. CASE HasQueue(q)
  <2>1. Served(state) = [q |-> d, out |-> Append(out, p)]
    BY <1>3 DEF Served
  <2>2. Servable(q) # {} /\ ServedChat(q) \in Chats /\ p \in Prompts
    BY <1>1, <1>3, ServesFront, ServedIndexFound
  <2>3. Preview(q) = Cat(<<p>>, Preview(d))
    BY <1>1, <1>3, <2>2, PreviewServed
  <2>4. /\ d \in Queues /\ Matched(d) /\ OwnLanes(d) /\ p \in Queued(q)
        /\ Queued(d) = Queued(q) \ {p}
        /\ \A c \in Chats : Len(d.lanes[c]) <= Len(q.lanes[c])
    BY <1>1, <1>3, DequeueQueued
  <2>5. Preview(d) \in Seq(Prompts)
    BY <2>4, RoundsTyped
  <2> HIDE DEF q, d, p, out
  <2>6. \A c \in Chats : Len(d.lanes[c]) <= LaneCap
    <3> TAKE c \in Chats
    <3>1. Len(d.lanes[c]) \in Nat /\ Len(q.lanes[c]) \in Nat
      BY <1>1, <2>4 DEF Queues
    <3> QED
      BY <1>1, <2>4, <3>1, CapAssumption
  <2>7. IsFiniteSet(Queued(d)) /\ Cardinality(Queued(d)) = Cardinality(Queued(q)) - 1
    BY <1>1, <2>4, FS_RemoveElement
  <2>8. Cardinality(Queued(q)) \in Nat
    BY <1>1, FS_CardinalityType
  <2>9. Append(out, p) \in Seq(Prompts) /\ Append(out, p) = Cat(out, <<p>>) /\ <<p>> \in Seq(Prompts)
    BY <1>1, <2>2, AppendIsConcat DEF Cat
  <2>10. Served(state) \in DrainStates
    <3> DEFINE given == Append(out, p)
               after == [q |-> d, out |-> given]
    <3>1. after \in [q : Queues, out : Seq(Prompts)] /\ after.q = d
      BY <2>4, <2>9
    <3> HIDE DEF after
    <3>2. after \in DrainStates
      BY <2>4, <2>6, <2>7, <3>1 DEF DrainStates
    <3> QED
      BY <2>1, <3>2 DEF after
  <2>11. Depth(Served(state).q) + 1 <= Depth(q)
    BY <2>1, <2>7, <2>8 DEF Depth
  <2>12. Promised(Served(state)) = Cat(Append(out, p), Preview(d))
    BY <2>1 DEF Promised
  <2>13. Monoid(Seq(Prompts))
    BY SequencesAreMonoid
  <2>14. Assoc(out, <<p>>, Preview(d))
    BY <1>1, <2>5, <2>9, <2>13, Associates
  <2>15. Promised(state) = Cat(out, Preview(q))
    BY DEF Promised, out, q
  <2>16. Promised(Served(state)) = Promised(state)
    BY Zenon, <2>3, <2>9, <2>12, <2>14, <2>15 DEF Assoc
  <2> QED
    BY <1>3, <2>10, <2>11, <2>16 DEF q
<1> QED
  BY <1>2, <1>3

\* f goes through the drain of b.
Drains(f, b, n) == f = [i \in 0 .. n |-> IF i = 0 THEN b ELSE Served(f[i - 1])]

DrainSteps(f, b, n) == f[0] = b /\ \A i \in 1 .. n : f[i] = Served(f[i - 1])

LEMMA DrainsStep ==
  ASSUME NEW f, NEW b, NEW n \in Nat, Drains(f, b, n)
  PROVE  DrainSteps(f, b, n)
<1>1. \A i \in 0 .. n : f[i] = IF i = 0 THEN b ELSE Served(f[i - 1])
  BY Zenon DEF Drains
<1>2. f[0] = b
  <2>1. 0 \in 0 .. n
    OBVIOUS
  <2> QED
    BY Zenon, <1>1, <2>1
<1>3. \A i \in 1 .. n : f[i] = Served(f[i - 1])
  <2> TAKE i \in 1 .. n
  <2>1. i \in 0 .. n /\ i # 0
    OBVIOUS
  <2> QED
    BY Zenon, <1>1, <2>1
<1> QED
  BY <1>2, <1>3 DEF DrainSteps

\* The drain is defined: the recursion in DrainOrder has a solution.
LEMMA DrainDefined ==
  ASSUME NEW b, NEW n \in Nat
  PROVE  \E f : Drains(f, b, n)
<1> DEFINE Some(m) == \E f : Drains(f, b, m)
           Bad == {m \in Nat : ~Some(m)}
<1>1. Bad \in SUBSET Nat /\ \A m \in Nat : m \in Bad <=> ~Some(m)
  OBVIOUS
<1>2. Some(0)
  <2> DEFINE f == [i \in 0 .. 0 |-> b]
  <2>1. f = [i \in 0 .. 0 |-> IF i = 0 THEN b ELSE Served(f[i - 1])]
    OBVIOUS
  <2> HIDE DEF f
  <2>2. Drains(f, b, 0)
    BY <2>1 DEF Drains
  <2> QED
    BY <2>2
<1>3. ASSUME NEW m \in Nat, Some(m) PROVE Some(m + 1)
  <2>1. PICK f : Drains(f, b, m)
    BY <1>3
  <2>2. DrainSteps(f, b, m)
    BY <2>1, DrainsStep
  <2> DEFINE g == [i \in 0 .. m + 1 |-> IF i <= m THEN f[i] ELSE Served(f[m])]
  <2>3. (\A i \in 0 .. m : g[i] = f[i]) /\ g[m + 1] = Served(f[m])
    OBVIOUS
  <2>4. g = [i \in 0 .. m + 1 |-> g[i]]
    OBVIOUS
  <2> HIDE DEF g
  <2>5. ASSUME NEW i \in 0 .. m + 1 PROVE g[i] = IF i = 0 THEN b ELSE Served(g[i - 1])
    <3>1. CASE i = 0
      BY <2>2, <2>3, <3>1 DEF DrainSteps
    <3>2. CASE i = m + 1
      <4>1. i # 0 /\ i - 1 = m /\ m \in 0 .. m
        BY <3>2
      <4>2. g[m] = f[m]
        BY <2>3, <4>1
      <4> QED
        BY Zenon, <2>3, <3>2, <4>1, <4>2
    <3>3. CASE i # 0 /\ i # m + 1
      <4>1. i \in 1 .. m /\ i \in 0 .. m /\ i - 1 \in 0 .. m
        BY <3>3
      <4>2. f[i] = Served(f[i - 1])
        BY <2>2, <4>1 DEF DrainSteps
      <4>3. g[i] = f[i] /\ g[i - 1] = f[i - 1]
        BY Zenon, <2>3, <4>1
      <4> QED
        BY Zenon, <3>3, <4>2, <4>3
    <3> QED
      BY <3>1, <3>2, <3>3
  <2>6. Drains(g, b, m + 1)
    BY Zenon, <2>4, <2>5 DEF Drains
  <2> QED
    BY <2>6
<1> HIDE DEF Bad, Some
<1>4. Bad = {}
  <2> SUFFICES ASSUME Bad # {} PROVE FALSE
    OBVIOUS
  <2>1. PICK m \in Bad : \A k \in Bad : m <= k
    BY <1>1, LeastIndex
  <2>2. m \in Nat /\ ~Some(m)
    BY <1>1
  <2>3. m # 0
    BY <1>2, <2>2
  <2>4. m - 1 \in Nat /\ m - 1 < m /\ (m - 1) + 1 = m
    BY <2>2, <2>3
  <2>5. Some(m - 1)
    BY <1>1, <2>1, <2>2, <2>4
  <2> QED
    BY <1>3, <2>2, <2>4, <2>5
<1>5. Some(n)
  BY <1>1, <1>4
<1> QED
  BY <1>5 DEF Some

\* After i calls, i prompts fewer wait, and what was given and what is left are
\* what the preview showed at first.
LEMMA DrainKeepsPromise ==
  ASSUME NEW b \in DrainStates, NEW n \in Nat, NEW f, DrainSteps(f, b, n), NEW k \in 0 .. n
  PROVE  /\ f[k] \in DrainStates
         /\ Promised(f[k]) = Promised(b)
         /\ HasQueue(f[k].q) => Depth(f[k].q) + k <= Depth(b.q)
<1> DEFINE Kept(i) == /\ f[i] \in DrainStates
                      /\ Promised(f[i]) = Promised(b)
                      /\ HasQueue(f[i].q) => Depth(f[i].q) + i <= Depth(b.q)
           Bad == {i \in 0 .. n : ~Kept(i)}
<1>1. Bad \in SUBSET Nat /\ \A i \in 0 .. n : i \in Bad <=> ~Kept(i)
  OBVIOUS
<1>2. f[0] = b /\ \A i \in 1 .. n : f[i] = Served(f[i - 1])
  BY DEF DrainSteps
<1>3. \A s \in DrainStates : Depth(s.q) \in Nat
  BY FS_CardinalityType DEF DrainStates, Depth
<1>4. Kept(0)
  BY <1>2, <1>3
<1>5. ASSUME NEW i \in 1 .. n, Kept(i - 1) PROVE Kept(i)
  <2> DEFINE s == f[i - 1]
             t == f[i]
  <2>1. s \in DrainStates /\ t = Served(s) /\ Promised(s) = Promised(b)
        /\ (HasQueue(s.q) => Depth(s.q) + (i - 1) <= Depth(b.q))
    BY <1>2, <1>5
  <2> HIDE DEF s, t
  <2>2. /\ t \in DrainStates /\ Promised(t) = Promised(b)
        /\ HasQueue(s.q) => Depth(t.q) + 1 <= Depth(s.q)
        /\ ~HasQueue(s.q) => t = s
    BY Zenon, <2>1, ServedKeepsPromise
  <2>3. Depth(t.q) \in Nat /\ Depth(s.q) \in Nat /\ Depth(b.q) \in Nat
    BY <1>3, <2>1, <2>2
  <2>4. HasQueue(t.q) => HasQueue(s.q)
    BY <2>2
  <2>5. HasQueue(t.q) => Depth(t.q) + i <= Depth(b.q)
    BY <2>1, <2>2, <2>3, <2>4
  <2> QED
    BY <2>2, <2>5 DEF t
<1> HIDE DEF Bad, Kept
<1>6. Bad = {}
  <2> SUFFICES ASSUME Bad # {} PROVE FALSE
    OBVIOUS
  <2>1. PICK m \in Bad : \A j \in Bad : m <= j
    BY <1>1, LeastIndex
  <2>2. m \in 0 .. n /\ ~Kept(m)
    <3>1. m \in 0 .. n
      BY DEF Bad
    <3> QED
      BY <1>1, <3>1
  <2>3. m # 0
    BY <1>4, <2>2
  <2>4. m - 1 \in 0 .. n /\ m - 1 < m /\ m \in 1 .. n
    BY <2>2, <2>3
  <2>5. Kept(m - 1)
    BY <1>1, <2>1, <2>2, <2>4
  <2> QED
    BY <1>5, <2>2, <2>4, <2>5
<1>7. Kept(k)
  BY <1>1, <1>6
<1> QED
  BY <1>7 DEF Kept

\* At the caps a drain is complete, and has given what the preview showed.
LEMMA PreviewHolds == LanesInv /\ Arrivals => PreviewIsAdmissionOrder
<1> SUFFICES ASSUME LanesInv, Arrivals PROVE PreviewIsAdmissionOrder
  OBVIOUS
<1> DEFINE b == [q |-> queue, out |-> <<>>]
           h == CHOOSE f : f = [i \in 0 .. AgentCap |-> IF i = 0 THEN b ELSE Served(f[i - 1])]
<1>1. DrainOrder = h[AgentCap].out
  BY DEF DrainOrder
<1>2. AgentCap \in Nat /\ AgentCap \in 0 .. AgentCap
  BY CapAssumption
<1>3. Drains(h, b, AgentCap)
  <2>1. \E f : Drains(f, b, AgentCap)
    BY <1>2, DrainDefined
  <2> QED
    BY <2>1 DEF Drains
<1> HIDE DEF h
<1>4. DrainSteps(h, b, AgentCap)
  BY <1>2, <1>3, DrainsStep
<1>5. /\ queue \in Queues /\ Matched(queue) /\ OwnLanes(queue) /\ arrived \in Seq(Prompts)
      /\ ToSet(arrived) = Queued(queue) /\ Len(arrived) <= AgentCap
      /\ \A c \in Chats : Len(queue.lanes[c]) <= LaneCap
  BY MatchedIsRotation DEF LanesInv, LaneTypeOK, WaitsOnce, Arrivals
<1>6. IsFiniteSet(Queued(queue))
  BY ArrivedIsDepth
<1>7. b \in DrainStates /\ Depth(queue) <= AgentCap
  BY <1>5, <1>6, ArrivedIsDepth DEF DrainStates
<1> DEFINE e == h[AgentCap]
<1>8. /\ e \in DrainStates /\ Promised(e) = Promised(b)
      /\ HasQueue(e.q) => Depth(e.q) + AgentCap <= Depth(b.q)
  BY <1>2, <1>4, <1>7, DrainKeepsPromise
<1>9. /\ e.q \in Queues /\ Matched(e.q) /\ e.out \in Seq(Prompts) /\ IsFiniteSet(Queued(e.q))
  BY <1>8 DEF DrainStates
<1>10. ~HasQueue(e.q)
  <2> SUFFICES ASSUME HasQueue(e.q) PROVE FALSE
    OBVIOUS
  <2>1. NextPrompt(e.q) \in Queued(e.q)
    BY <1>8, DequeueQueued DEF DrainStates
  <2>2. Depth(e.q) \in Nat /\ Depth(e.q) # 0
    BY <1>9, <2>1, FS_CardinalityType, FS_EmptySet DEF Depth
  <2>3. Depth(b.q) = Depth(queue) /\ Depth(queue) \in Nat
    BY <1>6, FS_CardinalityType DEF Depth
  <2> QED
    BY <1>2, <1>7, <1>8, <2>2, <2>3
<1>11. Preview(e.q) = <<>>
  BY <1>9, <1>10, PreviewNothing
<1>12. Preview(queue) \in Seq(Prompts)
  BY <1>5, RoundsTyped
<1>13. Monoid(Seq(Prompts))
  BY SequencesAreMonoid
<1>14. Promised(e) = e.out
  BY Zenon, <1>9, <1>11, <1>13 DEF Promised, Monoid
<1>15. Promised(b) = Preview(queue)
  <2>1. Promised(b) = Cat(<<>>, Preview(queue))
    BY DEF Promised
  <2> QED
    BY Zenon, <1>12, <1>13, <2>1 DEF Monoid
<1> QED
  BY <1>1, <1>8, <1>14, <1>15 DEF PreviewIsAdmissionOrder

\* The order the dashboard is shown is the order the prompts are served in, for
\* any chats, prompts and caps (queuedPrompts and dequeuePrompt, core.ts 1479-1536).
THEOREM PreviewIsServed == Spec => []PreviewIsAdmissionOrder
BY LanesInit, LanesStep, ArrivalsInit, ArrivalsStep, PreviewHolds, PTL DEF Spec
================================================================================
