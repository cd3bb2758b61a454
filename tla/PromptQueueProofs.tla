--------------------------- MODULE PromptQueueProofs ---------------------------
(***************************************************************************)
(* Lemmas about the operations of PromptQueue: each yields a queue of the  *)
(* right type, and a queue whose rotation names exactly its lanes stays    *)
(* one.  PromptLanesProofs and BusCoreProofs cite them.                    *)
(***************************************************************************)
EXTENDS PromptQueue, WellFoundedInduction, TLAPS

\* A nonempty set of indices has a least one.
LEMMA LeastIndex ==
  ASSUME NEW T \in SUBSET Nat, T # {}
  PROVE  \E x \in T : \A y \in T : x <= y
<1>1. PICK x \in T : \A y \in T : ~(<<y, x>> \in OpToRel(<, Nat))
  BY NatLessThanWellFounded, WFMin
<1>2. \A y \in T : ~(y < x)
  BY <1>1 DEF OpToRel
<1> QED
  BY <1>2

\* FirstAt finds the first place of an element a sequence contains.
LEMMA FirstAtFinds ==
  ASSUME NEW S, NEW s \in Seq(S), NEW x, Contains(s, x)
  PROVE  /\ FirstAt(s, x) \in 1 .. Len(s)
         /\ s[FirstAt(s, x)] = x
         /\ \A j \in 1 .. FirstAt(s, x) - 1 : s[j] # x
<1> DEFINE T == {i \in 1 .. Len(s) : s[i] = x}
<1>1. T \in SUBSET Nat /\ T # {}
  BY DEF Contains
<1>2. PICK i \in T : \A j \in T : i <= j
  BY <1>1, LeastIndex
<1>3. i \in DOMAIN s /\ s[i] = x /\ \A j \in 1 .. i - 1 : s[j] # x
  BY <1>2
<1> QED
  BY <1>3 DEF FirstAt

\* RemoveAt takes one element out and closes the gap.
LEMMA RemoveAtSeq ==
  ASSUME NEW S, NEW s \in Seq(S), NEW i \in 1 .. Len(s)
  PROVE  /\ RemoveAt(s, i) \in Seq(S)
         /\ Len(RemoveAt(s, i)) = Len(s) - 1
         /\ \A j \in 1 .. Len(s) - 1 : RemoveAt(s, i)[j] = IF j < i THEN s[j] ELSE s[j + 1]
<1> DEFINE front == SubSeq(s, 1, i - 1)
           back  == SubSeq(s, i + 1, Len(s))
<1>1. /\ front \in Seq(S)
      /\ Len(front) = i - 1
      /\ \A j \in 1 .. i - 1 : front[j] = s[j]
  OBVIOUS
<1>2. /\ back \in Seq(S)
      /\ Len(back) = Len(s) - i
      /\ \A j \in 1 .. Len(s) - i : back[j] = s[i + j]
  OBVIOUS
<1> HIDE DEF front, back
<1>3. /\ front \o back \in Seq(S)
      /\ Len(front \o back) = Len(s) - 1
  BY <1>1, <1>2
<1>4. ASSUME NEW j \in 1 .. Len(s) - 1
      PROVE  (front \o back)[j] = IF j < i THEN s[j] ELSE s[j + 1]
  <2>1. CASE j < i
    BY <1>1, <1>2, <2>1
  <2>2. CASE ~(j < i)
    <3>1. j - (i - 1) \in 1 .. Len(s) - i
      BY <2>2
    <3>2. (front \o back)[j] = back[j - (i - 1)]
      BY <1>1, <1>2, <2>2
    <3>3. back[j - (i - 1)] = s[j + 1]
      BY <1>2, <3>1
    <3> QED
      BY <2>2, <3>2, <3>3
  <2> QED
    BY <2>1, <2>2
<1> QED
  BY <1>3, <1>4 DEF RemoveAt, front, back

\* No element of s occurs twice.
Distinct(s) == \A i, j \in DOMAIN s : i # j => s[i] # s[j]

\* Taking the first occurrence of an element out of a sequence of distinct
\* elements leaves the others, in their order.
LEMMA RemoveDistinct ==
  ASSUME NEW S, NEW s \in Seq(S), Distinct(s), NEW x, Contains(s, x)
  PROVE  LET r == RemoveAt(s, FirstAt(s, x))
         IN  r \in Seq(S) /\ Distinct(r) /\ ToSet(r) = ToSet(s) \ {x}
<1> DEFINE i == FirstAt(s, x)
           r == RemoveAt(s, i)
<1>1. i \in 1 .. Len(s) /\ s[i] = x
  BY FirstAtFinds
<1> HIDE DEF i
<1>2. /\ r \in Seq(S)
      /\ Len(r) = Len(s) - 1
      /\ \A j \in 1 .. Len(s) - 1 : r[j] = IF j < i THEN s[j] ELSE s[j + 1]
  BY <1>1, RemoveAtSeq
<1> HIDE DEF r
<1>3. Distinct(r)
  BY <1>1, <1>2 DEF Distinct
<1>4. ToSet(r) \subseteq ToSet(s) \ {x}
  BY <1>1, <1>2 DEF Distinct, ToSet
<1>5. ToSet(s) \ {x} \subseteq ToSet(r)
  <2> SUFFICES ASSUME NEW j \in 1 .. Len(s), s[j] # x
               PROVE  \E k \in DOMAIN r : r[k] = s[j]
    BY DEF ToSet
  <2>1. CASE j < i
    BY <1>1, <1>2, <2>1
  <2>2. CASE j > i
    <3>1. j - 1 \in 1 .. Len(s) - 1 /\ ~(j - 1 < i) /\ (j - 1) + 1 = j
      BY <1>1, <2>2
    <3>2. r[j - 1] = s[j]
      BY <1>2, <3>1
    <3> QED
      BY <1>2, <3>1, <3>2
  <2> QED
    BY <1>1, <2>1, <2>2
<1> QED
  BY <1>2, <1>3, <1>4, <1>5 DEF r, i

--------------------------------------------------------------------------------
(* Types *)

LEMMA EmptyQueueTyped == EmptyQueue \in Queues
BY DEF EmptyQueue, Queues

LEMMA AddLaneTyped ==
  ASSUME NEW q \in Queues, NEW c \in Chats
  PROVE  AddLane(q, c) \in Queues
<1>1. q.keys \cup {c} \in SUBSET Chats /\ Append(q.order, c) \in Seq(Chats)
  BY DEF Queues
<1>2. [q EXCEPT !.keys = @ \cup {c}, !.order = Append(@, c)] \in Queues
  BY <1>1 DEF Queues
<1> QED
  BY <1>2 DEF AddLane

LEMMA DropLaneTyped ==
  ASSUME NEW q \in Queues, NEW c \in Chats
  PROVE  DropLane(q, c) \in Queues
<1> DEFINE i == FirstAt(q.order, c)
           rest == RemoveAt(q.order, i)
<1>1. q.order \in Seq(Chats) /\ q.lanes \in [Chats -> Seq(Prompts)] /\ q.keys \in SUBSET Chats
  BY DEF Queues
<1>2. Contains(q.order, c) => rest \in Seq(Chats)
  BY <1>1, FirstAtFinds, RemoveAtSeq
<1> HIDE DEF rest
<1> DEFINE order == IF Contains(q.order, c) THEN rest ELSE q.order
<1>3. order \in Seq(Chats)
  BY <1>1, <1>2
<1> HIDE DEF order
<1> QED
  BY <1>1, <1>3 DEF Queues, DropLane, order, rest

LEMMA EnqueueTyped ==
  ASSUME NEW q \in Queues, NEW p \in Prompts
  PROVE  Enqueue(q, p) \in Queues
<1> DEFINE c == Chat[p]
           added == AddLane(q, c)
<1>1. c \in Chats
  BY ChatAssumption
<1> HIDE DEF c
<1>2. added \in Queues
  BY <1>1, AddLaneTyped
<1> HIDE DEF added
<1>3. [added EXCEPT !.lanes[c] = Append(@, p)] \in Queues
  <2>1. added.lanes[c] \in Seq(Prompts)
    BY <1>1, <1>2 DEF Queues
  <2>2. Append(added.lanes[c], p) \in Seq(Prompts)
    BY <2>1
  <2> QED
    BY <1>1, <1>2, <2>2 DEF Queues
<1>4. DropLane(added, c) \in Queues
  BY <1>1, <1>2, DropLaneTyped
<1> QED
  BY <1>2, <1>3, <1>4 DEF Enqueue, added, c

\* dequeuePrompt stops at a lane of the rotation that has prompts.
LEMMA ServedIndexFound ==
  ASSUME NEW q \in Queues, Servable(q) # {}
  PROVE  /\ ServedIndex(q) \in Servable(q)
         /\ ServedChat(q) \in Chats
         /\ q.lanes[ServedChat(q)] \in Seq(Prompts)
         /\ q.lanes[ServedChat(q)] # <<>>
         /\ NextPrompt(q) \in Prompts
<1>1. Servable(q) \in SUBSET Nat
  BY DEF Servable, Queues
<1>2. PICK i \in Servable(q) : \A j \in Servable(q) : i <= j
  BY <1>1, LeastIndex
<1>3. ServedIndex(q) \in Servable(q)
  BY <1>2 DEF ServedIndex
<1>4. ServedChat(q) \in Chats /\ q.lanes[ServedChat(q)] # <<>>
  BY <1>3 DEF Servable, ServedChat, Queues
<1>5. q.lanes[ServedChat(q)] \in Seq(Prompts)
  BY <1>4 DEF Queues
<1> QED
  BY <1>3, <1>4, <1>5 DEF NextPrompt

LEMMA DequeueTyped ==
  ASSUME NEW q \in Queues
  PROVE  Dequeue(q) \in Queues
<1>1. CASE Servable(q) = {}
  BY <1>1, EmptyQueueTyped DEF Dequeue
<1>2. CASE Servable(q) # {}
  <2> DEFINE c      == ServedChat(q)
             passed == {q.order[i] : i \in 1 .. ServedIndex(q) - 1}
             rest   == SubSeq(q.order, ServedIndex(q) + 1, Len(q.order))
             left   == Tail(q.lanes[c])
             keys   == (q.keys \ passed) \ (IF left = <<>> THEN {c} ELSE {})
  <2>1. ServedIndex(q) \in 1 .. Len(q.order)
    <3>1. ServedIndex(q) \in DOMAIN q.order
      BY <1>2, ServedIndexFound DEF Servable
    <3>2. q.order \in Seq(Chats)
      BY DEF Queues
    <3> QED
      BY <3>1, <3>2
  <2>2. c \in Chats /\ q.lanes[c] \in Seq(Prompts) /\ q.lanes[c] # <<>>
    BY <1>2, ServedIndexFound
  <2>3. rest \in Seq(Chats)
    BY <2>1 DEF Queues
  <2>4. left \in Seq(Prompts)
    BY <2>2
  <2>5. keys \in SUBSET Chats
    BY DEF Queues
  <2> HIDE DEF c, rest, left, keys
  <2>6. [q.lanes EXCEPT ![c] = left] \in [Chats -> Seq(Prompts)]
    BY <2>2, <2>4 DEF Queues
  <2>7. (IF left = <<>> THEN rest ELSE Append(rest, c)) \in Seq(Chats)
    BY <2>2, <2>3
  <2>8. Dequeue(q) = [keys |-> keys, lanes |-> [q.lanes EXCEPT ![c] = left],
                      order |-> IF left = <<>> THEN rest ELSE Append(rest, c)]
    BY <1>2 DEF Dequeue, c, rest, left, keys
  <2> QED
    BY <2>5, <2>6, <2>7, <2>8 DEF Queues
<1> QED
  BY <1>1, <1>2

--------------------------------------------------------------------------------
(* The rotation *)

\* The rotation names every lane once, and no lane is empty.
Matched(q) ==
  /\ ToSet(q.order) = q.keys
  /\ Distinct(q.order)
  /\ \A c \in Chats : c \in q.keys <=> q.lanes[c] # <<>>

\* A lane holds prompts of its own chat, each once.
OwnLanes(q) ==
  \A c \in Chats : Distinct(q.lanes[c]) /\ \A p \in ToSet(q.lanes[c]) : Chat[p] = c

LEMMA EmptyQueueMatched == Matched(EmptyQueue) /\ OwnLanes(EmptyQueue)
BY DEF Matched, OwnLanes, Distinct, EmptyQueue, ToSet

\* The lane of a chat goes, the others and their order stay.
LEMMA DropLaneMatched ==
  ASSUME NEW q \in Queues, NEW c \in Chats, ToSet(q.order) = q.keys, Distinct(q.order)
  PROVE  LET d == DropLane(q, c)
         IN  /\ d.keys = q.keys \ {c} /\ ToSet(d.order) = d.keys /\ Distinct(d.order)
             /\ d.lanes = [q.lanes EXCEPT ![c] = <<>>]
<1> DEFINE order == IF Contains(q.order, c) THEN RemoveAt(q.order, FirstAt(q.order, c)) ELSE q.order
<1>1. q.order \in Seq(Chats)
  BY DEF Queues
<1>2. CASE Contains(q.order, c)
  <2>1. Distinct(order) /\ ToSet(order) = ToSet(q.order) \ {c}
    BY <1>1, <1>2, RemoveDistinct
  <2> QED
    BY <2>1 DEF DropLane, order
<1>3. CASE ~Contains(q.order, c)
  <2>1. c \notin ToSet(q.order)
    BY <1>1, <1>3 DEF Contains, ToSet
  <2> QED
    BY <1>3, <2>1 DEF DropLane, order
<1> QED
  BY <1>2, <1>3

\* An appended chat that was not in the rotation.
LEMMA AppendDistinct ==
  ASSUME NEW S, NEW s \in Seq(S), Distinct(s), NEW x \in S, x \notin ToSet(s)
  PROVE  Distinct(Append(s, x)) /\ ToSet(Append(s, x)) = ToSet(s) \cup {x}
<1>1. /\ Append(s, x) \in Seq(S)
      /\ Len(Append(s, x)) = Len(s) + 1
      /\ \A i \in 1 .. Len(s) : Append(s, x)[i] = s[i]
      /\ Append(s, x)[Len(s) + 1] = x
  OBVIOUS
<1> DEFINE a == Append(s, x)
<1> HIDE DEF a
<1>2. /\ Len(a) = Len(s) + 1 /\ DOMAIN a = 1 .. Len(s) + 1
      /\ \A i \in 1 .. Len(s) : a[i] = s[i]
      /\ a[Len(s) + 1] = x
  BY <1>1 DEF a
<1>3. Distinct(a)
  BY <1>2 DEF Distinct, ToSet
<1>4. ToSet(a) = ToSet(s) \cup {x}
  <2>1. ToSet(a) \subseteq ToSet(s) \cup {x}
    BY <1>2 DEF ToSet
  <2>2. ToSet(s) \cup {x} \subseteq ToSet(a)
    BY <1>2 DEF ToSet
  <2> QED
    BY <2>1, <2>2
<1> QED
  BY <1>3, <1>4 DEF a

LEMMA RemoveAppended ==
  ASSUME NEW S, NEW s \in Seq(S), NEW x \in S, x \notin ToSet(s)
  PROVE  /\ Contains(Append(s, x), x)
         /\ RemoveAt(Append(s, x), FirstAt(Append(s, x), x)) = s
<1> DEFINE a == Append(s, x)
           i == FirstAt(a, x)
           r == RemoveAt(a, i)
<1>1. /\ a \in Seq(S)
      /\ Len(a) = Len(s) + 1
      /\ \A j \in 1 .. Len(s) : a[j] = s[j]
      /\ a[Len(s) + 1] = x
  OBVIOUS
<1> HIDE DEF a
<1>2. Contains(a, x)
  BY <1>1 DEF Contains
<1>3. i \in 1 .. Len(a) /\ a[i] = x
  BY <1>1, <1>2, FirstAtFinds
<1>4. i = Len(s) + 1
  BY <1>1, <1>3 DEF ToSet
<1> HIDE DEF i
<1>5. /\ r \in Seq(S)
      /\ Len(r) = Len(s)
      /\ \A j \in 1 .. Len(s) : r[j] = s[j]
  <2>1. /\ r \in Seq(S)
        /\ Len(r) = Len(a) - 1
        /\ \A j \in 1 .. Len(a) - 1 : r[j] = IF j < i THEN a[j] ELSE a[j + 1]
    BY <1>1, <1>3, RemoveAtSeq
  <2> HIDE DEF r
  <2> QED
    BY <1>1, <1>4, <2>1
<1> HIDE DEF r
<1>6. r = s
  BY <1>5
<1> QED
  BY <1>2, <1>6 DEF r, i, a

\* A refused prompt leaves the queue as it was; an accepted one goes to the end
\* of its lane, and a chat without a lane to the end of the rotation.
LEMMA EnqueueEffect ==
  ASSUME NEW q \in Queues, Matched(q), NEW p \in Prompts
  PROVE  /\ Refuses(q, p) => Enqueue(q, p) = q
         /\ ~Refuses(q, p) =>
              /\ Enqueue(q, p).lanes = [q.lanes EXCEPT ![Chat[p]] = Append(@, p)]
              /\ Enqueue(q, p).order = IF Chat[p] \in q.keys THEN q.order ELSE Append(q.order, Chat[p])
              /\ Matched(Enqueue(q, p))
<1> DEFINE c     == Chat[p]
           added == AddLane(q, c)
<1>1. c \in Chats
  BY ChatAssumption
<1> HIDE DEF c
<1>2. /\ q.order \in Seq(Chats) /\ q.lanes \in [Chats -> Seq(Prompts)] /\ q.keys \in SUBSET Chats
      /\ added \in Queues
  BY <1>1, AddLaneTyped DEF Queues
<1>3. /\ added.keys = q.keys \cup {c}
      /\ added.lanes = q.lanes
      /\ added.order = IF c \in q.keys THEN q.order ELSE Append(q.order, c)
      /\ c \in q.keys => added = q
  BY <1>1 DEF AddLane, Queues
<1>4. ToSet(added.order) = added.keys /\ Distinct(added.order)
  <2>1. CASE c \in q.keys
    BY <1>3, <2>1 DEF Matched
  <2>2. CASE c \notin q.keys
    BY <1>1, <1>2, <1>3, <2>2, AppendDistinct DEF Matched
  <2> QED
    BY <2>1, <2>2
<1>5. Refuses(q, p) = Full(added, c)
  BY DEF Refuses, added, c
<1> HIDE DEF added
<1>6. CASE Full(added, c) /\ added.lanes[c] = <<>>
  <2>1. c \notin q.keys
    BY <1>1, <1>3, <1>6 DEF Matched
  <2>2. Enqueue(q, p) = DropLane(added, c)
    BY <1>6 DEF Enqueue, added, c
  <2>3. LET d == DropLane(added, c)
        IN  /\ d.keys = added.keys \ {c} /\ ToSet(d.order) = d.keys /\ Distinct(d.order)
            /\ d.lanes = [added.lanes EXCEPT ![c] = <<>>]
    BY <1>1, <1>2, <1>4, DropLaneMatched
  <2>4. Enqueue(q, p).lanes = q.lanes /\ Enqueue(q, p).keys = q.keys
    BY <1>1, <1>2, <1>3, <1>6, <2>1, <2>2, <2>3
  <2>5. c \notin ToSet(q.order)
    BY <2>1 DEF Matched
  <2>6. Enqueue(q, p).order = q.order
    BY <1>1, <1>2, <1>3, <2>1, <2>2, <2>5, RemoveAppended DEF DropLane
  <2>7. Enqueue(q, p) \in Queues
    BY EnqueueTyped
  <2>8. Enqueue(q, p) = q
    BY <2>4, <2>6, <2>7 DEF Queues
  <2> QED
    BY <1>5, <1>6, <2>8
<1>7. CASE Full(added, c) /\ added.lanes[c] # <<>>
  <2>1. c \in q.keys
    BY <1>1, <1>3, <1>7 DEF Matched
  <2>2. Enqueue(q, p) = q
    BY <1>3, <1>7, <2>1 DEF Enqueue, added, c
  <2> QED
    BY <1>5, <1>7, <2>2
<1>8. CASE ~Full(added, c)
  <2>1. Enqueue(q, p) = [added EXCEPT !.lanes[c] = Append(@, p)]
    BY <1>8 DEF Enqueue, added, c
  <2>2. /\ Enqueue(q, p).lanes = [q.lanes EXCEPT ![c] = Append(@, p)]
        /\ Enqueue(q, p).keys = added.keys
        /\ Enqueue(q, p).order = added.order
    BY <1>2, <1>3, <2>1 DEF Queues
  <2>3. Append(q.lanes[c], p) # <<>>
    <3>1. q.lanes[c] \in Seq(Prompts)
      BY <1>1, <1>2
    <3> QED
      BY <3>1
  <2>4. \A d \in Chats : d \in Enqueue(q, p).keys <=> Enqueue(q, p).lanes[d] # <<>>
    BY <1>1, <1>2, <1>3, <2>2, <2>3 DEF Matched
  <2> QED
    BY <1>3, <1>4, <1>5, <1>8, <2>2, <2>4 DEF Matched, c
<1> QED
  BY <1>6, <1>7, <1>8

\* With a matched rotation every lane has prompts, so the first is served.
LEMMA ServesFront ==
  ASSUME NEW q \in Queues, Matched(q), HasQueue(q)
  PROVE  /\ q.order \in Seq(Chats) /\ Len(q.order) > 0
         /\ Servable(q) = DOMAIN q.order
         /\ ServedIndex(q) = 1
         /\ ServedChat(q) = q.order[1]
         /\ ServedChat(q) \in q.keys
<1>1. q.order \in Seq(Chats) /\ q.order # <<>>
  BY DEF Matched, HasQueue, ToSet, Queues
<1>2. Servable(q) = DOMAIN q.order
  BY <1>1 DEF Servable, Matched, ToSet
<1>3. 1 \in Servable(q) /\ \A i \in Servable(q) : 1 <= i
  BY <1>1, <1>2
<1>4. ServedIndex(q) \in Servable(q)
  BY <1>3, ServedIndexFound
<1>5. ServedIndex(q) = 1
  BY <1>1, <1>2, <1>3 DEF ServedIndex
<1> QED
  BY <1>1, <1>2, <1>5 DEF ServedChat, Matched, ToSet

\* dequeuePrompt takes the front chat's oldest prompt and sends the chat to the
\* back of the rotation, or out of it with its last one.
LEMMA DequeueEffect ==
  ASSUME NEW q \in Queues, Matched(q), HasQueue(q)
  PROVE  LET c == ServedChat(q)
             d == Dequeue(q)
         IN  /\ d.lanes = [q.lanes EXCEPT ![c] = Tail(@)]
             /\ d.order = IF Tail(q.lanes[c]) = <<>> THEN Tail(q.order) ELSE Append(Tail(q.order), c)
             /\ d.keys = q.keys \ (IF Tail(q.lanes[c]) = <<>> THEN {c} ELSE {})
             /\ Matched(d)
<1> DEFINE c    == ServedChat(q)
           d    == Dequeue(q)
           left == Tail(q.lanes[c])
           rest == Tail(q.order)
<1>1. /\ q.order \in Seq(Chats) /\ Len(q.order) > 0 /\ Servable(q) # {}
      /\ ServedIndex(q) = 1 /\ c = q.order[1] /\ c \in q.keys /\ c \in Chats
  BY ServesFront DEF Queues
<1>2. {q.order[i] : i \in 1 .. ServedIndex(q) - 1} = {}
  BY <1>1
<1>3. SubSeq(q.order, ServedIndex(q) + 1, Len(q.order)) = rest
  BY <1>1
<1>4. d = [keys  |-> q.keys \ (IF left = <<>> THEN {c} ELSE {}),
           lanes |-> [q.lanes EXCEPT ![c] = left],
           order |-> IF left = <<>> THEN rest ELSE Append(rest, c)]
  BY <1>1, <1>2, <1>3 DEF Dequeue
<1>5. /\ rest \in Seq(Chats)
      /\ Len(rest) = Len(q.order) - 1
      /\ \A i \in 1 .. Len(q.order) - 1 : rest[i] = q.order[i + 1]
  BY <1>1
<1> HIDE DEF c, d, left, rest
<1>6. Distinct(rest)
  BY <1>1, <1>5 DEF Distinct, Matched
<1>7. ToSet(rest) = q.keys \ {c}
  <2>1. ToSet(rest) \subseteq q.keys \ {c}
    BY <1>1, <1>5 DEF Matched, Distinct, ToSet
  <2>2. ASSUME NEW x \in q.keys, x # c
        PROVE  x \in ToSet(rest)
    <3>1. PICK i \in 1 .. Len(q.order) : q.order[i] = x
      BY <1>1 DEF Matched, ToSet
    <3>2. i - 1 \in 1 .. Len(rest) /\ rest[i - 1] = x
      BY <1>1, <1>5, <2>2, <3>1
    <3> QED
      BY <1>5, <3>2 DEF ToSet
  <2> QED
    BY <2>1, <2>2
<1>8. ToSet(d.order) = d.keys /\ Distinct(d.order)
  <2>1. CASE left = <<>>
    BY <1>4, <1>6, <1>7, <2>1
  <2>2. CASE left # <<>>
    BY <1>1, <1>4, <1>5, <1>6, <1>7, <2>2, AppendDistinct
  <2> QED
    BY <2>1, <2>2
<1>9. \A x \in Chats : x \in d.keys <=> d.lanes[x] # <<>>
  BY <1>1, <1>4 DEF Matched, Queues
<1>10. d.lanes = [q.lanes EXCEPT ![c] = Tail(@)]
  BY <1>4 DEF left
<1>11. Matched(d)
  BY <1>8, <1>9 DEF Matched
<1> QED
  BY <1>4, <1>10, <1>11 DEF c, d, left, rest

\* withdrawQueuedPrompt takes out one prompt of a lane, and the lane with its
\* last one.
LEMMA WithdrawEffect ==
  ASSUME NEW q \in Queues, Matched(q), NEW p \in Prompts, Contains(q.lanes[Chat[p]], p)
  PROVE  LET c    == Chat[p]
             i    == FirstAt(q.lanes[c], p)
             left == RemoveAt(q.lanes[c], i)
             d    == Withdraw(q, p)
         IN  /\ i \in 1 .. Len(q.lanes[c])
             /\ left \in Seq(Prompts)
             /\ d \in Queues
             /\ d.lanes = [q.lanes EXCEPT ![c] = left]
             /\ d.order = IF left = <<>> /\ Contains(q.order, c)
                            THEN RemoveAt(q.order, FirstAt(q.order, c)) ELSE q.order
             /\ Matched(d)
<1> DEFINE c    == Chat[p]
           i    == FirstAt(q.lanes[c], p)
           left == RemoveAt(q.lanes[c], i)
           d    == Withdraw(q, p)
<1>1. c \in Chats /\ q.lanes[c] \in Seq(Prompts) /\ q.order \in Seq(Chats)
  BY ChatAssumption DEF Queues
<1>2. i \in 1 .. Len(q.lanes[c]) /\ left \in Seq(Prompts)
  BY <1>1, FirstAtFinds, RemoveAtSeq
<1>3. c \in q.keys
  BY <1>1, <1>2 DEF Matched
<1>4. d = IF left = <<>> THEN DropLane(q, c) ELSE [q EXCEPT !.lanes[c] = left]
  BY DEF Withdraw
<1> HIDE DEF c, i, left, d
<1>5. CASE left = <<>>
  <2>1. /\ d \in Queues /\ d.keys = q.keys \ {c} /\ ToSet(d.order) = d.keys /\ Distinct(d.order)
        /\ d.lanes = [q.lanes EXCEPT ![c] = left]
    BY <1>1, <1>4, <1>5, DropLaneMatched, DropLaneTyped DEF Matched
  <2>2. d.order = IF Contains(q.order, c) THEN RemoveAt(q.order, FirstAt(q.order, c)) ELSE q.order
    BY <1>4, <1>5 DEF DropLane
  <2>3. Matched(d)
    BY <1>1, <1>5, <2>1 DEF Matched, Queues
  <2> QED
    BY <1>2, <1>5, <2>1, <2>2, <2>3 DEF c, i, left, d
<1>6. CASE left # <<>>
  <2>1. d = [q EXCEPT !.lanes[c] = left]
    BY <1>4, <1>6
  <2>2. d \in Queues /\ d.keys = q.keys /\ d.order = q.order /\ d.lanes = [q.lanes EXCEPT ![c] = left]
    BY <1>1, <1>2, <2>1 DEF Queues
  <2>3. Matched(d)
    BY <1>1, <1>3, <1>6, <2>2 DEF Matched, Queues
  <2> QED
    BY <1>2, <1>6, <2>2, <2>3 DEF c, i, left, d
<1> QED
  BY <1>5, <1>6

LEMMA TailDistinct ==
  ASSUME NEW S, NEW s \in Seq(S), s # <<>>, Distinct(s)
  PROVE  /\ Tail(s) \in Seq(S) /\ Distinct(Tail(s)) /\ ToSet(Tail(s)) = ToSet(s) \ {Head(s)}
         /\ Head(s) \in ToSet(s)
<1> DEFINE t == Tail(s)
<1>1. /\ t \in Seq(S) /\ Len(s) > 0 /\ Len(t) = Len(s) - 1 /\ Head(s) = s[1]
      /\ \A i \in 1 .. Len(s) - 1 : t[i] = s[i + 1]
  OBVIOUS
<1> HIDE DEF t
<1>2. Distinct(t)
  BY <1>1 DEF Distinct
<1>3. ToSet(t) \subseteq ToSet(s) \ {Head(s)}
  BY <1>1 DEF Distinct, ToSet
<1>4. ASSUME NEW i \in 1 .. Len(s), s[i] # Head(s)
      PROVE  s[i] \in ToSet(t)
  <2>1. i - 1 \in 1 .. Len(t) /\ t[i - 1] = s[i]
    BY <1>1, <1>4
  <2> QED
    BY <1>1, <2>1 DEF ToSet
<1>5. ToSet(s) \ {Head(s)} \subseteq ToSet(t)
  BY <1>1, <1>4 DEF ToSet
<1>6. Head(s) \in ToSet(s)
  BY <1>1 DEF ToSet
<1> QED
  BY <1>1, <1>2, <1>3, <1>5, <1>6 DEF t

\* The prompts waiting after one lane changed.
LEMMA LaneChange ==
  ASSUME NEW q \in Queues, NEW d \in Queues, OwnLanes(q),
         NEW c \in Chats, NEW lane \in Seq(Prompts),
         d.lanes = [q.lanes EXCEPT ![c] = lane],
         Distinct(lane), \A p \in ToSet(lane) : Chat[p] = c
  PROVE  /\ OwnLanes(d)
         /\ Queued(d) = {p \in Queued(q) : Chat[p] # c} \cup ToSet(lane)
<1>1. \A e \in Chats : d.lanes[e] = IF e = c THEN lane ELSE q.lanes[e]
  BY DEF Queues
<1>2. OwnLanes(d)
  BY <1>1 DEF OwnLanes
<1>3. Queued(d) \subseteq {p \in Queued(q) : Chat[p] # c} \cup ToSet(lane)
  BY <1>1 DEF OwnLanes, Queued
<1>4. {p \in Queued(q) : Chat[p] # c} \cup ToSet(lane) \subseteq Queued(d)
  BY <1>1 DEF OwnLanes, Queued
<1> QED
  BY <1>2, <1>3, <1>4
================================================================================
