------------------------------ MODULE PromptQueue ------------------------------
(***************************************************************************)
(* The prompt queue of one agent (src/bus/core.ts, issue #239): prompts    *)
(* that arrived while a turn was in flight, in one FIFO lane per chat, the *)
(* lanes served in rotation.  This module holds the queue's operations as  *)
(* operators on a queue value; PromptLanes makes a state machine of them   *)
(* and BusCore uses them inside its handlers.                              *)
(*                                                                         *)
(* A queue is a record of                                                  *)
(*    keys    the chats (`origin:origin_id`) that are keys of the lane Map *)
(*    lanes   each chat's waiting prompts, none for a chat without a key   *)
(*    order   the rotation, the chats in the order they are served         *)
(* The code deletes an agent's queue with its last lane and creates it     *)
(* with its first, so the queue exists exactly when it has a lane.         *)
(***************************************************************************)
EXTENDS Integers, Sequences, FiniteSets, SequencesExt

CONSTANTS Chats,      \* the origins prompts come from
          Prompts,    \* prompts, each one submission with its own promise id
          Chat,       \* the chat each prompt comes from
          LaneCap,    \* promptQueueCapPerOrigin
          AgentCap    \* promptQueueCapPerAgent

ASSUME ChatAssumption == Chat \in [Prompts -> Chats]
ASSUME CapAssumption == LaneCap \in Nat /\ AgentCap \in Nat

Queues == [keys : SUBSET Chats, lanes : [Chats -> Seq(Prompts)], order : Seq(Chats)]

EmptyQueue == [keys |-> {}, lanes |-> [c \in Chats |-> <<>>], order |-> <<>>]

HasQueue(q) == q.keys # {}

Queued(q) == UNION {ToSet(q.lanes[c]) : c \in Chats}

\* How many prompts wait in all lanes together (each is queued at most once).
Depth(q) == Cardinality(Queued(q))

--------------------------------------------------------------------------------
AddLane(q, c) ==
  IF c \in q.keys THEN q ELSE [q EXCEPT !.keys = @ \cup {c}, !.order = Append(@, c)]

FirstAt(s, x) == CHOOSE i \in DOMAIN s : s[i] = x /\ \A j \in 1 .. i - 1 : s[j] # x

\* dropLane: the lane leaves the Map and the rotation.
DropLane(q, c) ==
  [keys  |-> q.keys \ {c},
   lanes |-> [q.lanes EXCEPT ![c] = <<>>],
   order |-> IF Contains(q.order, c) THEN RemoveAt(q.order, FirstAt(q.order, c)) ELSE q.order]

Full(q, c) == Len(q.lanes[c]) >= LaneCap \/ Depth(q) >= AgentCap

\* enqueuePrompt: the lane is created before the caps are looked at, so a
\* refusal must take an empty one back.
Refuses(q, p) == Full(AddLane(q, Chat[p]), Chat[p])

\* Slip: the prompt goes in front of its lane.
EnqueuePrepends(q, p) ==
  LET added == AddLane(q, Chat[p])
  IN  IF Full(added, Chat[p]) THEN q ELSE [added EXCEPT !.lanes[Chat[p]] = <<p>> \o @]

Enqueue(q, p) ==
  LET c     == Chat[p]
      added == AddLane(q, c)
  IN  CASE ~Full(added, c)                           -> [added EXCEPT !.lanes[c] = Append(@, p)]
        [] Full(added, c) /\ added.lanes[c] = <<>>   -> DropLane(added, c)
        [] Full(added, c) /\ added.lanes[c] # <<>>   -> added

--------------------------------------------------------------------------------
Servable(q) == {i \in DOMAIN q.order : q.lanes[q.order[i]] # <<>>}

\* The rotation index dequeuePrompt stops at: every lane before it is empty.
ServedIndex(q) == CHOOSE i \in Servable(q) : \A j \in Servable(q) : i <= j

ServedChat(q) == q.order[ServedIndex(q)]

NextPrompt(q) == Head(q.lanes[ServedChat(q)])

\* Slip: a lane with prompts left stays at the front of the rotation.
DequeueKeepsTurn(q) ==
  LET c == ServedChat(q)
  IN  IF Len(q.lanes[c]) = 1 THEN DropLane(q, c) ELSE [q EXCEPT !.lanes[c] = Tail(@)]

\* Slip: the prompt taken, not its chat, goes to the back of the rotation.
DequeueRequeuesPrompt(q) ==
  LET c == ServedChat(q)
  IN  IF Len(q.lanes[c]) = 1
        THEN DropLane(q, c)
        ELSE [q EXCEPT !.lanes[c] = Tail(@), !.order = Append(Tail(@), NextPrompt(q))]

\* dequeuePrompt: the first non-empty lane gives its head and goes to the back
\* of the rotation; the empty lanes passed over are forgotten, and so is a
\* lane that gave its last prompt.
Dequeue(q) ==
  IF Servable(q) = {}
    THEN EmptyQueue
    ELSE LET c      == ServedChat(q)
             passed == {q.order[i] : i \in 1 .. ServedIndex(q) - 1}
             rest   == SubSeq(q.order, ServedIndex(q) + 1, Len(q.order))
             left   == Tail(q.lanes[c])
         IN  [keys  |-> (q.keys \ passed) \ (IF left = <<>> THEN {c} ELSE {}),
              lanes |-> [q.lanes EXCEPT ![c] = left],
              order |-> IF left = <<>> THEN rest ELSE Append(rest, c)]

\* Slip: the oldest prompt of the chat is withdrawn in its place.
WithdrawOldest(q, p) ==
  IF Len(q.lanes[Chat[p]]) = 1 THEN DropLane(q, Chat[p]) ELSE [q EXCEPT !.lanes[Chat[p]] = Tail(@)]

\* withdrawQueuedPrompt: a prompt its sender took back before it was admitted.
Withdraw(q, p) ==
  LET c    == Chat[p]
      left == RemoveAt(q.lanes[c], FirstAt(q.lanes[c], p))
  IN  IF left = <<>> THEN DropLane(q, c) ELSE [q EXCEPT !.lanes[c] = left]

--------------------------------------------------------------------------------
\* queuedPrompts: what the dashboard shows as the admission order, read round
\* by round off the rotation without taking anything: in round r each lane's
\* cursor stands at its prompt r, if it has one.
Nth(q, c, r) == IF r <= Len(q.lanes[c]) THEN <<q.lanes[c][r]>> ELSE <<>>

Round(q, r) == FlattenSeq([i \in DOMAIN q.order |-> Nth(q, q.order[i], r)])

\* Slip: the preview reads lane after lane instead of round after round.
PreviewByLane(q) == FlattenSeq([i \in DOMAIN q.order |-> q.lanes[q.order[i]]])

Preview(q) == FlattenSeq([r \in 1 .. LaneCap |-> Round(q, r)])

================================================================================
