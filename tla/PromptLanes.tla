------------------------------ MODULE PromptLanes ------------------------------
(***************************************************************************)
(* The prompt queue of one agent as a state machine: prompts arrive and    *)
(* are queued or refused, the admission gate takes the next one, a sender  *)
(* withdraws one that still waits (src/bus/core.ts 1421-1535).             *)
(*                                                                         *)
(* A prompt that has left the queue may be submitted again: it then stands *)
(* for a later prompt of the same chat.                                    *)
(***************************************************************************)
EXTENDS PromptQueue

CONSTANT NoPrompt

ASSUME NoPromptAssumption == NoPrompt \notin Prompts

VARIABLES queue,     \* the agent's entry of promptQueue
          answer,    \* history: what the last call did and the prompt it was about
          arrived,   \* history: the waiting prompts, in the order they came
          overtook   \* history: the chats served since each waiting chat last was

\* The waiting prompts without p.
Taken(s, p) == RemoveAt(s, FirstAt(s, p))

laneVars == <<queue, answer, arrived, overtook>>

Init ==
  /\ queue = EmptyQueue
  /\ answer = [call |-> "none", prompt |-> NoPrompt]
  /\ arrived = <<>>
  /\ overtook = [c \in Chats |-> {}]

--------------------------------------------------------------------------------
\* enqueuePrompt: the prompt waits behind those of its chat, or the call throws.
EnqueuePrompt(p) ==
  /\ p \notin Queued(queue)
  /\ queue' = Enqueue(queue, p)
  /\ answer' = [call |-> IF Refuses(queue, p) THEN "refused" ELSE "queued", prompt |-> p]
  /\ arrived' = IF Refuses(queue, p) THEN arrived ELSE Append(arrived, p)
  /\ UNCHANGED overtook

\* dequeuePrompt, called by admitNext for a queue that exists.
DequeuePrompt ==
  /\ HasQueue(queue)
  /\ queue' = Dequeue(queue)
  /\ IF Servable(queue) = {}
       THEN /\ answer' = [call |-> "none", prompt |-> NoPrompt]
            /\ UNCHANGED <<arrived, overtook>>
       ELSE /\ answer' = [call |-> "taken", prompt |-> NextPrompt(queue)]
            /\ arrived' = Taken(arrived, NextPrompt(queue))
            /\ overtook' = [d \in Chats |->
                              IF d # ServedChat(queue) /\ queue.lanes[d] # <<>>
                                THEN overtook[d] \cup {ServedChat(queue)}
                                ELSE {}]

\* withdrawQueuedPrompt, for a prompt it finds (another call changes nothing).
WithdrawPrompt(p) ==
  /\ p \in Queued(queue)
  /\ queue' = Withdraw(queue, p)
  /\ answer' = [call |-> "withdrawn", prompt |-> p]
  /\ arrived' = Taken(arrived, p)
  /\ overtook' = IF queue'.lanes[Chat[p]] = <<>> THEN [overtook EXCEPT ![Chat[p]] = {}] ELSE overtook

Next ==
  \/ \E p \in Prompts : EnqueuePrompt(p)
  \/ DequeuePrompt
  \/ \E p \in Prompts : WithdrawPrompt(p)

Spec == Init /\ [][Next]_laneVars

\* The admission gate comes back to a waiting prompt: each turn ends or times out.
FairSpec == Spec /\ WF_laneVars(DequeuePrompt)

--------------------------------------------------------------------------------
LaneTypeOK ==
  /\ queue \in Queues
  /\ answer \in [call : {"none", "queued", "refused", "taken", "withdrawn"},
                 prompt : Prompts \cup {NoPrompt}]
  /\ arrived \in Seq(Prompts)
  /\ overtook \in [Chats -> SUBSET Chats]

\* The rotation names every lane exactly once and no lane is empty: a refused,
\* withdrawn or admitted prompt leaves no chat behind that would keep the
\* agent's queue alive or be passed over in the rotation (dropLane's comment).
LanesMatchRotation ==
  /\ ToSet(queue.order) = queue.keys
  /\ \A i, j \in DOMAIN queue.order : i # j => queue.order[i] # queue.order[j]
  /\ \A c \in Chats : c \in queue.keys <=> queue.lanes[c] # <<>>

\* x came before y.
CameBefore(x, y) == \E i, j \in DOMAIN arrived : i < j /\ arrived[i] = x /\ arrived[j] = y

\* A prompt that was accepted waits exactly once, in its own chat's lane and
\* behind those of its chat that came before it, until it is taken or withdrawn;
\* nothing else waits, and the caps hold.
NothingLostNothingTwice ==
  /\ IsInjective(arrived)
  /\ \A c \in Chats :
       LET lane == queue.lanes[c]
       IN  /\ IsInjective(lane)
           /\ ToSet(lane) = {p \in ToSet(arrived) : Chat[p] = c}
           /\ \A i, j \in DOMAIN lane : i < j => CameBefore(lane[i], lane[j])
           /\ Len(lane) <= LaneCap
  /\ Len(arrived) <= AgentCap

\* One call of dequeuePrompt, and the prompts served so far.
Served(state) ==
  IF HasQueue(state.q)
    THEN [q |-> Dequeue(state.q), out |-> Append(state.out, NextPrompt(state.q))]
    ELSE state

\* What is left to serve when the queue is drained by dequeuePrompt alone.
DrainOrder ==
  LET Drained[i \in 0 .. AgentCap] ==
        IF i = 0 THEN [q |-> queue, out |-> <<>>] ELSE Served(Drained[i - 1])
  IN  Drained[AgentCap].out

\* The admission order the dashboard is shown (queuedPrompts, two nested loops
\* with cursors) is the order dequeuePrompt would serve the prompts in.
PreviewIsAdmissionOrder == Preview(queue) = DrainOrder

\* No chat is served a second time while another one waits: a chat that was
\* served since a waiting one last was stands behind it in the rotation.
OvertakenAtMostOnce ==
  \A c \in queue.keys, i, j \in DOMAIN queue.order :
    (queue.order[i] \in overtook[c] /\ queue.order[j] = c) => j < i

\* A prompt taken by the gate is the oldest one of its chat, and a refused call
\* leaves the queue as it was.
TakesOldestOfChat ==
  [][/\ answer'.call = "taken" =>
          \A i \in DOMAIN arrived :
            Chat[arrived[i]] = Chat[answer'.prompt] =>
              \E k \in 1 .. i : arrived[k] = answer'.prompt
     /\ answer'.call = "refused" => queue' = queue]_laneVars

\* No chat starves: a prompt that waits is taken or withdrawn in the end,
\* whatever the other chats send.
EveryPromptLeaves == \A p \in Prompts : p \in Queued(queue) ~> p \notin Queued(queue)

\* The rotation implements the fair lanes it is for.
Fair == INSTANCE FairLanes WITH lane <- queue.lanes

ImplementsFairLanes == Fair!FairSpec
================================================================================
