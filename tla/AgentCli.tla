-------------------------------- MODULE AgentCli -------------------------------
(***************************************************************************)
(* The agent on the other side of the bus: the Claude CLI in its PTY, the  *)
(* transcript the tailer reads and the MCP server that speaks for it.      *)
(* None of it is in the repository's bus; it is what src/bus/core.ts, with *)
(* its comments and tests, takes it to do.                                 *)
(*                                                                         *)
(*   - typed input waits in the CLI's own queue while a turn runs, opens a *)
(*     turn of its own or is absorbed into the running one;                *)
(*   - each process generation writes its own transcript, which a tailer   *)
(*     reads late; replies travel over the MCP socket, unordered with it;  *)
(*   - a turn may end with text, without, or in two boundary lines, may    *)
(*     call `reply` or `cancel`, and may be one the bus never asked for.   *)
(***************************************************************************)
EXTENDS BusSlot

CONSTANTS DoubleEnds,       \* a turn may end in two boundary lines
          Absorbs,          \* input queued behind a turn may be absorbed into it
          EndsEmpty,        \* a turn may end without text and without a reply
          NamesChats,       \* a reply may name the chat it answers
          ReplyOvertaken,   \* a turn's end may be tailed before its reply arrives
          LinesOvertaken,   \* a reply may arrive before the lines written ahead of it are tailed
          MaxGen,           \* bound: process generations
          MaxCompactions,   \* bound: compactions
          MaxAmbient,       \* bound: turns the bus did not open
          MaxCancels        \* bound: `cancel` calls

ASSUME CliAssumption ==
  /\ {DoubleEnds, Absorbs, EndsEmpty, NamesChats, ReplyOvertaken, LinesOvertaken} \subseteq BOOLEAN
  /\ MaxGen \in Nat \ {0}
  /\ MaxCompactions \in Nat /\ MaxAmbient \in Nat /\ MaxCancels \in Nat

VARIABLES cli,      \* the CLI process
          lines,    \* each generation's transcript lines not tailed yet
          frames    \* MCP frames written and not read yet

cliVars == <<cli, lines, frames>>

\* A process with nothing to do.  `prev` is what its last turn was about, `runs`
\* (history) how often the model was given each text.
IdleCli(gen) ==
  [gen |-> gen, up |-> TRUE, booting |-> FALSE, box |-> <<>>, turn |-> None, prev |-> {},
   compacting |-> FALSE, compactions |-> 0, turns |-> 0, ambient |-> 0, cancels |-> 0,
   runs |-> [x \in Texts |-> 0]]

Inputs == Texts \cup {NudgeNote}
Says == (SUBSET Prompts) \cup {None}

Lines ==
  [kind : {"prompt", "absorbed"}, text : Inputs \cup {None}]
    \cup [kind : {"end"}, id : Nat, text : Says, inject : BOOLEAN]
    \cup [kind : {"init"}, session : Nat]
    \cup [kind : {"replay"}, gen : Nat, session : Nat]
    \cup [kind : {"compact"}, gen : Nat, nth : Nat]

Frames ==
  [kind : {"reply"}, about : SUBSET Prompts, named : Chats \cup {None}] \cup [kind : {"cancel"}]

Turns == [id : Nat, about : SUBSET Prompts, owes : SUBSET Prompts, opener : Inputs \cup {None}]

\* "Nothing" is no turn.
ASSUME TurnAssumption == None \notin Turns

CliStates ==
  [gen : 1 .. MaxGen, up : BOOLEAN, booting : BOOLEAN, box : Seq(Inputs), turn : Turns \cup {None},
   prev : SUBSET Prompts, compacting : BOOLEAN, compactions : Nat, turns : Nat, ambient : Nat,
   cancels : Nat, runs : [Texts -> Nat]]

CliTypeOK ==
  /\ cli \in CliStates
  /\ lines \in [1 .. MaxGen -> Seq(Lines)]
  /\ frames \in Seq(Frames)

CliInit ==
  /\ cli = IdleCli(1)
  /\ lines = [g \in 1 .. MaxGen |-> <<>>]
  /\ frames = <<>>

Write(ls) == lines' = [lines EXCEPT ![cli.gen] = @ \o ls]

Ready == cli.up /\ ~cli.booting /\ ~cli.compacting

\* What a turn opened by text x answers: a reminder is about the turn before.
About(x) == IF x \in Prompts THEN {x} ELSE IF x \in {Nudge, NudgeNote} THEN cli.prev ELSE {}

Turn(x) == [id |-> cli.turns + 1, about |-> About(x), owes |-> About(x), opener |-> x]

--------------------------------------------------------------------------------
\* The model sees the first queued text.
TakeInput(c) ==
  LET x == Head(cli.box)
  IN  [c EXCEPT !.box = Tail(@), !.runs = [y \in Texts |-> c.runs[y] + (IF y = x THEN 1 ELSE 0)]]

StartTurn ==
  /\ Ready /\ cli.turn = None /\ cli.box # <<>>
  /\ cli' = TakeInput([cli EXCEPT !.turn = Turn(Head(cli.box)), !.turns = @ + 1])
  /\ Write(<<[kind |-> "prompt", text |-> Head(cli.box)]>>)
  /\ UNCHANGED frames

\* A task notification, or something typed into the TUI.
StartAmbientTurn ==
  /\ Ready /\ cli.turn = None
  /\ cli.ambient < MaxAmbient
  /\ cli' = [cli EXCEPT !.turn = Turn(None), !.turns = @ + 1, !.ambient = @ + 1]
  /\ Write(<<[kind |-> "prompt", text |-> None]>>)
  /\ UNCHANGED frames

AbsorbInput ==
  /\ Absorbs
  /\ Ready /\ cli.turn # None /\ cli.box # <<>>
  /\ cli' = TakeInput([cli EXCEPT !.turn.about = @ \cup About(Head(cli.box)),
                                  !.turn.owes = @ \cup About(Head(cli.box))])
  /\ Write(<<[kind |-> "absorbed", text |-> Head(cli.box)]>>)
  /\ UNCHANGED frames

\* The `reply` tool with intent "final", one call for each prompt answered.
CallReply(connected) ==
  /\ Ready /\ cli.turn # None /\ connected
  /\ \E p \in cli.turn.owes, named \in {None} \cup (IF NamesChats THEN {Chat[q] : q \in cli.turn.owes} ELSE {}) :
       /\ named \in {None, Chat[p]}
       /\ cli' = [cli EXCEPT !.turn.owes = @ \ {p}]
       /\ frames' = Append(frames, [kind |-> "reply", about |-> {p}, named |-> named])
  /\ UNCHANGED lines

CallCancel(connected) ==
  /\ Ready /\ cli.turn # None /\ connected
  /\ cli.cancels < MaxCancels
  /\ cli' = [cli EXCEPT !.cancels = @ + 1]
  /\ frames' = Append(frames, [kind |-> "cancel"])
  /\ UNCHANGED lines

EndLine(text) ==
  [kind |-> "end", id |-> cli.turn.id, text |-> text,
   inject |-> cli.turn.opener \in Prompts /\ Chat[cli.turn.opener] = Inject]

EndTurn ==
  /\ Ready /\ cli.turn # None
  /\ ~ReplyOvertaken => frames = <<>>
  /\ \E text \in {cli.turn.about} \cup (IF EndsEmpty \/ cli.turn.owes = {} THEN {None} ELSE {}) :
       \/ Write(<<EndLine(text)>>)
       \/ DoubleEnds /\ Write(<<EndLine(None), EndLine(text)>>)
  /\ cli' = [cli EXCEPT !.turn = None, !.prev = cli.turn.about]
  /\ UNCHANGED frames

StartCompaction ==
  /\ Ready /\ cli.compactions < MaxCompactions
  /\ cli' = [cli EXCEPT !.compacting = TRUE]
  /\ UNCHANGED <<lines, frames>>

\* A compaction that aborts writes no boundary.
EndCompaction ==
  /\ cli.up /\ cli.compacting
  /\ cli' = [cli EXCEPT !.compacting = FALSE, !.compactions = @ + 1]
  /\ \/ Write(<<[kind |-> "compact", gen |-> cli.gen, nth |-> cli.compactions + 1]>>)
     \/ UNCHANGED lines
  /\ UNCHANGED frames

FinishBoot ==
  /\ cli.up /\ cli.booting
  /\ cli' = [cli EXCEPT !.booting = FALSE]
  /\ UNCHANGED <<lines, frames>>

CliStep(connected) ==
  \/ StartTurn
  \/ StartAmbientTurn
  \/ AbsorbInput
  \/ CallReply(connected)
  \/ CallCancel(connected)
  \/ EndTurn
  \/ StartCompaction
  \/ EndCompaction
  \/ FinishBoot
================================================================================
