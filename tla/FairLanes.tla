------------------------------- MODULE FairLanes -------------------------------
(***************************************************************************)
(* What the prompt queue promises, without its rotation (src/bus/core.ts,  *)
(* issue #239): every chat is first in, first out, and while a chat waits  *)
(* no other chat is served twice.                                          *)
(***************************************************************************)
EXTENDS Naturals, Sequences

CONSTANTS Chats, Prompts, Chat

VARIABLES lane,     \* the prompts each chat waits with, oldest first
          overtook  \* the chats served since each waiting chat last was

fairVars == <<lane, overtook>>

Waiting == {c \in Chats : lane[c] # <<>>}

FairInit ==
  /\ lane = [c \in Chats |-> <<>>]
  /\ overtook = [c \in Chats |-> {}]

Join(p) ==
  /\ lane' = [lane EXCEPT ![Chat[p]] = Append(@, p)]
  /\ UNCHANGED overtook

Serve(c) ==
  /\ c \in Waiting
  /\ \A d \in Waiting : c \notin overtook[d]
  /\ lane' = [lane EXCEPT ![c] = Tail(@)]
  /\ overtook' = [d \in Chats |-> IF d # c /\ d \in Waiting THEN overtook[d] \cup {c} ELSE {}]

\* A prompt taken back by its sender; a chat left with none stops waiting.
Leave(c) ==
  /\ \E i \in DOMAIN lane[c] :
       lane' = [lane EXCEPT ![c] = SubSeq(@, 1, i - 1) \o SubSeq(@, i + 1, Len(@))]
  /\ overtook' = [overtook EXCEPT ![c] = IF Len(lane[c]) = 1 THEN {} ELSE @]

FairNext == (\E p \in Prompts : Join(p)) \/ (\E c \in Chats : Serve(c) \/ Leave(c))

FairSpec == FairInit /\ [][FairNext]_fairVars
================================================================================
