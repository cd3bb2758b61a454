------------------------------- MODULE MCBusCore -------------------------------
(* Two chats with a user waiting, with one prompt and two, and one of the daemon's
   own injects. *)
EXTENDS BusCore

CONSTANTS alice, bob, inject, a1, b1, b2, i1

MCChats == {alice, bob, inject}
MCDriven == MCChats
TwoPrompts == {a1, b1}
ThreePrompts == {a1, b1, b2}
WithInject == {a1, b1, i1}
SecondOfBob == {b2}
FirstOfBob == {b1}
MCChat == [p \in Prompts |-> IF p = a1 THEN alice ELSE IF p = i1 THEN inject ELSE bob]
================================================================================
