----------------------------- MODULE MCPromptLanes -----------------------------
(* Three chats: two prompts each for the first two, one for the third. *)
EXTENDS PromptLanes

CONSTANTS ann, bob, cyd, a1, a2, b1, b2, c1

MCChats == {ann, bob, cyd}
MCPrompts == {a1, a2, b1, b2, c1}
MCChat == [p \in MCPrompts |-> CASE p \in {a1, a2} -> ann [] p \in {b1, b2} -> bob [] p = c1 -> cyd]
================================================================================
