----------------------------- MODULE MCChatPage -----------------------------
(* The Chat page alone, with two conversations to go to and fro between. *)
EXTENDS ChatPage

CONSTANTS p1, p2

TwoPages == {p1, p2}
=============================================================================
