---------------------------- MODULE MCChatSystem -----------------------------
(* The chat server with two chat clients, one of which types. *)
EXTENDS ChatSystem

CONSTANTS Typist, Lines

MCsize == [b \in Bodies |-> 1]
MCMaxLines == [c \in Clients |-> IF c = Typist THEN Lines ELSE 0]
=============================================================================
