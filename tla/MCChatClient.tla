---------------------------- MODULE MCChatClient -----------------------------
(* One chat client against any server. *)
EXTENDS ChatClient

MCsize == [b \in Bodies |-> 1]
MCBadHeaders == {<<Blank, Blank, Minus, 1>>}
MCMaxLines == [c \in Clients |-> 2]
=============================================================================
