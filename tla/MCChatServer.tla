---------------------------- MODULE MCChatServer -----------------------------
(* The chat server with peers that send what they like and go away. *)
EXTENDS ChatServer

(* A body that leaves one character of the buffer free. *)
MCsize == [b \in Bodies |-> 1]
(* Too long by one, negative. *)
MCBadHeaders == {<<Blank, Blank, Blank, 3>>, <<Blank, Blank, Minus, 1>>}
=============================================================================
