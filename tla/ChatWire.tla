------------------------------ MODULE ChatWire -------------------------------
(***************************************************************************)
(* Chat messages as they travel: what chat_client and chat_session hand to *)
(* async_write and get from async_read.                                    *)
(***************************************************************************)
EXTENDS ChatMessage

CONSTANTS
  Bodies, size, \* non-empty message bodies and their lengths
  NoBody,       \* the body of a message of length zero
  BadHeaders    \* headers a peer may send that no chat_message has

ASSUME WireAssumption ==
  /\ NoBody \notin Bodies
  /\ size \in [Bodies -> 1..max_body_length]
  /\ BadHeaders \subseteq Headers
  /\ \A h \in BadHeaders : decode_header(h).res # "ok"

AllBodies == Bodies \cup {NoBody}
body_length(b) == IF b = NoBody THEN 0 ELSE size[b]

(* The headers that travel here, and what decode_header makes of each. *)
WireHeaders == BadHeaders \cup {encode_header(body_length(b)) : b \in AllBodies}
decoded == [h \in WireHeaders |-> decode_header(h)]

(* A stream is cut where the code cuts it: a header, then a body if any. *)
HeaderUnit(h) == [part |-> "header", val |-> h]
BodyUnit(b)   == [part |-> "body", val |-> b]
Units == [part : {"header"}, val : WireHeaders] \cup [part : {"body"}, val : Bodies]

(* A chat_message with its header encoded, and the bytes data()..length(). *)
Messages == [header : WireHeaders, body : AllBodies]
Message(b) == [header |-> encode_header(body_length(b)), body |-> b]
Frame(msg) ==
  IF msg.body = NoBody THEN <<HeaderUnit(msg.header)>>
  ELSE <<HeaderUnit(msg.header), BodyUnit(msg.body)>>
=============================================================================
