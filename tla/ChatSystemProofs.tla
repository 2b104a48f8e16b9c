-------------------------- MODULE ChatSystemProofs ---------------------------
(***************************************************************************)
(* The chat server and its clients together, for any set of clients, any   *)
(* lines and any limits: every step of the system is a step that the       *)
(* server's and the client's own modules allow, so that what is proved     *)
(* there holds here, and with the streams between the two it makes the     *)
(* room hold what was typed and the screens show the room.                 *)
(***************************************************************************)
EXTENDS ChatSystem, ChatMessageProofs, FiniteSetTheorems

SP == INSTANCE ChatServerProofs WITH Slow <- {}
CP == INSTANCE ChatClientProofs WITH
  rd <- crd, read_msg <- cread_msg, write_msgs <- cwrite_msgs, wr <- cwr

(* Every message in a client's queues and in the room is one that
   encode_header has been called on. *)
Encoded == {Message(b) : b \in AllBodies}
QueuesOK ==
  /\ posted \in [Clients -> Seq(Encoded \cup {Client!Close})]
  /\ cwrite_msgs \in [Clients -> Seq(Encoded)]
  /\ history \in Seq(Encoded)
HeadersOK ==
  \A c \in Clients : rd[c] = "body" =>
    /\ decoded[read_msg[c].header].res = "ok"
    /\ decoded[read_msg[c].header].body_length = read_msg[c].body_length

(* What has reached a client is what was written to its session, and all of
   it while neither end of the connection is closed. *)
ServedOf(c) ==
  /\ Len(served[c]) <= Len(sent[c])
  /\ \A i \in 1..Len(served[c]) : served[c][i] = sent[c][i].body
  /\ sock[c] = "connected" /\ ~lost[c] => Len(served[c]) = Len(sent[c])
ServedOK == \A c \in Clients : ServedOf(c)

(* What a session has posted are the first lines that left its client, and
   what it has not read yet is the stream of the others. *)
Posts(c) == PostedBy(c, Len(history))
Reads(c) == conn[c] \in {"idle", "backlog"} \/ rd[c] # "none"
Part(c) == IF rd[c] = "body" /\ read_msg[c].body_length > 0 THEN "body" ELSE "header"
End(c) == IF hung[c] THEN "cut" ELSE "whole"
Number(c) == Posts(c) + IF rd[c] = "body" /\ read_msg[c].body_length = 0 THEN 2 ELSE 1
UpOf(c) ==
  /\ Posts(c) <= Len(wire[c])
  /\ rd[c] = "body" =>
       /\ Posts(c) < Len(wire[c])
       /\ body_length(wire[c][Posts(c) + 1]) = read_msg[c].body_length
  /\ Reads(c) => Stream(up[c], wire[c], Number(c), Part(c), End(c))
UpOK == \A c \in Clients : UpOf(c)

OriginOf(i) ==
  /\ PostedBy(origin[i], i) \in 1..Len(wire[origin[i]])
  /\ history[i].body = wire[origin[i]][PostedBy(origin[i], i)]
OriginOK ==
  /\ origin \in Seq(Clients) /\ Len(origin) = Len(history)
  /\ \A i \in 1..Len(history) : OriginOf(i)

(* The inductive invariant. *)
IInv ==
  /\ SP!IInv /\ CP!IInv
  /\ QueuesOK /\ HeadersOK /\ ServedOK /\ UpOK /\ OriginOK
-----------------------------------------------------------------------------
(* The theorems about the server are instances of a module that extends the
   server's own: its definitions are the same, letter for letter. *)
LEMMA ServerSame ==
  /\ SP!Init <=> Server!Init
  /\ SP!Next <=> Server!Next
  /\ UNCHANGED SP!vars <=> UNCHANGED Server!vars
<1>1. SP!decoded = Server!decoded
  BY DEF SP!header_length, SP!Blank, SP!Minus, SP!Plus, SP!Nul, SP!IsDigit,
    SP!encode_header, SP!InNumber, SP!IsNegative, SP!accumulate, SP!atoi,
    SP!strncat_s_fits, SP!decode_header, SP!AllBodies, SP!body_length,
    SP!WireHeaders, SP!decoded, Server!header_length, Server!Blank,
    Server!Minus, Server!Plus, Server!Nul, Server!IsDigit,
    Server!encode_header, Server!InNumber, Server!IsNegative,
    Server!accumulate, Server!atoi, Server!strncat_s_fits,
    Server!decode_header, Server!AllBodies, Server!body_length,
    Server!WireHeaders, Server!decoded
<1>2. SP!Init <=> Server!Init
  BY DEF SP!header_length, SP!Blank, SP!encode_header, SP!body_length,
    SP!Message, SP!Init, Server!header_length, Server!Blank,
    Server!encode_header, Server!body_length, Server!Message, Server!Init
<1>3. UNCHANGED SP!vars <=> UNCHANGED Server!vars
  BY DEF SP!roomVars, SP!readVars, SP!writeVars, SP!netVars, SP!vars,
    Server!roomVars, Server!readVars, Server!writeVars, Server!netVars,
    Server!vars
<1>4. \A c : SP!Connect(c) <=> Server!Connect(c)
  BY DEF SP!roomVars, SP!readVars, SP!writeVars, SP!Connect, Server!roomVars,
    Server!readVars, Server!writeVars, Server!Connect
<1>5. \A c : SP!PeerSend(c) <=> Server!PeerSend(c)
  BY DEF SP!header_length, SP!Blank, SP!encode_header, SP!AllBodies,
    SP!body_length, SP!HeaderUnit, SP!BodyUnit, SP!Message, SP!Frame,
    SP!roomVars, SP!readVars, SP!writeVars, SP!Send, SP!PeerSend,
    Server!header_length, Server!Blank, Server!encode_header,
    Server!AllBodies, Server!body_length, Server!HeaderUnit, Server!BodyUnit,
    Server!Message, Server!Frame, Server!roomVars, Server!readVars,
    Server!writeVars, Server!Send, Server!PeerSend
<1>6. \A c : SP!PeerSendBad(c) <=> Server!PeerSendBad(c)
  BY DEF SP!HeaderUnit, SP!BodyUnit, SP!roomVars, SP!readVars, SP!writeVars,
    SP!Send, SP!PeerSendBad, Server!HeaderUnit, Server!BodyUnit,
    Server!roomVars, Server!readVars, Server!writeVars, Server!Send,
    Server!PeerSendBad
<1>7. \A c : SP!HangUp(c) <=> Server!HangUp(c)
  BY DEF SP!roomVars, SP!readVars, SP!writeVars, SP!HangUp, Server!roomVars,
    Server!readVars, Server!writeVars, Server!HangUp
<1>8. \A c : SP!Accept(c) <=> Server!Accept(c)
  BY DEF SP!join, SP!Accept, Server!join, Server!Accept
<1>9. \A c : SP!AcceptError(c) <=> Server!AcceptError(c)
  BY DEF SP!roomVars, SP!readVars, SP!writeVars, SP!rearm, SP!AcceptError,
    Server!roomVars, Server!readVars, Server!writeVars, Server!rearm,
    Server!AcceptError
<1>10. \A c : SP!ReadHeader(c) <=> Server!ReadHeader(c)
  BY <1>1 DEF SP!roomVars, SP!writeVars, SP!leave, SP!header_done,
    SP!ReadHeader, Server!roomVars, Server!writeVars, Server!leave,
    Server!header_done, Server!ReadHeader
<1>11. \A c : SP!ReadBody(c) <=> Server!ReadBody(c)
  BY DEF SP!trim, SP!push_back, SP!room_deliver, SP!read_next, SP!ReadBody,
    Server!trim, Server!push_back, Server!room_deliver, Server!read_next,
    Server!ReadBody
<1>12. \A c : SP!ReadError(c) <=> Server!ReadError(c)
  BY DEF SP!writeVars, SP!netVars, SP!leave, SP!ReadError, Server!writeVars,
    Server!netVars, Server!leave, Server!ReadError
<1>13. \A c : SP!WriteDone(c) <=> Server!WriteDone(c)
  BY DEF SP!roomVars, SP!readVars, SP!netVars, SP!write_next, SP!WriteDone,
    Server!roomVars, Server!readVars, Server!netVars, Server!write_next,
    Server!WriteDone
<1>14. \A c : SP!WriteError(c) <=> Server!WriteError(c)
  BY DEF SP!readVars, SP!netVars, SP!leave, SP!WriteError, Server!readVars,
    Server!netVars, Server!leave, Server!WriteError
<1> QED
  BY <1>2, <1>3, <1>4, <1>5, <1>6, <1>7, <1>8, <1>9, <1>10, <1>11, <1>12,
    <1>13, <1>14 DEF SP!Next, Server!Next

(* And its assumptions are the system's. *)
LEMMA ServerInductive ==
  /\ Server!Init => SP!IInv
  /\ SP!IInv /\ [Server!Next]_(Server!vars) => SP!IInv'
<1>1. /\ max_body_length \in 0..SP!longest
      /\ destsz \in {SP!header_length, SP!header_length + 1}
  BY MessageAssumption DEF longest, header_length, SP!longest, SP!header_length
<1>2. /\ NoBody \notin Bodies
      /\ size \in [Bodies -> 1..max_body_length]
      /\ BadHeaders \subseteq SP!Headers
      /\ \A h \in BadHeaders : SP!decode_header(h).res # "ok"
  BY WireAssumption
    DEF header_length, longest, Blank, Minus, Plus, Nul, Other, Headers,
      IsDigit, encode_header, InNumber, IsNegative, accumulate, atoi,
      strncat_s_fits, decode_header,
    SP!header_length, SP!longest, SP!Blank, SP!Minus, SP!Plus, SP!Nul,
    SP!Other, SP!Headers, SP!IsDigit, SP!encode_header, SP!InNumber,
    SP!IsNegative, SP!accumulate, SP!atoi, SP!strncat_s_fits, SP!decode_header
<1>3. SP!IInv /\ [SP!Next]_(SP!vars) => SP!IInv'
  BY <1>1, <1>2, SP!Inductive, SystemAssumption DEF SP!AllBodies, AllBodies
<1>4. SP!Init => SP!IInv
  BY <1>1, <1>2, SP!InitOK, SystemAssumption DEF SP!AllBodies, AllBodies
<1> QED
  BY <1>3, <1>4, ServerSame

(* The theorems about the client are instances of a module that extends the
   client's own: its definitions are the same, letter for letter. *)
LEMMA ClientSame ==
  /\ CP!Init <=> Client!Init
  /\ CP!Next <=> Client!Next
  /\ UNCHANGED CP!vars <=> UNCHANGED Client!vars
<1>1. CP!decoded = Client!decoded
  BY DEF CP!header_length, CP!Blank, CP!Minus, CP!Plus, CP!Nul, CP!IsDigit,
    CP!encode_header, CP!InNumber, CP!IsNegative, CP!accumulate, CP!atoi,
    CP!strncat_s_fits, CP!decode_header, CP!AllBodies, CP!body_length,
    CP!WireHeaders, CP!decoded, Client!header_length, Client!Blank,
    Client!Minus, Client!Plus, Client!Nul, Client!IsDigit,
    Client!encode_header, Client!InNumber, Client!IsNegative,
    Client!accumulate, Client!atoi, Client!strncat_s_fits,
    Client!decode_header, Client!AllBodies, Client!body_length,
    Client!WireHeaders, Client!decoded
<1>2. CP!Init <=> Client!Init
  BY DEF CP!Init, Client!Init
<1>3. UNCHANGED CP!vars <=> UNCHANGED Client!vars
  BY DEF CP!mainVars, CP!readVars, CP!writeVars, CP!serverVars, CP!vars,
    Client!mainVars, Client!readVars, Client!writeVars, Client!serverVars,
    Client!vars
<1>4. \A c : CP!Getline(c) <=> Client!Getline(c)
  BY DEF CP!header_length, CP!Blank, CP!encode_header, CP!body_length,
    CP!Message, CP!readVars, CP!writeVars, CP!serverVars, CP!Getline,
    Client!header_length, Client!Blank, Client!encode_header,
    Client!body_length, Client!Message, Client!readVars, Client!writeVars,
    Client!serverVars, Client!Getline
<1>5. \A c : CP!EndInput(c) <=> Client!EndInput(c)
  BY DEF CP!readVars, CP!writeVars, CP!serverVars, CP!Close, CP!EndInput,
    Client!readVars, Client!writeVars, Client!serverVars, Client!Close,
    Client!EndInput
<1>6. \A c : CP!Join(c) <=> Client!Join(c)
  BY DEF CP!readVars, CP!writeVars, CP!serverVars, CP!Join, Client!readVars,
    Client!writeVars, Client!serverVars, Client!Join
<1>7. \A c : CP!RunWrite(c) <=> Client!RunWrite(c)
  BY DEF CP!mainVars, CP!readVars, CP!serverVars, CP!Close, CP!start_write,
    CP!posted_write, CP!RunWrite, Client!mainVars, Client!readVars,
    Client!serverVars, Client!Close, Client!start_write, Client!posted_write,
    Client!RunWrite
<1>8. \A c : CP!RunClose(c) <=> Client!RunClose(c)
  BY DEF CP!mainVars, CP!readVars, CP!serverVars, CP!Close, CP!close,
    CP!RunClose, Client!mainVars, Client!readVars, Client!serverVars,
    Client!Close, Client!close, Client!RunClose
<1>9. \A c : CP!Connected(c) <=> Client!Connected(c)
  BY DEF CP!mainVars, CP!writeVars, CP!serverVars, CP!Connected,
    Client!mainVars, Client!writeVars, Client!serverVars, Client!Connected
<1>10. \A c : CP!ReadHeader(c) <=> Client!ReadHeader(c)
  BY <1>1 DEF CP!serverVars, CP!close, CP!header_done, CP!ReadHeader,
    Client!serverVars, Client!close, Client!header_done, Client!ReadHeader
<1>11. \A c : CP!ReadBody(c) <=> Client!ReadBody(c)
  BY DEF CP!mainVars, CP!writeVars, CP!serverVars, CP!ReadBody,
    Client!mainVars, Client!writeVars, Client!serverVars, Client!ReadBody
<1>12. \A c : CP!ReadError(c) <=> Client!ReadError(c)
  BY DEF CP!mainVars, CP!serverVars, CP!close, CP!ReadError, Client!mainVars,
    Client!serverVars, Client!close, Client!ReadError
<1>13. \A c : CP!WriteDone(c) <=> Client!WriteDone(c)
  BY DEF CP!mainVars, CP!readVars, CP!serverVars, CP!start_write,
    CP!write_next, CP!WriteDone, Client!mainVars, Client!readVars,
    Client!serverVars, Client!start_write, Client!write_next, Client!WriteDone
<1>14. \A c : CP!WriteError(c) <=> Client!WriteError(c)
  BY DEF CP!mainVars, CP!readVars, CP!serverVars, CP!WriteError,
    Client!mainVars, Client!readVars, Client!serverVars, Client!WriteError
<1>15. \A c : CP!IoStop(c) <=> Client!IoStop(c)
  BY DEF CP!mainVars, CP!readVars, CP!writeVars, CP!serverVars, CP!IoStop,
    Client!mainVars, Client!readVars, Client!writeVars, Client!serverVars,
    Client!IoStop
<1>16. \A c : CP!Establish(c) <=> Client!Establish(c)
  BY DEF CP!mainVars, CP!readVars, CP!writeVars, CP!serverVars, CP!Establish,
    Client!mainVars, Client!readVars, Client!writeVars, Client!serverVars,
    Client!Establish
<1>17. \A c : CP!ConnectFails(c) <=> Client!ConnectFails(c)
  BY DEF CP!mainVars, CP!readVars, CP!writeVars, CP!serverVars,
    CP!ConnectFails, Client!mainVars, Client!readVars, Client!writeVars,
    Client!serverVars, Client!ConnectFails
<1>18. \A c : CP!Transmit(c) <=> Client!Transmit(c)
  BY DEF CP!mainVars, CP!readVars, CP!serverVars, CP!Transmit,
    Client!mainVars, Client!readVars, Client!serverVars, Client!Transmit
<1>19. \A c : CP!TransmitFails(c) <=> Client!TransmitFails(c)
  BY DEF CP!mainVars, CP!readVars, CP!serverVars, CP!TransmitFails,
    Client!mainVars, Client!readVars, Client!serverVars, Client!TransmitFails
<1>20. \A c : CP!Serve(c) <=> Client!Serve(c)
  BY DEF CP!header_length, CP!Blank, CP!encode_header, CP!AllBodies,
    CP!body_length, CP!HeaderUnit, CP!BodyUnit, CP!Message, CP!Frame,
    CP!mainVars, CP!readVars, CP!writeVars, CP!Arrive, CP!Serve,
    Client!header_length, Client!Blank, Client!encode_header,
    Client!AllBodies, Client!body_length, Client!HeaderUnit, Client!BodyUnit,
    Client!Message, Client!Frame, Client!mainVars, Client!readVars,
    Client!writeVars, Client!Arrive, Client!Serve
<1>21. \A c : CP!ServeBad(c) <=> Client!ServeBad(c)
  BY DEF CP!HeaderUnit, CP!mainVars, CP!readVars, CP!writeVars, CP!Arrive,
    CP!ServeBad, Client!HeaderUnit, Client!mainVars, Client!readVars,
    Client!writeVars, Client!Arrive, Client!ServeBad
<1>22. \A c : CP!ServerEnds(c) <=> Client!ServerEnds(c)
  BY DEF CP!mainVars, CP!readVars, CP!writeVars, CP!ServerEnds,
    Client!mainVars, Client!readVars, Client!writeVars, Client!ServerEnds
<1> QED
  BY <1>2, <1>3, <1>4, <1>5, <1>6, <1>7, <1>8, <1>9, <1>10, <1>11, <1>12,
    <1>13, <1>14, <1>15, <1>16, <1>17, <1>18, <1>19, <1>20, <1>21, <1>22 DEF
    CP!Next, CP!Handler, Client!Next, Client!Handler

(* And its assumptions are the system's. *)
LEMMA ClientInductive ==
  /\ Client!Init => CP!IInv
  /\ CP!IInv /\ [Client!Next]_(Client!vars) => CP!IInv'
  /\ CP!IInv => \A c \in Clients : /\ Len(wire[c]) <= Len(typed[c])
                                   /\ \A i \in 1..Len(wire[c]) : typed[c][i] = wire[c][i]
<1>1. /\ max_body_length \in 0..CP!longest
      /\ destsz \in {CP!header_length, CP!header_length + 1}
  BY MessageAssumption DEF longest, header_length, CP!longest, CP!header_length
<1>2. /\ NoBody \notin Bodies
      /\ size \in [Bodies -> 1..max_body_length]
      /\ BadHeaders \subseteq CP!Headers
      /\ \A h \in BadHeaders : CP!decode_header(h).res # "ok"
  BY WireAssumption
    DEF header_length, longest, Blank, Minus, Plus, Nul, Other, Headers,
      IsDigit, encode_header, InNumber, IsNegative, accumulate, atoi,
      strncat_s_fits, decode_header,
    CP!header_length, CP!longest, CP!Blank, CP!Minus, CP!Plus, CP!Nul,
    CP!Other, CP!Headers, CP!IsDigit, CP!encode_header, CP!InNumber,
    CP!IsNegative, CP!accumulate, CP!atoi, CP!strncat_s_fits, CP!decode_header
<1>3. CP!IInv /\ [CP!Next]_(CP!vars) => CP!IInv'
  BY <1>1, <1>2, CP!Inductive, SystemAssumption DEF CP!AllBodies, AllBodies
<1>4. CP!Init => CP!IInv
  BY <1>1, <1>2, CP!InitOK, SystemAssumption DEF CP!AllBodies, AllBodies
<1>5. CP!IInv => \A c \in Clients : /\ Len(wire[c]) <= Len(typed[c])
                                   /\ \A i \in 1..Len(wire[c]) : typed[c][i] = wire[c][i]
  BY <1>1, <1>2, CP!WireIsTyped, SystemAssumption DEF CP!AllBodies, AllBodies
<1> QED
  BY <1>3, <1>4, <1>5, ClientSame
-----------------------------------------------------------------------------
(* What the invariants of the two sides say here. *)
ServerTypes ==
  /\ conn \in [Clients -> {"idle", "backlog", "accepted", "refused"}]
  /\ rd \in [Clients -> {"none", "header", "body"}]
  /\ read_msg \in [Clients -> [header : WireHeaders, body_length : 0..max_body_length]]
  /\ write_msgs \in [Clients -> Seq(Messages)] /\ sent \in [Clients -> Seq(Messages)]
  /\ wr \in [Clients -> BOOLEAN] /\ hung \in [Clients -> BOOLEAN]
  /\ up \in [Clients -> Seq(Units)]
  /\ history \in Seq(Messages) /\ first \in [Clients -> Nat]
ServerOf(c) ==
  /\ conn[c] # "accepted" => rd[c] = "none" /\ sent[c] = <<>>
  /\ rd[c] = "body" /\ read_msg[c].body_length > 0 /\ up[c] # <<>> =>
       up[c][1].part = "body" /\ size[up[c][1].val] = read_msg[c].body_length
  /\ wr[c] => write_msgs[c] # <<>>
  /\ first[c] >= 1 /\ first[c] + Len(sent[c]) + Len(write_msgs[c]) <= Len(history) + 1
  /\ \A i \in 1..Len(sent[c]) : sent[c][i] = history[first[c] + i - 1]
  /\ \A i \in 1..Len(write_msgs[c]) :
       write_msgs[c][i] = history[first[c] + Len(sent[c]) + i - 1]
ClientTypes ==
  /\ sock \in [Clients -> {"open", "connected", "closed"}]
  /\ lost \in [Clients -> BOOLEAN]
  /\ posted \in [Clients -> Seq(Messages \cup {Client!Close})]
  /\ cwrite_msgs \in [Clients -> Seq(Messages)]
  /\ cwr \in [Clients -> {"none", "pending", "sent", "failed"}]
  /\ \A g \in {typed, wire, served, printed} : g \in [Clients -> Seq(AllBodies)]
ClientOf(c) ==
  /\ cwr[c] # "none" => cwrite_msgs[c] # <<>>
  /\ Len(printed[c]) <= Len(served[c])
  /\ \A i \in 1..Len(printed[c]) : printed[c][i] = served[c][i]

(* The server's invariant, in the words of the server's module. *)
LEMMA ServerView == SP!IInv => ServerTypes /\ \A c \in Clients : ServerOf(c)
<1>1. SP!IInv => ServerTypes
  BY DEF SP!IInv, SP!TypeOK, ServerTypes,
    SP!encode_header, SP!header_length, SP!Blank, SP!AllBodies,
      SP!body_length, SP!WireHeaders, SP!Units, SP!Messages, encode_header,
      header_length, Blank, AllBodies, body_length, WireHeaders, Units,
      Messages
<1>2. ASSUME SP!IInv, NEW c \in Clients
      PROVE  ServerOf(c)
  BY <1>2 DEF SP!IInv, SP!Fresh, SP!FreshOf, SP!StreamOK, SP!StreamOf, SP!AwaitsBody,
    SP!WriteChain, SP!OrderOK, SP!OrderOf, SP!Run, ServerOf
<1> QED
  BY <1>1, <1>2

(* And the client's. *)
LEMMA ClientView == CP!IInv => ClientTypes /\ \A c \in Clients : ClientOf(c)
<1>1. CP!IInv => ClientTypes
  BY DEF CP!IInv, CP!TypeOK, ClientTypes, CP!Close, Client!Close,
    CP!encode_header, CP!header_length, CP!Blank, CP!AllBodies,
      CP!body_length, CP!WireHeaders, CP!Units, CP!Messages, encode_header,
      header_length, Blank, AllBodies, body_length, WireHeaders, Units,
      Messages
<1>2. ASSUME CP!IInv, NEW c \in Clients
      PROVE  ClientOf(c)
  BY <1>2 DEF CP!IInv, CP!StreamOK, CP!StreamOf, CP!StallMeansClosed, ClientOf
<1> QED
  BY <1>1, <1>2

(* What travels is written the same in all of the modules. *)
LEMMA WireSame ==
  /\ Server!decoded = decoded
  /\ \A b : Server!Frame(Server!Message(b)) = Frame(Message(b))
  /\ \A b : Client!Frame(Client!Message(b)) = Frame(Message(b)) /\ Client!Message(b) = Message(b)
  /\ Server!AllBodies = AllBodies /\ Client!AllBodies = AllBodies
BY DEF header_length, Blank, Minus, Plus, Nul, IsDigit, encode_header, InNumber, IsNegative, accumulate, atoi, strncat_s_fits, decode_header, AllBodies, body_length, WireHeaders, decoded, HeaderUnit, BodyUnit, Message, Frame,
  Server!header_length, Server!Blank, Server!Minus, Server!Plus, Server!Nul,
    Server!IsDigit, Server!encode_header, Server!InNumber, Server!IsNegative,
    Server!accumulate, Server!atoi, Server!strncat_s_fits,
    Server!decode_header, Server!AllBodies, Server!body_length,
    Server!WireHeaders, Server!decoded, Server!HeaderUnit, Server!BodyUnit,
    Server!Message, Server!Frame, Client!AllBodies, Client!encode_header,
    Client!header_length, Client!Blank, Client!body_length, Client!HeaderUnit,
    Client!BodyUnit, Client!Message, Client!Frame
-----------------------------------------------------------------------------
(* A header that decode_header accepts is the one encode_header writes for
   the length it reads. *)
LEMMA HeaderOf ==
  ASSUME NEW h \in WireHeaders, decoded[h].res = "ok"
  PROVE  h = encode_header(decoded[h].body_length)
<1>1. h \notin BadHeaders
  BY DecodedType, WireAssumption
<1>2. PICK b \in AllBodies : h = encode_header(body_length(b))
  BY <1>1 DEF WireHeaders
<1>3. Message(b).header = h
  BY <1>2 DEF Message
<1> QED
  BY <1>2, <1>3, GoodHeader

(* Messages that encode_header was called on have the types of messages. *)
LEMMA EncodedType == Encoded \subseteq Messages /\ \A m \in Encoded : m = Message(m.body) /\ m.body \in AllBodies
<1>1. \A b \in AllBodies : Message(b) \in Messages /\ Message(b).body = b
  BY FrameType
<1> QED
  BY <1>1 DEF Encoded

(* What do_read_body relays: a message as its sender encoded it, with the
   bytes that the read has taken off the stream, if any. *)
LEMMA Relayed ==
  ASSUME IInv, NEW c \in Clients, Server!ReadBody(c)
  PROVE  /\ rd[c] = "body" /\ rd' = [rd EXCEPT ![c] = "header"]
         /\ UNCHANGED <<read_msg, conn, hung, sent>>
         /\ \E b \in AllBodies :
              /\ history' = Append(history, Message(b))
              /\ body_length(b) = read_msg[c].body_length
              /\ b = NoBody => up' = up
              /\ b # NoBody => /\ up[c] # <<>> /\ up[c][1] \in Units
                               /\ up[c][1].part = "body" /\ up[c][1].val = b
                               /\ up' = [up EXCEPT ![c] = Tail(@)]
<1> DEFINE n == read_msg[c].body_length
           h == read_msg[c].header
<1>1. /\ rd[c] = "body" /\ rd' = [rd EXCEPT ![c] = "header"]
      /\ UNCHANGED <<read_msg, conn, hung, sent>>
      /\ \/ /\ n = 0 /\ up' = up
            /\ history' = Append(history, [header |-> h, body |-> NoBody])
         \/ /\ n > 0 /\ up[c] # <<>> /\ up' = [up EXCEPT ![c] = Tail(@)]
            /\ history' = Append(history, [header |-> h, body |-> Head(up[c]).val])
  BY DEF Server!ReadBody, Server!room_deliver, Server!read_next
<1>2. ServerTypes /\ ServerOf(c)
  BY ServerView DEF IInv
<1>3. h \in WireHeaders /\ h = encode_header(n) /\ up[c] \in Seq(Units) /\ n \in Nat
  <2>1. h \in WireHeaders /\ up[c] \in Seq(Units) /\ n \in 0..max_body_length
    BY <1>2 DEF ServerTypes
  <2>2. decoded[h].res = "ok" /\ decoded[h].body_length = n
    BY <1>1 DEF IInv, HeadersOK
  <2> QED
    BY <2>1, <2>2, HeaderOf, MessageAssumption
<1>4. CASE n = 0
  <2>1. body_length(NoBody) = 0 /\ NoBody \in AllBodies
    BY DEF body_length, AllBodies
  <2>2. Message(NoBody) = [header |-> h, body |-> NoBody]
    BY <1>3, <1>4, <2>1 DEF Message
  <2> QED
    BY <1>1, <1>3, <1>4, <2>1, <2>2
<1>5. CASE n # 0
  <2> DEFINE b == up[c][1].val
  <2>1. /\ n > 0 /\ up[c] # <<>> /\ up' = [up EXCEPT ![c] = Tail(@)]
        /\ history' = Append(history, [header |-> h, body |-> Head(up[c]).val])
    BY <1>1, <1>5
  <2>2. up[c][1].part = "body" /\ size[b] = n
    BY <1>1, <1>2, <2>1 DEF ServerOf
  <2>3. up[c][1] \in Units /\ Head(up[c]) = up[c][1]
    BY <1>3, <2>1
  <2>4. b \in Bodies
    BY <2>2, <2>3 DEF Units
  <2>5. b \in AllBodies /\ b # NoBody /\ body_length(b) = n
    BY <2>2, <2>4, WireAssumption DEF AllBodies, body_length
  <2>6. Message(b) = [header |-> h, body |-> Head(up[c]).val]
    BY <1>3, <2>3, <2>5 DEF Message
  <2> HIDE DEF b
  <2>7. up[c][1].val = b
    BY DEF b
  <2> QED
    BY <1>1, <2>1, <2>2, <2>3, <2>5, <2>6, <2>7
<1> QED
  BY <1>4, <1>5
-----------------------------------------------------------------------------
(* The message at the front of a queue is one that has been encoded, on
   either side. *)
LEMMA Fronts ==
  ASSUME IInv, NEW c \in Clients
  PROVE  /\ wr[c] => Head(write_msgs[c]) \in Encoded
         /\ cwr[c] # "none" => Head(cwrite_msgs[c]) \in Encoded
<1>1. ServerTypes /\ ServerOf(c) /\ ClientTypes /\ ClientOf(c)
  BY ServerView, ClientView DEF IInv
<1>2. ASSUME wr[c]
      PROVE  Head(write_msgs[c]) \in Encoded
  <2> DEFINE k == first[c] + Len(sent[c])
  <2>1. /\ write_msgs[c] \in Seq(Messages) /\ sent[c] \in Seq(Messages)
        /\ write_msgs[c] # <<>> /\ first[c] \in Nat /\ history \in Seq(Encoded)
    BY <1>1, <1>2 DEF ServerTypes, ServerOf, IInv, QueuesOK
  <2>2. 1 \in 1..Len(write_msgs[c]) /\ Head(write_msgs[c]) = write_msgs[c][1]
    BY <2>1
  <2>3. write_msgs[c][1] = history[k + 1 - 1]
    BY <1>1, <2>2 DEF ServerOf
  <2>4. k + 1 - 1 = k /\ k \in 1..Len(history)
    BY <1>1, <2>1, <2>2 DEF ServerOf
  <2> QED
    BY <2>1, <2>2, <2>3, <2>4
<1>3. ASSUME cwr[c] # "none"
      PROVE  Head(cwrite_msgs[c]) \in Encoded
  <2>1. cwrite_msgs[c] \in Seq(Encoded) /\ cwrite_msgs[c] # <<>>
    BY <1>1, <1>3 DEF ClientOf, IInv, QueuesOK
  <2> QED
    BY <2>1
<1> QED
  BY <1>2, <1>3

(* Every step of the system is one the server's module allows. *)
LEMMA ServerStep == IInv /\ [Next]_vars => [Server!Next]_(Server!vars)
<1>0. UNCHANGED serverVars => UNCHANGED Server!vars
  BY DEF serverVars, Server!vars, Server!roomVars, Server!readVars, Server!writeVars,
    Server!netVars
<1>1. SUFFICES ASSUME IInv, NEW c \in Clients,
                      \/ MainThread(c) \/ IoThread(c)
                      \/ Establish(c) \/ ConnectFails(c) \/ Transmit(c) \/ TransmitFails(c)
                      \/ Accept(c) \/ Read(c) \/ Deliver(c) \/ WriteError(c) \/ Disconnect(c)
               PROVE  Server!Next \/ UNCHANGED serverVars
  BY <1>0 DEF Next, vars
<1>2. CASE MainThread(c) \/ ConnectFails(c) \/ TransmitFails(c) \/ Disconnect(c)
  BY <1>2 DEF MainThread, ConnectFails, TransmitFails, Disconnect
<1>3. CASE IoThread(c)
  BY <1>3 DEF IoThread, Server!Next
<1>4. CASE Establish(c)
  BY <1>4 DEF Establish, Server!Next
<1>5. CASE Transmit(c)
  <2>1. cwr[c] # "none" /\ Server!Send(c, Frame(Head(cwrite_msgs[c])))
    BY <1>5 DEF Transmit, Client!Transmit
  <2>2. PICK b \in AllBodies : Head(cwrite_msgs[c]) = Message(b)
    <3>1. Head(cwrite_msgs[c]) \in Encoded
      BY <1>1, <2>1, Fronts
    <3> QED
      BY <3>1 DEF Encoded
  <2>3. b \in Server!AllBodies /\ Server!Send(c, Server!Frame(Server!Message(b)))
    BY <2>1, <2>2, WireSame
  <2> QED
    BY <2>3 DEF Server!Next, Server!PeerSend
<1>6. CASE Accept(c) \/ Read(c) \/ Deliver(c) \/ WriteError(c)
  BY <1>6 DEF Accept, Read, Deliver, WriteError, Server!Next
<1> QED
  BY <1>1, <1>2, <1>3, <1>4, <1>5, <1>6

(* And one the client's module allows. *)
LEMMA ClientStep == IInv /\ [Next]_vars => [Client!Next]_(Client!vars)
<1>0. UNCHANGED clientVars => UNCHANGED Client!vars
  BY DEF clientVars, Client!vars, Client!mainVars, Client!readVars, Client!writeVars,
    Client!serverVars
<1>1. SUFFICES ASSUME IInv, NEW c \in Clients,
                      \/ MainThread(c) \/ IoThread(c)
                      \/ Establish(c) \/ ConnectFails(c) \/ Transmit(c) \/ TransmitFails(c)
                      \/ Accept(c) \/ Read(c) \/ Deliver(c) \/ WriteError(c) \/ Disconnect(c)
               PROVE  Client!Next \/ UNCHANGED clientVars
  BY <1>0 DEF Next, vars
<1>2. CASE MainThread(c) \/ IoThread(c)
  BY <1>2 DEF MainThread, IoThread, Client!Next
<1>3. CASE Establish(c) \/ ConnectFails(c) \/ Transmit(c) \/ TransmitFails(c) \/ Disconnect(c)
  BY <1>3 DEF Establish, ConnectFails, Transmit, TransmitFails, Disconnect, Client!Next
<1>4. CASE Accept(c) \/ Read(c) \/ WriteError(c)
  BY <1>4 DEF Accept, Read, WriteError
<1>5. CASE Deliver(c)
  <2>1. CASE sock[c] = "connected" /\ ~lost[c]
    <3>1. /\ wr[c] /\ Client!Arrive(c, Frame(Head(write_msgs[c])))
          /\ served' = [served EXCEPT ![c] = Append(@, Head(write_msgs[c]).body)]
      BY <1>5, <2>1 DEF Deliver, Server!WriteDone
    <3>2. PICK b \in AllBodies : Head(write_msgs[c]) = Message(b)
      <4>1. Head(write_msgs[c]) \in Encoded
        BY <1>1, <3>1, Fronts
      <4> QED
        BY <4>1 DEF Encoded
    <3>3. /\ b \in Client!AllBodies /\ Client!Arrive(c, Client!Frame(Client!Message(b)))
          /\ served' = [served EXCEPT ![c] = Append(@, b)]
      BY <3>1, <3>2, WireSame, FrameType
    <3> QED
      BY <3>3 DEF Client!Next, Client!Serve
  <2>2. CASE ~(sock[c] = "connected" /\ ~lost[c])
    BY <1>5, <2>2 DEF Deliver
  <2> QED
    BY <2>1, <2>2
<1> QED
  BY <1>1, <1>2, <1>3, <1>4, <1>5
-----------------------------------------------------------------------------
(* The room grows by what do_read_body relays, and by nothing else. *)
LEMMA RoomStep ==
  ASSUME IInv, [Next]_vars
  PROVE  \/ UNCHANGED <<history, origin>>
         \/ \E c \in Clients : Server!ReadBody(c) /\ origin' = Append(origin, c)
                               /\ UNCHANGED clientVars
<1>1. CASE UNCHANGED vars
  BY <1>1 DEF vars, serverVars
<1>2. SUFFICES ASSUME NEW c \in Clients,
                      \/ MainThread(c) \/ IoThread(c)
                      \/ Establish(c) \/ ConnectFails(c) \/ Transmit(c) \/ TransmitFails(c)
                      \/ Accept(c) \/ Read(c) \/ Deliver(c) \/ WriteError(c) \/ Disconnect(c)
               PROVE  \/ UNCHANGED <<history, origin>>
                      \/ Server!ReadBody(c) /\ origin' = Append(origin, c)
                         /\ UNCHANGED clientVars
  BY <1>1 DEF Next
<1>3. CASE MainThread(c) \/ ConnectFails(c) \/ TransmitFails(c) \/ Disconnect(c)
  BY <1>3 DEF MainThread, ConnectFails, TransmitFails, Disconnect, serverVars
<1>4. CASE IoThread(c)
  BY <1>4 DEF IoThread, serverVars, Server!HangUp, Server!roomVars
<1>5. CASE Establish(c) \/ Transmit(c)
  BY <1>5 DEF Establish, Transmit, Server!Connect, Server!Send, Server!roomVars
<1>6. CASE Accept(c)
  BY <1>6 DEF Accept, Server!Accept, Server!join, Server!AcceptError, Server!roomVars
<1>7. CASE Read(c)
  <2>1. CASE Server!ReadBody(c)
    <3>1. history \in Seq(Encoded)
      BY DEF IInv, QueuesOK
    <3>2. PICK b \in AllBodies : history' = Append(history, Message(b))
      BY <2>1, Relayed
    <3>3. Message(b) \in Encoded
      BY DEF Encoded
    <3>4. history' # history
      BY <3>1, <3>2, <3>3
    <3> QED
      BY <1>7, <2>1, <3>4 DEF Read
  <2>2. CASE Server!ReadHeader(c) \/ Server!ReadError(c)
    <3>1. history' = history
      BY <2>2 DEF Server!ReadHeader, Server!header_done, Server!ReadError, Server!leave,
        Server!roomVars
    <3> QED
      BY <1>7, <3>1 DEF Read
  <2> QED
    BY <1>7, <2>1, <2>2 DEF Read
<1>8. CASE Deliver(c) \/ WriteError(c)
  BY <1>8 DEF Deliver, WriteError, Server!WriteDone, Server!WriteError, Server!leave,
    Server!roomVars
<1> QED
  BY <1>2, <1>3, <1>4, <1>5, <1>6, <1>7, <1>8

(* Whatever is queued stays a message that has been encoded. *)
LEMMA QueuesStep ==
  ASSUME IInv, [Next]_vars
  PROVE  QueuesOK'
<1> USE DEF QueuesOK
<1>0. QueuesOK
  BY DEF IInv
<1>1. history' \in Seq(Encoded)
  <2>1. CASE history' = history
    BY <1>0, <2>1
  <2>2. ASSUME NEW c \in Clients, Server!ReadBody(c)
        PROVE  history' \in Seq(Encoded)
    <3>1. PICK b \in AllBodies : history' = Append(history, Message(b))
      BY <2>2, Relayed
    <3>2. Message(b) \in Encoded
      BY DEF Encoded
    <3> QED
      BY <1>0, <3>1, <3>2
  <2> QED
    BY <2>1, <2>2, RoomStep
<1>2. SUFFICES ASSUME NEW c \in Clients,
                      \/ MainThread(c) \/ IoThread(c)
                      \/ Establish(c) \/ ConnectFails(c) \/ Transmit(c) \/ TransmitFails(c)
                      \/ Accept(c) \/ Read(c) \/ Deliver(c) \/ WriteError(c) \/ Disconnect(c)
               PROVE  /\ posted' \in [Clients -> Seq(Encoded \cup {Client!Close})]
                      /\ cwrite_msgs' \in [Clients -> Seq(Encoded)]
  <2>1. CASE UNCHANGED vars
    BY <1>0, <1>1, <2>1 DEF vars, clientVars
  <2> QED
    BY <1>1, <1>2, <2>1 DEF Next
<1>3. CASE MainThread(c)
  <2>1. ASSUME Client!Getline(c)
        PROVE  posted' \in [Clients -> Seq(Encoded \cup {Client!Close})]
    <3>1. PICK b \in Input : posted' = [posted EXCEPT ![c] = Append(@, Client!Message(b))]
      BY <2>1 DEF Client!Getline
    <3>2. Client!Message(b) \in Encoded
      BY WireSame, SystemAssumption DEF Encoded
    <3>3. Append(posted[c], Client!Message(b)) \in Seq(Encoded \cup {Client!Close})
      BY <1>0, <3>2
    <3> QED
      BY <1>0, <3>1, <3>3
  <2>2. ASSUME Client!EndInput(c)
        PROVE  posted' \in [Clients -> Seq(Encoded \cup {Client!Close})]
    BY <1>0, <2>2 DEF Client!EndInput
  <2>3. ASSUME Client!Join(c)
        PROVE  posted' \in [Clients -> Seq(Encoded \cup {Client!Close})]
    BY <1>0, <2>3 DEF Client!Join
  <2>4. cwrite_msgs' = cwrite_msgs
    BY <1>3 DEF MainThread, Client!Getline, Client!EndInput, Client!Join, Client!writeVars
  <2> QED
    BY <1>0, <1>3, <2>1, <2>2, <2>3, <2>4 DEF MainThread
<1>4. CASE IoThread(c)
  <2>1. CASE Client!RunWrite(c)
    <3>1. /\ posted[c] # <<>> /\ Head(posted[c]) # Client!Close
          /\ posted' = [posted EXCEPT ![c] = Tail(@)]
          /\ cwrite_msgs' = [cwrite_msgs EXCEPT ![c] = Append(@, Head(posted[c]))]
      BY <2>1 DEF Client!RunWrite, Client!posted_write
    <3>2. Head(posted[c]) \in Encoded /\ Tail(posted[c]) \in Seq(Encoded \cup {Client!Close})
      BY <1>0, <3>1
    <3>3. Append(cwrite_msgs[c], Head(posted[c])) \in Seq(Encoded)
      BY <1>0, <3>2
    <3> QED
      BY <1>0, <3>1, <3>2, <3>3
  <2>2. CASE Client!RunClose(c)
    <3>1. /\ posted[c] # <<>> /\ posted' = [posted EXCEPT ![c] = Tail(@)]
          /\ cwrite_msgs' = cwrite_msgs
      BY <2>2 DEF Client!RunClose
    <3>2. Tail(posted[c]) \in Seq(Encoded \cup {Client!Close})
      BY <1>0, <3>1
    <3> QED
      BY <1>0, <3>1, <3>2
  <2>3. CASE Client!WriteDone(c)
    <3>1. /\ cwr[c] = "sent" /\ posted' = posted
          /\ cwrite_msgs' = [cwrite_msgs EXCEPT ![c] = Tail(@)]
      BY <2>3 DEF Client!WriteDone
    <3>2. cwrite_msgs[c] # <<>>
      BY <3>1, ClientView DEF IInv, ClientOf
    <3>3. Tail(cwrite_msgs[c]) \in Seq(Encoded)
      BY <1>0, <3>2
    <3> QED
      BY <1>0, <3>1, <3>3
  <2>4. CASE Client!Connected(c) \/ Client!ReadHeader(c) \/ Client!ReadBody(c)
             \/ Client!ReadError(c) \/ Client!WriteError(c) \/ Client!IoStop(c)
    BY <1>0, <2>4 DEF Client!Connected, Client!ReadHeader, Client!ReadBody,
      Client!ReadError, Client!WriteError, Client!IoStop, Client!writeVars
  <2> QED
    BY <1>4, <2>1, <2>2, <2>3, <2>4 DEF IoThread, Client!Handler
<1>5. CASE Establish(c) \/ ConnectFails(c) \/ Transmit(c) \/ TransmitFails(c) \/ Disconnect(c)
  BY <1>0, <1>5 DEF Establish, ConnectFails, Transmit, TransmitFails, Disconnect,
    Client!Establish, Client!ConnectFails, Client!Transmit, Client!TransmitFails,
    Client!ServerEnds, Client!writeVars
<1>6. CASE Accept(c) \/ Read(c) \/ WriteError(c)
  BY <1>0, <1>6 DEF Accept, Read, WriteError, clientVars
<1>7. CASE Deliver(c)
  BY <1>0, <1>7 DEF Deliver, Client!Arrive, Client!writeVars, clientVars
<1> QED
  BY <1>2, <1>3, <1>4, <1>5, <1>6, <1>7

(* What a step does to the reading of a session: it is another session's,
   or the header's or the body's handler, or there is no body to come. *)
LEMMA ReadingStep ==
  ASSUME IInv, [Next]_vars, NEW d \in Clients
  PROVE  \/ UNCHANGED <<rd[d], read_msg[d]>>
         \/ rd'[d] # "body"
         \/ Server!ReadHeader(d)
<1>0. ServerTypes
  BY ServerView DEF IInv
<1>1. CASE UNCHANGED vars
  BY <1>1 DEF vars, serverVars
<1>2. SUFFICES ASSUME NEW c \in Clients,
                      \/ MainThread(c) \/ IoThread(c)
                      \/ Establish(c) \/ ConnectFails(c) \/ Transmit(c) \/ TransmitFails(c)
                      \/ Accept(c) \/ Read(c) \/ Deliver(c) \/ WriteError(c) \/ Disconnect(c)
               PROVE  \/ UNCHANGED <<rd[d], read_msg[d]>>
                      \/ rd'[d] # "body"
                      \/ Server!ReadHeader(d)
  BY <1>1 DEF Next
<1>3. CASE MainThread(c) \/ ConnectFails(c) \/ TransmitFails(c) \/ Disconnect(c)
  BY <1>3 DEF MainThread, ConnectFails, TransmitFails, Disconnect, serverVars
<1>4. CASE IoThread(c)
  BY <1>4 DEF IoThread, serverVars, Server!HangUp, Server!readVars
<1>5. CASE Establish(c) \/ Transmit(c)
  BY <1>5 DEF Establish, Transmit, Server!Connect, Server!Send, Server!readVars
<1>6. CASE Accept(c)
  BY <1>0, <1>6 DEF ServerTypes, Accept, Server!Accept, Server!AcceptError, Server!readVars
<1>7. CASE Read(c)
  <2>1. CASE Server!ReadBody(c)
    BY <1>0, <2>1, Relayed DEF ServerTypes
  <2>2. CASE Server!ReadHeader(c)
    BY <1>0, <2>2 DEF ServerTypes, Server!ReadHeader, Server!header_done
  <2>3. CASE Server!ReadError(c)
    BY <1>0, <2>3 DEF ServerTypes, Server!ReadError
  <2> QED
    BY <1>7, <2>1, <2>2, <2>3 DEF Read
<1>8. CASE Deliver(c) \/ WriteError(c)
  BY <1>8 DEF Deliver, WriteError, Server!WriteDone, Server!WriteError, Server!readVars
<1> QED
  BY <1>2, <1>3, <1>4, <1>5, <1>6, <1>7, <1>8

(* A session that awaits a body has been given its length by the header. *)
LEMMA HeadersStep ==
  ASSUME IInv, [Next]_vars
  PROVE  HeadersOK'
<1>1. SUFFICES ASSUME NEW d \in Clients, rd'[d] = "body"
               PROVE  /\ decoded[read_msg'[d].header].res = "ok"
                      /\ decoded[read_msg'[d].header].body_length = read_msg'[d].body_length
  BY DEF HeadersOK, decoded
<1>2. CASE UNCHANGED <<rd[d], read_msg[d]>>
  BY <1>1, <1>2 DEF IInv, HeadersOK
<1>3. CASE Server!ReadHeader(d)
  <2>1. ServerTypes
    BY ServerView DEF IInv
  <2> DEFINE h == Head(up[d]).val
  <2>2. /\ read_msg' = [read_msg EXCEPT ![d] = [header |-> h,
                                              body_length |-> Server!decoded[h].body_length]]
        /\ Server!header_done(d, Server!decoded[h])
    BY <1>3 DEF Server!ReadHeader
  <2>3. Server!decoded[h].res = "ok"
    BY <1>1, <2>1, <2>2 DEF Server!header_done, ServerTypes
  <2>4. read_msg'[d] = [header |-> h, body_length |-> decoded[h].body_length]
    BY <2>1, <2>2, WireSame DEF ServerTypes
  <2> QED
    BY <2>3, <2>4, WireSame
<1> QED
  BY <1>1, <1>2, <1>3, ReadingStep
-----------------------------------------------------------------------------
(* What a step does to the delivery to client d: the connection is made, the
   front of the session's queue is written, or an end of it closes. *)
LEMMA DeliveryStep ==
  ASSUME IInv, [Next]_vars, NEW d \in Clients
  PROVE  \/ UNCHANGED <<served[d], sent[d]>>
            /\ (sock'[d] = "connected" => sock[d] = "connected")
            /\ (~lost'[d] => ~lost[d])
         \/ UNCHANGED <<served[d], sent[d]>> /\ sent[d] = <<>>
         \/ Deliver(d)
<1>0. ServerTypes /\ ClientTypes /\ ServerOf(d)
  BY ServerView, ClientView DEF IInv
<1>1. CASE UNCHANGED vars
  BY <1>1 DEF vars, serverVars, clientVars
<1>2. SUFFICES ASSUME NEW c \in Clients,
                      \/ MainThread(c) \/ IoThread(c)
                      \/ Establish(c) \/ ConnectFails(c) \/ Transmit(c) \/ TransmitFails(c)
                      \/ Accept(c) \/ Read(c) \/ Deliver(c) \/ WriteError(c) \/ Disconnect(c)
               PROVE  \/ UNCHANGED <<served[d], sent[d]>>
                         /\ (sock'[d] = "connected" => sock[d] = "connected")
                         /\ (~lost'[d] => ~lost[d])
                      \/ UNCHANGED <<served[d], sent[d]>> /\ sent[d] = <<>>
                      \/ Deliver(d)
  BY <1>1 DEF Next
<1>3. CASE MainThread(c)
  BY <1>3 DEF MainThread, serverVars, Client!Getline, Client!EndInput, Client!Join,
    Client!serverVars
<1>4. CASE IoThread(c)
  <2>1. sent' = sent
    BY <1>4 DEF IoThread, serverVars, Server!HangUp, Server!writeVars
  <2>2. served' = served /\ lost' = lost
    BY <1>4 DEF IoThread, Client!Handler, Client!RunWrite, Client!RunClose,
      Client!Connected, Client!ReadHeader, Client!ReadBody, Client!ReadError,
      Client!WriteDone, Client!WriteError, Client!IoStop, Client!serverVars
  <2>3. sock' = sock \/ sock' = [sock EXCEPT ![c] = "closed"]
    BY <1>4 DEF IoThread, Client!Handler, Client!RunWrite, Client!RunClose,
      Client!Connected, Client!ReadHeader, Client!header_done, Client!close,
      Client!ReadBody, Client!ReadError, Client!WriteDone, Client!WriteError,
      Client!IoStop
  <2> QED
    BY <1>0, <2>1, <2>2, <2>3 DEF ClientTypes
<1>5. CASE Establish(c)
  <2>1. conn[c] = "idle" /\ sent' = sent
    BY <1>5 DEF Establish, Server!Connect, Server!writeVars
  <2>2. sent[c] = <<>>
    BY <2>1, ServerView DEF IInv, ServerOf
  <2>3. /\ served' = served /\ lost' = lost
        /\ sock' = [sock EXCEPT ![c] = "connected"]
    BY <1>5 DEF Establish, Client!Establish, Client!serverVars
  <2> QED
    BY <1>0, <2>1, <2>2, <2>3 DEF ClientTypes
<1>6. CASE ConnectFails(c) \/ Transmit(c) \/ TransmitFails(c)
  BY <1>6 DEF ConnectFails, Transmit, TransmitFails, serverVars, Server!Send,
    Server!writeVars, Client!ConnectFails, Client!Transmit, Client!TransmitFails,
    Client!serverVars
<1>7. CASE Accept(c)
  BY <1>7 DEF Accept, clientVars, Server!Accept, Server!join, Server!AcceptError,
    Server!writeVars
<1>8. CASE Read(c)
  BY <1>8 DEF Read, clientVars, Server!ReadHeader, Server!ReadBody,
    Server!room_deliver, Server!ReadError, Server!writeVars
<1>9. CASE Deliver(c)
  <2>1. CASE c = d
    BY <1>9, <2>1
  <2>2. CASE c # d
    <3>1. sent'[d] = sent[d]
      BY <1>0, <1>9, <2>2 DEF ServerTypes, Deliver, Server!WriteDone
    <3>2. served'[d] = served[d] /\ sock' = sock /\ lost' = lost
      BY <1>0, <1>9, <2>2 DEF ClientTypes, Deliver, clientVars, Client!Arrive
    <3> QED
      BY <3>1, <3>2
  <2> QED
    BY <2>1, <2>2
<1>10. CASE WriteError(c)
  BY <1>10 DEF WriteError, clientVars, Server!WriteError
<1>11. CASE Disconnect(c)
  BY <1>0, <1>11 DEF ClientTypes, Disconnect, serverVars, Client!ServerEnds
<1> QED
  BY <1>2, <1>3, <1>4, <1>5, <1>6, <1>7, <1>8, <1>9, <1>10, <1>11

(* What has reached a client stays what was written to its session. *)
LEMMA ServedStep ==
  ASSUME IInv, [Next]_vars
  PROVE  ServedOK'
<1>1. SUFFICES ASSUME NEW d \in Clients
               PROVE  ServedOf(d)'
  BY DEF ServedOK
<1>2. /\ ServerTypes /\ ClientTypes /\ ServerOf(d)
      /\ ServedOf(d)
  BY ServerView, ClientView DEF IInv, ServedOK
<1>3. CASE UNCHANGED <<served[d], sent[d]>>
           /\ (sock'[d] = "connected" => sock[d] = "connected")
           /\ (~lost'[d] => ~lost[d])
  BY <1>2, <1>3 DEF ServedOf
<1>4. CASE UNCHANGED <<served[d], sent[d]>> /\ sent[d] = <<>>
  BY <1>2, <1>4 DEF ServedOf, ClientTypes
<1>5. CASE Deliver(d)
  <2> DEFINE m == Head(write_msgs[d])
             p == served[d]
             q == sent[d]
  <2>1. m \in Messages
    BY <1>5, Fronts, EncodedType DEF Deliver, Server!WriteDone
  <2>2. m.body \in AllBodies
    BY <2>1 DEF Messages
  <2> HIDE DEF m
  <2>3. sent'[d] = Append(q, m)
    BY <1>2, <1>5 DEF Deliver, Server!WriteDone, ServerTypes, m
  <2>4. /\ p \in Seq(AllBodies) /\ q \in Seq(Messages) /\ Len(p) <= Len(q)
        /\ \A i \in 1..Len(p) : p[i] = q[i].body
        /\ sock[d] = "connected" /\ ~lost[d] => Len(p) = Len(q)
    BY <1>2 DEF ServedOf, ServerTypes, ClientTypes
  <2>5. CASE sock[d] = "connected" /\ ~lost[d]
    <3>1. served'[d] = Append(p, m.body)
      BY <1>2, <1>5, <2>5 DEF Deliver, ClientTypes, m
    <3> HIDE DEF p, q
    <3>2. Len(served'[d]) = Len(sent'[d])
      BY <2>2, <2>3, <2>4, <2>5, <3>1
    <3>3. ASSUME NEW i \in 1..Len(served'[d])
          PROVE  served'[d][i] = sent'[d][i].body
      <4>1. CASE i = Len(p) + 1
        BY <2>1, <2>2, <2>3, <2>4, <2>5, <3>1, <4>1
      <4>2. CASE i # Len(p) + 1
        <5>1. i \in 1..Len(p)
          BY <2>2, <2>4, <3>1, <4>2
        <5>2. served'[d][i] = p[i] /\ sent'[d][i] = q[i]
          BY <2>1, <2>2, <2>3, <2>4, <2>5, <3>1, <5>1
        <5> QED
          BY <2>4, <5>1, <5>2
      <4> QED
        BY <4>1, <4>2
    <3> QED
      BY <3>2, <3>3, <2>3, <2>4, <2>1 DEF ServedOf
  <2>6. CASE ~(sock[d] = "connected" /\ ~lost[d])
    <3>1. served' = served /\ sock' = sock /\ lost' = lost
      BY <1>5, <2>6 DEF Deliver, clientVars
    <3> HIDE DEF p, q
    <3>2. Len(p) <= Len(sent'[d]) /\ \A i \in 1..Len(p) : sent'[d][i] = q[i]
      BY <2>1, <2>3, <2>4
    <3>3. \A i \in 1..Len(p) : p[i] = sent'[d][i].body
      BY <2>4, <3>2
    <3> QED
      BY <2>6, <3>1, <3>2, <3>3 DEF ServedOf, p
  <2> QED
    BY <2>5, <2>6
<1> QED
  BY <1>3, <1>4, <1>5, DeliveryStep
-----------------------------------------------------------------------------
(* The places at which one session has posted. *)
Turns(q, c, n) == {i \in 1..n : q[i] = c}

(* How they grow, when a message is posted. *)
LEMMA TurnsAppend ==
  ASSUME NEW q \in Seq(Clients), NEW c \in Clients, NEW d \in Clients
  PROVE  LET p == Append(q, c)
             n == Len(q)
         IN  /\ \A i \in 1..n : Cardinality(Turns(p, d, i)) = Cardinality(Turns(q, d, i))
             /\ Cardinality(Turns(q, d, n)) \in Nat
             /\ Cardinality(Turns(p, d, n + 1)) =
                  Cardinality(Turns(q, d, n)) + IF c = d THEN 1 ELSE 0
<1> DEFINE p == Append(q, c)
           n == Len(q)
<1>1. /\ n \in Nat /\ p[n + 1] = c
      /\ \A j \in 1..n : p[j] = q[j]
  OBVIOUS
<1> HIDE DEF p, n
<1>2. \A i \in 1..n : Turns(p, d, i) = Turns(q, d, i)
  BY <1>1 DEF Turns
<1>3. Turns(p, d, n + 1) = Turns(q, d, n) \cup (IF c = d THEN {n + 1} ELSE {})
  BY <1>1 DEF Turns
<1>4. IsFiniteSet(Turns(q, d, n)) /\ n + 1 \notin Turns(q, d, n)
  <2>1. IsFiniteSet(1..n)
    BY <1>1, FS_Interval
  <2>2. Turns(q, d, n) \in SUBSET (1..n) /\ n + 1 \notin 1..n
    BY <1>1 DEF Turns
  <2> QED
    BY <2>1, <2>2, FS_Subset
<1>5. Cardinality(Turns(q, d, n)) \in Nat
  BY <1>4, FS_CardinalityType
<1>6. CASE c = d
  <2>1. Turns(p, d, n + 1) = Turns(q, d, n) \cup {n + 1}
    BY <1>3, <1>6
  <2>2. Cardinality(Turns(p, d, n + 1)) = Cardinality(Turns(q, d, n)) + 1
    BY <1>4, <2>1, FS_AddElement
  <2> QED
    BY <1>2, <1>5, <1>6, <2>2 DEF p, n
<1>7. CASE c # d
  <2>1. Turns(p, d, n + 1) = Turns(q, d, n)
    BY <1>3, <1>7
  <2> QED
    BY <1>2, <1>5, <1>7, <2>1 DEF p, n
<1> QED
  BY <1>6, <1>7

(* The message that a session relays is the next line of its client. *)
LEMMA PostsStep ==
  ASSUME IInv, NEW c \in Clients, Server!ReadBody(c), origin' = Append(origin, c),
         NEW d \in Clients
  PROVE  /\ Len(history') = Len(history) + 1
         /\ Posts(d) \in Nat
         /\ Posts(d)' = Posts(d) + IF c = d THEN 1 ELSE 0
         /\ \A i \in 1..Len(history) : PostedBy(d, i)' = PostedBy(d, i)
<1>1. history \in Seq(Encoded) /\ origin \in Seq(Clients) /\ Len(origin) = Len(history)
  BY DEF IInv, QueuesOK, OriginOK
<1>2. Len(history') = Len(history) + 1
  <2>1. PICK b \in AllBodies : history' = Append(history, Message(b))
    BY Relayed
  <2>2. Message(b) \in Encoded
    BY DEF Encoded
  <2> QED
    BY <1>1, <2>1, <2>2
<1>3. /\ \A i \in Nat : PostedBy(d, i) = Cardinality(Turns(origin, d, i))
      /\ \A i \in Nat : PostedBy(d, i)' = Cardinality(Turns(origin', d, i))
  BY DEF PostedBy, Turns
<1>4. /\ \A i \in 1..Len(origin) :
           Cardinality(Turns(origin', d, i)) = Cardinality(Turns(origin, d, i))
      /\ Cardinality(Turns(origin, d, Len(origin))) \in Nat
      /\ Cardinality(Turns(origin', d, Len(origin) + 1)) =
           Cardinality(Turns(origin, d, Len(origin))) + IF c = d THEN 1 ELSE 0
  BY <1>1, TurnsAppend
<1>5. Len(origin) \in Nat /\ Len(origin) + 1 \in Nat /\ 1..Len(origin) \subseteq Nat
  BY <1>1
<1>6. Posts(d) = Cardinality(Turns(origin, d, Len(origin)))
  BY <1>1, <1>3, <1>5 DEF Posts
<1>7. Posts(d)' = Cardinality(Turns(origin', d, Len(origin) + 1))
  BY <1>1, <1>2, <1>3, <1>5 DEF Posts
<1> QED
  BY <1>1, <1>2, <1>3, <1>4, <1>5, <1>6, <1>7
-----------------------------------------------------------------------------
(* What a step does to the stream that client d's session reads. *)
LEMMA StreamEvents ==
  ASSUME IInv, [Next]_vars, NEW d \in Clients
  PROVE  \/ UNCHANGED <<up[d], wire[d], rd[d], read_msg[d], hung[d]>> /\ (Reads(d)' => Reads(d))
         \/ UNCHANGED <<up[d], wire[d], read_msg[d], hung[d]>>
            /\ Reads(d) /\ rd[d] = "none" /\ rd'[d] = "header"
         \/ UNCHANGED wire[d] /\ rd'[d] = "none" /\ ~Reads(d)'
         \/ Transmit(d)
         \/ UNCHANGED wire[d] /\ (Server!HangUp(d) \/ Server!ReadHeader(d) \/ Server!ReadBody(d))
<1>0. ServerTypes /\ ClientTypes /\ ServerOf(d)
  BY ServerView, ClientView DEF IInv
<1>1. CASE UNCHANGED vars
  BY <1>1 DEF vars, serverVars, clientVars, Reads
<1> DEFINE
  Quiet == UNCHANGED <<up[d], wire[d], rd[d], read_msg[d], hung[d]>> /\ (Reads(d)' => Reads(d))
  Others == UNCHANGED <<up[d], wire[d], rd[d], read_msg[d], hung[d], conn[d]>>
<1>2. Others => Quiet
  BY DEF Reads
<1>3. SUFFICES ASSUME NEW c \in Clients,
                      \/ MainThread(c) \/ IoThread(c)
                      \/ Establish(c) \/ ConnectFails(c) \/ Transmit(c) \/ TransmitFails(c)
                      \/ Accept(c) \/ Read(c) \/ Deliver(c) \/ WriteError(c) \/ Disconnect(c)
               PROVE  \/ Quiet
                      \/ UNCHANGED <<up[d], wire[d], read_msg[d], hung[d]>>
                         /\ Reads(d) /\ rd[d] = "none" /\ rd'[d] = "header"
                      \/ UNCHANGED wire[d] /\ rd'[d] = "none" /\ ~Reads(d)'
                      \/ Transmit(d)
                      \/ UNCHANGED wire[d]
                         /\ (Server!HangUp(d) \/ Server!ReadHeader(d) \/ Server!ReadBody(d))
  BY <1>1 DEF Next
<1>4. CASE MainThread(c) \/ ConnectFails(c) \/ TransmitFails(c) \/ Disconnect(c)
  <2>1. UNCHANGED serverVars /\ wire' = wire
    BY <1>4 DEF MainThread, ConnectFails, TransmitFails, Disconnect, Client!Getline,
      Client!EndInput, Client!Join, Client!ConnectFails, Client!TransmitFails,
      Client!ServerEnds, Client!writeVars
  <2>2. Others
    BY <2>1 DEF serverVars
  <2> QED
    BY <1>2, <2>2
<1>5. CASE IoThread(c)
  <2>1. wire' = wire
    BY <1>5 DEF IoThread, Client!Handler, Client!RunWrite, Client!RunClose,
      Client!Connected, Client!ReadHeader, Client!ReadBody, Client!ReadError,
      Client!WriteDone, Client!WriteError, Client!IoStop, Client!writeVars
  <2>2. CASE UNCHANGED serverVars
    <3>1. Others
      BY <2>1, <2>2 DEF serverVars
    <3> QED
      BY <1>2, <3>1
  <2>3. CASE Server!HangUp(c)
    <3>1. CASE c = d
      BY <2>1, <2>3, <3>1
    <3>2. CASE c # d
      <4>1. Others
        BY <1>0, <2>1, <2>3, <3>2 DEF Server!HangUp, Server!readVars, ServerTypes
      <4> QED
        BY <1>2, <4>1
    <3> QED
      BY <3>1, <3>2
  <2> QED
    BY <1>5, <2>2, <2>3 DEF IoThread
<1>6. CASE Establish(c)
  <2>1. UNCHANGED <<up, wire, rd, read_msg, hung>>
    BY <1>6 DEF Establish, Server!Connect, Server!readVars, Client!Establish, Client!writeVars
  <2>2. Reads(d)' => Reads(d)
    BY <1>0, <1>6, <2>1 DEF Establish, Server!Connect, ServerTypes, Reads
  <2> QED
    BY <2>1, <2>2
<1>7. CASE Transmit(c)
  <2>1. CASE c = d
    BY <1>7, <2>1
  <2>2. CASE c # d
    <3>1. UNCHANGED <<rd, read_msg, hung, conn>> /\ up'[d] = up[d]
      BY <1>0, <1>7, <2>2 DEF Transmit, Server!Send, Server!readVars, ServerTypes
    <3>2. wire'[d] = wire[d]
      <4>1. wire' = [wire EXCEPT ![c] = Append(@, Head(cwrite_msgs[c]).body)]
        BY <1>7 DEF Transmit, Client!Transmit
      <4>2. wire \in [Clients -> Seq(AllBodies)]
        BY <1>0 DEF ClientTypes
      <4> QED
        BY <2>2, <4>1, <4>2
    <3>3. Others
      BY <3>1, <3>2
    <3> QED
      BY <1>2, <3>3
  <2> QED
    BY <2>1, <2>2
<1>8. CASE Accept(c)
  <2>1. UNCHANGED <<up, wire, read_msg, hung>>
    BY <1>8 DEF Accept, clientVars, Server!Accept, Server!AcceptError, Server!readVars
  <2>2. CASE c # d
    <3>1. Others
      BY <1>0, <1>8, <2>1, <2>2 DEF Accept, Server!Accept, Server!AcceptError,
        Server!readVars, ServerTypes
    <3> QED
      BY <1>2, <3>1
  <2>3. CASE c = d /\ Server!Accept(d)
    BY <1>0, <2>1, <2>3 DEF Server!Accept, ServerTypes, ServerOf, Reads
  <2>4. CASE c = d /\ Server!AcceptError(d)
    BY <1>0, <2>1, <2>4 DEF Server!AcceptError, Server!readVars, ServerTypes, ServerOf, Reads
  <2> QED
    BY <1>8, <2>2, <2>3, <2>4 DEF Accept
<1>9. CASE Read(c)
  <2>1. wire' = wire
    BY <1>9 DEF Read, clientVars
  <2>2. CASE c # d
    <3>1. CASE Server!ReadBody(c)
      <4>1. UNCHANGED <<read_msg, conn, hung>> /\ rd'[d] = rd[d]
        BY <1>0, <2>2, <3>1, Relayed DEF ServerTypes
      <4>2. up'[d] = up[d]
        BY <1>0, <2>2, <3>1 DEF ServerTypes, Server!ReadBody
      <4>3. Others
        BY <2>1, <4>1, <4>2
      <4> QED
        BY <1>2, <4>3
    <3>2. CASE Server!ReadHeader(c) \/ Server!ReadError(c)
      <4>1. Others
        BY <1>0, <2>1, <2>2, <3>2 DEF ServerTypes, Server!ReadHeader, Server!header_done,
          Server!ReadError, Server!netVars
      <4> QED
        BY <1>2, <4>1
    <3> QED
      BY <1>9, <3>1, <3>2 DEF Read
  <2>3. CASE c = d /\ Server!ReadError(d)
    <3>1. rd[d] # "none" /\ rd'[d] = "none" /\ conn' = conn
      BY <1>0, <2>3 DEF ServerTypes, Server!ReadError, Server!netVars
    <3>2. conn[d] = "accepted"
      BY <1>0, <3>1 DEF ServerOf
    <3> QED
      BY <2>1, <3>1, <3>2 DEF Reads
  <2> QED
    BY <1>9, <2>1, <2>2, <2>3 DEF Read
<1>10. CASE Deliver(c) \/ WriteError(c)
  <2>1. Others
    BY <1>10 DEF Deliver, WriteError, Server!WriteDone, Server!WriteError,
      Server!readVars, Server!netVars, Client!Arrive, Client!writeVars, clientVars
  <2> QED
    BY <1>2, <2>1
<1> QED
  BY <1>3, <1>4, <1>5, <1>6, <1>7, <1>8, <1>9, <1>10
-----------------------------------------------------------------------------
(* The line that a session's body handler relays is the next one that left
   its client, and the stream goes on behind it. *)
LEMMA NextLine ==
  ASSUME IInv, NEW c \in Clients, Server!ReadBody(c)
  PROVE  /\ Posts(c) < Len(wire[c])
         /\ history' = Append(history, Message(wire[c][Posts(c) + 1]))
         /\ Stream(up'[c], wire[c], Posts(c) + 2, "header", End(c))
<1>0. ServerTypes /\ ClientTypes
  BY ServerView, ClientView DEF IInv
<1>1. PICK b \in AllBodies :
        /\ history' = Append(history, Message(b))
        /\ body_length(b) = read_msg[c].body_length
        /\ b = NoBody => up' = up
        /\ b # NoBody => /\ up[c] # <<>> /\ up[c][1] \in Units
                         /\ up[c][1].part = "body" /\ up[c][1].val = b
                         /\ up' = [up EXCEPT ![c] = Tail(@)]
  BY Relayed
<1>2. rd[c] = "body"
  BY Relayed
<1> DEFINE k == Posts(c) + 1
           s == wire[c]
<1>3. /\ Posts(c) < Len(s) /\ body_length(s[k]) = read_msg[c].body_length
      /\ Stream(up[c], s, Number(c), Part(c), End(c))
  BY <1>2 DEF IInv, UpOK, UpOf, Reads
<1>4. s \in Seq(AllBodies) /\ up[c] \in Seq(Units) /\ up \in [Clients -> Seq(Units)]
  BY <1>0 DEF ServerTypes, ClientTypes
<1>5. Posts(c) \in Nat
  <2>1. origin \in Seq(Clients) /\ Len(origin) = Len(history)
    BY DEF IInv, OriginOK
  <2>2. Cardinality(Turns(origin, c, Len(origin))) \in Nat
    BY <2>1, TurnsAppend
  <2>3. Posts(c) = Cardinality(Turns(origin, c, Len(origin)))
    BY <2>1 DEF Posts, PostedBy, Turns
  <2> QED
    BY <2>2, <2>3
<1>6. k \in 1..Len(s) /\ s[k] \in AllBodies
  BY <1>3, <1>4, <1>5
<1> HIDE DEF s
<1>7. CASE b = NoBody
  <2>1. read_msg[c].body_length = 0
    BY <1>1, <1>7 DEF body_length
  <2>2. s[k] = NoBody
    BY <1>3, <1>6, <2>1, BodyLength DEF AllBodies
  <2>3. Number(c) = Posts(c) + 2 /\ Part(c) = "header"
    BY <1>2, <2>1 DEF Number, Part
  <2> QED
    BY <1>1, <1>3, <1>7, <2>2, <2>3 DEF s
<1>8. CASE b # NoBody
  <2>1. read_msg[c].body_length > 0 /\ read_msg[c].body_length # 0
    <3>1. b \in Bodies
      BY <1>8 DEF AllBodies
    <3>2. body_length(b) > 0 /\ body_length(b) \in 0..max_body_length
      BY <3>1, BodyLength
    <3> QED
      BY <1>1, <3>2
  <2>2. Number(c) = k /\ Part(c) = "body"
    BY <1>2, <2>1 DEF Number, Part
  <2>3. up[c] # <<>> /\ up[c][1].part = "body" /\ up[c][1].val = b /\ up'[c] = Tail(up[c])
    BY <1>1, <1>4, <1>8
  <2>4. Ok(up[c][1]) /\ EndsMsg(up[c][1])
    BY <2>3 DEF Ok, EndsMsg
  <2>5. Stream(up[c], s, k, "body", End(c))
    BY <1>3, <2>2
  <2>6. /\ Belongs(up[c][1], s[k])
        /\ Stream(Tail(up[c]), s, k + 1, "header", End(c))
    BY <1>4, <2>3, <2>4, <2>5, StreamTake
  <2>7. s[k] = b
    BY <2>3, <2>6 DEF Belongs
  <2>8. k + 1 = Posts(c) + 2
    BY <1>5
  <2> QED
    BY <1>1, <1>3, <2>3, <2>6, <2>7, <2>8 DEF s
<1> QED
  BY <1>7, <1>8

(* The counts that a step leaves as they are. *)
LEMMA PostsSame ==
  ASSUME IInv, [Next]_vars, NEW d \in Clients
  PROVE  /\ Posts(d) \in Nat
         /\ Posts(d)' = Posts(d) \/ (Server!ReadBody(d) /\ Posts(d)' = Posts(d) + 1)
<1>1. Posts(d) \in Nat
  <2>1. origin \in Seq(Clients) /\ Len(origin) = Len(history)
    BY DEF IInv, OriginOK
  <2>2. Cardinality(Turns(origin, d, Len(origin))) \in Nat
    BY <2>1, TurnsAppend
  <2>3. Posts(d) = Cardinality(Turns(origin, d, Len(origin)))
    BY <2>1 DEF Posts, PostedBy, Turns
  <2> QED
    BY <2>2, <2>3
<1>2. CASE UNCHANGED <<history, origin>>
  BY <1>1, <1>2 DEF Posts, PostedBy
<1>3. ASSUME NEW c \in Clients, Server!ReadBody(c), origin' = Append(origin, c)
      PROVE  Posts(d)' = Posts(d) \/ (Server!ReadBody(d) /\ Posts(d)' = Posts(d) + 1)
  <2>1. Posts(d)' = Posts(d) + IF c = d THEN 1 ELSE 0
    BY <1>3, PostsStep
  <2>2. CASE c = d
    BY <1>3, <2>1, <2>2
  <2>3. CASE c # d
    BY <1>1, <2>1, <2>3
  <2> QED
    BY <2>2, <2>3
<1> QED
  BY <1>1, <1>2, <1>3, RoomStep

(* A frame that leaves the client joins the stream as a whole. *)
LEMMA UpTransmit ==
  ASSUME IInv, [Next]_vars, NEW d \in Clients, Transmit(d)
  PROVE  UpOf(d)'
<1>0. ServerTypes /\ ClientTypes
  BY ServerView, ClientView DEF IInv
<1>1. PICK b \in AllBodies : Head(cwrite_msgs[d]) = Message(b)
  <2>1. cwr[d] # "none"
    BY DEF Transmit, Client!Transmit
  <2>2. Head(cwrite_msgs[d]) \in Encoded
    BY <2>1, Fronts
  <2> QED
    BY <2>2 DEF Encoded
<1>2. /\ up[d] \in Seq(Units) /\ wire[d] \in Seq(AllBodies)
      /\ UpOf(d)
  BY <1>0 DEF ServerTypes, ClientTypes, IInv, UpOK
<1>3. /\ up'[d] = up[d] \o Frame(Message(b)) /\ ~hung[d]
      /\ UNCHANGED <<rd, read_msg, conn, hung, history, origin>>
  BY <1>0, <1>1 DEF ServerTypes, Transmit, Server!Send, Server!readVars, Server!roomVars
<1>4. wire'[d] = Append(wire[d], b)
  <2>1. wire' = [wire EXCEPT ![d] = Append(@, Message(b).body)]
    BY <1>1 DEF Transmit, Client!Transmit
  <2>2. Message(b).body = b
    BY DEF Message
  <2> QED
    BY <1>0, <2>1, <2>2 DEF ClientTypes
<1>5. /\ Posts(d)' = Posts(d) /\ Posts(d) \in Nat
      /\ Number(d)' = Number(d) /\ Part(d)' = Part(d)
      /\ End(d)' = "whole" /\ End(d) = "whole" /\ Reads(d)' = Reads(d)
  <2>1. Posts(d)' = Posts(d)
    BY <1>3 DEF Posts, PostedBy
  <2> QED
    BY <1>3, <2>1, PostsSame DEF Number, Part, End, Reads
<1>6. Reads(d) => Stream(up[d] \o Frame(Message(b)), Append(wire[d], b),
                         Number(d), Part(d), "whole")
  <2>1. Reads(d) => Stream(up[d], wire[d], Number(d), Part(d), "whole")
    BY <1>2, <1>5 DEF UpOf
  <2> QED
    BY <1>2, <2>1, StreamServe
<1>7. Reads(d)' => Stream(up'[d], wire'[d], Number(d)', Part(d)', End(d)')
  BY <1>3, <1>4, <1>5, <1>6
<1>8. /\ Len(wire'[d]) = Len(wire[d]) + 1
      /\ \A i \in 1..Len(wire[d]) : wire'[d][i] = wire[d][i]
  BY <1>2, <1>4
<1>9. Posts(d)' <= Len(wire'[d])
  BY <1>2, <1>5, <1>8 DEF UpOf
<1>10. rd'[d] = "body" =>
         /\ Posts(d)' < Len(wire'[d])
         /\ body_length(wire'[d][Posts(d)' + 1]) = read_msg'[d].body_length
  <2>1. SUFFICES ASSUME rd[d] = "body"
                 PROVE  /\ Posts(d) < Len(wire'[d])
                        /\ body_length(wire'[d][Posts(d) + 1]) = read_msg[d].body_length
    BY <1>3, <1>5
  <2>2. Posts(d) < Len(wire[d]) /\ body_length(wire[d][Posts(d) + 1]) = read_msg[d].body_length
    BY <1>2, <2>1 DEF UpOf
  <2>3. Posts(d) + 1 \in 1..Len(wire[d]) /\ Posts(d) < Len(wire'[d])
    BY <1>2, <1>5, <1>8, <2>2
  <2> QED
    BY <1>8, <2>2, <2>3
<1> QED
  BY <1>7, <1>9, <1>10 DEF UpOf, body_length
(* What is left of the stream when the header has been read. *)
LEMMA UpHeader ==
  ASSUME IInv, [Next]_vars, NEW d \in Clients, Server!ReadHeader(d), wire'[d] = wire[d]
  PROVE  UpOf(d)'
<1>0. ServerTypes /\ ClientTypes /\ ServerOf(d)
  BY ServerView, ClientView DEF IInv
<1> DEFINE u == up[d]
           s == wire[d]
           k == Posts(d) + 1
           dec == decoded[Head(u).val]
<1>1. /\ rd[d] = "header" /\ u # <<>> /\ up'[d] = Tail(u)
      /\ read_msg'[d].body_length = dec.body_length
      /\ UNCHANGED <<conn, hung>>
      /\ dec.res = "ok" => rd'[d] = "body"
      /\ dec.res # "ok" => rd'[d] = "none"
  BY <1>0, WireSame DEF ServerTypes, Server!ReadHeader, Server!header_done
<1>2. /\ u \in Seq(Units) /\ s \in Seq(AllBodies) /\ UpOf(d)
      /\ conn[d] = "accepted"
  BY <1>0, <1>1 DEF ServerTypes, ServerOf, ClientTypes, IInv, UpOK
<1>3. Posts(d)' = Posts(d) /\ Posts(d) \in Nat
  <2>1. ~Server!ReadBody(d)
    BY <1>1 DEF Server!ReadBody
  <2> QED
    BY <2>1, PostsSame
<1>4. Head(u) = u[1] /\ u[1] \in Units
  BY <1>1, <1>2
<1>5. Stream(u, s, k, "header", End(d)) /\ End(d)' = End(d)
  BY <1>1, <1>2 DEF UpOf, Reads, Number, Part, End
<1> HIDE DEF u, s
<1>6. /\ u[1].part = "header"
      /\ Ok(u[1]) => /\ k \in 1..Len(s) /\ Belongs(u[1], s[k])
                     /\ Stream(Tail(u), s, IF EndsMsg(u[1]) THEN k + 1 ELSE k,
                               IF EndsMsg(u[1]) THEN "header" ELSE "body", End(d))
  BY <1>1, <1>2, <1>5, StreamTake
<1>7. CASE dec.res # "ok"
  <2>1. rd'[d] = "none" /\ conn'[d] = "accepted" /\ Posts(d)' <= Len(wire'[d])
    BY <1>1, <1>2, <1>3, <1>7 DEF UpOf
  <2> QED
    BY <2>1 DEF UpOf, Reads
<1>8. CASE dec.res = "ok"
  <2>1. Ok(u[1]) /\ rd'[d] = "body"
    BY <1>1, <1>4, <1>8 DEF Ok
  <2>2. EndsMsg(u[1]) <=> dec.body_length = 0
    BY <1>4, <1>6 DEF EndsMsg
  <2>3. k \in 1..Len(s) /\ body_length(s[k]) = dec.body_length
    BY <1>4, <1>6, <2>1 DEF Belongs
  <2>4. dec.body_length \in Nat
    BY <1>4, <1>6, DecodedType, MessageAssumption DEF Units
  <2>5. /\ Number(d)' = IF dec.body_length = 0 THEN k + 1 ELSE k
        /\ Part(d)' = IF dec.body_length = 0 THEN "header" ELSE "body"
    BY <1>1, <1>3, <2>1, <2>4 DEF Number, Part
  <2> HIDE DEF dec
  <2>6. Stream(Tail(u), s, Number(d)', Part(d)', End(d))
    BY <1>6, <2>1, <2>2, <2>5
  <2>7. Posts(d) < Len(s) /\ Posts(d) <= Len(s)
    BY <1>2, <1>3, <2>3
  <2>8. /\ Posts(d)' <= Len(wire'[d])
        /\ Posts(d)' < Len(wire'[d])
        /\ body_length(wire'[d][Posts(d)' + 1]) = read_msg'[d].body_length
    BY <1>1, <1>3, <2>3, <2>7 DEF s
  <2>9. Stream(up'[d], wire'[d], Number(d)', Part(d)', End(d)')
    BY <1>1, <1>5, <2>6 DEF s
  <2> QED
    BY <2>8, <2>9 DEF UpOf, body_length
<1> QED
  BY <1>7, <1>8

(* The stream of a session stays what its client's lines were framed to. *)
LEMMA UpStep ==
  ASSUME IInv, [Next]_vars
  PROVE  UpOK'
<1>1. SUFFICES ASSUME NEW d \in Clients
               PROVE  UpOf(d)'
  BY DEF UpOK
<1>2. /\ ServerTypes /\ ClientTypes /\ ServerOf(d)
      /\ UpOf(d) /\ Posts(d) \in Nat
  BY ServerView, ClientView, PostsSame DEF IInv, UpOK
<1>3. CASE Transmit(d)
  BY <1>3, UpTransmit
<1>4. CASE Server!ReadHeader(d) /\ UNCHANGED wire[d]
  BY <1>4, UpHeader
<1>5. CASE Server!ReadBody(d) /\ UNCHANGED wire[d]
  <2>1. rd'[d] = "header" /\ UNCHANGED hung
    BY <1>2, <1>5, Relayed DEF ServerTypes
  <2>2. Posts(d)' = Posts(d) + 1
    <3>1. ASSUME NEW c \in Clients, Server!ReadBody(c), origin' = Append(origin, c)
          PROVE  Posts(d)' = Posts(d) + 1
      <4>1. Posts(d)' = Posts(d) + IF c = d THEN 1 ELSE 0
        BY <3>1, PostsStep
      <4>2. c = d
        <5>1. CASE c # d
          <6>1. rd'[d] = rd[d]
            BY <1>2, <3>1, <5>1, Relayed DEF ServerTypes
          <6>2. rd[d] = "body"
            BY <1>5, Relayed
          <6> QED
            BY <2>1, <6>1, <6>2
        <5> QED
          BY <5>1
      <4> QED
        BY <4>1, <4>2
    <3>2. history' # history
      <4>1. /\ history \in Seq(Encoded)
            /\ \E b \in AllBodies : history' = Append(history, Message(b))
        BY <1>5, Relayed DEF IInv, QueuesOK
      <4>2. \A b \in AllBodies : Message(b) \in Encoded
        BY DEF Encoded
      <4> QED
        BY <4>1, <4>2
    <3> QED
      BY <3>1, <3>2, RoomStep
  <2>3. /\ Posts(d) < Len(wire[d])
        /\ Stream(up'[d], wire[d], Posts(d) + 2, "header", End(d))
    BY <1>5, NextLine
  <2>4. Number(d)' = Posts(d) + 2 /\ Part(d)' = "header" /\ End(d)' = End(d)
    BY <1>2, <2>1, <2>2 DEF Number, Part, End
  <2>5. Stream(up'[d], wire'[d], Number(d)', Part(d)', End(d)')
    BY <1>5, <2>3, <2>4
  <2>6. Posts(d)' <= Len(wire'[d])
    BY <1>2, <1>5, <2>2, <2>3 DEF ClientTypes
  <2> QED
    BY <2>1, <2>5, <2>6 DEF UpOf
<1>6. CASE ~Server!ReadBody(d) /\ Server!HangUp(d) /\ UNCHANGED wire[d]
  <2>1. PICK k \in 0..Len(up[d]) : up' = [up EXCEPT ![d] = SubSeq(@, 1, k)]
    BY <1>6 DEF Server!HangUp
  <2>2. hung'[d] = TRUE /\ UNCHANGED <<rd, read_msg, conn>> /\ Posts(d)' = Posts(d)
    BY <1>2, <1>6, PostsSame DEF Server!HangUp, Server!readVars, ServerTypes
  <2>3. up'[d] = SubSeq(up[d], 1, k)
    BY <1>2, <2>1 DEF ServerTypes
  <2>4. /\ Number(d)' = Number(d) /\ Part(d)' = Part(d) /\ End(d)' = "cut"
        /\ Reads(d)' = Reads(d)
    BY <2>2 DEF Number, Part, End, Reads
  <2>5. Reads(d) => Stream(up'[d], wire[d], Number(d), Part(d), "cut")
    <3>1. /\ up[d] \in Seq(Units) /\ wire[d] \in Seq(AllBodies)
          /\ Reads(d) => Stream(up[d], wire[d], Number(d), Part(d), End(d))
      BY <1>2 DEF ServerTypes, ClientTypes, UpOf
    <3> QED
      BY <2>3, <3>1, StreamCut
  <2>6. Reads(d)' => Stream(up'[d], wire'[d], Number(d)', Part(d)', End(d)')
    BY <1>6, <2>4, <2>5
  <2> QED
    BY <1>2, <1>6, <2>2, <2>6 DEF UpOf, body_length
<1>7. CASE ~Server!ReadBody(d) /\ UNCHANGED wire[d] /\ rd'[d] = "none" /\ ~Reads(d)'
  <2>1. Posts(d)' = Posts(d)
    BY <1>7, PostsSame
  <2> QED
    BY <1>2, <1>7, <2>1 DEF UpOf
<1>8. CASE /\ ~Server!ReadBody(d)
           /\ UNCHANGED <<up[d], wire[d], read_msg[d], hung[d]>>
           /\ \/ UNCHANGED rd[d] /\ (Reads(d)' => Reads(d))
              \/ Reads(d) /\ rd[d] = "none" /\ rd'[d] = "header"
  <2>1. Posts(d)' = Posts(d)
    BY <1>8, PostsSame
  <2>2. Number(d)' = Number(d) /\ Part(d)' = Part(d) /\ End(d)' = End(d)
    BY <1>8, <2>1 DEF Number, Part, End
  <2>3. Reads(d)' => Stream(up'[d], wire'[d], Number(d)', Part(d)', End(d)')
    BY <1>2, <1>8, <2>2 DEF UpOf
  <2> QED
    BY <1>2, <1>8, <2>1, <2>3 DEF UpOf, body_length
<1>9. CASE Server!ReadBody(d) /\ ~(UNCHANGED wire[d])
  <2>1. CASE UNCHANGED <<history, origin>>
    <3>1. /\ history \in Seq(Encoded)
          /\ \E b \in AllBodies : history' = Append(history, Message(b))
      BY <1>9, Relayed DEF IInv, QueuesOK
    <3>2. \A b \in AllBodies : Message(b) \in Encoded
      BY DEF Encoded
    <3> QED
      BY <2>1, <3>1, <3>2
  <2>2. CASE UNCHANGED clientVars
    BY <1>9, <2>2 DEF clientVars
  <2> QED
    BY <2>1, <2>2, RoomStep
<1> QED
  BY <1>3, <1>4, <1>5, <1>6, <1>7, <1>8, <1>9, StreamEvents
-----------------------------------------------------------------------------
(* The room goes on holding the lines that left the clients, each client's in
   the order it sent them. *)
LEMMA OriginStep ==
  ASSUME IInv, [Next]_vars
  PROVE  OriginOK'
<1>0. /\ ClientTypes /\ history \in Seq(Encoded) /\ origin \in Seq(Clients)
      /\ Len(origin) = Len(history) /\ \A i \in 1..Len(history) : OriginOf(i)
  BY ClientView DEF IInv, OriginOK, QueuesOK
<1>1. \A c \in Clients : /\ Len(wire[c]) <= Len(wire'[c])
                         /\ \A i \in 1..Len(wire[c]) : wire'[c][i] = wire[c][i]
  <2>1. ASSUME NEW c \in Clients
        PROVE  /\ Len(wire[c]) <= Len(wire'[c])
               /\ \A i \in 1..Len(wire[c]) : wire'[c][i] = wire[c][i]
    <3>1. CASE UNCHANGED wire[c]
      BY <1>0, <3>1 DEF ClientTypes
    <3>2. CASE Transmit(c)
      <4>1. cwr[c] # "none" /\ wire' = [wire EXCEPT ![c] = Append(@, Head(cwrite_msgs[c]).body)]
        BY <3>2 DEF Transmit, Client!Transmit
      <4>2. Head(cwrite_msgs[c]).body \in AllBodies
        BY <4>1, Fronts, EncodedType
      <4>3. wire[c] \in Seq(AllBodies) /\ wire'[c] = Append(wire[c], Head(cwrite_msgs[c]).body)
        BY <1>0, <4>1 DEF ClientTypes
      <4> QED
        BY <4>2, <4>3
    <3> QED
      BY <3>1, <3>2, StreamEvents
  <2> QED
    BY <2>1
<1>2. CASE UNCHANGED <<history, origin>>
  <2>1. ASSUME NEW i \in 1..Len(history)
        PROVE  OriginOf(i)'
    <3>1. origin[i] \in Clients /\ PostedBy(origin[i], i)' = PostedBy(origin[i], i)
      BY <1>0, <1>2 DEF PostedBy
    <3>2. /\ PostedBy(origin[i], i) \in 1..Len(wire[origin[i]])
          /\ history[i].body = wire[origin[i]][PostedBy(origin[i], i)]
      BY <1>0 DEF OriginOf
    <3>3. wire[origin[i]] \in Seq(AllBodies) /\ Len(wire'[origin[i]]) \in Int
      BY <1>0, <1>2, <3>1, <1>1 DEF ClientTypes
    <3> QED
      BY <1>1, <1>2, <3>1, <3>2, <3>3 DEF OriginOf
  <2> QED
    BY <1>0, <1>2, <2>1 DEF OriginOK
<1>3. ASSUME NEW c \in Clients, Server!ReadBody(c), origin' = Append(origin, c),
             UNCHANGED clientVars
      PROVE  OriginOK'
  <2>0. PICK n \in Nat : n = Len(history)
    BY <1>0
  <2> DEFINE k == Posts(c) + 1
  <2>1. /\ Posts(c) < Len(wire[c])
        /\ history' = Append(history, Message(wire[c][k]))
    BY <1>3, NextLine
  <2>2. /\ Len(history') = n + 1 /\ Posts(c) \in Nat
        /\ Posts(c)' = k
        /\ \A d \in Clients, i \in 1..n : PostedBy(d, i)' = PostedBy(d, i)
    BY <1>3, <2>0, PostsStep
  <2>3. wire' = wire /\ wire[c] \in Seq(AllBodies)
    BY <1>0, <1>3 DEF clientVars, ClientTypes
  <2>4. k \in 1..Len(wire[c]) /\ wire[c][k] \in AllBodies
    BY <2>1, <2>2, <2>3
  <2>5. /\ \A i \in 1..n : history'[i] = history[i] /\ origin'[i] = origin[i] /\ origin[i] \in Clients
        /\ history'[n + 1] = Message(wire[c][k]) /\ origin'[n + 1] = c
        /\ origin' \in Seq(Clients) /\ Len(origin') = n + 1
    <3>1. Message(wire[c][k]) \in Encoded
      BY <2>4 DEF Encoded
    <3> QED
      BY <1>0, <1>3, <2>0, <2>1, <3>1
  <2>6. ASSUME NEW i \in 1..n
        PROVE  OriginOf(i)'
    <3>1. /\ PostedBy(origin[i], i) \in 1..Len(wire[origin[i]])
          /\ history[i].body = wire[origin[i]][PostedBy(origin[i], i)]
      BY <1>0, <2>0 DEF OriginOf
    <3>2. PostedBy(origin[i], i)' = PostedBy(origin[i], i)
      <4>1. Turns(origin', origin'[i], i) = Turns(origin, origin[i], i)
        BY <2>5 DEF Turns
      <4>2. /\ PostedBy(origin[i], i)' = Cardinality(Turns(origin', origin'[i], i))
            /\ PostedBy(origin[i], i) = Cardinality(Turns(origin, origin[i], i))
        BY DEF PostedBy, Turns
      <4> QED
        BY <4>1, <4>2
    <3> QED
      BY <2>3, <2>5, <3>1, <3>2 DEF OriginOf
  <2>7. OriginOf(n + 1)'
    <3>1. Cardinality({j \in 1..(n + 1) : origin'[j] = c}) = k
      BY <2>0, <2>2 DEF Posts, PostedBy
    <3>2. Message(wire[c][k]).body = wire[c][k]
      BY DEF Message
    <3> QED
      BY <2>3, <2>4, <2>5, <3>1, <3>2 DEF OriginOf, PostedBy
  <2> HIDE DEF k
  <2>8. \A i \in 1..(n + 1) : OriginOf(i)'
    <3>1. \A i \in 1..(n + 1) : i \in 1..n \/ i = n + 1
      BY <2>3
    <3> QED
      BY <2>6, <2>7, <3>1
  <2> QED
    BY <2>2, <2>5, <2>8 DEF OriginOK
<1> QED
  BY <1>2, <1>3, RoomStep
-----------------------------------------------------------------------------
(* The initial states. *)
LEMMA InitOK == Init => IInv
<1> SUFFICES ASSUME Init PROVE IInv
  OBVIOUS
<1>1. SP!IInv /\ CP!IInv
  BY ServerInductive, ClientInductive DEF Init
<1>2. /\ posted = [c \in Clients |-> <<>>] /\ cwrite_msgs = [c \in Clients |-> <<>>]
      /\ wire = [c \in Clients |-> <<>>] /\ served = [c \in Clients |-> <<>>]
      /\ sent = [c \in Clients |-> <<>>] /\ up = [c \in Clients |-> <<>>]
      /\ rd = [c \in Clients |-> "none"] /\ history = <<>> /\ origin = <<>>
  BY DEF Init, Server!Init, Client!Init
<1>3. QueuesOK
  <2>1. \A S : <<>> \in Seq(S)
    OBVIOUS
  <2> QED
    BY <1>2, <2>1 DEF QueuesOK
<1>4. HeadersOK
  BY <1>2 DEF HeadersOK
<1>5. ServedOK
  BY <1>2 DEF ServedOK, ServedOf
<1>6. UpOK
  <2>1. ASSUME NEW c \in Clients
        PROVE  UpOf(c)
    <3>1. Posts(c) = 0
      <4>1. {i \in 1..0 : origin[i] = c} = {}
        OBVIOUS
      <4>2. Posts(c) = Cardinality({i \in 1..0 : origin[i] = c})
        BY <1>2 DEF Posts, PostedBy
      <4> QED
        BY <4>1, <4>2, FS_EmptySet
    <3>2. Number(c) = 1 /\ Part(c) = "header"
      BY <1>2, <3>1 DEF Number, Part
    <3> QED
      BY <1>2, <3>1, <3>2, StreamEmpty DEF UpOf
  <2> QED
    BY <2>1 DEF UpOK
<1>7. OriginOK
  BY <1>2 DEF OriginOK
<1> QED
  BY <1>1, <1>3, <1>4, <1>5, <1>6, <1>7 DEF IInv

(* Every step keeps the invariant. *)
LEMMA Inductive == IInv /\ [Next]_vars => IInv'
<1> SUFFICES ASSUME IInv, [Next]_vars PROVE IInv'
  OBVIOUS
<1>1. SP!IInv' /\ CP!IInv'
  BY ServerStep, ClientStep, ServerInductive, ClientInductive DEF IInv
<1>2. QueuesOK' /\ HeadersOK' /\ ServedOK' /\ UpOK' /\ OriginOK'
  BY QueuesStep, HeadersStep, ServedStep, UpStep, OriginStep
<1> QED
  BY <1>1, <1>2 DEF IInv

(* So it holds in every reachable state. *)
LEMMA Invariant == Spec => []IInv
BY InitOK, Inductive, PTL DEF Spec
-----------------------------------------------------------------------------
(* The system behaves, on the server's side, as a behaviour of ChatServer:
   the repository's clients are peers of the kind it was modelled with.  What
   is proved of the server for any peers holds for these. *)
THEOREM SystemHasServer == Spec => ServerConforms
<1>1. Init => Server!Init
  BY DEF Init
<1> QED
  BY <1>1, ServerStep, Invariant, PTL DEF Spec, ServerConforms, Server!Spec

(* And on the clients' side as one of ChatClient: what the server writes to a
   session is what that module lets a server send. *)
THEOREM SystemHasClients == Spec => ClientConforms
<1>1. Init => Client!Init
  BY DEF Init
<1> QED
  BY <1>1, ClientStep, Invariant, PTL DEF Spec, ClientConforms, Client!Spec

(* Both together: the room and the screens work as the modules of the two
   sides promise, whatever happens between them. *)
THEOREM SystemConforms == Spec => SidesConform
BY SystemHasServer, SystemHasClients DEF SidesConform

(* A client's screen shows one unbroken run of the room's messages, from the
   first one replayed to it: the server's deque, the socket, a connection that
   is cut and the client's two reads together lose, repeat and reorder none. *)
THEOREM ScreensFollowRoom == Spec => []ScreenShowsRoom
<1>1. ASSUME IInv
      PROVE  ScreenShowsRoom
  <2>1. SUFFICES ASSUME NEW c \in Clients
                 PROVE  LET last == first[c] + Len(printed[c]) - 1
                        IN  /\ last <= Len(history)
                            /\ printed[c] = BodiesOf(SubSeq(history, first[c], last))
    BY DEF ScreenShowsRoom
  <2> DEFINE p == printed[c]
             f == first[c]
             last == f + Len(p) - 1
             q == SubSeq(history, f, last)
  <2>2. ServerTypes /\ ServerOf(c) /\ ClientTypes /\ ClientOf(c) /\ ServedOf(c)
    BY <1>1, ServerView, ClientView DEF IInv, ServedOK
  <2>3. /\ p \in Seq(AllBodies) /\ f \in Nat /\ f >= 1 /\ history \in Seq(Messages)
        /\ served[c] \in Seq(AllBodies) /\ sent[c] \in Seq(Messages)
        /\ write_msgs[c] \in Seq(Messages)
    BY <2>2 DEF ServerTypes, ServerOf, ClientTypes
  <2>4. Len(p) <= Len(sent[c]) /\ last <= Len(history)
    <3>1. /\ Len(p) <= Len(served[c]) /\ Len(served[c]) <= Len(sent[c])
          /\ f + Len(sent[c]) + Len(write_msgs[c]) <= Len(history) + 1
      BY <2>2 DEF ServerOf, ClientOf, ServedOf
    <3>2. /\ Len(p) \in Nat /\ Len(served[c]) \in Nat /\ Len(sent[c]) \in Nat
          /\ Len(write_msgs[c]) \in Nat /\ Len(history) \in Nat /\ f \in Nat
      BY <2>3
    <3>3. \A k, l, m, n, h, g \in Nat :
            k <= l /\ l <= m /\ g + m + n <= h + 1 => k <= m /\ g + k - 1 <= h
      OBVIOUS
    <3> QED
      BY <3>1, <3>2, <3>3
  <2>5. ASSUME NEW i \in 1..Len(p)
        PROVE  p[i] = history[f + i - 1].body
    <3>1. p[i] = served[c][i] /\ i \in 1..Len(served[c]) /\ i \in 1..Len(sent[c])
      BY <2>2, <2>3, <2>4 DEF ClientOf
    <3> QED
      BY <2>2, <3>1 DEF ServedOf, ServerOf
  <2>6. /\ q \in Seq(Messages) /\ Len(q) = Len(p)
        /\ \A i \in 1..Len(p) : q[i] = history[f + i - 1]
    <3>1. f \in Int /\ last \in Int /\ \A i \in f..last : history[i] \in Messages
      BY <2>3, <2>4
    <3>2. /\ q \in Seq(Messages) /\ Len(q) = IF f <= last THEN last - f + 1 ELSE 0
          /\ \A i \in 1..(last - f + 1) : q[i] = history[f + i - 1]
      BY <3>1, SubSeqProperties
    <3>3. last - f + 1 = Len(p) /\ (f <= last <=> Len(p) > 0) /\ Len(p) \in Nat
      BY <2>3
    <3> HIDE DEF p, f, q, last
    <3> QED
      BY <3>2, <3>3
  <2> HIDE DEF p, f, q, last
  <2>7. BodiesOf(q) = [i \in 1..Len(p) |-> q[i].body]
    BY <2>6 DEF BodiesOf
  <2>8. p = [i \in 1..Len(p) |-> p[i]]
    BY <2>3
  <2>9. p = BodiesOf(q)
    BY <2>5, <2>6, <2>7, <2>8
  <2> QED
    BY <2>4, <2>9 DEF p, f, q, last
<1> QED
  BY <1>1, Invariant, PTL

(* What is in the room under a client's name is what was typed there, in that
   order and with no line missing in between: through the posted work, the
   client's deque, the stream, the session's two reads and the room. *)
THEOREM RoomIsTyped == Spec => []RoomHasTyped
<1>1. ASSUME IInv
      PROVE  RoomHasTyped
  <2>1. SUFFICES ASSUME NEW i \in 1..Len(history)
                 PROVE  LET c == origin[i]
                            n == PostedBy(c, i)
                        IN  n <= Len(typed[c]) /\ history[i].body = typed[c][n]
    BY DEF RoomHasTyped
  <2> DEFINE c == origin[i]
             n == PostedBy(c, i)
  <2>2. c \in Clients /\ n \in 1..Len(wire[c]) /\ history[i].body = wire[c][n]
    BY <1>1 DEF IInv, OriginOK, OriginOf
  <2>3. wire[c] \in Seq(AllBodies) /\ typed[c] \in Seq(AllBodies)
    BY <1>1, <2>2, ClientView DEF IInv, ClientTypes
  <2>4. /\ Len(wire[c]) <= Len(typed[c])
        /\ \A j \in 1..Len(wire[c]) : typed[c][j] = wire[c][j]
    BY <1>1, <2>2, ClientInductive DEF IInv
  <2> HIDE DEF c, n
  <2>5. n <= Len(typed[c]) /\ history[i].body = typed[c][n]
    BY <2>2, <2>3, <2>4
  <2> QED
    BY <2>5 DEF c, n
<1> QED
  BY <1>1, Invariant, PTL
=============================================================================
