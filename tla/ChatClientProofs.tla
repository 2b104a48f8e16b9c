-------------------------- MODULE ChatClientProofs ---------------------------
(***************************************************************************)
(* The safety properties of ChatClient, for any set of clients, any server *)
(* and any limits.                                                         *)
(***************************************************************************)
EXTENDS ChatClient, ChatMessageProofs

(* The connection may still deliver; what the next unit is then. *)
Alive(c) == rd[c] # "none" \/ cn[c] # "none"
Part(c) == IF rd[c] = "body" /\ read_msg[c] > 0 THEN "body" ELSE "header"
End(c) == IF lost[c] THEN "cut" ELSE "whole"
Number(c) == Len(printed[c]) + IF rd[c] = "body" /\ read_msg[c] = 0 THEN 2 ELSE 1

StreamOf(c) ==
  /\ Len(printed[c]) <= Len(served[c])
  /\ \A i \in 1..Len(printed[c]) : printed[c][i] = served[c][i]
  /\ rd[c] = "body" =>
       /\ Len(printed[c]) < Len(served[c])
       /\ body_length(served[c][Len(printed[c]) + 1]) = read_msg[c]
  /\ Alive(c) => Stream(down[c], served[c], Number(c), Part(c), End(c))
StreamOK == \A c \in Clients : StreamOf(c)

(* close() is posted once and behind every message. *)
CloseOf(c) ==
  \A i \in 1..Len(posted[c]) :
    posted[c][i] = Close => i = Len(posted[c]) /\ main[c] # "reading"
CloseOK == \A c \in Clients : CloseOf(c)

LinesOf(c) == typed[c] = wire[c] \o BodiesOf(Unsent(c)) \o BodiesOf(Writes(posted[c]))
LinesOK == \A c \in Clients : LinesOf(c)

(* The order of connecting, reading and closing. *)
SocketOf(c) ==
  /\ sock[c] = "closed" => cn[c] # "pending"
  /\ rd[c] # "none" => cn[c] = "none"
SocketOK == \A c \in Clients : SocketOf(c)

(* The inductive invariant. *)
IInv == TypeOK /\ StreamOK /\ CloseOK /\ LinesOK /\ SocketOK /\ StallMeansClosed
-----------------------------------------------------------------------------
(* No message is the request to close: a message has a header. *)
LEMMA CloseIsNoMessage == Close \notin Messages
<1>1. \A h \in WireHeaders : h # <<>>
  <2>1. WireHeaders \subseteq Headers
    BY BodyLength, EncodeType, WireAssumption DEF WireHeaders
  <2>2. \A h \in Headers : DOMAIN h = 1..4
    BY DEF Headers, header_length
  <2> QED
    BY <2>1, <2>2
<1> QED
  BY <1>1 DEF Close, Messages

(* The unit that the outstanding read completes with is of the kind it waits
   for, and of the message that is next. *)
LEMMA NextUnit ==
  ASSUME TypeOK, StreamOK, NEW c \in Clients, rd[c] # "none", down[c] # <<>>,
         rd[c] = "body" => read_msg[c] > 0
  PROVE  /\ Head(down[c]) = down[c][1] /\ down[c][1] \in Units
         /\ Tail(down[c]) \in Seq(Units)
         /\ down[c][1].part = rd[c]
         /\ Ok(down[c][1]) =>
              LET k == Len(printed[c]) + 1
                  l == IF EndsMsg(down[c][1]) THEN k + 1 ELSE k
                  p == IF EndsMsg(down[c][1]) THEN "header" ELSE "body"
              IN  /\ k \in 1..Len(served[c]) /\ Belongs(down[c][1], served[c][k])
                  /\ Stream(Tail(down[c]), served[c], l, p, End(c))
<1>1. /\ down[c] \in Seq(Units) /\ served[c] \in Seq(AllBodies)
      /\ rd[c] \in {"header", "body"} /\ read_msg[c] \in Nat
  BY MessageAssumption DEF TypeOK
<1>2. Stream(down[c], served[c], Number(c), Part(c), End(c))
  BY DEF StreamOK, StreamOf, Alive
<1>3. Part(c) = rd[c] /\ Number(c) = Len(printed[c]) + 1
  <2>1. CASE rd[c] = "body"
    <3>1. read_msg[c] > 0 /\ read_msg[c] # 0
      BY <1>1, <2>1
    <3> QED
      BY <2>1, <3>1 DEF Part, Number
  <2>2. CASE rd[c] = "header"
    BY <2>2 DEF Part, Number
  <2> QED
    BY <1>1, <2>1, <2>2
<1>4. /\ Head(down[c]) = down[c][1] /\ down[c][1] \in Units
      /\ Tail(down[c]) \in Seq(Units)
  BY <1>1
<1>5. Stream(down[c], served[c], Len(printed[c]) + 1, rd[c], End(c))
  BY <1>2, <1>3
<1>6. /\ down[c][1].part = rd[c]
      /\ Ok(down[c][1]) =>
           /\ Len(printed[c]) + 1 \in 1..Len(served[c])
           /\ Belongs(down[c][1], served[c][Len(printed[c]) + 1])
           /\ Stream(Tail(down[c]), served[c],
                IF EndsMsg(down[c][1]) THEN Len(printed[c]) + 1 + 1 ELSE Len(printed[c]) + 1,
                IF EndsMsg(down[c][1]) THEN "header" ELSE "body", End(c))
  BY <1>1, <1>5, StreamTake
<1> QED
  BY <1>4, <1>6

(* Every step keeps the types. *)
LEMMA TypeStep ==
  ASSUME IInv, [Next]_vars
  PROVE  TypeOK'
<1> USE DEF IInv
<1>1. CASE UNCHANGED vars
  BY <1>1 DEF vars, mainVars, readVars, writeVars, serverVars, TypeOK
<1> USE DEF TypeOK, Ops
<1>2. ASSUME NEW c \in Clients, Getline(c)
      PROVE  TypeOK'
  <2>1. PICK b \in Input :
          /\ typed' = [typed EXCEPT ![c] = Append(@, b)]
          /\ posted' = [posted EXCEPT ![c] = Append(@, Message(b))]
    BY <1>2 DEF Getline
  <2>2. b \in AllBodies /\ Message(b) \in Messages
    BY FrameType, ClientAssumption
  <2> QED
    BY SMTT(30), <1>2, <2>1, <2>2 DEF Getline, readVars, writeVars, serverVars
<1>3. ASSUME NEW c \in Clients, EndInput(c)
      PROVE  TypeOK'
  BY <1>3 DEF EndInput, readVars, writeVars, serverVars
<1>4. ASSUME NEW c \in Clients, Join(c)
      PROVE  TypeOK'
  BY <1>4 DEF Join, readVars, writeVars, serverVars
<1>5. ASSUME NEW c \in Clients, RunWrite(c)
      PROVE  TypeOK'
  <2>1. Head(posted[c]) \in Messages /\ Tail(posted[c]) \in Seq(Messages \cup {Close})
    BY <1>5 DEF RunWrite
  <2>2. start_write(c) \in {"pending", "failed"}
    BY DEF start_write
  <2>3. Append(write_msgs[c], Head(posted[c])) \in Seq(Messages)
    BY <2>1
  <2> QED
    BY <1>5, <2>1, <2>2, <2>3 DEF RunWrite, posted_write, mainVars, readVars, serverVars
<1>6. ASSUME NEW c \in Clients, RunClose(c)
      PROVE  TypeOK'
  <2>1. Tail(posted[c]) \in Seq(Messages \cup {Close})
    BY <1>6 DEF RunClose
  <2> QED
    BY <1>6, <2>1 DEF RunClose, close, mainVars, readVars, serverVars
<1>7. ASSUME NEW c \in Clients, Connected(c)
      PROVE  TypeOK'
  BY <1>7 DEF Connected, mainVars, writeVars, serverVars
<1>8. ASSUME NEW c \in Clients, ReadHeader(c)
      PROVE  TypeOK'
  <2>1. /\ Head(down[c]) \in Units /\ Head(down[c]).part = "header"
        /\ Tail(down[c]) \in Seq(Units)
    BY <1>8, NextUnit DEF ReadHeader
  <2>2. decoded[Head(down[c]).val].body_length \in 0..max_body_length
    BY <2>1, DecodedType DEF Units
  <2> QED
    BY ZenonT(30), <1>8, <2>1, <2>2 DEF ReadHeader, header_done, close, serverVars
<1>9. ASSUME NEW c \in Clients, ReadBody(c)
      PROVE  TypeOK'
  <2>1. CASE read_msg[c] > 0
    <3>0. sock[c] = "connected" /\ down[c] # <<>> /\ rd[c] = "body"
      BY <1>9, <2>1 DEF ReadBody
    <3>1. /\ Head(down[c]) \in Units /\ Head(down[c]).part = "body"
          /\ Tail(down[c]) \in Seq(Units)
      BY <2>1, <3>0, NextUnit
    <3>2. Head(down[c]).val \in AllBodies
      BY <3>1 DEF Units, AllBodies
    <3>3. Append(printed[c], Head(down[c]).val) \in Seq(AllBodies)
      BY <3>2
    <3>4. /\ printed' = [printed EXCEPT ![c] = Append(@, Head(down[c]).val)]
          /\ down' = [down EXCEPT ![c] = Tail(@)]
      BY <1>9, <2>1 DEF ReadBody
    <3>5. printed' \in [Clients -> Seq(AllBodies)] /\ down' \in [Clients -> Seq(Units)]
      BY <3>1, <3>3, <3>4
    <3>6. /\ rd' = [rd EXCEPT ![c] = "header"]
          /\ UNCHANGED <<mainVars, io, posted, cn, sock, read_msg, writeVars, serverVars>>
      BY <1>9 DEF ReadBody
    <3>7. /\ rd' \in [Clients -> {"none", "header", "body"}]
          /\ \A g \in {typed', wire', served', printed'} : g \in [Clients -> Seq(AllBodies)]
      BY <3>5, <3>6 DEF mainVars, writeVars, serverVars
    <3> QED
      BY <3>5, <3>6, <3>7 DEF mainVars, writeVars, serverVars
  <2>2. CASE ~(read_msg[c] > 0)
    <3>1. printed' = [printed EXCEPT ![c] = Append(@, NoBody)] /\ down' = down
      BY <1>9, <2>2 DEF ReadBody
    <3>2. Append(printed[c], NoBody) \in Seq(AllBodies)
      BY DEF AllBodies
    <3> QED
      BY <1>9, <3>1, <3>2 DEF ReadBody, mainVars, writeVars, serverVars
  <2> QED
    BY <2>1, <2>2
<1>10. ASSUME NEW c \in Clients, ReadError(c)
       PROVE  TypeOK'
  BY <1>10 DEF ReadError, close, mainVars, serverVars
<1>11. ASSUME NEW c \in Clients, WriteDone(c)
       PROVE  TypeOK'
  <2>1. Tail(write_msgs[c]) \in Seq(Messages) /\ write_next(c) \in {"none", "pending", "failed"}
    BY <1>11 DEF WriteDone, StallMeansClosed, write_next, start_write
  <2> QED
    BY <1>11, <2>1 DEF WriteDone, mainVars, readVars, serverVars
<1>12. ASSUME NEW c \in Clients, WriteError(c)
       PROVE  TypeOK'
  BY <1>12 DEF WriteError, mainVars, readVars, serverVars
<1>13. ASSUME NEW c \in Clients, IoStop(c)
       PROVE  TypeOK'
  BY <1>13 DEF IoStop, mainVars, readVars, writeVars, serverVars
<1>14. ASSUME NEW c \in Clients, Establish(c)
       PROVE  TypeOK'
  BY <1>14 DEF Establish, mainVars, readVars, writeVars, serverVars
<1>15. ASSUME NEW c \in Clients, ConnectFails(c)
       PROVE  TypeOK'
  BY <1>15 DEF ConnectFails, mainVars, readVars, writeVars, serverVars
<1>16. ASSUME NEW c \in Clients, Transmit(c)
       PROVE  TypeOK'
  <2>1. Head(write_msgs[c]) \in Messages
    BY <1>16 DEF Transmit, StallMeansClosed
  <2>2. Head(write_msgs[c]).body \in AllBodies
    BY <2>1 DEF Messages
  <2>3. Append(wire[c], Head(write_msgs[c]).body) \in Seq(AllBodies)
    BY <2>2
  <2>4. wire' \in [Clients -> Seq(AllBodies)]
    BY <1>16, <2>3 DEF Transmit
  <2>5. wr' \in [Clients -> {"none", "pending", "sent", "failed"}]
    BY <1>16 DEF Transmit
  <2>6. UNCHANGED <<main, typed, io, posted, cn, sock, rd, read_msg, printed,
                    write_msgs, down, lost, served>>
    BY <1>16 DEF Transmit, mainVars, readVars, serverVars
  <2>7. \A g \in {typed', wire', served', printed'} : g \in [Clients -> Seq(AllBodies)]
    BY <2>4, <2>6
  <2> QED
    BY <2>5, <2>6, <2>7
<1>17. ASSUME NEW c \in Clients, TransmitFails(c)
       PROVE  TypeOK'
  BY <1>17 DEF TransmitFails, mainVars, readVars, serverVars
<1>18. ASSUME NEW c \in Clients, Serve(c)
       PROVE  TypeOK'
  <2>1. PICK b \in AllBodies :
          Arrive(c, Frame(Message(b))) /\ served' = [served EXCEPT ![c] = Append(@, b)]
    BY <1>18 DEF Serve
  <2>2. Frame(Message(b)) \in Seq(Units)
    BY FrameType
  <2>3. /\ down[c] \o Frame(Message(b)) \in Seq(Units)
        /\ Append(served[c], b) \in Seq(AllBodies)
    BY <2>2
  <2>4. down' \in [Clients -> Seq(Units)] /\ served' \in [Clients -> Seq(AllBodies)]
    BY <2>1, <2>3 DEF Arrive
  <2>5. UNCHANGED <<mainVars, io, posted, cn, sock, readVars, writeVars, lost>>
    BY <2>1 DEF Arrive
  <2>6. \A g \in {typed', wire', served', printed'} : g \in [Clients -> Seq(AllBodies)]
    BY <2>4, <2>5 DEF mainVars, readVars, writeVars
  <2> QED
    BY <2>4, <2>5, <2>6 DEF mainVars, readVars, writeVars
<1>19. ASSUME NEW c \in Clients, ServeBad(c)
       PROVE  TypeOK'
  <2>1. PICK h \in BadHeaders : Arrive(c, <<HeaderUnit(h)>>) /\ served' = served
    BY <1>19 DEF ServeBad
  <2>2. HeaderUnit(h) \in Units
    BY DEF HeaderUnit, Units, WireHeaders
  <2> QED
    BY <2>1, <2>2 DEF Arrive, mainVars, readVars, writeVars
<1>20. ASSUME NEW c \in Clients, ServerEnds(c)
       PROVE  TypeOK'
  <2>1. PICK k \in 0..Len(down[c]) : down' = [down EXCEPT ![c] = SubSeq(@, 1, k)]
    BY <1>20 DEF ServerEnds
  <2>2. SubSeq(down[c], 1, k) \in Seq(Units)
    OBVIOUS
  <2> QED
    BY <1>20, <2>1, <2>2 DEF ServerEnds, mainVars, readVars, writeVars
<1> QED
  BY <1>1, <1>2, <1>3, <1>4, <1>5, <1>6, <1>7, <1>8, <1>9, <1>10, <1>11, <1>12, <1>13,
     <1>14, <1>15, <1>16, <1>17, <1>18, <1>19, <1>20 DEF Next, Handler

(* A stream that an action leaves alone. *)
LEMMA StreamKept ==
  ASSUME NEW c, StreamOf(c), rd'[c] = rd[c], cn[c] = "none" => cn'[c] = "none",
         read_msg'[c] = read_msg[c], printed'[c] = printed[c], down'[c] = down[c],
         served'[c] = served[c], lost'[c] = lost[c]
  PROVE  StreamOf(c)'
<1>1. Part(c)' = Part(c) /\ Number(c)' = Number(c) /\ End(c)' = End(c)
  BY DEF Part, Number, End
<1>2. Alive(c)' => Alive(c)
  BY DEF Alive
<1> QED
  BY <1>1, <1>2 DEF StreamOf

(* Every step keeps what is on its way to each client a stream. *)
LEMMA StreamStep ==
  ASSUME IInv, [Next]_vars
  PROVE  StreamOK'
<1>0. TypeOK /\ StreamOK /\ SocketOK /\ \A c \in Clients : StreamOf(c)
  BY DEF IInv, StreamOK
<1>1. CASE UNCHANGED <<rd, cn, read_msg, printed, down, served, lost>>
  BY <1>0, <1>1, StreamKept DEF StreamOK
<1>2. ASSUME NEW c \in Clients, RunClose(c) \/ ReadError(c) \/ WriteError(c)
                                 \/ Establish(c) \/ ConnectFails(c)
      PROVE  StreamOK'
  <2>1. /\ UNCHANGED <<read_msg, printed, down, served, lost>>
        /\ \A i \in Clients : cn[i] = "none" => cn'[i] = "none"
    BY <1>0, <1>2 DEF RunClose, ReadError, WriteError, Establish, ConnectFails, close, readVars,
       serverVars, TypeOK
  <2>2. \A i \in Clients : i # c => rd'[i] = rd[i]
    BY <1>0, <1>2 DEF RunClose, ReadError, WriteError, Establish, ConnectFails, readVars, TypeOK
  <2>3. CASE rd'[c] = rd[c]
    BY <1>0, <2>1, <2>2, <2>3, StreamKept DEF StreamOK
  <2>4. CASE rd'[c] # rd[c]
    <3>1. ReadError(c)
      BY <1>2, <2>4 DEF RunClose, WriteError, Establish, ConnectFails, readVars
    <3>2. rd'[c] = "none" /\ cn'[c] = "none"
      BY <1>0, <2>1, <3>1 DEF ReadError, SocketOK, SocketOf, TypeOK
    <3>3. StreamOf(c)'
      BY <1>0, <2>1, <3>2 DEF StreamOf, Alive
    <3> QED
      BY <1>0, <2>1, <2>2, <3>3, StreamKept DEF StreamOK
  <2> QED
    BY <2>3, <2>4
<1>3. ASSUME NEW c \in Clients, Connected(c)
      PROVE  StreamOK'
  <2>1. UNCHANGED <<read_msg, printed, down, served, lost>>
    BY <1>3 DEF Connected, serverVars
  <2>2. /\ \A i \in Clients : i # c => rd'[i] = rd[i] /\ cn'[i] = cn[i]
        /\ rd[c] = "none" /\ cn'[c] = "none"
        /\ rd'[c] = IF cn[c] = "ok" THEN "header" ELSE "none"
        /\ cn[c] \in {"ok", "failed"}
    BY <1>0, <1>3 DEF Connected, TypeOK, SocketOK, SocketOf
  <2>3. StreamOf(c)'
    <3>1. Part(c)' = Part(c) /\ Number(c)' = Number(c) /\ End(c)' = End(c)
      BY <2>1, <2>2 DEF Part, Number, End
    <3>2. Alive(c) /\ rd'[c] # "body"
      BY <2>2 DEF Alive
    <3> QED
      BY <1>0, <2>1, <3>1, <3>2 DEF StreamOf
  <2> QED
    BY <1>0, <2>1, <2>2, <2>3, StreamKept DEF StreamOK
<1>4. ASSUME NEW c \in Clients, ReadHeader(c)
      PROVE  StreamOK'
  <2> DEFINE u == down[c]
             d == decoded[Head(u).val]
             k == Len(printed[c]) + 1
  <2>1. UNCHANGED <<printed, served, lost>>
    BY <1>4 DEF ReadHeader, serverVars
  <2>2. /\ rd[c] = "header" /\ u # <<>> /\ cn[c] = "none"
        /\ down' = [down EXCEPT ![c] = Tail(u)] /\ header_done(c, d)
    BY <1>0, <1>4 DEF ReadHeader, SocketOK, SocketOf
  <2>3. /\ read_msg' = [read_msg EXCEPT ![c] = d.body_length]
        /\ rd' = [rd EXCEPT ![c] = IF d.res = "ok" THEN "body" ELSE "none"]
        /\ \A i \in Clients : cn[i] = "none" => cn'[i] = "none"
    BY <1>0, <2>2 DEF header_done, close, TypeOK
  <2>4. \A i \in Clients : i # c =>
          rd'[i] = rd[i] /\ read_msg'[i] = read_msg[i] /\ down'[i] = down[i]
    BY <1>0, <2>2, <2>3 DEF TypeOK
  <2>5. rd'[c] = (IF d.res = "ok" THEN "body" ELSE "none") /\ cn'[c] = "none"
        /\ read_msg'[c] = d.body_length /\ down'[c] = Tail(u)
    BY <1>0, <2>2, <2>3 DEF TypeOK
  <2>6. StreamOf(c)'
    <3>1. CASE d.res # "ok"
      BY <1>0, <2>1, <2>5, <3>1 DEF StreamOf, Alive
    <3>2. CASE d.res = "ok"
      <4>1. Head(u) = u[1] /\ u[1].part = "header" /\ u[1] \in Units
        BY <1>0, <2>2, NextUnit
      <4>2. Ok(u[1]) /\ (EndsMsg(u[1]) <=> d.body_length = 0)
        BY <3>2, <4>1 DEF Ok, EndsMsg
      <4>3. d.body_length \in Nat
        BY <4>1, DecodedType, MessageAssumption DEF Units
      <4>4. /\ k \in 1..Len(served[c]) /\ Belongs(u[1], served[c][k])
            /\ Stream(Tail(u), served[c], IF EndsMsg(u[1]) THEN k + 1 ELSE k,
                 IF EndsMsg(u[1]) THEN "header" ELSE "body", End(c))
        BY <1>0, <2>2, <4>2, NextUnit
      <4>5. d.body_length = body_length(served[c][k])
        BY <4>1, <4>4 DEF Belongs
      <4>6. /\ Len(printed[c]) \in Nat /\ Len(served[c]) \in Nat
            /\ \A i \in 1..Len(printed[c]) : printed[c][i] = served[c][i]
        BY <1>0 DEF TypeOK, StreamOf
      <4> HIDE DEF u, d
      <4>7. /\ Number(c)' = IF EndsMsg(u[1]) THEN k + 1 ELSE k
            /\ Part(c)' = IF EndsMsg(u[1]) THEN "header" ELSE "body"
            /\ End(c)' = End(c)
        <5>1. CASE d.body_length = 0
          BY <2>1, <2>5, <3>2, <4>2, <4>3, <4>6, <5>1 DEF Number, Part, End
        <5>2. CASE d.body_length > 0
          <6>1. /\ rd'[c] = "body" /\ read_msg'[c] > 0 /\ read_msg'[c] # 0
                /\ ~EndsMsg(u[1]) /\ printed' = printed /\ lost' = lost
            BY <2>1, <2>5, <3>2, <4>2, <4>3, <5>2
          <6> QED
            BY <6>1 DEF Number, Part, End
        <5> QED
          BY <4>3, <5>1, <5>2
      <4>8. /\ Len(printed[c]) < Len(served[c])
            /\ body_length(served[c][Len(printed[c]) + 1]) = d.body_length
        BY <4>4, <4>5, <4>6
      <4>9. Stream(down'[c], served'[c], Number(c)', Part(c)', End(c)')
        BY <2>1, <2>5, <4>4, <4>7
      <4>10. /\ Len(printed'[c]) <= Len(served'[c])
             /\ \A i \in 1..Len(printed'[c]) : printed'[c][i] = served'[c][i]
             /\ rd'[c] = "body" =>
                  /\ Len(printed'[c]) < Len(served'[c])
                  /\ body_length(served'[c][Len(printed'[c]) + 1]) = read_msg'[c]
        BY <2>1, <2>5, <4>6, <4>8
      <4> QED
        BY <4>9, <4>10 DEF StreamOf
    <3> QED
      BY <3>1, <3>2
  <2> QED
    BY <1>0, <2>1, <2>3, <2>4, <2>6, StreamKept DEF StreamOK
<1>5. ASSUME NEW c \in Clients, ReadBody(c)
      PROVE  StreamOK'
  <2> DEFINE u == down[c]
             k == Len(printed[c]) + 1
  <2>1. /\ UNCHANGED <<cn, read_msg, served, lost>>
        /\ rd[c] = "body" /\ rd' = [rd EXCEPT ![c] = "header"]
    BY <1>5 DEF ReadBody, serverVars
  <2>2. /\ rd'[c] = "header" /\ read_msg[c] \in Nat
        /\ Len(printed[c]) \in Nat /\ Len(served[c]) \in Nat
        /\ printed[c] \in Seq(AllBodies) /\ served[c] \in Seq(AllBodies)
        /\ \A i \in Clients : i # c => rd'[i] = rd[i]
    BY <1>0, <2>1, MessageAssumption DEF TypeOK
  <2>3. /\ \A i \in 1..Len(printed[c]) : printed[c][i] = served[c][i]
        /\ k \in 1..Len(served[c]) /\ body_length(served[c][k]) = read_msg[c]
        /\ Stream(u, served[c], Number(c), Part(c), End(c))
    BY <1>0, <2>1, <2>2 DEF StreamOf, Alive
  <2>4. \E b \in AllBodies :
          /\ b = served[c][k] /\ printed' = [printed EXCEPT ![c] = Append(@, b)]
          /\ \A i \in Clients : i # c => down'[i] = down[i]
          /\ Stream(down'[c], served[c], k + 1, "header", End(c))
    <3>1. CASE read_msg[c] = 0
      <4>1. printed' = [printed EXCEPT ![c] = Append(@, NoBody)] /\ down' = down
        BY <1>5, <3>1 DEF ReadBody
      <4>2. served[c][k] = NoBody
        <5>1. served[c][k] \in AllBodies
          BY <2>2, <2>3
        <5> QED
          BY <2>3, <3>1, <5>1, BodyLength DEF AllBodies
      <4>3. Number(c) = k + 1 /\ Part(c) = "header"
        BY <2>1, <2>2, <3>1 DEF Number, Part
      <4> QED
        BY <2>3, <4>1, <4>2, <4>3 DEF AllBodies
    <3>2. CASE read_msg[c] > 0
      <4>1. /\ printed' = [printed EXCEPT ![c] = Append(@, Head(u).val)]
            /\ down' = [down EXCEPT ![c] = Tail(@)] /\ u # <<>>
        BY <1>5, <3>2, <2>2 DEF ReadBody
      <4>2. Head(u) = u[1] /\ u[1].part = "body" /\ u[1] \in Units
        BY <1>0, <2>1, <3>2, <4>1, NextUnit
      <4>3. Ok(u[1]) /\ EndsMsg(u[1])
        BY <4>2 DEF Ok, EndsMsg
      <4>4. Belongs(u[1], served[c][k]) /\ Stream(Tail(u), served[c], k + 1, "header", End(c))
        BY <1>0, <2>1, <3>2, <4>1, <4>3, NextUnit
      <4>5. u[1].val = served[c][k] /\ u[1].val \in AllBodies
        BY <4>2, <4>4 DEF Belongs, Units, AllBodies
      <4>6. down'[c] = Tail(u) /\ \A i \in Clients : i # c => down'[i] = down[i]
        BY <1>0, <4>1 DEF TypeOK
      <4> QED
        BY <4>1, <4>2, <4>4, <4>5, <4>6
    <3> QED
      BY <2>2, <3>1, <3>2
  <2>5. PICK b \in AllBodies :
          /\ b = served[c][k] /\ printed' = [printed EXCEPT ![c] = Append(@, b)]
          /\ \A i \in Clients : i # c => down'[i] = down[i]
          /\ Stream(down'[c], served[c], k + 1, "header", End(c))
    BY <2>4
  <2>6. /\ printed'[c] = Append(printed[c], b)
        /\ \A i \in Clients : i # c => printed'[i] = printed[i]
    BY <1>0, <2>5 DEF TypeOK
  <2>7. /\ Len(printed'[c]) = k /\ printed'[c][k] = b
        /\ \A i \in 1..Len(printed[c]) : printed'[c][i] = printed[c][i]
    BY <2>2, <2>6
  <2>8. StreamOf(c)'
    <3>1. /\ Len(printed'[c]) <= Len(served'[c])
          /\ \A i \in 1..Len(printed'[c]) : printed'[c][i] = served'[c][i]
      BY <2>1, <2>2, <2>3, <2>5, <2>7
    <3>2. Number(c)' = k + 1 /\ Part(c)' = "header" /\ End(c)' = End(c)
      BY <2>1, <2>2, <2>7 DEF Number, Part, End
    <3>3. Stream(down'[c], served'[c], Number(c)', Part(c)', End(c)')
      BY <2>1, <2>5, <3>2
    <3> QED
      BY <2>2, <3>1, <3>3 DEF StreamOf
  <2> QED
    BY <1>0, <2>1, <2>2, <2>5, <2>6, <2>8, StreamKept DEF StreamOK
<1>6. ASSUME NEW c \in Clients, Serve(c)
      PROVE  StreamOK'
  <2>1. PICK b \in AllBodies :
          Arrive(c, Frame(Message(b))) /\ served' = [served EXCEPT ![c] = Append(@, b)]
    BY <1>6 DEF Serve
  <2>2. /\ UNCHANGED <<cn, rd, read_msg, printed, lost>> /\ ~lost[c]
        /\ down' = [down EXCEPT ![c] = @ \o Frame(Message(b))]
    BY <2>1 DEF Arrive, readVars
  <2>3. /\ down'[c] = down[c] \o Frame(Message(b)) /\ served'[c] = Append(served[c], b)
        /\ \A i \in Clients : i # c => down'[i] = down[i] /\ served'[i] = served[i]
    BY <1>0, <2>1, <2>2 DEF TypeOK
  <2>4. /\ down[c] \in Seq(Units) /\ served[c] \in Seq(AllBodies)
        /\ Len(served[c]) \in Nat /\ Len(printed[c]) \in Nat
    BY <1>0 DEF TypeOK
  <2>5. /\ Len(served'[c]) = Len(served[c]) + 1
        /\ \A i \in 1..Len(served[c]) : served'[c][i] = served[c][i]
    BY <2>3, <2>4
  <2>6. Part(c)' = Part(c) /\ Number(c)' = Number(c) /\ End(c) = "whole" /\ End(c)' = "whole"
    BY <2>2 DEF Part, Number, End
  <2>7. Alive(c)' => Stream(down'[c], served'[c], Number(c)', Part(c)', End(c)')
    <3>1. Alive(c)' => Stream(down[c], served[c], Number(c), Part(c), "whole")
      BY <1>0, <2>2, <2>6 DEF Alive, StreamOf
    <3> QED
      BY <2>3, <2>4, <2>6, <3>1, StreamServe
  <2>8. StreamOf(c)'
    <3>1. /\ Len(printed[c]) <= Len(served[c])
          /\ \A i \in 1..Len(printed[c]) : printed[c][i] = served[c][i]
          /\ rd[c] = "body" =>
                  /\ Len(printed[c]) < Len(served[c])
                  /\ body_length(served[c][Len(printed[c]) + 1]) = read_msg[c]
      BY <1>0 DEF StreamOf
    <3>2. Len(printed[c]) < Len(served[c]) => Len(printed[c]) + 1 \in 1..Len(served[c])
      BY <2>4
    <3>3. /\ Len(printed'[c]) <= Len(served'[c])
          /\ \A i \in 1..Len(printed'[c]) : printed'[c][i] = served'[c][i]
          /\ rd'[c] = "body" =>
                  /\ Len(printed'[c]) < Len(served'[c])
                  /\ body_length(served'[c][Len(printed'[c]) + 1]) = read_msg'[c]
      BY SMTT(30), <2>2, <2>4, <2>5, <3>1, <3>2
    <3> QED
      BY <2>7, <3>3 DEF StreamOf
  <2> QED
    BY <1>0, <2>2, <2>3, <2>8, StreamKept DEF StreamOK
<1>7. ASSUME NEW c \in Clients, ServeBad(c) \/ ServerEnds(c)
      PROVE  StreamOK'
  <2>1. /\ UNCHANGED <<cn, rd, read_msg, printed, served>>
        /\ \A i \in Clients : i # c => down'[i] = down[i] /\ lost'[i] = lost[i]
    BY ZenonT(30), <1>0, <1>7 DEF ServeBad, ServerEnds, Arrive, readVars, TypeOK
  <2>2. down[c] \in Seq(Units) /\ served[c] \in Seq(AllBodies) /\ ~lost[c]
    BY <1>0, <1>7 DEF TypeOK, ServeBad, ServerEnds, Arrive
  <2>3. Part(c)' = Part(c) /\ Number(c)' = Number(c) /\ End(c) = "whole"
    BY <2>1, <2>2 DEF Part, Number, End
  <2>4. Alive(c) => Stream(down'[c], served[c], Number(c), Part(c), End(c)')
    <3>1. Alive(c) => Stream(down[c], served[c], Number(c), Part(c), "whole")
      BY <1>0, <2>3 DEF StreamOf
    <3>2. CASE ServeBad(c)
      <4>1. PICK h \in BadHeaders : down' = [down EXCEPT ![c] = @ \o <<HeaderUnit(h)>>]
        BY <3>2 DEF ServeBad, Arrive
      <4>2. down'[c] = down[c] \o <<HeaderUnit(h)>> /\ End(c)' = "whole"
        BY <1>0, <2>2, <3>2, <4>1 DEF TypeOK, ServeBad, Arrive, End
      <4> QED
        BY <2>2, <3>1, <4>2, StreamServeBad
    <3>3. CASE ServerEnds(c)
      <4>1. PICK j \in 0..Len(down[c]) : down' = [down EXCEPT ![c] = SubSeq(@, 1, j)]
        BY <3>3 DEF ServerEnds
      <4>2. down'[c] = SubSeq(down[c], 1, j) /\ End(c)' = "cut"
        BY <1>0, <3>3, <4>1 DEF TypeOK, ServerEnds, End
      <4> QED
        BY <2>2, <3>1, <4>2, StreamCut
    <3> QED
      BY <1>7, <3>2, <3>3
  <2>5. StreamOf(c)'
    BY <1>0, <2>1, <2>3, <2>4 DEF StreamOf, Alive
  <2> QED
    BY <1>0, <2>1, <2>5, StreamKept DEF StreamOK
<1>8. ASSUME NEW c \in Clients,
             \/ Getline(c) \/ EndInput(c) \/ Join(c) \/ RunWrite(c) \/ WriteDone(c)
             \/ IoStop(c) \/ Transmit(c) \/ TransmitFails(c)
      PROVE  UNCHANGED <<rd, cn, read_msg, printed, down, served, lost>>
  BY <1>8 DEF Getline, EndInput, Join, RunWrite, WriteDone, IoStop, Transmit, TransmitFails,
     readVars, serverVars
<1>9. UNCHANGED vars => UNCHANGED <<rd, cn, read_msg, printed, down, served, lost>>
  BY DEF vars, readVars, serverVars
<1> QED
  BY <1>1, <1>2, <1>3, <1>4, <1>5, <1>6, <1>7, <1>8, <1>9 DEF Next, Handler

(* Every step keeps main's close the last of its posted work. *)
LEMMA CloseStep ==
  ASSUME IInv, [Next]_vars
  PROVE  CloseOK'
<1>0. TypeOK /\ CloseOK
  BY DEF IInv
<1>1. ASSUME NEW c \in Clients, Getline(c)
      PROVE  CloseOK'
  <2>1. PICK b \in Input : posted' = [posted EXCEPT ![c] = Append(@, Message(b))]
    BY <1>1 DEF Getline
  <2>2. main' = main /\ main[c] = "reading" /\ Message(b) # Close
    BY <1>1, FrameType, CloseIsNoMessage, ClientAssumption DEF Getline
  <2>3. \A i \in Clients : i # c => posted'[i] = posted[i]
    BY <1>0, <2>1 DEF TypeOK
  <2>4. posted'[c] = Append(posted[c], Message(b)) /\ posted[c] \in Seq(Messages \cup {Close})
    BY <1>0, <2>1 DEF TypeOK
  <2>5. \A i \in 1..Len(posted[c]) : posted[c][i] # Close
    BY <1>0, <2>2 DEF CloseOK, CloseOf
  <2>6. \A i \in 1..Len(posted'[c]) : posted'[c][i] # Close
    BY <2>2, <2>4, <2>5
  <2> QED
    BY <1>0, <2>2, <2>3, <2>6 DEF CloseOK, CloseOf
<1>2. ASSUME NEW c \in Clients, EndInput(c)
      PROVE  CloseOK'
  <2>1. /\ main' = [main EXCEPT ![c] = "joining"] /\ main[c] = "reading"
        /\ posted' = [posted EXCEPT ![c] = Append(@, Close)]
    BY <1>2 DEF EndInput
  <2>2. \A i \in Clients : i # c => posted'[i] = posted[i] /\ main'[i] = main[i]
    BY <1>0, <2>1 DEF TypeOK
  <2>3. /\ posted'[c] = Append(posted[c], Close) /\ posted[c] \in Seq(Messages \cup {Close})
        /\ main'[c] = "joining"
    BY <1>0, <2>1 DEF TypeOK
  <2>4. \A i \in 1..Len(posted[c]) : posted[c][i] # Close
    BY <1>0, <2>1 DEF CloseOK, CloseOf
  <2>5. \A i \in 1..Len(posted'[c]) : posted'[c][i] = Close => i = Len(posted'[c])
    BY <2>3, <2>4
  <2> QED
    BY <1>0, <2>2, <2>3, <2>5 DEF CloseOK, CloseOf
<1>3. ASSUME NEW c \in Clients, RunWrite(c) \/ RunClose(c)
      PROVE  CloseOK'
  <2>1. main' = main /\ posted[c] # <<>> /\ posted' = [posted EXCEPT ![c] = Tail(@)]
    BY <1>3 DEF RunWrite, RunClose, mainVars
  <2>2. \A i \in Clients : i # c => posted'[i] = posted[i]
    BY <1>0, <2>1 DEF TypeOK
  <2>3. posted'[c] = Tail(posted[c]) /\ posted[c] \in Seq(Messages \cup {Close})
    BY <1>0, <2>1 DEF TypeOK
  <2>4. /\ Len(posted'[c]) = Len(posted[c]) - 1 /\ Len(posted[c]) \in Nat
        /\ \A i \in 1..Len(posted'[c]) : posted'[c][i] = posted[c][i + 1]
    <3> DEFINE q == posted[c]
    <3>1. /\ Len(Tail(q)) = Len(q) - 1 /\ Len(q) \in Nat
          /\ \A i \in 1..Len(Tail(q)) : Tail(q)[i] = q[i + 1]
      BY <2>1, <2>3
    <3> QED
      BY <2>3, <3>1
  <2>5. CloseOf(c)'
    BY <1>0, <2>1, <2>4 DEF CloseOK, CloseOf
  <2> QED
    BY <1>0, <2>1, <2>2, <2>5 DEF CloseOK, CloseOf
<1>4. CASE posted' = posted /\ \A i \in Clients : main'[i] = "reading" => main[i] = "reading"
  BY <1>0, <1>4 DEF CloseOK, CloseOf
<1>5. ASSUME NEW c \in Clients,
             Join(c) \/ (Handler(c) /\ ~RunWrite(c) /\ ~RunClose(c)) \/ Establish(c)
             \/ ConnectFails(c) \/ Transmit(c) \/ TransmitFails(c) \/ Serve(c)
             \/ ServeBad(c) \/ ServerEnds(c)
      PROVE  posted' = posted /\ \A i \in Clients : main'[i] = "reading" => main[i] = "reading"
  BY <1>0, <1>5 DEF Join, Handler, Connected, ReadHeader, ReadBody, ReadError, WriteDone,
     WriteError, IoStop, Establish, ConnectFails, Transmit, TransmitFails, Serve, ServeBad,
     ServerEnds, Arrive, mainVars, TypeOK
<1> QED
  BY <1>1, <1>2, <1>3, <1>4, <1>5 DEF Next, vars, mainVars, Handler

(* Every step keeps the socket's state in agreement with the operations on it. *)
LEMMA SocketStep ==
  ASSUME IInv, [Next]_vars
  PROVE  SocketOK'
<1>0. TypeOK /\ SocketOK
  BY DEF IInv
<1>1. CASE UNCHANGED <<sock, cn, rd>>
  BY <1>0, <1>1 DEF SocketOK, SocketOf
<1>2. ASSUME NEW c \in Clients, RunClose(c) \/ Connected(c) \/ ReadBody(c) \/ ReadError(c)
                                 \/ WriteError(c) \/ Establish(c) \/ ConnectFails(c)
      PROVE  SocketOK'
  <2>1. CASE RunClose(c)
    BY <1>0, <2>1 DEF RunClose, close, readVars, TypeOK, SocketOK, SocketOf, Ops
  <2>2. CASE Connected(c)
    BY <1>0, <2>2 DEF Connected, TypeOK, SocketOK, SocketOf, Ops
  <2>3. CASE ReadBody(c)
    BY SMTT(30), <1>0, <2>3 DEF ReadBody, TypeOK, SocketOK, SocketOf, Ops
  <2>4. CASE ReadError(c)
    BY <1>0, <2>4 DEF ReadError, close, TypeOK, SocketOK, SocketOf, Ops
  <2>5. CASE WriteError(c)
    BY <1>0, <2>5 DEF WriteError, readVars, TypeOK, SocketOK, SocketOf, Ops
  <2>6. CASE Establish(c)
    BY SMTT(30), <1>0, <2>6 DEF Establish, readVars, TypeOK, SocketOK, SocketOf, Ops
  <2>7. CASE ConnectFails(c)
    BY SMTT(30), <1>0, <2>7 DEF ConnectFails, readVars, TypeOK, SocketOK, SocketOf, Ops
  <2> QED
    BY <1>2, <2>1, <2>2, <2>3, <2>4, <2>5, <2>6, <2>7
<1>3. ASSUME NEW c \in Clients, ReadHeader(c)
      PROVE  SocketOK'
  <2>1. PICK d : header_done(c, d) /\ rd[c] = "header"
    BY <1>3 DEF ReadHeader
  <2> QED
    BY SMTT(30), <1>0, <2>1 DEF header_done, close, TypeOK, SocketOK, SocketOf, Ops
<1>4. ASSUME NEW c \in Clients,
             \/ Getline(c) \/ EndInput(c) \/ Join(c) \/ RunWrite(c) \/ WriteDone(c)
             \/ IoStop(c) \/ Transmit(c) \/ TransmitFails(c) \/ Serve(c) \/ ServeBad(c)
             \/ ServerEnds(c)
      PROVE  UNCHANGED <<sock, cn, rd>>
  BY <1>4 DEF Getline, EndInput, Join, RunWrite, WriteDone, IoStop, Transmit, TransmitFails,
     Serve, ServeBad, ServerEnds, Arrive, readVars
<1> QED
  BY <1>1, <1>2, <1>3, <1>4 DEF Next, Handler, vars, readVars

(* Every step keeps a queue without a write on a closed socket. *)
LEMMA StallStep ==
  ASSUME IInv, [Next]_vars
  PROVE  StallMeansClosed'
<1>0. TypeOK /\ SocketOK /\ StallMeansClosed
  BY DEF IInv
<1>1. CASE UNCHANGED <<sock, wr, write_msgs>>
  BY <1>0, <1>1 DEF StallMeansClosed
<1>2. ASSUME NEW c \in Clients, RunClose(c) \/ ReadError(c) \/ WriteError(c) \/ Establish(c)
                                 \/ Transmit(c) \/ TransmitFails(c)
      PROVE  StallMeansClosed'
  <2>1. CASE RunClose(c)
    BY <1>0, <2>1 DEF RunClose, close, TypeOK, StallMeansClosed, Ops
  <2>2. CASE ReadError(c)
    BY <1>0, <2>2 DEF ReadError, close, TypeOK, StallMeansClosed, Ops
  <2>3. CASE WriteError(c)
    BY <1>0, <2>3 DEF WriteError, TypeOK, StallMeansClosed, Ops
  <2>4. CASE Establish(c)
    BY <1>0, <2>4 DEF Establish, writeVars, SocketOK, SocketOf, TypeOK, StallMeansClosed, Ops
  <2>5. CASE Transmit(c)
    BY <1>0, <2>5 DEF Transmit, TypeOK, StallMeansClosed, Ops
  <2>6. CASE TransmitFails(c)
    BY <1>0, <2>6 DEF TransmitFails, TypeOK, StallMeansClosed, Ops
  <2> QED
    BY <1>2, <2>1, <2>2, <2>3, <2>4, <2>5, <2>6
<1>3. ASSUME NEW c \in Clients, ReadHeader(c)
      PROVE  StallMeansClosed'
  <2>1. PICK d : header_done(c, d) /\ write_msgs' = write_msgs
    BY <1>3 DEF ReadHeader
  <2> QED
    BY SMTT(30), <1>0, <2>1 DEF header_done, close, TypeOK, StallMeansClosed, Ops
<1>4. ASSUME NEW c \in Clients, RunWrite(c)
      PROVE  StallMeansClosed'
  <2>1. /\ sock' = sock
        /\ write_msgs' = [write_msgs EXCEPT ![c] = Append(@, Head(posted[c]))]
        /\ wr' = [wr EXCEPT ![c] = IF write_msgs[c] = <<>> THEN start_write(c) ELSE @]
    BY <1>4 DEF RunWrite, posted_write
  <2>2. Append(write_msgs[c], Head(posted[c])) # <<>>
    <3>1. Head(posted[c]) \in Messages /\ write_msgs[c] \in Seq(Messages)
      BY <1>0, <1>4 DEF RunWrite, TypeOK
    <3> QED
      BY <3>1
  <2>3. start_write(c) # "none"
    BY DEF start_write
  <2> QED
    BY <1>0, <2>1, <2>2, <2>3 DEF TypeOK, StallMeansClosed
<1>5. ASSUME NEW c \in Clients, WriteDone(c)
      PROVE  StallMeansClosed'
  BY <1>0, <1>5 DEF WriteDone, write_next, start_write, TypeOK, StallMeansClosed
<1>6. ASSUME NEW c \in Clients,
             \/ Getline(c) \/ EndInput(c) \/ Join(c) \/ Connected(c) \/ ReadBody(c)
             \/ IoStop(c) \/ ConnectFails(c) \/ Serve(c) \/ ServeBad(c) \/ ServerEnds(c)
      PROVE  UNCHANGED <<sock, wr, write_msgs>>
  BY <1>6 DEF Getline, EndInput, Join, Connected, ReadBody, IoStop, ConnectFails, Serve,
     ServeBad, ServerEnds, Arrive, writeVars
<1> QED
  BY <1>1, <1>2, <1>3, <1>4, <1>5, <1>6 DEF Next, Handler, vars, writeVars
-----------------------------------------------------------------------------
(* Sequences of messages and of their bodies. *)
LEMMA BodiesOfAppend ==
  ASSUME NEW q \in Seq(Messages), NEW m \in Messages
  PROVE  /\ BodiesOf(q) \in Seq(AllBodies)
         /\ BodiesOf(Append(q, m)) = Append(BodiesOf(q), m.body)
<1>1. \A r \in Seq(Messages) :
        /\ BodiesOf(r) \in Seq(AllBodies) /\ Len(BodiesOf(r)) = Len(r)
        /\ \A i \in 1..Len(r) : BodiesOf(r)[i] = r[i].body
  <2> SUFFICES ASSUME NEW r \in Seq(Messages)
               PROVE  /\ BodiesOf(r) \in Seq(AllBodies) /\ Len(BodiesOf(r)) = Len(r)
                      /\ \A i \in 1..Len(r) : BodiesOf(r)[i] = r[i].body
    OBVIOUS
  <2>1. DOMAIN r = 1..Len(r) /\ Len(r) \in Nat
    OBVIOUS
  <2>2. \A i \in 1..Len(r) : r[i].body \in AllBodies
    <3>1. \A m2 \in Messages : m2.body \in AllBodies
      BY DEF Messages
    <3>2. \A i \in 1..Len(r) : r[i] \in Messages
      OBVIOUS
    <3> QED
      BY <3>1, <3>2
  <2>3. BodiesOf(r) = [i \in 1..Len(r) |-> r[i].body]
    BY <2>1 DEF BodiesOf
  <2> QED
    BY <2>1, <2>2, <2>3, IsASeq
<1>2. /\ Append(q, m) \in Seq(Messages) /\ Len(Append(q, m)) = Len(q) + 1
      /\ Len(q) \in Nat /\ m.body \in AllBodies
      /\ \A i \in 1..(Len(q) + 1) : Append(q, m)[i] = IF i <= Len(q) THEN q[i] ELSE m
  BY DEF Messages
<1> DEFINE a == BodiesOf(Append(q, m))
           b == Append(BodiesOf(q), m.body)
<1>3. a \in Seq(AllBodies) /\ b \in Seq(AllBodies) /\ Len(a) = Len(b) /\ Len(a) = Len(q) + 1
  <2>1. BodiesOf(q) \in Seq(AllBodies) /\ Len(BodiesOf(q)) = Len(q)
    BY <1>1
  <2>2. b \in Seq(AllBodies) /\ Len(b) = Len(q) + 1
    BY <1>2, <2>1, AppendProperties
  <2>3. a \in Seq(AllBodies) /\ Len(a) = Len(q) + 1
    BY <1>1, <1>2
  <2> QED
    BY <2>2, <2>3
<1>4. \A i \in 1..Len(a) : a[i] = b[i]
  <2>1. \A i \in 1..(Len(q) + 1) : b[i] = IF i <= Len(q) THEN BodiesOf(q)[i] ELSE m.body
    BY <1>1, <1>2
  <2>2. \A i \in 1..(Len(q) + 1) : a[i] = Append(q, m)[i].body
    BY <1>1, <1>2
  <2>3. \A i \in 1..(Len(q) + 1) : i <= Len(q) => i \in 1..Len(q)
    BY <1>2
  <2>4. \A i \in 1..Len(q) : BodiesOf(q)[i] = q[i].body
    BY <1>1
  <2> HIDE DEF a, b
  <2> QED
    BY <1>2, <1>3, <2>1, <2>2, <2>3, <2>4
<1> QED
  BY <1>1, <1>3, <1>4, SeqEqual

(* The bodies of a queue are that of its head and those of its tail. *)
LEMMA BodiesOfTail ==
  ASSUME NEW q \in Seq(Messages), q # <<>>
  PROVE  /\ Head(q) \in Messages /\ Tail(q) \in Seq(Messages) /\ Head(q).body \in AllBodies
         /\ BodiesOf(q) \in Seq(AllBodies) /\ BodiesOf(Tail(q)) \in Seq(AllBodies)
         /\ BodiesOf(q) = <<Head(q).body>> \o BodiesOf(Tail(q))
<1>1. Head(q) \in Messages /\ Tail(q) \in Seq(Messages) /\ Head(q).body \in AllBodies
  <2>1. Head(q) \in Messages /\ Tail(q) \in Seq(Messages)
    OBVIOUS
  <2>2. \A m \in Messages : m.body \in AllBodies
    BY DEF Messages
  <2> QED
    BY <2>1, <2>2
<1>2. \A r \in Seq(Messages) :
        /\ BodiesOf(r) \in Seq(AllBodies) /\ Len(BodiesOf(r)) = Len(r)
        /\ \A i \in 1..Len(r) : BodiesOf(r)[i] = r[i].body
  <2>1. ASSUME NEW r \in Seq(Messages)
        PROVE  /\ BodiesOf(r) \in Seq(AllBodies) /\ Len(BodiesOf(r)) = Len(r)
               /\ \A i \in 1..Len(r) : BodiesOf(r)[i] = r[i].body
    <3>1. BodiesOf(r) \in Seq(AllBodies) /\ DOMAIN BodiesOf(r) = DOMAIN r
      BY <1>1, BodiesOfAppend DEF BodiesOf
    <3>2. DOMAIN r = 1..Len(r) /\ Len(r) \in Nat
      OBVIOUS
    <3> QED
      BY <3>1, <3>2, LenProperties DEF BodiesOf
  <2> QED
    BY <2>1
<1> DEFINE a == BodiesOf(q)
           b == <<Head(q).body>> \o BodiesOf(Tail(q))
           h == <<Head(q).body>>
<1>3. /\ Len(q) \in Nat /\ Len(q) > 0 /\ Len(Tail(q)) = Len(q) - 1 /\ Head(q) = q[1]
      /\ \A i \in 1..(Len(q) - 1) : Tail(q)[i] = q[i + 1]
  OBVIOUS
<1>4. h \in Seq(AllBodies) /\ Len(h) = 1 /\ h[1] = q[1].body
  BY <1>1, <1>3
<1>5. BodiesOf(Tail(q)) \in Seq(AllBodies) /\ Len(BodiesOf(Tail(q))) = Len(q) - 1
  BY <1>1, <1>2, <1>3
<1>6. /\ b \in Seq(AllBodies) /\ Len(b) = 1 + (Len(q) - 1)
      /\ b[1] = q[1].body
      /\ \A i \in 1..(Len(q) - 1) : b[1 + i] = BodiesOf(Tail(q))[i]
  <2>1. /\ Len(b) = Len(h) + Len(BodiesOf(Tail(q)))
        /\ \A i \in 1..Len(h) : b[i] = h[i]
        /\ \A i \in 1..Len(BodiesOf(Tail(q))) : b[Len(h) + i] = BodiesOf(Tail(q))[i]
    BY <1>4, <1>5, ConcatAt
  <2>2. b \in Seq(AllBodies)
    BY <1>4, <1>5, ConcatProperties
  <2> HIDE DEF b, h
  <2>3. 1 \in 1..Len(h)
    BY <1>4
  <2>4. b[1] = q[1].body
    BY <1>4, <2>1, <2>3
  <2> QED
    BY <1>4, <1>5, <2>1, <2>2, <2>4
<1>7. \A i \in 1..(Len(q) - 1) : b[1 + i] = q[i + 1].body
  <2>1. \A i \in 1..(Len(q) - 1) : BodiesOf(Tail(q))[i] = Tail(q)[i].body
    BY <1>1, <1>2, <1>3
  <2> HIDE DEF b
  <2> QED
    BY <1>3, <1>6, <2>1
<1>8. a \in Seq(AllBodies) /\ Len(a) = Len(q) /\ \A i \in 1..Len(q) : a[i] = q[i].body
  BY <1>2
<1>9. \A i \in 1..Len(a) : a[i] = b[i]
  <2> HIDE DEF a, b
  <2>1. ASSUME NEW i \in 1..Len(a)
        PROVE  a[i] = b[i]
    <3>1. CASE i = 1
      BY <1>3, <1>6, <1>8, <3>1
    <3>2. CASE i # 1
      <4>1. i - 1 \in 1..(Len(q) - 1) /\ 1 + (i - 1) = i /\ (i - 1) + 1 = i
        BY <1>3, <1>8, <3>2
      <4> QED
        BY <1>7, <1>8, <4>1
    <3> QED
      BY <3>1, <3>2
  <2> QED
    BY <2>1
<1>10. a = b
  <2> HIDE DEF a, b
  <2>1. Len(a) = Len(b) /\ a \in Seq(AllBodies) /\ b \in Seq(AllBodies)
    BY <1>3, <1>6, <1>8
  <2> QED
    BY <1>9, <2>1, SeqEqual
<1> QED
  BY <1>1, <1>2, <1>10

(* Where an element moves when it goes from one queue to the next. *)
LEMMA MoveIn ==
  ASSUME NEW S, NEW a \in Seq(S), NEW b \in Seq(S), NEW d \in Seq(S), NEW x \in S
  PROVE  a \o b \o Append(d, x) = Append(a \o b \o d, x)
<1>1. a \o b \in Seq(S) /\ (a \o b) \o d \in Seq(S) /\ <<x>> \in Seq(S)
  BY ConcatProperties
<1>2. Append((a \o b) \o d, x) = ((a \o b) \o d) \o <<x>> /\ Append(d, x) = d \o <<x>>
  BY <1>1, AppendIsConcat
<1>3. ((a \o b) \o d) \o <<x>> = (a \o b) \o (d \o <<x>>)
  BY SMTT(30), <1>1, ConcatAssociative
<1> QED
  BY <1>2, <1>3

(* An element may pass from the end of one sequence to the front of the next. *)
LEMMA MoveOut ==
  ASSUME NEW S, NEW a \in Seq(S), NEW b \in Seq(S), NEW d \in Seq(S), NEW x \in S
  PROVE  Append(a, x) \o b \o d = a \o (<<x>> \o b) \o d
<1>1. <<x>> \in Seq(S) /\ Append(a, x) = a \o <<x>>
  BY AppendIsConcat
<1>2. (a \o <<x>>) \o b = a \o (<<x>> \o b)
  BY <1>1, ConcatAssociative
<1> QED
  BY <1>1, <1>2

(* Without the request to close, the posted work is all messages. *)
LEMMA PostedWork ==
  ASSUME TypeOK, CloseOK, NEW c \in Clients
  PROVE  /\ Writes(posted[c]) \in Seq(Messages)
         /\ main[c] = "reading" =>
              posted[c] \in Seq(Messages) /\ Writes(posted[c]) = posted[c]
<1> DEFINE q == posted[c]
           n == Len(q)
<1>1. q \in Seq(Messages \cup {Close}) /\ n \in Nat
  BY DEF TypeOK
<1>2. \A i \in 1..n : q[i] = Close => i = n /\ main[c] # "reading"
  BY DEF CloseOK, CloseOf
<1>3. \A i \in 1..n : q[i] \in Messages \cup {Close}
  BY <1>1
<1>4. CASE q # <<>> /\ q[n] = Close
  <2>1. n > 0 /\ n \in 1..n
    BY <1>1, <1>4
  <2>2. \A i \in 1..(n - 1) : q[i] \in Messages
    BY <1>1, <1>2, <1>3
  <2>3. Writes(q) = SubSeq(q, 1, n - 1)
    BY <1>4 DEF Writes
  <2>4. SubSeq(q, 1, n - 1) \in Seq(Messages)
    BY <1>1, <2>2, SubSeqProperties
  <2> QED
    BY <1>2, <1>4, <2>1, <2>3, <2>4
<1>5. CASE ~(q # <<>> /\ q[n] = Close)
  <2>1. \A i \in 1..n : q[i] \in Messages
    <3>1. ASSUME NEW i \in 1..n
          PROVE  q[i] \in Messages
      <4>1. q # <<>>
        BY <1>1
      <4> QED
        BY <1>2, <1>3, <1>5, <4>1
    <3> QED
      BY <3>1
  <2>2. q \in Seq(Messages)
    <3>1. q = [i \in 1..n |-> q[i]]
      BY <1>1
    <3> QED
      BY <1>1, <2>1, <3>1
  <2>3. Writes(q) = q
    BY <1>5 DEF Writes
  <2> QED
    BY <2>2, <2>3
<1> QED
  BY <1>4, <1>5

(* What is left when the first of a sequence of work is taken. *)
LEMMA WorkTail ==
  ASSUME NEW q \in Seq(Messages \cup {Close}), q # <<>>,
         \A i \in 1..Len(q) : q[i] = Close => i = Len(q)
  PROVE  /\ Head(q) = Close => Writes(Tail(q)) = Writes(q)
         /\ Head(q) # Close =>
              /\ Writes(q) # <<>> /\ Head(Writes(q)) = Head(q)
              /\ Tail(Writes(q)) = Writes(Tail(q))
<1> DEFINE t == Tail(q)
           n == Len(q)
<1>1. /\ q \in Seq(Messages \cup {Close}) /\ n \in Nat /\ n > 0 /\ Head(q) = q[1]
      /\ t \in Seq(Messages \cup {Close}) /\ Len(t) = n - 1
      /\ \A i \in 1..(n - 1) : t[i] = q[i + 1]
      /\ 1 \in 1..n /\ (n = 1 => t = <<>>)
  <2>1. /\ Len(q) \in Nat /\ Len(q) > 0 /\ Head(q) = q[1]
        /\ Tail(q) \in Seq(Messages \cup {Close}) /\ Len(Tail(q)) = Len(q) - 1
        /\ \A i \in 1..(Len(q) - 1) : Tail(q)[i] = q[i + 1]
    OBVIOUS
  <2>2. Len(q) = 1 => Tail(q) = <<>>
    <3>1. ASSUME Len(q) = 1
          PROVE  Tail(q) = <<>>
      <4>1. Tail(q) \in Seq(Messages \cup {Close}) /\ Len(Tail(q)) = 0
        BY <2>1, <3>1
      <4> QED
        BY <4>1, EmptySeq
    <3> QED
      BY <3>1
  <2>3. 1 \in 1..Len(q)
    <3> DEFINE l == Len(q)
    <3>1. l \in Nat /\ l > 0
      BY <2>1
    <3> HIDE DEF l
    <3>2. 1 \in 1..l
      BY <3>1
    <3> QED
      BY <3>2 DEF l
  <2> QED
    BY <2>1, <2>2, <2>3
<1>2. \A i \in 1..n : q[i] = Close => i = n
  OBVIOUS
<1>0. SUFFICES /\ q[1] = Close => Writes(t) = Writes(q)
               /\ q[1] # Close => /\ Writes(q) # <<>> /\ Head(Writes(q)) = q[1]
                                  /\ Tail(Writes(q)) = Writes(t)
  BY <1>1
<1> HIDE DEF t, n
<1>3. CASE q[1] = Close
  <2>1. n = 1
    BY <1>1, <1>2, <1>3
  <2>2. t = <<>> /\ Writes(q) = SubSeq(q, 1, 0)
    BY <1>1, <1>3, <2>1 DEF Writes, n
  <2>3. SubSeq(q, 1, 0) = <<>> /\ Writes(<<>>) = <<>>
    BY <1>1 DEF Writes, n
  <2> QED
    BY <1>1, <1>3, <2>2, <2>3
<1>4. CASE q[1] # Close /\ q[n] = Close
  <2>1. n > 1
    BY <1>1, <1>4
  <2>2. t # <<>> /\ Len(t) = n - 1 /\ t[n - 1] = Close
    <3>1. n - 1 \in 1..(n - 1) /\ (n - 1) + 1 = n
      BY <1>1, <2>1
    <3>2. t[n - 1] = q[n]
      BY <1>1, <3>1
    <3> QED
      BY <1>1, <1>4, <2>1, <3>2
  <2>3. Writes(q) = SubSeq(q, 1, n - 1) /\ Writes(t) = SubSeq(t, 1, n - 2)
    BY <1>1, <1>4, <2>2 DEF Writes, n
  <2>4. /\ SubSeq(q, 1, n - 1) # <<>> /\ Head(SubSeq(q, 1, n - 1)) = q[1]
        /\ Tail(SubSeq(q, 1, n - 1)) = SubSeq(t, 1, n - 2)
    <3> DEFINE a == SubSeq(q, 1, n - 1)
               b == SubSeq(t, 1, n - 2)
               S == Messages \cup {Close}
    <3>0. q \in Seq(S) /\ t \in Seq(S) /\ n - 1 \in 0..Len(q) /\ n - 2 \in 0..Len(t)
      <4>1. Len(q) = n
        BY DEF n
      <4> QED
        BY <1>1, <2>1, <4>1
    <3> HIDE DEF S
    <3>1. /\ a \in Seq(S) /\ Len(a) = n - 1 /\ \A i \in 1..(n - 1) : a[i] = q[i]
      BY <3>0, Prefix
    <3>2. /\ b \in Seq(S) /\ Len(b) = n - 2 /\ \A i \in 1..(n - 2) : b[i] = t[i]
      BY <3>0, Prefix
    <3> HIDE DEF a, b
    <3>3. /\ a # <<>> /\ Head(a) = a[1] /\ Tail(a) \in Seq(S) /\ Len(Tail(a)) = (n - 1) - 1
          /\ \A i \in 1..((n - 1) - 1) : Tail(a)[i] = a[i + 1]
      BY <1>1, <2>1, <3>1
    <3>4. Head(a) = q[1]
      BY <1>1, <2>1, <3>1, <3>3
    <3>5. Len(Tail(a)) = Len(b) /\ Len(b) \in Nat
      BY <1>1, <2>1, <3>2, <3>3
    <3>6. \A i \in 1..Len(b) : Tail(a)[i] = b[i]
      <4>1. ASSUME NEW i \in 1..Len(b)
            PROVE  Tail(a)[i] = b[i]
        <5>1. /\ i \in 1..((n - 1) - 1) /\ i \in 1..(n - 1) /\ i + 1 \in 1..(n - 1)
              /\ i \in 1..(n - 2)
          BY <1>1, <2>1, <3>2
        <5>2. Tail(a)[i] = q[i + 1] /\ b[i] = q[i + 1]
          BY <1>1, <3>1, <3>2, <3>3, <5>1
        <5> QED
          BY <5>2
      <4> QED
        BY <4>1
    <3>7. Tail(a) = b
      BY <3>2, <3>3, <3>5, <3>6, SeqEqual
    <3> QED
      BY <3>3, <3>4, <3>7 DEF a, b
  <2> QED
    BY <1>1, <1>4, <2>3, <2>4
<1>5. CASE q[1] # Close /\ q[n] # Close
  <2>1. Writes(q) = q
    BY <1>5 DEF Writes, n
  <2>2. Writes(t) = t
    <3>1. CASE n = 1
      <4>1. t = <<>>
        BY <1>1, <3>1
      <4> QED
        BY <4>1 DEF Writes, n
    <3>2. CASE n > 1
      <4>1. n - 1 \in 1..(n - 1) /\ (n - 1) + 1 = n
        BY <1>1, <3>2
      <4>2. t[Len(t)] = q[n]
        BY <1>1, <4>1
      <4> QED
        BY <1>5, <4>2 DEF Writes, n
    <3> QED
      BY <1>1, <3>1, <3>2
  <2> QED
    BY <1>1, <1>5, <2>1, <2>2 DEF t
<1> QED
  BY <1>3, <1>4, <1>5

(* The lines that are posted, when the first piece of posted work is done. *)
LEMMA PostedTail ==
  ASSUME TypeOK, CloseOK, NEW c \in Clients, posted[c] # <<>>
  PROVE  /\ Head(posted[c]) = Close => Writes(Tail(posted[c])) = Writes(posted[c])
         /\ Head(posted[c]) # Close =>
              /\ Writes(posted[c]) # <<>> /\ Head(Writes(posted[c])) = Head(posted[c])
              /\ Tail(Writes(posted[c])) = Writes(Tail(posted[c]))
<1>1. /\ posted[c] \in Seq(Messages \cup {Close})
      /\ \A i \in 1..Len(posted[c]) : posted[c][i] = Close => i = Len(posted[c])
  BY DEF TypeOK, CloseOK, CloseOf
<1> QED
  BY <1>1, WorkTail

(* Every step keeps each typed line in exactly one place, in order. *)
LEMMA LinesStep ==
  ASSUME IInv, [Next]_vars
  PROVE  LinesOK'
<1>0. TypeOK /\ CloseOK /\ LinesOK /\ StallMeansClosed
  BY DEF IInv
<1>a. /\ write_msgs \in [Clients -> Seq(Messages)] /\ posted \in [Clients -> Seq(Messages \cup {Close})]
      /\ wr \in [Clients -> {"none", "pending", "sent", "failed"}]
      /\ wire \in [Clients -> Seq(AllBodies)] /\ typed \in [Clients -> Seq(AllBodies)]
  BY <1>0 DEF TypeOK
<1>b. ASSUME NEW c \in Clients
      PROVE  /\ LinesOf(c) /\ Unsent(c) \in Seq(Messages) /\ BodiesOf(Unsent(c)) \in Seq(AllBodies)
             /\ Writes(posted[c]) \in Seq(Messages)
             /\ BodiesOf(Writes(posted[c])) \in Seq(AllBodies)
             /\ wire[c] \in Seq(AllBodies)
             /\ wr[c] # "none" => write_msgs[c] # <<>>
  <2>1. wr[c] # "none" => write_msgs[c] # <<>>
    BY <1>0 DEF StallMeansClosed
  <2>2. Unsent(c) \in Seq(Messages)
    BY <1>a, <2>1 DEF Unsent
  <2>3. Writes(posted[c]) \in Seq(Messages)
    BY <1>0, PostedWork
  <2>4. NoBody \in AllBodies /\ Message(NoBody) \in Messages
    BY FrameType DEF AllBodies
  <2> QED
    BY <1>0, <1>a, <2>1, <2>2, <2>3, <2>4, BodiesOfAppend DEF LinesOK
<1>c. ASSUME NEW c \in Clients, typed'[c] = typed[c], wire'[c] = wire[c],
             Unsent(c)' = Unsent(c), Writes(posted[c])' = Writes(posted[c])
      PROVE  LinesOf(c)'
  BY <1>b, <1>c DEF LinesOf
<1>1. ASSUME NEW c \in Clients, Getline(c)
      PROVE  LinesOK'
  <2>1. PICK b \in Input : /\ typed' = [typed EXCEPT ![c] = Append(@, b)]
                           /\ posted' = [posted EXCEPT ![c] = Append(@, Message(b))]
    BY <1>1 DEF Getline
  <2>2. /\ UNCHANGED <<wire, wr, write_msgs>> /\ main[c] = "reading" /\ main' = main
        /\ Message(b) \in Messages /\ Message(b).body = b /\ b \in AllBodies
    BY <1>1, FrameType, ClientAssumption DEF Getline, writeVars
  <2>3. /\ typed'[c] = Append(typed[c], b) /\ posted'[c] = Append(posted[c], Message(b))
        /\ \A i \in Clients : i # c => typed'[i] = typed[i] /\ posted'[i] = posted[i]
    BY <1>a, <2>1
  <2>4. /\ posted[c] \in Seq(Messages) /\ Writes(posted[c]) = posted[c]
    BY <1>0, <2>2, PostedWork
  <2>5. Writes(posted'[c]) = posted'[c]
    <3>1. posted'[c][Len(posted'[c])] = Message(b)
      BY <2>2, <2>3, <2>4
    <3> QED
      BY <2>2, <3>1, CloseIsNoMessage DEF Writes
  <2>6. \A i \in Clients : Unsent(i)' = Unsent(i)
    BY <2>2 DEF Unsent
  <2>7. BodiesOf(Writes(posted'[c])) = Append(BodiesOf(Writes(posted[c])), b)
    BY <2>2, <2>3, <2>4, <2>5, BodiesOfAppend
  <2>8. LinesOf(c)'
    <3>1. typed[c] = wire[c] \o BodiesOf(Unsent(c)) \o BodiesOf(Writes(posted[c]))
      BY <1>b DEF LinesOf
    <3>2. Append(typed[c], b) = wire[c] \o BodiesOf(Unsent(c)) \o BodiesOf(Writes(posted'[c]))
      <4> DEFINE s == wire[c]
                 t == BodiesOf(Unsent(c))
                 u == BodiesOf(Writes(posted[c]))
      <4>1. s \in Seq(AllBodies) /\ t \in Seq(AllBodies) /\ u \in Seq(AllBodies) /\ b \in AllBodies
        BY <1>b, <2>2
      <4> HIDE DEF s, t, u
      <4>2. s \o t \o Append(u, b) = Append(s \o t \o u, b)
        BY <4>1, MoveIn
      <4> QED
        BY <2>7, <3>1, <4>2 DEF s, t, u
    <3>3. typed'[c] = wire'[c] \o BodiesOf(Unsent(c)') \o BodiesOf(Writes(posted'[c]))
      BY <2>2, <2>3, <2>6, <3>2
    <3> QED
      BY <3>3 DEF LinesOf
  <2> QED
    BY <1>c, <2>2, <2>3, <2>6, <2>8 DEF LinesOK
<1>2. ASSUME NEW c \in Clients, EndInput(c)
      PROVE  LinesOK'
  <2>1. /\ posted' = [posted EXCEPT ![c] = Append(@, Close)] /\ main[c] = "reading"
        /\ UNCHANGED <<typed, wire, wr, write_msgs>>
    BY <1>2 DEF EndInput, writeVars
  <2>2. /\ posted'[c] = Append(posted[c], Close)
        /\ \A i \in Clients : i # c => posted'[i] = posted[i]
    BY <1>a, <2>1
  <2>3. /\ posted[c] \in Seq(Messages) /\ Writes(posted[c]) = posted[c]
    BY <1>0, <2>1, PostedWork
  <2>4. Writes(posted'[c]) = posted[c]
    <3> DEFINE p == Append(posted[c], Close)
    <3>1. /\ p # <<>> /\ p[Len(p)] = Close /\ Len(p) - 1 = Len(posted[c])
          /\ Len(posted[c]) \in Nat /\ p \in Seq(Messages \cup {Close})
          /\ \A i \in 1..Len(posted[c]) : p[i] = posted[c][i]
      BY <2>3
    <3>2. Writes(p) = SubSeq(p, 1, Len(posted[c]))
      BY <3>1 DEF Writes
    <3> HIDE DEF p
    <3>3. /\ SubSeq(p, 1, Len(posted[c])) \in Seq(Messages)
          /\ Len(SubSeq(p, 1, Len(posted[c]))) = Len(posted[c])
          /\ \A i \in 1..Len(posted[c]) : SubSeq(p, 1, Len(posted[c]))[i] = p[i]
      <4>1. \A i \in 1..Len(posted[c]) : p[i] \in Messages
        BY <2>3, <3>1
      <4>2. /\ SubSeq(p, 1, Len(posted[c])) \in Seq(Messages)
            /\ Len(SubSeq(p, 1, Len(posted[c])))
                 = IF 1 <= Len(posted[c]) THEN Len(posted[c]) - 1 + 1 ELSE 0
            /\ \A i \in 1..(Len(posted[c]) - 1 + 1) :
                 SubSeq(p, 1, Len(posted[c]))[i] = p[1 + i - 1]
        BY <3>1, <4>1, SubSeqProperties
      <4>3. Len(posted[c]) - 1 + 1 = Len(posted[c]) /\ \A i \in 1..Len(posted[c]) : 1 + i - 1 = i
        BY <3>1
      <4> QED
        BY <3>1, <4>2, <4>3
    <3>4. SubSeq(p, 1, Len(posted[c])) = posted[c]
      BY <2>3, <3>1, <3>3, SeqEqual
    <3> QED
      BY <2>2, <3>2, <3>4 DEF p
  <2>5. \A i \in Clients : Unsent(i)' = Unsent(i)
    BY <2>1 DEF Unsent
  <2> QED
    BY <1>c, <2>1, <2>2, <2>3, <2>4, <2>5 DEF LinesOK
<1>3. ASSUME NEW c \in Clients, RunWrite(c)
      PROVE  LinesOK'
  <2> DEFINE p == posted[c]
             w == write_msgs[c]
  <2>1. /\ p # <<>> /\ Head(p) # Close /\ UNCHANGED <<typed, wire>>
        /\ posted' = [posted EXCEPT ![c] = Tail(@)]
        /\ write_msgs' = [write_msgs EXCEPT ![c] = Append(@, Head(p))]
        /\ wr' = [wr EXCEPT ![c] = IF w = <<>> THEN start_write(c) ELSE @]
    BY <1>3 DEF RunWrite, posted_write, mainVars
  <2>2. \A i \in Clients : i # c =>
          posted'[i] = posted[i] /\ write_msgs'[i] = write_msgs[i] /\ wr'[i] = wr[i]
    BY <1>a, <2>1
  <2>3. /\ posted'[c] = Tail(p) /\ write_msgs'[c] = Append(w, Head(p))
        /\ wr'[c] = IF w = <<>> THEN start_write(c) ELSE wr[c]
        /\ start_write(c) # "sent"
    BY <1>a, <2>1 DEF start_write
  <2>4. p \in Seq(Messages \cup {Close}) /\ Head(p) \in Messages /\ w \in Seq(Messages)
    BY <1>a, <2>1
  <2>5. Unsent(c)' = Append(Unsent(c), Head(p))
    <3>1. CASE w = <<>>
      BY <1>b, <2>3, <3>1 DEF Unsent
    <3>2. CASE w # <<>>
      BY <2>3, <2>4, <3>2 DEF Unsent
    <3> QED
      BY <3>1, <3>2
  <2>6. /\ Writes(p) # <<>> /\ Head(Writes(p)) = Head(p)
        /\ Tail(Writes(p)) = Writes(Tail(p))
    BY <1>0, <2>1, PostedTail
  <2>7. BodiesOf(Writes(p)) = <<Head(p).body>> \o BodiesOf(Writes(Tail(p)))
    BY <1>b, <2>6, BodiesOfTail
  <2>8. BodiesOf(Unsent(c)') = Append(BodiesOf(Unsent(c)), Head(p).body)
    BY <1>b, <2>4, <2>5, BodiesOfAppend
  <2>9. /\ BodiesOf(Writes(Tail(p))) \in Seq(AllBodies) /\ Head(p).body \in AllBodies
    BY <1>b, <2>6, BodiesOfTail
  <2>10. LinesOf(c)'
    <3>1. typed[c] = wire[c] \o BodiesOf(Unsent(c)) \o BodiesOf(Writes(p))
      BY <1>b DEF LinesOf
    <3>2. typed[c] = wire[c] \o BodiesOf(Unsent(c)') \o BodiesOf(Writes(Tail(p)))
      <4> DEFINE s == wire[c]
                 t == BodiesOf(Unsent(c))
                 u == BodiesOf(Writes(Tail(p)))
                 x == Head(p).body
      <4>1. s \in Seq(AllBodies) /\ t \in Seq(AllBodies) /\ u \in Seq(AllBodies) /\ x \in AllBodies
        BY <1>b, <2>9
      <4>2. BodiesOf(Unsent(c)') = Append(t, x) /\ BodiesOf(Writes(p)) = <<x>> \o u
        BY <2>7, <2>8
      <4> HIDE DEF s, t, u, x
      <4>3. s \o t \in Seq(AllBodies) /\ <<x>> \in Seq(AllBodies) /\ Append(t, x) = t \o <<x>>
        BY <4>1, AppendIsConcat, ConcatProperties
      <4>4. s \o (t \o <<x>>) = (s \o t) \o <<x>>
        BY <4>1, <4>3, ConcatAssociative
      <4>5. ((s \o t) \o <<x>>) \o u = (s \o t) \o (<<x>> \o u)
        BY <4>1, <4>3, ConcatAssociative
      <4> QED
        BY <3>1, <4>2, <4>3, <4>4, <4>5 DEF s, t, u
    <3> QED
      BY <2>1, <2>3, <3>2 DEF LinesOf
  <2>11. \A i \in Clients : i # c => Unsent(i)' = Unsent(i)
    BY <2>2 DEF Unsent
  <2> QED
    BY <1>c, <2>1, <2>2, <2>10, <2>11 DEF LinesOK
<1>4. ASSUME NEW c \in Clients, RunClose(c)
      PROVE  LinesOK'
  <2>1. /\ posted[c] # <<>> /\ Head(posted[c]) = Close /\ UNCHANGED <<typed, wire, write_msgs>>
        /\ posted' = [posted EXCEPT ![c] = Tail(@)]
        /\ wr' = [wr EXCEPT ![c] = IF @ = "pending" THEN "failed" ELSE @]
    BY <1>4 DEF RunClose, close, mainVars
  <2>2. /\ \A i \in Clients : i # c => posted'[i] = posted[i]
        /\ \A i \in Clients : wr'[i] = "sent" <=> wr[i] = "sent"
        /\ posted'[c] = Tail(posted[c])
    BY <1>a, <2>1
  <2>3. \A i \in Clients : Unsent(i)' = Unsent(i)
    BY <2>1, <2>2 DEF Unsent
  <2>4. Writes(Tail(posted[c])) = Writes(posted[c])
    BY <1>0, <2>1, PostedTail
  <2> QED
    BY <1>c, <2>1, <2>2, <2>3, <2>4 DEF LinesOK
<1>5. ASSUME NEW c \in Clients, WriteDone(c)
      PROVE  LinesOK'
  <2>1. /\ UNCHANGED <<typed, wire, posted>> /\ wr[c] = "sent"
        /\ write_msgs' = [write_msgs EXCEPT ![c] = Tail(@)]
        /\ wr' = [wr EXCEPT ![c] = write_next(c)] /\ write_next(c) # "sent"
    BY <1>5 DEF WriteDone, mainVars, write_next, start_write
  <2>2. \A i \in Clients : i # c => write_msgs'[i] = write_msgs[i] /\ wr'[i] = wr[i]
    BY <1>a, <2>1
  <2>3. write_msgs'[c] = Tail(write_msgs[c]) /\ wr'[c] # "sent"
    BY <1>a, <2>1
  <2>4. \A i \in Clients : Unsent(i)' = Unsent(i)
    BY <2>1, <2>2, <2>3 DEF Unsent
  <2> QED
    BY <1>c, <2>1, <2>4 DEF LinesOK
<1>6. ASSUME NEW c \in Clients, Transmit(c)
      PROVE  LinesOK'
  <2> DEFINE w == write_msgs[c]
  <2>1. /\ UNCHANGED <<typed, posted, write_msgs>> /\ wr[c] = "pending"
        /\ wr' = [wr EXCEPT ![c] = "sent"]
        /\ wire' = [wire EXCEPT ![c] = Append(@, Head(w).body)]
    BY <1>6 DEF Transmit, mainVars
  <2>2. /\ \A i \in Clients : i # c => wire'[i] = wire[i] /\ wr'[i] = wr[i]
        /\ wr'[c] = "sent" /\ wire'[c] = Append(wire[c], Head(w).body)
    BY <1>a, <2>1
  <2>3. w \in Seq(Messages) /\ w # <<>>
    BY <1>a, <1>b, <2>1
  <2>4. Unsent(c) = w /\ Unsent(c)' = Tail(w) /\ \A i \in Clients : i # c => Unsent(i)' = Unsent(i)
    BY <2>1, <2>2 DEF Unsent
  <2>5. /\ BodiesOf(Unsent(c)) = <<Head(w).body>> \o BodiesOf(Unsent(c)')
        /\ BodiesOf(Unsent(c)') \in Seq(AllBodies) /\ Head(w).body \in AllBodies
    BY <2>3, <2>4, BodiesOfTail
  <2>6. LinesOf(c)'
    <3>1. typed[c] = wire[c] \o BodiesOf(Unsent(c)) \o BodiesOf(Writes(posted[c]))
      BY <1>b DEF LinesOf
    <3>2. typed[c] = wire'[c] \o BodiesOf(Unsent(c)') \o BodiesOf(Writes(posted[c]))
      <4> DEFINE s == wire[c]
                 t == BodiesOf(Unsent(c)')
                 u == BodiesOf(Writes(posted[c]))
                 x == Head(w).body
      <4>1. s \in Seq(AllBodies) /\ t \in Seq(AllBodies) /\ u \in Seq(AllBodies) /\ x \in AllBodies
        BY <1>b, <2>5
      <4> HIDE DEF s, t, u, x
      <4>2. Append(s, x) \o t \o u = s \o (<<x>> \o t) \o u
        BY <4>1, MoveOut
      <4> QED
        BY <2>2, <2>5, <3>1, <4>2 DEF s, t, u, x
    <3> QED
      BY <2>1, <3>2 DEF LinesOf
  <2> QED
    BY <1>c, <2>1, <2>2, <2>4, <2>6 DEF LinesOK
<1>7. CASE /\ UNCHANGED <<typed, wire, posted, write_msgs>>
           /\ \A i \in Clients : wr'[i] = "sent" <=> wr[i] = "sent"
  <2>1. \A i \in Clients : Unsent(i)' = Unsent(i)
    BY <1>7 DEF Unsent
  <2> QED
    BY <1>c, <1>7, <2>1 DEF LinesOK
<1>8. ASSUME NEW c \in Clients, ReadError(c) \/ WriteError(c) \/ TransmitFails(c)
      PROVE  /\ UNCHANGED <<typed, wire, posted, write_msgs>>
             /\ \A i \in Clients : wr'[i] = "sent" <=> wr[i] = "sent"
  BY <1>a, <1>8 DEF ReadError, WriteError, TransmitFails, close, mainVars
<1>9. ASSUME NEW c \in Clients, ReadHeader(c)
      PROVE  /\ UNCHANGED <<typed, wire, posted, write_msgs>>
             /\ \A i \in Clients : wr'[i] = "sent" <=> wr[i] = "sent"
  <2>1. PICK d : header_done(c, d) /\ UNCHANGED <<typed, wire, posted, write_msgs>>
    BY <1>9 DEF ReadHeader
  <2> QED
    BY <1>a, <2>1 DEF header_done, close
<1>10. ASSUME NEW c \in Clients,
              \/ Join(c) \/ Connected(c) \/ ReadBody(c) \/ IoStop(c) \/ Establish(c)
              \/ ConnectFails(c) \/ Serve(c) \/ ServeBad(c) \/ ServerEnds(c)
       PROVE  UNCHANGED <<typed, wire, posted, write_msgs, wr>>
  BY <1>10 DEF Join, Connected, ReadBody, IoStop, Establish, ConnectFails, Serve, ServeBad,
     ServerEnds, Arrive, mainVars, writeVars
<1> QED
  BY <1>1, <1>2, <1>3, <1>4, <1>5, <1>6, <1>7, <1>8, <1>9, <1>10
     DEF Next, Handler, vars, mainVars, writeVars
-----------------------------------------------------------------------------
(* The invariant holds before anything was typed. *)
LEMMA InitOK == Init => IInv
<1> SUFFICES ASSUME Init PROVE IInv
  OBVIOUS
<1>1. TypeOK
  BY MessageAssumption DEF Init, TypeOK, Ops
<1>2. \A c \in Clients :
        /\ printed[c] = <<>> /\ served[c] = <<>> /\ down[c] = <<>> /\ posted[c] = <<>>
        /\ typed[c] = <<>> /\ wire[c] = <<>> /\ write_msgs[c] = <<>>
        /\ rd[c] = "none" /\ wr[c] = "none" /\ sock[c] = "open" /\ cn[c] = "pending"
  BY DEF Init
<1>3. StreamOK
  <2>1. ASSUME NEW c \in Clients
        PROVE  StreamOf(c)
    <3>1. Number(c) = 1 /\ Part(c) = "header"
      <4>1. Len(<<>>) = 0 /\ rd[c] # "body" /\ printed[c] = <<>>
        BY <1>2
      <4> QED
        BY <4>1 DEF Number, Part
    <3> QED
      BY <1>2, StreamEmpty, <3>1 DEF StreamOf
  <2> QED
    BY <2>1 DEF StreamOK
<1>4. CloseOK
  BY <1>2 DEF CloseOK, CloseOf
<1>5. LinesOK
  <2>1. ASSUME NEW c \in Clients
        PROVE  LinesOf(c)
    <3>1. Unsent(c) = <<>> /\ Writes(posted[c]) = <<>>
      BY <1>2 DEF Unsent, Writes
    <3>2. BodiesOf(<<>>) = <<>> /\ <<>> \o <<>> \o <<>> = <<>>
      BY DEF BodiesOf
    <3> QED
      BY <1>2, <3>1, <3>2 DEF LinesOf
  <2> QED
    BY <2>1 DEF LinesOK
<1>6. SocketOK /\ StallMeansClosed
  BY <1>2 DEF SocketOK, SocketOf, StallMeansClosed
<1> QED
  BY <1>1, <1>3, <1>4, <1>5, <1>6 DEF IInv

(* Every step keeps it. *)
LEMMA Inductive == IInv /\ [Next]_vars => IInv'
BY TypeStep, StreamStep, CloseStep, LinesStep, SocketStep, StallStep DEF IInv

(* The invariant holds in every reachable state. *)
LEMMA Invariant == Spec => []IInv
BY InitOK, Inductive, PTL DEF Spec

(* What has left the client is the beginning of what was typed. *)
LEMMA WireIsTyped ==
  ASSUME IInv, NEW c \in Clients
  PROVE  /\ Len(wire[c]) <= Len(typed[c])
         /\ \A i \in 1..Len(wire[c]) : typed[c][i] = wire[c][i]
<1> DEFINE q == BodiesOf(Unsent(c))
           p == BodiesOf(Writes(posted[c]))
<1>1. Unsent(c) \in Seq(Messages)
  BY DEF IInv, TypeOK, StallMeansClosed, Unsent
<1>2. Writes(posted[c]) \in Seq(Messages)
  BY PostedWork DEF IInv
<1>3. q \in Seq(AllBodies) /\ p \in Seq(AllBodies)
  <2>1. Message(NoBody) \in Messages
    BY FrameType DEF AllBodies
  <2>2. \A r \in Seq(Messages) : BodiesOf(r) \in Seq(AllBodies)
    BY <2>1, BodiesOfAppend
  <2> QED
    BY <1>1, <1>2, <2>2
<1>4. typed[c] = wire[c] \o q \o p /\ wire[c] \in Seq(AllBodies)
  BY DEF IInv, TypeOK, LinesOK, LinesOf
<1> HIDE DEF q, p
<1> DEFINE w == wire[c] \o q
<1>5. /\ w \in Seq(AllBodies) /\ Len(w) = Len(wire[c]) + Len(q)
      /\ \A i \in 1..Len(wire[c]) : w[i] = wire[c][i]
  BY <1>3, <1>4, ConcatAt
<1> HIDE DEF w
<1>6. /\ Len(w \o p) = Len(w) + Len(p)
      /\ \A i \in 1..Len(w) : (w \o p)[i] = w[i]
  BY <1>3, <1>5, ConcatAt
<1>7. typed[c] = w \o p /\ Len(q) \in Nat /\ Len(p) \in Nat /\ Len(wire[c]) \in Nat
  BY <1>3, <1>4 DEF w
<1> QED
  BY <1>5, <1>6, <1>7

(* Every line typed is on the wire, queued or posted, once and in the order of
   typing, and what the client prints is a prefix of what the server sent:
   whatever the server sends, cuts off or refuses, and whenever close() comes
   between the handlers of the io thread. *)
THEOREM ClientAccounts == Spec => []Accounted
<1>1. ASSUME IInv
      PROVE  Accounted
  <2>1. ASSUME NEW c \in Clients
        PROVE  /\ LinesOf(c) /\ Len(printed[c]) <= Len(served[c])
               /\ printed[c] = SubSeq(served[c], 1, Len(printed[c]))
    <3> DEFINE p == printed[c]
               q == SubSeq(served[c], 1, Len(p))
    <3>1. /\ LinesOf(c) /\ Len(p) <= Len(served[c]) /\ p \in Seq(AllBodies)
          /\ served[c] \in Seq(AllBodies)
          /\ \A i \in 1..Len(p) : p[i] = served[c][i]
      BY <1>1 DEF IInv, TypeOK, LinesOK, StreamOK, StreamOf
    <3>2. Len(p) \in Nat /\ q \in Seq(AllBodies) /\ Len(q) = Len(p)
          /\ \A i \in 1..Len(p) : q[i] = served[c][i]
      BY <3>1
    <3> HIDE DEF p, q
    <3>3. p = q
      BY <3>1, <3>2, SeqEqual
    <3> QED
      BY <3>1, <3>3 DEF p, q
  <2> QED
    BY <2>1 DEF Accounted, LinesOf
<1> QED
  BY <1>1, Invariant, PTL

(* Messages that no write is under way for are on a closed socket: the handler
   of a failed write, which leaves them queued, has closed it. *)
THEOREM ClientStallsClosed == Spec => []StallMeansClosed
<1>1. IInv => StallMeansClosed
  BY DEF IInv
<1> QED
  BY <1>1, Invariant, PTL
=============================================================================
