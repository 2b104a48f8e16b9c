-------------------------- MODULE ChatServerProofs ---------------------------
(***************************************************************************)
(* The safety properties of ChatServer, for any set of clients, any bodies *)
(* and any limits, and that it implements ChatRoom.                        *)
(***************************************************************************)
EXTENDS ChatServer, ChatMessageProofs

(* Two units of a stream that may follow each other, and one that may end
   it: what decode_header says of a header tells what comes next. *)
Follows(u, v) ==
  /\ u.part = "body" => v.part = "header"
  /\ u.part = "header" /\ decoded[u.val].res = "ok" =>
       IF decoded[u.val].body_length = 0 THEN v.part = "header"
       ELSE v.part = "body" /\ size[v.val] = decoded[u.val].body_length
Ends(u) ==
  u.part = "header" /\ decoded[u.val].res = "ok" => decoded[u.val].body_length = 0

(* The part of the frame that a session's stream begins with. *)
AwaitsBody(s) == rd[s] = "body" /\ read_msg[s].body_length > 0
Refused(s) == conn[s] = "accepted" /\ rd[s] = "none"

StreamOf(s) ==
  /\ \A i \in 1..(Len(up[s]) - 1) : Follows(up[s][i], up[s][i + 1])
  /\ up[s] # <<>> /\ ~AwaitsBody(s) /\ ~Refused(s) => up[s][1].part = "header"
  /\ up[s] # <<>> /\ AwaitsBody(s) =>
       up[s][1].part = "body" /\ size[up[s][1].val] = read_msg[s].body_length
  /\ ~hung[s] /\ up[s] # <<>> => Ends(up[s][Len(up[s])])
  /\ ~hung[s] /\ AwaitsBody(s) => up[s] # <<>>
StreamOK == \A s \in Clients : StreamOf(s)

(* Before its accept a connection has no session. *)
FreshOf(s) ==
  conn[s] # "accepted" =>
    /\ s \notin participants /\ rd[s] = "none" /\ ~wr[s]
    /\ write_msgs[s] = <<>> /\ sent[s] = <<>>
Fresh == \A s \in Clients : FreshOf(s)

(* InOrder and RecentIsSuffix, element by element: a then q are a run of h
   that begins at f. *)
Run(h, f, a, q) ==
  /\ f >= 1 /\ f + Len(a) + Len(q) <= Len(h) + 1
  /\ \A i \in 1..Len(a) : a[i] = h[f + i - 1]
  /\ \A i \in 1..Len(q) : q[i] = h[f + Len(a) + i - 1]
OrderOf(s) ==
  /\ Run(history, first[s], sent[s], write_msgs[s])
  /\ s \in participants =>
       first[s] + Len(sent[s]) + Len(write_msgs[s]) = Len(history) + 1
OrderOK == \A s \in Clients : OrderOf(s)

RecentOK ==
  /\ Len(recent_msgs) <= Len(history)
  /\ Len(recent_msgs) =
       IF Len(history) < max_recent_msgs THEN Len(history) ELSE max_recent_msgs
  /\ \A i \in 1..Len(recent_msgs) :
       recent_msgs[i] = history[Len(history) - Len(recent_msgs) + i]

(* The inductive invariant.  The stream has to be in it even for the types:
   that a header is where do_read_header looks for one is what makes
   read_msg_ and the relayed messages well formed. *)
IInv ==
  /\ TypeOK /\ StreamOK /\ Fresh
  /\ OrderOK /\ RecentOK /\ WriteChain /\ MembersAreRead
-----------------------------------------------------------------------------
(* What a peer sends in one go: a header, and a body that goes with it. *)
IsFrame(f) ==
  /\ f \in Seq(Units) /\ Len(f) \in 1..2
  /\ f[1].part = "header"
  /\ Len(f) = 2 => Follows(f[1], f[2])
  /\ Ends(f[Len(f)])

(* What do_write sends for a message is one frame. *)
LEMMA FrameIsFrame ==
  ASSUME NEW b \in AllBodies
  PROVE  IsFrame(Frame(Message(b)))
<1> DEFINE m == Message(b)
<1>1. m.body = b /\ m.header \in WireHeaders
  BY GoodHeader DEF Message
<1>2. HeaderUnit(m.header) \in Units
  BY <1>1 DEF HeaderUnit, Units
<1>3. CASE b = NoBody
  <2>1. Frame(m) = <<HeaderUnit(m.header)>>
    BY <1>1, <1>3 DEF Frame
  <2>2. Ends(HeaderUnit(m.header))
    BY <1>3, GoodHeader DEF Ends, HeaderUnit, body_length
  <2> QED
    BY <1>2, <2>1, <2>2 DEF IsFrame, HeaderUnit
<1>4. CASE b # NoBody
  <2>1. b \in Bodies
    BY <1>4 DEF AllBodies
  <2>2. Frame(m) = <<HeaderUnit(m.header), BodyUnit(b)>>
    BY <1>1, <1>4 DEF Frame
  <2>3. BodyUnit(b) \in Units
    BY <2>1 DEF BodyUnit, Units
  <2>4. Follows(HeaderUnit(m.header), BodyUnit(b))
    BY <2>1, GoodHeader, BodyLength DEF Follows, HeaderUnit, BodyUnit
  <2> QED
    BY <1>2, <2>2, <2>3, <2>4 DEF IsFrame, Ends, HeaderUnit, BodyUnit
<1> QED
  BY <1>3, <1>4

(* So is a header that is refused, with the body behind it. *)
LEMMA BadIsFrame ==
  ASSUME NEW h \in BadHeaders, NEW b \in Bodies
  PROVE  IsFrame(<<HeaderUnit(h), BodyUnit(b)>>)
<1>1. h \in WireHeaders
  BY DEF WireHeaders
<1>2. decoded[h].res # "ok"
  BY <1>1, DecodedType, WireAssumption
<1>3. HeaderUnit(h) \in Units /\ BodyUnit(b) \in Units
  BY <1>1 DEF HeaderUnit, BodyUnit, Units
<1> QED
  BY <1>2, <1>3 DEF IsFrame, Follows, Ends, HeaderUnit, BodyUnit
-----------------------------------------------------------------------------
(* The initial states. *)
LEMMA InitOK == Init => IInv
<1> SUFFICES ASSUME Init PROVE IInv
  OBVIOUS
<1>1. Message(NoBody).header \in WireHeaders
  BY GoodHeader DEF AllBodies
<1>2. TypeOK
  <2>1. 0 \in 0..max_body_length /\ 0 \in 0..MaxFrames
    BY MessageAssumption, ServerAssumption
  <2>2. read_msg \in [Clients -> [header : WireHeaders, body_length : 0..max_body_length]]
    BY <1>1, <2>1 DEF Init
  <2>3. \A S : <<>> \in Seq(S)
    OBVIOUS
  <2> QED
    BY <1>1, <2>1, <2>2, <2>3 DEF Init, TypeOK
<1>3. StreamOK
  BY DEF Init, StreamOK, StreamOf, AwaitsBody
<1>4. Fresh
  BY DEF Init, Fresh, FreshOf
<1>5. OrderOK
  BY DEF Init, OrderOK, OrderOf, Run
<1>6. RecentOK
  BY ServerAssumption DEF Init, RecentOK
<1>7. WriteChain /\ MembersAreRead
  BY DEF Init, WriteChain, MembersAreRead
<1> QED
  BY <1>2, <1>3, <1>4, <1>5, <1>6, <1>7 DEF IInv

(* A header is read as a header, a body as a body. *)
LEMMA HeadOf ==
  ASSUME IInv, NEW s \in Clients, up[s] # <<>>
  PROVE  /\ up[s][1] \in Units /\ Head(up[s]) = up[s][1]
         /\ rd[s] = "header" => up[s][1].val \in WireHeaders
         /\ AwaitsBody(s) => up[s][1].val \in Bodies
<1>1. up[s] \in Seq(Units)
  BY DEF IInv, TypeOK
<1>2. up[s][1] \in Units /\ Head(up[s]) = up[s][1]
  BY <1>1
<1>3. rd[s] = "header" => up[s][1].part = "header"
  BY DEF IInv, StreamOK, StreamOf, AwaitsBody, Refused
<1>4. AwaitsBody(s) => up[s][1].part = "body"
  BY DEF IInv, StreamOK, StreamOf
<1> QED
  BY <1>2, <1>3, <1>4 DEF Units

(* The message that do_read_body relays is well formed. *)
LEMMA RelayedType ==
  ASSUME IInv, NEW s \in Clients
  PROVE  /\ [header |-> read_msg[s].header, body |-> NoBody] \in Messages
         /\ AwaitsBody(s) /\ up[s] # <<>> =>
              [header |-> read_msg[s].header, body |-> Head(up[s]).val] \in Messages
<1>1. read_msg[s].header \in WireHeaders
  BY DEF IInv, TypeOK
<1> QED
  BY <1>1, HeadOf DEF Messages, AllBodies

(* do_read_body delivers a message of the right type to the room. *)
LEMMA Relays ==
  ASSUME IInv, NEW s \in Clients, ReadBody(s)
  PROVE  \E msg \in Messages : room_deliver(msg)
BY RelayedType DEF ReadBody, AwaitsBody, IInv, TypeOK

(* A relayed message keeps the types. *)
LEMMA DeliverType ==
  ASSUME TypeOK, NEW msg \in Messages, room_deliver(msg)
  PROVE  /\ recent_msgs' \in Seq(Messages) /\ history' \in Seq(Messages)
         /\ write_msgs' \in [Clients -> Seq(Messages)]
         /\ wr' \in [Clients -> BOOLEAN]
         /\ participants' \subseteq Clients /\ first' \in [Clients -> Nat]
         /\ sent' \in [Clients -> Seq(Messages)]
<1>1. history' \in Seq(Messages)
  BY DEF room_deliver, TypeOK
<1>2. recent_msgs' \in Seq(Messages)
  <2>1. Append(recent_msgs, msg) \in Seq(Messages) /\ Append(recent_msgs, msg) # <<>>
    BY DEF TypeOK
  <2>2. Tail(Append(recent_msgs, msg)) \in Seq(Messages)
    BY <2>1
  <2> QED
    BY <2>1, <2>2 DEF room_deliver, trim
<1>3. \A p \in Clients : Append(write_msgs[p], msg) \in Seq(Messages)
  BY DEF TypeOK
<1>4. write_msgs' \in [Clients -> Seq(Messages)]
  BY <1>3 DEF room_deliver, push_back, TypeOK
<1>5. wr' \in [Clients -> BOOLEAN]
  BY DEF room_deliver, TypeOK
<1> QED
  BY <1>1, <1>2, <1>4, <1>5 DEF room_deliver, TypeOK
-----------------------------------------------------------------------------
(* Types. *)
LEMMA SendType ==
  ASSUME TypeOK, NEW s \in Clients, NEW f, IsFrame(f), Send(s, f)
  PROVE  TypeOK'
<1>1. up[s] \o f \in Seq(Units)
  BY DEF TypeOK, IsFrame
<1>2. up' \in [Clients -> Seq(Units)]
  BY <1>1 DEF TypeOK, Send
<1>3. frames' \in 0..MaxFrames
  BY ServerAssumption DEF TypeOK, Send
<1> QED
  BY <1>2, <1>3 DEF TypeOK, Send, roomVars, readVars, writeVars

(* Every step keeps the types. *)
LEMMA TypeStep == IInv /\ [Next]_vars => TypeOK'
<1> SUFFICES ASSUME IInv, [Next]_vars PROVE TypeOK'
  OBVIOUS
<1>0. TypeOK
  BY DEF IInv
<1> USE DEF roomVars, readVars, writeVars, netVars
<1>1. ASSUME NEW s \in Clients, Connect(s) PROVE TypeOK'
  BY <1>0, <1>1 DEF Connect, TypeOK
<1>2. ASSUME NEW s \in Clients, PeerSend(s) PROVE TypeOK'
  BY <1>0, <1>2, SendType, FrameIsFrame DEF PeerSend
<1>3. ASSUME NEW s \in Clients, PeerSendBad(s) PROVE TypeOK'
  BY <1>0, <1>3, SendType, BadIsFrame DEF PeerSendBad
<1>4. ASSUME NEW s \in Clients, HangUp(s) PROVE TypeOK'
  <2>1. \A k \in 0..Len(up[s]) : SubSeq(up[s], 1, k) \in Seq(Units)
    BY <1>0 DEF TypeOK
  <2>2. up' \in [Clients -> Seq(Units)]
    BY <1>0, <1>4, <2>1 DEF HangUp, TypeOK
  <2> QED
    BY <1>0, <1>4, <2>2 DEF HangUp, TypeOK
<1>5. ASSUME NEW s \in Clients, Accept(s) PROVE TypeOK'
  <2>1. write_msgs[s] \o recent_msgs \in Seq(Messages)
    BY <1>0 DEF TypeOK
  <2>2. Len(history) - Len(recent_msgs) + 1 \in Nat
    BY <1>0 DEF TypeOK, IInv, RecentOK
  <2>3. /\ write_msgs' \in [Clients -> Seq(Messages)]
        /\ first' \in [Clients -> Nat]
    BY <1>0, <1>5, <2>1, <2>2 DEF Accept, join, TypeOK
  <2> QED
    BY <1>0, <1>5, <2>3 DEF Accept, join, TypeOK
<1>6. ASSUME NEW s \in Clients, AcceptError(s) PROVE TypeOK'
  BY <1>0, <1>6 DEF AcceptError, rearm, TypeOK
<1>7. ASSUME NEW s \in Clients, ReadHeader(s) PROVE TypeOK'
  <2> DEFINE h == Head(up[s]).val
  <2>1. h \in WireHeaders
    BY <1>7, HeadOf DEF ReadHeader
  <2>2. [header |-> h, body_length |-> decoded[h].body_length]
          \in [header : WireHeaders, body_length : 0..max_body_length]
    BY <2>1, DecodedType
  <2>3. Tail(up[s]) \in Seq(Units)
    BY <1>0, <1>7 DEF ReadHeader, TypeOK
  <2> HIDE DEF h
  <2>4. read_msg' = [read_msg EXCEPT ![s] =
                       [header |-> h, body_length |-> decoded[h].body_length]]
    BY <1>7 DEF ReadHeader, h
  <2>5. header_done(s, decoded[h])
    BY <1>7 DEF ReadHeader, h
  <2>6. /\ up' = [up EXCEPT ![s] = Tail(@)]
        /\ running' \in BOOLEAN
        /\ UNCHANGED <<accepting, writeVars, conn, hung, frames>>
    BY <1>7 DEF ReadHeader
  <2>7. /\ rd' \in [Clients -> {"none", "header", "body"}]
        /\ participants' \subseteq Clients
        /\ UNCHANGED <<recent_msgs, history, first>>
    BY <1>0, <2>5 DEF header_done, leave, TypeOK
  <2> QED
    BY <1>0, <2>2, <2>3, <2>4, <2>6, <2>7 DEF TypeOK
<1>8. ASSUME NEW s \in Clients, ReadBody(s) PROVE TypeOK'
  <2>1. PICK msg \in Messages : room_deliver(msg)
    BY <1>8, Relays
  <2>2. up' \in [Clients -> Seq(Units)]
    <3>1. up[s] # <<>> => Tail(up[s]) \in Seq(Units)
      BY <1>0 DEF TypeOK
    <3> QED
      BY <1>0, <1>8, <3>1 DEF ReadBody, TypeOK
  <2>3. /\ rd' \in [Clients -> {"none", "header", "body"}]
        /\ UNCHANGED <<running, accepting, read_msg, conn, hung, frames>>
    BY <1>0, <1>8 DEF ReadBody, read_next, TypeOK
  <2> QED
    BY <1>0, <2>1, <2>2, <2>3, DeliverType DEF TypeOK
<1>9. ASSUME NEW s \in Clients, ReadError(s) PROVE TypeOK'
  BY <1>0, <1>9 DEF ReadError, leave, TypeOK
<1>10. ASSUME NEW s \in Clients, WriteDone(s) PROVE TypeOK'
  <2>1. write_msgs[s] # <<>>
    BY <1>10 DEF WriteDone, IInv, WriteChain
  <2>2. /\ Head(write_msgs[s]) \in Messages
        /\ Tail(write_msgs[s]) \in Seq(Messages)
    BY <1>0, <2>1 DEF TypeOK
  <2>3. Append(sent[s], Head(write_msgs[s])) \in Seq(Messages)
    BY <1>0, <2>2 DEF TypeOK
  <2>4. /\ write_msgs' \in [Clients -> Seq(Messages)]
        /\ sent' \in [Clients -> Seq(Messages)]
        /\ wr' \in [Clients -> BOOLEAN]
    BY <1>0, <1>10, <2>2, <2>3 DEF WriteDone, write_next, TypeOK
  <2> QED
    BY <1>0, <1>10, <2>4 DEF WriteDone, TypeOK
<1>11. ASSUME NEW s \in Clients, WriteError(s) PROVE TypeOK'
  BY <1>0, <1>11 DEF WriteError, leave, TypeOK
<1>12. CASE UNCHANGED vars
  BY <1>0, <1>12 DEF vars, TypeOK
<1> QED
  BY <1>1, <1>2, <1>3, <1>4, <1>5, <1>6, <1>7, <1>8, <1>9, <1>10, <1>11, <1>12
     DEF Next
-----------------------------------------------------------------------------
(* Streams: a session whose stream, read and connection stay is as before. *)
LEMMA StreamSame ==
  ASSUME NEW p \in Clients, StreamOf(p),
         up'[p] = up[p], rd'[p] = rd[p], read_msg'[p] = read_msg[p],
         hung'[p] = hung[p], conn'[p] = conn[p]
  PROVE  StreamOf(p)'
BY DEF StreamOf, AwaitsBody, Refused, Follows, Ends

(* A peer that sends a frame keeps its stream in frames. *)
LEMMA SendStream ==
  ASSUME IInv, NEW s \in Clients, NEW f, IsFrame(f), Send(s, f)
  PROVE  StreamOK'
<1> USE DEF roomVars, readVars, writeVars, netVars
<1>1. ASSUME NEW p \in Clients, p # s PROVE StreamOf(p)'
  <2>1. /\ up'[p] = up[p] /\ rd'[p] = rd[p] /\ read_msg'[p] = read_msg[p]
        /\ hung'[p] = hung[p] /\ conn'[p] = conn[p]
    BY <1>1 DEF Send, IInv, TypeOK
  <2> QED
    BY <2>1, StreamSame DEF IInv, StreamOK
<1>2. StreamOf(s)'
  <2> DEFINE u == up[s]
             v == up'[s]
  <2>1. u \in Seq(Units) /\ f \in Seq(Units) /\ v = u \o f
    BY DEF Send, IInv, TypeOK, IsFrame
  <2>2. /\ Len(v) = Len(u) + Len(f)
        /\ \A i \in 1..Len(u) : v[i] = u[i]
        /\ \A i \in 1..Len(f) : v[Len(u) + i] = f[i]
    BY <2>1
  <2>3. /\ ~hung[s] /\ ~hung'[s]
        /\ rd' = rd /\ read_msg' = read_msg /\ conn' = conn
    BY DEF Send
  <2>4. StreamOf(s)
    BY DEF IInv, StreamOK
  <2>5. Len(u) \in Nat /\ Len(f) \in 1..2 /\ (u = <<>> <=> Len(u) = 0) /\ v # <<>>
    BY <2>1, <2>2 DEF IsFrame
  <2>6. ASSUME NEW i \in 1..(Len(v) - 1) PROVE Follows(v[i], v[i + 1])
    <3>1. CASE i < Len(u)
      <4>1. v[i] = u[i] /\ v[i + 1] = u[i + 1]
        BY <2>2, <2>5, <3>1
      <4> QED
        BY <4>1, <3>1, <2>4, <2>5 DEF StreamOf
    <3>2. CASE i = Len(u)
      <4>1. v[i] = u[Len(u)] /\ v[i + 1] = f[1]
        BY SMTT(30), <2>2, <2>5, <3>2
      <4>2. Ends(u[Len(u)])
        BY <2>3, <2>4, <2>5, <3>2 DEF StreamOf
      <4> QED
        BY <4>1, <4>2 DEF Ends, Follows, IsFrame
    <3>3. CASE i > Len(u)
      <4> HIDE DEF u, v
      <4>0. Len(f) = 2 /\ i = Len(u) + 1
        <5>1. \A j, a \in Nat, b \in 1..2 : j > a /\ j <= a + b - 1 => b = 2 /\ j = a + 1
          OBVIOUS
        <5>2. i \in Nat /\ i <= Len(u) + Len(f) - 1
          BY <2>2, <2>5
        <5> QED
          BY <2>5, <3>3, <5>1, <5>2
      <4>1. Len(f) = 2 /\ v[i] = f[1] /\ v[i + 1] = f[2]
        BY <2>2, <2>5, <4>0
      <4> QED
        BY <4>1 DEF IsFrame
    <3> QED
      BY <3>1, <3>2, <3>3, <2>5
  <2>7. v[1] = IF u = <<>> THEN f[1] ELSE u[1]
    BY <2>2, <2>5
  <2>8. v[Len(v)] = f[Len(f)]
    BY <2>2, <2>5
  <2> HIDE DEF u, v
  <2>9. /\ ~AwaitsBody(s) /\ ~Refused(s) => v[1].part = "header"
        /\ AwaitsBody(s) => v[1].part = "body" /\ size[v[1].val] = read_msg[s].body_length
    BY <2>3, <2>4, <2>7 DEF StreamOf, IsFrame, u
  <2>10. Ends(v[Len(v)])
    BY <2>8 DEF IsFrame
  <2>11. (AwaitsBody(s)' <=> AwaitsBody(s)) /\ (Refused(s)' <=> Refused(s))
    BY <2>3 DEF AwaitsBody, Refused
  <2> QED
    BY <2>3, <2>5, <2>6, <2>9, <2>10, <2>11 DEF StreamOf, Follows, Ends, u, v
<1> QED
  BY <1>1, <1>2 DEF StreamOK

(* So does every step. *)
LEMMA StreamStep == IInv /\ [Next]_vars => StreamOK'
<1> SUFFICES ASSUME IInv, [Next]_vars PROVE StreamOK'
  OBVIOUS
<1>0. TypeOK /\ \A p \in Clients : StreamOf(p)
  BY DEF IInv, StreamOK
<1> USE DEF roomVars, readVars, writeVars, netVars
<1>1. ASSUME NEW s \in Clients, Connect(s) PROVE StreamOK'
  BY SMTT(30), <1>0, <1>1 DEF Connect, TypeOK, StreamOK, StreamOf, AwaitsBody, Refused, Follows, Ends
<1>2. ASSUME NEW s \in Clients, PeerSend(s) PROVE StreamOK'
  BY <1>2, SendStream, FrameIsFrame DEF PeerSend
<1>3. ASSUME NEW s \in Clients, PeerSendBad(s) PROVE StreamOK'
  BY <1>3, SendStream, BadIsFrame DEF PeerSendBad
<1>4. ASSUME NEW s \in Clients, HangUp(s) PROVE StreamOK'
  <2>1. PICK k \in 0..Len(up[s]) : up' = [up EXCEPT ![s] = SubSeq(@, 1, k)]
    BY <1>4 DEF HangUp
  <2>2. /\ up[s] \in Seq(Units)
        /\ up'[s] = SubSeq(up[s], 1, k)
        /\ hung'[s]
        /\ UNCHANGED <<rd, read_msg, conn>>
    BY <1>0, <1>4, <2>1 DEF HangUp, TypeOK
  <2>3. /\ Len(up'[s]) = k
        /\ \A i \in 1..k : up'[s][i] = up[s][i]
        /\ up'[s] # <<>> => k >= 1 /\ up[s] # <<>>
    BY <2>2
  <2>4. StreamOf(s)'
    <3>1. ASSUME NEW i \in 1..(k - 1) PROVE Follows(up'[s][i], up'[s][i + 1])
      <4>1. up'[s][i] = up[s][i] /\ up'[s][i + 1] = up[s][i + 1]
        BY <2>3
      <4> QED
        BY <1>0, <2>2, <4>1 DEF StreamOf
    <3>2. up'[s] # <<>> => up'[s][1] = up[s][1]
      BY <2>3
    <3>3. (AwaitsBody(s)' <=> AwaitsBody(s)) /\ (Refused(s)' <=> Refused(s))
      BY <2>2 DEF AwaitsBody, Refused
    <3> QED
      BY <1>0, <2>2, <2>3, <3>1, <3>2, <3>3 DEF StreamOf, Follows
  <2>5. ASSUME NEW p \in Clients, p # s PROVE StreamOf(p)'
    <3>1. /\ up'[p] = up[p] /\ rd'[p] = rd[p] /\ read_msg'[p] = read_msg[p]
          /\ hung'[p] = hung[p] /\ conn'[p] = conn[p]
      BY <1>0, <1>4, <2>1, <2>5 DEF HangUp, TypeOK
    <3> QED
      BY <1>0, <3>1, StreamSame
  <2> QED
    BY <2>4, <2>5 DEF StreamOK
<1>5. ASSUME NEW s \in Clients, Accept(s) PROVE StreamOK'
  <2>1. /\ rd[s] = "none" /\ conn[s] # "accepted"
        /\ rd'[s] = "header"
        /\ \A p \in Clients : p # s => rd'[p] = rd[p] /\ conn'[p] = conn[p]
        /\ UNCHANGED <<read_msg, up, hung>>
    BY <1>0, <1>5 DEF Accept, IInv, Fresh, FreshOf, TypeOK
  <2>2. StreamOf(s)'
    BY <1>0, <2>1 DEF StreamOf, AwaitsBody, Refused, Follows, Ends
  <2>3. ASSUME NEW p \in Clients, p # s PROVE StreamOf(p)'
    BY <1>0, <2>1, <2>3, StreamSame
  <2> QED
    BY <2>2, <2>3 DEF StreamOK
<1>6. ASSUME NEW s \in Clients, AcceptError(s) PROVE StreamOK'
  BY SMTT(30), <1>0, <1>6 DEF AcceptError, TypeOK, StreamOK, StreamOf, AwaitsBody, Refused, Follows, Ends
<1>7. ASSUME NEW s \in Clients, ReadHeader(s) PROVE StreamOK'
  <2> DEFINE u == up[s]
             h == u[1].val
             d == decoded[h]
  <2>1. /\ u \in Seq(Units) /\ u # <<>> /\ Head(u) = u[1]
        /\ h \in WireHeaders /\ u[1].part = "header" /\ rd[s] = "header"
        /\ ~AwaitsBody(s) /\ ~Refused(s)
    BY <1>0, <1>7, HeadOf DEF ReadHeader, StreamOf, AwaitsBody, Refused, TypeOK
  <2>2. up'[s] = Tail(u) /\ \A p \in Clients : p # s => up'[p] = up[p]
    BY <1>0, <1>7 DEF ReadHeader, TypeOK
  <2>3. /\ Len(up'[s]) = Len(u) - 1 /\ Len(u) >= 1
        /\ \A i \in 1..(Len(u) - 1) : up'[s][i] = u[i + 1]
        /\ up'[s] # <<>> => Len(u) >= 2
    BY <2>1, <2>2
  <2>4. /\ read_msg'[s].body_length = d.body_length
        /\ \A p \in Clients : p # s => read_msg'[p] = read_msg[p]
        /\ hung' = hung /\ conn' = conn /\ header_done(s, d)
    BY <1>0, <1>7, <2>1 DEF ReadHeader, TypeOK
  <2>5. /\ conn[s] = "accepted"
        /\ d.body_length \in 0..max_body_length
    BY <2>1, DecodedType DEF IInv, Fresh, FreshOf
  <2>6. StreamOf(s)'
    <3>1. ASSUME NEW i \in 1..(Len(up'[s]) - 1) PROVE Follows(up'[s][i], up'[s][i + 1])
      <4>1. up'[s][i] = u[i + 1] /\ up'[s][i + 1] = u[i + 2] /\ i + 1 \in 1..(Len(u) - 1)
        BY <2>3
      <4> QED
        BY <1>0, <4>1 DEF StreamOf
    <3>2. up'[s] # <<>> => up'[s][1] = u[2] /\ Follows(u[1], u[2])
      BY <1>0, <2>3 DEF StreamOf
    <3>3. up'[s] # <<>> => up'[s][Len(up'[s])] = u[Len(u)]
      BY <2>3
    <3>4. ~hung[s] => Ends(u[Len(u)])
      BY <1>0, <2>1 DEF StreamOf
    <3>5. up'[s] = <<>> => Len(u) = 1
      BY <2>3
    <3> HIDE DEF u, h
    <3>6. CASE d.res = "ok"
      <4>1. rd'[s] = "body"
        BY <1>0, <2>4, <3>6 DEF header_done, TypeOK
      <4>2. up'[s] # <<>> /\ d.body_length = 0 => up'[s][1].part = "header"
        BY <2>1, <3>2, <3>6 DEF Follows, h
      <4>3. up'[s] # <<>> /\ d.body_length > 0 =>
              up'[s][1].part = "body" /\ size[up'[s][1].val] = d.body_length
        BY <2>1, <3>2, <3>6, MessageAssumption DEF Follows, h
      <4>4. ~hung[s] /\ d.body_length > 0 => up'[s] # <<>>
        BY <2>1, <3>4, <3>5, <3>6 DEF Ends, h
      <4> HIDE DEF d
      <4> QED
        BY SMTT(30), <2>4, <2>5, <3>1, <3>3, <3>4, <4>1, <4>2, <4>3, <4>4
           DEF StreamOf, AwaitsBody, Refused, Follows, Ends
    <3>7. CASE d.res # "ok"
      <4>1. rd'[s] = "none"
        BY <1>0, <2>4, <3>7 DEF header_done, TypeOK
      <4> HIDE DEF d
      <4> QED
        BY <2>4, <2>5, <3>1, <3>3, <3>4, <4>1
           DEF StreamOf, AwaitsBody, Refused, Follows, Ends
    <3> QED
      BY <3>6, <3>7
  <2>7. ASSUME NEW p \in Clients, p # s PROVE StreamOf(p)'
    <3>1. rd'[p] = rd[p]
      BY <1>0, <2>4, <2>7 DEF header_done, TypeOK
    <3> QED
      BY <1>0, <2>2, <2>4, <2>7, <3>1, StreamSame
  <2> QED
    BY <2>6, <2>7 DEF StreamOK
<1>8. ASSUME NEW s \in Clients, ReadBody(s) PROVE StreamOK'
  <2> DEFINE u == up[s]
  <2>1. /\ rd[s] = "body" /\ rd'[s] = "header" /\ conn[s] = "accepted"
        /\ \A p \in Clients : p # s => rd'[p] = rd[p] /\ up'[p] = up[p]
        /\ UNCHANGED <<read_msg, conn, hung>>
    BY <1>0, <1>8 DEF ReadBody, read_next, IInv, Fresh, FreshOf, TypeOK
  <2>2. ASSUME NEW p \in Clients, p # s PROVE StreamOf(p)'
    BY <1>0, <2>1, <2>2, StreamSame
  <2>3. CASE read_msg[s].body_length = 0
    <3>1. up' = up /\ ~AwaitsBody(s)
      BY <1>8, <2>3 DEF ReadBody, AwaitsBody
    <3>2. StreamOf(s)'
      BY <1>0, <2>1, <3>1 DEF StreamOf, AwaitsBody, Refused, Follows, Ends
    <3> QED
      BY <2>2, <3>2 DEF StreamOK
  <2>4. CASE read_msg[s].body_length # 0
    <3>1. u # <<>> /\ u \in Seq(Units) /\ up'[s] = Tail(u) /\ AwaitsBody(s)
      BY <1>0, <1>8, <2>4 DEF ReadBody, AwaitsBody, TypeOK
    <3>2. /\ Len(up'[s]) = Len(u) - 1 /\ Len(u) >= 1
          /\ \A i \in 1..(Len(u) - 1) : up'[s][i] = u[i + 1]
          /\ up'[s] # <<>> => Len(u) >= 2
      BY <3>1
    <3>3. ASSUME NEW i \in 1..(Len(up'[s]) - 1) PROVE Follows(up'[s][i], up'[s][i + 1])
      <4>1. up'[s][i] = u[i + 1] /\ up'[s][i + 1] = u[i + 2] /\ i + 1 \in 1..(Len(u) - 1)
        BY <3>2
      <4> QED
        BY <1>0, <4>1 DEF StreamOf
    <3>4. up'[s] # <<>> => up'[s][1] = u[2] /\ Follows(u[1], u[2])
      BY <1>0, <3>2 DEF StreamOf
    <3>5. up'[s] # <<>> => up'[s][Len(up'[s])] = u[Len(u)]
      BY <3>2
    <3>6. u[1].part = "body" /\ (~hung[s] => Ends(u[Len(u)]))
      BY <1>0, <3>1 DEF StreamOf
    <3>7. up'[s] # <<>> => up'[s][1].part = "header"
      BY <3>4, <3>6 DEF Follows
    <3> HIDE DEF u
    <3>8. StreamOf(s)'
      BY <2>1, <3>3, <3>5, <3>6, <3>7 DEF StreamOf, AwaitsBody, Refused, Follows, Ends
    <3> QED
      BY <2>2, <3>8 DEF StreamOK
  <2> QED
    BY <2>3, <2>4
<1>9. ASSUME NEW s \in Clients, ReadError(s) PROVE StreamOK'
  <2>1. /\ rd[s] # "none" /\ rd'[s] = "none" /\ conn[s] = "accepted" /\ hung[s]
        /\ \A p \in Clients : p # s => rd'[p] = rd[p]
        /\ UNCHANGED <<read_msg, up, hung, conn>>
    BY <1>0, <1>9 DEF ReadError, IInv, Fresh, FreshOf, TypeOK
  <2>2. StreamOf(s)'
    BY <1>0, <2>1 DEF StreamOf, AwaitsBody, Refused, Follows, Ends
  <2>3. ASSUME NEW p \in Clients, p # s PROVE StreamOf(p)'
    BY <1>0, <2>1, <2>3, StreamSame
  <2> QED
    BY <2>2, <2>3 DEF StreamOK
<1>10. ASSUME UNCHANGED <<up, rd, read_msg, hung, conn>> PROVE StreamOK'
  BY <1>0, <1>10, StreamSame DEF StreamOK
<1>11. ASSUME NEW s \in Clients, WriteDone(s) \/ WriteError(s) PROVE StreamOK'
  BY <1>10, <1>11 DEF WriteDone, WriteError
<1>12. CASE UNCHANGED vars
  BY <1>10, <1>12 DEF vars
<1> QED
  BY <1>1, <1>2, <1>3, <1>4, <1>5, <1>6, <1>7, <1>8, <1>9, <1>11, <1>12 DEF Next
-----------------------------------------------------------------------------
(* Sessions exist from their accept on; members are read; writes chain. *)
LEMMA FreshStep == IInv /\ [Next]_vars => Fresh'
<1> SUFFICES ASSUME IInv, [Next]_vars, NEW p \in Clients PROVE FreshOf(p)'
  BY DEF Fresh
<1>0. TypeOK /\ FreshOf(p)
  BY DEF IInv, Fresh
<1> USE <1>0 DEF FreshOf, TypeOK, roomVars, readVars, writeVars, netVars
<1>1. ASSUME NEW s \in Clients, Connect(s) \/ AcceptError(s) PROVE FreshOf(p)'
  BY <1>1 DEF Connect, AcceptError
<1>2. ASSUME NEW s \in Clients, PeerSend(s) \/ PeerSendBad(s) \/ HangUp(s)
      PROVE  FreshOf(p)'
  BY <1>2 DEF PeerSend, PeerSendBad, Send, HangUp
<1>3. ASSUME NEW s \in Clients, Accept(s) PROVE FreshOf(p)'
  BY <1>3 DEF Accept, join
<1>4. ASSUME NEW s \in Clients, ReadHeader(s) PROVE FreshOf(p)'
  <2>1. PICK d : header_done(s, d) /\ UNCHANGED <<writeVars, conn>> /\ rd[s] = "header"
    BY <1>4 DEF ReadHeader
  <2> QED
    BY <2>1 DEF header_done, leave
<1>5. ASSUME NEW s \in Clients, ReadBody(s) PROVE FreshOf(p)'
  BY <1>5, Relays DEF ReadBody, room_deliver
<1>6. ASSUME NEW s \in Clients, ReadError(s) PROVE FreshOf(p)'
  BY <1>6 DEF ReadError, leave
<1>7. ASSUME NEW s \in Clients, WriteDone(s) PROVE FreshOf(p)'
  BY <1>7 DEF WriteDone
<1>8. ASSUME NEW s \in Clients, WriteError(s) PROVE FreshOf(p)'
  BY <1>8 DEF WriteError, leave
<1>9. CASE UNCHANGED vars
  BY <1>9 DEF vars
<1> QED
  BY <1>1, <1>2, <1>3, <1>4, <1>5, <1>6, <1>7, <1>8, <1>9 DEF Next

(* Every step leaves each participant an outstanding read. *)
LEMMA ReadStep == IInv /\ [Next]_vars => MembersAreRead'
<1> SUFFICES ASSUME IInv, [Next]_vars PROVE MembersAreRead'
  OBVIOUS
<1>0. TypeOK /\ MembersAreRead
  BY DEF IInv
<1> USE <1>0 DEF MembersAreRead, TypeOK, roomVars, readVars, writeVars, netVars
<1>1. ASSUME UNCHANGED <<participants, rd>> PROVE MembersAreRead'
  BY <1>1
<1>2. ASSUME NEW s \in Clients,
             Connect(s) \/ PeerSend(s) \/ PeerSendBad(s) \/ HangUp(s) \/ AcceptError(s)
             \/ WriteDone(s)
      PROVE  MembersAreRead'
  BY <1>1, <1>2 DEF Connect, PeerSend, PeerSendBad, Send, HangUp, AcceptError, WriteDone
<1>3. ASSUME NEW s \in Clients, Accept(s) PROVE MembersAreRead'
  BY <1>3 DEF Accept, join
<1>4. ASSUME NEW s \in Clients, ReadHeader(s) PROVE MembersAreRead'
  <2>1. PICK d : header_done(s, d)
    BY <1>4 DEF ReadHeader
  <2> QED
    BY <2>1 DEF header_done, leave
<1>5. ASSUME NEW s \in Clients, ReadBody(s) PROVE MembersAreRead'
  BY <1>5 DEF ReadBody, read_next, room_deliver
<1>6. ASSUME NEW s \in Clients, ReadError(s) PROVE MembersAreRead'
  BY <1>6 DEF ReadError, leave
<1>7. ASSUME NEW s \in Clients, WriteError(s) PROVE MembersAreRead'
  BY <1>7 DEF WriteError, leave
<1>8. CASE UNCHANGED vars
  BY <1>1, <1>8 DEF vars
<1> QED
  BY <1>2, <1>3, <1>4, <1>5, <1>6, <1>7, <1>8 DEF Next

(* A queue that is pushed to is not empty. *)
LEMMA AppendNonEmpty ==
  ASSUME NEW S, NEW q \in Seq(S), NEW e \in S
  PROVE  Append(q, e) # <<>> /\ Append(q, e) \in Seq(S)
BY AppendProperties

(* Every step leaves a write outstanding wherever a queue is not empty. *)
LEMMA ChainStep == IInv /\ [Next]_vars => WriteChain'
<1> SUFFICES ASSUME IInv, [Next]_vars PROVE WriteChain'
  OBVIOUS
<1>0. TypeOK /\ WriteChain
  BY DEF IInv
<1> USE DEF roomVars, readVars, writeVars, netVars
<1>1. ASSUME UNCHANGED <<write_msgs, wr>>, participants' \subseteq participants
      PROVE  WriteChain'
  BY <1>0, <1>1 DEF WriteChain
<1>2. ASSUME NEW s \in Clients,
             Connect(s) \/ PeerSend(s) \/ PeerSendBad(s) \/ HangUp(s) \/ AcceptError(s)
             \/ ReadError(s)
      PROVE  WriteChain'
  BY <1>1, <1>2 DEF Connect, PeerSend, PeerSendBad, Send, HangUp, AcceptError, ReadError, leave
<1>3. ASSUME NEW s \in Clients, Accept(s) PROVE WriteChain'
  <2>1. write_msgs[s] = <<>> /\ ~wr[s]
    BY <1>3 DEF Accept, IInv, Fresh, FreshOf
  <2>2. write_msgs[s] \o recent_msgs = recent_msgs
    BY <1>0, <2>1 DEF TypeOK
  <2>3. write_msgs'[s] = recent_msgs /\ (wr'[s] <=> recent_msgs # <<>>)
    BY <1>0, <1>3, <2>1, <2>2 DEF Accept, join, TypeOK
  <2>4. \A p \in Clients : p # s =>
          /\ write_msgs'[p] = write_msgs[p] /\ wr'[p] = wr[p]
          /\ p \in participants' => p \in participants
    BY <1>0, <1>3 DEF Accept, join, TypeOK
  <2> QED
    BY <1>0, <2>3, <2>4 DEF WriteChain
<1>4. ASSUME NEW s \in Clients, ReadHeader(s) PROVE WriteChain'
  <2>1. PICK d : header_done(s, d) /\ UNCHANGED writeVars
    BY <1>4 DEF ReadHeader
  <2> QED
    BY <1>1, <2>1 DEF header_done, leave
<1>5. ASSUME NEW s \in Clients, ReadBody(s) PROVE WriteChain'
  <2>1. PICK msg \in Messages : room_deliver(msg)
    BY <1>5, Relays
  <2>2. \A p \in Clients : Append(write_msgs[p], msg) # <<>>
    BY <1>0, AppendNonEmpty DEF TypeOK
  <2> QED
    BY <1>0, <2>1, <2>2 DEF room_deliver, push_back, WriteChain, TypeOK
<1>6. ASSUME NEW s \in Clients, WriteDone(s) PROVE WriteChain'
  BY <1>0, <1>6 DEF WriteDone, write_next, WriteChain, TypeOK
<1>7. ASSUME NEW s \in Clients, WriteError(s) PROVE WriteChain'
  BY <1>0, <1>7 DEF WriteError, leave, WriteChain, TypeOK
<1>8. CASE UNCHANGED vars
  BY <1>1, <1>8 DEF vars
<1> QED
  BY <1>2, <1>3, <1>4, <1>5, <1>6, <1>7, <1>8 DEF Next
-----------------------------------------------------------------------------
(* The order of what a session is sent: a message is posted, posted and
   queued, written. *)
LEMMA RunGrow ==
  ASSUME NEW S, NEW h \in Seq(S), NEW a \in Seq(S), NEW q \in Seq(S), NEW f \in Nat,
         NEW m \in S, Run(h, f, a, q)
  PROVE  Run(Append(h, m), f, a, q)
<1> DEFINE g == Append(h, m)
<1>1. Len(g) = Len(h) + 1 /\ \A i \in 1..Len(h) : g[i] = h[i]
  OBVIOUS
<1>2. Len(h) \in Nat /\ Len(a) \in Nat /\ Len(q) \in Nat
  OBVIOUS
<1> HIDE DEF g
<1>3. ASSUME NEW i \in 1..Len(a) PROVE a[i] = g[f + i - 1]
  <2>1. f + i - 1 \in 1..Len(h)
    BY <1>2 DEF Run
  <2> QED
    BY <1>1, <2>1 DEF Run
<1>4. ASSUME NEW i \in 1..Len(q) PROVE q[i] = g[f + Len(a) + i - 1]
  <2>1. f + Len(a) + i - 1 \in 1..Len(h)
    BY <1>2 DEF Run
  <2> QED
    BY <1>1, <2>1 DEF Run
<1>5. f >= 1 /\ f + Len(a) + Len(q) <= Len(g) + 1
  BY <1>1, <1>2 DEF Run
<1>6. Run(g, f, a, q)
  BY <1>3, <1>4, <1>5 DEF Run
<1> QED
  BY <1>6 DEF g

(* A message that ends the history and a queue keeps the run unbroken. *)
LEMMA RunPush ==
  ASSUME NEW S, NEW h \in Seq(S), NEW a \in Seq(S), NEW q \in Seq(S), NEW f \in Nat,
         NEW m \in S, Run(h, f, a, q), f + Len(a) + Len(q) = Len(h) + 1
  PROVE  Run(Append(h, m), f, a, Append(q, m))
<1> DEFINE g == Append(h, m)
           r == Append(q, m)
<1>1. Len(g) = Len(h) + 1 /\ g[Len(h) + 1] = m
  OBVIOUS
<1>2. Len(r) = Len(q) + 1 /\ r[Len(q) + 1] = m /\ \A i \in 1..Len(q) : r[i] = q[i]
  OBVIOUS
<1>3. Len(h) \in Nat /\ Len(a) \in Nat /\ Len(q) \in Nat
  OBVIOUS
<1>4. Run(g, f, a, q)
  BY RunGrow
<1> HIDE DEF g, r
<1>5. ASSUME NEW i \in 1..Len(r) PROVE r[i] = g[f + Len(a) + i - 1]
  <2>1. CASE i = Len(q) + 1
    <3>1. f + Len(a) + i - 1 = Len(h) + 1
      BY <1>3, <2>1
    <3> QED
      BY <1>1, <1>2, <2>1, <3>1
  <2>2. CASE i # Len(q) + 1
    <3>1. i \in 1..Len(q)
      BY <1>2, <1>3, <2>2
    <3> QED
      BY <1>2, <1>4, <3>1 DEF Run
  <2> QED
    BY <2>1, <2>2
<1>6. f + Len(a) + Len(r) = Len(g) + 1
  <2> DEFINE x == Len(a)
             y == Len(q)
             z == Len(h)
  <2>1. x \in Nat /\ y \in Nat /\ z \in Nat /\ f + x + y = z + 1
    BY <1>3
  <2>2. Len(r) = y + 1 /\ Len(g) = z + 1
    BY <1>1, <1>2
  <2> HIDE DEF x, y, z
  <2>3. f + x + (y + 1) = (z + 1) + 1
    BY <2>1
  <2> QED
    BY <2>2, <2>3 DEF x
<1>7. Run(g, f, a, r)
  BY <1>3, <1>4, <1>5, <1>6 DEF Run
<1> QED
  BY <1>6, <1>7 DEF g, r

(* So does one that goes from the queue to what was sent: it is the history's next. *)
LEMMA RunServe ==
  ASSUME NEW S, NEW h \in Seq(S), NEW a \in Seq(S), NEW q \in Seq(S), NEW f \in Nat,
         Run(h, f, a, q), q # <<>>
  PROVE  /\ Run(h, f, Append(a, Head(q)), Tail(q))
         /\ Head(q) = h[f + Len(a)]
<1> DEFINE b == Append(a, Head(q))
           r == Tail(q)
<1>1. Len(h) \in Nat /\ Len(a) \in Nat /\ Len(q) \in Nat /\ Len(q) >= 1
  OBVIOUS
<1>2. Head(q) = q[1] /\ q[1] \in S
  BY <1>1
<1>3. /\ Len(b) = Len(a) + 1 /\ b[Len(a) + 1] = q[1]
      /\ \A i \in 1..Len(a) : b[i] = a[i]
  BY <1>2
<1>4. Len(r) = Len(q) - 1 /\ \A i \in 1..(Len(q) - 1) : r[i] = q[i + 1]
  BY <1>1
<1> HIDE DEF b, r
<1>5. q[1] = h[f + Len(a)]
  <2>1. q[1] = h[f + Len(a) + 1 - 1]
    BY <1>1 DEF Run
  <2> QED
    BY <1>1, <2>1
<1>6. ASSUME NEW i \in 1..Len(b) PROVE b[i] = h[f + i - 1]
  <2>1. CASE i = Len(a) + 1
    <3>1. f + i - 1 = f + Len(a)
      BY <1>1, <2>1
    <3> QED
      BY <1>3, <1>5, <2>1, <3>1
  <2>2. CASE i # Len(a) + 1
    <3>1. i \in 1..Len(a)
      BY <1>1, <1>3, <2>2
    <3> QED
      BY <1>3, <3>1 DEF Run
  <2> QED
    BY <2>1, <2>2
<1>7. ASSUME NEW i \in 1..Len(r) PROVE r[i] = h[f + Len(b) + i - 1]
  <2>1. i + 1 \in 1..Len(q) /\ f + Len(a) + (i + 1) - 1 = f + Len(b) + i - 1
    BY <1>1, <1>3, <1>4
  <2>2. q[i + 1] = h[f + Len(a) + (i + 1) - 1]
    BY <2>1 DEF Run
  <2> QED
    BY <1>4, <2>1, <2>2
<1>8. f + Len(b) + Len(r) = f + Len(a) + Len(q)
  BY <1>1, <1>3, <1>4
<1>9. Run(h, f, b, r)
  BY <1>6, <1>7, <1>8 DEF Run
<1> QED
  BY <1>2, <1>5, <1>8, <1>9 DEF b, r

(* Every step keeps every session's run unbroken. *)
LEMMA OrderStep == IInv /\ [Next]_vars => OrderOK'
<1> SUFFICES ASSUME IInv, [Next]_vars, NEW p \in Clients PROVE OrderOf(p)'
  BY DEF OrderOK
<1>0. TypeOK /\ OrderOf(p)
  BY DEF IInv, OrderOK
<1> USE DEF roomVars, readVars, writeVars, netVars
<1>1. ASSUME UNCHANGED history, sent'[p] = sent[p], write_msgs'[p] = write_msgs[p],
             first'[p] = first[p], p \in participants' => p \in participants
      PROVE  OrderOf(p)'
  BY <1>0, <1>1 DEF OrderOf
<1>2. ASSUME NEW s \in Clients,
             Connect(s) \/ PeerSend(s) \/ PeerSendBad(s) \/ HangUp(s) \/ AcceptError(s)
             \/ ReadError(s) \/ WriteError(s)
      PROVE  OrderOf(p)'
  BY <1>1, <1>2
     DEF Connect, PeerSend, PeerSendBad, Send, HangUp, AcceptError, ReadError, WriteError, leave
<1>3. ASSUME NEW s \in Clients, Accept(s) PROVE OrderOf(p)'
  <2>1. CASE p # s
    BY <1>0, <1>1, <1>3, <2>1 DEF Accept, join, TypeOK
  <2>2. CASE p = s
    <3>1. write_msgs[s] = <<>> /\ sent[s] = <<>>
      BY <1>3 DEF Accept, IInv, Fresh, FreshOf
    <3>2. write_msgs[s] \o recent_msgs = recent_msgs
      BY <1>0, <3>1 DEF TypeOK
    <3>3. /\ write_msgs'[s] = recent_msgs /\ sent'[s] = <<>> /\ history' = history
          /\ first'[s] = Len(history) - Len(recent_msgs) + 1
      BY <1>0, <1>3, <3>1, <3>2 DEF Accept, join, TypeOK
    <3>4. RecentOK /\ Len(history) \in Nat /\ Len(recent_msgs) \in Nat
      BY <1>0 DEF IInv, TypeOK
    <3> QED
      BY <2>2, <3>3, <3>4 DEF OrderOf, Run, RecentOK
  <2> QED
    BY <2>1, <2>2
<1>4. ASSUME NEW s \in Clients, ReadHeader(s) PROVE OrderOf(p)'
  <2>1. PICK d : header_done(s, d) /\ UNCHANGED writeVars
    BY <1>4 DEF ReadHeader
  <2> QED
    BY <1>1, <2>1 DEF header_done, leave
<1>5. ASSUME NEW s \in Clients, ReadBody(s) PROVE OrderOf(p)'
  <2>1. PICK msg \in Messages : room_deliver(msg)
    BY <1>5, Relays
  <2>2. /\ history \in Seq(Messages) /\ sent[p] \in Seq(Messages)
        /\ write_msgs[p] \in Seq(Messages) /\ first[p] \in Nat
    BY <1>0 DEF TypeOK
  <2>3. /\ history' = Append(history, msg)
        /\ sent'[p] = sent[p] /\ first'[p] = first[p] /\ participants' = participants
        /\ write_msgs'[p] = IF p \in participants THEN Append(write_msgs[p], msg)
                            ELSE write_msgs[p]
    BY <2>1 DEF room_deliver, push_back
  <2>4. CASE p \in participants
    <3> DEFINE q == Append(write_msgs[p], msg)
               h == Append(history, msg)
    <3>1. /\ Run(history, first[p], sent[p], write_msgs[p])
          /\ first[p] + Len(sent[p]) + Len(write_msgs[p]) = Len(history) + 1
      BY <1>0, <2>4 DEF OrderOf
    <3>0. Run(h, first[p], sent[p], q)
      BY <2>2, <3>1, RunPush
    <3>2. /\ Run(h, first[p], sent[p], q)
          /\ first[p] + Len(sent[p]) + Len(q) = Len(h) + 1
      <4>1. Len(q) = Len(write_msgs[p]) + 1 /\ Len(h) = Len(history) + 1
        BY <2>2
      <4> DEFINE f == first[p]
                 x == Len(sent[p])
                 y == Len(write_msgs[p])
                 z == Len(history)
      <4>2. f \in Nat /\ x \in Nat /\ y \in Nat /\ z \in Nat /\ f + x + y = z + 1
        BY <2>2, <3>1
      <4> HIDE DEF f, x, y, z
      <4>3. f + x + (y + 1) = (z + 1) + 1
        BY <4>2
      <4>4. first[p] + Len(sent[p]) + (Len(write_msgs[p]) + 1) = (Len(history) + 1) + 1
        BY <4>3 DEF f, x, y, z
      <4> HIDE DEF q, h
      <4> QED
        BY <3>0, <4>1, <4>4
    <3> QED
      BY <2>3, <2>4, <3>2 DEF OrderOf
  <2>5. CASE p \notin participants
    BY <1>0, <2>2, <2>3, <2>5, RunGrow DEF OrderOf
  <2> QED
    BY <2>4, <2>5
<1>6. ASSUME NEW s \in Clients, WriteDone(s) PROVE OrderOf(p)'
  <2>1. CASE p # s
    BY <1>0, <1>1, <1>6, <2>1 DEF WriteDone, TypeOK
  <2>2. CASE p = s
    <3>1. /\ write_msgs[p] # <<>> /\ write_msgs[p] \in Seq(Messages)
          /\ sent[p] \in Seq(Messages) /\ first[p] \in Nat /\ history \in Seq(Messages)
      BY <1>0, <1>6, <2>2 DEF WriteDone, IInv, WriteChain, TypeOK
    <3>2. /\ sent'[p] = Append(sent[p], Head(write_msgs[p]))
          /\ write_msgs'[p] = Tail(write_msgs[p])
          /\ UNCHANGED <<history, first, participants>>
      BY <1>0, <1>6, <2>2 DEF WriteDone, TypeOK
    <3> DEFINE a == Append(sent[p], Head(write_msgs[p]))
               q == Tail(write_msgs[p])
    <3>3. Run(history, first[p], sent[p], write_msgs[p])
      BY <1>0 DEF OrderOf
    <3>0. Run(history, first[p], a, q)
      BY <3>1, <3>3, RunServe
    <3>4. /\ Run(history, first[p], a, q)
          /\ first[p] + Len(a) + Len(q) = first[p] + Len(sent[p]) + Len(write_msgs[p])
      <4>1. /\ Len(a) = Len(sent[p]) + 1 /\ Len(q) = Len(write_msgs[p]) - 1
            /\ Len(write_msgs[p]) \in Nat /\ Len(sent[p]) \in Nat
        BY <3>1
      <4>2. \A f, x, y \in Nat : f + (x + 1) + (y - 1) = f + x + y
        OBVIOUS
      <4>3. first[p] + (Len(sent[p]) + 1) + (Len(write_msgs[p]) - 1)
              = first[p] + Len(sent[p]) + Len(write_msgs[p])
        BY <3>1, <4>1, <4>2
      <4> HIDE DEF a, q
      <4> QED
        BY <3>0, <4>1, <4>3
    <3>5. p \in participants =>
            first[p] + Len(sent[p]) + Len(write_msgs[p]) = Len(history) + 1
      BY <1>0 DEF OrderOf
    <3> QED
      BY <3>2, <3>4, <3>5 DEF OrderOf
  <2> QED
    BY <2>1, <2>2
<1>7. CASE UNCHANGED vars
  BY <1>1, <1>7 DEF vars
<1> QED
  BY <1>2, <1>3, <1>4, <1>5, <1>6, <1>7 DEF Next

(* Every step keeps the recent messages the last of the history. *)
LEMMA RecentStep == IInv /\ [Next]_vars => RecentOK'
<1> SUFFICES ASSUME IInv, [Next]_vars PROVE RecentOK'
  OBVIOUS
<1>0. TypeOK /\ RecentOK
  BY DEF IInv
<1> USE DEF roomVars, readVars, writeVars, netVars
<1>1. ASSUME UNCHANGED <<recent_msgs, history>> PROVE RecentOK'
  BY <1>0, <1>1 DEF RecentOK
<1>2. ASSUME NEW s \in Clients,
             Connect(s) \/ PeerSend(s) \/ PeerSendBad(s) \/ HangUp(s) \/ AcceptError(s)
             \/ Accept(s) \/ ReadError(s) \/ WriteDone(s) \/ WriteError(s)
      PROVE  RecentOK'
  BY <1>1, <1>2 DEF Connect, PeerSend, PeerSendBad, Send, HangUp, AcceptError,
                    Accept, join, ReadError, WriteDone, WriteError, leave
<1>3. ASSUME NEW s \in Clients, ReadHeader(s) PROVE RecentOK'
  <2>1. PICK d : header_done(s, d)
    BY <1>3 DEF ReadHeader
  <2> QED
    BY <1>1, <2>1 DEF header_done, leave
<1>4. ASSUME NEW s \in Clients, ReadBody(s) PROVE RecentOK'
  <2>1. PICK msg \in Messages : room_deliver(msg)
    BY <1>4, Relays
  <2> DEFINE r == Append(recent_msgs, msg)
             n == Len(history)
             m == Len(recent_msgs)
  <2>2. /\ history \in Seq(Messages) /\ recent_msgs \in Seq(Messages)
        /\ n \in Nat /\ m \in Nat /\ max_recent_msgs \in Nat
    BY <1>0, ServerAssumption DEF TypeOK
  <2>3. /\ Len(history') = n + 1 /\ history'[n + 1] = msg
        /\ \A i \in 1..n : history'[i] = history[i]
    BY <2>1, <2>2 DEF room_deliver
  <2>4. /\ r \in Seq(Messages) /\ Len(r) = m + 1 /\ r[m + 1] = msg
        /\ \A i \in 1..m : r[i] = recent_msgs[i]
    BY <2>2
  <2>5. \A i \in 1..(m + 1) : r[i] = history'[n - m + i]
    <3>1. m <= n
      BY <1>0 DEF RecentOK
    <3>2. ASSUME NEW i \in 1..m PROVE r[i] = history'[n - m + i]
      <4>1. n - m + i \in 1..n
        BY <2>2, <3>1
      <4> QED
        BY <1>0, <2>3, <2>4, <4>1 DEF RecentOK
    <3> QED
      BY <2>2, <2>3, <2>4, <3>1, <3>2
  <2>6. recent_msgs' = IF m + 1 > max_recent_msgs THEN Tail(r) ELSE r
    BY <2>1, <2>4 DEF room_deliver, trim
  <2> HIDE DEF r
  <2>7. CASE m + 1 > max_recent_msgs
    <3>1. m = max_recent_msgs /\ n >= max_recent_msgs
      BY <1>0, <2>2, <2>7 DEF RecentOK
    <3>2. recent_msgs' = Tail(r)
      BY <2>6, <2>7
    <3>3. Len(recent_msgs') = m /\ \A i \in 1..m : recent_msgs'[i] = r[i + 1]
      BY <2>2, <2>4, <3>2
    <3>4. \A i \in 1..m : recent_msgs'[i] = history'[n + 1 - m + i]
      <4>1. ASSUME NEW i \in 1..m PROVE recent_msgs'[i] = history'[n + 1 - m + i]
        <5>1. r[i + 1] = history'[n - m + (i + 1)]
          BY <2>2, <2>5
        <5> QED
          BY <2>2, <3>3, <5>1
      <4> QED
        BY <4>1
    <3> QED
      BY <2>2, <2>3, <3>1, <3>3, <3>4 DEF RecentOK
  <2>8. CASE ~(m + 1 > max_recent_msgs)
    <3>1. m = n /\ recent_msgs' = r
      BY <1>0, <2>2, <2>6, <2>8 DEF RecentOK
    <3>2. \A i \in 1..(m + 1) : r[i] = history'[(n + 1) - (m + 1) + i]
      BY <2>2, <2>5, <3>1
    <3> QED
      BY <2>2, <2>3, <2>4, <2>8, <3>1, <3>2 DEF RecentOK
  <2> QED
    BY <2>7, <2>8
<1>5. CASE UNCHANGED vars
  BY <1>1, <1>5 DEF vars
<1> QED
  BY <1>2, <1>3, <1>4, <1>5 DEF Next
-----------------------------------------------------------------------------
(* The invariant holds, and the properties of the runs follow from it. *)
LEMMA Inductive == IInv /\ [Next]_vars => IInv'
BY TypeStep, StreamStep, FreshStep, ReadStep, ChainStep, OrderStep, RecentStep DEF IInv

(* The inductive invariant holds in every reachable state. *)
LEMMA Invariant == Spec => []IInv
<1>1. Init => IInv
  BY InitOK
<1>2. IInv /\ [Next]_vars => IInv'
  BY Inductive
<1> QED
  BY <1>1, <1>2, PTL DEF Spec

(* Every variable keeps its type: in particular every length given to
   do_read_body fits the buffer. *)
THEOREM TypeCorrect == Spec => []TypeOK
<1>1. IInv => TypeOK
  BY DEF IInv
<1> QED
  BY <1>1, Invariant, PTL

(* A run, element by element, is a SubSeq of the history. *)
LEMMA RunIsSubSeq ==
  ASSUME NEW S, NEW h \in Seq(S), NEW a \in Seq(S), NEW q \in Seq(S), NEW f \in Nat,
         Run(h, f, a, q)
  PROVE  a \o q = SubSeq(h, f, f + Len(a \o q) - 1)
<1> DEFINE c == a \o q
           g == SubSeq(h, f, f + Len(c) - 1)
<1>1. /\ c \in Seq(S) /\ Len(c) = Len(a) + Len(q)
      /\ \A i \in 1..Len(a) : c[i] = a[i]
      /\ \A i \in 1..Len(q) : c[Len(a) + i] = q[i]
  OBVIOUS
<1>2. Len(h) \in Nat /\ Len(a) \in Nat /\ Len(q) \in Nat /\ Len(c) \in Nat
  BY <1>1
<1>3. f >= 1 /\ f + Len(c) - 1 <= Len(h)
  BY <1>1, <1>2 DEF Run
<1>4. g \in Seq(S) /\ Len(g) = Len(c) /\ \A i \in 1..Len(c) : g[i] = h[f + i - 1]
  <2>1. f \in 1..(Len(h) + 1) /\ f + Len(c) - 1 \in (f - 1)..Len(h)
    BY <1>2, <1>3
  <2> HIDE DEF c
  <2> QED
    BY <1>2, <2>1, SubSeqProperties
<1>5. ASSUME NEW i \in 1..Len(c) PROVE c[i] = h[f + i - 1]
  <2>1. CASE i <= Len(a)
    BY <1>1, <1>2, <2>1 DEF Run
  <2>2. CASE i > Len(a)
    <3>1. i - Len(a) \in 1..Len(q) /\ Len(a) + (i - Len(a)) = i
          /\ f + Len(a) + (i - Len(a)) - 1 = f + i - 1
      BY <1>1, <1>2, <2>2
    <3>2. q[i - Len(a)] = h[f + Len(a) + (i - Len(a)) - 1]
      BY <3>1 DEF Run
    <3> QED
      BY <1>1, <3>1, <3>2
  <2> QED
    BY <1>2, <2>1, <2>2
<1> HIDE DEF c, g
<1>6. c = g
  BY <1>1, <1>4, <1>5, SeqEqual
<1> QED
  BY <1>6 DEF c, g

(* What a session is sent is an unbroken run of the room's messages in the
   room's order, up to the newest for a member. *)
THEOREM Ordered == Spec => []InOrder
<1>1. IInv => InOrder
  <2> SUFFICES ASSUME IInv, NEW s \in Clients
               PROVE  LET all == sent[s] \o write_msgs[s]
                      IN  /\ all = SubSeq(history, first[s], first[s] + Len(all) - 1)
                          /\ s \in participants => first[s] + Len(all) - 1 = Len(history)
    BY DEF InOrder
  <2>1. /\ history \in Seq(Messages) /\ sent[s] \in Seq(Messages)
        /\ write_msgs[s] \in Seq(Messages) /\ first[s] \in Nat
    BY DEF IInv, TypeOK
  <2>2. Run(history, first[s], sent[s], write_msgs[s])
    BY DEF IInv, OrderOK, OrderOf
  <2>3. sent[s] \o write_msgs[s]
          = SubSeq(history, first[s], first[s] + Len(sent[s] \o write_msgs[s]) - 1)
    BY <2>1, <2>2, RunIsSubSeq
  <2>4. Len(sent[s] \o write_msgs[s]) = Len(sent[s]) + Len(write_msgs[s])
    BY <2>1
  <2>5. s \in participants =>
          first[s] + Len(sent[s]) + Len(write_msgs[s]) = Len(history) + 1
    BY DEF IInv, OrderOK, OrderOf
  <2>6. /\ Len(sent[s]) \in Nat /\ Len(write_msgs[s]) \in Nat
        /\ Len(history) \in Nat /\ first[s] \in Nat
    BY <2>1
  <2>7. s \in participants =>
          first[s] + Len(sent[s] \o write_msgs[s]) - 1 = Len(history)
    <3> DEFINE f == first[s]
               x == Len(sent[s])
               y == Len(write_msgs[s])
               z == Len(history)
               n == Len(sent[s] \o write_msgs[s])
    <3>1. /\ f \in Nat /\ x \in Nat /\ y \in Nat /\ z \in Nat /\ n = x + y
          /\ s \in participants => f + x + y = z + 1
      BY <2>4, <2>5, <2>6
    <3> HIDE DEF f, x, y, z, n
    <3>2. s \in participants => f + n - 1 = z
      BY <3>1
    <3> QED
      BY <3>2 DEF f, n, z
  <2> QED
    BY <2>3, <2>7
<1> QED
  BY <1>1, Invariant, PTL

(* The replay buffer is the newest part of the history. *)
THEOREM RecentSuffix == Spec => []RecentIsSuffix
<1>1. IInv => RecentIsSuffix
  <2> SUFFICES ASSUME IInv PROVE RecentIsSuffix
    OBVIOUS
  <2> DEFINE n == Len(history)
             m == Len(recent_msgs)
             g == SubSeq(history, n - m + 1, n)
  <2>1. /\ history \in Seq(Messages) /\ recent_msgs \in Seq(Messages)
        /\ n \in Nat /\ m \in Nat
    BY DEF IInv, TypeOK
  <2>2. /\ m <= n /\ m = IF n < max_recent_msgs THEN n ELSE max_recent_msgs
        /\ \A i \in 1..m : recent_msgs[i] = history[n - m + i]
    BY DEF IInv, RecentOK
  <2>3. g \in Seq(Messages) /\ Len(g) = m /\ \A i \in 1..m : g[i] = history[n - m + i]
    <3>1. n - m + 1 \in 1..(n + 1) /\ n \in (n - m + 1 - 1)..n
      BY <2>1, <2>2
    <3>2. /\ g \in Seq(Messages)
          /\ Len(g) = n - (n - m + 1) + 1
          /\ \A i \in 1..(n - (n - m + 1) + 1) : g[i] = history[(n - m + 1) + i - 1]
      BY <2>1, <3>1, SubSeqProperties
    <3>3. n - (n - m + 1) + 1 = m /\ \A i \in 1..m : (n - m + 1) + i - 1 = n - m + i
      BY <2>1
    <3> QED
      BY <3>2, <3>3
  <2>4. recent_msgs = g
    BY <2>1, <2>2, <2>3, SeqEqual
  <2> QED
    BY <2>2, <2>4 DEF RecentIsSuffix
<1> QED
  BY <1>1, Invariant, PTL

(* One write at a time, and one as long as a member's queue is not empty. *)
THEOREM Chained == Spec => []WriteChain
<1>1. IInv => WriteChain
  BY DEF IInv
<1> QED
  BY <1>1, Invariant, PTL

(* Every member is being read. *)
THEOREM Watched == Spec => []MembersAreRead
<1>1. IInv => MembersAreRead
  BY DEF IInv
<1> QED
  BY <1>1, Invariant, PTL

(* Headers are read as headers and bodies as bodies. *)
THEOREM Framed == Spec => []Framing
<1>1. IInv => Framing
  <2> SUFFICES ASSUME IInv, NEW s \in Clients, up[s] # <<>>
               PROVE  /\ rd[s] = "header" => Head(up[s]).part = "header"
                      /\ rd[s] = "body" /\ read_msg[s].body_length > 0 =>
                           /\ Head(up[s]).part = "body"
                           /\ size[Head(up[s]).val] = read_msg[s].body_length
    BY DEF Framing
  <2>1. Head(up[s]) = up[s][1]
    BY HeadOf
  <2>2. StreamOf(s)
    BY DEF IInv, StreamOK
  <2> QED
    BY <2>1, <2>2 DEF StreamOf, AwaitsBody, Refused
<1> QED
  BY <1>1, Invariant, PTL

(* The front of the deque stays put under an outstanding write. *)
THEOREM BufferStable == Spec => FrontStable
<1> DEFINE Stable == \A s \in Clients : wr[s] /\ wr'[s] /\ sent'[s] = sent[s] =>
                       Head(write_msgs'[s]) = Head(write_msgs[s])
<1>1. IInv /\ [Next]_vars => [Stable]_vars
  <2> SUFFICES ASSUME IInv, Next, NEW p \in Clients,
                      wr[p], wr'[p], sent'[p] = sent[p]
               PROVE  Head(write_msgs'[p]) = Head(write_msgs[p])
    OBVIOUS
  <2>0. TypeOK /\ write_msgs[p] # <<>> /\ write_msgs[p] \in Seq(Messages)
    BY DEF IInv, WriteChain, TypeOK
  <2> USE DEF roomVars, readVars, writeVars, netVars
  <2>1. ASSUME write_msgs'[p] = write_msgs[p]
        PROVE  Head(write_msgs'[p]) = Head(write_msgs[p])
    BY <2>1
  <2>2. ASSUME NEW s \in Clients,
               Connect(s) \/ PeerSend(s) \/ PeerSendBad(s) \/ HangUp(s) \/ AcceptError(s)
               \/ ReadHeader(s) \/ ReadError(s) \/ WriteError(s)
        PROVE  write_msgs'[p] = write_msgs[p]
    BY <2>2 DEF Connect, PeerSend, PeerSendBad, Send, HangUp, AcceptError, ReadHeader,
                ReadError, WriteError
  <2>3. ASSUME NEW s \in Clients, Accept(s) PROVE write_msgs'[p] = write_msgs[p]
    <3>1. p # s
      BY <2>3 DEF Accept, IInv, Fresh, FreshOf
    <3> QED
      BY <2>0, <2>3, <3>1 DEF Accept, join, TypeOK
  <2>4. ASSUME NEW s \in Clients, ReadBody(s)
        PROVE  Head(write_msgs'[p]) = Head(write_msgs[p])
    <3>1. PICK msg \in Messages : room_deliver(msg)
      BY <2>4, Relays
    <3>2. Head(Append(write_msgs[p], msg)) = Head(write_msgs[p])
      BY <2>0
    <3> QED
      BY <3>1, <3>2 DEF room_deliver, push_back
  <2>5. ASSUME NEW s \in Clients, WriteDone(s) PROVE write_msgs'[p] = write_msgs[p]
    <3>1. Append(sent[p], Head(write_msgs[p])) # sent[p]
      <4>1. sent[p] \in Seq(Messages) /\ Head(write_msgs[p]) \in Messages
        BY <2>0 DEF TypeOK
      <4>2. Len(Append(sent[p], Head(write_msgs[p]))) = Len(sent[p]) + 1
        BY <4>1
      <4>3. Len(sent[p]) \in Nat
        BY <4>1
      <4> QED
        BY <4>2, <4>3
    <3>2. p # s
      BY <2>0, <2>5, <3>1 DEF WriteDone, TypeOK
    <3> QED
      BY <2>0, <2>5, <3>2 DEF WriteDone, TypeOK
  <2> QED
    BY <2>1, <2>2, <2>3, <2>4, <2>5 DEF Next
<1>2. Spec => [][Stable]_vars
  BY <1>1, Invariant, PTL DEF Spec
<1> QED
  BY <1>2 DEF FrontStable
-----------------------------------------------------------------------------
(* The refinement of ChatRoom. *)
LEMMA RoomInit == Init => Room!Init
BY DEF Init, Room!Init, Joined, Owed

(* A step that leaves the room's state alone maps to a stutter. *)
LEMMA RoomSame ==
  ASSUME UNCHANGED <<history, participants, first, sent, write_msgs>>, Joined' = Joined
  PROVE  UNCHANGED Room!vars
BY DEF Room!vars, Owed

(* leave is Leave of the abstract room, or leaves it alone. *)
LEMMA RoomLeave ==
  ASSUME TypeOK, NEW s \in Clients, leave(s),
         UNCHANGED <<sent, write_msgs, conn>>
  PROVE  [Room!Next]_(Room!vars)
<1>1. Joined' = Joined /\ Owed' = Owed
  BY DEF leave, Joined, Owed
<1>2. CASE s \in participants
  <2>1. Room!Leave(s)
    BY <1>1, <1>2 DEF leave, Room!Leave
  <2> QED
    BY <2>1 DEF Room!Next
<1>3. CASE s \notin participants
  <2>1. participants' = participants
    BY <1>3 DEF leave
  <2> QED
    BY <1>1, <2>1, RoomSame DEF leave
<1> QED
  BY <1>2, <1>3

(* Every step of the server is a step of the abstract room or a stutter. *)
LEMMA RoomStep == IInv /\ [Next]_vars => [Room!Next]_(Room!vars)
<1> SUFFICES ASSUME IInv, [Next]_vars PROVE [Room!Next]_(Room!vars)
  OBVIOUS
<1>0. TypeOK
  BY DEF IInv
<1> USE DEF roomVars, readVars, writeVars, netVars
<1>1. ASSUME NEW s \in Clients, Connect(s) \/ AcceptError(s) PROVE [Room!Next]_(Room!vars)
  <2>1. Joined' = Joined
    BY <1>0, <1>1 DEF Connect, AcceptError, Joined, TypeOK
  <2> QED
    BY <1>1, <2>1, RoomSame DEF Connect, AcceptError
<1>2. ASSUME NEW s \in Clients, PeerSend(s) \/ PeerSendBad(s) \/ HangUp(s)
      PROVE  [Room!Next]_(Room!vars)
  <2>1. Joined' = Joined
    BY <1>2 DEF PeerSend, PeerSendBad, Send, HangUp, Joined
  <2> QED
    BY <1>2, <2>1, RoomSame DEF PeerSend, PeerSendBad, Send, HangUp
<1>3. ASSUME NEW s \in Clients, Accept(s) PROVE [Room!Next]_(Room!vars)
  <2> DEFINE n == Len(history)
             m == Len(recent_msgs)
  <2>1. /\ write_msgs[s] = <<>> /\ sent[s] = <<>> /\ s \notin Joined
        /\ Joined' = Joined \cup {s}
    BY <1>0, <1>3 DEF Accept, IInv, Fresh, FreshOf, Joined, TypeOK
  <2>2. write_msgs[s] \o recent_msgs = recent_msgs
    BY <1>0, <2>1 DEF TypeOK
  <2>3. /\ n \in Nat /\ m \in Nat /\ max_recent_msgs \in Nat
        /\ m = IF n < max_recent_msgs THEN n ELSE max_recent_msgs
    BY <1>0, ServerAssumption DEF IInv, RecentOK, TypeOK
  <2>4. n - m + 1 = IF n > max_recent_msgs THEN n - max_recent_msgs + 1 ELSE 1
    <3> HIDE DEF n, m
    <3>1. CASE n < max_recent_msgs
      BY <2>3, <3>1
    <3>2. CASE n >= max_recent_msgs
      BY <2>3, <3>2
    <3> QED
      BY <2>3, <3>1, <3>2
  <2>5. first' = [first EXCEPT ![s] =
                    IF n > max_recent_msgs THEN n - max_recent_msgs + 1 ELSE 1]
    BY <1>3, <2>4 DEF Accept, join
  <2>6. Owed' = [Owed EXCEPT ![s] = n]
    <3>1. /\ first'[s] = n - m + 1 /\ Len(sent'[s]) = 0 /\ Len(write_msgs'[s]) = m
      BY <1>0, <1>3, <2>1, <2>2 DEF Accept, join, TypeOK
    <3>2. (n - m + 1) + 0 + m - 1 = n
      BY <2>3
    <3>3. Owed'[s] = n
      BY <3>1, <3>2 DEF Owed
    <3>4. \A p \in Clients : p # s => Owed'[p] = Owed[p]
      BY <1>0, <1>3 DEF Accept, join, Owed, TypeOK
    <3> QED
      BY <3>3, <3>4 DEF Owed
  <2>7. Room!Join(s)
    BY <1>3, <2>1, <2>5, <2>6 DEF Accept, join, Room!Join
  <2> QED
    BY <2>7 DEF Room!Next
<1>4. ASSUME NEW s \in Clients, ReadHeader(s) PROVE [Room!Next]_(Room!vars)
  <2>1. PICK d : header_done(s, d) /\ UNCHANGED <<sent, write_msgs, conn>>
    BY <1>4 DEF ReadHeader
  <2>2. CASE leave(s)
    BY <1>0, <2>1, <2>2, RoomLeave
  <2>3. CASE UNCHANGED roomVars
    <3>1. Joined' = Joined
      BY <2>1 DEF Joined
    <3> QED
      BY <2>1, <2>3, <3>1, RoomSame
  <2> QED
    BY <2>1, <2>2, <2>3 DEF header_done
<1>5. ASSUME NEW s \in Clients, ReadBody(s) PROVE [Room!Next]_(Room!vars)
  <2>1. PICK msg \in Messages : room_deliver(msg)
    BY <1>5, Relays
  <2>2. s \in Joined /\ Joined' = Joined
    BY <1>5 DEF ReadBody, IInv, Fresh, FreshOf, Joined
  <2>3. Owed' = [p \in Clients |-> IF p \in participants THEN Len(history) + 1 ELSE Owed[p]]
    <3>1. ASSUME NEW p \in Clients, p \in participants PROVE Owed'[p] = Len(history) + 1
      <4> DEFINE f == first[p]
                 x == Len(sent[p])
                 y == Len(write_msgs[p])
                 z == Len(history)
      <4>1. f \in Nat /\ x \in Nat /\ y \in Nat /\ z \in Nat
        BY <1>0 DEF TypeOK
      <4>2. f + x + y = z + 1
        BY <3>1 DEF IInv, OrderOK, OrderOf
      <4>3. Len(write_msgs'[p]) = y + 1
        <5>1. write_msgs'[p] = Append(write_msgs[p], msg)
          BY <2>1, <3>1 DEF room_deliver, push_back
        <5>2. write_msgs[p] \in Seq(Messages)
          BY <1>0 DEF TypeOK
        <5> QED
          BY <5>1, <5>2
      <4>4. Owed'[p] = f + x + (y + 1) - 1
        BY <2>1, <4>3 DEF Owed, room_deliver
      <4> HIDE DEF f, x, y, z
      <4>5. f + x + (y + 1) - 1 = z + 1
        BY <4>1, <4>2
      <4> QED
        BY <4>4, <4>5 DEF z
    <3>2. ASSUME NEW p \in Clients, p \notin participants PROVE Owed'[p] = Owed[p]
      BY <2>1, <3>2 DEF Owed, room_deliver
    <3> QED
      BY <3>1, <3>2 DEF Owed
  <2>4. Room!Post(msg)
    BY <2>1, <2>2, <2>3 DEF room_deliver, Room!Post
  <2> QED
    BY <2>4 DEF Room!Next
<1>6. ASSUME NEW s \in Clients, ReadError(s) \/ WriteError(s) PROVE [Room!Next]_(Room!vars)
  BY <1>0, <1>6, RoomLeave DEF ReadError, WriteError
<1>7. ASSUME NEW s \in Clients, WriteDone(s) PROVE [Room!Next]_(Room!vars)
  <2> DEFINE f == first[s]
             x == Len(sent[s])
             y == Len(write_msgs[s])
             z == Len(history)
  <2>1. /\ write_msgs[s] # <<>> /\ write_msgs[s] \in Seq(Messages)
        /\ sent[s] \in Seq(Messages) /\ history \in Seq(Messages) /\ first[s] \in Nat
    BY <1>0, <1>7 DEF WriteDone, IInv, WriteChain, TypeOK
  <2>2. f \in Nat /\ x \in Nat /\ y \in Nat /\ z \in Nat /\ y >= 1
    BY <2>1
  <2>3. Run(history, first[s], sent[s], write_msgs[s])
    BY DEF IInv, OrderOK, OrderOf
  <2>4. Head(write_msgs[s]) = history[first[s] + Len(sent[s])]
    BY <2>1, <2>3, RunServe
  <2>5. /\ Len(sent'[s]) = x + 1 /\ Len(write_msgs'[s]) = y - 1
        /\ first' = first /\ \A p \in Clients : p # s =>
              sent'[p] = sent[p] /\ write_msgs'[p] = write_msgs[p]
    <3>1. /\ Len(Append(sent[s], Head(write_msgs[s]))) = x + 1
          /\ Len(Tail(write_msgs[s])) = y - 1
      BY <2>1
    <3> QED
      BY <1>0, <1>7, <3>1 DEF WriteDone, TypeOK
  <2>6. Owed' = Owed
    <3>1. Owed'[s] = f + (x + 1) + (y - 1) - 1 /\ Owed[s] = f + x + y - 1
      BY <2>5 DEF Owed
    <3>2. \A p \in Clients : p # s => Owed'[p] = Owed[p]
      BY <2>5 DEF Owed
    <3> HIDE DEF f, x, y
    <3>3. f + (x + 1) + (y - 1) - 1 = f + x + y - 1
      BY <2>2
    <3>4. Owed'[s] = Owed[s]
      BY <3>1, <3>3
    <3> QED
      BY <3>2, <3>4 DEF Owed
  <2>7. first[s] + Len(sent[s]) <= Owed[s]
    <3>1. Owed[s] = f + x + y - 1
      BY DEF Owed
    <3> HIDE DEF f, x, y
    <3>2. f + x <= f + x + y - 1
      BY <2>2
    <3> QED
      BY <3>1, <3>2 DEF f, x
  <2>8. sent' = [sent EXCEPT ![s] = Append(@, history[first[s] + Len(@)])]
    BY <1>7, <2>4 DEF WriteDone
  <2>9. Joined' = Joined
    BY <1>7 DEF WriteDone, Joined
  <2>10. Room!Get(s)
    BY <1>7, <2>6, <2>7, <2>8, <2>9 DEF WriteDone, Room!Get
  <2> QED
    BY <2>10 DEF Room!Next
<1>8. CASE UNCHANGED vars
  <2>1. Joined' = Joined
    BY <1>8 DEF vars, Joined
  <2> QED
    BY <1>8, <2>1, RoomSame DEF vars
<1> QED
  BY <1>1, <1>2, <1>3, <1>4, <1>5, <1>6, <1>7, <1>8 DEF Next

(* The server implements the room: its sessions, queues and handlers are
   one way to give every member its part of one log. *)
THEOREM Refinement == Spec => ImplementsRoom
<1>1. Init => Room!Init
  BY RoomInit
<1>2. IInv /\ [Next]_vars => [Room!Next]_(Room!vars)
  BY RoomStep
<1>3. Spec => Room!Spec
  BY <1>1, <1>2, Invariant, PTL DEF Spec, Room!Spec
<1> QED
  BY <1>3 DEF ImplementsRoom
=============================================================================
