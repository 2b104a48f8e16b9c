----------------------------- MODULE ChatClient ------------------------------
(***************************************************************************)
(* The chat client (MyChat/MyTCPChatCli01.cpp).  A client is two threads:  *)
(* main reads lines and posts work, the io thread runs io_context.run(),   *)
(* which executes posted work and completion handlers one at a time and    *)
(* returns, for good, when there is neither left.  A write is two steps,   *)
(* the bytes leaving and the handler running, because close() may come     *)
(* between them; a completed read counts as handled.                       *)
(* The server here may send anything a server sends and go away at any     *)
(* time; ChatSystem puts the repository's server in its place.             *)
(***************************************************************************)
EXTENDS ChatWire

CONSTANTS
  Clients,  \* the client processes
  Input,    \* the lines that users type
  MaxLines, \* bound: lines typed at each client
  MaxServed \* bound: messages the server sends to one client

ASSUME ClientAssumption ==
  /\ Input \subseteq AllBodies
  /\ MaxLines \in [Clients -> Nat]
  /\ MaxServed \in Nat

VARIABLES
  main,       \* the main thread: in the getline loop, in t.join(), gone
  io,         \* the io thread: in io_context.run() or returned from it
  posted,     \* posted and not yet run: messages to write, or Close
  cn,         \* async_connect: "pending", "ok" or "failed" until its handler ran
  sock,       \* socket_: "open" and not connected, "connected", "closed"
  rd,         \* the async_read outstanding
  read_msg,   \* chat_client::read_msg_, as far as its length
  write_msgs, \* chat_client::write_msgs_
  wr,         \* async_write of the front: "pending", "sent" or "failed"
  down,       \* what the server has sent and the client has not read
  lost,       \* the server's end is gone
  typed,      \* ghost: lines given to write()
  wire,       \* ghost: bodies whose bytes have left
  served,     \* ghost: bodies the server sent
  printed     \* ghost: bodies written to cout

mainVars == <<main, typed>>
readVars == <<rd, read_msg, printed>>
writeVars == <<write_msgs, wr, wire>>
serverVars == <<lost, served>>
vars == <<mainVars, io, posted, cn, sock, readVars, writeVars, down, serverVars>>

Close == [header |-> <<>>, body |-> NoBody]
Ops == {"none", "pending", "ok", "failed"}

TypeOK ==
  /\ main \in [Clients -> {"reading", "joining", "exited"}]
  /\ io \in [Clients -> {"running", "stopped"}]
  /\ posted \in [Clients -> Seq(Messages \cup {Close})]
  /\ cn \in [Clients -> Ops]
  /\ sock \in [Clients -> {"open", "connected", "closed"}]
  /\ rd \in [Clients -> {"none", "header", "body"}]
  /\ read_msg \in [Clients -> 0..max_body_length]
  /\ write_msgs \in [Clients -> Seq(Messages)]
  /\ wr \in [Clients -> {"none", "pending", "sent", "failed"}]
  /\ down \in [Clients -> Seq(Units)]
  /\ lost \in [Clients -> BOOLEAN]
  /\ \A g \in {typed, wire, served, printed} : g \in [Clients -> Seq(AllBodies)]

Init ==
  /\ main = [c \in Clients |-> "reading"]
  /\ io = [c \in Clients |-> "running"]
  /\ cn = [c \in Clients |-> "pending"]
  /\ sock = [c \in Clients |-> "open"]
  /\ rd = [c \in Clients |-> "none"]
  /\ read_msg = [c \in Clients |-> 0]
  /\ wr = [c \in Clients |-> "none"]
  /\ lost = [c \in Clients |-> FALSE]
  /\ posted = [c \in Clients |-> <<>>]
  /\ write_msgs = [c \in Clients |-> <<>>]
  /\ down = [c \in Clients |-> <<>>]
  /\ typed = [c \in Clients |-> <<>>]
  /\ wire = [c \in Clients |-> <<>>]
  /\ served = [c \in Clients |-> <<>>]
  /\ printed = [c \in Clients |-> <<>>]
-----------------------------------------------------------------------------
(* The main thread *)

(* A line of at most max_body_length characters: write(msg) posts it. *)
Getline(c) ==
  /\ main[c] = "reading"
  /\ Len(typed[c]) < MaxLines[c]
  /\ \E b \in Input :
       /\ typed' = [typed EXCEPT ![c] = Append(@, b)]
       /\ posted' = [posted EXCEPT ![c] = Append(@, Message(b))]
  /\ UNCHANGED <<main, io, cn, sock, readVars, writeVars, down, serverVars>>

(* End of file, or a longer line: getline fails, close() posts. *)
EndInput(c) ==
  /\ main[c] = "reading"
  /\ main' = [main EXCEPT ![c] = "joining"]
  /\ posted' = [posted EXCEPT ![c] = Append(@, Close)]
  /\ UNCHANGED <<typed, io, cn, sock, readVars, writeVars, down, serverVars>>

Join(c) ==
  /\ main[c] = "joining" /\ io[c] = "stopped"
  /\ main' = [main EXCEPT ![c] = "exited"]
  /\ UNCHANGED <<typed, io, posted, cn, sock, readVars, writeVars, down, serverVars>>
-----------------------------------------------------------------------------
(* The io thread *)

(* do_write() on a socket that is not connected fails at once. *)
start_write(c) == IF sock[c] = "connected" THEN "pending" ELSE "failed"

(* Mutants: the new message overtakes the queue; every posted message starts a write
   of its own. *)
posted_write_front(c) ==
  /\ write_msgs' = [write_msgs EXCEPT ![c] = <<Head(posted[c])>> \o @]
  /\ wr' = [wr EXCEPT ![c] = IF write_msgs[c] = <<>> THEN start_write(c) ELSE @]
posted_write_always(c) ==
  /\ write_msgs' = [write_msgs EXCEPT ![c] = Append(@, Head(posted[c]))]
  /\ wr' = [wr EXCEPT ![c] = start_write(c)]
(* The posted lambda of write(): queue the message, and write it when the
   queue was empty. *)
posted_write(c) ==
  /\ write_msgs' = [write_msgs EXCEPT ![c] = Append(@, Head(posted[c]))]
  /\ wr' = [wr EXCEPT ![c] = IF write_msgs[c] = <<>> THEN start_write(c) ELSE @]

RunWrite(c) ==
  /\ io[c] = "running" /\ posted[c] # <<>> /\ Head(posted[c]) # Close
  /\ posted' = [posted EXCEPT ![c] = Tail(@)]
  /\ posted_write(c)
  /\ UNCHANGED <<mainVars, io, cn, sock, readVars, wire, down, serverVars>>

(* Mutant: nothing outstanding is cancelled. *)
close_not(c) == UNCHANGED <<sock, cn, wr>>
(* socket_.close(): what is outstanding in the kernel fails; an operation
   that has completed keeps its result. *)
close(c) ==
  /\ sock' = [sock EXCEPT ![c] = "closed"]
  /\ cn' = [cn EXCEPT ![c] = IF @ = "pending" THEN "failed" ELSE @]
  /\ wr' = [wr EXCEPT ![c] = IF @ = "pending" THEN "failed" ELSE @]

RunClose(c) ==
  /\ io[c] = "running" /\ posted[c] # <<>> /\ Head(posted[c]) = Close
  /\ posted' = [posted EXCEPT ![c] = Tail(@)]
  /\ close(c)
  /\ UNCHANGED <<mainVars, io, readVars, write_msgs, wire, down, serverVars>>

(* do_connect's handler: an error is ignored. *)
Connected(c) ==
  /\ io[c] = "running" /\ cn[c] \in {"ok", "failed"}
  /\ cn' = [cn EXCEPT ![c] = "none"]
  /\ rd' = [rd EXCEPT ![c] = IF cn[c] = "ok" THEN "header" ELSE @]
  /\ UNCHANGED <<mainVars, io, posted, sock, read_msg, printed, writeVars, down, serverVars>>

(* Mutant: a refused header is skipped and the next one read. *)
header_done_resync(c, d) ==
  /\ rd' = [rd EXCEPT ![c] = IF d.res = "ok" THEN "body" ELSE "header"]
  /\ read_msg' = [read_msg EXCEPT ![c] = d.body_length]
  /\ UNCHANGED <<sock, cn, wr>>
(* The branch on decode_header: on to the body, or close. *)
header_done(c, d) ==
  /\ read_msg' = [read_msg EXCEPT ![c] = d.body_length]
  /\ \/ /\ d.res = "ok"
        /\ rd' = [rd EXCEPT ![c] = "body"]
        /\ UNCHANGED <<sock, cn, wr>>
     \/ /\ d.res # "ok"
        /\ rd' = [rd EXCEPT ![c] = "none"]
        /\ close(c)

(* do_read_header's handler, on success.  An aborting decode_header takes
   both threads with it. *)
ReadHeader(c) ==
  /\ io[c] = "running" /\ sock[c] = "connected"
  /\ rd[c] = "header" /\ down[c] # <<>>
  /\ down' = [down EXCEPT ![c] = Tail(@)]
  /\ LET d == decoded[Head(down[c]).val]
     IN  /\ io' = [io EXCEPT ![c] = IF d.res = "abort" THEN "stopped" ELSE @]
         /\ main' = [main EXCEPT ![c] = IF d.res = "abort" THEN "exited" ELSE @]
         /\ header_done(c, d)
  /\ UNCHANGED <<typed, posted, printed, write_msgs, wire, serverVars>>

(* do_read_body's handler, on success: print, and read the next header. *)
ReadBody(c) ==
  /\ io[c] = "running" /\ rd[c] = "body"
  /\ rd' = [rd EXCEPT ![c] = "header"]
  /\ \/ /\ read_msg[c] = 0
        /\ printed' = [printed EXCEPT ![c] = Append(@, NoBody)]
        /\ UNCHANGED down
     \/ /\ read_msg[c] > 0 /\ sock[c] = "connected" /\ down[c] # <<>>
        /\ printed' = [printed EXCEPT ![c] = Append(@, Head(down[c]).val)]
        /\ down' = [down EXCEPT ![c] = Tail(@)]
  /\ UNCHANGED <<mainVars, io, posted, cn, sock, read_msg, writeVars, serverVars>>

(* Either read fails, after close() or because the server's end is gone. *)
ReadError(c) ==
  /\ io[c] = "running"
  /\ sock[c] = "closed" \/ lost[c]
  /\ rd[c] = "header" \/ (rd[c] = "body" /\ read_msg[c] > 0)
  /\ rd' = [rd EXCEPT ![c] = "none"]
  /\ close(c)
  /\ UNCHANGED <<mainVars, io, posted, read_msg, printed, write_msgs, wire, down, serverVars>>

(* if (!write_msgs_.empty()) do_write(), after the pop_front. *)
write_next(c) == IF Tail(write_msgs[c]) = <<>> THEN "none" ELSE start_write(c)

(* do_write's handler *)
WriteDone(c) ==
  /\ io[c] = "running" /\ wr[c] = "sent"
  /\ write_msgs' = [write_msgs EXCEPT ![c] = Tail(@)]
  /\ wr' = [wr EXCEPT ![c] = write_next(c)]
  /\ UNCHANGED <<mainVars, io, posted, cn, sock, readVars, wire, down, serverVars>>

(* Mutant: the socket is left open after a failed write. *)
WriteErrorOpen(c) ==
  /\ io[c] = "running" /\ wr[c] = "failed"
  /\ wr' = [wr EXCEPT ![c] = "none"]
  /\ UNCHANGED <<mainVars, io, posted, cn, sock, readVars, write_msgs, wire, down, serverVars>>
(* The failed message stays in the queue, so no later one starts a write. *)
WriteError(c) ==
  /\ io[c] = "running" /\ wr[c] = "failed"
  /\ wr' = [wr EXCEPT ![c] = "none"]
  /\ sock' = [sock EXCEPT ![c] = "closed"]
  /\ cn' = [cn EXCEPT ![c] = IF @ = "pending" THEN "failed" ELSE @]
  /\ UNCHANGED <<mainVars, io, posted, readVars, write_msgs, wire, down, serverVars>>

(* io_context.run() returns when nothing is posted and nothing outstanding. *)
IoStop(c) ==
  /\ io[c] = "running"
  /\ posted[c] = <<>> /\ cn[c] = "none" /\ rd[c] = "none" /\ wr[c] = "none"
  /\ io' = [io EXCEPT ![c] = "stopped"]
  /\ UNCHANGED <<mainVars, posted, cn, sock, readVars, writeVars, down, serverVars>>
-----------------------------------------------------------------------------
(* The network *)

Establish(c) ==
  /\ cn[c] = "pending"
  /\ cn' = [cn EXCEPT ![c] = "ok"]
  /\ sock' = [sock EXCEPT ![c] = "connected"]
  /\ UNCHANGED <<mainVars, io, posted, readVars, writeVars, down, serverVars>>

ConnectFails(c) ==
  /\ cn[c] = "pending"
  /\ cn' = [cn EXCEPT ![c] = "failed"]
  /\ UNCHANGED <<mainVars, io, posted, sock, readVars, writeVars, down, serverVars>>

(* The bytes of the front message leave. *)
Transmit(c) ==
  /\ wr[c] = "pending"
  /\ wr' = [wr EXCEPT ![c] = "sent"]
  /\ wire' = [wire EXCEPT ![c] = Append(@, Head(write_msgs[c]).body)]
  /\ UNCHANGED <<mainVars, io, posted, cn, sock, readVars, write_msgs, down, serverVars>>

TransmitFails(c) ==
  /\ wr[c] = "pending" /\ lost[c]
  /\ wr' = [wr EXCEPT ![c] = "failed"]
  /\ UNCHANGED <<mainVars, io, posted, cn, sock, readVars, write_msgs, wire, down, serverVars>>

(* The server's side: a message, a header no message has, the end. *)
Arrive(c, units) ==
  /\ sock[c] = "connected" /\ ~lost[c]
  /\ Len(served[c]) < MaxServed /\ Len(down[c]) < 2 * MaxServed
  /\ down' = [down EXCEPT ![c] = @ \o units]
  /\ UNCHANGED <<mainVars, io, posted, cn, sock, readVars, writeVars, lost>>

Serve(c) ==
  \E b \in AllBodies :
    /\ Arrive(c, Frame(Message(b)))
    /\ served' = [served EXCEPT ![c] = Append(@, b)]

ServeBad(c) ==
  \E h \in BadHeaders :
    /\ Arrive(c, <<HeaderUnit(h)>>)
    /\ UNCHANGED served

ServerEnds(c) ==
  /\ sock[c] = "connected" /\ ~lost[c]
  /\ lost' = [lost EXCEPT ![c] = TRUE]
  /\ \E k \in 0..Len(down[c]) : down' = [down EXCEPT ![c] = SubSeq(@, 1, k)]
  /\ UNCHANGED <<mainVars, io, posted, cn, sock, readVars, writeVars, served>>
-----------------------------------------------------------------------------
Handler(c) ==
  \/ RunWrite(c) \/ RunClose(c) \/ Connected(c)
  \/ ReadHeader(c) \/ ReadBody(c) \/ ReadError(c)
  \/ WriteDone(c) \/ WriteError(c) \/ IoStop(c)

Next ==
  \E c \in Clients :
    \/ Getline(c) \/ EndInput(c) \/ Join(c)
    \/ Handler(c)
    \/ Establish(c) \/ ConnectFails(c) \/ Transmit(c) \/ TransmitFails(c)
    \/ Serve(c) \/ ServeBad(c) \/ ServerEnds(c)

Spec == Init /\ [][Next]_vars

(***************************************************************************)
(* io_context.run() executes what is ready, main gets past a join that can *)
(* return, TCP ends a connection attempt one way or the other, and a       *)
(* server that always has a read outstanding takes what is written to it.  *)
(* Nobody has to type, and the server need not send.                       *)
(***************************************************************************)
Fairness ==
  \A c \in Clients :
    /\ WF_vars(Handler(c))
    /\ WF_vars(Join(c))
    /\ WF_vars(Establish(c) \/ ConnectFails(c))
    /\ WF_vars(Transmit(c) \/ TransmitFails(c))

FairSpec == Spec /\ Fairness
-----------------------------------------------------------------------------
(* The messages that are queued and have not left. *)
Unsent(c) == IF wr[c] = "sent" THEN Tail(write_msgs[c]) ELSE write_msgs[c]
BodiesOf(msgs) == [i \in DOMAIN msgs |-> msgs[i].body]
(* What is posted to be written; close() is posted once, behind it. *)
Writes(ps) ==
  IF ps # <<>> /\ ps[Len(ps)] = Close THEN SubSeq(ps, 1, Len(ps) - 1) ELSE ps

(* Every line typed is on the wire, in the queue or posted, in the order of
   typing, whatever failed or was closed: none is written twice, overtaken
   or dropped by a handler.  And what is printed is what the server sent, in
   order and without a gap, also when it ends inside a message. *)
Accounted ==
  \A c \in Clients :
    /\ typed[c] = wire[c] \o BodiesOf(Unsent(c)) \o BodiesOf(Writes(posted[c]))
    /\ Len(printed[c]) <= Len(served[c])
    /\ printed[c] = SubSeq(served[c], 1, Len(printed[c]))

(* A queue nobody drains means a closed socket: the client never sits on a
   live connection with messages it will not send. *)
StallMeansClosed ==
  \A c \in Clients :
    /\ wr[c] = "none" /\ write_msgs[c] # <<>> => sock[c] = "closed"
    /\ wr[c] # "none" => write_msgs[c] # <<>>

(* The client process ends after its input does, whatever the server and
   the connection were doing. *)
EndsAfterInput == \A c \in Clients : main[c] = "joining" ~> main[c] = "exited"
=============================================================================
