----------------------------- MODULE ChatServer ------------------------------
(***************************************************************************)
(* The chat server (MyChat/MyTCPChatSrv01.cpp): one chat_room, one         *)
(* chat_session per accepted connection, one thread in io_context.run().   *)
(* A completion handler runs to its end before the next one starts, so it  *)
(* is one action; which completion comes next is the network's choice.     *)
(* The clients here are arbitrary peers; ChatSystem puts the repository's  *)
(* client in their place.                                                  *)
(***************************************************************************)
EXTENDS ChatWire

CONSTANTS
  Clients,         \* connections that may arrive, one session each
  Slow,            \* the clients that may stop reading what they are sent
  max_recent_msgs, \* 100 in the code
  MaxFrames        \* bound: frames all the peers send together

ASSUME ServerAssumption ==
  /\ Slow \subseteq Clients
  /\ max_recent_msgs \in Nat
  /\ MaxFrames \in Nat

VARIABLES
  running,      \* main is in io_context.run()
  accepting,    \* an async_accept is outstanding
  conn,         \* a connection's life as TCP sees it
  participants, \* chat_room::participants_
  recent_msgs,  \* chat_room::recent_msgs_
  rd,           \* the async_read outstanding on a session's socket
  read_msg,     \* chat_session::read_msg_
  write_msgs,   \* chat_session::write_msgs_
  wr,           \* an async_write of write_msgs_.front() is outstanding
  up,           \* what the peer has sent and the session has not read
  hung,         \* the peer closed or reset its end
  frames,       \* frames sent so far, for MaxFrames
  history,      \* ghost: every message chat_room::deliver was given
  sent,         \* ghost: the messages whose async_write succeeded
  first         \* ghost: where in history a session's messages begin

roomVars == <<participants, recent_msgs, history, first>>
readVars == <<rd, read_msg>>
writeVars == <<write_msgs, wr, sent>>
netVars == <<conn, up, hung, frames>>
vars == <<running, accepting, roomVars, readVars, writeVars, netVars>>

TypeOK ==
  /\ running \in BOOLEAN /\ accepting \in BOOLEAN
  /\ conn \in [Clients -> {"idle", "backlog", "accepted", "refused"}]
  /\ participants \subseteq Clients
  /\ recent_msgs \in Seq(Messages)
  /\ rd \in [Clients -> {"none", "header", "body"}]
  /\ read_msg \in [Clients -> [header : WireHeaders, body_length : 0..max_body_length]]
  /\ write_msgs \in [Clients -> Seq(Messages)]
  /\ wr \in [Clients -> BOOLEAN]
  /\ up \in [Clients -> Seq(Units)]
  /\ hung \in [Clients -> BOOLEAN]
  /\ frames \in 0..MaxFrames
  /\ history \in Seq(Messages)
  /\ sent \in [Clients -> Seq(Messages)]
  /\ first \in [Clients -> Nat]

Init ==
  /\ running = TRUE /\ accepting = TRUE
  /\ conn = [s \in Clients |-> "idle"]
  /\ participants = {} /\ recent_msgs = <<>>
  /\ rd = [s \in Clients |-> "none"]
  /\ read_msg = [s \in Clients |-> [header |-> Message(NoBody).header, body_length |-> 0]]
  /\ write_msgs = [s \in Clients |-> <<>>]
  /\ wr = [s \in Clients |-> FALSE]
  /\ up = [s \in Clients |-> <<>>]
  /\ hung = [s \in Clients |-> FALSE]
  /\ frames = 0
  /\ history = <<>>
  /\ sent = [s \in Clients |-> <<>>]
  /\ first = [s \in Clients |-> 1]
-----------------------------------------------------------------------------
(* The peers and the network. *)

Connect(s) ==
  /\ conn[s] = "idle"
  /\ conn' = [conn EXCEPT ![s] = "backlog"]
  /\ UNCHANGED <<running, accepting, roomVars, readVars, writeVars, up, hung, frames>>

Send(s, units) ==
  /\ conn[s] \in {"backlog", "accepted"} /\ ~hung[s]
  /\ frames < MaxFrames
  /\ frames' = frames + 1
  /\ up' = [up EXCEPT ![s] = @ \o units]
  /\ UNCHANGED <<running, accepting, roomVars, readVars, writeVars, conn, hung>>

PeerSend(s) == \E b \in AllBodies : Send(s, Frame(Message(b)))

(* A peer that is not a chat_client: its header fits no chat_message. *)
PeerSendBad(s) ==
  \E h \in BadHeaders, b \in Bodies : Send(s, <<HeaderUnit(h), BodyUnit(b)>>)

(* The peer goes away, perhaps inside a frame; bytes in flight may be lost. *)
HangUp(s) ==
  /\ conn[s] \in {"backlog", "accepted"} /\ ~hung[s]
  /\ hung' = [hung EXCEPT ![s] = TRUE]
  /\ \E k \in 0..Len(up[s]) : up' = [up EXCEPT ![s] = SubSeq(@, 1, k)]
  /\ UNCHANGED <<running, accepting, roomVars, readVars, writeVars, conn, frames>>
-----------------------------------------------------------------------------
(* chat_room and chat_session::deliver *)

(* Mutants: one message too many is kept; the queue grows at its front. *)
trim_late(msgs) ==
  IF Len(msgs) > max_recent_msgs + 1 THEN Tail(msgs) ELSE msgs
push_front(q, msg) == <<msg>> \o q

(* while (recent_msgs_.size() > max_recent_msgs) recent_msgs_.pop_front();
   one message is pushed at a time, so at most one is popped. *)
trim(msgs) == IF Len(msgs) > max_recent_msgs THEN Tail(msgs) ELSE msgs

(* write_msgs_.push_back(msg). *)
push_back(q, msg) == Append(q, msg)

(* chat_room::deliver: every participant's deliver() queues the message and
   calls do_write() when the queue was empty.  The sender gets it too, when
   it still is a participant. *)
room_deliver(msg) ==
  /\ history' = Append(history, msg)
  /\ recent_msgs' = trim(Append(recent_msgs, msg))
  /\ write_msgs' = [p \in Clients |-> IF p \in participants
                                      THEN push_back(write_msgs[p], msg)
                                      ELSE write_msgs[p]]
  /\ wr' = [p \in Clients |-> wr[p] \/ (p \in participants /\ write_msgs[p] = <<>>)]
  /\ UNCHANGED <<participants, first, sent>>

(* Mutant: the replay only fills the queue. *)
join_quiet(s) ==
  /\ participants' = participants \cup {s}
  /\ write_msgs' = [write_msgs EXCEPT ![s] = @ \o recent_msgs]
  /\ first' = [first EXCEPT ![s] = Len(history) - Len(recent_msgs) + 1]
  /\ UNCHANGED <<recent_msgs, history, wr, sent>>
(* chat_room::join: the replay of recent_msgs_ through deliver() fills the
   empty queue of the new session, and its first message starts a write. *)
join(s) ==
  /\ participants' = participants \cup {s}
  /\ write_msgs' = [write_msgs EXCEPT ![s] = @ \o recent_msgs]
  /\ wr' = [wr EXCEPT ![s] = @ \/ recent_msgs # <<>>]
  /\ first' = [first EXCEPT ![s] = Len(history) - Len(recent_msgs) + 1]
  /\ UNCHANGED <<recent_msgs, history, sent>>

(* Mutant: the erase is forgotten. *)
leave_not(s) == UNCHANGED <<participants, recent_msgs, history, first>>

(* chat_room::leave *)
leave(s) ==
  /\ participants' = participants \ {s}
  /\ UNCHANGED <<recent_msgs, history, first>>
-----------------------------------------------------------------------------
(* chat_server::do_accept: start() the session, then accept the next one. *)

Accept(s) ==
  /\ running /\ accepting
  /\ conn[s] = "backlog"
  /\ conn' = [conn EXCEPT ![s] = "accepted"]
  /\ join(s)
  /\ rd' = [rd EXCEPT ![s] = "header"]
  /\ accepting' = TRUE
  /\ UNCHANGED <<running, read_msg, up, hung, frames>>

(* Mutant: the next accept is started only after a good one. *)
rearm_not == FALSE
(* do_accept() at the end of the handler, whatever ec says. *)
rearm == TRUE

AcceptError(s) ==
  /\ running /\ accepting
  /\ conn[s] = "backlog"
  /\ conn' = [conn EXCEPT ![s] = "refused"]
  /\ accepting' = rearm
  /\ UNCHANGED <<running, roomVars, readVars, writeVars, up, hung, frames>>
-----------------------------------------------------------------------------
(* do_read_header and do_read_body *)

(* Mutant: a refused header is skipped and the next one read. *)
header_done_resync(s, d) ==
  /\ rd' = [rd EXCEPT ![s] = IF d.res = "ok" THEN "body" ELSE "header"]
  /\ UNCHANGED roomVars
(* The branch on decode_header: on to the body, or out of the room. *)
header_done(s, d) ==
  \/ /\ d.res = "ok"
     /\ rd' = [rd EXCEPT ![s] = "body"]
     /\ UNCHANGED roomVars
  \/ /\ d.res # "ok"
     /\ rd' = [rd EXCEPT ![s] = "none"]
     /\ leave(s)

(* The async_read of a header succeeds.  An aborting decode_header takes
   the process with it. *)
ReadHeader(s) ==
  /\ running
  /\ rd[s] = "header" /\ up[s] # <<>>
  /\ up' = [up EXCEPT ![s] = Tail(@)]
  /\ LET h == Head(up[s]).val
         d == decoded[h]
     IN  /\ running' = (d.res # "abort")
         /\ read_msg' = [read_msg EXCEPT ![s] = [header |-> h,
                                                 body_length |-> d.body_length]]
         /\ header_done(s, d)
  /\ UNCHANGED <<accepting, writeVars, conn, hung, frames>>

(* do_read_header() after the delivery. *)
read_next == "header"

(* The async_read of a body succeeds; of zero bytes it always does.  The
   message is relayed with the header it came with. *)
ReadBody(s) ==
  /\ running
  /\ rd[s] = "body"
  /\ \/ /\ read_msg[s].body_length = 0
        /\ room_deliver([header |-> read_msg[s].header, body |-> NoBody])
        /\ UNCHANGED up
     \/ /\ read_msg[s].body_length > 0 /\ up[s] # <<>>
        /\ room_deliver([header |-> read_msg[s].header, body |-> Head(up[s]).val])
        /\ up' = [up EXCEPT ![s] = Tail(@)]
  /\ rd' = [rd EXCEPT ![s] = read_next]
  /\ UNCHANGED <<running, accepting, read_msg, conn, hung, frames>>

(* Either read fails: end of file or a reset, with or without data left. *)
ReadError(s) ==
  /\ running /\ hung[s]
  /\ \/ rd[s] = "header"
     \/ rd[s] = "body" /\ read_msg[s].body_length > 0
  /\ rd' = [rd EXCEPT ![s] = "none"]
  /\ leave(s)
  /\ UNCHANGED <<running, accepting, read_msg, writeVars, netVars>>
-----------------------------------------------------------------------------
(* do_write *)

(* Mutants: the chain is never, or always, continued. *)
write_next_never(s) == FALSE
write_next_always(s) == TRUE
(* if (!write_msgs_.empty()) do_write(), after the pop_front. *)
write_next(s) == Tail(write_msgs[s]) # <<>>

WriteDone(s) ==
  /\ running /\ wr[s]
  /\ sent' = [sent EXCEPT ![s] = Append(@, Head(write_msgs[s]))]
  /\ write_msgs' = [write_msgs EXCEPT ![s] = Tail(@)]
  /\ wr' = [wr EXCEPT ![s] = write_next(s)]
  /\ UNCHANGED <<running, accepting, roomVars, readVars, netVars>>

(* Mutant: a failed write is treated like one that succeeded. *)
WriteErrorPops(s) ==
  /\ running /\ wr[s] /\ hung[s]
  /\ write_msgs' = [write_msgs EXCEPT ![s] = Tail(@)]
  /\ wr' = [wr EXCEPT ![s] = write_next(s)]
  /\ UNCHANGED <<running, accepting, roomVars, readVars, sent, netVars>>
(* The queue keeps what was not written, and no write follows.  The read
   stays outstanding: what it still yields is relayed. *)
WriteError(s) ==
  /\ running /\ wr[s] /\ hung[s]
  /\ wr' = [wr EXCEPT ![s] = FALSE]
  /\ leave(s)
  /\ UNCHANGED <<running, accepting, readVars, write_msgs, sent, netVars>>
-----------------------------------------------------------------------------
Read(s) == ReadHeader(s) \/ ReadBody(s) \/ ReadError(s)

Next ==
  \E s \in Clients :
    \/ Connect(s) \/ PeerSend(s) \/ PeerSendBad(s) \/ HangUp(s)
    \/ Accept(s) \/ AcceptError(s)
    \/ ReadHeader(s) \/ ReadBody(s) \/ ReadError(s)
    \/ WriteDone(s) \/ WriteError(s)

Spec == Init /\ [][Next]_vars

(***************************************************************************)
(* io_context.run() executes every completion that is ready.  A write to a *)
(* slow peer may stay outstanding for ever, unless the peer goes away.     *)
(***************************************************************************)
Fairness ==
  \A s \in Clients :
    /\ WF_vars(Accept(s) \/ AcceptError(s))
    /\ WF_vars(Read(s))
    /\ IF s \in Slow THEN WF_vars(hung[s] /\ (WriteDone(s) \/ WriteError(s)))
       ELSE WF_vars(WriteDone(s) \/ WriteError(s))

FairSpec == Spec /\ Fairness
-----------------------------------------------------------------------------
(* No object of the session is left: neither the room nor a handler holds
   the shared_ptr, so the destructor has closed the socket. *)
Released(s) == s \notin participants /\ rd[s] = "none" /\ ~wr[s]

(* What has been written to a session and what is queued for it are one
   unbroken run of the room's messages, in the room's order; for a member
   the run reaches to the newest message.  Nothing is skipped, repeated or
   reordered, by the replay, by a leave or by a failing write. *)
InOrder ==
  \A s \in Clients :
    LET all == sent[s] \o write_msgs[s]
    IN  /\ all = SubSeq(history, first[s], first[s] + Len(all) - 1)
        /\ s \in participants => first[s] + Len(all) - 1 = Len(history)

(* The replay buffer is the newest part of the history, as long as the
   limit allows. *)
RecentIsSuffix ==
  LET n == IF Len(history) < max_recent_msgs THEN Len(history) ELSE max_recent_msgs
  IN  recent_msgs = SubSeq(history, Len(history) - n + 1, Len(history))

(* There is a write outstanding exactly while a member's queue is not
   empty: never two writes on one socket (their bytes would mix), never a
   queue that nobody drains.  A session that left drains or has stopped. *)
WriteChain ==
  \A s \in Clients :
    /\ wr[s] => write_msgs[s] # <<>>
    /\ s \in participants /\ write_msgs[s] # <<>> => wr[s]

(* A member is always being read, so its going away is noticed. *)
MembersAreRead == \A s \in participants : rd[s] # "none"

(* A read meets the part of the frame it is meant for: a header is never
   taken for a body nor the reverse, after any sequence of frames, empty
   bodies and refused headers. *)
Framing ==
  \A s \in Clients : up[s] # <<>> =>
    /\ rd[s] = "header" => Head(up[s]).part = "header"
    /\ rd[s] = "body" /\ read_msg[s].body_length > 0 =>
         /\ Head(up[s]).part = "body"
         /\ size[Head(up[s]).val] = read_msg[s].body_length

(* The buffer an outstanding async_write points to, the front of the deque,
   is neither removed nor changed before that write completes. *)
FrontStable ==
  [][\A s \in Clients : wr[s] /\ wr'[s] /\ sent'[s] = sent[s] =>
       Head(write_msgs'[s]) = Head(write_msgs[s])]_vars

(* A member that reads gets all that is queued for it, also when another
   member does not read. *)
QueueDrains ==
  \A s \in Clients \ Slow :
    s \in participants /\ write_msgs[s] # <<>> ~>
      write_msgs[s] = <<>> \/ s \notin participants

(* When a peer goes away its session does so too: no handler, and no entry
   in the room, keeps the object. *)
HungReleased == \A s \in Clients : conn[s] = "accepted" /\ hung[s] ~> Released(s)
-----------------------------------------------------------------------------
(* The room that ChatRoom specifies: a session is owed what was written to
   it and what is queued for it. *)
Joined == {s \in Clients : conn[s] = "accepted"}
Owed == [s \in Clients |-> first[s] + Len(sent[s]) + Len(write_msgs[s]) - 1]

Room == INSTANCE ChatRoom WITH
  Members <- Clients, Posts <- Messages, Recent <- max_recent_msgs,
  log <- history, joined <- Joined, members <- participants, from <- first,
  owed <- Owed, got <- sent

(* The server implements that room. *)
ImplementsRoom == Room!Spec
=============================================================================
