------------------------------- MODULE TcpEcho -------------------------------
(***************************************************************************)
(* The echo server (MyChat/MyTCPSrv01.cpp) and the blocking client that    *)
(* talks to it (MyChat/MyTCPCli01.cpp).  third_party_lib::session reads    *)
(* and writes a non-blocking socket itself; class connection polls it for  *)
(* what it wants and waits for the socket to be ready.  The server is one  *)
(* thread in io_context.run(), so a handler is one action.                 *)
(* A byte is its position in the request.                                  *)
(***************************************************************************)
EXTENDS Integers, Sequences

CONSTANTS
  Clients,
  data_size,     \* boost::array<char, 128> data_
  UpCap, DownCap,\* what TCP buffers for a connection, each way
  MaxRequest     \* bound: the longest request (max_length - 1 in the code)

(* A request fits in what lies between the client's write and its read: what
   TCP holds and the one byte that a read_some may have taken.  A longer one
   could block both sides; the code's 1023 bytes are far from that. *)
ASSUME EchoAssumption ==
  /\ data_size \in Nat \ {0} /\ UpCap \in Nat \ {0} /\ DownCap \in Nat \ {0}
  /\ MaxRequest \in 0..(UpCap + 1 + DownCap)

VARIABLES
  conn,              \* the connection: "backlog" until accepted or refused
  state,             \* session::state_
  write_buffer,      \* session::write_buffer_
  read_in_progress, write_in_progress, \* of class connection
  up, down,          \* the bytes on their way
  client,            \* where main of the client is
  request_length, written, reply,
  reset              \* the connection was reset

serverVars == <<state, write_buffer, read_in_progress, write_in_progress>>
clientVars == <<client, request_length, written, reply>>
vars == <<conn, serverVars, up, down, clientVars, reset>>

Bytes == 1..MaxRequest

Init ==
  /\ conn = [c \in Clients |-> "idle"]
  /\ state = [c \in Clients |-> "reading"]
  /\ write_buffer = [c \in Clients |-> <<>>]
  /\ read_in_progress = [c \in Clients |-> FALSE]
  /\ write_in_progress = [c \in Clients |-> FALSE]
  /\ up = [c \in Clients |-> <<>>] /\ down = [c \in Clients |-> <<>>]
  /\ client = [c \in Clients |-> "connect"]
  /\ request_length \in [Clients -> 0..MaxRequest]
  /\ written = [c \in Clients |-> 0]
  /\ reply = [c \in Clients |-> <<>>]
  /\ reset = [c \in Clients |-> FALSE]
-----------------------------------------------------------------------------
(* The client: connect, write all of the line, read as many bytes. *)

Connect(c) ==
  /\ client[c] = "connect"
  /\ client' = [client EXCEPT ![c] = "write"]
  /\ conn' = [conn EXCEPT ![c] = "backlog"]
  /\ UNCHANGED <<serverVars, up, down, request_length, written, reply, reset>>

Write(c) ==
  /\ client[c] = "write" /\ ~reset[c]
  /\ \/ /\ written[c] < request_length[c] /\ Len(up[c]) < UpCap
        /\ written' = [written EXCEPT ![c] = @ + 1]
        /\ up' = [up EXCEPT ![c] = Append(@, written[c] + 1)]
        /\ UNCHANGED client
     \/ /\ written[c] = request_length[c]
        /\ client' = [client EXCEPT ![c] = "read"]
        /\ UNCHANGED <<written, up>>
  /\ UNCHANGED <<conn, serverVars, down, request_length, reply, reset>>

(* The last byte ends main, and with it the client's socket. *)
Read(c) ==
  /\ client[c] = "read" /\ ~reset[c]
  /\ \/ /\ Len(reply[c]) < request_length[c] /\ down[c] # <<>>
        /\ reply' = [reply EXCEPT ![c] = Append(@, Head(down[c]))]
        /\ down' = [down EXCEPT ![c] = Tail(@)]
        /\ UNCHANGED client
     \/ /\ Len(reply[c]) = request_length[c]
        /\ client' = [client EXCEPT ![c] = "done"]
        /\ UNCHANGED <<reply, down>>
  /\ UNCHANGED <<conn, serverVars, up, request_length, written, reset>>

(* An exception: the connection is reset, or the server closed it. *)
Fail(c) ==
  /\ client[c] \in {"write", "read"} /\ (reset[c] \/ conn[c] \in {"refused", "closed"})
  /\ client' = [client EXCEPT ![c] = "failed"]
  /\ UNCHANGED <<conn, serverVars, up, down, request_length, written, reply, reset>>

Reset(c) ==
  /\ conn[c] \in {"backlog", "open"} /\ ~reset[c]
  /\ reset' = [reset EXCEPT ![c] = TRUE]
  /\ UNCHANGED <<conn, serverVars, up, down, clientVars>>

ClientGone(c) == client[c] \in {"done", "failed"}
-----------------------------------------------------------------------------
(* The server *)

(* Mutant: nothing is started when the session wants to write. *)
start_operations_read(c, wants) ==
  /\ read_in_progress' = [read_in_progress EXCEPT ![c] = wants = "reading"]
  /\ UNCHANGED write_in_progress
(* start_operations(): an async_wait for what the session now wants, unless
   one is outstanding.  The handler that calls it has cleared its own flag. *)
start_operations(c, wants) ==
  /\ read_in_progress' = [read_in_progress EXCEPT ![c] = wants = "reading"]
  /\ write_in_progress' = [write_in_progress EXCEPT ![c] = wants = "writing"]

(* socket_.close(): the handler that ran was the only one outstanding, so
   the connection object goes with it. *)
close(c) ==
  /\ conn' = [conn EXCEPT ![c] = "closed"]
  /\ read_in_progress' = [read_in_progress EXCEPT ![c] = FALSE]
  /\ write_in_progress' = [write_in_progress EXCEPT ![c] = FALSE]

(* handle_accept; an accept is outstanding at all times. *)
Accept(c) ==
  /\ conn[c] = "backlog"
  /\ conn' = [conn EXCEPT ![c] = "open"]
  /\ start_operations(c, "reading")
  /\ UNCHANGED <<state, write_buffer, up, down, clientVars, reset>>

AcceptError(c) ==
  /\ conn[c] = "backlog"
  /\ conn' = [conn EXCEPT ![c] = "refused"]
  /\ UNCHANGED <<serverVars, up, down, clientVars, reset>>

(* boost::asio::buffer(data_) *)
read_size == data_size

(* do_read: between one byte and data_size become the write buffer. *)
HandleRead(c) ==
  /\ conn[c] = "open" /\ read_in_progress[c] /\ ~reset[c]
  /\ \E len \in 1..read_size :
       /\ len <= Len(up[c])
       /\ write_buffer' = [write_buffer EXCEPT ![c] = SubSeq(up[c], 1, len)]
       /\ up' = [up EXCEPT ![c] = SubSeq(@, len + 1, Len(@))]
  /\ state' = [state EXCEPT ![c] = "writing"]
  /\ start_operations(c, "writing")
  /\ UNCHANGED <<conn, down, clientVars, reset>>

(* Mutant: a would_block is an error like any other. *)
WouldBlockCloses(c) ==
  /\ conn[c] = "open" /\ ~reset[c]
  /\ \/ read_in_progress[c] /\ up[c] = <<>> /\ ~ClientGone(c)
     \/ write_in_progress[c] /\ Len(down[c]) = DownCap
  /\ close(c)
  /\ UNCHANGED <<state, write_buffer, up, down, clientVars, reset>>
(* The socket was not ready after all: wait again for the same thing. *)
WouldBlock(c) ==
  /\ conn[c] = "open" /\ ~reset[c]
  /\ \/ read_in_progress[c] /\ up[c] = <<>> /\ ~ClientGone(c)
     \/ write_in_progress[c] /\ Len(down[c]) = DownCap
  /\ start_operations(c, state[c])
  /\ UNCHANGED <<conn, state, write_buffer, up, down, clientVars, reset>>

(* Mutant: the bytes written stay in the buffer. *)
rest_all(buf, len) == buf
(* write_buffer_ = write_buffer_ + len *)
rest(buf, len) == SubSeq(buf, len + 1, Len(buf))

(* do_write: at least one byte goes out; what is left is written next. *)
HandleWrite(c) ==
  /\ conn[c] = "open" /\ write_in_progress[c] /\ ~reset[c] /\ ~ClientGone(c)
  /\ \E len \in 1..data_size :
       LET left == rest(write_buffer[c], len)
           next == IF left # <<>> THEN "writing" ELSE "reading"
       IN  /\ len <= Len(write_buffer[c]) /\ len <= DownCap - Len(down[c])
           /\ down' = [down EXCEPT ![c] = @ \o SubSeq(write_buffer[c], 1, len)]
           /\ write_buffer' = [write_buffer EXCEPT ![c] = left]
           /\ state' = [state EXCEPT ![c] = next]
           /\ start_operations(c, next)
  /\ UNCHANGED <<conn, up, clientVars, reset>>

(* End of file, or an error of the wait, the read or the write. *)
HandleError(c) ==
  /\ conn[c] = "open"
  /\ \/ read_in_progress[c] /\ (reset[c] \/ (ClientGone(c) /\ up[c] = <<>>))
     \/ write_in_progress[c] /\ (reset[c] \/ ClientGone(c))
  /\ close(c)
  /\ UNCHANGED <<state, write_buffer, up, down, clientVars, reset>>
-----------------------------------------------------------------------------
Next ==
  \E c \in Clients :
    \/ Connect(c) \/ Write(c) \/ Read(c) \/ Fail(c) \/ Reset(c)
    \/ Accept(c) \/ AcceptError(c)
    \/ HandleRead(c) \/ WouldBlock(c) \/ HandleWrite(c) \/ HandleError(c)

Spec == Init /\ [][Next]_vars

(* io_context.run() executes what is ready, TCP moves bytes, and the client
   is blocked only by its socket. *)
Fairness ==
  \A c \in Clients :
    /\ WF_vars(Write(c) \/ Read(c) \/ Fail(c))
    /\ WF_vars(Accept(c) \/ AcceptError(c))
    /\ WF_vars(HandleRead(c) \/ HandleWrite(c) \/ HandleError(c))

FairSpec == Spec /\ Fairness
-----------------------------------------------------------------------------
(* The bytes the client has got, those on the way back, those in the session
   and those on the way up are, in this order, what it wrote: partial reads
   and writes and false alarms lose, repeat and reorder nothing, and what is
   to be written fits data_. *)
Conserved ==
  \A c \in Clients :
    /\ reply[c] \o down[c] \o write_buffer[c] \o up[c] = [i \in 1..written[c] |-> i]
    /\ Len(write_buffer[c]) <= data_size

(* An open connection waits for exactly one thing, and for what the session
   wants; it has bytes to write exactly when it wants to.  It is closed only
   when its peer is gone, never over a socket that was not ready. *)
OneOperation ==
  \A c \in Clients :
    /\ conn[c] = "open" =>
         /\ read_in_progress[c] <=> (state[c] = "reading")
         /\ write_in_progress[c] <=> (state[c] = "writing")
         /\ (state[c] = "writing") <=> (write_buffer[c] # <<>>)
    /\ conn[c] = "closed" => reset[c] \/ ClientGone(c)

(* The client and the server never wait for each other: every request gets
   its reply, or an error, and then the connection object goes too. *)
ReplyComes ==
  \A c \in Clients :
    /\ client[c] = "write" ~> ClientGone(c)
    /\ ClientGone(c) ~> conn[c] \in {"refused", "closed"}
=============================================================================
