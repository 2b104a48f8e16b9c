----------------------------- MODULE ChatSystem ------------------------------
(***************************************************************************)
(* The repository's chat server with the repository's chat clients: the    *)
(* peers of ChatServer are the processes of ChatClient and the other way   *)
(* round.  A step is a step of one side, or of both where a byte, a        *)
(* connection or its end passes from one to the other.                     *)
(***************************************************************************)
EXTENDS ChatWire, FiniteSets

CONSTANTS Clients, Input, max_recent_msgs, MaxFrames, MaxLines, MaxServed

ASSUME SystemAssumption ==
  /\ Input \subseteq AllBodies
  /\ max_recent_msgs \in Nat
  /\ MaxFrames \in Nat /\ MaxServed \in Nat
  /\ MaxLines \in [Clients -> Nat]

VARIABLES
  running, accepting, conn, participants, recent_msgs, rd, read_msg,
  write_msgs, wr, up, hung, frames, history, sent, first, \* the server's
  main, io, posted, cn, sock, crd, cread_msg, cwrite_msgs, cwr,
  down, lost, typed, wire, served, printed,               \* the clients'
  origin  \* ghost: whose session posted the messages of history

Server == INSTANCE ChatServer WITH Slow <- {}
Client == INSTANCE ChatClient WITH
  rd <- crd, read_msg <- cread_msg, write_msgs <- cwrite_msgs, wr <- cwr

serverVars == <<running, accepting, conn, participants, recent_msgs, rd, read_msg,
                write_msgs, wr, up, hung, frames, history, sent, first>>
clientVars == <<main, io, posted, cn, sock, crd, cread_msg, cwrite_msgs, cwr,
                down, lost, typed, wire, served, printed>>
vars == <<serverVars, clientVars, origin>>

Init == Server!Init /\ Client!Init /\ origin = <<>>
-----------------------------------------------------------------------------
(* The client types, ends its input, or exits. *)
MainThread(c) ==
  /\ Client!Getline(c) \/ Client!EndInput(c) \/ Client!Join(c)
  /\ UNCHANGED <<serverVars, origin>>

(* A step of the io thread.  One that closes a connected socket hangs up. *)
Closes(c) == sock[c] = "connected" /\ sock'[c] = "closed"
HasPeer(c) == conn[c] \in {"backlog", "accepted"} /\ ~hung[c]

IoThread(c) ==
  /\ Client!Handler(c)
  /\ IF Closes(c) /\ HasPeer(c) THEN Server!HangUp(c) ELSE UNCHANGED serverVars
  /\ UNCHANGED origin

(* The connection is in the server's backlog before it is accepted. *)
Establish(c) == Client!Establish(c) /\ Server!Connect(c) /\ UNCHANGED origin

ConnectFails(c) == Client!ConnectFails(c) /\ UNCHANGED <<serverVars, origin>>

(* Mutant: the buffer given to async_write ends with the header. *)
TransmitHeader(c) ==
  /\ Client!Transmit(c)
  /\ Server!Send(c, <<HeaderUnit(Head(cwrite_msgs[c]).header)>>)
  /\ UNCHANGED origin
(* A frame leaves the client, or cannot. *)
Transmit(c) ==
  /\ Client!Transmit(c)
  /\ Server!Send(c, Frame(Head(cwrite_msgs[c])))
  /\ UNCHANGED origin

TransmitFails(c) == Client!TransmitFails(c) /\ UNCHANGED <<serverVars, origin>>

Accept(c) ==
  /\ Server!Accept(c) \/ Server!AcceptError(c)
  /\ UNCHANGED <<clientVars, origin>>

Read(c) ==
  /\ Server!ReadHeader(c) \/ Server!ReadBody(c) \/ Server!ReadError(c)
  /\ origin' = IF history' = history THEN origin ELSE Append(origin, c)
  /\ UNCHANGED clientVars

(* Mutant: as above, in the server's async_write. *)
DeliverHeader(c) ==
  /\ Server!WriteDone(c)
  /\ IF sock[c] = "connected" /\ ~lost[c]
     THEN /\ Client!Arrive(c, <<HeaderUnit(Head(write_msgs[c]).header)>>)
          /\ served' = [served EXCEPT ![c] = Append(@, Head(write_msgs[c]).body)]
     ELSE UNCHANGED clientVars
  /\ UNCHANGED origin
(* What the server writes arrives, unless the client's socket is closed. *)
Deliver(c) ==
  /\ Server!WriteDone(c)
  /\ IF sock[c] = "connected" /\ ~lost[c]
     THEN /\ Client!Arrive(c, Frame(Head(write_msgs[c])))
          /\ served' = [served EXCEPT ![c] = Append(@, Head(write_msgs[c]).body)]
     ELSE UNCHANGED clientVars
  /\ UNCHANGED origin

WriteError(c) == Server!WriteError(c) /\ UNCHANGED <<clientVars, origin>>

(* The server's socket is closed: a refused connection, a session whose last
   reference is gone, or the end of the process. *)
Disconnect(c) ==
  /\ ~running \/ conn[c] = "refused" \/ (conn[c] = "accepted" /\ Server!Released(c))
  /\ Client!ServerEnds(c)
  /\ UNCHANGED <<serverVars, origin>>
-----------------------------------------------------------------------------
Next ==
  \E c \in Clients :
    \/ MainThread(c) \/ IoThread(c)
    \/ Establish(c) \/ ConnectFails(c) \/ Transmit(c) \/ TransmitFails(c)
    \/ Accept(c) \/ Read(c) \/ Deliver(c) \/ WriteError(c) \/ Disconnect(c)

Spec == Init /\ [][Next]_vars

(* What the two sides' modules assume of their schedulers and of TCP.  The
   alternatives joined in one condition exclude each other. *)
Fairness ==
  \A c \in Clients :
    /\ WF_vars(IoThread(c))
    /\ WF_vars(Establish(c) \/ ConnectFails(c) \/ Transmit(c) \/ TransmitFails(c))
    /\ WF_vars(Accept(c) \/ Disconnect(c))
    /\ WF_vars(Read(c))
    /\ WF_vars(Deliver(c) \/ WriteError(c))

FairSpec == Spec /\ Fairness
-----------------------------------------------------------------------------
BodiesOf(msgs) == [i \in DOMAIN msgs |-> msgs[i].body]

(* How many of the room's first n messages client c's session has posted. *)
PostedBy(c, n) == Cardinality({i \in 1..n : origin[i] = c})

(* What is in the room under a client's name is what was typed there, in
   that order and with no line missing in between, through both queues. *)
RoomHasTyped ==
  \A i \in 1..Len(history) :
    LET c == origin[i]
        n == PostedBy(c, i)
    IN  n <= Len(typed[c]) /\ history[i].body = typed[c][n]

(* A client's screen shows one unbroken run of the room's messages, from
   the first one replayed to it. *)
ScreenShowsRoom ==
  \A c \in Clients :
    LET last == first[c] + Len(printed[c]) - 1
    IN  /\ last <= Len(history)
        /\ printed[c] = BodiesOf(SubSeq(history, first[c], last))

(* To the server the repository's clients are peers it was modelled with, to
   a client the server is: whatever two message queues, both ends' closing and
   a cut connection do to a stream, what is on it is whole frames of messages
   whose header was encoded, in both directions.  So what ChatServer and
   ChatClient promise holds here as well. *)
ServerConforms == Server!Spec
ClientConforms == Client!Spec
SidesConform == ServerConforms /\ ClientConforms

(* A line that left a client gets into the room, or the connection ends. *)
LinePosted ==
  \A c \in Clients : \A n \in 1..MaxLines[c] :
    Len(wire[c]) >= n ~> PostedBy(c, Len(history)) >= n \/ sock[c] = "closed" \/ lost[c]

(* A message in the room gets onto every member's screen, or its connection
   ends. *)
MessageShown ==
  \A c \in Clients, n \in 1..MaxFrames :
    c \in participants /\ Len(history) >= n ~>
      first[c] + Len(printed[c]) > n \/ sock[c] = "closed"
=============================================================================
