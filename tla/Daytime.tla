------------------------------- MODULE Daytime -------------------------------
(***************************************************************************)
(* The daytime server (Project1/server.cpp): whoever connects, or sends a  *)
(* datagram, gets the time.  Both halves run on one io_context, so a       *)
(* handler is one step; an operation that was started ends in a step of    *)
(* its own.                                                                *)
(***************************************************************************)
EXTENDS Integers, Sequences, FiniteSets

CONSTANTS
  Askers,   \* the peers, over TCP and UDP
  MaxCalls   \* bound: connections and datagrams of one peer

ASSUME DaytimeAssumption == MaxCalls \in Nat

VARIABLES
  accepting,  \* an async_accept is outstanding
  connecting, \* peers in the backlog
  writing,    \* tcp_connections with an async_write, by peer
  told,       \* ghost: peers whose last connection was answered or failed
  receiving,  \* an async_receive_from is outstanding
  remote,     \* remote_endpoint_
  inbox,      \* the datagrams that have arrived: sender, and whether it fits
  sends,      \* the outstanding async_send_to, by the endpoint each was given
  bounced,    \* an answer was rejected: the next receive fails
  asked, answered, \* ghost: datagrams received from, and answers sent to, each
  failed,     \* ghost: a receive has failed
  calls       \* connections and datagrams of each peer, for MaxCalls

tcpVars == <<accepting, connecting, writing, told>>
udpHalf == <<receiving, remote, inbox, sends, bounced, asked, answered, failed>>
daytimeVars == <<tcpVars, udpHalf, calls>>

DaytimeInit ==
  /\ accepting = TRUE /\ connecting = {} /\ writing = {} /\ told = {}
  /\ receiving = TRUE /\ remote = "none" /\ inbox = <<>>
  /\ sends = [p \in Askers |-> 0] /\ bounced = FALSE /\ failed = FALSE
  /\ asked = [p \in Askers |-> 0] /\ answered = [p \in Askers |-> 0]
  /\ calls = [p \in Askers |-> 0]

Calls(p) == calls[p] < MaxCalls /\ calls' = [calls EXCEPT ![p] = @ + 1]

(* A peer connects, or sends a datagram of one byte or of more. *)
CallTcp(p) ==
  /\ Calls(p) /\ p \notin connecting \cup writing
  /\ connecting' = connecting \cup {p} /\ told' = told \ {p}
  /\ UNCHANGED <<accepting, writing, udpHalf>>

CallUdp(p, fits) ==
  /\ Calls(p)
  /\ inbox' = Append(inbox, [src |-> p, fits |-> fits])
  /\ UNCHANGED <<tcpVars, receiving, remote, sends, bounced, asked, answered, failed>>

(* start() begins the write of the time. *)
start(p) == writing' = writing \cup {p}

start_accept == TRUE

(* handle_accept: start() unless there is an error; then start_accept(),
   always. *)
HandleAccept(p) ==
  /\ accepting /\ p \in connecting
  /\ connecting' = connecting \ {p} /\ start(p)
  /\ accepting' = start_accept
  /\ UNCHANGED <<told, udpHalf, calls>>

HandleAcceptError(p) ==
  /\ accepting /\ p \in connecting
  /\ connecting' = connecting \ {p} /\ told' = told \cup {p}
  /\ accepting' = start_accept
  /\ UNCHANGED <<writing, udpHalf, calls>>

(* tcp_connection::handle_write, with whatever result: nothing refers to
   the connection any more and its socket is closed. *)
ConnectionHandleWrite(p) ==
  /\ p \in writing
  /\ writing' = writing \ {p} /\ told' = told \cup {p}
  /\ UNCHANGED <<accepting, connecting, udpHalf, calls>>

(* Mutant: a send goes to where remote_endpoint_ is when it leaves. *)
sent_to_late(p) == remote
(* async_send_to keeps a copy of the endpoint. *)
sent_to(p) == p

(* Mutant: start_receive() is forgotten. *)
start_receive_not == FALSE
start_receive == TRUE

(* handle_receive without an error *)
HandleReceive ==
  /\ receiving /\ ~bounced /\ inbox # <<>>
  /\ LET p == Head(inbox).src
     IN  /\ remote' = p
         /\ sends' = [sends EXCEPT ![p] = @ + 1]
         /\ asked' = [asked EXCEPT ![p] = @ + 1]
  /\ inbox' = Tail(inbox)
  /\ receiving' = start_receive
  /\ UNCHANGED <<tcpVars, bounced, failed, answered, calls>>

(* The send to p ends; when the peer is gone its rejection comes back. *)
HandleSend(p) ==
  /\ sends[p] > 0
  /\ sends' = [sends EXCEPT ![p] = @ - 1]
  /\ answered' = [answered EXCEPT ![sent_to(p)] = @ + 1]
  /\ bounced' \in {bounced, TRUE}
  /\ UNCHANGED <<receiving, remote, failed, inbox, asked, tcpVars, calls>>

(* handle_receive with an error, of an earlier answer or of a datagram that
   is longer than recv_buffer_: no receive is started again. *)
HandleReceiveError ==
  /\ receiving
  /\ bounced \/ (inbox # <<>> /\ ~Head(inbox).fits)
  /\ receiving' = FALSE /\ failed' = TRUE
  /\ IF bounced THEN bounced' = FALSE /\ UNCHANGED <<remote, inbox>>
     ELSE inbox' = Tail(inbox) /\ remote' = Head(inbox).src /\ UNCHANGED bounced
  /\ UNCHANGED <<sends, asked, answered, tcpVars, calls>>

DaytimeNext ==
  \/ \E p \in Askers :
       \/ CallTcp(p) \/ CallUdp(p, TRUE) \/ CallUdp(p, FALSE)
       \/ HandleAccept(p) \/ HandleAcceptError(p) \/ ConnectionHandleWrite(p) \/ HandleSend(p)
  \/ HandleReceive \/ HandleReceiveError

(* io_context.run() serves what has completed. *)
DaytimeFairness ==
  /\ WF_daytimeVars(HandleReceive \/ HandleReceiveError)
  /\ \A p \in Askers :
       /\ WF_daytimeVars(HandleAccept(p) \/ HandleAcceptError(p))
       /\ WF_daytimeVars(ConnectionHandleWrite(p)) /\ WF_daytimeVars(HandleSend(p))

DaytimeSpec == DaytimeInit /\ [][DaytimeNext]_daytimeVars /\ DaytimeFairness
-----------------------------------------------------------------------------
(* Every answer goes to the one who asked, one for each datagram, although
   the next receive overwrites remote_endpoint_ while sends are
   outstanding. *)
RepliesToSender ==
  \A p \in Askers : answered[p] + sends[p] = asked[p]

(* A connection is answered or fails, also after the UDP half has stopped;
   a datagram is answered unless a receive has failed, which is its end. *)
Served ==
  /\ \A p \in Askers : p \in connecting ~> p \in told
  /\ inbox # <<>> ~> failed \/ (inbox = <<>> /\ answered = asked)
=============================================================================
