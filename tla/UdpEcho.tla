------------------------------- MODULE UdpEcho -------------------------------
(***************************************************************************)
(* The UDP echo server (Project1/UDPServer.c) and its interactive client   *)
(* (Project1/udpclient.c) over a network that loses, doubles and reorders  *)
(* datagrams, with other senders that send what and to whom they like.  A  *)
(* byte is abstracted to the one who wrote it.                             *)
(***************************************************************************)
EXTENDS Integers, Sequences, FiniteSets

CONSTANTS
  Clients,     \* the udpclient processes
  Strangers,   \* other senders
  Server,
  BUF_LEN,
  MaxRequests, \* bound: messages of one client
  MaxStray,    \* bound: datagrams of the strangers
  MaxFaults    \* bound: datagrams lost, doubled or rejected

ASSUME UdpAssumption ==
  /\ Server \notin Clients \cup Strangers /\ Clients \cap Strangers = {}
  /\ BUF_LEN \in Nat /\ BUF_LEN > 2
  /\ MaxRequests \in Nat /\ MaxStray \in Nat /\ MaxFaults \in Nat

VARIABLES
  buffer, from, \* of the server: what it holds, and for whom
  refused,      \* its next recvfrom fails: an echo was rejected
  at,           \* of each client: "address", "message" or "waiting"
  addr,         \* str_target_addr: "server", "other" for a host that does not
                \* echo, or "bad" for what none has (at first it is empty)
  port,         \* target_pc.sin_port is PORT, or what a datagram left there
  nbytes,
  unbound,      \* its socket has no port yet
  request,      \* ghost: the number of its last message that was sent
  taken,        \* ghost: the message that the last datagram it took answers
  displayed,    \* ghost: the senders of what some client has displayed
  net,          \* the datagrams on their way
  strayed, faults, \* for the bounds
  disturbed,    \* ghost: clients for whom a datagram too many was on its way
  stuck         \* ghost: clients whose last message or its echo went astray

clientVars == <<at, addr, port, nbytes, unbound>>
serverVars == <<buffer, from, refused>>
ghosts == <<request, taken, displayed, strayed, faults, disturbed, stuck>>
udpVars == <<serverVars, clientVars, ghosts, net>>

NUL == "NUL"
Datagram(s, t, bytes, n) == [src |-> s, dst |-> t, bytes |-> bytes, n |-> n, copy |-> 0]
Cells(who, k) == [i \in 1..k |-> who]

(* The server is bound; buffer and from hold nothing yet. *)
ServerInit == buffer = Cells(NUL, BUF_LEN - 1) /\ from = Server /\ refused = FALSE

ClientInit ==
  /\ at = [c \in Clients |-> "address"] /\ addr = [c \in Clients |-> "bad"]
  /\ port = [c \in Clients |-> "PORT"] /\ nbytes = [c \in Clients |-> BUF_LEN - 1]
  /\ unbound = [c \in Clients |-> TRUE]

UdpInit ==
  /\ ServerInit /\ ClientInit
  /\ request = [c \in Clients |-> 0] /\ taken = [c \in Clients |-> 0] /\ displayed = {}
  /\ net = {} /\ strayed = 0 /\ faults = 0 /\ disturbed = {} /\ stuck = {}

(* What is typed as a number may be the server's, another host's or none. *)
numbers == {"server", "other", "bad"}

(* A host name may be unknown.  Its number is copied without terminator over
   the name, and is bad, or another one, when an older string reaches further. *)
hostnameToIp == numbers \cup {"unknown"}

(* The address prompt: a number, a name, or nothing for the same again.  An
   unknown name stays behind as the address and the prompt comes again. *)
Address(c, typed) ==
  /\ at[c] = "address" /\ request[c] < MaxRequests
  /\ \E s \in CASE typed = "number" -> numbers
              [] typed = "name" -> hostnameToIp
              [] typed = "nothing" -> {addr[c]} :
       /\ addr' = [addr EXCEPT ![c] = IF s = "unknown" THEN "bad" ELSE s]
       /\ at' = [at EXCEPT ![c] = IF s = "unknown" THEN "address" ELSE "message"]
  /\ UNCHANGED <<serverVars, port, nbytes, unbound, ghosts, net>>

(* Mutant: fgets may fill the whole buffer. *)
line_length_more == 1..(BUF_LEN - 1)
(* fgets(buffer, BUF_LEN-1, stdin): the characters of a line, with its '\n'. *)
line_length == 1..(BUF_LEN - 2)

(* The newline is cut off if it is the last of nbytes. *)
cut(c, k) == IF k = nbytes[c] THEN k - 1 ELSE nbytes[c]

(* sendto, to the address and to the port that the last datagram came from.
   When the address is bad nothing is sent; the size_t is not <= 0 and the
   client goes on to recvfrom, which fails on a socket without a port.  The
   failed sendto may or may not have given it one.  What goes to another host
   is a message that no one answers, or a stranger. *)
Message(c, k) ==
  /\ at[c] = "message" /\ k \in line_length
  /\ nbytes' = [nbytes EXCEPT ![c] = cut(c, k)]
  /\ IF addr[c] = "server"
     THEN /\ request' = [request EXCEPT ![c] = @ + 1]
          /\ unbound' = [unbound EXCEPT ![c] = FALSE]
          /\ at' = [at EXCEPT ![c] = "waiting"]
          /\ IF port[c] = "PORT"
             THEN net' = net \cup {Datagram(c, Server, Cells(c, nbytes'[c]), request'[c])}
                  /\ stuck' = stuck \ {c}
             ELSE net' = net /\ stuck' = stuck \cup {c}
     ELSE /\ \/ addr[c] # "other" /\ unbound' = unbound
             \/ unbound' = [unbound EXCEPT ![c] = FALSE]
          /\ at' = [at EXCEPT ![c] = IF unbound'[c] THEN "address" ELSE "waiting"]
          /\ stuck' = IF unbound'[c] THEN stuck ELSE stuck \cup {c}
          /\ UNCHANGED <<request, net>>
  /\ UNCHANGED <<serverVars, addr, port, taken, displayed, strayed, faults, disturbed>>

(* Mutant: the size that all of the buffer has is displayed too. *)
displays_full(d) == Len(d.bytes) \in 1..(BUF_LEN - 1)
(* (size > 0) && (size < BUF_LEN-1) *)
displays(d) == Len(d.bytes) \in 1..(BUF_LEN - 2)

(* recvfrom of a client, which takes the sender for its new target. *)
Take(c, d) ==
  /\ at[c] = "waiting" /\ d \in net /\ d.dst = c
  /\ net' = net \ {d}
  /\ taken' = [taken EXCEPT ![c] = d.n]
  /\ displayed' = displayed \cup (IF displays(d) THEN {d.src} ELSE {})
  /\ port' = [port EXCEPT ![c] = IF d.src = Server THEN "PORT" ELSE "other"]
  /\ at' = [at EXCEPT ![c] = "address"]
  /\ UNCHANGED <<serverVars, addr, nbytes, unbound, request, strayed, faults, disturbed, stuck>>

(* Mutant: recvfrom has a time limit. *)
gives_up_soon(c) == TRUE
(* recvfrom fails when the message was rejected: nobody had its port.  (A
   rejection that comes after a stranger's datagram has ended that wait, and
   so fails a later one of a disturbed client, is left out.) *)
gives_up(c) == addr[c] = "other" \/ (port[c] # "PORT" /\ addr[c] = "server")

TakeFails(c) ==
  /\ at[c] = "waiting" /\ gives_up(c)
  /\ at' = [at EXCEPT ![c] = "address"]
  /\ UNCHANGED <<serverVars, addr, port, nbytes, unbound, ghosts, net>>

(* The server's buffer after recvfrom and the terminator behind what came. *)
received(bytes) ==
  [i \in 1..(BUF_LEN - 1) |->
     IF i <= Len(bytes) THEN bytes[i]
     ELSE IF i = Len(bytes) + 1 /\ i > 1 THEN NUL ELSE buffer[i]]

(* Mutant: only what was displayed is echoed, by the client's test. *)
echo_short(d, b) == IF Len(d.bytes) \in 1..(BUF_LEN - 2) THEN {d} ELSE {}
(* sendto(sock, buffer, nbytes, ...): always, and all of the buffer. *)
echo(d, b) == {[d EXCEPT !.src = Server, !.dst = d.src, !.bytes = b]}

ServerTurn(d) ==
  /\ ~refused /\ d \in net /\ d.dst = Server
  /\ buffer' = received(d.bytes) /\ from' = d.src
  /\ net' = (net \ {d}) \cup echo(d, received(d.bytes))
  /\ UNCHANGED <<refused, clientVars, ghosts>>

(* recvfrom fails; buffer and from are echoed as they are. *)
ServerFails ==
  /\ refused /\ refused' = FALSE
  /\ net' = net \cup {[Datagram(Server, from, buffer, 0) EXCEPT !.copy = 2]}
  /\ disturbed' = disturbed \cup {from}
  /\ UNCHANGED <<buffer, from, clientVars, request, taken, displayed, strayed, faults, stuck>>

(* A stranger sends to the server, less than nbytes too, or to a client. *)
Stray(s, t, k) ==
  /\ strayed < MaxStray /\ strayed' = strayed + 1
  /\ net' = net \cup {[Datagram(s, t, Cells(s, k), 0) EXCEPT !.copy = strayed]}
  /\ disturbed' = disturbed \cup {t}
  /\ UNCHANGED <<serverVars, clientVars, request, taken, displayed, faults, stuck>>

(* The network *)
Lose(d) ==
  /\ faults < MaxFaults /\ d \in net
  /\ net' = net \ {d} /\ faults' = faults + 1
  /\ stuck' = stuck \cup ({d.src, d.dst} \cap Clients)
  /\ UNCHANGED <<serverVars, clientVars, request, taken, displayed, strayed, disturbed>>

Double(d) ==
  /\ faults < MaxFaults /\ d \in net /\ faults' = faults + 1
  /\ net' = net \cup {[d EXCEPT !.copy = 3]}
  /\ disturbed' = disturbed \cup {d.src, d.dst}
  /\ UNCHANGED <<serverVars, clientVars, request, taken, displayed, strayed, stuck>>

(* A stranger takes its echo, or has closed its port: the echo is rejected. *)
StrangerTakes(d) ==
  /\ d \in net /\ d.dst \in Strangers
  /\ net' = net \ {d}
  /\ UNCHANGED <<serverVars, clientVars, ghosts>>

Reject(d) ==
  /\ faults < MaxFaults /\ d \in net /\ d.dst \in Strangers /\ ~refused
  /\ net' = net \ {d} /\ refused' = TRUE /\ faults' = faults + 1
  /\ UNCHANGED <<buffer, from, clientVars, request, taken, displayed, strayed, disturbed, stuck>>

UdpNext ==
  \/ \E c \in Clients :
       \/ \E typed \in {"number", "name", "nothing"} : Address(c, typed)
       \/ \E k \in 1..BUF_LEN : Message(c, k)
       \/ \E d \in net : Take(c, d)
       \/ TakeFails(c)
  \/ ServerFails
  \/ \E d \in net : ServerTurn(d) \/ Lose(d) \/ Double(d) \/ StrangerTakes(d) \/ Reject(d)
  \/ \E s \in Strangers, t \in Clients \cup {Server}, k \in 0..(BUF_LEN - 1) : Stray(s, t, k)

(* The server runs, and what is not lost arrives. *)
UdpFairness ==
  /\ WF_udpVars(ServerFails \/ \E d \in net : ServerTurn(d))
  /\ \A c \in Clients : WF_udpVars(\E d \in net : Take(c, d))

UdpSpec == UdpInit /\ [][UdpNext]_udpVars /\ UdpFairness
-----------------------------------------------------------------------------
(* An echo to a client holds nothing but that client's bytes, whatever
   shorter datagrams came before it: though the server always sends all of
   its buffer, a client always fills all of it. *)
EchoIsOwn ==
  \A d \in net : d.src = Server /\ d.dst \in Clients =>
    d.bytes = Cells(d.dst, BUF_LEN - 1)

(* A client that waits has nothing else on its way but its last message or
   the echo to that, and one at the prompt nothing at all, as long as no
   datagram was doubled or came from elsewhere: it takes no old answer. *)
InStep ==
  \A c \in Clients \ disturbed :
    /\ \A d \in net : c \in {d.src, d.dst} => at[c] = "waiting" /\ d.n = request[c]
    /\ at[c] # "waiting" => taken[c] = request[c]

(* No echo is ever displayed by the client that waited for it: client and
   server exchange nbytes each time, which is the size the client's test
   leaves out.  Only what strangers send to a client appears. *)
EchoUnseen == Server \notin displayed

(* An echo is always all of the buffer, which makes it both: the client's own
   bytes to the last, and too long to be displayed. *)
WholeEchoes == EchoIsOwn /\ EchoUnseen

(* "Echo message back to client": whoever sent it, an echo holds nothing that
   somebody else has sent.  It does not, when a stranger sends less than
   nbytes: the rest of the buffer is an earlier sender's. *)
EchoIsMessage ==
  \A d \in net : d.src = Server =>
    \A i \in DOMAIN d.bytes : d.bytes[i] \in {d.dst, NUL}

(* The wait without a time limit ends, unless the message or its echo was
   lost, or was never sent, or a datagram too many is in the way. *)
WaitEnds ==
  \A c \in Clients :
    at[c] = "waiting" ~> at[c] # "waiting" \/ c \in stuck \cup disturbed
=============================================================================
