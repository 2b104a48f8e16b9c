---------------------------- MODULE TcpEchoProofs ----------------------------
(***************************************************************************)
(* Conserved and OneOperation of module TcpEcho, for any set of clients,   *)
(* requests of any length and any size of data_ and of what TCP buffers.   *)
(***************************************************************************)
EXTENDS TcpEcho, SequenceTheorems, TLAPS

Positions == Nat

EchoTypeOK ==
  /\ conn \in [Clients -> {"idle", "backlog", "open", "refused", "closed"}]
  /\ state \in [Clients -> {"reading", "writing"}]
  /\ client \in [Clients -> {"connect", "write", "read", "done", "failed"}]
  /\ \A g \in {read_in_progress, write_in_progress, reset} : g \in [Clients -> BOOLEAN]
  /\ \A q \in {write_buffer, up, down, reply} : q \in [Clients -> Seq(Positions)]
  /\ written \in [Clients -> Nat]

(* A session that was not accepted yet is as its constructor left it; the
   client connects once. *)
Fresh(c) ==
  /\ conn[c] \notin {"open", "closed"} => state[c] = "reading" /\ write_buffer[c] = <<>>
  /\ client[c] = "connect" => conn[c] = "idle"

(* Conserved and OneOperation, of one client. *)
Request(n) == [i \in 1..n |-> i]
Carried(r, d, w, u) == r \o d \o w \o u
Operation(c) ==
  /\ conn[c] = "open" =>
       /\ read_in_progress[c] <=> (state[c] = "reading")
       /\ write_in_progress[c] <=> (state[c] = "writing")
       /\ (state[c] = "writing") <=> (write_buffer[c] # <<>>)
  /\ conn[c] = "closed" => reset[c] \/ ClientGone(c)
Holds(c) ==
  /\ Carried(reply[c], down[c], write_buffer[c], up[c]) = Request(written[c])
  /\ Len(write_buffer[c]) <= data_size

(* The inductive invariant. *)
EchoInv ==
  /\ EchoTypeOK
  /\ \A c \in Clients : Fresh(c) /\ Operation(c) /\ Holds(c)
-----------------------------------------------------------------------------
(* Concatenation, as the moves from one buffer to the next need it. *)
LEMMA AtEnd ==
  ASSUME NEW S, NEW a \in Seq(S), NEW u \in Seq(S), NEW x \in S
  PROVE  a \o Append(u, x) = Append(a \o u, x)
<1>1. a \o u \in Seq(S) /\ <<x>> \in Seq(S)
  BY ConcatProperties
<1>2. Append(a \o u, x) = (a \o u) \o <<x>> /\ Append(u, x) = u \o <<x>>
  BY <1>1, AppendIsConcat
<1>3. (a \o u) \o <<x>> = a \o (u \o <<x>>)
  BY <1>1, ConcatAssociative
<1> QED
  BY <1>2, <1>3

(* A byte may pass from the front of one sequence to the end of another. *)
LEMMA AcrossBorder ==
  ASSUME NEW S, NEW r \in Seq(S), NEW d \in Seq(S), d # <<>>
  PROVE  Append(r, Head(d)) \o Tail(d) = r \o d
<1> DEFINE x == Head(d)
           t == Tail(d)
           y == <<x>>
<1>1. x \in S /\ t \in Seq(S) /\ y \in Seq(S) /\ d = y \o t
  OBVIOUS
<1>2. Append(r, x) = r \o y
  BY <1>1, AppendIsConcat
<1> HIDE DEF x, t, y
<1>3. (r \o y) \o t = r \o (y \o t)
  BY <1>1, ConcatAssociative
<1> QED
  BY <1>1, <1>2, <1>3 DEF x, t

(* It does not matter where the borders are. *)
LEMMA Regrouped ==
  ASSUME NEW S, NEW a \in Seq(S), NEW v \in Seq(S), NEW z \in Seq(S)
  PROVE  (a \o v) \o z = a \o (v \o z)
BY ConcatAssociative

(* The client's next byte goes behind all that is carried. *)
LEMMA NextByte ==
  ASSUME NEW r \in Seq(Positions), NEW d \in Seq(Positions), NEW w \in Seq(Positions), NEW u \in Seq(Positions),
         NEW n \in Nat, Carried(r, d, w, u) = Request(n)
  PROVE  Carried(r, d, w, Append(u, n + 1)) = Request(n + 1)
<1> DEFINE a == r \o d \o w
           x == n + 1
<1>1. a \in Seq(Positions) /\ x \in Positions
  BY ConcatProperties DEF Positions
<1>2. a \o u = Request(n)
  BY DEF Carried
<1> HIDE DEF a
<1>3. a \o Append(u, x) = Append(a \o u, x)
  BY <1>1, AtEnd
<1>4. Append(Request(n), x) = Request(x)
  BY DEF Request
<1> QED
  BY <1>2, <1>3, <1>4 DEF a, Carried

(* Two parts of a buffer, and nothing between them. *)
LEMMA Parted ==
  ASSUME NEW q \in Seq(Positions), NEW n \in 1..Len(q)
  PROVE  /\ SubSeq(q, 1, n) \in Seq(Positions) /\ Len(SubSeq(q, 1, n)) = n
         /\ SubSeq(q, n + 1, Len(q)) \in Seq(Positions)
         /\ Len(SubSeq(q, n + 1, Len(q))) = Len(q) - n
         /\ SubSeq(q, 1, n) \o SubSeq(q, n + 1, Len(q)) = q
<1>1. /\ 1 \in 1..(Len(q) + 1) /\ n \in (1 - 1)..Len(q) /\ Len(q) \in n..Len(q)
      /\ Len(q) \in Nat
  OBVIOUS
<1>2. SubSeq(q, 1, n) \o SubSeq(q, n + 1, Len(q)) = SubSeq(q, 1, Len(q))
  BY <1>1, ConcatAdjacentSubSeq
<1>3. SubSeq(q, 1, Len(q)) = q
  BY SubSeqFull
<1>4. SubSeq(q, 1, n) \in Seq(Positions) /\ Len(SubSeq(q, 1, n)) = n
  OBVIOUS
<1>5. /\ SubSeq(q, n + 1, Len(q)) \in Seq(Positions)
      /\ Len(SubSeq(q, n + 1, Len(q))) = Len(q) - n
  OBVIOUS
<1> QED
  BY <1>2, <1>3, <1>4, <1>5

(* A read fills the empty write buffer from what has arrived. *)
LEMMA ReadCarries ==
  ASSUME NEW S, NEW r \in Seq(S), NEW d \in Seq(S), NEW v \in Seq(S), NEW w \in Seq(S)
  PROVE  Carried(r, d, v, w) = Carried(r, d, <<>>, v \o w)
<1> DEFINE a == r \o d
<1>1. a \in Seq(S) /\ a \o <<>> = a
  BY ConcatProperties, ConcatEmptySeq
<1>a. ASSUME NEW b \in Seq(S)
      PROVE  (b \o v) \o w = b \o (v \o w)
  BY Regrouped
<1>2. (a \o v) \o w = a \o (v \o w)
  BY <1>1, <1>a
<1> HIDE DEF a
<1> QED
  BY <1>1, <1>2 DEF a, Carried

(* A write moves the front of the buffer behind what is on its way. *)
LEMMA WriteCarries ==
  ASSUME NEW S, NEW r \in Seq(S), NEW d \in Seq(S), NEW v \in Seq(S), NEW z \in Seq(S), NEW u
  PROVE  Carried(r, d \o v, z, u) = Carried(r, d, v \o z, u)
<1>1. (r \o d) \o v = r \o (d \o v)
  BY Regrouped
<1> DEFINE a == r \o d
<1>2. a \in Seq(S)
  BY ConcatProperties
<1>a. ASSUME NEW b \in Seq(S)
      PROVE  (b \o v) \o z = b \o (v \o z)
  BY Regrouped
<1>3. (a \o v) \o z = a \o (v \o z)
  BY <1>2, <1>a
<1> HIDE DEF a
<1> QED
  BY <1>1, <1>3 DEF a, Carried
-----------------------------------------------------------------------------
(* A step is one client's: nothing of another client changes. *)
LEMMA OthersKeep ==
  ASSUME EchoTypeOK, NEW c \in Clients, NEW d \in Clients, d # c,
         \/ Connect(c) \/ Write(c) \/ Read(c) \/ Fail(c) \/ Reset(c)
         \/ Accept(c) \/ AcceptError(c)
         \/ HandleRead(c) \/ WouldBlock(c) \/ HandleWrite(c) \/ HandleError(c)
  PROVE  /\ conn'[d] = conn[d] /\ state'[d] = state[d] /\ client'[d] = client[d]
         /\ read_in_progress'[d] = read_in_progress[d] /\ reset'[d] = reset[d]
         /\ write_in_progress'[d] = write_in_progress[d]
         /\ write_buffer'[d] = write_buffer[d] /\ up'[d] = up[d] /\ down'[d] = down[d]
         /\ reply'[d] = reply[d] /\ written'[d] = written[d]
<1> USE DEF EchoTypeOK, serverVars, clientVars, start_operations, close
<1>1. CASE Connect(c) \/ Write(c) \/ Read(c) \/ Fail(c) \/ Reset(c)
  BY <1>1 DEF Connect, Write, Read, Fail, Reset
<1>2. CASE Accept(c) \/ AcceptError(c) \/ WouldBlock(c) \/ HandleError(c)
  BY <1>2 DEF Accept, AcceptError, WouldBlock, HandleError
<1>3. CASE HandleRead(c)
  BY <1>3 DEF HandleRead
<1>4. CASE HandleWrite(c)
  BY <1>4 DEF HandleWrite
<1> QED
  BY <1>1, <1>2, <1>3, <1>4

(* The invariant's part for a client depends on what it names only. *)
LEMMA Untouched ==
  ASSUME EchoInv, NEW d \in Clients,
         /\ conn'[d] = conn[d] /\ state'[d] = state[d] /\ client'[d] = client[d]
         /\ read_in_progress'[d] = read_in_progress[d] /\ reset'[d] = reset[d]
         /\ write_in_progress'[d] = write_in_progress[d]
         /\ write_buffer'[d] = write_buffer[d] /\ up'[d] = up[d] /\ down'[d] = down[d]
         /\ reply'[d] = reply[d] /\ written'[d] = written[d]
  PROVE  Fresh(d)' /\ Operation(d)' /\ Holds(d)'
<1>1. Fresh(d)' /\ Operation(d)'
  BY DEF EchoInv, Fresh, Operation, ClientGone
<1>2. Holds(d)'
  BY DEF EchoInv, Holds
<1> QED
  BY <1>1, <1>2

(* The client's own steps. *)
LEMMA ClientKeeps ==
  ASSUME EchoInv, NEW c \in Clients, Connect(c) \/ Write(c) \/ Read(c) \/ Fail(c) \/ Reset(c)
  PROVE  EchoTypeOK' /\ Fresh(c)' /\ Operation(c)' /\ Holds(c)'
<1>0. EchoTypeOK /\ Fresh(c) /\ Operation(c) /\ Holds(c)
  BY DEF EchoInv
<1>t. /\ up[c] \in Seq(Positions) /\ down[c] \in Seq(Positions) /\ reply[c] \in Seq(Positions)
      /\ write_buffer[c] \in Seq(Positions) /\ written[c] \in Nat
  BY <1>0 DEF EchoTypeOK
<1>1. CASE Connect(c) \/ Fail(c) \/ Reset(c)
  <2>1. /\ UNCHANGED <<serverVars, up, down, request_length, written, reply>>
        /\ conn' = conn \/ (client[c] = "connect" /\ conn' = [conn EXCEPT ![c] = "backlog"])
        /\ client' \in [Clients -> {"connect", "write", "read", "done", "failed"}]
        /\ reset' \in [Clients -> BOOLEAN]
    BY <1>0, <1>1 DEF Connect, Fail, Reset, EchoTypeOK, clientVars
  <2>2. EchoTypeOK'
    BY ZenonT(30), <1>0, <2>1 DEF EchoTypeOK, serverVars
  <2>3. Fresh(c)' /\ Operation(c)'
    BY <1>0, <1>1 DEF Connect, Fail, Reset, EchoTypeOK, Fresh, Operation, ClientGone, serverVars,
       clientVars
  <2>4. Holds(c)'
    BY <1>0, <2>1 DEF Holds, serverVars
  <2> QED
    BY <2>2, <2>3, <2>4
<1>2. CASE Write(c) /\ client' = client
  <2>1. /\ written' = [written EXCEPT ![c] = @ + 1]
        /\ up' = [up EXCEPT ![c] = Append(@, written[c] + 1)]
        /\ UNCHANGED <<conn, serverVars, down, reply, reset, client>>
    BY <1>0, <1>2 DEF Write, EchoTypeOK
  <2>2. /\ written'[c] = written[c] + 1 /\ up'[c] = Append(up[c], written[c] + 1)
        /\ written' \in [Clients -> Nat] /\ up' \in [Clients -> Seq(Positions)]
    BY <1>0, <1>t, <2>1 DEF EchoTypeOK, Positions
  <2>3. EchoTypeOK'
    BY <1>0, <2>1, <2>2 DEF EchoTypeOK, serverVars
  <2>4. Fresh(c)' /\ Operation(c)'
    BY <1>0, <2>1 DEF Fresh, Operation, ClientGone, serverVars
  <2>5. Holds(c)'
    BY <1>0, <1>t, <2>1, <2>2, NextByte DEF Holds, serverVars
  <2> QED
    BY <2>3, <2>4, <2>5
<1>3. CASE Read(c) /\ client' = client
  <2>1. /\ down[c] # <<>>
        /\ reply' = [reply EXCEPT ![c] = Append(@, Head(down[c]))]
        /\ down' = [down EXCEPT ![c] = Tail(@)]
        /\ UNCHANGED <<conn, serverVars, up, written, reset, client>>
    BY <1>0, <1>3 DEF Read, EchoTypeOK
  <2>2. /\ reply'[c] = Append(reply[c], Head(down[c])) /\ down'[c] = Tail(down[c])
        /\ reply' \in [Clients -> Seq(Positions)] /\ down' \in [Clients -> Seq(Positions)]
    BY <1>0, <1>t, <2>1 DEF EchoTypeOK
  <2>3. EchoTypeOK'
    BY <1>0, <2>1, <2>2 DEF EchoTypeOK, serverVars
  <2>4. Fresh(c)' /\ Operation(c)'
    BY <1>0, <2>1 DEF Fresh, Operation, ClientGone, serverVars
  <2>5. reply'[c] \o down'[c] = reply[c] \o down[c]
    BY SMTT(30), <1>t, <2>1, <2>2, AcrossBorder
  <2>6. Holds(c)'
    BY <1>0, <2>1, <2>5 DEF Holds, Carried, serverVars
  <2> QED
    BY <2>3, <2>4, <2>6
<1>4. CASE (Write(c) \/ Read(c)) /\ client' # client
  <2>1. /\ UNCHANGED <<conn, serverVars, up, down, written, reply, reset>>
        /\ client' \in [Clients -> {"connect", "write", "read", "done", "failed"}]
        /\ client'[c] \in {"read", "done"} /\ client[c] \in {"write", "read"}
    BY <1>0, <1>4 DEF Write, Read, EchoTypeOK
  <2>2. EchoTypeOK'
    BY <1>0, <2>1 DEF EchoTypeOK, serverVars
  <2>3. Fresh(c)' /\ Operation(c)' /\ Holds(c)'
    BY <1>0, <2>1 DEF Fresh, Operation, ClientGone, Holds, serverVars
  <2> QED
    BY <2>2, <2>3
<1> QED
  BY <1>1, <1>2, <1>3, <1>4

(* The server's steps on one connection. *)
LEMMA ServerKeeps ==
  ASSUME EchoInv, NEW c \in Clients,
         Accept(c) \/ AcceptError(c) \/ HandleRead(c) \/ WouldBlock(c) \/ HandleWrite(c)
           \/ HandleError(c)
  PROVE  EchoTypeOK' /\ Fresh(c)' /\ Operation(c)' /\ Holds(c)'
<1>0. EchoTypeOK /\ Fresh(c) /\ Operation(c) /\ Holds(c)
  BY DEF EchoInv
<1>t. /\ up[c] \in Seq(Positions) /\ down[c] \in Seq(Positions) /\ reply[c] \in Seq(Positions)
      /\ write_buffer[c] \in Seq(Positions) /\ data_size \in Nat
  BY <1>0, EchoAssumption DEF EchoTypeOK
<1>1. CASE Accept(c) \/ AcceptError(c) \/ WouldBlock(c) \/ HandleError(c)
  <2>1. /\ UNCHANGED <<state, write_buffer, up, down, clientVars, reset>>
        /\ conn' \in [Clients -> {"idle", "backlog", "open", "refused", "closed"}]
        /\ read_in_progress' \in [Clients -> BOOLEAN]
        /\ write_in_progress' \in [Clients -> BOOLEAN]
    BY <1>0, <1>1 DEF Accept, AcceptError, WouldBlock, HandleError, EchoTypeOK, serverVars,
       start_operations, close
  <2>2. EchoTypeOK'
    BY <1>0, <2>1 DEF EchoTypeOK, clientVars
  <2>3. Fresh(c)' /\ Operation(c)'
    BY <1>0, <1>1 DEF Accept, AcceptError, WouldBlock, HandleError, EchoTypeOK, Fresh, Operation,
       ClientGone, serverVars, clientVars, start_operations, close
  <2>4. Holds(c)'
    BY <1>0, <2>1 DEF Holds, clientVars
  <2> QED
    BY <2>2, <2>3, <2>4
<1>2. CASE HandleRead(c)
  <2>1. PICK n \in 1..data_size :
          /\ n <= Len(up[c])
          /\ write_buffer' = [write_buffer EXCEPT ![c] = SubSeq(up[c], 1, n)]
          /\ up' = [up EXCEPT ![c] = SubSeq(@, n + 1, Len(@))]
    BY <1>2 DEF HandleRead, read_size
  <2> DEFINE v == SubSeq(up[c], 1, n)
             z == SubSeq(up[c], n + 1, Len(up[c]))
  <2>n. n \in 1..Len(up[c])
    BY <1>t, <2>1
  <2>2. write_buffer'[c] = v /\ up'[c] = z
    BY <1>0, <2>1 DEF EchoTypeOK
  <2>3. v \in Seq(Positions) /\ z \in Seq(Positions) /\ Len(v) = n
    BY <1>t, <2>n, Parted
  <2>e. v \o z = up[c]
    BY <1>t, <2>n, Parted
  <2>4. write_buffer' \in [Clients -> Seq(Positions)] /\ up' \in [Clients -> Seq(Positions)]
    BY <1>0, <2>1, <2>3 DEF EchoTypeOK
  <2> HIDE DEF v, z
  <2>5. /\ conn[c] = "open" /\ read_in_progress[c]
        /\ state' = [state EXCEPT ![c] = "writing"]
        /\ read_in_progress' = [read_in_progress EXCEPT ![c] = FALSE]
        /\ write_in_progress' = [write_in_progress EXCEPT ![c] = TRUE]
        /\ UNCHANGED <<conn, down, clientVars, reset>>
    BY <1>2 DEF HandleRead, start_operations
  <2>6. EchoTypeOK'
    BY <1>0, <2>4, <2>5 DEF EchoTypeOK, clientVars
  <2>7. write_buffer[c] = <<>> /\ v # <<>>
    BY <1>0, <2>3, <2>5 DEF Operation, EchoTypeOK
  <2>8. Fresh(c)' /\ Operation(c)'
    BY <1>0, <2>2, <2>5, <2>7 DEF EchoTypeOK, Fresh, Operation, ClientGone, clientVars
  <2>9. Carried(reply[c], down[c], v, z) = Carried(reply[c], down[c], <<>>, v \o z)
    BY <1>t, <2>3, ReadCarries
  <2>10. Holds(c)'
    <3>1. Carried(reply[c], down[c], v, z) = Request(written[c])
      BY <1>0, <2>e, <2>7, <2>9 DEF Holds
    <3>2. Len(v) <= data_size
      BY <1>t, <2>1, <2>3
    <3> QED
      BY <2>2, <2>5, <3>1, <3>2 DEF Holds, clientVars
  <2> QED
    BY <2>6, <2>8, <2>10
<1>3. CASE HandleWrite(c)
  <2>1. PICK n \in 1..data_size :
          LET left == rest(write_buffer[c], n)
              next == IF left # <<>> THEN "writing" ELSE "reading"
          IN  /\ n <= Len(write_buffer[c]) /\ n <= DownCap - Len(down[c])
              /\ down' = [down EXCEPT ![c] = @ \o SubSeq(write_buffer[c], 1, n)]
              /\ write_buffer' = [write_buffer EXCEPT ![c] = left]
              /\ state' = [state EXCEPT ![c] = next]
              /\ start_operations(c, next)
    BY <1>3 DEF HandleWrite
  <2> DEFINE v == SubSeq(write_buffer[c], 1, n)
             z == SubSeq(write_buffer[c], n + 1, Len(write_buffer[c]))
             next == IF z # <<>> THEN "writing" ELSE "reading"
  <2>2. /\ n \in 1..Len(write_buffer[c])
        /\ down' = [down EXCEPT ![c] = @ \o v]
        /\ write_buffer' = [write_buffer EXCEPT ![c] = z]
        /\ state' = [state EXCEPT ![c] = next]
        /\ start_operations(c, next)
    BY <1>t, <2>1 DEF rest
  <2>3. /\ v \in Seq(Positions) /\ z \in Seq(Positions)
        /\ Len(z) = Len(write_buffer[c]) - n
    BY <1>t, <2>2, Parted
  <2>e. v \o z = write_buffer[c]
    BY <1>t, <2>2, Parted
  <2> HIDE DEF v, z
  <2>4. down[c] \o v \in Seq(Positions)
    BY <1>t, <2>3
  <2>5. /\ write_buffer' \in [Clients -> Seq(Positions)] /\ down' \in [Clients -> Seq(Positions)]
        /\ write_buffer'[c] = z /\ down'[c] = down[c] \o v
    BY <1>0, <2>2, <2>3, <2>4 DEF EchoTypeOK
  <2>6. /\ conn[c] = "open" /\ write_in_progress[c]
        /\ UNCHANGED <<conn, up, clientVars, reset>>
    BY <1>3 DEF HandleWrite
  <2>7. /\ read_in_progress' = [read_in_progress EXCEPT ![c] = next = "reading"]
        /\ write_in_progress' = [write_in_progress EXCEPT ![c] = next = "writing"]
        /\ next \in {"reading", "writing"}
        /\ (next = "writing") <=> (z # <<>>)
    BY <2>2 DEF start_operations
  <2> HIDE DEF next
  <2>b. read_in_progress' \in [Clients -> BOOLEAN] /\ write_in_progress' \in [Clients -> BOOLEAN]
    <3>1. CASE next = "reading"
      BY <1>0, <2>7, <3>1 DEF EchoTypeOK
    <3>2. CASE next = "writing"
      BY <1>0, <2>7, <3>2 DEF EchoTypeOK
    <3> QED
      BY <2>7, <3>1, <3>2
  <2>8. EchoTypeOK'
    BY <1>0, <2>2, <2>5, <2>6, <2>7, <2>b DEF EchoTypeOK, clientVars
  <2>9. Fresh(c)' /\ Operation(c)'
    BY <1>0, <2>2, <2>5, <2>6, <2>7 DEF EchoTypeOK, Fresh, Operation, ClientGone, clientVars
  <2>10. Carried(reply[c], down[c] \o v, z, up[c]) = Carried(reply[c], down[c], v \o z, up[c])
    BY <1>t, <2>3, WriteCarries
  <2>11. Holds(c)'
    BY <1>0, <1>t, <2>2, <2>3, <2>e, <2>5, <2>6, <2>10 DEF Holds, clientVars
  <2> QED
    BY <2>8, <2>9, <2>11
<1> QED
  BY <1>1, <1>2, <1>3

(* The inductive invariant holds when nothing is connected. *)
LEMMA EchoStarts == Init => EchoInv
<1> SUFFICES ASSUME Init PROVE EchoInv
  OBVIOUS
<1>1. EchoTypeOK
  BY DEF Init, EchoTypeOK
<1>2. ASSUME NEW c \in Clients PROVE Fresh(c) /\ Operation(c)
  BY DEF Init, Fresh, Operation
<1>3. ASSUME NEW c \in Clients PROVE Holds(c)
  BY EchoAssumption DEF Init, Holds, Carried, Request
<1> QED
  BY <1>1, <1>2, <1>3 DEF EchoInv

(* Every step keeps it. *)
LEMMA EchoKeeps == EchoInv /\ [Next]_vars => EchoInv'
<1> SUFFICES ASSUME EchoInv, [Next]_vars PROVE EchoInv'
  OBVIOUS
<1>0. EchoTypeOK
  BY DEF EchoInv
<1>1. ASSUME NEW c \in Clients,
             Connect(c) \/ Write(c) \/ Read(c) \/ Fail(c) \/ Reset(c)
      PROVE  EchoInv'
  BY <1>0, <1>1, ClientKeeps, OthersKeep, Untouched DEF EchoInv
<1>2. ASSUME NEW c \in Clients,
             Accept(c) \/ AcceptError(c) \/ HandleRead(c) \/ WouldBlock(c) \/ HandleWrite(c)
               \/ HandleError(c)
      PROVE  EchoInv'
  BY <1>0, <1>2, ServerKeeps, OthersKeep, Untouched DEF EchoInv
<1>3. CASE UNCHANGED vars
  <2>1. EchoTypeOK'
    BY <1>0, <1>3 DEF EchoTypeOK, vars, serverVars, clientVars
  <2> QED
    BY <1>3, <2>1, Untouched DEF EchoInv, vars, serverVars, clientVars
<1> QED
  BY <1>1, <1>2, <1>3 DEF Next

(* It holds in every reachable state. *)
LEMMA EchoInvariant == Spec => []EchoInv
BY EchoStarts, EchoKeeps, PTL DEF Spec

(* Nothing of a request is lost, repeated or reordered on its way through the
   session's buffer and back, whatever do_read and do_write leave for later,
   and no more is taken than data_ holds. *)
THEOREM RequestsConserved == Spec => []Conserved
<1>1. EchoInv => Conserved
  BY DEF EchoInv, Holds, Carried, Request, Conserved
<1> QED
  BY <1>1, EchoInvariant, PTL

(* start_operations leaves exactly the wait outstanding that the session
   wants, and a connection is closed only when its peer is gone. *)
THEOREM WaitsForOne == Spec => []OneOperation
<1>1. EchoInv => OneOperation
  BY DEF EchoInv, Operation, OneOperation
<1> QED
  BY <1>1, EchoInvariant, PTL
=============================================================================
