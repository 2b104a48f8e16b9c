-------------------------- MODULE ChatMessageProofs --------------------------
(* What encode_header and decode_header do, for every length and header, what
   that makes of the messages that travel, and the streams they are put in:
   the bytes of one connection in one direction, sent and not yet read. *)
EXTENDS ChatWire, SequenceTheorems, TLAPS

(* encode_header writes digits and blanks only, for every length that "%4d"
   has room for. *)
LEMMA EncodeChars ==
  ASSUME NEW n \in 0..longest, NEW i \in 1..header_length
  PROVE  encode_header(n)[i] \in 0..Blank
<1> DEFINE w == <<1000, 100, 10, 1>>[i]
<1>1. \A v \in {1000, 100, 10, 1} : (n \div v) % 10 \in 0..9
  BY DEF longest
<1>2. w \in {1000, 100, 10, 1}
  BY DEF header_length
<1> HIDE DEF w
<1>3. (n \div w) % 10 \in 0..9
  BY <1>1, <1>2
<1> QED
  BY <1>3 DEF w, encode_header, header_length, Blank

(* So it yields a header. *)
LEMMA EncodeType ==
  ASSUME NEW n \in 0..longest
  PROVE  encode_header(n) \in Headers
BY EncodeChars DEF encode_header, Headers, Other, Blank

(* Every header yields a number. *)
LEMMA AtoiType ==
  ASSUME NEW h \in Headers
  PROVE  atoi(h) \in Int
<1>1. \A k \in 1..4, v \in Int : accumulate(h, k, v) \in Int
  BY DEF accumulate, Headers, header_length, Other
<1> QED
  BY <1>1 DEF atoi

(* The length that do_read_body is given fits data_, whatever four
   characters arrived, and is zero when they were refused. *)
THEOREM DecodeFits ==
  ASSUME NEW h \in Headers
  PROVE  /\ decode_header(h).body_length \in 0..max_body_length
         /\ decode_header(h).res # "ok" => decode_header(h).body_length = 0
BY AtoiType, MessageAssumption DEF decode_header

(* atoi reads the digits of "%4d" back: the four cases are the four widths. *)
LEMMA AtoiEncode ==
  ASSUME NEW n \in 0..longest
  PROVE  atoi(encode_header(n)) = n
<1> DEFINE h == encode_header(n)
<1>1. h[4] = n % 10
  BY DEF encode_header, header_length
<1>2. h[3] = IF n >= 10 THEN (n \div 10) % 10 ELSE Blank
  BY DEF encode_header, header_length
<1>3. h[2] = IF n >= 100 THEN (n \div 100) % 10 ELSE Blank
  BY DEF encode_header, header_length
<1>4. h[1] = IF n >= 1000 THEN (n \div 1000) % 10 ELSE Blank
  BY DEF encode_header, header_length
<1> HIDE DEF h
<1> DEFINE a == n \div 1000
           b == (n \div 100) % 10
           c == (n \div 10) % 10
           d == n % 10
<1>5. /\ a \in 0..9 /\ b \in 0..9 /\ c \in 0..9 /\ d \in 0..9
      /\ n = 1000 * a + 100 * b + 10 * c + d
      /\ a % 10 = a
  <2> DEFINE q == n \div 10
             r == n \div 100
  <2>1. n = 10 * q + d /\ q \in 0..999 /\ d \in 0..9
    <3>1. n = 10 * (n \div 10) + (n % 10)
      BY DEF longest
    <3>2. n \div 10 \in 0..999
      BY SMTT(30) DEF longest
    <3>3. n % 10 \in 0..9
      BY SMTT(30) DEF longest
    <3> QED
      BY <3>1, <3>2, <3>3
  <2>2. q \div 10 = r /\ r \div 10 = a
    <3>1. q \div 10 = r
      BY SMTT(30) DEF longest
    <3>2. r \div 10 = a
      BY SMTT(30) DEF longest
    <3> QED
      BY <3>1, <3>2
  <2>3. /\ q = 10 * (q \div 10) + (q % 10)
        /\ q % 10 \in 0..9 /\ q \div 10 \in 0..99
    BY <2>1
  <2>4. /\ r = 10 * (r \div 10) + (r % 10)
        /\ r % 10 \in 0..9 /\ r \div 10 \in 0..9
    BY <2>2, <2>3
  <2> QED
    BY <2>1, <2>2, <2>3, <2>4
<1>6. /\ n < 1000 => a = 0
      /\ n < 100 => b = 0
      /\ n < 10 => c = 0
  BY SMTT(30) DEF longest
<1> HIDE DEF a, b, c, d
<1>7. /\ h[4] = d
      /\ h[3] = IF n >= 10 THEN c ELSE Blank
      /\ h[2] = IF n >= 100 THEN b ELSE Blank
      /\ h[1] = IF n >= 1000 THEN a ELSE Blank
  BY <1>1, <1>2, <1>3, <1>4, <1>5 DEF a, b, c, d
<1>8. ~IsNegative(h)
  BY <1>5, <1>7 DEF IsNegative, header_length, Minus, Blank
<1>9. /\ InNumber(h, 4)
      /\ InNumber(h, 3) <=> n >= 10
      /\ InNumber(h, 2) <=> n >= 100
      /\ InNumber(h, 1) <=> n >= 1000
  <2>1. InNumber(h, 1) <=> n >= 1000
    BY <1>5, <1>7 DEF InNumber, IsDigit, Blank
  <2>2. InNumber(h, 2) <=> n >= 100
    BY <1>5, <1>7 DEF InNumber, IsDigit, Blank
  <2>3. InNumber(h, 3) <=> n >= 10
    BY <1>5, <1>7 DEF InNumber, IsDigit, Blank
  <2>4. InNumber(h, 4)
    <3>1. CASE n >= 1000
      BY <1>5, <1>7, <3>1 DEF InNumber, IsDigit, Blank
    <3>2. CASE n < 1000
      BY <1>5, <1>7, <3>2 DEF InNumber, IsDigit, Blank
    <3> QED
      BY <3>1, <3>2
  <2> QED
    BY <2>1, <2>2, <2>3, <2>4
<1>10. atoi(h) = n
  <2> DEFINE v1 == accumulate(h, 1, 0)
             v2 == accumulate(h, 2, v1)
             v3 == accumulate(h, 3, v2)
             v4 == accumulate(h, 4, v3)
  <2>1. v1 = a
    BY <1>5, <1>6, <1>7, <1>9 DEF accumulate
  <2>2. v2 = 10 * a + b
    BY <2>1, <1>5, <1>6, <1>7, <1>9 DEF accumulate
  <2>3. v3 = 100 * a + 10 * b + c
    BY <2>2, <1>5, <1>6, <1>7, <1>9 DEF accumulate
  <2>4. v4 = n
    BY <2>3, <1>5, <1>6, <1>7, <1>9 DEF accumulate
  <2> QED
    BY <2>4, <1>8 DEF atoi
<1> QED
  BY <1>10 DEF h

(* What encode_header writes, decode_header reads back, when strncat_s is
   told the size the array has: sender and receiver agree where a frame
   ends. *)
THEOREM DecodeEncode ==
  ASSUME NEW n \in 0..max_body_length, destsz = header_length + 1
  PROVE  decode_header(encode_header(n)) = [res |-> "ok", body_length |-> n]
<1>1. n \in 0..longest
  BY SMTT(30), MessageAssumption DEF longest
<1>2. \A i \in 1..header_length : encode_header(n)[i] # Nul
  BY <1>1, EncodeChars DEF Blank, Nul
<1>3. strncat_s_fits(encode_header(n))
  BY <1>2 DEF strncat_s_fits, header_length
<1>4. atoi(encode_header(n)) = n
  BY <1>1, AtoiEncode
<1> QED
  BY <1>3, <1>4, MessageAssumption DEF decode_header

(* As shipped the two do not agree on any length: strncat_s is told a size
   that no header fits, and the process ends. *)
THEOREM DecodeAborts ==
  ASSUME NEW n \in 0..max_body_length, destsz = header_length
  PROVE  decode_header(encode_header(n)).res = "abort"
<1>1. n \in 0..longest
  BY SMTT(30), MessageAssumption DEF longest
<1>2. \A i \in 1..header_length : encode_header(n)[i] # Nul
  BY <1>1, EncodeChars DEF Blank, Nul
<1> QED
  BY <1>2 DEF decode_header, strncat_s_fits, header_length
-----------------------------------------------------------------------------
(* The lengths of bodies are lengths that "%4d" writes. *)
LEMMA BodyLength ==
  ASSUME NEW b \in AllBodies
  PROVE  /\ body_length(b) \in 0..max_body_length
         /\ body_length(b) \in 0..longest
         /\ b \in Bodies => body_length(b) > 0 /\ size[b] = body_length(b)
<1>0. longest \in Nat
  BY DEF longest
<1>1. max_body_length \in Nat /\ 0..max_body_length \subseteq 0..longest
  BY <1>0, MessageAssumption
<1>2. /\ body_length(b) \in 0..max_body_length
      /\ b \in Bodies => body_length(b) > 0 /\ size[b] = body_length(b)
  BY <1>1, WireAssumption DEF AllBodies, body_length
<1> QED
  BY <1>1, <1>2

(* What decode_header makes of a header that travels here. *)
LEMMA DecodedType ==
  ASSUME NEW h \in WireHeaders
  PROVE  /\ decoded[h] = decode_header(h)
         /\ decoded[h].body_length \in 0..max_body_length
<1>1. h \in Headers
  BY BodyLength, EncodeType, WireAssumption DEF WireHeaders
<1> QED
  BY <1>1, DecodeFits DEF decoded

(* A frame's own header announces its own body, or ends the process. *)
LEMMA GoodHeader ==
  ASSUME NEW b \in AllBodies
  PROVE  /\ Message(b).header \in WireHeaders
         /\ Message(b) \in Messages
         /\ decoded[Message(b).header].res = "ok" =>
              decoded[Message(b).header].body_length = body_length(b)
<1>1. Message(b).header = encode_header(body_length(b)) /\ Message(b).body = b
  BY DEF Message
<1>2. Message(b).header \in WireHeaders
  BY <1>1 DEF WireHeaders
<1>3. Message(b) \in Messages
  BY <1>1, <1>2 DEF Message, Messages
<1>4. decoded[Message(b).header] = decode_header(encode_header(body_length(b)))
  BY <1>1, <1>2, DecodedType
<1>5. CASE destsz = header_length + 1
  <2>1. decode_header(encode_header(body_length(b)))
          = [res |-> "ok", body_length |-> body_length(b)]
    BY <1>5, BodyLength, DecodeEncode
  <2> QED
    BY <1>2, <1>3, <1>4, <2>1
<1>6. CASE destsz = header_length
  <2>1. decode_header(encode_header(body_length(b))).res = "abort"
    BY <1>6, BodyLength, DecodeAborts
  <2> QED
    BY <1>2, <1>3, <1>4, <2>1
<1> QED
  BY <1>5, <1>6, MessageAssumption

(* A message's own frame is a part of a stream. *)
LEMMA FrameType ==
  ASSUME NEW b \in AllBodies
  PROVE  Message(b) \in Messages /\ Message(b).body = b /\ Frame(Message(b)) \in Seq(Units)
<1>1. /\ Message(b) \in Messages /\ Message(b).body = b
      /\ Message(b).header \in WireHeaders
  BY GoodHeader DEF Message
<1>2. HeaderUnit(Message(b).header) \in Units /\ (b # NoBody => BodyUnit(b) \in Units)
  BY <1>1 DEF HeaderUnit, BodyUnit, Units, AllBodies
<1>3. Frame(Message(b)) = IF b = NoBody THEN <<HeaderUnit(Message(b).header)>>
                          ELSE <<HeaderUnit(Message(b).header), BodyUnit(b)>>
  BY <1>1 DEF Frame
<1> QED
  BY <1>1, <1>2, <1>3
-----------------------------------------------------------------------------
(* What decode_header says of a unit of the stream: whether its reader goes
   on after it, whether a message ends with it, whether it is of message b. *)
Ok(u) == u.part = "header" => decoded[u.val].res = "ok"
EndsMsg(u) == u.part = "body" \/ decoded[u.val].body_length = 0
Belongs(u, b) ==
  IF u.part = "body" THEN u.val = b ELSE decoded[u.val].body_length = body_length(b)

(* The first n units of a stream u are of the messages s[at[1]], s[at[2]] ...
   and begin with the given part of s[k].  Behind them is a header that ends
   the reading, or nothing; and nothing is missing unless the stream was cut. *)
Parts == {"header", "body"}
Covered(u, s, n, at) ==
  \A i \in 1..n : Ok(u[i]) /\ at[i] \in 1..Len(s) /\ Belongs(u[i], s[at[i]])
InTurn(u, n, at) ==
  \A i \in 1..(n - 1) :
    /\ at[i + 1] = IF EndsMsg(u[i]) THEN at[i] + 1 ELSE at[i]
    /\ u[i + 1].part = "header" <=> EndsMsg(u[i])
Begins(u, k, part, n, at) == n > 0 => at[1] = k /\ u[1].part = part
Complete(u, s, k, part, n, at) ==
  IF n = 0 THEN k = Len(s) + 1 /\ part = "header" ELSE at[n] = Len(s) /\ EndsMsg(u[n])
Stops(u, part, n) ==
  /\ u[n + 1].part = "header" /\ ~Ok(u[n + 1])
  /\ IF n = 0 THEN part = "header" ELSE EndsMsg(u[n])
Planned(u, s, k, part, end, n, at) ==
  /\ Covered(u, s, n, at) /\ InTurn(u, n, at) /\ Begins(u, k, part, n, at)
  /\ n < Len(u) => Stops(u, part, n)
  /\ n = Len(u) /\ end = "whole" => Complete(u, s, k, part, n, at)
Stream(u, s, k, part, end) ==
  \E n \in 0..Len(u) : \E at \in [1..n -> 1..Len(s)] :
    Planned(u, s, k, part, end, n, at)

(* Where the elements of a concatenation come from. *)
LEMMA ConcatAt ==
  ASSUME NEW S, NEW a \in Seq(S), NEW b \in Seq(S)
  PROVE  /\ Len(a \o b) = Len(a) + Len(b)
         /\ \A i \in 1..Len(a) : (a \o b)[i] = a[i]
         /\ \A i \in 1..Len(b) : (a \o b)[Len(a) + i] = b[i]
<1>1. Len(a) \in Nat /\ Len(b) \in Nat
  OBVIOUS
<1>2. /\ Len(a \o b) = Len(a) + Len(b)
      /\ \A i \in 1..(Len(a) + Len(b)) :
           (a \o b)[i] = IF i <= Len(a) THEN a[i] ELSE b[i - Len(a)]
  BY ConcatProperties
<1>3. ASSUME NEW i \in 1..Len(b)
      PROVE  (a \o b)[Len(a) + i] = b[i]
  <2>1. /\ Len(a) + i \in 1..(Len(a) + Len(b)) /\ ~(Len(a) + i <= Len(a))
        /\ (Len(a) + i) - Len(a) = i
    BY <1>1
  <2> QED
    BY <1>2, <2>1
<1>4. ASSUME NEW i \in 1..Len(a)
      PROVE  (a \o b)[i] = a[i]
  <2>1. i \in 1..(Len(a) + Len(b)) /\ i <= Len(a)
    BY <1>1
  <2> QED
    BY <1>2, <2>1
<1> QED
  BY <1>2, <1>3, <1>4

(* The first m elements of a sequence. *)
LEMMA Prefix ==
  ASSUME NEW S, NEW q \in Seq(S), NEW m \in 0..Len(q)
  PROVE  /\ SubSeq(q, 1, m) \in Seq(S) /\ Len(SubSeq(q, 1, m)) = m
         /\ \A i \in 1..m : SubSeq(q, 1, m)[i] = q[i]
OBVIOUS

(* Streams.  What the first j units are of depends on nothing behind them. *)
LEMMA PlanSame ==
  ASSUME NEW u, NEW v, NEW s, NEW t, NEW k, NEW part, NEW n \in Nat, NEW j \in 0..n,
         NEW at, NEW bt, Len(s) \in Nat, Len(t) \in Nat, Len(s) <= Len(t),
         \A i \in 1..Len(s) : t[i] = s[i],
         \A i \in 1..j : v[i] = u[i] /\ bt[i] = at[i],
         Covered(u, s, n, at), InTurn(u, n, at), Begins(u, k, part, n, at)
  PROVE  Covered(v, t, j, bt) /\ InTurn(v, j, bt) /\ Begins(v, k, part, j, bt)
<1>1. ASSUME NEW i \in 1..j
      PROVE  Ok(v[i]) /\ bt[i] \in 1..Len(t) /\ Belongs(v[i], t[bt[i]])
  <2>1. v[i] = u[i] /\ bt[i] = at[i] /\ i \in 1..n
    OBVIOUS
  <2>2. Ok(u[i]) /\ at[i] \in 1..Len(s) /\ Belongs(u[i], s[at[i]])
    BY <2>1 DEF Covered
  <2>3. at[i] \in 1..Len(t) /\ t[at[i]] = s[at[i]]
    BY <2>2
  <2> QED
    BY <2>1, <2>2, <2>3
<1>2. ASSUME NEW i \in 1..(j - 1)
      PROVE  /\ bt[i + 1] = IF EndsMsg(v[i]) THEN bt[i] + 1 ELSE bt[i]
             /\ v[i + 1].part = "header" <=> EndsMsg(v[i])
  <2>1. i \in 1..j /\ i + 1 \in 1..j /\ i \in 1..(n - 1)
    OBVIOUS
  <2>2. v[i] = u[i] /\ v[i + 1] = u[i + 1] /\ bt[i] = at[i] /\ bt[i + 1] = at[i + 1]
    BY <2>1
  <2> QED
    BY <2>1, <2>2 DEF InTurn
<1>3. j > 0 => v[1] = u[1] /\ bt[1] = at[1] /\ n > 0
  OBVIOUS
<1> QED
  BY <1>1, <1>2, <1>3 DEF Covered, InTurn, Begins

(* A plan for all units of a stream makes it one. *)
LEMMA StreamHas ==
  ASSUME NEW u, NEW s, NEW k, NEW part, NEW end, NEW n \in Nat, NEW at,
         Len(u) \in Nat, Len(s) \in Nat, n <= Len(u), Planned(u, s, k, part, end, n, at)
  PROVE  Stream(u, s, k, part, end)
<1> DEFINE bt == [i \in 1..n |-> at[i]]
<1>1. \A i \in 1..n : at[i] \in 1..Len(s)
  BY DEF Planned, Covered
<1>2. bt \in [1..n -> 1..Len(s)] /\ \A i \in 1..n : bt[i] = at[i]
  BY <1>1
<1> HIDE DEF bt
<1>3. Covered(u, s, n, bt) /\ InTurn(u, n, bt) /\ Begins(u, k, part, n, bt)
  <2>1. /\ n \in 0..n /\ Len(s) <= Len(s)
        /\ \A i \in 1..Len(s) : s[i] = s[i]
        /\ \A i \in 1..n : u[i] = u[i] /\ bt[i] = at[i]
        /\ Covered(u, s, n, at) /\ InTurn(u, n, at) /\ Begins(u, k, part, n, at)
    BY <1>2 DEF Planned
  <2> QED
    BY <2>1, PlanSame
<1>4. Complete(u, s, k, part, n, at) => Complete(u, s, k, part, n, bt)
  BY <1>2 DEF Complete
<1>5. Planned(u, s, k, part, end, n, bt)
  BY <1>3, <1>4 DEF Planned
<1>6. n \in 0..Len(u)
  OBVIOUS
<1> QED
  BY <1>2, <1>5, <1>6 DEF Stream

(* Where nothing was sent, nothing is left to read. *)
LEMMA StreamEmpty == ASSUME NEW end PROVE Stream(<<>>, <<>>, 1, "header", end)
<1>1. Planned(<<>>, <<>>, 1, "header", end, 0, <<>>)
  BY DEF Planned, Covered, InTurn, Begins, Complete
<1>2. Len(<<>>) \in Nat /\ 0 \in Nat /\ 0 <= Len(<<>>)
  OBVIOUS
<1> QED
  BY <1>1, <1>2, StreamHas

(* A header on which the reading ends arrives behind a stream. *)
LEMMA StreamThenBad ==
  ASSUME NEW u, NEW v, NEW s, NEW t, NEW k, NEW part, Len(s) \in Nat, Len(t) \in Nat,
         Len(u) \in Nat, Len(v) \in Nat, Len(v) > Len(u), Len(t) >= Len(s),
         \A i \in 1..Len(s) : t[i] = s[i],
         \A i \in 1..Len(u) : v[i] = u[i],
         v[Len(u) + 1].part = "header", ~Ok(v[Len(u) + 1]),
         NEW n \in Nat, NEW at, n <= Len(u), Planned(u, s, k, part, "whole", n, at)
  PROVE  Stream(v, t, k, part, "whole")
<1>1. CASE n < Len(u)
  <2>1. n + 1 \in 1..Len(u) /\ (n # 0 => n \in 1..Len(u))
    BY <1>1
  <2>2. v[n + 1] = u[n + 1] /\ (n # 0 => v[n] = u[n])
    BY <2>1
  <2>3. Stops(v, part, n) /\ n < Len(v)
    BY <1>1, <2>2 DEF Planned, Stops
  <2>4. \A i \in 1..n : v[i] = u[i] /\ at[i] = at[i]
    BY <1>1
  <2>5. Covered(v, t, n, at) /\ InTurn(v, n, at) /\ Begins(v, k, part, n, at)
    <3>1. n \in 0..n /\ Covered(u, s, n, at) /\ InTurn(u, n, at) /\ Begins(u, k, part, n, at)
      BY DEF Planned
    <3> QED
      BY ZenonT(30), <2>4, <3>1, PlanSame
  <2>6. Planned(v, t, k, part, "whole", n, at)
    BY <2>3, <2>5 DEF Planned
  <2> QED
    <3>1. n <= Len(v)
      BY <2>3
    <3> QED
      BY <2>6, <3>1, StreamHas
<1>2. CASE n = Len(u)
  <2>1. Complete(u, s, k, part, n, at) /\ (n # 0 => v[n] = u[n])
    BY <1>2 DEF Planned
  <2>2. Stops(v, part, n) /\ n < Len(v)
    BY <1>2, <2>1 DEF Stops, Complete
  <2>3. \A i \in 1..n : v[i] = u[i] /\ at[i] = at[i]
    BY <1>2
  <2>4. Covered(v, t, n, at) /\ InTurn(v, n, at) /\ Begins(v, k, part, n, at)
    <3>1. n \in 0..n /\ Covered(u, s, n, at) /\ InTurn(u, n, at) /\ Begins(u, k, part, n, at)
      BY DEF Planned
    <3> QED
      BY ZenonT(30), <2>3, <3>1, PlanSame
  <2>5. Planned(v, t, k, part, "whole", n, at)
    BY <2>2, <2>4 DEF Planned
  <2> QED
    <3>1. n <= Len(v)
      BY <2>2
    <3> QED
      BY <2>5, <3>1, StreamHas
<1> QED
  BY <1>1, <1>2

(* A header that will be refused, behind whole frames, keeps the stream. *)
LEMMA StreamServeBad ==
  ASSUME NEW u \in Seq(Units), NEW s \in Seq(AllBodies), NEW k, NEW part,
         NEW h \in BadHeaders, Stream(u, s, k, part, "whole")
  PROVE  Stream(u \o <<HeaderUnit(h)>>, s, k, part, "whole")
<1> DEFINE v == u \o <<HeaderUnit(h)>>
<1>1. PICK n \in 0..Len(u) : \E at \in [1..n -> 1..Len(s)] :
        Planned(u, s, k, part, "whole", n, at)
  BY DEF Stream
<1>2. PICK at : Planned(u, s, k, part, "whole", n, at)
  BY <1>1
<1>3. HeaderUnit(h) \in Units /\ HeaderUnit(h).part = "header" /\ ~Ok(HeaderUnit(h))
  BY DecodedType, WireAssumption DEF HeaderUnit, Units, Ok, WireHeaders
<1>4. /\ Len(v) = Len(u) + 1 /\ v[Len(u) + 1] = HeaderUnit(h)
      /\ \A i \in 1..Len(u) : v[i] = u[i]
  BY <1>3
<1>5. Len(u) \in Nat /\ Len(s) \in Nat /\ n \in Nat /\ n <= Len(u)
  OBVIOUS
<1> HIDE DEF v
<1>6. Stream(v, s, k, part, "whole")
  <2>1. /\ Len(v) \in Nat /\ Len(v) > Len(u) /\ Len(s) >= Len(s)
        /\ \A i \in 1..Len(s) : s[i] = s[i]
        /\ v[Len(u) + 1].part = "header" /\ ~Ok(v[Len(u) + 1])
    BY <1>3, <1>4, <1>5
  <2> QED
    BY <1>2, <1>4, <1>5, <2>1, StreamThenBad
<1> QED
  BY <1>6 DEF v

(* The sender's end goes, and with it what is behind the first j units. *)
LEMMA StreamCut ==
  ASSUME NEW u \in Seq(Units), NEW s \in Seq(AllBodies), NEW k, NEW part, NEW end,
         NEW j \in 0..Len(u), Stream(u, s, k, part, end)
  PROVE  Stream(SubSeq(u, 1, j), s, k, part, "cut")
<1> DEFINE v == SubSeq(u, 1, j)
<1>1. PICK n \in 0..Len(u) : \E at \in [1..n -> 1..Len(s)] :
        Planned(u, s, k, part, end, n, at)
  BY DEF Stream
<1>2. PICK at : Planned(u, s, k, part, end, n, at)
  BY <1>1
<1>3. /\ Len(v) = j /\ \A i \in 1..j : v[i] = u[i]
      /\ Len(u) \in Nat /\ Len(s) \in Nat /\ j \in Nat /\ n \in Nat
      /\ n <= Len(u) /\ j <= Len(u)
  OBVIOUS
<1> HIDE DEF v
<1>4. CASE n < j
  <2>1. n + 1 \in 1..j /\ (n # 0 => n \in 1..j) /\ n < Len(u)
    BY <1>3, <1>4
  <2>2. v[n + 1] = u[n + 1] /\ (n # 0 => v[n] = u[n])
    BY <1>3, <2>1
  <2>3. Stops(v, part, n)
    BY <1>2, <2>1, <2>2 DEF Planned, Stops
  <2>4. \A i \in 1..n : v[i] = u[i] /\ at[i] = at[i]
    BY <1>3, <1>4
  <2>5. Covered(v, s, n, at) /\ InTurn(v, n, at) /\ Begins(v, k, part, n, at)
    <3>1. /\ n \in 0..n /\ Len(s) <= Len(s) /\ \A i \in 1..Len(s) : s[i] = s[i]
          /\ Covered(u, s, n, at) /\ InTurn(u, n, at) /\ Begins(u, k, part, n, at)
      BY <1>2, <1>3 DEF Planned
    <3> QED
      BY <1>3, <2>4, <3>1, PlanSame
  <2>6. Planned(v, s, k, part, "cut", n, at)
    BY <1>3, <1>4, <2>3, <2>5 DEF Planned
  <2>7. Stream(v, s, k, part, "cut")
    <3>1. n <= Len(v) /\ Len(v) \in Nat
      BY <1>3, <1>4
    <3> QED
      BY <1>3, <2>6, <3>1, StreamHas
  <2> QED
    BY <2>7 DEF v
<1>5. CASE n >= j
  <2>1. j \in 0..n
    BY <1>3, <1>5
  <2>2. Covered(v, s, j, at) /\ InTurn(v, j, at) /\ Begins(v, k, part, j, at)
    <3>1. /\ n \in Nat /\ Len(s) \in Nat /\ Len(s) <= Len(s)
          /\ \A i \in 1..Len(s) : s[i] = s[i]
          /\ \A i \in 1..j : v[i] = u[i] /\ at[i] = at[i]
          /\ Covered(u, s, n, at) /\ InTurn(u, n, at) /\ Begins(u, k, part, n, at)
      BY <1>2, <1>3 DEF Planned
    <3> QED
      BY <2>1, <3>1, PlanSame
  <2>3. Planned(v, s, k, part, "cut", j, at)
    BY <1>3, <2>2 DEF Planned
  <2>4. Stream(v, s, k, part, "cut")
    <3>1. j <= Len(v) /\ Len(v) \in Nat
      BY <1>3
    <3> QED
      BY <1>3, <2>3, <3>1, StreamHas
  <2> QED
    BY <2>4 DEF v
<1> QED
  BY <1>3, <1>4, <1>5

(* A whole message arrives behind a stream without such a header. *)
LEMMA StreamThenMessage ==
  ASSUME NEW u, NEW v, NEW s, NEW t, NEW k, NEW part, NEW b, NEW at,
         Len(s) \in Nat, Len(t) = Len(s) + 1, t[Len(s) + 1] = b,
         \A i \in 1..Len(s) : t[i] = s[i],
         NEW n \in Nat, Len(u) = n, \A i \in 1..n : v[i] = u[i],
         Ok(v[n + 1]), v[n + 1].part = "header",
         decoded[v[n + 1].val].body_length = body_length(b),
         Len(v) \in {n + 1, n + 2}, Len(v) = n + 1 <=> EndsMsg(v[n + 1]),
         Len(v) = n + 2 => v[n + 2].part = "body" /\ v[n + 2].val = b,
         Planned(u, s, k, part, "whole", n, at)
  PROVE  Stream(v, t, k, part, "whole")
<1> DEFINE bt == [i \in 1..Len(v) |-> IF i <= n THEN at[i] ELSE Len(s) + 1]
<1>1. /\ \A i \in 1..n : bt[i] = at[i]
      /\ bt[n + 1] = Len(s) + 1 /\ Len(v) \in Nat
      /\ Len(v) = n + 2 => bt[n + 2] = Len(s) + 1
  OBVIOUS
<1> HIDE DEF bt
<1>2. Complete(u, s, k, part, n, at)
  BY DEF Planned
<1>3. Covered(v, t, n, bt) /\ InTurn(v, n, bt) /\ Begins(v, k, part, n, bt)
  <2>1. /\ n \in 0..n /\ Len(t) \in Nat /\ Len(s) <= Len(t)
        /\ \A i \in 1..n : v[i] = u[i] /\ bt[i] = at[i]
        /\ Covered(u, s, n, at) /\ InTurn(u, n, at) /\ Begins(u, k, part, n, at)
    BY <1>1 DEF Planned
  <2> QED
    BY ZenonT(30), <2>1, PlanSame
<1>4. /\ Belongs(v[n + 1], b)
      /\ Len(v) = n + 2 => Belongs(v[n + 2], b) /\ Ok(v[n + 2]) /\ EndsMsg(v[n + 2])
  BY DEF Belongs, Ok, EndsMsg
<1>5. Covered(v, t, Len(v), bt)
  <2>1. ASSUME NEW i \in 1..Len(v)
        PROVE  Ok(v[i]) /\ bt[i] \in 1..Len(t) /\ Belongs(v[i], t[bt[i]])
    <3>1. CASE i \in 1..n
      BY <1>3, <3>1 DEF Covered
    <3>2. CASE i = n + 1
      BY <1>1, <1>4, <3>2
    <3>3. CASE i = n + 2 /\ Len(v) = n + 2
      BY <1>1, <1>4, <3>3
    <3> QED
      BY <3>1, <3>2, <3>3
  <2> QED
    BY <2>1 DEF Covered
<1>6. InTurn(v, Len(v), bt)
  <2>1. ASSUME NEW i \in 1..(Len(v) - 1)
        PROVE  /\ bt[i + 1] = IF EndsMsg(v[i]) THEN bt[i] + 1 ELSE bt[i]
               /\ v[i + 1].part = "header" <=> EndsMsg(v[i])
    <3>1. CASE i \in 1..(n - 1)
      BY <1>3, <3>1 DEF InTurn
    <3>2. CASE i = n
      <4>1. n # 0 /\ i + 1 = n + 1 /\ v[n] = u[n] /\ bt[n] = at[n]
        BY <1>1, <3>2
      <4>2. at[n] = Len(s) /\ EndsMsg(u[n])
        BY <1>2, <4>1 DEF Complete
      <4> QED
        BY <1>1, <3>2, <4>1, <4>2
    <3>3. CASE i = n + 1 /\ Len(v) = n + 2
      <4>1. i + 1 = n + 2 /\ ~EndsMsg(v[n + 1])
        BY <3>3
      <4> QED
        BY <1>1, <3>3, <4>1
    <3> QED
      BY <3>1, <3>2, <3>3
  <2> QED
    BY <2>1 DEF InTurn
<1>7. Begins(v, k, part, Len(v), bt)
  <2>1. CASE n = 0
    BY <1>1, <1>2, <2>1 DEF Complete, Begins
  <2>2. CASE n # 0
    BY <1>3, <2>2 DEF Begins
  <2> QED
    BY <2>1, <2>2
<1>8. Complete(v, t, k, part, Len(v), bt)
  BY <1>1, <1>4 DEF Complete
<1>9. Planned(v, t, k, part, "whole", Len(v), bt) /\ Len(t) \in Nat /\ Len(v) <= Len(v)
  BY <1>1, <1>5, <1>6, <1>7, <1>8 DEF Planned
<1> QED
  BY <1>1, <1>9, StreamHas

(* So does the frame of the next message that is sent. *)
LEMMA StreamServe ==
  ASSUME NEW u \in Seq(Units), NEW s \in Seq(AllBodies), NEW k, NEW part,
         NEW b \in AllBodies, Stream(u, s, k, part, "whole")
  PROVE  Stream(u \o Frame(Message(b)), Append(s, b), k, part, "whole")
<1> DEFINE h == HeaderUnit(Message(b).header)
           f == Frame(Message(b))
           v == u \o f
           t == Append(s, b)
<1>1. PICK n \in 0..Len(u) : \E at \in [1..n -> 1..Len(s)] :
        Planned(u, s, k, part, "whole", n, at)
  BY DEF Stream
<1>2. PICK at : Planned(u, s, k, part, "whole", n, at)
  BY <1>1
<1>3. /\ Message(b).header \in WireHeaders /\ Message(b).body = b
      /\ decoded[Message(b).header].res = "ok" =>
           decoded[Message(b).header].body_length = body_length(b)
  BY GoodHeader DEF Message
<1>4. /\ h.part = "header" /\ h.val = Message(b).header /\ h \in Units
      /\ BodyUnit(b).part = "body" /\ BodyUnit(b).val = b
      /\ b # NoBody => BodyUnit(b) \in Units
  BY <1>3 DEF HeaderUnit, BodyUnit, Units, AllBodies
<1>5. f = IF b = NoBody THEN <<h>> ELSE <<h, BodyUnit(b)>>
  BY <1>3 DEF Frame
<1>6. b = NoBody <=> body_length(b) = 0
  BY BodyLength DEF AllBodies, body_length
<1> HIDE DEF h, f
<1>7. /\ f \in Seq(Units) /\ Len(f) = IF b = NoBody THEN 1 ELSE 2
      /\ f[1] = h
      /\ b # NoBody => f[2] = BodyUnit(b)
  BY <1>4, <1>5
<1>8. /\ Len(u) \in Nat /\ Len(s) \in Nat /\ n \in Nat /\ n <= Len(u)
  OBVIOUS
<1>9. /\ Len(v) = Len(u) + Len(f)
      /\ \A i \in 1..Len(u) : v[i] = u[i]
      /\ v[Len(u) + 1] = h
      /\ b # NoBody => v[Len(u) + 2] = BodyUnit(b)
  <2>1. \A i \in 1..Len(f) : v[Len(u) + i] = f[i]
    BY <1>7, ConcatAt
  <2>2. Len(v) = Len(u) + Len(f) /\ \A i \in 1..Len(u) : v[i] = u[i]
    BY ZenonT(30), <1>7, ConcatAt
  <2>3. 1 \in 1..Len(f) /\ (b # NoBody => 2 \in 1..Len(f))
    BY <1>7
  <2> HIDE DEF v
  <2>4. v[Len(u) + 1] = f[1]
    BY <2>1, <2>3
  <2>5. b # NoBody => v[Len(u) + 2] = f[2]
    BY <2>1, <2>3
  <2> QED
    BY <1>7, <2>2, <2>4, <2>5
<1>10. /\ Len(t) = Len(s) + 1 /\ t[Len(s) + 1] = b
       /\ \A i \in 1..Len(s) : t[i] = s[i]
  OBVIOUS
<1> HIDE DEF v, t
<1>11. CASE n < Len(u) \/ ~Ok(h)
  <2>1. CASE ~Ok(h)
    <3>1. /\ Len(v) \in Nat /\ Len(v) > Len(u) /\ Len(t) \in Nat /\ Len(t) >= Len(s)
          /\ v[Len(u) + 1].part = "header" /\ ~Ok(v[Len(u) + 1])
      BY <1>4, <1>7, <1>8, <1>9, <1>10, <2>1
    <3>2. Stream(v, t, k, part, "whole")
      BY <1>2, <1>8, <1>9, <1>10, <3>1, StreamThenBad
    <3> QED
      BY <3>2 DEF v, t, f
  <2>2. CASE n < Len(u)
    <3>1. n + 1 \in 1..Len(u) /\ (n # 0 => n \in 1..Len(u))
      BY <1>8, <2>2
    <3>2. v[n + 1] = u[n + 1] /\ (n # 0 => v[n] = u[n]) /\ n < Len(v)
      BY <1>7, <1>8, <1>9, <2>2, <3>1
    <3>3. Stops(v, part, n)
      BY <1>2, <2>2, <3>2 DEF Planned, Stops
    <3>4. Covered(v, t, n, at) /\ InTurn(v, n, at) /\ Begins(v, k, part, n, at)
      <4>1. /\ n \in 0..n /\ Len(t) \in Nat /\ Len(s) <= Len(t)
            /\ \A i \in 1..n : v[i] = u[i] /\ at[i] = at[i]
            /\ Covered(u, s, n, at) /\ InTurn(u, n, at) /\ Begins(u, k, part, n, at)
        BY <1>2, <1>8, <1>9, <1>10 DEF Planned
      <4> QED
        BY <1>8, <1>10, <4>1, PlanSame
    <3>5. Planned(v, t, k, part, "whole", n, at) /\ n <= Len(v) /\ Len(v) \in Nat /\ Len(t) \in Nat
      BY <1>7, <1>8, <1>9, <1>10, <3>2, <3>3, <3>4 DEF Planned
    <3>6. Stream(v, t, k, part, "whole")
      BY <1>8, <3>5, StreamHas
    <3> QED
      BY <3>6 DEF v, t, f
  <2> QED
    BY <1>11, <2>1, <2>2
<1>12. CASE n = Len(u) /\ Ok(h)
  <2>1. /\ Len(u) = n /\ Ok(v[n + 1]) /\ v[n + 1].part = "header"
        /\ decoded[v[n + 1].val].body_length = body_length(b)
    BY <1>3, <1>4, <1>9, <1>12 DEF Ok
  <2>2. EndsMsg(v[n + 1]) <=> b = NoBody
    BY <1>6, <2>1 DEF EndsMsg
  <2>3. /\ Len(v) \in {n + 1, n + 2} /\ (Len(v) = n + 1 <=> EndsMsg(v[n + 1]))
        /\ Len(v) = n + 2 => v[n + 2].part = "body" /\ v[n + 2].val = b
        /\ \A i \in 1..n : v[i] = u[i]
    BY <1>4, <1>7, <1>8, <1>9, <1>12, <2>2
  <2>4. /\ Len(s) \in Nat /\ Len(t) = Len(s) + 1 /\ t[Len(s) + 1] = b
        /\ \A i \in 1..Len(s) : t[i] = s[i]
        /\ n \in Nat /\ Len(u) = n
        /\ Planned(u, s, k, part, "whole", n, at)
    BY <1>2, <1>8, <1>10, <2>1
  <2>5. Ok(v[n + 1]) /\ v[n + 1].part = "header"
    BY <2>1
  <2>6. Stream(v, t, k, part, "whole")
    BY SMTT(30), <2>1, <2>3, <2>4, <2>5, StreamThenMessage
  <2> QED
    BY <2>6 DEF v, t, f
<1> QED
  BY <1>8, <1>11, <1>12

(* The first unit is read. *)
LEMMA StreamTake ==
  ASSUME NEW u \in Seq(Units), u # <<>>, NEW s \in Seq(AllBodies), NEW k, NEW part, NEW end,
         Stream(u, s, k, part, end)
  PROVE  /\ u[1].part = part
         /\ Ok(u[1]) => /\ k \in 1..Len(s) /\ Belongs(u[1], s[k])
                        /\ Stream(Tail(u), s, IF EndsMsg(u[1]) THEN k + 1 ELSE k,
                                  IF EndsMsg(u[1]) THEN "header" ELSE "body", end)
<1> DEFINE w == Tail(u)
           l == IF EndsMsg(u[1]) THEN k + 1 ELSE k
           next_part == IF EndsMsg(u[1]) THEN "header" ELSE "body"
<1>1. PICK n \in 0..Len(u) : \E at \in [1..n -> 1..Len(s)] :
        Planned(u, s, k, part, end, n, at)
  BY DEF Stream
<1>2. PICK at : Planned(u, s, k, part, end, n, at)
  BY <1>1
<1>3. /\ Len(u) \in Nat /\ Len(u) > 0 /\ Len(s) \in Nat /\ n \in Nat /\ n <= Len(u)
      /\ Len(w) = Len(u) - 1 /\ \A i \in 1..(Len(u) - 1) : w[i] = u[i + 1]
      /\ \A i \in 1..Len(u) : u[i].part \in Parts
  <2>1. \A i \in 1..Len(u) : u[i] \in Units
    OBVIOUS
  <2>2. \A x \in Units : x.part \in Parts
    BY DEF Units, Parts
  <2> QED
    BY <2>1, <2>2
<1> HIDE DEF w
<1>4. CASE n = 0
  BY <1>2, <1>3, <1>4 DEF Planned, Stops
<1>5. CASE n # 0
  <2>0. /\ Covered(u, s, n, at) /\ InTurn(u, n, at) /\ Begins(u, k, part, n, at)
        /\ n < Len(u) => Stops(u, part, n)
        /\ n = Len(u) /\ end = "whole" => Complete(u, s, k, part, n, at)
    BY <1>2 DEF Planned
  <2>1. at[1] = k /\ u[1].part = part /\ k \in 1..Len(s) /\ Belongs(u[1], s[k])
    BY <1>3, <1>5, <2>0 DEF Covered, Begins
  <2> DEFINE j == n - 1
             bt == [i \in 1..j |-> at[i + 1]]
  <2>2. j \in Nat /\ j <= Len(w) /\ Len(w) \in Nat /\ \A i \in 1..j : bt[i] = at[i + 1]
    BY <1>3, <1>5
  <2>3. /\ j < Len(w) <=> n < Len(u)
        /\ j = Len(w) <=> n = Len(u)
        /\ n = j + 1
        /\ \A i \in 1..j : w[i] = u[i + 1]
        /\ n < Len(u) => w[j + 1] = u[n + 1]
    BY <1>3, <1>5, <2>2
  <2> HIDE DEF j, bt
  <2>4. Covered(w, s, j, bt)
    <3>1. ASSUME NEW i \in 1..j
          PROVE  Ok(w[i]) /\ bt[i] \in 1..Len(s) /\ Belongs(w[i], s[bt[i]])
      <4>1. i + 1 \in 1..n /\ w[i] = u[i + 1] /\ bt[i] = at[i + 1]
        BY <2>2, <2>3
      <4> QED
        BY <2>0, <4>1 DEF Covered
    <3> QED
      BY <3>1 DEF Covered
  <2>5. InTurn(w, j, bt)
    <3>1. ASSUME NEW i \in 1..(j - 1)
          PROVE  /\ bt[i + 1] = IF EndsMsg(w[i]) THEN bt[i] + 1 ELSE bt[i]
                 /\ w[i + 1].part = "header" <=> EndsMsg(w[i])
      <4>1. /\ i + 1 \in 1..(n - 1) /\ i \in 1..j /\ i + 1 \in 1..j
        BY <2>2, <2>3
      <4>2. /\ w[i] = u[i + 1] /\ bt[i] = at[i + 1]
            /\ w[i + 1] = u[(i + 1) + 1] /\ bt[i + 1] = at[(i + 1) + 1]
        BY <2>2, <2>3, <4>1
      <4> QED
        BY <2>0, <4>1, <4>2 DEF InTurn
    <3> QED
      BY <3>1 DEF InTurn
  <2>6. j # 0 => 1 \in 1..(n - 1) /\ w[1] = u[1 + 1] /\ bt[1] = at[1 + 1] /\ u[1 + 1].part \in Parts
    BY <1>3, <2>2, <2>3
  <2>7. Begins(w, l, next_part, j, bt)
    BY <2>0, <2>1, <2>2, <2>6 DEF Begins, InTurn, Parts
  <2>8. /\ j # 0 => w[j] = u[n] /\ bt[j] = at[n]
        /\ j = 0 => n = 1
    BY <2>2, <2>3
  <2>9. j < Len(w) => Stops(w, next_part, j)
    BY <2>0, <2>3, <2>8, <1>5 DEF Stops
  <2>10. j = Len(w) /\ end = "whole" => Complete(w, s, l, next_part, j, bt)
    BY <1>3, <2>0, <2>1, <2>3, <2>8, <1>5 DEF Complete
  <2>11. Planned(w, s, l, next_part, end, j, bt)
    BY <2>4, <2>5, <2>7, <2>9, <2>10 DEF Planned
  <2> HIDE DEF l, next_part
  <2>12. Stream(w, s, l, next_part, end)
    BY <1>3, <2>2, <2>11, StreamHas
  <2> QED
    BY <2>1, <2>12 DEF w, l, next_part
<1> QED
  BY <1>4, <1>5
=============================================================================
