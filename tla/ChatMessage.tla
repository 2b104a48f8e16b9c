----------------------------- MODULE ChatMessage -----------------------------
(***************************************************************************)
(* class chat_message (MyChat/MyChatMessage.hpp): the framing that the     *)
(* chat server and the chat client share.  A frame is header_length        *)
(* characters holding the decimal body length, then the body itself.       *)
(* Header characters are numbers: 0..9 are the digits, the other classes   *)
(* that strncat_s and atoi tell apart have a code of their own.            *)
(***************************************************************************)
EXTENDS Integers, Sequences

CONSTANTS
  max_body_length, \* enum max_body_length (512 in the code, less in models)
  destsz           \* the size strncat_s is given in decode_header

header_length == 4

(* The largest length that "%4d" writes in header_length characters. *)
longest == 9999

(***************************************************************************)
(* The array in decode_header holds header_length + 1 characters, and the  *)
(* call tells strncat_s that it holds header_length.  Both are allowed     *)
(* here: the first is what the array is, the second what the call says.    *)
(***************************************************************************)
ASSUME MessageAssumption ==
  /\ max_body_length \in 0..longest
  /\ destsz \in {header_length, header_length + 1}

Blank == 10
Minus == 11
Plus  == 12
Nul   == 13
Other == 14  \* a character of none of the classes above

Headers == [1..header_length -> 0..Other]

IsDigit(ch) == ch \in 0..9

(* body_length(new_length): the setter clamps to max_body_length. *)
set_body_length(new_length) ==
  IF new_length > max_body_length THEN max_body_length ELSE new_length

(* sprintf_s(header, "%4d", body_length_): right-aligned decimal digits. *)
encode_header(body_length) ==
  [i \in 1..header_length |->
     LET weight == <<1000, 100, 10, 1>>[i]
     IN  IF i = header_length \/ body_length >= weight
         THEN (body_length \div weight) % 10
         ELSE Blank]

(* std::atoi skips blanks, takes a sign, then digits up to the first other
   character: the places of those digits, and the number they make. *)
InNumber(str, k) ==
  \E f \in 1..k :
    /\ \A j \in f..k : IsDigit(str[j])
    /\ \A j \in 1..(f - 2) : str[j] = Blank
    /\ f > 1 => str[f - 1] \in {Blank, Minus, Plus}

IsNegative(str) ==
  \E i \in 1..header_length : str[i] = Minus /\ \A j \in 1..(i - 1) : str[j] = Blank

accumulate(str, k, value) ==
  IF InNumber(str, k) THEN 10 * value + str[k] ELSE value

atoi(str) ==
  LET value == accumulate(str, 4, accumulate(str, 3, accumulate(str, 2,
                 accumulate(str, 1, 0))))
  IN  IF IsNegative(str) THEN -value ELSE value

(***************************************************************************)
(* strncat_s appends the source, up to a NUL, when that fits destsz with   *)
(* its terminator.  Otherwise the invalid parameter handler ends the       *)
(* process.                                                                *)
(***************************************************************************)
strncat_s_fits(src) ==
  \E n \in 0..(destsz - 1) :
    /\ \A i \in 1..n : src[i] # Nul
    /\ n = header_length \/ src[n + 1] = Nul

(* Mutant: an off-by-one. *)
decode_header_ge(header) ==
  LET len == atoi(header)
  IN  IF ~strncat_s_fits(header) THEN [res |-> "abort", body_length |-> 0]
      ELSE IF len < 0 \/ len >= max_body_length
           THEN [res |-> "bad", body_length |-> 0]
           ELSE [res |-> "ok", body_length |-> len]

(***************************************************************************)
(* decode_header: "abort" when the copy ends the process, otherwise what   *)
(* the call returns ("ok", "bad") with the body_length_ it leaves behind.  *)
(* atoi's int is stored in a size_t, so a negative length is a huge one.   *)
(***************************************************************************)
decode_header(header) ==
  LET len == atoi(header)
  IN  IF ~strncat_s_fits(header) THEN [res |-> "abort", body_length |-> 0]
      ELSE IF len < 0 \/ len > max_body_length
           THEN [res |-> "bad", body_length |-> 0]
           ELSE [res |-> "ok", body_length |-> len]
=============================================================================
