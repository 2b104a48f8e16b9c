----------------------------- MODULE MCFunctions -----------------------------
(* The functions without state of their own, side by side: each behaviour is
   one header decoded, one search or one array sorted; the state of the others
   stays. *)
EXTENDS ChatMessage, Kmp, MySort

CONSTANTS
  MaxLength,  \* the longest body a sender asks for
  MaxText, MaxPattern, Letters, \* the strings that are searched
  MaxArray, Keys \* the arrays that are sorted

VARIABLES
  program,
  done, \* the function has returned
  requested, header, decoded, \* the length asked for, the header, what the receiver makes of it
  text, pattern, found,       \* the arguments of a search and its answer
  array, sorted               \* the array to be sorted, and what issort returned

functionVars == <<done, requested, header, decoded, text, pattern, found, array, sorted>>
callVars == <<program, functionVars, sortVars>>

NotYet == [res |-> "none", body_length |-> 0]

(* A low, a middle and the high digit, and every other class. *)
Alphabet == {0, 1, 5, 9, Blank, Minus, Plus, Nul, Other}

Strings(n) == UNION {[1..k -> Letters] : k \in 0..n}
Arrays == UNION {[1..k -> Keys] : k \in 0..MaxArray}

FunctionsInit ==
  /\ IF program = "message"
     THEN \/ /\ requested \in 0..MaxLength
             /\ header = encode_header(set_body_length(requested))
          \/ requested = -1 /\ header \in [1..header_length -> Alphabet]
     ELSE requested = -1 /\ header = [i \in 1..header_length |-> Blank]
  /\ IF program = "search"
     THEN text \in Strings(MaxText) /\ pattern \in Strings(MaxPattern)
     ELSE text = <<>> /\ pattern = <<>>
  /\ IF program = "sort"
     THEN \E a \in Arrays : array = [i \in DOMAIN a |-> [key |-> a[i], tag |-> i]]
     ELSE array = <<>>
  /\ done = FALSE /\ decoded = NotYet /\ found = <<>>
  /\ sorted = [res |-> -1, data |-> <<>>]
  /\ SortInit(array)

Decode ==
  /\ program = "message" /\ ~done /\ done' = TRUE
  /\ decoded' = decode_header(header)
  /\ UNCHANGED <<program, requested, header, text, pattern, found, array, sorted>>
  /\ UNCHANGED sortVars

Search ==
  /\ program = "search" /\ ~done /\ done' = TRUE
  /\ found' = kmp(text, pattern)
  /\ UNCHANGED <<program, requested, header, decoded, text, pattern, array, sorted>>
  /\ UNCHANGED sortVars

InsertionSort ==
  /\ program = "sort" /\ ~done /\ done' = TRUE
  /\ sorted' \in issort(array)
  /\ UNCHANGED <<program, requested, header, decoded, text, pattern, found, array>>
  /\ UNCHANGED sortVars

FunctionsNext ==
  \/ Decode \/ Search \/ InsertionSort
  \/ program = "sort" /\ SortNext /\ UNCHANGED <<program, functionVars>>

FunctionsSpec ==
  /\ program \in {"message", "search", "sort"} /\ FunctionsInit
  /\ [][FunctionsNext]_callVars
-----------------------------------------------------------------------------
(* What encode_header writes for a (clamped) length, decode_header reads
   back as that very length: the two ends of a frame agree where it ends.
   And whatever four characters arrive, the length that do_read_body is given
   fits data_: a longer or a negative one is refused and reset to zero. *)
RoundTrip ==
  /\ program = "message" /\ done /\ requested >= 0 =>
       decoded = [res |-> "ok", body_length |-> set_body_length(requested)]
  /\ decoded.body_length \in 0..max_body_length
  /\ decoded.res = "bad" => decoded.body_length = 0

(* kmp finds every place of the pattern, overlapping ones too, each once and
   in order, and never more than its array has room for. *)
KmpFindsAll ==
  program = "search" /\ done =>
    /\ {found[i] : i \in 1..Len(found)} = Occurrences(text, pattern)
    /\ \A i \in 1..(Len(found) - 1) : found[i] < found[i + 1]
    /\ Len(found) <= Len(text)

(* issort sorts if it returns 0, and keeps equal elements in their order.  Whatever pivots
   it draws, qksort loses and doubles no element and its scans stay inside
   of the range.  (They do not sort it: the upward scan passes everything
   that is not equal to the pivot.) *)
Sorting ==
  /\ sorted.res = 0 => StablySorted(sorted.data) /\ Permuted(sorted.data, array)
  /\ ~outside /\ Permuted(arr, array)
=============================================================================
