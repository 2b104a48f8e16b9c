--------------------------------- MODULE Kmp ---------------------------------
(***************************************************************************)
(* The string search of Project1/FileTransMain.cpp.  Strings are sequences *)
(* of characters; places count from 0 as in C, and the terminator behind a *)
(* string is a character that it does not hold.                            *)
(***************************************************************************)
EXTENDS Integers, Sequences

Char(s, i) == IF i < Len(s) THEN s[i + 1] ELSE "NUL"

(* while (j > 0 && x != p[j]) j = pi[j - 1]; *)
fall_back(pi, p, x, j0) ==
  LET from[j \in 0..Len(p)] == IF j > 0 /\ x # Char(p, j) THEN from[pi[j - 1]] ELSE j
  IN  from[j0]

(* pi and j after the turn for i: pi[i] is the length of the longest proper
   prefix of p that ends at i. *)
getPi(p) ==
  LET after[i \in 0..Len(p)] ==
        IF i = 0 THEN [pi |-> [k \in 0..Len(p) |-> 0], j |-> 0]
        ELSE LET j == fall_back(after[i - 1].pi, p, Char(p, i), after[i - 1].j)
             IN  IF i < Len(p) /\ Char(p, i) = Char(p, j)
                 THEN [pi |-> [after[i - 1].pi EXCEPT ![i] = j + 1], j |-> j + 1]
                 ELSE [pi |-> after[i - 1].pi, j |-> j]
  IN  after[Len(p)].pi

(* Mutant: the search starts afresh behind a match. *)
next_match_afresh(pi, j) == 0
(* j = pi[j], after a match that ends with p[j] *)
next_match(pi, j) == pi[j]

(* The places where p begins in s, in order. *)
kmp(s, p) ==
  LET pi == getPi(p)
      before[i \in 0..Len(s)] ==
        IF i = 0 THEN [ans |-> <<>>, j |-> 0]
        ELSE LET ans == before[i - 1].ans
                 j == fall_back(pi, p, Char(s, i - 1), before[i - 1].j)
             IN  IF Char(s, i - 1) # Char(p, j) THEN [ans |-> ans, j |-> j]
                 ELSE IF j = Len(p) - 1
                 THEN [ans |-> Append(ans, i - Len(p)), j |-> next_match(pi, j)]
                 ELSE [ans |-> ans, j |-> j + 1]
  IN  before[Len(s)].ans
-----------------------------------------------------------------------------
(* What a search should find: every place, overlapping ones too. *)
Occurrences(s, p) ==
  {i \in 0..(Len(s) - Len(p)) : p # <<>> /\ SubSeq(s, i + 1, i + Len(p)) = p}
=============================================================================
