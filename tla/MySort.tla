------------------------------- MODULE MySort --------------------------------
(***************************************************************************)
(* The sorting functions of MyUtil/MySort.c over an array of elements with *)
(* a key that compare looks at.  Places count from 1.  issort is a         *)
(* function; qksort is a machine, because its pivots are random.           *)
(***************************************************************************)
EXTENDS Integers, Sequences

CONSTANT MaxFrames \* bound: calls of qksort inside each other

ASSUME SortAssumption == MaxFrames \in Nat

VARIABLES
  arr,     \* data
  frames,  \* the ranges <<i, k>> of the running calls of qksort, the innermost first
  pivot,   \* pval of partition, or 0 outside of it
  x, y,    \* its i and k
  outside  \* a place outside of the range was compared

sortVars == <<arr, frames, pivot, x, y, outside>>

(* compare(&a[i], key) > 0 *)
moves_over(elem, key) == elem.key > key.key

(* The turn for j: the elements before j that are greater than a[j], up to
   the first that is not, move one up. *)
insert_at(a, j) ==
  LET i == CHOOSE i \in 0..(j - 1) :
             /\ i > 0 => ~moves_over(a[i], a[j])
             /\ \A h \in (i + 1)..(j - 1) : moves_over(a[h], a[j])
  IN  [h \in 1..Len(a) |-> IF h = i + 1 THEN a[j]
                           ELSE IF h \in (i + 2)..j THEN a[h - 1] ELSE a[h]]

(* What issort may return, and the array then: without memory for the key it
   leaves the array as it is. *)
issort(a) ==
  LET upto[j \in 1..Len(a)] == IF j = 1 THEN a ELSE insert_at(upto[j - 1], j)
  IN  {[res |-> -1, data |-> a],
       [res |-> 0, data |-> IF a = <<>> THEN a ELSE upto[Len(a)]]}

(* qksort(data, size, esize, 0, size - 1, compare) *)
SortInit(a) ==
  /\ arr = a /\ frames = <<<<1, Len(a)>>>>
  /\ pivot = 0 /\ x = 0 /\ y = 0 /\ outside = FALSE

range == Head(frames)

(* Mutant: the place before the range is not stepped back to. *)
first_place(i) == i
(* i--; *)
before_first(i) == i - 1

(* The median of three random places may be any place of the range.  A
   partition without memory returns -1, and so do all calls. *)
Partition(r) ==
  /\ frames # <<>> /\ pivot = 0 /\ range[1] < range[2] /\ r \in range[1]..range[2]
  /\ pivot' = arr[r].key /\ x' = before_first(range[1]) /\ y' = range[2] + 1
  /\ UNCHANGED <<arr, frames, outside>>

NoMemory ==
  /\ frames # <<>> /\ pivot = 0 /\ range[1] < range[2]
  /\ frames' = <<>>
  /\ UNCHANGED <<arr, pivot, x, y, outside>>

(* The first place below y that is not greater than pval, and the first
   above x that is equal to it: the second loop lacks its "< 0". *)
Below == {h \in range[1]..(y - 1) : arr[h].key <= pivot}
Above == {h \in (x + 1)..range[2] : arr[h].key = pivot}
Highest(S) == CHOOSE h \in S : \A g \in S : g <= h
Lowest(S) == CHOOSE h \in S : \A g \in S : h <= g

(* One turn of partition's loop: exchange the two, or return k and sort the
   lower part; the upper one comes after it. *)
Scan ==
  /\ pivot # 0 /\ ~outside
  /\ IF Below = {} \/ Above = {}
     THEN outside' = TRUE /\ UNCHANGED <<arr, frames, pivot, x, y>>
     ELSE LET k == Highest(Below)
              i == Lowest(Above)
          IN  /\ UNCHANGED outside
              /\ IF i >= k
                 THEN /\ Len(frames) < MaxFrames
                      /\ frames' = <<<<range[1], k>>, <<k + 1, range[2]>>>> \o Tail(frames)
                      /\ pivot' = 0 /\ UNCHANGED <<arr, x, y>>
                 ELSE /\ arr' = [arr EXCEPT ![i] = arr[k], ![k] = arr[i]]
                      /\ x' = i /\ y' = k /\ UNCHANGED <<frames, pivot>>

(* The range has one element or none. *)
Return ==
  /\ frames # <<>> /\ pivot = 0 /\ range[1] >= range[2]
  /\ frames' = Tail(frames)
  /\ UNCHANGED <<arr, pivot, x, y, outside>>

SortNext == (\E r \in 1..Len(arr) : Partition(r)) \/ NoMemory \/ Scan \/ Return
-----------------------------------------------------------------------------
(* Elements in the order of their keys, equal ones as they were. *)
StablySorted(a) ==
  \A i, j \in 1..Len(a) : i < j =>
    a[i].key < a[j].key \/ (a[i].key = a[j].key /\ a[i].tag < a[j].tag)

Permuted(a, b) == {a[i] : i \in 1..Len(a)} = {b[i] : i \in 1..Len(b)} /\ Len(a) = Len(b)
=============================================================================
