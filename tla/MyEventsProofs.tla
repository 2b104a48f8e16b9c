---------------------------- MODULE MyEventsProofs ---------------------------
(***************************************************************************)
(* The list's pointers, what they point to and who owns that are right     *)
(* after any sequence of calls, for any amount of memory and however       *)
(* malloc hands it out: proofs about MyList and its two users, the event   *)
(* queue and the shell of words.                                           *)
(***************************************************************************)
EXTENDS MyEvents, WordShell, SequenceTheorems, FiniteSetTheorems, TLAPS

(* Concatenation, element by element. *)
LEMMA ConcatIs ==
  ASSUME NEW S, NEW a \in Seq(S), NEW c \in Seq(S)
  PROVE  /\ a \o c \in Seq(S)
         /\ Len(a \o c) = Len(a) + Len(c)
         /\ \A j \in 1..Len(a) : (a \o c)[j] = a[j]
         /\ \A j \in 1..Len(c) : (a \o c)[Len(a) + j] = c[j]
OBVIOUS

(* InsertAt and RemoveAt, element by element: t is s with e after its first i
   elements; t is s without the element that follows them. *)
IsInsert(S, t, s, i, e) ==
  /\ t \in Seq(S)
  /\ Len(t) = Len(s) + 1
  /\ \A j \in 1..i : t[j] = s[j]
  /\ t[i + 1] = e
  /\ \A j \in (i + 1)..Len(s) : t[j + 1] = s[j]
IsRemove(S, t, s, i) ==
  /\ t \in Seq(S)
  /\ Len(t) = Len(s) - 1
  /\ \A j \in 1..i : t[j] = s[j]
  /\ \A j \in (i + 1)..(Len(s) - 1) : t[j] = s[j + 1]

(* The library's InsertAt is an IsInsert. *)
LEMMA InsertAtIs ==
  ASSUME NEW S, NEW s \in Seq(S), NEW e \in S, NEW i \in 0..Len(s)
  PROVE  IsInsert(S, InsertAt(s, i + 1, e), s, i, e)
<1> DEFINE a == SubSeq(s, 1, i)
           c == SubSeq(s, i + 1, Len(s))
           b == a \o <<e>>
           t == b \o c
<1>1. /\ a \in Seq(S) /\ Len(a) = i
      /\ \A j \in 1..i : a[j] = s[j]
  OBVIOUS
<1>2. /\ c \in Seq(S) /\ Len(c) = Len(s) - i
      /\ \A j \in 1..(Len(s) - i) : c[j] = s[i + j]
  OBVIOUS
<1>3. InsertAt(s, i + 1, e) = t
  <2>1. (i + 1) - 1 = i
    OBVIOUS
  <2> QED BY <2>1 DEF InsertAt
<1> HIDE DEF a, c
<1>4. <<e>> \in Seq(S) /\ Len(<<e>>) = 1 /\ <<e>>[1] = e
  OBVIOUS
<1>5. /\ b \in Seq(S) /\ Len(b) = i + 1
      /\ \A j \in 1..i : b[j] = s[j]
      /\ b[i + 1] = e
  BY <1>1, <1>4, ConcatIs
<1> HIDE DEF b
<1>6. /\ t \in Seq(S) /\ Len(t) = Len(b) + Len(c)
      /\ \A j \in 1..Len(b) : t[j] = b[j]
      /\ \A j \in 1..Len(c) : t[Len(b) + j] = c[j]
  <2>1. b \in Seq(S) /\ c \in Seq(S)
    BY <1>2, <1>5
  <2> QED BY ONLY <2>1, ConcatIs
<1> HIDE DEF t
<1>7. ASSUME NEW j \in (i + 1)..Len(s) PROVE t[j + 1] = s[j]
  <2>1. j - i \in 1..Len(c) /\ Len(b) + (j - i) = j + 1 /\ i + (j - i) = j
    BY <1>2, <1>5
  <2>2. t[Len(b) + (j - i)] = c[j - i] /\ c[j - i] = s[i + (j - i)]
    BY <2>1, <1>2, <1>6
  <2> QED BY <2>1, <2>2
<1>8. Len(t) = Len(s) + 1 /\ (\A j \in 1..i : t[j] = s[j]) /\ t[i + 1] = e
  BY <1>2, <1>5, <1>6
<1> QED
  BY <1>3, <1>6, <1>7, <1>8 DEF IsInsert

(* Its RemoveAt is an IsRemove. *)
LEMMA RemoveAtIs ==
  ASSUME NEW S, NEW s \in Seq(S), NEW i \in 0..(Len(s) - 1)
  PROVE  IsRemove(S, RemoveAt(s, i + 1), s, i)
<1> DEFINE a == SubSeq(s, 1, i)
           c == SubSeq(s, i + 2, Len(s))
           t == a \o c
<1>1. /\ a \in Seq(S) /\ Len(a) = i
      /\ \A j \in 1..i : a[j] = s[j]
  OBVIOUS
<1>2. /\ c \in Seq(S) /\ Len(c) = Len(s) - i - 1
      /\ \A j \in 1..(Len(s) - i - 1) : c[j] = s[i + 1 + j]
  OBVIOUS
<1>3. RemoveAt(s, i + 1) = t
  <2>1. (i + 1) - 1 = i /\ (i + 1) + 1 = i + 2
    OBVIOUS
  <2> QED BY <2>1 DEF RemoveAt
<1> HIDE DEF a, c
<1>4. /\ t \in Seq(S) /\ Len(t) = Len(a) + Len(c)
      /\ \A j \in 1..Len(a) : t[j] = a[j]
      /\ \A j \in 1..Len(c) : t[Len(a) + j] = c[j]
  <2>1. a \in Seq(S) /\ c \in Seq(S)
    BY <1>1, <1>2
  <2> QED BY ONLY <2>1, ConcatIs
<1> HIDE DEF t
<1>5. ASSUME NEW j \in (i + 1)..(Len(s) - 1) PROVE t[j] = s[j + 1]
  <2>1. j - i \in 1..Len(c) /\ Len(a) + (j - i) = j /\ i + 1 + (j - i) = j + 1
    BY <1>1, <1>2
  <2>2. t[Len(a) + (j - i)] = c[j - i] /\ c[j - i] = s[i + 1 + (j - i)]
    BY <2>1, <1>2, <1>4
  <2> QED BY <2>1, <2>2
<1>6. Len(t) = Len(s) - 1 /\ (\A j \in 1..i : t[j] = s[j])
  BY <1>1, <1>2, <1>4
<1> QED
  BY <1>3, <1>4, <1>5, <1>6 DEF IsRemove

(* Linked, with the empty sequence told by its length. *)
LinkedByLength ==
  /\ size = Len(order)
  /\ nodes = {order[i] : i \in 1..Len(order)}
  /\ \A i, j \in 1..Len(order) : order[i] = order[j] => i = j
  /\ head = IF Len(order) = 0 THEN NULL ELSE order[1]
  /\ tail = IF Len(order) = 0 THEN NULL ELSE order[Len(order)]
  /\ \A i \in 1..(Len(order) - 1) : next[order[i]] = order[i + 1]
  /\ Len(order) > 0 => next[order[Len(order)]] = NULL

(* The two say the same. *)
LEMMA LinkedIs == ListTypeOK => (Linked <=> LinkedByLength)
<1> SUFFICES ASSUME ListTypeOK PROVE Linked <=> LinkedByLength
  OBVIOUS
<1>1. order = <<>> <=> Len(order) = 0
  BY EmptySeq DEF ListTypeOK
<1>2. Len(order) \in Nat
  BY DEF ListTypeOK
<1>3. (\A i \in 1..Len(order) :
         next[order[i]] = IF i = Len(order) THEN NULL ELSE order[i + 1])
      <=> /\ \A i \in 1..(Len(order) - 1) : next[order[i]] = order[i + 1]
          /\ Len(order) > 0 => next[order[Len(order)]] = NULL
  BY <1>2
<1> QED
  BY <1>1, <1>3 DEF Linked, LinkedByLength, Elements

(* LinkedIs, in the next state. *)
LEMMA LinkedIsNext == ListTypeOK' => (Linked' <=> LinkedByLength')
BY LinkedIs, PTL

(* list_ins_next keeps the list in order. *)
LEMMA InsKeeps ==
  ASSUME ListTypeOK, Linked, NEW element \in Elements \cup {NULL},
         NEW block \in Blocks, NEW new \in Nodes,
         list_ins_next(element, block, new)
  PROVE  ListTypeOK' /\ Linked'
<1> USE ListAssumption
<1>0. LinkedByLength
  BY LinkedIs
<1> DEFINE len == Len(order)
<1>1. PICK i \in 0..len : IsAt(element, i) /\ order' = InsertAt(order, i + 1, new)
  BY DEF list_ins_next
<1>2. order \in Seq(Nodes) /\ len \in Nat /\ \A j \in 1..len : order[j] \in Nodes
  BY DEF ListTypeOK
<1>3. /\ order' \in Seq(Nodes) /\ Len(order') = len + 1
      /\ \A j \in 1..i : order'[j] = order[j]
      /\ order'[i + 1] = new
      /\ \A j \in (i + 1)..len : order'[j + 1] = order[j]
  <2>1. IsInsert(Nodes, order', order, i, new)
    BY <1>1, <1>2, InsertAtIs
  <2> QED BY <2>1 DEF IsInsert
<1>4. \A j \in 1..(len + 1) :
        j \in 1..i \/ j = i + 1 \/ \E k \in (i + 1)..len : j = k + 1
  <2> SUFFICES ASSUME NEW j \in 1..(len + 1), j \notin 1..i, j # i + 1
               PROVE  \E k \in (i + 1)..len : j = k + 1
    OBVIOUS
  <2>1. j - 1 \in (i + 1)..len /\ j = (j - 1) + 1
    BY <1>2
  <2> QED BY <2>1
<1>5. new \notin nodes /\ \A j \in 1..len : order[j] # new
  BY <1>0 DEF list_ins_next, LinkedByLength
<1>6. element \in Nodes \cup {NULL} /\ (element # NULL => next[element] \in Nodes \cup {NULL})
  BY <1>2 DEF Elements, ListTypeOK
<1>7. ListTypeOK'
  <2>1. size' \in Nat /\ nodes' \subseteq Nodes /\ data' \in [Nodes -> Blocks \cup {NULL}]
    BY DEF ListTypeOK, list_ins_next
  <2>2. tail' \in Nodes \cup {NULL} /\ head' \in Nodes \cup {NULL}
    BY DEF ListTypeOK, list_ins_next, tail_after_ins
  <2>3. next' \in [Nodes -> Nodes \cup {NULL}]
    BY <1>6 DEF ListTypeOK, list_ins_next
  <2> QED BY <2>1, <2>2, <2>3, <1>3 DEF ListTypeOK
<1>8. size' = Len(order')
  BY <1>0, <1>3 DEF list_ins_next, LinkedByLength
<1>9. nodes' = {order'[j] : j \in 1..Len(order')}
  <2>1. ASSUME NEW n \in nodes' PROVE \E j \in 1..(len + 1) : order'[j] = n
    <3>1. CASE n = new
      <4>1. i + 1 \in 1..(len + 1)
        BY <1>2
      <4> QED BY <4>1, <3>1, <1>3
    <3>2. CASE n \in nodes
      <4>1. PICK j \in 1..len : order[j] = n
        BY <3>2, <1>0 DEF LinkedByLength
      <4>2. CASE j <= i
        BY <4>1, <4>2, <1>2, <1>3
      <4>3. CASE j > i
        <5>1. j \in (i + 1)..len /\ j + 1 \in 1..(len + 1)
          BY <4>3, <1>2
        <5> QED BY <4>1, <5>1, <1>3
      <4> QED BY <4>2, <4>3, <1>2
    <3> QED BY <3>1, <3>2 DEF list_ins_next
  <2>2. ASSUME NEW j \in 1..(len + 1) PROVE order'[j] \in nodes'
    <3>1. \A k \in 1..len : order[k] \in nodes'
      BY <1>0 DEF LinkedByLength, list_ins_next
    <3>2. new \in nodes'
      BY DEF list_ins_next
    <3>3. \A k \in (i + 1)..len : k \in 1..len
      BY <1>2
    <3>4. \A k \in 1..i : k \in 1..len
      BY <1>2
    <3> QED BY <3>1, <3>2, <3>3, <3>4, <1>3, <1>4
  <2> DEFINE all == {order'[j] : j \in 1..Len(order')}
  <2>3. ASSUME NEW n \in nodes' PROVE n \in all
    BY <2>1, <1>3
  <2>4. ASSUME NEW n \in all PROVE n \in nodes'
    BY <2>2, <1>3
  <2> QED BY <2>3, <2>4
<1>10. \A j, k \in 1..Len(order') : order'[j] = order'[k] => j = k
  <2>1. \A j, k \in 1..len : order[j] = order[k] => j = k
    BY <1>0 DEF LinkedByLength
  <2>2. (\A k \in 1..i : k \in 1..len) /\ \A k \in (i + 1)..len : k \in 1..len
    BY <1>2
  <2>3. ASSUME NEW j \in 1..(len + 1), NEW k \in 1..(len + 1), order'[j] = order'[k]
        PROVE  j = k
    <3>1. CASE j \in 1..i
      <4>1. order'[j] = order[j] /\ j \in 1..len
        BY <3>1, <2>2, <1>3
      <4>2. ASSUME NEW m \in (i + 1)..len, k = m + 1 PROVE j = k
        <5>1. order'[k] = order[m] /\ m \in 1..len
          BY <4>2, <2>2, <1>3
        <5>2. j = m
          BY <5>1, <4>1, <2>1, <2>3
        <5> QED BY <5>2, <3>1, <1>2
      <4> QED BY <2>1, <2>2, <2>3, <3>1, <4>1, <4>2, <1>3, <1>4, <1>5
    <3>2. CASE j = i + 1
      <4>1. ASSUME NEW m \in (i + 1)..len, k = m + 1 PROVE j = k
        BY <2>2, <2>3, <3>2, <4>1, <1>3, <1>5
      <4> QED BY <2>2, <2>3, <3>2, <4>1, <1>3, <1>4, <1>5
    <3>3. ASSUME NEW l \in (i + 1)..len, j = l + 1 PROVE j = k
      <4>1. order'[j] = order[l] /\ l \in 1..len
        BY <3>3, <2>2, <1>3
      <4>2. ASSUME NEW m \in (i + 1)..len, k = m + 1 PROVE j = k
        <5>1. order'[k] = order[m] /\ m \in 1..len
          BY <4>2, <2>2, <1>3
        <5>2. l = m
          BY <5>1, <4>1, <2>1, <2>3
        <5> QED BY <5>2, <4>2, <3>3
      <4>3. CASE k \in 1..i
        BY <2>1, <2>2, <2>3, <3>3, <4>1, <4>3, <1>3
      <4> QED BY <2>3, <4>1, <4>2, <4>3, <1>3, <1>4, <1>5
    <3> QED BY <3>1, <3>2, <3>3, <1>4
  <2> QED BY <2>3, <1>3
<1>11. head' = IF Len(order') = 0 THEN NULL ELSE order'[1]
  <2>1. CASE element = NULL
    BY <2>1, <1>1, <1>2, <1>3 DEF IsAt, list_ins_next
  <2>2. CASE element # NULL
    BY SMTT(30), <2>2, <1>0, <1>1, <1>2, <1>3 DEF IsAt, list_ins_next, LinkedByLength
  <2> QED BY <2>1, <2>2
<1>12. tail' = IF Len(order') = 0 THEN NULL ELSE order'[Len(order')]
  <2>1. CASE i = len
    <3>1. tail' = new
      BY <2>1, <1>0, <1>1, <1>2 DEF IsAt, list_ins_next, tail_after_ins, LinkedByLength
    <3> QED BY <3>1, <2>1, <1>2, <1>3
  <2>2. CASE i # len
    <3>1. tail' = order[len]
      BY <2>2, <1>0, <1>1, <1>2 DEF IsAt, list_ins_next, tail_after_ins, LinkedByLength
    <3>2. len \in (i + 1)..len
      BY <2>2, <1>2
    <3> QED BY <3>1, <3>2, <1>2, <1>3
  <2> QED BY <2>1, <2>2
<1> DEFINE after(j) == IF j = len THEN NULL ELSE order[j + 1]
<1>13. \A j \in 1..len : next[order[j]] = after(j)
  BY <1>0, <1>2 DEF LinkedByLength
<1>14. next'[new] = IF i = len THEN NULL ELSE order[i + 1]
  <2>0. next \in [Nodes -> Nodes \cup {NULL}]
    BY DEF ListTypeOK
  <2>1. CASE element = NULL
    <3>1. i = 0 /\ next'[new] = head
      BY <2>0, <2>1, <1>1 DEF IsAt, list_ins_next
    <3> QED BY <3>1, <1>0, <1>2 DEF LinkedByLength
  <2>2. CASE element # NULL
    <3>1. i \in 1..len /\ order[i] = element /\ element # new /\ element \in Nodes
      BY <2>2, <1>1, <1>2, <1>5 DEF IsAt
    <3>2. next'[new] = next[element]
      BY <2>0, <2>2, <3>1 DEF list_ins_next
    <3> QED BY <3>1, <3>2, <1>13
  <2> QED BY <2>1, <2>2
<1>15. \A j \in 1..len : next'[order[j]] = IF j = i THEN new ELSE after(j)
  <2> SUFFICES ASSUME NEW j \in 1..len
               PROVE  next'[order[j]] = IF j = i THEN new ELSE after(j)
    OBVIOUS
  <2>0. next \in [Nodes -> Nodes \cup {NULL}]
    BY DEF ListTypeOK
  <2>1. order[j] # new /\ order[j] \in Nodes /\ next[order[j]] = after(j)
    BY <1>2, <1>5, <1>13
  <2>2. CASE element = NULL
    <3>1. i = 0 /\ next'[order[j]] = next[order[j]]
      BY <2>0, <2>1, <2>2, <1>1 DEF IsAt, list_ins_next
    <3> QED BY <3>1, <2>1
  <2>3. CASE element # NULL
    <3>1. i \in 1..len /\ order[i] = element /\ element \in Nodes
      BY <2>3, <1>1, <1>2 DEF IsAt
    <3>2. order[j] = element <=> j = i
      BY <3>1, <1>0 DEF LinkedByLength
    <3>3. next'[order[j]] = IF order[j] = element THEN new ELSE next[order[j]]
      BY <2>0, <2>1, <2>3, <3>1 DEF list_ins_next
    <3> QED BY <3>2, <3>3, <2>1
  <2> QED BY <2>2, <2>3
<1>16. ASSUME NEW j \in 1..Len(order')
       PROVE  next'[order'[j]] = IF j = Len(order') THEN NULL ELSE order'[j + 1]
  <2>1. CASE j \in 1..i
    <3>1. j \in 1..len /\ order'[j] = order[j] /\ j # len + 1
      BY <2>1, <1>2, <1>3
    <3>2. CASE j = i
      BY <3>1, <3>2, <1>3, <1>15
    <3>3. CASE j # i
      <4>1. j + 1 \in 1..i /\ j # len
        BY <2>1, <3>3, <1>2
      <4> QED BY <3>1, <3>3, <4>1, <1>3, <1>15
    <3> QED BY <3>2, <3>3
  <2>2. CASE j = i + 1
    <3>1. CASE i = len
      BY <2>2, <3>1, <1>3, <1>14
    <3>2. CASE i # len
      <4>1. i + 1 \in (i + 1)..len /\ j # len + 1
        BY <2>2, <3>2, <1>2
      <4>2. order'[j + 1] = order[i + 1]
        BY <4>1, <2>2, <1>3
      <4> QED BY <2>2, <3>2, <4>1, <4>2, <1>3, <1>14
    <3> QED BY <3>1, <3>2
  <2>3. ASSUME NEW k \in (i + 1)..len, j = k + 1
        PROVE  next'[order'[j]] = IF j = Len(order') THEN NULL ELSE order'[j + 1]
    <3>1. k \in 1..len /\ k # i /\ order'[j] = order[k]
      BY <2>3, <1>2, <1>3
    <3>2. CASE k = len
      BY <3>1, <3>2, <2>3, <1>3, <1>15
    <3>3. CASE k # len
      <4>1. k + 1 \in (i + 1)..len /\ j # len + 1
        BY <3>3, <2>3, <1>2
      <4>2. order'[j + 1] = order[k + 1]
        BY <4>1, <2>3, <1>3
      <4> QED BY <3>1, <3>3, <4>1, <4>2, <1>3, <1>15
    <3> QED BY <3>2, <3>3
  <2> QED BY <2>1, <2>2, <2>3, <1>3, <1>4
<1>17. LinkedByLength'
  <2>1. /\ \A j \in 1..(Len(order') - 1) : next'[order'[j]] = order'[j + 1]
        /\ Len(order') > 0 => next'[order'[Len(order')]] = NULL
    BY <1>16, <1>2, <1>3
  <2> QED BY <2>1, <1>8, <1>9, <1>10, <1>11, <1>12 DEF LinkedByLength
<1> QED BY <1>7, <1>17, LinkedIsNext

(* So does list_rem_next. *)
LEMMA RemKeeps ==
  ASSUME ListTypeOK, Linked, NEW element \in Elements \cup {NULL},
         list_rem_next(element)
  PROVE  ListTypeOK' /\ Linked'
<1> USE ListAssumption
<1>0. LinkedByLength
  BY LinkedIs
<1> DEFINE len == Len(order)
           old == old_element(element)
           after(j) == IF j = len THEN NULL ELSE order[j + 1]
<1>1. PICK i \in 0..(len - 1) : IsAt(element, i) /\ order' = RemoveAt(order, i + 1)
  BY DEF list_rem_next
<1>2. order \in Seq(Nodes) /\ len \in Nat /\ \A j \in 1..len : order[j] \in Nodes
  BY DEF ListTypeOK
<1>3. /\ order' \in Seq(Nodes) /\ Len(order') = len - 1
      /\ \A j \in 1..i : order'[j] = order[j]
      /\ \A j \in (i + 1)..(len - 1) : order'[j] = order[j + 1]
  <2>1. IsRemove(Nodes, order', order, i)
    BY <1>1, <1>2, RemoveAtIs
  <2> QED BY <2>1 DEF IsRemove
<1>4. /\ i + 1 \in 1..len
      /\ \A j \in 1..i : j \in 1..len /\ j \in 1..(len - 1) /\ j # i + 1
      /\ \A j \in (i + 1)..(len - 1) : j + 1 \in 1..len /\ j + 1 # i + 1
      /\ \A j \in 1..(len - 1) : j \in 1..i \/ j \in (i + 1)..(len - 1)
  BY <1>2
<1>5. /\ \A j, k \in 1..len : order[j] = order[k] => j = k
      /\ nodes = {order[j] : j \in 1..len}
      /\ size = len
  BY <1>0 DEF LinkedByLength
<1>6. \A j \in 1..len : next[order[j]] = after(j)
  BY <1>0, <1>2 DEF LinkedByLength
<1>7. old = order[i + 1] /\ old \in Nodes
  <2>1. CASE element = NULL
    BY <2>1, <1>0, <1>1, <1>2 DEF IsAt, old_element, LinkedByLength
  <2>2. CASE element # NULL
    <3>1. i \in 1..len /\ i # len /\ order[i] = element
      BY <2>2, <1>1, <1>2 DEF IsAt
    <3> QED BY <3>1, <2>2, <1>2, <1>4, <1>6 DEF old_element
  <2> QED BY <2>1, <2>2
<1> HIDE DEF old
<1>8. next \in [Nodes -> Nodes \cup {NULL}] /\ data \in [Nodes -> Blocks \cup {NULL}]
  BY DEF ListTypeOK
<1>9. next[old] = after(i + 1)
  BY <1>4, <1>6, <1>7
<1>10. \A j \in 1..len \ {i + 1} :
         next'[order[j]] = IF j = i THEN after(i + 1) ELSE after(j)
  <2> SUFFICES ASSUME NEW j \in 1..len, j # i + 1
               PROVE  next'[order[j]] = IF j = i THEN after(i + 1) ELSE after(j)
    OBVIOUS
  <2>1. order[j] # old /\ order[j] \in Nodes /\ next[order[j]] = after(j)
    BY <1>2, <1>4, <1>5, <1>6, <1>7
  <2>2. CASE element = NULL
    <3>1. i = 0 /\ next' = [next EXCEPT ![old] = NULL]
      BY <2>2, <1>1 DEF IsAt, list_rem_next, old
    <3>2. next'[order[j]] = next[order[j]]
      BY <3>1, <2>1, <1>8
    <3> QED BY <3>1, <3>2, <2>1
  <2>3. CASE element # NULL
    <3>1. /\ i \in 1..len /\ order[i] = element /\ element \in Nodes
          /\ next' = [next EXCEPT ![element] = next[old], ![old] = NULL]
      BY <2>3, <1>1, <1>2 DEF IsAt, list_rem_next, old
    <3>2. order[j] = element <=> j = i
      BY <3>1, <1>5
    <3>3. next'[order[j]] = IF order[j] = element THEN next[old] ELSE next[order[j]]
      BY <3>1, <2>1, <1>7, <1>8
    <3> QED BY <3>2, <3>3, <2>1, <1>9
  <2> QED BY <2>2, <2>3
<1>11. ListTypeOK'
  <2>1. next[old] \in Nodes \cup {NULL} /\ element \in Nodes \cup {NULL}
    BY <1>2, <1>7, <1>8 DEF Elements
  <2>2. next' \in [Nodes -> Nodes \cup {NULL}] /\ head' \in Nodes \cup {NULL}
    BY <2>1, <1>8 DEF list_rem_next, old, ListTypeOK
  <2>3. tail' \in Nodes \cup {NULL}
    BY <2>1 DEF list_rem_next, tail_after_rem, ListTypeOK
  <2>4. data' \in [Nodes -> Blocks \cup {NULL}] /\ nodes' \subseteq Nodes
    BY <1>8 DEF list_rem_next, ListTypeOK
  <2>5. size' \in Nat
    BY <1>5, <1>2, <1>4 DEF list_rem_next
  <2> QED BY <2>2, <2>3, <2>4, <2>5, <1>3 DEF ListTypeOK
<1>12. size' = Len(order')
  BY <1>3, <1>5 DEF list_rem_next
<1>13. nodes' = {order'[j] : j \in 1..Len(order')}
  <2> DEFINE all == {order'[j] : j \in 1..Len(order')}
  <2>0. nodes' = nodes \ {old}
    BY DEF list_rem_next, old
  <2>1. ASSUME NEW n \in nodes' PROVE n \in all
    <3>1. PICK j \in 1..len : order[j] = n /\ j # i + 1
      BY <2>0, <2>1, <1>5, <1>7
    <3>2. CASE j <= i
      BY <3>1, <3>2, <1>2, <1>3, <1>4
    <3>3. CASE j > i
      <4>1. j - 1 \in (i + 1)..(len - 1) /\ j - 1 \in 1..(len - 1) /\ (j - 1) + 1 = j
        BY <3>1, <3>3, <1>2
      <4> QED BY <3>1, <4>1, <1>3
    <3> QED BY <3>2, <3>3, <1>2
  <2>2. ASSUME NEW j \in 1..(len - 1) PROVE order'[j] \in nodes'
    BY <2>0, <1>3, <1>4, <1>5, <1>7
  <2>3. ASSUME NEW n \in all PROVE n \in nodes'
    BY <2>2, <1>3
  <2> QED BY <2>1, <2>3
<1>14. \A j, k \in 1..Len(order') : order'[j] = order'[k] => j = k
  <2> SUFFICES ASSUME NEW j \in 1..(len - 1), NEW k \in 1..(len - 1), order'[j] = order'[k]
               PROVE  j = k
    BY <1>3
  <2> DEFINE from(m) == IF m \in 1..i THEN m ELSE m + 1
  <2>1. \A m \in 1..(len - 1) : order'[m] = order[from(m)] /\ from(m) \in 1..len
    BY <1>3, <1>4
  <2>2. from(j) = from(k)
    BY <2>1, <1>5
  <2> QED BY <2>2, <1>2
<1>15. head' = IF Len(order') = 0 THEN NULL ELSE order'[1]
  <2>1. CASE element = NULL
    <3>1. i = 0 /\ head' = next[old]
      BY <2>1, <1>1 DEF IsAt, list_rem_next, old
    <3> QED BY <3>1, <1>2, <1>3, <1>9
  <2>2. CASE element # NULL
    <3>1. i \in 1..len /\ head' = head
      BY <2>2, <1>1 DEF IsAt, list_rem_next
    <3> QED BY <3>1, <1>0, <1>2, <1>3, <1>4 DEF LinkedByLength
  <2> QED BY <2>1, <2>2
<1>16. tail' = IF Len(order') = 0 THEN NULL ELSE order'[Len(order')]
  <2>0. tail = order[len]
    BY <1>0, <1>4 DEF LinkedByLength
  <2>1. CASE element = NULL
    <3>1. i = 0 /\ tail' = IF len = 1 THEN NULL ELSE order[len]
      BY <2>0, <2>1, <1>1, <1>5 DEF IsAt, list_rem_next, tail_after_rem
    <3> QED BY <3>1, <1>2, <1>3
  <2>2. CASE element # NULL
    <3>1. i \in 1..len /\ order[i] = element
      BY <2>2, <1>1 DEF IsAt
    <3>2. tail' = IF next[old] = NULL THEN element ELSE tail
      BY <2>2 DEF list_rem_next, tail_after_rem, old, old_element
    <3>3. CASE i + 1 = len
      <4>1. tail' = order[i]
        BY <3>1, <3>2, <3>3, <1>9
      <4> QED BY <3>1, <3>3, <4>1, <1>2, <1>3
    <3>4. CASE i + 1 # len
      <4>1. i + 2 \in 1..len /\ (i + 1) + 1 = i + 2
        BY <3>1, <3>4, <1>2
      <4>2. tail' = order[len]
        BY <2>0, <3>1, <3>2, <3>4, <4>1, <1>2, <1>9
      <4>3. len - 1 \in (i + 1)..(len - 1) /\ (len - 1) + 1 = len
        BY <3>1, <3>4, <1>2
      <4> QED BY <3>1, <4>2, <4>3, <1>2, <1>3
    <3> QED BY <3>3, <3>4
  <2> QED BY <2>1, <2>2
<1>17. ASSUME NEW j \in 1..(len - 1)
       PROVE  next'[order'[j]] = IF j = len - 1 THEN NULL ELSE order'[j + 1]
  <2>1. CASE j \in 1..i
    <3>1. j \in 1..len \ {i + 1} /\ order'[j] = order[j]
      BY <2>1, <1>3, <1>4
    <3>2. CASE j = i
      <4>1. next'[order'[j]] = IF i + 1 = len THEN NULL ELSE order[(i + 1) + 1]
        BY <3>1, <3>2, <1>10
      <4>2. i + 1 # len => i + 1 \in (i + 1)..(len - 1)
        BY <1>2, <1>4
      <4> QED BY <3>2, <4>1, <4>2, <1>2, <1>3
    <3>3. CASE j # i
      <4>1. j + 1 \in 1..i /\ j # len - 1 /\ j # len
        BY <2>1, <3>3, <1>2
      <4> QED BY <3>1, <3>3, <4>1, <1>3, <1>10
    <3> QED BY <3>2, <3>3
  <2>2. CASE j \in (i + 1)..(len - 1)
    <3>1. j + 1 \in 1..len \ {i + 1} /\ j + 1 # i /\ order'[j] = order[j + 1]
      BY <2>2, <1>2, <1>3, <1>4
    <3>2. next'[order'[j]] = IF j + 1 = len THEN NULL ELSE order[(j + 1) + 1]
      BY <3>1, <1>10
    <3>3. CASE j = len - 1
      BY <3>2, <3>3, <1>2
    <3>4. CASE j # len - 1
      <4>1. j + 1 \in (i + 1)..(len - 1) /\ j + 1 # len
        BY <2>2, <3>4, <1>2
      <4> QED BY <3>2, <3>4, <4>1, <1>3
    <3> QED BY <3>3, <3>4
  <2> QED BY <2>1, <2>2, <1>4
<1>18. LinkedByLength'
  <2>1. /\ \A j \in 1..(Len(order') - 1) : next'[order'[j]] = order'[j + 1]
        /\ Len(order') > 0 => next'[order'[Len(order')]] = NULL
    BY <1>17, <1>2, <1>3
  <2> QED BY <2>1, <1>12, <1>13, <1>14, <1>15, <1>16 DEF LinkedByLength
<1> QED BY <1>11, <1>18, LinkedIsNext

(* The last element, when there is one, is in the list. *)
LEMMA TailIsElement == ListTypeOK /\ Linked => tail \in Elements \cup {NULL}
<1> SUFFICES ASSUME ListTypeOK, LinkedByLength PROVE tail \in Elements \cup {NULL}
  BY LinkedIs
<1>1. Len(order) \in Nat
  BY DEF ListTypeOK
<1> QED
  BY <1>1 DEF LinkedByLength, Elements

(* Every step of the event queue and its callers keeps the list in order. *)
LEMMA ListStep == ListTypeOK /\ Linked /\ [Next]_vars => ListTypeOK' /\ Linked'
<1> SUFFICES ASSUME ListTypeOK, Linked, [Next]_vars PROVE ListTypeOK' /\ Linked'
  OBVIOUS
<1>1. ASSUME UNCHANGED listVars PROVE ListTypeOK' /\ Linked'
  BY <1>1 DEF listVars, ListTypeOK, Linked, Elements
<1>2. ASSUME NEW b \in Blocks, ReceiveFails(b) PROVE ListTypeOK' /\ Linked'
  BY <1>1, <1>2 DEF ReceiveFails
<1>3. ASSUME NEW b \in Blocks, NEW n \in Nodes, Receive(b, n) PROVE ListTypeOK' /\ Linked'
  BY <1>3, InsKeeps, TailIsElement DEF Receive, enqueue_at
<1>4. ASSUME NEW b \in Blocks, NEW n \in Nodes, NEW element \in Elements \cup {NULL},
             InsertNext(element, b, n)
      PROVE  ListTypeOK' /\ Linked'
  BY <1>4, InsKeeps DEF InsertNext
<1>5. ASSUME NEW element \in Elements \cup {NULL}, RemoveNext(element)
      PROVE  ListTypeOK' /\ Linked'
  BY <1>5, RemKeeps DEF RemoveNext
<1>6. CASE Process
  BY <1>6, RemKeeps DEF Process
<1>7. CASE Dispatched
  BY <1>1, <1>7 DEF Dispatched
<1>8. CASE Destroy
  BY <1>1, <1>8 DEF Destroy
<1>9. CASE DestroyNext
  BY <1>9, RemKeeps DEF DestroyNext
<1>10. CASE DestroyEnd
  <2>1. Len(order) = 0 /\ order = <<>>
    BY <1>10, EmptySeq DEF DestroyEnd, Linked, ListTypeOK
  <2>2. ListTypeOK'
    BY <1>10 DEF DestroyEnd, ListTypeOK
  <2>3. UNCHANGED <<size, next, nodes, order>> /\ head' = head /\ tail' = tail
    BY <1>10, <2>1 DEF DestroyEnd, Linked
  <2> QED BY <2>2, <2>3 DEF Linked, Elements
<1>11. CASE UNCHANGED vars
  BY <1>1, <1>11 DEF vars
<1> QED
  BY <1>2, <1>3, <1>4, <1>5, <1>6, <1>7, <1>8, <1>9, <1>10, <1>11 DEF Next

(* list_init makes a list in order. *)
LEMMA ListStarts == list_init => ListTypeOK /\ Linked
<1> SUFFICES ASSUME list_init PROVE ListTypeOK /\ Linked
  OBVIOUS
<1>1. ListTypeOK
  BY DEF list_init, ListTypeOK
<1>2. Len(order) = 0 /\ order = <<>>
  BY DEF list_init
<1>3. nodes = Elements
  BY <1>2 DEF list_init, Elements
<1> QED
  BY <1>1, <1>2, <1>3 DEF list_init, Linked

(* After any sequence of calls, by dispatch functions too, the pointers, the
   tail and the size of the list are those of the sequence of elements that
   list_ins_next and list_rem_next were asked for. *)
THEOREM AlwaysLinked == Spec => []Linked
<1>1. Init => ListTypeOK /\ Linked
  BY ListStarts DEF Init
<1> QED
  BY <1>1, ListStep, PTL DEF Spec
-----------------------------------------------------------------------------
(* The data pointers.  What they point to, and that no two of them point to
   the same block. *)
Queued == {data[n] : n \in nodes}
Apart == \A m, n \in nodes : data[m] = data[n] => m = n

(* An element is at one place. *)
LEMMA OnePlace ==
  ASSUME ListTypeOK, Linked, NEW element \in Elements \cup {NULL},
         NEW i \in Int, NEW j \in Int, IsAt(element, i), IsAt(element, j)
  PROVE  i = j
<1>1. CASE element = NULL
  BY <1>1 DEF IsAt
<1>2. CASE element # NULL
  <2>1. i \in 1..Len(order) /\ j \in 1..Len(order) /\ order[i] = order[j]
    BY <1>2 DEF IsAt
  <2> QED
    BY <2>1 DEF Linked
<1> QED
  BY <1>1, <1>2

(* list_ins_next, at place i. *)
LEMMA InsIs ==
  ASSUME ListTypeOK, Linked, NEW element \in Elements \cup {NULL},
         NEW block \in Blocks, NEW new \in Nodes, list_ins_next(element, block, new),
         NEW i \in 0..Len(order), IsAt(element, i)
  PROVE  /\ IsInsert(Nodes, order', order, i, new)
         /\ new \notin nodes /\ nodes' = nodes \cup {new} /\ size' = size + 1
         /\ data'[new] = block /\ \A n \in nodes : data'[n] = data[n]
<1>1. PICK j \in 0..Len(order) : IsAt(element, j) /\ order' = InsertAt(order, j + 1, new)
  BY DEF list_ins_next
<1>2. j = i
  <2>1. i \in Int /\ j \in Int
    BY DEF ListTypeOK
  <2> QED
    BY <1>1, <2>1, OnePlace
<1>3. IsInsert(Nodes, order', order, i, new)
  BY <1>1, <1>2, InsertAtIs DEF ListTypeOK
<1>4. new \notin nodes /\ nodes' = nodes \cup {new} /\ size' = size + 1
  BY DEF list_ins_next
<1>5. data'[new] = block /\ \A n \in nodes : data'[n] = data[n]
  BY <1>4 DEF list_ins_next, ListTypeOK
<1> QED
  BY <1>3, <1>4, <1>5

(* list_rem_next, at place i. *)
LEMMA RemIs ==
  ASSUME ListTypeOK, Linked, NEW element \in Elements \cup {NULL}, list_rem_next(element),
         NEW i \in 0..(Len(order) - 1), IsAt(element, i)
  PROVE  /\ IsRemove(Nodes, order', order, i)
         /\ old_element(element) = order[i + 1] /\ order[i + 1] \in nodes
         /\ nodes' = nodes \ {order[i + 1]} /\ size' = size - 1
         /\ \A n \in nodes' : data'[n] = data[n]
<1>1. PICK j \in 0..(Len(order) - 1) : IsAt(element, j) /\ order' = RemoveAt(order, j + 1)
  BY DEF list_rem_next
<1>2. j = i
  <2>1. i \in Int /\ j \in Int
    BY DEF ListTypeOK
  <2> QED
    BY <1>1, <2>1, OnePlace
<1>3. IsRemove(Nodes, order', order, i)
  BY <1>1, <1>2, RemoveAtIs DEF ListTypeOK
<1>4. LinkedByLength /\ Len(order) \in Nat
  BY LinkedIs DEF ListTypeOK
<1>5. i + 1 \in 1..Len(order) /\ order[i + 1] \in nodes /\ order[i + 1] \in Nodes
  <2>1. i + 1 \in 1..Len(order)
    BY <1>4
  <2> QED
    BY <1>4, <2>1 DEF LinkedByLength, ListTypeOK
<1>6. old_element(element) = order[i + 1]
  <2>1. CASE element = NULL
    BY <1>4, <1>5, <2>1 DEF IsAt, old_element, LinkedByLength
  <2>2. CASE element # NULL
    <3>1. i \in 1..(Len(order) - 1) /\ order[i] = element
      BY <1>4, <2>2 DEF IsAt
    <3> QED
      BY <1>4, <2>2, <3>1 DEF old_element, LinkedByLength
  <2> QED
    BY <2>1, <2>2
<1>7. /\ nodes' = nodes \ {order[i + 1]} /\ size' = size - 1
      /\ data' = [data EXCEPT ![order[i + 1]] = NULL]
  BY <1>6 DEF list_rem_next
<1>8. \A n \in nodes' : data'[n] = data[n]
  BY <1>5, <1>7 DEF ListTypeOK
<1> QED
  BY <1>3, <1>5, <1>6, <1>7, <1>8

(* What a pointer more, and one less, does to the blocks pointed to. *)
LEMMA QueuedIns ==
  ASSUME NEW new, NEW b, new \notin nodes, nodes' = nodes \cup {new},
         data'[new] = b, \A n \in nodes : data'[n] = data[n], Apart, b \notin Queued
  PROVE  Queued' = Queued \cup {b} /\ Apart'
BY DEF Queued, Apart

(* An element that goes takes its block along. *)
LEMMA QueuedRem ==
  ASSUME NEW old \in nodes, nodes' = nodes \ {old},
         \A n \in nodes' : data'[n] = data[n], Apart
  PROVE  /\ Queued' = Queued \ {data[old]} /\ Apart'
         /\ data[old] \in Queued
BY DEF Queued, Apart

(* Values that go with the elements: s is the list, t the values in the same
   order, f the value of each element. *)
Along(s, t, f) == Len(s) = Len(t) /\ \A j \in 1..Len(s) : f[s[j]] = t[j]

(* Values that are inserted at the same place still go along. *)
LEMMA AlongIns ==
  ASSUME NEW S, NEW T, NEW s \in Seq(S), NEW t \in Seq(T), NEW f, NEW g,
         NEW u, NEW v, NEW i \in 0..Len(s), NEW e, NEW x,
         Along(s, t, f), IsInsert(S, u, s, i, e), IsInsert(T, v, t, i, x),
         g[e] = x, \A j \in 1..Len(s) : g[s[j]] = f[s[j]]
  PROVE  Along(u, v, g)
<1> DEFINE len == Len(s)
<1>1. len \in Nat /\ Len(t) = len /\ \A j \in 1..len : g[s[j]] = t[j]
  BY DEF Along
<1> HIDE DEF len
<1>2. Len(u) = len + 1 /\ Len(v) = len + 1 /\ i \in 0..len
  BY <1>1 DEF IsInsert, len
<1>3. ASSUME NEW j \in 1..(len + 1)
      PROVE  g[u[j]] = v[j]
  <2>1. CASE j \in 1..i
    <3>1. j \in 1..len /\ u[j] = s[j] /\ v[j] = t[j]
      BY <1>2, <2>1, <1>1 DEF IsInsert
    <3> QED
      BY <1>1, <3>1
  <2>2. CASE j = i + 1
    BY <2>2 DEF IsInsert
  <2>3. CASE j \notin 1..i /\ j # i + 1
    <3>1. j - 1 \in (i + 1)..len /\ (j - 1) + 1 = j /\ j - 1 \in 1..len
      BY <1>1, <1>2, <2>3
    <3>2. u[(j - 1) + 1] = s[j - 1] /\ v[(j - 1) + 1] = t[j - 1]
      BY <1>1, <3>1 DEF IsInsert, len
    <3> QED
      BY <1>1, <3>1, <3>2
  <2> QED
    BY <2>1, <2>2, <2>3
<1> QED
  BY <1>2, <1>3 DEF Along

(* So do values that are removed at the same place. *)
LEMMA AlongRem ==
  ASSUME NEW S, NEW T, NEW s \in Seq(S), NEW t \in Seq(T), NEW f, NEW g,
         NEW u, NEW v, NEW i \in 0..(Len(s) - 1),
         Along(s, t, f), IsRemove(S, u, s, i), IsRemove(T, v, t, i),
         \A j \in 1..Len(u) : g[u[j]] = f[u[j]]
  PROVE  Along(u, v, g)
<1> DEFINE len == Len(s)
<1>1. len \in Nat /\ Len(t) = len /\ \A j \in 1..len : f[s[j]] = t[j]
  BY DEF Along
<1> HIDE DEF len
<1>2. Len(u) = len - 1 /\ Len(v) = len - 1 /\ i \in 0..(len - 1)
  BY <1>1 DEF IsRemove, len
<1>3. ASSUME NEW j \in 1..(len - 1)
      PROVE  g[u[j]] = v[j]
  <2>0. g[u[j]] = f[u[j]]
    BY <1>2
  <2>1. CASE j \in 1..i
    <3>1. j \in 1..len /\ u[j] = s[j] /\ v[j] = t[j]
      BY <1>2, <2>1, <1>1 DEF IsRemove
    <3> QED
      BY <1>1, <2>0, <3>1
  <2>2. CASE j \notin 1..i
    <3>1. j \in (i + 1)..(len - 1) /\ j + 1 \in 1..len
      BY <1>1, <1>2, <2>2
    <3>2. u[j] = s[j + 1] /\ v[j] = t[j + 1]
      BY <1>1, <3>1 DEF IsRemove, len
    <3> QED
      BY <1>1, <2>0, <3>1, <3>2
  <2> QED
    BY <2>1, <2>2
<1> QED
  BY <1>2, <1>3 DEF Along

(* Append and Tail, as an insertion and a removal. *)
LEMMA AppendIs ==
  ASSUME NEW S, NEW s \in Seq(S), NEW x \in S
  PROVE  IsInsert(S, Append(s, x), s, Len(s), x)
BY DEF IsInsert

(* Putting an element first is an insertion. *)
LEMMA PutFirstIs ==
  ASSUME NEW S, NEW s \in Seq(S), NEW x \in S
  PROVE  IsInsert(S, <<x>> \o s, s, 0, x)
<1>1. /\ <<x>> \o s \in Seq(S) /\ Len(<<x>> \o s) = Len(s) + 1
      /\ (<<x>> \o s)[1] = x /\ \A j \in 1..Len(s) : (<<x>> \o s)[j + 1] = s[j]
  OBVIOUS
<1> QED
  BY <1>1 DEF IsInsert

(* Taking the first one is a removal. *)
LEMMA TailIs ==
  ASSUME NEW S, NEW s \in Seq(S), Len(s) > 0
  PROVE  IsRemove(S, Tail(s), s, 0)
BY DEF IsRemove
-----------------------------------------------------------------------------
(* The event queue: who owns a block, and that no block has two owners. *)
Running == {dispatching[i] : i \in 1..Len(dispatching)}
Content == [n \in nodes |-> content[data[n]]]

EventTypeOK ==
  /\ blocks \subseteq Blocks /\ IsFiniteSet(blocks)
  /\ content \in [Blocks -> Nat] /\ made \in Nat
  /\ dispatching \in Seq(Blocks) /\ pending \in Seq(Nat)
Owners ==
  /\ Apart
  /\ \A i, j \in 1..Len(dispatching) : dispatching[i] = dispatching[j] => i = j
  /\ Queued \cap Running = {} /\ (Queued \cup Running) \cap leaked = {}
  /\ blocks = Queued \cup Running \cup leaked
  /\ Cardinality(blocks) = size + Len(dispatching) + Cardinality(leaked)

(* The inductive invariant. *)
EventInv ==
  /\ ListTypeOK /\ Linked
  /\ EventTypeOK /\ Owners /\ Along(order, pending, Content)

(* The event queue starts in it. *)
LEMMA EventStarts == Init => EventInv
<1> SUFFICES ASSUME Init PROVE EventInv
  OBVIOUS
<1>1. ListTypeOK /\ Linked
  BY ListStarts DEF Init
<1>2. EventTypeOK
  BY FS_EmptySet DEF Init, EventTypeOK
<1>3. Queued = {} /\ Running = {} /\ blocks = {} /\ leaked = {}
  BY DEF Init, list_init, Queued, Running
<1>4. Owners
  BY <1>3, FS_EmptySet DEF Init, list_init, Owners, Apart
<1>5. Along(order, pending, Content)
  BY DEF Init, list_init, Along
<1> QED
  BY <1>1, <1>2, <1>4, <1>5 DEF EventInv

(* The block of a new event. *)
LEMMA EventMade ==
  ASSUME EventInv, NEW b \in Blocks, NewEvent(b), UNCHANGED dispatching
  PROVE  /\ b \notin Queued /\ b \notin Running /\ b \notin leaked /\ made + 1 \in Nat
         /\ blocks' = blocks \cup {b} /\ blocks' \subseteq Blocks /\ IsFiniteSet(blocks')
         /\ Cardinality(blocks') = Cardinality(blocks) + 1
         /\ content' \in [Blocks -> Nat] /\ made' \in Nat /\ Running' = Running
         /\ content'[b] = made + 1
         /\ \A n \in nodes : content'[data[n]] = content[data[n]]
<1>1. EventTypeOK /\ Owners
  BY DEF EventInv
<1>2. /\ made' = made + 1 /\ b \notin blocks /\ blocks' = blocks \cup {b}
      /\ content' = [content EXCEPT ![b] = made + 1]
  BY DEF NewEvent
<1>3. /\ b \notin Queued /\ b \notin Running /\ b \notin leaked
      /\ \A n \in nodes : data[n] \in Blocks /\ data[n] # b
  BY <1>1, <1>2 DEF Owners, EventTypeOK, Queued
<1>4. IsFiniteSet(blocks') /\ Cardinality(blocks') = Cardinality(blocks) + 1
  BY <1>1, <1>2, FS_AddElement DEF EventTypeOK
<1>5. /\ made + 1 \in Nat /\ content' \in [Blocks -> Nat] /\ content'[b] = made + 1
      /\ \A n \in nodes : content'[data[n]] = content[data[n]]
  BY <1>1, <1>2, <1>3 DEF EventTypeOK
<1> QED
  BY <1>1, <1>2, <1>3, <1>4, <1>5 DEF EventTypeOK, Running

(* An event is put somewhere, by queue_enqueue or by a caller. *)
LEMMA EventIns ==
  ASSUME EventInv, NEW b \in Blocks, NEW new \in Nodes, NEW element \in Elements \cup {NULL},
         NewEvent(b), list_ins_next(element, b, new), UNCHANGED <<dispatching, leaked>>,
         NEW i \in 0..Len(order), IsAt(element, i),
         IsInsert(Nat, pending', pending, i, made + 1)
  PROVE  EventInv'
<1>1. ListTypeOK /\ Linked /\ EventTypeOK /\ Owners /\ Along(order, pending, Content)
  BY DEF EventInv
<1>2. ListTypeOK' /\ Linked'
  BY <1>1, InsKeeps
<1>3. /\ b \notin Queued /\ b \notin Running /\ b \notin leaked /\ made + 1 \in Nat
      /\ blocks' = blocks \cup {b} /\ blocks' \subseteq Blocks /\ IsFiniteSet(blocks')
      /\ Cardinality(blocks') = Cardinality(blocks) + 1
      /\ content' \in [Blocks -> Nat] /\ made' \in Nat /\ Running' = Running
      /\ content'[b] = made + 1
      /\ \A n \in nodes : content'[data[n]] = content[data[n]]
  BY EventMade
<1>4. /\ IsInsert(Nodes, order', order, i, new)
      /\ new \notin nodes /\ nodes' = nodes \cup {new} /\ size' = size + 1
      /\ data'[new] = b /\ \A n \in nodes : data'[n] = data[n]
  BY <1>1, InsIs
<1>5. EventTypeOK'
  BY <1>1, <1>3 DEF EventTypeOK, IsInsert
<1>6. Queued' = Queued \cup {b} /\ Apart'
  BY <1>1, <1>3, <1>4, QueuedIns DEF Owners
<1>7. Owners'
  <2>1. /\ Queued' \cap Running' = {} /\ (Queued' \cup Running') \cap leaked' = {}
        /\ blocks' = Queued' \cup Running' \cup leaked'
    BY <1>1, <1>3, <1>6 DEF Owners
  <2>2. Cardinality(blocks') = size' + Len(dispatching') + Cardinality(leaked')
    <3>1. /\ size \in Nat /\ Len(dispatching) \in Nat /\ IsFiniteSet(leaked)
          /\ Cardinality(blocks) = size + Len(dispatching) + Cardinality(leaked)
      BY <1>1, FS_Subset DEF ListTypeOK, EventTypeOK, Owners
    <3>2. Cardinality(leaked) \in Nat
      BY <3>1, FS_CardinalityType
    <3> QED
      BY <1>3, <1>4, <3>1, <3>2
  <2> QED
    BY <1>1, <1>6, <2>1, <2>2 DEF Owners
<1>8. Along(order', pending', Content')
  <2>1. order \in Seq(Nodes) /\ pending \in Seq(Nat) /\ nodes = Elements
    BY <1>1 DEF ListTypeOK, EventTypeOK, Linked
  <2>2. \A j \in 1..Len(order) : order[j] \in nodes /\ order[j] \in nodes'
    BY <1>4, <2>1 DEF Elements
  <2>3. /\ Content'[new] = made + 1
        /\ \A n \in nodes : Content'[n] = Content[n]
    BY <1>3, <1>4 DEF Content
  <2> HIDE DEF Content
  <2> QED
    BY <1>1, <1>4, <2>1, <2>2, <2>3, AlongIns
<1> QED
  BY <1>2, <1>5, <1>7, <1>8 DEF EventInv

(* An element and its event go; the block is freed or begins a dispatch. *)
LEMMA EventRem ==
  ASSUME EventInv, NEW element \in Elements \cup {NULL}, list_rem_next(element),
         NEW i \in 0..(Len(order) - 1), IsAt(element, i),
         IsRemove(Nat, pending', pending, i), UNCHANGED <<content, made, leaked>>,
         NEW b, b = data[old_element(element)],
         \/ blocks' = blocks \ {b} /\ dispatching' = dispatching
         \/ blocks' = blocks /\ dispatching' = Append(dispatching, b)
  PROVE  EventInv'
<1>1. ListTypeOK /\ Linked /\ EventTypeOK /\ Owners /\ Along(order, pending, Content)
  BY DEF EventInv
<1>2. ListTypeOK' /\ Linked'
  BY <1>1, RemKeeps
<1> DEFINE old == order[i + 1]
<1>3. /\ IsRemove(Nodes, order', order, i)
      /\ old_element(element) = old /\ old \in nodes
      /\ nodes' = nodes \ {old} /\ size' = size - 1
      /\ \A n \in nodes' : data'[n] = data[n]
  BY <1>1, RemIs
<1> HIDE DEF old
<1>4. /\ Queued' = Queued \ {b} /\ Apart' /\ b \in Queued
      /\ b \in blocks /\ b \notin Running /\ b \notin leaked /\ b \in Blocks
  BY <1>1, <1>3, QueuedRem DEF Owners, EventTypeOK
<1>5. /\ size \in Nat /\ Len(dispatching) \in Nat
      /\ Cardinality(blocks) = size + Len(dispatching) + Cardinality(leaked)
      /\ Cardinality(leaked) \in Nat
  <2>1. IsFiniteSet(leaked)
    BY <1>1, FS_Subset DEF EventTypeOK, Owners
  <2> QED
    BY <1>1, <2>1, FS_CardinalityType DEF ListTypeOK, EventTypeOK, Owners
<1>6. ASSUME blocks' = blocks \ {b}, dispatching' = dispatching
      PROVE  EventTypeOK' /\ Owners'
  <2>1. IsFiniteSet(blocks') /\ Cardinality(blocks') = Cardinality(blocks) - 1
    BY <1>1, <1>4, <1>6, FS_RemoveElement DEF EventTypeOK
  <2>2. EventTypeOK'
    BY <1>1, <1>6, <2>1 DEF EventTypeOK, IsRemove
  <2>3. Running' = Running
    BY <1>6 DEF Running
  <2>4. /\ Queued' \cap Running' = {} /\ (Queued' \cup Running') \cap leaked' = {}
        /\ blocks' = Queued' \cup Running' \cup leaked'
    BY <1>1, <1>4, <1>6, <2>3 DEF Owners
  <2>5. Cardinality(blocks') = size' + Len(dispatching') + Cardinality(leaked')
    BY <1>3, <1>5, <1>6, <2>1
  <2> QED
    BY <1>1, <1>4, <1>6, <2>2, <2>4, <2>5 DEF Owners
<1>7. ASSUME blocks' = blocks, dispatching' = Append(dispatching, b)
      PROVE  EventTypeOK' /\ Owners'
  <2> DEFINE len == Len(dispatching)
  <2>1. /\ dispatching' \in Seq(Blocks) /\ Len(dispatching') = len + 1 /\ len \in Nat
        /\ dispatching'[len + 1] = b /\ \A j \in 1..len : dispatching'[j] = dispatching[j]
    BY <1>1, <1>4, <1>7 DEF EventTypeOK
  <2> HIDE DEF len
  <2>2. EventTypeOK'
    BY <1>1, <1>7, <2>1 DEF EventTypeOK, IsRemove
  <2>3. Running' = Running \cup {b}
    <3>1. ASSUME NEW x \in Running' PROVE x \in Running \cup {b}
      <4>1. PICK j \in 1..(len + 1) : x = dispatching'[j]
        BY <2>1, <3>1 DEF Running
      <4>2. j \in 1..len \/ j = len + 1
        BY <2>1
      <4> QED
        BY <2>1, <4>1, <4>2 DEF Running, len
    <3>2. ASSUME NEW x \in Running PROVE x \in Running'
      <4>1. PICK j \in 1..len : x = dispatching[j]
        BY <3>2 DEF Running, len
      <4>2. j \in 1..(len + 1) /\ x = dispatching'[j]
        BY <2>1, <4>1
      <4> QED
        BY <2>1, <4>2 DEF Running
    <3>3. b \in Running'
      <4>1. len + 1 \in 1..(len + 1)
        BY <2>1
      <4> QED
        BY <2>1, <4>1 DEF Running
    <3> QED
      BY <3>1, <3>2, <3>3
  <2>4. \A j, k \in 1..Len(dispatching') : dispatching'[j] = dispatching'[k] => j = k
    <3>1. /\ \A j, k \in 1..len : dispatching[j] = dispatching[k] => j = k
          /\ \A j \in 1..len : dispatching[j] # b
      BY <1>1, <1>4 DEF Owners, Running, len
    <3>2. \A j \in 1..(len + 1) : j \in 1..len \/ j = len + 1
      BY <2>1
    <3> QED
      BY <2>1, <3>1, <3>2
  <2>5. /\ Queued' \cap Running' = {} /\ (Queued' \cup Running') \cap leaked' = {}
        /\ blocks' = Queued' \cup Running' \cup leaked'
    BY <1>1, <1>4, <1>7, <2>3 DEF Owners
  <2>6. Cardinality(blocks') = size' + Len(dispatching') + Cardinality(leaked')
    BY <1>3, <1>5, <1>7, <2>1 DEF len
  <2> QED
    BY <1>4, <2>2, <2>4, <2>5, <2>6 DEF Owners
<1>8. Along(order', pending', Content')
  <2>1. order \in Seq(Nodes) /\ pending \in Seq(Nat)
    BY <1>1 DEF ListTypeOK, EventTypeOK
  <2>2. \A j \in 1..Len(order') : order'[j] \in nodes'
    BY <1>2 DEF Linked, Elements
  <2>3. \A n \in nodes' : Content'[n] = Content[n]
    BY <1>3 DEF Content
  <2> HIDE DEF Content
  <2> QED
    BY <1>1, <1>3, <2>1, <2>2, <2>3, AlongRem
<1>9. EventTypeOK' /\ Owners'
  BY <1>6, <1>7
<1> QED
  BY <1>2, <1>8, <1>9 DEF EventInv

(* The first m of a sequence. *)
LEMMA PrefixIs ==
  ASSUME NEW S, NEW s \in Seq(S), NEW m \in 0..Len(s)
  PROVE  /\ SubSeq(s, 1, m) \in Seq(S) /\ Len(SubSeq(s, 1, m)) = m
         /\ \A j \in 1..m : SubSeq(s, 1, m)[j] = s[j]
OBVIOUS

(* The end of a dispatch keeps the inductive invariant. *)
LEMMA DispatchedKeeps ==
  ASSUME EventInv, Dispatched
  PROVE  EventInv'
<1>1. ListTypeOK /\ Linked /\ EventTypeOK /\ Owners /\ Along(order, pending, Content)
  BY DEF EventInv
<1> DEFINE len == Len(dispatching)
           b == dispatching[len]
<1>2. len \in Nat /\ len > 0 /\ dispatching \in Seq(Blocks)
  BY <1>1 DEF Dispatched, EventTypeOK
<1>3. /\ blocks' = blocks \ {b} /\ dispatching' = SubSeq(dispatching, 1, len - 1)
      /\ UNCHANGED <<listVars, content, leaked, made, pending>>
  BY DEF Dispatched, freed, Last, Front
<1>4. /\ dispatching' \in Seq(Blocks) /\ Len(dispatching') = len - 1
      /\ \A j \in 1..(len - 1) : dispatching'[j] = dispatching[j]
  <2> DEFINE m == len - 1
  <2>1. m \in 0..Len(dispatching) /\ dispatching' = SubSeq(dispatching, 1, m)
    BY <1>2, <1>3
  <2> HIDE DEF len, m
  <2>2. /\ dispatching' \in Seq(Blocks) /\ Len(dispatching') = m
        /\ \A j \in 1..m : dispatching'[j] = dispatching[j]
    BY <1>2, <2>1, PrefixIs
  <2> QED
    BY <2>2 DEF m
<1> HIDE DEF len, b
<1>5. b \in Running /\ b \in blocks /\ b \notin Queued /\ b \notin leaked
  BY <1>1, <1>2 DEF Owners, Running, len, b
<1>6. Running' = Running \ {b}
  <2>1. Running = {dispatching[j] : j \in 1..len} /\ b = dispatching[len]
    BY DEF Running, len, b
  <2>2. Running' = {dispatching[j] : j \in 1..(len - 1)}
    BY <1>4 DEF Running
  <2>3. \A j \in 1..len : dispatching[j] = dispatching[len] => j = len
    BY <1>1, <1>2 DEF Owners, len
  <2>4. \A j : j \in 1..len <=> j \in 1..(len - 1) \/ j = len
    BY <1>2
  <2>5. len \notin 1..(len - 1)
    BY <1>2
  <2> QED
    BY <2>1, <2>2, <2>3, <2>4, <2>5
<1>7. IsFiniteSet(blocks') /\ Cardinality(blocks') = Cardinality(blocks) - 1
  BY <1>1, <1>3, <1>5, FS_RemoveElement DEF EventTypeOK
<1>8. EventTypeOK'
  BY <1>1, <1>3, <1>4, <1>7 DEF EventTypeOK
<1>9. Queued' = Queued /\ Apart' /\ ListTypeOK' /\ Linked'
  BY <1>1, <1>3 DEF Owners, listVars, Queued, Apart, ListTypeOK, Linked, Elements
<1>11. Along(order', pending', Content')
  <2>1. Content' = Content
    BY <1>3 DEF listVars, Content
  <2> QED
    BY <1>1, <1>3, <2>1 DEF listVars
<1>10. Owners'
  <2>1. /\ Queued' \cap Running' = {} /\ (Queued' \cup Running') \cap leaked' = {}
        /\ blocks' = Queued' \cup Running' \cup leaked'
    BY <1>1, <1>3, <1>5, <1>6, <1>9 DEF Owners
  <2>2. Cardinality(blocks') = size' + Len(dispatching') + Cardinality(leaked')
    <3>1. size \in Nat /\ IsFiniteSet(leaked)
      BY <1>1, FS_Subset DEF ListTypeOK, EventTypeOK, Owners
    <3>2. Cardinality(leaked) \in Nat
      BY <3>1, FS_CardinalityType
    <3>3. Cardinality(blocks) = size + len + Cardinality(leaked)
      BY <1>1 DEF Owners, len
    <3> QED
      BY <1>2, <1>3, <1>4, <1>7, <3>1, <3>2, <3>3 DEF listVars
  <2>3. \A j, k \in 1..Len(dispatching') : dispatching'[j] = dispatching'[k] => j = k
    <3>1. \A j \in 1..(len - 1) : j \in 1..len
      BY <1>2
    <3> QED
      BY <1>1, <1>4, <3>1 DEF Owners, len
  <2> QED
    BY <1>9, <2>1, <2>2, <2>3 DEF Owners
<1> QED
  BY <1>8, <1>9, <1>10, <1>11 DEF EventInv

(* A receive_event that had no memory for its element keeps it. *)
LEMMA ReceiveFailsKeeps ==
  ASSUME EventInv, NEW b \in Blocks, ReceiveFails(b)
  PROVE  EventInv'
<1>1. ListTypeOK /\ Linked /\ EventTypeOK /\ Owners /\ Along(order, pending, Content)
  BY DEF EventInv
<1>2. /\ NewEvent(b) /\ leaked' = leaked \cup {b}
      /\ UNCHANGED <<listVars, dispatching, pending>>
  BY DEF ReceiveFails
<1>3. /\ b \notin Queued /\ b \notin Running /\ b \notin leaked
      /\ blocks' = blocks \cup {b} /\ blocks' \subseteq Blocks /\ IsFiniteSet(blocks')
      /\ Cardinality(blocks') = Cardinality(blocks) + 1
      /\ content' \in [Blocks -> Nat] /\ made' \in Nat /\ Running' = Running
      /\ \A n \in nodes : content'[data[n]] = content[data[n]]
  BY <1>2, EventMade
<1>4. EventTypeOK'
  BY <1>1, <1>2, <1>3 DEF EventTypeOK
<1>5. Queued' = Queued /\ Apart' /\ ListTypeOK' /\ Linked'
  BY <1>1, <1>2 DEF Owners, listVars, Queued, Apart, ListTypeOK, Linked, Elements
<1>6. Along(order', pending', Content')
  <2>1. Content' = Content
    BY <1>2, <1>3 DEF listVars, Content
  <2> QED
    BY <1>1, <1>2, <2>1 DEF listVars
<1>7. Owners'
  <2>1. /\ Queued' \cap Running' = {} /\ (Queued' \cup Running') \cap leaked' = {}
        /\ blocks' = Queued' \cup Running' \cup leaked'
    BY <1>1, <1>2, <1>3, <1>5 DEF Owners
  <2>2. IsFiniteSet(leaked)
    BY <1>1, FS_Subset DEF EventTypeOK, Owners
  <2>3. Cardinality(leaked') = Cardinality(leaked) + 1 /\ Cardinality(leaked) \in Nat
    BY <1>2, <1>3, <2>2, FS_AddElement, FS_CardinalityType
  <2>4. Cardinality(blocks') = size' + Len(dispatching') + Cardinality(leaked')
    BY <1>1, <1>2, <1>3, <2>3 DEF ListTypeOK, EventTypeOK, Owners, listVars
  <2> QED
    BY <1>1, <1>2, <1>5, <2>1, <2>4 DEF Owners
<1> QED
  BY <1>4, <1>5, <1>6, <1>7 DEF EventInv

(* Every step of the event queue and its callers keeps it. *)
LEMMA EventStep == EventInv /\ [Next]_vars => EventInv'
<1> SUFFICES ASSUME EventInv, [Next]_vars PROVE EventInv'
  OBVIOUS
<1>0. /\ ListTypeOK /\ Linked /\ EventTypeOK /\ Owners /\ Along(order, pending, Content)
      /\ ListTypeOK' /\ Linked'
  BY ListStep DEF EventInv
<1>a. /\ order \in Seq(Nodes) /\ pending \in Seq(Nat) /\ Len(order) \in Nat
      /\ Len(pending) = Len(order) /\ size = Len(order)
      /\ LinkedByLength
  BY <1>0, LinkedIs DEF ListTypeOK, EventTypeOK, Along, Linked
<1>1. ASSUME NEW b \in Blocks, NEW n \in Nodes, Receive(b, n)
      PROVE  EventInv'
  <2>1. /\ NewEvent(b) /\ list_ins_next(tail, b, n) /\ UNCHANGED <<dispatching, leaked>>
        /\ pending' = Append(pending, made + 1)
    BY <1>1 DEF Receive, enqueue_at
  <2>2. tail \in Elements \cup {NULL}
    BY <1>0, TailIsElement
  <2>3. IsAt(tail, Len(order))
    <3>1. CASE Len(order) = 0
      BY <1>a, <3>1 DEF LinkedByLength, IsAt
    <3>2. CASE Len(order) # 0
      <4>1. Len(order) \in 1..Len(order) /\ order[Len(order)] \in Nodes
        BY <1>a, <3>2
      <4>2. tail = order[Len(order)] /\ tail # NULL
        BY <1>a, <3>2, <4>1, ListAssumption DEF LinkedByLength
      <4> QED
        BY <4>1, <4>2 DEF IsAt
    <3> QED
      BY <3>1, <3>2
  <2>4. IsInsert(Nat, pending', pending, Len(order), made + 1)
    <3>1. made + 1 \in Nat
      BY <1>0 DEF EventTypeOK
    <3> QED
      BY <1>a, <2>1, <3>1, AppendIs
  <2>5. Len(order) \in 0..Len(order)
    BY <1>a
  <2> QED
    BY <2>1, <2>2, <2>3, <2>4, <2>5, EventIns
<1>2. ASSUME NEW b \in Blocks, NEW n \in Nodes, NEW element \in Elements \cup {NULL},
             InsertNext(element, b, n)
      PROVE  EventInv'
  <2>1. /\ NewEvent(b) /\ list_ins_next(element, b, n) /\ UNCHANGED <<dispatching, leaked>>
    BY <1>2 DEF InsertNext
  <2>2. PICK i \in 0..Len(order) :
          IsAt(element, i) /\ pending' = InsertAt(pending, i + 1, made + 1)
    BY <1>2 DEF InsertNext
  <2>3. IsInsert(Nat, pending', pending, i, made + 1)
    <3>1. made + 1 \in Nat /\ i \in 0..Len(pending)
      BY <1>0, <1>a DEF EventTypeOK
    <3> QED
      BY <1>a, <2>2, <3>1, InsertAtIs
  <2> QED
    BY <2>1, <2>2, <2>3, EventIns
<1>3. ASSUME list_rem_next(NULL), pending' = Tail(pending),
             UNCHANGED <<content, made, leaked>>,
             \/ blocks' = blocks \ {data[head]} /\ dispatching' = dispatching
             \/ blocks' = blocks /\ dispatching' = Append(dispatching, data[head])
      PROVE  EventInv'
  <2>1. Len(order) > 0 /\ 0 \in 0..(Len(order) - 1) /\ IsAt(NULL, 0) /\ old_element(NULL) = head
    BY <1>a, <1>3 DEF list_rem_next, can_rem_next, IsAt, old_element
  <2>2. IsRemove(Nat, pending', pending, 0)
    BY <1>a, <1>3, <2>1, TailIs
  <2>3. NULL \in Elements \cup {NULL}
    OBVIOUS
  <2> QED
    BY <1>3, <2>1, <2>2, <2>3, EventRem
<1>4. CASE Process
  BY <1>3, <1>4 DEF Process, blockVars
<1>5. CASE DestroyNext
  BY <1>3, <1>5 DEF DestroyNext
<1>6. ASSUME NEW element \in Elements \cup {NULL}, RemoveNext(element)
      PROVE  EventInv'
  <2>1. /\ list_rem_next(element) /\ blocks' = blocks \ {data[old_element(element)]}
        /\ UNCHANGED <<content, leaked, dispatching, made>>
    BY <1>6 DEF RemoveNext
  <2>2. PICK i \in 0..(Len(order) - 1) : IsAt(element, i) /\ pending' = RemoveAt(pending, i + 1)
    BY <1>6 DEF RemoveNext
  <2>3. IsRemove(Nat, pending', pending, i)
    <3>1. i \in 0..(Len(pending) - 1)
      BY <1>a
    <3> QED
      BY <1>a, <2>2, <3>1, RemoveAtIs
  <2> QED
    BY <2>1, <2>2, <2>3, EventRem
<1>7. CASE UNCHANGED <<size, nodes, data, order, blockVars, dispatching, made, pending>>
  <2>1. EventTypeOK'
    BY <1>0, <1>7 DEF EventTypeOK, blockVars
  <2>2. Owners'
    <3>1. Queued' = Queued /\ Running' = Running
      BY <1>7 DEF Queued, Running
    <3>2. /\ blocks' = blocks /\ leaked' = leaked /\ size' = size
          /\ dispatching' = dispatching
      BY <1>7 DEF blockVars
    <3>3. Apart'
      BY <1>0, <1>7 DEF Owners, Apart
    <3> QED
      BY <1>0, <3>1, <3>2, <3>3 DEF Owners
  <2>3. Along(order', pending', Content')
    BY <1>0, <1>7 DEF Along, Content, blockVars
  <2> QED
    BY <1>0, <2>1, <2>2, <2>3 DEF EventInv
<1>8. CASE Destroy \/ DestroyEnd \/ UNCHANGED vars
  BY <1>7, <1>8 DEF Destroy, DestroyEnd, vars, listVars
<1> QED
  BY <1>1, <1>2, <1>4, <1>5, <1>6, <1>8, DispatchedKeeps, ReceiveFailsKeeps DEF Next

(* It holds in every reachable state. *)
LEMMA EventsInvariant == Spec => []EventInv
BY EventStarts, EventStep, PTL DEF Spec

(* Whatever dispatch functions and other callers do to the queue, each event
   is in a block that nobody frees or uses again before its turn comes. *)
THEOREM EventsKept == Spec => []ContentsKept
<1>1. EventInv => ContentsKept
  <2> SUFFICES ASSUME EventInv PROVE ContentsKept
    OBVIOUS
  <2>1. \A j \in 1..Len(order) : order[j] \in nodes
    BY DEF EventInv, Linked, Elements
  <2>2. \A n \in nodes : data[n] \in blocks
    BY DEF EventInv, Owners, Queued
  <2> QED
    BY <2>1, <2>2 DEF EventInv, Along, Content, ContentsKept
<1> QED
  BY <1>1, EventsInvariant, PTL

(* malloc and free balance: only a receive_event that had no memory for its
   element forgets a block, and no block is freed while it has an owner. *)
THEOREM BlocksBalance == Spec => []BlocksAccounted
<1>1. EventInv => BlocksAccounted
  BY DEF EventInv, Owners, Queued, Running, BlocksAccounted
<1> QED
  BY <1>1, EventsInvariant, PTL
-----------------------------------------------------------------------------
(* The shell of words: what its variables hold, and who owns a block. *)
Word == [n \in nodes |-> word[data[n]]]

ShellTypeOK ==
  /\ held \subseteq Blocks /\ IsFiniteSet(held)
  /\ word \in [Blocks -> Words \cup {"none"}]
  /\ typed \in Seq(Words) /\ removing \in Nat
Holders ==
  /\ Apart
  /\ Queued \cap forgotten = {} /\ held = Queued \cup forgotten
  /\ Cardinality(held) = size + Cardinality(forgotten)
  /\ forgotten # {} => shell = "end" /\ Cardinality(forgotten) = 1
Removals == removing <= size /\ shell # "overrun"

(* The inductive invariant. *)
ShellInv ==
  /\ ListTypeOK /\ Linked
  /\ ShellTypeOK /\ Holders /\ Removals /\ Along(order, typed, Word)

(* The shell starts in it. *)
LEMMA ShellStarts == ShellInit => ShellInv
<1> SUFFICES ASSUME ShellInit PROVE ShellInv
  OBVIOUS
<1>1. ListTypeOK /\ Linked
  BY ListStarts DEF ShellInit
<1>2. ShellTypeOK
  BY FS_EmptySet DEF ShellInit, ShellTypeOK
<1>3. Queued = {} /\ held = {} /\ forgotten = {} /\ size = 0
  BY DEF ShellInit, list_init, Queued
<1>4. Apart
  BY DEF ShellInit, list_init, Apart
<1>5. Holders
  BY <1>3, <1>4, FS_EmptySet DEF Holders
<1>6. Removals
  BY DEF ShellInit, list_init, Removals
<1>7. Along(order, typed, Word)
  BY DEF ShellInit, list_init, Along
<1> QED
  BY <1>1, <1>2, <1>5, <1>6, <1>7 DEF ShellInv

(* A new word is put in front, in a block that nobody had. *)
LEMMA NewWordKeeps ==
  ASSUME ShellInv, NEW w \in Words, NEW b \in Blocks, NEW n \in Nodes, NewWord(w, b, n)
  PROVE  ShellInv'
<1>1. ListTypeOK /\ Linked /\ ShellTypeOK /\ Holders /\ Removals /\ Along(order, typed, Word)
  BY DEF ShellInv
<1>2. /\ shell = "run" /\ removing = 0 /\ b \notin held /\ list_ins_next(NULL, b, n)
      /\ held' = held \cup {b} /\ word' = [word EXCEPT ![b] = w]
      /\ typed' = <<w>> \o typed
      /\ UNCHANGED <<shell, removing, forgotten>>
  BY DEF NewWord, Adds, AtPrompt
<1>3. NULL \in Elements \cup {NULL} /\ 0 \in 0..Len(order) /\ IsAt(NULL, 0)
  BY <1>1 DEF ListTypeOK, IsAt
<1>4. ListTypeOK' /\ Linked'
  BY <1>1, <1>2, <1>3, InsKeeps
<1>5. /\ IsInsert(Nodes, order', order, 0, n)
      /\ n \notin nodes /\ nodes' = nodes \cup {n} /\ size' = size + 1
      /\ data'[n] = b /\ \A m \in nodes : data'[m] = data[m]
  BY <1>1, <1>2, <1>3, InsIs
<1>6. forgotten = {} /\ held = Queued /\ b \notin Queued
  BY <1>1, <1>2 DEF Holders
<1>7. Queued' = Queued \cup {b} /\ Apart'
  BY <1>1, <1>5, <1>6, QueuedIns DEF Holders
<1>8. IsFiniteSet(held') /\ Cardinality(held') = Cardinality(held) + 1
  BY <1>1, <1>2, FS_AddElement DEF ShellTypeOK
<1>9. /\ IsInsert(Words, typed', typed, 0, w) /\ typed \in Seq(Words)
  BY <1>1, <1>2, PutFirstIs DEF ShellTypeOK
<1>10. ShellTypeOK'
  <2>1. typed' \in Seq(Words)
    BY <1>9 DEF IsInsert
  <2>2. word' \in [Blocks -> Words \cup {"none"}]
    BY <1>1, <1>2 DEF ShellTypeOK
  <2> QED
    BY <1>1, <1>2, <1>8, <2>1, <2>2 DEF ShellTypeOK
<1>11. Holders'
  <2>1. Cardinality(held) = size /\ Cardinality(forgotten) = 0 /\ size \in Nat
    BY <1>1, <1>6, FS_EmptySet DEF Holders, ListTypeOK
  <2>2. Cardinality(held') = size' + Cardinality(forgotten')
    BY <1>2, <1>5, <1>8, <2>1
  <2> QED
    BY <1>2, <1>6, <1>7, <2>2 DEF Holders
<1>12. Removals'
  BY <1>1, <1>2, <1>5 DEF Removals, ListTypeOK
<1>13. Along(order', typed', Word')
  <2>1. order \in Seq(Nodes) /\ nodes = Elements
    BY <1>1 DEF ListTypeOK, Linked
  <2>2. \A j \in 1..Len(order) : order[j] \in nodes
    BY <2>1 DEF Elements
  <2>3. word'[b] = w /\ \A m \in nodes : word'[data[m]] = word[data[m]]
    <3>1. \A m \in nodes : data[m] \in Blocks /\ data[m] # b
      BY <1>1, <1>6 DEF ShellTypeOK, Queued
    <3> QED
      BY <1>1, <1>2, <3>1 DEF ShellTypeOK
  <2>4. Word'[n] = w /\ \A m \in nodes : Word'[m] = Word[m]
    BY <1>5, <2>3 DEF Word
  <2> HIDE DEF Word
  <2> QED
    BY <1>1, <1>3, <1>5, <1>9, <2>1, <2>2, <2>4, AlongIns
<1> QED
  BY <1>4, <1>10, <1>11, <1>12, <1>13 DEF ShellInv

(* An add that fails forgets one block, and the shell ends. *)
LEMMA AddFailsKeeps ==
  ASSUME ShellInv, NEW w \in Words, NEW b \in Blocks, AddFails(w, b)
  PROVE  ShellInv'
<1>1. ListTypeOK /\ Linked /\ ShellTypeOK /\ Holders /\ Removals /\ Along(order, typed, Word)
  BY DEF ShellInv
<1>2. /\ shell = "run" /\ removing = 0 /\ b \notin held
      /\ held' = held \cup {b} /\ word' = [word EXCEPT ![b] = w]
      /\ forgotten' = forgotten \cup {b} /\ shell' = "end"
      /\ UNCHANGED <<listVars, removing, typed>>
  BY DEF AddFails, Adds, AtPrompt
<1>3. forgotten = {} /\ held = Queued /\ b \notin Queued /\ forgotten' = {b}
  BY <1>1, <1>2 DEF Holders
<1>4. ListTypeOK' /\ Linked' /\ Apart' /\ Queued' = Queued /\ size' = size
  BY <1>1, <1>2 DEF Holders, listVars, ListTypeOK, Linked, Elements, Apart, Queued
<1>5. IsFiniteSet(held') /\ Cardinality(held') = Cardinality(held) + 1
  BY <1>1, <1>2, FS_AddElement DEF ShellTypeOK
<1>6. ShellTypeOK'
  <2>1. word' \in [Blocks -> Words \cup {"none"}]
    BY <1>1, <1>2 DEF ShellTypeOK
  <2> QED
    BY <1>1, <1>2, <1>5, <2>1 DEF ShellTypeOK
<1>7. Holders'
  <2>1. Cardinality(forgotten) = 0 /\ Cardinality(forgotten') = 1
    BY <1>3, FS_EmptySet, FS_Singleton
  <2>2. Cardinality(held') = size' + Cardinality(forgotten')
    BY <1>1, <1>4, <1>5, <2>1 DEF Holders, ListTypeOK
  <2> QED
    BY <1>2, <1>3, <1>4, <2>1, <2>2 DEF Holders
<1>8. Removals'
  BY <1>1, <1>2, <1>4 DEF Removals
<1>9. Along(order', typed', Word')
  <2>1. \A m \in nodes : data[m] \in Blocks /\ data[m] # b
    BY <1>1, <1>3 DEF ShellTypeOK, Queued
  <2>2. \A m \in nodes : word'[data[m]] = word[data[m]]
    BY <1>1, <1>2, <2>1 DEF ShellTypeOK
  <2>3. Word' = Word
    BY <1>2, <2>2 DEF listVars, Word
  <2> QED
    BY <1>1, <1>2, <2>3 DEF listVars
<1> QED
  BY <1>4, <1>6, <1>7, <1>8, <1>9 DEF ShellInv

(* A turn of the loop of remove finds an element, and frees its block. *)
LEMMA RemoveWordKeeps ==
  ASSUME ShellInv, RemoveWord
  PROVE  ShellInv'
<1>1. ListTypeOK /\ Linked /\ ShellTypeOK /\ Holders /\ Removals /\ Along(order, typed, Word)
  BY DEF ShellInv
<1>2. removing \in Nat /\ size \in Nat /\ removing > 0 /\ removing <= size /\ size > 0
  BY <1>1 DEF RemoveWord, Removals, ShellTypeOK, ListTypeOK
<1>3. can_rem_next(NULL)
  BY <1>2 DEF can_rem_next
<1>4. /\ shell = "run" /\ removing' = removing - 1
      /\ held' = held \ {data[head]} /\ list_rem_next(NULL) /\ typed' = Tail(typed)
      /\ UNCHANGED <<shell, word, forgotten>>
  BY <1>3 DEF RemoveWord
<1>5. /\ NULL \in Elements \cup {NULL} /\ 0 \in 0..(Len(order) - 1) /\ IsAt(NULL, 0)
      /\ old_element(NULL) = head /\ Len(order) = Len(typed) /\ Len(order) > 0
  <2>1. size = Len(order)
    BY <1>1 DEF Linked
  <2> QED
    BY <1>1, <1>2, <2>1 DEF IsAt, old_element, Along
<1>6. ListTypeOK' /\ Linked'
  BY <1>1, <1>4, <1>5, RemKeeps
<1> DEFINE old == order[0 + 1]
<1>7. /\ IsRemove(Nodes, order', order, 0)
      /\ head = old /\ old \in nodes
      /\ nodes' = nodes \ {old} /\ size' = size - 1
      /\ \A n \in nodes' : data'[n] = data[n]
  BY <1>1, <1>4, <1>5, RemIs
<1> HIDE DEF old
<1>8. /\ Queued' = Queued \ {data[old]} /\ Apart' /\ data[old] \in Queued
  BY <1>1, <1>7, QueuedRem DEF Holders
<1>9. forgotten = {} /\ held = Queued
  BY <1>1, <1>4 DEF Holders
<1>10. IsFiniteSet(held') /\ Cardinality(held') = Cardinality(held) - 1
  BY <1>1, <1>4, <1>7, <1>8, <1>9, FS_RemoveElement DEF ShellTypeOK
<1>11. IsRemove(Words, typed', typed, 0) /\ typed \in Seq(Words)
  BY <1>1, <1>4, <1>5, TailIs DEF ShellTypeOK
<1>12. ShellTypeOK'
  <2>1. typed' \in Seq(Words) /\ removing' \in Nat
    BY <1>2, <1>4, <1>11 DEF IsRemove
  <2> QED
    BY <1>1, <1>4, <1>10, <2>1 DEF ShellTypeOK
<1>13. Holders'
  <2>1. Cardinality(held) = size /\ Cardinality(forgotten) = 0
    BY <1>1, <1>2, <1>9, FS_EmptySet DEF Holders
  <2>2. Cardinality(held') = size' + Cardinality(forgotten')
    BY <1>2, <1>4, <1>7, <1>10, <2>1
  <2> QED
    BY <1>4, <1>7, <1>8, <1>9, <2>2 DEF Holders
<1>14. Removals'
  BY <1>2, <1>4, <1>7 DEF Removals
<1>15. Along(order', typed', Word')
  <2>1. order \in Seq(Nodes) /\ 0 \in 0..(Len(order) - 1)
    BY <1>1, <1>5 DEF ListTypeOK
  <2>2. \A j \in 1..Len(order') : order'[j] \in nodes'
    BY <1>6 DEF Linked, Elements
  <2>3. \A n \in nodes' : Word'[n] = Word[n]
    BY <1>4, <1>7 DEF Word
  <2> HIDE DEF Word
  <2> QED
    BY <1>1, <1>7, <1>11, <2>1, <2>2, <2>3, AlongRem
<1> QED
  BY <1>6, <1>12, <1>13, <1>14, <1>15 DEF ShellInv

(* Every step of the shell keeps it. *)
LEMMA ShellStep == ShellInv /\ [ShellNext]_wordsVars => ShellInv'
<1> SUFFICES ASSUME ShellInv, [ShellNext]_wordsVars PROVE ShellInv'
  OBVIOUS
<1>1. ListTypeOK /\ Linked /\ ShellTypeOK /\ Holders /\ Removals /\ Along(order, typed, Word)
  BY DEF ShellInv
<1>2. ASSUME UNCHANGED <<listVars, held, word, typed, forgotten>>,
             removing' \in Nat, removing' <= size,
             shell' # "overrun", forgotten = {} \/ shell' = shell
      PROVE  ShellInv'
  <2>1. /\ ListTypeOK' /\ Linked' /\ Apart' /\ Queued' = Queued /\ size' = size
        /\ Word' = Word
    BY <1>1, <1>2 DEF Holders, listVars, ListTypeOK, Linked, Elements, Apart, Queued, Word
  <2>2. ShellTypeOK' /\ Removals'
    BY <1>1, <1>2, <2>1 DEF ShellTypeOK, Removals
  <2>3. Holders'
    BY <1>1, <1>2, <2>1 DEF Holders
  <2>4. Along(order', typed', Word')
    BY <1>1, <1>2, <2>1 DEF listVars
  <2> QED
    BY <2>1, <2>2, <2>3, <2>4 DEF ShellInv
<1>3. /\ removing \in Nat /\ removing <= size /\ size \in Nat /\ shell # "overrun"
      /\ shell = "run" => forgotten = {}
  BY <1>1 DEF ShellTypeOK, Removals, ListTypeOK, Holders
<1>4. CASE AddNoMemory \/ MaddFails \/ Exit
  BY <1>2, <1>3, <1>4 DEF AddNoMemory, MaddFails, Exit, Adds, AtPrompt
<1>5. ASSUME NEW cnt \in remove_counts, RemoveWords(cnt) PROVE ShellInv'
  <2>1. cnt \in Nat /\ cnt <= size
    BY <1>3, <1>5 DEF RemoveWords, remove_counts, too_many
  <2> QED
    BY <1>2, <1>3, <1>5, <2>1 DEF RemoveWords
<1>6. CASE UNCHANGED wordsVars
  BY <1>2, <1>3, <1>6 DEF wordsVars, shellVars
<1> QED
  BY <1>4, <1>5, <1>6, NewWordKeeps, AddFailsKeeps, RemoveWordKeeps DEF ShellNext

(* The stack is the words that were typed and not removed, each in a block of
   its own; remove always finds the elements it counted; and only an add that
   fails, which ends the program, forgets a block. *)
THEOREM WordsStay == ShellSpec => []WordsKept
<1>1. ShellInv => WordsKept
  <2> SUFFICES ASSUME ShellInv PROVE WordsKept
    OBVIOUS
  <2>1. \A j \in 1..Len(order) : order[j] \in nodes
    BY DEF ShellInv, Linked, Elements
  <2>2. Len(order) = Len(typed) /\ \A j \in 1..Len(order) : word[data[order[j]]] = typed[j]
    BY <2>1 DEF ShellInv, Along, Word
  <2> QED
    BY <2>2 DEF ShellInv, Holders, Removals, Queued, WordsKept
<1> QED
  BY <1>1, ShellStarts, ShellStep, PTL DEF ShellSpec
=============================================================================
