-------------------------------- MODULE MyList -------------------------------
(***************************************************************************)
(* The singly linked list (Project1/MyList.c) that MyQueue.c and MyStack.c *)
(* are made of.  Memory is explicit: an element is an address with a next  *)
(* and a data field, malloc hands out any free address, or fails.  A call  *)
(* names an element that is in the list, or NULL for the place before the  *)
(* first one.                                                              *)
(***************************************************************************)
EXTENDS Integers, Sequences, SequencesExt

CONSTANTS
  Nodes,  \* the addresses a ListElmt may have
  Blocks, \* the addresses of what data pointers point to
  NULL

ASSUME ListAssumption == NULL \notin Nodes /\ NULL \notin Blocks

VARIABLES
  size, head, tail, \* of the List
  next, data,       \* of each ListElmt
  nodes,            \* the elements that are allocated
  order             \* ghost: the elements in the order the calls ask for

listVars == <<size, head, tail, next, data, nodes, order>>

ListTypeOK ==
  /\ size \in Nat
  /\ head \in Nodes \cup {NULL} /\ tail \in Nodes \cup {NULL}
  /\ next \in [Nodes -> Nodes \cup {NULL}]
  /\ data \in [Nodes -> Blocks \cup {NULL}]
  /\ nodes \subseteq Nodes
  /\ order \in Seq(Nodes)

list_init ==
  /\ size = 0 /\ head = NULL /\ tail = NULL
  /\ next = [n \in Nodes |-> NULL] /\ data = [n \in Nodes |-> NULL]
  /\ nodes = {} /\ order = <<>>

(* The place of an element; that of NULL is before the first. *)
Elements == {order[i] : i \in 1..Len(order)}
IsAt(element, i) == IF element = NULL THEN i = 0
                    ELSE i \in 1..Len(order) /\ order[i] = element

(* The tail after list_ins_next. *)
tail_after_ins(element, new) ==
  IF element = NULL THEN IF size = 0 THEN new ELSE tail
  ELSE IF next[element] = NULL THEN new ELSE tail

(* list_ins_next, when malloc gives it new. *)
list_ins_next(element, block, new) ==
  /\ new \in Nodes \ nodes
  /\ nodes' = nodes \cup {new}
  /\ data' = [data EXCEPT ![new] = block]
  /\ tail' = tail_after_ins(element, new)
  /\ IF element = NULL
     THEN head' = new /\ next' = [next EXCEPT ![new] = head]
     ELSE head' = head /\ next' = [next EXCEPT ![new] = next[element], ![element] = new]
  /\ size' = size + 1
  /\ \E i \in 0..Len(order) :
       IsAt(element, i) /\ order' = InsertAt(order, i + 1, new)

(* When list_rem_next returns 0, and the element that it then frees. *)
can_rem_next(element) == size > 0 /\ (element # NULL => next[element] # NULL)
old_element(element) == IF element = NULL THEN head ELSE next[element]

(* Mutant: the list that becomes empty keeps its tail. *)
tail_after_rem_kept(element) ==
  IF element # NULL /\ next[next[element]] = NULL THEN element ELSE tail
(* The tail after list_rem_next. *)
tail_after_rem(element) ==
  IF element = NULL THEN IF size = 1 THEN NULL ELSE tail
  ELSE IF next[next[element]] = NULL THEN element ELSE tail

(* list_rem_next; the caller gets data[old_element(element)]. *)
list_rem_next(element) ==
  LET old == old_element(element)
  IN  /\ can_rem_next(element)
      /\ tail' = tail_after_rem(element)
      /\ IF element = NULL
         THEN head' = next[old] /\ next' = [next EXCEPT ![old] = NULL]
         ELSE head' = head /\ next' = [next EXCEPT ![element] = next[old], ![old] = NULL]
      /\ data' = [data EXCEPT ![old] = NULL]
      /\ nodes' = nodes \ {old}
      /\ size' = size - 1
      /\ \E i \in 0..(Len(order) - 1) :
           IsAt(element, i) /\ order' = RemoveAt(order, i + 1)

(* The pointers say what the calls asked for: from head, next leads through
   the elements in order and ends at tail, size counts them, each is
   allocated and occurs once, and no other is allocated. *)
Linked ==
  /\ size = Len(order)
  /\ nodes = Elements
  /\ \A i, j \in 1..Len(order) : order[i] = order[j] => i = j
  /\ head = IF order = <<>> THEN NULL ELSE order[1]
  /\ tail = IF order = <<>> THEN NULL ELSE order[Len(order)]
  /\ \A i \in 1..Len(order) :
       next[order[i]] = IF i = Len(order) THEN NULL ELSE order[i + 1]
=============================================================================
