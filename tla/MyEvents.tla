------------------------------- MODULE MyEvents ------------------------------
(***************************************************************************)
(* The event queue (Project1/MyEvents.c, MyQueue.c) on top of MyList.      *)
(* receive_event copies the caller's event to a block of its own and       *)
(* queues it, process_event takes the first, calls dispatch and frees the  *)
(* block.  dispatch is the caller's function and may receive and process   *)
(* events itself.  A Queue is a List, so a caller may also insert and      *)
(* remove anywhere, or destroy it.                                         *)
(***************************************************************************)
EXTENDS MyList, FiniteSets

CONSTANTS
  MaxEvents, \* bound: events that are made
  MaxDepth   \* bound: process_event calls inside each other

ASSUME EventsAssumption == MaxEvents \in Nat /\ MaxDepth \in Nat

VARIABLES
  blocks,      \* the blocks that are allocated
  content,     \* the event that a block holds
  dispatching, \* the blocks in a dispatch, the innermost last
  destroying,  \* list_destroy is running
  made,        \* events made so far, for MaxEvents
  pending,     \* ghost: the events that are to be dispatched, in order
  leaked       \* ghost: the blocks whose only pointer is gone

blockVars == <<blocks, content, leaked>>
vars == <<listVars, blockVars, dispatching, destroying, made, pending>>

Init ==
  /\ list_init
  /\ blocks = {} /\ content = [b \in Blocks |-> 0]
  /\ dispatching = <<>> /\ destroying = FALSE
  /\ made = 0 /\ pending = <<>> /\ leaked = {}

(* The next event, and the block it is copied to.  When there is no block,
   receive_event returns -1 and nothing has changed. *)
NewEvent(b) ==
  /\ ~destroying /\ made < MaxEvents
  /\ made' = made + 1
  /\ b \in Blocks \ blocks
  /\ content' = [content EXCEPT ![b] = made + 1]
  /\ blocks' = blocks \cup {b}

(* Mutant: a new event goes to the front. *)
enqueue_at_head == NULL
(* queue_enqueue inserts after the tail. *)
enqueue_at == tail

(* receive_event *)
Receive(b, n) ==
  /\ NewEvent(b)
  /\ list_ins_next(enqueue_at, b, n)
  /\ pending' = Append(pending, made + 1)
  /\ UNCHANGED <<dispatching, destroying, leaked>>

(* receive_event, when there is memory for the event and none for the
   element: it returns -1 and forgets the block. *)
ReceiveFails(b) ==
  /\ NewEvent(b)
  /\ leaked' = leaked \cup {b}
  /\ UNCHANGED <<listVars, dispatching, destroying, pending>>

(* list_ins_next with an element of the caller's choice; stack_push is the
   case of NULL.  A caller to whom it returns -1 still has its block. *)
InsertNext(element, b, n) ==
  /\ NewEvent(b)
  /\ list_ins_next(element, b, n)
  /\ \E i \in 0..Len(order) :
       IsAt(element, i) /\ pending' = InsertAt(pending, i + 1, made + 1)
  /\ UNCHANGED <<dispatching, destroying, leaked>>

(* process_event, up to the call of dispatch. *)
Process ==
  /\ ~destroying /\ Len(dispatching) < MaxDepth
  /\ size >= 1
  /\ dispatching' = Append(dispatching, data[head])
  /\ list_rem_next(NULL)
  /\ pending' = Tail(pending)
  /\ UNCHANGED <<blockVars, destroying, made>>

(* Mutant: the event is not freed. *)
freed_not(b) == blocks
(* free(event) *)
freed(b) == blocks \ {b}

(* dispatch returns and the event is freed. *)
Dispatched ==
  /\ dispatching # <<>> /\ ~destroying
  /\ blocks' = freed(Last(dispatching))
  /\ dispatching' = Front(dispatching)
  /\ UNCHANGED <<listVars, content, leaked, destroying, made, pending>>

(* list_rem_next by a caller, who frees what it gets. *)
RemoveNext(element) ==
  /\ ~destroying
  /\ list_rem_next(element)
  /\ blocks' = blocks \ {data[old_element(element)]}
  /\ \E i \in 0..(Len(order) - 1) :
       IsAt(element, i) /\ pending' = RemoveAt(pending, i + 1)
  /\ UNCHANGED <<content, leaked, dispatching, destroying, made>>

(* list_destroy *)
Destroy ==
  /\ ~destroying
  /\ destroying' = TRUE
  /\ UNCHANGED <<listVars, blockVars, dispatching, made, pending>>

(* while (list_size(list) > 0): remove the first, destroy its data. *)
DestroyNext ==
  /\ destroying /\ size > 0
  /\ blocks' = blocks \ {data[head]}
  /\ list_rem_next(NULL)
  /\ pending' = Tail(pending)
  /\ UNCHANGED <<content, leaked, dispatching, destroying, made>>

DestroyEnd ==
  /\ destroying /\ size = 0
  /\ head' = NULL /\ tail' = NULL
  /\ destroying' = FALSE
  /\ UNCHANGED <<size, next, data, nodes, order, blockVars, dispatching, made, pending>>

Next ==
  \/ \E b \in Blocks :
       \/ ReceiveFails(b)
       \/ \E n \in Nodes :
            \/ Receive(b, n)
            \/ \E element \in Elements \cup {NULL} : InsertNext(element, b, n)
  \/ \E element \in Elements \cup {NULL} : RemoveNext(element)
  \/ Process \/ Dispatched \/ Destroy \/ DestroyNext \/ DestroyEnd

Spec == Init /\ [][Next]_vars
-----------------------------------------------------------------------------
(* The queue holds the events it was given at the places they were put: no
   block is freed, or used for another event, while an element points to
   it, and process_event takes them from the front. *)
ContentsKept ==
  /\ Len(order) = Len(pending)
  /\ \A i \in 1..Len(order) :
       data[order[i]] \in blocks /\ content[data[order[i]]] = pending[i]

(* Every allocated block is in the queue, in a dispatch, or was forgotten by
   a receive_event that failed, and in one place only: nothing else leaks
   and nothing is freed twice. *)
BlocksAccounted ==
  LET queued == {data[n] : n \in nodes}
      running == {dispatching[i] : i \in 1..Len(dispatching)}
  IN  /\ blocks = queued \cup running \cup leaked
      /\ Cardinality(blocks) = size + Len(dispatching) + Cardinality(leaked)
=============================================================================
