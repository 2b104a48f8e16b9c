-------------------------------- MODULE CirQue -------------------------------
(***************************************************************************)
(* The circular queue (MyUtil/MyCircleQueue.c) under the menu of           *)
(* MyUtil/TestCircle.c.  The queue is a local variable of main and         *)
(* initCirQue gives it an array only: front, rear, count and capacity hold *)
(* what was on the stack.                                                  *)
(***************************************************************************)
EXTENDS Integers, Sequences

CONSTANTS
  Slots,   \* the ints initCirQue is asked for, 100
  Garbage, \* what an uninitialised field may hold
  MaxCount \* bound: how far from 0 count may get

ASSUME CirQueAssumption == Slots \in Nat \ {0} /\ Garbage \subseteq Int /\ MaxCount \in Nat

VARIABLES
  cells, allocated, \* what data points to, and whether malloc gave it
  front, rear, count, capacity,
  menu,  \* "shown", "quit", or "broken": an access outside of the array
  items, \* ghost: the data inserted and not yet removed
  given, \* ghost: the last datum removed, and the one that was due
  sound  \* ghost: the fields happened to describe an empty queue

ringVars == <<cells, allocated, front, rear, count, capacity, menu, items, given, sound>>

Data == 1..2
Indices == 0..(Slots - 1)

initCirQue == cells = [i \in Indices |-> 0] /\ allocated \in BOOLEAN

RingInit ==
  /\ initCirQue
  /\ front \in Garbage /\ rear \in Garbage /\ count \in Garbage /\ capacity \in Garbage
  /\ menu = "shown" /\ items = <<>> /\ given = <<0, 0>>
  /\ sound = (/\ allocated /\ capacity \in 1..Slots /\ count = 0
              /\ front = rear /\ front \in 0..(capacity - 1))

(* i % capacity of C, which truncates; there is no remainder by 0. *)
remainder(i) ==
  LET m == IF capacity < 0 THEN -capacity ELSE capacity
  IN  IF i < 0 THEN -((-i) % m) ELSE i % m

CanUse(i) == allocated /\ i \in Indices /\ capacity # 0
Breaks(i) ==
  /\ ~CanUse(i) /\ menu' = "broken"
  /\ UNCHANGED <<cells, allocated, front, rear, count, capacity, items, given, sound>>

(* Mutant: one more than there is room for. *)
full_late == count > capacity
full == count = capacity

(* It returns -1 and changes nothing when full *)
insertCirQue(v) ==
  /\ menu = "shown" /\ count < MaxCount /\ ~full
  /\ \/ Breaks(rear)
     \/ /\ CanUse(rear)
        /\ cells' = [cells EXCEPT ![rear] = v]
        /\ rear' = remainder(rear + 1) /\ count' = count + 1
        /\ items' = Append(items, v)
        /\ UNCHANGED <<allocated, front, capacity, menu, given, sound>>

(* It returns -1 when count is 0; the menu calls it as
   often as it is told. *)
removeCirQue ==
  /\ menu = "shown" /\ count # 0 /\ count > -MaxCount
  /\ \/ Breaks(front)
     \/ /\ CanUse(front)
        /\ front' = remainder(front + 1) /\ count' = count - 1
        /\ IF items = <<>> THEN UNCHANGED <<items, given>>
           ELSE items' = Tail(items) /\ given' = <<cells[front], Head(items)>>
        /\ UNCHANGED <<cells, allocated, rear, capacity, menu, sound>>

(* It reads the front element count times: i does not move on. *)
printCirQue ==
  /\ menu = "shown" /\ count >= 1
  /\ ~(allocated /\ front \in Indices)
  /\ menu' = "broken"
  /\ UNCHANGED <<cells, allocated, front, rear, count, capacity, items, given, sound>>

(* The array is freed, and then the queue, which is a local of main. *)
disposeCirQue == allocated' = FALSE

Quit ==
  /\ menu = "shown" /\ menu' = "quit" /\ disposeCirQue
  /\ UNCHANGED <<cells, front, rear, count, capacity, items, given, sound>>

(* main: every choice leads back to the menu, except the last. *)
RingNext == (\E v \in Data : insertCirQue(v)) \/ removeCirQue \/ printCirQue \/ Quit
RingSpec == RingInit /\ [][RingNext]_ringVars
-----------------------------------------------------------------------------
(* If the fields happened to describe an empty queue when main began, then
   through every wrap-around the ring holds what was inserted and not yet
   removed, in that order, gives it back in that order, and no access leaves
   the array. *)
RingIsQueue ==
  sound =>
    /\ menu # "broken" /\ given[1] = given[2]
    /\ count = Len(items) /\ count <= capacity
    /\ \A i \in 1..count : cells[(front + i - 1) % capacity] = items[i]
=============================================================================
