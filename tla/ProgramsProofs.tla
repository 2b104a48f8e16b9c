---------------------------- MODULE ProgramsProofs ----------------------------
(***************************************************************************)
(* The safety properties of the small programs, for all their constants:   *)
(* the circular queue, the lock-free stack, the logger and the two         *)
(* programs that speak datagrams, over a network that loses, doubles and   *)
(* reorders them as often as it likes.                                     *)
(***************************************************************************)
EXTENDS CirQue, LockFree, MLog, UdpEcho, Daytime, FiniteSetTheorems, TLAPS

(* The circular queue.  The cell i places behind the front; rear is the one
   behind the last element, so that it is free unless the queue is full. *)
Behind(f, i, c) == IF f + i < c THEN f + i ELSE f + i - c

Ring ==
  /\ cells \in [Indices -> Int] /\ items \in Seq(Int)
  /\ capacity \in 1..Slots /\ front \in 0..(capacity - 1)
  /\ count = Len(items) /\ count <= capacity
  /\ rear = Behind(front, count, capacity)
  /\ \A i \in 1..count : cells[Behind(front, i - 1, capacity)] = items[i]
  /\ given[1] = given[2]
  /\ menu # "broken"
  /\ menu = "shown" => allocated

RingInv == sound => Ring

(* The remainder of C and of the specification, for one turn of the ring. *)
LEMMA Wraps ==
  ASSUME NEW c \in Nat \ {0}, NEW f \in 0..(c - 1), NEW i \in 0..c
  PROVE  (f + i) % c = Behind(f, i, c)
<1>1. CASE f + i < c
  <2> DEFINE x == f + i
  <2>1. x \in 0..(c - 1)
    BY <1>1
  <2> HIDE DEF x
  <2>2. x % c = x
    BY <2>1
  <2> QED
    BY <1>1, <2>2 DEF x, Behind
<1>2. CASE ~(f + i < c)
  <2> DEFINE x == f + i
  <2>1. x \in c..(2 * c - 1)
    BY <1>2
  <2> HIDE DEF x
  <2>2. x % c = x - c
    BY <2>1
  <2> QED
    BY <1>2, <2>2 DEF x, Behind
<1> QED
  BY <1>1, <1>2

(* CellsApart one behind the other, and cells apart. *)
LEMMA CellsApart ==
  ASSUME NEW c \in Nat \ {0}, NEW f \in 0..(c - 1), NEW i \in 0..(c - 1)
  PROVE  /\ Behind(f, i, c) \in 0..(c - 1)
         /\ Behind(Behind(f, i, c), 1, c) = Behind(f, i + 1, c)
         /\ \A j \in 0..(c - 1) : j # i => Behind(f, j, c) # Behind(f, i, c)
BY DEF Behind

(* A ring whose fields describe an empty queue starts right. *)
LEMMA RingStarts == RingInit => RingInv
<1> SUFFICES ASSUME RingInit, sound PROVE Ring
  BY DEF RingInv
<1>1. allocated /\ capacity \in 1..Slots /\ count = 0 /\ front = rear /\ front \in 0..(capacity - 1)
  BY DEF RingInit
<1>2. cells \in [Indices -> Int] /\ items = <<>> /\ given = <<0, 0>> /\ menu = "shown"
  BY DEF RingInit, initCirQue
<1>3. Slots \in Nat
  BY CirQueAssumption
<1> QED
  BY <1>1, <1>2, <1>3 DEF Ring, Behind

(* insertCirQue writes the free cell at rear. *)
LEMMA InsertKeeps ==
  ASSUME sound, Ring, NEW v \in Data, insertCirQue(v)
  PROVE  sound' /\ Ring'
<1>1. /\ Slots \in Nat /\ capacity \in 1..Slots /\ front \in 0..(capacity - 1) /\ allocated
      /\ items \in Seq(Int) /\ count = Len(items) /\ count <= capacity /\ count # capacity
      /\ count \in Nat /\ capacity \in Nat \ {0} /\ front \in Nat
  BY CirQueAssumption DEF Ring, insertCirQue, full
<1>2. rear = Behind(front, count, capacity) /\ rear \in 0..(capacity - 1) /\ rear \in Indices
  BY <1>1 DEF Ring, Behind, Indices
<1>3. CanUse(rear)
  BY <1>1, <1>2 DEF CanUse
<1>4. /\ cells' = [cells EXCEPT ![rear] = v]
      /\ rear' = remainder(rear + 1) /\ count' = count + 1
      /\ items' = Append(items, v)
      /\ UNCHANGED <<allocated, front, capacity, menu, given, sound>>
  BY <1>3 DEF insertCirQue, Breaks
<1>5. rear' = Behind(front, count + 1, capacity)
  <2>1. remainder(rear + 1) = (rear + 1) % capacity
    BY <1>1, <1>2 DEF remainder
  <2>2. (rear + 1) % capacity = Behind(rear, 1, capacity)
    BY <1>1, <1>2, Wraps
  <2> QED
    <3>1. count \in 0..(capacity - 1)
      BY <1>1
    <3>2. Behind(Behind(front, count, capacity), 1, capacity) = Behind(front, count + 1, capacity)
      BY <1>1, <3>1, CellsApart
    <3> QED
      BY <1>2, <1>4, <2>1, <2>2, <3>2
<1>6. v \in Int /\ cells' \in [Indices -> Int] /\ items' \in Seq(Int) /\ Len(items') = count + 1
  <2>1. v \in Int
    BY DEF Data
  <2>2. cells' \in [Indices -> Int]
    BY <1>4, <2>1 DEF Ring
  <2> QED
    BY <1>1, <1>4, <2>1, <2>2
<1>7. ASSUME NEW i \in 1..(count + 1)
      PROVE  cells'[Behind(front, i - 1, capacity)] = items'[i]
  <2>1. CASE i = count + 1
    BY <1>1, <1>2, <1>4, <2>1 DEF Ring
  <2>2. CASE i # count + 1
    <3>1. i \in 1..count /\ items'[i] = items[i]
      BY <1>1, <1>4, <2>2
    <3>2. /\ Behind(front, i - 1, capacity) # rear
          /\ Behind(front, i - 1, capacity) \in Indices
      <4>1. /\ i - 1 \in 0..(capacity - 1) /\ count \in 0..(capacity - 1) /\ i - 1 # count
        BY <1>1, <3>1
      <4>2. Behind(front, i - 1, capacity) \in 0..(capacity - 1)
        BY <1>1, <4>1, CellsApart
      <4>3. Behind(front, i - 1, capacity) # rear
        <5>1. Behind(front, i - 1, capacity) # Behind(front, count, capacity)
          BY <1>1, <4>1, CellsApart
        <5> QED
          BY <1>2, <5>1
      <4> QED
        BY <1>1, <4>2, <4>3 DEF Indices
    <3> QED
      BY <1>4, <3>1, <3>2 DEF Ring
  <2> QED
    BY <2>1, <2>2
<1> QED
  BY <1>1, <1>4, <1>5, <1>6, <1>7 DEF Ring

(* removeCirQue gives what has been in the ring longest. *)
LEMMA RemoveKeeps ==
  ASSUME sound, Ring, removeCirQue
  PROVE  sound' /\ Ring'
<1>1. /\ Slots \in Nat /\ capacity \in 1..Slots /\ front \in 0..(capacity - 1) /\ allocated
      /\ items \in Seq(Int) /\ count = Len(items) /\ count <= capacity /\ count # 0
      /\ count \in Nat /\ capacity \in Nat \ {0} /\ front \in Nat
  BY CirQueAssumption DEF Ring, removeCirQue
<1>2. front \in Indices /\ items # <<>>
  BY <1>1 DEF Indices
<1>3. CanUse(front)
  BY <1>1, <1>2 DEF CanUse
<1>4. /\ front' = remainder(front + 1) /\ count' = count - 1
      /\ items' = Tail(items) /\ given' = <<cells[front], Head(items)>>
      /\ UNCHANGED <<cells, allocated, rear, capacity, menu, sound>>
  BY <1>2, <1>3 DEF removeCirQue, Breaks
<1>5. front' = Behind(front, 1, capacity)
  <2>1. remainder(front + 1) = (front + 1) % capacity
    BY <1>1 DEF remainder
  <2>2. (front + 1) % capacity = Behind(front, 1, capacity)
    BY <1>1, Wraps
  <2> QED
    BY <1>4, <2>1, <2>2
<1>6. front' \in 0..(capacity - 1)
  BY <1>1, <1>5 DEF Behind
<1>7. \A i \in 0..(count - 1) : Behind(front', i, capacity) = Behind(front, i + 1, capacity)
  BY <1>1, <1>5 DEF Behind
<1>8. /\ Tail(items) \in Seq(Int) /\ Len(Tail(items)) = count - 1 /\ Head(items) = items[1]
      /\ \A i \in 1..(count - 1) : Tail(items)[i] = items[i + 1]
  BY <1>1, <1>2
<1>9. cells[front] = items[1]
  <2>1. Behind(front, 1 - 1, capacity) = front /\ 1 \in 1..count
    BY <1>1 DEF Behind
  <2> QED
    BY <2>1 DEF Ring
<1>10. ASSUME NEW i \in 1..(count - 1)
       PROVE  cells[Behind(front', i - 1, capacity)] = Tail(items)[i]
  <2>1. i - 1 \in 0..(count - 1) /\ (i - 1) + 1 = i /\ i + 1 \in 1..count /\ (i + 1) - 1 = i
    BY <1>1
  <2>2. Behind(front', i - 1, capacity) = Behind(front, (i + 1) - 1, capacity)
    BY <1>7, <2>1
  <2>3. cells[Behind(front, (i + 1) - 1, capacity)] = items[i + 1]
    BY <2>1 DEF Ring
  <2> QED
    BY <1>8, <2>2, <2>3
<1>11. rear = Behind(front', count - 1, capacity)
  <2>1. count - 1 \in 0..(count - 1) /\ (count - 1) + 1 = count
    BY <1>1
  <2> QED
    BY <1>7, <2>1 DEF Ring
<1>12. count - 1 = Len(items') /\ count - 1 <= capacity
  BY <1>1, <1>4, <1>8
<1> QED
  BY <1>4, <1>6, <1>8, <1>9, <1>10, <1>11, <1>12 DEF Ring

(* Every step of the ring's menu keeps it right. *)
LEMMA RingKeeps == RingInv /\ [RingNext]_ringVars => RingInv'
<1> SUFFICES ASSUME RingInv, [RingNext]_ringVars PROVE RingInv'
  OBVIOUS
<1>1. ASSUME NEW v \in Data, insertCirQue(v) PROVE RingInv'
  <2>1. sound' = sound
    BY <1>1 DEF insertCirQue, Breaks
  <2> QED
    BY <1>1, <2>1, InsertKeeps DEF RingInv
<1>2. CASE removeCirQue
  <2>1. sound' = sound
    BY <1>2 DEF removeCirQue, Breaks
  <2> QED
    BY <1>2, <2>1, RemoveKeeps DEF RingInv
<1>3. CASE printCirQue
  <2>1. sound' = sound /\ menu = "shown" /\ ~(allocated /\ front \in Indices)
    BY <1>3 DEF printCirQue
  <2>2. ~Ring
    BY <2>1, CirQueAssumption DEF Ring, Indices
  <2> QED
    BY <2>1, <2>2 DEF RingInv
<1>4. CASE Quit
  BY <1>4 DEF Quit, disposeCirQue, RingInv, Ring
<1>5. CASE UNCHANGED ringVars
  BY <1>5 DEF ringVars, RingInv, Ring
<1> QED
  BY <1>1, <1>2, <1>3, <1>4, <1>5 DEF RingNext

(* For an array of any size and any capacity that fits it: once main begins
   with the fields of an empty queue, insertCirQue and removeCirQue keep what
   was inserted in its order through every wrap-around and use no cell outside. *)
THEOREM RingHoldsItems == RingSpec => []RingIsQueue
<1>1. RingInv => RingIsQueue
  <2> SUFFICES ASSUME sound, Ring
               PROVE  \A i \in 1..count : cells[(front + i - 1) % capacity] = items[i]
    BY DEF RingInv, RingIsQueue, Ring
  <2> TAKE i \in 1..count
  <2>1. /\ capacity \in Nat \ {0} /\ front \in 0..(capacity - 1) /\ i - 1 \in 0..capacity
        /\ front + i - 1 = front + (i - 1)
    BY CirQueAssumption DEF Ring
  <2>2. (front + (i - 1)) % capacity = Behind(front, i - 1, capacity)
    BY <2>1, Wraps
  <2> QED
    BY <2>1, <2>2 DEF Ring
<1> QED
  BY <1>1, RingStarts, RingKeeps, PTL DEF RingSpec
-----------------------------------------------------------------------------
(* The lock-free stack.  An iteration that a producer has begun is a ticket;
   every value is in the hands of a producer, on the stack, in the hands of
   a consumer, or counted. *)
Tickets == {t \in Producers \X (1..iterations) : t[2] > todo[t[1]]}
Holding == {p \in Producers : value[p] # 0}
Popped == {c \in Consumers : got[c]}

LockTypeOK ==
  /\ produced \in Nat /\ consumed \in Nat /\ stack \in Seq(Nat)
  /\ isAllThreadStarted \in BOOLEAN
  /\ todo \in [Producers -> 0..iterations] /\ value \in [Producers -> Nat]
  /\ place \in [Consumers -> {"test", "pop", "last", "done"}]
  /\ got \in [Consumers -> BOOLEAN]
  /\ main \in {"producers", "flag", "consumers", "end"}
Counted == produced = Cardinality(Tickets)
Balanced ==
  produced = consumed + Len(stack) + Cardinality(Holding) + Cardinality(Popped)
(* No push comes after the flag, so a consumer that found the stack empty
   after it is right for good. *)
Phases ==
  /\ main # "producers" => \A p \in Producers : todo[p] = 0 /\ value[p] = 0
  /\ isAllThreadStarted <=> main \in {"consumers", "end"}
  /\ \A c \in Consumers :
       /\ place[c] = "last" => isAllThreadStarted
       /\ got[c] => place[c] \in {"pop", "last"}
       /\ place[c] = "done" => isAllThreadStarted /\ stack = <<>>
  /\ main = "end" => \A c \in Consumers : place[c] = "done"

LockInv == LockTypeOK /\ Counted /\ Balanced /\ Phases

(* The sets that the counters stand for are finite. *)
LEMMA Finite ==
  /\ IsFiniteSet(Tickets) /\ IsFiniteSet(Holding) /\ IsFiniteSet(Popped)
  /\ Cardinality(Tickets) \in Nat /\ Cardinality(Holding) \in Nat /\ Cardinality(Popped) \in Nat
<1>1. IsFiniteSet(Producers \X (1..iterations))
  <2>1. IsFiniteSet(1..iterations)
    BY LockFreeAssumption, FS_Interval
  <2> QED
    BY <2>1, LockFreeAssumption, FS_Product
<1>2. IsFiniteSet(Tickets)
  BY <1>1, FS_Subset DEF Tickets
<1>3. IsFiniteSet(Holding) /\ IsFiniteSet(Popped)
  BY LockFreeAssumption, FS_Subset DEF Holding, Popped
<1> QED
  BY <1>2, <1>3, FS_CardinalityType

(* The counters start balanced. *)
LEMMA LockStarts == LockFreeInit => LockInv
<1> SUFFICES ASSUME LockFreeInit PROVE LockInv
  OBVIOUS
<1>1. Tickets = {} /\ Holding = {} /\ Popped = {}
  BY LockFreeAssumption DEF LockFreeInit, Tickets, Holding, Popped
<1>2. Counted /\ Balanced
  BY <1>1, FS_EmptySet DEF LockFreeInit, Counted, Balanced
<1>3. LockTypeOK
  <2>1. iterations \in 0..iterations
    BY LockFreeAssumption
  <2>2. todo \in [Producers -> 0..iterations] /\ value \in [Producers -> Nat]
    BY <2>1 DEF LockFreeInit
  <2>3. /\ place \in [Consumers -> {"test", "pop", "last", "done"}]
        /\ got \in [Consumers -> BOOLEAN]
    BY DEF LockFreeInit
  <2>4. /\ produced \in Nat /\ consumed \in Nat /\ stack \in Seq(Nat)
        /\ main \in {"producers", "flag", "consumers", "end"}
    BY DEF LockFreeInit
  <2>5. isAllThreadStarted \in BOOLEAN
    BY DEF LockFreeInit
  <2> QED
    BY <2>2, <2>3, <2>4, <2>5 DEF LockTypeOK
<1>4. Phases
  BY DEF LockFreeInit, Phases
<1> QED
  BY <1>2, <1>3, <1>4 DEF LockInv

(* ++producer_count takes a ticket and gives the producer a value. *)
LEMMA CountKeeps ==
  ASSUME LockInv, NEW p \in Producers, Count(p)
  PROVE  LockInv'
<1>0. LockTypeOK /\ Counted /\ Balanced /\ Phases /\ iterations \in Nat
  BY LockFreeAssumption DEF LockInv
<1>1. /\ todo[p] \in 1..iterations /\ value[p] = 0 /\ main = "producers"
      /\ todo' = [todo EXCEPT ![p] = todo[p] - 1] /\ produced' = produced + 1
      /\ value' = [value EXCEPT ![p] = produced + 1] /\ produced \in Nat
      /\ UNCHANGED <<consumed, stack, isAllThreadStarted, place, got, main>>
  BY <1>0 DEF Count, LockTypeOK, Phases
<1>2. LockTypeOK'
  BY <1>0, <1>1 DEF LockTypeOK
<1>3. Phases'
  BY <1>0, <1>1 DEF Phases
<1>4. Tickets' = Tickets \cup {<<p, todo[p]>>} /\ <<p, todo[p]>> \notin Tickets
  <2>1. /\ todo'[p] = todo[p] - 1 /\ todo[p] \in Int
        /\ \A q \in Producers : q # p => todo'[q] = todo[q]
    BY <1>0, <1>1 DEF LockTypeOK
  <2>2. ASSUME NEW q \in Producers, NEW k \in 1..iterations
        PROVE  <<q, k>> \in Tickets' <=> <<q, k>> \in Tickets \/ (q = p /\ k = todo[p])
    BY <2>1 DEF Tickets
  <2>3. <<p, todo[p]>> \in Producers \X (1..iterations)
    BY <1>1
  <2>4. Tickets' \subseteq Producers \X (1..iterations) /\ Tickets \subseteq Producers \X (1..iterations)
    BY DEF Tickets
  <2>5. Tickets' = Tickets \cup {<<p, todo[p]>>}
    BY <2>2, <2>3, <2>4
  <2>6. <<p, todo[p]>> \notin Tickets
    BY <2>1 DEF Tickets
  <2> QED
    BY <2>5, <2>6
<1>5. Counted'
  BY <1>0, <1>1, <1>4, Finite, FS_AddElement DEF Counted
<1>6. Holding' = Holding \cup {p} /\ p \notin Holding /\ Popped' = Popped
  BY <1>0, <1>1 DEF LockTypeOK, Holding, Popped
<1>7. Balanced'
  <2>1. Cardinality(Holding') = Cardinality(Holding) + 1
    BY <1>6, Finite, FS_AddElement
  <2>2. Len(stack) \in Nat /\ consumed \in Nat
    BY <1>0 DEF LockTypeOK
  <2> QED
    BY <1>0, <1>1, <1>6, <2>1, <2>2, Finite DEF Balanced
<1> QED
  BY <1>2, <1>3, <1>5, <1>7 DEF LockInv

(* A push that succeeds keeps the inductive invariant. *)
LEMMA PushKeeps ==
  ASSUME LockInv, NEW p \in Producers, Push(p)
  PROVE  LockInv'
<1>0. LockTypeOK /\ Counted /\ Balanced /\ Phases
  BY DEF LockInv
<1>1. /\ value[p] # 0 /\ value[p] \in Nat /\ main = "producers" /\ stack \in Seq(Nat)
      /\ stack' = <<value[p]>> \o stack /\ value' = [value EXCEPT ![p] = 0]
      /\ UNCHANGED <<produced, consumed, isAllThreadStarted, todo, place, got, main>>
  BY <1>0 DEF Push, LockTypeOK, Phases
<1>2. stack' \in Seq(Nat) /\ Len(stack') = Len(stack) + 1 /\ Len(stack) \in Nat
  BY <1>1
<1>3. LockTypeOK'
  BY <1>0, <1>1, <1>2 DEF LockTypeOK
<1>4. Phases'
  BY <1>0, <1>1 DEF Phases
<1>5. Counted'
  BY <1>0, <1>1 DEF Counted, Tickets
<1>6. Holding' = Holding \ {p} /\ p \in Holding /\ Popped' = Popped
  BY <1>0, <1>1 DEF LockTypeOK, Holding, Popped
<1>7. Balanced'
  <2>1. Cardinality(Holding') = Cardinality(Holding) - 1
    BY <1>6, Finite, FS_RemoveElement
  <2>2. consumed \in Nat
    BY <1>0 DEF LockTypeOK
  <2> QED
    BY <1>0, <1>1, <1>2, <1>6, <2>1, <2>2, Finite DEF Balanced
<1> QED
  BY <1>3, <1>4, <1>5, <1>7 DEF LockInv

(* So does a pop, of an element or of nothing. *)
LEMMA PopKeeps ==
  ASSUME LockInv, NEW c \in Consumers, Pop(c)
  PROVE  LockInv'
<1>0. LockTypeOK /\ Counted /\ Balanced /\ Phases
  BY DEF LockInv
<1>1. /\ place[c] \in {"pop", "last"} /\ ~got[c]
      /\ UNCHANGED <<produced, consumed, isAllThreadStarted, todo, value, main>>
  BY DEF Pop
<1>2. CASE stack = <<>>
  <2>1. place' = [place EXCEPT ![c] = empty(c)] /\ UNCHANGED <<stack, got>>
    BY <1>2 DEF Pop
  <2>2. /\ empty(c) \in {"test", "done"}
        /\ empty(c) = "done" => isAllThreadStarted
    BY <1>0, <1>1 DEF empty, Phases
  <2>3. LockTypeOK'
    BY <1>0, <1>1, <2>1, <2>2 DEF LockTypeOK
  <2>4. Phases'
    BY <1>0, <1>1, <1>2, <2>1, <2>2 DEF LockTypeOK, Phases
  <2>5. Counted' /\ Balanced'
    BY <1>0, <1>1, <2>1 DEF Counted, Balanced, Tickets, Holding, Popped
  <2> QED
    BY <2>3, <2>4, <2>5 DEF LockInv
<1>3. CASE stack # <<>>
  <2>1. stack' = Tail(stack) /\ got' = [got EXCEPT ![c] = TRUE] /\ place' = place
    BY <1>3 DEF Pop
  <2>2. stack \in Seq(Nat)
    BY <1>0 DEF LockTypeOK
  <2>3. stack' \in Seq(Nat) /\ Len(stack') = Len(stack) - 1 /\ Len(stack) \in Nat
    BY <1>3, <2>1, <2>2
  <2>4. LockTypeOK'
    BY <1>0, <1>1, <2>1, <2>3 DEF LockTypeOK
  <2>5. Phases'
    BY <1>0, <1>1, <1>3, <2>1 DEF LockTypeOK, Phases
  <2>6. Popped' = Popped \cup {c} /\ c \notin Popped /\ Holding' = Holding /\ Tickets' = Tickets
    BY <1>0, <1>1, <2>1 DEF LockTypeOK, Popped, Holding, Tickets
  <2>7. Cardinality(Popped') = Cardinality(Popped) + 1
    BY <2>6, Finite, FS_AddElement
  <2>8. consumed \in Nat
    BY <1>0 DEF LockTypeOK
  <2>9. Balanced'
    BY <1>0, <1>1, <2>3, <2>6, <2>7, <2>8, Finite DEF Balanced
  <2>10. Counted'
    BY <1>0, <1>1, <2>6 DEF Counted
  <2> QED
    BY <2>4, <2>5, <2>9, <2>10 DEF LockInv
<1> QED
  BY <1>2, <1>3

(* So does counting what was popped. *)
LEMMA CountPoppedKeeps ==
  ASSUME LockInv, NEW c \in Consumers, CountPopped(c)
  PROVE  LockInv'
<1>0. LockTypeOK /\ Counted /\ Balanced /\ Phases
  BY DEF LockInv
<1>1. /\ got[c] /\ got' = [got EXCEPT ![c] = FALSE] /\ consumed' = consumed + 1
      /\ UNCHANGED <<produced, stack, isAllThreadStarted, todo, value, place, main>>
  BY DEF CountPopped
<1>2. LockTypeOK' /\ Phases'
  BY <1>0, <1>1 DEF LockTypeOK, Phases
<1>3. Popped' = Popped \ {c} /\ c \in Popped /\ Holding' = Holding /\ Tickets' = Tickets
  BY <1>0, <1>1 DEF LockTypeOK, Popped, Holding, Tickets
<1>4. Cardinality(Popped') = Cardinality(Popped) - 1
  BY <1>3, Finite, FS_RemoveElement
<1>5. consumed \in Nat /\ Len(stack) \in Nat
  BY <1>0 DEF LockTypeOK
<1>6. Balanced'
  BY <1>0, <1>1, <1>3, <1>4, <1>5, Finite DEF Balanced
<1>7. Counted'
  BY <1>0, <1>1, <1>3 DEF Counted
<1> QED
  BY <1>2, <1>6, <1>7 DEF LockInv

(* So does every step. *)
LEMMA LockKeeps == LockInv /\ [LockFreeNext]_lockFreeVars => LockInv'
<1> SUFFICES ASSUME LockInv, [LockFreeNext]_lockFreeVars PROVE LockInv'
  OBVIOUS
<1>0. LockTypeOK /\ Counted /\ Balanced /\ Phases
  BY DEF LockInv
<1>1. ASSUME NEW c \in Consumers, Test(c) PROVE LockInv'
  <2>1. /\ place[c] = "test"
        /\ place' = [place EXCEPT ![c] = IF isAllThreadStarted THEN "last" ELSE "pop"]
        /\ UNCHANGED <<produced, consumed, stack, isAllThreadStarted, todo, value, got, main>>
    BY <1>1 DEF Test, after_flag
  <2>2. LockTypeOK'
    BY <1>0, <2>1 DEF LockTypeOK
  <2>3. Phases'
    BY <1>0, <2>1 DEF LockTypeOK, Phases
  <2>4. Counted' /\ Balanced'
    BY <1>0, <2>1 DEF Counted, Balanced, Tickets, Holding, Popped
  <2> QED
    BY <2>2, <2>3, <2>4 DEF LockInv
<1>2. CASE JoinProducers \/ SetFlag \/ JoinConsumers
  <2>1. /\ UNCHANGED <<produced, consumed, stack, todo, value, place, got>>
        /\ isAllThreadStarted' \in BOOLEAN /\ main' \in {"flag", "consumers", "end"}
    BY <1>0, <1>2 DEF JoinProducers, SetFlag, JoinConsumers, LockTypeOK
  <2>2. LockTypeOK'
    BY <1>0, <2>1 DEF LockTypeOK
  <2>3. Phases'
    BY <1>0, <1>2 DEF JoinProducers, SetFlag, JoinConsumers, LockTypeOK, Phases
  <2>4. Counted' /\ Balanced'
    BY <1>0, <2>1 DEF Counted, Balanced, Tickets, Holding, Popped
  <2> QED
    BY <2>2, <2>3, <2>4 DEF LockInv
<1>3. CASE UNCHANGED lockFreeVars
  <2>1. LockTypeOK' /\ Phases'
    BY <1>0, <1>3 DEF lockFreeVars, LockTypeOK, Phases
  <2>2. Counted' /\ Balanced'
    BY <1>0, <1>3 DEF lockFreeVars, Counted, Balanced, Tickets, Holding, Popped
  <2> QED
    BY <2>1, <2>2 DEF LockInv
<1> QED
  BY <1>1, <1>2, <1>3, CountKeeps, PushKeeps, PopKeeps, CountPoppedKeeps DEF LockFreeNext

(* For any number of producers, of iterations and of consumers: what the
   producers pushed is what the consumers popped and counted when both groups
   are joined, thanks to the drain behind the loop of consumer(). *)
THEOREM NothingUnconsumed == LockFreeSpec => []AllConsumed
<1>1. LockInv => AllConsumed
  <2> SUFFICES ASSUME LockInv, main = "end"
               PROVE  /\ stack = <<>> /\ consumed = produced
                      /\ produced = iterations * Cardinality(Producers)
    BY DEF AllConsumed
  <2>0. LockTypeOK /\ Counted /\ Balanced /\ Phases /\ iterations \in Nat
    BY LockFreeAssumption DEF LockInv
  <2>1. /\ \A p \in Producers : todo[p] = 0 /\ value[p] = 0
        /\ \A c \in Consumers : place[c] = "done" /\ ~got[c]
    BY <2>0 DEF Phases
  <2>2. stack = <<>>
    BY <2>0, <2>1, LockFreeAssumption DEF Phases
  <2>3. Holding = {} /\ Popped = {} /\ Tickets = Producers \X (1..iterations)
    BY <2>1 DEF Holding, Popped, Tickets
  <2>4. consumed = produced
    BY <2>0, <2>2, <2>3, FS_EmptySet DEF Balanced, LockTypeOK
  <2>5. IsFiniteSet(1..iterations) /\ Cardinality(1..iterations) = iterations
    BY <2>0, FS_Interval
  <2>6. Cardinality(Tickets) = Cardinality(Producers) * Cardinality(1..iterations)
    BY <2>3, <2>5, FS_Product, LockFreeAssumption
  <2>7. Cardinality(Producers) \in Nat
    BY LockFreeAssumption, FS_CardinalityType
  <2>8. produced = iterations * Cardinality(Producers)
    BY <2>0, <2>5, <2>6, <2>7 DEF Counted
  <2> QED
    BY <2>2, <2>4, <2>8
<1> QED
  BY <1>1, LockStarts, LockKeeps, PTL DEF LockFreeSpec
-----------------------------------------------------------------------------
(* The logger.  A message is with the caller that allocated it until it is
   pushed, and a caller's insertions are in os whenever it is not inserting. *)
Idle == {"idle", "start", "init", "resume", "start create", "init create"}
Inserting == {"inserting", "ending"}
Logging == {"taking", "allocating", "pushing", "clearing"}

LogTypeOK ==
  /\ caller \in [Callers -> Idle \cup Inserting \cup Logging \cup {"dead"}]
  /\ text \in [Callers -> SUBSET Callers] /\ os \in SUBSET Callers
  /\ block \in [Callers -> Blocks \cup {0}] /\ queue \in SUBSET Blocks
Holders ==
  \A c \in Callers :
    /\ block[c] # 0 => caller[c] \in {"pushing", "dead"}
    /\ caller[c] = "pushing" => block[c] # 0
Streamed == stream = "sound" => \A c \in Callers : caller[c] \notin Inserting => c \in os

LogInv == LogTypeOK /\ Holders /\ BlocksKept /\ Streamed /\ LinesKept

(* The logger starts with no message anywhere. *)
LEMMA LogStarts == Init => LogInv
<1> SUFFICES ASSUME Init PROVE LogInv
  OBVIOUS
<1>1. LogTypeOK
  BY DEF Init, LogTypeOK, Idle
<1>2. Holders /\ BlocksKept
  BY DEF Init, Holders, BlocksKept
<1>3. Streamed /\ LinesKept
  BY DEF Init, Streamed, LinesKept
<1> QED
  BY <1>1, <1>2, <1>3 DEF LogInv

(* A step that moves a caller, but neither allocates, pushes nor prints, leaves
   every message where it is. *)
LEMMA MovesKeepBlocks ==
  ASSUME LogInv, NEW c \in Callers, NEW to \in Idle \cup Inserting \cup Logging, to # "pushing",
         caller[c] \notin {"pushing", "dead"}, caller' = [caller EXCEPT ![c] = to],
         UNCHANGED queueVars
  PROVE  Holders' /\ BlocksKept'
<1>0. LogTypeOK /\ Holders /\ BlocksKept
  BY DEF LogInv
<1>1. UNCHANGED <<live, block, queue>>
  BY DEF queueVars
<1>2. BlocksKept'
  BY <1>0, <1>1 DEF BlocksKept
<1>3. \A d \in Callers : caller'[d] = IF d = c THEN to ELSE caller[d]
  BY <1>0 DEF LogTypeOK
<1>4. block[c] = 0
  BY <1>0 DEF Holders
<1>5. Holders'
  BY <1>0, <1>1, <1>3, <1>4 DEF Holders
<1> QED
  BY <1>2, <1>5

(* A caller on its way through start(), init(), resume() or to flush() touches
   neither the stream nor a message. *)
LEMMA GoKeeps ==
  ASSUME LogInv, NEW c \in Callers, NEW to \in Idle \cup {"taking"}, caller[c] \in Idle,
         caller' = [caller EXCEPT ![c] = to], UNCHANGED <<streamVars, queueVars>>
  PROVE  LogInv'
<1>0. LogTypeOK /\ Streamed /\ LinesKept
  BY DEF LogInv
<1>1. UNCHANGED <<os, text, stream, block, queue>>
  BY DEF streamVars, queueVars
<1>2. \A d \in Callers : caller'[d] = IF d = c THEN to ELSE caller[d]
  BY <1>0 DEF LogTypeOK
<1>3. LogTypeOK'
  BY <1>0, <1>1 DEF LogTypeOK, Logging
<1>4. Holders' /\ BlocksKept'
  BY MovesKeepBlocks DEF Idle, Logging
<1>5. Streamed'
  BY <1>0, <1>1, <1>2 DEF Streamed, Inserting, Idle
<1>6. LinesKept'
  BY <1>0, <1>1, <1>2 DEF LinesKept, Idle
<1> QED
  BY <1>3, <1>4, <1>5, <1>6 DEF LogInv

(* The insertion of c may be missing from os until it is done. *)
LEMMA InsertTextKeeps ==
  ASSUME LogInv, NEW c \in Callers, Insert(c)
  PROVE  LogInv'
<1>0. LogTypeOK /\ Streamed /\ LinesKept
  BY DEF LogInv
<1>1. PICK to \in Inserting : caller' = [caller EXCEPT ![c] = to]
  BY DEF Insert, Goto, Inserting
<1>2. /\ caller[c] = "idle" /\ os' = os \ {c} /\ text' = text /\ UNCHANGED queueVars
      /\ stream' = "sound" => stream = "sound"
  BY DEF Insert, At, used_by
<1>3. \A d \in Callers : caller'[d] = IF d = c THEN to ELSE caller[d]
  BY <1>0, <1>1 DEF LogTypeOK
<1>4. LogTypeOK'
  BY <1>0, <1>1, <1>2 DEF LogTypeOK, queueVars
<1>5. Holders' /\ BlocksKept'
  BY <1>1, <1>2, MovesKeepBlocks DEF Inserting
<1>6. Streamed'
  BY <1>0, <1>2, <1>3 DEF Streamed
<1>7. LinesKept'
  BY <1>0, <1>2, <1>3 DEF LinesKept, Inserting
<1> QED
  BY <1>4, <1>5, <1>6, <1>7 DEF LogInv

(* A sound stream holds the insertion when it is done. *)
LEMMA InsertedKeeps ==
  ASSUME LogInv, NEW c \in Callers, Inserted(c)
  PROVE  LogInv'
<1>0. LogTypeOK /\ Streamed /\ LinesKept
  BY DEF LogInv
<1>1. PICK to \in {"taking", "idle"} : caller' = [caller EXCEPT ![c] = to]
  BY DEF Inserted, Goto
<1>2. /\ caller[c] \in Inserting /\ text' = text /\ stream' = stream /\ UNCHANGED queueVars
      /\ os' \in SUBSET Callers
      /\ stream = "sound" => os' = os \cup {c}
  BY <1>0 DEF Inserted, At, Inserting, StreamText, LogTypeOK
<1>3. \A d \in Callers : caller'[d] = IF d = c THEN to ELSE caller[d]
  BY <1>0, <1>1 DEF LogTypeOK
<1>4. LogTypeOK'
  BY <1>0, <1>1, <1>2 DEF LogTypeOK, queueVars, Idle, Logging
<1>5. Holders' /\ BlocksKept'
  BY <1>1, <1>2, MovesKeepBlocks DEF Inserting, Idle, Logging
<1>6. Streamed'
  BY <1>0, <1>2, <1>3 DEF Streamed
<1>7. LinesKept'
  BY <1>0, <1>2, <1>3 DEF LinesKept
<1> QED
  BY <1>4, <1>5, <1>6, <1>7 DEF LogInv

(* What a caller takes from a sound stream holds what it has inserted. *)
LEMMA TakeTextKeeps ==
  ASSUME LogInv, NEW c \in Callers, TakeText(c)
  PROVE  LogInv'
<1>0. LogTypeOK /\ Streamed /\ LinesKept
  BY DEF LogInv
<1>1. PICK t \in StreamText(stream', os) : text' = [text EXCEPT ![c] = t]
  BY DEF TakeText
<1>2. /\ caller[c] = "taking" /\ caller' = [caller EXCEPT ![c] = "allocating"] /\ os' = os
      /\ UNCHANGED queueVars
      /\ stream' = "sound" => stream = "sound"
  BY DEF TakeText, At, Goto, used_by
<1>3. t \in SUBSET Callers /\ (stream' = "sound" => t = os)
  BY <1>0, <1>1 DEF StreamText, LogTypeOK
<1>4. \A d \in Callers : /\ caller'[d] = IF d = c THEN "allocating" ELSE caller[d]
                         /\ text'[d] = IF d = c THEN t ELSE text[d]
  BY <1>0, <1>1, <1>2 DEF LogTypeOK
<1>5. LogTypeOK'
  BY <1>0, <1>1, <1>2, <1>3 DEF LogTypeOK, queueVars, Logging
<1>6. Holders' /\ BlocksKept'
  BY <1>2, MovesKeepBlocks DEF Logging
<1>7. Streamed'
  BY <1>0, <1>2, <1>4 DEF Streamed, Inserting
<1>8. LinesKept'
  BY <1>0, <1>2, <1>3, <1>4 DEF LinesKept, Streamed, Inserting
<1> QED
  BY <1>5, <1>6, <1>7, <1>8 DEF LogInv

(* os.clear() takes nothing out of os. *)
LEMMA ClearKeeps ==
  ASSUME LogInv, NEW c \in Callers, Clear(c)
  PROVE  LogInv'
<1>0. LogTypeOK /\ Streamed /\ LinesKept
  BY DEF LogInv
<1>1. /\ caller[c] \in {"clearing", "idle"} /\ caller' = [caller EXCEPT ![c] = "idle"]
      /\ os' = os /\ text' = text /\ UNCHANGED queueVars
      /\ stream' = "sound" => stream = "sound"
  BY DEF Clear, At, Goto, used_by, cleared
<1>2. \A d \in Callers : caller'[d] = IF d = c THEN "idle" ELSE caller[d]
  BY <1>0, <1>1 DEF LogTypeOK
<1>3. LogTypeOK'
  BY <1>0, <1>1 DEF LogTypeOK, queueVars, Idle
<1>4. Holders' /\ BlocksKept'
  BY <1>1, MovesKeepBlocks DEF Idle
<1>5. Streamed'
  BY <1>0, <1>1, <1>2 DEF Streamed, Inserting
<1>6. LinesKept'
  BY <1>0, <1>1, <1>2 DEF LinesKept
<1> QED
  BY <1>3, <1>4, <1>5, <1>6 DEF LogInv

(* A block that was free is in nobody else's hands. *)
LEMMA NewKeeps ==
  ASSUME LogInv, NEW c \in Callers, New(c)
  PROVE  LogInv'
<1>0. LogTypeOK /\ Holders /\ BlocksKept /\ Streamed /\ LinesKept
  BY DEF LogInv
<1>1. PICK b \in Blocks \ live : live' = live \cup {b} /\ block' = [block EXCEPT ![c] = b]
  BY DEF New
<1>2. /\ caller[c] = "allocating" /\ caller' = [caller EXCEPT ![c] = "pushing"]
      /\ UNCHANGED <<os, text, stream, queue>>
  BY DEF New, At, Goto, streamVars
<1>3. b # 0 /\ block[c] = 0
  BY <1>0, <1>2, LogAssumption DEF Holders
<1>4. \A d \in Callers : /\ caller'[d] = IF d = c THEN "pushing" ELSE caller[d]
                         /\ block'[d] = IF d = c THEN b ELSE block[d]
  BY <1>0, <1>1, <1>2 DEF LogTypeOK
<1>5. LogTypeOK'
  BY <1>0, <1>1, <1>2 DEF LogTypeOK, Logging
<1>6. Holders'
  BY <1>0, <1>3, <1>4 DEF Holders
<1>7. BlocksKept'
  <2>1. b \notin queue /\ \A d \in Callers : block[d] # b
    BY <1>0, <1>3 DEF BlocksKept
  <2>2. {block'[d] : d \in Callers} \ {0} = ({block[d] : d \in Callers} \ {0}) \cup {b}
    BY <1>3, <1>4
  <2>3. live' = queue' \cup ({block'[d] : d \in Callers} \ {0})
    BY <1>0, <1>1, <1>2, <2>2 DEF BlocksKept
  <2>4. ASSUME NEW d \in Callers, block'[d] # 0
        PROVE  block'[d] \notin queue' /\ \A e \in Callers : block'[e] = block'[d] => e = d
    BY <1>0, <1>2, <1>4, <2>1, <2>4 DEF BlocksKept
  <2> QED
    BY <2>3, <2>4 DEF BlocksKept
<1>8. Streamed' /\ LinesKept'
  BY <1>0, <1>2, <1>4 DEF Streamed, LinesKept, Inserting
<1> QED
  BY <1>5, <1>6, <1>7, <1>8 DEF LogInv

(* A push moves a message from its caller to the queue. *)
LEMMA LogKeepsMessages ==
  ASSUME LogInv, NEW c \in Callers, Log(c)
  PROVE  LogInv'
<1>0. LogTypeOK /\ Holders /\ BlocksKept /\ Streamed /\ LinesKept
  BY DEF LogInv
<1>1. /\ caller[c] = "pushing" /\ caller' = [caller EXCEPT ![c] = "clearing"]
      /\ queue' = queue \cup {block[c]} /\ block' = [block EXCEPT ![c] = 0]
      /\ text' = [text EXCEPT ![c] = {}] /\ UNCHANGED <<os, stream, live>>
  BY DEF Log, At, Goto
<1>2. block[c] # 0 /\ block[c] \in Blocks
  BY <1>0, <1>1 DEF Holders, LogTypeOK
<1>3. \A d \in Callers : /\ caller'[d] = IF d = c THEN "clearing" ELSE caller[d]
                         /\ block'[d] = IF d = c THEN 0 ELSE block[d]
                         /\ text'[d] = IF d = c THEN {} ELSE text[d]
  BY <1>0, <1>1 DEF LogTypeOK
<1>4. LogTypeOK'
  BY <1>0, <1>1, <1>2 DEF LogTypeOK, Logging
<1>5. Holders'
  BY <1>0, <1>3 DEF Holders
<1>6. BlocksKept'
  <2>1. \A d \in Callers : d # c => block[d] # block[c]
    BY <1>0, <1>2 DEF BlocksKept
  <2>2. {block'[d] : d \in Callers} \ {0} = ({block[d] : d \in Callers} \ {0}) \ {block[c]}
    BY <1>3, <2>1
  <2>3. live' = queue' \cup ({block'[d] : d \in Callers} \ {0})
    BY <1>0, <1>1, <1>2, <2>2 DEF BlocksKept
  <2>4. ASSUME NEW d \in Callers, block'[d] # 0
        PROVE  block'[d] \notin queue' /\ \A e \in Callers : block'[e] = block'[d] => e = d
    BY <1>0, <1>1, <1>3, <2>1, <2>4 DEF BlocksKept
  <2> QED
    BY <2>3, <2>4 DEF BlocksKept
<1>7. Streamed' /\ LinesKept'
  BY <1>0, <1>1, <1>3 DEF Streamed, LinesKept, Inserting
<1> QED
  BY <1>4, <1>5, <1>6, <1>7 DEF LogInv

(* A writer deletes what it has popped. *)
LEMMA WriteMsgKeeps ==
  ASSUME LogInv, NEW c \in Callers, WriteMsg(c)
  PROVE  LogInv'
<1>0. LogTypeOK /\ Holders /\ BlocksKept /\ Streamed /\ LinesKept
  BY DEF LogInv
<1>1. PICK m \in queue : queue' = queue \ {m} /\ live' = live \ {m}
  BY DEF WriteMsg, top, popped
<1>2. UNCHANGED <<caller, os, text, stream, block>>
  BY DEF WriteMsg, streamVars
<1>3. LogTypeOK'
  BY <1>0, <1>1, <1>2 DEF LogTypeOK
<1>4. m \in Blocks /\ m # 0
  BY <1>0, LogAssumption DEF LogTypeOK
<1>5. BlocksKept'
  <2>1. \A d \in Callers : block[d] # m
    BY <1>0, <1>4 DEF BlocksKept
  <2> QED
    BY <1>0, <1>1, <1>2, <2>1 DEF BlocksKept
<1>6. Holders' /\ Streamed' /\ LinesKept'
  BY <1>0, <1>2 DEF Holders, Streamed, LinesKept
<1> QED
  BY <1>3, <1>5, <1>6 DEF LogInv

(* A process that ends after a race takes its callers with it. *)
LEMMA CrashKeeps ==
  ASSUME LogInv, Crash
  PROVE  LogInv'
<1>0. LogTypeOK /\ Holders /\ BlocksKept
  BY DEF LogInv
<1>1. /\ stream = "raced" /\ caller' = [c \in Callers |-> "dead"]
      /\ UNCHANGED <<os, text, stream, live, block, queue>>
  BY DEF Crash, streamVars, queueVars
<1>2. LogTypeOK' /\ Holders' /\ BlocksKept'
  BY <1>0, <1>1 DEF LogTypeOK, Holders, BlocksKept
<1>3. Streamed' /\ LinesKept'
  BY <1>1 DEF Streamed, LinesKept
<1> QED
  BY <1>2, <1>3 DEF LogInv

(* Every step keeps each message in one place and each line in its text. *)
LEMMA LogKeeps == LogInv /\ [Next]_vars => LogInv'
<1> SUFFICES ASSUME LogInv, [Next]_vars PROVE LogInv'
  OBVIOUS
<1>1. ASSUME NEW c \in Callers,
             Call(c) \/ InitTest(c) \/ InitCreate(c) \/ Resume(c) \/ Flush(c)
      PROVE  LogInv'
  <2>1. /\ UNCHANGED <<streamVars, queueVars>> /\ caller[c] \in Idle
        /\ \E to \in Idle \cup {"taking"} : caller' = [caller EXCEPT ![c] = to]
    <3>1. CASE Call(c)
      BY <3>1 DEF Call, At, Goto, Idle
    <3>2. CASE InitTest(c)
      BY <3>2 DEF InitTest, AfterInit, At, Goto, Idle
    <3>3. CASE InitCreate(c)
      BY <3>3 DEF InitCreate, AfterInit, At, Goto, Idle
    <3>4. CASE Resume(c)
      BY <3>4 DEF Resume, At, Goto, Idle
    <3>5. CASE Flush(c)
      BY <3>5 DEF Flush, At, Goto, Idle
    <3> QED
      BY <1>1, <3>1, <3>2, <3>3, <3>4, <3>5
  <2> QED
    BY <2>1, GoKeeps
<1>2. CASE UNCHANGED <<caller, streamVars, queueVars>>
  <2>1. UNCHANGED <<caller, os, text, stream, live, block, queue>>
    BY <1>2 DEF streamVars, queueVars
  <2> QED
    BY <2>1 DEF LogInv, LogTypeOK, Holders, BlocksKept, Streamed, LinesKept
<1>3. ASSUME NEW c \in Callers, Pause(c) \/ Wait(c) \/ Spurious(c)
      PROVE  UNCHANGED <<caller, streamVars, queueVars>>
  BY <1>3 DEF Pause, Wait, Spurious
<1>4. CASE UNCHANGED vars
  BY <1>2, <1>4 DEF vars
<1> QED
  BY <1>1, <1>2, <1>3, <1>4, InsertTextKeeps, InsertedKeeps, TakeTextKeeps, ClearKeeps, NewKeeps,
     LogKeepsMessages, WriteMsgKeeps, CrashKeeps DEF Next

(* However many callers stream at once, and however many writer threads
   init() has made: every message is in one place and live just as long, and
   unless two threads were in os at once a caller's text holds its lines. *)
THEOREM LogsKept == Spec => []LogKept
<1>1. LogInv => LogKept
  BY DEF LogInv, LogKept
<1> QED
  BY <1>1, LogStarts, LogKeeps, PTL DEF Spec
-----------------------------------------------------------------------------
(* The UDP echo server and its client. *)
Peers == Clients \cup Strangers \cup {Server}
Contents == {NUL} \cup Peers
Full == 1..(BUF_LEN - 1)
Datagrams ==
  [src : Peers, dst : Peers, bytes : Seq(Contents), n : Nat, copy : Nat]

UdpTypeOK ==
  /\ net \subseteq Datagrams
  /\ buffer \in [Full -> Contents] /\ from \in Peers
  /\ at \in [Clients -> {"address", "message", "waiting"}]
  /\ addr \in [Clients -> {"server", "other", "bad"}]
  /\ port \in [Clients -> {"PORT", "other"}]
  /\ request \in [Clients -> Nat] /\ taken \in [Clients -> Nat]
  /\ strayed \in Nat /\ displayed \subseteq Peers /\ disturbed \subseteq Peers

(* Who sends to whom, and how much: a client all of its buffer and to the
   server, for the newline is never the last of nbytes; the server all of
   its buffer, which then holds nothing but what the last sender sent if that
   was a client. *)
Whole(d) == d.bytes \in [Full -> Contents]
OwnBytes(d, c) == d.bytes = Cells(c, BUF_LEN - 1)
Sizes ==
  /\ \A c \in Clients : nbytes[c] = BUF_LEN - 1
  /\ \A d \in net :
       /\ Len(d.bytes) \in 0..(BUF_LEN - 1)
       /\ d.src = Server => Whole(d)
       /\ d.src \in Clients => d.dst = Server /\ OwnBytes(d, d.src)
       /\ d.src = Server /\ d.dst \in Clients => OwnBytes(d, d.dst)
  /\ from \in Clients => buffer = Cells(from, BUF_LEN - 1)

(* While nothing extra came for it, a client has one datagram on its way at
   most, the port it sends to is the server's, and a wait for somebody else
   leaves nothing open. *)
Undisturbed ==
  /\ \A c \in Clients \ disturbed : port[c] = "PORT"
  /\ \A d \in net : d.dst \in Clients /\ d.src # Server => d.dst \in disturbed
  /\ \A c \in Clients \ disturbed :
       \A d, e \in net : c \in {d.src, d.dst} /\ c \in {e.src, e.dst} => d = e
  /\ \A c \in Clients \ disturbed :
       at[c] = "waiting" /\ addr[c] # "server" =>
         taken[c] = request[c] /\ \A d \in net : c \notin {d.src, d.dst}

UdpInv == UdpTypeOK /\ nbytes \in [Clients -> Nat] /\ Sizes /\ Undisturbed /\ InStep /\ EchoUnseen
-----------------------------------------------------------------------------
(* The inductive invariant holds at the first prompt. *)
LEMMA UdpStarts == UdpInit => UdpInv
<1> SUFFICES ASSUME UdpInit PROVE UdpInv
  OBVIOUS
<1> USE UdpAssumption
<1>1. UdpTypeOK /\ nbytes \in [Clients -> Nat]
  BY DEF UdpInit, ServerInit, ClientInit, UdpTypeOK, Peers, Contents, Full, Cells
<1>2. Sizes
  BY DEF UdpInit, ServerInit, ClientInit, Sizes
<1>3. Undisturbed /\ InStep /\ EchoUnseen
  BY DEF UdpInit, ServerInit, ClientInit, Undisturbed, InStep, EchoUnseen
<1> QED
  BY <1>1, <1>2, <1>3 DEF UdpInv

(* What the three kinds of senders put on the network. *)
LEMMA CellsType ==
  ASSUME NEW who \in Peers, NEW k \in 0..(BUF_LEN - 1)
  PROVE  /\ Cells(who, k) \in Seq(Contents) /\ Len(Cells(who, k)) = k
         /\ k = BUF_LEN - 1 => Cells(who, k) \in [Full -> Contents]
BY UdpAssumption DEF Cells, Contents, Full

(* The server's buffer, as a datagram: all of it. *)
LEMMA BufferType ==
  ASSUME NEW b \in [Full -> Contents]
  PROVE  b \in Seq(Contents) /\ Len(b) = BUF_LEN - 1
BY UdpAssumption DEF Full

(* A datagram received leaves the buffer of full size, and is all of it when full. *)
LEMMA ReceivedType ==
  ASSUME UdpTypeOK, NEW bytes \in Seq(Contents), Len(bytes) \in 0..(BUF_LEN - 1)
  PROVE  /\ received(bytes) \in [Full -> Contents]
         /\ \A c \in Clients : bytes = Cells(c, BUF_LEN - 1) =>
              received(bytes) = Cells(c, BUF_LEN - 1)
<1>1. received(bytes) \in [Full -> Contents]
  <2>1. \A i \in Full : i <= Len(bytes) => bytes[i] \in Contents
    BY DEF Full
  <2>2. \A i \in Full : buffer[i] \in Contents /\ NUL \in Contents
    BY DEF UdpTypeOK, Contents
  <2> QED
    BY <2>1, <2>2 DEF received, Full
<1>2. ASSUME NEW c \in Clients, bytes = Cells(c, BUF_LEN - 1)
      PROVE  received(bytes) = Cells(c, BUF_LEN - 1)
  <2>1. Len(bytes) = BUF_LEN - 1 /\ \A i \in Full : bytes[i] = c
    BY <1>2, CellsType, UdpAssumption DEF Peers, Cells, Full
  <2> QED
    BY <2>1, UdpAssumption DEF received, Cells, Full
<1> QED
  BY <1>1, <1>2

(* Steps that change neither the network nor what is said of it. *)
LEMMA NoDatagram ==
  ASSUME UdpInv, net' = net, disturbed' = disturbed, port' = port, nbytes' = nbytes,
         request' = request, taken' = taken, displayed' = displayed,
         UNCHANGED <<buffer, from>>, UdpTypeOK',
         \A c \in Clients \ disturbed :
           /\ at[c] = "waiting" <=> at'[c] = "waiting"
           /\ at[c] = "waiting" => addr'[c] = addr[c]
  PROVE  UdpInv'
BY DEF UdpInv, Sizes, Undisturbed, InStep, EchoUnseen, Whole, OwnBytes

(* Every step of the two programs and the network keeps the inductive invariant. *)
LEMMA UdpKeeps ==
  ASSUME UdpInv, [UdpNext]_udpVars
  PROVE  UdpInv'
<1> USE UdpAssumption
<1>0. UdpTypeOK /\ nbytes \in [Clients -> Nat] /\ Sizes /\ Undisturbed /\ InStep /\ EchoUnseen
  BY DEF UdpInv
<1>1. ASSUME NEW c \in Clients, NEW typed \in {"number", "name", "nothing"}, Address(c, typed)
      PROVE  UdpInv'
  <2>1. PICK s \in {"server", "other", "bad", "unknown"} :
          /\ addr' = [addr EXCEPT ![c] = IF s = "unknown" THEN "bad" ELSE s]
          /\ at' = [at EXCEPT ![c] = IF s = "unknown" THEN "address" ELSE "message"]
    BY <1>0, <1>1 DEF Address, hostnameToIp, numbers, UdpTypeOK
  <2>2. at[c] = "address" /\ UNCHANGED <<serverVars, port, nbytes, unbound, ghosts, net>>
    BY <1>1 DEF Address
  <2>3. UdpTypeOK'
    BY <1>0, <2>1, <2>2 DEF UdpTypeOK, serverVars, ghosts
  <2> QED
    BY <1>0, <2>1, <2>2, <2>3, NoDatagram DEF UdpTypeOK, serverVars, ghosts
<1>2. ASSUME NEW c \in Clients, NEW k \in 1..BUF_LEN, Message(c, k)
      PROVE  UdpInv'
  <2>1. nbytes' = nbytes
    <3>1. cut(c, k) = nbytes[c] /\ nbytes' = [nbytes EXCEPT ![c] = cut(c, k)]
      BY <1>0, <1>2 DEF Message, cut, line_length, Sizes
    <3> QED
      BY <1>0, <3>1
  <2>2. /\ at[c] = "message" /\ at' \in [Clients -> {"address", "message", "waiting"}]
        /\ \A i \in Clients : i # c => at'[i] = at[i]
        /\ UNCHANGED <<serverVars, addr, port, taken, displayed, strayed, faults, disturbed>>
    BY <1>0, <1>2 DEF Message, UdpTypeOK
  <2>3. CASE addr[c] # "server"
    <3>1. UNCHANGED <<request, net>>
      BY <1>2, <2>3 DEF Message
    <3>2. UdpTypeOK'
      BY <1>0, <2>2, <3>1 DEF UdpTypeOK, serverVars
    <3>3. \A d \in net : c \notin disturbed => c \notin {d.src, d.dst}
      BY <1>0, <2>2 DEF InStep
    <3>4. InStep'
      BY <1>0, <2>2, <3>1, <3>3 DEF InStep
    <3>5. c \notin disturbed => taken[c] = request[c]
      BY <1>0, <2>2 DEF InStep
    <3>6. Undisturbed'
      BY <1>0, <2>2, <3>1, <3>3, <3>5 DEF Undisturbed
    <3> QED
      BY <1>0, <2>1, <2>2, <3>1, <3>2, <3>4, <3>6
         DEF UdpInv, Sizes, EchoUnseen, Whole, OwnBytes, serverVars
  <2>4. CASE addr[c] = "server"
    <3> DEFINE d == Datagram(c, Server, Cells(c, nbytes'[c]), request'[c])
    <3>1. /\ request' = [request EXCEPT ![c] = @ + 1] /\ at'[c] = "waiting"
          /\ net' = IF port[c] = "PORT" THEN net \cup {d} ELSE net
      BY <1>0, <1>2, <2>4 DEF Message, UdpTypeOK
    <3>2. /\ d.src = c /\ d.dst = Server /\ d.n = request'[c] /\ d.bytes = Cells(c, BUF_LEN - 1)
          /\ Cells(c, BUF_LEN - 1) \in Seq(Contents) /\ Len(Cells(c, BUF_LEN - 1)) = BUF_LEN - 1
          /\ d \in Datagrams
      <4>1. nbytes'[c] = BUF_LEN - 1 /\ request'[c] \in Nat
        BY <1>0, <2>1, <3>1 DEF Sizes, UdpTypeOK
      <4>2. /\ c \in Peers /\ Server \in Peers
            /\ Cells(c, BUF_LEN - 1) \in Seq(Contents) /\ Len(Cells(c, BUF_LEN - 1)) = BUF_LEN - 1
        BY CellsType DEF Peers
      <4> QED
        BY <4>1, <4>2 DEF Datagram, Datagrams
    <3> HIDE DEF d
    <3>3. UdpTypeOK'
      BY <1>0, <2>2, <3>1, <3>2 DEF UdpTypeOK, serverVars
    <3>4. Sizes'
      BY <1>0, <2>1, <2>2, <3>1, <3>2 DEF Sizes, Whole, OwnBytes, serverVars
    <3>5. \A e \in net : c \notin disturbed => c \notin {e.src, e.dst}
      BY <1>0, <2>2 DEF InStep
    <3>6. InStep'
      <4>1. ASSUME NEW i \in Clients \ disturbed
            PROVE  /\ \A e \in net' : i \in {e.src, e.dst} => at'[i] = "waiting" /\ e.n = request'[i]
                   /\ at'[i] # "waiting" => taken'[i] = request'[i]
        <5>1. CASE i = c
          BY <1>0, <2>2, <3>1, <3>2, <3>5, <5>1
        <5>2. CASE i # c
          BY <1>0, <2>2, <3>1, <3>2, <5>2 DEF InStep, UdpTypeOK
        <5> QED
          BY <5>1, <5>2
      <4> QED
        BY <2>2, <4>1 DEF InStep
    <3>7. Undisturbed'
      <4>1. \A i \in Clients : i # c => request'[i] = request[i]
        BY <1>0, <3>1 DEF UdpTypeOK
      <4> QED
        BY <1>0, <2>2, <2>4, <3>1, <3>2, <3>5, <4>1 DEF Undisturbed
    <3> QED
      BY <1>0, <2>1, <2>2, <3>3, <3>4, <3>6, <3>7 DEF UdpInv, EchoUnseen
  <2> QED
    BY <2>3, <2>4
<1>3. ASSUME NEW c \in Clients, NEW d \in net, Take(c, d)
      PROVE  UdpInv'
  <2>1. /\ at[c] = "waiting" /\ d.dst = c /\ net' = net \ {d}
        /\ taken' = [taken EXCEPT ![c] = d.n] /\ at' = [at EXCEPT ![c] = "address"]
        /\ port' = [port EXCEPT ![c] = IF d.src = Server THEN "PORT" ELSE "other"]
        /\ displayed' = displayed \cup (IF displays(d) THEN {d.src} ELSE {})
        /\ UNCHANGED <<serverVars, addr, nbytes, request, strayed, disturbed>>
    BY <1>3 DEF Take
  <2>2. d \in Datagrams
    BY <1>0 DEF UdpTypeOK
  <2>3. UdpTypeOK'
    BY <1>0, <2>1, <2>2 DEF UdpTypeOK, Datagrams, serverVars
  <2>4. EchoUnseen'
    <3>1. d.src = Server => Len(d.bytes) = BUF_LEN - 1
      BY <1>0, BufferType DEF Sizes, Whole
    <3> QED
      BY <1>0, <2>1, <3>1 DEF EchoUnseen, displays
  <2>5. d.src \notin Clients
    BY <1>0, <2>1 DEF Sizes
  <2>6. Undisturbed'
    <3>1. \A i \in Clients : i # c => taken'[i] = taken[i] /\ at'[i] = at[i]
      BY <1>0, <2>1 DEF UdpTypeOK
    <3>2. at'[c] = "address"
      BY <1>0, <2>1 DEF UdpTypeOK
    <3> QED
      BY <1>0, <2>1, <3>1, <3>2 DEF Undisturbed, UdpTypeOK
  <2>7. InStep'
    <3>1. ASSUME NEW i \in Clients \ disturbed
          PROVE  /\ \A e \in net' : i \in {e.src, e.dst} => at'[i] = "waiting" /\ e.n = request'[i]
                 /\ at'[i] # "waiting" => taken'[i] = request'[i]
      <4>1. CASE i = c
        <5>1. \A e \in net' : c \notin {e.src, e.dst}
          BY <1>0, <2>1, <4>1 DEF Undisturbed
        <5>2. taken'[c] = d.n /\ d.n = request[c]
          BY <1>0, <2>1, <4>1 DEF InStep, UdpTypeOK
        <5> QED
          BY <2>1, <4>1, <5>1, <5>2
      <4>2. CASE i # c
        BY <1>0, <2>1, <4>2 DEF InStep, UdpTypeOK
      <4> QED
        BY <4>1, <4>2
    <3> QED
      BY <2>1, <3>1 DEF InStep
  <2>8. Sizes' /\ nbytes' \in [Clients -> Nat]
    BY <1>0, <2>1 DEF Sizes, Whole, OwnBytes, serverVars
  <2> QED
    BY <2>3, <2>4, <2>6, <2>7, <2>8 DEF UdpInv
<1>4. ASSUME NEW c \in Clients, TakeFails(c)
      PROVE  UdpInv'
  <2>1. /\ at' = [at EXCEPT ![c] = "address"] /\ at[c] = "waiting"
        /\ port[c] # "PORT" \/ addr[c] # "server"
        /\ UNCHANGED <<buffer, from, addr, port, nbytes, request, taken, displayed, strayed,
                       disturbed, net>>
    BY <1>4 DEF TakeFails, gives_up, serverVars, ghosts
  <2>2. c \notin disturbed =>
          taken[c] = request[c] /\ \A d \in net : c \notin {d.src, d.dst}
    BY <1>0, <2>1 DEF Undisturbed
  <2>3. \A i \in Clients : at'[i] = IF i = c THEN "address" ELSE at[i]
    BY <1>0, <2>1 DEF UdpTypeOK
  <2>4. UdpTypeOK'
    BY <1>0, <2>1 DEF UdpTypeOK
  <2>5. Sizes' /\ EchoUnseen' /\ nbytes' \in [Clients -> Nat]
    BY <1>0, <2>1 DEF Sizes, EchoUnseen, Whole, OwnBytes
  <2>6. Undisturbed' /\ InStep'
    BY <1>0, <2>1, <2>2, <2>3 DEF Undisturbed, InStep
  <2> QED
    BY <2>4, <2>5, <2>6 DEF UdpInv
<1>5. ASSUME NEW d \in net, ServerTurn(d)
      PROVE  UdpInv'
  <2> DEFINE b == received(d.bytes)
             e == [d EXCEPT !.src = Server, !.dst = d.src, !.bytes = b]
  <2>1. /\ d.dst = Server /\ net' = (net \ {d}) \cup {e} /\ buffer' = b /\ from' = d.src
        /\ UNCHANGED <<clientVars, ghosts>>
    BY <1>5 DEF ServerTurn, echo
  <2>2. d \in Datagrams /\ d.src \in Peers /\ Server \in Peers
        /\ d.bytes \in Seq(Contents) /\ Len(d.bytes) \in 0..(BUF_LEN - 1)
    BY <1>0 DEF UdpTypeOK, Datagrams, Sizes, Peers
  <2>3. /\ b \in [Full -> Contents] /\ b \in Seq(Contents) /\ Len(b) = BUF_LEN - 1
        /\ d.src \in Clients => b = Cells(d.src, BUF_LEN - 1)
    <3>1. b \in [Full -> Contents]
      BY <1>0, <2>2, ReceivedType
    <3>2. d.src \in Clients => b = Cells(d.src, BUF_LEN - 1)
      BY <1>0, <2>2, ReceivedType DEF Sizes, OwnBytes
    <3> HIDE DEF b
    <3> QED
      BY <3>1, <3>2, BufferType
  <2> HIDE DEF b
  <2>4. /\ e \in Datagrams /\ e.src = Server /\ e.dst = d.src /\ e.bytes = b /\ e.n = d.n
    BY <2>2, <2>3 DEF Datagrams
  <2> HIDE DEF e
  <2>5. UdpTypeOK'
    BY <1>0, <2>1, <2>2, <2>3, <2>4 DEF UdpTypeOK, clientVars, ghosts
  <2>6. Sizes' /\ nbytes' \in [Clients -> Nat]
    BY <1>0, <2>1, <2>3, <2>4 DEF Sizes, Whole, OwnBytes, clientVars
  <2>7. Undisturbed'
    <3>1. \A c \in Clients : c \in {e.src, e.dst} => c \in {d.src, d.dst}
      BY <2>4
    <3> QED
      BY <1>0, <2>1, <2>4, <3>1 DEF Undisturbed, clientVars, ghosts
  <2>8. InStep' /\ EchoUnseen'
    BY <1>0, <2>1, <2>4 DEF InStep, EchoUnseen, clientVars, ghosts
  <2> QED
    BY <2>5, <2>6, <2>7, <2>8 DEF UdpInv
<1>6. ASSUME ServerFails
      PROVE  UdpInv'
  <2> DEFINE e == [Datagram(Server, from, buffer, 0) EXCEPT !.copy = 2]
  <2>1. /\ net' = net \cup {e} /\ disturbed' = disturbed \cup {from}
        /\ UNCHANGED <<buffer, from, clientVars, request, taken, displayed, strayed>>
    BY <1>6 DEF ServerFails
  <2>2. /\ e \in Datagrams /\ e.src = Server /\ e.dst = from /\ e.bytes = buffer
        /\ Len(buffer) = BUF_LEN - 1 /\ buffer \in [Full -> Contents]
    <3>1. buffer \in Seq(Contents) /\ Len(buffer) = BUF_LEN - 1 /\ from \in Peers
      BY <1>0, BufferType DEF UdpTypeOK
    <3>2. Server \in Peers
      BY DEF Peers
    <3> QED
      BY <1>0, <3>1, <3>2 DEF Datagrams, Datagram, UdpTypeOK
  <2> HIDE DEF e
  <2>3. UdpTypeOK'
    BY <1>0, <2>1, <2>2 DEF UdpTypeOK, clientVars
  <2>4. Sizes' /\ nbytes' \in [Clients -> Nat]
    BY <1>0, <2>1, <2>2 DEF Sizes, Whole, OwnBytes, clientVars
  <2>5. Undisturbed'
    BY <1>0, <2>1, <2>2 DEF Undisturbed, clientVars
  <2>6. InStep' /\ EchoUnseen'
    BY <1>0, <2>1, <2>2 DEF InStep, EchoUnseen, clientVars
  <2> QED
    BY <2>3, <2>4, <2>5, <2>6 DEF UdpInv
<1>7. ASSUME NEW s \in Strangers, NEW t \in Clients \cup {Server}, NEW k \in 0..(BUF_LEN - 1),
             Stray(s, t, k)
      PROVE  UdpInv'
  <2> DEFINE e == [Datagram(s, t, Cells(s, k), 0) EXCEPT !.copy = strayed]
  <2>1. /\ net' = net \cup {e} /\ disturbed' = disturbed \cup {t} /\ strayed' = strayed + 1
        /\ UNCHANGED <<serverVars, clientVars, request, taken, displayed>>
    BY <1>7 DEF Stray
  <2>2. /\ e \in Datagrams /\ e.src = s /\ e.dst = t /\ Len(e.bytes) = k
        /\ s \notin Clients /\ s # Server
    <3>1. s \in Peers /\ t \in Peers /\ s \notin Clients /\ s # Server
      BY DEF Peers
    <3>2. Cells(s, k) \in Seq(Contents) /\ Len(Cells(s, k)) = k
      BY <3>1, CellsType
    <3> QED
      BY <1>0, <3>1, <3>2 DEF Datagrams, Datagram, UdpTypeOK
  <2> HIDE DEF e
  <2>3. UdpTypeOK'
    BY <1>0, <2>1, <2>2 DEF UdpTypeOK, clientVars, serverVars, Peers
  <2>4. Sizes' /\ nbytes' \in [Clients -> Nat]
    BY <1>0, <2>1, <2>2 DEF Sizes, Whole, OwnBytes, clientVars, serverVars
  <2>5. Undisturbed'
    BY <1>0, <2>1, <2>2 DEF Undisturbed, clientVars
  <2>6. InStep' /\ EchoUnseen'
    BY <1>0, <2>1, <2>2 DEF InStep, EchoUnseen, clientVars
  <2> QED
    BY <2>3, <2>4, <2>5, <2>6 DEF UdpInv
<1>8. ASSUME NEW d \in net, Double(d)
      PROVE  UdpInv'
  <2> DEFINE e == [d EXCEPT !.copy = 3]
  <2>1. /\ net' = net \cup {e} /\ disturbed' = disturbed \cup {d.src, d.dst}
        /\ UNCHANGED <<serverVars, clientVars, request, taken, displayed, strayed>>
    BY <1>8 DEF Double
  <2>2. d \in Datagrams
    BY <1>0 DEF UdpTypeOK
  <2>3. /\ e \in Datagrams /\ e.src = d.src /\ e.dst = d.dst /\ e.bytes = d.bytes
        /\ d.src \in Peers /\ d.dst \in Peers
    BY <2>2 DEF Datagrams
  <2> HIDE DEF e
  <2>4. UdpTypeOK'
    BY <1>0, <2>1, <2>3 DEF UdpTypeOK, clientVars, serverVars
  <2>5. Sizes' /\ nbytes' \in [Clients -> Nat]
    BY <1>0, <2>1, <2>3 DEF Sizes, Whole, OwnBytes, clientVars, serverVars
  <2>6. Undisturbed'
    BY <1>0, <2>1, <2>3 DEF Undisturbed, clientVars
  <2>7. InStep' /\ EchoUnseen'
    BY <1>0, <2>1, <2>3 DEF InStep, EchoUnseen, clientVars
  <2> QED
    BY <2>4, <2>5, <2>6, <2>7 DEF UdpInv
<1>9. ASSUME NEW d \in net, Lose(d) \/ StrangerTakes(d) \/ Reject(d)
      PROVE  UdpInv'
  <2>1. /\ net' = net \ {d}
        /\ UNCHANGED <<buffer, from, clientVars, request, taken, displayed, strayed, disturbed>>
    BY <1>9 DEF Lose, StrangerTakes, Reject, serverVars, ghosts
  <2>2. UdpTypeOK'
    BY <1>0, <2>1 DEF UdpTypeOK, clientVars
  <2>3. Sizes' /\ nbytes' \in [Clients -> Nat]
    BY <1>0, <2>1 DEF Sizes, Whole, OwnBytes, clientVars
  <2>4. Undisturbed' /\ InStep' /\ EchoUnseen'
    BY <1>0, <2>1 DEF Undisturbed, InStep, EchoUnseen, clientVars
  <2> QED
    BY <2>2, <2>3, <2>4 DEF UdpInv
<1>10. CASE UNCHANGED udpVars
  BY <1>0, <1>10 DEF UdpInv, UdpTypeOK, Sizes, Whole, OwnBytes, Undisturbed, InStep, EchoUnseen,
     udpVars, serverVars, clientVars, ghosts
<1> QED
  BY <1>1, <1>2, <1>3, <1>4, <1>5, <1>6, <1>7, <1>8, <1>9, <1>10 DEF UdpNext

(* It holds in every reachable state. *)
LEMMA UdpInvariant == UdpSpec => []UdpInv
BY UdpStarts, UdpKeeps, PTL DEF UdpSpec

(* An echo holds only bytes of the client it goes to, though the server always
   sends its whole buffer: whatever shorter datagrams came in between. *)
THEOREM EchoesAreOwn == UdpSpec => []EchoIsOwn
<1>1. UdpInv => EchoIsOwn
  BY DEF UdpInv, Sizes, OwnBytes, EchoIsOwn
<1> QED
  BY <1>1, UdpInvariant, PTL

(* A client that no extra datagram disturbed takes the answer to its last
   message and no older one, however many were lost. *)
THEOREM ClientsInStep == UdpSpec => []InStep
<1>1. UdpInv => InStep
  BY DEF UdpInv
<1> QED
  BY <1>1, UdpInvariant, PTL

(* No client ever displays an echo: the sizes that the client's test allows
   leave out the one size that the server sends. *)
THEOREM EchoesUnseen == UdpSpec => []EchoUnseen
<1>1. UdpInv => EchoUnseen
  BY DEF UdpInv
<1> QED
  BY <1>1, UdpInvariant, PTL

(* What the server sends a client is the client's message with all of the
   buffer, and never appears on its screen. *)
THEOREM EchoesAreWhole == UdpSpec => []WholeEchoes
<1>1. EchoIsOwn /\ EchoUnseen => WholeEchoes
  BY DEF WholeEchoes
<1> QED
  BY <1>1, EchoesAreOwn, EchoesUnseen, PTL
-----------------------------------------------------------------------------
(* The daytime server *)
DaytimeInv ==
  /\ inbox \in Seq([src : Askers, fits : BOOLEAN])
  /\ \A g \in {sends, asked, answered} : g \in [Askers -> Int]
  /\ RepliesToSender

(* What is left of a queue of datagrams, and the one taken from it. *)
LEMMA OneOff ==
  ASSUME NEW S, NEW q \in Seq(S), q # <<>>
  PROVE  Head(q) \in S /\ Tail(q) \in Seq(S)
OBVIOUS

(* Every step keeps each answer with the one who asked. *)
LEMMA DaytimeKeeps ==
  ASSUME DaytimeInv, [DaytimeNext]_daytimeVars
  PROVE  DaytimeInv'
<1> USE DEF DaytimeInv
<1>1. ASSUME NEW p \in Askers, NEW fits \in BOOLEAN, CallUdp(p, fits)
      PROVE  DaytimeInv'
  BY <1>1 DEF CallUdp, tcpVars, RepliesToSender
<1>2. CASE HandleReceive
  <2> DEFINE p == Head(inbox).src
  <2>0. inbox # <<>>
    BY <1>2 DEF HandleReceive
  <2>1. p \in Askers /\ Tail(inbox) \in Seq([src : Askers, fits : BOOLEAN])
    <3>1. Head(inbox) \in [src : Askers, fits : BOOLEAN]
      BY <2>0, OneOff
    <3> QED
      BY <2>0, <3>1, OneOff
  <2>2. /\ sends' = [sends EXCEPT ![p] = @ + 1] /\ asked' = [asked EXCEPT ![p] = @ + 1]
        /\ inbox' = Tail(inbox) /\ answered' = answered
    BY <1>2 DEF HandleReceive
  <2> HIDE DEF p
  <2> QED
    BY SMTT(30), <2>1, <2>2 DEF RepliesToSender
<1>3. ASSUME NEW p \in Askers, HandleSend(p)
      PROVE  DaytimeInv'
  <2>1. /\ sends' = [sends EXCEPT ![p] = @ - 1] /\ answered' = [answered EXCEPT ![p] = @ + 1]
        /\ inbox' = inbox /\ asked' = asked
    BY <1>3 DEF HandleSend, sent_to
  <2> QED
    BY <2>1 DEF RepliesToSender
<1>4. CASE HandleReceiveError
  <2>0. UNCHANGED <<sends, asked, answered>>
    BY <1>4 DEF HandleReceiveError
  <2>1. inbox' \in Seq([src : Askers, fits : BOOLEAN])
    <3>1. inbox' = inbox \/ (inbox # <<>> /\ inbox' = Tail(inbox))
      BY <1>4 DEF HandleReceiveError
    <3> QED
      BY <3>1, OneOff
  <2> QED
    BY <2>0, <2>1 DEF RepliesToSender
<1>5. CASE UNCHANGED <<inbox, sends, asked, answered>>
  BY <1>5 DEF RepliesToSender
<1>6. ASSUME NEW p \in Askers,
             CallTcp(p) \/ HandleAccept(p) \/ HandleAcceptError(p) \/ ConnectionHandleWrite(p)
      PROVE  UNCHANGED <<inbox, sends, asked, answered>>
  BY <1>6 DEF CallTcp, HandleAccept, HandleAcceptError, ConnectionHandleWrite, udpHalf
<1> QED
  BY <1>1, <1>2, <1>3, <1>4, <1>5, <1>6 DEF DaytimeNext, daytimeVars, udpHalf

(* Each caller gets as many answers as it sent datagrams, also when the next
   receive overwrites remote_endpoint_ while earlier sends are outstanding. *)
THEOREM RepliesReachSenders == DaytimeSpec => []RepliesToSender
<1>1. DaytimeInit => DaytimeInv
  BY DEF DaytimeInit, DaytimeInv, RepliesToSender
<1>2. DaytimeInv => RepliesToSender
  BY DEF DaytimeInv
<1> QED
  BY <1>1, <1>2, DaytimeKeeps, PTL DEF DaytimeSpec
=============================================================================
