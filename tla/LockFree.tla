------------------------------- MODULE LockFree ------------------------------
(***************************************************************************)
(* The producers and consumers of MyUtil/LockFreeMain.cpp on one           *)
(* boost::lockfree::stack (external: push and pop are atomic).             *)
(***************************************************************************)
EXTENDS Integers, Sequences, FiniteSets

CONSTANTS
  Producers, Consumers, \* the threads of the two groups
  iterations

(* The group of consumers is not empty: someone drains the stack. *)
ASSUME LockFreeAssumption ==
  /\ iterations \in Nat
  /\ IsFiniteSet(Producers) /\ IsFiniteSet(Consumers) /\ Consumers # {}

VARIABLES
  produced, consumed, \* producer_count, consumer_count
  stack,
  isAllThreadStarted, \* set when all producers have ended
  todo,  \* iterations each producer still has to begin
  value, \* what a producer is to push; 0 for nothing
  place, \* of each consumer: "test", "pop", "last" or "done"
  got,   \* a consumer has popped and not yet counted
  main   \* of main: "producers", "flag", "consumers" or "end"

lockFreeVars == <<produced, consumed, stack, isAllThreadStarted, todo, value, place, got, main>>

LockFreeInit ==
  /\ produced = 0 /\ consumed = 0 /\ stack = <<>> /\ isAllThreadStarted = FALSE
  /\ todo = [p \in Producers |-> iterations] /\ value = [p \in Producers |-> 0]
  /\ place = [c \in Consumers |-> "test"] /\ got = [c \in Consumers |-> FALSE]
  /\ main = "producers"

(* int value = ++producer_count; *)
Count(p) ==
  /\ todo[p] > 0 /\ value[p] = 0
  /\ todo' = [todo EXCEPT ![p] = @ - 1]
  /\ produced' = produced + 1 /\ value' = [value EXCEPT ![p] = produced']
  /\ UNCHANGED <<consumed, stack, isAllThreadStarted, place, got, main>>

(* while (!stack.push(value)): a push that fails is tried again. *)
Push(p) ==
  /\ value[p] # 0
  /\ stack' = <<value[p]>> \o stack /\ value' = [value EXCEPT ![p] = 0]
  /\ UNCHANGED <<produced, consumed, isAllThreadStarted, todo, place, got, main>>

(* Mutant: the flag ends a consumer at once. *)
after_flag_done == "done"
(* Behind the loop is the last drain. *)
after_flag == "last"

(* while (!isAllThreadStarted) *)
Test(c) ==
  /\ place[c] = "test"
  /\ place' = [place EXCEPT ![c] = IF isAllThreadStarted THEN after_flag ELSE "pop"]
  /\ UNCHANGED <<produced, consumed, stack, isAllThreadStarted, todo, value, got, main>>

(* Where a pop that finds nothing leads to. *)
empty(c) == IF place[c] = "pop" THEN "test" ELSE "done"

Pop(c) ==
  /\ place[c] \in {"pop", "last"} /\ ~got[c]
  /\ IF stack = <<>>
     THEN place' = [place EXCEPT ![c] = empty(c)] /\ UNCHANGED <<stack, got>>
     ELSE stack' = Tail(stack) /\ got' = [got EXCEPT ![c] = TRUE] /\ UNCHANGED place
  /\ UNCHANGED <<produced, consumed, isAllThreadStarted, todo, value, main>>

(* ++consumer_count; *)
CountPopped(c) ==
  /\ got[c]
  /\ got' = [got EXCEPT ![c] = FALSE] /\ consumed' = consumed + 1
  /\ UNCHANGED <<produced, stack, isAllThreadStarted, todo, value, place, main>>

(* producer_threads.join_all(), the flag, consumer_threads.join_all() *)
JoinProducers ==
  /\ main = "producers" /\ \A p \in Producers : todo[p] = 0 /\ value[p] = 0
  /\ main' = "flag"
  /\ UNCHANGED <<produced, consumed, stack, isAllThreadStarted, todo, value, place, got>>

SetFlag ==
  /\ main = "flag" /\ main' = "consumers" /\ isAllThreadStarted' = TRUE
  /\ UNCHANGED <<produced, consumed, stack, todo, value, place, got>>

JoinConsumers ==
  /\ main = "consumers" /\ \A c \in Consumers : place[c] = "done"
  /\ main' = "end"
  /\ UNCHANGED <<produced, consumed, stack, isAllThreadStarted, todo, value, place, got>>

LockFreeNext ==
  \/ \E p \in Producers : Count(p) \/ Push(p)
  \/ \E c \in Consumers : Test(c) \/ Pop(c) \/ CountPopped(c)
  \/ JoinProducers \/ SetFlag \/ JoinConsumers

LockFreeSpec == LockFreeInit /\ [][LockFreeNext]_lockFreeVars
-----------------------------------------------------------------------------
(* When main prints the two counts they are equal and nothing is left on
   the stack, for any number of threads: the drain after the flag sees all
   that was pushed before it. *)
AllConsumed ==
  main = "end" =>
    /\ stack = <<>>
    /\ produced = iterations * Cardinality(Producers) /\ consumed = produced
=============================================================================
