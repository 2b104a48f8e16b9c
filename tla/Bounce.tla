------------------------------- MODULE Bounce --------------------------------
(***************************************************************************)
(* The three bouncing-face programs (Project1/MThread01.c, Main01.c and    *)
(* MThread02.c): main reads keys and starts threads, the threads share two *)
(* Windows mutexes, the console and the counters threadNr and              *)
(* threadDeleteNr.  The programs differ in the keys they know and in how a *)
(* thread leaves its loop.                                                 *)
(*                                                                         *)
(* A Windows mutex is its owner: releasing one that another thread owns    *)
(* fails without effect, a mutex whose owner ends is free again (the next  *)
(* wait returns WAIT_ABANDONED, which none of the programs tells from      *)
(* success), and nobody here releases one acquired twice.  The counters    *)
(* are unprotected: ++ and -- are a read and a write.                      *)
(***************************************************************************)
EXTENDS Integers, FiniteSets

CONSTANTS
  Programs,    \* which of the three programs
  Threads,     \* bound: the threads that are started, once each
  Main, NoOne, \* main's thread, and the owner of a free mutex
  MAX_THREADS, \* 32 in the code
  MaxDels      \* bound: times 'd' is taken

ASSUME BounceAssumption ==
  /\ Programs \subseteq {"MThread01", "Main01", "MThread02"}
  /\ {Main, NoOne} \cap Threads = {} /\ Main # NoOne
  /\ MAX_THREADS \in Nat /\ MaxDels \in Nat

VARIABLES
  program,        \* the program that runs
  main,           \* where main is
  pc,             \* where each thread is
  reg,            \* the value main or a thread has read to add to or subtract from
  threadNr,       \* "Number of threads started"
  threadDeleteNr, \* "Number of thread to Delete"
  run, screen,    \* the owners of hRunMutex and hScreenMutex
  told,           \* ghost: a key has asked a thread to stop
  dels            \* ghost: times 'd' was taken

vars == <<program, main, pc, reg, threadNr, threadDeleteNr, run, screen, told, dels>>

MainPlaces == {"keys", "starting", "deleting", "releasing", "clear", "clearing", "shutdown", "counting",
               "last clear", "closing", "exited"}
Places == {"unborn", "wait", "draw", "poll", "check", "compare", "matched",
           "leaving", "counting", "ended"}

TypeOK ==
  /\ program \in Programs
  /\ main \in MainPlaces
  /\ pc \in [Threads -> Places]
  /\ reg \in [Threads \cup {Main} -> (-Cardinality(Threads))..MAX_THREADS]
  /\ threadNr \in (-Cardinality(Threads))..MAX_THREADS
  /\ threadDeleteNr \in 0..MAX_THREADS
  /\ run \in Threads \cup {Main, NoOne}
  /\ screen \in Threads \cup {Main, NoOne}
  /\ told \in BOOLEAN
  /\ dels \in 0..MaxDels

(* Mutant: CreateMutex(NULL, FALSE, NULL). *)
run_owner_none == NoOne
(* hRunMutex = CreateMutex(NULL, TRUE, NULL). *)
run_owner == Main

Init ==
  /\ program \in Programs
  /\ main = "keys"
  /\ pc = [t \in Threads |-> "unborn"]
  /\ reg = [t \in Threads \cup {Main} |-> 0]
  /\ threadNr = 0 /\ threadDeleteNr = 0
  /\ run = run_owner /\ screen = NoOne
  /\ told = FALSE /\ dels = 0

(* ReleaseMutex by t, and a wait by t that succeeds.  A handle that is
   closed makes the wait fail at once, which the programs do not notice. *)
Released(m, t) == IF m = t THEN NoOne ELSE m
HandlesOpen == main \notin {"closing", "exited"}
Free(m, t) == m \in {NoOne, t}
-----------------------------------------------------------------------------
(* main: KbdFunc / readInput *)

(* threadNr < MAX_THREADS *)
below_limit(n) == n < MAX_THREADS

KeyA ==
  /\ main = "keys" /\ below_limit(threadNr)
  /\ \E t \in Threads : pc[t] = "unborn"
  /\ main' = "starting"
  /\ reg' = [reg EXCEPT ![Main] = threadNr]
  /\ UNCHANGED <<program, pc, threadNr, threadDeleteNr, run, screen, told, dels>>

(* threadNr++ is stored and _beginthread(BounceProc, 0, &threadNr) runs. *)
StartThread ==
  /\ main = "starting"
  /\ \E t \in Threads :
       /\ pc[t] = "unborn"
       /\ pc' = [pc EXCEPT ![t] = "wait"]
  /\ threadNr' = reg[Main] + 1
  /\ main' = "keys"
  /\ UNCHANGED <<program, reg, threadDeleteNr, run, screen, told, dels>>

(* 'd': threadNr > 0, and in MThread02 threadDeleteNr == 0. *)
KeyD ==
  /\ main = "keys" /\ threadNr > 0 /\ dels < MaxDels
  /\ \/ program = "Main01"
     \/ program = "MThread02" /\ threadDeleteNr = 0
  /\ main' = "deleting"
  /\ told' = TRUE /\ dels' = dels + 1
  /\ UNCHANGED <<program, pc, reg, threadNr, threadDeleteNr, run, screen>>

(* Mutant: the mutex is not released. *)
stop_thread_not == run
(* stopThread(): ReleaseMutex(hRunMutex) *)
stop_thread == Released(run, Main)

(* MThread02: threadDeleteNr = threadNr, for a thread to find.  Main01, where
   no thread looks at it: threadDeleteNr++, and the loop of stopThread leaves
   0 in it again. *)
DeleteNumber ==
  /\ main = "deleting"
  /\ threadDeleteNr' = IF program = "MThread02" THEN threadNr ELSE 0
  /\ main' = "releasing"
  /\ UNCHANGED <<program, pc, reg, threadNr, run, screen, told, dels>>

DeleteRelease ==
  /\ main = "releasing"
  /\ run' = stop_thread
  /\ main' = "keys"
  /\ UNCHANGED <<program, pc, reg, threadNr, threadDeleteNr, screen, told, dels>>

(* 'c', in MThread02: wait for the screen, clear it, release it. *)
KeyC ==
  /\ program = "MThread02" /\ main = "keys"
  /\ main' = "clear"
  /\ UNCHANGED <<program, pc, reg, threadNr, threadDeleteNr, run, screen, told, dels>>

ClearEnter ==
  /\ main = "clear" /\ Free(screen, Main)
  /\ screen' = Main /\ main' = "clearing"
  /\ UNCHANGED <<program, pc, reg, threadNr, threadDeleteNr, run, told, dels>>

ClearDone ==
  /\ main = "clearing"
  /\ screen' = Released(screen, Main) /\ main' = "keys"
  /\ UNCHANGED <<program, pc, reg, threadNr, threadDeleteNr, run, told, dels>>
-----------------------------------------------------------------------------
(* main: ShutDown / shutDownAll and the end of main *)

KeyQ ==
  /\ main = "keys"
  /\ main' = "shutdown" /\ told' = TRUE
  /\ UNCHANGED <<program, pc, reg, threadNr, threadDeleteNr, run, screen, dels>>

(* while (threadNr > 0) { ReleaseMutex(hRunMutex); threadNr--; } *)
ShutDownRelease ==
  /\ main = "shutdown" /\ threadNr > 0
  /\ run' = Released(run, Main)
  /\ reg' = [reg EXCEPT ![Main] = threadNr]
  /\ main' = "counting"
  /\ UNCHANGED <<program, pc, threadNr, threadDeleteNr, screen, told, dels>>

ShutDownCount ==
  /\ main = "counting"
  /\ threadNr' = reg[Main] - 1
  /\ main' = "shutdown"
  /\ UNCHANGED <<program, pc, reg, threadDeleteNr, run, screen, told, dels>>

ShutDownDone ==
  /\ main = "shutdown" /\ threadNr <= 0
  /\ main' = "last clear"
  /\ UNCHANGED <<program, pc, reg, threadNr, threadDeleteNr, run, screen, told, dels>>

(* The screen is cleared, kept, and the handles are closed. *)
CloseHandles ==
  /\ main = "last clear" /\ Free(screen, Main)
  /\ screen' = Main /\ main' = "closing"
  /\ UNCHANGED <<program, pc, reg, threadNr, threadDeleteNr, run, told, dels>>

(* main returns, and with it the process and all threads end. *)
Exit ==
  /\ main = "closing"
  /\ main' = "exited"
  /\ UNCHANGED <<program, pc, reg, threadNr, threadDeleteNr, run, screen, told, dels>>
-----------------------------------------------------------------------------
(* BounceProc *)

Goto(t, place) == pc' = [pc EXCEPT ![t] = place]

(* Mutant: the screen is used without waiting for it. *)
EnterAnyway(t) ==
  /\ main # "exited" /\ pc[t] = "wait"
  /\ Goto(t, "draw")
  /\ UNCHANGED <<program, main, reg, threadNr, threadDeleteNr, run, screen, told, dels>>
(* WaitForSingleObject(hScreenMutex, INFINITE) returns. *)
Enter(t) ==
  /\ main # "exited" /\ pc[t] = "wait"
  /\ IF HandlesOpen THEN Free(screen, t) /\ screen' = t ELSE UNCHANGED screen
  /\ Goto(t, "draw")
  /\ UNCHANGED <<program, main, reg, threadNr, threadDeleteNr, run, told, dels>>

(* Mutant: the mutex is kept. *)
screen_after_kept(t) == screen
(* ReleaseMutex(hScreenMutex) *)
screen_after(t) == IF HandlesOpen THEN Released(screen, t) ELSE screen

(* The face is drawn and moved. *)
Draw(t) ==
  /\ main # "exited" /\ pc[t] = "draw"
  /\ screen' = screen_after(t)
  /\ Goto(t, "poll")
  /\ UNCHANGED <<program, main, reg, threadNr, threadDeleteNr, run, told, dels>>

(* WaitForSingleObject(hRunMutex, 75L) with a timeout, *)
PollTimeout(t) ==
  /\ main # "exited" /\ pc[t] = "poll"
  /\ HandlesOpen /\ ~Free(run, t)
  /\ Goto(t, IF program = "MThread02" THEN "check" ELSE "wait")
  /\ UNCHANGED <<program, main, reg, threadNr, threadDeleteNr, run, screen, told, dels>>

(* or without one: the loop ends, but for MThread02. *)
PollReturns(t) ==
  /\ main # "exited" /\ pc[t] = "poll"
  /\ IF HandlesOpen THEN Free(run, t) /\ run' = t ELSE UNCHANGED run
  /\ Goto(t, IF program = "MThread02" THEN "check" ELSE "leaving")
  /\ UNCHANGED <<program, main, reg, threadNr, threadDeleteNr, screen, told, dels>>

(* MThread02: threadDeleteNr > 0, *)
Check(t) ==
  /\ main # "exited" /\ pc[t] = "check"
  /\ reg' = [reg EXCEPT ![t] = threadDeleteNr]
  /\ Goto(t, IF threadDeleteNr > 0 THEN "compare" ELSE "wait")
  /\ UNCHANGED <<program, main, threadNr, threadDeleteNr, run, screen, told, dels>>

(* and threadDeleteNr == *myId, where myId points at threadNr.  The compiler
   may read threadDeleteNr again or not. *)
Compare(t) ==
  /\ main # "exited" /\ pc[t] = "compare"
  /\ \E n \in {reg[t], threadDeleteNr} : Goto(t, IF n = threadNr THEN "matched" ELSE "wait")
  /\ reg' = [reg EXCEPT ![t] = 0] \* no longer of use
  /\ UNCHANGED <<program, main, threadNr, threadDeleteNr, run, screen, told, dels>>

(* threadDeleteNr = 0; break; *)
Matched(t) ==
  /\ main # "exited" /\ pc[t] = "matched"
  /\ threadDeleteNr' = 0
  /\ Goto(t, "leaving")
  /\ UNCHANGED <<program, main, reg, threadNr, run, screen, told, dels>>

(* What a thread that ends still owns is abandoned. *)
Abandoned(m, t) == IF m = t THEN NoOne ELSE m

(* The thread returns; MThread02 does threadNr-- before. *)
Leave(t) ==
  /\ main # "exited" /\ pc[t] = "leaving"
  /\ \/ /\ program = "MThread02"
        /\ reg' = [reg EXCEPT ![t] = threadNr]
        /\ Goto(t, "counting")
        /\ UNCHANGED <<run, screen>>
     \/ /\ program # "MThread02"
        /\ run' = Abandoned(run, t) /\ screen' = Abandoned(screen, t)
        /\ Goto(t, "ended")
        /\ UNCHANGED reg
  /\ UNCHANGED <<program, main, threadNr, threadDeleteNr, told, dels>>

CountDown(t) ==
  /\ main # "exited" /\ pc[t] = "counting"
  /\ threadNr' = reg[t] - 1
  /\ run' = Abandoned(run, t) /\ screen' = Abandoned(screen, t)
  /\ Goto(t, "ended")
  /\ UNCHANGED <<program, main, reg, threadDeleteNr, told, dels>>
-----------------------------------------------------------------------------
(* What main does without waiting for a key. *)
MainStep ==
  \/ StartThread \/ DeleteNumber \/ DeleteRelease \/ ClearEnter \/ ClearDone
  \/ ShutDownRelease \/ ShutDownCount \/ ShutDownDone \/ CloseHandles \/ Exit

Thread(t) ==
  \/ Enter(t) \/ Draw(t) \/ PollTimeout(t) \/ PollReturns(t)
  \/ Check(t) \/ Compare(t) \/ Matched(t) \/ Leave(t) \/ CountDown(t)

Next ==
  \/ KeyA \/ StartThread \/ KeyD \/ DeleteNumber \/ DeleteRelease \/ KeyC \/ ClearEnter \/ ClearDone
  \/ KeyQ \/ ShutDownRelease \/ ShutDownCount \/ ShutDownDone
  \/ CloseHandles \/ Exit
  \/ \E t \in Threads :
       \/ Enter(t) \/ Draw(t) \/ PollTimeout(t) \/ PollReturns(t)
       \/ Check(t) \/ Compare(t) \/ Matched(t) \/ Leave(t) \/ CountDown(t)

Spec == Init /\ [][Next]_vars

(***************************************************************************)
(* Every thread is scheduled; a mutex goes to its waiters in turn, so that *)
(* one who waits for the screen again and again gets it.  No key need ever *)
(* be pressed.                                                             *)
(***************************************************************************)
Fairness ==
  /\ WF_vars(MainStep)
  /\ SF_vars(ClearEnter \/ CloseHandles)
  /\ \A t \in Threads : WF_vars(Thread(t)) /\ SF_vars(Enter(t))

FairSpec == Spec /\ Fairness
-----------------------------------------------------------------------------
Live == {t \in Threads : pc[t] \notin {"unborn", "ended"}}
Gone == {t \in Threads : pc[t] = "ended"}

(* No thread leaves its loop before a key has asked for it, however the
   polls of hRunMutex interleave with the keys. *)
KeepRunning == \A t \in Threads : pc[t] \in {"matched", "leaving", "counting", "ended"} => told

(* Until the handles are closed the screen mutex is held by whoever draws
   or clears and by nobody else: no two write at once, and no thread ends
   or polls with the screen locked. *)
OneWriter ==
  HandlesOpen =>
    /\ \A t \in Threads : (pc[t] = "draw") <=> (screen = t)
    /\ (main = "clearing") <=> (screen = Main)

(* A key is answered, and 'q' ends the program, whatever the threads do. *)
Responsive ==
  /\ main # "keys" ~> main \in {"keys", "exited"}
  /\ main = "shutdown" ~> main = "exited"

(* Where releasing hRunMutex stops a thread, the one that ends abandons the
   mutex to the next: all threads end, also those started later. *)
StopsAll == told /\ program # "MThread02" ~> Live = {} \/ main = "exited"

(* "'D' to stop a thread" (the console's title, of Main01 and of MThread02): a
   'd' stops at most one. *)
StopsOneThread == main = "keys" => Cardinality(Gone) <= dels
=============================================================================
