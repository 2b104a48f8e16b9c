-------------------------------- MODULE MLog ---------------------------------
(***************************************************************************)
(* The asynchronous logger (Project1/MLogger.h, MLogger.cpp): callers      *)
(* stream text into os and push messages, a writer thread pops, prints and *)
(* deletes them.  What a function does under mtx is one action, a wait on  *)
(* cv is a place where a writer stays until it is notified.  What is done  *)
(* without the lock takes steps of its own: init() tests and sets          *)
(* logWriter, a message is allocated, and os is written and read.          *)
(*                                                                         *)
(* Two threads in os at once are a data race, after which the text may be  *)
(* any and the process may end.  Of the text itself is kept whose          *)
(* insertions it holds.                                                    *)
(***************************************************************************)
EXTENDS Integers, FiniteSets

CONSTANTS
  Callers, \* the threads that call the logger
  Blocks   \* bound: the addresses that messages may have

ASSUME LogAssumption == Blocks \subseteq Nat \ {0}

VARIABLES
  isPause,   \* not initialised by the constructors
  logWriter, \* not initialised either: null or not
  caller,    \* where each caller is
  writers,   \* where the writer started by each caller is, if there is one
  os,        \* the callers all of whose insertions the ostringstream holds
  text,      \* the same of what each caller has taken from os
  stream,    \* "raced" after two threads were in os at once, else "sound"
  live,      \* the blocks allocated
  block,     \* the message a caller has allocated and not pushed, 0 for none
  queue      \* the messages pushed

streamVars == <<os, text, stream>>
queueVars == <<live, block, queue>>
vars == <<isPause, logWriter, caller, writers, streamVars, queueVars>>

(* MLog(): isRun is true; isPause and logWriter are what the memory held. *)
Init ==
  /\ isPause \in BOOLEAN
  /\ logWriter \in {"null", "set"}
  /\ caller = [c \in Callers |-> "idle"]
  /\ writers = [c \in Callers |-> "none"]
  /\ os = Callers /\ text = [c \in Callers |-> {}] /\ stream = "sound"
  /\ live = {} /\ block = [c \in Callers |-> 0] /\ queue = {}

(* cv.notify_all() *)
notify_all(ws) == [c \in Callers |-> IF ws[c] = "waiting" THEN "ready" ELSE ws[c]]
-----------------------------------------------------------------------------
At(c, place) == caller[c] = place
Goto(c, place) == caller' = [caller EXCEPT ![c] = place]

(* A call of start() (isRun = true, then init() and resume()), of init() or
   of resume(). *)
Call(c) ==
  /\ At(c, "idle")
  /\ \E place \in {"start", "init", "resume"} : Goto(c, place)
  /\ UNCHANGED <<isPause, logWriter, writers, streamVars, queueVars>>

(* Where a caller goes on after init(). *)
AfterInit(c) == IF caller[c] \in {"start", "start create"} THEN "resume" ELSE "idle"

(* if (logWriter) return; *)
InitTest(c) ==
  /\ At(c, "start") \/ At(c, "init")
  /\ Goto(c, IF logWriter # "null" THEN AfterInit(c)
             ELSE IF At(c, "start") THEN "start create" ELSE "init create")
  /\ UNCHANGED <<isPause, logWriter, writers, streamVars, queueVars>>

InitCreate(c) ==
  /\ At(c, "start create") \/ At(c, "init create")
  /\ logWriter' = "set"
  /\ writers' = [writers EXCEPT ![c] = "ready"]
  /\ Goto(c, AfterInit(c))
  /\ UNCHANGED <<isPause, streamVars, queueVars>>

Resume(c) ==
  /\ At(c, "resume")
  /\ isPause' = FALSE
  /\ writers' = notify_all(writers)
  /\ Goto(c, "idle")
  /\ UNCHANGED <<logWriter, streamVars, queueVars>>

Pause(c) ==
  /\ At(c, "idle")
  /\ isPause' = TRUE
  /\ writers' = notify_all(writers)
  /\ UNCHANGED <<logWriter, caller, streamVars, queueVars>>
-----------------------------------------------------------------------------
(* os, which no lock protects *)

(* The stream after c has used it: a race if another thread is writing. *)
used_by(c) ==
  IF \E d \in Callers \ {c} : caller[d] \in {"inserting", "ending"} THEN "raced" ELSE stream

(* What a raced stream holds is anything. *)
StreamText(state, what) == IF state = "sound" THEN {what} ELSE SUBSET Callers

(* get() or operator<<(T) begin to write to os, or operator<<(endl) does. *)
Insert(c) ==
  /\ At(c, "idle")
  /\ \E place \in {"inserting", "ending"} : Goto(c, place)
  /\ os' = os \ {c} /\ stream' = used_by(c)
  /\ UNCHANGED <<isPause, logWriter, writers, text, queueVars>>

(* The insertion is done; endl goes on like flush(). *)
Inserted(c) ==
  /\ At(c, "inserting") \/ At(c, "ending")
  /\ Goto(c, IF At(c, "ending") THEN "taking" ELSE "idle")
  /\ os' \in StreamText(stream, os \cup {c})
  /\ UNCHANGED <<isPause, logWriter, writers, text, stream, queueVars>>

Flush(c) ==
  /\ At(c, "idle") /\ Goto(c, "taking")
  /\ UNCHANGED <<isPause, logWriter, writers, streamVars, queueVars>>

(* os.str() *)
TakeText(c) ==
  /\ At(c, "taking") /\ Goto(c, "allocating")
  /\ stream' = used_by(c)
  /\ \E t \in StreamText(stream', os) : text' = [text EXCEPT ![c] = t]
  /\ UNCHANGED <<isPause, logWriter, writers, os, queueVars>>

(* Mutant: the text is removed. *)
cleared_text == {}
(* os.clear() resets the stream's state and keeps its text, so that the next
   message holds it again. *)
cleared == os

(* The end of operator<<(endl) and of flush(), and clear(). *)
Clear(c) ==
  /\ At(c, "clearing") \/ At(c, "idle")
  /\ Goto(c, "idle")
  /\ os' = cleared /\ stream' = used_by(c)
  /\ UNCHANGED <<isPause, logWriter, writers, text, queueVars>>

(* What an undefined behaviour may lead to: the process ends. *)
Crash ==
  /\ stream = "raced"
  /\ caller' = [c \in Callers |-> "dead"] /\ writers' = [c \in Callers |-> "dead"]
  /\ UNCHANGED <<isPause, logWriter, streamVars, queueVars>>
-----------------------------------------------------------------------------
(* log() *)

(* new MLogMsg(_msg), before the lock: any block that is free. *)
New(c) ==
  /\ At(c, "allocating") /\ Goto(c, "pushing")
  /\ \E b \in Blocks \ live :
       /\ live' = live \cup {b}
       /\ block' = [block EXCEPT ![c] = b]
  /\ UNCHANGED <<isPause, logWriter, writers, streamVars, queue>>

(* Mutant: nobody is told. *)
notified_not(ws) == ws
(* log() notifies after the push. *)
notified(ws) == notify_all(ws)

Log(c) ==
  /\ At(c, "pushing") /\ Goto(c, "clearing")
  /\ queue' = queue \cup {block[c]}
  /\ block' = [block EXCEPT ![c] = 0]
  /\ text' = [text EXCEPT ![c] = {}]
  /\ writers' = notified(writers)
  /\ UNCHANGED <<isPause, logWriter, os, stream, live>>
-----------------------------------------------------------------------------
(* handleLog() *)

(* isPause || queue.empty() *)
must_wait == isPause \/ queue = {}

Wait(c) ==
  /\ writers[c] = "ready" /\ must_wait
  /\ writers' = [writers EXCEPT ![c] = "waiting"]
  /\ UNCHANGED <<isPause, logWriter, caller, streamVars, queueVars>>

(* cv.wait may return without a notification. *)
Spurious(c) ==
  /\ writers[c] = "waiting"
  /\ writers' = [writers EXCEPT ![c] = "ready"]
  /\ UNCHANGED <<isPause, logWriter, caller, streamVars, queueVars>>

(* The queue orders pointers: its top is the highest address. *)
top(m) == m \in queue /\ \A other \in queue : other <= m

(* Mutant: the message stays in the queue. *)
popped_not(m) == queue
(* queue.pop() *)
popped(m) == queue \ {m}

(* top(), pop(), print (of the address, not of the text), delete. *)
WriteMsg(c) ==
  /\ writers[c] = "ready" /\ ~must_wait
  /\ \E m \in Blocks :
       /\ top(m)
       /\ queue' = popped(m) /\ live' = live \ {m}
  /\ UNCHANGED <<isPause, logWriter, caller, writers, streamVars, block>>
-----------------------------------------------------------------------------
Next ==
  \/ \E c \in Callers :
       \/ Call(c) \/ InitTest(c) \/ InitCreate(c) \/ Resume(c) \/ Pause(c)
       \/ Insert(c) \/ Inserted(c) \/ Flush(c) \/ TakeText(c) \/ Clear(c)
       \/ New(c) \/ Log(c)
       \/ Wait(c) \/ Spurious(c) \/ WriteMsg(c)
  \/ Crash

Spec == Init /\ [][Next]_vars

(* Threads are scheduled and get the lock: a call ends, and a writer that may
   go on does.  A wait need not return before it is notified. *)
Fairness ==
  \A c \in Callers :
    /\ WF_vars(InitTest(c) \/ InitCreate(c) \/ Resume(c) \/ Inserted(c) \/ TakeText(c)
               \/ (At(c, "clearing") /\ Clear(c)) \/ New(c) \/ Log(c))
    /\ WF_vars(Wait(c) \/ WriteMsg(c))

FairSpec == Spec /\ Fairness
-----------------------------------------------------------------------------
(* A message is in the hands of the one who allocated it or in the queue, at
   one place only, and its block is live just as long: with two writers too
   (two start() at the same time) none is printed twice, printed after it was
   deleted, or lost. *)
BlocksKept ==
  /\ live = queue \cup ({block[c] : c \in Callers} \ {0})
  /\ \A c \in Callers : block[c] # 0 =>
       block[c] \notin queue /\ \A d \in Callers : block[d] = block[c] => d = c

(* As long as no two threads have been in os at once, what a caller logs
   holds all that it has inserted before, whoever else logs meanwhile: that
   os.clear() keeps the text repeats every line, and loses none. *)
LinesKept ==
  stream = "sound" =>
    \A c \in Callers : caller[c] \in {"allocating", "pushing"} => c \in text[c]

LogKept == BlocksKept /\ LinesKept

(* While a writer exists and the logger is not paused, the message on top of
   the queue gets printed, or a higher one comes.  (One below may wait for
   ever: nothing makes the order of addresses that of the calls.) *)
TopGetsPrinted ==
  \A m \in Blocks :
    m \in queue /\ (\E c \in Callers : writers[c] # "none") ~>
      m \notin queue \/ (\E h \in queue : h > m) \/ isPause
      \/ \E c \in Callers : writers[c] = "dead"
=============================================================================
