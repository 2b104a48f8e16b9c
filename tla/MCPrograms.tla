------------------------------ MODULE MCPrograms -----------------------------
(* Small programs side by side: each behaviour is one of those of MCFunctions,
   of the event queue, of the circular queue, of the lock-free stack or of the
   bouncing faces on their console; the state of the others stays at one
   initial value. *)
EXTENDS MCFunctions, MyEvents, CirQue, LockFree, BounceScreen

callsVars == <<functionVars, sortVars>>

(* A negative, every legal and a too large value. *)
MCGarbage == -1..3

NoRing == <<allocated, front, rear, count, capacity>> = <<FALSE, 0, 0, 0, 0>>

NoScreen ==
  /\ drawing = CHOOSE d \in Drawings : d # "MThread02"
  /\ look = [f \in Faces |-> CHOOSE l \in Looks : l.clean]
  /\ at = [f \in Faces |-> <<0, 0>>] /\ delta = [f \in Faces |-> <<0, 0>>]

MCInit ==
  /\ program \in {"message", "search", "sort",
                  "events", "ring", "lockfree", "faces"}
  /\ FunctionsInit /\ Init /\ LockFreeInit
  /\ RingInit /\ (program = "ring" \/ NoRing)
  /\ (program = "faces" \/ NoScreen) /\ ScreenInit

MCNext ==
  \/ /\ FunctionsNext
     /\ UNCHANGED <<vars, ringVars, lockFreeVars, screenVars>>
  \/ /\ program = "events" /\ Next
     /\ UNCHANGED <<program, callsVars, ringVars, lockFreeVars, screenVars>>
  \/ /\ program = "ring" /\ RingNext
     /\ UNCHANGED <<program, callsVars, vars, lockFreeVars, screenVars>>
  \/ /\ program = "lockfree" /\ LockFreeNext
     /\ UNCHANGED <<program, callsVars, vars, ringVars, screenVars>>
  \/ /\ program = "faces" /\ ScreenNext
     /\ UNCHANGED <<program, callsVars, vars, ringVars, lockFreeVars>>

MCSpec ==
  /\ MCInit
  /\ [][MCNext]_<<program, callsVars, vars, ringVars, lockFreeVars, screenVars>>
=============================================================================
