---------------------------- MODULE BounceProofs -----------------------------
(***************************************************************************)
(* The bouncing-face programs, for any number of threads and any limit:    *)
(* their two locks do their work (module Bounce), and the faces leave      *)
(* nothing behind on the screen and come back to it (BounceScreen).        *)
(***************************************************************************)
EXTENDS Bounce, BounceScreen, TLAPS

(* The part of the types that the two theorems rest on. *)
Placed ==
  /\ main \in MainPlaces
  /\ pc \in [Threads -> Places]
  /\ run \in Threads \cup {Main, NoOne}
  /\ screen \in Threads \cup {Main, NoOne}
  /\ told \in BOOLEAN

(* Before a key asks a thread to stop, main owns hRunMutex, nothing is to be
   deleted, no thread thinks that it is, and main is in its key loop. *)
Untold ==
  ~told => /\ run = Main /\ threadDeleteNr = 0
           /\ \A t \in Threads : pc[t] # "compare"
           /\ main \in {"keys", "starting", "clear", "clearing"}

IInv == Placed /\ Untold /\ KeepRunning /\ OneWriter

(* No count of deletions is both zero and positive. *)
LEMMA ZeroIsNotPositive == ~(0 > 0)
  OBVIOUS

(* The programs start in the inductive invariant. *)
LEMMA InitIInv == Init => IInv
  BY BounceAssumption
     DEF Init, IInv, Placed, Untold, KeepRunning, OneWriter, MainPlaces, Places,
         run_owner, HandlesOpen

(* Every step of main keeps it. *)
LEMMA MainKeepsIInv ==
  ASSUME IInv,
         KeyA \/ StartThread \/ KeyD \/ DeleteNumber \/ DeleteRelease \/ KeyC \/ ClearEnter \/ ClearDone \/ KeyQ
           \/ ShutDownRelease \/ ShutDownCount \/ ShutDownDone \/ CloseHandles \/ Exit
  PROVE  IInv'
<1> USE BounceAssumption DEF IInv, Placed, Untold, KeepRunning, OneWriter,
        MainPlaces, Places, HandlesOpen, Released, Free
<1>1. CASE KeyA BY <1>1 DEF KeyA
<1>2. CASE StartThread BY <1>2 DEF StartThread
<1>3. CASE KeyD BY <1>3 DEF KeyD
<1>13. CASE DeleteNumber BY <1>13 DEF DeleteNumber
<1>14. CASE DeleteRelease BY <1>14 DEF DeleteRelease, stop_thread
<1>4. CASE KeyC BY <1>4 DEF KeyC
<1>5. CASE ClearEnter BY <1>5 DEF ClearEnter
<1>6. CASE ClearDone BY <1>6 DEF ClearDone
<1>7. CASE KeyQ BY <1>7 DEF KeyQ
<1>8. CASE ShutDownRelease BY <1>8 DEF ShutDownRelease
<1>9. CASE ShutDownCount BY <1>9 DEF ShutDownCount
<1>10. CASE ShutDownDone BY <1>10 DEF ShutDownDone
<1>11. CASE CloseHandles BY <1>11 DEF CloseHandles
<1>12. CASE Exit BY <1>12 DEF Exit
<1> QED
  BY <1>1, <1>2, <1>3, <1>4, <1>5, <1>6, <1>7, <1>8, <1>9, <1>10, <1>11, <1>12,
     <1>13, <1>14

(* So does every step of a face's thread. *)
LEMMA ThreadKeepsIInv ==
  ASSUME IInv, NEW t \in Threads, Thread(t)
  PROVE  IInv'
<1> USE BounceAssumption DEF IInv, Placed, Untold, KeepRunning, OneWriter,
        MainPlaces, Places, HandlesOpen, Released, Free, Goto
<1>1. CASE Enter(t)
  <2>1. CASE HandlesOpen
    <3>1. screen' = t /\ pc' = [pc EXCEPT ![t] = "draw"] /\ screen \in {NoOne, t}
      BY <1>1, <2>1 DEF Enter
    <3>2. \A u \in Threads : (pc'[u] = "draw") <=> (screen' = u)
      BY <2>1, <3>1
    <3>3. UNCHANGED <<main, run, threadDeleteNr, told>>
      BY <1>1 DEF Enter
    <3>4. OneWriter'
      BY <2>1, <3>1, <3>2, <3>3
    <3>5. (Placed /\ Untold /\ KeepRunning)'
      BY <3>1, <3>3
    <3> QED BY <3>4, <3>5
  <2>2. CASE ~HandlesOpen BY <1>1, <2>2 DEF Enter
  <2> QED BY <2>1, <2>2
<1>2. CASE Draw(t) BY <1>2 DEF Draw, screen_after
<1>3. CASE PollTimeout(t) BY <1>3 DEF PollTimeout
<1>4. CASE PollReturns(t)
  <2>1. told
    BY <1>4 DEF PollReturns
  <2>2. pc' = [pc EXCEPT ![t] = "check"] \/ pc' = [pc EXCEPT ![t] = "leaving"]
    BY <1>4 DEF PollReturns
  <2>3. run' \in Threads \cup {Main, NoOne}
    BY <1>4 DEF PollReturns
  <2> QED BY <1>4, <2>1, <2>2, <2>3 DEF PollReturns
<1>5. CASE Check(t)
  <2>1. \/ pc' = [pc EXCEPT ![t] = "wait"]
        \/ pc' = [pc EXCEPT ![t] = "compare"] /\ threadDeleteNr > 0
    BY <1>5 DEF Check
  <2>2. ASSUME ~told PROVE ~(threadDeleteNr > 0)
    <3>1. threadDeleteNr = 0
      BY <2>2
    <3> QED BY <3>1, ZeroIsNotPositive, Zenon
  <2> QED BY <1>5, <2>1, <2>2 DEF Check
<1>9. CASE Compare(t)
  <2>1. pc' = [pc EXCEPT ![t] = "wait"] \/ pc' = [pc EXCEPT ![t] = "matched"]
    BY <1>9 DEF Compare
  <2>2. told /\ pc[t] = "compare"
    BY <1>9 DEF Compare
  <2> QED BY <1>9, <2>1, <2>2 DEF Compare
<1>6. CASE Matched(t) BY <1>6 DEF Matched
<1>7. CASE Leave(t) BY <1>7 DEF Leave, Abandoned
<1>8. CASE CountDown(t) BY <1>8 DEF CountDown, Abandoned
<1> QED
  BY <1>1, <1>2, <1>3, <1>4, <1>5, <1>6, <1>7, <1>8, <1>9 DEF Thread

(* So does every step. *)
LEMMA NextKeepsIInv == IInv /\ [Next]_vars => IInv'
<1> SUFFICES ASSUME IInv, [Next]_vars PROVE IInv'
  OBVIOUS
<1>1. CASE UNCHANGED vars
  BY <1>1 DEF vars, IInv, Placed, Untold, KeepRunning, OneWriter, HandlesOpen
<1>2. CASE Next
  BY <1>2, MainKeepsIInv, ThreadKeepsIInv DEF Next, Thread
<1> QED
  BY <1>1, <1>2

(* IInv holds in every reachable state. *)
THEOREM Inductive == Spec => []IInv
  BY InitIInv, NextKeepsIInv, PTL DEF Spec

(* For any number of threads, none leaves its loop before a key has asked
   for it. *)
THEOREM RunsUntilTold == Spec => []KeepRunning
<1>1. IInv => KeepRunning
  BY DEF IInv
<1> QED
  BY Inductive, <1>1, PTL

(* For any number of threads, the screen belongs to the one that draws or
   clears, until main closes the handles. *)
THEOREM ScreenExclusive == Spec => []OneWriter
<1>1. IInv => OneWriter
  BY DEF IInv
<1> QED
  BY Inductive, <1>1, PTL
-----------------------------------------------------------------------------
(* The bouncing faces.  ComesBack is inductive together with the types of
   places and directions: a turn that would leave the screen begins on it, so
   the reversed direction leads back to where the turn began. *)
Spots == Int \X Int
PlacesOK ==
  /\ at \in [Faces -> Spots] /\ delta \in [Faces -> Spots] /\ old \in [Faces -> Spots]

ScreenInv == PlacesOK /\ ComesBack

(* The argument along one axis, with places 0..n. *)
LEMMA AxisTurns ==
  ASSUME NEW n \in Int, NEW x \in Int, NEW d \in Int, NEW e \in Int,
         {x, x + d} \cap (0..n) # {},
         e = IF x + d < 0 \/ x + d > n THEN -d ELSE d
  PROVE  {x + d, (x + d) + e} \cap (0..n) # {}
<1>1. x \in 0..n \/ x + d \in 0..n
  OBVIOUS
<1>2. CASE x + d < 0 \/ x + d > n
  <2>1. x \in 0..n /\ (x + d) + e = x
    BY <1>1, <1>2
  <2> QED
    BY <2>1
<1>3. CASE ~(x + d < 0 \/ x + d > n)
  BY <1>3
<1> QED
  BY <1>2, <1>3

(* The faces start in the inductive invariant. *)
LEMMA ScreenStarts == ScreenInit => ScreenInv
<1> SUFFICES ASSUME ScreenInit PROVE ScreenInv
  OBVIOUS
<1> USE ScreenAssumption
<1>1. Console \subseteq Spots /\ Deltas \X Deltas \subseteq Spots /\ <<0, 0>> \in Spots
  BY DEF Console, Deltas, Spots
<1>2. PlacesOK
  BY <1>1 DEF ScreenInit, PlacesOK
<1>3. ASSUME NEW f \in Faces PROVE at[f] \in Console
  BY DEF ScreenInit
<1>4. ASSUME NEW f \in Faces PROVE at[f][1] \in 0..(SizeX - 1) /\ at[f][2] \in 0..SizeY
  BY <1>3 DEF Console
<1> QED
  BY <1>2, <1>4 DEF ScreenInv, ComesBack

(* A turn moves one face by its direction and may reverse that. *)
LEMMA TurnPlaces ==
  ASSUME PlacesOK, NEW f \in Faces, Turn(f) PROVE PlacesOK'
<1> DEFINE to == <<at[f][1] + delta[f][1], at[f][2] + delta[f][2]>>
           turned == <<IF off_x(at[f][1] + delta[f][1]) THEN -delta[f][1] ELSE delta[f][1],
                       IF off_y(at[f][2] + delta[f][2]) THEN -delta[f][2] ELSE delta[f][2]>>
<1>1. /\ at[f][1] \in Int /\ at[f][2] \in Int /\ delta[f][1] \in Int /\ delta[f][2] \in Int
      /\ at[f] \in Spots
  BY DEF PlacesOK, Spots
<1>2. to \in Spots /\ turned \in Spots
  BY <1>1 DEF Spots
<1>3. /\ at' = [at EXCEPT ![f] = to] /\ delta' = [delta EXCEPT ![f] = turned]
      /\ old' = [old EXCEPT ![f] = at[f]]
  BY DEF Turn, move, PlacesOK
<1> QED
  BY <1>1, <1>2, <1>3 DEF PlacesOK

(* A turn of one face keeps it. *)
LEMMA TurnKeeps ==
  ASSUME ScreenInv, NEW f \in Faces, Turn(f) PROVE ScreenInv'
<1> USE ScreenAssumption
<1> DEFINE x == at[f][1]
           y == at[f][2]
           dx == delta[f][1]
           dy == delta[f][2]
           ex == IF off_x(x + dx) THEN -dx ELSE dx
           ey == IF off_y(y + dy) THEN -dy ELSE dy
           to == <<x + dx, y + dy>>
           turned == <<ex, ey>>
<1>1. x \in Int /\ y \in Int /\ dx \in Int /\ dy \in Int /\ at[f] \in Spots
  BY DEF ScreenInv, PlacesOK, Spots
<1>2. ex \in Int /\ ey \in Int
  BY <1>1
<1>3. to \in Spots /\ turned \in Spots
  BY <1>1, <1>2 DEF Spots
<1>5. /\ at' = [at EXCEPT ![f] = to] /\ delta' = [delta EXCEPT ![f] = turned]
      /\ old' = [old EXCEPT ![f] = at[f]]
  BY DEF Turn, move, ScreenInv, PlacesOK
<1>6. PlacesOK'
  BY <1>1, <1>3, <1>5 DEF ScreenInv, PlacesOK
<1>7. /\ {to[1], to[1] + turned[1]} \cap (0..(SizeX - 1)) # {}
      /\ {to[2], to[2] + turned[2]} \cap (0..SizeY) # {}
  <2>1. {x, x + dx} \cap (0..(SizeX - 1)) # {} /\ {y, y + dy} \cap (0..SizeY) # {}
    BY DEF ScreenInv, ComesBack
  <2>2. /\ ex = IF x + dx < 0 \/ x + dx > SizeX - 1 THEN -dx ELSE dx
        /\ ey = IF y + dy < 0 \/ y + dy > SizeY THEN -dy ELSE dy
    BY <1>1 DEF off_x, off_y
  <2>5. SizeX - 1 \in Int /\ SizeY \in Int
    OBVIOUS
  <2> HIDE DEF x, y, dx, dy, ex, ey
  <2>3. {x + dx, (x + dx) + ex} \cap (0..(SizeX - 1)) # {}
    BY <1>1, <1>2, <2>1, <2>2, <2>5, AxisTurns
  <2>4. {y + dy, (y + dy) + ey} \cap (0..SizeY) # {}
    BY <1>1, <1>2, <2>1, <2>2, <2>5, AxisTurns
  <2> QED
    BY <2>3, <2>4
<1> HIDE DEF to, turned
<1>8. ASSUME NEW g \in Faces
      PROVE  /\ {at'[g][1], at'[g][1] + delta'[g][1]} \cap (0..(SizeX - 1)) # {}
             /\ {at'[g][2], at'[g][2] + delta'[g][2]} \cap (0..SizeY) # {}
  <2>1. CASE g = f
    <3>1. at'[g] = to /\ delta'[g] = turned
      BY <1>5, <2>1 DEF ScreenInv, PlacesOK
    <3> QED
      BY <1>7, <3>1
  <2>2. CASE g # f
    <3>1. at'[g] = at[g] /\ delta'[g] = delta[g]
      BY <1>5, <2>2 DEF ScreenInv, PlacesOK
    <3> QED
      BY <3>1 DEF ScreenInv, ComesBack
  <2> QED
    BY <2>1, <2>2
<1> QED
  BY <1>6, <1>8 DEF ScreenInv, ComesBack

(* So does every step. *)
LEMMA ScreenKeeps == ScreenInv /\ [ScreenNext]_screenVars => ScreenInv'
<1> SUFFICES ASSUME ScreenInv, [ScreenNext]_screenVars PROVE ScreenInv'
  OBVIOUS
<1>1. CASE ClearScreen
  BY <1>1 DEF ClearScreen, ScreenInv, PlacesOK, ComesBack
<1>2. ASSUME NEW f \in Faces, Turn(f) PROVE ScreenInv'
  BY <1>2, TurnKeeps
<1>3. CASE UNCHANGED screenVars
  BY <1>3 DEF screenVars, ScreenInv, PlacesOK, ComesBack
<1> QED
  BY <1>1, <1>2, <1>3 DEF ScreenNext

(* For every console, number of faces and speed, a face that left the
   console is back after its next move (the reversal in BounceProc). *)
THEOREM FacesComeBack == ScreenSpec => []ComesBack
<1>1. ScreenInv => ComesBack
  BY DEF ScreenInv
<1> QED
  BY <1>1, ScreenStarts, ScreenKeeps, PTL DEF ScreenSpec

(* What NoTrail needs to be inductive, for the drawing of MThread01: a cell
   that is not blank looks like one of the faces that were drawn there last,
   so that this face, on its next turn, finds itself still there. *)
Tidy ==
  /\ mark \in [Console -> Int] /\ colour \in [Console -> Int]
  /\ \A f \in Faces : look[f].clean
  /\ \A p \in Console : mark[p] # BlankCell =>
       \E f \in Faces : old[f] = p /\ look[f].cell = mark[p] /\ look[f].attrib = colour[p]

TrailInv ==
  /\ PlacesOK
  /\ look \in [Faces -> [cell : Int, attrib : Int, clean : BOOLEAN]]
  /\ drawing = "MThread01" => Tidy

(* The console starts tidy. *)
LEMMA TrailStarts == ScreenInit => TrailInv
<1> SUFFICES ASSUME ScreenInit PROVE TrailInv
  OBVIOUS
<1>1. PlacesOK
  BY ScreenStarts DEF ScreenInv
<1>2. drawing = "MThread01" => Tidy
  BY DEF ScreenInit, Tidy, BlankCell, Grey
<1>3. ASSUME NEW i \in Ids, NEW j \in Ids, NEW b \in BOOLEAN
      PROVE  [cell |-> IF i > 16 THEN 1 ELSE 2, attrib |-> j % 16, clean |-> b]
               \in [cell : Int, attrib : Int, clean : BOOLEAN]
  <2>1. j \in Int
    BY ScreenAssumption
  <2>2. j % 16 \in Int
    BY <2>1
  <2> QED
    BY <2>2
<1>4. Looks \subseteq [cell : Int, attrib : Int, clean : BOOLEAN]
  BY <1>3 DEF Looks
<1> QED
  BY <1>1, <1>2, <1>4 DEF ScreenInit, TrailInv

(* A turn of MThread01 takes its own face off before it draws the next. *)
LEMMA TrailTurn ==
  ASSUME PlacesOK, Tidy, NEW f \in Faces, Turn(f), drawing = "MThread01",
         look \in [Faces -> [cell : Int, attrib : Int, clean : BOOLEAN]]
  PROVE  Tidy'
<1> DEFINE b == blanked(f)
<1>0. look[f].clean /\ look' = look /\ drawing' = drawing
  BY DEF Tidy, Turn
<1>1. /\ old \in [Faces -> Spots] /\ old'[f] = at[f]
      /\ \A g \in Faces : g # f => old'[g] = old[g]
  BY DEF PlacesOK, Turn, move
<1>2. /\ b \in [Console -> Int]
      /\ \A p \in Console : b[p] # BlankCell =>
           /\ b[p] = mark[p]
           /\ ~(old[f] = p /\ mark[p] = look[f].cell /\ colour[p] = look[f].attrib)
  BY <1>0 DEF Tidy, blanked, still_there, BlankCell
<1> HIDE DEF b
<1>3. ASSUME NEW p \in Console, b[p] # BlankCell
      PROVE  \E g \in Faces : /\ g # f /\ old[g] = p
                              /\ look[g].cell = b[p] /\ look[g].attrib = colour[p]
  BY <1>2, <1>3 DEF Tidy
<1>4. CASE at[f] \notin Console
  <2>1. mark' = b /\ colour' = colour
    BY <1>4 DEF Turn, draw, b
  <2> QED
    BY <1>0, <1>1, <1>2, <1>3, <2>1 DEF Tidy
<1>5. CASE at[f] \in Console
  <2>1. /\ mark' = [b EXCEPT ![at[f]] = look[f].cell]
        /\ colour' = [colour EXCEPT ![at[f]] = look[f].attrib]
    BY <1>5 DEF Turn, draw, b
  <2>2. mark' \in [Console -> Int] /\ colour' \in [Console -> Int]
    BY <1>2, <2>1 DEF Tidy
  <2>3. ASSUME NEW p \in Console, mark'[p] # BlankCell
        PROVE  \E g \in Faces : /\ old'[g] = p /\ look[g].cell = mark'[p]
                                /\ look[g].attrib = colour'[p]
    <3>1. CASE p = at[f]
      BY <1>1, <1>2, <2>1, <3>1 DEF Tidy
    <3>2. CASE p # at[f]
      <4>1. mark'[p] = b[p] /\ colour'[p] = colour[p]
        BY <1>2, <2>1, <3>2 DEF Tidy
      <4> QED
        BY <1>1, <1>3, <2>3, <4>1
    <3> QED
      BY <3>1, <3>2
  <2> QED
    BY <1>0, <2>2, <2>3 DEF Tidy
<1> QED
  BY <1>4, <1>5

(* Every step keeps the console tidy. *)
LEMMA TrailKeeps == TrailInv /\ [ScreenNext]_screenVars => TrailInv'
<1> SUFFICES ASSUME TrailInv, [ScreenNext]_screenVars PROVE TrailInv'
  OBVIOUS
<1>1. CASE ClearScreen
  BY <1>1 DEF ClearScreen, TrailInv, PlacesOK, Tidy, BlankCell
<1>2. ASSUME NEW f \in Faces, Turn(f) PROVE TrailInv'
  <2>1. PlacesOK'
    BY <1>2, TurnPlaces DEF TrailInv
  <2>2. look' = look /\ drawing' = drawing
    BY <1>2 DEF Turn
  <2>3. drawing = "MThread01" => Tidy'
    BY <1>2, TrailTurn DEF TrailInv
  <2> QED
    BY <2>1, <2>2, <2>3 DEF TrailInv
<1>3. CASE UNCHANGED screenVars
  BY <1>3 DEF screenVars, TrailInv, PlacesOK, Tidy
<1> QED
  BY <1>1, <1>2, <1>3 DEF ScreenNext

(* MThread01's draw, which blanks the old place only if it still shows this
   very face, leaves nothing behind, however often faces cross each other. *)
THEOREM NothingLeftBehind == ScreenSpec => []NoTrail
<1>1. TrailInv => NoTrail
  BY DEF TrailInv, Tidy, NoTrail
<1> QED
  BY <1>1, TrailStarts, TrailKeeps, PTL DEF ScreenSpec
=============================================================================
