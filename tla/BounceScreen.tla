---------------------------- MODULE BounceScreen -----------------------------
(***************************************************************************)
(* What the threads of the bouncing-face programs do to the console: a     *)
(* face has a place and a direction, is blanked where it was, drawn where  *)
(* it is, and moved.  The screen mutex makes a turn one step (OneWriter of *)
(* module Bounce).  A call with a place that is not on the console fails   *)
(* and changes nothing.                                                    *)
(***************************************************************************)
EXTENDS Integers

CONSTANTS
  Drawings, \* the programs whose drawing is looked at
  Faces,    \* the threads
  Ids,      \* the values of threadNr that a thread may find behind pMyID
  SizeX, SizeY, \* csbiInfo.dwSize
  MaxDelta  \* 3 in getrandom(-3, 3)

ASSUME ScreenAssumption ==
  /\ Drawings \subseteq {"MThread01", "Main01", "MThread02"}
  /\ Ids \subseteq 1..32
  /\ SizeX \in Nat \ {0} /\ SizeY \in Nat \ {0} /\ MaxDelta \in Nat
  /\ SizeX + MaxDelta < 2^15 /\ SizeY + MaxDelta < 2^15 \* a COORD is two SHORTs

VARIABLES
  drawing, \* the program that runs
  mark,    \* the character of each cell
  colour,  \* its attribute
  look,    \* MyCell and MyAttrib of each face
  at, delta, old \* Coords, Delta and Old of each face

screenVars == <<drawing, mark, colour, look, at, delta, old>>

Console == (0..(SizeX - 1)) \X (0..(SizeY - 1))
Deltas == (-MaxDelta)..MaxDelta
BlankCell == 32 \* 0x20
Grey == 7   \* the attribute the console starts with

(* The id is read once for the shape and once for the colour, through a
   pointer to a counter that other threads change.  MThread02 reads one
   byte into oldAttrb, whose other byte is clean only by chance. *)
Looks ==
  {[cell |-> IF i > 16 THEN 1 ELSE 2, attrib |-> j % 16, clean |-> b] :
     i, j \in Ids, b \in BOOLEAN}

ScreenInit ==
  /\ drawing \in Drawings
  /\ mark = [p \in Console |-> BlankCell] /\ colour = [p \in Console |-> Grey]
  /\ look \in [Faces -> Looks]
  /\ drawing # "MThread02" => \A f \in Faces : look[f].clean
  /\ at \in [Faces -> Console] /\ delta \in [Faces -> Deltas \X Deltas]
  /\ old = [f \in Faces |-> <<0, 0>>]

(* Is the face still where it was?  Main01 and MThread02 read the character
   where they mean the attribute. *)
still_there(f) ==
  /\ old[f] \in Console
  /\ mark[old[f]] = look[f].cell /\ look[f].clean
  /\ (IF drawing = "MThread01" THEN colour ELSE mark)[old[f]] = look[f].attrib

(* Mutant: the old place is left as it is. *)
blanked_not(f) == mark
(* "If we still occupy the old screen position, blank it out." *)
blanked(f) == IF still_there(f) THEN [mark EXCEPT ![old[f]] = BlankCell] ELSE mark

(* They also write the attribute as a character, over the face. *)
draw(f) ==
  IF at[f] \notin Console THEN mark' = blanked(f) /\ UNCHANGED colour
  ELSE IF drawing = "MThread01"
  THEN /\ mark' = [blanked(f) EXCEPT ![at[f]] = look[f].cell]
       /\ colour' = [colour EXCEPT ![at[f]] = look[f].attrib]
  ELSE /\ mark' = [blanked(f) EXCEPT ![at[f]] = look[f].attrib]
       /\ UNCHANGED colour

(* Mutant: a column too many. *)
off_x_late(x) == x < 0 \/ x > SizeX
(* "If we are about to go off the screen, reverse direction" *)
off_x(x) == x < 0 \/ x >= SizeX
off_y(y) == y < 0 \/ y > SizeY

move(f) ==
  LET x == at[f][1] + delta[f][1]
      y == at[f][2] + delta[f][2]
  IN  /\ old' = [old EXCEPT ![f] = at[f]]
      /\ at' = [at EXCEPT ![f] = <<x, y>>]
      /\ delta' = [delta EXCEPT ![f] = <<IF off_x(x) THEN -@[1] ELSE @[1],
                                        IF off_y(y) THEN -@[2] ELSE @[2]>>]

(* One turn of BounceProc's loop. *)
Turn(f) == draw(f) /\ move(f) /\ UNCHANGED <<drawing, look>>

(* ClearScreen, by main *)
ClearScreen ==
  /\ mark' = [p \in Console |-> BlankCell]
  /\ UNCHANGED <<drawing, colour, look, at, delta, old>>

ScreenNext == ClearScreen \/ \E f \in Faces : Turn(f)
ScreenSpec == ScreenInit /\ [][ScreenNext]_screenVars
-----------------------------------------------------------------------------
(* A face that has left the screen turns round and is back one turn later,
   however fast it is and however small the screen.  The row below the last
   one counts as screen for MThread01 and its copies. *)
ComesBack ==
  \A f \in Faces :
    /\ {at[f][1], at[f][1] + delta[f][1]} \cap (0..(SizeX - 1)) # {}
    /\ {at[f][2], at[f][2] + delta[f][2]} \cap (0..SizeY) # {}

(* MThread01 leaves nothing behind: whatever the console shows is where some
   face was drawn last, also when faces of one look meet.  (Main01 and
   MThread02 compare the attribute with a character and leave trails.) *)
NoTrail ==
  drawing = "MThread01" =>
    \A p \in Console : mark[p] # BlankCell => \E f \in Faces : old[f] = p
=============================================================================
