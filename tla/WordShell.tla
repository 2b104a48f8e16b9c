------------------------------ MODULE WordShell ------------------------------
(***************************************************************************)
(* The command loop of Project1/FileTransMain.cpp, which keeps words in a  *)
(* List used as a stack: add, madd, remove and exit.  A line with several  *)
(* words, or one to be added several times, is as many insertions.         *)
(***************************************************************************)
EXTENDS MyList, FiniteSets

CONSTANTS
  Words,
  MaxAdds \* bound: insertions that are tried

ASSUME ShellAssumption == MaxAdds \in Nat

VARIABLES
  shell,    \* "run", "end", "crash": no memory in add, "overrun": no element in remove
  held,     \* the blocks of words that are allocated
  word,     \* the word in each
  removing, \* what is left of the loop of remove
  adds,     \* for MaxAdds
  typed,    \* ghost: the words that were added and not removed, the newest first
  forgotten \* ghost: the blocks whose only pointer is gone

shellVars == <<shell, held, word, removing, adds, typed, forgotten>>
wordsVars == <<listVars, shellVars>>

ShellInit ==
  /\ list_init
  /\ shell = "run" /\ held = {} /\ word = [b \in Blocks |-> "none"]
  /\ removing = 0 /\ adds = 0 /\ typed = <<>> /\ forgotten = {}

AtPrompt == shell = "run" /\ removing = 0
Adds == AtPrompt /\ adds < MaxAdds /\ adds' = adds + 1

(* A word is copied to a block of its own and put in front. *)
NewWord(w, b, n) ==
  /\ Adds /\ b \in Blocks \ held
  /\ list_ins_next(NULL, b, n)
  /\ held' = held \cup {b} /\ word' = [word EXCEPT ![b] = w]
  /\ typed' = <<w>> \o typed
  /\ UNCHANGED <<shell, removing, forgotten>>

(* add: no test of what malloc returns; and when list_ins_next has no memory
   the loop ends, and so will the program, without freeing the block. *)
AddNoMemory ==
  /\ Adds /\ shell' = "crash"
  /\ UNCHANGED <<listVars, held, word, removing, typed, forgotten>>

AddFails(w, b) ==
  /\ Adds /\ b \in Blocks \ held
  /\ held' = held \cup {b} /\ word' = [word EXCEPT ![b] = w]
  /\ forgotten' = forgotten \cup {b} /\ shell' = "end"
  /\ UNCHANGED <<listVars, removing, typed>>

(* madd: no memory for the block, or none for the element and the block is
   freed again; either ends the program. *)
MaddFails ==
  /\ Adds /\ shell' = "end"
  /\ UNCHANGED <<listVars, held, word, removing, typed, forgotten>>

(* How many remove is to take: 1 if it has no argument, the number given or
   all of them if confirmed, else none. *)
remove_counts == 0..(size + 2)

(* Mutant: off by one. *)
too_many_late(cnt) == cnt > size + 1
(* if (cnt > list_size(&lp)) continue; *)
too_many(cnt) == cnt > size

RemoveWords(cnt) ==
  /\ AtPrompt /\ cnt > 0 /\ ~too_many(cnt)
  /\ removing' = cnt
  /\ UNCHANGED <<listVars, shell, held, word, adds, typed, forgotten>>

(* One turn of its loop: print the word, free it.  Without an element, data
   is not set and both use it. *)
RemoveWord ==
  /\ shell = "run" /\ removing > 0
  /\ removing' = removing - 1
  /\ IF can_rem_next(NULL)
     THEN /\ held' = held \ {data[head]}
          /\ list_rem_next(NULL)
          /\ typed' = Tail(typed) /\ UNCHANGED shell
     ELSE shell' = "overrun" /\ UNCHANGED <<listVars, held, typed>>
  /\ UNCHANGED <<word, adds, forgotten>>

(* exit, the end of the input, or no memory for the answer to remove *)
Exit ==
  /\ AtPrompt /\ shell' = "end"
  /\ UNCHANGED <<listVars, held, word, removing, adds, typed, forgotten>>

ShellNext ==
  \/ \E w \in Words, b \in Blocks :
       AddFails(w, b) \/ \E n \in Nodes : NewWord(w, b, n)
  \/ \E cnt \in remove_counts : RemoveWords(cnt)
  \/ AddNoMemory \/ MaddFails \/ RemoveWord \/ Exit

ShellSpec == ShellInit /\ [][ShellNext]_wordsVars
-----------------------------------------------------------------------------
(* The stack holds the words that were typed, the newest first, each in a
   block of its own that no other owns; the loop of remove always finds an
   element; and only an add that fails, which ends the program, forgets one
   block. *)
WordsKept ==
  /\ Len(order) = Len(typed) /\ removing <= size /\ shell # "overrun"
  /\ \A i \in 1..Len(order) : word[data[order[i]]] = typed[i]
  /\ held = {data[n] : n \in nodes} \cup forgotten
  /\ Cardinality(held) = size + Cardinality(forgotten)
  /\ forgotten # {} => shell = "end" /\ Cardinality(forgotten) = 1
=============================================================================
