-------------------------------- MODULE Lifo --------------------------------
(***************************************************************************)
(* What include/passgen/container/stack.h promises of a stack: elements    *)
(* are put on top and taken off the top, in a sequence of any length.      *)
(***************************************************************************)
EXTENDS Integers, Sequences

CONSTANTS
  Values,   \* what an element may hold
  None      \* what is returned for an element that is not there

VARIABLES
  items,    \* the elements, the top one last
  popped    \* the element last taken off, None if there was none

lifoVars == <<items, popped>>

Init ==
  /\ items = <<>>
  /\ popped = None

Push(v) ==
  /\ items' = Append(items, v)
  /\ UNCHANGED popped

Pop ==
  IF items = <<>>
    THEN popped' = None /\ UNCHANGED items
    ELSE /\ popped' = items[Len(items)]
         /\ items' = SubSeq(items, 1, Len(items) - 1)

Clear == Init'

Next == (\E v \in Values : Push(v)) \/ Pop \/ Clear

Spec == Init /\ [][Next]_lifoVars
=============================================================================
