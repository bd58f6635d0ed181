----------------------------- MODULE Dictionary -----------------------------
(***************************************************************************)
(* What include/passgen/container/hashmap.h promises of a hash map: a      *)
(* dictionary from keys to entries.  An insertion returns the entry it     *)
(* replaces, a removal the entry it removes, and either one returns the    *)
(* empty entry when the key was not there.                                 *)
(***************************************************************************)
CONSTANTS
  Keys,    \* keys, compared by the context's equal()
  Vals,    \* values stored under them
  Empty    \* the entry whose key is NULL

VARIABLES
  dict,    \* the entry stored under each key, Empty if there is none
  result   \* what the last operation returned

Entry == [key : Keys, value : Vals]

dictVars == <<dict, result>>

Init ==
  /\ dict = [k \in Keys |-> Empty]
  /\ result = Empty

Insert(k, v) ==
  /\ result' = dict[k]
  /\ dict' = [dict EXCEPT ![k] = [key |-> k, value |-> v]]

Remove(k) ==
  /\ result' = dict[k]
  /\ dict' = [dict EXCEPT ![k] = Empty]

Clear == Init'

Next ==
  \/ \E k \in Keys, v \in Vals : Insert(k, v)
  \/ \E k \in Keys : Remove(k)
  \/ Clear

Spec == Init /\ [][Next]_dictVars
=============================================================================
