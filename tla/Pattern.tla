------------------------------ MODULE Pattern -------------------------------
(***************************************************************************)
(* The data structure of src/pattern: a tree of groups, which consist of   *)
(* segments, which consist of items.  The parser builds it, the generator  *)
(* walks it.                                                               *)
(*                                                                         *)
(* A group is named by its place in the tree: the root by <<>>, the group  *)
(* that is item i of segment s of group g by g followed by s and i.        *)
(***************************************************************************)
EXTENDS Codepoints, SequencesExt

CONSTANT
  Word        \* size_t holds 0..Word-1

ASSUME WordAssumption == Word \in Nat /\ Word > 1

VARIABLE
  groups      \* the pattern: its groups by their place

-----------------------------------------------------------------------------
\* passgen_pattern_item_init; the fields that its kind does not use stay empty.
NewItem(kind) ==
  [kind |-> kind, chars |-> <<>>, tainted |-> FALSE, ranges |-> <<>>,
   choices |-> <<>>, letter |-> 0, min |-> 1, max |-> 1, maybe |-> FALSE]

NewSegment == [items |-> <<>>, multiplier |-> 1]

\* A group with the segment the parser appends to it at once.
NewGroup == [segments |-> <<NewSegment>>, sum |-> 1]

MaxChars == 7   \* codepoints one literal holds

\* passgen_pattern_group_segment_append
WithSegment(group) ==
  [segments |-> Append(group.segments, NewSegment), sum |-> (group.sum + 1) % Word]

\* passgen_pattern_group_finish: a group whose segments are all empty is marked.
Finished(group) ==
  IF \A i \in DOMAIN group.segments : group.segments[i].items = <<>>
    THEN [group EXCEPT !.sum = 0] ELSE group

\* The heap h without the group at p and those in it.
Without(h, p) == [q \in {r \in DOMAIN h : ~IsPrefix(p, r)} |-> h[q]]
=============================================================================
