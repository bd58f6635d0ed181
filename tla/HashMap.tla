------------------------------ MODULE HashMap -------------------------------
(***************************************************************************)
(* The two-way hash map of src/container/hashmap.c.  Every key has two     *)
(* slots it may live in, its two hashes modulo the capacity.  An insertion *)
(* that finds neither usable reallocates the table and starts over; the    *)
(* reallocation re-inserts every old entry through the same function and   *)
(* may itself have to reallocate, so insertions and copies nest.           *)
(*                                                                         *)
(* The C call stack is kept in two sequences: pending holds the entry of   *)
(* each passgen_hashmap_insert() that is running, the client's first;      *)
(* moving holds the table each passgen_hashmap_realloc() is copying from.  *)
(* Calls alternate, so the insertion is on top when pending is the longer  *)
(* of the two and the copy is on top when they are equally long.           *)
(***************************************************************************)
EXTENDS Integers, Sequences, FiniteSets

CONSTANTS
  Keys, Vals,
  Empty,        \* the unoccupied slot, { NULL, NULL }
  Sizes,        \* hashmap_sizes, the capacities tried in turn
  HashFamily    \* the pairs of hash functions the context may compute

Entry == [key : Keys, value : Vals]

ASSUME EmptyAssumption == Empty \notin Entry
ASSUME SizesAssumption == Sizes \in Seq(Nat \ {0}) /\ Sizes # <<>>
ASSUME HashAssumption == HashFamily \subseteq [Keys -> [1..2 -> Nat]]

VARIABLES
  hash,       \* the context's two hashes of every key; fixed
  data,       \* the slots 0 .. capacity-1
  capacity,
  len,
  pending,    \* entries of the running insertions, the client's first
  moving,     \* tables being copied: [cap, tab, next], the oldest first
  returned    \* what the client's last operation returned

vars == <<hash, data, capacity, len, pending, moving, returned>>

Table(c) == [0..c-1 -> Entry \union {Empty}]

\* The local variables of passgen_hashmap_realloc: the old table and the loop's
\* index into it.
Frame(c) == [cap : {c}, tab : Table(c), next : 0..c]

-----------------------------------------------------------------------------
(* Slots.                                                                  *)

Pos(k, n) == hash[k][n] % capacity

Free(p) == data[p] = Empty

Holds(p, k) == ~Free(p) /\ data[p].key = k

\* The slot passgen_hashmap_move tries: it is the second one only if the
\* occupant sits in its first.
OtherPos(p) ==
  LET k == data[p].key IN IF Pos(k, 1) = p THEN Pos(k, 2) ELSE Pos(k, 1)

Movable(p) == ~Free(p) /\ Free(OtherPos(p))

\* An insertion of k settles on slot p if it is free, holds k, or can be vacated.
Usable(p, k) == Free(p) \/ Holds(p, k) \/ Movable(p)

Candidates(k) == {n \in 1..2 : Usable(Pos(k, n), k)}

\* The slot an insertion of k settles on: the first one if usable.
Target(k) == IF 1 \in Candidates(k) THEN Pos(k, 1) ELSE Pos(k, 2)

\* Mutant: the capacity stays what it is.
NextCapacitySame == capacity

\* next_capacity: one table size further, or nearly twice the capacity once
\* the sizes are used up.
NextCapacity ==
  LET fits == {i \in 1..Len(Sizes) : Sizes[i] >= capacity}
      next == {i \in fits : i < Len(Sizes) /\ \A j \in fits : i <= j}
  IN  IF next # {} THEN Sizes[(CHOOSE i \in next : TRUE) + 1] ELSE 2 * capacity - 1

-----------------------------------------------------------------------------
Idle == pending = <<>>

Inserting == Len(pending) = Len(moving) + 1

Copying == ~Idle /\ Len(pending) = Len(moving)

Top(s) == s[Len(s)]

Pop(s) == SubSeq(s, 1, Len(s) - 1)

Stored == {data[p] : p \in {q \in 0..capacity-1 : ~Free(q)}}

\* The slots of the table being copied on level i that are still to be visited.
Rest(i) == {j \in 0..moving[i].cap-1 :
              j >= moving[i].next /\ moving[i].tab[j] # Empty}

InTransit ==
  {pending[i] : i \in 2..Len(pending)}
    \union UNION {{moving[i].tab[j] : j \in Rest(i)} : i \in 1..Len(moving)}

Contains(k) == \E e \in Stored : e.key = k

-----------------------------------------------------------------------------
Init ==
  /\ hash \in HashFamily
  /\ data = [p \in 0..-1 |-> Empty]
  /\ capacity = 0
  /\ len = 0
  /\ pending = <<>>
  /\ moving = <<>>
  /\ returned = Empty

\* The client calls passgen_hashmap_insert(k, v).
Insert(k, v) ==
  /\ Idle
  /\ pending' = <<[key |-> k, value |-> v]>>
  /\ UNCHANGED <<hash, data, capacity, len, moving, returned>>

\* The top insertion returns; only the client's call passes a value on, the
\* copy loop drops what its insertions return.
Return(entry) ==
  /\ pending' = Pop(pending)
  /\ returned' = IF Len(pending) = 1 THEN entry ELSE returned
  /\ UNCHANGED <<hash, capacity, moving>>

InsertPlace ==
  /\ Inserting /\ capacity # 0
  /\ LET e == Top(pending)
         p == Target(e.key)
     IN  /\ Candidates(e.key) # {} /\ Free(p)
         /\ data' = [data EXCEPT ![p] = e]
         /\ len' = len + 1
         /\ Return(Empty)

InsertReplace ==
  /\ Inserting /\ capacity # 0
  /\ LET e == Top(pending)
         p == Target(e.key)
     IN  /\ Candidates(e.key) # {} /\ Holds(p, e.key)
         /\ data' = [data EXCEPT ![p] = e]
         /\ len' = len
         /\ Return(data[p])

InsertDisplace ==
  /\ Inserting /\ capacity # 0
  /\ LET e == Top(pending)
         p == Target(e.key)
     IN  /\ Candidates(e.key) # {} /\ ~Free(p) /\ ~Holds(p, e.key)
         /\ data' = [data EXCEPT ![OtherPos(p)] = data[p], ![p] = e]
         /\ len' = len + 1
         /\ Return(Empty)

\* Mutant: realloc(3) in place of the copy loop: the entries keep their slots.
ReallocVerbatim(c) ==
  /\ data' = [p \in 0..c-1 |-> IF p < capacity THEN data[p] ELSE Empty]
  /\ capacity' = c
  /\ UNCHANGED <<hash, len, moving, pending, returned>>

\* Mutant: the copy loop starts at slot 1.
ReallocSkipsFirst(c) ==
  /\ data' = [p \in 0..c-1 |-> Empty]
  /\ capacity' = c
  /\ len' = 0
  /\ moving' = Append(moving, [cap |-> capacity, tab |-> data,
                              next |-> IF capacity = 0 THEN 0 ELSE 1])
  /\ UNCHANGED <<hash, pending, returned>>

\* passgen_hashmap_realloc starts: an empty table of c slots, the old one is
\* copied from its first slot on.
Realloc(c) ==
  /\ data' = [p \in 0..c-1 |-> Empty]
  /\ capacity' = c
  /\ len' = 0
  /\ moving' = Append(moving, [cap |-> capacity, tab |-> data, next |-> 0])
  /\ UNCHANGED <<hash, pending, returned>>

InsertAllocate == Inserting /\ capacity = 0 /\ Realloc(Sizes[1])

InsertGrow ==
  /\ Inserting /\ capacity # 0
  /\ Candidates(Top(pending).key) = {}
  /\ Realloc(NextCapacity)

\* The copy loop re-inserts the next occupied slot of the old table.
CopyEntry ==
  /\ Copying
  /\ LET top == Len(moving) IN
     \E i \in Rest(top) :
       /\ \A j \in Rest(top) : i <= j
       /\ pending' = Append(pending, moving[top].tab[i])
       /\ moving' = [moving EXCEPT ![top].next = i + 1]
  /\ UNCHANGED <<hash, data, capacity, len, returned>>

\* The copy loop ends and the old table is freed; the insertion that asked for
\* the room starts over.
CopyDone ==
  /\ Copying
  /\ Rest(Len(moving)) = {}
  /\ moving' = Pop(moving)
  /\ UNCHANGED <<hash, data, capacity, len, pending, returned>>

\* The slot passgen_hashmap_remove empties: the first one if it holds k.
RemovalSlot(k) ==
  IF Holds(Pos(k, 1), k) THEN Pos(k, 1) ELSE Pos(k, 2)

RemoveFound(k) ==
  /\ Idle /\ capacity # 0
  /\ LET p == RemovalSlot(k)
     IN  /\ Holds(p, k)
         /\ data' = [data EXCEPT ![p] = Empty]
         /\ returned' = data[p]
  /\ len' = len - 1
  /\ UNCHANGED <<hash, capacity, pending, moving>>

RemoveMissing(k) ==
  /\ Idle /\ capacity # 0
  /\ ~Holds(RemovalSlot(k), k)
  /\ returned' = Empty
  /\ UNCHANGED <<hash, data, capacity, len, pending, moving>>

\* passgen_hashmap_free followed by passgen_hashmap_init.
Reset ==
  /\ Idle
  /\ data' = [p \in 0..-1 |-> Empty]
  /\ capacity' = 0
  /\ len' = 0
  /\ returned' = Empty
  /\ UNCHANGED <<hash, pending, moving>>

InsertStep ==
  InsertPlace \/ InsertReplace \/ InsertDisplace \/ InsertAllocate \/ InsertGrow
    \/ CopyEntry \/ CopyDone

Next ==
  \/ \E k \in Keys, v \in Vals : Insert(k, v)
  \/ InsertStep
  \/ \E k \in Keys : RemoveFound(k) \/ RemoveMissing(k)
  \/ Reset

Spec == Init /\ [][Next]_vars

(***************************************************************************)
(* An insertion never looks at the second slot of a key when the first is  *)
(* usable.  So the clients the map is correct for are careful: they insert *)
(* a key that is new, or one that sits where the insertion will settle.    *)
(* The code does not ask for this, and the callers do not see to it.       *)
(***************************************************************************)
Careful(k) == Contains(k) => Holds(Target(k), k)

CarefulInsert(k, v) == Careful(k) /\ Insert(k, v)

CarefulNext ==
  \/ \E k \in Keys, v \in Vals : CarefulInsert(k, v)
  \/ InsertStep
  \/ \E k \in Keys : RemoveFound(k) \/ RemoveMissing(k)
  \/ Reset

CarefulSpec == Init /\ [][CarefulNext]_vars

\* A call runs to its end: nothing suspends it.
FairCarefulSpec == CarefulSpec /\ WF_vars(InsertStep)

-----------------------------------------------------------------------------
TypeOK ==
  /\ hash \in HashFamily
  /\ capacity \in Nat
  /\ data \in Table(capacity)
  /\ len \in Nat
  /\ pending \in Seq(Entry)
  /\ moving \in Seq({moving[i] : i \in 1..Len(moving)})
  /\ \A i \in 1..Len(moving) :
       moving[i].cap \in Nat /\ moving[i] \in Frame(moving[i].cap)
  /\ returned \in Entry \union {Empty}

\* Every entry sits in one of its two slots, whatever moved or grew: a lookup,
\* which probes only those, can find it.
Placed ==
  \A p \in 0..capacity-1 :
    ~Free(p) => \E n \in 1..2 : Pos(data[p].key, n) = p

\* len counts the occupied slots (passgen_hashmap_foreach trusts len # 0), also
\* in the middle of a reallocation.
LenExact == len = Cardinality({p \in 0..capacity-1 : ~Free(p)})

\* passgen_hashmap_lookup: what a probe of the two slots finds.
Lookup(k) ==
  IF capacity = 0 THEN Empty
  ELSE IF Holds(Pos(k, 1), k) THEN data[Pos(k, 1)]
  ELSE IF Holds(Pos(k, 2), k) THEN data[Pos(k, 2)]
  ELSE Empty

\* The dictionary the table stands for: what is stored, and what a reallocation
\* has taken out of the old table and not yet put into the new one.
Contents ==
  LET all == Stored \union InTransit
  IN  [k \in Keys |->
         IF \E e \in all : e.key = k THEN CHOOSE e \in all : e.key = k ELSE Empty]

Dict == INSTANCE Dictionary WITH dict <- Contents, result <- returned

\* For a careful client the map implements the dictionary: growth and displacement
\* are invisible, no entry is lost, duplicated or brought back, and every operation
\* returns the entry it replaced or removed.
ImplementsDictionary == Dict!Spec

\* For a careful client, a lookup between operations finds what the dictionary holds.
LookupAgrees == Idle => \A k \in Keys : Lookup(k) = Contents[k]

\* Every insertion returns: reallocation does not chase its own tail.
InsertionReturns == ~Idle ~> Idle

\* hashmap.h: an insertion returns the previous entry of the same key.
InsertReturnsPrevious ==
  [][~Idle /\ Idle' => returned' = Contents[pending[1].key]]_vars
=============================================================================
