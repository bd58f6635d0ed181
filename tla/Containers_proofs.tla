-------------------------- MODULE Containers_proofs -------------------------
(***************************************************************************)
(* Proofs about the containers: first HashMap, for every set of keys and   *)
(* values, every table of sizes and every pair of hash functions; then     *)
(* Stack, for bins and a first allocation of any size.  The two have       *)
(* nothing to do with each other but that both are containers.             *)
(***************************************************************************)
EXTENDS HashMap, Stack, FiniteSetTheorems, SequenceTheorems, WellFoundedInduction,
        TLAPS

\* A copy loop's local variables, whatever the size of its table.
FrameSet == UNION {Frame(c) : c \in Nat}

Occupied == {p \in 0..capacity-1 : ~Free(p)}

\* TypeOK with the sequence of tables typed once and for all; len is typed by
\* LenExact, which counts a finite set.
TypeInv ==
  /\ hash \in HashFamily
  /\ capacity \in Nat
  /\ data \in Table(capacity)
  /\ pending \in Seq(Entry)
  /\ moving \in Seq(FrameSet)
  /\ returned \in Entry \union {Empty}

IInv == TypeInv /\ LenExact /\ Placed

-----------------------------------------------------------------------------
LEMMA PosInRange ==
  ASSUME TypeInv, capacity # 0, NEW k \in Keys, NEW n \in 1..2
  PROVE  Pos(k, n) \in 0..capacity-1
<1>1. hash[k][n] \in Nat
  BY HashAssumption DEF TypeInv
<1>2. capacity \in Nat /\ capacity > 0
  BY DEF TypeInv
<1> QED
  BY <1>1, <1>2 DEF Pos

LEMMA EntryAt ==
  ASSUME TypeInv, NEW p \in 0..capacity-1, ~Free(p)
  PROVE  data[p] \in Entry /\ data[p].key \in Keys
BY DEF TypeInv, Table, Free, Entry

LEMMA OtherPosInRange ==
  ASSUME TypeInv, capacity # 0, NEW p \in 0..capacity-1, ~Free(p)
  PROVE  /\ OtherPos(p) \in 0..capacity-1
         /\ \E n \in 1..2 : OtherPos(p) = Pos(data[p].key, n)
BY EntryAt, PosInRange DEF OtherPos

\* An insertion with a candidate settles on a slot of the key that is usable.
LEMMA TargetUsable ==
  ASSUME TypeInv, capacity # 0, NEW k \in Keys, Candidates(k) # {}
  PROVE  /\ Target(k) \in 0..capacity-1
         /\ Usable(Target(k), k)
         /\ \E n \in 1..2 : Target(k) = Pos(k, n)
<1>1. CASE 1 \in Candidates(k)
  BY <1>1, PosInRange DEF Target, Candidates
<1>2. CASE 1 \notin Candidates(k)
  <2>1. 2 \in Candidates(k)
    BY <1>2 DEF Candidates
  <2> QED
    BY <1>2, <2>1, PosInRange DEF Target, Candidates
<1> QED
  BY <1>1, <1>2

LEMMA OccupiedFinite ==
  ASSUME TypeInv
  PROVE  IsFiniteSet(Occupied) /\ Cardinality(Occupied) \in Nat
<1>1. IsFiniteSet(0..capacity-1)
  BY FS_Interval DEF TypeInv
<1>2. IsFiniteSet(Occupied)
  BY <1>1, FS_Subset DEF Occupied
<1> QED
  BY <1>2, FS_CardinalityType

\* A prefix of a sequence.
LEMMA Prefix ==
  ASSUME NEW S, NEW s, NEW n \in Nat, \A i \in 1..n : s[i] \in S
  PROVE  /\ SubSeq(s, 1, n) \in Seq(S)
         /\ Len(SubSeq(s, 1, n)) = n
         /\ \A i \in 1..n : SubSeq(s, 1, n)[i] = s[i]
<1>1. /\ SubSeq(s, 1, n) \in Seq(S)
      /\ Len(SubSeq(s, 1, n)) = IF 1 <= n THEN n - 1 + 1 ELSE 0
      /\ \A i \in 1..n-1+1 : SubSeq(s, 1, n)[i] = s[1+i-1]
  BY SubSeqProperties
<1>2. (IF 1 <= n THEN n - 1 + 1 ELSE 0) = n /\ n - 1 + 1 = n
  OBVIOUS
<1>3. \A i \in 1..n : 1 + i - 1 = i
  OBVIOUS
<1> QED
  BY <1>1, <1>2, <1>3, Zenon

\* The top of a non-empty sequence, and what is left below it.
LEMMA TopAndPop ==
  ASSUME NEW S, NEW s \in Seq(S), Len(s) >= 1
  PROVE  /\ Top(s) \in S
         /\ Pop(s) \in Seq(S)
         /\ Len(Pop(s)) = Len(s) - 1
         /\ \A i \in 1..Len(s)-1 : Pop(s)[i] = s[i]
<1>1. Len(s) \in Nat
  BY LenProperties
<1>2. Top(s) \in S
  BY <1>1, ElementOfSeq DEF Top
<1>3. Len(s) - 1 \in Nat /\ \A i \in 1..Len(s)-1 : s[i] \in S
  BY <1>1, ElementOfSeq
<1>4. PICK n \in Nat : n = Len(s) - 1
  BY <1>3
<1>5. \A i \in 1..n : s[i] \in S
  BY <1>3, <1>4
<1>6. /\ SubSeq(s, 1, n) \in Seq(S)
      /\ Len(SubSeq(s, 1, n)) = n
      /\ \A i \in 1..n : SubSeq(s, 1, n)[i] = s[i]
  BY <1>5, Prefix
<1> QED
  BY <1>2, <1>4, <1>6, Zenon DEF Pop

\* The running insertion's entry, and the sequence once it returns.
LEMMA TopPending ==
  ASSUME TypeInv, Inserting
  PROVE  /\ Top(pending) \in Entry
         /\ Top(pending).key \in Keys
         /\ Pop(pending) \in Seq(Entry)
<1>1. Len(pending) \in Nat /\ Len(moving) \in Nat
  BY LenProperties DEF TypeInv
<1>2. Len(pending) >= 1
  BY <1>1 DEF Inserting
<1>3. Top(pending) \in Entry /\ Pop(pending) \in Seq(Entry)
  BY <1>2, TopAndPop DEF TypeInv
<1> QED
  BY <1>3 DEF Entry

-----------------------------------------------------------------------------
(* One lemma per step: what it does to the invariant.                      *)

LEMMA PlaceStep ==
  ASSUME IInv, InsertPlace
  PROVE  IInv'
<1> DEFINE e == Top(pending)
           p == Target(e.key)
<1> USE DEF IInv
<1>1. /\ e \in Entry /\ e.key \in Keys /\ Pop(pending) \in Seq(Entry)
      /\ capacity # 0 /\ Candidates(e.key) # {} /\ Free(p)
      /\ data' = [data EXCEPT ![p] = e] /\ len' = len + 1
      /\ pending' = Pop(pending) /\ returned' \in {Empty, returned}
      /\ UNCHANGED <<hash, capacity, moving>>
  BY TopPending DEF InsertPlace, Return
<1>2. /\ p \in 0..capacity-1
      /\ \E n \in 1..2 : p = Pos(e.key, n)
  BY <1>1, TargetUsable
<1> HIDE DEF e, p
<1>3. TypeInv'
  BY <1>1, <1>2 DEF TypeInv, Table
<1>4. LenExact'
  <2>1. Occupied' = Occupied \union {p} /\ p \notin Occupied
    BY <1>1, <1>2, EmptyAssumption DEF TypeInv, Table, Occupied, Free
  <2> QED
    BY <1>1, <2>1, OccupiedFinite, FS_AddElement DEF LenExact, Occupied
<1>5. Placed'
  BY <1>1, <1>2, EmptyAssumption DEF Placed, TypeInv, Table, Free, Pos
<1> QED
  BY <1>3, <1>4, <1>5

LEMMA ReplaceStep ==
  ASSUME IInv, InsertReplace
  PROVE  IInv'
<1> DEFINE e == Top(pending)
           p == Target(e.key)
<1> USE DEF IInv
<1>1. /\ e \in Entry /\ e.key \in Keys /\ Pop(pending) \in Seq(Entry)
      /\ capacity # 0 /\ Candidates(e.key) # {} /\ Holds(p, e.key)
      /\ data' = [data EXCEPT ![p] = e] /\ len' = len
      /\ pending' = Pop(pending) /\ returned' \in {data[p], returned}
      /\ UNCHANGED <<hash, capacity, moving>>
  BY TopPending DEF InsertReplace, Return
<1>2. /\ p \in 0..capacity-1
      /\ \E n \in 1..2 : p = Pos(e.key, n)
  BY <1>1, TargetUsable
<1> HIDE DEF e, p
<1>3. TypeInv'
  BY <1>1, <1>2 DEF TypeInv, Table
<1>4. LenExact'
  <2>1. Occupied' = Occupied
    BY <1>1, <1>2, EmptyAssumption DEF TypeInv, Table, Occupied, Free, Holds
  <2> QED
    BY <1>1, <2>1 DEF LenExact, Occupied
<1>5. Placed'
  BY <1>1, <1>2, EmptyAssumption DEF Placed, TypeInv, Table, Free, Pos
<1> QED
  BY <1>3, <1>4, <1>5

LEMMA DisplaceStep ==
  ASSUME IInv, InsertDisplace
  PROVE  IInv'
<1> DEFINE e == Top(pending)
           p == Target(e.key)
           q == OtherPos(p)
           d == data[p]
<1> USE DEF IInv
<1>1. /\ e \in Entry /\ e.key \in Keys /\ Pop(pending) \in Seq(Entry)
      /\ capacity # 0 /\ Candidates(e.key) # {} /\ ~Free(p) /\ ~Holds(p, e.key)
      /\ data' = [data EXCEPT ![q] = d, ![p] = e] /\ len' = len + 1
      /\ pending' = Pop(pending) /\ returned' \in {Empty, returned}
      /\ UNCHANGED <<hash, capacity, moving>>
  BY TopPending DEF InsertDisplace, Return
<1>2. /\ p \in 0..capacity-1
      /\ Free(q)
      /\ \E n \in 1..2 : p = Pos(e.key, n)
  BY <1>1, TargetUsable DEF Usable, Movable
<1>3. /\ q \in 0..capacity-1
      /\ d \in Entry
      /\ \E n \in 1..2 : q = Pos(d.key, n)
  BY <1>1, <1>2, OtherPosInRange, EntryAt
<1>4. q # p
  BY <1>1, <1>2
<1> HIDE DEF e, p, q
<1>5. TypeInv'
  BY <1>1, <1>2, <1>3 DEF TypeInv, Table
<1>6. LenExact'
  <2>1. Occupied' = Occupied \union {q} /\ q \notin Occupied
    BY <1>1, <1>2, <1>3, <1>4, EmptyAssumption DEF TypeInv, Table, Occupied, Free
  <2> QED
    BY <1>1, <2>1, OccupiedFinite, FS_AddElement DEF LenExact, Occupied
<1>7. Placed'
  BY <1>1, <1>2, <1>3, <1>4, EmptyAssumption DEF Placed, TypeInv, Table, Free, Pos
<1> QED
  BY <1>5, <1>6, <1>7

LEMMA NextCapacityPositive ==
  ASSUME TypeInv, capacity # 0
  PROVE  NextCapacity \in Nat \ {0}
<1> DEFINE fits == {i \in 1..Len(Sizes) : Sizes[i] >= capacity}
           next == {i \in fits : i < Len(Sizes) /\ \A j \in fits : i <= j}
<1>1. capacity \in Nat /\ capacity > 0 /\ Len(Sizes) \in Nat
  BY SizesAssumption, LenProperties DEF TypeInv
<1>2. CASE next # {}
  <2>1. (CHOOSE i \in next : TRUE) \in next
    BY <1>2
  <2>2. ASSUME NEW i \in next
        PROVE  Sizes[i + 1] \in Nat \ {0}
    <3>1. i + 1 \in 1..Len(Sizes)
      BY <1>1
    <3> QED
      BY <3>1, SizesAssumption, ElementOfSeq
  <2>3. NextCapacity = Sizes[(CHOOSE i \in next : TRUE) + 1]
    BY <1>2, Zenon DEF NextCapacity
  <2> QED
    BY <2>1, <2>2, <2>3, Zenon
<1>3. CASE next = {}
  <2>1. NextCapacity = 2 * capacity - 1
    BY <1>3, Zenon DEF NextCapacity
  <2> QED
    BY <1>1, <2>1
<1> QED
  BY <1>2, <1>3

LEMMA ReallocStep ==
  ASSUME IInv, NEW c \in Nat, Realloc(c)
  PROVE  IInv'
<1> USE DEF IInv, Realloc
<1>1. data' \in Table(c) /\ Occupied' = {}
  BY DEF Table, Occupied, Free
<1>2. TypeInv'
  <2> DEFINE m == [cap |-> capacity, tab |-> data, next |-> 0]
  <2>1. m \in Frame(capacity) /\ capacity \in Nat
    BY DEF TypeInv, Frame
  <2>2. m \in FrameSet
    BY <2>1, Zenon DEF FrameSet
  <2>3. moving' \in Seq(FrameSet)
    BY <2>2, AppendProperties DEF TypeInv
  <2> QED
    BY <1>1, <2>3 DEF TypeInv
<1>3. LenExact'
  BY <1>1, FS_EmptySet DEF LenExact, Occupied
<1>4. Placed'
  BY <1>1 DEF Placed, Occupied
<1> QED
  BY <1>2, <1>3, <1>4

\* Steps that leave the table and its length alone.
LEMMA TableUnchanged ==
  ASSUME IInv, TypeInv', UNCHANGED <<hash, data, capacity, len>>
  PROVE  IInv'
BY DEF IInv, LenExact, Placed, Free, Pos

LEMMA CopyEntryStep ==
  ASSUME IInv, CopyEntry
  PROVE  IInv'
<1> DEFINE top == Len(moving)
           m == moving[top]
<1> USE DEF IInv
<1>1. PICK i \in Rest(top) :
        /\ pending' = Append(pending, m.tab[i])
        /\ moving' = [moving EXCEPT ![top].next = i + 1]
  BY DEF CopyEntry
<1>2. top \in Nat /\ top >= 1
  BY LenProperties DEF CopyEntry, Copying, Idle, TypeInv
<1>3. m \in FrameSet
  BY <1>2, ElementOfSeq DEF TypeInv
<1>4. PICK c \in Nat : m \in Frame(c)
  BY <1>3 DEF FrameSet
<1>5. i \in 0..c-1 /\ m.tab[i] \in Entry
  BY <1>4 DEF Rest, Frame, Table
<1>6. [m EXCEPT !.next = i + 1] \in FrameSet
  <2>1. [m EXCEPT !.next = i + 1] \in Frame(c)
    BY <1>4, <1>5 DEF Frame
  <2> QED
    BY <2>1, Zenon DEF FrameSet
<1>7. moving' \in Seq(FrameSet)
  <2>1. moving' = [moving EXCEPT ![top] = [m EXCEPT !.next = i + 1]]
    BY <1>1
  <2>2. top \in 1..Len(moving)
    BY <1>2
  <2> QED
    BY <1>6, <2>1, <2>2, ExceptSeq DEF TypeInv
<1>8. pending' \in Seq(Entry)
  BY <1>1, <1>5, AppendProperties DEF TypeInv
<1>9. TypeInv'
  BY <1>7, <1>8 DEF TypeInv, CopyEntry
<1> QED
  BY <1>9, TableUnchanged DEF CopyEntry

LEMMA CopyDoneStep ==
  ASSUME IInv, CopyDone
  PROVE  IInv'
<1>1. Len(moving) >= 1
  BY LenProperties DEF IInv, TypeInv, CopyDone, Copying, Idle
<1>2. Pop(moving) \in Seq(FrameSet)
  BY <1>1, TopAndPop DEF IInv, TypeInv
<1>3. TypeInv'
  BY <1>2 DEF IInv, TypeInv, CopyDone
<1> QED
  BY <1>3, TableUnchanged DEF CopyDone

LEMMA RemovalSlotInRange ==
  ASSUME TypeInv, capacity # 0, NEW k \in Keys
  PROVE  RemovalSlot(k) \in 0..capacity-1
BY PosInRange DEF RemovalSlot

LEMMA RemoveFoundStep ==
  ASSUME IInv, NEW k \in Keys, RemoveFound(k)
  PROVE  IInv'
<1> DEFINE p == RemovalSlot(k)
<1> USE DEF IInv
<1>1. /\ p \in 0..capacity-1 /\ ~Free(p)
      /\ data' = [data EXCEPT ![p] = Empty] /\ len' = len - 1
      /\ returned' = data[p]
      /\ UNCHANGED <<hash, capacity, pending, moving>>
  BY RemovalSlotInRange DEF RemoveFound, Holds
<1> HIDE DEF p
<1>2. TypeInv'
  BY <1>1 DEF TypeInv, Table
<1>3. LenExact'
  <2>1. Occupied' = Occupied \ {p} /\ p \in Occupied
    BY <1>1, EmptyAssumption DEF TypeInv, Table, Occupied, Free
  <2> QED
    BY <1>1, <2>1, OccupiedFinite, FS_RemoveElement DEF LenExact, Occupied
<1>4. Placed'
  BY <1>1 DEF Placed, TypeInv, Table, Free, Pos
<1> QED
  BY <1>2, <1>3, <1>4

LEMMA ResetStep ==
  ASSUME IInv, Reset
  PROVE  IInv'
<1>1. Occupied' = {} /\ capacity' = 0
  BY DEF Reset, Occupied
<1>2. TypeInv'
  BY DEF IInv, TypeInv, Reset, Table
<1>3. LenExact'
  BY <1>1, FS_EmptySet DEF LenExact, Occupied, Reset
<1>4. Placed'
  BY <1>1 DEF Placed
<1> QED
  BY <1>2, <1>3, <1>4 DEF IInv

-----------------------------------------------------------------------------
LEMMA InitIInv == Init => IInv
<1> SUFFICES ASSUME Init PROVE IInv
  OBVIOUS
<1>1. TypeInv
  BY DEF Init, TypeInv, Table
<1>2. LenExact
  <2>1. Occupied = {}
    BY DEF Init, Occupied
  <2> QED
    BY <2>1, FS_EmptySet DEF Init, LenExact, Occupied
<1>3. Placed
  BY DEF Init, Placed
<1> QED
  BY <1>1, <1>2, <1>3 DEF IInv

LEMMA NextIInv == IInv /\ [Next]_vars => IInv'
<1> SUFFICES ASSUME IInv, [Next]_vars PROVE IInv'
  OBVIOUS
<1>1. ASSUME NEW k \in Keys, NEW v \in Vals, Insert(k, v)
      PROVE  IInv'
  <2>1. [key |-> k, value |-> v] \in Entry
    BY DEF Entry
  <2>2. TypeInv'
    BY <1>1, <2>1 DEF Insert, IInv, TypeInv
  <2> QED
    BY <1>1, <2>2, TableUnchanged DEF Insert
<1>2. CASE InsertPlace
  BY <1>2, PlaceStep
<1>3. CASE InsertReplace
  BY <1>3, ReplaceStep
<1>4. CASE InsertDisplace
  BY <1>4, DisplaceStep
<1>5. CASE InsertAllocate
  <2>1. Sizes[1] \in Nat
    BY SizesAssumption, EmptySeq, ElementOfSeq
  <2> QED
    BY <1>5, <2>1, ReallocStep DEF InsertAllocate
<1>6. CASE InsertGrow
  BY <1>6, NextCapacityPositive, ReallocStep DEF InsertGrow, IInv
<1>7. CASE CopyEntry
  BY <1>7, CopyEntryStep
<1>8. CASE CopyDone
  BY <1>8, CopyDoneStep
<1>9. ASSUME NEW k \in Keys, RemoveFound(k)
      PROVE  IInv'
  BY <1>9, RemoveFoundStep
<1>10. ASSUME NEW k \in Keys, RemoveMissing(k)
       PROVE  IInv'
  <2>1. TypeInv'
    BY <1>10 DEF RemoveMissing, IInv, TypeInv
  <2> QED
    BY <1>10, <2>1, TableUnchanged DEF RemoveMissing
<1>11. CASE Reset
  BY <1>11, ResetStep
<1>12. CASE UNCHANGED vars
  <2>1. TypeInv'
    BY <1>12 DEF vars, IInv, TypeInv
  <2> QED
    BY <1>12, <2>1, TableUnchanged DEF vars
<1> QED
  BY <1>1, <1>2, <1>3, <1>4, <1>5, <1>6, <1>7, <1>8, <1>9, <1>10, <1>11, <1>12
     DEF Next, InsertStep

\* The invariant the run checks in a form TLC can evaluate.
LEMMA IInvTypeOK == IInv => TypeOK
<1> SUFFICES ASSUME IInv PROVE TypeOK
  OBVIOUS
<1>1. len \in Nat
  BY OccupiedFinite DEF IInv, LenExact, Occupied
<1>2. \A i \in 1..Len(moving) :
        moving[i].cap \in Nat /\ moving[i] \in Frame(moving[i].cap)
  <2> SUFFICES ASSUME NEW i \in 1..Len(moving)
               PROVE  moving[i].cap \in Nat /\ moving[i] \in Frame(moving[i].cap)
    OBVIOUS
  <2>1. moving[i] \in FrameSet
    BY ElementOfSeq DEF IInv, TypeInv
  <2>2. PICK c \in Nat : moving[i] \in Frame(c)
    BY <2>1 DEF FrameSet
  <2>3. moving[i].cap = c
    BY <2>2 DEF Frame
  <2> QED
    BY <2>2, <2>3
<1>3. moving \in Seq({moving[i] : i \in 1..Len(moving)})
  BY LenProperties, SeqDef DEF IInv, TypeInv
<1> QED
  BY <1>1, <1>2, <1>3 DEF TypeOK, IInv, TypeInv

LEMMA SpecIInv == Spec => []IInv
BY InitIInv, NextIInv, PTL DEF Spec

\* Type correctness of the map through every insertion, growth and removal.
THEOREM TypeCorrect == Spec => []TypeOK
BY SpecIInv, IInvTypeOK, PTL

\* Every entry is always in one of the two slots a lookup probes, however often
\* it was displaced or copied: passgen_hashmap_move and passgen_hashmap_realloc
\* keep the placement that passgen_hashmap_lookup relies on.
THEOREM PlacementHolds == Spec => []Placed
BY SpecIInv, PTL DEF IInv

\* len is the number of occupied slots at every moment, in the middle of a
\* nested reallocation too.
THEOREM LengthHolds == Spec => []LenExact
BY SpecIInv, PTL DEF IInv
-----------------------------------------------------------------------------
(***************************************************************************)
(* The dictionary.  An entry is in a slot, in the hands of a running       *)
(* insertion, or in a table that is being copied.  A key is in one of      *)
(* these places only, unless the client is replacing the entry of a key    *)
(* that is stored: then nothing else is running.                           *)
(***************************************************************************)
TableApart ==
  \A p, q \in Occupied : data[p].key = data[q].key => p = q

CallsApart ==
  \A i, j \in 1..Len(pending) : pending[i].key = pending[j].key => i = j

CopiesApart ==
  \A i, j \in 1..Len(moving) : \A a \in Rest(i), b \in Rest(j) :
    moving[i].tab[a].key = moving[j].tab[b].key => i = j /\ a = b

CallsOffTable ==
  \A i \in 1..Len(pending) : \A p \in Occupied : data[p].key # pending[i].key

CallsOffCopies ==
  \A i \in 1..Len(pending), j \in 1..Len(moving) : \A a \in Rest(j) :
    pending[i].key # moving[j].tab[a].key

CopiesOffTable ==
  \A j \in 1..Len(moving) : \A a \in Rest(j) : \A p \in Occupied :
    data[p].key # moving[j].tab[a].key

Fresh ==
  /\ TableApart /\ CallsApart /\ CopiesApart
  /\ CallsOffTable /\ CallsOffCopies /\ CopiesOffTable

Replacing ==
  /\ TableApart
  /\ Len(pending) = 1 /\ Len(moving) = 0 /\ capacity # 0
  /\ Holds(Target(pending[1].key), pending[1].key)

\* Insertions and copies alternate on the stack of calls.
Nested == Len(pending) \in {Len(moving), Len(moving) + 1}

Apart == Nested /\ (Fresh \/ Replacing)

LEMMA Lengths ==
  ASSUME TypeInv
  PROVE  Len(pending) \in Nat /\ Len(moving) \in Nat
BY LenProperties DEF TypeInv

\* A stored entry, and an entry in a table that is being copied.
LEMMA InSlot ==
  ASSUME TypeInv, NEW p \in Occupied
  PROVE  data[p] \in Entry /\ data[p].key \in Keys
BY EntryAt DEF Occupied

LEMMA InCopy ==
  ASSUME TypeInv, NEW i \in 1..Len(moving)
  PROVE  /\ moving[i].next \in Nat /\ moving[i].cap \in Nat
         /\ \A a \in Rest(i) : a \in Nat /\ moving[i].tab[a] \in Entry
<1>1. moving[i] \in FrameSet
  BY ElementOfSeq DEF TypeInv
<1>2. PICK c \in Nat : moving[i] \in Frame(c)
  BY <1>1 DEF FrameSet
<1> QED
  BY <1>2 DEF Rest, Frame, Table

\* What a pop leaves, in the form the proofs below use.
LEMMA PopPending ==
  ASSUME TypeInv, Inserting, pending' = Pop(pending)
  PROVE  /\ Len(pending) \in Nat /\ Len(pending) >= 1
         /\ Len(pending') = Len(pending) - 1
         /\ \A i \in 1..Len(pending)-1 : pending'[i] = pending[i]
         /\ Top(pending) = pending[Len(pending)]
<1>1. Len(pending) \in Nat /\ Len(moving) \in Nat /\ Len(pending) >= 1
  BY Lengths DEF Inserting
<1>2. /\ Len(Pop(pending)) = Len(pending) - 1
      /\ \A i \in 1..Len(pending)-1 : Pop(pending)[i] = pending[i]
  BY <1>1, TopAndPop DEF TypeInv
<1> QED
  BY <1>1, <1>2 DEF Top

LEMMA RestUnchanged ==
  ASSUME UNCHANGED moving
  PROVE  \A i : Rest(i)' = Rest(i)
BY DEF Rest

LEMMA PlaceApart ==
  ASSUME IInv, Apart, InsertPlace
  PROVE  Apart'
<1> DEFINE n == Len(pending)
           e == pending[n]
           p == Target(e.key)
<1>1. /\ n \in Nat /\ n >= 1 /\ Len(pending') = n - 1
      /\ \A i \in 1..n-1 : pending'[i] = pending[i]
      /\ Free(p) /\ p \in 0..capacity-1 /\ data' = [data EXCEPT ![p] = e]
      /\ n = Len(moving) + 1 /\ UNCHANGED <<moving, capacity>>
      /\ e \in Entry
  BY PopPending, TopPending, TargetUsable DEF InsertPlace, Return, Inserting, IInv
<1>2. ~Replacing
  <2>1. ASSUME Replacing PROVE Holds(p, e.key)
    BY <1>1, <2>1 DEF Replacing
  <2> QED
    BY <1>1, <2>1 DEF Holds
<1>3. Fresh
  BY <1>2 DEF Apart
<1>4. /\ Occupied' = Occupied \union {p} /\ p \notin Occupied
      /\ data'[p] = e /\ \A q \in Occupied : data'[q] = data[q]
  BY <1>1, EmptyAssumption DEF IInv, TypeInv, Table, Occupied, Free
<1>5. \A i : Rest(i)' = Rest(i)
  BY <1>1, RestUnchanged
<1> HIDE DEF n, e, p
<1>6. TableApart'
  BY <1>1, <1>3, <1>4 DEF Fresh, TableApart, CallsOffTable, n, e
<1>7. CallsApart' /\ CallsOffTable'
  BY <1>1, <1>3, <1>4 DEF Fresh, CallsApart, CallsOffTable, n, e
<1>8. CallsOffCopies'
  BY <1>1, <1>3, <1>5 DEF Fresh, CallsOffCopies, n
<1>9. CopiesOffTable'
  BY <1>1, <1>3, <1>4, <1>5 DEF Fresh, CallsOffCopies, CopiesOffTable, n, e
<1>10. CopiesApart'
  BY <1>1, <1>3, <1>5 DEF Fresh, CopiesApart
<1>11. Nested'
  BY <1>1, Lengths DEF Nested, n, IInv
<1> QED
  BY <1>6, <1>7, <1>8, <1>9, <1>10, <1>11 DEF Fresh, Apart

LEMMA ReplaceApart ==
  ASSUME IInv, Apart, InsertReplace
  PROVE  /\ Replacing
         /\ Apart'
<1> DEFINE n == Len(pending)
           e == pending[n]
           p == Target(e.key)
<1>1. /\ n \in Nat /\ n >= 1 /\ Len(pending') = n - 1
      /\ Holds(p, e.key) /\ p \in 0..capacity-1 /\ data' = [data EXCEPT ![p] = e]
      /\ UNCHANGED <<moving, capacity>>
      /\ e \in Entry
  BY PopPending, TopPending, TargetUsable DEF InsertReplace, Return, Inserting, IInv
<1>2. ~Fresh
  <2>1. p \in Occupied /\ data[p].key = e.key
    BY <1>1 DEF Holds, Occupied
  <2> QED
    BY <1>1, <2>1 DEF Fresh, CallsOffTable
<1>3. Replacing
  BY <1>2 DEF Apart
<1>4. /\ Occupied' = Occupied
      /\ \A q \in Occupied : data'[q].key = data[q].key
  BY <1>1, EmptyAssumption DEF IInv, TypeInv, Table, Occupied, Free, Holds
<1>5. Len(pending') = 0 /\ Len(moving') = 0
  BY <1>1, <1>3 DEF Replacing
<1>6. TableApart'
  BY <1>3, <1>4 DEF Replacing, TableApart
<1>7. CallsApart' /\ CallsOffTable' /\ CallsOffCopies' /\ CopiesOffTable' /\ CopiesApart'
  BY <1>5 DEF CallsApart, CallsOffTable, CallsOffCopies, CopiesOffTable, CopiesApart
<1> QED
  BY <1>3, <1>5, <1>6, <1>7 DEF Fresh, Apart, Nested

LEMMA DisplaceApart ==
  ASSUME IInv, Apart, InsertDisplace
  PROVE  Apart'
<1> DEFINE n == Len(pending)
           e == pending[n]
           p == Target(e.key)
           q == OtherPos(p)
           d == data[p]
<1>1. /\ n \in Nat /\ n >= 1 /\ Len(pending') = n - 1
      /\ \A i \in 1..n-1 : pending'[i] = pending[i]
      /\ ~Free(p) /\ ~Holds(p, e.key) /\ p \in 0..capacity-1
      /\ data' = [data EXCEPT ![q] = d, ![p] = e]
      /\ n = Len(moving) + 1 /\ UNCHANGED <<moving, capacity>>
      /\ e \in Entry /\ Free(q)
  BY PopPending, TopPending, TargetUsable
     DEF InsertDisplace, Return, Inserting, IInv, Usable, Movable
<1>2. q \in 0..capacity-1 /\ d \in Entry /\ q # p
  BY <1>1, OtherPosInRange, EntryAt DEF IInv
<1>3. Fresh
  <2>1. ASSUME Replacing PROVE Holds(p, e.key)
    BY <1>1, <2>1 DEF Replacing
  <2> QED
    BY <1>1, <2>1 DEF Apart
<1>4. /\ Occupied' = Occupied \union {q} /\ q \notin Occupied /\ p \in Occupied
      /\ data'[p] = e /\ data'[q] = d /\ d = data[p]
      /\ \A r \in Occupied : r # p => data'[r] = data[r]
  BY <1>1, <1>2, EmptyAssumption DEF IInv, TypeInv, Table, Occupied, Free
<1>5. \A i : Rest(i)' = Rest(i)
  BY <1>1, RestUnchanged
<1> HIDE DEF n, e, p, q, d
<1>5a. /\ n \in 1..n
       /\ \A r \in Occupied : data[r].key # e.key
       /\ \A r, t \in Occupied : data[r].key = data[t].key => r = t
  BY <1>1, <1>3 DEF Fresh, TableApart, CallsOffTable, n, e
<1>6. TableApart'
  <2> SUFFICES ASSUME NEW r \in Occupied', NEW t \in Occupied', r # t
               PROVE  data'[r].key # data'[t].key
    BY DEF TableApart
  <2>1. r \in Occupied \ {p} \/ r = p \/ r = q
    BY <1>4
  <2>2. t \in Occupied \ {p} \/ t = p \/ t = q
    BY <1>4
  <2> QED
    BY <1>4, <1>5a, <2>1, <2>2
<1>7. CallsApart'
  BY <1>1, <1>3 DEF Fresh, CallsApart, n
<1>7a. CallsOffTable'
  <2> SUFFICES ASSUME NEW i \in 1..n-1, NEW r \in Occupied'
               PROVE  data'[r].key # pending[i].key
    BY <1>1 DEF CallsOffTable
  <2>1. i \in 1..n /\ i # n
    BY <1>1
  <2>2. e.key # pending[i].key /\ \A t \in Occupied : data[t].key # pending[i].key
    BY <1>3, <2>1 DEF Fresh, CallsApart, CallsOffTable, n, e
  <2> QED
    BY <1>4, <2>2
<1>8. CallsOffCopies'
  BY <1>1, <1>3, <1>5 DEF Fresh, CallsOffCopies, n
<1>9. CopiesOffTable'
  <2> SUFFICES ASSUME NEW i \in 1..Len(moving'), NEW a \in Rest(i)', NEW r \in Occupied'
               PROVE  data'[r].key # moving'[i].tab[a].key
    BY DEF CopiesOffTable
  <2>0. moving' = moving /\ i \in 1..Len(moving) /\ a \in Rest(i)
    BY <1>1, <1>5
  <2>1. /\ e.key # moving[i].tab[a].key
        /\ \A t \in Occupied : data[t].key # moving[i].tab[a].key
    BY <1>3, <1>5a, <2>0 DEF Fresh, CallsOffCopies, CopiesOffTable, n, e
  <2> QED
    BY <1>4, <2>0, <2>1
<1>10. CopiesApart'
  BY <1>1, <1>3, <1>5 DEF Fresh, CopiesApart
<1>11. Nested'
  BY <1>1, Lengths DEF Nested, n, IInv
<1> QED
  BY <1>6, <1>7, <1>7a, <1>8, <1>9, <1>10, <1>11 DEF Fresh, Apart

LEMMA GrowNotReplacing ==
  ASSUME IInv, Inserting, Nested,
         capacity = 0 \/ Candidates(Top(pending).key) = {}
  PROVE  ~Replacing
<1> SUFFICES ASSUME Replacing PROVE FALSE
  OBVIOUS
<1> DEFINE k == pending[1].key
<1>1. Top(pending) = pending[1] /\ capacity # 0 /\ Holds(Target(k), k)
  BY DEF Replacing, Top
<1>2. Candidates(k) = {}
  BY <1>1
<1>3. Target(k) = Pos(k, 2)
  BY <1>2 DEF Target
<1>4. 2 \in Candidates(k)
  BY <1>1, <1>3 DEF Candidates, Usable
<1> QED
  BY <1>2, <1>4

LEMMA ReallocApart ==
  ASSUME IInv, Apart, Inserting, ~Replacing, NEW c \in Nat, Realloc(c)
  PROVE  Apart'
<1>0. PICK n \in Nat : n = Len(moving) + 1
  BY Lengths DEF IInv
<1>1. /\ n \in Nat /\ Len(moving') = n /\ n >= 1
      /\ \A i \in 1..n-1 : moving'[i] = moving[i]
      /\ moving'[n].cap = capacity /\ moving'[n].tab = data /\ moving'[n].next = 0
  BY <1>0, Lengths, AppendProperties DEF IInv, TypeInv, Realloc
<1>2. /\ \A i \in 1..n-1 : Rest(i)' = Rest(i)
      /\ Rest(n)' = Occupied
  <2>1. \A i \in 1..n-1 : Rest(i)' = Rest(i)
    BY <1>1 DEF Rest
  <2>2. Rest(n)' = Occupied
    <3>1. capacity \in Nat
      BY DEF IInv, TypeInv
    <3>2. Rest(n)' = {j \in 0..capacity-1 : j >= 0 /\ data[j] # Empty}
      BY <1>1, Zenon DEF Rest
    <3> QED
      BY <3>1, <3>2 DEF Occupied, Free
  <2> QED
    BY <2>1, <2>2
<1>3. Occupied' = {} /\ UNCHANGED pending
  BY DEF Realloc, Occupied, Free
<1>4. Fresh
  BY DEF Apart
<1>5. \A i \in 1..n : i \in 1..n-1 \/ i = n
  BY <1>1
<1>6. TableApart' /\ CallsOffTable' /\ CopiesOffTable' /\ CallsApart'
  BY <1>3, <1>4 DEF Fresh, TableApart, CallsOffTable, CopiesOffTable, CallsApart
<1>7. n - 1 = Len(moving) /\ 1..n-1 = 1..Len(moving)
  BY <1>0, <1>1, Lengths DEF IInv
<1>7a. ASSUME NEW j \in 1..n, NEW a \in Rest(j)'
      PROVE  \/ /\ j \in 1..Len(moving) /\ j # n /\ a \in Rest(j)
                /\ moving'[j].tab[a] = moving[j].tab[a]
             \/ j = n /\ a \in Occupied /\ moving'[j].tab[a] = data[a]
  <2>1. CASE j = n
    BY <1>1, <1>2, <2>1
  <2>2. CASE j # n
    <3>1. j \in 1..n-1
      BY <1>5, <2>2
    <3> QED
      BY <1>1, <1>2, <1>7, <2>2, <3>1
  <2> QED
    BY <2>1, <2>2
<1>8. CallsOffCopies'
  <2> SUFFICES ASSUME NEW i \in 1..Len(pending), NEW j \in 1..n, NEW a \in Rest(j)'
               PROVE  pending[i].key # moving'[j].tab[a].key
    BY <1>1, <1>3 DEF CallsOffCopies
  <2> QED
    BY <1>4, <1>7a DEF Fresh, CallsOffCopies, CallsOffTable
<1>9. CopiesApart'
  <2> SUFFICES ASSUME NEW i \in 1..n, NEW j \in 1..n, NEW a \in Rest(i)', NEW b \in Rest(j)',
                      moving'[i].tab[a].key = moving'[j].tab[b].key
               PROVE  i = j /\ a = b
    BY <1>1 DEF CopiesApart
  <2>1. CASE i # n /\ j # n
    BY <1>4, <1>7a, <2>1 DEF Fresh, CopiesApart
  <2>2. CASE i = n /\ j = n
    BY <1>4, <1>7a, <2>2 DEF Fresh, TableApart
  <2>3. CASE (i = n) # (j = n)
    BY <1>4, <1>7a, <2>3, SMTT(30) DEF Fresh, CopiesOffTable
  <2> QED
    BY <2>1, <2>2, <2>3
<1>10. Nested'
  BY <1>0, <1>1, <1>3, Lengths DEF Nested, Inserting, IInv
<1> QED
  BY <1>6, <1>8, <1>9, <1>10 DEF Fresh, Apart

\* What one turn of the copy loop takes where.
LEMMA CopyEntryEffect ==
  ASSUME IInv, CopyEntry, NEW n \in Nat, n = Len(moving), n = Len(pending), n >= 1
  PROVE  \E i \in Rest(n) :
           /\ Rest(n)' = Rest(n) \ {i}
           /\ \A j \in 1..n : j # n => Rest(j)' = Rest(j)
           /\ Len(moving') = n /\ \A j \in 1..n : moving'[j].tab = moving[j].tab
           /\ Len(pending') = n + 1 /\ pending'[n + 1] = moving[n].tab[i]
           /\ \A j \in 1..n : pending'[j] = pending[j]
<1>0. n \in 1..n /\ n = Len(moving) /\ n = Len(pending) /\ n >= 1
  OBVIOUS
<1>1. PICK i \in Rest(n) :
        /\ \A j \in Rest(n) : i <= j
        /\ pending' = Append(pending, moving[n].tab[i])
        /\ moving' = [moving EXCEPT ![n].next = i + 1]
        /\ UNCHANGED <<data, capacity>>
  BY <1>0 DEF CopyEntry
<1>2. i \in Nat /\ moving[n].next \in Nat /\ \A j \in Rest(n) : j \in Nat
  BY <1>0, InCopy DEF IInv
<1>3. /\ Len(pending') = n + 1 /\ pending'[n + 1] = moving[n].tab[i]
      /\ \A j \in 1..n : pending'[j] = pending[j]
  BY <1>0, <1>1, AppendProperties DEF IInv, TypeInv
<1>4. /\ Len(moving') = n
      /\ \A j \in 1..n : /\ moving'[j].tab = moving[j].tab
                         /\ moving'[j].cap = moving[j].cap
                         /\ j # n => moving'[j] = moving[j]
      /\ moving'[n].next = i + 1
  <2>1. /\ DOMAIN moving' = 1..n /\ moving' \in Seq(FrameSet)
        /\ moving' = [moving EXCEPT ![n] = [moving[n] EXCEPT !.next = i + 1]]
    <3>1. moving' \in Seq(FrameSet) /\ Len(moving') = Len(moving)
      <4>1. moving' \in Seq(FrameSet) /\ moving \in Seq(FrameSet)
        BY CopyEntryStep DEF IInv, TypeInv
      <4>2. DOMAIN moving' = DOMAIN moving
        BY <1>1
      <4>3. 1..Len(moving') = 1..Len(moving) /\ Len(moving') \in Nat /\ Len(moving) \in Nat
        BY <4>1, <4>2, LenProperties
      <4>4. \A a, b \in Nat : 1..a = 1..b => a = b
        <5> SUFFICES ASSUME NEW a \in Nat, NEW b \in Nat, 1..a = 1..b, a < b PROVE FALSE
          OBVIOUS
        <5>1. b \in 1..b /\ b \notin 1..a
          OBVIOUS
        <5> QED
          BY <5>1
      <4> QED
        BY <4>1, <4>3, <4>4
    <3>2. DOMAIN moving' = 1..n
      BY <1>0, <3>1, LenProperties
    <3> QED
      BY <1>1, <3>1, <3>2
  <2>2. moving[n] \in FrameSet /\ DOMAIN moving = 1..n
    <3>1. moving \in Seq(FrameSet) /\ n \in 1..Len(moving)
      BY <1>0 DEF IInv, TypeInv
    <3> QED
      BY <1>0, <3>1, ElementOfSeq, LenProperties
  <2>3. PICK c \in Nat : moving[n] \in Frame(c)
    BY <2>2 DEF FrameSet
  <2> QED
    BY <1>0, <2>1, <2>2, <2>3, LenProperties DEF Frame
<1>5. /\ \A j \in 1..n : j # n => Rest(j)' = Rest(j)
      /\ Rest(n)' = Rest(n) \ {i}
  <2>1. \A j \in 1..n : j # n => Rest(j)' = Rest(j)
    BY <1>4 DEF Rest
  <2>2. Rest(n)' = {j \in 0..moving'[n].cap-1 : j >= moving'[n].next /\ moving'[n].tab[j] # Empty}
    BY Zenon DEF Rest
  <2>3. Rest(n) = {j \in 0..moving[n].cap-1 : j >= moving[n].next /\ moving[n].tab[j] # Empty}
    BY Zenon DEF Rest
  <2>4. moving[n].cap \in Nat
    BY <1>0, InCopy DEF IInv
  <2>5. moving'[n].cap = moving[n].cap /\ moving'[n].tab = moving[n].tab /\ n \in 1..n
    BY <1>0, <1>4
  <2>6. ASSUME NEW j
        PROVE  j \in Rest(n)' <=> j \in Rest(n) /\ j # i
    BY <1>1, <1>2, <1>4, <2>2, <2>3, <2>4, <2>5
  <2>7. Rest(n)' = Rest(n) \ {i}
    BY <2>6
  <2> QED
    BY <2>1, <2>7
<1> QED
  BY <1>3, <1>4, <1>5

LEMMA CopyEntryApart ==
  ASSUME IInv, Apart, CopyEntry
  PROVE  Apart'
<1>0. PICK n \in Nat : n = Len(moving) /\ n = Len(pending) /\ n >= 1
  BY Lengths DEF IInv, CopyEntry, Copying, Idle, TypeInv
<1>1. PICK i \in Rest(n) :
        /\ Rest(n)' = Rest(n) \ {i} /\ \A j \in 1..n : j # n => Rest(j)' = Rest(j)
        /\ Len(moving') = n /\ \A j \in 1..n : moving'[j].tab = moving[j].tab
        /\ Len(pending') = n + 1 /\ pending'[n + 1] = moving[n].tab[i]
        /\ \A j \in 1..n : pending'[j] = pending[j]
  BY <1>0, CopyEntryEffect
<1>2. UNCHANGED <<data, capacity>>
  BY DEF CopyEntry
<1>6. Fresh
  BY <1>0 DEF Apart, Replacing
<1>7. \A j \in 1..n : Rest(j)' \subseteq Rest(j)
  BY <1>1
<1>8. TableApart'
  BY <1>2, <1>6 DEF Fresh, TableApart, Occupied, Free
<1>9. CallsApart'
  <2> SUFFICES ASSUME NEW j \in 1..n+1, NEW k \in 1..n+1, j < k
               PROVE  pending'[j].key # pending'[k].key
    BY <1>0, <1>1 DEF CallsApart
  <2>1. CASE k = n + 1
    <3>1. j \in 1..n
      BY <2>1
    <3> QED
      BY <1>0, <1>1, <1>6, <2>1, <3>1 DEF Fresh, CallsOffCopies
  <2>2. CASE k # n + 1
    <3>1. j \in 1..n /\ k \in 1..n
      BY <2>2
    <3> QED
      BY <1>0, <1>1, <1>6, <3>1 DEF Fresh, CallsApart
  <2> QED
    BY <2>1, <2>2
<1>10. CopiesApart'
  <2> SUFFICES ASSUME NEW j \in 1..n, NEW k \in 1..n, NEW a \in Rest(j)', NEW b \in Rest(k)',
                      moving'[j].tab[a].key = moving'[k].tab[b].key
               PROVE  j = k /\ a = b
    BY <1>1 DEF CopiesApart
  <2> QED
    BY <1>0, <1>1, <1>6, <1>7 DEF Fresh, CopiesApart
<1>11. Occupied' = Occupied
  BY <1>2 DEF Occupied, Free
<1>12. CallsOffTable'
  <2> SUFFICES ASSUME NEW j \in 1..n+1, NEW p \in Occupied
               PROVE  data[p].key # pending'[j].key
    BY <1>1, <1>2, <1>11 DEF CallsOffTable
  <2>1. CASE j = n + 1
    BY <1>0, <1>1, <1>6, <2>1 DEF Fresh, CopiesOffTable
  <2>2. CASE j \in 1..n
    BY <1>0, <1>1, <1>6, <2>2 DEF Fresh, CallsOffTable
  <2> QED
    BY <2>1, <2>2
<1>13. CallsOffCopies'
  <2> SUFFICES ASSUME NEW j \in 1..n+1, NEW k \in 1..n, NEW a \in Rest(k)'
               PROVE  pending'[j].key # moving'[k].tab[a].key
    BY <1>1 DEF CallsOffCopies
  <2>1. a \in Rest(k) /\ moving'[k].tab[a] = moving[k].tab[a] /\ (k = n => a # i)
    BY <1>1, <1>7
  <2>2. CASE j = n + 1
    BY <1>0, <1>1, <1>6, <2>1, <2>2 DEF Fresh, CopiesApart
  <2>3. CASE j \in 1..n
    BY <1>0, <1>1, <1>6, <2>1, <2>3 DEF Fresh, CallsOffCopies
  <2> QED
    BY <2>2, <2>3
<1>14. CopiesOffTable'
  <2> SUFFICES ASSUME NEW k \in 1..n, NEW a \in Rest(k)', NEW p \in Occupied
               PROVE  data[p].key # moving'[k].tab[a].key
    BY <1>1, <1>2, <1>11 DEF CopiesOffTable
  <2> QED
    BY <1>0, <1>1, <1>6, <1>7 DEF Fresh, CopiesOffTable
<1>15. Nested'
  BY <1>0, <1>1 DEF Nested
<1> QED
  BY <1>6, <1>8, <1>9, <1>10, <1>12, <1>13, <1>14, <1>15 DEF Fresh, Apart

LEMMA CopyDoneApart ==
  ASSUME IInv, Apart, CopyDone
  PROVE  Apart'
<1>0. PICK n \in Nat : n = Len(moving) /\ n = Len(pending) /\ n >= 1
  BY Lengths DEF IInv, CopyDone, Copying, Idle, TypeInv
<1>1. /\ Rest(n) = {} /\ UNCHANGED <<pending, data, capacity>>
      /\ Len(moving') = n - 1
      /\ \A j \in 1..n-1 : moving'[j] = moving[j]
  BY <1>0, TopAndPop DEF IInv, TypeInv, CopyDone
<1>2. ASSUME NEW j \in 1..n-1
      PROVE  Rest(j)' = Rest(j) /\ j \in 1..n
  <2>1. Rest(j)' = Rest(j)
    BY <1>1, <1>2, Zenon DEF Rest
  <2> QED
    BY <1>0, <2>1
<1>3. Fresh
  BY <1>0 DEF Apart, Replacing
<1>4. Occupied' = Occupied
  BY <1>1 DEF Occupied, Free
<1>5. TableApart' /\ CallsApart' /\ CallsOffTable'
  BY <1>1, <1>3, <1>4 DEF Fresh, TableApart, CallsApart, CallsOffTable
<1>6. CopiesApart'
  <2> SUFFICES ASSUME NEW i \in 1..n-1, NEW j \in 1..n-1, NEW a \in Rest(i)', NEW b \in Rest(j)',
                      moving'[i].tab[a].key = moving'[j].tab[b].key
               PROVE  i = j /\ a = b
    BY <1>1 DEF CopiesApart
  <2>1. i \in 1..n /\ j \in 1..n /\ a \in Rest(i) /\ b \in Rest(j)
    BY <1>2
  <2>2. moving'[i] = moving[i] /\ moving'[j] = moving[j]
    BY <1>1
  <2> QED
    BY <1>0, <1>3, <2>1, <2>2 DEF Fresh, CopiesApart
<1>6a. CallsOffCopies'
  <2> SUFFICES ASSUME NEW i \in 1..n, NEW j \in 1..n-1, NEW a \in Rest(j)'
               PROVE  pending[i].key # moving'[j].tab[a].key
    BY <1>0, <1>1 DEF CallsOffCopies
  <2> QED
    BY <1>0, <1>1, <1>2, <1>3 DEF Fresh, CallsOffCopies
<1>7. CopiesOffTable'
  <2> SUFFICES ASSUME NEW k \in 1..n-1, NEW a \in Rest(k)', NEW p \in Occupied
               PROVE  data[p].key # moving'[k].tab[a].key
    BY <1>1, <1>4 DEF CopiesOffTable
  <2> QED
    BY <1>0, <1>1, <1>2, <1>3 DEF Fresh, CopiesOffTable
<1>8. Nested'
  BY <1>0, <1>1 DEF Nested
<1> QED
  BY <1>3, <1>5, <1>6, <1>6a, <1>7, <1>8 DEF Fresh, Apart

\* Between operations nothing is in transit.
LEMMA IdleApart ==
  ASSUME TypeInv, Nested, Idle
  PROVE  Len(pending) = 0 /\ Len(moving) = 0
BY Lengths DEF Nested, Idle

\* An operation that only takes entries out of the table.
LEMMA RemovalApart ==
  ASSUME IInv, Apart, Idle, UNCHANGED <<pending, moving>>,
         Occupied' \subseteq Occupied, \A p \in Occupied' : data'[p] = data[p]
  PROVE  Apart'
<1>1. Len(pending) = 0 /\ Len(moving) = 0 /\ Len(pending') = 0 /\ Len(moving') = 0
  BY IdleApart DEF IInv, Apart
<1>2. TableApart'
  BY DEF Apart, Fresh, Replacing, TableApart
<1>3. CallsApart' /\ CallsOffTable' /\ CallsOffCopies' /\ CopiesOffTable' /\ CopiesApart'
  BY <1>1 DEF CallsApart, CallsOffTable, CallsOffCopies, CopiesOffTable, CopiesApart
<1> QED
  BY <1>1, <1>2, <1>3 DEF Fresh, Apart, Nested

\* A client that inserts a key wherever it is breaks this; a careful one cannot.
LEMMA InsertApart ==
  ASSUME IInv, Apart, NEW k \in Keys, NEW v \in Vals, CarefulInsert(k, v)
  PROVE  Apart'
<1>1. /\ Len(pending) = 0 /\ Len(moving) = 0 /\ Idle
      /\ pending' = <<[key |-> k, value |-> v]>>
      /\ UNCHANGED <<hash, data, capacity, len, moving>>
  BY IdleApart DEF IInv, Apart, Insert, CarefulInsert
<1>2. /\ Len(pending') = 1 /\ pending'[1].key = k /\ Len(moving') = 0 /\ moving' = <<>>
  BY <1>1 DEF IInv, TypeInv
<1>3. /\ Occupied' = Occupied /\ TableApart'
  BY <1>1 DEF Apart, Fresh, Replacing, TableApart, Occupied, Free
<1>4. CallsApart' /\ CallsOffCopies' /\ CopiesOffTable' /\ CopiesApart' /\ Nested'
  BY <1>2 DEF CallsApart, CallsOffCopies, CopiesOffTable, CopiesApart, Nested
<1>5. CASE Contains(k)
  <2>1. Holds(Target(k), k)
    BY <1>5 DEF CarefulInsert, Careful
  <2>2. Holds(Target(k), k)'
    BY <1>1, <2>1 DEF Holds, Free, Target, Candidates, Usable, Movable, OtherPos, Pos
  <2>3. capacity # 0
    BY <1>5 DEF Contains, Stored
  <2>4. Replacing'
    BY <1>1, <1>2, <1>3, <2>2, <2>3 DEF Replacing
  <2> QED
    BY <1>4, <2>4 DEF Apart
<1>6. CASE ~Contains(k)
  <2>1. CallsOffTable'
    BY <1>1, <1>2, <1>3, <1>6 DEF CallsOffTable, Contains, Stored, Occupied
  <2> QED
    BY <1>3, <1>4, <2>1 DEF Fresh, Apart
<1> QED
  BY <1>5, <1>6

LEMMA ApartStep ==
  ASSUME IInv, Apart, [CarefulNext]_vars
  PROVE  Apart'
<1>1. ASSUME NEW k \in Keys, NEW v \in Vals, CarefulInsert(k, v)
      PROVE  Apart'
  BY <1>1, InsertApart
<1>2. CASE InsertPlace \/ InsertReplace \/ InsertDisplace
  BY <1>2, PlaceApart, ReplaceApart, DisplaceApart
<1>3. CASE InsertAllocate
  <2>1. Sizes[1] \in Nat
    BY SizesAssumption, EmptySeq, ElementOfSeq
  <2> QED
    BY <1>3, <2>1, GrowNotReplacing, ReallocApart DEF InsertAllocate, Apart
<1>4. CASE InsertGrow
  <2>1. NextCapacity \in Nat
    BY <1>4, NextCapacityPositive DEF InsertGrow, IInv
  <2> QED
    BY <1>4, <2>1, GrowNotReplacing, ReallocApart DEF InsertGrow, Apart
<1>5. CASE CopyEntry \/ CopyDone
  BY <1>5, CopyEntryApart, CopyDoneApart
<1>6. ASSUME NEW k \in Keys, RemoveFound(k)
      PROVE  Apart'
  <2>1. /\ Occupied' \subseteq Occupied
        /\ \A p \in Occupied' : data'[p] = data[p]
    BY <1>6, EmptyAssumption, RemovalSlotInRange DEF RemoveFound, Occupied, Free, IInv, TypeInv, Table
  <2> QED
    BY <1>6, <2>1, RemovalApart DEF RemoveFound
<1>7. ASSUME NEW k \in Keys, RemoveMissing(k)
      PROVE  Apart'
  <2>1. Occupied' = Occupied /\ data' = data
    BY <1>7 DEF RemoveMissing, Occupied, Free
  <2> QED
    BY <1>7, <2>1, RemovalApart DEF RemoveMissing
<1>8. CASE Reset
  <2>1. Occupied' = {}
    BY <1>8 DEF Reset, Occupied
  <2> QED
    BY <1>8, <2>1, RemovalApart DEF Reset
<1>9. CASE UNCHANGED vars
  <2>1. UNCHANGED <<hash, data, capacity, len, pending, moving, returned>>
    BY <1>9 DEF vars
  <2>2. Fresh' = Fresh
    <3>1. Occupied' = Occupied /\ \A i : Rest(i)' = Rest(i)
      BY <2>1, RestUnchanged DEF Occupied, Free
    <3>2. TableApart' = TableApart /\ CallsApart' = CallsApart /\ CallsOffTable' = CallsOffTable
      BY <2>1, <3>1 DEF TableApart, CallsApart, CallsOffTable
    <3>3. CopiesApart' = CopiesApart
      BY <2>1, <3>1 DEF CopiesApart
    <3>4. CallsOffCopies' = CallsOffCopies
      BY <2>1, <3>1 DEF CallsOffCopies
    <3>5. CopiesOffTable' = CopiesOffTable
      BY <2>1, <3>1 DEF CopiesOffTable
    <3> QED
      BY <3>2, <3>3, <3>4, <3>5, Zenon DEF Fresh
  <2>3. Replacing' = Replacing
    BY <2>1, Zenon DEF Replacing, TableApart, Occupied, Free, Holds, Target, Candidates,
                       Usable, Movable, OtherPos, Pos
  <2>4. Nested' = Nested
    BY <2>1 DEF Nested
  <2> QED
    BY <2>2, <2>3, <2>4, Zenon DEF Apart
<1> QED
  BY <1>1, <1>2, <1>3, <1>4, <1>5, <1>6, <1>7, <1>8, <1>9 DEF CarefulNext, InsertStep

\* A careful client is a client.
LEMMA CarefulIsNext == [CarefulNext]_vars => [Next]_vars
BY DEF CarefulNext, CarefulInsert, Next

LEMMA InitApart == Init => Apart
<1> SUFFICES ASSUME Init PROVE Apart
  OBVIOUS
<1>1. Len(pending) = 0 /\ Len(moving) = 0 /\ Occupied = {}
  BY DEF Init, Occupied
<1> QED
  BY <1>1 DEF Apart, Nested, Fresh, TableApart, CallsApart, CopiesApart,
              CallsOffTable, CallsOffCopies, CopiesOffTable

LEMMA SpecApart ==
  CarefulSpec => [](IInv /\ Apart)
<1>1. Init => IInv /\ Apart
  BY InitIInv, InitApart
<1>2. (IInv /\ Apart) /\ [CarefulNext]_vars => (IInv /\ Apart)'
  BY NextIInv, ApartStep, CarefulIsNext
<1> QED
  BY <1>1, <1>2, PTL DEF CarefulSpec

-----------------------------------------------------------------------------
(* A set of entries as a dictionary.                                       *)

OneEach(S) == \A e, f \in S : e.key = f.key => e = f

DictOf(S) ==
  [k \in Keys |->
     IF \E e \in S : e.key = k THEN CHOOSE e \in S : e.key = k ELSE Empty]

LEMMA DictAt ==
  ASSUME NEW S, OneEach(S), NEW k \in Keys
  PROVE  /\ \A e \in S : e.key = k => DictOf(S)[k] = e
         /\ (\A e \in S : e.key # k) => DictOf(S)[k] = Empty
<1>1. ASSUME NEW e \in S, e.key = k
      PROVE  DictOf(S)[k] = e
  <2> DEFINE f == CHOOSE f \in S : f.key = k
  <2>1. f \in S /\ f.key = k
    BY <1>1
  <2>2. DictOf(S)[k] = f
    BY <1>1 DEF DictOf
  <2> QED
    BY <1>1, <2>1, <2>2, Zenon DEF OneEach
<1>2. (\A e \in S : e.key # k) => DictOf(S)[k] = Empty
  BY DEF DictOf
<1> QED
  BY <1>1, <1>2

\* Two sets that agree on all keys but one.
LEMMA DictUpdate ==
  ASSUME NEW S, NEW T, OneEach(S), OneEach(T), NEW k \in Keys, NEW r,
         \A e \in S \union T : e.key # k => (e \in S <=> e \in T),
         \/ r \in T /\ r.key = k
         \/ r = Empty /\ \A e \in T : e.key # k
  PROVE  DictOf(T) = [DictOf(S) EXCEPT ![k] = r]
<1>1. DictOf(T)[k] = r
  BY DictAt
<1>2. ASSUME NEW l \in Keys, l # k
      PROVE  DictOf(T)[l] = DictOf(S)[l]
  <2>1. CASE \E e \in S : e.key = l
    <3>1. PICK e \in S : e.key = l
      BY <2>1
    <3>2. e \in T
      BY <1>2, <3>1
    <3> QED
      BY <3>1, <3>2, DictAt
  <2>2. CASE \A e \in S : e.key # l
    <3>1. \A e \in T : e.key # l
      BY <1>2, <2>2
    <3> QED
      BY <2>2, <3>1, DictAt
  <2> QED
    BY <2>1, <2>2
<1>3. DictOf(S) = [l \in Keys |-> DictOf(S)[l]] /\ DictOf(T) = [l \in Keys |-> DictOf(T)[l]]
  BY DEF DictOf
<1> QED
  BY <1>1, <1>2, <1>3

All == Stored \union InTransit

LEMMA ContentsIsDict == Contents = DictOf(All)
BY DEF Contents, DictOf, All

LEMMA NextContentsIsDict == Contents' = DictOf(All')
BY DEF Contents, DictOf, All

\* The three places an entry can be in.
Placed3(e) ==
  \/ \E p \in Occupied : data[p] = e
  \/ \E i \in 2..Len(pending) : pending[i] = e
  \/ \E j \in 1..Len(moving) : \E a \in Rest(j) : moving[j].tab[a] = e

LEMMA Places == \A e : e \in All <=> Placed3(e)
<1> SUFFICES ASSUME NEW e PROVE e \in All <=> Placed3(e)
  OBVIOUS
<1>1. e \in Stored <=> \E p \in Occupied : data[p] = e
  BY DEF Stored, Occupied
<1>2. e \in InTransit <=> \/ \E i \in 2..Len(pending) : pending[i] = e
                         \/ \E j \in 1..Len(moving) : \E a \in Rest(j) : moving[j].tab[a] = e
  <2> DEFINE A == {pending[i] : i \in 2..Len(pending)}
             B(j) == {moving[j].tab[a] : a \in Rest(j)}
             C == {B(j) : j \in 1..Len(moving)}
  <2>1. InTransit = A \union UNION C
    BY Zenon DEF InTransit
  <2>2. e \in A <=> \E i \in 2..Len(pending) : pending[i] = e
    OBVIOUS
  <2>3. e \in UNION C <=> \E j \in 1..Len(moving) : e \in B(j)
    OBVIOUS
  <2>4. \A j : e \in B(j) <=> \E a \in Rest(j) : moving[j].tab[a] = e
    OBVIOUS
  <2> HIDE DEF A, B, C
  <2> QED
    BY <2>1, <2>2, <2>3, <2>4, Zenon
<1> QED
  BY <1>1, <1>2, Zenon DEF All, Placed3

LEMMA NextPlaces == \A e : e \in All' <=> Placed3(e)'
<1>1. (\A e : e \in All <=> Placed3(e))'
  BY Places, PTL
<1> QED
  BY <1>1

\* No two entries of one key.
LEMMA AllDistinct ==
  ASSUME TypeInv, Apart
  PROVE  All \subseteq Entry /\ OneEach(All)
<1>1. \A i \in 2..Len(pending) : i \in 1..Len(pending) /\ pending[i] \in Entry
  <2>1. Len(pending) \in Nat
    BY Lengths
  <2> SUFFICES ASSUME NEW i \in 2..Len(pending)
               PROVE  i \in 1..Len(pending) /\ pending[i] \in Entry
    OBVIOUS
  <2>2. i \in 1..Len(pending)
    BY <2>1
  <2> QED
    BY <2>2, ElementOfSeq DEF TypeInv
<1>2. ASSUME NEW e, Placed3(e)
      PROVE  e \in Entry
  BY <1>1, <1>2, InSlot, InCopy DEF Placed3
<1>3. ASSUME NEW e, NEW f, Placed3(e), Placed3(f), e.key = f.key
      PROVE  e = f
  <2>1. CASE Fresh
    <3>1. CASE \E p \in Occupied : data[p] = e
      BY <1>1, <1>3, <2>1, <3>1
         DEF Placed3, Fresh, TableApart, CallsOffTable, CopiesOffTable
    <3>2. CASE \E i \in 2..Len(pending) : pending[i] = e
      BY <1>1, <1>3, <2>1, <3>2
         DEF Placed3, Fresh, CallsApart, CallsOffTable, CallsOffCopies
    <3>3. CASE \E j \in 1..Len(moving) : \E a \in Rest(j) : moving[j].tab[a] = e
      BY <1>1, <1>3, <2>1, <3>3
         DEF Placed3, Fresh, CopiesApart, CopiesOffTable, CallsOffCopies
    <3> QED
      BY <1>3, <3>1, <3>2, <3>3 DEF Placed3
  <2>2. CASE Replacing
    BY <1>3, <2>2 DEF Replacing, Placed3, TableApart
  <2> QED
    BY <2>1, <2>2 DEF Apart
<1> QED
  BY <1>2, <1>3, Places DEF OneEach

LEMMA Distinct == TypeInv /\ Apart => All \subseteq Entry /\ OneEach(All)
BY AllDistinct

LEMMA NextDistinct == TypeInv' /\ Apart' => All' \subseteq Entry /\ OneEach(All')
<1>1. (TypeInv /\ Apart => All \subseteq Entry /\ OneEach(All))'
  BY Distinct, PTL
<1> QED
  BY <1>1

-----------------------------------------------------------------------------
(* One lemma per step of the map: what the dictionary sees of it.          *)

\* The steps that only move entries about.
LEMMA StutterStep ==
  ASSUME All' = All, returned' = returned
  PROVE  UNCHANGED <<Contents, returned>>
BY ContentsIsDict, NextContentsIsDict, Zenon

\* What is held does not depend on what is free.
LEMMA HeldUnchanged ==
  ASSUME UNCHANGED <<data, capacity, moving>>,
         \A e : (\E i \in 2..Len(pending') : pending'[i] = e)
                  <=> (\E i \in 2..Len(pending) : pending[i] = e)
  PROVE  All' = All
<1>1. Occupied' = Occupied /\ \A i : Rest(i)' = Rest(i)
  BY RestUnchanged DEF Occupied, Free
<1>2. ASSUME NEW e
      PROVE  e \in All' <=> e \in All
  <2>1. Placed3(e)' <=> Placed3(e)
    BY <1>1 DEF Placed3
  <2> QED
    BY <2>1, Places, NextPlaces
<1> QED
  BY <1>2

LEMMA InsertSeen ==
  ASSUME IInv, Apart, NEW k \in Keys, NEW v \in Vals, Insert(k, v)
  PROVE  UNCHANGED <<Contents, returned>>
<1>1. Len(pending) = 0 /\ Len(pending') = 1
  BY IdleApart DEF IInv, Apart, Insert
<1>2. All' = All
  BY <1>1, HeldUnchanged DEF Insert
<1> QED
  BY <1>2, StutterStep DEF Insert

\* A new entry comes to rest: the client's own, or one that is being copied.
LEMMA ArrivalSeen ==
  ASSUME IInv, Apart, IInv', Apart', Inserting, Fresh, Return(Empty),
         NEW e, e = Top(pending),
         \A f : (\E q \in Occupied' : data'[q] = f)
                  <=> (\E q \in Occupied : data[q] = f) \/ f = e
  PROVE  [Dict!Next]_<<Contents, returned>>
<1>0. PICK n \in Nat : n = Len(pending) /\ n >= 1
  BY PopPending DEF IInv, Return
<1>1. /\ Len(pending') = n - 1 /\ e = pending[n] /\ e \in Entry /\ e.key \in Keys
      /\ \A i \in 1..n-1 : pending'[i] = pending[i]
      /\ returned' = (IF n = 1 THEN Empty ELSE returned)
      /\ UNCHANGED moving
  BY <1>0, PopPending, TopPending DEF IInv, Return
<1>2. \A j : Rest(j)' = Rest(j)
  BY <1>1, RestUnchanged
<1>3. ASSUME NEW f
      PROVE  (\E j \in 1..Len(moving') : \E a \in Rest(j)' : moving'[j].tab[a] = f)
               <=> (\E j \in 1..Len(moving) : \E a \in Rest(j) : moving[j].tab[a] = f)
  BY <1>1, <1>2
<1>4. CASE n > 1
  <2>1. ASSUME NEW f
        PROVE  (\E i \in 2..n : pending[i] = f) <=> (\E i \in 2..n-1 : pending'[i] = f) \/ f = e
    <3>1. \A i : i \in 2..n <=> i \in 2..n-1 \/ i = n
      BY <1>4
    <3>2. \A i \in 2..n-1 : pending'[i] = pending[i]
      BY <1>1
    <3> QED
      BY <1>1, <3>1, <3>2
  <2>2. ASSUME NEW f
        PROVE  f \in All' <=> f \in All
    <3>1. Placed3(f)' <=> Placed3(f)
      BY <1>0, <1>1, <1>3, <2>1 DEF Placed3
    <3> QED
      BY <3>1, Places, NextPlaces
  <2>3. All' = All
    BY <2>2
  <2> QED
    BY <1>1, <1>4, <2>3, StutterStep
<1>5. CASE n = 1
  <2>1. ASSUME NEW f
        PROVE  f \in All' <=> f \in All \/ f = e
    <3>1. 2..Len(pending) = {} /\ 2..Len(pending') = {}
      BY <1>0, <1>1, <1>5
    <3>2. Placed3(f)' <=> Placed3(f) \/ f = e
      BY <1>3, <3>1 DEF Placed3
    <3> QED
      BY <3>2, Places, NextPlaces
  <2>2. \A f \in All : f.key # e.key
    <3> SUFFICES ASSUME NEW f, Placed3(f)
                 PROVE  f.key # e.key
      BY Places
    <3>1. 2..Len(pending) = {} /\ 1 \in 1..Len(pending)
      BY <1>0, <1>5
    <3> QED
      BY <1>1, <1>5, <3>1 DEF Placed3, Fresh, CallsOffTable, CallsOffCopies
  <2>3. OneEach(All) /\ OneEach(All')
    BY AllDistinct, NextDistinct DEF IInv
  <2>4. DictOf(All)[e.key] = Empty
    BY <1>1, <2>2, <2>3, DictAt
  <2>5. DictOf(All') = [DictOf(All) EXCEPT ![e.key] = e]
    BY <1>1, <2>1, <2>3, DictUpdate
  <2>6. e = [key |-> e.key, value |-> e.value] /\ e.value \in Vals
    BY <1>1 DEF Entry
  <2>7. Dict!Insert(e.key, e.value)
    BY <1>1, <1>5, <2>4, <2>5, <2>6, ContentsIsDict, NextContentsIsDict DEF Dict!Insert
  <2> QED
    BY <1>1, <2>6, <2>7 DEF Dict!Next
<1> QED
  BY <1>0, <1>4, <1>5

LEMMA PlaceSeen ==
  ASSUME IInv, Apart, IInv', Apart', InsertPlace
  PROVE  [Dict!Next]_<<Contents, returned>>
<1> DEFINE e == Top(pending)
           p == Target(e.key)
<1>1. /\ Free(p) /\ p \in 0..capacity-1 /\ data' = [data EXCEPT ![p] = e]
      /\ UNCHANGED capacity /\ Inserting /\ Return(Empty) /\ e \in Entry
  BY TopPending, TargetUsable DEF InsertPlace, Return, IInv
<1>2. Fresh
  <2>1. ASSUME Replacing PROVE Holds(p, e.key)
    BY <2>1 DEF Replacing, Top
  <2> QED
    BY <1>1, <2>1 DEF Holds, Apart
<1>3. /\ Occupied' = Occupied \union {p} /\ p \notin Occupied
      /\ data'[p] = e /\ \A q \in Occupied : data'[q] = data[q]
  BY <1>1, EmptyAssumption DEF IInv, TypeInv, Table, Occupied, Free
<1> HIDE DEF e, p
<1>4. \A f : (\E q \in Occupied' : data'[q] = f)
               <=> (\E q \in Occupied : data[q] = f) \/ f = e
  BY <1>3
<1> QED
  BY <1>1, <1>2, <1>4, ArrivalSeen DEF e

LEMMA DisplaceSeen ==
  ASSUME IInv, Apart, IInv', Apart', InsertDisplace
  PROVE  [Dict!Next]_<<Contents, returned>>
<1> DEFINE e == Top(pending)
           p == Target(e.key)
           q == OtherPos(p)
<1>1. /\ ~Free(p) /\ ~Holds(p, e.key) /\ p \in 0..capacity-1 /\ Free(q)
      /\ data' = [data EXCEPT ![q] = data[p], ![p] = e]
      /\ UNCHANGED capacity /\ Inserting /\ Return(Empty) /\ e \in Entry
  BY TopPending, TargetUsable DEF InsertDisplace, Return, IInv, Usable, Movable
<1>2. q \in 0..capacity-1 /\ data[p] \in Entry /\ q # p
  BY <1>1, OtherPosInRange, EntryAt DEF IInv
<1>3. Fresh
  <2>1. ASSUME Replacing PROVE Holds(p, e.key)
    BY <2>1 DEF Replacing, Top
  <2> QED
    BY <1>1, <2>1 DEF Apart
<1>4. /\ Occupied' = Occupied \union {q} /\ q \notin Occupied /\ p \in Occupied
      /\ data'[p] = e /\ data'[q] = data[p]
      /\ \A r \in Occupied : r # p => data'[r] = data[r]
  BY <1>1, <1>2, EmptyAssumption DEF IInv, TypeInv, Table, Occupied, Free
<1> HIDE DEF e, p, q
<1>5. \A f : (\E r \in Occupied' : data'[r] = f)
               <=> (\E r \in Occupied : data[r] = f) \/ f = e
  BY <1>2, <1>4
<1> QED
  BY <1>1, <1>3, <1>5, ArrivalSeen DEF e

\* An operation on an idle map, seen as what it does to the slots.
LEMMA IdleAll ==
  Len(pending) \in {0, 1} /\ Len(moving) = 0
    => \A f : f \in All <=> \E q \in Occupied : data[q] = f
<1> SUFFICES ASSUME Len(pending) \in {0, 1}, Len(moving) = 0
             PROVE  \A f : f \in All <=> \E q \in Occupied : data[q] = f
  OBVIOUS
<1>1. 2..Len(pending) = {} /\ 1..Len(moving) = {}
  <2>1. 2..0 = {} /\ 2..1 = {} /\ 1..0 = {}
    OBVIOUS
  <2> QED
    BY <2>1, Zenon
<1> QED
  BY <1>1, Places DEF Placed3

LEMMA NextIdleAll ==
  Len(pending') \in {0, 1} /\ Len(moving') = 0
    => \A f : f \in All' <=> \E q \in Occupied' : data'[q] = f
<1>1. (Len(pending) \in {0, 1} /\ Len(moving) = 0
         => \A f : f \in All <=> \E q \in Occupied : data[q] = f)'
  BY IdleAll, PTL
<1> QED
  BY <1>1

LEMMA ReplaceSeen ==
  ASSUME IInv, Apart, IInv', Apart', InsertReplace
  PROVE  Dict!Next
<1> DEFINE e == pending[1]
           p == Target(e.key)
<1>1. /\ Replacing /\ Len(pending) = 1 /\ Len(moving) = 0 /\ Inserting
  BY ReplaceApart DEF Replacing, InsertReplace
<1>2. /\ Holds(p, e.key) /\ p \in 0..capacity-1 /\ data' = [data EXCEPT ![p] = e]
      /\ returned' = data[p] /\ UNCHANGED <<moving, capacity>>
      /\ Len(pending') = 0 /\ Len(moving') = 0 /\ e \in Entry /\ e.key \in Keys
  BY <1>1, PopPending, TopPending, TargetUsable DEF InsertReplace, Return, IInv, Top
<1>3. /\ Occupied' = Occupied /\ p \in Occupied
      /\ \A q \in Occupied : data'[q] = IF q = p THEN e ELSE data[q]
  BY <1>2, EmptyAssumption DEF IInv, TypeInv, Table, Occupied, Free, Holds
<1>4. data[p].key = e.key
  BY <1>2 DEF Holds
<1> HIDE DEF e, p
<1>5. \A f : f \in All <=> \E q \in Occupied : data[q] = f
  BY <1>1, IdleAll DEF Apart, IInv
<1>6. \A f : f \in All' <=> \E q \in Occupied' : data'[q] = f
  BY <1>2, NextIdleAll DEF Apart, IInv
<1>7. OneEach(All) /\ OneEach(All')
  BY AllDistinct, NextDistinct DEF IInv
<1>8. data[p] \in All /\ e \in All'
  BY <1>3, <1>5, <1>6
<1>9. \A f \in All \union All' : f.key # e.key => (f \in All <=> f \in All')
  BY <1>3, <1>4, <1>5, <1>6
<1>10. DictOf(All') = [DictOf(All) EXCEPT ![e.key] = e]
  BY <1>2, <1>7, <1>8, <1>9, DictUpdate
<1>11. DictOf(All)[e.key] = data[p]
  BY <1>2, <1>4, <1>7, <1>8, DictAt
<1>12. e = [key |-> e.key, value |-> e.value] /\ e.value \in Vals
  BY <1>2 DEF Entry
<1>13. Dict!Insert(e.key, e.value)
  BY <1>2, <1>10, <1>11, <1>12, ContentsIsDict, NextContentsIsDict DEF Dict!Insert
<1> QED
  BY <1>2, <1>12, <1>13 DEF Dict!Next

LEMMA ReallocSeen ==
  ASSUME IInv, Inserting, NEW c \in Nat, Realloc(c)
  PROVE  UNCHANGED <<Contents, returned>>
<1>0. PICK n \in Nat : n = Len(moving)
  BY Lengths DEF IInv
<1>1. /\ Len(moving') = n + 1
      /\ \A i \in 1..n : moving'[i] = moving[i]
      /\ moving'[n + 1].cap = capacity /\ moving'[n + 1].tab = data /\ moving'[n + 1].next = 0
  BY <1>0, AppendProperties DEF IInv, TypeInv, Realloc
<1>2. ASSUME NEW i \in 1..n
      PROVE  Rest(i)' = Rest(i)
  <2>1. moving'[i] = moving[i]
    BY <1>1
  <2> QED
    BY <2>1, Zenon DEF Rest
<1>3. Rest(n + 1)' = Occupied
  <2>1. capacity \in Nat
    BY DEF IInv, TypeInv
  <2>2. Rest(n + 1)' = {j \in 0..capacity-1 : j >= 0 /\ data[j] # Empty}
    BY <1>1, Zenon DEF Rest
  <2> QED
    BY <2>1, <2>2 DEF Occupied, Free
<1>4. Occupied' = {} /\ UNCHANGED pending
  BY DEF Realloc, Occupied, Free
<1>5. \A i : i \in 1..n+1 <=> i \in 1..n \/ i = n + 1
  BY <1>0
<1>6. ASSUME NEW f
      PROVE  (\E i \in 1..n+1 : \E a \in Rest(i)' : moving'[i].tab[a] = f)
               <=> \/ \E i \in 1..n : \E a \in Rest(i) : moving[i].tab[a] = f
                   \/ \E q \in Occupied : data[q] = f
  BY <1>1, <1>2, <1>3, <1>5
<1>7. ASSUME NEW f
      PROVE  f \in All' <=> f \in All
  <2>1. Placed3(f)' <=> \/ \E i \in 2..Len(pending) : pending[i] = f
                        \/ \E i \in 1..n+1 : \E a \in Rest(i)' : moving'[i].tab[a] = f
    BY <1>1, <1>4 DEF Placed3
  <2>2. Placed3(f) <=> \/ \E q \in Occupied : data[q] = f
                       \/ \E i \in 2..Len(pending) : pending[i] = f
                       \/ \E i \in 1..n : \E a \in Rest(i) : moving[i].tab[a] = f
    BY <1>0 DEF Placed3
  <2>3. Placed3(f)' <=> Placed3(f)
    BY <1>6, <2>1, <2>2
  <2> QED
    BY <2>3, Places, NextPlaces
<1>8. All' = All
  BY <1>7
<1> QED
  BY <1>8, StutterStep DEF Realloc

LEMMA CopyEntrySeen ==
  ASSUME IInv, Apart, CopyEntry
  PROVE  UNCHANGED <<Contents, returned>>
<1>0. PICK n \in Nat : n = Len(moving) /\ n = Len(pending) /\ n >= 1
  BY Lengths DEF IInv, CopyEntry, Copying, Idle, TypeInv
<1>1. PICK i \in Rest(n) :
        /\ Rest(n)' = Rest(n) \ {i} /\ \A j \in 1..n : j # n => Rest(j)' = Rest(j)
        /\ Len(moving') = n /\ \A j \in 1..n : moving'[j].tab = moving[j].tab
        /\ Len(pending') = n + 1 /\ pending'[n + 1] = moving[n].tab[i]
        /\ \A j \in 1..n : pending'[j] = pending[j]
  BY <1>0, CopyEntryEffect
<1>2. Occupied' = Occupied /\ UNCHANGED <<data, returned>>
  BY DEF CopyEntry, Occupied, Free
<1> DEFINE Called(f) == \E j \in 2..n : pending[j] = f
           Copied(f) == \E j \in 1..n : \E a \in Rest(j) : moving[j].tab[a] = f
           d == moving[n].tab[i]
<1>3. ASSUME NEW f
      PROVE  (\E j \in 2..n+1 : pending'[j] = f) <=> Called(f) \/ f = d
  <2>1. \A j : j \in 2..n+1 <=> j \in 2..n \/ j = n + 1
    BY <1>0
  <2>2. \A j \in 2..n : pending'[j] = pending[j]
    BY <1>1
  <2> QED
    BY <1>1, <2>1, <2>2
<1>4. ASSUME NEW f
      PROVE  Copied(f) <=> (\E j \in 1..n : \E a \in Rest(j)' : moving'[j].tab[a] = f) \/ f = d
  <2>1. n \in 1..n
    BY <1>0
  <2>2. \A j \in 1..n : \A a : a \in Rest(j) <=> a \in Rest(j)' \/ (j = n /\ a = i)
    BY <1>1
  <2> QED
    BY <1>1, <2>1, <2>2
<1>5. ASSUME NEW f
      PROVE  f \in All' <=> f \in All
  <2>1. Placed3(f) <=> (\E p \in Occupied : data[p] = f) \/ Called(f) \/ Copied(f)
    BY <1>0 DEF Placed3
  <2>2. Placed3(f)' <=> \/ \E p \in Occupied : data[p] = f
                        \/ Called(f) \/ f = d
                        \/ \E j \in 1..n : \E a \in Rest(j)' : moving'[j].tab[a] = f
    BY <1>1, <1>2, <1>3 DEF Placed3
  <2>3. Placed3(f)' <=> Placed3(f)
    BY <1>4, <2>1, <2>2
  <2> QED
    BY <2>3, Places, NextPlaces
<1>6. All' = All
  BY <1>5
<1> QED
  BY <1>2, <1>6, StutterStep

LEMMA CopyDoneSeen ==
  ASSUME IInv, Apart, CopyDone
  PROVE  UNCHANGED <<Contents, returned>>
<1>0. PICK n \in Nat : n = Len(moving) /\ n = Len(pending) /\ n >= 1
  BY Lengths DEF IInv, CopyDone, Copying, Idle, TypeInv
<1>1. /\ Rest(n) = {} /\ UNCHANGED <<pending, data, capacity, returned>>
      /\ Len(moving') = n - 1
      /\ \A j \in 1..n-1 : moving'[j] = moving[j]
  BY <1>0, TopAndPop DEF IInv, TypeInv, CopyDone
<1>2. ASSUME NEW j \in 1..n-1
      PROVE  Rest(j)' = Rest(j)
  BY <1>1, <1>2, Zenon DEF Rest
<1>3. \A j : j \in 1..n <=> j \in 1..n-1 \/ j = n
  BY <1>0
<1>4. Occupied' = Occupied
  BY <1>1 DEF Occupied, Free
<1>5. ASSUME NEW f
      PROVE  (\E j \in 1..n-1 : \E a \in Rest(j)' : moving'[j].tab[a] = f)
               <=> (\E j \in 1..n : \E a \in Rest(j) : moving[j].tab[a] = f)
  BY <1>1, <1>2, <1>3
<1>6. ASSUME NEW f
      PROVE  f \in All' <=> f \in All
  <2>1. Placed3(f)' <=>
             \/ \E p \in Occupied : data[p] = f
             \/ \E j \in 2..n : pending[j] = f
             \/ \E j \in 1..n-1 : \E a \in Rest(j)' : moving'[j].tab[a] = f
    <3>1. data' = data /\ pending' = pending
      BY <1>1
    <3> QED
      BY <1>0, <1>1, <1>4, <3>1, Zenon DEF Placed3
  <2>2. Placed3(f) <=>
             \/ \E p \in Occupied : data[p] = f
             \/ \E j \in 2..n : pending[j] = f
             \/ \E j \in 1..n : \E a \in Rest(j) : moving[j].tab[a] = f
    BY <1>0, Zenon DEF Placed3
  <2>3. Placed3(f)' <=> Placed3(f)
    BY <1>5, <2>1, <2>2, Zenon
  <2> QED
    BY <2>3, Places, NextPlaces
<1>7. All' = All
  BY <1>6
<1> QED
  BY <1>1, <1>7, StutterStep

\* A key that is stored has its entry in one of its two slots.
LEMMA StoredWhere ==
  ASSUME IInv, capacity # 0, NEW k \in Keys, NEW q \in Occupied, data[q].key = k
  PROVE  q = Pos(k, 1) \/ q = Pos(k, 2)
BY DEF IInv, Placed, Occupied

LEMMA RemoveFoundSeen ==
  ASSUME IInv, Apart, IInv', Apart', NEW k \in Keys, RemoveFound(k)
  PROVE  Dict!Remove(k)
<1> DEFINE p == RemovalSlot(k)
<1>1. /\ Idle /\ Holds(p, k) /\ p \in 0..capacity-1 /\ data' = [data EXCEPT ![p] = Empty]
      /\ returned' = data[p] /\ UNCHANGED <<pending, moving, capacity>>
  BY RemovalSlotInRange DEF RemoveFound, IInv
<1>2. Len(pending) = 0 /\ Len(moving) = 0 /\ Len(pending') = 0 /\ Len(moving') = 0
  BY <1>1, IdleApart DEF IInv, Apart
<1>3. /\ Occupied' = Occupied \ {p} /\ p \in Occupied
      /\ \A q \in Occupied' : data'[q] = data[q]
  BY <1>1, EmptyAssumption DEF IInv, TypeInv, Table, Occupied, Free, Holds
<1>4. data[p].key = k
  BY <1>1 DEF Holds
<1>5. TableApart
  BY DEF Apart, Fresh, Replacing
<1> HIDE DEF p
<1>6. \A f : f \in All <=> \E q \in Occupied : data[q] = f
  BY <1>2, IdleAll
<1>7. \A f : f \in All' <=> \E q \in Occupied' : data'[q] = f
  BY <1>2, NextIdleAll
<1>8. OneEach(All) /\ OneEach(All')
  BY AllDistinct, NextDistinct DEF IInv
<1>9. data[p] \in All
  BY <1>3, <1>6
<1>10. \A f \in All' : f.key # k
  BY <1>3, <1>4, <1>5, <1>7 DEF TableApart
<1>11. \A f \in All \union All' : f.key # k => (f \in All <=> f \in All')
  BY <1>3, <1>4, <1>6, <1>7
<1>12. DictOf(All') = [DictOf(All) EXCEPT ![k] = Empty]
  BY <1>8, <1>10, <1>11, DictUpdate
<1>13. DictOf(All)[k] = data[p]
  BY <1>4, <1>8, <1>9, DictAt
<1> QED
  BY <1>1, <1>12, <1>13, ContentsIsDict, NextContentsIsDict DEF Dict!Remove

LEMMA RemoveMissingSeen ==
  ASSUME IInv, Apart, NEW k \in Keys, RemoveMissing(k)
  PROVE  Dict!Remove(k)
<1>1. /\ Idle /\ capacity # 0 /\ ~Holds(RemovalSlot(k), k)
      /\ returned' = Empty /\ UNCHANGED <<hash, data, capacity, len, pending, moving>>
  BY DEF RemoveMissing
<1>2. Len(pending) = 0 /\ Len(moving) = 0
  BY <1>1, IdleApart DEF IInv, Apart
<1>3. \A f : f \in All <=> \E q \in Occupied : data[q] = f
  BY <1>2, IdleAll
<1>4. ASSUME NEW q \in Occupied, data[q].key = k
      PROVE  FALSE
  <2>1. Holds(q, k)
    BY <1>4 DEF Occupied, Holds
  <2>2. q = Pos(k, 1) \/ q = Pos(k, 2)
    BY <1>1, <1>4, StoredWhere
  <2> QED
    BY <1>1, <2>1, <2>2 DEF RemovalSlot
<1>5. \A f \in All : f.key # k
  BY <1>3, <1>4
<1>6. OneEach(All)
  BY AllDistinct DEF IInv
<1>7. DictOf(All)[k] = Empty
  BY <1>5, <1>6, DictAt
<1>8. DictOf(All) = [DictOf(All) EXCEPT ![k] = Empty]
  BY <1>5, <1>6, DictUpdate
<1>9. All' = All
  BY <1>1, HeldUnchanged
<1> QED
  BY <1>1, <1>7, <1>8, <1>9, ContentsIsDict, NextContentsIsDict DEF Dict!Remove

LEMMA NothingHeld ==
  ASSUME NEW S, S = {}
  PROVE  DictOf(S) = [k \in Keys |-> Empty]
BY DEF DictOf

LEMMA ResetSeen ==
  ASSUME IInv, Apart, Reset
  PROVE  Dict!Clear
<1>1. Len(pending') = 0 /\ Len(moving') = 0 /\ returned' = Empty
  BY IdleApart DEF IInv, Apart, Reset
<1>2. Occupied' = {}
  BY DEF Reset, Occupied
<1>3. All' = {}
  BY <1>1, <1>2, NextIdleAll
<1> QED
  BY <1>1, <1>3, NextContentsIsDict, NothingHeld DEF Dict!Clear, Dict!Init

LEMMA DictionaryInit == Init => Dict!Init
<1> SUFFICES ASSUME Init PROVE Dict!Init
  OBVIOUS
<1>1. Len(pending) = 0 /\ Len(moving) = 0 /\ returned = Empty /\ Occupied = {}
  BY DEF Init, Occupied
<1>2. All = {}
  BY <1>1, IdleAll
<1> QED
  BY <1>1, <1>2, ContentsIsDict, NothingHeld DEF Dict!Init

LEMMA DictionaryStep ==
  ASSUME IInv, Apart, IInv', Apart', [Next]_vars
  PROVE  [Dict!Next]_<<Contents, returned>>
<1>1. ASSUME NEW k \in Keys, NEW v \in Vals, Insert(k, v)
      PROVE  [Dict!Next]_<<Contents, returned>>
  BY <1>1, InsertSeen
<1>2. CASE InsertPlace
  BY <1>2, PlaceSeen
<1>3. CASE InsertReplace
  BY <1>3, ReplaceSeen
<1>4. CASE InsertDisplace
  BY <1>4, DisplaceSeen
<1>5. CASE InsertAllocate
  <2>1. Sizes[1] \in Nat
    BY SizesAssumption, EmptySeq, ElementOfSeq
  <2> QED
    BY <1>5, <2>1, ReallocSeen DEF InsertAllocate
<1>6. CASE InsertGrow
  <2>1. NextCapacity \in Nat
    BY <1>6, NextCapacityPositive DEF InsertGrow, IInv
  <2> QED
    BY <1>6, <2>1, ReallocSeen DEF InsertGrow
<1>7. CASE CopyEntry \/ CopyDone
  BY <1>7, CopyEntrySeen, CopyDoneSeen
<1>8. ASSUME NEW k \in Keys, RemoveFound(k)
      PROVE  [Dict!Next]_<<Contents, returned>>
  BY <1>8, RemoveFoundSeen DEF Dict!Next
<1>9. ASSUME NEW k \in Keys, RemoveMissing(k)
      PROVE  [Dict!Next]_<<Contents, returned>>
  BY <1>9, RemoveMissingSeen DEF Dict!Next
<1>10. CASE Reset
  BY <1>10, ResetSeen DEF Dict!Next
<1>11. CASE UNCHANGED vars
  <2>1. UNCHANGED <<data, capacity, pending, moving, returned>>
    BY <1>11 DEF vars
  <2> QED
    BY <2>1, HeldUnchanged, StutterStep
<1> QED
  BY <1>1, <1>2, <1>3, <1>4, <1>5, <1>6, <1>7, <1>8, <1>9, <1>10, <1>11
     DEF Next, InsertStep

\* For a client that inserts only new keys, or keys that sit where the insertion will
\* settle, passgen_hashmap is the dictionary hashmap.h describes, whatever its tables,
\* hashes and sizes: displacing, growing and the insertions a growth nests are
\* invisible, and every operation returns the entry it replaced or removed.  For other
\* clients it is not (MCHashMapOverwrite).
THEOREM DictionaryImplemented == CarefulSpec => ImplementsDictionary
<1>1. Init => Dict!Init
  BY DictionaryInit
<1>2. (IInv /\ Apart) /\ (IInv /\ Apart)' /\ [CarefulNext]_vars
        => [Dict!Next]_<<Contents, returned>>
  BY DictionaryStep, CarefulIsNext
<1> QED
  BY <1>1, <1>2, SpecApart, PTL DEF CarefulSpec, ImplementsDictionary, Dict!Spec, Dict!dictVars

\* For such a client passgen_hashmap_lookup finds, between operations and under every
\* key, exactly what that dictionary holds.
THEOREM LookupIsExact == CarefulSpec => []LookupAgrees
<1>1. ASSUME IInv, Apart, Idle, NEW k \in Keys
      PROVE  Lookup(k) = Contents[k]
  <2>1. Len(pending) = 0 /\ Len(moving) = 0
    BY <1>1, IdleApart DEF IInv, Apart
  <2>2. \A f : f \in All <=> \E q \in Occupied : data[q] = f
    BY <2>1, IdleAll
  <2>3. OneEach(All)
    BY <1>1, AllDistinct DEF IInv
  <2>4. CASE \E q \in Occupied : data[q].key = k
    <3>1. PICK q \in Occupied : data[q].key = k
      BY <2>4
    <3>2. DictOf(All)[k] = data[q]
      BY <2>2, <2>3, <3>1, DictAt
    <3>3. capacity # 0 /\ Holds(q, k)
      BY <1>1, <3>1 DEF Occupied, Holds, IInv, TypeInv
    <3>4. q = Pos(k, 1) \/ q = Pos(k, 2)
      BY <1>1, <3>1, <3>3, StoredWhere
    <3>5. ASSUME NEW r, r = Pos(k, 1), Holds(r, k)
          PROVE  r = q
      <4>1. r \in 0..capacity-1
        BY <1>1, <3>3, <3>5, PosInRange DEF IInv
      <4>2. r \in Occupied /\ data[r].key = k
        BY <3>5, <4>1 DEF Occupied, Holds
      <4> QED
        BY <1>1, <3>1, <4>2 DEF Apart, Fresh, Replacing, TableApart
    <3> QED
      BY <3>2, <3>3, <3>4, <3>5, ContentsIsDict DEF Lookup
  <2>5. CASE \A q \in Occupied : data[q].key # k
    <3>1. DictOf(All)[k] = Empty
      BY <2>2, <2>3, <2>5, DictAt
    <3>2. ASSUME capacity # 0, NEW n \in 1..2
          PROVE  ~Holds(Pos(k, n), k)
      BY <1>1, <2>5, <3>2, PosInRange DEF Holds, Occupied, IInv
    <3> QED
      BY <3>1, <3>2, ContentsIsDict DEF Lookup
  <2> QED
    BY <2>4, <2>5
<1>2. IInv /\ Apart => LookupAgrees
  BY <1>1 DEF LookupAgrees
<1> QED
  BY <1>2, SpecApart, PTL

-----------------------------------------------------------------------------
(* The bins of the stack: positions.                                       *)

\* What holds of zero and of what comes after a number holds of all.
LEMMA SetInduction ==
  ASSUME NEW S, 0 \in S, \A n \in Nat : n \in S => n + 1 \in S
  PROVE  \A n \in Nat : n \in S
<1> DEFINE T == {n \in Nat : n \notin S}
           R == OpToRel(<, Nat)
<1> SUFFICES ASSUME T # {} PROVE FALSE
  OBVIOUS
<1>1. IsWellFoundedOn(R, Nat)
  BY NatLessThanWellFounded
<1>2. \A i, j \in Nat : <<i, j>> \in R <=> i < j
  BY DEF OpToRel
<1> HIDE DEF R
<1>3. PICK x \in T : \A y \in T : <<y, x>> \notin R
  BY <1>1, WFMin, Zenon
<1>4. x \in Nat /\ x # 0 /\ x - 1 \in Nat
  OBVIOUS
<1>5. x - 1 \in T
  <2>1. (x - 1) + 1 = x
    BY <1>4
  <2> QED
    BY <1>4, <2>1
<1>6. <<x - 1, x>> \in R
  BY <1>2, <1>4
<1> QED
  BY <1>3, <1>5, <1>6

\* There is one quotient and one remainder.
LEMMA OneQuotient ==
  ASSUME NEW b \in Nat \ {0}, NEW q \in Nat, NEW r \in 0..b-1,
         NEW d \in Nat, NEW e \in 0..b-1, q * b + r = d * b + e
  PROVE  q = d /\ r = e
<1>1. ~(q < d)
  <2> SUFFICES ASSUME q < d PROVE FALSE
    OBVIOUS
  <2>1. PICK k \in Nat : d = q + 1 + k
    <3>1. d - q - 1 \in Nat /\ d = q + 1 + (d - q - 1)
      OBVIOUS
    <3> QED
      BY <3>1
  <2>2. d * b = q * b + b + k * b /\ k * b \in Nat
    BY <2>1
  <2> QED
    BY <2>2
<1>2. ~(d < q)
  <2> SUFFICES ASSUME d < q PROVE FALSE
    OBVIOUS
  <2>1. PICK k \in Nat : q = d + 1 + k
    <3>1. q - d - 1 \in Nat /\ q = d + 1 + (q - d - 1)
      OBVIOUS
    <3> QED
      BY <3>1
  <2>2. q * b = d * b + b + k * b /\ k * b \in Nat
    BY <2>1
  <2> QED
    BY <2>2
<1>3. q = d
  BY <1>1, <1>2
<1> QED
  BY <1>3

\* A position is that of a cell in a bin.
LEMMA PositionFacts ==
  ASSUME NEW n \in Nat
  PROVE  Bin(n) \in Nat /\ n % BinSize \in 0..BinSize-1 /\ n = Bin(n) * BinSize + (n % BinSize)
BY BinSizeAssumption DEF Bin

LEMMA PositionIs ==
  ASSUME NEW q \in Nat, NEW r \in 0..BinSize-1, NEW n, n = q * BinSize + r
  PROVE  n \in Nat /\ Bin(n) = q /\ n % BinSize = r
<1>1. q * BinSize \in Nat
  BY BinSizeAssumption
<1>2. n \in Nat
  BY <1>1
<1>3. Bin(n) \in Nat /\ n % BinSize \in 0..BinSize-1 /\ n = Bin(n) * BinSize + (n % BinSize)
  BY <1>2, PositionFacts
<1>4. PICK d, e : d = Bin(n) /\ e = n % BinSize
  OBVIOUS
<1>5. q = d /\ r = e
  BY <1>3, <1>4, BinSizeAssumption, OneQuotient
<1> QED
  BY <1>2, <1>4, <1>5

LEMMA OneBinMore ==
  ASSUME NEW q \in Nat
  PROVE  (q + 1) * BinSize = q * BinSize + BinSize /\ q * BinSize \in Nat
BY BinSizeAssumption

\* The next position is in the next cell or at the start of the next bin.
LEMMA NextPosition ==
  ASSUME NEW n \in Nat
  PROVE  \/ /\ Bin(n + 1) = Bin(n)
            /\ (n + 1) % BinSize = (n % BinSize) + 1 /\ (n % BinSize) + 1 < BinSize
         \/ /\ Bin(n + 1) = Bin(n) + 1
            /\ (n + 1) % BinSize = 0 /\ n % BinSize = BinSize - 1
<1>1. PICK q \in Nat, r \in 0..BinSize-1 :
        q = Bin(n) /\ r = n % BinSize /\ n = q * BinSize + r
  BY PositionFacts
<1>2. CASE r + 1 < BinSize
  <2>1. r + 1 \in 0..BinSize-1 /\ n + 1 = q * BinSize + (r + 1)
    BY <1>1, <1>2, BinSizeAssumption
  <2>2. Bin(n + 1) = q /\ (n + 1) % BinSize = r + 1
    BY <2>1, PositionIs
  <2> QED
    BY <1>1, <1>2, <2>2
<1>3. CASE r + 1 >= BinSize
  <2>1. r = BinSize - 1 /\ 0 \in 0..BinSize-1 /\ q + 1 \in Nat
    BY <1>3, BinSizeAssumption
  <2>2. n + 1 = (q + 1) * BinSize + 0
    <3>1. (q + 1) * BinSize = q * BinSize + BinSize /\ q * BinSize \in Nat
      BY OneBinMore
    <3>2. PICK x, y : x = q * BinSize /\ y = (q + 1) * BinSize
      OBVIOUS
    <3>3. n = x + r /\ y = x + BinSize /\ x \in Nat /\ r = BinSize - 1 /\ BinSize \in Nat
      BY <1>1, <2>1, <3>1, <3>2, BinSizeAssumption, Zenon
    <3>4. n + 1 = y + 0
      BY <3>3
    <3> QED
      BY <3>2, <3>4
  <2>3. Bin(n + 1) = q + 1 /\ (n + 1) % BinSize = 0
    BY <2>1, <2>2, PositionIs
  <2> QED
    BY <1>1, <2>1, <2>3
<1> QED
  BY <1>2, <1>3, BinSizeAssumption

LEMMA SamePosition ==
  ASSUME NEW m \in Nat, NEW n \in Nat, Bin(m) = Bin(n), m % BinSize = n % BinSize
  PROVE  m = n
<1>1. m = Bin(m) * BinSize + (m % BinSize)
  BY PositionFacts
<1>2. n = Bin(n) * BinSize + (n % BinSize)
  BY PositionFacts
<1> QED
  BY <1>1, <1>2

LEMMA BinMonotone ==
  ASSUME NEW m \in Nat, NEW n \in Nat, m <= n
  PROVE  Bin(m) <= Bin(n)
<1> DEFINE S == {d \in Nat : Bin(m) <= Bin(m + d)}
<1>1. 0 \in S
  <2>1. Bin(m) \in Nat /\ m + 0 = m
    BY PositionFacts
  <2> QED
    BY <2>1
<1>2. ASSUME NEW d \in Nat, d \in S PROVE d + 1 \in S
  <2>1. m + d \in Nat /\ (m + d) + 1 = m + (d + 1)
    OBVIOUS
  <2>2. Bin((m + d) + 1) = Bin(m + d) \/ Bin((m + d) + 1) = Bin(m + d) + 1
    BY <2>1, NextPosition
  <2>3. Bin(m) \in Nat /\ Bin(m + d) \in Nat /\ Bin(m) <= Bin(m + d)
    BY <1>2, <2>1, PositionFacts
  <2>4. Bin(m) <= Bin((m + d) + 1)
    BY <2>2, <2>3
  <2> QED
    BY <2>1, <2>4
<1> HIDE DEF S
<1>3. PICK d \in Nat : n = m + d
  <2>1. n - m \in Nat /\ n = m + (n - m)
    OBVIOUS
  <2> QED
    BY <2>1
<1>4. d \in S
  BY <1>1, <1>2, SetInduction
<1> QED
  BY <1>3, <1>4 DEF S

LEMMA InFirstBin ==
  ASSUME NEW n \in Nat
  PROVE  /\ Bin(n) = 0 <=> n < BinSize
         /\ n < BinSize => n % BinSize = n
<1>1. Bin(n) \in Nat /\ n % BinSize \in 0..BinSize-1 /\ n = Bin(n) * BinSize + (n % BinSize)
  BY PositionFacts
<1>2. ASSUME n < BinSize PROVE Bin(n) = 0 /\ n % BinSize = n
  <2>1. n = 0 * BinSize + n /\ n \in 0..BinSize-1
    BY <1>2, BinSizeAssumption
  <2> QED
    BY <2>1, PositionIs
<1>3. ASSUME Bin(n) = 0 PROVE n < BinSize
  <2>1. 0 * BinSize = 0
    BY BinSizeAssumption
  <2>2. n = n % BinSize
    BY <1>1, <1>3, <2>1
  <2> QED
    BY <1>1, <2>2, BinSizeAssumption
<1> QED
  BY <1>2, <1>3

LEMMA BinsFacts ==
  /\ Bins(0) = 0
  /\ \A n \in Nat : n > 0 => Bins(n) = Bin(n - 1) + 1
  /\ \A n \in Nat : Bins(n + 1) = Bin(n) + 1 /\ Bins(n) \in Nat
<1>1. Bins(0) = 0
  <2>1. BinSize - 1 = 0 * BinSize + (BinSize - 1) /\ BinSize - 1 \in 0..BinSize-1
    BY BinSizeAssumption
  <2>2. Bin(BinSize - 1) = 0
    BY <2>1, PositionIs
  <2>3. 0 + BinSize - 1 = BinSize - 1
    BY BinSizeAssumption
  <2> QED
    BY <2>2, <2>3 DEF Bins, Bin
<1>2. ASSUME NEW n \in Nat PROVE Bins(n + 1) = Bin(n) + 1
  <2>1. PICK q \in Nat, r \in 0..BinSize-1 :
          q = Bin(n) /\ r = n % BinSize /\ n = q * BinSize + r
    BY PositionFacts
  <2>2. (q + 1) * BinSize = q * BinSize + BinSize /\ q * BinSize \in Nat
    BY OneBinMore
  <2>3. (n + 1) + BinSize - 1 = (q + 1) * BinSize + r /\ q + 1 \in Nat
    BY <2>1, <2>2, BinSizeAssumption
  <2>4. Bin((n + 1) + BinSize - 1) = q + 1
    BY <2>3, PositionIs
  <2> QED
    BY <2>1, <2>4 DEF Bins, Bin
<1>3. ASSUME NEW n \in Nat, n > 0 PROVE Bins(n) = Bin(n - 1) + 1
  <2>1. n - 1 \in Nat /\ (n - 1) + 1 = n
    BY <1>3
  <2>2. Bins((n - 1) + 1) = Bin(n - 1) + 1
    BY <1>2, <2>1
  <2> QED
    BY <2>1, <2>2
<1>4. ASSUME NEW n \in Nat PROVE Bins(n) \in Nat
  <2>1. CASE n = 0
    BY <1>1, <2>1
  <2>2. CASE n > 0
    <3>1. n - 1 \in Nat
      BY <2>2
    <3>2. Bin(n - 1) \in Nat
      BY <3>1, PositionFacts
    <3> QED
      BY <1>3, <2>2, <3>2
  <2> QED
    BY <2>1, <2>2
<1> QED
  BY <1>1, <1>2, <1>3, <1>4

-----------------------------------------------------------------------------
(* The bins of the stack: powers of two.                                   *)

\* f is the powers up to the n-th.
Powers(f, n) ==
  f \in [0..n -> Nat] /\ f[0] = 1 /\ \A k \in 1..n : f[k] = 2 * f[k - 1]

LEMMA PowersFound == \A n \in Nat : \E f : Powers(f, n)
<1> DEFINE S == {n \in Nat : \E f : Powers(f, n)}
<1>1. 0 \in S
  <2>1. PICK f : f = [k \in 0..0 |-> 1]
    OBVIOUS
  <2>2. Powers(f, 0)
    BY <2>1 DEF Powers
  <2> QED
    BY <2>2
<1>2. ASSUME NEW n \in Nat, n \in S PROVE n + 1 \in S
  <2>1. PICK m \in Nat : m = n + 1
    OBVIOUS
  <2>2. PICK f : Powers(f, n)
    BY <1>2
  <2>3. PICK g : g = [k \in 0..m |-> IF k = m THEN 2 * f[n] ELSE f[k]]
    OBVIOUS
  <2>4. f \in [0..n -> Nat] /\ f[n] \in Nat /\ f[0] = 1
    BY <2>2 DEF Powers
  <2>5. \A k \in 0..m : (IF k = m THEN 2 * f[n] ELSE f[k]) \in Nat
    BY <2>1, <2>4
  <2>6. g \in [0..m -> Nat]
    BY <2>3, <2>5
  <2>7. g[0] = 1
    BY <2>1, <2>3, <2>4
  <2>8. ASSUME NEW k \in 1..m PROVE g[k] = 2 * g[k - 1]
    <3>1. k - 1 \in 0..n /\ k - 1 \in 0..m /\ k - 1 # m /\ k \in 0..m
      BY <2>1
    <3>2. g[k - 1] = f[k - 1]
      BY <2>3, <3>1
    <3>3. CASE k = m
      <4>1. k - 1 = n
        BY <2>1, <3>3
      <4> QED
        BY <2>3, <3>1, <3>2, <3>3, <4>1
    <3>4. CASE k # m
      <4>1. k \in 1..n
        BY <2>1, <3>4
      <4>2. f[k] = 2 * f[k - 1]
        BY <2>2, <4>1 DEF Powers
      <4> QED
        BY <2>3, <3>1, <3>2, <3>4, <4>2
    <3> QED
      BY <3>3, <3>4
  <2>9. Powers(g, m)
    BY <2>6, <2>7, <2>8 DEF Powers
  <2> QED
    BY <2>1, <2>9
<1> HIDE DEF S
<1>3. \A n \in Nat : n \in S
  BY <1>1, <1>2, SetInduction
<1> QED
  BY <1>3 DEF S

LEMMA PowersAgree ==
  ASSUME NEW m \in Nat, NEW n \in Nat, NEW f, NEW g, Powers(f, m), Powers(g, n)
  PROVE  \A k \in Nat : k <= m /\ k <= n => f[k] = g[k]
<1> DEFINE S == {k \in Nat : k <= m /\ k <= n => f[k] = g[k]}
<1>1. 0 \in S
  BY DEF Powers
<1>2. ASSUME NEW k \in Nat, k \in S PROVE k + 1 \in S
  <2> SUFFICES ASSUME k + 1 <= m, k + 1 <= n PROVE f[k + 1] = g[k + 1]
    OBVIOUS
  <2>1. PICK i : i = k + 1
    OBVIOUS
  <2>2. i \in 1..m /\ i \in 1..n /\ i - 1 = k /\ f[k] = g[k]
    BY <1>2, <2>1
  <2>3. f[i] = 2 * f[k] /\ g[i] = 2 * g[k]
    BY <2>2 DEF Powers
  <2> QED
    BY <2>1, <2>2, <2>3
<1> HIDE DEF S
<1>3. \A k \in Nat : k \in S
  BY <1>1, <1>2, SetInduction
<1> QED
  BY <1>3 DEF S

LEMMA PowerFacts ==
  /\ Power \in [Nat -> Nat]
  /\ Power[0] = 1
  /\ \A k \in Nat : Power[k + 1] = 2 * Power[k]
<1>1. PICK F : F = [n \in Nat |-> (CHOOSE f : Powers(f, n))]
  OBVIOUS
<1>2. \A n \in Nat : Powers(F[n], n)
  BY <1>1, PowersFound
<1>3. PICK P : P = [n \in Nat |-> F[n][n]]
  OBVIOUS
<1>4. \A n \in Nat : P[n] = F[n][n] /\ P[n] \in Nat
  <2> SUFFICES ASSUME NEW n \in Nat PROVE P[n] = F[n][n] /\ P[n] \in Nat
    OBVIOUS
  <2>1. n \in 0..n /\ F[n] \in [0..n -> Nat]
    BY <1>2 DEF Powers
  <2> QED
    BY <1>3, <2>1
<1>5. P[0] = 1
  <2>1. Powers(F[0], 0)
    BY <1>2
  <2> QED
    BY <1>4, <2>1 DEF Powers
<1>6. ASSUME NEW k \in Nat, k # 0 PROVE P[k] = 2 * P[k - 1]
  <2>1. k - 1 \in Nat /\ k - 1 <= k - 1 /\ k - 1 <= k /\ k \in 1..k
    BY <1>6
  <2>2. Powers(F[k], k) /\ Powers(F[k - 1], k - 1)
    BY <1>2, <2>1
  <2>3. F[k][k - 1] = F[k - 1][k - 1]
    BY <2>1, <2>2, PowersAgree
  <2>4. F[k][k] = 2 * F[k][k - 1]
    BY <2>1, <2>2 DEF Powers
  <2> QED
    BY <1>4, <2>1, <2>3, <2>4
<1>7. P = [k \in Nat |-> IF k = 0 THEN 1 ELSE 2 * P[k - 1]]
  <2>1. \A k \in Nat : P[k] = IF k = 0 THEN 1 ELSE 2 * P[k - 1]
    BY <1>5, <1>6
  <2>2. P = [k \in Nat |-> P[k]]
    BY <1>3
  <2> QED
    BY <2>1, <2>2
<1>8. PICK Q : Q = Power
  OBVIOUS
<1>9. Q = [k \in Nat |-> IF k = 0 THEN 1 ELSE 2 * Q[k - 1]]
  BY <1>7, <1>8 DEF Power
<1>10. Q[0] = 1
  BY <1>9
<1>11. \A k \in Nat : Q[k + 1] = 2 * Q[k]
  <2> SUFFICES ASSUME NEW k \in Nat PROVE Q[k + 1] = 2 * Q[k]
    OBVIOUS
  <2>1. PICK i : i = k + 1
    OBVIOUS
  <2>2. i \in Nat /\ i # 0 /\ i - 1 = k
    BY <2>1
  <2>3. Q[i] = 2 * Q[i - 1]
    BY <1>9, <2>2
  <2> QED
    BY <2>1, <2>2, <2>3
<1>12. \A k \in Nat : Q[k] \in Nat
  <2> DEFINE S == {k \in Nat : Q[k] \in Nat}
  <2>1. 0 \in S
    BY <1>10
  <2>2. ASSUME NEW k \in Nat, k \in S PROVE k + 1 \in S
    BY <1>11, <2>2
  <2> HIDE DEF S
  <2>3. \A k \in Nat : k \in S
    BY <2>1, <2>2, SetInduction
  <2> QED
    BY <2>3 DEF S
<1>13. Q \in [Nat -> Nat]
  <2>1. Q = [k \in Nat |-> Q[k]]
    BY <1>9
  <2> QED
    BY <1>12, <2>1
<1> QED
  BY <1>8, <1>10, <1>11, <1>13

\* Powers rise, and faster than their exponents.
LEMMA PowerAbove == \A k \in Nat : Power[k] >= k + 1
<1> DEFINE S == {k \in Nat : Power[k] >= k + 1}
<1>1. 0 \in S
  BY PowerFacts
<1>2. ASSUME NEW k \in Nat, k \in S PROVE k + 1 \in S
  <2>1. Power[k] \in Nat /\ Power[k] >= k + 1 /\ Power[k + 1] = 2 * Power[k]
    BY <1>2, PowerFacts
  <2> QED
    BY <2>1
<1> HIDE DEF S
<1>3. \A k \in Nat : k \in S
  BY <1>1, <1>2, SetInduction
<1> QED
  BY <1>3 DEF S

LEMMA PowerRises ==
  ASSUME NEW m \in Nat, NEW n \in Nat, m <= n
  PROVE  Power[m] <= Power[n]
<1> DEFINE S == {d \in Nat : Power[m] <= Power[m + d]}
<1>1. 0 \in S
  <2>1. Power[m] \in Nat /\ m + 0 = m
    BY PowerFacts
  <2> QED
    BY <2>1
<1>2. ASSUME NEW d \in Nat, d \in S PROVE d + 1 \in S
  <2>1. m + d \in Nat /\ (m + d) + 1 = m + (d + 1)
    OBVIOUS
  <2>2. Power[m] \in Nat /\ Power[m + d] \in Nat /\ Power[(m + d) + 1] = 2 * Power[m + d]
    BY <2>1, PowerFacts
  <2> QED
    BY <1>2, <2>1, <2>2
<1> HIDE DEF S
<1>3. PICK d \in Nat : n = m + d
  <2>1. n - m \in Nat /\ n = m + (n - m)
    OBVIOUS
  <2> QED
    BY <2>1
<1>4. d \in S
  BY <1>1, <1>2, SetInduction
<1> QED
  BY <1>3, <1>4 DEF S

\* passgen_stack_bin_count stops, at the first power that is large enough.
LEMMA BinCountFound ==
  ASSUME NEW n \in Nat
  PROVE  \E k \in 0..n : /\ BinCount(n) = Power[k] /\ Power[k] >= n
                         /\ \A j \in Nat : Power[j] >= n => Power[k] <= Power[j]
<1> DEFINE Stops(k) == Power[k] >= n /\ \A j \in 0..k-1 : Power[j] < n
<1>1. \E k \in 0..n : Stops(k)
  <2> SUFFICES ASSUME ~ \E k \in 0..n : Stops(k) PROVE FALSE
    OBVIOUS
  <2> DEFINE T == {k \in Nat : k <= n => \A j \in 0..k : Power[j] < n}
  <2>1. \A k \in Nat : Power[k] \in Nat
    BY PowerFacts
  <2>2. 0 \in T
    <3>1. ~Stops(0)
      OBVIOUS
    <3>2. \A j \in 0..0-1 : Power[j] < n
      OBVIOUS
    <3>3. ~(Power[0] >= n)
      BY <3>1, <3>2
    <3>4. \A j \in 0..0 : j = 0
      OBVIOUS
    <3> QED
      BY <2>1, <3>3, <3>4
  <2>3. ASSUME NEW k \in Nat, k \in T PROVE k + 1 \in T
    <3> SUFFICES ASSUME k + 1 <= n PROVE \A j \in 0..k+1 : Power[j] < n
      OBVIOUS
    <3>1. PICK i : i = k + 1
      OBVIOUS
    <3>2. i \in 0..n /\ i - 1 = k /\ i \in Nat
      BY <3>1
    <3>3. \A j \in 0..k : Power[j] < n
      BY <2>3
    <3>4. ~Stops(i)
      BY <3>2
    <3>5. ~(Power[i] >= n)
      BY <3>2, <3>3, <3>4
    <3>6. Power[i] < n
      BY <2>1, <3>2, <3>5
    <3>7. \A j \in 0..i : j = i \/ j \in 0..k
      BY <3>1
    <3> QED
      BY <3>1, <3>3, <3>6, <3>7
  <2> HIDE DEF T
  <2>4. n \in T
    BY <2>2, <2>3, SetInduction
  <2>5. Power[n] < n
    BY <2>4 DEF T
  <2>6. Power[n] >= n + 1 /\ Power[n] \in Nat
    BY PowerAbove, PowerFacts
  <2> QED
    BY <2>5, <2>6
<1>2. PICK k : k = (CHOOSE x \in 0..n : Stops(x))
  OBVIOUS
<1>3. k \in 0..n /\ Stops(k)
  BY <1>1, <1>2
<1>4. BinCount(n) = Power[k]
  BY <1>2 DEF BinCount
<1>5. ASSUME NEW j \in Nat, Power[j] >= n PROVE Power[k] <= Power[j]
  <2>1. ~(j \in 0..k-1)
    <3>1. Power[j] \in Nat
      BY PowerFacts
    <3> QED
      BY <1>3, <1>5, <3>1
  <2>2. k <= j /\ k \in Nat
    BY <1>3, <2>1
  <2> QED
    BY <2>2, PowerRises
<1> QED
  BY <1>3, <1>4, <1>5

LEMMA BinCountFacts ==
  /\ \A n \in Nat : BinCount(n) \in Nat /\ BinCount(n) >= n
  /\ \A m, n \in Nat : m <= n => BinCount(m) <= BinCount(n)
  /\ \A n \in Nat : BinCount(n) # n => BinCount(n + 1) <= BinCount(n)
  /\ BinCount(0) = 1 /\ BinCount(1) = 1
<1>1. ASSUME NEW n \in Nat PROVE BinCount(n) \in Nat /\ BinCount(n) >= n
  <2>1. PICK k \in 0..n : BinCount(n) = Power[k] /\ Power[k] >= n
    BY BinCountFound
  <2>2. Power[k] \in Nat
    BY PowerFacts
  <2> QED
    BY <2>1, <2>2
<1>2. ASSUME NEW m \in Nat, NEW n \in Nat, m <= n PROVE BinCount(m) <= BinCount(n)
  <2>1. PICK k \in 0..n : BinCount(n) = Power[k] /\ Power[k] >= n
    BY BinCountFound
  <2>2. Power[k] \in Nat /\ k \in Nat
    BY PowerFacts
  <2>3. Power[k] >= m
    BY <1>2, <2>1, <2>2
  <2>4. \A j \in Nat : Power[j] >= m => BinCount(m) <= Power[j]
    BY BinCountFound
  <2> QED
    BY <2>1, <2>2, <2>3, <2>4
<1>3. ASSUME NEW n \in Nat, BinCount(n) # n PROVE BinCount(n + 1) <= BinCount(n)
  <2>1. PICK k \in 0..n : BinCount(n) = Power[k] /\ Power[k] >= n
    BY BinCountFound
  <2>2. Power[k] \in Nat /\ k \in Nat /\ n + 1 \in Nat
    BY PowerFacts
  <2>3. Power[k] >= n + 1
    BY <1>3, <2>1, <2>2
  <2>4. \A j \in Nat : Power[j] >= n + 1 => BinCount(n + 1) <= Power[j]
    BY <2>2, BinCountFound
  <2> QED
    BY <2>1, <2>2, <2>3, <2>4
<1>4. \A n \in {0, 1} : BinCount(n) = 1
  <2> SUFFICES ASSUME NEW n \in {0, 1} PROVE BinCount(n) = 1
    OBVIOUS
  <2>1. n \in Nat /\ Power[0] = 1 /\ Power[0] >= n
    BY PowerFacts
  <2>2. PICK k \in 0..n : BinCount(n) = Power[k] /\ Power[k] <= Power[0]
    BY <2>1, BinCountFound
  <2>3. k \in Nat /\ Power[k] >= k + 1 /\ Power[k] \in Nat
    BY <2>1, PowerAbove, PowerFacts
  <2> QED
    BY <2>1, <2>2, <2>3
<1> QED
  BY <1>1, <1>2, <1>3, <1>4

-----------------------------------------------------------------------------
(* The bins of the stack: cells.                                           *)

Cells == Values \union {Junk}

\* The part of n elements that is in the first bin.
FirstSize(n) == IF n < BinSize THEN n ELSE BinSize

\* The bins h are those that n elements take, and there is room for these.  The first
\* has room for as many as the loop of passgen_stack_bin_count counted to.
Roomy(h, n) ==
  /\ DOMAIN h = 0..Bins(n)-1
  /\ \A b \in DOMAIN h : h[b] \in Seq(Cells)
  /\ \A b \in DOMAIN h : b # 0 => Len(h[b]) = BinSize
  /\ 0 \in DOMAIN h => Len(h[0]) >= BinCount(FirstSize(n))

\* The array of pointers was counted in the same way.
LayoutInv ==
  /\ length \in Nat /\ slots \in Nat
  /\ Roomy(bins, length)
  /\ length = 0 => slots = 0
  /\ length > 0 => slots >= BinCount(Bins(length))

\* What is in the cell of a position.
Cell(h, p) == h[Bin(p)][(p % BinSize) + 1]

LEMMA SequenceOf ==
  ASSUME NEW S, NEW n \in Nat, NEW f \in [1..n -> S]
  PROVE  f \in Seq(S) /\ Len(f) = n
OBVIOUS

LEMMA AppendIs ==
  ASSUME NEW S, NEW s \in Seq(S), NEW v \in S
  PROVE  Append(s, v) = [i \in 1..Len(s)+1 |-> IF i = Len(s) + 1 THEN v ELSE s[i]]
<1>1. PICK t, n : t = Append(s, v) /\ n = Len(s) + 1
  OBVIOUS
<1>2. t \in Seq(S) /\ Len(t) = n /\ n \in Nat /\ n = Len(s) + 1
      /\ \A i \in 1..n : t[i] = IF i = n THEN v ELSE s[i]
  BY <1>1
<1>3. t \in [1..n -> S]
  BY <1>2, LenProperties
<1>4. t = [i \in 1..n |-> t[i]]
  BY <1>3
<1>5. t = [i \in 1..n |-> IF i = n THEN v ELSE s[i]]
  BY <1>2, <1>4
<1> QED
  BY <1>1, <1>5

LEMMA FirstSizeFacts ==
  ASSUME NEW n \in Nat
  PROVE  /\ FirstSize(n) \in Nat /\ FirstSize(n) <= BinSize /\ FirstSize(n) <= n
         /\ \A p \in Nat : p < n /\ p < BinSize => p + 1 <= FirstSize(n)
         /\ BinCount(FirstSize(n)) \in Nat /\ BinCount(FirstSize(n)) >= FirstSize(n)
<1>1. /\ FirstSize(n) \in Nat /\ FirstSize(n) <= BinSize /\ FirstSize(n) <= n
      /\ \A p \in Nat : p < n /\ p < BinSize => p + 1 <= FirstSize(n)
  BY BinSizeAssumption DEF FirstSize
<1> QED
  BY <1>1, BinCountFacts

LEMMA CellThere ==
  ASSUME NEW n \in Nat, NEW h, Roomy(h, n), NEW p \in Nat, p < n
  PROVE  /\ Bin(p) \in DOMAIN h
         /\ (p % BinSize) + 1 \in 1..Len(h[Bin(p)])
         /\ Cell(h, p) \in Cells
<1>1. n - 1 \in Nat /\ p <= n - 1 /\ n > 0
  OBVIOUS
<1>2. Bin(p) \in Nat /\ Bin(n - 1) \in Nat /\ Bin(p) <= Bin(n - 1) /\ Bins(n) = Bin(n - 1) + 1
  BY <1>1, PositionFacts, BinMonotone, BinsFacts
<1>3. Bin(p) \in DOMAIN h
  BY <1>2 DEF Roomy
<1>4. h[Bin(p)] \in Seq(Cells) /\ Len(h[Bin(p)]) \in Nat
  BY <1>3 DEF Roomy
<1>5. p % BinSize \in 0..BinSize-1
  BY PositionFacts
<1>6. (p % BinSize) + 1 \in 1..Len(h[Bin(p)])
  <2>1. CASE Bin(p) = 0
    <3>1. p < BinSize /\ p % BinSize = p
      BY <2>1, InFirstBin
    <3>2. p + 1 <= FirstSize(n) /\ FirstSize(n) <= BinCount(FirstSize(n))
          /\ FirstSize(n) \in Nat /\ BinCount(FirstSize(n)) \in Nat
      BY <3>1, FirstSizeFacts
    <3>3. Len(h[Bin(p)]) >= BinCount(FirstSize(n))
      BY <1>3, <2>1 DEF Roomy
    <3> QED
      BY <1>4, <3>1, <3>2, <3>3
  <2>2. CASE Bin(p) # 0
    <3>1. Len(h[Bin(p)]) = BinSize
      BY <1>3, <2>2 DEF Roomy
    <3> QED
      BY <1>5, <3>1, BinSizeAssumption
  <2> QED
    BY <2>1, <2>2
<1>7. Cell(h, p) \in Cells
  <2>1. PICK s, i : s = h[Bin(p)] /\ i = (p % BinSize) + 1
    OBVIOUS
  <2>2. s \in Seq(Cells) /\ i \in 1..Len(s)
    BY <1>4, <1>6, <2>1
  <2>3. s[i] \in Cells
    BY <2>2, ElementOfSeq
  <2> QED
    BY <2>1, <2>3 DEF Cell
<1> QED
  BY <1>3, <1>6, <1>7

\* The bins with v in the cell of position p.
WithCell(h, p, v) == [h EXCEPT ![Bin(p)][(p % BinSize) + 1] = v]

\* The bins with the first one reallocated.
WithFirst(h, c) == [h EXCEPT ![0] = Resized(@, c)]

\* A cell is written; the others stay.
LEMMA Written ==
  ASSUME NEW n \in Nat, NEW v \in Values, NEW store, Roomy(store, n + 1),
         NEW h, h = WithCell(store, n, v)
  PROVE  /\ Roomy(h, n + 1)
         /\ Cell(h, n) = v
         /\ \A p \in Nat : p < n => Cell(h, p) = Cell(store, p)
<1>1. n + 1 \in Nat /\ n < n + 1
  OBVIOUS
<1>2. PICK d, i : d = Bin(n) /\ i = (n % BinSize) + 1
  OBVIOUS
<1>3. d \in DOMAIN store /\ i \in 1..Len(store[d])
  BY <1>1, <1>2, CellThere
<1>4. store[d] \in Seq(Cells) /\ v \in Cells
  BY <1>3 DEF Roomy, Cells
<1>5. PICK s : s = [store[d] EXCEPT ![i] = v]
  OBVIOUS
<1>6. s \in Seq(Cells) /\ Len(s) = Len(store[d]) /\ s[i] = v
      /\ \A j \in 1..Len(s) : j # i => s[j] = store[d][j]
  BY <1>3, <1>4, <1>5, ExceptSeq
<1>7. h = [b \in DOMAIN store |-> IF b = d THEN s ELSE store[b]]
  BY <1>2, <1>5 DEF WithCell
<1>8. DOMAIN h = DOMAIN store /\ h[d] = s /\ \A b \in DOMAIN h : b # d => h[b] = store[b]
  BY <1>3, <1>7
<1>9. \A b \in DOMAIN h : h[b] \in Seq(Cells) /\ Len(h[b]) = Len(store[b])
  BY <1>6, <1>8 DEF Roomy
<1>10. Roomy(h, n + 1)
  BY <1>8, <1>9 DEF Roomy
<1>11. Cell(h, n) = v
  BY <1>2, <1>6, <1>8 DEF Cell
<1>12. ASSUME NEW p \in Nat, p < n PROVE Cell(h, p) = Cell(store, p)
  <2>1. p < n + 1
    BY <1>12
  <2>2. PICK e, j : e = Bin(p) /\ j = (p % BinSize) + 1
    OBVIOUS
  <2>3. e \in DOMAIN store /\ j \in 1..Len(store[e])
    BY <1>1, <2>1, <2>2, CellThere
  <2>4. CASE e = d
    <3>1. j # i
      <4> SUFFICES ASSUME j = i PROVE FALSE
        OBVIOUS
      <4>1. p % BinSize = n % BinSize
        <5>1. p % BinSize \in Int /\ n % BinSize \in Int
          BY PositionFacts
        <5> QED
          BY <1>2, <2>2, <5>1
      <4>2. p = n
        BY <1>2, <2>2, <2>4, <4>1, SamePosition
      <4> QED
        BY <1>12, <4>2
    <3>2. s[j] = store[d][j]
      BY <1>6, <2>3, <2>4, <3>1
    <3> QED
      BY <1>8, <2>2, <2>4, <3>2 DEF Cell
  <2>5. CASE e # d
    BY <1>8, <2>2, <2>3, <2>5 DEF Cell
  <2> QED
    BY <2>4, <2>5
<1> QED
  BY <1>10, <1>11, <1>12

LEMMA ElementsAre ==
  ASSUME length \in Nat
  PROVE  Elements = [i \in 1..length |-> Cell(bins, i - 1)]
BY DEF Elements, Get, Cell

LEMMA NextElementsAre ==
  ASSUME length' \in Nat
  PROVE  Elements' = [i \in 1..length' |-> Cell(bins', i - 1)]
BY DEF Elements, Get, Cell

LEMMA ElementsTyped ==
  ASSUME LayoutInv
  PROVE  Elements \in Seq(Cells) /\ Len(Elements) = length
         /\ \A i \in 1..length : Elements[i] = Cell(bins, i - 1)
<1>1. length \in Nat /\ Elements = [i \in 1..length |-> Cell(bins, i - 1)]
  BY ElementsAre DEF LayoutInv
<1>2. ASSUME NEW i \in 1..length PROVE Cell(bins, i - 1) \in Cells
  <2>1. i - 1 \in Nat /\ i - 1 < length
    BY <1>1
  <2> QED
    BY <1>1, <2>1, CellThere DEF LayoutInv
<1>3. Elements \in [1..length -> Cells]
  BY <1>1, <1>2
<1>4. Elements \in Seq(Cells) /\ Len(Elements) = length
  BY <1>1, <1>3, SequenceOf
<1> QED
  BY <1>1, <1>4

\* Whatever was done with the bins, if the elements are still there, the new one comes
\* after them.
LEMMA PushSeen ==
  ASSUME LayoutInv, NEW v \in Values, NEW store, Roomy(store, length + 1),
         \A p \in Nat : p < length => Cell(store, p) = Cell(bins, p),
         Write(store, v)
  PROVE  /\ length' = length + 1 /\ popped' = popped
         /\ Roomy(bins', length')
         /\ Elements' = Append(Elements, v)
<1>1. PICK n \in Nat : n = length
  BY DEF LayoutInv
<1>2. length' = n + 1 /\ popped' = popped /\ n + 1 \in Nat
  BY <1>1 DEF Write
<1>3. PICK h : h = bins'
  OBVIOUS
<1>4. h = WithCell(store, n, v)
  BY <1>1, <1>3 DEF Write, WithCell
<1>5. Roomy(store, n + 1)
  BY <1>1
<1>6. /\ Roomy(h, n + 1) /\ Cell(h, n) = v
      /\ \A p \in Nat : p < n => Cell(h, p) = Cell(store, p)
  BY <1>4, <1>5, Written
<1>7. Elements' = [i \in 1..n+1 |-> Cell(h, i - 1)]
  BY <1>2, <1>3, NextElementsAre
<1>8. Elements \in Seq(Cells) /\ Len(Elements) = n /\ \A i \in 1..n : Elements[i] = Cell(bins, i - 1)
  BY <1>1, ElementsTyped
<1>9. PICK s : s = Elements
  OBVIOUS
<1>10. Append(s, v) = [i \in 1..n+1 |-> IF i = n + 1 THEN v ELSE s[i]]
  <2>1. s \in Seq(Cells) /\ v \in Cells /\ Len(s) = n
    BY <1>8, <1>9 DEF Cells
  <2> QED
    BY <2>1, AppendIs
<1>11. ASSUME NEW i \in 1..n+1 PROVE Cell(h, i - 1) = IF i = n + 1 THEN v ELSE s[i]
  <2>1. CASE i = n + 1
    <3>1. i - 1 = n
      BY <2>1
    <3> QED
      BY <1>6, <2>1, <3>1
  <2>2. CASE i # n + 1
    <3>1. i \in 1..n /\ i - 1 \in Nat /\ i - 1 < n
      BY <2>2
    <3>2. Cell(h, i - 1) = Cell(store, i - 1) /\ Cell(store, i - 1) = Cell(bins, i - 1)
      BY <1>1, <1>6, <3>1
    <3> QED
      BY <1>8, <1>9, <2>2, <3>1, <3>2
  <2> QED
    BY <2>1, <2>2
<1>12. Elements' = Append(s, v)
  BY <1>7, <1>10, <1>11
<1>13. length' = length + 1 /\ popped' = popped
  BY <1>1, <1>2
<1>14. Roomy(bins', length')
  BY <1>2, <1>3, <1>6
<1>15. Elements' = Append(Elements, v)
  BY <1>9, <1>12
<1> QED
  BY <1>13, <1>14, <1>15

-----------------------------------------------------------------------------
(* The bins of the stack: operations.                                      *)

\* A reallocation keeps what it has room for.
LEMMA ResizedKeeps ==
  ASSUME NEW s \in Seq(Cells), NEW n \in Nat
  PROVE  /\ Resized(s, n) \in Seq(Cells) /\ Len(Resized(s, n)) = n
         /\ \A i \in 1..n : i <= Len(s) => Resized(s, n)[i] = s[i]
<1>1. PICK t : t = [i \in 1..n |-> IF i <= Len(s) THEN s[i] ELSE Junk]
  OBVIOUS
<1>2. \A i \in 1..n : (IF i <= Len(s) THEN s[i] ELSE Junk) \in Cells
  BY ElementOfSeq DEF Cells
<1>3. t \in [1..n -> Cells]
  BY <1>1, <1>2
<1>4. t \in Seq(Cells) /\ Len(t) = n
  BY <1>3, SequenceOf
<1>5. t = Resized(s, n)
  BY <1>1 DEF Resized
<1> QED
  BY <1>1, <1>4, <1>5

LEMMA BlankCells ==
  ASSUME NEW n \in Nat
  PROVE  Blank(n) \in Seq(Cells) /\ Len(Blank(n)) = n
<1>1. PICK t : t = [i \in 1..n |-> Junk]
  OBVIOUS
<1>2. t \in [1..n -> Cells]
  BY <1>1 DEF Cells
<1>3. t \in Seq(Cells) /\ Len(t) = n
  BY <1>2, SequenceOf
<1> QED
  BY <1>1, <1>3 DEF Blank

\* The first bin alone is resized.
LEMMA ResizedFirst ==
  ASSUME NEW n \in Nat, NEW m \in Nat, NEW h, Roomy(h, n), 0 \in DOMAIN h,
         Bins(m) = Bins(n), NEW c \in Nat, c = BinCount(FirstSize(m)),
         NEW g, g = WithFirst(h, c)
  PROVE  /\ Roomy(g, m)
         /\ \A p \in Nat : p < n /\ p < m => Cell(g, p) = Cell(h, p)
<1>1. h[0] \in Seq(Cells)
  BY DEF Roomy
<1>2. PICK s : s = Resized(h[0], c)
  OBVIOUS
<1>3. s \in Seq(Cells) /\ Len(s) = c /\ \A i \in 1..c : i <= Len(h[0]) => s[i] = h[0][i]
  BY <1>1, <1>2, ResizedKeeps
<1>4. g = [b \in DOMAIN h |-> IF b = 0 THEN s ELSE h[b]]
  BY <1>2 DEF WithFirst
<1>5. DOMAIN g = DOMAIN h /\ g[0] = s /\ \A b \in DOMAIN h : b # 0 => g[b] = h[b]
  BY <1>4
<1>6. /\ \A b \in DOMAIN g : g[b] \in Seq(Cells)
      /\ \A b \in DOMAIN g : b # 0 => Len(g[b]) = BinSize
  BY <1>3, <1>5 DEF Roomy
<1>7. DOMAIN g = 0..Bins(m)-1
  BY <1>5 DEF Roomy
<1>8. Len(g[0]) >= BinCount(FirstSize(m))
  BY <1>3, <1>5
<1>9. Roomy(g, m)
  BY <1>6, <1>7, <1>8 DEF Roomy
<1>10. ASSUME NEW p \in Nat, p < n, p < m PROVE Cell(g, p) = Cell(h, p)
  <2>1. PICK d, i : d = Bin(p) /\ i = (p % BinSize) + 1
    OBVIOUS
  <2>2. d \in DOMAIN h /\ i \in 1..Len(h[d]) /\ i \in 1..Len(g[d])
    BY <1>9, <1>10, <2>1, CellThere
  <2>3. g[d][i] = h[d][i]
    <3>1. CASE d = 0
      <4>1. i \in 1..c /\ i <= Len(h[0])
        BY <1>1, <1>3, <1>5, <2>2, <3>1
      <4> QED
        BY <1>3, <1>5, <3>1, <4>1
    <3>2. CASE d # 0
      BY <1>5, <2>2, <3>2
    <3> QED
      BY <3>1, <3>2
  <2> QED
    BY <2>1, <2>3 DEF Cell
<1> QED
  BY <1>9, <1>10

LEMMA PushFirstBinStep ==
  ASSUME LayoutInv, NEW v \in Values, PushFirstBin(v)
  PROVE  LayoutInv' /\ Elements' = Append(Elements, v) /\ popped' = popped
<1>1. PICK n \in Nat : n = length
  BY DEF LayoutInv
<1>2. n < BinSize /\ n + 1 \in Nat /\ Bin(n) = 0
  BY <1>1, InFirstBin DEF PushFirstBin
<1>3. Bins(n + 1) = 1 /\ FirstSize(n + 1) = n + 1
  BY <1>2, BinsFacts, BinSizeAssumption DEF FirstSize
<1>4. PICK c \in Nat : c = BinCount(n + 1)
  BY <1>2, BinCountFacts
<1>5. CASE n = 0
  <2>1. PICK store : store = [b \in {0} |-> Blank(CapInit)]
    OBVIOUS
  <2>2. DOMAIN store = {0} /\ store[0] = Blank(CapInit)
    BY <2>1
  <2>3. store[0] \in Seq(Cells) /\ Len(store[0]) = CapInit
    BY <2>2, BlankCells, CapInitAssumption
  <2>4. BinCount(n) # n /\ BinCount(FirstSize(n + 1)) = 1
    BY <1>3, <1>5, BinCountFacts
  <2>5. DOMAIN store = 0..Bins(n + 1)-1
    BY <1>3, <2>2
  <2>6. Roomy(store, n + 1)
    BY <2>2, <2>3, <2>4, <2>5, CapInitAssumption DEF Roomy
  <2>7. Write(store, v) /\ slots' = 1
    BY <1>1, <1>5, <2>1, <2>4 DEF PushFirstBin
  <2>8. \A p \in Nat : p < length => Cell(store, p) = Cell(bins, p)
    BY <1>1, <1>5
  <2>9. /\ length' = n + 1 /\ popped' = popped /\ Roomy(bins', length')
        /\ Elements' = Append(Elements, v)
    BY <1>1, <2>6, <2>7, <2>8, PushSeen
  <2>10. slots' >= BinCount(Bins(length')) /\ length' > 0
    BY <1>2, <1>3, <1>5, <2>7, <2>9, BinCountFacts
  <2>11. LayoutInv'
    BY <1>2, <2>7, <2>9, <2>10 DEF LayoutInv
  <2> QED
    BY <2>9, <2>11
<1>6. CASE n # 0
  <2>1. Bins(n) = 1 /\ FirstSize(n) = n /\ 0 \in DOMAIN bins
    <3>1. n - 1 \in Nat /\ n - 1 < BinSize
      BY <1>2, <1>6, BinSizeAssumption
    <3>2. Bin(n - 1) = 0 /\ Bins(n) = Bin(n - 1) + 1
      BY <1>6, <3>1, InFirstBin, BinsFacts
    <3>3. DOMAIN bins = 0..Bins(n)-1
      BY <1>1 DEF LayoutInv, Roomy
    <3> QED
      BY <1>2, <3>2, <3>3 DEF FirstSize
  <2>2. Roomy(bins, n)
    BY <1>1 DEF LayoutInv
  <2>3. PICK store : store = IF BinCount(n) = n THEN WithFirst(bins, c) ELSE bins
    OBVIOUS
  <2>4. /\ Roomy(store, n + 1)
        /\ \A p \in Nat : p < n => Cell(store, p) = Cell(bins, p)
    <3>1. CASE BinCount(n) = n
      <4>1. store = WithFirst(bins, c)
        BY <2>3, <3>1
      <4>2. c = BinCount(FirstSize(n + 1)) /\ Bins(n + 1) = Bins(n)
        BY <1>3, <1>4, <2>1
      <4>3. /\ Roomy(store, n + 1)
            /\ \A p \in Nat : p < n /\ p < n + 1 => Cell(store, p) = Cell(bins, p)
        BY <1>2, <2>1, <2>2, <4>1, <4>2, ResizedFirst
      <4> QED
        BY <4>3
    <3>2. CASE BinCount(n) # n
      <4>1. store = bins
        BY <2>3, <3>2
      <4>2. c <= BinCount(n) /\ BinCount(n) \in Nat
        BY <1>4, <3>2, BinCountFacts
      <4>3. Len(bins[0]) >= BinCount(n) /\ Len(bins[0]) \in Nat
        <5>1. bins[0] \in Seq(Cells)
          BY <2>1, <2>2 DEF Roomy
        <5> QED
          BY <2>1, <2>2, <5>1 DEF Roomy
      <4>4. Len(bins[0]) >= BinCount(FirstSize(n + 1))
        BY <1>3, <1>4, <4>2, <4>3
      <4>5. Roomy(bins, n + 1)
        BY <1>3, <2>1, <2>2, <4>4 DEF Roomy
      <4> QED
        BY <4>1, <4>5
    <3> QED
      BY <3>1, <3>2
  <2>5. Write(store, v) /\ slots' = slots
    BY <1>1, <1>4, <1>6, <2>3 DEF PushFirstBin, WithFirst
  <2>6. /\ length' = n + 1 /\ popped' = popped /\ Roomy(bins', length')
        /\ Elements' = Append(Elements, v)
    BY <1>1, <2>4, <2>5, PushSeen
  <2>7. LayoutInv'
    BY <1>1, <1>2, <1>3, <1>6, <2>1, <2>5, <2>6 DEF LayoutInv
  <2> QED
    BY <2>6, <2>7
<1> QED
  BY <1>5, <1>6

\* Beyond the first bin nothing is left to be asked of it.
LEMMA LaterBin ==
  ASSUME NEW n \in Nat, Bin(n) # 0
  PROVE  /\ n >= BinSize /\ n > 0 /\ n - 1 \in Nat /\ n + 1 \in Nat
         /\ FirstSize(n) = BinSize /\ FirstSize(n + 1) = BinSize
         /\ Bins(n + 1) = Bin(n) + 1 /\ Bins(n) = Bin(n - 1) + 1
         /\ Bin(n) \in Nat /\ Bin(n - 1) \in Nat
<1>1. n >= BinSize
  BY InFirstBin, BinSizeAssumption
<1>2. n > 0 /\ n - 1 \in Nat /\ n + 1 \in Nat /\ FirstSize(n) = BinSize /\ FirstSize(n + 1) = BinSize
  BY <1>1, BinSizeAssumption DEF FirstSize
<1>3. Bins(n + 1) = Bin(n) + 1 /\ Bins(n) = Bin(n - 1) + 1
  BY <1>2, BinsFacts
<1>4. Bin(n) \in Nat /\ Bin(n - 1) \in Nat
  BY <1>2, PositionFacts
<1> QED
  BY <1>1, <1>2, <1>3, <1>4

LEMMA PushSameBinStep ==
  ASSUME LayoutInv, NEW v \in Values, PushSameBin(v)
  PROVE  LayoutInv' /\ Elements' = Append(Elements, v) /\ popped' = popped
<1>1. PICK n \in Nat : n = length
  BY DEF LayoutInv
<1>2. Bin(n) # 0 /\ Bin(n) = Bin(n - 1) /\ Write(bins, v) /\ slots' = slots
  BY <1>1 DEF PushSameBin
<1>3. /\ n > 0 /\ n + 1 \in Nat
      /\ FirstSize(n) = FirstSize(n + 1) /\ Bins(n + 1) = Bins(n)
  BY <1>2, LaterBin
<1>4. Roomy(bins, n + 1)
  BY <1>1, <1>3 DEF LayoutInv, Roomy
<1>5. /\ length' = n + 1 /\ popped' = popped /\ Roomy(bins', length')
      /\ Elements' = Append(Elements, v)
  BY <1>1, <1>2, <1>4, PushSeen
<1>6. LayoutInv'
  BY <1>1, <1>2, <1>3, <1>5 DEF LayoutInv
<1> QED
  BY <1>5, <1>6

LEMMA PushNewBinStep ==
  ASSUME LayoutInv, NEW v \in Values, PushNewBin(v)
  PROVE  LayoutInv' /\ Elements' = Append(Elements, v) /\ popped' = popped
<1>1. PICK n \in Nat : n = length
  BY DEF LayoutInv
<1>2. Bin(n) # 0 /\ Bin(n) # Bin(n - 1)
  BY <1>1 DEF PushNewBin
<1>3. /\ n > 0 /\ n - 1 \in Nat /\ n + 1 \in Nat
      /\ FirstSize(n) = BinSize /\ FirstSize(n + 1) = BinSize
      /\ Bins(n + 1) = Bin(n) + 1 /\ Bins(n) = Bin(n - 1) + 1
      /\ Bin(n) \in Nat /\ Bin(n - 1) \in Nat
  BY <1>2, LaterBin
<1>4. Bins(n) = Bin(n) /\ (n - 1) + 1 = n
  <2>1. (n - 1) + 1 = n
    BY <1>3
  <2>2. Bin((n - 1) + 1) = Bin(n - 1) \/ Bin((n - 1) + 1) = Bin(n - 1) + 1
    BY <1>3, NextPosition
  <2> QED
    BY <1>2, <1>3, <2>1, <2>2
<1>5. PICK d, needed, resize :
        d = Bin(n) /\ needed = BinCount(d + 1) /\ resize = (BinCount(d) # needed)
  OBVIOUS
<1>6. PICK kept, store :
        /\ kept = IF resize THEN {b \in DOMAIN bins : b < needed} ELSE DOMAIN bins
        /\ store = [b \in kept \union {d} |-> IF b = d THEN Blank(BinSize) ELSE bins[b]]
  OBVIOUS
<1>7. slots' = (IF resize THEN needed ELSE slots) /\ Write(store, v)
  BY <1>1, <1>5, <1>6 DEF PushNewBin
<1>8. Roomy(bins, n) /\ DOMAIN bins = 0..d-1 /\ d \in Nat /\ d # 0
  BY <1>1, <1>2, <1>3, <1>4, <1>5 DEF LayoutInv, Roomy
<1>9. needed \in Nat /\ needed >= d + 1 /\ BinCount(d) \in Nat
  BY <1>5, <1>8, BinCountFacts
<1>10. kept = 0..d-1
  <2>1. {b \in DOMAIN bins : b < needed} = 0..d-1
    BY <1>8, <1>9
  <2>2. kept = {b \in DOMAIN bins : b < needed} \/ kept = DOMAIN bins
    BY <1>6, Zenon
  <2> QED
    BY <1>8, <2>1, <2>2
<1>11. /\ DOMAIN store = 0..d /\ store[d] = Blank(BinSize)
       /\ \A b \in 0..d-1 : store[b] = bins[b]
  <2>1. kept \union {d} = 0..d
    BY <1>8, <1>10
  <2> QED
    BY <1>6, <1>8, <2>1
<1>12. Blank(BinSize) \in Seq(Cells) /\ Len(Blank(BinSize)) = BinSize
  BY BlankCells, BinSizeAssumption
<1>13. Roomy(store, n + 1)
  <2>1. DOMAIN store = 0..Bins(n + 1)-1
    BY <1>3, <1>5, <1>8, <1>11
  <2>2. \A b \in DOMAIN store : b = d \/ (b \in DOMAIN bins /\ store[b] = bins[b])
    BY <1>8, <1>11
  <2>3. /\ \A b \in DOMAIN store : store[b] \in Seq(Cells)
        /\ \A b \in DOMAIN store : b # 0 => Len(store[b]) = BinSize
    BY <1>8, <1>11, <1>12, <2>2 DEF Roomy
  <2>4. 0 \in DOMAIN bins /\ store[0] = bins[0]
    BY <1>8, <1>11
  <2>5. Len(store[0]) >= BinCount(FirstSize(n + 1))
    BY <1>3, <1>8, <2>4 DEF Roomy
  <2> QED
    BY <2>1, <2>3, <2>5 DEF Roomy
<1>14. ASSUME NEW p \in Nat, p < length PROVE Cell(store, p) = Cell(bins, p)
  <2>1. Bin(p) \in DOMAIN bins
    BY <1>1, <1>8, <1>14, CellThere
  <2>2. store[Bin(p)] = bins[Bin(p)]
    BY <1>8, <1>11, <2>1
  <2> QED
    BY <2>2 DEF Cell
<1>15. /\ length' = n + 1 /\ popped' = popped /\ Roomy(bins', length')
       /\ Elements' = Append(Elements, v)
  BY <1>1, <1>7, <1>13, <1>14, PushSeen
<1>16. slots' \in Nat /\ slots' >= BinCount(Bins(length'))
  <2>1. BinCount(Bins(length')) = needed
    BY <1>3, <1>5, <1>15
  <2>2. CASE resize
    BY <1>7, <1>9, <2>1, <2>2
  <2>3. CASE ~resize
    <3>1. slots' = slots /\ BinCount(d) = needed
      BY <1>5, <1>7, <2>3
    <3>2. slots \in Nat /\ slots >= BinCount(d)
      BY <1>1, <1>3, <1>4, <1>5 DEF LayoutInv
    <3> QED
      BY <2>1, <3>1, <3>2
  <2> QED
    BY <2>2, <2>3
<1>17. LayoutInv'
  BY <1>3, <1>15, <1>16 DEF LayoutInv
<1> QED
  BY <1>15, <1>17

LEMMA PrefixOf ==
  ASSUME NEW S, NEW s \in Seq(S), NEW m \in Nat, m <= Len(s)
  PROVE  /\ SubSeq(s, 1, m) \in Seq(S) /\ Len(SubSeq(s, 1, m)) = m
         /\ \A i \in 1..m : SubSeq(s, 1, m)[i] = s[i]
<1>1. \A i \in 1..m : s[i] \in S
  BY ElementOfSeq
<1>2. /\ SubSeq(s, 1, m) \in Seq(S)
      /\ Len(SubSeq(s, 1, m)) = IF 1 <= m THEN m - 1 + 1 ELSE 0
      /\ \A i \in 1..m-1+1 : SubSeq(s, 1, m)[i] = s[1+i-1]
  BY <1>1, SubSeqProperties
<1>3. m - 1 + 1 = m /\ \A i \in 1..m : 1 + i - 1 = i
  OBVIOUS
<1> QED
  BY <1>2, <1>3

\* Whatever was done with the bins, if the elements but the last are still there, the
\* last was taken off.
LEMMA PopSeen ==
  ASSUME LayoutInv, length > 0, popped' = TopElement, length' = length - 1,
         \A p \in Nat : p < length - 1 => Cell(bins', p) = Cell(bins, p)
  PROVE  /\ Elements # <<>>
         /\ popped' = Elements[Len(Elements)]
         /\ Elements' = SubSeq(Elements, 1, Len(Elements) - 1)
<1>1. PICK n \in Nat : n = length /\ n > 0
  BY DEF LayoutInv
<1>2. PICK m \in Nat : m = n - 1 /\ m < n
  BY <1>1
<1>3. PICK s : s = Elements
  OBVIOUS
<1>4. s \in Seq(Cells) /\ Len(s) = n /\ \A i \in 1..n : s[i] = Cell(bins, i - 1)
  BY <1>1, <1>3, ElementsTyped
<1>5. s # <<>>
  BY <1>1, <1>4
<1>6. popped' = s[n]
  <2>1. popped' = Cell(bins, n - 1)
    <3>1. length > 0 /\ length = n /\ ~(n <= n - 1)
      BY <1>1
    <3>2. popped' = Get(n - 1)
      BY <3>1 DEF TopElement
    <3>3. Get(n - 1) = Cell(bins, n - 1)
      BY <3>1 DEF Get, Cell
    <3> QED
      BY <3>2, <3>3
  <2>2. n \in 1..n
    BY <1>1
  <2> QED
    BY <1>4, <2>1, <2>2
<1>7. Elements' = [i \in 1..m |-> Cell(bins', i - 1)]
  BY <1>1, <1>2, NextElementsAre
<1>8. ASSUME NEW i \in 1..m PROVE Cell(bins', i - 1) = s[i]
  <2>1. i \in 1..n /\ i - 1 \in Nat /\ i - 1 < length - 1
    BY <1>1, <1>2
  <2>2. Cell(bins', i - 1) = Cell(bins, i - 1)
    BY <2>1
  <2> QED
    BY <1>4, <2>1, <2>2
<1>9. \A i \in 1..m : s[i] \in Cells
  BY <1>2, <1>4, ElementOfSeq
<1>10. PICK t : t = Elements'
  OBVIOUS
<1>11. t = [i \in 1..m |-> s[i]]
  BY <1>7, <1>8, <1>10
<1>12. t \in Seq(Cells) /\ Len(t) = m
  <2>1. t \in [1..m -> Cells]
    BY <1>9, <1>11
  <2> QED
    BY <2>1, SequenceOf
<1>13. t = SubSeq(s, 1, m)
  <2>1. /\ SubSeq(s, 1, m) \in Seq(Cells) /\ Len(SubSeq(s, 1, m)) = m
        /\ \A i \in 1..m : SubSeq(s, 1, m)[i] = s[i]
    BY <1>2, <1>4, PrefixOf
  <2>2. \A i \in 1..m : t[i] = SubSeq(s, 1, m)[i]
    BY <1>11, <2>1
  <2> QED
    BY <1>12, <2>1, <2>2, SeqEqual
<1> QED
  BY <1>2, <1>3, <1>4, <1>5, <1>6, <1>10, <1>13

LEMMA PopLastStep ==
  ASSUME LayoutInv, PopLast
  PROVE  LayoutInv' /\ length > 0 /\ popped' = TopElement /\ length' = length - 1
         /\ \A p \in Nat : p < length - 1 => Cell(bins', p) = Cell(bins, p)
<1>1. length = 1 /\ popped' = TopElement /\ bins' = <<>> /\ slots' = 0 /\ length' = 0
  BY DEF PopLast
<1>2. \A p \in Nat : ~(p < length - 1)
  BY <1>1
<1>3. Roomy(<<>>, 0)
  BY BinsFacts DEF Roomy
<1>4. LayoutInv'
  BY <1>1, <1>3 DEF LayoutInv
<1> QED
  BY <1>1, <1>2, <1>4

LEMMA PopFirstBinStep ==
  ASSUME LayoutInv, PopFirstBin
  PROVE  LayoutInv' /\ length > 0 /\ popped' = TopElement /\ length' = length - 1
         /\ \A p \in Nat : p < length - 1 => Cell(bins', p) = Cell(bins, p)
<1>1. PICK n \in Nat : n = length
  BY DEF LayoutInv
<1>2. /\ n > 1 /\ n <= BinSize /\ popped' = TopElement /\ length' = n - 1 /\ slots' = slots
      /\ bins' = IF BinCount(n) = BinCount(n - 1) THEN bins
                 ELSE WithFirst(bins, BinCount(n - 1))
  BY <1>1 DEF PopFirstBin, WithFirst
<1>3. PICK m \in Nat : m = n - 1 /\ m < n /\ m > 0 /\ m - 1 \in Nat
  BY <1>2
<1>4. FirstSize(n) = n /\ FirstSize(m) = m
  BY <1>2, <1>3, BinSizeAssumption DEF FirstSize
<1>5. Bins(n) = 1 /\ Bins(m) = 1
  <2>1. Bin(m) = 0 /\ Bin(m - 1) = 0
    BY <1>2, <1>3, InFirstBin, BinSizeAssumption
  <2> QED
    BY <1>2, <1>3, <2>1, BinsFacts
<1>6. Roomy(bins, n) /\ 0 \in DOMAIN bins
  BY <1>1, <1>5 DEF LayoutInv, Roomy
<1>7. PICK c \in Nat : c = BinCount(FirstSize(m))
  BY <1>3, <1>4, BinCountFacts
<1>8. /\ Roomy(bins', m)
      /\ \A p \in Nat : p < n /\ p < m => Cell(bins', p) = Cell(bins, p)
  <2>1. CASE BinCount(n) = BinCount(m)
    <3>1. bins' = bins
      BY <1>2, <1>3, <2>1
    <3>2. Roomy(bins, m)
      BY <1>4, <1>5, <1>6, <2>1 DEF Roomy
    <3> QED
      BY <3>1, <3>2
  <2>2. CASE BinCount(n) # BinCount(m)
    <3>1. PICK g : g = WithFirst(bins, c)
      OBVIOUS
    <3>2. bins' = g
      BY <1>2, <1>3, <1>4, <1>7, <2>2, <3>1
    <3>3. /\ Roomy(g, m)
          /\ \A p \in Nat : p < n /\ p < m => Cell(g, p) = Cell(bins, p)
      BY <1>5, <1>6, <1>7, <3>1, ResizedFirst
    <3> QED
      BY <3>2, <3>3
  <2> QED
    BY <2>1, <2>2
<1>9. LayoutInv'
  <2>1. slots \in Nat /\ slots >= BinCount(Bins(n))
    BY <1>1, <1>2 DEF LayoutInv
  <2> QED
    BY <1>2, <1>3, <1>5, <1>8, <2>1 DEF LayoutInv
<1> QED
  BY <1>1, <1>2, <1>3, <1>8, <1>9

LEMMA PopLaterBinStep ==
  ASSUME LayoutInv, PopLaterBin
  PROVE  LayoutInv' /\ length > 0 /\ popped' = TopElement /\ length' = length - 1
         /\ \A p \in Nat : p < length - 1 => Cell(bins', p) = Cell(bins, p)
<1>1. PICK n \in Nat : n = length
  BY DEF LayoutInv
<1>2. /\ n > 1 /\ n > BinSize /\ popped' = TopElement /\ length' = n - 1 /\ slots' = slots
      /\ bins' = IF Bin(n - 1) = Bin(n - 2) THEN bins
                 ELSE [b \in DOMAIN bins \ {Bin(n - 1)} |-> bins[b]]
  BY <1>1 DEF PopLaterBin
<1>3. PICK m \in Nat : m = n - 1 /\ m < n /\ m > 0 /\ m - 1 \in Nat /\ n - 2 = m - 1 /\ m >= BinSize
  BY <1>2, BinSizeAssumption
<1>4. FirstSize(n) = BinSize /\ FirstSize(m) = BinSize
  BY <1>2, <1>3, BinSizeAssumption DEF FirstSize
<1>5. PICK d, e : d = Bin(m) /\ e = Bin(m - 1)
  OBVIOUS
<1>6. d \in Nat /\ e \in Nat /\ d # 0 /\ (d = e \/ d = e + 1)
  <2>1. d \in Nat /\ e \in Nat /\ d # 0
    BY <1>3, <1>5, PositionFacts, InFirstBin, BinSizeAssumption
  <2>2. (m - 1) + 1 = m
    BY <1>3
  <2>3. Bin((m - 1) + 1) = Bin(m - 1) \/ Bin((m - 1) + 1) = Bin(m - 1) + 1
    BY <1>3, NextPosition
  <2> QED
    BY <1>5, <2>1, <2>2, <2>3
<1>7. Bins(n) = d + 1 /\ Bins(m) = e + 1
  BY <1>2, <1>3, <1>5, BinsFacts
<1>8. Roomy(bins, n) /\ DOMAIN bins = 0..d
  BY <1>1, <1>6, <1>7 DEF LayoutInv, Roomy
<1>9. PICK h : h = bins'
  OBVIOUS
<1>10. DOMAIN h = 0..e /\ \A b \in 0..e : h[b] = bins[b] /\ b \in DOMAIN bins
  <2>1. CASE d = e
    <3>1. h = bins
      BY <1>2, <1>3, <1>5, <1>9, <2>1
    <3> QED
      BY <1>6, <1>8, <2>1, <3>1
  <2>2. CASE d # e
    <3>1. h = [b \in DOMAIN bins \ {d} |-> bins[b]]
      BY <1>2, <1>3, <1>5, <1>9, <2>2
    <3>2. DOMAIN bins \ {d} = 0..e
      BY <1>6, <1>8, <2>2
    <3>3. h = [b \in 0..e |-> bins[b]]
      BY <3>1, <3>2
    <3>4. 0..e \subseteq DOMAIN bins
      BY <3>2
    <3> QED
      BY <3>3, <3>4
  <2> QED
    BY <2>1, <2>2
<1>11. Roomy(h, m)
  <2>1. DOMAIN h = 0..Bins(m)-1
    BY <1>6, <1>7, <1>10
  <2>2. /\ \A b \in DOMAIN h : h[b] \in Seq(Cells)
        /\ \A b \in DOMAIN h : b # 0 => Len(h[b]) = BinSize
    BY <1>8, <1>10 DEF Roomy
  <2>3. 0 \in DOMAIN bins /\ h[0] = bins[0]
    BY <1>6, <1>10
  <2>4. Len(h[0]) >= BinCount(FirstSize(m))
    BY <1>4, <1>8, <2>3 DEF Roomy
  <2> QED
    BY <2>1, <2>2, <2>4 DEF Roomy
<1>12. ASSUME NEW p \in Nat, p < length - 1 PROVE Cell(bins', p) = Cell(bins, p)
  <2>1. p < m
    BY <1>1, <1>3, <1>12
  <2>2. Bin(p) \in DOMAIN h
    BY <1>11, <2>1, CellThere
  <2>3. h[Bin(p)] = bins[Bin(p)]
    BY <1>10, <2>2
  <2> QED
    BY <1>9, <2>3 DEF Cell
<1>13. slots \in Nat /\ slots >= BinCount(Bins(m))
  <2>1. slots \in Nat /\ slots >= BinCount(Bins(n))
    BY <1>1, <1>2 DEF LayoutInv
  <2>2. e + 1 \in Nat /\ d + 1 \in Nat /\ e + 1 <= d + 1
    BY <1>6
  <2>3. BinCount(e + 1) <= BinCount(d + 1) /\ BinCount(e + 1) \in Nat /\ BinCount(d + 1) \in Nat
    BY <2>2, BinCountFacts
  <2> QED
    BY <1>7, <2>1, <2>3
<1>14. LayoutInv'
  BY <1>2, <1>3, <1>9, <1>11, <1>13 DEF LayoutInv
<1> QED
  BY <1>1, <1>2, <1>12, <1>14

\* Nothing is left when the stack is freed.
LEMMA FreeStackStep ==
  ASSUME LayoutInv, FreeStack
  PROVE  LayoutInv' /\ Elements' = <<>> /\ popped' = None
<1>1. /\ bins' = [b \in {c \in DOMAIN bins : c >= Bins(length)} |-> bins[b]]
      /\ slots' = (IF length > 0 THEN 0 ELSE slots) /\ length' = 0 /\ popped' = None
  BY DEF FreeStack
<1>2. DOMAIN bins = 0..Bins(length)-1 /\ Bins(length) \in Nat /\ length \in Nat
  BY BinsFacts DEF LayoutInv, Roomy
<1>3. {c \in DOMAIN bins : c >= Bins(length)} = {}
  BY <1>2
<1>4. DOMAIN bins' = {}
  BY <1>1, <1>3
<1>5. Roomy(bins', 0)
  BY <1>4, BinsFacts DEF Roomy
<1>6. slots' = 0
  BY <1>1, <1>2 DEF LayoutInv
<1>7. LayoutInv'
  BY <1>1, <1>5, <1>6 DEF LayoutInv
<1>8. Elements' = <<>>
  <2>1. Elements' = [i \in 1..0 |-> Cell(bins', i - 1)]
    BY <1>1, NextElementsAre
  <2> QED
    BY <2>1
<1> QED
  BY <1>1, <1>7, <1>8

LEMMA StackInitLaidOut ==
  ASSUME StackInit
  PROVE  LayoutInv /\ Elements = <<>> /\ popped = None
<1>1. length = 0 /\ slots = 0 /\ bins = <<>> /\ popped = None
  BY DEF StackInit
<1>2. Roomy(bins, 0)
  BY <1>1, BinsFacts DEF Roomy
<1>3. LayoutInv
  BY <1>1, <1>2 DEF LayoutInv
<1>4. Elements = <<>>
  BY <1>1 DEF Elements
<1> QED
  BY <1>1, <1>3, <1>4

-----------------------------------------------------------------------------
(* The stack implements the plain one.                                     *)

LEMMA StackStep ==
  ASSUME LayoutInv, [StackNext]_stackVars
  PROVE  LayoutInv' /\ [Abstract!Next]_<<Elements, popped>>
<1>1. CASE UNCHANGED stackVars
  BY <1>1 DEF stackVars, LayoutInv, Elements, Get
<1>2. ASSUME NEW v \in Values, PushFirstBin(v) \/ PushSameBin(v) \/ PushNewBin(v)
      PROVE  LayoutInv' /\ Abstract!Next
  <2>1. LayoutInv' /\ Elements' = Append(Elements, v) /\ popped' = popped
    BY <1>2, PushFirstBinStep, PushSameBinStep, PushNewBinStep
  <2> QED
    BY <2>1 DEF Abstract!Next, Abstract!Push
<1>3. ASSUME PopEmpty PROVE LayoutInv' /\ Abstract!Next
  <2>1. length = 0 /\ popped' = None /\ UNCHANGED <<length, slots, bins>>
    BY <1>3 DEF PopEmpty
  <2>2. LayoutInv' /\ Elements' = Elements
    BY <2>1 DEF LayoutInv, Elements, Get
  <2>3. Elements = <<>>
    BY <2>1 DEF Elements
  <2> QED
    BY <2>1, <2>2, <2>3 DEF Abstract!Next, Abstract!Pop
<1>4. ASSUME PopLast \/ PopFirstBin \/ PopLaterBin PROVE LayoutInv' /\ Abstract!Next
  <2>1. LayoutInv' /\ length > 0 /\ popped' = TopElement /\ length' = length - 1
        /\ \A p \in Nat : p < length - 1 => Cell(bins', p) = Cell(bins, p)
    BY <1>4, PopLastStep, PopFirstBinStep, PopLaterBinStep
  <2>2. /\ Elements # <<>>
        /\ popped' = Elements[Len(Elements)]
        /\ Elements' = SubSeq(Elements, 1, Len(Elements) - 1)
    BY <2>1, PopSeen
  <2> QED
    BY <2>1, <2>2 DEF Abstract!Next, Abstract!Pop
<1>5. ASSUME FreeStack PROVE LayoutInv' /\ Abstract!Next
  <2>1. LayoutInv' /\ Elements' = <<>> /\ popped' = None
    BY <1>5, FreeStackStep
  <2> QED
    BY <2>1 DEF Abstract!Next, Abstract!Clear, Abstract!Init
<1> QED
  BY <1>1, <1>2, <1>3, <1>4, <1>5 DEF StackNext

-----------------------------------------------------------------------------
(* A walk over the bins.                                                   *)

\* K are the joins of the first of the m sequences ss.
Joined(K, ss, m) ==
  /\ K = [k \in 1..m |-> K[k]]
  /\ K[1] = ss[1]
  /\ \A k \in 2..m : K[k] = K[k - 1] \o ss[k]

\* Sequences that are flattened are joined one after the other.
LEMMA FlattenIs ==
  ASSUME NEW m \in Nat \ {0}, NEW ss, Len(ss) = m, NEW K, Joined(K, ss, m)
  PROVE  Lists!FlattenSeq(ss) = K[m]
<1> DEFINE Joins(f) == f = [i \in 1..Len(ss) |-> IF i = 1 THEN ss[i] ELSE f[i - 1] \o ss[i]]
           F == CHOOSE f : Joins(f)
<1>1. Lists!FlattenSeq(ss) = F[m]
  BY DEF Lists!FlattenSeq
<1>2. Joins(K)
  <2>1. ASSUME NEW i \in 1..m PROVE K[i] = IF i = 1 THEN ss[i] ELSE K[i - 1] \o ss[i]
    <3>1. i = 1 \/ i \in 2..m
      OBVIOUS
    <3> QED
      BY <3>1 DEF Joined
  <2>2. PICK G : G = [i \in 1..m |-> IF i = 1 THEN ss[i] ELSE K[i - 1] \o ss[i]]
    OBVIOUS
  <2>3. K = G
    BY <2>1, <2>2 DEF Joined
  <2> QED
    BY <2>2, <2>3
<1>3. Joins(F)
  BY <1>2
<1>4. PICK f : f = F
  OBVIOUS
<1> HIDE DEF F, Joins
<1>5. \A i \in 1..m : f[i] = IF i = 1 THEN ss[i] ELSE f[i - 1] \o ss[i]
  <2>1. Joins(f)
    BY <1>3, <1>4
  <2>2. f = [i \in 1..m |-> IF i = 1 THEN ss[i] ELSE f[i - 1] \o ss[i]]
    BY <2>1 DEF Joins
  <2> QED
    BY <2>2
<1> DEFINE S == {k \in Nat : k \in 1..m => f[k] = K[k]}
<1>6. 0 \in S
  OBVIOUS
<1>7. ASSUME NEW k \in Nat, k \in S PROVE k + 1 \in S
  <2> SUFFICES ASSUME k + 1 \in 1..m PROVE f[k + 1] = K[k + 1]
    OBVIOUS
  <2>1. PICK i : i = k + 1
    OBVIOUS
  <2>2. i \in 1..m /\ i - 1 = k
    BY <2>1
  <2>3. CASE i = 1
    BY <1>5, <2>1, <2>2, <2>3 DEF Joined
  <2>4. CASE i # 1
    <3>1. i \in 2..m /\ k \in 1..m
      BY <2>2, <2>4
    <3>2. f[k] = K[k]
      BY <1>7, <3>1
    <3>3. f[i] = f[k] \o ss[i] /\ K[i] = K[k] \o ss[i]
      BY <1>5, <2>2, <2>4, <3>1 DEF Joined
    <3> QED
      BY <2>1, <3>2, <3>3
  <2> QED
    BY <2>3, <2>4
<1> HIDE DEF S
<1>8. m \in S
  BY <1>6, <1>7, SetInduction
<1>9. f[m] = K[m]
  BY <1>8 DEF S
<1> QED
  BY <1>1, <1>4, <1>9

\* The elements of a bin, or the first t of them, come after those of the bins before.
LEMMA BinAfterBins ==
  ASSUME LayoutInv, NEW q \in Nat, NEW t \in 0..BinSize, NEW x \in Nat,
         x = q * BinSize, x + t <= length
  PROVE  /\ SubSeq(Elements, 1, x) \o SubSeq(bins[q], 1, t) = SubSeq(Elements, 1, x + t)
         /\ SubSeq(bins[q], 1, t) \in Seq(Cells)
<1>1. PICK n \in Nat : n = length
  BY DEF LayoutInv
<1>2. t \in Nat /\ t <= BinSize /\ x + t \in Nat /\ x + t <= n /\ x <= n
  BY <1>1, BinSizeAssumption
<1>3. PICK s, c : s = Elements /\ c = bins[q]
  OBVIOUS
<1>4. s \in Seq(Cells) /\ Len(s) = n /\ \A i \in 1..n : s[i] = Cell(bins, i - 1)
  BY <1>1, <1>3, ElementsTyped
<1>5. ASSUME NEW j \in 1..t PROVE c[j] = s[x + j] /\ c[j] \in Cells
  <2>1. PICK p \in Nat : p = x + (j - 1)
    BY <1>2
  <2>2. j - 1 \in 0..BinSize-1
    BY <1>2, BinSizeAssumption
  <2>3. Bin(p) = q /\ p % BinSize = j - 1
    BY <2>1, <2>2, PositionIs
  <2>4. Cell(bins, p) = c[j]
    <3>1. (j - 1) + 1 = j
      OBVIOUS
    <3> QED
      BY <1>3, <2>3, <3>1 DEF Cell
  <2>5. x + j \in 1..n /\ (x + j) - 1 = p
    BY <1>2, <2>1
  <2>6. s[x + j] = Cell(bins, p)
    BY <1>4, <2>5
  <2>7. s[x + j] \in Cells
    BY <1>4, <2>5, ElementOfSeq
  <2> QED
    BY <2>4, <2>6, <2>7
<1>6. PICK w : w = SubSeq(c, 1, t)
  OBVIOUS
<1>7. w \in Seq(Cells) /\ Len(w) = t /\ \A j \in 1..t : w[j] = c[j]
  <2>1. /\ w \in Seq(Cells)
        /\ Len(w) = IF 1 <= t THEN t - 1 + 1 ELSE 0
        /\ \A i \in 1..t-1+1 : w[i] = c[1+i-1]
    BY <1>2, <1>5, <1>6, SubSeqProperties
  <2>2. t - 1 + 1 = t /\ \A i \in 1..t : 1 + i - 1 = i
    BY <1>2
  <2> QED
    BY <1>2, <2>1, <2>2
<1>8. PICK u, z : u = SubSeq(s, 1, x) /\ z = SubSeq(s, 1, x + t)
  OBVIOUS
<1>9. /\ u \in Seq(Cells) /\ Len(u) = x /\ \A i \in 1..x : u[i] = s[i]
      /\ z \in Seq(Cells) /\ Len(z) = x + t /\ \A i \in 1..x+t : z[i] = s[i]
  <2>1. u \in Seq(Cells) /\ Len(u) = x /\ \A i \in 1..x : u[i] = s[i]
    BY <1>2, <1>4, <1>8, PrefixOf
  <2>2. z \in Seq(Cells) /\ Len(z) = x + t /\ \A i \in 1..x+t : z[i] = s[i]
    BY <1>2, <1>4, <1>8, PrefixOf
  <2> QED
    BY <2>1, <2>2
<1>10. PICK y : y = u \o w
  OBVIOUS
<1>11. /\ y \in Seq(Cells) /\ Len(y) = x + t
       /\ \A i \in 1..x+t : y[i] = IF i <= x THEN u[i] ELSE w[i - x]
  BY <1>7, <1>9, <1>10, ConcatProperties
<1>12. ASSUME NEW i \in 1..x+t PROVE y[i] = z[i]
  <2>1. CASE i <= x
    <3>1. i \in 1..x
      BY <2>1
    <3> QED
      BY <1>9, <1>11, <2>1, <3>1
  <2>2. CASE ~(i <= x)
    <3>1. PICK j : j = i - x
      OBVIOUS
    <3>2. j \in 1..t /\ x + j = i
      BY <1>2, <2>2, <3>1
    <3>3. y[i] = w[j] /\ w[j] = c[j] /\ c[j] = s[i]
      BY <1>5, <1>7, <1>11, <2>2, <3>1, <3>2
    <3> QED
      BY <1>9, <3>3
  <2> QED
    BY <2>1, <2>2
<1>13. y = z
  BY <1>9, <1>11, <1>12, SeqEqual
<1> QED
  BY <1>3, <1>6, <1>7, <1>8, <1>10, <1>13

LEMMA WalkSeesAll ==
  ASSUME LayoutInv
  PROVE  VisitsAll
<1>1. PICK n \in Nat : n = length
  BY DEF LayoutInv
<1>2. PICK m \in Nat, r \in 0..BinSize-1 :
        m = n \div BinSize /\ r = n % BinSize /\ n = m * BinSize + r
  BY PositionFacts DEF Bin
<1>3. PICK s : s = Elements
  OBVIOUS
<1>4. s \in Seq(Cells) /\ Len(s) = n
  BY <1>1, <1>3, ElementsTyped
<1>5. PICK x \in Nat : x = m * BinSize
  BY BinSizeAssumption
<1>6. n = x + r /\ r \in Nat /\ r <= BinSize
  BY <1>2, <1>5, BinSizeAssumption
<1>7. PICK ss : ss = [i \in 1..m |-> SubSeq(bins[i - 1], 1, BinSize)]
  OBVIOUS
<1>8. ASSUME NEW q \in Nat, q < m
      PROVE  /\ SubSeq(s, 1, q * BinSize) \o SubSeq(bins[q], 1, BinSize)
                  = SubSeq(s, 1, (q + 1) * BinSize)
             /\ SubSeq(bins[q], 1, BinSize) \in Seq(Cells)
  <2>1. PICK y \in Nat : y = q * BinSize
    BY BinSizeAssumption
  <2>2. (q + 1) * BinSize = y + BinSize
    BY <2>1, OneBinMore
  <2>3. PICK k \in Nat : m = q + 1 + k
    <3>1. m - q - 1 \in Nat /\ m = q + 1 + (m - q - 1)
      BY <1>8
    <3> QED
      BY <3>1
  <2>4. m * BinSize = q * BinSize + BinSize + k * BinSize /\ k * BinSize \in Nat
    BY <2>3, BinSizeAssumption
  <2>5. y + BinSize <= length
    BY <1>1, <1>5, <1>6, <2>1, <2>4, BinSizeAssumption
  <2>6. BinSize \in 0..BinSize
    BY BinSizeAssumption
  <2>7. /\ SubSeq(Elements, 1, y) \o SubSeq(bins[q], 1, BinSize) = SubSeq(Elements, 1, y + BinSize)
        /\ SubSeq(bins[q], 1, BinSize) \in Seq(Cells)
    BY <2>1, <2>5, <2>6, BinAfterBins
  <2> QED
    BY <1>3, <2>1, <2>2, <2>7
<1>9. SubSeq(s, 1, 0) = <<>>
  BY SubSeqEmpty
<1>10. ss \in Seq(Seq(Cells)) /\ Len(ss) = m
  <2>1. ASSUME NEW i \in 1..m PROVE SubSeq(bins[i - 1], 1, BinSize) \in Seq(Cells)
    <3>1. i - 1 \in Nat /\ i - 1 < m
      OBVIOUS
    <3> QED
      BY <1>8, <3>1
  <2>2. ss \in [1..m -> Seq(Cells)]
    BY <1>7, <2>1
  <2> QED
    BY <2>2, SequenceOf
<1>11. Lists!FlattenSeq(ss) = SubSeq(s, 1, x)
  <2>1. CASE m = 0
    <3>1. ss = <<>>
      BY <1>10, <2>1, EmptySeq
    <3>2. Lists!FlattenSeq(ss) = ss
      BY <1>10, <2>1 DEF Lists!FlattenSeq
    <3>3. x = 0
      BY <1>5, <2>1, BinSizeAssumption
    <3> QED
      BY <1>9, <3>1, <3>2, <3>3
  <2>2. CASE m # 0
    <3>1. PICK K : K = [k \in 1..m |-> SubSeq(s, 1, k * BinSize)]
      OBVIOUS
    <3>2. K[1] = ss[1]
      <4>1. 0 \in Nat /\ 0 < m /\ 1 \in 1..m /\ 0 + 1 = 1 /\ 1 - 1 = 0 /\ 0 * BinSize = 0
        BY <2>2, BinSizeAssumption
      <4>2. /\ SubSeq(s, 1, 0 * BinSize) \o SubSeq(bins[0], 1, BinSize)
                 = SubSeq(s, 1, (0 + 1) * BinSize)
            /\ SubSeq(bins[0], 1, BinSize) \in Seq(Cells)
        BY <1>8, <4>1
      <4>3. PICK w : w = SubSeq(bins[0], 1, BinSize)
        OBVIOUS
      <4>4. <<>> \o w = SubSeq(s, 1, 1 * BinSize) /\ w \in Seq(Cells)
        BY <1>9, <4>1, <4>2, <4>3
      <4>5. <<>> \o w = w
        BY <4>4, ConcatEmptySeq
      <4>6. ss[1] = w
        BY <1>7, <4>1, <4>3
      <4> QED
        BY <3>1, <4>1, <4>4, <4>5, <4>6
    <3>3. ASSUME NEW k \in 2..m PROVE K[k] = K[k - 1] \o ss[k]
      <4>1. PICK q : q = k - 1
        OBVIOUS
      <4>2. q \in Nat /\ q < m /\ q + 1 = k /\ q \in 1..m /\ k \in 1..m
        BY <4>1
      <4>3. SubSeq(s, 1, q * BinSize) \o SubSeq(bins[q], 1, BinSize)
              = SubSeq(s, 1, (q + 1) * BinSize)
        BY <1>8, <4>2
      <4>4. K[k] = SubSeq(s, 1, k * BinSize) /\ K[q] = SubSeq(s, 1, q * BinSize)
        BY <3>1, <4>2
      <4>5. ss[k] = SubSeq(bins[q], 1, BinSize)
        BY <1>7, <4>1, <4>2
      <4> QED
        BY <4>1, <4>2, <4>3, <4>4, <4>5
    <3>4. Joined(K, ss, m)
      <4>1. K = [k \in 1..m |-> K[k]]
        BY <3>1
      <4> QED
        BY <3>2, <3>3, <4>1 DEF Joined
    <3>5. m \in Nat \ {0}
      BY <2>2
    <3>6. Lists!FlattenSeq(ss) = K[m]
      BY <1>10, <3>4, <3>5, FlattenIs
    <3>7. K[m] = SubSeq(s, 1, x)
      BY <1>5, <3>1, <3>5
    <3> QED
      BY <3>6, <3>7
  <2> QED
    BY <2>1, <2>2
<1>12. SubSeq(s, 1, n) = s
  <2>1. /\ SubSeq(s, 1, n) \in Seq(Cells) /\ Len(SubSeq(s, 1, n)) = n
        /\ \A i \in 1..n : SubSeq(s, 1, n)[i] = s[i]
    BY <1>4, PrefixOf
  <2> QED
    BY <1>4, <2>1, SeqEqual
<1>13. Visited = Lists!FlattenSeq(ss) \o (IF r = 0 THEN <<>> ELSE SubSeq(bins[m], 1, r))
  BY <1>1, <1>2, <1>7 DEF Visited
<1>14. CASE r = 0
  <2>1. x = n
    BY <1>6, <1>14
  <2>2. s \o <<>> = s
    BY <1>4, ConcatEmptySeq
  <2>3. Visited = s
    BY <1>11, <1>12, <1>13, <1>14, <2>1, <2>2
  <2> QED
    BY <1>3, <2>3 DEF VisitsAll
<1>15. CASE r # 0
  <2>1. r \in 0..BinSize /\ x + r <= length
    BY <1>1, <1>6
  <2>2. SubSeq(Elements, 1, x) \o SubSeq(bins[m], 1, r) = SubSeq(Elements, 1, x + r)
    BY <1>5, <2>1, BinAfterBins
  <2>3. Visited = s
    BY <1>3, <1>6, <1>11, <1>12, <1>13, <1>15, <2>2
  <2> QED
    BY <1>3, <2>3 DEF VisitsAll
<1> QED
  BY <1>14, <1>15

LEMMA LayoutAllocates ==
  ASSUME LayoutInv
  PROVE  Allocated
<1>1. length \in Nat /\ Bins(length) \in Nat /\ DOMAIN bins = 0..Bins(length)-1
  BY BinsFacts DEF LayoutInv, Roomy
<1>2. Bins(length) <= slots
  <2>1. CASE length = 0
    BY <2>1, BinsFacts DEF LayoutInv
  <2>2. CASE length # 0
    <3>1. slots >= BinCount(Bins(length)) /\ slots \in Nat
      BY <1>1, <2>2 DEF LayoutInv
    <3>2. BinCount(Bins(length)) \in Nat /\ BinCount(Bins(length)) >= Bins(length)
      BY <1>1, BinCountFacts
    <3> QED
      BY <1>1, <3>1, <3>2
  <2> QED
    BY <2>1, <2>2
<1>3. length = 0 => slots = 0
  BY DEF LayoutInv
<1>4. \A b \in DOMAIN bins : b # 0 => Len(bins[b]) = BinSize
  BY DEF LayoutInv, Roomy
<1>5. 0 \in DOMAIN bins => Len(bins[0]) >= FirstSize(length)
  <2> SUFFICES ASSUME 0 \in DOMAIN bins PROVE Len(bins[0]) >= FirstSize(length)
    OBVIOUS
  <2>1. Len(bins[0]) >= BinCount(FirstSize(length)) /\ Len(bins[0]) \in Nat
    BY DEF LayoutInv, Roomy
  <2>2. /\ FirstSize(length) \in Nat /\ BinCount(FirstSize(length)) \in Nat
        /\ BinCount(FirstSize(length)) >= FirstSize(length)
    BY <1>1, FirstSizeFacts
  <2> QED
    BY <2>1, <2>2
<1> QED
  BY <1>1, <1>2, <1>3, <1>4, <1>5 DEF Allocated, FirstSize

\* passgen_stack_push, _pop, _free and _foreach: for bins and a first allocation of any
\* size, every element has its cell, the memory is what the elements take, and a walk
\* meets them all in order.
THEOREM StackLaidOut == StackSpec => []LaidOut
<1>1. StackInit => LayoutInv
  BY StackInitLaidOut
<1>2. LayoutInv /\ [StackNext]_stackVars => LayoutInv'
  BY StackStep
<1>3. LayoutInv => LaidOut
  BY WalkSeesAll, LayoutAllocates DEF LaidOut
<1> QED
  BY <1>1, <1>2, <1>3, PTL DEF StackSpec

\* The bins, resized and freed as they are, behave as a sequence to whose end elements
\* are put and from whose end they are taken.
THEOREM StackIsLifo == StackSpec => ImplementsLifo
<1>1. StackInit => LayoutInv /\ Abstract!Init
  BY StackInitLaidOut DEF Abstract!Init
<1>2. LayoutInv /\ [StackNext]_stackVars => LayoutInv' /\ [Abstract!Next]_(Abstract!lifoVars)
  BY StackStep DEF Abstract!lifoVars
<1> QED
  BY <1>1, <1>2, PTL DEF StackSpec, ImplementsLifo, Abstract!Spec
=============================================================================
