------------------------------- MODULE Stack --------------------------------
(***************************************************************************)
(* The stack of src/container/stack.c, on which the parser keeps its       *)
(* states and the pattern its segments, items and ranges.  Elements are    *)
(* kept in bins: an array of pointers to them, a first bin that grows and  *)
(* shrinks with the stack, and further bins of a fixed size that never     *)
(* move.  Positions count from zero, as in the code.                       *)
(***************************************************************************)
EXTENDS Integers, Sequences

Lists == INSTANCE SequencesExt

CONSTANTS
  BinSize,   \* elements per bin, 32 in the code
  CapInit,   \* elements the first bin is made for, 4 in the code
  Values,    \* what an element may hold
  None,      \* what a lookup returns for a position that is not there
  Junk,      \* what memory holds that was not written
  MaxLen     \* bound: no push beyond this length

ASSUME BinSizeAssumption == BinSize \in Nat \ {0}
ASSUME CapInitAssumption == CapInit \in Nat \ {0}

VARIABLES
  length,    \* elements on the stack, stack->len
  slots,     \* size of the array of pointers, 0 while there is none
  bins,      \* the bins that are allocated, by their index: each a run of cells
  popped     \* the element last popped

stackVars == <<length, slots, bins, popped>>

-----------------------------------------------------------------------------
\* The number of bins n elements take.
Bins(n) == (n + BinSize - 1) \div BinSize

Bin(pos) == pos \div BinSize

Power[k \in Nat] == IF k = 0 THEN 1 ELSE 2 * Power[k - 1]

\* passgen_stack_bin_count: the first power of two that is not below n.
BinCount(n) ==
  Power[CHOOSE k \in 0..n : Power[k] >= n /\ \A j \in 0..k-1 : Power[j] < n]

\* Allocation of n cells, and a change of their number.
Blank(n) == [i \in 1..n |-> Junk]

Resized(cells, n) == [i \in 1..n |-> IF i <= Len(cells) THEN cells[i] ELSE Junk]

\* passgen_stack_get
Get(pos) == IF length <= pos THEN None ELSE bins[Bin(pos)][(pos % BinSize) + 1]

\* Mutant: the position after the top.
TopAbove == Get(length)

\* passgen_stack_top
TopElement == Get(IF length > 0 THEN length - 1 ELSE 0)

\* passgen_stack_foreach: what is visited, in order: BinSize elements of each full
\* bin, then the elements of the last one.
Visited ==
  LET full == length \div BinSize
      rest == length % BinSize
  IN  Lists!FlattenSeq([i \in 1..full |-> SubSeq(bins[i - 1], 1, BinSize)])
      \o (IF rest = 0 THEN <<>> ELSE SubSeq(bins[full], 1, rest))

-----------------------------------------------------------------------------
StackInit ==
  /\ length = 0
  /\ slots = 0
  /\ bins = <<>>
  /\ popped = None

\* The element at length is v; the bins are otherwise as in store.
Write(store, v) ==
  /\ bins' = [store EXCEPT ![Bin(length)][(length % BinSize) + 1] = v]
  /\ length' = length + 1
  /\ UNCHANGED popped

\* The first bin is made with the first element and doubled when it is full.
PushFirstBin(v) ==
  /\ length < MaxLen /\ Bin(length) = 0
  /\ LET store == IF length = 0 THEN [b \in {0} |-> Blank(CapInit)] ELSE bins
     IN  Write(IF BinCount(length) = length
                 THEN [store EXCEPT ![0] = Resized(@, BinCount(length + 1))]
                 ELSE store, v)
  /\ slots' = IF length = 0 THEN 1 ELSE slots

PushSameBin(v) ==
  /\ length < MaxLen /\ Bin(length) # 0
  /\ Bin(length) = Bin(length - 1)
  /\ Write(bins, v)
  /\ UNCHANGED slots

\* Another bin; the array of pointers is resized at a power of two, which may
\* also shrink it, and what it then has no room for is out of reach.
PushNewBin(v) ==
  /\ length < MaxLen /\ Bin(length) # 0
  /\ Bin(length) # Bin(length - 1)
  /\ LET needed == BinCount(Bin(length) + 1)
         resize == BinCount(Bin(length)) # needed
         kept == IF resize THEN {b \in DOMAIN bins : b < needed} ELSE DOMAIN bins
     IN  /\ slots' = IF resize THEN needed ELSE slots
         /\ Write([b \in kept \union {Bin(length)} |->
                     IF b = Bin(length) THEN Blank(BinSize) ELSE bins[b]], v)

PopEmpty ==
  /\ length = 0
  /\ popped' = None
  /\ UNCHANGED <<length, slots, bins>>

\* The last element takes the first bin and the array with it.
PopLast ==
  /\ length = 1
  /\ popped' = TopElement
  /\ bins' = <<>>
  /\ slots' = 0
  /\ length' = 0

PopFirstBin ==
  /\ length > 1 /\ length <= BinSize
  /\ popped' = TopElement
  /\ bins' = IF BinCount(length) = BinCount(length - 1) THEN bins
             ELSE [bins EXCEPT ![0] = Resized(@, BinCount(length - 1))]
  /\ length' = length - 1
  /\ UNCHANGED slots

\* Mutant: the bin is compared with its own.
PopLaterBinKept ==
  /\ length > 1 /\ length > BinSize
  /\ popped' = TopElement
  /\ bins' = IF Bin(length - 1) = Bin(length - 1) THEN bins
             ELSE [b \in DOMAIN bins \ {Bin(length - 1)} |-> bins[b]]
  /\ length' = length - 1
  /\ UNCHANGED slots

\* A bin that this empties is freed; the array of pointers stays as it is.
PopLaterBin ==
  /\ length > 1 /\ length > BinSize
  /\ popped' = TopElement
  /\ bins' = IF Bin(length - 1) = Bin(length - 2) THEN bins
             ELSE [b \in DOMAIN bins \ {Bin(length - 1)} |-> bins[b]]
  /\ length' = length - 1
  /\ UNCHANGED slots

\* passgen_stack_free and passgen_stack_init: what was not freed stays behind.
FreeStack ==
  /\ bins' = [b \in {c \in DOMAIN bins : c >= Bins(length)} |-> bins[b]]
  /\ slots' = IF length > 0 THEN 0 ELSE slots
  /\ length' = 0
  /\ popped' = None

StackNext ==
  \/ \E v \in Values : PushFirstBin(v) \/ PushSameBin(v) \/ PushNewBin(v)
  \/ PopEmpty \/ PopLast \/ PopFirstBin \/ PopLaterBin
  \/ FreeStack

StackSpec == StackInit /\ [][StackNext]_stackVars

-----------------------------------------------------------------------------
Elements == [i \in 1..length |-> Get(i - 1)]

\* Types; the array of pointers has a power of two of them (stack.c:90-96).
StackTypeOK ==
  /\ length \in Nat
  /\ slots \in {0} \union {Power[k] : k \in 0..MaxLen}
  /\ \A b \in DOMAIN bins : bins[b] \in Seq(Values \union {Junk})
  /\ popped \in Values \union {None}

\* Memory is exactly what the elements take: the bins allocated are the ones
\* with elements, each has a cell for every one of its elements, the first
\* never shrinks below what it holds, the others are whole, and the array has
\* a pointer for each bin; an empty stack holds nothing, so that nothing is
\* lost when it is filled again or dropped.
Allocated ==
  /\ DOMAIN bins = 0..Bins(length)-1
  /\ Bins(length) <= slots
  /\ length = 0 => slots = 0
  /\ \A b \in DOMAIN bins :
       IF b = 0 THEN Len(bins[b]) >= IF length < BinSize THEN length ELSE BinSize
       ELSE Len(bins[b]) = BinSize

\* passgen_stack_foreach visits every element once, in order, also when the
\* last bin is exactly full.
VisitsAll == Visited = Elements

\* The bins are laid out so that each element has its cell, none is lost, and a walk
\* over them meets the elements in order.
LaidOut == Allocated /\ VisitsAll

\* The bins implement a plain stack: an element is popped as it was pushed,
\* wherever the bins were resized, added or freed in between.
Abstract == INSTANCE Lifo WITH items <- Elements

ImplementsLifo == Abstract!Spec
=============================================================================
