------------------------------ MODULE Bounded ------------------------------
(***************************************************************************)
(* The bounded draws of src/random/random.c, which are passgen_random_u8   *)
(* and the like, and passgen_random_u8_max and the like.  All choices of   *)
(* the generator and of Markov chains are made by such a draw.  The four   *)
(* widths differ in the length of one list of shifts.                      *)
(***************************************************************************)
EXTENDS Integers, FiniteSets

CONSTANTS
  Width,        \* bits in a number that is drawn
  MaxBound      \* bound: the highest bound that is drawn below

Power[k \in Nat] == IF k = 0 THEN 1 ELSE 2 * Power[k - 1]

ASSUME WidthAssumption == Width \in {8, 16, 32, 64}
ASSUME BoundAssumption == MaxBound \in 1..Power[Width]-1

\* passgen_random_u64: so many bytes make any number, all of them as likely.
Raw == 0..Power[Width]-1

\* The operators on bits: numbers by the places of their ones.
Bits == [n \in Raw |-> {i \in 0..Width-1 : (n \div Power[i]) % 2 = 1}]

Number(bits) == CHOOSE n \in Raw : Bits[n] = bits

Or(a, b) == Number(Bits[a] \union Bits[b])

And(a, b) == Number(Bits[a] \intersect Bits[b])

Shifted(n, places) == n \div Power[places]

\* How many shifts there are, for half the width, a quarter of it, and so on to one.
Shifts == CHOOSE k \in 3..6 : Power[k] = Width

\* Mutant: the last shift is missing.
SmearedShort(max) ==
  LET smeared[k \in 0..Shifts] ==
        IF k = 0 THEN max
        ELSE Or(smeared[k - 1], Shifted(smeared[k - 1], Width \div Power[k]))
  IN  smeared[Shifts - 1]

\* The mask.
Smeared(max) ==
  LET smeared[k \in 0..Shifts] ==
        IF k = 0 THEN max
        ELSE Or(smeared[k - 1], Shifted(smeared[k - 1], Width \div Power[k]))
  IN  smeared[Shifts]

\* Mutant: the bound itself is let through.
LetThroughBound(num, max) == num <= max

\* The end of the loop.
LetThrough(num, max) == num < max

\* passgen_random_u64_max, whose assertion refuses zero: what it may return.
Drawn == [max \in 1..MaxBound |->
  LET mask == Smeared(max) IN {num \in {And(raw, mask) : raw \in Raw} : LetThrough(num, max)}]

\* Whether the numbers returned are those below the bound, each of them made by as
\* many raw numbers, and a raw number is rejected no more often than not.
Fair(max) ==
  LET mask == Smeared(max)
      masked == [raw \in Raw |-> And(raw, mask)]
      made(choice) == Cardinality({raw \in Raw : masked[raw] = choice})
  IN  /\ Drawn[max] = 0..max-1
      /\ \A choice \in 0..max-1 : made(choice) = made(0)
      /\ 2 * max * made(0) >= Power[Width]

FairBounds == {max \in 1..MaxBound : Fair(max)}
=============================================================================
