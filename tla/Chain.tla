-------------------------------- MODULE Chain --------------------------------
(***************************************************************************)
(* What include/passgen/markov.h promises: "given the previous characters  *)
(* x and y, what are the probabilities for the next character?"  A chain   *)
(* is a bag of transitions, each a context of so many codepoints and what  *)
(* came after it; a word is made by following transitions at random, each  *)
(* as often as it was added.                                               *)
(***************************************************************************)
EXTENDS Integers, FiniteSets, Sequences, Bags

CONSTANTS
  Words,        \* words that may be added
  Weights,      \* how often one is added at once
  CountMax      \* weights are exact while they add up to less than this

VARIABLES
  level,        \* codepoints in a context
  weight,       \* the bag of transitions
  total,        \* their number
  making,       \* the word being made, after a context of zeros
  odds          \* a fraction: the odds against the choices made for it

vars == <<level, weight, total, making, odds>>

Zeros(n) == [i \in 1..n |-> 0]

\* A word is read between a context of zeros and a zero that ends it.
Padded(word) == Zeros(level) \o word \o <<0>>

Transition(word, i) == SubSeq(Padded(word), i, i + level)

Transitions(word, w) ==
  [t \in {Transition(word, i) : i \in 1..(IF w = 0 THEN 0 ELSE Len(word) + 1)} |->
     w * Cardinality({i \in 1..Len(word) + 1 : Transition(word, i) = t})]

Context == SubSeq(making, Len(making) - level + 1, Len(making))

\* The weight of what may follow a context.
Choices(context) ==
  LET after == {t \in DOMAIN weight : SubSeq(t, 1, level) = context} IN
  BagCardinality([t \in after |-> weight[t]])

Init ==
  /\ level \in Nat \ {0}
  /\ weight = EmptyBag /\ total = 0
  /\ making = <<>> /\ odds = <<1, 1>>

Add(word, w) ==
  /\ total' = total + w * (Len(word) + 1)
  /\ total' < CountMax => weight' = weight (+) Transitions(word, w)
  /\ UNCHANGED <<level, making, odds>>

Start ==
  /\ making' = Zeros(level) /\ odds' = <<1, 1>>
  /\ UNCHANGED <<level, weight, total>>

Extend ==
  LET transition == Append(Context, making'[Len(making')]) IN
  /\ Len(making') = Len(making) + 1 /\ SubSeq(making', 1, Len(making)) = making
  /\ total < CountMax =>
       /\ transition \in DOMAIN weight
       /\ odds' = <<odds[1] * Choices(Context), odds[2] * weight[transition]>>
  /\ UNCHANGED <<level, weight, total>>

Clear ==
  /\ weight' = EmptyBag
  /\ UNCHANGED <<level, total, making, odds>>

Next ==
  \/ \E word \in Words, w \in Weights : Add(word, w)
  \/ Start \/ Extend \/ Clear

Spec == Init /\ [][Next]_vars
=============================================================================
