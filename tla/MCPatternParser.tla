--------------------------- MODULE MCPatternParser ---------------------------
(***************************************************************************)
(* Small instances of PatternParser: patterns of groups and multipliers,   *)
(* of repetitions, of sets and of specials, each with what ends them early *)
(* or is refused in them.                                                  *)
(***************************************************************************)
EXTENDS PatternParser

Alphabet(tokens, most) == [tokens |-> tokens, most |-> most]

\* | ( ) { } 0 a
ZeroAlphabet == Alphabet({124, 40, 41, 123, 125, 48, 97}, 7)

\* | ( ) { } 2 a
CountAlphabet == Alphabet({124, 40, 41, 123, 125, 50, 97}, 6)

\* ( ) { } , 2 a ?
RepeatAlphabet == Alphabet({40, 41, 123, 125, 44, 50, 97, 63}, 6)

\* [ ] - a b \- \] ?
SetAlphabet == Alphabet({91, 93, 45, 97, 98, 45 + EscapedBit, 93 + EscapedBit, 63}, 6)

\* \w \( { } a ? \u{110000}
SpecialAlphabet ==
  Alphabet({119 + EscapedBit, 40 + EscapedBit, 123, 125, 97, 63, MaxCodepoint + 1}, 6)

\* Eight characters in a row and more: a literal is full.
TextAlphabet == Alphabet({97, 63}, 9)

MCAlphabets ==
  {ZeroAlphabet, CountAlphabet, RepeatAlphabet, SetAlphabet,
   SpecialAlphabet, TextAlphabet}
=============================================================================
