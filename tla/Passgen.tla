------------------------------- MODULE Passgen -------------------------------
(***************************************************************************)
(* The pipeline of src/passgen.c and src/generate.c: passgen_parse feeds   *)
(* the codepoints of a string to the tokenizer and every finished token to *)
(* the pattern parser, which builds the pattern in place; then a password  *)
(* is generated from it.                                                   *)
(*                                                                         *)
(* What a string ought to mean is given with it: whether it is a pattern,  *)
(* or one that the syntax does not have and that is tolerated, and its     *)
(* derivations, the words it stands for, each with the odds against it and *)
(* how deep groups nest in it.                                             *)
(***************************************************************************)
EXTENDS PatternParser, Generate

CONSTANTS
  Sources,      \* records [string, isPattern, tolerated, derivations]
  MaxLength     \* bound: how long the strings are

\* What UTF-8 can encode has 21 bits.
Decoded == {c \in Nat : c < 2097152}

ASSUME SourcesAssumption ==
  \A s \in Sources : s.string \in Seq(Decoded) /\ Len(s.string) <= MaxLength
ASSUME MaxLengthAssumption == MaxLength \in Nat

VARIABLES
  source,       \* the string and its meaning, which the program does not know
  phase,        \* "parsing", then "failed", "parsed", or "astray" like the parser
  state, length, payload, offset, token, start, raw       \* of the tokenizer

Tokens == INSTANCE Tokenizer WITH Input <- Decoded, MaxInput <- MaxLength

tokenizer == <<state, length, payload, offset, token, start, raw>>

parser == vars

parsing == <<phase, tokenizer, parser>>

string == source.string

program == <<source, parsing, generation>>

-----------------------------------------------------------------------------
PassgenInit ==
  /\ source \in Sources
  /\ phase = "parsing"
  /\ Tokens!Init
  /\ Init
  /\ Idle

\* Both parsers get the next codepoint; the step says how the tokenizer ends up.
NextCodepoint ==
  /\ phase = "parsing" /\ offset < Len(string)
  /\ Tokens!Feed(string[offset + 1])

TokenError ==
  /\ NextCodepoint /\ state' \in Tokens!Errors
  /\ phase' = "failed"
  /\ UNCHANGED parser

TokenPart ==
  /\ NextCodepoint /\ state' \notin Tokens!Errors \union {"init"}
  /\ UNCHANGED <<phase, parser>>

\* The parser gets the token, and must accept it.
TokenComplete ==
  /\ NextCodepoint /\ state' = "init"
  /\ ParseToken(token')
  /\ phase' = IF outcome' = "open" THEN phase ELSE outcome'

\* Mutant: a token may be incomplete when the string ends.
EndOfStringLax ==
  /\ phase = "parsing" /\ offset = Len(string)
  /\ Finish
  /\ phase' = IF outcome' = "done" THEN "parsed" ELSE "failed"
  /\ UNCHANGED tokenizer

\* No token may be incomplete, and the parser must be done.
EndOfString ==
  /\ phase = "parsing" /\ offset = Len(string)
  /\ IF state = "init"
       THEN Finish /\ phase' = IF outcome' = "done" THEN "parsed" ELSE "failed"
       ELSE phase' = "failed" /\ UNCHANGED parser
  /\ UNCHANGED tokenizer

Parse == TokenError \/ TokenPart \/ TokenComplete \/ EndOfString

PassgenNext ==
  \/ Parse /\ UNCHANGED <<source, generation>>
  \/ phase = "parsed" /\ Generating
     /\ UNCHANGED <<source, phase, tokenizer, alphabet, limit, stack, outcome, fed, exact>>

PassgenSpec == PassgenInit /\ [][PassgenNext]_program

\* The program is one thread that does nothing else.
FairPassgen == PassgenSpec /\ WF_program(PassgenNext)

-----------------------------------------------------------------------------
Same(a, b) == a[1] * b[2] = b[1] * a[2]

PassgenTypeOK ==
  /\ Tokens!TypeOK /\ TypeOK
  /\ phase \in {"parsing", "failed", "parsed", "astray"}
  /\ result \in {"idle", "running", "done", "failed", "astray"}
  /\ depth \in 0..depthLimit /\ used \in Nat
  /\ result # "idle" => phase = "parsed"

\* passgen_parse accepts the patterns, and of other strings just those that are tolerated:
\* no string that breaks off anywhere, and no pattern is refused.
AcceptsPatterns ==
  /\ phase = "parsed" => source.isPattern \/ source.tolerated
  /\ phase \in {"failed", "astray"} => ~source.isPattern /\ ~source.tolerated

\* A password is one that the pattern derives.
Derived ==
  result = "done" => \E d \in source.derivations : d.word = output

\* The entropy that is computed along the way is the odds against all the
\* choices that went into the password, fair coins not counted, if no segment was
\* given a second multiplier.
EntropyCounts ==
  exact /\ result = "done" =>
    \E d \in source.derivations : d.word = output /\ Same(d.counted, entropy)

\* No minimum is above its maximum, what lies between can be counted, and so can the
\* codepoints of a set; and no special is hopeless.
OrderlyItem(item) ==
  /\ item.min <= item.max /\ item.max - item.min < Word - 1
  /\ item.kind = "SET" => Countable(item.ranges)
  /\ item.kind = "SPECIAL" => ~Hopeless(item.letter, item.chars)

Orderly ==
  \A p \in DOMAIN groups : \A s \in DOMAIN groups[p].segments :
    \A i \in DOMAIN groups[p].segments[s].items : OrderlyItem(groups[p].segments[s].items[i])

\* If no segment was given a second multiplier and all items are orderly, which no code
\* checks, generation does not go astray: the walk over the segments of a group stops at
\* one of them, and there is a count, a codepoint or a word to choose for every item.
NeverAstray == exact /\ Orderly => result # "astray"

\* Generation fails for one of these reasons only: the pattern derives nothing; or groups
\* nested deeper than the limit; or not within the buffer; or it needs a wordlist that is
\* not there; or a word that cannot be decoded, for its length or its form; or it derives
\* what is no codepoint and has to be written as UTF-8.
FailsForCause ==
  result = "failed" =>
    \/ source.derivations = {}
    \/ depth = 0 /\ \E d \in source.derivations : d.nesting > depthLimit
    \/ pending # <<>> /\ buffer.room < used + Units(Head(pending))
    \/ Current.kind = "SPECIAL" /\ ~Listed(Current.chars)
    \/ Current.kind = "SPECIAL" /\ \E i \in DOMAIN Wordlist.words : ~Decodable(Wordlist, i, MaxWord)
    \/ buffer.writer # "unicode"
         /\ \E d \in source.derivations : \E i \in DOMAIN d.word : d.word[i] > MaxCodepoint

\* Nothing is written past the end of the buffer, and what fillpos.cur counts is
\* what was written.
WithinBuffer ==
  WithinRoom /\
  LET total[n \in 0..Len(output)] == IF n = 0 THEN 0 ELSE total[n-1] + Units(output[n])
  IN  used = total[Len(output)]

\* Generation stays inside what it is given: the walks over the pattern never leave it,
\* and the words never leave the buffer.
StaysInside == NeverAstray /\ WithinBuffer

\* Every string is parsed to an end, and from every pattern generation ends.
Ends == <>(phase \in {"failed", "astray"} \/ result \in {"done", "failed", "astray"})

-----------------------------------------------------------------------------
\* README.md:129: "Appending a `{n,m}` to any syntax repeats the last thing a random
\* amount between *n* and *m* times": nothing is generated but what some such
\* amounts give, and nothing at all if there are none.
RepeatsBetween ==
  result = "done" => \E d \in source.derivations : d.word = output

\* passgen.1.in:47, of the entropy: "a number that describes how much randomness
\* went into generating a specific sequence".
EntropyIsOdds ==
  result = "done" =>
    \E d \in source.derivations : d.word = output /\ Same(d.odds, entropy)
=============================================================================
