------------------------------ MODULE MCPassgen ------------------------------
(***************************************************************************)
(* A small instance of Passgen: all patterns of one or two segments of one *)
(* or two items, plain or with a modifier, and some that nest deeper; and  *)
(* strings that are no patterns.                                           *)
(***************************************************************************)
EXTENDS Passgen, SyntaxTrees

\* The parser is fed what the tokenizer makes of a string.
MCAlphabets == {[tokens |-> {}, most |-> MaxLength]}

List(words, illformed, chain, overruns) ==
  [words |-> words, illformed |-> illformed, chain |-> chain, overruns |-> overruns]

\* n is the name of a wordlist with the words "ab" and "b", whose chain of level
\* 2 starts with either; x is not a name of one.  l has a word that is longer than a word
\* may be, i one that is ill-formed, and e has none.
Long == [i \in 1..MaxWord + 1 |-> 97]

MCWordlists ==
  (<<110>> :> List(<<<<97, 98>>, <<98>>>>, {},
                   {[word |-> <<97, 98>>, odds |-> <<2, 1>>], [word |-> <<98>>, odds |-> <<2, 1>>]},
                   FALSE))
  @@ (<<108>> :> List(<<Long>>, {}, {}, TRUE))
  @@ (<<105>> :> List(<<<<97>>, <<>>>>, {2}, {}, FALSE))
  @@ (<<101>> :> List(<<>>, {}, {}, FALSE))

A == CharItem(97)
Bar == CharItem(Pipe)
Umlaut == CharItem(228)
Quote == CharItem(34)
Few == SetItem(<<<<97, 98>>, <<Dash, Dash>>>>)

Words(letter) ==
  WordItem(letter, <<110>>, {[word |-> <<97, 98>>, odds |-> <<2, 1>>],
                             [word |-> <<98>>, odds |-> <<2, 1>>]})
Unknown == WordItem(LetterW, <<120>>, {[word |-> <<>>, odds |-> <<1, 1>>]})
TooLong == WordItem(LetterW, <<108>>, {[word |-> Long, odds |-> <<1, 1>>]})
SomeIllformed == WordItem(LetterW, <<105>>, {[word |-> <<97>>, odds |-> <<2, 1>>]})
Undone(letter, name) == WordItem(letter, name, {})
Preset == WordItem(LetterP, <<110>>, {[word |-> <<>>, odds |-> <<1, 1>>]})

\* (a|{2}-)   (ab|)   ()   ({0}a)
TwoToOne == GroupItem(<<Plainly(<<A>>), Weighted(2, <<CharItem(Dash)>>)>>)
MaybeAB == GroupItem(<<Plainly(<<A, CharItem(98)>>), Plainly(<<>>)>>)
HollowGroup == GroupItem(<<Plainly(<<>>)>>)
NeverA == GroupItem(<<Weighted(0, <<A>>)>>)
Nested == GroupItem(<<Plainly(<<HollowGroup, Optional(TwoToOne)>>), Weighted(0, <<Bar>>)>>)

Bare == {A, Bar, Umlaut, Quote, Few, Words(LetterW), Words(LetterM), Unknown, TooLong,
         SomeIllformed, Preset, TwoToOne, MaybeAB, Nested}

Modified(item) ==
  {Optional(item), Repeated(item, 2, 2), Repeated(item, 0, 2), Optional(Repeated(item, 1, 2))}

MCItems == Bare \union {HollowGroup, NeverA} \union UNION {Modified(i) : i \in Bare}

Pairs == {<<i, j>> : i \in Bare \union Modified(A), j \in MCItems}

Singles == {<<i>> : i \in MCItems}

\* Segments of a pattern; only the last may have multiplier zero.  The last trees have one
\* count more than a size_t can say, of repetitions or of codepoints, or words to choose
\* from a list that has none, is ill-formed, overruns, or has no name.
MCTrees ==
  {<<Plainly(items)>> : items \in Singles \union Pairs \union {<<>>}}
  \union {<<Weighted(2, items), Plainly(<<Few>>)>> : items \in Singles}
  \union {<<Weighted(3, items), Weighted(0, <<A>>)>> : items \in Singles}
  \union {<<Plainly(<<A, A, A, A, A, A, A, A, i>>)>> : i \in Modified(A)}
  \union {<<Plainly(<<Repeated(A, 0, Word - 1)>>)>>, <<Plainly(<<SetItem(<<<<32, 31 + Word>>>>)>>)>>}
  \union {<<Plainly(<<Undone(u[1], u[2])>>)>> :
             u \in {<<LetterW, <<101>>>>, <<LetterM, <<105>>>>, <<LetterM, <<108>>>>, <<LetterW, <<>>>>}}

\* (  a)  [a  [a-]  [b-a]  a{2  {a}  ?a  \  \u  \u{6  \u{g}  \u{0000061}  \w  \wn  \w{n  \q
\* \w{\u{110000}}
Malformed ==
  {<<40>>, <<97, 41>>, <<91, 97>>, <<91, 97, 45, 93>>, <<91, 98, 45, 97, 93>>,
   <<97, 123, 50>>, <<123, 97, 125>>, <<63, 97>>, 
   <<92>>, <<92, 117>>, <<92, 117, 123, 54>>, <<92, 117, 123, 103, 125>>,
   <<92, 117, 123, 48, 48, 48, 48, 48, 54, 49, 125>>,
   <<92, 119>>, <<92, 119, 110>>, <<92, 119, 123, 110>>, <<92, 113>>,
   <<92, 119, 123, 92, 117, 123, 49, 49, 48, 48, 48, 48, 125, 125>>}

Source(s, isPattern, ds) ==
  [string |-> s, isPattern |-> isPattern, tolerated |-> FALSE, derivations |-> ds]

Tolerated(s, ds) == [Source(s, FALSE, ds) EXCEPT !.tolerated = TRUE]

Meant(word) == {[Nothing EXCEPT !.word = word, !.nesting = 1]}

MCSources ==
  {Source(SegmentsString(t), TRUE, PatternDerivations(t)) : t \in MCTrees}
  \union {Source(s, FALSE, {}) : s \in Malformed}
  \union {\* \u{61}\u{e4}\n
          Source(<<92, 117, 123, 54, 49, 125, 92, 117, 123, 101, 52, 125, 92, 110>>,
                 TRUE, Meant(<<97, 228, 10>>)),
          \* {0}a
          Source(<<123, 48, 125, 97>>, TRUE, {}),
          \* a{1,0}
          Source(<<97, 123, 49, 44, 48, 125>>, TRUE, {}),
          \* \w{n\u{0}x}, which names n
          Source(<<92, 119, 123, 110, 92, 117, 123, 48, 125, 120, 125>>, TRUE,
                 PatternDerivations(<<Plainly(<<Words(LetterW)>>)>>)),
          \* {2}{3}a: syntax.md has one multiplier
          Tolerated(<<123, 50, 125, 123, 51, 125, 97>>, Meant(<<97>>)),
          \* [] and a[]{2}: a set "consists of one or more ranges"
          Tolerated(<<91, 93>>, Meant(<<>>)), Tolerated(<<97, 91, 93, 123, 50, 125>>, Meant(<<97>>)),
          \* \u{110000}: a token is a "valid unicode codepoint"
          Tolerated(<<92, 117, 123, 49, 49, 48, 48, 48, 48, 125>>, Meant(<<MaxCodepoint + 1>>))}

\* a{3,1}: no amount is between.
MCReversed == {Source(<<97, 123, 51, 44, 49, 125>>, TRUE, {})}

Buffer(writer, room) == [writer |-> writer, room |-> room]

MCBuffers == {Buffer("unicode", 12), Buffer("unicode", 1), Buffer("utf8", 3), Buffer("json", 3)}
=============================================================================
