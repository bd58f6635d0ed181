----------------------------- MODULE SyntaxTrees -----------------------------
(***************************************************************************)
(* Patterns as docs/syntax.md describes them: syntax trees, how a tree is  *)
(* written as a string, and what it derives.  Nothing here is taken from   *)
(* the parser or the generator, which are checked against it.              *)
(*                                                                         *)
(*   segments: a sequence of records [times, items]                        *)
(*   item:     a record [kind, min, max, maybe, ...] of kind "CHAR" with   *)
(*             char, "SET" with one or more ranges <<first, last>>,        *)
(*             "GROUP" with segments, or "WORD" with letter, name and      *)
(*             made, the words it may be, each with its odds as a fraction.*)
(***************************************************************************)
EXTENDS Codepoints, SequencesExt

Once(record) == [min |-> 1, max |-> 1, maybe |-> FALSE] @@ record

CharItem(c) == Once([kind |-> "CHAR", char |-> c])
SetItem(ranges) == Once([kind |-> "SET", ranges |-> ranges])
GroupItem(segments) == Once([kind |-> "GROUP", segments |-> segments])
WordItem(letter, name, made) ==
  Once([kind |-> "WORD", letter |-> letter, name |-> name, made |-> made])

Repeated(item, min, max) == [item EXCEPT !.min = min, !.max = max]
Optional(item) == [item EXCEPT !.maybe = TRUE]

Weighted(times, items) == [times |-> times, items |-> items]
Plainly(items) == Weighted(1, items)

-----------------------------------------------------------------------------
(* Writing a tree as a string.                                             *)

Escaped(c) == <<Backslash, c>>

\* n < 100
Numeral(n) == IF n < 10 THEN <<48 + n>> ELSE <<48 + (n \div 10), 48 + (n % 10)>>

CharString(c) ==
  IF c \in {Pipe, LeftParen, RightParen, LeftBracket, LeftBrace} THEN Escaped(c) ELSE <<c>>

RangeString(range) ==
  LET end(c) == IF c = Dash THEN Escaped(c) ELSE <<c>>
  IN  IF range[1] = range[2] THEN end(range[1]) ELSE end(range[1]) \o <<Dash>> \o end(range[2])

ModifierString(item) ==
  (IF item.min = 1 /\ item.max = 1 THEN <<>>
   ELSE IF item.min = item.max THEN <<LeftBrace>> \o Numeral(item.min) \o <<RightBrace>>
   ELSE <<LeftBrace>> \o Numeral(item.min) \o <<Comma>> \o Numeral(item.max) \o <<RightBrace>>)
  \o (IF item.maybe THEN <<Question>> ELSE <<>>)

RECURSIVE ItemString(_), SegmentsString(_)

SegmentString(segment) ==
  (IF segment.times = 1 THEN <<>>
   ELSE <<LeftBrace>> \o Numeral(segment.times) \o <<RightBrace>>)
  \o FlattenSeq([i \in DOMAIN segment.items |-> ItemString(segment.items[i])])

SegmentsString(segments) ==
  IF Len(segments) = 1 THEN SegmentString(segments[1])
  ELSE SegmentsString(Front(segments)) \o <<Pipe>> \o SegmentString(Last(segments))

ItemString(item) ==
  (CASE item.kind = "CHAR" -> CharString(item.char)
     [] item.kind = "SET" ->
          <<LeftBracket>>
          \o FlattenSeq([i \in DOMAIN item.ranges |-> RangeString(item.ranges[i])])
          \o <<RightBracket>>
     [] item.kind = "GROUP" -> <<LeftParen>> \o SegmentsString(item.segments) \o <<RightParen>>
     [] item.kind = "WORD" -> <<Backslash, item.letter, LeftBrace>> \o item.name \o <<RightBrace>>)
  \o ModifierString(item)

-----------------------------------------------------------------------------
(* What a tree derives.  odds are those against all the choices, counted   *)
(* those against the choices other than that of an optional item; nesting  *)
(* is how deep in groups the derivation goes.                              *)

Greater(m, n) == IF m < n THEN n ELSE m

Both(a, b) == <<a[1] * b[1], a[2] * b[2]>>

Nothing == [word |-> <<>>, odds |-> <<1, 1>>, counted |-> <<1, 1>>, nesting |-> 0]

Choice(word, odds) == [Nothing EXCEPT !.word = word, !.odds = odds, !.counted = odds]

Among(d, odds) == [d EXCEPT !.odds = Both(@, odds), !.counted = Both(@, odds)]

Then(d, e) ==
  [word |-> d.word \o e.word, odds |-> Both(d.odds, e.odds),
   counted |-> Both(d.counted, e.counted), nesting |-> Greater(d.nesting, e.nesting)]

Chain(ds, es) == {Then(d, e) : d \in ds, e \in es}

Power(ds, n) ==
  LET power[i \in 0..n] == IF i = 0 THEN {Nothing} ELSE Chain(power[i-1], ds)
  IN  power[n]

TotalTimes(segments) ==
  LET total[n \in 0..Len(segments)] == IF n = 0 THEN 0 ELSE total[n-1] + segments[n].times
  IN  total[Len(segments)]

RECURSIVE Hollow(_), ItemDerivations(_), SegmentsDerivations(_)

\* A group without any item in it stands for nothing at all.
Hollow(item) ==
  /\ item.kind = "GROUP"
  /\ \A i \in DOMAIN item.segments :
       \/ item.segments[i].times = 0
       \/ \A j \in DOMAIN item.segments[i].items : Hollow(item.segments[i].items[j])

OnceDerivations(item) ==
  CASE item.kind = "CHAR" -> {Choice(<<item.char>>, <<1, 1>>)}
    [] item.kind = "SET" ->
         LET n == Len(item.ranges)
             possible[i \in 0..n] ==
               IF i = 0 THEN 0 ELSE possible[i-1] + 1 + item.ranges[i][2] - item.ranges[i][1]
         IN  {Choice(<<c>>, <<possible[n], 1>>) :
                c \in UNION {item.ranges[i][1]..item.ranges[i][2] : i \in 1..n}}
    [] item.kind = "WORD" -> {Choice(m.word, m.odds) : m \in item.made}
    [] item.kind = "GROUP" ->
         {[d EXCEPT !.nesting = @ + 1] : d \in SegmentsDerivations(item.segments)}

ItemDerivations(item) ==
  LET spread == <<item.max - item.min + 1, 1>>
      taken == {Among(d, spread) :
                  d \in UNION {Power(OnceDerivations(item), n) : n \in item.min..item.max}}
      coin(d) == [d EXCEPT !.odds = Both(@, <<2, 1>>)]
  IN  IF Hollow(item) THEN {Nothing}
      ELSE IF item.maybe THEN {coin(d) : d \in taken \union {Nothing}}
      ELSE taken

SegmentsDerivations(segments) ==
  UNION {LET items == segments[i].items
             upto[n \in 0..Len(items)] ==
               IF n = 0 THEN {Nothing} ELSE Chain(upto[n-1], ItemDerivations(items[n]))
         IN  {Among(d, <<TotalTimes(segments), segments[i].times>>) : d \in upto[Len(items)]}
         : i \in {j \in DOMAIN segments : segments[j].times > 0}}

\* A pattern is a group without the parentheses.
PatternDerivations(segments) ==
  {[d EXCEPT !.nesting = @ + 1] : d \in SegmentsDerivations(segments)}
=============================================================================
