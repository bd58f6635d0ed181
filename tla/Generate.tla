------------------------------ MODULE Generate ------------------------------
(***************************************************************************)
(* passgen_generate of src/generate.c: a walk over the tree of a pattern   *)
(* that chooses at random and hands the codepoints it comes upon to a      *)
(* callback, one of those that fill a buffer.  The call stack of the C     *)
(* functions is the sequence calls, one frame for every group entered;     *)
(* each random number is a free choice among the values it can have.       *)
(***************************************************************************)
EXTENDS Pattern

CONSTANTS
  DepthLimits,  \* values of env->depth_limit
  Buffers,      \* the buffers to fill: which writer, and how many units fit
  Wordlists     \* env->wordlists: by name, records [words, illformed, chain, overruns]:
                \* the words, which of them are not UTF-8, what their chain makes, and
                \* whether that may be more than a word has room for (Markov)

ASSUME DepthLimitsAssumption == DepthLimits \subseteq Nat
ASSUME BuffersAssumption ==
  Buffers \subseteq [writer : {"unicode", "utf8", "json"}, room : Nat]
ASSUME WordlistsAssumption ==
  \A name \in DOMAIN Wordlists :
    /\ Wordlists[name].illformed \subseteq DOMAIN Wordlists[name].words
    /\ Wordlists[name].overruns \in BOOLEAN

VARIABLES
  depthLimit,   \* env->depth_limit
  buffer,       \* the buffer to fill
  result,       \* "idle", "running", "done", "failed"; "astray": there is no telling
  depth,        \* context.depth: how many more groups may be entered
  calls,        \* the groups being generated, innermost last
  pending,      \* codepoints of the item at hand that are still to be written
  output,       \* the codepoints written
  used,         \* fillpos.cur: the units of the buffer they take
  entropy       \* *entropy, as a fraction <<numerator, denominator>>

generation ==
  <<depthLimit, buffer, result, depth, calls, pending, output, used, entropy>>

-----------------------------------------------------------------------------
MaxWord == 128      \* codepoints a word of a wordlist may have
MaxLink == 256      \* and one that is put into a chain

\* passgen_utf8_encode_codepoint
Utf8Length(c) == IF c <= 127 THEN 1 ELSE IF c <= 2047 THEN 2 ELSE IF c <= 65535 THEN 3 ELSE 4

JsonEscapes == {8, 9, 10, 12, 13, 34, Backslash}

\* What codepoint c takes in the buffer.
Units(c) ==
  CASE buffer.writer = "unicode" -> 1
    [] buffer.writer = "utf8" -> Utf8Length(c)
    [] buffer.writer = "json" -> IF c \in JsonEscapes THEN 2 ELSE Utf8Length(c)

\* Mutant: the last unit of the buffer is left free.
FitsStrict(c) ==
  /\ used + Units(c) < buffer.room
  /\ buffer.writer = "unicode" \/ c <= MaxCodepoint

Fits(c) ==
  /\ used + Units(c) <= buffer.room
  /\ buffer.writer = "unicode" \/ c <= MaxCodepoint

\* The multipliers of the first n segments, added up.
Upto(segments) ==
  LET sum[n \in 0..Len(segments)] ==
        IF n = 0 THEN 0 ELSE sum[n-1] + segments[n].multiplier
  IN  sum

\* Mutant: the walk goes on when it should stop, as with > for >=.
ChosenLate(segments, choice) ==
  {n \in 1..Len(segments) : Upto(segments)[n-1] < choice /\ choice <= Upto(segments)[n]}

\* The segments that the walk with this choice stops at: one, or none.
Chosen(segments, choice) ==
  {n \in 1..Len(segments) : Upto(segments)[n-1] <= choice /\ choice < Upto(segments)[n]}

\* The first range of a set whose running sum is above the choice.
ChosenRange(set, choice) ==
  {n \in 1..Len(set.choices) :
     choice < set.choices[n] /\ \A m \in 1..n-1 : set.choices[m] <= choice}

Times(num, den) == <<entropy[1] * num, entropy[2] * den>>

-----------------------------------------------------------------------------
\* A call of passgen_generate_group that has chosen no segment yet.
Call(place) == [group |-> place, segment |-> 0, item |-> 0, reps |-> 0]

Frame == Last(calls)

Group == groups[Frame.group]

SegmentItems == Group.segments[Frame.segment].items

Current == SegmentItems[Frame.item]

Entering == result = "running" /\ Frame.segment = 0

\* Nothing is being written, and the current segment is at hand.
AtItems == result = "running" /\ pending = <<>> /\ Frame.segment # 0

Repeating(kind) == AtItems /\ Frame.reps > 0 /\ Current.kind = kind

SetFrame(frame) == Append(Front(calls), frame)

OneLess == [Frame EXCEPT !.reps = @ - 1]

NextItem(reps) ==
  [group |-> Frame.group, segment |-> Frame.segment, item |-> Frame.item + 1, reps |-> reps]

\* The difference of passgen_generate_repeat, a size_t.
Difference(item) == (item.max - item.min) % Word

Counts(item, choices) == {(item.min + choice) % Word : choice \in choices}

Idle ==
  /\ result = "idle"
  /\ depthLimit = 0 /\ buffer = [writer |-> "unicode", room |-> 0]
  /\ depth = 0 /\ calls = <<>> /\ pending = <<>>
  /\ output = <<>> /\ used = 0 /\ entropy = <<1, 1>>

\* passgen_generate_fill_*, passgen_generate
Begin ==
  /\ result = "idle"
  /\ depthLimit' \in DepthLimits /\ buffer' \in Buffers
  /\ depth' = depthLimit'
  /\ calls' = <<Call(<<>>)>>
  /\ result' = "running"
  /\ pending' = <<>> /\ output' = <<>> /\ used' = 0 /\ entropy' = <<1, 1>>

\* An error returns through all the callers.
Fail == result' = "failed" /\ UNCHANGED <<depthLimit, buffer, calls, pending, output, used, entropy>>

TooDeep == Entering /\ depth = 0 /\ Fail /\ UNCHANGED depth

\* A sum of zero marks a group that cannot be generated.
DeadGroup ==
  /\ Entering /\ depth > 0 /\ Group.sum = 0
  /\ depth' = depth - 1
  /\ Fail

\* Mutant: the entropy is not reduced by the segment's multiplier.
ChooseSegmentUndivided(choice) ==
  /\ Entering /\ depth > 0 /\ choice < Group.sum
  /\ \E n \in Chosen(Group.segments, choice) :
       /\ calls' = SetFrame([Frame EXCEPT !.segment = n])
       /\ entropy' = Times(Group.sum, 1)
  /\ depth' = depth - 1
  /\ UNCHANGED <<depthLimit, buffer, result, pending, output, used>>

\* passgen_generate_group
ChooseSegment(choice) ==
  /\ Entering /\ depth > 0 /\ choice < Group.sum
  /\ \E n \in Chosen(Group.segments, choice) :
       /\ calls' = SetFrame([Frame EXCEPT !.segment = n])
       /\ entropy' = Times(Group.sum, Group.segments[n].multiplier)
  /\ depth' = depth - 1
  /\ UNCHANGED <<depthLimit, buffer, result, pending, output, used>>

\* The walk leaves the last segment: passgen_stack_get returns NULL, and that
\* pointer is followed.
WalkPast(choice) ==
  /\ Entering /\ depth > 0 /\ choice < Group.sum
  /\ Chosen(Group.segments, choice) = {}
  /\ depth' = depth - 1
  /\ result' = "astray"
  /\ UNCHANGED <<depthLimit, buffer, calls, pending, output, used, entropy>>

\* passgen_generate_item: a fair coin decides against an optional item.
SkipItem ==
  /\ AtItems /\ Frame.reps = 0 /\ Frame.item < Len(SegmentItems)
  /\ SegmentItems[Frame.item + 1].maybe
  /\ calls' = SetFrame(NextItem(0))
  /\ UNCHANGED <<depthLimit, buffer, result, depth, pending, output, used, entropy>>

\* Mutant: one repetition too many.
TakeItemOneMore ==
  /\ AtItems /\ Frame.reps = 0 /\ Frame.item < Len(SegmentItems)
  /\ LET next == SegmentItems[Frame.item + 1] IN
     /\ Difference(next) + 1 < Word
     /\ \E reps \in Counts(next, 0..Difference(next) + 1) : calls' = SetFrame(NextItem(reps))
     /\ entropy' = Times(Difference(next) + 1, 1)
  /\ UNCHANGED <<depthLimit, buffer, result, depth, pending, output, used>>

\* The next item, as many times as passgen_generate_repeat says.
TakeItem ==
  /\ AtItems /\ Frame.reps = 0 /\ Frame.item < Len(SegmentItems)
  /\ LET next == SegmentItems[Frame.item + 1] IN
     /\ Difference(next) + 1 < Word
     /\ \E reps \in Counts(next, 0..Difference(next)) : calls' = SetFrame(NextItem(reps))
     /\ entropy' = Times(Difference(next) + 1, 1)
  /\ UNCHANGED <<depthLimit, buffer, result, depth, pending, output, used>>

\* The number of counts to choose from overflows to zero: passgen_random_u64_max
\* fails an assertion, or never returns if assertions are compiled out.
NoCount ==
  /\ AtItems /\ Frame.reps = 0 /\ Frame.item < Len(SegmentItems)
  /\ Difference(SegmentItems[Frame.item + 1]) + 1 = Word
  /\ result' = "astray"
  /\ UNCHANGED <<depthLimit, buffer, depth, calls, pending, output, used, entropy>>

\* One repetition of the current item is done, or left to the writer.
Repetition(codepoints, odds) ==
  /\ calls' = SetFrame(OneLess)
  /\ pending' = codepoints
  /\ entropy' = Times(odds[1], odds[2])
  /\ UNCHANGED <<depthLimit, buffer, result, depth, output, used>>

GenerateLiteral == Repeating("LITERAL") /\ Repetition(Current.chars, <<1, 1>>)

\* passgen_generate_set
GenerateSet ==
  /\ Repeating("SET") /\ Current.ranges # <<>>
  /\ LET possible == Last(Current.choices) IN
     \E choice \in 0..possible-1 : \E n \in ChosenRange(Current, choice) :
       Repetition(<<Current.ranges[n].start + choice - (IF n = 1 THEN 0 ELSE Current.choices[n-1])>>,
                  <<possible, 1>>)

\* The sum of all ranges overflowed to zero: there is no choice, which is asserted.
NoChoice ==
  /\ Repeating("SET") /\ Current.ranges # <<>> /\ Last(Current.choices) = 0
  /\ result' = "astray"
  /\ UNCHANGED <<depthLimit, buffer, depth, calls, pending, output, used, entropy>>

\* Mutant: a repetition of nothing is not counted.
GenerateEmptySetForever == Repeating("SET") /\ Current.ranges = <<>> /\ UNCHANGED generation

GenerateEmptySet == Repeating("SET") /\ Current.ranges = <<>> /\ Repetition(<<>>, <<1, 1>>)

Special(letter) == Repeating("SPECIAL") /\ Current.letter = letter

\* The name that a special's characters are as a string: a zero ends it.
Name(chars) ==
  LET zeros == {i \in DOMAIN chars : chars[i] = 0} IN
  IF zeros = {} THEN chars ELSE SubSeq(chars, 1, Min(zeros) - 1)

\* A special without characters has no name at all: the pointer to it is NULL.
Listed(chars) == chars # <<>> /\ Name(chars) \in DOMAIN Wordlists

Wordlist == Wordlists[Name(Current.chars)]

\* passgen_utf8_decode succeeds: the word is well-formed, and there is room for it.
Decodable(list, i, room) == i \notin list.illformed /\ Len(list.words[i]) <= room

\* The specials whose generation has no telling: one without a name, which is looked up
\* among lists all the same; a word of a list that has none; or one made by a chain that
\* has no words, one that cannot be decoded, which is asserted, or that overruns.
Hopeless(letter, chars) ==
  /\ letter \in {LetterW, LetterM}
  /\ \/ chars = <<>> /\ DOMAIN Wordlists # {}
     \/ /\ Listed(chars)
        /\ LET list == Wordlists[Name(chars)] IN
           \/ list.words = <<>>
           \/ /\ letter = LetterM
              /\ list.overruns \/ \E i \in DOMAIN list.words : ~Decodable(list, i, MaxLink)

SpecialAstray ==
  /\ Repeating("SPECIAL") /\ Hopeless(Current.letter, Current.chars)
  /\ result' = "astray"
  /\ UNCHANGED <<depthLimit, buffer, depth, calls, pending, output, used, entropy>>

\* passgen_generate_special_wordlist
GenerateWord ==
  /\ Special(LetterW) /\ Listed(Current.chars)
  /\ \E i \in DOMAIN Wordlist.words :
       /\ Decodable(Wordlist, i, MaxWord)
       /\ Repetition(Wordlist.words[i], <<Len(Wordlist.words), 1>>)

WordUndecoded ==
  /\ Special(LetterW) /\ Listed(Current.chars)
  /\ \E i \in DOMAIN Wordlist.words : ~Decodable(Wordlist, i, MaxWord)
  /\ Fail /\ UNCHANGED depth

\* The words that passgen_markov_generate puts together, with their odds.
GenerateMarkov ==
  /\ Special(LetterM) /\ Listed(Current.chars)
  /\ \A i \in DOMAIN Wordlist.words : Decodable(Wordlist, i, MaxLink)
  /\ \E made \in Wordlist.chain : Repetition(made.word, made.odds)

\* There is no such list, or none at all.
NoWordlist ==
  /\ Special(LetterW) \/ Special(LetterM)
  /\ ~Listed(Current.chars) /\ (Current.chars = <<>> => DOMAIN Wordlists = {})
  /\ Fail /\ UNCHANGED depth

\* A preset is not implemented: nothing is generated.
GeneratePreset == Special(LetterP) /\ Repetition(<<>>, <<1, 1>>)

GenerateGroup ==
  /\ Repeating("GROUP")
  /\ calls' = Append(SetFrame(OneLess),
                Call(Frame.group \o <<Frame.segment, Frame.item>>))
  /\ UNCHANGED <<depthLimit, buffer, result, depth, pending, output, used, entropy>>

\* The segment is through: ascend, and return.
LeaveGroup ==
  /\ AtItems /\ Frame.reps = 0 /\ Frame.item = Len(SegmentItems)
  /\ calls' = Front(calls)
  /\ depth' = depth + 1
  /\ result' = IF Len(calls) = 1 THEN "done" ELSE "running"
  /\ UNCHANGED <<depthLimit, buffer, pending, output, used, entropy>>

\* passgen_generate_write_buffer and its UTF-8 and JSON forms.
Write ==
  /\ result = "running" /\ pending # <<>> /\ Fits(Head(pending))
  /\ output' = Append(output, Head(pending))
  /\ used' = used + Units(Head(pending))
  /\ pending' = Tail(pending)
  /\ UNCHANGED <<depthLimit, buffer, result, depth, calls, entropy>>

BufferFull ==
  /\ result = "running" /\ pending # <<>> /\ ~Fits(Head(pending))
  /\ Fail /\ UNCHANGED depth

Step ==
  \/ TooDeep \/ DeadGroup \/ SkipItem \/ TakeItem \/ NoCount
  \/ Entering /\ \E choice \in 0..Group.sum-1 : ChooseSegment(choice) \/ WalkPast(choice)
  \/ GenerateLiteral \/ GenerateSet \/ NoChoice \/ GenerateEmptySet
  \/ GenerateWord \/ WordUndecoded \/ GenerateMarkov \/ NoWordlist \/ SpecialAstray
  \/ GeneratePreset
  \/ GenerateGroup \/ LeaveGroup \/ Write \/ BufferFull

\* The pattern is the caller's, who leaves it alone while it is generated from.
Generating == (Begin \/ Step) /\ UNCHANGED groups

Preparing == result = "idle" /\ UNCHANGED generation

GenerateNext == Generating \/ Preparing

GenerateSpec == Idle /\ [][GenerateNext]_<<groups, generation>>

-----------------------------------------------------------------------------
\* How many groups are entered and not yet left.
Nesting == IF calls # <<>> /\ Frame.segment = 0 THEN Len(calls) - 1 ELSE Len(calls)

\* Depth is given back as it was taken: context.depth is what the groups that
\* are open leave of the limit, and all of it once generation is done.
DepthBalanced == result \in {"running", "done"} => depth + Nesting = depthLimit

\* Nothing is written past the end of the buffer.
WithinRoom == used <= buffer.room
=============================================================================
