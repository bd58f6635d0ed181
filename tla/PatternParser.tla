--------------------------- MODULE PatternParser ----------------------------
(***************************************************************************)
(* The pattern parser of src/parser/parser.c: a stack of states that is    *)
(* fed one token at a time and builds the pattern, a tree of groups, in    *)
(* place.  Its states hold pointers into the tree; what they point to is   *)
(* always the group named by the state, its last segment, or that          *)
(* segment's last item.                                                    *)
(***************************************************************************)
EXTENDS Pattern

CONSTANTS
  Alphabets,  \* bound: the tokens a parse may be fed and how many of them
  Limits      \* values of parser->limit; 0 is no limit

ASSUME AlphabetsAssumption == Alphabets \subseteq [tokens : SUBSET Nat, most : Nat]
ASSUME LimitsAssumption == Limits \subseteq Nat

VARIABLES
  alphabet,   \* the alphabet of this parse
  limit,      \* parser->limit
  stack,      \* parser->state: the states, the current one last
  outcome,    \* "open" while tokens are accepted, then "done", "failed", or "astray":
              \* an assertion fails, or without it memory is overwritten
  fed,        \* how many tokens were accepted
  exact       \* history: may sums of multipliers still be relied on?

vars == <<alphabet, limit, stack, groups, outcome, fed, exact>>

-----------------------------------------------------------------------------
(* The parser's state.                                                     *)

State(type, group) == [type |-> type, group |-> group, ranged |-> FALSE]

Top == stack[Len(stack)]

In(type) == outcome = "open" /\ Top.type = type

Here == Top.group

\* The current segment of the group at p in heap h, the item last put into it,
\* and the place of that item.
Segment(h, p) == Last(h[p].segments)

LastItem(h, p) == Last(Segment(h, p).items)

ItemPlace(h, p) == p \o <<Len(h[p].segments), Len(Segment(h, p).items)>>

HasItems(h, p) == Segment(h, p).items # <<>>

SetSegment(h, p, segment) == [h EXCEPT ![p].segments[Len(h[p].segments)] = segment]

\* Mutant: the state still points to the group's first segment.
SetItemsFirst(h, p, items) == [h EXCEPT ![p].segments[1].items = items]

SetItems(h, p, items) == [h EXCEPT ![p].segments[Len(h[p].segments)].items = items]

SetLastItem(h, p, item) == SetItems(h, p, Append(Front(Segment(h, p).items), item))

AddItem(h, p, item) == SetItems(h, p, Append(Segment(h, p).items, item))

\* passgen_pattern_segment_free and _init.
EmptySegment(h, p) ==
  LET freed == {q \in DOMAIN h : IsPrefix(Append(p, Len(h[p].segments)), q)}
  IN  SetSegment([q \in DOMAIN h \ freed |-> h[q]], p, NewSegment)

\* Mutant: the item is popped, its group is not freed.
CleanedLeaking(p) ==
  IF HasItems(groups, p) /\ LastItem(groups, p).kind = "GROUP"
       /\ groups[ItemPlace(groups, p)].sum = 0
    THEN SetItems(groups, p, Front(Segment(groups, p).items))
    ELSE groups

\* passgen_pattern_segment_clean: an empty group that ends the segment is removed.
Cleaned(p) ==
  IF HasItems(groups, p) /\ LastItem(groups, p).kind = "GROUP"
       /\ groups[ItemPlace(groups, p)].sum = 0
    THEN SetItems(Without(groups, ItemPlace(groups, p)), p, Front(Segment(groups, p).items))
    ELSE groups

\* Mutant: the literal is not split.
TaintedWhole(h, p) ==
  IF LastItem(h, p).kind # "LITERAL" THEN h
  ELSE SetLastItem(h, p, [LastItem(h, p) EXCEPT !.tainted = TRUE])

\* last_single_item_taint: the last item, split off its literal if it is one.
Tainted(h, p) ==
  LET item == LastItem(h, p)
      last == [NewItem("LITERAL") EXCEPT !.chars = <<Last(item.chars)>>, !.tainted = TRUE]
  IN  IF item.kind # "LITERAL" THEN h
      ELSE IF Len(item.chars) > 1
             THEN AddItem(SetLastItem(h, p, [item EXCEPT !.chars = Front(@)]), p, last)
             ELSE SetLastItem(h, p, [item EXCEPT !.tainted = TRUE])

-----------------------------------------------------------------------------
Init ==
  /\ alphabet \in Alphabets
  /\ limit \in Limits
  /\ stack = <<State("GROUP", <<>>)>>
  /\ groups = [root \in {<<>>} |-> NewGroup]
  /\ outcome = "open"
  /\ fed = 0
  /\ exact = TRUE

\* Mutant: the limit is noticed one state late.
AtLimitLate == limit # 0 /\ Len(stack) > limit

AtLimit == limit # 0 /\ Len(stack) >= limit

\* The frame of every step that accepts a token.
Accept ==
  /\ ~AtLimit /\ fed < alphabet.most
  /\ fed' = fed + 1
  /\ UNCHANGED <<alphabet, limit, outcome>>

Push(state) == stack' = Append(stack, state)

Leave == stack' = Front(stack)

Become(type) == stack' = [stack EXCEPT ![Len(stack)].type = type]

(* passgen_parse_group: the last segment is cleaned, then the token acts.  *)

Syntax == {Pipe, LeftParen, RightParen, LeftBrace, RightBrace, LeftBracket, RightBracket}

SpecialLetters == {LetterM, LetterP, LetterW}

IsChar(t, c) == ~IsEscaped(t) /\ Char(t) = c

\* '|': a new segment, unless the current one has multiplier zero: that one is
\* emptied and used again.
NextSegment(t) ==
  /\ In("GROUP") /\ IsChar(t, Pipe)
  /\ LET h == Cleaned(Here) IN
     IF Segment(h, Here).multiplier > 0
       THEN /\ groups' = [h EXCEPT ![Here] = WithSegment(h[Here])]
            /\ exact' = exact
       ELSE /\ groups' = EmptySegment(h, Here)
            /\ exact' = FALSE
  /\ UNCHANGED stack
  /\ Accept

\* A current segment with multiplier zero is freed and dropped.
WithoutZero(h, p) ==
  IF Segment(h, p).multiplier = 0
    THEN [EmptySegment(h, p) EXCEPT ![p].segments = Front(@)] ELSE h

\* ')': the current segment is dropped if it cannot be chosen, the group finished.
CloseGroup(t) ==
  /\ In("GROUP") /\ IsChar(t, RightParen) /\ Len(stack) > 1
  /\ groups' = [WithoutZero(Cleaned(Here), Here) EXCEPT ![Here] = Finished(@)]
  /\ Leave
  /\ UNCHANGED exact
  /\ Accept

OpenGroup(t) ==
  /\ In("GROUP") /\ IsChar(t, LeftParen)
  /\ LET h == AddItem(Cleaned(Here), Here, NewItem("GROUP"))
         place == ItemPlace(h, Here)
     IN  /\ groups' = [q \in DOMAIN h \union {place} |-> IF q = place THEN NewGroup ELSE h[q]]
         /\ Push(State("GROUP", place))
  /\ UNCHANGED exact
  /\ Accept

OpenSet(t) ==
  /\ In("GROUP") /\ IsChar(t, LeftBracket)
  /\ groups' = AddItem(Cleaned(Here), Here, NewItem("SET"))
  /\ Push(State("SET", Here))
  /\ UNCHANGED exact
  /\ Accept

\* '{' after an item: its repetition.
OpenRepeat(t) ==
  /\ In("GROUP") /\ IsChar(t, LeftBrace)
  /\ HasItems(Cleaned(Here), Here)
  /\ LET h == Tainted(Cleaned(Here), Here)
     IN  groups' = SetLastItem(h, Here, [LastItem(h, Here) EXCEPT !.min = 0, !.max = 0])
  /\ Push(State("REPEAT", Here))
  /\ UNCHANGED exact
  /\ Accept

\* '{' before any item: the segment's multiplier.  The sum gives up one, what a
\* segment without a multiplier counts for.
OpenMultiplier(t) ==
  /\ In("GROUP") /\ IsChar(t, LeftBrace)
  /\ LET h == Cleaned(Here)
         segment == Segment(h, Here)
     IN  /\ ~HasItems(h, Here)
         /\ groups' = [SetSegment(h, Here, [segment EXCEPT !.multiplier = 0])
                         EXCEPT ![Here].sum = (@ - 1) % Word]
         /\ exact' = (exact /\ segment.multiplier = 1)
  /\ Push(State("MULTIPLIER", Here))
  /\ Accept

Maybe(t) ==
  /\ In("GROUP") /\ IsChar(t, Question)
  /\ HasItems(Cleaned(Here), Here)
  /\ LET h == Tainted(Cleaned(Here), Here)
     IN  groups' = SetLastItem(h, Here, [LastItem(h, Here) EXCEPT !.maybe = TRUE])
  /\ UNCHANGED <<stack, exact>>
  /\ Accept

OpenSpecial(t) ==
  /\ In("GROUP") /\ IsEscaped(t) /\ Char(Unescaped(t)) \in SpecialLetters
  /\ groups' = AddItem(Cleaned(Here), Here,
                 [NewItem("SPECIAL") EXCEPT !.letter = Char(Unescaped(t))])
  /\ Push(State("SPECIAL", Here))
  /\ UNCHANGED exact
  /\ Accept

\* Any other token is a character: it joins the literal before it if that has
\* room and no modifier, and starts one otherwise.
Literal(t) ==
  /\ In("GROUP")
  /\ IF IsEscaped(t)
       THEN Char(Unescaped(t)) \in Syntax
       ELSE Char(t) \notin (Syntax \union {Question}) \ {RightBrace, RightBracket}
  /\ LET h == Cleaned(Here)
         item == LastItem(h, Here)
     IN  groups' =
           IF HasItems(h, Here) /\ item.kind = "LITERAL" /\ ~item.tainted
                /\ Len(item.chars) < MaxChars
             THEN SetLastItem(h, Here, [item EXCEPT !.chars = Append(@, Unescaped(t))])
             ELSE AddItem(h, Here, [NewItem("LITERAL") EXCEPT !.chars = <<Unescaped(t)>>])
  /\ UNCHANGED <<stack, exact>>
  /\ Accept

(* The states in which the last item or the multiplier is read.            *)

Item == LastItem(groups, Here)

UpdateItem(item) == groups' = SetLastItem(groups, Here, item)

LastRange == Last(Item.ranges)

Size(range) == 1 + range.end - range.start

\* What the first ranges of a set add up to.
Sums(ranges) ==
  LET total[i \in 0..Len(ranges)] == IF i = 0 THEN 0 ELSE total[i-1] + Size(ranges[i])
  IN  total

\* passgen_parse_set, ']': the running sums of the ranges' sizes are stored, in a size_t.
CloseSet(t) ==
  /\ In("SET") /\ t = RightBracket
  /\ LET ranges == Item.ranges IN
     UpdateItem([Item EXCEPT !.choices = [i \in 1..Len(ranges) |-> Sums(ranges)[i] % Word]])
  /\ Leave
  /\ UNCHANGED exact
  /\ Accept

\* '-' after a range: the next token is its end.
ExtendRange(t) ==
  /\ In("SET") /\ t = Dash /\ Top.ranged
  /\ Become("SET_RANGE")
  /\ UNCHANGED <<groups, exact>>
  /\ Accept

AddRange(t) ==
  /\ In("SET") /\ t # RightBracket /\ ~(t = Dash /\ Top.ranged)
  /\ IsEscaped(t) => Unescaped(t) = Dash
  /\ UpdateItem([Item EXCEPT !.ranges = Append(@, [start |-> Unescaped(t), end |-> Unescaped(t)])])
  /\ stack' = [stack EXCEPT ![Len(stack)].ranged = TRUE]
  /\ UNCHANGED exact
  /\ Accept

\* Mutant: the end may be less than the start.
EndRangeAny(t) ==
  /\ In("SET_RANGE") /\ t # RightBracket
  /\ UpdateItem([Item EXCEPT !.ranges[Len(Item.ranges)].end = t])
  /\ Become("SET")
  /\ UNCHANGED exact
  /\ Accept

\* passgen_parse_set_range: the end is stored with its escaped bit.
EndRange(t) ==
  /\ In("SET_RANGE") /\ t # RightBracket /\ t >= LastRange.start
  /\ UpdateItem([Item EXCEPT !.ranges[Len(Item.ranges)].end = t])
  /\ Become("SET")
  /\ UNCHANGED exact
  /\ Accept

\* One more decimal digit, in a size_t.
Decimal(n, t) == (10 * n + (t - 48)) % Word

MultiplierDigit(t) ==
  /\ In("MULTIPLIER") /\ t \in Digits
  /\ LET segment == Segment(groups, Here)
     IN  groups' = SetSegment(groups, Here,
                     [segment EXCEPT !.multiplier = Decimal(@, t)])
  /\ UNCHANGED <<stack, exact>>
  /\ Accept

CloseMultiplier(t) ==
  /\ In("MULTIPLIER") /\ t = RightBrace
  /\ groups' = [groups EXCEPT ![Here].sum =
                  (@ + Segment(groups, Here).multiplier) % Word]
  /\ Leave
  /\ UNCHANGED exact
  /\ Accept

RepeatDigit(t) ==
  /\ t \in Digits
  /\ \/ In("REPEAT") /\ UpdateItem([Item EXCEPT !.min = Decimal(@, t)])
     \/ In("REPEAT_RANGE") /\ UpdateItem([Item EXCEPT !.max = Decimal(@, t)])
  /\ UNCHANGED <<stack, exact>>
  /\ Accept

RepeatUpTo(t) ==
  /\ In("REPEAT") /\ t = Comma
  /\ UpdateItem([Item EXCEPT !.max = 0])
  /\ Become("REPEAT_RANGE")
  /\ UNCHANGED exact
  /\ Accept

CloseRepeat(t) ==
  /\ t = RightBrace
  /\ \/ In("REPEAT") /\ UpdateItem([Item EXCEPT !.max = Item.min])
     \/ In("REPEAT_RANGE") /\ UNCHANGED groups
  /\ Leave
  /\ UNCHANGED exact
  /\ Accept

OpenName(t) ==
  /\ In("SPECIAL") /\ t = LeftBrace
  /\ Become("SPECIAL_NAME")
  /\ UNCHANGED <<groups, exact>>
  /\ Accept

\* passgen_pattern_special_push keeps a name as UTF-8.
NameChar(t) ==
  /\ In("SPECIAL_NAME") /\ t # RightBrace /\ Unescaped(t) <= MaxCodepoint
  /\ UpdateItem([Item EXCEPT !.chars = Append(@, Unescaped(t))])
  /\ UNCHANGED <<stack, exact>>
  /\ Accept

CloseName(t) ==
  /\ In("SPECIAL_NAME") /\ t = RightBrace
  /\ Leave
  /\ UNCHANGED <<groups, exact>>
  /\ Accept

\* It asserts that the character can be encoded; if assertions are compiled out, the
\* error is taken for a length, and the name gets shorter by one.
NameCharAstray(t) ==
  /\ In("SPECIAL_NAME") /\ Unescaped(t) > MaxCodepoint
  /\ ~AtLimit /\ fed < alphabet.most
  /\ outcome' = "astray"
  /\ UNCHANGED <<alphabet, limit, stack, groups, fed, exact>>

\* The parser returns an error; its caller gives up the parse.
Invalid(t) ==
  \/ AtLimit
  \/ In("GROUP") /\ IsEscaped(t) /\ Char(Unescaped(t)) \notin Syntax \union SpecialLetters
  \/ In("GROUP") /\ IsChar(t, RightParen) /\ Len(stack) <= 1
  \/ In("GROUP") /\ IsChar(t, Question) /\ ~HasItems(Cleaned(Here), Here)
  \/ In("SET") /\ IsEscaped(t) /\ Unescaped(t) # Dash
  \/ In("SET_RANGE") /\ (t = RightBracket \/ t < LastRange.start)
  \/ In("MULTIPLIER") /\ t \notin Digits \union {RightBrace}
  \/ In("REPEAT") /\ t \notin Digits \union {RightBrace, Comma}
  \/ In("REPEAT_RANGE") /\ t \notin Digits \union {RightBrace}
  \/ In("SPECIAL") /\ t # LeftBrace

\* What passgen_parse_group did to the pattern before it noticed stays done.
Reject(t) ==
  /\ outcome = "open" /\ fed < alphabet.most /\ Invalid(t)
  /\ outcome' = "failed"
  /\ groups' = IF AtLimit \/ ~In("GROUP") THEN groups
               ELSE IF IsChar(t, RightParen) THEN WithoutZero(Cleaned(Here), Here)
               ELSE Cleaned(Here)
  /\ UNCHANGED <<alphabet, limit, stack, fed, exact>>

ParseToken(t) ==
  \/ NextSegment(t) \/ CloseGroup(t) \/ OpenGroup(t) \/ OpenSet(t)
  \/ OpenRepeat(t) \/ OpenMultiplier(t) \/ Maybe(t) \/ OpenSpecial(t) \/ Literal(t)
  \/ CloseSet(t) \/ ExtendRange(t) \/ AddRange(t) \/ EndRange(t)
  \/ MultiplierDigit(t) \/ CloseMultiplier(t)
  \/ RepeatDigit(t) \/ RepeatUpTo(t) \/ CloseRepeat(t)
  \/ OpenName(t) \/ NameChar(t) \/ NameCharAstray(t) \/ CloseName(t)
  \/ Reject(t)

\* passgen_parse_finish: only the root may be open, and is cleaned.
Finish ==
  /\ outcome = "open"
  /\ IF Len(stack) = 1
       THEN outcome' = "done" /\ groups' = Cleaned(Here)
       ELSE outcome' = "failed" /\ UNCHANGED groups
  /\ UNCHANGED <<alphabet, limit, stack, fed, exact>>

Next == Finish \/ \E t \in alphabet.tokens : ParseToken(t)

Spec == Init /\ [][Next]_vars

-----------------------------------------------------------------------------
Places == DOMAIN groups

OnStack(p) == \E i \in 1..Len(stack) : stack[i].type = "GROUP" /\ stack[i].group = p

\* The items of the group at p, all its segments taken together, and their places.
ItemIndexes(p) ==
  UNION {{<<s, i>> : i \in 1..Len(groups[p].segments[s].items)} :
           s \in 1..Len(groups[p].segments)}

ItemAt(p, n) == groups[p].segments[n[1]].items[n[2]]

Codepoint == 0..EscapedBit-1

Numbers == 0..Word-1

TypeOK ==
  /\ alphabet \in Alphabets /\ limit \in Limits /\ fed \in 0..alphabet.most /\ exact \in BOOLEAN
  /\ outcome \in {"open", "done", "failed", "astray"}
  /\ \A i \in 1..Len(stack) :
       /\ stack[i].type \in {"GROUP", "MULTIPLIER", "SET", "SET_RANGE", "REPEAT",
                             "REPEAT_RANGE", "SPECIAL", "SPECIAL_NAME"}
       /\ stack[i].group \in Places
  /\ \A p \in Places :
       /\ groups[p].sum \in Numbers
       /\ \A s \in 1..Len(groups[p].segments) :
            groups[p].segments[s].multiplier \in Numbers
       /\ \A n \in ItemIndexes(p) :
            LET item == ItemAt(p, n) IN
            /\ item.kind \in {"LITERAL", "SET", "GROUP", "SPECIAL"}
            /\ item.min \in Numbers /\ item.max \in Numbers /\ item.maybe \in BOOLEAN

\* What the state on level i points to is there, and is what its type says.
PointsAt(i) ==
  LET s == stack[i] IN
  CASE s.type = "GROUP" -> groups[s.group].segments # <<>>
    [] s.type = "MULTIPLIER" -> ~HasItems(groups, s.group)
    [] s.type \in {"SET", "SET_RANGE"} ->
         HasItems(groups, s.group) /\ LastItem(groups, s.group).kind = "SET"
    [] s.type \in {"REPEAT", "REPEAT_RANGE"} -> HasItems(groups, s.group)
    [] s.type \in {"SPECIAL", "SPECIAL_NAME"} ->
         HasItems(groups, s.group) /\ LastItem(groups, s.group).kind = "SPECIAL"

\* The states' pointers are valid: the stack starts with the root, each group on
\* it is the last item of the current segment of the one below, anything else
\* is on top and works on the group below it.  A ')' that is rejected may take the
\* root's segment away first, so a parser that has failed is of no more use.
PointersValid == outcome # "failed" =>
  /\ stack[1].type = "GROUP" /\ stack[1].group = <<>>
  /\ \A i \in 1..Len(stack) : PointsAt(i)
  /\ \A i \in 2..Len(stack) :
       /\ stack[i-1].type = "GROUP"
       /\ LET below == stack[i-1].group IN
          IF stack[i].type = "GROUP"
            THEN HasItems(groups, below) /\ stack[i].group = ItemPlace(groups, below)
            ELSE stack[i].group = below

\* The tree is one: every group but the root is an item of a group, every item
\* that is a group has one.  Nothing dangles after a removal, nothing is left.
TreeWhole ==
  Places = {<<>>} \union
           UNION {{p \o n : n \in {m \in ItemIndexes(p) : ItemAt(p, m).kind = "GROUP"}} :
                    p \in Places}

\* passgen_parser_set_limit's promise: the stack never grows past the limit.
DepthLimited == limit # 0 => Len(stack) <= limit

Closed(p) == p \in Places /\ ~OnStack(p)

\* A closed group with sum zero, which passgen_generate_group refuses, exists
\* only until the next token: it ends the current segment.  None is left when
\* parsing is done.
DeadGroupsLast ==
  \A p \in Places : Closed(p) /\ groups[p].sum = 0 =>
    /\ outcome # "done"
    /\ Top.type = "GROUP" /\ HasItems(groups, Here) /\ p = ItemPlace(groups, Here)

\* What passgen_pattern_group_finish assumes: "all segments have a positive
\* multiplier".  Only the segment being parsed may have multiplier zero.
NoZeroSegments ==
  \A p \in Places : \A s \in 1..Len(groups[p].segments) :
    groups[p].segments[s].multiplier = 0 => OnStack(p) /\ s = Len(groups[p].segments)

\* A modifier applies to one codepoint: an item that is repeated or optional
\* and is a literal holds just that one; no literal is empty or too long.
ModifierApart ==
  \A p \in Places : \A n \in ItemIndexes(p) :
    LET item == ItemAt(p, n) IN
    item.kind = "LITERAL" =>
      /\ Len(item.chars) \in 1..MaxChars
      /\ item.tainted => Len(item.chars) = 1
      /\ item.maybe \/ item.min # 1 \/ item.max # 1 => item.tainted

\* The multipliers of a group's segments, added up like its sum; the one that
\* is being read is not part of it yet.
SumOf(p) ==
  LET segments == groups[p].segments
      pending == Top.type = "MULTIPLIER" /\ Here = p
      total[s \in 0..Len(segments)] ==
        IF s = 0 THEN 0
        ELSE (total[s-1] +
                (IF pending /\ s = Len(segments) THEN 0 ELSE segments[s].multiplier)) % Word
  IN  total[Len(segments)]

SumRight(p) == groups[p].sum = SumOf(p) \/ (Closed(p) /\ groups[p].sum = 0)

\* A group's sum is that of its segments' multipliers, so the generator's walk
\* over the segments ends inside them: as long as no segment was given a second
\* multiplier and none with multiplier zero was used again.
SumExact == exact => \A p \in Places : SumRight(p)

\* A size_t can say how many choices a set gives.
Countable(ranges) == Sums(ranges)[Len(ranges)] < Word

\* Once a set is closed, its running sums rise with every range, if its choices can be
\* counted, so that every choice below the last one falls into one range.
SetsChoosable ==
  \A p \in Places : \A n \in ItemIndexes(p) :
    LET item == ItemAt(p, n)
        reading == Top.type \in {"SET", "SET_RANGE"} /\ Here = p /\ item = Item
    IN  item.kind = "SET" /\ ~reading =>
          /\ Len(item.choices) = Len(item.ranges)
          /\ Countable(item.ranges) =>
               \A i \in 1..Len(item.choices) :
                 item.choices[i] - (IF i = 1 THEN 0 ELSE item.choices[i-1]) > 0

\* What the generator relies on when it has chosen: its walks over the segments of a group
\* and over the ranges of a set, up to their sums, end inside them.
Choosable == SumExact /\ SetsChoosable

\* The tree that is built in place stays a tree the parser can go on with: its states
\* point to what they take it for, nothing dangles or is left over, and what does not
\* make sense alone, a group that derives nothing or a segment that is never chosen, is
\* where it will be removed.
TreeSound == PointersValid /\ TreeWhole /\ DeadGroupsLast /\ NoZeroSegments

\* Parsing only ever touches the current segments: a closed group and a segment
\* left behind stay as they are until they are removed.
BehindFrozen ==
  [][\A p \in Places \intersect DOMAIN groups' :
       /\ Closed(p) /\ groups[p].sum # 0 => groups'[p] = groups[p]
       /\ OnStack(p) => \A s \in 1..Len(groups[p].segments) - 1 :
                          groups'[p].segments[s] = groups[p].segments[s]]_vars

-----------------------------------------------------------------------------
\* group.h:34 of multiplier_sum: "Sum of segment multipliers".
SumIsSum == \A p \in Places : SumRight(p)

\* syntax.md:101, "To create a range consisting of a literal dash, it must be
\* escaped": then the ends of every range are codepoints.
RangesAreCodepoints ==
  \A p \in Places : \A n \in ItemIndexes(p) :
    \A i \in DOMAIN ItemAt(p, n).ranges :
      ItemAt(p, n).ranges[i].start \in Codepoint /\ ItemAt(p, n).ranges[i].end \in Codepoint
=============================================================================
