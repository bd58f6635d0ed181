--------------------------- MODULE Passgen_proofs ----------------------------
(***************************************************************************)
(* The parser, for every alphabet, every limit and every word size: its    *)
(* stack stands on the root group and never outgrows the limit; the tree   *)
(* it builds in place stays one it can go on with; what a modifier applies *)
(* to stays one codepoint; the sums the generator chooses below are those  *)
(* it walks; and what is parsed stays as it is.                            *)
(*                                                                         *)
(* The generator, for every pattern, every depth limit, every buffer and   *)
(* every wordlist: it never holds more groups open than the limit and      *)
(* gives back the depth it takes; and from what the parser made of any     *)
(* string it never walks out of the pattern or past the end of its buffer. *)
(*                                                                         *)
(* The parser's invariant.  Every token changes one group, the one the top *)
(* state works in, and every token of a group first cleans that group and  *)
(* only then acts.  TInv is therefore stated of a heap, of the path of the *)
(* open groups and of the role of the top state: what the current segment  *)
(* of the last group of the path may be while it is read.  A token's proof *)
(* has three parts: what it finds (TokenFinds, GroupFinds, ReaderFinds),   *)
(* what the changed group is (lemmas on one group or one item), and what   *)
(* that makes of the heap (WholeEdited, WholeCut, WholeGrown, WholeClosed).*)
(***************************************************************************)
EXTENDS Passgen, SequenceTheorems, WellFoundedInduction, TLAPS

\* The bottom state is the one that Init pushed.
Rooted ==
  /\ \E S : stack \in Seq(S)
  /\ Len(stack) >= 1
  /\ stack[1].type = "GROUP" /\ stack[1].group = <<>>

IInv == Rooted /\ limit \in Nat /\ DepthLimited

-----------------------------------------------------------------------------
\* Pushing a state keeps what is below it.
LEMMA AppendKeeps ==
  ASSUME NEW S, NEW s \in Seq(S), Len(s) >= 1, NEW x
  PROVE  /\ \E T : Append(s, x) \in Seq(T)
         /\ Len(Append(s, x)) = Len(s) + 1
         /\ Append(s, x)[1] = s[1]
<1> DEFINE T == S \union {x}
<1>1. s \in Seq(T) /\ x \in T
  OBVIOUS
<1> HIDE DEF T
<1>2. Append(s, x) \in Seq(T) /\ Len(Append(s, x)) = Len(s) + 1 /\ Append(s, x)[1] = s[1]
  BY <1>1
<1> QED
  BY <1>2

\* Popping all but the bottom state keeps that one.
LEMMA FrontKeeps ==
  ASSUME NEW S, NEW s \in Seq(S), Len(s) > 1
  PROVE  /\ Front(s) \in Seq(S)
         /\ Len(Front(s)) = Len(s) - 1
         /\ Front(s)[1] = s[1]
BY DEF Front

\* Changing the top state keeps those below it.
LEMMA ExceptKeeps ==
  ASSUME NEW S, NEW s \in Seq(S), Len(s) > 1, NEW x
  PROVE  /\ \E T : [s EXCEPT ![Len(s)] = x] \in Seq(T)
         /\ Len([s EXCEPT ![Len(s)] = x]) = Len(s)
         /\ [s EXCEPT ![Len(s)] = x][1] = s[1]
<1> DEFINE T == S \union {x}
<1>1. s \in Seq(T) /\ x \in T
  OBVIOUS
<1> HIDE DEF T
<1>2. /\ [s EXCEPT ![Len(s)] = x] \in Seq(T)
      /\ Len([s EXCEPT ![Len(s)] = x]) = Len(s)
      /\ [s EXCEPT ![Len(s)] = x][1] = s[1]
  BY <1>1
<1> QED
  BY <1>2

\* A state that is not a group's stands above the root.
LEMMA AboveRoot ==
  ASSUME IInv, NEW type, In(type), type # "GROUP"
  PROVE  Len(stack) > 1
BY DEF IInv, Rooted, In, Top

-----------------------------------------------------------------------------
(* What the actions may do to the stack, each of which keeps IInv.         *)

LEMMA StackKept ==
  ASSUME IInv, UNCHANGED <<stack, limit>>
  PROVE  IInv'
BY DEF IInv, Rooted, DepthLimited

LEMMA Pushed ==
  ASSUME IInv, NEW pushed, Push(pushed), Accept
  PROVE  IInv'
<1>1. PICK S : stack \in Seq(S)
  BY DEF IInv, Rooted
<1>2. Len(stack) >= 1 /\ limit' = limit /\ ~AtLimit /\ stack' = Append(stack, pushed)
  BY DEF IInv, Rooted, Accept, Push
<1>3. PICK s : s = Append(stack, pushed)
  OBVIOUS
<1>4. (\E T : s \in Seq(T)) /\ Len(s) = Len(stack) + 1 /\ s[1] = stack[1] /\ Len(stack) \in Nat
  BY <1>1, <1>2, <1>3, AppendKeeps
<1>5. stack' = s
  BY <1>2, <1>3
<1>6. stack[1].type = "GROUP" /\ stack[1].group = <<>>
  BY DEF IInv, Rooted
<1>7. Len(s) >= 1
  BY <1>2, <1>4
<1>8. Rooted'
  BY <1>4, <1>5, <1>6, <1>7 DEF Rooted
<1>9. DepthLimited'
  BY <1>2, <1>4, <1>5 DEF IInv, DepthLimited, AtLimit
<1> QED
  BY <1>2, <1>8, <1>9 DEF IInv

LEMMA Popped ==
  ASSUME IInv, Leave, Accept, Len(stack) > 1
  PROVE  IInv'
<1>1. PICK S : stack \in Seq(S)
  BY DEF IInv, Rooted
<1>2. limit' = limit /\ stack' = Front(stack)
  BY DEF Accept, Leave
<1>3. /\ stack' \in Seq(S) /\ Len(stack') = Len(stack) - 1 /\ Len(stack) \in Nat
      /\ stack'[1] = stack[1]
  BY <1>1, <1>2, FrontKeeps
<1> QED
  BY <1>2, <1>3 DEF IInv, Rooted, DepthLimited

LEMMA TopChanged ==
  ASSUME IInv, NEW x, stack' = [stack EXCEPT ![Len(stack)] = x], Accept, Len(stack) > 1
  PROVE  IInv'
<1>1. PICK S : stack \in Seq(S)
  BY DEF IInv, Rooted
<1>2. limit' = limit
  BY DEF Accept
<1>3. Len(stack') = Len(stack) /\ stack'[1] = stack[1] /\ \E T : stack' \in Seq(T)
  BY <1>1, ExceptKeeps
<1> QED
  BY <1>2, <1>3 DEF IInv, Rooted, DepthLimited

LEMMA Became ==
  ASSUME IInv, NEW from, In(from), from # "GROUP", NEW type, Become(type), Accept
  PROVE  IInv'
<1>1. Len(stack) > 1
  BY AboveRoot
<1>2. stack' = [stack EXCEPT ![Len(stack)] = [stack[Len(stack)] EXCEPT !.type = type]]
  BY DEF Become
<1> QED
  BY <1>1, <1>2, TopChanged

LEMMA LeftState ==
  ASSUME IInv, NEW from, In(from), from # "GROUP", Leave, Accept
  PROVE  IInv'
BY AboveRoot, Popped

-----------------------------------------------------------------------------
LEMMA InitIInv == Init => IInv
<1> SUFFICES ASSUME Init PROVE IInv
  OBVIOUS
<1>1. limit \in Nat
  BY LimitsAssumption DEF Init
<1>2. stack = <<State("GROUP", <<>>)>>
  BY DEF Init
<1>3. stack \in Seq({State("GROUP", <<>>)}) /\ Len(stack) = 1 /\ stack[1] = State("GROUP", <<>>)
  BY <1>2
<1>4. stack[1].type = "GROUP" /\ stack[1].group = <<>>
  BY <1>3 DEF State
<1> QED
  BY <1>1, <1>3, <1>4 DEF IInv, Rooted, DepthLimited

\* The tokens of a group.
LEMMA GroupStep ==
  ASSUME IInv, NEW t,
         \/ NextSegment(t) \/ CloseGroup(t) \/ OpenGroup(t) \/ OpenSet(t)
         \/ OpenRepeat(t) \/ OpenMultiplier(t) \/ Maybe(t) \/ OpenSpecial(t) \/ Literal(t)
  PROVE  IInv'
<1>1. CASE NextSegment(t) \/ Maybe(t) \/ Literal(t)
  BY <1>1, StackKept DEF NextSegment, Maybe, Literal, Accept
<1>2. CASE CloseGroup(t)
  BY <1>2, Popped DEF CloseGroup
<1>3. CASE OpenGroup(t)
  <2>1. \E pushed : Push(pushed)
    BY <1>3 DEF OpenGroup
  <2> QED
    BY <1>3, <2>1, Pushed DEF OpenGroup
<1>4. CASE OpenSet(t)
  BY <1>4, Pushed DEF OpenSet
<1>5. CASE OpenRepeat(t)
  BY <1>5, Pushed DEF OpenRepeat
<1>6. CASE OpenMultiplier(t)
  BY <1>6, Pushed DEF OpenMultiplier
<1>7. CASE OpenSpecial(t)
  BY <1>7, Pushed DEF OpenSpecial
<1> QED
  BY <1>1, <1>2, <1>3, <1>4, <1>5, <1>6, <1>7

\* The tokens of a set.
LEMMA SetStep ==
  ASSUME IInv, NEW t, CloseSet(t) \/ ExtendRange(t) \/ AddRange(t) \/ EndRange(t)
  PROVE  IInv'
<1>1. CASE CloseSet(t)
  BY <1>1, LeftState DEF CloseSet
<1>2. CASE ExtendRange(t)
  BY <1>2, Became DEF ExtendRange
<1>3. CASE AddRange(t)
  <2>1. Len(stack) > 1
    BY <1>3, AboveRoot DEF AddRange
  <2>2. stack' = [stack EXCEPT ![Len(stack)] = [stack[Len(stack)] EXCEPT !.ranged = TRUE]]
    BY <1>3 DEF AddRange
  <2> QED
    BY <1>3, <2>1, <2>2, TopChanged DEF AddRange
<1>4. CASE EndRange(t)
  BY <1>4, Became DEF EndRange
<1> QED
  BY <1>1, <1>2, <1>3, <1>4

\* The tokens of a multiplier, a repetition, a special.
LEMMA BraceStep ==
  ASSUME IInv, NEW t,
         \/ MultiplierDigit(t) \/ CloseMultiplier(t) \/ RepeatDigit(t) \/ RepeatUpTo(t)
         \/ CloseRepeat(t) \/ OpenName(t) \/ NameChar(t) \/ NameCharAstray(t) \/ CloseName(t)
  PROVE  IInv'
<1>1. CASE MultiplierDigit(t) \/ RepeatDigit(t) \/ NameChar(t) \/ NameCharAstray(t)
  BY <1>1, StackKept DEF MultiplierDigit, RepeatDigit, NameChar, NameCharAstray, Accept
<1>2. CASE CloseMultiplier(t)
  BY <1>2, LeftState DEF CloseMultiplier
<1>3. CASE RepeatUpTo(t)
  BY <1>3, Became DEF RepeatUpTo
<1>4. CASE CloseRepeat(t)
  <2>1. In("REPEAT") \/ In("REPEAT_RANGE")
    BY <1>4 DEF CloseRepeat
  <2> QED
    BY <1>4, <2>1, LeftState DEF CloseRepeat
<1>5. CASE OpenName(t)
  BY <1>5, Became DEF OpenName
<1>6. CASE CloseName(t)
  BY <1>6, LeftState DEF CloseName
<1> QED
  BY <1>1, <1>2, <1>3, <1>4, <1>5, <1>6

LEMMA NextIInv == IInv /\ [Next]_vars => IInv'
<1> SUFFICES ASSUME IInv, [Next]_vars PROVE IInv'
  OBVIOUS
<1>1. CASE Finish
  BY <1>1, StackKept DEF Finish
<1>2. ASSUME NEW t, ParseToken(t) PROVE IInv'
  <2>1. CASE Reject(t)
    BY <2>1, StackKept DEF Reject
  <2>2. CASE ~Reject(t)
    BY <1>2, <2>2, GroupStep, SetStep, BraceStep DEF ParseToken
  <2> QED
    BY <2>1, <2>2
<1>3. CASE UNCHANGED vars
  BY <1>3, StackKept DEF vars
<1> QED
  BY <1>1, <1>2, <1>3 DEF Next

-----------------------------------------------------------------------------
\* The parser's stack never grows past the limit that was set, which is what
\* bounds the nesting of the groups of the pattern it returns.
THEOREM DepthHolds == Spec => []DepthLimited
<1>1. IInv => DepthLimited
  BY DEF IInv
<1> QED
  BY <1>1, InitIInv, NextIInv, PTL DEF Spec

\* The stack is never empty and always stands on the root group, whatever is
\* closed: no token can pop the state passgen_parser_init pushed.
THEOREM RootStays == Spec => []Rooted
<1>1. IInv => Rooted
  BY DEF IInv
<1> QED
  BY <1>1, InitIInv, NextIInv, PTL DEF Spec
-----------------------------------------------------------------------------
(* The invariant.  It is stated of a heap, the path of the open groups and *)
(* what the top state does, its role, since every token of a group first   *)
(* cleans the heap and then acts on what that left.                        *)

Kinds == {"LITERAL", "SET", "GROUP", "SPECIAL"}

Ranges == [start : Nat, end : Nat]

Items == [kind : Kinds, chars : Seq(Nat), tainted : BOOLEAN, ranges : Seq(Ranges),
          choices : Seq(Nat), letter : Nat, min : Numbers, max : Numbers, maybe : BOOLEAN]

Segments == [items : Seq(Items), multiplier : Numbers]

Groups == [segments : Seq(Segments), sum : Numbers]

\* Item i of segment s of group g is a group.
IsKid(g, s, i) ==
  /\ s \in 1..Len(g.segments)
  /\ i \in 1..Len(g.segments[s].items)
  /\ g.segments[s].items[i].kind = "GROUP"

Child(p, s, i) == p \o <<s, i>>

Double(k) == 2 * k

Typed(h) ==
  /\ DOMAIN h \subseteq Seq(Nat)
  /\ \A p \in DOMAIN h : (\E k \in Nat : Len(p) = Double(k)) /\ h[p] \in Groups

Tree(h) ==
  /\ <<>> \in DOMAIN h
  /\ \A p \in DOMAIN h, s, i \in Nat : IsKid(h[p], s, i) => Child(p, s, i) \in DOMAIN h
  /\ \A q \in DOMAIN h :
       q = <<>> \/ \E p \in DOMAIN h, s, i \in Nat : IsKid(h[p], s, i) /\ q = Child(p, s, i)

\* The open groups, from the root on.
Depth(st) == IF st[Len(st)].type = "GROUP" THEN Len(st) ELSE Len(st) - 1

Path(st) == [i \in 1..Depth(st) |-> st[i].group]

OnPath(path, p) == \E i \in 1..Len(path) : path[i] = p

\* Each group of the path is the item put last into the one before.
Chained(h, path) ==
  /\ path \in Seq(DOMAIN h) /\ Len(path) >= 1 /\ path[1] = <<>>
  /\ \A i \in 1..Len(path) : Len(path[i]) = Double(i - 1)
  /\ \A i \in 1..Len(path) - 1 :
       /\ h[path[i]].segments # <<>>
       /\ HasItems(h, path[i])
       /\ path[i+1] = ItemPlace(h, path[i])

\* Every one is more than the one before, the first more than none.
Rises(c) == \A i \in 1..Len(c) : c[i] - (IF i = 1 THEN 0 ELSE c[i-1]) > 0

\* An item that is not being read.
Sound(item) ==
  /\ item.kind = "LITERAL" =>
       /\ Len(item.chars) \in 1..MaxChars
       /\ item.tainted => Len(item.chars) = 1
       /\ item.maybe \/ item.min # 1 \/ item.max # 1 => item.tainted
  /\ item.kind = "SET" =>
       /\ Len(item.choices) = Len(item.ranges)
       /\ Countable(item.ranges) => Rises(item.choices)

AllSound(items) == \A i \in 1..Len(items) : Sound(items[i])

\* A set that is being read, at least one range of it in role SET_RANGE.
Reading(item, role) ==
  /\ item.kind = "SET"
  /\ \A i \in 1..Len(item.ranges) : item.ranges[i].start <= item.ranges[i].end
  /\ role = "SET_RANGE" => item.ranges # <<>>

\* The items of the current segment of a group in this role.
ItemsFit(items, role) ==
  CASE role = "MULTIPLIER" -> items = <<>>
    [] role \in {"SET", "SET_RANGE"} ->
         items # <<>> /\ AllSound(Front(items)) /\ Reading(Last(items), role)
    [] role \in {"REPEAT", "REPEAT_RANGE"} ->
         /\ items # <<>> /\ AllSound(items)
         /\ Last(items).kind = "LITERAL" => Last(items).tainted
    [] role \in {"SPECIAL", "SPECIAL_NAME"} ->
         items # <<>> /\ AllSound(items) /\ Last(items).kind = "SPECIAL"
    [] OTHER -> AllSound(items)

\* A closed group, or one that is just being closed.
Shut == {"CLOSED", "CLOSING"}

\* The segments behind the current one.
Behind(g) ==
  \A s \in 1..Len(g.segments) - 1 :
    g.segments[s].multiplier # 0 /\ AllSound(g.segments[s].items)

Ahead(g, role) ==
  IF g.segments = <<>> THEN role \in Shut
  ELSE /\ ItemsFit(Last(g.segments).items, role)
       /\ role \in Shut => Last(g.segments).multiplier # 0

Multipliers(g) == [s \in 1..Len(g.segments) |-> g.segments[s].multiplier]

\* The first k numbers of M add up to x.
AddUp(M, k, x) ==
  \E T \in [0..k -> Numbers] :
    T[0] = 0 /\ T[k] = x /\ \A i \in 1..k : T[i] = (T[i-1] + M[i]) % Word

Counted(g, role) ==
  \/ AddUp(Multipliers(g), IF role = "MULTIPLIER" THEN Len(g.segments) - 1
                                                  ELSE Len(g.segments), g.sum)
  \/ role = "CLOSED" /\ g.sum = 0

Well(g, role, ex) == Behind(g) /\ Ahead(g, role) /\ (ex => Counted(g, role))

\* What the group p is to a parser at the end of this path.
Role(path, role, p) ==
  IF p = path[Len(path)] THEN role ELSE IF OnPath(path, p) THEN "GROUP" ELSE "CLOSED"

Whole(h, path, role, ex) ==
  /\ Typed(h) /\ Tree(h) /\ Chained(h, path)
  /\ \A p \in DOMAIN h : Well(h[p], Role(path, role, p), ex)

\* A closed group that derives nothing.
Dead(h, path, p) == p \in DOMAIN h /\ ~OnPath(path, p) /\ h[p].sum = 0

NoneDead(h, path) == \A p \in DOMAIN h : ~Dead(h, path, p)

LastDead(h, path) ==
  \A p \in DOMAIN h : Dead(h, path, p) =>
    HasItems(h, path[Len(path)]) /\ p = ItemPlace(h, path[Len(path)])

\* The role of the top state.
Doing(st) == IF st[Len(st)].ranged THEN "SET_RANGE" ELSE st[Len(st)].type

States == [type : {"GROUP", "MULTIPLIER", "SET", "SET_RANGE", "REPEAT", "REPEAT_RANGE",
                   "SPECIAL", "SPECIAL_NAME"},
           group : Seq(Nat), ranged : BOOLEAN]

\* The states: the groups of the path, and what reads in the last of them.
Stacked(st) ==
  /\ st \in Seq(States)
  /\ Depth(st) >= 1
  /\ \A i \in 1..Depth(st) : st[i].type = "GROUP" /\ ~st[i].ranged
  /\ st[Len(st)].group = st[Depth(st)].group
  /\ st[Len(st)].ranged => st[Len(st)].type \in {"SET", "SET_RANGE"}

TInv ==
  /\ Stacked(stack)
  /\ exact \in BOOLEAN
  /\ alphabet.tokens \subseteq Nat
  /\ \E role \in {Doing(stack), "CLOSING"} :
       /\ Whole(groups, Path(stack), role, exact)
       /\ role = "CLOSING" => outcome = "failed" /\ Doing(stack) = "GROUP"
                              /\ NoneDead(groups, Path(stack))
  /\ IF Doing(stack) = "GROUP" /\ outcome # "done"
       THEN LastDead(groups, Path(stack)) ELSE NoneDead(groups, Path(stack))

-----------------------------------------------------------------------------
(* Sequences: the last element and those before it.                        *)

WithLast(s, x) == [s EXCEPT ![Len(s)] = x]

LEMMA LastFacts ==
  ASSUME NEW S, NEW s \in Seq(S), s # <<>>
  PROVE  /\ Len(s) \in Nat /\ Len(s) >= 1
         /\ Last(s) = s[Len(s)] /\ Last(s) \in S
         /\ Front(s) \in Seq(S) /\ Len(Front(s)) = Len(s) - 1
         /\ \A i \in 1..Len(s) - 1 : Front(s)[i] = s[i]
<1>1. Len(s) \in Nat /\ Len(s) >= 1
  BY EmptySeq
<1>2. \A i \in 1..Len(s) - 1 : s[i] \in S
  BY <1>1
<1>3. s[Len(s)] \in S
  BY <1>1
<1>4. PICK m \in Nat : m = Len(s) - 1
  BY <1>1
<1>5. /\ SubSeq(s, 1, m) \in Seq(S) /\ Len(SubSeq(s, 1, m)) = IF 1 <= m THEN m - 1 + 1 ELSE 0
      /\ \A i \in 1..m-1+1 : SubSeq(s, 1, m)[i] = s[1+i-1]
  <2>1. \A i \in 1..m : s[i] \in S
    BY <1>2, <1>4
  <2> HIDE <1>4
  <2> QED
    BY <2>1, SubSeqProperties
<1>6. Front(s) \in Seq(S) /\ Len(Front(s)) = m /\ \A i \in 1..m : Front(s)[i] = s[i]
  BY <1>4, <1>5 DEF Front
<1> QED
  BY <1>1, <1>3, <1>4, <1>6 DEF Last

LEMMA AppendFacts ==
  ASSUME NEW S, NEW s \in Seq(S), NEW x \in S
  PROVE  /\ Append(s, x) \in Seq(S) /\ Append(s, x) # <<>>
         /\ Len(s) \in Nat /\ Len(Append(s, x)) = Len(s) + 1
         /\ Last(Append(s, x)) = x /\ Front(Append(s, x)) = s
         /\ \A i \in 1..Len(s) : Append(s, x)[i] = s[i]
<1>1. /\ Append(s, x) \in Seq(S) /\ Append(s, x) # <<>>
      /\ Len(s) \in Nat /\ Len(Append(s, x)) = Len(s) + 1
      /\ \A i \in 1..Len(s) : Append(s, x)[i] = s[i]
      /\ Append(s, x)[Len(s) + 1] = x
  BY AppendProperties
<1>2. Last(Append(s, x)) = x
  BY <1>1 DEF Last
<1>3. PICK a \in Seq(S) : a = Append(s, x)
  BY <1>1
<1>4. PICK f : f = Front(a)
  OBVIOUS
<1>5. f \in Seq(S) /\ Len(f) = Len(a) - 1 /\ \A i \in 1..Len(a) - 1 : f[i] = a[i]
  BY <1>1, <1>3, <1>4, LastFacts
<1>6. Len(f) = Len(s) /\ \A i \in 1..Len(f) : f[i] = s[i]
  BY <1>1, <1>3, <1>5
<1>7. f = s
  BY <1>5, <1>6, SeqEqual
<1> QED
  BY <1>1, <1>2, <1>3, <1>4, <1>7

LEMMA WithLastFacts ==
  ASSUME NEW S, NEW s \in Seq(S), s # <<>>, NEW x \in S
  PROVE  /\ WithLast(s, x) \in Seq(S) /\ WithLast(s, x) # <<>>
         /\ Len(WithLast(s, x)) = Len(s) /\ Len(s) \in Nat /\ Len(s) >= 1
         /\ Last(WithLast(s, x)) = x /\ Front(WithLast(s, x)) = Front(s)
         /\ \A i \in 1..Len(s) - 1 : WithLast(s, x)[i] = s[i]
         /\ WithLast(s, x)[Len(s)] = x
<1>1. Len(s) \in Nat /\ Len(s) >= 1
  BY EmptySeq
<1>2. /\ WithLast(s, x) \in Seq(S) /\ Len(WithLast(s, x)) = Len(s)
      /\ \A i \in 1..Len(s) - 1 : WithLast(s, x)[i] = s[i]
      /\ WithLast(s, x)[Len(s)] = x
  BY <1>1, ExceptSeq DEF WithLast
<1>3. WithLast(s, x) # <<>>
  BY <1>1, <1>2, EmptySeq
<1>4. Last(WithLast(s, x)) = x
  BY <1>2 DEF Last
<1>5. PICK w \in Seq(S) : w = WithLast(s, x)
  BY <1>2
<1>6. PICK f, g : f = Front(w) /\ g = Front(s)
  OBVIOUS
<1>7. f \in Seq(S) /\ Len(f) = Len(w) - 1 /\ \A i \in 1..Len(w) - 1 : f[i] = w[i]
  BY <1>3, <1>5, <1>6, LastFacts
<1>8. g \in Seq(S) /\ Len(g) = Len(s) - 1 /\ \A i \in 1..Len(s) - 1 : g[i] = s[i]
  BY <1>6, LastFacts
<1>9. Len(f) = Len(g) /\ \A i \in 1..Len(f) : f[i] = g[i]
  BY <1>2, <1>5, <1>7, <1>8
<1>10. f = g
  BY <1>7, <1>8, <1>9, SeqEqual
<1> QED
  BY <1>1, <1>2, <1>3, <1>4, <1>5, <1>6, <1>10

\* A sequence is its front and its last element.
LEMMA FrontLast ==
  ASSUME NEW S, NEW s \in Seq(S), s # <<>>
  PROVE  s = Append(Front(s), Last(s))
<1>1. /\ Len(s) \in Nat /\ Len(s) >= 1 /\ Last(s) = s[Len(s)] /\ Last(s) \in S
      /\ Front(s) \in Seq(S) /\ Len(Front(s)) = Len(s) - 1
      /\ \A i \in 1..Len(s) - 1 : Front(s)[i] = s[i]
  BY LastFacts
<1>2. /\ Append(Front(s), Last(s)) \in Seq(S)
      /\ Len(Append(Front(s), Last(s))) = Len(s)
      /\ \A i \in 1..Len(s) - 1 : Append(Front(s), Last(s))[i] = Front(s)[i]
      /\ Append(Front(s), Last(s))[Len(s)] = Last(s)
  <2> DEFINE f == Front(s)  l == Last(s)
  <2>1. f \in Seq(S) /\ l \in S /\ Len(f) = Len(s) - 1
    BY <1>1
  <2> HIDE DEF f, l
  <2>2. /\ Append(f, l) \in Seq(S) /\ Len(Append(f, l)) = Len(f) + 1
        /\ \A i \in 1..Len(f) : Append(f, l)[i] = f[i]
        /\ Append(f, l)[Len(f) + 1] = l
    BY <2>1, AppendProperties
  <2>3. Len(f) + 1 = Len(s)
    BY <1>1, <2>1
  <2> QED
    BY <2>1, <2>2, <2>3 DEF f, l
<1>3. PICK a \in Seq(S) : a = Append(Front(s), Last(s))
  BY <1>2
<1>4. Len(s) = Len(a) /\ \A i \in 1..Len(s) : s[i] = a[i]
  BY <1>1, <1>2, <1>3
<1>5. s = a
  BY <1>4, SeqEqual
<1> QED
  BY <1>3, <1>5

-----------------------------------------------------------------------------
(* Places.                                                                 *)

\* w leaves p for one of its segments or of its items.
Stem(w, p) ==
  /\ w \in Seq(Nat) /\ Len(p) < Len(w) /\ Len(w) <= Len(p) + 2
  /\ \A k \in 1..Len(p) : w[k] = p[k]

Even(p) == \E k \in Nat : Len(p) = Double(k)

\* c continues p with s and i.
Continues(c, p, s, i) ==
  /\ c \in Seq(Nat) /\ Len(c) = Len(p) + 2 /\ Len(p) \in Nat
  /\ c[Len(p) + 1] = s /\ c[Len(p) + 2] = i
  /\ \A k \in 1..Len(p) : c[k] = p[k]

LEMMA ChildFacts ==
  ASSUME NEW p \in Seq(Nat), NEW s \in Nat, NEW i \in Nat
  PROVE  Child(p, s, i) \in Seq(Nat) /\ Continues(Child(p, s, i), p, s, i)
<1>0. <<s, i>> \in Seq(Nat)
  OBVIOUS
<1>1. PICK t \in Seq(Nat) : t = <<s, i>>
  BY <1>0, Zenon
<1>2. Len(t) = 2 /\ t[1] = s /\ t[2] = i
  BY <1>1
<1>3. Len(p) \in Nat
  OBVIOUS
<1>4. /\ p \o t \in Seq(Nat)
      /\ Len(p \o t) = Len(p) + Len(t)
      /\ \A k \in 1..Len(p) + Len(t) : (p \o t)[k] = IF k <= Len(p) THEN p[k] ELSE t[k - Len(p)]
  BY ConcatProperties
<1>5. PICK c, n : c = p \o t /\ n = Len(p)
  OBVIOUS
<1>6. c[n + 1] = t[1] /\ c[n + 2] = t[2]
  BY <1>2, <1>4, <1>5
<1>7. \A k \in 1..n : c[k] = p[k]
  BY <1>2, <1>4, <1>5
<1>8. Continues(c, p, s, i)
  BY <1>2, <1>3, <1>4, <1>5, <1>6, <1>7 DEF Continues
<1>9. Child(p, s, i) = c
  BY <1>1, <1>5 DEF Child
<1> QED
  BY <1>8, <1>9 DEF Continues

LEMMA ChildInjective ==
  ASSUME NEW p \in Seq(Nat), NEW s \in Nat, NEW i \in Nat,
         NEW q \in Seq(Nat), NEW u \in Nat, NEW j \in Nat,
         Child(p, s, i) = Child(q, u, j)
  PROVE  p = q /\ s = u /\ i = j
<1>1. PICK c : c = Child(p, s, i) /\ c = Child(q, u, j)
  OBVIOUS
<1>2. /\ Len(p) \in Nat /\ Len(c) = Len(p) + 2 /\ c[Len(p) + 1] = s /\ c[Len(p) + 2] = i
      /\ \A k \in 1..Len(p) : c[k] = p[k]
  <2>1. Continues(c, p, s, i)
    BY <1>1, ChildFacts
  <2> QED
    BY <2>1 DEF Continues
<1>3. /\ Len(q) \in Nat /\ Len(c) = Len(q) + 2 /\ c[Len(q) + 1] = u /\ c[Len(q) + 2] = j
      /\ \A k \in 1..Len(q) : c[k] = q[k]
  <2>1. Continues(c, q, u, j)
    BY <1>1, ChildFacts
  <2> QED
    BY <2>1 DEF Continues
<1>4. Len(p) = Len(q)
  BY <1>2, <1>3
<1>5. s = u /\ i = j /\ \A k \in 1..Len(p) : p[k] = q[k]
  BY <1>2, <1>3, <1>4
<1> QED
  BY <1>4, <1>5, SeqEqual

LEMMA PrefixFacts ==
  ASSUME NEW w \in Seq(Nat), NEW q \in Seq(Nat)
  PROVE  IsPrefix(w, q) <=> Len(w) <= Len(q) /\ \A k \in 1..Len(w) : w[k] = q[k]
<1>1. PICK n \in Nat : n = Len(w)
  OBVIOUS
<1> SUFFICES ASSUME n <= Len(q)
             PROVE  SubSeq(w, 1, n) = SubSeq(q, 1, n) <=> \A k \in 1..n : w[k] = q[k]
  BY <1>1 DEF IsPrefix
<1>2. \A k \in 1..n : w[k] \in Nat
  BY <1>1
<1>3. \A k \in 1..n : q[k] \in Nat
  OBVIOUS
<1>4. PICK a, b : a = SubSeq(w, 1, n) /\ b = SubSeq(q, 1, n)
  OBVIOUS
<1>5. /\ a \in Seq(Nat) /\ Len(a) = (IF 1 <= n THEN n - 1 + 1 ELSE 0)
      /\ \A k \in 1..n-1+1 : a[k] = w[1+k-1]
  BY <1>2, <1>4, SubSeqProperties
<1>6. /\ b \in Seq(Nat) /\ Len(b) = (IF 1 <= n THEN n - 1 + 1 ELSE 0)
      /\ \A k \in 1..n-1+1 : b[k] = q[1+k-1]
  BY <1>3, <1>4, SubSeqProperties
<1>7. Len(a) = n /\ Len(b) = n /\ \A k \in 1..n : a[k] = w[k] /\ b[k] = q[k]
  BY <1>5, <1>6
<1>8. a = b <=> \A k \in 1..n : a[k] = b[k]
  BY <1>5, <1>6, <1>7, SeqEqual
<1> QED
  BY <1>4, <1>7, <1>8

\* A stem of p is no prefix of a place that is not longer than p.
LEMMA StemLonger ==
  ASSUME NEW p \in Seq(Nat), NEW w, Stem(w, p), NEW q \in Seq(Nat), Len(q) <= Len(p)
  PROVE  ~IsPrefix(w, q)
BY PrefixFacts DEF Stem

\* What is cut with the stem w of p: what is in what is cut, and items of p.
LEMMA StemChild ==
  ASSUME NEW p \in Seq(Nat), Even(p), NEW w, Stem(w, p),
         NEW q \in Seq(Nat), Even(q), NEW s \in Nat, NEW i \in Nat
  PROVE  IsPrefix(w, Child(q, s, i)) <=>
           IsPrefix(w, q) \/ (q = p /\ IsPrefix(w, Child(p, s, i)))
<1>1. PICK c \in Seq(Nat) : c = Child(q, s, i)
  BY ChildFacts
<1>2. Len(q) \in Nat /\ Len(c) = Len(q) + 2 /\ \A k \in 1..Len(q) : c[k] = q[k]
  <2>1. Continues(c, q, s, i)
    BY <1>1, ChildFacts
  <2> QED
    BY <2>1 DEF Continues
<1>3. /\ w \in Seq(Nat) /\ Len(w) \in Nat /\ Len(p) \in Nat
      /\ Len(p) < Len(w) /\ Len(w) <= Len(p) + 2
      /\ \A k \in 1..Len(p) : w[k] = p[k]
  BY DEF Stem
<1>4. IsPrefix(w, c) <=> Len(w) <= Len(c) /\ \A k \in 1..Len(w) : w[k] = c[k]
  BY <1>3, PrefixFacts
<1>5. IsPrefix(w, q) <=> Len(w) <= Len(q) /\ \A k \in 1..Len(w) : w[k] = q[k]
  BY <1>3, PrefixFacts
<1>6. IsPrefix(w, q) => IsPrefix(w, c)
  BY <1>2, <1>3, <1>4, <1>5
<1>7. ASSUME IsPrefix(w, c), ~IsPrefix(w, q)
      PROVE  q = p
  <2>1. Len(q) < Len(w)
    <3> SUFFICES ASSUME Len(w) <= Len(q)
                 PROVE  FALSE
      BY <1>2, <1>3
    <3>1. \A k \in 1..Len(w) : w[k] = q[k]
      <4> SUFFICES ASSUME NEW k \in 1..Len(w)
                   PROVE  w[k] = q[k]
        OBVIOUS
      <4>1. w[k] = c[k] /\ k \in 1..Len(q)
        BY <1>2, <1>3, <1>4, <1>7
      <4> QED
        BY <1>2, <4>1
    <3> QED
      BY <1>5, <1>7, <3>1
  <2>2. Len(p) = Len(q)
    <3>1. PICK a \in Nat : Len(p) = Double(a)
      BY DEF Even
    <3>2. PICK b \in Nat : Len(q) = Double(b)
      BY DEF Even
    <3>3. Len(p) < Len(w) /\ Len(w) <= Len(p) + 2 /\ Len(q) < Len(w) /\ Len(w) <= Len(q) + 2
      BY <1>2, <1>3, <1>4, <1>7, <2>1
    <3>4. Len(p) = 2 * a /\ Len(q) = 2 * b
      BY <3>1, <3>2 DEF Double
    <3> QED
      BY <1>2, <1>3, <3>3, <3>4
  <2>3. \A k \in 1..Len(q) : q[k] = p[k]
    BY <1>2, <1>3, <1>4, <1>7, <2>1, <2>2, SMTT(30)
  <2> QED
    BY <2>2, <2>3, SeqEqual
<1> QED
  BY <1>1, <1>6, <1>7

-----------------------------------------------------------------------------
(* Heaps: what the last group of the path becomes.                         *)

\* h2 is h with group g at p.
Puts(h, h2, p, g) ==
  /\ DOMAIN h2 = DOMAIN h /\ p \in DOMAIN h /\ h2[p] = g
  /\ \A q \in DOMAIN h : q # p => h2[q] = h[q]

\* The kids of g are those of f that the stem w of p does not cut.
KidsCut(f, g, p, w) ==
  \A s, i \in Nat : IsKid(g, s, i) <=> IsKid(f, s, i) /\ ~IsPrefix(w, Child(p, s, i))

SameKids(f, g) == \A s, i \in Nat : IsKid(g, s, i) <=> IsKid(f, s, i)

LEMMA PutsExcept ==
  ASSUME NEW h, NEW p \in DOMAIN h, NEW g
  PROVE  Puts(h, [h EXCEPT ![p] = g], p, g)
BY DEF Puts

LEMMA WithoutFacts ==
  ASSUME NEW h, NEW w
  PROVE  /\ DOMAIN Without(h, w) = {q \in DOMAIN h : ~IsPrefix(w, q)}
         /\ \A q \in DOMAIN h : ~IsPrefix(w, q) =>
              q \in DOMAIN Without(h, w) /\ Without(h, w)[q] = h[q]
BY DEF Without

LEMMA TreeEdited ==
  ASSUME NEW h, Typed(h), Tree(h), NEW h2, NEW p, NEW g \in Groups, Puts(h, h2, p, g),
         SameKids(h[p], g)
  PROVE  Typed(h2) /\ Tree(h2)
<1>1. DOMAIN h2 = DOMAIN h /\ p \in DOMAIN h /\ h2[p] = g
  BY DEF Puts
<1>2. \A q \in DOMAIN h : h2[q] = IF q = p THEN g ELSE h[q]
  BY DEF Puts
<1>3. Typed(h2)
  BY <1>1, <1>2 DEF Typed
<1>4. \A q \in DOMAIN h, s, i \in Nat : IsKid(h2[q], s, i) <=> IsKid(h[q], s, i)
  BY <1>1, <1>2 DEF SameKids
<1>5. Tree(h2)
  BY <1>1, <1>4 DEF Tree
<1> QED
  BY <1>3, <1>5

LEMMA TreeCut ==
  ASSUME NEW h, Typed(h), Tree(h), NEW h2, NEW p \in DOMAIN h, NEW w, Stem(w, p),
         NEW g \in Groups, Puts(Without(h, w), h2, p, g), KidsCut(h[p], g, p, w)
  PROVE  Typed(h2) /\ Tree(h2)
<1>1. DOMAIN h2 = {q \in DOMAIN h : ~IsPrefix(w, q)} /\ p \in DOMAIN h2
  BY WithoutFacts DEF Puts
<1>2. \A q \in DOMAIN h2 : h2[q] = IF q = p THEN g ELSE h[q]
  BY <1>1, WithoutFacts DEF Puts
<1>3. \A q \in DOMAIN h : q \in Seq(Nat) /\ Even(q)
  BY DEF Typed, Even
<1>4. Typed(h2)
  BY <1>1, <1>2 DEF Typed
<1>5. \A q \in DOMAIN h2, s, i \in Nat :
        IsKid(h2[q], s, i) <=> IsKid(h[q], s, i) /\ ~IsPrefix(w, Child(q, s, i))
  <2> SUFFICES ASSUME NEW q \in DOMAIN h2, NEW s \in Nat, NEW i \in Nat
               PROVE  IsKid(h2[q], s, i) <=> IsKid(h[q], s, i) /\ ~IsPrefix(w, Child(q, s, i))
    OBVIOUS
  <2>1. CASE q = p
    BY <1>2, <2>1 DEF KidsCut
  <2>2. CASE q # p
    <3>1. IsPrefix(w, Child(q, s, i)) <=>
            IsPrefix(w, q) \/ (q = p /\ IsPrefix(w, Child(p, s, i)))
      BY <1>1, <1>3, StemChild
    <3> QED
      BY <1>1, <1>2, <2>2, <3>1
  <2> QED
    BY <2>1, <2>2
<1>6. <<>> \in DOMAIN h2
  <2>1. <<>> \in DOMAIN h /\ <<>> \in Seq(Nat) /\ Len(<<>>) = 0
    BY EmptySeq DEF Tree
  <2>2. p \in Seq(Nat) /\ Len(p) \in Nat
    BY <1>3
  <2>3. ~IsPrefix(w, <<>>)
    <3>0. PICK e : e = <<>>
      OBVIOUS
    <3>1. e \in Seq(Nat) /\ Len(e) <= Len(p)
      BY <2>1, <2>2, <3>0
    <3>2. ~IsPrefix(w, e)
      BY <2>2, <3>1, StemLonger
    <3> QED
      BY <3>0, <3>2
  <2> QED
    BY <1>1, <2>1, <2>3
<1>7. \A q \in DOMAIN h2, s, i \in Nat : IsKid(h2[q], s, i) => Child(q, s, i) \in DOMAIN h2
  BY <1>1, <1>5 DEF Tree
<1>8. ASSUME NEW q \in DOMAIN h2, q # <<>>
      PROVE  \E r \in DOMAIN h2, s, i \in Nat : IsKid(h2[r], s, i) /\ q = Child(r, s, i)
  <2>1. PICK r \in DOMAIN h, s \in Nat, i \in Nat : IsKid(h[r], s, i) /\ q = Child(r, s, i)
    BY <1>1, <1>8 DEF Tree
  <2>2. ~IsPrefix(w, r)
    BY <1>1, <1>3, <2>1, StemChild
  <2>3. r \in DOMAIN h2
    BY <1>1, <2>1, <2>2
  <2> QED
    BY <1>1, <1>5, <2>1, <2>3
<1>9. Tree(h2)
  BY <1>6, <1>7, <1>8 DEF Tree
<1> QED
  BY <1>4, <1>9

\* h2 is h with a group without items more, item j of segment u of p.
Grows(h, h2, p, u, j) ==
  /\ DOMAIN h2 = DOMAIN h \union {Child(p, u, j)} /\ Child(p, u, j) \notin DOMAIN h
  /\ h2[p] \in Groups /\ h2[Child(p, u, j)] \in Groups
  /\ \A q \in DOMAIN h : q # p => h2[q] = h[q]
  /\ \A s, i \in Nat : IsKid(h2[p], s, i) <=> IsKid(h[p], s, i) \/ (s = u /\ i = j)
  /\ \A s, i \in Nat : ~IsKid(h2[Child(p, u, j)], s, i)

LEMMA TreeGrown ==
  ASSUME NEW h, Typed(h), Tree(h), NEW h2, NEW p \in DOMAIN h, NEW u \in Nat, NEW j \in Nat,
         Grows(h, h2, p, u, j)
  PROVE  Typed(h2) /\ Tree(h2)
<1> USE DEF Grows
<1>1. PICK c : c = Child(p, u, j)
  OBVIOUS
<1>2. \A q \in DOMAIN h : q \in Seq(Nat) /\ Even(q)
  BY DEF Typed, Even
<1>3. c \in Seq(Nat) /\ Len(c) = Len(p) + 2 /\ Len(p) \in Nat
  BY <1>1, <1>2, ChildFacts DEF Continues
<1>4. \E k \in Nat : Len(c) = Double(k)
  <2>1. PICK k \in Nat : Len(p) = Double(k)
    BY <1>2 DEF Even
  <2>2. Len(c) = Double(k + 1)
    BY <1>3, <2>1 DEF Double
  <2> QED
    BY <2>2
<1>5. Typed(h2)
  BY <1>1, <1>3, <1>4 DEF Typed
<1>6. \A q \in DOMAIN h2, s, i \in Nat : IsKid(h2[q], s, i) => Child(q, s, i) \in DOMAIN h2
  <2> SUFFICES ASSUME NEW q \in DOMAIN h2, NEW s \in Nat, NEW i \in Nat, IsKid(h2[q], s, i)
               PROVE  Child(q, s, i) \in DOMAIN h2
    OBVIOUS
  <2>1. CASE q = p
    BY <2>1 DEF Tree
  <2>2. CASE q # p
    BY <2>2 DEF Tree
  <2> QED
    BY <2>1, <2>2
<1>7. ASSUME NEW q \in DOMAIN h2, q # <<>>
      PROVE  \E r \in DOMAIN h2, s, i \in Nat : IsKid(h2[r], s, i) /\ q = Child(r, s, i)
  <2>1. CASE q = Child(p, u, j)
    BY <2>1
  <2>2. CASE q # Child(p, u, j)
    <3>1. PICK r \in DOMAIN h, s \in Nat, i \in Nat : IsKid(h[r], s, i) /\ q = Child(r, s, i)
      BY <1>7, <2>2 DEF Tree
    <3>2. IsKid(h2[r], s, i)
      BY <3>1
    <3> QED
      BY <3>1, <3>2
  <2> QED
    BY <2>1, <2>2
<1>8. Tree(h2)
  <2>1. <<>> \in DOMAIN h2
    BY DEF Tree
  <2> QED
    BY <1>6, <1>7, <2>1 DEF Tree
<1> QED
  BY <1>5, <1>8

-----------------------------------------------------------------------------
(* The path and the roles of the groups.                                   *)

LEMMA PathFacts ==
  ASSUME NEW h, Typed(h), NEW path, Chained(h, path)
  PROVE  /\ Len(path) \in Nat /\ Len(path) >= 1
         /\ \A i \in 1..Len(path) : path[i] \in DOMAIN h /\ path[i] \in Seq(Nat)
         /\ \A i \in 1..Len(path) - 1 : path[i] # path[Len(path)]
                                        /\ Len(path[i]) < Len(path[Len(path)])
         /\ OnPath(path, path[Len(path)])
<1>1. Len(path) \in Nat /\ Len(path) >= 1 /\ \A i \in 1..Len(path) : path[i] \in DOMAIN h
  BY DEF Chained
<1>2. \A i \in 1..Len(path) : path[i] \in Seq(Nat)
  BY <1>1 DEF Typed
<1>3. ASSUME NEW i \in 1..Len(path) - 1
      PROVE  path[i] # path[Len(path)] /\ Len(path[i]) < Len(path[Len(path)])
  <2>1. Len(path[i]) = 2 * (i - 1) /\ Len(path[Len(path)]) = 2 * (Len(path) - 1)
    BY <1>1 DEF Chained, Double
  <2> QED
    BY <1>1, <2>1
<1>4. OnPath(path, path[Len(path)])
  BY <1>1 DEF OnPath
<1> QED
  BY <1>1, <1>2, <1>3, <1>4

Weaker(ex2, ex) == ex2 => ex

LEMMA WeakerSame ==
  ASSUME NEW ex
  PROVE  Weaker(ex, ex)
BY DEF Weaker

LEMMA WellWeaker ==
  ASSUME NEW g, NEW role, NEW ex, NEW ex2, Weaker(ex2, ex), Well(g, role, ex)
  PROVE  Well(g, role, ex2)
BY DEF Well, Weaker

\* Only the last group of the path changes, perhaps others go.
LEMMA WholeStep ==
  ASSUME NEW h, NEW path, NEW role, NEW ex, Whole(h, path, role, ex),
         NEW h2, Typed(h2), Tree(h2), DOMAIN h2 \subseteq DOMAIN h,
         \A q \in DOMAIN h2 : q # path[Len(path)] => h2[q] = h[q],
         \A i \in 1..Len(path) : path[i] \in DOMAIN h2,
         NEW role2, NEW ex2, Weaker(ex2, ex), Well(h2[path[Len(path)]], role2, ex2)
  PROVE  Whole(h2, path, role2, ex2) /\ (NoneDead(h, path) => NoneDead(h2, path))
<1>1. Typed(h) /\ Chained(h, path) /\ \A q \in DOMAIN h : Well(h[q], Role(path, role, q), ex)
  BY DEF Whole
<1>2. /\ Len(path) \in Nat /\ Len(path) >= 1
      /\ \A i \in 1..Len(path) - 1 : path[i] # path[Len(path)]
      /\ OnPath(path, path[Len(path)])
  BY <1>1, PathFacts
<1>3. Chained(h2, path)
  <2>1. path \in Seq(DOMAIN h2)
    <3>1. path \in Seq(DOMAIN h) /\ \A i \in 1..Len(path) : path[i] \in DOMAIN h2
      BY <1>1 DEF Chained
    <3> QED
      BY <3>1
  <2>2. \A i \in 1..Len(path) - 1 : h2[path[i]] = h[path[i]]
    BY <1>2
  <2> QED
    BY <1>1, <2>1, <2>2 DEF Chained, HasItems, ItemPlace, Segment
<1>4. ASSUME NEW q \in DOMAIN h2
      PROVE  Well(h2[q], Role(path, role2, q), ex2)
  <2>1. CASE q = path[Len(path)]
    BY <2>1 DEF Role
  <2>2. CASE q # path[Len(path)]
    <3>1. Well(h[q], Role(path, role, q), ex)
      BY <1>1
    <3>2. Role(path, role2, q) = Role(path, role, q) /\ h2[q] = h[q]
      BY <2>2 DEF Role
    <3> QED
      BY <3>1, <3>2, WellWeaker
  <2> QED
    BY <2>1, <2>2
<1>5. NoneDead(h, path) => NoneDead(h2, path)
  BY <1>2 DEF NoneDead, Dead
<1> QED
  BY <1>3, <1>4, <1>5 DEF Whole

LEMMA WholeEdited ==
  ASSUME NEW h, NEW path, NEW role, NEW ex, Whole(h, path, role, ex),
         NEW h2, NEW g \in Groups, Puts(h, h2, path[Len(path)], g),
         SameKids(h[path[Len(path)]], g),
         NEW role2, NEW ex2, Weaker(ex2, ex), Well(g, role2, ex2)
  PROVE  Whole(h2, path, role2, ex2) /\ (NoneDead(h, path) => NoneDead(h2, path))
<1>1. Typed(h) /\ Tree(h) /\ Chained(h, path)
  BY DEF Whole
<1>2. Typed(h2) /\ Tree(h2)
  BY <1>1, TreeEdited
<1>3. DOMAIN h2 = DOMAIN h /\ h2[path[Len(path)]] = g
  BY DEF Puts
<1>4. \A q \in DOMAIN h2 : q # path[Len(path)] => h2[q] = h[q]
  BY DEF Puts
<1>5. \A i \in 1..Len(path) : path[i] \in DOMAIN h2
  BY <1>1, <1>3, PathFacts
<1>6. DOMAIN h2 \subseteq DOMAIN h /\ Well(h2[path[Len(path)]], role2, ex2)
  BY <1>3
<1> QED
  BY <1>2, <1>4, <1>5, <1>6, WholeStep

LEMMA WholeCut ==
  ASSUME NEW h, NEW path, NEW role, NEW ex, Whole(h, path, role, ex),
         NEW w, Stem(w, path[Len(path)]), NEW h2, NEW g \in Groups,
         Puts(Without(h, w), h2, path[Len(path)], g),
         KidsCut(h[path[Len(path)]], g, path[Len(path)], w),
         NEW role2, NEW ex2, Weaker(ex2, ex), Well(g, role2, ex2)
  PROVE  Whole(h2, path, role2, ex2) /\ (NoneDead(h, path) => NoneDead(h2, path))
<1>1. Typed(h) /\ Tree(h) /\ Chained(h, path)
  BY DEF Whole
<1>2. PICK p : p = path[Len(path)]
  OBVIOUS
<1>3. p \in DOMAIN h /\ p \in Seq(Nat) /\ Len(path) \in Nat /\ Len(path) >= 1
  BY <1>1, <1>2, PathFacts
<1>4. Typed(h2) /\ Tree(h2)
  BY <1>1, <1>2, <1>3, TreeCut
<1>5. DOMAIN h2 = {q \in DOMAIN h : ~IsPrefix(w, q)} /\ h2[p] = g
  BY <1>2, WithoutFacts DEF Puts
<1>6. \A q \in DOMAIN h2 : q # p => h2[q] = h[q]
  BY <1>2, <1>5, WithoutFacts DEF Puts
<1>7. \A i \in 1..Len(path) : path[i] \in DOMAIN h2
  <2> SUFFICES ASSUME NEW i \in 1..Len(path)
               PROVE  path[i] \in DOMAIN h2
    OBVIOUS
  <2>1. path[i] \in DOMAIN h /\ path[i] \in Seq(Nat) /\ Len(path[i]) <= Len(p)
    <3>1. i = Len(path) \/ i \in 1..Len(path) - 1
      BY <1>3
    <3>2. Len(path[i]) \in Nat /\ Len(p) \in Nat
      BY <1>1, <1>3, PathFacts
    <3> QED
      BY <1>1, <1>2, <3>1, <3>2, PathFacts
  <2>2. ~IsPrefix(w, path[i])
    BY <1>2, <1>3, <2>1, StemLonger
  <2> QED
    BY <1>5, <2>1, <2>2
<1>8. DOMAIN h2 \subseteq DOMAIN h
  BY <1>5
<1>9. Well(h2[path[Len(path)]], role2, ex2)
  BY <1>2, <1>5
<1> QED
  BY <1>2, <1>4, <1>6, <1>7, <1>8, <1>9, WholeStep

LEMMA NewGroupFacts ==
  /\ NewSegment \in Segments /\ NewGroup \in Groups
  /\ Len(NewGroup.segments) = 1 /\ NewGroup.segments # <<>>
  /\ NewGroup.segments[1] = NewSegment /\ Last(NewGroup.segments) = NewSegment
  /\ NewSegment.items = <<>> /\ Len(NewSegment.items) = 0 /\ NewSegment.multiplier = 1
  /\ NewGroup.sum = 1
<1>1. 1 \in Numbers
  BY WordAssumption DEF Numbers
<1>2. <<>> \in Seq(Items) /\ Len(<<>>) = 0
  BY EmptySeq
<1>3. /\ NewSegment \in Segments /\ NewSegment.items = <<>> /\ NewSegment.multiplier = 1
      /\ Len(NewSegment.items) = 0
  BY <1>1, <1>2 DEF NewSegment, Segments
<1>4. PICK x \in Segments : x = NewSegment
  BY <1>3
<1>5. /\ <<x>> \in Seq(Segments) /\ Len(<<x>>) = 1 /\ <<x>>[1] = x
      /\ <<x>> # <<>> /\ Last(<<x>>) = x
  BY DEF Last
<1>6. /\ NewGroup \in Groups /\ NewGroup.segments = <<x>> /\ NewGroup.sum = 1
  BY <1>1, <1>4, <1>5 DEF NewGroup, Groups
<1> QED
  BY <1>3, <1>4, <1>5, <1>6

LEMMA NewGroupWell ==
  ASSUME NEW ex
  PROVE  Well(NewGroup, "GROUP", ex) /\ \A s, i \in Nat : ~IsKid(NewGroup, s, i)
<1>1. Behind(NewGroup)
  BY NewGroupFacts DEF Behind
<1>2. Ahead(NewGroup, "GROUP")
  <2>1. ItemsFit(<<>>, "GROUP")
    BY EmptySeq DEF ItemsFit, AllSound
  <2> QED
    BY <2>1, NewGroupFacts DEF Ahead, Shut
<1>3. Counted(NewGroup, "GROUP")
  <2>1. PICK M : M = Multipliers(NewGroup)
    OBVIOUS
  <2>2. M[1] = 1
    BY <2>1, NewGroupFacts DEF Multipliers
  <2>3. 0 \in Numbers /\ 1 \in Numbers /\ (0 + 1) % Word = 1
    BY WordAssumption DEF Numbers
  <2>4. PICK T : T = [i \in 0..1 |-> i]
    OBVIOUS
  <2>5. T \in [0..1 -> Numbers] /\ T[0] = 0 /\ T[1] = 1
    BY <2>3, <2>4
  <2>6. \A i \in 1..1 : T[i] = (T[i-1] + M[i]) % Word
    BY <2>2, <2>3, <2>5
  <2>7. AddUp(M, 1, 1)
    BY <2>5, <2>6 DEF AddUp
  <2> QED
    BY <2>1, <2>7, NewGroupFacts DEF Counted
<1>4. \A s, i \in Nat : ~IsKid(NewGroup, s, i)
  BY NewGroupFacts DEF IsKid
<1> QED
  BY <1>1, <1>2, <1>3, <1>4 DEF Well

\* h2 is h with the group g at p, whose last item is the new group c, item j of segment u.
Opens(h, h2, p, g, c, u, j) ==
  /\ h2[p] = g /\ g.segments # <<>> /\ Last(g.segments).items # <<>>
  /\ u = Len(g.segments) /\ j = Len(Last(g.segments).items)
  /\ c = Child(p, u, j) /\ c \notin DOMAIN h
  /\ DOMAIN h2 = DOMAIN h \union {c} /\ h2[c] = NewGroup
  /\ \A q \in DOMAIN h : q # p => h2[q] = h[q]
  /\ \A s, i \in Nat : IsKid(g, s, i) <=> IsKid(h[p], s, i) \/ (s = u /\ i = j)

\* A group is opened.
LEMMA WholeGrown ==
  ASSUME NEW h, NEW path, NEW ex, Whole(h, path, "GROUP", ex),
         NEW h2, NEW g \in Groups, NEW c, NEW u \in Nat, NEW j \in Nat,
         Well(g, "GROUP", ex), Opens(h, h2, path[Len(path)], g, c, u, j)
  PROVE  /\ Whole(h2, Append(path, c), "GROUP", ex)
         /\ NoneDead(h, path) => NoneDead(h2, Append(path, c))
<1> USE DEF Opens
<1>1. /\ Typed(h) /\ Tree(h) /\ Chained(h, path)
      /\ \A q \in DOMAIN h : Well(h[q], Role(path, "GROUP", q), ex)
  BY DEF Whole
<1>2. PICK p : p = path[Len(path)]
  OBVIOUS
<1>3. /\ Len(path) \in Nat /\ Len(path) >= 1
      /\ \A i \in 1..Len(path) : path[i] \in DOMAIN h
      /\ \A i \in 1..Len(path) - 1 : path[i] # p
      /\ p \in DOMAIN h /\ p \in Seq(Nat) /\ OnPath(path, p)
  BY <1>1, <1>2, PathFacts
<1>4. Typed(h2) /\ Tree(h2)
  <2>1. DOMAIN h2 = DOMAIN h \union {Child(p, u, j)} /\ Child(p, u, j) \notin DOMAIN h
    BY <1>2
  <2>2. h2[p] \in Groups /\ h2[Child(p, u, j)] \in Groups
    BY <1>2, NewGroupFacts
  <2>3. \A s, i \in Nat : IsKid(h2[p], s, i) <=> IsKid(h[p], s, i) \/ (s = u /\ i = j)
    BY <1>2
  <2>4. \A s, i \in Nat : ~IsKid(h2[Child(p, u, j)], s, i)
    BY <1>2, NewGroupWell
  <2>5. \A q \in DOMAIN h : q # p => h2[q] = h[q]
    BY <1>2
  <2> QED
    <3>1. Grows(h, h2, p, u, j)
      BY <2>1, <2>2, <2>3, <2>4, <2>5 DEF Grows
    <3> QED
      BY <1>1, <1>3, <3>1, TreeGrown
<1>5. PICK new, n : new = Append(path, c) /\ n = Len(path)
  OBVIOUS
<1>6. /\ new \in Seq(DOMAIN h2) /\ Len(new) = n + 1 /\ n \in Nat /\ n >= 1
      /\ new[n + 1] = c /\ \A i \in 1..n : new[i] = path[i]
  <2>1. path \in Seq(DOMAIN h2) /\ c \in DOMAIN h2
    BY <1>1, <1>3 DEF Chained
  <2> QED
    BY <1>3, <1>5, <2>1, AppendProperties
<1>7. Chained(h2, new)
  <2>1. \A i \in 1..n : Len(path[i]) = Double(i - 1)
    BY <1>1, <1>5 DEF Chained
  <2>2. Len(c) = Len(p) + 2
    <3>1. Continues(c, p, u, j)
      BY <1>2, <1>3, ChildFacts
    <3> QED
      BY <3>1 DEF Continues
  <2>3. Len(c) = Double(n)
    <3>1. Len(p) = Double(n - 1)
      BY <1>2, <1>3, <1>5, <2>1
    <3> QED
      BY <1>6, <2>2, <3>1 DEF Double
  <2>4. \A i \in 1..n+1 : Len(new[i]) = Double(i - 1)
    <3> SUFFICES ASSUME NEW i \in 1..n+1
                 PROVE  Len(new[i]) = Double(i - 1)
      OBVIOUS
    <3>1. CASE i = n + 1
      BY <1>6, <2>3, <3>1
    <3>2. CASE i \in 1..n
      BY <1>6, <2>1, <3>2
    <3> QED
      BY <1>6, <3>1, <3>2
  <2>5. ASSUME NEW i \in 1..n
        PROVE  /\ h2[new[i]].segments # <<>>
               /\ HasItems(h2, new[i])
               /\ new[i+1] = ItemPlace(h2, new[i])
    <3>1. CASE i = n
      <4>1. new[i] = p /\ h2[p] = g /\ new[i+1] = c
        BY <1>2, <1>5, <1>6, <3>1
      <4>2. ItemPlace(h2, p) = c
        BY <1>2, <4>1 DEF ItemPlace, Segment, Child
      <4> QED
        BY <4>1, <4>2 DEF HasItems, Segment
    <3>2. CASE i \in 1..n-1
      <4>1. new[i] = path[i] /\ new[i+1] = path[i+1]
        BY <1>6, <3>2
      <4>2. h2[path[i]] = h[path[i]]
        BY <1>2, <1>3, <1>5, <3>2
      <4>3. /\ h[path[i]].segments # <<>>
            /\ HasItems(h, path[i])
            /\ path[i+1] = ItemPlace(h, path[i])
        BY <1>1, <1>5, <3>2 DEF Chained
      <4> QED
        BY <4>1, <4>2, <4>3 DEF HasItems, ItemPlace, Segment
    <3> QED
      BY <1>6, <3>1, <3>2
  <2>6. new[1] = <<>>
    BY <1>1, <1>6 DEF Chained
  <2> QED
    BY <1>6, <2>4, <2>5, <2>6 DEF Chained
<1>8. \A q : OnPath(new, q) <=> OnPath(path, q) \/ q = c
  BY <1>5, <1>6 DEF OnPath
<1>9. \A q \in DOMAIN h : q # p => Role(new, "GROUP", q) = Role(path, "GROUP", q)
  BY <1>2, <1>6, <1>8 DEF Role
<1>10. ASSUME NEW q \in DOMAIN h2
       PROVE  Well(h2[q], Role(new, "GROUP", q), ex)
  <2>1. CASE q = c
    BY <1>6, <2>1, NewGroupWell DEF Role
  <2>2. CASE q = p
    <3>1. Role(new, "GROUP", q) = "GROUP"
      BY <1>3, <1>8, <2>2 DEF Role
    <3> QED
      BY <1>2, <2>2, <3>1
  <2>3. CASE q \in DOMAIN h /\ q # p
    BY <1>1, <1>2, <1>9, <2>3
  <2> QED
    BY <2>1, <2>2, <2>3
<1>11. NoneDead(h, path) => NoneDead(h2, new)
  BY <1>2, <1>3, <1>8 DEF NoneDead, Dead
<1> QED
  BY <1>4, <1>5, <1>7, <1>10, <1>11 DEF Whole

\* passgen_pattern_group_finish, of a group without a segment of multiplier zero.
LEMMA FinishedWell ==
  ASSUME NEW g \in Groups, NEW ex, Well(g, "CLOSING", ex)
  PROVE  Well(Finished(g), "CLOSED", ex) /\ Finished(g) \in Groups /\ SameKids(g, Finished(g))
<1>1. CASE Finished(g) = g
  <2>1. Behind(g) /\ (ex => Counted(g, "CLOSING")) /\ Ahead(g, "CLOSING")
    BY DEF Well
  <2>2. Ahead(g, "CLOSED")
    BY <2>1 DEF Ahead, ItemsFit, Shut
  <2>3. ex => Counted(g, "CLOSED")
    BY <2>1 DEF Counted
  <2> QED
    BY <1>1, <2>1, <2>2, <2>3 DEF Well, SameKids
<1>2. CASE Finished(g) # g
  <2>1. PICK f : f = [g EXCEPT !.sum = 0]
    OBVIOUS
  <2>2. Finished(g) = f
    BY <1>2, <2>1 DEF Finished
  <2>3. 0 \in Numbers
    BY WordAssumption DEF Numbers
  <2>4. f \in Groups /\ f.segments = g.segments /\ f.sum = 0
    BY <2>1, <2>3 DEF Groups
  <2>5. Behind(f)
    BY <2>4 DEF Behind, Well
  <2>6. Ahead(f, "CLOSED")
    <3>1. Ahead(g, "CLOSING")
      BY DEF Well
    <3> QED
      BY <2>4, <3>1 DEF Ahead, ItemsFit, Shut
  <2>7. Counted(f, "CLOSED")
    BY <2>4 DEF Counted
  <2>8. SameKids(g, f)
    BY <2>4 DEF SameKids, IsKid
  <2> QED
    BY <2>2, <2>4, <2>5, <2>6, <2>7, <2>8 DEF Well
<1> QED
  BY <1>1, <1>2

LEMMA WholeClosed ==
  ASSUME NEW h, NEW path, NEW ex, Whole(h, path, "CLOSING", ex), Len(path) > 1,
         NoneDead(h, path), NEW h2,
         Puts(h, h2, path[Len(path)], Finished(h[path[Len(path)]]))
  PROVE  Whole(h2, Front(path), "GROUP", ex) /\ LastDead(h2, Front(path))
<1>1. /\ Typed(h) /\ Tree(h) /\ Chained(h, path)
      /\ \A q \in DOMAIN h : Well(h[q], Role(path, "CLOSING", q), ex)
  BY DEF Whole
<1>2. PICK p, n : p = path[Len(path)] /\ n = Len(path)
  OBVIOUS
<1>3. /\ n \in Nat /\ n > 1
      /\ \A i \in 1..n : path[i] \in DOMAIN h
      /\ \A i \in 1..n - 1 : path[i] # p
      /\ p \in DOMAIN h /\ p \in Seq(Nat) /\ OnPath(path, p)
  BY <1>1, <1>2, PathFacts
<1>4. PICK g : g = Finished(h[p])
  OBVIOUS
<1>5. h[p] \in Groups /\ Well(h[p], "CLOSING", ex)
  BY <1>1, <1>2, <1>3 DEF Typed, Role
<1>6. Well(g, "CLOSED", ex) /\ g \in Groups /\ SameKids(h[p], g)
  BY <1>4, <1>5, FinishedWell
<1>7. Puts(h, h2, p, g)
  BY <1>2, <1>4
<1>8. Typed(h2) /\ Tree(h2)
  BY <1>1, <1>6, <1>7, TreeEdited
<1>9. DOMAIN h2 = DOMAIN h /\ h2[p] = g /\ \A q \in DOMAIN h : q # p => h2[q] = h[q]
  BY <1>7 DEF Puts
<1>10. PICK new : new = Front(path)
  OBVIOUS
<1>11. new \in Seq(DOMAIN h) /\ Len(new) = n - 1 /\ \A i \in 1..n-1 : new[i] = path[i]
  <2>1. path \in Seq(DOMAIN h) /\ path # <<>>
    BY <1>1, <1>2, <1>3, EmptySeq DEF Chained
  <2> QED
    BY <1>2, <1>10, <2>1, LastFacts
<1>12. \A i \in 1..n-1 : h2[path[i]] = h[path[i]]
  BY <1>3, <1>9
<1>13. Chained(h2, new)
  <2>1. new[1] = <<>> /\ Len(new) >= 1
    BY <1>1, <1>3, <1>11 DEF Chained
  <2>2. \A i \in 1..n-1 : Len(new[i]) = Double(i - 1)
    <3>1. \A i \in 1..n : Len(path[i]) = Double(i - 1)
      BY <1>1, <1>2 DEF Chained
    <3> SUFFICES ASSUME NEW i \in 1..n-1
                 PROVE  Len(new[i]) = Double(i - 1)
      OBVIOUS
    <3>2. new[i] = path[i] /\ i \in 1..n
      BY <1>3, <1>11
    <3> QED
      BY <3>1, <3>2
  <2>3. ASSUME NEW i \in 1..(n-1)-1
        PROVE  /\ h2[new[i]].segments # <<>>
               /\ HasItems(h2, new[i])
               /\ new[i+1] = ItemPlace(h2, new[i])
    <3>1. new[i] = path[i] /\ new[i+1] = path[i+1] /\ h2[path[i]] = h[path[i]]
      BY <1>3, <1>11, <1>12
    <3>2. /\ h[path[i]].segments # <<>>
          /\ HasItems(h, path[i])
          /\ path[i+1] = ItemPlace(h, path[i])
      BY <1>1, <1>2, <1>3 DEF Chained
    <3> QED
      BY <3>1, <3>2 DEF HasItems, ItemPlace, Segment
  <2> QED
    BY <1>9, <1>11, <2>1, <2>2, <2>3 DEF Chained
<1>14. \A q : OnPath(new, q) <=> \E i \in 1..n-1 : path[i] = q
  BY <1>11 DEF OnPath
<1>15. \A q : OnPath(path, q) <=> OnPath(new, q) \/ q = p
  <2>1. \A i \in 1..n : i \in 1..n-1 \/ i = n
    BY <1>3
  <2>2. \A q : OnPath(path, q) <=> \E i \in 1..n : path[i] = q
    BY <1>2 DEF OnPath
  <2>3. n \in 1..n /\ \A i \in 1..n-1 : i \in 1..n
    BY <1>3
  <2> QED
    BY <1>2, <1>14, <2>1, <2>2, <2>3
<1>16. ~OnPath(new, p)
  BY <1>3, <1>14
<1>17. \A q : Role(new, "GROUP", q) = IF OnPath(new, q) THEN "GROUP" ELSE "CLOSED"
  <2>1. OnPath(new, new[Len(new)])
    BY <1>3, <1>11 DEF OnPath
  <2> QED
    BY <2>1 DEF Role
<1>18. ASSUME NEW q \in DOMAIN h2
       PROVE  Well(h2[q], Role(new, "GROUP", q), ex)
  <2>1. CASE q = p
    BY <1>6, <1>9, <1>16, <1>17, <2>1
  <2>2. CASE q # p
    <3>1. Role(path, "CLOSING", q) = Role(new, "GROUP", q)
      BY <1>2, <1>15, <1>17, <2>2 DEF Role
    <3> QED
      BY <1>1, <1>9, <2>2, <3>1
  <2> QED
    BY <2>1, <2>2
<1>19. LastDead(h2, new)
  <2> SUFFICES ASSUME NEW q, Dead(h2, new, q)
               PROVE  HasItems(h2, new[Len(new)]) /\ q = ItemPlace(h2, new[Len(new)])
    BY DEF LastDead
  <2>1. q = p
    BY <1>9, <1>15 DEF NoneDead, Dead
  <2>2. PICK m \in 1..n-1 : m = n - 1
    BY <1>3
  <2>3. m \in 1..Len(path) - 1 /\ m + 1 = n /\ new[Len(new)] = path[m] /\ h2[path[m]] = h[path[m]]
    BY <1>2, <1>3, <1>11, <1>12, <2>2
  <2>4. HasItems(h, path[m]) /\ path[n] = ItemPlace(h, path[m])
    BY <1>1, <2>3 DEF Chained
  <2> QED
    BY <1>2, <2>1, <2>3, <2>4 DEF HasItems, ItemPlace, Segment
<1> QED
  BY <1>8, <1>10, <1>13, <1>18, <1>19 DEF Whole

-----------------------------------------------------------------------------
(* Items: what the current segment becomes.                                *)

GroupAt(items, i) == i \in 1..Len(items) /\ items[i].kind = "GROUP"

SameGroups(a, b) == \A i \in Nat : GroupAt(a, i) <=> GroupAt(b, i)

Resegment(g, segment) == [segments |-> WithLast(g.segments, segment), sum |-> g.sum]

WithItems(g, items) ==
  Resegment(g, [items |-> items, multiplier |-> Last(g.segments).multiplier])

LEMMA ResegmentFacts ==
  ASSUME NEW g \in Groups, g.segments # <<>>, NEW segment \in Segments
  PROVE  /\ Resegment(g, segment) \in Groups
         /\ Resegment(g, segment).segments # <<>>
         /\ Resegment(g, segment).segments = WithLast(g.segments, segment)
         /\ Len(Resegment(g, segment).segments) = Len(g.segments)
         /\ Len(g.segments) \in Nat /\ Len(g.segments) >= 1
         /\ Last(Resegment(g, segment).segments) = segment
         /\ Resegment(g, segment).segments[Len(g.segments)] = segment
         /\ Resegment(g, segment).sum = g.sum
         /\ \A s \in 1..Len(g.segments) - 1 :
              Resegment(g, segment).segments[s] = g.segments[s]
<1>1. PICK f, r : f = WithLast(g.segments, segment) /\ r = Resegment(g, segment)
  OBVIOUS
<1>2. g.segments \in Seq(Segments) /\ g.sum \in Numbers
  BY DEF Groups
<1>3. /\ f \in Seq(Segments) /\ f # <<>> /\ Len(f) = Len(g.segments)
      /\ Len(g.segments) \in Nat /\ Len(g.segments) >= 1
      /\ Last(f) = segment /\ f[Len(g.segments)] = segment
      /\ \A s \in 1..Len(g.segments) - 1 : f[s] = g.segments[s]
  <2>1. PICK q \in Seq(Segments) : q = g.segments /\ q # <<>>
    BY <1>2
  <2>2. f = WithLast(q, segment)
    BY <1>1, <2>1
  <2>3. /\ f \in Seq(Segments) /\ f # <<>>
        /\ Len(f) = Len(q) /\ Len(q) \in Nat /\ Len(q) >= 1
    BY <2>1, <2>2, WithLastFacts
  <2>4. Last(f) = segment /\ f[Len(q)] = segment
    BY <2>1, <2>2, WithLastFacts, ZenonT(30)
  <2>5. \A s \in 1..Len(q) - 1 : f[s] = q[s]
    <3>1. PICK n : n = Len(q)
      OBVIOUS
    <3>2. f = [q EXCEPT ![n] = segment] /\ n \in 1..Len(q) /\ n \in Nat
      BY <2>2, <2>3, <3>1 DEF WithLast
    <3>3. \A s \in 1..Len(q) : f[s] = IF s = n THEN segment ELSE q[s]
      BY <3>2, ExceptSeq
    <3> QED
      BY <3>1, <3>2, <3>3
  <2> QED
    BY <2>1, <2>3, <2>4, <2>5
<1>4. r = [segments |-> f, sum |-> g.sum]
  BY <1>1 DEF Resegment
<1>5. r \in Groups /\ r.segments = f /\ r.sum = g.sum
  BY <1>2, <1>3, <1>4 DEF Groups
<1> QED
  BY <1>1, <1>3, <1>5

LEMMA ResegmentBehind ==
  ASSUME NEW g \in Groups, g.segments # <<>>, NEW segment \in Segments, Behind(g)
  PROVE  Behind(Resegment(g, segment))
BY ResegmentFacts DEF Behind

LEMMA ResegmentAhead ==
  ASSUME NEW g \in Groups, g.segments # <<>>, NEW segment \in Segments, NEW role,
         ItemsFit(segment.items, role), role \in Shut => segment.multiplier # 0
  PROVE  Ahead(Resegment(g, segment), role)
BY ResegmentFacts DEF Ahead

LEMMA ResegmentMultipliers ==
  ASSUME NEW g \in Groups, g.segments # <<>>, NEW segment \in Segments,
         segment.multiplier = Last(g.segments).multiplier
  PROVE  Multipliers(Resegment(g, segment)) = Multipliers(g)
<1>1. PICK r, n : r = Resegment(g, segment) /\ n = Len(g.segments)
  OBVIOUS
<1>2. /\ Len(r.segments) = n /\ n \in Nat /\ n >= 1
      /\ r.segments[n] = segment
      /\ \A s \in 1..n - 1 : r.segments[s] = g.segments[s]
  BY <1>1, ResegmentFacts
<1>3. \A s \in 1..n : r.segments[s].multiplier = g.segments[s].multiplier
  <2>1. \A s \in 1..n : s = n \/ s \in 1..n - 1
    BY <1>2
  <2>2. r.segments[n].multiplier = g.segments[n].multiplier
    BY <1>1, <1>2 DEF Last
  <2> QED
    BY <1>2, <2>1, <2>2
<1> QED
  BY <1>1, <1>2, <1>3 DEF Multipliers

LEMMA ResegmentKids ==
  ASSUME NEW g \in Groups, g.segments # <<>>, NEW segment \in Segments,
         NEW s \in Nat, NEW i \in Nat
  PROVE  IsKid(Resegment(g, segment), s, i) <=>
           IF s = Len(g.segments) THEN GroupAt(segment.items, i) ELSE IsKid(g, s, i)
<1>1. PICK r, n : r = Resegment(g, segment) /\ n = Len(g.segments)
  OBVIOUS
<1>2. /\ Len(r.segments) = n /\ n \in Nat /\ n >= 1
      /\ r.segments[n] = segment
      /\ \A t \in 1..n - 1 : r.segments[t] = g.segments[t]
  BY <1>1, ResegmentFacts
<1>3. CASE s = n
  BY <1>1, <1>2, <1>3 DEF IsKid, GroupAt
<1>4. CASE s # n /\ s \in 1..n
  <2>1. r.segments[s] = g.segments[s]
    BY <1>2, <1>4
  <2> QED
    BY <1>1, <1>2, <1>4, <2>1 DEF IsKid
<1>5. CASE s \notin 1..n
  BY <1>1, <1>2, <1>5 DEF IsKid
<1> QED
  BY <1>3, <1>4, <1>5

\* Whether an item of the current segment is a group.
LEMMA LastKids ==
  ASSUME NEW g \in Groups, g.segments # <<>>, NEW i \in Nat
  PROVE  IsKid(g, Len(g.segments), i) <=> GroupAt(Last(g.segments).items, i)
<1>1. Len(g.segments) \in Nat /\ Len(g.segments) >= 1
  BY EmptySeq DEF Groups
<1> QED
  BY <1>1 DEF IsKid, GroupAt, Last

LEMMA ResegmentSameKids ==
  ASSUME NEW g \in Groups, g.segments # <<>>, NEW segment \in Segments,
         SameGroups(Last(g.segments).items, segment.items)
  PROVE  SameKids(g, Resegment(g, segment))
<1> SUFFICES ASSUME NEW s \in Nat, NEW i \in Nat
             PROVE  IsKid(Resegment(g, segment), s, i) <=> IsKid(g, s, i)
  BY DEF SameKids
<1>1. IsKid(Resegment(g, segment), s, i) <=>
        IF s = Len(g.segments) THEN GroupAt(segment.items, i) ELSE IsKid(g, s, i)
  BY ResegmentKids
<1>2. IsKid(g, Len(g.segments), i) <=> GroupAt(segment.items, i)
  BY LastKids DEF SameGroups
<1> QED
  BY <1>1, <1>2

LEMMA LastSegment ==
  ASSUME NEW g \in Groups, g.segments # <<>>
  PROVE  /\ Last(g.segments) \in Segments /\ Last(g.segments).items \in Seq(Items)
         /\ Last(g.segments).multiplier \in Numbers
         /\ Len(g.segments) \in Nat /\ Len(g.segments) >= 1
<1>1. g.segments \in Seq(Segments)
  BY DEF Groups
<1>2. Last(g.segments) \in Segments /\ Len(g.segments) \in Nat /\ Len(g.segments) >= 1
  BY <1>1, LastFacts
<1> QED
  BY <1>2 DEF Segments

\* Other items in the current segment.
LEMMA WithItemsWell ==
  ASSUME NEW g \in Groups, g.segments # <<>>, NEW items \in Seq(Items),
         NEW role, NEW ex, Well(g, role, ex), NEW role2, ItemsFit(items, role2),
         role \notin Shut, role2 \notin Shut, role = "MULTIPLIER" <=> role2 = "MULTIPLIER"
  PROVE  Well(WithItems(g, items), role2, ex) /\ WithItems(g, items) \in Groups
<1>1. PICK segment : segment = [items |-> items, multiplier |-> Last(g.segments).multiplier]
  OBVIOUS
<1>2. /\ segment \in Segments /\ segment.items = items
      /\ segment.multiplier = Last(g.segments).multiplier
  BY <1>1, LastSegment DEF Segments
<1>3. PICK r : r = Resegment(g, segment)
  OBVIOUS
<1>4. WithItems(g, items) = r
  BY <1>1, <1>3 DEF WithItems
<1>5. r \in Groups /\ r.sum = g.sum /\ Len(r.segments) = Len(g.segments)
  BY <1>2, <1>3, ResegmentFacts
<1>7. Behind(r) /\ Ahead(r, role2)
  BY <1>2, <1>3, ResegmentBehind, ResegmentAhead DEF Well
<1>8. Multipliers(r) = Multipliers(g)
  BY <1>2, <1>3, ResegmentMultipliers
<1>9. ex => Counted(r, role2)
  <2>1. ex => Counted(g, role)
    BY DEF Well
  <2> QED
    BY <1>5, <1>8, <2>1 DEF Counted, Shut
<1> QED
  BY <1>4, <1>5, <1>7, <1>9 DEF Well

LEMMA WithItemsKids ==
  ASSUME NEW g \in Groups, g.segments # <<>>, NEW items \in Seq(Items),
         NEW s \in Nat, NEW i \in Nat
  PROVE  IsKid(WithItems(g, items), s, i) <=>
           IF s = Len(g.segments) THEN GroupAt(items, i) ELSE IsKid(g, s, i)
<1>1. PICK segment : segment = [items |-> items, multiplier |-> Last(g.segments).multiplier]
  OBVIOUS
<1>2. segment \in Segments /\ segment.items = items
  BY <1>1, LastSegment DEF Segments
<1>3. WithItems(g, items) = Resegment(g, segment)
  BY <1>1 DEF WithItems
<1> QED
  BY <1>2, <1>3, ResegmentKids

\* h2 is h with these items in the current segment of p.
PutsItems(h, h2, p, items) == Puts(h, h2, p, WithItems(h[p], items))

\* There is a current segment.
Going(h, p) == p \in DOMAIN h /\ h[p] \in Groups /\ h[p].segments # <<>>

LEMMA SetItemsPuts ==
  ASSUME NEW h, NEW p, Going(h, p), NEW items
  PROVE  PutsItems(h, SetItems(h, p, items), p, items)
<1>1. PICK g : g = h[p]
  OBVIOUS
<1>2. PICK s : s = g.segments
  OBVIOUS
<1>3. g = [segments |-> s, sum |-> g.sum] /\ s \in Seq(Segments) /\ s # <<>>
  BY <1>1, <1>2 DEF Going, Groups
<1>4. Len(s) \in 1..Len(s) /\ Last(s) \in Segments /\ Last(s) = s[Len(s)]
  BY <1>3, LastFacts
<1>5. [Last(s) EXCEPT !.items = items] = [items |-> items, multiplier |-> Last(s).multiplier]
  BY <1>4 DEF Segments
<1>6. [g EXCEPT !.segments[Len(s)].items = items] =
        [segments |-> [s EXCEPT ![Len(s)] = [s[Len(s)] EXCEPT !.items = items]], sum |-> g.sum]
  <2>1. PICK q : q = [s EXCEPT ![Len(s)] = [s[Len(s)] EXCEPT !.items = items]]
    OBVIOUS
  <2>2. [g EXCEPT !.segments[Len(s)].items = items] = [g EXCEPT !.segments = q]
    BY <1>2, <2>1
  <2>3. [g EXCEPT !.segments = q] = [segments |-> q, sum |-> g.sum]
    BY <1>3
  <2> QED
    BY <2>1, <2>2, <2>3
<1>7. [g EXCEPT !.segments[Len(s)].items = items] = WithItems(g, items)
  BY <1>2, <1>4, <1>5, <1>6 DEF WithItems, Resegment, WithLast
<1>8. SetItems(h, p, items) = [h EXCEPT ![p] = [h[p] EXCEPT !.segments[Len(h[p].segments)].items = items]]
  BY DEF SetItems
<1>9. SetItems(h, p, items) = [h EXCEPT ![p] = WithItems(g, items)]
  BY <1>1, <1>2, <1>7, <1>8
<1>10. PICK x : x = WithItems(g, items)
  OBVIOUS
<1>11. Puts(h, [h EXCEPT ![p] = x], p, x)
  BY PutsExcept DEF Going
<1> QED
  BY <1>1, <1>9, <1>10, <1>11 DEF PutsItems

LEMMA SetSegmentPuts ==
  ASSUME NEW h, NEW p, Going(h, p), NEW segment
  PROVE  Puts(h, SetSegment(h, p, segment), p, Resegment(h[p], segment))
<1>1. PICK g : g = h[p]
  OBVIOUS
<1>2. PICK s : s = g.segments
  OBVIOUS
<1>3. g = [segments |-> s, sum |-> g.sum]
  BY <1>1, <1>2 DEF Going, Groups
<1>4. [g EXCEPT !.segments[Len(s)] = segment] =
        [segments |-> [s EXCEPT ![Len(s)] = segment], sum |-> g.sum]
  BY <1>3
<1>5. SetSegment(h, p, segment) = [h EXCEPT ![p] = [g EXCEPT !.segments[Len(s)] = segment]]
  BY <1>1, <1>2 DEF SetSegment
<1>6. SetSegment(h, p, segment) = [h EXCEPT ![p] = Resegment(g, segment)]
  BY <1>2, <1>4, <1>5 DEF Resegment, WithLast
<1>7. PICK x : x = Resegment(g, segment)
  OBVIOUS
<1>8. Puts(h, [h EXCEPT ![p] = x], p, x)
  BY PutsExcept DEF Going
<1> QED
  BY <1>1, <1>6, <1>7, <1>8

\* What is then there.
LEMMA PutsItemsFacts ==
  ASSUME NEW h, NEW p, Going(h, p), NEW h2, NEW items \in Seq(Items),
         PutsItems(h, h2, p, items)
  PROVE  /\ Going(h2, p) /\ Segment(h2, p).items = items
         /\ Segment(h2, p).multiplier = Segment(h, p).multiplier
         /\ Len(h2[p].segments) = Len(h[p].segments)
         /\ HasItems(h2, p) <=> items # <<>>
         /\ LastItem(h2, p) = Last(items)
<1>1. PICK g, r : g = h[p] /\ r = WithItems(g, items)
  OBVIOUS
<1>2. PICK segment : segment = [items |-> items, multiplier |-> Last(g.segments).multiplier]
  OBVIOUS
<1>3. g \in Groups /\ g.segments # <<>>
  BY <1>1 DEF Going
<1>4. segment \in Segments /\ segment.items = items /\ segment.multiplier = Last(g.segments).multiplier
  BY <1>2, <1>3, LastSegment DEF Segments
<1>5. /\ r \in Groups /\ r.segments # <<>> /\ Last(r.segments) = segment
      /\ Len(r.segments) = Len(g.segments)
  BY <1>1, <1>2, <1>3, <1>4, ResegmentFacts DEF WithItems
<1>6. h2[p] = r /\ p \in DOMAIN h2
  BY <1>1 DEF PutsItems, Puts
<1>7. Segment(h2, p) = segment /\ Segment(h, p) = Last(g.segments)
  BY <1>1, <1>5, <1>6 DEF Segment
<1> QED
  BY <1>1, <1>4, <1>5, <1>6, <1>7 DEF Going, HasItems, LastItem

\* A second change replaces the first.
LEMMA PutsItemsTwice ==
  ASSUME NEW h, NEW p, Going(h, p), NEW h1, NEW h2, NEW a \in Seq(Items), NEW b \in Seq(Items),
         PutsItems(h, h1, p, a), PutsItems(h1, h2, p, b)
  PROVE  PutsItems(h, h2, p, b)
<1>1. PICK g, f : g = h[p] /\ f = h1[p]
  OBVIOUS
<1>2. PICK x, y : /\ x = [items |-> a, multiplier |-> Last(g.segments).multiplier]
                  /\ y = [items |-> b, multiplier |-> Last(f.segments).multiplier]
  OBVIOUS
<1>3. f = Resegment(g, x) /\ DOMAIN h1 = DOMAIN h
  BY <1>1, <1>2 DEF PutsItems, Puts, WithItems
<1>4. g \in Groups /\ g.segments # <<>> /\ g.segments \in Seq(Segments)
  BY <1>1 DEF Going, Groups
<1>5. x \in Segments /\ x.multiplier = Last(g.segments).multiplier
  BY <1>2, <1>4, LastSegment DEF Segments
<1>6. Last(f.segments) = x /\ f.segments = WithLast(g.segments, x) /\ f.sum = g.sum
  BY <1>3, <1>4, <1>5, ResegmentFacts
<1>7. y = [items |-> b, multiplier |-> Last(g.segments).multiplier]
  BY <1>2, <1>5, <1>6
<1>8. WithLast(WithLast(g.segments, x), y) = WithLast(g.segments, y)
  <2>1. PICK s \in Seq(Segments) : s = g.segments /\ s # <<>>
    BY <1>4
  <2>2. Len(WithLast(s, x)) = Len(s)
    BY <1>5, <2>1, WithLastFacts
  <2>3. WithLast(WithLast(s, x), y) = WithLast(s, y)
    BY <2>2 DEF WithLast
  <2> QED
    BY <2>1, <2>3
<1>9. WithItems(f, b) = WithItems(g, b)
  BY <1>2, <1>6, <1>7, <1>8 DEF WithItems, Resegment
<1> QED
  BY <1>1, <1>3, <1>9 DEF PutsItems, Puts

-----------------------------------------------------------------------------
(* Sums of multipliers.                                                    *)

\* Induction, on the set of the numbers for which something holds.
LEMMA SetInduction ==
  ASSUME NEW S, 0 \in S, \A n \in Nat : n \in S => n + 1 \in S
  PROVE  \A n \in Nat : n \in S
<1> DEFINE T == {n \in Nat : n \notin S}
           R == OpToRel(<, Nat)
<1> SUFFICES ASSUME T # {} PROVE FALSE
  OBVIOUS
<1>1. IsWellFoundedOn(R, Nat)
  BY NatLessThanWellFounded
<1>2. \A i, j \in Nat : <<i, j>> \in R <=> i < j
  BY DEF OpToRel
<1> HIDE DEF R
<1>3. PICK x \in T : \A y \in T : <<y, x>> \notin R
  BY <1>1, WFMin, Zenon
<1>4. x \in Nat /\ x # 0 /\ x - 1 \in Nat
  OBVIOUS
<1>5. x - 1 \in T
  <2>1. (x - 1) + 1 = x
    BY <1>4
  <2> QED
    BY <1>4, <2>1
<1>6. <<x - 1, x>> \in R
  BY <1>2, <1>4
<1> QED
  BY <1>3, <1>5, <1>6

LEMMA NumberFacts ==
  /\ 0 \in Numbers /\ 1 \in Numbers
  /\ \A x \in Numbers : x \in Nat /\ (x + 0) % Word = x
  /\ \A x \in Int : x % Word \in Numbers
  /\ \A x \in Numbers : (((x + 1) % Word) - 1) % Word = x
<1>1. Word \in Nat /\ Word > 1 /\ Numbers = 0..Word-1
  BY WordAssumption DEF Numbers
<1>2. \A x \in Numbers : x % Word = x
  BY <1>1
<1>3. \A x \in Int : x % Word \in Numbers
  BY <1>1
<1>4. ASSUME NEW x \in Numbers
      PROVE  (((x + 1) % Word) - 1) % Word = x
  <2>1. CASE x + 1 < Word
    <3>1. (x + 1) % Word = x + 1
      BY <1>1, <2>1
    <3> QED
      BY <1>1, <1>2, <3>1
  <2>2. CASE x + 1 = Word
    <3>1. (x + 1) % Word = 0
      BY <1>1, <2>2
    <3>2. (0 - 1) % Word = Word - 1
      BY <1>1
    <3> QED
      BY <1>1, <2>2, <3>1, <3>2
  <2> QED
    BY <1>1, <2>1, <2>2
<1> QED
  BY <1>1, <1>2, <1>3, <1>4

LEMMA AddUpNext ==
  ASSUME NEW M, NEW k \in Nat, NEW x, AddUp(M, k, x), NEW n, n = k + 1, M[n] \in Nat
  PROVE  AddUp(M, n, (x + M[n]) % Word)
<1>1. PICK T \in [0..k -> Numbers] :
        T[0] = 0 /\ T[k] = x /\ \A i \in 1..k : T[i] = (T[i-1] + M[i]) % Word
  BY DEF AddUp
<1>2. PICK y : y = (x + M[n]) % Word
  OBVIOUS
<1>3. x \in Numbers /\ y \in Numbers
  <2>1. x \in Numbers
    BY <1>1
  <2>2. PICK m \in Int : m = x + M[n]
    <3>1. x \in Nat
      BY <2>1, NumberFacts
    <3> QED
      BY <3>1
  <2>3. m % Word \in Numbers
    BY NumberFacts
  <2> QED
    BY <1>2, <2>1, <2>2, <2>3
<1>4. PICK U : U = [i \in 0..n |-> IF i = n THEN y ELSE T[i]]
  OBVIOUS
<1>5. \A i \in 0..n : i = n \/ i \in 0..k
  OBVIOUS
<1>6. U \in [0..n -> Numbers]
  BY <1>1, <1>3, <1>4, <1>5
<1>7. U[0] = 0 /\ U[n] = y /\ U[k] = x
  BY <1>1, <1>4
<1>8. \A i \in 1..n : U[i] = (U[i-1] + M[i]) % Word
  <2> SUFFICES ASSUME NEW i \in 1..n
               PROVE  U[i] = (U[i-1] + M[i]) % Word
    OBVIOUS
  <2>1. CASE i = n
    <3>1. i - 1 = k
      BY <2>1
    <3> QED
      BY <1>2, <1>7, <2>1, <3>1
  <2>2. CASE i # n
    <3>1. i \in 1..k /\ i - 1 \in 0..k /\ i \in 0..n /\ i - 1 \in 0..n /\ i - 1 # n
      BY <2>2
    <3>2. U[i] = T[i] /\ U[i-1] = T[i-1]
      BY <1>4, <2>2, <3>1
    <3> QED
      BY <1>1, <3>1, <3>2
  <2> QED
    BY <2>1, <2>2
<1>9. AddUp(M, n, y)
  BY <1>6, <1>7, <1>8 DEF AddUp
<1> QED
  BY <1>2, <1>9

Succeeds(n, k) == n = k + 1

LastAdded(M, n, k, x) == \E y \in Numbers : AddUp(M, k, y) /\ x = (y + M[n]) % Word

LEMMA AddUpBack ==
  ASSUME NEW M, NEW n \in Nat, NEW x, AddUp(M, n, x), NEW k \in Nat, Succeeds(n, k)
  PROVE  LastAdded(M, n, k, x)
<1> USE DEF Succeeds
<1>1. PICK T \in [0..n -> Numbers] :
        T[0] = 0 /\ T[n] = x /\ \A i \in 1..n : T[i] = (T[i-1] + M[i]) % Word
  BY DEF AddUp
<1>2. PICK U : U = [i \in 0..k |-> T[i]]
  OBVIOUS
<1>3. U \in [0..k -> Numbers] /\ U[0] = 0
  BY <1>1, <1>2
<1>4. \A i \in 1..k : U[i] = (U[i-1] + M[i]) % Word
  <2> SUFFICES ASSUME NEW i \in 1..k
               PROVE  U[i] = (U[i-1] + M[i]) % Word
    OBVIOUS
  <2>1. i \in 0..k /\ i - 1 \in 0..k /\ i \in 1..n
    OBVIOUS
  <2> QED
    BY <1>1, <1>2, <2>1
<1>5. PICK y : y = T[k]
  OBVIOUS
<1>6. y \in Numbers /\ U[k] = y /\ AddUp(M, k, y)
  <2>1. U[k] = y /\ y \in Numbers
    BY <1>1, <1>2, <1>5
  <2> QED
    BY <1>3, <1>4, <2>1 DEF AddUp
<1>7. x = (y + M[n]) % Word
  <2>1. n \in 1..n /\ n - 1 = k
    OBVIOUS
  <2> QED
    BY <1>1, <1>5, <2>1
<1> QED
  BY <1>6, <1>7 DEF LastAdded

LEMMA AddUpSame ==
  ASSUME NEW M, NEW k \in Nat, NEW x, AddUp(M, k, x), NEW N, \A i \in 1..k : N[i] = M[i]
  PROVE  AddUp(N, k, x)
BY DEF AddUp

LEMMA AddUpNumber ==
  ASSUME NEW M, NEW k \in Nat, NEW x, AddUp(M, k, x)
  PROVE  x \in Numbers
BY DEF AddUp

\* There is one sum.
LEMMA AddUpUnique ==
  ASSUME NEW M, NEW k \in Nat, NEW x, AddUp(M, k, x), NEW T, T[0] = 0,
         \A i \in 1..k : T[i] = (T[i-1] + M[i]) % Word
  PROVE  T[k] = x
<1>1. PICK U \in [0..k -> Numbers] :
        U[0] = 0 /\ U[k] = x /\ \A i \in 1..k : U[i] = (U[i-1] + M[i]) % Word
  BY DEF AddUp
<1> DEFINE S == {n \in Nat : n <= k => T[n] = U[n]}
<1>2. 0 \in S
  BY <1>1
<1>3. ASSUME NEW n \in Nat, n \in S
      PROVE  n + 1 \in S
  <2> SUFFICES ASSUME n + 1 <= k
               PROVE  T[n+1] = U[n+1]
    OBVIOUS
  <2>1. PICK m : m = n + 1
    OBVIOUS
  <2>2. m \in 1..k /\ m - 1 = n /\ T[n] = U[n]
    BY <1>3, <2>1
  <2>3. T[m] = (T[n] + M[m]) % Word /\ U[m] = (U[n] + M[m]) % Word
    BY <1>1, <2>2
  <2> QED
    BY <2>1, <2>2, <2>3
<1> HIDE DEF S
<1>4. k \in S
  BY <1>2, <1>3, SetInduction
<1> QED
  BY <1>1, <1>4 DEF S

-----------------------------------------------------------------------------
(* What passgen_parse_group may do to the current segment.                 *)

LEMMA StemFacts ==
  ASSUME NEW p \in Seq(Nat), NEW u \in Nat, NEW j \in Nat
  PROVE  /\ Stem(Child(p, u, j), p) /\ Stem(Append(p, u), p)
         /\ \A s, i \in Nat : /\ IsPrefix(Child(p, u, j), Child(p, s, i)) <=> s = u /\ i = j
                              /\ IsPrefix(Append(p, u), Child(p, s, i)) <=> s = u
<1>1. PICK c, a, n : c = Child(p, u, j) /\ a = Append(p, u) /\ n = Len(p)
  OBVIOUS
<1>2. Continues(c, p, u, j)
  BY <1>1, ChildFacts
<1>3. /\ c \in Seq(Nat) /\ Len(c) = n + 2 /\ n \in Nat /\ c[n + 1] = u /\ c[n + 2] = j
      /\ \A k \in 1..n : c[k] = p[k]
  BY <1>1, <1>2 DEF Continues
<1>4. a \in Seq(Nat) /\ Len(a) = n + 1 /\ a[n + 1] = u /\ \A k \in 1..n : a[k] = p[k]
  BY <1>1, AppendProperties
<1>5. Stem(c, p) /\ Stem(a, p)
  BY <1>1, <1>3, <1>4 DEF Stem
<1>6. ASSUME NEW s \in Nat, NEW i \in Nat
      PROVE  /\ IsPrefix(c, Child(p, s, i)) <=> s = u /\ i = j
             /\ IsPrefix(a, Child(p, s, i)) <=> s = u
  <2>1. PICK d : d = Child(p, s, i)
    OBVIOUS
  <2>2. Continues(d, p, s, i)
    BY <2>1, ChildFacts
  <2>3. /\ d \in Seq(Nat) /\ Len(d) = n + 2 /\ d[n + 1] = s /\ d[n + 2] = i
        /\ \A k \in 1..n : d[k] = p[k]
    BY <1>1, <2>2 DEF Continues
  <2>4. IsPrefix(c, d) <=> s = u /\ i = j
    <3>0. IsPrefix(c, d) <=> Len(c) <= Len(d) /\ \A k \in 1..Len(c) : c[k] = d[k]
      BY <1>3, <2>3, PrefixFacts
    <3>1. IsPrefix(c, d) <=> \A k \in 1..n+2 : c[k] = d[k]
      BY <1>3, <2>3, <3>0
    <3>2. \A k \in 1..n+2 : k = n + 2 \/ k = n + 1 \/ k \in 1..n
      BY <1>3
    <3>3. n + 1 \in 1..n+2 /\ n + 2 \in 1..n+2
      BY <1>3
    <3> QED
      BY <1>3, <2>3, <3>1, <3>2, <3>3
  <2>5. IsPrefix(a, d) <=> s = u
    <3>0. IsPrefix(a, d) <=> Len(a) <= Len(d) /\ \A k \in 1..Len(a) : a[k] = d[k]
      BY <1>4, <2>3, PrefixFacts
    <3>1. IsPrefix(a, d) <=> \A k \in 1..n+1 : a[k] = d[k]
      BY <1>3, <1>4, <2>3, <3>0
    <3>2. \A k \in 1..n+1 : k = n + 1 \/ k \in 1..n
      BY <1>3
    <3>3. n + 1 \in 1..n+1
      BY <1>3
    <3> QED
      BY <1>4, <2>3, <3>1, <3>2, <3>3
  <2> QED
    BY <2>1, <2>4, <2>5
<1> QED
  BY <1>1, <1>5, <1>6

\* The heap as a group's token finds it: the path ends with a group that goes on, no
\* item of which is being read, and no group is dead.
Ready(h, path, ex) ==
  Whole(h, path, "GROUP", ex) /\ NoneDead(h, path) /\ Going(h, path[Len(path)])

LEMMA GroupGoing ==
  ASSUME NEW h, NEW path, NEW role, NEW ex, Whole(h, path, role, ex), role \notin Shut
  PROVE  /\ Going(h, path[Len(path)]) /\ Well(h[path[Len(path)]], role, ex)
         /\ path[Len(path)] \in Seq(Nat)
<1>1. Typed(h) /\ Chained(h, path) /\ \A q \in DOMAIN h : Well(h[q], Role(path, role, q), ex)
  BY DEF Whole
<1>2. PICK p : p = path[Len(path)]
  OBVIOUS
<1>3. p \in DOMAIN h /\ p \in Seq(Nat) /\ h[p] \in Groups
  <2>1. Len(path) \in 1..Len(path)
    BY <1>1, PathFacts
  <2> QED
    BY <1>1, <1>2, <2>1, PathFacts DEF Typed
<1>4. Well(h[p], role, ex)
  BY <1>1, <1>2, <1>3 DEF Role
<1>5. h[p].segments # <<>>
  BY <1>4 DEF Well, Ahead
<1> QED
  BY <1>2, <1>3, <1>4, <1>5 DEF Going

\* passgen_pattern_segment_clean
CleanedHeap(h, p) ==
  IF HasItems(h, p) /\ LastItem(h, p).kind = "GROUP" /\ h[ItemPlace(h, p)].sum = 0
    THEN SetItems(Without(h, ItemPlace(h, p)), p, Front(Segment(h, p).items))
    ELSE h

LEMMA FrontGroups ==
  ASSUME NEW items \in Seq(Items), items # <<>>, NEW i \in Nat
  PROVE  GroupAt(Front(items), i) <=> GroupAt(items, i) /\ i # Len(items)
<1>1. PICK f, n : f = Front(items) /\ n = Len(items)
  OBVIOUS
<1>2. n \in Nat /\ n >= 1 /\ Len(f) = n - 1 /\ \A k \in 1..n - 1 : f[k] = items[k]
  BY <1>1, LastFacts
<1>3. i \in 1..n - 1 <=> i \in 1..n /\ i # n
  BY <1>2
<1> QED
  BY <1>1, <1>2, <1>3 DEF GroupAt

LEMMA FrontSound ==
  ASSUME NEW items \in Seq(Items), items # <<>>
  PROVE  AllSound(items) <=> AllSound(Front(items)) /\ Sound(Last(items))
<1>1. PICK f, n, x : f = Front(items) /\ n = Len(items) /\ x = Last(items)
  OBVIOUS
<1>2. n \in Nat /\ n >= 1 /\ Len(f) = n - 1 /\ x = items[n] /\ \A k \in 1..n - 1 : f[k] = items[k]
  BY <1>1, LastFacts
<1>3. \A k \in 1..n : k \in 1..n - 1 \/ k = n
  BY <1>2
<1>4. n \in 1..n /\ \A k \in 1..n - 1 : k \in 1..n
  BY <1>2
<1> QED
  BY <1>1, <1>2, <1>3, <1>4 DEF AllSound

\* What a change of the group at p leaves: the other groups and the segments behind.
Kept(h, h2, p) ==
  /\ p \in DOMAIN h2 /\ DOMAIN h2 \subseteq DOMAIN h
  /\ \A q \in DOMAIN h2 : q # p => h2[q] = h[q]
  /\ Len(h[p].segments) <= Len(h2[p].segments)
  /\ \A s \in 1..Len(h[p].segments) - 1 : h2[p].segments[s] = h[p].segments[s]

LEMMA KeptTwice ==
  ASSUME NEW h, NEW p, Going(h, p), NEW h1, Going(h1, p), Kept(h, h1, p),
         NEW h2, Going(h2, p), Kept(h1, h2, p)
  PROVE  Kept(h, h2, p)
<1>1. PICK m, n, k : m = Len(h[p].segments) /\ n = Len(h1[p].segments) /\ k = Len(h2[p].segments)
  OBVIOUS
<1>2. m \in Nat /\ n \in Nat /\ k \in Nat
  BY <1>1 DEF Going, Groups
<1>3. m <= n /\ n <= k
  BY <1>1 DEF Kept
<1>4. m <= k /\ \A s \in 1..m-1 : s \in 1..n-1
  BY <1>2, <1>3
<1>5. \A s \in 1..m-1 : h2[p].segments[s] = h[p].segments[s]
  BY <1>1, <1>4 DEF Kept
<1> QED
  BY <1>1, <1>4, <1>5 DEF Kept

LEMMA WithItemsKept ==
  ASSUME NEW h, NEW p, Going(h, p), NEW h2, NEW items \in Seq(Items), NEW w,
         \/ PutsItems(h, h2, p, items)
         \/ Puts(Without(h, w), h2, p, WithItems(h[p], items))
  PROVE  Kept(h, h2, p)
<1>1. PICK g : g = h[p]
  OBVIOUS
<1>2. PICK segment : segment = [items |-> items, multiplier |-> Last(g.segments).multiplier]
  OBVIOUS
<1>3. g \in Groups /\ g.segments # <<>>
  BY <1>1 DEF Going
<1>4. segment \in Segments
  BY <1>2, <1>3, LastSegment DEF Segments
<1>5. PICK r : r = WithItems(g, items)
  OBVIOUS
<1>6. r = Resegment(g, segment)
  BY <1>2, <1>5 DEF WithItems
<1>7. /\ Len(g.segments) <= Len(r.segments)
      /\ \A s \in 1..Len(g.segments) - 1 : r.segments[s] = g.segments[s]
  BY <1>3, <1>4, <1>6, ResegmentFacts
<1>8. /\ p \in DOMAIN h2 /\ DOMAIN h2 \subseteq DOMAIN h /\ h2[p] = r
      /\ \A q \in DOMAIN h2 : q # p => h2[q] = h[q]
  <2>1. CASE Puts(h, h2, p, r)
    BY <2>1 DEF Puts
  <2>2. CASE Puts(Without(h, w), h2, p, r)
    <3>1. /\ DOMAIN h2 = DOMAIN Without(h, w) /\ p \in DOMAIN h2 /\ h2[p] = r
          /\ \A q \in DOMAIN h2 : q # p => h2[q] = Without(h, w)[q]
      BY <2>2 DEF Puts
    <3>2. \A q \in DOMAIN Without(h, w) : q \in DOMAIN h /\ Without(h, w)[q] = h[q]
      BY DEF Without
    <3> QED
      BY <3>1, <3>2
  <2> QED
    BY <1>1, <1>5, <2>1, <2>2 DEF PutsItems
<1> QED
  BY <1>1, <1>7, <1>8 DEF Kept

LEMMA CleanedReady ==
  ASSUME NEW h, NEW path, NEW ex, Whole(h, path, "GROUP", ex), LastDead(h, path),
         NEW p, p = path[Len(path)], NEW hc, hc = CleanedHeap(h, p)
  PROVE  /\ Ready(hc, path, ex) /\ Kept(h, hc, p) /\ Going(h, p)
         /\ Segment(hc, p).multiplier = Segment(h, p).multiplier
<1>1. Typed(h) /\ Tree(h) /\ Chained(h, path)
  BY DEF Whole
<1>2. p \in Seq(Nat) /\ Going(h, p) /\ Well(h[p], "GROUP", ex)
  BY GroupGoing DEF Shut
<1>3. OnPath(path, p)
  BY <1>1, PathFacts
<1>4. PICK items : items = Segment(h, p).items
  OBVIOUS
<1>5. PICK u, j : u = Len(h[p].segments) /\ j = Len(items)
  OBVIOUS
<1>6. h[p] \in Groups /\ h[p].segments # <<>> /\ p \in DOMAIN h
  BY <1>2 DEF Going
<1>7. items \in Seq(Items) /\ u \in Nat /\ u >= 1 /\ j \in Nat
  <2>1. Last(h[p].segments).items \in Seq(Items) /\ Len(h[p].segments) \in Nat /\ Len(h[p].segments) >= 1
    BY <1>6, LastSegment
  <2> QED
    BY <1>4, <1>5, <2>1 DEF Segment
<1>8. PICK w : w = Child(p, u, j)
  OBVIOUS
<1>9. ItemPlace(h, p) = w
  BY <1>4, <1>5, <1>8 DEF ItemPlace, Child
<1>10. HasItems(h, p) <=> items # <<>>
  BY <1>4 DEF HasItems
<1>11. LastItem(h, p) = Last(items)
  BY <1>4 DEF LastItem
<1>12. CASE ~(items # <<>> /\ Last(items).kind = "GROUP" /\ h[w].sum = 0)
  <2>1. hc = h
    BY <1>9, <1>10, <1>11, <1>12 DEF CleanedHeap
  <2>2. ASSUME NEW q, Dead(h, path, q)
        PROVE  FALSE
    <3>1. q = w /\ items # <<>> /\ q \in DOMAIN h /\ h[w].sum = 0
      BY <1>9, <1>10, <2>2 DEF LastDead, Dead
    <3>2. Continues(w, p, u, j)
      BY <1>2, <1>7, <1>8, ChildFacts
    <3>3. w # <<>>
      <4>1. Len(w) = Len(p) + 2 /\ Len(p) \in Nat
        BY <3>2 DEF Continues
      <4>2. Len(<<>>) = 0
        BY EmptySeq
      <4> QED
        BY <4>1, <4>2
    <3>4. PICK r \in DOMAIN h, s \in Nat, i \in Nat : IsKid(h[r], s, i) /\ w = Child(r, s, i)
      BY <1>1, <3>1, <3>3 DEF Tree
    <3>5. r \in Seq(Nat)
      BY <1>1 DEF Typed
    <3>6. r = p /\ s = u /\ i = j
      <4>1. Child(r, s, i) = Child(p, u, j)
        BY <1>8, <3>4
      <4> QED
        BY <1>2, <1>7, <3>5, <4>1, ChildInjective
    <3>7. GroupAt(items, j)
      BY <1>4, <1>5, <1>6, <1>7, <3>4, <3>6, LastKids DEF Segment
    <3>8. Last(items).kind = "GROUP"
      BY <1>5, <3>7 DEF GroupAt, Last
    <3> QED
      BY <1>12, <3>1, <3>8
  <2>3. NoneDead(h, path)
    BY <2>2 DEF NoneDead
  <2>4. Kept(h, h, p)
    BY <1>5, <1>6, <1>7 DEF Kept
  <2> QED
    BY <1>2, <2>1, <2>3, <2>4 DEF Ready
<1>13. CASE items # <<>> /\ Last(items).kind = "GROUP" /\ h[w].sum = 0
  <2>1. PICK f, h0 : f = Front(items) /\ h0 = Without(h, w)
    OBVIOUS
  <2>2. hc = SetItems(h0, p, f)
    BY <1>4, <1>9, <1>10, <1>11, <1>13, <2>1 DEF CleanedHeap
  <2>3. f \in Seq(Items)
    BY <1>7, <1>13, <2>1, LastFacts
  <2>4. Stem(w, p)
    BY <1>2, <1>7, <1>8, StemFacts
  <2>5. Going(h0, p) /\ h0[p] = h[p]
    <3>1. Len(p) <= Len(p)
      BY <1>2
    <3>2. ~IsPrefix(w, p)
      BY <1>2, <2>4, <3>1, StemLonger
    <3>3. p \in DOMAIN Without(h, w) /\ Without(h, w)[p] = h[p]
      BY <1>6, <3>2 DEF Without
    <3> QED
      BY <1>6, <2>1, <3>3 DEF Going
  <2>6. PutsItems(h0, hc, p, f)
    BY <2>2, <2>5, SetItemsPuts
  <2>7. PICK g : g = WithItems(h[p], f)
    OBVIOUS
  <2>8. Puts(Without(h, w), hc, p, g)
    BY <2>1, <2>5, <2>6, <2>7 DEF PutsItems
  <2>9. ItemsFit(f, "GROUP")
    <3>1. AllSound(items)
      BY <1>2, <1>4, <1>6 DEF Well, Ahead, ItemsFit, Segment
    <3>2. AllSound(f)
      BY <1>7, <1>13, <2>1, <3>1, FrontSound
    <3> QED
      BY <3>2 DEF ItemsFit
  <2>10. Well(g, "GROUP", ex) /\ g \in Groups
    BY <1>2, <1>6, <2>3, <2>7, <2>9, WithItemsWell DEF Shut
  <2>11. KidsCut(h[p], g, p, w)
    <3> SUFFICES ASSUME NEW s \in Nat, NEW i \in Nat
                 PROVE  IsKid(g, s, i) <=> IsKid(h[p], s, i) /\ ~IsPrefix(w, Child(p, s, i))
      BY DEF KidsCut
    <3>1. IsKid(g, s, i) <=> IF s = u THEN GroupAt(f, i) ELSE IsKid(h[p], s, i)
      BY <1>5, <1>6, <2>3, <2>7, WithItemsKids
    <3>2. IsPrefix(w, Child(p, s, i)) <=> s = u /\ i = j
      <4>1. p \in Seq(Nat) /\ u \in Nat /\ j \in Nat
        BY <1>2, <1>7
      <4>2. \A a, b \in Nat : /\ IsPrefix(Child(p, u, j), Child(p, a, b)) <=> a = u /\ b = j
                              /\ IsPrefix(Append(p, u), Child(p, a, b)) <=> a = u
        BY <4>1, StemFacts
      <4>3. IsPrefix(Child(p, u, j), Child(p, s, i)) <=> s = u /\ i = j
        BY <4>2
      <4> QED
        BY <1>8, <4>3
    <3>3. GroupAt(f, i) <=> GroupAt(items, i) /\ i # j
      BY <1>5, <1>7, <1>13, <2>1, FrontGroups
    <3>4. IsKid(h[p], u, i) <=> GroupAt(items, i)
      BY <1>4, <1>5, <1>6, LastKids DEF Segment
    <3> QED
      BY <3>1, <3>2, <3>3, <3>4
  <2>12. Whole(hc, path, "GROUP", ex)
    <3>1. /\ Stem(w, path[Len(path)]) /\ Puts(Without(h, w), hc, path[Len(path)], g)
          /\ KidsCut(h[path[Len(path)]], g, path[Len(path)], w)
      BY <2>4, <2>8, <2>11
    <3> QED
      BY <2>10, <3>1, WholeCut, WeakerSame
  <2>13. NoneDead(hc, path)
    <3> SUFFICES ASSUME NEW q, Dead(hc, path, q)
                 PROVE  FALSE
      BY DEF NoneDead
    <3>1. q \in DOMAIN h0 /\ q # p /\ hc[q] = h0[q] /\ ~OnPath(path, q) /\ hc[q].sum = 0
      BY <1>3, <2>1, <2>8 DEF Dead, Puts
    <3>2. q \in DOMAIN h /\ ~IsPrefix(w, q) /\ h0[q] = h[q]
      BY <2>1, <3>1, WithoutFacts, ZenonT(30)
    <3>3. q = w
      BY <1>9, <3>1, <3>2 DEF LastDead, Dead
    <3>4. IsPrefix(w, w)
      BY <1>2, <1>7, <1>8, StemFacts
    <3> QED
      BY <3>2, <3>3, <3>4
  <2>14. Going(hc, p) /\ Segment(hc, p).multiplier = Segment(h0, p).multiplier
    BY <2>3, <2>5, <2>6, PutsItemsFacts
  <2>15. Segment(hc, p).multiplier = Segment(h, p).multiplier
    BY <2>5, <2>14 DEF Segment
  <2>16. Kept(h, hc, p)
    BY <1>2, <2>3, <2>7, <2>8, WithItemsKept
  <2> QED
    BY <1>2, <2>12, <2>13, <2>14, <2>15, <2>16 DEF Ready
<1> QED
  BY <1>12, <1>13

\* Other items in the current segment of the path's last group.
LEMMA ItemsPut ==
  ASSUME NEW h, NEW path, NEW role, NEW ex, Whole(h, path, role, ex), role \notin Shut,
         NEW role2, role2 \notin Shut, role = "MULTIPLIER" <=> role2 = "MULTIPLIER",
         NEW p, p = path[Len(path)], NEW items \in Seq(Items), ItemsFit(items, role2),
         SameGroups(Segment(h, p).items, items),
         NEW h2, PutsItems(h, h2, p, items)
  PROVE  /\ Whole(h2, path, role2, ex) /\ (NoneDead(h, path) => NoneDead(h2, path))
         /\ Kept(h, h2, p)
<1>1. Going(h, p) /\ Well(h[p], role, ex)
  BY GroupGoing
<1>2. h[p] \in Groups /\ h[p].segments # <<>>
  BY <1>1 DEF Going
<1>3. PICK g : g = WithItems(h[p], items)
  OBVIOUS
<1>4. Well(g, role2, ex) /\ g \in Groups
  BY <1>1, <1>2, <1>3, WithItemsWell
<1>5. SameKids(h[p], g)
  <2> SUFFICES ASSUME NEW s \in Nat, NEW i \in Nat
               PROVE  IsKid(g, s, i) <=> IsKid(h[p], s, i)
    BY DEF SameKids
  <2>1. IsKid(g, s, i) <=> IF s = Len(h[p].segments) THEN GroupAt(items, i) ELSE IsKid(h[p], s, i)
    BY <1>2, <1>3, WithItemsKids
  <2>2. IsKid(h[p], Len(h[p].segments), i) <=> GroupAt(Segment(h, p).items, i)
    BY <1>2, LastKids DEF Segment
  <2> QED
    BY <2>1, <2>2 DEF SameGroups
<1>6. Puts(h, h2, p, g)
  BY <1>3 DEF PutsItems
<1>7. Whole(h2, path, role2, ex) /\ (NoneDead(h, path) => NoneDead(h2, path))
  <2>1. Puts(h, h2, path[Len(path)], g) /\ SameKids(h[path[Len(path)]], g)
    BY <1>5, <1>6
  <2>2. Weaker(ex, ex)
    BY WeakerSame
  <2>3. g \in Groups /\ Well(g, role2, ex)
    BY <1>4
  <2> QED
    BY <2>1, <2>2, <2>3, WholeEdited
<1>8. Kept(h, h2, p)
  BY <1>1, WithItemsKept
<1> QED
  BY <1>7, <1>8

LEMMA ResegmentCounts ==
  ASSUME NEW g \in Groups, g.segments # <<>>, NEW segment \in Segments
  PROVE  /\ \A s \in 1..Len(g.segments) - 1 :
              Multipliers(Resegment(g, segment))[s] = Multipliers(g)[s]
         /\ Multipliers(Resegment(g, segment))[Len(g.segments)] = segment.multiplier
         /\ Multipliers(g)[Len(g.segments)] = Last(g.segments).multiplier
<1>1. PICK r, n : r = Resegment(g, segment) /\ n = Len(g.segments)
  OBVIOUS
<1>2. /\ Len(r.segments) = n /\ n \in Nat /\ n >= 1
      /\ r.segments[n] = segment
      /\ \A s \in 1..n - 1 : r.segments[s] = g.segments[s]
  BY <1>1, ResegmentFacts
<1>3. PICK M, N : M = Multipliers(r) /\ N = Multipliers(g)
  OBVIOUS
<1>4. /\ \A s \in 1..n : M[s] = r.segments[s].multiplier
      /\ \A s \in 1..n : N[s] = g.segments[s].multiplier
  BY <1>1, <1>2, <1>3 DEF Multipliers
<1>5. \A s \in 1..n - 1 : M[s] = N[s]
  BY <1>2, <1>4
<1>6. M[n] = segment.multiplier /\ N[n] = g.segments[n].multiplier
  BY <1>2, <1>4
<1> QED
  BY <1>1, <1>3, <1>5, <1>6 DEF Last

Resum(g, x) == [segments |-> g.segments, sum |-> x]

LEMMA ResumFacts ==
  ASSUME NEW g \in Groups, NEW x \in Numbers
  PROVE  /\ Resum(g, x) \in Groups /\ Resum(g, x).segments = g.segments /\ Resum(g, x).sum = x
         /\ Multipliers(Resum(g, x)) = Multipliers(g)
         /\ SameKids(g, Resum(g, x))
         /\ Behind(g) => Behind(Resum(g, x))
         /\ \A role : Ahead(g, role) => Ahead(Resum(g, x), role)
<1>1. PICK r : r = Resum(g, x)
  OBVIOUS
<1>2. r \in Groups /\ r.segments = g.segments /\ r.sum = x
  BY <1>1 DEF Resum, Groups
<1>3. Multipliers(r) = Multipliers(g)
  BY <1>2 DEF Multipliers
<1>4. SameKids(g, r)
  BY <1>2 DEF SameKids, IsKid
<1>5. Behind(g) => Behind(r)
  BY <1>2 DEF Behind
<1>6. \A role : Ahead(g, role) => Ahead(r, role)
  BY <1>2 DEF Ahead
<1> QED
  BY <1>1, <1>2, <1>3, <1>4, <1>5, <1>6

\* The multiplier of the current segment is going to be read.
LEMMA MultiplierOpened ==
  ASSUME NEW g \in Groups, NEW ex, Well(g, "GROUP", ex), g.segments # <<>>,
         Last(g.segments).items = <<>>,
         NEW segment, segment = [items |-> <<>>, multiplier |-> 0],
         NEW x, x = (g.sum - 1) % Word, NEW r, r = Resum(Resegment(g, segment), x)
  PROVE  /\ r \in Groups /\ SameKids(g, r)
         /\ Well(r, "MULTIPLIER", ex /\ Last(g.segments).multiplier = 1)
<1>1. segment \in Segments /\ segment.items = <<>>
  BY NumberFacts, EmptySeq DEF Segments
<1>2. x \in Numbers
  <2>1. g.sum - 1 \in Int
    BY NumberFacts DEF Groups
  <2> QED
    BY <2>1, NumberFacts
<1>3. PICK f : f = Resegment(g, segment)
  OBVIOUS
<1>4. /\ f \in Groups /\ f.segments # <<>> /\ Len(f.segments) = Len(g.segments)
      /\ Len(g.segments) \in Nat /\ Len(g.segments) >= 1
  BY <1>1, <1>3, ResegmentFacts
<1>5. /\ r \in Groups /\ r.sum = x /\ Multipliers(r) = Multipliers(f)
      /\ Len(r.segments) = Len(g.segments) /\ SameKids(f, r)
  BY <1>2, <1>3, <1>4, ResumFacts
<1>6. SameKids(g, r)
  <2>1. SameKids(g, f)
    BY <1>1, <1>3, ResegmentSameKids DEF SameGroups
  <2> QED
    BY <1>5, <2>1 DEF SameKids
<1>7. Behind(r) /\ Ahead(r, "MULTIPLIER")
  <2>1. Behind(f)
    BY <1>1, <1>3, ResegmentBehind DEF Well
  <2>2. ItemsFit(segment.items, "MULTIPLIER")
    BY <1>1 DEF ItemsFit
  <2>3. Ahead(f, "MULTIPLIER")
    BY <1>1, <1>3, <2>2, ResegmentAhead DEF Shut
  <2> QED
    BY <1>2, <1>3, <1>4, <2>1, <2>3, ResumFacts
<1>8. ASSUME ex, Last(g.segments).multiplier = 1
      PROVE  Counted(r, "MULTIPLIER")
  <2>1. PICK M, N, n, k : M = Multipliers(g) /\ N = Multipliers(f) /\ n = Len(g.segments) /\ k = n - 1
    OBVIOUS
  <2>2. n \in Nat /\ k \in Nat /\ n = k + 1
    BY <1>4, <2>1
  <2>3. AddUp(M, n, g.sum)
    BY <1>8, <2>1 DEF Well, Counted
  <2>4. PICK y \in Numbers : AddUp(M, k, y) /\ g.sum = (y + M[n]) % Word
    <3>1. PICK t : t = g.sum
      OBVIOUS
    <3>2. Succeeds(n, k)
      BY <2>2 DEF Succeeds
    <3>3. LastAdded(M, n, k, t)
      BY <2>2, <2>3, <3>1, <3>2, AddUpBack
    <3> QED
      BY <3>1, <3>3 DEF LastAdded
  <2>5. M[n] = 1 /\ \A s \in 1..k : N[s] = M[s]
    BY <1>1, <1>3, <1>8, <2>1, ResegmentCounts
  <2>6. x = y
    BY <2>4, <2>5, NumberFacts
  <2>7. AddUp(N, k, y)
    BY <2>2, <2>4, <2>5, AddUpSame
  <2> QED
    BY <1>5, <2>1, <2>6, <2>7 DEF Counted
<1> QED
  BY <1>5, <1>6, <1>7, <1>8 DEF Well

LEMMA MultiplierRead ==
  ASSUME NEW g \in Groups, NEW ex, Well(g, "MULTIPLIER", ex), g.segments # <<>>,
         NEW m \in Numbers,
         NEW segment, segment = [items |-> Last(g.segments).items, multiplier |-> m],
         NEW r, r = Resegment(g, segment)
  PROVE  r \in Groups /\ SameKids(g, r) /\ Well(r, "MULTIPLIER", ex)
<1>1. segment \in Segments /\ segment.items = Last(g.segments).items
  BY LastSegment DEF Segments
<1>2. /\ r \in Groups /\ Len(r.segments) = Len(g.segments) /\ r.sum = g.sum
      /\ Len(g.segments) \in Nat /\ Len(g.segments) >= 1
  BY <1>1, ResegmentFacts
<1>3. SameKids(g, r)
  BY <1>1, ResegmentSameKids DEF SameGroups
<1>4. Behind(r) /\ Ahead(r, "MULTIPLIER")
  <2>1. ItemsFit(segment.items, "MULTIPLIER") /\ Behind(g)
    BY <1>1 DEF Well, Ahead
  <2> QED
    BY <1>1, <2>1, ResegmentBehind, ResegmentAhead DEF Shut
<1>5. ASSUME ex
      PROVE  Counted(r, "MULTIPLIER")
  <2>1. PICK M, N, k : M = Multipliers(g) /\ N = Multipliers(r) /\ k = Len(g.segments) - 1
    OBVIOUS
  <2>2. k \in Nat
    BY <1>2, <2>1
  <2>3. AddUp(M, k, g.sum)
    BY <1>5, <2>1 DEF Well, Counted
  <2>4. \A s \in 1..k : N[s] = M[s]
    BY <1>1, <2>1, ResegmentCounts
  <2>5. AddUp(N, k, g.sum)
    BY <2>2, <2>3, <2>4, AddUpSame
  <2> QED
    BY <1>2, <2>1, <2>5 DEF Counted
<1> QED
  BY <1>2, <1>3, <1>4, <1>5 DEF Well

LEMMA MultiplierClosed ==
  ASSUME NEW g \in Groups, NEW ex, Well(g, "MULTIPLIER", ex), g.segments # <<>>,
         NEW x, x = (g.sum + Last(g.segments).multiplier) % Word, NEW r, r = Resum(g, x)
  PROVE  r \in Groups /\ SameKids(g, r) /\ Well(r, "GROUP", ex)
<1>1. Last(g.segments).multiplier \in Numbers /\ Len(g.segments) \in Nat /\ Len(g.segments) >= 1
  BY LastSegment
<1>2. x \in Numbers
  <2>1. g.sum + Last(g.segments).multiplier \in Int
    <3>1. g.sum \in Nat /\ Last(g.segments).multiplier \in Nat
      BY <1>1, NumberFacts DEF Groups
    <3> QED
      BY <3>1
  <2> QED
    BY <2>1, NumberFacts
<1>3. r \in Groups /\ r.segments = g.segments /\ r.sum = x /\ Multipliers(r) = Multipliers(g) /\ SameKids(g, r)
  BY <1>2, ResumFacts
<1>4. Behind(r) /\ Ahead(r, "GROUP")
  <2>1. Behind(g) /\ Last(g.segments).items = <<>>
    BY DEF Well, Ahead, ItemsFit
  <2>2. ItemsFit(<<>>, "GROUP")
    BY EmptySeq DEF ItemsFit, AllSound
  <2>3. Ahead(g, "GROUP")
    BY <2>1, <2>2 DEF Ahead, Shut
  <2> QED
    BY <1>2, <2>1, <2>3, ResumFacts
<1>5. ASSUME ex
      PROVE  Counted(r, "GROUP")
  <2>1. PICK M, n, k : M = Multipliers(g) /\ n = Len(g.segments) /\ k = n - 1
    OBVIOUS
  <2>2. n \in Nat /\ k \in Nat /\ n = k + 1
    BY <1>1, <2>1
  <2>3. AddUp(M, k, g.sum)
    BY <1>5, <2>1 DEF Well, Counted
  <2>4. M[n] = Last(g.segments).multiplier
    BY <2>1, NewGroupFacts, ResegmentCounts
  <2>5. M[n] \in Nat
    BY <1>1, <2>4, NumberFacts
  <2>6. AddUp(M, n, (g.sum + M[n]) % Word)
    BY <2>2, <2>3, <2>5, AddUpNext
  <2> QED
    BY <1>3, <2>1, <2>4, <2>6 DEF Counted
<1> QED
  BY <1>3, <1>4, <1>5 DEF Well

LEMMA SegmentAdded ==
  ASSUME NEW g \in Groups, NEW ex, Well(g, "GROUP", ex), g.segments # <<>>,
         Last(g.segments).multiplier # 0, NEW r, r = WithSegment(g)
  PROVE  /\ r \in Groups /\ SameKids(g, r) /\ Well(r, "GROUP", ex)
         /\ Len(g.segments) <= Len(r.segments)
         /\ \A s \in 1..Len(g.segments) - 1 : r.segments[s] = g.segments[s]
<1>1. PICK f, n, m, x : /\ f = g.segments /\ n = Len(f) /\ m = n + 1
                        /\ x = (g.sum + 1) % Word
  OBVIOUS
<1>2. f \in Seq(Segments) /\ f # <<>> /\ g.sum \in Numbers /\ n \in Nat /\ n >= 1
  BY <1>1, LastSegment DEF Groups
<1>3. PICK a : a = Append(f, NewSegment)
  OBVIOUS
<1>4. /\ a \in Seq(Segments) /\ a # <<>> /\ Len(a) = m /\ Last(a) = NewSegment
      /\ a[m] = NewSegment /\ \A s \in 1..n : a[s] = f[s]
  BY <1>1, <1>2, <1>3, NewGroupFacts, AppendFacts, AppendProperties
<1>5. x \in Numbers
  <2>1. g.sum + 1 \in Int
    <3>1. g.sum \in Nat
      BY <1>2, NumberFacts
    <3> QED
      BY <3>1
  <2> QED
    BY <1>1, <2>1, NumberFacts
<1>6. r \in Groups /\ r.segments = a /\ r.sum = x
  <2>1. r = [segments |-> a, sum |-> x]
    BY <1>1, <1>3 DEF WithSegment
  <2> QED
    BY <1>4, <1>5, <2>1 DEF Groups
<1>7. SameKids(g, r)
  <2> SUFFICES ASSUME NEW s \in Nat, NEW i \in Nat
               PROVE  IsKid(r, s, i) <=> IsKid(g, s, i)
    BY DEF SameKids
  <2>1. CASE s = m
    <3>1. ~(s \in 1..n) /\ a[s].items = <<>> /\ Len(a[s].items) = 0
      BY <1>1, <1>2, <1>4, <2>1, NewGroupFacts
    <3> QED
      BY <1>1, <1>6, <3>1 DEF IsKid
  <2>2. CASE s \in 1..n
    <3>1. a[s] = f[s] /\ s \in 1..m
      BY <1>1, <1>2, <1>4, <2>2
    <3> QED
      BY <1>1, <1>4, <1>6, <2>2, <3>1 DEF IsKid
  <2>3. CASE s \notin 1..m
    <3>1. s \notin 1..n
      BY <1>1, <1>2, <2>3
    <3> QED
      BY <1>1, <1>4, <1>6, <2>3, <3>1 DEF IsKid
  <2> QED
    BY <1>1, <1>2, <2>1, <2>2, <2>3
<1>8. Behind(r)
  <2> SUFFICES ASSUME NEW s \in 1..n
               PROVE  f[s].multiplier # 0 /\ AllSound(f[s].items)
    BY <1>1, <1>2, <1>4, <1>6 DEF Behind
  <2>1. CASE s = n
    BY <1>1, <1>2, <2>1 DEF Well, Ahead, ItemsFit, Last
  <2>2. CASE s \in 1..n-1
    BY <1>1, <2>2 DEF Well, Behind
  <2> QED
    BY <1>2, <2>1, <2>2
<1>9. Ahead(r, "GROUP")
  <2>1. ItemsFit(<<>>, "GROUP")
    BY EmptySeq DEF ItemsFit, AllSound
  <2> QED
    BY <1>4, <1>6, <2>1, NewGroupFacts DEF Ahead, Shut
<1>10. ASSUME ex
       PROVE  Counted(r, "GROUP")
  <2>1. PICK M, N : M = Multipliers(g) /\ N = Multipliers(r)
    OBVIOUS
  <2>2. AddUp(M, n, g.sum)
    BY <1>1, <1>10, <2>1 DEF Well, Counted
  <2>3. \A s \in 1..n : N[s] = M[s]
    BY <1>1, <1>2, <1>4, <1>6, <2>1 DEF Multipliers
  <2>4. N[m] = 1
    BY <1>1, <1>2, <1>4, <1>6, <2>1, NewGroupFacts DEF Multipliers
  <2>5. AddUp(N, n, g.sum)
    BY <1>2, <2>2, <2>3, AddUpSame
  <2>6. AddUp(N, m, (g.sum + N[m]) % Word)
    <3>1. N[m] \in Nat
      BY <2>4
    <3> QED
      BY <1>1, <1>2, <2>5, <3>1, AddUpNext
  <2> QED
    BY <1>1, <1>4, <1>6, <2>1, <2>4, <2>6 DEF Counted
<1>11. /\ Len(g.segments) <= Len(r.segments)
       /\ \A s \in 1..Len(g.segments) - 1 : r.segments[s] = g.segments[s]
  BY <1>1, <1>2, <1>4, <1>6
<1> QED
  BY <1>6, <1>7, <1>8, <1>9, <1>10, <1>11 DEF Well

\* A group whose current segment is dropped, since its multiplier is zero.
LEMMA SegmentDropped ==
  ASSUME NEW g \in Groups, NEW ex, Well(g, "GROUP", ex), g.segments # <<>>,
         Last(g.segments).multiplier = 0,
         NEW r, r = [segments |-> Front(g.segments), sum |-> g.sum]
  PROVE  /\ r \in Groups /\ Well(r, "CLOSING", ex)
         /\ Len(r.segments) = Len(g.segments) - 1
         /\ \A s \in 1..Len(g.segments) - 1 : r.segments[s] = g.segments[s]
<1>1. PICK f, n, k, a : /\ f = g.segments /\ n = Len(f) /\ k = n - 1 /\ a = Front(f)
  OBVIOUS
<1>2. f \in Seq(Segments) /\ f # <<>> /\ g.sum \in Numbers /\ n \in Nat /\ n >= 1 /\ k \in Nat /\ n = k + 1
  BY <1>1, LastSegment DEF Groups
<1>3. a \in Seq(Segments) /\ Len(a) = k /\ \A s \in 1..k : a[s] = f[s]
  BY <1>1, <1>2, LastFacts
<1>4. r \in Groups /\ r.segments = a /\ r.sum = g.sum
  BY <1>1, <1>2, <1>3 DEF Groups
<1>5. \A s \in 1..k : f[s].multiplier # 0 /\ AllSound(f[s].items)
  BY <1>1 DEF Well, Behind
<1>6. Behind(r)
  BY <1>2, <1>3, <1>4, <1>5 DEF Behind
<1>7. Ahead(r, "CLOSING")
  <2>1. CASE a = <<>>
    BY <1>4, <2>1 DEF Ahead, Shut
  <2>2. CASE a # <<>>
    <3>1. Last(a) = a[k] /\ k \in 1..k
      <4>1. Last(a) = a[Len(a)] /\ Len(a) \in Nat /\ Len(a) >= 1
        BY <1>3, <2>2, LastFacts
      <4> QED
        BY <1>3, <4>1
    <3>2. Last(a).multiplier # 0 /\ AllSound(Last(a).items)
      BY <1>3, <1>5, <3>1
    <3> QED
      BY <1>4, <2>2, <3>2 DEF Ahead, ItemsFit
  <2> QED
    BY <2>1, <2>2
<1>8. ASSUME ex
      PROVE  Counted(r, "CLOSING")
  <2>1. PICK M, N, t : M = Multipliers(g) /\ N = Multipliers(r) /\ t = g.sum
    OBVIOUS
  <2>2. AddUp(M, n, t)
    BY <1>1, <1>8, <2>1 DEF Well, Counted
  <2>3. LastAdded(M, n, k, t)
    BY <1>2, <2>2, AddUpBack DEF Succeeds
  <2>4. PICK y \in Numbers : AddUp(M, k, y) /\ t = (y + M[n]) % Word
    BY <2>3 DEF LastAdded
  <2>5. M[n] = 0
    BY <1>1, <1>2, <2>1 DEF Multipliers, Last
  <2>6. y = t
    BY <2>4, <2>5, NumberFacts
  <2>7. \A s \in 1..k : N[s] = M[s]
    BY <1>1, <1>2, <1>3, <1>4, <2>1 DEF Multipliers
  <2>8. AddUp(N, k, t)
    BY <1>2, <2>4, <2>6, <2>7, AddUpSame
  <2> QED
    BY <1>3, <1>4, <2>1, <2>8 DEF Counted
<1>9. /\ Len(r.segments) = Len(g.segments) - 1
      /\ \A s \in 1..Len(g.segments) - 1 : r.segments[s] = g.segments[s]
  BY <1>1, <1>2, <1>3, <1>4
<1> QED
  BY <1>4, <1>6, <1>7, <1>8, <1>9 DEF Well

\* The current segment emptied, and all groups in it freed.
LEMMA EmptySegmentPuts ==
  ASSUME NEW h, NEW p \in Seq(Nat), Going(h, p), NEW w, w = Append(p, Len(h[p].segments))
  PROVE  /\ Puts(Without(h, w), EmptySegment(h, p), p, Resegment(h[p], NewSegment))
         /\ Stem(w, p)
<1>1. PICK u : u = Len(h[p].segments)
  OBVIOUS
<1>2. p \in DOMAIN h /\ h[p] \in Groups /\ h[p].segments # <<>> /\ u \in Nat
  BY <1>1, LastSegment DEF Going
<1>3. Stem(w, p)
  BY <1>1, <1>2, StemFacts
<1>4. ~IsPrefix(w, p)
  <2>1. Len(p) <= Len(p)
    OBVIOUS
  <2> QED
    BY <1>3, <2>1, StemLonger
<1>5. PICK h0 : h0 = Without(h, w)
  OBVIOUS
<1>6. Going(h0, p) /\ h0[p] = h[p]
  <2>1. p \in DOMAIN Without(h, w) /\ Without(h, w)[p] = h[p]
    BY <1>2, <1>4 DEF Without
  <2> QED
    BY <1>2, <1>5, <2>1 DEF Going
<1>7. PICK freed : freed = {q \in DOMAIN h : IsPrefix(w, q)}
  OBVIOUS
<1>8. [q \in DOMAIN h \ freed |-> h[q]] = h0
  <2>1. DOMAIN h \ freed = {r \in DOMAIN h : ~IsPrefix(w, r)}
    BY <1>7
  <2> QED
    BY <1>5, <2>1 DEF Without
<1>9. EmptySegment(h, p) = SetSegment(h0, p, NewSegment)
  BY <1>7, <1>8 DEF EmptySegment
<1>10. Puts(h0, EmptySegment(h, p), p, Resegment(h0[p], NewSegment))
  BY <1>6, <1>9, SetSegmentPuts
<1> QED
  BY <1>3, <1>5, <1>6, <1>10

\* Like Kept, of a step that may drop the current segment.
Held(h, h2, p) ==
  /\ p \in DOMAIN h2 /\ DOMAIN h2 \subseteq DOMAIN h
  /\ \A q \in DOMAIN h2 : q # p => h2[q] = h[q]
  /\ \A s \in 1..Len(h[p].segments) - 1 : h2[p].segments[s] = h[p].segments[s]

\* The stem of the current segment cuts its kids.
LEMMA SegmentCut ==
  ASSUME NEW g \in Groups, g.segments # <<>>, NEW p \in Seq(Nat),
         NEW w, w = Append(p, Len(g.segments)), NEW r,
         \A s, i \in Nat : IsKid(r, s, i) <=> s # Len(g.segments) /\ IsKid(g, s, i)
  PROVE  KidsCut(g, r, p, w)
<1>1. PICK u \in Nat : u = Len(g.segments)
  BY LastSegment
<1> SUFFICES ASSUME NEW s \in Nat, NEW i \in Nat
             PROVE  IsKid(r, s, i) <=> IsKid(g, s, i) /\ ~IsPrefix(w, Child(p, s, i))
  BY DEF KidsCut
<1>2. Stem(Child(p, u, i), p) /\ (IsPrefix(Append(p, u), Child(p, s, i)) <=> s = u)
  BY StemFacts
<1> QED
  BY <1>1, <1>2

\* '|' after a segment with multiplier zero.
LEMMA SegmentEmptied ==
  ASSUME NEW h, NEW path, NEW ex, Ready(h, path, ex), NEW p, p = path[Len(path)],
         NEW h2, h2 = EmptySegment(h, p)
  PROVE  Whole(h2, path, "GROUP", FALSE) /\ NoneDead(h2, path) /\ Held(h, h2, p)
<1>1. /\ Whole(h, path, "GROUP", ex) /\ NoneDead(h, path) /\ Going(h, p)
      /\ p \in Seq(Nat) /\ Well(h[p], "GROUP", ex)
  BY GroupGoing DEF Ready, Shut
<1>2. PICK g, w, r : g = h[p] /\ w = Append(p, Len(g.segments)) /\ r = Resegment(g, NewSegment)
  OBVIOUS
<1>3. Puts(Without(h, w), h2, p, r) /\ Stem(w, p)
  BY <1>1, <1>2, EmptySegmentPuts
<1>4. g \in Groups /\ g.segments # <<>>
  BY <1>1, <1>2 DEF Going
<1>5. r \in Groups /\ \A s \in 1..Len(g.segments) - 1 : r.segments[s] = g.segments[s]
  BY <1>2, <1>4, NewGroupFacts, ResegmentFacts
<1>6. Well(r, "GROUP", FALSE)
  <2>1. Behind(r)
    BY <1>1, <1>2, <1>4, NewGroupFacts, ResegmentBehind DEF Well
  <2>2. ItemsFit(NewSegment.items, "GROUP")
    BY NewGroupFacts, EmptySeq DEF ItemsFit, AllSound
  <2>3. Ahead(r, "GROUP")
    BY <1>2, <1>4, <2>2, NewGroupFacts, ResegmentAhead DEF Shut
  <2> QED
    BY <2>1, <2>3 DEF Well
<1>7. KidsCut(g, r, p, w)
  <2>1. ASSUME NEW s \in Nat, NEW i \in Nat
        PROVE  IsKid(r, s, i) <=> s # Len(g.segments) /\ IsKid(g, s, i)
    <3>1. IsKid(r, s, i) <=>
            IF s = Len(g.segments) THEN GroupAt(NewSegment.items, i) ELSE IsKid(g, s, i)
      BY <1>2, <1>4, NewGroupFacts, ResegmentKids
    <3>2. ~GroupAt(NewSegment.items, i)
      BY NewGroupFacts DEF GroupAt
    <3> QED
      BY <3>1, <3>2
  <2> QED
    BY <1>1, <1>2, <1>4, <2>1, SegmentCut
<1>8. Weaker(FALSE, ex)
  BY DEF Weaker
<1>9. Whole(h2, path, "GROUP", FALSE) /\ NoneDead(h2, path)
  <2>1. /\ Stem(w, path[Len(path)]) /\ Puts(Without(h, w), h2, path[Len(path)], r)
        /\ KidsCut(h[path[Len(path)]], r, path[Len(path)], w)
    BY <1>2, <1>3, <1>7
  <2> QED
    BY <1>1, <1>5, <1>6, <1>8, <2>1, WholeCut
<1>10. /\ p \in DOMAIN h2 /\ DOMAIN h2 \subseteq DOMAIN h /\ h2[p] = r
       /\ \A q \in DOMAIN h2 : q # p => h2[q] = h[q]
  <2>1. /\ DOMAIN h2 = DOMAIN Without(h, w) /\ p \in DOMAIN h2 /\ h2[p] = r
        /\ \A q \in DOMAIN h2 : q # p => h2[q] = Without(h, w)[q]
    BY <1>3 DEF Puts
  <2>2. \A q \in DOMAIN Without(h, w) : q \in DOMAIN h /\ Without(h, w)[q] = h[q]
    BY DEF Without
  <2> QED
    BY <2>1, <2>2
<1> QED
  BY <1>2, <1>5, <1>9, <1>10 DEF Held

\* ')': what passgen_parse_group leaves for passgen_pattern_group_finish.
LEMMA ZeroDropped ==
  ASSUME NEW h, NEW path, NEW ex, Ready(h, path, ex), NEW p, p = path[Len(path)],
         NEW h2, h2 = WithoutZero(h, p)
  PROVE  Whole(h2, path, "CLOSING", ex) /\ NoneDead(h2, path) /\ Held(h, h2, p)
<1>1. /\ Whole(h, path, "GROUP", ex) /\ NoneDead(h, path) /\ Going(h, p)
      /\ p \in Seq(Nat) /\ Well(h[p], "GROUP", ex)
  BY GroupGoing DEF Ready, Shut
<1>2. PICK g : g = h[p]
  OBVIOUS
<1>3. g \in Groups /\ g.segments # <<>> /\ p \in DOMAIN h
  BY <1>1, <1>2 DEF Going
<1>4. CASE Last(g.segments).multiplier # 0
  <2>1. h2 = h
    BY <1>2, <1>4 DEF WithoutZero, Segment
  <2>2. Well(g, "CLOSING", ex)
    <3>1. Ahead(g, "CLOSING")
      <4>1. ItemsFit(Last(g.segments).items, "GROUP")
        BY <1>1, <1>2, <1>3 DEF Well, Ahead
      <4>2. AllSound(Last(g.segments).items)
        BY <4>1 DEF ItemsFit
      <4>3. ItemsFit(Last(g.segments).items, "CLOSING")
        BY <4>2 DEF ItemsFit
      <4> QED
        BY <1>3, <1>4, <4>3 DEF Ahead
    <3>2. ex => Counted(g, "CLOSING")
      BY <1>1, <1>2 DEF Well, Counted
    <3> QED
      BY <1>1, <1>2, <3>1, <3>2 DEF Well
  <2>3. SameKids(g, g) /\ Puts(h, h, p, g)
    BY <1>2, <1>3 DEF SameKids, Puts
  <2>4. Whole(h, path, "CLOSING", ex)
    <3>1. Puts(h, h, path[Len(path)], g) /\ SameKids(h[path[Len(path)]], g)
      BY <1>2, <2>3
    <3> QED
      BY <1>1, <1>3, <2>2, <3>1, WholeEdited, WeakerSame
  <2> QED
    BY <1>1, <1>3, <2>1, <2>4 DEF Held
<1>5. CASE Last(g.segments).multiplier = 0
  <2>1. PICK w, f, r, he : /\ w = Append(p, Len(g.segments))
                           /\ f = Resegment(g, NewSegment)
                           /\ r = [segments |-> Front(g.segments), sum |-> g.sum]
                           /\ he = EmptySegment(h, p)
    OBVIOUS
  <2>2. Puts(Without(h, w), he, p, f) /\ Stem(w, p)
    BY <1>1, <1>2, <2>1, EmptySegmentPuts
  <2>3. h2 = [he EXCEPT ![p].segments = Front(@)]
    BY <1>2, <1>5, <2>1 DEF WithoutZero, Segment
  <2>4. p \in DOMAIN he /\ he[p] = f
    BY <2>2 DEF Puts
  <2>5. f = [segments |-> WithLast(g.segments, NewSegment), sum |-> g.sum]
    BY <2>1 DEF Resegment
  <2>6. Front(f.segments) = Front(g.segments)
    <3>1. g.segments \in Seq(Segments)
      BY <1>3 DEF Groups
    <3>2. Front(WithLast(g.segments, NewSegment)) = Front(g.segments)
      BY <1>3, <3>1, NewGroupFacts, WithLastFacts
    <3> QED
      BY <2>5, <3>2
  <2>7. [f EXCEPT !.segments = Front(@)] = r
    BY <2>1, <2>5, <2>6
  <2>8. h2 = [he EXCEPT ![p] = r]
    BY <2>3, <2>4, <2>7
  <2>9. Puts(Without(h, w), h2, p, r)
    BY <2>2, <2>8 DEF Puts
  <2>10. /\ r \in Groups /\ Well(r, "CLOSING", ex) /\ Len(r.segments) = Len(g.segments) - 1
         /\ \A s \in 1..Len(g.segments) - 1 : r.segments[s] = g.segments[s]
    BY <1>1, <1>2, <1>3, <1>5, <2>1, SegmentDropped, SMTT(30)
  <2>11. KidsCut(g, r, p, w)
    <3>1. ASSUME NEW s \in Nat, NEW i \in Nat
          PROVE  IsKid(r, s, i) <=> s # Len(g.segments) /\ IsKid(g, s, i)
      <4>1. PICK n \in Nat : n = Len(g.segments)
        BY <1>3, LastSegment
      <4>2. s \in 1..n-1 <=> s \in 1..n /\ s # n
        BY <4>1
      <4>3. CASE s \in 1..n-1
        BY <2>10, <4>1, <4>2, <4>3 DEF IsKid
      <4>4. CASE s \notin 1..n-1
        BY <2>10, <4>1, <4>2, <4>4 DEF IsKid
      <4> QED
        BY <4>3, <4>4
    <3> QED
      BY <1>1, <1>3, <2>1, <3>1, SegmentCut
  <2>12. Whole(h2, path, "CLOSING", ex) /\ NoneDead(h2, path)
    <3>1. /\ Stem(w, path[Len(path)]) /\ Puts(Without(h, w), h2, path[Len(path)], r)
          /\ KidsCut(h[path[Len(path)]], r, path[Len(path)], w)
      BY <1>2, <2>2, <2>9, <2>11
    <3> QED
      BY <1>1, <2>10, <3>1, WholeCut, WeakerSame
  <2>13. /\ p \in DOMAIN h2 /\ DOMAIN h2 \subseteq DOMAIN h /\ h2[p] = r
         /\ \A q \in DOMAIN h2 : q # p => h2[q] = h[q]
    <3>1. /\ DOMAIN h2 = DOMAIN Without(h, w) /\ p \in DOMAIN h2 /\ h2[p] = r
          /\ \A q \in DOMAIN h2 : q # p => h2[q] = Without(h, w)[q]
      BY <2>9 DEF Puts
    <3>2. \A q \in DOMAIN Without(h, w) : q \in DOMAIN h /\ Without(h, w)[q] = h[q]
      BY DEF Without
    <3> QED
      BY <3>1, <3>2
  <2> QED
    BY <1>2, <2>10, <2>12, <2>13 DEF Held
<1> QED
  BY <1>4, <1>5

-----------------------------------------------------------------------------
(* Items: what the last one becomes, and what is put after it.             *)

LEMMA FitFacts ==
  ASSUME NEW items
  PROVE  /\ ItemsFit(items, "GROUP") <=> AllSound(items)
         /\ \A role \in {"SET", "SET_RANGE"} : ItemsFit(items, role) <=>
              items # <<>> /\ AllSound(Front(items)) /\ Reading(Last(items), role)
         /\ \A role \in {"REPEAT", "REPEAT_RANGE"} : ItemsFit(items, role) <=>
              /\ items # <<>> /\ AllSound(items)
              /\ Last(items).kind = "LITERAL" => Last(items).tainted
         /\ \A role \in {"SPECIAL", "SPECIAL_NAME"} : ItemsFit(items, role) <=>
              items # <<>> /\ AllSound(items) /\ Last(items).kind = "SPECIAL"
<1>1. ItemsFit(items, "GROUP") <=> AllSound(items)
  BY DEF ItemsFit
<1>2. ASSUME NEW role \in {"SET", "SET_RANGE"}
      PROVE  ItemsFit(items, role) <=>
               items # <<>> /\ AllSound(Front(items)) /\ Reading(Last(items), role)
  <2>1. CASE role = "SET"
    BY <2>1 DEF ItemsFit
  <2>2. CASE role = "SET_RANGE"
    BY <2>2 DEF ItemsFit
  <2> QED
    BY <2>1, <2>2
<1>3. ASSUME NEW role \in {"REPEAT", "REPEAT_RANGE"}
      PROVE  ItemsFit(items, role) <=>
               /\ items # <<>> /\ AllSound(items)
               /\ Last(items).kind = "LITERAL" => Last(items).tainted
  <2>1. CASE role = "REPEAT"
    BY <2>1 DEF ItemsFit
  <2>2. CASE role = "REPEAT_RANGE"
    BY <2>2 DEF ItemsFit
  <2> QED
    BY <2>1, <2>2
<1>4. ASSUME NEW role \in {"SPECIAL", "SPECIAL_NAME"}
      PROVE  ItemsFit(items, role) <=>
               items # <<>> /\ AllSound(items) /\ Last(items).kind = "SPECIAL"
  <2>1. CASE role = "SPECIAL"
    BY <2>1 DEF ItemsFit
  <2>2. CASE role = "SPECIAL_NAME"
    BY <2>2 DEF ItemsFit
  <2> QED
    BY <2>1, <2>2
<1> QED
  BY <1>1, <1>2, <1>3, <1>4

\* An item x put after the others.
LEMMA ItemAppended ==
  ASSUME NEW items \in Seq(Items), NEW x \in Items, x.kind # "GROUP",
         NEW new, new = Append(items, x)
  PROVE  /\ new \in Seq(Items) /\ new # <<>> /\ Front(new) = items /\ Last(new) = x
         /\ SameGroups(items, new)
         /\ AllSound(new) <=> AllSound(items) /\ Sound(x)
<1>1. PICK n : n = Len(items)
  OBVIOUS
<1>2. /\ new \in Seq(Items) /\ new # <<>> /\ Front(new) = items /\ Last(new) = x
      /\ Len(new) = n + 1 /\ n \in Nat
  BY <1>1, AppendFacts
<1>3. SameGroups(items, new)
  <2> SUFFICES ASSUME NEW i \in Nat
               PROVE  GroupAt(items, i) <=> GroupAt(new, i)
    BY DEF SameGroups
  <2>0. GroupAt(Front(new), i) <=> GroupAt(new, i) /\ i # Len(new)
    BY <1>2, FrontGroups
  <2>1. GroupAt(items, i) <=> GroupAt(new, i) /\ i # Len(new)
    BY <1>2, <2>0
  <2>2. ~GroupAt(new, Len(new))
    BY <1>2 DEF GroupAt, Last
  <2> QED
    BY <2>1, <2>2
<1>4. AllSound(new) <=> AllSound(items) /\ Sound(x)
  BY <1>2, FrontSound
<1> QED
  BY <1>2, <1>3, <1>4

\* The last item replaced by x.
LEMMA ItemReplaced ==
  ASSUME NEW items \in Seq(Items), items # <<>>,
         NEW x \in Items, x.kind = Last(items).kind,
         NEW new, new = Append(Front(items), x)
  PROVE  /\ new \in Seq(Items) /\ new # <<>> /\ Front(new) = Front(items) /\ Last(new) = x
         /\ SameGroups(items, new)
         /\ AllSound(new) <=> AllSound(Front(items)) /\ Sound(x)
<1>1. PICK n, f : n = Len(items) /\ f = Front(items)
  OBVIOUS
<1>2. n \in Nat /\ n >= 1 /\ f \in Seq(Items) /\ Len(f) = n - 1 /\ Last(items) = items[n]
  BY <1>1, LastFacts
<1>3. /\ new \in Seq(Items) /\ new # <<>> /\ Front(new) = f /\ Last(new) = x
      /\ Len(new) = Len(f) + 1
  BY <1>1, <1>2, AppendFacts
<1>4. Len(new) = n
  BY <1>2, <1>3
<1>5. SameGroups(items, new)
  <2> SUFFICES ASSUME NEW i \in Nat
               PROVE  GroupAt(items, i) <=> GroupAt(new, i)
    BY DEF SameGroups
  <2>1. GroupAt(f, i) <=> GroupAt(new, i) /\ i # n
    BY <1>3, <1>4, FrontGroups
  <2>2. GroupAt(f, i) <=> GroupAt(items, i) /\ i # n
    BY <1>1, FrontGroups
  <2>3. n \in 1..n /\ new[n] = x
    BY <1>2, <1>3, <1>4 DEF Last
  <2>4. GroupAt(items, n) <=> GroupAt(new, n)
    BY <1>1, <1>2, <1>4, <2>3 DEF GroupAt
  <2> QED
    BY <2>1, <2>2, <2>4
<1>6. AllSound(new) <=> AllSound(f) /\ Sound(x)
  BY <1>3, FrontSound
<1> QED
  BY <1>1, <1>3, <1>5, <1>6

LEMMA NewItemFacts ==
  ASSUME NEW kind \in Kinds
  PROVE  /\ NewItem(kind) \in Items /\ NewItem(kind).kind = kind
         /\ NewItem(kind).ranges = <<>> /\ ~NewItem(kind).tainted /\ ~NewItem(kind).maybe
         /\ NewItem(kind).min = 1 /\ NewItem(kind).max = 1
<1>1. <<>> \in Seq(Nat) /\ <<>> \in Seq(Ranges)
  BY EmptySeq
<1>2. 1 \in Numbers
  BY NumberFacts
<1> QED
  BY <1>1, <1>2 DEF NewItem, Items

\* Neither its literals nor its sets make an item of another kind unsound.
LEMMA OthersSound ==
  ASSUME NEW x, x.kind # "LITERAL", x.kind # "SET"
  PROVE  Sound(x)
BY DEF Sound

\* The last item changes.
LEMMA ItemUpdated ==
  ASSUME NEW h, NEW path, NEW role, NEW ex, Whole(h, path, role, ex),
         role \notin Shut, role # "MULTIPLIER", NEW p, p = path[Len(path)],
         NEW items, items = Segment(h, p).items, items # <<>>,
         NEW x \in Items, x.kind = Last(items).kind,
         NEW role2, role2 \notin Shut, role2 # "MULTIPLIER",
         ItemsFit(Append(Front(items), x), role2),
         NEW h2, h2 = SetLastItem(h, p, x)
  PROVE  /\ Whole(h2, path, role2, ex) /\ (NoneDead(h, path) => NoneDead(h2, path))
         /\ Kept(h, h2, p)
<1>1. Going(h, p)
  BY GroupGoing
<1>2. items \in Seq(Items)
  BY <1>1, LastSegment DEF Going, Segment
<1>3. PICK new : new = Append(Front(items), x)
  OBVIOUS
<1>4. new \in Seq(Items) /\ SameGroups(items, new)
  BY <1>2, <1>3, ItemReplaced
<1>5. PutsItems(h, h2, p, new)
  BY <1>1, <1>3, SetItemsPuts DEF SetLastItem
<1>6. SameGroups(Segment(h, p).items, new) /\ ItemsFit(new, role2)
  BY <1>3, <1>4
<1> QED
  BY <1>4, <1>5, <1>6, ItemsPut

\* An item is added.
LEMMA ItemAdded ==
  ASSUME NEW h, NEW path, NEW ex, Whole(h, path, "GROUP", ex), NEW p, p = path[Len(path)],
         NEW items, items = Segment(h, p).items,
         NEW x \in Items, x.kind # "GROUP",
         NEW role2, role2 \notin Shut, role2 # "MULTIPLIER", ItemsFit(Append(items, x), role2),
         NEW h2, h2 = AddItem(h, p, x)
  PROVE  /\ Whole(h2, path, role2, ex) /\ (NoneDead(h, path) => NoneDead(h2, path))
         /\ Kept(h, h2, p)
<1>0. "GROUP" \notin Shut /\ "GROUP" # "MULTIPLIER"
  BY DEF Shut
<1>1. Going(h, p)
  BY <1>0, GroupGoing
<1>2. items \in Seq(Items)
  BY <1>1, LastSegment DEF Going, Segment
<1>3. PICK new : new = Append(items, x)
  OBVIOUS
<1>4. new \in Seq(Items) /\ SameGroups(items, new)
  BY <1>2, <1>3, ItemAppended
<1>5. PutsItems(h, h2, p, new)
  BY <1>1, <1>3, SetItemsPuts DEF AddItem
<1>6. SameGroups(Segment(h, p).items, new) /\ ItemsFit(new, role2)
  BY <1>3, <1>4
<1> QED
  BY <1>0, <1>4, <1>5, <1>6, ItemsPut

\* y is x with other modifiers.
Modifies(x, y) ==
  \E min, max \in Numbers, maybe \in BOOLEAN :
    y = [x EXCEPT !.min = min, !.max = max, !.maybe = maybe]

\* A modifier leaves a literal sound that is tainted.
LEMMA ModifiedSound ==
  ASSUME NEW x \in Items, Sound(x), x.kind = "LITERAL" => x.tainted,
         NEW y, Modifies(x, y)
  PROVE  y \in Items /\ y.kind = x.kind /\ y.tainted = x.tainted /\ Sound(y)
<1>0. PICK min \in Numbers, max \in Numbers, maybe \in BOOLEAN :
        y = [x EXCEPT !.min = min, !.max = max, !.maybe = maybe]
  BY DEF Modifies
<1>1. y \in Items /\ y.kind = x.kind /\ y.tainted = x.tainted
  BY <1>0 DEF Items
<1>2. y.chars = x.chars /\ y.choices = x.choices /\ y.ranges = x.ranges
  BY <1>0 DEF Items
<1> QED
  BY <1>1, <1>2 DEF Sound

\* last_single_item_taint
LEMMA TaintedPuts ==
  ASSUME NEW h, NEW p, Going(h, p), NEW items, items = Segment(h, p).items,
         items # <<>>, AllSound(items)
  PROVE  \E new \in Seq(Items) :
           /\ PutsItems(h, Tainted(h, p), p, new)
           /\ new # <<>> /\ SameGroups(items, new) /\ AllSound(new)
           /\ Last(new).kind = "LITERAL" => Last(new).tainted
<1>1. items \in Seq(Items)
  BY LastSegment DEF Going, Segment
<1>2. PICK item, front : item = Last(items) /\ front = Front(items)
  OBVIOUS
<1>3. item \in Items /\ Sound(item) /\ AllSound(front) /\ front \in Seq(Items)
  BY <1>1, <1>2, LastFacts, FrontSound
<1>4. LastItem(h, p) = item
  BY <1>2 DEF LastItem
<1>5. PICK h2 : h2 = Tainted(h, p)
  OBVIOUS
<1>6. CASE item.kind # "LITERAL"
  <2>1. h2 = h
    BY <1>4, <1>5, <1>6 DEF Tainted
  <2>2. PutsItems(h, h, p, items)
    <3>1. PICK g, s : g = h[p] /\ s = g.segments
      OBVIOUS
    <3>2. g \in Groups /\ s \in Seq(Segments) /\ s # <<>> /\ p \in DOMAIN h
      BY <3>1 DEF Going, Groups
    <3>3. Last(s) \in Segments /\ Last(s) = s[Len(s)] /\ Len(s) \in 1..Len(s)
      BY <3>2, LastFacts
    <3>4. Last(s) = [items |-> items, multiplier |-> Last(s).multiplier]
      BY <3>1, <3>3 DEF Segments, Segment
    <3>5. WithLast(s, Last(s)) = s
      BY <3>2, <3>3 DEF WithLast
    <3>6. g = [segments |-> s, sum |-> g.sum]
      BY <3>1, <3>2 DEF Groups
    <3>7. WithItems(g, items) = g
      BY <3>1, <3>4, <3>5, <3>6 DEF WithItems, Resegment
    <3> QED
      BY <3>1, <3>2, <3>7 DEF PutsItems, Puts
  <2> QED
    BY <1>1, <1>2, <1>5, <1>6, <2>1, <2>2 DEF SameGroups
<1>7. CASE item.kind = "LITERAL" /\ Len(item.chars) > 1
  <2>1. PICK cut, x : /\ cut = [item EXCEPT !.chars = Front(@)]
                      /\ x = [NewItem("LITERAL") EXCEPT !.chars = <<Last(item.chars)>>,
                                                        !.tainted = TRUE]
    OBVIOUS
  <2>2. item.chars \in Seq(Nat) /\ item.chars # <<>> /\ Len(item.chars) \in 1..MaxChars
    BY <1>3, <1>7, EmptySeq DEF Items, Sound
  <2>3. /\ Front(item.chars) \in Seq(Nat) /\ Last(item.chars) \in Nat
        /\ Len(Front(item.chars)) = Len(item.chars) - 1
    BY <2>2, LastFacts
  <2>4. cut \in Items /\ cut.kind = "LITERAL" /\ Sound(cut)
    <3>1. /\ cut \in Items /\ cut.kind = "LITERAL" /\ cut.chars = Front(item.chars)
          /\ cut.tainted = item.tainted /\ cut.maybe = item.maybe
          /\ cut.min = item.min /\ cut.max = item.max
      BY <1>3, <1>7, <2>1, <2>3 DEF Items
    <3>2. ~item.tainted /\ ~(item.maybe \/ item.min # 1 \/ item.max # 1)
      <4>1. item.tainted => Len(item.chars) = 1
        BY <1>3, <1>7 DEF Sound
      <4>2. item.maybe \/ item.min # 1 \/ item.max # 1 => item.tainted
        BY <1>3, <1>7 DEF Sound
      <4>3. PICK n : n = Len(item.chars)
        OBVIOUS
      <4>4. n > 1 /\ n \in 1..MaxChars
        BY <1>7, <2>2, <4>3
      <4>5. Len(item.chars) # 1
        <5>1. n # 1
          BY <4>4 DEF MaxChars
        <5> QED
          BY <4>3, <5>1
      <4>6. ~item.tainted
        BY <4>1, <4>5
      <4> QED
        BY <4>2, <4>6
    <3>3. Len(cut.chars) \in 1..MaxChars
      <4>1. PICK n : n = Len(item.chars)
        OBVIOUS
      <4>2. n \in 1..MaxChars /\ n > 1
        BY <1>7, <2>2, <4>1
      <4>3. n - 1 \in 1..MaxChars
        BY <4>2 DEF MaxChars
      <4>4. Len(cut.chars) = n - 1
        BY <2>3, <3>1, <4>1
      <4> QED
        BY <4>3, <4>4
    <3> QED
      BY <3>1, <3>2, <3>3 DEF Sound
  <2>5. x \in Items /\ x.kind = "LITERAL" /\ x.tainted /\ Sound(x)
    <3>1. PICK n : n = NewItem("LITERAL")
      OBVIOUS
    <3>2. n \in Items /\ n.kind = "LITERAL" /\ n.min = 1 /\ n.max = 1 /\ ~n.maybe
      BY <3>1, NewItemFacts DEF Kinds
    <3>3. PICK c : c = <<Last(item.chars)>>
      OBVIOUS
    <3>4. c \in Seq(Nat) /\ Len(c) = 1
      BY <2>3, <3>3
    <3>5. x = [n EXCEPT !.chars = c, !.tainted = TRUE]
      BY <2>1, <3>1, <3>3
    <3>6. x \in Items /\ x.kind = "LITERAL" /\ x.tainted /\ x.chars = c
      BY <3>2, <3>4, <3>5 DEF Items
    <3> QED
      BY <3>4, <3>6 DEF Sound, MaxChars
  <2>6. PICK a, b, h1 : /\ a = Append(front, cut) /\ b = Append(a, x)
                        /\ h1 = SetItems(h, p, a)
    OBVIOUS
  <2>7. /\ a \in Seq(Items) /\ SameGroups(items, a) /\ AllSound(a)
    BY <1>1, <1>2, <1>3, <1>7, <2>4, <2>6, ItemReplaced
  <2>8. b \in Seq(Items) /\ b # <<>> /\ SameGroups(a, b) /\ Last(b) = x /\ AllSound(b)
    BY <2>5, <2>6, <2>7, ItemAppended
  <2>9. PutsItems(h, h1, p, a)
    BY <2>6, SetItemsPuts
  <2>10. Going(h1, p) /\ Segment(h1, p).items = a
    BY <2>7, <2>9, PutsItemsFacts
  <2>11. h2 = SetItems(h1, p, b)
    BY <1>2, <1>4, <1>5, <1>7, <2>1, <2>6, <2>10 DEF Tainted, AddItem, SetLastItem, LastItem
  <2>12. PutsItems(h1, h2, p, b)
    BY <2>10, <2>11, SetItemsPuts
  <2>13. PutsItems(h, h2, p, b)
    BY <2>7, <2>8, <2>9, <2>12, PutsItemsTwice
  <2>14. SameGroups(items, b)
    BY <2>7, <2>8 DEF SameGroups
  <2> QED
    BY <1>5, <2>5, <2>8, <2>13, <2>14
<1>8. CASE item.kind = "LITERAL" /\ ~(Len(item.chars) > 1)
  <2>1. PICK x, a : x = [item EXCEPT !.tainted = TRUE] /\ a = Append(front, x)
    OBVIOUS
  <2>2. x \in Items /\ x.kind = "LITERAL" /\ x.tainted /\ x.chars = item.chars
    BY <1>3, <1>8, <2>1 DEF Items
  <2>3. Len(x.chars) = 1
    <3>1. PICK n : n = Len(item.chars)
      OBVIOUS
    <3>2. n \in 1..MaxChars
      BY <1>3, <1>8, <3>1 DEF Sound
    <3>3. ~(n > 1)
      BY <1>8, <3>1
    <3>4. n = 1
      BY <3>2, <3>3 DEF MaxChars
    <3> QED
      BY <2>2, <3>1, <3>4
  <2>4. Sound(x)
    BY <2>2, <2>3 DEF Sound, MaxChars
  <2>5. /\ a \in Seq(Items) /\ a # <<>> /\ SameGroups(items, a) /\ AllSound(a) /\ Last(a) = x
    BY <1>1, <1>2, <1>3, <1>8, <2>1, <2>2, <2>4, ItemReplaced, ZenonT(30)
  <2>6. h2 = SetItems(h, p, a)
    BY <1>2, <1>4, <1>5, <1>8, <2>1 DEF Tainted, SetLastItem
  <2>7. PutsItems(h, h2, p, a)
    BY <2>6, SetItemsPuts
  <2> QED
    BY <1>5, <2>2, <2>5, <2>7
<1> QED
  BY <1>6, <1>7, <1>8

LEMMA ItemModified ==
  ASSUME NEW h, NEW path, NEW ex, Ready(h, path, ex), NEW p, p = path[Len(path)],
         HasItems(h, p), NEW h1, h1 = Tainted(h, p),
         NEW y, Modifies(LastItem(h1, p), y), NEW h2, h2 = SetLastItem(h1, p, y),
         NEW role2 \in {"GROUP", "REPEAT"}
  PROVE  Whole(h2, path, role2, ex) /\ NoneDead(h2, path) /\ Kept(h, h2, p)
<1>1. Whole(h, path, "GROUP", ex) /\ NoneDead(h, path) /\ Going(h, p) /\ Well(h[p], "GROUP", ex)
  BY GroupGoing DEF Ready, Shut
<1>2. PICK items : items = Segment(h, p).items
  OBVIOUS
<1>3. items # <<>> /\ AllSound(items)
  <2>1. items # <<>>
    BY <1>2 DEF HasItems
  <2>2. ItemsFit(items, "GROUP")
    BY <1>1, <1>2 DEF Well, Ahead, Going, Segment
  <2> QED
    BY <2>1, <2>2, FitFacts
<1>4. PICK a \in Seq(Items) :
        /\ PutsItems(h, h1, p, a)
        /\ a # <<>> /\ SameGroups(items, a) /\ AllSound(a)
        /\ Last(a).kind = "LITERAL" => Last(a).tainted
  BY <1>1, <1>2, <1>3, TaintedPuts
<1>5. PICK x, b : x = Last(a) /\ b = Append(Front(a), y)
  OBVIOUS
<1>6. x \in Items /\ Sound(x) /\ AllSound(Front(a))
  BY <1>4, <1>5, LastFacts, FrontSound
<1>7. Going(h1, p) /\ Segment(h1, p).items = a /\ LastItem(h1, p) = x
  BY <1>1, <1>4, <1>5, PutsItemsFacts
<1>8. y \in Items /\ y.kind = x.kind /\ y.tainted = x.tainted /\ Sound(y)
  <2>1. Modifies(x, y)
    BY <1>7
  <2>2. x.kind = "LITERAL" => x.tainted
    BY <1>4, <1>5
  <2> QED
    BY <1>6, <2>1, <2>2, ModifiedSound
<1>9. b \in Seq(Items) /\ b # <<>> /\ Last(b) = y /\ SameGroups(a, b) /\ AllSound(b)
  BY <1>4, <1>5, <1>6, <1>8, ItemReplaced
<1>10. ItemsFit(b, role2)
  <2>1. y.kind = "LITERAL" => y.tainted
    BY <1>4, <1>5, <1>8
  <2>2. ItemsFit(b, "GROUP")
    BY <1>9, FitFacts
  <2>3. ItemsFit(b, "REPEAT")
    BY <1>9, <2>1, FitFacts
  <2> QED
    BY <2>2, <2>3
<1>11. PutsItems(h, h2, p, b)
  <2>1. PutsItems(h1, h2, p, b)
    BY <1>5, <1>7, SetItemsPuts DEF SetLastItem
  <2> QED
    BY <1>1, <1>4, <1>9, <2>1, PutsItemsTwice
<1>12. SameGroups(Segment(h, p).items, b)
  BY <1>2, <1>4, <1>9 DEF SameGroups
<1> QED
  BY <1>1, <1>9, <1>10, <1>11, <1>12, ItemsPut, SMTT(30) DEF Shut

-----------------------------------------------------------------------------
(* The stack, the path and the role.                                       *)

LEMMA StackFacts ==
  ASSUME NEW st, Stacked(st)
  PROVE  /\ Len(st) \in Nat /\ Len(st) >= 1 /\ st[Len(st)] \in States
         /\ Depth(st) \in Nat /\ Depth(st) >= 1
         /\ Doing(st) = "GROUP" <=> st[Len(st)].type = "GROUP"
         /\ Doing(st) = "GROUP" => Depth(st) = Len(st)
         /\ Doing(st) # "GROUP" => Depth(st) = Len(st) - 1
         /\ Doing(st) \notin Shut
         /\ Path(st) \in Seq(Seq(Nat)) /\ Len(Path(st)) = Depth(st)
         /\ \A i \in 1..Depth(st) : Path(st)[i] = st[i].group
         /\ Path(st)[Len(Path(st))] = st[Len(st)].group
<1>1. PICK n, d, x, path : n = Len(st) /\ d = Depth(st) /\ x = st[Len(st)] /\ path = Path(st)
  OBVIOUS
<1>2. st \in Seq(States) /\ d >= 1 /\ n \in Nat
  BY <1>1 DEF Stacked
<1>3. d = IF x.type = "GROUP" THEN n ELSE n - 1
  BY <1>1 DEF Depth
<1>4. d \in Nat /\ n >= 1 /\ d \in 1..n
  BY <1>2, <1>3
<1>5. x \in States
  BY <1>1, <1>2, <1>4
<1>6. x.ranged => x.type \in {"SET", "SET_RANGE"}
  BY <1>1 DEF Stacked
<1>7. Doing(st) = IF x.ranged THEN "SET_RANGE" ELSE x.type
  BY <1>1 DEF Doing
<1>8. Doing(st) = "GROUP" <=> x.type = "GROUP"
  BY <1>6, <1>7
<1>9. Doing(st) \notin Shut
  BY <1>5, <1>7 DEF States, Shut
<1>10. path = [i \in 1..d |-> st[i].group]
  BY <1>1 DEF Path
<1>11. \A i \in 1..d : st[i] \in States
  BY <1>1, <1>2, <1>4
<1>12. path \in Seq(Seq(Nat)) /\ Len(path) = d /\ \A i \in 1..d : path[i] = st[i].group
  <2>1. \A i \in 1..d : st[i].group \in Seq(Nat)
    BY <1>11 DEF States
  <2>2. path \in [1..d -> Seq(Nat)]
    BY <1>10, <2>1
  <2> QED
    BY <1>4, <1>10, <2>2
<1>13. path[d] = x.group
  <2>1. x.group = st[d].group
    BY <1>1 DEF Stacked
  <2>2. d \in 1..d
    BY <1>4
  <2> QED
    BY <1>12, <2>1, <2>2
<1> QED
  BY <1>1, <1>2, <1>3, <1>4, <1>5, <1>8, <1>9, <1>12, <1>13

\* The states of two stacks that have the same groups below.
LEMMA SamePath ==
  ASSUME NEW a, NEW b, Depth(a) = Depth(b), \A i \in 1..Depth(a) : a[i].group = b[i].group
  PROVE  Path(a) = Path(b)
BY DEF Path

LEMMA ReaderOn ==
  ASSUME NEW st, Stacked(st), Doing(st) = "GROUP",
         NEW x \in States, x.type # "GROUP", ~x.ranged, x.group = st[Len(st)].group,
         NEW new, new = Append(st, x)
  PROVE  Stacked(new) /\ Path(new) = Path(st) /\ Doing(new) = x.type
<1>1. PICK n : n = Len(st)
  OBVIOUS
<1>2. n \in Nat /\ n >= 1 /\ Depth(st) = n /\ st \in Seq(States)
  BY <1>1, StackFacts DEF Stacked
<1>3. new \in Seq(States) /\ Len(new) = n + 1 /\ new[n + 1] = x /\ \A i \in 1..n : new[i] = st[i]
  BY <1>1, <1>2, AppendProperties
<1>4. Depth(new) = n
  BY <1>2, <1>3 DEF Depth
<1>5. Path(new) = Path(st)
  BY <1>2, <1>3, <1>4, SamePath
<1>6. Doing(new) = x.type
  BY <1>3 DEF Doing
<1>7. Stacked(new)
  <2>1. \A i \in 1..n : st[i].type = "GROUP" /\ ~st[i].ranged
    BY <1>2 DEF Stacked
  <2>2. new[n].group = x.group
    <3>1. n \in 1..n
      BY <1>2
    <3> QED
      BY <1>1, <1>3, <3>1
  <2> QED
    BY <1>2, <1>3, <1>4, <2>1, <2>2 DEF Stacked
<1> QED
  BY <1>5, <1>6, <1>7

LEMMA GroupOn ==
  ASSUME NEW st, Stacked(st), Doing(st) = "GROUP",
         NEW x \in States, x.type = "GROUP", ~x.ranged, NEW new, new = Append(st, x)
  PROVE  Stacked(new) /\ Path(new) = Append(Path(st), x.group) /\ Doing(new) = "GROUP"
<1>1. PICK n, path, c : n = Len(st) /\ path = Path(st) /\ c = x.group
  OBVIOUS
<1>2. /\ n \in Nat /\ n >= 1 /\ Depth(st) = n /\ st \in Seq(States)
      /\ path \in Seq(Seq(Nat)) /\ Len(path) = n /\ \A i \in 1..n : path[i] = st[i].group
  BY <1>1, StackFacts DEF Stacked
<1>3. new \in Seq(States) /\ Len(new) = n + 1 /\ new[n + 1] = x /\ \A i \in 1..n : new[i] = st[i]
  BY <1>1, <1>2, AppendProperties
<1>4. Depth(new) = n + 1
  BY <1>2, <1>3 DEF Depth
<1>5. Path(new) = Append(path, c)
  <2>1. PICK a : a = Append(path, c)
    OBVIOUS
  <2>2. c \in Seq(Nat)
    BY <1>1 DEF States
  <2>3. a \in Seq(Seq(Nat)) /\ Len(a) = n + 1 /\ a[n + 1] = c /\ \A i \in 1..n : a[i] = path[i]
    BY <1>2, <2>1, <2>2, AppendProperties
  <2>4. Path(new) = [i \in 1..n+1 |-> new[i].group]
    BY <1>4 DEF Path
  <2>5. a = [i \in 1..n+1 |-> a[i]]
    BY <2>3
  <2>6. \A i \in 1..n+1 : i = n + 1 \/ i \in 1..n
    BY <1>2
  <2>7. \A i \in 1..n+1 : a[i] = new[i].group
    BY <1>1, <1>2, <1>3, <2>3, <2>6
  <2> QED
    BY <2>1, <2>4, <2>5, <2>7
<1>6. Doing(new) = "GROUP"
  BY <1>3 DEF Doing
<1>7. Stacked(new)
  <2>1. \A i \in 1..n : st[i].type = "GROUP" /\ ~st[i].ranged
    BY <1>2 DEF Stacked
  <2>2. \A i \in 1..n+1 : i = n + 1 \/ i \in 1..n
    BY <1>2
  <2>3. \A i \in 1..n+1 : new[i].type = "GROUP" /\ ~new[i].ranged
    BY <1>3, <2>1, <2>2
  <2>4. n + 1 >= 1
    BY <1>2
  <2> QED
    BY <1>3, <1>4, <2>3, <2>4 DEF Stacked
<1> QED
  BY <1>1, <1>5, <1>6, <1>7

LEMMA ReaderOff ==
  ASSUME NEW st, Stacked(st), Doing(st) # "GROUP", NEW new, new = Front(st)
  PROVE  Stacked(new) /\ Path(new) = Path(st) /\ Doing(new) = "GROUP"
<1>1. PICK n, m : n = Len(st) /\ m = n - 1
  OBVIOUS
<1>2. n \in Nat /\ m \in Nat /\ m >= 1 /\ Depth(st) = m /\ st \in Seq(States) /\ st # <<>>
  <2>1. n \in Nat /\ n >= 1 /\ Depth(st) = m /\ Depth(st) >= 1 /\ st \in Seq(States)
    BY <1>1, StackFacts DEF Stacked
  <2> QED
    BY <1>1, <2>1, EmptySeq
<1>3. new \in Seq(States) /\ Len(new) = m /\ \A i \in 1..m : new[i] = st[i]
  BY <1>1, <1>2, LastFacts
<1>4. \A i \in 1..m : new[i].type = "GROUP" /\ ~new[i].ranged
  BY <1>2, <1>3 DEF Stacked
<1>5. m \in 1..m
  BY <1>2
<1>6. Depth(new) = m
  BY <1>3, <1>4, <1>5 DEF Depth
<1>7. Path(new) = Path(st)
  BY <1>2, <1>3, <1>6, SamePath
<1>8. Doing(new) = "GROUP"
  BY <1>3, <1>4, <1>5 DEF Doing
<1>9. Stacked(new)
  BY <1>2, <1>3, <1>4, <1>5, <1>6 DEF Stacked
<1> QED
  BY <1>7, <1>8, <1>9

LEMMA GroupOff ==
  ASSUME NEW st, Stacked(st), Doing(st) = "GROUP", Len(st) > 1, NEW new, new = Front(st)
  PROVE  /\ Stacked(new) /\ Path(new) = Front(Path(st)) /\ Doing(new) = "GROUP"
         /\ Len(Path(st)) > 1
<1>1. PICK n, m, path : n = Len(st) /\ m = n - 1 /\ path = Path(st)
  OBVIOUS
<1>2. /\ n \in Nat /\ m \in Nat /\ m >= 1 /\ Depth(st) = n /\ st \in Seq(States) /\ st # <<>>
      /\ path \in Seq(Seq(Nat)) /\ Len(path) = n /\ \A i \in 1..n : path[i] = st[i].group
  <2>1. /\ n \in Nat /\ n > 1 /\ Depth(st) = n /\ st \in Seq(States)
        /\ path \in Seq(Seq(Nat)) /\ Len(path) = n /\ \A i \in 1..n : path[i] = st[i].group
    BY <1>1, StackFacts DEF Stacked
  <2> QED
    BY <1>1, <2>1, EmptySeq
<1>3. new \in Seq(States) /\ Len(new) = m /\ \A i \in 1..m : new[i] = st[i]
  BY <1>1, <1>2, LastFacts, ZenonT(30)
<1>4. \A i \in 1..m : i \in 1..n
  BY <1>1, <1>2
<1>5. \A i \in 1..m : new[i].type = "GROUP" /\ ~new[i].ranged
  BY <1>2, <1>3, <1>4 DEF Stacked
<1>6. m \in 1..m
  BY <1>2
<1>7. Depth(new) = m
  BY <1>3, <1>5, <1>6 DEF Depth
<1>8. Path(new) = Front(path)
  <2>1. PICK f : f = Front(path)
    OBVIOUS
  <2>2. path # <<>>
    BY <1>1, <1>2, EmptySeq
  <2>3. f \in Seq(Seq(Nat)) /\ Len(f) = m /\ \A i \in 1..m : f[i] = path[i]
    <3>1. PICK S : S = Seq(Nat)
      OBVIOUS
    <3>2. path \in Seq(S)
      BY <1>2, <3>1
    <3>3. /\ Front(path) \in Seq(S) /\ Len(Front(path)) = Len(path) - 1
          /\ \A i \in 1..Len(path) - 1 : Front(path)[i] = path[i]
      BY <2>2, <3>2, LastFacts
    <3> QED
      BY <1>1, <1>2, <2>1, <3>1, <3>3
  <2>4. Path(new) = [i \in 1..m |-> new[i].group]
    BY <1>7 DEF Path
  <2>5. f = [i \in 1..m |-> f[i]]
    BY <2>3
  <2>6. \A i \in 1..m : f[i] = new[i].group
    BY <1>2, <1>3, <1>4, <2>3
  <2> QED
    BY <2>1, <2>4, <2>5, <2>6
<1>9. Doing(new) = "GROUP"
  BY <1>3, <1>5, <1>6 DEF Doing
<1>10. Stacked(new)
  BY <1>2, <1>3, <1>5, <1>6, <1>7 DEF Stacked
<1> QED
  BY <1>1, <1>2, <1>8, <1>9, <1>10

LEMMA ReaderChanged ==
  ASSUME NEW st, Stacked(st), Doing(st) # "GROUP",
         NEW x \in States, x.type # "GROUP", x.group = st[Len(st)].group,
         x.ranged => x.type \in {"SET", "SET_RANGE"},
         NEW new, new = [st EXCEPT ![Len(st)] = x]
  PROVE  /\ Stacked(new) /\ Path(new) = Path(st)
         /\ Doing(new) = IF x.ranged THEN "SET_RANGE" ELSE x.type
<1>1. PICK n, m : n = Len(st) /\ m = n - 1
  OBVIOUS
<1>2. n \in Nat /\ m \in Nat /\ m >= 1 /\ Depth(st) = m /\ st \in Seq(States)
  <2>1. n \in Nat /\ n >= 1 /\ Depth(st) = m /\ Depth(st) >= 1 /\ st \in Seq(States)
    BY <1>1, StackFacts DEF Stacked
  <2> QED
    BY <1>1, <2>1
<1>3. n \in 1..n /\ m \in 1..m /\ \A i \in 1..m : i \in 1..n /\ i # n
  BY <1>1, <1>2
<1>4. new \in Seq(States) /\ Len(new) = n /\ new[n] = x /\ \A i \in 1..m : new[i] = st[i]
  BY <1>1, <1>2, <1>3
<1>5. Depth(new) = m
  BY <1>1, <1>4 DEF Depth
<1>6. Path(new) = Path(st)
  BY <1>2, <1>4, <1>5, SamePath
<1>7. Doing(new) = IF x.ranged THEN "SET_RANGE" ELSE x.type
  BY <1>4 DEF Doing
<1>8. Stacked(new)
  <2>1. \A i \in 1..m : st[i].type = "GROUP" /\ ~st[i].ranged
    BY <1>2 DEF Stacked
  <2>2. st[m].group = x.group
    BY <1>1, <1>2 DEF Stacked
  <2> QED
    BY <1>2, <1>3, <1>4, <1>5, <2>1, <2>2 DEF Stacked
<1> QED
  BY <1>6, <1>7, <1>8

-----------------------------------------------------------------------------
(* What a step has to do.                                                  *)

\* Closed groups that are alive and the segments left behind do not change.
Frozen(h, path, h2) ==
  \A q \in DOMAIN h \intersect DOMAIN h2 :
    /\ ~OnPath(path, q) /\ h[q].sum # 0 => h2[q] = h[q]
    /\ OnPath(path, q) => \A s \in 1..Len(h[q].segments) - 1 :
                            h2[q].segments[s] = h[q].segments[s]

LEMMA KeptHeld ==
  ASSUME NEW h, NEW p, Going(h, p), NEW h1, Going(h1, p), Kept(h, h1, p),
         NEW h2, Kept(h1, h2, p) \/ Held(h1, h2, p)
  PROVE  Held(h, h2, p)
<1>1. PICK m, n : m = Len(h[p].segments) /\ n = Len(h1[p].segments)
  OBVIOUS
<1>2. m \in Nat /\ n \in Nat /\ m <= n
  BY <1>1 DEF Going, Groups, Kept
<1>3. \A s \in 1..m-1 : s \in 1..n-1
  BY <1>2
<1>4. \A s \in 1..m-1 : h2[p].segments[s] = h[p].segments[s]
  BY <1>1, <1>3 DEF Kept, Held
<1> QED
  BY <1>1, <1>4 DEF Kept, Held

LEMMA HeldFrozen ==
  ASSUME NEW h, NEW path, NEW p, OnPath(path, p), NEW h2, Held(h, h2, p) \/ Kept(h, h2, p)
  PROVE  Frozen(h, path, h2)
BY DEF Held, Kept, Frozen

\* What a step leaves to be shown of the state it leads to.
Stepped == TInv' /\ Frozen(groups, Path(stack), groups')

LEMMA NoneLast ==
  ASSUME NEW h, NEW path, NoneDead(h, path)
  PROVE  LastDead(h, path)
BY DEF NoneDead, LastDead

LEMMA StepTaken ==
  ASSUME TInv, outcome' = "open", alphabet' = alphabet, exact' \in BOOLEAN,
         Stacked(stack'), Whole(groups', Path(stack'), Doing(stack'), exact'),
         \/ NoneDead(groups', Path(stack'))
         \/ Doing(stack') = "GROUP" /\ LastDead(groups', Path(stack')),
         Frozen(groups, Path(stack), groups')
  PROVE  Stepped
<1>1. alphabet'.tokens \subseteq Nat
  BY DEF TInv
<1>2. Doing(stack') # "CLOSING"
  BY StackFacts DEF Shut
<1>3. IF Doing(stack') = "GROUP" /\ outcome' # "done"
        THEN LastDead(groups', Path(stack')) ELSE NoneDead(groups', Path(stack'))
  BY NoneLast
<1>4. TInv'
  BY <1>1, <1>2, <1>3 DEF TInv
<1> QED
  BY <1>4 DEF Stepped

\* What a token finds.
LEMMA TokenFinds ==
  ASSUME TInv, outcome = "open"
  PROVE  /\ Stacked(stack) /\ exact \in BOOLEAN /\ alphabet.tokens \subseteq Nat
         /\ Whole(groups, Path(stack), Doing(stack), exact)
         /\ Here = Path(stack)[Len(Path(stack))] /\ OnPath(Path(stack), Here)
         /\ Doing(stack) # "GROUP" => NoneDead(groups, Path(stack))
         /\ Doing(stack) = "GROUP" => LastDead(groups, Path(stack))
<1>1. Stacked(stack) /\ exact \in BOOLEAN /\ alphabet.tokens \subseteq Nat
  BY DEF TInv
<1>2. Whole(groups, Path(stack), Doing(stack), exact)
  BY DEF TInv
<1>3. Here = Path(stack)[Len(Path(stack))]
  BY <1>1, StackFacts DEF Here, Top
<1>4. OnPath(Path(stack), Here)
  <2>1. Typed(groups) /\ Chained(groups, Path(stack))
    BY <1>2 DEF Whole
  <2> QED
    BY <1>3, <2>1, PathFacts
<1>5. IF Doing(stack) = "GROUP" /\ outcome # "done"
        THEN LastDead(groups, Path(stack)) ELSE NoneDead(groups, Path(stack))
  BY DEF TInv
<1> QED
  BY <1>1, <1>2, <1>3, <1>4, <1>5

\* What a token of a group finds, once the current segment is cleaned.
LEMMA GroupFinds ==
  ASSUME TInv, In("GROUP"), NEW h, h = Cleaned(Here)
  PROVE  /\ outcome = "open" /\ Doing(stack) = "GROUP"
         /\ Ready(h, Path(stack), exact) /\ Kept(groups, h, Here)
         /\ Going(groups, Here) /\ Going(h, Here) /\ Here \in Seq(Nat)
<1>1. outcome = "open" /\ Doing(stack) = "GROUP"
  BY StackFacts DEF In, Top, TInv
<1>2. Whole(groups, Path(stack), "GROUP", exact) /\ LastDead(groups, Path(stack))
  BY <1>1, TokenFinds
<1>3. h = CleanedHeap(groups, Here)
  BY DEF Cleaned, CleanedHeap
<1>4. PICK p : p = Here
  OBVIOUS
<1>5. p = Path(stack)[Len(Path(stack))]
  BY <1>1, <1>4, TokenFinds
<1>6. Ready(h, Path(stack), exact) /\ Kept(groups, h, p) /\ Going(groups, p)
  BY <1>2, <1>3, <1>4, <1>5, CleanedReady
<1>7. p \in Seq(Nat)
  BY <1>2, <1>5, GroupGoing DEF Shut
<1> QED
  BY <1>1, <1>4, <1>5, <1>6, <1>7 DEF Ready

\* A token of a group that leaves its state on the stack.
LEMMA GroupStays ==
  ASSUME TInv, In("GROUP"), Accept, NEW h, h = Cleaned(Here), UNCHANGED stack,
         exact' \in BOOLEAN, Whole(groups', Path(stack), "GROUP", exact'),
         NoneDead(groups', Path(stack)), Kept(h, groups', Here) \/ Held(h, groups', Here)
  PROVE  Stepped
<1>1. /\ outcome = "open" /\ Doing(stack) = "GROUP" /\ Kept(groups, h, Here)
      /\ Going(groups, Here) /\ Going(h, Here)
  BY GroupFinds
<1>2. Stacked(stack) /\ OnPath(Path(stack), Here)
  BY <1>1, TokenFinds
<1>3. Frozen(groups, Path(stack), groups')
  BY <1>1, <1>2, KeptHeld, HeldFrozen
<1>4. outcome' = "open" /\ alphabet' = alphabet /\ stack' = stack
  BY <1>1 DEF Accept
<1> QED
  BY <1>1, <1>2, <1>3, <1>4, StepTaken

\* A token of a group that pushes a state to read what it begins.
LEMMA GroupPushes ==
  ASSUME TInv, In("GROUP"), Accept, NEW h, h = Cleaned(Here),
         NEW type, Push(State(type, Here)),
         type \in {"MULTIPLIER", "SET", "REPEAT", "SPECIAL"},
         exact' \in BOOLEAN, Whole(groups', Path(stack), type, exact'),
         NoneDead(groups', Path(stack)), Kept(h, groups', Here)
  PROVE  Stepped
<1>1. /\ outcome = "open" /\ Doing(stack) = "GROUP" /\ Kept(groups, h, Here)
      /\ Going(groups, Here) /\ Going(h, Here) /\ Here \in Seq(Nat)
  BY GroupFinds
<1>2. Stacked(stack) /\ OnPath(Path(stack), Here)
  BY <1>1, TokenFinds
<1>3. Frozen(groups, Path(stack), groups')
  BY <1>1, <1>2, KeptHeld, HeldFrozen
<1>4. outcome' = "open" /\ alphabet' = alphabet
  BY <1>1 DEF Accept
<1>5. PICK x : x = State(type, Here)
  OBVIOUS
<1>6. x \in States /\ x.type = type /\ ~x.ranged /\ x.group = stack[Len(stack)].group
  BY <1>1, <1>5 DEF State, States, Here, Top
<1>7. stack' = Append(stack, x) /\ x.type # "GROUP"
  BY <1>5, <1>6 DEF Push
<1>8. Stacked(stack') /\ Path(stack') = Path(stack) /\ Doing(stack') = type
  BY <1>1, <1>2, <1>6, <1>7, ReaderOn
<1> QED
  BY <1>3, <1>4, <1>8, StepTaken

-----------------------------------------------------------------------------
(* The tokens of a group.                                                  *)

LEMMA ReadyItems ==
  ASSUME NEW h, NEW path, NEW ex, Ready(h, path, ex), NEW p, p = path[Len(path)],
         NEW items, items = Segment(h, p).items
  PROVE  /\ Whole(h, path, "GROUP", ex) /\ NoneDead(h, path) /\ Going(h, p)
         /\ Well(h[p], "GROUP", ex) /\ p \in Seq(Nat)
         /\ items \in Seq(Items) /\ AllSound(items)
<1>1. /\ Whole(h, path, "GROUP", ex) /\ NoneDead(h, path) /\ Going(h, p)
      /\ Well(h[p], "GROUP", ex) /\ p \in Seq(Nat)
  BY GroupGoing DEF Ready, Shut
<1>2. items \in Seq(Items)
  BY <1>1, LastSegment DEF Going, Segment
<1>3. ItemsFit(items, "GROUP")
  BY <1>1 DEF Well, Ahead, Going, Segment
<1> QED
  BY <1>1, <1>2, <1>3, FitFacts

LEMMA TokenNumbers ==
  ASSUME NEW t \in Nat
  PROVE  Unescaped(t) \in Nat /\ Char(t) \in Nat /\ Char(Unescaped(t)) \in Nat
<1>1. Unescaped(t) \in Nat
  BY DEF Unescaped, EscapedBit
<1>2. \A c \in Nat : Char(c) \in Nat
  BY DEF Char
<1> QED
  BY <1>1, <1>2

\* Another group at p, with at least the segments behind.
LEMMA GroupPut ==
  ASSUME NEW h, NEW path, NEW ex, Ready(h, path, ex), NEW p, p = path[Len(path)],
         NEW r \in Groups, SameKids(h[p], r), NEW role2, NEW ex2, Weaker(ex2, ex),
         Well(r, role2, ex2), Len(h[p].segments) <= Len(r.segments),
         \A s \in 1..Len(h[p].segments) - 1 : r.segments[s] = h[p].segments[s],
         NEW h2, Puts(h, h2, p, r)
  PROVE  Whole(h2, path, role2, ex2) /\ NoneDead(h2, path) /\ Kept(h, h2, p)
<1>1. Whole(h, path, "GROUP", ex) /\ NoneDead(h, path)
  BY DEF Ready
<1>2. Puts(h, h2, path[Len(path)], r) /\ SameKids(h[path[Len(path)]], r)
  OBVIOUS
<1>3. Whole(h2, path, role2, ex2) /\ NoneDead(h2, path)
  BY <1>1, <1>2, WholeEdited
<1>4. Kept(h, h2, p)
  BY DEF Kept, Puts
<1> QED
  BY <1>3, <1>4

LEMMA NextSegmentStep ==
  ASSUME TInv, NEW t \in Nat, NextSegment(t)
  PROVE  Stepped
<1>1. PICK h, path, p : h = Cleaned(Here) /\ path = Path(stack) /\ p = Here
  OBVIOUS
<1>2. In("GROUP") /\ Accept /\ UNCHANGED stack
  BY DEF NextSegment
<1>3. /\ Ready(h, path, exact) /\ Going(h, p) /\ outcome = "open"
  BY <1>1, <1>2, GroupFinds
<1>4. p = path[Len(path)] /\ exact \in BOOLEAN
  BY <1>1, <1>3, TokenFinds
<1>5. CASE Segment(h, p).multiplier > 0
  <2>1. PICK g, r : g = h[p] /\ r = WithSegment(g)
    OBVIOUS
  <2>2. g \in Groups /\ g.segments # <<>> /\ Well(g, "GROUP", exact)
    BY <1>3, <1>4, <2>1, ReadyItems DEF Going
  <2>3. Last(g.segments).multiplier # 0
    <3>1. PICK m : m = Last(g.segments).multiplier
      OBVIOUS
    <3>2. m > 0
      BY <1>5, <2>1, <3>1 DEF Segment
    <3> QED
      BY <3>1, <3>2
  <2>4. /\ r \in Groups /\ SameKids(g, r) /\ Well(r, "GROUP", exact)
        /\ Len(g.segments) <= Len(r.segments)
        /\ \A s \in 1..Len(g.segments) - 1 : r.segments[s] = g.segments[s]
    BY <2>1, <2>2, <2>3, SegmentAdded
  <2>5. groups' = [h EXCEPT ![p] = r] /\ exact' = exact
    BY <1>1, <1>5, <2>1 DEF NextSegment
  <2>6. Puts(h, groups', p, r)
    BY <1>3, <2>5 DEF Puts, Going
  <2>7. Whole(groups', path, "GROUP", exact) /\ NoneDead(groups', path) /\ Kept(h, groups', p)
    BY <1>3, <1>4, <2>1, <2>4, <2>6, GroupPut, WeakerSame
  <2> QED
    BY <1>1, <1>2, <1>4, <2>5, <2>7, GroupStays
<1>6. CASE ~(Segment(h, p).multiplier > 0)
  <2>1. groups' = EmptySegment(h, p) /\ exact' = FALSE
    BY <1>1, <1>6 DEF NextSegment
  <2>2. PICK h2 : h2 = groups'
    OBVIOUS
  <2>3. h2 = EmptySegment(h, p)
    BY <2>1, <2>2
  <2>4. Whole(h2, path, "GROUP", FALSE) /\ NoneDead(h2, path) /\ Held(h, h2, p)
    BY <1>3, <1>4, <2>3, SegmentEmptied
  <2> QED
    BY <1>1, <1>2, <2>1, <2>2, <2>4, GroupStays
<1> QED
  BY <1>5, <1>6

LEMMA OpenSetStep ==
  ASSUME TInv, NEW t \in Nat, OpenSet(t)
  PROVE  Stepped
<1>1. PICK h, path, p, x, items :
        /\ h = Cleaned(Here) /\ path = Path(stack) /\ p = Here
        /\ x = NewItem("SET") /\ items = Segment(h, p).items
  OBVIOUS
<1>2. /\ In("GROUP") /\ Accept /\ Push(State("SET", Here)) /\ exact' = exact
      /\ groups' = AddItem(h, p, x)
  BY <1>1 DEF OpenSet
<1>3. Ready(h, path, exact) /\ outcome = "open"
  BY <1>1, <1>2, GroupFinds
<1>4. p = path[Len(path)] /\ exact \in BOOLEAN
  BY <1>1, <1>3, TokenFinds
<1>5. /\ Whole(h, path, "GROUP", exact) /\ NoneDead(h, path)
      /\ items \in Seq(Items) /\ AllSound(items)
  BY <1>1, <1>3, <1>4, ReadyItems
<1>6. x \in Items /\ x.kind = "SET" /\ x.ranges = <<>>
  BY <1>1, NewItemFacts DEF Kinds
<1>7. Reading(x, "SET")
  BY <1>6, EmptySeq DEF Reading
<1>8. PICK new : new = Append(items, x)
  OBVIOUS
<1>9. new # <<>> /\ Front(new) = items /\ Last(new) = x
  BY <1>5, <1>6, <1>8, ItemAppended
<1>10. ItemsFit(new, "SET")
  BY <1>5, <1>7, <1>9, FitFacts
<1>11. /\ Whole(groups', path, "SET", exact) /\ (NoneDead(h, path) => NoneDead(groups', path))
       /\ Kept(h, groups', p)
  <2>1. ItemsFit(Append(items, x), "SET")
    BY <1>8, <1>10
  <2>2. x.kind # "GROUP" /\ "SET" \notin Shut /\ "SET" # "MULTIPLIER"
    BY <1>6 DEF Shut
  <2>3. x \in Items /\ items = Segment(h, p).items /\ groups' = AddItem(h, p, x)
    BY <1>1, <1>2, <1>6
  <2> QED
    BY <1>4, <1>5, <2>1, <2>2, <2>3, ItemAdded
<1> QED
  BY <1>1, <1>2, <1>4, <1>5, <1>11, GroupPushes

LEMMA OpenSpecialStep ==
  ASSUME TInv, NEW t \in Nat, OpenSpecial(t)
  PROVE  Stepped
<1>1. PICK h, path, p, n, letter, x, items :
        /\ h = Cleaned(Here) /\ path = Path(stack) /\ p = Here
        /\ n = NewItem("SPECIAL") /\ letter = Char(Unescaped(t))
        /\ x = [n EXCEPT !.letter = letter] /\ items = Segment(h, p).items
  OBVIOUS
<1>2. /\ In("GROUP") /\ Accept /\ Push(State("SPECIAL", Here)) /\ exact' = exact
      /\ groups' = AddItem(h, p, x)
  BY <1>1 DEF OpenSpecial
<1>3. Ready(h, path, exact) /\ outcome = "open"
  BY <1>1, <1>2, GroupFinds
<1>4. p = path[Len(path)] /\ exact \in BOOLEAN
  BY <1>1, <1>3, TokenFinds
<1>5. /\ Whole(h, path, "GROUP", exact) /\ NoneDead(h, path)
      /\ items \in Seq(Items) /\ AllSound(items)
  BY <1>1, <1>3, <1>4, ReadyItems
<1>6. x \in Items /\ x.kind = "SPECIAL"
  <2>1. n \in Items /\ n.kind = "SPECIAL"
    BY <1>1, NewItemFacts DEF Kinds
  <2>2. letter \in Nat
    BY <1>1, TokenNumbers
  <2> QED
    BY <1>1, <2>1, <2>2 DEF Items
<1>7. Sound(x)
  BY <1>6, OthersSound
<1>8. PICK new : new = Append(items, x)
  OBVIOUS
<1>9. new # <<>> /\ Last(new) = x /\ AllSound(new)
  BY <1>5, <1>6, <1>7, <1>8, ItemAppended
<1>10. ItemsFit(new, "SPECIAL")
  BY <1>6, <1>9, FitFacts
<1>11. /\ Whole(groups', path, "SPECIAL", exact) /\ (NoneDead(h, path) => NoneDead(groups', path))
       /\ Kept(h, groups', p)
  <2>1. ItemsFit(Append(items, x), "SPECIAL")
    BY <1>8, <1>10
  <2>2. x.kind # "GROUP" /\ "SPECIAL" \notin Shut /\ "SPECIAL" # "MULTIPLIER"
    BY <1>6 DEF Shut
  <2>3. x \in Items /\ items = Segment(h, p).items /\ groups' = AddItem(h, p, x)
    BY <1>1, <1>2, <1>6
  <2> QED
    BY <1>4, <1>5, <2>1, <2>2, <2>3, ItemAdded
<1> QED
  BY <1>1, <1>2, <1>4, <1>5, <1>11, GroupPushes

\* What is tainted is still an item.
LEMMA TaintedItem ==
  ASSUME NEW h, NEW path, NEW ex, Ready(h, path, ex), NEW p, p = path[Len(path)],
         HasItems(h, p), NEW x, x = LastItem(Tainted(h, p), p)
  PROVE  x \in Items
<1>1. PICK items, h1 : items = Segment(h, p).items /\ h1 = Tainted(h, p)
  OBVIOUS
<1>2. Going(h, p) /\ AllSound(items) /\ items # <<>>
  BY <1>1, ReadyItems DEF HasItems
<1>3. PICK a \in Seq(Items) : PutsItems(h, h1, p, a) /\ a # <<>>
  BY <1>1, <1>2, TaintedPuts
<1>4. LastItem(h1, p) = Last(a)
  BY <1>2, <1>3, PutsItemsFacts
<1> QED
  BY <1>1, <1>3, <1>4, LastFacts

LEMMA OpenRepeatStep ==
  ASSUME TInv, NEW t \in Nat, OpenRepeat(t)
  PROVE  Stepped
<1>1. PICK h, path, p, h1 :
        h = Cleaned(Here) /\ path = Path(stack) /\ p = Here /\ h1 = Tainted(h, p)
  OBVIOUS
<1>2. PICK x, y : x = LastItem(h1, p) /\ y = [x EXCEPT !.min = 0, !.max = 0]
  OBVIOUS
<1>3. /\ In("GROUP") /\ Accept /\ Push(State("REPEAT", Here)) /\ exact' = exact
      /\ HasItems(h, p)
  BY <1>1 DEF OpenRepeat
<1>4. groups' = SetLastItem(h1, p, y)
  BY <1>1, <1>2 DEF OpenRepeat
<1>5. Ready(h, path, exact) /\ outcome = "open"
  BY <1>1, <1>3, GroupFinds
<1>6. p = path[Len(path)] /\ exact \in BOOLEAN
  BY <1>1, <1>5, TokenFinds
<1>7. Modifies(x, y)
  <2>1. x \in Items
    BY <1>1, <1>2, <1>3, <1>5, <1>6, TaintedItem
  <2>2. x.maybe \in BOOLEAN /\ y = [x EXCEPT !.min = 0, !.max = 0, !.maybe = x.maybe]
    BY <1>2, <2>1 DEF Items
  <2>3. 0 \in Numbers
    BY NumberFacts
  <2> QED
    BY <2>2, <2>3 DEF Modifies
<1>8. Whole(groups', path, "REPEAT", exact) /\ NoneDead(groups', path) /\ Kept(h, groups', p)
  <2>1. Modifies(LastItem(h1, p), y)
    BY <1>2, <1>7
  <2> QED
    BY <1>1, <1>3, <1>4, <1>5, <1>6, <2>1, ItemModified
<1> QED
  BY <1>1, <1>3, <1>6, <1>8, GroupPushes

LEMMA MaybeStep ==
  ASSUME TInv, NEW t \in Nat, Maybe(t)
  PROVE  Stepped
<1>1. PICK h, path, p, h1 :
        h = Cleaned(Here) /\ path = Path(stack) /\ p = Here /\ h1 = Tainted(h, p)
  OBVIOUS
<1>2. PICK x, y : x = LastItem(h1, p) /\ y = [x EXCEPT !.maybe = TRUE]
  OBVIOUS
<1>3. In("GROUP") /\ Accept /\ UNCHANGED stack /\ exact' = exact /\ HasItems(h, p)
  BY <1>1 DEF Maybe
<1>4. groups' = SetLastItem(h1, p, y)
  BY <1>1, <1>2 DEF Maybe
<1>5. Ready(h, path, exact) /\ outcome = "open"
  BY <1>1, <1>3, GroupFinds
<1>6. p = path[Len(path)] /\ exact \in BOOLEAN
  BY <1>1, <1>5, TokenFinds
<1>7. Modifies(x, y)
  <2>1. x \in Items
    BY <1>1, <1>2, <1>3, <1>5, <1>6, TaintedItem
  <2>2. /\ x.min \in Numbers /\ x.max \in Numbers
        /\ y = [x EXCEPT !.min = x.min, !.max = x.max, !.maybe = TRUE]
    BY <1>2, <2>1 DEF Items
  <2> QED
    BY <2>2 DEF Modifies
<1>8. Whole(groups', path, "GROUP", exact) /\ NoneDead(groups', path) /\ Kept(h, groups', p)
  <2>1. Modifies(LastItem(h1, p), y)
    BY <1>2, <1>7
  <2> QED
    BY <1>1, <1>3, <1>4, <1>5, <1>6, <2>1, ItemModified
<1> QED
  BY <1>1, <1>3, <1>6, <1>8, GroupStays

LEMMA OpenMultiplierStep ==
  ASSUME TInv, NEW t \in Nat, OpenMultiplier(t)
  PROVE  Stepped
<1>1. PICK h, path, p, g, segment, zero, h1, f, x, r :
        /\ h = Cleaned(Here) /\ path = Path(stack) /\ p = Here /\ g = h[p]
        /\ segment = Segment(h, p) /\ zero = [segment EXCEPT !.multiplier = 0]
        /\ h1 = SetSegment(h, p, zero) /\ f = Resegment(g, zero)
        /\ x = (g.sum - 1) % Word /\ r = Resum(f, x)
  OBVIOUS
<1>2. /\ In("GROUP") /\ Accept /\ Push(State("MULTIPLIER", Here))
      /\ ~HasItems(h, p) /\ groups' = [h1 EXCEPT ![p].sum = (@ - 1) % Word]
      /\ exact' = (exact /\ segment.multiplier = 1)
  BY <1>1 DEF OpenMultiplier
<1>3. Ready(h, path, exact) /\ outcome = "open"
  BY <1>1, <1>2, GroupFinds
<1>4. p = path[Len(path)] /\ exact \in BOOLEAN
  BY <1>1, <1>3, TokenFinds
<1>5. Going(h, p) /\ Well(g, "GROUP", exact)
  BY <1>1, <1>3, <1>4, ReadyItems
<1>6. g \in Groups /\ g.segments # <<>> /\ segment = Last(g.segments)
  BY <1>1, <1>5 DEF Going, Segment
<1>7. segment \in Segments /\ segment.items = <<>>
  BY <1>2, <1>1, <1>6, LastSegment DEF HasItems
<1>8. zero = [items |-> <<>>, multiplier |-> 0] /\ zero \in Segments
  <2>1. segment = [items |-> <<>>, multiplier |-> segment.multiplier]
    BY <1>7 DEF Segments
  <2>2. zero = [items |-> <<>>, multiplier |-> 0]
    BY <1>1, <2>1
  <2> QED
    BY <2>2, NumberFacts, EmptySeq DEF Segments
<1>9. PICK ex2 : ex2 = (exact /\ Last(g.segments).multiplier = 1)
  OBVIOUS
<1>10. r \in Groups /\ SameKids(g, r) /\ Well(r, "MULTIPLIER", ex2)
  <2>1. Last(g.segments).items = <<>>
    BY <1>6, <1>7
  <2> QED
    BY <1>1, <1>5, <1>6, <1>8, <1>9, <2>1, MultiplierOpened
<1>11. exact' = ex2 /\ exact' \in BOOLEAN
  BY <1>2, <1>6, <1>9
<1>12. /\ f.segments = WithLast(g.segments, zero) /\ f.sum = g.sum /\ f \in Groups
       /\ Len(f.segments) = Len(g.segments) /\ Len(g.segments) \in Nat
       /\ \A s \in 1..Len(g.segments) - 1 : f.segments[s] = g.segments[s]
  BY <1>1, <1>6, <1>8, ResegmentFacts
<1>13. /\ Len(g.segments) <= Len(r.segments)
       /\ \A s \in 1..Len(g.segments) - 1 : r.segments[s] = g.segments[s]
  BY <1>1, <1>12 DEF Resum
<1>14. Puts(h, h1, p, f)
  BY <1>1, <1>5, SetSegmentPuts
<1>15. Puts(h, groups', p, r)
  <2>1. p \in DOMAIN h1 /\ h1[p] = f
    BY <1>14 DEF Puts
  <2>2. f = [segments |-> f.segments, sum |-> g.sum]
    BY <1>12 DEF Groups
  <2>3. [f EXCEPT !.sum = (@ - 1) % Word] = r
    BY <1>1, <2>2 DEF Resum
  <2>4. groups' = [h1 EXCEPT ![p] = r]
    BY <1>2, <2>1, <2>3
  <2> QED
    BY <1>14, <2>4 DEF Puts
<1>16. Weaker(ex2, exact)
  BY <1>9 DEF Weaker
<1>17. Whole(groups', path, "MULTIPLIER", ex2) /\ NoneDead(groups', path) /\ Kept(h, groups', p)
  BY <1>1, <1>3, <1>4, <1>10, <1>13, <1>15, <1>16, GroupPut
<1> QED
  BY <1>1, <1>2, <1>11, <1>17, GroupPushes

\* A literal that starts with a character, or goes on with it.
LEMMA LiteralSound ==
  ASSUME NEW x \in Items, x.kind = "LITERAL", Sound(x), ~x.tainted,
         Len(x.chars) < MaxChars, NEW c \in Nat,
         NEW y, y = [x EXCEPT !.chars = Append(@, c)]
  PROVE  y \in Items /\ y.kind = "LITERAL" /\ Sound(y)
<1>1. PICK n, chars : n = Len(x.chars) /\ chars = Append(x.chars, c)
  OBVIOUS
<1>2. x.chars \in Seq(Nat)
  BY DEF Items
<1>3. n \in 1..MaxChars /\ n < MaxChars
  BY <1>1 DEF Sound
<1>4. chars \in Seq(Nat) /\ Len(chars) = n + 1
  BY <1>1, <1>2, AppendProperties
<1>5. n + 1 \in 1..MaxChars
  BY <1>3 DEF MaxChars
<1>6. /\ y \in Items /\ y.kind = "LITERAL" /\ y.chars = chars /\ y.tainted = x.tainted
      /\ y.maybe = x.maybe /\ y.min = x.min /\ y.max = x.max
  BY <1>1, <1>4 DEF Items
<1>7. ~(x.maybe \/ x.min # 1 \/ x.max # 1)
  BY DEF Sound
<1>8. Len(y.chars) \in 1..MaxChars
  BY <1>4, <1>5, <1>6
<1> QED
  BY <1>6, <1>7, <1>8 DEF Sound

LEMMA LiteralStep ==
  ASSUME TInv, NEW t \in Nat, Literal(t)
  PROVE  Stepped
<1>1. PICK h, path, p, c, items, item :
        /\ h = Cleaned(Here) /\ path = Path(stack) /\ p = Here /\ c = Unescaped(t)
        /\ items = Segment(h, p).items /\ item = LastItem(h, p)
  OBVIOUS
<1>2. In("GROUP") /\ Accept /\ UNCHANGED stack /\ exact' = exact
  BY DEF Literal
<1>3. groups' =
        IF HasItems(h, p) /\ item.kind = "LITERAL" /\ ~item.tainted /\ Len(item.chars) < MaxChars
          THEN SetLastItem(h, p, [item EXCEPT !.chars = Append(@, c)])
          ELSE AddItem(h, p, [NewItem("LITERAL") EXCEPT !.chars = <<c>>])
  BY <1>1 DEF Literal
<1>4. Ready(h, path, exact) /\ outcome = "open"
  BY <1>1, <1>2, GroupFinds
<1>5. p = path[Len(path)] /\ exact \in BOOLEAN
  BY <1>1, <1>4, TokenFinds
<1>6. /\ Whole(h, path, "GROUP", exact) /\ NoneDead(h, path) /\ items \in Seq(Items)
      /\ AllSound(items)
  BY <1>1, <1>4, <1>5, ReadyItems
<1>7. c \in Nat
  BY <1>1, TokenNumbers
<1>8. "GROUP" \notin Shut /\ "GROUP" # "MULTIPLIER"
  BY DEF Shut
<1>9. CASE HasItems(h, p) /\ item.kind = "LITERAL" /\ ~item.tainted /\ Len(item.chars) < MaxChars
  <2>1. PICK y, new : y = [item EXCEPT !.chars = Append(@, c)] /\ new = Append(Front(items), y)
    OBVIOUS
  <2>2. items # <<>> /\ item = Last(items)
    BY <1>1, <1>9 DEF HasItems, LastItem
  <2>3. item \in Items /\ Sound(item) /\ AllSound(Front(items))
    BY <1>6, <2>2, LastFacts, FrontSound
  <2>4. y \in Items /\ y.kind = "LITERAL" /\ Sound(y)
    BY <1>7, <1>9, <2>1, <2>3, LiteralSound
  <2>5. AllSound(new) /\ y.kind = Last(items).kind
    BY <1>6, <1>9, <2>1, <2>2, <2>3, <2>4, ItemReplaced
  <2>6. ItemsFit(Append(Front(items), y), "GROUP")
    BY <2>1, <2>5, FitFacts
  <2>7. groups' = SetLastItem(h, p, y) /\ items = Segment(h, p).items
    BY <1>1, <1>3, <1>9, <2>1
  <2>8. Whole(groups', path, "GROUP", exact) /\ NoneDead(groups', path) /\ Kept(h, groups', p)
    BY <1>5, <1>6, <1>8, <2>2, <2>4, <2>5, <2>6, <2>7, ItemUpdated
  <2> QED
    BY <1>1, <1>2, <1>5, <2>8, GroupStays
<1>10. CASE ~(/\ HasItems(h, p) /\ item.kind = "LITERAL" /\ ~item.tainted
              /\ Len(item.chars) < MaxChars)
  <2>1. PICK n, chars, y, new : /\ n = NewItem("LITERAL") /\ chars = <<c>>
                                /\ y = [n EXCEPT !.chars = chars] /\ new = Append(items, y)
    OBVIOUS
  <2>2. n \in Items /\ n.kind = "LITERAL" /\ n.min = 1 /\ n.max = 1 /\ ~n.maybe /\ ~n.tainted
    BY <2>1, NewItemFacts DEF Kinds
  <2>3. chars \in Seq(Nat) /\ Len(chars) = 1
    BY <1>7, <2>1
  <2>4. /\ y \in Items /\ y.kind = "LITERAL" /\ y.chars = chars /\ y.min = 1 /\ y.max = 1
        /\ ~y.maybe /\ ~y.tainted
    BY <2>1, <2>2, <2>3 DEF Items
  <2>5. Sound(y)
    BY <2>3, <2>4 DEF Sound, MaxChars
  <2>6. AllSound(new)
    BY <1>6, <2>1, <2>4, <2>5, ItemAppended
  <2>7. ItemsFit(Append(items, y), "GROUP")
    BY <2>1, <2>6, FitFacts
  <2>8. groups' = AddItem(h, p, y) /\ items = Segment(h, p).items /\ y.kind # "GROUP"
    BY <1>1, <1>3, <1>10, <2>1, <2>4
  <2>9. Whole(groups', path, "GROUP", exact) /\ NoneDead(groups', path) /\ Kept(h, groups', p)
    BY <1>5, <1>6, <1>8, <2>4, <2>7, <2>8, ItemAdded
  <2> QED
    BY <1>1, <1>2, <1>5, <2>9, GroupStays
<1> QED
  BY <1>9, <1>10

\* passgen_pattern_group_finish changes no segment.
LEMMA FinishedSegments ==
  ASSUME NEW g \in Groups
  PROVE  Finished(g).segments = g.segments
BY DEF Finished, Groups

LEMMA CloseGroupStep ==
  ASSUME TInv, NEW t \in Nat, CloseGroup(t)
  PROVE  Stepped
<1>1. PICK h, path, p, h1, h2, path2 :
        /\ h = Cleaned(Here) /\ path = Path(stack) /\ p = Here /\ h1 = WithoutZero(h, p)
        /\ h2 = [h1 EXCEPT ![p] = Finished(@)] /\ path2 = Front(path)
  OBVIOUS
<1>2. /\ In("GROUP") /\ Accept /\ Len(stack) > 1 /\ Leave /\ exact' = exact
      /\ groups' = h2
  BY <1>1 DEF CloseGroup
<1>3. /\ Ready(h, path, exact) /\ outcome = "open" /\ Doing(stack) = "GROUP"
      /\ Kept(groups, h, p) /\ Going(groups, p) /\ Going(h, p)
  BY <1>1, <1>2, GroupFinds
<1>4. p = path[Len(path)] /\ exact \in BOOLEAN /\ Stacked(stack) /\ OnPath(path, p)
  BY <1>1, <1>3, TokenFinds
<1>5. Whole(h1, path, "CLOSING", exact) /\ NoneDead(h1, path) /\ Held(h, h1, p)
  BY <1>1, <1>3, <1>4, ZeroDropped
<1>6. /\ Stacked(stack') /\ Path(stack') = path2 /\ Doing(stack') = "GROUP"
      /\ Len(path) > 1
  BY <1>1, <1>2, <1>3, <1>4, GroupOff DEF Leave
<1>7. p \in DOMAIN h1
  BY <1>5 DEF Held
<1>8. Puts(h1, h2, p, Finished(h1[p]))
  BY <1>1, <1>7 DEF Puts
<1>9. Whole(h2, path2, "GROUP", exact) /\ LastDead(h2, path2)
  <2>1. Puts(h1, h2, path[Len(path)], Finished(h1[path[Len(path)]]))
    BY <1>4, <1>8
  <2> QED
    BY <1>1, <1>5, <1>6, <2>1, WholeClosed
<1>10. Held(h, h2, p)
  <2>1. h1[p] \in Groups
    BY <1>5, <1>7 DEF Whole, Typed
  <2>2. /\ DOMAIN h2 = DOMAIN h1 /\ h2[p].segments = h1[p].segments
        /\ \A q \in DOMAIN h1 : q # p => h2[q] = h1[q]
    BY <1>8, <2>1, FinishedSegments DEF Puts
  <2> QED
    BY <1>5, <2>2 DEF Held
<1>11. Frozen(groups, path, h2)
  BY <1>3, <1>4, <1>10, KeptHeld, HeldFrozen
<1>12. outcome' = "open" /\ alphabet' = alphabet /\ exact' \in BOOLEAN
  BY <1>2, <1>3, <1>4 DEF Accept
<1>13. Whole(groups', Path(stack'), Doing(stack'), exact') /\ LastDead(groups', Path(stack'))
  BY <1>2, <1>6, <1>9
<1>14. Frozen(groups, Path(stack), groups')
  BY <1>1, <1>2, <1>11
<1> QED
  BY <1>6, <1>12, <1>13, <1>14, StepTaken

\* What is cleaned away and no deeper than an item of p derived nothing.
LEMMA CleanedAway ==
  ASSUME NEW h, Typed(h), NEW p, Going(h, p), NEW hc, hc = CleanedHeap(h, p),
         NEW q \in DOMAIN h, q \notin DOMAIN hc, Len(q) = Len(p) + 2
  PROVE  h[q].sum = 0
<1>1. PICK w, items : w = ItemPlace(h, p) /\ items = Segment(h, p).items
  OBVIOUS
<1>2. /\ hc = SetItems(Without(h, w), p, Front(items)) /\ h[w].sum = 0
      /\ HasItems(h, p)
  BY <1>1 DEF CleanedHeap
<1>3. DOMAIN hc = DOMAIN Without(h, w)
  BY <1>2 DEF SetItems
<1>4. IsPrefix(w, q)
  BY <1>3, WithoutFacts
<1>5. PICK u \in Nat, j \in Nat : w = Child(p, u, j)
  <2>1. PICK u, j : u = Len(h[p].segments) /\ j = Len(Segment(h, p).items)
    OBVIOUS
  <2>2. h[p].segments \in Seq(Segments)
    BY DEF Going, Groups
  <2>3. Segment(h, p).items \in Seq(Items)
    BY LastSegment DEF Going, Segment
  <2>4. u \in Nat /\ j \in Nat
    BY <2>1, <2>2, <2>3
  <2>5. w = Child(p, u, j)
    BY <1>1, <2>1 DEF ItemPlace, Child
  <2> QED
    BY <2>4, <2>5
<1>6. p \in Seq(Nat) /\ q \in Seq(Nat)
  BY DEF Typed, Going
<1>7. w \in Seq(Nat) /\ Continues(w, p, u, j)
  BY <1>5, <1>6, ChildFacts
<1>8. Len(w) = Len(q)
  BY <1>7 DEF Continues
<1>9. \A k \in 1..Len(w) : w[k] = q[k]
  BY <1>4, <1>6, <1>7, PrefixFacts
<1>10. w = q
  BY <1>6, <1>7, <1>8, <1>9, SeqEqual, Zenon
<1> QED
  BY <1>2, <1>10

\* The place after the last item is free.
LEMMA NextPlaceFree ==
  ASSUME NEW h, Typed(h), Tree(h), NEW p, Going(h, p), NEW u, u = Len(h[p].segments),
         NEW j \in Nat, Succeeds(j, Len(Segment(h, p).items)), NEW c, c = Child(p, u, j)
  PROVE  c \notin DOMAIN h
<1> SUFFICES ASSUME c \in DOMAIN h PROVE FALSE
  OBVIOUS
<1>1. p \in Seq(Nat) /\ u \in Nat /\ h[p] \in Groups /\ h[p].segments # <<>>
  BY LastSegment DEF Typed, Going
<1>2. Continues(c, p, u, j)
  BY <1>1, ChildFacts
<1>3. c # <<>>
  <2>1. Len(c) # 0
    BY <1>2 DEF Continues
  <2> QED
    BY <2>1, EmptySeq
<1>4. PICK q \in DOMAIN h, s \in Nat, i \in Nat : IsKid(h[q], s, i) /\ c = Child(q, s, i)
  BY <1>3 DEF Tree
<1>5. q \in Seq(Nat)
  BY DEF Typed
<1>6. q = p /\ s = u /\ i = j
  <2>1. Child(q, s, i) = Child(p, u, j)
    BY <1>4
  <2>2. p \in Seq(Nat) /\ u \in Nat
    BY <1>1
  <2> QED
    BY <1>5, <2>1, <2>2, ChildInjective
<1>7. IsKid(h[p], u, j)
  BY <1>4, <1>6
<1>8. GroupAt(Segment(h, p).items, j)
  BY <1>1, <1>7, LastKids DEF Segment
<1>9. Segment(h, p).items \in Seq(Items)
  BY <1>1, LastSegment DEF Segment
<1> QED
  BY <1>8, <1>9 DEF GroupAt, Succeeds

LEMMA OpenGroupStep ==
  ASSUME TInv, NEW t \in Nat, OpenGroup(t)
  PROVE  Stepped
<1>1. PICK h, path, p, items, x, h1, c, h2 :
        /\ h = Cleaned(Here) /\ path = Path(stack) /\ p = Here
        /\ items = Segment(h, p).items /\ x = NewItem("GROUP")
        /\ h1 = AddItem(h, p, x) /\ c = ItemPlace(h1, p) /\ h2 = groups'
  OBVIOUS
<1>2. PICK a, g : a = Append(items, x) /\ g = WithItems(h[p], a)
  OBVIOUS
<1>3. /\ In("GROUP") /\ Accept /\ Push(State("GROUP", c)) /\ exact' = exact
      /\ h2 = [q \in DOMAIN h1 \union {c} |-> IF q = c THEN NewGroup ELSE h1[q]]
  BY <1>1 DEF OpenGroup
<1>4. /\ Ready(h, path, exact) /\ outcome = "open" /\ Doing(stack) = "GROUP"
      /\ Kept(groups, h, p) /\ Going(groups, p) /\ Going(h, p)
  BY <1>1, <1>3, GroupFinds
<1>5. p = path[Len(path)] /\ exact \in BOOLEAN /\ Stacked(stack) /\ OnPath(path, p)
  BY <1>1, <1>4, TokenFinds
<1>6. /\ Whole(h, path, "GROUP", exact) /\ NoneDead(h, path) /\ items \in Seq(Items)
      /\ AllSound(items) /\ Well(h[p], "GROUP", exact) /\ p \in Seq(Nat)
  BY <1>1, <1>4, <1>5, ReadyItems
<1>7. x \in Items /\ x.kind = "GROUP" /\ Sound(x)
  BY <1>1, NewItemFacts, OthersSound DEF Kinds
<1>8. PICK u, j, n : u = Len(h[p].segments) /\ n = Len(items) /\ j = n + 1
  OBVIOUS
<1>9. /\ a \in Seq(Items) /\ a # <<>> /\ Front(a) = items /\ Last(a) = x /\ n \in Nat
      /\ Len(a) = j /\ \A i \in 1..n : a[i] = items[i]
  BY <1>2, <1>6, <1>7, <1>8, AppendFacts
<1>10. h[p] \in Groups /\ h[p].segments # <<>> /\ u \in Nat /\ u >= 1 /\ j \in Nat
  BY <1>4, <1>8, <1>9, LastSegment DEF Going
<1>11. ItemsFit(a, "GROUP")
  <2>1. AllSound(a) <=> AllSound(Front(a)) /\ Sound(Last(a))
    BY <1>9, FrontSound
  <2> QED
    BY <1>6, <1>7, <1>9, <2>1, FitFacts
<1>12. Well(g, "GROUP", exact) /\ g \in Groups
  BY <1>2, <1>6, <1>9, <1>10, <1>11, WithItemsWell DEF Shut
<1>13. PutsItems(h, h1, p, a)
  BY <1>1, <1>2, <1>4, SetItemsPuts DEF AddItem
<1>14. /\ Going(h1, p) /\ Segment(h1, p).items = a /\ Len(h1[p].segments) = u
       /\ h1[p] = g /\ DOMAIN h1 = DOMAIN h
       /\ \A q \in DOMAIN h : q # p => h1[q] = h[q]
  <2>1. /\ Going(h1, p) /\ Segment(h1, p).items = a
        /\ Len(h1[p].segments) = Len(h[p].segments)
    BY <1>4, <1>9, <1>13, PutsItemsFacts
  <2>2. /\ h1[p] = WithItems(h[p], a) /\ DOMAIN h1 = DOMAIN h
        /\ \A q \in DOMAIN h : q # p => h1[q] = h[q]
    BY <1>13 DEF PutsItems, Puts
  <2> QED
    BY <1>2, <1>8, <2>1, <2>2
<1>15. c = Child(p, u, j)
  BY <1>1, <1>9, <1>14 DEF ItemPlace, Child
<1>16. c \notin DOMAIN h
  <2>1. Typed(h) /\ Tree(h)
    BY <1>6 DEF Whole
  <2>2. Succeeds(j, Len(Segment(h, p).items))
    BY <1>1, <1>8 DEF Succeeds
  <2> QED
    BY <1>4, <1>8, <1>10, <1>15, <2>1, <2>2, NextPlaceFree
<1>17. /\ DOMAIN h2 = DOMAIN h \union {c} /\ h2[c] = NewGroup
       /\ \A q \in DOMAIN h : h2[q] = h1[q]
  BY <1>3, <1>14, <1>16
<1>18. \A s, i \in Nat : IsKid(g, s, i) <=> IsKid(h[p], s, i) \/ (s = u /\ i = j)
  <2> SUFFICES ASSUME NEW s \in Nat, NEW i \in Nat
               PROVE  IsKid(g, s, i) <=> IsKid(h[p], s, i) \/ (s = u /\ i = j)
    OBVIOUS
  <2>1. IsKid(g, s, i) <=> IF s = u THEN GroupAt(a, i) ELSE IsKid(h[p], s, i)
    BY <1>2, <1>8, <1>9, <1>10, WithItemsKids
  <2>2. IsKid(h[p], u, i) <=> GroupAt(items, i)
    BY <1>1, <1>8, <1>10, LastKids DEF Segment
  <2>3. GroupAt(Front(a), i) <=> GroupAt(a, i) /\ i # Len(a)
    BY <1>9, FrontGroups
  <2>4. GroupAt(a, j)
    <3>1. j \in 1..Len(a) /\ a[j] = x
      BY <1>8, <1>9 DEF Last
    <3> QED
      BY <1>7, <3>1 DEF GroupAt
  <2> QED
    BY <1>9, <2>1, <2>2, <2>3, <2>4
<1>19. g.segments # <<>> /\ Last(g.segments).items = a /\ u = Len(g.segments)
  BY <1>14 DEF Going, Segment
<1>20. Whole(h2, Append(path, c), "GROUP", exact) /\ NoneDead(h2, Append(path, c))
  <2>1. Last(g.segments).items # <<>> /\ j = Len(Last(g.segments).items)
    BY <1>9, <1>19
  <2>2. h2[p] = g /\ \A q \in DOMAIN h : q # p => h2[q] = h[q]
    BY <1>4, <1>14, <1>17 DEF Going
  <2>3. PICK ex : ex = exact
    OBVIOUS
  <2>4. Whole(h, path, "GROUP", ex) /\ Well(g, "GROUP", ex)
    BY <1>6, <1>12, <2>3
  <2>5. u \in Nat /\ j \in Nat /\ g \in Groups
    BY <1>10, <1>12
  <2>6. Opens(h, h2, p, g, c, u, j)
    BY <1>15, <1>16, <1>17, <1>18, <1>19, <2>1, <2>2 DEF Opens
  <2>7. Opens(h, h2, path[Len(path)], g, c, u, j)
    BY <1>5, <2>6
  <2>8. /\ Whole(h2, Append(path, c), "GROUP", ex)
        /\ NoneDead(h, path) => NoneDead(h2, Append(path, c))
    BY <2>4, <2>5, <2>7, WholeGrown
  <2> QED
    BY <1>6, <2>3, <2>8
<1>21. c \in Seq(Nat) /\ Continues(c, p, u, j)
  BY <1>6, <1>10, <1>15, ChildFacts
<1>22. Stacked(stack') /\ Path(stack') = Append(path, c) /\ Doing(stack') = "GROUP"
  <2>1. PICK y : y = State("GROUP", c)
    OBVIOUS
  <2>2. y \in States /\ y.type = "GROUP" /\ ~y.ranged /\ y.group = c
    BY <1>21, <2>1 DEF State, States
  <2>3. stack' = Append(stack, y)
    BY <1>3, <2>1 DEF Push
  <2> QED
    BY <1>1, <1>4, <1>5, <2>2, <2>3, GroupOn
<1>23. Frozen(groups, path, h2)
  <2>1. Typed(groups)
    BY <1>1, <1>4, TokenFinds DEF Whole
  <2>2. Kept(h, h1, p)
    BY <1>4, <1>9, <1>13, WithItemsKept
  <2>3. Held(groups, h1, p)
    BY <1>4, <1>14, <2>2, KeptHeld
  <2>4. Frozen(groups, path, h1)
    BY <1>5, <2>3, HeldFrozen
  <2>5. ASSUME c \in DOMAIN groups
        PROVE  ~OnPath(path, c) /\ groups[c].sum = 0
    <3>1. Len(c) = Len(p) + 2 /\ Len(p) \in Nat
      BY <1>21 DEF Continues
    <3>2. h = CleanedHeap(groups, p)
      BY <1>1 DEF Cleaned, CleanedHeap
    <3>3. groups[c].sum = 0
      BY <1>4, <1>16, <2>1, <2>5, <3>1, <3>2, CleanedAway
    <3>4. ~OnPath(path, c)
      <4>1. Typed(h) /\ Chained(h, path)
        BY <1>6 DEF Whole
      <4>2. \A i \in 1..Len(path) : path[i] \in DOMAIN h
        BY <4>1, PathFacts
      <4> QED
        BY <1>16, <4>2 DEF OnPath
    <3> QED
      BY <3>3, <3>4
  <2>6. \A q \in DOMAIN groups \intersect DOMAIN h2 :
          q = c \/ (q \in DOMAIN groups \intersect DOMAIN h1 /\ h2[q] = h1[q])
    BY <1>14, <1>17
  <2> QED
    BY <2>4, <2>5, <2>6 DEF Frozen
<1>24. outcome' = "open" /\ alphabet' = alphabet /\ exact' \in BOOLEAN
  BY <1>3, <1>4, <1>5 DEF Accept
<1>25. /\ Whole(groups', Path(stack'), Doing(stack'), exact') /\ NoneDead(groups', Path(stack'))
       /\ Frozen(groups, Path(stack), groups')
  BY <1>1, <1>3, <1>20, <1>22, <1>23
<1> QED
  BY <1>22, <1>24, <1>25, StepTaken

-----------------------------------------------------------------------------
(* The states that read.                                                   *)

\* Putting what is there changes nothing.
LEMMA PutsSame ==
  ASSUME NEW h, NEW p, Going(h, p), NEW items, items = Segment(h, p).items
  PROVE  PutsItems(h, h, p, items) /\ SameGroups(items, items)
<1>1. PICK g, s : g = h[p] /\ s = g.segments
  OBVIOUS
<1>2. g \in Groups /\ s \in Seq(Segments) /\ s # <<>> /\ p \in DOMAIN h
  BY <1>1 DEF Going, Groups
<1>3. Last(s) \in Segments /\ Last(s) = s[Len(s)] /\ Len(s) \in 1..Len(s)
  BY <1>2, LastFacts
<1>4. Last(s) = [items |-> items, multiplier |-> Last(s).multiplier]
  BY <1>1, <1>3 DEF Segments, Segment
<1>5. WithLast(s, Last(s)) = s
  BY <1>2, <1>3 DEF WithLast
<1>6. g = [segments |-> s, sum |-> g.sum]
  BY <1>1, <1>2 DEF Groups
<1>7. WithItems(g, items) = g
  BY <1>1, <1>4, <1>5, <1>6 DEF WithItems, Resegment
<1> QED
  BY <1>1, <1>2, <1>7 DEF PutsItems, Puts, SameGroups

\* The items may also fit another role.
LEMMA RoleChanged ==
  ASSUME NEW h, NEW path, NEW role, NEW ex, Whole(h, path, role, ex),
         role \notin Shut, role # "MULTIPLIER", NEW p, p = path[Len(path)],
         NEW role2, role2 \notin Shut, role2 # "MULTIPLIER", ItemsFit(Segment(h, p).items, role2)
  PROVE  Whole(h, path, role2, ex) /\ Kept(h, h, p)
<1>1. PICK items : items = Segment(h, p).items
  OBVIOUS
<1>2. Going(h, p)
  BY GroupGoing
<1>3. items \in Seq(Items)
  BY <1>1, <1>2, LastSegment DEF Going, Segment
<1>4. PutsItems(h, h, p, items) /\ SameGroups(Segment(h, p).items, items)
  BY <1>1, <1>2, PutsSame
<1>5. ItemsFit(items, role2)
  BY <1>1
<1> QED
  BY <1>3, <1>4, <1>5, ItemsPut

LEMMA ReaderFinds ==
  ASSUME TInv, NEW type, In(type), type # "GROUP",
         NEW role, role = Doing(stack), NEW items, items = Segment(groups, Here).items
  PROVE  /\ outcome = "open" /\ role # "GROUP" /\ role \notin Shut
         /\ Stacked(stack) /\ exact \in BOOLEAN
         /\ Whole(groups, Path(stack), role, exact) /\ NoneDead(groups, Path(stack))
         /\ Here = Path(stack)[Len(Path(stack))] /\ OnPath(Path(stack), Here)
         /\ Going(groups, Here) /\ Well(groups[Here], role, exact)
         /\ items \in Seq(Items) /\ ItemsFit(items, role) /\ Item = Last(items)
         /\ type \in {"SET", "SET_RANGE"} => role \in {"SET", "SET_RANGE"}
         /\ type = "SET_RANGE" => role = "SET_RANGE"
         /\ type \notin {"SET", "SET_RANGE"} => role = type
<1>1. outcome = "open" /\ Top.type = type /\ Stacked(stack)
  BY DEF In, TInv
<1>2. Top = stack[Len(stack)]
  BY DEF Top
<1>3. role # "GROUP" /\ role \notin Shut
  BY <1>1, <1>2, StackFacts
<1>4. Whole(groups, Path(stack), role, exact) /\ NoneDead(groups, Path(stack))
  BY <1>1, <1>3, TokenFinds
<1>5. /\ Here = Path(stack)[Len(Path(stack))] /\ OnPath(Path(stack), Here)
      /\ exact \in BOOLEAN
  BY <1>1, TokenFinds
<1>6. Going(groups, Here) /\ Well(groups[Here], role, exact)
  BY <1>3, <1>4, <1>5, GroupGoing
<1>7. items \in Seq(Items)
  BY <1>6, LastSegment DEF Going, Segment
<1>8. ItemsFit(items, role)
  BY <1>6 DEF Well, Ahead, Going, Segment
<1>9. Item = Last(items)
  BY DEF Item, LastItem
<1>10. role = IF Top.ranged THEN "SET_RANGE" ELSE type
  BY <1>1, <1>2 DEF Doing
<1>11. Top.ranged => type \in {"SET", "SET_RANGE"}
  BY <1>1, <1>2 DEF Stacked
<1> QED
  BY <1>1, <1>3, <1>4, <1>5, <1>6, <1>7, <1>8, <1>9, <1>10, <1>11

LEMMA ReaderStays ==
  ASSUME TInv, NEW type, In(type), type # "GROUP", Accept, UNCHANGED stack,
         exact' \in BOOLEAN, Whole(groups', Path(stack), Doing(stack), exact'),
         NoneDead(groups', Path(stack)), Kept(groups, groups', Here)
  PROVE  Stepped
<1>1. outcome = "open" /\ Stacked(stack) /\ OnPath(Path(stack), Here)
  BY ReaderFinds
<1>2. Frozen(groups, Path(stack), groups')
  BY <1>1, HeldFrozen
<1>3. outcome' = "open" /\ alphabet' = alphabet /\ stack' = stack
  BY <1>1 DEF Accept
<1> QED
  BY <1>1, <1>2, <1>3, StepTaken

LEMMA ReaderLeaves ==
  ASSUME TInv, NEW type, In(type), type # "GROUP", Accept, Leave,
         exact' \in BOOLEAN, Whole(groups', Path(stack), "GROUP", exact'),
         NoneDead(groups', Path(stack)), Kept(groups, groups', Here)
  PROVE  Stepped
<1>1. /\ outcome = "open" /\ Stacked(stack) /\ OnPath(Path(stack), Here)
      /\ Doing(stack) # "GROUP"
  BY ReaderFinds
<1>2. Frozen(groups, Path(stack), groups')
  BY <1>1, HeldFrozen
<1>3. outcome' = "open" /\ alphabet' = alphabet
  BY <1>1 DEF Accept
<1>4. Stacked(stack') /\ Path(stack') = Path(stack) /\ Doing(stack') = "GROUP"
  BY <1>1, ReaderOff DEF Leave
<1> QED
  BY <1>2, <1>3, <1>4, StepTaken

LEMMA ReaderTurns ==
  ASSUME TInv, NEW type, In(type), type # "GROUP", Accept,
         NEW x \in States, x.type # "GROUP", x.group = Here,
         x.ranged => x.type \in {"SET", "SET_RANGE"},
         stack' = [stack EXCEPT ![Len(stack)] = x],
         NEW role2, role2 = IF x.ranged THEN "SET_RANGE" ELSE x.type,
         exact' \in BOOLEAN, Whole(groups', Path(stack), role2, exact'),
         NoneDead(groups', Path(stack)), Kept(groups, groups', Here)
  PROVE  Stepped
<1>1. /\ outcome = "open" /\ Stacked(stack) /\ OnPath(Path(stack), Here)
      /\ Doing(stack) # "GROUP"
  BY ReaderFinds
<1>2. Frozen(groups, Path(stack), groups')
  BY <1>1, HeldFrozen
<1>3. outcome' = "open" /\ alphabet' = alphabet
  BY <1>1 DEF Accept
<1>4. x.group = stack[Len(stack)].group
  BY DEF Here, Top
<1>5. Stacked(stack') /\ Path(stack') = Path(stack) /\ Doing(stack') = role2
  BY <1>1, <1>4, ReaderChanged
<1> QED
  BY <1>2, <1>3, <1>5, StepTaken

\* The item that is read is updated.
LEMMA ItemRead ==
  ASSUME TInv, NEW type, In(type), type \notin {"GROUP", "MULTIPLIER"},
         NEW items, items = Segment(groups, Here).items, items # <<>>,
         NEW x \in Items, x.kind = Item.kind, UpdateItem(x),
         NEW role2, role2 \notin Shut, role2 # "MULTIPLIER",
         ItemsFit(Append(Front(items), x), role2)
  PROVE  /\ Whole(groups', Path(stack), role2, exact) /\ NoneDead(groups', Path(stack))
         /\ Kept(groups, groups', Here)
<1>1. PICK role, p, ex : role = Doing(stack) /\ p = Here /\ ex = exact
  OBVIOUS
<1>2. /\ role \notin Shut /\ Whole(groups, Path(stack), role, ex)
      /\ NoneDead(groups, Path(stack)) /\ p = Path(stack)[Len(Path(stack))]
      /\ Item = Last(items)
  BY <1>1, ReaderFinds
<1>3. role # "MULTIPLIER"
  <2>1. type \in {"SET", "SET_RANGE"} => role \in {"SET", "SET_RANGE"}
    BY <1>1, ReaderFinds
  <2>2. type \notin {"SET", "SET_RANGE"} => role = type
    BY <1>1, ReaderFinds
  <2> QED
    BY <2>1, <2>2
<1>4. items = Segment(groups, p).items /\ x.kind = Last(items).kind
  BY <1>1, <1>2
<1>5. groups' = SetLastItem(groups, p, x)
  BY <1>1 DEF UpdateItem
<1>6. /\ Whole(groups', Path(stack), role2, ex)
      /\ NoneDead(groups, Path(stack)) => NoneDead(groups', Path(stack))
      /\ Kept(groups, groups', p)
  BY <1>2, <1>3, <1>4, <1>5, ItemUpdated
<1> QED
  BY <1>1, <1>2, <1>6

\* Becoming another type, which Become does to the top state.
LEMMA TopFacts ==
  ASSUME TInv, NEW type, In(type), type # "GROUP",
         NEW type2 \in {"SET", "SET_RANGE", "REPEAT_RANGE", "SPECIAL_NAME"},
         NEW x, x = [stack[Len(stack)] EXCEPT !.type = type2]
  PROVE  /\ x \in States /\ x.type = type2 /\ x.ranged = Top.ranged
         /\ x.type # "GROUP" /\ x.group = Here
         /\ Top.ranged => type \in {"SET", "SET_RANGE"}
         /\ Become(type2) => stack' = [stack EXCEPT ![Len(stack)] = x]
<1>1. Stacked(stack) /\ Top = stack[Len(stack)] /\ Top.type = type /\ Here = Top.group
  BY DEF TInv, In, Top, Here
<1>2. Top \in States
  BY <1>1, StackFacts
<1>3. Top.ranged => type \in {"SET", "SET_RANGE"}
  BY <1>1 DEF Stacked
<1>4. x \in States /\ x.type = type2 /\ x.ranged = Top.ranged /\ x.group = Here
  BY <1>1, <1>2 DEF States
<1>5. Become(type2) => stack' = [stack EXCEPT ![Len(stack)] = x]
  BY DEF Become
<1> QED
  BY <1>3, <1>4, <1>5

LEMMA ExtendRangeStep ==
  ASSUME TInv, NEW t \in Nat, ExtendRange(t)
  PROVE  Stepped
<1>1. In("SET") /\ Accept /\ Top.ranged /\ Become("SET_RANGE") /\ UNCHANGED <<groups, exact>>
  BY DEF ExtendRange
<1>2. PICK x, path, ex, type : /\ x = [stack[Len(stack)] EXCEPT !.type = "SET_RANGE"]
                         /\ path = Path(stack) /\ ex = exact /\ type = "SET"
  OBVIOUS
<1>3. /\ x \in States /\ x.type = "SET_RANGE" /\ x.ranged /\ x.group = Here
      /\ stack' = [stack EXCEPT ![Len(stack)] = x]
  BY <1>1, <1>2, TopFacts, ZenonT(30)
<1>4. /\ Whole(groups, path, Doing(stack), ex) /\ NoneDead(groups, path) /\ ex \in BOOLEAN
      /\ Here = path[Len(path)] /\ Doing(stack) \in {"SET", "SET_RANGE"}
      /\ Doing(stack) \notin Shut
  BY <1>1, <1>2, ReaderFinds
<1>5. Doing(stack) = "SET_RANGE"
  BY <1>1 DEF Doing, Top
<1>6. Whole(groups, path, "SET_RANGE", ex)
  BY <1>4, <1>5
<1>7. Going(groups, Here)
  BY <1>1, ReaderFinds
<1>8. Kept(groups, groups, Here)
  BY <1>7 DEF Kept, Going, Groups
<1>9. Whole(groups', Path(stack), "SET_RANGE", exact') /\ NoneDead(groups', Path(stack))
      /\ Kept(groups, groups', Here) /\ exact' \in BOOLEAN
  BY <1>1, <1>2, <1>4, <1>6, <1>8
<1> QED
  BY <1>1, <1>2, <1>3, <1>9, ReaderTurns

\* The set that is being read.
LEMMA SetFinds ==
  ASSUME TInv, NEW type \in {"SET", "SET_RANGE"}, In(type),
         NEW items, items = Segment(groups, Here).items
  PROVE  /\ items \in Seq(Items) /\ items # <<>> /\ AllSound(Front(items))
         /\ Item \in Items /\ Item = Last(items) /\ Reading(Item, Doing(stack))
         /\ Item.kind = "SET" /\ Item.ranges \in Seq(Ranges)
         /\ \A i \in 1..Len(Item.ranges) : Item.ranges[i].start <= Item.ranges[i].end
         /\ type = "SET_RANGE" => Item.ranges # <<>>
<1>1. PICK role : role = Doing(stack)
  OBVIOUS
<1>2. /\ items \in Seq(Items) /\ ItemsFit(items, role) /\ Item = Last(items)
      /\ role \in {"SET", "SET_RANGE"} /\ (type = "SET_RANGE" => role = "SET_RANGE")
  BY <1>1, ReaderFinds
<1>3. items # <<>> /\ AllSound(Front(items)) /\ Reading(Item, role)
  BY <1>2, FitFacts
<1>4. Item \in Items
  BY <1>2, <1>3, LastFacts
<1>5. Item.ranges \in Seq(Ranges)
  BY <1>4 DEF Items
<1> QED
  BY <1>1, <1>2, <1>3, <1>4, <1>5 DEF Reading

LEMMA AddRangeStep ==
  ASSUME TInv, NEW t \in Nat, AddRange(t)
  PROVE  Stepped
<1>1. PICK items, item, c, range, ranges, x :
        /\ items = Segment(groups, Here).items /\ item = Item /\ c = Unescaped(t)
        /\ range = [start |-> c, end |-> c] /\ ranges = Append(item.ranges, range)
        /\ x = [item EXCEPT !.ranges = ranges]
  OBVIOUS
<1>2. /\ In("SET") /\ Accept /\ exact' = exact
      /\ stack' = [stack EXCEPT ![Len(stack)].ranged = TRUE]
  BY DEF AddRange
<1>3. UpdateItem(x)
  BY <1>1 DEF AddRange
<1>4. /\ items \in Seq(Items) /\ items # <<>> /\ AllSound(Front(items)) /\ item = Last(items)
      /\ item \in Items /\ item.kind = "SET" /\ item.ranges \in Seq(Ranges)
      /\ \A i \in 1..Len(item.ranges) : item.ranges[i].start <= item.ranges[i].end
  BY <1>1, <1>2, SetFinds
<1>5. c \in Nat
  BY <1>1, TokenNumbers
<1>6. range \in Ranges /\ range.start <= range.end
  BY <1>1, <1>5 DEF Ranges
<1>7. PICK n : n = Len(item.ranges)
  OBVIOUS
<1>8. /\ ranges \in Seq(Ranges) /\ ranges # <<>> /\ n \in Nat /\ Len(ranges) = n + 1
      /\ Last(ranges) = range /\ \A i \in 1..n : ranges[i] = item.ranges[i]
  BY <1>1, <1>4, <1>6, <1>7, AppendFacts
<1>9. x \in Items /\ x.kind = "SET" /\ x.ranges = ranges
  BY <1>1, <1>4, <1>8 DEF Items
<1>10. Reading(x, "SET_RANGE")
  <2>1. \A i \in 1..n+1 : i \in 1..n \/ i = n + 1
    BY <1>8
  <2>2. ranges[n + 1] = range
    BY <1>8 DEF Last
  <2>3. \A i \in 1..n+1 : ranges[i].start <= ranges[i].end
    BY <1>4, <1>6, <1>7, <1>8, <2>1, <2>2
  <2> QED
    BY <1>8, <1>9, <2>3 DEF Reading
<1>11. ItemsFit(Append(Front(items), x), "SET_RANGE")
  <2>1. PICK new : new = Append(Front(items), x)
    OBVIOUS
  <2>2. new # <<>> /\ Front(new) = Front(items) /\ Last(new) = x
    BY <1>4, <1>9, <2>1, ItemReplaced
  <2> QED
    BY <1>4, <1>10, <2>1, <2>2, FitFacts
<1>12. /\ Whole(groups', Path(stack), "SET_RANGE", exact) /\ NoneDead(groups', Path(stack))
       /\ Kept(groups, groups', Here)
  <2>1. "SET_RANGE" \notin Shut /\ "SET_RANGE" # "MULTIPLIER"
    BY DEF Shut
  <2>2. x.kind = Item.kind
    BY <1>1, <1>4, <1>9
  <2> QED
    BY <1>1, <1>2, <1>3, <1>4, <1>9, <1>11, <2>1, <2>2, ItemRead
<1>13. PICK y : y = [stack[Len(stack)] EXCEPT !.ranged = TRUE]
  OBVIOUS
<1>14. y \in States /\ y.type = "SET" /\ y.ranged /\ y.group = Here
  <2>1. Stacked(stack) /\ Top = stack[Len(stack)] /\ Top.type = "SET" /\ Here = Top.group
    BY <1>2 DEF TInv, In, Top, Here
  <2>2. Top \in States
    BY <2>1, StackFacts
  <2> QED
    BY <1>13, <2>1, <2>2 DEF States
<1>15. stack' = [stack EXCEPT ![Len(stack)] = y]
  BY <1>2, <1>13
<1>16. exact \in BOOLEAN
  BY DEF TInv
<1> QED
  BY <1>2, <1>12, <1>14, <1>15, <1>16, ReaderTurns

LEMMA EndRangeStep ==
  ASSUME TInv, NEW t \in Nat, EndRange(t)
  PROVE  Stepped
<1>1. PICK items, item, n, ranges, x :
        /\ items = Segment(groups, Here).items /\ item = Item /\ n = Len(item.ranges)
        /\ ranges = [item.ranges EXCEPT ![n].end = t]
        /\ x = [item EXCEPT !.ranges = ranges]
  OBVIOUS
<1>2. /\ In("SET_RANGE") /\ Accept /\ exact' = exact /\ Become("SET")
      /\ t >= LastRange.start
  BY DEF EndRange
<1>3. UpdateItem(x)
  BY <1>1 DEF EndRange
<1>4. /\ items \in Seq(Items) /\ items # <<>> /\ AllSound(Front(items)) /\ item = Last(items)
      /\ item \in Items /\ item.kind = "SET" /\ item.ranges \in Seq(Ranges)
      /\ \A i \in 1..Len(item.ranges) : item.ranges[i].start <= item.ranges[i].end
      /\ item.ranges # <<>>
  BY <1>1, <1>2, SetFinds
<1>5. n \in Nat /\ n >= 1 /\ Last(item.ranges) = item.ranges[n] /\ Last(item.ranges) \in Ranges
  BY <1>1, <1>4, LastFacts
<1>6. PICK range : range = [item.ranges[n] EXCEPT !.end = t]
  OBVIOUS
<1>7. range \in Ranges /\ range.start <= range.end
  <2>1. item.ranges[n].start <= t
    BY <1>1, <1>2, <1>5 DEF LastRange, Ranges
  <2> QED
    BY <1>5, <1>6, <2>1 DEF Ranges
<1>8. ranges = [item.ranges EXCEPT ![n] = range]
  BY <1>1, <1>6
<1>9. /\ ranges \in Seq(Ranges) /\ Len(ranges) = n /\ ranges # <<>> /\ ranges[n] = range
      /\ \A i \in 1..n : i # n => ranges[i] = item.ranges[i]
  <2>1. PICK old : old = item.ranges
    OBVIOUS
  <2>2. old \in Seq(Ranges) /\ old # <<>> /\ Len(old) = n /\ range \in Ranges
    BY <1>1, <1>4, <1>7, <2>1
  <2>3. ranges = WithLast(old, range)
    BY <1>8, <2>1, <2>2 DEF WithLast
  <2>4. ranges \in Seq(Ranges) /\ ranges # <<>> /\ Len(ranges) = n /\ ranges[n] = range
    BY <2>2, <2>3, WithLastFacts
  <2>5. \A i \in 1..n : i # n => ranges[i] = old[i]
    BY <1>8, <2>1, <2>2
  <2> QED
    BY <2>1, <2>4, <2>5
<1>10. x \in Items /\ x.kind = "SET" /\ x.ranges = ranges
  BY <1>1, <1>4, <1>9 DEF Items
<1>11. Reading(x, "SET_RANGE") /\ Reading(x, "SET")
  <2>1. \A i \in 1..n : ranges[i].start <= ranges[i].end
    BY <1>1, <1>4, <1>7, <1>9
  <2> QED
    BY <1>9, <1>10, <2>1 DEF Reading
<1>12. PICK y : y = [stack[Len(stack)] EXCEPT !.type = "SET"]
  OBVIOUS
<1>13. /\ y \in States /\ y.type = "SET" /\ y.group = Here
       /\ stack' = [stack EXCEPT ![Len(stack)] = y]
  BY <1>2, <1>12, TopFacts, ZenonT(30)
<1>14. PICK role2 \in {"SET", "SET_RANGE"} : role2 = IF y.ranged THEN "SET_RANGE" ELSE y.type
  BY <1>13
<1>15. ItemsFit(Append(Front(items), x), role2)
  <2>1. PICK new : new = Append(Front(items), x)
    OBVIOUS
  <2>2. new # <<>> /\ Front(new) = Front(items) /\ Last(new) = x
    BY <1>4, <1>10, <2>1, ItemReplaced
  <2>3. Reading(Last(new), role2)
    BY <1>11, <1>14, <2>2
  <2> QED
    BY <1>4, <1>14, <2>1, <2>2, <2>3, FitFacts
<1>16. /\ Whole(groups', Path(stack), role2, exact) /\ NoneDead(groups', Path(stack))
       /\ Kept(groups, groups', Here)
  <2>1. role2 \notin Shut /\ role2 # "MULTIPLIER"
    BY <1>14 DEF Shut
  <2>2. x.kind = Item.kind
    BY <1>1, <1>4, <1>10
  <2> QED
    BY <1>1, <1>2, <1>3, <1>4, <1>10, <1>15, <2>1, <2>2, ItemRead
<1>17. exact \in BOOLEAN
  BY DEF TInv
<1> QED
  BY <1>2, <1>13, <1>14, <1>16, <1>17, ReaderTurns

\* Running sums exist.
Runs(T, n, S) == T[0] = 0 /\ \A i \in 1..n : T[i] = T[i-1] + S[i]

LEMMA RunningSums ==
  ASSUME NEW n \in Nat, NEW S \in [1..n -> Nat]
  PROVE  \E T \in [0..n -> Nat] : Runs(T, n, S)
<1> DEFINE N == {m \in Nat : m <= n => \E f \in [0..m -> Nat] : Runs(f, m, S)}
<1>1. 0 \in N
  <2>1. PICK f : f = [i \in 0..0 |-> 0]
    OBVIOUS
  <2>2. f \in [0..0 -> Nat] /\ Runs(f, 0, S)
    BY <2>1 DEF Runs
  <2> QED
    BY <2>2
<1>2. ASSUME NEW m \in Nat, m \in N
      PROVE  m + 1 \in N
  <2>1. PICK k \in Nat : k = m + 1
    OBVIOUS
  <2> SUFFICES ASSUME k <= n
               PROVE  \E f \in [0..k -> Nat] : Runs(f, k, S)
    BY <2>1
  <2>2. m <= n
    BY <2>1
  <2>3. PICK f \in [0..m -> Nat] : Runs(f, m, S)
    BY <1>2, <2>2
  <2>4. PICK g : g = [i \in 0..k |-> IF i <= m THEN f[i] ELSE f[m] + S[k]]
    OBVIOUS
  <2>5. k \in 1..n /\ m \in 0..m
    BY <2>1
  <2>6. f[m] + S[k] \in Nat
    <3>1. f[m] \in Nat /\ S[k] \in Nat
      BY <2>3, <2>5
    <3> QED
      BY <3>1
  <2>7. g \in [0..k -> Nat]
    <3>1. \A i \in 0..k : (IF i <= m THEN f[i] ELSE f[m] + S[k]) \in Nat
      BY <2>3, <2>6
    <3> QED
      BY <2>4, <3>1
  <2>8. g[0] = 0
    BY <2>1, <2>3, <2>4 DEF Runs
  <2>9. ASSUME NEW i \in 1..k
        PROVE  g[i] = g[i-1] + S[i]
    <3>1. CASE i = k
      BY <2>1, <2>4, <3>1
    <3>2. CASE i # k
      <4>1. i \in 1..m /\ i - 1 \in 0..m /\ i \in 0..m
        BY <2>1, <3>2
      <4>2. f[i] = f[i-1] + S[i]
        BY <2>3, <4>1 DEF Runs
      <4>3. g[i] = f[i] /\ g[i-1] = f[i-1]
        BY <2>1, <2>4, <4>1
      <4> QED
        BY <4>2, <4>3
    <3> QED
      BY <3>1, <3>2
  <2> QED
    BY <2>7, <2>8, <2>9 DEF Runs
<1> HIDE DEF N
<1>3. \A m \in Nat : m \in N
  BY <1>1, <1>2, SetInduction
<1>4. n \in N
  BY <1>3
<1> QED
  BY <1>4 DEF N

Totals(ranges) ==
  CHOOSE f : f = [i \in 0..Len(ranges) |-> IF i = 0 THEN 0 ELSE f[i-1] + Size(ranges[i])]

ChoicesOf(ranges) == [i \in 1..Len(ranges) |-> Sums(ranges)[i] % Word]

Ordered(ranges) == \A i \in 1..Len(ranges) : ranges[i].start <= ranges[i].end

\* What passgen_parse_set stores when it closes a set.
LEMMA ChoicesFound ==
  ASSUME NEW ranges \in Seq(Ranges), Ordered(ranges),
         NEW choices, choices = ChoicesOf(ranges)
  PROVE  /\ choices \in Seq(Nat) /\ Len(choices) = Len(ranges)
         /\ Countable(ranges) => Rises(choices)
<1>0. PICK total : total = Sums(ranges)
  OBVIOUS
<1>01. total = Totals(ranges)
  BY <1>0, Zenon DEF Sums, Totals
<1>02. total = CHOOSE f : f = [i \in 0..Len(ranges) |->
                                 IF i = 0 THEN 0 ELSE f[i-1] + Size(ranges[i])]
  BY <1>01, Zenon DEF Totals
<1>1. PICK n, S : n = Len(ranges) /\ S = [i \in 1..n |-> Size(ranges[i])]
  <2>1. PICK n : n = Len(ranges)
    OBVIOUS
  <2> QED
    BY <2>1
<1>2. n \in Nat
  BY <1>1
<1>3. \A i \in 1..n : S[i] = Size(ranges[i]) /\ S[i] \in Nat /\ S[i] >= 1
  <2> SUFFICES ASSUME NEW i \in 1..n
               PROVE  Size(ranges[i]) \in Nat /\ Size(ranges[i]) >= 1
    BY <1>1
  <2>1. PICK range : range = ranges[i]
    OBVIOUS
  <2>2. range \in Ranges /\ range.start <= range.end
    <3>1. i \in 1..Len(ranges)
      BY <1>1
    <3> QED
      BY <2>1, <3>1 DEF Ordered
  <2>3. Size(range) \in Nat /\ Size(range) >= 1
    BY <2>2 DEF Size, Ranges
  <2> QED
    BY <2>1, <2>3
<1>4. PICK T \in [0..n -> Nat] : Runs(T, n, S)
  <2>1. S \in [1..n -> Nat]
    BY <1>1, <1>3
  <2> QED
    BY <1>2, <2>1, RunningSums
<1>5. T = [i \in 0..n |-> IF i = 0 THEN 0 ELSE T[i-1] + Size(ranges[i])]
  <2>1. T = [i \in 0..n |-> T[i]]
    OBVIOUS
  <2>2. \A i \in 0..n : T[i] = IF i = 0 THEN 0 ELSE T[i-1] + Size(ranges[i])
    <3>1. \A i \in 1..n : T[i] = T[i-1] + Size(ranges[i])
      BY <1>3, <1>4 DEF Runs
    <3>2. T[0] = 0
      BY <1>4 DEF Runs
    <3>3. \A i \in 0..n : i = 0 \/ (i # 0 /\ i \in 1..n)
      BY <1>2
    <3> QED
      BY <3>1, <3>2, <3>3
  <2> QED
    BY <2>1, <2>2
<1>6. total = [i \in 0..n |-> IF i = 0 THEN 0 ELSE total[i-1] + Size(ranges[i])]
  BY <1>02, <1>1, <1>5
<1>7. \A i \in 1..n : total[i] = total[i-1] + S[i]
  <2> SUFFICES ASSUME NEW i \in 1..n
               PROVE  total[i] = total[i-1] + S[i]
    OBVIOUS
  <2>1. i \in 0..n /\ i # 0
    BY <1>2
  <2> QED
    BY <1>3, <1>6, <2>1
<1>8. total[0] = 0
  <2>1. 0 \in 0..n
    BY <1>2
  <2> QED
    BY <1>6, <2>1
<1>9. \A i \in 0..n : total[i] \in Nat
  <2> DEFINE N == {m \in Nat : m <= n => total[m] \in Nat}
  <2>1. 0 \in N
    BY <1>8
  <2>2. ASSUME NEW m \in Nat, m \in N
        PROVE  m + 1 \in N
    <3> SUFFICES ASSUME m + 1 <= n
                 PROVE  total[m + 1] \in Nat
      OBVIOUS
    <3>1. PICK k : k = m + 1
      OBVIOUS
    <3>2. k \in 1..n /\ k - 1 = m
      BY <1>2, <3>1
    <3>3. total[k] = total[m] + S[k]
      <4>1. total[k] = total[k-1] + S[k]
        BY <1>7, <3>2
      <4> QED
        BY <3>2, <4>1
    <3>4. total[m] \in Nat
      <4>1. m <= n
        BY <1>2, <3>2
      <4> QED
        BY <2>2, <4>1
    <3>5. S[k] \in Nat
      BY <1>3, <3>2
    <3> QED
      BY <3>1, <3>3, <3>4, <3>5
  <2> HIDE DEF N
  <2>3. \A m \in Nat : m \in N
    BY <2>1, <2>2, SetInduction
  <2> QED
    BY <1>2, <2>3 DEF N
<1>10. choices = [i \in 1..n |-> total[i] % Word]
  BY <1>0, <1>1 DEF ChoicesOf
<1>11. choices \in Seq(Nat) /\ Len(choices) = n
  <2>1. \A i \in 1..n : total[i] % Word \in Nat
    <3> SUFFICES ASSUME NEW i \in 1..n
                 PROVE  total[i] % Word \in Nat
      OBVIOUS
    <3>1. PICK k \in Nat : k = total[i]
      BY <1>2, <1>9
    <3>2. k % Word \in Nat
      BY <3>1, WordAssumption
    <3> QED
      BY <3>1, <3>2
  <2>2. choices \in [1..n -> Nat]
    BY <1>2, <1>10, <2>1
  <2> QED
    BY <1>2, <2>2
<1>12. \A i \in 0..n : total[i] <= total[n]
  <2> DEFINE N == {m \in Nat : m <= n => total[n - m] <= total[n]}
  <2>1. 0 \in N
    <3>1. total[n] \in Nat /\ n - 0 = n
      BY <1>2, <1>9
    <3> QED
      BY <3>1
  <2>2. ASSUME NEW m \in Nat, m \in N
        PROVE  m + 1 \in N
    <3> SUFFICES ASSUME m + 1 <= n
                 PROVE  total[n - (m + 1)] <= total[n]
      OBVIOUS
    <3>1. PICK k, l : k = n - m /\ l = n - (m + 1)
      OBVIOUS
    <3>2. k \in 1..n /\ k \in 0..n /\ l \in 0..n /\ k - 1 = l /\ m <= n
      BY <1>2, <3>1
    <3>3. total[k] = total[l] + S[k]
      <4>1. total[k] = total[k-1] + S[k]
        BY <1>7, <3>2
      <4> QED
        BY <3>2, <4>1
    <3>4. PICK x, y, z \in Nat : x = total[k] /\ y = total[l] /\ z = total[n]
      <4>1. n \in 0..n
        BY <1>2
      <4> QED
        BY <1>9, <3>2, <4>1
    <3>5. PICK d \in Nat : d = S[k]
      BY <1>3, <3>2
    <3>6. x <= z
      BY <2>2, <3>1, <3>2, <3>4
    <3>7. x = y + d
      BY <3>3, <3>4, <3>5
    <3>8. y <= z
      BY <3>4, <3>5, <3>6, <3>7
    <3> QED
      BY <3>1, <3>4, <3>8
  <2> HIDE DEF N
  <2>3. \A m \in Nat : m \in N
    BY <2>1, <2>2, SetInduction
  <2> SUFFICES ASSUME NEW i \in 0..n
               PROVE  total[i] <= total[n]
    OBVIOUS
  <2>4. PICK m \in Nat : m = n - i
    BY <1>2
  <2>5. m <= n /\ n - m = i
    BY <1>2, <2>4
  <2> QED
    BY <2>3, <2>5 DEF N
<1>13. ASSUME Countable(ranges)
       PROVE  \A i \in 1..n : choices[i] = total[i]
  <2> SUFFICES ASSUME NEW i \in 1..n
               PROVE  total[i] % Word = total[i]
    BY <1>10
  <2>1. i \in 0..n /\ n \in 0..n
    BY <1>2
  <2>2. PICK x, y \in Nat : x = total[i] /\ y = total[n]
    BY <1>9, <2>1
  <2>3. y < Word
    BY <1>0, <1>1, <1>13, <2>2 DEF Countable
  <2>4. x <= y
    BY <1>12, <2>1, <2>2
  <2>5. x \in Numbers
    BY <2>2, <2>3, <2>4, WordAssumption DEF Numbers
  <2>6. x % Word = x
    BY <2>5, NumberFacts
  <2> QED
    BY <2>2, <2>6
<1>14. ASSUME Countable(ranges), NEW i \in 1..n
       PROVE  choices[i] - (IF i = 1 THEN 0 ELSE choices[i-1]) > 0
  <2>1. choices[i] = total[i] /\ total[i] = total[i-1] + S[i] /\ S[i] \in Nat /\ S[i] >= 1
    BY <1>3, <1>7, <1>13, <1>14
  <2>2. i - 1 \in 0..n
    BY <1>2
  <2>3. total[i-1] \in Nat
    BY <1>9, <2>2
  <2>4. CASE i = 1
    BY <1>8, <2>1, <2>4
  <2>5. CASE i # 1
    <3>1. i - 1 \in 1..n
      BY <1>2, <2>5
    <3>2. choices[i-1] = total[i-1]
      BY <1>13, <1>14, <3>1
    <3>3. choices[i] - choices[i-1] > 0
      BY <2>1, <2>3, <3>2
    <3> QED
      BY <2>5, <3>3
  <2> QED
    BY <2>4, <2>5
<1>15. Countable(ranges) => Rises(choices)
  BY <1>11, <1>14 DEF Rises
<1> QED
  BY <1>1, <1>11, <1>15

LEMMA CloseSetStep ==
  ASSUME TInv, NEW t \in Nat, CloseSet(t)
  PROVE  Stepped
<1>0. PICK item : item = Item
  OBVIOUS
<1>1. PICK items, ranges :
        items = Segment(groups, Here).items /\ item = Item /\ ranges = item.ranges
  BY <1>0
<1>2. In("SET") /\ Accept /\ exact' = exact /\ Leave
  BY DEF CloseSet
<1>3. PICK choices : choices = ChoicesOf(ranges)
  OBVIOUS
<1>5. PICK x : x = [item EXCEPT !.choices = choices]
  OBVIOUS
<1>6. UpdateItem(x)
  BY <1>1, <1>3, <1>5 DEF CloseSet, ChoicesOf
<1>7. /\ items \in Seq(Items) /\ items # <<>> /\ AllSound(Front(items)) /\ item = Last(items)
      /\ item \in Items /\ item.kind = "SET" /\ ranges \in Seq(Ranges)
      /\ Ordered(ranges)
  BY <1>1, <1>2, SetFinds DEF Ordered
<1>8. choices \in Seq(Nat) /\ Len(choices) = Len(ranges) /\ (Countable(ranges) => Rises(choices))
  BY <1>3, <1>7, ChoicesFound
<1>9. x \in Items /\ x.kind = "SET" /\ x.ranges = ranges /\ x.choices = choices
  BY <1>1, <1>5, <1>7, <1>8 DEF Items
<1>10. Sound(x)
  BY <1>8, <1>9 DEF Sound
<1>11. ItemsFit(Append(Front(items), x), "GROUP")
  <2>1. PICK new : new = Append(Front(items), x)
    OBVIOUS
  <2>2. AllSound(new)
    BY <1>7, <1>9, <1>10, <2>1, ItemReplaced
  <2> QED
    BY <2>1, <2>2, FitFacts
<1>12. /\ Whole(groups', Path(stack), "GROUP", exact) /\ NoneDead(groups', Path(stack))
       /\ Kept(groups, groups', Here)
  <2>1. "GROUP" \notin Shut /\ "GROUP" # "MULTIPLIER"
    BY DEF Shut
  <2>2. x.kind = Item.kind
    BY <1>1, <1>7, <1>9
  <2> QED
    BY <1>1, <1>2, <1>6, <1>7, <1>9, <1>11, <2>1, <2>2, ItemRead
<1>13. exact \in BOOLEAN
  BY DEF TInv
<1> QED
  BY <1>2, <1>12, <1>13, ReaderLeaves

(* The tokens of a multiplier.                                             *)

LEMMA MultiplierFinds ==
  ASSUME TInv, In("MULTIPLIER"), NEW g, g = groups[Here]
  PROVE  /\ Doing(stack) = "MULTIPLIER" /\ Going(groups, Here)
         /\ Whole(groups, Path(stack), "MULTIPLIER", exact) /\ NoneDead(groups, Path(stack))
         /\ Here = Path(stack)[Len(Path(stack))]
         /\ g \in Groups /\ g.segments # <<>> /\ Well(g, "MULTIPLIER", exact)
         /\ Segment(groups, Here) = Last(g.segments) /\ exact \in BOOLEAN
<1>1. PICK role, type, items : role = Doing(stack) /\ type = "MULTIPLIER"
                                /\ items = Segment(groups, Here).items
  OBVIOUS
<1>2. /\ Whole(groups, Path(stack), role, exact) /\ NoneDead(groups, Path(stack))
      /\ Going(groups, Here) /\ Well(groups[Here], role, exact) /\ role = type
      /\ Here = Path(stack)[Len(Path(stack))] /\ exact \in BOOLEAN
  BY <1>1, ReaderFinds
<1>3. g \in Groups /\ g.segments # <<>> /\ Segment(groups, Here) = Last(g.segments)
  BY <1>2 DEF Going, Segment
<1> QED
  BY <1>1, <1>2, <1>3

\* Another group where a multiplier is read, with the same segments behind.
LEMMA MultiplierPut ==
  ASSUME TInv, In("MULTIPLIER"), NEW g, g = groups[Here],
         NEW r \in Groups, SameKids(g, r), NEW role2, Well(r, role2, exact),
         Len(r.segments) = Len(g.segments),
         \A s \in 1..Len(g.segments) - 1 : r.segments[s] = g.segments[s],
         Puts(groups, groups', Here, r)
  PROVE  Whole(groups', Path(stack), role2, exact) /\ NoneDead(groups', Path(stack))
         /\ Kept(groups, groups', Here)
<1>1. PICK path, p, h, h2, ex : /\ path = Path(stack) /\ p = Here /\ h = groups
                                /\ h2 = groups' /\ ex = exact
  OBVIOUS
<1>2. /\ Whole(h, path, "MULTIPLIER", ex) /\ NoneDead(h, path) /\ p = path[Len(path)]
      /\ g \in Groups /\ g = h[p]
  BY <1>1, MultiplierFinds
<1>3. Puts(h, h2, path[Len(path)], r) /\ SameKids(h[path[Len(path)]], r)
  BY <1>1, <1>2
<1>4. Whole(h2, path, role2, ex) /\ NoneDead(h2, path)
  BY <1>1, <1>2, <1>3, WeakerSame, WholeEdited
<1>5. Len(g.segments) <= Len(r.segments)
  BY <1>2 DEF Groups
<1>6. Kept(h, h2, p)
  BY <1>1, <1>2, <1>5 DEF Kept, Puts
<1> QED
  BY <1>1, <1>4, <1>6

LEMMA MultiplierDigitStep ==
  ASSUME TInv, NEW t \in Nat, MultiplierDigit(t)
  PROVE  Stepped
<1>1. PICK g, segment, m, x, r :
        /\ g = groups[Here] /\ segment = Segment(groups, Here)
        /\ m = Decimal(segment.multiplier, t) /\ x = [segment EXCEPT !.multiplier = m]
        /\ r = Resegment(g, x)
  OBVIOUS
<1>2. In("MULTIPLIER") /\ Accept /\ UNCHANGED stack /\ exact' = exact /\ t \in Digits
  BY DEF MultiplierDigit
<1>3. groups' = SetSegment(groups, Here, x)
  BY <1>1 DEF MultiplierDigit
<1>4. /\ Going(groups, Here) /\ g \in Groups /\ g.segments # <<>> /\ Well(g, "MULTIPLIER", exact)
      /\ segment = Last(g.segments) /\ exact \in BOOLEAN /\ Doing(stack) = "MULTIPLIER"
  BY <1>1, <1>2, MultiplierFinds
<1>5. segment \in Segments
  BY <1>4, LastSegment
<1>6. m \in Numbers
  <2>1. segment.multiplier \in Nat
    BY <1>5, NumberFacts DEF Segments
  <2>2. 10 * segment.multiplier + (t - 48) \in Int
    BY <2>1
  <2> QED
    BY <1>1, <2>2, NumberFacts DEF Decimal
<1>7. x = [items |-> Last(g.segments).items, multiplier |-> m] /\ x \in Segments
  BY <1>1, <1>4, <1>5, <1>6 DEF Segments
<1>8. r \in Groups /\ SameKids(g, r) /\ Well(r, "MULTIPLIER", exact)
  BY <1>1, <1>4, <1>6, <1>7, MultiplierRead
<1>9. /\ Len(r.segments) = Len(g.segments)
      /\ \A s \in 1..Len(g.segments) - 1 : r.segments[s] = g.segments[s]
  BY <1>1, <1>4, <1>7, ResegmentFacts
<1>10. Puts(groups, groups', Here, r)
  BY <1>1, <1>3, <1>4, SetSegmentPuts
<1>11. /\ Whole(groups', Path(stack), "MULTIPLIER", exact) /\ NoneDead(groups', Path(stack))
       /\ Kept(groups, groups', Here)
  BY <1>1, <1>2, <1>8, <1>9, <1>10, MultiplierPut
<1>12. Whole(groups', Path(stack), Doing(stack), exact') /\ exact' \in BOOLEAN
  BY <1>2, <1>4, <1>11
<1> QED
  BY <1>2, <1>11, <1>12, ReaderStays

LEMMA CloseMultiplierStep ==
  ASSUME TInv, NEW t \in Nat, CloseMultiplier(t)
  PROVE  Stepped
<1>1. PICK g, segment, x, r :
        /\ g = groups[Here] /\ segment = Segment(groups, Here)
        /\ x = (g.sum + segment.multiplier) % Word /\ r = Resum(g, x)
  OBVIOUS
<1>2. In("MULTIPLIER") /\ Accept /\ Leave /\ exact' = exact
  BY DEF CloseMultiplier
<1>3. /\ Going(groups, Here) /\ g \in Groups /\ g.segments # <<>> /\ Well(g, "MULTIPLIER", exact)
      /\ segment = Last(g.segments) /\ exact \in BOOLEAN
  BY <1>1, <1>2, MultiplierFinds
<1>4. x \in Numbers
  <2>1. segment.multiplier \in Numbers /\ g.sum \in Numbers
    BY <1>3, LastSegment DEF Groups
  <2>2. segment.multiplier \in Nat /\ g.sum \in Nat
    BY <2>1, NumberFacts
  <2>3. g.sum + segment.multiplier \in Int
    BY <2>2
  <2> QED
    BY <1>1, <2>3, NumberFacts
<1>5. r \in Groups /\ SameKids(g, r) /\ Well(r, "GROUP", exact)
  BY <1>1, <1>3, MultiplierClosed
<1>6. r.segments = g.segments
  BY <1>1 DEF Resum
<1>7. groups' = [groups EXCEPT ![Here] = r]
  <2>1. g = [segments |-> g.segments, sum |-> g.sum]
    BY <1>3 DEF Groups
  <2>2. [g EXCEPT !.sum = (@ + segment.multiplier) % Word] = r
    BY <1>1, <2>1 DEF Resum
  <2>3. Here \in DOMAIN groups
    BY <1>3 DEF Going
  <2> QED
    BY <1>1, <2>2, <2>3 DEF CloseMultiplier
<1>8. Puts(groups, groups', Here, r)
  BY <1>3, <1>7, PutsExcept DEF Going
<1>9. /\ Whole(groups', Path(stack), "GROUP", exact) /\ NoneDead(groups', Path(stack))
      /\ Kept(groups, groups', Here)
  BY <1>1, <1>2, <1>5, <1>6, <1>8, MultiplierPut
<1> QED
  BY <1>2, <1>3, <1>9, ReaderLeaves

(* The tokens of a repetition.                                             *)

\* The item that a repetition is read for.
LEMMA RepeatFinds ==
  ASSUME TInv, NEW type \in {"REPEAT", "REPEAT_RANGE"}, In(type),
         NEW items, items = Segment(groups, Here).items
  PROVE  /\ items \in Seq(Items) /\ items # <<>> /\ AllSound(items) /\ AllSound(Front(items))
         /\ Item \in Items /\ Item = Last(items) /\ Sound(Item)
         /\ Item.kind = "LITERAL" => Item.tainted
         /\ Doing(stack) = type /\ exact \in BOOLEAN
         /\ Item.min \in Numbers /\ Item.max \in Numbers /\ Item.maybe \in BOOLEAN
         /\ outcome = "open"
<1>1. PICK role : role = Doing(stack)
  OBVIOUS
<1>2. /\ items \in Seq(Items) /\ ItemsFit(items, role) /\ Item = Last(items)
      /\ role = type /\ exact \in BOOLEAN /\ outcome = "open"
  BY <1>1, ReaderFinds
<1>3. items # <<>> /\ AllSound(items) /\ (Item.kind = "LITERAL" => Item.tainted)
  BY <1>2, FitFacts
<1>4. Item \in Items
  BY <1>2, <1>3, LastFacts
<1>5. AllSound(Front(items)) /\ Sound(Item)
  BY <1>2, <1>3, FrontSound
<1>6. Item.min \in Numbers /\ Item.max \in Numbers /\ Item.maybe \in BOOLEAN
  BY <1>4 DEF Items
<1> QED
  BY <1>1, <1>2, <1>3, <1>4, <1>5, <1>6

\* Its modifiers change.
LEMMA RepeatPut ==
  ASSUME TInv, NEW type \in {"REPEAT", "REPEAT_RANGE"}, In(type),
         NEW x, Modifies(Item, x), UpdateItem(x),
         NEW role2 \in {"GROUP", "REPEAT", "REPEAT_RANGE"}
  PROVE  /\ Whole(groups', Path(stack), role2, exact) /\ NoneDead(groups', Path(stack))
         /\ Kept(groups, groups', Here)
<1>1. PICK items, item : items = Segment(groups, Here).items /\ item = Item
  OBVIOUS
<1>2. /\ items \in Seq(Items) /\ items # <<>> /\ AllSound(Front(items))
      /\ item \in Items /\ item = Last(items) /\ Sound(item)
      /\ item.kind = "LITERAL" => item.tainted
  BY <1>1, RepeatFinds
<1>3. Modifies(item, x)
  BY <1>1
<1>4. x \in Items /\ x.kind = item.kind /\ x.tainted = item.tainted /\ Sound(x)
  BY <1>2, <1>3, ModifiedSound
<1>5. ItemsFit(Append(Front(items), x), role2)
  <2>1. PICK new : new = Append(Front(items), x)
    OBVIOUS
  <2>2. new # <<>> /\ Last(new) = x /\ AllSound(new)
    BY <1>2, <1>4, <2>1, ItemReplaced
  <2>3. Last(new).kind = "LITERAL" => Last(new).tainted
    BY <1>2, <1>4, <2>2
  <2>4. ItemsFit(new, "GROUP") /\ ItemsFit(new, "REPEAT") /\ ItemsFit(new, "REPEAT_RANGE")
    BY <2>2, <2>3, FitFacts
  <2> QED
    BY <2>1, <2>4
<1>6. role2 \notin Shut /\ role2 # "MULTIPLIER"
  BY DEF Shut
<1>7. x.kind = Item.kind /\ type \notin {"GROUP", "MULTIPLIER"}
  BY <1>1, <1>4
<1> QED
  BY <1>1, <1>2, <1>4, <1>5, <1>6, <1>7, ItemRead

LEMMA RepeatDigitStep ==
  ASSUME TInv, NEW t \in Nat, RepeatDigit(t)
  PROVE  Stepped
<1>1. PICK item : item = Item
  OBVIOUS
<1>2. PICK type \in {"REPEAT", "REPEAT_RANGE"} :
        /\ In(type)
        /\ UpdateItem(IF type = "REPEAT" THEN [item EXCEPT !.min = Decimal(@, t)]
                                         ELSE [item EXCEPT !.max = Decimal(@, t)])
  BY <1>1 DEF RepeatDigit
<1>3. Accept /\ UNCHANGED stack /\ exact' = exact
  BY DEF RepeatDigit
<1>4. /\ item \in Items /\ item.min \in Numbers /\ item.max \in Numbers
      /\ item.maybe \in BOOLEAN /\ Doing(stack) = type /\ exact \in BOOLEAN
  BY <1>1, <1>2, RepeatFinds
<1>5. \A n \in Numbers : Decimal(n, t) \in Numbers
  <2> SUFFICES ASSUME NEW n \in Numbers
               PROVE  Decimal(n, t) \in Numbers
    OBVIOUS
  <2>1. n \in Nat
    BY NumberFacts
  <2>2. 10 * n + (t - 48) \in Int
    BY <2>1
  <2> QED
    BY <2>2, NumberFacts DEF Decimal
<1>6. PICK x : x = IF type = "REPEAT" THEN [item EXCEPT !.min = Decimal(@, t)]
                                      ELSE [item EXCEPT !.max = Decimal(@, t)]
  OBVIOUS
<1>7. Modifies(item, x)
  <2>1. CASE type = "REPEAT"
    <3>1. PICK n \in Numbers : n = Decimal(item.min, t)
      BY <1>4, <1>5
    <3>2. x = [item EXCEPT !.min = n, !.max = item.max, !.maybe = item.maybe]
      BY <1>4, <1>6, <2>1, <3>1 DEF Items
    <3> QED
      BY <1>4, <3>2 DEF Modifies
  <2>2. CASE type # "REPEAT"
    <3>1. PICK n \in Numbers : n = Decimal(item.max, t)
      BY <1>4, <1>5
    <3>2. x = [item EXCEPT !.min = item.min, !.max = n, !.maybe = item.maybe]
      BY <1>4, <1>6, <2>2, <3>1 DEF Items
    <3> QED
      BY <1>4, <3>2 DEF Modifies
  <2> QED
    BY <2>1, <2>2
<1>8. UpdateItem(x) /\ Modifies(Item, x)
  BY <1>1, <1>2, <1>6, <1>7
<1>9. PICK role2 \in {"GROUP", "REPEAT", "REPEAT_RANGE"} : role2 = type
  OBVIOUS
<1>10. /\ Whole(groups', Path(stack), role2, exact) /\ NoneDead(groups', Path(stack))
       /\ Kept(groups, groups', Here)
  BY <1>2, <1>8, RepeatPut
<1>11. Whole(groups', Path(stack), Doing(stack), exact') /\ exact' \in BOOLEAN
  BY <1>3, <1>4, <1>9, <1>10
<1>12. type # "GROUP"
  OBVIOUS
<1> QED
  BY <1>2, <1>3, <1>10, <1>11, <1>12, ReaderStays

LEMMA RepeatUpToStep ==
  ASSUME TInv, NEW t \in Nat, RepeatUpTo(t)
  PROVE  Stepped
<1>1. PICK item, x, y, type : /\ item = Item /\ x = [item EXCEPT !.max = 0]
                        /\ y = [stack[Len(stack)] EXCEPT !.type = "REPEAT_RANGE"]
                        /\ type = "REPEAT"
  OBVIOUS
<1>2. In("REPEAT") /\ Accept /\ exact' = exact /\ UpdateItem(x) /\ Become("REPEAT_RANGE")
  BY <1>1 DEF RepeatUpTo
<1>3. /\ item \in Items /\ item.min \in Numbers /\ item.maybe \in BOOLEAN /\ exact \in BOOLEAN
  BY <1>1, <1>2, RepeatFinds
<1>4. Modifies(Item, x)
  <2>1. x = [item EXCEPT !.min = item.min, !.max = 0, !.maybe = item.maybe]
    BY <1>1, <1>3 DEF Items
  <2>2. 0 \in Numbers
    BY NumberFacts
  <2> QED
    BY <1>1, <1>3, <2>1, <2>2 DEF Modifies
<1>5. /\ Whole(groups', Path(stack), "REPEAT_RANGE", exact) /\ NoneDead(groups', Path(stack))
      /\ Kept(groups, groups', Here)
  BY <1>2, <1>4, RepeatPut
<1>6. /\ y \in States /\ y.type = "REPEAT_RANGE" /\ ~y.ranged /\ y.group = Here
      /\ stack' = [stack EXCEPT ![Len(stack)] = y]
  <2>1. /\ y \in States /\ y.type = "REPEAT_RANGE" /\ y.ranged = Top.ranged /\ y.group = Here
        /\ stack' = [stack EXCEPT ![Len(stack)] = y]
        /\ Top.ranged => type \in {"SET", "SET_RANGE"}
    BY <1>1, <1>2, TopFacts
  <2> QED
    BY <1>1, <2>1
<1> QED
  BY <1>2, <1>3, <1>5, <1>6, ReaderTurns

LEMMA CloseRepeatStep ==
  ASSUME TInv, NEW t \in Nat, CloseRepeat(t)
  PROVE  Stepped
<1>1. Accept /\ Leave /\ exact' = exact
  BY DEF CloseRepeat
<1>2. CASE In("REPEAT") /\ UpdateItem([Item EXCEPT !.max = Item.min])
  <2>1. PICK item, x : item = Item /\ x = [item EXCEPT !.max = item.min]
    OBVIOUS
  <2>2. item \in Items /\ item.min \in Numbers /\ item.maybe \in BOOLEAN /\ exact \in BOOLEAN
    BY <1>2, <2>1, RepeatFinds
  <2>3. x = [item EXCEPT !.min = item.min, !.max = item.min, !.maybe = item.maybe]
    BY <2>1, <2>2 DEF Items
  <2>4. Modifies(Item, x)
    <3>1. Modifies(item, x)
      BY <2>2, <2>3 DEF Modifies
    <3> QED
      BY <2>1, <3>1
  <2>5. In("REPEAT") /\ UpdateItem(x)
    BY <1>2, <2>1
  <2>6. /\ Whole(groups', Path(stack), "GROUP", exact) /\ NoneDead(groups', Path(stack))
        /\ Kept(groups, groups', Here)
    BY <2>4, <2>5, RepeatPut
  <2> QED
    BY <1>1, <2>2, <2>5, <2>6, ReaderLeaves
<1>3. CASE In("REPEAT_RANGE") /\ UNCHANGED groups
  <2>1. PICK h, path, p, items, type, role, ex :
          /\ h = groups /\ path = Path(stack) /\ p = Here /\ type = "REPEAT_RANGE"
          /\ items = Segment(h, p).items /\ role = Doing(stack) /\ ex = exact
    OBVIOUS
  <2>2. AllSound(items) /\ role = type /\ ex \in BOOLEAN
    BY <1>3, <2>1, RepeatFinds
  <2>3. Whole(h, path, role, ex) /\ NoneDead(h, path) /\ p = path[Len(path)] /\ role \notin Shut
    BY <1>3, <2>1, ReaderFinds
  <2>4. ItemsFit(Segment(h, p).items, "GROUP") /\ role # "MULTIPLIER" /\ "GROUP" \notin Shut
    BY <2>1, <2>2, FitFacts DEF Shut
  <2>5. Whole(h, path, "GROUP", ex) /\ Kept(h, h, p)
    BY <2>3, <2>4, RoleChanged
  <2>6. /\ Whole(groups', Path(stack), "GROUP", exact') /\ NoneDead(groups', Path(stack))
        /\ Kept(groups, groups', Here) /\ exact' \in BOOLEAN
    BY <1>1, <1>3, <2>1, <2>2, <2>3, <2>5
  <2> QED
    BY <1>1, <1>3, <2>6, ReaderLeaves
<1> QED
  BY <1>2, <1>3 DEF CloseRepeat

(* The tokens of a special.                                                *)

\* The special whose name is read.
LEMMA SpecialFinds ==
  ASSUME TInv, NEW type \in {"SPECIAL", "SPECIAL_NAME"}, In(type),
         NEW items, items = Segment(groups, Here).items
  PROVE  /\ items \in Seq(Items) /\ items # <<>> /\ AllSound(items) /\ AllSound(Front(items))
         /\ Item \in Items /\ Item = Last(items) /\ Item.kind = "SPECIAL"
         /\ Doing(stack) = type /\ exact \in BOOLEAN
<1>1. PICK role : role = Doing(stack)
  OBVIOUS
<1>2. /\ items \in Seq(Items) /\ ItemsFit(items, role) /\ Item = Last(items)
      /\ role = type /\ exact \in BOOLEAN
  BY <1>1, ReaderFinds
<1>3. items # <<>> /\ AllSound(items) /\ Item.kind = "SPECIAL"
  BY <1>2, FitFacts
<1>4. Item \in Items
  BY <1>2, <1>3, LastFacts
<1>5. AllSound(Front(items))
  BY <1>2, <1>3, FrontSound
<1> QED
  BY <1>1, <1>2, <1>3, <1>4, <1>5

\* The special itself stays.
LEMMA SpecialStays ==
  ASSUME TInv, NEW type \in {"SPECIAL", "SPECIAL_NAME"}, In(type), UNCHANGED groups,
         NEW role2 \in {"GROUP", "SPECIAL_NAME"}
  PROVE  /\ Whole(groups', Path(stack), role2, exact) /\ NoneDead(groups', Path(stack))
         /\ Kept(groups, groups', Here)
<1>1. PICK h, path, p, items, role, ex :
        /\ h = groups /\ path = Path(stack) /\ p = Here
        /\ items = Segment(h, p).items /\ role = Doing(stack) /\ ex = exact
  OBVIOUS
<1>2. AllSound(items) /\ items # <<>> /\ Last(items).kind = "SPECIAL" /\ role = type
  BY <1>1, SpecialFinds
<1>3. Whole(h, path, role, ex) /\ NoneDead(h, path) /\ p = path[Len(path)] /\ role \notin Shut
  BY <1>1, ReaderFinds
<1>4. ItemsFit(items, "GROUP") /\ ItemsFit(items, "SPECIAL_NAME")
  BY <1>2, FitFacts
<1>5. ItemsFit(Segment(h, p).items, role2) /\ role # "MULTIPLIER" /\ role2 \notin Shut
      /\ role2 # "MULTIPLIER"
  BY <1>1, <1>2, <1>4 DEF Shut
<1>6. Whole(h, path, role2, ex) /\ Kept(h, h, p)
  BY <1>3, <1>5, RoleChanged
<1> QED
  BY <1>1, <1>3, <1>6

LEMMA OpenNameStep ==
  ASSUME TInv, NEW t \in Nat, OpenName(t)
  PROVE  Stepped
<1>1. In("SPECIAL") /\ Accept /\ Become("SPECIAL_NAME") /\ UNCHANGED <<groups, exact>>
  BY DEF OpenName
<1>2. PICK y, type : y = [stack[Len(stack)] EXCEPT !.type = "SPECIAL_NAME"] /\ type = "SPECIAL"
  OBVIOUS
<1>3. /\ y \in States /\ y.type = "SPECIAL_NAME" /\ ~y.ranged /\ y.group = Here
      /\ stack' = [stack EXCEPT ![Len(stack)] = y]
  <2>1. /\ y \in States /\ y.type = "SPECIAL_NAME" /\ y.ranged = Top.ranged /\ y.group = Here
        /\ stack' = [stack EXCEPT ![Len(stack)] = y]
        /\ Top.ranged => type \in {"SET", "SET_RANGE"}
    BY <1>1, <1>2, TopFacts
  <2> QED
    BY <1>2, <2>1
<1>4. exact \in BOOLEAN
  BY DEF TInv
<1>5. /\ Whole(groups', Path(stack), "SPECIAL_NAME", exact) /\ NoneDead(groups', Path(stack))
      /\ Kept(groups, groups', Here)
  BY <1>1, SpecialStays
<1> QED
  BY <1>1, <1>3, <1>4, <1>5, ReaderTurns

LEMMA CloseNameStep ==
  ASSUME TInv, NEW t \in Nat, CloseName(t)
  PROVE  Stepped
<1>1. In("SPECIAL_NAME") /\ Accept /\ Leave /\ UNCHANGED <<groups, exact>>
  BY DEF CloseName
<1>2. exact \in BOOLEAN
  BY DEF TInv
<1>3. /\ Whole(groups', Path(stack), "GROUP", exact) /\ NoneDead(groups', Path(stack))
      /\ Kept(groups, groups', Here)
  BY <1>1, SpecialStays
<1> QED
  BY <1>1, <1>2, <1>3, ReaderLeaves

LEMMA NameCharStep ==
  ASSUME TInv, NEW t \in Nat, NameChar(t)
  PROVE  Stepped
<1>1. PICK items, item, c, chars, x :
        /\ items = Segment(groups, Here).items /\ item = Item /\ c = Unescaped(t)
        /\ chars = Append(item.chars, c) /\ x = [item EXCEPT !.chars = chars]
  OBVIOUS
<1>2. In("SPECIAL_NAME") /\ Accept /\ UNCHANGED stack /\ exact' = exact
  BY DEF NameChar
<1>3. UpdateItem(x)
  BY <1>1 DEF NameChar
<1>4. /\ items \in Seq(Items) /\ items # <<>> /\ AllSound(Front(items))
      /\ item \in Items /\ item = Last(items) /\ item.kind = "SPECIAL"
      /\ Doing(stack) = "SPECIAL_NAME" /\ exact \in BOOLEAN
  BY <1>1, <1>2, SpecialFinds
<1>5. chars \in Seq(Nat)
  <2>1. c \in Nat /\ item.chars \in Seq(Nat)
    BY <1>1, <1>4, TokenNumbers DEF Items
  <2> QED
    BY <1>1, <2>1
<1>6. x \in Items /\ x.kind = "SPECIAL"
  BY <1>1, <1>4, <1>5 DEF Items
<1>7. ItemsFit(Append(Front(items), x), "SPECIAL_NAME")
  <2>1. PICK new : new = Append(Front(items), x)
    OBVIOUS
  <2>2. Sound(x)
    BY <1>6, OthersSound
  <2>3. new # <<>> /\ Last(new) = x /\ AllSound(new)
    BY <1>4, <1>6, <2>1, <2>2, ItemReplaced
  <2> QED
    BY <1>6, <2>1, <2>3, FitFacts
<1>8. /\ Whole(groups', Path(stack), "SPECIAL_NAME", exact) /\ NoneDead(groups', Path(stack))
      /\ Kept(groups, groups', Here)
  <2>1. "SPECIAL_NAME" \notin Shut /\ "SPECIAL_NAME" # "MULTIPLIER"
    BY DEF Shut
  <2>2. x.kind = Item.kind
    BY <1>1, <1>4, <1>6
  <2> QED
    BY <1>1, <1>2, <1>3, <1>4, <1>6, <1>7, <2>1, <2>2, ItemRead
<1>9. Whole(groups', Path(stack), Doing(stack), exact') /\ exact' \in BOOLEAN
  BY <1>2, <1>4, <1>8
<1> QED
  BY <1>2, <1>8, <1>9, ReaderStays

-----------------------------------------------------------------------------
(* The steps that end a parse, and the invariant.                          *)

LEMMA SameFrozen ==
  ASSUME NEW h, NEW path
  PROVE  Frozen(h, path, h)
BY DEF Frozen

LEMMA StepFailed ==
  ASSUME TInv, outcome = "open", outcome' = "failed", UNCHANGED <<alphabet, stack, exact>>,
         \/ /\ Whole(groups', Path(stack), Doing(stack), exact)
            /\ \/ NoneDead(groups', Path(stack))
               \/ Doing(stack) = "GROUP" /\ LastDead(groups', Path(stack))
         \/ /\ Doing(stack) = "GROUP" /\ NoneDead(groups', Path(stack))
            /\ Whole(groups', Path(stack), "CLOSING", exact),
         Frozen(groups, Path(stack), groups')
  PROVE  Stepped
<1>1. /\ Stacked(stack') /\ exact' \in BOOLEAN /\ alphabet'.tokens \subseteq Nat
      /\ Path(stack') = Path(stack) /\ Doing(stack') = Doing(stack)
  BY DEF TInv
<1>2. Doing(stack') # "CLOSING"
  BY <1>1, StackFacts DEF Shut
<1>3. IF Doing(stack') = "GROUP" /\ outcome' # "done"
        THEN LastDead(groups', Path(stack')) ELSE NoneDead(groups', Path(stack'))
  BY <1>1, NoneLast
<1>4. \E role \in {Doing(stack'), "CLOSING"} :
        /\ Whole(groups', Path(stack'), role, exact')
        /\ role = "CLOSING" => outcome' = "failed" /\ Doing(stack') = "GROUP"
                               /\ NoneDead(groups', Path(stack'))
  BY <1>1, <1>2
<1>5. TInv'
  BY <1>1, <1>3, <1>4 DEF TInv
<1> QED
  BY <1>5 DEF Stepped

LEMMA RejectStep ==
  ASSUME TInv, NEW t \in Nat, Reject(t)
  PROVE  Stepped
<1>1. outcome = "open" /\ outcome' = "failed" /\ UNCHANGED <<alphabet, stack, exact>>
  BY DEF Reject
<1>2. /\ Whole(groups, Path(stack), Doing(stack), exact) /\ OnPath(Path(stack), Here)
      /\ Here = Path(stack)[Len(Path(stack))]
      /\ Doing(stack) # "GROUP" => NoneDead(groups, Path(stack))
      /\ Doing(stack) = "GROUP" => LastDead(groups, Path(stack))
  BY <1>1, TokenFinds
<1>3. CASE AtLimit \/ ~In("GROUP")
  <2>1. groups' = groups
    BY <1>3 DEF Reject
  <2>2. Frozen(groups, Path(stack), groups')
    BY <2>1, SameFrozen
  <2> QED
    BY <1>1, <1>2, <2>1, <2>2, StepFailed
<1>4. CASE ~AtLimit /\ In("GROUP")
  <2>1. PICK h, path, p, ex : h = Cleaned(Here) /\ path = Path(stack) /\ p = Here /\ ex = exact
    OBVIOUS
  <2>2. /\ Ready(h, path, ex) /\ Kept(groups, h, p) /\ Going(groups, p) /\ Going(h, p)
        /\ Doing(stack) = "GROUP"
    BY <1>4, <2>1, GroupFinds
  <2>3. CASE IsChar(t, RightParen)
    <3>1. PICK h2 : h2 = WithoutZero(h, p)
      OBVIOUS
    <3>2. groups' = h2
      BY <1>4, <2>1, <2>3, <3>1 DEF Reject
    <3>3. Whole(h2, path, "CLOSING", ex) /\ NoneDead(h2, path) /\ Held(h, h2, p)
      BY <1>2, <2>1, <2>2, <3>1, ZeroDropped
    <3>4. Frozen(groups, path, h2)
      BY <1>2, <2>1, <2>2, <3>3, KeptHeld, HeldFrozen
    <3> QED
      BY <1>1, <2>1, <2>2, <3>2, <3>3, <3>4, StepFailed
  <2>4. CASE ~IsChar(t, RightParen)
    <3>1. groups' = h
      BY <1>4, <2>1, <2>4 DEF Reject
    <3>2. Whole(h, path, "GROUP", ex) /\ NoneDead(h, path)
      BY <2>2 DEF Ready
    <3>3. Frozen(groups, path, h)
      BY <1>2, <2>1, <2>2, HeldFrozen
    <3> QED
      BY <1>1, <2>1, <2>2, <3>1, <3>2, <3>3, StepFailed
  <2> QED
    BY <2>3, <2>4
<1> QED
  BY <1>3, <1>4

LEMMA NameCharAstrayStep ==
  ASSUME TInv, NEW t \in Nat, NameCharAstray(t)
  PROVE  Stepped
<1>1. /\ outcome = "open" /\ outcome' = "astray" /\ UNCHANGED <<alphabet, stack, groups, exact>>
      /\ Top.type = "SPECIAL_NAME"
  BY DEF NameCharAstray, In
<1>2. /\ Whole(groups, Path(stack), Doing(stack), exact) /\ Stacked(stack)
      /\ Doing(stack) # "GROUP" => NoneDead(groups, Path(stack))
      /\ Doing(stack) = "GROUP" => LastDead(groups, Path(stack))
  BY <1>1, TokenFinds
<1>3. Doing(stack) # "GROUP"
  BY <1>1 DEF Doing, Top
<1>4. /\ Stacked(stack') /\ exact' \in BOOLEAN /\ alphabet'.tokens \subseteq Nat
      /\ Path(stack') = Path(stack) /\ Doing(stack') = Doing(stack)
  BY <1>1 DEF TInv
<1>5. Whole(groups', Path(stack'), Doing(stack'), exact') /\ NoneDead(groups', Path(stack'))
  BY <1>1, <1>2, <1>3, <1>4
<1>6. Doing(stack') # "CLOSING" /\ Doing(stack') # "GROUP"
  BY <1>2, <1>3, <1>4, StackFacts DEF Shut
<1>7. TInv'
  BY <1>1, <1>4, <1>5, <1>6 DEF TInv
<1>8. Frozen(groups, Path(stack), groups')
  BY <1>1, SameFrozen
<1> QED
  BY <1>7, <1>8 DEF Stepped

LEMMA FinishStep ==
  ASSUME TInv, Finish
  PROVE  Stepped
<1>1. outcome = "open" /\ UNCHANGED <<alphabet, stack, exact>>
  BY DEF Finish
<1>2. /\ Whole(groups, Path(stack), Doing(stack), exact) /\ OnPath(Path(stack), Here)
      /\ Doing(stack) # "GROUP" => NoneDead(groups, Path(stack))
      /\ Doing(stack) = "GROUP" => LastDead(groups, Path(stack))
      /\ Stacked(stack)
  BY <1>1, TokenFinds
<1>3. CASE Len(stack) = 1
  <2>1. PICK h, path, p, ex : h = Cleaned(Here) /\ path = Path(stack) /\ p = Here /\ ex = exact
    OBVIOUS
  <2>2. Doing(stack) = "GROUP"
    <3>1. Depth(stack) >= 1 /\ (Doing(stack) # "GROUP" => Depth(stack) = Len(stack) - 1)
      BY <1>2, StackFacts
    <3> QED
      BY <1>3, <3>1
  <2>3. In("GROUP")
    BY <1>1, <1>2, <2>2, StackFacts DEF In, Top
  <2>4. Ready(h, path, ex) /\ Kept(groups, h, p)
    BY <2>1, <2>3, GroupFinds
  <2>5. groups' = h /\ outcome' = "done"
    BY <1>3, <2>1 DEF Finish
  <2>6. Whole(h, path, "GROUP", ex) /\ NoneDead(h, path)
    BY <2>4 DEF Ready
  <2>7. Frozen(groups, path, h)
    BY <1>2, <2>1, <2>4, HeldFrozen
  <2>8. /\ Stacked(stack') /\ exact' \in BOOLEAN /\ alphabet'.tokens \subseteq Nat
        /\ Path(stack') = Path(stack) /\ Doing(stack') = "GROUP"
    BY <1>1, <2>2 DEF TInv
  <2>9. Whole(groups', Path(stack'), Doing(stack'), exact') /\ NoneDead(groups', Path(stack'))
    BY <1>1, <2>1, <2>5, <2>6, <2>8
  <2>10. TInv'
    BY <2>5, <2>8, <2>9 DEF TInv
  <2> QED
    BY <2>1, <2>5, <2>7, <2>10 DEF Stepped
<1>4. CASE Len(stack) # 1
  <2>1. groups' = groups /\ outcome' = "failed"
    BY <1>4 DEF Finish
  <2>2. Frozen(groups, Path(stack), groups')
    BY <2>1, SameFrozen
  <2> QED
    BY <1>1, <1>2, <2>1, <2>2, StepFailed
<1> QED
  BY <1>3, <1>4

LEMMA StutterStep ==
  ASSUME TInv, UNCHANGED vars
  PROVE  Stepped
<1>1. TInv'
  BY DEF TInv, vars
<1>2. Frozen(groups, Path(stack), groups')
  BY SameFrozen DEF vars
<1> QED
  BY <1>1, <1>2 DEF Stepped

LEMMA TokenStep ==
  ASSUME TInv, NEW t \in Nat, ParseToken(t)
  PROVE  Stepped
BY NextSegmentStep, CloseGroupStep, OpenGroupStep, OpenSetStep, OpenRepeatStep,
   OpenMultiplierStep, MaybeStep, OpenSpecialStep, LiteralStep, CloseSetStep,
   ExtendRangeStep, AddRangeStep, EndRangeStep, MultiplierDigitStep, CloseMultiplierStep,
   RepeatDigitStep, RepeatUpToStep, CloseRepeatStep, OpenNameStep, NameCharStep,
   NameCharAstrayStep, CloseNameStep, RejectStep DEF ParseToken

LEMMA NextStepped == TInv /\ [Next]_vars => Stepped
<1> SUFFICES ASSUME TInv, [Next]_vars PROVE Stepped
  OBVIOUS
<1>1. CASE Finish
  BY <1>1, FinishStep
<1>2. ASSUME NEW t \in alphabet.tokens, ParseToken(t) PROVE Stepped
  <2>1. t \in Nat
    BY DEF TInv
  <2> QED
    BY <1>2, <2>1, TokenStep
<1>3. CASE UNCHANGED vars
  BY <1>3, StutterStep
<1> QED
  BY <1>1, <1>2, <1>3 DEF Next

LEMMA InitTInv == Init => TInv
<1> SUFFICES ASSUME Init PROVE TInv
  OBVIOUS
<1>1. PICK s, path : s = State("GROUP", <<>>) /\ path = Path(stack)
  OBVIOUS
<1>2. stack = <<s>> /\ groups = [root \in {<<>>} |-> NewGroup] /\ exact = TRUE /\ outcome = "open"
  BY <1>1 DEF Init
<1>3. alphabet.tokens \subseteq Nat
  BY AlphabetsAssumption DEF Init
<1>4. s \in States /\ s.type = "GROUP" /\ ~s.ranged /\ s.group = <<>>
  BY <1>1, EmptySeq DEF State, States
<1>5. Len(stack) = 1 /\ stack[1] = s /\ stack \in Seq(States)
  BY <1>2, <1>4
<1>6. Depth(stack) = 1 /\ Doing(stack) = "GROUP"
  BY <1>4, <1>5 DEF Depth, Doing
<1>7. Stacked(stack)
  BY <1>4, <1>5, <1>6 DEF Stacked
<1>8. path \in Seq(Seq(Nat)) /\ Len(path) = 1 /\ path[1] = <<>>
  BY <1>1, <1>4, <1>5, <1>6, <1>7, StackFacts
<1>9. Typed(groups)
  <2>1. Len(<<>>) = Double(0)
    BY EmptySeq DEF Double
  <2> QED
    BY <1>2, <2>1, EmptySeq, NewGroupFacts DEF Typed
<1>10. Tree(groups)
  BY <1>2, NewGroupWell DEF Tree
<1>11. Chained(groups, path)
  <2>1. path \in Seq(DOMAIN groups)
    <3>1. PICK D : D = DOMAIN groups
      OBVIOUS
    <3>2. PICK x, a : x = path[1] /\ a = <<x>>
      OBVIOUS
    <3>3. x \in Seq(Nat) /\ x \in D
      BY <1>2, <1>8, <3>1, <3>2, EmptySeq
    <3>4. a \in Seq(Seq(Nat)) /\ a \in Seq(D) /\ Len(a) = 1 /\ a[1] = x
      BY <3>2, <3>3
    <3>5. path = a
      BY <1>8, <3>2, <3>4, SeqEqual
    <3> QED
      BY <3>1, <3>4, <3>5
  <2>2. Len(path[1]) = Double(0)
    BY <1>8, EmptySeq DEF Double
  <2>3. \A i \in 1..Len(path) : Len(path[i]) = Double(i - 1)
    BY <1>8, <2>2
  <2> QED
    BY <1>8, <2>1, <2>3 DEF Chained
<1>12. OnPath(path, <<>>) /\ path[Len(path)] = <<>>
  BY <1>8 DEF OnPath
<1>13. \A p \in DOMAIN groups : Well(groups[p], Role(path, "GROUP", p), exact)
  BY <1>2, <1>12, NewGroupWell DEF Role
<1>14. Whole(groups, path, "GROUP", exact)
  BY <1>9, <1>10, <1>11, <1>13 DEF Whole
<1>15. LastDead(groups, path)
  BY <1>2, <1>12 DEF LastDead, Dead
<1> QED
  BY <1>1, <1>2, <1>3, <1>6, <1>7, <1>14, <1>15 DEF TInv

-----------------------------------------------------------------------------
(* What the invariant says of the parser's states.                         *)

LEMMA StackPath ==
  ASSUME TInv, NEW p
  PROVE  OnStack(p) <=> OnPath(Path(stack), p)
<1>1. PICK n, d : n = Len(stack) /\ d = Depth(stack)
  OBVIOUS
<1>2. /\ n \in Nat /\ d \in Nat /\ n >= 1 /\ d >= 1
      /\ Doing(stack) = "GROUP" <=> stack[n].type = "GROUP"
      /\ Doing(stack) = "GROUP" => d = n
      /\ Doing(stack) # "GROUP" => d = n - 1
      /\ Len(Path(stack)) = d
      /\ \A i \in 1..d : Path(stack)[i] = stack[i].group
  BY <1>1, StackFacts DEF TInv
<1>3. \A i \in 1..d : stack[i].type = "GROUP"
  BY <1>1 DEF TInv, Stacked
<1>4. \A i \in 1..n : stack[i].type = "GROUP" <=> i \in 1..d
  BY <1>2, <1>3
<1>5. \A i \in 1..d : i \in 1..n
  BY <1>2
<1> QED
  BY <1>1, <1>2, <1>4, <1>5 DEF OnStack, OnPath

\* What is there as long as the parser has not failed.
LEMMA PathGoes ==
  ASSUME TInv, outcome # "failed"
  PROVE  /\ Whole(groups, Path(stack), Doing(stack), exact)
         /\ \A i \in 1..Len(Path(stack)) : groups[Path(stack)[i]].segments # <<>>
<1>1. PICK h, path, role, ex, k : /\ h = groups /\ path = Path(stack) /\ role = Doing(stack)
                                  /\ ex = exact /\ k = Len(path)
  OBVIOUS
<1>2. Whole(h, path, role, ex) /\ role \notin Shut
  BY <1>1, StackFacts DEF TInv
<1>3. Going(h, path[k])
  BY <1>1, <1>2, GroupGoing
<1>4. Chained(h, path) /\ k \in Nat
  BY <1>1, <1>2, PathFacts DEF Whole
<1>5. \A i \in 1..k : h[path[i]].segments # <<>>
  <2> SUFFICES ASSUME NEW i \in 1..k
               PROVE  h[path[i]].segments # <<>>
    OBVIOUS
  <2>1. CASE i = k
    BY <1>3, <2>1 DEF Going
  <2>2. CASE i # k
    <3>1. i \in 1..Len(path) - 1
      BY <1>1, <1>4, <2>2
    <3> QED
      BY <1>4, <3>1 DEF Chained
  <2> QED
    BY <2>1, <2>2
<1> QED
  BY <1>1, <1>2, <1>5

LEMMA TInvPointers == TInv => PointersValid
<1> SUFFICES ASSUME TInv, outcome # "failed"
             PROVE  /\ stack[1].type = "GROUP" /\ stack[1].group = <<>>
                    /\ \A i \in 1..Len(stack) : PointsAt(i)
                    /\ \A i \in 2..Len(stack) :
                         /\ stack[i-1].type = "GROUP"
                         /\ LET below == stack[i-1].group IN
                            IF stack[i].type = "GROUP"
                              THEN HasItems(groups, below) /\ stack[i].group = ItemPlace(groups, below)
                              ELSE stack[i].group = below
  BY DEF PointersValid
<1>1. PICK n, d, path, role : /\ n = Len(stack) /\ d = Depth(stack) /\ path = Path(stack)
                              /\ role = Doing(stack)
  OBVIOUS
<1>2. /\ n \in Nat /\ d \in Nat /\ n >= 1 /\ d >= 1
      /\ role = "GROUP" <=> stack[n].type = "GROUP"
      /\ role = "GROUP" => d = n
      /\ role # "GROUP" => d = n - 1
      /\ Len(path) = d /\ path[d] = stack[n].group /\ stack[n] \in States
      /\ \A i \in 1..d : path[i] = stack[i].group
  BY <1>1, StackFacts DEF TInv
<1>3. \A i \in 1..d : stack[i].type = "GROUP"
  BY <1>1 DEF TInv, Stacked
<1>4. /\ Whole(groups, path, role, exact)
      /\ \A i \in 1..d : groups[path[i]].segments # <<>>
  BY <1>1, <1>2, PathGoes
<1>5. Chained(groups, path)
  BY <1>4 DEF Whole
<1>6. stack[1].type = "GROUP" /\ stack[1].group = <<>>
  BY <1>2, <1>3, <1>5 DEF Chained
<1>7. ASSUME NEW i \in 1..d
      PROVE  PointsAt(i)
  <2>1. stack[i].type = "GROUP" /\ groups[stack[i].group].segments # <<>>
    BY <1>2, <1>3, <1>4
  <2> QED
    BY <2>1 DEF PointsAt
<1>8. ASSUME role # "GROUP"
      PROVE  PointsAt(n)
  <2>1. PICK type, p, items : type = stack[n].type /\ p = stack[n].group
                              /\ items = Segment(groups, p).items
    OBVIOUS
  <2>2. /\ type \in {"MULTIPLIER", "SET", "SET_RANGE", "REPEAT", "REPEAT_RANGE",
                     "SPECIAL", "SPECIAL_NAME"}
        /\ type \in {"SET", "SET_RANGE"} => role \in {"SET", "SET_RANGE"}
        /\ type \notin {"SET", "SET_RANGE"} => role = type
    <3>1. stack[n].ranged => type \in {"SET", "SET_RANGE"}
      BY <1>1, <2>1 DEF TInv, Stacked
    <3>2. role = IF stack[n].ranged THEN "SET_RANGE" ELSE type
      BY <1>1, <2>1 DEF Doing
    <3>3. type # "GROUP"
      BY <1>2, <1>8, <2>1
    <3> QED
      BY <1>2, <2>1, <3>1, <3>2, <3>3 DEF States
  <2>3. p = path[Len(path)] /\ role \notin Shut
    BY <1>1, <1>2, <2>1, StackFacts DEF TInv
  <2>4. Going(groups, p) /\ Well(groups[p], role, exact)
    BY <1>4, <2>3, GroupGoing
  <2>5. ItemsFit(items, role)
    BY <2>1, <2>4 DEF Well, Ahead, Going, Segment
  <2>6. (HasItems(groups, p) <=> items # <<>>) /\ LastItem(groups, p) = Last(items)
    BY <2>1 DEF HasItems, LastItem
  <2>7. CASE type = "MULTIPLIER"
    <3>1. items = <<>>
      BY <2>2, <2>5, <2>7 DEF ItemsFit
    <3> QED
      BY <2>1, <2>6, <2>7, <3>1 DEF PointsAt
  <2>8. CASE type \in {"SET", "SET_RANGE"}
    <3>1. items # <<>> /\ Last(items).kind = "SET"
      BY <2>2, <2>5, <2>8, FitFacts DEF Reading
    <3> QED
      BY <2>1, <2>6, <2>8, <3>1 DEF PointsAt
  <2>9. CASE type \in {"REPEAT", "REPEAT_RANGE"}
    <3>1. items # <<>>
      BY <2>2, <2>5, <2>9, FitFacts
    <3> QED
      BY <2>1, <2>6, <2>9, <3>1 DEF PointsAt
  <2>10. CASE type \in {"SPECIAL", "SPECIAL_NAME"}
    <3>1. items # <<>> /\ Last(items).kind = "SPECIAL"
      BY <2>2, <2>5, <2>10, FitFacts
    <3> QED
      BY <2>1, <2>6, <2>10, <3>1 DEF PointsAt
  <2> QED
    BY <2>2, <2>7, <2>8, <2>9, <2>10
<1>9. \A i \in 1..n : PointsAt(i)
  <2>1. \A i \in 1..n : i \in 1..d \/ (i = n /\ role # "GROUP")
    BY <1>2
  <2> QED
    BY <1>7, <1>8, <2>1
<1>10. ASSUME NEW i \in 2..n
       PROVE  /\ stack[i-1].type = "GROUP"
              /\ IF stack[i].type = "GROUP"
                   THEN HasItems(groups, stack[i-1].group)
                        /\ stack[i].group = ItemPlace(groups, stack[i-1].group)
                   ELSE stack[i].group = stack[i-1].group
  <2>1. PICK j : j = i - 1
    OBVIOUS
  <2>2. j \in 1..d /\ i = j + 1 /\ j \in Nat
    BY <1>2, <2>1
  <2>3. stack[j].type = "GROUP" /\ stack[j].group = path[j]
    BY <1>2, <1>3, <2>2
  <2>4. CASE i \in 1..d
    <3>1. stack[i].type = "GROUP" /\ stack[i].group = path[i]
      BY <1>2, <1>3, <2>4
    <3>2. j \in 1..Len(path) - 1
      BY <1>2, <2>2, <2>4
    <3>3. HasItems(groups, path[j]) /\ path[j+1] = ItemPlace(groups, path[j])
      BY <1>5, <3>2 DEF Chained
    <3>4. path[i] = ItemPlace(groups, path[j])
      BY <2>2, <3>3
    <3> QED
      BY <2>1, <2>3, <3>1, <3>3, <3>4
  <2>5. CASE i \notin 1..d
    <3>1. i = n /\ j = d /\ role # "GROUP"
      BY <1>2, <2>2, <2>5
    <3>2. stack[i].type # "GROUP" /\ stack[i].group = path[d]
      BY <1>2, <3>1
    <3> QED
      BY <2>1, <2>3, <3>1, <3>2
  <2> QED
    BY <2>4, <2>5
<1> QED
  BY <1>1, <1>6, <1>9, <1>10

\* The groups that are items of the group at p.
KidsAt(p) == {p \o n : n \in {m \in ItemIndexes(p) : ItemAt(p, m).kind = "GROUP"}}

LEMMA TInvTree == TInv => TreeWhole
<1> SUFFICES ASSUME TInv PROVE TreeWhole
  OBVIOUS
<1>1. Typed(groups) /\ Tree(groups)
  BY DEF TInv, Whole
<1>2. ASSUME NEW p \in Places, NEW x
      PROVE  x \in KidsAt(p) <=>
               \E s, i \in Nat : IsKid(groups[p], s, i) /\ x = Child(p, s, i)
  <2>1. PICK g : g = groups[p]
    OBVIOUS
  <2>2. g \in Groups /\ Len(g.segments) \in Nat
    BY <1>1, <2>1 DEF Typed, Places, Groups
  <2>3. \A s \in 1..Len(g.segments) : Len(g.segments[s].items) \in Nat
    BY <2>2 DEF Groups, Segments
  <2>4. ASSUME NEW n \in ItemIndexes(p), ItemAt(p, n).kind = "GROUP", x = p \o n
        PROVE  \E s, i \in Nat : IsKid(g, s, i) /\ x = Child(p, s, i)
    <3>1. PICK s, i : /\ s \in 1..Len(g.segments) /\ i \in 1..Len(g.segments[s].items)
                      /\ n = <<s, i>>
      BY <2>1 DEF ItemIndexes
    <3>2. s \in Nat /\ i \in Nat
      BY <2>2, <2>3, <3>1
    <3>3. ItemAt(p, n) = g.segments[s].items[i]
      BY <2>1, <3>1 DEF ItemAt
    <3>4. IsKid(g, s, i)
      BY <2>4, <3>1, <3>3 DEF IsKid
    <3>5. x = Child(p, s, i)
      BY <2>4, <3>1 DEF Child
    <3> QED
      BY <3>2, <3>4, <3>5
  <2>5. ASSUME NEW s \in Nat, NEW i \in Nat, IsKid(g, s, i), x = Child(p, s, i)
        PROVE  x \in KidsAt(p)
    <3>1. PICK n : n = <<s, i>>
      OBVIOUS
    <3>2. n \in ItemIndexes(p)
      BY <2>1, <2>5, <3>1 DEF ItemIndexes, IsKid
    <3>3. ItemAt(p, n).kind = "GROUP"
      BY <2>1, <2>5, <3>1 DEF ItemAt, IsKid
    <3>4. x = p \o n
      BY <2>5, <3>1 DEF Child
    <3> QED
      BY <3>2, <3>3, <3>4 DEF KidsAt
  <2> QED
    BY <2>1, <2>4, <2>5 DEF KidsAt
<1>3. ASSUME NEW x
      PROVE  x \in Places <=>
               x = <<>> \/ \E p \in Places, s, i \in Nat : IsKid(groups[p], s, i) /\ x = Child(p, s, i)
  BY <1>1 DEF Tree, Places
<1>4. ASSUME NEW x
      PROVE  x \in Places <=>
               x = <<>> \/ \E p \in Places : x \in KidsAt(p)
  <2>1. ASSUME NEW p \in Places
        PROVE  x \in KidsAt(p) <=> \E s, i \in Nat : IsKid(groups[p], s, i) /\ x = Child(p, s, i)
    BY <1>2
  <2> QED
    BY <1>3, <2>1
<1>5. Places = {<<>>} \union UNION {KidsAt(p) : p \in Places}
  <2>1. PICK D, K : D = Places /\ K = {KidsAt(p) : p \in Places}
    OBVIOUS
  <2>2. \A x : x \in UNION K <=> \E p \in Places : x \in KidsAt(p)
    BY <2>1
  <2>3. \A x : x \in D <=> x \in {<<>>} \union UNION K
    BY <1>4, <2>1, <2>2
  <2> QED
    BY <2>1, <2>3
<1> QED
  BY <1>5 DEF TreeWhole, KidsAt

LEMMA TInvDead == TInv => DeadGroupsLast
<1> SUFFICES ASSUME TInv, NEW p \in Places, Closed(p), groups[p].sum = 0
             PROVE  /\ outcome # "done"
                    /\ Top.type = "GROUP" /\ HasItems(groups, Here) /\ p = ItemPlace(groups, Here)
  BY DEF DeadGroupsLast
<1>0. p \in DOMAIN groups
  BY DEF Places
<1>1. Dead(groups, Path(stack), p)
  BY StackPath DEF Closed, Dead, Places
<1>2. Doing(stack) = "GROUP" /\ outcome # "done" /\ LastDead(groups, Path(stack))
  <2>1. IF Doing(stack) = "GROUP" /\ outcome # "done"
          THEN LastDead(groups, Path(stack)) ELSE NoneDead(groups, Path(stack))
    BY DEF TInv
  <2>2. ~NoneDead(groups, Path(stack))
    BY <1>0, <1>1 DEF NoneDead
  <2> QED
    BY <2>1, <2>2
<1>3. Here = Path(stack)[Len(Path(stack))] /\ Top.type = "GROUP"
  BY <1>2, StackFacts DEF TInv, Here, Top
<1>4. PICK path, here : path = Path(stack) /\ here = path[Len(path)]
  OBVIOUS
<1>5. HasItems(groups, here) /\ p = ItemPlace(groups, here)
  <2>1. LastDead(groups, path) /\ Dead(groups, path, p)
    BY <1>1, <1>2, <1>4
  <2> QED
    BY <1>0, <1>4, <2>1 DEF LastDead
<1>6. here = Here
  BY <1>3, <1>4
<1> QED
  BY <1>2, <1>3, <1>5, <1>6

\* What a group is to the parser, whether it failed or not.
LEMMA TreeRoles ==
  ASSUME TInv, NEW p \in Places
  PROVE  \E role : /\ groups[p] \in Groups /\ Well(groups[p], role, exact)
                   /\ role # "CLOSED" <=> OnStack(p)
                   /\ \/ role \in {"GROUP", "CLOSED", "CLOSING"}
                      \/ role = Doing(stack) /\ p = Here
                   /\ p = Here /\ Doing(stack) # "GROUP" => role = Doing(stack)
<1>1. PICK path, ex : path = Path(stack) /\ ex = exact
  OBVIOUS
<1>2. PICK top \in {Doing(stack), "CLOSING"} :
        Whole(groups, path, top, ex) /\ (top = "CLOSING" => Doing(stack) = "GROUP")
  BY <1>1 DEF TInv
<1>3. PICK role : role = Role(path, top, p)
  OBVIOUS
<1>4. groups[p] \in Groups /\ Well(groups[p], role, ex)
  BY <1>2, <1>3 DEF Whole, Typed, Places
<1>5. OnPath(path, path[Len(path)])
  BY <1>2, PathFacts DEF Whole
<1>6. role # "CLOSED" <=> OnStack(p)
  <2>1. top # "CLOSED"
    BY <1>2, StackFacts DEF TInv, Shut
  <2>2. OnStack(p) <=> OnPath(path, p)
    BY <1>1, StackPath
  <2> QED
    BY <1>3, <1>5, <2>1, <2>2 DEF Role
<1>7. Here = path[Len(path)]
  BY <1>1, StackFacts DEF TInv, Here, Top
<1>8. \/ role \in {"GROUP", "CLOSED", "CLOSING"}
      \/ role = Doing(stack) /\ p = Here
  BY <1>2, <1>3, <1>7 DEF Role
<1>9. p = Here /\ Doing(stack) # "GROUP" => role = Doing(stack)
  BY <1>2, <1>3, <1>7 DEF Role
<1> QED
  BY <1>1, <1>4, <1>6, <1>8, <1>9

LEMMA TInvZero == TInv => NoZeroSegments
<1> SUFFICES ASSUME TInv, NEW p \in Places, NEW s \in 1..Len(groups[p].segments),
                    groups[p].segments[s].multiplier = 0
             PROVE  OnStack(p) /\ s = Len(groups[p].segments)
  BY DEF NoZeroSegments
<1>1. PICK g, ex : g = groups[p] /\ ex = exact
  OBVIOUS
<1>2. PICK role : g \in Groups /\ Well(g, role, ex) /\ (role # "CLOSED" <=> OnStack(p))
  BY <1>1, TreeRoles
<1>3. Len(g.segments) \in Nat /\ g.segments \in Seq(Segments)
  BY <1>2 DEF Groups
<1>4. s = Len(g.segments)
  <2>1. s \notin 1..Len(g.segments) - 1
    BY <1>1, <1>2 DEF Well, Behind
  <2> QED
    BY <1>1, <1>3, <2>1
<1>5. g.segments # <<>> /\ Last(g.segments) = g.segments[s]
  BY <1>1, <1>3, <1>4 DEF Last
<1>6. role # "CLOSED"
  BY <1>1, <1>2, <1>5 DEF Well, Ahead, Shut
<1> QED
  BY <1>1, <1>2, <1>4, <1>6

\* Every item is sound but the set that is being read.
LEMMA ItemsSound ==
  ASSUME TInv, NEW p \in Places, NEW n \in ItemIndexes(p), NEW item, item = ItemAt(p, n)
  PROVE  \/ Sound(item)
         \/ /\ item.kind = "SET" /\ item = Item /\ p = Here
            /\ Top.type \in {"SET", "SET_RANGE"}
<1>1. PICK g, ex, doing : g = groups[p] /\ ex = exact /\ doing = Doing(stack)
  OBVIOUS
<1>2. PICK role : /\ g \in Groups /\ Well(g, role, ex)
                  /\ \/ role \in {"GROUP", "CLOSED", "CLOSING"}
                     \/ role = doing /\ p = Here
  BY <1>1, TreeRoles
<1>3. PICK s, i : s \in 1..Len(g.segments) /\ i \in 1..Len(g.segments[s].items) /\ n = <<s, i>>
  BY <1>1 DEF ItemIndexes
<1>4. item = g.segments[s].items[i]
  BY <1>1, <1>3 DEF ItemAt
<1>5. Len(g.segments) \in Nat /\ g.segments # <<>>
  BY <1>2, <1>3 DEF Groups
<1>6. CASE s # Len(g.segments)
  <2>1. s \in 1..Len(g.segments) - 1
    BY <1>3, <1>5, <1>6
  <2>2. AllSound(g.segments[s].items)
    BY <1>2, <2>1 DEF Well, Behind
  <2> QED
    BY <1>3, <1>4, <2>2 DEF AllSound
<1>7. CASE s = Len(g.segments)
  <2>1. PICK items : items = Last(g.segments).items
    OBVIOUS
  <2>2. items = g.segments[s].items
    BY <1>7, <2>1 DEF Last
  <2>3. ItemsFit(items, role)
    BY <1>2, <1>5, <2>1 DEF Well, Ahead
  <2>4. items \in Seq(Items) /\ Len(items) \in Nat /\ i \in 1..Len(items) /\ item = items[i]
    <3>1. items \in Seq(Items)
      BY <1>2, <1>5, <2>1, LastSegment
    <3>2. i \in 1..Len(items) /\ item = items[i]
      BY <1>3, <1>4, <2>2
    <3> QED
      BY <3>1, <3>2
  <2>5. CASE AllSound(items)
    BY <2>4, <2>5 DEF AllSound
  <2>6. CASE role \in {"SET", "SET_RANGE"}
    <3>1. items # <<>> /\ AllSound(Front(items)) /\ Last(items).kind = "SET"
      BY <2>3, <2>6, FitFacts DEF Reading
    <3>2. CASE i # Len(items)
      <4>1. i \in 1..Len(items) - 1
        BY <2>4, <3>2
      <4>2. Len(Front(items)) = Len(items) - 1 /\ Front(items)[i] = items[i]
        BY <2>4, <3>1, <4>1, LastFacts
      <4> QED
        BY <2>4, <3>1, <4>1, <4>2 DEF AllSound
    <3>3. CASE i = Len(items)
      <4>1. item = Last(items) /\ role = doing /\ p = Here
        BY <1>2, <2>4, <2>6, <3>3 DEF Last
      <4>2. Item = Last(items)
        BY <1>1, <2>1, <4>1 DEF Item, LastItem, Segment
      <4>3. Top.type \in {"SET", "SET_RANGE"}
        <5>1. stack[Len(stack)].ranged => stack[Len(stack)].type \in {"SET", "SET_RANGE"}
          BY DEF TInv, Stacked
        <5>2. doing = IF Top.ranged THEN "SET_RANGE" ELSE Top.type
          BY <1>1 DEF Doing, Top
        <5> QED
          BY <2>6, <4>1, <5>1, <5>2 DEF Top
      <4> QED
        BY <3>1, <4>1, <4>2, <4>3
    <3> QED
      BY <3>2, <3>3
  <2>7. CASE ~AllSound(items) /\ role \notin {"SET", "SET_RANGE"}
    <3>1. role # "MULTIPLIER"
      <4>1. role = "MULTIPLIER" => items = <<>>
        BY <2>3 DEF ItemsFit
      <4>2. Len(<<>>) = 0
        BY EmptySeq
      <4> QED
        BY <2>4, <4>1, <4>2
    <3>2. role \in {"REPEAT", "REPEAT_RANGE", "SPECIAL", "SPECIAL_NAME"} => AllSound(items)
      BY <2>3, FitFacts
    <3>3. role \notin {"REPEAT", "REPEAT_RANGE", "SPECIAL", "SPECIAL_NAME"} => AllSound(items)
      BY <2>3, <2>7, <3>1 DEF ItemsFit
    <3> QED
      BY <2>7, <3>2, <3>3
  <2> QED
    BY <2>5, <2>6, <2>7
<1> QED
  BY <1>6, <1>7

LEMMA TInvModifier == TInv => ModifierApart
<1> SUFFICES ASSUME TInv, NEW p \in Places, NEW n \in ItemIndexes(p), NEW item,
                    item = ItemAt(p, n), item.kind = "LITERAL"
             PROVE  /\ Len(item.chars) \in 1..MaxChars
                    /\ item.tainted => Len(item.chars) = 1
                    /\ item.maybe \/ item.min # 1 \/ item.max # 1 => item.tainted
  BY DEF ModifierApart
<1>1. Sound(item)
  BY ItemsSound
<1> QED
  BY <1>1 DEF Sound

LEMMA TInvSets == TInv => SetsChoosable
<1> SUFFICES ASSUME TInv, NEW p \in Places, NEW n \in ItemIndexes(p), NEW item,
                    item = ItemAt(p, n), item.kind = "SET",
                    ~(Top.type \in {"SET", "SET_RANGE"} /\ Here = p /\ item = Item)
             PROVE  /\ Len(item.choices) = Len(item.ranges)
                    /\ Countable(item.ranges) =>
                         \A i \in 1..Len(item.choices) :
                           item.choices[i] - (IF i = 1 THEN 0 ELSE item.choices[i-1]) > 0
  BY DEF SetsChoosable
<1>1. Sound(item)
  BY ItemsSound
<1> QED
  BY <1>1 DEF Sound, Rises

\* The running sums of SumOf, of a group's segments if the current group is here and its
\* top state of this type.
Summed(segments, p, type, here) ==
  CHOOSE f : f = [s \in 0..Len(segments) |->
                    IF s = 0 THEN 0
                    ELSE (f[s-1] +
                            (IF (type = "MULTIPLIER" /\ here = p) /\ s = Len(segments)
                               THEN 0 ELSE segments[s].multiplier)) % Word]

LEMMA SumFound ==
  ASSUME NEW segments, NEW p, NEW type, NEW here, NEW n \in Nat, n = Len(segments),
         NEW M, M = [s \in 1..n |-> IF (type = "MULTIPLIER" /\ here = p) /\ s = n
                                      THEN 0 ELSE segments[s].multiplier],
         NEW x, AddUp(M, n, x)
  PROVE  Summed(segments, p, type, here)[n] = x
<1>1. PICK total : total = Summed(segments, p, type, here)
  OBVIOUS
<1>2. PICK T \in [0..n -> Numbers] : T[0] = 0 /\ \A i \in 1..n : T[i] = (T[i-1] + M[i]) % Word
  BY DEF AddUp
<1>3. \A s \in 0..n : s = 0 \/ (s # 0 /\ s \in 1..n)
  OBVIOUS
<1>4. T = [s \in 0..n |->
             IF s = 0 THEN 0
             ELSE (T[s-1] +
                     (IF (type = "MULTIPLIER" /\ here = p) /\ s = n
                        THEN 0 ELSE segments[s].multiplier)) % Word]
  <2>1. T = [s \in 0..n |-> T[s]]
    OBVIOUS
  <2>2. \A s \in 1..n : T[s] = (T[s-1] + (IF (type = "MULTIPLIER" /\ here = p) /\ s = n
                                            THEN 0 ELSE segments[s].multiplier)) % Word
    BY <1>2
  <2>3. \A s \in 0..n : T[s] = IF s = 0 THEN 0
             ELSE (T[s-1] +
                     (IF (type = "MULTIPLIER" /\ here = p) /\ s = n
                        THEN 0 ELSE segments[s].multiplier)) % Word
    BY <1>2, <1>3, <2>2
  <2> QED
    BY <2>1, <2>3
<1>5. total = [s \in 0..n |->
                 IF s = 0 THEN 0
                 ELSE (total[s-1] +
                         (IF (type = "MULTIPLIER" /\ here = p) /\ s = n
                            THEN 0 ELSE segments[s].multiplier)) % Word]
  BY <1>1, <1>4, ZenonT(30) DEF Summed
<1>6. total[0] = 0
  <2>1. 0 \in 0..n
    OBVIOUS
  <2> QED
    BY <1>5, <2>1
<1>7. \A i \in 1..n : total[i] = (total[i-1] + M[i]) % Word
  <2> SUFFICES ASSUME NEW i \in 1..n
               PROVE  total[i] = (total[i-1] + M[i]) % Word
    OBVIOUS
  <2>1. i \in 0..n /\ i # 0
    OBVIOUS
  <2> QED
    BY <1>5, <2>1
<1> QED
  BY <1>1, <1>6, <1>7, AddUpUnique, SMTT(30)


LEMMA TInvSums == TInv => SumExact
<1> SUFFICES ASSUME TInv, exact, NEW p \in Places
             PROVE  SumRight(p)
  BY DEF SumExact
<1>1. PICK g, type, here, segments, n :
        /\ g = groups[p] /\ type = Top.type /\ here = Here
        /\ segments = g.segments /\ n = Len(segments)
  OBVIOUS
<1>2. PICK role : /\ g \in Groups /\ Well(g, role, exact)
                  /\ role # "CLOSED" <=> OnStack(p)
                  /\ \/ role \in {"GROUP", "CLOSED", "CLOSING"}
                     \/ role = Doing(stack) /\ p = Here
                  /\ p = Here /\ Doing(stack) # "GROUP" => role = Doing(stack)
  BY <1>1, TreeRoles
<1>3. Counted(g, role)
  BY <1>2 DEF Well
<1>4. type = "MULTIPLIER" /\ here = p <=> role = "MULTIPLIER"
  <2>1. stack[Len(stack)].ranged => stack[Len(stack)].type \in {"SET", "SET_RANGE"}
    BY DEF TInv, Stacked
  <2>2. Doing(stack) = IF Top.ranged THEN "SET_RANGE" ELSE Top.type
    BY DEF Doing, Top
  <2>3. Doing(stack) = "MULTIPLIER" <=> type = "MULTIPLIER"
    BY <1>1, <2>1, <2>2 DEF Top
  <2> QED
    BY <1>1, <1>2, <2>3
<1>5. CASE role = "CLOSED" /\ g.sum = 0
  BY <1>1, <1>2, <1>5 DEF SumRight, Closed
<1>6. CASE ~(role = "CLOSED" /\ g.sum = 0)
  <2>1. PICK M, N : /\ M = Multipliers(g)
                    /\ N = [s \in 1..n |-> IF (type = "MULTIPLIER" /\ here = p) /\ s = n
                                             THEN 0 ELSE segments[s].multiplier]
    OBVIOUS
  <2>2. n \in Nat
    BY <1>1, <1>2 DEF Groups
  <2>3. \A s \in 1..n : M[s] = segments[s].multiplier
    BY <1>1, <2>1 DEF Multipliers
  <2>4. AddUp(M, IF role = "MULTIPLIER" THEN n - 1 ELSE n, g.sum)
    BY <1>1, <1>3, <1>6, <2>1 DEF Counted
  <2>5. AddUp(N, n, g.sum)
    <3>1. CASE role # "MULTIPLIER"
      <4>1. \A i \in 1..n : N[i] = M[i]
        BY <1>4, <2>1, <2>3, <3>1
      <4>2. AddUp(M, n, g.sum)
        BY <2>4, <3>1
      <4> QED
        BY <2>2, <4>1, <4>2, AddUpSame
    <3>2. CASE role = "MULTIPLIER"
      <4>1. g.segments # <<>>
        BY <1>2, <3>2 DEF Well, Ahead, Shut
      <4>2. PICK k, x : k = n - 1 /\ x = g.sum
        OBVIOUS
      <4>3. k \in Nat /\ n = k + 1 /\ n \in 1..n
        <5>1. n # 0
          BY <1>1, <1>2, <4>1 DEF Groups
        <5> QED
          BY <2>2, <4>2, <5>1
      <4>4. \A i \in 1..k : i \in 1..n /\ i # n
        BY <2>2, <4>3
      <4>5. \A i \in 1..k : N[i] = M[i]
        BY <2>1, <2>3, <4>4
      <4>6. AddUp(M, k, x)
        BY <2>4, <3>2, <4>2
      <4>7. AddUp(N, k, x)
        BY <4>3, <4>5, <4>6, AddUpSame
      <4>8. N[n] = 0
        BY <1>4, <2>1, <3>2, <4>3
      <4>9. AddUp(N, n, (x + N[n]) % Word)
        <5>1. N[n] \in Nat
          BY <4>8
        <5>2. n = k + 1
          BY <4>3
        <5> QED
          BY <4>3, <4>7, <5>1, <5>2, AddUpNext
      <4>10. x \in Numbers
        BY <4>3, <4>6, AddUpNumber
      <4>11. (x + N[n]) % Word = x
        BY <4>8, <4>10, NumberFacts
      <4> QED
        BY <4>2, <4>9, <4>11
    <3> QED
      BY <3>1, <3>2
  <2>6. Summed(segments, p, type, here)[n] = g.sum
    BY <1>1, <2>1, <2>2, <2>5, SumFound, SMTT(30)
  <2>7. SumOf(p) = Summed(segments, p, type, here)[n]
    BY <1>1 DEF SumOf, Summed
  <2> QED
    BY <1>1, <2>6, <2>7 DEF SumRight
<1> QED
  BY <1>5, <1>6

\* What a step leaves alone, said of the parser's states.
LEMMA BehindStep ==
  TInv /\ [Next]_vars =>
    [\A p \in Places \intersect DOMAIN groups' :
       /\ Closed(p) /\ groups[p].sum # 0 => groups'[p] = groups[p]
       /\ OnStack(p) => \A s \in 1..Len(groups[p].segments) - 1 :
                          groups'[p].segments[s] = groups[p].segments[s]]_vars
<1> SUFFICES ASSUME TInv, [Next]_vars, NEW p \in Places \intersect DOMAIN groups'
             PROVE  /\ Closed(p) /\ groups[p].sum # 0 => groups'[p] = groups[p]
                    /\ OnStack(p) => \A s \in 1..Len(groups[p].segments) - 1 :
                                       groups'[p].segments[s] = groups[p].segments[s]
  OBVIOUS
<1>1. Frozen(groups, Path(stack), groups')
  BY NextStepped DEF Stepped
<1>2. OnStack(p) <=> OnPath(Path(stack), p)
  BY StackPath
<1>3. PICK path, h, h2 : path = Path(stack) /\ h = groups /\ h2 = groups'
  OBVIOUS
<1>4. p \in DOMAIN h \intersect DOMAIN h2
  BY <1>3 DEF Places
<1>5. /\ ~OnPath(path, p) /\ h[p].sum # 0 => h2[p] = h[p]
      /\ OnPath(path, p) => \A s \in 1..Len(h[p].segments) - 1 :
                              h2[p].segments[s] = h[p].segments[s]
  <2>1. Frozen(h, path, h2)
    BY <1>1, <1>3
  <2> QED
    BY <1>4, <2>1 DEF Frozen
<1> QED
  BY <1>2, <1>3, <1>5 DEF Closed

\* The variables that only count.
Counting ==
  /\ alphabet \in Alphabets /\ limit \in Limits /\ fed \in 0..alphabet.most
  /\ outcome \in {"open", "done", "failed", "astray"}

\* A token that the parser does not refuse leaves it open.
LEMMA TokenAccepted ==
  ASSUME NEW t, ParseToken(t), ~Reject(t), ~NameCharAstray(t)
  PROVE  Accept /\ outcome = "open"
BY DEF ParseToken, NextSegment, CloseGroup, OpenGroup, OpenSet, OpenRepeat,
     OpenMultiplier, Maybe, OpenSpecial, Literal, CloseSet, ExtendRange, AddRange, EndRange,
     MultiplierDigit, CloseMultiplier, RepeatDigit, RepeatUpTo, CloseRepeat, OpenName,
     NameChar, CloseName, In

LEMMA TokenOutcome ==
  ASSUME NEW t, ParseToken(t)
  PROVE  outcome' \in {"open", "failed", "astray"}
<1>1. CASE Reject(t) \/ NameCharAstray(t)
  BY <1>1 DEF Reject, NameCharAstray
<1>2. CASE ~Reject(t) /\ ~NameCharAstray(t)
  BY <1>2, TokenAccepted DEF Accept
<1> QED
  BY <1>1, <1>2

LEMMA CountingKept == Counting /\ [Next]_vars => Counting'
<1> SUFFICES ASSUME Counting, [Next]_vars PROVE Counting'
  OBVIOUS
<1>1. alphabet.most \in Nat
  BY AlphabetsAssumption DEF Counting
<1>2. CASE Accept
  <2>1. fed \in Nat /\ fed + 1 <= alphabet.most
    BY <1>1, <1>2 DEF Accept, Counting
  <2>2. fed + 1 \in 0..alphabet.most
    BY <1>1, <2>1
  <2> QED
    BY <1>2, <2>2 DEF Accept, Counting
<1>3. CASE Finish
  BY <1>3 DEF Finish, Counting
<1>4. CASE \E t : Reject(t) \/ NameCharAstray(t)
  BY <1>4 DEF Reject, NameCharAstray, Counting
<1>5. CASE UNCHANGED vars
  BY <1>5 DEF vars, Counting
<1>6. ASSUME NEW t, ParseToken(t), ~Reject(t), ~NameCharAstray(t)
      PROVE  Accept
  BY <1>6, TokenAccepted
<1> QED
  BY <1>2, <1>3, <1>4, <1>5, <1>6 DEF Next

LEMMA TInvType == TInv /\ Counting => TypeOK
<1> SUFFICES ASSUME TInv, Counting PROVE TypeOK
  OBVIOUS
<1>1. exact \in BOOLEAN
  BY DEF TInv
<1>2. PICK path, n, d : path = Path(stack) /\ n = Len(stack) /\ d = Depth(stack)
  OBVIOUS
<1>3. Typed(groups) /\ Chained(groups, path)
  BY <1>2 DEF TInv, Whole
<1>4. ASSUME NEW i \in 1..n
      PROVE  /\ stack[i].type \in {"GROUP", "MULTIPLIER", "SET", "SET_RANGE", "REPEAT",
                                   "REPEAT_RANGE", "SPECIAL", "SPECIAL_NAME"}
             /\ stack[i].group \in Places
  <2>1. stack \in Seq(States)
    BY DEF TInv, Stacked
  <2>2. stack[i] \in States
    BY <1>2, <2>1
  <2>3. /\ n \in Nat /\ d \in Nat /\ d >= 1
        /\ Doing(stack) = "GROUP" => d = n
        /\ Doing(stack) # "GROUP" => d = n - 1
        /\ Len(path) = d /\ path[d] = stack[n].group
        /\ \A j \in 1..d : path[j] = stack[j].group
    BY <1>2, StackFacts DEF TInv
  <2>4. PICK D : D = DOMAIN groups
    OBVIOUS
  <2>5. path \in Seq(D)
    BY <1>3, <2>4 DEF Chained
  <2>6. \A j \in 1..d : path[j] \in D
    BY <2>3, <2>5
  <2>7. i \in 1..d \/ i = n
    BY <2>3
  <2>8. d \in 1..d
    BY <2>3
  <2>9. stack[i].group \in D
    BY <2>3, <2>6, <2>7, <2>8
  <2> QED
    BY <2>2, <2>4, <2>9 DEF States, Places
<1>5. ASSUME NEW p \in Places
      PROVE  /\ groups[p].sum \in Numbers
             /\ \A s \in 1..Len(groups[p].segments) :
                  groups[p].segments[s].multiplier \in Numbers
             /\ \A m \in ItemIndexes(p) :
                  LET item == ItemAt(p, m) IN
                  /\ item.kind \in {"LITERAL", "SET", "GROUP", "SPECIAL"}
                  /\ item.min \in Numbers /\ item.max \in Numbers /\ item.maybe \in BOOLEAN
  <2>1. PICK g : g = groups[p]
    OBVIOUS
  <2>2. g \in Groups
    BY <1>3, <2>1 DEF Typed, Places
  <2>3. \A s \in 1..Len(g.segments) : g.segments[s] \in Segments
    BY <2>2 DEF Groups
  <2>4. ASSUME NEW m \in ItemIndexes(p)
        PROVE  ItemAt(p, m) \in Items
    <3>1. PICK s, i : /\ s \in 1..Len(g.segments) /\ i \in 1..Len(g.segments[s].items)
                      /\ m = <<s, i>>
      BY <2>1 DEF ItemIndexes
    <3>2. ItemAt(p, m) = g.segments[s].items[i]
      BY <2>1, <3>1 DEF ItemAt
    <3>3. PICK items : items = g.segments[s].items
      OBVIOUS
    <3>4. items \in Seq(Items) /\ i \in 1..Len(items)
      BY <2>3, <3>1, <3>3 DEF Segments
    <3> QED
      BY <3>2, <3>3, <3>4, ElementOfSeq
  <2>5. \A s \in 1..Len(g.segments) : g.segments[s].multiplier \in Numbers
    BY <2>3 DEF Segments
  <2>6. \A m \in ItemIndexes(p) :
          LET item == ItemAt(p, m) IN
          /\ item.kind \in {"LITERAL", "SET", "GROUP", "SPECIAL"}
          /\ item.min \in Numbers /\ item.max \in Numbers /\ item.maybe \in BOOLEAN
    BY <2>4 DEF Items, Kinds
  <2> QED
    BY <2>1, <2>2, <2>5, <2>6 DEF Groups
<1> QED
  BY <1>1, <1>2, <1>4, <1>5 DEF TypeOK, Counting

-----------------------------------------------------------------------------
LEMMA InvariantHolds == Spec => []TInv
<1> QED
  BY InitTInv, NextStepped, PTL DEF Spec, Stepped

\* Every variable of the parser keeps to its type: what the states name are groups of the
\* tree, and the numbers read from the pattern stay in a size_t.
THEOREM TypesHold == Spec => []TypeOK
<1>1. Init => Counting
  <2> SUFFICES ASSUME Init PROVE Counting
    OBVIOUS
  <2>1. alphabet.most \in Nat
    BY AlphabetsAssumption DEF Init
  <2> QED
    BY <2>1 DEF Init, Counting
<1> QED
  BY <1>1, InvariantHolds, CountingKept, TInvType, PTL DEF Spec

\* The tree that passgen_parse_token builds in place is one the parser can go on with,
\* whatever it is fed: its states point to what they take it for, nothing dangles or is
\* left over after a removal, and a group that derives nothing or a segment that is never
\* chosen stays only where the next token removes it.
THEOREM TreeStaysSound == Spec => []TreeSound
<1>1. TInv => TreeSound
  BY TInvPointers, TInvTree, TInvDead, TInvZero DEF TreeSound
<1> QED
  BY <1>1, InvariantHolds, PTL

\* '?' and '{' modify one codepoint: last_single_item_taint has split it off its literal
\* before, and no character joins it after.
THEOREM ModifiersStayApart == Spec => []ModifierApart
BY TInvModifier, InvariantHolds, PTL

\* The sums that the generator chooses below are those its walks over segments and ranges
\* add up to: group->multiplier_sum, as long as it may be relied on, and a set's choices.
THEOREM SumsAreWalked == Spec => []Choosable
<1>1. TInv => Choosable
  BY TInvSums, TInvSets DEF Choosable
<1> QED
  BY <1>1, InvariantHolds, PTL

\* Parsing only touches the current segments of the open groups: a closed group that can
\* derive something and the segments left behind never change.
THEOREM ParsedStaysParsed == Spec => BehindFrozen
BY BehindStep, InvariantHolds, PTL DEF Spec, BehindFrozen

-----------------------------------------------------------------------------
(* The generator, and the whole way from a string to a password.           *)

IsCall(c) ==
  c = [group |-> c.group, segment |-> c.segment, item |-> c.item, reps |-> c.reps]

\* Every group below the innermost one has chosen its segment, and the depth is
\* shared between the open groups and what is left.
CallsInv ==
  /\ \E S : calls \in Seq(S)
  /\ \A i \in 1..Len(calls) : IsCall(calls[i])
  /\ \A i \in 1..Len(calls)-1 : calls[i].segment # 0
  /\ depth \in Nat /\ depthLimit \in Nat
  /\ result = "running" => Len(calls) >= 1
  /\ result = "done" => calls = <<>>
  /\ DepthBalanced

RoomInv ==
  /\ buffer.writer \in {"unicode", "utf8", "json"}
  /\ buffer.room \in Nat /\ used \in Nat
  /\ WithinRoom

-----------------------------------------------------------------------------
(* The sequence of calls.                                                  *)

LEMMA LastCall == Frame = calls[Len(calls)]
BY DEF Frame, Last

\* The sequence without its last element.
LEMMA FrontOfSequence ==
  ASSUME NEW S, NEW s \in Seq(S), Len(s) >= 1
  PROVE  /\ Front(s) \in Seq(S)
         /\ Len(Front(s)) = Len(s) - 1
         /\ \A i \in 1..Len(s)-1 : Front(s)[i] = s[i]
<1>1. Len(s) \in Nat
  BY LenProperties
<1>2. PICK n \in Nat : n = Len(s) - 1
  BY <1>1
<1>3. \A i \in 1..n : s[i] \in S
  BY <1>1, <1>2, ElementOfSeq
<1>4. /\ SubSeq(s, 1, n) \in Seq(S)
      /\ Len(SubSeq(s, 1, n)) = IF 1 <= n THEN n - 1 + 1 ELSE 0
      /\ \A i \in 1..n-1+1 : SubSeq(s, 1, n)[i] = s[1+i-1]
  BY <1>3, SubSeqProperties
<1>5. (IF 1 <= n THEN n - 1 + 1 ELSE 0) = n /\ n - 1 + 1 = n
  OBVIOUS
<1>6. \A i \in 1..n : 1 + i - 1 = i
  OBVIOUS
<1>7. /\ Len(SubSeq(s, 1, n)) = n
      /\ \A i \in 1..n : SubSeq(s, 1, n)[i] = s[i]
  BY <1>4, <1>5, <1>6, Zenon
<1>8. Front(s) = SubSeq(s, 1, n)
  BY <1>2 DEF Front
<1> QED
  BY <1>2, <1>4, <1>7, <1>8, Zenon

LEMMA Extended ==
  ASSUME NEW S, NEW s \in Seq(S), NEW x
  PROVE  /\ \E T : Append(s, x) \in Seq(T)
         /\ Len(Append(s, x)) = Len(s) + 1
         /\ Append(s, x)[Len(s) + 1] = x
         /\ \A i \in 1..Len(s) : Append(s, x)[i] = s[i]
<1> DEFINE T == S \union {x}
<1>1. s \in Seq(T) /\ x \in T
  OBVIOUS
<1> HIDE DEF T
<1>2. Append(s, x) \in Seq(T) /\ Len(Append(s, x)) = Len(s) + 1
  BY <1>1, AppendProperties
<1>3. /\ Append(s, x)[Len(s) + 1] = x
      /\ \A i \in 1..Len(s) : Append(s, x)[i] = s[i]
  BY <1>1, AppendProperties
<1> QED
  BY <1>2, <1>3

\* The innermost call is replaced: those below it stay.
LEMMA FrameSet ==
  ASSUME NEW S, NEW s \in Seq(S), Len(s) >= 1, NEW x
  PROVE  /\ \E T : Append(Front(s), x) \in Seq(T)
         /\ Len(Append(Front(s), x)) = Len(s)
         /\ Append(Front(s), x)[Len(s)] = x
         /\ \A i \in 1..Len(s)-1 : Append(Front(s), x)[i] = s[i]
<1> DEFINE f == Front(s)
<1>1. /\ f \in Seq(S) /\ Len(f) = Len(s) - 1
      /\ \A i \in 1..Len(s)-1 : f[i] = s[i]
  BY FrontOfSequence
<1> HIDE DEF f
<1>2. Len(s) \in Nat /\ Len(f) + 1 = Len(s)
  BY <1>1, LenProperties
<1>3. /\ \E T : Append(f, x) \in Seq(T)
      /\ Len(Append(f, x)) = Len(f) + 1
      /\ Append(f, x)[Len(f) + 1] = x
      /\ \A i \in 1..Len(f) : Append(f, x)[i] = f[i]
  BY <1>1, Extended, ZenonT(30)
<1>4. \A i \in 1..Len(s)-1 : Append(f, x)[i] = s[i]
  BY <1>1, <1>3, Zenon
<1>5. Len(Append(f, x)) = Len(s) /\ Append(f, x)[Len(s)] = x
  BY <1>2, <1>3, Zenon
<1> QED
  BY <1>3, <1>4, <1>5, Zenon DEF f

\* A running generation in terms of its innermost call.
LEMMA Running ==
  ASSUME CallsInv, result = "running"
  PROVE  /\ calls # <<>> /\ Len(calls) \in Nat /\ Len(calls) >= 1
         /\ Frame = calls[Len(calls)] /\ IsCall(Frame)
         /\ Frame.segment = 0 => depth + (Len(calls) - 1) = depthLimit
         /\ Frame.segment # 0 => depth + Len(calls) = depthLimit
<1>1. PICK S : calls \in Seq(S)
  BY DEF CallsInv
<1>2. Len(calls) \in Nat /\ Len(calls) >= 1 /\ calls # <<>>
  BY <1>1, LenProperties DEF CallsInv
<1>3. Frame = calls[Len(calls)] /\ IsCall(Frame)
  BY <1>2, LastCall DEF CallsInv
<1>4. depth + Nesting = depthLimit
  BY DEF CallsInv, DepthBalanced
<1> QED
  BY <1>2, <1>3, <1>4 DEF Nesting

\* What is to show of the calls of a generation that goes on.
LEMMA StillRunning ==
  ASSUME NEW n \in Nat, n >= 1, Len(calls') = n,
         \E T : calls' \in Seq(T),
         \A i \in 1..n-1 : IsCall(calls'[i]) /\ calls'[i].segment # 0,
         IsCall(calls'[n]),
         depth' \in Nat, depthLimit' \in Nat, result' = "running",
         calls'[n].segment = 0 => depth' + (n - 1) = depthLimit',
         calls'[n].segment # 0 => depth' + n = depthLimit'
  PROVE  CallsInv'
<1>1. calls' # <<>>
  OBVIOUS
<1>2. Frame' = calls'[n]
  BY DEF Frame, Last
<1>3. Nesting' = IF calls'[n].segment = 0 THEN n - 1 ELSE n
  BY <1>1, <1>2 DEF Nesting
<1>4. DepthBalanced'
  BY <1>3 DEF DepthBalanced
<1>5. \A i \in 1..n : IsCall(calls'[i])
  <2> SUFFICES ASSUME NEW i \in 1..n PROVE IsCall(calls'[i])
    OBVIOUS
  <2>1. i \in 1..n-1 \/ i = n
    OBVIOUS
  <2> QED
    BY <2>1
<1> QED
  BY <1>4, <1>5 DEF CallsInv

\* The innermost call changes and still has, or now has, a segment.
LEMMA FrameChanged ==
  ASSUME CallsInv, result = "running", UNCHANGED depthLimit, result' = "running",
         NEW frame, IsCall(frame), frame.segment # 0, calls' = SetFrame(frame),
         depth' \in Nat, depth' + Len(calls) = depthLimit
  PROVE  CallsInv'
<1>1. PICK S : calls \in Seq(S)
  BY DEF CallsInv
<1>2. Len(calls) \in Nat /\ Len(calls) >= 1
  BY Running
<1>3. /\ \E T : calls' \in Seq(T)
      /\ Len(calls') = Len(calls)
      /\ calls'[Len(calls)] = frame
      /\ \A i \in 1..Len(calls)-1 : calls'[i] = calls[i]
  <2>1. calls' = Append(Front(calls), frame)
    BY DEF SetFrame
  <2>2. /\ \E T : Append(Front(calls), frame) \in Seq(T)
        /\ Len(Append(Front(calls), frame)) = Len(calls)
        /\ Append(Front(calls), frame)[Len(calls)] = frame
        /\ \A i \in 1..Len(calls)-1 : Append(Front(calls), frame)[i] = calls[i]
    BY <1>1, <1>2, FrameSet, ZenonT(30)
  <2> HIDE DEF CallsInv
  <2> QED
    BY <2>1, <2>2, Zenon
<1>4. depthLimit' \in Nat
  BY DEF CallsInv
<1>5. \A i \in 1..Len(calls)-1 : IsCall(calls'[i]) /\ calls'[i].segment # 0
  <2>1. \A i \in 1..Len(calls)-1 : i \in 1..Len(calls)
    BY <1>2
  <2> QED
    BY <1>3, <2>1, Zenon DEF CallsInv
<1> QED
  BY <1>2, <1>3, <1>4, <1>5, StillRunning

\* A running generation that keeps its depth and the segment of its innermost call.
LEMMA FrameStays ==
  ASSUME CallsInv, AtItems, UNCHANGED <<depth, depthLimit, result>>,
         NEW frame, IsCall(frame), frame.segment = Frame.segment,
         calls' = SetFrame(frame)
  PROVE  CallsInv'
<1>1. result = "running" /\ result' = "running" /\ Frame.segment # 0
  BY DEF AtItems
<1>2. depth' \in Nat /\ depth' + Len(calls) = depthLimit
  BY <1>1, Running DEF CallsInv
<1> QED
  BY <1>1, <1>2, FrameChanged

\* The calls stay as they are while the generation goes on.
LEMMA CallsKept ==
  ASSUME CallsInv, UNCHANGED <<calls, depth, depthLimit, result>>
  PROVE  CallsInv'
BY DEF CallsInv, DepthBalanced, Nesting, Frame

\* Once the generation failed or went astray nothing is claimed of the depth.
LEMMA CallsGivenUp ==
  ASSUME CallsInv, UNCHANGED <<calls, depthLimit>>, depth' \in Nat,
         result' \in {"failed", "astray"}
  PROVE  CallsInv'
BY DEF CallsInv, DepthBalanced

\* Records and their fields.
LEMMA CallRecords ==
  /\ \A place : IsCall(Call(place)) /\ Call(place).segment = 0
  /\ \A c, n : IsCall(c) =>
       /\ IsCall([c EXCEPT !.segment = n]) /\ [c EXCEPT !.segment = n].segment = n
       /\ IsCall([c EXCEPT !.reps = n]) /\ [c EXCEPT !.reps = n].segment = c.segment
  /\ \A n : IsCall(NextItem(n)) /\ NextItem(n).segment = Frame.segment
<1>1. \A place : IsCall(Call(place)) /\ Call(place).segment = 0
  BY DEF IsCall, Call
<1>2. \A c, n : IsCall(c) =>
       /\ IsCall([c EXCEPT !.segment = n]) /\ [c EXCEPT !.segment = n].segment = n
  BY DEF IsCall
<1>3. \A c, n : IsCall(c) =>
       /\ IsCall([c EXCEPT !.reps = n]) /\ [c EXCEPT !.reps = n].segment = c.segment
  BY DEF IsCall
<1>4. \A n : IsCall(NextItem(n)) /\ NextItem(n).segment = Frame.segment
  BY DEF IsCall, NextItem
<1> QED
  BY <1>1, <1>2, <1>3, <1>4

-----------------------------------------------------------------------------
(* One lemma per step: what it does to the calls and the depth.            *)

LEMMA IdleCalls == Idle => CallsInv
<1> SUFFICES ASSUME Idle PROVE CallsInv
  OBVIOUS
<1>1. calls = <<>> /\ calls \in Seq({}) /\ Len(calls) = 0
  BY DEF Idle
<1> QED
  BY <1>1 DEF Idle, CallsInv, DepthBalanced

LEMMA BeginCalls ==
  ASSUME Begin
  PROVE  CallsInv'
<1>1. /\ depthLimit' \in Nat /\ depth' = depthLimit' /\ result' = "running"
      /\ calls' = <<Call(<<>>)>>
  BY DepthLimitsAssumption DEF Begin
<1> DEFINE c == Call(<<>>)
<1>2. IsCall(c) /\ c.segment = 0
  BY CallRecords
<1> HIDE DEF c
<1>3. calls' \in Seq({c}) /\ Len(calls') = 1 /\ calls'[1] = c
  BY <1>1 DEF c
<1>4. \E T : calls' \in Seq(T)
  BY <1>3
<1>5. depth' + (1 - 1) = depthLimit' /\ IsCall(calls'[1]) /\ calls'[1].segment = 0
  <2>1. \A d \in Nat : d + (1 - 1) = d
    OBVIOUS
  <2>2. depth' + (1 - 1) = depthLimit'
    BY <1>1, <2>1, Zenon
  <2> QED
    BY <1>2, <1>3, <2>2, Zenon
<1>6. \A i \in 1..1-1 : IsCall(calls'[i]) /\ calls'[i].segment # 0
  OBVIOUS
<1>7. depth' \in Nat /\ 1 \in Nat /\ 1 >= 1
  BY <1>1
<1> QED
  BY <1>1, <1>3, <1>4, <1>5, <1>6, <1>7, StillRunning

LEMMA ChooseCalls ==
  ASSUME CallsInv, NEW choice, ChooseSegment(choice)
  PROVE  CallsInv'
<1>1. /\ result = "running" /\ Frame.segment = 0 /\ depth > 0
      /\ depth' = depth - 1 /\ UNCHANGED <<depthLimit, result>>
  BY DEF ChooseSegment, Entering
<1>2. PICK n \in Chosen(Group.segments, choice) :
        calls' = SetFrame([Frame EXCEPT !.segment = n])
  BY DEF ChooseSegment
<1>3. n # 0
  BY <1>2 DEF Chosen
<1>4. depth' \in Nat /\ depth' + Len(calls) = depthLimit
  BY <1>1, Running DEF CallsInv
<1> DEFINE frame == [Frame EXCEPT !.segment = n]
<1>5. IsCall(frame) /\ frame.segment # 0
  BY <1>1, <1>3, Running, CallRecords
<1> HIDE DEF frame
<1> QED
  BY <1>1, <1>2, <1>4, <1>5, FrameChanged DEF frame

LEMMA NextItemCalls ==
  ASSUME CallsInv, SkipItem \/ TakeItem
  PROVE  CallsInv'
<1>1. AtItems /\ UNCHANGED <<depth, depthLimit, result>>
  BY DEF SkipItem, TakeItem
<1>2. PICK reps : calls' = SetFrame(NextItem(reps))
  BY DEF SkipItem, TakeItem
<1>3. IsCall(NextItem(reps)) /\ NextItem(reps).segment = Frame.segment
  BY CallRecords
<1> QED
  BY <1>1, <1>2, <1>3, FrameStays

LEMMA RepetitionCalls ==
  ASSUME CallsInv, AtItems, NEW codepoints, NEW odds, Repetition(codepoints, odds)
  PROVE  CallsInv'
<1>1. /\ UNCHANGED <<depth, depthLimit, result>>
      /\ calls' = SetFrame(OneLess)
  BY DEF Repetition
<1>2. IsCall(OneLess) /\ OneLess.segment = Frame.segment
  BY Running, CallRecords DEF OneLess, AtItems
<1> QED
  BY <1>1, <1>2, FrameStays

LEMMA GroupCalls ==
  ASSUME CallsInv, GenerateGroup
  PROVE  CallsInv'
<1>1. /\ AtItems /\ UNCHANGED <<depth, depthLimit, result>>
      /\ result = "running" /\ Frame.segment # 0
  BY DEF GenerateGroup, Repeating, AtItems
<1>2. PICK S : calls \in Seq(S)
  BY DEF CallsInv
<1> DEFINE n == Len(calls)
           below == SetFrame(OneLess)
           call == Call(Frame.group \o <<Frame.segment, Frame.item>>)
<1>3. n \in Nat /\ n >= 1 /\ depth + n = depthLimit
  BY <1>1, Running
<1>4. IsCall(OneLess) /\ OneLess.segment # 0 /\ IsCall(call) /\ call.segment = 0
  BY <1>1, Running, CallRecords DEF OneLess
<1>5. /\ \E T : below \in Seq(T)
      /\ Len(below) = n /\ below[n] = OneLess
      /\ \A i \in 1..n-1 : below[i] = calls[i]
  <2>1. below = Append(Front(calls), OneLess)
    BY DEF SetFrame
  <2>2. /\ \E T : Append(Front(calls), OneLess) \in Seq(T)
        /\ Len(Append(Front(calls), OneLess)) = Len(calls)
        /\ Append(Front(calls), OneLess)[Len(calls)] = OneLess
        /\ \A i \in 1..Len(calls)-1 : Append(Front(calls), OneLess)[i] = calls[i]
    BY <1>2, <1>3, FrameSet, ZenonT(30)
  <2> HIDE DEF below
  <2> QED
    BY <2>1, <2>2, Zenon
<1>6. calls' = Append(below, call)
  BY DEF GenerateGroup
<1> HIDE DEF below, call
<1>7. PICK T : below \in Seq(T)
  BY <1>5
<1>8. /\ \E U : calls' \in Seq(U)
      /\ Len(calls') = n + 1 /\ calls'[n + 1] = call
      /\ \A i \in 1..n : calls'[i] = below[i]
  <2>1. /\ \E U : Append(below, call) \in Seq(U)
        /\ Len(Append(below, call)) = Len(below) + 1
        /\ Append(below, call)[Len(below) + 1] = call
        /\ \A i \in 1..Len(below) : Append(below, call)[i] = below[i]
    BY <1>7, Extended
  <2>2. Len(below) = n
    BY <1>5
  <2> QED
    BY <1>6, <2>1, <2>2, Zenon
<1>9. \A i \in 1..n : IsCall(calls'[i]) /\ calls'[i].segment # 0
  <2> SUFFICES ASSUME NEW i \in 1..n
               PROVE  IsCall(calls'[i]) /\ calls'[i].segment # 0
    OBVIOUS
  <2>1. CASE i = n
    BY <1>4, <1>5, <1>8, <2>1
  <2>2. CASE i # n
    <3>1. i \in 1..n-1 /\ i \in 1..n
      BY <1>3, <2>2
    <3>2. calls'[i] = calls[i]
      BY <1>5, <1>8, <3>1
    <3> QED
      BY <3>1, <3>2 DEF CallsInv
  <2> QED
    BY <2>1, <2>2
<1>10. /\ n + 1 \in Nat /\ n + 1 >= 1 /\ (n + 1) - 1 = n
       /\ depth' \in Nat /\ depthLimit' \in Nat /\ result' = "running"
       /\ depth' + n = depthLimit'
  BY <1>1, <1>3 DEF CallsInv
<1>11. /\ IsCall(calls'[n + 1])
       /\ calls'[n + 1].segment = 0
       /\ depth' + ((n + 1) - 1) = depthLimit'
       /\ \A i \in 1..(n + 1)-1 : IsCall(calls'[i]) /\ calls'[i].segment # 0
  BY <1>4, <1>8, <1>9, <1>10
<1> HIDE DEF n
<1> QED
  BY <1>8, <1>10, <1>11, StillRunning

LEMMA LeaveCalls ==
  ASSUME CallsInv, LeaveGroup
  PROVE  CallsInv'
<1>1. /\ result = "running" /\ Frame.segment # 0
      /\ calls' = Front(calls) /\ depth' = depth + 1 /\ depthLimit' = depthLimit
      /\ result' = IF Len(calls) = 1 THEN "done" ELSE "running"
  BY DEF LeaveGroup, AtItems
<1>2. PICK S : calls \in Seq(S)
  BY DEF CallsInv
<1>3. /\ Len(calls) \in Nat /\ Len(calls) >= 1
      /\ depth \in Nat /\ depthLimit \in Nat /\ depth + Len(calls) = depthLimit
  BY <1>1, Running DEF CallsInv
<1>4. /\ calls' \in Seq(S) /\ Len(calls') = Len(calls) - 1
      /\ \A i \in 1..Len(calls)-1 : calls'[i] = calls[i]
  BY <1>1, <1>2, <1>3, FrontOfSequence
<1>5. CASE Len(calls) = 1
  <2>1. calls' = <<>> /\ Len(calls') = 0 /\ result' = "done"
    BY <1>1, <1>4, <1>5, EmptySeq
  <2>2. DepthBalanced'
    BY <1>1, <1>3, <1>5, <2>1 DEF DepthBalanced, Nesting
  <2> QED
    BY <1>1, <1>3, <1>4, <2>1, <2>2 DEF CallsInv
<1>6. CASE Len(calls) # 1
  <2> DEFINE n == Len(calls) - 1
  <2>1. n \in Nat /\ n >= 1 /\ Len(calls') = n /\ result' = "running"
    BY <1>1, <1>3, <1>4, <1>6
  <2>2. \A i \in 1..n : i \in 1..Len(calls) /\ i \in 1..Len(calls)-1
    BY <1>3
  <2>3. \A i \in 1..n : IsCall(calls'[i]) /\ calls'[i].segment # 0
    BY <1>4, <2>2, Zenon DEF CallsInv
  <2>4. (\A i \in 1..n-1 : i \in 1..n) /\ n \in 1..n
    BY <2>1
  <2>5. IsCall(calls'[n]) /\ \A i \in 1..n-1 : IsCall(calls'[i]) /\ calls'[i].segment # 0
    BY <2>3, <2>4, Zenon
  <2>6. depth' + n = depthLimit' /\ calls'[n].segment # 0
    <3>1. depth' + n = depthLimit'
      BY <1>1, <1>3
    <3> QED
      BY <2>3, <2>4, <3>1, Zenon
  <2>7. depth' \in Nat /\ depthLimit' \in Nat
    BY <1>1, <1>3
  <2>8. \E T : calls' \in Seq(T)
    BY <1>4
  <2> HIDE DEF n
  <2> QED
    BY <2>1, <2>5, <2>6, <2>7, <2>8, StillRunning
<1> QED
  BY <1>5, <1>6

\* The steps that end a generation early.
LEMMA FailCalls ==
  ASSUME CallsInv, TooDeep \/ DeadGroup \/ WordUndecoded \/ NoWordlist \/ BufferFull
  PROVE  CallsInv'
<1>1. UNCHANGED <<calls, depthLimit>> /\ result' = "failed"
  BY DEF TooDeep, DeadGroup, WordUndecoded, NoWordlist, BufferFull, Fail
<1>2. depth' \in Nat
  BY DEF TooDeep, DeadGroup, WordUndecoded, NoWordlist, BufferFull, CallsInv
<1> QED
  BY <1>1, <1>2, CallsGivenUp

LEMMA AstrayCalls ==
  ASSUME CallsInv, NoCount \/ NoChoice \/ SpecialAstray \/ \E choice : WalkPast(choice)
  PROVE  CallsInv'
<1>1. UNCHANGED <<calls, depthLimit>> /\ result' = "astray"
  BY DEF WalkPast, NoCount, NoChoice, SpecialAstray
<1>2. depth' \in Nat
  BY DEF WalkPast, NoCount, NoChoice, SpecialAstray, CallsInv
<1> QED
  BY <1>1, <1>2, CallsGivenUp

\* The steps that do one repetition of an item.
Repeats ==
  \/ GenerateLiteral \/ GenerateSet \/ GenerateEmptySet
  \/ GenerateWord \/ GenerateMarkov \/ GeneratePreset

LEMMA RepeatsReady == Repeats => AtItems /\ \E codepoints, odds : Repetition(codepoints, odds)
<1>1. GenerateLiteral => AtItems /\ \E codepoints, odds : Repetition(codepoints, odds)
  BY Zenon DEF GenerateLiteral, Repeating
<1>2. GenerateSet => AtItems /\ \E codepoints, odds : Repetition(codepoints, odds)
  BY Zenon DEF GenerateSet, Repeating
<1>3. GenerateEmptySet => AtItems /\ \E codepoints, odds : Repetition(codepoints, odds)
  BY Zenon DEF GenerateEmptySet, Repeating
<1>4. GenerateWord => AtItems /\ \E codepoints, odds : Repetition(codepoints, odds)
  BY Zenon DEF GenerateWord, Special, Repeating
<1>5. GenerateMarkov => AtItems /\ \E codepoints, odds : Repetition(codepoints, odds)
  BY Zenon DEF GenerateMarkov, Special, Repeating
<1>6. GeneratePreset => AtItems /\ \E codepoints, odds : Repetition(codepoints, odds)
  BY Zenon DEF GeneratePreset, Special, Repeating
<1> QED
  BY <1>1, <1>2, <1>3, <1>4, <1>5, <1>6 DEF Repeats

LEMMA CallsStep == CallsInv /\ [GenerateNext]_<<groups, generation>> => CallsInv'
<1> SUFFICES ASSUME CallsInv, [GenerateNext]_<<groups, generation>> PROVE CallsInv'
  OBVIOUS
<1>1. CASE Begin
  BY <1>1, BeginCalls
<1>2. CASE \E choice : ChooseSegment(choice)
  BY <1>2, ChooseCalls
<1>3. CASE NoCount \/ NoChoice \/ SpecialAstray \/ \E choice : WalkPast(choice)
  BY <1>3, AstrayCalls
<1>4. CASE TooDeep \/ DeadGroup \/ WordUndecoded \/ NoWordlist \/ BufferFull
  BY <1>4, FailCalls
<1>5. CASE SkipItem \/ TakeItem
  BY <1>5, NextItemCalls
<1>6. CASE Repeats
  BY <1>6, RepeatsReady, RepetitionCalls
<1>7. CASE GenerateGroup
  BY <1>7, GroupCalls
<1>8. CASE LeaveGroup
  BY <1>8, LeaveCalls
<1>9. CASE Write
  BY <1>9, CallsKept DEF Write
<1>10. CASE UNCHANGED generation
  BY <1>10, CallsKept DEF generation
<1> QED
  BY <1>1, <1>2, <1>3, <1>4, <1>5, <1>6, <1>7, <1>8, <1>9, <1>10
     DEF GenerateNext, Generating, Preparing, Step, Repeats

\* Depth is given back as it was taken: passgen_generate_group descends and ascends
\* in pairs, so what is left of env->depth_limit and the groups that are open add
\* up to it, however the groups of the pattern nest.
THEOREM DepthIsBalanced == GenerateSpec => []DepthBalanced
<1>1. CallsInv => DepthBalanced
  BY DEF CallsInv
<1> QED
  BY <1>1, IdleCalls, CallsStep, PTL DEF GenerateSpec

-----------------------------------------------------------------------------
(* The buffer.                                                             *)

\* A codepoint takes a whole number of units.
LEMMA UnitsNat ==
  ASSUME RoomInv, NEW c
  PROVE  Units(c) \in Nat
BY DEF RoomInv, Units, Utf8Length

LEMMA RoomStep == RoomInv /\ [GenerateNext]_<<groups, generation>> => RoomInv'
<1> SUFFICES ASSUME RoomInv, [GenerateNext]_<<groups, generation>> PROVE RoomInv'
  OBVIOUS
<1>1. CASE Begin
  <2>1. buffer' \in [writer : {"unicode", "utf8", "json"}, room : Nat] /\ used' = 0
    BY <1>1, BuffersAssumption DEF Begin
  <2> QED
    BY <2>1 DEF RoomInv, WithinRoom
<1>2. CASE Write
  <2> DEFINE u == Units(Head(pending))
  <2>1. u \in Nat
    BY UnitsNat
  <2>2. used + u <= buffer.room /\ used' = used + u /\ buffer' = buffer
    BY <1>2 DEF Write, Fits
  <2> HIDE DEF u
  <2> QED
    BY <2>1, <2>2 DEF RoomInv, WithinRoom
<1>3. CASE UNCHANGED <<buffer, used>>
  BY <1>3 DEF RoomInv, WithinRoom
<1>4. ASSUME Step, ~Write PROVE UNCHANGED <<buffer, used>>
  <2>1. CASE \E choice : ChooseSegment(choice) \/ WalkPast(choice)
    BY <2>1 DEF ChooseSegment, WalkPast
  <2>2. CASE TooDeep \/ DeadGroup \/ WordUndecoded \/ NoWordlist \/ BufferFull
    BY <2>2 DEF TooDeep, DeadGroup, WordUndecoded, NoWordlist, BufferFull, Fail
  <2>3. CASE SkipItem \/ TakeItem \/ NoCount \/ NoChoice \/ SpecialAstray
    BY <2>3 DEF SkipItem, TakeItem, NoCount, NoChoice, SpecialAstray
  <2>4. CASE Repeats
    BY <2>4, RepeatsReady DEF Repetition
  <2>5. CASE GenerateGroup \/ LeaveGroup
    BY <2>5 DEF GenerateGroup, LeaveGroup
  <2> QED
    BY <1>4, <2>1, <2>2, <2>3, <2>4, <2>5 DEF Step, Repeats
<1>5. CASE UNCHANGED generation
  BY <1>3, <1>5 DEF generation
<1> QED
  BY <1>1, <1>2, <1>3, <1>4, <1>5 DEF GenerateNext, Generating, Preparing

\* The three writers of generate.c look at the room that is left before they write
\* the one, two, three or four units of a codepoint: fillpos.cur never passes
\* fillpos.len.
THEOREM WritesWithinRoom == GenerateSpec => []WithinRoom
<1>1. Idle => RoomInv
  BY DEF Idle, RoomInv, WithinRoom
<1>2. RoomInv => WithinRoom
  BY DEF RoomInv
<1> QED
  BY <1>1, <1>2, RoomStep, PTL DEF GenerateSpec

-----------------------------------------------------------------------------
(* The walk over the segments of a group.                                  *)

\* The sums that the walk compares with are those of the multipliers.
LEMMA UptoFound ==
  ASSUME NEW segments \in Seq(Segments), NEW n \in Nat, n = Len(segments)
  PROVE  /\ Upto(segments) \in [0..n -> Nat]
         /\ Runs(Upto(segments), n, [s \in 1..n |-> segments[s].multiplier])
<1>1. PICK M : M = [s \in 1..n |-> segments[s].multiplier]
  OBVIOUS
<1>2. M \in [1..n -> Nat] /\ \A s \in 1..n : M[s] = segments[s].multiplier
  <2>1. \A s \in 1..n : segments[s] \in Segments
    OBVIOUS
  <2>2. \A s \in 1..n : segments[s].multiplier \in Nat
    BY <2>1, NumberFacts DEF Segments
  <2> QED
    BY <1>1, <2>2
<1>3. PICK T \in [0..n -> Nat] : Runs(T, n, M)
  BY <1>2, RunningSums
<1>4. T = [i \in 0..n |-> IF i = 0 THEN 0 ELSE T[i-1] + segments[i].multiplier]
  <2>1. T = [i \in 0..n |-> T[i]]
    OBVIOUS
  <2>2. \A i \in 0..n : T[i] = IF i = 0 THEN 0 ELSE T[i-1] + segments[i].multiplier
    <3>1. \A i \in 1..n : T[i] = T[i-1] + segments[i].multiplier
      BY <1>2, <1>3 DEF Runs
    <3>2. T[0] = 0
      BY <1>3 DEF Runs
    <3>3. \A i \in 0..n : i = 0 \/ (i # 0 /\ i \in 1..n)
      OBVIOUS
    <3> QED
      BY <3>1, <3>2, <3>3
  <2> QED
    BY <2>1, <2>2
<1>5. PICK total : total = Upto(segments)
  OBVIOUS
<1>6. total = [i \in 0..n |-> IF i = 0 THEN 0 ELSE total[i-1] + segments[i].multiplier]
  BY <1>4, <1>5, ZenonT(30) DEF Upto
<1>7. \A i \in 1..n : total[i] = total[i-1] + M[i]
  <2> SUFFICES ASSUME NEW i \in 1..n PROVE total[i] = total[i-1] + M[i]
    OBVIOUS
  <2>1. i \in 0..n /\ i # 0
    OBVIOUS
  <2> QED
    BY <1>2, <1>6, <2>1
<1>8. total[0] = 0
  <2>1. 0 \in 0..n
    OBVIOUS
  <2> QED
    BY <1>6, <2>1
<1>9. total \in [0..n -> Nat]
  <2> DEFINE S == {k \in Nat : k <= n => total[k] \in Nat}
  <2>1. 0 \in S
    BY <1>8
  <2>2. ASSUME NEW k \in Nat, k \in S PROVE k + 1 \in S
    <3> SUFFICES ASSUME k + 1 <= n PROVE total[k + 1] \in Nat
      OBVIOUS
    <3>1. PICK i : i = k + 1
      OBVIOUS
    <3>2. i \in 1..n /\ i - 1 = k /\ total[k] \in Nat
      BY <2>2, <3>1
    <3>3. total[i] = total[k] + M[i] /\ M[i] \in Nat
      BY <1>2, <1>7, <3>2
    <3> QED
      BY <3>1, <3>2, <3>3
  <2> HIDE DEF S
  <2>3. \A k \in Nat : k \in S
    BY <2>1, <2>2, SetInduction
  <2>4. \A k \in 0..n : total[k] \in Nat
    BY <2>3 DEF S
  <2> QED
    BY <1>6, <2>4
<1> QED
  BY <1>1, <1>5, <1>7, <1>8, <1>9 DEF Runs

LEMMA RemainderBelow ==
  ASSUME NEW w \in Nat, w > 0, NEW y \in Nat
  PROVE  y % w <= y
<1>1. y % w \in 0..w-1
  OBVIOUS
<1>2. CASE y < w
  BY <1>2
<1>3. CASE y >= w
  BY <1>1, <1>3
<1> QED
  BY <1>2, <1>3

\* What a size_t makes of a sum is at most the sum.
LEMMA AddUpBelow ==
  ASSUME NEW M, NEW n \in Nat, M \in [1..n -> Nat], NEW x, AddUp(M, n, x),
         NEW T \in [0..n -> Nat], Runs(T, n, M)
  PROVE  x <= T[n]
<1>1. PICK U \in [0..n -> Numbers] :
        U[0] = 0 /\ U[n] = x /\ \A i \in 1..n : U[i] = (U[i-1] + M[i]) % Word
  BY DEF AddUp
<1> DEFINE S == {k \in Nat : k <= n => U[k] <= T[k]}
<1>2. 0 \in S
  BY <1>1 DEF Runs
<1>3. ASSUME NEW k \in Nat, k \in S PROVE k + 1 \in S
  <2> SUFFICES ASSUME k + 1 <= n PROVE U[k + 1] <= T[k + 1]
    OBVIOUS
  <2>1. PICK i : i = k + 1
    OBVIOUS
  <2>2. i \in 1..n /\ i - 1 = k /\ k \in 0..n /\ U[k] <= T[k]
    BY <1>3, <2>1
  <2>3. U[k] \in Nat /\ T[k] \in Nat /\ M[i] \in Nat
    BY <1>1, <2>2, NumberFacts
  <2>4. U[i] = (U[k] + M[i]) % Word /\ T[i] = T[k] + M[i]
    BY <1>1, <2>2 DEF Runs
  <2>5. \A y \in Nat : y % Word <= y
    <3>1. Word \in Nat /\ Word > 0
      BY WordAssumption
    <3> QED
      BY <3>1, RemainderBelow, Zenon
  <2>6. U[k] + M[i] \in Nat
    BY <2>3
  <2>7. (U[k] + M[i]) % Word <= U[k] + M[i]
    BY <2>5, <2>6
  <2>8. U[i] \in Nat
    <3>1. i \in 0..n
      BY <2>2
    <3>2. U[i] \in Numbers
      BY <1>1, <3>1
    <3> QED
      BY <3>2, NumberFacts, Zenon
  <2> QED
    BY <2>1, <2>2, <2>3, <2>4, <2>7, <2>8
<1> HIDE DEF S
<1>4. n \in S
  BY <1>2, <1>3, SetInduction
<1> QED
  BY <1>1, <1>4 DEF S

\* A choice below the last of rising sums lies between two of them.
LEMMA BetweenSums ==
  ASSUME NEW n \in Nat, NEW T \in [0..n -> Nat], T[0] = 0, NEW choice \in Nat, choice < T[n]
  PROVE  \E k \in 1..n : T[k-1] <= choice /\ choice < T[k]
<1> SUFFICES ASSUME ~\E k \in 1..n : T[k-1] <= choice /\ choice < T[k] PROVE FALSE
  OBVIOUS
<1> DEFINE S == {k \in Nat : k <= n => T[k] <= choice}
<1>1. 0 \in S
  OBVIOUS
<1>2. ASSUME NEW k \in Nat, k \in S PROVE k + 1 \in S
  <2> SUFFICES ASSUME k + 1 <= n PROVE T[k + 1] <= choice
    OBVIOUS
  <2>1. PICK i : i = k + 1
    OBVIOUS
  <2>2. i \in 1..n /\ i - 1 = k /\ T[k] <= choice /\ T[i] \in Nat
    BY <1>2, <2>1
  <2>3. ~(choice < T[i])
    BY <2>2
  <2> QED
    BY <2>1, <2>2, <2>3
<1> HIDE DEF S
<1>3. n \in S
  BY <1>1, <1>2, SetInduction
<1>4. T[n] <= choice /\ T[n] \in Nat
  BY <1>3 DEF S
<1> QED
  BY <1>4

\* The sum of a group is what its segments' multipliers make of a size_t, or zero.
SumReached(g) == AddUp(Multipliers(g), Len(g.segments), g.sum) \/ g.sum = 0

\* passgen_generate_group chooses below the sum: its walk stops at a segment.
LEMMA WalkStops ==
  ASSUME NEW g \in Groups, SumReached(g), NEW choice \in 0..g.sum-1
  PROVE  Chosen(g.segments, choice) # {}
<1>1. PICK segments, n, M, T :
        /\ segments = g.segments /\ n = Len(segments) /\ T = Upto(segments)
        /\ M = [s \in 1..n |-> segments[s].multiplier]
  <2>1. PICK segments : segments = g.segments
    OBVIOUS
  <2>2. PICK n : n = Len(segments)
    OBVIOUS
  <2> QED
    BY <2>1, <2>2
<1>2. segments \in Seq(Segments) /\ n \in Nat /\ g.sum \in Nat
  <2>1. segments \in Seq(Segments) /\ g.sum \in Numbers
    BY <1>1 DEF Groups
  <2>2. n \in Nat
    BY <1>1, <2>1, LenProperties
  <2>3. g.sum \in Nat
    BY <2>1, NumberFacts, Zenon
  <2> QED
    BY <2>1, <2>2, <2>3
<1>3. T \in [0..n -> Nat] /\ Runs(T, n, M)
  BY <1>1, <1>2, UptoFound
<1>4. M \in [1..n -> Nat]
  <2>1. \A s \in 1..n : segments[s] \in Segments
    BY <1>1, <1>2
  <2>2. \A s \in 1..n : segments[s].multiplier \in Nat
    BY <2>1, NumberFacts DEF Segments
  <2> QED
    BY <1>1, <2>2
<1>5. AddUp(M, n, g.sum)
  <2>1. g.sum # 0
    BY <1>2
  <2> QED
    BY <1>1, <2>1 DEF SumReached, Multipliers
<1>6. g.sum <= T[n]
  BY <1>2, <1>3, <1>4, <1>5, AddUpBelow
<1>7. choice \in Nat /\ choice < T[n]
  <2>1. T[n] \in Nat
    BY <1>2, <1>3
  <2> QED
    BY <1>2, <1>6, <2>1
<1>8. PICK k \in 1..n : T[k-1] <= choice /\ choice < T[k]
  BY <1>2, <1>3, <1>7, BetweenSums DEF Runs
<1>9. k \in Chosen(segments, choice)
  BY <1>1, <1>8 DEF Chosen
<1> QED
  BY <1>1, <1>9

-----------------------------------------------------------------------------
(* The walk over the tree.                                                 *)

\* What a call names is in the heap h, and only an item is repeated.
InPattern(h, c) ==
  /\ c.group \in DOMAIN h
  /\ c.item = 0 => c.reps = 0
  /\ IF c.segment = 0 THEN c.item = 0
     ELSE /\ c.segment \in 1..Len(h[c.group].segments)
          /\ c.item \in 0..Len(h[c.group].segments[c.segment].items)

AllInPattern(h, cs) == \A i \in 1..Len(cs) : InPattern(h, cs[i])

SoundItems(h) ==
  \A p \in DOMAIN h : \A s \in 1..Len(h[p].segments) : AllSound(h[p].segments[s].items)

\* What the parser hands to the generator.
Walkable(h, ex) ==
  /\ Typed(h) /\ Tree(h) /\ SoundItems(h)
  /\ ex => \A p \in DOMAIN h : SumReached(h[p])

LEMMA FrameSetIn ==
  ASSUME NEW h, NEW S, NEW cs \in Seq(S), Len(cs) >= 1, AllInPattern(h, cs),
         NEW c, InPattern(h, c), NEW ds, ds = Append(Front(cs), c)
  PROVE  AllInPattern(h, ds) /\ \E T : ds \in Seq(T)
<1>1. /\ \E T : Append(Front(cs), c) \in Seq(T)
      /\ Len(Append(Front(cs), c)) = Len(cs)
      /\ Append(Front(cs), c)[Len(cs)] = c
      /\ \A i \in 1..Len(cs)-1 : Append(Front(cs), c)[i] = cs[i]
  BY FrameSet, ZenonT(30)
<1>2. PICK n : n = Len(cs)
  OBVIOUS
<1>3. n \in Nat /\ Len(ds) = n /\ ds[n] = c /\ \A i \in 1..n-1 : ds[i] = cs[i]
  BY <1>1, <1>2, LenProperties, Zenon
<1>4. \A i \in 1..n : InPattern(h, ds[i])
  <2> SUFFICES ASSUME NEW i \in 1..n PROVE InPattern(h, ds[i])
    OBVIOUS
  <2>1. CASE i = n
    BY <1>3, <2>1
  <2>2. CASE i # n
    <3>1. i \in 1..n-1
      BY <1>3, <2>2
    <3>2. ds[i] = cs[i] /\ InPattern(h, cs[i])
      BY <1>2, <1>3, <3>1, Zenon DEF AllInPattern
    <3> QED
      BY <3>2
  <2> QED
    BY <2>1, <2>2
<1> QED
  BY <1>1, <1>3, <1>4 DEF AllInPattern

LEMMA AppendIn ==
  ASSUME NEW h, NEW S, NEW cs \in Seq(S), AllInPattern(h, cs),
         NEW c, InPattern(h, c), NEW ds, ds = Append(cs, c)
  PROVE  AllInPattern(h, ds)
<1>1. PICK n : n = Len(cs)
  OBVIOUS
<1>2. /\ n \in Nat /\ Len(ds) = n + 1 /\ ds[n + 1] = c
      /\ \A i \in 1..n : ds[i] = cs[i]
  BY <1>1, Extended, LenProperties
<1>3. \A i \in 1..n+1 : i = n + 1 \/ i \in 1..n
  BY <1>2
<1> QED
  BY <1>1, <1>2, <1>3 DEF AllInPattern

LEMMA FrontIn ==
  ASSUME NEW h, NEW S, NEW cs \in Seq(S), Len(cs) >= 1, AllInPattern(h, cs)
  PROVE  AllInPattern(h, Front(cs))
<1>1. PICK n, f : n = Len(cs) /\ f = Front(cs)
  OBVIOUS
<1>2. n \in Nat /\ Len(f) = n - 1 /\ \A i \in 1..n-1 : f[i] = cs[i]
  BY <1>1, FrontOfSequence, LenProperties
<1>3. \A i \in 1..n-1 : i \in 1..n
  BY <1>2
<1>4. \A i \in 1..n-1 : InPattern(h, f[i])
  BY <1>1, <1>2, <1>3, Zenon DEF AllInPattern
<1> QED
  BY <1>1, <1>2, <1>4 DEF AllInPattern

\* The items of a segment.
LEMMA ItemsFound ==
  ASSUME Typed(groups), NEW p \in DOMAIN groups, NEW s \in 1..Len(groups[p].segments),
         NEW items, items = groups[p].segments[s].items
  PROVE  items \in Seq(Items) /\ Len(items) \in Nat
<1>1. PICK segments : segments = groups[p].segments
  OBVIOUS
<1>2. segments \in Seq(Segments) /\ s \in 1..Len(segments)
  BY <1>1 DEF Typed, Groups
<1>3. segments[s] \in Segments
  BY <1>2, ElementOfSeq
<1>4. items \in Seq(Items)
  BY <1>1, <1>3 DEF Segments
<1> QED
  BY <1>4, LenProperties

\* The innermost call of a running generation.
LEMMA FrameFound ==
  ASSUME CallsInv, result = "running", AllInPattern(groups, calls)
  PROVE  IsCall(Frame) /\ InPattern(groups, Frame)
<1>1. Len(calls) \in Nat /\ Len(calls) >= 1 /\ Frame = calls[Len(calls)] /\ IsCall(Frame)
  BY Running
<1>2. Len(calls) \in 1..Len(calls)
  BY <1>1
<1> QED
  BY <1>1, <1>2, Zenon DEF AllInPattern

\* It is replaced.
LEMMA FrameReplaced ==
  ASSUME CallsInv, result = "running", AllInPattern(groups, calls),
         NEW c, InPattern(groups, c), calls' = SetFrame(c)
  PROVE  AllInPattern(groups, calls')
<1>1. PICK S : calls \in Seq(S)
  BY DEF CallsInv
<1>2. Len(calls) >= 1
  BY Running
<1> QED
  BY <1>1, <1>2, FrameSetIn DEF SetFrame

LEMMA ChooseIn ==
  ASSUME CallsInv, AllInPattern(groups, calls), Typed(groups), NEW choice, ChooseSegment(choice)
  PROVE  AllInPattern(groups, calls')
<1>1. result = "running" /\ Frame.segment = 0
  BY DEF ChooseSegment, Entering
<1>2. PICK n \in Chosen(Group.segments, choice) : calls' = SetFrame([Frame EXCEPT !.segment = n])
  BY DEF ChooseSegment
<1>3. PICK f, g : f = Frame /\ g = [f EXCEPT !.segment = n]
  OBVIOUS
<1>4. /\ IsCall(f) /\ f.group \in DOMAIN groups /\ f.item = 0 /\ f.reps = 0
      /\ n \in 1..Len(groups[f.group].segments)
  <2>1. n \in 1..Len(Group.segments)
    BY <1>2 DEF Chosen
  <2> QED
    BY <1>1, <1>3, <2>1, FrameFound DEF InPattern, Group
<1>5. g.group = f.group /\ g.segment = n /\ g.item = 0 /\ g.reps = 0
  BY <1>3, <1>4 DEF IsCall
<1>6. PICK items : items = groups[f.group].segments[n].items
  OBVIOUS
<1>7. Len(items) \in Nat
  BY <1>4, <1>6, ItemsFound
<1>8. InPattern(groups, g)
  BY <1>3, <1>4, <1>5, <1>6, <1>7 DEF InPattern
<1> QED
  BY <1>1, <1>2, <1>3, <1>8, FrameReplaced

LEMMA NextItemIn ==
  ASSUME CallsInv, AllInPattern(groups, calls), Typed(groups), SkipItem \/ TakeItem
  PROVE  AllInPattern(groups, calls')
<1>1. AtItems /\ Frame.item < Len(SegmentItems)
  BY DEF SkipItem, TakeItem
<1>2. PICK reps : calls' = SetFrame(NextItem(reps))
  BY DEF SkipItem, TakeItem
<1>3. PICK f, g, items, n :
        f = Frame /\ g = NextItem(reps) /\ items = SegmentItems /\ n = Len(items)
  OBVIOUS
<1>4. result = "running" /\ f.segment # 0 /\ InPattern(groups, f)
  BY <1>1, <1>3, FrameFound DEF AtItems
<1>5. /\ f.group \in DOMAIN groups /\ f.segment \in 1..Len(groups[f.group].segments)
      /\ f.item \in 0..n /\ items = groups[f.group].segments[f.segment].items
  BY <1>3, <1>4 DEF InPattern, SegmentItems, Group
<1>6. n \in Nat /\ f.item < n
  BY <1>1, <1>3, <1>5, ItemsFound
<1>7. f.item + 1 \in 0..n /\ f.item + 1 # 0
  BY <1>5, <1>6
<1>8. g.group = f.group /\ g.segment = f.segment /\ g.item = f.item + 1
  BY <1>3 DEF NextItem
<1>9. InPattern(groups, g)
  BY <1>3, <1>4, <1>5, <1>7, <1>8 DEF InPattern
<1> QED
  BY <1>2, <1>3, <1>4, <1>9, FrameReplaced

LEMMA OneLessIn ==
  ASSUME CallsInv, AllInPattern(groups, calls), AtItems, Frame.reps > 0
  PROVE  /\ InPattern(groups, OneLess)
         /\ Frame.group \in DOMAIN groups /\ OneLess.group = Frame.group
         /\ Frame.segment \in 1..Len(groups[Frame.group].segments)
         /\ Frame.item \in 1..Len(groups[Frame.group].segments[Frame.segment].items)
<1>1. PICK f, g : f = Frame /\ g = OneLess
  OBVIOUS
<1>2. result = "running" /\ f.segment # 0 /\ IsCall(f) /\ InPattern(groups, f) /\ f.reps # 0
  BY <1>1, FrameFound DEF AtItems
<1>3. g.group = f.group /\ g.segment = f.segment /\ g.item = f.item
  BY <1>1, <1>2 DEF OneLess, IsCall
<1>4. /\ f.group \in DOMAIN groups /\ f.item # 0
      /\ f.segment \in 1..Len(groups[f.group].segments)
      /\ f.item \in 0..Len(groups[f.group].segments[f.segment].items)
  BY <1>2 DEF InPattern
<1>5. f.item \in 1..Len(groups[f.group].segments[f.segment].items)
  BY <1>4
<1>6. InPattern(groups, g)
  BY <1>2, <1>3, <1>4 DEF InPattern
<1> QED
  BY <1>1, <1>3, <1>4, <1>5, <1>6

LEMMA RepeatsMore == Repeats => Frame.reps > 0
BY DEF Repeats, GenerateLiteral, GenerateSet, GenerateEmptySet, GenerateWord, GenerateMarkov,
       GeneratePreset, Special, Repeating

LEMMA RepeatsIn ==
  ASSUME CallsInv, AllInPattern(groups, calls), Repeats
  PROVE  AllInPattern(groups, calls')
<1>1. AtItems /\ Frame.reps > 0
  BY RepeatsReady, RepeatsMore
<1>2. calls' = SetFrame(OneLess)
  BY RepeatsReady DEF Repetition
<1>3. result = "running"
  BY <1>1 DEF AtItems
<1> QED
  BY <1>1, <1>2, <1>3, OneLessIn, FrameReplaced

LEMMA GroupIn ==
  ASSUME CallsInv, AllInPattern(groups, calls), Typed(groups), Tree(groups), GenerateGroup
  PROVE  AllInPattern(groups, calls')
<1>1. AtItems /\ Frame.reps > 0 /\ Current.kind = "GROUP" /\ result = "running"
  BY DEF GenerateGroup, Repeating, AtItems
<1>2. PICK p, s, i, below, call :
        /\ p = Frame.group /\ s = Frame.segment /\ i = Frame.item
        /\ below = SetFrame(OneLess) /\ call = Call(Child(p, s, i))
  OBVIOUS
<1>3. calls' = Append(below, call)
  BY <1>2 DEF GenerateGroup, Child
<1>4. /\ InPattern(groups, OneLess) /\ p \in DOMAIN groups
      /\ s \in 1..Len(groups[p].segments) /\ i \in 1..Len(groups[p].segments[s].items)
  BY <1>1, <1>2, OneLessIn
<1>5. IsKid(groups[p], s, i)
  BY <1>1, <1>2, <1>4 DEF IsKid, Current, SegmentItems, Group
<1>6. s \in Nat /\ i \in Nat
  BY <1>4
<1>7. Child(p, s, i) \in DOMAIN groups
  BY <1>4, <1>5, <1>6, Zenon DEF Tree
<1>8. call.group = Child(p, s, i) /\ call.segment = 0 /\ call.item = 0 /\ call.reps = 0
  BY <1>2 DEF Call
<1>9. InPattern(groups, call)
  BY <1>7, <1>8 DEF InPattern
<1>10. AllInPattern(groups, below) /\ \E T : below \in Seq(T)
  <2>1. PICK S : calls \in Seq(S)
    BY DEF CallsInv
  <2>2. Len(calls) >= 1
    BY <1>1, Running
  <2> QED
    BY <1>2, <1>4, <2>1, <2>2, FrameSetIn DEF SetFrame
<1> QED
  BY <1>3, <1>9, <1>10, AppendIn

LEMMA LeaveIn ==
  ASSUME CallsInv, AllInPattern(groups, calls), LeaveGroup
  PROVE  AllInPattern(groups, calls')
<1>1. result = "running" /\ calls' = Front(calls)
  BY DEF LeaveGroup, AtItems
<1>2. PICK S : calls \in Seq(S)
  BY DEF CallsInv
<1>3. Len(calls) >= 1
  BY <1>1, Running
<1> QED
  BY <1>1, <1>2, <1>3, FrontIn

LEMMA BeginIn ==
  ASSUME Tree(groups), Begin
  PROVE  AllInPattern(groups, calls')
<1>1. PICK c : c = Call(<<>>)
  OBVIOUS
<1>2. calls' = <<c>> /\ Len(calls') = 1 /\ calls'[1] = c
  BY <1>1 DEF Begin
<1>3. c.group = <<>> /\ c.segment = 0 /\ c.item = 0 /\ c.reps = 0
  BY <1>1 DEF Call
<1>4. InPattern(groups, c)
  BY <1>3 DEF InPattern, Tree
<1>5. \A i \in 1..1 : i = 1
  OBVIOUS
<1> QED
  BY <1>2, <1>4, <1>5 DEF AllInPattern

\* No step of a generation leaves the pattern.
LEMMA CallsStayIn ==
  ASSUME CallsInv, AllInPattern(groups, calls), Typed(groups), Tree(groups), Begin \/ Step
  PROVE  AllInPattern(groups, calls')
<1>1. CASE Begin
  BY <1>1, BeginIn
<1>2. CASE \E choice : ChooseSegment(choice)
  BY <1>2, ChooseIn
<1>3. CASE SkipItem \/ TakeItem
  BY <1>3, NextItemIn
<1>4. CASE Repeats
  BY <1>4, RepeatsIn
<1>5. CASE GenerateGroup
  BY <1>5, GroupIn
<1>6. CASE LeaveGroup
  BY <1>6, LeaveIn
<1>7. CASE UNCHANGED calls
  BY <1>7
<1>8. NoCount \/ NoChoice \/ SpecialAstray \/ (\E choice : WalkPast(choice)) \/ Write
        => UNCHANGED calls
  BY DEF NoCount, NoChoice, SpecialAstray, WalkPast, Write
<1>9. TooDeep \/ DeadGroup \/ WordUndecoded \/ NoWordlist \/ BufferFull => UNCHANGED calls
  BY DEF TooDeep, DeadGroup, WordUndecoded, NoWordlist, BufferFull, Fail
<1> QED
  BY <1>1, <1>2, <1>3, <1>4, <1>5, <1>6, <1>7, <1>8, <1>9 DEF Step, Repeats

\* The walk over the segments of a group stops at one of them.
LEMMA NoWalkPast ==
  ASSUME CallsInv, AllInPattern(groups, calls), Walkable(groups, TRUE), Entering,
         NEW choice \in 0..Group.sum-1
  PROVE  ~WalkPast(choice)
<1>1. Frame.group \in DOMAIN groups
  BY FrameFound DEF Entering, InPattern
<1>2. PICK g : g = Group
  OBVIOUS
<1>3. g \in Groups /\ SumReached(g) /\ choice \in 0..g.sum-1
  BY <1>1, <1>2 DEF Walkable, Typed, Group
<1>4. Chosen(g.segments, choice) # {}
  BY <1>3, WalkStops
<1> QED
  BY <1>2, <1>4 DEF WalkPast

\* There is a count to choose for an item that is orderly.
LEMMA CountFound ==
  ASSUME CallsInv, AllInPattern(groups, calls), Typed(groups), Orderly
  PROVE  ~NoCount
<1> SUFFICES ASSUME NoCount PROVE FALSE
  OBVIOUS
<1>1. /\ AtItems /\ Frame.item < Len(SegmentItems)
      /\ Difference(SegmentItems[Frame.item + 1]) + 1 = Word
  BY DEF NoCount
<1>2. PICK f, items, n, i, item :
        /\ f = Frame /\ items = SegmentItems /\ n = Len(items) /\ i = f.item + 1 /\ item = items[i]
  <2>1. PICK f, items : f = Frame /\ items = SegmentItems
    OBVIOUS
  <2>2. PICK n, i : n = Len(items) /\ i = f.item + 1
    OBVIOUS
  <2> QED
    BY <2>1, <2>2
<1>3. result = "running" /\ f.segment # 0 /\ InPattern(groups, f)
  BY <1>1, <1>2, FrameFound DEF AtItems
<1>4. /\ f.group \in DOMAIN groups /\ f.segment \in 1..Len(groups[f.group].segments)
      /\ f.item \in 0..n /\ items = groups[f.group].segments[f.segment].items
  BY <1>2, <1>3 DEF InPattern, SegmentItems, Group
<1>5. items \in Seq(Items) /\ n \in Nat
  BY <1>2, <1>4, ItemsFound
<1>6. i \in 1..n
  BY <1>1, <1>2, <1>4, <1>5
<1>7. item \in Items
  BY <1>2, <1>5, <1>6, ElementOfSeq
<1>8. item.min <= item.max /\ item.max - item.min < Word - 1
  <2>1. PICK p, s, segments : p = f.group /\ s = f.segment /\ segments = groups[p].segments
    OBVIOUS
  <2>2. segments \in Seq(Segments)
    BY <1>4, <2>1 DEF Typed, Groups
  <2>3. s \in DOMAIN segments
    BY <1>4, <2>1, <2>2
  <2>4. i \in DOMAIN items
    BY <1>2, <1>5, <1>6
  <2>5. OrderlyItem(item)
    BY <1>2, <1>4, <2>1, <2>3, <2>4 DEF Orderly
  <2> QED
    BY <2>5 DEF OrderlyItem
<1>9. item.min \in Nat /\ item.max \in Nat
  BY <1>7, NumberFacts DEF Items
<1>10. (item.max - item.min) % Word = item.max - item.min
  BY <1>8, <1>9, WordAssumption
<1>11. Difference(item) + 1 < Word
  BY <1>8, <1>9, <1>10, WordAssumption DEF Difference
<1>12. Difference(item) + 1 = Word
  BY <1>1, <1>2
<1> QED
  BY <1>9, <1>10, <1>11, <1>12, WordAssumption DEF Difference

\* The item that is being repeated.
LEMMA CurrentFound ==
  ASSUME CallsInv, AllInPattern(groups, calls), Walkable(groups, exact), Orderly,
         AtItems, Frame.reps > 0, NEW item, item = Current
  PROVE  item \in Items /\ Sound(item) /\ OrderlyItem(item)
<1>1. PICK p, s, i : p = Frame.group /\ s = Frame.segment /\ i = Frame.item
  OBVIOUS
<1>2. PICK segments, items : segments = groups[p].segments /\ items = segments[s].items
  <2>1. PICK segments : segments = groups[p].segments
    OBVIOUS
  <2> QED
    BY <2>1
<1>3. p \in DOMAIN groups /\ s \in 1..Len(segments) /\ i \in 1..Len(items)
  BY <1>1, <1>2, OneLessIn
<1>4. item = items[i]
  BY <1>1, <1>2 DEF Current, SegmentItems, Group
<1>5. Typed(groups) /\ SoundItems(groups)
  BY DEF Walkable
<1>6. items \in Seq(Items) /\ Len(items) \in Nat
  BY <1>2, <1>3, <1>5, ItemsFound
<1>7. segments \in Seq(Segments)
  BY <1>2, <1>3, <1>5 DEF Typed, Groups
<1>8. item \in Items
  BY <1>3, <1>4, <1>6, ElementOfSeq
<1>9. Sound(item)
  <2>1. AllSound(items)
    BY <1>2, <1>3, <1>5 DEF SoundItems
  <2> QED
    BY <1>3, <1>4, <2>1 DEF AllSound
<1>10. OrderlyItem(item)
  <2>1. s \in DOMAIN segments /\ i \in DOMAIN items
    BY <1>3, <1>6, <1>7
  <2> QED
    BY <1>2, <1>3, <1>4, <2>1 DEF Orderly
<1> QED
  BY <1>8, <1>9, <1>10

\* There is a choice for a set whose choices can be counted.
LEMMA ChoiceFound ==
  ASSUME CallsInv, AllInPattern(groups, calls), Walkable(groups, exact), Orderly
  PROVE  ~NoChoice
<1> SUFFICES ASSUME NoChoice PROVE FALSE
  OBVIOUS
<1>1. PICK item : item = Current
  OBVIOUS
<1>2. /\ AtItems /\ Frame.reps > 0 /\ item.kind = "SET" /\ item.ranges # <<>>
      /\ Last(item.choices) = 0
  BY <1>1 DEF NoChoice, Repeating
<1>3. item \in Items /\ Sound(item) /\ OrderlyItem(item)
  BY <1>1, <1>2, CurrentFound
<1>4. PICK c, ranges, n : c = item.choices /\ ranges = item.ranges /\ n = Len(item.ranges)
  OBVIOUS
<1>5. c \in Seq(Nat) /\ ranges \in Seq(Ranges) /\ ranges # <<>>
  BY <1>2, <1>3, <1>4 DEF Items
<1>6. Len(c) = n /\ Rises(c)
  BY <1>2, <1>3, <1>4 DEF Sound, OrderlyItem
<1>7. n \in Nat /\ n # 0
  BY <1>4, <1>5
<1>8. n \in 1..n /\ (n # 1 => n - 1 \in 1..n)
  BY <1>7
<1>9. c[n] - (IF n = 1 THEN 0 ELSE c[n-1]) > 0
  BY <1>6, <1>8 DEF Rises
<1>10. c[n] = 0
  BY <1>2, <1>4, <1>6 DEF Last
<1>11. CASE n = 1
  BY <1>9, <1>10, <1>11
<1>12. CASE n # 1
  <2>1. PICK k : k = n - 1
    OBVIOUS
  <2>2. k \in 1..Len(c)
    BY <1>6, <1>8, <1>12, <2>1
  <2>3. PICK x \in Nat : x = c[k]
    BY <1>5, <2>2, ElementOfSeq
  <2>4. 0 - x > 0
    BY <1>9, <1>10, <1>12, <2>1, <2>3
  <2> QED
    BY <2>4
<1> QED
  BY <1>11, <1>12

LEMMA SpecialFound ==
  ASSUME CallsInv, AllInPattern(groups, calls), Walkable(groups, exact), Orderly
  PROVE  ~SpecialAstray
<1> SUFFICES ASSUME SpecialAstray PROVE FALSE
  OBVIOUS
<1>1. PICK item : item = Current
  OBVIOUS
<1>2. /\ AtItems /\ Frame.reps > 0 /\ item.kind = "SPECIAL"
      /\ Hopeless(item.letter, item.chars)
  BY <1>1 DEF SpecialAstray, Repeating
<1>3. OrderlyItem(item)
  BY <1>1, <1>2, CurrentFound
<1> QED
  BY <1>2, <1>3 DEF OrderlyItem

\* So no step of a generation goes astray.
LEMMA StepNotAstray ==
  ASSUME CallsInv, AllInPattern(groups, calls), Walkable(groups, exact), exact, Orderly,
         result # "astray", Begin \/ Step
  PROVE  result' # "astray"
<1>1. CASE Begin
  BY <1>1 DEF Begin
<1>2. CASE Entering /\ \E choice \in 0..Group.sum-1 : ChooseSegment(choice) \/ WalkPast(choice)
  <2>1. PICK choice \in 0..Group.sum-1 : ChooseSegment(choice) \/ WalkPast(choice)
    BY <1>2
  <2>2. Walkable(groups, TRUE)
    BY DEF Walkable
  <2>3. ChooseSegment(choice)
    BY <1>2, <2>1, <2>2, NoWalkPast
  <2> QED
    BY <2>3 DEF ChooseSegment
<1>3. CASE SkipItem \/ TakeItem \/ Write
  BY <1>3 DEF SkipItem, TakeItem, Write
<1>4. CASE Repeats
  BY <1>4, RepeatsReady DEF Repetition
<1>5. CASE GenerateGroup \/ LeaveGroup
  BY <1>5 DEF GenerateGroup, LeaveGroup
<1>6. ~NoCount /\ ~NoChoice /\ ~SpecialAstray
  BY CountFound, ChoiceFound, SpecialFound DEF Walkable
<1>7. CASE TooDeep \/ DeadGroup \/ WordUndecoded \/ NoWordlist \/ BufferFull
  BY <1>7 DEF TooDeep, DeadGroup, WordUndecoded, NoWordlist, BufferFull, Fail
<1> QED
  BY <1>1, <1>2, <1>3, <1>4, <1>5, <1>6, <1>7 DEF Step, Repeats

-----------------------------------------------------------------------------
(* What is in the buffer.                                                  *)

\* What codepoint c takes in a buffer of this writer.
UnitsIn(writer, c) ==
  CASE writer = "unicode" -> 1
    [] writer = "utf8" -> Utf8Length(c)
    [] writer = "json" -> IF c \in JsonEscapes THEN 2 ELSE Utf8Length(c)

\* The codepoints out take this many units.
Takes(writer, out, units) ==
  \E T \in [0..Len(out) -> Nat] :
    /\ T[0] = 0 /\ T[Len(out)] = units
    /\ \A n \in 1..Len(out) : T[n] = T[n-1] + UnitsIn(writer, out[n])

Written ==
  /\ \E S : output \in Seq(S)
  /\ Takes(buffer.writer, output, used)

LEMMA TakesNothing == \A writer : Takes(writer, <<>>, 0)
<1> SUFFICES ASSUME NEW writer PROVE Takes(writer, <<>>, 0)
  OBVIOUS
<1>1. PICK T : T = [n \in 0..0 |-> 0]
  OBVIOUS
<1>2. T \in [0..0 -> Nat] /\ T[0] = 0 /\ Len(<<>>) = 0
  BY <1>1
<1> QED
  BY <1>2 DEF Takes

LEMMA TakesMore ==
  ASSUME NEW writer, NEW S, NEW out \in Seq(S), NEW units, Takes(writer, out, units),
         NEW c, NEW more, more = UnitsIn(writer, c), more \in Nat
  PROVE  Takes(writer, Append(out, c), units + more)
<1>1. PICK n, m, out2 : n = Len(out) /\ m = n + 1 /\ out2 = Append(out, c)
  <2>1. PICK n, out2 : n = Len(out) /\ out2 = Append(out, c)
    OBVIOUS
  <2> QED
    BY <2>1
<1>2. /\ n \in Nat /\ m \in Nat /\ Len(out2) = m /\ out2[m] = c
      /\ \A i \in 1..n : out2[i] = out[i]
  BY <1>1, Extended, LenProperties
<1>3. PICK T \in [0..n -> Nat] :
        /\ T[0] = 0 /\ T[n] = units
        /\ \A i \in 1..n : T[i] = T[i-1] + UnitsIn(writer, out[i])
  BY <1>1 DEF Takes
<1>4. PICK total : total = units + more
  OBVIOUS
<1>5. units \in Nat /\ total \in Nat
  BY <1>2, <1>3, <1>4
<1>6. PICK U : U = [i \in 0..m |-> IF i = m THEN total ELSE T[i]]
  OBVIOUS
<1>7. \A i \in 0..m : i = m \/ i \in 0..n
  BY <1>1, <1>2
<1>8. U \in [0..m -> Nat]
  BY <1>3, <1>5, <1>6, <1>7
<1>9. U[0] = 0 /\ U[m] = total /\ U[n] = units
  BY <1>1, <1>2, <1>3, <1>6
<1>10. ASSUME NEW i \in 1..m
       PROVE  U[i] = U[i-1] + UnitsIn(writer, out2[i])
  <2>1. CASE i = m
    <3>1. i - 1 = n
      BY <1>1, <1>2, <2>1
    <3> QED
      BY <1>2, <1>4, <1>9, <2>1, <3>1
  <2>2. CASE i # m
    <3>1. i \in 1..n /\ i - 1 \in 0..n /\ i \in 0..m /\ i - 1 \in 0..m /\ i - 1 # m /\ i \in 0..n
      BY <1>1, <1>2, <2>2
    <3>2. U[i] = T[i] /\ U[i-1] = T[i-1] /\ out2[i] = out[i]
      BY <1>2, <1>6, <2>2, <3>1
    <3> QED
      BY <1>3, <3>1, <3>2
  <2> QED
    BY <2>1, <2>2
<1>11. Takes(writer, out2, total)
  BY <1>2, <1>8, <1>9, <1>10 DEF Takes
<1> QED
  BY <1>1, <1>4, <1>11

\* The running sums of WithinBuffer.
Total(writer, out) ==
  CHOOSE f : f = [n \in 0..Len(out) |-> IF n = 0 THEN 0 ELSE f[n-1] + UnitsIn(writer, out[n])]

LEMMA TotalFound ==
  ASSUME NEW writer, NEW out, NEW n \in Nat, n = Len(out), NEW units, Takes(writer, out, units)
  PROVE  Total(writer, out)[n] = units
<1>1. PICK T \in [0..n -> Nat] :
        /\ T[0] = 0 /\ T[n] = units
        /\ \A i \in 1..n : T[i] = T[i-1] + UnitsIn(writer, out[i])
  BY DEF Takes
<1>2. T = [i \in 0..n |-> IF i = 0 THEN 0 ELSE T[i-1] + UnitsIn(writer, out[i])]
  <2>1. T = [i \in 0..n |-> T[i]]
    OBVIOUS
  <2>2. \A i \in 0..n : i = 0 \/ (i # 0 /\ i \in 1..n)
    OBVIOUS
  <2>3. \A i \in 0..n : T[i] = IF i = 0 THEN 0 ELSE T[i-1] + UnitsIn(writer, out[i])
    BY <1>1, <2>2
  <2> QED
    BY <2>1, <2>3
<1>3. PICK total : total = Total(writer, out)
  OBVIOUS
<1>4. total = [i \in 0..n |-> IF i = 0 THEN 0 ELSE total[i-1] + UnitsIn(writer, out[i])]
  BY <1>2, <1>3, ZenonT(30) DEF Total
<1> DEFINE S == {k \in Nat : k <= n => total[k] = T[k]}
<1>5. 0 \in S
  <2>1. 0 \in 0..n
    OBVIOUS
  <2> QED
    BY <1>1, <1>4, <2>1
<1>6. ASSUME NEW k \in Nat, k \in S PROVE k + 1 \in S
  <2> SUFFICES ASSUME k + 1 <= n PROVE total[k + 1] = T[k + 1]
    OBVIOUS
  <2>1. PICK i : i = k + 1
    OBVIOUS
  <2>2. i \in 0..n /\ i # 0 /\ i \in 1..n /\ i - 1 = k /\ total[k] = T[k]
    BY <1>6, <2>1
  <2>3. total[i] = total[k] + UnitsIn(writer, out[i])
    BY <1>4, <2>2
  <2>4. T[i] = T[k] + UnitsIn(writer, out[i])
    BY <1>1, <2>2
  <2> QED
    BY <2>1, <2>2, <2>3, <2>4
<1> HIDE DEF S
<1>7. n \in S
  BY <1>5, <1>6, SetInduction
<1>8. total[n] = T[n]
  BY <1>7 DEF S
<1> QED
  BY <1>1, <1>3, <1>8

LEMMA UnitsSame == \A c : Units(c) = UnitsIn(buffer.writer, c)
BY DEF Units, UnitsIn

LEMMA WrittenWithin == RoomInv /\ Written => WithinBuffer
<1> SUFFICES ASSUME RoomInv, Written PROVE WithinBuffer
  OBVIOUS
<1>1. PICK n : n = Len(output)
  OBVIOUS
<1>2. n \in Nat
  BY <1>1, LenProperties DEF Written
<1>3. Total(buffer.writer, output)[n] = used
  BY <1>1, <1>2, TotalFound DEF Written
<1>4. \A c : Units(c) = UnitsIn(buffer.writer, c)
  BY UnitsSame
<1>5. (LET total[i \in 0..Len(output)] == IF i = 0 THEN 0 ELSE total[i-1] + Units(output[i])
       IN  total[Len(output)]) = Total(buffer.writer, output)[n]
  BY <1>1, <1>4 DEF Total
<1> QED
  BY <1>3, <1>5 DEF WithinBuffer, RoomInv

LEMMA WrittenStep ==
  ASSUME RoomInv, Written, Begin \/ Step
  PROVE  Written'
<1>1. CASE Begin
  <2>1. output' = <<>> /\ used' = 0
    BY <1>1 DEF Begin
  <2>2. output' \in Seq({}) /\ Takes(buffer'.writer, output', used')
    BY <2>1, TakesNothing
  <2> QED
    BY <2>2 DEF Written
<1>2. CASE Write
  <2>1. PICK c, more : c = Head(pending) /\ more = Units(c)
    OBVIOUS
  <2>2. more \in Nat /\ more = UnitsIn(buffer.writer, c)
    BY <2>1, UnitsNat, UnitsSame
  <2>3. output' = Append(output, c) /\ used' = used + more /\ buffer' = buffer
    BY <1>2, <2>1 DEF Write
  <2>4. PICK S : output \in Seq(S)
    BY DEF Written
  <2>5. Takes(buffer.writer, output', used')
    BY <2>2, <2>3, <2>4, TakesMore DEF Written
  <2>6. \E T : output' \in Seq(T)
    BY <2>3, <2>4, Extended
  <2> QED
    BY <2>3, <2>5, <2>6 DEF Written
<1>3. CASE UNCHANGED <<buffer, output, used>>
  BY <1>3 DEF Written
<1>4. ASSUME Step, ~Write PROVE UNCHANGED <<buffer, output, used>>
  <2>1. CASE \E choice : ChooseSegment(choice) \/ WalkPast(choice)
    BY <2>1 DEF ChooseSegment, WalkPast
  <2>2. CASE TooDeep \/ DeadGroup \/ WordUndecoded \/ NoWordlist \/ BufferFull
    BY <2>2 DEF TooDeep, DeadGroup, WordUndecoded, NoWordlist, BufferFull, Fail
  <2>3. CASE SkipItem \/ TakeItem \/ NoCount \/ NoChoice \/ SpecialAstray
    BY <2>3 DEF SkipItem, TakeItem, NoCount, NoChoice, SpecialAstray
  <2>4. CASE Repeats
    BY <2>4, RepeatsReady DEF Repetition
  <2>5. CASE GenerateGroup \/ LeaveGroup
    BY <2>5 DEF GenerateGroup, LeaveGroup
  <2> QED
    BY <1>4, <2>1, <2>2, <2>3, <2>4, <2>5 DEF Step, Repeats
<1> QED
  BY <1>1, <1>2, <1>3, <1>4

-----------------------------------------------------------------------------
(* From the string to the pattern.                                         *)

\* The tokenizer, as far as its tokens are numbers.
Numeric == payload \in Nat /\ offset \in Nat

\* The parser gets codepoints.
LEMMA Fed ==
  ASSUME source \in Sources, offset \in Nat, NextCodepoint
  PROVE  string[offset + 1] \in Decoded
<1>1. string \in Seq(Decoded) /\ offset < Len(string)
  BY SourcesAssumption DEF NextCodepoint, string
<1>2. offset + 1 \in 1..Len(string)
  BY <1>1
<1> QED
  BY <1>1, <1>2, ElementOfSeq

LEMMA FeedFacts ==
  ASSUME Numeric, NEW c \in Decoded, Tokens!Feed(c)
  PROVE  Numeric' /\ (state' = "init" => token' \in Nat)
<1>1. c \in Nat
  BY DEF Decoded
<1>2. CASE Tokens!Plain(c)
  BY <1>1, <1>2 DEF Tokens!Plain, Tokens!Advance, Tokens!Emit, Numeric
<1>3. CASE Tokens!BeginEscape(c)
  BY <1>3 DEF Tokens!BeginEscape, Tokens!Advance, Numeric
<1>4. CASE Tokens!SimpleEscape(c)
  <2>1. Tokens!Simple(c) \in Nat
    BY <1>4 DEF Tokens!SimpleEscape, Tokens!SimpleEscapes, Tokens!Simple, Tokens!Backslash
  <2> QED
    BY <1>4, <2>1 DEF Tokens!SimpleEscape, Tokens!Advance, Tokens!Emit, Numeric
<1>5. CASE Tokens!BeginUnicode(c)
  BY <1>5 DEF Tokens!BeginUnicode, Tokens!Advance, Numeric
<1>6. CASE Tokens!Escape(c)
  BY <1>1, <1>6 DEF Tokens!Escape, Tokens!Advance, Tokens!Emit, Numeric, Tokens!EscapedBit
<1>7. CASE Tokens!OpenPayload(c) \/ Tokens!NoPayload(c)
  BY <1>7 DEF Tokens!OpenPayload, Tokens!NoPayload, Tokens!Advance, Numeric
<1>8. CASE Tokens!ClosePayload(c)
  BY <1>8 DEF Tokens!ClosePayload, Tokens!Advance, Tokens!Emit, Numeric
<1>9. CASE Tokens!PayloadTooLong(c) \/ Tokens!NoHexDigit(c)
  BY <1>9 DEF Tokens!PayloadTooLong, Tokens!NoHexDigit, Tokens!Advance, Numeric
<1>10. CASE Tokens!PayloadDigit(c)
  <2>1. Tokens!HexDecode(c) \in Nat
    BY <1>10 DEF Tokens!PayloadDigit, Tokens!HexDigits, Tokens!HexDecode
  <2>2. payload' \in Nat /\ offset' \in Nat /\ state' = "payload"
    BY <1>10, <2>1 DEF Tokens!PayloadDigit, Tokens!Advance, Numeric
  <2> QED
    BY <2>2 DEF Numeric
<1>11. CASE Tokens!InError(c)
  BY <1>11 DEF Tokens!InError, Tokens!vars, Tokens!Errors, Numeric
<1> QED
  BY <1>2, <1>3, <1>4, <1>5, <1>6, <1>7, <1>8, <1>9, <1>10, <1>11 DEF Tokens!Feed

\* A parser that is done has built what can be walked.
LEMMA DoneWalkable ==
  ASSUME TInv, outcome = "done", Len(stack) = 1
  PROVE  Walkable(groups, exact)
<1>1. PICK h, path, role, ex :
        h = groups /\ path = Path(stack) /\ role = Doing(stack) /\ ex = exact
  OBVIOUS
<1>2. Whole(h, path, role, ex)
  BY <1>1 DEF TInv
<1>3. role = "GROUP"
  <2>1. Depth(stack) >= 1 /\ (Doing(stack) # "GROUP" => Depth(stack) = Len(stack) - 1)
    BY StackFacts DEF TInv
  <2> QED
    BY <1>1, <2>1
<1>4. ASSUME NEW p \in DOMAIN h, ex
      PROVE  SumReached(h[p])
  <2>1. PICK r : r = Role(path, role, p)
    OBVIOUS
  <2>2. r # "MULTIPLIER"
    BY <1>3, <2>1 DEF Role
  <2>3. Counted(h[p], r)
    BY <1>2, <1>4, <2>1 DEF Whole, Well
  <2> QED
    BY <2>2, <2>3 DEF Counted, SumReached
<1>5. SoundItems(groups)
  <2> SUFFICES ASSUME NEW p \in Places, NEW s \in 1..Len(groups[p].segments),
                      NEW i \in 1..Len(groups[p].segments[s].items)
               PROVE  Sound(groups[p].segments[s].items[i])
    BY DEF SoundItems, AllSound, Places
  <2>1. PICK n, item : n = <<s, i>> /\ item = groups[p].segments[s].items[i]
    OBVIOUS
  <2>2. n \in ItemIndexes(p) /\ item = ItemAt(p, n)
    BY <2>1 DEF ItemIndexes, ItemAt
  <2>3. Top.type \notin {"SET", "SET_RANGE"}
    BY <1>1, <1>3 DEF Doing, Top
  <2>4. Sound(item)
    BY <2>2, <2>3, ItemsSound
  <2> QED
    BY <2>1, <2>4
<1> QED
  BY <1>1, <1>2, <1>4, <1>5 DEF Whole, Walkable

\* A parse, and nothing generated before it is over.
Parsing ==
  /\ TInv /\ Numeric /\ source \in Sources
  /\ phase = "parsed" => outcome = "done" /\ Len(stack) = 1
  /\ phase # "parsed" => result = "idle" /\ calls = <<>>

LEMMA ParseStep ==
  ASSUME Parsing, Parse, UNCHANGED <<source, generation>>
  PROVE  Parsing' /\ result = "idle" /\ calls = <<>>
<1>1. phase = "parsing" /\ result = "idle" /\ calls = <<>>
  BY DEF Parse, TokenError, TokenPart, TokenComplete, EndOfString, NextCodepoint, Parsing
<1>2. result' = "idle" /\ calls' = <<>> /\ source' \in Sources
  BY <1>1 DEF generation, Parsing
<1>3. ASSUME UNCHANGED parser PROVE TInv'
  BY <1>3, StutterStep DEF parser, Stepped, Parsing
<1>4. CASE NextCodepoint
  <2>1. PICK c \in Decoded : Tokens!Feed(c)
    BY <1>4, Fed DEF NextCodepoint, Parsing, Numeric
  <2>2. Numeric' /\ (state' = "init" => token' \in Nat)
    BY <2>1, FeedFacts DEF Parsing
  <2>3. CASE TokenError
    BY <1>1, <1>2, <1>3, <2>2, <2>3 DEF TokenError, Parsing
  <2>4. CASE TokenPart
    BY <1>1, <1>2, <1>3, <2>2, <2>4 DEF TokenPart, Parsing
  <2>5. CASE TokenComplete
    <3>1. TInv'
      BY <2>2, <2>5, TokenStep DEF TokenComplete, Stepped, Parsing
    <3>2. phase' # "parsed"
      BY <1>1, <2>5, TokenOutcome DEF TokenComplete
    <3> QED
      BY <1>1, <1>2, <2>2, <3>1, <3>2 DEF Parsing
  <2>6. ~EndOfString
    BY <1>4 DEF EndOfString, NextCodepoint, Parsing, Numeric
  <2> QED
    BY <1>1, <2>3, <2>4, <2>5, <2>6 DEF Parse
<1>5. CASE EndOfString
  <2>1. Numeric'
    BY <1>5 DEF EndOfString, tokenizer, Numeric, Parsing
  <2>2. TInv'
    BY <1>3, <1>5, FinishStep DEF EndOfString, Stepped, Parsing
  <2>3. phase' = "parsed" => outcome' = "done" /\ Len(stack') = 1
    <3> SUFFICES ASSUME phase' = "parsed" PROVE outcome' = "done" /\ Len(stack') = 1
      OBVIOUS
    <3>1. Finish /\ outcome' = "done"
      BY <1>5 DEF EndOfString
    <3> QED
      BY <3>1 DEF Finish
  <2> QED
    BY <1>1, <1>2, <2>1, <2>2, <2>3 DEF Parsing
<1> QED
  BY <1>1, <1>4, <1>5 DEF Parse, TokenError, TokenPart, TokenComplete

-----------------------------------------------------------------------------
(* The program.                                                            *)

PInv ==
  /\ Parsing
  /\ CallsInv /\ AllInPattern(groups, calls)
  /\ RoomInv /\ Written
  /\ NeverAstray

LEMMA PassgenInitInv == PassgenInit => PInv
<1> SUFFICES ASSUME PassgenInit PROVE PInv
  OBVIOUS
<1>1. TInv
  BY InitTInv DEF PassgenInit
<1>2. Numeric
  BY DEF PassgenInit, Tokens!Init, Numeric
<1>3. result = "idle" /\ calls = <<>> /\ output = <<>> /\ used = 0
  BY DEF PassgenInit, Idle
<1>4. Parsing
  BY <1>1, <1>2, <1>3 DEF PassgenInit, Parsing
<1>5. CallsInv
  BY IdleCalls DEF PassgenInit
<1>6. AllInPattern(groups, calls)
  BY <1>3 DEF AllInPattern
<1>7. RoomInv
  BY DEF PassgenInit, Idle, RoomInv, WithinRoom
<1>8. Written
  <2>1. output \in Seq({}) /\ Takes(buffer.writer, output, used)
    BY <1>3, TakesNothing
  <2> QED
    BY <2>1 DEF Written
<1>9. NeverAstray
  BY <1>3 DEF NeverAstray
<1> QED
  BY <1>4, <1>5, <1>6, <1>7, <1>8, <1>9 DEF PInv

LEMMA RoomKept ==
  ASSUME RoomInv, Written, UNCHANGED generation
  PROVE  RoomInv' /\ Written'
BY DEF generation, RoomInv, WithinRoom, Written

LEMMA GeneratingStep ==
  ASSUME PInv, phase = "parsed", Generating,
         UNCHANGED <<source, phase, tokenizer, alphabet, limit, stack, outcome, fed, exact>>
  PROVE  PInv'
<1>1. (Begin \/ Step) /\ groups' = groups /\ exact' = exact
  BY DEF Generating
<1>2. Walkable(groups, exact)
  BY DoneWalkable DEF PInv, Parsing
<1>3. Parsing'
  <2>1. UNCHANGED vars
    BY <1>1 DEF vars
  <2>2. TInv'
    BY <2>1, StutterStep DEF Stepped, PInv, Parsing
  <2> QED
    BY <2>2 DEF Parsing, PInv, tokenizer, Numeric
<1>4. CallsInv' /\ RoomInv'
  BY CallsStep, RoomStep DEF PInv, GenerateNext
<1>5. AllInPattern(groups, calls')
  BY <1>1, <1>2, CallsStayIn DEF PInv, Walkable
<1>6. Written'
  BY <1>1, WrittenStep DEF PInv
<1>7. NeverAstray'
  <2> SUFFICES ASSUME exact', Orderly' PROVE result' # "astray"
    BY DEF NeverAstray
  <2>1. exact /\ Orderly
    BY <1>1 DEF Orderly
  <2>2. result # "astray"
    BY <2>1 DEF PInv, NeverAstray
  <2> QED
    BY <1>1, <1>2, <2>1, <2>2, StepNotAstray DEF PInv
<1> QED
  BY <1>1, <1>3, <1>4, <1>5, <1>6, <1>7 DEF PInv

LEMMA PassgenStep == PInv /\ [PassgenNext]_program => PInv'
<1> SUFFICES ASSUME PInv, [PassgenNext]_program PROVE PInv'
  OBVIOUS
<1>1. CASE Parse /\ UNCHANGED <<source, generation>>
  <2>1. Parsing' /\ result = "idle" /\ calls = <<>>
    BY <1>1, ParseStep DEF PInv
  <2>2. CallsInv'
    BY <1>1, CallsKept DEF PInv, generation
  <2>3. RoomInv' /\ Written'
    BY <1>1, RoomKept DEF PInv
  <2>4. result' = "idle" /\ calls' = <<>>
    BY <1>1, <2>1 DEF generation
  <2>5. AllInPattern(groups', calls')
    BY <2>4 DEF AllInPattern
  <2>6. NeverAstray'
    BY <2>4 DEF NeverAstray
  <2> QED
    BY <2>1, <2>2, <2>3, <2>5, <2>6 DEF PInv
<1>2. CASE /\ phase = "parsed" /\ Generating
           /\ UNCHANGED <<source, phase, tokenizer, alphabet, limit, stack, outcome, fed, exact>>
  BY <1>2, GeneratingStep
<1>3. CASE UNCHANGED program
  <2>1. UNCHANGED <<source, phase, tokenizer, vars, generation>>
    BY <1>3 DEF program, parsing, parser
  <2>2. TInv'
    BY <2>1, StutterStep DEF Stepped, PInv, Parsing
  <2>3. Parsing'
    BY <2>1, <2>2 DEF Parsing, PInv, tokenizer, Numeric, vars, generation
  <2>4. CallsInv' /\ RoomInv' /\ Written'
    BY <2>1, CallsKept, RoomKept DEF PInv, generation
  <2>5. groups' = groups /\ calls' = calls /\ exact' = exact /\ result' = result
    BY <2>1 DEF vars, generation
  <2>6. AllInPattern(groups', calls') /\ NeverAstray'
    BY <2>5 DEF PInv, NeverAstray, Orderly
  <2> QED
    BY <2>3, <2>4, <2>6 DEF PInv
<1> QED
  BY <1>1, <1>2, <1>3 DEF PassgenNext

\* Generation stays inside what it is given.  The three writers never pass the end of the
\* buffer, with fillpos.cur saying how much of it is filled, whatever string the pattern
\* was parsed from.  And if no segment of it was given a second multiplier and its items
\* are orderly, two conditions that no code checks, then the walk of
\* passgen_generate_group over the segments of a group ends at one of them,
\* passgen_generate_repeat has a count to choose, passgen_generate_set a codepoint, and
\* passgen_generate_special a word.
THEOREM GenerationStaysInside == PassgenSpec => []StaysInside
<1>1. PInv => StaysInside
  BY WrittenWithin DEF PInv, StaysInside
<1> QED
  BY <1>1, PassgenInitInv, PassgenStep, PTL DEF PassgenSpec

\* What passgen_parse hands to the generator is a tree the parser could go on with,
\* and its sums are those that are walked, whatever the string was.
THEOREM ParsedSoundly == PassgenSpec => [](TreeSound /\ Choosable)
<1>1. PInv => TreeSound /\ Choosable
  BY TInvPointers, TInvTree, TInvDead, TInvZero, TInvSums, TInvSets
     DEF PInv, Parsing, TreeSound, Choosable
<1> QED
  BY <1>1, PassgenInitInv, PassgenStep, PTL DEF PassgenSpec
==============================================================================
