-------------------------- MODULE Commands_proofs --------------------------
(***************************************************************************)
(* The command line program keeps its directives in order, closes what it  *)
(* opened, and is undone only for a cause.  The history of directives is   *)
(* what ties these together: what is set, defined, opened and chosen is    *)
(* described by the last directive of its kind, so that every step needs   *)
(* to look only at the directive that it adds.                             *)
(***************************************************************************)
EXTENDS Commands, SequenceTheorems, WellFoundedInduction, TLAPS

Directives == Lines \union Options

-----------------------------------------------------------------------------
(* Greatest elements.                                                      *)

\* A set that begins with zero and goes on from each number to the next has them all.
LEMMA Climb ==
  ASSUME NEW S, 0 \in S, \A n \in Nat : n \in S => n + 1 \in S
  PROVE  \A n \in Nat : n \in S
<1> DEFINE T == {n \in Nat : n \notin S}
           R == OpToRel(<, Nat)
<1> SUFFICES ASSUME T # {} PROVE FALSE
  OBVIOUS
<1>1. IsWellFoundedOn(R, Nat)
  BY NatLessThanWellFounded
<1>2. \A i, j \in Nat : <<i, j>> \in R <=> i < j
  BY DEF OpToRel
<1> HIDE DEF R
<1>3. PICK x \in T : \A y \in T : <<y, x>> \notin R
  BY <1>1, WFMin, Zenon
<1>4. x \in Nat /\ x # 0 /\ x - 1 \in Nat
  OBVIOUS
<1>5. x - 1 \in T
  <2>1. (x - 1) + 1 = x
    BY <1>4
  <2> QED
    BY <1>4, <2>1
<1>6. <<x - 1, x>> \in R
  BY <1>2, <1>4
<1> QED
  BY <1>3, <1>5, <1>6

\* The last of the positions in S, zero if there are none.
LastOf(S, k) == IF S = {} THEN k = 0 ELSE k \in S /\ \A i \in S : i <= k

LEMMA MaxIsLast ==
  ASSUME NEW S \in SUBSET Int, NEW m \in S, \A i \in S : i <= m
  PROVE  Max(S) = m
<1>1. m \in S /\ \A i \in S : m >= i
  OBVIOUS
<1>2. \A x \in S : (\A i \in S : x >= i) => x = m
  OBVIOUS
<1> QED
  BY <1>1, <1>2 DEF Max

LEMMA LastExists ==
  ASSUME NEW n \in Nat, NEW S \in SUBSET (1..n)
  PROVE  \E k \in 0..n : LastOf(S, k)
<1> DEFINE Have == {j \in Nat : \A U \in SUBSET (1..j) : \E k \in 0..j : LastOf(U, k)}
<1>1. 0 \in Have
  <2>1. \A U \in SUBSET (1..0) : U = {}
    OBVIOUS
  <2> QED
    BY <2>1 DEF LastOf
<1>2. ASSUME NEW j \in Nat, j \in Have PROVE j + 1 \in Have
  <2> SUFFICES ASSUME NEW U \in SUBSET (1..j+1) PROVE \E k \in 0..j+1 : LastOf(U, k)
    OBVIOUS
  <2>1. CASE j + 1 \in U
    <3>1. LastOf(U, j + 1)
      BY <2>1 DEF LastOf
    <3> QED
      BY <3>1
  <2>2. CASE j + 1 \notin U
    <3>1. U \in SUBSET (1..j)
      BY <2>2
    <3>2. PICK k \in 0..j : LastOf(U, k)
      BY <1>2, <3>1
    <3> QED
      BY <3>2
  <2> QED
    BY <2>1, <2>2
<1> HIDE DEF Have
<1>3. n \in Have
  BY <1>1, <1>2, Climb
<1> QED
  BY <1>3 DEF Have

\* Adding the next position, or nothing.
LEMMA LastOfNext ==
  ASSUME NEW n \in Nat, NEW S \in SUBSET (1..n)
  PROVE  LastOf(S \union {n + 1}, n + 1)
BY DEF LastOf

LEMMA LastOfRange ==
  ASSUME NEW n \in Nat, NEW S \in SUBSET (1..n), NEW k, LastOf(S, k)
  PROVE  k \in 0..n /\ (k = 0 <=> S = {}) /\ (k # 0 => k \in S /\ Max(S) = k)
<1>1. k \in 0..n /\ (k = 0 <=> S = {}) /\ (k # 0 => k \in S /\ \A i \in S : i <= k)
  <2>1. CASE S = {}
    BY <2>1 DEF LastOf
  <2>2. CASE S # {}
    <3>1. k \in S /\ \A i \in S : i <= k
      BY <2>2 DEF LastOf
    <3>2. k \in 1..n
      BY <3>1
    <3> QED
      BY <2>2, <3>1, <3>2
  <2> QED
    BY <2>1, <2>2
<1>2. S \in SUBSET Int
  OBVIOUS
<1> QED
  BY <1>1, <1>2, MaxIsLast

-----------------------------------------------------------------------------
(* The directives of a history g, by what they do.                         *)

OfKind(g, kind) == {i \in 1..Len(g) : g[i].kind = kind}

Defining(g, name) ==
  {i \in 1..Len(g) : g[i].kind = "preset" /\ g[i].value # NoPattern /\ g[i].name = name}

Opening(g) == {i \in 1..Len(g) : g[i].kind = "wordlist" /\ g[i].file # "missing"}

OpeningFor(g, name) == {i \in Opening(g) : g[i].name = name}

Lengths(g, i) == {j \in 1..i : g[j].kind = "markov"}

ContextsAt(g, i) == IF Lengths(g, i) = {} THEN 3 ELSE g[Max(Lengths(g, i))].value

LEMMA Appended ==
  ASSUME NEW g \in Seq(Directives), NEW d \in Directives
  PROVE  /\ Append(g, d) \in Seq(Directives) /\ Len(g) \in Nat
         /\ Len(Append(g, d)) = Len(g) + 1
         /\ Append(g, d)[Len(g) + 1] = d
         /\ \A i \in 1..Len(g) : Append(g, d)[i] = g[i]
OBVIOUS

If(condition, n) == IF condition THEN {n} ELSE {}

LEMMA AppendedSets ==
  ASSUME NEW g \in Seq(Directives), NEW d \in Directives
  PROVE  LET a == Append(g, d) IN
         /\ \A kind : OfKind(a, kind) = OfKind(g, kind) \union If(d.kind = kind, Len(g) + 1)
         /\ \A name : Defining(a, name) = Defining(g, name)
              \union If(d.kind = "preset" /\ d.value # NoPattern /\ d.name = name, Len(g) + 1)
         /\ Opening(a) = Opening(g)
              \union If(d.kind = "wordlist" /\ d.file # "missing", Len(g) + 1)
         /\ \A name : OpeningFor(a, name) = OpeningFor(g, name)
              \union If(d.kind = "wordlist" /\ d.file # "missing" /\ d.name = name, Len(g) + 1)
<1> DEFINE n == Len(g)
           a == Append(g, d)
<1>1. /\ n \in Nat /\ Len(a) = n + 1 /\ a[n + 1] = d
      /\ \A i \in 1..n : a[i] = g[i]
  BY Appended
<1>2. /\ 1..Len(a) = 1..n \union {n + 1} /\ n + 1 \notin 1..n
  BY <1>1
<1> HIDE DEF n, a
<1>3. \A kind : OfKind(a, kind) = OfKind(g, kind) \union If(d.kind = kind, n + 1)
  BY <1>1, <1>2 DEF OfKind, If, n
<1>4. \A name : Defining(a, name) = Defining(g, name)
         \union If(d.kind = "preset" /\ d.value # NoPattern /\ d.name = name, n + 1)
  BY <1>1, <1>2 DEF Defining, If, n
<1>5. Opening(a) = Opening(g) \union If(d.kind = "wordlist" /\ d.file # "missing", n + 1)
  BY <1>1, <1>2 DEF Opening, If, n
<1>6. \A name : OpeningFor(a, name) = OpeningFor(g, name)
         \union If(d.kind = "wordlist" /\ d.file # "missing" /\ d.name = name, n + 1)
  <2>1. Opening(g) \subseteq 1..n
    BY DEF Opening, n
  <2> QED
    BY <1>1, <1>2, <1>5, <2>1 DEF OpeningFor, If
<1> QED
  BY <1>3, <1>4, <1>5, <1>6 DEF n, a

LEMMA SetsInRange ==
  ASSUME NEW g \in Seq(Directives)
  PROVE  /\ Len(g) \in Nat
         /\ \A kind : OfKind(g, kind) \in SUBSET (1..Len(g))
         /\ \A name : Defining(g, name) \in SUBSET (1..Len(g))
         /\ Opening(g) \in SUBSET (1..Len(g))
         /\ \A name : OpeningFor(g, name) \in SUBSET (1..Len(g))
BY DEF OfKind, Defining, Opening, OpeningFor

LEMMA Grown ==
  ASSUME given \in Seq(Directives), NEW d \in Directives, given' = Append(given, d), NEW n, n = Len(given)
  PROVE  /\ n \in Nat /\ Len(given') = n + 1 /\ given'[n + 1] = d /\ given' \in Seq(Directives)
         /\ \A i \in 1..n : given'[i] = given[i]
         /\ \A kind : OfKind(given', kind) = OfKind(given, kind) \union If(d.kind = kind, n + 1)
         /\ \A name : Defining(given', name) = Defining(given, name)
              \union If(d.kind = "preset" /\ d.value # NoPattern /\ d.name = name, n + 1)
         /\ Opening(given') = Opening(given)
              \union If(d.kind = "wordlist" /\ d.file # "missing", n + 1)
         /\ \A name : OpeningFor(given', name) = OpeningFor(given, name)
              \union If(d.kind = "wordlist" /\ d.file # "missing" /\ d.name = name, n + 1)
<1> DEFINE a == Append(given, d)
<1>1. /\ n \in Nat /\ Len(a) = n + 1 /\ a[n + 1] = d /\ a \in Seq(Directives)
      /\ \A i \in 1..n : a[i] = given[i]
  BY Appended
<1>2. /\ \A kind : OfKind(a, kind) = OfKind(given, kind) \union If(d.kind = kind, n + 1)
      /\ \A name : Defining(a, name) = Defining(given, name)
           \union If(d.kind = "preset" /\ d.value # NoPattern /\ d.name = name, n + 1)
      /\ Opening(a) = Opening(given)
           \union If(d.kind = "wordlist" /\ d.file # "missing", n + 1)
      /\ \A name : OpeningFor(a, name) = OpeningFor(given, name)
           \union If(d.kind = "wordlist" /\ d.file # "missing" /\ d.name = name, n + 1)
  BY AppendedSets
<1>3. given' = a
  OBVIOUS
<1> HIDE DEF a
<1> QED
  BY <1>1, <1>2, <1>3

\* What was set before a directive is not changed by a later one.
LEMMA ContextsKept ==
  ASSUME NEW g \in Seq(Directives), NEW d \in Directives, NEW i \in 0..Len(g)
  PROVE  ContextsAt(Append(g, d), i) = ContextsAt(g, i)
<1> DEFINE a == Append(g, d)
<1>1. Len(g) \in Nat /\ \A j \in 1..Len(g) : a[j] = g[j]
  BY Appended
<1>2. 1..i \subseteq 1..Len(g)
  BY <1>1
<1> HIDE DEF a
<1>3. Lengths(a, i) = Lengths(g, i) /\ Lengths(g, i) \in SUBSET (1..i) /\ i \in Nat
  BY <1>1, <1>2 DEF Lengths
<1>4. PICK k \in 0..i : LastOf(Lengths(g, i), k)
  BY <1>3, LastExists
<1>5. Lengths(g, i) # {} => Max(Lengths(g, i)) \in 1..Len(g)
  <2>1. Lengths(g, i) # {} => k # 0 /\ Max(Lengths(g, i)) = k
    BY <1>3, <1>4, LastOfRange
  <2> QED
    BY <1>1, <2>1
<1>6. ContextsAt(a, i) = ContextsAt(g, i)
  BY <1>1, <1>3, <1>5 DEF ContextsAt
<1> QED
  BY <1>6 DEF a

LEMMA ContextsNext ==
  ASSUME NEW g \in Seq(Directives), NEW d \in Directives, NEW a, a = Append(g, d)
  PROVE  ContextsAt(a, Len(a)) = IF d.kind = "markov" THEN d.value ELSE ContextsAt(g, Len(g))
<1> DEFINE n == Len(g)
<1>1. n \in Nat /\ Len(a) = n + 1 /\ a[n + 1] = d
  BY Appended
<1>2. Lengths(a, n + 1) = Lengths(a, n) \union If(d.kind = "markov", n + 1)
  <2>1. 1..n+1 = 1..n \union {n + 1} /\ n + 1 \notin 1..n
    BY <1>1
  <2> HIDE DEF n
  <2> QED
    BY <1>1, <2>1 DEF Lengths, If
<1>3. Lengths(a, n) \in SUBSET (1..n)
  BY DEF Lengths
<1>4. CASE d.kind = "markov"
  <2>1. Lengths(a, n + 1) = Lengths(a, n) \union {n + 1}
    BY <1>2, <1>4 DEF If
  <2>2. LastOf(Lengths(a, n + 1), n + 1)
    BY <1>1, <1>3, <2>1, LastOfNext
  <2>3. Lengths(a, n + 1) \in SUBSET (1..n + 1) /\ n + 1 \in Nat /\ n + 1 # 0
    BY <1>1 DEF Lengths
  <2>4. Max(Lengths(a, n + 1)) = n + 1 /\ Lengths(a, n + 1) # {}
    BY <2>2, <2>3, LastOfRange
  <2> QED
    BY <1>1, <1>4, <2>4 DEF ContextsAt
<1>5. CASE d.kind # "markov"
  <2>1. Lengths(a, n + 1) = Lengths(a, n)
    BY <1>2, <1>5 DEF If
  <2>2. ContextsAt(a, n + 1) = ContextsAt(a, n)
    BY <2>1 DEF ContextsAt
  <2>3. n \in 0..Len(g)
    BY <1>1
  <2> QED
    BY <1>1, <1>5, <2>2, <2>3, ContextsKept
<1> QED
  BY <1>4, <1>5

\* The last position of a set that gains at most the next one.
LEMMA LastOfMore ==
  ASSUME NEW n \in Nat, NEW S \in SUBSET (1..n), NEW condition \in BOOLEAN, NEW k, LastOf(S, k)
  PROVE  LastOf(S \union If(condition, n + 1), IF condition THEN n + 1 ELSE k)
<1>1. CASE condition
  BY <1>1, LastOfNext DEF If
<1>2. CASE ~condition
  <2>1. S \union If(condition, n + 1) = S
    BY <1>2 DEF If
  <2> QED
    BY <1>2, <2>1
<1> QED
  BY <1>1, <1>2

-----------------------------------------------------------------------------
(* The invariant.                                                          *)

\* Directives are still taken; or a pattern was chosen, and passwords are made.
Early == stage \in {"system", "user", "options"}

Going == stage \in {"parsing", "generating"}

List == [handle : Nat, level : Int, parsed : BOOLEAN, chained : BOOLEAN, held : BOOLEAN]

Types ==
  /\ given \in Seq(Directives)
  /\ markovLength \in Int
  /\ wordlists \in [DOMAIN wordlists -> List]
  /\ stage \in {"system", "user", "options", "parsing", "generating",
                "exited", "crashed", "astray", "overread"}

\* What the options say is what was said last.
LengthIsLast == markovLength = ContextsAt(given, Len(given))

PresetIsLast ==
  \E k : /\ LastOf(OfKind(given, "use"), k)
         /\ preset = IF k = 0 THEN None ELSE given[k].name

PresetsAreLast ==
  \A name : \E k :
    /\ LastOf(Defining(given, name), k)
    /\ IF k = 0 THEN name \in DOMAIN presets <=> name \in DOMAIN Defaults
                ELSE name \in DOMAIN presets
    /\ name \in DOMAIN presets =>
         presets[name] = IF k = 0 THEN Defaults[name] ELSE given[k].value

\* A list is the one opened last under its name, by the length that was set then.
ListsAreLast ==
  /\ \A name \in DOMAIN wordlists :
       LET list == wordlists[name] IN
       /\ list.handle # 0 /\ LastOf(OpeningFor(given, name), list.handle)
       /\ list.level = ContextsAt(given, list.handle) % 256
       /\ list.held => list.parsed
  /\ \A i \in Opening(given) : given[i].name \in DOMAIN wordlists

\* The source of the last option for one, if that could be opened.
OptionSource(g, k) ==
  IF k # 0 /\ OpenParse(g[k]) = "opened" THEN [kind |-> "option", handle |-> k] ELSE NoSource

SourceIsLast ==
  Early => \E k : LastOf(OfKind(given, "random"), k) /\ random = OptionSource(given, k)

SourceIsChosen ==
  Going => \E k : /\ LastOf(OfKind(given, "random"), k)
                  /\ IF OptionSource(given, k) # NoSource THEN random = OptionSource(given, k)
                     ELSE random = [kind |-> IF InMasterMode THEN "master" ELSE "system",
                                    handle |-> Len(given) + 1]

\* Nothing is generated, and no list read, before the options end.
NothingYet ==
  Early => /\ pattern = NoPattern /\ passwords = <<>>
           /\ \A name \in DOMAIN wordlists : ~wordlists[name].held

\* The pattern is the one that was given, or the preset that is used.
PatternIsChosen ==
  Going => /\ IsPattern(pattern)
           /\ preset # None => preset \in DOMAIN presets
           /\ IF preset = None THEN \E i : Patterns = {i} /\ pattern = given[i].value
                               ELSE pattern = presets[preset]

UsesLeft ==
  stage = "generating" =>
    /\ uses \in Seq(Special)
    /\ \A i \in 1..Len(uses) : \E j \in 1..Len(pattern.uses) : uses[i] = pattern.uses[j]

\* The files of lists that were read to an end, and closed.
HeldFiles == {wordlists[n].handle : n \in {m \in DOMAIN wordlists : wordlists[m].held}}

\* What is open is the source and the files of all lists that were ever named, read or
\* not, less those that were read to an end; and the source is none of these files.
OpenIs ==
  /\ Early \/ Going => /\ open = Source \union (Opening(given) \ HeldFiles)
                       /\ Source \intersect Opening(given) = {}
  /\ ~misused
  /\ stage = "exited" /\ status = 0 /\ passwords # <<>> => open = Shadowed

Lasting ==
  /\ LengthIsLast /\ PresetIsLast /\ PresetsAreLast /\ ListsAreLast
  /\ SourceIsLast /\ SourceIsChosen

IInv ==
  /\ Types /\ Lasting /\ NothingYet /\ PatternIsChosen /\ UsesLeft /\ OpenIs
  /\ UndoneForCause

-----------------------------------------------------------------------------
(* What undoes the program, of any history and configuration.              *)

UndoneBy(g, use) ==
  IF use.name = None THEN Opening(g) # {}
  ELSE OpeningFor(g, use.name) # {} /\
    LET opened == Max(OpeningFor(g, use.name))
        list == g[opened]
        level == ContextsAt(g, opened) % 256
    IN  \/ list.file \in {"short", "unsized", "empty"}
        \/ /\ use.letter = "m"
           /\ \/ list.file = "illformed"
              \/ list.file = "good" /\ (list.letters > MaxLink \/ level + list.reach[level] > MaxWord)

UndoneLoading(c) ==
  \/ c.path > MaxPath
  \/ \E file \in {c.system, c.user} :
       file.bytes >= MaxConfig \/ (file.bytes > 0 /\ ~file.newline)

Causes(c, g, p, s) ==
  IF p # NoPattern THEN \E i \in 1..Len(p.uses) : UndoneBy(g, p.uses[i])
  ELSE \/ UndoneLoading(c) /\ s # "crashed"
       \/ g # <<>> /\ s # "overread" /\
            LET last == g[Len(g)] IN
            \/ last.kind = "random" /\ OpenParse(last) = s
            \/ last.kind = "wordlist" /\ ContextsAt(g, Len(g)) % 256 = 0

Undone == {"crashed", "astray", "overread"}

LEMMA UndoesIs ==
  ASSUME NEW use
  PROVE  Undoes(use) <=> UndoneBy(given, use)
BY DEF Undoes, UndoneBy, Opened, ListsOpened, OpeningFor, Opening, LengthAt, ContextsAt, Lengths

LEMMA CauseIs ==
  UndoneForCause <=> (stage \in Undone => Causes(config, given, pattern, stage))
<1>1. \A use : Undoes(use) <=> UndoneBy(given, use)
  BY UndoesIs
<1>2. UndoesLoading <=> UndoneLoading(config)
  BY DEF UndoesLoading, UndoneLoading
<1>3. LengthAt(Len(given)) = ContextsAt(given, Len(given))
  BY DEF LengthAt, ContextsAt, Lengths
<1> QED
  BY <1>1, <1>2, <1>3 DEF UndoneForCause, Causes, Undone

LEMMA CauseIsNext ==
  UndoneForCause' <=> (stage' \in Undone => Causes(config', given', pattern', stage'))
BY DEF UndoneForCause, Causes, Undone, Undoes, UndoneBy, Opened, ListsOpened, OpeningFor, Opening,
       UndoesLoading, UndoneLoading, LengthAt, ContextsAt, Lengths

-----------------------------------------------------------------------------
(* A directive that is taken sets what it is about, and nothing else.      *)

OpensList(d) == d.kind = "wordlist" /\ d.file # "missing"

Defines(d) == d.kind = "preset" /\ d.value # NoPattern

Takes(d) ==
  /\ given' = Append(given, d)
  /\ markovLength' = IF d.kind = "markov" THEN d.value ELSE markovLength
  /\ preset' = IF d.kind = "use" THEN d.name ELSE preset
  /\ presets' = IF Defines(d) THEN Extended(presets, d.name, d.value) ELSE presets
  /\ wordlists' = IF OpensList(d) THEN Extended(wordlists, d.name, NewList(Len(given) + 1))
                  ELSE wordlists
  /\ Early' => random' = IF d.kind # "random" THEN random
                         ELSE IF OpenParse(d) = "opened"
                                THEN [kind |-> "option", handle |-> Len(given) + 1] ELSE NoSource
  /\ Early /\ ~Going'

LEMMA LengthTaken ==
  ASSUME Types, LengthIsLast, NEW d \in Directives, Takes(d)
  PROVE  LengthIsLast'
<1>1. given \in Seq(Directives) /\ given' = Append(given, d)
  BY DEF Types, Takes
<1>2. ContextsAt(given', Len(given'))
        = IF d.kind = "markov" THEN d.value ELSE ContextsAt(given, Len(given))
  BY <1>1, ContextsNext
<1> QED
  BY <1>2 DEF LengthIsLast, Takes

LEMMA PresetTaken ==
  ASSUME Types, PresetIsLast, NEW d \in Directives, Takes(d)
  PROVE  PresetIsLast'
<1>0. PICK n : n = Len(given)
  OBVIOUS
<1> DEFINE S == OfKind(given, "use")
           uses1 == d.kind = "use"
<1>1. given \in Seq(Directives) /\ given' = Append(given, d)
  BY DEF Types, Takes
<1>2. n \in Nat /\ given'[n + 1] = d /\ \A i \in 1..n : given'[i] = given[i]
  BY <1>0, <1>1, Grown
<1>3. PICK k : LastOf(S, k) /\ preset = IF k = 0 THEN None ELSE given[k].name
  BY DEF PresetIsLast
<1>4. S \in SUBSET (1..n) /\ uses1 \in BOOLEAN
  BY <1>0, <1>1, SetsInRange
<1>5. k \in 0..n
  BY <1>2, <1>3, <1>4, LastOfRange
<1>6. OfKind(given', "use") = S \union If(uses1, n + 1)
  BY <1>0, <1>1, Grown
<1> HIDE DEF S
<1>7. LastOf(OfKind(given', "use"), IF uses1 THEN n + 1 ELSE k)
  BY <1>2, <1>3, <1>4, <1>6, LastOfMore
<1>8. preset' = IF uses1 THEN d.name ELSE preset
  BY DEF Takes
<1>9. CASE uses1
  <2>1. LastOf(OfKind(given', "use"), n + 1) /\ n + 1 # 0 /\ preset' = given'[n + 1].name
    BY <1>2, <1>7, <1>8, <1>9
  <2> QED
    BY <2>1 DEF PresetIsLast
<1>10. CASE ~uses1
  <2>1. LastOf(OfKind(given', "use"), k) /\ preset' = IF k = 0 THEN None ELSE given'[k].name
    BY <1>2, <1>3, <1>5, <1>7, <1>8, <1>10
  <2> QED
    BY <2>1 DEF PresetIsLast
<1> QED
  BY <1>9, <1>10

\* What is said of the presets of one name.
PresetIs(g, map, name, k) ==
  /\ LastOf(Defining(g, name), k)
  /\ IF k = 0 THEN name \in DOMAIN map <=> name \in DOMAIN Defaults ELSE name \in DOMAIN map
  /\ name \in DOMAIN map => map[name] = IF k = 0 THEN Defaults[name] ELSE g[k].value

LEMMA PresetsTaken ==
  ASSUME Types, PresetsAreLast, NEW d \in Directives, Takes(d)
  PROVE  PresetsAreLast'
<1>0. PICK n : n = Len(given)
  OBVIOUS
<1>1. given \in Seq(Directives) /\ given' = Append(given, d)
  BY DEF Types, Takes
<1>2. n \in Nat /\ given'[n + 1] = d /\ \A i \in 1..n : given'[i] = given[i]
  BY <1>0, <1>1, Grown
<1>3. SUFFICES ASSUME NEW name PROVE \E k : PresetIs(given', presets', name, k)
  BY DEF PresetsAreLast, PresetIs
<1> DEFINE S == Defining(given, name)
           more == d.kind = "preset" /\ d.value # NoPattern /\ d.name = name
<1>4. PICK k : PresetIs(given, presets, name, k)
  BY DEF PresetsAreLast, PresetIs
<1>5. S \in SUBSET (1..n) /\ more \in BOOLEAN /\ LastOf(S, k)
  BY <1>0, <1>1, <1>4, SetsInRange DEF PresetIs
<1>6. k \in 0..n
  BY <1>2, <1>5, LastOfRange
<1>7. Defining(given', name) = S \union If(more, n + 1)
  BY <1>0, <1>1, Grown
<1> HIDE DEF S
<1>8. LastOf(Defining(given', name), IF more THEN n + 1 ELSE k)
  BY <1>2, <1>5, <1>7, LastOfMore
<1>9. presets' = IF Defines(d) THEN Extended(presets, d.name, d.value) ELSE presets
  BY DEF Takes
<1>10. CASE more
  <2>1. presets' = Extended(presets, name, d.value)
    BY <1>9, <1>10 DEF Defines
  <2>2. name \in DOMAIN presets' /\ presets'[name] = d.value
    BY <2>1, SMT DEF Extended
  <2>3. PresetIs(given', presets', name, n + 1)
    BY <1>2, <1>8, <1>10, <2>2 DEF PresetIs
  <2> QED
    BY <2>3
<1>11. CASE ~more
  <2>1. /\ name \in DOMAIN presets' <=> name \in DOMAIN presets
        /\ name \in DOMAIN presets => presets'[name] = presets[name]
    BY <1>9, <1>11, SMT DEF Defines, Extended
  <2>2. k # 0 => given'[k] = given[k]
    BY <1>2, <1>6
  <2>3. LastOf(Defining(given', name), k)
    BY <1>8, <1>11
  <2>4. PresetIs(given', presets', name, k)
    BY <1>4, <2>1, <2>2, <2>3 DEF PresetIs
  <2> QED
    BY <2>4
<1> QED
  BY <1>10, <1>11

-----------------------------------------------------------------------------
\* What is said of one list.
ListIs(g, name, list) ==
  /\ list.handle # 0 /\ LastOf(OpeningFor(g, name), list.handle)
  /\ list.level = ContextsAt(g, list.handle) % 256
  /\ list.held => list.parsed

LEMMA ListsTaken ==
  ASSUME Types, LengthIsLast, ListsAreLast, NEW d \in Directives, Takes(d)
  PROVE  ListsAreLast'
<1>0. PICK n : n = Len(given)
  OBVIOUS
<1>1. given \in Seq(Directives) /\ given' = Append(given, d)
  BY DEF Types, Takes
<1>2. n \in Nat /\ given'[n + 1] = d /\ \A i \in 1..n : given'[i] = given[i]
  BY <1>0, <1>1, Grown
<1>3. Opening(given') = Opening(given) \union If(OpensList(d), n + 1)
  BY <1>0, <1>1, Grown DEF OpensList
<1>4. Opening(given) \in SUBSET (1..n)
  BY <1>0, <1>1, SetsInRange
<1>5. wordlists' = IF OpensList(d) THEN Extended(wordlists, d.name, NewList(n + 1)) ELSE wordlists
  BY <1>0 DEF Takes
<1>6. \A i \in Opening(given) : given[i].name \in DOMAIN wordlists
  BY DEF ListsAreLast
<1>7. \A i \in Opening(given') : given'[i].name \in DOMAIN wordlists'
  <2>1. CASE OpensList(d)
    <3>1. DOMAIN wordlists' = DOMAIN wordlists \union {d.name}
      BY <1>5, <2>1, SMT DEF Extended
    <3>2. Opening(given') = Opening(given) \union {n + 1}
      BY <1>3, <2>1 DEF If
    <3> QED
      BY <1>2, <1>4, <1>6, <3>1, <3>2
  <2>2. CASE ~OpensList(d)
    <3>1. wordlists' = wordlists /\ Opening(given') = Opening(given)
      BY <1>3, <1>5, <2>2 DEF If
    <3> QED
      BY <1>2, <1>4, <1>6, <3>1
  <2> QED
    BY <2>1, <2>2
<1>8. ASSUME NEW name \in DOMAIN wordlists' PROVE ListIs(given', name, wordlists'[name])
  <2> DEFINE more == OpensList(d) /\ d.name = name
             S == OpeningFor(given, name)
  <2>1. OpeningFor(given', name) = S \union If(more, n + 1)
    BY <1>0, <1>1, Grown DEF OpensList
  <2>2. S \in SUBSET (1..n) /\ more \in BOOLEAN
    BY <1>0, <1>1, SetsInRange
  <2> HIDE DEF S
  <2>3. CASE more
    <3>1. wordlists'[name] = NewList(n + 1)
      BY <1>5, <2>3, SMT DEF Extended
    <3>2. LastOf(OpeningFor(given', name), n + 1)
      BY <1>2, <2>1, <2>2, <2>3, LastOfNext DEF If
    <3>3. d.kind # "markov"
      BY <2>3 DEF OpensList
    <3>4. ContextsAt(given', n + 1) = markovLength
      <4>1. Len(given') = n + 1
        BY <1>0, <1>1, Appended
      <4>2. \A a : a = Append(given, d) => ContextsAt(a, Len(a)) = ContextsAt(given, Len(given))
        BY <1>1, <3>3, ContextsNext
      <4>3. ContextsAt(given', Len(given')) = ContextsAt(given, Len(given))
        BY <1>1, <4>2, Zenon
      <4>4. ContextsAt(given, Len(given)) = markovLength
        BY DEF LengthIsLast
      <4> QED
        BY <4>1, <4>3, <4>4
    <3> QED
      BY <1>2, <3>1, <3>2, <3>4 DEF NewList, ListIs
  <2>4. CASE ~more
    <3>1. name \in DOMAIN wordlists /\ wordlists'[name] = wordlists[name]
      BY <1>5, <2>4, SMT DEF Extended
    <3>2. ListIs(given, name, wordlists[name])
      BY <3>1 DEF ListsAreLast, ListIs
    <3> DEFINE h == wordlists[name].handle
    <3>3. LastOf(S, h) /\ S = OpeningFor(given, name)
      BY <3>2 DEF ListIs, S
    <3>4. h \in 0..n
      BY <1>2, <2>2, <3>3, LastOfRange
    <3>5. OpeningFor(given', name) = OpeningFor(given, name)
      BY <2>1, <2>4, <3>3 DEF If
    <3>6. ContextsAt(given', h) = ContextsAt(given, h)
      BY <1>0, <1>1, <3>4, ContextsKept
    <3> QED
      BY <3>1, <3>2, <3>5, <3>6 DEF ListIs
  <2> QED
    BY <2>3, <2>4
<1> QED
  BY <1>7, <1>8 DEF ListsAreLast, ListIs

LEMMA SourceTaken ==
  ASSUME Types, SourceIsLast, NEW d \in Directives, Takes(d)
  PROVE  SourceIsLast'
<1>0. PICK n : n = Len(given)
  OBVIOUS
<1> DEFINE S == OfKind(given, "random")
           more == d.kind = "random"
<1> SUFFICES ASSUME Early'
             PROVE  \E k : LastOf(OfKind(given', "random"), k) /\ random' = OptionSource(given', k)
  BY DEF SourceIsLast
<1>1. given \in Seq(Directives) /\ given' = Append(given, d) /\ Early
  BY DEF Types, Takes
<1>2. n \in Nat /\ given'[n + 1] = d /\ \A i \in 1..n : given'[i] = given[i]
  BY <1>0, <1>1, Grown
<1>3. PICK k : LastOf(S, k) /\ random = OptionSource(given, k)
  BY <1>1 DEF SourceIsLast
<1>4. S \in SUBSET (1..n) /\ more \in BOOLEAN
  BY <1>0, <1>1, SetsInRange
<1>5. k \in 0..n
  BY <1>2, <1>3, <1>4, LastOfRange
<1>6. OfKind(given', "random") = S \union If(more, n + 1)
  BY <1>0, <1>1, Grown
<1>7. random' = IF ~more THEN random
                ELSE IF OpenParse(d) = "opened" THEN [kind |-> "option", handle |-> n + 1]
                     ELSE NoSource
  BY <1>0 DEF Takes
<1> HIDE DEF S
<1>8. LastOf(OfKind(given', "random"), IF more THEN n + 1 ELSE k)
  BY <1>2, <1>3, <1>4, <1>6, LastOfMore
<1>9. CASE more
  <2>1. random' = OptionSource(given', n + 1)
    BY <1>2, <1>7, <1>9 DEF OptionSource
  <2> QED
    BY <1>8, <1>9, <2>1
<1>10. CASE ~more
  <2>1. k # 0 => given'[k] = given[k]
    BY <1>2, <1>5
  <2>2. random' = OptionSource(given', k)
    BY <1>3, <1>7, <1>10, <2>1 DEF OptionSource
  <2> QED
    BY <1>8, <1>10, <2>2
<1> QED
  BY <1>9, <1>10

-----------------------------------------------------------------------------
(* Directives that lines and options have in common.                       *)

LEMMA FourResults ==
  ASSUME NEW d
  PROVE  OpenParse(d) \in {"opened", "refused", "crashed", "astray"}
BY DEF OpenParse

LEMMA GiveTakes ==
  ASSUME Types, NEW d \in Directives, Early, Give(d), given' = Append(given, d)
  PROVE  Takes(d)
<1>1. CASE GiveRandom(d)
  <2>1. d.kind = "random" /\ UNCHANGED <<wordlists, presets, markovLength, preset>>
    BY <1>1 DEF GiveRandom, settings
  <2>2. stage' = IF OpenParse(d) \in {"crashed", "astray"} THEN OpenParse(d) ELSE stage
    BY <1>1 DEF GiveRandom
  <2>3. random' = IF OpenParse(d) = "refused" THEN NoSource
                  ELSE [kind |-> "option", handle |-> Len(given) + 1]
    BY <1>1 DEF GiveRandom, Handle
  <2> QED
    BY <2>1, <2>2, <2>3, FourResults DEF Takes, Early, Going, Defines, OpensList
<1>2. CASE GiveWordlist(d)
  <2>1. d.kind = "wordlist" /\ UNCHANGED <<random, presets, markovLength, preset>>
    BY <1>2 DEF GiveWordlist, settings
  <2>2. stage' \in {"crashed", stage}
    BY <1>2 DEF GiveWordlist
  <2>3. wordlists' = IF d.file = "missing" THEN wordlists
                     ELSE Extended(wordlists, d.name, NewList(Len(given) + 1))
    BY <1>2 DEF GiveWordlist, Handle
  <2> QED
    BY <2>1, <2>2, <2>3 DEF Takes, Early, Going, Defines, OpensList
<1>3. CASE GivePreset(d)
  BY <1>3 DEF GivePreset, Takes, Early, Going, Defines, OpensList
<1> QED
  BY <1>1, <1>2, <1>3 DEF Give

LEMMA SetTakes ==
  ASSUME Types, NEW d \in Directives, Set(d)
  PROVE  Takes(d)
<1>1. /\ Early /\ given' = Append(given, d)
      /\ UNCHANGED <<stage, random, wordlists, presets>>
  BY DEF Set, Opt, Early
<1>2. d.kind \in {"amount", "markov", "use", "master", "pattern"}
  BY DEF Set
<1>3. /\ markovLength' = IF d.kind = "markov" THEN d.value ELSE markovLength
      /\ preset' = IF d.kind = "use" THEN d.name ELSE preset
  BY DEF Set
<1> QED
  BY <1>1, <1>2, <1>3 DEF Takes, Early, Going, Defines, OpensList

LEMMA TypesTaken ==
  ASSUME Types, NEW d \in Directives, Takes(d), stage' \in {stage, "crashed", "astray"}
  PROVE  Types'
<1>1. given' \in Seq(Directives) /\ Len(given) \in Nat
  BY DEF Types, Takes
<1>2. markovLength' \in Int
  BY DirectivesAssumption DEF Types, Takes, Directives
<1>3. wordlists' \in [DOMAIN wordlists' -> List]
  <2>1. wordlists \in [DOMAIN wordlists -> List]
    BY DEF Types
  <2>2. CASE OpensList(d)
    <3>1. NewList(Len(given) + 1) \in List
      BY <1>1 DEF NewList, List, Types
    <3> DEFINE new == NewList(Len(given) + 1)
    <3>2. wordlists' = Extended(wordlists, d.name, new)
      BY <2>2 DEF Takes
    <3> HIDE DEF new
    <3> QED
      BY <2>1, <3>1, <3>2 DEF Extended, new
  <2>3. CASE ~OpensList(d)
    BY <2>1, <2>3 DEF Takes
  <2> QED
    BY <2>2, <2>3
<1> QED
  BY <1>1, <1>2, <1>3 DEF Types

LEMMA LastingTaken ==
  ASSUME Types, Lasting, NEW d \in Directives, Takes(d)
  PROVE  Lasting'
<1>1. SourceIsChosen'
  BY DEF SourceIsChosen, Takes
<1> QED
  BY <1>1, LengthTaken, PresetTaken, PresetsTaken, ListsTaken, SourceTaken DEF Lasting

\* While directives are taken the source is the one of an option.
LEMMA EarlySource ==
  ASSUME Types, SourceIsLast, Early
  PROVE  Source \in SUBSET OfKind(given, "random")
<1>1. PICK k : LastOf(OfKind(given, "random"), k) /\ random = OptionSource(given, k)
  BY DEF SourceIsLast
<1>2. k # 0 => k \in OfKind(given, "random")
  BY <1>1 DEF LastOf
<1> QED
  BY <1>1, <1>2 DEF Source, OptionSource

LEMMA NothingHeld ==
  ASSUME NothingYet, Early
  PROVE  HeldFiles = {}
BY DEF NothingYet, HeldFiles

LEMMA NothingYetTaken ==
  ASSUME Types, NothingYet, NEW d \in Directives, Takes(d), UNCHANGED <<pattern, passwords>>
  PROVE  NothingYet' /\ HeldFiles' = {}
<1>1. Early /\ wordlists' = IF OpensList(d) THEN Extended(wordlists, d.name, NewList(Len(given) + 1))
                            ELSE wordlists
  BY DEF Takes
<1>2. NewList(Len(given) + 1).held = FALSE
  BY DEF NewList
<1>3. \A name \in DOMAIN wordlists : ~wordlists[name].held
  BY <1>1 DEF NothingYet
<1> DEFINE new == NewList(Len(given) + 1)
<1> HIDE DEF new
<1>4. \A name \in DOMAIN wordlists' : ~wordlists'[name].held
  <2>1. CASE OpensList(d)
    <3>1. wordlists' = Extended(wordlists, d.name, new)
      BY <1>1, <2>1 DEF new
    <3>2. ~new.held
      BY <1>2 DEF new
    <3> QED
      BY <1>3, <3>1, <3>2, SMT DEF Extended
  <2>2. CASE ~OpensList(d)
    BY <1>1, <1>3, <2>2
  <2> QED
    BY <2>1, <2>2
<1>5. HeldFiles' = {}
  BY <1>4 DEF HeldFiles
<1> QED
  BY <1>1, <1>4, <1>5 DEF NothingYet

LEMMA OpenGiven ==
  ASSUME IInv, NEW d \in Directives, Early, Give(d), given' = Append(given, d), Takes(d),
         UNCHANGED <<pattern, passwords>>
  PROVE  OpenIs'
<1>0. PICK n : n = Len(given)
  OBVIOUS
<1>1. given \in Seq(Directives)
  BY DEF IInv, Types
<1>2. /\ n \in Nat
      /\ Opening(given') = Opening(given) \union If(OpensList(d), n + 1)
  BY <1>0, <1>1, Grown DEF OpensList
<1>3. Opening(given) \in SUBSET (1..n) /\ OfKind(given, "random") \in SUBSET (1..n)
  BY <1>0, <1>1, SetsInRange
<1>4. Source \in SUBSET (1..n)
  BY <1>3, EarlySource DEF IInv, Lasting
<1>5. HeldFiles = {} /\ HeldFiles' = {} /\ passwords' = <<>>
  BY NothingHeld, NothingYetTaken DEF IInv, NothingYet
<1>6. open = Source \union Opening(given) /\ Source \intersect Opening(given) = {} /\ ~misused
  BY <1>5 DEF IInv, OpenIs
<1>7. SUFFICES /\ ~misused'
               /\ Early' => /\ open' = Source' \union Opening(given')
                            /\ Source' \intersect Opening(given') = {}
  BY <1>5 DEF OpenIs, Takes
<1>8. CASE GiveRandom(d)
  <2>1. Opening(given') = Opening(given)
    BY <1>2, <1>8 DEF GiveRandom, OpensList, If
  <2>2. ~misused'
    BY <1>6, <1>8 DEF GiveRandom
  <2>3. PICK opened : /\ opened = IF OpenParse(d) = "refused" THEN {} ELSE {n + 1}
                      /\ open' = (open \ Source) \union opened
                      /\ random' = IF opened = {} THEN NoSource
                                   ELSE [kind |-> "option", handle |-> n + 1]
    BY <1>0, <1>8 DEF GiveRandom, Handle
  <2>4. Source' = opened
    <3>1. CASE OpenParse(d) = "refused"
      BY <2>3, <3>1 DEF Source
    <3>2. CASE OpenParse(d) # "refused"
      <4>1. opened = {n + 1} /\ random' = [kind |-> "option", handle |-> n + 1]
        BY <2>3, <3>2
      <4>2. random' # NoSource
        BY <1>2, <4>1 DEF NoSource
      <4> QED
        BY <4>1, <4>2 DEF Source
    <3> QED
      BY <3>1, <3>2
  <2>5. open \ Source = Opening(given)
    BY <1>6
  <2>6. opened \intersect Opening(given) = {}
    BY <1>2, <1>3, <2>3
  <2> QED
    BY <2>1, <2>2, <2>3, <2>4, <2>5, <2>6
<1>9. CASE GiveWordlist(d)
  <2>1. random' = random /\ misused' = misused /\ d.kind = "wordlist"
        /\ open' = open \union If(OpensList(d), n + 1)
    BY <1>0, <1>9 DEF GiveWordlist, If, OpensList, Handle
  <2>2. Source' = Source
    BY <2>1 DEF Source
  <2> QED
    BY <1>2, <1>3, <1>4, <1>6, <2>1, <2>2 DEF If
<1>10. CASE GivePreset(d)
  <2>1. UNCHANGED <<random, open, misused>> /\ ~OpensList(d)
    BY <1>10 DEF GivePreset, OpensList
  <2>2. Source' = Source /\ Opening(given') = Opening(given)
    BY <1>2, <2>1 DEF Source, If
  <2> QED
    BY <1>6, <2>1, <2>2
<1> QED
  BY <1>8, <1>9, <1>10 DEF Give

LEMMA CauseGiven ==
  ASSUME IInv, NEW d \in Directives, Early, Give(d), given' = Append(given, d), Takes(d),
         UNCHANGED pattern
  PROVE  UndoneForCause'
<1>0. PICK n : n = Len(given)
  OBVIOUS
<1>1. given \in Seq(Directives)
  BY DEF IInv, Types
<1>2. n \in Nat /\ Len(given') = n + 1 /\ given'[n + 1] = d
  BY <1>0, <1>1, Grown
<1>3. pattern' = NoPattern
  BY DEF IInv, NothingYet
<1>a. stage' \in {stage, "crashed", "astray"} /\ stage \notin Undone
  BY DEF Give, GiveRandom, GiveWordlist, GivePreset, Early, Undone
<1>b. given' # <<>>
  BY <1>2
<1>4. SUFFICES ASSUME stage' \in {"crashed", "astray"}
               PROVE  \/ d.kind = "random" /\ OpenParse(d) = stage'
                      \/ d.kind = "wordlist" /\ ContextsAt(given', Len(given')) % 256 = 0
  <2>1. stage' \in Undone => stage' \in {"crashed", "astray"}
    BY <1>a DEF Undone
  <2> QED
    BY <1>2, <1>3, <1>b, <2>1, CauseIsNext DEF Causes
<1>5. stage \notin {"crashed", "astray"}
  BY DEF Early
<1>6. CASE GiveRandom(d)
  BY <1>4, <1>5, <1>6 DEF GiveRandom
<1>7. CASE GiveWordlist(d)
  <2>1. d.kind = "wordlist" /\ NewList(Handle).level = 0
    BY <1>4, <1>5, <1>7 DEF GiveWordlist
  <2>2. markovLength % 256 = 0
    BY <2>1 DEF NewList
  <2>3. ContextsAt(given', Len(given')) = markovLength
    BY <1>1, <2>1, ContextsNext DEF IInv, Lasting, LengthIsLast
  <2> QED
    BY <2>1, <2>2, <2>3
<1>8. CASE GivePreset(d)
  BY <1>4, <1>5, <1>8 DEF GivePreset
<1> QED
  BY <1>6, <1>7, <1>8 DEF Give

LEMMA GiveKeeps ==
  ASSUME IInv, NEW d \in Directives, Early, Give(d), given' = Append(given, d),
         UNCHANGED <<passwords, uses>>
  PROVE  IInv'
<1>1. Takes(d)
  BY GiveTakes DEF IInv
<1>2. pattern' = pattern
  BY DEF Give, GiveRandom, GiveWordlist, GivePreset, settings
<1>3. stage' \in {stage, "crashed", "astray"}
  BY DEF Give, GiveRandom, GiveWordlist, GivePreset
<1>4. Types' /\ Lasting' /\ NothingYet'
  BY <1>1, <1>2, <1>3, TypesTaken, LastingTaken, NothingYetTaken DEF IInv
<1>5. OpenIs' /\ UndoneForCause'
  BY <1>1, <1>2, OpenGiven, CauseGiven
<1>6. PatternIsChosen' /\ UsesLeft'
  BY <1>1 DEF PatternIsChosen, UsesLeft, Takes, Going
<1> QED
  BY <1>4, <1>5, <1>6 DEF IInv

-----------------------------------------------------------------------------
(* Steps that take no directive.                                           *)

LEMMA HistoryKept ==
  ASSUME IInv, UNCHANGED <<given, markovLength, preset, presets, wordlists>>
  PROVE  LengthIsLast' /\ PresetIsLast' /\ PresetsAreLast' /\ ListsAreLast'
<1>1. LengthIsLast'
  BY DEF IInv, Lasting, LengthIsLast
<1>2. PresetIsLast'
  BY DEF IInv, Lasting, PresetIsLast
<1>3. PresetsAreLast'
  BY DEF IInv, Lasting, PresetsAreLast
<1>4. ListsAreLast'
  BY DEF IInv, Lasting, ListsAreLast
<1> QED
  BY <1>1, <1>2, <1>3, <1>4

LEMMA Stops ==
  ASSUME IInv, stage' \in {"exited", "astray", "overread"}, stage' = "exited" \/ UndoneForCause',
         UNCHANGED <<given, markovLength, preset, presets, wordlists>>,
         ~misused', stage' = "exited" /\ status' = 0 /\ passwords' # <<>> => open' = Shadowed'
  PROVE  IInv'
<1>1. ~Early' /\ ~Going' /\ stage' # "generating"
  BY DEF Early, Going
<1>2. Types'
  BY DEF IInv, Types
<1>3. SourceIsLast' /\ SourceIsChosen' /\ NothingYet' /\ PatternIsChosen' /\ UsesLeft' /\ OpenIs'
  BY <1>1 DEF SourceIsLast, SourceIsChosen, NothingYet, PatternIsChosen, UsesLeft, OpenIs
<1>4. UndoneForCause'
  BY DEF UndoneForCause
<1> QED
  BY <1>2, <1>3, <1>4, HistoryKept DEF IInv, Lasting

\* The lists have files of their own.
LEMMA HandlesApart ==
  ASSUME Types, ListsAreLast
  PROVE  \A name \in DOMAIN wordlists :
           /\ wordlists[name].handle \in Opening(given)
           /\ given[wordlists[name].handle].name = name
<1> SUFFICES ASSUME NEW name \in DOMAIN wordlists
             PROVE  wordlists[name].handle \in OpeningFor(given, name)
  BY DEF OpeningFor
<1> DEFINE h == wordlists[name].handle
<1>1. given \in Seq(Directives) /\ h # 0 /\ LastOf(OpeningFor(given, name), h)
  BY DEF Types, ListsAreLast
<1> HIDE DEF h
<1>2. Len(given) \in Nat /\ OpeningFor(given, name) \in SUBSET (1..Len(given))
  BY <1>1, SetsInRange
<1>3. h \in OpeningFor(given, name)
  BY <1>1, <1>2, LastOfRange
<1> QED
  BY <1>3 DEF h

\* What is open besides the source: files of lists that were not read to an end, and
\* files of lists that lost their names.
LEMMA WhatIsOpen ==
  ASSUME Types, ListsAreLast
  PROVE  /\ Opening(given) \ HeldFiles = Unread \union Shadowed
         /\ Unread \intersect Shadowed = {}
<1> DEFINE All == {wordlists[n].handle : n \in DOMAIN wordlists}
<1>1. ListsOpened = Opening(given)
  BY DEF ListsOpened, Opening
<1>2. Shadowed = Opening(given) \ All
  BY <1>1 DEF Shadowed
<1>3. \A m, n \in DOMAIN wordlists : wordlists[m].handle = wordlists[n].handle => m = n
  BY HandlesApart
<1>4. \A n \in DOMAIN wordlists : wordlists[n].handle \in Opening(given)
  BY HandlesApart
<1>5. All = Unread \union HeldFiles
  BY DEF Unread, HeldFiles
<1>6. Unread \intersect HeldFiles = {}
  BY <1>3 DEF Unread, HeldFiles
<1>7. Unread \subseteq Opening(given) /\ All \subseteq Opening(given)
  BY <1>4, <1>5 DEF Unread
<1> HIDE DEF All
<1> QED
  BY <1>2, <1>5, <1>6, <1>7

\* All that is released is open, and what stays open then are lists that lost their names.
LEMMA FreedAtLast ==
  ASSUME IInv, Early \/ Going, FreeAndExit
  PROVE  ~misused' /\ open' = Shadowed'
<1>1. Opening(given) \ HeldFiles = Unread \union Shadowed /\ Unread \intersect Shadowed = {}
  BY WhatIsOpen DEF IInv, Lasting
<1>2. open = Source \union (Opening(given) \ HeldFiles) /\ Source \intersect Opening(given) = {}
      /\ ~misused
  BY DEF IInv, OpenIs
<1>3. Shadowed \subseteq Opening(given)
  BY DEF Shadowed, ListsOpened, Opening
<1>4. Shadowed' = Shadowed
  BY DEF FreeAndExit, Exit, Shadowed, ListsOpened
<1>5. open' = open \ (Source \union Unread)
      /\ misused' = (misused \/ ~(Source \union Unread \subseteq open))
  BY DEF FreeAndExit, Close, Released
<1>6. open' = Shadowed
  BY <1>1, <1>2, <1>3, <1>5
<1>7. Source \union Unread \subseteq open
  BY <1>1, <1>2
<1> QED
  BY <1>2, <1>4, <1>5, <1>6, <1>7

LEMMA FreesAndExits ==
  ASSUME IInv, Early \/ Going, FreeAndExit
  PROVE  IInv'
<1>1. ~misused' /\ open' = Shadowed'
  BY FreedAtLast
<1>2. stage' = "exited" /\ UNCHANGED <<given, markovLength, preset, presets, wordlists>>
  BY DEF FreeAndExit, Exit, settings
<1> QED
  BY <1>1, <1>2, Stops

\* An exit with an error, or before passwords are made.
LEMMA Quits ==
  ASSUME IInv, NEW code, Quit(code), code # 0 \/ Early
  PROVE  IInv'
<1>1. stage' = "exited" /\ status' = code /\ passwords' = passwords /\ misused' = misused
      /\ UNCHANGED <<given, markovLength, preset, presets, wordlists>>
  BY DEF Quit, Exit, settings, work
<1>2. status' = 0 => passwords' = <<>>
  BY <1>1 DEF IInv, NothingYet
<1>3. ~misused'
  BY <1>1 DEF IInv, OpenIs
<1> QED
  BY <1>1, <1>2, <1>3, Stops

LEMMA EndOfFileKeeps ==
  ASSUME IInv, EndOfFile
  PROVE  IInv'
<1>1. /\ Early /\ Early' /\ ~Going' /\ stage' # "generating" /\ stage' \notin {"crashed", "astray", "overread", "exited"}
      /\ UNCHANGED <<given, random, wordlists, presets, markovLength, amount, preset, pattern,
                     open, misused, uses, passwords, status>>
  BY DEF EndOfFile, Loading, Early, Going, settings, work
<1>2. Types'
  BY <1>1 DEF IInv, Types, Early
<1>3. SourceIsLast'
  BY <1>1 DEF IInv, Lasting, SourceIsLast, OptionSource
<1>4. SourceIsChosen' /\ PatternIsChosen' /\ UsesLeft' /\ UndoneForCause'
  BY <1>1 DEF SourceIsChosen, PatternIsChosen, UsesLeft, UndoneForCause
<1>5. NothingYet'
  BY <1>1 DEF IInv, NothingYet
<1>6. OpenIs'
  BY <1>1 DEF IInv, OpenIs, Source, HeldFiles, Opening
<1> QED
  BY <1>1, <1>2, <1>3, <1>4, <1>5, <1>6, HistoryKept DEF IInv, Lasting

LEMMA FailOptionKeeps ==
  ASSUME IInv, NEW d, FailOption(d)
  PROVE  IInv'
<1>1. /\ Early /\ stage' = "exited" /\ status' = 1
      /\ UNCHANGED <<given, markovLength, preset, presets, wordlists>>
  BY DEF FailOption, Early, settings
<1>2. Source \subseteq open /\ ~misused
  BY <1>1 DEF IInv, OpenIs
<1>3. ~misused'
  BY <1>2 DEF FailOption, Close
<1> QED
  BY <1>1, <1>3, Stops

LEMMA SetKeeps ==
  ASSUME IInv, NEW d \in Directives, Set(d)
  PROVE  IInv'
<1>1. Takes(d)
  BY SetTakes DEF IInv
<1>2. /\ stage' = stage /\ ~OpensList(d) /\ stage \notin {"crashed", "astray", "overread", "exited"}
      /\ UNCHANGED <<random, wordlists, pattern, open, misused, uses, passwords, status>>
  BY DEF Set, Opt, OpensList, work
<1>3. Types' /\ Lasting' /\ NothingYet'
  BY <1>1, <1>2, TypesTaken, LastingTaken, NothingYetTaken DEF IInv
<1>4. Opening(given') = Opening(given)
  <2>1. given \in Seq(Directives) /\ given' = Append(given, d)
    BY <1>1 DEF IInv, Types, Takes
  <2> QED
    <3>1. Opening(given') = Opening(given) \union If(OpensList(d), Len(given) + 1)
      BY <2>1, AppendedSets DEF OpensList
    <3> QED
      BY <1>2, <3>1 DEF If
<1>5. OpenIs'
  BY <1>2, <1>4 DEF IInv, OpenIs, Source, HeldFiles, Early, Going
<1>6. PatternIsChosen' /\ UsesLeft' /\ UndoneForCause'
  BY <1>1, <1>2 DEF PatternIsChosen, UsesLeft, UndoneForCause, Takes, Going
<1> QED
  BY <1>3, <1>5, <1>6 DEF IInv

-----------------------------------------------------------------------------
(* The end of the options.                                                 *)

\* A preset that is defined is a pattern.
LEMMA PresetsArePatterns ==
  ASSUME Types, PresetsAreLast, NEW name \in DOMAIN presets
  PROVE  IsPattern(presets[name])
<1>1. PICK k : PresetIs(given, presets, name, k)
  BY DEF PresetsAreLast, PresetIs
<1>2. given \in Seq(Directives)
  BY DEF Types
<1>3. LastOf(Defining(given, name), k) /\ Len(given) \in Nat
      /\ Defining(given, name) \in SUBSET (1..Len(given))
  BY <1>1, <1>2, SetsInRange DEF PresetIs
<1>4. CASE k = 0
  <2>1. name \in DOMAIN Defaults /\ presets[name] = Defaults[name]
    BY <1>1, <1>4 DEF PresetIs
  <2> QED
    BY <2>1, DefaultsAssumption
<1>5. CASE k # 0
  <2>1. k \in Defining(given, name)
    BY <1>3, <1>5, LastOfRange
  <2>2. /\ given[k] \in Directives /\ given[k].kind = "preset" /\ given[k].value # NoPattern
        /\ presets[name] = given[k].value
    BY <1>1, <1>2, <1>5, <2>1 DEF Defining, PresetIs
  <2> QED
    BY <2>2, DirectivesAssumption DEF Directives
<1> QED
  BY <1>4, <1>5

\* Patterns are looked for among the arguments from the first one on.
LEMMA FormatIs ==
  ASSUME Types, PresetsAreLast, ~PresetUnknown, NEW i, Formats = {i}
  PROVE  /\ IsPattern(Format(i))
         /\ IF preset = None THEN Patterns = {i} /\ Format(i) = given[i].value
            ELSE preset \in DOMAIN presets /\ Format(i) = presets[preset]
<1>1. given \in Seq(Directives)
  BY DEF Types
<1>2. 0 \notin Patterns
  BY DEF Patterns
<1>3. CASE preset = None
  <2>1. Patterns = {i} /\ i # 0
    BY <1>2, <1>3 DEF Formats
  <2>2. Format(i) = given[i].value
    BY <2>1 DEF Format
  <2>3. given[i] \in Directives /\ given[i].kind = "pattern"
    BY <1>1, <2>1 DEF Patterns
  <2>4. IsPattern(given[i].value)
    BY <2>3, DirectivesAssumption DEF Directives
  <2> QED
    BY <1>3, <2>1, <2>2, <2>4
<1>4. CASE preset # None
  <2>1. i = 0
    BY <1>4 DEF Formats
  <2>2. preset \in DOMAIN presets
    BY <1>4 DEF PresetUnknown
  <2>3. Format(i) = presets[preset]
    BY <2>1 DEF Format
  <2> QED
    BY <1>4, <2>2, <2>3, PresetsArePatterns
<1> QED
  BY <1>3, <1>4

\* Options end with a pattern.
Chooses ==
  /\ stage = "options" /\ ~PresetUnknown
  /\ \E i \in Formats : Formats = {i} /\ pattern' = Format(i)
  /\ random' = Chosen
  /\ open' = open \union {Chosen.handle}
  /\ stage' = "parsing"
  /\ UNCHANGED <<given, read, wordlists, presets, markovLength, amount, preset, misused, work,
                 status>>

LEMMA ChosenSource ==
  ASSUME IInv, Chooses
  PROVE  /\ SourceIsChosen' /\ SourceIsLast'
         /\ Source' = {Chosen.handle} /\ Source \subseteq Source'
         /\ Source' \intersect Opening(given) = {}
<1>0. PICK n : n = Len(given)
  OBVIOUS
<1>1. Early /\ ~Early' /\ given' = given /\ random' = Chosen
  BY DEF Chooses, Early
<1>2. PICK k : LastOf(OfKind(given, "random"), k) /\ random = OptionSource(given, k)
  BY <1>1 DEF IInv, Lasting, SourceIsLast
<1>3. given \in Seq(Directives) /\ n \in Nat /\ Opening(given) \in SUBSET (1..n)
      /\ OfKind(given, "random") \in SUBSET (1..n)
  BY <1>0, SetsInRange DEF IInv, Types
<1>4. Chosen = IF random # NoSource THEN random
               ELSE [kind |-> IF InMasterMode THEN "master" ELSE "system", handle |-> n + 1]
  BY <1>0 DEF Chosen, Handle
<1>5. Chosen # NoSource
  BY <1>3, <1>4 DEF NoSource
<1>6. Source' = {Chosen.handle}
  BY <1>1, <1>5 DEF Source
<1>7. Source \subseteq Source'
  BY <1>4, <1>6 DEF Source
<1>8. Source' \intersect Opening(given) = {}
  <2>1. CASE random # NoSource
    <3>1. Source' = Source
      BY <1>4, <1>6, <2>1 DEF Source
    <3>2. Source \intersect Opening(given) = {}
      BY <1>1 DEF IInv, OpenIs
    <3> QED
      BY <3>1, <3>2
  <2>2. CASE random = NoSource
    <3>1. Source' = {n + 1}
      BY <1>4, <1>6, <2>2
    <3> QED
      BY <1>3, <3>1
  <2> QED
    BY <2>1, <2>2
<1>9. SourceIsChosen'
  <2>1. InMasterMode' = InMasterMode
    BY <1>1 DEF InMasterMode
  <2>2. IF OptionSource(given', k) # NoSource THEN random' = OptionSource(given', k)
        ELSE random' = [kind |-> IF InMasterMode' THEN "master" ELSE "system",
                        handle |-> Len(given') + 1]
    BY <1>0, <1>1, <1>2, <1>4, <2>1
  <2> QED
    BY <1>1, <1>2, <2>2 DEF SourceIsChosen
<1> QED
  BY <1>1, <1>6, <1>7, <1>8, <1>9 DEF SourceIsLast

LEMMA ChoosesKeeps ==
  ASSUME IInv, Chooses
  PROVE  IInv'
<1>1. /\ Early /\ ~Early' /\ Going' /\ stage' = "parsing"
      /\ UNCHANGED <<given, wordlists, presets, markovLength, preset, misused>>
  BY DEF Chooses, Early, Going
<1>2. Types'
  BY <1>1 DEF IInv, Types
<1>3. PatternIsChosen'
  <2>1. PICK i : Formats = {i} /\ pattern' = Format(i) /\ ~PresetUnknown
    BY DEF Chooses
  <2>2. /\ IsPattern(Format(i))
        /\ IF preset = None THEN Patterns = {i} /\ Format(i) = given[i].value
           ELSE preset \in DOMAIN presets /\ Format(i) = presets[preset]
    BY <2>1, FormatIs DEF IInv, Lasting
  <2>3. Patterns' = Patterns
    BY <1>1 DEF Patterns
  <2> QED
    BY <1>1, <2>1, <2>2, <2>3 DEF PatternIsChosen
<1>4. OpenIs'
  <2>1. open = Source \union (Opening(given) \ HeldFiles) /\ ~misused
    BY <1>1 DEF IInv, OpenIs
  <2>2. Opening(given') = Opening(given) /\ HeldFiles' = HeldFiles
    BY <1>1 DEF HeldFiles
  <2>3. open' = open \union Source' /\ Source \subseteq Source'
        /\ Source' \intersect Opening(given) = {}
    BY ChosenSource DEF Chooses
  <2>4. open' = Source' \union (Opening(given) \ HeldFiles)
    BY <2>1, <2>3
  <2> QED
    BY <1>1, <2>1, <2>2, <2>3, <2>4 DEF OpenIs
<1>5. NothingYet' /\ UsesLeft' /\ UndoneForCause'
  BY <1>1 DEF NothingYet, UsesLeft, UndoneForCause
<1> QED
  BY <1>1, <1>2, <1>3, <1>4, <1>5, HistoryKept, ChosenSource DEF IInv, Lasting

LEMMA EndOfOptionsKeeps ==
  ASSUME IInv, EndOfOptions
  PROVE  IInv'
<1>1. Early
  BY DEF EndOfOptions, Early
<1>2. \/ Quit(PresetNotFound) \/ Quit(MultipleFormats) \/ FreeAndExit \/ Chooses
  BY DEF EndOfOptions, Chooses
<1> QED
  BY <1>1, <1>2, Quits, FreesAndExits, ChoosesKeeps

-----------------------------------------------------------------------------
(* Passwords.                                                              *)

LEMMA ParsesKeeps ==
  ASSUME IInv, Parses
  PROVE  IInv'
<1>1. /\ Going /\ ~Early /\ ~Early' /\ Going' /\ stage' = "generating" /\ uses' = pattern.uses
      /\ UNCHANGED <<given, random, wordlists, presets, markovLength, preset, pattern,
                     open, misused>>
  BY DEF Parses, Early, Going, settings
<1>2. Types'
  BY <1>1 DEF IInv, Types
<1>3. SourceIsLast' /\ NothingYet' /\ UndoneForCause'
  BY <1>1 DEF SourceIsLast, NothingYet, UndoneForCause
<1>4. SourceIsChosen'
  BY <1>1 DEF IInv, Lasting, SourceIsChosen, OptionSource, InMasterMode
<1>5. PatternIsChosen' /\ IsPattern(pattern)
  BY <1>1 DEF IInv, PatternIsChosen, Patterns
<1>6. UsesLeft'
  <2>1. uses' \in Seq(Special)
    BY <1>1, <1>5 DEF IsPattern
  <2> QED
    BY <1>1, <2>1 DEF UsesLeft
<1>7. OpenIs'
  BY <1>1 DEF IInv, OpenIs, Source, HeldFiles, Opening
<1> QED
  BY <1>1, <1>2, <1>3, <1>4, <1>5, <1>6, <1>7, HistoryKept DEF IInv, Lasting

\* A password is printed, and the next one begins.
LEMMA PrintsKeeps ==
  ASSUME IInv, stage = "generating", uses' = pattern.uses,
         UNCHANGED <<stage, given, random, wordlists, settings, open, misused>>
  PROVE  IInv'
<1>1. /\ Going /\ ~Early /\ ~Early' /\ Going' /\ stage' = "generating"
      /\ UNCHANGED <<given, random, wordlists, presets, markovLength, preset, pattern,
                     open, misused>>
  BY DEF Early, Going, settings
<1>2. Types'
  BY <1>1 DEF IInv, Types
<1>3. SourceIsLast' /\ NothingYet' /\ UndoneForCause'
  BY <1>1 DEF SourceIsLast, NothingYet, UndoneForCause
<1>4. SourceIsChosen'
  BY <1>1 DEF IInv, Lasting, SourceIsChosen, OptionSource, InMasterMode
<1>5. PatternIsChosen' /\ IsPattern(pattern)
  BY <1>1 DEF IInv, PatternIsChosen, Patterns
<1>6. UsesLeft'
  <2>1. uses' \in Seq(Special)
    BY <1>5 DEF IsPattern
  <2> QED
    BY <1>1, <2>1 DEF UsesLeft
<1>7. OpenIs'
  BY <1>1 DEF IInv, OpenIs, Source, HeldFiles, Opening
<1> QED
  BY <1>1, <1>2, <1>3, <1>4, <1>5, <1>6, <1>7, HistoryKept DEF IInv, Lasting

LEMMA FirstOf ==
  ASSUME NEW S, NEW s \in Seq(S), s # <<>>
  PROVE  Head(s) = s[1] /\ 1 \in 1..Len(s) /\ Head(s) \in S
OBVIOUS

\* The special at hand and the list it names.
LEMMA UseIs ==
  ASSUME IInv, stage = "generating", uses # <<>>, Head(uses).name \in DOMAIN wordlists
  PROVE  LET use == Head(uses)
             list == wordlists[use.name]
             opened == Max(Opened(use.name))
         IN  /\ use.letter \in {"w", "m"}
             /\ \E j \in 1..Len(pattern.uses) : use = pattern.uses[j]
             /\ Opened(use.name) # {} /\ opened = list.handle
             /\ use.name # None
             /\ given[opened] = given[list.handle]
             /\ given[list.handle].file \in {"good", "illformed", "empty", "short", "unsized"}
             /\ LengthAt(opened) % 256 = list.level
<1> DEFINE use == Head(uses)
           list == wordlists[use.name]
           name == use.name
<1>1. /\ uses \in Seq(Special)
      /\ \A i \in 1..Len(uses) : \E j \in 1..Len(pattern.uses) : uses[i] = pattern.uses[j]
  BY DEF IInv, UsesLeft
<1>2. use = uses[1] /\ 1 \in 1..Len(uses) /\ use \in Special
  BY <1>1, FirstOf
<1>3. use.letter \in {"w", "m"} /\ \E j \in 1..Len(pattern.uses) : use = pattern.uses[j]
  BY <1>1, <1>2 DEF Special
<1>4. /\ list.handle # 0 /\ LastOf(OpeningFor(given, name), list.handle)
      /\ list.level = ContextsAt(given, list.handle) % 256
  BY DEF IInv, Lasting, ListsAreLast
<1>5. given \in Seq(Directives)
  BY DEF IInv, Types
<1>6. Len(given) \in Nat /\ OpeningFor(given, name) \in SUBSET (1..Len(given))
  BY <1>5, SetsInRange
<1>7. Opened(name) = OpeningFor(given, name)
  BY DEF Opened, ListsOpened, OpeningFor, Opening
<1> HIDE DEF use, list, name
<1>8. list.handle \in OpeningFor(given, name) /\ Max(OpeningFor(given, name)) = list.handle
  BY <1>4, <1>6, LastOfRange
<1>9. Opened(name) # {} /\ Max(Opened(name)) = list.handle
  BY <1>7, <1>8
<1>10. given[Max(Opened(name))] = given[list.handle]
  BY <1>9
<1>11. given[list.handle].file \in {"good", "illformed", "empty", "short", "unsized"} /\ name # None
  <2>1. /\ given[list.handle] \in Directives /\ given[list.handle].kind = "wordlist"
        /\ given[list.handle].file # "missing" /\ given[list.handle].name = name
    BY <1>5, <1>8 DEF OpeningFor, Opening
  <2> QED
    BY <2>1, DirectivesAssumption DEF Directives
<1>12. LengthAt(Max(Opened(name))) % 256 = list.level
  BY <1>4, <1>9 DEF LengthAt, ContextsAt, Lengths
<1> QED
  BY <1>3, <1>9, <1>10, <1>11, <1>12 DEF use, list, name

\* What a look at a list does to the lists.
LEMMA ListLooked ==
  ASSUME IInv, NEW name \in DOMAIN wordlists, NEW chain \in BOOLEAN,
         NEW parsed, parsed = Parsed(wordlists[name]),
         given' = given, wordlists' = [wordlists EXCEPT ![name] = [parsed EXCEPT !.chained = @ \/ chain]]
  PROVE  /\ wordlists' \in [DOMAIN wordlists' -> List] /\ ListsAreLast'
         /\ HeldFiles' = HeldFiles \union If(parsed.held, wordlists[name].handle)
         /\ parsed.held \in BOOLEAN
<1> DEFINE list == wordlists[name]
           chained == parsed.chained \/ chain
           looked == [parsed EXCEPT !.chained = chained]
<1>1. wordlists \in [DOMAIN wordlists -> List] /\ list \in List
  BY DEF IInv, Types
<1>2. /\ parsed \in List /\ parsed.parsed /\ parsed.handle = list.handle
      /\ parsed.level = list.level
      /\ list.held => parsed.held
  <2>1. list.held => list.parsed
    BY DEF IInv, Lasting, ListsAreLast
  <2> HIDE DEF list
  <2>2. CASE list.parsed
    <3>1. parsed = list
      BY <2>2 DEF Parsed, list
    <3> QED
      BY <1>1, <2>2, <3>1
  <2>3. CASE ~list.parsed
    <3>1. parsed = [list EXCEPT !.parsed = TRUE, !.held = Contents(list) \notin {"short", "unsized"}]
      BY <2>3 DEF Parsed, list
    <3> QED
      BY <1>1, <2>1, <2>3, <3>1 DEF List
  <2> QED
    BY <2>2, <2>3
<1>3. /\ looked \in List /\ looked.parsed /\ looked.handle = list.handle
      /\ looked.level = list.level /\ looked.held = parsed.held
  <2>1. parsed.chained \in BOOLEAN
    BY <1>2 DEF List
  <2>2. chained \in BOOLEAN
    BY <2>1
  <2> HIDE DEF chained, list
  <2> QED
    BY <1>2, <2>2 DEF List
<1>4. wordlists' = [wordlists EXCEPT ![name] = looked]
  OBVIOUS
<1> HIDE DEF looked
<1>5. /\ DOMAIN wordlists' = DOMAIN wordlists /\ wordlists'[name] = looked
      /\ \A m \in DOMAIN wordlists : m # name => wordlists'[m] = wordlists[m]
  BY <1>1, <1>4
<1>6. wordlists' \in [DOMAIN wordlists' -> List]
  BY <1>1, <1>3, <1>4
<1>7. ListsAreLast'
  <2>1. \A m \in DOMAIN wordlists' :
          /\ wordlists'[m].handle = wordlists[m].handle /\ wordlists'[m].level = wordlists[m].level
          /\ wordlists'[m].held => wordlists'[m].parsed
    BY <1>3, <1>5 DEF IInv, Lasting, ListsAreLast
  <2>2. /\ \A m \in DOMAIN wordlists : ListIs(given, m, wordlists[m])
        /\ \A i \in Opening(given) : given[i].name \in DOMAIN wordlists
    BY DEF IInv, Lasting, ListsAreLast, ListIs
  <2>3. \A m \in DOMAIN wordlists' : ListIs(given', m, wordlists'[m])
    BY <1>5, <2>1, <2>2 DEF ListIs
  <2> QED
    BY <1>5, <2>2, <2>3 DEF ListsAreLast, ListIs
<1>8. parsed.held \in BOOLEAN
  BY <1>2 DEF List
<1>9. HeldFiles' = HeldFiles \union If(parsed.held, list.handle)
  <2>1. HeldFiles' = {wordlists'[m].handle : m \in {o \in DOMAIN wordlists' : wordlists'[o].held}}
    BY DEF HeldFiles
  <2>2. /\ \A m \in DOMAIN wordlists : wordlists'[m].handle = wordlists[m].handle
        /\ wordlists'[name].held = parsed.held
        /\ \A m \in DOMAIN wordlists : m # name => wordlists'[m].held = wordlists[m].held
    BY <1>3, <1>5
  <2>3. list.held => parsed.held
    BY <1>2
  <2>4. CASE parsed.held
    BY <1>5, <2>1, <2>2, <2>4 DEF HeldFiles, If
  <2>5. CASE ~parsed.held
    BY <1>5, <2>1, <2>2, <2>3, <2>5 DEF HeldFiles, If
  <2> QED
    BY <2>4, <2>5
<1> QED
  BY <1>6, <1>7, <1>8, <1>9

\* A special is looked at: how it comes out is up to its list.
LEMMA LookKeeps ==
  ASSUME IInv, NEW chain \in BOOLEAN, NEW outcomes, Look(chain, outcomes),
         NEW outcome \in outcomes,
         stage' = IF outcome \in {"crashed", "astray"} THEN outcome ELSE stage,
         uses' \in {Tail(uses), uses, pattern.uses},
         outcome \in {"crashed", "astray"} => Undoes(Head(uses))
  PROVE  IInv'
<1>0. PICK use, list : use = Head(uses) /\ list = wordlists[use.name]
  OBVIOUS
<1>1. /\ stage = "generating" /\ Going /\ ~Early /\ ~Early' /\ uses # <<>>
      /\ use.name \in DOMAIN wordlists
      /\ UNCHANGED <<given, random, markovLength, preset, presets, pattern>>
  BY <1>0 DEF Look, Generating, Going, Early, settings
<1>2. PICK parsed : parsed = Parsed(list)
  OBVIOUS
<1>3. /\ wordlists' = [wordlists EXCEPT ![use.name] = [parsed EXCEPT !.chained = @ \/ chain]]
      /\ IF parsed.held /\ ~list.held THEN Close({list.handle}) ELSE UNCHANGED <<open, misused>>
  BY <1>0, <1>2 DEF Look
<1>4. /\ wordlists' \in [DOMAIN wordlists' -> List] /\ ListsAreLast'
      /\ HeldFiles' = HeldFiles \union If(parsed.held, list.handle)
      /\ parsed.held \in BOOLEAN
  BY <1>0, <1>1, <1>2, <1>3, ListLooked
<1>5. /\ list.handle \in Opening(given)
      /\ \A m, n \in DOMAIN wordlists : wordlists[m].handle = wordlists[n].handle => m = n
  BY <1>0, <1>1, HandlesApart DEF IInv, Lasting
<1>6. list.handle \in HeldFiles <=> list.held
  BY <1>0, <1>1, <1>5 DEF HeldFiles
<1>7. stage' \in {"generating", "crashed", "astray"}
  BY <1>1
<1>8. Types'
  BY <1>0, <1>1, <1>4, <1>7 DEF IInv, Types
<1>9. LengthIsLast' /\ PresetIsLast' /\ PresetsAreLast'
  BY <1>1 DEF IInv, Lasting, LengthIsLast, PresetIsLast, PresetsAreLast
<1>10. SourceIsLast' /\ NothingYet'
  BY <1>1 DEF SourceIsLast, NothingYet
<1>11. SourceIsChosen'
  BY <1>1 DEF IInv, Lasting, SourceIsChosen, OptionSource, InMasterMode
<1>12. PatternIsChosen' /\ IsPattern(pattern)
  <2>1. IsPattern(pattern)
    BY <1>1 DEF IInv, PatternIsChosen
  <2>2. PatternIsChosen'
    BY <1>1 DEF IInv, PatternIsChosen, Patterns
  <2> QED
    BY <2>1, <2>2
<1>13. UsesLeft'
  <2>1. /\ uses \in Seq(Special)
        /\ \A i \in 1..Len(uses) : \E j \in 1..Len(pattern.uses) : uses[i] = pattern.uses[j]
    BY <1>1 DEF IInv, UsesLeft
  <2>2. pattern.uses \in Seq(Special)
    BY <1>12 DEF IsPattern
  <2>3. uses' \in Seq(Special)
    <3>1. Tail(uses) \in Seq(Special)
      BY <1>1, <2>1
    <3> QED
      BY <2>1, <2>2, <3>1
  <2>4. \A i \in 1..Len(uses') : \E j \in 1..Len(pattern.uses) : uses'[i] = pattern.uses[j]
    <3>1. CASE uses' = Tail(uses)
      <4>1. \A i \in 1..Len(uses') : i + 1 \in 1..Len(uses) /\ uses'[i] = uses[i + 1]
        BY <1>0, <1>1, <2>1, <3>1
      <4> QED
        BY <2>1, <4>1
    <3>2. CASE uses' = uses
      BY <2>1, <3>2
    <3>3. CASE uses' = pattern.uses
      BY <3>3
    <3> QED
      BY <3>1, <3>2, <3>3
  <2> QED
    BY <1>0, <1>1, <2>3, <2>4 DEF UsesLeft
<1>14. OpenIs'
  <2>1. /\ open = Source \union (Opening(given) \ HeldFiles) /\ Source \intersect Opening(given) = {}
        /\ ~misused
    BY <1>1 DEF IInv, OpenIs
  <2>2. Source' = Source /\ Opening(given') = Opening(given)
    BY <1>1 DEF Source
  <2>3. CASE parsed.held /\ ~list.held
    <3>1. open' = open \ {list.handle} /\ misused' = (misused \/ ~({list.handle} \subseteq open))
      BY <1>3, <2>3 DEF Close
    <3>2. HeldFiles' = HeldFiles \union {list.handle}
      BY <1>4, <2>3 DEF If
    <3>3. list.handle \in open /\ list.handle \notin Source
      BY <1>5, <1>6, <2>1, <2>3
    <3>4. open' = Source \union (Opening(given) \ HeldFiles') /\ ~misused'
      BY <2>1, <3>1, <3>2, <3>3
    <3> QED
      BY <1>7, <2>1, <2>2, <3>4 DEF OpenIs
  <2>4. CASE ~(parsed.held /\ ~list.held)
    <3>1. open' = open /\ misused' = misused
      BY <1>3, <2>4
    <3>2. HeldFiles' = HeldFiles
      BY <1>4, <1>6, <2>4 DEF If
    <3> QED
      BY <1>7, <2>1, <2>2, <3>1, <3>2 DEF OpenIs
  <2> QED
    BY <2>3, <2>4
<1>15. UndoneForCause'
  <2>1. CASE stage' \in {"crashed", "astray"}
    <3>1. UndoneBy(given, use)
      BY <1>0, <1>1, <2>1, UndoesIs
    <3>2. PICK j \in 1..Len(pattern.uses) : use = pattern.uses[j]
      BY <1>0, <1>1, UseIs
    <3>3. pattern' = pattern /\ pattern # NoPattern /\ given' = given
      BY <1>1, <1>12 DEF IsPattern
    <3>4. Causes(config', given', pattern', stage')
      BY <3>1, <3>2, <3>3 DEF Causes
    <3> QED
      BY <3>4, CauseIsNext
  <2>2. CASE stage' \notin {"crashed", "astray"}
    BY <1>7, <2>2 DEF UndoneForCause
  <2> QED
    BY <2>1, <2>2
<1> QED
  BY <1>4, <1>8, <1>9, <1>10, <1>11, <1>12, <1>13, <1>14, <1>15 DEF IInv, Lasting

\* What the special at hand finds in its list undoes the program.
LEMMA UndoesHere ==
  ASSUME IInv, stage = "generating", uses # <<>>, Head(uses).name \in DOMAIN wordlists
  PROVE  /\ NextFile.file \in {"good", "illformed", "empty", "short", "unsized"}
         /\ NextFile.file \in {"short", "unsized", "empty"} => Undoes(Head(uses))
         /\ Head(uses).letter = "m" /\ NextFile.file = "illformed" => Undoes(Head(uses))
         /\ Head(uses).letter = "m" /\ NextFile.file = "good"
              /\ (NextFile.letters > MaxLink
                  \/ NextList.level + NextFile.reach[NextList.level] > MaxWord)
              => Undoes(Head(uses))
<1>1. PICK use, file, level, opened :
        /\ use = Head(uses) /\ file = NextFile /\ level = NextList.level
        /\ opened = Max(Opened(use.name))
  OBVIOUS
<1>2. /\ use.name # None /\ Opened(use.name) # {}
      /\ given[opened] = file /\ LengthAt(opened) % 256 = level
      /\ file.file \in {"good", "illformed", "empty", "short", "unsized"}
  BY <1>1, UseIs DEF NextFile, NextList, NextUse
<1>3. Undoes(use) <=>
        \/ file.file \in {"short", "unsized", "empty"}
        \/ /\ use.letter = "m"
           /\ \/ file.file = "illformed"
              \/ file.file = "good" /\ (file.letters > MaxLink \/ level + file.reach[level] > MaxWord)
  BY <1>1, <1>2 DEF Undoes
<1> QED
  BY <1>1, <1>2, <1>3

Fatal == {"crashed", "astray"}

\* The files that could not be read, and what comes of them.
LEMMA UnreadableIs ==
  ASSUME NEW c \in {"short", "unsized"}
  PROVE  Unreadable[c] \subseteq Fatal
BY DEF Unreadable, Fatal

WordOutcomes(file) ==
  CASE file.file = "good" -> {"next"} \union (IF file.letters > MaxWord THEN {"fail"} ELSE {})
    [] file.file = "illformed" -> {"next", "fail"}
    [] file.file = "empty" -> {"crashed"}
    [] OTHER -> Unreadable[file.file]

LEMMA UseWordKeeps ==
  ASSUME IInv, UseWord
  PROVE  IInv'
<1>1. /\ stage = "generating" /\ uses # <<>> /\ Head(uses).name \in DOMAIN wordlists
      /\ Head(uses).letter = "w" /\ Look(FALSE, WordOutcomes(NextFile))
  BY DEF UseWord, Generating, NextUse, WordOutcomes
<1>2. PICK file, outcomes : file = NextFile /\ outcomes = WordOutcomes(file)
  OBVIOUS
<1>3. file.file \in {"short", "unsized", "empty"} => Undoes(Head(uses))
  BY <1>1, <1>2, UndoesHere
<1>4. Look(FALSE, outcomes)
  BY <1>1, <1>2
<1>5. PICK outcome \in outcomes :
        /\ stage' = IF outcome \in {"crashed", "astray"} THEN outcome ELSE stage
        /\ uses' = IF outcome = "next" THEN Tail(uses)
                   ELSE IF outcome = "fail" THEN pattern.uses ELSE uses
  BY <1>4 DEF Look
<1>6. file.file \in {"good", "illformed", "empty", "short", "unsized"}
  BY <1>1, <1>2, UndoesHere
<1>7. outcome \in {"crashed", "astray"} => file.file \in {"short", "unsized", "empty"}
  BY <1>2, <1>5, <1>6 DEF WordOutcomes
<1> QED
  BY <1>1, <1>3, <1>4, <1>5, <1>7, LookKeeps

ChainOutcomes(file, level) ==
  CASE file.file = "good" ->
         IF file.letters > MaxLink THEN {"crashed"} ELSE Walked(level, file.reach)
    [] file.file \in {"illformed", "empty"} -> {"crashed"}
    [] OTHER -> Unreadable[file.file]

LEMMA UseChainKeeps ==
  ASSUME IInv, UseChain
  PROVE  IInv'
<1>1. /\ stage = "generating" /\ uses # <<>> /\ Head(uses).name \in DOMAIN wordlists
      /\ Head(uses).letter = "m" /\ Look(TRUE, ChainOutcomes(NextFile, NextList.level))
  BY DEF UseChain, Generating, NextUse, ChainOutcomes
<1>2. PICK file, level, outcomes :
        file = NextFile /\ level = NextList.level /\ outcomes = ChainOutcomes(file, level)
  OBVIOUS
<1>3. /\ file.file \in {"short", "unsized", "empty", "illformed"} => Undoes(Head(uses))
      /\ file.file = "good" /\ (file.letters > MaxLink \/ level + file.reach[level] > MaxWord)
           => Undoes(Head(uses))
  BY <1>1, <1>2, UndoesHere
<1>4. Look(TRUE, outcomes)
  BY <1>1, <1>2
<1>5. PICK outcome \in outcomes :
        /\ stage' = IF outcome \in {"crashed", "astray"} THEN outcome ELSE stage
        /\ uses' = IF outcome = "next" THEN Tail(uses)
                   ELSE IF outcome = "fail" THEN pattern.uses ELSE uses
  BY <1>4 DEF Look
<1>6. file.file \in {"good", "illformed", "empty", "short", "unsized"}
  BY <1>1, <1>2, UndoesHere
<1>7. file.file = "good" /\ outcome \in {"crashed", "astray"}
        => file.letters > MaxLink \/ level + file.reach[level] > MaxWord
  <2>1. file.file = "good" => outcomes = IF file.letters > MaxLink THEN {"crashed"}
                                         ELSE Walked(level, file.reach)
    BY <1>2 DEF ChainOutcomes
  <2>2. "astray" \in Walked(level, file.reach) => level + file.reach[level] > MaxWord
    BY DEF Walked
  <2>3. "crashed" \notin Walked(level, file.reach)
    BY DEF Walked
  <2> QED
    BY <1>5, <2>1, <2>2, <2>3
<1>8. outcome \in {"crashed", "astray"} => Undoes(Head(uses))
  BY <1>3, <1>6, <1>7
<1> QED
  BY <1>1, <1>4, <1>5, <1>8, LookKeeps

\* A special without a name finds lists.
LEMMA UseNamelessKeeps ==
  ASSUME IInv, UseNameless
  PROVE  IInv'
<1>1. /\ stage = "generating" /\ Going /\ ~Early /\ uses # <<>> /\ Head(uses).name = None
      /\ DOMAIN wordlists # {} /\ stage' = "astray"
      /\ UNCHANGED <<config, given, markovLength, preset, presets, wordlists, pattern, misused>>
  BY DEF UseNameless, Generating, NextUse, Going, Early, EndsAs, settings
<1>2. Opening(given) # {}
  BY <1>1, HandlesApart DEF IInv, Lasting
<1>3. /\ uses \in Seq(Special)
      /\ \A i \in 1..Len(uses) : \E j \in 1..Len(pattern.uses) : uses[i] = pattern.uses[j]
  BY <1>1 DEF IInv, UsesLeft
<1>4. PICK j \in 1..Len(pattern.uses) : Head(uses) = pattern.uses[j]
  BY <1>1, <1>3, FirstOf
<1>5. UndoneBy(given, pattern.uses[j])
  BY <1>1, <1>2, <1>4 DEF UndoneBy
<1>6. pattern # NoPattern
  BY <1>1 DEF IInv, PatternIsChosen, IsPattern
<1>7. Causes(config', given', pattern', stage')
  BY <1>1, <1>5, <1>6 DEF Causes
<1>8. UndoneForCause' /\ ~misused'
  <2>1. ~misused
    BY DEF IInv, OpenIs
  <2> QED
    BY <1>1, <1>7, <2>1, CauseIsNext
<1> QED
  BY <1>1, <1>8, Stops

\* A configuration file that cannot be loaded.
LEMMA LoadingKeeps ==
  ASSUME IInv, PastEndOfFile \/ FullFile \/ LongPath
  PROVE  IInv'
<1>1. /\ stage \in {"system", "user"} /\ Early /\ stage' \in {"astray", "overread"}
      /\ UNCHANGED <<config, given, markovLength, preset, presets, wordlists, pattern, misused>>
  BY DEF PastEndOfFile, FullFile, LongPath, Loading, Loaded, EndsAs, settings, Early
<1>2. UndoneLoading(config)
  <2>1. CASE PastEndOfFile
    <3>1. config[stage].bytes \in 1..(MaxConfig - 1) /\ ~config[stage].newline
      BY <2>1 DEF PastEndOfFile, Loaded
    <3>2. config[stage].bytes > 0
      <4>1. PICK bytes, last : bytes = config[stage].bytes /\ last = MaxConfig - 1
        OBVIOUS
      <4>2. last \in Int
        BY <4>1, SMT DEF MaxConfig
      <4>3. bytes > 0
        BY <3>1, <4>1, <4>2
      <4> QED
        BY <4>1, <4>3
    <3>3. config[stage] \in {config.system, config.user}
      BY <1>1
    <3> QED
      BY <3>1, <3>2, <3>3 DEF UndoneLoading
  <2>2. CASE FullFile
    <3>1. config[stage].bytes >= MaxConfig
      BY <2>2 DEF FullFile
    <3>2. config[stage] \in {config.system, config.user}
      BY <1>1
    <3> QED
      BY <3>1, <3>2 DEF UndoneLoading
  <2>3. CASE LongPath
    BY <2>3 DEF LongPath, UndoneLoading
  <2> QED
    BY <2>1, <2>2, <2>3
<1>3. pattern = NoPattern /\ ~misused
  BY <1>1 DEF IInv, NothingYet, OpenIs
<1>4. Causes(config', given', pattern', stage')
  BY <1>1, <1>2, <1>3 DEF Causes
<1>5. UndoneForCause' /\ ~misused'
  BY <1>1, <1>3, <1>4, CauseIsNext
<1> QED
  BY <1>1, <1>5, Stops

-----------------------------------------------------------------------------
LEMMA InitIInv ==
  ASSUME Init
  PROVE  IInv
<1>1. Len(given) = 0 /\ given = <<>> /\ given \in Seq(Directives) /\ wordlists = <<>>
      /\ DOMAIN wordlists = {}
  BY DEF Init
<1>2. /\ \A kind : OfKind(given, kind) = {}
      /\ \A name : Defining(given, name) = {}
      /\ Opening(given) = {}
      /\ Lengths(given, 0) = {}
  BY <1>1 DEF OfKind, Defining, Opening, Lengths
<1>3. Early /\ ~Going /\ stage = "system"
  BY DEF Init, Early, Going
<1>4. Types
  BY <1>1, <1>3 DEF Init, Types
<1>5. LengthIsLast
  BY <1>1, <1>2 DEF Init, LengthIsLast, ContextsAt
<1>6. PresetIsLast
  BY <1>2 DEF Init, PresetIsLast, LastOf
<1>7. PresetsAreLast
  BY <1>2 DEF Init, PresetsAreLast, LastOf
<1>8. ListsAreLast
  BY <1>1, <1>2 DEF ListsAreLast
<1>9. SourceIsLast /\ SourceIsChosen
  BY <1>2, <1>3 DEF Init, SourceIsLast, SourceIsChosen, LastOf, OptionSource
<1>10. NothingYet /\ HeldFiles = {}
  BY <1>1 DEF Init, NothingYet, HeldFiles
<1>11. OpenIs
  BY <1>2, <1>3, <1>10 DEF Init, OpenIs, Source
<1>12. PatternIsChosen /\ UsesLeft /\ UndoneForCause
  BY <1>3 DEF PatternIsChosen, UsesLeft, UndoneForCause
<1> QED
  BY <1>4, <1>5, <1>6, <1>7, <1>8, <1>9, <1>10, <1>11, <1>12 DEF IInv, Lasting

LEMMA StutterKeeps ==
  ASSUME IInv, UNCHANGED vars
  PROVE  IInv'
<1>1. UNCHANGED <<config, stage, given, read, random, wordlists, presets, markovLength, amount,
                  preset, pattern, open, misused, uses, passwords, status>>
  BY DEF vars, settings, work
<1>2. Early' = Early /\ Going' = Going /\ HeldFiles' = HeldFiles /\ Source' = Source
      /\ InMasterMode' = InMasterMode /\ Patterns' = Patterns /\ Shadowed' = Shadowed
  BY <1>1 DEF Early, Going, HeldFiles, Source, InMasterMode, Patterns, Shadowed, ListsOpened
<1>3. Types' /\ NothingYet' /\ UsesLeft' /\ OpenIs'
  BY <1>1, <1>2 DEF IInv, Types, NothingYet, UsesLeft, OpenIs
<1>4. SourceIsLast' /\ SourceIsChosen'
  BY <1>1, <1>2 DEF IInv, Lasting, SourceIsLast, SourceIsChosen
<1>5. PatternIsChosen'
  BY <1>1, <1>2 DEF IInv, PatternIsChosen
<1>6. UndoneForCause'
  <2>1. stage \in Undone => Causes(config, given, pattern, stage)
    BY CauseIs DEF IInv
  <2> QED
    BY <1>1, <2>1, CauseIsNext
<1> QED
  BY <1>1, <1>3, <1>4, <1>5, <1>6, HistoryKept DEF IInv, Lasting

LEMMA NextKeeps ==
  ASSUME IInv, [Next]_vars
  PROVE  IInv'
<1>1. ASSUME NEW d \in Lines, Line(d) PROVE IInv'
  <2>1. d \in Directives /\ Early /\ Give(d) /\ given' = Append(given, d)
        /\ UNCHANGED <<passwords, uses>>
    BY <1>1 DEF Line, Loaded, Loading, Directives, Early, work
  <2> QED
    BY <2>1, GiveKeeps
<1>2. CASE EndOfFile
  BY <1>2, EndOfFileKeeps
<1>3. CASE PastEndOfFile \/ FullFile \/ LongPath
  BY <1>3, LoadingKeeps
<1>4. ASSUME NEW d \in Options, GiveOption(d) PROVE IInv'
  <2>1. d \in Directives /\ Early /\ Give(d) /\ given' = Append(given, d)
        /\ UNCHANGED <<passwords, uses>>
    BY <1>4 DEF GiveOption, Opt, Directives, Early, work
  <2> QED
    BY <2>1, GiveKeeps
<1>5. ASSUME NEW d \in Options, FailOption(d) PROVE IInv'
  BY <1>5, FailOptionKeeps
<1>6. ASSUME NEW d \in Options, Set(d) PROVE IInv'
  BY <1>6, SetKeeps DEF Directives
<1>7. ASSUME NEW d \in Options, Refuse(d) PROVE IInv'
  <2>1. Quit(IllegalAmount) \/ Quit(IllegalMarkovLength) \/ Quit(Unrecognized)
    BY <1>7 DEF Refuse
  <2>2. Early
    BY <1>7 DEF Refuse, Early
  <2> QED
    BY <2>1, <2>2, Quits
<1>8. ASSUME NEW d \in Options, Inform(d) PROVE IInv'
  <2>1. Quit(0) \/ FreeAndExit
    BY <1>8 DEF Inform
  <2>2. Early
    BY <1>8 DEF Inform, Early
  <2> QED
    BY <2>1, <2>2, Quits, FreesAndExits
<1>9. CASE EndOfOptions
  BY <1>9, EndOfOptionsKeeps
<1>10. CASE ParseFails
  <2>1. Quit(PatternParse)
    BY <1>10 DEF ParseFails
  <2> QED
    BY <2>1, Quits DEF PatternParse
<1>11. CASE Parses
  BY <1>11, ParsesKeeps
<1>12. CASE UseWord
  BY <1>12, UseWordKeeps
<1>13. CASE UseChain
  BY <1>13, UseChainKeeps
<1>18. CASE UseNameless
  BY <1>18, UseNamelessKeeps
<1>14. CASE UseUnknown
  BY <1>14, PrintsKeeps DEF UseUnknown, Generating
<1>15. CASE PrintPassword
  BY <1>15, PrintsKeeps DEF PrintPassword, Generating
<1>16. CASE Finish
  BY <1>16, FreesAndExits DEF Finish, Going
<1>17. CASE UNCHANGED vars
  BY <1>17, StutterKeeps
<1> QED
  BY <1>1, <1>2, <1>3, <1>4, <1>5, <1>6, <1>7, <1>8, <1>9, <1>10, <1>11, <1>12, <1>13, <1>14,
     <1>15, <1>16, <1>17, <1>18 DEF Next

LEMMA Always == Spec => []IInv
<1>1. Init => IInv
  BY InitIInv
<1>2. IInv /\ [Next]_vars => IInv'
  BY NextKeeps
<1> QED
  BY <1>1, <1>2, PTL DEF Spec

-----------------------------------------------------------------------------
LEMMA DanglesNot ==
  ASSUME IInv
  PROVE  NothingDangles
<1>1. ~misused
  BY DEF IInv, OpenIs
<1>2. ~Ended => open = Source \union Unread \union Shadowed
  <2>1. ~Ended => Early \/ Going
    BY DEF IInv, Types, Ended, Early, Going
  <2>2. Opening(given) \ HeldFiles = Unread \union Shadowed
    BY WhatIsOpen DEF IInv, Lasting
  <2> QED
    BY <2>1, <2>2 DEF IInv, OpenIs
<1>3. stage = "exited" /\ status = 0 /\ passwords # <<>> => open = Shadowed
  BY DEF IInv, OpenIs
<1> QED
  BY <1>1, <1>2, <1>3 DEF NothingDangles

LastIn(S) == IF S = {} THEN 0 ELSE Max(S)

LEMMA LastInIs ==
  ASSUME NEW n \in Nat, NEW S \in SUBSET (1..n), NEW k, LastOf(S, k)
  PROVE  LastIn(S) = k /\ k \in 0..n /\ (k # 0 => k \in S) /\ (k = 0 <=> S = {})
BY LastOfRange DEF LastIn

\* What a run takes for its source is the last one that was asked for.
LEMMA SourceWins ==
  ASSUME IInv, Going
  PROVE  LET source == LastIn(OfKind(given, "random")) IN
         IF source # 0 /\ OpenParse(given[source]) = "opened"
           THEN random = [kind |-> "option", handle |-> source]
           ELSE random.kind = IF InMasterMode THEN "master" ELSE "system"
<1>1. Len(given) \in Nat /\ OfKind(given, "random") \in SUBSET (1..Len(given))
  BY SetsInRange DEF IInv, Types
<1>2. PICK k : /\ LastOf(OfKind(given, "random"), k)
               /\ IF OptionSource(given, k) # NoSource THEN random = OptionSource(given, k)
                  ELSE random = [kind |-> IF InMasterMode THEN "master" ELSE "system",
                                 handle |-> Len(given) + 1]
  BY DEF IInv, Lasting, SourceIsChosen
<1>3. LastIn(OfKind(given, "random")) = k
  BY <1>1, <1>2, LastInIs
<1>4. CASE k # 0 /\ OpenParse(given[k]) = "opened"
  <2>1. OptionSource(given, k) = [kind |-> "option", handle |-> k]
    BY <1>4 DEF OptionSource
  <2>2. [kind |-> "option", handle |-> k] # NoSource
    BY DEF NoSource, None
  <2> QED
    BY <1>2, <1>3, <1>4, <2>1, <2>2
<1>5. CASE ~(k # 0 /\ OpenParse(given[k]) = "opened")
  <2>1. OptionSource(given, k) = NoSource
    BY <1>5 DEF OptionSource
  <2>2. random.kind = IF InMasterMode THEN "master" ELSE "system"
    BY <1>2, <2>1
  <2> QED
    BY <1>3, <1>5, <2>2
<1> QED
  BY <1>4, <1>5

\* The pattern is the one given, or the last that the preset of the last -p was defined by.
LEMMA PatternWins ==
  ASSUME IInv, Going
  PROVE  LET used == LastIn(OfKind(given, "use"))
             plain == LastIn(OfKind(given, "pattern"))
             defined == LastIn(Defining(given, given[used].name))
         IN  pattern = IF used = 0 THEN given[plain].value
                       ELSE IF defined = 0 THEN Defaults[given[used].name]
                       ELSE given[defined].value
<1>1. Len(given) \in Nat /\ given \in Seq(Directives)
      /\ \A kind : OfKind(given, kind) \in SUBSET (1..Len(given))
      /\ \A name : Defining(given, name) \in SUBSET (1..Len(given))
  BY SetsInRange DEF IInv, Types
<1>2. PICK used : /\ LastOf(OfKind(given, "use"), used)
                  /\ preset = IF used = 0 THEN None ELSE given[used].name
  BY DEF IInv, Lasting, PresetIsLast
<1>3. LastIn(OfKind(given, "use")) = used /\ (used # 0 => used \in OfKind(given, "use"))
  BY <1>1, <1>2, LastInIs
<1>4. /\ preset # None => preset \in DOMAIN presets
      /\ IF preset = None THEN \E i : Patterns = {i} /\ pattern = given[i].value
                          ELSE pattern = presets[preset]
  BY DEF IInv, PatternIsChosen
<1>5. CASE used = 0
  <2>1. PICK i : Patterns = {i} /\ pattern = given[i].value
    BY <1>2, <1>4, <1>5
  <2>2. OfKind(given, "pattern") = {i}
    BY <2>1 DEF Patterns, OfKind
  <2>3. i \in 1..Len(given)
    BY <1>1, <2>2
  <2>4. LastOf(OfKind(given, "pattern"), i)
    BY <1>1, <2>2, <2>3 DEF LastOf
  <2>5. LastIn(OfKind(given, "pattern")) = i
    BY <1>1, <2>4, LastInIs
  <2> QED
    BY <1>3, <1>5, <2>1, <2>5
<1>6. CASE used # 0
  <2>1. used \in 1..Len(given) /\ given[used].kind = "use" /\ given[used] \in Directives
    BY <1>1, <1>3, <1>6 DEF OfKind
  <2>2. preset = given[used].name /\ preset # None
    BY <1>2, <1>6, <2>1, DirectivesAssumption DEF Directives
  <2>3. PICK k : PresetIs(given, presets, preset, k)
    BY DEF IInv, Lasting, PresetsAreLast, PresetIs
  <2>4. LastIn(Defining(given, preset)) = k
    BY <1>1, <2>3, LastInIs DEF PresetIs
  <2>5. pattern = IF k = 0 THEN Defaults[preset] ELSE given[k].value
    BY <1>4, <2>2, <2>3 DEF PresetIs
  <2> QED
    BY <1>3, <1>6, <2>2, <2>4, <2>5
<1> QED
  BY <1>5, <1>6

\* Lists are those named last, and no name is lost.
LEMMA ListsWin ==
  ASSUME IInv
  PROVE  /\ \A name \in DOMAIN wordlists :
              /\ wordlists[name].handle = Max(OpeningFor(given, name))
              /\ wordlists[name].level = ContextsAt(given, Max(OpeningFor(given, name))) % 256
         /\ DOMAIN wordlists = {given[i].name : i \in Opening(given)}
<1>1. Len(given) \in Nat /\ \A name : OpeningFor(given, name) \in SUBSET (1..Len(given))
  BY SetsInRange DEF IInv, Types
<1>2. ListsAreLast /\ Types
  BY DEF IInv, Lasting
<1>3. ASSUME NEW name \in DOMAIN wordlists
      PROVE  /\ wordlists[name].handle = Max(OpeningFor(given, name))
             /\ wordlists[name].level = ContextsAt(given, Max(OpeningFor(given, name))) % 256
  <2>1. PICK h : h = wordlists[name].handle
    OBVIOUS
  <2>2. h # 0 /\ LastOf(OpeningFor(given, name), h)
        /\ wordlists[name].level = ContextsAt(given, h) % 256
    BY <1>2, <2>1 DEF ListsAreLast
  <2>3. Max(OpeningFor(given, name)) = h
    BY <1>1, <2>2, LastOfRange
  <2> QED
    BY <2>1, <2>2, <2>3
<1>4. \A name \in DOMAIN wordlists : \E i \in Opening(given) : given[i].name = name
  BY <1>2, HandlesApart
<1>5. \A i \in Opening(given) : given[i].name \in DOMAIN wordlists
  BY <1>2 DEF ListsAreLast
<1> QED
  BY <1>3, <1>4, <1>5

LEMMA WinsLast ==
  ASSUME IInv
  PROVE  LastWins
<1> SUFFICES ASSUME Going PROVE LastWins
  BY DEF LastWins, Going
<1> DEFINE source == LastIn(OfKind(given, "random"))
           used == LastIn(OfKind(given, "use"))
           plain == LastIn(OfKind(given, "pattern"))
           defined == LastIn(Defining(given, given[used].name))
<1>1. IF source # 0 /\ OpenParse(given[source]) = "opened"
        THEN random = [kind |-> "option", handle |-> source]
        ELSE random.kind = IF InMasterMode THEN "master" ELSE "system"
  BY SourceWins
<1>2. pattern = IF used = 0 THEN given[plain].value
                ELSE IF defined = 0 THEN Defaults[given[used].name] ELSE given[defined].value
  BY PatternWins
<1>3. /\ \A name \in DOMAIN wordlists :
           /\ wordlists[name].handle = Max(Opened(name))
           /\ wordlists[name].level = LengthAt(Max(Opened(name))) % 256
      /\ DOMAIN wordlists = {given[i].name : i \in ListsOpened}
  BY ListsWin DEF Opened, ListsOpened, OpeningFor, Opening, LengthAt, ContextsAt, Lengths
<1> QED
  BY <1>1, <1>2, <1>3 DEF LastWins, LastGiven, LastIn, OfKind, Defining

-----------------------------------------------------------------------------
\* Whatever lines and options are given, in whatever order, while the program runs just
\* its source, the files it has not read and those of lists whose names were taken are
\* open; nothing is closed that was not; and a finished run leaves only the latter
\* (main, passgen_cli_opts_random, passgen_cli_opts_wordlist, passgen_wordlist_parse).
THEOREM NothingStaysOpen == Spec => []NothingDangles
<1>1. IInv => NothingDangles
  BY DanglesNot
<1> QED
  BY <1>1, Always, PTL

\* When generation starts, what counts is what was said last: of sources, of presets and
\* their definitions, and of lists with the lengths set before them (main,
\* passgen_cli_opts_config_parse, passgen_env_wordlist_add).
THEOREM LastSaidWins == Spec => []LastWins
<1>1. IInv => LastWins
  BY WinsLast
<1> QED
  BY <1>1, Always, PTL

\* Whatever the configuration files, options and lists are: apart from what a pattern does by
\* itself, an assertion fails, or memory is overwritten or read behind its end, only on
\* account of a configuration file, a source, a length of contexts or the use of a list for
\* which the code has no check (passgen_cli_opts_config_load, passgen_random_open_parse,
\* passgen_random_reload, passgen_markov_init, passgen_wordlist_parse,
\* passgen_generate_special_wordlist, passgen_generate_special_markov).
THEOREM UndoneForACause == Spec => []UndoneForCause
<1>1. IInv => UndoneForCause
  BY DEF IInv
<1> QED
  BY <1>1, Always, PTL
=============================================================================
