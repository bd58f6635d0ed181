------------------------------- MODULE Markov -------------------------------
(***************************************************************************)
(* src/markov.c: a Markov chain as a tree of hash tables, nodes of which   *)
(* each codepoint of a context selects the next one and leaves with the    *)
(* counts of what follows.  A table has no chains and no tombstones: when  *)
(* two of its codepoints want the same slot it is moved to a table of the  *)
(* next size.  Tables are found by an address; one that is moved keeps it, *)
(* as its parent is told the new one at once.  Words are made from the     *)
(* chain as passgen_generate_special_markov of src/generate.c does.        *)
(***************************************************************************)
EXTENDS Integers, Sequences, Bounded

CONSTANTS
  Levels,       \* lengths of contexts
  Words,        \* words that may be added
  Weights,      \* how often one is added at once
  MaxAdds,      \* bound: how many times a word is added
  CountMax,     \* a count is a uint32_t: it holds 0..CountMax-1
  MaxWord       \* codepoints in the word of passgen_generate_special_markov
\* What passgen_utf8_decode makes the codepoints of words.
LastCodepoint == 1114111
Codepoints == 0..LastCodepoint

ASSUME LevelsAssumption ==
  Levels \subseteq 1..255 /\ MaxWord \in Nat /\ \A l \in Levels : l < MaxWord
ASSUME AddsAssumption == MaxAdds \in Nat
ASSUME WordsAssumption == Words \subseteq Seq(Codepoints) /\ Weights \subseteq Nat
\* passgen_random_u64_max draws below any total that fits a count.
ASSUME CountAssumption == CountMax \in Nat \ {0} /\ CountMax <= MaxBound + 1

VARIABLES
  level, count,   \* markov->level and markov->count
  tables,         \* the nodes and leaves by their addresses
  status,         \* "adding", "making", "made", "lost", "overrun" or "freed"
  word,           \* the word being made, from the start of its buffer
  entropy,        \* *entropy, as a fraction
  adds            \* how many words were added

vars == <<level, count, tables, status, word, entropy, adds>>

-----------------------------------------------------------------------------
\* markov_sizes: primes, each more than twice the one before.
Sizes == <<3, 7, 17, 37, 79, 163, 331, 673, 1361, 2729, 5471, 10949, 21911, 43853, 87719,
           175447, 350899, 701819, 1403641, 2807303, 5614657, 11229331, 22458671, 44917381>>

Root == 1

\* An empty table: the slots in use, and what they hold.
NewTable(kind, size) == [kind |-> kind, size |-> size, slots |-> <<>>, total |-> 0]

Capacity(table) == Sizes[table.size]

Slot(table, codepoint) == codepoint % Capacity(table)

InUse(table) == DOMAIN table.slots

\* The value is the address of a child, or a count.
Entry(codepoint, value) == [codepoint |-> codepoint, value |-> value]

Taken(table, codepoint) ==
  /\ Slot(table, codepoint) \in InUse(table)
  /\ table.slots[Slot(table, codepoint)].codepoint # codepoint

\* What the slot of a codepoint holds: zero is NULL, or no count.
Value(table, codepoint) ==
  IF Slot(table, codepoint) \in InUse(table) THEN table.slots[Slot(table, codepoint)].value ELSE 0

\* The slot gets the codepoint, and the child of it.
PutChild(table, entry) ==
  LET slot == Slot(table, entry.codepoint) IN
  [table EXCEPT !.slots = [s \in InUse(table) \union {slot} |->
                             IF s = slot THEN entry ELSE table.slots[s]]]

\* The slot gets the codepoint, and the weight is added; a count of zero is no entry.
PutCount(table, entry) ==
  LET slot == Slot(table, entry.codepoint)
      sum == (Value(table, entry.codepoint) + entry.value) % CountMax
  IN  [table EXCEPT
         !.total = @ + entry.value,
         !.slots = [s \in (InUse(table) \ {slot}) \union (IF sum = 0 THEN {} ELSE {slot}) |->
                      IF s = slot THEN Entry(entry.codepoint, sum) ELSE table.slots[s]]]

Put(table, entry) ==
  IF table.kind = "leaf" THEN PutCount(table, entry) ELSE PutChild(table, entry)

\* All slots in their order; one that is not in use has the value zero.
Entries(table) ==
  [i \in 1..Capacity(table) |->
     IF i - 1 \in InUse(table) THEN table.slots[i - 1] ELSE Entry(0, 0)]

AnyEntry == [codepoint : Codepoints, value : Nat]

\* passgen_markov_leaf_insert and passgen_markov_node_insert: when the slot is taken by
\* another codepoint, a table of the next size is filled from all slots in turn, and the
\* entry comes after them.
InsertedBy(filled, table, entry) ==
  IF entry.value = 0 THEN table
  ELSE IF Taken(table, entry.codepoint)
    THEN filled[table.size + 1][Append(Entries(table), entry)]
    ELSE Put(table, entry)

\* passgen_markov_leaf_realloc and passgen_markov_node_realloc, for a new table of each
\* size: what is filled in may move it on to a larger one.
Filled(kind) ==
  LET filled[size \in 1..Len(Sizes)] ==
        [entries \in Seq(AnyEntry) |->
           LET fill[n \in 0..Len(entries)] ==
                 IF n = 0 THEN NewTable(kind, size)
                 ELSE InsertedBy(filled, fill[n-1], entries[n])
           IN  fill[Len(entries)]]
  IN  filled

\* Mutant: the slot is taken over.
InsertedOver(table, entry) == Put(table, entry)

Inserted(table, entry) == InsertedBy(Filled(table.kind), table, entry)

-----------------------------------------------------------------------------
With(memory, address, table) ==
  [a \in DOMAIN memory \union {address} |-> IF a = address THEN table ELSE memory[a]]

\* The child of a table for a codepoint, or where a new one will be.
ChildOf(memory, address, codepoint) ==
  LET table == memory[address] IN
  IF Taken(table, codepoint) \/ Value(table, codepoint) = 0
    THEN Cardinality(DOMAIN memory) + 1
    ELSE Value(table, codepoint)

\* passgen_markov_node_insert_word: one node down, to a child that is there or made ...
Down(memory, at, codepoint, kind) ==
  LET child == ChildOf(memory, at, codepoint)
      parent == With(memory, at, Inserted(memory[at], Entry(codepoint, child)))
  IN  [memory |-> IF child \in DOMAIN memory THEN parent
                  ELSE With(parent, child, NewTable(kind, 1)),
       at |-> child]

\* ... through all levels, then into the leaf.
WordInserted(memory, sequence, weight) ==
  LET down[k \in 0..level] ==
        IF k = 0 THEN [memory |-> memory, at |-> Root]
        ELSE Down(down[k-1].memory, down[k-1].at, sequence[k],
                  IF k = level THEN "leaf" ELSE "node")
      leaf == down[level].at
      full == down[level].memory
  IN  With(full, leaf, Inserted(full[leaf], Entry(sequence[level + 1], weight)))

Zeros(n) == [i \in 1..n |-> 0]

Least(a, b) == IF a < b THEN a ELSE b

\* SATURATING_SUB
Less(a, b) == a - Least(a, b)

\* Mutant: one window fewer that lies within the word.
WindowsShort(w) ==
  LET some == Least(level, Len(w))
      start == Zeros(level) \o SubSeq(w, 1, some)
      end == Zeros(Less(level, Len(w))) \o SubSeq(w, Less(Len(w), level) + 1, Len(w)) \o <<0>>
  IN  [i \in 1..some |-> SubSeq(start, i, i + level)]
      \o [i \in 1..Less(Less(Len(w), level), 1) |-> SubSeq(w, i, i + level)]
      \o <<end>>

\* passgen_markov_add: the windows over a word that begin before it, those that lie
\* within it, and the one that ends it.
Windows(w) ==
  LET some == Least(level, Len(w))
      start == Zeros(level) \o SubSeq(w, 1, some)
      end == Zeros(Less(level, Len(w))) \o SubSeq(w, Less(Len(w), level) + 1, Len(w)) \o <<0>>
  IN  [i \in 1..some |-> SubSeq(start, i, i + level)]
      \o [i \in 1..Less(Len(w), level) |-> SubSeq(w, i, i + level)]
      \o <<end>>

-----------------------------------------------------------------------------
Init ==
  /\ level \in Levels /\ count = 0
  /\ tables = [a \in {Root} |-> NewTable("node", 1)]
  /\ status = "adding"
  /\ word = <<>> /\ entropy = <<1, 1>>
  /\ adds = 0

\* All windows, one after the other.
AllInserted(w, weight) ==
  LET after[i \in 0..Len(Windows(w))] ==
        IF i = 0 THEN tables ELSE WordInserted(after[i-1], Windows(w)[i], weight)
  IN  after[Len(Windows(w))]

Add(w, weight) ==
  /\ status = "adding" /\ adds < MaxAdds
  /\ tables' = AllInserted(w, weight)
  /\ count' = count + weight * Len(Windows(w))
  /\ adds' = adds + 1
  /\ UNCHANGED <<level, status, word, entropy>>

StartWord ==
  /\ status = "adding"
  /\ status' = "making"
  /\ word' = Zeros(level) /\ entropy' = <<1, 1>>
  /\ UNCHANGED <<level, count, tables, adds>>

\* The leaf that the last codepoints of the word lead to, each by its slot; zero if
\* there is no child on the way.
Reached ==
  LET down[k \in 0..level] ==
        IF k = 0 THEN Root
        ELSE IF down[k-1] = 0 THEN 0
        ELSE Value(tables[down[k-1]], word[Len(word) - level + k])
  IN  down[level]

\* The running sums of the counts, in the order of the slots.
Sums(entries) ==
  LET sum[n \in 0..Len(entries)] == IF n = 0 THEN 0 ELSE sum[n-1] + entries[n].value
  IN  sum

\* Mutant: the buffer is taken to hold one codepoint less.
RoomTight == Len(word) + 1 < MaxWord

\* There is no check: past the end of the word, memory is overwritten.
Room == Len(word) < MaxWord

\* A choice, where an assertion does not forbid one, for a total within the bound.
Draw(leaf) == IF leaf.total \in 1..MaxBound THEN Drawn[leaf.total] ELSE {}

\* passgen_markov_generate, and the loop around it, which a zero ends.
Generate ==
  /\ status = "making" /\ Room /\ Reached # 0
  /\ LET leaf == tables[Reached]
         entries == Entries(leaf)
     IN  \E choice \in Draw(leaf) : \E n \in 1..Len(entries) :
           /\ Sums(entries)[n-1] <= choice /\ choice < Sums(entries)[n]
           /\ word' = Append(word, entries[n].codepoint)
           /\ entropy' = <<entropy[1] * leaf.total, entropy[2] * entries[n].value>>
           /\ status' = IF entries[n].codepoint = 0 THEN "made" ELSE "making"
  /\ UNCHANGED <<level, count, tables, adds>>

\* An assertion fails: no child, nothing to choose from, or a choice beyond the counts.
Lose ==
  /\ status = "making" /\ Room
  /\ \/ Reached = 0
     \/ /\ Reached # 0
        /\ LET leaf == tables[Reached] IN
           \/ leaf.total = 0
           \/ \E choice \in Draw(leaf) : choice >= Sums(Entries(leaf))[Len(Entries(leaf))]
  /\ status' = "lost"
  /\ UNCHANGED <<level, count, tables, word, entropy, adds>>

Overrun ==
  /\ status = "making" /\ ~Room
  /\ status' = "overrun"
  /\ UNCHANGED <<level, count, tables, word, entropy, adds>>

\* passgen_markov_node_free goes down as many times as there are levels.
Freed ==
  LET down[k \in 0..level] ==
        IF k = 0 THEN {Root} ELSE UNION {{tables[a].slots[s].value : s \in InUse(tables[a])} : a \in down[k-1]}
  IN  UNION {down[k] : k \in 0..level}

\* passgen_markov_free
Free ==
  /\ status \in {"adding", "made"}
  /\ tables' = [a \in DOMAIN tables \ Freed |-> tables[a]]
  /\ status' = "freed"
  /\ UNCHANGED <<level, count, word, entropy, adds>>

Next ==
  \/ \E w \in Words, weight \in Weights : Add(w, weight)
  \/ StartWord \/ Generate \/ Lose \/ Overrun \/ Free

Spec == Init /\ [][Next]_vars

-----------------------------------------------------------------------------
TypeOK ==
  /\ level \in Levels /\ count \in Nat /\ adds \in 0..MaxAdds
  /\ status \in {"adding", "making", "made", "lost", "overrun", "freed"}
  /\ \A a \in DOMAIN tables : tables[a].kind \in {"node", "leaf"}

Stored(table) == {table.slots[s] : s \in InUse(table)}

\* What the tree holds: every way down it, read off the codepoints of the entries,
\* with its count.
Held ==
  LET ways[k \in 0..level] ==
        IF k = 0 THEN {[by |-> <<>>, to |-> Root]}
        ELSE UNION {{[by |-> Append(way.by, e.codepoint), to |-> e.value] :
                       e \in Stored(tables[way.to])} : way \in ways[k-1]}
      last == UNION {{[by |-> Append(way.by, e.codepoint), weight |-> e.value] :
                        e \in Stored(tables[way.to])} : way \in ways[level]}
  IN  [by \in {way.by : way \in last} |-> (CHOOSE way \in last : way.by = by).weight]

\* As long as the counts cannot overflow, the tree is the bag of transitions that
\* the words added make, through all moves of its tables, and words are made of
\* these transitions, each as likely as it was frequent, with the odds to match.
AsChain == INSTANCE Chain WITH
  weight <- IF tables = <<>> THEN <<>> ELSE Held, total <- count, making <- word, odds <- entropy

ImplementsChain == AsChain!Spec

\* What passgen_markov_check asserts of every node, and the like of leaves, which
\* nothing checks: every entry is where a lookup goes, and in an order for which the
\* total of a leaf is what its counts add up to; and every table is somebody's child
\* until all are freed.
TablesSound ==
  /\ \A a \in DOMAIN tables :
       /\ \A s \in InUse(tables[a]) : tables[a].slots[s].codepoint % Capacity(tables[a]) = s
       /\ tables[a].kind = "leaf" /\ count < CountMax =>
            tables[a].total = Sums(Entries(tables[a]))[Capacity(tables[a])]
  /\ IF status = "freed" THEN tables = <<>> ELSE Freed = DOMAIN tables

\* From the context of zeros on, lookups of codepoints that were made lead to a leaf
\* with something to choose, though lookups do not compare codepoints; unless the
\* chain is empty, or counts overflowed.
NeverLost == status = "lost" => count = 0 \/ count >= CountMax

\* The contexts at which a codepoint of the word was chosen.
Visited == [i \in 1..Len(word) - level |-> SubSeq(word, i, i + level - 1)]

\* The word runs past its buffer only if it went through some context twice, or
\* through more contexts than fit, each of its own leaf.
OverrunNeedsCycle ==
  status = "overrun" =>
    \/ Cardinality({Visited[i] : i \in DOMAIN Visited}) < Len(Visited)
    \/ Cardinality({a \in DOMAIN tables : tables[a].kind = "leaf"}) >= MaxWord - level

\* Choices are made below totals: as likely as the counts say, since no total makes
\* passgen_random_u64_max prefer a number.
Unbiased == \A a \in DOMAIN tables : tables[a].total \in 1..MaxBound => tables[a].total \in FairBounds
=============================================================================
