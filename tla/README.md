# A TLA+ verification of passgen

passgen generates passwords from patterns such as `[a-z]{3,5}(-|{2}_)\w{english}`.
A pattern is a string; it is decoded, split into tokens, the tokens are parsed
into a tree, and a walk over the tree with random choices writes a password into
a buffer. This directory holds TLA+ modules translated from the C sources under
`src/src` and `src/include`, the TLC configurations that check them, and proofs
checked by TLAPS. `PROJECT.json` says which definition models which lines, which
hazards of the code the properties are for, and for every property a plausible
slip in the code that makes TLC find it violated.

    tlc -config MCPassgen.cfg MCPassgen      # model-check one run
    tlapm Tokenizer_proofs.tla               # check the proofs of one module

## 1. Inventory

### Components

| component | sources | state it keeps | operations | correct when |
|---|---|---|---|---|
| UTF-8 coding | `util/utf8.c` | state of an automaton, accumulator, positions in input and output | decode a piece, encode a text | it takes what is well-formed and nothing else, and stays in its buffer |
| Tokenizer | `parser/token.c` | state, payload of a `\u{...}`, offset | one call per codepoint | it decodes what the token syntax says; a payload cannot forge an escape |
| Pattern parser | `parser/parser.c`, `pattern/*.c` | a stack of states with pointers into the pattern; the pattern itself | one call per token, and finish | the pointers are valid, the tree is whole, what the generator takes for granted holds |
| String parsing | `passgen.c` | all of the above | `passgen_parse` | patterns are accepted, other strings refused |
| Generator | `generate.c` | depth, entropy, position in a buffer; the C call stack | `passgen_generate` and three ways to fill a buffer | it generates words of the pattern, stays in the buffer and the depth limit, reports the entropy |
| Hash map | `container/hashmap.c` | slots, capacity, length | insert, remove, lookup, grow, free | it is a dictionary, for clients that re-insert with care |
| Stack | `container/stack.c` | bins, array of pointers to them, length | push, pop, get, foreach, free | it is a stack, with the memory it needs |
| Random buffer | `random/random.c` | a buffer of bytes and a position | open, reload, read, numbers made of it | each byte is used once, requests are served in full, bounded draws have no bias |
| Random sources | `random/*.c` | a file, a key stream, a register | open, read, seek, close | the stream does not depend on how it is cut into reads |
| Cryptography | `monocypher.c`, `util/siphash.c` | a hash with a block that is filling, a work area, a counter | update, final, argon2, chacha20 | pieces are hashed whole, no block is read before it is ready |
| Markov chain | `markov.c` | a tree of hash tables, leaves with counts | add words, generate, free | it makes words with the odds of the wordlist |
| Wordlists, environment | `wordlist.c`, `env.c` | words, a chain, a flag for what was read | add, lazy load, random word, free | loaded once, before use; nothing leaks |
| Command line | `cli/*.c` | options, presets, source, wordlists | parse, configure, generate, free | options mean what the manual says |
| Benchmarks | `bench/*.c` | what is enabled, an input and a clock | prepare, iterate, clean up, release | no input is used twice or after it was freed |
| Others | `container/array.c`, `context.c`, `error.c`, `assert.c`, `pattern/preset.c`, `tools/` | none or little | | |

### How they interact

The program is one thread, and all interaction is calls. `passgen_parse` decodes
the string in pieces, feeds the codepoints to the tokenizer and each token that
is complete to the parser. The parser puts states on a stack; groups, segments,
items and ranges are kept in stacks as well, and the states point to them. The
generator walks the finished tree, takes numbers from the random buffer, looks
wordlists up in a hash map (which are read, and chains made of them, on first
use), and calls a callback, the writer, for each codepoint. The random buffer
calls its source through a function pointer; with a master passphrase that
source is a key stream, whose key Argon2 makes from a hash of the passphrase. The
command line program sets all of this up from two files and the options.

### What is hard

Nothing runs concurrently and nothing is persisted. What is hard is long
sequences of legal calls and boundaries:

* insertion into the hash map displaces entries and grows the table, growth
  inserts through the same function, and that may grow again; the tables of a
  chain move while a word is on its way down through them;
* the parser mutates a tree its own stack points into: it splits literals,
  removes empty groups, drops or re-uses segments;
* invariants are split between parser and generator: the sum of multipliers, the
  running sums of a set and the mark on empty groups are made by one and
  trusted by the other;
* data that is cut into pieces: a request that takes exactly what is left of the
  random buffer, a key stream read in pieces that are no blocks, a message that is
  hashed in pieces that are no words, a string decoded in pieces;
* boundaries: a bin of the stack that is exactly full, room for three of four
  bytes, sums, counts and repetitions that wrap, a mask one bit short;
* what was given counts only if it was given last, in two files and the options,
  and what it replaces must be closed once;
* sources and files that come up short, and assertions that are compiled out.

The list of hazards with their lines is in `PROJECT.json`.

## 2. Modules

| module | models | checked by | proved in |
|---|---|---|---|
| `Dictionary` | what `hashmap.h` promises | | |
| `HashMap` (`MCHashMap`) | `container/hashmap.c` | run `hashmap` | `Containers_proofs` |
| `Lifo` | what `stack.h` promises | | |
| `Stack` | `container/stack.c` | run `stack` | `Containers_proofs` |
| `RandomBuffer` | `random/random.c`: open, reload, read | runs `random_buffer`, `random_repeat` | `RandomBench_proofs` |
| `Bounded` | `random/random.c`: bounded draws | run `markov` | `Markov_proofs` |
| `Utf8` (`MCUtf8`) | `util/utf8.c`, and the loop of `passgen_parse` around it | run `utf8` | `Utf8_proofs` |
| `Codepoints` | codepoints with a meaning, tokens | | |
| `Tokenizer` | `parser/token.c` | run `tokenizer` | `Tokenizer_proofs` |
| `Pattern` | the data structure of `pattern/*.c` | through the next three | |
| `PatternParser` (`MCPatternParser`) | `parser/parser.c`, and what builds the pattern in `pattern/*.c` | run `parser` | `Passgen_proofs` |
| `Generate` | `generate.c` | through `Passgen` | `Passgen_proofs` |
| `Passgen` (`MCPassgen`) | `passgen.c`; composes `Tokenizer`, `PatternParser` and `Generate` | run `passgen` | `Passgen_proofs` |
| `SyntaxTrees` | the reference: what a pattern is written like, and which words it stands for | | |
| `Chain` | what `markov.h` promises: a bag of transitions | | |
| `Markov` (`MCMarkov`) | `markov.c`, and the making of words in `generate.c` | run `markov` | `Markov_proofs` |
| `Blake2b` | Blake2b and the long hash of `monocypher.c`, as functions | through `Master` | `Master_proofs` |
| `Argon2` | the control of `passgen_argon2` | through `Master` | `Master_proofs` |
| `Stream` | what a deterministic source promises | | |
| `KeyStream` | ChaCha20 in `monocypher.c`, reads and seeks of `random/deterministic.c` | through `Master` | `Master_proofs` |
| `Master` (`MCMaster`) | master-passphrase mode; composes `Blake2b`, `Argon2` and `KeyStream` | run `master` | `Master_proofs` |
| `Commands` (`MCCommands`) | `cli/passgen.c`, `env.c`, `wordlist.c`, the opening of sources | run `commands` | `Commands_proofs` |
| `Bench` | `bench/*.c` | run `bench` | `RandomBench_proofs` |

**HashMap.** One step of the model is what the code does between two calls of
`passgen_hashmap_insert`. The C call stack is two sequences: `pending`, the
entries of the insertions that run, and `moving`, the old tables and loop
indices of the reallocations that run. `InsertPlace`, `InsertReplace` and
`InsertDisplace` are the ways an insertion returns, `InsertAllocate` and
`InsertGrow` those by which it reallocates; `CopyEntry` and `CopyDone` are the
copy loop. The two hashes of a key are arbitrary functions, fixed in the initial
state. `Spec` has every insertion the code takes. `CarefulSpec` is that of clients which
insert a stored key again only where the insertion settles on the slot that holds it
(`Careful`): for them the map is a dictionary, for others it is not
(`MCHashMapOverwrite` below). Nothing in `hashmap.c` asks for such care, and
`passgen_env_wordlist_add` and `passgen_cli_opts_preset`, which insert names as they
come, do not take it. Removal from a map that was never inserted into divides by zero
and is not a step. The order of the copies is that of the slots.

**Stack.** `bins` holds the cells of each allocated bin, `slots` the size of the
array of pointers. New memory holds `Junk`; a reallocation keeps what fits, and a
bin that the array has no room for is out of reach. The loop that doubles a power of
two until it is large enough is the function `Power` and the least of its values that
is. The refinement mapping to `Lifo` reads the elements through `passgen_stack_get`.
The names differ from those of `HashMap`, so that one module of proofs can extend both.

**RandomBuffer.** Bytes are numbered in the order the source yields them, so a
byte that is used twice can be told from two equal ones. `asserts` says whether
assertions are compiled in. `calls` counts the recursion. `handed` and `starved`
are history. A negative result of `getrandom` is a short read here.

**Bounded.** Pure functions: the mask of a bound, the loop's condition, and for
every bound the numbers that may be drawn and whether all are drawn alike. A number
is the set of the places of its ones, on which C's `|` and `&` are union and
intersection, and a shift is a quotient. The four widths of the code differ in the
list of shifts only, half the width, a quarter of it, and so on to one: `Shifts`
tells how many there are. `Markov` makes its choices by `Drawn`.

**Utf8.** One step is one byte decoded or one codepoint encoded. The table `utf8d`
is `Classes` and `Class` (its first part), `First`, `Goes` and `To` (its second).
`CallAgain` is the next turn of the loop in `passgen_parse`; `input`, `output` and
`widths` are those of all calls. Encoding takes what was decoded or another text,
into a buffer of any size; `Limit` is `out_len - 4`, which wraps.

**Tokenizer.** One action for each way out of each state. `raw`, the codepoints
of the token so far, is history; the properties compare the token with a
declarative definition of the token syntax. The byte offset is left out.

**Pattern.** The tree is `groups`: each group under its place in the tree, which is
what a pointer to it stands for. The parser writes it and the generator reads it.

**PatternParser.** A state names the group it works on. There is one
action for each token in each state. Every token in a group first removes an
empty group at the end (`Cleaned`), as the code does, before anything else. A
token whose low eight bits are those of a syntax character acts as one (`Char`).
`exact` is history: it turns FALSE at the first token that makes the sum of
multipliers unreliable (see section 3). A rejected token leaves the changes
that were made before the error was noticed. `outcome = "astray"` is the character of a
name that UTF-8 cannot encode (`NameCharAstray`): an assertion fails, and if it is
compiled out -1 is taken for a length. The running sums of a set are reduced as in a
`size_t`; `Countable` says that nothing was lost by it.

**Generate.** What a group consists of is read from `groups`. The call stack of the C functions is `calls`, one frame per group
that is entered, with segment, item and repetitions left; the random numbers are
free choices. `pending` holds the codepoints of the item at hand which the writer
still has to take. Entropy is an exact fraction where the code has a double. In
`GenerateWord` it is multiplied before the word is written, in the code after:
the difference can be seen only after a failure, when the code's result is not
used. `result = "astray"` stands for what has no defined result: the walk that
leaves the last segment and follows NULL; a choice among no counts, codepoints or
words, where the random number generator asserts or, without assertions, never
returns; and specials that are `Hopeless`: one without a name, `\w{}`, whose NULL is
hashed if there are lists at all, or a chain made of words that cannot be decoded or
that makes longer ones than fit. A wordlist is given with its words, which of them are
not UTF-8, what its chain makes, and whether that `overruns` the buffer (`Markov` says
when). A word that is ill-formed or too long fails (`WordUndecoded`).

**Passgen.** The module extends `PatternParser` and `Generate`, which share `groups`,
and has an instance of `Tokenizer`. A codepoint is fed to the tokenizer, and in the
same step the token that it completes to the parser; generation starts from `groups`
as the end of the string left it. A string is given with its meaning: whether it is
a pattern, or one that the syntax does not have and the code tolerates, and its
derivations, each a word with the odds against it and how deep groups nest in it. `MCPassgen` takes both from the trees of `SyntaxTrees`. The program
does not look at the meaning; the properties do.

**Markov.** Nodes and leaves are tables found by an address; a table that moves to
the next size keeps its address, as its parent is told the new one in the same
call. `Filled` is the recursion of the two `realloc` functions, over growing sizes:
the table of each size for any entries, by those of the larger sizes.
Counts wrap at `CountMax`, totals do not, as in the code. A lookup compares no
codepoints (`Reached`). `Generate` is one turn of the loop of
`passgen_generate_special_markov`; `"lost"` stands for an assertion that fails and
`"overrun"` for a word that is longer than its buffer. Under `Chain` the tree is the
bag of its ways down (`Held`).

**Blake2b, Argon2, KeyStream, Master.** What the rounds compute is left out; what
is kept is which data goes where. `Blake2b` works on numbered bytes: a hash is the
sequence of blocks that were compressed, with their offsets and the flag of the
last. In `Argon2` a block is known by its lane and place, and holds how often it
was filled; `Reference(seed)` is the block a seed picks. In `KeyStream` a byte is
known by the counter of its block and its place in it. `Master` runs the three
in the order of `passgen_random_chacha20_argon2_open`: the arguments are absorbed
piece by piece, the work area is filled, the key opens the stream, and the random
buffer reads ahead.

**Commands.** A directive is a line of a file or an option, and is the handle of
what it opens. `stage` goes through the two files, the options, parsing and
generating to one of four ends: an exit, an assertion (`"crashed"`), undefined
behaviour (`"astray"`), or the scan that leaves a file without a last newline
(`"overread"`). Of a configuration file it matters how many bytes it has, whether it
ends in a newline, and how long the path of the user's is: `FullFile`, `LongPath` and
`PastEndOfFile` are the ways in which it undoes the program. `Look` finds the list of a
special, reads it if it was not read and makes its chain if needed; what the file
contains (`good`, `empty`, `short`, `illformed`, `unsized`, `missing`) decides how that
goes. Of a good one it is known how long its longest word is, and how long the longest
walk of its chain is for each length of contexts; where contexts repeat there is none,
and any number from 128 on stands for it. A walk that has no room behind its context in
`word[128]` overwrites memory (`Walked`). `passgen_env_free`, `passgen_cli_opts_free` and
the returns that free nothing are `Released` and `Quit`. The maps of presets and lists
are taken to be dictionaries, which they are as long as no displaced name is given again
(`Careful` in `HashMap`), and a password to fit into its 256 bytes, as the writers'
failure is in `Generate`.

**Bench.** A benchmark is the set of parts its functions allocate and free, and
whether it consumes its input. `live` holds what is allocated, `Measure` is one
iteration with the input the loop passes to it, `Tick` the processor's clock.

## 3. What the runs check

| run | states | what it shows |
|---|---|---|
| `hashmap` | 321,192 | Of clients that are careful, `ImplementsDictionary`: through displacement, growth and growth within growth no entry is lost, doubled or brought back, and each operation returns the right entry. `Placed` holds in the middle of a copy as well; `InsertionReturns`. |
| `stack` | 1,978,805 | `ImplementsLifo`, `LaidOut` (exactly the memory the elements take, nothing leaks on free, and an iteration visits every element, also when the last bin is exactly full). |
| `random_buffer` | 28,436 | `Served`, `AheadIsFresh` (what fits is fresh), `AtMostTwice` (the repetition below is bounded), `RequestEnds`. |
| `random_repeat` | violated | `NoByteTwice`: a read across the end of the buffer copies from the start of the buffer, not from the position (random.c:43-45). |
| `utf8` | 2,780,304 | `DecodesExactly`: however the string is cut into calls, what is decoded is what was encoded, widths and all, and input is refused at the first byte after which it cannot be well-formed, by the table of the Unicode Standard. `EncodesWithin`: the encoder stays in its buffer, succeeds with all of the text, and gives up only near the end. |
| `tokenizer` | 229,909 | `Decodes` (each token denotes what the syntax says, an error if and only if no token begins like that), `EscapeUnforgeable`. |
| `parser` | 1,410,853 | `TreeSound` (pointers are valid, nothing dangles or is left over, empty groups are where they will be removed, no segment has a multiplier of zero, which group.c:31 assumes), `DepthLimited`, `ModifierApart`, `Choosable` (the generator's walks up to the sums end inside), `BehindFrozen` (a closed group never changes again). |
| `passgen` | 440,278 | `AcceptsPatterns` (every pattern, and of other strings just the tolerated ones named below), `Derived` (only words of the pattern), `EntropyCounts`, `StaysInside` (in the tree and in the buffer), `FailsForCause` (only for one of the reasons it names: nothing derived, depth, room, no list, a word that cannot be decoded, no codepoint), `Ends`. |
| `markov` | 32,219 | `ImplementsChain`: through all moves of its tables the tree is the bag of transitions of the words added, words follow transitions, and the odds reported are theirs. `TablesSound` (every entry is where a lookup goes, totals add up, freeing frees every table), `NeverLost` (lookups that compare nothing still lead somewhere), `Unbiased` (bounded draws below every bound), `OverrunNeedsCycle`. |
| `master` | 9,838 | `HashesWhole` (however its pieces cut the message), `ReferencesReady` (no block of Argon2 is mixed with one that is not filled or that another lane fills), `IndexedAsChosen` (data picks blocks only where the variant lets it), `ImplementsStream` (reads and seeks of any size give the one key stream). |
| `commands` | 1,336,391 | `LastWins`, `NothingDangles` (what is open is in use or belongs to a list whose name was taken; nothing is closed twice), `UndoneForCause` (an assertion fails, or memory is overwritten or read behind its end, only on account of the files, sources, lengths and lists it names), `RunEnds`. |
| `bench` | 18,542 | `NothingMisused` (nothing is used after it was consumed or freed), `LeaksNamed` (of the inputs two leak and no other), `MeasurementEnds`. |

`random_repeat` is the one run that is expected to fail: it is the disagreement with
the most weight, as its bytes are what passwords are made of. Six further
configurations show where the code does something else than what is written
about it; TLC finds each violated. They are run by hand:

| configuration | property | what is shown |
|---|---|---|
| `MCHashMapOverwrite.cfg` (`MCHashMap`) | `InsertReturnsPrevious` | insert b so that it displaces a to its second slot, remove b, insert a again: a is stored twice and no previous entry is returned (hashmap.h:115: "If there was a previous entry with the same key, it will return it") |
| `MCPatternParserSum.cfg` (`MCPatternParser`) | `SumIsSum` | `{2}{3}a` or `{0}a\|b` leave a sum that is not that of the multipliers (group.h:34: "Sum of segment multipliers") |
| `MCPatternParserRange.cfg` (`MCPatternParser`) | `RangesAreCodepoints` | `[a-\-]` ends in a codepoint with the escaped bit (syntax.md:101) |
| `MCPassgenEntropy.cfg` (`MCPassgen`) | `EntropyIsOdds` | the coin of `a?` is not counted (passgen.1.in:47) |
| `MCPassgenReversed.cfg` (`MCPassgen`) | `RepeatsBetween` | `a{3,1}` repeats a number of times that wraps (README.md:129) |
| `MCCommandsExit.cfg` (`MCCommands`) | `ErrorsReturned` | a pattern with a wordlist that was not loaded prints an empty password and returns zero (passgen.1.in:167: "It is an error", passgen.1.in:227: "it will return a different exit code") |

What else was met, without a configuration of its own:

* a codepoint whose low byte is `|` (U+017C) acts as `|`; `\]` is refused in a set
  and `?` cannot be written as a character; a modifier after an empty group applies
  to the item before it; `a{,2}` is `a{0,2}`;
* strings that docs/syntax.md does not have and that are accepted all the same, which
  `AcceptsPatterns` calls tolerated: `[]`, which writes nothing (syntax.md:78: "Sets
  consist of one or more ranges"), a second multiplier as in `{2}{3}a`, and
  `\u{110000}` (syntax.md:122: "Any valid unicode codepoint"), which the UTF-8 and JSON
  writers then refuse, so that generation fails;
* `{1,0}` and `{0,18446744073709551615}` leave no count to choose, the difference and one
  being zero as a `size_t`. `\w{}` leaves a name that is NULL, and the lookup hashes what
  is behind it (generate.c:361, :399). Hence `Orderly` in `StaysInside`, which says of all
  items that their counts and codepoints can be counted and that no special is hopeless;
* a name with a codepoint that UTF-8 does not have, `\w{\u{110000}}`, fails an assertion
  (special.c:60), or shortens the name by one if assertions are compiled out;
* `passgen_hashmap_remove` on an empty map divides by zero;
* `passgen_utf8_decode` reports success for a string that ends inside a codepoint,
  and `passgen_utf8_encode` with a buffer of less than four bytes takes it for
  endless (utf8.c:139); no caller has one;
* a configuration file without a newline at its end is scanned past that end
  (cli/passgen.c:545-574), one of 10240 bytes or more has a zero written behind its
  buffer (:527), and a path of more than 255 bytes is written behind `config_path[256]`
  (:600, :607);
* `-M 256` makes chains with contexts of length 0, on which an assertion fails; `-M
  130` makes them longer than the buffer of a word, `word[128]`; and at any other length
  a chain whose contexts repeat may go on past that buffer (generate.c:373-384), which
  `OverrunNeedsCycle` is about;
* a wordlist that is a pipe or a directory has no size (wordlist.c:74-83); the words of
  one that could not be read are undefined; a word of more than 256 codepoints fails an
  assertion when the chain is made (wordlist.c:44-52);
* a wordlist whose name is given again stays open to the end; `passgen-bench -o`
  without `=` follows a NULL.

### Bounds, and why they are enough

* `hashmap`: three keys, two values, capacities 3, 7, 13, ...; hash values 0, 4,
  7, 21. Keys share slots at each capacity in different ways (7 and 21 are the same
  slot modulo 7, 4 and 7 modulo 3), so that growth is needed, and needed again
  inside the copy. No two keys have a hash value in common: a 64-bit hash makes
  that improbable, and without it `InsertionReturns` would not hold.
* `stack`: bins of 4 (32 in the code) and up to 17 elements: five bins, so that
  the array of pointers is grown to 2, 4 and 8 and shrunk again by a later push.
* `random_buffer`: a buffer of 4 (1024 in the code); requests below, at and above
  it; sources with 2 bytes (less than one reload), 4, 11 and 14 (which run dry in
  a reload or in a direct read).
* `utf8`: all strings of up to five bytes out of twenty, the first and the last of
  every class and of every row of the standard's table; one or two codepoints to a
  call; buffers of 3 and 12 bytes, the first of which makes the subtraction wrap.
* `tokenizer`: ten codepoints, one of each class the code tells apart, and 11 of
  them: a payload with one digit too many.
* `parser`: six alphabets with 6 to 9 tokens per parse, which between them have
  each token the parser tells apart in each state; limits 0 (none) and 3;
  numbers of four bits, so that they wrap.
* `passgen`: trees with each kind of item, modifier and multiplier, alone and in
  pairs, nested groups, a literal that is full, and malformed strings for every
  way to end early; the tolerated strings; lists with words that are too long,
  ill-formed or none, and a chain that overruns; buffers that are large, of one unit and
  of three bytes; depth limits 1 to 3; numbers of six bits, and a repetition and a set
  with as many counts or codepoints as that is one too many. The trees do not have: a
  multiplier of zero on a segment that is not the last, a modifier on a group without
  items, `?` and, in sets, `]` as characters. The first is `SumIsSum`, the others are
  listed above.
* `markov`: tables of the real sizes (3, 7, 17, ...), codepoints 2, 9 and 21, of
  which pairs collide in the first size, in the second, or in both, so that a table
  grows by one size and by two; contexts of one and two; two additions with weights
  0, 1 and 6, and counts below 24, so that they overflow; a buffer of 6 codepoints
  (128 in the code), which words with a cycle overrun; draws of eight bits.
* `master`: blocks of the hash of two words of eight bytes, so that the strings
  (empty, shorter than a word, across words, across blocks) cut them in every way;
  Argon2 with one to three lanes, two and eight passes, numbers of blocks that are
  no multiple of the lanes, index blocks of three words (128 in the code); blocks of
  the stream of 4 bytes and a low word of the counter that carries every three.
* `commands`: one line in each file and three options; no configuration file, one that
  is read, one without a last newline, one that fills the buffer, and a path with and
  without room; every kind of directive and of list, longest words of 8, 200 and 300
  codepoints (below and above 128 and 256), lengths of contexts 122 (with just room for
  the longest walk), 130, 256 and 258 (which are 0 and 2 as they are passed on), and the
  default, 3. Three options are what it takes to set a length, name a list and use it,
  with a file that came before.
* `bench`: two iterations and one tick, which are one more than none; any two of the
  benchmarks, or all. A negative number of iterations, with which the loop would never
  reach its count, is not modelled.

### Fairness

The program is one thread: a call that was made runs to its end. `HashMap`
assumes weak fairness of the steps of a running insertion, `RandomBuffer` of
those of a running read, `Passgen` of all its steps, as it describes one call of
`passgen_parse` followed by one of `passgen_generate`, and `Commands` of all its
steps, as it describes one run of the program. `Bench` assumes it of its loop, of
the end of the options, as the arguments are finitely many, and of the clock, as
running takes processor time. Nothing forces a client to make a call, so there is
no fairness on `Insert` or `Request`. Deadlock is checked for `HashMap` and `Stack`,
whose clients can always make another call; the other systems stop (a parse or a
generation is over, the input is used up, the program ended or aborted).

## 4. Proofs

The theorems hold for all values of the constants that satisfy the named
assumptions of the modules. `PROJECT.json` lists each with what it establishes.

* `Containers_proofs`, on `HashMap`: `TypeCorrect`, `PlacementHolds`, `LengthHolds`,
  `DictionaryImplemented`, `LookupIsExact`. The inductive invariant is
  well-formedness (with the frames of `moving` over all capacities), `LenExact` and
  `Placed` together: the length can be kept only if it is known that what is
  overwritten is the key's own entry, and a displaced entry goes to a slot of its own
  only if it sat in one. Cardinality changes by one at a slot that was free or is
  freed. The hashes are arbitrary here: keys may share them. For the refinement it
  is added (`Apart`) that every key has at most one entry among the slots, the
  pending entries and what is not yet copied, unless the client replaces a stored
  one: the dictionary is what these hold together, so a displacement, a growth or a
  copy only moves an entry and is a stutter. The first three are theorems of `Spec`, of
  any client. The last two are of `CarefulSpec`, as the run is: of `Spec` they are false
  (`MCHashMapOverwrite`), and that the program's own insertions of names are careful is
  not proved, because it is not so.
* `Containers_proofs`, on `Stack`: `StackLaidOut`, `StackIsLifo`. `LaidOut` is not
  inductive: that the first bin has a cell for every element does not tell that the
  next element fits, as it is reallocated only when the length is a power of two, and
  the same goes for the array of pointers. The invariant (`LayoutInv`) has both as
  large as the loop of `passgen_stack_bin_count` counts to for what they hold, which
  rises with the length and stays between two powers. A position is a bin and an
  offset in one way only, so a write reaches one cell, and each operation leaves the
  cells below the top as they are. That a walk meets every element is proved for the
  bins one after the other. The sizes of a bin and of the first allocation are arbitrary:
  nothing depends on either being a power of two.
* `RandomBench_proofs`, on `RandomBuffer`: `TypeCorrect`, `ServedInFull`, `OneRefillSuffices`,
  `FreshAhead`, `HandedAtMostTwice`. The strengthening says that, unless a reload
  came up short, the buffer holds consecutive bytes of the source, those before
  the position handed out at most once, those from it on never: so the copy from
  the front, wrong as it is, hands out no byte a third time.
* `RandomBench_proofs`, on `Bench`: `InputsUsedOnce`, `OnlyNamedLeaks`. The invariant
  says of the benchmark that runs that its input is whole until it is consumed, and
  that what is left of earlier ones is a part that was to be leaked; a number for a new
  input is there because those ruled out are fewer than the numbers. What the benchmarks
  allocate matters in one way only (`WellBehaved`): an input that is consumed is freed
  in full.
* `Markov_proofs`, on `Bounded` and `Markov`: `DrawsAreUnbiased`, for the four widths
  and every bound. Before the k-th shift, of `Width \div 2^k` places, the bits known to be set are
  the highest of the bound and as many below it as the shift before went, so that each
  shift doubles that number, and the last, of one place, leaves the mask with exactly
  the bits up to the highest (`MaskIs`). Masking a raw number is then its remainder by a
  power of two (`MaskedIs`), and each remainder is that of equally many raw numbers, by
  a bijection with the quotients (`MadeBy`). The power is at most twice the bound, so no
  more raw numbers are rejected than not.
* `Markov_proofs`, on the chain itself: `ChainTypes`, `TablesStaySound`, `NeverLosesItsWay`,
  `OverrunsOnlyByCycles`. A table is known by what it holds for each codepoint
  (`Lookup`); by induction over the sizes from the largest down, filling a table from the
  slots of another keeps that, however often it moves on (`FilledIs`), as from the
  nineteenth size on every codepoint is a slot of its own. The tables form a tree
  (`IsTree`), in which each address has the codepoints that lead to it. A word's windows are
  those of the word with zeros around it, so each but the last is followed by one whose
  context is its end. The invariant (`ChainInv`) says that of what follows a context
  there is an entry only if the next context has a leaf (`Covered`), which is broken
  between two windows for one of them only; that totals are sums; and that the
  contexts of the word being made are those of leaves.
* `Markov_proofs`, on `Markov` and `Chain`: `TreeImplementsChain`, as long as no count
  overflowed. The bag has a transition as often as the way down for it says (`Held`), so
  adding a word adds the bag of its windows, one after the other, wherever tables move.
  The odds of a choice are how often its transition is in the bag, of as many as have
  its context: the leaf's counts, in the order in which they are summed, are these
  numbers, and each is met once, so the sums end at their total.
* `Utf8_proofs`: `DecodesScalars`, `EncoderStaysInside`, `DecodesWhatIsWellFormed`,
  `EncodesTheWholeText`. The invariant says which prefixes of codepoints, less their
  last six, twelve or eighteen bits, the accumulator may hold in each state; a byte
  of each class leads from one such set to another. The bytes of the unfinished
  codepoint can be read off state and accumulator (`Pending`), so that all that was
  read are the encodings of what was decoded, and these bytes; each byte is then
  compared with the rows of the standard's table. For the encoder it is the bound the loop's condition gives, which is
  exact because the subtraction does not wrap.
* `Tokenizer_proofs`: `TypeCorrect`, `EscapeCannotBeForged`, `DecodesItsInput`. The
  payload read so far is below 16 to the power of its length, so six digits are below
  the bit that marks an escape; and it is the number the digits stand for, which ties
  each state to the form of what was read.
* `Passgen_proofs`, on the parser: `DepthHolds`, `RootStays`, `TypesHold`, `TreeStaysSound`,
  `ModifiersStayApart`, `SumsAreWalked`, `ParsedStaysParsed`. None of the properties is
  inductive. The invariant, `TInv`, is stated of any heap, any path of open groups
  and the role of the top state: the groups are those reached from the root (`Tree`),
  each group of the path is the last item of the one before (`Chained`), every group
  is as its role lets it be (`Well`: what may stand in the current segment, no
  multiplier of zero behind it, the sum that of the multipliers but the one being
  read), and a closed group that derives nothing is the last item (`LastDead`). It has
  to be about any heap because each token of a group acts on what `Cleaned` left,
  which no state shows. A multiplier of zero is what makes a rejected `)` special: the
  root's only segment may be gone then, the role `CLOSING`. `AddUp` says that numbers
  add up to a sum, as there is no recursion to reason by, and `AddUpUnique` that
  there is one such sum.
* `Passgen_proofs`, on the generator: `DepthIsBalanced` and `WritesWithinRoom`, of the generator and any
  pattern whatever, parsed or not; `GenerationStaysInside` and `ParsedSoundly`, of the
  whole way from any string to the password. `calls` is a sequence of frames of which
  only the last may not have chosen its segment, and which is empty exactly when
  generation is done. For `StaysInside` the invariant (`PInv`) has that of the parser
  in it (`TInv`), which each token keeps and generation does not disturb; every frame
  points to a group, a segment and an item that are there (`AllInPattern`); and what
  was written is counted by running sums that exist (`Written`, `Takes`). When parsing
  is done only the root is open, so that every group is closed and its sum is that of
  its multipliers (`DoneWalkable`): a choice below the sum lies between two of the
  running sums (`BetweenSums`), so the walk stops at a segment (`WalkStops`), and the
  difference of an item's bounds leaves room for one more (`CountFound`); the first running
  sum of a set that is above the choice is there (`ChoiceFound`), and a special that is
  not hopeless has a word (`SpecialFound`). These are the assumptions of `generate.c` about
  `parser.c`, `exact` and `Orderly`, that no code checks: of patterns that break them
  the theorem says only that nothing is written behind the buffer.
* `Master_proofs`: `FillsAll`, `ReferencesAreReady`, `IndexesAsChosen`,
  `StreamImplemented`, `DigestsAreWhole`, all of `Master`, in which the hash, the work
  area and the key stream run one after the other; `MasterFills` and `MasterStreams`
  show that each of its steps is one of `Argon2` or `KeyStream` or leaves it alone.
  For `Argon2` the invariant says how often every block was filled from the position
  of the loops alone (`InOrder`): done slices once more than those to come. A reference
  is then placed in the window, whose ends are computed without the wrap around the
  lane, and found on the filled side of it. For the indexes, the number of the index
  block is tied to the block at hand by a quotient. For `KeyStream` it says that the
  bytes so far are those of the stream from where the read began, and that the
  counter's two words together number the block which comes next. For the hash, a
  context is shown to depend on the bytes it took and not on how they were cut: they
  are whole blocks that were mixed in, and the rest in the block that is filling,
  which is never empty behind a block.

* `Commands_proofs`: `NothingStaysOpen`, `LastSaidWins`, `UndoneForACause`, for any
  lines and options and any number of them. The history of directives ties the three
  together: every setting is described by the last directive of its kind (`LastOf`),
  every list by the last that opened a file under its name and the length of contexts
  set before that, and what is open by all directives that opened something, less the
  files that were read to an end. A new directive then changes only what is last for
  its own kind. `NothingStaysOpen` needs that the lists of two names never share a file,
  which follows from the names of the directives that opened them; `UndoneForACause`
  needs that the specials still to come in a password are among the pattern's, and that
  a list has the length of contexts that was set when its last directive was given. Three
  assumptions say which data the constants carry: `DirectivesAssumption`, that a preset
  with a colon and a pattern have a list of specials, that a length is a number, that
  lists are of the six kinds and what is known of a good one; `FilesAssumption`, that
  sizes and lengths of paths are numbers; and `DefaultsAssumption`, the first for the
  presets built in.

Induction is needed in a few places (a context after q blocks, a text of n
codepoints, running sums of n numbers). The rule is derived where it is used, for sets,
from the library's theorem that the order of the naturals is well-founded; what
holds of n is then membership of a set.

Only model-checked: liveness (`InsertionReturns`, `RequestEnds`, `Ends`, `RunEnds`,
`MeasurementEnds`), which is out of the provers' reach; and the agreement of parser and
generator with the grammar (`AcceptsPatterns`, `Derived`, `EntropyCounts`,
`FailsForCause`), as what a string means is given with it, by the recursive operators
of `SyntaxTrees`.

## 5. Not modelled, and why

* What Blake2b, ChaCha20, Argon2 and SipHash compute: values no property here
  tells apart. The rest of Monocypher is not used by the program. The recurrence of
  xorshift is a pure function with tests of its own.
* The filter of system calls (cli/passgen.c:619-735): a list given to the kernel,
  which changes no state of the program.
* Printing, help texts, the positions and wording of errors, and the bookkeeping of
  contexts; what an assertion does to control is modelled where it matters.
* `tools/`: loops over the standard input. `container/array.c`: nothing modelled uses
  it. `pattern/preset.c`: a stub. The options of single benchmarks and the mode for
  valgrind, which does nothing.
* The words in the file of a list: `Commands` abstracts a file to what can go wrong
  with it, `Generate` takes the words as constants, `Markov` takes any.

## 6. Plan

Done, in this order: `HashMap` over `Dictionary`; `RandomBuffer`; `Tokenizer`;
`Pattern` with `PatternParser` and `Generate`; `Passgen`; `Stack` over `Lifo`; `Markov` over `Chain`, with
`Bounded`; `Commands` with the wordlists; `Utf8`; `Blake2b`, `Argon2` and `KeyStream` over
`Stream`, composed in `Master`; `Bench`; proofs for fourteen of them, in eight modules.

Left: `Commands` with two lines per file, once states that differ in the order of
independent directives are told to be the same; and the map of names in `Commands` as a
`HashMap`, with names whose slots collide.
