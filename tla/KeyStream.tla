----------------------------- MODULE KeyStream -----------------------------
(***************************************************************************)
(* The ChaCha20 source of src/random/deterministic.c on passgen_chacha20_  *)
(* djb of src/monocypher.c: a key stream made in blocks that are numbered  *)
(* by a counter of two words, read in pieces that need not be multiples of *)
(* a block.  What is left of a block is not kept but made again.           *)
(*                                                                         *)
(* A byte of the stream is known by the counter of its block and its place *)
(* in there, which chacha20_rounds makes it from.                          *)
(***************************************************************************)
EXTENDS Integers, Sequences

CONSTANTS
  BlockSize,    \* CHACHA20_BLOCK_SIZE
  LowMax,       \* the low word of the counter is a u32: it holds 0..LowMax-1
  Sizes,        \* what is read at once: the buffer of passgen_random, or more than it
  Positions,    \* where passgen_random_chacha20_seek is called for
  Length        \* bound: how far the stream is read; a size_t holds that

ASSUME BlockAssumption == BlockSize \in Nat \ {0} /\ LowMax \in Nat \ {0}
ASSUME SizesAssumption == Sizes \subseteq Nat \ {0} /\ Positions \subseteq Nat /\ Length \in Nat

VARIABLES
  part,        \* "idle", "short", "whole" or "closed"
  offset,       \* context->offset
  size,         \* how many bytes passgen_random_chacha20_read was asked for
  written,      \* how many of them came from a block that was begun
  counter,      \* input[12] and input[13]
  dest          \* the bytes so far

keyVars == <<part, offset, size, written, counter, dest>>

-----------------------------------------------------------------------------
\* ctr, as two words
Words(ctr) == [low |-> ctr % LowMax, high |-> ctr \div LowMax]

\* Mutant: the carry is lost.
IncrementedLow(words) == [words EXCEPT !.low = (words.low + 1) % LowMax]

Incremented(words) ==
  LET low == (words.low + 1) % LowMax IN
  [low |-> low, high |-> IF low = 0 THEN words.high + 1 ELSE words.high]

\* Bytes first..first+n-1 of a block.
Bytes(words, first, n) == [i \in 1..n |-> [words |-> words, at |-> first + i - 1]]

Lesser(a, b) == IF a < b THEN a ELSE b

\* A read begins: in a block that was begun, or at the start of one.
Begin(at, n) ==
  /\ size' = n /\ written' = 0 /\ dest' = <<>>
  /\ part' = IF at % BlockSize # 0 THEN "short" ELSE "whole"
  /\ counter' = Words(at \div BlockSize)

\* Nothing was read of the stream yet.
KeyInit ==
  /\ part = "idle"
  /\ offset = 0 /\ size = 0 /\ written = 0
  /\ counter = Words(0) /\ dest = <<>>

\* passgen_random_chacha20_read, for passgen_random_reload or passgen_random_read
Read(n) ==
  /\ part = "idle" /\ offset + n <= Length
  /\ Begin(offset, n)
  /\ UNCHANGED offset

\* passgen_random_chacha20_seek, which reloads the buffer.
Seek(p, n) ==
  /\ part = "idle" /\ p + n <= Length
  /\ offset' = p
  /\ Begin(p, n)

\* passgen_random_chacha20_read_short
ReadShort ==
  /\ part = "short"
  /\ LET n == Lesser(BlockSize - (offset % BlockSize), size) IN
     /\ dest' = Bytes(counter, offset % BlockSize, n)
     /\ written' = n
     /\ offset' = offset + n
  /\ counter' = Words(offset' \div BlockSize)
  /\ part' = "whole"
  /\ UNCHANGED size

\* One of the whole blocks.
WholeBlock ==
  /\ part = "whole" /\ size - Len(dest) >= BlockSize
  /\ dest' = dest \o Bytes(counter, 0, BlockSize)
  /\ counter' = Incremented(counter)
  /\ UNCHANGED <<part, offset, size, written>>

\* The last block, if it is incomplete; the offset moves on by what djb wrote.
LastBlock ==
  /\ part = "whole" /\ size - Len(dest) < BlockSize
  /\ dest' = dest \o Bytes(counter, 0, size - Len(dest))
  /\ offset' = offset + (size - written)
  /\ part' = "idle"
  /\ UNCHANGED <<size, written, counter>>

\* passgen_random_chacha20_close
Close ==
  /\ part = "idle"
  /\ part' = "closed"
  /\ UNCHANGED <<offset, size, written, counter, dest>>

KeyNext ==
  \/ \E n \in Sizes : Read(n) \/ \E p \in Positions : Seek(p, n)
  \/ ReadShort \/ WholeBlock \/ LastBlock \/ Close

KeySpec == KeyInit /\ [][KeyNext]_keyVars

-----------------------------------------------------------------------------
\* The position of a byte in the stream.
Position(byte) == (byte.words.high * LowMax + byte.words.low) * BlockSize + byte.at

Reading == part \in {"short", "whole"}

\* What is read is the stream: the bytes follow one another without a gap, and those of a
\* read follow those of the one before.
Implemented == INSTANCE Stream WITH
  position <- IF Reading THEN offset - written ELSE offset,
  asked <- IF Reading THEN size ELSE 0,
  answer <- IF Reading THEN <<>> ELSE [i \in 1..Len(dest) |-> Position(dest[i])]

ImplementsStream == Implemented!Spec
=============================================================================
