------------------------------ MODULE Blake2b ------------------------------
(***************************************************************************)
(* The incremental hash of src/monocypher.c as passgen_argon2 uses it: a   *)
(* message is given in pieces, collected in a buffer of words and mixed    *)
(* into the hash block by block.  The last block is mixed in another way,  *)
(* so a full buffer is kept until it is known that more follows.           *)
(*                                                                         *)
(* The bytes of the message are told apart by the order they come in, from *)
(* 1; zero is the byte a block is filled up with.  What blake2b_compress   *)
(* makes of a block is not computed: the hash is known by the blocks that  *)
(* went into it, with the offset and the flag each was mixed with.         *)
(***************************************************************************)
EXTENDS Integers, SequencesExt

CONSTANTS
  WordBytes,    \* bytes of a word of the buffer: 8
  BlockWords,   \* words of the buffer: 16
  OffsetMax     \* a word of the offset is a u64: it holds 0..OffsetMax-1

ASSUME WordAssumption == WordBytes \in Nat \ {0} /\ BlockWords \in Nat \ {0}
ASSUME OffsetAssumption == OffsetMax \in Nat /\ OffsetMax > WordBytes * BlockWords

BlockBytes == WordBytes * BlockWords

Zeros(n) == [i \in 1..n |-> 0]

\* What is left of two bytes that were ORed, neither of which is zero.
Mixed == -1

Or(a, b) == IF a = 0 THEN b ELSE IF b = 0 THEN a ELSE Mixed

\* passgen_blake2b_init: hash is what went into the hash so far.
Fresh == [hash |-> <<>>, offset |-> <<0, 0>>, input |-> Zeros(BlockBytes), idx |-> 0]

\* The offset counts the bytes of the buffer in, with a carry.
Advanced(offset, n) ==
  LET low == (offset[1] + n) % OffsetMax IN
  <<low, IF low < n THEN offset[2] + 1 ELSE offset[2]>>

\* blake2b_compress
Compressed(ctx, last) ==
  LET offset == Advanced(ctx.offset, ctx.idx) IN
  [ctx EXCEPT !.offset = offset,
              !.hash = Append(@, [block |-> ctx.input, offset |-> offset, last |-> last])]

\* Bytes or words are written over the buffer, from its index on.
Loaded(ctx, bytes) ==
  [ctx EXCEPT !.input = [i \in 1..BlockBytes |->
                 IF i - ctx.idx \in 1..Len(bytes) THEN bytes[i - ctx.idx] ELSE @[i]],
              !.idx = @ + Len(bytes)]

\* They are ORed to what is there.
Ored(ctx, bytes) ==
  [ctx EXCEPT !.input = [i \in 1..BlockBytes |->
                 IF i - ctx.idx \in 1..Len(bytes) THEN Or(@[i], bytes[i - ctx.idx]) ELSE @[i]],
              !.idx = @ + Len(bytes)]

Whole(n, unit) == n - (n % unit)

Start(bytes, n) == SubSeq(bytes, 1, n)

After(bytes, n) == SubSeq(bytes, n + 1, Len(bytes))

-----------------------------------------------------------------------------
(***************************************************************************)
(* passgen_blake2b_update, in its four parts: how many bytes each takes    *)
(* from the piece, and what becomes of the context.                        *)
(***************************************************************************)

\* Up to the end of a word that was begun.
ToWord(ctx, size) ==
  IF ctx.idx % WordBytes = 0 THEN 0
  ELSE Min({WordBytes - (ctx.idx % WordBytes), size})

\* Whole words, up to the end of a block that was begun.
ToBlock(ctx, size) ==
  IF ctx.idx % BlockBytes = 0 THEN 0
  ELSE Whole(Min({BlockBytes - ctx.idx, size}), WordBytes)

\* A whole block; the one in the buffer is not the last one.
WithBlock(ctx, block) ==
  LET before == IF ctx.idx = BlockBytes THEN Compressed(ctx, FALSE) ELSE ctx IN
  Loaded([before EXCEPT !.idx = 0], block)

\* Mutant: the buffer is not zeroed for the next block.
WithTailStale(ctx, tail) ==
  LET flushed == IF ctx.idx = BlockBytes THEN [Compressed(ctx, FALSE) EXCEPT !.idx = 0] ELSE ctx
      words == Whole(Len(tail), WordBytes)
      begun == [Loaded([flushed EXCEPT !.idx = 0], Start(tail, words)) EXCEPT !.idx = flushed.idx + words]
  IN  Ored(begun, After(tail, words))

\* What is left, less than a block: its whole words go to the front of the buffer,
\* wherever the index is.
WithTail(ctx, tail) ==
  LET flushed == IF ctx.idx = BlockBytes THEN [Compressed(ctx, FALSE) EXCEPT !.idx = 0] ELSE ctx
      zeroed == IF flushed.idx = 0 THEN [flushed EXCEPT !.input = Zeros(BlockBytes)] ELSE flushed
      words == Whole(Len(tail), WordBytes)
      begun == [Loaded([zeroed EXCEPT !.idx = 0], Start(tail, words)) EXCEPT !.idx = zeroed.idx + words]
  IN  Ored(begun, After(tail, words))

\* All whole blocks that a piece has left, one after the other.
WithBlocks(ctx, blocks) ==
  LET with[n \in 0..Len(blocks)] == IF n = 0 THEN ctx ELSE WithBlock(with[n-1], blocks[n])
  IN  with[Len(blocks)]

Updated(ctx, piece) ==
  LET toWord == ToWord(ctx, Len(piece))
      aligned == Ored(ctx, Start(piece, toWord))
      toBlock == ToBlock(aligned, Len(piece) - toWord)
      filled == Loaded(aligned, SubSeq(piece, toWord + 1, toWord + toBlock))
      more == After(piece, toWord + toBlock)
      blocks == [i \in 1..Len(more) \div BlockBytes |->
                   SubSeq(more, (i - 1) * BlockBytes + 1, i * BlockBytes)]
      tail == After(more, Whole(Len(more), BlockBytes))
      before == WithBlocks(filled, blocks)
  IN  IF tail = <<>> THEN before ELSE WithTail(before, tail)

\* passgen_blake2b_final
Final(ctx) == Compressed(ctx, TRUE).hash

-----------------------------------------------------------------------------
(***************************************************************************)
(* extended_hash, which makes a digest of any size from hashes of 64 bytes *)
(* each of which is the hash of the one before it and stays with its first *)
(* half, save the last.  A span is what one of them writes, and the hash   *)
(* it is made from.                                                        *)
(***************************************************************************)
HashBytes == 64

Half == HashBytes \div 2

Span(out, length, in) == [out |-> out, length |-> length, in |-> in]

Spans(size) ==
  LET r == ((size + Half - 1) \div Half) - 2 IN
  <<Span(0, Min({size, HashBytes}), 0)>>
    \o (IF size <= HashBytes THEN <<>>
        ELSE [i \in 1..r-1 |-> Span(Half * i, HashBytes, Half * (i - 1))]
               \o <<Span(Half * r, size - Half * r, Half * (r - 1))>>)

-----------------------------------------------------------------------------
\* The bytes 1..n of a message, cut into blocks of which the last one is filled up with
\* zeros; an empty message is one block of zeros.
Cut(n) ==
  LET last == IF n = 0 THEN 1 ELSE (n + BlockBytes - 1) \div BlockBytes
      Ends(b) == Min({b * BlockBytes, n})
  IN  [b \in 1..last |->
         [block |-> [i \in 1..BlockBytes |->
                       IF (b - 1) * BlockBytes + i <= n THEN (b - 1) * BlockBytes + i ELSE 0],
          offset |-> <<Ends(b) % OffsetMax, Ends(b) \div OffsetMax>>,
          last |-> b = last]]
=============================================================================
