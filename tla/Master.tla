------------------------------- MODULE Master -------------------------------
(***************************************************************************)
(* Master-passphrase mode: passgen_random_chacha20_argon2_open hashes the  *)
(* passphrase, the domain and the token with Blake2b, fills the work area  *)
(* of Argon2 from that, takes a key from its last block, and opens the key *)
(* stream, from which passgen_random fills its buffer at once.             *)
(*                                                                         *)
(* The three work one after the other and wipe what they leave: a module   *)
(* of its own describes each.                                              *)
(***************************************************************************)
EXTENDS Blake2b, Argon2, KeyStream

CONSTANTS
  Passphrases, Domains, Tokens,   \* the sizes of the strings
  BufSize       \* sizeof(random->buffer)

ASSUME StringsAssumption == Passphrases \union Domains \union Tokens \subseteq Nat
ASSUME BufSizeAssumption == BufSize \in Sizes

VARIABLES
  phase,        \* "hashing", "filling" or "streaming"
  todo,         \* sizes of the pieces that are still to be hashed
  ctx, count,   \* the hash, and how many bytes went into it
  digest        \* the spans of the last extended_hash, and the size it was to have

hashing == <<todo, ctx, count>>
vars == <<phase, hashing, digest, fillVars, keyVars>>

-----------------------------------------------------------------------------
BlockArea == 1024     \* bytes of a block of Argon2
KeySize == 32         \* CHACHA20_KEY_SIZE
Salt == 7             \* strlen("passgen")

\* Six words, and four strings with their lengths.
Arguments(passphrase, domain, token) ==
  <<4, 4, 4, 4, 4, 4, 4, passphrase, 4, Salt, 4, domain, 4, token>>

Init ==
  /\ phase = "hashing"
  /\ \E p \in Passphrases, d \in Domains, t \in Tokens : todo = Arguments(p, d, t)
  /\ ctx = Fresh /\ count = 0
  /\ digest = [spans |-> <<>>, size |-> 0]
  /\ FillInit
  /\ KeyInit

\* blake_update_32, passgen_blake2b_update
Absorb ==
  /\ phase = "hashing" /\ todo # <<>>
  /\ ctx' = Updated(ctx, [i \in 1..Head(todo) |-> count + i])
  /\ count' = count + Head(todo)
  /\ todo' = Tail(todo)
  /\ UNCHANGED <<phase, digest, fillVars, keyVars>>

\* passgen_blake2b_final wipes the context; the first blocks are made from the hash.
FinishHash ==
  /\ phase = "hashing" /\ todo = <<>>
  /\ phase' = "filling"
  /\ ctx' = Fresh /\ count' = 0
  /\ digest' = [spans |-> Spans(BlockArea), size |-> BlockArea]
  /\ FillFirst
  /\ UNCHANGED <<todo, keyVars>>

FillStep ==
  /\ phase = "filling"
  /\ FillBlock \/ NextSegment \/ NextSlice
  /\ UNCHANGED <<phase, hashing, digest, keyVars>>

\* The key is taken from the last blocks, and passgen_random_chacha20_open reads ahead.
Open ==
  /\ phase = "filling" /\ stage = "filled"
  /\ phase' = "streaming"
  /\ digest' = [spans |-> Spans(KeySize), size |-> KeySize]
  /\ Read(BufSize)
  /\ UNCHANGED <<hashing, fillVars>>

StreamStep ==
  /\ phase = "streaming"
  /\ KeyNext
  /\ UNCHANGED <<phase, hashing, digest, fillVars>>

Next == Absorb \/ FinishHash \/ FillStep \/ Open \/ StreamStep

Spec == Init /\ [][Next]_vars

-----------------------------------------------------------------------------
\* However its pieces cut the message, the hash is that of its bytes: at any time, if it
\* ended now, the message so far would have gone in block by block, the offsets counting
\* its bytes, and the last block, which is empty only if the message is, filled up with
\* zeros (passgen_blake2b_update, _final).
AbsorbsInput == phase = "hashing" => Final(ctx) = Cut(count)

\* Every byte of a digest is written, none behind its end, and every hash is made from one
\* that was complete, of which a half is then overwritten at most (extended_hash).
DigestWhole ==
  LET Covers(s) == s.out..s.out + s.length - 1
      spans == digest.spans
  IN
  /\ UNION {Covers(spans[i]) : i \in 1..Len(spans)} = 0..digest.size-1
  /\ \A i \in 2..Len(spans) :
       /\ spans[i].length \in 1..HashBytes
       /\ spans[i].in = spans[i-1].out /\ spans[i-1].length = HashBytes
       /\ spans[i].out = spans[i].in + Half

\* The hashes are those of all their input, and as long as they are to be.
HashesWhole == AbsorbsInput /\ DigestWhole
=============================================================================
