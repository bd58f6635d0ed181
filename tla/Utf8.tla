-------------------------------- MODULE Utf8 --------------------------------
(***************************************************************************)
(* src/util/utf8.c: the automaton that decodes UTF-8, the calls of         *)
(* passgen_utf8_decode in which passgen_parse drives it over a string, a   *)
(* bounded number of codepoints at a time, and passgen_utf8_encode, which  *)
(* encodes what was decoded, or any other codepoints.                      *)
(***************************************************************************)
EXTENDS Integers, Sequences

CONSTANTS
  Bytes,        \* the bytes that inputs are made of
  MaxBytes,     \* bound: how long inputs are
  Rooms,        \* values of output_len: how many codepoints one call decodes
  Texts,        \* codepoints to encode, besides those that were decoded
  OutLens,      \* values of out_len: sizes of the buffer that is encoded into
  SizeMax       \* size_t holds 0..SizeMax-1

ASSUME BytesAssumption == Bytes \subseteq 0..255
ASSUME RoomsAssumption == Rooms \subseteq Nat \ {0}
ASSUME LengthsAssumption ==
  /\ MaxBytes \in Nat /\ SizeMax \in Nat
  /\ OutLens \subseteq 0..SizeMax-1 /\ Texts \subseteq Seq(Nat)

VARIABLES
  result,       \* "decoding", "invalid", "decoded", "encoding", then what encode returns
  input,        \* the bytes that were read, in all calls
  room,         \* codepoints that still fit into the output of this call
  capacity,     \* output_len
  state,        \* of the automaton
  codepoint,    \* its accumulator
  width,        \* codepoint_width: bytes of an unfinished codepoint
  output,       \* the codepoints decoded, in all calls
  widths,       \* output_widths: the bytes each of them took
  text, inPos,  \* what is encoded, and how much of it was
  outLen, out   \* size of the buffer, and the bytes written to it

decoder == <<input, room, capacity, state, codepoint, width, output, widths>>
encoder == <<text, inPos, outLen, out>>
vars == <<result, decoder, encoder>>

-----------------------------------------------------------------------------
Accept == 0
Reject == 1

\* The first part of utf8d: the bytes of every class, from 0 on.
Classes ==
  <<0..127, 128..143, 194..223, 225..239 \ {237}, {237}, {244}, 241..243, 160..191,
    {192, 193} \union 245..255, 144..159, {224}, {240}>>

Class == [byte \in 0..255 |-> CHOOSE c \in 0..11 : byte \in Classes[c + 1]]

\* The second part of utf8d: what follows the first byte of a codepoint.
First == <<Accept, Reject, 2, 3, 5, 8, 7, Reject, Reject, Reject, 4, 6>>

\* For the states within a codepoint, from 2 on: the classes they go on with, and where to.
Goes == <<{1, 7, 9}, {1, 7, 9}, {7}, {1, 9}, {7, 9}, {1, 7, 9}, {1}>>
To == <<Accept, 2, 2, 2, 3, 3, 3>>

After(s, class) ==
  IF s = Accept THEN First[class + 1] ELSE IF class \in Goes[s - 1] THEN To[s - 1] ELSE Reject

\* (0xff >> type) & byte
LeadBits(byte) == byte % <<256, 128, 64, 32, 16, 8, 4, 2, 1, 1, 1, 1>>[Class[byte] + 1]

\* Mutant: the two high bits of a byte are not masked.
WithByteWide(byte) ==
  IF state = Accept THEN LeadBits(byte) ELSE 64 * codepoint + byte

\* utf8_decode: the accumulator after another byte.
WithByte(byte) == IF state = Accept THEN LeadBits(byte) ELSE 64 * codepoint + (byte % 64)

\* passgen_utf8_encode_codepoint; no bytes stand for PASSGEN_UTF8_INVALID_CHAR.
Encode(c) ==
  IF c <= 127 THEN <<c>>
  ELSE IF c <= 2047 THEN <<192 + (c \div 64), 128 + (c % 64)>>
  ELSE IF c <= 65535 THEN <<224 + (c \div 4096), 128 + ((c \div 64) % 64), 128 + (c % 64)>>
  ELSE IF c <= 1114111 THEN <<240 + (c \div 262144), 128 + ((c \div 4096) % 64),
                              128 + ((c \div 64) % 64), 128 + (c % 64)>>
  ELSE <<>>

-----------------------------------------------------------------------------
Init ==
  /\ result = "decoding"
  /\ capacity \in Rooms /\ room = capacity
  /\ input = <<>> /\ output = <<>> /\ widths = <<>>
  /\ state = Accept /\ codepoint = 0 /\ width = 0
  /\ text = <<>> /\ inPos = 0 /\ outLen = 0 /\ out = <<>>

\* A byte of this call.
Read(byte) ==
  /\ result = "decoding" /\ room > 0 /\ Len(input) < MaxBytes
  /\ input' = Append(input, byte)
  /\ state' = After(state, Class[byte])
  /\ UNCHANGED <<capacity, encoder>>

\* It finishes a codepoint,
Finish(byte) ==
  /\ Read(byte) /\ state' = Accept
  /\ output' = Append(output, WithByte(byte))
  /\ widths' = Append(widths, width + 1)
  /\ room' = room - 1
  /\ width' = 0 /\ codepoint' = 0
  /\ UNCHANGED result

\* or it does not,
GoOn(byte) ==
  /\ Read(byte) /\ state' \notin {Accept, Reject}
  /\ codepoint' = WithByte(byte)
  /\ width' = width + 1
  /\ UNCHANGED <<result, room, output, widths>>

\* or it cannot be there: an error, and the callers' pointers stay.
Refuse(byte) ==
  /\ Read(byte) /\ state' = Reject
  /\ codepoint' = WithByte(byte)
  /\ result' = "invalid"
  /\ UNCHANGED <<room, width, output, widths>>

\* The output is full and there is more input: passgen_parse calls again, and the
\* automaton starts over.
CallAgain ==
  /\ result = "decoding" /\ room = 0 /\ Len(input) < MaxBytes
  /\ room' = capacity
  /\ state' = Accept /\ codepoint' = 0 /\ width' = 0
  /\ UNCHANGED <<result, input, capacity, output, widths, encoder>>

\* The input ends here.  That is a success, in whichever state the automaton is.
EndOfInput ==
  /\ result = "decoding"
  /\ result' = "decoded"
  /\ UNCHANGED <<decoder, encoder>>

\* passgen_utf8_encode is called with a buffer.
StartEncode ==
  /\ result = "decoded"
  /\ text' \in Texts \union {output}
  /\ outLen' \in OutLens
  /\ result' = "encoding"
  /\ UNCHANGED <<decoder, inPos, out>>

\* Mutant: room for three bytes is taken to be enough.
LimitThree == (outLen - 3) % SizeMax

\* out_len - 4, a size_t.
Limit == (outLen - 4) % SizeMax

\* The condition of the loop.
EncodesMore == result = "encoding" /\ inPos < Len(text) /\ Len(out) < Limit

EncodeNext ==
  /\ EncodesMore
  /\ LET bytes == Encode(text[inPos + 1]) IN
     IF bytes = <<>>
       THEN result' = "invalid_char" /\ UNCHANGED <<inPos, out>>
       ELSE inPos' = inPos + 1 /\ out' = out \o bytes /\ UNCHANGED result
  /\ UNCHANGED <<decoder, text, outLen>>

\* After the loop; the bytes are terminated if there is room.
EncodeReturn ==
  /\ result = "encoding" /\ ~EncodesMore
  /\ result' = IF inPos # Len(text) THEN "output_size" ELSE "encoded"
  /\ UNCHANGED <<decoder, encoder>>

Next ==
  \/ \E byte \in Bytes : Finish(byte) \/ GoOn(byte) \/ Refuse(byte)
  \/ CallAgain \/ EndOfInput
  \/ StartEncode \/ EncodeNext \/ EncodeReturn

Spec == Init /\ [][Next]_vars

-----------------------------------------------------------------------------
TypeOK ==
  /\ result \in {"decoding", "invalid", "decoded", "encoding", "invalid_char",
                 "output_size", "encoded"}
  /\ input \in Seq(Bytes) /\ output \in Seq(Nat) /\ widths \in Seq(Nat)
  /\ capacity \in Rooms /\ room \in Nat
  /\ state \in 0..8 /\ codepoint \in Nat /\ width \in Nat
  /\ text \in Seq(Nat) /\ inPos \in Nat /\ outLen \in Nat /\ out \in Seq(Nat)

\* Codepoints that UTF-8 encodes: no surrogates, and none above U+10FFFF.
IsScalar(c) == c \in Nat /\ c <= 1114111 /\ ~(55296 <= c /\ c <= 57343)

\* The byte sequences the Unicode Standard calls well-formed (its table 3-7), each
\* a sequence of sets of bytes.
Trail == 128..191
WellFormed ==
  {<<0..127>>, <<194..223, Trail>>,
   <<{224}, 160..191, Trail>>, <<(225..239) \ {237}, Trail, Trail>>, <<{237}, 128..159, Trail>>,
   <<{240}, 144..191, Trail, Trail>>, <<241..243, Trail, Trail, Trail>>,
   <<{244}, 128..143, Trail, Trail>>}

Starts(bytes, row) == Len(bytes) <= Len(row) /\ \A i \in 1..Len(bytes) : bytes[i] \in row[i]

\* The bytes read since the last codepoint was finished.
Unfinished == SubSeq(input, Len(input) - width + 1, Len(input))

EncodeAll(cs) ==
  LET all[n \in 0..Len(cs)] == IF n = 0 THEN <<>> ELSE all[n-1] \o Encode(cs[n])
  IN  all[Len(cs)]

\* However the string is cut into calls, the codepoints decoded are the ones whose
\* encodings were read, one after the other, and the widths are the lengths of the
\* encodings, from which passgen_parse computes the places of errors; nothing is
\* lost but an unfinished codepoint at the very end.
DecodesEncoded ==
  /\ Len(widths) = Len(output)
  /\ \A i \in 1..Len(output) : widths[i] = Len(Encode(output[i]))
  /\ result # "invalid" => input = EncodeAll(output) \o Unfinished

\* Input is refused at the first byte after which it can no longer be well-formed,
\* and at no other.
RefusesIllFormed ==
  IF result = "invalid"
    THEN LET bytes == SubSeq(input, Len(input) - width, Len(input)) IN
         \A row \in WellFormed : ~Starts(bytes, row)
    ELSE width > 0 => \E row \in WellFormed : Starts(Unfinished, row) /\ width < Len(row)

\* Decoding is right: it takes what is well-formed for what it encodes, and nothing else.
DecodesExactly == DecodesEncoded /\ RefusesIllFormed

\* What the rest of the program is given are codepoints that UTF-8 encodes, which
\* the encoder never refuses.
OnlyScalars == \A i \in 1..Len(output) : IsScalar(output[i])

\* If the size of the buffer is at least 4, as its condition presupposes, the encoder never
\* writes past it and there is room for the byte that terminates the string; it says that
\* the buffer is too small only if less than five bytes of it are left.
WithinBuffer ==
  outLen >= 4 =>
    /\ Len(out) < outLen
    /\ result = "output_size" => Len(out) >= outLen - 4

\* And what it wrote when it succeeds are the encodings of the whole text.
EncodesWithin ==
  /\ WithinBuffer
  /\ outLen >= 4 /\ result = "encoded" => out = EncodeAll(text)
=============================================================================
