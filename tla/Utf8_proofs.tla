----------------------------- MODULE Utf8_proofs -----------------------------
(***************************************************************************)
(* Proofs about Utf8: whatever the bytes and however they are cut into     *)
(* calls, the codepoints that are decoded are the ones whose encodings     *)
(* were read, input is refused exactly where it can no longer be           *)
(* well-formed, and the encoder writes the encodings of the whole text     *)
(* within its buffer.  The invariants say which prefixes of codepoints the *)
(* accumulator may hold in each state of the automaton, and that the bytes *)
(* of the unfinished codepoint can be read off it.                         *)
(***************************************************************************)
EXTENDS Utf8, SequenceTheorems, WellFoundedInduction, TLAPS

\* Codepoints less their last six bits, twelve bits or eighteen bits.
Prefixes6 == {c \in Nat : (2 <= c /\ c <= 863) \/ (896 <= c /\ c <= 17407)}
Prefixes12 == {c \in Nat : (1 <= c /\ c <= 12) \/ (14 <= c /\ c <= 271)}

Reaches(s, c) ==
  \/ s = 0
  \/ s = 2 /\ c \in Prefixes6
  \/ s = 3 /\ c \in Prefixes12
  \/ s \in {4, 6} /\ c = 0
  \/ s = 5 /\ c = 13
  \/ s = 7 /\ c \in 1..3
  \/ s = 8 /\ c = 4

\* Prefixes are numbers.
LEMMA PrefixNat ==
  ASSUME NEW s, s # Accept, NEW c, Reaches(s, c)
  PROVE  c \in Nat
<1>1. c \in Prefixes6 => c \in Nat
  BY DEF Prefixes6
<1>2. c \in Prefixes12 => c \in Nat
  BY DEF Prefixes12
<1>3. QED
  BY <1>1, <1>2 DEF Reaches, Accept

\* Every byte has a class.
LEMMA ClassShape ==
  ASSUME NEW byte \in 0..255
  PROVE  Class[byte] \in 0..11 /\ byte \in Classes[Class[byte] + 1]
<1>1. \E c \in 0..11 : byte \in Classes[c + 1]
  <2>1. \/ byte \in Classes[0 + 1] \/ byte \in Classes[1 + 1] \/ byte \in Classes[2 + 1]
        \/ byte \in Classes[3 + 1] \/ byte \in Classes[4 + 1] \/ byte \in Classes[5 + 1]
        \/ byte \in Classes[6 + 1] \/ byte \in Classes[7 + 1] \/ byte \in Classes[8 + 1]
        \/ byte \in Classes[9 + 1] \/ byte \in Classes[10 + 1] \/ byte \in Classes[11 + 1]
    BY DEF Classes
  <2>2. QED
    BY <2>1
<1>2. Class[byte] = CHOOSE c \in 0..11 : byte \in Classes[c + 1]
  BY DEF Class
<1>3. QED
  BY <1>1, <1>2

\* The classes of which not every byte can follow,
LEMMA ClassSeven ==
  ASSUME NEW byte \in 0..255, Class[byte] = 7
  PROVE  byte \in 160..191
<1>1. byte \in Classes[7 + 1]
  BY ClassShape
<1> QED
  BY <1>1 DEF Classes

LEMMA ClassNine ==
  ASSUME NEW byte \in 0..255, Class[byte] = 9
  PROVE  byte \in 144..159
<1>1. byte \in Classes[9 + 1]
  BY ClassShape
<1> QED
  BY <1>1 DEF Classes

LEMMA Widened ==
  ASSUME NEW c \in Prefixes12, NEW low \in 0..63
  PROVE  64 * c + low \in Prefixes6
BY DEF Prefixes6, Prefixes12

LEMMA ThirdMask == <<256, 128, 64, 32, 16, 8, 4, 2, 1, 1, 1, 1>>[3] = 64
OBVIOUS

\* What the first byte of a codepoint leads to.
LEMMA FirstByte ==
  ASSUME NEW byte \in 0..255, NEW s, s = After(Accept, Class[byte]), s # Reject
  PROVE  s \in 0..8 /\ IF s = Accept THEN IsScalar(LeadBits(byte)) ELSE Reaches(s, LeadBits(byte))
<1> DEFINE class == Class[byte]
<1>1. class \in 0..11 /\ byte \in Classes[class + 1]
  BY ClassShape
<1>2. s = First[class + 1]
  BY DEF After, Accept
<1>3. LeadBits(byte) = byte % <<256, 128, 64, 32, 16, 8, 4, 2, 1, 1, 1, 1>>[class + 1]
  BY DEF LeadBits
<1> HIDE DEF class
<1>4. class \in {0, 2, 3, 4, 5, 6, 10, 11}
  BY <1>1, <1>2 DEF First, Reject
<1>5. CASE class = 0
  <2>1. s = Accept /\ byte \in 0..127
    BY <1>1, <1>2, <1>5 DEF First, Classes
  <2>2. LeadBits(byte) = byte
    BY <1>3, <1>5, <2>1
  <2>3. QED
    BY <2>1, <2>2 DEF Accept, IsScalar
<1>6. CASE class = 2
  <2>1. s = 2 /\ byte \in 194..223
    <3>1. byte \in Classes[2 + 1] /\ s = First[2 + 1]
      BY <1>1, <1>2, <1>6
    <3> QED
      BY <3>1 DEF First, Classes
  <2>2. LeadBits(byte) = byte % 64
    <3>1. class + 1 = 3
      BY <1>6
    <3> QED
      BY <1>3, <3>1, ThirdMask, Zenon
  <2>3. s # Accept /\ byte % 64 \in Prefixes6
    BY <2>1 DEF Accept, Prefixes6
  <2> QED
    BY <2>1, <2>2, <2>3 DEF Reaches
<1>7. CASE class = 3
  BY <1>1, <1>2, <1>3, <1>7 DEF First, Classes, Accept, Reaches, Prefixes12
<1>8. CASE class \in {4, 5, 6}
  BY <1>1, <1>2, <1>3, <1>8 DEF First, Classes, Accept, Reaches
<1>9. CASE class \in {10, 11}
  BY <1>1, <1>2, <1>3, <1>9 DEF First, Classes, Accept, Reaches
<1>10. QED
  BY <1>4, <1>5, <1>6, <1>7, <1>8, <1>9

\* The last six bits make a scalar value of such a prefix.
LEMMA LastBits ==
  ASSUME NEW c \in Prefixes6, NEW low \in 0..63
  PROVE  IsScalar(64 * c + low)
<1>1. c \in Nat /\ c <= 17407 /\ (c <= 863 \/ c >= 896)
  BY DEF Prefixes6
<1>2. 64 * c + low \in Nat /\ 64 * c + low <= 1114111
  BY <1>1
<1>3. c <= 863 => ~(55296 <= 64 * c + low)
  BY <1>1
<1>4. c >= 896 => ~(64 * c + low <= 57343)
  BY <1>1
<1>5. QED
  BY <1>1, <1>2, <1>3, <1>4 DEF IsScalar

\* What a later one leads to.
LEMMA LaterByte ==
  ASSUME NEW byte \in 0..255, NEW before \in 2..8, NEW c \in Nat, Reaches(before, c),
         NEW s, s = After(before, Class[byte]), s # Reject
  PROVE  /\ s \in 0..8
         /\ IF s = Accept THEN IsScalar(64 * c + (byte % 64)) ELSE Reaches(s, 64 * c + (byte % 64))
<1> DEFINE class == Class[byte]
           low == byte % 64
<1>1. class \in 0..11 /\ byte \in Classes[class + 1]
  BY ClassShape
<1>2. class \in Goes[before - 1] /\ s = To[before - 1]
  BY DEF After, Accept, Reject
<1> HIDE DEF class
<1>3. low \in 0..63
  OBVIOUS
<1>4. /\ class = 1 => low \in 0..15
      /\ class = 9 => low \in 16..31
      /\ class = 7 => low \in 32..63
  <2>1. class = 1 => byte \in 128..143
    BY <1>1 DEF Classes
  <2>2. class = 9 => byte \in 144..159
    BY <1>1 DEF Classes
  <2>3. class = 7 => byte \in 160..191
    BY <1>1 DEF Classes
  <2>4. QED
    BY <2>1, <2>2, <2>3
<1> SUFFICES /\ s \in 0..8
             /\ IF s = Accept THEN IsScalar(64 * c + low) ELSE Reaches(s, 64 * c + low)
  OBVIOUS
<1> HIDE DEF low
<1>5. CASE before = 2
  <2>1. s = Accept /\ c \in Prefixes6
    BY <1>2, <1>5 DEF To, Reaches
  <2>2. IsScalar(64 * c + low)
    BY <1>3, <2>1, LastBits
  <2>3. QED
    BY <2>1, <2>2 DEF Accept
<1>6. CASE before = 3
  <2>1. s = 2 /\ c \in Prefixes12
    BY <1>2, <1>6 DEF To, Accept, Reaches
  <2>2. 64 * c + low \in Prefixes6
    BY <1>3, <2>1, Widened
  <2>3. QED
    BY <2>1, <2>2 DEF Accept, Reaches
<1>7. CASE before = 4
  <2>1. s = 2 /\ c = 0 /\ class = 7
    BY <1>2, <1>7 DEF To, Goes, Accept, Reaches
  <2>2. 64 * c + low \in Prefixes6
    BY <1>3, <1>4, <2>1 DEF Prefixes6
  <2>3. QED
    BY <2>1, <2>2 DEF Accept, Reaches
<1>8. CASE before = 5
  <2>1. s = 2 /\ c = 13 /\ class \in {1, 9}
    BY <1>2, <1>8 DEF To, Goes, Accept, Reaches
  <2>2. 64 * c + low \in Prefixes6
    BY <1>3, <1>4, <2>1, SMTT(30) DEF Prefixes6
  <2>3. QED
    BY <2>1, <2>2 DEF Accept, Reaches
<1>9. CASE before = 6
  <2>1. s = 3 /\ c = 0 /\ class \in {7, 9}
    BY <1>2, <1>9 DEF To, Goes, Accept, Reaches
  <2>2. 64 * c + low \in Prefixes12
    BY <1>3, <1>4, <2>1 DEF Prefixes12
  <2>3. QED
    BY <2>1, <2>2 DEF Accept, Reaches
<1>10. CASE before = 7
  <2>1. s = 3 /\ c \in 1..3
    BY <1>2, <1>10 DEF To, Accept, Reaches
  <2>2. 64 * c + low \in Prefixes12
    BY <1>3, <2>1 DEF Prefixes12
  <2>3. QED
    BY <2>1, <2>2 DEF Accept, Reaches
<1>11. CASE before = 8
  <2>1. s = 3 /\ c = 4 /\ class = 1
    BY <1>2, <1>11 DEF To, Goes, Accept, Reaches
  <2>2. 64 * c + low \in Prefixes12
    BY <1>3, <1>4, <2>1 DEF Prefixes12
  <2>3. QED
    BY <2>1, <2>2 DEF Accept, Reaches
<1>12. QED
  BY <1>5, <1>6, <1>7, <1>8, <1>9, <1>10, <1>11

-----------------------------------------------------------------------------
\* While it decodes, the accumulator holds a prefix that the state allows.
DInv ==
  /\ result = "decoding" =>
       state \in 0..8 \ {Reject} /\ codepoint \in Nat /\ Reaches(state, codepoint)
  /\ output \in Seq(Nat)
  /\ OnlyScalars

\* A byte that is not refused goes on with a prefix or finishes a codepoint.
LEMMA ByteSound ==
  ASSUME DInv, NEW byte \in Bytes, Read(byte), state' # Reject
  PROVE  /\ state' \in 0..8
         /\ IF state' = Accept THEN IsScalar(WithByte(byte)) ELSE Reaches(state', WithByte(byte))
<1>1. byte \in 0..255
  BY BytesAssumption
<1>2. /\ result = "decoding" /\ state' = After(state, Class[byte])
      /\ state \in 0..8 \ {Reject} /\ codepoint \in Nat /\ Reaches(state, codepoint)
  BY DEF Read, DInv
<1>3. CASE state = Accept
  BY <1>1, <1>2, <1>3, FirstByte DEF WithByte
<1>4. CASE state # Accept
  <2>1. state \in 2..8
    BY <1>2, <1>4 DEF Accept, Reject
  <2>2. QED
    BY <1>1, <1>2, <1>4, <2>1, LaterByte DEF WithByte
<1>5. QED
  BY <1>3, <1>4

LEMMA DecoderStep == DInv /\ [Next]_vars => DInv'
<1> SUFFICES ASSUME DInv, [Next]_vars PROVE DInv'
  OBVIOUS
<1>1. ASSUME NEW byte \in Bytes, Finish(byte) PROVE DInv'
  <2>1. /\ Read(byte) /\ state' = Accept /\ codepoint' = 0
        /\ output' = Append(output, WithByte(byte))
    BY <1>1 DEF Finish
  <2>2. IsScalar(WithByte(byte))
    BY <2>1, ByteSound DEF Accept, Reject
  <2>3. output \in Seq(Nat) /\ WithByte(byte) \in Nat
    BY <2>2 DEF DInv, IsScalar
  <2>4. /\ output' \in Seq(Nat) /\ Len(output') = Len(output) + 1
        /\ \A i \in 1..Len(output) : output'[i] = output[i]
        /\ output'[Len(output) + 1] = WithByte(byte)
    BY <2>1, <2>3
  <2>5. OnlyScalars'
    <3> SUFFICES ASSUME NEW i \in 1..Len(output') PROVE IsScalar(output'[i])
      BY DEF OnlyScalars
    <3>1. CASE i = Len(output) + 1
      BY <2>2, <2>4, <3>1
    <3>2. CASE i # Len(output) + 1
      <4>1. i \in 1..Len(output)
        BY <2>3, <2>4, <3>2
      <4>2. QED
        BY <2>4, <4>1 DEF DInv, OnlyScalars
    <3>3. QED
      BY <3>1, <3>2
  <2>6. QED
    BY <2>1, <2>4, <2>5 DEF DInv, Accept, Reject, Reaches
<1>2. ASSUME NEW byte \in Bytes, GoOn(byte) PROVE DInv'
  <2>1. /\ Read(byte) /\ state' # Accept /\ state' # Reject
        /\ codepoint' = WithByte(byte) /\ output' = output
    BY <1>2 DEF GoOn
  <2>2. state' \in 0..8 /\ Reaches(state', codepoint')
    BY <2>1, ByteSound
  <2>3. codepoint' \in Nat
    BY <2>1, <2>2, PrefixNat
  <2>4. QED
    BY <2>1, <2>2, <2>3 DEF DInv, OnlyScalars
<1>3. ASSUME NEW byte \in Bytes, Refuse(byte) PROVE DInv'
  BY <1>3 DEF Refuse, DInv, OnlyScalars
<1>4. CASE CallAgain
  BY <1>4 DEF CallAgain, DInv, OnlyScalars, Accept, Reject, Reaches
<1>5. CASE EndOfInput
  BY <1>5 DEF EndOfInput, decoder, DInv, OnlyScalars
<1>6. CASE StartEncode
  BY <1>6 DEF StartEncode, decoder, DInv, OnlyScalars
<1>7. CASE EncodeNext
  BY <1>7 DEF EncodeNext, EncodesMore, decoder, DInv, OnlyScalars
<1>8. CASE EncodeReturn
  BY <1>8 DEF EncodeReturn, decoder, DInv, OnlyScalars
<1>9. CASE UNCHANGED vars
  BY <1>9 DEF vars, decoder, DInv, OnlyScalars
<1>10. QED
  BY <1>1, <1>2, <1>3, <1>4, <1>5, <1>6, <1>7, <1>8, <1>9 DEF Next

LEMMA DecoderHolds == Spec => []DInv
<1>1. Init => DInv
  BY DEF Init, DInv, OnlyScalars, Accept, Reject, Reaches
<1>2. QED
  BY <1>1, DecoderStep, PTL DEF Spec

\* Whatever the bytes and however they are cut into calls, what passgen_utf8_decode puts
\* out are scalar values.
THEOREM DecodesScalars == Spec => []OnlyScalars
<1>1. DInv => OnlyScalars
  BY DEF DInv
<1>2. QED
  BY <1>1, DecoderHolds, PTL

-----------------------------------------------------------------------------
\* No encoding is longer than four bytes.
LEMMA EncodeShape ==
  ASSUME NEW c \in Nat
  PROVE  Encode(c) \in Seq(Nat) /\ Len(Encode(c)) <= 4
<1>1. /\ c \div 64 \in Nat /\ c \div 4096 \in Nat /\ c \div 262144 \in Nat
      /\ c % 64 \in Nat /\ (c \div 64) % 64 \in Nat /\ (c \div 4096) % 64 \in Nat
  OBVIOUS
<1>2. CASE c <= 127
  BY <1>2 DEF Encode
<1>3. CASE c > 127 /\ c <= 2047
  BY <1>1, <1>3 DEF Encode
<1>4. CASE c > 2047 /\ c <= 65535
  BY <1>1, <1>4 DEF Encode
<1>5. CASE c > 65535 /\ c <= 1114111
  BY <1>1, <1>5 DEF Encode
<1>6. CASE c > 1114111
  BY <1>6 DEF Encode
<1>7. QED
  BY <1>2, <1>3, <1>4, <1>5, <1>6

\* The text and what of it was encoded; nothing is written before.
EInv ==
  /\ out \in Seq(Nat) /\ text \in Seq(Nat)
  /\ inPos \in 0..Len(text) /\ outLen \in Nat /\ (outLen # 0 => outLen < SizeMax)
  /\ result \in {"decoding", "invalid", "decoded"} => out = <<>> /\ inPos = 0
  /\ WithinBuffer

\* The subtraction wraps for the buffers of less than four bytes only.
LEMMA LimitExact == EInv /\ outLen >= 4 => Limit = outLen - 4
<1>1. EInv => outLen \in Nat /\ SizeMax \in Nat /\ (outLen # 0 => outLen < SizeMax)
  BY LengthsAssumption DEF EInv
<1>2. QED
  BY <1>1 DEF Limit

LEMMA EncoderStep == DInv /\ EInv /\ [Next]_vars => EInv'
<1> SUFFICES ASSUME DInv, EInv, [Next]_vars PROVE EInv'
  OBVIOUS
<1>1. ASSUME UNCHANGED encoder, result = "decoding", result' \in {"decoding", "invalid", "decoded"}
      PROVE  EInv'
  BY <1>1 DEF encoder, EInv, WithinBuffer
<1>2. ASSUME NEW byte \in Bytes, Finish(byte) \/ GoOn(byte) \/ Refuse(byte) PROVE EInv'
  <2>1. UNCHANGED encoder /\ result = "decoding" /\ result' \in {"decoding", "invalid"}
    BY <1>2 DEF Finish, GoOn, Refuse, Read
  <2>2. QED
    BY <1>1, <2>1
<1>3. CASE CallAgain \/ EndOfInput
  BY <1>1, <1>3 DEF CallAgain, EndOfInput
<1>4. CASE StartEncode
  <2>1. /\ result = "decoded" /\ result' = "encoding"
        /\ text' \in Texts \union {output} /\ outLen' \in OutLens
        /\ inPos' = inPos /\ out' = out
    BY <1>4 DEF StartEncode
  <2>2. text' \in Seq(Nat) /\ outLen' \in 0..SizeMax-1 /\ SizeMax \in Nat
    BY <2>1, LengthsAssumption DEF DInv
  <2>3. out' = <<>> /\ inPos' = 0
    BY <2>1 DEF EInv
  <2>4. QED
    BY <2>1, <2>2, <2>3 DEF EInv, WithinBuffer
<1>5. CASE EncodeNext
  <2> DEFINE bytes == Encode(text[inPos + 1])
  <2>0. inPos < Len(text)
    BY <1>5 DEF EncodeNext, EncodesMore
  <2>1. /\ result = "encoding" /\ Len(out) < Limit
        /\ text' = text /\ outLen' = outLen
        /\ \/ result' = "invalid_char" /\ inPos' = inPos /\ out' = out
           \/ result' = "encoding" /\ inPos' = inPos + 1 /\ out' = out \o bytes
    BY <1>5 DEF EncodeNext, EncodesMore
  <2>2. bytes \in Seq(Nat) /\ Len(bytes) <= 4
    <3>1. inPos + 1 \in 1..Len(text) /\ text \in Seq(Nat)
      BY <2>0 DEF EInv
    <3>2. text[inPos + 1] \in Nat
      BY <3>1
    <3>3. QED
      BY <3>2, EncodeShape
  <2> HIDE DEF bytes
  <2>3. outLen >= 4 => Len(out) < outLen - 4
    BY <2>1, LimitExact
  <2>4. out \o bytes \in Seq(Nat) /\ Len(out \o bytes) = Len(out) + Len(bytes)
    BY <2>2 DEF EInv
  <2>5. CASE result' = "invalid_char" /\ inPos' = inPos /\ out' = out
    BY <2>0, <2>1, <2>5 DEF EInv, WithinBuffer
  <2>6. CASE result' = "encoding" /\ inPos' = inPos + 1 /\ out' = out \o bytes
    BY <2>0, <2>1, <2>2, <2>3, <2>4, <2>6 DEF EInv, WithinBuffer
  <2>7. QED
    BY <2>1, <2>5, <2>6
<1>6. CASE EncodeReturn
  <2>1. /\ result = "encoding" /\ result' \in {"output_size", "encoded"}
        /\ text' = text /\ inPos' = inPos /\ outLen' = outLen /\ out' = out
        /\ result' = "output_size" => inPos # Len(text)
    BY <1>6 DEF EncodeReturn, encoder
  <2>2. outLen >= 4 /\ result' = "output_size" => Len(out) >= outLen - 4
    <3>1. inPos \in 0..Len(text) /\ Len(text) \in Nat /\ Len(out) \in Nat /\ outLen \in Nat
      BY DEF EInv
    <3> SUFFICES ASSUME outLen >= 4, result' = "output_size" PROVE Len(out) >= outLen - 4
      OBVIOUS
    <3>2. inPos < Len(text)
      BY <2>1, <3>1
    <3>3. ~(Len(out) < Limit)
      BY <1>6, <2>1, <3>2 DEF EncodeReturn, EncodesMore
    <3>4. Limit = outLen - 4
      BY LimitExact
    <3>5. QED
      BY <3>1, <3>3, <3>4
  <2>3. QED
    BY <2>1, <2>2 DEF EInv, WithinBuffer
<1>7. CASE UNCHANGED vars
  BY <1>7 DEF vars, encoder, EInv, WithinBuffer
<1>8. QED
  BY <1>2, <1>3, <1>4, <1>5, <1>6, <1>7 DEF Next

\* For every text, every buffer of four bytes or more and every width of size_t, the
\* encoder stays in its buffer and gives up only near the end of it, though it computes
\* the room that is left in unsigned arithmetic.
THEOREM EncoderStaysInside == Spec => []WithinBuffer
<1>1. Init => EInv
  BY DEF Init, EInv, WithinBuffer
<1>2. DInv /\ EInv /\ [Next]_vars => EInv'
  BY EncoderStep
<1>3. EInv => WithinBuffer
  BY DEF EInv
<1>4. QED
  BY <1>1, <1>2, <1>3, DecoderHolds, PTL DEF Spec

-----------------------------------------------------------------------------
\* Induction, on the set of the numbers for which something holds.
LEMMA SetInduction ==
  ASSUME NEW S, 0 \in S, \A n \in Nat : n \in S => n + 1 \in S
  PROVE  \A n \in Nat : n \in S
<1> DEFINE T == {n \in Nat : n \notin S}
           R == OpToRel(<, Nat)
<1> SUFFICES ASSUME T # {} PROVE FALSE
  OBVIOUS
<1>1. IsWellFoundedOn(R, Nat)
  BY NatLessThanWellFounded
<1>2. \A i, j \in Nat : <<i, j>> \in R <=> i < j
  BY DEF OpToRel
<1> HIDE DEF R
<1>3. PICK x \in T : \A y \in T : <<y, x>> \notin R
  BY <1>1, WFMin, Zenon
<1>4. x \in Nat /\ x # 0 /\ x - 1 \in Nat
  OBVIOUS
<1>5. x - 1 \in T
  <2>1. (x - 1) + 1 = x
    BY <1>4
  <2> QED
    BY <1>4, <2>1
<1>6. <<x - 1, x>> \in R
  BY <1>2, <1>4
<1> QED
  BY <1>3, <1>5, <1>6

\* g starts at z, and step i takes it on by F[i].
Iterates(g, n, z, F) == g[0] = z /\ \A i \in 1..n : g[i] = F[i][g[i-1]]

\* A recursion over 1..n has a solution.
LEMMA Recursion ==
  ASSUME NEW X, NEW z \in X, NEW n \in Nat, NEW F \in [1..n -> [X -> X]]
  PROVE  \E g \in [0..n -> X] : Iterates(g, n, z, F)
<1> DEFINE Solves(g, m) == g[0] = z /\ \A i \in 1..m : g[i] = F[i][g[i-1]]
           S == {m \in Nat : m <= n => \E g \in [0..m -> X] : Solves(g, m)}
<1>1. 0 \in S
  <2>1. [i \in 0..0 |-> z] \in [0..0 -> X] /\ Solves([i \in 0..0 |-> z], 0)
    OBVIOUS
  <2> QED
    BY <2>1
<1>2. ASSUME NEW m \in Nat, m \in S
      PROVE  m + 1 \in S
  <2> SUFFICES ASSUME m + 1 <= n
               PROVE  \E g \in [0..m+1 -> X] : Solves(g, m + 1)
    OBVIOUS
  <2>1. PICK f \in [0..m -> X] : Solves(f, m)
    BY <1>2
  <2> DEFINE g == [i \in 0..m+1 |-> IF i <= m THEN f[i] ELSE F[m+1][f[m]]]
  <2>2. m + 1 \in 1..n /\ m \in 0..m
    OBVIOUS
  <2>3. F[m+1][f[m]] \in X
    BY <2>1, <2>2
  <2>4. g \in [0..m+1 -> X]
    BY <2>3
  <2>5. g[0] = z
    BY <2>1
  <2>6. ASSUME NEW i \in 1..m+1
        PROVE  g[i] = F[i][g[i-1]]
    <3>1. CASE i = m + 1
      BY <3>1
    <3>2. CASE i \in 1..m
      BY <2>1, <3>2
    <3> QED
      BY <3>1, <3>2
  <2> QED
    BY <2>4, <2>5, <2>6
<1> HIDE DEF S
<1>3. n \in S
  BY <1>1, <1>2, SetInduction
<1> QED
  BY <1>3 DEF S, Iterates

-----------------------------------------------------------------------------
(* The encodings of a text, one after the other.                           *)

\* EncodeAll is what a left-to-right concatenation comes to.
LEMMA EncodingsConcatenated ==
  ASSUME NEW cs \in Seq(Nat)
  PROVE  \E all \in [0..Len(cs) -> Seq(Nat)] :
           /\ all[0] = <<>> /\ EncodeAll(cs) = all[Len(cs)]
           /\ \A n \in 1..Len(cs) : all[n] = all[n-1] \o Encode(cs[n])
<1> DEFINE F == [n \in 1..Len(cs) |-> [x \in Seq(Nat) |-> x \o Encode(cs[n])]]
<1>1. Len(cs) \in Nat /\ \A n \in 1..Len(cs) : Encode(cs[n]) \in Seq(Nat)
  BY LenProperties, ElementOfSeq, EncodeShape
<1>2. F \in [1..Len(cs) -> [Seq(Nat) -> Seq(Nat)]]
  <2>1. \A n \in 1..Len(cs), x \in Seq(Nat) : x \o Encode(cs[n]) \in Seq(Nat)
    BY <1>1, ConcatProperties
  <2> QED
    BY <2>1
<1> HIDE DEF F
<1>3. PICK g \in [0..Len(cs) -> Seq(Nat)] : Iterates(g, Len(cs), <<>>, F)
  <2>1. <<>> \in Seq(Nat)
    BY EmptySeq
  <2> QED
    BY <1>1, <1>2, <2>1, Recursion
<1>4. g[0] = <<>> /\ \A n \in 1..Len(cs) : g[n] = g[n-1] \o Encode(cs[n])
  <2> SUFFICES ASSUME NEW n \in 1..Len(cs)
               PROVE  g[n] = g[n-1] \o Encode(cs[n])
    BY <1>3 DEF Iterates
  <2>1. g[n-1] \in Seq(Nat)
    <3>1. n - 1 \in 0..Len(cs)
      BY <1>1
    <3> QED
      BY <3>1
  <2>2. F[n][g[n-1]] = g[n-1] \o Encode(cs[n])
    BY <2>1 DEF F
  <2> QED
    BY <1>3, <2>2 DEF Iterates
<1> DEFINE Solves(f) ==
      f = [n \in 0..Len(cs) |-> IF n = 0 THEN <<>> ELSE f[n-1] \o Encode(cs[n])]
<1>5. Solves(g)
  <2>1. g = [n \in 0..Len(cs) |-> g[n]]
    OBVIOUS
  <2>2. \A n \in 0..Len(cs) : g[n] = IF n = 0 THEN <<>> ELSE g[n-1] \o Encode(cs[n])
    <3>1. \A n \in 0..Len(cs) : n # 0 => n \in 1..Len(cs)
      BY <1>1
    <3> QED
      BY <1>4, <3>1, Zenon
  <2> QED
    BY <2>1, <2>2, Zenon
<1> DEFINE all == CHOOSE f : Solves(f)
<1>6. Solves(all)
  BY <1>5, Zenon
<1>7. EncodeAll(cs) = all[Len(cs)]
  BY DEF EncodeAll
<1> HIDE DEF all
<1>8. all[Len(cs)] = g[Len(cs)]
  <2>1. all[0] = g[0] /\ \A n \in 1..Len(cs) : all[n] = all[n-1] \o Encode(cs[n])
    <3>1. \A n \in 1..Len(cs) : n \in 0..Len(cs) /\ n # 0
      BY <1>1
    <3>2. 0 \in 0..Len(cs)
      BY <1>1
    <3>3. \A n \in 0..Len(cs) : all[n] = IF n = 0 THEN <<>> ELSE all[n-1] \o Encode(cs[n])
      BY <1>6, Zenon
    <3> QED
      BY <1>4, <3>1, <3>2, <3>3, Zenon
  <2> DEFINE S == {n \in Nat : n <= Len(cs) => all[n] = g[n]}
  <2>2. 0 \in S
    BY <2>1
  <2>3. ASSUME NEW n \in Nat, n \in S
        PROVE  n + 1 \in S
    <3> SUFFICES ASSUME n + 1 <= Len(cs) PROVE all[n+1] = g[n+1]
      OBVIOUS
    <3>1. n + 1 \in 1..Len(cs) /\ (n + 1) - 1 = n /\ all[n] = g[n]
      BY <1>1, <2>3
    <3> QED
      BY <3>1, <2>1, <1>4
  <2> HIDE DEF S
  <2>4. \A n \in Nat : n \in S
    BY <2>2, <2>3, SetInduction
  <2> QED
    BY <1>1, <2>4 DEF S
<1> QED
  BY <1>4, <1>7, <1>8

LEMMA EncodeAllSeq ==
  ASSUME NEW cs \in Seq(Nat)
  PROVE  EncodeAll(cs) \in Seq(Nat) /\ (cs = <<>> => EncodeAll(cs) = <<>>)
<1>1. PICK all \in [0..Len(cs) -> Seq(Nat)] :
        /\ all[0] = <<>> /\ EncodeAll(cs) = all[Len(cs)]
        /\ \A n \in 1..Len(cs) : all[n] = all[n-1] \o Encode(cs[n])
  BY EncodingsConcatenated
<1>2. Len(cs) \in 0..Len(cs)
  BY LenProperties
<1>3. Len(<<>>) = 0
  BY EmptySeq
<1>4. cs = <<>> => Len(cs) = 0
  BY <1>3, Zenon
<1> QED
  BY <1>1, <1>2, <1>4

\* One more codepoint adds its encoding at the end.
LEMMA EncodeAllGrows ==
  ASSUME NEW cs \in Seq(Nat), NEW c \in Nat
  PROVE  EncodeAll(Append(cs, c)) = EncodeAll(cs) \o Encode(c)
<1> DEFINE t == Append(cs, c)
<1>1. /\ Len(cs) \in Nat /\ t \in Seq(Nat) /\ Len(t) = Len(cs) + 1
      /\ t[Len(cs) + 1] = c /\ \A n \in 1..Len(cs) : t[n] = cs[n]
  BY LenProperties, AppendProperties
<1> HIDE DEF t
<1>2. PICK v \in [0..Len(cs) -> Seq(Nat)] :
        /\ v[0] = <<>> /\ EncodeAll(cs) = v[Len(cs)]
        /\ \A n \in 1..Len(cs) : v[n] = v[n-1] \o Encode(cs[n])
  BY EncodingsConcatenated
<1>3. PICK w \in [0..Len(t) -> Seq(Nat)] :
        /\ w[0] = <<>> /\ EncodeAll(t) = w[Len(t)]
        /\ \A n \in 1..Len(t) : w[n] = w[n-1] \o Encode(t[n])
  BY <1>1, EncodingsConcatenated
<1>4. w[Len(cs)] = v[Len(cs)]
  <2> DEFINE S == {n \in Nat : n <= Len(cs) => w[n] = v[n]}
  <2>1. 0 \in S
    BY <1>2, <1>3
  <2>2. ASSUME NEW n \in Nat, n \in S
        PROVE  n + 1 \in S
    <3> SUFFICES ASSUME n + 1 <= Len(cs) PROVE w[n+1] = v[n+1]
      OBVIOUS
    <3>1. /\ n + 1 \in 1..Len(cs) /\ n + 1 \in 1..Len(t) /\ (n + 1) - 1 = n
          /\ w[n] = v[n] /\ t[n+1] = cs[n+1]
      BY <1>1, <2>2
    <3> QED
      BY <3>1, <1>2, <1>3
  <2> HIDE DEF S
  <2>3. \A n \in Nat : n \in S
    BY <2>1, <2>2, SetInduction
  <2>4. Len(cs) \in Nat /\ Len(cs) <= Len(cs) /\ Len(cs) \in S
    BY <1>1, <2>3
  <2> QED
    BY <2>4 DEF S
<1>5. w[Len(t)] = w[Len(cs)] \o Encode(c)
  <2>1. Len(t) \in 1..Len(t) /\ Len(t) - 1 = Len(cs) /\ t[Len(t)] = c
    BY <1>1
  <2> QED
    BY <1>3, <2>1
<1> QED
  BY <1>2, <1>3, <1>4, <1>5 DEF t

\* What was written are the encodings of what was read of the text.
Encoded ==
  /\ out = EncodeAll(SubSeq(text, 1, inPos))
  /\ result = "encoded" => inPos = Len(text)

LEMMA EncodedNone ==
  ASSUME NEW s
  PROVE  EncodeAll(SubSeq(s, 1, 0)) = <<>>
<1>1. SubSeq(s, 1, 0) = <<>>
  BY SubSeqEmpty
<1>2. <<>> \in Seq(Nat)
  BY EmptySeq
<1> QED
  BY <1>1, <1>2, EncodeAllSeq

LEMMA EncodedStep == EInv /\ DInv /\ Encoded /\ [Next]_vars => Encoded'
<1> SUFFICES ASSUME EInv, DInv, Encoded, [Next]_vars PROVE Encoded'
  OBVIOUS
<1>1. ASSUME UNCHANGED encoder, result' # "encoded" PROVE Encoded'
  BY <1>1 DEF encoder, Encoded
<1>2. ASSUME NEW byte \in Bytes, Finish(byte) \/ GoOn(byte) \/ Refuse(byte) PROVE Encoded'
  <2>1. UNCHANGED encoder /\ result' \in {"decoding", "invalid"}
    BY <1>2 DEF Finish, GoOn, Refuse, Read
  <2> QED
    BY <1>1, <2>1
<1>3. CASE CallAgain \/ EndOfInput
  <2>1. UNCHANGED encoder /\ result' \in {"decoding", "decoded"}
    BY <1>3 DEF CallAgain, EndOfInput
  <2> QED
    BY <1>1, <2>1
<1>4. CASE StartEncode
  <2>1. result' = "encoding" /\ out' = <<>> /\ inPos' = 0
    BY <1>4 DEF StartEncode, EInv
  <2> QED
    BY <2>1, EncodedNone DEF Encoded
<1>5. CASE EncodeNext
  <2> DEFINE bytes == Encode(text[inPos + 1])
             n == inPos + 1
  <2>1. /\ result = "encoding" /\ inPos < Len(text) /\ text' = text
        /\ \/ result' = "invalid_char" /\ inPos' = inPos /\ out' = out
           \/ result' = "encoding" /\ inPos' = inPos + 1 /\ out' = out \o bytes
    BY <1>5 DEF EncodeNext, EncodesMore
  <2>2. /\ text \in Seq(Nat) /\ Len(text) \in Nat /\ inPos \in Nat
        /\ 1 \in 1..Len(text) /\ n \in 1..Len(text) /\ n - 1 = inPos
    BY <2>1 DEF EInv
  <2>3. text[n] \in Nat
    BY <2>2
  <2>4. SubSeq(text, 1, inPos) \in Seq(Nat)
    <3>1. \A i \in 1..inPos : text[i] \in Nat
      BY <2>2
    <3> QED
      BY <2>2, <3>1, SubSeqProperties
  <2> HIDE DEF bytes, n
  <2>5. SubSeq(text, 1, n) = Append(SubSeq(text, 1, inPos), text[n])
    <3>1. SubSeq(text, 1, n) = SubSeq(text, 1, n - 1) \o <<text[n]>>
      BY <2>2, SubSeqRecursiveSecond
    <3>2. Append(SubSeq(text, 1, inPos), text[n]) = SubSeq(text, 1, inPos) \o <<text[n]>>
      BY <2>3, <2>4, AppendIsConcat
    <3> QED
      BY <2>2, <3>1, <3>2
  <2>6. EncodeAll(SubSeq(text, 1, n)) = EncodeAll(SubSeq(text, 1, inPos)) \o bytes
    BY <2>3, <2>4, <2>5, EncodeAllGrows DEF bytes, n
  <2> QED
    BY <2>1, <2>6 DEF Encoded, n
<1>6. CASE EncodeReturn
  <2>1. /\ UNCHANGED encoder /\ (result' = "encoded" => inPos = Len(text))
    BY <1>6 DEF EncodeReturn
  <2> QED
    BY <2>1 DEF encoder, Encoded
<1>7. CASE UNCHANGED vars
  BY <1>7 DEF vars, encoder, Encoded
<1> QED
  BY <1>2, <1>3, <1>4, <1>5, <1>6, <1>7 DEF Next

LEMMA EncoderHolds == Spec => [](EInv /\ Encoded)
<1>1. Init => EInv /\ Encoded
  BY EncodedNone DEF Init, EInv, WithinBuffer, Encoded
<1>2. DInv /\ EInv /\ Encoded /\ [Next]_vars => EInv' /\ Encoded'
  BY EncoderStep, EncodedStep
<1> QED
  BY <1>1, <1>2, DecoderHolds, PTL DEF Spec

\* For every text, every width of size_t and every buffer of at least four bytes (below that
\* the subtraction of utf8.c:139 wraps, and nothing is said): passgen_utf8_encode stays in
\* the buffer, and what it has written when it succeeds is the whole text, encoded.
THEOREM EncodesTheWholeText == Spec => []EncodesWithin
<1>1. EInv /\ Encoded => EncodesWithin
  <2> SUFFICES ASSUME EInv, Encoded PROVE EncodesWithin
    OBVIOUS
  <2>1. text \in Seq(Nat) /\ WithinBuffer
    BY DEF EInv
  <2>2. SubSeq(text, 1, Len(text)) = text
    BY <2>1, SubSeqFull
  <2> QED
    BY <2>1, <2>2 DEF Encoded, EncodesWithin
<1> QED
  BY <1>1, EncoderHolds, PTL

-----------------------------------------------------------------------------
(* The bytes of an unfinished codepoint can be read off the automaton and  *)
(* its accumulator.                                                        *)

Shift6(c) == c \div 64
Shift12(c) == c \div 4096
Shift18(c) == c \div 262144

\* The first byte of two, of three and of four, and a later one.
Lead2(c) == 192 + c
Lead3(c) == 224 + c
Lead4(c) == 240 + c
Tail6(c) == 128 + (c % 64)

Pending(s, c) ==
  IF s = Accept THEN <<>>
  ELSE IF s = 2
    THEN IF c <= 31 THEN <<Lead2(c)>>
         ELSE IF c <= 1023 THEN <<Lead3(Shift6(c)), Tail6(c)>>
         ELSE <<Lead4(Shift12(c)), Tail6(Shift6(c)), Tail6(c)>>
  ELSE IF s <= 5
    THEN IF c <= 15 THEN <<Lead3(c)>> ELSE <<Lead4(Shift6(c)), Tail6(c)>>
  ELSE <<Lead4(c)>>

\* The cases of Pending: how many bytes of how many were read.
LEMMA OneOfTwo == ASSUME NEW c \in Nat, c <= 31 PROVE Pending(2, c) = <<Lead2(c)>>
BY SMT DEF Pending, Accept

LEMMA TwoOfThree ==
  ASSUME NEW c \in Nat, 31 < c, c <= 1023
  PROVE  Pending(2, c) = <<Lead3(Shift6(c)), Tail6(c)>>
BY SMT DEF Pending, Accept

LEMMA ThreeOfFour ==
  ASSUME NEW c \in Nat, 1023 < c
  PROVE  Pending(2, c) = <<Lead4(Shift12(c)), Tail6(Shift6(c)), Tail6(c)>>
BY SMT DEF Pending, Accept

LEMMA OneOfThree ==
  ASSUME NEW c \in Nat, c <= 15, NEW s \in {3, 4, 5}
  PROVE  Pending(s, c) = <<Lead3(c)>>
BY SMT DEF Pending, Accept

LEMMA TwoOfFour ==
  ASSUME NEW c \in Nat, 15 < c, NEW s \in {3, 4, 5}
  PROVE  Pending(s, c) = <<Lead4(Shift6(c)), Tail6(c)>>
BY SMT DEF Pending, Accept

LEMMA OneOfFour ==
  ASSUME NEW c \in Nat, NEW s \in {6, 7, 8}
  PROVE  Pending(s, c) = <<Lead4(c)>>
BY SMT DEF Pending, Accept

LEMMA NonePending == ASSUME NEW c PROVE Pending(Accept, c) = <<>>
BY DEF Pending

\* And those of Encode.
LEMMA EncodeOne == ASSUME NEW d \in Nat, d <= 127 PROVE Encode(d) = <<d>>
BY SMT DEF Encode

LEMMA EncodeTwo ==
  ASSUME NEW d \in Nat, 127 < d, d <= 2047
  PROVE  Encode(d) = <<Lead2(Shift6(d)), Tail6(d)>>
BY SMT DEF Encode, Lead2, Shift6, Tail6

LEMMA EncodeThree ==
  ASSUME NEW d \in Nat, 2047 < d, d <= 65535
  PROVE  Encode(d) = <<Lead3(Shift12(d)), Tail6(Shift6(d)), Tail6(d)>>
BY SMT DEF Encode, Lead3, Shift6, Shift12, Tail6

LEMMA EncodeFour ==
  ASSUME NEW d \in Nat, 65535 < d, d <= 1114111
  PROVE  Encode(d) = <<Lead4(Shift18(d)), Tail6(Shift12(d)), Tail6(Shift6(d)), Tail6(d)>>
BY SMT DEF Encode, Lead4, Shift6, Shift12, Shift18, Tail6

LEMMA PiecesNat ==
  ASSUME NEW c \in Nat
  PROVE  /\ Shift6(c) \in Nat /\ Shift12(c) \in Nat /\ Tail6(c) \in Nat
         /\ Lead2(c) \in Nat /\ Lead3(c) \in Nat /\ Lead4(c) \in Nat
BY SMT DEF Shift6, Shift12, Tail6, Lead2, Lead3, Lead4

LEMMA LengthOne == ASSUME NEW x \in Nat PROVE <<x>> \in Seq(Nat) /\ Len(<<x>>) = 1
OBVIOUS

LEMMA LengthTwo ==
  ASSUME NEW x \in Nat, NEW y \in Nat
  PROVE  <<x, y>> \in Seq(Nat) /\ Len(<<x, y>>) = 2
OBVIOUS

LEMMA LengthThree ==
  ASSUME NEW x \in Nat, NEW y \in Nat, NEW z \in Nat
  PROVE  <<x, y, z>> \in Seq(Nat) /\ Len(<<x, y, z>>) = 3
OBVIOUS

LEMMA PendingCases ==
  ASSUME NEW s \in 0..8, s # Reject, NEW c \in Nat
  PROVE  \/ s = Accept
         \/ s = 2 /\ c <= 31
         \/ s = 2 /\ 31 < c /\ c <= 1023
         \/ s = 2 /\ 1023 < c
         \/ s \in {3, 4, 5} /\ c <= 15
         \/ s \in {3, 4, 5} /\ 15 < c
         \/ s \in {6, 7, 8}
BY SMT DEF Accept, Reject

LEMMA PendingShape ==
  ASSUME NEW s \in 0..8, s # Reject, NEW c \in Nat
  PROVE  Pending(s, c) \in Seq(Nat) /\ Len(Pending(s, c)) \in 0..3
<1>1. 0 \in 0..3 /\ 1 \in 0..3 /\ 2 \in 0..3 /\ 3 \in 0..3
  OBVIOUS
<1>2. <<>> \in Seq(Nat) /\ Len(<<>>) = 0
  BY EmptySeq
<1>3. CASE s = Accept
  BY <1>1, <1>2, <1>3, NonePending, Zenon
<1>4. CASE s = 2 /\ c <= 31
  <2>1. Pending(s, c) = <<Lead2(c)>>
    BY <1>4, OneOfTwo
  <2>2. Lead2(c) \in Nat
    BY PiecesNat
  <2> QED
    BY <1>1, <2>1, <2>2, LengthOne, Zenon
<1>5. CASE s = 2 /\ 31 < c /\ c <= 1023
  <2>1. Pending(s, c) = <<Lead3(Shift6(c)), Tail6(c)>>
    BY <1>5, TwoOfThree
  <2>2. Lead3(Shift6(c)) \in Nat /\ Tail6(c) \in Nat
    BY PiecesNat
  <2> QED
    BY <1>1, <2>1, <2>2, LengthTwo, Zenon
<1>6. CASE s = 2 /\ 1023 < c
  <2>1. Pending(s, c) = <<Lead4(Shift12(c)), Tail6(Shift6(c)), Tail6(c)>>
    BY <1>6, ThreeOfFour
  <2>2. Lead4(Shift12(c)) \in Nat /\ Tail6(Shift6(c)) \in Nat /\ Tail6(c) \in Nat
    BY PiecesNat
  <2> QED
    BY <1>1, <2>1, <2>2, LengthThree, Zenon
<1>7. CASE s \in {3, 4, 5} /\ c <= 15
  <2>1. Pending(s, c) = <<Lead3(c)>>
    BY <1>7, OneOfThree
  <2>2. Lead3(c) \in Nat
    BY PiecesNat
  <2> QED
    BY <1>1, <2>1, <2>2, LengthOne, Zenon
<1>8. CASE s \in {3, 4, 5} /\ 15 < c
  <2>1. Pending(s, c) = <<Lead4(Shift6(c)), Tail6(c)>>
    BY <1>8, TwoOfFour
  <2>2. Lead4(Shift6(c)) \in Nat /\ Tail6(c) \in Nat
    BY PiecesNat
  <2> QED
    BY <1>1, <2>1, <2>2, LengthTwo, Zenon
<1>9. CASE s \in {6, 7, 8}
  <2>1. Pending(s, c) = <<Lead4(c)>>
    BY <1>9, OneOfFour
  <2>2. Lead4(c) \in Nat
    BY PiecesNat
  <2> QED
    BY <1>1, <2>1, <2>2, LengthOne, Zenon
<1> QED
  BY <1>3, <1>4, <1>5, <1>6, <1>7, <1>8, <1>9, PendingCases

LEMMA FirstPends ==
  ASSUME NEW byte \in 0..255, NEW s, s = After(Accept, Class[byte]), s # Reject
  PROVE  IF s = Accept THEN Encode(LeadBits(byte)) = <<byte>>
                       ELSE Pending(s, LeadBits(byte)) = <<byte>>
<1> DEFINE class == Class[byte]
<1>1. class \in 0..11 /\ byte \in Classes[class + 1]
  BY ClassShape
<1>2. s = First[class + 1]
  BY DEF After, Accept
<1>3. LeadBits(byte) = byte % <<256, 128, 64, 32, 16, 8, 4, 2, 1, 1, 1, 1>>[class + 1]
  BY DEF LeadBits
<1> HIDE DEF class
<1>4. class \in {0, 2, 3, 4, 5, 6, 10, 11}
  BY <1>1, <1>2 DEF First, Reject
<1>5. PICK c \in Int : c = LeadBits(byte)
  BY <1>3, <1>4
<1>6. CASE class = 0
  <2>1. s = Accept /\ byte \in 0..127
    BY <1>1, <1>2, <1>6 DEF First, Classes
  <2>2. c = byte
    BY <1>3, <1>5, <1>6, <2>1
  <2>3. Encode(c) = <<c>>
    BY <2>1, <2>2, EncodeOne
  <2> QED
    BY <1>5, <2>1, <2>2, <2>3
<1>7. CASE class = 2
  <2>1. s = 2 /\ byte \in 194..223
    BY <1>1, <1>2, <1>7 DEF First, Classes
  <2>2. c = byte - 192
    BY <1>3, <1>5, <1>7, <2>1
  <2>3. c \in Nat /\ c <= 31 /\ Lead2(c) = byte
    BY <2>1, <2>2 DEF Lead2
  <2>4. Pending(2, c) = <<Lead2(c)>>
    BY <2>3, OneOfTwo
  <2> QED
    BY <1>5, <2>1, <2>3, <2>4 DEF Accept
<1>8. CASE class \in {3, 4, 10}
  <2>1. s \in {3, 4, 5} /\ byte \in 224..239
    BY <1>1, <1>2, <1>8 DEF First, Classes
  <2>2. c = byte - 224
    <3>1. CASE class = 3
      BY <1>3, <1>5, <2>1, <3>1
    <3>2. CASE class = 4
      <4>1. byte = 237
        BY <1>1, <3>2 DEF Classes
      <4> QED
        BY <1>3, <1>5, <3>2, <4>1
    <3>3. CASE class = 10
      <4>1. byte = 224
        BY <1>1, <3>3 DEF Classes
      <4> QED
        BY <1>3, <1>5, <3>3, <4>1
    <3> QED
      BY <1>8, <3>1, <3>2, <3>3
  <2>3. c \in Nat /\ c <= 15 /\ Lead3(c) = byte
    BY <2>1, <2>2 DEF Lead3
  <2>4. Pending(s, c) = <<Lead3(c)>>
    BY <2>1, <2>3, OneOfThree
  <2> QED
    BY <1>5, <2>1, <2>3, <2>4 DEF Accept
<1>9. CASE class \in {5, 6, 11}
  <2>1. s \in {6, 7, 8} /\ byte \in 240..244
    BY <1>1, <1>2, <1>9 DEF First, Classes
  <2>2. c = byte - 240
    <3>1. CASE class = 5
      <4>1. byte = 244
        BY <1>1, <3>1 DEF Classes
      <4> QED
        BY <1>3, <1>5, <3>1, <4>1
    <3>2. CASE class = 6
      <4>1. byte \in 241..243
        BY <1>1, <3>2 DEF Classes
      <4> QED
        BY <1>3, <1>5, <3>2, <4>1
    <3>3. CASE class = 11
      <4>1. byte = 240
        BY <1>1, <3>3 DEF Classes
      <4> QED
        BY <1>3, <1>5, <3>3, <4>1
    <3> QED
      BY <1>9, <3>1, <3>2, <3>3
  <2>3. c \in Nat /\ Lead4(c) = byte
    BY <2>1, <2>2 DEF Lead4
  <2>4. Pending(s, c) = <<Lead4(c)>>
    BY <2>1, <2>3, OneOfFour
  <2> QED
    BY <1>5, <2>1, <2>3, <2>4 DEF Accept
<1> QED
  BY <1>4, <1>6, <1>7, <1>8, <1>9

\* A byte after one, two and three bytes.
LEMMA AppendIs ==
  ASSUME NEW s \in Seq(Nat), NEW t \in Seq(Nat), NEW w \in Nat, Len(t) = Len(s) + 1,
         t[Len(s) + 1] = w, \A i \in 1..Len(s) : t[i] = s[i]
  PROVE  Append(s, w) = t
<1>1. /\ Append(s, w) \in Seq(Nat) /\ Len(Append(s, w)) = Len(t) /\ Len(s) \in Nat
      /\ \A i \in 1..Len(s) : Append(s, w)[i] = t[i]
      /\ Append(s, w)[Len(s) + 1] = t[Len(s) + 1]
  BY AppendProperties
<1>2. \A i \in 1..Len(t) : i \in 1..Len(s) \/ i = Len(s) + 1
  BY <1>1
<1>3. \A i \in 1..Len(t) : Append(s, w)[i] = t[i]
  BY <1>1, <1>2
<1> QED
  BY <1>1, <1>3, SeqEqual

LEMMA AppendToOne ==
  ASSUME NEW x \in Nat, NEW w \in Nat
  PROVE  Append(<<x>>, w) = <<x, w>>
<1>1. <<x>> \in Seq(Nat) /\ <<x, w>> \in Seq(Nat)
  OBVIOUS
<1>2. /\ Len(<<x, w>>) = Len(<<x>>) + 1 /\ <<x, w>>[Len(<<x>>) + 1] = w
      /\ \A i \in 1..Len(<<x>>) : <<x, w>>[i] = <<x>>[i]
  OBVIOUS
<1> QED
  BY <1>1, <1>2, AppendIs, Zenon

LEMMA AppendToTwo ==
  ASSUME NEW x \in Nat, NEW y \in Nat, NEW w \in Nat
  PROVE  Append(<<x, y>>, w) = <<x, y, w>>
<1>1. <<x, y>> \in Seq(Nat) /\ <<x, y, w>> \in Seq(Nat)
  OBVIOUS
<1>2. /\ Len(<<x, y, w>>) = Len(<<x, y>>) + 1 /\ <<x, y, w>>[Len(<<x, y>>) + 1] = w
      /\ \A i \in 1..Len(<<x, y>>) : <<x, y, w>>[i] = <<x, y>>[i]
  OBVIOUS
<1> QED
  BY <1>1, <1>2, AppendIs, Zenon

LEMMA AppendToThree ==
  ASSUME NEW x \in Nat, NEW y \in Nat, NEW z \in Nat, NEW w \in Nat
  PROVE  Append(<<x, y, z>>, w) = <<x, y, z, w>>
<1>1. <<x, y, z>> \in Seq(Nat) /\ <<x, y, z, w>> \in Seq(Nat)
  OBVIOUS
<1>2. /\ Len(<<x, y, z, w>>) = Len(<<x, y, z>>) + 1 /\ <<x, y, z, w>>[Len(<<x, y, z>>) + 1] = w
      /\ \A i \in 1..Len(<<x, y, z>>) : <<x, y, z, w>>[i] = <<x, y, z>>[i]
  OBVIOUS
<1> QED
  BY <1>1, <1>2, AppendIs, Zenon

\* A byte that may follow the first one carries six bits.
LEMMA LowBits ==
  ASSUME NEW byte \in 0..255, NEW before \in 2..8,
         After(before, Class[byte]) # Reject
  PROVE  /\ byte = 128 + (byte % 64) /\ byte % 64 \in 0..63
         /\ After(before, Class[byte]) = To[before - 1]
<1> DEFINE class == Class[byte]
<1>1. class \in 0..11 /\ byte \in Classes[class + 1]
  BY ClassShape
<1>2. class \in Goes[before - 1] /\ After(before, Class[byte]) = To[before - 1]
  BY DEF After, Accept, Reject
<1> HIDE DEF class
<1>3. class \in {1, 7, 9}
  BY <1>2 DEF Goes
<1>4. byte \in 128..191
  BY <1>1, <1>3 DEF Classes
<1> QED
  BY <1>2, <1>4

Joined(c, low) == 64 * c + low

\* Taking six bits apart again.
LEMMA SixBits ==
  ASSUME NEW c \in Nat, NEW low \in 0..63, NEW d \in Nat, d = Joined(c, low)
  PROVE  /\ Shift6(d) = c /\ Tail6(d) = 128 + low
         /\ Shift12(d) = Shift6(c) /\ Shift18(d) = Shift12(c)
<1>1. Shift6(d) = c
  BY SMT DEF Joined, Shift6
<1>2. Tail6(d) = 128 + low
  BY SMT DEF Joined, Tail6
<1>3. Shift12(d) = Shift6(c)
  BY SMT DEF Joined, Shift12, Shift6
<1>4. Shift18(d) = Shift12(c)
  BY SMT DEF Joined, Shift18, Shift12
<1> QED
  BY <1>1, <1>2, <1>3, <1>4

LEMMA LaterPends ==
  ASSUME NEW byte \in 0..255, NEW before \in 2..8, NEW c \in Nat, Reaches(before, c),
         NEW s, s = After(before, Class[byte]), s # Reject
  PROVE  IF s = Accept
           THEN Encode(64 * c + (byte % 64)) = Append(Pending(before, c), byte)
           ELSE Pending(s, 64 * c + (byte % 64)) = Append(Pending(before, c), byte)
<1>1. PICK low \in 0..63 : low = byte % 64
  BY LowBits
<1>2. byte = 128 + low /\ s = To[before - 1]
  BY <1>1, LowBits
<1>3. PICK d \in Nat : d = Joined(c, low)
  <2>1. Joined(c, low) \in Nat
    BY DEF Joined
  <2> QED
    BY <2>1
<1>4. Shift6(d) = c /\ Tail6(d) = byte /\ Shift12(d) = Shift6(c) /\ Shift18(d) = Shift12(c)
  <2>1. Shift6(d) = c /\ Tail6(d) = 128 + low /\ Shift12(d) = Shift6(c) /\ Shift18(d) = Shift12(c)
    BY <1>3, SixBits, ZenonT(30)
  <2> QED
    BY <1>2, <2>1
<1> SUFFICES IF s = Accept THEN Encode(d) = Append(Pending(before, c), byte)
                           ELSE Pending(s, d) = Append(Pending(before, c), byte)
  <2>1. 64 * c + (byte % 64) = d
    BY <1>1, <1>3 DEF Joined
  <2> QED
    BY <2>1
<1>4a. d = 64 * c + low
  BY <1>3 DEF Joined
<1>5. byte \in Nat /\ Shift6(c) \in Nat /\ Shift12(c) \in Nat
  BY PiecesNat
<1>6. CASE before = 2
  <2>1. s = Accept /\ c \in Prefixes6
    BY <1>2, <1>6 DEF To, Reaches, Accept
  <2>2. c >= 2 /\ c <= 17407
    BY <2>1 DEF Prefixes6
  <2>3. CASE c <= 31
    <3>1. 127 < d /\ d <= 2047
      BY <1>4a, <2>2, <2>3
    <3>2. Pending(before, c) = <<Lead2(c)>>
      BY <1>6, <2>3, OneOfTwo
    <3>3. Encode(d) = <<Lead2(c), byte>>
      BY <1>4, <3>1, EncodeTwo
    <3>4. Lead2(c) \in Nat
      BY <1>5, PiecesNat
    <3>5. Append(<<Lead2(c)>>, byte) = <<Lead2(c), byte>>
      BY <1>5, <3>4, AppendToOne
    <3> QED
      BY <2>1, <3>2, <3>3, <3>5
  <2>4. CASE 31 < c /\ c <= 1023
    <3>1. 2047 < d /\ d <= 65535
      BY <1>4a, <2>4
    <3>2. Pending(before, c) = <<Lead3(Shift6(c)), Tail6(c)>>
      BY <1>6, <2>4, TwoOfThree
    <3>3. Encode(d) = <<Lead3(Shift6(c)), Tail6(c), byte>>
      BY <1>4, <3>1, EncodeThree
    <3>4. Lead3(Shift6(c)) \in Nat /\ Tail6(c) \in Nat
      BY <1>5, PiecesNat
    <3>5. Append(<<Lead3(Shift6(c)), Tail6(c)>>, byte) = <<Lead3(Shift6(c)), Tail6(c), byte>>
      BY <1>5, <3>4, AppendToTwo
    <3> QED
      BY <2>1, <3>2, <3>3, <3>5
  <2>5. CASE 1023 < c
    <3>1. 65535 < d /\ d <= 1114111
      BY <1>4a, <2>2, <2>5
    <3>2. Pending(before, c) = <<Lead4(Shift12(c)), Tail6(Shift6(c)), Tail6(c)>>
      BY <1>6, <2>5, ThreeOfFour
    <3>3. Encode(d) = <<Lead4(Shift12(c)), Tail6(Shift6(c)), Tail6(c), byte>>
      BY <1>4, <3>1, EncodeFour
    <3>4. Lead4(Shift12(c)) \in Nat /\ Tail6(Shift6(c)) \in Nat /\ Tail6(c) \in Nat
      BY <1>5, PiecesNat
    <3>5. Append(<<Lead4(Shift12(c)), Tail6(Shift6(c)), Tail6(c)>>, byte) = <<Lead4(Shift12(c)), Tail6(Shift6(c)), Tail6(c), byte>>
      BY <1>5, <3>4, AppendToThree
    <3> QED
      BY <2>1, <3>2, <3>3, <3>5
  <2> QED
    BY <2>3, <2>4, <2>5
<1>7. CASE before \in {3, 4, 5}
  <2>1. s = 2 /\ s # Accept
    BY <1>2, <1>7 DEF To, Accept
  <2>2. CASE c <= 15
    <3>1. Pending(before, c) = <<Lead3(c)>>
      BY <1>7, <2>2, OneOfThree
    <3>2. 31 < d /\ d <= 1023
      <4>1. before = 3 => c >= 1
        BY DEF Reaches, Prefixes12
      <4>2. before = 4 => c = 0 /\ low >= 32
        <5> SUFFICES ASSUME before = 4 PROVE c = 0 /\ low >= 32
          OBVIOUS
        <5>1. Class[byte] = 7
          BY DEF After, Accept, Reject, Goes
        <5>2. byte \in 160..191
          BY <5>1, ClassSeven
        <5> QED
          BY <1>2, <5>2 DEF Reaches
      <4>3. before = 5 => c = 13
        BY DEF Reaches
      <4> QED
        BY <1>4a, <1>7, <2>2, <4>1, <4>2, <4>3
    <3>3. Pending(2, d) = <<Lead3(c), byte>>
      BY <1>4, <3>2, TwoOfThree
    <3>4. Lead3(c) \in Nat
      BY <1>5, PiecesNat
    <3>5. Append(<<Lead3(c)>>, byte) = <<Lead3(c), byte>>
      BY <1>5, <3>4, AppendToOne
    <3> QED
      BY <2>1, <3>1, <3>3, <3>5
  <2>3. CASE 15 < c
    <3>1. Pending(before, c) = <<Lead4(Shift6(c)), Tail6(c)>>
      BY <1>7, <2>3, TwoOfFour
    <3>2. 1023 < d
      BY <1>4a, <2>3
    <3>3. Pending(2, d) = <<Lead4(Shift6(c)), Tail6(c), byte>>
      BY <1>4, <3>2, ThreeOfFour
    <3>4. Lead4(Shift6(c)) \in Nat /\ Tail6(c) \in Nat
      BY <1>5, PiecesNat
    <3>5. Append(<<Lead4(Shift6(c)), Tail6(c)>>, byte) = <<Lead4(Shift6(c)), Tail6(c), byte>>
      BY <1>5, <3>4, AppendToTwo
    <3> QED
      BY <2>1, <3>1, <3>3, <3>5
  <2> QED
    BY <2>2, <2>3
<1>8. CASE before \in {6, 7, 8}
  <2>1. s = 3 /\ s # Accept
    BY <1>2, <1>8 DEF To, Accept
  <2>2. Pending(before, c) = <<Lead4(c)>>
    BY <1>8, OneOfFour
  <2>3. 15 < d
    <3>1. before = 7 => c >= 1
      BY DEF Reaches
    <3>2. before = 8 => c = 4
      BY DEF Reaches
    <3>3. before = 6 => c = 0 /\ low >= 16
      <4> SUFFICES ASSUME before = 6 PROVE c = 0 /\ low >= 16
        OBVIOUS
      <4>1. Class[byte] = 7 \/ Class[byte] = 9
        BY DEF After, Accept, Reject, Goes
      <4>2. byte \in 144..191
        <5>1. CASE Class[byte] = 7
          BY <5>1, ClassSeven
        <5>2. CASE Class[byte] = 9
          BY <5>2, ClassNine
        <5> QED
          BY <4>1, <5>1, <5>2
      <4> QED
        BY <1>2, <4>2 DEF Reaches
    <3> QED
      BY <1>4a, <1>8, <3>1, <3>2, <3>3
  <2>4. Pending(3, d) = <<Lead4(c), byte>>
    BY <1>4, <2>3, TwoOfFour
  <2>5. Lead4(c) \in Nat
    BY <1>5, PiecesNat
  <2>6. Append(<<Lead4(c)>>, byte) = <<Lead4(c), byte>>
    BY <1>5, <2>5, AppendToOne
  <2> QED
    BY <2>1, <2>2, <2>4, <2>6
<1> QED
  BY <1>6, <1>7, <1>8

-----------------------------------------------------------------------------
(* What of the well-formed sequences a prefix determines.                  *)

LEMMA StartsOne ==
  ASSUME NEW row, NEW a
  PROVE  Starts(<<a>>, row) <=> 1 <= Len(row) /\ a \in row[1]
<1>1. Len(<<a>>) = 1 /\ \A i \in 1..1 : <<a>>[i] \in row[i] <=> a \in row[1]
  OBVIOUS
<1>2. 1 \in 1..1
  OBVIOUS
<1> QED
  BY <1>1, <1>2, Zenon DEF Starts

LEMMA StartsTwo ==
  ASSUME NEW row, NEW a, NEW b
  PROVE  Starts(<<a, b>>, row) <=> 2 <= Len(row) /\ a \in row[1] /\ b \in row[2]
<1>1. Len(<<a, b>>) = 2
  OBVIOUS
<1>2. (\A i \in 1..2 : <<a, b>>[i] \in row[i]) <=> a \in row[1] /\ b \in row[2]
  OBVIOUS
<1> QED
  BY <1>1, <1>2, Zenon DEF Starts

LEMMA StartsThree ==
  ASSUME NEW row, NEW a, NEW b, NEW c
  PROVE  Starts(<<a, b, c>>, row) <=>
           3 <= Len(row) /\ a \in row[1] /\ b \in row[2] /\ c \in row[3]
<1>1. Len(<<a, b, c>>) = 3
  OBVIOUS
<1>2. (\A i \in 1..3 : <<a, b, c>>[i] \in row[i]) <=> a \in row[1] /\ b \in row[2] /\ c \in row[3]
  OBVIOUS
<1> QED
  BY <1>1, <1>2, Zenon DEF Starts

LEMMA StartsFour ==
  ASSUME NEW row, NEW a, NEW b, NEW c, NEW d
  PROVE  Starts(<<a, b, c, d>>, row) <=>
           4 <= Len(row) /\ a \in row[1] /\ b \in row[2] /\ c \in row[3] /\ d \in row[4]
<1>1. Len(<<a, b, c, d>>) = 4
  OBVIOUS
<1>2. (\A i \in 1..4 : <<a, b, c, d>>[i] \in row[i]) <=>
        a \in row[1] /\ b \in row[2] /\ c \in row[3] /\ d \in row[4]
  OBVIOUS
<1> QED
  BY <1>1, <1>2, Zenon DEF Starts

LEMMA Rows ==
  ASSUME NEW row
  PROVE  row \in WellFormed <=>
           \/ row = <<0..127>>
           \/ row = <<194..223, Trail>>
           \/ row = <<{224}, 160..191, Trail>>
           \/ row = <<(225..239) \ {237}, Trail, Trail>>
           \/ row = <<{237}, 128..159, Trail>>
           \/ row = <<{240}, 144..191, Trail, Trail>>
           \/ row = <<241..243, Trail, Trail, Trail>>
           \/ row = <<{244}, 128..143, Trail, Trail>>
BY ZenonT(30) DEF WellFormed

LEMMA RowShape ==
  ASSUME NEW row \in WellFormed
  PROVE  \/ Len(row) = 1 /\ row[1] = 0..127
         \/ Len(row) = 2 /\ row[1] = 194..223 /\ row[2] = Trail
         \/ Len(row) = 3 /\ row[1] = {224} /\ row[2] = 160..191 /\ row[3] = Trail
         \/ Len(row) = 3 /\ row[1] = (225..239) \ {237} /\ row[2] = Trail /\ row[3] = Trail
         \/ Len(row) = 3 /\ row[1] = {237} /\ row[2] = 128..159 /\ row[3] = Trail
         \/ Len(row) = 4 /\ row[1] = {240} /\ row[2] = 144..191 /\ row[3] = Trail /\ row[4] = Trail
         \/ Len(row) = 4 /\ row[1] = 241..243 /\ row[2] = Trail /\ row[3] = Trail /\ row[4] = Trail
         \/ Len(row) = 4 /\ row[1] = {244} /\ row[2] = 128..143 /\ row[3] = Trail /\ row[4] = Trail
<1>1. CASE row = <<0..127>>
  BY <1>1
<1>2. CASE row = <<194..223, Trail>>
  BY <1>2
<1>3. CASE row = <<{224}, 160..191, Trail>>
  BY <1>3
<1>4. CASE row = <<(225..239) \ {237}, Trail, Trail>>
  BY <1>4
<1>5. CASE row = <<{237}, 128..159, Trail>>
  BY <1>5
<1>6. CASE row = <<{240}, 144..191, Trail, Trail>>
  BY <1>6
<1>7. CASE row = <<241..243, Trail, Trail, Trail>>
  BY <1>7
<1>8. CASE row = <<{244}, 128..143, Trail, Trail>>
  BY <1>8
<1> QED
  BY <1>1, <1>2, <1>3, <1>4, <1>5, <1>6, <1>7, <1>8, Rows, ZenonT(30)

LEMMA FirstOf ==
  ASSUME NEW row \in WellFormed, NEW a, Starts(<<a>>, row)
  PROVE  a \in 0..127 \/ a \in 194..244
<1>1. a \in row[1]
  BY StartsOne
<1> QED
  BY <1>1, RowShape

LEMMA SecondOf ==
  ASSUME NEW row \in WellFormed, NEW a \in Nat, NEW b \in Nat, Starts(<<a, b>>, row)
  PROVE  /\ b \in 128..191
         /\ a = 224 => b \in 160..191
         /\ a = 237 => b \in 128..159
         /\ a = 240 => b \in 144..191
         /\ a = 244 => b \in 128..143
<1>1. 2 <= Len(row) /\ a \in row[1] /\ b \in row[2]
  BY StartsTwo
<1>2. CASE Len(row) = 1 /\ row[1] = 0..127
  BY <1>1, <1>2 DEF Trail
<1>3. CASE Len(row) = 2 /\ row[1] = 194..223 /\ row[2] = Trail
  BY <1>1, <1>3 DEF Trail
<1>4. CASE Len(row) = 3 /\ row[1] = {224} /\ row[2] = 160..191 /\ row[3] = Trail
  BY <1>1, <1>4 DEF Trail
<1>5. CASE Len(row) = 3 /\ row[1] = (225..239) \ {237} /\ row[2] = Trail /\ row[3] = Trail
  BY <1>1, <1>5 DEF Trail
<1>6. CASE Len(row) = 3 /\ row[1] = {237} /\ row[2] = 128..159 /\ row[3] = Trail
  BY <1>1, <1>6 DEF Trail
<1>7. CASE Len(row) = 4 /\ row[1] = {240} /\ row[2] = 144..191 /\ row[3] = Trail /\ row[4] = Trail
  BY <1>1, <1>7 DEF Trail
<1>8. CASE Len(row) = 4 /\ row[1] = 241..243 /\ row[2] = Trail /\ row[3] = Trail /\ row[4] = Trail
  BY <1>1, <1>8 DEF Trail
<1>9. CASE Len(row) = 4 /\ row[1] = {244} /\ row[2] = 128..143 /\ row[3] = Trail /\ row[4] = Trail
  BY <1>1, <1>9 DEF Trail
<1> QED
  BY <1>2, <1>3, <1>4, <1>5, <1>6, <1>7, <1>8, <1>9, RowShape

LEMMA ThirdOf ==
  ASSUME NEW row \in WellFormed, NEW a, NEW b, NEW c, Starts(<<a, b, c>>, row)
  PROVE  c \in Trail
<1>1. 3 <= Len(row) /\ c \in row[3]
  BY StartsThree
<1>2. row[3] = Trail
  <2>1. ~(3 <= 1) /\ ~(3 <= 2)
    OBVIOUS
  <2> QED
    BY <1>1, <2>1, RowShape, Zenon
<1> QED
  BY <1>1, <1>2

LEMMA FourthOf ==
  ASSUME NEW row \in WellFormed, NEW a, NEW b, NEW c, NEW d, Starts(<<a, b, c, d>>, row)
  PROVE  d \in Trail
<1>1. 4 <= Len(row) /\ d \in row[4]
  BY StartsFour
<1>2. row[4] = Trail
  <2>1. ~(4 <= 1) /\ ~(4 <= 2) /\ ~(4 <= 3)
    OBVIOUS
  <2> QED
    BY <1>1, <2>1, RowShape, ZenonT(30)
<1> QED
  BY <1>1, <1>2

-----------------------------------------------------------------------------
\* The class of a byte, read backwards.
LEMMA ClassOf ==
  ASSUME NEW byte \in 0..255
  PROVE  /\ byte \in 0..127 => Class[byte] = 0
         /\ byte \in 128..143 => Class[byte] = 1
         /\ byte \in 144..159 => Class[byte] = 9
         /\ byte \in 160..191 => Class[byte] = 7
         /\ byte \in 194..244 => Class[byte] \in {2, 3, 4, 5, 6, 10, 11}
<1> DEFINE class == Class[byte]
<1>1. class \in 0..11 /\ byte \in Classes[class + 1]
  BY ClassShape
<1> HIDE DEF class
<1>2. /\ class = 0 => byte \in 0..127
      /\ class = 1 => byte \in 128..143
      /\ class = 7 => byte \in 160..191
      /\ class = 8 => byte \in {192, 193} \union 245..255
      /\ class = 9 => byte \in 144..159
  BY <1>1 DEF Classes
<1>3. class \in {2, 3, 4, 5, 6, 10, 11} => byte \in 194..244
  BY <1>1 DEF Classes
<1>4. class \in {0, 1, 7, 8, 9} \union {2, 3, 4, 5, 6, 10, 11}
  BY <1>1
<1> QED
  BY <1>2, <1>3, <1>4 DEF class

\* A byte that no codepoint starts with is refused, and it starts no well-formed sequence.
LEMMA FirstRefused ==
  ASSUME NEW byte \in 0..255, After(Accept, Class[byte]) = Reject, NEW row \in WellFormed
  PROVE  ~Starts(<<byte>>, row)
<1>1. First[Class[byte] + 1] = Reject
  BY DEF After
<1>2. Class[byte] # 0 /\ Class[byte] \notin {2, 3, 4, 5, 6, 10, 11}
  BY <1>1 DEF First, Accept, Reject
<1>3. byte \notin 0..127 /\ byte \notin 194..244
  BY <1>2, ClassOf
<1> QED
  BY <1>3, FirstOf

\* Nor does any continue with one that is refused later.
LEMMA LaterRefused ==
  ASSUME NEW byte \in 0..255, NEW before \in 2..8, NEW c \in Nat, Reaches(before, c),
         After(before, Class[byte]) = Reject, NEW row \in WellFormed
  PROVE  ~Starts(Append(Pending(before, c), byte), row)
<1>1. Class[byte] \notin Goes[before - 1]
  <2>1. before # Accept /\ To[before - 1] # Reject
    BY DEF Accept, Reject, To
  <2> QED
    BY <2>1 DEF After
<1>2. byte \in Nat /\ Shift6(c) \in Nat /\ Shift12(c) \in Nat
  BY PiecesNat
<1>3. before \in {2, 3, 7} => byte \notin 128..191
  <2>1. before \in {2, 3, 7} => Class[byte] \notin {1, 7, 9}
    BY <1>1 DEF Goes
  <2> QED
    BY <2>1, ClassOf
<1>4. CASE before = 2 /\ c <= 31
  <2>1. Pending(before, c) = <<Lead2(c)>> /\ Lead2(c) \in Nat
    BY <1>4, OneOfTwo, PiecesNat
  <2>2. Append(Pending(before, c), byte) = <<Lead2(c), byte>>
    BY <1>2, <2>1, AppendToOne
  <2>3. Starts(<<Lead2(c), byte>>, row) => byte \in 128..191
    BY <1>2, <2>1, SecondOf
  <2>4. byte \notin 128..191
    BY <1>3, <1>4
  <2>5. ~Starts(<<Lead2(c), byte>>, row)
    BY <2>3, <2>4
  <2> QED
    BY <2>2, <2>5, Zenon
<1>5. CASE before = 2 /\ 31 < c /\ c <= 1023
  <2>1. Pending(before, c) = <<Lead3(Shift6(c)), Tail6(c)>>
    BY <1>5, TwoOfThree
  <2>2. Lead3(Shift6(c)) \in Nat /\ Tail6(c) \in Nat
    BY <1>2, PiecesNat
  <2>3. Append(Pending(before, c), byte) = <<Lead3(Shift6(c)), Tail6(c), byte>>
    BY <1>2, <2>1, <2>2, AppendToTwo
  <2>4. Starts(<<Lead3(Shift6(c)), Tail6(c), byte>>, row) => byte \in Trail
    BY ThirdOf, Zenon
  <2>5. byte \notin Trail
    BY <1>3, <1>5 DEF Trail
  <2>6. ~Starts(<<Lead3(Shift6(c)), Tail6(c), byte>>, row)
    BY <2>4, <2>5, Zenon
  <2> QED
    BY <2>3, <2>6, Zenon
<1>6. CASE before = 2 /\ 1023 < c
  <2>1. Pending(before, c) = <<Lead4(Shift12(c)), Tail6(Shift6(c)), Tail6(c)>>
    BY <1>6, ThreeOfFour
  <2>2. Lead4(Shift12(c)) \in Nat /\ Tail6(Shift6(c)) \in Nat /\ Tail6(c) \in Nat
    BY <1>2, PiecesNat
  <2>3. Append(Pending(before, c), byte) = <<Lead4(Shift12(c)), Tail6(Shift6(c)), Tail6(c), byte>>
    BY <1>2, <2>1, <2>2, AppendToThree
  <2>4. Starts(<<Lead4(Shift12(c)), Tail6(Shift6(c)), Tail6(c), byte>>, row) =>
          byte \in Trail
    BY FourthOf, Zenon
  <2>5. byte \notin Trail
    BY <1>3, <1>6 DEF Trail
  <2>6. ~Starts(<<Lead4(Shift12(c)), Tail6(Shift6(c)), Tail6(c), byte>>, row)
    BY <2>4, <2>5, Zenon
  <2> QED
    BY <2>3, <2>6, Zenon
<1>7. CASE before \in {3, 4, 5} /\ c <= 15
  <2>1. Pending(before, c) = <<Lead3(c)>> /\ Lead3(c) \in Nat
    BY <1>7, OneOfThree, PiecesNat
  <2>2. Append(Pending(before, c), byte) = <<Lead3(c), byte>>
    BY <1>2, <2>1, AppendToOne
  <2>3. before = 4 => Lead3(c) = 224 /\ byte \notin 160..191
    <3>1. before = 4 => c = 0 /\ Class[byte] # 7
      BY <1>1 DEF Goes, Reaches
    <3> QED
      BY <3>1, ClassOf DEF Lead3
  <2>4. before = 5 => Lead3(c) = 237 /\ byte \notin 128..159
    <3>1. before = 5 => c = 13 /\ Class[byte] \notin {1, 9}
      BY <1>1 DEF Goes, Reaches
    <3> QED
      BY <3>1, ClassOf DEF Lead3
  <2>5. before = 3 \/ before = 4 \/ before = 5
    BY <1>7
  <2>6. Starts(<<Lead3(c), byte>>, row) =>
          /\ byte \in 128..191
          /\ (Lead3(c) = 224 => byte \in 160..191) /\ (Lead3(c) = 237 => byte \in 128..159)
    BY <1>2, <2>1, SecondOf
  <2> QED
    BY <1>3, <2>2, <2>3, <2>4, <2>5, <2>6
<1>8. CASE before \in {3, 4, 5} /\ 15 < c
  <2>1. Pending(before, c) = <<Lead4(Shift6(c)), Tail6(c)>>
    BY <1>8, TwoOfFour
  <2>2. Lead4(Shift6(c)) \in Nat /\ Tail6(c) \in Nat
    BY <1>2, PiecesNat
  <2>3. Append(Pending(before, c), byte) = <<Lead4(Shift6(c)), Tail6(c), byte>>
    BY <1>2, <2>1, <2>2, AppendToTwo
  <2>4. before = 3
    BY <1>8 DEF Reaches
  <2>5. Starts(<<Lead4(Shift6(c)), Tail6(c), byte>>, row) => byte \in Trail
    BY ThirdOf, Zenon
  <2>6. byte \notin Trail
    BY <1>3, <2>4 DEF Trail
  <2>7. ~Starts(<<Lead4(Shift6(c)), Tail6(c), byte>>, row)
    BY <2>5, <2>6, Zenon
  <2> QED
    BY <2>3, <2>7, Zenon
<1>9. CASE before \in {6, 7, 8}
  <2>1. Pending(before, c) = <<Lead4(c)>> /\ Lead4(c) \in Nat
    BY <1>9, OneOfFour, PiecesNat
  <2>2. Append(Pending(before, c), byte) = <<Lead4(c), byte>>
    BY <1>2, <2>1, AppendToOne
  <2>3. before = 6 => Lead4(c) = 240 /\ byte \notin 144..191
    <3>1. before = 6 => c = 0 /\ Class[byte] \notin {7, 9}
      BY <1>1 DEF Goes, Reaches
    <3> QED
      BY <3>1, ClassOf DEF Lead4
  <2>4. before = 8 => Lead4(c) = 244 /\ byte \notin 128..143
    <3>1. before = 8 => c = 4 /\ Class[byte] # 1
      BY <1>1 DEF Goes, Reaches
    <3> QED
      BY <3>1, ClassOf DEF Lead4
  <2>5. before = 6 \/ before = 7 \/ before = 8
    BY <1>9
  <2>6. Starts(<<Lead4(c), byte>>, row) =>
          /\ byte \in 128..191
          /\ (Lead4(c) = 240 => byte \in 144..191) /\ (Lead4(c) = 244 => byte \in 128..143)
    BY <1>2, <2>1, SecondOf
  <2> QED
    BY <1>3, <2>2, <2>3, <2>4, <2>5, <2>6
<1> QED
  BY <1>4, <1>5, <1>6, <1>7, <1>8, <1>9, PendingCases DEF Accept, Reject

\* What is pending starts a well-formed sequence and is not all of it.
LEMMA PendingBegins ==
  ASSUME NEW s \in 2..8, NEW c \in Nat, Reaches(s, c)
  PROVE  \E row \in WellFormed : Starts(Pending(s, c), row) /\ Len(Pending(s, c)) < Len(row)
<1>1. Shift6(c) \in Nat /\ Shift12(c) \in Nat /\ Tail6(c) \in Trail /\ Tail6(Shift6(c)) \in Trail
  <2>1. \A x \in Nat : Tail6(x) \in Trail
    BY DEF Tail6, Trail
  <2> QED
    BY <2>1, PiecesNat
<1>2. ASSUME NEW row \in WellFormed, NEW a, Pending(s, c) = <<a>>, a \in row[1], 1 < Len(row)
      PROVE  Starts(Pending(s, c), row) /\ Len(Pending(s, c)) < Len(row)
  <2>1. Len(<<a>>) = 1 /\ 1 <= Len(row)
    <3>1. Len(row) \in Nat
      BY RowShape
    <3> QED
      BY <1>2, <3>1
  <2>2. Starts(<<a>>, row)
    BY <1>2, <2>1, StartsOne
  <2> QED
    BY <1>2, <2>1, <2>2
<1>3. ASSUME NEW row \in WellFormed, NEW a, NEW b, Pending(s, c) = <<a, b>>,
             a \in row[1], b \in row[2], 2 < Len(row)
      PROVE  Starts(Pending(s, c), row) /\ Len(Pending(s, c)) < Len(row)
  <2>1. Len(<<a, b>>) = 2 /\ 2 <= Len(row)
    BY <1>3, RowShape
  <2>2. Starts(<<a, b>>, row)
    BY <1>3, <2>1, StartsTwo
  <2> QED
    BY <1>3, <2>1, <2>2
<1>4. ASSUME NEW row \in WellFormed, NEW a, NEW b, NEW e, Pending(s, c) = <<a, b, e>>,
             a \in row[1], b \in row[2], e \in row[3], 3 < Len(row)
      PROVE  Starts(Pending(s, c), row) /\ Len(Pending(s, c)) < Len(row)
  <2>1. Len(<<a, b, e>>) = 3 /\ 3 <= Len(row)
    BY <1>4, RowShape
  <2>2. Starts(<<a, b, e>>, row)
    BY <1>4, <2>1, StartsThree
  <2> QED
    BY <1>4, <2>1, <2>2
<1> DEFINE two == <<194..223, Trail>>
           three0 == <<{224}, 160..191, Trail>>
           three == <<(225..239) \ {237}, Trail, Trail>>
           three13 == <<{237}, 128..159, Trail>>
           four0 == <<{240}, 144..191, Trail, Trail>>
           four == <<241..243, Trail, Trail, Trail>>
           four4 == <<{244}, 128..143, Trail, Trail>>
<1>5. /\ two \in WellFormed /\ three0 \in WellFormed /\ three \in WellFormed
      /\ three13 \in WellFormed /\ four0 \in WellFormed /\ four \in WellFormed
      /\ four4 \in WellFormed
  BY DEF WellFormed
<1>6. /\ Len(two) = 2 /\ two[1] = 194..223
      /\ Len(three0) = 3 /\ three0[1] = {224} /\ three0[2] = 160..191
      /\ Len(three) = 3 /\ three[1] = (225..239) \ {237} /\ three[2] = Trail
      /\ Len(three13) = 3 /\ three13[1] = {237} /\ three13[2] = 128..159
  OBVIOUS
<1>7. /\ Len(four0) = 4 /\ four0[1] = {240} /\ four0[2] = 144..191 /\ four0[3] = Trail
      /\ Len(four) = 4 /\ four[1] = 241..243 /\ four[2] = Trail /\ four[3] = Trail
      /\ Len(four4) = 4 /\ four4[1] = {244} /\ four4[2] = 128..143 /\ four4[3] = Trail
  OBVIOUS
<1> HIDE DEF two, three0, three, three13, four0, four, four4
<1>8. CASE s = 2 /\ c <= 31
  <2>1. Pending(s, c) = <<Lead2(c)>>
    BY <1>8, OneOfTwo
  <2>2. c >= 2
    BY <1>8 DEF Reaches, Prefixes6
  <2>3. Lead2(c) \in two[1] /\ 1 < Len(two)
    BY <1>6, <1>8, <2>2 DEF Lead2
  <2> QED
    BY <1>2, <1>5, <2>1, <2>3
<1>9. CASE s = 2 /\ 31 < c /\ c <= 1023
  <2>1. Pending(s, c) = <<Lead3(Shift6(c)), Tail6(c)>>
    BY <1>9, TwoOfThree
  <2>2. c <= 863 \/ 896 <= c
    BY <1>9 DEF Reaches, Prefixes6
  <2>3. CASE c <= 63
    <3>1. Lead3(Shift6(c)) = 224 /\ Tail6(c) \in 160..191
      BY <1>9, <2>3 DEF Lead3, Shift6, Tail6
    <3>2. Lead3(Shift6(c)) \in three0[1] /\ Tail6(c) \in three0[2] /\ 2 < Len(three0)
      BY <1>6, <3>1
    <3> QED
      BY <1>3, <1>5, <2>1, <3>2
  <2>4. CASE 832 <= c /\ c <= 863
    <3>1. Lead3(Shift6(c)) = 237 /\ Tail6(c) \in 128..159
      BY <2>4 DEF Lead3, Shift6, Tail6
    <3>2. Lead3(Shift6(c)) \in three13[1] /\ Tail6(c) \in three13[2] /\ 2 < Len(three13)
      BY <1>6, <3>1
    <3> QED
      BY <1>3, <1>5, <2>1, <3>2
  <2>5. CASE (64 <= c /\ c < 832) \/ 896 <= c
    <3>1. Lead3(Shift6(c)) \in (225..239) \ {237}
      BY <1>9, <2>5 DEF Lead3, Shift6
    <3>2. Lead3(Shift6(c)) \in three[1] /\ Tail6(c) \in three[2] /\ 2 < Len(three)
      BY <1>1, <1>6, <3>1
    <3> QED
      BY <1>3, <1>5, <2>1, <3>2
  <2> QED
    BY <1>9, <2>2, <2>3, <2>4, <2>5
<1>10. CASE s = 2 /\ 1023 < c
  <2>1. Pending(s, c) = <<Lead4(Shift12(c)), Tail6(Shift6(c)), Tail6(c)>>
    BY <1>10, ThreeOfFour
  <2>2. c <= 17407
    BY <1>10 DEF Reaches, Prefixes6
  <2>3. CASE c <= 4095
    <3>1. Lead4(Shift12(c)) = 240
      BY <2>3 DEF Lead4, Shift12
    <3>2. Tail6(Shift6(c)) \in 144..191
      BY <1>10, <2>3 DEF Shift6, Tail6
    <3>3. /\ Lead4(Shift12(c)) \in four0[1] /\ Tail6(Shift6(c)) \in four0[2]
          /\ Tail6(c) \in four0[3] /\ 3 < Len(four0)
      BY <1>1, <1>7, <3>1, <3>2
    <3> QED
      BY <1>4, <1>5, <2>1, <3>3
  <2>4. CASE 4096 <= c /\ c <= 16383
    <3>1. Lead4(Shift12(c)) \in 241..243
      BY <2>4 DEF Lead4, Shift12
    <3>2. /\ Lead4(Shift12(c)) \in four[1] /\ Tail6(Shift6(c)) \in four[2]
          /\ Tail6(c) \in four[3] /\ 3 < Len(four)
      BY <1>1, <1>7, <3>1
    <3> QED
      BY <1>4, <1>5, <2>1, <3>2
  <2>5. CASE 16384 <= c
    <3>1. Lead4(Shift12(c)) = 244
      BY <2>2, <2>5 DEF Lead4, Shift12
    <3>2. Tail6(Shift6(c)) \in 128..143
      BY <2>2, <2>5 DEF Shift6, Tail6
    <3>3. /\ Lead4(Shift12(c)) \in four4[1] /\ Tail6(Shift6(c)) \in four4[2]
          /\ Tail6(c) \in four4[3] /\ 3 < Len(four4)
      BY <1>1, <1>7, <3>1, <3>2
    <3> QED
      BY <1>4, <1>5, <2>1, <3>3
  <2> QED
    BY <2>3, <2>4, <2>5
<1>11. CASE s \in {3, 4, 5} /\ c <= 15
  <2>1. Pending(s, c) = <<Lead3(c)>>
    BY <1>11, OneOfThree
  <2>2. CASE c = 0
    <3>1. Lead3(c) \in three0[1] /\ 1 < Len(three0)
      BY <1>6, <2>2 DEF Lead3
    <3> QED
      BY <1>2, <1>5, <2>1, <3>1
  <2>3. CASE c = 13
    <3>1. Lead3(c) \in three13[1] /\ 1 < Len(three13)
      BY <1>6, <2>3 DEF Lead3
    <3> QED
      BY <1>2, <1>5, <2>1, <3>1
  <2>4. CASE c # 0 /\ c # 13
    <3>1. Lead3(c) \in three[1] /\ 1 < Len(three)
      BY <1>6, <1>11, <2>4 DEF Lead3
    <3> QED
      BY <1>2, <1>5, <2>1, <3>1
  <2> QED
    BY <2>2, <2>3, <2>4
<1>12. CASE s \in {3, 4, 5} /\ 15 < c
  <2>1. Pending(s, c) = <<Lead4(Shift6(c)), Tail6(c)>>
    BY <1>12, TwoOfFour
  <2>2. c <= 271
    BY <1>12 DEF Reaches, Prefixes12
  <2>3. CASE c <= 63
    <3>1. Lead4(Shift6(c)) = 240 /\ Tail6(c) \in 144..191
      BY <1>12, <2>3 DEF Lead4, Shift6, Tail6
    <3>2. Lead4(Shift6(c)) \in four0[1] /\ Tail6(c) \in four0[2] /\ 2 < Len(four0)
      BY <1>7, <3>1
    <3> QED
      BY <1>3, <1>5, <2>1, <3>2
  <2>4. CASE 64 <= c /\ c <= 255
    <3>1. Lead4(Shift6(c)) \in 241..243
      BY <2>4 DEF Lead4, Shift6
    <3>2. Lead4(Shift6(c)) \in four[1] /\ Tail6(c) \in four[2] /\ 2 < Len(four)
      BY <1>1, <1>7, <3>1
    <3> QED
      BY <1>3, <1>5, <2>1, <3>2
  <2>5. CASE 256 <= c
    <3>1. Lead4(Shift6(c)) = 244 /\ Tail6(c) \in 128..143
      BY <2>2, <2>5 DEF Lead4, Shift6, Tail6
    <3>2. Lead4(Shift6(c)) \in four4[1] /\ Tail6(c) \in four4[2] /\ 2 < Len(four4)
      BY <1>7, <3>1
    <3> QED
      BY <1>3, <1>5, <2>1, <3>2
  <2> QED
    BY <2>3, <2>4, <2>5
<1>13. CASE s \in {6, 7, 8}
  <2>1. Pending(s, c) = <<Lead4(c)>>
    BY <1>13, OneOfFour
  <2>2. c \in {0, 1, 2, 3, 4}
    BY <1>13 DEF Reaches
  <2>3. CASE c = 0
    <3>1. Lead4(c) \in four0[1] /\ 1 < Len(four0)
      BY <1>7, <2>3 DEF Lead4
    <3> QED
      BY <1>2, <1>5, <2>1, <3>1
  <2>4. CASE c = 4
    <3>1. Lead4(c) \in four4[1] /\ 1 < Len(four4)
      BY <1>7, <2>4 DEF Lead4
    <3> QED
      BY <1>2, <1>5, <2>1, <3>1
  <2>5. CASE c \in {1, 2, 3}
    <3>1. Lead4(c) \in four[1] /\ 1 < Len(four)
      BY <1>7, <2>5 DEF Lead4
    <3> QED
      BY <1>2, <1>5, <2>1, <3>1
  <2> QED
    BY <2>2, <2>3, <2>4, <2>5
<1> QED
  BY <1>8, <1>9, <1>10, <1>11, <1>12, <1>13, PendingCases DEF Accept, Reject

-----------------------------------------------------------------------------
\* Nothing that starts with these bytes is well-formed.
Hopeless(bytes) == \A row \in WellFormed : ~Starts(bytes, row)

\* All that was read are the encodings of what was decoded and what is pending.
UInv ==
  /\ input \in Seq(Nat) /\ output \in Seq(Nat) /\ widths \in Seq(Nat)
  /\ room \in Nat /\ capacity \in Rooms
  /\ Len(widths) = Len(output)
  /\ \A i \in 1..Len(output) : widths[i] = Len(Encode(output[i]))
  /\ result # "invalid" =>
       /\ state \in 0..8 \ {Reject} /\ codepoint \in Nat /\ Reaches(state, codepoint)
       /\ input = EncodeAll(output) \o Pending(state, codepoint)
       /\ width = Len(Pending(state, codepoint))
  /\ result = "decoding" /\ room = 0 => state = Accept
  /\ result = "invalid" => Hopeless(SubSeq(input, Len(input) - width, Len(input)))

\* The end of a concatenation.
LEMMA EndOfConcat ==
  ASSUME NEW s \in Seq(Nat), NEW t \in Seq(Nat), NEW n \in Nat, n = Len(s \o t)
  PROVE  SubSeq(s \o t, n - Len(t) + 1, n) = t
<1> DEFINE u == s \o t
<1>1. /\ u \in Seq(Nat) /\ Len(s) \in Nat /\ Len(t) \in Nat /\ n = Len(s) + Len(t)
      /\ \A i \in 1..n : u[i] = IF i <= Len(s) THEN s[i] ELSE t[i - Len(s)]
  BY ConcatProperties, LenProperties
<1>2. PICK k \in Nat : k = Len(s)
  BY <1>1
<1>3. PICK l \in Nat : l = Len(t)
  BY <1>1
<1>0. n = Len(u)
  OBVIOUS
<1> HIDE DEF u
<1>4. \A i \in k+1..n : u[i] \in Nat
  <2>1. \A i \in 1..Len(u) : u[i] \in Nat
    BY <1>1, ElementOfSeq
  <2>2. \A i \in k+1..n : i \in 1..n
    OBVIOUS
  <2> QED
    BY <1>0, <2>1, <2>2
<1>5. /\ SubSeq(u, k + 1, n) \in Seq(Nat) /\ Len(SubSeq(u, k + 1, n)) = l
      /\ \A i \in 1..l : SubSeq(u, k + 1, n)[i] = u[k + i]
  <2>1. /\ SubSeq(u, k + 1, n) \in Seq(Nat)
        /\ Len(SubSeq(u, k + 1, n)) = IF k + 1 <= n THEN n - (k + 1) + 1 ELSE 0
        /\ \A i \in 1..n - (k + 1) + 1 : SubSeq(u, k + 1, n)[i] = u[k + 1 + i - 1]
    <3>1. k + 1 \in Int /\ n \in Int
      OBVIOUS
    <3> QED
      BY <1>4, <3>1, SubSeqProperties
  <2>2. n = k + l
    BY <1>1, <1>2, <1>3
  <2>3. n - (k + 1) + 1 = l /\ \A i \in 1..l : k + 1 + i - 1 = k + i
    BY <2>2
  <2>4. (IF k + 1 <= n THEN n - (k + 1) + 1 ELSE 0) = l
    BY <2>2
  <2> QED
    BY <2>1, <2>3, <2>4
<1>6. \A i \in 1..l : u[k + i] = t[i]
  <2> SUFFICES ASSUME NEW i \in 1..l PROVE u[k + i] = t[i]
    OBVIOUS
  <2>1. k + i \in 1..n /\ ~(k + i <= k) /\ (k + i) - k = i
    BY <1>1, <1>2, <1>3
  <2> QED
    BY <1>1, <1>2, <2>1
<1>7. SubSeq(u, k + 1, n) = t
  <2> DEFINE e == SubSeq(u, k + 1, n)
  <2> HIDE DEF e
  <2>1. e \in Seq(Nat) /\ Len(e) = Len(t) /\ \A i \in 1..Len(e) : e[i] = t[i]
    BY <1>3, <1>5, <1>6 DEF e
  <2>2. e = t
    BY <2>1, SeqEqual
  <2> QED
    BY <2>2 DEF e
<1>8. n - Len(t) + 1 = k + 1
  BY <1>1, <1>2
<1> QED
  BY <1>7, <1>8 DEF u

LEMMA Decoded == UInv => DecodesExactly
<1> SUFFICES ASSUME UInv PROVE DecodesExactly
  OBVIOUS
<1>1. ASSUME result # "invalid"
      PROVE  /\ Unfinished = Pending(state, codepoint)
             /\ input = EncodeAll(output) \o Pending(state, codepoint)
             /\ state \in 0..8 \ {Reject} /\ codepoint \in Nat /\ Reaches(state, codepoint)
             /\ width = Len(Pending(state, codepoint))
  <2>1. /\ input = EncodeAll(output) \o Pending(state, codepoint)
        /\ state \in 0..8 \ {Reject} /\ codepoint \in Nat /\ Reaches(state, codepoint)
        /\ width = Len(Pending(state, codepoint))
    BY <1>1 DEF UInv
  <2>2. EncodeAll(output) \in Seq(Nat) /\ Pending(state, codepoint) \in Seq(Nat)
    BY <2>1, EncodeAllSeq, PendingShape DEF UInv
  <2>3. PICK n \in Nat : n = Len(input)
    BY LenProperties DEF UInv
  <2>4. SubSeq(input, n - width + 1, n) = Pending(state, codepoint)
    BY <2>1, <2>2, <2>3, EndOfConcat
  <2> QED
    BY <2>1, <2>3, <2>4 DEF Unfinished
<1>2. DecodesEncoded
  BY <1>1 DEF UInv, DecodesEncoded
<1>3. RefusesIllFormed
  <2>1. CASE result = "invalid"
    BY <2>1 DEF UInv, Hopeless, RefusesIllFormed
  <2>2. CASE result # "invalid"
    <3> SUFFICES ASSUME width > 0
                 PROVE  \E row \in WellFormed : Starts(Unfinished, row) /\ width < Len(row)
      BY <2>2 DEF RefusesIllFormed
    <3>1. state # Accept
      <4>1. state = Accept => Pending(state, codepoint) = <<>>
        BY NonePending
      <4>2. Len(<<>>) = 0
        BY EmptySeq
      <4>3. state = Accept => width = 0
        BY <1>1, <2>2, <4>1, <4>2, Zenon
      <4> QED
        BY <4>3
    <3>2. state \in 2..8
      BY <1>1, <2>2, <3>1 DEF Accept, Reject
    <3> QED
      BY <1>1, <2>2, <3>2, PendingBegins
  <2> QED
    BY <2>1, <2>2
<1> QED
  BY <1>2, <1>3 DEF DecodesExactly

\* What a byte that is not refused does to what is pending.
LEMMA ReadWell ==
  ASSUME UInv, NEW byte \in Bytes, Read(byte), state' # Reject
  PROVE  /\ state' \in 0..8 /\ WithByte(byte) \in Nat
         /\ IF state' = Accept
              THEN Encode(WithByte(byte)) = Append(Pending(state, codepoint), byte)
              ELSE /\ Reaches(state', WithByte(byte))
                   /\ Pending(state', WithByte(byte)) = Append(Pending(state, codepoint), byte)
<1>1. /\ byte \in 0..255 /\ state' = After(state, Class[byte])
      /\ state \in 0..8 \ {Reject} /\ codepoint \in Nat /\ Reaches(state, codepoint)
  BY BytesAssumption DEF Read, UInv
<1>2. CASE state = Accept
  <2>1. WithByte(byte) = LeadBits(byte)
    BY <1>2 DEF WithByte
  <2>2. /\ state' \in 0..8
        /\ IF state' = Accept THEN IsScalar(LeadBits(byte)) ELSE Reaches(state', LeadBits(byte))
    BY <1>1, <1>2, FirstByte
  <2>3. IF state' = Accept THEN Encode(LeadBits(byte)) = <<byte>>
                           ELSE Pending(state', LeadBits(byte)) = <<byte>>
    BY <1>1, <1>2, FirstPends
  <2>4. Append(Pending(state, codepoint), byte) = <<byte>>
    <3>1. Pending(state, codepoint) = <<>>
      BY <1>2, NonePending
    <3>2. Append(<<>>, byte) = <<byte>>
      OBVIOUS
    <3> QED
      BY <3>1, <3>2
  <2>5. LeadBits(byte) \in Nat
    BY <2>2, PrefixNat DEF IsScalar
  <2> QED
    BY <2>1, <2>2, <2>3, <2>4, <2>5
<1>3. CASE state # Accept
  <2>1. WithByte(byte) = 64 * codepoint + (byte % 64) /\ state \in 2..8
    BY <1>1, <1>3 DEF WithByte, Accept, Reject
  <2>2. /\ state' \in 0..8
        /\ IF state' = Accept THEN IsScalar(64 * codepoint + (byte % 64))
                              ELSE Reaches(state', 64 * codepoint + (byte % 64))
    BY <1>1, <2>1, LaterByte
  <2>3. IF state' = Accept
          THEN Encode(64 * codepoint + (byte % 64)) = Append(Pending(state, codepoint), byte)
          ELSE Pending(state', 64 * codepoint + (byte % 64)) = Append(Pending(state, codepoint), byte)
    BY <1>1, <2>1, LaterPends, ZenonT(30)
  <2>4. 64 * codepoint + (byte % 64) \in Nat
    BY <2>2, PrefixNat DEF IsScalar
  <2> QED
    BY <2>1, <2>2, <2>3, <2>4
<1> QED
  BY <1>2, <1>3

\* A byte more after what is pending, in all that was read.
LEMMA InputGrows ==
  ASSUME UInv, NEW byte \in Bytes, Read(byte)
  PROVE  /\ input' = EncodeAll(output) \o Append(Pending(state, codepoint), byte)
         /\ input' \in Seq(Nat) /\ EncodeAll(output) \in Seq(Nat)
         /\ Append(Pending(state, codepoint), byte) \in Seq(Nat)
         /\ Len(Append(Pending(state, codepoint), byte)) = width + 1 /\ width \in Nat
<1> DEFINE p == Pending(state, codepoint)
           s == EncodeAll(output)
<1>1. byte \in Nat /\ <<byte>> \in Seq(Nat)
  BY BytesAssumption
<1>2. /\ input' = Append(input, byte) /\ input \in Seq(Nat) /\ output \in Seq(Nat)
      /\ input = s \o p /\ width = Len(p)
      /\ state \in 0..8 /\ state # Reject /\ codepoint \in Nat
  BY DEF Read, UInv
<1>3. p \in Seq(Nat) /\ s \in Seq(Nat)
  BY <1>2, PendingShape, EncodeAllSeq
<1> HIDE DEF p, s
<1>4. input' = (s \o p) \o <<byte>> /\ Append(p, byte) = p \o <<byte>>
  BY <1>1, <1>2, <1>3, AppendIsConcat
<1>5. (s \o p) \o <<byte>> = s \o (p \o <<byte>>)
  BY <1>1, <1>3, ConcatAssociative
<1>6. Append(p, byte) \in Seq(Nat) /\ Len(Append(p, byte)) = Len(p) + 1 /\ Len(p) \in Nat
  BY <1>1, <1>3, AppendProperties, LenProperties
<1>7. input' \in Seq(Nat)
  BY <1>1, <1>2, AppendProperties
<1> QED
  BY <1>2, <1>3, <1>4, <1>5, <1>6, <1>7 DEF p, s

LEMMA FinishKeeps ==
  ASSUME UInv, NEW byte \in Bytes, Finish(byte)
  PROVE  UInv'
<1> DEFINE d == WithByte(byte)
           t == Append(Pending(state, codepoint), byte)
<1>1. /\ Read(byte) /\ state' = Accept /\ output' = Append(output, d)
      /\ widths' = Append(widths, width + 1) /\ room' = room - 1
      /\ width' = 0 /\ codepoint' = 0 /\ result' = "decoding" /\ result = "decoding"
      /\ room > 0 /\ capacity' = capacity
  BY DEF Finish, Read
<1>2. state' # Reject
  BY <1>1 DEF Accept, Reject
<1>3. d \in Nat /\ Encode(d) = t
  BY <1>1, <1>2, ReadWell
<1>4. /\ input' = EncodeAll(output) \o t /\ input' \in Seq(Nat) /\ EncodeAll(output) \in Seq(Nat)
      /\ t \in Seq(Nat) /\ Len(t) = width + 1 /\ width \in Nat
  BY <1>1, InputGrows
<1> HIDE DEF d, t
<1>5. /\ output \in Seq(Nat) /\ widths \in Seq(Nat) /\ Len(widths) = Len(output)
      /\ \A i \in 1..Len(output) : widths[i] = Len(Encode(output[i]))
  BY DEF UInv
<1>6. /\ output' \in Seq(Nat) /\ Len(output') = Len(output) + 1 /\ output'[Len(output) + 1] = d
      /\ \A i \in 1..Len(output) : output'[i] = output[i]
  BY <1>1, <1>3, <1>5, AppendProperties
<1>7. /\ widths' \in Seq(Nat) /\ Len(widths') = Len(output) + 1
      /\ widths'[Len(output) + 1] = width + 1
      /\ \A i \in 1..Len(output) : widths'[i] = widths[i]
  <2>1. width + 1 \in Nat
    BY <1>4
  <2> QED
    BY <1>1, <1>5, <2>1, AppendProperties
<1>8. \A i \in 1..Len(output') : widths'[i] = Len(Encode(output'[i]))
  <2> SUFFICES ASSUME NEW i \in 1..Len(output') PROVE widths'[i] = Len(Encode(output'[i]))
    OBVIOUS
  <2>1. i \in 1..Len(output) \/ i = Len(output) + 1
    BY <1>6
  <2>2. CASE i \in 1..Len(output)
    BY <1>5, <1>6, <1>7, <2>2
  <2>3. CASE i = Len(output) + 1
    BY <1>3, <1>4, <1>6, <1>7, <2>3
  <2> QED
    BY <2>1, <2>2, <2>3
<1>9. Pending(state', codepoint') = <<>>
  BY <1>1, NonePending
<1>10. input' = EncodeAll(output') \o <<>>
  <2>1. EncodeAll(output') = EncodeAll(output) \o t
    BY <1>1, <1>3, <1>5, EncodeAllGrows
  <2>2. input' \o <<>> = input'
    BY <1>4, ConcatEmptySeq
  <2> QED
    BY <1>4, <2>1, <2>2
<1>11. Len(<<>>) = 0
  BY EmptySeq
<1>12. Reaches(state', codepoint') /\ state' \in 0..8 \ {Reject} /\ codepoint' \in Nat
  BY <1>1 DEF Reaches, Accept, Reject
<1>13. room' \in Nat /\ capacity' \in Rooms
  BY <1>1 DEF UInv
<1>14. result' # "invalid"
  BY <1>1
<1>15. /\ input' = EncodeAll(output') \o Pending(state', codepoint')
       /\ width' = Len(Pending(state', codepoint'))
  BY <1>1, <1>9, <1>10, <1>11, Zenon
<1> QED
  BY <1>1, <1>4, <1>6, <1>7, <1>8, <1>12, <1>13, <1>14, <1>15 DEF UInv

LEMMA GoOnKeeps ==
  ASSUME UInv, NEW byte \in Bytes, GoOn(byte)
  PROVE  UInv'
<1> DEFINE t == Append(Pending(state, codepoint), byte)
<1>1. /\ Read(byte) /\ state' # Accept /\ state' # Reject
      /\ codepoint' = WithByte(byte) /\ width' = width + 1
      /\ result' = "decoding" /\ result = "decoding" /\ room > 0 /\ room' = room
      /\ output' = output /\ widths' = widths /\ capacity' = capacity
  BY DEF GoOn, Read
<1>2. /\ state' \in 0..8 \ {Reject} /\ codepoint' \in Nat /\ Reaches(state', codepoint')
      /\ Pending(state', codepoint') = t
  BY <1>1, ReadWell
<1>3. /\ input' = EncodeAll(output) \o t /\ input' \in Seq(Nat) /\ Len(t) = width + 1
  BY <1>1, InputGrows
<1> HIDE DEF t
<1>4. /\ input' = EncodeAll(output') \o Pending(state', codepoint')
      /\ width' = Len(Pending(state', codepoint'))
  BY <1>1, <1>2, <1>3
<1>5. result' # "invalid"
  BY <1>1
<1> QED
  BY <1>1, <1>2, <1>3, <1>4, <1>5 DEF UInv

LEMMA RefuseKeeps ==
  ASSUME UInv, NEW byte \in Bytes, Refuse(byte)
  PROVE  UInv'
<1> DEFINE t == Append(Pending(state, codepoint), byte)
<1>1. /\ Read(byte) /\ state' = Reject /\ result' = "invalid" /\ result = "decoding"
      /\ room' = room /\ width' = width /\ output' = output /\ widths' = widths
      /\ capacity' = capacity
  BY DEF Refuse, Read
<1>2. /\ input' = EncodeAll(output) \o t /\ input' \in Seq(Nat) /\ EncodeAll(output) \in Seq(Nat)
      /\ t \in Seq(Nat) /\ Len(t) = width + 1 /\ width \in Nat
  BY <1>1, InputGrows
<1>3. Hopeless(t)
  <2> SUFFICES ASSUME NEW row \in WellFormed PROVE ~Starts(t, row)
    BY DEF Hopeless
  <2>1. /\ byte \in 0..255 /\ After(state, Class[byte]) = Reject
        /\ state \in 0..8 \ {Reject} /\ codepoint \in Nat /\ Reaches(state, codepoint)
    BY <1>1, BytesAssumption DEF Read, UInv
  <2>2. CASE state = Accept
    <3>1. Pending(state, codepoint) = <<>>
      BY <2>2, NonePending
    <3>2. Append(<<>>, byte) = <<byte>>
      OBVIOUS
    <3>3. ~Starts(<<byte>>, row)
      BY <2>1, <2>2, FirstRefused
    <3> QED
      BY <3>1, <3>2, <3>3
  <2>3. CASE state # Accept
    <3>1. state \in 2..8
      BY <2>1, <2>3 DEF Accept, Reject
    <3> QED
      BY <2>1, <3>1, LaterRefused
  <2> QED
    BY <2>2, <2>3
<1> HIDE DEF t
<1>4. SubSeq(input', Len(input') - width', Len(input')) = t
  <2>1. PICK n \in Nat : n = Len(input')
    BY <1>2, LenProperties
  <2>2. SubSeq(EncodeAll(output) \o t, n - Len(t) + 1, n) = t
    BY <1>2, <2>1, EndOfConcat
  <2>3. n - Len(t) + 1 = n - width'
    BY <1>1, <1>2, <2>1
  <2> QED
    BY <1>2, <2>1, <2>2, <2>3
<1>5. room' \in Nat /\ capacity' \in Rooms
  BY <1>1 DEF UInv
<1>6. /\ output' \in Seq(Nat) /\ widths' \in Seq(Nat) /\ Len(widths') = Len(output')
      /\ \A i \in 1..Len(output') : widths'[i] = Len(Encode(output'[i]))
  BY <1>1 DEF UInv
<1>7. Hopeless(SubSeq(input', Len(input') - width', Len(input')))
  BY <1>3, <1>4
<1>8. result' = "invalid" /\ input' \in Seq(Nat)
  BY <1>1, <1>2
<1> QED
  BY <1>5, <1>6, <1>7, <1>8 DEF UInv

LEMMA CallAgainKeeps ==
  ASSUME UInv, CallAgain
  PROVE  UInv'
<1>1. /\ result = "decoding" /\ result' = result /\ room = 0 /\ room' = capacity
      /\ capacity' = capacity /\ state' = Accept /\ codepoint' = 0 /\ width' = 0
      /\ input' = input /\ output' = output /\ widths' = widths
  BY DEF CallAgain
<1>2. state = Accept
  BY <1>1 DEF UInv
<1>3. Pending(state', codepoint') = <<>> /\ Pending(state, codepoint) = <<>> /\ Len(<<>>) = 0
  BY <1>1, <1>2, NonePending, EmptySeq
<1>4. input = EncodeAll(output) \o Pending(state, codepoint)
  BY <1>1 DEF UInv
<1>5. /\ input' = EncodeAll(output') \o Pending(state', codepoint')
      /\ width' = Len(Pending(state', codepoint'))
  BY <1>1, <1>3, <1>4, Zenon
<1>6. room' \in Nat /\ capacity' \in Rooms
  BY <1>1, RoomsAssumption DEF UInv
<1>7. Reaches(state', codepoint') /\ state' \in 0..8 \ {Reject} /\ codepoint' \in Nat
  BY <1>1 DEF Reaches, Accept, Reject
<1>8. /\ input' \in Seq(Nat) /\ output' \in Seq(Nat) /\ widths' \in Seq(Nat)
      /\ Len(widths') = Len(output')
      /\ \A i \in 1..Len(output') : widths'[i] = Len(Encode(output'[i]))
  BY <1>1 DEF UInv
<1>9. result' # "invalid" /\ state' = Accept
  BY <1>1
<1> QED
  BY <1>5, <1>6, <1>7, <1>8, <1>9 DEF UInv

LEMMA UStep == UInv /\ [Next]_vars => UInv'
<1> SUFFICES ASSUME UInv, [Next]_vars PROVE UInv'
  OBVIOUS
<1>1. ASSUME UNCHANGED decoder, result' = result \/ result' # "decoding",
             result' = "invalid" <=> result = "invalid"
      PROVE  UInv'
  <2>1. /\ input' = input /\ room' = room /\ capacity' = capacity /\ state' = state
        /\ codepoint' = codepoint /\ width' = width /\ output' = output /\ widths' = widths
    BY <1>1 DEF decoder
  <2> QED
    BY <1>1, <2>1 DEF UInv
<1>2. ASSUME NEW byte \in Bytes, Finish(byte) \/ GoOn(byte) \/ Refuse(byte) PROVE UInv'
  BY <1>2, FinishKeeps, GoOnKeeps, RefuseKeeps
<1>3. CASE CallAgain
  BY <1>3, CallAgainKeeps
<1>4. CASE EndOfInput
  BY <1>1, <1>4 DEF EndOfInput
<1>5. CASE StartEncode
  BY <1>1, <1>5 DEF StartEncode
<1>6. CASE EncodeNext
  <2>1. /\ UNCHANGED decoder /\ result = "encoding"
        /\ result' = "invalid_char" \/ result' = result
    BY <1>6 DEF EncodeNext, EncodesMore
  <2> QED
    BY <1>1, <2>1
<1>7. CASE EncodeReturn
  <2>1. /\ UNCHANGED decoder /\ result = "encoding" /\ result' \in {"output_size", "encoded"}
    BY <1>7 DEF EncodeReturn
  <2> QED
    BY <1>1, <2>1
<1>8. CASE UNCHANGED vars
  BY <1>1, <1>8 DEF vars
<1> QED
  BY <1>2, <1>3, <1>4, <1>5, <1>6, <1>7, <1>8 DEF Next

\* Whatever the bytes and however passgen_parse cuts them into calls of
\* passgen_utf8_decode: the codepoints it puts out are those whose encodings were read,
\* their widths are right, and a byte is refused if and only if nothing well-formed goes
\* on with it.
THEOREM DecodesWhatIsWellFormed == Spec => []DecodesExactly
<1>1. Init => UInv
  <2> SUFFICES ASSUME Init PROVE UInv
    OBVIOUS
  <2>1. /\ result = "decoding" /\ capacity \in Rooms /\ room = capacity
        /\ input = <<>> /\ output = <<>> /\ widths = <<>>
        /\ state = Accept /\ codepoint = 0 /\ width = 0
    BY DEF Init
  <2>2. <<>> \in Seq(Nat) /\ Len(<<>>) = 0 /\ <<>> \o <<>> = <<>>
    BY EmptySeq, ConcatEmptySeq
  <2>3. Pending(state, codepoint) = <<>> /\ EncodeAll(output) = <<>>
    BY <2>1, <2>2, NonePending, EncodeAllSeq
  <2>4. /\ input = EncodeAll(output) \o Pending(state, codepoint)
        /\ width = Len(Pending(state, codepoint))
    BY <2>1, <2>2, <2>3, Zenon
  <2>5. room \in Nat
    BY <2>1, RoomsAssumption
  <2>6. Reaches(state, codepoint) /\ state \in 0..8 \ {Reject} /\ codepoint \in Nat
    BY <2>1 DEF Reaches, Accept, Reject
  <2>7. /\ input \in Seq(Nat) /\ output \in Seq(Nat) /\ widths \in Seq(Nat)
        /\ Len(widths) = Len(output)
        /\ \A i \in 1..Len(output) : widths[i] = Len(Encode(output[i]))
    BY <2>1, <2>2
  <2> QED
    BY <2>1, <2>4, <2>5, <2>6, <2>7 DEF UInv
<1> QED
  BY <1>1, UStep, Decoded, PTL DEF Spec
=============================================================================
