-------------------------- MODULE Tokenizer_proofs --------------------------
(***************************************************************************)
(* Proofs about Tokenizer, for every set of codepoints and any amount of   *)
(* input.                                                                  *)
(***************************************************************************)
EXTENDS Tokenizer, SequenceTheorems, WellFoundedInduction, TLAPS

\* The payload read so far fits in its digits, four bits each.
PayloadFits ==
  /\ length = 0 => payload = 0
  /\ length = 1 => payload < 16
  /\ length = 2 => payload < 256
  /\ length = 3 => payload < 4096
  /\ length = 4 => payload < 65536
  /\ length = 5 => payload < 1048576
  /\ length = 6 => payload < 16777216

\* How much of a token each state has seen.
Seen ==
  /\ state # "init" => raw # <<>>
  /\ state = "escaped" => Len(raw) = 1
  /\ state = "unicode" => Len(raw) = 2
  /\ state = "payload" => Len(raw) >= 3 /\ length <= MaxPayload /\ PayloadFits

IInv == TypeOK /\ Seen /\ EscapeUnforgeable

-----------------------------------------------------------------------------
\* What feeding a codepoint does to the history.
LEMMA RawGrows ==
  ASSUME TypeOK, NEW c \in Input, Advance(c)
  PROVE  /\ raw' \in Seq(Input)
         /\ state = "init" => Len(raw') = 1
         /\ state # "init" => /\ Len(raw') = Len(raw) + 1
                              /\ raw'[Len(raw) + 1] = c
         /\ raw' # <<>> /\ Len(raw') \in Nat /\ Len(raw) \in Nat
<1>1. raw \in Seq(Input) /\ Len(raw) \in Nat
  BY LenProperties DEF TypeOK
<1>2. CASE state = "init"
  <2>1. raw' = <<c>>
    BY <1>2 DEF Advance
  <2> QED
    BY <1>1, <1>2, <2>1
<1>3. CASE state # "init"
  <2>1. raw' = Append(raw, c)
    BY <1>3 DEF Advance
  <2>2. /\ raw' \in Seq(Input) /\ Len(raw') = Len(raw) + 1
        /\ raw'[Len(raw) + 1] = c
    BY <1>1, <2>1, AppendProperties
  <2> QED
    BY <1>1, <1>3, <2>2, EmptySeq
<1> QED
  BY <1>2, <1>3

LEMMA InputBounds ==
  ASSUME NEW c \in Input
  PROVE  c \in Nat /\ c < EscapedBit /\ EscapedBit \in Nat
BY SMT, InputAssumption DEF EscapedBit

LEMMA OffsetGrows ==
  ASSUME TypeOK, NEW c, Advance(c)
  PROVE  offset' \in 0..MaxInput /\ offset' = offset + 1 /\ start \in 0..offset'
         /\ offset \in 0..offset'
BY MaxInputAssumption DEF TypeOK, Advance

LEMMA InitHolds == Init => IInv
BY SMT, MaxInputAssumption, EmptySeq DEF Init, IInv, TypeOK, Seen, EscapeUnforgeable, MaxPayload

LEMMA PlainKeeps == ASSUME IInv, NEW c \in Input, Plain(c) PROVE IInv'
BY SMT, RawGrows, OffsetGrows, InputBounds
   DEF IInv, TypeOK, Seen, EscapeUnforgeable, Plain, Emit, IsEscaped, MaxPayload, Errors

LEMMA BeginEscapeKeeps == ASSUME IInv, NEW c \in Input, BeginEscape(c) PROVE IInv'
BY SMT, RawGrows, OffsetGrows
   DEF IInv, TypeOK, Seen, EscapeUnforgeable, BeginEscape, MaxPayload, Errors

LEMMA BeginUnicodeKeeps == ASSUME IInv, NEW c \in Input, BeginUnicode(c) PROVE IInv'
<1>1. TypeOK /\ Advance(c) /\ state = "escaped" /\ Len(raw) = 1
  BY DEF IInv, Seen, BeginUnicode
<1>2. Len(raw') = 2 /\ raw' \in Seq(Input) /\ raw' # <<>>
  BY <1>1, RawGrows
<1> QED
  BY SMT, <1>1, <1>2, OffsetGrows
     DEF IInv, TypeOK, Seen, EscapeUnforgeable, BeginUnicode, MaxPayload, Errors

LEMMA NoPayloadKeeps == ASSUME IInv, NEW c \in Input, NoPayload(c) PROVE IInv'
BY SMT, RawGrows, OffsetGrows
   DEF IInv, TypeOK, Seen, EscapeUnforgeable, NoPayload, MaxPayload, Errors

LEMMA SimpleEscapeKeeps ==
  ASSUME IInv, NEW c \in Input, SimpleEscape(c)
  PROVE  IInv'
<1>1. Simple(c) \in Nat /\ Simple(c) < EscapedBit /\ EscapedBit \in Nat
  <2>1. c \in {97, 98, 101, 102, 110, 114, 116, 118, 92}
    BY DEF SimpleEscape, SimpleEscapes, Backslash
  <2>2. Simple(c) \in {7, 8, 27, 12, 10, 13, 9, 11, 92}
    BY SMT, <2>1 DEF Simple, Backslash
  <2> QED
    BY SMT, <2>2 DEF EscapedBit
<1>2. Len(raw') = 2 /\ raw'[2] = c
  <2>1. TypeOK /\ Advance(c) /\ state # "init" /\ Len(raw) = 1
    BY DEF IInv, Seen, SimpleEscape
  <2> QED
    BY <2>1, RawGrows
<1> QED
  BY SMT, <1>1, <1>2, RawGrows, OffsetGrows
     DEF IInv, TypeOK, Seen, EscapeUnforgeable, SimpleEscape, Emit, IsEscaped,
         MaxPayload, Errors

LEMMA EscapeKeeps == ASSUME IInv, NEW c \in Input, Escape(c) PROVE IInv'
<1>1. c + EscapedBit \in Nat /\ c + EscapedBit >= EscapedBit
  BY SMT, InputBounds DEF EscapedBit
<1>2. Len(raw') = 2 /\ raw'[2] = c
  <2>1. TypeOK /\ Advance(c) /\ state # "init" /\ Len(raw) = 1
    BY DEF IInv, Seen, Escape
  <2> QED
    BY <2>1, RawGrows
<1> QED
  BY SMT, <1>1, <1>2, RawGrows, OffsetGrows
     DEF IInv, TypeOK, Seen, EscapeUnforgeable, Escape, Emit, IsEscaped,
         MaxPayload, Errors

LEMMA OpenPayloadKeeps == ASSUME IInv, NEW c \in Input, OpenPayload(c) PROVE IInv'
BY SMT, RawGrows, OffsetGrows
   DEF IInv, TypeOK, Seen, EscapeUnforgeable, OpenPayload, PayloadFits, MaxPayload, Errors

LEMMA ClosePayloadKeeps == ASSUME IInv, NEW c \in Input, ClosePayload(c) PROVE IInv'
<1>1. Len(raw') > 2
  BY SMT, RawGrows DEF IInv, Seen, ClosePayload
<1>2. payload \in Nat /\ payload < EscapedBit /\ EscapedBit \in Nat
  BY SMT DEF IInv, TypeOK, EscapedBit
<1> QED
  BY SMT, <1>1, <1>2, RawGrows, OffsetGrows
     DEF IInv, TypeOK, Seen, EscapeUnforgeable, ClosePayload, Emit, IsEscaped,
         MaxPayload, Errors

LEMMA FailingKeeps ==
  ASSUME IInv, NEW c \in Input, PayloadTooLong(c) \/ NoHexDigit(c)
  PROVE  IInv'
BY SMT, RawGrows, OffsetGrows
   DEF IInv, TypeOK, Seen, EscapeUnforgeable, PayloadTooLong, NoHexDigit, MaxPayload, Errors

LEMMA PayloadDigitKeeps == ASSUME IInv, NEW c \in Input, PayloadDigit(c) PROVE IInv'
<1>1. HexDecode(c) \in 0..15
  BY DEF PayloadDigit, HexDigits, HexDecode
<1>2. length \in 0..5 /\ length' = length + 1 /\ payload \in Nat
      /\ payload' = 16 * payload + HexDecode(c) /\ PayloadFits
  BY SMT DEF IInv, TypeOK, Seen, PayloadDigit, MaxPayload
<1>3. PayloadFits' /\ payload' \in Nat /\ payload' < 16777216
  BY SMT, <1>1, <1>2 DEF PayloadFits
<1> QED
  BY SMT, <1>2, <1>3, RawGrows, OffsetGrows
     DEF IInv, TypeOK, Seen, EscapeUnforgeable, PayloadDigit, MaxPayload, Errors

LEMMA StutterKeeps == ASSUME IInv, UNCHANGED vars PROVE IInv'
BY SMT DEF IInv, TypeOK, Seen, PayloadFits, EscapeUnforgeable, vars

LEMMA Inductive == Spec => []IInv
<1>1. ASSUME IInv, [Next]_vars PROVE IInv'
  BY <1>1, PlainKeeps, BeginEscapeKeeps, BeginUnicodeKeeps, NoPayloadKeeps, SimpleEscapeKeeps, EscapeKeeps, OpenPayloadKeeps,
     ClosePayloadKeeps, FailingKeeps, PayloadDigitKeeps, StutterKeeps
     DEF Next, Feed, InError
<1> QED
  BY <1>1, InitHolds, PTL DEF Spec

-----------------------------------------------------------------------------
\* Every variable keeps its type; in particular a payload never exceeds 24 bits.
THEOREM TypeCorrect == Spec => []TypeOK
BY Inductive, PTL DEF IInv

\* Whatever is fed, a token carries the escaped bit exactly if a backslash stood
\* before it that is no escape sequence: \u{...} cannot write an escaped token.
THEOREM EscapeCannotBeForged == Spec => []EscapeUnforgeable
BY Inductive, PTL DEF IInv

-----------------------------------------------------------------------------
\* Induction, on the set of the numbers for which something holds.
LEMMA SetInduction ==
  ASSUME NEW S, 0 \in S, \A n \in Nat : n \in S => n + 1 \in S
  PROVE  \A n \in Nat : n \in S
<1> DEFINE T == {n \in Nat : n \notin S}
           R == OpToRel(<, Nat)
<1> SUFFICES ASSUME T # {} PROVE FALSE
  OBVIOUS
<1>1. IsWellFoundedOn(R, Nat)
  BY NatLessThanWellFounded
<1>2. \A i, j \in Nat : <<i, j>> \in R <=> i < j
  BY DEF OpToRel
<1> HIDE DEF R
<1>3. PICK x \in T : \A y \in T : <<y, x>> \notin R
  BY <1>1, WFMin, Zenon
<1>4. x \in Nat /\ x # 0 /\ x - 1 \in Nat
  OBVIOUS
<1>5. x - 1 \in T
  <2>1. (x - 1) + 1 = x
    BY <1>4
  <2> QED
    BY <1>4, <2>1
<1>6. <<x - 1, x>> \in R
  BY <1>2, <1>4
<1> QED
  BY <1>3, <1>5, <1>6

\* g starts at z, and step i takes it on by F[i].
Iterates(g, n, z, F) == g[0] = z /\ \A i \in 1..n : g[i] = F[i][g[i-1]]

\* A recursion over 1..n has a solution.
LEMMA Recursion ==
  ASSUME NEW X, NEW z \in X, NEW n \in Nat, NEW F \in [1..n -> [X -> X]]
  PROVE  \E g \in [0..n -> X] : Iterates(g, n, z, F)
<1> DEFINE Solves(g, m) == g[0] = z /\ \A i \in 1..m : g[i] = F[i][g[i-1]]
           S == {m \in Nat : m <= n => \E g \in [0..m -> X] : Solves(g, m)}
<1>1. 0 \in S
  <2>1. [i \in 0..0 |-> z] \in [0..0 -> X] /\ Solves([i \in 0..0 |-> z], 0)
    OBVIOUS
  <2> QED
    BY <2>1
<1>2. ASSUME NEW m \in Nat, m \in S
      PROVE  m + 1 \in S
  <2> SUFFICES ASSUME m + 1 <= n
               PROVE  \E g \in [0..m+1 -> X] : Solves(g, m + 1)
    OBVIOUS
  <2>1. PICK f \in [0..m -> X] : Solves(f, m)
    BY <1>2
  <2> DEFINE g == [i \in 0..m+1 |-> IF i <= m THEN f[i] ELSE F[m+1][f[m]]]
  <2>2. m + 1 \in 1..n /\ m \in 0..m
    OBVIOUS
  <2>3. F[m+1][f[m]] \in X
    BY <2>1, <2>2
  <2>4. g \in [0..m+1 -> X]
    BY <2>3
  <2>5. g[0] = z
    BY <2>1
  <2>6. ASSUME NEW i \in 1..m+1
        PROVE  g[i] = F[i][g[i-1]]
    <3>1. CASE i = m + 1
      BY <3>1
    <3>2. CASE i \in 1..m
      BY <2>1, <3>2
    <3> QED
      BY <3>1, <3>2
  <2> QED
    BY <2>4, <2>5, <2>6
<1> HIDE DEF S
<1>3. n \in S
  BY <1>1, <1>2, SetInduction
<1> QED
  BY <1>3 DEF S, Iterates

-----------------------------------------------------------------------------
(* What the reference makes of a token that grows by a codepoint.          *)

LEMMA DigitIsDecoded ==
  ASSUME NEW c \in HexDigits
  PROVE  DigitValue(c) = HexDecode(c) /\ HexDecode(c) \in 0..15
<1> DEFINE P(n) == IF n < 10 THEN c = 48 + n ELSE c \in {65 + n - 10, 97 + n - 10}
<1>1. HexDecode(c) \in 0..15 /\ P(HexDecode(c))
  BY DEF HexDigits, HexDecode
<1>2. \A n \in 0..15 : P(n) => n = HexDecode(c)
  BY DEF HexDigits, HexDecode
<1>3. DigitValue(c) = CHOOSE n \in 0..15 : P(n)
  BY DEF DigitValue
<1> HIDE DEF P
<1>4. P(CHOOSE n \in 0..15 : P(n)) /\ (CHOOSE n \in 0..15 : P(n)) \in 0..15
  BY <1>1, Zenon
<1> QED
  BY <1>1, <1>2, <1>3, <1>4

\* The value of a payload is what its digits add up to, one after the other.
LEMMA ValueIsSummed ==
  ASSUME NEW s \in Seq(HexDigits)
  PROVE  \E v \in [0..Len(s) -> Nat] :
           /\ v[0] = 0 /\ Value(s) = v[Len(s)]
           /\ \A i \in 1..Len(s) : v[i] = 16 * v[i-1] + HexDecode(s[i])
<1> DEFINE F == [i \in 1..Len(s) |-> [x \in Nat |-> 16 * x + HexDecode(s[i])]]
<1>1. Len(s) \in Nat /\ \A i \in 1..Len(s) : s[i] \in HexDigits
  BY LenProperties, ElementOfSeq
<1>2. \A i \in 1..Len(s) : HexDecode(s[i]) \in 0..15 /\ DigitValue(s[i]) = HexDecode(s[i])
  BY <1>1, DigitIsDecoded
<1>3. F \in [1..Len(s) -> [Nat -> Nat]]
  BY <1>2, SMTT(30)
<1> HIDE DEF F
<1>4. PICK g \in [0..Len(s) -> Nat] : Iterates(g, Len(s), 0, F)
  <2>1. 0 \in Nat
    OBVIOUS
  <2> QED
    BY <1>1, <1>3, <2>1, Recursion
<1>5. g[0] = 0 /\ \A i \in 1..Len(s) : g[i] = 16 * g[i-1] + HexDecode(s[i])
  <2> SUFFICES ASSUME NEW i \in 1..Len(s)
               PROVE  g[i] = 16 * g[i-1] + HexDecode(s[i])
    BY <1>4 DEF Iterates
  <2>1. g[i-1] \in Nat
    BY <1>1
  <2>2. F[i][g[i-1]] = 16 * g[i-1] + HexDecode(s[i])
    BY <2>1 DEF F
  <2> QED
    BY <1>4, <2>2 DEF Iterates
<1> DEFINE Solves(f) ==
      f = [i \in 0..Len(s) |-> IF i = 0 THEN 0 ELSE 16 * f[i-1] + DigitValue(s[i])]
<1>6. Solves(g)
  <2>1. g = [i \in 0..Len(s) |-> g[i]]
    BY <1>4
  <2>2. \A i \in 0..Len(s) : g[i] = IF i = 0 THEN 0 ELSE 16 * g[i-1] + DigitValue(s[i])
    BY <1>1, <1>2, <1>4, <1>5
  <2> QED
    BY <2>1, <2>2, Zenon
<1> DEFINE v == CHOOSE f : Solves(f)
<1>7. Solves(v)
  BY <1>6, Zenon
<1>8. Value(s) = v[Len(s)]
  BY DEF Value
<1> HIDE DEF v
<1>9. v[Len(s)] = g[Len(s)]
  <2>1. v[0] = g[0] /\ \A i \in 1..Len(s) : v[i] = 16 * v[i-1] + HexDecode(s[i])
    BY <1>1, <1>2, <1>5, <1>7
  <2> DEFINE S == {i \in Nat : i <= Len(s) => v[i] = g[i]}
  <2>2. 0 \in S
    BY <2>1
  <2>3. ASSUME NEW i \in Nat, i \in S
        PROVE  i + 1 \in S
    <3> SUFFICES ASSUME i + 1 <= Len(s) PROVE v[i+1] = g[i+1]
      OBVIOUS
    <3>1. i + 1 \in 1..Len(s) /\ (i + 1) - 1 = i /\ v[i] = g[i]
      BY <1>1, <2>3
    <3> QED
      BY <3>1, <2>1, <1>5
  <2> HIDE DEF S
  <2>4. \A i \in Nat : i \in S
    BY <2>2, <2>3, SetInduction
  <2> QED
    BY <1>1, <2>4 DEF S
<1> QED
  BY <1>4, <1>5, <1>8, <1>9

LEMMA ValueOfNone ==
  ASSUME NEW s \in Seq(HexDigits), Len(s) = 0
  PROVE  Value(s) = 0
BY ValueIsSummed

\* One more digit makes the ones before it worth sixteen times as much.
LEMMA ValueGrows ==
  ASSUME NEW s \in Seq(HexDigits), NEW c \in HexDigits
  PROVE  Value(Append(s, c)) = 16 * Value(s) + HexDecode(c)
<1> DEFINE t == Append(s, c)
<1>1. /\ Len(s) \in Nat /\ t \in Seq(HexDigits) /\ Len(t) = Len(s) + 1
      /\ t[Len(s) + 1] = c /\ \A i \in 1..Len(s) : t[i] = s[i]
  BY LenProperties, AppendProperties
<1> HIDE DEF t
<1>2. PICK v \in [0..Len(s) -> Nat] :
        /\ v[0] = 0 /\ Value(s) = v[Len(s)]
        /\ \A i \in 1..Len(s) : v[i] = 16 * v[i-1] + HexDecode(s[i])
  BY ValueIsSummed
<1>3. PICK w \in [0..Len(t) -> Nat] :
        /\ w[0] = 0 /\ Value(t) = w[Len(t)]
        /\ \A i \in 1..Len(t) : w[i] = 16 * w[i-1] + HexDecode(t[i])
  BY <1>1, ValueIsSummed
<1>4. w[Len(s)] = v[Len(s)]
  <2> DEFINE S == {i \in Nat : i <= Len(s) => w[i] = v[i]}
  <2>1. 0 \in S
    BY <1>2, <1>3
  <2>2. ASSUME NEW i \in Nat, i \in S
        PROVE  i + 1 \in S
    <3> SUFFICES ASSUME i + 1 <= Len(s) PROVE w[i+1] = v[i+1]
      OBVIOUS
    <3>1. /\ i + 1 \in 1..Len(s) /\ i + 1 \in 1..Len(t) /\ (i + 1) - 1 = i
          /\ w[i] = v[i] /\ t[i+1] = s[i+1]
      BY <1>1, <2>2
    <3> QED
      BY <3>1, <1>2, <1>3
  <2> HIDE DEF S
  <2>3. \A i \in Nat : i \in S
    BY <2>1, <2>2, SetInduction
  <2> QED
    BY <1>1, <2>3 DEF S
<1>5. w[Len(t)] = 16 * w[Len(s)] + HexDecode(c)
  <2>1. Len(t) \in 1..Len(t) /\ Len(t) - 1 = Len(s) /\ t[Len(t)] = c
    BY <1>1
  <2> QED
    BY <1>3, <2>1
<1> QED
  BY <1>2, <1>3, <1>4, <1>5 DEF t

\* A begun token is the whole of one that lacks its end.
LEMMA FrontOfAppend ==
  ASSUME NEW S, NEW s \in Seq(S), NEW c \in S
  PROVE  SubSeq(Append(s, c), 1, Len(Append(s, c)) - 1) = s
<1> DEFINE t == Append(s, c)
<1>1. Len(s) \in Nat /\ Len(t) = Len(s) + 1 /\ \A i \in 1..Len(s) : t[i] = s[i] /\ t[i] \in S
  BY LenProperties, ElementOfSeq, AppendProperties
<1> HIDE DEF t
<1>2. /\ SubSeq(t, 1, Len(s)) \in Seq(S) /\ Len(SubSeq(t, 1, Len(s))) = Len(s)
      /\ \A i \in 1..Len(s) : SubSeq(t, 1, Len(s))[i] = s[i]
  <2>1. \A i \in 1..Len(s) : t[i] \in S
    BY <1>1
  <2> QED
    BY <1>1, <2>1, SubSeqProperties
<1>3. SubSeq(t, 1, Len(s)) = s
  <2> DEFINE u == SubSeq(t, 1, Len(s))
  <2> HIDE DEF u
  <2>1. u = s
    BY <1>2, SeqEqual DEF u
  <2> QED
    BY <2>1 DEF u
<1>4. Len(t) - 1 = Len(s)
  BY <1>1
<1> QED
  BY <1>3, <1>4 DEF t

\* What is left of a sequence without its first three elements.
LEMMA FromTheFourth ==
  ASSUME NEW S, NEW s, NEW n \in Nat, n >= 3, \A i \in 4..n : s[i] \in S
  PROVE  /\ SubSeq(s, 4, n) \in Seq(S) /\ Len(SubSeq(s, 4, n)) = n - 3
         /\ \A i \in 1..n - 3 : SubSeq(s, 4, n)[i] = s[3 + i]
<1>1. 4 \in Int /\ n \in Int
  OBVIOUS
<1>2. /\ SubSeq(s, 4, n) \in Seq(S)
      /\ Len(SubSeq(s, 4, n)) = IF 4 <= n THEN n - 4 + 1 ELSE 0
      /\ \A i \in 1..n - 4 + 1 : SubSeq(s, 4, n)[i] = s[4 + i - 1]
  BY <1>1, SubSeqProperties
<1>3. n - 4 + 1 = n - 3 /\ \A i \in 1..n - 3 : 4 + i - 1 = 3 + i
  OBVIOUS
<1> QED
  BY <1>2, <1>3

\* The digits in a token that is being read, from the fourth codepoint on.
LEMMA DigitsGrow ==
  ASSUME NEW s \in Seq(Nat), Len(s) >= 3, NEW c \in Nat
  PROVE  /\ Payload(Append(s, c)) = SubSeq(s, 4, Len(s))
         /\ SubSeq(Append(s, c), 4, Len(s) + 1) = Append(SubSeq(s, 4, Len(s)), c)
<1> DEFINE t == Append(s, c)
           d == SubSeq(s, 4, Len(s))
           e == SubSeq(t, 4, Len(s))
           f == SubSeq(t, 4, Len(s) + 1)
<1>1. /\ Len(s) \in Nat /\ Len(t) = Len(s) + 1 /\ t \in Seq(Nat)
      /\ \A i \in 1..Len(s) : t[i] = s[i] /\ t[i] \in Nat /\ s[i] \in Nat
      /\ t[Len(s) + 1] = c
  BY LenProperties, ElementOfSeq, AppendProperties
<1>0. Len(s) \in Nat /\ Len(s) >= 3
  BY <1>1
<1> HIDE DEF t
<1>2. /\ d \in Seq(Nat) /\ Len(d) = Len(s) - 3
      /\ \A i \in 1..Len(s) - 3 : d[i] = s[3 + i]
  <2>1. \A i \in 4..Len(s) : s[i] \in Nat
    BY <1>1
  <2> QED
    <3>1. PICK n \in Nat : n = Len(s)
      BY <1>0
    <3> QED
      BY <1>0, <2>1, <3>1, FromTheFourth
<1>3. /\ e \in Seq(Nat) /\ Len(e) = Len(s) - 3
      /\ \A i \in 1..Len(s) - 3 : e[i] = s[3 + i]
  <2>1. \A i \in 4..Len(s) : t[i] \in Nat
    BY <1>1
  <2>2. /\ e \in Seq(Nat) /\ Len(e) = Len(s) - 3
        /\ \A i \in 1..Len(s) - 3 : e[i] = t[3 + i]
    <3>1. PICK n \in Nat : n = Len(s)
      BY <1>0
    <3> QED
      BY <1>0, <2>1, <3>1, FromTheFourth
  <2> QED
    BY <1>1, <2>2, SMTT(30)
<1>4. /\ f \in Seq(Nat) /\ Len(f) = Len(s) - 2
      /\ \A i \in 1..Len(s) - 2 : f[i] = t[3 + i]
  <2>1. \A i \in 4..Len(s) + 1 : t[i] \in Nat
    BY <1>1
  <2>2. Len(s) + 1 \in Nat /\ Len(s) + 1 >= 3 /\ Len(s) + 1 - 3 = Len(s) - 2
    BY <1>1
  <2> QED
    BY <2>1, <2>2, FromTheFourth
<1> HIDE DEF d, e, f
<1>5. e = d
  BY <1>2, <1>3, SeqEqual
<1>6. f = Append(d, c)
  <2>1. /\ Append(d, c) \in Seq(Nat) /\ Len(Append(d, c)) = Len(s) - 2
        /\ \A i \in 1..Len(s) - 3 : Append(d, c)[i] = d[i]
        /\ Append(d, c)[Len(s) - 2] = c
    <3>1. Len(s) - 3 + 1 = Len(s) - 2
      BY <1>1
    <3> QED
      BY <1>2, <3>1, AppendProperties
  <2>2. \A i \in 1..Len(s) - 2 : f[i] = Append(d, c)[i]
    <3> SUFFICES ASSUME NEW i \in 1..Len(s) - 2 PROVE f[i] = Append(d, c)[i]
      OBVIOUS
    <3>1. CASE i = Len(s) - 2
      <4>1. 3 + i = Len(s) + 1 /\ i \in 1..Len(s) - 2
        BY <1>1, <3>1
      <4> QED
        BY <1>1, <1>4, <2>1, <3>1, <4>1
    <3>2. CASE i \in 1..Len(s) - 3
      <4>1. 3 + i \in 1..Len(s)
        BY <1>1, <3>2
      <4>2. t[3 + i] = s[3 + i]
        BY <1>1, <4>1
      <4> QED
        BY <1>2, <1>4, <2>1, <3>2, <4>2
    <3>3. i = Len(s) - 2 \/ i \in 1..Len(s) - 3
      BY <1>0
    <3> QED
      BY <3>1, <3>2, <3>3
  <2>3. Len(f) = Len(Append(d, c))
    BY <1>4, <2>1
  <2> QED
    BY <1>4, <2>1, <2>2, <2>3, SeqEqual
<1>7. Len(t) - 1 = Len(s)
  BY <1>1
<1> QED
  BY <1>5, <1>6, <1>7 DEF Payload, t, d, e, f

-----------------------------------------------------------------------------
(* What has been read while a token is begun.                              *)

\* s opens a payload that holds nothing but digits.
Opened(s) ==
  /\ Len(s) >= 3 /\ s[1] = Backslash /\ s[2] = LetterU /\ s[3] = LeftBrace
  /\ \A i \in 4..Len(s) : s[i] \in HexDigits

Read ==
  /\ state = "escaped" => raw = <<Backslash>>
  /\ state = "unicode" => raw = <<Backslash, LetterU>>
  /\ state = "payload" =>
       Opened(raw) /\ Len(raw) = 3 + length /\ payload = Value(SubSeq(raw, 4, Len(raw)))
  /\ state \in {"escaped", "unicode", "payload"} => offset = start + Len(raw)

LEMMA CodepointsDiffer ==
  /\ Backslash = 92 /\ LetterU = 117 /\ LeftBrace = 123 /\ RightBrace = 125
  /\ HexDigits \subseteq Nat /\ RightBrace \notin HexDigits
BY DEF Backslash, LetterU, LeftBrace, RightBrace, HexDigits

\* A codepoint more.
LEMMA AppendOne ==
  ASSUME NEW s \in Seq(Nat), NEW c \in Nat
  PROVE  /\ Len(s) \in Nat /\ Append(s, c) \in Seq(Nat) /\ Len(Append(s, c)) = Len(s) + 1
         /\ \A i \in 1..Len(s) : Append(s, c)[i] = s[i]
         /\ Append(s, c)[Len(s) + 1] = c
BY LenProperties, AppendProperties

LEMMA OpenedDigits ==
  ASSUME NEW s \in Seq(Nat), Opened(s)
  PROVE  SubSeq(s, 4, Len(s)) \in Seq(HexDigits) /\ Len(SubSeq(s, 4, Len(s))) = Len(s) - 3
<1>1. PICK n \in Nat : n = Len(s)
  BY LenProperties
<1>2. n >= 3 /\ \A i \in 4..n : s[i] \in HexDigits
  BY <1>1 DEF Opened
<1>3. SubSeq(s, 4, n) \in Seq(HexDigits) /\ Len(SubSeq(s, 4, n)) = n - 3
  BY <1>2, FromTheFourth
<1> QED
  BY <1>1, <1>3

\* The closing brace makes a token of what has been opened, if it is short enough.
LEMMA OpenedCloses ==
  ASSUME NEW s \in Seq(Nat), Opened(s), Len(s) <= 3 + MaxPayload
  PROVE  IsUnicodeToken(Append(s, RightBrace)) /\ IsBegun(s)
<1> DEFINE t == Append(s, RightBrace)
<1>1. RightBrace \in Nat
  BY CodepointsDiffer
<1>2. /\ Len(s) \in Nat /\ Len(t) = Len(s) + 1 /\ t[Len(s) + 1] = RightBrace
      /\ \A i \in 1..Len(s) : t[i] = s[i]
  BY <1>1, AppendOne
<1>3. Payload(t) \in Seq(HexDigits)
  BY <1>1, OpenedDigits, DigitsGrow DEF Opened
<1>4. IsHex(Payload(t))
  BY <1>3, LenProperties, ElementOfSeq DEF IsHex
<1> HIDE DEF t
<1>5. 1 \in 1..Len(s) /\ 2 \in 1..Len(s) /\ 3 \in 1..Len(s) /\ Len(s) >= 3 /\ Len(s) <= 9
  BY <1>2 DEF Opened, MaxPayload
<1>6. t[1] = Backslash /\ t[2] = LetterU /\ t[3] = LeftBrace
  BY <1>2, <1>5 DEF Opened
<1>7. Len(t) >= 4 /\ Len(t) <= 4 + MaxPayload
  BY <1>2, <1>5 DEF MaxPayload
<1>8. IsUnicodeToken(t)
  BY <1>2, <1>4, <1>6, <1>7 DEF IsUnicodeToken
<1> QED
  BY <1>8 DEF IsBegun, t

\* And nothing else of that length can become a token.
LEMMA LongBegunIsOpened ==
  ASSUME NEW s \in Seq(Nat), Len(s) >= 3, IsBegun(s)
  PROVE  Opened(s) /\ Len(s) <= 3 + MaxPayload
<1> DEFINE t == Append(s, RightBrace)
<1>1. RightBrace \in Nat
  BY CodepointsDiffer
<1>2. /\ Len(s) \in Nat /\ Len(t) = Len(s) + 1 /\ t[Len(s) + 1] = RightBrace
      /\ \A i \in 1..Len(s) : t[i] = s[i]
  BY <1>1, AppendOne
<1>3. s # <<Backslash>> /\ s # <<Backslash, LetterU>>
  <2>1. Len(<<Backslash>>) = 1 /\ Len(<<Backslash, LetterU>>) = 2
    OBVIOUS
  <2>2. \A n \in Nat : n >= 3 => n # 1 /\ n # 2
    OBVIOUS
  <2>3. Len(s) # 1 /\ Len(s) # 2
    BY <1>2, <2>2
  <2> QED
    BY <2>1, <2>3, Zenon
<1>4. IsUnicodeToken(t) /\ Len(s) <= 3 + MaxPayload
  BY <1>3 DEF IsBegun
<1>5. Payload(t) = SubSeq(s, 4, Len(s))
  BY <1>1, DigitsGrow
<1>6. PICK n \in Nat : n = Len(s)
  BY <1>2
<1>7. n >= 3 /\ \A i \in 4..n : s[i] \in Nat
  BY <1>6, ElementOfSeq
<1>8. /\ SubSeq(s, 4, n) \in Seq(Nat) /\ Len(SubSeq(s, 4, n)) = n - 3
      /\ \A i \in 1..n - 3 : SubSeq(s, 4, n)[i] = s[3 + i]
  BY <1>7, FromTheFourth
<1>9. DOMAIN SubSeq(s, 4, n) = 1..n - 3
  BY <1>8, LenProperties
<1>10. IsHex(SubSeq(s, 4, n))
  BY <1>4, <1>5, <1>6 DEF IsUnicodeToken
<1>11. \A i \in 1..n - 3 : s[3 + i] \in HexDigits
  BY <1>8, <1>9, <1>10 DEF IsHex
<1>12. \A i \in 4..n : s[i] \in HexDigits
  <2> SUFFICES ASSUME NEW i \in 4..n PROVE s[i] \in HexDigits
    OBVIOUS
  <2>1. i - 3 \in 1..n - 3 /\ 3 + (i - 3) = i
    BY <1>7
  <2> QED
    BY <2>1, <1>11
<1> HIDE DEF t
<1>13. s[1] = Backslash /\ s[2] = LetterU /\ s[3] = LeftBrace
  BY <1>2, <1>4, <1>6, <1>7 DEF IsUnicodeToken
<1> QED
  BY <1>4, <1>6, <1>7, <1>12, <1>13 DEF Opened

\* A token of three codepoints or more ends with the closing brace.
LEMMA LongTokenCloses ==
  ASSUME NEW s \in Seq(Nat), Len(s) >= 3, IsToken(s)
  PROVE  s[Len(s)] = RightBrace
BY LenProperties DEF IsToken, IsUnicodeToken

-----------------------------------------------------------------------------
DInv == IInv /\ Read /\ Decodes

LEMMA InputIsNat == Input \subseteq Nat /\ \A s \in Seq(Input) : s \in Seq(Nat)
BY InputAssumption, SeqMonotonic

\* What a call outside the initial state knows.
LEMMA Grows ==
  ASSUME DInv, NEW c \in Input, Advance(c), state # "init"
  PROVE  /\ raw \in Seq(Nat) /\ c \in Nat /\ raw' = Append(raw, c) /\ raw' \in Seq(Nat)
         /\ Len(raw) \in Nat /\ Len(raw') = Len(raw) + 1 /\ raw' # <<>>
         /\ raw'[Len(raw) + 1] = c /\ \A i \in 1..Len(raw) : raw'[i] = raw[i]
         /\ offset' = offset + 1
         /\ SubSeq(raw', 1, Len(raw') - 1) = raw
<1>1. raw \in Seq(Nat) /\ c \in Nat /\ raw \in Seq(Input)
  BY InputIsNat DEF DInv, IInv, TypeOK
<1>2. raw' = Append(raw, c) /\ offset' = offset + 1
  BY DEF Advance
<1>3. SubSeq(raw', 1, Len(raw') - 1) = raw
  BY <1>1, <1>2, FrontOfAppend
<1>4. Len(raw') \in Nat /\ Len(raw') >= 1
  BY <1>1, <1>2, AppendOne
<1>5. raw' # <<>>
  BY <1>1, <1>2, AppendProperties
<1> QED
  BY <1>1, <1>2, <1>3, <1>5, AppendOne

LEMMA ReadInit == Init => Read /\ Decodes
BY DEF Init, Read, Decodes, Errors

LEMMA PlainDecodes ==
  ASSUME DInv, NEW c \in Input, Plain(c)
  PROVE  Read' /\ Decodes'
<1>1. raw' = <<c>> /\ state' = "init" /\ token' = c /\ offset' = offset + 1 /\ start' = offset
  BY DEF Plain, Advance, Emit
<1>2. c # Backslash /\ offset \in Nat
  BY MaxInputAssumption DEF Plain, DInv, IInv, TypeOK
<1>3. Len(<<c>>) = 1 /\ <<c>>[1] = c
  OBVIOUS
<1> QED
  BY <1>1, <1>2, <1>3 DEF Read, Decodes, IsToken, Denotes, Errors

LEMMA BeginEscapeDecodes ==
  ASSUME DInv, NEW c \in Input, BeginEscape(c)
  PROVE  Read' /\ Decodes'
<1>1. raw' = <<c>> /\ state' = "escaped" /\ offset' = offset + 1 /\ start' = offset
  BY DEF BeginEscape, Advance
<1>2. c = Backslash /\ offset \in Nat
  BY MaxInputAssumption DEF BeginEscape, DInv, IInv, TypeOK
<1>3. Len(<<c>>) = 1
  OBVIOUS
<1> QED
  BY <1>1, <1>2, <1>3 DEF Read, Decodes, IsBegun, Errors

\* The two escapes of two codepoints.
LEMMA EscapesDecode ==
  ASSUME DInv, NEW c \in Input, SimpleEscape(c) \/ Escape(c)
  PROVE  Read' /\ Decodes'
<1>1. /\ state = "escaped" /\ Advance(c) /\ state' = "init" /\ start' = start
      /\ token' = IF c \in SimpleEscapes THEN Simple(c) ELSE c + EscapedBit
  BY DEF SimpleEscape, Escape, Emit
<1>2. raw = <<Backslash>> /\ offset = start + Len(raw)
  BY <1>1 DEF DInv, Read
<1>3. Len(raw) = 1 /\ raw[1] = Backslash
  BY <1>2
<1>4. Len(raw') = 2 /\ raw'[1] = Backslash /\ raw'[2] = c /\ offset' = offset + 1
  BY <1>1, <1>3, Grows
<1>5. c # LetterU
  BY DEF SimpleEscape, SimpleEscapes, Escape, LetterU, Backslash
<1>6. IsToken(raw') /\ token' = Denotes(raw')
  BY <1>1, <1>4, <1>5 DEF IsToken, Denotes
<1>7. start \in Nat
  BY MaxInputAssumption DEF DInv, IInv, TypeOK
<1>8. offset' = start' + Len(raw')
  BY <1>1, <1>2, <1>3, <1>4, <1>7
<1> QED
  BY <1>1, <1>6, <1>8 DEF Read, Decodes, Errors

LEMMA BeginUnicodeDecodes ==
  ASSUME DInv, NEW c \in Input, BeginUnicode(c)
  PROVE  Read' /\ Decodes'
<1>1. state = "escaped" /\ Advance(c) /\ state' = "unicode" /\ start' = start /\ c = LetterU
  BY DEF BeginUnicode
<1>2. raw = <<Backslash>> /\ offset = start + Len(raw)
  BY <1>1 DEF DInv, Read
<1>3. raw' = <<Backslash, LetterU>> /\ offset' = offset + 1
  BY <1>1, <1>2, Grows
<1>4. Len(raw) = 1 /\ Len(raw') = 2 /\ start \in Nat
  BY <1>2, <1>3, MaxInputAssumption DEF DInv, IInv, TypeOK
<1>5. offset' = start' + Len(raw')
  BY <1>1, <1>2, <1>3, <1>4
<1> QED
  BY <1>1, <1>3, <1>5 DEF Read, Decodes, IsBegun, Errors

LEMMA OpenPayloadDecodes ==
  ASSUME DInv, NEW c \in Input, OpenPayload(c)
  PROVE  Read' /\ Decodes'
<1>1. /\ state = "unicode" /\ Advance(c) /\ state' = "payload" /\ start' = start
      /\ c = LeftBrace /\ length' = 0 /\ payload' = 0
  BY DEF OpenPayload
<1>2. raw = <<Backslash, LetterU>> /\ offset = start + Len(raw)
  BY <1>1 DEF DInv, Read
<1>3. Len(raw) = 2 /\ raw[1] = Backslash /\ raw[2] = LetterU
  BY <1>2
<1>4. /\ raw' \in Seq(Nat) /\ Len(raw') = 3 /\ offset' = offset + 1
      /\ raw'[1] = Backslash /\ raw'[2] = LetterU /\ raw'[3] = LeftBrace
  BY <1>1, <1>3, Grows
<1>5. Opened(raw')
  BY <1>4 DEF Opened
<1>6. SubSeq(raw', 4, Len(raw')) \in Seq(HexDigits) /\ Len(SubSeq(raw', 4, Len(raw'))) = 0
  BY <1>4, <1>5, OpenedDigits
<1>7. payload' = Value(SubSeq(raw', 4, Len(raw')))
  BY <1>1, <1>6, ValueOfNone
<1>8. IsBegun(raw')
  <2>1. Len(raw') <= 3 + MaxPayload
    BY <1>4 DEF MaxPayload
  <2> QED
    BY <1>4, <1>5, <2>1, OpenedCloses
<1>9. start \in Nat
  BY MaxInputAssumption DEF DInv, IInv, TypeOK
<1>10. offset' = start' + Len(raw')
  BY <1>1, <1>2, <1>3, <1>4, <1>9
<1>11. Read'
  BY <1>1, <1>4, <1>5, <1>7, <1>10 DEF Read
<1> QED
  BY <1>1, <1>8, <1>11 DEF Decodes, Errors

LEMMA PayloadDigitDecodes ==
  ASSUME DInv, NEW c \in Input, PayloadDigit(c)
  PROVE  Read' /\ Decodes'
<1>1. /\ state = "payload" /\ Advance(c) /\ state' = "payload" /\ start' = start
      /\ c \in HexDigits /\ length' = length + 1 /\ length < MaxPayload
      /\ payload' = 16 * payload + HexDecode(c)
  BY DEF PayloadDigit
<1>2. /\ Opened(raw) /\ Len(raw) = 3 + length /\ payload = Value(SubSeq(raw, 4, Len(raw)))
      /\ offset = start + Len(raw) /\ length \in Nat /\ start \in Nat
  BY <1>1, MaxInputAssumption DEF DInv, Read, IInv, TypeOK
<1>3. /\ raw \in Seq(Nat) /\ c \in Nat /\ raw' = Append(raw, c) /\ raw' \in Seq(Nat)
      /\ Len(raw) \in Nat /\ Len(raw') = Len(raw) + 1 /\ raw'[Len(raw) + 1] = c
      /\ \A i \in 1..Len(raw) : raw'[i] = raw[i]
      /\ offset' = offset + 1
  BY <1>1, Grows
<1>4. Len(raw) >= 3
  BY <1>2 DEF Opened
<1>5. Opened(raw')
  <2>1. raw'[1] = Backslash /\ raw'[2] = LetterU /\ raw'[3] = LeftBrace
    BY <1>2, <1>3, <1>4 DEF Opened
  <2>2. \A i \in 4..Len(raw') : raw'[i] \in HexDigits
    <3> SUFFICES ASSUME NEW i \in 4..Len(raw') PROVE raw'[i] \in HexDigits
      OBVIOUS
    <3>1. i = Len(raw) + 1 \/ i \in 4..Len(raw)
      BY <1>3
    <3> QED
      BY <1>1, <1>2, <1>3, <3>1 DEF Opened
  <2> QED
    BY <1>3, <1>4, <2>1, <2>2 DEF Opened
<1>6. SubSeq(raw', 4, Len(raw')) = Append(SubSeq(raw, 4, Len(raw)), c)
  BY <1>3, <1>4, DigitsGrow
<1>7. payload' = Value(SubSeq(raw', 4, Len(raw')))
  BY <1>1, <1>2, <1>3, <1>6, OpenedDigits, ValueGrows
<1>8. Len(raw') = 3 + length' /\ Len(raw') <= 3 + MaxPayload /\ offset' = start' + Len(raw')
  BY <1>1, <1>2, <1>3 DEF MaxPayload
<1>9. IsBegun(raw')
  BY <1>3, <1>5, <1>8, OpenedCloses
<1>10. Read'
  BY <1>1, <1>5, <1>7, <1>8 DEF Read
<1> QED
  BY <1>1, <1>9, <1>10 DEF Decodes, Errors

LEMMA ClosePayloadDecodes ==
  ASSUME DInv, NEW c \in Input, ClosePayload(c)
  PROVE  Read' /\ Decodes'
<1>1. /\ state = "payload" /\ Advance(c) /\ state' = "init" /\ start' = start
      /\ c = RightBrace /\ token' = payload
  BY DEF ClosePayload, Emit
<1>2. /\ Opened(raw) /\ Len(raw) = 3 + length /\ payload = Value(SubSeq(raw, 4, Len(raw)))
      /\ offset = start + Len(raw) /\ length \in Nat /\ length <= MaxPayload /\ start \in Nat
  BY <1>1, MaxInputAssumption DEF DInv, Read, IInv, TypeOK, Seen
<1>3. /\ raw \in Seq(Nat) /\ c \in Nat /\ raw' = Append(raw, c)
      /\ Len(raw) \in Nat /\ Len(raw') = Len(raw) + 1 /\ offset' = offset + 1
  BY <1>1, Grows
<1>4. Len(raw) >= 3 /\ Len(raw) <= 3 + MaxPayload
  BY <1>2 DEF Opened, MaxPayload
<1>5. IsToken(raw')
  BY <1>1, <1>2, <1>3, <1>4, OpenedCloses DEF IsToken
<1>6. Payload(raw') = SubSeq(raw, 4, Len(raw))
  BY <1>3, <1>4, DigitsGrow
<1>7. token' = Denotes(raw')
  BY <1>1, <1>2, <1>3, <1>4, <1>6 DEF Denotes
<1>8. offset' = start' + Len(raw')
  BY <1>1, <1>2, <1>3
<1> QED
  BY <1>1, <1>5, <1>7, <1>8 DEF Read, Decodes, Errors

\* Nothing that follows can make a token of what the machine gives up on.
LEMMA NoPayloadDecodes ==
  ASSUME DInv, NEW c \in Input, NoPayload(c)
  PROVE  Read' /\ Decodes'
<1>1. state = "unicode" /\ Advance(c) /\ state' = "unicode_start" /\ c # LeftBrace
  BY DEF NoPayload
<1>2. raw = <<Backslash, LetterU>> /\ Len(raw) = 2 /\ raw[2] = LetterU
  BY <1>1 DEF DInv, Read
<1>3. /\ raw' \in Seq(Nat) /\ Len(raw') = 3 /\ raw'[2] = LetterU /\ raw'[3] = c
      /\ SubSeq(raw', 1, Len(raw') - 1) = raw
  BY <1>1, <1>2, Grows
<1>4. ~Opened(raw')
  BY <1>1, <1>3 DEF Opened
<1>5. ~IsBegun(raw')
  <2>1. Len(raw') >= 3
    BY <1>3
  <2> QED
    BY <1>3, <1>4, <2>1, LongBegunIsOpened
<1>6. ~IsToken(raw')
  BY <1>3 DEF IsToken, IsUnicodeToken
<1>7. IsBegun(raw)
  BY <1>2 DEF IsBegun
<1> QED
  BY <1>1, <1>3, <1>5, <1>6, <1>7 DEF Read, Decodes, Errors

LEMMA FailingDecodes ==
  ASSUME DInv, NEW c \in Input, PayloadTooLong(c) \/ NoHexDigit(c)
  PROVE  Read' /\ Decodes'
<1>1. /\ state = "payload" /\ Advance(c) /\ c # RightBrace
      /\ state' \in {"unicode_payload_len", "unicode_payload"}
      /\ length >= MaxPayload \/ c \notin HexDigits
  BY DEF PayloadTooLong, NoHexDigit
<1>2. /\ Opened(raw) /\ Len(raw) = 3 + length /\ IsBegun(raw)
      /\ length \in Nat /\ length <= MaxPayload
  BY <1>1 DEF DInv, Read, Decodes, IInv, TypeOK, Seen
<1>3. /\ raw' \in Seq(Nat) /\ Len(raw) \in Nat /\ Len(raw') = Len(raw) + 1
      /\ raw'[Len(raw) + 1] = c
      /\ SubSeq(raw', 1, Len(raw') - 1) = raw
  BY <1>1, Grows
<1>4. Len(raw) >= 3
  BY <1>2 DEF Opened
<1>5. ~IsToken(raw')
  BY <1>1, <1>3, <1>4, LongTokenCloses
<1>6. ~IsBegun(raw')
  <2> SUFFICES ASSUME IsBegun(raw') PROVE FALSE
    OBVIOUS
  <2>1. Opened(raw') /\ Len(raw') <= 3 + MaxPayload
    BY <1>3, <1>4, LongBegunIsOpened
  <2>2. CASE length >= MaxPayload
    BY <1>2, <1>3, <2>1, <2>2 DEF MaxPayload
  <2>3. CASE c \notin HexDigits
    <3>1. Len(raw) + 1 \in 4..Len(raw')
      BY <1>3, <1>4
    <3> QED
      BY <1>3, <2>1, <2>3, <3>1 DEF Opened
  <2> QED
    BY <1>1, <2>2, <2>3
<1> QED
  BY <1>1, <1>2, <1>3, <1>5, <1>6 DEF Read, Decodes, Errors

LEMMA StutterDecodes == ASSUME DInv, UNCHANGED vars PROVE Read' /\ Decodes'
BY DEF DInv, Read, Decodes, vars

LEMMA DecodesInductive == Spec => []DInv
<1>1. Init => DInv
  BY InitHolds, ReadInit DEF DInv
<1>2. ASSUME DInv, [Next]_vars PROVE DInv'
  <2>1. IInv'
    BY <1>2, PlainKeeps, BeginEscapeKeeps, BeginUnicodeKeeps, NoPayloadKeeps, SimpleEscapeKeeps,
       EscapeKeeps, OpenPayloadKeeps, ClosePayloadKeeps, FailingKeeps, PayloadDigitKeeps,
       StutterKeeps
       DEF DInv, Next, Feed, InError
  <2>2. Read' /\ Decodes'
    BY <1>2, PlainDecodes, BeginEscapeDecodes, BeginUnicodeDecodes, NoPayloadDecodes,
       EscapesDecode, OpenPayloadDecodes, ClosePayloadDecodes, FailingDecodes,
       PayloadDigitDecodes, StutterDecodes
       DEF Next, Feed, InError
  <2> QED
    BY <2>1, <2>2 DEF DInv
<1> QED
  BY <1>1, <1>2, PTL DEF Spec

\* For every input, and any amount of it: a complete token stands for exactly the
\* codepoints it was written with (the value of \u{...} included) and its offset
\* is where they start; the machine waits for more exactly while what it has read
\* can still become a token, and gives up at the first codepoint that rules it out.
THEOREM DecodesItsInput == Spec => []Decodes
BY DecodesInductive, PTL DEF DInv
=============================================================================
