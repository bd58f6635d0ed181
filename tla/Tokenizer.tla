----------------------------- MODULE Tokenizer ------------------------------
(***************************************************************************)
(* passgen_token_parse of src/parser/token.c: a state machine that is fed  *)
(* one codepoint at a time and emits a token whenever it is back in its    *)
(* initial state.                                                          *)
(***************************************************************************)
EXTENDS Codepoints, Sequences

CONSTANTS
  Input,      \* codepoints that may be fed
  MaxInput    \* bound: how many are fed

\* What UTF-8 can encode has 21 bits.
ASSUME InputAssumption == \A c \in Input : c \in Nat /\ c < 2097152
ASSUME MaxInputAssumption == MaxInput \in Nat

VARIABLES
  state,      \* parser->state
  length,     \* data.unicode_payload.length
  payload,    \* data.unicode_payload.codepoint
  offset,     \* parser->offset: codepoints fed and accepted
  token,      \* token->codepoint
  start,      \* token->offset
  raw         \* history: the codepoints fed since the last token was complete

vars == <<state, length, payload, offset, token, start, raw>>

Errors == {"unicode_start", "unicode_payload", "unicode_payload_len"}

\* simple_escaped: a, b, e, f, n, r, t, v and the backslash.
SimpleEscapes == {97, 98, 101, 102, 110, 114, 116, 118, Backslash}

Simple(c) ==
  CASE c = 97  -> 7  [] c = 98  -> 8  [] c = 101 -> 27 [] c = 102 -> 12
    [] c = 110 -> 10 [] c = 114 -> 13 [] c = 116 -> 9  [] c = 118 -> 11
    [] c = Backslash -> Backslash

HexDigits == (48..57) \union (65..70) \union (97..102)

\* Mutant: the letters count from zero.
HexDecodeLetters(c) == IF c <= 57 THEN c - 48 ELSE IF c <= 70 THEN c - 65 ELSE c - 97

\* hex_decode, for a hexadecimal digit.
HexDecode(c) == IF c <= 57 THEN c - 48 ELSE IF c <= 70 THEN c - 55 ELSE c - 87

MaxPayload == 6         \* digits, so a payload has 24 bits

-----------------------------------------------------------------------------
Init ==
  /\ state = "init"
  /\ length = 0 /\ payload = 0
  /\ offset = 0 /\ token = 0 /\ start = 0
  /\ raw = <<>>

\* Every call outside an error state advances the offset, whatever it finds.
Advance(c) ==
  /\ offset < MaxInput
  /\ offset' = offset + 1
  /\ raw' = IF state = "init" THEN <<c>> ELSE Append(raw, c)

Emit(t) == state' = "init" /\ token' = t

\* token_parse_init: a codepoint other than the backslash is a token.
Plain(c) ==
  /\ state = "init" /\ c # Backslash
  /\ Advance(c)
  /\ start' = offset
  /\ Emit(c)
  /\ UNCHANGED <<length, payload>>

BeginEscape(c) ==
  /\ state = "init" /\ c = Backslash
  /\ Advance(c)
  /\ start' = offset
  /\ state' = "escaped"
  /\ UNCHANGED <<length, payload, token>>

\* token_parse_escaped
SimpleEscape(c) ==
  /\ state = "escaped" /\ c \in SimpleEscapes
  /\ Advance(c)
  /\ Emit(Simple(c))
  /\ UNCHANGED <<length, payload, start>>

BeginUnicode(c) ==
  /\ state = "escaped" /\ c = LetterU
  /\ Advance(c)
  /\ state' = "unicode"
  /\ UNCHANGED <<length, payload, token, start>>

Escape(c) ==
  /\ state = "escaped" /\ c \notin SimpleEscapes \union {LetterU}
  /\ Advance(c)
  /\ Emit(c + EscapedBit)
  /\ UNCHANGED <<length, payload, start>>

\* token_parse_unicode
OpenPayload(c) ==
  /\ state = "unicode" /\ c = LeftBrace
  /\ Advance(c)
  /\ state' = "payload"
  /\ length' = 0 /\ payload' = 0
  /\ UNCHANGED <<token, start>>

NoPayload(c) ==
  /\ state = "unicode" /\ c # LeftBrace
  /\ Advance(c)
  /\ state' = "unicode_start"
  /\ UNCHANGED <<length, payload, token, start>>

\* Mutant: the token is escaped, as that of any other escape is.
ClosePayloadEscaped(c) ==
  /\ state = "payload" /\ c = RightBrace
  /\ Advance(c)
  /\ Emit(payload + EscapedBit)
  /\ UNCHANGED <<length, payload, start>>

\* token_parse_unicode_payload
ClosePayload(c) ==
  /\ state = "payload" /\ c = RightBrace
  /\ Advance(c)
  /\ Emit(payload)
  /\ UNCHANGED <<length, payload, start>>

PayloadTooLong(c) ==
  /\ state = "payload" /\ c # RightBrace /\ length >= MaxPayload
  /\ Advance(c)
  /\ length' = length + 1
  /\ state' = "unicode_payload_len"
  /\ UNCHANGED <<payload, token, start>>

NoHexDigit(c) ==
  /\ state = "payload" /\ c # RightBrace /\ length < MaxPayload /\ c \notin HexDigits
  /\ Advance(c)
  /\ length' = length + 1
  /\ state' = "unicode_payload"
  /\ UNCHANGED <<payload, token, start>>

PayloadDigit(c) ==
  /\ state = "payload" /\ length < MaxPayload /\ c \in HexDigits
  /\ Advance(c)
  /\ length' = length + 1
  /\ payload' = 16 * payload + HexDecode(c)
  /\ UNCHANGED <<state, token, start>>

\* In an error state a call changes nothing and returns the error again.
InError(c) ==
  /\ state \in Errors
  /\ UNCHANGED vars

Feed(c) ==
  \/ Plain(c) \/ BeginEscape(c)
  \/ SimpleEscape(c) \/ BeginUnicode(c) \/ Escape(c)
  \/ OpenPayload(c) \/ NoPayload(c)
  \/ ClosePayload(c) \/ PayloadTooLong(c) \/ NoHexDigit(c) \/ PayloadDigit(c)
  \/ InError(c)

Next == \E c \in Input : Feed(c)

Spec == Init /\ [][Next]_vars

-----------------------------------------------------------------------------
(* Reference: what a token is, read off the codepoints it is written with. *)

IsHex(s) == \A i \in DOMAIN s : s[i] \in HexDigits

Payload(s) == SubSeq(s, 4, Len(s) - 1)

IsUnicodeToken(s) ==
  /\ Len(s) >= 4 /\ Len(s) <= 4 + MaxPayload
  /\ s[1] = Backslash /\ s[2] = LetterU /\ s[3] = LeftBrace
  /\ IsHex(Payload(s)) /\ s[Len(s)] = RightBrace

IsToken(s) ==
  \/ Len(s) = 1 /\ s[1] # Backslash
  \/ Len(s) = 2 /\ s[1] = Backslash /\ s[2] # LetterU
  \/ IsUnicodeToken(s)

\* s can be completed to a token: it is one that lacks its end.
IsBegun(s) ==
  \/ s = <<Backslash>> \/ s = <<Backslash, LetterU>>
  \/ Len(s) <= 3 + MaxPayload /\ IsUnicodeToken(Append(s, RightBrace))

\* Which of the sixteen digits c is, counted in either alphabet.
DigitValue(c) ==
  CHOOSE n \in 0..15 : IF n < 10 THEN c = 48 + n ELSE c \in {65 + n - 10, 97 + n - 10}

\* The digits of a payload, the last one the least significant.
Value(s) ==
  LET v[i \in 0..Len(s)] == IF i = 0 THEN 0 ELSE 16 * v[i-1] + DigitValue(s[i])
  IN  v[Len(s)]

Denotes(s) ==
  IF Len(s) = 1 THEN s[1]
  ELSE IF Len(s) > 2 THEN Value(Payload(s))
  ELSE IF s[2] \in SimpleEscapes THEN Simple(s[2])
  ELSE s[2] + EscapedBit

-----------------------------------------------------------------------------
TypeOK ==
  /\ state \in {"init", "escaped", "unicode", "payload"} \union Errors
  /\ length \in 0..MaxPayload+1 /\ payload \in Nat /\ payload < 16777216
  /\ offset \in 0..MaxInput
  /\ token \in Nat /\ start \in 0..offset
  /\ raw \in Seq(Input)

\* A complete token stands for the codepoints it was written with, no earlier
\* one, and its offset is where they start: tokens tile the input, so an error
\* message points at the token it is about.
\* The machine waits for more exactly while the input can still become a token,
\* and fails at the first codepoint that rules this out.
Decodes ==
  /\ state = "init" /\ raw # <<>> =>
       IsToken(raw) /\ token = Denotes(raw) /\ offset = start + Len(raw)
  /\ state \in {"escaped", "unicode", "payload"} => IsBegun(raw)
  /\ state \in Errors =>
       ~IsToken(raw) /\ ~IsBegun(raw) /\ IsBegun(SubSeq(raw, 1, Len(raw) - 1))

\* Only a backslash makes a token escaped: no payload, however large, can set
\* the bit, and no escaped codepoint loses it.
EscapeUnforgeable ==
  state = "init" /\ raw # <<>> =>
    (IsEscaped(token) <=>
       Len(raw) = 2 /\ raw[2] \notin SimpleEscapes)
=============================================================================
