----------------------------- MODULE Codepoints -----------------------------
(***************************************************************************)
(* Codepoints the tokenizer and the pattern parser give a meaning to, and  *)
(* the tokens made of them: a codepoint, plus EscapedBit if a backslash    *)
(* that is no escape sequence preceded it.                                 *)
(***************************************************************************)
EXTENDS Integers

EscapedBit == 1073741824      \* PASSGEN_TOKEN_ESCAPED_BIT, 1 << 30

MaxCodepoint == 1114111       \* the last one that passgen_utf8_encode_codepoint encodes

Backslash == 92
Pipe == 124             \* |
LeftParen == 40         \* (
RightParen == 41        \* )
LeftBracket == 91       \* [
RightBracket == 93      \* ]
LeftBrace == 123        \* {
RightBrace == 125       \* }
Question == 63          \* ?
Dash == 45              \* -
Comma == 44             \* ,
Digits == 48..57        \* 0 to 9
LetterM == 109
LetterP == 112
LetterU == 117
LetterW == 119

IsEscaped(token) == token >= EscapedBit

\* token->codepoint & ~PASSGEN_TOKEN_ESCAPED_BIT
Unescaped(token) == token % EscapedBit

\* The conversion (char) codepoint keeps the low eight bits.
Char(codepoint) == codepoint % 256
=============================================================================
