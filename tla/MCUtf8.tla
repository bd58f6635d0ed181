------------------------------- MODULE MCUtf8 -------------------------------
(***************************************************************************)
(* A small instance of Utf8: bytes on both sides of the boundaries between *)
(* the classes of the table.                                               *)
(***************************************************************************)
EXTENDS Utf8

MCBytes ==
  {0, 127, 128, 143, 144, 159, 160, 191, 193, 194, 223, 224, 225, 237, 239,
   240, 241, 243, 244, 245}

\* Boundaries of the lengths, a surrogate, and what no bytes encode.
MCTexts == {<<127, 128, 2047, 2048, 55296>>, <<65536, 1114111, 65536, 65535>>, <<97, 1114112>>}
=============================================================================
