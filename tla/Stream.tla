------------------------------- MODULE Stream -------------------------------
(***************************************************************************)
(* What a deterministic source of randomness promises: there is one stream *)
(* of bytes, known by their positions, and every request is answered with  *)
(* those that follow the last one's, or the position that was sought,      *)
(* however the requests cut the stream.  RandomBuffer takes its source to  *)
(* be like that.                                                           *)
(***************************************************************************)
EXTENDS Integers, Sequences

CONSTANTS
  Sizes,        \* how many bytes may be asked for
  Positions,    \* where one may seek to
  Length        \* bound: where the stream ends

VARIABLES
  position,     \* of the byte that is next
  asked,        \* how many bytes are wanted, zero if none
  answer        \* the bytes of the last request

From(start, n) == [i \in 1..n |-> start + i - 1]

Init == position = 0 /\ asked = 0 /\ answer = <<>>

Ask(n) ==
  /\ asked = 0 /\ position + n <= Length
  /\ asked' = n /\ answer' = <<>>
  /\ UNCHANGED position

Answer ==
  /\ asked # 0
  /\ answer' = From(position, asked)
  /\ position' = position + asked
  /\ asked' = 0

\* The seek reads ahead.
Seek(p, n) ==
  /\ asked = 0 /\ p + n <= Length
  /\ position' = p
  /\ asked' = n /\ answer' = <<>>

Next == Answer \/ \E n \in Sizes : Ask(n) \/ \E p \in Positions : Seek(p, n)

Spec == Init /\ [][Next]_<<position, asked, answer>>
=============================================================================
