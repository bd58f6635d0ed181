---------------------------- MODULE RandomBuffer ----------------------------
(***************************************************************************)
(* The buffered randomness of src/random/random.c: passgen_random_read     *)
(* serves requests from a buffer that passgen_random_reload fills from the *)
(* source, and passes requests larger than the buffer to the source.       *)
(*                                                                         *)
(* The bytes of the source are told apart by the order it yields them in:  *)
(* byte b is the b-th byte drawn since the generator was opened.  A source *)
(* that is a file ends; one that is a key stream does so later than any    *)
(* bound.                                                                  *)
(***************************************************************************)
EXTENDS Integers, Sequences

CONSTANTS
  BufSize,    \* sizeof(random->buffer), PASSGEN_RANDOM_BUFFER_LENGTH
  Requests,   \* sizes clients ask for: 1, 2, 4, 8 and passgen_random_read's
  Supplies,   \* how many bytes the source may hold
  Garbage     \* what a byte of the buffer is before anything was read into it

ASSUME BufSizeAssumption == BufSize \in Nat \ {0}
ASSUME RequestsAssumption == Requests \subseteq Nat \ {0}
ASSUME SuppliesAssumption == Supplies \subseteq Nat
ASSUME GarbageAssumption == Garbage \notin Nat

VARIABLES
  asserts,    \* is this a build with PASSGEN_DEBUG?
  status,     \* "closed" before open, then "idle" or "reading"; "dead" ends it
  supply,     \* how many bytes the source still has
  drawn,      \* how many bytes were drawn from it
  buffer,     \* the bytes in the buffer
  pos,        \* random->pos
  want,       \* size of the client's request
  need,       \* what passgen_random_read is still asked for
  calls,      \* depth of passgen_random_read's recursion
  out,        \* the bytes the request was given so far
  handed,     \* history: how often each byte was given to the client, up to 3
  starved     \* history: did the source come up short for a reload?

vars == <<asserts, status, supply, drawn, buffer, pos, want, need, calls, out,
          handed, starved>>

Bytes == 0..drawn-1

Lesser(a, b) == IF a < b THEN a ELSE b

\* The bytes the source yields when asked for n.
Draw(n) == [i \in 1..Lesser(n, supply) |-> drawn + i - 1]

\* The buffer from position from on, n bytes.
Slice(from, n) == [i \in 1..n |-> buffer[from + i - 1]]

\* The history once bytes were handed out and known bytes were drawn.  A byte
\* sits in one place of the buffer only, so a copy holds it once at most.
Hand(bytes, known) ==
  [b \in 0..known-1 |->
     LET before == IF b \in DOMAIN handed THEN handed[b] ELSE 0
     IN  IF \E i \in DOMAIN bytes : bytes[i] = b
           THEN Lesser(3, before + 1) ELSE before]

-----------------------------------------------------------------------------
Init ==
  /\ asserts \in BOOLEAN
  /\ status = "closed"
  /\ supply \in Supplies
  /\ drawn = 0
  /\ buffer = [i \in 0..BufSize-1 |-> Garbage]
  /\ pos = 0 /\ want = 0 /\ need = 0 /\ calls = 0
  /\ out = <<>>
  /\ handed = [b \in 0..-1 |-> 0]
  /\ starved = FALSE

(***************************************************************************)
(* passgen_random_reload: what the source yields overwrites the front of   *)
(* the buffer.  A short read fails an assertion, which stops a debug build *)
(* and is not compiled into a release build.                               *)
(***************************************************************************)
Reload(bytes) ==
  /\ buffer' = [i \in 0..BufSize-1 |->
                  IF i < Len(bytes) THEN bytes[i+1] ELSE buffer[i]]
  /\ drawn' = drawn + Len(bytes)
  /\ supply' = supply - Len(bytes)
  /\ pos' = 0
  /\ starved' = (starved \/ Len(bytes) < BufSize)

ReloadFails == asserts /\ supply < BufSize

\* Every passgen_random_*_open ends with a reload.
Open ==
  /\ status = "closed" /\ ~ReloadFails
  /\ Reload(Draw(BufSize))
  /\ status' = "idle"
  /\ handed' = Hand(<<>>, drawn')
  /\ UNCHANGED <<asserts, want, need, calls, out>>

\* passgen_random_read is called, by passgen_random_u8 to _u64, _bool or the
\* client.
Request(n) ==
  /\ status = "idle"
  /\ status' = "reading"
  /\ want' = n /\ need' = n /\ calls' = 1
  /\ out' = <<>>
  /\ UNCHANGED <<asserts, supply, drawn, buffer, pos, handed, starved>>

Left == BufSize - pos

\* Mutant: passgen_random_read recurses for all the bytes, not for the rest.
DeliverAnew(bytes) ==
  /\ out' = out \o bytes
  /\ need' = IF Len(bytes) = need THEN 0 ELSE need
  /\ handed' = Hand(bytes, drawn')

Deliver(bytes) ==
  /\ out' = out \o bytes
  /\ need' = need - Len(bytes)
  /\ handed' = Hand(bytes, drawn')

\* Mutant: the position stays where it is.
ReadBufferedStays ==
  /\ status = "reading" /\ need <= BufSize /\ need < Left
  /\ drawn' = drawn
  /\ Deliver(Slice(pos, need))
  /\ pos' = pos
  /\ status' = "idle" /\ calls' = 0
  /\ UNCHANGED <<asserts, supply, buffer, want, starved>>

\* Mutant: the bytes come from the start of the buffer, as ReadAcross's do.
ReadBufferedFront ==
  /\ status = "reading" /\ need <= BufSize /\ need < Left
  /\ drawn' = drawn
  /\ Deliver(Slice(0, need))
  /\ pos' = pos + need
  /\ status' = "idle" /\ calls' = 0
  /\ UNCHANGED <<asserts, supply, buffer, want, starved>>

\* Enough is left in the buffer.
ReadBuffered ==
  /\ status = "reading" /\ need <= BufSize /\ need < Left
  /\ drawn' = drawn
  /\ Deliver(Slice(pos, need))
  /\ pos' = pos + need
  /\ status' = "idle" /\ calls' = 0
  /\ UNCHANGED <<asserts, supply, buffer, want, starved>>

\* Not enough is left, or just enough: copy as many bytes as are left, from the
\* start of the buffer, reload, and recurse for the rest if there is one.
ReadAcross ==
  /\ status = "reading" /\ need <= BufSize /\ need >= Left /\ ~ReloadFails
  /\ Reload(Draw(BufSize))
  /\ Deliver(Slice(0, Left))
  /\ IF need = Left
       THEN status' = "idle" /\ calls' = 0
       ELSE status' = "reading" /\ calls' = calls + 1
  /\ UNCHANGED <<asserts, want>>

\* A request larger than the buffer goes to the source.
ReadDirect ==
  /\ status = "reading" /\ need > BufSize /\ supply >= need
  /\ drawn' = drawn + need
  /\ supply' = supply - need
  /\ Deliver(Draw(need))
  /\ status' = "idle" /\ calls' = 0
  /\ UNCHANGED <<asserts, buffer, pos, want, starved>>

\* Mutant: a short read is tried again.
DieRetrying ==
  /\ status = "reading" /\ need > BufSize /\ supply < need
  /\ UNCHANGED vars

\* The program ends: passgen_assert_fail after a short reload in a debug build,
\* abort() after a short direct read in any build.
Die ==
  /\ \/ status = "closed" /\ ReloadFails
     \/ status = "reading" /\ need <= BufSize /\ need >= Left /\ ReloadFails
     \/ status = "reading" /\ need > BufSize /\ supply < need
  /\ status' = "dead"
  /\ UNCHANGED <<asserts, supply, drawn, buffer, pos, want, need, calls, out,
                 handed, starved>>

ReadStep == ReadBuffered \/ ReadAcross \/ ReadDirect \/ Die

Next == Open \/ (\E n \in Requests : Request(n)) \/ ReadStep

Spec == Init /\ [][Next]_vars

\* passgen_random_read runs to its end once called.
FairSpec == Spec /\ WF_vars(ReadStep)

-----------------------------------------------------------------------------
TypeOK ==
  /\ asserts \in BOOLEAN
  /\ status \in {"closed", "idle", "reading", "dead"}
  /\ supply \in Nat /\ drawn \in Nat
  /\ buffer \in [0..BufSize-1 -> Bytes \union {Garbage}]
  /\ pos \in 0..BufSize-1
  /\ want \in Nat /\ need \in Nat /\ calls \in 0..2
  /\ out \in Seq(Bytes \union {Garbage})
  /\ handed \in [Bytes -> 0..3]
  /\ starved \in BOOLEAN

\* A finished request was given as many bytes as it asked for, none of them
\* uninitialised unless a release build went on after a short reload.
Served ==
  status = "idle" /\ want # 0 =>
    /\ Len(out) = want
    /\ ~starved => \A i \in 1..want : out[i] # Garbage

\* One refill is enough for any request the buffer serves: the recursion is at
\* most two deep, and at every depth what was given and what is needed add up.
OneRefill ==
  status = "reading" =>
    /\ Len(out) + need = want
    /\ calls = 2 => pos = 0 /\ need < BufSize

\* Unless a reload came up short, the bytes from pos on were drawn in order and
\* none was handed out yet, so a request that fits is given fresh bytes.
AheadIsFresh ==
  status \in {"idle", "reading"} /\ ~starved =>
    \A i \in pos..BufSize-1 :
      /\ buffer[i] \in Bytes /\ handed[buffer[i]] = 0
      /\ i > pos => buffer[i] = buffer[i-1] + 1

\* The copy across the end of the buffer repeats bytes of the buffer, but never
\* any byte more than once: none is handed out three times.
AtMostTwice == ~starved => \A b \in Bytes : handed[b] <= 2

\* A request ends, or the program does.
RequestEnds == status = "reading" ~> status \in {"idle", "dead"}

\* What random.c:43 says of a request across the end, "copy over whatever we
\* have": the bytes not yet handed out.  Then no byte is handed out twice.
NoByteTwice == ~starved => \A b \in Bytes : handed[b] <= 1
=============================================================================
