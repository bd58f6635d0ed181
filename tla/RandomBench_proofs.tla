-------------------------- MODULE RandomBench_proofs --------------------------
(***************************************************************************)
(* Proofs about RandomBuffer, for every size of the buffer and every       *)
(* source, and about Bench, for every number of options and iterations.    *)
(***************************************************************************)
EXTENDS RandomBuffer, Bench, FiniteSetTheorems, SequenceTheorems, TLAPS

Opened == status \in {"idle", "reading"}

\* The recursion as the code sees it: how deep it is, and what is left to do.
CallInv ==
  /\ OneRefill
  /\ status = "reading" => calls \in {1, 2}
  /\ status = "closed" => want = 0

\* Unless a reload came up short, the buffer holds consecutive bytes of the
\* source.  Those before pos were handed out once at most, those from pos on
\* not at all: that is why the copy from the front of the buffer cannot hand
\* out a byte a third time.
BufferInv ==
  Opened /\ ~starved =>
    /\ \A i \in 0..BufSize-1 : buffer[i] \in Bytes /\ buffer[i] = buffer[0] + i
    /\ \A i \in 0..BufSize-1 : handed[buffer[i]] <= 1
    /\ \A i \in pos..BufSize-1 : handed[buffer[i]] = 0

\* What was given to the request so far are bytes of the source.
GivenInv ==
  /\ status = "reading" /\ ~starved => \A i \in 1..Len(out) : out[i] # Garbage
  /\ Served

IInv == TypeOK /\ CallInv /\ BufferInv /\ AtMostTwice /\ GivenInv

-----------------------------------------------------------------------------
\* A function on 1..n is a sequence of length n.
LEMMA FunctionIsSeq ==
  ASSUME NEW S, NEW n \in Nat, NEW f \in [1..n -> S]
  PROVE  f \in Seq(S) /\ Len(f) = n
BY SMT

\* Bytes that were drawn stay drawn.
LEMMA IntervalGrows == \A d, e \in Nat : d <= e => 0..d-1 \subseteq 0..e-1
OBVIOUS

\* What is drawn are the next bytes of the source, as many as there are.
LEMMA DrawIs ==
  ASSUME TypeOK, NEW n \in Nat
  PROVE  LET k == Lesser(n, supply) IN
         /\ k \in Nat /\ k <= n /\ k <= supply
         /\ supply >= n => k = n
         /\ Draw(n) \in Seq(drawn..drawn+k-1)
         /\ Len(Draw(n)) = k
         /\ \A i \in 1..k : Draw(n)[i] = drawn + i - 1
<1> DEFINE k == Lesser(n, supply)
<1>1. k \in Nat /\ k <= n /\ k <= supply /\ (supply >= n => k = n)
  BY DEF Lesser, TypeOK
<1>2. Draw(n) \in [1..k -> drawn..drawn+k-1] /\ \A i \in 1..k : Draw(n)[i] = drawn + i - 1
  BY <1>1 DEF Draw, TypeOK
<1> HIDE DEF k
<1>3. Draw(n) \in Seq(drawn..drawn+k-1) /\ Len(Draw(n)) = k
  BY <1>1, <1>2, FunctionIsSeq
<1> QED
  BY <1>1, <1>2, <1>3 DEF k

\* What is copied from the buffer is as long as was asked for.
LEMMA SliceIs ==
  ASSUME TypeOK, NEW from \in 0..BufSize-1, NEW n \in Nat, from + n <= BufSize
  PROVE  /\ Slice(from, n) \in Seq(Bytes \union {Garbage})
         /\ Len(Slice(from, n)) = n
         /\ DOMAIN Slice(from, n) = 1..n
         /\ \A i \in 1..n : Slice(from, n)[i] = buffer[from + i - 1]
<1>1. /\ Slice(from, n) \in [1..n -> Bytes \union {Garbage}]
      /\ \A i \in 1..n : Slice(from, n)[i] = buffer[from + i - 1]
  BY BufSizeAssumption DEF Slice, TypeOK
<1> QED
  BY <1>1, FunctionIsSeq

\* The history after bytes were handed out: those went up by one, no other did.
LEMMA HandIs ==
  ASSUME TypeOK, NEW bytes, NEW known \in Nat, drawn <= known
  PROVE  /\ Hand(bytes, known) \in [0..known-1 -> 0..3]
         /\ \A b \in 0..known-1 :
              LET before == IF b \in Bytes THEN handed[b] ELSE 0
              IN  /\ before <= 2 => Hand(bytes, known)[b] <= before + 1
                  /\ (\A i \in DOMAIN bytes : bytes[i] # b)
                       => Hand(bytes, known)[b] = before
<1>1. DOMAIN handed = Bytes /\ \A b \in Bytes : handed[b] \in 0..3
  BY DEF TypeOK
<1> QED
  BY <1>1 DEF Hand, Lesser

LEMMA LeftInRange ==
  ASSUME TypeOK
  PROVE  Left \in 1..BufSize /\ pos \in 0..BufSize-1 /\ Left = BufSize - pos
BY BufSizeAssumption DEF TypeOK, Left

\* A reload: everything stays typed, and if it was not short the buffer holds
\* the next BufSize bytes of the source.
LEMMA ReloadIs ==
  ASSUME TypeOK, Reload(Draw(BufSize))
  PROVE  /\ supply' \in Nat /\ drawn' \in Nat /\ drawn <= drawn'
         /\ buffer' \in [0..BufSize-1 -> (0..drawn'-1) \union {Garbage}]
         /\ pos' = 0 /\ starved' \in BOOLEAN
         /\ ~starved' => /\ ~starved
                         /\ drawn' = drawn + BufSize
                         /\ \A i \in 0..BufSize-1 : buffer'[i] = drawn + i
<1> DEFINE bytes == Draw(BufSize)
           k == Lesser(BufSize, supply)
<1>1. /\ k \in Nat /\ k <= BufSize /\ k <= supply
      /\ bytes \in Seq(drawn..drawn+k-1) /\ Len(bytes) = k
      /\ \A i \in 1..k : bytes[i] = drawn + i - 1
  BY DrawIs, BufSizeAssumption
<1>2. drawn \in Nat /\ supply \in Nat /\ starved \in BOOLEAN
      /\ buffer \in [0..BufSize-1 -> Bytes \union {Garbage}]
  BY DEF TypeOK
<1> HIDE DEF bytes, k
<1>3. /\ buffer' = [i \in 0..BufSize-1 |-> IF i < k THEN bytes[i+1] ELSE buffer[i]]
      /\ drawn' = drawn + k /\ supply' = supply - k /\ pos' = 0
      /\ starved' = (starved \/ k < BufSize)
  BY <1>1 DEF Reload, bytes
<1>4. supply' \in Nat /\ drawn' \in Nat /\ drawn <= drawn' /\ starved' \in BOOLEAN
  BY <1>1, <1>2, <1>3
<1>5. buffer' \in [0..BufSize-1 -> (0..drawn'-1) \union {Garbage}]
  <2>1. ASSUME NEW i \in 0..BufSize-1
        PROVE  (IF i < k THEN bytes[i+1] ELSE buffer[i]) \in (0..drawn'-1) \union {Garbage}
    BY <1>1, <1>2, <1>3, BufSizeAssumption, SMTT(30) DEF Bytes
  <2> QED
    BY <1>3, <2>1
<1>6. ASSUME ~starved'
      PROVE  ~starved /\ drawn' = drawn + BufSize
             /\ \A i \in 0..BufSize-1 : buffer'[i] = drawn + i
  <2>1. ~starved /\ ~(k < BufSize)
    BY <1>3, <1>6
  <2>2. k = BufSize
    BY <1>1, <2>1, BufSizeAssumption
  <2> QED
    BY <1>1, <1>2, <1>3, <2>1, <2>2, BufSizeAssumption
<1> QED
  BY <1>3, <1>4, <1>5, <1>6

-----------------------------------------------------------------------------
LEMMA InitHolds == Init => IInv
<1> SUFFICES ASSUME Init PROVE IInv
  OBVIOUS
<1>1. Bytes = 0..-1
  BY DEF Init, Bytes
<1>2. handed \in [Bytes -> 0..3] /\ out \in Seq(Bytes \union {Garbage})
  BY <1>1 DEF Init
<1>3. TypeOK
  <2>1. buffer \in [0..BufSize-1 -> Bytes \union {Garbage}] /\ pos \in 0..BufSize-1
    BY BufSizeAssumption DEF Init
  <2>2. supply \in Nat /\ drawn \in Nat /\ want \in Nat /\ need \in Nat /\ calls \in 0..2
    BY SuppliesAssumption DEF Init
  <2> QED
    BY <1>2, <2>1, <2>2 DEF Init, TypeOK
<1> QED
  BY <1>1, <1>3
     DEF Init, IInv, CallInv, OneRefill, BufferInv, Opened, AtMostTwice, GivenInv, Served

LEMMA OpenKeeps == ASSUME IInv, Open PROVE IInv'
<1> USE DEF IInv
<1>1. Reload(Draw(BufSize)) /\ status = "closed" /\ status' = "idle"
      /\ handed' = Hand(<<>>, drawn')
      /\ UNCHANGED <<asserts, want, need, calls, out>>
  BY DEF Open
<1>2. /\ handed' \in [0..drawn'-1 -> 0..3]
      /\ \A b \in 0..drawn'-1 : handed'[b] = IF b \in Bytes THEN handed[b] ELSE 0
  BY <1>1, HandIs, ReloadIs
<1>3. TypeOK'
  <2>1. handed' \in [Bytes' -> 0..3] /\ buffer' \in [0..BufSize-1 -> Bytes' \union {Garbage}]
    BY <1>1, <1>2, ReloadIs DEF Bytes
  <2>2. out' \in Seq(Bytes' \union {Garbage})
    BY <1>1, ReloadIs DEF TypeOK, Bytes
  <2> QED
    BY <1>1, <2>1, <2>2, ReloadIs, BufSizeAssumption DEF TypeOK
<1>4. CallInv' /\ GivenInv'
  BY <1>1 DEF CallInv, OneRefill, GivenInv, Served
<1>5. ASSUME ~starved' PROVE ~starved /\ drawn \in Nat /\ drawn' = drawn + BufSize
                              /\ \A i \in 0..BufSize-1 : buffer'[i] = drawn + i
  BY <1>1, <1>5, ReloadIs DEF TypeOK
<1>6. BufferInv'
  <2> SUFFICES ASSUME ~starved'
               PROVE  \A i \in 0..BufSize-1 : /\ buffer'[i] \in Bytes'
                                              /\ buffer'[i] = buffer'[0] + i
                                              /\ handed'[buffer'[i]] = 0
    BY <1>3 DEF BufferInv, TypeOK
  <2>1. \A i \in 0..BufSize-1 : buffer'[i] \in 0..drawn'-1 /\ buffer'[i] \notin Bytes
    BY <1>5, BufSizeAssumption DEF Bytes
  <2> QED
    BY <1>2, <1>5, <2>1, BufSizeAssumption DEF Bytes
<1>7. AtMostTwice'
  BY <1>2, <1>5 DEF AtMostTwice, Bytes
<1> QED
  BY <1>3, <1>4, <1>6, <1>7

LEMMA RequestKeeps ==
  ASSUME IInv, NEW n \in Requests, Request(n)
  PROVE  IInv'
<1> USE DEF IInv
<1>1. n \in Nat /\ n # 0
  BY RequestsAssumption
<1>2. TypeOK'
  BY <1>1 DEF Request, TypeOK, Bytes
<1> QED
  BY <1>1, <1>2 DEF Request, CallInv, OneRefill, BufferInv, Opened, AtMostTwice, Bytes,
                    GivenInv, Served

\* What Deliver does to what the request was given, whichever bytes it is given.
LEMMA DeliverIs ==
  ASSUME TypeOK, NEW bytes, bytes \in Seq((0..drawn'-1) \union {Garbage}),
         drawn' \in Nat, drawn <= drawn', Len(bytes) <= need, Deliver(bytes)
  PROVE  /\ out' \in Seq((0..drawn'-1) \union {Garbage})
         /\ Len(out') = Len(out) + Len(bytes)
         /\ need' \in Nat /\ need' = need - Len(bytes)
         /\ (\A i \in 1..Len(out) : out[i] # Garbage)
              /\ (\A i \in 1..Len(bytes) : bytes[i] # Garbage)
              => \A i \in 1..Len(out') : out'[i] # Garbage
         /\ handed' \in [0..drawn'-1 -> 0..3]
         /\ \A b \in 0..drawn'-1 :
              LET before == IF b \in Bytes THEN handed[b] ELSE 0
              IN  /\ before <= 2 => handed'[b] <= before + 1
                  /\ (\A i \in DOMAIN bytes : bytes[i] # b) => handed'[b] = before
<1> DEFINE S == (0..drawn'-1) \union {Garbage}
<1>1. out \in Seq(Bytes \union {Garbage}) /\ Bytes \union {Garbage} \subseteq S
  BY DEF TypeOK, Bytes
<1>2. out \in Seq(S)
  BY <1>1
<1>3. /\ out' \in Seq(S) /\ Len(out') = Len(out) + Len(bytes)
      /\ \A i \in 1..Len(out) + Len(bytes) :
           out'[i] = IF i <= Len(out) THEN out[i] ELSE bytes[i - Len(out)]
  BY <1>2, ConcatProperties, Zenon DEF Deliver
<1>4. Len(out) \in Nat /\ Len(bytes) \in Nat
  BY <1>2, LenProperties
<1>5. need' \in Nat /\ need' = need - Len(bytes)
  BY <1>4 DEF Deliver, TypeOK
<1>6. ASSUME \A i \in 1..Len(out) : out[i] # Garbage,
             \A i \in 1..Len(bytes) : bytes[i] # Garbage
      PROVE  \A i \in 1..Len(out') : out'[i] # Garbage
  <2> SUFFICES ASSUME NEW i \in 1..Len(out) + Len(bytes) PROVE out'[i] # Garbage
    BY <1>3
  <2>1. CASE i <= Len(out)
    <3>1. i \in 1..Len(out) /\ out'[i] = out[i]
      BY <1>3, <1>4, <2>1
    <3> QED
      BY <1>6, <3>1
  <2>2. CASE ~(i <= Len(out))
    <3>1. i - Len(out) \in 1..Len(bytes) /\ out'[i] = bytes[i - Len(out)]
      BY <1>3, <1>4, <2>2
    <3> QED
      BY <1>6, <3>1
  <2> QED
    BY <2>1, <2>2
<1>7. handed' = Hand(bytes, drawn')
  BY DEF Deliver
<1>8. /\ handed' \in [0..drawn'-1 -> 0..3]
      /\ \A b \in 0..drawn'-1 :
           LET before == IF b \in Bytes THEN handed[b] ELSE 0
           IN  /\ before <= 2 => handed'[b] <= before + 1
               /\ (\A i \in DOMAIN bytes : bytes[i] # b) => handed'[b] = before
  BY <1>7, HandIs, Zenon
<1>9. out' \in Seq((0..drawn'-1) \union {Garbage}) /\ Len(out') = Len(out) + Len(bytes)
  BY <1>3
<1> HIDE DEF S
<1> QED
  BY <1>5, <1>6, <1>8, <1>9, Zenon

LEMMA ReadBufferedKeeps == ASSUME IInv, ReadBuffered PROVE IInv'
<1> USE DEF IInv
<1> DEFINE bytes == Slice(pos, need)
<1>1. /\ status = "reading" /\ status' = "idle" /\ drawn' = drawn /\ Deliver(bytes)
      /\ pos' = pos + need /\ calls' = 0 /\ need < BufSize - pos
      /\ UNCHANGED <<asserts, supply, buffer, want, starved>>
  BY DEF ReadBuffered, Left
<1>2. pos \in 0..BufSize-1 /\ need \in Nat /\ drawn \in Nat /\ pos' \in 0..BufSize-1
  BY <1>1, BufSizeAssumption DEF TypeOK
<1>3. /\ bytes \in Seq(Bytes \union {Garbage}) /\ Len(bytes) = need
      /\ DOMAIN bytes = 1..need
      /\ \A i \in 1..need : bytes[i] = buffer[pos + i - 1]
  BY <1>1, <1>2, SliceIs, BufSizeAssumption
<1> HIDE DEF bytes
<1>4. /\ out' \in Seq(Bytes \union {Garbage}) /\ Len(out') = Len(out) + need /\ need' = 0
      /\ (\A i \in 1..Len(out) : out[i] # Garbage)
              /\ (\A i \in 1..Len(bytes) : bytes[i] # Garbage)
              => \A i \in 1..Len(out') : out'[i] # Garbage
      /\ handed' \in [Bytes -> 0..3]
      /\ \A b \in Bytes :
           /\ handed[b] <= 2 => handed'[b] <= handed[b] + 1
           /\ (\A i \in 1..need : bytes[i] # b) => handed'[b] = handed[b]
  BY <1>1, <1>2, <1>3, DeliverIs DEF Bytes
<1>5. TypeOK'
  BY <1>1, <1>2, <1>4 DEF TypeOK, Bytes
<1>6. CallInv'
  BY <1>1 DEF CallInv, OneRefill
<1>7. GivenInv'
  <2>1. Len(out') = want'
    BY <1>1, <1>4 DEF CallInv, OneRefill
  <2>2. ASSUME ~starved' PROVE \A i \in 1..want' : out'[i] # Garbage
    <3>1. \A i \in 1..need : bytes[i] # Garbage
      <4>1. ~starved
        BY <1>1, <2>2
      <4>2. \A j \in 0..BufSize-1 : buffer[j] # Garbage
        BY <1>1, <4>1, GarbageAssumption DEF BufferInv, Opened, Bytes
      <4> QED
        BY <1>1, <1>2, <1>3, <4>2, BufSizeAssumption
    <3> QED
      BY <1>1, <1>3, <1>4, <2>1, <2>2, <3>1 DEF GivenInv
  <2> QED
    BY <1>1, <2>1, <2>2 DEF GivenInv, Served
<1>8. BufferInv'
  <2> SUFFICES ASSUME ~starved
               PROVE  /\ \A i \in 0..BufSize-1 : buffer[i] \in Bytes /\ buffer[i] = buffer[0] + i
                      /\ \A i \in 0..BufSize-1 : handed'[buffer[i]] <= 1
                      /\ \A i \in pos'..BufSize-1 : handed'[buffer[i]] = 0
    BY <1>1, <1>5 DEF BufferInv, Opened, Bytes
  <2>1. /\ \A i \in 0..BufSize-1 : buffer[i] \in Bytes /\ buffer[i] = buffer[0] + i
        /\ \A i \in 0..BufSize-1 : handed[buffer[i]] <= 1
        /\ \A i \in pos..BufSize-1 : handed[buffer[i]] = 0
    BY <1>1 DEF BufferInv, Opened
  <2>2. \A b \in Bytes : b \in Nat /\ handed[b] \in 0..3 /\ handed'[b] \in 0..3
    BY <1>4 DEF TypeOK, Bytes
  <2>3. ASSUME NEW i \in 0..BufSize-1, i < pos \/ i >= pos + need
        PROVE  handed'[buffer[i]] = handed[buffer[i]]
    <3>1. ASSUME NEW k \in 1..need PROVE bytes[k] # buffer[i]
      <4>1. pos + k - 1 \in 0..BufSize-1 /\ pos + k - 1 # i
        BY <1>1, <1>2, <2>3, BufSizeAssumption
      <4>2. buffer[0] \in Nat /\ buffer[i] = buffer[0] + i
            /\ buffer[pos + k - 1] = buffer[0] + (pos + k - 1)
        BY <2>1, <4>1, BufSizeAssumption DEF Bytes
      <4> QED
        BY <1>2, <1>3, <4>1, <4>2
    <3> QED
      BY <1>4, <2>1, <3>1
  <2>4. ASSUME NEW i \in 0..BufSize-1, i >= pos
        PROVE  handed'[buffer[i]] <= 1
    BY <1>2, <1>4, <2>1, <2>2, <2>4, BufSizeAssumption, SMTT(30)
  <2> QED
    BY <1>1, <1>2, <2>1, <2>2, <2>3, <2>4, BufSizeAssumption
<1>9. AtMostTwice'
  <2> SUFFICES ASSUME ~starved, NEW b \in Bytes PROVE handed'[b] <= 2
    BY <1>1 DEF AtMostTwice, Bytes
  <2>1. handed[b] <= 2 /\ handed[b] \in 0..3 /\ handed'[b] \in 0..3
    BY <1>4 DEF AtMostTwice, TypeOK
  <2>2. CASE \A i \in 1..need : bytes[i] # b
    BY <1>4, <2>1, <2>2
  <2>3. CASE \E i \in 1..need : bytes[i] = b
    <3>1. handed[b] = 0
      BY <1>1, <1>2, <1>3, <2>3, BufSizeAssumption DEF BufferInv, Opened
    <3> QED
      BY <1>4, <2>1, <3>1
  <2> QED
    BY <2>2, <2>3
<1> QED
  BY <1>5, <1>6, <1>7, <1>8, <1>9

LEMMA ReadAcrossKeeps == ASSUME IInv, ReadAcross PROVE IInv'
<1> USE DEF IInv
<1> DEFINE bytes == Slice(0, Left)
<1>1. /\ status = "reading" /\ need <= BufSize /\ need >= Left
      /\ Reload(Draw(BufSize)) /\ Deliver(bytes)
      /\ need = Left => status' = "idle" /\ calls' = 0
      /\ need # Left => status' = "reading" /\ calls' = calls + 1
      /\ asserts' = asserts /\ want' = want
  BY DEF ReadAcross
<1>2. Left \in 1..BufSize /\ pos \in 0..BufSize-1 /\ Left = BufSize - pos /\ need \in Nat
  BY LeftInRange DEF TypeOK
<1>3. /\ supply' \in Nat /\ drawn' \in Nat /\ drawn \in Nat /\ drawn <= drawn'
      /\ buffer' \in [0..BufSize-1 -> (0..drawn'-1) \union {Garbage}]
      /\ pos' = 0 /\ starved' \in BOOLEAN
      /\ ~starved' => /\ ~starved /\ drawn' = drawn + BufSize
                      /\ \A i \in 0..BufSize-1 : buffer'[i] = drawn + i
  BY <1>1, ReloadIs DEF TypeOK
<1>4. /\ bytes \in Seq(Bytes \union {Garbage}) /\ Len(bytes) = Left
      /\ DOMAIN bytes = 1..Left
      /\ \A i \in 1..Left : bytes[i] = buffer[i - 1]
  <2>1. 0 \in 0..BufSize-1 /\ Left \in Nat /\ 0 + Left <= BufSize
    BY <1>2, BufSizeAssumption
  <2>2. \A i \in 1..Left : 0 + i - 1 = i - 1
    BY <2>1
  <2> QED
    BY <2>1, <2>2, SliceIs
<1> HIDE DEF bytes
<1>5. bytes \in Seq((0..drawn'-1) \union {Garbage})
  <2>1. Bytes \union {Garbage} \subseteq (0..drawn'-1) \union {Garbage}
    BY <1>3 DEF Bytes
  <2> QED
    BY <1>4, <2>1
<1>6. /\ out' \in Seq((0..drawn'-1) \union {Garbage})
      /\ Len(out') = Len(out) + Left /\ need' = need - Left /\ need' \in Nat
      /\ (\A i \in 1..Len(out) : out[i] # Garbage)
              /\ (\A i \in 1..Len(bytes) : bytes[i] # Garbage)
              => \A i \in 1..Len(out') : out'[i] # Garbage
      /\ handed' \in [0..drawn'-1 -> 0..3]
      /\ \A b \in 0..drawn'-1 :
           LET before == IF b \in Bytes THEN handed[b] ELSE 0
           IN  /\ before <= 2 => handed'[b] <= before + 1
               /\ (\A i \in 1..Left : bytes[i] # b) => handed'[b] = before
  <2>1. Len(bytes) <= need
    BY <1>1, <1>4
  <2>2. /\ Len(out') = Len(out) + Len(bytes) /\ need' = need - Len(bytes)
        /\ \A b \in 0..drawn'-1 :
             LET before == IF b \in Bytes THEN handed[b] ELSE 0
             IN  /\ before <= 2 => handed'[b] <= before + 1
                 /\ (\A i \in DOMAIN bytes : bytes[i] # b) => handed'[b] = before
    BY <1>1, <1>3, <1>5, <2>1, DeliverIs
  <2> QED
    BY <1>1, <1>3, <1>4, <1>5, <2>1, <2>2, DeliverIs
<1>7. calls = 1
  <2>1. calls = 2 => need < Left
    BY <1>1, <1>2, BufSizeAssumption DEF CallInv, OneRefill
  <2>2. calls \in {1, 2}
    BY <1>1 DEF CallInv
  <2> QED
    BY <1>1, <1>2, <2>1, <2>2
<1>8. TypeOK'
  <2>1. status' \in {"idle", "reading"} /\ calls' \in 0..2
    BY <1>1, <1>7
  <2>2. pos' \in 0..BufSize-1 /\ want' \in Nat
    BY <1>1, <1>3, BufSizeAssumption DEF TypeOK
  <2> QED
    BY <1>1, <1>3, <1>6, <2>1, <2>2 DEF TypeOK, Bytes
<1>9. Len(out') + need' = want'
  <2>1. Len(out) \in Nat /\ Len(out) + need = want
    BY <1>1, LenProperties DEF TypeOK, CallInv, OneRefill
  <2> QED
    BY <1>1, <1>2, <1>6, <2>1
<1>10. CallInv'
  BY <1>1, <1>2, <1>3, <1>6, <1>7, <1>9, BufSizeAssumption DEF CallInv, OneRefill
<1>11. GivenInv'
  <2>1. ASSUME ~starved' PROVE \A i \in 1..Len(out') : out'[i] # Garbage
    <3>1. ~starved
      BY <1>3, <2>1
    <3>2. \A j \in 0..BufSize-1 : buffer[j] # Garbage
      BY <1>1, <3>1, GarbageAssumption DEF BufferInv, Opened, Bytes
    <3>3. \A i \in 1..Left : bytes[i] # Garbage
      BY <1>2, <1>4, <3>2, BufSizeAssumption
    <3> QED
      BY <1>1, <1>4, <1>6, <3>1, <3>3 DEF GivenInv
  <2>2. need = Left => Len(out') = want'
    BY <1>6, <1>9, <1>2, LenProperties
  <2> QED
    BY <1>1, <2>1, <2>2 DEF GivenInv, Served
<1>12. ASSUME ~starved', NEW b \in Bytes
       PROVE  handed'[b] <= 2 /\ b \in 0..drawn'-1
  <2>1. ~starved
    BY <1>3, <1>12
  <2>2. b \in 0..drawn'-1 /\ handed[b] \in 0..3 /\ handed[b] <= 2 /\ handed'[b] \in 0..3
    <3>1. b \in 0..drawn'-1
      BY <1>3, IntervalGrows DEF Bytes
    <3>2. handed[b] \in 0..3 /\ handed[b] <= 2
      BY <2>1 DEF AtMostTwice, TypeOK
    <3> QED
      BY <1>6, <3>1, <3>2
  <2>3. CASE \A i \in 1..Left : bytes[i] # b
    BY <1>6, <2>2, <2>3
  <2>4. CASE \E i \in 1..Left : bytes[i] = b
    <3>1. handed[b] <= 1
      BY <1>1, <1>2, <1>4, <2>1, <2>4, BufSizeAssumption DEF BufferInv, Opened
    <3> QED
      BY <1>6, <2>2, <3>1
  <2> QED
    BY <2>2, <2>3, <2>4
<1>13. ASSUME ~starved', NEW b \in 0..drawn'-1, b \notin Bytes
       PROVE  handed'[b] = 0
  <2>1. ~starved
    BY <1>3, <1>13
  <2>2. \A j \in 0..BufSize-1 : buffer[j] \in Bytes
    BY <1>1, <2>1 DEF BufferInv, Opened
  <2>3. \A i \in 1..Left : bytes[i] # b
    BY <1>2, <1>4, <1>13, <2>2, BufSizeAssumption
  <2> QED
    BY <1>6, <1>13, <2>3
<1>14. BufferInv'
  <2> SUFFICES ASSUME ~starved'
               PROVE  \A i \in 0..BufSize-1 :
                        /\ buffer'[i] \in Bytes' /\ buffer'[i] = buffer'[0] + i
                        /\ handed'[buffer'[i]] = 0
    BY <1>3, BufSizeAssumption DEF BufferInv
  <2> TAKE i \in 0..BufSize-1
  <2>1. /\ buffer'[i] \in 0..drawn'-1 /\ buffer'[i] \notin Bytes
        /\ buffer'[i] = buffer'[0] + i
    BY <1>3, BufSizeAssumption DEF Bytes
  <2> QED
    BY <1>13, <2>1 DEF Bytes
<1>15. AtMostTwice'
  BY <1>12, <1>13 DEF AtMostTwice, Bytes
<1> QED
  BY <1>8, <1>10, <1>11, <1>14, <1>15

LEMMA ReadDirectKeeps == ASSUME IInv, ReadDirect PROVE IInv'
<1> USE DEF IInv
<1> DEFINE bytes == Draw(need)
<1>1. /\ status = "reading" /\ status' = "idle" /\ need > BufSize /\ supply >= need
      /\ drawn' = drawn + need /\ supply' = supply - need /\ Deliver(bytes)
      /\ calls' = 0 /\ UNCHANGED <<asserts, buffer, pos, want, starved>>
  BY DEF ReadDirect
<1>2. need \in Nat /\ drawn \in Nat /\ supply' \in Nat /\ drawn' \in Nat /\ drawn <= drawn'
  BY <1>1 DEF TypeOK
<1>3. /\ bytes \in Seq(drawn..drawn'-1) /\ Len(bytes) = need
      /\ \A i \in 1..need : bytes[i] = drawn + i - 1
  BY <1>1, <1>2, DrawIs, SMTT(30)
<1> HIDE DEF bytes
<1>4. bytes \in Seq((0..drawn'-1) \union {Garbage}) /\ DOMAIN bytes = 1..need
  <2>1. DOMAIN bytes = 1..need
    BY <1>3
  <2>2. bytes \in [1..need -> drawn..drawn'-1]
    BY <1>2, <1>3, <2>1
  <2>3. ASSUME NEW b \in drawn..drawn'-1 PROVE b \in (0..drawn'-1) \union {Garbage}
    <3>1. PICK low \in Nat, high \in Nat : low = drawn /\ high = drawn'
      BY <1>2
    <3>2. b \in low..high-1
      BY <3>1
    <3>3. b \in 0..high-1
      BY <3>2
    <3> QED
      BY <3>1, <3>3
  <2>4. bytes \in [1..need -> (0..drawn'-1) \union {Garbage}]
    BY <2>2, <2>3
  <2> QED
    BY <1>2, <2>1, <2>4, FunctionIsSeq
<1>5. /\ out' \in Seq((0..drawn'-1) \union {Garbage})
      /\ Len(out') = Len(out) + need /\ need' = 0
      /\ (\A i \in 1..Len(out) : out[i] # Garbage)
              /\ (\A i \in 1..Len(bytes) : bytes[i] # Garbage)
              => \A i \in 1..Len(out') : out'[i] # Garbage
      /\ handed' \in [0..drawn'-1 -> 0..3]
      /\ \A b \in 0..drawn'-1 :
           LET before == IF b \in Bytes THEN handed[b] ELSE 0
           IN  /\ before <= 2 => handed'[b] <= before + 1
               /\ (\A i \in 1..need : bytes[i] # b) => handed'[b] = before
  <2>1. Len(bytes) <= need
    BY <1>2, <1>3
  <2>2. /\ out' \in Seq((0..drawn'-1) \union {Garbage})
        /\ Len(out') = Len(out) + Len(bytes)
        /\ need' = need - Len(bytes)
    BY <1>1, <1>2, <1>4, <2>1, DeliverIs
  <2>3. (\A i \in 1..Len(out) : out[i] # Garbage)
              /\ (\A i \in 1..Len(bytes) : bytes[i] # Garbage)
              => \A i \in 1..Len(out') : out'[i] # Garbage
    BY <1>1, <1>2, <1>4, <2>1, DeliverIs
  <2>4. /\ handed' \in [0..drawn'-1 -> 0..3]
        /\ \A b \in 0..drawn'-1 :
             LET before == IF b \in Bytes THEN handed[b] ELSE 0
             IN  /\ before <= 2 => handed'[b] <= before + 1
                 /\ (\A i \in DOMAIN bytes : bytes[i] # b) => handed'[b] = before
    BY <1>1, <1>2, <1>4, <2>1, DeliverIs
  <2>5. Len(out') = Len(out) + need /\ need' = 0
    BY <1>2, <1>3, <2>2
  <2>6. \A b \in 0..drawn'-1 :
           LET before == IF b \in Bytes THEN handed[b] ELSE 0
           IN  /\ before <= 2 => handed'[b] <= before + 1
               /\ (\A i \in 1..need : bytes[i] # b) => handed'[b] = before
    BY <1>4, <2>4, Zenon
  <2> QED
    BY <2>2, <2>3, <2>4, <2>5, <2>6, Zenon
<1>6. ASSUME NEW b \in 0..drawn'-1
      PROVE  /\ b \in Bytes => handed'[b] = handed[b]
             /\ b \notin Bytes => handed'[b] <= 1
  <2>1. b \in Bytes => \A i \in 1..need : bytes[i] # b
    BY <1>2, <1>3 DEF Bytes
  <2> QED
    BY <1>5, <2>1
<1>7. TypeOK'
  <2>1. buffer' \in [0..BufSize-1 -> Bytes' \union {Garbage}]
    BY <1>1, <1>2 DEF TypeOK, Bytes
  <2> QED
    BY <1>1, <1>2, <1>5, <2>1 DEF TypeOK, Bytes
<1>8. CallInv'
  BY <1>1 DEF CallInv, OneRefill
<1>9. GivenInv'
  <2>1. Len(out') = want'
    BY <1>1, <1>5 DEF CallInv, OneRefill
  <2>2. \A i \in 1..Len(bytes) : bytes[i] # Garbage
    BY <1>2, <1>3, GarbageAssumption
  <2> QED
    BY <1>1, <1>5, <2>1, <2>2 DEF GivenInv, Served
<1>10. BufferInv'
  <2> SUFFICES ASSUME ~starved
               PROVE  /\ \A i \in 0..BufSize-1 : buffer[i] \in Bytes' /\ buffer[i] = buffer[0] + i
                      /\ \A i \in 0..BufSize-1 : handed'[buffer[i]] <= 1
                      /\ \A i \in pos..BufSize-1 : handed'[buffer[i]] = 0
    BY <1>1 DEF BufferInv
  <2>1. /\ \A i \in 0..BufSize-1 : buffer[i] \in Bytes /\ buffer[i] = buffer[0] + i
        /\ \A i \in 0..BufSize-1 : handed[buffer[i]] <= 1
        /\ \A i \in pos..BufSize-1 : handed[buffer[i]] = 0
    BY <1>1 DEF BufferInv, Opened
  <2>2. \A b \in Bytes : b \in 0..drawn'-1
    BY <1>2, IntervalGrows DEF Bytes
  <2>3. \A i \in 0..BufSize-1 : buffer[i] \in 0..drawn'-1 /\ handed'[buffer[i]] = handed[buffer[i]]
    BY <1>6, <2>1, <2>2
  <2> QED
    BY <2>1, <2>3, LeftInRange, BufSizeAssumption DEF Bytes
<1>11. AtMostTwice'
  <2> SUFFICES ASSUME ~starved, NEW b \in 0..drawn'-1 PROVE handed'[b] <= 2
    BY <1>1 DEF AtMostTwice, Bytes
  <2>1. b \in Bytes => handed[b] <= 2
    BY DEF AtMostTwice
  <2>2. handed'[b] \in 0..3
    BY <1>5
  <2> QED
    BY <1>6, <2>1, <2>2
<1> QED
  BY <1>7, <1>8, <1>9, <1>10, <1>11

LEMMA DieKeeps == ASSUME IInv, Die PROVE IInv'
BY DEF IInv, Die, TypeOK, Bytes, CallInv, OneRefill, BufferInv, Opened, AtMostTwice,
       GivenInv, Served

LEMMA StutterKeeps == ASSUME IInv, UNCHANGED vars PROVE IInv'
BY DEF IInv, vars, TypeOK, Bytes, CallInv, OneRefill, BufferInv, Opened, AtMostTwice,
       AheadIsFresh, GivenInv, Served

LEMMA Inductive == Spec => []IInv
<1>1. ASSUME IInv, [Next]_vars PROVE IInv'
  BY <1>1, OpenKeeps, RequestKeeps, ReadBufferedKeeps, ReadAcrossKeeps, ReadDirectKeeps,
     DieKeeps, StutterKeeps DEF Next, ReadStep
<1> QED
  BY <1>1, InitHolds, PTL DEF Spec

-----------------------------------------------------------------------------
\* Every variable keeps its type, the position stays inside the buffer, and the
\* recursion is at most two calls deep.
THEOREM TypeCorrect == Spec => []TypeOK
BY Inductive, PTL DEF IInv

\* A finished request was given as many bytes as it asked for, none of them
\* uninitialised unless a reload came up short.
THEOREM ServedInFull == Spec => []Served
BY Inductive, PTL DEF IInv, GivenInv

\* One refill is enough for any request the buffer serves.
THEOREM OneRefillSuffices == Spec => []OneRefill
BY Inductive, PTL DEF IInv, CallInv

\* No byte of the source is handed out three times, unless a reload came up short.
THEOREM HandedAtMostTwice == Spec => []AtMostTwice
BY Inductive, PTL DEF IInv

\* The bytes from pos on are fresh and in the source's order, unless a reload
\* came up short.
THEOREM FreshAhead == Spec => []AheadIsFresh
<1>1. IInv => AheadIsFresh
  <2> SUFFICES ASSUME IInv, Opened, ~starved, NEW i \in pos..BufSize-1
               PROVE  /\ buffer[i] \in Bytes /\ handed[buffer[i]] = 0
                      /\ i > pos => buffer[i] = buffer[i-1] + 1
    BY DEF AheadIsFresh, Opened
  <2>1. pos \in 0..BufSize-1 /\ i \in 0..BufSize-1 /\ buffer[0] \in Nat
    BY BufSizeAssumption DEF IInv, TypeOK, BufferInv, Bytes
  <2>2. i > pos => i-1 \in 0..BufSize-1
    BY <2>1, BufSizeAssumption
  <2> QED
    BY <2>1, <2>2, BufSizeAssumption DEF IInv, BufferInv
<1> QED
  BY <1>1, Inductive, PTL

-----------------------------------------------------------------------------
(* Bench: the benchmarks.                                                  *)

\* What benchmarks allocate.
Names == {"struct", "bins", "items", "table", "input", "pattern", "output", "context", "buffer"}

\* What all of them have in common: an input that is consumed is freed completely and
\* is not NULL; of any other, only Utf8Decode forgets a part.
WellBehaved ==
  {b \in [consumes : BOOLEAN, prepare : SUBSET Names, iterate : SUBSET Names,
          free : SUBSET Names] :
     /\ b.consumes => b.prepare # {} /\ b.free = b.prepare \union b.iterate
     /\ ~b.consumes =>
          /\ b.iterate = {} /\ b.free \subseteq b.prepare
          /\ \A what \in b.prepare \ b.free : b = Utf8Decode /\ what = "struct"}

LEMMA ConsumesWell ==
  ASSUME NEW prepare \in SUBSET Names, NEW iterate \in SUBSET Names, prepare # {}
  PROVE  Consumes(prepare, iterate) \in WellBehaved
BY DEF Consumes, WellBehaved

LEMMA KeepsWell ==
  ASSUME NEW prepare \in SUBSET Names
  PROVE  Keeps(prepare, prepare) \in WellBehaved
<1>1. prepare \ prepare = {} /\ {} \in SUBSET Names
  OBVIOUS
<1>2. PICK b : b = Keeps(prepare, prepare)
  OBVIOUS
<1>3. /\ b.consumes = FALSE /\ b.prepare = prepare /\ b.iterate = {} /\ b.free = prepare
      /\ b \in [consumes : BOOLEAN, prepare : SUBSET Names, iterate : SUBSET Names,
               free : SUBSET Names]
  BY <1>1, <1>2 DEF Keeps
<1> QED
  BY <1>1, <1>2, <1>3 DEF WellBehaved

LEMMA BenchesBehave ==
  /\ Benches \in Seq(WellBehaved)
  /\ Utf8Decode.consumes = FALSE
<1>1. /\ "struct" \in Names /\ "bins" \in Names /\ "items" \in Names /\ "table" \in Names
      /\ "input" \in Names /\ "pattern" \in Names /\ "output" \in Names
      /\ "context" \in Names /\ "buffer" \in Names
  BY DEF Names
<1> HIDE DEF Names
<1>2. StackPush \in WellBehaved
  BY <1>1, ConsumesWell DEF StackPush
<1>3. StackPop \in WellBehaved
  BY <1>1, ConsumesWell DEF StackPop
<1>4. HashmapInsert \in WellBehaved
  BY <1>1, ConsumesWell DEF HashmapInsert
<1>5. HashmapLookup \in WellBehaved
  BY <1>1, ConsumesWell DEF HashmapLookup
<1>6. PassgenParse \in WellBehaved
  BY <1>1, ConsumesWell DEF PassgenParse
<1>7. Dummy \in WellBehaved
  BY <1>1, KeepsWell DEF Dummy
<1>8. TokenParse \in WellBehaved
  BY <1>1, KeepsWell DEF TokenParse
<1>9. Utf8Decode \in WellBehaved
  <2>1. {"struct", "output"} \ {"output"} = {"struct"}
    OBVIOUS
  <2>2. {"struct", "output"} \in SUBSET Names /\ {"output"} \in SUBSET Names
    BY <1>1
  <2> QED
    BY <2>1, <2>2 DEF Utf8Decode, Keeps, WellBehaved
<1>10. Utf8Decode.consumes = FALSE
  BY DEF Utf8Decode, Keeps
<1>11. ASSUME NEW context \in SUBSET Names PROVE Random(context) \in Seq(WellBehaved)
  <2>1. /\ context \union {"struct", "buffer"} \in SUBSET Names
        /\ context \union {"struct"} \in SUBSET Names
    BY <1>1
  <2>2. /\ Keeps(context \union {"struct", "buffer"}, context \union {"struct", "buffer"})
             \in WellBehaved
        /\ Keeps(context \union {"struct"}, context \union {"struct"}) \in WellBehaved
    BY <2>1, KeepsWell
  <2> QED
    BY <2>2 DEF Random
<1>12. /\ <<Dummy, StackPush, StackPop>> \in Seq(WellBehaved)
       /\ <<HashmapInsert, HashmapLookup, TokenParse, PassgenParse, Utf8Decode>>
            \in Seq(WellBehaved)
  BY <1>2, <1>3, <1>4, <1>5, <1>6, <1>7, <1>8, <1>9
<1>13. {} \in SUBSET Names /\ {"context"} \in SUBSET Names
  BY <1>1
<1>14. /\ RandomSystem \in Seq(WellBehaved) /\ RandomXorshift \in Seq(WellBehaved)
       /\ RandomZero \in Seq(WellBehaved) /\ RandomChacha20 \in Seq(WellBehaved)
  BY <1>11, <1>13 DEF RandomSystem, RandomXorshift, RandomZero, RandomChacha20
<1>15. <<Dummy, StackPush, StackPop>> \o RandomSystem \in Seq(WellBehaved)
  BY <1>12, <1>14, ConcatProperties
<1>16. <<Dummy, StackPush, StackPop>> \o RandomSystem \o RandomXorshift \in Seq(WellBehaved)
  BY <1>14, <1>15, ConcatProperties
<1>17. <<Dummy, StackPush, StackPop>> \o RandomSystem \o RandomXorshift \o RandomZero
         \in Seq(WellBehaved)
  BY <1>14, <1>16, ConcatProperties
<1>18. <<Dummy, StackPush, StackPop>> \o RandomSystem \o RandomXorshift \o RandomZero
         \o RandomChacha20 \in Seq(WellBehaved)
  BY <1>14, <1>17, ConcatProperties
<1>19. Benches \in Seq(WellBehaved)
  BY <1>12, <1>18, ConcatProperties DEF Benches
<1> QED
  BY <1>10, <1>19

LEMMA BenchIs ==
  ASSUME NEW b \in 1..Len(Benches)
  PROVE  /\ Benches[b] \in WellBehaved
         /\ Benches[b].consumes \in BOOLEAN
         /\ Benches[b].prepare \in SUBSET Names /\ Benches[b].iterate \in SUBSET Names
         /\ Benches[b].free \in SUBSET Names
         /\ Benches[b].consumes =>
              /\ Benches[b].prepare # {}
              /\ Benches[b].free = Benches[b].prepare \union Benches[b].iterate
              /\ Benches[b] # Utf8Decode
         /\ ~Benches[b].consumes =>
              /\ Benches[b].iterate = {} /\ Benches[b].free \subseteq Benches[b].prepare
              /\ \A what \in Benches[b].prepare \ Benches[b].free :
                   Benches[b] = Utf8Decode /\ what = "struct"
<1>1. Benches[b] \in WellBehaved
  BY BenchesBehave
<1> QED
  BY <1>1, BenchesBehave DEF WellBehaved

LEMMA LengthIs == Len(Benches) \in Nat
BY BenchesBehave

-----------------------------------------------------------------------------
(* Bench: the memory.                                                      *)

LEMMA NamesFinite == IsFiniteSet(Names)
<1>1. IsFiniteSet({})
  BY FS_EmptySet
<1>2. IsFiniteSet({"struct"})
  BY <1>1, FS_Singleton
<1>3. IsFiniteSet({"struct"} \union {"bins"})
  BY <1>2, FS_AddElement
<1>4. IsFiniteSet({"struct"} \union {"bins"} \union {"items"})
  BY <1>3, FS_AddElement
<1>5. IsFiniteSet({"struct"} \union {"bins"} \union {"items"} \union {"table"})
  BY <1>4, FS_AddElement
<1>6. IsFiniteSet({"struct"} \union {"bins"} \union {"items"} \union {"table"} \union {"input"})
  BY <1>5, FS_AddElement
<1>7. IsFiniteSet({"struct"} \union {"bins"} \union {"items"} \union {"table"} \union {"input"}
                  \union {"pattern"})
  BY <1>6, FS_AddElement
<1>8. IsFiniteSet({"struct"} \union {"bins"} \union {"items"} \union {"table"} \union {"input"}
                  \union {"pattern"} \union {"output"})
  BY <1>7, FS_AddElement
<1>9. IsFiniteSet({"struct"} \union {"bins"} \union {"items"} \union {"table"} \union {"input"}
                  \union {"pattern"} \union {"output"} \union {"context"})
  BY <1>8, FS_AddElement
<1>10. IsFiniteSet({"struct"} \union {"bins"} \union {"items"} \union {"table"} \union {"input"}
                   \union {"pattern"} \union {"output"} \union {"context"} \union {"buffer"})
  BY <1>9, FS_AddElement
<1>11. Names = {"struct"} \union {"bins"} \union {"items"} \union {"table"} \union {"input"}
               \union {"pattern"} \union {"output"} \union {"context"} \union {"buffer"}
  BY DEF Names
<1> QED
  BY <1>10, <1>11

LEMMA PartsFinite ==
  ASSUME NEW input, NEW whats \in SUBSET Names
  PROVE  IsFiniteSet(Parts(input, whats))
<1> DEFINE f == [what \in whats |-> Part(input, what)]
<1>1. f \in Surjection(whats, Parts(input, whats))
  BY DEF Surjection, Parts
<1>2. IsFiniteSet(whats)
  BY NamesFinite, FS_Subset
<1> QED
  BY <1>1, <1>2, FS_Surjection

LEMMA UnionFinite ==
  ASSUME NEW S, NEW T, IsFiniteSet(S), IsFiniteSet(T)
  PROVE  IsFiniteSet(S \union T)
BY FS_Union

\* There is always a number for an allocation: fewer are ruled out than there are.
LEMMA FreshIs ==
  ASSUME IsFiniteSet(live)
  PROVE  /\ Fresh \in Nat \ {0} /\ Fresh # data
         /\ \A part \in live : part.bench = at => part.input # Fresh
<1> DEFINE f == [part \in live |-> part.input]
           T == {part.input : part \in live}
<1>1. f \in Surjection(live, T)
  BY DEF Surjection
<1>2. IsFiniteSet(T) /\ Cardinality(T) <= Cardinality(live)
  BY <1>1, FS_Surjection
<1>3. PICK n : n = Cardinality(live) /\ n \in Nat
  BY FS_CardinalityType
<1>4. PICK t : t = Cardinality(T) /\ t \in Nat
  BY <1>2, FS_CardinalityType
<1>5. /\ IsFiniteSet(T \union {data})
      /\ Cardinality(T \union {data}) = (IF data \in T THEN t ELSE t + 1)
  BY <1>2, <1>4, FS_AddElement
<1>6. \E x \in 1..n+2 : x \notin T \union {data}
  <2> SUFFICES ASSUME \A x \in 1..n+2 : x \in T \union {data} PROVE FALSE
    OBVIOUS
  <2>1. Cardinality(1..n+2) = n + 2
    BY <1>3, FS_Interval
  <2>2. Cardinality(1..n+2) <= Cardinality(T \union {data})
    BY <1>5, FS_Subset
  <2> QED
    BY <1>2, <1>3, <1>4, <1>5, <2>1, <2>2
<1>7. PICK x \in 1..n+2 : x # data /\ \A part \in live : part.bench = at => part.input # x
  BY <1>6
<1>8. /\ Fresh \in 1..n+2 /\ Fresh # data
      /\ \A part \in live : part.bench = at => part.input # Fresh
  BY <1>3, <1>7 DEF Fresh
<1> QED
  BY <1>3, <1>8

-----------------------------------------------------------------------------
(* Bench: the invariant.                                                   *)

Running == stage \in {"warming", "measuring"}

\* A part of the input at hand, which was not consumed.
Current(part) ==
  /\ Running /\ part.bench = at /\ part.input = data
  /\ part.what \in Bench.prepare /\ (Bench.consumes => ~used)

\* A part that was leaked.
Leaked(part) ==
  \/ Benches[part.bench] = Utf8Decode /\ part.what = "struct"
  \/ mode = "oneshot" /\ Benches[part.bench].consumes
       /\ part.what \in Benches[part.bench].prepare

\* The types of what the steps work with.
BenchTypes ==
  /\ stage \in {"options", "choosing", "warming", "measuring", "ended", "crashed"}
  /\ mode \in {"bench", "oneshot", "valgrind", "list"}
  /\ iter \in Nat \ {0} /\ time \in Nat
  /\ at \in Nat \ {0} /\ enabled \subseteq 1..Len(Benches)
  /\ data \in Nat /\ used \in BOOLEAN
  /\ done \in 0..iter /\ elapsed \in Nat /\ after \in Nat \union {-1}
  /\ stage = "options" => live = {} /\ done = 0
  /\ Running => at \in enabled
  /\ stage = "warming" => mode = "bench" /\ ~used
  /\ stage \in {"choosing", "warming", "measuring"} => mode \in {"bench", "oneshot"}

\* What is allocated: parts of benchmarks that ran, or of the one that runs.
MemoryInv ==
  /\ IsFiniteSet(live)
  /\ \A part \in live :
       /\ part = [bench |-> part.bench, input |-> part.input, what |-> part.what]
       /\ part.bench \in 1..Len(Benches)
       /\ IF Running THEN part.bench <= at ELSE part.bench < at
       /\ Current(part) \/ Leaked(part)

\* In the mode for one, a benchmark that consumes its inputs holds parts of one at most.
OneInput ==
  mode = "oneshot" =>
    \A part, other \in live :
      part.bench = other.bench /\ Benches[part.bench].consumes => part.input = other.input

\* The input is whole until it is consumed, and NULL if there is nothing to allocate.
InputInv ==
  Running =>
    /\ (Bench.consumes => ~used) => Parts(data, Bench.prepare) \subseteq live
    /\ data = 0 => Bench.prepare = {}
    /\ mode = "bench" /\ stage = "measuring" => used

\* The clock was read once an iteration was done.
ClockInv == stage \in {"warming", "measuring"} /\ after = -1 => done = 0

\* An input is used by every iteration.
UsedInv == stage = "measuring" /\ done # 0 => used

BenchInv ==
  /\ BenchTypes /\ MemoryInv /\ OneInput /\ InputInv /\ ClockInv /\ UsedInv
  /\ NothingMisused

LEMMA BenchInitHolds == BenchInit => BenchInv
<1> SUFFICES ASSUME BenchInit PROVE BenchInv
  OBVIOUS
<1> USE DEF BenchInit
<1>1. ~Running
  BY DEF Running
<1>2. BenchTypes
  <2>1. iter \in Nat \ {0} /\ time \in Nat /\ done \in 0..iter
    BY BoundsAssumption
  <2>2. at \in Nat \ {0} /\ data \in Nat /\ elapsed \in Nat /\ after \in Nat \union {-1}
    OBVIOUS
  <2> QED
    BY <1>1, <2>1, <2>2 DEF BenchTypes
<1>3. MemoryInv
  BY FS_EmptySet DEF MemoryInv
<1>4. OneInput /\ InputInv /\ ClockInv /\ UsedInv /\ NothingMisused
  BY <1>1 DEF OneInput, InputInv, ClockInv, UsedInv, NothingMisused
<1> QED
  BY <1>2, <1>3, <1>4 DEF BenchInv

\* Before anything runs, only the settings matter.
LEMMA NothingRan ==
  ASSUME BenchTypes', live = {}, live' = live, ~Running', misused' = misused, ~misused
  PROVE  BenchInv'
<1>1. MemoryInv' /\ OneInput'
  BY FS_EmptySet DEF MemoryInv, OneInput
<1>2. InputInv' /\ ClockInv' /\ UsedInv' /\ NothingMisused'
  BY DEF InputInv, ClockInv, UsedInv, Running, NothingMisused
<1> QED
  BY <1>1, <1>2 DEF BenchInv

LEMMA OptionsKeep ==
  ASSUME BenchInv,
         \/ \E n \in 0..MaxIter : GiveIterations(n)
         \/ \E t \in 0..MaxTime : GiveTime(t)
         \/ \E m \in {"oneshot", "valgrind", "list"} : GiveMode(m)
         \/ GiveEnd \/ GiveOption \/ EndOfOptions
  PROVE  BenchInv'
<1>1. BenchTypes /\ stage = "options" /\ live = {} /\ done = 0 /\ ~misused
  BY DEF BenchInv, BenchTypes, NothingMisused, GiveIterations, GiveTime, GiveMode, GiveEnd,
         GiveOption, EndOfOptions
<1>2. /\ BenchTypes' /\ ~Running'
      /\ live' = live /\ misused' = misused
  <2>1. CASE \E n \in 0..MaxIter : GiveIterations(n)
    <3>1. PICK n \in 0..MaxIter : GiveIterations(n)
      BY <2>1
    <3>2. n = 0 \/ n \in Nat \ {0}
      BY BoundsAssumption
    <3>3. CASE n = 0
      BY <1>1, <3>1, <3>3 DEF GiveIterations, Exit, settings, unbenched, BenchTypes, Running
    <3>4. CASE n \in Nat \ {0}
      <4>1. /\ iter' = n /\ UNCHANGED <<stage, mode, time, unbenched, failed>>
        BY <3>1, <3>4 DEF GiveIterations
      <4>2. 0 \in 0..iter'
        BY <3>4, <4>1
      <4> QED
        BY <1>1, <3>4, <4>1, <4>2 DEF unbenched, BenchTypes, Running
    <3> QED
      BY <3>2, <3>3, <3>4
  <2>2. CASE \E t \in 0..MaxTime : GiveTime(t)
    BY <1>1, <2>2, BoundsAssumption DEF GiveTime, unbenched, BenchTypes, Running
  <2>3. CASE \E m \in {"oneshot", "valgrind", "list"} : GiveMode(m)
    BY <1>1, <2>3 DEF GiveMode, unbenched, BenchTypes, Running
  <2>4. CASE GiveEnd
    BY <1>1, <2>4 DEF GiveEnd, Exit, settings, unbenched, BenchTypes, Running
  <2>5. CASE GiveOption
    BY <1>1, <2>5 DEF GiveOption, settings, unbenched, BenchTypes, Running
  <2>6. CASE EndOfOptions
    BY <1>1, <2>6 DEF EndOfOptions, settings, BenchTypes, Running
  <2> QED
    BY <2>1, <2>2, <2>3, <2>4, <2>5, <2>6
<1> QED
  BY <1>1, <1>2, NothingRan

LEMMA SkipKeeps == ASSUME BenchInv, Skip \/ Finish PROVE BenchInv'
<1>1. /\ stage = "choosing" /\ ~Running /\ ~Running' /\ stage' \in {"choosing", "ended"}
      /\ live' = live /\ mode' = mode /\ misused' = misused
      /\ at' = at + 1 \/ at' = at
      /\ UNCHANGED <<iter, time, enabled, data, used, done, elapsed, after>>
  BY DEF Skip, Finish, Running, settings, unbenched
<1>2. at \in Nat \ {0} /\ at' \in Nat \ {0} /\ at <= at'
  BY <1>1 DEF BenchInv, BenchTypes
<1>3. BenchTypes'
  BY <1>1, <1>2 DEF BenchInv, BenchTypes
<1>4. MemoryInv'
  <2>1. ASSUME NEW part \in live
        PROVE  /\ part = [bench |-> part.bench, input |-> part.input, what |-> part.what]
               /\ part.bench \in 1..Len(Benches) /\ part.bench < at /\ Leaked(part)
    BY <1>1 DEF BenchInv, MemoryInv, Current
  <2>2. ASSUME NEW part \in live PROVE part.bench < at'
    <3>1. part.bench \in Nat /\ part.bench < at
      BY <2>1, LengthIs
    <3> QED
      BY <1>2, <3>1
  <2>3. ASSUME NEW part \in live PROVE Leaked(part)'
    BY <1>1, <2>1 DEF Leaked
  <2> QED
    BY <1>1, <2>1, <2>2, <2>3 DEF BenchInv, MemoryInv
<1>5. OneInput'
  BY <1>1 DEF BenchInv, OneInput
<1>6. InputInv' /\ ClockInv' /\ UsedInv' /\ NothingMisused'
  BY <1>1 DEF BenchInv, InputInv, ClockInv, UsedInv, NothingMisused, Running
<1> QED
  BY <1>3, <1>4, <1>5, <1>6 DEF BenchInv

LEMMA TickKeeps == ASSUME BenchInv, Tick PROVE BenchInv'
<1>1. /\ UNCHANGED <<stage, settings, enabled, at, data, used, live, done, after, misused>>
      /\ elapsed' = elapsed + 1
  BY DEF Tick
<1>2. BenchTypes'
  <2>1. elapsed' \in Nat
    BY <1>1 DEF BenchInv, BenchTypes
  <2> QED
    BY <1>1, <2>1 DEF BenchInv, BenchTypes, settings, Running
<1>3. MemoryInv' /\ OneInput' /\ InputInv' /\ ClockInv' /\ UsedInv' /\ NothingMisused'
  BY <1>1 DEF BenchInv, MemoryInv, OneInput, InputInv, ClockInv, UsedInv, NothingMisused, Running,
              Current, Leaked, settings, Bench, Parts, Part
<1> QED
  BY <1>2, <1>3 DEF BenchInv

\* An input that a benchmark allocates is all there, and nothing else has its number.
LEMMA PrepareKeeps == ASSUME BenchInv, Prepare PROVE BenchInv'
<1>1. /\ stage = "choosing" /\ at \in enabled
      /\ IF Bench.prepare = {} THEN data' = 0 /\ live' = live
         ELSE data' = Fresh /\ live' = live \union Parts(Fresh, Bench.prepare)
      /\ used' = FALSE
      /\ stage' = IF mode = "bench" THEN "warming" ELSE "measuring"
      /\ done' = 0 /\ elapsed' = 0 /\ after' = -1
      /\ UNCHANGED <<mode, iter, time, enabled, at, misused>>
  BY DEF Prepare, settings
<1>2. /\ BenchTypes /\ MemoryInv /\ OneInput /\ ~misused /\ ~Running /\ Running'
      /\ at \in 1..Len(Benches) /\ Len(Benches) \in Nat
  BY <1>1, LengthIs DEF BenchInv, BenchTypes, Running, NothingMisused
<1>3. /\ Fresh \in Nat \ {0}
      /\ \A part \in live : part.bench = at => part.input # Fresh
  BY <1>2, FreshIs DEF MemoryInv
<1>4. /\ Bench \in WellBehaved /\ Bench.prepare \in SUBSET Names
      /\ Bench' = Bench /\ Bench.consumes \in BOOLEAN
  BY <1>1, <1>2, BenchIs DEF Bench
<1>5. live' = live \union Parts(data', Bench.prepare) /\ data' \in Nat
  BY <1>1, <1>3 DEF Parts
<1>6. mode \in {"bench", "oneshot"}
  BY <1>1, <1>2 DEF BenchTypes
<1>7. BenchTypes'
  <2>1. 0 \in 0..iter /\ iter \in Nat \ {0}
    BY <1>2 DEF BenchTypes
  <2> QED
    BY <1>1, <1>2, <1>5, <1>6, <2>1 DEF BenchTypes
<1>8. ASSUME NEW part \in live
      PROVE  /\ part = [bench |-> part.bench, input |-> part.input, what |-> part.what]
             /\ part.bench \in 1..Len(Benches) /\ part.bench < at /\ Leaked(part)
  BY <1>2 DEF MemoryInv, Current
<1>9. ASSUME NEW part \in Parts(data', Bench.prepare)
      PROVE  /\ part = [bench |-> part.bench, input |-> part.input, what |-> part.what]
             /\ part.bench = at /\ part.input = data' /\ part.what \in Bench.prepare
  BY <1>9 DEF Parts, Part
<1>10. MemoryInv'
  <2>1. IsFiniteSet(live')
    BY <1>2, <1>4, <1>5, PartsFinite, UnionFinite DEF MemoryInv
  <2>2. ASSUME NEW part \in live' PROVE Current(part)' \/ Leaked(part)'
    <3>1. CASE part \in live
      BY <1>1, <1>8, <3>1 DEF Leaked
    <3>2. CASE part \in Parts(data', Bench.prepare)
      BY <1>1, <1>2, <1>4, <1>9, <3>2 DEF Current
    <3> QED
      BY <1>5, <3>1, <3>2
  <2>3. ASSUME NEW part \in live'
        PROVE  /\ part = [bench |-> part.bench, input |-> part.input, what |-> part.what]
               /\ part.bench \in 1..Len(Benches) /\ part.bench <= at
    <3>1. CASE part \in live
      <4>1. part.bench \in Nat /\ at \in Nat /\ part.bench < at
        BY <1>2, <1>8, <3>1
      <4> QED
        BY <1>8, <3>1, <4>1
    <3>2. CASE part \in Parts(data', Bench.prepare)
      BY <1>2, <1>9, <3>2
    <3> QED
      BY <1>5, <3>1, <3>2
  <2> QED
    BY <1>1, <1>2, <2>1, <2>2, <2>3 DEF MemoryInv
<1>11. OneInput'
  <2> SUFFICES ASSUME NEW part \in live', NEW other \in live', mode = "oneshot",
                      part.bench = other.bench, Benches[part.bench].consumes
               PROVE  part.input = other.input
    BY <1>1 DEF OneInput
  <2>1. \A p \in live : p.bench \in Nat /\ p.bench < at /\ at \in Nat
    BY <1>2, <1>8
  <2>2. CASE part.bench = at
    <3>1. \A p \in live' : p.bench = at => p.input = data'
      <4>1. \A p \in live : p.bench # at
        BY <2>1
      <4> QED
        BY <1>5, <1>9, <4>1
    <3> QED
      BY <2>2, <3>1
  <2>3. CASE part.bench # at
    BY <1>2, <1>5, <1>9, <2>3 DEF OneInput
  <2> QED
    BY <2>2, <2>3
<1>12. InputInv'
  BY <1>1, <1>3, <1>4, <1>5 DEF InputInv, Parts, Part
<1>13. ClockInv' /\ UsedInv' /\ NothingMisused'
  BY <1>1, <1>2 DEF ClockInv, UsedInv, NothingMisused
<1> QED
  BY <1>7, <1>10, <1>11, <1>12, <1>13 DEF BenchInv

\* The first iteration takes the input that is there; if it is consumed, all of it is
\* freed.
LEMMA WarmKeeps == ASSUME BenchInv, Warm PROVE BenchInv'
<1>1. /\ stage = "warming" /\ stage' = "measuring"
      /\ misused' = (misused \/ ~Sound(live, data, used))
      /\ live' = Iterated(live, data) /\ used' = TRUE
      /\ UNCHANGED <<mode, iter, time, enabled, at, data, done, elapsed, after>>
  BY DEF Warm, settings
<1>2. /\ BenchTypes /\ MemoryInv /\ OneInput /\ InputInv /\ ~misused /\ Running /\ Running'
      /\ at \in 1..Len(Benches) /\ mode = "bench" /\ ~used /\ used = FALSE
  BY <1>1 DEF BenchInv, BenchTypes, Running, NothingMisused
<1>3. /\ Bench' = Bench /\ Bench.consumes \in BOOLEAN
      /\ Bench.consumes => Bench.free = Bench.prepare \union Bench.iterate
      /\ ~Bench.consumes => Bench.iterate = {}
      /\ Bench.iterate \in SUBSET Names
  BY <1>1, <1>2, BenchIs DEF Bench
<1>4. Parts(data, Bench.prepare) \subseteq live
  BY <1>2 DEF InputInv
<1>5. Sound(live, data, used)
  BY <1>2, <1>4 DEF Sound
<1>6. /\ ~Bench.consumes => live' = live
      /\ Bench.consumes => live' = live \ Parts(data, Bench.prepare)
  <2>1. CASE ~Bench.consumes
    BY <1>1, <1>3, <2>1 DEF Iterated, Parts
  <2>2. CASE Bench.consumes
    <3>1. /\ live' = (live \union Parts(data, Bench.iterate)) \ Parts(data, Bench.free)
          /\ Bench.free = Bench.prepare \union Bench.iterate
      BY <1>1, <1>3, <2>2 DEF Iterated
    <3>2. /\ Parts(data, Bench.free)
               = Parts(data, Bench.prepare) \union Parts(data, Bench.iterate)
          /\ \A part \in Parts(data, Bench.iterate) : part.bench = at /\ part.input = data
                 /\ part.what \in Bench.iterate /\ part = Part(data, part.what)
      BY <3>1 DEF Parts, Part
    <3>3. ASSUME NEW part \in live, part \notin Parts(data, Bench.prepare)
          PROVE  part \notin Parts(data, Bench.iterate)
      <4> SUFFICES ASSUME part \in Parts(data, Bench.iterate) PROVE FALSE
        OBVIOUS
      <4>1. /\ part = Part(data, part.what) /\ part.bench = at
            /\ part.what \notin Bench.prepare
        BY <3>2, <3>3 DEF Parts
      <4>2. Current(part) \/ Leaked(part)
        BY <1>2 DEF MemoryInv
      <4>3. Leaked(part)
        BY <4>1, <4>2 DEF Current
      <4>4. Benches[at] = Utf8Decode
        BY <1>2, <4>1, <4>3 DEF Leaked
      <4> QED
        BY <1>2, <2>2, <4>4, BenchIs DEF Bench
    <3>4. live' = live \ Parts(data, Bench.prepare)
      BY <3>1, <3>2, <3>3
    <3> QED
      BY <2>2, <3>4
  <2> QED
    BY <1>3, <2>1, <2>2
<1>7. BenchTypes'
  BY <1>1, <1>2 DEF BenchTypes
<1>8. MemoryInv'
  <2>1. live' \subseteq live
    BY <1>3, <1>6
  <2>2. IsFiniteSet(live')
    BY <1>2, <2>1, FS_Subset DEF MemoryInv
  <2>3. ASSUME NEW part \in live' PROVE Current(part)' \/ Leaked(part)'
    <3>1. Current(part) \/ Leaked(part)
      BY <1>2, <2>1 DEF MemoryInv
    <3>2. CASE Leaked(part)
      BY <1>1, <3>2 DEF Leaked
    <3>3. CASE Current(part) /\ ~Bench.consumes
      BY <1>1, <1>2, <1>3, <3>3 DEF Current
    <3>4. CASE Current(part) /\ Bench.consumes
      <4>1. part = [bench |-> at, input |-> data, what |-> part.what]
        BY <1>2, <2>1, <3>4 DEF MemoryInv, Current
      <4>2. part \in Parts(data, Bench.prepare)
        BY <3>4, <4>1 DEF Current, Parts, Part
      <4> QED
        BY <1>6, <3>4, <4>2
    <3> QED
      BY <1>3, <3>1, <3>2, <3>3, <3>4
  <2> QED
    BY <1>1, <1>2, <2>1, <2>2, <2>3 DEF MemoryInv
<1>9. OneInput'
  BY <1>1, <1>2 DEF OneInput
<1>10. InputInv'
  <2>1. data = 0 => Bench.prepare = {}
    BY <1>2 DEF InputInv
  <2>2. ~Bench.consumes => Parts(data, Bench.prepare)' \subseteq live'
    BY <1>1, <1>3, <1>4, <1>6 DEF Parts, Part
  <2> QED
    BY <1>1, <1>3, <2>1, <2>2 DEF InputInv
<1>11. ClockInv' /\ UsedInv' /\ NothingMisused'
  <2>1. misused' = FALSE
    BY <1>1, <1>2, <1>5
  <2>2. after = -1 => done = 0
    BY <1>1 DEF BenchInv, ClockInv
  <2> QED
    BY <1>1, <2>1, <2>2 DEF ClockInv, UsedInv, NothingMisused
<1> QED
  BY <1>7, <1>8, <1>9, <1>10, <1>11 DEF BenchInv

\* A benchmark that consumes its input is given a fresh one, and all of it is freed; any
\* other keeps the one it has.  Either way the memory is as before.
LEMMA MeasureKeeps == ASSUME BenchInv, Measure PROVE BenchInv'
<1> DEFINE memory == IF Input = data THEN live ELSE live \union Parts(Input, Bench.prepare)
           again == Input = data /\ used
<1>1. /\ stage = "measuring" /\ stage' = "measuring" /\ GoesOn
      /\ misused' = (misused \/ ~Sound(memory, Input, again) \/ (done = iter /\ after = -1))
      /\ live' = Iterated(memory, Input)
      /\ data' = Input /\ used' = TRUE
      /\ done' = (IF done = iter THEN iter ELSE done + 1)
      /\ after' = elapsed
      /\ UNCHANGED <<mode, iter, time, enabled, at, elapsed>>
  BY DEF Measure, settings, Taken
<1>2. /\ BenchTypes /\ MemoryInv /\ OneInput /\ InputInv /\ ~misused /\ Running /\ Running'
      /\ at \in 1..Len(Benches) /\ mode \in {"bench", "oneshot"}
      /\ data \in Nat /\ IsFiniteSet(live)
      /\ mode = "bench" => used
  BY <1>1 DEF BenchInv, BenchTypes, Running, NothingMisused, MemoryInv, InputInv
<1>3. /\ Bench' = Bench /\ Bench.consumes \in BOOLEAN
      /\ Bench.consumes => Bench.free = Bench.prepare \union Bench.iterate
      /\ ~Bench.consumes => Bench.iterate = {}
  BY <1>1, <1>2, BenchIs DEF Bench
<1>4. /\ Fresh \in Nat \ {0} /\ Fresh # data
      /\ \A part \in live : part.bench = at => part.input # Fresh
  BY <1>2, FreshIs
<1>5. /\ Bench.consumes => Input = Fresh /\ memory = live \union Parts(Fresh, Bench.prepare)
      /\ ~Bench.consumes => Input = data /\ memory = live
  BY <1>3, <1>4 DEF Input
<1> HIDE DEF memory
<1>6. Sound(memory, Input, again)
  <2>1. CASE Bench.consumes
    BY <1>4, <1>5, <2>1 DEF Sound
  <2>2. CASE ~Bench.consumes
    BY <1>2, <1>5, <2>2 DEF Sound, InputInv
  <2> QED
    BY <1>3, <2>1, <2>2
<1>7. live' = live
  <2>1. CASE ~Bench.consumes
    BY <1>1, <1>3, <1>5, <2>1 DEF Iterated, Parts
  <2>2. CASE Bench.consumes
    <3>1. live' = (live \union Parts(Fresh, Bench.prepare) \union Parts(Fresh, Bench.iterate))
                    \ Parts(Fresh, Bench.free)
      BY <1>1, <1>5, <2>2 DEF Iterated
    <3>2. Parts(Fresh, Bench.free)
            = Parts(Fresh, Bench.prepare) \union Parts(Fresh, Bench.iterate)
      BY <1>3, <2>2 DEF Parts, Part
    <3>3. \A part \in Parts(Fresh, Bench.free) : part.bench = at /\ part.input = Fresh
      BY DEF Parts, Part
    <3>4. \A part \in live : part \notin Parts(Fresh, Bench.free)
      BY <1>4, <3>3
    <3> QED
      BY <3>1, <3>2, <3>4
  <2> QED
    BY <1>3, <2>1, <2>2
<1>8. done \in 0..iter /\ iter \in Nat \ {0} /\ elapsed \in Nat
  BY <1>2 DEF BenchTypes
<1>9. done' \in 0..iter /\ done' # 0
  BY <1>1, <1>8
<1>10. after = -1 => done # iter
  BY <1>1, <1>8 DEF BenchInv, ClockInv
<1>11. misused' = FALSE
  BY <1>1, <1>2, <1>6, <1>10
<1>12. data' \in Nat /\ (Bench.consumes => data' # 0)
  BY <1>1, <1>2, <1>3, <1>4, <1>5
<1>13. BenchTypes'
  BY <1>1, <1>2, <1>7, <1>8, <1>9, <1>12 DEF BenchTypes
<1>14. MemoryInv'
  <2>1. ASSUME NEW part \in live PROVE Current(part)' \/ Leaked(part)'
    <3>1. Current(part) \/ Leaked(part)
      BY <1>2 DEF MemoryInv
    <3>2. CASE Leaked(part)
      BY <1>1, <3>2 DEF Leaked
    <3>3. CASE Current(part) /\ ~Bench.consumes
      BY <1>1, <1>2, <1>3, <1>5, <3>3 DEF Current
    <3>4. CASE Current(part) /\ Bench.consumes
      <4>1. mode = "oneshot" /\ part.bench = at /\ part.what \in Bench.prepare
        BY <1>2, <3>4 DEF Current
      <4> QED
        BY <1>1, <3>4, <4>1 DEF Leaked, Bench
    <3> QED
      BY <1>3, <3>1, <3>2, <3>3, <3>4
  <2> QED
    BY <1>1, <1>2, <1>7, <2>1 DEF MemoryInv
<1>15. OneInput'
  BY <1>1, <1>2, <1>7 DEF OneInput
<1>16. InputInv'
  <2>1. CASE Bench.consumes
    BY <1>1, <1>3, <1>12, <2>1 DEF InputInv
  <2>2. CASE ~Bench.consumes
    BY <1>1, <1>2, <1>3, <1>5, <1>7, <2>2 DEF InputInv, Parts, Part
  <2> QED
    BY <1>3, <2>1, <2>2
<1>17. ClockInv' /\ UsedInv' /\ NothingMisused'
  BY <1>1, <1>8, <1>11 DEF ClockInv, UsedInv, NothingMisused
<1> QED
  BY <1>13, <1>14, <1>15, <1>16, <1>17 DEF BenchInv

\* What is left of an input is freed, but for the part that Utf8Decode forgets.
LEMMA ReleaseKeeps == ASSUME BenchInv, Release PROVE BenchInv'
<1>1. /\ stage = "measuring" /\ stage' = "choosing" /\ ~GoesOn
      /\ IF Releases
           THEN /\ live' = live \ Parts(data, Bench.free)
                /\ misused' = (misused \/ ~(Parts(data, Bench.free) \subseteq live))
           ELSE live' = live /\ misused' = misused
      /\ data' = 0 /\ used' = FALSE /\ at' = at + 1
      /\ UNCHANGED <<mode, iter, time, enabled, done, elapsed, after>>
  BY DEF Release, settings
<1>2. /\ BenchTypes /\ MemoryInv /\ OneInput /\ InputInv /\ ~misused /\ Running /\ ~Running'
      /\ at \in 1..Len(Benches) /\ mode \in {"bench", "oneshot"} /\ Len(Benches) \in Nat
      /\ iter \in Nat \ {0} /\ done \in 0..iter
  BY <1>1, LengthIs DEF BenchInv, BenchTypes, Running, NothingMisused
<1>3. /\ Bench.consumes \in BOOLEAN
      /\ Bench.free \subseteq Bench.prepare \/ Bench.consumes
      /\ ~Bench.consumes => \A what \in Bench.prepare \ Bench.free :
                              Bench = Utf8Decode /\ what = "struct"
  BY <1>2, BenchIs DEF Bench
<1>4. ~misused'
  <2>1. CASE Releases
    <3>1. ~Bench.consumes /\ Parts(data, Bench.prepare) \subseteq live
      BY <1>2, <2>1 DEF InputInv, Releases
    <3>2. Parts(data, Bench.free) \subseteq live
      BY <1>3, <3>1 DEF Parts
    <3> QED
      BY <1>1, <1>2, <2>1, <3>2
  <2>2. CASE ~Releases
    BY <1>1, <1>2, <2>2
  <2> QED
    BY <2>1, <2>2
<1>5. mode = "bench" => used
  BY <1>1, <1>2 DEF InputInv
<1>6. Bench.consumes => used
  <2>1. done >= iter
    BY <1>1, <1>2 DEF GoesOn
  <2>2. done # 0
    BY <1>2, <2>1
  <2> QED
    BY <1>1, <2>2 DEF BenchInv, UsedInv
<1>7. ASSUME NEW part \in live' PROVE part \in live /\ Leaked(part)'
  <2>1. part \in live
    BY <1>1
  <2>2. Current(part) \/ Leaked(part)
    BY <1>2, <2>1 DEF MemoryInv
  <2>3. CASE Leaked(part)
    BY <1>1, <2>1, <2>3 DEF Leaked
  <2>4. CASE Current(part)
    <3>1. /\ part.bench = at /\ part.input = data /\ part.what \in Bench.prepare
          /\ ~Bench.consumes
      BY <1>3, <1>6, <2>4 DEF Current
    <3>2. part = Part(data, part.what)
      BY <1>2, <2>1, <3>1 DEF MemoryInv, Part
    <3>3. data # 0
      BY <1>2, <3>1 DEF InputInv
    <3>4. part.what \notin Bench.free
      BY <1>1, <3>1, <3>2, <3>3 DEF Releases, Parts
    <3>5. Benches[part.bench] = Utf8Decode /\ part.what = "struct"
      BY <1>3, <3>1, <3>4 DEF Bench
    <3> QED
      BY <2>1, <3>5 DEF Leaked
  <2> QED
    BY <2>2, <2>3, <2>4
<1>8. BenchTypes'
  <2>1. at' \in Nat \ {0}
    BY <1>1, <1>2
  <2> QED
    BY <1>1, <1>2, <2>1 DEF BenchTypes
<1>9. MemoryInv'
  <2>1. IsFiniteSet(live')
    <3>1. live' \subseteq live
      BY <1>7
    <3> QED
      BY <1>2, <3>1, FS_Subset DEF MemoryInv
  <2>2. ASSUME NEW part \in live'
        PROVE  /\ part = [bench |-> part.bench, input |-> part.input, what |-> part.what]
               /\ part.bench \in 1..Len(Benches) /\ part.bench < at'
    <3>1. /\ part = [bench |-> part.bench, input |-> part.input, what |-> part.what]
          /\ part.bench \in 1..Len(Benches) /\ part.bench <= at
      BY <1>2, <1>7 DEF MemoryInv
    <3>2. part.bench \in Nat /\ at \in Nat
      BY <1>2, <3>1
    <3> QED
      BY <1>1, <3>1, <3>2
  <2> QED
    BY <1>2, <1>7, <2>1, <2>2 DEF MemoryInv
<1>10. OneInput'
  BY <1>1, <1>2, <1>7 DEF OneInput
<1>11. InputInv' /\ ClockInv' /\ UsedInv' /\ NothingMisused'
  BY <1>1, <1>2, <1>4 DEF InputInv, ClockInv, UsedInv, NothingMisused
<1> QED
  BY <1>8, <1>9, <1>10, <1>11 DEF BenchInv

LEMMA BenchInductive == BenchInv /\ [BenchNext]_benchVars => BenchInv'
<1> SUFFICES ASSUME BenchInv, [BenchNext]_benchVars PROVE BenchInv'
  OBVIOUS
<1>1. CASE UNCHANGED benchVars
  BY <1>1 DEF benchVars, settings, BenchInv, BenchTypes, MemoryInv, OneInput, InputInv, ClockInv,
              UsedInv, NothingMisused, Running, Current, Leaked, Bench, Parts, Part
<1>2. CASE BenchNext
  BY <1>2, OptionsKeep, SkipKeeps, PrepareKeeps, WarmKeeps, MeasureKeeps, TickKeeps,
     ReleaseKeeps DEF BenchNext
<1> QED
  BY <1>1, <1>2

LEMMA BenchSound == BenchSpec => []BenchInv
BY BenchInitHolds, BenchInductive, PTL DEF BenchSpec

\* However long it is asked to measure, and whichever benchmarks: passgen-bench never uses
\* an input after freeing or consuming it, and never a clock value it has not read.
THEOREM InputsUsedOnce == BenchSpec => []NothingMisused
<1>1. BenchInv => NothingMisused
  BY DEF BenchInv
<1> QED
  BY <1>1, BenchSound, PTL

\* What it has allocated of its inputs belongs to the one at hand, to the part that the
\* decoding of UTF-8 forgets, or to the one input too many of the mode for one.
THEOREM OnlyNamedLeaks == BenchSpec => []LeaksNamed
<1>1. ASSUME BenchInv PROVE LeaksNamed
  <2> SUFFICES ASSUME NEW part \in live, ~(part.bench = at /\ part.input = data),
                      ~(Benches[part.bench] = Utf8Decode /\ part.what = "struct")
               PROVE  /\ mode = "oneshot" /\ Benches[part.bench].consumes
                      /\ part.what \in Benches[part.bench].prepare
                      /\ \A other \in live :
                           other.bench = part.bench => other.input \in {part.input, data}
    BY DEF LeaksNamed
  <2>1. Leaked(part)
    BY <1>1 DEF BenchInv, MemoryInv, Current
  <2> QED
    BY <1>1, <2>1 DEF Leaked, BenchInv, OneInput
<1> QED
  BY <1>1, BenchSound, PTL
==============================================================================
