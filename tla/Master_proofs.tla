---------------------------- MODULE Master_proofs ----------------------------
(***************************************************************************)
(* Proofs about Master and its parts, for every configuration of Argon2,   *)
(* every seed, every size of block, of words and of request.               *)
(***************************************************************************)
EXTENDS Master, SequenceTheorems, WellFoundedInduction, TLAPS

-----------------------------------------------------------------------------
(***************************************************************************)
(* The parts in the whole: the area is filled, and the stream opened, by   *)
(* steps of Master that are steps of the part, and every other one leaves  *)
(* the part's variables alone.                                             *)
(***************************************************************************)
LEMMA MasterFills == Spec => FillSpec
<1>1. Init => FillInit
  BY DEF Init
<1>2. [Next]_vars => [FillNext]_fillVars
  <2> SUFFICES ASSUME [Next]_vars PROVE [FillNext]_fillVars
    OBVIOUS
  <2>1. CASE Absorb
    BY <2>1 DEF Absorb
  <2>2. CASE FinishHash
    BY <2>2 DEF FinishHash, FillNext
  <2>3. CASE FillStep
    BY <2>3 DEF FillStep, FillNext
  <2>4. CASE Open
    BY <2>4 DEF Open
  <2>5. CASE StreamStep
    BY <2>5 DEF StreamStep
  <2>6. CASE UNCHANGED vars
    BY <2>6 DEF vars
  <2> QED
    BY <2>1, <2>2, <2>3, <2>4, <2>5, <2>6 DEF Next
<1> QED
  BY <1>1, <1>2, PTL DEF Spec, FillSpec

LEMMA MasterStreams == Spec => KeySpec
<1>1. Init => KeyInit
  BY DEF Init
<1>2. [Next]_vars => [KeyNext]_keyVars
  <2> SUFFICES ASSUME [Next]_vars PROVE [KeyNext]_keyVars
    OBVIOUS
  <2>1. CASE Absorb
    BY <2>1 DEF Absorb
  <2>2. CASE FinishHash
    BY <2>2 DEF FinishHash
  <2>3. CASE FillStep
    BY <2>3 DEF FillStep
  <2>4. CASE Open
    BY <2>4, BufSizeAssumption DEF Open, KeyNext
  <2>5. CASE StreamStep
    BY <2>5 DEF StreamStep
  <2>6. CASE UNCHANGED vars
    BY <2>6 DEF vars
  <2> QED
    BY <2>1, <2>2, <2>3, <2>4, <2>5, <2>6 DEF Next
<1> QED
  BY <1>1, <1>2, PTL DEF Spec, KeySpec

-----------------------------------------------------------------------------
(* The work area of Argon2.                                                *)

\* Division with a remainder, for divisors that are not known.
LEMMA Division ==
  ASSUME NEW a \in Nat, NEW b \in Nat \ {0}
  PROVE  /\ a \div b \in Nat /\ a % b \in 0..b-1
         /\ a = (a \div b) * b + (a % b)
OBVIOUS

\* A quotient is less than what the divisor, multiplied, takes beyond the dividend.
LEMMA QuotientBelow ==
  ASSUME NEW a \in Nat, NEW b \in Nat \ {0}, NEW c \in Nat, a < c * b
  PROVE  a \div b < c
<1> DEFINE q == a \div b
           r == a % b
<1>1. q \in Nat /\ r \in 0..b-1 /\ a = q * b + r
  BY Division
<1> HIDE DEF q, r
<1>2. ~(q >= c)
  <2>1. SUFFICES ASSUME q >= c PROVE FALSE
    OBVIOUS
  <2>2. PICK k \in Nat : q = c + k
    BY <1>1, <2>1
  <2>3. q * b = c * b + k * b /\ k * b \in Nat
    BY <2>2
  <2>4. QED
    BY <1>1, <2>3
<1>3. QED
  BY <1>1, <1>2 DEF q

\* And it is at least what the divisor, multiplied, does not take beyond it.
LEMMA QuotientAtLeast ==
  ASSUME NEW a \in Nat, NEW b \in Nat \ {0}, NEW c \in Nat, c * b <= a
  PROVE  a \div b >= c
<1> DEFINE q == a \div b
           r == a % b
<1>1. q \in Nat /\ r \in 0..b-1 /\ a = q * b + r
  BY Division
<1> HIDE DEF q, r
<1>2. ~(q < c)
  <2>1. SUFFICES ASSUME q < c PROVE FALSE
    OBVIOUS
  <2>2. PICK k \in Nat : c = q + 1 + k
    BY <1>1, <2>1
  <2>3. c * b = q * b + b + k * b /\ k * b \in Nat
    BY <1>1, <2>2
  <2>4. QED
    BY <1>1, <2>3
<1>3. QED
  BY <1>1, <1>2 DEF q

\* The slice of a position in a lane.
LEMMA SliceAt ==
  ASSUME NEW unit \in Nat \ {0}, NEW at \in 0..4 * unit - 1
  PROVE  /\ at \div unit \in 0..3
         /\ at \div unit = 0 <=> at < unit
         /\ at \div unit = 1 <=> unit <= at /\ at < 2 * unit
         /\ at \div unit = 2 <=> 2 * unit <= at /\ at < 3 * unit
         /\ at \div unit = 3 <=> 3 * unit <= at
<1> DEFINE q == at \div unit
<1>1. q \in Nat
  BY Division
<1>2. q < 4
  BY QuotientBelow
<1>3. at < unit => q < 1
  <2>1. at < unit => at < 1 * unit
    OBVIOUS
  <2>2. QED
    BY <2>1, QuotientBelow
<1>4. at < 2 * unit => q < 2
  BY QuotientBelow
<1>5. at < 3 * unit => q < 3
  BY QuotientBelow
<1>6. unit <= at => q >= 1
  <2>1. unit <= at => 1 * unit <= at
    OBVIOUS
  <2>2. QED
    BY <2>1, QuotientAtLeast
<1>7. 2 * unit <= at => q >= 2
  BY QuotientAtLeast
<1>8. 3 * unit <= at => q >= 3
  BY QuotientAtLeast
<1> HIDE DEF q
<1>9. /\ q \in 0..3
      /\ q = 0 <=> at < unit
      /\ q = 1 <=> unit <= at /\ at < 2 * unit
      /\ q = 2 <=> 2 * unit <= at /\ at < 3 * unit
      /\ q = 3 <=> 3 * unit <= at
  BY <1>1, <1>2, <1>3, <1>4, <1>5, <1>6, <1>7, <1>8
<1>10. QED
  BY <1>9 DEF q

-----------------------------------------------------------------------------
\* Eight blocks for every lane make segments of two blocks at least, and the area is not
\* larger than a word can count.
LEMMA Shape ==
  ASSUME config \in Configs
  PROVE  /\ SegmentSize \in Nat /\ SegmentSize >= 2 /\ LaneSize = 4 * SegmentSize
         /\ LaneSize < WordMax /\ WordMax \in Nat \ {0} /\ Refresh \in Nat \ {0}
         /\ config.nb_lanes \in Nat \ {0} /\ config.nb_passes \in Nat \ {0}
         /\ config.algorithm \in {"argon2d", "argon2i", "argon2id"}
<1> DEFINE n == config.nb_lanes
           b == config.nb_blocks
           q == b \div n
<1>1. /\ n \in Nat \ {0} /\ b \in Nat /\ b >= 8 * n /\ b < WordMax
      /\ config.nb_passes \in Nat \ {0} /\ config.algorithm \in {"argon2d", "argon2i", "argon2id"}
  BY ConfigsAssumption
<1>2. WordMax \in Nat \ {0} /\ Refresh \in Nat \ {0}
  BY RefreshAssumption
<1>3. SegmentSize = q \div 4
  BY DEF SegmentSize
<1> HIDE DEF n, b
<1>4. q \in Nat /\ q >= 8
  BY <1>1, Division, QuotientAtLeast
<1>5. q <= b
  <2>1. b < (b + 1) * n
    BY <1>1
  <2>2. q < b + 1
    BY <1>1, <2>1, QuotientBelow
  <2>3. QED
    BY <1>1, <1>4, <2>2
<1> HIDE DEF q
<1>6. /\ q \div 4 \in Nat /\ q \div 4 >= 2 /\ 4 * (q \div 4) <= q
  BY <1>4
<1>7. QED
  BY <1>1, <1>2, <1>3, <1>4, <1>5, <1>6 DEF LaneSize, n, b

\* What is picked of a window lies in it, whatever the seed.
LEMMA PickInWindow ==
  ASSUME NEW window \in Nat \ {0}, NEW seed \in 0..WordMax-1, WordMax \in Nat \ {0}
  PROVE  (window - 1) - ((window * ((seed * seed) \div WordMax)) \div WordMax) \in 0..window-1
<1> DEFINE x == (seed * seed) \div WordMax
           y == (window * x) \div WordMax
<1>1. seed \in Nat /\ seed < WordMax /\ seed * seed \in Nat
  OBVIOUS
<1>2. x \in Nat
  BY <1>1, Division
<1>3. seed * seed < WordMax * WordMax
  <2>1. PICK k \in Nat : WordMax = seed + 1 + k
    BY <1>1
  <2>2. WordMax * WordMax = seed * WordMax + (1 + k) * WordMax
    BY <1>1, <2>1
  <2>3. seed * WordMax = seed * seed + seed * (1 + k) /\ seed * (1 + k) \in Nat
    BY <1>1, <2>1
  <2>4. (1 + k) * WordMax = WordMax + k * WordMax /\ k * WordMax \in Nat
    BY <2>1
  <2>5. QED
    BY <1>1, <2>2, <2>3, <2>4
<1>4. x < WordMax
  BY <1>1, <1>3, QuotientBelow
<1> HIDE DEF x
<1>5. window * x \in Nat /\ window * x < window * WordMax
  <2>1. PICK k \in Nat : WordMax = x + 1 + k
    BY <1>2, <1>4
  <2>2. window * WordMax = window * x + window * (1 + k)
    BY <1>2, <2>1
  <2>3. window * (1 + k) = window + window * k /\ window * k \in Nat
    BY <2>1
  <2>4. window * x \in Nat
    BY <1>2
  <2>5. QED
    BY <2>2, <2>3, <2>4
<1>6. y \in Nat /\ y < window
  BY <1>5, Division, QuotientBelow
<1> HIDE DEF y
<1>7. (window - 1) - y \in 0..window-1
  BY <1>6
<1>8. QED
  BY <1>7 DEF x, y

-----------------------------------------------------------------------------
AInv ==
  /\ config \in Configs
  /\ stage \in {"start", "filling", "filled"}
  /\ pass \in Nat /\ slice \in 0..3 /\ segment \in Lanes
  /\ block \in PassOffset(pass, slice)..SegmentSize
  /\ filled \in [Area -> Nat]
  /\ stage = "start" => pass = 0 /\ slice = 0 /\ segment = 0 /\ block = 2
  /\ stage = "filling" => pass < config.nb_passes
  /\ InOrder /\ AllFilled

\* Whether a block was filled in this pass.
Done(b) ==
  \/ SliceOf(b) < slice
  \/ SliceOf(b) = slice /\ b[1] < segment
  \/ SliceOf(b) = slice /\ b[1] = segment /\ b[2] < slice * SegmentSize + block
  \/ pass = 0 /\ b[2] < 2

LEMMA InOrderDone ==
  InOrder <=> (stage = "filling" => \A b \in Area : filled[b] = IF Done(b) THEN pass + 1 ELSE pass)
BY DEF InOrder, Done

\* The configuration stays, and what is computed of it.
LEMMA SameShape ==
  ASSUME config' = config
  PROVE  /\ SegmentSize' = SegmentSize /\ LaneSize' = LaneSize /\ Lanes' = Lanes /\ Area' = Area
         /\ \A b \in Area : SliceOf(b)' = SliceOf(b)
BY DEF SegmentSize, LaneSize, Lanes, Area, SliceOf

\* Where a block of a slice is in its lane.
LEMMA InSlice ==
  ASSUME config \in Configs, NEW b \in Area
  PROVE  /\ b[1] \in Lanes /\ b[2] \in 0..4 * SegmentSize - 1
         /\ SliceOf(b) \in 0..3
         /\ SliceOf(b) = 0 <=> b[2] < SegmentSize
         /\ SliceOf(b) = 1 <=> SegmentSize <= b[2] /\ b[2] < 2 * SegmentSize
         /\ SliceOf(b) = 2 <=> 2 * SegmentSize <= b[2] /\ b[2] < 3 * SegmentSize
         /\ SliceOf(b) = 3 <=> 3 * SegmentSize <= b[2]
<1>1. SegmentSize \in Nat \ {0} /\ LaneSize = 4 * SegmentSize
  BY Shape
<1>2. b[1] \in Lanes /\ b[2] \in 0..4 * SegmentSize - 1
  BY <1>1 DEF Area
<1> HIDE DEF SegmentSize
<1>3. QED
  BY <1>1, <1>2, SliceAt DEF SliceOf

\* Multiplication by the number of a slice.
LEMMA SliceStart ==
  ASSUME NEW unit \in Nat, NEW s \in 0..3
  PROVE  /\ s = 0 => s * unit = 0
         /\ s = 1 => s * unit = unit
         /\ s = 2 => s * unit = 2 * unit
         /\ s = 3 => s * unit = 3 * unit
OBVIOUS

LEMMA FillInvInit == FillInit => AInv
<1> SUFFICES ASSUME FillInit PROVE AInv
  OBVIOUS
<1>1. config \in Configs
  BY DEF FillInit
<1>2. SegmentSize \in Nat /\ SegmentSize >= 2 /\ config.nb_lanes \in Nat \ {0}
  BY <1>1, Shape
<1>3. 0 \in Lanes
  BY <1>2 DEF Lanes
<1>4. PassOffset(0, 0) = 2
  BY DEF PassOffset
<1>5. filled \in [Area -> Nat]
  BY DEF FillInit
<1>6. stage = "start" /\ pass = 0 /\ slice = 0 /\ segment = 0 /\ block = 2
  BY <1>4 DEF FillInit
<1>7. QED
  BY <1>1, <1>2, <1>3, <1>4, <1>5, <1>6 DEF AInv, InOrder, AllFilled

LEMMA FillFirstInv ==
  ASSUME AInv, FillFirst
  PROVE  AInv'
<1>1. /\ config \in Configs /\ config' = config
      /\ SegmentSize \in Nat /\ SegmentSize >= 2 /\ config.nb_passes \in Nat \ {0}
  BY Shape DEF AInv, FillFirst
<1>2. /\ stage' = "filling" /\ pass' = 0 /\ slice' = 0 /\ segment' = 0 /\ block' = 2
      /\ pass = 0 /\ slice = 0 /\ segment = 0 /\ block = 2 /\ 0 \in Lanes
  BY DEF AInv, FillFirst, loops
<1>3. /\ SegmentSize' = SegmentSize /\ Lanes' = Lanes /\ Area' = Area
      /\ \A b \in Area : SliceOf(b)' = SliceOf(b)
  BY <1>1, SameShape
<1>4. filled' = [b \in Area |-> IF b[2] < 2 THEN 1 ELSE 0] /\ filled' \in [Area -> Nat]
  BY DEF FillFirst
<1>5. PassOffset(pass', slice') = 2
  BY <1>2 DEF PassOffset
<1>6. ASSUME NEW b \in Area
      PROVE  filled'[b] = IF Done(b)' THEN pass' + 1 ELSE pass'
  <2>1. /\ b[1] \in Lanes /\ b[2] \in 0..4 * SegmentSize - 1 /\ SliceOf(b) \in 0..3
        /\ SliceOf(b) = 0 <=> b[2] < SegmentSize
    BY <1>1, InSlice
  <2>2. b[1] \in Nat
    BY <1>1, <2>1, Shape DEF Lanes
  <2>3. slice' * SegmentSize' = 0
    BY <1>1, <1>2, <1>3
  <2>4. Done(b)' <=> b[2] < 2
    BY <1>1, <1>2, <1>3, <2>1, <2>2, <2>3 DEF Done
  <2>5. QED
    BY <1>2, <1>4, <2>4
<1>7. InOrder'
  BY <1>3, <1>6 DEF InOrder, Done
<1>8. QED
  BY <1>1, <1>2, <1>3, <1>4, <1>5, <1>7 DEF AInv, AllFilled

\* The invariant and what shape the area has, at hand for the steps of the loops.
LEMMA InLoops ==
  ASSUME AInv, stage = "filling"
  PROVE  /\ config \in Configs
         /\ SegmentSize \in Nat /\ SegmentSize >= 2 /\ LaneSize = 4 * SegmentSize
         /\ pass \in Nat /\ slice \in 0..3 /\ segment \in Lanes /\ segment \in Nat
         /\ block \in Nat /\ block <= SegmentSize /\ block >= PassOffset(pass, slice)
         /\ filled \in [Area -> Nat]
         /\ pass < config.nb_passes /\ config.nb_passes \in Nat
         /\ config.nb_lanes \in Nat /\ segment < config.nb_lanes
         /\ \A b \in Area : filled[b] = IF Done(b) THEN pass + 1 ELSE pass
<1>1. config \in Configs
  BY DEF AInv
<1>2. /\ SegmentSize \in Nat /\ SegmentSize >= 2 /\ LaneSize = 4 * SegmentSize
      /\ config.nb_passes \in Nat /\ config.nb_lanes \in Nat \ {0}
  BY <1>1, Shape
<1>3. /\ pass \in Nat /\ slice \in 0..3 /\ segment \in Lanes
      /\ block \in PassOffset(pass, slice)..SegmentSize /\ PassOffset(pass, slice) \in {0, 2}
      /\ filled \in [Area -> Nat] /\ pass < config.nb_passes
  BY DEF AInv, PassOffset
<1>4. segment \in Nat /\ segment < config.nb_lanes
  BY <1>2, <1>3 DEF Lanes
<1>5. \A b \in Area : filled[b] = IF Done(b) THEN pass + 1 ELSE pass
  BY InOrderDone DEF AInv
<1>6. QED
  BY <1>1, <1>2, <1>3, <1>4, <1>5

\* The first two blocks of a lane are not filled again in the first pass, and the block
\* that is next was not filled in this one.
LEMMA CurrentUndone ==
  ASSUME AInv, Filling
  PROVE  Current \in Area /\ SliceOf(Current) = slice /\ ~Done(Current)
<1>1. stage = "filling" /\ block < SegmentSize
  BY DEF Filling
<1>2. /\ config \in Configs
      /\ SegmentSize \in Nat /\ SegmentSize >= 2 /\ LaneSize = 4 * SegmentSize
      /\ pass \in Nat /\ slice \in 0..3 /\ segment \in Lanes /\ segment \in Nat
      /\ block \in Nat /\ block >= PassOffset(pass, slice)
  BY <1>1, InLoops
<1> DEFINE at == slice * SegmentSize + block
<1>3. /\ slice = 0 => at = block
      /\ slice = 1 => at = SegmentSize + block
      /\ slice = 2 => at = 2 * SegmentSize + block
      /\ slice = 3 => at = 3 * SegmentSize + block
  BY <1>2, SliceStart
<1> HIDE DEF at
<1>4. at \in 0..4 * SegmentSize - 1 /\ Current = <<segment, at>>
  BY <1>1, <1>2, <1>3 DEF Current, at
<1>5. Current \in Area
  BY <1>2, <1>4 DEF Area
<1>6. SliceOf(Current) = slice
  BY <1>1, <1>2, <1>3, <1>4, <1>5, InSlice
<1>7. ~(pass = 0 /\ at < 2)
  BY <1>1, <1>2, <1>3 DEF PassOffset
<1>8. ~Done(Current)
  BY <1>2, <1>4, <1>6, <1>7 DEF Done, at
<1>9. QED
  BY <1>5, <1>6, <1>8

LEMMA FillBlockInv ==
  ASSUME AInv, FillBlock
  PROVE  AInv'
<1>1. /\ stage = "filling" /\ Filling /\ block < SegmentSize
      /\ filled' = [filled EXCEPT ![Current] = @ + 1] /\ block' = block + 1
      /\ UNCHANGED <<config, stage, pass, slice, segment>>
  BY DEF FillBlock, Filling
<1>2. /\ config \in Configs
      /\ SegmentSize \in Nat /\ SegmentSize >= 2 /\ LaneSize = 4 * SegmentSize
      /\ pass \in Nat /\ slice \in 0..3 /\ segment \in Lanes /\ segment \in Nat
      /\ block \in Nat /\ block >= PassOffset(pass, slice)
      /\ filled \in [Area -> Nat] /\ pass < config.nb_passes
      /\ \A b \in Area : filled[b] = IF Done(b) THEN pass + 1 ELSE pass
  BY <1>1, InLoops
<1>3. /\ SegmentSize' = SegmentSize /\ Lanes' = Lanes /\ Area' = Area
      /\ \A b \in Area : SliceOf(b)' = SliceOf(b)
  BY <1>1, SameShape
<1>4. Current \in Area /\ SliceOf(Current) = slice /\ ~Done(Current)
  BY <1>1, CurrentUndone
<1>5. slice * SegmentSize \in Nat
  BY <1>2
<1>6. ASSUME NEW b \in Area
      PROVE  filled'[b] = IF Done(b)' THEN pass' + 1 ELSE pass'
  <2>1. b[1] \in Lanes /\ b[2] \in Nat /\ b = <<b[1], b[2]>>
    BY <1>2 DEF Area
  <2>2. b = Current <=> b[1] = segment /\ b[2] = slice * SegmentSize + block
    BY <2>1 DEF Current
  <2>3. Done(b)' <=> Done(b) \/ b = Current
    BY <1>1, <1>2, <1>3, <1>4, <1>5, <2>1, <2>2 DEF Done
  <2>4. filled'[b] = IF b = Current THEN filled[b] + 1 ELSE filled[b]
    BY <1>1, <1>2
  <2>5. QED
    BY <1>1, <1>2, <1>4, <2>3, <2>4
<1>7. InOrder'
  BY <1>3, <1>6 DEF InOrder, Done
<1>8. filled' \in [Area -> Nat]
  BY <1>1, <1>2, <1>4
<1>9. PassOffset(pass', slice') = PassOffset(pass, slice) /\ PassOffset(pass, slice) \in {0, 2}
  BY <1>1 DEF PassOffset
<1>10. QED
  BY <1>1, <1>2, <1>3, <1>7, <1>8, <1>9 DEF AInv, AllFilled

LEMMA NextSegmentInv ==
  ASSUME AInv, NextSegment
  PROVE  AInv'
<1>1. /\ stage = "filling" /\ block >= SegmentSize /\ segment + 1 < config.nb_lanes
      /\ segment' = segment + 1 /\ block' = PassOffset(pass, slice)
      /\ UNCHANGED <<config, stage, pass, slice, filled>>
  BY DEF NextSegment
<1>2. /\ config \in Configs
      /\ SegmentSize \in Nat /\ SegmentSize >= 2
      /\ pass \in Nat /\ slice \in 0..3 /\ segment \in Nat
      /\ block = SegmentSize /\ config.nb_lanes \in Nat
      /\ filled \in [Area -> Nat] /\ pass < config.nb_passes
      /\ \A b \in Area : filled[b] = IF Done(b) THEN pass + 1 ELSE pass
  BY <1>1, InLoops
<1>3. /\ SegmentSize' = SegmentSize /\ Lanes' = Lanes /\ Area' = Area
      /\ \A b \in Area : SliceOf(b)' = SliceOf(b)
  BY <1>1, SameShape
<1>4. segment' \in Lanes
  BY <1>1, <1>2 DEF Lanes
<1>5. ASSUME NEW b \in Area
      PROVE  filled'[b] = IF Done(b)' THEN pass' + 1 ELSE pass'
  <2>1. /\ b[1] \in Lanes /\ b[2] \in 0..4 * SegmentSize - 1 /\ SliceOf(b) \in 0..3
        /\ SliceOf(b) = 0 <=> b[2] < SegmentSize
        /\ SliceOf(b) = 1 <=> SegmentSize <= b[2] /\ b[2] < 2 * SegmentSize
        /\ SliceOf(b) = 2 <=> 2 * SegmentSize <= b[2] /\ b[2] < 3 * SegmentSize
        /\ SliceOf(b) = 3 <=> 3 * SegmentSize <= b[2]
    BY <1>2, InSlice
  <2>2. b[1] \in Nat
    BY <1>2, <2>1 DEF Lanes
  <2> DEFINE start == slice * SegmentSize
  <2>3. /\ slice = 0 => start = 0
        /\ slice = 1 => start = SegmentSize
        /\ slice = 2 => start = 2 * SegmentSize
        /\ slice = 3 => start = 3 * SegmentSize
    BY <1>2, SliceStart
  <2>4. Done(b) <=> \/ SliceOf(b) < slice
                    \/ SliceOf(b) = slice /\ b[1] < segment
                    \/ SliceOf(b) = slice /\ b[1] = segment /\ b[2] < start + SegmentSize
                    \/ pass = 0 /\ b[2] < 2
    BY <1>2 DEF Done
  <2>5. Done(b)' <=> \/ SliceOf(b) < slice
                     \/ SliceOf(b) = slice /\ b[1] < segment + 1
                     \/ SliceOf(b) = slice /\ b[1] = segment + 1
                          /\ b[2] < start + PassOffset(pass, slice)
                     \/ pass = 0 /\ b[2] < 2
    BY <1>1, <1>3 DEF Done
  <2> HIDE DEF start
  <2>6. SliceOf(b) = slice => start <= b[2] /\ b[2] < start + SegmentSize
    BY <1>2, <2>1, <2>3
  <2>7. PassOffset(pass, slice) = IF pass = 0 /\ slice = 0 THEN 2 ELSE 0
    BY DEF PassOffset
  <2>8. start \in Nat
    BY <1>2, <2>3
  <2>9. Done(b)' <=> Done(b)
    BY <1>2, <2>1, <2>2, <2>3, <2>4, <2>5, <2>6, <2>7, <2>8
  <2>10. QED
    BY <1>1, <1>2, <2>9
<1>6. InOrder'
  BY <1>3, <1>5 DEF InOrder, Done
<1>7. PassOffset(pass, slice)' = PassOffset(pass, slice) /\ PassOffset(pass, slice) \in {0, 2}
  BY <1>1 DEF PassOffset
<1>8. QED
  BY <1>1, <1>2, <1>3, <1>4, <1>6, <1>7 DEF AInv, AllFilled

\* The slice is done in all lanes: every block of it, and of those before it.
LEMMA SliceDone ==
  ASSUME AInv, NextSlice, NEW b \in Area
  PROVE  SliceOf(b) <= slice => Done(b)
<1>1. stage = "filling" /\ block >= SegmentSize /\ segment + 1 = config.nb_lanes
  BY DEF NextSlice
<1>2. /\ config \in Configs /\ SegmentSize \in Nat
      /\ slice \in 0..3 /\ segment \in Nat /\ block = SegmentSize /\ config.nb_lanes \in Nat
  BY <1>1, InLoops
<1>3. /\ b[1] \in Lanes /\ b[2] \in 0..4 * SegmentSize - 1 /\ SliceOf(b) \in 0..3
      /\ SliceOf(b) = 0 <=> b[2] < SegmentSize
      /\ SliceOf(b) = 1 <=> SegmentSize <= b[2] /\ b[2] < 2 * SegmentSize
      /\ SliceOf(b) = 2 <=> 2 * SegmentSize <= b[2] /\ b[2] < 3 * SegmentSize
      /\ SliceOf(b) = 3 <=> 3 * SegmentSize <= b[2]
  BY <1>2, InSlice
<1>4. b[1] \in Nat /\ b[1] <= segment
  BY <1>1, <1>2, <1>3 DEF Lanes
<1>5. /\ slice = 0 => slice * SegmentSize = 0
      /\ slice = 1 => slice * SegmentSize = SegmentSize
      /\ slice = 2 => slice * SegmentSize = 2 * SegmentSize
      /\ slice = 3 => slice * SegmentSize = 3 * SegmentSize
  BY <1>2, SliceStart
<1>6. SliceOf(b) = slice => b[2] < slice * SegmentSize + block
  BY <1>2, <1>3, <1>5
<1>7. QED
  BY <1>2, <1>3, <1>4, <1>6 DEF Done

LEMMA NextSliceInv ==
  ASSUME AInv, NextSlice
  PROVE  AInv'
<1>1. /\ stage = "filling" /\ block >= SegmentSize
      /\ segment' = 0 /\ slice' = (slice + 1) % 4
      /\ pass' = IF slice = 3 THEN pass + 1 ELSE pass
      /\ stage' = IF pass' < config.nb_passes THEN stage ELSE "filled"
      /\ block' = PassOffset(pass', slice')
      /\ UNCHANGED <<config, filled>>
  BY DEF NextSlice
<1>2. /\ config \in Configs
      /\ SegmentSize \in Nat /\ SegmentSize >= 2
      /\ pass \in Nat /\ slice \in 0..3 /\ segment \in Nat
      /\ block = SegmentSize /\ config.nb_lanes \in Nat
      /\ filled \in [Area -> Nat] /\ pass < config.nb_passes /\ config.nb_passes \in Nat
      /\ \A b \in Area : filled[b] = IF Done(b) THEN pass + 1 ELSE pass
  BY <1>1, InLoops
<1>3. /\ SegmentSize' = SegmentSize /\ Lanes' = Lanes /\ Area' = Area
      /\ \A b \in Area : SliceOf(b)' = SliceOf(b)
  BY <1>1, SameShape
<1>4. segment' \in Lanes
  BY <1>1, <1>2, Shape DEF Lanes
<1>5. slice' \in 0..3 /\ (slice = 3 => slice' = 0) /\ (slice # 3 => slice' = slice + 1)
  BY <1>1, <1>2
<1>6. pass' \in Nat /\ stage' \in {"filling", "filled"}
  BY <1>1, <1>2
<1>7. block' = 0
  BY <1>1, <1>2, <1>5 DEF PassOffset
<1>8. ASSUME NEW b \in Area
      PROVE  filled'[b] = IF Done(b)' THEN pass' + 1 ELSE pass'
  <2>1. /\ b[1] \in Lanes /\ b[2] \in 0..4 * SegmentSize - 1 /\ SliceOf(b) \in 0..3
        /\ SliceOf(b) = 0 <=> b[2] < SegmentSize
        /\ SliceOf(b) = 1 <=> SegmentSize <= b[2] /\ b[2] < 2 * SegmentSize
        /\ SliceOf(b) = 2 <=> 2 * SegmentSize <= b[2] /\ b[2] < 3 * SegmentSize
        /\ SliceOf(b) = 3 <=> 3 * SegmentSize <= b[2]
    BY <1>2, InSlice
  <2>2. b[1] \in Nat
    BY <1>2, <2>1 DEF Lanes
  <2> DEFINE start == slice' * SegmentSize
  <2>3. /\ slice' = 0 => start = 0
        /\ slice' = 1 => start = SegmentSize
        /\ slice' = 2 => start = 2 * SegmentSize
        /\ slice' = 3 => start = 3 * SegmentSize
    BY <1>2, <1>5, SliceStart
  <2>4. Done(b)' <=> \/ SliceOf(b) < slice'
                     \/ SliceOf(b) = slice' /\ b[1] < 0
                     \/ SliceOf(b) = slice' /\ b[1] = 0 /\ b[2] < start + 0
                     \/ pass' = 0 /\ b[2] < 2
    BY <1>1, <1>3, <1>7 DEF Done
  <2> HIDE DEF start
  <2>5. SliceOf(b) = slice' => start <= b[2]
    BY <1>2, <1>5, <2>1, <2>3
  <2>6. start \in Nat
    BY <1>2, <1>5, <2>3
  <2>7. Done(b)' <=> SliceOf(b) < slice' \/ (pass' = 0 /\ b[2] < 2)
    BY <2>1, <2>2, <2>4, <2>5, <2>6
  <2>8. SliceOf(b) <= slice => Done(b)
    BY SliceDone
  <2>9. CASE slice = 3
    BY <1>1, <1>2, <1>5, <2>1, <2>7, <2>8, <2>9
  <2>10. CASE slice # 3
    <3>1. SliceOf(b) > slice => (Done(b) <=> pass = 0 /\ b[2] < 2)
      BY <1>2, <2>1 DEF Done
    <3>2. Done(b)' <=> Done(b)
      BY <1>1, <1>2, <1>5, <2>1, <2>7, <2>8, <2>10, <3>1
    <3>3. QED
      BY <1>1, <1>2, <2>10, <3>2
  <2>11. QED
    BY <2>9, <2>10
<1>9. InOrder'
  BY <1>3, <1>8 DEF InOrder, Done
<1>10. AllFilled'
  <2>1. SUFFICES ASSUME stage' = "filled", NEW b \in Area
                 PROVE  filled'[b] = config.nb_passes
    BY <1>1, <1>3 DEF AllFilled
  <2>2. slice = 3 /\ pass + 1 = config.nb_passes
    BY <1>1, <1>2, <2>1
  <2>3. SliceOf(b) <= slice
    BY <1>2, <2>2, InSlice
  <2>4. QED
    BY <1>1, <1>2, <2>2, <2>3, SliceDone
<1>11. PassOffset(pass', slice') = 0
  BY <1>1, <1>7
<1>12. stage' = "filling" => pass' < config'.nb_passes
  BY <1>1
<1>13. QED
  BY <1>1, <1>2, <1>3, <1>4, <1>5, <1>6, <1>7, <1>9, <1>10, <1>11, <1>12 DEF AInv, PassOffset

LEMMA FillInvStep == AInv /\ [FillNext]_fillVars => AInv'
<1> SUFFICES ASSUME AInv, [FillNext]_fillVars PROVE AInv'
  OBVIOUS
<1>1. CASE FillFirst
  BY <1>1, FillFirstInv
<1>2. CASE FillBlock
  BY <1>2, FillBlockInv
<1>3. CASE NextSegment
  BY <1>3, NextSegmentInv
<1>4. CASE NextSlice
  BY <1>4, NextSliceInv
<1>5. CASE UNCHANGED fillVars
  <2>1. UNCHANGED <<config, stage, pass, slice, segment, block, filled>>
    BY <1>5 DEF fillVars, loops
  <2>2. /\ SegmentSize' = SegmentSize /\ Lanes' = Lanes /\ Area' = Area
        /\ \A b \in Area : SliceOf(b)' = SliceOf(b)
    BY <2>1, SameShape
  <2>3. \A b \in Area : Done(b)' <=> Done(b)
    BY <2>1, <2>2 DEF Done
  <2>4. stage' = "filling" => \A b \in Area' : filled'[b] = IF Done(b)' THEN pass' + 1 ELSE pass'
    BY <2>1, <2>2, <2>3, InOrderDone DEF AInv
  <2>5. InOrder'
    BY <2>4 DEF InOrder, Done
  <2>6. PassOffset(pass', slice') = PassOffset(pass, slice)
    BY <2>1
  <2>7. QED
    BY <2>1, <2>2, <2>5, <2>6 DEF AInv, AllFilled
<1>6. QED
  BY <1>1, <1>2, <1>3, <1>4, <1>5 DEF FillNext

LEMMA FillInvHolds == FillSpec => []AInv
BY FillInvInit, FillInvStep, PTL DEF FillSpec

\* Whatever the lanes, blocks and passes: at the end, every block was filled in every pass
\* (passgen_argon2, which takes the key from the last ones).
THEOREM FillsAll == Spec => []AllFilled
<1>1. AInv => AllFilled
  BY DEF AInv
<1>2. QED
  BY <1>1, FillInvHolds, MasterFills, PTL

-----------------------------------------------------------------------------
\* The blocks of the window, of which one is always there.
LEMMA WindowShape ==
  ASSUME AInv, Filling, NEW lane \in Lanes, pass = 0 /\ slice = 0 => lane = segment
  PROVE  /\ WindowSize(lane) \in Nat \ {0}
         /\ lane = segment /\ pass = 0 => WindowSize(lane) = slice * SegmentSize + block - 1
         /\ lane = segment /\ pass # 0 => WindowSize(lane) = 3 * SegmentSize + block - 1
         /\ lane # segment /\ pass = 0 => WindowSize(lane) <= slice * SegmentSize
         /\ lane # segment /\ pass # 0 => WindowSize(lane) <= 3 * SegmentSize
<1>1. stage = "filling" /\ block < SegmentSize
  BY DEF Filling
<1>2. /\ config \in Configs
      /\ SegmentSize \in Nat /\ SegmentSize >= 2 /\ LaneSize = 4 * SegmentSize
      /\ pass \in Nat /\ slice \in 0..3 /\ block \in Nat /\ block >= PassOffset(pass, slice)
  BY <1>1, InLoops
<1>3. LaneSize < WordMax /\ WordMax \in Nat \ {0}
  BY <1>2, Shape
<1> DEFINE segments == IF pass = 0 THEN slice ELSE 3
           before == segments * SegmentSize
           more == IF lane = segment THEN block - 1 ELSE IF block = 0 THEN WordMax - 1 ELSE 0
<1>4. WindowSize(lane) = (before + more) % WordMax
  BY DEF WindowSize
<1>5. /\ segments = 0 => before = 0
      /\ segments = 1 => before = SegmentSize
      /\ segments = 2 => before = 2 * SegmentSize
      /\ segments = 3 => before = 3 * SegmentSize
  BY <1>2, SliceStart
<1>6. segments \in 0..3 /\ (pass = 0 => segments = slice) /\ (pass # 0 => segments = 3)
  BY <1>2
<1>7. pass = 0 /\ slice = 0 => block >= 2
  BY <1>2 DEF PassOffset
<1>8. before = IF pass = 0 THEN slice * SegmentSize ELSE 3 * SegmentSize
  BY <1>6
<1> HIDE DEF before, segments
<1>9. before \in Nat /\ before <= 3 * SegmentSize /\ (segments # 0 => before >= SegmentSize)
  BY <1>2, <1>5, <1>6
<1>10. CASE lane = segment
  <2>1. before + (block - 1) \in 1..WordMax-1
    BY <1>1, <1>2, <1>3, <1>5, <1>6, <1>7, <1>9
  <2>2. (before + (block - 1)) % WordMax = before + (block - 1)
    BY <1>3, <2>1
  <2>3. QED
    BY <1>2, <1>4, <1>8, <1>9, <1>10, <2>1, <2>2
<1>11. CASE lane # segment /\ block = 0
  <2>1. segments # 0
    BY <1>6, <1>11
  <2>2. before - 1 \in 1..WordMax-1
    BY <1>2, <1>3, <1>9, <2>1
  <2>3. (before + (WordMax - 1)) % WordMax = before - 1
    <3>1. before + (WordMax - 1) = (before - 1) + WordMax
      BY <1>3, <1>9
    <3>2. QED
      BY <1>3, <2>2, <3>1
  <2>4. QED
    BY <1>4, <1>8, <1>9, <1>11, <2>2, <2>3
<1>12. CASE lane # segment /\ block # 0
  <2>1. segments # 0
    BY <1>6, <1>12
  <2>2. before + 0 \in 1..WordMax-1
    BY <1>2, <1>3, <1>9, <2>1
  <2>3. (before + 0) % WordMax = before
    BY <1>3, <1>9, <2>2
  <2>4. QED
    BY <1>4, <1>8, <1>9, <1>12, <2>2, <2>3
<1>13. QED
  BY <1>10, <1>11, <1>12

\* The block before the one at hand was filled.
LEMMA PreviousFilled ==
  ASSUME AInv, Filling
  PROVE  filled[Previous] > 0
<1>1. stage = "filling" /\ block < SegmentSize
  BY DEF Filling
<1>2. /\ config \in Configs
      /\ SegmentSize \in Nat /\ SegmentSize >= 2 /\ LaneSize = 4 * SegmentSize
      /\ pass \in Nat /\ slice \in 0..3 /\ segment \in Lanes /\ segment \in Nat
      /\ block \in Nat /\ block >= PassOffset(pass, slice)
      /\ \A b \in Area : filled[b] = IF Done(b) THEN pass + 1 ELSE pass
  BY <1>1, InLoops
<1> DEFINE start == slice * SegmentSize
           at == IF block = 0 /\ slice = 0 THEN LaneSize - 1 ELSE start + block - 1
<1>3. /\ slice = 0 => start = 0
      /\ slice = 1 => start = SegmentSize
      /\ slice = 2 => start = 2 * SegmentSize
      /\ slice = 3 => start = 3 * SegmentSize
  BY <1>2, SliceStart
<1>4. Previous = <<segment, at>>
  BY DEF Previous
<1>5. Done(Previous) <=> \/ SliceOf(Previous) < slice
                         \/ SliceOf(Previous) = slice /\ at < start + block
                         \/ pass = 0 /\ at < 2
  BY <1>2, <1>4 DEF Done
<1> HIDE DEF start
<1>6. at \in 0..4 * SegmentSize - 1
  BY <1>1, <1>2, <1>3
<1>7. Previous \in Area
  BY <1>2, <1>4, <1>6 DEF Area
<1>8. /\ SliceOf(Previous) \in 0..3
      /\ SliceOf(Previous) = 0 <=> at < SegmentSize
      /\ SliceOf(Previous) = 1 <=> SegmentSize <= at /\ at < 2 * SegmentSize
      /\ SliceOf(Previous) = 2 <=> 2 * SegmentSize <= at /\ at < 3 * SegmentSize
      /\ SliceOf(Previous) = 3 <=> 3 * SegmentSize <= at
  BY <1>2, <1>4, <1>7, InSlice
<1>9. CASE pass = 0
  <2>1. ~(block = 0 /\ slice = 0)
    BY <1>2, <1>9 DEF PassOffset
  <2>2. at = start + block - 1
    BY <2>1
  <2>3. Done(Previous)
    BY <1>1, <1>2, <1>3, <1>5, <1>8, <2>1, <2>2
  <2>4. QED
    BY <1>2, <1>7, <1>9, <2>3
<1>10. CASE pass # 0
  BY <1>2, <1>7, <1>10
<1>11. QED
  BY <1>9, <1>10

\* Where in its lane the reference is, and that it was filled before.
LEMMA ReferenceReady ==
  ASSUME AInv, Filling, NEW seed \in Seeds
  PROVE  LET r == Reference(seed) IN
         /\ r \in Area /\ filled[r] > 0
         /\ r # Current /\ r # Previous
         /\ SliceOf(r) = slice => r[1] = segment /\ r[2] < Current[2]
<1>1. stage = "filling" /\ block < SegmentSize
  BY DEF Filling
<1>2. /\ config \in Configs
      /\ SegmentSize \in Nat /\ SegmentSize >= 2 /\ LaneSize = 4 * SegmentSize
      /\ pass \in Nat /\ slice \in 0..3 /\ segment \in Lanes /\ segment \in Nat
      /\ block \in Nat /\ block >= PassOffset(pass, slice)
      /\ \A b \in Area : filled[b] = IF Done(b) THEN pass + 1 ELSE pass
  BY <1>1, InLoops
<1>3. WordMax \in Nat \ {0} /\ config.nb_lanes \in Nat \ {0}
  BY <1>2, Shape
<1> DEFINE lane == ReferenceLane(seed)
           window == WindowSize(lane)
           z == (window - 1) - ((window * ((seed[2] * seed[2]) \div WordMax)) \div WordMax)
           at == (WindowStart + z) % LaneSize
           start == slice * SegmentSize
           previous == IF block = 0 /\ slice = 0 THEN LaneSize - 1 ELSE start + block - 1
<1>4. seed[1] \in 0..WordMax-1 /\ seed[2] \in 0..WordMax-1
  BY DEF Seeds
<1>5. lane \in Lanes /\ (pass = 0 /\ slice = 0 => lane = segment)
  <2>1. seed[1] % config.nb_lanes \in 0..config.nb_lanes-1
    <3>1. seed[1] \in Nat
      BY <1>4
    <3>2. \A n \in Nat \ {0} : seed[1] % n \in 0..n-1
      BY <3>1, Division
    <3>3. QED
      BY <1>3, <3>2
  <2>2. QED
    BY <1>2, <2>1 DEF ReferenceLane, Lanes
<1>6. Reference(seed) = <<lane, at>>
  BY DEF Reference
<1>7. Current = <<segment, start + block>> /\ Previous = <<segment, previous>>
  BY DEF Current, Previous
<1> HIDE DEF lane
<1>8. /\ window \in Nat \ {0}
      /\ lane = segment /\ pass = 0 => window = start + block - 1
      /\ lane = segment /\ pass # 0 => window = 3 * SegmentSize + block - 1
      /\ lane # segment /\ pass = 0 => window <= start
      /\ lane # segment /\ pass # 0 => window <= 3 * SegmentSize
  BY <1>5, WindowShape
<1> HIDE DEF window
<1>9. z \in 0..window-1
  BY <1>3, <1>4, <1>8, PickInWindow
<1> HIDE DEF z
<1>10. /\ slice = 0 => start = 0
       /\ slice = 1 => start = SegmentSize
       /\ slice = 2 => start = 2 * SegmentSize
       /\ slice = 3 => start = 3 * SegmentSize
  BY <1>2, SliceStart
<1>11. ASSUME at \in 0..4 * SegmentSize - 1
       PROVE  /\ Reference(seed) \in Area
              /\ Done(Reference(seed)) <=>
                   \/ SliceOf(Reference(seed)) < slice
                   \/ SliceOf(Reference(seed)) = slice /\ lane < segment
                   \/ SliceOf(Reference(seed)) = slice /\ lane = segment /\ at < start + block
                   \/ pass = 0 /\ at < 2
              /\ SliceOf(Reference(seed)) \in 0..3
              /\ SliceOf(Reference(seed)) = 0 <=> at < SegmentSize
              /\ SliceOf(Reference(seed)) = 1 <=> SegmentSize <= at /\ at < 2 * SegmentSize
              /\ SliceOf(Reference(seed)) = 2 <=> 2 * SegmentSize <= at /\ at < 3 * SegmentSize
              /\ SliceOf(Reference(seed)) = 3 <=> 3 * SegmentSize <= at
  <2>1. Reference(seed) \in Area
    BY <1>2, <1>5, <1>6, <1>11 DEF Area
  <2>2. Done(Reference(seed)) <=>
          \/ SliceOf(Reference(seed)) < slice
          \/ SliceOf(Reference(seed)) = slice /\ lane < segment
          \/ SliceOf(Reference(seed)) = slice /\ lane = segment /\ at < start + block
          \/ pass = 0 /\ at < 2
    BY <1>6 DEF Done
  <2>3. QED
    BY <1>2, <1>6, <2>1, <2>2, InSlice
<1>12. CASE pass = 0
  <2>1. slice = 0 => block >= 2
    BY <1>2, <1>12 DEF PassOffset
  <2>2. WindowStart + z = z /\ z \in 0..4 * SegmentSize - 1
    BY <1>1, <1>2, <1>8, <1>9, <1>10, <1>12 DEF WindowStart
  <2>3. at = z
    BY <1>2, <2>2
  <2> HIDE DEF at
  <2>4. lane = segment => at <= start + block - 2
    BY <1>2, <1>8, <1>9, <1>10, <1>12, <2>3
  <2>5. lane # segment => at < start
    BY <1>2, <1>8, <1>9, <1>10, <1>12, <2>3
  <2>6. previous = start + block - 1
    BY <1>2, <2>1
  <2>7. Done(Reference(seed)) /\ Reference(seed) \in Area
    BY <1>1, <1>2, <1>10, <1>11, <2>2, <2>3, <2>4, <2>5
  <2>8. filled[Reference(seed)] > 0
    BY <1>2, <2>7
  <2>9. Reference(seed) # Current /\ Reference(seed) # Previous
    BY <1>2, <1>6, <1>7, <1>10, <2>2, <2>3, <2>4, <2>6
  <2>10. SliceOf(Reference(seed)) = slice => lane = segment /\ at < start + block
    BY <1>2, <1>10, <1>11, <2>2, <2>3, <2>4, <2>5
  <2>11. QED
    BY <1>6, <1>7, <2>7, <2>8, <2>9, <2>10
<1>13. CASE pass # 0
  <2> DEFINE sum == WindowStart + z
  <2>1. /\ slice = 0 => WindowStart = SegmentSize
        /\ slice = 1 => WindowStart = 2 * SegmentSize
        /\ slice = 2 => WindowStart = 3 * SegmentSize
        /\ slice = 3 => WindowStart = 0
    BY <1>2, <1>13 DEF WindowStart
  <2>2. z <= IF lane = segment THEN 3 * SegmentSize + block - 2 ELSE 3 * SegmentSize - 1
    BY <1>2, <1>8, <1>9, <1>13
  <2>3. z \in Nat
    BY <1>8, <1>9
  <2>4. sum \in 0..8 * SegmentSize - 1
    BY <1>1, <1>2, <2>1, <2>2, <2>3
  <2>5. at = IF sum < 4 * SegmentSize THEN sum ELSE sum - 4 * SegmentSize
    <3>1. sum < 4 * SegmentSize => sum % (4 * SegmentSize) = sum
      BY <1>2, <2>4
    <3>2. sum >= 4 * SegmentSize => sum % (4 * SegmentSize) = sum - 4 * SegmentSize
      BY <1>2, <2>4
    <3>3. QED
      BY <1>2, <2>4, <3>1, <3>2
  <2> HIDE DEF at, sum
  <2>6. at \in 0..4 * SegmentSize - 1
    BY <1>2, <2>4, <2>5
  <2>7. filled[Reference(seed)] > 0 /\ Reference(seed) \in Area
    BY <1>2, <1>11, <1>13, <2>6
  <2>8. lane = segment => at # start + block /\ at # previous
    BY <1>1, <1>2, <1>10, <2>1, <2>2, <2>3, <2>5 DEF sum
  <2>9. Reference(seed) # Current /\ Reference(seed) # Previous
    BY <1>6, <1>7, <2>8
  <2>10. SliceOf(Reference(seed)) = slice => lane = segment /\ at < start + block
    BY <1>1, <1>2, <1>10, <1>11, <2>1, <2>2, <2>3, <2>5, <2>6 DEF sum
  <2>11. QED
    BY <1>6, <1>7, <2>7, <2>9, <2>10
<1>14. QED
  BY <1>12, <1>13

\* For every configuration and every seed, what a block is mixed with was filled before,
\* and is nothing that another lane fills meanwhile: the window of passgen_argon2 is right
\* at both its ends, in the first pass and where it wraps around.
THEOREM ReferencesAreReady == Spec => []ReferencesReady
<1>1. AInv => ReferencesReady
  BY PreviousFilled, ReferenceReady DEF ReferencesReady
<1>2. QED
  BY <1>1, FillInvHolds, MasterFills, PTL

-----------------------------------------------------------------------------
\* A quotient rises at the multiples of the divisor.
LEMMA QuotientRises ==
  ASSUME NEW b \in Nat \ {0}, NEW unit \in Nat \ {0}
  PROVE  b \div unit = IF b % unit = 0 THEN (b - 1) \div unit + 1 ELSE (b - 1) \div unit
<1> DEFINE q == b \div unit
           r == b % unit
           p == (b - 1) \div unit
<1>1. q \in Nat /\ r \in 0..unit-1 /\ b = q * unit + r /\ b - 1 \in Nat
  <2>1. b \in Nat /\ b - 1 \in Nat
    OBVIOUS
  <2>2. QED
    BY <2>1, Division
<1>2. p \in Nat
  BY <1>1, Division
<1> HIDE DEF q, r
<1>3. (q + 1) * unit = q * unit + unit /\ q * unit \in Nat
  BY <1>1
<1>4. CASE r = 0
  <2>1. b - 1 < q * unit
    BY <1>1, <1>4
  <2>2. p < q
    BY <1>1, <2>1, QuotientBelow
  <2>3. q - 1 \in Nat /\ q * unit = (q - 1) * unit + unit
    BY <1>1, <1>2, <2>2
  <2>4. (q - 1) * unit \in Nat
    BY <2>3
  <2>5. (q - 1) * unit <= b - 1
    BY <1>1, <1>4, <2>3, <2>4
  <2>6. p >= q - 1
    BY <1>1, <2>3, <2>5, QuotientAtLeast
  <2> HIDE DEF p
  <2>7. q = p + 1
    BY <1>1, <1>2, <2>2, <2>6
  <2>8. QED
    BY <1>4, <2>7 DEF p, q, r
<1>5. CASE r # 0
  <2>1. b - 1 < (q + 1) * unit /\ q * unit <= b - 1
    BY <1>1, <1>3, <1>5
  <2>2. p < q + 1
    <3>1. q + 1 \in Nat /\ b - 1 \in Nat
      BY <1>1
    <3>2. (b - 1) \div unit < q + 1
      BY <2>1, <3>1, QuotientBelow
    <3> QED
      BY <3>2
  <2>3. p >= q
    BY <1>1, <2>1, QuotientAtLeast
  <2> HIDE DEF p
  <2>4. q = p
    BY <1>1, <1>2, <2>2, <2>3
  <2>5. QED
    BY <1>5, <2>4 DEF p, q, r
<1>6. QED
  BY <1>4, <1>5

\* Whether the seed of a block must not depend on data.
Independent ==
  \/ config.algorithm = "argon2i"
  \/ config.algorithm = "argon2id" /\ pass = 0 /\ slice < 2

\* The index block at hand, and the number of the next one.
IndexOf(b) ==
  [pass |-> pass, segment |-> segment, slice |-> slice, ctr |-> 1 + (b - 1) \div Refresh]

CInv ==
  /\ stage # "filled" => constantTime = Independent
  /\ block = PassOffset(pass, slice) => indexCtr = 1
  /\ stage = "filling" /\ constantTime /\ block > PassOffset(pass, slice) =>
       index = IndexOf(block) /\ indexCtr = 2 + (block - 1) \div Refresh

LEMMA ChosenInit == FillInit => CInv
<1> SUFFICES ASSUME FillInit PROVE CInv
  OBVIOUS
<1>1. config.algorithm \in {"argon2d", "argon2i", "argon2id"}
  BY ConfigsAssumption DEF FillInit
<1>2. pass = 0 /\ slice = 0 /\ stage = "start" /\ indexCtr = 1
  BY DEF FillInit
<1>3. constantTime = (config.algorithm # "argon2d")
  BY DEF FillInit
<1>4. constantTime = Independent
  <2>1. config.algorithm # "argon2d" <=> Independent
    BY <1>1, <1>2 DEF Independent
  <2>2. QED
    BY <1>3, <2>1, Zenon DEF Independent
<1>5. QED
  BY <1>2, <1>4 DEF CInv

LEMMA ChosenFillBlock ==
  ASSUME AInv, CInv, FillBlock
  PROVE  CInv'
<1> DEFINE off == PassOffset(pass, slice)
           renewed == constantTime /\ (block = off \/ block % Refresh = 0)
<1>1. /\ stage = "filling" /\ block' = block + 1
      /\ UNCHANGED <<config, stage, pass, slice, segment, constantTime>>
      /\ index' = IF renewed
                  THEN [pass |-> pass, segment |-> segment, slice |-> slice, ctr |-> indexCtr]
                  ELSE index
      /\ indexCtr' = IF renewed THEN indexCtr + 1 ELSE indexCtr
  BY DEF FillBlock
<1>2. block \in Nat /\ block >= off /\ off \in {0, 2}
  BY <1>1, InLoops DEF PassOffset
<1>3. Refresh \in Nat /\ Refresh > 2
  BY RefreshAssumption
<1>4. PassOffset(pass', slice') = off /\ block' # off
  BY <1>1, <1>2
<1>5. constantTime' = Independent'
  BY <1>1 DEF CInv, Independent
<1> HIDE DEF off
<1>6. ASSUME constantTime, block = off
      PROVE  index' = IndexOf(block + 1) /\ indexCtr' = 2 + block \div Refresh
  <2>1. indexCtr = 1
    BY <1>6 DEF CInv, off
  <2>2. block \div Refresh = 0
    BY <1>2, <1>3, <1>6
  <2>3. (block + 1) - 1 = block
    BY <1>2
  <2>4. QED
    BY <1>1, <1>6, <2>1, <2>2, <2>3 DEF IndexOf
<1>7. ASSUME constantTime, block # off
      PROVE  index' = IndexOf(block + 1) /\ indexCtr' = 2 + block \div Refresh
  <2>1. index = IndexOf(block) /\ indexCtr = 2 + (block - 1) \div Refresh
    BY <1>1, <1>2, <1>7 DEF CInv, off
  <2>2. block \in Nat \ {0} /\ Refresh \in Nat \ {0} /\ (block + 1) - 1 = block
    BY <1>2, <1>3, <1>7
  <2>3. block \div Refresh = IF block % Refresh = 0 THEN (block - 1) \div Refresh + 1
                            ELSE (block - 1) \div Refresh
    BY <2>2, QuotientRises
  <2>4. (block - 1) \div Refresh \in Nat
    <3>1. block - 1 \in Nat
      BY <2>2
    <3>2. QED
      BY <2>2, <3>1, Division
  <2> DEFINE p == (block - 1) \div Refresh
             n == block \div Refresh
  <2>5. /\ n = IF block % Refresh = 0 THEN p + 1 ELSE p
        /\ p \in Nat /\ indexCtr = 2 + p
        /\ index = [pass |-> pass, segment |-> segment, slice |-> slice, ctr |-> 1 + p]
        /\ IndexOf(block + 1) = [pass |-> pass, segment |-> segment, slice |-> slice, ctr |-> 1 + n]
    BY <2>1, <2>2, <2>3, <2>4 DEF IndexOf
  <2> HIDE DEF p, n
  <2>6. CASE block % Refresh = 0
    <3>1. renewed /\ n = p + 1 /\ 2 + p = 1 + n /\ (2 + p) + 1 = 2 + n
      BY <1>7, <2>5, <2>6
    <3>2. index' = IndexOf(block + 1) /\ indexCtr' = 2 + n
      BY <1>1, <2>5, <3>1
    <3>3. QED
      BY <3>2 DEF n
  <2>7. CASE block % Refresh # 0
    <3>1. ~renewed /\ n = p
      BY <1>7, <2>5, <2>7
    <3>2. index' = IndexOf(block + 1) /\ indexCtr' = 2 + n
      BY <1>1, <2>5, <3>1
    <3>3. QED
      BY <3>2 DEF n
  <2>8. QED
    BY <2>6, <2>7
<1>8. ASSUME constantTime
      PROVE  index' = IndexOf(block') /\ indexCtr' = 2 + (block' - 1) \div Refresh
  <2>1. block' = block + 1 /\ block' - 1 = block
    BY <1>1, <1>2
  <2>2. QED
    BY <1>6, <1>7, <1>8, <2>1
<1>9. constantTime' => IndexOf(block)' = IndexOf(block')
  BY <1>1 DEF IndexOf
<1>10. QED
  BY <1>1, <1>4, <1>5, <1>8, <1>9 DEF CInv, off

LEMMA ChosenStep == AInv /\ CInv /\ [FillNext]_fillVars => CInv'
<1> SUFFICES ASSUME AInv, CInv, [FillNext]_fillVars PROVE CInv'
  OBVIOUS
<1>1. CASE FillFirst
  BY <1>1 DEF FillFirst, loops, AInv, CInv, Independent, PassOffset
<1>2. CASE FillBlock
  BY <1>2, ChosenFillBlock
<1>3. CASE NextSegment
  <2>1. PassOffset(pass, slice) \in {0, 2}
    BY DEF PassOffset
  <2>2. QED
    BY <1>3, <2>1 DEF NextSegment, CInv, Independent, PassOffset
<1>4. CASE NextSlice
  <2>1. /\ stage = "filling" /\ slice' = (slice + 1) % 4
        /\ pass' = IF slice = 3 THEN pass + 1 ELSE pass
        /\ block' = PassOffset(pass', slice') /\ indexCtr' = 1 /\ config' = config
        /\ constantTime' = IF slice' = 2 /\ config.algorithm = "argon2id" THEN FALSE ELSE constantTime
    BY <1>4 DEF NextSlice
  <2>2. /\ pass \in Nat /\ slice \in 0..3
        /\ config.algorithm \in {"argon2d", "argon2i", "argon2id"}
    BY ConfigsAssumption DEF AInv
  <2>3. slice' = IF slice = 3 THEN 0 ELSE slice + 1
    BY <2>1, <2>2
  <2>4. constantTime = Independent
    BY <2>1 DEF CInv
  <2>5. constantTime' = Independent'
    <3>1. CASE config.algorithm = "argon2id"
      <4>1. constantTime = (pass = 0 /\ slice < 2)
        BY <2>4, <3>1 DEF Independent
      <4>2. Independent' = (pass' = 0 /\ slice' < 2)
        BY <2>1, <3>1 DEF Independent
      <4>3. constantTime' = IF slice' = 2 THEN FALSE ELSE constantTime
        BY <2>1, <3>1
      <4>4. (pass' = 0 /\ slice' < 2) <=> (slice' # 2 /\ pass = 0 /\ slice < 2)
        BY <2>1, <2>2, <2>3
      <4>5. CASE slice' = 2
        BY <4>2, <4>3, <4>4, <4>5
      <4>6. CASE slice' # 2
        BY <4>1, <4>2, <4>3, <4>4, <4>6
      <4>7. QED
        BY <4>5, <4>6
    <3>2. CASE config.algorithm = "argon2i"
      BY <2>1, <2>4, <3>2 DEF Independent
    <3>3. CASE config.algorithm = "argon2d"
      BY <2>1, <2>4, <3>3 DEF Independent
    <3>4. QED
      BY <2>2, <3>1, <3>2, <3>3
  <2>6. PassOffset(pass', slice') \in {0, 2}
    BY DEF PassOffset
  <2>7. ~(block' > PassOffset(pass', slice'))
    BY <2>1, <2>6
  <2>8. QED
    BY <2>1, <2>5, <2>7 DEF CInv
<1>5. CASE UNCHANGED fillVars
  BY <1>5 DEF fillVars, loops, CInv, Independent, IndexOf
<1>6. QED
  BY <1>1, <1>2, <1>3, <1>4, <1>5 DEF FillNext

LEMMA ChosenHolds == FillSpec => []CInv
<1>1. FillInit => CInv
  BY ChosenInit
<1>2. AInv /\ CInv /\ [FillNext]_fillVars => CInv'
  BY ChosenStep
<1>3. QED
  BY <1>1, <1>2, FillInvHolds, PTL DEF FillSpec

\* Argon2i never looks at data to pick a reference, Argon2id only after half of its first
\* pass, and each index block serves as many blocks as it has words, for every memory size
\* and number of passes (constant_time and the renewal of index_block in passgen_argon2).
THEOREM IndexesAsChosen == Spec => []IndexedAsChosen
<1>1. CInv => IndexedAsChosen
  BY DEF CInv, IndexedAsChosen, Independent, IndexOf
<1>2. QED
  BY <1>1, ChosenHolds, MasterFills, PTL

-----------------------------------------------------------------------------
\* The number of the block that the two words of a counter stand for.
Number(words) == words.high * LowMax + words.low

Counters == [low : 0..LowMax-1, high : Nat]

Stages == {"idle", "short", "whole", "closed"}

\* The bytes so far are the stream's from a position on.
Follows(bytes, from) == \A i \in 1..Len(bytes) : Position(bytes[i]) = from + i - 1

StreamByte == [words : Counters, at : Nat]

-----------------------------------------------------------------------------
\* A multiple is divided without a remainder.
LEMMA Quotient ==
  ASSUME NEW a \in Nat, NEW b \in Nat \ {0}
  PROVE  (a * b) \div b = a
<1>1. a * b \in Nat
  OBVIOUS
<1> DEFINE d == (a * b) \div b
           r == (a * b) % b
<1>2. d \in Nat /\ r \in 0..b-1 /\ a * b = d * b + r
  BY <1>1, Division
<1> HIDE DEF d, r
<1>3. ~(d < a)
  <2>1. SUFFICES ASSUME d < a PROVE FALSE
    OBVIOUS
  <2>2. PICK k \in Nat : a = d + 1 + k
    BY <1>2, <2>1
  <2>3. a * b = d * b + b + k * b /\ k * b \in Nat
    BY <1>2, <2>2
  <2>4. QED
    BY <1>2, <2>3
<1>4. ~(d > a)
  <2>1. SUFFICES ASSUME d > a PROVE FALSE
    OBVIOUS
  <2>2. PICK k \in Nat : d = a + 1 + k
    BY <1>2, <2>1
  <2>3. d * b = a * b + b + k * b /\ k * b \in Nat
    BY <1>2, <2>2
  <2>4. QED
    BY <1>1, <1>2, <2>3
<1>5. QED
  BY <1>2, <1>3, <1>4 DEF d

\* The two words that ctr is cut into stand for ctr.
LEMMA WordsOfCounter ==
  ASSUME NEW ctr \in Nat
  PROVE  Words(ctr) \in Counters /\ Number(Words(ctr)) = ctr
<1>1. LowMax \in Nat \ {0}
  BY BlockAssumption
<1>2. /\ ctr \div LowMax \in Nat /\ ctr % LowMax \in 0..LowMax-1
      /\ ctr = (ctr \div LowMax) * LowMax + (ctr % LowMax)
  BY <1>1, Division
<1>3. QED
  BY <1>2 DEF Words, Counters, Number

\* The increment carries from the low word to the high one.
LEMMA IncrementCounts ==
  ASSUME NEW words \in Counters
  PROVE  Incremented(words) \in Counters /\ Number(Incremented(words)) = Number(words) + 1
<1>1. LowMax \in Nat \ {0} /\ words.low \in 0..LowMax-1 /\ words.high \in Nat
  BY BlockAssumption DEF Counters
<1>2. CASE words.low = LowMax - 1
  <2>1. (words.low + 1) % LowMax = 0
    BY <1>1, <1>2
  <2>2. Incremented(words) = [low |-> 0, high |-> words.high + 1]
    BY <2>1 DEF Incremented
  <2>3. (words.high + 1) * LowMax = words.high * LowMax + LowMax
    BY <1>1
  <2>4. QED
    BY <1>1, <1>2, <2>2, <2>3 DEF Counters, Number
<1>3. CASE words.low # LowMax - 1
  <2>1. (words.low + 1) % LowMax = words.low + 1
    BY <1>1, <1>3
  <2>2. Incremented(words) = [low |-> words.low + 1, high |-> words.high]
    BY <1>1, <2>1 DEF Incremented
  <2>3. QED
    BY <1>1, <1>3, <2>2 DEF Counters, Number
<1>4. QED
  BY <1>2, <1>3

\* The bytes of a block follow one another from where the block begins.
LEMMA BlockFollows ==
  ASSUME NEW words \in Counters, NEW first \in Nat, NEW n \in Nat
  PROVE  /\ Bytes(words, first, n) \in Seq(StreamByte)
         /\ Len(Bytes(words, first, n)) = n
         /\ Follows(Bytes(words, first, n), Number(words) * BlockSize + first)
<1>1. BlockSize \in Nat /\ LowMax \in Nat /\ words.high \in Nat /\ words.low \in Nat
  BY BlockAssumption DEF Counters
<1>2. \A i \in 1..n : [words |-> words, at |-> first + i - 1] \in StreamByte
  BY DEF StreamByte
<1>3. Bytes(words, first, n) \in Seq(StreamByte) /\ Len(Bytes(words, first, n)) = n
  <2>1. Bytes(words, first, n) \in [1..n -> StreamByte]
    BY <1>2 DEF Bytes
  <2>2. QED
    BY <2>1
<1>4. ASSUME NEW i \in 1..n
      PROVE  Position(Bytes(words, first, n)[i]) = Number(words) * BlockSize + first + i - 1
  <2>1. Bytes(words, first, n)[i] = [words |-> words, at |-> first + i - 1]
    BY DEF Bytes
  <2>2. Position(Bytes(words, first, n)[i]) = Number(words) * BlockSize + (first + i - 1)
    BY <2>1 DEF Position, Number
  <2>3. Number(words) * BlockSize \in Nat
    BY <1>1 DEF Number
  <2>4. QED
    BY <2>2, <2>3
<1>5. Number(words) * BlockSize \in Nat
  BY <1>1 DEF Number
<1>6. QED
  BY <1>3, <1>4, <1>5 DEF Follows

\* Bytes that follow from where others end can be appended to them.
LEMMA FollowsOn ==
  ASSUME NEW a \in Seq(StreamByte), NEW b \in Seq(StreamByte), NEW from \in Nat,
         Follows(a, from), Follows(b, from + Len(a))
  PROVE  a \o b \in Seq(StreamByte) /\ Len(a \o b) = Len(a) + Len(b) /\ Follows(a \o b, from)
<1>1. a \o b \in Seq(StreamByte) /\ Len(a \o b) = Len(a) + Len(b)
  OBVIOUS
<1>2. ASSUME NEW i \in 1..Len(a \o b)
      PROVE  Position((a \o b)[i]) = from + i - 1
  <2>1. CASE i <= Len(a)
    BY <2>1 DEF Follows
  <2>2. CASE i > Len(a)
    <3>1. i - Len(a) \in 1..Len(b) /\ (a \o b)[i] = b[i - Len(a)]
      BY <1>1, <2>2
    <3>2. Position(b[i - Len(a)]) = (from + Len(a)) + (i - Len(a)) - 1
      BY <3>1 DEF Follows
    <3>3. QED
      BY <3>1, <3>2
  <2>3. QED
    BY <2>1, <2>2
<1>3. QED
  BY <1>1, <1>2 DEF Follows

-----------------------------------------------------------------------------
\* What keeps the reading of a request on the stream: position is where it began, and
\* the counter is that of the block the next byte begins, unless none is wanted.
KInv ==
  /\ part \in Stages
  /\ offset \in Nat /\ size \in Nat /\ written \in Nat
  /\ counter \in Counters /\ dest \in Seq(StreamByte)
  /\ part = "short" =>
       /\ dest = <<>> /\ written = 0
       /\ Number(counter) = offset \div BlockSize
  /\ part = "whole" =>
       /\ written <= offset /\ written <= Len(dest) /\ Len(dest) <= size
       /\ Follows(dest, offset - written)
       /\ Len(dest) < size => Number(counter) * BlockSize = offset - written + Len(dest)
  /\ Reading => size > 0

LEMMA KeyInvInit == KeyInit => KInv
<1>1. 0 \in Nat /\ Words(0) \in Counters
  BY WordsOfCounter
<1>2. QED
  BY <1>1 DEF KeyInit, KInv, Stages, Reading

\* A request begins in the block its position is in.
LEMMA BeginInv ==
  ASSUME NEW at \in Nat, NEW n \in Nat \ {0}, Begin(at, n), offset' = at
  PROVE  KInv' /\ Reading' /\ written' = 0 /\ size' = n
<1>1. BlockSize \in Nat \ {0}
  BY BlockAssumption
<1>2. /\ at \div BlockSize \in Nat /\ at % BlockSize \in 0..BlockSize-1
      /\ at = (at \div BlockSize) * BlockSize + (at % BlockSize)
  BY <1>1, Division
<1>3. counter' \in Counters /\ Number(counter') = at \div BlockSize
  BY <1>2, WordsOfCounter DEF Begin
<1>4. part' \in {"short", "whole"} /\ size' = n /\ written' = 0 /\ dest' = <<>>
  BY DEF Begin
<1>5. part' = "whole" => at % BlockSize = 0
  BY <1>1, <1>2 DEF Begin
<1>6. part' = "whole" => Number(counter') * BlockSize = offset' - written' + Len(dest')
  BY <1>1, <1>2, <1>3, <1>4, <1>5
<1>7. Follows(dest', offset' - written')
  BY <1>4 DEF Follows
<1>8. QED
  BY <1>3, <1>4, <1>6, <1>7 DEF KInv, Stages, Reading

\* What is left of a block that was begun, or as much of it as is wanted.
LEMMA ReadShortInv ==
  ASSUME KInv, ReadShort
  PROVE  KInv' /\ offset' - written' = offset /\ size' = size /\ Reading'
<1> DEFINE rest == BlockSize - (offset % BlockSize)
           n == Lesser(rest, size)
<1>1. BlockSize \in Nat \ {0}
  BY BlockAssumption
<1>2. /\ offset \in Nat /\ size \in Nat \ {0} /\ counter \in Counters
      /\ Number(counter) = offset \div BlockSize
  BY DEF KInv, ReadShort, Reading
<1>3. /\ offset \div BlockSize \in Nat /\ offset % BlockSize \in 0..BlockSize-1
      /\ offset = (offset \div BlockSize) * BlockSize + (offset % BlockSize)
  BY <1>1, <1>2, Division
<1>4. n \in Nat \ {0} /\ n <= size /\ (n < size => n = rest)
  BY <1>1, <1>2, <1>3 DEF Lesser
<1>5. /\ dest' = Bytes(counter, offset % BlockSize, n) /\ written' = n /\ offset' = offset + n
      /\ counter' = Words(offset' \div BlockSize) /\ part' = "whole" /\ size' = size
  BY DEF ReadShort
<1> HIDE DEF n
<1>6. dest' \in Seq(StreamByte) /\ Len(dest') = n /\ Follows(dest', offset' - written')
  <2>1. Number(counter) * BlockSize + (offset % BlockSize) = offset' - written'
    BY <1>2, <1>3, <1>4, <1>5
  <2>2. QED
    BY <1>2, <1>3, <1>4, <1>5, <2>1, BlockFollows
<1>7. offset' \in Nat /\ offset' \div BlockSize \in Nat
  <2>1. offset' \in Nat
    BY <1>2, <1>4, <1>5
  <2>2. QED
    BY <1>1, <2>1, Division
<1>8. counter' \in Counters /\ Number(counter') = offset' \div BlockSize
  BY <1>5, <1>7, WordsOfCounter
<1>9. ASSUME Len(dest') < size'
      PROVE  Number(counter') * BlockSize = offset'
  <2> DEFINE q == offset \div BlockSize
  <2>1. offset' = q * BlockSize + BlockSize
    BY <1>1, <1>2, <1>3, <1>4, <1>5, <1>6, <1>9
  <2>2. offset' = (q + 1) * BlockSize
    BY <1>1, <1>3, <2>1
  <2>3. offset' \div BlockSize = q + 1
    <3>1. q + 1 \in Nat
      BY <1>3
    <3> HIDE DEF q
    <3>2. ((q + 1) * BlockSize) \div BlockSize = q + 1
      BY <1>1, <3>1, Quotient
    <3>3. QED
      BY <2>2, <3>2
  <2>4. QED
    BY <1>8, <2>2, <2>3
<1>10. QED
  BY <1>2, <1>4, <1>5, <1>6, <1>8, <1>9 DEF KInv, Stages, Reading

\* A whole block.
LEMMA WholeBlockInv ==
  ASSUME KInv, WholeBlock
  PROVE  KInv' /\ Reading' /\ UNCHANGED <<offset, size, written>>
<1>1. BlockSize \in Nat \ {0}
  BY BlockAssumption
<1>2. /\ offset \in Nat /\ size \in Nat /\ written \in Nat /\ written <= offset
      /\ counter \in Counters /\ dest \in Seq(StreamByte) /\ Len(dest) \in Nat
      /\ Follows(dest, offset - written) /\ written <= Len(dest)
      /\ size - Len(dest) >= BlockSize
      /\ Number(counter) * BlockSize = offset - written + Len(dest)
  BY <1>1 DEF KInv, WholeBlock
<1>3. /\ part' = "whole" /\ UNCHANGED <<offset, size, written>>
      /\ dest' = dest \o Bytes(counter, 0, BlockSize) /\ counter' = Incremented(counter)
  BY DEF WholeBlock
<1>4. /\ Bytes(counter, 0, BlockSize) \in Seq(StreamByte)
      /\ Len(Bytes(counter, 0, BlockSize)) = BlockSize
      /\ Follows(Bytes(counter, 0, BlockSize), Number(counter) * BlockSize + 0)
  BY <1>1, <1>2, BlockFollows
<1>5. offset - written \in Nat /\ Number(counter) * BlockSize + 0 = (offset - written) + Len(dest)
  BY <1>2
<1>6. /\ dest' \in Seq(StreamByte) /\ Len(dest') = Len(dest) + BlockSize
      /\ Follows(dest', offset - written)
  BY <1>2, <1>3, <1>4, <1>5, FollowsOn
<1>7. counter' \in Counters /\ Number(counter') = Number(counter) + 1
  BY <1>2, <1>3, IncrementCounts
<1>8. Number(counter') * BlockSize = offset - written + Len(dest')
  <2>1. Number(counter) \in Nat
    BY <1>2, BlockAssumption DEF Counters, Number
  <2>2. (Number(counter) + 1) * BlockSize = Number(counter) * BlockSize + BlockSize
    BY <1>1, <2>1
  <2>3. QED
    BY <1>1, <1>2, <1>6, <1>7, <2>2
<1>9. QED
  BY <1>1, <1>2, <1>3, <1>6, <1>7, <1>8 DEF KInv, Stages, Reading

\* The end of a request: all of it follows from where it began.
LEMMA LastBlockInv ==
  ASSUME KInv, LastBlock
  PROVE  /\ KInv' /\ ~Reading'
         /\ size > 0 /\ Len(dest') = size /\ Follows(dest', offset - written)
         /\ offset' = (offset - written) + size
<1>1. BlockSize \in Nat \ {0}
  BY BlockAssumption
<1>2. /\ offset \in Nat /\ size \in Nat /\ written \in Nat /\ written <= offset
      /\ counter \in Counters /\ dest \in Seq(StreamByte) /\ Len(dest) \in Nat
      /\ Follows(dest, offset - written) /\ written <= Len(dest) /\ Len(dest) <= size
      /\ Len(dest) < size => Number(counter) * BlockSize = offset - written + Len(dest)
      /\ size > 0
  BY DEF KInv, LastBlock, Reading
<1> DEFINE n == size - Len(dest)
           last == Bytes(counter, 0, n)
<1>3. /\ part' = "idle" /\ UNCHANGED <<size, written, counter>>
      /\ dest' = dest \o last /\ offset' = offset + (size - written)
  BY DEF LastBlock
<1>4. n \in Nat
  BY <1>2
<1>5. /\ last \in Seq(StreamByte) /\ Len(last) = n
      /\ Follows(last, Number(counter) * BlockSize + 0)
  BY <1>2, <1>4, BlockFollows
<1>6. offset - written \in Nat
  BY <1>2
<1>7. Follows(last, (offset - written) + Len(dest))
  <2>1. CASE n = 0
    BY <1>5, <2>1 DEF Follows
  <2>2. CASE n # 0
    <3>1. Number(counter) * BlockSize + 0 = (offset - written) + Len(dest)
      BY <1>2, <1>4, <2>2
    <3>2. QED
      BY <1>5, <3>1
  <2>3. QED
    BY <2>1, <2>2
<1> HIDE DEF n, last
<1>8. /\ dest' \in Seq(StreamByte) /\ Len(dest') = Len(dest) + n
      /\ Follows(dest', offset - written)
  BY <1>2, <1>3, <1>5, <1>6, <1>7, FollowsOn
<1>9. Len(dest) + n = size
  BY <1>2 DEF n
<1>10. QED
  BY <1>2, <1>3, <1>8, <1>9 DEF KInv, Stages, Reading

-----------------------------------------------------------------------------
LEMMA KeyInvStep == KInv /\ [KeyNext]_keyVars => KInv'
<1> SUFFICES ASSUME KInv, [KeyNext]_keyVars PROVE KInv'
  OBVIOUS
<1>1. ASSUME NEW n \in Sizes, Read(n) PROVE KInv'
  BY <1>1, SizesAssumption, BeginInv DEF Read, KInv
<1>2. ASSUME NEW n \in Sizes, NEW p \in Positions, Seek(p, n) PROVE KInv'
  BY <1>2, SizesAssumption, BeginInv DEF Seek
<1>3. CASE ReadShort
  BY <1>3, ReadShortInv
<1>4. CASE WholeBlock
  BY <1>4, WholeBlockInv
<1>5. CASE LastBlock
  BY <1>5, LastBlockInv
<1>6. CASE Close
  BY <1>6 DEF Close, KInv, Reading, Stages
<1>7. CASE UNCHANGED keyVars
  BY <1>7 DEF keyVars, KInv, Reading, Stages
<1>8. QED
  BY <1>1, <1>2, <1>3, <1>4, <1>5, <1>6, <1>7 DEF KeyNext

LEMMA KeyInvHolds == KeySpec => []KInv
BY KeyInvInit, KeyInvStep, PTL DEF KeySpec

-----------------------------------------------------------------------------
(***************************************************************************)
(* The refinement, in the terms of Stream.                                 *)
(***************************************************************************)
position == IF Reading THEN offset - written ELSE offset
asked == IF Reading THEN size ELSE 0
answer == IF Reading THEN <<>> ELSE [i \in 1..Len(dest) |-> Position(dest[i])]

LEMMA RefinesInit == KeyInit => Implemented!Init
BY DEF KeyInit, Implemented!Init, Reading

\* The steps within a request are not seen.
LEMMA StutterStep ==
  ASSUME Reading, Reading', offset' - written' = offset - written, size' = size
  PROVE  UNCHANGED <<position, asked, answer>>
BY DEF position, asked, answer

\* The last one is its answer.
LEMMA AnswerStep ==
  ASSUME KInv, LastBlock
  PROVE  Implemented!Answer
<1>1. /\ Reading /\ ~Reading' /\ size > 0 /\ size \in Nat /\ Len(dest') = size
      /\ Follows(dest', offset - written) /\ offset' = (offset - written) + size
  BY LastBlockInv DEF LastBlock, Reading, KInv
<1>2. [i \in 1..Len(dest') |-> Position(dest'[i])] = Implemented!From(offset - written, size)
  BY <1>1 DEF Follows, Implemented!From
<1>3. QED
  BY <1>1, <1>2 DEF Implemented!Answer

LEMMA RefinesStep ==
  ASSUME KInv, [KeyNext]_keyVars
  PROVE  [Implemented!Next]_<<position, asked, answer>>
<1>1. ASSUME NEW n \in Sizes, Read(n)
      PROVE  Implemented!Ask(n)
  <2>1. /\ ~Reading /\ Reading' /\ offset \in Nat /\ offset' = offset
        /\ written' = 0 /\ size' = n /\ offset + n <= Length
    BY <1>1, SizesAssumption, BeginInv DEF Read, Reading, KInv
  <2>2. QED
    BY <2>1 DEF Implemented!Ask
<1>2. ASSUME NEW n \in Sizes, NEW p \in Positions, Seek(p, n)
      PROVE  Implemented!Seek(p, n)
  <2>1. /\ ~Reading /\ Reading' /\ p \in Nat /\ offset' = p
        /\ written' = 0 /\ size' = n /\ p + n <= Length
    BY <1>2, SizesAssumption, BeginInv DEF Seek, Reading
  <2>2. QED
    BY <2>1 DEF Implemented!Seek
<1>3. CASE ReadShort
  <2>1. Reading /\ written = 0 /\ offset \in Nat
    BY <1>3 DEF ReadShort, Reading, KInv
  <2>2. offset' - written' = offset /\ size' = size /\ Reading'
    BY <1>3, ReadShortInv
  <2>3. QED
    BY <2>1, <2>2, StutterStep
<1>4. CASE WholeBlock
  BY <1>4, WholeBlockInv, StutterStep DEF WholeBlock, Reading
<1>5. CASE LastBlock
  BY <1>5, AnswerStep DEF Implemented!Next
<1>6. CASE Close \/ UNCHANGED keyVars
  BY <1>6 DEF Close, keyVars, Reading, position, asked, answer
<1>7. QED
  BY <1>1, <1>2, <1>3, <1>4, <1>5, <1>6 DEF KeyNext, Implemented!Next

\* Whatever the sizes of the requests, the size of a block and the width of the words
\* its number is kept in, the requests are answered with one stream, from the start or
\* from the last position that was sought: passgen_random_chacha20_read makes what was
\* left of a block again where it left it, and the counter carries.
THEOREM StreamImplemented == Spec => ImplementsStream
<1>1. KeyInit => Implemented!Init
  BY RefinesInit
<1>2. KInv /\ [KeyNext]_keyVars => [Implemented!Next]_<<position, asked, answer>>
  BY RefinesStep
<1>3. [Implemented!Next]_<<position, asked, answer>>
        => [Implemented!Next]_<<IF Reading THEN offset - written ELSE offset,
                                IF Reading THEN size ELSE 0,
                                IF Reading THEN <<>> ELSE [i \in 1..Len(dest) |-> Position(dest[i])]>>
  BY DEF position, asked, answer
<1>4. QED
  BY <1>1, <1>2, <1>3, KeyInvHolds, MasterStreams, PTL DEF KeySpec, ImplementsStream, Implemented!Spec

-----------------------------------------------------------------------------
\* Induction, on the set of the numbers for which something holds.
LEMMA SetInduction ==
  ASSUME NEW S, 0 \in S, \A n \in Nat : n \in S => n + 1 \in S
  PROVE  \A n \in Nat : n \in S
<1> DEFINE T == {n \in Nat : n \notin S}
           R == OpToRel(<, Nat)
<1> SUFFICES ASSUME T # {} PROVE FALSE
  OBVIOUS
<1>1. IsWellFoundedOn(R, Nat)
  BY NatLessThanWellFounded
<1>2. \A i, j \in Nat : <<i, j>> \in R <=> i < j
  BY DEF OpToRel
<1> HIDE DEF R
<1>3. PICK x \in T : \A y \in T : <<y, x>> \notin R
  BY <1>1, WFMin, Zenon
<1>4. x \in Nat /\ x # 0 /\ x - 1 \in Nat
  OBVIOUS
<1>5. x - 1 \in T
  <2>1. (x - 1) + 1 = x
    BY <1>4
  <2> QED
    BY <1>4, <2>1
<1>6. <<x - 1, x>> \in R
  BY <1>2, <1>4
<1> QED
  BY <1>3, <1>5, <1>6

-----------------------------------------------------------------------------
(* The hash: words, blocks and offsets.                                    *)

LEMMA ProductBelow ==
  ASSUME NEW a \in Nat, NEW b \in Nat, NEW w \in Nat \ {0}, a * w < b * w
  PROVE  a < b /\ (a + 1) * w <= b * w
<1>1. a < b
  <2> SUFFICES ASSUME a >= b PROVE FALSE
    OBVIOUS
  <2>1. PICK j \in Nat : a = b + j
    OBVIOUS
  <2>2. a * w = b * w + j * w /\ j * w \in Nat /\ b * w \in Nat
    BY <2>1
  <2> QED
    BY <2>2
<1>2. PICK j \in Nat : b = (a + 1) + j
  BY <1>1
<1>3. b * w = (a + 1) * w + j * w /\ j * w \in Nat /\ (a + 1) * w \in Nat
  BY <1>2
<1> QED
  BY <1>1, <1>3

LEMMA NoRest ==
  ASSUME NEW k \in Nat, NEW w \in Nat \ {0}
  PROVE  (k * w) % w = 0
<1> DEFINE r == (k * w) % w
<1>1. k * w \in Nat
  OBVIOUS
<1>2. (k * w) = ((k * w) \div w) * w + ((k * w) % w) /\ (k * w) % w \in 0..w-1
  BY <1>1, Division
<1>3. (k * w) \div w = k
  BY Quotient
<1>4. k * w = k * w + r /\ r \in Nat
  BY <1>2, <1>3
<1> HIDE DEF r
<1>5. r = 0
  BY <1>1, <1>4
<1> QED
  BY <1>5 DEF r

LEMMA BlockShape ==
  /\ BlockBytes \in Nat \ {0} /\ WordBytes \in Nat \ {0} /\ BlockWords \in Nat \ {0}
  /\ BlockBytes = BlockWords * WordBytes /\ WordBytes <= BlockBytes
  /\ OffsetMax \in Nat \ {0} /\ BlockBytes < OffsetMax
<1>1. WordBytes \in Nat \ {0} /\ BlockWords \in Nat \ {0} /\ OffsetMax \in Nat
  BY WordAssumption, OffsetAssumption
<1>2. PICK j \in Nat : BlockWords = j + 1
  BY <1>1
<1>3. WordBytes * BlockWords = j * WordBytes + WordBytes /\ j * WordBytes \in Nat
  BY <1>1, <1>2
<1>4. WordBytes * BlockWords = BlockWords * WordBytes
  BY <1>1
<1> QED
  BY <1>1, <1>3, <1>4, OffsetAssumption DEF BlockBytes

\* Whole words.
IsWords(n) == \E k \in Nat : n = k * WordBytes

LEMMA IsWordsIff ==
  ASSUME NEW n \in Nat
  PROVE  IsWords(n) <=> n % WordBytes = 0
<1>1. ASSUME IsWords(n) PROVE n % WordBytes = 0
  BY <1>1, BlockShape, NoRest DEF IsWords
<1>2. ASSUME n % WordBytes = 0 PROVE IsWords(n)
  <2>1. n \div WordBytes \in Nat /\ n = (n \div WordBytes) * WordBytes + (n % WordBytes)
    BY BlockShape, Division
  <2>2. (n \div WordBytes) * WordBytes \in Nat
    BY <2>1, BlockShape
  <2>3. n = (n \div WordBytes) * WordBytes
    BY <1>2, <2>1, <2>2
  <2> QED
    BY <2>1, <2>3 DEF IsWords
<1> QED
  BY <1>1, <1>2

LEMMA WordsAdd ==
  ASSUME NEW a \in Nat, NEW b \in Nat, IsWords(a)
  PROVE  IsWords(b) <=> IsWords(a + b)
<1>1. PICK k \in Nat : a = k * WordBytes
  BY DEF IsWords
<1>2. ASSUME IsWords(b) PROVE IsWords(a + b)
  <2>1. PICK l \in Nat : b = l * WordBytes
    BY <1>2 DEF IsWords
  <2>2. a + b = (k + l) * WordBytes /\ k + l \in Nat
    BY <1>1, <2>1, BlockShape
  <2> QED
    BY <2>2 DEF IsWords
<1>3. ASSUME IsWords(a + b) PROVE IsWords(b)
  <2>1. PICK l \in Nat : a + b = l * WordBytes
    BY <1>3 DEF IsWords
  <2>2. k <= l
    <3> SUFFICES ASSUME l < k PROVE FALSE
      BY <2>1
    <3>1. PICK j \in Nat : k = (l + 1) + j
      OBVIOUS
    <3>2. k * WordBytes = l * WordBytes + WordBytes + j * WordBytes /\ j * WordBytes \in Nat
      BY <3>1, BlockShape
    <3> QED
      BY <1>1, <2>1, <3>2, BlockShape
  <2>3. PICK j \in Nat : l = k + j
    BY <2>2
  <2>4. l * WordBytes = k * WordBytes + j * WordBytes /\ j * WordBytes \in Nat
    BY <2>3, BlockShape
  <2>5. b = j * WordBytes
    BY <1>1, <2>1, <2>4
  <2> QED
    BY <2>5 DEF IsWords
<1> QED
  BY <1>2, <1>3

\* What is not whole words of a number.
LEMMA WholeShape ==
  ASSUME NEW n \in Nat
  PROVE  /\ Whole(n, WordBytes) \in Nat /\ IsWords(Whole(n, WordBytes))
         /\ Whole(n, WordBytes) <= n /\ n - Whole(n, WordBytes) < WordBytes
         /\ IsWords(n) => Whole(n, WordBytes) = n
<1> DEFINE r == n % WordBytes
           q == n \div WordBytes
<1>1. q \in Nat /\ r \in 0..WordBytes-1 /\ n = q * WordBytes + r
  BY BlockShape, Division
<1>2. IsWords(n) => r = 0
  BY IsWordsIff
<1>3. Whole(n, WordBytes) = n - r
  BY DEF Whole
<1> HIDE DEF q, r
<1>4. q * WordBytes \in Nat
  BY <1>1, BlockShape
<1>5. n - r = q * WordBytes
  BY <1>1, <1>4
<1>6. IsWords(n - r)
  BY <1>1, <1>5 DEF IsWords
<1> QED
  BY <1>1, <1>2, <1>3, <1>4, <1>5, <1>6, BlockShape

\* The word that was begun ends in the block.
LEMMA WordEnds ==
  ASSUME NEW r \in 0..BlockBytes, r % WordBytes # 0
  PROVE  /\ WordBytes - (r % WordBytes) \in 1..WordBytes
         /\ r + (WordBytes - (r % WordBytes)) <= BlockBytes
         /\ IsWords(r + (WordBytes - (r % WordBytes)))
<1> DEFINE m == r % WordBytes
           q == r \div WordBytes
<1>1. q \in Nat /\ m \in 0..WordBytes-1 /\ r = q * WordBytes + m /\ r \in Nat
  <2>1. r \in Nat
    BY BlockShape
  <2> QED
    BY <2>1, BlockShape, Division
<1>2. m # 0
  OBVIOUS
<1> HIDE DEF q, m
<1>3. q * WordBytes \in Nat /\ q * WordBytes < BlockWords * WordBytes
  BY <1>1, <1>2, BlockShape
<1>4. (q + 1) * WordBytes <= BlockWords * WordBytes
  BY <1>1, <1>3, BlockShape, ProductBelow
<1>5. (q + 1) * WordBytes = q * WordBytes + WordBytes
  BY <1>1, BlockShape
<1>6. r + (WordBytes - m) = (q + 1) * WordBytes
  BY <1>1, <1>3, <1>5, BlockShape
<1>7. IsWords(r + (WordBytes - m))
  BY <1>1, <1>6 DEF IsWords
<1>8. WordBytes - m \in 1..WordBytes /\ r + (WordBytes - m) <= BlockBytes
  BY <1>1, <1>2, <1>4, <1>6, BlockShape
<1> QED
  BY <1>7, <1>8 DEF m

\* A word fits after whole words that are not the whole block.
LEMMA WordFits ==
  ASSUME NEW r \in Nat, r < BlockBytes, IsWords(r)
  PROVE  r + WordBytes <= BlockBytes /\ IsWords(BlockBytes - r)
<1>1. PICK k \in Nat : r = k * WordBytes
  BY DEF IsWords
<1>2. (k + 1) * WordBytes <= BlockWords * WordBytes
  BY <1>1, BlockShape, ProductBelow
<1>3. (k + 1) * WordBytes = r + WordBytes
  BY <1>1, BlockShape
<1>4. IsWords(BlockBytes)
  BY BlockShape DEF IsWords
<1>5. BlockBytes - r \in Nat /\ r + (BlockBytes - r) = BlockBytes
  BY BlockShape
<1>6. IsWords(BlockBytes - r)
  BY <1>4, <1>5, WordsAdd
<1> QED
  BY <1>2, <1>3, <1>6, BlockShape

LEMMA LesserOfTwo ==
  ASSUME NEW a \in Nat, NEW b \in Nat
  PROVE  Min({a, b}) = IF a <= b THEN a ELSE b
<1>1. \E x \in {a, b} : \A y \in {a, b} : x <= y
  OBVIOUS
<1>2. Min({a, b}) \in {a, b} /\ \A y \in {a, b} : Min({a, b}) <= y
  BY <1>1, Zenon DEF Min
<1> QED
  BY <1>2

-----------------------------------------------------------------------------
(* The bytes n+1..n+t of the message, and what of them is left.             *)
Run(n, t) == [i \in 1..t |-> n + i]

LEMMA RunShape ==
  ASSUME NEW n \in Nat, NEW t \in Nat
  PROVE  /\ Run(n, t) \in Seq(Nat) /\ Len(Run(n, t)) = t
         /\ \A i \in 1..t : Run(n, t)[i] = n + i
<1>1. \A i \in 1..t : n + i \in Nat
  OBVIOUS
<1>2. Run(n, t) \in [1..t -> Nat]
  BY <1>1 DEF Run
<1>3. Run(n, t) \in Seq(Nat)
  BY <1>2, SeqDef
<1> QED
  BY <1>2, <1>3 DEF Run

\* The b entries behind the first a.
Part(s, a, b) == SubSeq(s, a + 1, a + b)

LEMMA RunPart ==
  ASSUME NEW n \in Nat, NEW t \in Nat, NEW a \in Nat, NEW b \in Nat, a + b <= t
  PROVE  Part(Run(n, t), a, b) = Run(n + a, b)
<1> DEFINE s == SubSeq(Run(n, t), a + 1, a + b)
           u == Run(n + a, b)
<1>1. \A i \in a+1..a+b : Run(n, t)[i] \in Nat
  <2>1. \A i \in 1..t : Run(n, t)[i] = n + i
    BY RunShape
  <2> QED
    BY <2>1
<1>2. a + 1 \in Int /\ a + b \in Int
  OBVIOUS
<1>3. /\ s \in Seq(Nat) /\ Len(s) = (IF a + 1 <= a + b THEN (a + b) - (a + 1) + 1 ELSE 0)
      /\ \A i \in 1..(a + b) - (a + 1) + 1 : s[i] = Run(n, t)[a + 1 + i - 1]
  BY <1>1, <1>2, SubSeqProperties
<1>4. (a + b) - (a + 1) + 1 = b
  OBVIOUS
<1>5. u \in Seq(Nat) /\ Len(u) = b /\ \A i \in 1..b : u[i] = n + a + i
  <2>1. n + a \in Nat
    OBVIOUS
  <2> QED
    BY <2>1, RunShape
<1>6. Len(s) = b
  BY <1>3, <1>4
<1>7. \A i \in 1..b : s[i] = u[i]
  <2> SUFFICES ASSUME NEW i \in 1..b PROVE s[i] = u[i]
    OBVIOUS
  <2>1. a + 1 + i - 1 = a + i /\ a + i \in 1..t
    OBVIOUS
  <2>2. Run(n, t)[a + i] = n + (a + i)
    BY <2>1, RunShape
  <2>3. s[i] = Run(n, t)[a + i]
    BY <1>3, <1>4, <2>1
  <2> QED
    BY <1>5, <2>2, <2>3
<1> HIDE DEF s, u
<1>8. s = u
  BY <1>3, <1>5, <1>6, <1>7, SeqEqual
<1> QED
  BY <1>8 DEF s, u, Part

LEMMA RunStart ==
  ASSUME NEW n \in Nat, NEW t \in Nat, NEW b \in Nat, b <= t
  PROVE  Start(Run(n, t), b) = Run(n, b)
<1>0. PICK z \in Nat : z = 0
  OBVIOUS
<1>1. Part(Run(n, t), z, b) = Run(n + z, b)
  <2>1. z + b <= t
    BY <1>0
  <2> QED
    BY <2>1, RunPart
<1>2. z + 1 = 1 /\ z + b = b /\ n + z = n
  BY <1>0
<1> QED
  BY <1>1, <1>2 DEF Start, Part

LEMMA RunAfter ==
  ASSUME NEW n \in Nat, NEW t \in Nat, NEW a \in Nat, a <= t
  PROVE  After(Run(n, t), a) = Run(n + a, t - a)
<1>1. PICK b \in Nat : t = a + b
  OBVIOUS
<1>2. Part(Run(n, t), a, b) = Run(n + a, b)
  BY <1>1, RunPart
<1>3. Len(Run(n, t)) = a + b /\ t - a = b
  BY <1>1, RunShape
<1> QED
  BY <1>2, <1>3 DEF After, Part

-----------------------------------------------------------------------------
(* The context after a message of whole blocks and r bytes more.           *)
Context(hash, off, input, idx) == [hash |-> hash, offset |-> off, input |-> input, idx |-> idx]

Offset(n) == <<n % OffsetMax, n \div OffsetMax>>

WholeBlocks(q) ==
  [b \in 1..q |-> [block |-> [i \in 1..BlockBytes |-> (b - 1) * BlockBytes + i],
                   offset |-> Offset(b * BlockBytes), last |-> FALSE]]

Filled(q, r) == [i \in 1..BlockBytes |-> IF i <= r THEN q * BlockBytes + i ELSE 0]

Canon(q, r) == Context(WholeBlocks(q), Offset(q * BlockBytes), Filled(q, r), r)

\* What writing does to a buffer.
Laid(input, idx, bytes) ==
  [i \in 1..BlockBytes |-> IF i - idx \in 1..Len(bytes) THEN bytes[i - idx] ELSE input[i]]
Orred(input, idx, bytes) ==
  [i \in 1..BlockBytes |-> IF i - idx \in 1..Len(bytes) THEN Or(input[i], bytes[i - idx]) ELSE input[i]]

LEMMA OnContext ==
  ASSUME NEW h, NEW o, NEW input, NEW idx, NEW bytes
  PROVE  /\ Loaded(Context(h, o, input, idx), bytes) = Context(h, o, Laid(input, idx, bytes), idx + Len(bytes))
         /\ Ored(Context(h, o, input, idx), bytes) = Context(h, o, Orred(input, idx, bytes), idx + Len(bytes))
         /\ \A j : [Context(h, o, input, idx) EXCEPT !.idx = j] = Context(h, o, input, j)
         /\ Context(h, o, input, idx).idx = idx /\ Context(h, o, input, idx).input = input
<1> DEFINE c == Context(h, o, input, idx)
<1>0. c.idx = idx /\ c.input = input
  BY DEF Context
<1>4. ASSUME NEW x, NEW y
      PROVE  [c EXCEPT !.input = x, !.idx = y] = Context(h, o, x, y)
  <2>1. [c EXCEPT !.input = x] = Context(h, o, x, idx)
    BY DEF Context
  <2>2. [Context(h, o, x, idx) EXCEPT !.idx = y] = Context(h, o, x, y)
    BY DEF Context
  <2> HIDE DEF c
  <2> QED
    BY <2>1, <2>2, Zenon
<1> HIDE DEF c
<1>1. Loaded(c, bytes) = Context(h, o, Laid(input, idx, bytes), idx + Len(bytes))
  <2> DEFINE x == [i \in 1..BlockBytes |->
                     IF i - c.idx \in 1..Len(bytes) THEN bytes[i - c.idx] ELSE c.input[i]]
  <2>1. Loaded(c, bytes) = [c EXCEPT !.input = x, !.idx = c.idx + Len(bytes)]
    BY DEF Loaded
  <2>2. x = Laid(input, idx, bytes)
    BY <1>0 DEF Laid
  <2> HIDE DEF x
  <2> QED
    BY <1>0, <1>4, <2>1, <2>2, ZenonT(30)
<1>2. Ored(c, bytes) = Context(h, o, Orred(input, idx, bytes), idx + Len(bytes))
  <2> DEFINE x == [i \in 1..BlockBytes |->
                     IF i - c.idx \in 1..Len(bytes) THEN Or(c.input[i], bytes[i - c.idx]) ELSE c.input[i]]
  <2>1. Ored(c, bytes) = [c EXCEPT !.input = x, !.idx = c.idx + Len(bytes)]
    BY DEF Ored
  <2>2. x = Orred(input, idx, bytes)
    BY <1>0 DEF Orred
  <2> HIDE DEF x
  <2> QED
    BY <1>0, <1>4, <2>1, <2>2, ZenonT(30)
<1>3. \A j : [Context(h, o, input, idx) EXCEPT !.idx = j] = Context(h, o, input, j)
  BY DEF Context
<1> QED
  BY <1>0, <1>1, <1>2, <1>3 DEF c

LEMMA SetIdx ==
  ASSUME NEW h, NEW o, NEW x, NEW i, NEW j
  PROVE  [Context(h, o, x, i) EXCEPT !.idx = j] = Context(h, o, x, j)
BY DEF Context

LEMMA SetInput ==
  ASSUME NEW h, NEW o, NEW x, NEW i, NEW y
  PROVE  [Context(h, o, x, i) EXCEPT !.input = y] = Context(h, o, y, i)
BY DEF Context

LEMMA CanonHas ==
  ASSUME NEW q, NEW r
  PROVE  Canon(q, r).idx = r /\ Canon(q, r).input = Filled(q, r)
BY DEF Canon, Context

\* Bytes go on where those before ended.
LEMMA FillsOn ==
  ASSUME NEW q \in Nat, NEW r \in Nat, NEW t \in Nat, r + t <= BlockBytes
  PROVE  /\ Laid(Filled(q, r), r, Run(q * BlockBytes + r, t)) = Filled(q, r + t)
         /\ Orred(Filled(q, r), r, Run(q * BlockBytes + r, t)) = Filled(q, r + t)
<1> DEFINE s == Run(q * BlockBytes + r, t)
<1>0. q * BlockBytes \in Nat
  BY BlockShape
<1>1. Len(s) = t /\ \A i \in 1..t : s[i] = q * BlockBytes + r + i
  <2>1. q * BlockBytes + r \in Nat
    BY <1>0
  <2> QED
    BY <2>1, RunShape
<1> HIDE DEF s
<1>2. \A i \in 1..BlockBytes : Filled(q, r)[i] = IF i <= r THEN q * BlockBytes + i ELSE 0
  BY DEF Filled
<1>3. ASSUME NEW i \in 1..BlockBytes
      PROVE  /\ (IF i - r \in 1..Len(s) THEN s[i - r] ELSE Filled(q, r)[i])
                  = (IF i <= r + t THEN q * BlockBytes + i ELSE 0)
             /\ (IF i - r \in 1..Len(s) THEN Or(Filled(q, r)[i], s[i - r]) ELSE Filled(q, r)[i])
                  = (IF i <= r + t THEN q * BlockBytes + i ELSE 0)
  <2>1. CASE i - r \in 1..Len(s)
    <3>1. i - r \in 1..t /\ r < i /\ i <= r + t /\ r + (i - r) = i
      BY <1>1, <2>1
    <3>2. s[i - r] = q * BlockBytes + i /\ Filled(q, r)[i] = 0
      BY <1>0, <1>1, <1>2, <3>1
    <3> QED
      BY <2>1, <3>1, <3>2 DEF Or
  <2>2. CASE i - r \notin 1..Len(s)
    <3>1. i <= r \/ i > r + t
      BY <1>1, <2>2, BlockShape
    <3> QED
      BY <1>2, <2>2, <3>1
  <2> QED
    BY <2>1, <2>2
<1>4. Laid(Filled(q, r), r, s) = Filled(q, r + t)
  BY <1>3 DEF Laid, Filled
<1>5. Orred(Filled(q, r), r, s) = Filled(q, r + t)
  BY <1>3 DEF Orred, Filled
<1> QED
  BY <1>4, <1>5 DEF s

LEMMA CanonGrows ==
  ASSUME NEW q \in Nat, NEW r \in Nat, NEW t \in Nat, r + t <= BlockBytes
  PROVE  /\ Loaded(Canon(q, r), Run(q * BlockBytes + r, t)) = Canon(q, r + t)
         /\ Ored(Canon(q, r), Run(q * BlockBytes + r, t)) = Canon(q, r + t)
<1>1. Len(Run(q * BlockBytes + r, t)) = t
  <2>1. q * BlockBytes + r \in Nat
    BY BlockShape
  <2> QED
    BY <2>1, RunShape
<1> QED
  BY <1>1, OnContext, FillsOn DEF Canon

\* A whole block covers the buffer.
LEMMA WholeCovers ==
  ASSUME NEW q \in Nat, NEW x
  PROVE  Loaded(Context(WholeBlocks(q), Offset(q * BlockBytes), x, 0), Run(q * BlockBytes, BlockBytes))
           = Canon(q, BlockBytes)
<1> DEFINE s == Run(q * BlockBytes, BlockBytes)
<1>0. q * BlockBytes \in Nat /\ BlockBytes \in Nat
  BY BlockShape
<1>1. Len(s) = BlockBytes /\ \A i \in 1..BlockBytes : s[i] = q * BlockBytes + i
  BY <1>0, RunShape
<1> HIDE DEF s
<1>2. ASSUME NEW i \in 1..BlockBytes
      PROVE  (IF i - 0 \in 1..Len(s) THEN s[i - 0] ELSE x[i])
                  = (IF i <= BlockBytes THEN q * BlockBytes + i ELSE 0)
  <2>1. i - 0 = i /\ i <= BlockBytes
    BY <1>0
  <2> QED
    BY <1>1, <2>1
<1>3. Laid(x, 0, s) = Filled(q, BlockBytes)
  BY <1>2 DEF Laid, Filled
<1>4. 0 + Len(s) = BlockBytes
  BY <1>0, <1>1
<1> QED
  BY <1>3, <1>4, OnContext DEF s, Canon

-----------------------------------------------------------------------------
(* Blocks go into the hash.                                                *)
LEMMA DivisionIs ==
  ASSUME NEW a \in Nat, NEW w \in Nat \ {0}, NEW l \in 0..w-1
  PROVE  (a * w + l) \div w = a /\ (a * w + l) % w = l
<1> DEFINE m == a * w + l
           q == m \div w
           r == m % w
<1>0. a * w \in Nat /\ (a + 1) * w = a * w + w /\ a + 1 \in Nat
  OBVIOUS
<1>1. m \in Nat /\ m < (a + 1) * w /\ a * w <= m
  BY <1>0
<1> HIDE DEF m
<1>2. q \in Nat /\ m = q * w + r /\ r \in 0..w-1
  BY <1>1, Division
<1>3. q < a + 1
  BY <1>0, <1>1, QuotientBelow
<1>4. q >= a
  BY <1>1, QuotientAtLeast
<1> HIDE DEF q, r
<1>5. q = a
  BY <1>2, <1>3, <1>4
<1>6. m = a * w + r /\ m = a * w + l
  BY <1>2, <1>5 DEF m
<1>7. r = l
  BY <1>0, <1>2, <1>6
<1> QED
  BY <1>5, <1>7 DEF q, r, m

LEMMA OffsetCounts ==
  ASSUME NEW m \in Nat, NEW n \in 0..BlockBytes
  PROVE  Advanced(Offset(m), n) = Offset(m + n)
<1> DEFINE a == m \div OffsetMax
           l == m % OffsetMax
<1>1. a \in Nat /\ l \in 0..OffsetMax-1 /\ m = a * OffsetMax + l
  BY BlockShape, Division
<1>2. Offset(m) = <<l, a>>
  BY DEF Offset
<1> HIDE DEF a, l
<1>3. /\ n \in Nat /\ l \in Nat /\ a * OffsetMax \in Nat /\ n < OffsetMax
      /\ (a + 1) * OffsetMax = a * OffsetMax + OffsetMax /\ a + 1 \in Nat
  BY <1>1, BlockShape
<1>4. CASE l + n < OffsetMax
  <2>1. l + n \in 0..OffsetMax-1 /\ m + n = a * OffsetMax + (l + n)
    BY <1>1, <1>3, <1>4, BlockShape
  <2>2. (m + n) \div OffsetMax = a /\ (m + n) % OffsetMax = l + n
    BY <1>1, <2>1, BlockShape, DivisionIs
  <2>3. 0 * OffsetMax + (l + n) = l + n
    BY <1>3, BlockShape
  <2>4. (l + n) % OffsetMax = l + n
    BY <2>1, <2>3, BlockShape, DivisionIs
  <2>5. ~(l + n < n)
    BY <1>3
  <2> QED
    BY <1>2, <2>2, <2>4, <2>5 DEF Advanced, Offset
<1>5. CASE ~(l + n < OffsetMax)
  <2>0. l + n - OffsetMax \in 0..OffsetMax-1
    BY <1>1, <1>3, <1>5, BlockShape
  <2>1. PICK k \in 0..OffsetMax-1 : k = l + n - OffsetMax
    BY <2>0
  <2>7. k \in Nat /\ OffsetMax \in Nat
    BY BlockShape
  <2>2. m + n = (a + 1) * OffsetMax + k
    BY <1>1, <1>3, <2>1, <2>7
  <2>3. (m + n) \div OffsetMax = a + 1 /\ (m + n) % OffsetMax = k
    <3>1. PICK c \in Nat : c = a + 1
      BY <1>3
    <3>2. (c * OffsetMax + k) \div OffsetMax = c /\ (c * OffsetMax + k) % OffsetMax = k
      BY BlockShape, DivisionIs
    <3>3. m + n = c * OffsetMax + k
      BY <2>2, <3>1
    <3> QED
      BY <3>1, <3>2, <3>3
  <2>4. 1 * OffsetMax + k = l + n
    BY <1>3, <2>1, <2>7
  <2>5. (l + n) % OffsetMax = k
    <3>1. PICK c \in Nat : c = 1
      OBVIOUS
    <3>2. (c * OffsetMax + k) % OffsetMax = k
      BY BlockShape, DivisionIs
    <3>3. l + n = c * OffsetMax + k
      BY <2>4, <3>1
    <3> QED
      BY <3>2, <3>3
  <2>6. k < n
    BY <1>1, <1>3, <2>1, <2>7
  <2> QED
    BY <1>2, <2>3, <2>5, <2>6 DEF Advanced, Offset
<1> QED
  BY <1>4, <1>5

LEMMA AppendFunction ==
  ASSUME NEW S, NEW q \in Nat, NEW f \in [1..q -> S], NEW e \in S
  PROVE  Append(f, e) = [b \in 1..q + 1 |-> IF b <= q THEN f[b] ELSE e]
<1> DEFINE g == [b \in 1..q + 1 |-> IF b <= q THEN f[b] ELSE e]
<1>1. f \in Seq(S) /\ Len(f) = q
  BY SeqDef, LenProperties
<1>2. /\ Append(f, e) \in Seq(S) /\ Len(Append(f, e)) = q + 1
      /\ \A i \in 1..q : Append(f, e)[i] = f[i]
      /\ Append(f, e)[q + 1] = e
  BY <1>1, AppendProperties
<1>3. g \in [1..q + 1 -> S]
  OBVIOUS
<1>4. g \in Seq(S) /\ Len(g) = q + 1
  BY <1>3, SeqDef, LenProperties
<1>5. \A i \in 1..q + 1 : Append(f, e)[i] = g[i]
  BY <1>2
<1> HIDE DEF g
<1>6. Append(f, e) = g
  BY <1>2, <1>4, <1>5, SeqEqual
<1> QED
  BY <1>6 DEF g

\* A block that is not the last one is mixed in, and the last one.
MixIn(c) == Compressed(c, FALSE)
MixLast(c) == Compressed(c, TRUE)
Entry(x, off) == [block |-> x, offset |-> off, last |-> FALSE]
LastEntry(x, off) == [block |-> x, offset |-> off, last |-> TRUE]

LEMMA CompressedMore ==
  ASSUME NEW h, NEW o, NEW x, NEW i
  PROVE  MixIn(Context(h, o, x, i)) = Context(Append(h, Entry(x, Advanced(o, i))), Advanced(o, i), x, i)
<1> DEFINE c == Context(h, o, x, i)
           e == Entry(x, Advanced(o, i))
<1>1. c.offset = o /\ c.idx = i /\ c.input = x /\ c.hash = h
  BY DEF Context
<1>2. MixIn(c)
        = [c EXCEPT !.offset = Advanced(c.offset, c.idx),
                    !.hash = Append(c.hash, Entry(c.input, Advanced(c.offset, c.idx)))]
  <2> HIDE DEF c
  <2> QED
    BY DEF Compressed, MixIn, Entry
<1>3. ASSUME NEW y, NEW z
      PROVE  [c EXCEPT !.offset = y, !.hash = z] = Context(z, y, x, i)
  <2>1. [c EXCEPT !.offset = y] = Context(h, y, x, i)
    BY DEF Context
  <2>2. [Context(h, y, x, i) EXCEPT !.hash = z] = Context(z, y, x, i)
    BY DEF Context
  <2> HIDE DEF c
  <2> QED
    BY <2>1, <2>2, Zenon
<1> HIDE DEF c
<1>4. MixIn(c) = [c EXCEPT !.offset = Advanced(o, i), !.hash = Append(h, e)]
  BY <1>1, <1>2, Zenon
<1> HIDE DEF e
<1>5. MixIn(c) = Context(Append(h, e), Advanced(o, i), x, i)
  BY <1>3, <1>4, Zenon
<1> QED
  BY <1>5 DEF c, e

LEMMA CompressedLast ==
  ASSUME NEW h, NEW o, NEW x, NEW i
  PROVE  MixLast(Context(h, o, x, i)) = Context(Append(h, LastEntry(x, Advanced(o, i))), Advanced(o, i), x, i)
<1> DEFINE c == Context(h, o, x, i)
           e == LastEntry(x, Advanced(o, i))
<1>1. c.offset = o /\ c.idx = i /\ c.input = x /\ c.hash = h
  BY DEF Context
<1>2. MixLast(c)
        = [c EXCEPT !.offset = Advanced(c.offset, c.idx),
                    !.hash = Append(c.hash, LastEntry(c.input, Advanced(c.offset, c.idx)))]
  <2> HIDE DEF c
  <2> QED
    BY DEF Compressed, MixLast, LastEntry
<1>3. ASSUME NEW y, NEW z
      PROVE  [c EXCEPT !.offset = y, !.hash = z] = Context(z, y, x, i)
  <2>1. [c EXCEPT !.offset = y] = Context(h, y, x, i)
    BY DEF Context
  <2>2. [Context(h, y, x, i) EXCEPT !.hash = z] = Context(z, y, x, i)
    BY DEF Context
  <2> HIDE DEF c
  <2> QED
    BY <2>1, <2>2, Zenon
<1> HIDE DEF c
<1>4. MixLast(c) = [c EXCEPT !.offset = Advanced(o, i), !.hash = Append(h, e)]
  BY <1>1, <1>2, Zenon
<1> HIDE DEF e
<1>5. MixLast(c) = Context(Append(h, e), Advanced(o, i), x, i)
  BY <1>3, <1>4, Zenon
<1> QED
  BY <1>5 DEF c, e

WholeOne(b) ==
  [block |-> [i \in 1..BlockBytes |-> (b - 1) * BlockBytes + i],
   offset |-> Offset(b * BlockBytes), last |-> FALSE]

LEMMA WholeBlocksGrow ==
  ASSUME NEW q \in Nat
  PROVE  Append(WholeBlocks(q), Entry(Filled(q, BlockBytes), Offset(q * BlockBytes + BlockBytes)))
           = WholeBlocks(q + 1)
<1> DEFINE S == {WholeOne(b) : b \in Nat}
           e == WholeOne(q + 1)
<1>1. WholeBlocks(q) \in [1..q -> S] /\ \A b \in 1..q : WholeBlocks(q)[b] = WholeOne(b)
  <2>1. WholeBlocks(q) = [b \in 1..q |-> WholeOne(b)]
    BY Zenon DEF WholeBlocks, WholeOne
  <2>2. \A b \in 1..q : WholeOne(b) \in S
    OBVIOUS
  <2> QED
    BY <2>1, <2>2
<1>2. q + 1 \in Nat /\ e \in S
  OBVIOUS
<1>3. Filled(q, BlockBytes) = [i \in 1..BlockBytes |-> ((q + 1) - 1) * BlockBytes + i]
  <2>1. \A i \in 1..BlockBytes : i <= BlockBytes
    BY BlockShape
  <2>2. (q + 1) - 1 = q
    OBVIOUS
  <2> QED
    BY <2>1, <2>2 DEF Filled
<1>4. q * BlockBytes + BlockBytes = (q + 1) * BlockBytes
  BY BlockShape
<1>5. e = Entry(Filled(q, BlockBytes), Offset(q * BlockBytes + BlockBytes))
  BY <1>3, <1>4, Zenon DEF WholeOne, Entry
<1>6. \A b \in 1..q + 1 : (IF b <= q THEN WholeBlocks(q)[b] ELSE e) = WholeOne(b)
  <2> SUFFICES ASSUME NEW b \in 1..q + 1
               PROVE  (IF b <= q THEN WholeBlocks(q)[b] ELSE e) = WholeOne(b)
    OBVIOUS
  <2>1. CASE b <= q
    BY <1>1, <2>1
  <2>2. CASE ~(b <= q)
    <3>1. b = q + 1
      BY <2>2
    <3> QED
      BY <2>2, <3>1
  <2> QED
    BY <2>1, <2>2
<1> HIDE DEF e, S
<1>7. Append(WholeBlocks(q), e) = [b \in 1..q + 1 |-> IF b <= q THEN WholeBlocks(q)[b] ELSE e]
  BY <1>1, <1>2, AppendFunction
<1>8. WholeBlocks(q + 1) = [b \in 1..q + 1 |-> WholeOne(b)]
  BY Zenon DEF WholeBlocks, WholeOne
<1>9. Append(WholeBlocks(q), e) = WholeBlocks(q + 1)
  BY <1>6, <1>7, <1>8
<1> QED
  BY <1>5, <1>9

\* What a full buffer becomes.
LEMMA CompressedFull ==
  ASSUME NEW q \in Nat
  PROVE  MixIn(Canon(q, BlockBytes))
           = Context(WholeBlocks(q + 1), Offset((q + 1) * BlockBytes), Filled(q, BlockBytes), BlockBytes)
<1>1. q * BlockBytes \in Nat /\ q * BlockBytes + BlockBytes = (q + 1) * BlockBytes
      /\ BlockBytes \in 0..BlockBytes
  BY BlockShape
<1>2. Advanced(Offset(q * BlockBytes), BlockBytes) = Offset(q * BlockBytes + BlockBytes)
  BY <1>1, OffsetCounts
<1>3. MixIn(Canon(q, BlockBytes))
        = Context(Append(WholeBlocks(q), Entry(Filled(q, BlockBytes), Offset(q * BlockBytes + BlockBytes))),
                  Offset(q * BlockBytes + BlockBytes), Filled(q, BlockBytes), BlockBytes)
  <2>1. Canon(q, BlockBytes) = Context(WholeBlocks(q), Offset(q * BlockBytes), Filled(q, BlockBytes), BlockBytes)
    BY DEF Canon
  <2> QED
    BY <1>2, <2>1, CompressedMore
<1> QED
  BY <1>1, <1>3, WholeBlocksGrow

\* A block more after none or after a full buffer.
LEMMA BlockMore ==
  ASSUME NEW q \in Nat
  PROVE  /\ WithBlock(Canon(q, BlockBytes), Run((q + 1) * BlockBytes, BlockBytes)) = Canon(q + 1, BlockBytes)
         /\ WithBlock(Canon(q, 0), Run(q * BlockBytes, BlockBytes)) = Canon(q, BlockBytes)
<1>1. Canon(q, BlockBytes).idx = BlockBytes /\ Canon(q, 0).idx = 0 /\ BlockBytes # 0 /\ q + 1 \in Nat
  BY CanonHas, BlockShape
<1>2. WithBlock(Canon(q, BlockBytes), Run((q + 1) * BlockBytes, BlockBytes))
        = Loaded([MixIn(Canon(q, BlockBytes)) EXCEPT !.idx = 0], Run((q + 1) * BlockBytes, BlockBytes))
  BY <1>1, Zenon DEF WithBlock, MixIn
<1>3. [MixIn(Canon(q, BlockBytes)) EXCEPT !.idx = 0]
        = Context(WholeBlocks(q + 1), Offset((q + 1) * BlockBytes), Filled(q, BlockBytes), 0)
  <2>1. [Context(WholeBlocks(q + 1), Offset((q + 1) * BlockBytes), Filled(q, BlockBytes), BlockBytes) EXCEPT !.idx = 0]
          = Context(WholeBlocks(q + 1), Offset((q + 1) * BlockBytes), Filled(q, BlockBytes), 0)
    BY DEF Context
  <2>2. MixIn(Canon(q, BlockBytes))
          = Context(WholeBlocks(q + 1), Offset((q + 1) * BlockBytes), Filled(q, BlockBytes), BlockBytes)
    BY CompressedFull
  <2> QED
    BY <2>1, <2>2, Zenon
<1>4. WithBlock(Canon(q, BlockBytes), Run((q + 1) * BlockBytes, BlockBytes)) = Canon(q + 1, BlockBytes)
  BY <1>1, <1>2, <1>3, WholeCovers, Zenon
<1>5. WithBlock(Canon(q, 0), Run(q * BlockBytes, BlockBytes))
        = Loaded([Canon(q, 0) EXCEPT !.idx = 0], Run(q * BlockBytes, BlockBytes))
  BY <1>1, Zenon DEF WithBlock
<1>6. [Canon(q, 0) EXCEPT !.idx = 0] = Context(WholeBlocks(q), Offset(q * BlockBytes), Filled(q, 0), 0)
  BY DEF Canon, Context
<1>7. WithBlock(Canon(q, 0), Run(q * BlockBytes, BlockBytes)) = Canon(q, BlockBytes)
  BY <1>5, <1>6, WholeCovers, Zenon
<1> QED
  BY <1>4, <1>7

\* The blocks from n+1 on that a piece of t bytes has.
Cuts(n, t) == [i \in 1..t \div BlockBytes |-> Run(n + (i - 1) * BlockBytes, BlockBytes)]

\* Blocks after none or after a full buffer: r is its index, and they are counted from q on.
AreBlocks(blocks, q, r, j) ==
  /\ Len(blocks) = j
  /\ \A i \in 1..j : blocks[i] = Run((q * BlockBytes + r) + (i - 1) * BlockBytes, BlockBytes)

AfterBlocks(q, r, j) ==
  IF j = 0 THEN Canon(q, r) ELSE Canon(q + j - (IF r = 0 THEN 1 ELSE 0), BlockBytes)

LEMMA BlocksMore ==
  ASSUME NEW q \in Nat, NEW r \in {0, BlockBytes}, NEW blocks, NEW j \in Nat, AreBlocks(blocks, q, r, j)
  PROVE  WithBlocks(Canon(q, r), blocks) = AfterBlocks(q, r, j)
<1> DEFINE Solves(f) ==
             f = [n \in 0..Len(blocks) |-> IF n = 0 THEN Canon(q, r) ELSE WithBlock(f[n-1], blocks[n])]
           w == CHOOSE f : Solves(f)
           e(n) == IF n = 0 THEN Canon(q, r) ELSE Canon(q + n - (IF r = 0 THEN 1 ELSE 0), BlockBytes)
<1>0. BlockBytes \in Nat \ {0} /\ q * BlockBytes \in Nat
  BY BlockShape
<1>8. Len(blocks) = j
  BY DEF AreBlocks
<1>9. \A i \in 1..j : blocks[i] = Run((q * BlockBytes + r) + (i - 1) * BlockBytes, BlockBytes)
  BY DEF AreBlocks
<1>1. ASSUME NEW n \in 1..j PROVE WithBlock(e(n-1), blocks[n]) = e(n)
  <2>1. blocks[n] = Run((q * BlockBytes + r) + (n - 1) * BlockBytes, BlockBytes)
    BY <1>9
  <2>2. CASE r = 0
    <3>1. PICK p \in Nat : p = q + n - 1
      OBVIOUS
    <3>2. (q * BlockBytes + r) + (n - 1) * BlockBytes = p * BlockBytes
      BY <1>0, <2>2, <3>1
    <3>3. blocks[n] = Run(p * BlockBytes, BlockBytes)
      BY <2>1, <3>2
    <3>4. e(n) = Canon(p, BlockBytes)
      BY <2>2, <3>1
    <3>5. CASE n = 1
      <4>1. e(n-1) = Canon(p, 0)
        BY <2>2, <3>1, <3>5
      <4> QED
        BY <3>3, <3>4, <4>1, BlockMore
    <3>6. CASE n # 1
      <4>1. PICK o \in Nat : p = o + 1
        BY <3>1, <3>6
      <4>2. e(n-1) = Canon(o, BlockBytes)
        BY <2>2, <3>1, <3>6, <4>1
      <4> QED
        BY <3>3, <3>4, <4>1, <4>2, BlockMore
    <3> QED
      BY <3>5, <3>6
  <2>3. CASE r = BlockBytes
    <3>1. PICK o \in Nat : o = q + n - 1
      OBVIOUS
    <3>2. (q * BlockBytes + r) + (n - 1) * BlockBytes = (o + 1) * BlockBytes
      BY <1>0, <2>3, <3>1
    <3>3. blocks[n] = Run((o + 1) * BlockBytes, BlockBytes)
      BY <2>1, <3>2
    <3>4. r # 0 /\ q + n = o + 1
      BY <1>0, <2>3, <3>1
    <3>5. e(n) = Canon(o + 1, BlockBytes)
      BY <3>4
    <3>6. e(n-1) = Canon(o, BlockBytes)
      <4>1. CASE n = 1
        BY <2>3, <3>1, <4>1
      <4>2. CASE n # 1
        <5>1. q + (n - 1) - 0 = o /\ n - 1 # 0
          BY <3>1, <4>2
        <5> QED
          BY <3>4, <5>1
      <4> QED
        BY <4>1, <4>2
    <3> QED
      BY <3>3, <3>5, <3>6, BlockMore
  <2> QED
    BY <2>2, <2>3
<1>2. \E f : Solves(f)
  <2> DEFINE g == [n \in 0..j |-> e(n)]
  <2> HIDE DEF e
  <2>1. e(0) = Canon(q, r)
    BY DEF e
  <2>2. \A n \in 0..j : g[n] = IF n = 0 THEN Canon(q, r) ELSE WithBlock(g[n-1], blocks[n])
    <3> SUFFICES ASSUME NEW n \in 0..j, n # 0
                 PROVE  g[n] = WithBlock(g[n-1], blocks[n])
      BY <2>1
    <3>1. n \in 1..j /\ n - 1 \in 0..j
      OBVIOUS
    <3> QED
      BY <1>1, <3>1
  <2>3. g = [n \in 0..Len(blocks) |-> IF n = 0 THEN Canon(q, r) ELSE WithBlock(g[n-1], blocks[n])]
    BY <1>8, <2>2
  <2> HIDE DEF g
  <2> QED
    BY <2>3
<1>3. Solves(w)
  BY <1>2, Zenon
<1>4. WithBlocks(Canon(q, r), blocks) = w[Len(blocks)]
  BY Zenon DEF WithBlocks
<1> HIDE DEF e, w
<1>5. \A n \in 0..j : w[n] = IF n = 0 THEN Canon(q, r) ELSE WithBlock(w[n-1], blocks[n])
  BY <1>3, <1>8
<1> HIDE DEF Solves
<1>6. \A n \in 0..j : w[n] = e(n)
  <2> DEFINE S == {n \in Nat : n <= j => w[n] = e(n)}
  <2>1. 0 \in S
    BY <1>5 DEF e
  <2>2. ASSUME NEW n \in Nat, n \in S PROVE n + 1 \in S
    <3> SUFFICES ASSUME n + 1 <= j PROVE w[n + 1] = e(n + 1)
      OBVIOUS
    <3>1. n \in 0..j /\ n + 1 \in 1..j /\ (n + 1) - 1 = n
      OBVIOUS
    <3>2. w[n] = e(n)
      BY <2>2
    <3>3. w[n + 1] = WithBlock(w[n], blocks[n + 1])
      BY <1>5, <3>1
    <3>4. WithBlock(e(n), blocks[n + 1]) = e(n + 1)
      BY <1>1, <3>1
    <3> QED
      BY <3>2, <3>3, <3>4
  <2> HIDE DEF S
  <2>3. \A n \in Nat : n \in S
    BY <2>1, <2>2, SetInduction
  <2> QED
    BY <2>3 DEF S
<1>7. w[j] = e(j)
  BY <1>6
<1> QED
  BY <1>4, <1>7, <1>8 DEF e, AfterBlocks

\* A tail of less than a block, after none or a full buffer, or after whole words in a
\* buffer that has room for it.
LEMMA TailMore ==
  ASSUME NEW q \in Nat, NEW r \in 0..BlockBytes, NEW t \in 1..BlockBytes-1
  PROVE  /\ r = BlockBytes => WithTail(Canon(q, r), Run(q * BlockBytes + r, t)) = Canon(q + 1, t)
         /\ r = 0 => WithTail(Canon(q, r), Run(q * BlockBytes + r, t)) = Canon(q, t)
         /\ r # 0 /\ r # BlockBytes /\ t < WordBytes /\ r + t <= BlockBytes =>
              WithTail(Canon(q, r), Run(q * BlockBytes + r, t)) = Canon(q, r + t)
<1> DEFINE n == q * BlockBytes + r
           tail == Run(n, t)
           words == Whole(t, WordBytes)
<1>0. /\ BlockBytes \in Nat \ {0} /\ q * BlockBytes \in Nat /\ n \in Nat /\ t \in Nat /\ r \in Nat
      /\ (q + 1) * BlockBytes = q * BlockBytes + BlockBytes
  BY BlockShape
<1>1. Len(tail) = t /\ words \in Nat /\ words <= t /\ (t < WordBytes => words = 0)
  <2>1. t < WordBytes => words = 0
    <3> SUFFICES ASSUME t < WordBytes, words # 0 PROVE FALSE
      OBVIOUS
    <3>1. PICK k \in Nat : words = k * WordBytes
      BY <1>0, WholeShape DEF IsWords
    <3>2. words \in Nat /\ words <= t
      BY <1>0, WholeShape
    <3>3. k # 0
      BY <3>1, BlockShape
    <3>4. PICK i \in Nat : k = i + 1
      BY <3>3
    <3>5. k * WordBytes = i * WordBytes + WordBytes /\ i * WordBytes \in Nat
      BY <3>4, BlockShape
    <3> HIDE DEF words
    <3> QED
      BY <1>0, <3>1, <3>2, <3>5, BlockShape
  <2> QED
    BY <1>0, <2>1, RunShape, WholeShape
<1>2. Start(tail, words) = Run(n, words) /\ After(tail, words) = Run(n + words, t - words)
  BY <1>0, <1>1, RunStart, RunAfter
<1> HIDE DEF words, tail
\* From the start of a buffer.
<1>3. ASSUME NEW p \in Nat, n = p * BlockBytes
      PROVE  Ored([Loaded([Canon(p, 0) EXCEPT !.idx = 0], Start(tail, words)) EXCEPT !.idx = 0 + words],
                  After(tail, words)) = Canon(p, t)
  <2>1. [Canon(p, 0) EXCEPT !.idx = 0] = Canon(p, 0)
    BY DEF Canon, Context
  <2>2. Loaded(Canon(p, 0), Run(p * BlockBytes + 0, words)) = Canon(p, 0 + words)
    BY <1>0, <1>1, CanonGrows
  <2>3. p * BlockBytes + 0 = n /\ 0 + words = words /\ n + words = p * BlockBytes + words
    BY <1>0, <1>1, <1>3
  <2>4. [Canon(p, words) EXCEPT !.idx = words] = Canon(p, words)
    BY DEF Canon, Context
  <2>5. PICK u \in Nat : u = t - words /\ words + u = t
    BY <1>1
  <2>6. Ored(Canon(p, words), Run(p * BlockBytes + words, u)) = Canon(p, words + u)
    BY <1>0, <1>1, <2>5, CanonGrows
  <2>7. Loaded([Canon(p, 0) EXCEPT !.idx = 0], Start(tail, words)) = Canon(p, words)
    BY <1>2, <2>1, <2>2, <2>3
  <2>8. Ored([Canon(p, words) EXCEPT !.idx = words], After(tail, words)) = Canon(p, t)
    BY <1>2, <2>3, <2>4, <2>5, <2>6
  <2> QED
    BY <2>3, <2>7, <2>8
<1>4. CASE r = BlockBytes
  <2> DEFINE c == [Compressed(Canon(q, r), FALSE) EXCEPT !.idx = 0]
  <2>1. Canon(q, r).idx = BlockBytes
    BY <1>4, CanonHas
  <2>2. c = Context(WholeBlocks(q + 1), Offset((q + 1) * BlockBytes), Filled(q, BlockBytes), 0)
    <3>1. [Context(WholeBlocks(q + 1), Offset((q + 1) * BlockBytes), Filled(q, BlockBytes), BlockBytes) EXCEPT !.idx = 0]
            = Context(WholeBlocks(q + 1), Offset((q + 1) * BlockBytes), Filled(q, BlockBytes), 0)
      BY DEF Context
    <3>2. MixIn(Canon(q, BlockBytes))
            = Context(WholeBlocks(q + 1), Offset((q + 1) * BlockBytes), Filled(q, BlockBytes), BlockBytes)
      BY CompressedFull
    <3> QED
      BY <1>4, <3>1, <3>2, Zenon DEF MixIn
  <2>3. c.idx = 0 /\ [c EXCEPT !.input = Zeros(BlockBytes)] = Canon(q + 1, 0)
    <3>1. Zeros(BlockBytes) = Filled(q + 1, 0)
      BY <1>0 DEF Zeros, Filled
    <3>2. Context(WholeBlocks(q + 1), Offset((q + 1) * BlockBytes), Filled(q, BlockBytes), 0).idx = 0
      BY DEF Context
    <3>3. [Context(WholeBlocks(q + 1), Offset((q + 1) * BlockBytes), Filled(q, BlockBytes), 0)
             EXCEPT !.input = Zeros(BlockBytes)]
            = Context(WholeBlocks(q + 1), Offset((q + 1) * BlockBytes), Zeros(BlockBytes), 0)
      BY DEF Context
    <3> QED
      BY <2>2, <3>1, <3>2, <3>3, Zenon DEF Canon
  <2>4. Canon(q + 1, 0).idx = 0
    BY CanonHas
  <2> HIDE DEF c
  <2>5. WithTail(Canon(q, r), tail)
          = Ored([Loaded([Canon(q + 1, 0) EXCEPT !.idx = 0], Start(tail, Whole(Len(tail), WordBytes)))
                    EXCEPT !.idx = 0 + Whole(Len(tail), WordBytes)],
                 After(tail, Whole(Len(tail), WordBytes)))
    <3>1. (IF Canon(q, r).idx = BlockBytes THEN [Compressed(Canon(q, r), FALSE) EXCEPT !.idx = 0] ELSE Canon(q, r)) = c
      BY <2>1 DEF c
    <3>2. (IF c.idx = 0 THEN [c EXCEPT !.input = Zeros(BlockBytes)] ELSE c) = Canon(q + 1, 0)
      BY <2>3
    <3> QED
      BY <2>4, <3>1, <3>2, Zenon DEF WithTail
  <2>6. Whole(Len(tail), WordBytes) = words
    BY <1>1 DEF words
  <2>7. q + 1 \in Nat /\ n = (q + 1) * BlockBytes
    BY <1>0, <1>4
  <2>8. WithTail(Canon(q, r), tail) = Canon(q + 1, t)
    BY <1>3, <2>5, <2>6, <2>7, Zenon
  <2> QED
    BY <1>0, <1>4, <2>8 DEF tail
<1>5. CASE r = 0
  <2>1. Canon(q, r).idx = 0 /\ 0 # BlockBytes
    BY <1>0, <1>5, CanonHas
  <2>2. [Canon(q, 0) EXCEPT !.input = Zeros(BlockBytes)] = Canon(q, 0)
    <3>1. Zeros(BlockBytes) = Filled(q, 0)
      BY <1>0 DEF Zeros, Filled
    <3>2. [Context(WholeBlocks(q), Offset(q * BlockBytes), Filled(q, 0), 0) EXCEPT !.input = Filled(q, 0)]
            = Context(WholeBlocks(q), Offset(q * BlockBytes), Filled(q, 0), 0)
      BY DEF Context
    <3> QED
      BY <3>1, <3>2, Zenon DEF Canon
  <2> DEFINE d == [Canon(q, 0) EXCEPT !.input = Zeros(BlockBytes)]
  <2>7. d.idx = 0
    BY <1>5, <2>1, <2>2
  <2> HIDE DEF d
  <2>3. WithTail(Canon(q, r), tail)
          = Ored([Loaded([d EXCEPT !.idx = 0], Start(tail, Whole(Len(tail), WordBytes)))
                    EXCEPT !.idx = 0 + Whole(Len(tail), WordBytes)],
                 After(tail, Whole(Len(tail), WordBytes)))
    <3>1. (IF Canon(q, r).idx = BlockBytes THEN [Compressed(Canon(q, r), FALSE) EXCEPT !.idx = 0] ELSE Canon(q, r)) = Canon(q, 0)
      BY <1>5, <2>1
    <3>2. (IF Canon(q, 0).idx = 0 THEN [Canon(q, 0) EXCEPT !.input = Zeros(BlockBytes)] ELSE Canon(q, 0)) = d
      BY <1>5, <2>1 DEF d
    <3> QED
      BY <2>7, <3>1, <3>2, Zenon DEF WithTail
  <2>4. Whole(Len(tail), WordBytes) = words
    BY <1>1 DEF words
  <2>5. n = q * BlockBytes
    BY <1>0, <1>5
  <2>6. WithTail(Canon(q, r), tail) = Canon(q, t)
    <3>1. d = Canon(q, 0)
      BY <2>2 DEF d
    <3> QED
      BY <1>3, <2>3, <2>4, <2>5, <3>1, Zenon
  <2> QED
    BY <1>0, <1>5, <2>6 DEF tail
<1>6. CASE r # 0 /\ r # BlockBytes /\ t < WordBytes /\ r + t <= BlockBytes
  <2>1. Canon(q, r).idx = r /\ words = 0
    BY <1>1, <1>6, CanonHas
  <2>2. Start(tail, 0) = Run(n, 0) /\ After(tail, 0) = Run(n, t)
    <3>1. n + 0 = n /\ t - 0 = t
      BY <1>0
    <3> QED
      BY <1>2, <2>1, <3>1
  <2>3. Loaded([Canon(q, r) EXCEPT !.idx = 0], Run(n, 0))
          = Context(WholeBlocks(q), Offset(q * BlockBytes), Filled(q, r), 0)
    <3>1. [Canon(q, r) EXCEPT !.idx = 0] = Context(WholeBlocks(q), Offset(q * BlockBytes), Filled(q, r), 0)
      BY DEF Canon, Context
    <3>2. Len(Run(n, 0)) = 0
      BY <1>0, RunShape
    <3>3. Laid(Filled(q, r), 0, Run(n, 0)) = Filled(q, r)
      <4>1. \A i : i \notin 1..Len(Run(n, 0))
        BY <3>2
      <4> QED
        BY <4>1 DEF Laid, Filled
    <3>4. Loaded(Context(WholeBlocks(q), Offset(q * BlockBytes), Filled(q, r), 0), Run(n, 0))
            = Context(WholeBlocks(q), Offset(q * BlockBytes), Laid(Filled(q, r), 0, Run(n, 0)), 0 + Len(Run(n, 0)))
      BY OnContext
    <3>5. 0 + Len(Run(n, 0)) = 0
      BY <3>2
    <3> QED
      BY <3>1, <3>3, <3>4, <3>5, Zenon
  <2>4. [Context(WholeBlocks(q), Offset(q * BlockBytes), Filled(q, r), 0) EXCEPT !.idx = r + 0] = Canon(q, r)
    <3>1. r + 0 = r
      BY <1>0
    <3>2. [Context(WholeBlocks(q), Offset(q * BlockBytes), Filled(q, r), 0) EXCEPT !.idx = r] = Canon(q, r)
      BY DEF Canon, Context
    <3> QED
      BY <3>1, <3>2
  <2>5. WithTail(Canon(q, r), tail)
          = Ored([Loaded([Canon(q, r) EXCEPT !.idx = 0], Start(tail, Whole(Len(tail), WordBytes)))
                    EXCEPT !.idx = r + Whole(Len(tail), WordBytes)],
                 After(tail, Whole(Len(tail), WordBytes)))
    <3>1. (IF Canon(q, r).idx = BlockBytes THEN [Compressed(Canon(q, r), FALSE) EXCEPT !.idx = 0] ELSE Canon(q, r)) = Canon(q, r)
      BY <1>6, <2>1
    <3>2. (IF Canon(q, r).idx = 0 THEN [Canon(q, r) EXCEPT !.input = Zeros(BlockBytes)] ELSE Canon(q, r)) = Canon(q, r)
      BY <1>6, <2>1
    <3> QED
      BY <2>1, <3>1, <3>2, Zenon DEF WithTail
  <2>6. Whole(Len(tail), WordBytes) = 0
    BY <1>1, <2>1 DEF words
  <2>7. WithTail(Canon(q, r), tail) = Ored(Canon(q, r), Run(n, t))
    BY <2>2, <2>3, <2>4, <2>5, <2>6, Zenon
  <2>8. Ored(Canon(q, r), Run(n, t)) = Canon(q, r + t)
    BY <1>0, <1>6, CanonGrows
  <2> QED
    BY <1>6, <2>7, <2>8 DEF tail
<1> QED
  BY <1>4, <1>5, <1>6 DEF tail

\* No block leaves the context as it is.
LEMMA WithNoBlocks ==
  ASSUME NEW c, NEW blocks, Len(blocks) = 0
  PROVE  WithBlocks(c, blocks) = c
<1> DEFINE Solves(f) ==
             f = [n \in 0..Len(blocks) |-> IF n = 0 THEN c ELSE WithBlock(f[n-1], blocks[n])]
           w == CHOOSE f : Solves(f)
<1>1. \E f : Solves(f)
  <2> DEFINE g == [n \in 0..0 |-> c]
  <2>1. \A n \in 0..0 : g[n] = IF n = 0 THEN c ELSE WithBlock(g[n-1], blocks[n])
    OBVIOUS
  <2>2. g = [n \in 0..Len(blocks) |-> IF n = 0 THEN c ELSE WithBlock(g[n-1], blocks[n])]
    BY <2>1
  <2> HIDE DEF g
  <2> QED
    BY <2>2
<1>2. Solves(w)
  BY <1>1, Zenon
<1>3. WithBlocks(c, blocks) = w[Len(blocks)]
  BY Zenon DEF WithBlocks
<1> HIDE DEF w
<1>4. w[0] = c
  BY <1>2
<1> QED
  BY <1>3, <1>4

-----------------------------------------------------------------------------
(* A piece goes in.                                                        *)

\* The context is that of a message of n bytes: there is no empty buffer behind a block.
Absorbed(c, n) ==
  \E q \in Nat, r \in 0..BlockBytes :
    /\ n = q * BlockBytes + r
    /\ r = 0 => q = 0
    /\ c = Canon(q, r)

LEMMA RunEmpty ==
  ASSUME NEW n \in Nat, NEW t \in Nat
  PROVE  Run(n, t) = <<>> <=> t = 0
<1>1. Run(n, t) \in Seq(Nat) /\ Len(Run(n, t)) = t
  BY RunShape
<1>2. Run(n, t) = <<>> <=> Len(Run(n, t)) = 0
  BY <1>1, EmptySeq
<1> QED
  BY <1>1, <1>2

\* The first part: up to the end of a word.
LEMMA WordMore ==
  ASSUME NEW q \in Nat, NEW r \in 0..BlockBytes, NEW k \in Nat
  PROVE  \E t \in 0..k :
           /\ ToWord(Canon(q, r), k) = t
           /\ r + t <= BlockBytes
           /\ t < k => IsWords(r + t)
           /\ Ored(Canon(q, r), Start(Run(q * BlockBytes + r, k), t)) = Canon(q, r + t)
<1> DEFINE w == r % WordBytes
<1>0. r \in Nat /\ q * BlockBytes + r \in Nat /\ BlockBytes \in Nat /\ WordBytes \in Nat \ {0}
      /\ r <= BlockBytes
  BY BlockShape
<1>1. Canon(q, r).idx = r
  BY CanonHas
<1>2. ASSUME NEW t \in 0..k, r + t <= BlockBytes
      PROVE  Ored(Canon(q, r), Start(Run(q * BlockBytes + r, k), t)) = Canon(q, r + t)
  <2>1. t \in Nat /\ t <= k
    OBVIOUS
  <2>2. Start(Run(q * BlockBytes + r, k), t) = Run(q * BlockBytes + r, t)
    BY <1>0, <2>1, RunStart
  <2>3. Ored(Canon(q, r), Run(q * BlockBytes + r, t)) = Canon(q, r + t)
    BY <1>0, <1>2, <2>1, CanonGrows
  <2> QED
    BY <2>2, <2>3
<1>3. CASE w = 0
  <2>1. ToWord(Canon(q, r), k) = 0
    BY <1>1, <1>3 DEF ToWord
  <2>2. IsWords(r)
    BY <1>0, <1>3, IsWordsIff
  <2>3. 0 \in 0..k /\ r + 0 = r
    BY <1>0
  <2> QED
    BY <1>0, <1>2, <2>1, <2>2, <2>3
<1>4. CASE w # 0
  <2>1. WordBytes - w \in 1..WordBytes /\ r + (WordBytes - w) <= BlockBytes /\ IsWords(r + (WordBytes - w))
    BY <1>4, WordEnds
  <2> HIDE DEF w
  <2>2. PICK d \in Nat : d = WordBytes - w
    BY <1>0, <2>1
  <2>3. ToWord(Canon(q, r), k) = Min({d, k})
    BY <1>1, <1>4, <2>2 DEF ToWord, w
  <2>4. ToWord(Canon(q, r), k) = IF d <= k THEN d ELSE k
    BY <2>3, LesserOfTwo
  <2>5. CASE d <= k
    BY <1>0, <1>2, <2>1, <2>2, <2>4, <2>5
  <2>6. CASE ~(d <= k)
    <3>1. k \in 0..k /\ r + k <= BlockBytes
      BY <1>0, <2>1, <2>2, <2>6
    <3> QED
      BY <1>2, <2>4, <2>6, <3>1
  <2> QED
    BY <2>5, <2>6
<1> QED
  BY <1>3, <1>4

LEMMA EndsOnly ==
  ASSUME NEW r \in 0..BlockBytes
  PROVE  r % BlockBytes = 0 <=> r \in {0, BlockBytes}
<1>0. BlockBytes \in Nat \ {0} /\ r \in Nat
  BY BlockShape
<1>1. PICK z \in Nat : z = 0
  OBVIOUS
<1>2. PICK o \in Nat : o = 1
  OBVIOUS
<1>3. CASE r = BlockBytes
  <2>1. (o * BlockBytes) % BlockBytes = 0
    BY <1>0, NoRest
  <2>2. o * BlockBytes = r
    BY <1>0, <1>2, <1>3
  <2> QED
    BY <1>3, <2>1, <2>2
<1>4. CASE r # BlockBytes
  <2>1. r \in 0..BlockBytes-1
    BY <1>0, <1>4
  <2>2. (z * BlockBytes + r) % BlockBytes = r
    BY <1>0, <2>1, DivisionIs
  <2>3. z * BlockBytes + r = r
    BY <1>0, <1>1
  <2> QED
    BY <1>4, <2>2, <2>3
<1> QED
  BY <1>3, <1>4

\* The second: whole words, up to the end of a block.
WordsFit(q, r, k, a) ==
  \E t \in 0..k - a :
    /\ ToBlock(Canon(q, r), k - a) = t
    /\ r + t <= BlockBytes
    /\ a + t < k => IsWords(r + t)
    /\ r + t \in {0, BlockBytes} \/ k - a - t < WordBytes
    /\ r = 0 => t = 0
    /\ \A n \in Nat : q * BlockBytes + r = n + a =>
         Loaded(Canon(q, r), Part(Run(n, k), a, t)) = Canon(q, r + t)

LEMMA WordsMore ==
  ASSUME NEW q \in Nat, NEW r \in 0..BlockBytes, NEW k \in Nat, NEW a \in 0..k,
         k > a => IsWords(r)
  PROVE  WordsFit(q, r, k, a)
<1>0. r \in Nat /\ q * BlockBytes + r \in Nat /\ BlockBytes \in Nat /\ WordBytes \in Nat \ {0}
      /\ r <= BlockBytes /\ a \in Nat /\ a <= k
  BY BlockShape
<1>1. Canon(q, r).idx = r
  BY CanonHas
<1>2. ASSUME NEW t \in 0..k - a, r + t <= BlockBytes, NEW n \in Nat, q * BlockBytes + r = n + a
      PROVE  Loaded(Canon(q, r), Part(Run(n, k), a, t)) = Canon(q, r + t)
  <2>1. t \in Nat /\ a + t <= k
    BY <1>0
  <2>2. Part(Run(n, k), a, t) = Run(n + a, t)
    BY <1>0, <2>1, RunPart
  <2>3. Loaded(Canon(q, r), Run(q * BlockBytes + r, t)) = Canon(q, r + t)
    BY <1>0, <1>2, <2>1, CanonGrows
  <2> QED
    BY <1>2, <2>2, <2>3
<1>3. CASE r \in {0, BlockBytes}
  <2>1. ToBlock(Canon(q, r), k - a) = 0
    BY <1>1, <1>3, EndsOnly DEF ToBlock
  <2>2. PICK z \in 0..k - a : z = 0
    BY <1>0
  <2>3. r + z = r /\ a + z = a
    BY <1>0, <2>2
  <2>4. \A n \in Nat : q * BlockBytes + r = n + a =>
                Loaded(Canon(q, r), Part(Run(n, k), a, z)) = Canon(q, r + z)
    BY <1>0, <1>2, <2>3
  <2> QED
    BY <1>0, <1>3, <2>1, <2>2, <2>3, <2>4 DEF WordsFit
<1>4. CASE r \notin {0, BlockBytes}
  <2>1. PICK m \in Nat : m = k - a
    BY <1>0
  <2>2. PICK d \in Nat : d = BlockBytes - r /\ r + d = BlockBytes
    BY <1>0
  <2>3. ToBlock(Canon(q, r), k - a) = Whole(Min({d, m}), WordBytes)
    <3>1. ~(r % BlockBytes = 0)
      BY <1>4, EndsOnly
    <3> QED
      BY <1>1, <2>1, <2>2, <3>1 DEF ToBlock
  <2>4. PICK s \in Nat : s = Min({d, m}) /\ s = (IF d <= m THEN d ELSE m)
    BY LesserOfTwo
  <2>5. PICK t \in Nat : /\ t = Whole(s, WordBytes) /\ IsWords(t) /\ t <= s /\ s - t < WordBytes
                         /\ (IsWords(s) => t = s)
    BY WholeShape
  <2>6. ToBlock(Canon(q, r), k - a) = t
    BY <2>3, <2>4, <2>5
  <2>7. t \in 0..k - a /\ r + t <= BlockBytes
    BY <1>0, <2>1, <2>2, <2>4, <2>5
  <2>8. CASE m = 0
    <3>1. t = 0
      BY <2>4, <2>5, <2>8
    <3> QED
      BY <1>0, <1>2, <1>4, <2>1, <2>6, <2>7, <2>8, <3>1 DEF WordsFit
  <2>9. CASE m # 0
    <3>1. IsWords(r) /\ r < BlockBytes
      BY <1>0, <1>4, <2>1, <2>9
    <3>2. IsWords(d)
      BY <1>0, <2>2, <3>1, WordFits
    <3>3. IsWords(r + t)
      BY <1>0, <2>5, <3>1, WordsAdd
    <3>4. r + t = BlockBytes \/ m - t < WordBytes
      BY <1>0, <2>2, <2>4, <2>5, <3>2
    <3>5. r + t \in {0, BlockBytes} \/ k - a - t < WordBytes
      BY <2>1, <3>4
    <3> QED
      BY <1>2, <1>4, <2>6, <2>7, <3>3, <3>5 DEF WordsFit
  <2> QED
    BY <2>8, <2>9
<1> QED
  BY <1>3, <1>4

\* The rest: blocks, and a tail.
RestInto(c, more) ==
  LET blocks == [i \in 1..Len(more) \div BlockBytes |->
                   SubSeq(more, (i - 1) * BlockBytes + 1, i * BlockBytes)]
      tail == After(more, Whole(Len(more), BlockBytes))
      before == WithBlocks(c, blocks)
  IN  IF tail = <<>> THEN before ELSE WithTail(before, tail)

LEMMA TailInto ==
  ASSUME NEW q \in Nat, NEW r \in 0..BlockBytes, NEW t \in 1..BlockBytes-1, r = 0 => q = 0,
         \/ r \in {0, BlockBytes}
         \/ t < WordBytes /\ r + t <= BlockBytes
  PROVE  Absorbed(WithTail(Canon(q, r), Run(q * BlockBytes + r, t)), q * BlockBytes + r + t)
<1>0. r \in Nat /\ t \in Nat /\ q * BlockBytes \in Nat /\ BlockBytes \in Nat \ {0}
      /\ t # 0 /\ t \in 0..BlockBytes
  BY BlockShape
<1>1. CASE r = 0
  <2>1. WithTail(Canon(q, r), Run(q * BlockBytes + r, t)) = Canon(q, t)
    BY <1>1, TailMore
  <2>2. q * BlockBytes + r + t = q * BlockBytes + t
    BY <1>0, <1>1
  <2> QED
    BY <1>0, <2>1, <2>2 DEF Absorbed
<1>2. CASE r = BlockBytes
  <2>1. WithTail(Canon(q, r), Run(q * BlockBytes + r, t)) = Canon(q + 1, t)
    BY <1>2, TailMore
  <2>2. PICK p \in Nat : p = q + 1
    OBVIOUS
  <2>3. p * BlockBytes = q * BlockBytes + BlockBytes
    BY <1>0, <2>2
  <2>4. q * BlockBytes + r + t = p * BlockBytes + t
    BY <1>2, <2>3
  <2>5. WithTail(Canon(q, r), Run(q * BlockBytes + r, t)) = Canon(p, t)
    BY <2>1, <2>2
  <2> QED
    BY <1>0, <2>4, <2>5 DEF Absorbed
<1>3. CASE r # 0 /\ r # BlockBytes
  <2>1. t < WordBytes /\ r + t <= BlockBytes
    BY <1>3
  <2>2. WithTail(Canon(q, r), Run(q * BlockBytes + r, t)) = Canon(q, r + t)
    BY <1>3, <2>1, TailMore
  <2>3. PICK s \in 0..BlockBytes : s = r + t
    BY <1>0, <2>1
  <2>4. q * BlockBytes + r + t = q * BlockBytes + s /\ s # 0
    BY <1>0, <2>3
  <2>5. WithTail(Canon(q, r), Run(q * BlockBytes + r, t)) = Canon(q, s)
    BY <2>2, <2>3
  <2> QED
    BY <2>4, <2>5 DEF Absorbed
<1> QED
  BY <1>1, <1>2, <1>3

LEMMA RestMore ==
  ASSUME NEW q \in Nat, NEW r \in 0..BlockBytes, NEW m \in Nat, r = 0 => q = 0,
         \/ r \in {0, BlockBytes}
         \/ m < WordBytes /\ r + m <= BlockBytes
  PROVE  Absorbed(RestInto(Canon(q, r), Run(q * BlockBytes + r, m)), q * BlockBytes + r + m)
<1> DEFINE more == Run(q * BlockBytes + r, m)
           d == m \div BlockBytes
           s == m % BlockBytes
<1>0. /\ r \in Nat /\ q * BlockBytes \in Nat /\ BlockBytes \in Nat \ {0} /\ r <= BlockBytes
      /\ WordBytes <= BlockBytes /\ WordBytes \in Nat
  BY BlockShape
<1>1. d \in Nat /\ s \in 0..BlockBytes-1 /\ m = d * BlockBytes + s
  BY <1>0, Division
<1>2. Whole(m, BlockBytes) = m - s
  BY DEF Whole
<1>3. PICK j \in Nat : j = d
  BY <1>1
<1>4. PICK l \in 0..BlockBytes-1 : l = s
  BY <1>1
<1> HIDE DEF d, s
<1>5. PICK n \in Nat : n = q * BlockBytes + r
  BY <1>0
<1>6. m = j * BlockBytes + l /\ j * BlockBytes \in Nat /\ l \in Nat
  BY <1>0, <1>1, <1>3, <1>4
<1>7. Len(more) = m
  BY <1>5, RunShape
<1>8. Whole(m, BlockBytes) = j * BlockBytes
  BY <1>2, <1>4, <1>6
<1>9. After(more, Whole(m, BlockBytes)) = Run(n + j * BlockBytes, l)
  <2>1. PICK w \in Nat : w = j * BlockBytes
    BY <1>6
  <2>2. w <= m /\ m - w = l
    BY <1>6, <2>1
  <2>3. After(Run(n, m), w) = Run(n + w, m - w)
    BY <2>2, RunAfter
  <2> QED
    BY <1>5, <1>8, <2>1, <2>2, <2>3
<1> DEFINE blocks == [i \in 1..j |-> SubSeq(more, (i - 1) * BlockBytes + 1, i * BlockBytes)]
           tail == Run(n + j * BlockBytes, l)
           before == WithBlocks(Canon(q, r), blocks)
<1>10. RestInto(Canon(q, r), more) = IF tail = <<>> THEN before ELSE WithTail(before, tail)
  <2> DEFINE bl == [i \in 1..Len(more) \div BlockBytes |->
                      SubSeq(more, (i - 1) * BlockBytes + 1, i * BlockBytes)]
             tl == After(more, Whole(Len(more), BlockBytes))
  <2>1. RestInto(Canon(q, r), more)
          = IF tl = <<>> THEN WithBlocks(Canon(q, r), bl) ELSE WithTail(WithBlocks(Canon(q, r), bl), tl)
    BY Zenon DEF RestInto
  <2>2. Len(more) \div BlockBytes = j
    BY <1>3, <1>7 DEF d
  <2>3. bl = blocks
    BY <2>2
  <2>4. tl = tail
    BY <1>7, <1>9
  <2> HIDE DEF bl, tl, blocks, tail, more
  <2> QED
    BY <2>1, <2>3, <2>4
<1>11. Len(blocks) = j /\ AreBlocks(blocks, q, r, j)
  <2> DEFINE S == {SubSeq(more, (i - 1) * BlockBytes + 1, i * BlockBytes) : i \in 1..j}
  <2>1. blocks \in [1..j -> S]
    OBVIOUS
  <2>2. Len(blocks) = j
    <3> HIDE DEF blocks, S
    <3>1. blocks \in Seq(S)
      BY <2>1, SeqDef
    <3> QED
      BY <2>1, <3>1, LenProperties
  <2>3. ASSUME NEW i \in 1..j
        PROVE  SubSeq(more, (i - 1) * BlockBytes + 1, i * BlockBytes) = Run(n + (i - 1) * BlockBytes, BlockBytes)
    <3>1. PICK a \in Nat : a = i - 1
      OBVIOUS
    <3>2. PICK b \in Nat : j = i + b
      OBVIOUS
    <3>3. /\ j * BlockBytes = a * BlockBytes + BlockBytes + b * BlockBytes /\ a * BlockBytes \in Nat
          /\ b * BlockBytes \in Nat /\ i * BlockBytes = a * BlockBytes + BlockBytes
      <4>1. i = a + 1 /\ j = (a + 1) + b
        BY <3>1, <3>2
      <4> QED
        BY <1>0, <4>1
    <3>4. PICK w \in Nat : w = a * BlockBytes
      BY <3>3
    <3>5. w + BlockBytes <= m
      BY <1>0, <1>6, <3>3, <3>4
    <3>6. Part(Run(n, m), w, BlockBytes) = Run(n + w, BlockBytes)
      BY <1>0, <3>5, RunPart
    <3>7. i * BlockBytes = w + BlockBytes /\ (i - 1) * BlockBytes = w
      BY <3>1, <3>3, <3>4
    <3> QED
      BY <1>5, <3>6, <3>7 DEF Part
  <2>4. \A i \in 1..j : blocks[i] = SubSeq(more, (i - 1) * BlockBytes + 1, i * BlockBytes)
    OBVIOUS
  <2> HIDE DEF blocks, more
  <2> QED
    BY <1>5, <2>2, <2>3, <2>4 DEF AreBlocks
<1> HIDE DEF blocks, more
\* What the blocks leave: a context that is full or not begun, or the one there was.
<1>12. \E p \in Nat, u \in 0..BlockBytes :
         /\ before = Canon(p, u) /\ (u = 0 => p = 0)
         /\ p * BlockBytes + u = n + j * BlockBytes
         /\ u \in {0, BlockBytes} \/ (u = r /\ j = 0)
  <2>1. CASE j = 0
    <3>1. WithBlocks(Canon(q, r), blocks) = Canon(q, r)
      <4>1. CASE r \in {0, BlockBytes}
        <5>1. WithBlocks(Canon(q, r), blocks) = AfterBlocks(q, r, j)
          BY <1>11, <4>1, BlocksMore
        <5> QED
          BY <2>1, <5>1 DEF AfterBlocks
      <4>2. CASE r \notin {0, BlockBytes}
        BY <1>11, <2>1, WithNoBlocks
      <4> QED
        BY <4>1, <4>2
    <3>2. n + j * BlockBytes = q * BlockBytes + r
      BY <1>0, <1>5, <2>1
    <3> QED
      BY <2>1, <3>1, <3>2
  <2>2. CASE j # 0
    <3>1. r \in {0, BlockBytes}
      <4> SUFFICES ASSUME m < WordBytes PROVE FALSE
        OBVIOUS
      <4>1. PICK i \in Nat : j = i + 1
        BY <2>2
      <4>2. j * BlockBytes = i * BlockBytes + BlockBytes /\ i * BlockBytes \in Nat
        BY <1>0, <4>1
      <4> QED
        BY <1>0, <1>6, <4>2
    <3>2. WithBlocks(Canon(q, r), blocks) = Canon(q + j - (IF r = 0 THEN 1 ELSE 0), BlockBytes)
      <4>1. WithBlocks(Canon(q, r), blocks) = AfterBlocks(q, r, j)
        BY <1>11, <3>1, BlocksMore
      <4> QED
        BY <2>2, <4>1 DEF AfterBlocks
    <3>3. PICK p \in Nat : p = q + j - (IF r = 0 THEN 1 ELSE 0)
      <4>1. q + j - (IF r = 0 THEN 1 ELSE 0) \in Nat
        <5>1. CASE r = 0
          BY <2>2, <5>1
        <5>2. CASE r # 0
          BY <5>2
        <5> QED
          BY <5>1, <5>2
      <4> QED
        BY <4>1
    <3>4. p * BlockBytes + BlockBytes = n + j * BlockBytes
      <4>1. CASE r = 0
        <5>1. q + j = p + 1
          BY <3>3, <4>1
        <5>2. (q + j) * BlockBytes = p * BlockBytes + BlockBytes
          BY <1>0, <5>1
        <5>3. (q + j) * BlockBytes = q * BlockBytes + j * BlockBytes
          BY <1>0
        <5> QED
          BY <1>0, <1>5, <1>6, <4>1, <5>2, <5>3
      <4>2. CASE r # 0
        <5>1. p = q + j /\ r = BlockBytes
          BY <3>1, <3>3, <4>2
        <5>2. p * BlockBytes = q * BlockBytes + j * BlockBytes
          BY <1>0, <5>1
        <5> QED
          BY <1>0, <1>5, <1>6, <5>1, <5>2
      <4> QED
        BY <4>1, <4>2
    <3>5. BlockBytes \in 0..BlockBytes /\ BlockBytes # 0
      BY <1>0
    <3> QED
      BY <3>2, <3>3, <3>4, <3>5
  <2> QED
    BY <2>1, <2>2
<1> HIDE DEF before
<1>13. PICK p \in Nat, u \in 0..BlockBytes :
         /\ before = Canon(p, u) /\ (u = 0 => p = 0)
         /\ p * BlockBytes + u = n + j * BlockBytes
         /\ u \in {0, BlockBytes} \/ (u = r /\ j = 0)
  BY <1>12
<1>14. PICK v \in Nat : v = p * BlockBytes + u /\ v = n + j * BlockBytes
  BY <1>6, <1>13
<1>15. v + l = q * BlockBytes + r + m
  BY <1>0, <1>5, <1>6, <1>14
<1>16. tail = <<>> <=> l = 0
  BY <1>6, <1>14, RunEmpty
<1> HIDE DEF tail
<1>17. CASE l = 0
  <2>1. RestInto(Canon(q, r), more) = Canon(p, u)
    BY <1>10, <1>13, <1>16, <1>17
  <2>2. q * BlockBytes + r + m = p * BlockBytes + u
    BY <1>14, <1>15, <1>17
  <2>3. Absorbed(Canon(p, u), q * BlockBytes + r + m)
    BY <1>13, <2>2 DEF Absorbed
  <2> QED
    BY <2>1, <2>3 DEF more
<1>18. CASE l # 0
  <2>1. RestInto(Canon(q, r), more) = WithTail(Canon(p, u), tail)
    BY <1>10, <1>13, <1>16, <1>18
  <2>2. tail = Run(p * BlockBytes + u, l)
    BY <1>14 DEF tail
  <2>3. l \in 1..BlockBytes-1
    BY <1>0, <1>18
  <2>4. u \in {0, BlockBytes} \/ (l < WordBytes /\ u + l <= BlockBytes)
    <3> SUFFICES ASSUME u \notin {0, BlockBytes} PROVE l < WordBytes /\ u + l <= BlockBytes
      OBVIOUS
    <3>1. u = r /\ j = 0
      BY <1>13
    <3>2. l = m
      BY <1>0, <1>6, <3>1
    <3> QED
      BY <3>1, <3>2
  <2>5. Absorbed(WithTail(Canon(p, u), Run(p * BlockBytes + u, l)), p * BlockBytes + u + l)
    BY <1>13, <2>3, <2>4, TailInto
  <2>6. p * BlockBytes + u + l = q * BlockBytes + r + m
    BY <1>14, <1>15
  <2> QED
    BY <2>1, <2>2, <2>5, <2>6 DEF more
<1> QED
  BY <1>17, <1>18

LEMMA UpdatedMore ==
  ASSUME NEW c, NEW n \in Nat, NEW k \in Nat, Absorbed(c, n)
  PROVE  Absorbed(Updated(c, Run(n, k)), n + k)
<1>1. PICK q \in Nat, r \in 0..BlockBytes : n = q * BlockBytes + r /\ (r = 0 => q = 0) /\ c = Canon(q, r)
  BY DEF Absorbed
<1>0. r \in Nat /\ q * BlockBytes \in Nat /\ BlockBytes \in Nat \ {0} /\ r <= BlockBytes
  BY BlockShape
<1>2. PICK a \in 0..k :
        /\ ToWord(Canon(q, r), k) = a
        /\ r + a <= BlockBytes
        /\ a < k => IsWords(r + a)
        /\ Ored(Canon(q, r), Start(Run(q * BlockBytes + r, k), a)) = Canon(q, r + a)
  BY WordMore
<1>3. PICK s \in 0..BlockBytes : s = r + a
  BY <1>0, <1>2
<1>4. k > a => IsWords(s)
  BY <1>2, <1>3
<1>17. WordsFit(q, s, k, a)
  BY <1>4, WordsMore
<1>5. PICK b \in 0..k - a :
        /\ ToBlock(Canon(q, s), k - a) = b
        /\ s + b <= BlockBytes
        /\ a + b < k => IsWords(s + b)
        /\ s + b \in {0, BlockBytes} \/ k - a - b < WordBytes
        /\ s = 0 => b = 0
        /\ \A x \in Nat : q * BlockBytes + s = x + a =>
                Loaded(Canon(q, s), Part(Run(x, k), a, b)) = Canon(q, s + b)
  BY <1>17, Zenon DEF WordsFit
<1>6. PICK u \in 0..BlockBytes : u = s + b
  BY <1>0, <1>3, <1>5
<1>7. PICK m \in Nat : m = k - a - b /\ k = a + b + m
  OBVIOUS
<1>8. q * BlockBytes + s = n + a /\ q * BlockBytes + u = n + (a + b) /\ a + b \in Nat /\ a + b <= k
      /\ k - (a + b) = m /\ u \in Nat /\ s \in Nat
  BY <1>0, <1>1, <1>3, <1>6, <1>7
<1>9. Loaded(Canon(q, s), SubSeq(Run(n, k), a + 1, a + b)) = Canon(q, u)
  BY <1>5, <1>6, <1>8 DEF Part
<1>10. Len(Run(n, k)) = k
  BY RunShape
<1>11. After(Run(n, k), a + b) = Run(q * BlockBytes + u, m)
  BY <1>8, RunAfter
<1>12. Updated(c, Run(n, k)) = RestInto(Canon(q, u), Run(q * BlockBytes + u, m))
  <2>1. Ored(c, Start(Run(n, k), a)) = Canon(q, s)
    BY <1>1, <1>2, <1>3
  <2>2. ToWord(c, k) = a
    BY <1>1, <1>2
  <2>3. ToBlock(Canon(q, s), k - a) = b
    BY <1>5
  <2>4. ASSUME NEW p, Len(p) = k, Ored(c, Start(p, a)) = Canon(q, s),
               Loaded(Canon(q, s), SubSeq(p, a + 1, a + b)) = Canon(q, u)
        PROVE  Updated(c, p) = RestInto(Canon(q, u), After(p, a + b))
    BY <2>2, <2>3, <2>4, Zenon DEF Updated, RestInto
  <2>5. Updated(c, Run(n, k)) = RestInto(Canon(q, u), After(Run(n, k), a + b))
    BY <1>9, <1>10, <2>1, <2>4, Zenon
  <2> QED
    BY <1>11, <2>5
<1>13. u = 0 => q = 0
  BY <1>0, <1>1, <1>3, <1>6
<1>14. u \in {0, BlockBytes} \/ (m < WordBytes /\ u + m <= BlockBytes)
  <2> SUFFICES ASSUME u \notin {0, BlockBytes} PROVE m < WordBytes /\ u + m <= BlockBytes
    OBVIOUS
  <2>1. m < WordBytes
    BY <1>5, <1>6, <1>7
  <2>2. CASE m = 0
    BY <1>0, <1>8, <2>1, <2>2
  <2>3. CASE m # 0
    <3>1. IsWords(u) /\ u < BlockBytes
      <4>1. a + b < k
        BY <1>7, <2>3
      <4>2. u < BlockBytes
        BY <1>0, <1>8
      <4> QED
        BY <1>5, <1>6, <4>1, <4>2
    <3>2. u + WordBytes <= BlockBytes
      BY <1>8, <3>1, WordFits
    <3> QED
      BY <1>0, <1>8, <2>1, <3>2, BlockShape
  <2> QED
    BY <2>2, <2>3
<1>15. Absorbed(RestInto(Canon(q, u), Run(q * BlockBytes + u, m)), q * BlockBytes + u + m)
  BY <1>13, <1>14, RestMore
<1>16. q * BlockBytes + u + m = n + k
  BY <1>7, <1>8
<1> QED
  BY <1>12, <1>15, <1>16

-----------------------------------------------------------------------------
(* The hash ends.                                                          *)

\* A block of the message, cut.
Slab(b, last, n) ==
  [block |-> [i \in 1..BlockBytes |->
                IF (b - 1) * BlockBytes + i <= n THEN (b - 1) * BlockBytes + i ELSE 0],
   offset |-> <<Min({b * BlockBytes, n}) % OffsetMax, Min({b * BlockBytes, n}) \div OffsetMax>>,
   last |-> b = last]

Lasts(n) == IF n = 0 THEN 1 ELSE (n + BlockBytes - 1) \div BlockBytes

LEMMA SlabInside ==
  ASSUME NEW q \in Nat, NEW n \in Nat, q * BlockBytes <= n, NEW b \in 1..q
  PROVE  Slab(b, q + 1, n) = WholeOne(b)
<1>1. PICK a \in Nat : a = b - 1 /\ b = a + 1
  OBVIOUS
<1>2. PICK d \in Nat : q = b + d
  OBVIOUS
<1>3. /\ a * BlockBytes \in Nat /\ b * BlockBytes = a * BlockBytes + BlockBytes
      /\ q * BlockBytes = b * BlockBytes + d * BlockBytes /\ d * BlockBytes \in Nat
      /\ BlockBytes \in Nat /\ b * BlockBytes \in Nat
  BY <1>1, <1>2, BlockShape
<1>4. PICK w \in Nat : w = a * BlockBytes /\ w = (b - 1) * BlockBytes
  BY <1>1, <1>3
<1>5. PICK e \in Nat : e = b * BlockBytes /\ e = w + BlockBytes /\ e <= n
  BY <1>3, <1>4
<1>6. Min({e, n}) = e
  BY <1>5, LesserOfTwo
<1>7. [i \in 1..BlockBytes |-> IF w + i <= n THEN w + i ELSE 0] = [i \in 1..BlockBytes |-> w + i]
  <2>1. \A i \in 1..BlockBytes : w + i <= n
    BY <1>3, <1>5
  <2> QED
    BY <2>1
<1>8. (b = q + 1) = FALSE
  OBVIOUS
<1>9. Slab(b, q + 1, n)
        = [block |-> [i \in 1..BlockBytes |-> IF w + i <= n THEN w + i ELSE 0],
           offset |-> <<Min({e, n}) % OffsetMax, Min({e, n}) \div OffsetMax>>,
           last |-> b = q + 1]
  BY <1>4, <1>5 DEF Slab
<1>10. WholeOne(b) = [block |-> [i \in 1..BlockBytes |-> w + i], offset |-> Offset(e), last |-> FALSE]
  BY <1>4, <1>5 DEF WholeOne
<1> QED
  BY <1>6, <1>7, <1>8, <1>9, <1>10 DEF Offset

LEMMA SlabLast ==
  ASSUME NEW q \in Nat, NEW r \in 0..BlockBytes
  PROVE  Slab(q + 1, q + 1, q * BlockBytes + r) = LastEntry(Filled(q, r), Offset(q * BlockBytes + r))
<1>1. PICK w \in Nat : w = q * BlockBytes
  BY BlockShape
<1>2. PICK n \in Nat : n = q * BlockBytes + r /\ n = w + r
  BY <1>1, BlockShape
<1>3. PICK e \in Nat : e = (q + 1) * BlockBytes /\ e = w + BlockBytes /\ n <= e
  BY <1>1, <1>2, BlockShape
<1>4. Min({e, n}) = n
  BY <1>3, LesserOfTwo
<1>5. ((q + 1) - 1) * BlockBytes = w
  BY <1>1
<1>6. [i \in 1..BlockBytes |-> IF w + i <= n THEN w + i ELSE 0] = Filled(q, r)
  <2>1. \A i \in 1..BlockBytes : w + i <= n <=> i <= r
    BY <1>2, BlockShape
  <2> QED
    BY <1>1, <2>1 DEF Filled
<1>7. Slab(q + 1, q + 1, n)
        = [block |-> [i \in 1..BlockBytes |-> IF w + i <= n THEN w + i ELSE 0],
           offset |-> <<Min({e, n}) % OffsetMax, Min({e, n}) \div OffsetMax>>,
           last |-> q + 1 = q + 1]
  BY <1>3, <1>5 DEF Slab
<1>8. Slab(q + 1, q + 1, n) = LastEntry(Filled(q, r), Offset(n))
  <2>1. (q + 1 = q + 1) = TRUE
    OBVIOUS
  <2> QED
    BY <1>4, <1>6, <1>7, <2>1 DEF LastEntry, Offset
<1> QED
  BY <1>2, <1>8

LEMMA LastsCount ==
  ASSUME NEW q \in Nat, NEW r \in 0..BlockBytes, r = 0 => q = 0
  PROVE  Lasts(q * BlockBytes + r) = q + 1
<1>0. BlockBytes \in Nat \ {0} /\ q * BlockBytes \in Nat /\ r \in Nat
  BY BlockShape
<1>1. CASE r = 0
  <2>1. q * BlockBytes + r = 0 /\ q + 1 = 1
    BY <1>0, <1>1
  <2> QED
    BY <2>1 DEF Lasts
<1>2. CASE r # 0
  <2>1. PICK c \in Nat : c = q + 1
    OBVIOUS
  <2>2. PICK l \in 0..BlockBytes-1 : l = r - 1
    BY <1>0, <1>2
  <2>3. c * BlockBytes = q * BlockBytes + BlockBytes
    BY <1>0, <2>1
  <2>4. q * BlockBytes + r + BlockBytes - 1 = c * BlockBytes + l
    BY <1>0, <2>2, <2>3
  <2>5. (c * BlockBytes + l) \div BlockBytes = c
    BY <1>0, DivisionIs
  <2>6. q * BlockBytes + r # 0
    BY <1>0, <1>2
  <2> QED
    BY <2>1, <2>4, <2>5, <2>6 DEF Lasts
<1> QED
  BY <1>1, <1>2

LEMMA FinalCuts ==
  ASSUME NEW c, NEW n \in Nat, Absorbed(c, n)
  PROVE  Final(c) = Cut(n)
<1>1. PICK q \in Nat, r \in 0..BlockBytes : n = q * BlockBytes + r /\ (r = 0 => q = 0) /\ c = Canon(q, r)
  BY DEF Absorbed
<1>0. BlockBytes \in Nat \ {0} /\ q * BlockBytes \in Nat /\ r \in Nat /\ q * BlockBytes <= n
  BY <1>1, BlockShape
<1> DEFINE S == {WholeOne(b) : b \in Nat} \union {LastEntry(Filled(q, r), Offset(n))}
           e == LastEntry(Filled(q, r), Offset(n))
<1>2. WholeBlocks(q) \in [1..q -> S] /\ \A b \in 1..q : WholeBlocks(q)[b] = WholeOne(b)
  <2>1. WholeBlocks(q) = [b \in 1..q |-> WholeOne(b)]
    BY Zenon DEF WholeBlocks, WholeOne
  <2>2. \A b \in 1..q : WholeOne(b) \in S
    OBVIOUS
  <2> QED
    BY <2>1, <2>2
<1>3. e \in S
  OBVIOUS
<1>4. Final(c) = Append(WholeBlocks(q), e)
  <2>1. Advanced(Offset(q * BlockBytes), r) = Offset(n)
    BY <1>0, <1>1, OffsetCounts
  <2>2. MixLast(Context(WholeBlocks(q), Offset(q * BlockBytes), Filled(q, r), r))
          = Context(Append(WholeBlocks(q), LastEntry(Filled(q, r), Advanced(Offset(q * BlockBytes), r))),
                    Advanced(Offset(q * BlockBytes), r), Filled(q, r), r)
    BY CompressedLast
  <2>3. MixLast(c) = Context(Append(WholeBlocks(q), e), Offset(n), Filled(q, r), r)
    BY <1>1, <2>1, <2>2 DEF Canon
  <2>4. Final(c) = MixLast(c).hash
    BY Zenon DEF Final, MixLast
  <2>5. Context(Append(WholeBlocks(q), e), Offset(n), Filled(q, r), r).hash = Append(WholeBlocks(q), e)
    BY DEF Context
  <2> HIDE DEF e
  <2> QED
    BY <2>3, <2>4, <2>5
<1>5. Cut(n) = [b \in 1..Lasts(n) |-> Slab(b, Lasts(n), n)]
  BY Zenon DEF Cut, Lasts, Slab
<1>6. Lasts(n) = q + 1
  BY <1>1, LastsCount
<1>7. \A b \in 1..q + 1 : (IF b <= q THEN WholeBlocks(q)[b] ELSE e) = Slab(b, q + 1, n)
  <2> SUFFICES ASSUME NEW b \in 1..q + 1
               PROVE  (IF b <= q THEN WholeBlocks(q)[b] ELSE e) = Slab(b, q + 1, n)
    OBVIOUS
  <2>1. CASE b <= q
    <3>1. b \in 1..q
      BY <2>1
    <3>2. Slab(b, q + 1, n) = WholeOne(b)
      BY <1>0, <3>1, SlabInside
    <3> QED
      BY <1>2, <2>1, <3>1, <3>2
  <2>2. CASE ~(b <= q)
    <3>1. b = q + 1
      BY <2>2
    <3>2. Slab(q + 1, q + 1, n) = e
      BY <1>1, SlabLast
    <3> QED
      BY <2>2, <3>1, <3>2
  <2> QED
    BY <2>1, <2>2
<1> HIDE DEF e, S
<1>8. Append(WholeBlocks(q), e) = [b \in 1..q + 1 |-> IF b <= q THEN WholeBlocks(q)[b] ELSE e]
  BY <1>2, <1>3, AppendFunction
<1> QED
  BY <1>4, <1>5, <1>6, <1>7, <1>8

-----------------------------------------------------------------------------
(* The spans of a digest.                                                  *)
Spanned(spans, total) ==
  /\ UNION {spans[i].out..spans[i].out + spans[i].length - 1 : i \in 1..Len(spans)} = 0..total-1
  /\ \A i \in 2..Len(spans) :
       /\ spans[i].length \in 1..HashBytes
       /\ spans[i].in = spans[i-1].out /\ spans[i-1].length = HashBytes
       /\ spans[i].out = spans[i].in + Half

LEMMA HalfIs == Half = 32 /\ HashBytes = 64
BY DEF Half, HashBytes

LEMMA SpanHas ==
  ASSUME NEW a, NEW b, NEW c
  PROVE  Span(a, b, c).out = a /\ Span(a, b, c).length = b /\ Span(a, b, c).in = c
BY DEF Span

\* A digest that one hash makes.
LEMMA OneSpan ==
  ASSUME NEW total \in Nat, total <= HashBytes
  PROVE  Spanned(Spans(total), total)
<1>1. Min({total, HashBytes}) = total
  BY HalfIs, LesserOfTwo
<1> DEFINE s == <<Span(0, total, 0)>>
<1>2. Spans(total) = s \o <<>>
  BY <1>1 DEF Spans
<1>3. s \in Seq({Span(0, total, 0)}) /\ <<>> \in Seq({Span(0, total, 0)}) /\ Len(s) = 1 /\ s[1] = Span(0, total, 0)
  <2> DEFINE e == Span(0, total, 0)
  <2> HIDE DEF e
  <2>1. <<e>> \in Seq({e}) /\ <<>> \in Seq({e}) /\ Len(<<e>>) = 1 /\ <<e>>[1] = e
    OBVIOUS
  <2> QED
    BY <2>1 DEF e
<1> HIDE DEF s
<1>4. s \o <<>> = s
  BY <1>3, ConcatEmptySeq
<1>5. s[1].out = 0 /\ s[1].length = total
  BY <1>3, SpanHas
<1>6. {s[i].out..s[i].out + s[i].length - 1 : i \in 1..Len(s)} = {0..total-1}
  <2>1. \A i \in 1..Len(s) : i = 1
    BY <1>3
  <2>2. 1 \in 1..Len(s)
    BY <1>3
  <2>3. s[1].out..s[1].out + s[1].length - 1 = 0..total-1
    BY <1>5
  <2> QED
    BY <2>1, <2>2, <2>3
<1>7. UNION {s[i].out..s[i].out + s[i].length - 1 : i \in 1..Len(s)} = 0..total-1
  BY <1>6
<1>8. \A i : i \notin 2..Len(s)
  BY <1>3
<1> QED
  BY <1>2, <1>4, <1>7, <1>8 DEF Spanned

\* A chain of r spans behind the first.
Chain(s, r, total) ==
  /\ Len(s) = r + 1
  /\ \A i \in 1..r + 1 :
       /\ s[i].out = 32 * (i - 1)
       /\ s[i].length = IF i = r + 1 THEN total - 32 * r ELSE 64
       /\ i > 1 => s[i].in = 32 * (i - 2)

LEMMA ChainSpans ==
  ASSUME NEW s, NEW total \in Nat, NEW r \in Nat, total - 32 * r \in 33..64, Chain(s, r, total)
  PROVE  Spanned(s, total)
<1>1. Len(s) = r + 1
  BY DEF Chain
<1>2. ASSUME NEW i \in 1..r + 1
      PROVE  /\ s[i].out = 32 * (i - 1)
             /\ s[i].length = IF i = r + 1 THEN total - 32 * r ELSE 64
             /\ i > 1 => s[i].in = 32 * (i - 2)
  BY DEF Chain
<1>3. ASSUME NEW i \in 1..r + 1, NEW x \in s[i].out..s[i].out + s[i].length - 1
      PROVE  x \in 0..total-1
  <2>1. CASE i = r + 1
    BY <1>2, <1>3, <2>1
  <2>2. CASE i # r + 1
    <3>1. i <= r /\ s[i].out = 32 * (i - 1) /\ s[i].length = 64
      BY <1>2, <2>2
    <3> QED
      BY <1>3, <3>1
  <2> QED
    BY <2>1, <2>2
<1>4. ASSUME NEW x \in 0..total-1
      PROVE  \E i \in 1..r + 1 : x \in s[i].out..s[i].out + s[i].length - 1
  <2>1. CASE x >= 32 * r
    <3>1. r + 1 \in 1..r + 1
      OBVIOUS
    <3>2. s[r + 1].out = 32 * r /\ s[r + 1].length = total - 32 * r
      BY <1>2, <3>1
    <3>3. x \in s[r + 1].out..s[r + 1].out + s[r + 1].length - 1
      BY <2>1, <3>2
    <3> QED
      BY <3>1, <3>3
  <2>2. CASE x < 32 * r
    <3>1. PICK a \in Nat, b \in 0..31 : x = a * 32 + b
      <4>1. x \in Nat /\ 32 \in Nat \ {0}
        OBVIOUS
      <4>2. x \div 32 \in Nat /\ x % 32 \in 0..32-1 /\ x = (x \div 32) * 32 + (x % 32)
        BY <4>1, Division
      <4> QED
        BY <4>2
    <3>2. PICK i \in 1..r : i = a + 1
      BY <2>2, <3>1
    <3>3. s[i].out = 32 * a /\ s[i].length = 64 /\ i \in 1..r + 1
      BY <1>2, <3>2
    <3>4. x \in s[i].out..s[i].out + s[i].length - 1
      BY <3>1, <3>3
    <3> QED
      BY <3>3, <3>4
  <2> QED
    BY <2>1, <2>2
<1>5. UNION {s[i].out..s[i].out + s[i].length - 1 : i \in 1..Len(s)} = 0..total-1
  BY <1>1, <1>3, <1>4
<1>6. ASSUME NEW i \in 2..Len(s)
      PROVE  /\ s[i].length \in 1..HashBytes
             /\ s[i].in = s[i-1].out /\ s[i-1].length = HashBytes
             /\ s[i].out = s[i].in + Half
  <2>1. i \in 1..r + 1 /\ i - 1 \in 1..r + 1 /\ i > 1 /\ i - 1 # r + 1
    BY <1>1
  <2>4. s[i].out = 32 * (i - 1) /\ s[i].in = 32 * (i - 2)
    BY <1>2, <2>1
  <2>2. s[i].length \in 33..64
    <3>1. s[i].length = IF i = r + 1 THEN total - 32 * r ELSE 64
      BY <1>2, <2>1
    <3>2. CASE i = r + 1
      BY <3>1, <3>2
    <3>3. CASE i # r + 1
      BY <3>1, <3>3
    <3> QED
      BY <3>2, <3>3
  <2>3. s[i-1].out = 32 * ((i - 1) - 1) /\ s[i-1].length = 64
    BY <1>2, <2>1
  <2> QED
    BY <2>1, <2>2, <2>3, <2>4, HalfIs
<1> QED
  BY <1>5, <1>6 DEF Spanned

LEMMA ManySpans ==
  ASSUME NEW total \in Nat, total > HashBytes
  PROVE  Spanned(Spans(total), total)
<1> DEFINE m == (total + 31) \div 32
<1>1. m \in Nat /\ total + 31 - 32 * m \in 0..31
  <2>1. total + 31 \in Nat /\ 32 \in Nat \ {0}
    OBVIOUS
  <2>2. m \in Nat /\ (total + 31) % 32 \in 0..32-1 /\ total + 31 = m * 32 + ((total + 31) % 32)
    BY <2>1, Division
  <2> HIDE DEF m
  <2> QED
    BY <2>2
<1> HIDE DEF m
<1>2. PICK r \in Nat : r = m - 2 /\ r >= 1 /\ total - 32 * r \in 33..64
  <2>1. m >= 3
    BY <1>1, HalfIs
  <2> QED
    BY <1>1, <2>1
<1>3. ((total + Half - 1) \div Half) - 2 = r
  <2>1. total + Half - 1 = total + 31
    BY HalfIs
  <2> QED
    BY <1>2, <2>1, HalfIs DEF m
<1> DEFINE first == Span(0, 64, 0)
           end == Span(32 * r, total - 32 * r, 32 * (r - 1))
           Mid(i) == Span(32 * i, 64, 32 * (i - 1))
           f == [i \in 1..r-1 |-> Mid(i)]
           S == {first, end} \union {Mid(i) : i \in 1..r-1}
           s == <<first>> \o (f \o <<end>>)
<1>4. Spans(total) = s
  <2>1. Min({total, HashBytes}) = 64
    BY HalfIs, LesserOfTwo
  <2>2. ~(total <= HashBytes)
    BY HalfIs
  <2>3. Spans(total) = <<Span(0, Min({total, HashBytes}), 0)>>
          \o (IF total <= HashBytes THEN <<>>
              ELSE [i \in 1..r-1 |-> Span(Half * i, HashBytes, Half * (i - 1))]
                     \o <<Span(Half * r, total - Half * r, Half * (r - 1))>>)
    BY <1>3 DEF Spans
  <2>4. [i \in 1..r-1 |-> Span(Half * i, HashBytes, Half * (i - 1))] = f
    BY HalfIs
  <2>5. Span(Half * r, total - Half * r, Half * (r - 1)) = end
    BY HalfIs
  <2> HIDE DEF f, end
  <2> QED
    BY <2>1, <2>2, <2>3, <2>4, <2>5
<1>5. PICK k \in Nat : k = r - 1
  BY <1>2
<1>6. f \in [1..k -> S] /\ first \in S /\ end \in S /\ \A i \in 1..k : f[i] = Mid(i)
  BY <1>5
<1> HIDE DEF f, S, first, end, Mid
<1>7. f \in Seq(S) /\ Len(f) = k
  BY <1>6, SeqDef, LenProperties
<1>8. <<first>> \in Seq(S) /\ <<end>> \in Seq(S) /\ Len(<<first>>) = 1 /\ Len(<<end>>) = 1
      /\ <<first>>[1] = first /\ <<end>>[1] = end
  BY <1>6
<1>9. /\ f \o <<end>> \in Seq(S) /\ Len(f \o <<end>>) = k + 1
      /\ \A i \in 1..k + 1 : (f \o <<end>>)[i] = IF i <= k THEN f[i] ELSE end
  <2>1. /\ f \o <<end>> \in Seq(S) /\ Len(f \o <<end>>) = Len(f) + Len(<<end>>)
        /\ \A i \in 1..Len(f) + Len(<<end>>) :
             (f \o <<end>>)[i] = IF i <= Len(f) THEN f[i] ELSE <<end>>[i - Len(f)]
    BY <1>7, <1>8, ConcatProperties
  <2>2. \A i \in 1..k + 1 : ~(i <= k) => i - k = 1
    OBVIOUS
  <2> QED
    BY <1>7, <1>8, <2>1, <2>2
<1> DEFINE u == f \o <<end>>
<1> HIDE DEF u
<1>10. /\ s \in Seq(S) /\ Len(s) = k + 2
       /\ \A i \in 1..k + 2 : s[i] = IF i <= 1 THEN first ELSE u[i - 1]
  <2>0. u \in Seq(S) /\ Len(u) = k + 1
    BY <1>9 DEF u
  <2>1. /\ <<first>> \o u \in Seq(S) /\ Len(<<first>> \o u) = Len(<<first>>) + Len(u)
        /\ \A i \in 1..Len(<<first>>) + Len(u) :
             (<<first>> \o u)[i] = IF i <= Len(<<first>>) THEN <<first>>[i] ELSE u[i - Len(<<first>>)]
    BY <1>8, <2>0, ConcatProperties
  <2>2. Len(<<first>>) + Len(u) = k + 2 /\ \A i \in 1..k + 2 : i <= 1 => i = 1
    BY <1>8, <2>0
  <2>3. s = <<first>> \o u
    BY DEF u
  <2> HIDE DEF s
  <2> QED
    BY <1>8, <2>1, <2>2, <2>3
<1> HIDE DEF s
<1>11. ASSUME NEW i \in 1..r + 1
       PROVE  /\ s[i].out = 32 * (i - 1)
              /\ s[i].length = IF i = r + 1 THEN total - 32 * r ELSE 64
              /\ i > 1 => s[i].in = 32 * (i - 2)
  <2>0. i \in 1..k + 2
    BY <1>5
  <2>1. CASE i = 1
    <3>1. s[i] = first
      BY <1>10, <2>0, <2>1
    <3>2. first.out = 0 /\ first.length = 64
      BY SpanHas DEF first
    <3> QED
      BY <1>2, <2>1, <3>1, <3>2
  <2>2. CASE i = r + 1
    <3>1. i - 1 = k + 1 /\ i - 1 \in 1..k + 1 /\ ~(i <= 1) /\ ~(i - 1 <= k)
      BY <1>2, <1>5, <2>2
    <3>2. s[i] = u[i - 1] /\ u[i - 1] = end
      BY <1>9, <1>10, <2>0, <3>1 DEF u
    <3>3. end.out = 32 * r /\ end.length = total - 32 * r /\ end.in = 32 * (r - 1)
      BY SpanHas DEF end
    <3> QED
      BY <2>2, <3>2, <3>3
  <2>3. CASE i # 1 /\ i # r + 1
    <3>1. i - 1 \in 1..k /\ i - 1 \in 1..k + 1 /\ ~(i <= 1) /\ i - 1 <= k
      BY <1>5, <2>3
    <3>2. s[i] = u[i - 1] /\ u[i - 1] = Mid(i - 1)
      BY <1>6, <1>9, <1>10, <2>0, <3>1 DEF u
    <3>3. Mid(i - 1).out = 32 * (i - 1) /\ Mid(i - 1).length = 64 /\ Mid(i - 1).in = 32 * ((i - 1) - 1)
      BY SpanHas DEF Mid
    <3>4. (i - 1) - 1 = i - 2
      OBVIOUS
    <3> QED
      BY <2>3, <3>2, <3>3, <3>4
  <2> QED
    BY <2>1, <2>2, <2>3
<1>12. Chain(s, r, total)
  BY <1>5, <1>10, <1>11 DEF Chain
<1>13. Spanned(s, total)
  BY <1>2, <1>12, ChainSpans
<1> QED
  BY <1>4, <1>13

LEMMA SpansCover ==
  ASSUME NEW total \in Nat
  PROVE  Spanned(Spans(total), total)
BY OneSpan, ManySpans, HalfIs

LEMMA NoSpans == Spanned(<<>>, 0)
<1>1. \A i : i \notin 1..Len(<<>>) /\ i \notin 2..Len(<<>>)
  BY EmptySeq
<1>2. {<<>>[i].out..<<>>[i].out + <<>>[i].length - 1 : i \in 1..Len(<<>>)} = {}
  BY <1>1
<1>3. UNION {<<>>[i].out..<<>>[i].out + <<>>[i].length - 1 : i \in 1..Len(<<>>)} = {}
  BY <1>2
<1> QED
  BY <1>1, <1>3 DEF Spanned

-----------------------------------------------------------------------------
(* The invariant of the hash.                                              *)
HashInv ==
  /\ phase = "hashing" => todo \in Seq(Nat) /\ count \in Nat /\ Absorbed(ctx, count)
  /\ Spanned(digest.spans, digest.size)

LEMMA FreshAbsorbed == Absorbed(Fresh, 0)
<1>1. Zeros(BlockBytes) = Filled(0, 0)
  BY BlockShape DEF Zeros, Filled
<1>2. WholeBlocks(0) = <<>>
  <2>1. WholeBlocks(0) = [b \in 1..0 |-> WholeOne(b)]
    BY Zenon DEF WholeBlocks, WholeOne
  <2>2. 1..0 = {}
    OBVIOUS
  <2> QED
    BY <2>1, <2>2
<1>3. 0 * BlockBytes = 0
  BY BlockShape
<1>4. Offset(0) = <<0, 0>>
  <2>1. PICK z \in Nat : z = 0
    OBVIOUS
  <2>2. z \in 0..OffsetMax-1
    BY <2>1, BlockShape
  <2>3. (z * OffsetMax + z) \div OffsetMax = z /\ (z * OffsetMax + z) % OffsetMax = z
    BY <2>2, BlockShape, DivisionIs
  <2>4. z * OffsetMax + z = 0
    BY <2>1, BlockShape
  <2> QED
    BY <2>1, <2>3, <2>4 DEF Offset
<1>5. Fresh = Canon(0, 0)
  BY <1>1, <1>2, <1>3, <1>4 DEF Fresh, Canon, Context
<1>6. PICK z \in Nat : z = 0
  OBVIOUS
<1>7. z \in 0..BlockBytes /\ z = z * BlockBytes + z /\ Fresh = Canon(z, z)
  BY <1>3, <1>5, <1>6, BlockShape
<1>8. Absorbed(Fresh, z)
  BY <1>6, <1>7 DEF Absorbed
<1> QED
  BY <1>6, <1>8

LEMMA HashInvInit == Init => HashInv
<1> SUFFICES ASSUME Init PROVE HashInv
  OBVIOUS
<1>1. PICK p \in Passphrases, d \in Domains, t \in Tokens : todo = Arguments(p, d, t)
  BY DEF Init
<1>2. p \in Nat /\ d \in Nat /\ t \in Nat
  BY StringsAssumption
<1>3. todo \in Seq(Nat)
  BY <1>1, <1>2 DEF Arguments, Salt
<1>4. ctx = Fresh /\ count = 0
  BY DEF Init
<1>5. digest.spans = <<>> /\ digest.size = 0
  BY DEF Init
<1> QED
  BY <1>3, <1>4, <1>5, FreshAbsorbed, NoSpans DEF HashInv

LEMMA HashInvStep == HashInv /\ [Next]_vars => HashInv'
<1> SUFFICES ASSUME HashInv, [Next]_vars PROVE HashInv'
  OBVIOUS
<1>1. CASE Absorb
  <2>1. phase = "hashing" /\ phase' = phase /\ digest' = digest /\ todo # <<>>
    BY <1>1 DEF Absorb
  <2>2. todo \in Seq(Nat) /\ count \in Nat /\ Absorbed(ctx, count)
    BY <2>1 DEF HashInv
  <2>3. Head(todo) \in Nat /\ Tail(todo) \in Seq(Nat)
    BY <2>1, <2>2, HeadTailProperties
  <2>4. PICK k \in Nat : k = Head(todo)
    BY <2>3
  <2>5. ctx' = Updated(ctx, Run(count, k))
    BY <1>1, <2>4 DEF Absorb, Run
  <2>6. Absorbed(Updated(ctx, Run(count, k)), count + k)
    BY <2>2, UpdatedMore
  <2>7. count' = count + k /\ todo' = Tail(todo)
    BY <1>1, <2>4 DEF Absorb
  <2>8. Absorbed(ctx', count')
    BY <2>5, <2>6, <2>7
  <2>9. count' \in Nat /\ todo' \in Seq(Nat)
    BY <2>2, <2>3, <2>7
  <2>10. Spanned(digest.spans, digest.size)'
    <3>1. Spanned(digest.spans, digest.size)
      BY DEF HashInv
    <3> QED
      BY <2>1, <3>1
  <2>11. (phase = "hashing" => todo \in Seq(Nat) /\ count \in Nat /\ Absorbed(ctx, count))'
    BY <2>8, <2>9
  <2> QED
    BY <2>10, <2>11 DEF HashInv
<1>2. CASE FinishHash
  <2>1. phase' = "filling" /\ digest'.spans = Spans(BlockArea) /\ digest'.size = BlockArea
    BY <1>2 DEF FinishHash
  <2>2. PICK n \in Nat : n = BlockArea
    BY DEF BlockArea
  <2>3. Spanned(Spans(n), n)
    BY SpansCover
  <2>4. Spanned(digest.spans, digest.size)'
    BY <2>1, <2>2, <2>3
  <2> QED
    BY <2>1, <2>4 DEF HashInv
<1>3. CASE Open
  <2>1. phase' = "streaming" /\ digest'.spans = Spans(KeySize) /\ digest'.size = KeySize
    BY <1>3 DEF Open
  <2>2. PICK n \in Nat : n = KeySize
    BY DEF KeySize
  <2>3. Spanned(Spans(n), n)
    BY SpansCover
  <2>4. Spanned(digest.spans, digest.size)'
    BY <2>1, <2>2, <2>3
  <2> QED
    BY <2>1, <2>4 DEF HashInv
<1>4. CASE FillStep \/ StreamStep \/ UNCHANGED vars
  <2>1. phase' = phase /\ digest' = digest /\ todo' = todo /\ ctx' = ctx /\ count' = count
    BY <1>4 DEF FillStep, StreamStep, vars, hashing
  <2>2. (phase = "hashing" => todo \in Seq(Nat) /\ count \in Nat /\ Absorbed(ctx, count))'
    <3>1. (phase = "hashing" => todo \in Seq(Nat) /\ count \in Nat /\ Absorbed(ctx, count))
      BY DEF HashInv
    <3> QED
      BY <2>1, <3>1
  <2>3. Spanned(digest.spans, digest.size)'
    <3>1. Spanned(digest.spans, digest.size)
      BY DEF HashInv
    <3> QED
      BY <2>1, <3>1
  <2> QED
    BY <2>2, <2>3 DEF HashInv
<1> QED
  BY <1>1, <1>2, <1>3, <1>4 DEF Next

LEMMA HashInvHolds == HashInv => HashesWhole
<1> SUFFICES ASSUME HashInv PROVE HashesWhole
  OBVIOUS
<1>1. AbsorbsInput
  <2> SUFFICES ASSUME phase = "hashing" PROVE Final(ctx) = Cut(count)
    BY DEF AbsorbsInput
  <2>1. count \in Nat /\ Absorbed(ctx, count)
    BY DEF HashInv
  <2> QED
    BY <2>1, FinalCuts
<1>2. DigestWhole
  <2>1. Spanned(digest.spans, digest.size)
    BY DEF HashInv
  <2> QED
    BY <2>1, Zenon DEF Spanned, DigestWhole
<1> QED
  BY <1>1, <1>2 DEF HashesWhole

\* However a message is cut into pieces, its hash is made of the bytes it has, in blocks
\* with the offsets counted, the last filled up; and a digest of any size is written
\* completely, from hashes that were complete (passgen_blake2b_update, extended_hash).
THEOREM DigestsAreWhole == Spec => []HashesWhole
<1>1. Spec => []HashInv
  BY HashInvInit, HashInvStep, PTL DEF Spec
<1> QED
  BY <1>1, HashInvHolds, PTL
=============================================================================
