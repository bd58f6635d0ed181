------------------------------- MODULE Argon2 -------------------------------
(***************************************************************************)
(* passgen_argon2 of src/monocypher.c, which fills a work area of blocks   *)
(* over and over: lanes of four slices each, slice by slice.  A block is   *)
(* made of the one before it and of a reference, which is picked from a    *)
(* window of blocks by a seed: the data of the block before or, in         *)
(* constant time, an index that does not depend on data.                   *)
(*                                                                         *)
(* A block is known by its lane and its place in it, and what it holds by  *)
(* how often it was filled.                                                *)
(***************************************************************************)
EXTENDS Integers

CONSTANTS
  Configs,      \* values of passgen_argon2_config
  WordMax,      \* a u32 holds 0..WordMax-1
  Refresh       \* words of an index block: 128

\* monocypher.h wants eight blocks for every lane.
ASSUME ConfigsAssumption ==
  \A c \in Configs :
    /\ c.algorithm \in {"argon2d", "argon2i", "argon2id"}
    /\ c.nb_lanes \in Nat \ {0} /\ c.nb_passes \in Nat \ {0}
    /\ c.nb_blocks \in Nat /\ c.nb_blocks >= 8 * c.nb_lanes
    /\ c.nb_blocks < WordMax
ASSUME RefreshAssumption == WordMax \in Nat \ {0} /\ Refresh \in Nat /\ Refresh > 2

VARIABLES
  config,           \* the configuration
  stage,            \* "start", "filling" or "filled"
  pass, slice, segment, block,    \* of the loops: what is filled next
  constantTime,     \* constant_time
  index,            \* what index_block was made of
  indexCtr,         \* index_ctr
  filled            \* how often every block was filled

loops == <<pass, slice, segment, block>>
fillVars == <<config, stage, loops, constantTime, index, indexCtr, filled>>

-----------------------------------------------------------------------------
SegmentSize == (config.nb_blocks \div config.nb_lanes) \div 4

LaneSize == SegmentSize * 4

Lanes == 0..config.nb_lanes-1

\* blocks, rounded down to whole segments
Area == Lanes \X (0..LaneSize-1)

NoIndex == [pass |-> 0, segment |-> 0, slice |-> 0, ctr |-> 0]

Current == <<segment, slice * SegmentSize + block>>

Previous ==
  IF block = 0 /\ slice = 0 THEN <<segment, LaneSize - 1>>
  ELSE <<segment, slice * SegmentSize + block - 1>>

\* The first two blocks of a lane were filled before the loops.
PassOffset(p, s) == IF p = 0 /\ s = 0 THEN 2 ELSE 0

-----------------------------------------------------------------------------
(***************************************************************************)
(* The reference that a seed picks: the upper half of its bits picks the   *)
(* lane, the lower half a block of the window.                             *)
(***************************************************************************)
Seeds == (0..WordMax-1) \X (0..WordMax-1)

ReferenceLane(seed) ==
  IF pass = 0 /\ slice = 0 THEN segment ELSE seed[1] % config.nb_lanes

WindowStart == IF pass = 0 THEN 0 ELSE ((slice + 1) % 4) * SegmentSize

\* Mutant: the blocks of this segment are there in any lane.
WindowSizeShared(lane) ==
  LET segments == IF pass = 0 THEN slice ELSE 3 IN
  (segments * SegmentSize + block - 1) % WordMax

\* The last three slices, if they exist yet, and what is there of this segment: but never
\* the block before this one.
WindowSize(lane) ==
  LET segments == IF pass = 0 THEN slice ELSE 3 IN
  (segments * SegmentSize
     + (IF lane = segment THEN block - 1 ELSE IF block = 0 THEN WordMax - 1 ELSE 0)) % WordMax

Reference(seed) ==
  LET lane == ReferenceLane(seed)
      x == (seed[2] * seed[2]) \div WordMax
      y == (WindowSize(lane) * x) \div WordMax
      z == (WindowSize(lane) - 1) - y
  IN  <<lane, (WindowStart + z) % LaneSize>>

-----------------------------------------------------------------------------
\* The call, with any configuration.
FillInit ==
  /\ config \in Configs
  /\ stage = "start"
  /\ pass = 0 /\ slice = 0 /\ segment = 0 /\ block = PassOffset(0, 0)
  /\ constantTime = (config.algorithm # "argon2d")
  /\ index = NoIndex /\ indexCtr = 1
  /\ filled = [b \in Area |-> 0]

\* extended_hash fills the first two blocks of each lane.
FillFirst ==
  /\ stage = "start"
  /\ stage' = "filling"
  /\ filled' = [b \in Area |-> IF b[2] < 2 THEN 1 ELSE 0]
  /\ UNCHANGED <<config, loops, constantTime, index, indexCtr>>

\* One iteration of the innermost loop.
FillBlock ==
  /\ stage = "filling" /\ block < SegmentSize
  /\ LET renewed == constantTime /\ (block = PassOffset(pass, slice) \/ block % Refresh = 0) IN
     /\ index' = IF renewed THEN [pass |-> pass, segment |-> segment, slice |-> slice, ctr |-> indexCtr]
                 ELSE index
     /\ indexCtr' = IF renewed THEN indexCtr + 1 ELSE indexCtr
  /\ filled' = [filled EXCEPT ![Current] = @ + 1]
  /\ block' = block + 1
  /\ UNCHANGED <<config, stage, pass, slice, segment, constantTime>>

\* A segment is done: go on in the next lane.
NextSegment ==
  /\ stage = "filling" /\ block >= SegmentSize
  /\ segment + 1 < config.nb_lanes
  /\ segment' = segment + 1
  /\ block' = PassOffset(pass, slice)
  /\ index' = NoIndex /\ indexCtr' = 1
  /\ UNCHANGED <<config, stage, pass, slice, constantTime, filled>>

\* Mutant: constant time comes back with every pass.
NextSliceBack ==
  /\ stage = "filling" /\ block >= SegmentSize
  /\ segment + 1 = config.nb_lanes
  /\ segment' = 0 /\ slice' = (slice + 1) % 4
  /\ pass' = IF slice = 3 THEN pass + 1 ELSE pass
  /\ stage' = IF pass' < config.nb_passes THEN stage ELSE "filled"
  /\ block' = PassOffset(pass', slice')
  /\ constantTime' =
       IF config.algorithm = "argon2id" THEN slice' < 2 ELSE constantTime
  /\ index' = NoIndex /\ indexCtr' = 1
  /\ UNCHANGED <<config, filled>>

\* A slice is done in all lanes: the next one, or the next pass.
NextSlice ==
  /\ stage = "filling" /\ block >= SegmentSize
  /\ segment + 1 = config.nb_lanes
  /\ segment' = 0 /\ slice' = (slice + 1) % 4
  /\ pass' = IF slice = 3 THEN pass + 1 ELSE pass
  /\ stage' = IF pass' < config.nb_passes THEN stage ELSE "filled"
  /\ block' = PassOffset(pass', slice')
  /\ constantTime' =
       IF slice' = 2 /\ config.algorithm = "argon2id" THEN FALSE ELSE constantTime
  /\ index' = NoIndex /\ indexCtr' = 1
  /\ UNCHANGED <<config, filled>>

FillNext == FillFirst \/ FillBlock \/ NextSegment \/ NextSlice

FillSpec == FillInit /\ [][FillNext]_fillVars

-----------------------------------------------------------------------------
Filling == stage = "filling" /\ block < SegmentSize

SliceOf(b) == b[2] \div SegmentSize

\* How often a block was filled when the next one is: those of slices that are done once
\* more than those of slices to come; and in this slice, lane by lane and block by block.
InOrder ==
  stage = "filling" =>
    \A b \in Area :
      LET done == \/ SliceOf(b) < slice
                  \/ SliceOf(b) = slice /\ b[1] < segment
                  \/ SliceOf(b) = slice /\ b[1] = segment /\ b[2] < slice * SegmentSize + block
                  \/ pass = 0 /\ b[2] < 2
      IN  filled[b] = IF done THEN pass + 1 ELSE pass

\* Whatever the seed, the reference is a block that was filled, neither the one that is
\* being filled nor the one before it, which is mixed in anyway; and of the slice at hand
\* it is a block of this lane that this pass has filled: what is to be filled in this slice
\* is not read, so the segments of a slice do not depend on each other (passgen_argon2:
\* "each iteration of the following loop may be performed in a separate thread").
ReferencesReady ==
  Filling =>
    /\ filled[Previous] > 0
    /\ \A seed \in Seeds :
         LET r == Reference(seed) IN
         /\ r \in Area /\ filled[r] > 0
         /\ r # Current /\ r # Previous
         /\ SliceOf(r) = slice => r[1] = segment /\ r[2] < Current[2]

\* At the end, every block was filled in every pass.
AllFilled == stage = "filled" => \A b \in Area : filled[b] = config.nb_passes

\* Argon2i never looks at data to pick a reference, Argon2id only after half of the first
\* pass, Argon2d always; and an index block serves as many blocks as it has words.
IndexedAsChosen ==
  stage = "filling" =>
    /\ constantTime = \/ config.algorithm = "argon2i"
                      \/ config.algorithm = "argon2id" /\ pass = 0 /\ slice < 2
    /\ constantTime /\ block > PassOffset(pass, slice) =>
         index = [pass |-> pass, segment |-> segment, slice |-> slice,
                  ctr |-> 1 + (block - 1) \div Refresh]
=============================================================================
