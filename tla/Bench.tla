-------------------------------- MODULE Bench --------------------------------
(***************************************************************************)
(* src/bench: passgen-bench, from its options to its exit, and what each   *)
(* benchmark allocates and frees.  A benchmark that consumes its input     *)
(* hands it back from every iteration, to be freed by cleanup, so that     *)
(* every iteration needs a fresh one; any other keeps one input, which     *)
(* release frees.  Those that allocate alike, the random sources of one    *)
(* kind of draw, are one benchmark here.                                   *)
(***************************************************************************)
EXTENDS Integers, FiniteSets, Sequences

CONSTANTS
  MaxIter,      \* bound: iterations that are asked for
  MaxTime,      \* bound: ticks of the clock that are asked for
  MaxEnabled    \* bound: so many benchmarks are enabled, if not all

ASSUME BoundsAssumption == MaxIter \in Nat \ {0} /\ MaxTime \in Nat

VARIABLES
  stage,            \* "options", "choosing", "warming", "measuring", "ended" or "crashed"
  mode, iter, time, \* options->mode, iter and time
  enabled,          \* options->enabled, or the one that options->oneshot names
  at,               \* b: the benchmark that runs
  data,             \* its input: the number of an allocation, zero for NULL
  used,             \* whether the input was iterated on
  live,             \* all that is allocated: the benchmark, the input, which part
  done,             \* iterations, up to the ones that are asked for
  elapsed, after,   \* the clock, and after, both less start
  misused,          \* an input is used after it was freed, twice, or not initialized
  failed            \* EXIT_FAILURE

settings == <<mode, iter, time>>
benchVars == <<stage, settings, enabled, at, data, used, live, done, elapsed, after, misused, failed>>

-----------------------------------------------------------------------------
\* A benchmark: what prepare allocates, what iterate adds to it, and what cleanup
\* frees, if the input is consumed, or else release.
Consumes(prepare, iterate) ==
  [consumes |-> TRUE, prepare |-> prepare, iterate |-> iterate, free |-> prepare \union iterate]

Keeps(prepare, free) ==
  [consumes |-> FALSE, prepare |-> prepare, iterate |-> {}, free |-> free]

Dummy == Keeps({}, {})

\* The stack's bins are made by pushes, whichever function pushes.
StackPush == Consumes({"struct"}, {"bins"})
StackPop == Consumes({"struct", "bins"}, {})

HashmapInsert == Consumes({"struct", "items"}, {"table"})
HashmapLookup == Consumes({"struct", "items", "table"}, {})

TokenParse == Keeps({"struct"}, {"struct"})

PassgenParse == Consumes({"struct", "input"}, {"pattern"})

\* Its release frees the output alone.
Utf8Decode == Keeps({"struct", "output"}, {"output"})

\* Those of a source: four draw integers, one reads into a buffer.
Random(context) ==
  LET reads == context \union {"struct", "buffer"}
      draws == context \union {"struct"}
  IN  <<Keeps(draws, draws), Keeps(reads, reads)>>

RandomSystem == Random({})
RandomXorshift == Random({"context"})
RandomZero == Random({})
RandomChacha20 == Random({"context"})

\* The list.
Benches ==
  <<Dummy, StackPush, StackPop>> \o RandomSystem \o RandomXorshift \o RandomZero
  \o RandomChacha20 \o <<HashmapInsert, HashmapLookup, TokenParse, PassgenParse, Utf8Decode>>

Bench == Benches[at]

Part(input, what) == [bench |-> at, input |-> input, what |-> what]

Parts(input, whats) == {Part(input, what) : what \in whats}

\* malloc gives a number that nothing has, nor the pointer that is left of an input.
Fresh == CHOOSE n \in 1..Cardinality(live) + 2 :
           n # data /\ \A part \in live : part.bench = at => part.input # n

\* An iteration on an input, and the cleanup of what it returns.
Iterated(memory, input) ==
  LET full == memory \union Parts(input, Bench.iterate) IN
  IF Bench.consumes THEN full \ Parts(input, Bench.free) ELSE full

\* Whether the input may be iterated on.
Sound(memory, input, again) ==
  /\ Parts(input, Bench.prepare) \subseteq memory
  /\ Bench.consumes => ~again

-----------------------------------------------------------------------------
BenchInit ==
  /\ stage = "options"
  /\ mode = "bench" /\ iter = MaxIter /\ time \in 0..MaxTime
  /\ enabled = {} /\ at = 1
  /\ data = 0 /\ used = FALSE /\ live = {}
  /\ done = 0 /\ elapsed = 0 /\ after = -1
  /\ misused = FALSE /\ failed = FALSE

unbenched == <<enabled, at, data, used, live, done, elapsed, after, misused>>

Exit(failure) ==
  /\ stage' = "ended" /\ failed' = failure
  /\ UNCHANGED <<settings, unbenched>>

\* -i; anything but a number is zero to atoi.
GiveIterations(n) ==
  /\ stage = "options"
  /\ IF n = 0 THEN Exit(TRUE)
     ELSE /\ iter' = n
          /\ UNCHANGED <<stage, mode, time, unbenched, failed>>

\* -t, with a unit that parse_time knows.
GiveTime(t) ==
  /\ stage = "options"
  /\ time' = t
  /\ UNCHANGED <<stage, mode, iter, unbenched, failed>>

\* -s, -c, -l; the last one counts, and so does the last name.
GiveMode(m) ==
  /\ stage = "options"
  /\ mode' = m
  /\ UNCHANGED <<stage, iter, time, unbenched, failed>>

\* Options that end the program: -h, an unknown one, or a time with no unit.
GiveEnd ==
  /\ stage = "options"
  /\ \E failure \in BOOLEAN : Exit(failure)

\* -o without an equals sign: the result of strchr is not checked.
GiveOption ==
  /\ stage = "options"
  /\ stage' = "crashed"
  /\ UNCHANGED <<settings, unbenched, failed>>

\* The benchmarks are chosen by parts of their names, or all, or the one of -s.
EndOfOptions ==
  /\ stage = "options"
  /\ \/ /\ mode = "bench"
        /\ enabled' \in {bs \in SUBSET (1..Len(Benches)) :
                           Cardinality(bs) <= MaxEnabled \/ bs = 1..Len(Benches)}
        /\ stage' = "choosing"
        /\ UNCHANGED failed
     \/ /\ mode = "oneshot"
        /\ enabled' \in {{b} : b \in 1..Len(Benches)} /\ stage' = "choosing"
        /\ UNCHANGED failed
     \/ /\ mode = "oneshot"
        /\ stage' = "ended" /\ failed' = TRUE
        /\ UNCHANGED enabled
     \/ /\ mode \in {"valgrind", "list"}
        /\ stage' = "ended"
        /\ UNCHANGED <<enabled, failed>>
  /\ UNCHANGED <<settings, at, data, used, live, done, elapsed, after, misused>>

Skip ==
  /\ stage = "choosing" /\ at \in 1..Len(Benches) \ enabled
  /\ at' = at + 1
  /\ UNCHANGED <<stage, settings, enabled, data, used, live, done, elapsed, after, misused, failed>>

\* In the mode for one there is no warmup.
Prepare ==
  /\ stage = "choosing" /\ at \in enabled
  /\ IF Bench.prepare = {} THEN data' = 0 /\ UNCHANGED live
     ELSE data' = Fresh /\ live' = live \union Parts(Fresh, Bench.prepare)
  /\ used' = FALSE
  /\ stage' = IF mode = "bench" THEN "warming" ELSE "measuring"
  /\ done' = 0 /\ elapsed' = 0 /\ after' = -1
  /\ UNCHANGED <<settings, enabled, at, misused, failed>>

Warm ==
  /\ stage = "warming"
  /\ misused' = (misused \/ ~Sound(live, data, used))
  /\ live' = Iterated(live, data) /\ used' = TRUE
  /\ stage' = "measuring"
  /\ UNCHANGED <<settings, enabled, at, data, done, elapsed, after, failed>>

\* The condition of the loop; the clock is not looked at in the mode for one.
GoesOn == done < iter \/ (mode = "bench" /\ after < time)

\* Mutant: every iteration gets a fresh one.
InputAlways == IF Bench.prepare = {} THEN data ELSE Fresh

\* The input of the next iteration.
Input == IF Bench.consumes THEN Fresh ELSE data

\* Mutant: the time of the iteration alone.
TakenAlone == 0

\* How long the benchmark has run.
Taken == elapsed

Measure ==
  /\ stage = "measuring" /\ GoesOn
  /\ LET memory == IF Input = data THEN live ELSE live \union Parts(Input, Bench.prepare)
         again == Input = data /\ used
     IN  /\ misused' = (misused \/ ~Sound(memory, Input, again) \/ (done = iter /\ after = -1))
         /\ live' = Iterated(memory, Input)
  /\ data' = Input /\ used' = TRUE
  /\ done' = IF done = iter THEN iter ELSE done + 1
  /\ after' = Taken
  /\ UNCHANGED <<stage, settings, enabled, at, elapsed, failed>>

\* The processor's clock, while the program runs.
Tick ==
  /\ stage = "measuring" /\ elapsed < time
  /\ elapsed' = elapsed + 1
  /\ UNCHANGED <<stage, settings, enabled, at, data, used, live, done, after, misused, failed>>

\* Mutant: the input of every benchmark is released.
ReleasesAll == data # 0

\* Whether there is an input to release.
Releases == data # 0 /\ ~Bench.consumes

Release ==
  /\ stage = "measuring" /\ ~GoesOn
  /\ IF Releases
       THEN /\ live' = live \ Parts(data, Bench.free)
            /\ misused' = (misused \/ ~(Parts(data, Bench.free) \subseteq live))
       ELSE UNCHANGED <<live, misused>>
  /\ data' = 0 /\ used' = FALSE
  /\ stage' = "choosing" /\ at' = at + 1
  /\ UNCHANGED <<settings, enabled, done, elapsed, after, failed>>

Finish ==
  /\ stage = "choosing" /\ at > Len(Benches)
  /\ stage' = "ended"
  /\ UNCHANGED <<settings, unbenched, failed>>

BenchNext ==
  \/ \E n \in 0..MaxIter : GiveIterations(n)
  \/ \E t \in 0..MaxTime : GiveTime(t)
  \/ \E m \in {"oneshot", "valgrind", "list"} : GiveMode(m)
  \/ GiveEnd \/ GiveOption \/ EndOfOptions
  \/ Skip \/ Prepare \/ Warm \/ Measure \/ Tick \/ Release \/ Finish

\* There are finitely many arguments, and running takes time.
Fairness == WF_benchVars(EndOfOptions) /\ WF_benchVars(Tick)
            /\ WF_benchVars(Skip \/ Prepare \/ Warm \/ Measure \/ Release \/ Finish)

BenchSpec == BenchInit /\ [][BenchNext]_benchVars /\ Fairness

-----------------------------------------------------------------------------
\* No input is used after it was freed, nor consumed twice, nor freed twice, and the
\* loop never looks at a clock it has not read: what `consumes` of bench.h asks of the
\* loops that prepare, iterate and release.
NothingMisused == ~misused

\* All that is allocated of inputs belongs to the one at hand, but for two leaks: bench/utf8.c
\* keeps the struct of its input, and the mode for one prepares an input before its
\* loop that a consuming benchmark never uses.
LeaksNamed ==
  \A part \in live :
    \/ part.bench = at /\ part.input = data
    \/ Benches[part.bench] = Utf8Decode /\ part.what = "struct"
    \/ mode = "oneshot" /\ Benches[part.bench].consumes
         /\ part.what \in Benches[part.bench].prepare
         /\ \A other \in live : other.bench = part.bench => other.input \in {part.input, data}

\* The program ends, or crashes on an option, whatever it is asked to measure.
MeasurementEnds == <>(stage \in {"ended", "crashed"})
=============================================================================
