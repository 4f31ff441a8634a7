--------------------------- MODULE BenchmarkProofs ---------------------------
(***************************************************************************)
(* The benchmark asks only for frames that are there, and times each       *)
(* iteration once, for every recording, iteration count and batch size.    *)
(***************************************************************************)
EXTENDS Benchmark, FrameLocatorProofs

Measuring == {"warmup", "warming", "batch", "timing", "timed"}

(* The arguments are those of a generated recording, the counters do not   *)
(* go below zero, and the frame that is searched is one of the recording.  *)
ArgumentsInv ==
    /\ \E r \in Recordings : file = r.file /\ frame_count = r.frames
    /\ iterations \in Iterations
    /\ stage \in Measuring \cup {"write", "open", "measure", "ended"}
    /\ i \in Nat /\ begin \in Nat /\ end \in Nat
    /\ stage \in Measuring => frame_count # 0 /\ iterations # 0
    /\ stage \in {"warming", "timed"} => target \in 0 .. frame_count - 1
    /\ measured = "false" =>
          \/ frame_count = 0 \/ iterations = 0
          \/ pc = "done" /\ out = << >> /\ target \in 0 .. frame_count - 1
    /\ measured \in {"none", "true", "false"}
    /\ measured # "none" => stage = "ended"

-----------------------------------------------------------------------------
(* What is asked for is a frame of the recording, however the product      *)
(* wraps.                                                                  *)
LEMMA TargetInRecording ==
    ASSUME ArgumentsInv, frame_count # 0, NEW n \in Nat
    PROVE  TargetFrame(n) \in 0 .. frame_count - 1 /\ TargetFrame(n) \in Targets
<1>1. PICK r \in Recordings : frame_count = r.frames
  BY Zenon DEF ArgumentsInv
<1>2. frame_count \in Nat /\ 0 .. frame_count - 1 \subseteq Targets
  BY <1>1, BenchmarkAssumption, LocatorAssumption
<1>3. n * Multiplier \in Nat /\ CounterMax + 1 \in Nat \ {0}
  BY BenchmarkAssumption
<1>4. (n * Multiplier) % (CounterMax + 1) \in Nat
  BY <1>3
<1>5. TargetFrame(n) \in 0 .. frame_count - 1
  BY <1>2, <1>4 DEF TargetFrame
<1> QED
  BY <1>2, <1>5

(* The benchmark starts the search as any caller does... *)
LEMMA BenchStarts == BenchInit => Init /\ ArgumentsInv
  BY DEF BenchInit, ArgumentsInv, Init, Measuring

(* ... and a call, or a step, of the search is one of FrameLocator. *)
LEMMA CallsAreAllowed ==
    ASSUME ArgumentsInv, frame_count # 0, NEW n \in Nat, LocateFrame(TargetFrame(n))
    PROVE  Next /\ UNCHANGED file /\ target' \in 0 .. frame_count - 1
<1>1. TargetFrame(n) \in 0 .. frame_count - 1 /\ TargetFrame(n) \in Targets
  BY TargetInRecording
<1>2. UNCHANGED file /\ target' = TargetFrame(n)
  BY DEF LocateFrame, Call, CallRejected
<1> QED
  BY <1>1, <1>2, Zenon DEF LocateFrame, Next

LEMMA StepsKeepTheQuestion == Step => UNCHANGED <<file, target>>
  BY DEF Step, ProbeHit, ProbeRight, ProbeLeft, GiveUp, LinearHit, LinearStep, LinearMiss

(* Each step of the benchmark is a step of the search, or leaves it alone. *)
LEMMA BenchStepIsNext ==
    ASSUME ArgumentsInv, [BenchStep]_benchVars PROVE [Next]_vars
<1>1. CASE WarmupCall \/ TimedCall
  <2>1. frame_count # 0 /\ i \in Nat /\ LocateFrame(TargetFrame(i))
    BY <1>1 DEF WarmupCall, TimedCall, ArgumentsInv, Measuring
  <2> QED
    BY <2>1, CallsAreAllowed
<1>2. CASE SearchStep
  BY <1>2 DEF SearchStep, Next
<1>3. CASE UNCHANGED benchVars
  BY <1>3 DEF benchVars
<1>4. CASE \/ Prepared \/ NotPrepared \/ MeasureRefused \/ StartWarmup \/ EndWarmup
           \/ FrameFound \/ FrameNotFound \/ StartBatch \/ EndBatch \/ EndMeasure
  BY <1>4 DEF Prepared, NotPrepared, MeasureRefused, StartWarmup, EndWarmup,
       FrameFound, FrameNotFound, StartBatch, EndBatch, EndMeasure
<1> QED
  BY <1>1, <1>2, <1>3, <1>4 DEF BenchStep

LEMMA ArgumentsStep ==
    ASSUME ArgumentsInv, [BenchStep]_benchVars PROVE ArgumentsInv'
<1>0. /\ CounterMax \in Nat /\ BatchSize \in Nat \ {0} /\ iterations \in Nat
      /\ i \in Nat /\ begin \in Nat /\ end \in Nat
  BY BenchmarkAssumption DEF ArgumentsInv
<1>1. CASE WarmupCall \/ TimedCall
  <2>1. /\ frame_count # 0 /\ i \in Nat /\ LocateFrame(TargetFrame(i))
        /\ measured = "none"
        /\ stage' \in {"warming", "timed"}
        /\ UNCHANGED <<frame_count, iterations, i, begin, end, measured>>
    BY <1>1 DEF WarmupCall, TimedCall, ArgumentsInv, Measuring, Arguments, counters
  <2>2. UNCHANGED file /\ target' \in 0 .. frame_count - 1
    BY <2>1, CallsAreAllowed
  <2> QED
    BY <1>1, <2>1, <2>2 DEF ArgumentsInv, Measuring, WarmupCall, TimedCall
<1>2. CASE SearchStep
  <2>1. UNCHANGED <<file, target, frame_count, iterations, stage, i, begin, end, measured>>
    BY <1>2, StepsKeepTheQuestion DEF SearchStep, Arguments, counters
  <2>2. measured = "none"
    BY <1>2 DEF SearchStep, ArgumentsInv
  <2> QED
    BY <2>1, <2>2 DEF ArgumentsInv
<1>3. CASE UNCHANGED benchVars
  BY <1>3 DEF benchVars, vars, counters, ArgumentsInv
<1>4. CASE Prepared \/ NotPrepared
  BY <1>4 DEF Prepared, NotPrepared, ArgumentsInv, Arguments, counters, vars, Measuring
<1>5. CASE MeasureRefused \/ FrameNotFound \/ EndMeasure
  BY <1>5 DEF MeasureRefused, FrameNotFound, EndMeasure, MeasureReturns, ArgumentsInv,
       Arguments, counters, vars, Measuring
<1>6. CASE StartWarmup \/ EndWarmup
  BY <1>6 DEF StartWarmup, EndWarmup, ArgumentsInv, Arguments, counters, vars, Measuring
<1>7. CASE FrameFound
  BY <1>7 DEF FrameFound, ArgumentsInv, Arguments, vars, Measuring
<1>8. CASE StartBatch
  <2>1. end' \in Nat
    BY <1>0, <1>8 DEF StartBatch, BatchEnd
  <2> QED
    BY <1>8, <2>1 DEF StartBatch, ArgumentsInv, Arguments, vars, Measuring
<1>9. CASE EndBatch
  <2>1. begin' \in Nat
    BY <1>0, <1>9 DEF EndBatch
  <2> QED
    BY <1>9, <2>1 DEF EndBatch, ArgumentsInv, Arguments, vars, Measuring
<1> QED
  BY <1>1, <1>2, <1>3, <1>4, <1>5, <1>6, <1>7, <1>8, <1>9 DEF BenchStep

(* The benchmark calls the search the way FrameLocator allows. *)
THEOREM BenchmarkSearches == BenchSpec => Spec /\ []ArgumentsInv
<1>1. BenchInit => Init /\ ArgumentsInv
  BY BenchStarts
<1>2. ArgumentsInv /\ [BenchStep]_benchVars => ArgumentsInv' /\ [Next]_vars
  BY ArgumentsStep, BenchStepIsNext
<1> QED
  BY <1>1, <1>2, PTL DEF BenchSpec, Spec

(* A complete recording is never said to lack a frame: what is asked for   *)
(* is there, and by NotFoundIsTrue the search does not miss it.            *)
THEOREM CompleteRecordingsPass == BenchSpec => []FailsOnlyWhenIncomplete
<1>1. ArgumentsInv /\ NotFoundMeansAbsent => FailsOnlyWhenIncomplete
  <2> SUFFICES ASSUME ArgumentsInv, NotFoundMeansAbsent, measured = "false", iterations # 0,
                      Complete(file, frame_count), frame_count # 0
               PROVE  FALSE
    BY DEF FailsOnlyWhenIncomplete
  <2>1. pc = "done" /\ out = << >> /\ target \in 0 .. frame_count - 1
    BY DEF ArgumentsInv
  <2>2. Regular(file) /\ file.header
    BY DEF Complete
  <2>3. PICK o \in ReadablePrefix(file) \cap VideoGroups(file) :
           \E k \in VideoBlocks(file, o) : file.groups[o].frame + Rank(file, o, k) = target
    BY <2>1 DEF Complete
  <2> QED
    BY <2>1, <2>2, <2>3 DEF NotFoundMeansAbsent
<1> QED
  BY <1>1, BenchmarkSearches, NotFoundIsTrue, PTL

-----------------------------------------------------------------------------
(* The batches timed so far: full ones, the last perhaps shorter, and the  *)
(* one at hand begins where they end.                                      *)
BatchesInv ==
    CountersSuffice =>
        /\ samples \in Seq(Nat)
        /\ \A k \in 1 .. Len(samples) :
              /\ (k - 1) * BatchSize < iterations
              /\ samples[k] = IF iterations - (k - 1) * BatchSize < BatchSize
                              THEN iterations - (k - 1) * BatchSize ELSE BatchSize
        /\ stage \in {"batch", "timing", "timed"} => begin = Len(samples) * BatchSize
        /\ stage \in {"timing", "timed"} => begin < iterations /\ end = BatchEnd
        /\ stage \in {"write", "open", "measure", "warmup", "warming"} => samples = << >>
        /\ measured = "true" => iterations # 0 /\ iterations <= Len(samples) * BatchSize

LEMMA BatchesStart == BenchInit => BatchesInv
  BY DEF BenchInit, BatchesInv

(* The sample of a batch is its size, and the next batch begins behind it. *)
LEMMA BatchAdded ==
    ASSUME ArgumentsInv, BatchesInv, CountersSuffice, EndBatch
    PROVE  BatchesInv'
<1>1. /\ BatchSize \in Nat \ {0} /\ iterations \in Nat /\ begin \in Nat /\ CounterMax \in Nat
      /\ iterations + BatchSize <= CounterMax + 1
  BY BenchmarkAssumption DEF ArgumentsInv, CountersSuffice
<1>2. /\ samples \in Seq(Nat) /\ begin = Len(samples) * BatchSize /\ begin < iterations
      /\ end = BatchEnd
  BY DEF EndBatch, BatchesInv
<1>3. /\ samples' = Append(samples, end - begin) /\ stage' = "batch"
      /\ UNCHANGED <<iterations, measured>>
      /\ begin' = (begin + BatchSize) % (CounterMax + 1)
  BY DEF EndBatch, Arguments
<1>4. begin' = begin + BatchSize
  <2>1. begin + BatchSize \in 0 .. CounterMax
    BY <1>1, <1>2
  <2> QED
    BY <1>1, <1>3, <2>1
<1> DEFINE n == Len(samples)
<1>5. n \in Nat /\ Len(samples') = n + 1 /\ samples' \in Seq(Nat)
  <2>1. end - begin \in Nat
    BY <1>1, <1>2 DEF BatchEnd
  <2> QED
    BY <1>2, <1>3, <2>1
<1>6. begin' = Len(samples') * BatchSize
  BY <1>1, <1>2, <1>4, <1>5
<1>7. ASSUME NEW k \in 1 .. n + 1
      PROVE  /\ (k - 1) * BatchSize < iterations
             /\ samples'[k] = IF iterations - (k - 1) * BatchSize < BatchSize
                              THEN iterations - (k - 1) * BatchSize ELSE BatchSize
  <2>1. CASE k \in 1 .. n
    <3>1. samples'[k] = samples[k]
      BY <1>2, <1>3, <2>1
    <3> QED
      BY <2>1, <3>1 DEF BatchesInv
  <2>2. CASE k = n + 1
    <3>1. samples'[k] = end - begin /\ (k - 1) * BatchSize = begin
      BY <1>2, <1>3, <1>5, <2>2
    <3>2. end - begin = IF iterations - begin < BatchSize THEN iterations - begin ELSE BatchSize
      <4>1. CASE iterations - begin < BatchSize
        BY <1>1, <1>2, <4>1 DEF BatchEnd
      <4>2. CASE ~ (iterations - begin < BatchSize)
        <5>1. end = begin + BatchSize
          BY <1>2, <4>2 DEF BatchEnd
        <5> QED
          BY <1>1, <4>2, <5>1
      <4> QED
        BY <4>1, <4>2
    <3> QED
      BY <1>2, <3>1, <3>2
  <2> QED
    BY <1>5, <1>7, <2>1, <2>2
<1>8. measured' = "none"
  BY <1>3 DEF EndBatch, ArgumentsInv
<1> HIDE DEF n
<1> QED
  BY <1>3, <1>5, <1>6, <1>7, <1>8 DEF BatchesInv

LEMMA BatchesStep ==
    ASSUME ArgumentsInv, BatchesInv, [BenchStep]_benchVars
    PROVE  BatchesInv'
<1> SUFFICES ASSUME CountersSuffice' PROVE BatchesInv'
  BY DEF BatchesInv
<1>0. iterations' = iterations
  BY DEF BenchStep, Prepared, NotPrepared, MeasureRefused, StartWarmup, EndWarmup, WarmupCall,
       TimedCall, SearchStep, FrameFound, FrameNotFound, StartBatch, EndBatch, EndMeasure,
       Arguments, benchVars
<1>1. CountersSuffice
  BY <1>0 DEF CountersSuffice
<1>2. CASE EndBatch
  BY <1>1, <1>2, BatchAdded
<1>3. CASE EndWarmup
  <2>1. samples' = << >> /\ begin' = 0 /\ stage' = "batch" /\ measured' = "none"
    BY <1>1, <1>3 DEF EndWarmup, BatchesInv, ArgumentsInv
  <2>2. 0 = 0 * BatchSize
    BY BenchmarkAssumption
  <2> QED
    BY <2>1, <2>2 DEF BatchesInv
<1>4. CASE StartBatch
  <2>1. /\ UNCHANGED <<samples, begin>> /\ end' = BatchEnd /\ BatchEnd' = BatchEnd
        /\ begin < iterations /\ stage' = "timing" /\ stage = "batch" /\ measured' = measured
    BY <1>0, <1>4 DEF StartBatch, BatchEnd
  <2> QED
    BY <1>0, <1>1, <2>1 DEF BatchesInv
<1>5. CASE EndMeasure
  <2>1. /\ UNCHANGED samples /\ stage' = "ended" /\ iterations <= begin /\ stage = "batch"
        /\ iterations # 0
    BY <1>5, BenchmarkAssumption
       DEF EndMeasure, MeasureReturns, counters, ArgumentsInv, Measuring
  <2> QED
    BY <1>0, <1>1, <2>1 DEF BatchesInv
<1>6. CASE MeasureRefused \/ FrameNotFound
  <2>1. UNCHANGED samples /\ stage' = "ended" /\ measured' = "false"
    BY <1>6 DEF MeasureRefused, FrameNotFound, MeasureReturns, counters
  <2> QED
    BY <1>0, <1>1, <2>1 DEF BatchesInv
<1>7. CASE \/ Prepared \/ NotPrepared \/ StartWarmup \/ WarmupCall \/ TimedCall
           \/ SearchStep \/ FrameFound \/ UNCHANGED benchVars
  <2>1. UNCHANGED <<samples, begin, end, measured>>
    BY <1>7 DEF Prepared, NotPrepared, StartWarmup, WarmupCall, TimedCall, SearchStep,
         FrameFound, counters, benchVars
  <2>2. /\ stage' \in {"timing", "timed"} => stage \in {"timing", "timed"}
        /\ stage' \in {"batch", "timing", "timed"} => stage \in {"batch", "timing", "timed"}
        /\ stage' \in {"write", "open", "measure", "warmup", "warming"} =>
               stage \in {"write", "open", "measure", "warmup", "warming"}
    BY <1>7 DEF Prepared, NotPrepared, StartWarmup, WarmupCall, TimedCall, SearchStep,
         FrameFound, benchVars
  <2>3. BatchEnd' = BatchEnd
    BY <1>0, <2>1 DEF BatchEnd
  <2> QED
    BY <1>0, <1>1, <2>1, <2>2, <2>3 DEF BatchesInv
<1> QED
  BY <1>2, <1>3, <1>4, <1>5, <1>6, <1>7 DEF BenchStep

(* A measurement that succeeds has timed each iteration once. *)
THEOREM EachIterationIsTimedOnce == BenchSpec => []TimesEachIterationOnce
<1>1. ArgumentsInv /\ BatchesInv => TimesEachIterationOnce
  <2> SUFFICES ASSUME ArgumentsInv, BatchesInv, measured = "true", CountersSuffice,
                      NEW n, n = Len(samples)
               PROVE  /\ n # 0
                      /\ \A k \in 1 .. n - 1 : samples[k] = BatchSize
                      /\ samples[n] \in 1 .. BatchSize
                      /\ samples[n] = iterations - (n - 1) * BatchSize
    BY DEF TimesEachIterationOnce
  <2>1. BatchSize \in Nat \ {0} /\ iterations \in Nat
    BY BenchmarkAssumption DEF ArgumentsInv
  <2>2. n \in Nat /\ iterations # 0 /\ iterations <= n * BatchSize
    BY DEF BatchesInv
  <2>3. n # 0
    BY <2>1, <2>2
  <2>4. ASSUME NEW k \in 1 .. n
        PROVE  /\ (k - 1) * BatchSize < iterations
               /\ samples[k] = IF iterations - (k - 1) * BatchSize < BatchSize
                               THEN iterations - (k - 1) * BatchSize ELSE BatchSize
    BY DEF BatchesInv
  <2>5. ASSUME NEW k \in 1 .. n - 1 PROVE samples[k] = BatchSize
    <3>1. k * BatchSize < iterations /\ k * BatchSize = (k - 1) * BatchSize + BatchSize
      <4>1. k + 1 \in 1 .. n /\ (k + 1) - 1 = k
        BY <2>2, <2>5
      <4>2. k * BatchSize < iterations
        BY <4>1, <2>4
      <4> QED
        BY <2>1, <2>2, <2>5, <4>2
    <3>2. (k - 1) * BatchSize \in Int
      BY <2>1, <2>2, <2>5
    <3>3. ~ (iterations - (k - 1) * BatchSize < BatchSize)
      BY <2>1, <3>1, <3>2
    <3> QED
      BY <2>2, <2>4, <2>5, <3>3
  <2>6. n * BatchSize = (n - 1) * BatchSize + BatchSize /\ (n - 1) * BatchSize \in Int
    BY <2>1, <2>2
  <2>7. (n - 1) * BatchSize < iterations
        /\ samples[n] = IF iterations - (n - 1) * BatchSize < BatchSize
                        THEN iterations - (n - 1) * BatchSize ELSE BatchSize
    BY <2>2, <2>3, <2>4
  <2>8. samples[n] = iterations - (n - 1) * BatchSize /\ samples[n] \in 1 .. BatchSize
    <3> DEFINE before == (n - 1) * BatchSize
    <3>1. before \in Int /\ before < iterations /\ iterations <= before + BatchSize
      BY <2>2, <2>6, <2>7
    <3>2. samples[n] = IF iterations - before < BatchSize THEN iterations - before ELSE BatchSize
      BY <2>7
    <3> HIDE DEF before
    <3>3. samples[n] = iterations - before /\ samples[n] \in 1 .. BatchSize
      <4>1. CASE iterations - before < BatchSize
        BY <2>1, <3>1, <3>2, <4>1
      <4>2. CASE ~ (iterations - before < BatchSize)
        BY <2>1, <3>1, <3>2, <4>2
      <4> QED
        BY <4>1, <4>2
    <3> QED
      BY <3>3 DEF before
  <2> QED
    BY <2>3, <2>5, <2>8
<1>2. BenchInit => BatchesInv
  BY BatchesStart
<1>3. ArgumentsInv /\ BatchesInv /\ [BenchStep]_benchVars => BatchesInv'
  BY BatchesStep
<1> QED
  BY <1>1, <1>2, <1>3, BenchmarkSearches, PTL DEF BenchSpec

=============================================================================
