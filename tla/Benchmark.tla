----------------------------- MODULE Benchmark -----------------------------
(***************************************************************************)
(* The benchmark program: a recording is generated and mapped, some frames *)
(* are searched to warm up, then searches are timed in batches, one sample *)
(* for each batch.  A sample is the number of searches it averages over;   *)
(* the times themselves, and the statistics made of them, are left out.    *)
(***************************************************************************)
EXTENDS FrameLocator

CONSTANTS
    Recordings,       \* [file, frames]: what was generated, and with how many frames
    Iterations,       \* the iteration counts that may be asked for
    CounterMax,       \* largest value of the loop counters, which are uint32_t
    BatchSize,        \* batch_size (64)
    WarmupLimit,      \* most searches made to warm up (4096)
    Multiplier        \* spreads the frames asked for (2654435761)

ASSUME BenchmarkAssumption ==
    /\ CounterMax \in Nat /\ BatchSize \in Nat \ {0}
    /\ WarmupLimit \in Nat /\ Multiplier \in Nat
    /\ Iterations \subseteq 0 .. CounterMax
    /\ \A r \in Recordings : r.file \in Files /\ r.frames \in 0 .. UIntMax
    /\ \A r \in Recordings : 0 .. r.frames - 1 \subseteq Targets

EXIT_SUCCESS == 0
EXIT_FAILURE == 1

VARIABLES
    frame_count, iterations,   \* the arguments
    stage,            \* "write", "open", "measure", "warmup", "warming" (a search
                      \* runs), "batch", "timing", "timed" (a search runs), "ended"
    i, begin, end,    \* the counters of the loops
    samples,          \* samples_us: the size of each batch timed
    measured,         \* what MeasureLocateFrame returned, "none" before
    exit_code

counters == <<i, begin, end, samples>>
benchVars == <<vars, frame_count, iterations, stage, counters, measured, exit_code>>

BenchInit ==
    /\ \E r \in Recordings : file = r.file /\ frame_count = r.frames
    /\ Init
    /\ iterations \in Iterations
    /\ stage = "write"
    /\ i = 0 /\ begin = 0 /\ end = 0
    /\ samples = << >>
    /\ measured = "none"
    /\ exit_code = EXIT_FAILURE

Arguments == <<frame_count, iterations>>

(* WriteSyntheticFile, and then Open, succeed or end the program. *)
Prepared ==
    /\ \/ stage = "write" /\ stage' = "open"
       \/ stage = "open" /\ stage' = "measure"
    /\ UNCHANGED <<vars, Arguments, counters, measured, exit_code>>

NotPrepared ==
    /\ stage \in {"write", "open"}
    /\ stage' = "ended"
    /\ exit_code' = EXIT_FAILURE
    /\ UNCHANGED <<vars, Arguments, counters, measured>>

(* MeasureLocateFrame returns, and main after it. *)
MeasureReturns(found) ==
    /\ measured' = IF found THEN "true" ELSE "false"
    /\ exit_code' = IF found THEN EXIT_SUCCESS ELSE EXIT_FAILURE
    /\ stage' = "ended"

MeasureRefused ==
    /\ stage = "measure"
    /\ frame_count = 0 \/ iterations = 0
    /\ MeasureReturns(FALSE)
    /\ UNCHANGED <<vars, Arguments, counters>>

StartWarmup ==
    /\ stage = "measure"
    /\ frame_count # 0 /\ iterations # 0
    /\ stage' = "warmup"
    /\ i' = 0
    /\ UNCHANGED <<vars, Arguments, begin, end, samples, measured, exit_code>>

warmup_iterations == IF frame_count < WarmupLimit THEN frame_count ELSE WarmupLimit

(* Mutant: the remainder may be the number of frames itself. *)
TargetFrameInclusive(n) == ((n * Multiplier) % (CounterMax + 1)) % (frame_count + 1)

(* The product wraps like any uint32_t. *)
TargetFrame(n) == ((n * Multiplier) % (CounterMax + 1)) % frame_count

LocateFrame(t) == Call(t) \/ CallRejected(t)

WarmupCall ==
    /\ stage = "warmup"
    /\ i < warmup_iterations
    /\ LocateFrame(TargetFrame(i))
    /\ stage' = "warming"
    /\ UNCHANGED <<Arguments, counters, measured, exit_code>>

SearchStep ==
    /\ stage \in {"warming", "timed"}
    /\ Step
    /\ UNCHANGED <<Arguments, stage, counters, measured, exit_code>>

(* Back in the loop with a frame that was found. *)
FrameFound ==
    /\ pc = "done" /\ out # << >>
    /\ \/ stage = "warming" /\ stage' = "warmup"
       \/ stage = "timed" /\ stage' = "timing"
    /\ i' = i + 1
    /\ UNCHANGED <<vars, Arguments, begin, end, samples, measured, exit_code>>

(* Mutant: a frame that is not found is tried again. *)
FrameTriedAgain ==
    /\ pc = "done" /\ out = << >>
    /\ \/ stage = "warming" /\ stage' = "warmup"
       \/ stage = "timed" /\ stage' = "timing"
    /\ UNCHANGED <<vars, Arguments, counters, measured, exit_code>>

(* One frame that is not found ends the measurement. *)
FrameNotFound ==
    /\ stage \in {"warming", "timed"}
    /\ pc = "done" /\ out = << >>
    /\ MeasureReturns(FALSE)
    /\ UNCHANGED <<vars, Arguments, counters>>

EndWarmup ==
    /\ stage = "warmup"
    /\ i >= warmup_iterations
    /\ begin' = 0
    /\ stage' = "batch"
    /\ UNCHANGED <<vars, Arguments, i, end, samples, measured, exit_code>>

(* Mutant: the last batch is as long as the others. *)
BatchEndUnclamped == begin + BatchSize

(* The last batch may be shorter. *)
BatchEnd == IF iterations - begin < BatchSize THEN iterations ELSE begin + BatchSize

StartBatch ==
    /\ stage = "batch"
    /\ begin < iterations
    /\ end' = BatchEnd
    /\ i' = begin
    /\ stage' = "timing"
    /\ UNCHANGED <<vars, Arguments, begin, samples, measured, exit_code>>

TimedCall ==
    /\ stage = "timing"
    /\ i < end
    /\ LocateFrame(TargetFrame(i))
    /\ stage' = "timed"
    /\ UNCHANGED <<Arguments, counters, measured, exit_code>>

(* The sample is stored, and the loop goes on behind the batch: the        *)
(* addition wraps.                                                         *)
EndBatch ==
    /\ stage = "timing"
    /\ i >= end
    /\ samples' = Append(samples, end - begin)
    /\ begin' = (begin + BatchSize) % (CounterMax + 1)
    /\ stage' = "batch"
    /\ UNCHANGED <<vars, Arguments, i, end, measured, exit_code>>

EndMeasure ==
    /\ stage = "batch"
    /\ begin >= iterations
    /\ MeasureReturns(TRUE)
    /\ UNCHANGED <<vars, Arguments, counters>>

BenchStep ==
    \/ Prepared \/ NotPrepared \/ MeasureRefused
    \/ StartWarmup \/ WarmupCall \/ EndWarmup
    \/ SearchStep \/ FrameFound \/ FrameNotFound
    \/ StartBatch \/ TimedCall \/ EndBatch \/ EndMeasure

BenchSpec == BenchInit /\ [][BenchStep]_benchVars

(* One thread that never waits. *)
FairBenchSpec == BenchSpec /\ WF_benchVars(BenchStep)

-----------------------------------------------------------------------------
(* A recording that has each frame below n, in groups that can be read     *)
(* (SyntheticWriter, GeneratedFileIsSearchable).                           *)
Complete(f, n) ==
    /\ Regular(f) /\ f.header
    /\ \A t \in 0 .. n - 1 :
          \E o \in ReadablePrefix(f) \cap VideoGroups(f) :
              \E k \in VideoBlocks(f, o) : f.groups[o].frame + Rank(f, o, k) = t

(* The counter of the batches does not wrap while it is needed. *)
CountersSuffice == iterations + BatchSize <= CounterMax + 1

(* "Benchmark failed because LocateFrame did not find a query" is never    *)
(* said of a complete recording: whatever the counters and the wrapping    *)
(* product, only frames that are there are asked for, and they are found.  *)
FailsOnlyWhenIncomplete ==
    measured = "false" /\ iterations # 0 => ~ Complete(file, frame_count) \/ frame_count = 0

(* A measurement that succeeds has timed each iteration once: every sample *)
(* averages over a full batch, the last over what is left, and none over   *)
(* nothing (its time is divided by this number).                           *)
TimesEachIterationOnce ==
    measured = "true" /\ CountersSuffice =>
        LET n == Len(samples)
        IN  /\ n # 0
            /\ \A k \in 1 .. n - 1 : samples[k] = BatchSize
            /\ samples[n] \in 1 .. BatchSize
            /\ samples[n] = iterations - (n - 1) * BatchSize

(* The benchmark ends, also on a damaged recording. *)
BenchmarkEnds == <>(stage = "ended")

(* No more searches are timed than were asked for (MeasureLocateFrame:     *)
(* "iterations Number of benchmark iterations"): begin, the number of the  *)
(* first search of a batch, does not go back.                              *)
TimesNoIterationTwice ==
    [][begin' >= begin]_benchVars
=============================================================================
