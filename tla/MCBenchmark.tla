---------------------------- MODULE MCBenchmark ----------------------------
(***************************************************************************)
(* Short recordings as the generator makes them, with payloads that do and *)
(* do not keep groups aligned, and what is left of them after a write that *)
(* stopped half way.  The counters are scaled down: 32 values, batches of  *)
(* four, a warm-up of at most three searches.                              *)
(***************************************************************************)
EXTENDS MCFrameLocator, Benchmark, SequencesExt

(* Pairs first, then groups of one or more frames with audio in between.   *)
GeneratedPlans ==
    {pairs \o rest :
        pairs \in {<< >>, <<"pair">>, <<"pair", "pair">>},
        rest \in {<<"one">>, <<"three">>, <<"one", "audio", "three">>,
                  <<"three", "audio", "one", "audio", "three">>}}

FrameCount(plan) == FoldLeft(LAMBDA n, kind : n + FramesOf(kind), 0, plan)

ShortCuts(image) ==
    {n \in {b + d : b \in DOMAIN image.group, d \in {-1, 0, 50}} : n \in 0 .. image.size}

Recorded(plan, payload(_)) ==
    {[file |-> Mp4!View(image), frames |-> FrameCount(plan)] :
        image \in {ImageOf(plan, payload)} \cup
            {Mp4!Truncated(ImageOf(plan, payload), size) : size \in ShortCuts(ImageOf(plan, payload))}}

SmallRecordings ==
    UNION {Recorded(plan, Four) \cup Recorded(plan, Odd) : plan \in GeneratedPlans}
RecordedFiles == {r.file : r \in SmallRecordings}

OneRecording == Recorded(<<"one">>, Four)

UpToWrap == {0, 1, 4, 7, 28}
(* The default window and one that never reaches a group. *)
WideAndNone == {DefaultOptions, [probe |-> 0, back |-> 1048576]}

BeyondWrap == {29, 31}
=============================================================================
