# A verification project for the private MP4 frame search

The program finds the bytes of a video frame in a recording of a private MP4
format. A recording is a file header and a sequence of *groups*; a group is a
header with a frame number and a sequence of *blocks*, each with a header and a
payload. A video group numbers its first video block, the others count on from
it; audio groups lie in between. There is no index: `LocateFrame` bisects the
byte offsets, finds a group by scanning backward for a start code, and scans
the file from its beginning when the bisection gives up.

This directory models that search, the format it reads, the tool that
generates recordings, the wrapper that maps a file into memory, and the two
programs made of them: the search program and the benchmark. TLC checks the
models on small instances; TLAPS proves every invariant the passing runs check, for
every file, configuration and query.

## 1. Inventory

| component | state | operations | what makes it correct |
|---|---|---|---|
| format and header parsers (`src/mp4_format.h`) | none | `ParseFileHeader`, `ParseGroupHeader`, `ParseBlockHeader` | accepts what the encoder writes, rejects what does not fit the file or wraps |
| group parser (`frame_locator_internal.cpp`) | none | `ParseGroupAt`, `FindNextNonAudioGroup` | a group lies in the file, its blocks one after the other |
| frame locator (`frame_locator.cpp`, `frame_locator_internal.cpp`) | interval, probe count, cursor, up to two matches | `LocateFrame` with its binary search, linear scan and match collection | right block, both halves of a shared frame, "not found" only if it is true, termination, no byte outside the file |
| plan generator (`synthetic_mp4_support.cpp`) | three counters and the plan | `BuildSyntheticGroupPlan` | every configured frame once, pairs twice, audio in between, searchable |
| encoder and writer (same file) | buffer, output file | `BuildSyntheticFileBytes`, `WriteSyntheticFile` | reads back as written, also when cut short |
| mapped file (`mapped_file_win32.cpp`) | three system resources, size, message | `Open`, `Close`, destructor | no leak, no double close, whole or empty |
| frame query parser (`frame_query.cpp`) | frames, error, loop counters | `ParseFrameQuery` | every frame of every token in order, ranges up to the largest `uint32_t`, an error for the first bad token |
| search program (`main.cpp`) | exit code, output, and the state of its parts | parse, open, one search per frame, return | searches only mapped bytes, leaves nothing open; one failed search fails the program, the others still run |
| benchmark (`benchmark_locate_frame.cpp`) | loop counters, samples | warm-up, batches, a search each | ends, asks only for frames that are there, times each iteration once |
| sample generator (`generate_synthetic_mp4.cpp`) | none | arguments, `WriteSyntheticFile` | |

How they interact: all calls are synchronous and on one thread. `main.cpp` maps
the file once and calls `LocateFrame` for each frame of the query on the same
bytes; the benchmark generates a file, maps it and does the same. Nothing is
shared between threads and nothing is persisted but the generated file. What is
hard here is therefore not concurrency within the program but data: the order
of groups in a file, its alignment and damage, the probes that land in audio or
in bytes that look like a start code, and the interplay of the two searches.
Real interleaving exists only around the mapped file, whose handles come from
tables the rest of the process uses too, and real failure in system calls and
in the output stream.

The hazards are listed with their lines in `PROJECT.json`.

## 2. Modules

    Mp4Format          records of the file, the three header parsers
      GroupParser      groups, the next non-audio group, the "view" of a file
        SyntheticMp4   the encoder: plans to images; damage
          FormatProofs      what the parsers make of any bytes, and of encoded groups
          SyntheticPlan     deciding what is in a file
            SyntheticWriter building and writing that file    (MCSyntheticWriter)
              SyntheticWriterProofs
    FrameLocator       the search, over a view
      FrameLocatorRefinement  FrameLocator implements FrameIndex
        MCFrameLocator        small files, made by SyntheticMp4
        SearchProgram  main: query, mapping and search        (MCSearchProgram)
          SearchProgramProofs
      Benchmark        generate, map, search in batches       (MCBenchmark)
        BenchmarkProofs
      FrameLocatorProofs    results, bounds, whether the answers are right
        FrameIndexProofs    each step of the search is one of FrameIndex
    FrameIndex         abstract: a recording as a set of blocks
    SearchReport       abstract: the answers of the search program
    FrameQuery         the query parser
    MappedFileWin32    the memory mapping
      MappedFileProofs
    CountingLemmas     finite sets of positions; functions defined by recursion

**Mp4Format.** A file is an *image*: size, start code of the file header, and
the words found at the offsets where a parser can succeed. `GroupHeaderParses`,
`GroupHeader` and `BlockHeaderParses` are `ParseGroupHeader` and
`ParseBlockHeader`: bounds first, then every check, then the decoded header.
`UIntMax` stands for 2^32 - 1 and `MaxBlockCount` for 4096.

**GroupParser.** `GroupParses` and `ParsedGroup` are `ParseGroupAt`, with its
cursor as the recursive function `BlockCursor`; `NextNonAudio` is
`FindNextNonAudioGroup`. A mapped file never changes, so `View` tabulates the
results once for each offset: `codes` (where `HasGroupStartCodeAt` holds),
`heads` (where the header parses), `groups` (where the whole group does).

**FrameLocator.** Works on a view, and assumes of it only `IsView`, what the
parsers guarantee for any bytes; TLC evaluates that assumption for every file
of every run. The variables are the locals of `LocateFrame` and
`LocateFrameLinear`; `pc` is `"binary"` in the loop of the former, `"linear"`
in the latter. Actions:

| action | code |
|---|---|
| `Call`, `CallRejected` | entry of `LocateFrame`, both early returns |
| `ProbeHit` | a probe finds a group that contains the frame; `CollectMatches` |
| `ProbeRight`, `ProbeLeft` | `left = next_group_offset`, `right = group_offset - 1` |
| `GiveUp` | the three breaks and the end of the loop |
| `LinearHit`, `LinearStep`, `LinearMiss` | one turn of the linear scan |

The helpers keep their names. `ScannedStartCodes` gives the start codes that
repeated calls of `FindPreviousGroupStartCode` report, including its two
peculiarities: only multiples of four are tested, and the last one may lie
below the bound of the window. `IsGroup` and `IsFollower`, parts of `IsView`,
are facts about the parsers' results, not about the format's documents.

**FrameIndex, FrameLocatorRefinement.** The abstract promise: a recording is a
set of (frame, place) pairs, and a question is answered with the places of the
frame in order; for a skipped frame with the last place before it; outside the
recording with nothing. The refinement mapping reads the pairs off the view and
the answer off the matches; probes and scan steps stutter.

**SyntheticMp4, SyntheticPlan, SyntheticWriter.** `AppendGroup` lays out one
group, including the words inside headers that read as a start code (the bytes
01 00 00 00 in a frame number, in the version of a block, in a payload size, or
in a payload size and the first byte of the payload). What stands behind such a
word is no header: its frame number is zero or its picture mode is not one.
`SyntheticPlan` has one
action for each kind of group of `BuildSyntheticGroupPlan`; `NextRandom` is a
choice of any value in range, which covers every seed. `SyntheticWriter` is
`WriteSyntheticFile` as a whole: it goes on from a finished plan, or from groups
another caller of `BuildSyntheticFileBytes` hands in; builds group by group, a
malformed one ending the build; the stream may fail to open, fail to take the
bytes and leave a prefix, or take them, let `true` be returned and fail in its
destructor, where it writes what it held back.

**MappedFileWin32.** One action for each outcome of each system call in `Open`,
plus `Close`, the destructor, and the rest of the process, which takes and frees
handle values and leaves error codes. Handle values are used again after they
are closed. `raised` records the codes of the calls that failed in the Open at
hand, for a property only.

**FrameQuery.** `ParseFrameQuery` after splitting and trimming: a query is the
sequence of its tokens, a token the sequence of the texts between its colons, a
text the number it stands for or `NotANumber`. One action for each way a token
is refused (`Complaint` has the code's tests in the code's order), a single
frame, and each turn of the loop over a range, whose counter wraps.

**SearchProgram, SearchReport.** `SearchProgram` is `main.cpp`. It composes the
other three by instantiation: `Query!Step`, `Mapped!CreateFileSucceeds` and so
on are the parts' own actions, and `stage` says which part moves. What ties them
together is in the actions of `main`: the size `Open` learns is that of the file
that is searched, the frames searched are those the query left, the destructor
runs on every return behind the declaration of the mapping. `SearchReport` is
what a user may expect: no output and failure, or the answer of FrameIndex to
every frame in the order asked, and success if each was found.

**Benchmark.** `main` and `MeasureLocateFrame` with the search inside: the
refusals, the warm-up, batches with `begin`, `end` and `i` wrapping at
`CounterMax`, and the early return at a frame that is not found. A sample is the
number of searches it averages over, not the time. The recordings are what
`SyntheticWriter` may leave: whole, or cut where its stream failed unnoticed.

## 3. Runs

| run | what is checked | instance |
|---|---|---|
| `aligned` | `ImplementsIndex`, `MatchesAdjoin`, `NeverDiscardsTarget`, `FallbackOnlyWhenAbsent`, `MislabelledGroupHidesOnlyItself` | all plans of up to three of six kinds of groups, video-only plans of up to four, and a few longer ones; five of them with the audio word of one video group overwritten; payloads of 4 bytes, targets 0..8, a wide and a narrow window |
| `damaged` | `TypeOK`, `MatchesInsideFile`, `MatchIsFloor`, `NotFoundMeansAbsent`, `MatchesAdjoin`, `IntervalHalves`, `Terminates` | payloads of 1 to 9 bytes, so groups and words that look like start codes fall on every alignment; and six files cut near every boundary, or with one header word, block type or start code overwritten, one with a frame in three groups; three windows, one of width 0 |
| `writer` | `EveryFrameOnce`, `AudioBetweenVideo`, `GeneratedFileIsSearchable`, `ReadsBack`, `NeverMisread`, `CutFileKeepsWholeGroups`, `FollowerIsNextVideo` | up to 6 frames, periods 0..4, pairs 0..6, sizes with a choice, rejected configurations; other callers' plans of up to two of seventeen groups and longer ones, frame numbers at the wrap (`UIntMax` = 5119), block count over the limit (`MaxBlockCount` = 3), cuts near every boundary |
| `mapping` | `NothingLeaks`, `AllOrNothing`, `OpenFileIsTheLastOne`, `OthersAreLeftAlone` | three handle values, two addresses, two error codes, sizes 0, 4, 8 |
| `program` | `QueryExpands`, `MappedWhileSearching`, `NothingLeftOpen`, `ImplementsReport`, `ProgramEnds` | queries of up to two of thirteen kinds of tokens, well-formed or not, and two of three tokens; recordings of up to two kinds of groups and two longer ones, an empty file and two that are too short for a group; every system call may fail |
| `benchmark` | `FailsOnlyWhenIncomplete`, `TimesEachIterationOnce`, `BenchmarkEnds` | counters of 32 values, batches of 4, a warm-up of at most 3, iteration counts 0, 1, 4, 7, 28; generated recordings, whole or cut near group boundaries; the default window and one that finds nothing |

The bounds are small because the search branches on little: whether a probe
lands in video, audio or nothing, on which side the frame is, whether a
neighbour shares it, whether the window reaches the group. The plans of three
groups have every combination of these; the longer ones need several probes and
the small windows make probes fail. `UIntMax` is 65535 in the search
runs, 5119 in the writer's, so that the limits of a header word are reached;
`MaxIterations` is the code's 48, which no run reaches: `IntervalHalves`, proved
for every file, shows that it takes a file of 2^48 bytes. A few frame numbers and
payload sizes are there for the start codes in their bytes.

A query token is handled without regard to the ones before it, except that its
frames come behind theirs and that it is not reached if one of them is bad: two
tokens show both. Ranges end below, at and beyond the largest number. In the
program two handle values and one address are all one mapping needs. The
benchmark's counters are scaled so that the first iteration count which wraps,
29, is near; 28 is the last that does not, and 4 and 7 end with a full and a
short batch.

Six runs show disagreements between the code and what it is said to do:

| run | what TLC finds |
|---|---|
| `shared_frame` | Groups need not start on multiples of four, but only those are scanned: if a probe lands in the second half of a shared frame, the first is not found and one match is reported. `frame_locator_test.cpp` (ReturnsTwoMatchesForSharedFrameAcrossGroups) expects two; its payloads happen to keep groups aligned. |
| `scan_window` | `FindPreviousGroupStartCode` reports a start code below its "inclusive lower bound" when the bound is not a multiple of four. Harmless to the callers, who verify the group. |
| `documented` | `group_header.txt` says the frame rate has the number base added, and the dumped real file has 0x1019; `ParseGroupHeader` rejects every value above 240. The encoder writes 25, so tests and benchmark do not notice. |
| `flush` | `WriteSyntheticFile` returns `true` before the stream has written out its buffer; if that fails in the destructor, the file is short although "the file is written successfully". |
| `message` | Opening an empty file fails without any failing call; the message describes a stale error code. |
| `benchmark_wrap` | `begin += batch_size` wraps for iteration counts within one batch of the largest `uint32_t`, and the benchmark starts over instead of returning. |

**Deadlock.** Checked in every search and mapping run: the caller may always
ask again. The writer and the two programs end, so their runs do not check it;
that the programs end is `ProgramEnds` and `BenchmarkEnds`.

**Fairness.** `FairSpec` has weak fairness of `Step`, the disjunction of the
search's own steps: `LocateFrame` runs on one thread, without waiting for
anything, until it returns. Nothing is assumed of the caller, and nothing of
the choice between steps, of which exactly one is enabled. `FairProgramSpec` and
`FairBenchSpec` have weak fairness of the whole next-state relation: each
program is that one thread, system calls return with one outcome or the other,
and which one is not assumed. The writer and mapping specifications have no
fairness and no liveness property.

## 4. Proofs

The theorems hold for every value of the constants that satisfies the modules'
assumptions. Every invariant of a passing run and every action property is one
of them, `CountersSuffice`, `ProbesSuffice` and, for the refinement, `AllIndexed`
being the only hypotheses.

*The search*: about `Spec` of FrameLocator, for every set of views, targets,
windows and iteration limit that satisfies `LocatorAssumption`
(`MaxFrame + MaxBlockCount <= UIntMax`: 2^32 - 1 - 4096 + 4096 in the code).

| theorem | states | argument |
|---|---|---|
| `TypeCorrect` | `TypeOK` | `SearchInv` |
| `TwoMatchesAdjoin` | `MatchesAdjoin` | `SearchInv` |
| `PayloadsAreMapped` | `MatchesInsideFile` | `SearchInv` and the layout of groups |
| `ProbesHalve` | `IntervalHalves` | `SearchInv`; the probed group contains the middle |
| `FrameEndNeverSaturates` | `SafeFrameAdvance` is exact | bounds of header words |
| `NotFoundIsTrue` | `NotFoundMeansAbsent` | `SearchInv /\ CursorInv` |
| `MatchIsTheFloor` | `MatchIsFloor` | `SearchInv` and the order of groups |
| `TargetIsNeverDiscarded` | `NeverDiscardsTarget` | is inductive over `SearchInv` |
| `OnlyAbsentFramesAreScannedFor` | `FallbackOnlyWhenAbsent`, if `ProbesSuffice` | `NeverDiscardsTarget`, and the interval after k probes |
| `AnswersAreLookups` | `Index!Safety`: `ImplementsIndex` without its fairness, if `AllIndexed` | `StepIsIndexStep`: `HitIsLookup` and `MissIsLookup` |
| `MislabelledGroupIsContained` | `MislabelledGroupHidesOnlyItself`, if `AllIndexed` | `AnswerInv`, and `HeldOutside`: the damaged file holds what was recorded outside the group |

`TypeOK` is not inductive: that the results have their types depends on which
group they were made from. `SearchInv` adds that the matches are an *answer*
(`IsAnswer`): none, one result of some group, or two results of adjoining groups
that start with the target. It is preserved because `CollectMatches` returns an
answer for any group that contains the frame (`CollectedMatches`), and the
search never touches the matches otherwise. `CursorInv` says of the linear scan
that its cursor is where a group ends and that no video group before it
contains the frame; with the order of frame numbers in a regular recording it
makes the early break and the end of the scan truthful. For the answers, `HeldFrame`
computes which frame the reported block holds and `NothingBetween` that no other
block holds one in between. For the bisection, `RightOfProbe` and `LeftOfProbe`
say that groups on the discarded side cannot contain the frame. CountingLemmas
has the facts about the n-th position of a finite set that "the n-th video
block" rests on. `ProbesSuffice` says that halving the size of each file
`MaxIterations` times leaves nothing (48 times in the code: any file below 2^48
bytes); without it the bisection could run out of probes with the frame still
in its interval.

`AllIndexed` says of every recording and window that all groups can be reached
from the first, that numbers are in order (`Regular`), and that two video groups
with the same first frame adjoin, the first at an offset divisible by 4 and no
longer than the backward window. The files of the run `aligned` meet it
(the assumption `FilesAreIndexed`); the runs `damaged`, `scan_window` and
`shared_frame` show what happens to files that do not. The proof has three
parts. Which groups contain a frame: one, or two that adjoin and start with it
(`TwoContainers`). What `CollectMatches` makes of them: both from either
(`PairOfMatches`), or the only one (`LoneMatch`). What the index says: `LookupOfOne`,
`LookupOfTwo` and `LookupOfNone` compute `Lookup` from the groups that contain
the frame, the first also where the recording skips it. A step that finds a
group or gives up is then the index's `Answer`; every other step of the search
leaves the question open.

`MislabelledGroupHidesOnlyItself` is about damage that no parser notices: any
audio word but the number base means audio (`mp4_format.h`:180), and nothing
else in the file contradicts it. The frames of that group cannot be found then;
the property compares the answers with the recording as it was made (`Repaired`):
all other frames are found, also the other half of a shared frame, and a search
for a lost frame reports the block before it, as for a skipped frame. The run
meets its hypothesis (the assumption `MislabelledHoldsTheRecording`).

*The format and the files written*: about the parsers, for every `IsImage`
(words in their width at natural offsets), and about `WriterSpec`, for every
configuration and seed, every plan of other callers (`WriterAssumption`: a
sequence of group specifications with fields in their width) and every way the
stream can fail. The planner needs `SpanAssumption`, that a group may have three
blocks.

| theorem | states | argument |
|---|---|---|
| `ParsersGiveAView` | `View` of any image satisfies `IsView`, which FrameLocator assumes | the cursor of `ParseGroupAt` only moves forward; followers by `WalkEnds` |
| `CutFilesAreReadAsWritten` | the groups read from encoded groups, whole or cut | `Laid` |
| `AudioStandsBetweenVideo` | `AudioBetweenVideo` | `PlannedInv` |
| `EachFrameIsPlannedOnce` | `EveryFrameOnce` | the groups that hold a frame, against the planner's counters |
| `WrittenGroupsReadBack` | `ReadsBack` | `FileInv`, `CutFilesAreReadAsWritten` |
| `FrameNumbersAreNeverMisread` | `NeverMisread` | `FileInv` |
| `CutFileKeepsItsGroups` | `CutFileKeepsWholeGroups` | `FileInv`, `CutFilesAreReadAsWritten` |
| `FollowersAreNextVideo` | `FollowerIsNextVideo` | `FileInv`; a walk over the groups ends at the first that is not audio |
| `GeneratedFilesAreSearchable` | `GeneratedFileIsSearchable` | `FileInv`, and the spans of the planned groups |

`Laid(image, plan, k)` describes a file after k groups: where each header and
block is, that they are in order, and that anything else that reads as a start
code is inside a header and does not parse. `AppendedGroup` shows that
`AppendGroup` extends it by one group. `FileInv` says that the buffer is `Laid`,
and that the disk holds an old file or a prefix of the buffer. What is
said of a recursive function (`BlockCursor`, `BlockOffset`, `Starts`, the walk of
`FindNextNonAudioGroup`) is proved without the library's induction theorems: a
smallest counterexample exists (`SmallestOf`) and contradicts the step
(`StaysIn`), and a function that satisfies the recursion exists
(`IterationExists`, `WalkExists`). With `ParsersGiveAView` and
`GeneratedFilesAreSearchable`, what is proved of the search of views and of
regular recordings holds of the files the parsers read and the generator
writes. The latter is for frame counts a header word can number, up to
2^32 - 4096: above, `ReadsBack` says what is lost.

*The mapping and the programs*:

| theorem | states | argument |
|---|---|---|
| `LeaksNothing` | `NothingLeaks` | `MappingInv` |
| `OpenAsAWhole` | `AllOrNothing` | `MappingInv` |
| `FailedOpenIsEmpty` | `OpenFileIsTheLastOne` | `MappingInv` |
| `NoForeignHandleIsClosed` | `OthersAreLeftAlone` | `MappingInv`; what is closed is the object's own |
| `SearchesReadMappedBytes` | `MappedWhileSearching` | `OpenInv` |
| `MainLeavesNothingOpen` | `NothingLeftOpen` | `OpenInv` |
| `AcceptedQueryIsExpanded` | an accepted query has yielded all it asks for, and nothing else | `QueryInv` |
| `QueriesExpandInOrder` | `QueryExpands` | `QueryInv /\ OrderInv` |
| `ReportsAreAnswers` | `ImplementsReport`, if `AllIndexed` | `StepIsReportStep`: `MainInv`, `AskedInv` and the invariants of the search |
| `BenchmarkSearches` | the benchmark's steps are steps of FrameLocator's `Spec` | `ArgumentsInv` |
| `CompleteRecordingsPass` | `FailsOnlyWhenIncomplete` | `ArgumentsInv`, and `NotFoundIsTrue` of the search |
| `EachIterationIsTimedOnce` | `TimesEachIterationOnce` | `BatchesInv` |

`NothingLeaks` speaks of the moments between calls only. `MappingInv` says what
is open in the middle of `Open` too (`Accounted`): before each of its calls the
system's tables hold exactly the handles that its locals hold, which is why each
error path closes all of them and none of another's. `OpenInv` is the
same for the one `Open` that `main` makes, together with `stage`: it describes
what is open at each stage, so that the destructor on the way out closes it all.
(The theorems of MappedFileWin32 are not used there: the prover does not
instantiate temporal theorems.) `QueryInv` relates the counter of a range to
what is stored; the lemma `RangeCounter` is the reason for the break in
the loop. `OrderInv` adds the order: what is stored is the flattening of what
the tokens so far denote, and of the range at hand the numbers its counter has
passed; `ComplaintIsRight` says that the code complains about exactly the tokens
that are not well-formed.

For the refinement, `MainInv` relates the loop of `main` to what has been
printed: one line per frame that came before, and an exit code that remembers
every frame not found. `AskedInv` adds that the numbers of a query fit, which
makes each search of `main` one of FrameLocator (`ProgramSearches`), and that an
accepted query asks for something. `AnswerInv` carries the answers of
the search over: whenever it is done, its matches are what the index looks up.
The run `program` meets the hypothesis (the assumption `ProgramFilesAreIndexed`).

`BenchmarkSearches` lets the theorems of the search be cited of the
benchmark: with `ArgumentsInv`, by which a frame that is asked for is below the
frame count however the product wraps, "not found" would contradict
`NotFoundIsTrue`. `BatchesInv` gives every sample made so far and
where the next batch starts, as long as the counter does not wrap
(`CountersSuffice`: iterations + 64 <= 2^32); `benchmark_wrap` shows that this
condition is needed.

Left to TLC: `Terminates`, `ProgramEnds`, `BenchmarkEnds` and the liveness part
of `ImplementsIndex`, because fairness and ENABLED are out of the prover's reach.

*Regular* recordings, to which `NotFoundMeansAbsent` and `MatchIsFloor` are
restricted, have groups that do not overlap, frame numbers that never go back,
and no group with more blocks than frames. The generator writes those
(`GeneratedFilesAreSearchable`), and so do the recorders of the search runs (the
assumption `PlansAreRegular`, which TLC evaluates). The
properties about safety of access and termination hold for any file.

## 5. Not modelled

- The 32-bit build, where offsets and block sizes may wrap `size_t`.
- Fields that nothing reads: watermark, quantisers, picture size, block flags.
- Copies of a `MappedFileWin32` (no code makes one), other writers of the mapped
  file (it is opened without write sharing).
- Three limits no caller gets near, and on which no property depends: the word for
  the number of blocks wraps for a group of 2^32 - 4096 blocks
  (`synthetic_mp4_support.cpp`:97), a list of 16 GiB; the planner's audio counter
  wraps only for an audio period next to 2^32, after a plan of some 2^31 groups;
  and a query of very many frames may end in `bad_alloc` (`frame_query.cpp`:140),
  which nothing catches and which ends the process.
- Null pointers passed for output parameters, which the callers never do.
- Splitting a query at commas and colons, trimming, and the digits of a number:
  `FrameQuery` starts from their result.
- In SearchProgram: the rest of the process (one thread, and MappedFileWin32 has it
  in its own run), the layout of the printed lines, the time printed.
- In Benchmark: the parsing of its arguments, the times measured and the
  statistics made of them, which are floating point; the mapping and its
  destructor, which are used as in SearchProgram.
- The sample generator program: it parses arguments and returns the result of one
  `WriteSyntheticFile`, which SyntheticWriter models for every configuration.
- Tests, build files and googletest: not part of the program.

## 6. Plan

Done: all modules above, in this order: Mp4Format, GroupParser, FrameLocator with
FrameIndex, the plan and the writer, the mapping, the query, the search program
with SearchReport, the benchmark, and the proofs.

Left: that the files the generator writes, if no two groups share a frame, are
`Indexed`, so that `AnswersAreLookups` holds of them without a hypothesis, as
`NotFoundIsTrue` does by `GeneratedFilesAreSearchable`.
