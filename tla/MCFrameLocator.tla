--------------------------- MODULE MCFrameLocator ---------------------------
(***************************************************************************)
(* Small files for the model checker, made with the encoder of module      *)
(* SyntheticMp4 and read with the parsers of module GroupParser.           *)
(***************************************************************************)
EXTENDS FrameLocatorRefinement

Mp4 == INSTANCE SyntheticMp4

(* Plans: what the recorder stored, group by group.                        *)
(*   "one"   a video group of one block      "three" one of three blocks   *)
(*   "mixed" a video group that also holds an audio block                  *)
(*   "pair"  one frame split over two groups                               *)
(*   "audio" an audio group                  "skip"  two frames are lost   *)
BlockTypesOf(kind) ==
    CASE kind \in {"one", "pair"} -> <<"VideoI">>
      [] kind = "three" -> <<"VideoI", "VideoP", "VideoB">>
      [] kind = "mixed" -> <<"AudioP", "VideoI">>
      [] kind = "audio" -> <<"AudioI">>

Group(kind, frame, payload) ==
    [frame_num |-> frame, is_audio |-> kind = "audio", block_types |-> BlockTypesOf(kind),
     payload_size |-> payload, block_payload_sizes |-> << >>]

FramesOf(kind) ==
    CASE kind = "three" -> 3 [] kind = "audio" -> 0 [] kind = "skip" -> 2 [] OTHER -> 1

(* The groups of a plan; payload(i) is the payload size of the i-th kind.  *)
GroupsOf(plan, payload(_)) ==
    LET frame[i \in 1 .. Len(plan) + 1] ==
            IF i = 1 THEN 0 ELSE frame[i - 1] + FramesOf(plan[i - 1])
        groups[i \in 0 .. Len(plan)] ==
            IF i = 0 THEN << >>
            ELSE LET one == Group(plan[i], frame[i], payload(i))
                 IN  CASE plan[i] = "skip" -> groups[i - 1]
                       [] plan[i] = "pair" -> groups[i - 1] \o <<one, one>>
                       [] OTHER -> Append(groups[i - 1], one)
    IN  groups[Len(plan)]

PlansOver(kinds, length) == UNION {[1 .. n -> kinds] : n \in 0 .. length}

ImageOf(plan, payload(_)) == Mp4!EncodedFile(GroupsOf(plan, payload))

-----------------------------------------------------------------------------
(* Payloads of four bytes put every group on a multiple of four. *)
Four(i) == 4
AlignedPlans ==
    PlansOver({"one", "three", "mixed", "pair", "audio", "skip"}, 3)
    \cup {<<"one", "audio", "pair", "audio", "one">>, <<"pair", "pair", "skip", "three", "audio">>,
          <<"audio", "one", "one", "one", "mixed", "pair">>, <<"three", "skip", "pair", "skip", "one">>}
AlignedFiles == {Mp4!View(ImageOf(plan, Four)) : plan \in AlignedPlans}

(* Payloads of any size put groups, and the words that look like a start   *)
(* code inside block headers, on every alignment.                          *)
Uneven(i) == <<6, 1, 4, 5>>[1 + (i % 4)]
Odd(i) == 1 + 2 * i
MisalignedPlans ==
    PlansOver({"one", "three", "pair", "audio", "skip"}, 3)
    \cup {<<"pair", "one", "audio", "pair", "three">>, <<"one", "pair", "one", "one", "pair">>}

(* A payload that makes a start code of its size and its first byte.       *)
LargePayload == <<Group("one", 0, 3), Group("one", 0, 256), Group("one", 1, 4)>>

MisalignedFiles ==
    {Mp4!View(ImageOf(plan, Uneven)) : plan \in MisalignedPlans}
    \cup {Mp4!View(Mp4!EncodedFile(LargePayload))}
    \cup {Mp4!View(ImageOf(plan, Odd)) : plan \in {<<"one", "pair", "three", "audio">>}}

(* Video only, long enough for several probes. *)
VideoPlans ==
    PlansOver({"one", "three", "mixed", "pair"}, 4)
    \cup {<<"one", "skip", "one", "one", "pair", "skip", "three", "one", "one">>,
          <<"pair", "pair", "pair", "one", "skip", "pair", "mixed">>}
VideoFiles == {Mp4!View(ImageOf(plan, Four)) : plan \in VideoPlans}

(* Recordings in which the audio word of one video group was overwritten.  *)
MislabelledPlans ==
    {<<"pair", "skip", "one">>, <<"three", "skip", "pair">>, <<"audio", "mixed", "one">>,
     <<"one", "three", "one">>, <<"one", "audio", "pair", "audio", "one">>}
Mislabel(image, o) == Mp4!View(Mp4!Overwritten(image, o, "is_audio", 5000))
VideoHeaders(image) == VideoGroups(Mp4!View(image))
MislabelledFiles ==
    UNION {LET image == ImageOf(plan, Four)
           IN  {Mislabel(image, o) : o \in VideoHeaders(image)} : plan \in MislabelledPlans}

WellFormedFiles == AlignedFiles \cup VideoFiles \cup MislabelledFiles

-----------------------------------------------------------------------------
(* Damaged files: cut anywhere near a boundary, one header overwritten     *)
(* with a value the parser rejects or accepts, or one start code lost.     *)
(* One frame may be spread over more than two groups.                      *)
ThreeOfAFrame ==
    <<Group("one", 0, 4), Group("one", 0, 4), Group("one", 0, 100), Group("one", 1, 4)>>

Victims ==
    {Mp4!EncodedFile(ThreeOfAFrame)} \cup
    {ImageOf(plan, Four) : plan \in
        {<<"one", "three", "pair">>, <<"pair", "audio", "one">>, <<"audio", "mixed", "one">>}}
    \cup {ImageOf(plan, Uneven) : plan \in {<<"one", "pair", "three">>, <<"pair", "audio", "one">>}}

Boundaries(image) == {0} \cup DOMAIN image.group \cup DOMAIN image.block \cup {image.size}
Cuts(image) ==
    {n \in {b + d : b \in Boundaries(image), d \in {-1, 0, 1, 4, 20, 47, 48}} :
        0 <= n /\ n <= image.size}

Headers(image) == {o \in DOMAIN image.group : Mp4!ValidGroupHeader(image.group[o])}

DamagedImages(image) ==
    {Mp4!Truncated(image, n) : n \in Cuts(image)}
    \cup {Mp4!Erased(image, o) : o \in Headers(image)}
    \cup {Mp4!Retyped(image, o, type) : o \in DOMAIN image.block, type \in {"unknown", "AudioP"}}
    \cup {Mp4!Overwritten(image, o, w[1], w[2]) :
            o \in Headers(image),
            w \in {<<"frame_rate", 0>>, <<"block_number", 4096>>, <<"block_number", 4101>>,
                   <<"frame_num", 4096>>, <<"frame_num", 4100>>, <<"is_audio", 5000>>}}

DamagedFiles == {Mp4!View(image) : image \in UNION {DamagedImages(v) : v \in Victims}}

HostileFiles == DamagedFiles \cup MisalignedFiles

-----------------------------------------------------------------------------
DefaultOptions == [probe |-> 524288, back |-> 1048576]
WideAndNarrow == {DefaultOptions, [probe |-> 60, back |-> 100]}
WideOnly == {DefaultOptions}
AnyWindow == {DefaultOptions, [probe |-> 70, back |-> 50], [probe |-> 0, back |-> 0]}

Nine == 0 .. 8
Six == 0 .. 5
LargestFrame == UIntMax - 4096

(* The hypothesis of theorem ParsersGiveAView. *)
ASSUME DamagedImagesAreImages ==
    \A image \in UNION {DamagedImages(v) : v \in Victims} : Mp4!IsImage(image)

(* A mislabelled file differs from what was recorded as Repaired says.    *)
ASSUME MislabelledHoldsTheRecording ==
    \A plan \in MislabelledPlans :
        LET image == ImageOf(plan, Four)
        IN  \A o \in VideoHeaders(image) :
              /\ o \notin VideoGroups(Mislabel(image, o))
              /\ VideoFrames(Repaired(Mislabel(image, o), o)) = VideoFrames(Mp4!View(image))

(* The hypothesis of theorem AnswersAreLookups. *)
ASSUME FilesAreIndexed == \A f \in WellFormedFiles, opt \in WideAndNarrow : Indexed(f, opt)

(* The hypothesis of theorem OnlyAbsentFramesAreScannedFor. *)
ASSUME FilesAreSearchable == ProbesSuffice

(* The plans the recorder makes are well-formed recordings. *)
ASSUME PlansAreRegular == \A f \in AlignedFiles \cup MisalignedFiles : Regular(f)
ASSUME VideoFilesAreSeekable ==
    \A f \in VideoFiles : DOMAIN f.groups # {} => Seekable(f, DefaultOptions)
=============================================================================
