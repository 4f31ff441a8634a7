-------------------------- MODULE SyntheticWriter --------------------------
(***************************************************************************)
(* WriteSyntheticFile: the plan is made (module SyntheticPlan), its groups *)
(* are encoded one after the other by BuildSyntheticFileBytes, and the     *)
(* buffer goes through a stream to the output file.  A malformed group     *)
(* ends the build with what was encoded so far left in the buffer; other   *)
(* callers hand in groups of their own, so this does happen.  The stream   *)
(* fails to open, fails to take the bytes, or takes them and fails later,  *)
(* when its destructor writes out what it held back.                       *)
(***************************************************************************)
EXTENDS SyntheticPlan

CONSTANTS
    Plans,            \* group specifications that other callers hand in
    Cuts(_)           \* lengths at which writing an image may stop

ASSUME WriterAssumption == Plans \subseteq Seq(GroupSpecs)

(* The steps of WriteSyntheticFile after the plan are further values of pc:*)
(* "building", "built", "opened", "returning" (true, with the stream still *)
(* alive), "closed" or "failed".                                           *)
VARIABLES
    bytes,            \* the buffer, as an image
    index,            \* groups encoded so far
    disk              \* the file at the output path, as an image

writerVars == <<planVars, bytes, index, disk>>
planState == <<config, groups, current_frame, produced_video_frames, audio_counter>>

(* Whatever was at the output path before. *)
OldFile == [size |-> 0, start_code |-> "old", group |-> << >>, block |-> << >>]

WriterInit ==
    /\ bytes = AppendFileHeader
    /\ index = 0
    /\ disk = OldFile
    /\ \/ Init
       \/ /\ groups \in Plans
          /\ config = [target |-> 0, period |-> 0, shared |-> 0, min |-> 0, max |-> 0]
          /\ current_frame = 0 /\ produced_video_frames = 0 /\ audio_counter = 0
          /\ pc = "building"

(* The planner runs to its end. *)
MakePlan == Next /\ UNCHANGED <<bytes, index, disk>>

(* A rejected configuration has written nothing. *)
StartBuild ==
    /\ pc = "planned"
    /\ pc' = "building"
    /\ UNCHANGED <<planState, bytes, index, disk>>

(* A group without blocks, or with sizes for some blocks only, is refused. *)
Acceptable(spec) ==
    /\ spec.block_types # << >>
    /\ \/ spec.block_payload_sizes = << >>
       \/ Len(spec.block_payload_sizes) = Len(spec.block_types)

EncodeGroup ==
    /\ pc = "building"
    /\ index < Len(groups)
    /\ Acceptable(groups[index + 1])
    /\ bytes' = AppendGroup(bytes, groups[index + 1])
    /\ index' = index + 1
    /\ UNCHANGED <<planVars, disk>>

RefuseGroup ==
    /\ pc = "building"
    /\ index < Len(groups)
    /\ ~ Acceptable(groups[index + 1])
    /\ pc' = "failed"
    /\ UNCHANGED <<planState, bytes, index, disk>>

BuildDone ==
    /\ pc = "building"
    /\ index = Len(groups)
    /\ pc' = "built"
    /\ UNCHANGED <<planState, bytes, index, disk>>

(* The stream cannot be opened: the old file, if any, stays. *)
OpenFails ==
    /\ pc = "built"
    /\ pc' = "failed"
    /\ UNCHANGED <<planState, bytes, index, disk>>

(* std::ios::trunc: opening empties the file. *)
OpenFile ==
    /\ pc = "built"
    /\ disk' = Truncated(bytes, 0)
    /\ pc' = "opened"
    /\ UNCHANGED <<planState, bytes, index>>

ShortWrites == Cuts(bytes) \cap (0 .. bytes.size)

(* The stream takes all bytes, which is all that good() tells; some may    *)
(* still be in its buffer when true is returned.                           *)
WriteAccepted ==
    /\ pc = "opened"
    /\ \E n \in ShortWrites \cup {bytes.size} : disk' = Truncated(bytes, n)
    /\ pc' = "returning"
    /\ UNCHANGED <<planState, bytes, index>>

(* Only the first bytes reach the file; it is not removed. *)
WriteFails ==
    /\ pc = "opened"
    /\ \E n \in ShortWrites : disk' = Truncated(bytes, n)
    /\ pc' = "failed"
    /\ UNCHANGED <<planState, bytes, index>>

(* The destructor of the stream writes out its buffer, or fails to, which  *)
(* nobody learns.                                                          *)
CloseStream ==
    /\ pc = "returning"
    /\ disk' \in {bytes, disk}
    /\ pc' = "closed"
    /\ UNCHANGED <<planState, bytes, index>>

WriterNext ==
    \/ MakePlan \/ StartBuild
    \/ EncodeGroup \/ RefuseGroup \/ BuildDone
    \/ OpenFails \/ OpenFile \/ WriteAccepted \/ WriteFails \/ CloseStream

WriterSpec == WriterInit /\ [][WriterNext]_writerVars

-----------------------------------------------------------------------------
(* What the parsers make of the file.                                      *)

(* The offset of each group in the file, and of the end. *)
StartOf == Starts(groups, index)

BlocksRead(group) ==
    [i \in 1 .. Len(group.blocks) |->
        [video |-> group.blocks[i].video, size |-> group.blocks[i].size]]

(* After every step of the build, also one that is about to fail, the      *)
(* parsers find every representable group where it was put, with its frame *)
(* number, kind, blocks and end - and find no group anywhere else, though  *)
(* the start code also occurs inside block headers.                        *)
ReadsBack ==
    LET view == View(bytes)
        good == {i \in 1 .. index : Representable(groups[i])}
    IN  /\ DOMAIN view.groups = {StartOf[i] : i \in good}
        /\ \A i \in good :
              LET group == view.groups[StartOf[i]]
              IN  /\ group.frame = groups[i].frame_num
                  /\ group.audio = groups[i].is_audio
                  /\ BlocksRead(group) = Blocks(groups[i])
                  /\ group.next = StartOf[i + 1]

(* A frame number that wraps around in its header word is not read back as *)
(* another frame: the header is rejected.                                  *)
NeverMisread ==
    LET view == View(bytes)
    IN  \A i \in 1 .. index :
            StartOf[i] \in DOMAIN view.heads =>
                view.heads[StartOf[i]].frame = groups[i].frame_num

(* A file cut short by a failing stream still yields exactly the groups    *)
(* that reached it whole, and nothing that was not written.                *)
CutFileKeepsWholeGroups ==
    disk # OldFile =>
        DOMAIN View(disk).groups =
            {StartOf[i] : i \in {j \in 1 .. index :
                                    Representable(groups[j]) /\ StartOf[j + 1] <= disk.size}}

(* The next non-audio group of a group is the first one written after it   *)
(* that is not audio, unless an unreadable group comes first.              *)
FollowerIsNextVideo ==
    LET view == View(bytes)
        later(i) == {j \in i + 1 .. index :
                        ~ groups[j].is_audio
                        /\ \A k \in i + 1 .. j : Representable(groups[k])}
    IN  \A i \in {j \in 1 .. index : Representable(groups[j])} :
            view.groups[StartOf[i]].follower =
                IF later(i) = {} THEN NoGroup
                ELSE StartOf[CHOOSE j \in later(i) : \A k \in later(i) : j <= k]

(* The search, for what it asks of a recording. *)
Locator == INSTANCE FrameLocator WITH
    Files <- {}, Targets <- {}, Options <- {}, MaxFrame <- UIntMax - kConstNumberBase,
    MaxIterations <- 0, file <- {}, options <- {}, target <- 0, left <- 0, right <- 0,
    iteration <- 0, offset <- 0, out <- << >>

(* Whatever the seed, the recording that is built from a plan of as many   *)
(* frames as header words can number is one the search answers truly about *)
(* (FrameLocator, NotFoundMeansAbsent): it is regular, all of it is        *)
(* readable, and the frames in it are those the benchmark asks for, the    *)
(* ones below the configured number.                                       *)
GeneratedFileIsSearchable ==
    pc = "built" /\ config.target \in 1 .. UIntMax - kConstNumberBase + 1 =>
        LET view == View(bytes)
        IN  /\ view.header
            /\ Locator!Regular(view)
            /\ Locator!ReadablePrefix(view) = DOMAIN view.groups
            /\ {b.frame : b \in Locator!VideoFrames(view)} = 0 .. config.target - 1

(* A group header as the format documents it: the frame rate too has the   *)
(* number base added (docs/group_header.txt, "frame_rate").                *)
Documented(image) ==
    [image EXCEPT !.group =
        [o \in DOMAIN @ |->
            IF @[o].frame_rate = 0 THEN @[o]
            ELSE [@[o] EXCEPT !.frame_rate = @ + kConstNumberBase]]]

(* When WriteSyntheticFile has returned true, the whole recording is in    *)
(* the file (synthetic_mp4_support.h: "True when the file is written       *)
(* successfully").                                                         *)
TrueMeansWritten ==
    pc = "closed" => disk = bytes

(* The groups of a file with documented headers are readable. *)
DocumentedHeadersParse ==
    DOMAIN View(Documented(bytes)).groups = DOMAIN View(bytes).groups
=============================================================================
