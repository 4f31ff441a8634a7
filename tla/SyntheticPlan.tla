--------------------------- MODULE SyntheticPlan ---------------------------
(***************************************************************************)
(* BuildSyntheticGroupPlan: the loop that decides which groups a generated *)
(* recording has.  The pseudo-random generator is replaced by a choice of  *)
(* any value in its range, so every seed is covered.                       *)
(***************************************************************************)
EXTENDS SyntheticMp4, FiniteSets

CONSTANT
    Configs           \* [target, period, shared, min, max], all uint32_t

ASSUME PlanAssumption ==
    Configs \subseteq [target : 0 .. UIntMax, period : 0 .. UIntMax, shared : 0 .. UIntMax,
                       min : 0 .. UIntMax, max : 0 .. UIntMax]

(* The longest groups of a plan, three frames, are ones the parser takes.  *)
ASSUME SpanAssumption == 3 <= MaxBlockCount

VARIABLES
    config,
    groups,                   \* the plan so far
    current_frame,
    produced_video_frames,
    audio_counter,
    pc                        \* "planning", "planned" or "rejected"

planVars == <<config, groups, current_frame, produced_video_frames, audio_counter, pc>>

Init ==
    /\ config \in Configs
    /\ groups = << >>
    /\ current_frame = 0
    /\ produced_video_frames = 0
    /\ audio_counter = 0
    /\ pc = "planning"

Malformed(c) == c.target = 0 \/ c.min = 0 \/ c.max = 0 \/ c.min > c.max

PlanRejected ==
    /\ pc = "planning"
    /\ Malformed(config)
    /\ pc' = "rejected"
    /\ UNCHANGED <<config, groups, current_frame, produced_video_frames, audio_counter>>

-----------------------------------------------------------------------------
(* The three kinds of groups. *)

GroupSpec(audio, types, payload, sizes) ==
    [frame_num |-> current_frame, is_audio |-> audio, block_types |-> types,
     payload_size |-> payload, block_payload_sizes |-> sizes]

(* The payload sizes of n blocks, drawn from the configured range. *)
PayloadSizes(n) == [1 .. n -> config.min .. config.max]

VideoSpec(types, sizes) == GroupSpec(FALSE, types, config.min, sizes)

AudioSpec ==
    LET size == IF config.min \div 2 = 0 THEN 1 ELSE config.min \div 2
    IN  GroupSpec(TRUE, <<"AudioI">>, size, <<size>>)

(* The counter counts only when audio is wanted at all. *)
Counted(n) == IF config.period > 0 THEN audio_counter + n ELSE audio_counter

Planning ==
    /\ pc = "planning"
    /\ ~ Malformed(config)
    /\ produced_video_frames < config.target

PairDue == produced_video_frames < config.shared
AudioDue == config.period > 0 /\ audio_counter >= config.period

(* Mutant: a pair is counted as the two groups it has. *)
AppendPairAsTwo ==
    /\ Planning
    /\ PairDue
    /\ \E sizes \in PayloadSizes(2) :
          groups' = groups \o <<VideoSpec(<<"VideoI">>, <<sizes[1]>>),
                                VideoSpec(<<"VideoP">>, <<sizes[2]>>)>>
    /\ current_frame' = current_frame + 2
    /\ produced_video_frames' = produced_video_frames + 2
    /\ audio_counter' = Counted(1)
    /\ UNCHANGED <<config, pc>>

(* One frame split over two groups. *)
AppendPair ==
    /\ Planning
    /\ PairDue
    /\ \E sizes \in PayloadSizes(2) :
          groups' = groups \o <<VideoSpec(<<"VideoI">>, <<sizes[1]>>),
                                VideoSpec(<<"VideoP">>, <<sizes[2]>>)>>
    /\ current_frame' = current_frame + 1
    /\ produced_video_frames' = produced_video_frames + 1
    /\ audio_counter' = Counted(1)
    /\ UNCHANGED <<config, pc>>

(* Mutant: the counter is reduced by the period instead of cleared. *)
AppendAudioKeepingExcess ==
    /\ Planning
    /\ ~ PairDue
    /\ AudioDue
    /\ groups' = Append(groups, AudioSpec)
    /\ audio_counter' = audio_counter - config.period
    /\ UNCHANGED <<config, current_frame, produced_video_frames, pc>>

(* An audio group, numbered like the video group after it. *)
AppendAudio ==
    /\ Planning
    /\ ~ PairDue
    /\ AudioDue
    /\ groups' = Append(groups, AudioSpec)
    /\ audio_counter' = 0
    /\ UNCHANGED <<config, current_frame, produced_video_frames, pc>>

(* Mutant: every video group advances the frame number by one. *)
AppendVideoAsOneFrame ==
    /\ Planning
    /\ ~ PairDue
    /\ ~ AudioDue
    /\ \E drawn \in 1 .. 3 :
          LET left == config.target - produced_video_frames
              frame_span == IF drawn > left THEN left ELSE drawn
          IN  /\ \E sizes \in PayloadSizes(frame_span) :
                    groups' = Append(groups,
                        VideoSpec([i \in 1 .. frame_span |-> IF i = 1 THEN "VideoI" ELSE "VideoP"],
                                  sizes))
              /\ current_frame' = current_frame + 1
              /\ produced_video_frames' = produced_video_frames + frame_span
    /\ audio_counter' = Counted(2)
    /\ UNCHANGED <<config, pc>>

(* A group of one to three frames, no more than are left to produce.  The  *)
(* counter is incremented before and again after the group is made.        *)
AppendVideo ==
    /\ Planning
    /\ ~ PairDue
    /\ ~ AudioDue
    /\ \E drawn \in 1 .. 3 :
          LET left == config.target - produced_video_frames
              frame_span == IF drawn > left THEN left ELSE drawn
          IN  /\ \E sizes \in PayloadSizes(frame_span) :
                    groups' = Append(groups,
                        VideoSpec([i \in 1 .. frame_span |-> IF i = 1 THEN "VideoI" ELSE "VideoP"],
                                  sizes))
              /\ current_frame' = current_frame + frame_span
              /\ produced_video_frames' = produced_video_frames + frame_span
    /\ audio_counter' = Counted(2)
    /\ UNCHANGED <<config, pc>>

PlanDone ==
    /\ pc = "planning"
    /\ ~ Malformed(config)
    /\ produced_video_frames >= config.target
    /\ pc' = "planned"
    /\ UNCHANGED <<config, groups, current_frame, produced_video_frames, audio_counter>>

Next == PlanRejected \/ AppendPair \/ AppendAudio \/ AppendVideo \/ PlanDone

-----------------------------------------------------------------------------
(* The groups that hold a frame. *)
Holding(frame) ==
    {i \in DOMAIN groups :
        /\ ~ groups[i].is_audio
        /\ groups[i].frame_num <= frame
        /\ frame < groups[i].frame_num + Len(groups[i].block_types)}

(* A finished plan holds each frame below the configured number exactly    *)
(* once, the frames of the configured pairs exactly twice, and no other.   *)
EveryFrameOnce ==
    pc = "planned" =>
        \A frame \in 0 .. config.target + 2 :
            Cardinality(Holding(frame)) =
                IF frame >= config.target THEN 0 ELSE IF frame < config.shared THEN 2 ELSE 1

(* Audio is never first, never last and never twice in a row: an audio     *)
(* group stands between two video groups and has the number of the second. *)
AudioBetweenVideo ==
    pc = "planned" =>
        \A i \in {j \in DOMAIN groups : groups[j].is_audio} :
            /\ 1 < i /\ i < Len(groups)
            /\ ~ groups[i - 1].is_audio
            /\ ~ groups[i + 1].is_audio
            /\ groups[i].frame_num = groups[i + 1].frame_num
=============================================================================
