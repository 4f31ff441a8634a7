----------------------- MODULE SyntheticWriterProofs -----------------------
(***************************************************************************)
(* Where the audio groups of a generated recording are and which groups    *)
(* hold a frame, for every configuration and every pseudo-random sequence; *)
(* and that the parsers read back what was written, also when the file was *)
(* cut short, for every plan that any caller hands in.                     *)
(***************************************************************************)
EXTENDS SyntheticWriter, FormatProofs

(* A sequence of whatever the planner makes. *)
IsPlan(plan) == \E S : plan \in Seq(S)

(* Audio groups that are not the last one have a video group on each side. *)
AudioPlaced ==
    \A i \in 1 .. Len(groups) :
        groups[i].is_audio =>
            /\ 1 < i /\ ~ groups[i - 1].is_audio
            /\ i < Len(groups) =>
                  ~ groups[i + 1].is_audio /\ groups[i].frame_num = groups[i + 1].frame_num

(* If the last group is audio, the counter has just been cleared and there *)
(* are frames left, so the next group is video, with the same number.      *)
AudioPending ==
    Len(groups) > 0 /\ groups[Len(groups)].is_audio =>
        /\ groups[Len(groups)].frame_num = current_frame
        /\ audio_counter = 0 /\ config.period > 0
        /\ produced_video_frames < config.target

PlanInv ==
    /\ config \in [target : Nat, period : Nat, shared : Nat, min : Nat, max : Nat]
    /\ IsPlan(groups)
    /\ current_frame \in Nat /\ produced_video_frames \in Nat /\ audio_counter \in Nat
    /\ groups = << >> => audio_counter = 0
    /\ AudioPlaced
    /\ AudioPending
    /\ pc = "planned" => produced_video_frames >= config.target

(* Groups that other callers hand in are not planned. *)
PlannedInv == pc \in {"planning", "planned"} => PlanInv

-----------------------------------------------------------------------------
(* Appending to a sequence of anything. *)
LEMMA Appending ==
    ASSUME NEW plan, IsPlan(plan), NEW g
    PROVE  /\ Len(plan) \in Nat /\ IsPlan(Append(plan, g)) /\ Len(Append(plan, g)) = Len(plan) + 1
           /\ Append(plan, g)[Len(plan) + 1] = g
           /\ \A i \in 1 .. Len(plan) : Append(plan, g)[i] = plan[i]
<1>1. PICK S : plan \in Seq(S)
  BY DEF IsPlan
<1>2. plan \in Seq(S \cup {g})
  BY <1>1
<1>3. Append(plan, g) \in Seq(S \cup {g})
  BY <1>2
<1> QED
  BY <1>1, <1>2, <1>3 DEF IsPlan

(* A group added behind a group that is not audio, or a video group with   *)
(* the number an audio group is waiting for.                               *)
LEMMA GroupAdded ==
    ASSUME IsPlan(groups), AudioPlaced, NEW g, groups' = Append(groups, g),
           g.is_audio => Len(groups) > 0 /\ ~ groups[Len(groups)].is_audio,
           Len(groups) > 0 /\ groups[Len(groups)].is_audio =>
               ~ g.is_audio /\ g.frame_num = groups[Len(groups)].frame_num
    PROVE  /\ IsPlan(groups') /\ Len(groups') = Len(groups) + 1
           /\ groups'[Len(groups')] = g
           /\ AudioPlaced'
<1> DEFINE n == Len(groups)
<1>1. /\ n \in Nat /\ IsPlan(groups') /\ Len(groups') = n + 1
      /\ groups'[n + 1] = g /\ \A i \in 1 .. n : groups'[i] = groups[i]
  BY Appending
<1> HIDE DEF n
<1>2. ASSUME NEW i \in 1 .. n + 1, groups'[i].is_audio
      PROVE  /\ 1 < i /\ ~ groups'[i - 1].is_audio
             /\ i < n + 1 => ~ groups'[i + 1].is_audio
                             /\ groups'[i].frame_num = groups'[i + 1].frame_num
  <2>1. CASE i = n + 1
    <3>1. n > 0 /\ ~ groups[n].is_audio
      BY <1>1, <1>2, <2>1 DEF n
    <3> QED
      BY <1>1, <2>1, <3>1
  <2>2. CASE i = n
    <3>1. /\ groups[n].is_audio /\ n > 0
          /\ ~ g.is_audio /\ g.frame_num = groups[n].frame_num
      BY <1>1, <1>2, <2>2 DEF n
    <3>2. 1 < n /\ ~ groups[n - 1].is_audio
      BY <1>1, <3>1 DEF AudioPlaced, n
    <3> QED
      BY <1>1, <2>2, <3>1, <3>2
  <2>3. CASE i < n
    <3>1. groups[i].is_audio /\ i \in 1 .. n /\ i + 1 \in 1 .. n
      BY <1>1, <1>2, <2>3
    <3>2. /\ 1 < i /\ ~ groups[i - 1].is_audio
          /\ ~ groups[i + 1].is_audio /\ groups[i].frame_num = groups[i + 1].frame_num
      BY <2>3, <3>1 DEF AudioPlaced, n
    <3>3. i - 1 \in 1 .. n
      BY <1>1, <2>3, <3>2
    <3> QED
      BY <1>1, <3>1, <3>2, <3>3
  <2> QED
    BY <1>1, <2>1, <2>2, <2>3
<1> QED
  BY <1>1, <1>2 DEF AudioPlaced, n

LEMMA PairKeepsInv ==
    ASSUME PlanInv, AppendPair PROVE PlanInv'
<1>1. /\ IsPlan(groups) /\ current_frame \in Nat /\ produced_video_frames \in Nat
      /\ audio_counter \in Nat /\ config.min \in Nat /\ config.max \in Nat
      /\ config.period \in Nat
  BY DEF PlanInv
<1>2. /\ pc = "planning" /\ pc' = pc /\ config' = config
      /\ current_frame' = current_frame + 1
      /\ produced_video_frames' = produced_video_frames + 1
      /\ audio_counter' = Counted(1)
  BY DEF AppendPair, Planning
<1>3. PICK sizes \in PayloadSizes(2) :
         groups' = groups \o <<VideoSpec(<<"VideoI">>, <<sizes[1]>>),
                               VideoSpec(<<"VideoP">>, <<sizes[2]>>)>>
  BY DEF AppendPair
<1> DEFINE g == VideoSpec(<<"VideoI">>, <<sizes[1]>>)
           h == VideoSpec(<<"VideoP">>, <<sizes[2]>>)
           n == Len(groups)
<1>6. /\ g.is_audio = FALSE /\ g.frame_num = current_frame
      /\ h.is_audio = FALSE /\ h.frame_num = current_frame
  BY DEF VideoSpec, GroupSpec
<1>7. groups' = groups \o <<g, h>>
  BY <1>3
<1> HIDE DEF g, h
<1>8. /\ n \in Nat /\ IsPlan(groups') /\ Len(groups') = n + 2
      /\ groups'[n + 1] = g /\ groups'[n + 2] = h
      /\ \A i \in 1 .. n : groups'[i] = groups[i]
  <2>1. PICK S : groups \in Seq(S)
    BY <1>1 DEF IsPlan
  <2>2. groups \in Seq(S \cup {g, h}) /\ <<g, h>> \in Seq(S \cup {g, h})
    BY <2>1
  <2>3. groups' \in Seq(S \cup {g, h})
    BY <1>7, <2>2
  <2> QED
    BY <1>7, <2>2, <2>3 DEF IsPlan
<1>9. AudioPlaced'
  <2> HIDE DEF n
  <2> SUFFICES ASSUME NEW i \in 1 .. n + 2, groups'[i].is_audio
               PROVE  /\ 1 < i /\ ~ groups'[i - 1].is_audio
                      /\ ~ groups'[i + 1].is_audio
                      /\ groups'[i].frame_num = groups'[i + 1].frame_num
    BY <1>8 DEF AudioPlaced
  <2>1. i \in 1 .. n /\ groups[i].is_audio
    BY <1>6, <1>8
  <2>2. 1 < i /\ ~ groups[i - 1].is_audio /\ i - 1 \in 1 .. n
    BY <1>8, <2>1 DEF PlanInv, AudioPlaced, n
  <2>3. CASE i < n
    <3>1. i + 1 \in 1 .. n /\ ~ groups[i + 1].is_audio
          /\ groups[i].frame_num = groups[i + 1].frame_num
      BY <1>8, <2>1, <2>3 DEF PlanInv, AudioPlaced, n
    <3> QED
      BY <1>8, <2>1, <2>2, <3>1
  <2>4. CASE i = n
    <3>1. groups[n].frame_num = current_frame
      BY <1>8, <2>1, <2>4 DEF PlanInv, AudioPending, n
    <3> QED
      BY <1>6, <1>8, <2>1, <2>2, <2>4, <3>1
  <2> QED
    BY <1>8, <2>1, <2>3, <2>4
<1>10. AudioPending'
  BY <1>6, <1>8 DEF AudioPending
<1>11. audio_counter' \in Nat
  BY <1>1, <1>2 DEF Counted
<1>12. groups' # << >>
  BY <1>8
<1> QED
  BY <1>1, <1>2, <1>8, <1>9, <1>10, <1>11, <1>12 DEF PlanInv

LEMMA AudioKeepsInv ==
    ASSUME PlanInv, AppendAudio PROVE PlanInv'
<1>1. /\ IsPlan(groups) /\ current_frame \in Nat /\ produced_video_frames \in Nat
      /\ audio_counter \in Nat /\ config.min \in Nat /\ config.period \in Nat
      /\ config.target \in Nat
  BY DEF PlanInv
<1>2. /\ pc = "planning" /\ UNCHANGED <<pc, config, current_frame, produced_video_frames>>
      /\ groups' = Append(groups, AudioSpec)
      /\ audio_counter' = 0
      /\ produced_video_frames < config.target
      /\ config.period > 0 /\ audio_counter >= config.period
  BY DEF AppendAudio, Planning, AudioDue
<1>3. AudioSpec.is_audio = TRUE /\ AudioSpec.frame_num = current_frame
  BY DEF AudioSpec, GroupSpec
<1>4. groups # << >> /\ ~ (Len(groups) > 0 /\ groups[Len(groups)].is_audio)
  BY <1>1, <1>2 DEF PlanInv, AudioPending
<1>5. Len(groups) > 0
  BY <1>1, <1>4
<1>6. /\ IsPlan(groups') /\ Len(groups') = Len(groups) + 1
      /\ groups'[Len(groups')] = AudioSpec /\ AudioPlaced'
  BY <1>1, <1>2, <1>3, <1>4, <1>5, GroupAdded DEF PlanInv
<1>7. AudioPending'
  BY <1>2, <1>3, <1>6 DEF AudioPending
<1> QED
  BY <1>1, <1>2, <1>6, <1>7 DEF PlanInv

LEMMA VideoKeepsInv ==
    ASSUME PlanInv, AppendVideo PROVE PlanInv'
<1>1. /\ IsPlan(groups) /\ current_frame \in Nat /\ produced_video_frames \in Nat
      /\ audio_counter \in Nat /\ config.min \in Nat /\ config.max \in Nat
      /\ config.period \in Nat /\ config.target \in Nat
  BY DEF PlanInv
<1>2. /\ pc = "planning" /\ UNCHANGED <<pc, config>>
      /\ audio_counter' = Counted(2)
      /\ produced_video_frames < config.target
  BY DEF AppendVideo, Planning
<1>3. PICK span \in Nat :
         /\ \E sizes \in PayloadSizes(span) :
               groups' = Append(groups,
                   VideoSpec([i \in 1 .. span |-> IF i = 1 THEN "VideoI" ELSE "VideoP"], sizes))
         /\ current_frame' = current_frame + span
         /\ produced_video_frames' = produced_video_frames + span
  <2>1. PICK drawn \in 1 .. 3 :
          LET left == config.target - produced_video_frames
              frame_span == IF drawn > left THEN left ELSE drawn
          IN  /\ \E sizes \in PayloadSizes(frame_span) :
                    groups' = Append(groups,
                        VideoSpec([i \in 1 .. frame_span |-> IF i = 1 THEN "VideoI" ELSE "VideoP"],
                                  sizes))
              /\ current_frame' = current_frame + frame_span
              /\ produced_video_frames' = produced_video_frames + frame_span
    BY DEF AppendVideo
  <2> DEFINE left == config.target - produced_video_frames
             frame_span == IF drawn > left THEN left ELSE drawn
  <2>2. frame_span \in Nat
    BY <1>1, <1>2
  <2> QED
    BY <2>1, <2>2
<1>4. PICK sizes \in PayloadSizes(span) :
         groups' = Append(groups,
             VideoSpec([i \in 1 .. span |-> IF i = 1 THEN "VideoI" ELSE "VideoP"], sizes))
  BY <1>3
<1> DEFINE types == [i \in 1 .. span |-> IF i = 1 THEN "VideoI" ELSE "VideoP"]
           g == VideoSpec(types, sizes)
<1>7. g.is_audio = FALSE /\ g.frame_num = current_frame
  BY DEF VideoSpec, GroupSpec
<1>8. groups' = Append(groups, g)
  BY <1>4
<1> HIDE DEF g, types
<1>9. Len(groups) > 0 /\ groups[Len(groups)].is_audio =>
         g.frame_num = groups[Len(groups)].frame_num
  BY <1>7 DEF PlanInv, AudioPending
<1>10. /\ IsPlan(groups') /\ Len(groups') = Len(groups) + 1
       /\ groups'[Len(groups')] = g /\ AudioPlaced'
  BY <1>1, <1>7, <1>8, <1>9, GroupAdded DEF PlanInv
<1>11. AudioPending'
  BY <1>7, <1>10 DEF AudioPending
<1>12. audio_counter' \in Nat /\ current_frame' \in Nat /\ produced_video_frames' \in Nat
  BY <1>1, <1>2, <1>3 DEF Counted
<1>13. groups' # << >>
  BY <1>8, <1>1
<1> QED
  BY <1>1, <1>2, <1>10, <1>11, <1>12, <1>13 DEF PlanInv

-----------------------------------------------------------------------------
LEMMA PlanStarts == WriterInit => PlannedInv
<1> SUFFICES ASSUME WriterInit, pc \in {"planning", "planned"} PROVE PlanInv
  BY DEF PlannedInv
<1>1. Init
  BY DEF WriterInit
<1>2. config \in [target : Nat, period : Nat, shared : Nat, min : Nat, max : Nat]
  <2>1. config \in [target : 0 .. UIntMax, period : 0 .. UIntMax, shared : 0 .. UIntMax,
                    min : 0 .. UIntMax, max : 0 .. UIntMax]
    BY <1>1, PlanAssumption DEF Init
  <2>2. 0 .. UIntMax \subseteq Nat
    BY FormatAssumption
  <2> QED
    BY <2>1, <2>2
<1>3. groups = << >> /\ IsPlan(groups)
  BY <1>1 DEF Init, IsPlan
<1> QED
  BY <1>1, <1>2, <1>3 DEF Init, PlanInv, AudioPlaced, AudioPending

LEMMA PlannedStep ==
    ASSUME PlannedInv, [WriterNext]_writerVars PROVE PlannedInv'
<1> SUFFICES ASSUME pc' \in {"planning", "planned"} PROVE PlanInv'
  BY DEF PlannedInv
<1>1. CASE AppendPair \/ AppendAudio \/ AppendVideo
  <2>1. PlanInv
    BY <1>1 DEF AppendPair, AppendAudio, AppendVideo, Planning, PlannedInv
  <2> QED
    BY <1>1, <2>1, PairKeepsInv, AudioKeepsInv, VideoKeepsInv
<1>2. CASE PlanDone
  <2>1. /\ PlanInv /\ produced_video_frames >= config.target
        /\ UNCHANGED <<config, groups, current_frame, produced_video_frames, audio_counter>>
    BY <1>2 DEF PlanDone, PlannedInv
  <2> QED
    BY <2>1 DEF PlanInv, AudioPlaced, AudioPending
<1>3. CASE UNCHANGED writerVars
  <2>1. UNCHANGED planVars
    BY <1>3 DEF writerVars
  <2>2. UNCHANGED <<config, groups, current_frame, produced_video_frames, audio_counter, pc>>
    BY <2>1 DEF planVars
  <2> QED
    BY <2>2 DEF PlannedInv, PlanInv, AudioPlaced, AudioPending
<1>4. CASE EncodeGroup
  <2>1. pc = "building" /\ UNCHANGED planVars
    BY <1>4 DEF EncodeGroup
  <2> QED
    BY <2>1 DEF planVars
<1>5. CASE \/ PlanRejected \/ StartBuild \/ RefuseGroup \/ BuildDone
           \/ OpenFails \/ OpenFile \/ WriteAccepted \/ WriteFails \/ CloseStream
  <2>1. pc' \notin {"planning", "planned"}
    BY <1>5 DEF PlanRejected, StartBuild, RefuseGroup, BuildDone, OpenFails, OpenFile,
         WriteAccepted, WriteFails, CloseStream
  <2> QED
    BY <2>1
<1> QED
  BY <1>1, <1>2, <1>3, <1>4, <1>5 DEF WriterNext, MakePlan, Next

(* Audio groups stand between video groups, whatever the configuration and *)
(* whatever the pseudo-random generator returns.                           *)
THEOREM AudioStandsBetweenVideo == WriterSpec => []AudioBetweenVideo
<1>1. PlannedInv => AudioBetweenVideo
  <2> SUFFICES ASSUME PlanInv, pc = "planned",
                      NEW i \in DOMAIN groups, groups[i].is_audio
               PROVE  /\ 1 < i /\ i < Len(groups)
                      /\ ~ groups[i - 1].is_audio
                      /\ ~ groups[i + 1].is_audio
                      /\ groups[i].frame_num = groups[i + 1].frame_num
    BY DEF PlannedInv, AudioBetweenVideo
  <2>1. /\ produced_video_frames \in Nat /\ config.target \in Nat
        /\ produced_video_frames >= config.target
    BY DEF PlanInv
  <2>2. PICK S : groups \in Seq(S)
    BY DEF PlanInv, IsPlan
  <2>3. i \in 1 .. Len(groups) /\ Len(groups) \in Nat
    BY <2>2
  <2>4. i < Len(groups)
    <3>1. i # Len(groups)
      BY <2>1, <2>3 DEF PlanInv, AudioPending
    <3> QED
      BY <2>3, <3>1
  <2> QED
    BY <2>3, <2>4 DEF PlanInv, AudioPlaced
<1> QED
  BY <1>1, PlanStarts, PlannedStep, PTL DEF WriterSpec

-----------------------------------------------------------------------------
(* Which groups hold a frame. *)

(* A video group numbers its first block; the others count on from it. *)
Holds(g, frame) ==
    ~ g.is_audio /\ g.frame_num <= frame /\ frame < g.frame_num + Len(g.block_types)

HoldingIn(plan, frame) == {i \in DOMAIN plan : Holds(plan[i], frame)}

(* The frames planned so far are held twice if they are configured to be   *)
(* shared and once if not, and no frame is planned ahead of its turn.      *)
FramesInv ==
    /\ current_frame = produced_video_frames
    /\ produced_video_frames <= config.target
    /\ \A frame \in Nat :
          /\ IsFiniteSet(Holding(frame))
          /\ Cardinality(Holding(frame)) =
                IF frame >= current_frame THEN 0 ELSE IF frame < config.shared THEN 2 ELSE 1
    /\ pc = "planned" => produced_video_frames = config.target

PlannedFrames == pc \in {"planning", "planned"} => FramesInv

(* One more group holds a frame when the appended one does. *)
LEMMA HoldingAppended ==
    ASSUME NEW plan, IsPlan(plan), NEW g, NEW frame,
           IsFiniteSet(HoldingIn(plan, frame))
    PROVE  /\ IsFiniteSet(HoldingIn(Append(plan, g), frame))
           /\ Cardinality(HoldingIn(Append(plan, g), frame)) =
                 IF Holds(g, frame) THEN Cardinality(HoldingIn(plan, frame)) + 1
                 ELSE Cardinality(HoldingIn(plan, frame))
<1> DEFINE n == Len(plan)
           longer == Append(plan, g)
           old == HoldingIn(plan, frame)
<1>1. /\ n \in Nat /\ IsPlan(longer) /\ Len(longer) = n + 1
      /\ longer[n + 1] = g /\ \A i \in 1 .. n : longer[i] = plan[i]
  BY Appending
<1>2. /\ DOMAIN plan = 1 .. n
      /\ DOMAIN longer = 1 .. n + 1
  <2>1. PICK S : plan \in Seq(S)
    BY DEF IsPlan
  <2>2. PICK R : longer \in Seq(R)
    BY <1>1 DEF IsPlan
  <2> HIDE DEF longer
  <2> QED
    BY <1>1, <2>1, <2>2
<1>3. 1 .. n + 1 = (1 .. n) \cup {n + 1} /\ n + 1 \notin 1 .. n
  BY <1>1
<1> HIDE DEF n, longer
<1>4. old = {i \in 1 .. n : Holds(plan[i], frame)}
  BY <1>2 DEF HoldingIn
<1>5. \A i \in 1 .. n : longer[i] = plan[i]
  BY <1>1
<1>6. HoldingIn(longer, frame) = {i \in (1 .. n) \cup {n + 1} : Holds(longer[i], frame)}
  BY <1>2, <1>3 DEF HoldingIn
<1>7. CASE Holds(g, frame)
  <2>1. HoldingIn(longer, frame) = old \cup {n + 1} /\ n + 1 \notin old
    BY <1>1, <1>3, <1>4, <1>5, <1>6, <1>7, Zenon
  <2>2. /\ IsFiniteSet(old \cup {n + 1})
        /\ Cardinality(old \cup {n + 1}) = Cardinality(old) + 1
    <3> HIDE DEF old
    <3> QED
      BY <2>1, FS_AddElement DEF old
  <2> QED
    BY <1>7, <2>1, <2>2 DEF longer
<1>8. CASE ~ Holds(g, frame)
  <2>1. HoldingIn(longer, frame) = old
    BY <1>1, <1>3, <1>4, <1>5, <1>6, <1>8, Zenon
  <2> QED
    BY <1>8, <2>1 DEF longer
<1> QED
  BY <1>7, <1>8

(* Holding, of the plan so far. *)
LEMMA HoldingOfPlan == \A frame : Holding(frame) = HoldingIn(groups, frame)
BY DEF Holding, HoldingIn, Holds

LEMMA PairKeepsFrames ==
    ASSUME PlanInv, FramesInv, AppendPair PROVE FramesInv'
<1>1. /\ IsPlan(groups) /\ current_frame \in Nat /\ produced_video_frames \in Nat
      /\ config.target \in Nat /\ config.shared \in Nat
      /\ current_frame = produced_video_frames
  BY DEF PlanInv, FramesInv
<1>2. /\ pc = "planning" /\ pc' = pc /\ config' = config
      /\ current_frame' = current_frame + 1
      /\ produced_video_frames' = produced_video_frames + 1
      /\ produced_video_frames < config.target
      /\ produced_video_frames < config.shared
  BY DEF AppendPair, Planning, PairDue
<1>3. PICK sizes \in PayloadSizes(2) :
         groups' = groups \o <<VideoSpec(<<"VideoI">>, <<sizes[1]>>),
                               VideoSpec(<<"VideoP">>, <<sizes[2]>>)>>
  BY DEF AppendPair
<1> DEFINE g == VideoSpec(<<"VideoI">>, <<sizes[1]>>)
           h == VideoSpec(<<"VideoP">>, <<sizes[2]>>)
<1>4. \A frame \in Nat : /\ Holds(g, frame) <=> frame = current_frame
                         /\ Holds(h, frame) <=> frame = current_frame
  <2>1. /\ g.is_audio = FALSE /\ g.frame_num = current_frame /\ Len(g.block_types) = 1
        /\ h.is_audio = FALSE /\ h.frame_num = current_frame /\ Len(h.block_types) = 1
    BY DEF VideoSpec, GroupSpec
  <2> HIDE DEF g, h
  <2> QED
    BY <1>1, <2>1 DEF Holds
<1>5. groups' = groups \o <<g, h>>
  BY <1>3
<1> HIDE DEF g, h
<1>6. groups' = Append(Append(groups, g), h)
  <2>1. PICK S : groups \in Seq(S)
    BY <1>1 DEF IsPlan
  <2>2. groups \in Seq(S \cup {g, h}) /\ g \in S \cup {g, h} /\ h \in S \cup {g, h}
    BY <2>1
  <2> QED
    BY <1>5, <2>2
<1>7. ASSUME NEW frame \in Nat
      PROVE  /\ IsFiniteSet(HoldingIn(groups', frame))
             /\ Cardinality(HoldingIn(groups', frame)) =
                   IF frame >= current_frame + 1 THEN 0
                   ELSE IF frame < config.shared THEN 2 ELSE 1
  <2> DEFINE c == Cardinality(HoldingIn(groups, frame))
             one == Append(groups, g)
  <2>1. /\ IsFiniteSet(HoldingIn(groups, frame))
        /\ c = IF frame >= current_frame THEN 0 ELSE IF frame < config.shared THEN 2 ELSE 1
    BY HoldingOfPlan DEF FramesInv
  <2>2. /\ IsPlan(one) /\ IsFiniteSet(HoldingIn(one, frame))
        /\ Cardinality(HoldingIn(one, frame)) = IF Holds(g, frame) THEN c + 1 ELSE c
    BY <1>1, <2>1, Appending, HoldingAppended
  <2> HIDE DEF one
  <2>3. /\ IsFiniteSet(HoldingIn(Append(one, h), frame))
        /\ Cardinality(HoldingIn(Append(one, h), frame)) =
              IF Holds(h, frame) THEN Cardinality(HoldingIn(one, frame)) + 1
              ELSE Cardinality(HoldingIn(one, frame))
    BY <2>2, HoldingAppended
  <2>4. c \in Nat
    BY <2>1
  <2>5. Cardinality(HoldingIn(Append(one, h), frame)) =
           IF frame >= current_frame + 1 THEN 0 ELSE IF frame < config.shared THEN 2 ELSE 1
    <3> HIDE DEF c
    <3> QED
      BY <1>1, <1>2, <1>4, <2>1, <2>2, <2>3, <2>4
  <2> QED
    BY <1>6, <2>3, <2>5 DEF one
<1>8. \A frame : Holding(frame)' = HoldingIn(groups', frame)
  BY DEF Holding, HoldingIn, Holds
<1> QED
  BY <1>1, <1>2, <1>7, <1>8 DEF FramesInv

LEMMA AudioKeepsFrames ==
    ASSUME PlanInv, FramesInv, AppendAudio PROVE FramesInv'
<1>1. /\ pc = "planning" /\ UNCHANGED <<pc, config, current_frame, produced_video_frames>>
      /\ groups' = Append(groups, AudioSpec)
  BY DEF AppendAudio, Planning
<1>2. \A frame : ~ Holds(AudioSpec, frame)
  <2>1. AudioSpec.is_audio = TRUE
    BY DEF AudioSpec, GroupSpec
  <2> QED
    BY <2>1 DEF Holds
<1>3. ASSUME NEW frame \in Nat
      PROVE  /\ IsFiniteSet(HoldingIn(groups', frame))
             /\ Cardinality(HoldingIn(groups', frame)) = Cardinality(HoldingIn(groups, frame))
  <2>1. IsPlan(groups) /\ IsFiniteSet(HoldingIn(groups, frame))
    BY HoldingOfPlan DEF FramesInv, PlanInv
  <2> QED
    BY <1>1, <1>2, <2>1, HoldingAppended
<1>4. \A frame : Holding(frame)' = HoldingIn(groups', frame)
  BY DEF Holding, HoldingIn, Holds
<1> QED
  BY <1>1, <1>3, <1>4, HoldingOfPlan DEF FramesInv

LEMMA VideoKeepsFrames ==
    ASSUME PlanInv, FramesInv, AppendVideo PROVE FramesInv'
<1>1. /\ IsPlan(groups) /\ current_frame \in Nat /\ produced_video_frames \in Nat
      /\ config.target \in Nat /\ config.shared \in Nat
      /\ current_frame = produced_video_frames
  BY DEF PlanInv, FramesInv
<1>2. /\ pc = "planning" /\ UNCHANGED <<pc, config>>
      /\ produced_video_frames < config.target
      /\ produced_video_frames >= config.shared
  BY <1>1 DEF AppendVideo, Planning, PairDue
<1>3. PICK span \in Nat :
         /\ produced_video_frames + span <= config.target
         /\ \E sizes \in PayloadSizes(span) :
               groups' = Append(groups,
                   VideoSpec([i \in 1 .. span |-> IF i = 1 THEN "VideoI" ELSE "VideoP"], sizes))
         /\ current_frame' = current_frame + span
         /\ produced_video_frames' = produced_video_frames + span
  <2>1. PICK drawn \in 1 .. 3 :
          LET left == config.target - produced_video_frames
              frame_span == IF drawn > left THEN left ELSE drawn
          IN  /\ \E sizes \in PayloadSizes(frame_span) :
                    groups' = Append(groups,
                        VideoSpec([i \in 1 .. frame_span |-> IF i = 1 THEN "VideoI" ELSE "VideoP"],
                                  sizes))
              /\ current_frame' = current_frame + frame_span
              /\ produced_video_frames' = produced_video_frames + frame_span
    BY DEF AppendVideo
  <2> DEFINE left == config.target - produced_video_frames
             frame_span == IF drawn > left THEN left ELSE drawn
  <2>2. frame_span \in Nat /\ produced_video_frames + frame_span <= config.target
    BY <1>1, <1>2
  <2> QED
    BY <2>1, <2>2
<1>4. PICK sizes \in PayloadSizes(span) :
         groups' = Append(groups,
             VideoSpec([i \in 1 .. span |-> IF i = 1 THEN "VideoI" ELSE "VideoP"], sizes))
  BY <1>3
<1> DEFINE types == [i \in 1 .. span |-> IF i = 1 THEN "VideoI" ELSE "VideoP"]
           g == VideoSpec(types, sizes)
<1>5. \A frame \in Nat :
         Holds(g, frame) <=> current_frame <= frame /\ frame < current_frame + span
  <2>1. g.is_audio = FALSE /\ g.frame_num = current_frame /\ g.block_types = types
    BY DEF VideoSpec, GroupSpec
  <2>2. Len(types) = span
    <3>1. types \in Seq({"VideoI", "VideoP"}) /\ DOMAIN types = 1 .. span
      OBVIOUS
    <3> HIDE DEF types
    <3> QED
      BY <3>1
  <2> HIDE DEF g, types
  <2> QED
    BY <2>1, <2>2 DEF Holds
<1>6. groups' = Append(groups, g)
  BY <1>4
<1> HIDE DEF g
<1>7. ASSUME NEW frame \in Nat
      PROVE  /\ IsFiniteSet(HoldingIn(groups', frame))
             /\ Cardinality(HoldingIn(groups', frame)) =
                   IF frame >= current_frame + span THEN 0
                   ELSE IF frame < config.shared THEN 2 ELSE 1
  <2> DEFINE c == Cardinality(HoldingIn(groups, frame))
  <2>1. /\ IsFiniteSet(HoldingIn(groups, frame))
        /\ c = IF frame >= current_frame THEN 0 ELSE IF frame < config.shared THEN 2 ELSE 1
    BY HoldingOfPlan DEF FramesInv
  <2>2. /\ IsFiniteSet(HoldingIn(groups', frame))
        /\ Cardinality(HoldingIn(groups', frame)) = IF Holds(g, frame) THEN c + 1 ELSE c
    BY <1>1, <1>6, <2>1, HoldingAppended
  <2> HIDE DEF c
  <2> QED
    BY <1>1, <1>2, <1>5, <2>1, <2>2
<1>8. \A frame : Holding(frame)' = HoldingIn(groups', frame)
  BY DEF Holding, HoldingIn, Holds
<1> QED
  BY <1>1, <1>2, <1>3, <1>7, <1>8 DEF FramesInv

LEMMA FramesStart == WriterInit => PlannedFrames
<1> SUFFICES ASSUME WriterInit, pc \in {"planning", "planned"} PROVE FramesInv
  BY DEF PlannedFrames
<1>1. Init
  BY DEF WriterInit
<1>2. config.target \in Nat
  BY <1>1, PlanAssumption, FormatAssumption DEF Init
<1>3. \A frame : Holding(frame) = {}
  BY <1>1 DEF Init, Holding
<1>4. \A frame \in Nat : IsFiniteSet(Holding(frame)) /\ Cardinality(Holding(frame)) = 0
  BY <1>3, FS_EmptySet
<1> QED
  BY <1>1, <1>2, <1>4 DEF Init, FramesInv

LEMMA FramesStep ==
    ASSUME PlannedInv, PlannedFrames, [WriterNext]_writerVars PROVE PlannedFrames'
<1> SUFFICES ASSUME pc' \in {"planning", "planned"} PROVE FramesInv'
  BY DEF PlannedFrames
<1>1. CASE AppendPair \/ AppendAudio \/ AppendVideo
  <2>1. PlanInv /\ FramesInv
    BY <1>1 DEF AppendPair, AppendAudio, AppendVideo, Planning, PlannedInv, PlannedFrames
  <2> QED
    BY <1>1, <2>1, PairKeepsFrames, AudioKeepsFrames, VideoKeepsFrames
<1>2. CASE PlanDone
  <2>1. /\ PlanInv /\ FramesInv /\ produced_video_frames >= config.target
        /\ UNCHANGED <<config, groups, current_frame, produced_video_frames, audio_counter>>
    BY <1>2 DEF PlanDone, PlannedInv, PlannedFrames
  <2>2. produced_video_frames = config.target
    BY <2>1 DEF PlanInv, FramesInv
  <2> QED
    BY <2>1, <2>2 DEF FramesInv, Holding
<1>3. CASE UNCHANGED writerVars
  <2>1. UNCHANGED planVars
    BY <1>3 DEF writerVars
  <2>2. UNCHANGED <<config, groups, current_frame, produced_video_frames, audio_counter, pc>>
    BY <2>1 DEF planVars
  <2> QED
    BY <2>2 DEF PlannedFrames, FramesInv, Holding
<1>4. CASE EncodeGroup
  <2>1. pc = "building" /\ UNCHANGED planVars
    BY <1>4 DEF EncodeGroup
  <2> QED
    BY <2>1 DEF planVars
<1>5. CASE \/ PlanRejected \/ StartBuild \/ RefuseGroup \/ BuildDone
           \/ OpenFails \/ OpenFile \/ WriteAccepted \/ WriteFails \/ CloseStream
  <2>1. pc' \notin {"planning", "planned"}
    BY <1>5 DEF PlanRejected, StartBuild, RefuseGroup, BuildDone, OpenFails, OpenFile,
         WriteAccepted, WriteFails, CloseStream
  <2> QED
    BY <2>1
<1> QED
  BY <1>1, <1>2, <1>3, <1>4, <1>5 DEF WriterNext, MakePlan, Next

(* A finished plan holds every configured frame, the shared ones in two    *)
(* groups and the others in one, and nothing else, whatever spans the      *)
(* generator draws and wherever the audio groups fall.                     *)
THEOREM EachFrameIsPlannedOnce == WriterSpec => []EveryFrameOnce
<1>1. PlannedInv /\ PlannedFrames => EveryFrameOnce
  <2> SUFFICES ASSUME PlanInv, FramesInv, pc = "planned",
                      NEW frame \in 0 .. config.target + 2
               PROVE  Cardinality(Holding(frame)) =
                         IF frame >= config.target THEN 0
                         ELSE IF frame < config.shared THEN 2 ELSE 1
    BY DEF PlannedInv, PlannedFrames, EveryFrameOnce
  <2>1. frame \in Nat
    BY DEF PlanInv
  <2> QED
    BY <2>1 DEF FramesInv
<1> QED
  BY <1>1, PlanStarts, PlannedStep, FramesStart, FramesStep, PTL DEF WriterSpec

-----------------------------------------------------------------------------
(* The file. *)

(* Every group handed to the encoder is one its words can hold. *)
SpecsInv ==
    /\ config \in [target : 0 .. UIntMax, period : 0 .. UIntMax, shared : 0 .. UIntMax,
                   min : 0 .. UIntMax, max : 0 .. UIntMax]
    /\ groups \in Seq(GroupSpecs)

(* The buffer holds the groups encoded so far, one behind the other. *)
BufferInv ==
    /\ index \in Nat /\ index <= Len(groups)
    /\ Laid(bytes, groups, index)
    /\ pc \in {"planning", "planned"} => index = 0 /\ bytes = AppendFileHeader

(* What is on the disk, once anything is, is the beginning of the buffer.  *)
DiskInv ==
    \/ disk = OldFile
    \/ /\ pc \notin {"planning", "planned", "building", "built"}
       /\ \E n \in 0 .. bytes.size : disk = Truncated(bytes, n)

FileInv == SpecsInv /\ BufferInv /\ DiskInv

(* What the planner makes fits the words of a header. *)
LEMMA PlannedSpecs ==
    ASSUME SpecsInv, current_frame \in 0 .. UIntMax
    PROVE  /\ AudioSpec \in GroupSpecs
           /\ \A types \in Seq(AudioBlockTypes \cup VideoBlockTypes) :
                 \A sizes \in Seq(0 .. UIntMax) : VideoSpec(types, sizes) \in GroupSpecs
           /\ \A n \in Nat : \A sizes \in PayloadSizes(n) : sizes \in [1 .. n -> 0 .. UIntMax]
<1> DEFINE Types == AudioBlockTypes \cup VideoBlockTypes
           Words == 0 .. UIntMax
           half == IF config.min \div 2 = 0 THEN 1 ELSE config.min \div 2
<1>1. UIntMax \in Nat /\ 4096 < UIntMax
  BY FormatAssumption DEF kConstNumberBase
<1>2. config.min \in Words /\ config.max \in Words
  BY DEF SpecsInv
<1>3. half \in Words
  <2> DEFINE min == config.min
  <2>1. min \in Nat /\ min <= UIntMax
    BY <1>1, <1>2
  <2> HIDE DEF min
  <2>2. min \div 2 \in Nat /\ min \div 2 <= min
    BY <2>1
  <2>3. half \in Nat /\ half <= UIntMax
    BY <1>1, <2>1, <2>2 DEF min
  <2> HIDE DEF half
  <2> QED
    BY <1>1, <2>3
<1>4. <<"AudioI">> \in Seq(Types)
  BY DEF AudioBlockTypes
<1> HIDE DEF half, Types
<1>5. <<half>> \in Seq(Words)
  BY <1>3
<1>6. AudioSpec = [frame_num |-> current_frame, is_audio |-> TRUE, block_types |-> <<"AudioI">>,
                   payload_size |-> half, block_payload_sizes |-> <<half>>]
  BY DEF AudioSpec, GroupSpec, half
<1>7. AudioSpec \in GroupSpecs
  <2>1. GroupSpecs = [frame_num : Words, is_audio : BOOLEAN, block_types : Seq(Types),
                      payload_size : Words, block_payload_sizes : Seq(Words)]
    BY DEF GroupSpecs, Types
  <2> HIDE DEF Words
  <2> QED
    BY <1>3, <1>4, <1>5, <1>6, <2>1 DEF Words
<1>8. ASSUME NEW types \in Seq(Types), NEW sizes \in Seq(Words)
      PROVE  VideoSpec(types, sizes) \in GroupSpecs
  <2>1. GroupSpecs = [frame_num : Words, is_audio : BOOLEAN, block_types : Seq(Types),
                      payload_size : Words, block_payload_sizes : Seq(Words)]
    BY DEF GroupSpecs, Types
  <2>2. VideoSpec(types, sizes) =
           [frame_num |-> current_frame, is_audio |-> FALSE, block_types |-> types,
            payload_size |-> config.min, block_payload_sizes |-> sizes]
    BY DEF VideoSpec, GroupSpec
  <2> QED
    BY <1>2, <2>1, <2>2
<1>9. ASSUME NEW n \in Nat, NEW sizes \in PayloadSizes(n)
      PROVE  sizes \in [1 .. n -> Words]
  <2>1. sizes \in [1 .. n -> config.min .. config.max]
    BY DEF PayloadSizes
  <2>2. config.min .. config.max \subseteq Words
    BY <1>1, <1>2
  <2> QED
    BY <2>1, <2>2
<1> QED
  BY <1>7, <1>8, <1>9 DEF Types

LEMMA PlannerKeepsSpecs ==
    ASSUME SpecsInv, PlanInv, FramesInv, AppendPair \/ AppendAudio \/ AppendVideo
    PROVE  SpecsInv'
<1> DEFINE Types == AudioBlockTypes \cup VideoBlockTypes
           Words == 0 .. UIntMax
<1>1. /\ config' = config /\ groups \in Seq(GroupSpecs)
      /\ produced_video_frames < config.target /\ produced_video_frames \in Nat
      /\ current_frame = produced_video_frames
      /\ config.target \in 0 .. UIntMax /\ UIntMax \in Nat
  BY FormatAssumption DEF SpecsInv, PlanInv, FramesInv, AppendPair, AppendAudio, AppendVideo, Planning
<1>2. current_frame \in 0 .. UIntMax
  BY <1>1
<1>3. /\ AudioSpec \in GroupSpecs
      /\ \A types \in Seq(Types) : \A sizes \in Seq(Words) : VideoSpec(types, sizes) \in GroupSpecs
      /\ \A n \in Nat : \A sizes \in PayloadSizes(n) : sizes \in [1 .. n -> Words]
  BY <1>2, PlannedSpecs
<1>4. \A S : \A n \in Nat : \A b \in [1 .. n -> S] : b \in Seq(S)
  OBVIOUS
<1>5. \A S : \A s \in Seq(S) : \A g, h \in S : Append(s, g) \in Seq(S) /\ s \o <<g, h>> \in Seq(S)
  OBVIOUS
<1>6. \A S : \A a \in S : <<a>> \in Seq(S)
  OBVIOUS
<1>7. "VideoI" \in Types /\ "VideoP" \in Types
  BY DEF VideoBlockTypes
<1> HIDE DEF Types, Words
<1>8. CASE AppendPair
  <2>1. PICK sizes \in PayloadSizes(2) :
           groups' = groups \o <<VideoSpec(<<"VideoI">>, <<sizes[1]>>),
                                 VideoSpec(<<"VideoP">>, <<sizes[2]>>)>>
    BY <1>8 DEF AppendPair
  <2>2. sizes \in [1 .. 2 -> Words]
    BY <1>3
  <2>3. <<sizes[1]>> \in Seq(Words) /\ <<sizes[2]>> \in Seq(Words)
    BY <1>6, <2>2
  <2>4. <<"VideoI">> \in Seq(Types) /\ <<"VideoP">> \in Seq(Types)
    BY <1>6, <1>7
  <2>5. /\ VideoSpec(<<"VideoI">>, <<sizes[1]>>) \in GroupSpecs
        /\ VideoSpec(<<"VideoP">>, <<sizes[2]>>) \in GroupSpecs
    BY <1>3, <2>3, <2>4
  <2>6. groups' \in Seq(GroupSpecs)
    BY <1>1, <1>5, <2>1, <2>5, Zenon
  <2> QED
    BY <1>1, <2>6 DEF SpecsInv
<1>9. CASE AppendAudio
  <2>1. groups' = Append(groups, AudioSpec)
    BY <1>9 DEF AppendAudio
  <2>2. groups' \in Seq(GroupSpecs)
    BY <1>1, <1>3, <1>5, <2>1, Zenon
  <2> QED
    BY <1>1, <2>2 DEF SpecsInv
<1>10. CASE AppendVideo
  <2> DEFINE left == config.target - produced_video_frames
             span(drawn) == IF drawn > left THEN left ELSE drawn
             types(n) == [i \in 1 .. n |-> IF i = 1 THEN "VideoI" ELSE "VideoP"]
  <2>1. PICK drawn \in 1 .. 3 : \E sizes \in PayloadSizes(span(drawn)) :
           groups' = Append(groups, VideoSpec(types(span(drawn)), sizes))
    BY <1>10 DEF AppendVideo
  <2>2. PICK sizes \in PayloadSizes(span(drawn)) :
           groups' = Append(groups, VideoSpec(types(span(drawn)), sizes))
    BY <2>1
  <2>3. span(drawn) \in Nat
    BY <1>1
  <2> DEFINE n == span(drawn)
  <2> HIDE DEF span
  <2> HIDE DEF n
  <2>4. types(n) \in [1 .. n -> Types]
    BY <1>7
  <2>5. types(n) \in Seq(Types)
    <3> HIDE DEF types
    <3> QED
      BY <1>4, <2>3, <2>4, Zenon DEF n
  <2>6. sizes \in Seq(Words)
    <3>1. sizes \in [1 .. n -> Words]
      BY <1>3, <2>2, <2>3 DEF n
    <3> QED
      BY <1>4, <2>3, <3>1, Zenon DEF n
  <2> HIDE DEF types
  <2>7. VideoSpec(types(n), sizes) \in GroupSpecs
    BY <1>3, <2>5, <2>6
  <2>8. groups' \in Seq(GroupSpecs)
    BY <1>1, <1>5, <2>2, <2>7, Zenon DEF n
  <2> QED
    BY <1>1, <2>8 DEF SpecsInv
<1> QED
  BY <1>8, <1>9, <1>10

LEMMA FileStart == WriterInit => FileInv
<1> SUFFICES ASSUME WriterInit PROVE FileInv
  OBVIOUS
<1>1. bytes = AppendFileHeader /\ index = 0 /\ disk = OldFile
  BY DEF WriterInit
<1>2. SpecsInv
  <2>1. CASE Init
    <3>1. groups \in Seq(GroupSpecs)
      BY <2>1 DEF Init
    <3>2. config \in Configs
      BY <2>1 DEF Init
    <3> QED
      BY <3>1, <3>2, PlanAssumption DEF SpecsInv
  <2>2. CASE ~ Init
    <3>1. /\ groups \in Plans
          /\ config = [target |-> 0, period |-> 0, shared |-> 0, min |-> 0, max |-> 0]
      BY <2>2 DEF WriterInit
    <3>2. 0 \in 0 .. UIntMax
      BY FormatAssumption
    <3> QED
      BY <3>1, <3>2, WriterAssumption DEF SpecsInv
  <2> QED
    BY <2>1, <2>2
<1>3. BufferInv
  <2>1. groups \in Seq(GroupSpecs)
    BY <1>2 DEF SpecsInv
  <2>2. Laid(AppendFileHeader, groups, 0)
    BY <2>1, LaidNothing
  <2>3. 0 <= Len(groups)
    BY <2>1
  <2> QED
    BY <1>1, <2>2, <2>3 DEF BufferInv
<1> QED
  BY <1>1, <1>2, <1>3 DEF FileInv, DiskInv

(* The encoder keeps groups apart, so the buffer has a size. *)
LEMMA BufferSize ==
    ASSUME SpecsInv, BufferInv
    PROVE  /\ bytes.size \in Nat /\ bytes.size = StartOf[index + 1]
           /\ Truncated(bytes, bytes.size) = bytes
<1>1. groups \in Seq(GroupSpecs) /\ index \in Nat /\ index <= Len(groups)
  BY DEF SpecsInv, BufferInv
<1>2. StartOf \in [1 .. index + 1 -> Nat]
  BY <1>1, StartsDefined DEF StartOf
<1>3. bytes.size = StartOf[index + 1] /\ HasFields(bytes)
  BY DEF BufferInv, Laid, StartOf
<1>4. index + 1 \in 1 .. index + 1
  BY <1>1
<1>5. bytes.size \in Nat
  BY <1>2, <1>3, <1>4
<1>6. Truncated(bytes, bytes.size) = bytes
  <2> DEFINE S == bytes.size
             C == bytes.start_code
             G == bytes.group
             B == bytes.block
  <2>1. bytes = [size |-> S, start_code |-> C, group |-> G, block |-> B]
    BY <1>3 DEF HasFields
  <2>2. Truncated(bytes, bytes.size) = [bytes EXCEPT !.size = S]
    BY DEF Truncated
  <2> HIDE DEF S, C, G, B
  <2> QED
    BY <2>1, <2>2
<1> QED
  BY <1>3, <1>5, <1>6

(* One more group is laid behind those that are in the buffer. *)
LEMMA EncoderKeepsFile ==
    ASSUME FileInv, EncodeGroup PROVE FileInv'
<1>1. /\ pc = "building" /\ index < Len(groups) /\ Acceptable(groups[index + 1])
      /\ bytes' = AppendGroup(bytes, groups[index + 1])
      /\ index' = index + 1 /\ disk' = disk
      /\ UNCHANGED <<config, groups, pc>>
  BY DEF EncodeGroup, planVars
<1>2. groups \in Seq(GroupSpecs) /\ index \in Nat /\ Laid(bytes, groups, index)
  BY DEF FileInv, SpecsInv, BufferInv
<1>3. /\ index + 1 <= Len(groups) /\ index + 1 \in 1 .. Len(groups) /\ Len(groups) \in Nat
  BY <1>1, <1>2
<1>4. groups[index + 1] \in GroupSpecs
  BY <1>2, <1>3
<1>5. Len(groups[index + 1].block_types) > 0
  <2> DEFINE types == groups[index + 1].block_types
  <2>1. types \in Seq(AudioBlockTypes \cup VideoBlockTypes) /\ types # << >>
    BY <1>1, <1>4, SpecFields DEF Acceptable
  <2> HIDE DEF types
  <2>2. \A S : \A s \in Seq(S) : s # << >> => Len(s) > 0
    OBVIOUS
  <2>3. Len(types) > 0
    BY <2>1, <2>2, Zenon
  <2> QED
    BY <2>3 DEF types
<1>6. Laid(bytes', groups, index + 1)
  BY <1>1, <1>2, <1>3, <1>5, LaidMore
<1>7. BufferInv'
  BY <1>1, <1>2, <1>3, <1>6 DEF BufferInv
<1>8. DiskInv'
  BY <1>1 DEF FileInv, DiskInv
<1>9. SpecsInv'
  BY <1>1 DEF FileInv, SpecsInv
<1> QED
  BY <1>7, <1>8, <1>9 DEF FileInv

(* What the stream leaves in the file is the beginning of the buffer. *)
LEMMA StreamKeepsFile ==
    ASSUME FileInv,
           \/ MakePlan /\ groups' = groups
           \/ StartBuild \/ RefuseGroup \/ BuildDone
           \/ OpenFails \/ OpenFile \/ WriteAccepted \/ WriteFails \/ CloseStream
           \/ UNCHANGED writerVars
    PROVE  FileInv'
<1>1. UNCHANGED <<config, groups, bytes, index>>
  BY DEF MakePlan, Next, PlanRejected, AppendPair, AppendAudio, AppendVideo, PlanDone,
         StartBuild, RefuseGroup, BuildDone, OpenFails, OpenFile, WriteAccepted, WriteFails,
         CloseStream, planState, planVars, writerVars
<1>2. SpecsInv'
  BY <1>1 DEF FileInv, SpecsInv
<1>3. /\ bytes.size \in Nat /\ Truncated(bytes, bytes.size) = bytes
  BY BufferSize DEF FileInv
<1>4. pc' \in {"planning", "planned"} => pc \in {"planning", "planned"}
  BY DEF MakePlan, Next, PlanRejected, AppendPair, AppendAudio, AppendVideo, PlanDone,
         StartBuild, RefuseGroup, BuildDone, OpenFails, OpenFile, WriteAccepted, WriteFails,
         CloseStream, Planning, planVars, writerVars
<1>5. BufferInv'
  BY <1>1, <1>4 DEF FileInv, BufferInv
<1>6. DiskInv'
  <2>1. CASE MakePlan \/ StartBuild \/ RefuseGroup \/ BuildDone \/ OpenFails
    <3>1. disk' = disk /\ pc \in {"planning", "planned", "building", "built"}
      BY <2>1 DEF MakePlan, Next, PlanRejected, AppendPair, AppendAudio, AppendVideo, PlanDone,
                  Planning, StartBuild, RefuseGroup, BuildDone, OpenFails
    <3>2. disk = OldFile
      BY <3>1 DEF FileInv, DiskInv
    <3> QED
      BY <3>1, <3>2 DEF DiskInv
  <2>2. CASE OpenFile
    <3>1. pc' = "opened" /\ disk' = Truncated(bytes, 0) /\ 0 \in 0 .. bytes.size
      BY <1>3, <2>2 DEF OpenFile
    <3> QED
      BY <1>1, <3>1 DEF DiskInv
  <2>3. CASE WriteAccepted \/ WriteFails
    <3>1. pc' \in {"returning", "failed"}
      BY <2>3 DEF WriteAccepted, WriteFails
    <3>2. PICK n \in ShortWrites \cup {bytes.size} : disk' = Truncated(bytes, n)
      BY <2>3 DEF WriteAccepted, WriteFails
    <3>3. n \in 0 .. bytes.size
      BY <1>3, <3>2 DEF ShortWrites
    <3> QED
      BY <1>1, <3>1, <3>2, <3>3 DEF DiskInv
  <2>4. CASE CloseStream
    <3>1. pc = "returning" /\ pc' = "closed" /\ disk' \in {bytes, disk}
      BY <2>4 DEF CloseStream
    <3>2. bytes.size \in 0 .. bytes.size
      BY <1>3
    <3>3. CASE disk' = bytes
      BY <1>1, <1>3, <3>1, <3>2, <3>3 DEF DiskInv
    <3>4. CASE disk' = disk
      BY <1>1, <3>1, <3>4 DEF FileInv, DiskInv
    <3> QED
      BY <3>1, <3>3, <3>4
  <2>5. CASE UNCHANGED writerVars
    BY <1>1, <2>5 DEF FileInv, DiskInv, writerVars, planVars
  <2> QED
    BY <2>1, <2>2, <2>3, <2>4, <2>5
<1> QED
  BY <1>2, <1>5, <1>6 DEF FileInv

(* While the plan is made nothing is encoded. *)
LEMMA PlannerKeepsFile ==
    ASSUME PlanInv, FramesInv, FileInv, UNCHANGED <<bytes, index, disk>>,
           AppendPair \/ AppendAudio \/ AppendVideo
    PROVE  FileInv'
<1>1. pc = "planning" /\ pc' = pc
  BY DEF AppendPair, AppendAudio, AppendVideo, Planning
<1>2. SpecsInv'
  BY PlannerKeepsSpecs DEF FileInv
<1>3. /\ bytes' = AppendFileHeader /\ index' = 0 /\ disk' = OldFile
  BY <1>1 DEF FileInv, BufferInv, DiskInv
<1>4. groups' \in Seq(GroupSpecs)
  BY <1>2 DEF SpecsInv
<1>5. Laid(AppendFileHeader, groups', 0) /\ 0 <= Len(groups')
  BY <1>4, LaidNothing
<1>6. BufferInv'
  BY <1>3, <1>5 DEF BufferInv
<1> QED
  BY <1>2, <1>3, <1>6 DEF FileInv, DiskInv

LEMMA FileStep ==
    ASSUME PlannedInv, PlannedFrames, FileInv, [WriterNext]_writerVars PROVE FileInv'
<1>1. CASE MakePlan /\ (AppendPair \/ AppendAudio \/ AppendVideo)
  <2>1. PlanInv /\ FramesInv
    BY <1>1 DEF AppendPair, AppendAudio, AppendVideo, Planning, PlannedInv, PlannedFrames
  <2> QED
    BY <1>1, <2>1, PlannerKeepsFile DEF MakePlan
<1>2. CASE MakePlan /\ (PlanRejected \/ PlanDone)
  <2>1. groups' = groups
    BY <1>2 DEF PlanRejected, PlanDone
  <2> QED
    BY <1>2, <2>1, StreamKeepsFile
<1>3. CASE EncodeGroup
  BY <1>3, EncoderKeepsFile
<1>4. CASE \/ StartBuild \/ RefuseGroup \/ BuildDone
           \/ OpenFails \/ OpenFile \/ WriteAccepted \/ WriteFails \/ CloseStream
           \/ UNCHANGED writerVars
  BY <1>4, StreamKeepsFile
<1> QED
  BY <1>1, <1>2, <1>3, <1>4 DEF WriterNext, MakePlan, Next

LEMMA FileAlways == WriterSpec => [](FileInv /\ PlannedInv /\ PlannedFrames)
BY PlanStarts, PlannedStep, FramesStart, FramesStep, FileStart, FileStep, PTL DEF WriterSpec

(* The parsers see the buffer, and what is on the disk, as it was written. *)
LEMMA FileIsView ==
    ASSUME FileInv
    PROVE  /\ groups \in Seq(GroupSpecs) /\ index \in Nat /\ index <= Len(groups)
           /\ IsViewOf(View(bytes), groups, index, bytes.size)
           /\ \A i \in 1 .. index + 1 : StartOf[i] <= bytes.size
           /\ disk # OldFile => IsViewOf(View(disk), groups, index, disk.size)
<1>1. groups \in Seq(GroupSpecs) /\ index \in Nat /\ index <= Len(groups)
  BY DEF FileInv, SpecsInv, BufferInv
<1>2. Laid(bytes, groups, index) /\ HasFields(bytes)
  BY DEF FileInv, BufferInv, Laid
<1>3. /\ bytes.size \in Nat /\ bytes.size = StartOf[index + 1]
      /\ Truncated(bytes, bytes.size) = bytes
  BY BufferSize DEF FileInv
<1>4. \A m \in Nat : IsViewOf(View(Truncated(bytes, m)), groups, index, m)
  BY <1>1, <1>2, CutFilesAreReadAsWritten
<1>5. IsViewOf(View(bytes), groups, index, bytes.size)
  <2>1. IsViewOf(View(Truncated(bytes, bytes.size)), groups, index, bytes.size)
    BY <1>3, <1>4
  <2> QED
    BY <1>3, <2>1
<1>6. \A i \in 1 .. index + 1 : StartOf[i] <= bytes.size
  <2>1. \A i \in 1 .. index + 1 : index + 1 \in i .. index + 1
    BY <1>1
  <2>2. \A i \in 1 .. index + 1 : \A j \in i .. index + 1 : StartOf[i] <= StartOf[j]
    BY <1>1, StartsApart DEF StartOf
  <2> QED
    BY <1>3, <2>1, <2>2
<1>7. ASSUME disk # OldFile PROVE IsViewOf(View(disk), groups, index, disk.size)
  <2>1. PICK n \in 0 .. bytes.size : disk = Truncated(bytes, n)
    BY <1>7 DEF FileInv, DiskInv
  <2>2. n \in Nat
    BY <1>3
  <2>3. disk.size = n
    <3> DEFINE C == bytes.start_code
               G == bytes.group
               B == bytes.block
               Z == bytes.size
    <3>1. bytes = [size |-> Z, start_code |-> C, group |-> G, block |-> B]
      BY <1>2 DEF HasFields
    <3>2. disk = [bytes EXCEPT !.size = n]
      BY <2>1 DEF Truncated
    <3> HIDE DEF C, G, B, Z
    <3> QED
      BY <3>1, <3>2
  <2>4. IsViewOf(View(Truncated(bytes, n)), groups, index, n)
    BY <1>4, <2>2
  <2> QED
    BY <2>1, <2>3, <2>4
<1> QED
  BY <1>1, <1>5, <1>6, <1>7

(* A frame number that has wrapped around in its header word is rejected   *)
(* by the parser, never read as another frame, for every group that any    *)
(* caller hands in.                                                        *)
THEOREM FrameNumbersAreNeverMisread == WriterSpec => []NeverMisread
<1>1. FileInv => NeverMisread
  <2> SUFFICES ASSUME FileInv, NEW i \in 1 .. index, StartOf[i] \in DOMAIN View(bytes).heads
               PROVE  View(bytes).heads[StartOf[i]].frame = groups[i].frame_num
    BY DEF NeverMisread
  <2>1. IsViewOf(View(bytes), groups, index, bytes.size)
    BY FileIsView
  <2> QED
    BY <2>1 DEF IsViewOf, StartOf
<1> QED
  BY <1>1, FileAlways, PTL

(* After every step of the build the parsers find the representable groups *)
(* where they were put, as they were handed in, and nothing else.          *)
THEOREM WrittenGroupsReadBack == WriterSpec => []ReadsBack
<1>1. FileInv => ReadsBack
  <2> SUFFICES ASSUME FileInv PROVE ReadsBack
    OBVIOUS
  <2> DEFINE view == View(bytes)
             good == {i \in 1 .. index : Representable(groups[i])}
  <2>1. /\ IsViewOf(view, groups, index, bytes.size)
        /\ index \in Nat
        /\ \A i \in 1 .. index + 1 : StartOf[i] <= bytes.size
    BY FileIsView
  <2> HIDE DEF view
  <2>2. \A i \in 1 .. index : StartOf[i + 1] <= bytes.size
    <3>1. \A i \in 1 .. index : i + 1 \in 1 .. index + 1
      BY <2>1
    <3> QED
      BY <2>1, <3>1
  <2>3. good = {j \in 1 .. index : Representable(groups[j]) /\ StartOf[j + 1] <= bytes.size}
    BY <2>2
  <2>4. DOMAIN view.groups = {StartOf[i] : i \in good}
    BY <2>1, <2>3 DEF IsViewOf, StartOf
  <2>5. ASSUME NEW i \in good
        PROVE  LET group == view.groups[StartOf[i]]
               IN  /\ group.frame = groups[i].frame_num
                   /\ group.audio = groups[i].is_audio
                   /\ BlocksRead(group) = Blocks(groups[i])
                   /\ group.next = StartOf[i + 1]
    <3> DEFINE group == view.groups[StartOf[i]]
               spec == groups[i]
               n == Len(spec.block_types)
    <3>1. i \in 1 .. index /\ Representable(spec) /\ StartOf[i + 1] <= bytes.size
      BY <2>2
    <3>2. /\ group.frame = spec.frame_num /\ group.audio = spec.is_audio
          /\ group.next = StartOf[i + 1]
          /\ Len(group.blocks) = n
          /\ \A j \in 1 .. n :
                /\ group.blocks[j].video = (spec.block_types[j] \in VideoBlockTypes)
                /\ group.blocks[j].size = ResolveBlockPayloadSize(spec, j)
      BY <2>1, <3>1 DEF IsViewOf, StartOf
    <3> HIDE DEF group, spec
    <3>3. BlocksRead(group) = Blocks(spec)
      BY <3>2 DEF BlocksRead, Blocks
    <3> QED
      BY <3>2, <3>3 DEF group, spec
  <2> QED
    BY <2>4, <2>5 DEF ReadsBack, view
<1> QED
  BY <1>1, FileAlways, PTL

(* A file that a failing stream cut short is read as the groups that       *)
(* reached it whole.                                                       *)
THEOREM CutFileKeepsItsGroups == WriterSpec => []CutFileKeepsWholeGroups
<1>1. FileInv => CutFileKeepsWholeGroups
  <2> SUFFICES ASSUME FileInv, disk # OldFile
               PROVE  DOMAIN View(disk).groups =
                        {StartOf[i] : i \in {j \in 1 .. index :
                            Representable(groups[j]) /\ StartOf[j + 1] <= disk.size}}
    BY DEF CutFileKeepsWholeGroups
  <2>1. IsViewOf(View(disk), groups, index, disk.size)
    BY FileIsView
  <2> QED
    BY <2>1 DEF IsViewOf, StartOf
<1> QED
  BY <1>1, FileAlways, PTL

(* Groups that could be the next video group behind one. *)
Later(i) ==
    {j \in i + 1 .. index : ~ groups[j].is_audio
                            /\ \A k \in i + 1 .. j : Representable(groups[k])}

LEMMA LaterOfNext ==
    ASSUME index \in Nat, NEW i \in 1 .. index
    PROVE  /\ i = index => Later(i) = {}
           /\ i < index /\ ~ Representable(groups[i + 1]) => Later(i) = {}
           /\ i < index /\ Representable(groups[i + 1]) /\ groups[i + 1].is_audio =>
                 Later(i) = Later(i + 1)
           /\ i < index /\ Representable(groups[i + 1]) /\ ~ groups[i + 1].is_audio =>
                 i + 1 \in Later(i)
<1>1. /\ i \in Nat /\ i + 1 \in Nat
      /\ \A j \in i + 1 .. index : i + 1 \in i + 1 .. j
      /\ i = index => i + 1 .. index = {}
  OBVIOUS
<1>2. i = index => Later(i) = {}
  BY <1>1 DEF Later
<1>3. ~ Representable(groups[i + 1]) => Later(i) = {}
  BY <1>1 DEF Later
<1>4. ASSUME i < index, Representable(groups[i + 1]), groups[i + 1].is_audio
      PROVE  Later(i) = Later(i + 1)
  <2>1. ASSUME NEW j \in Later(i) PROVE j \in Later(i + 1)
    <3>1. j \in i + 1 .. index /\ ~ groups[j].is_audio
          /\ \A k \in i + 1 .. j : Representable(groups[k])
      BY DEF Later
    <3>2. j # i + 1
      BY <1>4, <3>1
    <3>3. j \in (i + 1) + 1 .. index
      BY <3>1, <3>2
    <3>4. \A k \in (i + 1) + 1 .. j : k \in i + 1 .. j
      OBVIOUS
    <3> QED
      BY <3>1, <3>3, <3>4 DEF Later
  <2>2. ASSUME NEW j \in Later(i + 1) PROVE j \in Later(i)
    <3>1. j \in (i + 1) + 1 .. index /\ ~ groups[j].is_audio
          /\ \A k \in (i + 1) + 1 .. j : Representable(groups[k])
      BY DEF Later
    <3>2. j \in i + 1 .. index
      BY <3>1
    <3>3. \A k \in i + 1 .. j : k = i + 1 \/ k \in (i + 1) + 1 .. j
      OBVIOUS
    <3>4. \A k \in i + 1 .. j : Representable(groups[k])
      BY <1>4, <3>1, <3>3
    <3> QED
      BY <3>1, <3>2, <3>4 DEF Later
  <2> QED
    BY <2>1, <2>2
<1>5. ASSUME i < index, Representable(groups[i + 1]), ~ groups[i + 1].is_audio
      PROVE  i + 1 \in Later(i)
  <2>1. i + 1 \in i + 1 .. index /\ \A k \in i + 1 .. i + 1 : k = i + 1
    BY <1>5
  <2> QED
    BY <1>5, <2>1 DEF Later
<1> QED
  BY <1>2, <1>3, <1>4, <1>5

(* The next video group as the property has it. *)
NextVideo(i) ==
    IF Later(i) = {} THEN NoGroup
    ELSE StartOf[CHOOSE j \in Later(i) : \A k \in Later(i) : j <= k]

(* The group behind tells the next video group of each group. *)
LEMMA FollowerOfNext ==
    ASSUME FileInv, NEW i \in 1 .. index, Representable(groups[i])
    PROVE  LET G == View(bytes).groups
           IN  \/ G[StartOf[i]].follower = NextVideo(i)
               \/ /\ i + 1 \in 1 .. index /\ Representable(groups[i + 1])
                  /\ G[StartOf[i]].follower = G[StartOf[i + 1]].follower
                  /\ NextVideo(i) = NextVideo(i + 1)
<1> DEFINE f == View(bytes)
           S == StartOf
           G == f.groups
           Whole(j) == Representable(groups[j]) /\ S[j + 1] <= bytes.size
<1>1. /\ groups \in Seq(GroupSpecs) /\ index \in Nat /\ index <= Len(groups)
      /\ IsViewOf(f, groups, index, bytes.size)
      /\ \A j \in 1 .. index + 1 : S[j] <= bytes.size
  BY FileIsView
<1> HIDE DEF f
<1>2. \A j \in 1 .. index : j + 1 \in 1 .. index + 1
  BY <1>1
<1>3. \A j \in 1 .. index : Whole(j) <=> Representable(groups[j])
  BY <1>1, <1>2
<1>4. DOMAIN G = {S[j] : j \in {k \in 1 .. index : Whole(k)}}
  BY <1>1 DEF IsViewOf, StartOf
<1>5. \A j \in 1 .. index : Whole(j) => G[S[j]].audio = groups[j].is_audio /\ G[S[j]].next = S[j + 1]
  BY <1>1 DEF IsViewOf, StartOf
<1>6. \A o \in DOMAIN G : Search!IsFollower(f, o)
  BY <1>1 DEF IsViewOf, Search!IsView
<1> HIDE DEF Whole
<1>7. /\ \A j \in 1 .. index + 1 : S[j] \in Nat
      /\ \A a \in 1 .. index : \A b \in a + 1 .. index + 1 : S[a] + 48 <= S[b]
  <2>1. groups \in Seq(GroupSpecs) /\ index \in Nat /\ index <= Len(groups)
    BY <1>1
  <2>2. Starts(groups, index) \in [1 .. index + 1 -> Nat]
    BY <2>1, StartsDefined
  <2>3. \A a \in 1 .. index : \A b \in a + 1 .. index + 1 :
           Starts(groups, index)[a] + 48 <= Starts(groups, index)[b]
    BY <2>1, StartsApart DEF kGroupHeaderSize
  <2> QED
    BY <2>2, <2>3 DEF StartOf
<1> HIDE DEF S, G
<1>8. ASSUME NEW a \in 1 .. index, NEW b \in 1 .. index + 1, S[a] = S[b] PROVE a = b
  <2>1. ASSUME NEW c \in 1 .. index, NEW d \in 1 .. index + 1, c < d PROVE S[c] # S[d]
    <3>1. d \in c + 1 .. index + 1 /\ c \in 1 .. index + 1
      BY <1>1, <2>1
    <3> QED
      BY <1>7, <3>1
  <2>2. CASE b < a
    <3>1. b \in 1 .. index /\ a \in 1 .. index + 1
      BY <1>1, <2>2
    <3> QED
      BY <1>8, <2>1, <2>2, <3>1
  <2>3. CASE a < b
    BY <1>8, <2>1, <2>3
  <2> QED
    BY <1>1, <2>2, <2>3
<1>9. S[i] \in DOMAIN G /\ G[S[i]].next = S[i + 1]
  BY <1>3, <1>4, <1>5
<1>10. G[S[i]].follower = IF S[i + 1] \notin DOMAIN G THEN 0
                          ELSE IF G[S[i + 1]].audio THEN G[S[i + 1]].follower
                          ELSE S[i + 1]
  BY <1>6, <1>9 DEF Search!IsFollower, Search!NoGroup, G
<1>11. S[i + 1] \in DOMAIN G <=> i < index /\ Representable(groups[i + 1])
  <2>1. ASSUME S[i + 1] \in DOMAIN G PROVE i < index /\ Representable(groups[i + 1])
    <3>1. PICK j \in 1 .. index : Representable(groups[j]) /\ S[j] = S[i + 1]
      BY <1>3, <1>4, <2>1
    <3>2. j = i + 1
      BY <1>2, <1>8, <3>1
    <3> QED
      BY <1>1, <3>1, <3>2
  <2>2. ASSUME i < index, Representable(groups[i + 1]) PROVE S[i + 1] \in DOMAIN G
    <3>1. i + 1 \in 1 .. index
      BY <1>1, <2>2
    <3> QED
      BY <1>3, <1>4, <2>2, <3>1
  <2> QED
    BY <2>1, <2>2
<1>12. CASE ~ (i < index /\ Representable(groups[i + 1]))
  <2>1. Later(i) = {}
    BY <1>1, <1>12, LaterOfNext
  <2>2. G[S[i]].follower = NextVideo(i)
    BY <1>10, <1>11, <1>12, <2>1 DEF NextVideo, NoGroup
  <2> QED
    BY <2>2 DEF G, S, f
<1>13. CASE i < index /\ Representable(groups[i + 1])
  <2>1. i + 1 \in 1 .. index
    BY <1>1, <1>13
  <2>2. G[S[i + 1]].audio = groups[i + 1].is_audio
    BY <1>3, <1>5, <1>13, <2>1
  <2>3. CASE groups[i + 1].is_audio
    <3>1. Later(i) = Later(i + 1)
      BY <1>1, <1>13, <2>3, LaterOfNext
    <3>2. NextVideo(i) = NextVideo(i + 1)
      BY <3>1 DEF NextVideo
    <3>3. G[S[i]].follower = G[S[i + 1]].follower
      BY <1>10, <1>11, <1>13, <2>2, <2>3
    <3> QED
      BY <1>13, <2>1, <3>2, <3>3 DEF G, S, f
  <2>4. CASE ~ groups[i + 1].is_audio
    <3>1. i + 1 \in Later(i)
      BY <1>1, <1>13, <2>4, LaterOfNext
    <3>2. \A k \in Later(i) : k \in Nat /\ i + 1 <= k
      BY <1>1 DEF Later
    <3>3. (CHOOSE j \in Later(i) : \A k \in Later(i) : j <= k) = i + 1
      <4> DEFINE L == Later(i)
                 first == CHOOSE j \in L : \A k \in L : j <= k
      <4> HIDE DEF L
      <4>1. \E j \in L : \A k \in L : j <= k
        BY <3>1, <3>2 DEF L
      <4>2. first \in L /\ \A k \in L : first <= k
        BY <4>1
      <4> HIDE DEF first
      <4>3. first = i + 1
        BY <3>1, <3>2, <4>2 DEF L
      <4> QED
        BY <4>3 DEF first, L
    <3>4. NextVideo(i) = S[i + 1]
      BY <3>1, <3>3 DEF NextVideo, S
    <3>5. G[S[i]].follower = S[i + 1]
      BY <1>10, <1>11, <1>13, <2>2, <2>4
    <3> QED
      BY <3>4, <3>5 DEF G, S, f
  <2> QED
    BY <2>3, <2>4
<1> QED
  BY <1>12, <1>13

LEMMA FollowersOfFile ==
    ASSUME FileInv PROVE FollowerIsNextVideo
<1> DEFINE F(i) == View(bytes).groups[StartOf[i]].follower
           good == {j \in 1 .. index : Representable(groups[j])}
           Wrong == {i \in good : F(i) # NextVideo(i)}
           Distances == {index - i : i \in Wrong}
<1>1. index \in Nat
  BY FileIsView
<1>2. ASSUME Wrong # {} PROVE FALSE
  <2>1. \A i \in Wrong : index - i \in Nat
    BY <1>1
  <2>2. Distances \in SUBSET Nat /\ Distances # {}
    BY <1>2, <2>1
  <2>3. PICK d \in Distances : \A e \in Distances : d <= e
    <3> HIDE DEF Distances
    <3> QED
      BY <2>2, SmallestOf
  <2>4. PICK i \in Wrong : d = index - i
    OBVIOUS
  <2>5. /\ i + 1 \in good /\ F(i) = F(i + 1) /\ NextVideo(i) = NextVideo(i + 1)
    <3>1. i \in 1 .. index /\ Representable(groups[i]) /\ F(i) # NextVideo(i)
      OBVIOUS
    <3> HIDE DEF Wrong, Distances
    <3> QED
      BY <3>1, FollowerOfNext
  <2>6. i + 1 \in Wrong
    <3>1. F(i) # NextVideo(i)
      BY <2>4
    <3> HIDE DEF F, good
    <3> QED
      BY <2>5, <3>1
  <2>7. index - (i + 1) \in Distances
    BY <2>6
  <2>8. d <= index - (i + 1)
    BY <2>3, <2>7
  <2> QED
    BY <1>1, <2>4, <2>8
<1>3. \A i \in good : F(i) = NextVideo(i)
  BY <1>2
<1> QED
  BY <1>3 DEF FollowerIsNextVideo, NextVideo, Later

(* The walk over audio groups ends at the next video group written, or at  *)
(* the first unreadable group, however many audio groups are in between.   *)
THEOREM FollowersAreNextVideo == WriterSpec => []FollowerIsNextVideo
<1>1. FileInv => FollowerIsNextVideo
  BY FollowersOfFile
<1> QED
  BY <1>1, FileAlways, PTL

-----------------------------------------------------------------------------
(* A generated recording is one the search answers truly about.            *)

(* A later video group goes on where this one ends, or repeats its only    *)
(* frame.                                                                  *)
Behind(g, h) ==
    \/ g.frame_num + Len(g.block_types) <= h.frame_num
    \/ g.frame_num = h.frame_num /\ Len(g.block_types) = 1

(* A group of one to three blocks, numbered below the limit; a video group *)
(* has only video blocks, and none of its frames is at the end or beyond.  *)
IsSpan(g, end, limit) ==
    /\ g.frame_num \in Nat /\ g.frame_num < limit
    /\ Len(g.block_types) \in 1 .. 3
    /\ ~ g.is_audio =>
          /\ \A b \in 1 .. Len(g.block_types) : g.block_types[b] \in VideoBlockTypes
          /\ g.frame_num + Len(g.block_types) <= end

AreSpans(plan, end, limit) ==
    \A i \in 1 .. Len(plan) :
        /\ IsSpan(plan[i], end, limit)
        /\ \A j \in i + 1 .. Len(plan) :
              ~ plan[i].is_audio /\ ~ plan[j].is_audio => Behind(plan[i], plan[j])

PlannedSpans ==
    pc \in {"planning", "planned"} => AreSpans(groups, current_frame, config.target)

LEMMA SpanAppended ==
    ASSUME NEW plan, IsPlan(plan), NEW end \in Nat, NEW later \in Nat, end <= later, NEW limit,
           AreSpans(plan, end, limit), NEW g, IsSpan(g, later, limit),
           \A i \in 1 .. Len(plan) : ~ plan[i].is_audio /\ ~ g.is_audio => Behind(plan[i], g)
    PROVE  AreSpans(Append(plan, g), later, limit)
<1> DEFINE n == Len(plan)
           longer == Append(plan, g)
<1>1. /\ n \in Nat /\ Len(longer) = n + 1
      /\ longer[n + 1] = g /\ \A i \in 1 .. n : longer[i] = plan[i]
  BY Appending
<1> HIDE DEF n, longer
<1>2. ASSUME NEW i \in 1 .. n + 1
      PROVE  /\ IsSpan(longer[i], later, limit)
             /\ \A j \in i + 1 .. n + 1 :
                   ~ longer[i].is_audio /\ ~ longer[j].is_audio => Behind(longer[i], longer[j])
  <2>1. CASE i = n + 1
    <3>1. i + 1 .. n + 1 = {}
      BY <1>1, <2>1
    <3> QED
      BY <1>1, <2>1, <3>1
  <2>2. CASE i \in 1 .. n
    <3>1. /\ IsSpan(plan[i], end, limit) /\ longer[i] = plan[i]
          /\ \A j \in i + 1 .. n :
                ~ plan[i].is_audio /\ ~ plan[j].is_audio => Behind(plan[i], plan[j])
      BY <1>1, <2>2 DEF AreSpans, n
    <3>2. IsSpan(plan[i], later, limit)
      <4> DEFINE h == plan[i]
      <4>1. /\ h.frame_num \in Nat /\ Len(h.block_types) \in Nat
            /\ ~ h.is_audio => h.frame_num + Len(h.block_types) <= end
        BY <3>1 DEF IsSpan
      <4> HIDE DEF h
      <4>2. ~ h.is_audio => h.frame_num + Len(h.block_types) <= later
        BY <4>1
      <4> QED
        BY <3>1, <4>2 DEF IsSpan, h
    <3>3. ASSUME NEW j \in i + 1 .. n + 1, ~ longer[i].is_audio, ~ longer[j].is_audio
          PROVE  Behind(longer[i], longer[j])
      <4>1. CASE j = n + 1
        BY <1>1, <2>2, <3>1, <3>3, <4>1 DEF n
      <4>2. CASE j \in 1 .. n
        <5>1. j \in i + 1 .. n /\ longer[j] = plan[j]
          BY <1>1, <4>2
        <5> QED
          BY <3>1, <3>3, <5>1
      <4> QED
        BY <1>1, <2>2, <4>1, <4>2
    <3> QED
      BY <3>1, <3>2, <3>3
  <2> QED
    BY <1>1, <2>1, <2>2
<1> QED
  BY <1>1, <1>2 DEF AreSpans, longer

(* A video group that starts where the plan ends is behind all of it.      *)
LEMMA SpansEnd ==
    ASSUME NEW plan, NEW end \in Nat, NEW limit, AreSpans(plan, end, limit),
           NEW g, g.frame_num = end
    PROVE  \A i \in 1 .. Len(plan) : ~ plan[i].is_audio => Behind(plan[i], g)
BY DEF AreSpans, IsSpan, Behind

LEMMA PairKeepsSpans ==
    ASSUME PlanInv, AppendPair, AreSpans(groups, current_frame, config.target),
           current_frame = produced_video_frames
    PROVE  AreSpans(groups', current_frame', config.target')
<1>1. /\ IsPlan(groups) /\ current_frame \in Nat /\ config.target \in Nat
      /\ current_frame < config.target /\ current_frame' = current_frame + 1
      /\ config' = config
  BY DEF PlanInv, AppendPair, Planning
<1>2. PICK sizes \in PayloadSizes(2) :
         groups' = groups \o <<VideoSpec(<<"VideoI">>, <<sizes[1]>>),
                               VideoSpec(<<"VideoP">>, <<sizes[2]>>)>>
  BY DEF AppendPair
<1> DEFINE g == VideoSpec(<<"VideoI">>, <<sizes[1]>>)
           h == VideoSpec(<<"VideoP">>, <<sizes[2]>>)
           one == Append(groups, g)
           end == current_frame + 1
<1>3. /\ g.is_audio = FALSE /\ g.frame_num = current_frame /\ g.block_types = <<"VideoI">>
      /\ h.is_audio = FALSE /\ h.frame_num = current_frame /\ h.block_types = <<"VideoP">>
  BY DEF VideoSpec, GroupSpec
<1>4. groups' = groups \o <<g, h>>
  BY <1>2
<1> HIDE DEF g, h
<1>5. groups' = Append(one, h)
  <2>1. PICK S : groups \in Seq(S)
    BY <1>1 DEF IsPlan
  <2>2. groups \in Seq(S \cup {g, h}) /\ g \in S \cup {g, h} /\ h \in S \cup {g, h}
    BY <2>1
  <2> QED
    BY <1>4, <2>2
<1>6. IsSpan(g, end, config.target) /\ IsSpan(h, end, config.target)
  BY <1>1, <1>3 DEF IsSpan, VideoBlockTypes
<1>7. Behind(g, h)
  BY <1>3 DEF Behind
<1>8. end \in Nat /\ current_frame <= end /\ end <= end
  BY <1>1
<1>9. /\ \A i \in 1 .. Len(groups) : ~ groups[i].is_audio => Behind(groups[i], g)
      /\ \A i \in 1 .. Len(groups) : ~ groups[i].is_audio => Behind(groups[i], h)
  BY <1>1, <1>3, SpansEnd
<1> HIDE DEF end
<1>10. AreSpans(one, end, config.target)
  BY <1>1, <1>6, <1>8, <1>9, SpanAppended
<1>11. /\ IsPlan(one) /\ Len(groups) \in Nat /\ Len(one) = Len(groups) + 1
       /\ one[Len(groups) + 1] = g
       /\ \A i \in 1 .. Len(groups) : one[i] = groups[i]
  BY <1>1, Appending
<1> HIDE DEF one
<1>12. \A i \in 1 .. Len(one) : ~ one[i].is_audio => Behind(one[i], h)
  <2>1. \A i \in 1 .. Len(one) : i = Len(groups) + 1 \/ i \in 1 .. Len(groups)
    BY <1>11
  <2> QED
    BY <1>7, <1>9, <1>11, <2>1
<1>13. AreSpans(Append(one, h), end, config.target)
  BY <1>6, <1>8, <1>10, <1>11, <1>12, SpanAppended
<1> QED
  BY <1>1, <1>5, <1>13 DEF end

LEMMA AudioKeepsSpans ==
    ASSUME PlanInv, AppendAudio, AreSpans(groups, current_frame, config.target),
           current_frame = produced_video_frames
    PROVE  AreSpans(groups', current_frame', config.target')
<1>1. /\ IsPlan(groups) /\ current_frame \in Nat /\ config.target \in Nat
      /\ current_frame < config.target /\ current_frame' = current_frame
      /\ config' = config /\ groups' = Append(groups, AudioSpec)
      /\ current_frame <= current_frame
  BY DEF PlanInv, AppendAudio, Planning
<1> DEFINE g == AudioSpec
<1>2. g.is_audio = TRUE /\ g.frame_num = current_frame /\ g.block_types = <<"AudioI">>
  BY DEF AudioSpec, GroupSpec
<1> HIDE DEF g
<1>3. IsSpan(g, current_frame, config.target)
  BY <1>1, <1>2 DEF IsSpan
<1>4. AreSpans(Append(groups, g), current_frame, config.target)
  BY <1>1, <1>2, <1>3, SpanAppended
<1> QED
  BY <1>1, <1>4 DEF g

LEMMA VideoKeepsSpans ==
    ASSUME PlanInv, AppendVideo, AreSpans(groups, current_frame, config.target),
           current_frame = produced_video_frames
    PROVE  AreSpans(groups', current_frame', config.target')
<1>1. /\ IsPlan(groups) /\ current_frame \in Nat /\ config.target \in Nat
      /\ current_frame < config.target /\ config' = config
  BY DEF PlanInv, AppendVideo, Planning
<1>2. PICK span \in 1 .. 3 :
         /\ \E sizes \in PayloadSizes(span) :
               groups' = Append(groups,
                   VideoSpec([i \in 1 .. span |-> IF i = 1 THEN "VideoI" ELSE "VideoP"], sizes))
         /\ current_frame' = current_frame + span
  <2>1. PICK drawn \in 1 .. 3 :
          LET left == config.target - produced_video_frames
              frame_span == IF drawn > left THEN left ELSE drawn
          IN  /\ \E sizes \in PayloadSizes(frame_span) :
                    groups' = Append(groups,
                        VideoSpec([i \in 1 .. frame_span |-> IF i = 1 THEN "VideoI" ELSE "VideoP"],
                                  sizes))
              /\ current_frame' = current_frame + frame_span
              /\ produced_video_frames' = produced_video_frames + frame_span
    BY DEF AppendVideo
  <2> DEFINE left == config.target - produced_video_frames
             frame_span == IF drawn > left THEN left ELSE drawn
  <2>2. frame_span \in 1 .. 3
    BY <1>1
  <2> QED
    BY <2>1, <2>2
<1>3. PICK sizes \in PayloadSizes(span) :
         groups' = Append(groups,
             VideoSpec([i \in 1 .. span |-> IF i = 1 THEN "VideoI" ELSE "VideoP"], sizes))
  BY <1>2
<1> DEFINE types == [i \in 1 .. span |-> IF i = 1 THEN "VideoI" ELSE "VideoP"]
           g == VideoSpec(types, sizes)
           end == current_frame + span
<1>4. g.is_audio = FALSE /\ g.frame_num = current_frame /\ g.block_types = types
  BY DEF VideoSpec, GroupSpec
<1>5. Len(types) = span /\ \A b \in 1 .. span : types[b] \in VideoBlockTypes
  <2>1. types \in [1 .. span -> {"VideoI", "VideoP"}]
    OBVIOUS
  <2> HIDE DEF types
  <2>2. \A S : \A n \in Nat : \A b \in [1 .. n -> S] : Len(b) = n
    OBVIOUS
  <2>3. span \in Nat
    OBVIOUS
  <2> QED
    BY <2>1, <2>2, <2>3 DEF VideoBlockTypes
<1>6. groups' = Append(groups, g)
  BY <1>3
<1> HIDE DEF g, types
<1>7. IsSpan(g, end, config.target)
  BY <1>1, <1>4, <1>5 DEF IsSpan
<1>8. end \in Nat /\ current_frame <= end
  BY <1>1
<1>9. \A i \in 1 .. Len(groups) : ~ groups[i].is_audio => Behind(groups[i], g)
  BY <1>1, <1>4, SpansEnd
<1> HIDE DEF end
<1>10. AreSpans(Append(groups, g), end, config.target)
  BY <1>1, <1>7, <1>8, <1>9, SpanAppended
<1> QED
  BY <1>1, <1>2, <1>6, <1>10 DEF end

LEMMA SpansStart == WriterInit => PlannedSpans
<1> SUFFICES ASSUME WriterInit, pc \in {"planning", "planned"}
             PROVE  AreSpans(groups, current_frame, config.target)
  BY DEF PlannedSpans
<1>1. groups = << >>
  BY DEF WriterInit, Init
<1> QED
  BY <1>1 DEF AreSpans

LEMMA SpansStep ==
    ASSUME PlannedInv, PlannedFrames, PlannedSpans, [WriterNext]_writerVars
    PROVE  PlannedSpans'
<1> SUFFICES ASSUME pc' \in {"planning", "planned"}
             PROVE  AreSpans(groups', current_frame', config.target')
  BY DEF PlannedSpans
<1>1. CASE AppendPair \/ AppendAudio \/ AppendVideo
  <2>1. /\ PlanInv /\ current_frame = produced_video_frames
        /\ AreSpans(groups, current_frame, config.target)
    BY <1>1 DEF AppendPair, AppendAudio, AppendVideo, Planning, PlannedInv, PlannedFrames,
                PlannedSpans, FramesInv
  <2> QED
    BY <1>1, <2>1, PairKeepsSpans, AudioKeepsSpans, VideoKeepsSpans
<1>2. CASE PlanDone \/ UNCHANGED writerVars
  <2>1. UNCHANGED <<config, groups, current_frame>> /\ pc \in {"planning", "planned"}
    BY <1>2 DEF PlanDone, writerVars, planVars
  <2> QED
    BY <2>1 DEF PlannedSpans
<1>3. CASE EncodeGroup
  <2>1. pc = "building" /\ pc' = pc
    BY <1>3 DEF EncodeGroup, planVars
  <2> QED
    BY <2>1
<1>4. CASE \/ PlanRejected \/ StartBuild \/ RefuseGroup \/ BuildDone
           \/ OpenFails \/ OpenFile \/ WriteAccepted \/ WriteFails \/ CloseStream
  <2>1. pc' \notin {"planning", "planned"}
    BY <1>4 DEF PlanRejected, StartBuild, RefuseGroup, BuildDone, OpenFails, OpenFile,
         WriteAccepted, WriteFails, CloseStream
  <2> QED
    BY <2>1
<1> QED
  BY <1>1, <1>2, <1>3, <1>4 DEF WriterNext, MakePlan, Next

(* What a finished plan is: spans that go on one where the other ends, and *)
(* every frame below the configured number in one of them.                 *)
IsRecording ==
    /\ AreSpans(groups, config.target, config.target)
    /\ \A frame \in Nat : Holding(frame) # {} <=> frame < config.target

(* A finished plan is not touched any more, and all of it is in the buffer *)
(* once the build is done.                                                 *)
BuiltInv ==
    /\ pc \notin {"planning", "rejected"} /\ config.target # 0 => IsRecording
    /\ pc = "built" => index = Len(groups)

LEMMA BuiltStart == WriterInit => BuiltInv
BY DEF WriterInit, Init, BuiltInv

LEMMA BuiltStep ==
    ASSUME PlannedInv, PlannedFrames, PlannedSpans, BuiltInv, [WriterNext]_writerVars
    PROVE  BuiltInv'
<1>1. CASE AppendPair \/ AppendAudio \/ AppendVideo \/ PlanRejected
  <2>1. pc' \in {"planning", "rejected"}
    BY <1>1 DEF AppendPair, AppendAudio, AppendVideo, Planning, PlanRejected
  <2> QED
    BY <2>1 DEF BuiltInv
<1>2. CASE PlanDone
  <2>1. /\ PlanInv /\ FramesInv /\ AreSpans(groups, current_frame, config.target)
        /\ pc' = "planned" /\ produced_video_frames >= config.target
        /\ UNCHANGED <<config, groups>>
    BY <1>2 DEF PlanDone, PlannedInv, PlannedFrames, PlannedSpans
  <2>2. current_frame = config.target
    BY <2>1 DEF PlanInv, FramesInv
  <2>3. \A frame \in Nat : Holding(frame) # {} <=> frame < config.target
    <3> SUFFICES ASSUME NEW frame \in Nat
                 PROVE  Holding(frame) # {} <=> frame < config.target
      OBVIOUS
    <3>1. /\ IsFiniteSet(Holding(frame)) /\ config.target \in Nat
          /\ Cardinality(Holding(frame)) =
                IF frame >= config.target THEN 0 ELSE IF frame < config.shared THEN 2 ELSE 1
      BY <2>1, <2>2 DEF PlanInv, FramesInv
    <3>2. Cardinality(Holding(frame)) = 0 <=> Holding(frame) = {}
      BY <3>1, FS_EmptySet
    <3> QED
      BY <3>1, <3>2
  <2>4. IsRecording
    BY <2>1, <2>2, <2>3 DEF IsRecording
  <2>5. IsRecording'
    BY <2>1, <2>4 DEF IsRecording, Holding
  <2> QED
    BY <2>1, <2>5 DEF BuiltInv
<1>3. CASE \/ StartBuild \/ EncodeGroup \/ RefuseGroup \/ BuildDone
           \/ OpenFails \/ OpenFile \/ WriteAccepted \/ WriteFails \/ CloseStream
           \/ UNCHANGED writerVars
  <2>1. UNCHANGED <<config, groups>>
    BY <1>3 DEF StartBuild, EncodeGroup, RefuseGroup, BuildDone, OpenFails, OpenFile,
         WriteAccepted, WriteFails, CloseStream, planState, planVars, writerVars
  <2>2. pc \notin {"planning", "rejected"} \/ pc' = pc
    BY <1>3 DEF StartBuild, EncodeGroup, RefuseGroup, BuildDone, OpenFails, OpenFile,
         WriteAccepted, WriteFails, CloseStream, planVars, writerVars
  <2>3. IsRecording => IsRecording'
    BY <2>1 DEF IsRecording, Holding
  <2>4. pc' = "built" => index' = Len(groups)
    BY <1>3 DEF StartBuild, EncodeGroup, RefuseGroup, BuildDone, OpenFails, OpenFile,
         WriteAccepted, WriteFails, CloseStream, planVars, writerVars, BuiltInv
  <2> QED
    BY <2>1, <2>2, <2>3, <2>4 DEF BuiltInv
<1> QED
  BY <1>1, <1>2, <1>3 DEF WriterNext, MakePlan, Next

(* A view of the first n groups of a plan, at the places S.                *)
IsRecorded(f, plan, n, S) ==
    /\ n \in Nat
    /\ S[1] = kFileHeaderSize
    /\ \A i \in 1 .. n + 1 : S[i] \in Nat /\ kFileHeaderSize <= S[i]
    /\ \A a \in 1 .. n : \A b \in a + 1 .. n + 1 : S[a] < S[b]
    /\ DOMAIN f.groups = {S[i] : i \in 1 .. n}
    /\ \A i \in 1 .. n :
          LET group == f.groups[S[i]]
          IN  /\ group.frame = plan[i].frame_num /\ group.audio = plan[i].is_audio
              /\ group.next = S[i + 1]
              /\ Len(group.blocks) = Len(plan[i].block_types)
              /\ \A b \in 1 .. Len(plan[i].block_types) :
                    group.blocks[b].video = (plan[i].block_types[b] \in VideoBlockTypes)
              /\ \/ group.follower = NoGroup
                 \/ \E j \in i + 1 .. n : ~ plan[j].is_audio /\ group.follower = S[j]
    /\ \A i \in 1 .. n + 1 : S[i] \in DOMAIN f.heads =>
          /\ i \in 1 .. n
          /\ f.heads[S[i]].frame = plan[i].frame_num /\ f.heads[S[i]].audio = plan[i].is_audio

(* The buffer of a generated recording is such a view.                     *)
LEMMA RecordingView ==
    ASSUME FileInv, index = Len(groups), NEW end,
           AreSpans(groups, end, UIntMax - kConstNumberBase + 1)
    PROVE  IsRecorded(View(bytes), groups, index, StartOf) /\ View(bytes).header
<1> DEFINE f == View(bytes)
           S == StartOf
           n == index
           G == f.groups
<1>1. /\ groups \in Seq(GroupSpecs) /\ n \in Nat /\ n <= Len(groups)
      /\ IsViewOf(f, groups, n, bytes.size)
      /\ \A i \in 1 .. n + 1 : S[i] <= bytes.size
  BY FileIsView
<1>2. FollowerIsNextVideo
  BY FollowersOfFile
<1>3. bytes.size \in Nat /\ bytes.size = S[n + 1] /\ bytes.start_code = "HKH4"
  BY BufferSize DEF FileInv, BufferInv, Laid
<1>4. f.header = FileHeaderParses(bytes)
  BY ViewFields
<1> HIDE DEF f
<1>5. /\ \A i \in 1 .. n + 1 : S[i] \in Nat
      /\ S[1] = 40
      /\ \A a \in 1 .. n : \A b \in a + 1 .. n + 1 : S[a] + 48 <= S[b]
  <2>1. Starts(groups, n) \in [1 .. n + 1 -> Nat] /\ Starts(groups, n)[1] = 40
    BY <1>1, StartsDefined DEF kFileHeaderSize
  <2>2. \A a \in 1 .. n : \A b \in a + 1 .. n + 1 : Starts(groups, n)[a] + 48 <= Starts(groups, n)[b]
    BY <1>1, StartsApart DEF kGroupHeaderSize
  <2> QED
    BY <2>1, <2>2 DEF StartOf
<1>6. \A i \in 1 .. n : Representable(groups[i])
  <2> SUFFICES ASSUME NEW i \in 1 .. n PROVE Representable(groups[i])
    OBVIOUS
  <2>1. IsSpan(groups[i], end, UIntMax - kConstNumberBase + 1)
    BY <1>1 DEF AreSpans
  <2>2. /\ groups[i].frame_num \in Nat /\ groups[i].frame_num < UIntMax - kConstNumberBase + 1
        /\ Len(groups[i].block_types) \in 1 .. 3
    BY <2>1 DEF IsSpan
  <2> DEFINE number == groups[i].frame_num
             length == Len(groups[i].block_types)
  <2> HIDE DEF number, length
  <2>3. number \in Nat /\ number < UIntMax - 4096 + 1 /\ length \in 1 .. 3
    BY <2>2 DEF number, length, kConstNumberBase
  <2>4. 4096 + number <= UIntMax /\ length <= MaxBlockCount
    BY <2>3, FormatAssumption, SpanAssumption
  <2> QED
    BY <2>4 DEF Representable, kConstNumberBase, number, length
<1>7. \A i \in 1 .. n : S[i + 1] <= bytes.size
  <2>1. \A i \in 1 .. n : i + 1 \in 1 .. n + 1
    BY <1>1
  <2> QED
    BY <1>1, <2>1
<1>8. DOMAIN G = {S[i] : i \in 1 .. n}
  <2>1. {j \in 1 .. n : Representable(groups[j]) /\ S[j + 1] <= bytes.size} = 1 .. n
    BY <1>6, <1>7
  <2>2. DOMAIN G = {S[i] : i \in {j \in 1 .. n : Representable(groups[j]) /\ S[j + 1] <= bytes.size}}
    BY <1>1 DEF IsViewOf, StartOf
  <2> QED
    BY <2>1, <2>2
<1>9. \A i \in 1 .. n :
         /\ G[S[i]].frame = groups[i].frame_num /\ G[S[i]].audio = groups[i].is_audio
         /\ G[S[i]].next = S[i + 1]
         /\ Len(G[S[i]].blocks) = Len(groups[i].block_types)
         /\ \A b \in 1 .. Len(groups[i].block_types) :
               G[S[i]].blocks[b].video = (groups[i].block_types[b] \in VideoBlockTypes)
  BY <1>1, <1>6, <1>7 DEF IsViewOf, StartOf
<1>10. ASSUME NEW i \in 1 .. n
       PROVE  \/ G[S[i]].follower = NoGroup
              \/ \E j \in i + 1 .. n : ~ groups[j].is_audio /\ G[S[i]].follower = S[j]
  <2>1. G[S[i]].follower = IF Later(i) = {} THEN NoGroup
                           ELSE S[CHOOSE j \in Later(i) : \A k \in Later(i) : j <= k]
    BY <1>2, <1>6 DEF FollowerIsNextVideo, Later, f
  <2>2. CASE Later(i) # {}
    <3> DEFINE L == Later(i)
               first == CHOOSE j \in L : \A k \in L : j <= k
    <3>1. L \in SUBSET Nat /\ L # {}
      BY <1>1, <2>2 DEF Later
    <3>2. \E j \in L : \A k \in L : j <= k
      <4> HIDE DEF L
      <4> QED
        BY <3>1, SmallestOf
    <3>3. first \in L
      <4> HIDE DEF L
      <4> QED
        BY <3>2
    <3>4. first \in i + 1 .. n /\ ~ groups[first].is_audio
      <4> HIDE DEF first
      <4> QED
        BY <3>3 DEF Later
    <3>5. G[S[i]].follower = S[first]
      BY <2>1, <2>2
    <3> HIDE DEF first
    <3> QED
      BY <3>4, <3>5
  <2> QED
    BY <2>1, <2>2
<1>11. Search!IsView(f) /\ f.size = bytes.size
  BY <1>1 DEF IsViewOf
<1>12. /\ \A o \in DOMAIN f.heads : o + 48 <= bytes.size
       /\ \A o \in DOMAIN G : Search!IsGroup(f, o)
  BY <1>11 DEF Search!IsView, Search!kGroupHeaderSize
<1>13. ASSUME NEW i \in 1 .. n + 1, S[i] \in DOMAIN f.heads
       PROVE  /\ i \in 1 .. n
              /\ f.heads[S[i]].frame = groups[i].frame_num
              /\ f.heads[S[i]].audio = groups[i].is_audio
  <2>1. i # n + 1
    <3>1. S[i] + 48 <= bytes.size
      BY <1>12, <1>13
    <3> QED
      BY <1>3, <3>1
  <2>2. i \in 1 .. n
    BY <1>1, <2>1
  <2>3. Search!IsGroup(f, S[i])
    BY <1>8, <1>12, <2>2
  <2>4. f.heads[S[i]].frame = G[S[i]].frame /\ f.heads[S[i]].audio = G[S[i]].audio
    BY <2>3 DEF Search!IsGroup
  <2> QED
    BY <1>9, <2>2, <2>4
<1>14. f.header
  <2>1. n + 1 \in 1 .. n + 1 /\ (n = 0 \/ (1 \in 1 .. n /\ n + 1 \in 1 + 1 .. n + 1))
    BY <1>1
  <2>2. 40 <= bytes.size
    BY <1>3, <1>5, <2>1
  <2> QED
    BY <1>3, <1>4, <2>2 DEF FileHeaderParses, kFileHeaderSize
<1>15. \A a \in 1 .. n : \A b \in a + 1 .. n + 1 : S[a] < S[b]
  <2> SUFFICES ASSUME NEW a \in 1 .. n, NEW b \in a + 1 .. n + 1 PROVE S[a] < S[b]
    OBVIOUS
  <2>1. a \in 1 .. n + 1 /\ b \in 1 .. n + 1
    BY <1>1
  <2>2. S[a] \in Nat /\ S[b] \in Nat /\ S[a] + 48 <= S[b]
    BY <1>5, <2>1
  <2> QED
    BY <2>2
<1>16. \A i \in 1 .. n + 1 : S[i] \in Nat /\ 40 <= S[i]
  <2> SUFFICES ASSUME NEW i \in 1 .. n + 1 PROVE S[i] \in Nat /\ 40 <= S[i]
    OBVIOUS
  <2>1. S[i] \in Nat
    BY <1>5
  <2>2. i = 1 \/ (1 \in 1 .. n /\ i \in 1 + 1 .. n + 1)
    BY <1>1
  <2>3. i = 1 \/ S[1] < S[i]
    BY <1>15, <2>2
  <2> QED
    BY <1>5, <2>1, <2>3
<1> QED
  BY <1>1, <1>5, <1>8, <1>9, <1>10, <1>13, <1>14, <1>15, <1>16
    DEF IsRecorded, kFileHeaderSize, f

(* The search counts as everybody does. *)
LEMMA SearchCounts == \A T : Locator!Cardinality(T) = Cardinality(T)
BY DEF Locator!Cardinality, Cardinality

(* The video blocks of a recorded group, and how many are before each.     *)
LEMMA RecordedBlocks ==
    ASSUME NEW f, NEW plan, NEW n, NEW S, NEW end, IsRecorded(f, plan, n, S),
           n = Len(plan), AreSpans(plan, end, end), NEW i \in 1 .. n, ~ plan[i].is_audio
    PROVE  LET m == Len(plan[i].block_types)
           IN  /\ m \in 1 .. 3
               /\ Locator!VideoBlocks(f, S[i]) = 1 .. m
               /\ Locator!video_block_count(f, S[i]) = m
               /\ \A b \in 1 .. m : Locator!Rank(f, S[i], b) = b - 1
<1> DEFINE m == Len(plan[i].block_types)
           blocks == f.groups[S[i]].blocks
<1>1. m \in 1 .. 3 /\ \A b \in 1 .. m : plan[i].block_types[b] \in VideoBlockTypes
  BY DEF AreSpans, IsSpan
<1>2. Len(blocks) = m /\ \A b \in 1 .. m : blocks[b].video = (plan[i].block_types[b] \in VideoBlockTypes)
  BY DEF IsRecorded
<1>3. Locator!VideoBlocks(f, S[i]) = 1 .. m
  <2> HIDE DEF m
  <2>1. Locator!VideoBlocks(f, S[i]) = {b \in 1 .. Len(blocks) : blocks[b].video}
    BY DEF Locator!VideoBlocks
  <2> HIDE DEF blocks
  <2> QED
    BY <1>1, <1>2, <2>1
<1> HIDE DEF m
<1>4. Locator!video_block_count(f, S[i]) = m
  <2>1. 1 \in Int /\ m \in Int /\ ~ (1 > m) /\ m - 1 + 1 = m
    BY <1>1
  <2>2. Cardinality(1 .. m) = m
    BY <2>1, FS_Interval
  <2> QED
    BY <1>3, <2>2, SearchCounts DEF Locator!video_block_count
<1>5. ASSUME NEW b \in 1 .. m PROVE Locator!Rank(f, S[i], b) = b - 1
  <2>1. {j \in 1 .. m : j < b} = 1 .. b - 1
    BY <1>1
  <2>2. Cardinality(1 .. b - 1) = b - 1
    <3>1. b - 1 \in Int /\ 1 \in Int /\ (1 > b - 1 <=> b - 1 = 0) /\ (b - 1) - 1 + 1 = b - 1
      BY <1>1
    <3>2. Cardinality(1 .. b - 1) = IF 1 > b - 1 THEN 0 ELSE (b - 1) - 1 + 1
      BY <3>1, FS_Interval
    <3> QED
      BY <3>1, <3>2
  <2> QED
    BY <1>3, <2>1, <2>2, SearchCounts DEF Locator!Rank
<1> QED
  BY <1>1, <1>3, <1>4, <1>5 DEF m

(* Places tell groups and their order. *)
LEMMA RecordedPlaces ==
    ASSUME NEW f, NEW plan, NEW n, NEW S, IsRecorded(f, plan, n, S),
           NEW a \in 1 .. n, NEW b \in 1 .. n + 1
    PROVE  /\ S[a] < S[b] => a < b
           /\ S[a] = S[b] => a = b
           /\ S[a] \in Nat /\ S[b] \in Nat
<1>1. /\ n \in Nat
      /\ \A i \in 1 .. n + 1 : S[i] \in Nat
      /\ \A i \in 1 .. n : \A j \in i + 1 .. n + 1 : S[i] < S[j]
  BY DEF IsRecorded
<1>2. S[a] \in Nat /\ S[b] \in Nat
  BY <1>1
<1>3. a < b => S[a] < S[b]
  BY <1>1
<1>4. b < a => S[b] < S[a]
  <2> SUFFICES ASSUME b < a PROVE S[b] < S[a]
    OBVIOUS
  <2>1. b \in 1 .. n /\ a \in b + 1 .. n + 1
    BY <1>1
  <2> QED
    BY <1>1, <2>1
<1> QED
  BY <1>1, <1>2, <1>3, <1>4

(* Such a view is regular, and readable from its first group to its last.  *)
LEMMA RecordingIsRegular ==
    ASSUME NEW f, NEW plan, NEW n, NEW S, NEW end, IsRecorded(f, plan, n, S),
           n = Len(plan), AreSpans(plan, end, end)
    PROVE  Locator!Regular(f) /\ Locator!ReadablePrefix(f) = DOMAIN f.groups
<1> DEFINE G == f.groups
           Count(i) == Len(plan[i].block_types)
           Video == {i \in 1 .. n : ~ plan[i].is_audio}
<1>1. /\ n \in Nat /\ S[1] = 40
      /\ \A i \in 1 .. n + 1 : S[i] \in Nat /\ 40 <= S[i]
      /\ \A a \in 1 .. n : \A b \in a + 1 .. n + 1 : S[a] < S[b]
      /\ DOMAIN G = {S[i] : i \in 1 .. n}
      /\ \A i \in 1 .. n :
            /\ G[S[i]].frame = plan[i].frame_num /\ G[S[i]].audio = plan[i].is_audio
            /\ G[S[i]].next = S[i + 1]
            /\ \/ G[S[i]].follower = 0
               \/ \E j \in i + 1 .. n : ~ plan[j].is_audio /\ G[S[i]].follower = S[j]
      /\ \A i \in 1 .. n + 1 : S[i] \in DOMAIN f.heads =>
            /\ i \in 1 .. n
            /\ f.heads[S[i]].frame = plan[i].frame_num /\ f.heads[S[i]].audio = plan[i].is_audio
  BY DEF IsRecorded, kFileHeaderSize, NoGroup
<1>2. \A i \in 1 .. n : i \in 1 .. n + 1 /\ i + 1 \in 1 .. n + 1
  BY <1>1
<1>3. \A o \in DOMAIN G : \E i \in 1 .. n : o = S[i]
  BY <1>1
<1>4. \A o \in Locator!VideoGroups(f) : \E i \in Video : o = S[i]
  BY <1>1, <1>3 DEF Locator!VideoGroups
<1>5. \A i \in Video :
         /\ i \in 1 .. n /\ ~ plan[i].is_audio
         /\ plan[i].frame_num \in Nat /\ Count(i) \in 1 .. 3
         /\ Locator!VideoBlocks(f, S[i]) = 1 .. Count(i)
         /\ Locator!video_block_count(f, S[i]) = Count(i)
  <2> SUFFICES ASSUME NEW i \in Video
               PROVE  /\ i \in 1 .. n /\ ~ plan[i].is_audio
                      /\ plan[i].frame_num \in Nat /\ Count(i) \in 1 .. 3
                      /\ Locator!VideoBlocks(f, S[i]) = 1 .. Count(i)
                      /\ Locator!video_block_count(f, S[i]) = Count(i)
    OBVIOUS
  <2>1. i \in 1 .. n /\ ~ plan[i].is_audio
    OBVIOUS
  <2>2. plan[i].frame_num \in Nat
    BY <2>1 DEF AreSpans, IsSpan
  <2> QED
    BY <2>1, <2>2, RecordedBlocks
<1>6. \A i \in Video : \A j \in Video : i < j =>
         \/ plan[i].frame_num + Count(i) <= plan[j].frame_num
         \/ plan[i].frame_num = plan[j].frame_num /\ Count(i) = 1
  <2> SUFFICES ASSUME NEW i \in Video, NEW j \in Video, i < j
               PROVE  \/ plan[i].frame_num + Count(i) <= plan[j].frame_num
                      \/ plan[i].frame_num = plan[j].frame_num /\ Count(i) = 1
    OBVIOUS
  <2>1. j \in i + 1 .. n /\ i \in 1 .. n /\ ~ plan[i].is_audio /\ ~ plan[j].is_audio
    BY <1>1
  <2>2. Behind(plan[i], plan[j])
    BY <2>1 DEF AreSpans
  <2> QED
    BY <2>2 DEF Behind
<1> HIDE DEF G, Count
<1>7. Locator!Ordered(f)
  <2> SUFFICES ASSUME NEW o \in Locator!VideoGroups(f), NEW p \in Locator!VideoGroups(f), o < p
               PROVE  f.groups[o].frame + Locator!video_block_count(f, o) <= f.groups[p].frame + 1
    BY DEF Locator!Ordered
  <2>1. PICK i \in Video : o = S[i]
    BY <1>4
  <2>2. PICK j \in Video : p = S[j]
    BY <1>4
  <2>3. i < j
    BY <1>2, <2>1, <2>2, RecordedPlaces
  <2>4. \/ plan[i].frame_num + Count(i) <= plan[j].frame_num
        \/ plan[i].frame_num = plan[j].frame_num /\ Count(i) = 1
    BY <1>6, <2>3
  <2>5. /\ G[o].frame = plan[i].frame_num /\ Locator!video_block_count(f, o) = Count(i)
        /\ G[p].frame = plan[j].frame_num
        /\ plan[i].frame_num \in Nat /\ plan[j].frame_num \in Nat /\ Count(i) \in 1 .. 3
    BY <1>1, <1>5, <2>1, <2>2
  <2> HIDE DEF Video
  <2>6. G[o].frame + Locator!video_block_count(f, o) <= G[p].frame + 1
    BY <2>4, <2>5
  <2> QED
    BY <2>6 DEF G
<1>8. Locator!Tiled(f)
  <2> SUFFICES ASSUME NEW o \in DOMAIN G
               PROVE  /\ o >= 40
                      /\ \A p \in DOMAIN G : o < p => G[o].next <= p
    BY DEF Locator!Tiled, Locator!kFirstGroupOffset, Locator!kFileHeaderSize, G
  <2>1. PICK i \in 1 .. n : o = S[i]
    BY <1>3
  <2>2. o >= 40
    BY <1>1, <1>2, <2>1
  <2>3. ASSUME NEW p \in DOMAIN G, o < p PROVE G[o].next <= p
    <3>1. PICK j \in 1 .. n : p = S[j]
      BY <1>3
    <3>2. i < j
      BY <1>2, <2>1, <2>3, <3>1, RecordedPlaces
    <3>3. G[o].next = S[i + 1] /\ i + 1 \in 1 .. n
      <4>1. G[S[i]].next = S[i + 1]
        BY <1>1
      <4>2. i + 1 \in 1 .. n
        BY <3>2
      <4> QED
        BY <2>1, <4>1, <4>2
    <3>4. i + 1 = j \/ S[i + 1] < S[j]
      BY <1>1, <3>2, <3>3
    <3>5. S[i + 1] \in Nat /\ S[j] \in Nat
      BY <1>1, <1>2
    <3> QED
      BY <3>1, <3>3, <3>4, <3>5
  <2> QED
    BY <2>2, <2>3
<1>9. ASSUME NEW o \in Locator!VideoGroups(f)
      PROVE  /\ Locator!VideoBlocks(f, o) # {}
             /\ Locator!video_block_count(f, o) <= Locator!ComputeGroupFrameSpan(f, o)
             /\ Locator!HasImmediateSharedFrame(f, o) => Locator!video_block_count(f, o) = 1
  <2>1. PICK i \in Video : o = S[i]
    BY <1>4
  <2>2. /\ i \in 1 .. n /\ ~ plan[i].is_audio /\ plan[i].frame_num \in Nat /\ Count(i) \in 1 .. 3
        /\ Locator!VideoBlocks(f, o) = 1 .. Count(i)
        /\ Locator!video_block_count(f, o) = Count(i)
    BY <1>5, <2>1
  <2>3. /\ G[o].frame = plan[i].frame_num /\ G[o].audio = plan[i].is_audio
        /\ G[o].next = S[i + 1]
        /\ \/ G[o].follower = 0
           \/ \E j \in i + 1 .. n : ~ plan[j].is_audio /\ G[o].follower = S[j]
    BY <1>1, <2>1, <2>2
  <2>4. Locator!VideoBlocks(f, o) # {}
    <3>1. 1 \in 1 .. Count(i)
      BY <2>2
    <3> QED
      BY <2>2, <3>1
  <2>5. Count(i) <= Locator!ComputeGroupFrameSpan(f, o)
    <3> DEFINE ahead == G[G[o].follower].frame
               here == G[o].frame
    <3>1. Locator!ComputeGroupFrameSpan(f, o) =
             IF G[o].follower # 0 /\ ahead > here THEN ahead - here ELSE Count(i)
      BY <2>2, <2>3, <2>4 DEF Locator!ComputeGroupFrameSpan, Locator!HasNextNonAudio,
         Locator!NextNonAudioFrame, Locator!NoGroup, G
    <3>2. ASSUME G[o].follower # 0, ahead > here PROVE Count(i) <= ahead - here
      <4>1. PICK j \in i + 1 .. n : ~ plan[j].is_audio /\ G[o].follower = S[j]
        BY <2>3, <3>2
      <4>2. j \in Video /\ i < j /\ j \in 1 .. n
        BY <1>1, <4>1
      <4>3. \/ plan[i].frame_num + Count(i) <= plan[j].frame_num
            \/ plan[i].frame_num = plan[j].frame_num /\ Count(i) = 1
        BY <1>6, <4>2
      <4>4. ahead = plan[j].frame_num /\ plan[j].frame_num \in Nat /\ here = plan[i].frame_num
        BY <1>1, <1>5, <2>3, <4>1, <4>2
      <4> HIDE DEF ahead, here, Video
      <4> QED
        BY <2>2, <3>2, <4>3, <4>4
    <3> HIDE DEF ahead, here
    <3> QED
      BY <2>2, <3>1, <3>2
  <2>6. ASSUME Locator!HasImmediateSharedFrame(f, o) PROVE Count(i) = 1
    <3>1. /\ S[i + 1] \in DOMAIN f.heads /\ ~ f.heads[S[i + 1]].audio
          /\ f.heads[S[i + 1]].frame = plan[i].frame_num
      BY <2>3, <2>6 DEF Locator!HasImmediateSharedFrame, G
    <3>2. /\ i + 1 \in 1 .. n
          /\ plan[i + 1].frame_num = plan[i].frame_num /\ ~ plan[i + 1].is_audio
      BY <1>1, <1>2, <2>2, <3>1
    <3>3. i + 1 \in Video /\ i < i + 1
      BY <2>2, <3>2
    <3>4. \/ plan[i].frame_num + Count(i) <= plan[i + 1].frame_num
          \/ plan[i].frame_num = plan[i + 1].frame_num /\ Count(i) = 1
      BY <1>6, <3>3
    <3> HIDE DEF Video
    <3> QED
      BY <2>2, <3>2, <3>4
  <2> QED
    BY <2>2, <2>4, <2>5, <2>6
<1>10. Locator!Regular(f)
  BY <1>7, <1>8, <1>9 DEF Locator!Regular, Locator!BlocksFit
<1>11. ASSUME NEW o \in DOMAIN G
       PROVE  /\ 40 \in DOMAIN G
              /\ \A p \in DOMAIN G : p < o => G[p].next \in DOMAIN G
  <2>1. PICK i \in 1 .. n : o = S[i]
    BY <1>3
  <2>2. 40 \in DOMAIN G
    <3>1. 1 \in 1 .. n
      BY <1>1
    <3> QED
      BY <1>1, <3>1
  <2>3. ASSUME NEW p \in DOMAIN G, p < o PROVE G[p].next \in DOMAIN G
    <3>1. PICK j \in 1 .. n : p = S[j]
      BY <1>3
    <3>2. j < i
      BY <1>2, <2>1, <2>3, <3>1, RecordedPlaces
    <3>3. G[p].next = S[j + 1] /\ j + 1 \in 1 .. n
      BY <1>1, <3>1, <3>2
    <3> QED
      BY <1>1, <3>3
  <2> QED
    BY <2>2, <2>3
<1>12. Locator!ReadablePrefix(f) = DOMAIN f.groups
  BY <1>11 DEF Locator!ReadablePrefix, Locator!kFirstGroupOffset, Locator!kFileHeaderSize, G
<1> QED
  BY <1>10, <1>12

(* The frames in such a view are those that the groups of the plan hold.   *)
LEMMA RecordedFrames ==
    ASSUME NEW f, NEW plan, NEW n, NEW S, NEW end, IsRecorded(f, plan, n, S),
           n = Len(plan), AreSpans(plan, end, end), NEW x
    PROVE  x \in {b.frame : b \in Locator!VideoFrames(f)}
              <=> x \in Nat /\ \E i \in 1 .. n : Holds(plan[i], x)
<1> DEFINE G == f.groups
           Count(i) == Len(plan[i].block_types)
<1>1. /\ n \in Nat
      /\ DOMAIN G = {S[i] : i \in 1 .. n}
      /\ \A i \in 1 .. n :
            G[S[i]].frame = plan[i].frame_num /\ G[S[i]].audio = plan[i].is_audio
  BY DEF IsRecorded
<1>2. \A i \in 1 .. n : ~ plan[i].is_audio =>
         /\ plan[i].frame_num \in Nat /\ Count(i) \in 1 .. 3
         /\ Locator!VideoBlocks(f, S[i]) = 1 .. Count(i)
         /\ \A b \in 1 .. Count(i) : Locator!Rank(f, S[i], b) = b - 1
  <2> SUFFICES ASSUME NEW i \in 1 .. n, ~ plan[i].is_audio
               PROVE  /\ plan[i].frame_num \in Nat /\ Count(i) \in 1 .. 3
                      /\ Locator!VideoBlocks(f, S[i]) = 1 .. Count(i)
                      /\ \A b \in 1 .. Count(i) : Locator!Rank(f, S[i], b) = b - 1
    OBVIOUS
  <2>1. plan[i].frame_num \in Nat
    BY DEF AreSpans, IsSpan
  <2> QED
    BY <2>1, RecordedBlocks
<1>3. \A i \in 1 .. n :
         Holds(plan[i], x) <=> /\ ~ plan[i].is_audio /\ plan[i].frame_num <= x
                               /\ x < plan[i].frame_num + Count(i)
  BY DEF Holds
<1>4. x \in {b.frame : b \in Locator!VideoFrames(f)}
         <=> \E o \in Locator!VideoGroups(f) : \E b \in Locator!VideoBlocks(f, o) :
                x = G[o].frame + Locator!Rank(f, o, b)
  <2> DEFINE Entry(o, b) == [frame |-> G[o].frame + Locator!Rank(f, o, b), at |-> G[o].blocks[b].at]
  <2>1. Locator!VideoFrames(f) =
           UNION {{Entry(o, b) : b \in Locator!VideoBlocks(f, o)} : o \in Locator!VideoGroups(f)}
    BY DEF Locator!VideoFrames
  <2>2. \A o, b : Entry(o, b).frame = G[o].frame + Locator!Rank(f, o, b)
    OBVIOUS
  <2> HIDE DEF Entry, G
  <2> QED
    BY <2>1, <2>2
<1>5. \A o : o \in Locator!VideoGroups(f) <=> \E i \in 1 .. n : o = S[i] /\ ~ plan[i].is_audio
  BY <1>1 DEF Locator!VideoGroups
<1> HIDE DEF G, Count
<1>6. ASSUME NEW o \in Locator!VideoGroups(f), NEW b \in Locator!VideoBlocks(f, o),
             x = G[o].frame + Locator!Rank(f, o, b)
      PROVE  x \in Nat /\ \E i \in 1 .. n : Holds(plan[i], x)
  <2>1. PICK i \in 1 .. n : o = S[i] /\ ~ plan[i].is_audio
    BY <1>5
  <2>2. /\ plan[i].frame_num \in Nat /\ Count(i) \in 1 .. 3 /\ b \in 1 .. Count(i)
        /\ Locator!Rank(f, o, b) = b - 1 /\ G[o].frame = plan[i].frame_num
    BY <1>1, <1>2, <2>1
  <2>3. /\ x \in Nat /\ plan[i].frame_num <= x /\ x < plan[i].frame_num + Count(i)
    BY <1>6, <2>2
  <2> QED
    BY <1>3, <2>1, <2>3
<1>7. ASSUME x \in Nat, NEW i \in 1 .. n, Holds(plan[i], x)
      PROVE  \E o \in Locator!VideoGroups(f) : \E b \in Locator!VideoBlocks(f, o) :
                x = G[o].frame + Locator!Rank(f, o, b)
  <2>1. ~ plan[i].is_audio /\ plan[i].frame_num <= x /\ x < plan[i].frame_num + Count(i)
    BY <1>3, <1>7
  <2>2. /\ plan[i].frame_num \in Nat /\ Count(i) \in 1 .. 3
        /\ Locator!VideoBlocks(f, S[i]) = 1 .. Count(i)
        /\ \A b \in 1 .. Count(i) : Locator!Rank(f, S[i], b) = b - 1
        /\ G[S[i]].frame = plan[i].frame_num
    BY <1>1, <1>2, <2>1
  <2> DEFINE b == x - plan[i].frame_num + 1
  <2>3. b \in 1 .. Count(i) /\ x = plan[i].frame_num + (b - 1)
    BY <1>7, <2>1, <2>2
  <2> HIDE DEF b
  <2>4. b \in Locator!VideoBlocks(f, S[i]) /\ x = G[S[i]].frame + Locator!Rank(f, S[i], b)
    BY <2>2, <2>3
  <2>5. S[i] \in Locator!VideoGroups(f)
    BY <1>5, <2>1
  <2> QED
    BY <2>4, <2>5
<1> QED
  BY <1>4, <1>6, <1>7

(* Whatever the configuration and the seed, the built recording is regular *)
(* and readable to its last group, and holds exactly the configured frames *)
(* - provided their numbers fit the words of the headers.                  *)
THEOREM GeneratedFilesAreSearchable == WriterSpec => []GeneratedFileIsSearchable
<1>1. FileInv /\ BuiltInv => GeneratedFileIsSearchable
  <2> SUFFICES ASSUME FileInv, BuiltInv, pc = "built",
                      config.target \in 1 .. UIntMax - kConstNumberBase + 1
               PROVE  /\ View(bytes).header
                      /\ Locator!Regular(View(bytes))
                      /\ Locator!ReadablePrefix(View(bytes)) = DOMAIN View(bytes).groups
                      /\ {b.frame : b \in Locator!VideoFrames(View(bytes))} =
                            0 .. config.target - 1
    BY DEF GeneratedFileIsSearchable
  <2> DEFINE f == View(bytes)
  <2>1. index = Len(groups) /\ IsRecording
    BY DEF BuiltInv
  <2>2. /\ config.target \in Nat
        /\ AreSpans(groups, config.target, config.target)
        /\ \A frame \in Nat : Holding(frame) # {} <=> frame < config.target
    BY <2>1 DEF IsRecording
  <2>3. AreSpans(groups, config.target, UIntMax - kConstNumberBase + 1)
    <3> DEFINE limit == UIntMax - kConstNumberBase + 1
    <3>1. limit \in Int /\ config.target <= limit
      BY FormatAssumption DEF kConstNumberBase
    <3> HIDE DEF limit
    <3>2. \A g : IsSpan(g, config.target, config.target) => IsSpan(g, config.target, limit)
      BY <2>2, <3>1 DEF IsSpan
    <3>3. AreSpans(groups, config.target, limit)
      BY <2>2, <3>2 DEF AreSpans
    <3> QED
      BY <3>3 DEF limit
  <2>4. IsRecorded(f, groups, index, StartOf) /\ f.header
    BY <2>1, <2>3, RecordingView
  <2> HIDE DEF f
  <2>5. Locator!Regular(f) /\ Locator!ReadablePrefix(f) = DOMAIN f.groups
    BY <2>1, <2>2, <2>4, RecordingIsRegular
  <2>6. \A x : x \in {b.frame : b \in Locator!VideoFrames(f)}
                  <=> x \in Nat /\ \E i \in 1 .. index : Holds(groups[i], x)
    BY <2>1, <2>2, <2>4, RecordedFrames
  <2>7. \A x : Holding(x) # {} <=> \E i \in 1 .. index : Holds(groups[i], x)
    <3>1. groups \in Seq(GroupSpecs)
      BY DEF FileInv, SpecsInv
    <3>2. DOMAIN groups = 1 .. index
      BY <2>1, <3>1
    <3> QED
      BY <3>2, HoldingOfPlan DEF HoldingIn
  <2>8. {b.frame : b \in Locator!VideoFrames(f)} = 0 .. config.target - 1
    <3> DEFINE F == {b.frame : b \in Locator!VideoFrames(f)}
    <3>1. \A x : x \in F <=> x \in Nat /\ x < config.target
      BY <2>2, <2>6, <2>7
    <3> HIDE DEF F
    <3>2. \A x : x \in Nat /\ x < config.target <=> x \in 0 .. config.target - 1
      BY <2>2
    <3>3. \A x : x \in F <=> x \in 0 .. config.target - 1
      BY <3>1, <3>2
    <3>4. F = 0 .. config.target - 1
      BY <3>3, Zenon
    <3> QED
      BY <3>4 DEF F
  <2> QED
    BY <2>4, <2>5, <2>8 DEF f
<1> QED
  BY <1>1, FileAlways, PlanStarts, PlannedStep, FramesStart, FramesStep, SpansStart, SpansStep,
     BuiltStart, BuiltStep, PTL DEF WriterSpec
=============================================================================
