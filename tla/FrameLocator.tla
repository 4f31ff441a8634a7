---------------------------- MODULE FrameLocator ----------------------------
(***************************************************************************)
(* LocateFrame of frame_locator.cpp: a binary search over byte offsets     *)
(* that finds a group by scanning backward for a start code, and a linear  *)
(* scan when the binary search gives up.                                   *)
(*                                                                         *)
(* The file is the view of module GroupParser: the code's ParseGroupAt is  *)
(* a lookup in file.groups, ParseGroupHeader one in file.heads.  A group   *)
(* is named by its offset.  The caller (main.cpp, the benchmark) asks for  *)
(* one frame after another in the same mapped file.                        *)
(***************************************************************************)
EXTENDS Integers, Sequences, FiniteSets

CONSTANTS
    Files,            \* the views of the files that may be searched
    Targets,          \* the frame numbers that may be asked for
    Options,          \* search options: [probe, back], in bytes
    UIntMax,          \* largest uint32_t
    MaxFrame,         \* largest frame number a group header can hold
    MaxBlockCount,    \* kMaxReasonableBlockCount
    MaxIterations     \* probes before the linear scan takes over (48)

kFileHeaderSize  == 40
kGroupHeaderSize == 48
kBlockHeaderSize == 20
kFirstGroupOffset == kFileHeaderSize

NoGroup == 0          \* "no such group"; groups start at 40

-----------------------------------------------------------------------------
(* What the parsers guarantee about the view of any file. *)

(* Blocks come one after the other, from the group header to the end.     *)
IsGroup(f, o) ==
    LET g == f.groups[o]
        n == Len(g.blocks)
    IN  /\ g.frame = f.heads[o].frame
        /\ g.audio = f.heads[o].audio
        /\ g.next \in Nat
        /\ g.blocks \in Seq([video : BOOLEAN, at : Nat, size : Nat])
        /\ n \in 1 .. MaxBlockCount
        /\ \A i \in 1 .. n :
              /\ o + kGroupHeaderSize <= g.blocks[i].at
              /\ g.blocks[i].at + kBlockHeaderSize + g.blocks[i].size <= g.next
              /\ \A j \in i + 1 .. n :
                    g.blocks[i].at + kBlockHeaderSize + g.blocks[i].size <= g.blocks[j].at
        /\ g.next <= f.size

(* FindNextNonAudioGroup, unfolded by one group. *)
IsFollower(f, o) ==
    LET next == f.groups[o].next
    IN  f.groups[o].follower =
          IF next \notin DOMAIN f.groups THEN NoGroup
          ELSE IF f.groups[next].audio THEN f.groups[next].follower
          ELSE next

IsView(f) ==
    /\ f.size \in Nat
    /\ f.header \in BOOLEAN
    /\ f.header => f.size >= kFileHeaderSize
    /\ f.codes \in SUBSET Nat
    /\ DOMAIN f.groups \subseteq DOMAIN f.heads
    /\ DOMAIN f.heads \subseteq f.codes
    /\ \A o \in DOMAIN f.heads :
          /\ o + kGroupHeaderSize <= f.size
          /\ f.heads[o].frame \in 0 .. MaxFrame
          /\ f.heads[o].audio \in BOOLEAN
    /\ \A o \in DOMAIN f.groups :
          /\ IsGroup(f, o)
          /\ IsFollower(f, o)
          /\ f.groups[o].follower \in DOMAIN f.groups \cup {NoGroup}

ASSUME LocatorAssumption ==
    /\ UIntMax \in Nat /\ MaxFrame \in Nat /\ MaxBlockCount \in Nat
    /\ MaxFrame + MaxBlockCount <= UIntMax
    /\ MaxIterations \in Nat
    /\ Targets \subseteq 0 .. UIntMax
    /\ \A opt \in Options : opt.probe \in Nat /\ opt.back \in Nat
    /\ \A f \in Files : IsView(f)

-----------------------------------------------------------------------------
(* Helpers of frame_locator_internal.cpp. *)

(* Mutant: the lower bound is left at the middle when the window reaches   *)
(* below the first group.                                                  *)
ClampWindowLowerToCenter(center, window) ==
    IF center > window /\ center - window > kFirstGroupOffset
    THEN center - window ELSE center

ClampWindowLower(center, window) ==
    IF center > kFirstGroupOffset /\ center > window /\ center - window > kFirstGroupOffset
    THEN center - window ELSE kFirstGroupOffset

SafeFrameAdvance(frame, delta) ==
    IF frame + delta > UIntMax THEN UIntMax ELSE frame + delta

(* The start codes that FindPreviousGroupStartCode reports one after the   *)
(* other to a caller that rejects each and resumes four bytes below it.    *)
(* Only multiples of four are tested, down to the first one that is not    *)
(* above lower; the one below an unaligned lower is not reached when the   *)
(* caller has just rejected its neighbour.                                 *)
ScannedStartCodes(f, start, lower) ==
    LET hits == {c \in f.codes : c % 4 = 0 /\ c <= start /\ c + 4 > lower}
    IN  {c \in hits : start >= lower /\ (c >= lower \/ c + 4 \notin hits)}

(* The last of a set of offsets, as a set: empty if there is none. *)
LastOf(offsets) == {c \in offsets : \A d \in offsets : d <= c}

(* The group that FindContainingGroup returns, if any. *)
FindContainingGroup(f, offset, window) ==
    LastOf({c \in ScannedStartCodes(f, offset, ClampWindowLower(offset, window)) :
              /\ kFirstGroupOffset <= offset /\ offset < f.size
              /\ c \in DOMAIN f.groups
              /\ c <= offset
              /\ offset < f.groups[c].next})

(* Mutant: the previous group need not end where the group starts.         *)
FindPreviousGroup(f, end, window) ==
    LastOf({c \in ScannedStartCodes(f, end - 4, ClampWindowLower(end, window)) :
              end > kFirstGroupOffset /\ c \in DOMAIN f.groups})

(* The group that FindPreviousGroupEndingAt returns, if any. *)
FindPreviousGroupEndingAt(f, end, window) ==
    LastOf({c \in ScannedStartCodes(f, end - 4, ClampWindowLower(end, window)) :
              /\ end > kFirstGroupOffset
              /\ c \in DOMAIN f.groups
              /\ f.groups[c].next = end})

(* The positions of the video blocks of a group, and their number. *)
VideoBlocks(f, o) == {i \in 1 .. Len(f.groups[o].blocks) : f.groups[o].blocks[i].video}
video_block_count(f, o) == Cardinality(VideoBlocks(f, o))

(* FindNextNonAudioGroup has found a group: has_next_non_audio. *)
HasNextNonAudio(f, o) == f.groups[o].follower # NoGroup
NextNonAudioFrame(f, o) == f.groups[f.groups[o].follower].frame

ComputeGroupFrameSpan(f, o) ==
    IF f.groups[o].audio THEN 0
    ELSE IF HasNextNonAudio(f, o) /\ NextNonAudioFrame(f, o) > f.groups[o].frame
    THEN NextNonAudioFrame(f, o) - f.groups[o].frame
    ELSE IF VideoBlocks(f, o) # {} THEN video_block_count(f, o) ELSE 1

FrameEnd(f, o) == SafeFrameAdvance(f.groups[o].frame, ComputeGroupFrameSpan(f, o))

(* Mutant: the next group may be an audio group.                           *)
SharedFrameWithAnyGroup(f, o) ==
    LET next == f.groups[o].next
    IN  /\ next \in DOMAIN f.heads
        /\ ~ f.groups[o].audio
        /\ f.heads[next].frame = f.groups[o].frame

(* Only the header of the next group has to parse. *)
HasImmediateSharedFrame(f, o) ==
    LET next == f.groups[o].next
    IN  /\ next \in DOMAIN f.heads
        /\ ~ f.groups[o].audio
        /\ ~ f.heads[next].audio
        /\ f.heads[next].frame = f.groups[o].frame

GroupContainsFrame(f, o, t) ==
    /\ ~ f.groups[o].audio
    /\ t >= f.groups[o].frame
    /\ IF HasImmediateSharedFrame(f, o) THEN t = f.groups[o].frame
       ELSE t < FrameEnd(f, o)

-----------------------------------------------------------------------------
(* Turning a group into results. *)

(* Mutant: the index counts the video blocks only.                         *)
SearchResultByVideoIndex(f, o, t, i, continuation) ==
    [target_frame |-> t,
     group_start_frame |-> f.groups[o].frame,
     next_group_start_frame |->
         IF HasNextNonAudio(f, o) THEN NextNonAudioFrame(f, o) ELSE FrameEnd(f, o),
     group_frame_span |-> ComputeGroupFrameSpan(f, o),
     block_index_in_group |-> Cardinality({j \in VideoBlocks(f, o) : j < i}),
     group_file_offset |-> o,
     block_header_offset |-> f.groups[o].blocks[i].at,
     block_data_offset |-> f.groups[o].blocks[i].at + kBlockHeaderSize,
     continuation |-> continuation]

(* The SearchResult that AppendMatch fills in for block i of a group. *)
SearchResult(f, o, t, i, continuation) ==
    [target_frame |-> t,
     group_start_frame |-> f.groups[o].frame,
     next_group_start_frame |->
         IF HasNextNonAudio(f, o) THEN NextNonAudioFrame(f, o) ELSE FrameEnd(f, o),
     group_frame_span |-> ComputeGroupFrameSpan(f, o),
     block_index_in_group |-> i - 1,
     group_file_offset |-> o,
     block_header_offset |-> f.groups[o].blocks[i].at,
     block_data_offset |-> f.groups[o].blocks[i].at + kBlockHeaderSize,
     continuation |-> continuation]

(* There is room for two results; a third would be dropped. *)
AppendMatch(f, o, t, i, continuation, found) ==
    IF Len(found) >= 2 THEN found ELSE Append(found, SearchResult(f, o, t, i, continuation))

(* Mutant: every frame of a group is looked for in its first video block.  *)
FirstVideoIndex(f, o, t) == 0

(* Which of the video blocks of the group holds the frame, counted from 0. *)
DesiredVideoIndex(f, o, t) ==
    LET ahead == t - f.groups[o].frame
        count == video_block_count(f, o)
    IN  IF ComputeGroupFrameSpan(f, o) > 1 /\ count > 1
        THEN IF ahead >= count THEN count - 1 ELSE ahead
        ELSE 0

AppendFrameMatchFromGroup(f, o, t, continuation, found) ==
    LET desired == {i \in VideoBlocks(f, o) :
                      Cardinality({j \in VideoBlocks(f, o) : j < i}) = DesiredVideoIndex(f, o, t)}
    IN  IF GroupContainsFrame(f, o, t) /\ desired # {}
        THEN AppendMatch(f, o, t, CHOOSE i \in desired : TRUE, continuation, found)
        ELSE found

(* Mutant: the group before the located one is not considered.             *)
CollectWithoutPrevious(f, o, t, opt) ==
    LET next == f.groups[o].next
        first == AppendFrameMatchFromGroup(f, o, t, FALSE, << >>)
    IN  IF HasImmediateSharedFrame(f, o) /\ next \in DOMAIN f.groups
        THEN AppendFrameMatchFromGroup(f, next, t, TRUE, first)
        ELSE first

(* Mutant: of two groups that share a frame, the located one comes first.  *)
CollectLocatedFirst(f, o, t, opt) ==
    LET sharing == {p \in FindPreviousGroupEndingAt(f, o, opt.back) :
                      ~ f.groups[p].audio /\ f.groups[p].frame = t /\ f.groups[o].frame = t}
        first == AppendFrameMatchFromGroup(f, o, t, FALSE, << >>)
    IN  IF sharing # {}
        THEN AppendFrameMatchFromGroup(f, CHOOSE p \in sharing : TRUE, t, TRUE, first)
        ELSE first

(* CollectMatches: the group before and the located one if they share the  *)
(* frame; else the located one, and the next if those two share it.        *)
CollectMatches(f, o, t, opt) ==
    LET sharing == {p \in FindPreviousGroupEndingAt(f, o, opt.back) :
                      /\ ~ f.groups[p].audio
                      /\ f.groups[p].frame = t
                      /\ f.groups[o].frame = t}
        next    == f.groups[o].next
    IN  IF sharing # {}
        THEN AppendFrameMatchFromGroup(f, o, t, TRUE,
               AppendFrameMatchFromGroup(f, CHOOSE p \in sharing : TRUE, t, FALSE, << >>))
        ELSE LET first == AppendFrameMatchFromGroup(f, o, t, FALSE, << >>)
             IN  IF HasImmediateSharedFrame(f, o) /\ next \in DOMAIN f.groups
                 THEN AppendFrameMatchFromGroup(f, next, t, TRUE, first)
                 ELSE first

-----------------------------------------------------------------------------
VARIABLES
    file,             \* the view of the mapped file
    options,          \* the options of the caller
    target,           \* target_frame
    pc,               \* "idle", "binary", "linear" or "done"
    left, right,      \* the byte interval of the binary search
    iteration,        \* probes made
    offset,           \* the cursor of the linear scan
    out               \* the matches found

vars == <<file, options, target, pc, left, right, iteration, offset, out>>

Init ==
    /\ file \in Files
    /\ options \in Options
    /\ target = 0
    /\ pc = "idle"
    /\ left = 0 /\ right = 0
    /\ iteration = 0
    /\ offset = 0
    /\ out = << >>

(* Mutant: the header and the size of the file are not tested.             *)
CallUnchecked(t) ==
    /\ pc \in {"idle", "done"}
    /\ target' = t
    /\ out' = << >>
    /\ pc' = "binary"
    /\ left' = kFirstGroupOffset
    /\ right' = file.size - 1
    /\ iteration' = 0
    /\ offset' = 0
    /\ UNCHANGED <<file, options>>

(* The caller asks for a frame.  A file without a valid header, or too     *)
(* small for one group header, is answered at once.                        *)
Call(t) ==
    /\ pc \in {"idle", "done"}
    /\ target' = t
    /\ out' = << >>
    /\ file.header
    /\ file.size >= kFirstGroupOffset + kGroupHeaderSize
    /\ pc' = "binary"
    /\ left' = kFirstGroupOffset
    /\ right' = file.size - 1
    /\ iteration' = 0
    /\ offset' = 0
    /\ UNCHANGED <<file, options>>

CallRejected(t) ==
    /\ pc \in {"idle", "done"}
    /\ ~ (file.header /\ file.size >= kFirstGroupOffset + kGroupHeaderSize)
    /\ target' = t
    /\ out' = << >>
    /\ pc' = "done"
    /\ UNCHANGED <<file, options, left, right, iteration, offset>>

(* The loop condition of the binary search. *)
Probing == pc = "binary" /\ iteration < MaxIterations /\ left < right

(* The group at the middle of the interval, if the scan finds it. *)
Middle == left + (right - left) \div 2
Probed == FindContainingGroup(file, Middle, options.probe)

Found(o) ==
    /\ out' = CollectMatches(file, o, target, options)
    /\ pc' = "done"

ProbeHit ==
    /\ Probing
    /\ \E o \in Probed : GroupContainsFrame(file, o, target) /\ Found(o)
    /\ UNCHANGED <<file, options, target, left, right, iteration, offset>>

(* Mutant: the search goes right one frame too early.                      *)
GoesRightEarly(o) == file.groups[o].audio \/ target + 1 >= file.groups[o].frame

(* An audio group, or one that starts at or before the frame: go right. *)
GoesRight(o) == file.groups[o].audio \/ target >= file.groups[o].frame

(* Mutant: only the header of the probed group is skipped.                 *)
ProbeRightOfHeader ==
    /\ Probing
    /\ \E o \in Probed :
          /\ ~ GroupContainsFrame(file, o, target)
          /\ GoesRight(o)
          /\ file.groups[o].next > left
          /\ left' = o + kGroupHeaderSize
    /\ iteration' = iteration + 1
    /\ UNCHANGED <<file, options, target, pc, right, offset, out>>

ProbeRight ==
    /\ Probing
    /\ \E o \in Probed :
          /\ ~ GroupContainsFrame(file, o, target)
          /\ GoesRight(o)
          /\ file.groups[o].next > left
          /\ left' = file.groups[o].next
    /\ iteration' = iteration + 1
    /\ UNCHANGED <<file, options, target, pc, right, offset, out>>

ProbeLeft ==
    /\ Probing
    /\ \E o \in Probed :
          /\ ~ GroupContainsFrame(file, o, target)
          /\ ~ GoesRight(o)
          /\ o - 1 < right
          /\ right' = o - 1
    /\ iteration' = iteration + 1
    /\ UNCHANGED <<file, options, target, pc, left, offset, out>>

(* The probed group would not shrink the interval: the two breaks that     *)
(* guard against it.                                                       *)
Stuck(o) == IF GoesRight(o) THEN file.groups[o].next <= left ELSE o - 1 >= right

(* Mutant: the binary search is trusted, there is no linear scan.          *)
GiveUpForGood ==
    /\ pc = "binary"
    /\ Probing => \A o \in Probed : ~ GroupContainsFrame(file, o, target) /\ Stuck(o)
    /\ pc' = "done"
    /\ UNCHANGED <<file, options, target, left, right, iteration, offset, out>>

(* The binary search ends without a hit: the loop condition fails, the     *)
(* probe finds no group, or it is stuck.  The linear scan starts over.     *)
GiveUp ==
    /\ pc = "binary"
    /\ Probing => \A o \in Probed : ~ GroupContainsFrame(file, o, target) /\ Stuck(o)
    /\ pc' = "linear"
    /\ offset' = kFirstGroupOffset
    /\ UNCHANGED <<file, options, target, left, right, iteration, out>>

(* The linear scan has a group at its cursor. *)
Scanning == pc = "linear" /\ offset \in DOMAIN file.groups

LinearHit ==
    /\ Scanning
    /\ GroupContainsFrame(file, offset, target)
    /\ Found(offset)
    /\ UNCHANGED <<file, options, target, left, right, iteration, offset>>

(* A later video group starts after the frame: no need to look further. *)
Passed(o) == ~ file.groups[o].audio /\ target < file.groups[o].frame

(* Mutant: the cursor is not moved past an audio group.                    *)
LinearStepExceptAudio ==
    /\ Scanning
    /\ ~ GroupContainsFrame(file, offset, target)
    /\ ~ Passed(offset)
    /\ offset' = IF file.groups[offset].audio THEN offset ELSE file.groups[offset].next
    /\ UNCHANGED <<file, options, target, pc, left, right, iteration, out>>

LinearStep ==
    /\ Scanning
    /\ ~ GroupContainsFrame(file, offset, target)
    /\ ~ Passed(offset)
    /\ offset' = file.groups[offset].next
    /\ UNCHANGED <<file, options, target, pc, left, right, iteration, out>>

(* The end of the file, bytes that are no group, or a group that has       *)
(* passed the frame.                                                       *)
LinearMiss ==
    /\ pc = "linear"
    /\ Scanning => ~ GroupContainsFrame(file, offset, target) /\ Passed(offset)
    /\ out' = << >>
    /\ pc' = "done"
    /\ UNCHANGED <<file, options, target, left, right, iteration, offset>>

Step == ProbeHit \/ ProbeRight \/ ProbeLeft \/ GiveUp \/ LinearHit \/ LinearStep \/ LinearMiss
Next == (\E t \in Targets : Call(t) \/ CallRejected(t)) \/ Step

Spec == Init /\ [][Next]_vars

(* One thread runs the search to its end; only the caller may stop asking. *)
FairSpec == Spec /\ WF_vars(Step)

-----------------------------------------------------------------------------
(* What a recording holds, told from its parsed groups.                    *)

(* The number of video blocks of the group before block i. *)
Rank(f, o, i) == Cardinality({j \in VideoBlocks(f, o) : j < i})

VideoGroups(f) == {o \in DOMAIN f.groups : ~ f.groups[o].audio}

(* The video blocks with the frame each holds: a group numbers its first   *)
(* video block, and the others count on from it.                           *)
VideoFrames(f) ==
    UNION {{[frame |-> f.groups[o].frame + Rank(f, o, i), at |-> f.groups[o].blocks[i].at] :
               i \in VideoBlocks(f, o)} : o \in VideoGroups(f)}

(* Frame numbers never go back: the frames held by a video group end no    *)
(* later than a later one starts.  The two may share a frame.              *)
Ordered(f) ==
    \A o, p \in VideoGroups(f) :
        o < p => f.groups[o].frame + video_block_count(f, o) <= f.groups[p].frame + 1

(* Groups do not overlap, and none lies before the place of the first. *)
Tiled(f) ==
    \A o \in DOMAIN f.groups :
        /\ o >= kFirstGroupOffset
        /\ \A p \in DOMAIN f.groups : o < p => f.groups[o].next <= p

(* A video group has a video block, and no more of them than frames.       *)
BlocksFit(f) ==
    \A o \in VideoGroups(f) :
        /\ VideoBlocks(f, o) # {}
        /\ video_block_count(f, o) <= ComputeGroupFrameSpan(f, o)
        /\ HasImmediateSharedFrame(f, o) => video_block_count(f, o) = 1

Regular(f) == Ordered(f) /\ Tiled(f) /\ BlocksFit(f)

(* The groups before the first bytes that are no group. *)
ReadablePrefix(f) ==
    {o \in DOMAIN f.groups :
        /\ kFirstGroupOffset \in DOMAIN f.groups
        /\ \A p \in DOMAIN f.groups : p < o => f.groups[p].next \in DOMAIN f.groups}

(* A recording the binary search is made for: video groups only, all of    *)
(* them readable up to the end of the file, every one on a multiple of     *)
(* four, and none longer than the probe window.                            *)
Seekable(f, opt) ==
    /\ Regular(f)
    /\ kFirstGroupOffset \in DOMAIN f.groups
    /\ \A o \in DOMAIN f.groups :
          /\ ~ f.groups[o].audio
          /\ o % 4 = 0
          /\ f.groups[o].next - o <= opt.probe
          /\ f.groups[o].next \in DOMAIN f.groups \cup {f.size}

-----------------------------------------------------------------------------
(* Properties. *)

Matches ==
    [target_frame : 0 .. UIntMax, group_start_frame : 0 .. MaxFrame,
     next_group_start_frame : 0 .. UIntMax, group_frame_span : Nat,
     block_index_in_group : Nat, group_file_offset : Nat,
     block_header_offset : Nat, block_data_offset : Nat, continuation : BOOLEAN]

(* The types of the search variables: the unsigned bounds of the interval  *)
(* never wrap below zero, and the output array of two results              *)
(* (SearchMatches.items) is never overrun.                                 *)
TypeOK ==
    /\ options \in Options
    /\ target \in 0 .. UIntMax
    /\ pc \in {"idle", "binary", "linear", "done"}
    /\ left \in Nat
    /\ right \in Nat
    /\ iteration \in 0 .. MaxIterations
    /\ offset \in Nat
    /\ out \in Seq(Matches)
    /\ Len(out) <= 2

(* Every reported block header and its payload lie inside the file, and    *)
(* inside the group reported with them, also in a damaged file: what the   *)
(* caller reads at block_data_offset is mapped.                            *)
MatchesInsideFile ==
    \A n \in 1 .. Len(out) :
        LET m == out[n]
            g == file.groups[m.group_file_offset]
            b == g.blocks[m.block_index_in_group + 1]
        IN  /\ b.at = m.block_header_offset
            /\ m.group_file_offset + kGroupHeaderSize <= m.block_header_offset
            /\ m.block_data_offset + b.size <= g.next
            /\ g.next <= file.size

(* Two matches are the two groups that share the frame: the second starts  *)
(* where the first ends, both carry the frame asked for, and only the      *)
(* second is a continuation (CollectMatches finds them from either side).  *)
MatchesAdjoin ==
    Len(out) = 2 =>
        /\ file.groups[out[1].group_file_offset].next = out[2].group_file_offset
        /\ out[1].group_start_frame = target
        /\ out[2].group_start_frame = target
        /\ ~ out[1].continuation
        /\ out[2].continuation

(* A reported block holds the frame asked for or, where the recording      *)
(* skips that frame, the last one before it: no readable block of the      *)
(* recording holds a frame in between.                                     *)
MatchIsFloor ==
    Regular(file) =>
        \A n \in 1 .. Len(out) :
            LET o == out[n].group_file_offset
                held == file.groups[o].frame + Rank(file, o, out[n].block_index_in_group + 1)
            IN  /\ held <= target
                /\ \A b \in VideoFrames(file) : ~ (held < b.frame /\ b.frame <= target)

(* "Not found" is the truth about every group up to the first damage,      *)
(* wherever the binary search went: none of them has a block of the frame. *)
NotFoundMeansAbsent ==
    Regular(file) /\ file.header /\ pc = "done" /\ out = << >> =>
        \A o \in ReadablePrefix(file) \cap VideoGroups(file) :
            \A i \in VideoBlocks(file, o) :
                file.groups[o].frame + Rank(file, o, i) # target

(* Each probe leaves at most half of the interval, so the limit of 48      *)
(* probes is never what ends the search of a file below 2^48 bytes.        *)
IntervalHalves ==
    [][pc = "binary" /\ pc' = "binary" => 2 * (right' - left') <= right - left]_vars

(* The binary search never throws away the half that holds the frame.      *)
NeverDiscardsTarget ==
    Seekable(file, options) /\ pc = "binary" =>
        \A o \in DOMAIN file.groups :
            GroupContainsFrame(file, o, target) => left <= o /\ o <= right

(* The size of a file, halved 0, 1, 2, ... times. *)
Halvings(size) ==
    LET half[n \in 0 .. MaxIterations] == IF n = 0 THEN size ELSE half[n - 1] \div 2
    IN  half

(* No file is so large that the limit on the probes ends its search: with  *)
(* 48 of them, every file is smaller than 2^48 bytes.                      *)
ProbesSuffice == \A f \in Files : Halvings(f.size)[MaxIterations] = 0

(* In a recording it is made for, the binary search alone decides: the     *)
(* linear scan runs only for frames the recording does not have.           *)
FallbackOnlyWhenAbsent ==
    Seekable(file, options) /\ pc = "linear" =>
        \A b \in VideoFrames(file) : b.frame # target

(* The search returns, whatever the file holds. *)
Terminates == pc = "binary" ~> pc = "done"

(* A frame stored in two adjoining groups is reported with both of them,   *)
(* the continuation second (frame_locator_test.cpp,                        *)
(* ReturnsTwoMatchesForSharedFrameAcrossGroups).                           *)
SharedFrameHasTwoMatches ==
    Regular(file) /\ pc = "done" =>
        \A o \in ReadablePrefix(file) :
            LET next == file.groups[o].next
            IN  /\ HasImmediateSharedFrame(file, o)
                /\ next \in DOMAIN file.groups
                /\ file.groups[o].frame = target
                => Len(out) = 2

(* The backward scan of a probe stays at or above its lower bound          *)
(* (frame_locator_internal.h: "Inclusive lower bound for the scan window").*)
ScanStaysInWindow ==
    pc = "binary" /\ left < right =>
        \A c \in ScannedStartCodes(file, Middle, ClampWindowLower(Middle, options.probe)) :
            c >= ClampWindowLower(Middle, options.probe)
=============================================================================
