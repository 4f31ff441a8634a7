------------------------- MODULE FrameLocatorProofs -------------------------
(***************************************************************************)
(* Theorems about the search of module FrameLocator, for every file,       *)
(* target and window.  What is assumed of a file is IsView: what the       *)
(* parsers of module GroupParser guarantee of any file.  The first part is *)
(* about the results and the bounds of the search; the second, from "What  *)
(* the answers mean", about "not found" and the block of a match in        *)
(* Regular files, and the last about the binary search over a recording it *)
(* is made for (Seekable).                                                 *)
(***************************************************************************)
EXTENDS FrameLocator, CountingLemmas, SequenceTheorems

USE DEF kFileHeaderSize, kGroupHeaderSize, kBlockHeaderSize, kFirstGroupOffset, NoGroup

-----------------------------------------------------------------------------
(* Groups and their blocks. *)

(* The facts about one group of a view that the proofs below use. *)
LEMMA GroupFacts ==
    ASSUME NEW f, IsView(f), NEW o \in DOMAIN f.groups
    PROVE  /\ f.size \in Nat
           /\ o \in Nat
           /\ f.groups[o].frame \in 0 .. MaxFrame
           /\ f.groups[o].audio \in BOOLEAN
           /\ f.groups[o].next \in Nat
           /\ f.groups[o].next > o
           /\ f.groups[o].next <= f.size
           /\ Len(f.groups[o].blocks) \in Nat
           /\ Len(f.groups[o].blocks) <= MaxBlockCount
           /\ f.groups[o].follower \in DOMAIN f.groups \cup {NoGroup}
           /\ \A i \in 1 .. Len(f.groups[o].blocks) :
                 /\ f.groups[o].blocks[i].video \in BOOLEAN
                 /\ f.groups[o].blocks[i].at \in Nat
                 /\ f.groups[o].blocks[i].size \in Nat
                 /\ o + kGroupHeaderSize <= f.groups[o].blocks[i].at
                 /\ f.groups[o].blocks[i].at + kBlockHeaderSize + f.groups[o].blocks[i].size
                       <= f.groups[o].next
<1>1. /\ o \in DOMAIN f.heads
      /\ o \in Nat
      /\ f.size \in Nat
      /\ f.heads[o].frame \in 0 .. MaxFrame
      /\ f.heads[o].audio \in BOOLEAN
      /\ IsGroup(f, o)
      /\ f.groups[o].follower \in DOMAIN f.groups \cup {NoGroup}
  BY DEF IsView
<1>2. /\ f.groups[o].frame = f.heads[o].frame
      /\ f.groups[o].audio = f.heads[o].audio
      /\ f.groups[o].next \in Nat
      /\ f.groups[o].next <= f.size
      /\ f.groups[o].blocks \in Seq([video : BOOLEAN, at : Nat, size : Nat])
      /\ Len(f.groups[o].blocks) \in 1 .. MaxBlockCount
  BY <1>1 DEF IsGroup
<1>3. \A i \in 1 .. Len(f.groups[o].blocks) :
         f.groups[o].blocks[i] \in [video : BOOLEAN, at : Nat, size : Nat]
  BY <1>2, ElementOfSeq
<1>4. \A i \in 1 .. Len(f.groups[o].blocks) :
         /\ o + kGroupHeaderSize <= f.groups[o].blocks[i].at
         /\ f.groups[o].blocks[i].at + kBlockHeaderSize + f.groups[o].blocks[i].size
               <= f.groups[o].next
  BY <1>1 DEF IsGroup
<1>5. Len(f.groups[o].blocks) \in Nat /\ Len(f.groups[o].blocks) <= MaxBlockCount
  BY <1>2, LocatorAssumption
<1>6. \A i \in 1 .. Len(f.groups[o].blocks) :
         /\ f.groups[o].blocks[i].video \in BOOLEAN
         /\ f.groups[o].blocks[i].at \in Nat
         /\ f.groups[o].blocks[i].size \in Nat
  BY <1>3
<1>7. f.groups[o].next > o
  <2>1. 1 \in 1 .. Len(f.groups[o].blocks)
    BY <1>2, LocatorAssumption
  <2> DEFINE b == f.groups[o].blocks[1]
  <2>2. /\ o + kGroupHeaderSize <= b.at
        /\ b.at + kBlockHeaderSize + b.size <= f.groups[o].next
    BY <2>1, <1>4
  <2>3. b.at \in Nat /\ b.size \in Nat
    BY <2>1, <1>6
  <2>4. o \in Nat /\ f.groups[o].next \in Nat
    BY <1>1, <1>2
  <2> HIDE DEF b
  <2> QED
    BY <2>2, <2>3, <2>4
<1> QED
  BY <1>1, <1>2, <1>4, <1>5, <1>6, <1>7

(* The number of video blocks of a group. *)
LEMMA VideoBlockCount ==
    ASSUME NEW f, IsView(f), NEW o \in DOMAIN f.groups
    PROVE  /\ VideoBlocks(f, o) \subseteq 1 .. Len(f.groups[o].blocks)
           /\ video_block_count(f, o) \in Nat
           /\ video_block_count(f, o) <= MaxBlockCount
           /\ video_block_count(f, o) = 0 <=> VideoBlocks(f, o) = {}
<1>1. VideoBlocks(f, o) \subseteq 1 .. Len(f.groups[o].blocks)
  BY DEF VideoBlocks
<1>2. Len(f.groups[o].blocks) \in Nat /\ Len(f.groups[o].blocks) <= MaxBlockCount
  BY GroupFacts
<1> QED
  BY <1>1, <1>2, CountedPositions, LocatorAssumption DEF video_block_count

-----------------------------------------------------------------------------
(* Frame spans. *)

(* FrameEnd never saturates: a frame number read from a header leaves room *)
(* for every span the search computes, so SafeFrameAdvance is exact and an *)
(* interval of frames is never empty for a video group.                    *)
THEOREM FrameEndNeverSaturates ==
    ASSUME NEW f, IsView(f), NEW o \in DOMAIN f.groups
    PROVE  /\ ComputeGroupFrameSpan(f, o) \in Nat
           /\ ComputeGroupFrameSpan(f, o) = 0 <=> f.groups[o].audio
           /\ FrameEnd(f, o) = f.groups[o].frame + ComputeGroupFrameSpan(f, o)
           /\ FrameEnd(f, o) \in 0 .. UIntMax
<1>1. /\ f.groups[o].frame \in 0 .. MaxFrame
      /\ f.groups[o].audio \in BOOLEAN
      /\ f.groups[o].follower \in DOMAIN f.groups \cup {NoGroup}
  BY GroupFacts
<1>2. HasNextNonAudio(f, o) => NextNonAudioFrame(f, o) \in 0 .. MaxFrame
  BY <1>1, GroupFacts DEF HasNextNonAudio, NextNonAudioFrame
<1>3. /\ video_block_count(f, o) \in Nat
      /\ video_block_count(f, o) <= MaxBlockCount
      /\ video_block_count(f, o) = 0 <=> VideoBlocks(f, o) = {}
  BY VideoBlockCount
<1>4. MaxFrame \in Nat /\ MaxBlockCount \in Nat /\ UIntMax \in Nat
      /\ MaxFrame + MaxBlockCount <= UIntMax
  BY LocatorAssumption
<1>5. MaxBlockCount >= 1
  <2>1. Len(f.groups[o].blocks) \in 1 .. MaxBlockCount
    BY DEF IsView, IsGroup
  <2> QED
    BY <2>1, <1>4
<1>6. /\ ComputeGroupFrameSpan(f, o) \in Nat
      /\ ComputeGroupFrameSpan(f, o) = 0 <=> f.groups[o].audio
      /\ f.groups[o].frame + ComputeGroupFrameSpan(f, o) <= UIntMax
  BY <1>1, <1>2, <1>3, <1>4, <1>5 DEF ComputeGroupFrameSpan
<1> QED
  BY <1>1, <1>4, <1>6 DEF FrameEnd, SafeFrameAdvance
(* A view is what Spec starts from and never leaves. *)
LEMMA ViewsAreGiven == ASSUME NEW f \in Files PROVE IsView(f)
BY LocatorAssumption

-----------------------------------------------------------------------------
(* The backward scans. *)

(* What FindContainingGroup finds is a parsed group around the offset.     *)
LEMMA ContainingGroup ==
    ASSUME NEW f, IsView(f), NEW at \in Int, NEW window \in Nat,
           NEW o \in FindContainingGroup(f, at, window)
    PROVE  /\ o \in DOMAIN f.groups
           /\ o \in Nat
           /\ o >= 1
           /\ o <= at
           /\ at < f.groups[o].next
<1>1. /\ o \in ScannedStartCodes(f, at, ClampWindowLower(at, window))
      /\ o \in DOMAIN f.groups
      /\ o <= at
      /\ at < f.groups[o].next
  BY DEF FindContainingGroup, LastOf
<1>2. ClampWindowLower(at, window) >= 40 /\ ClampWindowLower(at, window) \in Int
  BY DEF ClampWindowLower
<1>3. o + 4 > ClampWindowLower(at, window)
  BY <1>1 DEF ScannedStartCodes
<1>4. o \in Nat
  BY <1>1, GroupFacts
<1> QED
  BY <1>1, <1>2, <1>3, <1>4

(* What FindPreviousGroupEndingAt finds is a parsed group that ends there. *)
LEMMA PreviousGroup ==
    ASSUME NEW f, NEW end, NEW window, NEW p \in FindPreviousGroupEndingAt(f, end, window)
    PROVE  p \in DOMAIN f.groups /\ f.groups[p].next = end
BY DEF FindPreviousGroupEndingAt, LastOf

-----------------------------------------------------------------------------
(* The results of one group. *)

LEMMA SearchResultType ==
    ASSUME NEW f, IsView(f), NEW o \in DOMAIN f.groups, NEW t \in 0 .. UIntMax,
           NEW i \in VideoBlocks(f, o), NEW c \in BOOLEAN
    PROVE  SearchResult(f, o, t, i, c) \in Matches
<1>1. /\ f.groups[o].frame \in 0 .. MaxFrame
      /\ o \in Nat
      /\ f.groups[o].follower \in DOMAIN f.groups \cup {NoGroup}
      /\ Len(f.groups[o].blocks) \in Nat
  BY GroupFacts
<1>2. i \in 1 .. Len(f.groups[o].blocks)
  BY DEF VideoBlocks
<1>3. i - 1 \in Nat
  BY <1>1, <1>2
<1>4. f.groups[o].blocks[i].at \in Nat
  BY <1>2, GroupFacts
<1>5. MaxFrame \in Nat /\ UIntMax \in Nat /\ MaxFrame <= UIntMax
  BY LocatorAssumption
<1>6. HasNextNonAudio(f, o) => NextNonAudioFrame(f, o) \in 0 .. UIntMax
  BY <1>1, <1>5, GroupFacts DEF HasNextNonAudio, NextNonAudioFrame
<1>7. FrameEnd(f, o) \in 0 .. UIntMax /\ ComputeGroupFrameSpan(f, o) \in Nat
  BY FrameEndNeverSaturates
<1> DEFINE at == f.groups[o].blocks[i].at
           frame == f.groups[o].frame
           index == i - 1
           span == ComputeGroupFrameSpan(f, o)
           next == IF HasNextNonAudio(f, o) THEN NextNonAudioFrame(f, o) ELSE FrameEnd(f, o)
<1>8. /\ at \in Nat /\ at + 20 \in Nat /\ frame \in 0 .. MaxFrame /\ index \in Nat
      /\ span \in Nat /\ next \in 0 .. UIntMax
  <2>1. next \in 0 .. UIntMax
    <3>1. CASE HasNextNonAudio(f, o)
      BY <1>6, <3>1, Zenon
    <3>2. CASE ~ HasNextNonAudio(f, o)
      BY <1>7, <3>2, Zenon
    <3> QED
      BY <3>1, <3>2
  <2>2. at \in Nat /\ frame \in 0 .. MaxFrame /\ index \in Nat /\ span \in Nat
    BY <1>1, <1>3, <1>4, <1>7, Zenon
  <2>3. at + 20 \in Nat
    <3> HIDE DEF at
    <3> QED
      BY <2>2
  <2> QED
    BY <2>1, <2>2, <2>3, Zenon
<1>9. SearchResult(f, o, t, i, c) =
         [target_frame |-> t, group_start_frame |-> frame, next_group_start_frame |-> next,
          group_frame_span |-> span, block_index_in_group |-> index, group_file_offset |-> o,
          block_header_offset |-> at, block_data_offset |-> at + 20, continuation |-> c]
  BY DEF SearchResult
<1> HIDE DEF at, frame, index, span, next
<1> QED
  BY <1>1, <1>8, <1>9 DEF Matches

(* The block AppendFrameMatchFromGroup looks for exists in every group     *)
(* that has a video block: the index is cut to the last one.               *)
LEMMA DesiredBlockExists ==
    ASSUME NEW f, IsView(f), NEW o \in DOMAIN f.groups, NEW t \in 0 .. UIntMax,
           GroupContainsFrame(f, o, t), VideoBlocks(f, o) # {}
    PROVE  \E i \in VideoBlocks(f, o) : Rank(f, o, i) = DesiredVideoIndex(f, o, t)
<1>1. /\ VideoBlocks(f, o) \subseteq 1 .. Len(f.groups[o].blocks)
      /\ video_block_count(f, o) \in Nat
      /\ video_block_count(f, o) > 0
  BY VideoBlockCount
<1>2. Len(f.groups[o].blocks) \in Nat /\ f.groups[o].frame \in Nat
  BY GroupFacts, LocatorAssumption
<1>3. t \in Nat /\ t >= f.groups[o].frame
  BY LocatorAssumption DEF GroupContainsFrame
<1>4. /\ DesiredVideoIndex(f, o, t) \in Nat
      /\ DesiredVideoIndex(f, o, t) < Cardinality(VideoBlocks(f, o))
  <2>1. ComputeGroupFrameSpan(f, o) \in Nat
    BY FrameEndNeverSaturates
  <2> QED
    BY <1>1, <1>2, <1>3, <2>1 DEF DesiredVideoIndex, video_block_count
<1>5. \E i \in VideoBlocks(f, o) :
         Cardinality({j \in VideoBlocks(f, o) : j < i}) = DesiredVideoIndex(f, o, t)
  <2> DEFINE n == Len(f.groups[o].blocks)
             V == VideoBlocks(f, o)
             k == DesiredVideoIndex(f, o, t)
  <2>1. n \in Nat /\ V \in SUBSET (1 .. n) /\ k \in Nat /\ k < Cardinality(V)
    BY <1>1, <1>2, <1>4
  <2> HIDE DEF n, V, k
  <2>2. \E i \in V : Cardinality({j \in V : j < i}) = k
    BY <2>1, PositionOfRank
  <2> QED
    BY <2>2 DEF V, k
<1> QED
  BY <1>5 DEF Rank

(* A result that AppendFrameMatchFromGroup may produce. *)
IsResult(f, o, t, c, m) ==
    \E i \in VideoBlocks(f, o) :
        /\ m = SearchResult(f, o, t, i, c)
        /\ GroupContainsFrame(f, o, t)
        /\ Rank(f, o, i) = DesiredVideoIndex(f, o, t)

(* AppendFrameMatchFromGroup adds one result of the group, exactly when    *)
(* the group contains the frame and has a video block.                     *)
LEMMA AppendedResult ==
    ASSUME NEW f, IsView(f), NEW o \in DOMAIN f.groups, NEW t \in 0 .. UIntMax,
           NEW c \in BOOLEAN, NEW found \in Seq(Matches), Len(found) < 2
    PROVE  \/ /\ AppendFrameMatchFromGroup(f, o, t, c, found) = found
              /\ ~ GroupContainsFrame(f, o, t) \/ VideoBlocks(f, o) = {}
           \/ \E m \in Matches :
                 /\ IsResult(f, o, t, c, m)
                 /\ AppendFrameMatchFromGroup(f, o, t, c, found) = Append(found, m)
<1> DEFINE desired == {i \in VideoBlocks(f, o) :
                        Cardinality({j \in VideoBlocks(f, o) : j < i})
                          = DesiredVideoIndex(f, o, t)}
<1>1. CASE GroupContainsFrame(f, o, t) /\ VideoBlocks(f, o) # {}
  <2>1. desired # {}
    BY <1>1, DesiredBlockExists DEF Rank
  <2> DEFINE i == CHOOSE j \in desired : TRUE
  <2>2. i \in desired
    BY <2>1
  <2>3. /\ i \in VideoBlocks(f, o)
        /\ Rank(f, o, i) = DesiredVideoIndex(f, o, t)
    BY <2>2 DEF Rank
  <2>4. AppendFrameMatchFromGroup(f, o, t, c, found)
           = Append(found, SearchResult(f, o, t, i, c))
    <3>1. AppendFrameMatchFromGroup(f, o, t, c, found) = AppendMatch(f, o, t, i, c, found)
      BY <1>1, <2>1 DEF AppendFrameMatchFromGroup
    <3>2. ~ (Len(found) >= 2)
      OBVIOUS
    <3> QED
      BY <3>1, <3>2 DEF AppendMatch
  <2> HIDE DEF i, desired
  <2>5. SearchResult(f, o, t, i, c) \in Matches
    BY <2>3, SearchResultType
  <2>6. IsResult(f, o, t, c, SearchResult(f, o, t, i, c))
    BY <1>1, <2>3 DEF IsResult
  <2> QED
    BY <2>4, <2>5, <2>6
<1>2. CASE ~ (GroupContainsFrame(f, o, t) /\ VideoBlocks(f, o) # {})
  <2>1. ~ (GroupContainsFrame(f, o, t) /\ desired # {})
    BY <1>2
  <2>2. AppendFrameMatchFromGroup(f, o, t, c, found) = found
    BY <2>1 DEF AppendFrameMatchFromGroup
  <2> QED
    BY <1>2, <2>2
<1> QED
  BY <1>1, <1>2

(* The group has no result for the frame. *)
NoResult(f, o, t) == ~ GroupContainsFrame(f, o, t) \/ VideoBlocks(f, o) = {}

(* One append to the empty result. *)
LEMMA FirstAppend ==
    ASSUME NEW f, IsView(f), NEW p \in DOMAIN f.groups, NEW t \in 0 .. UIntMax,
           NEW c \in BOOLEAN
    PROVE  LET ms == AppendFrameMatchFromGroup(f, p, t, c, << >>)
           IN  \/ ms = << >> /\ NoResult(f, p, t)
               \/ \E m \in Matches : ms = <<m>> /\ IsResult(f, p, t, c, m)
<1> DEFINE ms == AppendFrameMatchFromGroup(f, p, t, c, << >>)
<1>1. << >> \in Seq(Matches) /\ Len(<< >>) < 2
  OBVIOUS
<1>2. \/ ms = << >> /\ NoResult(f, p, t)
      \/ \E m \in Matches : IsResult(f, p, t, c, m) /\ ms = Append(<< >>, m)
  BY <1>1, AppendedResult DEF NoResult
<1>3. \A m : Append(<< >>, m) = <<m>>
  OBVIOUS
<1> HIDE DEF ms
<1>4. \/ ms = << >> /\ NoResult(f, p, t)
      \/ \E m \in Matches : ms = <<m>> /\ IsResult(f, p, t, c, m)
  BY <1>2, <1>3
<1> QED
  BY <1>4 DEF ms

(* Sequences of one and of two results. *)
LEMMA SequenceOfOne ==
    ASSUME NEW S, NEW a \in S
    PROVE  <<a>> \in Seq(S) /\ Len(<<a>>) = 1 /\ <<a>>[1] = a
OBVIOUS

LEMMA SequenceOfTwo ==
    ASSUME NEW S, NEW a \in S, NEW b \in S
    PROVE  /\ Append(<<a>>, b) = <<a, b>>
           /\ <<a, b>> \in Seq(S)
           /\ Len(<<a, b>>) = 2
           /\ <<a, b>>[1] = a
           /\ <<a, b>>[2] = b
<1> DEFINE pair == Append(<<a>>, b)
<1>1. pair \in Seq(S) /\ Len(pair) = 2 /\ pair[1] = a /\ pair[2] = b
  BY SequenceOfOne, AppendProperties
<1> HIDE DEF pair
<1>2. pair = <<a, b>>
  BY <1>1
<1> QED
  BY <1>1, <1>2 DEF pair

(* Two appends, of two groups: at most one result of each, in this order.  *)
LEMMA TwoAppends ==
    ASSUME NEW f, IsView(f), NEW p \in DOMAIN f.groups, NEW q \in DOMAIN f.groups,
           NEW t \in 0 .. UIntMax
    PROVE  LET ms == AppendFrameMatchFromGroup(f, q, t, TRUE,
                       AppendFrameMatchFromGroup(f, p, t, FALSE, << >>))
           IN  \/ ms = << >> /\ NoResult(f, p, t) /\ NoResult(f, q, t)
               \/ \E m \in Matches : ms = <<m>> /\ IsResult(f, p, t, FALSE, m)
               \/ \E m \in Matches : ms = <<m>> /\ IsResult(f, q, t, TRUE, m)
               \/ \E m1, m2 \in Matches : /\ ms = <<m1, m2>>
                                         /\ IsResult(f, p, t, FALSE, m1)
                                         /\ IsResult(f, q, t, TRUE, m2)
<1> DEFINE first == AppendFrameMatchFromGroup(f, p, t, FALSE, << >>)
           ms == AppendFrameMatchFromGroup(f, q, t, TRUE, first)
           Shape ==
             \/ ms = << >> /\ NoResult(f, p, t) /\ NoResult(f, q, t)
             \/ \E m \in Matches : ms = <<m>> /\ IsResult(f, p, t, FALSE, m)
             \/ \E m \in Matches : ms = <<m>> /\ IsResult(f, q, t, TRUE, m)
             \/ \E m1, m2 \in Matches : /\ ms = <<m1, m2>>
                                       /\ IsResult(f, p, t, FALSE, m1)
                                       /\ IsResult(f, q, t, TRUE, m2)
<1>1. \/ first = << >> /\ NoResult(f, p, t)
      \/ \E m \in Matches : first = <<m>> /\ IsResult(f, p, t, FALSE, m)
  BY FirstAppend
<1>2. ASSUME first = << >>, NoResult(f, p, t) PROVE Shape
  <2>1. \/ ms = << >> /\ NoResult(f, q, t)
        \/ \E m \in Matches : ms = <<m>> /\ IsResult(f, q, t, TRUE, m)
    BY <1>2, FirstAppend
  <2> QED
    BY <1>2, <2>1
<1>3. ASSUME NEW m1 \in Matches, first = <<m1>>, IsResult(f, p, t, FALSE, m1) PROVE Shape
  <2>1. first \in Seq(Matches) /\ Len(first) < 2
    <3>1. <<m1>> \in Seq(Matches) /\ Len(<<m1>>) = 1
      BY SequenceOfOne
    <3>2. first = <<m1>>
      BY <1>3
    <3> HIDE DEF first
    <3> QED
      BY <3>1, <3>2
  <2>2. \/ ms = first
        \/ \E m2 \in Matches : IsResult(f, q, t, TRUE, m2) /\ ms = Append(first, m2)
    <3> HIDE DEF first
    <3> QED
      BY <2>1, AppendedResult
  <2>3. \A m2 \in Matches : Append(<<m1>>, m2) = <<m1, m2>>
    BY SequenceOfTwo
  <2> HIDE DEF ms, first
  <2> QED
    BY <1>3, <2>2, <2>3
<1>4. Shape
  <2> HIDE DEF first, Shape
  <2> QED
    BY <1>1, <1>2, <1>3
<1> QED
  BY <1>4

-----------------------------------------------------------------------------
(* The results of a search. *)

(* A sequence CollectMatches may return for the frame: no match, one, or   *)
(* two in adjoining groups that both start with the frame.                 *)
IsAnswer(f, t, ms) ==
    \/ ms = << >>
    \/ \E m \in Matches, o \in DOMAIN f.groups, c \in BOOLEAN :
          ms = <<m>> /\ IsResult(f, o, t, c, m)
    \/ \E m1, m2 \in Matches, p, q \in DOMAIN f.groups :
          /\ ms = <<m1, m2>>
          /\ IsResult(f, p, t, FALSE, m1)
          /\ IsResult(f, q, t, TRUE, m2)
          /\ f.groups[p].next = q
          /\ f.groups[p].frame = t
          /\ f.groups[q].frame = t

(* What CollectMatches returns for a group that contains the frame: an     *)
(* answer, and not the empty one if the group has a video block.           *)
LEMMA CollectedMatches ==
    ASSUME NEW f, IsView(f), NEW o \in DOMAIN f.groups, NEW t \in 0 .. UIntMax, NEW opt,
           GroupContainsFrame(f, o, t)
    PROVE  /\ IsAnswer(f, t, CollectMatches(f, o, t, opt))
           /\ CollectMatches(f, o, t, opt) = << >> => VideoBlocks(f, o) = {}
<1> DEFINE sharing == {p \in FindPreviousGroupEndingAt(f, o, opt.back) :
                         /\ ~ f.groups[p].audio
                         /\ f.groups[p].frame = t
                         /\ f.groups[o].frame = t}
           next == f.groups[o].next
           ms == CollectMatches(f, o, t, opt)
           Good == IsAnswer(f, t, ms) /\ (ms = << >> => VideoBlocks(f, o) = {})
<1>1. CASE sharing # {}
  <2> DEFINE p == CHOOSE x \in sharing : TRUE
  <2>1. p \in sharing
    BY <1>1
  <2>2. /\ p \in DOMAIN f.groups
        /\ f.groups[p].next = o
        /\ f.groups[p].frame = t
        /\ f.groups[o].frame = t
    <3>1. /\ p \in FindPreviousGroupEndingAt(f, o, opt.back)
          /\ f.groups[p].frame = t
          /\ f.groups[o].frame = t
      BY <2>1
    <3> HIDE DEF p
    <3> QED
      BY <3>1, PreviousGroup
  <2>3. ms = AppendFrameMatchFromGroup(f, o, t, TRUE,
               AppendFrameMatchFromGroup(f, p, t, FALSE, << >>))
    BY <1>1 DEF CollectMatches
  <2> HIDE DEF p, sharing, ms
  <2>4. \/ ms = << >> /\ NoResult(f, p, t) /\ NoResult(f, o, t)
        \/ \E m \in Matches : ms = <<m>> /\ IsResult(f, p, t, FALSE, m)
        \/ \E m \in Matches : ms = <<m>> /\ IsResult(f, o, t, TRUE, m)
        \/ \E m1, m2 \in Matches : /\ ms = <<m1, m2>>
                                  /\ IsResult(f, p, t, FALSE, m1)
                                  /\ IsResult(f, o, t, TRUE, m2)
    BY <2>2, <2>3, TwoAppends
  <2>5. IsAnswer(f, t, ms)
    BY <2>2, <2>4 DEF IsAnswer
  <2>6. ms = << >> => VideoBlocks(f, o) = {}
    BY <2>4 DEF NoResult
  <2> QED
    BY <2>5, <2>6 DEF ms
<1>2. CASE sharing = {} /\ HasImmediateSharedFrame(f, o) /\ next \in DOMAIN f.groups
  <2>1. ms = AppendFrameMatchFromGroup(f, next, t, TRUE,
               AppendFrameMatchFromGroup(f, o, t, FALSE, << >>))
    BY <1>2 DEF CollectMatches
  <2>2. f.groups[next].frame = f.groups[o].frame
    BY <1>2 DEF HasImmediateSharedFrame, IsView, IsGroup
  <2>3. f.groups[o].frame = t
    BY <1>2 DEF GroupContainsFrame
  <2> HIDE DEF ms
  <2>4. \/ ms = << >> /\ NoResult(f, o, t) /\ NoResult(f, next, t)
        \/ \E m \in Matches : ms = <<m>> /\ IsResult(f, o, t, FALSE, m)
        \/ \E m \in Matches : ms = <<m>> /\ IsResult(f, next, t, TRUE, m)
        \/ \E m1, m2 \in Matches : /\ ms = <<m1, m2>>
                                  /\ IsResult(f, o, t, FALSE, m1)
                                  /\ IsResult(f, next, t, TRUE, m2)
    BY <1>2, <2>1, TwoAppends
  <2>5. IsAnswer(f, t, ms)
    BY <1>2, <2>2, <2>3, <2>4 DEF IsAnswer
  <2>6. ms = << >> => VideoBlocks(f, o) = {}
    BY <2>4 DEF NoResult
  <2> QED
    BY <2>5, <2>6 DEF ms
<1>3. CASE sharing = {} /\ ~ (HasImmediateSharedFrame(f, o) /\ next \in DOMAIN f.groups)
  <2>1. ms = AppendFrameMatchFromGroup(f, o, t, FALSE, << >>)
    BY <1>3 DEF CollectMatches
  <2> HIDE DEF ms
  <2>2. \/ ms = << >> /\ NoResult(f, o, t)
        \/ \E m \in Matches : ms = <<m>> /\ IsResult(f, o, t, FALSE, m)
    BY <2>1, FirstAppend
  <2>3. IsAnswer(f, t, ms)
    BY <2>2 DEF IsAnswer
  <2>4. ms = << >> => VideoBlocks(f, o) = {}
    BY <2>2 DEF NoResult
  <2> QED
    BY <2>3, <2>4 DEF ms
<1> QED
  BY <1>1, <1>2, <1>3

(* What a result says of its group and block. *)
LEMMA ResultFields ==
    ASSUME NEW f, IsView(f), NEW o \in DOMAIN f.groups, NEW t, NEW c, NEW m,
           IsResult(f, o, t, c, m)
    PROVE  /\ m.group_file_offset = o
           /\ m.group_start_frame = f.groups[o].frame
           /\ m.continuation = c
           /\ GroupContainsFrame(f, o, t)
           /\ \E i \in VideoBlocks(f, o) :
                 /\ m.block_index_in_group + 1 = i
                 /\ m.block_header_offset = f.groups[o].blocks[i].at
                 /\ m.block_data_offset = f.groups[o].blocks[i].at + kBlockHeaderSize
                 /\ Rank(f, o, i) = DesiredVideoIndex(f, o, t)
<1>1. PICK i \in VideoBlocks(f, o) : /\ m = SearchResult(f, o, t, i, c)
                                    /\ Rank(f, o, i) = DesiredVideoIndex(f, o, t)
  BY DEF IsResult
<1>2. GroupContainsFrame(f, o, t)
  BY DEF IsResult
<1>3. i \in Int
  BY GroupFacts DEF VideoBlocks
<1>4. /\ m.group_file_offset = o
      /\ m.group_start_frame = f.groups[o].frame
      /\ m.continuation = c
      /\ m.block_header_offset = f.groups[o].blocks[i].at
      /\ m.block_data_offset = f.groups[o].blocks[i].at + 20
      /\ m.block_index_in_group = i - 1
  BY <1>1 DEF SearchResult
<1>5. m.block_index_in_group + 1 = i
  BY <1>3, <1>4
<1> QED
  BY <1>1, <1>2, <1>4, <1>5

(* Every match of an answer is a result of some group. *)
LEMMA AnswerMatches ==
    ASSUME NEW f, NEW t, NEW ms, IsAnswer(f, t, ms)
    PROVE  /\ ms \in Seq(Matches)
           /\ Len(ms) <= 2
           /\ \A n \in 1 .. Len(ms) :
                 \E o \in DOMAIN f.groups, c \in BOOLEAN : IsResult(f, o, t, c, ms[n])
<1>1. CASE ms = << >>
  BY <1>1
<1>2. ASSUME NEW m \in Matches, NEW o \in DOMAIN f.groups, NEW c \in BOOLEAN,
             ms = <<m>>, IsResult(f, o, t, c, m)
      PROVE  /\ ms \in Seq(Matches)
             /\ Len(ms) = 1
             /\ ms[1] = m
  BY <1>2, SequenceOfOne
<1>3. ASSUME NEW m1 \in Matches, NEW m2 \in Matches, ms = <<m1, m2>>
      PROVE  /\ ms \in Seq(Matches)
             /\ Len(ms) = 2
             /\ ms[1] = m1
             /\ ms[2] = m2
  BY <1>3, SequenceOfTwo
<1>4. CASE \E m \in Matches, o \in DOMAIN f.groups, c \in BOOLEAN :
             ms = <<m>> /\ IsResult(f, o, t, c, m)
  BY <1>2, <1>4
<1>5. CASE \E m1, m2 \in Matches, p, q \in DOMAIN f.groups :
             /\ ms = <<m1, m2>>
             /\ IsResult(f, p, t, FALSE, m1)
             /\ IsResult(f, q, t, TRUE, m2)
  <2>1. PICK m1 \in Matches, m2 \in Matches, p \in DOMAIN f.groups, q \in DOMAIN f.groups :
             /\ ms = <<m1, m2>>
             /\ IsResult(f, p, t, FALSE, m1)
             /\ IsResult(f, q, t, TRUE, m2)
    BY <1>5
  <2>2. /\ ms \in Seq(Matches)
        /\ Len(ms) = 2
        /\ ms[1] = m1
        /\ ms[2] = m2
    BY <1>3, <2>1
  <2>3. ASSUME NEW n \in 1 .. Len(ms)
        PROVE  \E o \in DOMAIN f.groups, c \in BOOLEAN : IsResult(f, o, t, c, ms[n])
    <3>1. CASE n = 1
      <4>1. IsResult(f, p, t, FALSE, ms[n])
        BY <2>1, <2>2, <3>1
      <4> QED
        BY <4>1
    <3>2. CASE n = 2
      <4>1. IsResult(f, q, t, TRUE, ms[n])
        BY <2>1, <2>2, <3>2
      <4> QED
        BY <4>1
    <3> QED
      BY <2>2, <3>1, <3>2
  <2> QED
    BY <2>2, <2>3
<1> QED
  BY <1>1, <1>4, <1>5 DEF IsAnswer

-----------------------------------------------------------------------------
(* The inductive invariant of the search. *)

(* Probes stay inside the interval they halve. *)
LEMMA MiddleOfInterval ==
    ASSUME NEW l \in Nat, NEW r \in Nat, l < r
    PROVE  /\ l + (r - l) \div 2 \in Nat
           /\ l <= l + (r - l) \div 2
           /\ l + (r - l) \div 2 < r
           /\ 2 * (r - (l + (r - l) \div 2) - 1) <= r - l
           /\ 2 * (l + (r - l) \div 2 - l) <= r - l
<1> DEFINE d == r - l
           h == d \div 2
<1>1. d \in Nat /\ d > 0 /\ r = l + d
  OBVIOUS
<1>2. h \in Nat /\ 2 * h <= d /\ d <= 2 * h + 1
  BY <1>1
<1> HIDE DEF h
<1>3. /\ l + h \in Nat
      /\ l <= l + h
      /\ l + h < r
      /\ 2 * (r - (l + h) - 1) <= r - l
      /\ 2 * (l + h - l) <= r - l
  BY <1>1, <1>2
<1> QED
  BY <1>3 DEF h

(* The group of a probe. *)
LEMMA ProbedGroup ==
    ASSUME file \in Files, TypeOK, Probing, NEW o \in Probed
    PROVE  /\ IsView(file)
           /\ Middle \in Nat /\ left <= Middle /\ Middle < right
           /\ o \in DOMAIN file.groups
           /\ o \in Nat
           /\ o >= 1
           /\ o <= Middle
           /\ Middle < file.groups[o].next
           /\ file.groups[o].next \in Nat
<1>1. IsView(file)
  BY ViewsAreGiven
<1>2. Middle \in Nat /\ left <= Middle /\ Middle < right
  BY MiddleOfInterval DEF TypeOK, Probing, Middle
<1>3. options.probe \in Nat
  BY LocatorAssumption DEF TypeOK
<1>4. o \in FindContainingGroup(file, Middle, options.probe)
  BY DEF Probed
<1>5. /\ o \in DOMAIN file.groups
      /\ o \in Nat
      /\ o >= 1
      /\ o <= Middle
      /\ Middle < file.groups[o].next
  <2> HIDE DEF Middle
  <2> QED
    BY <1>1, <1>2, <1>3, <1>4, ContainingGroup
<1>6. file.groups[o].next \in Nat
  BY <1>1, <1>5, GroupFacts
<1> QED
  BY <1>1, <1>2, <1>5, <1>6


(* What holds in every state: the file is one of the given views, the      *)
(* variables have their types, and the output is an answer for the target. *)
SearchInv ==
    /\ file \in Files
    /\ TypeOK
    /\ IsAnswer(file, target, out)

(* A group that contains the frame is collected into an answer. *)
LEMMA FoundAnswer ==
    ASSUME SearchInv, NEW o \in DOMAIN file.groups,
           GroupContainsFrame(file, o, target), Found(o)
    PROVE  IsAnswer(file, target, out') /\ pc' = "done"
<1>1. IsView(file) /\ target \in 0 .. UIntMax
  BY ViewsAreGiven DEF SearchInv, TypeOK
<1>2. out' = CollectMatches(file, o, target, options) /\ pc' = "done"
  BY DEF Found
<1>3. IsAnswer(file, target, CollectMatches(file, o, target, options))
  BY <1>1, CollectedMatches
<1> QED
  BY <1>2, <1>3

LEMMA SearchInvInit == Init => SearchInv
<1> SUFFICES ASSUME Init PROVE SearchInv
  OBVIOUS
<1>1. 0 \in 0 .. UIntMax /\ 0 \in 0 .. MaxIterations
  BY LocatorAssumption
<1>2. << >> \in Seq(Matches) /\ Len(<< >>) <= 2
  OBVIOUS
<1>3. TypeOK
  BY <1>1, <1>2 DEF Init, TypeOK
<1>4. IsAnswer(file, target, out)
  BY DEF Init, IsAnswer
<1> QED
  BY <1>3, <1>4 DEF Init, SearchInv

(* TypeOK and the answer, of a step that may change all but the file and   *)
(* the options: what each action has to establish.                         *)
LEMMA SearchInvPrimed ==
    ASSUME file' \in Files, options' \in Options,
           target' \in 0 .. UIntMax,
           pc' \in {"idle", "binary", "linear", "done"},
           left' \in Nat, right' \in Nat, iteration' \in 0 .. MaxIterations,
           offset' \in Nat, IsAnswer(file, target, out)'
    PROVE  SearchInv'
<1>1. out' \in Seq(Matches) /\ Len(out') <= 2
  BY AnswerMatches
<1> QED
  BY <1>1 DEF SearchInv, TypeOK

LEMMA SearchInvNext == SearchInv /\ [Next]_vars => SearchInv'
<1> SUFFICES ASSUME SearchInv, [Next]_vars PROVE SearchInv'
  OBVIOUS
<1>1. /\ file \in Files
      /\ options \in Options
      /\ target \in 0 .. UIntMax
      /\ pc \in {"idle", "binary", "linear", "done"}
      /\ left \in Nat
      /\ right \in Nat
      /\ iteration \in 0 .. MaxIterations
      /\ offset \in Nat
      /\ IsAnswer(file, target, out)
      /\ TypeOK
  BY DEF SearchInv, TypeOK
<1>2. IsView(file)
  BY <1>1, ViewsAreGiven
<1>3. MaxIterations \in Nat
  BY LocatorAssumption
<1>4. ASSUME NEW t \in Targets, Call(t) PROVE SearchInv'
  <2>1. t \in 0 .. UIntMax
    BY LocatorAssumption
  <2>2. file.size - 1 \in Nat
    BY <1>2, <1>4 DEF Call, IsView
  <2>3. IsAnswer(file, target, out)'
    BY <1>4 DEF Call, IsAnswer
  <2> QED
    BY <1>1, <1>3, <1>4, <2>1, <2>2, <2>3, SearchInvPrimed DEF Call
<1>5. ASSUME NEW t \in Targets, CallRejected(t) PROVE SearchInv'
  <2>1. t \in 0 .. UIntMax
    BY LocatorAssumption
  <2>2. IsAnswer(file, target, out)'
    BY <1>5 DEF CallRejected, IsAnswer
  <2> QED
    BY <1>1, <1>5, <2>1, <2>2, SearchInvPrimed DEF CallRejected
<1>6. CASE ProbeHit
  <2>1. PICK o \in Probed : GroupContainsFrame(file, o, target) /\ Found(o)
    BY <1>6 DEF ProbeHit
  <2>2. o \in DOMAIN file.groups
    BY <1>1, <1>6, ProbedGroup DEF ProbeHit
  <2>3. IsAnswer(file, target, out') /\ pc' = "done"
    BY <2>1, <2>2, FoundAnswer
  <2> QED
    BY <1>1, <1>6, <2>3, SearchInvPrimed DEF ProbeHit
<1>7. CASE ProbeRight
  <2>1. PICK o \in Probed : left' = file.groups[o].next
    BY <1>7 DEF ProbeRight
  <2>2. left' \in Nat
    BY <1>1, <1>7, <2>1, ProbedGroup DEF ProbeRight
  <2>3. iteration' \in 0 .. MaxIterations
    BY <1>1, <1>3, <1>7 DEF ProbeRight, Probing
  <2>4. IsAnswer(file, target, out)'
    BY <1>1, <1>7 DEF ProbeRight, IsAnswer
  <2> QED
    BY <1>1, <1>7, <2>2, <2>3, <2>4, SearchInvPrimed DEF ProbeRight
<1>8. CASE ProbeLeft
  <2>1. PICK o \in Probed : right' = o - 1
    BY <1>8 DEF ProbeLeft
  <2>2. right' \in Nat
    <3>1. o \in Nat /\ o >= 1
      BY <1>1, <1>8, ProbedGroup DEF ProbeLeft
    <3> QED
      BY <2>1, <3>1
  <2>3. iteration' \in 0 .. MaxIterations
    BY <1>1, <1>3, <1>8 DEF ProbeLeft, Probing
  <2>4. IsAnswer(file, target, out)'
    BY <1>1, <1>8 DEF ProbeLeft, IsAnswer
  <2> QED
    BY <1>1, <1>8, <2>2, <2>3, <2>4, SearchInvPrimed DEF ProbeLeft
<1>9. CASE GiveUp
  <2>1. IsAnswer(file, target, out)'
    BY <1>1, <1>9 DEF GiveUp, IsAnswer
  <2> QED
    BY <1>1, <1>9, <2>1, SearchInvPrimed DEF GiveUp
<1>10. CASE LinearHit
  <2>1. IsAnswer(file, target, out') /\ pc' = "done"
    BY <1>10, FoundAnswer DEF LinearHit, Scanning
  <2> QED
    BY <1>1, <1>10, <2>1, SearchInvPrimed DEF LinearHit
<1>11. CASE LinearStep
  <2>1. offset' \in Nat
    BY <1>2, <1>11, GroupFacts DEF LinearStep, Scanning
  <2>2. IsAnswer(file, target, out)'
    BY <1>1, <1>11 DEF LinearStep, IsAnswer
  <2> QED
    BY <1>1, <1>11, <2>1, <2>2, SearchInvPrimed DEF LinearStep
<1>12. CASE LinearMiss
  <2>1. IsAnswer(file, target, out)'
    BY <1>12 DEF LinearMiss, IsAnswer
  <2> QED
    BY <1>1, <1>12, <2>1, SearchInvPrimed DEF LinearMiss
<1>13. CASE UNCHANGED vars
  <2>1. IsAnswer(file, target, out)'
    BY <1>1, <1>13 DEF vars, IsAnswer
  <2> QED
    BY <1>1, <1>13, <2>1, SearchInvPrimed DEF vars
<1> QED
  BY <1>4, <1>5, <1>6, <1>7, <1>8, <1>9, <1>10, <1>11, <1>12, <1>13 DEF Next, Step

LEMMA SearchInvariant == Spec => []SearchInv
<1>1. Init => SearchInv
  BY SearchInvInit
<1>2. SearchInv /\ [Next]_vars => SearchInv'
  BY SearchInvNext
<1> QED
  BY <1>1, <1>2, PTL DEF Spec

-----------------------------------------------------------------------------
(* What the invariant gives. *)

(* The search variables keep their types in every run: no bound of the     *)
(* interval wraps below zero, and there are never more than two results.   *)
THEOREM TypeCorrect == Spec => []TypeOK
<1>1. SearchInv => TypeOK
  BY DEF SearchInv
<1> QED
  BY <1>1, SearchInvariant, PTL

(* Two matches always are of adjoining groups that both start with the     *)
(* frame, the continuation second, in whatever file, damaged or not.       *)
THEOREM TwoMatchesAdjoin == Spec => []MatchesAdjoin
<1>1. SearchInv => MatchesAdjoin
  <2> SUFFICES ASSUME SearchInv, Len(out) = 2 PROVE
         /\ file.groups[out[1].group_file_offset].next = out[2].group_file_offset
         /\ out[1].group_start_frame = target
         /\ out[2].group_start_frame = target
         /\ ~ out[1].continuation
         /\ out[2].continuation
    BY DEF MatchesAdjoin
  <2>1. IsView(file)
    BY ViewsAreGiven DEF SearchInv
  <2>2. out # << >>
    OBVIOUS
  <2>3. \A m \in Matches : out # <<m>>
    BY SequenceOfOne
  <2>4. PICK m1 \in Matches, m2 \in Matches, p \in DOMAIN file.groups, q \in DOMAIN file.groups :
           /\ out = <<m1, m2>>
           /\ IsResult(file, p, target, FALSE, m1)
           /\ IsResult(file, q, target, TRUE, m2)
           /\ file.groups[p].next = q
           /\ file.groups[p].frame = target
           /\ file.groups[q].frame = target
    <3>1. IsAnswer(file, target, out)
      BY DEF SearchInv
    <3> QED
      BY <2>2, <2>3, <3>1 DEF IsAnswer
  <2>5. out[1] = m1 /\ out[2] = m2
    BY <2>4, SequenceOfTwo
  <2>6. /\ m1.group_file_offset = p
        /\ m1.group_start_frame = target
        /\ m1.continuation = FALSE
    <3>1. PICK i \in VideoBlocks(file, p) : m1 = SearchResult(file, p, target, i, FALSE)
      BY <2>4 DEF IsResult
    <3> QED
      BY <2>4, <3>1 DEF SearchResult
  <2>7. /\ m2.group_file_offset = q
        /\ m2.group_start_frame = target
        /\ m2.continuation = TRUE
    <3>1. PICK i \in VideoBlocks(file, q) : m2 = SearchResult(file, q, target, i, TRUE)
      BY <2>4 DEF IsResult
    <3> QED
      BY <2>4, <3>1 DEF SearchResult
  <2> QED
    BY <2>4, <2>5, <2>6, <2>7
<1> QED
  BY <1>1, SearchInvariant, PTL

(* Every reported payload lies inside its group and inside the file, in    *)
(* whatever file: the caller never reads past the mapping.                 *)
THEOREM PayloadsAreMapped == Spec => []MatchesInsideFile
<1>1. SearchInv => MatchesInsideFile
  <2> SUFFICES ASSUME SearchInv, NEW n \in 1 .. Len(out) PROVE
         LET m == out[n]
             g == file.groups[m.group_file_offset]
             b == g.blocks[m.block_index_in_group + 1]
         IN  /\ b.at = m.block_header_offset
             /\ m.group_file_offset + kGroupHeaderSize <= m.block_header_offset
             /\ m.block_data_offset + b.size <= g.next
             /\ g.next <= file.size
    BY DEF MatchesInsideFile
  <2> DEFINE m == out[n]
  <2>1. IsView(file)
    BY ViewsAreGiven DEF SearchInv
  <2>2. PICK o \in DOMAIN file.groups, c \in BOOLEAN : IsResult(file, o, target, c, m)
    BY AnswerMatches DEF SearchInv
  <2> HIDE DEF m
  <2>3. PICK i \in VideoBlocks(file, o) :
           /\ m.group_file_offset = o
           /\ m.block_index_in_group + 1 = i
           /\ m.block_header_offset = file.groups[o].blocks[i].at
           /\ m.block_data_offset = file.groups[o].blocks[i].at + 20
    BY <2>1, <2>2, ResultFields
  <2>4. i \in 1 .. Len(file.groups[o].blocks)
    BY DEF VideoBlocks
  <2>5. /\ o + 48 <= file.groups[o].blocks[i].at
        /\ file.groups[o].blocks[i].at + 20 + file.groups[o].blocks[i].size
              <= file.groups[o].next
        /\ file.groups[o].next <= file.size
    BY <2>1, <2>4, GroupFacts
  <2> QED
    BY <2>3, <2>5 DEF m
<1> QED
  BY <1>1, SearchInvariant, PTL

(* Each probe leaves at most half of the interval, whatever group the      *)
(* backward scan found: bisection is logarithmic even in a file where the  *)
(* probes find audio groups or start codes inside payloads.                *)
THEOREM ProbesHalve == Spec => IntervalHalves
<1>1. SearchInv /\ [Next]_vars =>
        [pc = "binary" /\ pc' = "binary" => 2 * (right' - left') <= right - left]_vars
  <2> SUFFICES ASSUME SearchInv, Next, pc = "binary", pc' = "binary"
               PROVE  2 * (right' - left') <= right - left
    OBVIOUS
  <2>1. file \in Files /\ TypeOK /\ left \in Nat /\ right \in Nat
    BY DEF SearchInv, TypeOK
  <2>2. CASE ProbeRight
    <3>1. PICK o \in Probed : left' = file.groups[o].next
      BY <2>2 DEF ProbeRight
    <3>2. /\ Middle \in Nat /\ Middle < file.groups[o].next
          /\ file.groups[o].next \in Nat
      BY <2>1, <2>2, <3>1, ProbedGroup DEF ProbeRight
    <3>3. 2 * (right - Middle - 1) <= right - left
      BY <2>1, <2>2, MiddleOfInterval DEF ProbeRight, Probing, Middle
    <3>4. right' = right
      BY <2>2 DEF ProbeRight
    <3> HIDE DEF Middle
    <3> QED
      BY <2>1, <3>1, <3>2, <3>3, <3>4
  <2>3. CASE ProbeLeft
    <3>1. PICK o \in Probed : right' = o - 1
      BY <2>3 DEF ProbeLeft
    <3>2. /\ Middle \in Nat /\ o <= Middle /\ o \in Nat
      BY <2>1, <2>3, <3>1, ProbedGroup DEF ProbeLeft
    <3>3. 2 * (Middle - left) <= right - left
      BY <2>1, <2>3, MiddleOfInterval DEF ProbeLeft, Probing, Middle
    <3>4. left' = left
      BY <2>3 DEF ProbeLeft
    <3> HIDE DEF Middle
    <3> QED
      BY <2>1, <3>1, <3>2, <3>3, <3>4
  <2>4. ASSUME NEW t \in Targets, Call(t) \/ CallRejected(t) PROVE FALSE
    BY <2>4 DEF Call, CallRejected
  <2>5. ~ ProbeHit /\ ~ GiveUp /\ ~ LinearHit /\ ~ LinearStep /\ ~ LinearMiss
    BY DEF ProbeHit, GiveUp, LinearHit, LinearStep, LinearMiss, Scanning, Found
  <2> QED
    BY <2>2, <2>3, <2>4, <2>5 DEF Next, Step
<1> QED
  BY <1>1, SearchInvariant, PTL DEF Spec, IntervalHalves

-----------------------------------------------------------------------------
(* What the answers mean: the frames of a group. *)

(* A rank is less than the number of video blocks. *)
LEMMA RankIsBelowCount ==
    ASSUME NEW f, IsView(f), NEW o \in DOMAIN f.groups, NEW i \in VideoBlocks(f, o)
    PROVE  /\ Rank(f, o, i) \in Nat
           /\ Rank(f, o, i) < video_block_count(f, o)
           /\ video_block_count(f, o) \in Nat
<1> DEFINE n == Len(f.groups[o].blocks)
           V == VideoBlocks(f, o)
           B == {j \in V : j < i}
<1>1. n \in Nat /\ V \in SUBSET (1 .. n)
  BY GroupFacts, VideoBlockCount
<1>2. IsFiniteSet(V) /\ Cardinality(V) \in Nat
  <2> HIDE DEF n, V
  <2> QED
    BY <1>1, CountedPositions
<1>3. i \in V /\ i \notin B /\ B \subseteq V
  <2>1. i \in Int
    BY <1>1
  <2> QED
    BY <2>1
<1>4. IsFiniteSet(B) /\ Cardinality(B) < Cardinality(V) /\ Cardinality(B) \in Nat
  <2>1. IsFiniteSet(B) /\ Cardinality(B) <= Cardinality(V) 
        /\ (Cardinality(B) = Cardinality(V) => B = V)
    <3> HIDE DEF V, B
    <3> QED
      BY <1>2, <1>3, FS_Subset
  <2>2. Cardinality(B) \in Nat
    <3> HIDE DEF V, B
    <3> QED
      BY <2>1, FS_CardinalityType
  <2>3. B # V
    <3> HIDE DEF V, B
    <3> QED
      BY <1>3
  <2> HIDE DEF V, B
  <2> QED
    BY <1>2, <2>1, <2>2, <2>3
<1> QED
  BY <1>2, <1>4 DEF Rank, video_block_count

(* A video group starts no later than the ones after it. *)
LEMMA GroupsInOrder ==
    ASSUME NEW f, IsView(f), Regular(f), NEW o \in VideoGroups(f), NEW p \in VideoGroups(f),
           o < p
    PROVE  f.groups[o].frame <= f.groups[p].frame
<1>1. o \in DOMAIN f.groups /\ p \in DOMAIN f.groups
  BY DEF VideoGroups
<1>2. f.groups[o].frame \in Nat /\ f.groups[p].frame \in Nat
  BY <1>1, GroupFacts, LocatorAssumption
<1>3. video_block_count(f, o) \in Nat /\ video_block_count(f, o) # 0
  BY <1>1, VideoBlockCount DEF Regular, BlocksFit
<1>4. f.groups[o].frame + video_block_count(f, o) <= f.groups[p].frame + 1
  BY DEF Regular, Ordered
<1> QED
  BY <1>2, <1>3, <1>4

(* A group that has a block of a frame contains the frame. *)
LEMMA BlockIsContained ==
    ASSUME NEW f, IsView(f), BlocksFit(f), NEW o \in VideoGroups(f),
           NEW i \in VideoBlocks(f, o)
    PROVE  /\ GroupContainsFrame(f, o, f.groups[o].frame + Rank(f, o, i))
           /\ f.groups[o].frame + Rank(f, o, i) \in Nat
           /\ f.groups[o].frame <= f.groups[o].frame + Rank(f, o, i)
<1>1. /\ o \in DOMAIN f.groups
      /\ ~ f.groups[o].audio
  BY DEF VideoGroups
<1>2. /\ Rank(f, o, i) \in Nat
      /\ Rank(f, o, i) < video_block_count(f, o)
      /\ video_block_count(f, o) \in Nat
  BY <1>1, RankIsBelowCount
<1>3. f.groups[o].frame \in Nat
  BY <1>1, GroupFacts, LocatorAssumption
<1>4. /\ ComputeGroupFrameSpan(f, o) \in Nat
      /\ FrameEnd(f, o) = f.groups[o].frame + ComputeGroupFrameSpan(f, o)
  BY <1>1, FrameEndNeverSaturates
<1>5. /\ video_block_count(f, o) <= ComputeGroupFrameSpan(f, o)
      /\ HasImmediateSharedFrame(f, o) => video_block_count(f, o) = 1
  BY DEF BlocksFit
<1> QED
  BY <1>1, <1>2, <1>3, <1>4, <1>5 DEF GroupContainsFrame

-----------------------------------------------------------------------------
(* "Not found". *)

(* The linear scan walks from group to group, and none of those it has     *)
(* left behind contains the frame.                                         *)
CursorInv ==
    Regular(file) /\ pc = "linear" =>
        /\ \/ offset = kFirstGroupOffset
           \/ \E p \in DOMAIN file.groups : p < offset /\ file.groups[p].next = offset
        /\ \A o \in VideoGroups(file) :
              o < offset => ~ GroupContainsFrame(file, o, target)

(* The linear scan gives up only when the frame is in no readable group.   *)
LEMMA MissMeansAbsent ==
    ASSUME SearchInv, CursorInv, LinearMiss, Regular(file),
           NEW o \in ReadablePrefix(file) \cap VideoGroups(file),
           NEW i \in VideoBlocks(file, o)
    PROVE  file.groups[o].frame + Rank(file, o, i) # target
<1> DEFINE held == file.groups[o].frame + Rank(file, o, i)
<1>1. IsView(file) /\ BlocksFit(file) /\ offset \in Nat
  BY ViewsAreGiven DEF SearchInv, TypeOK, Regular
<1>2. /\ GroupContainsFrame(file, o, held)
      /\ file.groups[o].frame <= held
      /\ held \in Nat
  BY <1>1, BlockIsContained
<1>3. o \in DOMAIN file.groups /\ o \in Nat
  BY <1>1, GroupFacts DEF VideoGroups
<1>4. target \in Nat
  BY LocatorAssumption DEF SearchInv, TypeOK
<1> HIDE DEF held
<1>5. CASE o < offset
  BY <1>2, <1>5 DEF CursorInv, LinearMiss, held
<1>6. CASE o >= offset /\ offset \notin DOMAIN file.groups
  <2>1. o > offset
    BY <1>1, <1>3, <1>6
  <2>2. offset # kFirstGroupOffset
    BY <1>6 DEF ReadablePrefix
  <2>3. PICK p \in DOMAIN file.groups : p < offset /\ file.groups[p].next = offset
    BY <2>2 DEF CursorInv, LinearMiss
  <2>4. p < o
    <3>1. p \in Nat
      BY <1>1, GroupFacts
    <3> QED
      BY <1>1, <1>3, <2>1, <2>3, <3>1
  <2> QED
    BY <1>6, <2>3, <2>4 DEF ReadablePrefix
<1>7. CASE o >= offset /\ offset \in DOMAIN file.groups
  <2>1. /\ ~ GroupContainsFrame(file, offset, target)
        /\ ~ file.groups[offset].audio
        /\ target < file.groups[offset].frame
    BY <1>7 DEF LinearMiss, Scanning, Passed
  <2>2. CASE o = offset
    BY <1>2, <2>1, <2>2 DEF held
  <2>3. CASE o > offset
    <3>1. file.groups[offset].frame <= file.groups[o].frame
      BY <1>1, <1>7, <2>1, <2>3, GroupsInOrder DEF VideoGroups
    <3>2. file.groups[offset].frame \in Nat /\ file.groups[o].frame \in Nat
      BY <1>1, <1>3, <1>7, GroupFacts, LocatorAssumption
    <3> QED
      BY <1>2, <1>4, <2>1, <3>1, <3>2 DEF held
  <2> QED
    BY <1>1, <1>3, <1>7, <2>2, <2>3
<1> QED
  BY <1>1, <1>3, <1>5, <1>6, <1>7

(* A file that is answered without a search has no group.                  *)
LEMMA RejectedFileIsEmpty ==
    ASSUME NEW f, IsView(f), Tiled(f), f.size < kFirstGroupOffset + kGroupHeaderSize
    PROVE  DOMAIN f.groups = {}
<1> SUFFICES ASSUME NEW o \in DOMAIN f.groups PROVE FALSE
  OBVIOUS
<1>1. o \in Nat /\ f.size \in Nat /\ o + 48 <= f.size
  BY GroupFacts DEF IsView
<1>2. o >= 40
  BY DEF Tiled
<1> QED
  BY <1>1, <1>2

(* A hit of a Regular file is never answered with "not found".             *)
LEMMA FoundIsNotEmpty ==
    ASSUME SearchInv, Regular(file), NEW o \in DOMAIN file.groups,
           GroupContainsFrame(file, o, target), Found(o)
    PROVE  out' # << >>
<1>1. IsView(file) /\ target \in 0 .. UIntMax
  BY ViewsAreGiven DEF SearchInv, TypeOK
<1>2. out' = CollectMatches(file, o, target, options)
  BY DEF Found
<1>3. VideoBlocks(file, o) # {}
  BY DEF Regular, BlocksFit, VideoGroups, GroupContainsFrame
<1>4. CollectMatches(file, o, target, options) = << >> => VideoBlocks(file, o) = {}
  BY <1>1, CollectedMatches
<1> QED
  BY <1>2, <1>3, <1>4

LEMMA CursorInvNext ==
    ASSUME SearchInv, CursorInv, [Next]_vars
    PROVE  CursorInv'
<1> SUFFICES ASSUME Regular(file'), pc' = "linear"
             PROVE  /\ \/ offset' = 40
                       \/ \E p \in DOMAIN file'.groups :
                            p < offset' /\ file'.groups[p].next = offset'
                    /\ \A o \in VideoGroups(file') :
                          o < offset' => ~ GroupContainsFrame(file', o, target')
  BY DEF CursorInv
<1>1. IsView(file) /\ offset \in Nat
  BY ViewsAreGiven DEF SearchInv, TypeOK
<1>2. \A o \in DOMAIN file.groups : o \in Nat
  BY <1>1, GroupFacts
<1>3. CASE GiveUp
  <2>1. file' = file /\ offset' = 40
    BY <1>3 DEF GiveUp
  <2>2. ASSUME NEW o \in VideoGroups(file), o < 40 PROVE FALSE
    <3>1. o >= 40 /\ o \in Nat
      BY <1>2, <2>1 DEF Regular, Tiled, VideoGroups
    <3> QED
      BY <2>2, <3>1
  <2> QED
    BY <2>1, <2>2
<1>4. CASE LinearStep
  <2>1. /\ file' = file /\ target' = target /\ pc = "linear"
        /\ offset \in DOMAIN file.groups
        /\ offset' = file.groups[offset].next
        /\ ~ GroupContainsFrame(file, offset, target)
    BY <1>4 DEF LinearStep, Scanning
  <2>2. offset < offset' /\ offset' \in Nat
    BY <1>1, <2>1, GroupFacts
  <2>3. ASSUME NEW o \in VideoGroups(file), o < offset'
        PROVE  ~ GroupContainsFrame(file, o, target)
    <3>1. o \in DOMAIN file.groups /\ o \in Nat
      BY <1>2 DEF VideoGroups
    <3>2. CASE o < offset
      BY <2>1, <2>3, <3>2 DEF CursorInv
    <3>3. CASE o = offset
      BY <2>1, <3>3
    <3>4. CASE offset < o
      <4>1. file.groups[offset].next <= o
        BY <2>1, <3>1, <3>4 DEF Regular, Tiled
      <4> QED
        BY <2>1, <2>2, <2>3, <3>1, <4>1
    <3> QED
      BY <1>1, <3>1, <3>2, <3>3, <3>4
  <2> QED
    BY <2>1, <2>2, <2>3
<1>5. CASE UNCHANGED vars
  BY <1>5 DEF vars, CursorInv
<1>6. ~ ProbeHit /\ ~ LinearHit /\ ~ LinearMiss /\ ~ ProbeRight /\ ~ ProbeLeft
  BY DEF ProbeHit, ProbeRight, ProbeLeft, LinearHit, LinearMiss, Found, Probing
<1>7. ASSUME NEW t \in Targets, Call(t) \/ CallRejected(t) PROVE FALSE
  BY <1>7 DEF Call, CallRejected
<1> QED
  BY <1>3, <1>4, <1>5, <1>6, <1>7 DEF Next, Step

LEMMA NotFoundMeansAbsentNext ==
    ASSUME SearchInv, CursorInv, NotFoundMeansAbsent, [Next]_vars
    PROVE  NotFoundMeansAbsent'
<1>1. IsView(file)
  BY ViewsAreGiven DEF SearchInv
<1>2. CASE LinearMiss
  <2>1. file' = file /\ target' = target
    BY <1>2 DEF LinearMiss
  <2> QED
    BY <1>2, <2>1, MissMeansAbsent DEF NotFoundMeansAbsent
<1>3. ASSUME NEW t \in Targets, CallRejected(t) PROVE NotFoundMeansAbsent'
  <2>1. file' = file /\ (~ file.header \/ ~ file.size >= 88)
    BY <1>3 DEF CallRejected
  <2>2. SUFFICES ASSUME Regular(file), file.header PROVE DOMAIN file.groups = {}
    BY <2>1 DEF NotFoundMeansAbsent, VideoGroups
  <2>3. Tiled(file) /\ file.size < 88
    BY <1>1, <2>1, <2>2 DEF Regular, IsView
  <2> QED
    BY <1>1, <2>3, RejectedFileIsEmpty
<1>4. ASSUME NEW o \in DOMAIN file.groups, GroupContainsFrame(file, o, target),
             Found(o), file' = file
      PROVE  NotFoundMeansAbsent'
  BY <1>4, FoundIsNotEmpty DEF NotFoundMeansAbsent
<1>5. CASE ProbeHit
  <2>1. PICK o \in Probed : GroupContainsFrame(file, o, target) /\ Found(o)
    BY <1>5 DEF ProbeHit
  <2>2. o \in DOMAIN file.groups
    BY <1>5, ProbedGroup DEF ProbeHit, SearchInv
  <2> QED
    BY <1>4, <1>5, <2>1, <2>2 DEF ProbeHit
<1>6. CASE LinearHit
  BY <1>4, <1>6 DEF LinearHit, Scanning
<1>7. CASE UNCHANGED vars
  BY <1>7 DEF vars, NotFoundMeansAbsent
<1>8. CASE ProbeRight \/ ProbeLeft \/ GiveUp \/ LinearStep \/ \E t \in Targets : Call(t)
  <2>1. pc' # "done"
    BY <1>8 DEF ProbeRight, ProbeLeft, GiveUp, LinearStep, Call, Probing, Scanning
  <2> QED
    BY <2>1 DEF NotFoundMeansAbsent
<1> QED
  BY <1>2, <1>3, <1>5, <1>6, <1>7, <1>8 DEF Next, Step

(* "Not found" is true of every group before the first damage: the binary  *)
(* search may have gone anywhere, the linear scan has seen all of them up  *)
(* to one that starts after the frame.                                     *)
THEOREM NotFoundIsTrue == Spec => []NotFoundMeansAbsent
<1>1. Init => CursorInv /\ NotFoundMeansAbsent
  BY DEF Init, CursorInv, NotFoundMeansAbsent
<1>2. SearchInv /\ CursorInv /\ NotFoundMeansAbsent /\ [Next]_vars
        => (CursorInv /\ NotFoundMeansAbsent)'
  BY CursorInvNext, NotFoundMeansAbsentNext
<1> QED
  BY <1>1, <1>2, SearchInvariant, PTL DEF Spec

-----------------------------------------------------------------------------
(* The block of a match. *)

(* FindNextNonAudioGroup never jumps over a video group. *)
LEMMA FollowerSkipsNoVideo ==
    ASSUME NEW f, IsView(f), Tiled(f), NEW p \in VideoGroups(f),
           NEW o \in DOMAIN f.groups, o < p, f.groups[o].follower # NoGroup
    PROVE  f.groups[o].follower <= p
<1> DEFINE Jumps(x) == x < p /\ f.groups[x].follower # 0 /\ ~ (f.groups[x].follower <= p)
           Gaps == {d \in Nat : \E x \in DOMAIN f.groups : Jumps(x) /\ d = p - x}
<1>1. SUFFICES ASSUME Jumps(o) PROVE FALSE
  OBVIOUS
<1>2. p \in DOMAIN f.groups /\ ~ f.groups[p].audio
  BY DEF VideoGroups
<1>3. \A x \in DOMAIN f.groups : x \in Nat
  BY GroupFacts
<1>4. Gaps # {}
  <2>1. p - o \in Nat
    BY <1>2, <1>3
  <2> QED
    BY <1>1, <2>1
<1>5. PICK d \in Gaps : \A e \in Gaps : d <= e
  <2> HIDE DEF Gaps
  <2>1. Gaps \in SUBSET Nat
    BY DEF Gaps
  <2> QED
    BY <1>4, <2>1, SmallestOf
<1>6. PICK x \in DOMAIN f.groups : Jumps(x) /\ d = p - x
  OBVIOUS
<1> DEFINE next == f.groups[x].next
<1>7. next \in Nat /\ x < next /\ x \in Nat
  BY GroupFacts
<1>8. next <= p
  BY <1>2, <1>6 DEF Tiled
<1>9. f.groups[x].follower = IF next \notin DOMAIN f.groups THEN 0
                            ELSE IF f.groups[next].audio THEN f.groups[next].follower
                            ELSE next
  BY DEF IsView, IsFollower
<1>10. next \in DOMAIN f.groups /\ f.groups[next].audio
  BY <1>6, <1>8, <1>9
<1>11. next < p
  <2>1. next # p
    BY <1>2, <1>10
  <2> QED
    BY <1>2, <1>3, <1>7, <1>8, <2>1
<1>12. Jumps(next)
  BY <1>6, <1>9, <1>10, <1>11
<1>13. p - next \in Gaps
  <2>1. p - next \in Nat
    BY <1>2, <1>3, <1>7, <1>11
  <2> QED
    BY <1>10, <1>12, <2>1
<1>14. p - next < d
  BY <1>2, <1>3, <1>6, <1>7
<1>15. d \in Nat /\ p - next \in Nat
  BY <1>13
<1> HIDE DEF Gaps, next
<1> QED
  BY <1>5, <1>13, <1>14, <1>15

(* FindNextNonAudioGroup finds a video group. *)
LEMMA FollowerIsVideo ==
    ASSUME NEW f, IsView(f), NEW o \in DOMAIN f.groups, f.groups[o].follower # NoGroup
    PROVE  f.groups[o].follower \in VideoGroups(f)
<1> DEFINE Strays(x) == f.groups[x].follower # 0 /\ f.groups[x].follower \notin VideoGroups(f)
           Gaps == {d \in Nat : \E x \in DOMAIN f.groups : Strays(x) /\ d = f.size - x}
<1>1. SUFFICES ASSUME Strays(o) PROVE FALSE
  OBVIOUS
<1>2. \A x \in DOMAIN f.groups : x \in Nat /\ x < f.size
  <2> SUFFICES ASSUME NEW x \in DOMAIN f.groups PROVE x \in Nat /\ x < f.size
    OBVIOUS
  <2>1. /\ x \in Nat /\ f.size \in Nat /\ f.groups[x].next \in Nat
        /\ x < f.groups[x].next /\ f.groups[x].next <= f.size
    BY GroupFacts
  <2> QED
    BY <2>1
<1>3. f.size \in Nat
  BY DEF IsView
<1>4. Gaps # {}
  <2>1. f.size - o \in Nat
    BY <1>2, <1>3
  <2> QED
    BY <1>1, <2>1
<1>5. PICK d \in Gaps : \A e \in Gaps : d <= e
  <2> HIDE DEF Gaps
  <2>1. Gaps \in SUBSET Nat
    BY DEF Gaps
  <2> QED
    BY <1>4, <2>1, SmallestOf
<1>6. PICK x \in DOMAIN f.groups : Strays(x) /\ d = f.size - x
  OBVIOUS
<1> DEFINE next == f.groups[x].next
<1>7. next \in Nat /\ x < next /\ x \in Nat
  BY GroupFacts
<1>8. f.groups[x].follower = IF next \notin DOMAIN f.groups THEN 0
                            ELSE IF f.groups[next].audio THEN f.groups[next].follower
                            ELSE next
  BY DEF IsView, IsFollower
<1>9. next \in DOMAIN f.groups /\ Strays(next)
  BY <1>6, <1>8 DEF VideoGroups
<1>10. f.size - next \in Gaps
  <2>1. f.size - next \in Nat
    BY <1>2, <1>3, <1>9
  <2> QED
    BY <1>9, <2>1
<1>11. f.size - next < d
  BY <1>3, <1>6, <1>7
<1>12. d \in Nat /\ f.size - next \in Nat
  BY <1>10
<1> HIDE DEF Gaps, next
<1> QED
  BY <1>5, <1>10, <1>11, <1>12

(* The frame a match holds: the one asked for, or the last of its group.   *)
LEMMA HeldFrame ==
    ASSUME NEW f, IsView(f), Regular(f), NEW t \in Nat,
           NEW o \in DOMAIN f.groups, GroupContainsFrame(f, o, t),
           NEW held, held = f.groups[o].frame + DesiredVideoIndex(f, o, t)
    PROVE  /\ held \in Nat
           /\ f.groups[o].frame <= held
           /\ held <= t
           /\ \/ held = t
              \/ held + 1 = f.groups[o].frame + video_block_count(f, o)
           /\ ComputeGroupFrameSpan(f, o) = video_block_count(f, o) => held = t
<1> DEFINE frame == f.groups[o].frame
           count == video_block_count(f, o)
           span == ComputeGroupFrameSpan(f, o)
<1>1. frame \in Nat /\ count \in Nat /\ span \in Nat
  BY GroupFacts, VideoBlockCount, FrameEndNeverSaturates, LocatorAssumption
<1>2. o \in VideoGroups(f) /\ count # 0 /\ count <= span
  BY VideoBlockCount DEF Regular, BlocksFit, GroupContainsFrame, VideoGroups
<1>3. t >= frame
  BY DEF GroupContainsFrame
<1>4. HasImmediateSharedFrame(f, o) => t = frame
  BY DEF GroupContainsFrame
<1>5. ~ HasImmediateSharedFrame(f, o) => t < frame + span
  BY FrameEndNeverSaturates DEF GroupContainsFrame
<1>6. held = frame + (IF span > 1 /\ count > 1
                     THEN IF t - frame >= count THEN count - 1 ELSE t - frame
                     ELSE 0)
  BY DEF DesiredVideoIndex
<1> HIDE DEF frame, count, span
<1>7. /\ held \in Nat
      /\ frame <= held
      /\ held <= t
      /\ \/ held = t
         \/ held + 1 = frame + count
  BY <1>1, <1>2, <1>3, <1>6
<1>8. span = count => held = t
  BY <1>1, <1>2, <1>3, <1>4, <1>5, <1>6
<1> QED
  BY <1>7, <1>8 DEF frame, count, span

(* No block of the recording holds a frame between the one of a match and  *)
(* the one asked for.                                                      *)
LEMMA NothingBetween ==
    ASSUME NEW f, IsView(f), Regular(f), NEW t \in Nat,
           NEW o \in DOMAIN f.groups, GroupContainsFrame(f, o, t),
           NEW held, held = f.groups[o].frame + DesiredVideoIndex(f, o, t),
           NEW p \in VideoGroups(f), NEW j \in VideoBlocks(f, p),
           held < f.groups[p].frame + Rank(f, p, j), f.groups[p].frame + Rank(f, p, j) <= t
    PROVE  FALSE
<1> DEFINE other == f.groups[p].frame + Rank(f, p, j)
           frame == f.groups[o].frame
           count == video_block_count(f, o)
<1>1. /\ held \in Nat /\ frame <= held /\ held <= t
      /\ held = t \/ held + 1 = frame + count
      /\ ComputeGroupFrameSpan(f, o) = count => held = t
  BY HeldFrame
<1>2. o \in VideoGroups(f) /\ o \in Nat
  BY GroupFacts DEF GroupContainsFrame, VideoGroups
<1>3. p \in DOMAIN f.groups /\ p \in Nat
  BY GroupFacts DEF VideoGroups
<1>4. /\ Rank(f, p, j) \in Nat
      /\ Rank(f, p, j) < video_block_count(f, p)
      /\ video_block_count(f, p) \in Nat
  BY <1>3, RankIsBelowCount
<1>5. frame \in Nat /\ f.groups[p].frame \in Nat /\ count \in Nat
  BY <1>3, GroupFacts, VideoBlockCount, LocatorAssumption
<1>6. other \in Nat /\ f.groups[p].frame <= other /\ held < other /\ other <= t
  BY <1>4, <1>5
<1>7. CASE p = o
  BY <1>1, <1>4, <1>5, <1>6, <1>7
<1>8. CASE p < o
  <2>1. f.groups[p].frame + video_block_count(f, p) <= frame + 1
    BY <1>2, <1>8 DEF Regular, Ordered
  <2> HIDE DEF frame, count
  <2> QED
    BY <1>1, <1>4, <1>5, <1>6, <2>1
<1>9. CASE o < p
  <2>1. held # t
    BY <1>6, <1>1
  <2>2. ComputeGroupFrameSpan(f, o) # count
    BY <1>1, <2>1
  <2>3. ~ f.groups[o].audio /\ VideoBlocks(f, o) # {}
    BY <1>2 DEF VideoGroups, Regular, BlocksFit
  <2>4. /\ HasNextNonAudio(f, o)
        /\ NextNonAudioFrame(f, o) > frame
        /\ ComputeGroupFrameSpan(f, o) = NextNonAudioFrame(f, o) - frame
    BY <2>2, <2>3 DEF ComputeGroupFrameSpan
  <2> DEFINE q == f.groups[o].follower
  <2>5. q # 0 /\ q \in DOMAIN f.groups /\ q <= p
    BY <1>9, <2>4, FollowerSkipsNoVideo, GroupFacts DEF HasNextNonAudio, Regular
  <2>6. q \in Nat /\ f.groups[q].frame \in Nat
    <3> HIDE DEF q
    <3>1. q \in Nat /\ f.groups[q].frame \in 0 .. MaxFrame
      BY <2>5, GroupFacts
    <3> QED
      BY <3>1, LocatorAssumption
  <2>7. f.groups[q].frame <= f.groups[p].frame
    <3>1. CASE q = p
      BY <3>1, <1>5
    <3>2. CASE q < p
      <4>1. q \in VideoGroups(f)
        BY <2>5, FollowerIsVideo
      <4> QED
        BY <3>2, <4>1, GroupsInOrder
    <3> QED
      BY <1>3, <2>5, <2>6, <3>1, <3>2
  <2>8. t < f.groups[q].frame
    <3>1. HasImmediateSharedFrame(f, o) => t = frame
      BY DEF GroupContainsFrame
    <3>2. ~ HasImmediateSharedFrame(f, o) => t < frame + ComputeGroupFrameSpan(f, o)
      BY FrameEndNeverSaturates DEF GroupContainsFrame
    <3>3. NextNonAudioFrame(f, o) = f.groups[q].frame
      BY DEF NextNonAudioFrame
    <3> HIDE DEF q, frame
    <3> QED
      BY <1>5, <2>4, <2>6, <3>1, <3>2, <3>3
  <2> HIDE DEF q
  <2> QED
    BY <1>5, <1>6, <2>6, <2>7, <2>8
<1> QED
  BY <1>2, <1>3, <1>7, <1>8, <1>9

(* The block of a match holds the frame asked for, or the last one before  *)
(* it that the recording has: the search never reports a wrong frame.      *)
THEOREM MatchIsTheFloor == Spec => []MatchIsFloor
<1>1. SearchInv => MatchIsFloor
  <2> SUFFICES ASSUME SearchInv, Regular(file), NEW n \in 1 .. Len(out) PROVE
         LET o == out[n].group_file_offset
             held == file.groups[o].frame + Rank(file, o, out[n].block_index_in_group + 1)
         IN  /\ held <= target
             /\ \A b \in VideoFrames(file) : ~ (held < b.frame /\ b.frame <= target)
    BY DEF MatchIsFloor
  <2> DEFINE m == out[n]
  <2>1. IsView(file) /\ target \in Nat
    BY ViewsAreGiven, LocatorAssumption DEF SearchInv, TypeOK
  <2>2. PICK o \in DOMAIN file.groups, c \in BOOLEAN : IsResult(file, o, target, c, m)
    BY AnswerMatches DEF SearchInv
  <2> HIDE DEF m
  <2>3. /\ m.group_file_offset = o
        /\ GroupContainsFrame(file, o, target)
        /\ Rank(file, o, m.block_index_in_group + 1) = DesiredVideoIndex(file, o, target)
    BY <2>1, <2>2, ResultFields
  <2> DEFINE held == file.groups[o].frame + DesiredVideoIndex(file, o, target)
  <2>4. held <= target
    BY <2>1, <2>3, HeldFrame
  <2>5. ASSUME NEW b \in VideoFrames(file), held < b.frame, b.frame <= target PROVE FALSE
    <3>1. PICK p \in VideoGroups(file) :
             \E j \in VideoBlocks(file, p) : b.frame = file.groups[p].frame + Rank(file, p, j)
      BY DEF VideoFrames
    <3> QED
      BY <2>1, <2>3, <2>5, <3>1, NothingBetween
  <2> HIDE DEF held
  <2>6. held = file.groups[m.group_file_offset].frame
               + Rank(file, m.group_file_offset, m.block_index_in_group + 1)
    BY <2>3 DEF held
  <2> QED
    BY <2>4, <2>5, <2>6 DEF m
<1> QED
  BY <1>1, SearchInvariant, PTL

-----------------------------------------------------------------------------
(* Where the group of a frame can be. *)

(* Every group of a Seekable file is a video group. *)
LEMMA SeekableGroups ==
    ASSUME NEW f, NEW opt, IsView(f), Seekable(f, opt), NEW o \in DOMAIN f.groups
    PROVE  /\ o \in VideoGroups(f)
           /\ o \in Nat
           /\ o >= kFirstGroupOffset
           /\ ~ f.groups[o].audio
           /\ f.groups[o].frame \in Nat
           /\ o < f.size
           /\ f.size \in Nat
           /\ f.groups[o].next \in Nat
           /\ f.groups[o].next \in DOMAIN f.groups \cup {f.size}
           /\ \A p \in DOMAIN f.groups : o < p => f.groups[o].next <= p
<1>1. /\ o \in Nat /\ f.size \in Nat /\ f.groups[o].next \in Nat
      /\ o < f.groups[o].next /\ f.groups[o].next <= f.size
      /\ f.groups[o].frame \in 0 .. MaxFrame
  BY GroupFacts
<1>2. o < f.size /\ f.groups[o].frame \in Nat
  BY <1>1, LocatorAssumption
<1>3. ~ f.groups[o].audio /\ f.groups[o].next \in DOMAIN f.groups \cup {f.size}
  BY DEF Seekable
<1>4. /\ o >= 40
      /\ \A p \in DOMAIN f.groups : o < p => f.groups[o].next <= p
  BY DEF Seekable, Regular, Tiled
<1> QED
  BY <1>1, <1>2, <1>3, <1>4 DEF VideoGroups

(* A group that starts at the frame contains it. *)
LEMMA FirstFrameIsContained ==
    ASSUME NEW f, IsView(f), NEW q \in DOMAIN f.groups, ~ f.groups[q].audio
    PROVE  GroupContainsFrame(f, q, f.groups[q].frame)
<1>1. /\ f.groups[q].frame \in Nat
      /\ ComputeGroupFrameSpan(f, q) \in Nat
      /\ ComputeGroupFrameSpan(f, q) # 0
      /\ FrameEnd(f, q) = f.groups[q].frame + ComputeGroupFrameSpan(f, q)
  BY GroupFacts, FrameEndNeverSaturates, LocatorAssumption
<1> QED
  BY <1>1 DEF GroupContainsFrame

(* Going right from a group that starts at or before the frame and does    *)
(* not contain it loses no group that does.                                *)
LEMMA RightOfProbe ==
    ASSUME NEW f, NEW opt, IsView(f), Seekable(f, opt), NEW t \in Nat,
           NEW q \in DOMAIN f.groups, ~ GroupContainsFrame(f, q, t),
           t >= f.groups[q].frame,
           NEW o \in DOMAIN f.groups, GroupContainsFrame(f, o, t)
    PROVE  f.groups[q].next <= o
<1>1. /\ o \in Nat /\ q \in Nat /\ o \in VideoGroups(f) /\ q \in VideoGroups(f)
      /\ f.groups[o].frame \in Nat /\ f.groups[q].frame \in Nat
      /\ f.groups[o].next \in Nat /\ f.size \in Nat /\ q < f.size
  BY SeekableGroups
<1>2. CASE q < o
  BY <1>2, SeekableGroups
<1>3. CASE q = o
  BY <1>3
<1>4. CASE o < q
  <2> DEFINE r == f.groups[o].next
  <2>1. r <= q /\ r \in DOMAIN f.groups \cup {f.size}
    BY <1>4, SeekableGroups
  <2>2. r \in DOMAIN f.groups
    BY <1>1, <2>1
  <2>3. r \in Nat /\ r > o /\ ~ f.groups[r].audio /\ r \in VideoGroups(f)
        /\ f.groups[r].frame \in Nat
    <3> HIDE DEF r
    <3>1. r > o
      BY GroupFacts DEF r
    <3> QED
      BY <2>2, <3>1, SeekableGroups
  <2>4. f.groups[o].follower = r
    BY <2>2, <2>3 DEF IsView, IsFollower
  <2>5. f.groups[o].frame <= f.groups[r].frame
    BY <1>1, <2>3, GroupsInOrder DEF Seekable
  <2>6. f.groups[r].frame <= f.groups[q].frame
    <3>1. CASE r = q
      BY <3>1, <1>1
    <3>2. CASE r < q
      BY <1>1, <2>3, <3>2, GroupsInOrder DEF Seekable
    <3> QED
      BY <1>1, <2>1, <2>3, <3>1, <3>2
  <2>7. f.groups[q].frame < t
    <3>1. f.groups[q].frame # t
      BY <1>1, FirstFrameIsContained DEF VideoGroups
    <3> QED
      BY <1>1, <3>1
  <2>8. f.groups[o].frame < t
    BY <1>1, <2>3, <2>5, <2>6, <2>7
  <2>9. ~ HasImmediateSharedFrame(f, o) /\ t < FrameEnd(f, o)
    BY <1>1, <2>8 DEF GroupContainsFrame
  <2>10. f.groups[r].frame > f.groups[o].frame
    <3>1. /\ r \in DOMAIN f.heads
          /\ f.heads[r].frame = f.groups[r].frame
          /\ f.heads[r].audio = f.groups[r].audio
      BY <2>2 DEF IsView, IsGroup
    <3>2. f.groups[r].frame # f.groups[o].frame
      BY <1>1, <2>3, <2>9, <3>1 DEF HasImmediateSharedFrame, VideoGroups
    <3> QED
      BY <1>1, <2>3, <2>5, <3>2
  <2>11. ComputeGroupFrameSpan(f, o) = f.groups[r].frame - f.groups[o].frame
    <3>1. r # 0 /\ ~ f.groups[o].audio
      BY <1>1, <2>3 DEF VideoGroups
    <3> QED
      BY <2>4, <2>10, <3>1
        DEF ComputeGroupFrameSpan, HasNextNonAudio, NextNonAudioFrame
  <2>12. FrameEnd(f, o) = f.groups[o].frame + ComputeGroupFrameSpan(f, o)
    BY FrameEndNeverSaturates
  <2> HIDE DEF r
  <2> QED
    BY <1>1, <2>3, <2>6, <2>7, <2>9, <2>11, <2>12
<1> QED
  BY <1>1, <1>2, <1>3, <1>4

(* Going left from a group that starts after the frame loses none either.  *)
LEMMA LeftOfProbe ==
    ASSUME NEW f, NEW opt, IsView(f), Seekable(f, opt), NEW t \in Nat,
           NEW q \in DOMAIN f.groups, ~ (t >= f.groups[q].frame),
           NEW o \in DOMAIN f.groups, GroupContainsFrame(f, o, t)
    PROVE  o <= q - 1
<1>1. /\ o \in Nat /\ q \in Nat /\ o \in VideoGroups(f) /\ q \in VideoGroups(f)
      /\ f.groups[o].frame \in Nat /\ f.groups[q].frame \in Nat
  BY SeekableGroups
<1>2. t >= f.groups[o].frame
  BY DEF GroupContainsFrame
<1>3. CASE o = q
  BY <1>2, <1>3
<1>4. CASE q < o
  <2>1. f.groups[q].frame <= f.groups[o].frame
    BY <1>1, <1>4, GroupsInOrder DEF Seekable
  <2> QED
    BY <1>1, <1>2, <2>1
<1> QED
  BY <1>1, <1>3, <1>4

-----------------------------------------------------------------------------
(* The interval always holds the group of the frame: no probe of a         *)
(* recording without audio groups goes to the wrong side, shared frames    *)
(* and skipped frames included.                                            *)
THEOREM TargetIsNeverDiscarded == Spec => []NeverDiscardsTarget
<1>1. Init => NeverDiscardsTarget
  BY DEF Init, NeverDiscardsTarget
<1>2. SearchInv /\ NeverDiscardsTarget /\ [Next]_vars => NeverDiscardsTarget'
  <2> SUFFICES ASSUME SearchInv, NeverDiscardsTarget, [Next]_vars,
                      Seekable(file', options'), pc' = "binary",
                      NEW o \in DOMAIN file'.groups,
                      GroupContainsFrame(file', o, target')
               PROVE  left' <= o /\ o <= right'
    BY DEF NeverDiscardsTarget
  <2>1. file' = file /\ options' = options
    BY DEF Next, Step, Call, CallRejected, ProbeHit, ProbeRight, ProbeLeft, GiveUp,
           LinearHit, LinearStep, LinearMiss, vars
  <2>2. /\ IsView(file) /\ file \in Files /\ TypeOK
        /\ left \in Nat /\ right \in Nat /\ target \in Nat
    BY ViewsAreGiven, LocatorAssumption DEF SearchInv, TypeOK
  <2>3. /\ Seekable(file, options) /\ o \in DOMAIN file.groups
    BY <2>1
  <2>4. /\ o \in Nat /\ o >= 40 /\ o < file.size /\ file.size \in Nat
    BY <2>2, <2>3, SeekableGroups
  <2>5. ASSUME NEW t \in Targets, Call(t) PROVE left' <= o /\ o <= right'
    BY <2>4, <2>5 DEF Call
  <2>6. CASE ProbeRight
    <3>1. /\ Probing /\ target' = target /\ right' = right
          /\ pc = "binary"
      BY <2>6 DEF ProbeRight, Probing
    <3>2. PICK q \in Probed : /\ ~ GroupContainsFrame(file, q, target)
                             /\ GoesRight(q)
                             /\ left' = file.groups[q].next
      BY <2>6 DEF ProbeRight
    <3>3. q \in DOMAIN file.groups
      BY <2>2, <3>1, ProbedGroup
    <3>4. target >= file.groups[q].frame
      BY <2>2, <2>3, <3>2, <3>3, SeekableGroups DEF GoesRight
    <3>5. o <= right
      BY <2>1, <2>3, <3>1 DEF NeverDiscardsTarget
    <3>6. file.groups[q].next <= o
      BY <2>1, <2>2, <2>3, <3>1, <3>2, <3>3, <3>4, RightOfProbe
    <3> QED
      BY <3>1, <3>2, <3>5, <3>6
  <2>7. CASE ProbeLeft
    <3>1. /\ Probing /\ target' = target /\ left' = left
          /\ pc = "binary"
      BY <2>7 DEF ProbeLeft, Probing
    <3>2. PICK q \in Probed : /\ ~ GoesRight(q)
                             /\ right' = q - 1
      BY <2>7 DEF ProbeLeft
    <3>3. q \in DOMAIN file.groups
      BY <2>2, <3>1, ProbedGroup
    <3>4. ~ (target >= file.groups[q].frame)
      BY <3>2 DEF GoesRight
    <3>5. left <= o
      BY <2>1, <2>3, <3>1 DEF NeverDiscardsTarget
    <3>6. o <= q - 1
      BY <2>1, <2>2, <2>3, <3>1, <3>3, <3>4, LeftOfProbe
    <3> QED
      BY <3>1, <3>2, <3>5, <3>6
  <2>8. CASE UNCHANGED vars
    BY <2>1, <2>3, <2>8 DEF vars, NeverDiscardsTarget
  <2>9. ~ ProbeHit /\ ~ GiveUp /\ ~ LinearHit /\ ~ LinearStep /\ ~ LinearMiss
    BY DEF ProbeHit, GiveUp, LinearHit, LinearStep, LinearMiss, Scanning, Found
  <2>10. ASSUME NEW t \in Targets, CallRejected(t) PROVE FALSE
    BY <2>10 DEF CallRejected
  <2> QED
    BY <2>5, <2>6, <2>7, <2>8, <2>9, <2>10 DEF Next, Step
<1> QED
  BY <1>1, <1>2, SearchInvariant, PTL DEF Spec

-----------------------------------------------------------------------------
(* The binary search alone decides. *)

(* The halvings of a size are what their recursive definition says. *)
LEMMA HalvingsDefined ==
    ASSUME NEW size \in Nat
    PROVE  /\ Halvings(size) \in [0 .. MaxIterations -> Nat]
           /\ Halvings(size)[0] = size
           /\ \A n \in 1 .. MaxIterations : Halvings(size)[n] = Halvings(size)[n - 1] \div 2
<1> DEFINE M == MaxIterations
           step == [n \in Nat |-> [x \in Nat |-> x \div 2]]
           Def(h) == h = [n \in 0 .. M |-> IF n = 0 THEN size ELSE h[n - 1] \div 2]
<1>1. M \in Nat /\ 0 <= M /\ step \in [Nat -> [Nat -> Nat]]
  BY LocatorAssumption
<1>2. PICK f : Iterates(f, 0, M, Nat, size, step)
  <2> HIDE DEF M, step
  <2> QED
    BY <1>1, IterationExists
<1>3. ASSUME NEW n \in 0 .. M PROVE f[n] = IF n = 0 THEN size ELSE f[n - 1] \div 2
  <2>1. CASE n = 0
    BY <2>1, <1>2 DEF Iterates
  <2>2. CASE n # 0
    <3>1. n \in Nat /\ n \in 0 + 1 .. M /\ n - 1 \in 0 .. M
      BY <1>1, <2>2
    <3>2. f[n - 1] \in Nat
      BY <3>1, <1>2 DEF Iterates
    <3> QED
      BY <3>1, <3>2, <2>2, <1>2 DEF Iterates
  <2> QED
    BY <2>1, <2>2
<1>4. Def(f)
  <2>1. f = [n \in 0 .. M |-> f[n]]
    BY <1>2 DEF Iterates
  <2> QED
    BY <2>1, <1>3
<1> DEFINE h == CHOOSE h : Def(h)
<1>5. Def(h)
  BY <1>4
<1>6. Halvings(size) = h
  BY DEF Halvings
<1> HIDE DEF h
<1>7. h[0] = size
  BY <1>1, <1>5
<1>8. \A n \in 1 .. M : n \in 0 .. M /\ n # 0
  BY <1>1
<1>9. \A n \in 1 .. M : h[n] = h[n - 1] \div 2
  BY <1>5, <1>8
<1>10. h \in [0 .. M -> Nat]
  <2>1. \A n \in 0 + 1 .. M : h[n - 1] \in Nat => h[n] \in Nat
    BY <1>9
  <2>2. h[0] \in Nat /\ 0 \in Nat
    BY <1>7
  <2>3. \A n \in 0 .. M : h[n] \in Nat
    <3> HIDE DEF M
    <3> QED
      BY <1>1, <2>1, <2>2, StaysIn
  <2> QED
    BY <1>5, <2>3
<1> QED
  BY <1>6, <1>7, <1>9, <1>10

(* Every byte after the file header of a Seekable file is in a group. *)
LEMMA GroupAround ==
    ASSUME NEW f, NEW opt, IsView(f), Seekable(f, opt),
           NEW at \in Nat, kFirstGroupOffset <= at, at < f.size
    PROVE  \E g \in DOMAIN f.groups : g <= at /\ at < f.groups[g].next
<1> DEFINE Before == {g \in DOMAIN f.groups : g <= at}
           Distances == {at - g : g \in Before}
<1>1. \A g \in DOMAIN f.groups : g \in Nat
  BY SeekableGroups
<1>2. 40 \in Before
  BY DEF Seekable
<1>3. Distances \in SUBSET Nat /\ Distances # {}
  BY <1>1, <1>2
<1>4. PICK d \in Distances : \A e \in Distances : d <= e
  BY <1>3, SmallestOf
<1>5. PICK g \in Before : d = at - g
  OBVIOUS
<1>6. /\ g \in DOMAIN f.groups /\ g \in Nat /\ g <= at
      /\ f.groups[g].next \in Nat
      /\ f.groups[g].next \in DOMAIN f.groups \cup {f.size}
      /\ f.groups[g].next > g
  BY SeekableGroups, GroupFacts
<1>7. at < f.groups[g].next
  <2>1. SUFFICES ASSUME f.groups[g].next <= at PROVE FALSE
    BY <1>6
  <2>2. f.groups[g].next \in Before
    BY <1>6, <2>1
  <2>3. at - f.groups[g].next \in Distances
    BY <2>2
  <2>4. at - g <= at - f.groups[g].next
    BY <1>4, <1>5, <2>3
  <2> QED
    BY <1>6, <2>4
<1> QED
  BY <1>6, <1>7

(* The backward scan of a probe finds the group around its offset: the     *)
(* group starts inside the window and on a multiple of four, and no start  *)
(* code above it begins another group around the offset.                   *)
LEMMA ProbeFindsGroup ==
    ASSUME NEW f, NEW opt, opt.probe \in Nat, IsView(f), Seekable(f, opt),
           NEW at \in Nat, NEW g \in DOMAIN f.groups, g <= at, at < f.groups[g].next
    PROVE  g \in FindContainingGroup(f, at, opt.probe)
<1> DEFINE lower == ClampWindowLower(at, opt.probe)
<1>1. /\ g \in Nat /\ g >= 40 /\ f.size \in Nat
      /\ f.groups[g].next \in Nat /\ f.groups[g].next <= f.size
      /\ g % 4 = 0 /\ f.groups[g].next - g <= opt.probe
      /\ g \in f.codes
  <2>1. g \in Nat /\ g >= 40 /\ f.size \in Nat /\ f.groups[g].next \in Nat
    BY SeekableGroups
  <2>2. f.groups[g].next <= f.size
    BY GroupFacts
  <2>3. g % 4 = 0 /\ f.groups[g].next - g <= opt.probe
    BY DEF Seekable
  <2>4. g \in f.codes
    BY DEF IsView
  <2> QED
    BY <2>1, <2>2, <2>3, <2>4
<1>2. lower \in Int /\ lower <= g
  BY <1>1 DEF ClampWindowLower
<1> HIDE DEF lower
<1>3. g \in ScannedStartCodes(f, at, lower)
  BY <1>1, <1>2 DEF ScannedStartCodes
<1> DEFINE C == {c \in ScannedStartCodes(f, at, lower) :
                   /\ 40 <= at /\ at < f.size
                   /\ c \in DOMAIN f.groups
                   /\ c <= at
                   /\ at < f.groups[c].next}
<1>4. g \in C
  BY <1>1, <1>3
<1>5. ASSUME NEW c \in C PROVE c <= g
  <2>1. /\ c \in DOMAIN f.groups /\ c \in Nat /\ c <= at
        /\ g < c => f.groups[g].next <= c
    BY SeekableGroups
  <2> QED
    BY <1>1, <2>1
<1>6. FindContainingGroup(f, at, opt.probe) = LastOf(C)
  BY DEF FindContainingGroup, lower
<1> QED
  BY <1>4, <1>5, <1>6 DEF LastOf

(* The interval ends where groups do, it has been halved once per probe,   *)
(* and it is given up only when no group contains the frame.               *)
IntervalInv ==
    Seekable(file, options) =>
        /\ pc = "binary" =>
              /\ kFirstGroupOffset <= left
              /\ right + 1 \in DOMAIN file.groups \cup {file.size}
              /\ right - left <= Halvings(file.size)[iteration]
        /\ pc = "linear" =>
              \A o \in DOMAIN file.groups : ~ GroupContainsFrame(file, o, target)

(* Half of an interval. *)
LEMMA HalfOf ==
    ASSUME NEW d \in Int, NEW h \in Nat, NEW e \in Int, d <= h, 2 * e <= d
    PROVE  e <= h \div 2
<1> DEFINE q == h \div 2
<1>1. q \in Nat /\ h <= 2 * q + 1
  OBVIOUS
<1> HIDE DEF q
<1>3. e <= q
  BY <1>1
<1> QED
  BY <1>3 DEF q

(* A probe leaves an interval that has been halved once more. *)
LEMMA ProbeHalves ==
    ASSUME SearchInv, Probing,
           NEW d \in Int, 2 * d <= right - left,
           right - left <= Halvings(file.size)[iteration]
    PROVE  d <= Halvings(file.size)[iteration + 1]
<1>1. /\ file.size \in Nat /\ left \in Nat /\ right \in Nat
      /\ iteration \in 0 .. MaxIterations /\ iteration < MaxIterations
      /\ MaxIterations \in Nat
  BY ViewsAreGiven, LocatorAssumption DEF SearchInv, TypeOK, IsView, Probing
<1>2. /\ iteration + 1 \in 1 .. MaxIterations
      /\ (iteration + 1) - 1 = iteration
  BY <1>1
<1> DEFINE H == Halvings(file.size)
<1>3. /\ H \in [0 .. MaxIterations -> Nat]
      /\ \A n \in 1 .. MaxIterations : H[n] = H[n - 1] \div 2
  BY <1>1, HalvingsDefined
<1> HIDE DEF H
<1>4. H[iteration] \in Nat /\ H[iteration + 1] = H[iteration] \div 2
  <2>1. H[iteration + 1] = H[(iteration + 1) - 1] \div 2
    BY <1>2, <1>3
  <2> QED
    BY <1>1, <1>2, <1>3, <2>1
<1>5. /\ Halvings(file.size)[iteration] \in Nat
      /\ Halvings(file.size)[iteration + 1] = Halvings(file.size)[iteration] \div 2
  BY <1>4 DEF H
<1> DEFINE h == Halvings(file.size)[iteration]
           w == right - left
<1>6. h \in Nat /\ w \in Int /\ w <= h /\ 2 * d <= w
  BY <1>1, <1>5
<1> HIDE DEF h, w
<1>7. d <= h \div 2
  BY <1>6, HalfOf
<1> QED
  BY <1>5, <1>7 DEF h

(* While a group contains the frame the interval is not empty, the limit   *)
(* on the probes is not reached, and the probe finds a group that shrinks  *)
(* the interval: the search is not given up.                               *)
LEMMA GiveUpMeansNoGroup ==
    ASSUME ProbesSuffice, SearchInv, NeverDiscardsTarget, IntervalInv, GiveUp,
           Seekable(file, options), NEW o \in DOMAIN file.groups,
           GroupContainsFrame(file, o, target)
    PROVE  FALSE
<1>1. /\ IsView(file) /\ file \in Files /\ TypeOK /\ pc = "binary"
      /\ left \in Nat /\ right \in Nat
      /\ iteration \in 0 .. MaxIterations /\ MaxIterations \in Nat
      /\ options.probe \in Nat
  BY ViewsAreGiven, LocatorAssumption DEF SearchInv, TypeOK, GiveUp
<1>2. /\ left <= o /\ o <= right
      /\ 40 <= left
      /\ right + 1 \in DOMAIN file.groups \cup {file.size}
      /\ right - left <= Halvings(file.size)[iteration]
  BY <1>1 DEF NeverDiscardsTarget, IntervalInv
<1>3. /\ o \in Nat /\ file.size \in Nat /\ file.groups[o].next \in Nat
      /\ file.groups[o].next <= file.size
  BY <1>1, GroupFacts
<1>4. /\ file.groups[o].next > o + 1
      /\ file.groups[o].next <= right + 1
  <2>1. file.groups[o].next <= right + 1
    <3>1. o < right + 1
      BY <1>1, <1>2, <1>3
    <3>2. CASE right + 1 \in DOMAIN file.groups
      BY <1>1, <3>1, <3>2, SeekableGroups
    <3>3. CASE right + 1 = file.size
      BY <1>3, <3>3
    <3> QED
      BY <1>2, <3>2, <3>3
  <2>2. file.groups[o].next > o + 1
    <3>1. /\ Len(file.groups[o].blocks) \in Nat
          /\ 1 \in 1 .. Len(file.groups[o].blocks)
      <4>1. /\ Len(file.groups[o].blocks) \in Nat
            /\ Len(file.groups[o].blocks) \in 1 .. MaxBlockCount
        BY <1>1, GroupFacts DEF IsView, IsGroup
      <4> QED
        BY <4>1, LocatorAssumption
    <3> DEFINE b == file.groups[o].blocks[1]
    <3>2. /\ b.at \in Nat /\ b.size \in Nat
          /\ o + 48 <= b.at /\ b.at + 20 + b.size <= file.groups[o].next
      BY <1>1, <3>1, GroupFacts
    <3> HIDE DEF b
    <3> QED
      BY <1>3, <3>2
  <2> QED
    BY <2>1, <2>2
<1>5. left < right /\ right < file.size
  <2>1. right + 1 <= file.size
    <3>1. CASE right + 1 \in DOMAIN file.groups
      BY <1>1, <1>3, <3>1, SeekableGroups
    <3> QED
      BY <1>2, <1>3, <3>1
  <2> QED
    BY <1>1, <1>2, <1>3, <1>4, <2>1
<1>6. iteration < MaxIterations
  <2>1. SUFFICES ASSUME iteration = MaxIterations PROVE FALSE
    BY <1>1
  <2>2. Halvings(file.size)[iteration] = 0
    BY <1>1, <2>1 DEF ProbesSuffice
  <2> QED
    BY <1>1, <1>2, <1>5, <2>2
<1>7. Probing
  BY <1>1, <1>5, <1>6 DEF Probing
<1>8. Middle \in Nat /\ left <= Middle /\ Middle < right
  BY <1>1, <1>5, MiddleOfInterval DEF Middle
<1>9. PICK g \in DOMAIN file.groups : g <= Middle /\ Middle < file.groups[g].next
  <2>1. 40 <= Middle /\ Middle < file.size
    BY <1>1, <1>2, <1>3, <1>5, <1>8
  <2> HIDE DEF Middle
  <2> QED
    BY <1>1, <1>8, <2>1, GroupAround
<1>10. g \in Probed
  <2> HIDE DEF Middle
  <2> QED
    BY <1>1, <1>8, <1>9, ProbeFindsGroup DEF Probed
<1>11. Stuck(g)
  BY <1>7, <1>10 DEF GiveUp
<1>12. g \in Nat /\ file.groups[g].next \in Nat
  BY <1>1, <1>9, SeekableGroups
<1> HIDE DEF Middle
<1> QED
  BY <1>1, <1>8, <1>9, <1>11, <1>12 DEF Stuck

LEMMA IntervalInvNext ==
    ProbesSuffice => (SearchInv /\ NeverDiscardsTarget /\ IntervalInv /\ [Next]_vars => IntervalInv')
<1> SUFFICES ASSUME ProbesSuffice, SearchInv, NeverDiscardsTarget, IntervalInv, [Next]_vars,
                    Seekable(file', options')
             PROVE  /\ pc' = "binary" =>
                         /\ 40 <= left'
                         /\ right' + 1 \in DOMAIN file'.groups \cup {file'.size}
                         /\ right' - left' <= Halvings(file'.size)[iteration']
                    /\ pc' = "linear" =>
                         \A o \in DOMAIN file'.groups : ~ GroupContainsFrame(file', o, target')
  BY DEF IntervalInv
<1>1. file' = file /\ options' = options
  BY DEF Next, Step, Call, CallRejected, ProbeHit, ProbeRight, ProbeLeft, GiveUp,
         LinearHit, LinearStep, LinearMiss, vars
<1>2. /\ IsView(file) /\ file \in Files /\ TypeOK /\ file.size \in Nat
      /\ left \in Nat /\ right \in Nat /\ iteration \in Nat
      /\ Seekable(file, options)
  BY <1>1, ViewsAreGiven, LocatorAssumption DEF SearchInv, TypeOK, IsView
<1>3. pc = "binary" =>
         /\ 40 <= left
         /\ right + 1 \in DOMAIN file.groups \cup {file.size}
         /\ right - left <= Halvings(file.size)[iteration]
  BY <1>2 DEF IntervalInv
<1>4. ASSUME NEW t \in Targets, Call(t)
      PROVE  /\ pc' = "binary" /\ left' = 40 /\ right' + 1 = file.size
             /\ right' - left' <= Halvings(file.size)[iteration']
  <2>1. /\ pc' = "binary" /\ left' = 40 /\ right' = file.size - 1 /\ iteration' = 0
    BY <1>4 DEF Call
  <2>2. Halvings(file.size)[0] = file.size
    BY <1>2, HalvingsDefined
  <2>3. right' + 1 = file.size /\ right' - left' <= file.size
    BY <1>2, <2>1
  <2> QED
    BY <2>1, <2>2, <2>3
<1>5. ASSUME NEW t \in Targets, CallRejected(t) PROVE pc' = "done"
  BY <1>5 DEF CallRejected
<1>6. CASE ProbeRight
  <2>1. Probing /\ right' = right /\ iteration' = iteration + 1 /\ pc' = "binary"
        /\ pc = "binary"
    BY <1>6 DEF ProbeRight, Probing
  <2>2. PICK q \in Probed : left' = file.groups[q].next
    BY <1>6 DEF ProbeRight
  <2>3. /\ q \in DOMAIN file.groups /\ q \in Nat
        /\ Middle \in Nat /\ Middle < file.groups[q].next /\ left <= Middle
        /\ file.groups[q].next \in Nat
    BY <1>2, <2>1, ProbedGroup
  <2>4. 2 * (right - Middle - 1) <= right - left
    BY <1>2, <2>1, MiddleOfInterval DEF Probing, Middle
  <2> HIDE DEF Middle
  <2>5. 2 * (right' - left') <= right - left /\ right' - left' \in Int /\ 40 <= left'
    BY <1>2, <1>3, <2>1, <2>2, <2>3, <2>4
  <2>6. right' - left' <= Halvings(file.size)[iteration']
    <3> DEFINE d == right' - left'
    <3>1. d \in Int /\ 2 * d <= right - left
      BY <2>5
    <3> HIDE DEF d
    <3>2. d <= Halvings(file.size)[iteration + 1]
      BY <1>3, <2>1, <3>1, ProbeHalves
    <3> QED
      BY <2>1, <3>2 DEF d
  <2> QED
    BY <1>1, <1>3, <2>1, <2>5, <2>6
<1>7. CASE ProbeLeft
  <2>1. Probing /\ left' = left /\ iteration' = iteration + 1 /\ pc' = "binary"
        /\ pc = "binary"
    BY <1>7 DEF ProbeLeft, Probing
  <2>2. PICK q \in Probed : right' = q - 1
    BY <1>7 DEF ProbeLeft
  <2>3. /\ q \in DOMAIN file.groups /\ q \in Nat
        /\ Middle \in Nat /\ q <= Middle
    BY <1>2, <2>1, ProbedGroup
  <2>4. 2 * (Middle - left) <= right - left
    BY <1>2, <2>1, MiddleOfInterval DEF Probing, Middle
  <2> HIDE DEF Middle
  <2>5. /\ 2 * (right' - left') <= right - left /\ right' - left' \in Int /\ 40 <= left'
        /\ right' + 1 = q
    BY <1>2, <1>3, <2>1, <2>2, <2>3, <2>4
  <2>6. right' - left' <= Halvings(file.size)[iteration']
    <3> DEFINE d == right' - left'
    <3>1. d \in Int /\ 2 * d <= right - left
      BY <2>5
    <3> HIDE DEF d
    <3>2. d <= Halvings(file.size)[iteration + 1]
      BY <1>3, <2>1, <3>1, ProbeHalves
    <3> QED
      BY <2>1, <3>2 DEF d
  <2> QED
    BY <1>1, <2>1, <2>3, <2>5, <2>6
<1>8. CASE GiveUp
  <2>1. pc' = "linear" /\ target' = target
    BY <1>8 DEF GiveUp
  <2>2. \A o \in DOMAIN file.groups : ~ GroupContainsFrame(file, o, target)
    BY <1>2, <1>8, GiveUpMeansNoGroup
  <2> QED
    BY <1>1, <2>1, <2>2
<1>9. CASE LinearStep
  <2>1. pc = "linear" /\ pc' = "linear" /\ target' = target
    BY <1>9 DEF LinearStep, Scanning
  <2>2. \A o \in DOMAIN file.groups : ~ GroupContainsFrame(file, o, target)
    BY <1>2, <2>1 DEF IntervalInv
  <2> QED
    BY <1>1, <2>1, <2>2
<1>10. CASE ProbeHit \/ LinearHit \/ LinearMiss
  BY <1>10 DEF ProbeHit, LinearHit, LinearMiss, Found
<1>11. CASE UNCHANGED vars
  BY <1>1, <1>2, <1>11 DEF vars, IntervalInv
<1> QED
  BY <1>1, <1>4, <1>5, <1>6, <1>7, <1>8, <1>9, <1>10, <1>11 DEF Next, Step

(* In a recording it is made for, the binary search alone decides: the     *)
(* linear scan runs only for frames no block of the recording holds.  The  *)
(* hypothesis is that no file is too large for the number of probes; the   *)
(* windows and the sizes of the groups are those of Seekable.              *)
THEOREM OnlyAbsentFramesAreScannedFor ==
    ASSUME ProbesSuffice
    PROVE  Spec => []FallbackOnlyWhenAbsent
<1>1. Init => IntervalInv
  BY DEF Init, IntervalInv
<1>2. SearchInv /\ NeverDiscardsTarget /\ IntervalInv /\ [Next]_vars => IntervalInv'
  BY IntervalInvNext
<1>3. SearchInv /\ IntervalInv => FallbackOnlyWhenAbsent
  <2> SUFFICES ASSUME SearchInv, IntervalInv, Seekable(file, options), pc = "linear",
                      NEW b \in VideoFrames(file)
               PROVE  b.frame # target
    BY DEF FallbackOnlyWhenAbsent
  <2>1. IsView(file) /\ BlocksFit(file)
    BY ViewsAreGiven DEF SearchInv, Seekable, Regular
  <2> DEFINE Held(o, i) == [frame |-> file.groups[o].frame + Rank(file, o, i),
                           at |-> file.groups[o].blocks[i].at]
  <2>2. PICK o \in VideoGroups(file) : \E i \in VideoBlocks(file, o) : b = Held(o, i)
    BY DEF VideoFrames
  <2>3. PICK i \in VideoBlocks(file, o) : b = Held(o, i)
    BY <2>2
  <2>4. GroupContainsFrame(file, o, b.frame) /\ o \in DOMAIN file.groups
    <3>1. b.frame = file.groups[o].frame + Rank(file, o, i)
      BY <2>3
    <3> QED
      BY <2>1, <3>1, BlockIsContained DEF VideoGroups
  <2> QED
    BY <2>4 DEF IntervalInv
<1> QED
  BY <1>1, <1>2, <1>3, SearchInvariant, TargetIsNeverDiscarded, PTL DEF Spec

=============================================================================
