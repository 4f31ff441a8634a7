-------------------------- MODULE FrameIndexProofs --------------------------
(***************************************************************************)
(* The search of module FrameLocator implements the abstract FrameIndex:   *)
(* for recordings every group of which can be reached, and in which at     *)
(* most two groups, adjoining, hold the same frame (Indexed), every step   *)
(* of LocateFrame is a step of the index or none.  The argument: at most   *)
(* two groups contain a frame (TwoContainers), what CollectMatches makes   *)
(* of one or of both is what the index looks up (HitIsLookup), and a scan  *)
(* that ends without a group leaves none that contains the frame           *)
(* (MissIsLookup).  That an answer comes at all is fairness, and TLC's.    *)
(***************************************************************************)
EXTENDS FrameLocatorProofs, FrameLocatorRefinement

USE DEF kFileHeaderSize, kGroupHeaderSize, kBlockHeaderSize, kFirstGroupOffset, NoGroup

-----------------------------------------------------------------------------
(* One place in file order. *)
LEMMA OnePlaceInOrder ==
    ASSUME NEW a \in Nat
    PROVE  Index!InFileOrder({a}) = <<a>>
<1> DEFINE Sorted(s) == /\ s \in [1 .. 1 -> {a}]
                       /\ \A i, j \in 1 .. 1 : i < j => s[i] < s[j]
<1>1. Cardinality({a}) = 1
  BY FS_Singleton
<1>2. Index!InFileOrder({a}) = CHOOSE s \in [1 .. 1 -> {a}] :
                                 \A i, j \in 1 .. 1 : i < j => s[i] < s[j]
  <2>1. Index!Cardinality({a}) = Cardinality({a})
    BY DEF Index!Cardinality, Cardinality
  <2> QED
    BY <1>1, <2>1 DEF Index!InFileOrder
<1> DEFINE s == CHOOSE s \in [1 .. 1 -> {a}] :
                   \A i, j \in 1 .. 1 : i < j => s[i] < s[j]
<1>3. Sorted([i \in 1 .. 1 |-> a])
  OBVIOUS
<1>4. Sorted(s)
  BY <1>3
<1> HIDE DEF s
<1>5. s = <<a>>
  BY <1>4
<1> QED
  BY <1>2, <1>5 DEF s

(* Two places in file order. *)
LEMMA TwoPlacesInOrder ==
    ASSUME NEW a \in Nat, NEW b \in Nat, a < b
    PROVE  Index!InFileOrder({a, b}) = <<a, b>>
<1> DEFINE Sorted(s) == /\ s \in [1 .. 2 -> {a, b}]
                       /\ \A i, j \in 1 .. 2 : i < j => s[i] < s[j]
<1>1. Cardinality({a, b}) = 2
  <2>1. b \notin {a} /\ IsFiniteSet({a}) /\ Cardinality({a}) = 1
    BY FS_Singleton
  <2>2. Cardinality({a} \cup {b}) = Cardinality({a}) + 1
    BY <2>1, FS_AddElement
  <2>3. {a} \cup {b} = {a, b}
    OBVIOUS
  <2> QED
    BY <2>1, <2>2, <2>3
<1>2. Index!InFileOrder({a, b}) = CHOOSE s \in [1 .. 2 -> {a, b}] :
                                    \A i, j \in 1 .. 2 : i < j => s[i] < s[j]
  <2>1. Index!Cardinality({a, b}) = Cardinality({a, b})
    BY DEF Index!Cardinality, Cardinality
  <2> QED
    BY <1>1, <2>1 DEF Index!InFileOrder
<1> DEFINE s == CHOOSE s \in [1 .. 2 -> {a, b}] :
                   \A i, j \in 1 .. 2 : i < j => s[i] < s[j]
<1>3. Sorted([i \in 1 .. 2 |-> IF i = 1 THEN a ELSE b])
  OBVIOUS
<1>4. Sorted(s)
  BY <1>3
<1> HIDE DEF s
<1>5. s = <<a, b>>
  <2>1. s[1] \in {a, b} /\ s[2] \in {a, b} /\ s[1] < s[2]
    BY <1>4
  <2>2. s[1] = a /\ s[2] = b
    BY <2>1
  <2> QED
    BY <1>4, <2>2
<1> QED
  BY <1>2, <1>5 DEF s

(* The greatest of some places. *)
LEMMA GreatestPlace ==
    ASSUME NEW S \in SUBSET Nat, NEW m \in S, \A n \in S : n <= m
    PROVE  Index!Max(S) = m
<1>1. Index!Max(S) = CHOOSE x \in S : \A y \in S : x >= y
  BY DEF Index!Max
<1> DEFINE x == CHOOSE x \in S : \A y \in S : x >= y
<1>2. x \in S /\ \A y \in S : x >= y
  OBVIOUS
<1> HIDE DEF x
<1>3. x = m
  BY <1>2
<1> QED
  BY <1>1, <1>3 DEF x

-----------------------------------------------------------------------------
(* The blocks of a recording. *)

(* The block of the index at a position of a group. *)
BlockOf(f, o, i) ==
    [frame |-> f.groups[o].frame + Rank(f, o, i), at |-> f.groups[o].blocks[i].at]

(* The video blocks before a later one are more. *)
LEMMA RanksIncrease ==
    ASSUME NEW f, IsView(f), NEW o \in DOMAIN f.groups,
           NEW i \in VideoBlocks(f, o), NEW j \in VideoBlocks(f, o), i < j
    PROVE  Rank(f, o, i) < Rank(f, o, j)
<1> DEFINE V == VideoBlocks(f, o)
           B == {x \in V : x < i}
           C == {x \in V : x < j}
<1>1. V \subseteq Nat /\ IsFiniteSet(V)
  <2>1. V \in SUBSET (1 .. Len(f.groups[o].blocks)) /\ Len(f.groups[o].blocks) \in Nat
    BY VideoBlockCount, GroupFacts
  <2> HIDE DEF V
  <2> QED
    BY <2>1, CountedPositions
<1>2. B \subseteq C /\ i \in C /\ i \notin B /\ C \subseteq V
  <2>1. i \in V /\ i \in Nat /\ j \in Nat
    BY <1>1
  <2>2. \A x \in V : x \in Nat
    BY <1>1
  <2> HIDE DEF V
  <2>3. \A x \in B : x \in V /\ x \in Nat /\ x < i
    BY <2>2
  <2>4. \A x \in B : x < j
    BY <2>1, <2>3
  <2>5. i \in C /\ i \notin B /\ C \subseteq V
    BY <2>1
  <2> QED
    BY <2>3, <2>4, <2>5
<1>3. IsFiniteSet(C)
  <2> HIDE DEF C
  <2> QED
    BY <1>1, <1>2, FS_Subset
<1>4. IsFiniteSet(B) /\ Cardinality(B) <= Cardinality(C)
      /\ (Cardinality(B) = Cardinality(C) => B = C)
  <2> HIDE DEF B, C
  <2> QED
    BY <1>2, <1>3, FS_Subset
<1>5. Cardinality(B) \in Nat /\ Cardinality(C) \in Nat
  <2> HIDE DEF B, C
  <2> QED
    BY <1>3, <1>4, FS_CardinalityType
<1>6. B # C
  <2> HIDE DEF B, C
  <2> QED
    BY <1>2
<1>7. Cardinality(B) < Cardinality(C)
  <2> HIDE DEF B, C
  <2> QED
    BY <1>4, <1>5, <1>6
<1> QED
  BY <1>7 DEF Rank

(* A block of the index is a block of a video group that contains its      *)
(* frame.                                                                  *)
LEMMA BlockOfGroup ==
    ASSUME NEW f, IsView(f), BlocksFit(f), NEW o \in VideoGroups(f), NEW i \in VideoBlocks(f, o)
    PROVE  /\ BlockOf(f, o, i) \in VideoFrames(f)
           /\ BlockOf(f, o, i) \in [frame : Nat, at : Nat]
           /\ GroupContainsFrame(f, o, BlockOf(f, o, i).frame)
           /\ BlockOf(f, o, i).frame = f.groups[o].frame + Rank(f, o, i)
           /\ BlockOf(f, o, i).at = f.groups[o].blocks[i].at
           /\ o <= BlockOf(f, o, i).at
           /\ BlockOf(f, o, i).at < f.groups[o].next
<1>1. BlockOf(f, o, i) \in VideoFrames(f)
  BY DEF VideoFrames, BlockOf
<1>2. /\ BlockOf(f, o, i).frame = f.groups[o].frame + Rank(f, o, i)
      /\ BlockOf(f, o, i).at = f.groups[o].blocks[i].at
  BY DEF BlockOf
<1>3. /\ GroupContainsFrame(f, o, f.groups[o].frame + Rank(f, o, i))
      /\ f.groups[o].frame + Rank(f, o, i) \in Nat
  BY BlockIsContained
<1>4. o \in DOMAIN f.groups /\ i \in 1 .. Len(f.groups[o].blocks)
  BY DEF VideoGroups, VideoBlocks
<1> DEFINE at == f.groups[o].blocks[i].at
           size == f.groups[o].blocks[i].size
           next == f.groups[o].next
<1>5. /\ at \in Nat /\ size \in Nat /\ next \in Nat /\ o \in Nat
      /\ o + 48 <= at /\ at + 20 + size <= next
  BY <1>4, GroupFacts
<1>6. at \in Nat /\ o <= at /\ at < next
  <2> HIDE DEF at, size, next
  <2> QED
    BY <1>5
<1>7. BlockOf(f, o, i) \in [frame : Nat, at : Nat]
  BY <1>3, <1>6 DEF BlockOf
<1> QED
  BY <1>1, <1>2, <1>3, <1>6, <1>7

(* Every block of the index is the block of some group and position.       *)
LEMMA BlockOfIndex ==
    ASSUME NEW f, NEW b \in VideoFrames(f)
    PROVE  \E o \in VideoGroups(f) : \E i \in VideoBlocks(f, o) : b = BlockOf(f, o, i)
BY DEF VideoFrames, BlockOf

(* The blocks of a group stand in the order of their ranks. *)
LEMMA BlocksInOrder ==
    ASSUME NEW f, IsView(f), BlocksFit(f), NEW o \in VideoGroups(f),
           NEW i \in VideoBlocks(f, o), NEW j \in VideoBlocks(f, o),
           Rank(f, o, j) <= Rank(f, o, i)
    PROVE  BlockOf(f, o, j).at <= BlockOf(f, o, i).at
<1>1. o \in DOMAIN f.groups
  BY DEF VideoGroups
<1>2. /\ i \in 1 .. Len(f.groups[o].blocks) /\ j \in 1 .. Len(f.groups[o].blocks)
      /\ Len(f.groups[o].blocks) \in Nat
  BY <1>1, GroupFacts DEF VideoBlocks
<1>3. Rank(f, o, i) \in Nat /\ Rank(f, o, j) \in Nat
  BY <1>1, RankIsBelowCount
<1>4. ~ (i < j)
  BY <1>1, <1>3, RanksIncrease
<1> DEFINE bi == f.groups[o].blocks[i]
           bj == f.groups[o].blocks[j]
<1>5. bi.at \in Nat /\ bj.at \in Nat /\ bj.size \in Nat
  BY <1>1, <1>2, GroupFacts
<1>6. CASE i = j
  BY <1>5, <1>6 DEF BlockOf
<1>7. CASE j < i
  <2>1. i \in j + 1 .. Len(f.groups[o].blocks)
    BY <1>2, <1>7
  <2>2. bj.at + 20 + bj.size <= bi.at
    BY <1>1, <1>2, <2>1 DEF IsView, IsGroup
  <2>3. bj.at <= bi.at
    <3> HIDE DEF bi, bj
    <3> QED
      BY <1>5, <2>2
  <2> QED
    BY <2>3 DEF BlockOf
<1> QED
  BY <1>2, <1>4, <1>6, <1>7

-----------------------------------------------------------------------------
(* The groups that contain a frame. *)

(* Where every group can be reached, FindNextNonAudioGroup finds a video   *)
(* group if there is one further on.                                       *)
LEMMA FollowerIsReached ==
    ASSUME NEW f, IsView(f), Tiled(f), ReadablePrefix(f) = DOMAIN f.groups,
           NEW p \in VideoGroups(f), NEW o \in DOMAIN f.groups, o < p
    PROVE  f.groups[o].follower # NoGroup
<1> DEFINE Lost(x) == x < p /\ f.groups[x].follower = 0
           Gaps == {d \in Nat : \E x \in DOMAIN f.groups : Lost(x) /\ d = p - x}
<1>1. SUFFICES ASSUME Lost(o) PROVE FALSE
  OBVIOUS
<1>2. p \in DOMAIN f.groups /\ ~ f.groups[p].audio
  BY DEF VideoGroups
<1>3. \A x \in DOMAIN f.groups : x \in Nat
  BY GroupFacts
<1>4. Gaps # {}
  <2>1. p - o \in Nat
    BY <1>2, <1>3
  <2> QED
    BY <1>1, <2>1
<1>5. PICK d \in Gaps : \A e \in Gaps : d <= e
  <2> HIDE DEF Gaps
  <2>1. Gaps \in SUBSET Nat
    BY DEF Gaps
  <2> QED
    BY <1>4, <2>1, SmallestOf
<1>6. PICK x \in DOMAIN f.groups : Lost(x) /\ d = p - x
  OBVIOUS
<1> DEFINE next == f.groups[x].next
<1>7. next \in Nat /\ x < next /\ x \in Nat
  BY GroupFacts
<1>8. next <= p
  BY <1>2, <1>6 DEF Tiled
<1>9. next \in DOMAIN f.groups
  BY <1>2, <1>6 DEF ReadablePrefix
<1>10. f.groups[x].follower = IF next \notin DOMAIN f.groups THEN 0
                             ELSE IF f.groups[next].audio THEN f.groups[next].follower
                             ELSE next
  BY DEF IsView, IsFollower
<1>11. f.groups[next].audio /\ f.groups[next].follower = 0
  BY <1>6, <1>7, <1>9, <1>10
<1>12. next < p
  <2>1. next # p
    BY <1>2, <1>11
  <2> QED
    BY <1>2, <1>3, <1>7, <1>8, <2>1
<1>13. p - next \in Gaps
  <2>1. p - next \in Nat
    BY <1>2, <1>3, <1>7, <1>12
  <2> QED
    BY <1>9, <1>11, <1>12, <2>1
<1>14. p - next < d
  BY <1>2, <1>3, <1>6, <1>7
<1>15. d \in Nat /\ p - next \in Nat
  BY <1>13
<1> HIDE DEF Gaps, next
<1> QED
  BY <1>5, <1>13, <1>14, <1>15

(* FindNextNonAudioGroup only looks ahead. *)
LEMMA FollowerIsAhead ==
    ASSUME NEW f, IsView(f), NEW o \in DOMAIN f.groups, f.groups[o].follower # NoGroup
    PROVE  o < f.groups[o].follower
<1> DEFINE Behind(x) == f.groups[x].follower # 0 /\ ~ (x < f.groups[x].follower)
           Gaps == {d \in Nat : \E x \in DOMAIN f.groups : Behind(x) /\ d = f.size - x}
<1>1. SUFFICES ASSUME Behind(o) PROVE FALSE
  OBVIOUS
<1>2. \A x \in DOMAIN f.groups : x \in Nat /\ x < f.size
  <2> SUFFICES ASSUME NEW x \in DOMAIN f.groups PROVE x \in Nat /\ x < f.size
    OBVIOUS
  <2>1. /\ x \in Nat /\ f.size \in Nat /\ f.groups[x].next \in Nat
        /\ x < f.groups[x].next /\ f.groups[x].next <= f.size
    BY GroupFacts
  <2> QED
    BY <2>1
<1>3. f.size \in Nat
  BY DEF IsView
<1>4. Gaps # {}
  <2>1. f.size - o \in Nat
    BY <1>2, <1>3
  <2> QED
    BY <1>1, <2>1
<1>5. PICK d \in Gaps : \A e \in Gaps : d <= e
  <2> HIDE DEF Gaps
  <2>1. Gaps \in SUBSET Nat
    BY DEF Gaps
  <2> QED
    BY <1>4, <2>1, SmallestOf
<1>6. PICK x \in DOMAIN f.groups : Behind(x) /\ d = f.size - x
  OBVIOUS
<1> DEFINE next == f.groups[x].next
           q == f.groups[x].follower
<1>7. next \in Nat /\ x < next /\ x \in Nat
  BY GroupFacts
<1>8. f.groups[x].follower = IF next \notin DOMAIN f.groups THEN 0
                            ELSE IF f.groups[next].audio THEN f.groups[next].follower
                            ELSE next
  BY DEF IsView, IsFollower
<1>9. next \in DOMAIN f.groups /\ f.groups[next].follower = q /\ q # 0
  BY <1>6, <1>7, <1>8
<1>10. q \in DOMAIN f.groups /\ q \in Nat
  <2>1. q \in DOMAIN f.groups
    BY <1>9, GroupFacts
  <2> HIDE DEF q
  <2> QED
    BY <2>1, <1>2
<1>11. Behind(next)
  <2>1. ~ (x < q)
    BY <1>6
  <2>2. ~ (next < q)
    <3> HIDE DEF q, next
    <3> QED
      BY <1>7, <1>10, <2>1
  <2> QED
    BY <1>9, <2>2
<1>12. f.size - next \in Gaps
  <2>1. f.size - next \in Nat
    BY <1>2, <1>3, <1>9
  <2> QED
    BY <1>9, <1>11, <2>1
<1>13. f.size - next < d
  BY <1>3, <1>6, <1>7
<1>14. d \in Nat /\ f.size - next \in Nat
  BY <1>12
<1> HIDE DEF Gaps, next, q
<1> QED
  BY <1>5, <1>12, <1>13, <1>14

(* The next video group of an indexed recording: no video group stands     *)
(* between, and it starts with a later frame unless the two adjoin.        *)
LEMMA NextVideo ==
    ASSUME NEW f, NEW opt, IsView(f), Indexed(f, opt),
           NEW o \in VideoGroups(f), NEW p \in VideoGroups(f), o < p
    PROVE  /\ HasNextNonAudio(f, o)
           /\ f.groups[o].follower \in VideoGroups(f)
           /\ f.groups[o].follower <= p
           /\ NextNonAudioFrame(f, o) \in Nat
           /\ f.groups[o].frame <= NextNonAudioFrame(f, o)
           /\ NextNonAudioFrame(f, o) <= f.groups[p].frame
           /\ HasImmediateSharedFrame(f, o) <=> NextNonAudioFrame(f, o) = f.groups[o].frame
<1> DEFINE q == f.groups[o].follower
           next == f.groups[o].next
<1>1. Regular(f) /\ Tiled(f) /\ ReadablePrefix(f) = DOMAIN f.groups
  BY DEF Indexed, Regular
<1>2. /\ o \in DOMAIN f.groups /\ p \in DOMAIN f.groups
      /\ ~ f.groups[o].audio /\ ~ f.groups[p].audio
  BY DEF VideoGroups
<1>3. q # 0
  BY <1>1, <1>2, FollowerIsReached
<1>4. q \in VideoGroups(f) /\ q <= p
  BY <1>1, <1>2, <1>3, FollowerIsVideo, FollowerSkipsNoVideo
<1>5. /\ o \in Nat /\ p \in Nat /\ next \in Nat /\ o < next
      /\ f.groups[o].frame \in 0 .. MaxFrame /\ f.groups[p].frame \in 0 .. MaxFrame
  BY <1>2, GroupFacts
<1>6. q \in DOMAIN f.groups /\ ~ f.groups[q].audio
  BY <1>4 DEF VideoGroups
<1>7. q \in Nat /\ f.groups[q].frame \in 0 .. MaxFrame
  <2> HIDE DEF q
  <2> QED
    BY <1>6, GroupFacts
<1>8. next \in DOMAIN f.groups
  BY <1>1, <1>2 DEF ReadablePrefix
<1>9. q = IF f.groups[next].audio THEN f.groups[next].follower ELSE next
  BY <1>2, <1>8 DEF IsView, IsFollower
<1>10. o < q /\ o < next
  BY <1>2, <1>3, <1>5, FollowerIsAhead
<1>11. /\ NextNonAudioFrame(f, o) = f.groups[q].frame
       /\ HasNextNonAudio(f, o)
  BY <1>3 DEF NextNonAudioFrame, HasNextNonAudio
<1>12. f.groups[q].frame \in Nat /\ f.groups[o].frame \in Nat /\ f.groups[p].frame \in Nat
  <2> HIDE DEF q
  <2> QED
    BY <1>5, <1>7, LocatorAssumption
<1>13. f.groups[o].frame <= f.groups[q].frame
  BY <1>1, <1>4, <1>10, GroupsInOrder
<1>14. f.groups[q].frame <= f.groups[p].frame
  <2>1. CASE q = p
    BY <1>12, <2>1
  <2>2. CASE q < p
    BY <1>1, <1>4, <2>2, GroupsInOrder
  <2> HIDE DEF q
  <2> QED
    BY <1>4, <1>5, <1>7, <2>1, <2>2
<1>15. /\ next \in DOMAIN f.heads
       /\ f.heads[next].frame = f.groups[next].frame
       /\ f.heads[next].audio = f.groups[next].audio
  BY <1>8 DEF IsView, IsGroup
<1>16. HasImmediateSharedFrame(f, o) <=> f.groups[q].frame = f.groups[o].frame
  <2>1. ASSUME HasImmediateSharedFrame(f, o) PROVE f.groups[q].frame = f.groups[o].frame
    <3>1. ~ f.groups[next].audio /\ f.groups[next].frame = f.groups[o].frame
      BY <1>15, <2>1 DEF HasImmediateSharedFrame
    <3>2. q = next
      BY <1>9, <3>1
    <3> HIDE DEF q, next
    <3> QED
      BY <3>1, <3>2
  <2>2. ASSUME f.groups[q].frame = f.groups[o].frame PROVE HasImmediateSharedFrame(f, o)
    <3>1. next = q
      BY <1>4, <1>10, <2>2 DEF Indexed, PairsAdjoin
    <3> QED
      BY <1>2, <1>6, <1>15, <2>2, <3>1 DEF HasImmediateSharedFrame
  <2> QED
    BY <2>1, <2>2
<1> HIDE DEF q
<1> QED
  BY <1>4, <1>11, <1>12, <1>13, <1>14, <1>16 DEF q

(* Two groups that contain a frame both start with it and adjoin.          *)
LEMMA TwoContainers ==
    ASSUME NEW f, NEW opt, IsView(f), Indexed(f, opt), NEW t \in Nat,
           NEW o \in VideoGroups(f), GroupContainsFrame(f, o, t),
           NEW p \in VideoGroups(f), GroupContainsFrame(f, p, t), o < p
    PROVE  /\ f.groups[o].frame = t
           /\ f.groups[p].frame = t
           /\ f.groups[o].next = p
           /\ HasImmediateSharedFrame(f, o)
           /\ o % 4 = 0
           /\ p - o <= opt.back
<1> DEFINE late == NextNonAudioFrame(f, o)
           frame == f.groups[o].frame
<1>1. /\ HasNextNonAudio(f, o)
      /\ late \in Nat /\ frame <= late /\ late <= f.groups[p].frame
      /\ HasImmediateSharedFrame(f, o) <=> late = frame
  BY NextVideo
<1>2. o \in DOMAIN f.groups /\ p \in DOMAIN f.groups /\ ~ f.groups[o].audio
  BY DEF VideoGroups
<1>3. frame \in Nat /\ f.groups[p].frame \in Nat
  BY <1>2, GroupFacts, LocatorAssumption
<1>4. frame <= t /\ f.groups[p].frame <= t
  BY DEF GroupContainsFrame
<1>5. late = frame
  <2>1. SUFFICES ASSUME late > frame PROVE FALSE
    BY <1>1, <1>3
  <2>2. ComputeGroupFrameSpan(f, o) = late - frame
    BY <1>1, <1>2, <2>1 DEF ComputeGroupFrameSpan
  <2>3. FrameEnd(f, o) = late
    <3>1. FrameEnd(f, o) = frame + ComputeGroupFrameSpan(f, o)
      BY <1>2, FrameEndNeverSaturates
    <3> HIDE DEF late, frame
    <3> QED
      BY <1>1, <1>3, <2>2, <3>1
  <2>4. ~ HasImmediateSharedFrame(f, o)
    BY <1>1, <1>3, <2>1
  <2>5. t < late
    BY <2>3, <2>4 DEF GroupContainsFrame
  <2> HIDE DEF late
  <2> QED
    BY <1>1, <1>3, <1>4, <2>5
<1>6. HasImmediateSharedFrame(f, o)
  BY <1>1, <1>5
<1>7. frame = t
  BY <1>6 DEF GroupContainsFrame
<1>8. f.groups[p].frame = t
  <2>1. late <= f.groups[p].frame /\ late = t
    BY <1>1, <1>5, <1>7
  <2> HIDE DEF late
  <2> QED
    BY <1>3, <1>4, <2>1
<1>9. f.groups[o].next = p /\ o % 4 = 0 /\ p - o <= opt.back
  BY <1>7, <1>8 DEF Indexed, PairsAdjoin
<1> QED
  BY <1>6, <1>7, <1>8, <1>9

-----------------------------------------------------------------------------
(* What CollectMatches returns. *)

(* A group that contains a frame has a block for it. *)
LEMMA ContainerIsVideo ==
    ASSUME NEW f, BlocksFit(f), NEW t, NEW o \in DOMAIN f.groups, GroupContainsFrame(f, o, t)
    PROVE  o \in VideoGroups(f) /\ VideoBlocks(f, o) # {}
BY DEF GroupContainsFrame, VideoGroups, BlocksFit

(* Two groups that contain the frame give two matches. *)
LEMMA BothAppend ==
    ASSUME NEW f, IsView(f), NEW t \in 0 .. UIntMax,
           NEW p \in DOMAIN f.groups, GroupContainsFrame(f, p, t), VideoBlocks(f, p) # {},
           NEW q \in DOMAIN f.groups, GroupContainsFrame(f, q, t), VideoBlocks(f, q) # {}
    PROVE  \E m1, m2 \in Matches :
              /\ AppendFrameMatchFromGroup(f, q, t, TRUE,
                   AppendFrameMatchFromGroup(f, p, t, FALSE, << >>)) = <<m1, m2>>
              /\ IsResult(f, p, t, FALSE, m1)
              /\ IsResult(f, q, t, TRUE, m2)
<1>1. PICK m1 \in Matches : /\ AppendFrameMatchFromGroup(f, p, t, FALSE, << >>) = <<m1>>
                           /\ IsResult(f, p, t, FALSE, m1)
  BY FirstAppend DEF NoResult
<1>2. <<m1>> \in Seq(Matches) /\ Len(<<m1>>) < 2
  BY SequenceOfOne
<1>3. PICK m2 \in Matches :
         /\ IsResult(f, q, t, TRUE, m2)
         /\ AppendFrameMatchFromGroup(f, q, t, TRUE, <<m1>>) = Append(<<m1>>, m2)
  BY <1>2, AppendedResult
<1>4. Append(<<m1>>, m2) = <<m1, m2>>
  BY SequenceOfTwo
<1> QED
  BY <1>1, <1>3, <1>4

(* The backward scan finds the group that ends where another starts, and   *)
(* no other.                                                               *)
LEMMA PreviousIsFound ==
    ASSUME NEW f, NEW opt, opt.back \in Nat, IsView(f), Tiled(f),
           NEW p \in DOMAIN f.groups, NEW o \in DOMAIN f.groups,
           f.groups[p].next = o, p % 4 = 0, o - p <= opt.back
    PROVE  FindPreviousGroupEndingAt(f, o, opt.back) = {p}
<1> DEFINE lower == ClampWindowLower(o, opt.back)
           C == {c \in ScannedStartCodes(f, o - 4, lower) :
                   /\ o > 40
                   /\ c \in DOMAIN f.groups
                   /\ f.groups[c].next = o}
<1>1. p \in Nat /\ o \in Nat /\ p >= 40 /\ p \in f.codes
  BY GroupFacts DEF Tiled, IsView
<1>2. p + 68 <= o
  <2>1. /\ Len(f.groups[p].blocks) \in Nat
        /\ 1 \in 1 .. Len(f.groups[p].blocks)
    <3>1. Len(f.groups[p].blocks) \in Nat /\ Len(f.groups[p].blocks) \in 1 .. MaxBlockCount
      BY GroupFacts DEF IsView, IsGroup
    <3> QED
      BY <3>1, LocatorAssumption
  <2> DEFINE b == f.groups[p].blocks[1]
  <2>2. /\ b.at \in Nat /\ b.size \in Nat
        /\ p + 48 <= b.at /\ b.at + 20 + b.size <= o
    BY <2>1, GroupFacts
  <2> HIDE DEF b
  <2> QED
    BY <1>1, <2>2
<1>3. lower \in Int /\ lower <= p
  BY <1>1 DEF ClampWindowLower
<1> HIDE DEF lower
<1>4. p \in ScannedStartCodes(f, o - 4, lower)
  BY <1>1, <1>2, <1>3 DEF ScannedStartCodes
<1>5. p \in C
  BY <1>1, <1>2, <1>4
<1>6. ASSUME NEW c \in C PROVE c = p
  <2>1. c \in DOMAIN f.groups /\ f.groups[c].next = o /\ c \in Nat /\ c < o
    BY GroupFacts
  <2>2. CASE c < p
    <3>1. o <= p
      BY <2>1, <2>2 DEF Tiled
    <3> QED
      BY <1>1, <1>2, <3>1
  <2>3. CASE p < c
    <3>1. o <= c
      BY <2>1, <2>3 DEF Tiled
    <3> QED
      BY <1>1, <2>1, <3>1
  <2> QED
    BY <1>1, <2>1, <2>2, <2>3
<1>7. FindPreviousGroupEndingAt(f, o, opt.back) = LastOf(C)
  BY DEF FindPreviousGroupEndingAt, lower
<1>8. C = {p}
  BY <1>5, <1>6
<1> HIDE DEF C
<1>9. LastOf({p}) = {p}
  BY <1>1 DEF LastOf
<1> QED
  BY <1>7, <1>8, <1>9

(* The only group that contains the frame gives the only match. *)
LEMMA LoneMatch ==
    ASSUME NEW f, IsView(f), Regular(f), NEW opt, NEW t \in 0 .. UIntMax,
           NEW o \in DOMAIN f.groups, GroupContainsFrame(f, o, t),
           \A p \in VideoGroups(f) : GroupContainsFrame(f, p, t) => p = o
    PROVE  \E m \in Matches, c \in BOOLEAN :
              CollectMatches(f, o, t, opt) = <<m>> /\ IsResult(f, o, t, c, m)
<1> DEFINE ms == CollectMatches(f, o, t, opt)
<1>1. BlocksFit(f)
  BY DEF Regular
<1>2. VideoBlocks(f, o) # {}
  BY <1>1, ContainerIsVideo
<1>3. IsAnswer(f, t, ms) /\ ms # << >>
  BY <1>2, CollectedMatches
<1>4. \A p \in DOMAIN f.groups, c \in BOOLEAN, m \in Matches :
         IsResult(f, p, t, c, m) => p = o
  <2> SUFFICES ASSUME NEW p \in DOMAIN f.groups, NEW c \in BOOLEAN, NEW m \in Matches,
                      IsResult(f, p, t, c, m)
               PROVE  p = o
    OBVIOUS
  <2>1. GroupContainsFrame(f, p, t)
    BY DEF IsResult
  <2> QED
    BY <1>1, <2>1, ContainerIsVideo
<1> HIDE DEF ms
<1>5. ~ \E m1, m2 \in Matches, p, q \in DOMAIN f.groups :
           /\ ms = <<m1, m2>>
           /\ IsResult(f, p, t, FALSE, m1)
           /\ IsResult(f, q, t, TRUE, m2)
           /\ f.groups[p].next = q
           /\ f.groups[p].frame = t
           /\ f.groups[q].frame = t
  <2> SUFFICES ASSUME NEW m1 \in Matches, NEW m2 \in Matches,
                      NEW p \in DOMAIN f.groups, NEW q \in DOMAIN f.groups,
                      IsResult(f, p, t, FALSE, m1), IsResult(f, q, t, TRUE, m2),
                      f.groups[p].next = q
               PROVE  FALSE
    OBVIOUS
  <2>1. p = o /\ q = o
    BY <1>4
  <2>2. f.groups[o].next > o /\ o \in Nat
    BY GroupFacts
  <2> QED
    BY <2>1, <2>2
<1>6. PICK m \in Matches, p \in DOMAIN f.groups, c \in BOOLEAN :
         ms = <<m>> /\ IsResult(f, p, t, c, m)
  BY <1>3, <1>5 DEF IsAnswer
<1>7. p = o
  BY <1>4, <1>6
<1> QED
  BY <1>6, <1>7 DEF ms

(* Two groups that contain the frame are both found from either.           *)
LEMMA PairOfMatches ==
    ASSUME NEW f, NEW opt, opt.back \in Nat, IsView(f), Indexed(f, opt), NEW t \in 0 .. UIntMax,
           NEW p \in VideoGroups(f), GroupContainsFrame(f, p, t),
           NEW q \in VideoGroups(f), GroupContainsFrame(f, q, t), p < q,
           NEW o \in {p, q}
    PROVE  \E m1, m2 \in Matches :
              /\ CollectMatches(f, o, t, opt) = <<m1, m2>>
              /\ \E c \in BOOLEAN : IsResult(f, p, t, c, m1)
              /\ \E c \in BOOLEAN : IsResult(f, q, t, c, m2)
<1>1. Regular(f) /\ Tiled(f) /\ BlocksFit(f) /\ t \in Nat
  BY LocatorAssumption DEF Indexed, Regular
<1>2. /\ p \in DOMAIN f.groups /\ ~ f.groups[p].audio /\ p \in Nat
      /\ q \in DOMAIN f.groups /\ ~ f.groups[q].audio /\ q \in Nat
  BY GroupFacts DEF VideoGroups
<1>3. /\ f.groups[p].frame = t /\ f.groups[q].frame = t
      /\ f.groups[p].next = q /\ HasImmediateSharedFrame(f, p)
      /\ p % 4 = 0 /\ q - p <= opt.back
  BY <1>1, TwoContainers
<1>4. VideoBlocks(f, p) # {} /\ VideoBlocks(f, q) # {}
  BY <1>1, <1>2, ContainerIsVideo
<1> DEFINE sharing(x) == {y \in FindPreviousGroupEndingAt(f, x, opt.back) :
                            /\ ~ f.groups[y].audio
                            /\ f.groups[y].frame = t
                            /\ f.groups[x].frame = t}
           both == AppendFrameMatchFromGroup(f, q, t, TRUE,
                     AppendFrameMatchFromGroup(f, p, t, FALSE, << >>))
<1>5. ASSUME o = q PROVE CollectMatches(f, o, t, opt) = both
  <2>1. FindPreviousGroupEndingAt(f, q, opt.back) = {p}
    <3>1. f.groups[p].next = q /\ p % 4 = 0 /\ q - p <= opt.back
      BY <1>3
    <3>2. Tiled(f) /\ p \in DOMAIN f.groups /\ q \in DOMAIN f.groups
      BY <1>1, <1>2
    <3> HIDE DEF sharing, both
    <3> QED
      BY <3>1, <3>2, PreviousIsFound
  <2>2. sharing(q) = {p}
    BY <1>2, <1>3, <2>1
  <2>3. (CHOOSE x \in sharing(q) : TRUE) = p /\ sharing(q) # {}
    BY <2>2
  <2> QED
    BY <1>5, <2>3 DEF CollectMatches
<1>6. ASSUME o = p PROVE CollectMatches(f, o, t, opt) = both
  <2>1. ASSUME NEW x \in sharing(p) PROVE FALSE
    <3>1. x \in DOMAIN f.groups /\ f.groups[x].next = p /\ f.groups[x].frame = t
          /\ ~ f.groups[x].audio
      BY PreviousGroup
    <3>2. x \in VideoGroups(f) /\ x < p /\ x \in Nat
      BY <3>1, GroupFacts DEF VideoGroups
    <3>3. GroupContainsFrame(f, x, t)
      BY <3>1, FirstFrameIsContained
    <3>4. x < q
      BY <1>2, <3>2
    <3>5. f.groups[x].next = q
      BY <1>1, <3>2, <3>3, <3>4, TwoContainers
    <3> QED
      BY <1>2, <3>1, <3>5
  <2>2. sharing(p) = {}
    BY <2>1
  <2> QED
    BY <1>2, <1>3, <1>6, <2>2 DEF CollectMatches
<1>7. CollectMatches(f, o, t, opt) = both
  <2> HIDE DEF both
  <2> QED
    BY <1>5, <1>6
<1>8. PICK m1, m2 \in Matches : /\ both = <<m1, m2>>
                               /\ IsResult(f, p, t, FALSE, m1)
                               /\ IsResult(f, q, t, TRUE, m2)
  BY <1>2, <1>4, BothAppend
<1>9. \E c \in BOOLEAN : IsResult(f, p, t, c, m1)
  BY <1>8
<1>10. \E c \in BOOLEAN : IsResult(f, q, t, c, m2)
  BY <1>8
<1> HIDE DEF both
<1> QED
  BY <1>7, <1>8, <1>9, <1>10

-----------------------------------------------------------------------------
(* What the index answers. *)

(* A group is read up to its end if it does not share its frame with the   *)
(* next: it contains every frame before the one the next video group       *)
(* starts with.                                                            *)
LEMMA ContainsUpToNext ==
    ASSUME NEW f, IsView(f), NEW o \in VideoGroups(f), NEW t \in Nat,
           HasNextNonAudio(f, o), NextNonAudioFrame(f, o) \in Nat,
           f.groups[o].frame < NextNonAudioFrame(f, o),
           ~ HasImmediateSharedFrame(f, o)
    PROVE  GroupContainsFrame(f, o, t) <=>
              f.groups[o].frame <= t /\ t < NextNonAudioFrame(f, o)
<1> DEFINE late == NextNonAudioFrame(f, o)
           frame == f.groups[o].frame
<1>1. o \in DOMAIN f.groups /\ ~ f.groups[o].audio
  BY DEF VideoGroups
<1>2. frame \in Nat
  BY <1>1, GroupFacts, LocatorAssumption
<1>3. ComputeGroupFrameSpan(f, o) = late - frame
  BY <1>1 DEF ComputeGroupFrameSpan
<1>4. FrameEnd(f, o) = late
  <2>1. FrameEnd(f, o) = frame + ComputeGroupFrameSpan(f, o)
    BY <1>1, FrameEndNeverSaturates
  <2>2. late \in Nat
    OBVIOUS
  <2> HIDE DEF late, frame
  <2> QED
    BY <1>2, <1>3, <2>1, <2>2
<1> QED
  BY <1>1, <1>2, <1>4 DEF GroupContainsFrame

(* The only group that contains the frame holds the only block the index   *)
(* answers with: the one of the frame, or the last one before a frame the  *)
(* recording skips.                                                        *)
LEMMA LookupOfOne ==
    ASSUME NEW f, NEW opt, IsView(f), Indexed(f, opt), NEW t \in Nat,
           NEW o \in VideoGroups(f), GroupContainsFrame(f, o, t),
           \A p \in VideoGroups(f) : GroupContainsFrame(f, p, t) => p = o,
           NEW i \in VideoBlocks(f, o), Rank(f, o, i) = DesiredVideoIndex(f, o, t)
    PROVE  Index!Lookup(VideoFrames(f), t) = <<f.groups[o].blocks[i].at>>
<1> DEFINE b == BlockOf(f, o, i)
           held == f.groups[o].frame + DesiredVideoIndex(f, o, t)
           exact == {x \in VideoFrames(f) : x.frame = t}
           earlier == {x \in VideoFrames(f) : x.frame < t}
           later == {x \in VideoFrames(f) : x.frame > t}
<1>1. Regular(f) /\ Tiled(f) /\ BlocksFit(f)
  BY DEF Indexed, Regular
<1>2. o \in DOMAIN f.groups /\ ~ f.groups[o].audio /\ o \in Nat
  BY GroupFacts DEF VideoGroups
<1>3. /\ b \in VideoFrames(f) /\ b.frame \in Nat /\ b.at \in Nat
      /\ b.frame = held /\ b.at = f.groups[o].blocks[i].at /\ o <= b.at
  BY <1>1, BlockOfGroup
<1>4. /\ held \in Nat /\ f.groups[o].frame <= held /\ held <= t
      /\ ComputeGroupFrameSpan(f, o) = video_block_count(f, o) => held = t
  BY <1>1, <1>2, HeldFrame
<1>5. ASSUME NEW x \in VideoFrames(f)
      PROVE  /\ x.frame \in Nat /\ x.at \in Nat
             /\ ~ (held < x.frame /\ x.frame <= t)
             /\ \E p \in VideoGroups(f) : \E j \in VideoBlocks(f, p) : x = BlockOf(f, p, j)
  <2>1. PICK p \in VideoGroups(f) : \E j \in VideoBlocks(f, p) : x = BlockOf(f, p, j)
    BY BlockOfIndex
  <2>2. PICK j \in VideoBlocks(f, p) : x = BlockOf(f, p, j)
    BY <2>1
  <2>3. x.frame \in Nat /\ x.at \in Nat /\ x.frame = f.groups[p].frame + Rank(f, p, j)
    BY <1>1, <2>2, BlockOfGroup
  <2>4. ~ (held < x.frame /\ x.frame <= t)
    BY <1>1, <1>2, <2>3, NothingBetween
  <2> QED
    BY <2>2, <2>3, <2>4
<1>6. Index!Lookup(VideoFrames(f), t) =
         IF exact # {} THEN Index!InFileOrder(Index!Places(exact))
         ELSE IF earlier # {} /\ later # {} THEN <<Index!Max(Index!Places(earlier))>>
         ELSE << >>
  BY DEF Index!Lookup
<1>7. CASE held = t
  <2>1. ASSUME NEW x \in exact PROVE x = b
    <3>1. PICK p \in VideoGroups(f) : \E j \in VideoBlocks(f, p) : x = BlockOf(f, p, j)
      BY <1>5
    <3>2. PICK j \in VideoBlocks(f, p) : x = BlockOf(f, p, j)
      BY <3>1
    <3>3. GroupContainsFrame(f, p, t) /\ x.frame = f.groups[p].frame + Rank(f, p, j)
      BY <1>1, <3>2, BlockOfGroup
    <3>4. p = o
      BY <3>3
    <3>5. /\ Rank(f, o, j) \in Nat /\ Rank(f, o, i) \in Nat /\ f.groups[o].frame \in Nat
          /\ i \in Int /\ j \in Int
      <4>1. Rank(f, o, j) \in Nat /\ Rank(f, o, i) \in Nat
        BY <1>2, <3>2, <3>4, RankIsBelowCount
      <4>2. i \in 1 .. Len(f.groups[o].blocks) /\ j \in 1 .. Len(f.groups[o].blocks)
        BY <3>2, <3>4 DEF VideoBlocks
      <4> QED
        BY <1>2, <4>1, <4>2, GroupFacts, LocatorAssumption
    <3>6. Rank(f, o, j) = Rank(f, o, i)
      <4>1. f.groups[o].frame + Rank(f, o, j) = f.groups[o].frame + Rank(f, o, i)
        BY <1>7, <3>3, <3>4
      <4> QED
        BY <3>5, <4>1
    <3>7. j = i
      <4>1. ~ (i < j) /\ ~ (j < i)
        BY <1>2, <3>2, <3>4, <3>5, <3>6, RanksIncrease
      <4> QED
        BY <3>5, <4>1
    <3> QED
      BY <3>2, <3>4, <3>7
  <2>2. exact = {b}
    BY <1>3, <1>7, <2>1
  <2> HIDE DEF b, exact
  <2>3. Index!Places({b}) = {b.at}
    BY DEF Index!Places
  <2> QED
    BY <1>3, <1>6, <2>2, <2>3, OnePlaceInOrder
<1>8. CASE held # t
  <2>1. held < t
    BY <1>4, <1>8
  <2>2. exact = {}
    BY <1>5, <2>1
  <2>3. b \in earlier
    BY <1>3, <2>1
  <2> DEFINE q == f.groups[o].follower
             late == NextNonAudioFrame(f, o)
  <2>4. HasNextNonAudio(f, o) /\ late > f.groups[o].frame
        /\ ComputeGroupFrameSpan(f, o) = late - f.groups[o].frame
    BY <1>1, <1>2, <1>4, <1>8, ContainerIsVideo DEF ComputeGroupFrameSpan
  <2>5. /\ q \in VideoGroups(f) /\ q \in DOMAIN f.groups
        /\ late = f.groups[q].frame /\ late \in Nat
    <3>1. q # 0 /\ late = f.groups[q].frame
      BY <2>4 DEF HasNextNonAudio, NextNonAudioFrame
    <3>2. q \in VideoGroups(f) /\ q \in DOMAIN f.groups
      BY <1>2, <3>1, FollowerIsVideo DEF VideoGroups
    <3> HIDE DEF q
    <3>3. f.groups[q].frame \in Nat
      BY <3>2, GroupFacts, LocatorAssumption
    <3> QED
      BY <3>1, <3>2, <3>3
  <2>6. t < late
    <3>1. f.groups[o].frame \in Nat
      BY <1>2, GroupFacts, LocatorAssumption
    <3>2. ~ HasImmediateSharedFrame(f, o)
      BY <1>4, <2>1, <3>1 DEF GroupContainsFrame
    <3> QED
      BY <2>4, <2>5, <3>2, ContainsUpToNext
  <2>7. later # {}
    <3> HIDE DEF q
    <3>1. PICK j \in VideoBlocks(f, q) : TRUE
      BY <1>1, <2>5 DEF BlocksFit
    <3>2. /\ BlockOf(f, q, j) \in VideoFrames(f)
          /\ BlockOf(f, q, j).frame = f.groups[q].frame + Rank(f, q, j)
          /\ BlockOf(f, q, j).frame \in Nat
      BY <1>1, <2>5, BlockOfGroup
    <3>3. Rank(f, q, j) \in Nat
      BY <2>5, RankIsBelowCount
    <3>4. BlockOf(f, q, j).frame > t
      BY <2>5, <2>6, <3>2, <3>3
    <3> QED
      BY <3>2, <3>4
  <2>8. ASSUME NEW x \in earlier PROVE x.at <= b.at /\ x.at \in Nat
    <3>1. PICK p \in VideoGroups(f) : \E j \in VideoBlocks(f, p) : x = BlockOf(f, p, j)
      BY <1>5
    <3>2. PICK j \in VideoBlocks(f, p) : x = BlockOf(f, p, j)
      BY <3>1
    <3>3. /\ x.frame = f.groups[p].frame + Rank(f, p, j)
          /\ x.frame \in Nat /\ x.at \in Nat /\ x.at < f.groups[p].next
      BY <1>1, <3>2, BlockOfGroup
    <3>4. x.frame <= held
      BY <1>4, <1>5, <3>3
    <3>5. p \in DOMAIN f.groups /\ p \in Nat /\ f.groups[p].next \in Nat
          /\ f.groups[p].frame \in Nat /\ Rank(f, p, j) \in Nat
      <4>1. p \in DOMAIN f.groups
        BY DEF VideoGroups
      <4> QED
        BY <3>2, <4>1, GroupFacts, RankIsBelowCount, LocatorAssumption
    <3>6. CASE p = o
      <4>1. f.groups[o].frame + Rank(f, o, j) <= f.groups[o].frame + Rank(f, o, i)
        BY <3>3, <3>4, <3>6
      <4>2. Rank(f, o, i) \in Nat
        BY <1>2, RankIsBelowCount
      <4>3. Rank(f, o, j) <= Rank(f, o, i)
        BY <3>5, <3>6, <4>1, <4>2
      <4>4. BlockOf(f, o, j).at <= BlockOf(f, o, i).at
        BY <1>1, <3>2, <3>6, <4>3, BlocksInOrder
      <4> QED
        BY <3>2, <3>3, <3>6, <4>4
    <3>7. CASE p < o
      <4>1. f.groups[p].next <= o
        BY <1>1, <1>2, <3>5, <3>7 DEF Tiled
      <4> HIDE DEF b
      <4> QED
        BY <1>2, <1>3, <3>3, <3>5, <4>1
    <3>8. CASE o < p
      <4>1. late <= f.groups[p].frame
        BY <3>8, NextVideo
      <4> HIDE DEF late, held
      <4> QED
        BY <1>4, <2>1, <2>5, <2>6, <3>3, <3>4, <3>5, <4>1
    <3> QED
      BY <1>2, <3>5, <3>6, <3>7, <3>8
  <2> DEFINE P == Index!Places(earlier)
  <2>9. P = {x.at : x \in earlier}
    BY DEF Index!Places
  <2> HIDE DEF b, earlier, later, exact
  <2>10. P \in SUBSET Nat /\ b.at \in P /\ \A n \in P : n <= b.at
    BY <2>3, <2>8, <2>9
  <2> HIDE DEF P
  <2>11. Index!Max(P) = b.at
    BY <2>10, GreatestPlace
  <2>12. earlier # {}
    BY <2>3
  <2> QED
    BY <1>3, <1>6, <2>2, <2>7, <2>11, <2>12 DEF P
<1> QED
  BY <1>7, <1>8

(* The two groups that contain the frame hold the two blocks the index     *)
(* answers with.                                                           *)
LEMMA LookupOfTwo ==
    ASSUME NEW f, NEW opt, IsView(f), Indexed(f, opt), NEW t \in Nat,
           NEW p \in VideoGroups(f), GroupContainsFrame(f, p, t),
           NEW q \in VideoGroups(f), GroupContainsFrame(f, q, t), p < q,
           NEW i \in VideoBlocks(f, p), Rank(f, p, i) = DesiredVideoIndex(f, p, t),
           NEW j \in VideoBlocks(f, q), Rank(f, q, j) = DesiredVideoIndex(f, q, t)
    PROVE  Index!Lookup(VideoFrames(f), t)
              = <<f.groups[p].blocks[i].at, f.groups[q].blocks[j].at>>
<1> DEFINE exact == {x \in VideoFrames(f) : x.frame = t}
           b == BlockOf(f, p, i)
           c == BlockOf(f, q, j)
<1>1. BlocksFit(f)
  BY DEF Indexed, Regular
<1>2. /\ p \in DOMAIN f.groups /\ p \in Nat /\ q \in DOMAIN f.groups /\ q \in Nat
  BY GroupFacts DEF VideoGroups
<1>3. /\ f.groups[p].frame = t /\ f.groups[q].frame = t /\ f.groups[p].next = q
  BY TwoContainers
<1>4. ASSUME NEW r \in {p, q}, NEW k \in VideoBlocks(f, r),
             Rank(f, r, k) = DesiredVideoIndex(f, r, t)
      PROVE  Rank(f, r, k) = 0 /\ BlockOf(f, r, k).frame = t
  <2>1. /\ r \in VideoGroups(f) /\ r \in DOMAIN f.groups /\ f.groups[r].frame = t
    BY <1>2, <1>3
  <2>2. video_block_count(f, r) \in Nat
    BY <2>1, VideoBlockCount
  <2>3. DesiredVideoIndex(f, r, t) = 0
    BY <2>1, <2>2 DEF DesiredVideoIndex
  <2>4. BlockOf(f, r, k).frame = f.groups[r].frame + Rank(f, r, k)
    BY DEF BlockOf
  <2> QED
    BY <1>4, <2>1, <2>3, <2>4
<1>5. /\ b \in exact /\ c \in exact /\ b.at \in Nat /\ c.at \in Nat /\ b.at < c.at
      /\ b.at = f.groups[p].blocks[i].at /\ c.at = f.groups[q].blocks[j].at
  <2>1. /\ b \in VideoFrames(f) /\ b.at \in Nat /\ b.at < f.groups[p].next
        /\ b.at = f.groups[p].blocks[i].at
    BY <1>1, BlockOfGroup
  <2>2. /\ c \in VideoFrames(f) /\ c.at \in Nat /\ q <= c.at
        /\ c.at = f.groups[q].blocks[j].at
    BY <1>1, BlockOfGroup
  <2>3. b.frame = t /\ c.frame = t
    BY <1>4
  <2> HIDE DEF b, c
  <2> QED
    BY <1>2, <1>3, <2>1, <2>2, <2>3
<1>6. ASSUME NEW r \in {p, q}, NEW k \in VideoBlocks(f, r), Rank(f, r, k) = 0,
             NEW l \in VideoBlocks(f, r), Rank(f, r, l) = 0
      PROVE  k = l
  <2>1. r \in DOMAIN f.groups /\ Len(f.groups[r].blocks) \in Nat
    BY <1>2, GroupFacts
  <2>2. k \in Int /\ l \in Int
    BY <2>1 DEF VideoBlocks
  <2>3. ~ (k < l) /\ ~ (l < k)
    BY <1>6, <2>1, RanksIncrease
  <2> QED
    BY <2>2, <2>3
<1>7. ASSUME NEW x \in exact PROVE x \in {b, c}
  <2>1. PICK r \in VideoGroups(f) : \E k \in VideoBlocks(f, r) : x = BlockOf(f, r, k)
    BY BlockOfIndex
  <2>2. PICK k \in VideoBlocks(f, r) : x = BlockOf(f, r, k)
    BY <2>1
  <2>3. GroupContainsFrame(f, r, t) /\ t = f.groups[r].frame + Rank(f, r, k)
    BY <1>1, <2>2, BlockOfGroup
  <2>4. r \in DOMAIN f.groups /\ r \in Nat
    BY GroupFacts DEF VideoGroups
  <2>5. r \in {p, q}
    <3>1. CASE r < p
      <4>1. r < q
        BY <1>2, <2>4, <3>1
      <4>2. f.groups[r].next = p /\ f.groups[r].next = q
        BY <2>3, <3>1, <4>1, TwoContainers
      <4> QED
        BY <1>2, <4>2
    <3>2. CASE p < r
      <4>1. f.groups[p].next = r
        BY <2>3, <3>2, TwoContainers
      <4> QED
        BY <1>3, <4>1
    <3> QED
      BY <1>2, <2>4, <3>1, <3>2
  <2>6. Rank(f, r, k) = 0
    <3>1. f.groups[r].frame = t /\ Rank(f, r, k) \in Nat
      BY <1>3, <2>4, <2>5, RankIsBelowCount
    <3> QED
      BY <2>3, <3>1
  <2>7. CASE r = p
    <3>1. k = i
      BY <1>4, <1>6, <2>6, <2>7
    <3> QED
      BY <2>2, <2>7, <3>1
  <2>8. CASE r = q
    <3>1. k = j
      BY <1>4, <1>6, <2>6, <2>8
    <3> QED
      BY <2>2, <2>8, <3>1
  <2> QED
    BY <2>5, <2>7, <2>8
<1> HIDE DEF b, c
<1>8. exact = {b, c}
  BY <1>5, <1>7
<1>9. Index!Lookup(VideoFrames(f), t) = Index!InFileOrder(Index!Places(exact))
  BY <1>5 DEF Index!Lookup
<1>10. Index!Places({b, c}) = {b.at, c.at}
  BY DEF Index!Places
<1> HIDE DEF exact
<1> QED
  BY <1>5, <1>8, <1>9, <1>10, TwoPlacesInOrder

(* A frame that no group contains is outside the recording. *)
LEMMA LookupOfNone ==
    ASSUME NEW f, NEW opt, IsView(f), Indexed(f, opt), NEW t \in Nat,
           \A o \in VideoGroups(f) : ~ GroupContainsFrame(f, o, t)
    PROVE  Index!Lookup(VideoFrames(f), t) = << >>
<1> DEFINE exact == {x \in VideoFrames(f) : x.frame = t}
           earlier == {x \in VideoFrames(f) : x.frame < t}
           later == {x \in VideoFrames(f) : x.frame > t}
<1>1. Regular(f) /\ BlocksFit(f)
  BY DEF Indexed, Regular
<1>2. exact = {}
  <2> SUFFICES ASSUME NEW x \in VideoFrames(f), x.frame = t PROVE FALSE
    OBVIOUS
  <2>1. PICK o \in VideoGroups(f) : \E i \in VideoBlocks(f, o) : x = BlockOf(f, o, i)
    BY BlockOfIndex
  <2> QED
    BY <1>1, <2>1, BlockOfGroup
<1>3. ~ (earlier # {} /\ later # {})
  <2> SUFFICES ASSUME NEW a \in VideoFrames(f), a.frame < t,
                      NEW z \in VideoFrames(f), z.frame > t
               PROVE  FALSE
    OBVIOUS
  <2>1. \A o \in VideoGroups(f) : /\ o \in DOMAIN f.groups /\ o \in Nat
                                 /\ f.groups[o].frame \in Nat
                                 /\ f.size \in Nat /\ o <= f.size
    <3> SUFFICES ASSUME NEW o \in VideoGroups(f)
                 PROVE  /\ o \in DOMAIN f.groups /\ o \in Nat
                        /\ f.groups[o].frame \in Nat
                        /\ f.size \in Nat /\ o <= f.size
      OBVIOUS
    <3>1. o \in DOMAIN f.groups
      BY DEF VideoGroups
    <3>2. /\ o \in Nat /\ f.size \in Nat /\ f.groups[o].next \in Nat
          /\ o < f.groups[o].next /\ f.groups[o].next <= f.size
      BY <3>1, GroupFacts
    <3> QED
      BY <3>1, <3>2, GroupFacts, LocatorAssumption
  <2>2. ASSUME NEW x \in VideoFrames(f)
        PROVE  \E o \in VideoGroups(f) :
                  /\ x.frame \in Nat /\ f.groups[o].frame <= x.frame
                  /\ GroupContainsFrame(f, o, x.frame)
                  /\ x.frame < f.groups[o].frame + video_block_count(f, o)
    <3>1. PICK o \in VideoGroups(f) : \E i \in VideoBlocks(f, o) : x = BlockOf(f, o, i)
      BY BlockOfIndex
    <3>2. PICK i \in VideoBlocks(f, o) : x = BlockOf(f, o, i)
      BY <3>1
    <3>3. /\ x.frame \in Nat /\ x.frame = f.groups[o].frame + Rank(f, o, i)
          /\ GroupContainsFrame(f, o, x.frame)
      BY <1>1, <3>2, BlockOfGroup
    <3>4. /\ Rank(f, o, i) \in Nat /\ Rank(f, o, i) < video_block_count(f, o)
          /\ video_block_count(f, o) \in Nat
      BY <2>1, <3>2, RankIsBelowCount
    <3>5. f.groups[o].frame <= x.frame /\ x.frame < f.groups[o].frame + video_block_count(f, o)
      BY <2>1, <3>3, <3>4
    <3> QED
      BY <3>3, <3>5
  <2> DEFINE Started == {o \in VideoGroups(f) : f.groups[o].frame <= t}
             Distances == {f.size - o : o \in Started}
  <2>3. Started # {}
    <3>1. PICK o \in VideoGroups(f) : a.frame \in Nat /\ f.groups[o].frame <= a.frame
      BY <2>2
    <3> QED
      BY <2>1, <3>1
  <2>4. PICK p \in Started : \A o \in Started : o <= p
    <3>1. \A o \in Started : f.size - o \in Nat
      BY <2>1
    <3>2. Distances \in SUBSET Nat /\ Distances # {}
      BY <2>3, <3>1
    <3>3. PICK d \in Distances : \A e \in Distances : d <= e
      <4> HIDE DEF Distances
      <4> QED
        BY <3>2, SmallestOf
    <3>4. PICK p \in Started : d = f.size - p
      OBVIOUS
    <3>5. ASSUME NEW o \in Started PROVE o <= p
      <4>1. f.size - p <= f.size - o
        BY <3>3, <3>4
      <4> QED
        BY <2>1, <4>1
    <3> QED
      BY <3>5
  <2>5. PICK v \in VideoGroups(f) : /\ z.frame \in Nat
                                   /\ GroupContainsFrame(f, v, z.frame)
                                   /\ z.frame < f.groups[v].frame + video_block_count(f, v)
    BY <2>2
  <2>6. f.groups[v].frame > t
    <3> SUFFICES ASSUME f.groups[v].frame <= t PROVE FALSE
      BY <2>1
    <3>1. /\ ComputeGroupFrameSpan(f, v) \in Nat
          /\ FrameEnd(f, v) = f.groups[v].frame + ComputeGroupFrameSpan(f, v)
          /\ video_block_count(f, v) \in Nat
          /\ video_block_count(f, v) <= ComputeGroupFrameSpan(f, v)
          /\ HasImmediateSharedFrame(f, v) => z.frame = f.groups[v].frame
      BY <1>1, <2>1, <2>5, FrameEndNeverSaturates, VideoBlockCount
        DEF BlocksFit, GroupContainsFrame
    <3>2. ~ HasImmediateSharedFrame(f, v) /\ t < FrameEnd(f, v)
      BY <2>1, <2>5, <3>1
    <3>3. GroupContainsFrame(f, v, t)
      BY <2>1, <3>2 DEF GroupContainsFrame, VideoGroups
    <3> QED
      BY <3>3
  <2>7. p < v
    <3>1. p # v
      BY <2>1, <2>6
    <3>2. ~ (v < p)
      <4> SUFFICES ASSUME v < p PROVE FALSE
        OBVIOUS
      <4>1. f.groups[v].frame <= f.groups[p].frame
        BY <1>1, GroupsInOrder
      <4> QED
        BY <2>1, <2>6, <4>1
    <3> QED
      BY <2>1, <3>1, <3>2
  <2> DEFINE q == f.groups[p].follower
             late == NextNonAudioFrame(f, p)
  <2>8. /\ HasNextNonAudio(f, p) /\ q \in VideoGroups(f)
        /\ late \in Nat /\ f.groups[p].frame <= late
        /\ HasImmediateSharedFrame(f, p) <=> late = f.groups[p].frame
    BY <2>7, NextVideo
  <2>9. late = f.groups[q].frame /\ p < q
    BY <2>1, <2>8, FollowerIsAhead DEF HasNextNonAudio, NextNonAudioFrame
  <2>10. late > t
    <3> SUFFICES ASSUME ~ (late > t) PROVE FALSE
      OBVIOUS
    <3>1. q \in Started
      BY <2>8, <2>9
    <3>2. q <= p
      BY <2>4, <3>1
    <3> HIDE DEF q
    <3> QED
      BY <2>1, <2>8, <2>9, <3>2
  <2>11. f.groups[p].frame < late /\ ~ HasImmediateSharedFrame(f, p)
    <3>1. f.groups[p].frame \in Nat /\ f.groups[p].frame <= t
      BY <2>1
    <3> HIDE DEF late
    <3> QED
      BY <2>8, <2>10, <3>1
  <2>12. GroupContainsFrame(f, p, t)
    BY <2>8, <2>10, <2>11, ContainsUpToNext
  <2> QED
    BY <2>12
<1>4. Index!Lookup(VideoFrames(f), t) =
         IF exact # {} THEN Index!InFileOrder(Index!Places(exact))
         ELSE IF earlier # {} /\ later # {} THEN <<Index!Max(Index!Places(earlier))>>
         ELSE << >>
  BY DEF Index!Lookup
<1> HIDE DEF exact, earlier, later
<1> QED
  BY <1>2, <1>3, <1>4

-----------------------------------------------------------------------------
(* Every step of the search is a step of the index.                        *)

(* The places of no match, of one and of two.                              *)
LEMMA PlacesOfMatches ==
    ASSUME NEW m1, NEW m2
    PROVE  /\ PlacesFound(<< >>) = << >>
           /\ PlacesFound(<<m1>>) = <<m1.block_header_offset>>
           /\ PlacesFound(<<m1, m2>>) = <<m1.block_header_offset, m2.block_header_offset>>
BY DEF PlacesFound

(* Two groups that contain the frame give the two blocks of the index.     *)
LEMMA PairIsLookup ==
    ASSUME NEW f, NEW opt, opt.back \in Nat, IsView(f), Indexed(f, opt),
           NEW t \in 0 .. UIntMax,
           NEW p \in VideoGroups(f), GroupContainsFrame(f, p, t),
           NEW q \in VideoGroups(f), GroupContainsFrame(f, q, t), p < q,
           NEW o \in {p, q}
    PROVE  PlacesFound(CollectMatches(f, o, t, opt)) = Index!Lookup(VideoFrames(f), t)
<1>1. Regular(f) /\ BlocksFit(f) /\ t \in Nat
  BY LocatorAssumption DEF Indexed, Regular
<1>2. PICK m1, m2 \in Matches :
         /\ CollectMatches(f, o, t, opt) = <<m1, m2>>
         /\ \E c \in BOOLEAN : IsResult(f, p, t, c, m1)
         /\ \E c \in BOOLEAN : IsResult(f, q, t, c, m2)
  BY PairOfMatches
<1>3. p \in DOMAIN f.groups /\ q \in DOMAIN f.groups
  BY DEF VideoGroups
<1>4. PICK i \in VideoBlocks(f, p) :
         /\ m1.block_header_offset = f.groups[p].blocks[i].at
         /\ Rank(f, p, i) = DesiredVideoIndex(f, p, t)
  <2>1. PICK c \in BOOLEAN : IsResult(f, p, t, c, m1)
    BY <1>2
  <2> QED
    BY <1>3, <2>1, ResultFields
<1>5. PICK j \in VideoBlocks(f, q) :
         /\ m2.block_header_offset = f.groups[q].blocks[j].at
         /\ Rank(f, q, j) = DesiredVideoIndex(f, q, t)
  <2>1. PICK c \in BOOLEAN : IsResult(f, q, t, c, m2)
    BY <1>2
  <2> QED
    BY <1>3, <2>1, ResultFields
<1>6. Index!Lookup(VideoFrames(f), t) = <<f.groups[p].blocks[i].at, f.groups[q].blocks[j].at>>
  BY <1>1, <1>4, <1>5, LookupOfTwo
<1> QED
  BY <1>2, <1>4, <1>5, <1>6, PlacesOfMatches

(* Whichever search finds a group of the frame, its matches are the blocks *)
(* of the index.                                                           *)
LEMMA HitIsLookup ==
    ASSUME NEW f, NEW opt, opt.back \in Nat, IsView(f), Indexed(f, opt),
           NEW t \in 0 .. UIntMax, NEW o \in DOMAIN f.groups, GroupContainsFrame(f, o, t)
    PROVE  PlacesFound(CollectMatches(f, o, t, opt)) = Index!Lookup(VideoFrames(f), t)
<1>1. Regular(f) /\ BlocksFit(f) /\ t \in Nat
  BY LocatorAssumption DEF Indexed, Regular
<1>2. o \in VideoGroups(f)
  BY <1>1, ContainerIsVideo
<1>3. CASE \A p \in VideoGroups(f) : GroupContainsFrame(f, p, t) => p = o
  <2>1. PICK m \in Matches, c \in BOOLEAN :
           CollectMatches(f, o, t, opt) = <<m>> /\ IsResult(f, o, t, c, m)
    BY <1>1, <1>3, LoneMatch
  <2>2. PICK i \in VideoBlocks(f, o) :
           /\ m.block_header_offset = f.groups[o].blocks[i].at
           /\ Rank(f, o, i) = DesiredVideoIndex(f, o, t)
    BY <2>1, ResultFields
  <2>3. Index!Lookup(VideoFrames(f), t) = <<f.groups[o].blocks[i].at>>
    BY <1>1, <1>2, <1>3, <2>2, LookupOfOne
  <2> QED
    BY <2>1, <2>2, <2>3, PlacesOfMatches
<1>4. ASSUME NEW p \in VideoGroups(f), GroupContainsFrame(f, p, t),
             NEW q \in VideoGroups(f), GroupContainsFrame(f, q, t), p < q, o \in {p, q}
      PROVE  PlacesFound(CollectMatches(f, o, t, opt)) = Index!Lookup(VideoFrames(f), t)
  BY <1>4, PairIsLookup
<1>5. CASE ~ \A p \in VideoGroups(f) : GroupContainsFrame(f, p, t) => p = o
  <2>1. PICK p \in VideoGroups(f) : GroupContainsFrame(f, p, t) /\ p # o
    BY <1>5
  <2>2. p \in Nat /\ o \in Nat
    BY GroupFacts DEF VideoGroups
  <2>3. CASE p < o
    BY <1>2, <1>4, <2>1, <2>3
  <2>4. CASE o < p
    BY <1>2, <1>4, <2>1, <2>4
  <2> QED
    BY <2>1, <2>2, <2>3, <2>4
<1> QED
  BY <1>3, <1>5

(* When the linear scan gives up, no group of the recording contains the   *)
(* frame.                                                                  *)
LEMMA MissIsLookup ==
    ASSUME SearchInv, CursorInv, LinearMiss, Indexed(file, options)
    PROVE  Index!Lookup(VideoFrames(file), target) = << >>
<1>1. /\ IsView(file) /\ Regular(file) /\ offset \in Nat /\ target \in Nat
      /\ ReadablePrefix(file) = DOMAIN file.groups /\ pc = "linear"
  BY ViewsAreGiven, LocatorAssumption DEF SearchInv, TypeOK, Indexed, LinearMiss
<1>2. ASSUME NEW o \in VideoGroups(file), GroupContainsFrame(file, o, target) PROVE FALSE
  <2>1. o \in DOMAIN file.groups /\ o \in Nat /\ file.groups[o].frame \in Nat
    BY <1>1, GroupFacts, LocatorAssumption DEF VideoGroups
  <2>2. CASE o < offset
    BY <1>1, <1>2, <2>2 DEF CursorInv
  <2>3. CASE o >= offset /\ offset \notin DOMAIN file.groups
    <3>1. o > offset
      BY <1>1, <2>1, <2>3
    <3>2. offset # kFirstGroupOffset
      BY <1>1, <2>1, <2>3 DEF ReadablePrefix
    <3>3. PICK p \in DOMAIN file.groups : p < offset /\ file.groups[p].next = offset
      BY <1>1, <3>2 DEF CursorInv
    <3>4. p < o
      <4>1. p \in Nat
        BY <1>1, GroupFacts
      <4> QED
        BY <1>1, <2>1, <3>1, <3>3, <4>1
    <3> QED
      BY <1>1, <2>1, <2>3, <3>3, <3>4 DEF ReadablePrefix
  <2>4. CASE o >= offset /\ offset \in DOMAIN file.groups
    <3>1. /\ ~ GroupContainsFrame(file, offset, target)
          /\ ~ file.groups[offset].audio
          /\ target < file.groups[offset].frame
      BY <2>4 DEF LinearMiss, Scanning, Passed
    <3>2. o # offset
      BY <1>2, <3>1
    <3>3. o > offset
      BY <1>1, <2>1, <2>4, <3>2
    <3>4. file.groups[offset].frame <= file.groups[o].frame
      BY <1>1, <2>4, <3>1, <3>3, GroupsInOrder DEF VideoGroups
    <3>5. file.groups[offset].frame \in Nat
      BY <1>1, <2>4, GroupFacts, LocatorAssumption
    <3>6. target >= file.groups[o].frame
      BY <1>2 DEF GroupContainsFrame
    <3> QED
      BY <1>1, <2>1, <3>1, <3>4, <3>5, <3>6
  <2> QED
    BY <1>1, <2>1, <2>2, <2>3, <2>4
<1> QED
  BY <1>1, <1>2, LookupOfNone

(* A file that LocateFrame refuses has no group, hence no frame.           *)
LEMMA RejectedIsEmpty ==
    ASSUME file \in Files, Indexed(file, options), NEW t, CallRejected(t)
    PROVE  VideoFrames(file) = {}
<1>1. IsView(file) /\ Tiled(file) /\ (DOMAIN file.groups # {} => file.header)
  BY ViewsAreGiven, LocatorAssumption DEF Indexed, Regular
<1>2. DOMAIN file.groups = {}
  <2>1. CASE ~ file.header
    BY <1>1, <2>1
  <2>2. CASE file.header
    <3>1. ~ file.size >= 88 /\ file.size \in Nat
      BY <1>1, <2>2 DEF CallRejected, IsView
    <3> QED
      BY <1>1, <3>1, RejectedFileIsEmpty
  <2> QED
    BY <2>1, <2>2
<1> QED
  BY <1>2 DEF VideoFrames, VideoGroups

(* The recordings and options of a search are those of the hypothesis. *)
AllIndexed == \A f \in Files, opt \in Options : Indexed(f, opt)

(* A call asks or is refused, a hit of either search or the miss of the    *)
(* linear one answers, and every other step leaves the question open.      *)
LEMMA StepIsIndexStep ==
    AllIndexed /\ SearchInv /\ CursorInv /\ [Next]_vars => [Index!Next]_Index!indexVars
<1> SUFFICES ASSUME AllIndexed, SearchInv, CursorInv, [Next]_vars
             PROVE  [Index!Next]_Index!indexVars
  OBVIOUS
<1>1. /\ IsView(file) /\ file \in Files /\ options \in Options /\ options.back \in Nat
      /\ target \in 0 .. UIntMax /\ Indexed(file, options)
  BY ViewsAreGiven, LocatorAssumption DEF SearchInv, TypeOK, AllIndexed
<1>2. ASSUME NEW ms, pc \in {"binary", "linear"}, pc' = "done", file' = file, target' = target,
             PlacesFound(out') = Index!Lookup(VideoFrames(file), target)
      PROVE  Index!Answer
  BY <1>2 DEF Index!Answer, PlacesFound
<1>3. ASSUME NEW o \in DOMAIN file.groups, GroupContainsFrame(file, o, target), Found(o),
             pc \in {"binary", "linear"}, file' = file, target' = target
      PROVE  Index!Answer
  <2>1. PlacesFound(out') = Index!Lookup(VideoFrames(file), target) /\ pc' = "done"
    BY <1>1, <1>3, HitIsLookup DEF Found
  <2> QED
    BY <1>2, <1>3, <2>1
<1>4. CASE ProbeHit
  <2>1. PICK o \in Probed : GroupContainsFrame(file, o, target) /\ Found(o)
    BY <1>4 DEF ProbeHit
  <2>2. o \in DOMAIN file.groups
    BY <1>1, <1>4, ProbedGroup DEF ProbeHit, SearchInv
  <2>3. Index!Answer
    BY <1>3, <1>4, <2>1, <2>2 DEF ProbeHit, Probing
  <2> QED
    BY <2>3 DEF Index!Next
<1>5. CASE LinearHit
  <2>1. Index!Answer
    BY <1>3, <1>5 DEF LinearHit, Scanning
  <2> QED
    BY <2>1 DEF Index!Next
<1>6. CASE LinearMiss
  <2>1. PlacesFound(out') = Index!Lookup(VideoFrames(file), target)
    BY <1>1, <1>6, MissIsLookup, PlacesOfMatches DEF LinearMiss
  <2>2. Index!Answer
    BY <1>2, <1>6, <2>1 DEF LinearMiss
  <2> QED
    BY <2>2 DEF Index!Next
<1>7. ASSUME NEW t \in Targets, Call(t) PROVE Index!Next
  <2>1. Index!Ask(t)
    BY <1>7, PlacesOfMatches DEF Call, Index!Ask, PlacesFound
  <2> QED
    BY <2>1 DEF Index!Next
<1>8. ASSUME NEW t \in Targets, CallRejected(t) PROVE Index!Next
  <2>1. VideoFrames(file) = {}
    BY <1>1, <1>8, RejectedIsEmpty
  <2>2. Index!Refuse(t)
    BY <1>8, <2>1, PlacesOfMatches DEF CallRejected, Index!Refuse, PlacesFound
  <2> QED
    BY <2>2 DEF Index!Next
<1>9. CASE ProbeRight \/ ProbeLeft \/ GiveUp \/ LinearStep
  <2>1. /\ file' = file /\ target' = target /\ out' = out
        /\ pc \in {"binary", "linear"} /\ pc' \in {"binary", "linear"}
    BY <1>9 DEF ProbeRight, ProbeLeft, GiveUp, LinearStep, Probing, Scanning
  <2> QED
    BY <2>1 DEF Index!indexVars
<1>10. CASE UNCHANGED vars
  BY <1>10 DEF vars, Index!indexVars
<1> QED
  BY <1>4, <1>5, <1>6, <1>7, <1>8, <1>9, <1>10 DEF Next, Step

(* An indexed recording is one of the index. *)
LEMMA IsRecording ==
    ASSUME NEW f \in Files, NEW opt, Indexed(f, opt)
    PROVE  VideoFrames(f) \subseteq [frame : Nat, at : Nat]
<1>1. IsView(f) /\ BlocksFit(f)
  BY ViewsAreGiven, LocatorAssumption DEF Indexed, Regular
<1> QED
  BY <1>1, BlockOfIndex, BlockOfGroup

(* What a finished search has found is what the index looks up.            *)
AnswerInv == pc = "done" => PlacesFound(out) = Index!Lookup(VideoFrames(file), target)

LEMMA AnswerInvNext ==
    ASSUME AllIndexed, SearchInv, CursorInv, AnswerInv, [Next]_vars
    PROVE  AnswerInv'
<1> SUFFICES ASSUME pc' = "done"
             PROVE  PlacesFound(out)' = Index!Lookup(VideoFrames(file), target)'
  BY DEF AnswerInv
<1>1. [Index!Next]_Index!indexVars
  BY StepIsIndexStep
<1>2. pc \in {"idle", "binary", "linear", "done"}
  BY DEF SearchInv, TypeOK
<1>3. CASE pc \in {"binary", "linear"}
  <2>1. Index!Answer
    BY <1>1, <1>3 DEF Index!Next, Index!Ask, Index!Refuse, Index!indexVars
  <2> QED
    BY <2>1 DEF Index!Answer, PlacesFound
<1>4. ASSUME NEW t, CallRejected(t)
      PROVE  PlacesFound(out)' = Index!Lookup(VideoFrames(file), target)'
  <2>1. VideoFrames(file) = {}
    BY <1>4, RejectedIsEmpty DEF SearchInv, TypeOK, AllIndexed
  <2>2. VideoFrames(file)' = {} /\ out' = << >>
    BY <1>4, <2>1 DEF CallRejected
  <2>3. Index!Lookup({}, target') = << >>
    BY DEF Index!Lookup
  <2> QED
    BY <2>2, <2>3, PlacesOfMatches
<1>5. CASE UNCHANGED vars
  <2>1. UNCHANGED <<pc, out, file, target>>
    BY <1>5 DEF vars
  <2> QED
    BY <2>1 DEF AnswerInv
<1>6. CASE pc \in {"idle", "done"} /\ Next
  <2>1. PICK t \in Targets : Call(t) \/ CallRejected(t)
    BY <1>6 DEF Next, Step, ProbeHit, ProbeRight, ProbeLeft, GiveUp, LinearHit, LinearStep,
         LinearMiss, Probing, Scanning
  <2>2. ~ Call(t)
    BY DEF Call
  <2> QED
    BY <1>4, <2>1, <2>2
<1> QED
  BY <1>2, <1>3, <1>5, <1>6

(* LocateFrame never answers a recording other than the frame index does:  *)
(* the same blocks in file order, or none, whatever the probe window, the  *)
(* number of probes, and whichever of the two searches ends the question.  *)
THEOREM AnswersAreLookups ==
    ASSUME AllIndexed
    PROVE  Spec => Index!Safety
<1>1. Init => Index!Init
  <2> SUFFICES ASSUME Init PROVE Index!Init
    OBVIOUS
  <2>1. VideoFrames(file) \subseteq [frame : Nat, at : Nat]
    BY IsRecording DEF Init, AllIndexed
  <2>2. PlacesFound(out) = << >>
    BY PlacesOfMatches DEF Init
  <2> QED
    BY <2>1, <2>2 DEF Init, Index!Init, PlacesFound
<1>2. Init => CursorInv
  BY DEF Init, CursorInv
<1>3. SearchInv /\ CursorInv /\ [Next]_vars => CursorInv'
  BY CursorInvNext
<1>4. SearchInv /\ CursorInv /\ [Next]_vars => [Index!Next]_Index!indexVars
  BY StepIsIndexStep
<1> QED
  BY <1>1, <1>2, <1>3, <1>4, SearchInvariant, PTL DEF Spec, Index!Safety

-----------------------------------------------------------------------------
(* A damaged audio word. *)

(* The file with a damaged audio word holds what was recorded outside of   *)
(* the group it stands in.                                                 *)
LEMMA HeldOutside ==
    ASSUME NEW f, IsView(f), Tiled(f), BlocksFit(f),
           NEW o \in DOMAIN f.groups \ VideoGroups(f)
    PROVE  FramesOutside(Repaired(f, o), o) = VideoFrames(f)
<1> DEFINE r == Repaired(f, o)
<1>1. /\ DOMAIN r.groups = DOMAIN f.groups
      /\ \A p \in DOMAIN f.groups :
            /\ r.groups[p].frame = f.groups[p].frame
            /\ r.groups[p].blocks = f.groups[p].blocks
            /\ r.groups[p].next = f.groups[p].next
            /\ r.groups[p].audio = (f.groups[p].audio /\ p # o)
  BY DEF Repaired
<1> HIDE DEF r
<1>2. VideoGroups(r) = VideoGroups(f) \cup {o}
  BY <1>1 DEF VideoGroups
<1>3. ASSUME NEW p \in DOMAIN f.groups
      PROVE  VideoBlocks(r, p) = VideoBlocks(f, p)
  BY <1>1 DEF VideoBlocks
<1>4. ASSUME NEW p \in DOMAIN f.groups, NEW i
      PROVE  BlockOf(r, p, i) = BlockOf(f, p, i)
  BY <1>1, <1>3 DEF BlockOf, Rank
<1>5. VideoFrames(f) \subseteq FramesOutside(r, o)
  <2> SUFFICES ASSUME NEW b \in VideoFrames(f)
               PROVE  b \in FramesOutside(r, o)
    OBVIOUS
  <2>1. PICK p \in VideoGroups(f) : \E i \in VideoBlocks(f, p) : b = BlockOf(f, p, i)
    BY BlockOfIndex
  <2>2. PICK i \in VideoBlocks(f, p) : b = BlockOf(f, p, i)
    BY <2>1
  <2>3. p \in DOMAIN f.groups /\ p # o
    BY DEF VideoGroups
  <2>4. b \in VideoFrames(r)
    <3>1. p \in VideoGroups(r) /\ i \in VideoBlocks(r, p) /\ b = BlockOf(r, p, i)
      BY <1>2, <1>3, <1>4, <2>2, <2>3
    <3> QED
      BY <3>1 DEF VideoFrames, BlockOf
  <2>5. b.at \in Nat /\ p <= b.at /\ b.at < f.groups[p].next
    BY <2>2, BlockOfGroup
  <2>6. /\ o \in Nat /\ p \in Nat
        /\ f.groups[o].next \in Nat /\ f.groups[p].next \in Nat
    BY <2>3, GroupFacts
  <2>7. /\ p < o => f.groups[p].next <= o
        /\ o < p => f.groups[o].next <= p
    BY <2>3 DEF Tiled
  <2>8. b.at < o \/ f.groups[o].next <= b.at
    BY <2>3, <2>5, <2>6, <2>7
  <2> QED
    BY <1>1, <2>4, <2>8 DEF FramesOutside
<1>6. FramesOutside(r, o) \subseteq VideoFrames(f)
  <2> SUFFICES ASSUME NEW b \in FramesOutside(r, o)
               PROVE  b \in VideoFrames(f)
    OBVIOUS
  <2>1. b \in VideoFrames(r) /\ (b.at < o \/ f.groups[o].next <= b.at)
    BY <1>1 DEF FramesOutside
  <2>2. PICK p \in VideoGroups(r) : \E i \in VideoBlocks(r, p) : b = BlockOf(r, p, i)
    BY <2>1, BlockOfIndex
  <2>3. PICK i \in VideoBlocks(r, p) : b = BlockOf(r, p, i)
    BY <2>2
  <2>4. p \in DOMAIN f.groups
    BY <1>2 DEF VideoGroups
  <2>5. i \in VideoBlocks(f, p) /\ b = BlockOf(f, p, i)
    BY <1>3, <1>4, <2>3, <2>4
  <2>6. p # o
    <3> SUFFICES ASSUME p = o PROVE FALSE
      OBVIOUS
    <3>1. i \in 1 .. Len(f.groups[o].blocks)
      BY <2>5 DEF VideoBlocks
    <3> DEFINE at == f.groups[o].blocks[i].at
               size == f.groups[o].blocks[i].size
               next == f.groups[o].next
    <3>2. /\ at \in Nat /\ size \in Nat /\ next \in Nat /\ o \in Nat
          /\ o + 48 <= at /\ at + 20 + size <= next
      BY <3>1, GroupFacts
    <3>3. b.at = at
      BY <2>5 DEF BlockOf
    <3> HIDE DEF at, size
    <3>4. ~ (at < o) /\ ~ (next <= at)
      <4> HIDE DEF next
      <4> QED
        BY <3>2
    <3> QED
      BY <2>1, <3>3, <3>4
  <2>7. p \in VideoGroups(f)
    BY <1>2, <2>6
  <2> QED
    BY <2>5, <2>7 DEF VideoFrames, BlockOf
<1> QED
  BY <1>5, <1>6 DEF r

(* A damaged audio word hides the frames of its group and changes no other *)
(* answer, whichever groups are damaged and however the search goes:       *)
(* LocateFrame finds what was recorded outside the group.                  *)
THEOREM MislabelledGroupIsContained ==
    ASSUME AllIndexed
    PROVE  Spec => []MislabelledGroupHidesOnlyItself
<1>1. Init => CursorInv /\ AnswerInv
  BY DEF Init, CursorInv, AnswerInv
<1>2. SearchInv /\ CursorInv /\ [Next]_vars => CursorInv'
  BY CursorInvNext
<1>3. SearchInv /\ CursorInv /\ AnswerInv /\ [Next]_vars => AnswerInv'
  BY AnswerInvNext
<1>4. SearchInv /\ AnswerInv => MislabelledGroupHidesOnlyItself
  <2> SUFFICES ASSUME SearchInv, AnswerInv, pc = "done",
                      NEW o \in DOMAIN file.groups \ VideoGroups(file)
               PROVE  PlacesFound(out) =
                        Index!Lookup(FramesOutside(Repaired(file, o), o), target)
    BY DEF MislabelledGroupHidesOnlyItself
  <2>1. IsView(file) /\ Tiled(file) /\ BlocksFit(file)
    BY ViewsAreGiven, LocatorAssumption DEF SearchInv, TypeOK, AllIndexed, Indexed, Regular
  <2>2. FramesOutside(Repaired(file, o), o) = VideoFrames(file)
    BY <2>1, HeldOutside
  <2> QED
    BY <2>2 DEF AnswerInv
<1> QED
  BY <1>1, <1>2, <1>3, <1>4, SearchInvariant, PTL DEF Spec
=============================================================================
