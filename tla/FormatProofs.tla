---------------------------- MODULE FormatProofs ----------------------------
(***************************************************************************)
(* What the parsers of modules Mp4Format and GroupParser return for a file *)
(* of any bytes: a view that the search of module FrameLocator may rely    *)
(* on.  The two loops of the parsers are recursive functions here, so each *)
(* is first shown to satisfy its recursive definition.                     *)
(***************************************************************************)
EXTENDS SyntheticMp4, CountingLemmas

(* The search, for what it assumes of a view.  A frame number is what is   *)
(* left of a word when the number base is taken off.                       *)
Search == INSTANCE FrameLocator WITH
    Files <- {}, Targets <- {}, Options <- {}, MaxFrame <- UIntMax - kConstNumberBase,
    MaxIterations <- 0, file <- {}, options <- {}, target <- 0, pc <- "idle",
    left <- 0, right <- 0, iteration <- 0, offset <- 0, out <- << >>

USE DEF kFileHeaderSize, kGroupHeaderSize, kBlockHeaderSize, kConstNumberBase, NoGroup

-----------------------------------------------------------------------------
(* The headers. *)

(* What a group header that parses tells. *)
LEMMA ParsedHeader ==
    ASSUME NEW image, IsImage(image), NEW o, GroupHeaderParses(image, o)
    PROVE  /\ o \in Nat /\ image.size \in Nat
           /\ o + kGroupHeaderSize <= image.size
           /\ HasGroupStartCodeAt(image, o)
           /\ GroupHeader(image, o).frame \in 0 .. UIntMax - kConstNumberBase
           /\ GroupHeader(image, o).audio \in BOOLEAN
           /\ GroupHeader(image, o).block_count \in Nat
<1>1. /\ o \in DOMAIN image.group /\ image.size - o >= 48
      /\ image.group[o].start_code = kGroupStartCode
      /\ image.group[o].frame_num >= 4096
      /\ image.group[o].block_number >= 4097
  BY DEF GroupHeaderParses, ValidGroupHeader
<1>2. /\ image.size \in Nat /\ o \in Nat
      /\ image.group[o].frame_num \in 0 .. UIntMax
      /\ image.group[o].block_number \in Nat
      /\ UIntMax \in Nat
  BY <1>1, FormatAssumption DEF IsImage
<1>3. o + 48 <= image.size /\ o + 4 <= image.size
  BY <1>1, <1>2
<1>4. /\ GroupHeader(image, o).frame = image.group[o].frame_num - 4096
      /\ GroupHeader(image, o).audio \in BOOLEAN
      /\ GroupHeader(image, o).block_count = image.group[o].block_number - 4096
  BY DEF GroupHeader
<1> QED
  BY <1>1, <1>2, <1>3, <1>4 DEF HasGroupStartCodeAt

(* A block whose header parses ends inside the file. *)
LEMMA ParsedBlock ==
    ASSUME NEW image, IsImage(image), NEW c, BlockHeaderParses(image, c)
    PROVE  /\ c \in Nat /\ image.size \in Nat
           /\ image.block[c].size \in Nat
           /\ c + kBlockHeaderSize + image.block[c].size <= image.size
<1>1. c \in DOMAIN image.block /\ image.size - c >= 20 + image.block[c].size
  BY DEF BlockHeaderParses
<1>2. c \in Nat /\ image.size \in Nat /\ image.block[c].size \in Nat
  BY <1>1, FormatAssumption DEF IsImage
<1> QED
  BY <1>1, <1>2

-----------------------------------------------------------------------------
(* The blocks of a group. *)

(* The cursor satisfies its recursive definition: the loop of ParseGroupAt *)
(* over the blocks.                                                        *)
LEMMA BlockCursorDefined ==
    ASSUME NEW image, IsImage(image), NEW o \in Nat,
           GroupHeader(image, o).block_count \in Nat
    PROVE  LET count == GroupHeader(image, o).block_count
               cursor == BlockCursor(image, o)
           IN  /\ cursor \in [0 .. count -> Nat]
               /\ cursor[0] = o + kGroupHeaderSize
               /\ \A i \in 1 .. count :
                     cursor[i] =
                        IF cursor[i - 1] # NoGroup /\ BlockHeaderParses(image, cursor[i - 1])
                        THEN cursor[i - 1] + kBlockHeaderSize + image.block[cursor[i - 1]].size
                        ELSE NoGroup
<1> DEFINE count == GroupHeader(image, o).block_count
           After(c) == IF c # 0 /\ BlockHeaderParses(image, c)
                       THEN c + 20 + image.block[c].size ELSE 0
           step == [i \in Nat |-> [c \in Nat |-> After(c)]]
           Def(f) == f = [i \in 0 .. count |-> IF i = 0 THEN o + 48 ELSE After(f[i - 1])]
<1>1. count \in Nat /\ 0 <= count /\ o + 48 \in Nat
  OBVIOUS
<1>2. step \in [Nat -> [Nat -> Nat]] /\ \A c \in Nat : After(c) \in Nat
  <2> SUFFICES ASSUME NEW c \in Nat PROVE After(c) \in Nat
    OBVIOUS
  <2> QED
    BY ParsedBlock
<1>3. \A i, c \in Nat : step[i][c] = After(c)
  OBVIOUS
<1> HIDE DEF count, step, After
<1>4. PICK f : Iterates(f, 0, count, Nat, o + 48, step)
  BY <1>1, <1>2, IterationExists
<1>5. ASSUME NEW i \in 0 .. count PROVE f[i] = IF i = 0 THEN o + 48 ELSE After(f[i - 1])
  <2>1. CASE i = 0
    BY <2>1, <1>4 DEF Iterates
  <2>2. CASE i # 0
    <3>1. i \in Nat /\ i \in 0 + 1 .. count /\ i - 1 \in 0 .. count
      BY <1>1, <2>2
    <3>2. f[i - 1] \in Nat
      BY <3>1, <1>4 DEF Iterates
    <3> QED
      BY <3>1, <3>2, <2>2, <1>3, <1>4 DEF Iterates
  <2> QED
    BY <2>1, <2>2
<1>6. Def(f)
  <2>1. f = [i \in 0 .. count |-> f[i]]
    BY <1>4 DEF Iterates
  <2> QED
    BY <2>1, <1>5
<1> DEFINE cursor == CHOOSE c : Def(c)
<1>7. Def(cursor)
  BY <1>6
<1>8. BlockCursor(image, o) = cursor
  BY DEF BlockCursor, count, After
<1> HIDE DEF cursor
<1>9. /\ cursor[0] = o + 48
      /\ \A i \in 1 .. count : cursor[i] = After(cursor[i - 1])
  <2>1. 0 \in 0 .. count /\ \A i \in 1 .. count : i \in 0 .. count /\ i # 0
    BY <1>1
  <2> QED
    BY <1>7, <2>1
<1>10. \A i \in 0 .. count : cursor[i] \in Nat
  <2>1. \A i \in 0 + 1 .. count : cursor[i - 1] \in Nat => cursor[i] \in Nat
    <3>1. \A i \in 0 + 1 .. count : i \in 1 .. count
      OBVIOUS
    <3> QED
      BY <1>2, <1>9, <3>1
  <2>2. cursor[0] \in Nat /\ 0 \in Nat
    BY <1>1, <1>9
  <2> QED
    BY <1>1, <2>1, <2>2, StaysIn
<1>11. cursor \in [0 .. count -> Nat]
  BY <1>7, <1>10
<1> QED
  BY <1>8, <1>9, <1>11 DEF count, After

(* The blocks of a group that parses follow one another, from its header   *)
(* to its end, and all of them lie in the file.                            *)
LEMMA BlocksOfGroup ==
    ASSUME NEW image, IsImage(image), NEW o, GroupParses(image, o)
    PROVE  LET count == GroupHeader(image, o).block_count
               cursor == BlockCursor(image, o)
           IN  /\ o \in Nat /\ image.size \in Nat
               /\ count \in Nat /\ count \in 1 .. MaxBlockCount
               /\ cursor \in [0 .. count -> Nat]
               /\ cursor[0] = o + kGroupHeaderSize
               /\ \A i \in 1 .. count :
                     /\ image.block[cursor[i - 1]].size \in Nat
                     /\ cursor[i] = cursor[i - 1] + kBlockHeaderSize
                                      + image.block[cursor[i - 1]].size
               /\ \A i \in 0 .. count : \A j \in i .. count : cursor[i] <= cursor[j]
               /\ cursor[count] <= image.size
<1> DEFINE count == GroupHeader(image, o).block_count
           cursor == BlockCursor(image, o)
<1>1. /\ GroupHeaderParses(image, o) /\ count \in 1 .. MaxBlockCount
      /\ cursor[count] # 0
  BY DEF GroupParses
<1>2. o \in Nat /\ image.size \in Nat /\ count \in Nat
  BY <1>1, ParsedHeader
<1>3. /\ cursor \in [0 .. count -> Nat]
      /\ cursor[0] = o + 48
      /\ \A i \in 1 .. count :
            cursor[i] = IF cursor[i - 1] # 0 /\ BlockHeaderParses(image, cursor[i - 1])
                        THEN cursor[i - 1] + 20 + image.block[cursor[i - 1]].size ELSE 0
  BY <1>2, BlockCursorDefined
<1> HIDE DEF count, cursor
<1>4. count \in 1 .. count /\ \A i \in 1 .. count : i - 1 \in 0 .. count /\ i \in 0 .. count
  BY <1>1, <1>2, FormatAssumption
<1>5. ASSUME NEW i \in 1 .. count PROVE cursor[i - 1] # 0 /\ BlockHeaderParses(image, cursor[i - 1])
  <2>1. SUFFICES ASSUME ~ (cursor[i - 1] # 0 /\ BlockHeaderParses(image, cursor[i - 1]))
                 PROVE  FALSE
    OBVIOUS
  <2> DEFINE Failed == {0}
  <2>2. cursor[i] \in Failed
    BY <1>3, <2>1
  <2>3. \A n \in i + 1 .. count : cursor[n - 1] \in Failed => cursor[n] \in Failed
    <3>1. \A n \in i + 1 .. count : n \in 1 .. count
      BY <1>2
    <3> QED
      BY <1>3, <3>1
  <2>4. i \in Nat /\ count \in i .. count
    BY <1>2
  <2>5. \A n \in i .. count : cursor[n] \in Failed
    <3> HIDE DEF Failed
    <3> QED
      BY <1>2, <2>2, <2>3, <2>4, StaysIn
  <2> QED
    BY <1>1, <2>4, <2>5 DEF count, cursor
<1>6. ASSUME NEW i \in 1 .. count
      PROVE  /\ image.block[cursor[i - 1]].size \in Nat
             /\ cursor[i] = cursor[i - 1] + 20 + image.block[cursor[i - 1]].size
             /\ cursor[i] <= image.size
             /\ cursor[i - 1] \in Nat /\ cursor[i - 1] <= cursor[i]
  <2>1. cursor[i] = cursor[i - 1] + 20 + image.block[cursor[i - 1]].size
    BY <1>3, <1>5
  <2>2. /\ cursor[i - 1] \in Nat /\ image.size \in Nat
        /\ image.block[cursor[i - 1]].size \in Nat
        /\ cursor[i - 1] + 20 + image.block[cursor[i - 1]].size <= image.size
    BY <1>5, ParsedBlock
  <2> QED
    BY <2>1, <2>2
<1>7. ASSUME NEW i \in 0 .. count, NEW j \in i .. count PROVE cursor[i] <= cursor[j]
  <2> DEFINE T == {n \in Nat : cursor[i] <= n}
  <2>1. i \in Nat /\ cursor[i] \in Nat /\ cursor[i] \in T
    BY <1>2, <1>3
  <2>2. \A n \in i + 1 .. count : cursor[n - 1] \in T => cursor[n] \in T
    <3> SUFFICES ASSUME NEW n \in i + 1 .. count, cursor[n - 1] \in T
                 PROVE  cursor[n] \in T
      OBVIOUS
    <3>1. n \in 1 .. count /\ n \in 0 .. count
      BY <1>2
    <3>2. cursor[n - 1] <= cursor[n] /\ cursor[n - 1] \in Nat /\ cursor[n] \in Nat
      BY <1>3, <1>6, <3>1
    <3> QED
      BY <2>1, <3>2
  <2>3. \A n \in i .. count : cursor[n] \in T
    <3> HIDE DEF T
    <3> QED
      BY <1>2, <2>1, <2>2, StaysIn
  <2> QED
    BY <2>3
<1> QED
  BY <1>1, <1>2, <1>3, <1>4, <1>6, <1>7 DEF count, cursor

-----------------------------------------------------------------------------
(* The group after. *)

(* Where FindNextNonAudioGroup ends, for groups that go forward.           *)
LEMMA NextNonAudioDefined ==
    ASSUME NEW groups, NEW n \in Nat, DOMAIN groups \subseteq 0 .. n,
           \A o \in DOMAIN groups : o < groups[o].next
    PROVE  LET follower == NextNonAudio(groups)
               next(o) == groups[o].next
           IN  /\ DOMAIN follower = DOMAIN groups
               /\ \A o \in DOMAIN groups :
                     /\ follower[o] \in DOMAIN groups \cup {NoGroup}
                     /\ follower[o] =
                           IF next(o) \notin DOMAIN groups THEN NoGroup
                           ELSE IF groups[next(o)].audio THEN follower[next(o)]
                           ELSE next(o)
<1> DEFINE D == DOMAIN groups
           stops == {o \in D : ~ groups[o].audio}
           next == [o \in D |-> groups[o].next]
           Def(f) == f = [o \in D |-> IF ~ groups[o].audio THEN o
                                      ELSE IF groups[o].next \in D THEN f[groups[o].next]
                                      ELSE 0]
           first == CHOOSE f : Def(f)
<1>1. /\ D \in SUBSET (0 .. n)
      /\ \A o \in D : next[o] \in D => o < next[o]
  OBVIOUS
<1>2. \A f : IsWalk(f, D, stops, next, 0) <=> Def(f)
  <2> SUFFICES ASSUME NEW f PROVE IsWalk(f, D, stops, next, 0) <=> Def(f)
    OBVIOUS
  <2>1. [o \in D |-> IF o \in stops THEN o ELSE IF next[o] \in D THEN f[next[o]] ELSE 0]
         = [o \in D |-> IF ~ groups[o].audio THEN o
                        ELSE IF groups[o].next \in D THEN f[groups[o].next] ELSE 0]
    OBVIOUS
  <2> QED
    BY <2>1 DEF IsWalk
<1> HIDE DEF Def, stops, next
<1>3. \E f : IsWalk(f, D, stops, next, 0)
  <2> HIDE DEF D
  <2> QED
    BY <1>1, WalkExists
<1>4. IsWalk(first, D, stops, next, 0)
  <2>1. \E f : Def(f)
    BY <1>2, <1>3
  <2>2. Def(first)
    BY <2>1
  <2> QED
    BY <1>2, <2>2
<1>5. NextNonAudio(groups) =
         [o \in D |-> IF groups[o].next \in D THEN first[groups[o].next] ELSE 0]
  BY DEF NextNonAudio, Def
<1> HIDE DEF first
<1>6. /\ \A o \in D : first[o] = IF o \in stops THEN o
                                 ELSE IF next[o] \in D THEN first[next[o]] ELSE 0
      /\ \A o \in D : first[o] \in (D \cap stops) \cup {0}
  <2> HIDE DEF D
  <2> QED
    BY <1>1, <1>4, WalkEnds
<1>7. \A o \in D : first[o] = IF ~ groups[o].audio THEN o
                            ELSE IF groups[o].next \in D THEN first[groups[o].next] ELSE 0
  BY <1>6 DEF stops, next
<1>8. \A o \in D : first[o] \in D \cup {0}
  BY <1>6
<1> QED
  BY <1>5, <1>7, <1>8

(* The parsers promise the search a view, whatever bytes the file holds:   *)
(* blocks in order and inside their group, groups inside the file, a       *)
(* frame number that leaves room for a span, and a following group that    *)
(* exists.  It is what FrameLocator assumes of its files.                  *)
THEOREM ParsersGiveAView ==
    ASSUME NEW image, IsImage(image)
    PROVE  Search!IsView(View(image))
<1> DEFINE heads == {o \in DOMAIN image.group : GroupHeaderParses(image, o)}
           whole == {o \in heads : GroupParses(image, o)}
           groups == [o \in whole |-> ParsedGroup(image, o)]
           next == NextNonAudio(groups)
           f == View(image)
           seen == [o \in heads |-> [frame |-> GroupHeader(image, o).frame,
                                     audio |-> GroupHeader(image, o).audio]]
           codes == {o \in DOMAIN image.group : HasGroupStartCodeAt(image, o)}
           full == [o \in whole |->
                        [frame    |-> groups[o].frame,
                         audio    |-> groups[o].audio,
                         next     |-> groups[o].next,
                         blocks   |-> groups[o].blocks,
                         follower |-> next[o]]]
<1>1. f = [size |-> image.size, header |-> FileHeaderParses(image),
           codes |-> codes, heads |-> seen, groups |-> full]
  BY DEF View
<1>2. /\ f.size = image.size /\ f.header = FileHeaderParses(image)
      /\ f.codes = codes /\ f.heads = seen /\ f.groups = full
  BY <1>1
<1>3. /\ DOMAIN f.heads = heads /\ DOMAIN f.groups = whole
      /\ \A o \in heads : /\ f.heads[o].frame = GroupHeader(image, o).frame
                           /\ f.heads[o].audio = GroupHeader(image, o).audio
      /\ \A o \in whole : /\ f.groups[o].frame = groups[o].frame
                           /\ f.groups[o].audio = groups[o].audio
                           /\ f.groups[o].next = groups[o].next
                           /\ f.groups[o].blocks = groups[o].blocks
                           /\ f.groups[o].follower = next[o]
  BY <1>2
<1> HIDE DEF f, seen, full, next
<1>4. ASSUME NEW o \in heads
      PROVE  /\ o \in codes /\ o \in Nat /\ o + 48 <= image.size
             /\ f.heads[o].frame \in 0 .. UIntMax - 4096
             /\ f.heads[o].audio \in BOOLEAN
  <2>1. o \in DOMAIN image.group /\ GroupHeaderParses(image, o)
    OBVIOUS
  <2> HIDE DEF heads
  <2> QED
    BY <1>3, <2>1, ParsedHeader
<1>5. ASSUME NEW o \in whole
      PROVE  /\ Search!IsGroup(f, o)
             /\ o \in 0 .. image.size
             /\ o < groups[o].next
             /\ groups[o].audio = f.heads[o].audio
  <2> DEFINE count == GroupHeader(image, o).block_count
             cursor == BlockCursor(image, o)
             blocks == [i \in 1 .. count |->
                          [video |-> IsVideoBlockType(image.block[cursor[i - 1]].type),
                           at    |-> cursor[i - 1],
                           size  |-> image.block[cursor[i - 1]].size]]
  <2>1. o \in heads /\ GroupParses(image, o)
    OBVIOUS
  <2>2. groups[o] = [frame  |-> GroupHeader(image, o).frame,
                     audio  |-> GroupHeader(image, o).audio,
                     next   |-> cursor[count], blocks |-> blocks]
    BY DEF ParsedGroup
  <2>3. /\ groups[o].frame = GroupHeader(image, o).frame
        /\ groups[o].audio = GroupHeader(image, o).audio
        /\ groups[o].next = cursor[count]
        /\ groups[o].blocks = blocks
    <3> HIDE DEF groups, blocks, count, cursor
    <3> QED
      BY <2>2
  <2>4. /\ f.groups[o].frame = f.heads[o].frame
        /\ f.groups[o].audio = f.heads[o].audio
        /\ f.groups[o].next = cursor[count]
        /\ f.groups[o].blocks = blocks
        /\ groups[o].audio = f.heads[o].audio
    BY <1>3, <2>1, <2>3
  <2>5. /\ o \in Nat /\ image.size \in Nat
        /\ count \in Nat /\ count \in 1 .. MaxBlockCount
        /\ cursor \in [0 .. count -> Nat]
        /\ cursor[0] = o + 48
        /\ \A i \in 1 .. count :
              /\ image.block[cursor[i - 1]].size \in Nat
              /\ cursor[i] = cursor[i - 1] + 20 + image.block[cursor[i - 1]].size
        /\ \A i \in 0 .. count : \A j \in i .. count : cursor[i] <= cursor[j]
        /\ cursor[count] <= image.size
    BY <2>1, BlocksOfGroup
  <2> HIDE DEF count, cursor, blocks, groups, whole, heads
  <2>6. \A i \in 1 .. count :
           /\ blocks[i].video \in BOOLEAN
           /\ blocks[i].at = cursor[i - 1]
           /\ blocks[i].size = image.block[cursor[i - 1]].size
           /\ blocks[i].at + 20 + blocks[i].size = cursor[i]
           /\ blocks[i] \in [video : BOOLEAN, at : Nat, size : Nat]
    <3> SUFFICES ASSUME NEW i \in 1 .. count
                 PROVE  /\ blocks[i].video \in BOOLEAN
                        /\ blocks[i].at = cursor[i - 1]
                        /\ blocks[i].size = image.block[cursor[i - 1]].size
                        /\ blocks[i].at + 20 + blocks[i].size = cursor[i]
                        /\ blocks[i] \in [video : BOOLEAN, at : Nat, size : Nat]
      OBVIOUS
    <3>1. blocks[i] = [video |-> IsVideoBlockType(image.block[cursor[i - 1]].type),
                       at    |-> cursor[i - 1],
                       size  |-> image.block[cursor[i - 1]].size]
      BY DEF blocks
    <3>2. i - 1 \in 0 .. count
      BY <2>5
    <3>3. cursor[i - 1] \in Nat /\ image.block[cursor[i - 1]].size \in Nat
      BY <2>5, <3>2
    <3>4. IsVideoBlockType(image.block[cursor[i - 1]].type) \in BOOLEAN
      BY DEF IsVideoBlockType
    <3>5. cursor[i] = cursor[i - 1] + 20 + image.block[cursor[i - 1]].size
      BY <2>5
    <3> QED
      BY <3>1, <3>3, <3>4, <3>5
  <2>7. blocks \in Seq([video : BOOLEAN, at : Nat, size : Nat]) /\ Len(blocks) = count
    <3>1. blocks = [i \in 1 .. count |-> blocks[i]]
      BY DEF blocks
    <3>2. blocks \in [1 .. count -> [video : BOOLEAN, at : Nat, size : Nat]]
      BY <2>6, <3>1
    <3>3. \A S : \A n \in Nat : \A b \in [1 .. n -> S] : b \in Seq(S) /\ Len(b) = n
      OBVIOUS
    <3>4. count \in Nat
      BY <2>5
    <3> HIDE DEF blocks
    <3> QED
      BY <3>2, <3>3, <3>4, Zenon
  <2>8. \A i \in 0 .. count : o + 48 <= cursor[i] /\ cursor[i] <= cursor[count]
                             /\ cursor[i] \in Nat
    <3> SUFFICES ASSUME NEW i \in 0 .. count
                 PROVE  o + 48 <= cursor[i] /\ cursor[i] <= cursor[count] /\ cursor[i] \in Nat
      OBVIOUS
    <3>1. 0 \in 0 .. count /\ i \in 0 .. count /\ count \in i .. count
      BY <2>5
    <3> QED
      BY <2>5, <3>1
  <2>9. \A i \in 1 .. count : \A j \in i + 1 .. count : cursor[i] <= cursor[j - 1]
    <3> SUFFICES ASSUME NEW i \in 1 .. count, NEW j \in i + 1 .. count
                 PROVE  cursor[i] <= cursor[j - 1]
      OBVIOUS
    <3>1. i \in 0 .. count /\ j - 1 \in i .. count
      BY <2>5
    <3> QED
      BY <2>5, <3>1
  <2>10. \A i \in 1 .. count :
            /\ o + 48 <= blocks[i].at
            /\ blocks[i].at + 20 + blocks[i].size <= cursor[count]
            /\ \A j \in i + 1 .. count :
                  blocks[i].at + 20 + blocks[i].size <= blocks[j].at
    <3> SUFFICES ASSUME NEW i \in 1 .. count
                 PROVE  /\ o + 48 <= blocks[i].at
                        /\ blocks[i].at + 20 + blocks[i].size <= cursor[count]
                        /\ \A j \in i + 1 .. count :
                              blocks[i].at + 20 + blocks[i].size <= blocks[j].at
      OBVIOUS
    <3>1. i - 1 \in 0 .. count /\ i \in 0 .. count
      BY <2>5
    <3>2. \A j \in i + 1 .. count : j \in 1 .. count
      BY <2>5
    <3> QED
      BY <2>6, <2>8, <2>9, <3>1, <3>2
  <2>11. Search!IsGroup(f, o)
    BY <1>2, <2>4, <2>5, <2>7, <2>10
      DEF Search!IsGroup, Search!kGroupHeaderSize, Search!kBlockHeaderSize
  <2>12. count \in 0 .. count
    BY <2>5
  <2>13. o \in 0 .. image.size /\ o < cursor[count]
    BY <2>5, <2>8, <2>12
  <2> QED
    BY <2>3, <2>4, <2>11, <2>13 DEF count, cursor
<1>6. image.size \in Nat
  BY DEF IsImage
<1>7. ASSUME NEW o \in whole
      PROVE  /\ next[o] \in whole \cup {0}
             /\ next[o] = IF groups[o].next \notin whole THEN 0
                          ELSE IF groups[groups[o].next].audio THEN next[groups[o].next]
                          ELSE groups[o].next
  <2>1. /\ DOMAIN groups = whole
        /\ DOMAIN groups \subseteq 0 .. image.size
        /\ \A q \in DOMAIN groups : q < groups[q].next
    BY <1>5
  <2> HIDE DEF groups, whole
  <2> QED
    BY <1>6, <2>1, NextNonAudioDefined DEF next
<1> HIDE DEF groups
<1>8. ASSUME NEW o \in whole
      PROVE  /\ Search!IsFollower(f, o)
             /\ f.groups[o].follower \in DOMAIN f.groups \cup {Search!NoGroup}
  <2> HIDE DEF whole
  <2>1. f.groups[o].next = groups[o].next /\ f.groups[o].follower = next[o]
    BY <1>3
  <2>2. groups[o].next \in whole =>
           /\ f.groups[groups[o].next].audio = groups[groups[o].next].audio
           /\ f.groups[groups[o].next].follower = next[groups[o].next]
    BY <1>3
  <2> QED
    BY <1>3, <1>7, <2>1, <2>2 DEF Search!IsFollower, Search!NoGroup
<1>9. f.header \in BOOLEAN /\ (f.header => f.size >= 40)
  BY <1>2 DEF FileHeaderParses
<1>10. f.codes \in SUBSET Nat
  BY <1>2 DEF IsImage
<1>11. DOMAIN f.groups \subseteq DOMAIN f.heads /\ DOMAIN f.heads \subseteq f.codes
  BY <1>2, <1>3, <1>4
<1>12. \A o \in DOMAIN f.heads :
          /\ o + 48 <= f.size
          /\ f.heads[o].frame \in 0 .. UIntMax - 4096
          /\ f.heads[o].audio \in BOOLEAN
  BY <1>2, <1>3, <1>4
<1>13. \A o \in DOMAIN f.groups :
          /\ Search!IsGroup(f, o)
          /\ Search!IsFollower(f, o)
          /\ f.groups[o].follower \in DOMAIN f.groups \cup {Search!NoGroup}
  BY <1>3, <1>5, <1>8
<1> HIDE DEF whole, heads, codes
<1> QED
  BY <1>2, <1>6, <1>9, <1>10, <1>11, <1>12, <1>13
    DEF Search!IsView, Search!kFileHeaderSize, Search!kGroupHeaderSize, f

-----------------------------------------------------------------------------
(* Where the encoder puts things. *)

(* The offset behind a group that is put at an offset. *)
GroupEnd(spec, offset) == BlockOffset(spec, offset)[Len(spec.block_types) + 1]

LEMMA SpecFields ==
    ASSUME NEW spec \in GroupSpecs
    PROVE  /\ spec.frame_num \in 0 .. UIntMax /\ spec.is_audio \in BOOLEAN
           /\ spec.block_types \in Seq(AudioBlockTypes \cup VideoBlockTypes)
           /\ Len(spec.block_types) \in Nat
           /\ \A i \in Nat \ {0} : ResolveBlockPayloadSize(spec, i) \in Nat
<1>1. /\ spec.frame_num \in 0 .. UIntMax /\ spec.is_audio \in BOOLEAN
      /\ spec.block_types \in Seq(AudioBlockTypes \cup VideoBlockTypes)
      /\ spec.payload_size \in 0 .. UIntMax
      /\ spec.block_payload_sizes \in Seq(0 .. UIntMax)
  BY DEF GroupSpecs
<1>2. Len(spec.block_types) \in Nat
  BY <1>1
<1> DEFINE sizes == spec.block_payload_sizes
<1>3. ASSUME NEW i \in Nat \ {0} PROVE ResolveBlockPayloadSize(spec, i) \in Nat
  <2>1. CASE i <= Len(sizes)
    <3>1. Len(sizes) \in Nat /\ \A j \in 1 .. Len(sizes) : sizes[j] \in 0 .. UIntMax
      <4>1. \A S : \A s \in Seq(S) : Len(s) \in Nat /\ \A j \in 1 .. Len(s) : s[j] \in S
        OBVIOUS
      <4> QED
        BY <1>1, <4>1, Zenon
    <3>2. sizes[i] \in 0 .. UIntMax
      BY <2>1, <3>1
    <3>3. sizes[i] \in Nat
      BY <3>2, FormatAssumption
    <3> QED
      BY <2>1, <3>3 DEF ResolveBlockPayloadSize
  <2>2. CASE ~ (i <= Len(sizes))
    BY <1>1, <2>2, FormatAssumption DEF ResolveBlockPayloadSize
  <2> QED
    BY <2>1, <2>2
<1> QED
  BY <1>1, <1>2, <1>3

(* The blocks of a group are laid out one behind the other. *)
LEMMA BlockOffsetDefined ==
    ASSUME NEW spec \in GroupSpecs, NEW o \in Nat
    PROVE  LET n == Len(spec.block_types)
               at == BlockOffset(spec, o)
           IN  /\ at \in [1 .. n + 1 -> Nat]
               /\ at[1] = o + kGroupHeaderSize
               /\ \A i \in 1 .. n :
                     at[i + 1] = at[i] + kBlockHeaderSize + ResolveBlockPayloadSize(spec, i)
<1> DEFINE n == Len(spec.block_types)
           m == n + 1
           size(i) == ResolveBlockPayloadSize(spec, i)
           step == [i \in Nat |-> [c \in Nat |-> IF i \in 2 .. m THEN c + 20 + size(i - 1) ELSE 0]]
           Def(f) == f = [i \in 1 .. m |-> IF i = 1 THEN o + 48 ELSE f[i - 1] + 20 + size(i - 1)]
<1>1. n \in Nat /\ m \in Nat /\ 1 <= m /\ o + 48 \in Nat /\ 1 \in Nat
  BY SpecFields
<1>2. \A i \in 2 .. m : i \in Nat /\ i - 1 \in 1 .. m /\ i \in 1 .. m /\ i # 1 /\ size(i - 1) \in Nat
  BY SpecFields, <1>1
<1> HIDE DEF n, m, size
<1>3. step \in [Nat -> [Nat -> Nat]]
  BY <1>2
<1>4. \A i \in 2 .. m : \A c \in Nat : step[i][c] = c + 20 + size(i - 1)
  BY <1>2
<1> HIDE DEF step
<1>5. PICK f : Iterates(f, 1, m, Nat, o + 48, step)
  BY <1>1, <1>3, IterationExists
<1>6. /\ f \in [1 .. m -> Nat] /\ f[1] = o + 48
      /\ \A i \in 2 .. m : f[i] = step[i][f[i - 1]]
  BY <1>5 DEF Iterates
<1>7. ASSUME NEW i \in 1 .. m
      PROVE f[i] = IF i = 1 THEN o + 48 ELSE f[i - 1] + 20 + size(i - 1)
  <2>1. CASE i # 1
    <3>1. i \in 2 .. m
      BY <1>1, <2>1
    <3> QED
      BY <3>1, <2>1, <1>2, <1>4, <1>6
  <2> QED
    BY <2>1, <1>6
<1>8. Def(f)
  <2>1. f = [i \in 1 .. m |-> f[i]]
    BY <1>6
  <2> QED
    BY <2>1, <1>7
<1> DEFINE at == CHOOSE g : Def(g)
<1>9. Def(at)
  BY <1>8
<1>10. BlockOffset(spec, o) = at
  BY DEF BlockOffset, n, m, size
<1> HIDE DEF at
<1>11. /\ at[1] = o + 48
       /\ \A i \in 2 .. m : at[i] = at[i - 1] + 20 + size(i - 1)
  <2>1. 1 \in 1 .. m
    BY <1>1
  <2> QED
    BY <1>2, <1>9, <2>1
<1>12. \A i \in 1 .. m : at[i] \in Nat
  <2>1. \A i \in 1 + 1 .. m : at[i - 1] \in Nat => at[i] \in Nat
    <3>1. \A i \in 1 + 1 .. m : i \in 2 .. m
      OBVIOUS
    <3> QED
      BY <1>2, <1>11, <3>1
  <2>2. at[1] \in Nat
    BY <1>1, <1>11
  <2> QED
    BY <1>1, <2>1, <2>2, StaysIn
<1>13. at \in [1 .. m -> Nat]
  BY <1>9, <1>12
<1>14. \A i \in 1 .. n : at[i + 1] = at[i] + 20 + size(i)
  <2> SUFFICES ASSUME NEW i \in 1 .. n PROVE at[i + 1] = at[i] + 20 + size(i)
    OBVIOUS
  <2>1. i + 1 \in 2 .. m /\ (i + 1) - 1 = i
    BY <1>1 DEF m
  <2> QED
    BY <1>11, <2>1
<1> QED
  BY <1>10, <1>11, <1>13, <1>14 DEF m, n, size

(* So no two of them share a byte, and the group ends behind the last.     *)
LEMMA BlocksApart ==
    ASSUME NEW spec \in GroupSpecs, NEW o \in Nat
    PROVE  LET n == Len(spec.block_types)
               at == BlockOffset(spec, o)
           IN  /\ \A i \in 1 .. n + 1 : at[i] \in Nat /\ o + kGroupHeaderSize <= at[i]
               /\ \A i \in 1 .. n + 1 : \A j \in i .. n + 1 : at[i] <= at[j]
               /\ \A i \in 1 .. n : \A j \in i + 1 .. n + 1 : at[i] + kBlockHeaderSize <= at[j]
               /\ GroupEnd(spec, o) = at[n + 1]
<1> DEFINE n == Len(spec.block_types)
           at == BlockOffset(spec, o)
           m == n + 1
<1>1. /\ n \in Nat /\ m \in Nat /\ 1 \in 1 .. m
      /\ at \in [1 .. m -> Nat] /\ at[1] = o + 48
      /\ \A i \in 1 .. n : /\ at[i + 1] = at[i] + 20 + ResolveBlockPayloadSize(spec, i)
                           /\ ResolveBlockPayloadSize(spec, i) \in Nat
  <2>1. \A i \in 1 .. n : i \in Nat \ {0}
    OBVIOUS
  <2>2. n \in Nat /\ \A i \in Nat \ {0} : ResolveBlockPayloadSize(spec, i) \in Nat
    BY SpecFields
  <2>3. /\ at \in [1 .. m -> Nat] /\ at[1] = o + 48
        /\ \A i \in 1 .. n : at[i + 1] = at[i] + 20 + ResolveBlockPayloadSize(spec, i)
    BY BlockOffsetDefined
  <2>4. m \in Nat /\ 1 \in 1 .. m
    BY <2>2
  <2> HIDE DEF m, n, at
  <2> QED
    BY <2>1, <2>2, <2>3, <2>4
<1>2. GroupEnd(spec, o) = at[m]
  BY DEF GroupEnd
<1> HIDE DEF n, at
<1>3. ASSUME NEW i \in 1 .. n PROVE at[i] \in Nat /\ at[i + 1] \in Nat /\ at[i] + 20 <= at[i + 1]
  <2>1. i \in 1 .. m /\ i + 1 \in 1 .. m
    BY <1>1
  <2>2. at[i] \in Nat /\ at[i + 1] \in Nat
    BY <1>1, <2>1
  <2> QED
    BY <1>1, <2>2
<1>4. ASSUME NEW i \in 1 .. m, NEW j \in i .. m PROVE at[i] <= at[j]
  <2> DEFINE T == {x \in Nat : at[i] <= x}
  <2>1. i \in Nat /\ at[i] \in Nat /\ at[i] \in T
    BY <1>1
  <2>2. \A k \in i + 1 .. m : at[k - 1] \in T => at[k] \in T
    <3> SUFFICES ASSUME NEW k \in i + 1 .. m, at[k - 1] \in T PROVE at[k] \in T
      OBVIOUS
    <3>1. k - 1 \in 1 .. n /\ (k - 1) + 1 = k
      BY <1>1
    <3>2. at[k - 1] \in Nat /\ at[k] \in Nat /\ at[k - 1] + 20 <= at[k]
      BY <1>3, <3>1
    <3> QED
      BY <2>1, <3>2
  <2>3. \A k \in i .. m : at[k] \in T
    <3> HIDE DEF T, m
    <3> QED
      BY <1>1, <2>1, <2>2, StaysIn
  <2> QED
    BY <2>3
<1>5. ASSUME NEW i \in 1 .. n, NEW j \in i + 1 .. m PROVE at[i] + 20 <= at[j]
  <2>1. i + 1 \in 1 .. m /\ j \in i + 1 .. m /\ j \in 1 .. m
    BY <1>1
  <2>2. at[i + 1] <= at[j] /\ at[j] \in Nat
    BY <1>1, <1>4, <2>1
  <2> QED
    BY <1>3, <2>2
<1>6. ASSUME NEW i \in 1 .. m PROVE at[i] \in Nat /\ o + 48 <= at[i]
  <2>1. i \in 1 .. m
    BY <1>1
  <2>2. at[1] <= at[i]
    BY <1>1, <1>4, <2>1
  <2> QED
    BY <1>1, <2>2
<1> QED
  BY <1>2, <1>4, <1>5, <1>6 DEF n, at

LEMMA GroupEndBehind ==
    ASSUME NEW spec \in GroupSpecs, NEW o \in Nat
    PROVE  GroupEnd(spec, o) \in Nat /\ o + kGroupHeaderSize <= GroupEnd(spec, o)
<1> DEFINE m == Len(spec.block_types) + 1
           at == BlockOffset(spec, o)
<1>1. m \in 1 .. m
  BY SpecFields
<1>2. /\ \A i \in 1 .. m : at[i] \in Nat /\ o + 48 <= at[i]
      /\ GroupEnd(spec, o) = at[m]
  BY BlocksApart
<1> HIDE DEF m, at
<1> QED
  BY <1>1, <1>2

(* The groups of a file are laid out one behind the other. *)
LEMMA StartsDefined ==
    ASSUME NEW plan \in Seq(GroupSpecs), NEW k \in Nat, k <= Len(plan)
    PROVE  LET S == Starts(plan, k)
           IN  /\ S \in [1 .. k + 1 -> Nat]
               /\ S[1] = kFileHeaderSize
               /\ \A i \in 1 .. k :
                     /\ plan[i] \in GroupSpecs /\ S[i] \in Nat
                     /\ S[i + 1] = GroupEnd(plan[i], S[i])
                     /\ S[i] + kGroupHeaderSize <= S[i + 1]
<1> DEFINE m == k + 1
           step == [i \in Nat |-> [c \in Nat |-> IF i \in 2 .. m THEN GroupEnd(plan[i - 1], c) ELSE 0]]
           Def(f) == f = [i \in 1 .. m |-> IF i = 1 THEN 40 ELSE GroupEnd(plan[i - 1], f[i - 1])]
<1>1. m \in Nat /\ 1 <= m /\ 1 \in Nat /\ 40 \in Nat
  OBVIOUS
<1>2. \A i \in 2 .. m : i \in Nat /\ i \in 1 .. m /\ i # 1 /\ i - 1 \in 1 .. k
  OBVIOUS
<1>3. \A i \in 1 .. k : plan[i] \in GroupSpecs
  <2>1. \A s \in Seq(GroupSpecs) : Len(s) \in Nat /\ \A j \in 1 .. Len(s) : s[j] \in GroupSpecs
    OBVIOUS
  <2>2. \A i \in 1 .. k : i \in 1 .. Len(plan)
    BY <2>1
  <2> QED
    BY <2>1, <2>2
<1> HIDE DEF m
<1>4. \A i \in 2 .. m : \A c \in Nat : GroupEnd(plan[i - 1], c) \in Nat
  BY <1>2, <1>3, GroupEndBehind
<1>5. step \in [Nat -> [Nat -> Nat]]
  BY <1>4
<1>6. \A i \in 2 .. m : \A c \in Nat : step[i][c] = GroupEnd(plan[i - 1], c)
  BY <1>2
<1> HIDE DEF step
<1>7. PICK f : Iterates(f, 1, m, Nat, 40, step)
  BY <1>1, <1>5, IterationExists
<1>8. /\ f \in [1 .. m -> Nat] /\ f[1] = 40
      /\ \A i \in 2 .. m : f[i] = step[i][f[i - 1]]
  BY <1>7 DEF Iterates
<1>9. ASSUME NEW i \in 1 .. m
      PROVE f[i] = IF i = 1 THEN 40 ELSE GroupEnd(plan[i - 1], f[i - 1])
  <2>1. CASE i # 1
    <3>1. i \in 2 .. m /\ i - 1 \in 1 .. m
      BY <1>1, <2>1
    <3> QED
      BY <3>1, <2>1, <1>6, <1>8
  <2> QED
    BY <2>1, <1>8
<1>10. Def(f)
  <2>1. f = [i \in 1 .. m |-> f[i]]
    BY <1>8
  <2> QED
    BY <2>1, <1>9
<1> DEFINE S == CHOOSE g : Def(g)
<1>11. Def(S)
  BY <1>10
<1>12. Starts(plan, k) = S
  BY DEF Starts, m, GroupEnd
<1> HIDE DEF S
<1>13. /\ S[1] = 40
       /\ \A i \in 2 .. m : S[i] = GroupEnd(plan[i - 1], S[i - 1])
  <2>1. 1 \in 1 .. m
    BY <1>1
  <2> QED
    BY <1>2, <1>11, <2>1
<1>14. \A i \in 1 .. m : S[i] \in Nat
  <2>1. \A i \in 1 + 1 .. m : S[i - 1] \in Nat => S[i] \in Nat
    <3>1. \A i \in 1 + 1 .. m : i \in 2 .. m
      OBVIOUS
    <3> QED
      BY <1>4, <1>13, <3>1
  <2>2. S[1] \in Nat
    BY <1>13
  <2> QED
    BY <1>1, <2>1, <2>2, StaysIn
<1>15. S \in [1 .. m -> Nat]
  BY <1>11, <1>14
<1>16. ASSUME NEW i \in 1 .. k
       PROVE /\ S[i + 1] = GroupEnd(plan[i], S[i]) /\ S[i] \in Nat
             /\ S[i] + 48 <= S[i + 1]
  <2>1. i + 1 \in 2 .. m /\ (i + 1) - 1 = i /\ i \in 1 .. m
    BY <1>1 DEF m
  <2>2. S[i + 1] = GroupEnd(plan[i], S[i]) /\ S[i] \in Nat
    BY <1>13, <1>14, <2>1
  <2> QED
    BY <1>3, <2>2, GroupEndBehind
<1> QED
  BY <1>3, <1>12, <1>13, <1>15, <1>16 DEF m

LEMMA StartsApart ==
    ASSUME NEW plan \in Seq(GroupSpecs), NEW k \in Nat, k <= Len(plan)
    PROVE  LET S == Starts(plan, k)
           IN  /\ \A i \in 1 .. k + 1 : \A j \in i .. k + 1 : S[i] <= S[j]
               /\ \A i \in 1 .. k : \A j \in i + 1 .. k + 1 : S[i] + kGroupHeaderSize <= S[j]
<1> DEFINE S == Starts(plan, k)
           m == k + 1
<1>1. /\ m \in Nat /\ S \in [1 .. m -> Nat]
      /\ \A i \in 1 .. k : S[i] \in Nat /\ S[i] + 48 <= S[i + 1]
  <2>1. m \in Nat
    OBVIOUS
  <2> QED
    BY <2>1, StartsDefined
<1> HIDE DEF S
<1>2. ASSUME NEW i \in 1 .. m, NEW j \in i .. m PROVE S[i] <= S[j]
  <2> DEFINE T == {x \in Nat : S[i] <= x}
  <2>1. i \in Nat /\ S[i] \in Nat /\ S[i] \in T
    BY <1>1
  <2>2. \A n \in i + 1 .. m : S[n - 1] \in T => S[n] \in T
    <3> SUFFICES ASSUME NEW n \in i + 1 .. m, S[n - 1] \in T PROVE S[n] \in T
      OBVIOUS
    <3>1. n - 1 \in 1 .. k /\ (n - 1) + 1 = n /\ n \in 1 .. m
      BY <1>1
    <3>2. S[n - 1] \in Nat /\ S[n] \in Nat /\ S[n - 1] + 48 <= S[n]
      BY <1>1, <3>1
    <3> QED
      BY <2>1, <3>2
  <2>3. \A n \in i .. m : S[n] \in T
    <3> HIDE DEF T, m
    <3> QED
      BY <1>1, <2>1, <2>2, StaysIn
  <2> QED
    BY <2>3
<1>3. ASSUME NEW i \in 1 .. k, NEW j \in i + 1 .. m PROVE S[i] + 48 <= S[j]
  <2>1. i + 1 \in 1 .. m /\ j \in i + 1 .. m /\ j \in 1 .. m
    BY <1>1
  <2>2. S[i + 1] <= S[j] /\ S[j] \in Nat /\ S[i + 1] \in Nat
    BY <1>1, <1>2, <2>1
  <2> QED
    BY <1>1, <2>2
<1> QED
  BY <1>2, <1>3 DEF S

(* One group more leaves the others where they are. *)
LEMMA StartsExtend ==
    ASSUME NEW plan \in Seq(GroupSpecs), NEW k \in Nat, k + 1 <= Len(plan)
    PROVE  /\ \A i \in 1 .. k + 1 : Starts(plan, k + 1)[i] = Starts(plan, k)[i]
           /\ Starts(plan, k + 1)[k + 2] = GroupEnd(plan[k + 1], Starts(plan, k)[k + 1])
<1> DEFINE S == Starts(plan, k)
           R == Starts(plan, k + 1)
           h == [i \in 1 .. k + 1 |-> IF R[i] = S[i] THEN 0 ELSE 1]
           Same == {0}
<1>1. Len(plan) \in Nat /\ k + 1 \in Nat /\ k <= Len(plan) /\ (k + 1) + 1 = k + 2
  OBVIOUS
<1>2. /\ S[1] = 40
      /\ \A i \in 1 .. k : S[i + 1] = GroupEnd(plan[i], S[i])
  BY <1>1, StartsDefined
<1>3. /\ R[1] = 40
      /\ \A i \in 1 .. k + 1 : R[i + 1] = GroupEnd(plan[i], R[i])
  BY <1>1, StartsDefined
<1> HIDE DEF S, R
<1>4. 1 \in 1 .. k + 1 /\ h[1] \in Same /\ 1 \in Nat
  BY <1>1, <1>2, <1>3
<1>5. \A i \in 1 + 1 .. k + 1 : h[i - 1] \in Same => h[i] \in Same
  <2> SUFFICES ASSUME NEW i \in 1 + 1 .. k + 1, h[i - 1] \in Same PROVE h[i] \in Same
    OBVIOUS
  <2>1. i - 1 \in 1 .. k /\ i - 1 \in 1 .. k + 1 /\ i \in 1 .. k + 1 /\ (i - 1) + 1 = i
    OBVIOUS
  <2> QED
    BY <1>2, <1>3, <2>1
<1>6. \A i \in 1 .. k + 1 : h[i] \in Same
  <2> HIDE DEF h, Same
  <2> QED
    BY <1>1, <1>4, <1>5, StaysIn
<1>7. \A i \in 1 .. k + 1 : R[i] = S[i]
  BY <1>6
<1>8. k + 1 \in 1 .. k + 1
  OBVIOUS
<1>9. R[k + 2] = GroupEnd(plan[k + 1], S[k + 1])
  BY <1>1, <1>3, <1>7, <1>8
<1> QED
  BY <1>7, <1>9 DEF S, R

-----------------------------------------------------------------------------
(* What the encoder writes. *)

(* A file image has four fields. *)
HasFields(image) ==
    image = [size |-> image.size, start_code |-> image.start_code,
             group |-> image.group, block |-> image.block]

(* What AppendGroup adds to an image, and that it leaves the rest alone.   *)
LEMMA AppendedGroup ==
    ASSUME NEW image, HasFields(image), image.size \in Nat,
           \A q \in DOMAIN image.group : q \in Nat /\ q < image.size,
           \A q \in DOMAIN image.block : q \in Nat /\ q < image.size,
           NEW spec \in GroupSpecs
    PROVE  LET o    == image.size
               n    == Len(spec.block_types)
               at   == BlockOffset(spec, o)
               bare == BareCodeOffsets(spec, o)
               new  == AppendGroup(image, spec)
           IN  /\ HasFields(new)
               /\ new.size = GroupEnd(spec, o) /\ new.start_code = image.start_code
               /\ DOMAIN new.group = DOMAIN image.group \cup bare \cup {o}
               /\ new.group[o] = EncodedHeader(spec)
               /\ \A q \in bare : /\ q \in Nat /\ o < q /\ q < GroupEnd(spec, o)
                                  /\ new.group[q] = BareStartCode
               /\ \A q \in DOMAIN image.group : new.group[q] = image.group[q]
               /\ DOMAIN new.block = DOMAIN image.block \cup {at[i] : i \in 1 .. n}
               /\ \A q \in DOMAIN image.block : new.block[q] = image.block[q]
               /\ \A i \in 1 .. n : /\ at[i] \in Nat /\ at[i] < GroupEnd(spec, o)
                                    /\ new.block[at[i]].type = spec.block_types[i]
                                    /\ new.block[at[i]].size = ResolveBlockPayloadSize(spec, i)
<1> DEFINE o    == image.size
           n    == Len(spec.block_types)
           at   == BlockOffset(spec, o)
           bare == BareCodeOffsets(spec, o)
           new  == AppendGroup(image, spec)
           heads == [q \in DOMAIN image.group \cup bare \cup {o} |->
                        IF q = o THEN EncodedHeader(spec)
                        ELSE IF q \in bare THEN BareStartCode ELSE image.group[q]]
           indexOf(q) == CHOOSE j \in 1 .. n : at[j] = q
           blocks == [q \in DOMAIN image.block \cup {at[i] : i \in 1 .. n} |->
                        IF q \in DOMAIN image.block THEN image.block[q]
                        ELSE [type |-> spec.block_types[indexOf(q)],
                              size |-> ResolveBlockPayloadSize(spec, indexOf(q))]]
           rec == [size |-> at[n + 1], start_code |-> image.start_code,
                   group |-> heads, block |-> blocks]
<1>1. /\ n \in Nat /\ o \in Nat
      /\ \A i \in 1 .. n + 1 : at[i] \in Nat /\ o + 48 <= at[i]
      /\ \A i \in 1 .. n : \A j \in i + 1 .. n + 1 : at[i] + 20 <= at[j]
      /\ GroupEnd(spec, o) = at[n + 1]
  BY SpecFields, BlocksApart
<1>2. new = rec
  <2> DEFINE S == image.size
             C == image.start_code
             G == image.group
             B == image.block
             with(size, group, block) ==
                 [[[[size |-> S, start_code |-> C, group |-> G, block |-> B]
                    EXCEPT !.size = size] EXCEPT !.group = group] EXCEPT !.block = block]
  <2>1. image = [size |-> S, start_code |-> C, group |-> G, block |-> B]
    BY DEF HasFields
  <2>2. new = [image EXCEPT !.size = at[n + 1], !.group = heads, !.block = blocks]
    BY DEF AppendGroup
  <2> HIDE DEF heads, blocks, at, n, S, C, G, B, new
  <2>3. new = [size |-> at[n + 1], start_code |-> C, group |-> heads, block |-> blocks]
    BY <2>1, <2>2
  <2> QED
    BY <2>3 DEF C
<1>3. /\ HasFields(new) /\ new.size = at[n + 1] /\ new.start_code = image.start_code
      /\ new.group = heads /\ new.block = blocks
  <2> HIDE DEF heads, blocks, at, n, new
  <2> QED
    BY <1>2 DEF HasFields
<1> HIDE DEF at, n, new, o
<1>4. ASSUME NEW q \in bare PROVE q \in Nat /\ o < q /\ q < at[n + 1]
  <2>1. \/ \E k \in 0 .. 3 : q = o + 4 + k
        \/ \E i \in 1 .. n : q = at[i] + 2 \/ q = at[i] + 16 \/ q = at[i] + 17
    BY DEF BareCodeOffsets, at, n, o
  <2> HIDE DEF bare
  <2>2. n + 1 \in 1 .. n + 1
    BY <1>1
  <2>3. at[n + 1] \in Nat /\ o + 48 <= at[n + 1]
    BY <1>1, <2>2
  <2>4. ASSUME NEW k \in 0 .. 3, q = o + 4 + k PROVE q \in Nat /\ o < q /\ q < at[n + 1]
    BY <1>1, <2>3, <2>4
  <2>5. ASSUME NEW i \in 1 .. n, q = at[i] + 2 \/ q = at[i] + 16 \/ q = at[i] + 17
        PROVE  q \in Nat /\ o < q /\ q < at[n + 1]
    <3>1. i \in 1 .. n + 1 /\ n + 1 \in i + 1 .. n + 1
      BY <1>1
    <3>2. at[i] \in Nat /\ o + 48 <= at[i] /\ at[i] + 20 <= at[n + 1]
      BY <1>1, <3>1
    <3> QED
      BY <1>1, <2>3, <2>5, <3>2
  <2> QED
    BY <2>1, <2>4, <2>5
<1> HIDE DEF bare
<1>5. /\ DOMAIN heads = DOMAIN image.group \cup bare \cup {o}
      /\ heads[o] = EncodedHeader(spec)
  OBVIOUS
<1>6. \A q \in bare : heads[q] = BareStartCode
  <2> SUFFICES ASSUME NEW q \in bare PROVE heads[q] = BareStartCode
    OBVIOUS
  <2>1. q # o
    BY <1>1, <1>4
  <2> QED
    BY <2>1
<1>7. \A q \in DOMAIN image.group : heads[q] = image.group[q]
  <2> SUFFICES ASSUME NEW q \in DOMAIN image.group PROVE heads[q] = image.group[q]
    OBVIOUS
  <2>1. q \in Nat /\ q < o
    BY DEF o
  <2>2. q # o /\ q \notin bare
    BY <1>1, <1>4, <2>1
  <2> QED
    BY <2>2
<1>8. /\ DOMAIN blocks = DOMAIN image.block \cup {at[i] : i \in 1 .. n}
      /\ \A q \in DOMAIN image.block : blocks[q] = image.block[q]
  OBVIOUS
<1>9. ASSUME NEW i \in 1 .. n
      PROVE  /\ at[i] \in Nat /\ at[i] < at[n + 1]
             /\ blocks[at[i]].type = spec.block_types[i]
             /\ blocks[at[i]].size = ResolveBlockPayloadSize(spec, i)
  <2>1. i \in 1 .. n + 1 /\ n + 1 \in i + 1 .. n + 1 /\ n + 1 \in 1 .. n + 1
    BY <1>1
  <2>2. at[i] \in Nat /\ at[n + 1] \in Nat /\ o < at[i] /\ at[i] < at[n + 1]
    <3>1. /\ at[i] \in Nat /\ at[n + 1] \in Nat /\ o + 48 <= at[i]
          /\ at[i] + 20 <= at[n + 1]
      BY <1>1, <2>1
    <3> QED
      BY <1>1, <3>1
  <2>3. at[i] \notin DOMAIN image.block
    <3>1. \A q \in DOMAIN image.block : q \in Nat /\ q < o
      BY DEF o
    <3> QED
      BY <1>1, <2>2, <3>1
  <2>4. ASSUME NEW j \in 1 .. n, at[j] = at[i] PROVE j = i
    <3>1. ASSUME NEW a \in 1 .. n, NEW b \in 1 .. n, a < b PROVE at[a] # at[b]
      <4>1. b \in a + 1 .. n + 1 /\ a \in 1 .. n + 1 /\ b \in 1 .. n + 1
        BY <1>1, <3>1
      <4>2. at[a] + 20 <= at[b] /\ at[a] \in Nat /\ at[b] \in Nat
        BY <1>1, <4>1
      <4> QED
        BY <4>2
    <3>2. i < j \/ j < i \/ i = j
      OBVIOUS
    <3> QED
      BY <2>4, <3>1, <3>2
  <2>5. indexOf(at[i]) = i
    <3>1. \E j \in 1 .. n : at[j] = at[i]
      OBVIOUS
    <3>2. indexOf(at[i]) \in 1 .. n /\ at[indexOf(at[i])] = at[i]
      BY <3>1
    <3> HIDE DEF indexOf
    <3> QED
      BY <2>4, <3>2
  <2> HIDE DEF indexOf
  <2>6. blocks[at[i]] = [type |-> spec.block_types[i], size |-> ResolveBlockPayloadSize(spec, i)]
    BY <2>3, <2>5
  <2> HIDE DEF blocks
  <2> QED
    BY <2>2, <2>6
<1> HIDE DEF heads, blocks
<1>10. GroupEnd(spec, o) = at[n + 1]
  BY <1>1
<1> QED
  BY <1>3, <1>4, <1>5, <1>6, <1>7, <1>8, <1>9, <1>10 DEF at, n, new, o, bare

(* The first k groups of a plan are in the file, one behind the other, and *)
(* whatever else looks like a start code is the inside of a header.        *)
Laid(image, plan, k) ==
    LET S == Starts(plan, k)
    IN  /\ HasFields(image)
        /\ image.size = S[k + 1] /\ image.start_code = "HKH4"
        /\ \A q \in DOMAIN image.group :
              /\ q \in Nat /\ q < image.size
              /\ image.group[q] = BareStartCode \/ \E i \in 1 .. k : q = S[i]
        /\ \A q \in DOMAIN image.block :
              q \in Nat /\ q < image.size /\ image.block[q].size \in Nat
        /\ \A i \in 1 .. k :
              LET n  == Len(plan[i].block_types)
                  at == BlockOffset(plan[i], S[i])
              IN  /\ n > 0
                  /\ S[i] \in DOMAIN image.group
                  /\ image.group[S[i]] = EncodedHeader(plan[i])
                  /\ \A j \in 1 .. n :
                        /\ at[j] \in DOMAIN image.block
                        /\ image.block[at[j]].type = plan[i].block_types[j]
                        /\ image.block[at[j]].size = ResolveBlockPayloadSize(plan[i], j)

LEMMA LaidNothing ==
    ASSUME NEW plan \in Seq(GroupSpecs)
    PROVE  Laid(AppendFileHeader, plan, 0)
<1> DEFINE image == AppendFileHeader
           Empty == << >>
<1>1. DOMAIN Empty = {}
  OBVIOUS
<1>2. image = [size |-> 40, start_code |-> "HKH4", group |-> Empty, block |-> Empty]
  BY DEF AppendFileHeader
<1> HIDE DEF image, Empty
<1>3. /\ image.size = 40 /\ image.start_code = "HKH4" /\ image.group = Empty
      /\ image.block = Empty
  BY <1>2
<1>4. HasFields(image)
  BY <1>2, <1>3 DEF HasFields
<1>5. Starts(plan, 0)[0 + 1] = 40
  <2>1. 0 <= Len(plan) /\ 0 \in Nat
    OBVIOUS
  <2>2. Starts(plan, 0)[1] = 40
    BY <2>1, StartsDefined
  <2> QED
    BY <2>2
<1>6. 1 .. 0 = {}
  OBVIOUS
<1> QED
  BY <1>1, <1>3, <1>4, <1>5, <1>6 DEF Laid, image

LEMMA LaidMore ==
    ASSUME NEW plan \in Seq(GroupSpecs), NEW k \in Nat, k + 1 <= Len(plan),
           NEW image, Laid(image, plan, k), Len(plan[k + 1].block_types) > 0
    PROVE  Laid(AppendGroup(image, plan[k + 1]), plan, k + 1)
<1> DEFINE S    == Starts(plan, k)
           R    == Starts(plan, k + 1)
           spec == plan[k + 1]
           o    == image.size
           new  == AppendGroup(image, spec)
<1>1. /\ k + 1 \in 1 .. k + 1 /\ k <= Len(plan) /\ k + 1 \in Nat
      /\ (k + 1) + 1 = k + 2
      /\ \A i \in 1 .. k : i \in 1 .. k + 1
      /\ \A i \in 1 .. k + 1 : i \in 1 .. k \/ i = k + 1
  OBVIOUS
<1>2. /\ \A i \in 1 .. k + 1 : S[i] \in Nat
      /\ \A i \in 1 .. k + 1 : S[i] <= S[k + 1]
  <2>1. S \in [1 .. k + 1 -> Nat]
    BY <1>1, StartsDefined
  <2>2. \A i \in 1 .. k + 1 : k + 1 \in i .. k + 1
    BY <1>1
  <2>3. \A i \in 1 .. k + 1 : \A j \in i .. k + 1 : S[i] <= S[j]
    BY <1>1, StartsApart
  <2> HIDE DEF S
  <2> QED
    BY <1>1, <2>1, <2>2, <2>3
<1>3. /\ \A i \in 1 .. k + 1 : R[i] = S[i]
      /\ R[k + 2] = GroupEnd(spec, S[k + 1])
  BY StartsExtend
<1>4. spec \in GroupSpecs
  <2>1. \A i \in 1 .. k + 1 : plan[i] \in GroupSpecs
    BY <1>1, StartsDefined
  <2> QED
    BY <1>1, <2>1
<1>5. /\ HasFields(image)
      /\ o = S[k + 1] /\ image.start_code = "HKH4"
      /\ \A q \in DOMAIN image.group :
            /\ q \in Nat /\ q < o
            /\ image.group[q] = BareStartCode \/ \E i \in 1 .. k : q = S[i]
      /\ \A q \in DOMAIN image.block : q \in Nat /\ q < o /\ image.block[q].size \in Nat
  BY DEF Laid
<1>6. \A i \in 1 .. k :
         /\ Len(plan[i].block_types) > 0
         /\ S[i] \in DOMAIN image.group
         /\ image.group[S[i]] = EncodedHeader(plan[i])
         /\ \A j \in 1 .. Len(plan[i].block_types) :
              /\ BlockOffset(plan[i], S[i])[j] \in DOMAIN image.block
              /\ image.block[BlockOffset(plan[i], S[i])[j]].type = plan[i].block_types[j]
              /\ image.block[BlockOffset(plan[i], S[i])[j]].size = ResolveBlockPayloadSize(plan[i], j)
  BY DEF Laid
<1> DEFINE n    == Len(spec.block_types)
           at   == BlockOffset(spec, o)
           bare == BareCodeOffsets(spec, o)
<1>7. o \in Nat
  BY <1>1, <1>2, <1>5
<1>8. /\ HasFields(new)
      /\ new.size = GroupEnd(spec, o) /\ new.start_code = image.start_code
      /\ DOMAIN new.group = DOMAIN image.group \cup bare \cup {o}
      /\ new.group[o] = EncodedHeader(spec)
      /\ \A q \in bare : /\ q \in Nat /\ o < q /\ q < GroupEnd(spec, o)
                         /\ new.group[q] = BareStartCode
      /\ \A q \in DOMAIN image.group : new.group[q] = image.group[q]
      /\ DOMAIN new.block = DOMAIN image.block \cup {at[i] : i \in 1 .. n}
      /\ \A q \in DOMAIN image.block : new.block[q] = image.block[q]
      /\ \A i \in 1 .. n : /\ at[i] \in Nat /\ at[i] < GroupEnd(spec, o)
                           /\ new.block[at[i]].type = spec.block_types[i]
                           /\ new.block[at[i]].size = ResolveBlockPayloadSize(spec, i)
                           /\ ResolveBlockPayloadSize(spec, i) \in Nat
  <2> HIDE DEF o, spec
  <2>1. image.size \in Nat
    BY <1>7 DEF o
  <2>2. /\ \A q \in DOMAIN image.group : q \in Nat /\ q < image.size
        /\ \A q \in DOMAIN image.block : q \in Nat /\ q < image.size
    BY <1>5 DEF o
  <2>3. \A i \in 1 .. n : ResolveBlockPayloadSize(spec, i) \in Nat
    <3>1. \A i \in 1 .. n : i \in Nat \ {0}
      OBVIOUS
    <3> QED
      BY <1>4, <3>1, SpecFields
  <2> QED
    BY <1>4, <1>5, <2>1, <2>2, <2>3, AppendedGroup DEF o
<1>9. GroupEnd(spec, o) \in Nat /\ o < GroupEnd(spec, o)
  <2>1. GroupEnd(spec, o) \in Nat /\ o + 48 <= GroupEnd(spec, o)
    BY <1>4, <1>7, GroupEndBehind
  <2> QED
    BY <1>7, <2>1
<1> HIDE DEF S, R, o, new, n, at, bare
<1>10. new.size = R[(k + 1) + 1]
  BY <1>1, <1>3, <1>5, <1>8
<1>11. ASSUME NEW q \in DOMAIN new.group
       PROVE  /\ q \in Nat /\ q < new.size
              /\ new.group[q] = BareStartCode \/ \E i \in 1 .. k + 1 : q = R[i]
  <2>1. CASE q \in DOMAIN image.group
    <3>1. q \in Nat /\ q < new.size
      BY <1>5, <1>7, <1>8, <1>9, <2>1
    <3>2. image.group[q] = BareStartCode \/ \E i \in 1 .. k + 1 : q = R[i]
      BY <1>1, <1>3, <1>5, <2>1
    <3> QED
      BY <1>8, <2>1, <3>1, <3>2
  <2>2. CASE q \in bare
    BY <1>8, <2>2
  <2>3. CASE q = o
    BY <1>1, <1>3, <1>5, <1>7, <1>8, <1>9, <2>3
  <2> QED
    BY <1>8, <2>1, <2>2, <2>3
<1>12. ASSUME NEW q \in DOMAIN new.block
       PROVE  q \in Nat /\ q < new.size /\ new.block[q].size \in Nat
  <2>1. CASE q \in DOMAIN image.block
    BY <1>5, <1>7, <1>8, <1>9, <2>1
  <2>2. CASE q \in {at[i] : i \in 1 .. n}
    BY <1>8, <2>2
  <2> QED
    BY <1>8, <2>1, <2>2
<1>13. ASSUME NEW i \in 1 .. k + 1
       PROVE  /\ Len(plan[i].block_types) > 0
              /\ R[i] \in DOMAIN new.group
              /\ new.group[R[i]] = EncodedHeader(plan[i])
              /\ \A j \in 1 .. Len(plan[i].block_types) :
                   /\ BlockOffset(plan[i], R[i])[j] \in DOMAIN new.block
                   /\ new.block[BlockOffset(plan[i], R[i])[j]].type = plan[i].block_types[j]
                   /\ new.block[BlockOffset(plan[i], R[i])[j]].size = ResolveBlockPayloadSize(plan[i], j)
  <2>1. CASE i \in 1 .. k
    <3>1. R[i] = S[i]
      BY <1>3, <1>1, <2>1
    <3> QED
      BY <1>6, <1>8, <2>1, <3>1
  <2>2. CASE i = k + 1
    <3>1. R[i] = o /\ plan[i] = spec
      BY <1>1, <1>3, <1>5, <2>2
    <3> HIDE DEF spec
    <3> QED
      BY <1>8, <3>1 DEF n, at, spec
  <2> QED
    BY <1>1, <2>1, <2>2
<1>14. new.start_code = "HKH4" /\ HasFields(new)
  BY <1>5, <1>8
<1> HIDE DEF spec
<1>15. Laid(new, plan, k + 1)
  BY <1>10, <1>11, <1>12, <1>13, <1>14 DEF Laid, R
<1> QED
  BY <1>15 DEF new, spec

-----------------------------------------------------------------------------
(* What the parsers read, also when the file is cut.                       *)

(* The header word of a frame number, which may have wrapped around. *)
LEMMA WrappedWord ==
    ASSUME NEW f \in 0 .. UIntMax
    PROVE  /\ HeaderWord(f) \in 0 .. UIntMax
           /\ kConstNumberBase + f <= UIntMax => HeaderWord(f) = kConstNumberBase + f
           /\ kConstNumberBase + f > UIntMax => HeaderWord(f) < kConstNumberBase
<1> DEFINE a == 4096 + f
           N == UIntMax + 1
           w == a % N
           d == a \div N
<1>1. /\ UIntMax \in Nat /\ 4096 < UIntMax
      /\ N \in Nat /\ N > 0 /\ a \in Nat /\ a < 2 * N /\ N = UIntMax + 1 /\ a = 4096 + f
      /\ f \in Nat /\ f <= UIntMax
  BY FormatAssumption
<1> HIDE DEF a, N
<1>2. w \in 0 .. N - 1 /\ d \in Nat /\ a = N * d + w
  BY <1>1
<1> HIDE DEF w, d
<1>3. d < 2
  <2>1. SUFFICES ASSUME d >= 2 PROVE FALSE
    BY <1>2
  <2>2. N * d >= 2 * N
    BY <1>1, <1>2, <2>1
  <2> QED
    BY <1>1, <1>2, <2>2
<1>4. HeaderWord(f) = w
  BY DEF HeaderWord, w, a, N
<1>5. CASE d = 0
  <2>1. w = a
    BY <1>1, <1>2, <1>5
  <2> QED
    BY <1>1, <1>2, <1>4, <2>1
<1>6. CASE d = 1
  <2>1. w = a - N
    BY <1>1, <1>2, <1>6
  <2> QED
    BY <1>1, <1>2, <1>4, <2>1
<1> QED
  BY <1>2, <1>3, <1>5, <1>6

LEMMA CutImage ==
    ASSUME NEW plan \in Seq(GroupSpecs), NEW k \in Nat, k <= Len(plan),
           NEW image, Laid(image, plan, k), NEW m \in Nat
    PROVE  LET cut == Truncated(image, m)
           IN  /\ HasFields(cut)
               /\ cut.size = m /\ cut.start_code = image.start_code
               /\ cut.group = image.group /\ cut.block = image.block
               /\ IsImage(cut)
<1> DEFINE cut == Truncated(image, m)
           S == Starts(plan, k)
           C == image.start_code
           G == image.group
           B == image.block
<1>1. cut = [size |-> m, start_code |-> C, group |-> G, block |-> B]
  <2> DEFINE Z == image.size
  <2>1. image = [size |-> Z, start_code |-> C, group |-> G, block |-> B]
    BY DEF Laid, HasFields
  <2>2. cut = [image EXCEPT !.size = m]
    BY DEF Truncated
  <2> HIDE DEF C, G, B, Z, cut
  <2> QED
    BY <2>1, <2>2
<1>2. /\ HasFields(cut) /\ cut.size = m /\ cut.start_code = C
      /\ cut.group = G /\ cut.block = B
  <2> HIDE DEF C, G, B, cut
  <2> QED
    BY <1>1 DEF HasFields
<1>3. ASSUME NEW q \in DOMAIN G
      PROVE  q \in Nat /\ G[q].frame_num \in 0 .. UIntMax /\ G[q].block_number \in Nat
  <2>1. q \in Nat
    BY DEF Laid
  <2>2. CASE G[q] = BareStartCode
    BY <2>1, <2>2, FormatAssumption DEF BareStartCode
  <2>3. CASE G[q] # BareStartCode
    <3>1. PICK i \in 1 .. k : q = S[i]
      BY <2>3 DEF Laid
    <3>2. G[q] = EncodedHeader(plan[i])
      BY <3>1 DEF Laid
    <3>3. plan[i] \in GroupSpecs
      BY StartsDefined
    <3>4. plan[i].frame_num \in 0 .. UIntMax /\ Len(plan[i].block_types) \in Nat
      BY <3>3, SpecFields
    <3>5. /\ G[q].frame_num = HeaderWord(plan[i].frame_num)
          /\ G[q].block_number = 4096 + Len(plan[i].block_types)
      BY <3>2 DEF EncodedHeader
    <3>6. HeaderWord(plan[i].frame_num) \in 0 .. UIntMax
      BY <3>4, WrappedWord
    <3> QED
      BY <2>1, <3>4, <3>5, <3>6
  <2> QED
    BY <2>2, <2>3
<1>4. ASSUME NEW q \in DOMAIN B PROVE q \in Nat /\ B[q].size \in Nat
  BY DEF Laid
<1> QED
  BY <1>2, <1>3, <1>4 DEF IsImage

(* A group header is read where a group starts, if it is whole and its     *)
(* frame number did not wrap around, and nowhere else.                     *)
LEMMA HeadersOfCut ==
    ASSUME NEW plan \in Seq(GroupSpecs), NEW k \in Nat, k <= Len(plan),
           NEW image, Laid(image, plan, k), NEW m \in Nat
    PROVE  LET cut == Truncated(image, m)
               S == Starts(plan, k)
               Fits(i) == kConstNumberBase + plan[i].frame_num <= UIntMax
           IN  /\ \A q : GroupHeaderParses(cut, q) =>
                     \E i \in 1 .. k : q = S[i] /\ Fits(i) /\ S[i] + kGroupHeaderSize <= m
               /\ \A i \in 1 .. k :
                     /\ Fits(i) /\ S[i] + kGroupHeaderSize <= m => GroupHeaderParses(cut, S[i])
                     /\ Fits(i) => GroupHeader(cut, S[i]).frame = plan[i].frame_num
                     /\ GroupHeader(cut, S[i]).audio = plan[i].is_audio
                     /\ GroupHeader(cut, S[i]).block_count = Len(plan[i].block_types)
<1> DEFINE cut == Truncated(image, m)
           S == Starts(plan, k)
           Fits(i) == 4096 + plan[i].frame_num <= UIntMax
<1>1. cut.size = m /\ cut.group = image.group /\ IsImage(cut)
  BY CutImage
<1> HIDE DEF cut
<1>2. UIntMax \in Nat
  BY FormatAssumption
<1>3. ASSUME NEW i \in 1 .. k
      PROVE  LET raw == cut.group[S[i]]
             IN  /\ S[i] \in DOMAIN cut.group /\ S[i] \in Nat
                 /\ raw.start_code = kGroupStartCode
                 /\ Fits(i) => raw.frame_num = 4096 + plan[i].frame_num
                 /\ raw.frame_num >= 4096 => Fits(i)
                 /\ raw.is_audio # 4096 <=> plan[i].is_audio
                 /\ raw.block_number = 4096 + Len(plan[i].block_types)
                 /\ raw.block_number >= 4097
                 /\ raw.picture_mode = 4097 /\ raw.frame_rate = 25
                 /\ plan[i].frame_num \in Nat /\ plan[i].is_audio \in BOOLEAN
                 /\ Len(plan[i].block_types) \in Nat
  <2> DEFINE raw == cut.group[S[i]]
             spec == plan[i]
             n == Len(spec.block_types)
  <2>1. S[i] \in DOMAIN cut.group /\ raw = EncodedHeader(spec) /\ n > 0
    BY <1>1 DEF Laid
  <2>2. spec \in GroupSpecs /\ S[i] \in Nat
    BY StartsDefined
  <2>3. spec.frame_num \in 0 .. UIntMax /\ spec.is_audio \in BOOLEAN /\ n \in Nat
    BY <2>2, SpecFields
  <2>4. /\ raw.start_code = kGroupStartCode /\ raw.frame_num = HeaderWord(spec.frame_num)
        /\ raw.is_audio = 4096 + (IF spec.is_audio THEN 1 ELSE 0)
        /\ raw.block_number = 4096 + n
        /\ raw.picture_mode = 4097 /\ raw.frame_rate = 25
    BY <2>1 DEF EncodedHeader
  <2>5. /\ HeaderWord(spec.frame_num) \in 0 .. UIntMax
        /\ 4096 + spec.frame_num <= UIntMax => HeaderWord(spec.frame_num) = 4096 + spec.frame_num
        /\ 4096 + spec.frame_num > UIntMax => HeaderWord(spec.frame_num) < 4096
    BY <2>3, WrappedWord
  <2> HIDE DEF raw, spec, n
  <2>6. raw.is_audio # 4096 <=> spec.is_audio
    <3>1. CASE spec.is_audio
      BY <2>4, <3>1
    <3>2. CASE ~ spec.is_audio
      BY <2>4, <3>2
    <3> QED
      BY <3>1, <3>2
  <2>7. /\ 4096 + spec.frame_num <= UIntMax => raw.frame_num = 4096 + spec.frame_num
        /\ raw.frame_num >= 4096 => 4096 + spec.frame_num <= UIntMax
        /\ raw.block_number >= 4097 /\ spec.frame_num \in Nat
    BY <1>2, <2>1, <2>3, <2>4, <2>5
  <2> QED
    BY <2>1, <2>2, <2>3, <2>4, <2>6, <2>7 DEF raw, spec, n
<1>4. ASSUME NEW q, GroupHeaderParses(cut, q)
      PROVE  \E i \in 1 .. k : q = S[i] /\ Fits(i) /\ S[i] + 48 <= m
  <2>1. /\ q \in DOMAIN image.group /\ m - q >= 48
        /\ image.group[q].frame_num >= 4096
    BY <1>1, <1>4 DEF GroupHeaderParses, ValidGroupHeader
  <2>2. image.group[q] # BareStartCode
    <3>1. SUFFICES ASSUME image.group[q] = BareStartCode PROVE FALSE
      OBVIOUS
    <3>2. image.group[q].frame_num = 0
      BY <3>1 DEF BareStartCode
    <3> QED
      BY <2>1, <3>2
  <2>3. PICK i \in 1 .. k : q = S[i]
    BY <2>1, <2>2 DEF Laid
  <2>4. Fits(i) /\ S[i] \in Nat
    BY <1>1, <1>3, <2>1, <2>3
  <2>5. S[i] + 48 <= m
    BY <2>1, <2>3, <2>4
  <2> QED
    BY <2>3, <2>4, <2>5
<1>5. ASSUME NEW i \in 1 .. k, Fits(i), S[i] + 48 <= m PROVE GroupHeaderParses(cut, S[i])
  <2>1. S[i] <= m /\ m - S[i] >= 48 /\ S[i] \in DOMAIN cut.group
    BY <1>3, <1>5
  <2>2. cut.group[S[i]].frame_num >= 4096
    BY <1>2, <1>3, <1>5
  <2>3. ValidGroupHeader(cut.group[S[i]])
    BY <1>3, <2>2 DEF ValidGroupHeader, IsKnownPictureMode
  <2> QED
    BY <1>1, <2>1, <2>3 DEF GroupHeaderParses
<1>6. ASSUME NEW i \in 1 .. k
      PROVE  /\ Fits(i) => GroupHeader(cut, S[i]).frame = plan[i].frame_num
             /\ GroupHeader(cut, S[i]).audio = plan[i].is_audio
             /\ GroupHeader(cut, S[i]).block_count = Len(plan[i].block_types)
  <2>1. /\ GroupHeader(cut, S[i]).frame = cut.group[S[i]].frame_num - 4096
        /\ GroupHeader(cut, S[i]).audio = (cut.group[S[i]].is_audio # 4096)
        /\ GroupHeader(cut, S[i]).block_count = cut.group[S[i]].block_number - 4096
    BY DEF GroupHeader
  <2>2. GroupHeader(cut, S[i]).audio = plan[i].is_audio
    <3>1. /\ plan[i].is_audio \in BOOLEAN
          /\ cut.group[S[i]].is_audio # 4096 <=> plan[i].is_audio
      BY <1>3
    <3> DEFINE marked == cut.group[S[i]].is_audio # 4096
               audio == plan[i].is_audio
    <3>2. (audio = TRUE \/ audio = FALSE) /\ (marked = TRUE \/ marked = FALSE)
      BY <3>1
    <3>3. (marked => audio) /\ (audio => marked)
      BY <3>1
    <3>4. GroupHeader(cut, S[i]).audio = marked
      BY <2>1
    <3> HIDE DEF marked, audio
    <3>5. marked = audio
      BY <3>2, <3>3
    <3>6. GroupHeader(cut, S[i]).audio = audio
      BY <3>4, <3>5
    <3> QED
      BY <3>6 DEF audio
  <2>3. Fits(i) => GroupHeader(cut, S[i]).frame = plan[i].frame_num
    <3>1. /\ plan[i].frame_num \in Nat
          /\ Fits(i) => cut.group[S[i]].frame_num = 4096 + plan[i].frame_num
      BY <1>3
    <3> QED
      BY <2>1, <3>1
  <2>4. GroupHeader(cut, S[i]).block_count = Len(plan[i].block_types)
    BY <1>3, <2>1
  <2> QED
    BY <2>2, <2>3, <2>4
<1> QED
  BY <1>4, <1>5, <1>6 DEF cut

(* A cursor that starts where the blocks start and goes from each to the   *)
(* next meets them all.                                                    *)
GoesAlong(c, at, n) == \A j \in 1 .. n : c[j - 1] = at[j] => c[j] = at[j + 1]
Meets(c, at, n) == \A j \in 0 .. n : c[j] = at[j + 1]

LEMMA SamePlaces ==
    ASSUME NEW n \in Nat, NEW c, NEW at, c[0] = at[1], GoesAlong(c, at, n)
    PROVE  Meets(c, at, n)
<1> DEFINE h == [j \in 0 .. n |-> IF c[j] = at[j + 1] THEN 0 ELSE 1]
           Same == {0}
<1>1. 0 \in Nat /\ 0 \in 0 .. n /\ 0 + 1 = 1
  OBVIOUS
<1>2. h[0] \in Same
  BY <1>1
<1>3. \A j \in 0 + 1 .. n : h[j - 1] \in Same => h[j] \in Same
  <2> SUFFICES ASSUME NEW j \in 0 + 1 .. n, h[j - 1] \in Same PROVE h[j] \in Same
    OBVIOUS
  <2>1. j - 1 \in 0 .. n /\ j \in 0 .. n /\ j \in 1 .. n /\ (j - 1) + 1 = j
    OBVIOUS
  <2> QED
    BY <2>1 DEF GoesAlong
<1>4. \A j \in 0 .. n : h[j] \in Same
  <2> HIDE DEF h, Same
  <2> QED
    BY <1>1, <1>2, <1>3, StaysIn
<1> QED
  BY <1>4 DEF Meets

(* A group is read where a representable group was put and is whole, block *)
(* for block, and nowhere else.                                            *)
ReadWhereWhole(cut, plan, k) ==
    LET S == Starts(plan, k)
        Whole(i) == Representable(plan[i]) /\ S[i + 1] <= cut.size
    IN  /\ \A q : GroupParses(cut, q) => \E i \in 1 .. k : q = S[i] /\ Whole(i)
        /\ \A i \in 1 .. k : Whole(i) => GroupParses(cut, S[i])
        /\ \A i \in 1 .. k : Whole(i) =>
              \A j \in 0 .. Len(plan[i].block_types) :
                  BlockCursor(cut, S[i])[j] = BlockOffset(plan[i], S[i])[j + 1]

(* So it is, however much of the file there is.                            *)
LEMMA GroupsOfCut ==
    ASSUME NEW plan \in Seq(GroupSpecs), NEW k \in Nat, k <= Len(plan),
           NEW image, Laid(image, plan, k), NEW m \in Nat
    PROVE  ReadWhereWhole(Truncated(image, m), plan, k)
<1> DEFINE cut == Truncated(image, m)
           S == Starts(plan, k)
           Whole(i) == Representable(plan[i]) /\ S[i + 1] <= m
<1>1. cut.size = m /\ cut.block = image.block /\ IsImage(cut)
  BY CutImage
<1>2. /\ \A q : GroupHeaderParses(cut, q) =>
             \E i \in 1 .. k : /\ q = S[i] /\ 4096 + plan[i].frame_num <= UIntMax
                               /\ S[i] + 48 <= m
      /\ \A i \in 1 .. k :
            /\ 4096 + plan[i].frame_num <= UIntMax /\ S[i] + 48 <= m => GroupHeaderParses(cut, S[i])
            /\ GroupHeader(cut, S[i]).block_count = Len(plan[i].block_types)
  BY HeadersOfCut
<1> HIDE DEF cut
<1>3. ASSUME NEW i \in 1 .. k
      PROVE  LET n == Len(plan[i].block_types)
                 at == BlockOffset(plan[i], S[i])
             IN  /\ S[i] \in Nat /\ S[i + 1] = at[n + 1] /\ S[i] + 48 <= S[i + 1]
                 /\ n \in Nat /\ n > 0
                 /\ at[1] = S[i] + 48
                 /\ \A j \in 1 .. n + 1 : at[j] \in Nat /\ 48 <= at[j] /\ at[j] <= at[n + 1]
                 /\ \A j \in 1 .. n :
                       /\ at[j + 1] = at[j] + 20 + ResolveBlockPayloadSize(plan[i], j)
                       /\ ResolveBlockPayloadSize(plan[i], j) \in Nat
                       /\ at[j] \in DOMAIN cut.block
                       /\ IsKnownBlockType(cut.block[at[j]].type)
                       /\ cut.block[at[j]].size = ResolveBlockPayloadSize(plan[i], j)
  <2> DEFINE spec == plan[i]
             n == Len(spec.block_types)
             at == BlockOffset(spec, S[i])
  <2>1. /\ spec \in GroupSpecs /\ S[i] \in Nat /\ S[i + 1] = GroupEnd(spec, S[i])
        /\ S[i] + 48 <= S[i + 1]
    BY StartsDefined
  <2>2. n > 0 /\ \A j \in 1 .. n : /\ at[j] \in DOMAIN cut.block
                                   /\ cut.block[at[j]].type = spec.block_types[j]
                                   /\ cut.block[at[j]].size = ResolveBlockPayloadSize(spec, j)
    BY <1>1 DEF Laid
  <2> HIDE DEF spec, S
  <2>3. n \in Nat /\ spec.block_types \in Seq(AudioBlockTypes \cup VideoBlockTypes)
        /\ \A j \in Nat \ {0} : ResolveBlockPayloadSize(spec, j) \in Nat
    BY <2>1, SpecFields
  <2>4. /\ at[1] = S[i] + 48
        /\ \A j \in 1 .. n : at[j + 1] = at[j] + 20 + ResolveBlockPayloadSize(spec, j)
    BY <2>1, BlockOffsetDefined
  <2>5. /\ \A j \in 1 .. n + 1 : at[j] \in Nat /\ S[i] + 48 <= at[j]
        /\ \A j \in 1 .. n + 1 : \A l \in j .. n + 1 : at[j] <= at[l]
        /\ GroupEnd(spec, S[i]) = at[n + 1]
    BY <2>1, BlocksApart
  <2>6. \A j \in 1 .. n : IsKnownBlockType(spec.block_types[j])
    <3>1. \A T : \A s \in Seq(T) : \A j \in 1 .. Len(s) : s[j] \in T
      OBVIOUS
    <3>2. \A j \in 1 .. n : spec.block_types[j] \in AudioBlockTypes \cup VideoBlockTypes
      BY <2>3, <3>1, Zenon
    <3> QED
      BY <3>2 DEF IsKnownBlockType
  <2> HIDE DEF n, at
  <2>7. \A j \in 1 .. n + 1 : 48 <= at[j] /\ at[j] <= at[n + 1]
    <3> SUFFICES ASSUME NEW j \in 1 .. n + 1 PROVE 48 <= at[j] /\ at[j] <= at[n + 1]
      OBVIOUS
    <3>1. n + 1 \in j .. n + 1
      BY <2>3
    <3>2. at[j] \in Nat /\ S[i] + 48 <= at[j] /\ at[j] <= at[n + 1]
      BY <2>5, <3>1
    <3> QED
      BY <2>1, <3>2
  <2>8. \A j \in 1 .. n : /\ ResolveBlockPayloadSize(spec, j) \in Nat
                          /\ IsKnownBlockType(cut.block[at[j]].type)
    <3>1. \A j \in 1 .. n : j \in Nat \ {0}
      OBVIOUS
    <3> QED
      BY <2>2, <2>3, <2>6, <3>1
  <2> QED
    BY <2>1, <2>2, <2>3, <2>4, <2>5, <2>7, <2>8 DEF spec, n, at, S
<1>4. \A i \in 1 .. k : 4096 + plan[i].frame_num <= UIntMax
                        /\ Len(plan[i].block_types) <= MaxBlockCount <=> Representable(plan[i])
  BY DEF Representable
<1>5. ASSUME NEW q, GroupParses(cut, q) PROVE \E i \in 1 .. k : q = S[i] /\ Whole(i)
  <2>1. GroupHeaderParses(cut, q)
    BY <1>5 DEF GroupParses
  <2>2. PICK i \in 1 .. k : q = S[i] /\ 4096 + plan[i].frame_num <= UIntMax
    BY <1>2, <2>1
  <2> DEFINE n == Len(plan[i].block_types)
             at == BlockOffset(plan[i], S[i])
             cursor == BlockCursor(cut, q)
             count == GroupHeader(cut, q).block_count
  <2>3. /\ count \in 1 .. MaxBlockCount
        /\ cursor[0] = q + 48
        /\ \A j \in 1 .. count : cursor[j] = cursor[j - 1] + 20 + cut.block[cursor[j - 1]].size
        /\ cursor[count] <= cut.size
    <3>1. IsImage(cut)
      BY <1>1
    <3> QED
      BY <1>5, <3>1, BlocksOfGroup
  <2>4. count = n
    BY <1>2, <2>2
  <2>5. /\ S[i + 1] = at[n + 1] /\ n \in Nat /\ at[1] = S[i] + 48
        /\ \A j \in 1 .. n : /\ at[j + 1] = at[j] + 20 + ResolveBlockPayloadSize(plan[i], j)
                             /\ cut.block[at[j]].size = ResolveBlockPayloadSize(plan[i], j)
    BY <1>3
  <2>6. Representable(plan[i])
    <3>1. n <= MaxBlockCount
      BY <2>3, <2>4, FormatAssumption
    <3> QED
      BY <1>4, <2>2, <3>1
  <2> HIDE DEF n, at, cursor, count, S
  <2>7. cursor[n] = at[n + 1]
    <3>1. GoesAlong(cursor, at, n)
      BY <2>3, <2>4, <2>5 DEF GoesAlong
    <3>2. Meets(cursor, at, n)
      <4>1. n \in Nat /\ cursor[0] = at[1]
        BY <2>2, <2>3, <2>5
      <4> QED
        BY <4>1, <3>1, SamePlaces
    <3>3. n \in 0 .. n
      BY <2>5
    <3> QED
      BY <3>2, <3>3 DEF Meets
  <2> QED
    BY <1>1, <2>2, <2>3, <2>4, <2>5, <2>6, <2>7
<1>6. ASSUME NEW i \in 1 .. k, Whole(i)
      PROVE  /\ GroupParses(cut, S[i])
             /\ \A j \in 0 .. Len(plan[i].block_types) :
                   BlockCursor(cut, S[i])[j] = BlockOffset(plan[i], S[i])[j + 1]
  <2> DEFINE n == Len(plan[i].block_types)
             at == BlockOffset(plan[i], S[i])
             o == S[i]
             cursor == BlockCursor(cut, o)
  <2>1. /\ S[i] \in Nat /\ S[i + 1] = at[n + 1] /\ S[i] + 48 <= S[i + 1]
        /\ n \in Nat /\ n > 0
        /\ at[1] = S[i] + 48
        /\ \A j \in 1 .. n + 1 : at[j] \in Nat /\ 48 <= at[j] /\ at[j] <= at[n + 1]
    BY <1>3
  <2>10. \A j \in 1 .. n :
              /\ at[j + 1] = at[j] + 20 + ResolveBlockPayloadSize(plan[i], j)
              /\ ResolveBlockPayloadSize(plan[i], j) \in Nat
              /\ at[j] \in DOMAIN cut.block
              /\ IsKnownBlockType(cut.block[at[j]].type)
              /\ cut.block[at[j]].size = ResolveBlockPayloadSize(plan[i], j)
    BY <1>3
  <2>2. /\ 4096 + plan[i].frame_num <= UIntMax /\ n <= MaxBlockCount /\ S[i + 1] <= m
    BY <1>4, <1>6
  <2>3. n + 1 \in 1 .. n + 1 /\ at[n + 1] \in Nat /\ S[i] + 48 <= m
    <3>1. n + 1 \in 1 .. n + 1
      BY <2>1
    <3>2. at[n + 1] \in Nat
      BY <2>1, <3>1
    <3> HIDE DEF n, at, S
    <3> QED
      BY <2>1, <2>2, <3>1, <3>2
  <2>4. GroupHeaderParses(cut, S[i]) /\ GroupHeader(cut, S[i]).block_count = n
    BY <1>2, <2>2, <2>3
  <2>5. /\ cursor[0] = o + 48
        /\ \A j \in 1 .. n :
              cursor[j] = IF cursor[j - 1] # 0 /\ BlockHeaderParses(cut, cursor[j - 1])
                          THEN cursor[j - 1] + 20 + cut.block[cursor[j - 1]].size ELSE 0
    <3> DEFINE count == GroupHeader(cut, o).block_count
    <3>1. o \in Nat /\ count \in Nat /\ count = n
      BY <2>1, <2>4
    <3> HIDE DEF o, n
    <3>2. /\ cursor[0] = o + 48
          /\ \A j \in 1 .. count :
                cursor[j] = IF cursor[j - 1] # 0 /\ BlockHeaderParses(cut, cursor[j - 1])
                            THEN cursor[j - 1] + 20 + cut.block[cursor[j - 1]].size ELSE 0
      <4>1. IsImage(cut)
        BY <1>1
      <4> QED
        BY <3>1, <4>1, BlockCursorDefined
    <3> QED
      BY <3>1, <3>2
  <2> HIDE DEF n, at, cursor, S
  <2>6. ASSUME NEW j \in 1 .. n, cursor[j - 1] = at[j] PROVE cursor[j] = at[j + 1]
    <3>1. j \in 1 .. n + 1 /\ j + 1 \in 1 .. n + 1
      BY <2>1
    <3>2. /\ at[j] \in Nat /\ 48 <= at[j] /\ at[j + 1] \in Nat /\ at[j + 1] <= m
      <4>1. at[j + 1] \in Nat /\ at[j + 1] <= at[n + 1] /\ at[n + 1] <= m
        BY <2>1, <2>2, <3>1
      <4> QED
        BY <2>1, <2>3, <3>1, <4>1
    <3>3. BlockHeaderParses(cut, at[j])
      <4> DEFINE size == cut.block[at[j]].size
      <4>1. size \in Nat /\ at[j + 1] = at[j] + 20 + size
        BY <2>10
      <4>2. at[j] <= m /\ m - at[j] >= 20 /\ m - at[j] >= 20 + size
        <5> HIDE DEF size
        <5> QED
          BY <3>2, <4>1
      <4> QED
        BY <1>1, <2>10, <4>2 DEF BlockHeaderParses
    <3>4. at[j + 1] = at[j] + 20 + cut.block[at[j]].size
      BY <2>10
    <3>5. at[j] # 0
      BY <3>2
    <3> QED
      BY <2>5, <2>6, <3>3, <3>4, <3>5
  <2>7. \A j \in 0 .. n : cursor[j] = at[j + 1]
    <3>1. cursor[0] = at[1] /\ n \in Nat
      BY <2>1, <2>5 DEF o
    <3>2. GoesAlong(cursor, at, n)
      BY <2>6 DEF GoesAlong
    <3> QED
      BY <3>1, <3>2, SamePlaces DEF Meets
  <2>8. n \in 0 .. n /\ n \in 1 .. MaxBlockCount
    BY <2>1, <2>2, FormatAssumption
  <2>9. cursor[n] # 0
    BY <2>1, <2>3, <2>7, <2>8
  <2> QED
    BY <2>4, <2>7, <2>8, <2>9 DEF GroupParses, n, at, cursor, S, o
<1>7. cut.size = m
  BY <1>1
<1> HIDE DEF cut
<1>8. ReadWhereWhole(cut, plan, k)
  <2> HIDE DEF S, Whole
  <2>1. /\ \A i \in 1 .. k : Whole(i) => GroupParses(cut, S[i])
        /\ \A i \in 1 .. k : Whole(i) =>
              \A j \in 0 .. Len(plan[i].block_types) :
                  BlockCursor(cut, S[i])[j] = BlockOffset(plan[i], S[i])[j + 1]
    BY <1>6
  <2> QED
    BY <1>5, <1>7, <2>1 DEF ReadWhereWhole, S, Whole
<1> QED
  BY <1>8 DEF cut

(* The tables of a view, entry by entry. *)
LEMMA ViewFields ==
    ASSUME NEW image
    PROVE  LET f == View(image)
           IN  /\ f.size = image.size /\ f.header = FileHeaderParses(image)
               /\ \A o : o \in DOMAIN f.heads <=> GroupHeaderParses(image, o)
               /\ \A o \in DOMAIN f.heads : f.heads[o].frame = GroupHeader(image, o).frame
               /\ \A o : o \in DOMAIN f.groups <=> GroupParses(image, o)
               /\ \A o \in DOMAIN f.groups :
                     LET count == GroupHeader(image, o).block_count
                         cursor == BlockCursor(image, o)
                     IN  /\ f.groups[o].frame = GroupHeader(image, o).frame
                         /\ f.groups[o].audio = GroupHeader(image, o).audio
                         /\ f.groups[o].next = cursor[count]
                         /\ f.groups[o].blocks =
                               [i \in 1 .. count |->
                                  [video |-> IsVideoBlockType(image.block[cursor[i - 1]].type),
                                   at    |-> cursor[i - 1],
                                   size  |-> image.block[cursor[i - 1]].size]]
<1> DEFINE heads == {o \in DOMAIN image.group : GroupHeaderParses(image, o)}
           whole == {o \in heads : GroupParses(image, o)}
           groups == [o \in whole |-> ParsedGroup(image, o)]
           next == NextNonAudio(groups)
           f == View(image)
           seen == [o \in heads |-> [frame |-> GroupHeader(image, o).frame,
                                     audio |-> GroupHeader(image, o).audio]]
           codes == {o \in DOMAIN image.group : HasGroupStartCodeAt(image, o)}
           full == [o \in whole |->
                        [frame    |-> groups[o].frame,
                         audio    |-> groups[o].audio,
                         next     |-> groups[o].next,
                         blocks   |-> groups[o].blocks,
                         follower |-> next[o]]]
<1>1. f = [size |-> image.size, header |-> FileHeaderParses(image),
           codes |-> codes, heads |-> seen, groups |-> full]
  BY DEF View
<1>2. /\ f.size = image.size /\ f.header = FileHeaderParses(image)
      /\ f.heads = seen /\ f.groups = full
  BY <1>1
<1> HIDE DEF f
<1>3. /\ \A o : o \in heads <=> GroupHeaderParses(image, o)
      /\ \A o : o \in whole <=> GroupParses(image, o)
  BY DEF GroupHeaderParses, GroupParses
<1> HIDE DEF heads
<1>4. DOMAIN seen = heads /\ \A o \in heads : seen[o].frame = GroupHeader(image, o).frame
  OBVIOUS
<1> HIDE DEF whole, seen, next
<1>5. ASSUME NEW o \in whole
      PROVE  /\ full[o].frame = ParsedGroup(image, o).frame
             /\ full[o].audio = ParsedGroup(image, o).audio
             /\ full[o].next = ParsedGroup(image, o).next
             /\ full[o].blocks = ParsedGroup(image, o).blocks
  <2>1. groups[o] = ParsedGroup(image, o)
    OBVIOUS
  <2> HIDE DEF groups
  <2> QED
    BY <2>1
<1>6. DOMAIN full = whole
  OBVIOUS
<1> HIDE DEF full
<1>7. ASSUME NEW o
      PROVE  LET count == GroupHeader(image, o).block_count
                 cursor == BlockCursor(image, o)
             IN  /\ ParsedGroup(image, o).frame = GroupHeader(image, o).frame
                 /\ ParsedGroup(image, o).audio = GroupHeader(image, o).audio
                 /\ ParsedGroup(image, o).next = cursor[count]
                 /\ ParsedGroup(image, o).blocks =
                       [i \in 1 .. count |->
                          [video |-> IsVideoBlockType(image.block[cursor[i - 1]].type),
                           at    |-> cursor[i - 1],
                           size  |-> image.block[cursor[i - 1]].size]]
  BY DEF ParsedGroup
<1> QED
  BY <1>2, <1>3, <1>4, <1>5, <1>6, <1>7 DEF f

(* The view of a file of encoded groups, cut anywhere or not at all. *)
IsViewOf(f, plan, k, m) ==
    LET S == Starts(plan, k)
        Whole(i) == Representable(plan[i]) /\ S[i + 1] <= m
    IN  /\ f.size = m
        /\ DOMAIN f.groups = {S[i] : i \in {j \in 1 .. k : Whole(j)}}
        /\ \A i \in 1 .. k : S[i] \in DOMAIN f.heads => f.heads[S[i]].frame = plan[i].frame_num
        /\ \A i \in 1 .. k : Whole(i) =>
              LET group == f.groups[S[i]]
                  n == Len(plan[i].block_types)
              IN  /\ group.frame = plan[i].frame_num /\ group.audio = plan[i].is_audio
                  /\ group.next = S[i + 1]
                  /\ Len(group.blocks) = n
                  /\ \A j \in 1 .. n :
                        /\ group.blocks[j].video = (plan[i].block_types[j] \in VideoBlockTypes)
                        /\ group.blocks[j].size = ResolveBlockPayloadSize(plan[i], j)
        /\ Search!IsView(f)

THEOREM CutFilesAreReadAsWritten ==
    ASSUME NEW plan \in Seq(GroupSpecs), NEW k \in Nat, k <= Len(plan),
           NEW image, Laid(image, plan, k), NEW m \in Nat
    PROVE  IsViewOf(View(Truncated(image, m)), plan, k, m)
<1> DEFINE cut == Truncated(image, m)
           f == View(cut)
           S == Starts(plan, k)
           Whole(i) == Representable(plan[i]) /\ S[i + 1] <= m
<1>1. cut.size = m /\ IsImage(cut) /\ cut.block = image.block
  BY CutImage
<1>2. /\ \A q : GroupHeaderParses(cut, q) =>
             \E i \in 1 .. k : q = S[i] /\ 4096 + plan[i].frame_num <= UIntMax
      /\ \A i \in 1 .. k :
            /\ 4096 + plan[i].frame_num <= UIntMax => GroupHeader(cut, S[i]).frame = plan[i].frame_num
            /\ GroupHeader(cut, S[i]).audio = plan[i].is_audio
            /\ GroupHeader(cut, S[i]).block_count = Len(plan[i].block_types)
  BY HeadersOfCut
<1>3. ReadWhereWhole(cut, plan, k)
  BY GroupsOfCut
<1> HIDE DEF cut, S, Whole
<1>4. /\ \A q : GroupParses(cut, q) => \E i \in 1 .. k : q = S[i] /\ Whole(i)
      /\ \A i \in 1 .. k : Whole(i) => GroupParses(cut, S[i])
  BY <1>1, <1>3 DEF ReadWhereWhole, S, Whole
<1>5. \A i \in 1 .. k : Whole(i) =>
           \A j \in 0 .. Len(plan[i].block_types) :
                BlockCursor(cut, S[i])[j] = BlockOffset(plan[i], S[i])[j + 1]
  BY <1>1, <1>3 DEF ReadWhereWhole, S, Whole
<1> USE DEF S, Whole
<1>6. Search!IsView(f)
  BY <1>1, ParsersGiveAView
<1>7. /\ f.size = cut.size
      /\ \A o : o \in DOMAIN f.heads <=> GroupHeaderParses(cut, o)
      /\ \A o \in DOMAIN f.heads : f.heads[o].frame = GroupHeader(cut, o).frame
      /\ \A o : o \in DOMAIN f.groups <=> GroupParses(cut, o)
  BY ViewFields
<1>8. \A o \in DOMAIN f.groups :
          /\ f.groups[o].frame = GroupHeader(cut, o).frame
          /\ f.groups[o].audio = GroupHeader(cut, o).audio
          /\ f.groups[o].next = BlockCursor(cut, o)[GroupHeader(cut, o).block_count]
  BY ViewFields
<1>9. \A o \in DOMAIN f.groups :
          f.groups[o].blocks =
                [i \in 1 .. GroupHeader(cut, o).block_count |->
                   [video |-> IsVideoBlockType(cut.block[BlockCursor(cut, o)[i - 1]].type),
                    at    |-> BlockCursor(cut, o)[i - 1],
                    size  |-> cut.block[BlockCursor(cut, o)[i - 1]].size]]
  BY ViewFields
<1> HIDE DEF f
<1>10. DOMAIN f.groups = {S[i] : i \in {j \in 1 .. k : Whole(j)}}
  BY <1>4, <1>7
<1>11. ASSUME NEW i \in 1 .. k, NEW j \in 1 .. k, S[i] = S[j] PROVE i = j
  <2>1. \A a \in 1 .. k : \A b \in a + 1 .. k + 1 : S[a] + 48 <= S[b]
    BY StartsApart
  <2>2. \A a \in 1 .. k : S[a] \in Nat
    BY StartsDefined
  <2> HIDE DEF S
  <2>3. ASSUME NEW a \in 1 .. k, NEW b \in 1 .. k, a < b PROVE S[a] # S[b]
    <3>1. b \in a + 1 .. k + 1
      BY <2>3
    <3>2. S[a] + 48 <= S[b] /\ S[a] \in Nat /\ S[b] \in Nat
      BY <2>1, <2>2, <3>1
    <3> QED
      BY <3>2
  <2>4. i < j \/ j < i \/ i = j
    OBVIOUS
  <2> QED
    BY <1>11, <2>3, <2>4
<1>12. ASSUME NEW i \in 1 .. k, S[i] \in DOMAIN f.heads
      PROVE  f.heads[S[i]].frame = plan[i].frame_num
  <2>1. GroupHeaderParses(cut, S[i])
    BY <1>7, <1>12
  <2>2. PICK j \in 1 .. k : S[i] = S[j] /\ 4096 + plan[j].frame_num <= UIntMax
    BY <1>2, <2>1
  <2>3. i = j
    BY <1>11, <2>2
  <2> QED
    BY <1>2, <1>7, <1>12, <2>2, <2>3
<1>13. ASSUME NEW i \in 1 .. k, Whole(i)
       PROVE  LET group == f.groups[S[i]]
                  n == Len(plan[i].block_types)
              IN  /\ group.frame = plan[i].frame_num /\ group.audio = plan[i].is_audio
                  /\ group.next = S[i + 1]
                  /\ Len(group.blocks) = n
                  /\ \A j \in 1 .. n :
                        /\ group.blocks[j].video = (plan[i].block_types[j] \in VideoBlockTypes)
                        /\ group.blocks[j].size = ResolveBlockPayloadSize(plan[i], j)
  <2> DEFINE o == S[i]
             n == Len(plan[i].block_types)
             at == BlockOffset(plan[i], o)
             cursor == BlockCursor(cut, o)
             B == f.groups[o].blocks
  <2>1. o \in DOMAIN f.groups
    BY <1>10, <1>13
  <2>2. /\ plan[i] \in GroupSpecs /\ o \in Nat /\ S[i + 1] = GroupEnd(plan[i], o)
    BY StartsDefined
  <2>3. n \in Nat /\ GroupEnd(plan[i], o) = at[n + 1]
    BY <2>2, SpecFields DEF GroupEnd
  <2>4. \A j \in 0 .. n : cursor[j] = at[j + 1]
    BY <1>13, <1>5
  <2>5. GroupHeader(cut, o).block_count = n /\ 4096 + plan[i].frame_num <= UIntMax
    BY <1>2, <1>13 DEF Representable
  <2>6. /\ f.groups[o].frame = plan[i].frame_num /\ f.groups[o].audio = plan[i].is_audio
    BY <1>2, <1>8, <2>1, <2>5
  <2>7. f.groups[o].next = cursor[n]
    BY <1>8, <2>1, <2>5
  <2>8. f.groups[o].next = S[i + 1]
    <3>1. n \in 0 .. n
      BY <2>3
    <3> HIDE DEF o, n, at, cursor, S
    <3> QED
      BY <2>2, <2>3, <2>4, <2>7, <3>1
  <2>9. B = [j \in 1 .. n |-> [video |-> IsVideoBlockType(cut.block[cursor[j - 1]].type),
                               at    |-> cursor[j - 1],
                               size  |-> cut.block[cursor[j - 1]].size]]
    <3>1. B = [j \in 1 .. GroupHeader(cut, o).block_count |->
                  [video |-> IsVideoBlockType(cut.block[cursor[j - 1]].type),
                   at    |-> cursor[j - 1],
                   size  |-> cut.block[cursor[j - 1]].size]]
      BY <1>9, <2>1
    <3> HIDE DEF B, cursor, n, o
    <3> QED
      BY <2>5, <3>1
  <2>10. \A j \in 1 .. n : /\ cut.block[at[j]].type = plan[i].block_types[j]
                           /\ cut.block[at[j]].size = ResolveBlockPayloadSize(plan[i], j)
    BY <1>1 DEF Laid
  <2> HIDE DEF o, n, at, cursor, B
  <2>11. ASSUME NEW j \in 1 .. n
         PROVE  /\ B[j].video = (plan[i].block_types[j] \in VideoBlockTypes)
                /\ B[j].size = ResolveBlockPayloadSize(plan[i], j)
    <3>1. j - 1 \in 0 .. n /\ (j - 1) + 1 = j
      BY <2>3
    <3>2. cursor[j - 1] = at[j]
      BY <2>4, <3>1
    <3>3. B[j] = [video |-> IsVideoBlockType(cut.block[at[j]].type),
                  at |-> at[j], size |-> cut.block[at[j]].size]
      BY <2>9, <3>2
    <3>4. IsVideoBlockType(cut.block[at[j]].type) = (plan[i].block_types[j] \in VideoBlockTypes)
      BY <2>10 DEF IsVideoBlockType
    <3> QED
      BY <2>10, <3>3, <3>4
  <2>12. Len(B) = n
    <3> DEFINE body(j) == [video |-> IsVideoBlockType(cut.block[cursor[j - 1]].type),
                           at    |-> cursor[j - 1],
                           size  |-> cut.block[cursor[j - 1]].size]
    <3>1. B = [j \in 1 .. n |-> body(j)]
      BY <2>9
    <3> HIDE DEF body
    <3> QED
      BY <2>3, <3>1
  <2> QED
    BY <2>6, <2>8, <2>11, <2>12 DEF o, n, B
<1> QED
  BY <1>1, <1>6, <1>7, <1>10, <1>12, <1>13 DEF IsViewOf, f, cut
=============================================================================
