---------------------------- MODULE GroupParser ----------------------------
(***************************************************************************)
(* ParseGroupAt and FindNextNonAudioGroup of frame_locator_internal.cpp,   *)
(* and the "view" of a file they give.  A mapped file never changes, so    *)
(* what each parser returns at each offset is tabulated once; the search   *)
(* of module FrameLocator reads the table where the code calls the parser. *)
(***************************************************************************)
EXTENDS Mp4Format

(* The offset that stands for "no such group": below every group. *)
NoGroup == 0

(* Mutant: the block header is not counted.                                *)
BlockCursorOfPayloads(image, offset) ==
    LET count == GroupHeader(image, offset).block_count
        cursor[i \in 0 .. count] ==
            IF i = 0 THEN offset + kGroupHeaderSize
            ELSE IF cursor[i - 1] # NoGroup /\ BlockHeaderParses(image, cursor[i - 1])
            THEN cursor[i - 1] + image.block[cursor[i - 1]].size
            ELSE NoGroup
    IN  cursor

(* The cursor of ParseGroupAt after each block of the group, or NoGroup    *)
(* once a block header has failed to parse.                                *)
BlockCursor(image, offset) ==
    LET count == GroupHeader(image, offset).block_count
        cursor[i \in 0 .. count] ==
            IF i = 0 THEN offset + kGroupHeaderSize
            ELSE IF cursor[i - 1] # NoGroup /\ BlockHeaderParses(image, cursor[i - 1])
            THEN cursor[i - 1] + kBlockHeaderSize + image.block[cursor[i - 1]].size
            ELSE NoGroup
    IN  cursor

(* ParseGroupAt succeeds: a header, a reasonable count, and every block.   *)
GroupParses(image, offset) ==
    /\ GroupHeaderParses(image, offset)
    /\ GroupHeader(image, offset).block_count \in 1 .. MaxBlockCount
    /\ BlockCursor(image, offset)[GroupHeader(image, offset).block_count] # NoGroup

(* The group ParseGroupAt returns, with the blocks it walked over. *)
ParsedGroup(image, offset) ==
    LET header == GroupHeader(image, offset)
        cursor == BlockCursor(image, offset)
    IN  [frame  |-> header.frame,
         audio  |-> header.audio,
         next   |-> cursor[header.block_count],
         blocks |-> [i \in 1 .. header.block_count |->
                        [video |-> IsVideoBlockType(image.block[cursor[i - 1]].type),
                         at    |-> cursor[i - 1],
                         size  |-> image.block[cursor[i - 1]].size]]]

(* Mutant: the next group is taken, audio or not.                          *)
NextOfAnyKind(groups) ==
    [o \in DOMAIN groups |-> IF groups[o].next \in DOMAIN groups THEN groups[o].next ELSE NoGroup]

(* FindNextNonAudioGroup, for every group: the first group after it that   *)
(* is not audio, NoGroup if the walk ends or meets bytes that do not parse.*)
NextNonAudio(groups) ==
    LET first[o \in DOMAIN groups] ==
            IF ~ groups[o].audio THEN o
            ELSE IF groups[o].next \in DOMAIN groups THEN first[groups[o].next]
            ELSE NoGroup
    IN  [o \in DOMAIN groups |->
            IF groups[o].next \in DOMAIN groups THEN first[groups[o].next] ELSE NoGroup]

(* What the parsers return for a file:                                     *)
(*   header  ParseFileHeader succeeds                                      *)
(*   codes   the offsets with a group start code                           *)
(*   heads   offset -> the header, where ParseGroupHeader succeeds         *)
(*   groups  offset -> the group, where ParseGroupAt succeeds              *)
View(image) ==
    LET heads  == {o \in DOMAIN image.group : GroupHeaderParses(image, o)}
        whole  == {o \in heads : GroupParses(image, o)}
        groups == [o \in whole |-> ParsedGroup(image, o)]
        next   == NextNonAudio(groups)
    IN  [size   |-> image.size,
         header |-> FileHeaderParses(image),
         codes  |-> {o \in DOMAIN image.group : HasGroupStartCodeAt(image, o)},
         heads  |-> [o \in heads |-> [frame |-> GroupHeader(image, o).frame,
                                      audio |-> GroupHeader(image, o).audio]],
         groups |-> [o \in whole |->
                        [frame    |-> groups[o].frame,
                         audio    |-> groups[o].audio,
                         next     |-> groups[o].next,
                         blocks   |-> groups[o].blocks,
                         follower |-> next[o]]]]
=============================================================================
